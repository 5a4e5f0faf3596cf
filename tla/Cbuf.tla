-------------------------------- MODULE Cbuf --------------------------------
(***************************************************************************)
(* The circular buffer of lib/cbuf/cbuf.c with the event its blocking      *)
(* readers wait on (kernel/event.c).  The hypervisor's event channel and   *)
(* the console input are made of it.                                       *)
(*                                                                         *)
(* cbuf_write and cbuf_read work in passes under the spin lock: a pass     *)
(* copies one contiguous run of cells and moves head or tail.  A step is   *)
(* one pass, or the taking or giving back of the lock with the event call  *)
(* made just before.  cbuf_write_char and cbuf_read_char do what a write   *)
(* or a read of one cell does; cbuf_reset is a read of everything.         *)
(***************************************************************************)
EXTENDS Integers, Sequences, FiniteSets

CONSTANTS
  Writer, Reader,  \* the threads and handlers that use the buffer
  Data,            \* what a cell may hold
  Payload,         \* the data a writer may write
  Want,            \* the lengths a reader may ask for
  LenPow2          \* cbuf->len_pow2

Size == 2 ^ LenPow2     \* valpow2(cbuf->len_pow2)
Junk  == "junk"         \* a cell of the buffer nobody wrote yet
Free  == "free"         \* the lock is not held

ASSUME CbufAssumption ==
  /\ LenPow2 \in Nat /\ LenPow2 > 0
  /\ Size \in Nat /\ Size > 1   \* a power of two, of which the proofs use no more
  /\ Junk \notin Data /\ Free \notin Writer \cup Reader
  /\ Writer \cap Reader = {}
  \* DEBUG_ASSERT(len < valpow2(cbuf->len_pow2)) in cbuf_write
  /\ Payload \subseteq Seq(Data) /\ \A s \in Payload : Len(s) < Size
  /\ Want \subseteq Nat \ {0}

VARIABLES
  buf, head, tail,
  signaled,  \* cbuf->event
  lock,      \* cbuf->lock: its holder
  pc,        \* where each caller is
  wop,       \* cbuf_write of each writer: data, pos, passes made
  rop        \* cbuf_read of each reader: buflen, block, cells read, passes

vars == <<buf, head, tail, signaled, lock, pc, wop, rop>>

Caller == Writer \cup Reader
Cells  == 0 .. (Size - 1)

Init ==
  /\ buf = [n \in Cells |-> Junk] /\ head = 0 /\ tail = 0
  /\ signaled = FALSE /\ lock = Free
  /\ pc = [a \in Caller |-> "idle"]
  /\ wop = [w \in Writer |-> [data |-> <<>>, pos |-> 0, passes |-> 0]]
  /\ rop = [r \in Reader |->
              [want |-> 0, block |-> FALSE, out |-> <<>>, passes |-> 0]]

INC_POINTER(ptr, inc) == (ptr + inc) % Size
cbuf_space_used  == (head - tail) % Size
cbuf_space_avail == Size - cbuf_space_used - 1

MIN(a, b) == IF a < b THEN a ELSE b

-----------------------------------------------------------------------------
(* cbuf_write.                                                             *)

CallWrite(w) ==
  /\ pc[w] = "idle"
  /\ \E s \in Payload :
       wop' = [wop EXCEPT ![w] = [data |-> s, pos |-> 0, passes |-> 0]]
  /\ pc' = [pc EXCEPT ![w] = "lock"]
  /\ UNCHANGED <<buf, head, tail, signaled, lock, rop>>

Lock(a) ==
  /\ pc[a] = "lock" /\ lock = Free
  /\ lock' = a
  /\ pc' = [pc EXCEPT ![a] = "copy"]
  /\ UNCHANGED <<buf, head, tail, signaled, wop, rop>>

\* write_len without the special case of a tail at position 0
write_len_to_end(w) ==
  LET left == Len(wop[w].data) - wop[w].pos IN
  IF head >= tail THEN MIN(Size - head, left) ELSE MIN(tail - head - 1, left)

\* How many cells one pass may write
write_len(w) ==
  LET left == Len(wop[w].data) - wop[w].pos IN
  CASE head >= tail /\ tail = 0 -> MIN(Size - head - 1, left)
    [] head >= tail /\ tail # 0 -> MIN(Size - head, left)
    [] head < tail              -> MIN(tail - head - 1, left)

WriteMore(w) ==
  /\ wop[w].pos < Len(wop[w].data)
  /\ cbuf_space_avail > 0
  /\ write_len(w) > 0

WritePass(w) ==
  LET n == write_len(w) IN
  /\ pc[w] = "copy" /\ WriteMore(w)
  /\ buf' = [c \in Cells |-> IF c \in head .. (head + n - 1)
                             THEN wop[w].data[wop[w].pos + (c - head) + 1]
                             ELSE buf[c]]
  /\ head' = INC_POINTER(head, n)
  /\ wop' = [wop EXCEPT ![w].pos = @ + n, ![w].passes = @ + 1]
  /\ UNCHANGED <<tail, signaled, lock, pc, rop>>

\* event_signal: all waiting threads proceed
event_signal(who) ==
  /\ signaled' = TRUE
  /\ pc' = [a \in Caller |->
              CASE a = who -> "idle"
                [] a # who /\ pc[a] = "blocked" /\ ~signaled -> "lock"
                [] OTHER -> pc[a]]

\* The call's locals go; what it returns is pos
CloseWrite(w) ==
  wop' = [wop EXCEPT ![w].data = <<>>, ![w].passes = 0]

EndWrite(w) ==
  /\ pc[w] = "copy" /\ ~WriteMore(w)
  /\ lock' = Free /\ CloseWrite(w)
  /\ IF head # tail
     THEN event_signal(w)
     ELSE pc' = [pc EXCEPT ![w] = "idle"] /\ UNCHANGED signaled
  /\ UNCHANGED <<buf, head, tail, rop>>

-----------------------------------------------------------------------------
(* cbuf_read.                                                              *)

CallRead(r) ==
  /\ pc[r] = "idle"
  /\ \E n \in Want, block \in BOOLEAN :
       /\ rop' = [rop EXCEPT ![r] =
                    [want |-> n, block |-> block, out |-> <<>>, passes |-> 0]]
       /\ pc' = [pc EXCEPT ![r] = IF block THEN "wait" ELSE "lock"]
  /\ UNCHANGED <<buf, head, tail, signaled, lock, wop>>

\* event_wait, outside the lock
event_wait(r) ==
  /\ pc[r] = "wait"
  /\ pc' = [pc EXCEPT ![r] = IF signaled THEN "lock" ELSE "blocked"]
  /\ UNCHANGED <<buf, head, tail, signaled, lock, wop, rop>>

\* read_len with the last cell of the buffer left out
read_len_short(r) ==
  LET left == rop[r].want - Len(rop[r].out) IN
  IF head > tail THEN MIN(head - tail, left) ELSE MIN(Size - tail - 1, left)

read_len(r) ==
  LET left == rop[r].want - Len(rop[r].out) IN
  IF head > tail THEN MIN(head - tail, left) ELSE MIN(Size - tail, left)

ReadMore(r) == Len(rop[r].out) < rop[r].want /\ tail # head

ReadPass(r) ==
  LET n == read_len(r) IN
  /\ pc[r] = "copy" /\ ReadMore(r)
  /\ rop' = [rop EXCEPT ![r].out = @ \o [k \in 1 .. n |-> buf[tail + k - 1]],
                        ![r].passes = @ + 1]
  /\ tail' = INC_POINTER(tail, n)
  /\ UNCHANGED <<buf, head, signaled, lock, pc, wop>>

\* A blocking read that found nothing goes back to wait; otherwise the
\* call's locals go, and what it returns is out
CloseRead(r) ==
  LET retry == rop[r].block /\ rop[r].out = <<>> IN
  /\ pc' = [pc EXCEPT ![r] = IF retry THEN "wait" ELSE "idle"]
  /\ rop' = [rop EXCEPT ![r].want = IF retry THEN @ ELSE 0,
                        ![r].block = retry, ![r].passes = 0]

\* EndRead as it would be if it unsignalled the event after every read
EndReadAlways(r) ==
  /\ pc[r] = "copy" /\ ~ReadMore(r)
  /\ signaled' = FALSE
  /\ lock' = Free
  /\ CloseRead(r)
  /\ UNCHANGED <<buf, head, tail, wop>>

\* The event is unsignalled by the read that empties the buffer
EndRead(r) ==
  /\ pc[r] = "copy" /\ ~ReadMore(r)
  /\ signaled' = IF rop[r].out # <<>> /\ tail = head THEN FALSE ELSE signaled
  /\ lock' = Free
  /\ CloseRead(r)
  /\ UNCHANGED <<buf, head, tail, wop>>

-----------------------------------------------------------------------------
(* cbuf_peek: where the two regions start and how long they are.           *)

\* cbuf_peek without the second region
cbuf_peek_flat ==
  <<[base |-> tail, len |-> cbuf_space_used], [base |-> 0, len |-> 0]>>

cbuf_peek ==
  LET used == cbuf_space_used IN
  IF used + tail > Size
  THEN <<[base |-> tail, len |-> Size - tail],
         [base |-> 0, len |-> used - (Size - tail)]>>
  ELSE <<[base |-> tail, len |-> used], [base |-> 0, len |-> 0]>>

-----------------------------------------------------------------------------

Next ==
  \/ \E w \in Writer :
       CallWrite(w) \/ Lock(w) \/ WritePass(w) \/ EndWrite(w)
  \/ \E r \in Reader :
       CallRead(r) \/ event_wait(r) \/ Lock(r) \/ ReadPass(r) \/ EndRead(r)

Spec == Init /\ [][Next]_vars

-----------------------------------------------------------------------------
(* Properties.                                                             *)

\* The comment in cbuf_read: "at most this will make two passes to deal with
\* wraparound"; the same is true of cbuf_write.
TwoPasses ==
  /\ \A r \in Reader : rop[r].passes <= 2
  /\ \A w \in Writer : wop[w].passes <= 2

\* While nobody holds the lock the event tells whether there is data, so that
\* no reader sleeps while data is there: cbuf_read unsignals it under the
\* lock, but waits for it outside.
WakeupExact ==
  lock = Free =>
    /\ signaled <=> head # tail
    /\ head # tail => \A r \in Reader : pc[r] # "blocked"

\* The cells from tail to head, oldest first
Contents == [k \in 1 .. cbuf_space_used |-> buf[(tail + k - 1) % Size]]

\* The regions cbuf_peek reports lie inside the buffer, and are the contents
\* in order.
PeekExact ==
  LET R == cbuf_peek
      Region(x) == [k \in 1 .. x.len |-> buf[x.base + k - 1]] IN
  /\ \A k \in 1 .. 2 : R[k].base + R[k].len <= Size
  /\ Region(R[1]) \o Region(R[2]) = Contents

\* The queue as its users see it: what a call in progress has copied so far
\* is not yet written, and not yet taken
Committed ==
  CASE lock = Free      -> Contents
    [] lock \in Writer  -> SubSeq(Contents, 1,
                                  cbuf_space_used - wop[lock].pos)
    [] lock \in Reader  -> rop[lock].out \o Contents

Abstract == INSTANCE Fifo WITH
  Cap <- Size - 1,
  q  <- Committed,
  wr <- [w \in Writer |->
           [data |-> wop[w].data,
            n |-> IF pc[w] = "idle" THEN wop[w].pos ELSE -1]],
  rd <- [r \in Reader |->
           [want |-> rop[r].want, block |-> rop[r].block,
            busy |-> pc[r] # "idle",
            got |-> IF pc[r] = "idle" THEN rop[r].out ELSE <<>>]]

\* cbuf is the bounded queue its header describes: writes and reads are
\* indivisible, nothing is lost, repeated or reordered across the wraparound,
\* a write is cut short only by a full buffer and a blocking read never comes
\* back with nothing.
ImplementsFifo == Abstract!Spec
=============================================================================
