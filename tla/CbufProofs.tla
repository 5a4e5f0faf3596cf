----------------------------- MODULE CbufProofs -----------------------------
(***************************************************************************)
(* The circular buffer for every size, any number of readers and writers   *)
(* and any data: it is the bounded queue of module Fifo, a call makes at   *)
(* most two passes, no reader sleeps while there is data, and cbuf_peek    *)
(* reports what there is.                                                  *)
(***************************************************************************)
EXTENDS Cbuf, SequenceTheorems, TLAPS

Elem == Data \cup {Junk}   \* what a cell may hold

\* The values of the variables.
Types ==
  /\ buf \in [Cells -> Elem] /\ head \in Cells /\ tail \in Cells
  /\ signaled \in BOOLEAN /\ lock \in Caller \cup {Free}
  /\ pc \in [Caller -> {"idle", "lock", "copy", "wait", "blocked"}]
  /\ wop \in [Writer -> [data : Seq(Data), pos : Nat, passes : Nat]]
  /\ rop \in [Reader -> [want : Nat, block : BOOLEAN, out : Seq(Elem), passes : Nat]]

\* A call copies under the lock, and a call that has not got it copied nothing.
Callers ==
  /\ \A a \in Caller : pc[a] = "copy" <=> lock = a
  /\ \A w \in Writer :
       /\ pc[w] \in {"idle", "lock", "copy"}
       /\ pc[w] = "lock" => wop[w].pos = 0
       /\ pc[w] # "copy" => wop[w].passes = 0
       /\ pc[w] # "idle" => wop[w].pos <= Len(wop[w].data)
  /\ \A r \in Reader :
       /\ pc[r] \in {"lock", "wait", "blocked"} => rop[r].out = <<>>
       /\ pc[r] # "copy" => rop[r].passes = 0
       /\ pc[r] # "idle" => rop[r].want > 0 /\ Len(rop[r].out) <= rop[r].want

\* The newest cells are the ones the writer with the lock has copied.
Written ==
  \A w \in Writer : lock = w =>
    /\ wop[w].pos <= cbuf_space_used
    /\ \A k \in 1 .. wop[w].pos :
         buf[(tail + (cbuf_space_used - wop[w].pos + k) - 1) % Size] = wop[w].data[k]

\* What the passes of a call lead to: the first ends at the end of the buffer,
\* unless the call has no more to do.
Passes ==
  /\ \A w \in Writer : lock = w =>
       LET stuck == wop[w].pos = Len(wop[w].data) \/ cbuf_space_used = Size - 1 IN
       /\ wop[w].passes <= 2
       /\ wop[w].passes = 1 => stuck \/ (head = 0 /\ tail # 0)
       /\ wop[w].passes = 2 => stuck
  /\ \A r \in Reader : lock = r =>
       LET stuck == Len(rop[r].out) = rop[r].want \/ tail = head IN
       /\ rop[r].passes <= 2
       /\ rop[r].passes = 1 => stuck \/ tail = 0
       /\ rop[r].passes = 2 => stuck

\* The event while a call has the lock: it is signalled if there was data when
\* the call began, and nobody sleeps while it is signalled.
Wakeup ==
  /\ signaled => \A r \in Reader : pc[r] # "blocked"
  /\ lock = Free => (signaled <=> head # tail)
  /\ \A w \in Writer : lock = w => (signaled => head # tail)
  /\ \A r \in Reader : lock = r =>
       IF rop[r].out = <<>> THEN signaled <=> head # tail ELSE signaled

\* What the steps preserve together.
IInv == Types /\ Callers /\ Written /\ Passes /\ Wakeup

-----------------------------------------------------------------------------
(* The geometry of the buffer.                                             *)

\* The k-th oldest cell of a buffer with this tail.
Slot(t, k) == (t + k - 1) % Size

LEMMA ModSmall ==
  ASSUME NEW n \in Nat, n > 0, NEW x \in Int
  PROVE  /\ (0 <= x /\ x < n) => x % n = x
         /\ (n <= x /\ x < 2 * n) => x % n = x - n
         /\ (x < 0 /\ -n <= x) => x % n = x + n
  <1>1. (0 <= x /\ x < n) => x % n = x
    OBVIOUS
  <1>2. (n <= x /\ x < 2 * n) => x % n = x - n
    OBVIOUS
  <1>3. (x < 0 /\ -n <= x) => x % n = x + n
    OBVIOUS
  <1> QED BY <1>1, <1>2, <1>3

\* The size is all that is used of the assumption here.
LEMMA SizeFacts ==
  ASSUME CbufAssumption
  PROVE  Size \in Nat /\ Size > 1 /\ Cells = 0 .. (Size - 1)
  BY DEF CbufAssumption, Cells

\* cbuf_space_used of the pointers h and t.
LEMMA UsedIs ==
  ASSUME CbufAssumption, NEW h \in Cells, NEW t \in Cells
  PROVE  /\ (h - t) % Size = IF h >= t THEN h - t ELSE h - t + Size
         /\ (h - t) % Size \in 0 .. (Size - 1)
         /\ (h - t) % Size = 0 <=> h = t
  <1>1. Size \in Nat /\ Size > 0 /\ h \in 0 .. (Size - 1) /\ t \in 0 .. (Size - 1)
    BY SizeFacts
  <1>2. (h - t) % Size = IF h >= t THEN h - t ELSE h - t + Size
    <2>1. h - t \in Int /\ h - t < Size /\ -Size <= h - t
      BY ONLY <1>1
    <2>2. CASE h >= t
      <3>1. 0 <= h - t
        BY ONLY <1>1, <2>2
      <3> QED BY ONLY <1>1, <2>1, <2>2, <3>1, ModSmall
    <2>3. CASE ~(h >= t)
      <3>1. h - t < 0
        BY ONLY <1>1, <2>3
      <3> QED BY ONLY <1>1, <2>1, <2>3, <3>1, ModSmall
    <2> QED BY <2>2, <2>3
  <1>3. (IF h >= t THEN h - t ELSE h - t + Size) \in 0 .. (Size - 1)
    BY ONLY <1>1
  <1>4. (IF h >= t THEN h - t ELSE h - t + Size) = 0 <=> h = t
    BY ONLY <1>1
  <1> QED BY <1>2, <1>3, <1>4

LEMMA SlotIs ==
  ASSUME CbufAssumption, NEW t \in Cells, NEW k \in 1 .. Size
  PROVE  /\ Slot(t, k) = IF t + k - 1 < Size THEN t + k - 1 ELSE t + k - 1 - Size
         /\ Slot(t, k) \in Cells
  <1>1. Size \in Nat /\ Size > 0 /\ t \in 0 .. (Size - 1) /\ k \in 1 .. Size
    BY SizeFacts
  <1>2. t + k - 1 \in Int /\ 0 <= t + k - 1 /\ t + k - 1 < 2 * Size
    BY ONLY <1>1
  <1>3. (t + k - 1) % Size = IF t + k - 1 < Size THEN t + k - 1 ELSE t + k - 1 - Size
    <2>1. CASE t + k - 1 < Size
      BY ONLY <1>1, <1>2, <2>1, ModSmall
    <2>2. CASE ~(t + k - 1 < Size)
      <3>1. Size <= t + k - 1
        BY ONLY <1>1, <2>2
      <3> QED BY ONLY <1>1, <1>2, <2>2, <3>1, ModSmall
    <2> QED BY <2>1, <2>2
  <1>4. (IF t + k - 1 < Size THEN t + k - 1 ELSE t + k - 1 - Size) \in 0 .. (Size - 1)
    BY ONLY <1>1
  <1> QED BY <1>3, <1>4, SizeFacts DEF Slot

LEMMA IncIs ==
  ASSUME CbufAssumption, NEW p \in Cells, NEW n \in 0 .. Size
  PROVE  /\ INC_POINTER(p, n) = IF p + n < Size THEN p + n ELSE p + n - Size
         /\ INC_POINTER(p, n) \in Cells
  <1>1. Size \in Nat /\ Size > 0 /\ p \in 0 .. (Size - 1) /\ n \in 0 .. Size
    BY SizeFacts
  <1>2. p + n \in Int /\ 0 <= p + n /\ p + n < 2 * Size
    BY ONLY <1>1
  <1>3. (p + n) % Size = IF p + n < Size THEN p + n ELSE p + n - Size
    <2>1. CASE p + n < Size
      BY ONLY <1>1, <1>2, <2>1, ModSmall
    <2>2. CASE ~(p + n < Size)
      <3>1. Size <= p + n
        BY ONLY <1>1, <2>2
      <3> QED BY ONLY <1>1, <1>2, <2>2, <3>1, ModSmall
    <2> QED BY <2>1, <2>2
  <1>4. (IF p + n < Size THEN p + n ELSE p + n - Size) \in 0 .. (Size - 1)
    BY ONLY <1>1
  <1> QED BY <1>3, <1>4, SizeFacts DEF INC_POINTER

\* Moving the head over n free cells, up to the end of the buffer: the n cells
\* follow the ones in use, none of which is among them.
LEMMA HeadMoves ==
  ASSUME CbufAssumption, NEW h \in Cells, NEW t \in Cells, NEW n \in Nat, n > 0,
         h >= t /\ t = 0 => n <= Size - h - 1,
         h >= t /\ t # 0 => n <= Size - h,
         h < t => n <= t - h - 1
  PROVE  /\ INC_POINTER(h, n) \in Cells /\ INC_POINTER(h, n) # t
         /\ (INC_POINTER(h, n) - t) % Size = ((h - t) % Size) + n
         /\ \A k \in 1 .. ((h - t) % Size) : Slot(t, k) \notin h .. (h + n - 1)
         /\ \A k \in 1 .. n : Slot(t, ((h - t) % Size) + k) = h + k - 1
         /\ h + n <= Size
  <1> DEFINE u == (h - t) % Size
             i == INC_POINTER(h, n)
  <1>1. Size \in Nat /\ Size > 1 /\ h \in 0 .. (Size - 1) /\ t \in 0 .. (Size - 1)
    BY SizeFacts
  <1>2. n \in 0 .. Size /\ h + n <= Size
    BY ONLY <1>1, n \in Nat, h >= t /\ t = 0 => n <= Size - h - 1,
         h >= t /\ t # 0 => n <= Size - h, h < t => n <= t - h - 1
  <1>3. u = (IF h >= t THEN h - t ELSE h - t + Size) /\ u \in 0 .. (Size - 1)
    BY UsedIs
  <1>4. i = (IF h + n < Size THEN h + n ELSE h + n - Size) /\ i \in Cells
    BY <1>2, IncIs
  <1>5. i \in 0 .. (Size - 1)
    BY <1>4, SizeFacts
  <1>6. (i - t) % Size = IF i >= t THEN i - t ELSE i - t + Size
    BY <1>4, UsedIs
  <1> HIDE DEF u, i
  <1>7. i # t /\ (i - t) % Size = u + n /\ u + n <= Size - 1
    BY ONLY <1>1, <1>2, <1>3, <1>4, <1>5, <1>6, n \in Nat, n > 0,
         h >= t /\ t = 0 => n <= Size - h - 1,
         h >= t /\ t # 0 => n <= Size - h, h < t => n <= t - h - 1
  <1>8. ASSUME NEW k \in 1 .. u PROVE Slot(t, k) \notin h .. (h + n - 1)
    <2>1. k \in 1 .. Size
      BY ONLY <1>1, <1>3, k \in 1 .. u
    <2>2. Slot(t, k) = IF t + k - 1 < Size THEN t + k - 1 ELSE t + k - 1 - Size
      BY <2>1, SlotIs
    <2> DEFINE s == Slot(t, k)
    <2> HIDE DEF s
    <2>3. s = IF t + k - 1 < Size THEN t + k - 1 ELSE t + k - 1 - Size
      BY <2>2 DEF s
    <2>4. s \notin h .. (h + n - 1)
      BY ONLY <1>1, <1>2, <1>3, <2>3, k \in 1 .. u, n \in Nat, n > 0,
         h >= t /\ t = 0 => n <= Size - h - 1,
         h >= t /\ t # 0 => n <= Size - h, h < t => n <= t - h - 1
    <2> QED BY <2>4 DEF s
  <1>9. ASSUME NEW k \in 1 .. n PROVE Slot(t, u + k) = h + k - 1
    <2>1. u + k \in 1 .. Size
      BY ONLY <1>1, <1>2, <1>3, <1>7, k \in 1 .. n
    <2>2. Slot(t, u + k) = IF t + (u + k) - 1 < Size THEN t + (u + k) - 1
                           ELSE t + (u + k) - 1 - Size
      BY <2>1, SlotIs
    <2> QED BY ONLY <1>1, <1>2, <1>3, <2>2, k \in 1 .. n, n \in Nat, n > 0
  <1> QED BY <1>2, <1>4, <1>7, <1>8, <1>9 DEF u, i

\* Moving the tail over n cells in use, up to the end of the buffer.
LEMMA TailMoves ==
  ASSUME CbufAssumption, NEW h \in Cells, NEW t \in Cells, NEW n \in Nat, n > 0,
         h # t, h > t => n <= h - t, h < t => n <= Size - t
  PROVE  /\ INC_POINTER(t, n) \in Cells
         /\ (h - INC_POINTER(t, n)) % Size = ((h - t) % Size) - n
         /\ n <= (h - t) % Size
         /\ \A k \in 1 .. n : Slot(t, k) = t + k - 1 /\ t + k - 1 \in Cells
         /\ \A k \in 1 .. (((h - t) % Size) - n) :
              Slot(INC_POINTER(t, n), k) = Slot(t, n + k)
  <1> DEFINE u == (h - t) % Size
             i == INC_POINTER(t, n)
  <1>1. Size \in Nat /\ Size > 1 /\ h \in 0 .. (Size - 1) /\ t \in 0 .. (Size - 1)
    BY SizeFacts
  <1>2. n \in 0 .. Size /\ t + n <= Size
    BY ONLY <1>1, n \in Nat, h # t, h > t => n <= h - t, h < t => n <= Size - t
  <1>3. u = (IF h >= t THEN h - t ELSE h - t + Size) /\ u \in 0 .. (Size - 1)
    BY UsedIs
  <1>4. i = (IF t + n < Size THEN t + n ELSE t + n - Size) /\ i \in Cells
    BY <1>2, IncIs
  <1>5. i \in 0 .. (Size - 1)
    BY <1>4, SizeFacts
  <1>6. (h - i) % Size = IF h >= i THEN h - i ELSE h - i + Size
    BY <1>4, UsedIs
  <1> HIDE DEF u, i
  <1>7. n <= u /\ (h - i) % Size = u - n
    BY ONLY <1>1, <1>2, <1>3, <1>4, <1>5, <1>6, n \in Nat, n > 0, h # t,
            h > t => n <= h - t, h < t => n <= Size - t
  <1>8. ASSUME NEW k \in 1 .. n PROVE Slot(t, k) = t + k - 1 /\ t + k - 1 \in Cells
    <2>1. k \in 1 .. Size /\ t + k - 1 < Size /\ t + k - 1 \in 0 .. (Size - 1)
      BY ONLY <1>1, <1>2, k \in 1 .. n
    <2> QED BY <2>1, SlotIs, SizeFacts
  <1>9. ASSUME NEW k \in 1 .. (u - n) PROVE Slot(i, k) = Slot(t, n + k)
    <2>1. k \in 1 .. Size /\ n + k \in 1 .. Size
      BY ONLY <1>1, <1>2, <1>3, k \in 1 .. (u - n)
    <2>2. Slot(i, k) = IF i + k - 1 < Size THEN i + k - 1 ELSE i + k - 1 - Size
      BY <1>4, <2>1, SlotIs
    <2>3. Slot(t, n + k) = IF t + (n + k) - 1 < Size THEN t + (n + k) - 1
                           ELSE t + (n + k) - 1 - Size
      BY <2>1, SlotIs
    <2> QED BY ONLY <1>1, <1>2, <1>3, <1>4, <1>5, <2>2, <2>3, k \in 1 .. (u - n)
  <1> QED BY <1>4, <1>7, <1>8, <1>9 DEF u, i

-----------------------------------------------------------------------------
(* What is in the buffer.                                                  *)

\* The cells in use of a buffer b with the pointers h and t, oldest first.
CellsOf(b, h, t) == [k \in 1 .. ((h - t) % Size) |-> b[Slot(t, k)]]

LEMMA CellsOfFacts ==
  ASSUME CbufAssumption, NEW b \in [Cells -> Elem], NEW h \in Cells, NEW t \in Cells
  PROVE  /\ CellsOf(b, h, t) \in Seq(Elem)
         /\ Len(CellsOf(b, h, t)) = (h - t) % Size
         /\ \A k \in 1 .. ((h - t) % Size) :
              CellsOf(b, h, t)[k] = b[Slot(t, k)] /\ b[Slot(t, k)] \in Elem
  <1> DEFINE u == (h - t) % Size
  <1>1. Size \in Nat /\ u \in 0 .. (Size - 1)
    BY SizeFacts, UsedIs
  <1> HIDE DEF u
  <1>2. ASSUME NEW k \in 1 .. u PROVE b[Slot(t, k)] \in Elem
    <2>1. k \in 1 .. Size
      BY ONLY <1>1, k \in 1 .. u
    <2> QED BY <2>1, SlotIs
  <1>3. CellsOf(b, h, t) = [k \in 1 .. u |-> b[Slot(t, k)]]
    BY DEF CellsOf, u
  <1>4. u \in Nat
    BY <1>1
  <1> QED BY <1>2, <1>3, <1>4 DEF u

\* The contents of the buffer, in two states.
LEMMA ContentsIs ==
  /\ Contents = CellsOf(buf, head, tail) /\ Contents' = CellsOf(buf', head', tail')
  /\ cbuf_space_used = (head - tail) % Size
  /\ cbuf_space_used' = (head' - tail') % Size
  BY DEF Contents, CellsOf, Slot, cbuf_space_used

LEMMA ContentsFacts ==
  ASSUME CbufAssumption, Types
  PROVE  /\ Contents \in Seq(Elem) /\ Len(Contents) = cbuf_space_used
         /\ cbuf_space_used \in 0 .. (Size - 1)
         /\ cbuf_space_used = 0 <=> head = tail
         /\ \A k \in 1 .. cbuf_space_used : Contents[k] = buf[Slot(tail, k)]
  <1>1. buf \in [Cells -> Elem] /\ head \in Cells /\ tail \in Cells
    BY DEF Types
  <1>2. /\ CellsOf(buf, head, tail) \in Seq(Elem)
        /\ Len(CellsOf(buf, head, tail)) = (head - tail) % Size
        /\ \A k \in 1 .. ((head - tail) % Size) :
             CellsOf(buf, head, tail)[k] = buf[Slot(tail, k)]
    BY ONLY <1>1, CbufAssumption, CellsOfFacts
  <1>3. /\ (head - tail) % Size \in 0 .. (Size - 1)
        /\ (head - tail) % Size = 0 <=> head = tail
    BY ONLY <1>1, CbufAssumption, UsedIs
  <1> QED BY ONLY <1>2, <1>3, ContentsIs

-----------------------------------------------------------------------------
(* One pass of cbuf_write.                                                 *)

\* As long as there is data and space, a pass writes something, as much as
\* there is up to the end of the buffer.
LEMMA WriteLen ==
  ASSUME CbufAssumption, Types, NEW w \in Writer,
         wop[w].pos < Len(wop[w].data), cbuf_space_used < Size - 1
  PROVE  /\ write_len(w) \in Nat /\ write_len(w) > 0
         /\ wop[w].pos + write_len(w) <= Len(wop[w].data)
         /\ head >= tail /\ tail = 0 => write_len(w) <= Size - head - 1
         /\ head >= tail /\ tail # 0 => write_len(w) <= Size - head
         /\ head < tail => write_len(w) <= tail - head - 1
         /\ \/ wop[w].pos + write_len(w) = Len(wop[w].data)
            \/ head >= tail /\ tail = 0 /\ write_len(w) = Size - head - 1
            \/ head >= tail /\ tail # 0 /\ write_len(w) = Size - head
            \/ head < tail /\ write_len(w) = tail - head - 1
  <1> DEFINE left == Len(wop[w].data) - wop[w].pos
             u == cbuf_space_used
             n == write_len(w)
  <1>1. Size \in Nat /\ Size > 1 /\ head \in 0 .. (Size - 1) /\ tail \in 0 .. (Size - 1)
    BY SizeFacts DEF Types
  <1>2. /\ wop[w].pos \in Nat /\ Len(wop[w].data) \in Nat
        /\ left \in Nat /\ left > 0
    <2>1. wop[w].pos \in Nat /\ wop[w].data \in Seq(Data)
      BY DEF Types
    <2>2. Len(wop[w].data) \in Nat
      BY <2>1, LenProperties
    <2> QED BY <2>1, <2>2
  <1>3. u = (IF head >= tail THEN head - tail ELSE head - tail + Size) /\ u < Size - 1
    BY UsedIs, ContentsIs DEF Types
  <1>4. /\ head >= tail /\ tail = 0 => n = MIN(Size - head - 1, left)
        /\ head >= tail /\ tail # 0 => n = MIN(Size - head, left)
        /\ head < tail => n = MIN(tail - head - 1, left)
    BY <1>1 DEF write_len
  <1> HIDE DEF left, u, n
  <1>5. \A a \in Int, b \in Int : MIN(a, b) = IF a < b THEN a ELSE b
    BY DEF MIN
  <1>6. /\ n \in Nat /\ n > 0 /\ n <= left
        /\ head >= tail /\ tail = 0 => n <= Size - head - 1
        /\ head >= tail /\ tail # 0 => n <= Size - head
        /\ head < tail => n <= tail - head - 1
        /\ \/ n = left
           \/ head >= tail /\ tail = 0 /\ n = Size - head - 1
           \/ head >= tail /\ tail # 0 /\ n = Size - head
           \/ head < tail /\ n = tail - head - 1
    <2>1. CASE head >= tail /\ tail = 0
      <3>1. n = IF Size - head - 1 < left THEN Size - head - 1 ELSE left
        BY <1>1, <1>2, <1>4, <1>5, <2>1
      <3> QED BY ONLY <1>1, <1>2, <1>3, <2>1, <3>1
    <2>2. CASE head >= tail /\ tail # 0
      <3>1. n = IF Size - head < left THEN Size - head ELSE left
        BY <1>1, <1>2, <1>4, <1>5, <2>2
      <3> QED BY ONLY <1>1, <1>2, <1>3, <2>2, <3>1
    <2>3. CASE head < tail
      <3>1. n = IF tail - head - 1 < left THEN tail - head - 1 ELSE left
        BY <1>1, <1>2, <1>4, <1>5, <2>3
      <3> QED BY ONLY <1>1, <1>2, <1>3, <2>3, <3>1
    <2> QED BY ONLY <1>1, <2>1, <2>2, <2>3
  <1> QED BY <1>2, <1>6, SMTT(40) DEF left, n

\* When cbuf_write stops it has written everything, or the buffer is full.
LEMMA WriteStops ==
  ASSUME CbufAssumption, Types, NEW w \in Writer,
         wop[w].pos <= Len(wop[w].data), ~WriteMore(w)
  PROVE  wop[w].pos = Len(wop[w].data) \/ cbuf_space_used = Size - 1
  <1>1. wop[w].pos \in Nat /\ wop[w].data \in Seq(Data)
    BY DEF Types
  <1>2. Len(wop[w].data) \in Nat
    BY <1>1, LenProperties
  <1>3. Size \in Nat /\ cbuf_space_used \in 0 .. (Size - 1)
    BY SizeFacts, ContentsFacts
  <1> SUFFICES ASSUME wop[w].pos < Len(wop[w].data), cbuf_space_used < Size - 1
               PROVE  FALSE
    BY <1>1, <1>2, <1>3
  <1>4. write_len(w) > 0
    BY WriteLen
  <1>5. cbuf_space_avail > 0
    BY <1>3 DEF cbuf_space_avail
  <1> QED BY <1>4, <1>5 DEF WriteMore

\* What a pass does to the buffer.
LEMMA WriteEffect ==
  ASSUME CbufAssumption, IInv, NEW w \in Writer, WritePass(w), NEW n, n = write_len(w)
  PROVE  /\ n \in Nat /\ n > 0 /\ lock = w /\ head' \in Cells /\ tail' = tail
         /\ head' # tail /\ buf' \in [Cells -> Elem]
         /\ cbuf_space_used' = cbuf_space_used + n
         /\ \A k \in 1 .. cbuf_space_used : buf'[Slot(tail, k)] = buf[Slot(tail, k)]
         /\ \A k \in 1 .. n : buf'[Slot(tail, cbuf_space_used + k)] =
                                wop[w].data[wop[w].pos + k]
         /\ wop[w].pos + n <= Len(wop[w].data)
         /\ \/ wop[w].pos + n = Len(wop[w].data)
            \/ cbuf_space_used + n = Size - 1
            \/ head >= tail /\ tail # 0 /\ head' = 0
         /\ cbuf_space_used < Size - 1 /\ wop[w].pos < Len(wop[w].data)
  <1> DEFINE u == cbuf_space_used
  <1>1. /\ pc[w] = "copy" /\ WriteMore(w)
        /\ buf' = [c \in Cells |-> IF c \in head .. (head + n - 1)
                                   THEN wop[w].data[wop[w].pos + (c - head) + 1]
                                   ELSE buf[c]]
        /\ head' = INC_POINTER(head, n) /\ tail' = tail
    BY DEF WritePass
  <1>2. lock = w
    BY <1>1 DEF IInv, Callers, Caller
  <1>3. /\ Size \in Nat /\ Size > 1 /\ u \in 0 .. (Size - 1) /\ Types
        /\ head \in Cells /\ tail \in Cells
    BY SizeFacts, ContentsFacts DEF IInv, Types
  <1>4. wop[w].pos < Len(wop[w].data) /\ u < Size - 1
    BY <1>1, <1>3 DEF WriteMore, cbuf_space_avail
  <1>5. /\ n \in Nat /\ n > 0
        /\ wop[w].pos + n <= Len(wop[w].data)
        /\ head >= tail /\ tail = 0 => n <= Size - head - 1
        /\ head >= tail /\ tail # 0 => n <= Size - head
        /\ head < tail => n <= tail - head - 1
        /\ \/ wop[w].pos + n = Len(wop[w].data)
           \/ head >= tail /\ tail = 0 /\ n = Size - head - 1
           \/ head >= tail /\ tail # 0 /\ n = Size - head
           \/ head < tail /\ n = tail - head - 1
    BY <1>3, <1>4, WriteLen
  <1>6. /\ head' \in Cells /\ head' # tail /\ (head' - tail) % Size = u + n
        /\ \A k \in 1 .. u : Slot(tail, k) \notin head .. (head + n - 1)
        /\ \A k \in 1 .. n : Slot(tail, u + k) = head + k - 1
        /\ head + n <= Size
    BY <1>1, <1>3, <1>5, HeadMoves, ContentsIs
  <1>7. u' = u + n
    BY <1>1, <1>6, ContentsIs
  <1>8. wop[w].pos \in Nat /\ Len(wop[w].data) \in Nat /\ wop[w].data \in Seq(Data)
    <2>1. wop[w].pos \in Nat /\ wop[w].data \in Seq(Data)
      BY <1>3 DEF Types
    <2> QED BY <2>1, LenProperties
  <1>9. buf' \in [Cells -> Elem]
    <2>1. ASSUME NEW c \in Cells, c \in head .. (head + n - 1)
          PROVE  wop[w].data[wop[w].pos + (c - head) + 1] \in Elem
      <3>1. head \in 0 .. (Size - 1)
        BY <1>3, SizeFacts
      <3> DEFINE p == wop[w].pos
                 l == Len(wop[w].data)
      <3>2. p \in Nat /\ l \in Nat /\ n \in Nat /\ p + n <= l
        BY <1>5, <1>8
      <3> HIDE DEF p, l
      <3>3. c \in Int /\ head \in Int /\ head <= c /\ c <= head + n - 1
        BY <3>1, <3>2, <2>1
      <3>4. p + (c - head) + 1 \in 1 .. l
        BY ONLY <3>2, <3>3
      <3>5. wop[w].pos + (c - head) + 1 \in 1 .. Len(wop[w].data)
        BY <3>4 DEF p, l
      <3> QED BY <3>5, <1>8, ElementOfSeq DEF Elem
    <2> QED BY <1>1, <1>3, <2>1 DEF Types
  <1>10. ASSUME NEW k \in 1 .. u PROVE buf'[Slot(tail, k)] = buf[Slot(tail, k)]
    <2>1. k \in 1 .. Size
      BY ONLY <1>3, k \in 1 .. u
    <2>2. Slot(tail, k) \in Cells
      BY <1>3, <2>1, SlotIs
    <2> QED BY <1>1, <1>6, <2>2
  <1>11. ASSUME NEW k \in 1 .. n
         PROVE  buf'[Slot(tail, u + k)] = wop[w].data[wop[w].pos + k]
    <2>1. head \in 0 .. (Size - 1) /\ Cells = 0 .. (Size - 1)
      BY <1>3, SizeFacts
    <2>2. /\ head + k - 1 \in 0 .. (Size - 1) /\ head + k - 1 \in head .. (head + n - 1)
          /\ wop[w].pos + ((head + k - 1) - head) + 1 = wop[w].pos + k
      BY ONLY <1>3, <1>5, <1>6, <1>8, <2>1, k \in 1 .. n, SMTT(40)
    <2> QED BY <1>1, <1>6, <2>1, <2>2
  <1>12. \/ wop[w].pos + n = Len(wop[w].data)
         \/ u + n = Size - 1
         \/ head >= tail /\ tail # 0 /\ head' = 0
    <2>1. u = IF head >= tail THEN head - tail ELSE head - tail + Size
      BY <1>3, UsedIs, ContentsIs
    <2>2. head' = IF head + n < Size THEN head + n ELSE head + n - Size
      <3>1. n \in 0 .. Size
        BY <1>3, <1>5, <1>6, SizeFacts
      <3> QED BY <1>1, <1>3, <3>1, IncIs
    <2>3. head \in 0 .. (Size - 1) /\ tail \in 0 .. (Size - 1)
      BY <1>3, SizeFacts
    <2> HIDE DEF u
    <2> QED BY ONLY <1>3, <1>5, <1>8, <2>1, <2>2, <2>3
  <1> QED BY <1>1, <1>2, <1>4, <1>5, <1>6, <1>7, <1>9, <1>10, <1>11, <1>12


-----------------------------------------------------------------------------
(* One pass of cbuf_read.                                                  *)

\* As long as it wants more and there is data, a pass reads something, as much
\* as there is up to the end of the buffer.
LEMMA ReadLen ==
  ASSUME CbufAssumption, Types, NEW r \in Reader,
         Len(rop[r].out) < rop[r].want, tail # head
  PROVE  /\ read_len(r) \in Nat /\ read_len(r) > 0
         /\ Len(rop[r].out) + read_len(r) <= rop[r].want
         /\ head > tail => read_len(r) <= head - tail
         /\ head < tail => read_len(r) <= Size - tail
         /\ \/ Len(rop[r].out) + read_len(r) = rop[r].want
            \/ head > tail /\ read_len(r) = head - tail
            \/ head < tail /\ read_len(r) = Size - tail
  <1> DEFINE got  == Len(rop[r].out)
             want == rop[r].want
             left == want - got
             n == read_len(r)
  <1>1. Size \in Nat /\ Size > 1 /\ head \in 0 .. (Size - 1) /\ tail \in 0 .. (Size - 1)
    BY SizeFacts DEF Types
  <1>2. want \in Nat /\ got \in Nat /\ got < want
    <2>1. rop[r].want \in Nat /\ rop[r].out \in Seq(Elem)
      BY DEF Types
    <2> QED BY <2>1, LenProperties
  <1>3. /\ head > tail => n = MIN(head - tail, left)
        /\ ~(head > tail) => n = MIN(Size - tail, left)
    BY DEF read_len
  <1>4. left \in Nat /\ left > 0
    <2> HIDE DEF got, want
    <2> QED BY <1>2
  <1> HIDE DEF left, n
  <1>5. \A a \in Int, b \in Int : MIN(a, b) = IF a < b THEN a ELSE b
    BY DEF MIN
  <1>6. /\ n \in Nat /\ n > 0 /\ n <= left
        /\ head > tail => n <= head - tail
        /\ head < tail => n <= Size - tail
        /\ n = left \/ (head > tail /\ n = head - tail) \/ (head < tail /\ n = Size - tail)
    <2>1. CASE head > tail
      <3>1. n = IF head - tail < left THEN head - tail ELSE left
        BY <1>1, <1>3, <1>4, <1>5, <2>1
      <3> QED BY ONLY <1>1, <1>4, <2>1, <3>1
    <2>2. CASE ~(head > tail)
      <3>1. n = IF Size - tail < left THEN Size - tail ELSE left
        BY <1>1, <1>3, <1>4, <1>5, <2>2
      <3> QED BY ONLY <1>1, <1>4, <2>2, <3>1, tail # head
    <2> QED BY <2>1, <2>2
  <1>7. left = want - got
    BY DEF left
  <1> HIDE DEF got, want
  <1>8. got + n <= want /\ (n = left => got + n = want)
    BY ONLY <1>2, <1>6, <1>7
  <1> QED BY <1>6, <1>8 DEF got, want, n

\* What a pass does to the buffer and to the call.
LEMMA ReadEffect ==
  ASSUME CbufAssumption, IInv, NEW r \in Reader, ReadPass(r), NEW n, n = read_len(r)
  PROVE  /\ n \in Nat /\ n > 0 /\ n <= cbuf_space_used /\ lock = r
         /\ tail' \in Cells /\ head' = head /\ buf' = buf /\ head # tail
         /\ cbuf_space_used' = cbuf_space_used - n
         /\ \A k \in 1 .. n : buf[tail + k - 1] = buf[Slot(tail, k)] /\ buf[Slot(tail, k)] \in Elem
         /\ \A k \in 1 .. (cbuf_space_used - n) : Slot(tail', k) = Slot(tail, n + k)
         /\ Len(rop[r].out) + n <= rop[r].want
         /\ Len(rop[r].out) < rop[r].want
         /\ \/ Len(rop[r].out) + n = rop[r].want
            \/ tail' = head
            \/ tail # 0 /\ tail' = 0
  <1> DEFINE u == cbuf_space_used
  <1>1. /\ pc[r] = "copy" /\ ReadMore(r) /\ buf' = buf /\ head' = head
        /\ tail' = INC_POINTER(tail, n)
    BY DEF ReadPass
  <1>2. lock = r
    BY <1>1 DEF IInv, Callers, Caller
  <1>3. /\ Size \in Nat /\ Size > 1 /\ u \in 0 .. (Size - 1) /\ Types
        /\ head \in Cells /\ tail \in Cells
    BY SizeFacts, ContentsFacts DEF IInv, Types
  <1>4. Len(rop[r].out) < rop[r].want /\ tail # head
    BY <1>1 DEF ReadMore
  <1>5. /\ n \in Nat /\ n > 0
        /\ Len(rop[r].out) + n <= rop[r].want
        /\ head > tail => n <= head - tail
        /\ head < tail => n <= Size - tail
        /\ \/ Len(rop[r].out) + n = rop[r].want
           \/ head > tail /\ n = head - tail
           \/ head < tail /\ n = Size - tail
    BY <1>3, <1>4, ReadLen
  <1>6. /\ tail' \in Cells /\ (head - tail') % Size = u - n /\ n <= u
        /\ \A k \in 1 .. n : Slot(tail, k) = tail + k - 1 /\ tail + k - 1 \in Cells
        /\ \A k \in 1 .. (u - n) : Slot(tail', k) = Slot(tail, n + k)
    <2>1. u = (head - tail) % Size
      BY ContentsIs
    <2>2. /\ INC_POINTER(tail, n) \in Cells
          /\ (head - INC_POINTER(tail, n)) % Size = ((head - tail) % Size) - n
          /\ n <= (head - tail) % Size
          /\ \A k \in 1 .. n : Slot(tail, k) = tail + k - 1 /\ tail + k - 1 \in Cells
          /\ \A k \in 1 .. (((head - tail) % Size) - n) :
               Slot(INC_POINTER(tail, n), k) = Slot(tail, n + k)
      BY ONLY CbufAssumption, <1>3, <1>4, <1>5, TailMoves
    <2> QED BY ONLY <1>1, <2>1, <2>2
  <1>7. u' = u - n
    BY <1>1, <1>6, ContentsIs
  <1>8. ASSUME NEW k \in 1 .. n
        PROVE  buf[tail + k - 1] = buf[Slot(tail, k)] /\ buf[Slot(tail, k)] \in Elem
    BY <1>3, <1>6 DEF Types
  <1>9. \/ Len(rop[r].out) + n = rop[r].want
        \/ tail' = head
        \/ tail # 0 /\ tail' = 0
    <2>1. head \in 0 .. (Size - 1) /\ tail \in 0 .. (Size - 1)
      BY <1>3, SizeFacts
    <2>2. n \in 0 .. Size
      <3>1. n <= u
        BY <1>6
      <3> HIDE DEF u
      <3> QED BY ONLY <1>3, <1>5, <3>1
    <2>3. tail' = IF tail + n < Size THEN tail + n ELSE tail + n - Size
      BY <1>1, <1>3, <2>2, IncIs
    <2>4. CASE head > tail /\ n = head - tail
      <3>1. tail' = head
        BY ONLY <2>1, <2>3, <2>4, <1>3
      <3> QED BY <3>1
    <2>5. CASE head < tail /\ n = Size - tail
      <3>1. tail' = 0 /\ tail # 0
        BY ONLY <2>1, <2>3, <2>5, <1>3, SMTT(40)
      <3> QED BY <3>1
    <2> QED BY <1>5, <2>4, <2>5
  <1> QED BY <1>1, <1>2, <1>4, <1>5, <1>6, <1>7, <1>8, <1>9


-----------------------------------------------------------------------------
(* The steps preserve IInv.                                                *)

WriteCall == [data : Seq(Data), pos : Nat, passes : Nat]
ReadCall  == [want : Nat, block : BOOLEAN, out : Seq(Elem), passes : Nat]

\* What the steps make of the record of a call.
LEMMA RecordSteps ==
  /\ \A w \in Writer : WritePass(w) =>
       wop' = [wop EXCEPT ![w] = [wop[w] EXCEPT !.pos = @ + write_len(w),
                                                !.passes = @ + 1]]
  /\ \A w \in Writer : EndWrite(w) =>
       wop' = [wop EXCEPT ![w] = [wop[w] EXCEPT !.data = <<>>, !.passes = 0]]
  /\ \A r \in Reader : ReadPass(r) =>
       rop' = [rop EXCEPT ![r] =
                 [rop[r] EXCEPT !.out = @ \o [k \in 1 .. read_len(r) |-> buf[tail + k - 1]],
                                !.passes = @ + 1]]
  /\ \A r \in Reader : EndRead(r) =>
       rop' = [rop EXCEPT ![r] =
                 [rop[r] EXCEPT !.want = IF rop[r].block /\ rop[r].out = <<>> THEN @ ELSE 0,
                                !.block = rop[r].block /\ rop[r].out = <<>>,
                                !.passes = 0]]
  BY ZenonT(40) DEF WritePass, EndWrite, CloseWrite, ReadPass, EndRead, CloseRead

\* The same with the fields written out.
LEMMA RecordFields ==
  ASSUME Types
  PROVE
  /\ \A w \in Writer : WritePass(w) =>
       wop' = [wop EXCEPT ![w] = [data |-> wop[w].data, pos |-> wop[w].pos + write_len(w),
                                  passes |-> wop[w].passes + 1]]
  /\ \A w \in Writer : EndWrite(w) =>
       wop' = [wop EXCEPT ![w] = [data |-> <<>>, pos |-> wop[w].pos, passes |-> 0]]
  /\ \A r \in Reader : ReadPass(r) =>
       rop' = [rop EXCEPT ![r] =
                 [want |-> rop[r].want, block |-> rop[r].block,
                  out |-> rop[r].out \o [k \in 1 .. read_len(r) |-> buf[tail + k - 1]],
                  passes |-> rop[r].passes + 1]]
  /\ \A r \in Reader : EndRead(r) =>
       rop' = [rop EXCEPT ![r] =
                 [want |-> IF rop[r].block /\ rop[r].out = <<>> THEN rop[r].want ELSE 0,
                  block |-> (rop[r].block /\ rop[r].out = <<>>),
                  out |-> rop[r].out, passes |-> 0]]
  <1>1. \A w \in Writer : wop[w] \in WriteCall
    BY DEF Types, WriteCall
  <1>2. \A r \in Reader : rop[r] \in ReadCall
    BY DEF Types, ReadCall
  <1>5. ASSUME NEW w \in Writer, WritePass(w)
        PROVE  wop' = [wop EXCEPT ![w] = [data |-> wop[w].data,
                         pos |-> wop[w].pos + write_len(w), passes |-> wop[w].passes + 1]]
    <2> DEFINE x == [wop[w] EXCEPT !.pos = wop[w].pos + write_len(w),
                                   !.passes = wop[w].passes + 1]
    <2>1. wop' = [wop EXCEPT ![w] = x]
      BY <1>5, RecordSteps
    <2>2. x = [wop[w] EXCEPT !.pos = wop[w].pos + write_len(w),
                             !.passes = wop[w].passes + 1]
      OBVIOUS
    <2> HIDE DEF x
    <2>3. x = [data |-> wop[w].data, pos |-> wop[w].pos + write_len(w),
               passes |-> wop[w].passes + 1]
      BY ONLY <1>1, <2>2, w \in Writer DEF WriteCall
    <2> QED BY <2>1, <2>3
  <1>6. ASSUME NEW w \in Writer, EndWrite(w)
        PROVE  wop' = [wop EXCEPT ![w] = [data |-> <<>>, pos |-> wop[w].pos, passes |-> 0]]
    <2> DEFINE x == [wop[w] EXCEPT !.data = <<>>, !.passes = 0]
    <2>1. wop' = [wop EXCEPT ![w] = x]
      BY <1>6, RecordSteps
    <2>2. x = [wop[w] EXCEPT !.data = <<>>, !.passes = 0]
      OBVIOUS
    <2> HIDE DEF x
    <2>3. x = [data |-> <<>>, pos |-> wop[w].pos, passes |-> 0]
      BY ONLY <1>1, <2>2, w \in Writer DEF WriteCall
    <2> QED BY <2>1, <2>3
  <1>7. ASSUME NEW r \in Reader, ReadPass(r)
        PROVE  rop' = [rop EXCEPT ![r] =
                 [want |-> rop[r].want, block |-> rop[r].block,
                  out |-> rop[r].out \o [k \in 1 .. read_len(r) |-> buf[tail + k - 1]],
                  passes |-> rop[r].passes + 1]]
    <2> DEFINE o == rop[r].out \o [k \in 1 .. read_len(r) |-> buf[tail + k - 1]]
               x == [rop[r] EXCEPT !.out = o, !.passes = rop[r].passes + 1]
    <2>1. rop' = [rop EXCEPT ![r] = x]
      BY <1>7, RecordSteps
    <2> HIDE DEF o
    <2>2. x = [rop[r] EXCEPT !.out = o, !.passes = rop[r].passes + 1]
      OBVIOUS
    <2> HIDE DEF x
    <2>3. x = [want |-> rop[r].want, block |-> rop[r].block,
               out |-> o, passes |-> rop[r].passes + 1]
      BY ONLY <1>2, <2>2, r \in Reader DEF ReadCall
    <2> QED BY <2>1, <2>3 DEF o
  <1>8. ASSUME NEW r \in Reader, EndRead(r)
        PROVE  rop' = [rop EXCEPT ![r] =
                 [want |-> IF rop[r].block /\ rop[r].out = <<>> THEN rop[r].want ELSE 0,
                  block |-> (rop[r].block /\ rop[r].out = <<>>),
                  out |-> rop[r].out, passes |-> 0]]
    <2> DEFINE a == IF rop[r].block /\ rop[r].out = <<>> THEN rop[r].want ELSE 0
               b == (rop[r].block /\ rop[r].out = <<>>)
               x == [rop[r] EXCEPT !.want = a, !.block = b, !.passes = 0]
    <2>1. rop' = [rop EXCEPT ![r] = x]
      BY <1>8, RecordSteps
    <2> HIDE DEF a, b
    <2>2. x = [rop[r] EXCEPT !.want = a, !.block = b, !.passes = 0]
      OBVIOUS
    <2> HIDE DEF x
    <2>3. x = [want |-> a, block |-> b, out |-> rop[r].out, passes |-> 0]
      BY ONLY <1>2, <2>2, r \in Reader DEF ReadCall
    <2> QED BY <2>1, <2>3 DEF a, b
  <1> QED BY <1>5, <1>6, <1>7, <1>8

\* A step that leaves the buffer alone disturbs no copying: whoever has the
\* lock after it had it before, or has not begun.
LEMMA CopyKept ==
  ASSUME IInv, buf' = buf, head' = head, tail' = tail,
         \A w \in Writer : lock' = w =>
           \/ lock = w /\ wop'[w] = wop[w]
           \/ wop'[w].pos = 0 /\ wop'[w].passes = 0 /\ cbuf_space_used >= 0,
         \A r \in Reader : lock' = r =>
           (lock = r /\ rop'[r] = rop[r]) \/ rop'[r].passes = 0
  PROVE  Written' /\ Passes'
  <1>1. cbuf_space_used' = cbuf_space_used
    BY DEF cbuf_space_used
  <1>2. Written'
    <2> SUFFICES ASSUME NEW w \in Writer, lock' = w
                 PROVE  /\ wop'[w].pos <= cbuf_space_used
                        /\ \A k \in 1 .. wop'[w].pos :
                             buf[(tail + (cbuf_space_used - wop'[w].pos + k) - 1) % Size] =
                               wop'[w].data[k]
      BY <1>1 DEF Written
    <2>1. CASE lock = w /\ wop'[w] = wop[w]
      BY <2>1 DEF IInv, Written
    <2>2. CASE wop'[w].pos = 0 /\ cbuf_space_used >= 0
      BY <2>2
    <2> QED BY <2>1, <2>2
  <1>3. Passes'
    <2>1. ASSUME NEW w \in Writer, lock' = w
          PROVE  LET stuck == wop'[w].pos = Len(wop'[w].data) \/ cbuf_space_used = Size - 1 IN
                 /\ wop'[w].passes <= 2
                 /\ wop'[w].passes = 1 => stuck \/ (head = 0 /\ tail # 0)
                 /\ wop'[w].passes = 2 => stuck
      <3>1. CASE lock = w /\ wop'[w] = wop[w]
        BY <3>1 DEF IInv, Passes
      <3>2. CASE wop'[w].passes = 0
        BY <3>2
      <3> QED BY <2>1, <3>1, <3>2
    <2>2. ASSUME NEW r \in Reader, lock' = r
          PROVE  LET stuck == Len(rop'[r].out) = rop'[r].want \/ tail = head IN
                 /\ rop'[r].passes <= 2
                 /\ rop'[r].passes = 1 => stuck \/ tail = 0
                 /\ rop'[r].passes = 2 => stuck
      <3>1. CASE lock = r /\ rop'[r] = rop[r]
        BY <3>1 DEF IInv, Passes
      <3>2. CASE rop'[r].passes = 0
        BY <3>2
      <3> QED BY <2>2, <3>1, <3>2
    <2> QED BY <1>1, <2>1, <2>2 DEF Passes
  <1> QED BY <1>2, <1>3


\* Writers, readers and the free lock are distinct.
LEMMA Distinct ==
  ASSUME CbufAssumption
  PROVE  /\ Free \notin Writer /\ Free \notin Reader
         /\ \A w \in Writer : w \notin Reader /\ w \in Caller
         /\ \A r \in Reader : r \notin Writer /\ r \in Caller
  BY DEF CbufAssumption, Caller

LEMMA InitInv ==
  ASSUME CbufAssumption, Init
  PROVE  IInv
  <1>1. 0 \in Cells /\ cbuf_space_used = 0 /\ head = tail
    <2>1. 0 \in Cells
      BY SizeFacts
    <2>2. (0 - 0) % Size = 0
      BY <2>1, UsedIs
    <2> QED BY <2>1, <2>2, ContentsIs DEF Init
  <1>2. Types
    <2>1. <<>> \in Seq(Data) /\ <<>> \in Seq(Elem)
      BY EmptySeq
    <2>2. buf \in [Cells -> Elem]
      BY DEF Init, Elem
    <2> QED BY <1>1, <2>1, <2>2 DEF Init, Types
  <1>3. Callers
    BY DEF Init, Callers, CbufAssumption, Caller
  <1>4. Written /\ Passes
    BY Distinct DEF Init, Written, Passes
  <1>5. Wakeup
    BY Distinct, <1>1 DEF Init, Wakeup, Caller
  <1> QED BY <1>2, <1>3, <1>4, <1>5 DEF IInv

LEMMA CallWriteInv ==
  ASSUME CbufAssumption, IInv, NEW w \in Writer, CallWrite(w)
  PROVE  IInv'
  <1>1. /\ pc[w] = "idle" /\ pc' = [pc EXCEPT ![w] = "lock"]
        /\ buf' = buf /\ head' = head /\ tail' = tail /\ signaled' = signaled
        /\ lock' = lock /\ rop' = rop
    BY DEF CallWrite
  <1>2. PICK s \in Payload :
          wop' = [wop EXCEPT ![w] = [data |-> s, pos |-> 0, passes |-> 0]]
    BY DEF CallWrite
  <1>3. s \in Seq(Data) /\ 0 <= Len(s) /\ w \in Caller /\ w \notin Reader
    <2>1. s \in Seq(Data)
      BY DEF CbufAssumption
    <2> QED BY <2>1, LenProperties, Distinct
  <1>4. lock # w
    BY <1>1, <1>3 DEF IInv, Callers
  <1>5. /\ wop'[w] = [data |-> s, pos |-> 0, passes |-> 0]
        /\ \A x \in Writer \ {w} : wop'[x] = wop[x]
        /\ pc'[w] = "lock" /\ \A a \in Caller \ {w} : pc'[a] = pc[a]
    BY <1>1, <1>2, <1>3 DEF IInv, Types
  <1>6. Types'
    BY <1>1, <1>2, <1>3 DEF IInv, Types
  <1>7. Callers'
    <2>1. \A a \in Caller : pc'[a] = "copy" <=> lock' = a
      BY <1>1, <1>4, <1>5 DEF IInv, Callers
    <2>2. ASSUME NEW x \in Writer
          PROVE  /\ pc'[x] \in {"idle", "lock", "copy"}
                 /\ pc'[x] = "lock" => wop'[x].pos = 0
                 /\ pc'[x] # "copy" => wop'[x].passes = 0
                 /\ pc'[x] # "idle" => wop'[x].pos <= Len(wop'[x].data)
      <3>1. CASE x = w
        BY <1>3, <1>5, <3>1
      <3>2. CASE x # w
        BY <1>5, <3>2, Distinct DEF IInv, Callers
      <3> QED BY <3>1, <3>2
    <2>3. ASSUME NEW r \in Reader
          PROVE  pc'[r] = pc[r] /\ rop'[r] = rop[r]
      BY <1>1, <1>3, <1>5, Distinct
    <2> QED BY <2>1, <2>2, <2>3 DEF IInv, Callers
  <1>8. Written' /\ Passes'
    BY <1>1, <1>4, <1>5, CopyKept
  <1>9. Wakeup'
    <2>1. \A r \in Reader : pc'[r] = pc[r]
      BY <1>3, <1>5, Distinct
    <2> QED BY <1>1, <2>1 DEF IInv, Wakeup
  <1> QED BY <1>6, <1>7, <1>8, <1>9 DEF IInv

LEMMA LockInv ==
  ASSUME CbufAssumption, IInv, NEW a \in Caller, Lock(a)
  PROVE  IInv'
  <1>1. /\ pc[a] = "lock" /\ lock = Free /\ lock' = a
        /\ pc' = [pc EXCEPT ![a] = "copy"]
        /\ buf' = buf /\ head' = head /\ tail' = tail /\ signaled' = signaled
        /\ wop' = wop /\ rop' = rop
    BY DEF Lock
  <1>2. a # Free /\ Caller = Writer \cup Reader
    BY DEF CbufAssumption, Caller
  <1>3. pc'[a] = "copy" /\ \A b \in Caller \ {a} : pc'[b] = pc[b]
    BY <1>1 DEF IInv, Types
  <1>4. Types'
    BY <1>1 DEF IInv, Types
  <1>5. Callers'
    <2>1. \A b \in Caller : pc'[b] = "copy" <=> lock' = b
      BY <1>1, <1>2, <1>3, Distinct DEF IInv, Callers, Caller, CbufAssumption
    <2>2. ASSUME NEW x \in Writer
          PROVE  /\ pc'[x] \in {"idle", "lock", "copy"}
                 /\ pc'[x] = "lock" => wop'[x].pos = 0
                 /\ pc'[x] # "copy" => wop'[x].passes = 0
                 /\ pc'[x] # "idle" => wop'[x].pos <= Len(wop'[x].data)
      <3>1. CASE x = a
        BY <1>1, <1>3, <3>1 DEF IInv, Callers
      <3>2. CASE x # a
        BY <1>1, <1>3, <3>2, Distinct DEF IInv, Callers
      <3> QED BY <3>1, <3>2
    <2>3. ASSUME NEW r \in Reader
          PROVE  /\ pc'[r] \in {"lock", "wait", "blocked"} => rop'[r].out = <<>>
                 /\ pc'[r] # "copy" => rop'[r].passes = 0
                 /\ pc'[r] # "idle" => rop'[r].want > 0 /\ Len(rop'[r].out) <= rop'[r].want
      <3>1. CASE r = a
        BY <1>1, <1>3, <3>1 DEF IInv, Callers
      <3>2. CASE r # a
        BY <1>1, <1>3, <3>2, Distinct DEF IInv, Callers
      <3> QED BY <3>1, <3>2
    <2> QED BY <2>1, <2>2, <2>3 DEF Callers
  <1>6. Written' /\ Passes'
    <2>1. cbuf_space_used >= 0
      BY ContentsFacts, SizeFacts DEF IInv
    <2>2. \A w \in Writer : lock' = w => wop'[w].pos = 0 /\ wop'[w].passes = 0
      BY <1>1 DEF IInv, Callers
    <2>3. \A r \in Reader : lock' = r => rop'[r].passes = 0
      BY <1>1 DEF IInv, Callers
    <2> QED BY <1>1, <2>1, <2>2, <2>3, CopyKept
  <1>7. Wakeup'
    <2>1. signaled <=> head # tail
      BY <1>1 DEF IInv, Wakeup
    <2>2. \A r \in Reader : pc'[r] = "blocked" => pc[r] = "blocked"
      BY <1>3, Distinct
    <2>3. \A r \in Reader : lock' = r => rop'[r].out = <<>>
      BY <1>1 DEF IInv, Callers
    <2> QED BY <1>1, <1>2, <2>1, <2>2, <2>3 DEF IInv, Wakeup
  <1> QED BY <1>4, <1>5, <1>6, <1>7 DEF IInv


LEMMA WritePassInv ==
  ASSUME CbufAssumption, IInv, NEW w \in Writer, WritePass(w)
  PROVE  IInv'
  <1> DEFINE u == cbuf_space_used
             p == wop[w].pos
             d == wop[w].data
  <1>0. PICK n : n = write_len(w)
    OBVIOUS
  <1>1. /\ n \in Nat /\ n > 0 /\ lock = w /\ head' \in Cells /\ tail' = tail
        /\ head' # tail /\ buf' \in [Cells -> Elem]
        /\ u' = u + n
        /\ \A k \in 1 .. u : buf'[Slot(tail, k)] = buf[Slot(tail, k)]
        /\ \A k \in 1 .. n : buf'[Slot(tail, u + k)] = d[p + k]
        /\ p + n <= Len(d)
        /\ p + n = Len(d) \/ u + n = Size - 1 \/ (head >= tail /\ tail # 0 /\ head' = 0)
        /\ u < Size - 1 /\ p < Len(d)
    BY <1>0, WriteEffect
  <1>2. /\ wop' = [wop EXCEPT ![w] = [data |-> d, pos |-> p + n,
                                      passes |-> wop[w].passes + 1]]
        /\ signaled' = signaled /\ lock' = lock /\ pc' = pc /\ rop' = rop
    <2>1. Types
      BY DEF IInv
    <2> QED BY <1>0, <2>1, RecordFields DEF WritePass
  <1>3. /\ wop'[w] = [data |-> d, pos |-> p + n, passes |-> wop[w].passes + 1]
        /\ \A x \in Writer \ {w} : wop'[x] = wop[x]
    BY <1>2 DEF IInv, Types
  <1>4. /\ p \in Nat /\ wop[w].passes \in Nat /\ d \in Seq(Data) /\ Len(d) \in Nat
        /\ u \in 0 .. (Size - 1) /\ p <= u /\ Size \in Nat
    <2>1. p \in Nat /\ d \in Seq(Data) /\ wop[w].passes \in Nat
      BY DEF IInv, Types
    <2>2. Len(d) \in Nat
      BY <2>1, LenProperties
    <2>3. u \in 0 .. (Size - 1) /\ Size \in Nat
      BY ContentsFacts, SizeFacts DEF IInv
    <2>4. p <= u
      BY <1>1 DEF IInv, Written
    <2> QED BY <2>1, <2>2, <2>3, <2>4
  <1>5. Types'
    <2>1. wop' \in [Writer -> [data : Seq(Data), pos : Nat, passes : Nat]]
      BY <1>1, <1>2, <1>4, SMTT(40) DEF IInv, Types
    <2>2. tail \in Cells
      BY DEF IInv, Types
    <2> QED BY <1>1, <1>2, <2>1, <2>2 DEF IInv, Types
  <1>6. Callers'
    <2>1. pc[w] = "copy"
      BY DEF WritePass
    <2>2. ASSUME NEW x \in Writer
          PROVE  /\ pc'[x] \in {"idle", "lock", "copy"}
                 /\ pc'[x] = "lock" => wop'[x].pos = 0
                 /\ pc'[x] # "copy" => wop'[x].passes = 0
                 /\ pc'[x] # "idle" => wop'[x].pos <= Len(wop'[x].data)
      <3>1. CASE x = w
        BY <1>1, <1>2, <1>3, <2>1, <3>1
      <3>2. CASE x # w
        BY <1>2, <1>3, <3>2 DEF IInv, Callers
      <3> QED BY <3>1, <3>2
    <2> QED BY <1>2, <2>2 DEF IInv, Callers
  <1>7. Written'
    <2>1. \A k \in 1 .. p : buf[Slot(tail, u - p + k)] = d[k]
      BY <1>1 DEF IInv, Written, Slot
    <2> HIDE DEF u, p, d
    <2>2. ASSUME NEW k \in 1 .. (p + n)
          PROVE  buf'[Slot(tail, u - p + k)] = d[k]
      <3>1. CASE k <= p
        <4>1. k \in 1 .. p /\ u - p + k \in 1 .. u
          BY ONLY <1>1, <1>4, <3>1, k \in 1 .. (p + n)
        <4> QED BY <1>1, <2>1, <4>1
      <3>2. CASE ~(k <= p)
        <4>1. PICK j \in 1 .. n : j = k - p
          BY ONLY <1>1, <1>4, <3>2, k \in 1 .. (p + n)
        <4>2. u - p + k = u + j /\ p + j = k
          BY ONLY <1>1, <1>4, <4>1, k \in 1 .. (p + n)
        <4> QED BY <1>1, <4>2
      <3> QED BY <3>1, <3>2
    <2>3. p + n <= u + n /\ \A k \in Int : (u + n) - (p + n) + k = u - p + k
      BY ONLY <1>1, <1>4
    <2>4. ASSUME NEW k \in 1 .. (p + n)
          PROVE  buf'[(tail' + (u' - (p + n) + k) - 1) % Size] = d[k]
      <3>1. u' - (p + n) + k = u - p + k
        BY ONLY <1>1, <1>4, k \in 1 .. (p + n)
      <3> QED BY <1>1, <2>2, <3>1 DEF Slot
    <2>5. wop'[w].pos = p + n /\ wop'[w].data = d
      BY <1>3
    <2>6. \A x \in Writer : lock' = x => x = w
      BY <1>1, <1>2
    <2>7. wop'[w].pos <= u'
      BY <1>1, <2>3, <2>5
    <2>8. \A k \in 1 .. wop'[w].pos :
            buf'[(tail' + (u' - wop'[w].pos + k) - 1) % Size] = wop'[w].data[k]
      BY <2>4, <2>5
    <2> QED BY <2>6, <2>7, <2>8 DEF Written, u
  <1>8. Passes'
    <2>1. \A x \in Writer \cup Reader : lock' = x => x = w
      BY <1>1, <1>2
    <2>2. w \notin Reader
      BY Distinct
    <2>3. LET stuck == p = Len(d) \/ u = Size - 1 IN
          /\ wop[w].passes <= 2
          /\ wop[w].passes = 1 => stuck \/ (head = 0 /\ tail # 0)
          /\ wop[w].passes = 2 => stuck
      BY <1>1 DEF IInv, Passes
    <2>4. /\ wop'[w].passes = wop[w].passes + 1 /\ wop'[w].pos = p + n
          /\ wop'[w].data = d
      BY <1>3
    <2>5. head \in 0 .. (Size - 1) /\ tail \in 0 .. (Size - 1)
      BY SizeFacts DEF IInv, Types
    <2> DEFINE m == wop[w].passes
               l == Len(d)
    <2>6. m \in Nat /\ (m = 0 \/ (m = 1 /\ head = 0 /\ tail # 0))
      <3>1. m \in Nat /\ p # Len(d) /\ u # Size - 1 /\ m <= 2
        <4>1. p # Len(d) /\ u # Size - 1
          <5> HIDE DEF u, p, d
          <5> QED BY ONLY <1>1, <1>4
        <4> QED BY <1>4, <2>3, <4>1
      <3>2. m # 2 /\ (m = 1 => head = 0 /\ tail # 0)
        BY <2>3, <3>1
      <3> HIDE DEF m
      <3> QED BY ONLY <3>1, <3>2
    <2> HIDE DEF u, p, d, m
    <2>7. m + 1 <= 2
      BY ONLY <2>6
    <2>8. m + 1 = 1 => p + n = Len(d) \/ u + n = Size - 1 \/ (head' = 0 /\ tail # 0)
      BY <1>1
    <2>9. m + 1 = 2 => p + n = Len(d) \/ u + n = Size - 1
      <3>1. ASSUME m + 1 = 2 PROVE ~(head >= tail /\ tail # 0)
        <4>1. head = 0 /\ tail # 0
          BY ONLY <2>6, <3>1
        <4> QED BY ONLY <2>5, <4>1
      <3> QED BY <1>1, <3>1
    <2>10. wop'[w].passes = m + 1
      BY <2>4 DEF m
    <2> QED BY <1>1, <2>1, <2>2, <2>4, <2>7, <2>8, <2>9, <2>10 DEF Passes, u
  <1>9. Wakeup'
    <2>1. lock' = w /\ w # Free /\ w \notin Reader /\ head' # tail'
      BY <1>1, <1>2, Distinct
    <2> QED BY <1>2, <2>1 DEF IInv, Wakeup
  <1> QED BY <1>5, <1>6, <1>7, <1>8, <1>9 DEF IInv

LEMMA EndWriteInv ==
  ASSUME CbufAssumption, IInv, NEW w \in Writer, EndWrite(w)
  PROVE  IInv'
  <1>1. /\ pc[w] = "copy" /\ lock' = Free /\ buf' = buf /\ head' = head
        /\ tail' = tail /\ rop' = rop /\ w \in Caller /\ Free \notin Caller
    BY Distinct DEF EndWrite, Caller
  <1>2. lock = w
    BY <1>1 DEF IInv, Callers
  <1>3. wop' = [wop EXCEPT ![w] = [data |-> <<>>, pos |-> wop[w].pos, passes |-> 0]]
    <2>1. Types
      BY DEF IInv
    <2> QED BY <2>1, RecordFields
  <1>4. /\ signaled' \in BOOLEAN /\ (signaled' <=> head # tail)
        /\ pc' \in [Caller -> {"idle", "lock", "copy", "wait", "blocked"}]
        /\ pc'[w] = "idle"
        /\ \A a \in Caller \ {w} :
             \/ pc'[a] = pc[a]
             \/ pc[a] = "blocked" /\ pc'[a] = "lock"
        /\ signaled' => \A a \in Caller : pc'[a] # "blocked" \/ a \notin Reader
    <2>1. CASE head # tail
      <3>1. event_signal(w)
        BY <2>1 DEF EndWrite
      <3>2. /\ signaled' = TRUE
            /\ pc' = [a \in Caller |->
                        CASE a = w -> "idle"
                          [] a # w /\ pc[a] = "blocked" /\ ~signaled -> "lock"
                          [] OTHER -> pc[a]]
        BY <3>1 DEF event_signal
      <3>3. /\ pc'[w] = "idle"
            /\ \A a \in Caller \ {w} :
                 pc'[a] = IF pc[a] = "blocked" /\ ~signaled THEN "lock" ELSE pc[a]
        BY <1>1, <3>2
      <3>4. \A a \in Reader : signaled => pc[a] # "blocked"
        BY DEF IInv, Wakeup
      <3>5. pc' \in [Caller -> {"idle", "lock", "copy", "wait", "blocked"}]
        <4>1. \A a \in Caller : pc'[a] \in {"idle", "lock", "copy", "wait", "blocked"}
          BY <3>3 DEF IInv, Types
        <4> QED BY <3>2, <4>1
      <3>6. \A a \in Caller : pc'[a] # "blocked" \/ a \notin Reader
        BY <3>3, <3>4
      <3> QED BY <2>1, <3>2, <3>3, <3>5, <3>6
    <2>2. CASE head = tail
      <3>1. pc' = [pc EXCEPT ![w] = "idle"] /\ signaled' = signaled
        BY <2>2 DEF EndWrite
      <3>2. ~signaled
        BY <1>2, <2>2 DEF IInv, Wakeup
      <3> QED BY <1>1, <2>2, <3>1, <3>2 DEF IInv, Types
    <2> QED BY <2>1, <2>2
  <1>5. /\ wop'[w] = [data |-> <<>>, pos |-> wop[w].pos, passes |-> 0]
        /\ \A x \in Writer \ {w} : wop'[x] = wop[x]
    BY <1>3 DEF IInv, Types
  <1>6. Types'
    <2>1. wop' \in [Writer -> [data : Seq(Data), pos : Nat, passes : Nat]]
      <3>1. <<>> \in Seq(Data)
        BY EmptySeq
      <3>2. wop[w].pos \in Nat
        BY DEF IInv, Types
      <3> QED BY <1>3, <3>1, <3>2 DEF IInv, Types
    <2>2. /\ buf' \in [Cells -> Elem] /\ head' \in Cells /\ tail' \in Cells
          /\ lock' \in Caller \cup {Free}
          /\ rop' \in [Reader -> [want : Nat, block : BOOLEAN, out : Seq(Elem), passes : Nat]]
      BY <1>1 DEF IInv, Types
    <2>3. /\ signaled' \in BOOLEAN
          /\ pc' \in [Caller -> {"idle", "lock", "copy", "wait", "blocked"}]
      BY <1>4, Zenon
    <2> QED BY <2>1, <2>2, <2>3, Zenon DEF Types
  <1>7. Callers'
    <2>1. \A a \in Caller : pc'[a] = "copy" <=> lock' = a
      BY <1>1, <1>2, <1>4 DEF IInv, Callers
    <2>2. ASSUME NEW x \in Writer
          PROVE  /\ pc'[x] \in {"idle", "lock", "copy"}
                 /\ pc'[x] = "lock" => wop'[x].pos = 0
                 /\ pc'[x] # "copy" => wop'[x].passes = 0
                 /\ pc'[x] # "idle" => wop'[x].pos <= Len(wop'[x].data)
      <3>1. CASE x = w
        BY <1>4, <1>5, <3>1
      <3>2. CASE x # w
        <4>1. x \in Caller \ {w} /\ pc[x] # "blocked"
          BY <3>2, Distinct DEF IInv, Callers
        <4>2. pc'[x] = pc[x] /\ wop'[x] = wop[x]
          BY <1>4, <1>5, <4>1
        <4> QED BY <4>2 DEF IInv, Callers
      <3> QED BY <3>1, <3>2
    <2>3. ASSUME NEW r \in Reader
          PROVE  /\ pc'[r] \in {"lock", "wait", "blocked"} => rop'[r].out = <<>>
                 /\ pc'[r] # "copy" => rop'[r].passes = 0
                 /\ pc'[r] # "idle" => rop'[r].want > 0 /\ Len(rop'[r].out) <= rop'[r].want
      <3>1. r \in Caller \ {w}
        BY Distinct
      <3>2. pc'[r] = pc[r] \/ (pc[r] = "blocked" /\ pc'[r] = "lock")
        BY <1>4, <3>1
      <3> QED BY <1>1, <3>2 DEF IInv, Callers
    <2> QED BY <2>1, <2>2, <2>3 DEF Callers
  <1>8. Written' /\ Passes'
    BY <1>1, Distinct, CopyKept
  <1>9. Wakeup'
    <2>1. signaled' => \A r \in Reader : pc'[r] # "blocked"
      BY <1>4, Distinct
    <2> QED BY <1>1, <1>4, <2>1, Distinct DEF Wakeup
  <1> QED BY <1>6, <1>7, <1>8, <1>9 DEF IInv


LEMMA CallReadInv ==
  ASSUME CbufAssumption, IInv, NEW r \in Reader, CallRead(r)
  PROVE  IInv'
  <1>1. /\ pc[r] = "idle" /\ buf' = buf /\ head' = head /\ tail' = tail
        /\ signaled' = signaled /\ lock' = lock /\ wop' = wop
    BY DEF CallRead
  <1>2. PICK n \in Want, block \in BOOLEAN :
          /\ rop' = [rop EXCEPT ![r] =
                       [want |-> n, block |-> block, out |-> <<>>, passes |-> 0]]
          /\ pc' = [pc EXCEPT ![r] = IF block THEN "wait" ELSE "lock"]
    BY DEF CallRead
  <1>3. n \in Nat /\ n > 0 /\ r \in Caller /\ r \notin Writer
    BY Distinct DEF CbufAssumption
  <1>4. lock # r
    BY <1>1, <1>3 DEF IInv, Callers
  <1>5. /\ rop'[r] = [want |-> n, block |-> block, out |-> <<>>, passes |-> 0]
        /\ \A x \in Reader \ {r} : rop'[x] = rop[x]
        /\ pc'[r] \in {"wait", "lock"} /\ \A a \in Caller \ {r} : pc'[a] = pc[a]
    BY <1>2, <1>3 DEF IInv, Types
  <1>6. Types'
    <2>1. <<>> \in Seq(Elem)
      BY EmptySeq
    <2>2. rop' \in [Reader -> [want : Nat, block : BOOLEAN, out : Seq(Elem), passes : Nat]]
      BY <1>2, <1>3, <2>1 DEF IInv, Types
    <2>3. pc' \in [Caller -> {"idle", "lock", "copy", "wait", "blocked"}]
      BY <1>2, <1>3 DEF IInv, Types
    <2> QED BY <1>1, <2>2, <2>3 DEF IInv, Types
  <1>7. Callers'
    <2>1. \A a \in Caller : pc'[a] = "copy" <=> lock' = a
      BY <1>1, <1>4, <1>5 DEF IInv, Callers
    <2>2. \A x \in Writer : pc'[x] = pc[x]
      BY <1>3, <1>5, Distinct
    <2>3. ASSUME NEW x \in Reader
          PROVE  /\ pc'[x] \in {"lock", "wait", "blocked"} => rop'[x].out = <<>>
                 /\ pc'[x] # "copy" => rop'[x].passes = 0
                 /\ pc'[x] # "idle" => rop'[x].want > 0 /\ Len(rop'[x].out) <= rop'[x].want
      <3>1. CASE x = r
        <4>1. rop'[x].want = n /\ rop'[x].out = <<>> /\ rop'[x].passes = 0
          BY <1>5, <3>1
        <4>2. Len(rop'[x].out) = 0
          BY <4>1
        <4> QED BY <1>3, <4>1, <4>2
      <3>2. CASE x # r
        BY <1>5, <3>2, Distinct DEF IInv, Callers
      <3> QED BY <3>1, <3>2
    <2> QED BY <1>1, <2>1, <2>2, <2>3 DEF IInv, Callers
  <1>8. Written' /\ Passes'
    BY <1>1, <1>4, <1>5, CopyKept
  <1>9. Wakeup'
    <2>1. \A x \in Reader : pc'[x] = "blocked" => pc[x] = "blocked"
      BY <1>5, Distinct
    <2>2. \A x \in Reader : lock' = x => rop'[x] = rop[x]
      BY <1>1, <1>4, <1>5
    <2> QED BY <1>1, <2>1, <2>2 DEF IInv, Wakeup
  <1> QED BY <1>6, <1>7, <1>8, <1>9 DEF IInv

LEMMA EventWaitInv ==
  ASSUME CbufAssumption, IInv, NEW r \in Reader, event_wait(r)
  PROVE  IInv'
  <1>1. /\ pc[r] = "wait" /\ buf' = buf /\ head' = head /\ tail' = tail
        /\ signaled' = signaled /\ lock' = lock /\ wop' = wop /\ rop' = rop
        /\ pc' = [pc EXCEPT ![r] = IF signaled THEN "lock" ELSE "blocked"]
    BY DEF event_wait
  <1>2. r \in Caller /\ r \notin Writer
    BY Distinct
  <1>3. /\ pc'[r] = (IF signaled THEN "lock" ELSE "blocked")
        /\ \A a \in Caller \ {r} : pc'[a] = pc[a]
    BY <1>1, <1>2 DEF IInv, Types
  <1>4. Types'
    BY <1>1, <1>2 DEF IInv, Types
  <1>5. Callers'
    <2>1. \A a \in Caller : pc'[a] = "copy" <=> lock' = a
      <3>1. pc'[r] # "copy" /\ lock # r
        BY <1>1, <1>2, <1>3 DEF IInv, Callers
      <3> QED BY <1>1, <1>3, <3>1 DEF IInv, Callers
    <2>2. \A x \in Writer : pc'[x] = pc[x]
      BY <1>2, <1>3, Distinct
    <2>3. ASSUME NEW x \in Reader
          PROVE  /\ pc'[x] \in {"lock", "wait", "blocked"} => rop'[x].out = <<>>
                 /\ pc'[x] # "copy" => rop'[x].passes = 0
                 /\ pc'[x] # "idle" => rop'[x].want > 0 /\ Len(rop'[x].out) <= rop'[x].want
      <3>1. CASE x = r
        BY <1>1, <1>3, <3>1 DEF IInv, Callers
      <3>2. CASE x # r
        BY <1>1, <1>3, <3>2, Distinct DEF IInv, Callers
      <3> QED BY <3>1, <3>2
    <2> QED BY <1>1, <2>1, <2>2, <2>3 DEF IInv, Callers
  <1>6. Written' /\ Passes'
    BY <1>1, CopyKept
  <1>7. Wakeup'
    <2>1. signaled => \A x \in Reader : pc'[x] # "blocked"
      BY <1>3, Distinct DEF IInv, Wakeup
    <2> QED BY <1>1, <2>1 DEF IInv, Wakeup
  <1> QED BY <1>4, <1>5, <1>6, <1>7 DEF IInv

\* What a pass of cbuf_read appends to what it has read.
LEMMA ReadChunk ==
  ASSUME CbufAssumption, IInv, NEW r \in Reader, ReadPass(r), NEW n, n = read_len(r)
  PROVE  /\ rop'[r].out = rop[r].out \o [k \in 1 .. n |-> buf[tail + k - 1]]
         /\ rop'[r] = [want |-> rop[r].want, block |-> rop[r].block,
                       out |-> rop'[r].out, passes |-> rop[r].passes + 1]
         /\ \A x \in Reader \ {r} : rop'[x] = rop[x]
         /\ [k \in 1 .. n |-> buf[tail + k - 1]] \in Seq(Elem)
         /\ Len([k \in 1 .. n |-> buf[tail + k - 1]]) = n
         /\ rop[r].out \in Seq(Elem) /\ Len(rop[r].out) \in Nat
         /\ rop'[r].out \in Seq(Elem) /\ Len(rop'[r].out) = Len(rop[r].out) + n
         /\ rop' \in [Reader -> [want : Nat, block : BOOLEAN, out : Seq(Elem), passes : Nat]]
         /\ rop[r].passes \in Nat /\ rop[r].want \in Nat
  <1> DEFINE chunk == [k \in 1 .. n |-> buf[tail + k - 1]]
  <1>1. n \in Nat /\ \A k \in 1 .. n : buf[tail + k - 1] \in Elem
    BY ReadEffect
  <1>2. chunk \in Seq(Elem) /\ Len(chunk) = n
    BY <1>1
  <1>3. rop[r].out \in Seq(Elem) /\ rop[r].passes \in Nat /\ rop[r].want \in Nat
        /\ rop[r].block \in BOOLEAN
    BY DEF IInv, Types
  <1> DEFINE new == rop[r].out \o chunk
             rec == [want |-> rop[r].want, block |-> rop[r].block, out |-> new,
                     passes |-> rop[r].passes + 1]
  <1>4. rop' = [rop EXCEPT ![r] = rec]
    <2>1. Types
      BY DEF IInv
    <2> QED BY <2>1, RecordFields
  <1> HIDE DEF chunk
  <1>5. new \in Seq(Elem) /\ Len(new) = Len(rop[r].out) + n /\ Len(rop[r].out) \in Nat
    <2>1. Len(rop[r].out) \in Nat
      BY <1>3, LenProperties
    <2> QED BY ONLY <1>2, <1>3, <2>1, ConcatProperties
  <1> HIDE DEF new
  <1>6. rec \in [want : Nat, block : BOOLEAN, out : Seq(Elem), passes : Nat]
    BY <1>3, <1>5
  <1>7. rop'[r] = rec /\ rec.out = new /\ \A x \in Reader \ {r} : rop'[x] = rop[x]
    BY <1>4 DEF IInv, Types
  <1> HIDE DEF rec
  <1>8. rop' \in [Reader -> [want : Nat, block : BOOLEAN, out : Seq(Elem), passes : Nat]]
    BY <1>4, <1>6 DEF IInv, Types
  <1> QED BY <1>2, <1>3, <1>5, <1>7, <1>8 DEF rec, new, chunk


LEMMA ReadPassInv ==
  ASSUME CbufAssumption, IInv, NEW r \in Reader, ReadPass(r)
  PROVE  IInv'
  <1>0. PICK n : n = read_len(r)
    OBVIOUS
  <1> DEFINE g == Len(rop[r].out)
             m == rop[r].passes
  <1>1. /\ n \in Nat /\ n > 0 /\ lock = r /\ tail' \in Cells /\ head' = head /\ buf' = buf
        /\ head # tail /\ g + n <= rop[r].want /\ g < rop[r].want
        /\ g + n = rop[r].want \/ tail' = head \/ (tail # 0 /\ tail' = 0)
    BY <1>0, ReadEffect
  <1>2. /\ pc[r] = "copy" /\ signaled' = signaled /\ lock' = lock /\ pc' = pc /\ wop' = wop
    BY DEF ReadPass
  <1>3. /\ rop'[r] = [want |-> rop[r].want, block |-> rop[r].block,
                      out |-> rop'[r].out, passes |-> m + 1]
        /\ \A x \in Reader \ {r} : rop'[x] = rop[x]
        /\ rop'[r].out \in Seq(Elem) /\ Len(rop'[r].out) = g + n /\ g \in Nat
        /\ rop' \in [Reader -> [want : Nat, block : BOOLEAN, out : Seq(Elem), passes : Nat]]
        /\ m \in Nat /\ rop[r].want \in Nat
    BY <1>0, ReadChunk
  <1>4. rop'[r].want = rop[r].want /\ rop'[r].passes = m + 1
    BY <1>3
  <1>5. rop'[r].out # <<>>
    <2>1. Len(rop'[r].out) # 0
      <3> HIDE DEF g
      <3> QED BY ONLY <1>1, <1>3
    <2> QED BY <2>1, EmptySeq
  <1> HIDE DEF g
  <1>6. Types'
    BY <1>1, <1>2, <1>3 DEF IInv, Types
  <1>7. Callers'
    <2>1. ASSUME NEW x \in Reader
          PROVE  /\ pc'[x] \in {"lock", "wait", "blocked"} => rop'[x].out = <<>>
                 /\ pc'[x] # "copy" => rop'[x].passes = 0
                 /\ pc'[x] # "idle" => rop'[x].want > 0 /\ Len(rop'[x].out) <= rop'[x].want
      <3>1. CASE x = r
        <4>1. rop[r].want > 0
          BY <1>2 DEF IInv, Callers
        <4> QED BY <1>1, <1>2, <1>3, <1>4, <3>1, <4>1
      <3>2. CASE x # r
        BY <1>2, <1>3, <3>2 DEF IInv, Callers
      <3> QED BY <3>1, <3>2
    <2> QED BY <1>2, <2>1 DEF IInv, Callers
  <1>8. lock' = r /\ r \notin Writer /\ r # Free
    BY <1>1, <1>2, Distinct
  <1>9. Written'
    BY <1>8 DEF Written
  <1>10. Passes'
    <2>1. LET stuck == Len(rop[r].out) = rop[r].want \/ tail = head IN
          /\ rop[r].passes <= 2
          /\ rop[r].passes = 1 => stuck \/ tail = 0
          /\ rop[r].passes = 2 => stuck
      BY <1>1 DEF IInv, Passes
    <2>2. g # rop[r].want /\ tail # head
      BY ONLY <1>1, <1>3
    <2>3. m <= 2 /\ m # 2 /\ (m = 1 => tail = 0)
      BY <2>1, <2>2 DEF g
    <2> HIDE DEF m
    <2>4. m = 0 \/ m = 1
      BY ONLY <1>3, <2>3
    <2>5. m + 1 <= 2
      BY ONLY <2>4
    <2>6. m + 1 = 1 => g + n = rop[r].want \/ tail' = head \/ tail' = 0
      BY <1>1
    <2>7. m + 1 = 2 => g + n = rop[r].want \/ tail' = head
      <3>1. m + 1 = 2 => tail = 0
        BY ONLY <2>3, <2>4
      <3> QED BY <1>1, <3>1
    <2> QED BY <1>1, <1>3, <1>4, <1>8, <2>5, <2>6, <2>7 DEF Passes
  <1>11. Wakeup'
    <2>1. signaled
      BY <1>1 DEF IInv, Wakeup
    <2> QED BY <1>2, <1>5, <1>8, <2>1 DEF IInv, Wakeup
  <1> QED BY <1>6, <1>7, <1>9, <1>10, <1>11 DEF IInv

LEMMA EndReadInv ==
  ASSUME CbufAssumption, IInv, NEW r \in Reader, EndRead(r)
  PROVE  IInv'
  <1> DEFINE retry == rop[r].block /\ rop[r].out = <<>>
  <1>1. /\ pc[r] = "copy" /\ lock' = Free /\ buf' = buf /\ head' = head
        /\ tail' = tail /\ wop' = wop /\ r \in Caller /\ Free \notin Caller
        /\ signaled' = IF rop[r].out # <<>> /\ tail = head THEN FALSE ELSE signaled
        /\ pc' = [pc EXCEPT ![r] = IF retry THEN "wait" ELSE "idle"]
    BY Distinct DEF EndRead, CloseRead, Caller
  <1>2. lock = r
    BY <1>1 DEF IInv, Callers
  <1>3. rop' = [rop EXCEPT ![r] = [want |-> IF retry THEN rop[r].want ELSE 0,
                                   block |-> retry, out |-> rop[r].out, passes |-> 0]]
    <2>1. Types
      BY DEF IInv
    <2> QED BY <2>1, RecordFields
  <1>4. /\ rop'[r] = [want |-> IF retry THEN rop[r].want ELSE 0,
                      block |-> retry, out |-> rop[r].out, passes |-> 0]
        /\ \A x \in Reader \ {r} : rop'[x] = rop[x]
    BY <1>3 DEF IInv, Types
  <1>5. rop'[r].want = (IF retry THEN rop[r].want ELSE 0) /\ rop'[r].out = rop[r].out
        /\ rop'[r].passes = 0
    BY <1>4
  <1>6. /\ pc'[r] = (IF retry THEN "wait" ELSE "idle")
        /\ \A a \in Caller \ {r} : pc'[a] = pc[a]
    BY <1>1 DEF IInv, Types
  <1>7. Types'
    <2>1. /\ (IF retry THEN rop[r].want ELSE 0) \in Nat /\ retry \in BOOLEAN
          /\ rop[r].out \in Seq(Elem)
      BY DEF IInv, Types
    <2>2. rop' \in [Reader -> [want : Nat, block : BOOLEAN, out : Seq(Elem), passes : Nat]]
      <3> HIDE DEF retry
      <3> QED BY <1>3, <2>1 DEF IInv, Types
    <2>3. pc' \in [Caller -> {"idle", "lock", "copy", "wait", "blocked"}]
      BY <1>1 DEF IInv, Types
    <2>4. signaled' \in BOOLEAN
      BY <1>1 DEF IInv, Types
    <2>5. /\ buf' \in [Cells -> Elem] /\ head' \in Cells /\ tail' \in Cells
          /\ lock' \in Caller \cup {Free}
          /\ wop' \in [Writer -> [data : Seq(Data), pos : Nat, passes : Nat]]
      BY <1>1 DEF IInv, Types
    <2> QED BY <2>2, <2>3, <2>4, <2>5, Zenon DEF Types
  <1>8. Callers'
    <2>1. \A a \in Caller : pc'[a] = "copy" <=> lock' = a
      BY <1>1, <1>2, <1>6 DEF IInv, Callers
    <2>2. \A x \in Writer : pc'[x] = pc[x]
      BY <1>6, Distinct
    <2>3. ASSUME NEW x \in Reader
          PROVE  /\ pc'[x] \in {"lock", "wait", "blocked"} => rop'[x].out = <<>>
                 /\ pc'[x] # "copy" => rop'[x].passes = 0
                 /\ pc'[x] # "idle" => rop'[x].want > 0 /\ Len(rop'[x].out) <= rop'[x].want
      <3>1. CASE x = r
        <4>1. rop[r].want > 0 /\ Len(rop[r].out) <= rop[r].want
          BY <1>1 DEF IInv, Callers
        <4>2. CASE retry
          BY <1>5, <1>6, <3>1, <4>1, <4>2
        <4>3. CASE ~retry
          BY <1>5, <1>6, <3>1, <4>3
        <4> QED BY <4>2, <4>3
      <3>2. CASE x # r
        BY <1>4, <1>6, <3>2, Distinct DEF IInv, Callers
      <3> QED BY <3>1, <3>2
    <2> QED BY <1>1, <2>1, <2>2, <2>3 DEF IInv, Callers
  <1>9. Written' /\ Passes'
    BY <1>1, Distinct, CopyKept
  <1>10. Wakeup'
    <2>1. IF rop[r].out = <<>> THEN signaled <=> head # tail ELSE signaled
      BY <1>2 DEF IInv, Wakeup
    <2>2. signaled' <=> head # tail
      <3>1. CASE rop[r].out = <<>>
        <4>1. signaled' = signaled
          BY <1>1, <3>1
        <4> QED BY <2>1, <3>1, <4>1
      <3>2. CASE rop[r].out # <<>> /\ tail = head
        BY <1>1, <3>2
      <3>3. CASE rop[r].out # <<>> /\ tail # head
        <4>1. signaled' = signaled
          BY <1>1, <3>3
        <4> QED BY <2>1, <3>3, <4>1
      <3> QED BY <3>1, <3>2, <3>3
    <2>3. signaled' => signaled
      BY <1>1
    <2>4. \A x \in Reader : pc'[x] = "blocked" => pc[x] = "blocked"
      BY <1>6, Distinct
    <2>5. signaled => \A x \in Reader : pc[x] # "blocked"
      BY DEF IInv, Wakeup
    <2>6. Free \notin Writer /\ Free \notin Reader
      BY Distinct
    <2> QED BY <1>1, <2>2, <2>3, <2>4, <2>5, <2>6 DEF Wakeup
  <1> QED BY <1>7, <1>8, <1>9, <1>10 DEF IInv

LEMMA StepInv ==
  ASSUME CbufAssumption, IInv, [Next]_vars
  PROVE  IInv'
  <1>1. ASSUME NEW w \in Writer, CallWrite(w) \/ Lock(w) \/ WritePass(w) \/ EndWrite(w)
        PROVE  IInv'
    BY <1>1, Distinct, CallWriteInv, LockInv, WritePassInv, EndWriteInv
  <1>2. ASSUME NEW r \in Reader, \/ CallRead(r) \/ event_wait(r) \/ Lock(r)
                                 \/ ReadPass(r) \/ EndRead(r)
        PROVE  IInv'
    BY <1>2, Distinct, CallReadInv, EventWaitInv, LockInv, ReadPassInv, EndReadInv
  <1>3. CASE UNCHANGED vars
    <2>1. /\ buf' = buf /\ head' = head /\ tail' = tail /\ signaled' = signaled
          /\ lock' = lock /\ pc' = pc /\ wop' = wop /\ rop' = rop
      BY <1>3 DEF vars
    <2>2. Types' /\ Callers' /\ Wakeup'
      BY <2>1 DEF IInv, Types, Callers, Wakeup
    <2>3. Written' /\ Passes'
      BY <2>1, CopyKept
    <2> QED BY <2>2, <2>3 DEF IInv
  <1> QED BY <1>1, <1>2, <1>3 DEF Next

\* Every state of the buffer and of its callers satisfies IInv.
THEOREM Invariance == Spec => []IInv
  <1>1. Init => IInv
    BY InitInv, CbufAssumption
  <1>2. IInv /\ [Next]_vars => IInv'
    BY StepInv, CbufAssumption
  <1> QED BY <1>1, <1>2, PTL DEF Spec

-----------------------------------------------------------------------------
(* What it implies.                                                        *)

\* A cbuf_read or a cbuf_write makes at most two passes over its loop, for
\* every size of the buffer and of the request.
THEOREM TwoPassesCorrect == Spec => []TwoPasses
  <1>1. IInv => TwoPasses
    <2> SUFFICES ASSUME IInv PROVE TwoPasses
      OBVIOUS
    <2>1. \A r \in Reader : rop[r].passes <= 2
      <3> TAKE r \in Reader
      <3>1. CASE lock = r
        BY <3>1 DEF IInv, Passes
      <3>2. CASE lock # r
        BY <3>2, Distinct, CbufAssumption DEF IInv, Callers
      <3> QED BY <3>1, <3>2
    <2>2. \A w \in Writer : wop[w].passes <= 2
      <3> TAKE w \in Writer
      <3>1. CASE lock = w
        BY <3>1 DEF IInv, Passes
      <3>2. CASE lock # w
        BY <3>2, Distinct, CbufAssumption DEF IInv, Callers
      <3> QED BY <3>1, <3>2
    <2> QED BY <2>1, <2>2 DEF TwoPasses
  <1> QED BY <1>1, Invariance, PTL

\* Whenever the lock is free the event says whether there is data, and no
\* reader sleeps in event_wait while there is: the wait outside the lock loses
\* no wake-up, whatever the number of readers and writers.
THEOREM WakeupCorrect == Spec => []WakeupExact
  <1>1. IInv => WakeupExact
    BY DEF IInv, Wakeup, WakeupExact
  <1> QED BY <1>1, Invariance, PTL


\* A run of cells that does not wrap around.
Run(b, base, len) == [k \in 1 .. len |-> b[base + k - 1]]

LEMMA RunFacts ==
  ASSUME CbufAssumption, NEW b \in [Cells -> Elem], NEW base \in Nat, NEW len \in Nat,
         base + len <= Size
  PROVE  /\ Run(b, base, len) \in Seq(Elem) /\ Len(Run(b, base, len)) = len
         /\ \A k \in 1 .. len : Run(b, base, len)[k] = b[base + k - 1]
  <1>1. ASSUME NEW k \in 1 .. len PROVE b[base + k - 1] \in Elem
    <2>1. base + k - 1 \in Cells
      BY SizeFacts
    <2> QED BY <2>1
  <1> QED BY <1>1 DEF Run

\* Concatenation with the lengths named.
LEMMA ConcatIs ==
  ASSUME NEW S, NEW x \in Seq(S), NEW y \in Seq(S), NEW m, NEW n, Len(x) = m, Len(y) = n
  PROVE  /\ x \o y \in Seq(S) /\ Len(x \o y) = m + n
         /\ \A k \in 1 .. (m + n) : (x \o y)[k] = IF k <= m THEN x[k] ELSE y[k - m]
  <1>1. /\ x \o y \in Seq(S) /\ Len(x \o y) = Len(x) + Len(y)
        /\ \A k \in 1 .. (Len(x) + Len(y)) :
             (x \o y)[k] = IF k <= Len(x) THEN x[k] ELSE y[k - Len(x)]
    BY ConcatProperties
  <1> QED BY <1>1

\* cbuf_peek points at the contents, in order and without leaving the buffer.
LEMMA PeekLemma ==
  ASSUME CbufAssumption, Types
  PROVE  PeekExact
  <1> DEFINE u == cbuf_space_used
             R == cbuf_peek
  <1>1. /\ Size \in Nat /\ Size > 1 /\ tail \in 0 .. (Size - 1) /\ u \in 0 .. (Size - 1)
        /\ Contents \in Seq(Elem) /\ Len(Contents) = u /\ buf \in [Cells -> Elem]
        /\ \A k \in 1 .. u : Contents[k] = buf[Slot(tail, k)]
    BY SizeFacts, ContentsFacts DEF Types
  <1>2. \A k \in 1 .. u : Slot(tail, k) = IF tail + k - 1 < Size THEN tail + k - 1
                                          ELSE tail + k - 1 - Size
    <2> TAKE k \in 1 .. u
    <2>1. k \in 1 .. Size
      <3> HIDE DEF u
      <3> QED BY ONLY <1>1, k \in 1 .. u
    <2>2. tail \in Cells
      BY DEF Types
    <2> QED BY ONLY CbufAssumption, <2>1, <2>2, SlotIs
  <1>3. PICK a \in Nat, b \in Nat :
          /\ R = <<[base |-> tail, len |-> a], [base |-> 0, len |-> b]>>
          /\ a + b = u /\ tail + a <= Size /\ b <= Size
          /\ b > 0 => tail + a = Size
    <2>1. CASE u + tail > Size
      <3>1. R = <<[base |-> tail, len |-> Size - tail],
                  [base |-> 0, len |-> u - (Size - tail)]>>
        BY <2>1 DEF cbuf_peek
      <3> HIDE DEF u, R
      <3>2. /\ Size - tail \in Nat /\ u - (Size - tail) \in Nat
            /\ (Size - tail) + (u - (Size - tail)) = u /\ tail + (Size - tail) <= Size
            /\ u - (Size - tail) <= Size /\ tail + (Size - tail) = Size
        BY ONLY <1>1, <2>1
      <3> QED BY <3>1, <3>2
    <2>2. CASE ~(u + tail > Size)
      <3>1. R = <<[base |-> tail, len |-> u], [base |-> 0, len |-> 0]>>
        BY <2>2 DEF cbuf_peek
      <3> HIDE DEF u, R
      <3>2. u \in Nat /\ 0 \in Nat /\ u + 0 = u /\ tail + u <= Size /\ 0 <= Size /\ ~(0 > 0)
        BY ONLY <1>1, <2>2
      <3> QED BY <3>1, <3>2
    <2> QED BY <2>1, <2>2
  <1>4. R[1].base = tail /\ R[1].len = a /\ R[2].base = 0 /\ R[2].len = b
    BY <1>3
  <1>5. \A k \in 1 .. 2 : R[k].base + R[k].len <= Size
    <2>1. tail + a <= Size /\ 0 + b <= Size
      BY <1>3
    <2>2. \A k \in 1 .. 2 : k = 1 \/ k = 2
      OBVIOUS
    <2> HIDE DEF R
    <2> QED BY <1>4, <2>1, <2>2
  <1>6. Run(buf, tail, a) \o Run(buf, 0, b) = Contents
    <2>1. /\ Run(buf, tail, a) \in Seq(Elem) /\ Len(Run(buf, tail, a)) = a
          /\ \A k \in 1 .. a : Run(buf, tail, a)[k] = buf[tail + k - 1]
      <3>1. tail \in Nat /\ tail + a <= Size
        BY <1>1, <1>3
      <3> QED BY ONLY CbufAssumption, <1>1, <3>1, a \in Nat, RunFacts
    <2>2. /\ Run(buf, 0, b) \in Seq(Elem) /\ Len(Run(buf, 0, b)) = b
          /\ \A k \in 1 .. b : Run(buf, 0, b)[k] = buf[0 + k - 1]
      <3>1. 0 \in Nat /\ 0 + b <= Size
        BY <1>3
      <3> QED BY ONLY CbufAssumption, <1>1, <3>1, b \in Nat, RunFacts, ZenonT(40)
    <2> DEFINE s1 == Run(buf, tail, a)
               s2 == Run(buf, 0, b)
               s  == s1 \o s2
    <2> HIDE DEF s1, s2
    <2>3. s1 \in Seq(Elem) /\ s2 \in Seq(Elem) /\ Len(s1) = a /\ Len(s2) = b
      BY <2>1, <2>2 DEF s1, s2
    <2>4. /\ s1 \o s2 \in Seq(Elem) /\ Len(s1 \o s2) = a + b
          /\ \A k \in 1 .. (a + b) :
               (s1 \o s2)[k] = IF k <= a THEN s1[k] ELSE s2[k - a]
      BY ONLY <2>3, ConcatIs
    <2>5. /\ s \in Seq(Elem) /\ Len(s) = a + b
          /\ \A k \in 1 .. (a + b) :
               s[k] = IF k <= a THEN Run(buf, tail, a)[k] ELSE Run(buf, 0, b)[k - a]
      BY ONLY <2>4 DEF s1, s2
    <2> HIDE DEF s, u
    <2>6. ASSUME NEW k \in 1 .. Len(s) PROVE s[k] = Contents[k]
      <3>1. k \in 1 .. (a + b) /\ k \in 1 .. u
        BY <1>3, <2>5
      <3>2. CASE k <= a
        <4>1. k \in 1 .. a /\ tail + k - 1 < Size
          BY ONLY <1>1, <1>3, <3>1, <3>2, a \in Nat, b \in Nat
        <4> QED BY <1>1, <1>2, <2>1, <2>5, <3>1, <3>2, <4>1
      <3>3. CASE ~(k <= a)
        <4>1. /\ k - a \in 1 .. b /\ ~(tail + k - 1 < Size)
              /\ 0 + (k - a) - 1 = tail + k - 1 - Size
          BY ONLY <1>1, <1>3, <3>1, <3>3, a \in Nat, b \in Nat
        <4>2. s[k] = buf[0 + (k - a) - 1]
          BY ONLY <2>2, <2>5, <3>1, <3>3, <4>1
        <4> QED BY <1>1, <1>2, <3>1, <4>1, <4>2
      <3> QED BY <3>2, <3>3
    <2>7. Len(s) = Len(Contents)
      BY <1>1, <1>3, <2>5
    <2>8. s = Contents
      BY ONLY <1>1, <2>5, <2>6, <2>7, SeqEqual
    <2> QED BY <2>8 DEF s, s1, s2
  <1>7. /\ [k \in 1 .. R[1].len |-> buf[R[1].base + k - 1]] = Run(buf, tail, a)
        /\ [k \in 1 .. R[2].len |-> buf[R[2].base + k - 1]] = Run(buf, 0, b)
    <2> HIDE DEF R
    <2> QED BY <1>4 DEF Run
  <1> QED BY <1>5, <1>6, <1>7 DEF PeekExact

\* The regions cbuf_peek reports are the contents of the buffer in order and lie
\* inside it, wherever the pointers are and while calls are under way.
THEOREM PeekCorrect == Spec => []PeekExact
  <1>1. IInv => PeekExact
    BY PeekLemma, CbufAssumption DEF IInv
  <1> QED BY <1>1, Invariance, PTL


-----------------------------------------------------------------------------
(* The buffer implements the queue of module Fifo.                         *)

\* The calls as the queue's users see them, which Abstract substitutes.
WrOf(op, p) == [data |-> op.data, n |-> IF p = "idle" THEN op.pos ELSE -1]
RdOf(op, p) == [want |-> op.want, block |-> op.block, busy |-> p # "idle",
                got |-> IF p = "idle" THEN op.out ELSE <<>>]
WR == [w \in Writer |-> WrOf(wop[w], pc[w])]
RD == [r \in Reader |-> RdOf(rop[r], pc[r])]

LEMMA CommittedIs ==
  ASSUME CbufAssumption
  PROVE  /\ lock = Free => Committed = Contents
         /\ \A w \in Writer : lock = w =>
              Committed = SubSeq(Contents, 1, cbuf_space_used - wop[w].pos)
         /\ \A r \in Reader : lock = r => Committed = rop[r].out \o Contents
         /\ lock' = Free => Committed' = Contents'
         /\ \A w \in Writer : lock' = w =>
              Committed' = SubSeq(Contents', 1, cbuf_space_used' - wop'[w].pos)
         /\ \A r \in Reader : lock' = r => Committed' = rop'[r].out \o Contents'
  BY Distinct DEF Committed

\* A step that changes neither the buffer nor the call that has the lock does
\* not change the queue.
LEMMA CommittedKept ==
  ASSUME CbufAssumption, Types, buf' = buf, head' = head, tail' = tail, lock' = lock,
         \A w \in Writer : lock = w => wop'[w] = wop[w],
         \A r \in Reader : lock = r => rop'[r] = rop[r]
  PROVE  Committed' = Committed
  <1>1. Contents' = Contents /\ cbuf_space_used' = cbuf_space_used
    BY DEF Contents, cbuf_space_used
  <1>2. lock \in Writer \/ lock \in Reader \/ lock = Free
    BY DEF Types, Caller
  <1>3. CASE lock \in Writer
    <2>1. PICK w \in Writer : lock = w
      BY <1>3
    <2>2. Committed = SubSeq(Contents, 1, cbuf_space_used - wop[w].pos)
      BY <2>1, CommittedIs
    <2>3. Committed' = SubSeq(Contents', 1, cbuf_space_used' - wop'[w].pos)
      BY <2>1, CommittedIs
    <2> QED BY <1>1, <2>1, <2>2, <2>3
  <1>4. CASE lock \in Reader
    <2>1. PICK r \in Reader : lock = r
      BY <1>4
    <2>2. Committed = rop[r].out \o Contents
      BY <2>1, CommittedIs
    <2>3. Committed' = rop'[r].out \o Contents'
      BY <2>1, CommittedIs
    <2> QED BY <1>1, <2>1, <2>2, <2>3
  <1>5. CASE lock = Free
    BY <1>1, <1>5, CommittedIs
  <1> QED BY <1>2, <1>3, <1>4, <1>5

\* Taking a sequence apart where it was put together.
LEMMA SplitConcat ==
  ASSUME NEW S, NEW x \in Seq(S), NEW y \in Seq(S), NEW m, NEW n, Len(x) = m, Len(y) = n
  PROVE  /\ SubSeq(x \o y, 1, m) = x
         /\ SubSeq(x \o y, m + 1, m + n) = y
         /\ Len(x \o y) = m + n
  <1> DEFINE z == x \o y
  <1>1. /\ z \in Seq(S) /\ Len(z) = m + n
        /\ \A k \in 1 .. (m + n) : z[k] = IF k <= m THEN x[k] ELSE y[k - m]
    BY ConcatIs
  <1> HIDE DEF z
  <1>2. m \in Nat /\ n \in Nat
    BY LenProperties
  <1>3. \A k \in 1 .. (m + n) : z[k] \in S
    BY <1>1, ElementOfSeq
  <1>4. SubSeq(z, 1, m) = x
    <2> DEFINE a == SubSeq(z, 1, m)
    <2>1. \A i \in 1 .. m : z[i] \in S
      BY <1>2, <1>3
    <2>2. /\ a \in Seq(S) /\ Len(a) = (IF 1 <= m THEN m - 1 + 1 ELSE 0)
          /\ \A i \in 1 .. (m - 1 + 1) : a[i] = z[1 + i - 1]
      <3>1. 1 \in Int /\ m \in Int
        BY <1>2
      <3> QED BY ONLY <3>1, <2>1, SubSeqProperties
    <2> HIDE DEF a
    <2>3. Len(a) = Len(x)
      BY <1>2, <2>2
    <2>4. ASSUME NEW i \in 1 .. Len(a) PROVE a[i] = x[i]
      <3>1. i \in 1 .. (m - 1 + 1) /\ i \in 1 .. (m + n) /\ i <= m /\ 1 + i - 1 = i
        BY <1>2, <2>3
      <3> QED BY <1>1, <2>2, <3>1
    <2>5. a = x
      BY ONLY <2>2, <2>3, <2>4, x \in Seq(S), SeqEqual
    <2> QED BY <2>5 DEF a
  <1>5. SubSeq(z, m + 1, m + n) = y
    <2> DEFINE a == SubSeq(z, m + 1, m + n)
    <2>1. \A i \in (m + 1) .. (m + n) : z[i] \in S
      BY <1>2, <1>3
    <2>2. /\ a \in Seq(S)
          /\ Len(a) = (IF m + 1 <= m + n THEN (m + n) - (m + 1) + 1 ELSE 0)
          /\ \A i \in 1 .. ((m + n) - (m + 1) + 1) : a[i] = z[(m + 1) + i - 1]
      <3>1. m + 1 \in Int /\ m + n \in Int
        BY <1>2
      <3> QED BY ONLY <3>1, <2>1, SubSeqProperties
    <2> HIDE DEF a
    <2>3. Len(a) = Len(y)
      BY <1>2, <2>2
    <2>4. ASSUME NEW i \in 1 .. Len(a) PROVE a[i] = y[i]
      <3>1. /\ i \in 1 .. ((m + n) - (m + 1) + 1) /\ (m + 1) + i - 1 \in 1 .. (m + n)
            /\ ~((m + 1) + i - 1 <= m) /\ ((m + 1) + i - 1) - m = i
        BY <1>2, <2>3
      <3> QED BY <1>1, <2>2, <3>1
    <2>5. a = y
      BY ONLY <2>2, <2>3, <2>4, y \in Seq(S), SeqEqual
    <2> QED BY <2>5 DEF a
  <1> QED BY <1>1, <1>4, <1>5 DEF z

\* The first m elements of a sequence.
LEMMA PrefixIs ==
  ASSUME NEW S, NEW x \in Seq(S), NEW m \in Nat, m <= Len(x)
  PROVE  /\ SubSeq(x, 1, m) \in Seq(S) /\ Len(SubSeq(x, 1, m)) = m
         /\ \A k \in 1 .. m : SubSeq(x, 1, m)[k] = x[k]
  <1>1. Len(x) \in Nat
    BY LenProperties
  <1>2. \A i \in 1 .. m : x[i] \in S
    BY <1>1, ElementOfSeq
  <1>3. /\ SubSeq(x, 1, m) \in Seq(S)
        /\ Len(SubSeq(x, 1, m)) = (IF 1 <= m THEN m - 1 + 1 ELSE 0)
        /\ \A i \in 1 .. (m - 1 + 1) : SubSeq(x, 1, m)[i] = x[1 + i - 1]
    <2>1. 1 \in Int /\ m \in Int
      OBVIOUS
    <2> QED BY ONLY <1>2, <2>1, SubSeqProperties
  <1>4. Len(SubSeq(x, 1, m)) = m
    BY <1>3
  <1>5. ASSUME NEW k \in 1 .. m PROVE SubSeq(x, 1, m)[k] = x[k]
    <2>1. k \in 1 .. (m - 1 + 1) /\ 1 + k - 1 = k
      OBVIOUS
    <2> QED BY <1>3, <2>1
  <1> QED BY <1>3, <1>4, <1>5


\* A step that leaves the users' view of their calls alone.
LEMMA CallsKept ==
  ASSUME \A w \in Writer : WrOf(wop'[w], pc'[w]) = WrOf(wop[w], pc[w]),
         \A r \in Reader : RdOf(rop'[r], pc'[r]) = RdOf(rop[r], pc[r])
  PROVE  WR' = WR /\ RD' = RD
  BY DEF WR, RD

\* The start of a call is the start of a call on the queue.
LEMMA CallWriteMaps ==
  ASSUME CbufAssumption, IInv, NEW w \in Writer, CallWrite(w)
  PROVE  /\ Committed' = Committed /\ RD' = RD
         /\ WR[w].n # -1 /\ WR'[w].n = -1 /\ WR'[w].data \in Seq(Data)
         /\ WR' = [WR EXCEPT ![w] = WR'[w]]
  <1>1. /\ pc[w] = "idle" /\ pc' = [pc EXCEPT ![w] = "lock"]
        /\ buf' = buf /\ head' = head /\ tail' = tail
        /\ lock' = lock /\ rop' = rop
    BY DEF CallWrite
  <1>2. PICK s \in Payload :
          wop' = [wop EXCEPT ![w] = [data |-> s, pos |-> 0, passes |-> 0]]
    BY DEF CallWrite
  <1>3. s \in Seq(Data) /\ w \in Caller /\ w \notin Reader /\ lock # w
    BY <1>1, Distinct DEF CbufAssumption, IInv, Callers
  <1>4. /\ wop'[w] = [data |-> s, pos |-> 0, passes |-> 0]
        /\ \A x \in Writer \ {w} : wop'[x] = wop[x]
        /\ pc'[w] = "lock" /\ \A a \in Caller \ {w} : pc'[a] = pc[a]
    BY <1>1, <1>2, <1>3 DEF IInv, Types
  <1>5. Committed' = Committed
    <2>1. Types
      BY DEF IInv
    <2> QED BY <1>1, <1>3, <1>4, <2>1, CommittedKept
  <1>6. RD' = RD
    <2>1. \A r \in Reader : pc'[r] = pc[r]
      BY <1>3, <1>4, Distinct
    <2> QED BY <1>1, <2>1 DEF RD
  <1>7. WR[w] = WrOf(wop[w], "idle") /\ WR'[w] = WrOf(wop'[w], "lock")
    BY <1>1, <1>4 DEF WR
  <1>8. WR[w].n = wop[w].pos /\ wop[w].pos \in Nat
    BY <1>7 DEF WrOf, IInv, Types
  <1>9. WR'[w].n = -1 /\ WR'[w].data = s
    BY <1>4, <1>7 DEF WrOf
  <1>10. WR' = [WR EXCEPT ![w] = WR'[w]]
    <2>1. \A x \in Writer \ {w} : WrOf(wop'[x], pc'[x]) = WrOf(wop[x], pc[x])
      BY <1>4, Distinct
    <2> QED BY <2>1 DEF WR
  <1>11. WR[w].n # -1
    BY <1>8
  <1> QED BY <1>3, <1>5, <1>6, <1>9, <1>10, <1>11

LEMMA CallReadMaps ==
  ASSUME CbufAssumption, IInv, NEW r \in Reader, CallRead(r)
  PROVE  /\ Committed' = Committed /\ WR' = WR
         /\ ~RD[r].busy /\ RD'[r].busy /\ RD'[r].got = <<>>
         /\ RD' = [RD EXCEPT ![r] = RD'[r]]
  <1>1. /\ pc[r] = "idle" /\ buf' = buf /\ head' = head /\ tail' = tail
        /\ lock' = lock /\ wop' = wop
    BY DEF CallRead
  <1>2. PICK n \in Want, block \in BOOLEAN :
          /\ rop' = [rop EXCEPT ![r] =
                       [want |-> n, block |-> block, out |-> <<>>, passes |-> 0]]
          /\ pc' = [pc EXCEPT ![r] = IF block THEN "wait" ELSE "lock"]
    BY DEF CallRead
  <1>3. r \in Caller /\ r \notin Writer /\ lock # r
    BY <1>1, Distinct DEF IInv, Callers
  <1>4. /\ \A x \in Reader \ {r} : rop'[x] = rop[x]
        /\ pc'[r] # "idle" /\ \A a \in Caller \ {r} : pc'[a] = pc[a]
    BY <1>2, <1>3 DEF IInv, Types
  <1>5. Committed' = Committed
    <2>1. Types
      BY DEF IInv
    <2> QED BY <1>1, <1>3, <1>4, <2>1, CommittedKept
  <1>6. WR' = WR
    <2>1. \A w \in Writer : pc'[w] = pc[w]
      BY <1>3, <1>4, Distinct
    <2> QED BY <1>1, <2>1 DEF WR
  <1>7. RD[r] = RdOf(rop[r], pc[r]) /\ RD'[r] = RdOf(rop'[r], pc'[r])
    BY DEF RD
  <1>8. ~RD[r].busy /\ RD'[r].busy /\ RD'[r].got = <<>>
    <2>1. RD[r].busy = (pc[r] # "idle") /\ RD'[r].busy = (pc'[r] # "idle")
      BY ONLY <1>7 DEF RdOf
    <2>2. RD'[r].got = IF pc'[r] = "idle" THEN rop'[r].out ELSE <<>>
      BY ONLY <1>7 DEF RdOf
    <2>3. RD'[r].got = <<>>
      BY <1>4, <2>2
    <2> QED BY <1>1, <1>4, <2>1, <2>3, Zenon
  <1>9. RD' = [RD EXCEPT ![r] = RD'[r]]
    <2>1. \A x \in Reader \ {r} : RdOf(rop'[x], pc'[x]) = RdOf(rop[x], pc[x])
      BY <1>4, Distinct
    <2> QED BY <2>1 DEF RD
  <1> QED BY <1>5, <1>6, <1>8, <1>9

\* Taking the lock, waiting and copying change nothing the users see.
LEMMA LockMaps ==
  ASSUME CbufAssumption, IInv, NEW a \in Caller, Lock(a)
  PROVE  Committed' = Committed /\ WR' = WR /\ RD' = RD
  <1>1. /\ pc[a] = "lock" /\ lock = Free /\ lock' = a
        /\ pc' = [pc EXCEPT ![a] = "copy"]
        /\ buf' = buf /\ head' = head /\ tail' = tail /\ wop' = wop /\ rop' = rop
    BY DEF Lock
  <1>2. pc'[a] = "copy" /\ \A b \in Caller \ {a} : pc'[b] = pc[b]
    BY <1>1 DEF IInv, Types
  <1>3. Contents' = Contents /\ cbuf_space_used' = cbuf_space_used
    BY <1>1 DEF Contents, cbuf_space_used
  <1>4. /\ Contents \in Seq(Elem) /\ Len(Contents) = cbuf_space_used
        /\ cbuf_space_used \in Int /\ Committed = Contents
    BY <1>1, ContentsFacts, SizeFacts, CommittedIs DEF IInv
  <1>5. Committed' = Committed
    <2>1. CASE a \in Writer
      <3>1. wop'[a].pos = 0 /\ cbuf_space_used - 0 = Len(Contents)
        BY <1>1, <1>4, <2>1 DEF IInv, Callers
      <3>2. Committed' = SubSeq(Contents', 1, cbuf_space_used' - wop'[a].pos)
        BY <1>1, <2>1, CommittedIs
      <3>3. SubSeq(Contents, 1, Len(Contents)) = Contents
        BY <1>4, SubSeqFull
      <3> QED BY <1>3, <1>4, <3>1, <3>2, <3>3
    <2>2. CASE a \in Reader
      <3>1. rop'[a].out = <<>>
        BY <1>1, <2>2 DEF IInv, Callers
      <3>2. Committed' = rop'[a].out \o Contents'
        BY <1>1, <2>2, CommittedIs
      <3>3. <<>> \o Contents = Contents
        BY <1>4, ConcatEmptySeq
      <3> QED BY <1>3, <1>4, <3>1, <3>2, <3>3
    <2> QED BY <2>1, <2>2 DEF Caller
  <1>6. \A b \in Caller : pc'[b] = "idle" <=> pc[b] = "idle"
    BY <1>1, <1>2
  <1> QED BY <1>1, <1>5, <1>6, Distinct, CallsKept DEF WrOf, RdOf

LEMMA EventWaitMaps ==
  ASSUME CbufAssumption, IInv, NEW r \in Reader, event_wait(r)
  PROVE  Committed' = Committed /\ WR' = WR /\ RD' = RD
  <1>1. /\ pc[r] = "wait" /\ buf' = buf /\ head' = head /\ tail' = tail
        /\ lock' = lock /\ wop' = wop /\ rop' = rop
        /\ pc' = [pc EXCEPT ![r] = IF signaled THEN "lock" ELSE "blocked"]
    BY DEF event_wait
  <1>2. \A a \in Caller : pc'[a] = "idle" <=> pc[a] = "idle"
    BY <1>1, Distinct DEF IInv, Types
  <1>3. Types
    BY DEF IInv
  <1> QED BY <1>1, <1>2, <1>3, Distinct, CommittedKept, CallsKept DEF WrOf, RdOf


LEMMA WritePassMaps ==
  ASSUME CbufAssumption, IInv, IInv', NEW w \in Writer, WritePass(w)
  PROVE  Committed' = Committed /\ WR' = WR /\ RD' = RD
  <1> DEFINE u == cbuf_space_used
             p == wop[w].pos
  <1>0. PICK n : n = write_len(w)
    OBVIOUS
  <1>1. /\ n \in Nat /\ lock = w /\ tail' = tail /\ u' = u + n
        /\ \A k \in 1 .. u : buf'[Slot(tail, k)] = buf[Slot(tail, k)]
    BY <1>0, WriteEffect
  <1>2. /\ wop' = [wop EXCEPT ![w] = [data |-> wop[w].data, pos |-> p + n,
                                      passes |-> wop[w].passes + 1]]
        /\ lock' = lock /\ pc' = pc /\ rop' = rop /\ pc[w] = "copy"
    <2>1. Types
      BY DEF IInv
    <2> QED BY <1>0, <2>1, RecordFields DEF WritePass
  <1>3. /\ wop'[w].data = wop[w].data /\ wop'[w].pos = p + n
        /\ \A x \in Writer \ {w} : wop'[x] = wop[x]
    <2>1. wop'[w] = [data |-> wop[w].data, pos |-> p + n, passes |-> wop[w].passes + 1]
      BY <1>2 DEF IInv, Types
    <2> QED BY <1>2, <2>1 DEF IInv, Types
  <1>4. /\ p \in Nat /\ u \in Nat /\ p <= u
        /\ Contents \in Seq(Elem) /\ Len(Contents) = u
        /\ \A k \in 1 .. u : Contents[k] = buf[Slot(tail, k)]
    <2>1. p \in Nat
      BY DEF IInv, Types
    <2>2. p <= u
      BY <1>1 DEF IInv, Written
    <2> QED BY <2>1, <2>2, ContentsFacts, SizeFacts DEF IInv
  <1>5. /\ Contents' \in Seq(Elem) /\ Len(Contents') = u + n
        /\ \A k \in 1 .. (u + n) : Contents'[k] = buf'[Slot(tail, k)]
    <2>1. buf' \in [Cells -> Elem] /\ head' \in Cells /\ tail' \in Cells
      BY DEF IInv, Types
    <2>2. /\ CellsOf(buf', head', tail') \in Seq(Elem)
          /\ Len(CellsOf(buf', head', tail')) = (head' - tail') % Size
          /\ \A k \in 1 .. ((head' - tail') % Size) :
               CellsOf(buf', head', tail')[k] = buf'[Slot(tail', k)]
      BY ONLY <2>1, CbufAssumption, CellsOfFacts
    <2> QED BY ONLY <1>1, <2>2, ContentsIs
  <1>6. Committed = SubSeq(Contents, 1, u - p) /\ Committed' = SubSeq(Contents', 1, u - p)
    <2>1. /\ Committed = SubSeq(Contents, 1, u - wop[w].pos)
          /\ Committed' = SubSeq(Contents', 1, u' - wop'[w].pos)
      BY <1>1, <1>2, CommittedIs
    <2>2. u' - wop'[w].pos = u - p
      <3> HIDE DEF u, p
      <3> QED BY <1>1, <1>3, <1>4
    <2> QED BY <2>1, <2>2
  <1>7. Committed' = Committed
    <2> DEFINE m == u - p
    <2> HIDE DEF u, p
    <2>1. m \in Nat /\ m <= u /\ m <= u + n
      BY <1>1, <1>4
    <2>2. PICK c : c = Contents'
      OBVIOUS
    <2>3. c \in Seq(Elem) /\ Len(c) = u + n /\ \A k \in 1 .. (u + n) : c[k] = buf'[Slot(tail, k)]
      BY ONLY <1>5, <2>2
    <2> HIDE DEF m
    <2>4. /\ SubSeq(Contents, 1, m) \in Seq(Elem) /\ Len(SubSeq(Contents, 1, m)) = m
          /\ \A k \in 1 .. m : SubSeq(Contents, 1, m)[k] = Contents[k]
      BY ONLY <1>4, <2>1, PrefixIs
    <2>5. /\ SubSeq(c, 1, m) \in Seq(Elem) /\ Len(SubSeq(c, 1, m)) = m
          /\ \A k \in 1 .. m : SubSeq(c, 1, m)[k] = c[k]
      BY ONLY <2>1, <2>3, PrefixIs
    <2>6. ASSUME NEW k \in 1 .. m PROVE c[k] = Contents[k]
      <3>1. k \in 1 .. u /\ k \in 1 .. (u + n)
        BY ONLY <1>1, <1>4, <2>1, k \in 1 .. m
      <3> QED BY <1>1, <1>4, <2>3, <3>1
    <2>7. SubSeq(c, 1, m) = SubSeq(Contents, 1, m)
      <3>1. \A k \in 1 .. Len(SubSeq(c, 1, m)) : SubSeq(c, 1, m)[k] = SubSeq(Contents, 1, m)[k]
        BY ONLY <2>4, <2>5, <2>6
      <3>2. Len(SubSeq(c, 1, m)) = Len(SubSeq(Contents, 1, m))
        BY ONLY <2>4, <2>5
      <3> QED BY ONLY <2>4, <2>5, <3>1, <3>2, SeqEqual
    <2> QED BY <1>6, <2>2, <2>7 DEF m
  <1>8. \A x \in Writer : WrOf(wop'[x], pc'[x]) = WrOf(wop[x], pc[x])
    <2> TAKE x \in Writer
    <2>1. CASE x = w
      BY <1>2, <1>3, <2>1 DEF WrOf
    <2>2. CASE x # w
      BY <1>2, <1>3, <2>2
    <2> QED BY <2>1, <2>2
  <1> QED BY <1>2, <1>7, <1>8, CallsKept

LEMMA ReadPassMaps ==
  ASSUME CbufAssumption, IInv, IInv', NEW r \in Reader, ReadPass(r)
  PROVE  Committed' = Committed /\ WR' = WR /\ RD' = RD
  <1> DEFINE u == cbuf_space_used
             chunk == Run(buf, tail, read_len(r))
             out == rop[r].out
  <1>0. PICK n : n = read_len(r)
    OBVIOUS
  <1>1. /\ n \in Nat /\ n <= u /\ lock = r /\ buf' = buf /\ u' = u - n
        /\ \A k \in 1 .. n : buf[tail + k - 1] = buf[Slot(tail, k)]
        /\ \A k \in 1 .. (u - n) : Slot(tail', k) = Slot(tail, n + k)
    BY <1>0, ReadEffect
  <1>2. /\ rop'[r].out = out \o chunk /\ chunk \in Seq(Elem) /\ Len(chunk) = n
        /\ rop'[r].want = rop[r].want /\ rop'[r].block = rop[r].block
        /\ \A x \in Reader \ {r} : rop'[x] = rop[x]
        /\ out \in Seq(Elem)
    <2>1. /\ rop'[r].out = out \o chunk /\ chunk \in Seq(Elem) /\ Len(chunk) = n
          /\ rop'[r] = [want |-> rop[r].want, block |-> rop[r].block,
                        out |-> rop'[r].out, passes |-> rop[r].passes + 1]
          /\ \A x \in Reader \ {r} : rop'[x] = rop[x]
          /\ out \in Seq(Elem)
      BY <1>0, ReadChunk DEF Run
    <2>2. rop'[r].want = rop[r].want /\ rop'[r].block = rop[r].block
      BY ONLY <2>1
    <2> QED BY <2>1, <2>2
  <1>3. \A k \in 1 .. n : chunk[k] = buf[Slot(tail, k)]
    BY <1>0, <1>1 DEF Run
  <1>4. lock' = lock /\ pc' = pc /\ wop' = wop /\ pc[r] = "copy"
    BY DEF ReadPass
  <1>5. /\ u \in Nat /\ Contents \in Seq(Elem) /\ Len(Contents) = u
        /\ \A k \in 1 .. u : Contents[k] = buf[Slot(tail, k)]
    BY ContentsFacts, SizeFacts DEF IInv
  <1>6. PICK c : c = Contents'
    OBVIOUS
  <1>7. /\ c \in Seq(Elem) /\ Len(c) = u - n
        /\ \A k \in 1 .. (u - n) : c[k] = buf[Slot(tail, n + k)]
    <2>1. buf' \in [Cells -> Elem] /\ head' \in Cells /\ tail' \in Cells
      BY DEF IInv, Types
    <2>2. /\ CellsOf(buf', head', tail') \in Seq(Elem)
          /\ Len(CellsOf(buf', head', tail')) = (head' - tail') % Size
          /\ \A k \in 1 .. ((head' - tail') % Size) :
               CellsOf(buf', head', tail')[k] = buf'[Slot(tail', k)]
      BY ONLY <2>1, CbufAssumption, CellsOfFacts
    <2>3. c = CellsOf(buf', head', tail') /\ u - n = (head' - tail') % Size
      BY <1>1, <1>6, ContentsIs
    <2> QED BY ONLY <1>1, <2>2, <2>3
  <1> HIDE DEF chunk, u
  <1>8. chunk \o c = Contents
    <2>1. /\ chunk \o c \in Seq(Elem) /\ Len(chunk \o c) = n + (u - n)
          /\ \A k \in 1 .. (n + (u - n)) :
               (chunk \o c)[k] = IF k <= n THEN chunk[k] ELSE c[k - n]
      BY ONLY <1>2, <1>7, ConcatIs, SMTT(40)
    <2>2. n + (u - n) = u
      BY <1>1, <1>5
    <2>3. ASSUME NEW k \in 1 .. u PROVE (chunk \o c)[k] = Contents[k]
      <3>1. CASE k <= n
        <4>1. k \in 1 .. n
          BY ONLY <1>1, <1>5, <3>1, k \in 1 .. u
        <4> QED BY <1>3, <1>5, <2>1, <2>2, <3>1, <4>1
      <3>2. CASE ~(k <= n)
        <4>1. k - n \in 1 .. (u - n) /\ n + (k - n) = k
          BY ONLY <1>1, <1>5, <3>2, k \in 1 .. u
        <4>2. c[k - n] = buf[Slot(tail, k)]
          BY ONLY <1>7, <4>1
        <4> QED BY <1>5, <2>1, <2>2, <3>2, <4>2
      <3> QED BY <3>1, <3>2
    <2>4. Len(chunk \o c) = Len(Contents)
      BY ONLY <1>5, <2>1, <2>2
    <2>5. \A k \in 1 .. Len(chunk \o c) : (chunk \o c)[k] = Contents[k]
      BY ONLY <1>5, <2>3, <2>4
    <2> QED BY ONLY <1>5, <2>1, <2>4, <2>5, SeqEqual
  <1>9. Committed' = Committed
    <2>1. Committed = out \o Contents /\ Committed' = rop'[r].out \o Contents'
      BY <1>1, <1>4, CommittedIs
    <2>2. (out \o chunk) \o c = out \o (chunk \o c)
      <3> HIDE DEF out
      <3> QED BY ONLY <1>2, <1>7, ConcatAssociative, SMTT(40)
    <2> QED BY <1>2, <1>6, <1>8, <2>1, <2>2
  <1>10. \A x \in Reader : RdOf(rop'[x], pc'[x]) = RdOf(rop[x], pc[x])
    <2> TAKE x \in Reader
    <2>1. CASE x = r
      BY <1>2, <1>4, <2>1 DEF RdOf
    <2>2. CASE x # r
      BY <1>2, <1>4, <2>2
    <2> QED BY <2>1, <2>2
  <1> QED BY <1>4, <1>9, <1>10, CallsKept


\* The end of a write is the write of the queue: it took as much as there was
\* room for.
LEMMA EndWriteMaps ==
  ASSUME CbufAssumption, IInv, NEW w \in Writer, EndWrite(w)
  PROVE  LET n == Abstract!Least(Len(WR[w].data), Size - 1 - Len(Committed)) IN
         /\ WR[w].n = -1
         /\ Committed' = Committed \o SubSeq(WR[w].data, 1, n)
         /\ WR' = [WR EXCEPT ![w] = [data |-> <<>>, n |-> n]]
         /\ RD' = RD
  <1> DEFINE u == cbuf_space_used
             p == wop[w].pos
             d == wop[w].data
  <1>1. /\ pc[w] = "copy" /\ lock' = Free /\ buf' = buf /\ head' = head
        /\ tail' = tail /\ rop' = rop /\ w \in Caller /\ ~WriteMore(w)
    BY Distinct DEF EndWrite
  <1>2. lock = w
    BY <1>1 DEF IInv, Callers
  <1>3. /\ wop'[w] = [data |-> <<>>, pos |-> p, passes |-> 0]
        /\ \A x \in Writer \ {w} : wop'[x] = wop[x]
    <2>1. wop' = [wop EXCEPT ![w] = [data |-> <<>>, pos |-> p, passes |-> 0]]
      <3>1. Types
        BY DEF IInv
      <3> QED BY <3>1, RecordFields
    <2> QED BY <2>1 DEF IInv, Types
  <1>4. pc'[w] = "idle" /\ \A a \in Caller \ {w} : pc'[a] = "idle" <=> pc[a] = "idle"
    <2>1. CASE head # tail
      <3>1. pc' = [a \in Caller |->
                     CASE a = w -> "idle"
                       [] a # w /\ pc[a] = "blocked" /\ ~signaled -> "lock"
                       [] OTHER -> pc[a]]
        BY <2>1 DEF EndWrite, event_signal
      <3> QED BY <1>1, <3>1
    <2>2. CASE head = tail
      <3>1. pc' = [pc EXCEPT ![w] = "idle"]
        BY <2>2 DEF EndWrite
      <3> QED BY <1>1, <3>1 DEF IInv, Types
    <2> QED BY <2>1, <2>2
  <1>5. /\ u \in 0 .. (Size - 1) /\ Size \in Nat /\ Contents \in Seq(Elem)
        /\ Len(Contents) = u /\ \A k \in 1 .. u : Contents[k] = buf[Slot(tail, k)]
    BY ContentsFacts, SizeFacts DEF IInv
  <1>6. p \in Nat /\ d \in Seq(Data) /\ Len(d) \in Nat /\ p <= Len(d) /\ p <= u
    <2>1. p \in Nat /\ d \in Seq(Data)
      BY DEF IInv, Types
    <2>2. p <= Len(d) /\ p <= u
      BY <1>1, <1>2 DEF IInv, Callers, Written
    <2> QED BY <2>1, <2>2, LenProperties
  <1>7. \A k \in 1 .. p : buf[Slot(tail, u - p + k)] = d[k]
    BY <1>2 DEF IInv, Written, Slot
  <1>8. p = Len(d) \/ u = Size - 1
    BY <1>1, <1>6, WriteStops DEF IInv
  <1>9. Committed = SubSeq(Contents, 1, u - p) /\ Committed' = Contents
    <2>1. Contents' = Contents
      BY <1>1 DEF Contents, cbuf_space_used
    <2> QED BY <1>1, <1>2, <2>1, CommittedIs
  <1> DEFINE m == u - p
             q == SubSeq(Contents, 1, m)
             e == SubSeq(d, 1, p)
  <1> HIDE DEF u, p, d
  <1>10. m \in Nat /\ m <= u /\ m + p = u
    BY <1>5, <1>6
  <1> HIDE DEF m
  <1>11. /\ q \in Seq(Elem) /\ Len(q) = m
         /\ \A k \in 1 .. m : q[k] = Contents[k]
    BY ONLY <1>5, <1>10, PrefixIs
  <1>12. e \in Seq(Elem) /\ Len(e) = p /\ \A k \in 1 .. p : e[k] = d[k]
    <2>1. d \in Seq(Elem)
      BY <1>6 DEF Elem
    <2> QED BY ONLY <1>6, <2>1, PrefixIs
  <1> HIDE DEF q, e
  <1>13. q \o e = Contents
    <2>1. /\ q \o e \in Seq(Elem) /\ Len(q \o e) = m + p
          /\ \A k \in 1 .. (m + p) : (q \o e)[k] = IF k <= m THEN q[k] ELSE e[k - m]
      BY ONLY <1>11, <1>12, ConcatIs
    <2>2. ASSUME NEW k \in 1 .. u PROVE (q \o e)[k] = Contents[k]
      <3>1. k \in 1 .. (m + p)
        BY <1>10
      <3>2. CASE k <= m
        <4>1. k \in 1 .. m
          BY ONLY <1>5, <1>10, <3>2, k \in 1 .. u
        <4> QED BY ONLY <1>11, <2>1, <3>1, <3>2, <4>1
      <3>3. CASE ~(k <= m)
        <4>1. k - m \in 1 .. p /\ u - p + (k - m) = k
          BY ONLY <1>5, <1>6, <1>10, <3>3, k \in 1 .. u
        <4>2. buf[Slot(tail, u - p + (k - m))] = d[k - m]
          BY ONLY <1>7, <4>1
        <4>3. (q \o e)[k] = d[k - m]
          BY ONLY <1>12, <2>1, <3>1, <3>3, <4>1
        <4> QED BY ONLY <1>5, <4>1, <4>2, <4>3, k \in 1 .. u
      <3> QED BY <3>2, <3>3
    <2>3. Len(q \o e) = Len(Contents)
      BY ONLY <1>5, <1>10, <2>1
    <2>4. \A k \in 1 .. Len(q \o e) : (q \o e)[k] = Contents[k]
      BY ONLY <1>5, <2>2, <2>3
    <2> QED BY ONLY <1>5, <2>1, <2>3, <2>4, SeqEqual
  <1>14. WR[w].data = d /\ WR[w].n = -1
    BY <1>1 DEF WR, WrOf, d
  <1>15. Committed = q /\ Len(Committed) = m
    BY <1>9, <1>11 DEF q, m
  <1>16. Abstract!Least(Len(WR[w].data), Size - 1 - Len(Committed)) = p
    <2>1. \A a \in Int, b \in Int : Abstract!Least(a, b) = IF a < b THEN a ELSE b
      BY DEF Abstract!Least
    <2>2. Abstract!Least(Len(d), Size - 1 - m) =
            IF Len(d) < Size - 1 - m THEN Len(d) ELSE Size - 1 - m
      BY <1>5, <1>6, <1>10, <2>1
    <2>3. (IF Len(d) < Size - 1 - m THEN Len(d) ELSE Size - 1 - m) = p
      BY ONLY <1>5, <1>6, <1>8, <1>10
    <2> QED BY <1>14, <1>15, <2>2, <2>3
  <1>17. Committed' = Committed \o SubSeq(WR[w].data, 1, p)
    BY <1>9, <1>13, <1>14, <1>15 DEF e
  <1>18. WR' = [WR EXCEPT ![w] = [data |-> <<>>, n |-> p]]
    <2>1. WrOf(wop'[w], pc'[w]) = [data |-> <<>>, n |-> p]
      BY <1>3, <1>4 DEF WrOf
    <2>2. \A x \in Writer \ {w} : WrOf(wop'[x], pc'[x]) = WrOf(wop[x], pc[x])
      BY <1>3, <1>4, Distinct DEF WrOf
    <2> QED BY <2>1, <2>2 DEF WR
  <1>19. RD' = RD
    <2>1. \A r \in Reader : pc'[r] = "idle" <=> pc[r] = "idle"
      BY <1>4, Distinct
    <2>2. \A r \in Reader : RdOf(rop'[r], pc'[r]) = RdOf(rop[r], pc[r])
      BY <1>1, <2>1 DEF RdOf
    <2> QED BY <2>2 DEF RD
  <1> QED BY <1>14, <1>16, <1>17, <1>18, <1>19

\* The end of a read is the read of the queue, unless a blocking read has got
\* nothing and goes back to wait.
LEMMA EndReadMaps ==
  ASSUME CbufAssumption, IInv, NEW r \in Reader, EndRead(r)
  PROVE  LET n == Abstract!Least(RD[r].want, Len(Committed)) IN
         \/ Committed' = Committed /\ WR' = WR /\ RD' = RD
         \/ /\ RD[r].busy
            /\ RD[r].block => n > 0
            /\ RD' = [RD EXCEPT ![r] = [want |-> 0, block |-> FALSE, busy |-> FALSE,
                                        got |-> SubSeq(Committed, 1, n)]]
            /\ Committed' = SubSeq(Committed, n + 1, Len(Committed))
            /\ WR' = WR
  <1> DEFINE retry == rop[r].block /\ rop[r].out = <<>>
             u == cbuf_space_used
             out == rop[r].out
             g == Len(out)
             want == rop[r].want
  <1>1. /\ pc[r] = "copy" /\ lock' = Free /\ buf' = buf /\ head' = head
        /\ tail' = tail /\ wop' = wop /\ r \in Caller /\ ~ReadMore(r)
        /\ pc' = [pc EXCEPT ![r] = IF retry THEN "wait" ELSE "idle"]
    BY Distinct DEF EndRead, CloseRead
  <1>2. lock = r
    BY <1>1 DEF IInv, Callers
  <1>3. /\ rop'[r] = [want |-> IF retry THEN want ELSE 0,
                      block |-> retry, out |-> out, passes |-> 0]
        /\ \A x \in Reader \ {r} : rop'[x] = rop[x]
    <2>1. rop' = [rop EXCEPT ![r] = [want |-> IF retry THEN want ELSE 0,
                                     block |-> retry, out |-> out, passes |-> 0]]
      <3>1. Types
        BY DEF IInv
      <3> QED BY <3>1, RecordFields
    <2> QED BY <2>1 DEF IInv, Types
  <1>4. /\ pc'[r] = (IF retry THEN "wait" ELSE "idle")
        /\ \A a \in Caller \ {r} : pc'[a] = pc[a]
    BY <1>1 DEF IInv, Types
  <1>5. /\ u \in Nat /\ Contents \in Seq(Elem) /\ Len(Contents) = u
        /\ (u = 0 <=> head = tail)
    BY ContentsFacts, SizeFacts DEF IInv
  <1>6. /\ out \in Seq(Elem) /\ g \in Nat /\ want \in Nat /\ g <= want /\ want > 0
        /\ rop[r].block \in BOOLEAN
    <2>1. out \in Seq(Elem) /\ want \in Nat /\ rop[r].block \in BOOLEAN
      BY DEF IInv, Types
    <2>2. g <= want /\ want > 0
      BY <1>1 DEF IInv, Callers
    <2> QED BY <2>1, <2>2, LenProperties
  <1>7. Committed = out \o Contents /\ Committed' = Contents
    <2>1. Contents' = Contents
      BY <1>1 DEF Contents, cbuf_space_used
    <2> QED BY <1>1, <1>2, <2>1, CommittedIs
  <1>8. WR' = WR
    <2>1. \A w \in Writer : pc'[w] = pc[w]
      BY <1>4, Distinct
    <2> QED BY <1>1, <2>1 DEF WR
  <1>9. rop'[r].block = retry
    <2> HIDE DEF retry
    <2> QED BY <1>3
  <1>10. CASE retry
    <2>1. Committed' = Committed
      BY <1>5, <1>7, <1>10, ConcatEmptySeq
    <2>2. /\ pc'[r] # "idle" /\ pc[r] # "idle" /\ rop'[r].want = rop[r].want
          /\ rop'[r].block = TRUE /\ rop[r].block = TRUE
      <3>1. rop'[r].want = want /\ pc'[r] = "wait"
        BY <1>3, <1>4, <1>10
      <3>2. rop'[r].block = TRUE
        BY <1>10, <1>9, Zenon
      <3>3. rop[r].block = TRUE
        BY <1>10, <1>6, Zenon
      <3> QED BY <1>1, <3>1, <3>2, <3>3
    <2>3. RdOf(rop'[r], pc'[r]) = RdOf(rop[r], pc[r])
      BY <2>2 DEF RdOf
    <2>4. \A x \in Reader \ {r} : RdOf(rop'[x], pc'[x]) = RdOf(rop[x], pc[x])
      BY <1>3, <1>4, Distinct
    <2>5. RD' = RD
      BY <2>3, <2>4 DEF RD
    <2> QED BY <1>8, <2>1, <2>5
  <1>11. CASE ~retry
    <2>1. g = want \/ u = 0
      <3>1. ~(g < want) \/ tail = head
        BY <1>1 DEF ReadMore
      <3> HIDE DEF g, want, u
      <3> QED BY ONLY <1>5, <1>6, <3>1
    <2>2. /\ SubSeq(out \o Contents, 1, g) = out
          /\ SubSeq(out \o Contents, g + 1, g + u) = Contents
          /\ Len(out \o Contents) = g + u
      <3>1. Len(out) = g
        OBVIOUS
      <3> HIDE DEF g, out, u
      <3> QED BY ONLY <1>5, <1>6, <3>1, SplitConcat, SMTT(40)
    <2>3. Abstract!Least(want, g + u) = g
      <3> HIDE DEF g, want, u
      <3>1. Abstract!Least(want, g + u) = IF want < g + u THEN want ELSE g + u
        BY DEF Abstract!Least
      <3>2. (IF want < g + u THEN want ELSE g + u) = g
        BY ONLY <1>5, <1>6, <2>1
      <3> QED BY <3>1, <3>2
    <2>4. RD[r] = RdOf(rop[r], pc[r])
      BY DEF RD
    <2>5. RD[r].want = want /\ RD[r].block = rop[r].block /\ RD[r].busy = (pc[r] # "idle")
      BY ONLY <2>4 DEF RdOf
    <2>6. RD[r].busy
      BY <1>1, <2>5, Zenon
    <2>7. Abstract!Least(RD[r].want, Len(Committed)) = g
      BY <1>7, <2>2, <2>3, <2>5
    <2>8. RD[r].block => g > 0
      <3>1. RD[r].block => out # <<>>
        BY <1>11, <2>5
      <3>2. out # <<>> => g > 0
        BY <1>6
      <3> QED BY <3>1, <3>2
    <2>9. RdOf(rop'[r], pc'[r]) = [want |-> 0, block |-> FALSE, busy |-> FALSE, got |-> out]
      <3>1. /\ pc'[r] = "idle" /\ rop'[r].want = 0 /\ rop'[r].block = FALSE
            /\ rop'[r].out = out
        <4>1. rop'[r].want = 0 /\ pc'[r] = "idle" /\ rop'[r].out = out
          BY <1>3, <1>4, <1>11
        <4>2. rop'[r].block = FALSE
          BY <1>11, <1>9, Zenon
        <4> QED BY <4>1, <4>2
      <3> QED BY <3>1 DEF RdOf
    <2>10. \A x \in Reader \ {r} : RdOf(rop'[x], pc'[x]) = RdOf(rop[x], pc[x])
      BY <1>3, <1>4, Distinct
    <2>11. RD' = [RD EXCEPT ![r] = [want |-> 0, block |-> FALSE, busy |-> FALSE, got |-> out]]
      <3> HIDE DEF out
      <3> QED BY <2>9, <2>10 DEF RD
    <2>12. /\ SubSeq(Committed, 1, g) = out
           /\ Committed' = SubSeq(Committed, g + 1, Len(Committed))
      BY <1>7, <2>2
    <2> HIDE DEF g, out, want, u
    <2> QED BY <1>8, <2>6, <2>7, <2>8, <2>11, <2>12
  <1> QED BY <1>10, <1>11


LEMMA InitMaps ==
  ASSUME CbufAssumption, Init
  PROVE  Abstract!Init
  <1>1. Committed = <<>>
    <2>1. IInv /\ lock = Free /\ head = tail
      BY InitInv DEF Init
    <2>2. Contents \in Seq(Elem) /\ Len(Contents) = 0
      BY <2>1, ContentsFacts DEF IInv
    <2>3. Contents = <<>>
      BY <2>2
    <2> QED BY <2>1, <2>3, CommittedIs
  <1>2. WR = [w \in Writer |-> [data |-> <<>>, n |-> 0]]
    BY Distinct DEF Init, WR, WrOf
  <1>3. RD = [r \in Reader |->
                [want |-> 0, block |-> FALSE, busy |-> FALSE, got |-> <<>>]]
    BY Distinct DEF Init, RD, RdOf
  <1> QED BY <1>1, <1>2, <1>3 DEF Abstract!Init, WR, RD, WrOf, RdOf

\* Every step of the buffer is a step of the queue or changes nothing of it.
LEMMA StepMaps ==
  ASSUME CbufAssumption, IInv, IInv', [Next]_vars
  PROVE  [Abstract!Next]_(Abstract!vars)
  <1> DEFINE same == Committed' = Committed /\ WR' = WR /\ RD' = RD
  <1>1. same => UNCHANGED Abstract!vars
    BY DEF Abstract!vars, WR, RD, WrOf, RdOf
  <1>2. ASSUME NEW w \in Writer, CallWrite(w)
        PROVE  Abstract!CallWrite(w)
    <2>1. /\ Committed' = Committed /\ RD' = RD
          /\ WR[w].n # -1 /\ WR'[w].n = -1 /\ WR'[w].data \in Seq(Data)
          /\ WR' = [WR EXCEPT ![w] = WR'[w]]
      BY <1>2, CallWriteMaps
    <2> QED BY ONLY <2>1 DEF Abstract!CallWrite, Abstract!Busy, WR, RD, WrOf, RdOf
  <1>3. ASSUME NEW w \in Writer, EndWrite(w)
        PROVE  Abstract!Write(w)
    <2> DEFINE n == Abstract!Least(Len(WR[w].data), Size - 1 - Len(Committed))
    <2>1. /\ WR[w].n = -1
          /\ Committed' = Committed \o SubSeq(WR[w].data, 1, n)
          /\ WR' = [WR EXCEPT ![w] = [data |-> <<>>, n |-> n]]
          /\ RD' = RD
      BY <1>3, EndWriteMaps
    <2> QED BY ONLY <2>1 DEF Abstract!Write, Abstract!Busy, WR, RD, WrOf, RdOf
  <1>4. ASSUME NEW r \in Reader, CallRead(r)
        PROVE  Abstract!CallRead(r)
    <2>1. /\ Committed' = Committed /\ WR' = WR
          /\ ~RD[r].busy /\ RD'[r].busy /\ RD'[r].got = <<>>
          /\ RD' = [RD EXCEPT ![r] = RD'[r]]
      BY <1>4, CallReadMaps
    <2> QED BY ONLY <2>1 DEF Abstract!CallRead, WR, RD, WrOf, RdOf
  <1>5. ASSUME NEW r \in Reader, EndRead(r)
        PROVE  same \/ Abstract!Read(r)
    <2> DEFINE n == Abstract!Least(RD[r].want, Len(Committed))
    <2>1. \/ same
          \/ /\ RD[r].busy
             /\ RD[r].block => n > 0
             /\ RD' = [RD EXCEPT ![r] = [want |-> 0, block |-> FALSE, busy |-> FALSE,
                                         got |-> SubSeq(Committed, 1, n)]]
             /\ Committed' = SubSeq(Committed, n + 1, Len(Committed))
             /\ WR' = WR
      BY <1>5, EndReadMaps
    <2> QED BY ONLY <2>1 DEF Abstract!Read, WR, RD, WrOf, RdOf
  <1>6. ASSUME NEW w \in Writer, Lock(w) \/ WritePass(w)
        PROVE  same
    BY <1>6, Distinct, LockMaps, WritePassMaps
  <1>7. ASSUME NEW r \in Reader, event_wait(r) \/ Lock(r) \/ ReadPass(r)
        PROVE  same
    BY <1>7, Distinct, LockMaps, EventWaitMaps, ReadPassMaps
  <1>8. CASE UNCHANGED vars
    BY <1>8, <1>1 DEF vars, WR, RD, Committed, Contents, cbuf_space_used
  <1> HIDE DEF same
  <1>9. CASE Next
    BY <1>1, <1>2, <1>3, <1>4, <1>5, <1>6, <1>7, <1>9 DEF Next, Abstract!Next
  <1> QED BY <1>8, <1>9

\* cbuf implements the bounded queue of module Fifo, for every size and any
\* number of readers and writers: each cbuf_write and cbuf_read takes effect at
\* once, when it gives the lock back, though it copies in two passes and its
\* reader waits outside the lock.
THEOREM FifoCorrect == Spec => ImplementsFifo
  <1>1. Init => Abstract!Init
    BY InitMaps, CbufAssumption
  <1>2. IInv /\ IInv' /\ [Next]_vars => [Abstract!Next]_(Abstract!vars)
    BY StepMaps, CbufAssumption
  <1> QED BY <1>1, <1>2, Invariance, PTL DEF Spec, ImplementsFifo, Abstract!Spec
=============================================================================
