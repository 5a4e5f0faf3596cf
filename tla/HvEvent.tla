------------------------------- MODULE HvEvent -------------------------------
(***************************************************************************)
(* The event channel between cpus (hv/hv_event.c): hv_send_event writes a  *)
(* record into the circular buffer of the destination cpu and raises an    *)
(* inter-processor interrupt there; the handler of that interrupt reads    *)
(* one record and calls the function its id selects (stop, start, power    *)
(* off a vcpu, shut a virtual machine down).                               *)
(*                                                                         *)
(* The buffer is the bounded queue that module Cbuf is shown to implement. *)
(* The interrupt is a software generated interrupt: raising it while it is *)
(* pending has no effect.                                                  *)
(***************************************************************************)
EXTENDS Integers, Sequences, FiniteSets

CONSTANTS
  Cpu,      \* the destination cpus
  Sender,   \* the contexts that call hv_send_event: traps, handlers, console
  Event,    \* what may be sent: an id with its argument
  RecLen,   \* sizeof(struct hv_event), in cells of the buffer
  Cap       \* the cells the buffer takes (its size less one)

Idle == "idle"

ASSUME HvEventAssumption ==
  /\ RecLen \in Nat \ {0}
  /\ Cap \in Nat /\ Cap >= RecLen
  /\ IsFiniteSet(Sender)
  /\ Idle \notin Cpu

VARIABLES
  ring,     \* cpu_event[c].e_buff: the cells written and not yet read
  ipi,      \* MP_IPI_HV_EVENT is pending at the cpu
  hand,     \* hv_event_handler of the cpu: idle, or about to read
  snd,      \* hv_send_event of each sender: idle, or about to raise the IPI
  failed    \* some hv_send_event has returned ERR_NO_MEMORY

vars == <<ring, ipi, hand, snd, failed>>

Cell == Event \X (1 .. RecLen)

\* The cells of a record
Record(e) == [k \in 1 .. RecLen |-> <<e, k>>]

Least(a, b) == IF a < b THEN a ELSE b

Init ==
  /\ ring = [c \in Cpu |-> <<>>]
  /\ ipi  = [c \in Cpu |-> FALSE]
  /\ hand = [c \in Cpu |-> FALSE]
  /\ snd  = [s \in Sender |-> Idle]
  /\ failed = FALSE

\* hv_send_event up to the write.  cbuf_write writes what fits: a record that
\* does not fit leaves its first cells in the buffer, and no interrupt is
\* raised for them.
SendWrite(s, c, e) ==
  LET n == Least(RecLen, Cap - Len(ring[c])) IN
  /\ snd[s] = Idle
  /\ ring' = [ring EXCEPT ![c] = @ \o SubSeq(Record(e), 1, n)]
  /\ IF n = RecLen
     THEN snd' = [snd EXCEPT ![s] = c] /\ UNCHANGED failed
     ELSE failed' = TRUE /\ UNCHANGED snd
  /\ UNCHANGED <<ipi, hand>>

\* arch_mp_send_ipi
SendIpi(s) ==
  /\ snd[s] # Idle
  /\ ipi' = [ipi EXCEPT ![snd[s]] = TRUE]
  /\ snd' = [snd EXCEPT ![s] = Idle]
  /\ UNCHANGED <<ring, hand, failed>>

\* The cpu acknowledges the interrupt, which may then be raised again
TakeIpi(c) ==
  /\ ipi[c] /\ ~hand[c]
  /\ ipi' = [ipi EXCEPT ![c] = FALSE]
  /\ hand' = [hand EXCEPT ![c] = TRUE]
  /\ UNCHANGED <<ring, snd, failed>>

\* HandleEvent that reads a record as if it were one cell shorter
HandleEventShort(c) ==
  LET n == Least(RecLen - 1, Len(ring[c])) IN
  /\ hand[c]
  /\ ring' = [ring EXCEPT ![c] = SubSeq(@, n + 1, Len(@))]
  /\ hand' = [hand EXCEPT ![c] = FALSE]
  /\ UNCHANGED <<ipi, snd, failed>>

\* HandleEvent that reads all there is
HandleEventAll(c) ==
  /\ hand[c]
  /\ ring' = [ring EXCEPT ![c] = <<>>]
  /\ hand' = [hand EXCEPT ![c] = FALSE]
  /\ UNCHANGED <<ipi, snd, failed>>

\* hv_event_handler: one record per interrupt, however many there are
HandleEvent(c) ==
  LET n == Least(RecLen, Len(ring[c])) IN
  /\ hand[c]
  /\ ring' = [ring EXCEPT ![c] = SubSeq(@, n + 1, Len(@))]
  /\ hand' = [hand EXCEPT ![c] = FALSE]
  /\ UNCHANGED <<ipi, snd, failed>>

Next ==
  \/ \E s \in Sender :
       \/ \E c \in Cpu, e \in Event : SendWrite(s, c, e)
       \/ SendIpi(s)
  \/ \E c \in Cpu : TakeIpi(c) \/ HandleEvent(c)

Spec == Init /\ [][Next]_vars

-----------------------------------------------------------------------------
(* Properties.                                                             *)

\* The interrupts cpu c still has to serve: pending, acknowledged, or about
\* to be raised by a sender that has written its record
Due(c) ==
  Cardinality({s \in Sender : snd[s] = c})
    + (IF ipi[c] THEN 1 ELSE 0) + (IF hand[c] THEN 1 ELSE 0)

\* Every interrupt finds a record to read: the message "failed to recv event
\* from buf" of hv_event_handler is never printed, whatever the senders'
\* writes and interrupts are interleaved with.
InterruptHasRecord == \A c \in Cpu : Len(ring[c]) >= RecLen * Due(c)

\* Cell k of a buffer belongs to a record that starts where the handler will
\* start to read
Aligned(s, k) ==
  LET first == k - ((k - 1) % RecLen) IN
  s[k] = <<s[first][1], k - first + 1>>

\* As long as no send has failed every buffer is a sequence of whole records,
\* so that hv_event_handler indexes e_cb with an id somebody sent.
WholeRecords ==
  ~failed => \A c \in Cpu :
    /\ Len(ring[c]) % RecLen = 0
    /\ \A k \in 1 .. Len(ring[c]) : Aligned(ring[c], k)

\* What hv_event.h says of hv_send_event: "send event to dest cpu".  When no
\* interrupt is on its way, every event that was sent has been handled.
Drained == \A c \in Cpu : Due(c) = 0 => Len(ring[c]) < RecLen
=============================================================================
