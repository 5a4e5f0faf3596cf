-------------------------------- MODULE Fifo --------------------------------
(***************************************************************************)
(* What lib/cbuf promises its callers (the comments of cbuf.h): a bounded  *)
(* queue of cells.  A write appends as much of its data as fits, a read    *)
(* takes as much as it wants and is there, each in one indivisible step;   *)
(* a blocking read does not end before it has got something.               *)
(***************************************************************************)
EXTENDS Integers, Sequences

CONSTANTS Writer, Reader, Data, Cap

VARIABLES
  q,    \* the cells written and not yet read, oldest first
  wr,   \* the call of each writer: its data, and how much was accepted
  rd    \* the call of each reader: what it asked for, and what it got

vars == <<q, wr, rd>>

Busy == -1
Least(a, b) == IF a < b THEN a ELSE b

Init ==
  /\ q = <<>>
  /\ wr = [w \in Writer |-> [data |-> <<>>, n |-> 0]]
  /\ rd = [r \in Reader |->
             [want |-> 0, block |-> FALSE, busy |-> FALSE, got |-> <<>>]]

CallWrite(w) ==
  /\ wr[w].n # Busy
  /\ wr'[w].n = Busy /\ wr'[w].data \in Seq(Data)
  /\ wr' = [wr EXCEPT ![w] = wr'[w]]
  /\ UNCHANGED <<q, rd>>

Write(w) ==
  LET n == Least(Len(wr[w].data), Cap - Len(q)) IN
  /\ wr[w].n = Busy
  /\ q' = q \o SubSeq(wr[w].data, 1, n)
  /\ wr' = [wr EXCEPT ![w] = [data |-> <<>>, n |-> n]]
  /\ UNCHANGED rd

CallRead(r) ==
  /\ ~rd[r].busy
  /\ rd'[r].busy /\ rd'[r].got = <<>>
  /\ rd' = [rd EXCEPT ![r] = rd'[r]]
  /\ UNCHANGED <<q, wr>>

Read(r) ==
  LET n == Least(rd[r].want, Len(q)) IN
  /\ rd[r].busy
  /\ rd[r].block => n > 0
  /\ rd' = [rd EXCEPT ![r] = [want |-> 0, block |-> FALSE, busy |-> FALSE,
                              got |-> SubSeq(q, 1, n)]]
  /\ q' = SubSeq(q, n + 1, Len(q))
  /\ UNCHANGED wr

Next ==
  \/ \E w \in Writer : CallWrite(w) \/ Write(w)
  \/ \E r \in Reader : CallRead(r) \/ Read(r)

Spec == Init /\ [][Next]_vars
=============================================================================
