--------------------------- MODULE HvEventProofs ---------------------------
(***************************************************************************)
(* The event channel for any number of cpus, senders and events, and any   *)
(* size of a record and of the buffer: an interrupt always finds a record, *)
(* and as long as no send failed, the record somebody sent.                *)
(***************************************************************************)
EXTENDS HvEvent, FiniteSetTheorems, SequenceTheorems, TLAPS

\* The values of the variables; a buffer never holds more than its cells.
Types ==
  /\ ring \in [Cpu -> Seq(Cell)] /\ \A c \in Cpu : Len(ring[c]) <= Cap
  /\ ipi \in [Cpu -> BOOLEAN] /\ hand \in [Cpu -> BOOLEAN]
  /\ snd \in [Sender -> Cpu \cup {Idle}]
  /\ failed \in BOOLEAN

\* What the steps preserve together.
IInv == Types /\ InterruptHasRecord /\ WholeRecords

\* The senders that have written a record for c and not raised the interrupt.
Raising(c) == {s \in Sender : snd[s] = c}

Bit(b) == IF b THEN 1 ELSE 0

LEMMA DueFacts ==
  ASSUME HvEventAssumption, NEW c
  PROVE  /\ IsFiniteSet(Raising(c)) /\ Cardinality(Raising(c)) \in Nat
         /\ Due(c) = Cardinality(Raising(c)) + Bit(ipi[c]) + Bit(hand[c])
         /\ Due(c) \in Nat
  <1>1. IsFiniteSet(Raising(c))
    BY FS_Subset DEF HvEventAssumption, Raising
  <1>2. Cardinality(Raising(c)) \in Nat
    BY <1>1, FS_CardinalityType
  <1>3. Due(c) = Cardinality(Raising(c)) + Bit(ipi[c]) + Bit(hand[c])
    BY DEF Due, Raising, Bit
  <1>4. Bit(ipi[c]) \in Nat /\ Bit(hand[c]) \in Nat
    BY DEF Bit
  <1> QED BY <1>1, <1>2, <1>3, <1>4

-----------------------------------------------------------------------------
(* Positions inside a record.                                              *)

\* Position x of record k.
LEMMA ModOf ==
  ASSUME NEW n \in Nat, n > 0, NEW k \in Int, NEW x \in 0 .. (n - 1)
  PROVE  (n * k + x) % n = x
  OBVIOUS

LEMMA ModFacts ==
  ASSUME NEW n \in Nat, n > 0, NEW x \in Int
  PROVE  /\ x \div n \in Int /\ x = n * (x \div n) + (x % n)
         /\ x % n \in 0 .. (n - 1)
         /\ x >= 0 => x % n <= x
  OBVIOUS

\* Positions a whole number of records apart are the same place in a record.
LEMMA ModShift ==
  ASSUME NEW n \in Nat, n > 0, NEW x \in Int
  PROVE  (x + n) % n = x % n /\ (x - n) % n = x % n
  <1> DEFINE k == x \div n
             o == x % n
  <1>1. k \in Int /\ o \in 0 .. (n - 1) /\ x = n * k + o
    BY ModFacts
  <1> HIDE DEF k, o
  <1>2. x + n = n * (k + 1) + o /\ x - n = n * (k - 1) + o
    BY <1>1
  <1>3. (n * (k + 1) + o) % n = o
    <2>1. k + 1 \in Int
      BY <1>1
    <2> QED BY ONLY <2>1, <1>1, ModOf, n \in Nat, n > 0
  <1>4. (n * (k - 1) + o) % n = o
    <2>1. k - 1 \in Int
      BY <1>1
    <2> QED BY ONLY <2>1, <1>1, ModOf, n \in Nat, n > 0
  <1> QED BY <1>2, <1>3, <1>4 DEF o

\* The buffer after hv_event_handler has read a record from it.
LEMMA ReadWhole ==
  ASSUME HvEventAssumption, NEW s \in Seq(Cell), Len(s) >= RecLen,
         Len(s) % RecLen = 0, \A k \in 1 .. Len(s) : Aligned(s, k),
         NEW r \in Seq(Cell), Len(r) = Len(s) - RecLen,
         \A k \in 1 .. Len(r) : r[k] = s[k + RecLen]
  PROVE  Len(r) % RecLen = 0 /\ \A k \in 1 .. Len(r) : Aligned(r, k)
  <1>0. RecLen \in Nat /\ RecLen > 0
    BY DEF HvEventAssumption
  <1>1. Len(s) \in Nat /\ Len(r) \in Nat
    BY LenProperties
  <1>2. Len(r) % RecLen = 0
    <2>1. (Len(s) - RecLen) % RecLen = Len(s) % RecLen
      <3>1. Len(s) \in Int
        BY <1>1
      <3> QED BY ONLY <3>1, <1>0, ModShift
    <2> QED BY <2>1
  <1>3. ASSUME NEW k \in 1 .. Len(r) PROVE Aligned(r, k)
    <2> DEFINE o == (k - 1) % RecLen
               K == k + RecLen
    <2>1. o \in 0 .. (RecLen - 1) /\ (K - 1) % RecLen = o
      <3>1. K - 1 = (k - 1) + RecLen /\ k - 1 \in Int
        BY <1>0, <1>1
      <3>2. ((k - 1) + RecLen) % RecLen = o
        BY <1>0, <3>1, ModShift
      <3>3. o \in 0 .. (RecLen - 1)
        BY <1>0, <3>1, ModFacts
      <3> QED BY <3>1, <3>2, <3>3
    <2>2. o <= k - 1
      <3>1. k - 1 \in Int /\ k - 1 >= 0
        BY <1>1
      <3> QED BY <1>0, <3>1, ModFacts
    <2> HIDE DEF o
    <2>3. k - o \in 1 .. Len(r) /\ K \in 1 .. Len(s) /\ K - o = (k - o) + RecLen
      <3>1. o \in 0 .. (RecLen - 1) /\ o <= k - 1 /\ k \in 1 .. Len(r)
            /\ Len(r) = Len(s) - RecLen
        BY <2>1, <2>2
      <3> QED BY ONLY <3>1, <1>0, <1>1 DEF K
    <2> HIDE DEF K
    <2>4. Aligned(s, K)
      BY <2>3
    <2>5. s[K] = <<s[K - o][1], K - (K - o) + 1>>
      BY <2>1, <2>4 DEF Aligned
    <2>6. K - (K - o) + 1 = k - (k - o) + 1
      BY <2>1, <1>1 DEF K
    <2>7. r[k] = s[K] /\ r[k - o] = s[K - o]
      BY <2>3 DEF K
    <2>8. r[k] = <<r[k - o][1], k - (k - o) + 1>>
      BY <2>5, <2>6, <2>7
    <2> QED BY <2>8 DEF Aligned, o
  <1> QED BY <1>2, <1>3

\* The buffer after hv_send_event has written a record behind what it had.
LEMMA WriteWhole ==
  ASSUME HvEventAssumption, NEW s \in Seq(Cell), NEW e \in Event,
         Len(s) % RecLen = 0, \A k \in 1 .. Len(s) : Aligned(s, k),
         NEW r \in Seq(Cell), Len(r) = Len(s) + RecLen,
         \A k \in 1 .. Len(s) : r[k] = s[k],
         \A k \in 1 .. RecLen : r[Len(s) + k] = <<e, k>>
  PROVE  Len(r) % RecLen = 0 /\ \A k \in 1 .. Len(r) : Aligned(r, k)
  <1>0. RecLen \in Nat /\ RecLen > 0
    BY DEF HvEventAssumption
  <1>1. Len(s) \in Nat /\ Len(r) \in Nat
    BY LenProperties
  <1>2. Len(r) % RecLen = 0
    <2>1. (Len(s) + RecLen) % RecLen = Len(s) % RecLen
      <3>1. Len(s) \in Int
        BY <1>1
      <3> QED BY ONLY <3>1, <1>0, ModShift
    <2> QED BY <2>1
  <1>3. ASSUME NEW k \in 1 .. Len(s) PROVE Aligned(r, k)
    <2> DEFINE o == (k - 1) % RecLen
    <2>1. o \in 0 .. (RecLen - 1) /\ o <= k - 1
      <3>1. k - 1 \in Int /\ k - 1 >= 0
        BY <1>1
      <3> QED BY <1>0, <3>1, ModFacts
    <2> HIDE DEF o
    <2>2. k - o \in 1 .. Len(s)
      BY <1>0, <1>1, <2>1
    <2>3. s[k] = <<s[k - o][1], k - (k - o) + 1>>
      BY DEF Aligned, o
    <2> QED BY <2>2, <2>3 DEF Aligned, o
  <1>4. ASSUME NEW j \in 1 .. RecLen PROVE Aligned(r, Len(s) + j)
    <2>1. (Len(s) + j - 1) % RecLen = j - 1
      <3> DEFINE q == Len(s) \div RecLen
      <3>1. Len(s) = RecLen * q + 0 /\ q \in Int
        BY <1>0, <1>1, ModFacts
      <3> HIDE DEF q
      <3>2. Len(s) + j - 1 = RecLen * q + (j - 1) /\ j - 1 \in 0 .. (RecLen - 1)
        BY <3>1, <1>0, <1>1
      <3>3. (RecLen * q + (j - 1)) % RecLen = j - 1
        BY ONLY <3>1, <3>2, <1>0, ModOf
      <3> QED BY <3>2, <3>3
    <2>2. (Len(s) + j) - (j - 1) = Len(s) + 1 /\ (Len(s) + j) - (Len(s) + 1) + 1 = j
      BY <1>1
    <2>3. r[Len(s) + j] = <<e, j>> /\ r[Len(s) + 1] = <<e, 1>>
      <3>1. 1 \in 1 .. RecLen
        BY <1>0
      <3> QED BY <3>1, <1>1
    <2> QED BY <2>1, <2>2, <2>3 DEF Aligned
  <1>5. ASSUME NEW k \in 1 .. Len(r) PROVE Aligned(r, k)
    <2>1. CASE k \in 1 .. Len(s)
      BY <2>1, <1>3
    <2>2. CASE k \notin 1 .. Len(s)
      <3>1. k - Len(s) \in 1 .. RecLen /\ Len(s) + (k - Len(s)) = k
        BY <2>2, <1>1
      <3> QED BY <3>1, <1>4
    <2> QED BY <2>1, <2>2
  <1> QED BY <1>2, <1>5

-----------------------------------------------------------------------------
(* The steps.                                                              *)

\* What cbuf_write writes and cbuf_read reads at once.
LEMMA LeastFacts ==
  ASSUME NEW a \in Nat, NEW b \in Nat
  PROVE  /\ Least(a, b) \in 0 .. a /\ Least(a, b) <= b
         /\ a <= b => Least(a, b) = a
  BY DEF Least

\* Fewer interrupts need no more records.
LEMMA Enough ==
  ASSUME NEW n \in Nat, NEW a \in Nat, NEW b \in Nat, a <= b
  PROVE  n * a <= n * b /\ n * (a + 1) = n * a + n
  OBVIOUS

\* The interrupts of a cpu that a step leaves alone.
LEMMA DueSame ==
  ASSUME HvEventAssumption, NEW d \in Cpu, Raising(d)' = Raising(d),
         Bit(ipi'[d]) + Bit(hand'[d]) = Bit(ipi[d]) + Bit(hand[d])
  PROVE  Due(d)' = Due(d)
  <1>1. Due(d)' = Cardinality(Raising(d)') + Bit(ipi'[d]) + Bit(hand'[d])
    BY DEF Due, Raising, Bit
  <1>2. \A b : Bit(b) \in Nat
    BY DEF Bit
  <1> QED BY <1>1, <1>2, DueFacts

\* hv_send_event up to the interrupt: a whole record and one interrupt more, or
\* a failure.
LEMMA WriteStep ==
  ASSUME HvEventAssumption, IInv, NEW s \in Sender, NEW c \in Cpu, NEW e \in Event,
         SendWrite(s, c, e)
  PROVE  IInv'
  <1>0. RecLen \in Nat /\ RecLen > 0 /\ Cap \in Nat /\ Idle \notin Cpu
    BY DEF HvEventAssumption
  <1> DEFINE n == Least(RecLen, Cap - Len(ring[c]))
             w == SubSeq(Record(e), 1, n)
  <1>1. /\ snd[s] = Idle /\ ring' = [ring EXCEPT ![c] = @ \o w]
        /\ n = RecLen => snd' = [snd EXCEPT ![s] = c] /\ failed' = failed
        /\ n # RecLen => failed' = TRUE /\ snd' = snd
        /\ ipi' = ipi /\ hand' = hand
    BY DEF SendWrite
  <1>2. /\ ring[c] \in Seq(Cell) /\ Len(ring[c]) \in Nat /\ Len(ring[c]) <= Cap
    BY LenProperties DEF IInv, Types
  <1>3. n \in 0 .. RecLen /\ n <= Cap - Len(ring[c])
    <2>1. Cap - Len(ring[c]) \in Nat
      BY <1>0, <1>2
    <2> QED BY <1>0, <2>1, LeastFacts
  <1> HIDE DEF n
  <1>4. Record(e) \in Seq(Cell) /\ Len(Record(e)) = RecLen
        /\ \A k \in 1 .. RecLen : Record(e)[k] = <<e, k>>
    BY <1>0 DEF Record, Cell
  <1>5. /\ w \in Seq(Cell) /\ Len(w) = n
        /\ \A k \in 1 .. n : w[k] = <<e, k>>
    <2>1. /\ w \in Seq(Cell) /\ Len(w) = IF 1 <= n THEN n - 1 + 1 ELSE 0
          /\ \A k \in 1 .. n - 1 + 1 : w[k] = Record(e)[1 + k - 1]
      BY <1>0, <1>3, <1>4, SubSeqProperties
    <2> HIDE DEF w
    <2>2. Len(w) = n
      BY <2>1, <1>3
    <2>3. ASSUME NEW k \in 1 .. n PROVE w[k] = <<e, k>>
      <3>1. k \in 1 .. n - 1 + 1 /\ 1 + k - 1 = k /\ k \in 1 .. RecLen
        BY <1>0, <1>3
      <3> QED BY <3>1, <2>1, <1>4
    <2> QED BY <2>1, <2>2, <2>3
  <1> HIDE DEF w
  <1> DEFINE r == ring[c] \o w
  <1>6. /\ r \in Seq(Cell) /\ Len(r) = Len(ring[c]) + n
        /\ \A k \in 1 .. Len(ring[c]) : r[k] = ring[c][k]
        /\ \A k \in 1 .. n : r[Len(ring[c]) + k] = <<e, k>>
    <2>1. /\ r \in Seq(Cell) /\ Len(r) = Len(ring[c]) + Len(w)
          /\ \A k \in 1 .. Len(ring[c]) + Len(w) :
               r[k] = IF k <= Len(ring[c]) THEN ring[c][k] ELSE w[k - Len(ring[c])]
      <3>1. w \in Seq(Cell) /\ ring[c] \in Seq(Cell)
        BY <1>2, <1>5
      <3> QED BY ONLY <3>1, ConcatProperties
    <2> HIDE DEF r
    <2>2. ASSUME NEW k \in 1 .. n PROVE r[Len(ring[c]) + k] = <<e, k>>
      <3>1. /\ Len(ring[c]) + k \in 1 .. Len(ring[c]) + Len(w)
            /\ ~(Len(ring[c]) + k <= Len(ring[c])) /\ (Len(ring[c]) + k) - Len(ring[c]) = k
        BY <1>2, <1>3, <1>5
      <3> QED BY <3>1, <2>1, <1>5
    <2>3. ASSUME NEW k \in 1 .. Len(ring[c]) PROVE r[k] = ring[c][k]
      BY <2>1, <1>2, <1>3, <1>5
    <2> QED BY <2>1, <2>2, <2>3, <1>5
  <1>7. ring'[c] = r /\ \A d \in Cpu : d # c => ring'[d] = ring[d]
    BY <1>1 DEF IInv, Types
  <1> HIDE DEF r
  <1>8. Types'
    <2>1. ring' \in [Cpu -> Seq(Cell)]
      BY <1>1, <1>6 DEF IInv, Types, r
    <2>2. Len(r) <= Cap
      BY <1>2, <1>3, <1>6
    <2> QED BY <1>1, <1>7, <2>1, <2>2 DEF IInv, Types
  <1>9. InterruptHasRecord'
    <2> SUFFICES ASSUME NEW d \in Cpu PROVE Len(ring'[d]) >= RecLen * Due(d)'
      BY DEF InterruptHasRecord
    <2>1. Len(ring[d]) >= RecLen * Due(d) /\ Due(d) \in Nat /\ Len(ring[d]) \in Nat
      BY DueFacts, LenProperties DEF IInv, InterruptHasRecord, Types
    <2>2. CASE n # RecLen
      <3>1. Due(d)' = Due(d)
        BY <2>2, <1>1 DEF Due
      <3>2. Len(ring'[d]) >= Len(ring[d])
        BY <1>2, <1>3, <1>6, <1>7, <2>1
      <3> QED BY <3>1, <3>2, <2>1, <1>0, <1>6, <1>7, <1>3
    <2>3. CASE n = RecLen /\ d # c
      <3>1. Raising(d)' = Raising(d)
        BY <2>3, <1>0, <1>1 DEF Raising, IInv, Types
      <3>2. Due(d)' = Due(d)
        BY <3>1, <1>1, DueSame
      <3> QED BY <3>2, <2>1, <2>3, <1>7
    <2>4. CASE n = RecLen /\ d = c
      <3>1. Raising(c)' = Raising(c) \cup {s} /\ s \notin Raising(c)
        BY <2>4, <1>0, <1>1 DEF Raising, IInv, Types
      <3>2. Cardinality(Raising(c)') = Cardinality(Raising(c)) + 1
        BY <3>1, DueFacts, FS_AddElement
      <3>3. Due(c)' = Cardinality(Raising(c)') + Bit(ipi[c]) + Bit(hand[c])
        BY <1>1 DEF Due, Raising, Bit
      <3>4. \A b : Bit(b) \in Nat
        BY DEF Bit
      <3>5. Due(c)' = Due(c) + 1
        BY <3>2, <3>3, <3>4, DueFacts
      <3>6. RecLen * (Due(c) + 1) = RecLen * Due(c) + RecLen
        BY <1>0, <2>1, <2>4, Enough
      <3>7. Len(ring'[c]) = Len(ring[c]) + RecLen
        BY <1>6, <1>7, <2>4
      <3>8. RecLen * Due(c) \in Int
        BY <1>0, <2>1, <2>4
      <3> QED BY <3>5, <3>6, <3>7, <3>8, <2>1, <2>4, <1>0
    <2> QED BY <2>2, <2>3, <2>4
  <1>10. WholeRecords'
    <2> SUFFICES ASSUME ~failed', NEW d \in Cpu
                 PROVE  /\ Len(ring'[d]) % RecLen = 0
                        /\ \A k \in 1 .. Len(ring'[d]) : Aligned(ring'[d], k)
      BY DEF WholeRecords, Aligned
    <2>1. ~failed /\ n = RecLen
      BY <1>1 DEF IInv, Types
    <2>2. Len(ring[d]) % RecLen = 0 /\ \A k \in 1 .. Len(ring[d]) : Aligned(ring[d], k)
      BY <2>1 DEF IInv, WholeRecords
    <2>3. CASE d # c
      BY <2>2, <2>3, <1>7
    <2>4. CASE d = c
      <3>1. Len(r) % RecLen = 0 /\ \A k \in 1 .. Len(r) : Aligned(r, k)
        BY <1>2, <1>6, <2>1, <2>2, <2>4, WriteWhole
      <3> QED BY <3>1, <2>4, <1>7
    <2> QED BY <2>3, <2>4
  <1> QED BY <1>8, <1>9, <1>10 DEF IInv

\* Two interrupts raised at once are one: a record is left over, never missing.
LEMMA IpiStep ==
  ASSUME HvEventAssumption, IInv, NEW s \in Sender, SendIpi(s)
  PROVE  IInv'
  <1>0. RecLen \in Nat /\ RecLen > 0 /\ Idle \notin Cpu
    BY DEF HvEventAssumption
  <1>1. PICK c \in Cpu :
          /\ snd[s] = c /\ ipi' = [ipi EXCEPT ![c] = TRUE]
          /\ snd' = [snd EXCEPT ![s] = Idle]
          /\ UNCHANGED <<ring, hand, failed>>
    BY DEF SendIpi, IInv, Types
  <1>2. Types' /\ WholeRecords'
    BY <1>1 DEF IInv, Types, WholeRecords, Aligned
  <1>3. InterruptHasRecord'
    <2> SUFFICES ASSUME NEW d \in Cpu PROVE Len(ring[d]) >= RecLen * Due(d)'
      BY <1>1 DEF InterruptHasRecord
    <2>1. Len(ring[d]) >= RecLen * Due(d) /\ Due(d) \in Nat /\ Len(ring[d]) \in Nat
      BY DueFacts, LenProperties DEF IInv, InterruptHasRecord, Types
    <2>2. CASE d # c
      <3>1. Raising(d)' = Raising(d)
        BY <2>2, <1>0, <1>1 DEF Raising, IInv, Types
      <3>2. Due(d)' = Due(d)
        BY <2>2, <3>1, <1>1, DueSame DEF IInv, Types
      <3> QED BY <3>2, <2>1
    <2>3. CASE d = c
      <3>1. Raising(c)' = Raising(c) \ {s} /\ s \in Raising(c)
        BY <2>3, <1>0, <1>1 DEF Raising, IInv, Types
      <3>2. Cardinality(Raising(c)') = Cardinality(Raising(c)) - 1
        <4>1. IsFiniteSet(Raising(c))
          BY DueFacts
        <4>2. Cardinality(Raising(c) \ {s}) = Cardinality(Raising(c)) - 1
          BY <3>1, <4>1, FS_RemoveElement
        <4> QED BY <3>1, <4>2
      <3>3. Due(c)' = Cardinality(Raising(c)') + Bit(ipi'[c]) + Bit(hand[c])
        BY <1>1 DEF Due, Raising, Bit
      <3>4. Bit(ipi'[c]) = 1 /\ Bit(ipi[c]) \in Nat /\ Bit(hand[c]) \in Nat
        BY <1>1 DEF Bit, IInv, Types
      <3>5. Due(c)' <= Due(c)
        BY <3>2, <3>3, <3>4, DueFacts
      <3>6. Due(c)' \in Nat
        <4>1. Cardinality(Raising(c)) # 0
          BY <3>1, DueFacts, FS_EmptySet
        <4> QED BY <4>1, <3>2, <3>3, <3>4, DueFacts
      <3>7. RecLen * Due(c)' <= RecLen * Due(c)
        BY <1>0, <2>1, <2>3, <3>5, <3>6, Enough
      <3>8. RecLen * Due(c)' \in Int /\ RecLen * Due(c) \in Int
        BY <1>0, <2>1, <2>3, <3>6
      <3> QED BY <2>1, <2>3, <3>7, <3>8
    <2> QED BY <2>2, <2>3
  <1> QED BY <1>2, <1>3 DEF IInv

\* Taking the interrupt changes where it is counted.
LEMMA TakeStep ==
  ASSUME HvEventAssumption, IInv, NEW c \in Cpu, TakeIpi(c)
  PROVE  IInv'
  <1>1. /\ ipi[c] = TRUE /\ hand[c] = FALSE
        /\ ipi' = [ipi EXCEPT ![c] = FALSE] /\ hand' = [hand EXCEPT ![c] = TRUE]
        /\ UNCHANGED <<ring, snd, failed>>
    BY DEF TakeIpi, IInv, Types
  <1>2. Types' /\ WholeRecords'
    BY <1>1 DEF IInv, Types, WholeRecords, Aligned
  <1>3. ASSUME NEW d \in Cpu PROVE Due(d)' = Due(d)
    <2>1. Raising(d)' = Raising(d)
      BY <1>1 DEF Raising
    <2>2. Bit(ipi'[d]) + Bit(hand'[d]) = Bit(ipi[d]) + Bit(hand[d])
      BY <1>1 DEF Bit, IInv, Types
    <2> QED BY <2>1, <2>2, DueSame
  <1>4. InterruptHasRecord'
    BY <1>1, <1>3 DEF IInv, InterruptHasRecord
  <1> QED BY <1>2, <1>4 DEF IInv

\* The handler reads one record, which is there.
LEMMA HandleStep ==
  ASSUME HvEventAssumption, IInv, NEW c \in Cpu, HandleEvent(c)
  PROVE  IInv'
  <1>0. RecLen \in Nat /\ RecLen > 0
    BY DEF HvEventAssumption
  <1>1. /\ ring[c] \in Seq(Cell) /\ Len(ring[c]) \in Nat /\ Len(ring[c]) <= Cap
        /\ Len(ring[c]) >= RecLen * Due(c) /\ hand[c] = TRUE
    BY LenProperties DEF IInv, Types, InterruptHasRecord, HandleEvent
  <1>2. Due(c) \in Nat /\ Due(c) >= 1
    BY <1>1, DueFacts DEF Bit
  <1>3. Len(ring[c]) >= RecLen
    <2>1. RecLen * 1 <= RecLen * Due(c) /\ RecLen * 1 = RecLen /\ RecLen * Due(c) \in Int
      BY <1>0, <1>2, Enough
    <2> QED BY <1>0, <1>1, <2>1
  <1> DEFINE r == SubSeq(ring[c], RecLen + 1, Len(ring[c]))
  <1>4. /\ ring' = [ring EXCEPT ![c] = r] /\ hand' = [hand EXCEPT ![c] = FALSE]
        /\ UNCHANGED <<ipi, snd, failed>>
    <2>1. Least(RecLen, Len(ring[c])) = RecLen
      BY <1>0, <1>1, <1>3, LeastFacts
    <2> QED BY <2>1 DEF HandleEvent
  <1>5. /\ r \in Seq(Cell) /\ Len(r) = Len(ring[c]) - RecLen
        /\ \A k \in 1 .. Len(r) : r[k] = ring[c][k + RecLen]
    <2>1. /\ r \in Seq(Cell)
          /\ Len(r) = IF RecLen + 1 <= Len(ring[c]) THEN Len(ring[c]) - (RecLen + 1) + 1 ELSE 0
          /\ \A k \in 1 .. Len(ring[c]) - (RecLen + 1) + 1 :
               r[k] = ring[c][(RecLen + 1) + k - 1]
      BY <1>0, <1>1, SubSeqProperties
    <2> HIDE DEF r
    <2>2. Len(r) = Len(ring[c]) - RecLen
      BY <2>1, <1>0, <1>1, <1>3
    <2>3. ASSUME NEW k \in 1 .. Len(r) PROVE r[k] = ring[c][k + RecLen]
      <3>1. /\ k \in 1 .. Len(ring[c]) - (RecLen + 1) + 1 /\ (RecLen + 1) + k - 1 = k + RecLen
        BY <2>2, <1>0, <1>1
      <3> QED BY <3>1, <2>1
    <2> QED BY <2>1, <2>2, <2>3
  <1>6. ring'[c] = r /\ \A d \in Cpu : d # c => ring'[d] = ring[d]
    BY <1>4 DEF IInv, Types
  <1>7. ring' \in [Cpu -> Seq(Cell)]
    BY <1>4, <1>5 DEF IInv, Types
  <1> HIDE DEF r
  <1>8. Types'
    <2>1. Len(r) <= Cap
      <3>1. Cap \in Nat
        BY DEF HvEventAssumption
      <3> QED BY <1>0, <1>1, <1>5, <3>1
    <2> QED BY <1>4, <1>6, <1>7, <2>1 DEF IInv, Types
  <1>9. InterruptHasRecord'
    <2> SUFFICES ASSUME NEW d \in Cpu PROVE Len(ring'[d]) >= RecLen * Due(d)'
      BY DEF InterruptHasRecord
    <2>1. Raising(d)' = Raising(d)
      BY <1>4 DEF Raising
    <2>2. CASE d # c
      <3>1. Due(d)' = Due(d)
        BY <2>1, <2>2, <1>4, DueSame DEF IInv, Types
      <3> QED BY <3>1, <2>2, <1>6 DEF IInv, InterruptHasRecord
    <2>3. CASE d = c
      <3>1. Due(c)' = Cardinality(Raising(c)) + Bit(ipi[c]) + Bit(hand'[c])
        BY <1>4, <2>1, <2>3 DEF Due, Raising, Bit
      <3>2. Bit(hand'[c]) = 0 /\ Bit(hand[c]) = 1 /\ Bit(ipi[c]) \in Nat
        BY <1>1, <1>4 DEF Bit, IInv, Types
      <3>3. Due(c)' \in Nat /\ Due(c) = Due(c)' + 1
        BY <3>1, <3>2, DueFacts
      <3>4. RecLen * (Due(c)' + 1) = RecLen * Due(c)' + RecLen /\ RecLen * Due(c)' \in Int
        BY <1>0, <3>3, Enough
      <3> QED BY <1>0, <1>1, <1>5, <1>6, <2>3, <3>3, <3>4, SMTT(40)
    <2> QED BY <2>2, <2>3
  <1>10. WholeRecords'
    <2> SUFFICES ASSUME ~failed', NEW d \in Cpu
                 PROVE  /\ Len(ring'[d]) % RecLen = 0
                        /\ \A k \in 1 .. Len(ring'[d]) : Aligned(ring'[d], k)
      BY DEF WholeRecords, Aligned
    <2>1. Len(ring[d]) % RecLen = 0 /\ \A k \in 1 .. Len(ring[d]) : Aligned(ring[d], k)
      BY <1>4 DEF IInv, WholeRecords
    <2>2. CASE d # c
      BY <2>1, <2>2, <1>6
    <2>3. CASE d = c
      <3>1. Len(r) % RecLen = 0 /\ \A k \in 1 .. Len(r) : Aligned(r, k)
        BY <1>1, <1>3, <1>5, <2>1, <2>3, ReadWhole
      <3> QED BY <3>1, <2>3, <1>6
    <2> QED BY <2>2, <2>3
  <1> QED BY <1>8, <1>9, <1>10 DEF IInv

-----------------------------------------------------------------------------
(* The theorems.                                                           *)

LEMMA InitInv ==
  ASSUME HvEventAssumption, Init
  PROVE  IInv
  <1>0. RecLen \in Nat /\ RecLen > 0 /\ Cap \in Nat /\ Idle \notin Cpu
    BY DEF HvEventAssumption
  <1>1. \A c \in Cpu : ring[c] = <<>> /\ Len(ring[c]) = 0
    BY DEF Init
  <1>2. Types
    <2>1. ring \in [Cpu -> Seq(Cell)]
      BY EmptySeq DEF Init
    <2>2. ipi \in [Cpu -> BOOLEAN] /\ hand \in [Cpu -> BOOLEAN]
          /\ snd \in [Sender -> Cpu \cup {Idle}] /\ failed \in BOOLEAN
      BY DEF Init
    <2> QED BY <2>1, <2>2, <1>0, <1>1 DEF Types
  <1>3. ASSUME NEW c \in Cpu PROVE Len(ring[c]) >= RecLen * Due(c)
    <2>1. Raising(c) = {}
      BY <1>0 DEF Init, Raising
    <2>2. Cardinality(Raising(c)) = 0
      BY <2>1, FS_EmptySet
    <2>3. Due(c) = 0
      BY <2>2, DueFacts DEF Init, Bit
    <2> QED BY <2>3, <1>0, <1>1
  <1>4. WholeRecords
    <2>1. 0 % RecLen = 0
      BY <1>0
    <2> QED BY <1>0, <1>1, <2>1 DEF WholeRecords
  <1> QED BY <1>2, <1>3, <1>4 DEF IInv, InterruptHasRecord

LEMMA StepInv ==
  ASSUME HvEventAssumption, IInv, [Next]_vars
  PROVE  IInv'
  <1>1. CASE UNCHANGED vars
    <2>1. Types' /\ WholeRecords'
      BY <1>1 DEF vars, IInv, Types, WholeRecords, Aligned
    <2>2. InterruptHasRecord'
      BY <1>1 DEF vars, IInv, InterruptHasRecord, Due
    <2> QED BY <2>1, <2>2 DEF IInv
  <1> QED BY <1>1, WriteStep, IpiStep, TakeStep, HandleStep DEF Next

THEOREM Invariance == Spec => []IInv
  <1>1. Init => IInv
    BY HvEventAssumption, InitInv
  <1>2. IInv /\ [Next]_vars => IInv'
    BY HvEventAssumption, StepInv
  <1> QED BY <1>1, <1>2, PTL DEF Spec

\* hv_event_handler finds a record for every interrupt, however the senders'
\* writes and interrupts are interleaved with it: InterruptHasRecord in every
\* reachable state.
THEOREM RecordCorrect == Spec => []InterruptHasRecord
  BY Invariance, PTL DEF IInv

\* As long as no hv_send_event has failed, what the handler reads is a record
\* somebody sent: WholeRecords in every reachable state.
THEOREM WholeCorrect == Spec => []WholeRecords
  BY Invariance, PTL DEF IInv
=============================================================================
