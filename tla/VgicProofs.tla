------------------------------ MODULE VgicProofs ------------------------------
(***************************************************************************)
(* The virtual interrupt controller for every number of vcpus, interrupts  *)
(* and list registers: type correctness, the shape of the pending lists,   *)
(* where a device interrupt can be, and what the flush loop leaves behind. *)
(***************************************************************************)
EXTENDS Vgic, SequenceTheorems, WellFoundedInduction, TLAPS

-----------------------------------------------------------------------------
(* The least element of a set, and lists with an entry taken out or put in *)

\* A non-empty set of numbers has a least element.
LEMMA LeastLemma ==
  ASSUME NEW K \in SUBSET Nat, K # {}
  PROVE  \E x \in K : \A y \in K : x =< y
  <1>1. PICK x \in K : \A y \in K : ~(<<y, x>> \in OpToRel(<, Nat))
    BY NatLessThanWellFounded, WFMin, Zenon
  <1>2. \A y \in K : x =< y
    <2>1. SUFFICES ASSUME NEW y \in K, y < x PROVE FALSE
      OBVIOUS
    <2>2. <<y, x>> \in OpToRel(<, Nat)
      BY <2>1 DEF OpToRel
    <2> QED BY <1>1, <2>2
  <1> QED BY <1>2

\* Min picks an element of a non-empty set of numbers: the position where
\* the walk in insert_into_pdlist stops, the first free register.
LEMMA MinLemma ==
  ASSUME NEW K \in SUBSET Nat, K # {}
  PROVE  Min(K) \in K
  BY LeastLemma DEF Min

\* What list_delete of the k-th entry leaves.
LEMMA RemoveAtLemma ==
  ASSUME NEW S, NEW s \in Seq(S), NEW k \in 1 .. Len(s)
  PROVE  /\ RemoveAt(s, k) \in Seq(S)
         /\ Len(RemoveAt(s, k)) = Len(s) - 1
         /\ \A j \in 1 .. (Len(s) - 1) :
              RemoveAt(s, k)[j] = IF j < k THEN s[j] ELSE s[j + 1]
  <1> DEFINE a == SubSeq(s, 1, k - 1)
             b == SubSeq(s, k + 1, Len(s))
  <1>0. Len(s) \in Nat /\ \A j \in 1 .. Len(s) : s[j] \in S
    BY LenProperties, ElementOfSeq
  <1>1. /\ a \in Seq(S) /\ Len(a) = k - 1
        /\ \A j \in 1 .. (k - 1) : a[j] = s[j]
    BY <1>0, SubSeqProperties
  <1>2. /\ b \in Seq(S) /\ Len(b) = Len(s) - k
        /\ \A j \in 1 .. (Len(s) - k) : b[j] = s[k + j]
    BY <1>0, SubSeqProperties
  <1>3. /\ a \o b \in Seq(S) /\ Len(a \o b) = Len(a) + Len(b)
        /\ \A j \in 1 .. Len(a) + Len(b) :
             (a \o b)[j] = IF j <= Len(a) THEN a[j] ELSE b[j - Len(a)]
    BY <1>1, <1>2, ConcatProperties
  <1> HIDE DEF a, b
  <1>4. \A j \in 1 .. (Len(s) - 1) :
          (a \o b)[j] = IF j < k THEN s[j] ELSE s[j + 1]
    <2> TAKE j \in 1 .. (Len(s) - 1)
    <2>1. CASE j < k
      BY <2>1, <1>0, <1>1, <1>2, <1>3
    <2>2. CASE ~(j < k)
      <3>1. j - Len(a) \in 1 .. (Len(s) - k) /\ j \in 1 .. Len(a) + Len(b)
        BY <2>2, <1>0, <1>1, <1>2
      <3>2. (a \o b)[j] = b[j - Len(a)]
        BY <2>2, <3>1, <1>0, <1>1, <1>3, SMTT(40)
      <3>3. b[j - Len(a)] = s[k + (j - Len(a))] /\ k + (j - Len(a)) = j + 1
        BY <3>1, <1>0, <1>1, <1>2
      <3> QED BY <2>2, <3>2, <3>3
    <2> QED BY <2>1, <2>2
  <1>5. RemoveAt(s, k) = a \o b
    BY Zenon DEF RemoveAt, a, b
  <1>6. Len(a \o b) = Len(s) - 1
    BY <1>0, <1>1, <1>2, <1>3
  <1> QED
    BY <1>3, <1>4, <1>5, <1>6

\* What list_add_before the k-th entry leaves.
LEMMA InsertAtLemma ==
  ASSUME NEW S, NEW s \in Seq(S), NEW e \in S, NEW k \in 1 .. Len(s)
  PROVE  /\ InsertAt(s, k, e) \in Seq(S)
         /\ Len(InsertAt(s, k, e)) = Len(s) + 1
         /\ \A j \in 1 .. (Len(s) + 1) :
              InsertAt(s, k, e)[j] =
                IF j < k THEN s[j] ELSE IF j = k THEN e ELSE s[j - 1]
  <1> DEFINE a == SubSeq(s, 1, k - 1)
             b == SubSeq(s, k, Len(s))
             c == a \o <<e>>
  <1>0. Len(s) \in Nat /\ \A j \in 1 .. Len(s) : s[j] \in S
    BY LenProperties, ElementOfSeq
  <1>1. /\ a \in Seq(S) /\ Len(a) = k - 1
        /\ \A j \in 1 .. (k - 1) : a[j] = s[j]
    BY <1>0, SubSeqProperties
  <1>2. /\ b \in Seq(S) /\ Len(b) = Len(s) - k + 1
        /\ \A j \in 1 .. (Len(s) - k + 1) : b[j] = s[k + j - 1]
    BY <1>0, SubSeqProperties
  <1>3. <<e>> \in Seq(S) /\ Len(<<e>>) = 1 /\ <<e>>[1] = e
    OBVIOUS
  <1>4. /\ c \in Seq(S) /\ Len(c) = Len(a) + 1
        /\ \A j \in 1 .. (Len(a) + 1) :
             c[j] = IF j <= Len(a) THEN a[j] ELSE <<e>>[j - Len(a)]
    BY <1>1, <1>3, ConcatProperties
  <1> HIDE DEF a, b, c
  <1>5. /\ c \o b \in Seq(S) /\ Len(c \o b) = Len(c) + Len(b)
        /\ \A j \in 1 .. Len(c) + Len(b) :
             (c \o b)[j] = IF j <= Len(c) THEN c[j] ELSE b[j - Len(c)]
    BY <1>2, <1>4, ConcatProperties
  <1>6. Len(c) = k /\ c[k] = e /\ \A j \in 1 .. (k - 1) : c[j] = s[j]
    BY <1>0, <1>1, <1>3, <1>4
  <1>7. \A j \in 1 .. (Len(s) + 1) :
          (c \o b)[j] = IF j < k THEN s[j] ELSE IF j = k THEN e ELSE s[j - 1]
    BY <1>0, <1>2, <1>5, <1>6
  <1>8. InsertAt(s, k, e) = c \o b
    BY Zenon DEF InsertAt, a, b, c
  <1>9. Len(c \o b) = Len(s) + 1
    <2>1. Len(c) = k /\ Len(b) = Len(s) - k + 1
      BY <1>2, <1>6
    <2>2. k + (Len(s) - k + 1) = Len(s) + 1
      BY <1>0
    <2> QED BY <1>5, <2>1, <2>2
  <1> QED
    BY <1>5, <1>7, <1>8, <1>9

-----------------------------------------------------------------------------
(* The invariant                                                           *)

\* What insert_into_pdlist makes of a list: the list itself, or the list with
\* the interrupt put in at one position.
LEMMA PdInsertLemma ==
  ASSUME NEW s \in Seq(Irq), NEW i \in Irq
  PROVE  /\ pd_insert(s, i) \in Seq(Irq)
         /\ \/ pd_insert(s, i) = s
            \/ /\ Len(pd_insert(s, i)) = Len(s) + 1
               /\ \E k \in 1 .. Len(s) + 1 : \A j \in 1 .. Len(s) + 1 :
                    pd_insert(s, i)[j] =
                      IF j < k THEN s[j] ELSE IF j = k THEN i ELSE s[j - 1]
  <1> DEFINE K == SmallerPriority(s, i)
  <1>1. CASE s = <<>>
    <2>1. pd_insert(s, i) = <<i>>
      BY <1>1, Zenon DEF pd_insert
    <2>2. Len(s) = 0 /\ Len(<<i>>) = 1 /\ <<i>>[1] = i /\ <<i>> \in Seq(Irq)
      BY <1>1
    <2> QED BY <2>1, <2>2
  <1>2. CASE s # <<>> /\ K = {}
    BY <1>2, Zenon DEF pd_insert
  <1>3. CASE s # <<>> /\ K # {}
    <2>1. pd_insert(s, i) = InsertAt(s, Min(K), i)
      BY <1>3, Zenon DEF pd_insert
    <2>2. K \in SUBSET Nat /\ K \subseteq 1 .. Len(s)
      BY DEF SmallerPriority
    <2>3. Min(K) \in K
      BY <1>3, <2>2, MinLemma
    <2>4. Min(K) \in 1 .. Len(s)
      BY <2>2, <2>3
    <2> DEFINE m == Min(K)
    <2>5. m \in 1 .. Len(s) /\ m \in 1 .. Len(s) + 1
      BY <2>4, LenProperties
    <2> HIDE DEF K, m
    <2>6. /\ InsertAt(s, m, i) \in Seq(Irq)
          /\ Len(InsertAt(s, m, i)) = Len(s) + 1
          /\ \A j \in 1 .. (Len(s) + 1) :
               InsertAt(s, m, i)[j] =
                 IF j < m THEN s[j] ELSE IF j = m THEN i ELSE s[j - 1]
      BY <2>5, InsertAtLemma
    <2> QED BY <2>1, <2>5, <2>6 DEF m
  <1> QED BY <1>1, <1>2, <1>3

\* vgic_get_lr returns an empty list register or LR_INDEX_INVALID.
LEMMA GetLrLemma ==
  ASSUME NEW v \in Vcpu
  PROVE  vgic_get_lr(v) = LR_INDEX_INVALID \/ vgic_get_lr(v) \in EmptyLr(v)
  <1>1. EmptyLr(v) \in SUBSET Nat
    BY VgicAssumption DEF EmptyLr, Lrs
  <1> QED BY <1>1, MinLemma DEF vgic_get_lr

-----------------------------------------------------------------------------
(* Type correctness.                                                       *)

\* The types of the parts of an interrupt the steps look at.
LEMMA IrqFacts ==
  ASSUME TypeOK, NEW i \in Irq
  PROVE  /\ irq[i].enable \in BOOLEAN /\ irq[i].pdq \in BOOLEAN
         /\ irq[i].priority \in {0, VIRQ_DEFAULT_PRI}
         /\ irq[i].lr \in Lrs \cup {LR_INDEX_INVALID}
         /\ irq[i].vcpu \in Vcpu /\ irq[i].migrate \in BOOLEAN
         /\ irq[i].iroute \in Route
  BY DEF TypeOK, IrqType

\* Replacing the record of one interrupt keeps the type of the table.
LEMMA IrqUpdate ==
  ASSUME NEW f \in [Irq -> IrqType], NEW i \in Irq, NEW rec \in IrqType
  PROVE  [f EXCEPT ![i] = rec] \in [Irq -> IrqType]
  OBVIOUS

\* Writing the field pdq of an interrupt keeps the type of the table.
LEMMA SetPdq ==
  ASSUME NEW f \in [Irq -> IrqType], NEW i \in Irq,
         NEW b \in BOOLEAN
  PROVE  [f EXCEPT ![i].pdq = b] \in [Irq -> IrqType]
  <1>1. [f[i] EXCEPT !.pdq = b] \in IrqType
    BY DEF IrqType
  <1>2. [f EXCEPT ![i].pdq = b] = [f EXCEPT ![i] = [f[i] EXCEPT !.pdq = b]]
    OBVIOUS
  <1> QED BY <1>1, <1>2, IrqUpdate

\* Writing the field enable of an interrupt keeps the type of the table.
LEMMA SetEnable ==
  ASSUME NEW f \in [Irq -> IrqType], NEW i \in Irq,
         NEW b \in BOOLEAN
  PROVE  [f EXCEPT ![i].enable = b] \in [Irq -> IrqType]
  <1>1. [f[i] EXCEPT !.enable = b] \in IrqType
    BY DEF IrqType
  <1>2. [f EXCEPT ![i].enable = b] = [f EXCEPT ![i] = [f[i] EXCEPT !.enable = b]]
    OBVIOUS
  <1> QED BY <1>1, <1>2, IrqUpdate

\* Writing the field migrate of an interrupt keeps the type of the table.
LEMMA SetMigrate ==
  ASSUME NEW f \in [Irq -> IrqType], NEW i \in Irq,
         NEW b \in BOOLEAN
  PROVE  [f EXCEPT ![i].migrate = b] \in [Irq -> IrqType]
  <1>1. [f[i] EXCEPT !.migrate = b] \in IrqType
    BY DEF IrqType
  <1>2. [f EXCEPT ![i].migrate = b] = [f EXCEPT ![i] = [f[i] EXCEPT !.migrate = b]]
    OBVIOUS
  <1> QED BY <1>1, <1>2, IrqUpdate

\* Writing the field priority of an interrupt keeps the type of the table.
LEMMA SetPriority ==
  ASSUME NEW f \in [Irq -> IrqType], NEW i \in Irq,
         NEW p \in {0, VIRQ_DEFAULT_PRI}
  PROVE  [f EXCEPT ![i].priority = p] \in [Irq -> IrqType]
  <1>1. [f[i] EXCEPT !.priority = p] \in IrqType
    BY DEF IrqType
  <1>2. [f EXCEPT ![i].priority = p] = [f EXCEPT ![i] = [f[i] EXCEPT !.priority = p]]
    OBVIOUS
  <1> QED BY <1>1, <1>2, IrqUpdate

\* Writing the field vcpu of an interrupt keeps the type of the table.
LEMMA SetVcpu ==
  ASSUME NEW f \in [Irq -> IrqType], NEW i \in Irq,
         NEW w \in Vcpu
  PROVE  [f EXCEPT ![i].vcpu = w] \in [Irq -> IrqType]
  <1>1. [f[i] EXCEPT !.vcpu = w] \in IrqType
    BY DEF IrqType
  <1>2. [f EXCEPT ![i].vcpu = w] = [f EXCEPT ![i] = [f[i] EXCEPT !.vcpu = w]]
    OBVIOUS
  <1> QED BY <1>1, <1>2, IrqUpdate

\* Writing the field iroute of an interrupt keeps the type of the table.
LEMMA SetIroute ==
  ASSUME NEW f \in [Irq -> IrqType], NEW i \in Irq,
         NEW r \in Route
  PROVE  [f EXCEPT ![i].iroute = r] \in [Irq -> IrqType]
  <1>1. [f[i] EXCEPT !.iroute = r] \in IrqType
    BY DEF IrqType
  <1>2. [f EXCEPT ![i].iroute = r] = [f EXCEPT ![i] = [f[i] EXCEPT !.iroute = r]]
    OBVIOUS
  <1> QED BY <1>1, <1>2, IrqUpdate

\* Writing the field lr of an interrupt keeps the type of the table.
LEMMA SetLr ==
  ASSUME NEW f \in [Irq -> IrqType], NEW i \in Irq,
         NEW n \in Lrs \cup {LR_INDEX_INVALID}
  PROVE  [f EXCEPT ![i].lr = n] \in [Irq -> IrqType]
  <1>1. [f[i] EXCEPT !.lr = n] \in IrqType
    BY DEF IrqType
  <1>2. [f EXCEPT ![i].lr = n] = [f EXCEPT ![i] = [f[i] EXCEPT !.lr = n]]
    OBVIOUS
  <1> QED BY <1>1, <1>2, IrqUpdate

\* The same for pdq and enable (hv_virq_cpending).
LEMMA SetPdqEnable ==
  ASSUME NEW f \in [Irq -> IrqType], NEW i \in Irq,
         NEW b \in BOOLEAN, NEW c \in BOOLEAN
  PROVE  [f EXCEPT ![i].pdq = b, ![i].enable = c] \in [Irq -> IrqType]
  <1> DEFINE g == [f EXCEPT ![i].pdq = b]
  <1>1. g \in [Irq -> IrqType]
    BY SetPdq
  <1>2. [g EXCEPT ![i].enable = c] \in [Irq -> IrqType]
    <2> HIDE DEF g
    <2> QED BY <1>1, SetEnable
  <1> QED BY <1>2

\* The same for vcpu and migrate (a migration that waits).
LEMMA SetVcpuMigrate ==
  ASSUME NEW f \in [Irq -> IrqType], NEW i \in Irq,
         NEW w \in Vcpu, NEW b \in BOOLEAN
  PROVE  [f EXCEPT ![i].vcpu = w, ![i].migrate = b] \in [Irq -> IrqType]
  <1> DEFINE g == [f EXCEPT ![i].vcpu = w]
  <1>1. g \in [Irq -> IrqType]
    BY SetVcpu
  <1>2. [g EXCEPT ![i].migrate = b] \in [Irq -> IrqType]
    <2> HIDE DEF g
    <2> QED BY <1>1, SetMigrate
  <1> QED BY <1>2

\* The same for vcpu and pdq (a migration off a pending list).
LEMMA SetVcpuPdq ==
  ASSUME NEW f \in [Irq -> IrqType], NEW i \in Irq,
         NEW w \in Vcpu, NEW b \in BOOLEAN
  PROVE  [f EXCEPT ![i].vcpu = w, ![i].pdq = b] \in [Irq -> IrqType]
  <1> DEFINE g == [f EXCEPT ![i].vcpu = w]
  <1>1. g \in [Irq -> IrqType]
    BY SetVcpu
  <1>2. [g EXCEPT ![i].pdq = b] \in [Irq -> IrqType]
    <2> HIDE DEF g
    <2> QED BY <1>1, SetPdq
  <1> QED BY <1>2

\* The same for lr and pdq (an entry that gets a list register).
LEMMA SetLrPdq ==
  ASSUME NEW f \in [Irq -> IrqType], NEW i \in Irq,
         NEW n \in Lrs \cup {LR_INDEX_INVALID}, NEW b \in BOOLEAN
  PROVE  [f EXCEPT ![i].lr = n, ![i].pdq = b] \in [Irq -> IrqType]
  <1> DEFINE g == [f EXCEPT ![i].lr = n]
  <1>1. g \in [Irq -> IrqType]
    BY SetLr
  <1>2. [g EXCEPT ![i].pdq = b] \in [Irq -> IrqType]
    <2> HIDE DEF g
    <2> QED BY <1>1, SetPdq
  <1> QED BY <1>2

\* Writing one list register keeps the type of the others.
LEMMA RegUpdate ==
  ASSUME NEW f \in [Vcpu -> [Lrs -> LrType]], NEW v \in Vcpu, NEW n \in Lrs,
         NEW s \in LrState
  PROVE  [f EXCEPT ![v][n].state = s] \in [Vcpu -> [Lrs -> LrType]]
  <1>1. [f[v][n] EXCEPT !.state = s] \in LrType
    BY DEF LrType
  <1>2. [f EXCEPT ![v][n].state = s] =
          [f EXCEPT ![v] = [f[v] EXCEPT ![n] = [f[v][n] EXCEPT !.state = s]]]
    OBVIOUS
  <1> QED BY <1>1, <1>2

\* list_delete keeps the type of the pending lists.
LEMMA UnlinkType ==
  ASSUME TypeOK, NEW i \in Irq, UnlinkPd(i)
  PROVE  pd' \in [Vcpu -> Seq(Irq)]
  <1>1. CASE UNCHANGED pd
    BY <1>1 DEF TypeOK
  <1>2. ASSUME NEW v \in Vcpu, NEW k \in 1 .. Len(pd[v]),
               pd' = [pd EXCEPT ![v] = RemoveAt(@, k)]
        PROVE  pd' \in [Vcpu -> Seq(Irq)]
    BY <1>2, RemoveAtLemma DEF TypeOK
  <1> QED BY <1>1, <1>2 DEF UnlinkPd

\* Setting the pointers of the flush loop keeps the type of the operations.
LEMMA LoopType ==
  ASSUME TypeOK, NEW v \in Vcpu, NEW i \in Pointer, LoopAt(v, i)
  PROVE  op' \in [Vcpu -> OpType]
  <1>1. PICK j \in Pointer : op' = [op EXCEPT ![v] =
                                      [NoOp(v) EXCEPT !.irq = i, !.nxt = j]]
    BY DEF LoopAt
  <1>2. [NoOp(v) EXCEPT !.irq = i, !.nxt = j] \in OpType
    BY DEF NoOp, OpType
  <1> QED BY <1>1, <1>2 DEF TypeOK

\* move_to_lr_lst keeps the type of both lists and of the operations.
LEMMA MoveType ==
  ASSUME TypeOK, NEW v \in Vcpu, Flushing(v), move_to_lr_lst(v)
  PROVE  /\ pd' \in [Vcpu -> Seq(Irq)]
         /\ lrl' \in [Vcpu -> SUBSET Irq]
         /\ op' \in [Vcpu -> OpType]
  <1>1. FlushIrq(v) \in Irq /\ op[v].nxt \in Pointer
    BY DEF Flushing, FlushIrq, TypeOK, OpType
  <1>2. pd' \in [Vcpu -> Seq(Irq)]
    BY <1>1, UnlinkType DEF move_to_lr_lst
  <1>3. lrl' \in [Vcpu -> SUBSET Irq]
    BY <1>1 DEF move_to_lr_lst, TypeOK
  <1>4. op' \in [Vcpu -> OpType]
    BY <1>1, LoopType DEF move_to_lr_lst
  <1> QED BY <1>2, <1>3, <1>4

\* gic_set_icactiver keeps the type of the distributor.
LEMMA IcactiverType ==
  ASSUME TypeOK, NEW S, gic_set_icactiver(S)
  PROVE  gic' \in [Spi -> GicType]
  BY DEF TypeOK, gic_set_icactiver, GicType

\* The initial state is well typed.
LEMMA InitType == Init => TypeOK
  <1> SUFFICES ASSUME Init PROVE TypeOK
    OBVIOUS
  <1>1. \A v \in Vcpu : NoOp(v) \in OpType
    BY DEF NoOp, OpType, Pointer
  <1>2. op \in [Vcpu -> OpType]
    BY <1>1 DEF Init
  <1>3. irq \in [Irq -> IrqType]
    BY VgicAssumption DEF Init, init_virq, IrqType, Route, Irq, Priv
  <1>4. reg \in [Vcpu -> [Lrs -> LrType]]
    BY DEF Init, ZeroLr, LrType, LrState
  <1>5. gic \in [Spi -> GicType]
    BY VgicAssumption DEF Init, GicType
  <1>6. /\ pd \in [Vcpu -> Seq(Irq)] /\ lrl \in [Vcpu -> SUBSET Irq]
        /\ uie \in [Vcpu -> BOOLEAN] /\ up \in [Vcpu -> BOOLEAN]
    BY DEF Init
  <1>7. /\ pc \in [Vcpu -> PcState] /\ raced \in BOOLEAN
        /\ \A v \in Vcpu : pc[v] = "guest"
    BY DEF Init, PcState
  <1> QED BY <1>2, <1>3, <1>4, <1>5, <1>6, <1>7 DEF TypeOK

\* Every action keeps the state well typed.
LEMMA NextType == TypeOK /\ [Next]_vars => TypeOK'
  <1> SUFFICES ASSUME TypeOK, [Next]_vars PROVE TypeOK'
    OBVIOUS
  <1>0. CASE UNCHANGED vars
    BY <1>0 DEF TypeOK, vars
  <1> SUFFICES ASSUME NEW v \in Vcpu,
        \/ GuestExit(v) \/ HandleExit(v) \/ hv_vcpu_inject_virq(v)
        \/ insert_into_pdlist(v) \/ InsertLink(v) \/ ClearUnlink(v)
        \/ hv_poweroff_current(v)
        \/ hv_virq_to_lrs(v) \/ FlushNoLr(v) \/ FlushToLr(v)
        \/ FlushReuse(v) \/ FlushEnd(v)
        \/ \E n \in Lrs : GuestAck(v, n) \/ GuestEoi(v, n)
      PROVE TypeOK'
    BY <1>0 DEF Next
  \* an operation on an interrupt is well typed
  <1>o. ASSUME NEW i \in Irq, NEW to \in Vcpu, NEW d \in BOOLEAN,
               \/ op' = [op EXCEPT ![v] = [irq |-> i, to |-> to, dea |-> d,
                                          nxt |-> NoIrq]]
               \/ op' = [op EXCEPT ![v] = [NoOp(v) EXCEPT !.irq = i]]
        PROVE  op' \in [Vcpu -> OpType] /\ op'[v].irq = i
               /\ \A w \in Vcpu \ {v} : op'[w] = op[w]
    <2>1. op \in [Vcpu -> OpType]
      BY DEF TypeOK
    <2>2. /\ [irq |-> i, to |-> to, dea |-> d, nxt |-> NoIrq] \in OpType
          /\ [NoOp(v) EXCEPT !.irq = i] \in OpType
          /\ [NoOp(v) EXCEPT !.irq = i].irq = i
      BY DEF OpType, NoOp, Pointer
    <2>3. \E r \in OpType : r.irq = i /\ op' = [op EXCEPT ![v] = r]
      BY <1>o, <2>2
    <2> QED BY <2>1, <2>3
  <1>n. NoOp(v) \in OpType
    BY DEF NoOp, OpType, Pointer
  <1>1. CASE GuestExit(v)
    <2>1. irq' \in [Irq -> IrqType]
      <3>1. 0 \in Lrs
        BY VgicAssumption DEF Lrs
      <3>2. ASSUME NEW i \in Irq
            PROVE  /\ irq[i] \in IrqType
                   /\ [irq[i] EXCEPT !.lr = 0, !.migrate = FALSE] \in IrqType
        <4>1. irq[i] \in IrqType
          BY DEF TypeOK
        <4>2. ASSUME NEW r \in IrqType
              PROVE  [r EXCEPT !.lr = 0, !.migrate = FALSE] \in IrqType
          BY <3>1 DEF IrqType
        <4> QED BY <4>1, <4>2
      <3> QED BY <1>1, <3>2 DEF GuestExit
    <2>2. gic' \in [Spi -> GicType]
      <3>1. \A i \in Spi : gic[i] \in GicType
                /\ [gic[i] EXCEPT !.aff = irq[i].vcpu] \in GicType
        BY IrqFacts DEF TypeOK, GicType, Irq
      <3> QED BY <1>1, <3>1 DEF GuestExit
    <2>3. lrl' \in [Vcpu -> SUBSET Irq] /\ uie' \in [Vcpu -> BOOLEAN]
      BY <1>1 DEF GuestExit, TypeOK
    <2> QED BY <1>1, <2>1, <2>2, <2>3 DEF GuestExit, TypeOK, PcState
  <1>2. CASE OtherExit(v)
    BY <1>2 DEF OtherExit, TypeOK, PcState
  \* the injection of an interrupt begins
  <1>b. ASSUME NEW i \in Irq, NEW to \in Vcpu, NEW d \in BOOLEAN,
               BeginInject(v, i, to, d)
        PROVE  /\ op' \in [Vcpu -> OpType] /\ pc' \in [Vcpu -> PcState]
               /\ \A w \in Vcpu :
                    pc'[w] \in {"inject", "insert", "link", "clear"}
                      => op'[w].irq \in Irq
    BY <1>b, <1>o DEF BeginInject, TypeOK, PcState
  <1>3. ASSUME NEW i \in Spi, DeviceIrq(v, i) PROVE TypeOK'
    <2>1. gic' \in [Spi -> GicType]
      BY <1>3, ZenonT(40) DEF DeviceIrq, TypeOK, GicType
    <2>2. i \in Irq /\ irq[i].vcpu \in Vcpu
      BY IrqFacts DEF Irq
    <2> QED BY <1>3, <1>b, <2>1, <2>2 DEF DeviceIrq, TypeOK
  <1>4. ASSUME NEW i \in Priv, GuestSgi(v, i) PROVE TypeOK'
    <2>1. i \in Irq /\ Owner[i] \in Vcpu
      BY VgicAssumption DEF Irq
    <2> QED BY <1>4, <1>b, <2>1 DEF GuestSgi, TypeOK
  <1>23. ASSUME NEW i \in Priv, PrivateIrq(v, i) PROVE TypeOK'
    <2>1. i \in Irq
      BY DEF Irq
    <2> QED BY <1>23, <1>b, <2>1 DEF PrivateIrq, TypeOK
  <1>5. ASSUME NEW i \in Irq, GuestEnable(v, i) PROVE TypeOK'
    <2>1. irq' \in [Irq -> IrqType]
      BY <1>5, SetEnable DEF GuestEnable, TypeOK
    <2>2. gic' \in [Spi -> GicType]
      BY <1>5, ZenonT(40) DEF GuestEnable, TypeOK, GicType
    <2> QED BY <1>5, <2>1, <2>2 DEF GuestEnable, TypeOK, PcState
  <1>6. ASSUME NEW i \in Irq, NEW e \in BOOLEAN, hv_virq_cpending(v, i, e)
        PROVE  /\ irq' \in [Irq -> IrqType] /\ op' \in [Vcpu -> OpType]
               /\ pc' \in [Vcpu -> PcState] /\ raced' \in BOOLEAN
               /\ \A w \in Vcpu :
                    pc'[w] \in {"inject", "insert", "link", "clear"}
                      => op'[w].irq \in Irq
    <2>1. irq' \in [Irq -> IrqType]
      BY <1>6, SetPdqEnable DEF hv_virq_cpending, TypeOK
    <2>2. op' \in [Vcpu -> OpType] /\ op'[v].irq = i
          /\ \A w \in Vcpu \ {v} : op'[w] = op[w]
      BY <1>6, <1>o DEF hv_virq_cpending
    <2>3. raced' \in BOOLEAN
      BY <1>6 DEF hv_virq_cpending, UnlockedAccess, TypeOK
    <2> QED BY <1>6, <2>1, <2>2, <2>3 DEF hv_virq_cpending, TypeOK, PcState
  <1>7. ASSUME NEW i \in Irq, GuestDisable(v, i) PROVE TypeOK'
    BY <1>7, <1>6 DEF GuestDisable, TypeOK
  <1>8. ASSUME NEW i \in Irq, GuestClearPending(v, i) PROVE TypeOK'
    BY <1>8, <1>6 DEF GuestClearPending, TypeOK
  <1>9. ASSUME NEW i \in Irq, GuestSetPriority(v, i) PROVE TypeOK'
    <2>1. irq' \in [Irq -> IrqType]
      BY <1>9, SetPriority DEF GuestSetPriority, TypeOK
    <2> QED BY <1>9, <2>1 DEF GuestSetPriority, TypeOK, PcState
  <1>10. ASSUME NEW i \in Spi, NEW r \in Route,
                \/ MigrateRefused(v, i, r) \/ MigrateNow(v, i, r)
                \/ MigrateLater(v, i, r)   \/ MigrateQueued(v, i, r)
                \/ MigrateNothing(v, i, r)
         PROVE TypeOK'
    <2>1. RouteTarget(r) \in Vcpu /\ i \in Irq
      BY VgicAssumption DEF RouteTarget, Route, Irq
    <2>2. CASE MigrateRefused(v, i, r)
      <3>1. irq' \in [Irq -> IrqType]
        BY <2>1, <2>2, SetIroute DEF MigrateRefused, TypeOK
      <3> QED BY <2>2, <3>1 DEF MigrateRefused, TypeOK, PcState
    <2>3. CASE MigrateNow(v, i, r)
      <3>1. irq' \in [Irq -> IrqType]
        BY <2>1, <2>3, SetVcpu DEF MigrateNow, TypeOK
      <3>2. gic' \in [Spi -> GicType]
        BY <2>1, <2>3, ZenonT(40) DEF MigrateNow, TypeOK, GicType
      <3> QED BY <2>3, <3>1, <3>2 DEF MigrateNow, TypeOK, PcState
    <2>4. CASE MigrateLater(v, i, r)
      <3>1. irq' \in [Irq -> IrqType]
        BY <2>1, <2>4, SetVcpuMigrate DEF MigrateLater, TypeOK
      <3> QED BY <2>4, <3>1 DEF MigrateLater, TypeOK, PcState
    <2>5. CASE MigrateQueued(v, i, r)
      <3>1. irq' \in [Irq -> IrqType]
        BY <2>1, <2>5, SetVcpuPdq DEF MigrateQueued, TypeOK
      <3>2. gic' \in [Spi -> GicType]
        BY <2>1, <2>5, ZenonT(40) DEF MigrateQueued, TypeOK, GicType
      <3>3. /\ op' \in [Vcpu -> OpType] /\ pc' \in [Vcpu -> PcState]
            /\ \A w \in Vcpu :
                 pc'[w] \in {"inject", "insert", "link", "clear"}
                   => op'[w].irq \in Irq
        BY <2>1, <2>5, <1>b DEF MigrateQueued
      <3>4. pd' \in [Vcpu -> Seq(Irq)]
        BY <2>1, <2>5, UnlinkType DEF MigrateQueued
      <3>5. raced' \in BOOLEAN
        BY <2>5 DEF MigrateQueued, UnlockedAccess, TypeOK
      <3> QED BY <2>5, <3>1, <3>2, <3>3, <3>4, <3>5 DEF MigrateQueued, TypeOK
    <2>6. CASE MigrateNothing(v, i, r)
      BY <2>6 DEF MigrateNothing, TypeOK, PcState
    <2> QED BY <1>10, <2>2, <2>3, <2>4, <2>5, <2>6
  <1>11. CASE hv_vcpu_irq_cleanup(v)
    <2>1. gic' \in [Spi -> GicType]
      BY <1>11, IcactiverType DEF hv_vcpu_irq_cleanup
    <2>2. reg' \in [Vcpu -> [Lrs -> LrType]]
      BY <1>11 DEF hv_vcpu_irq_cleanup, TypeOK, LrType, ZeroLr, LrState
    <2>3. pd' \in [Vcpu -> Seq(Irq)] /\ lrl' \in [Vcpu -> SUBSET Irq]
      BY <1>11 DEF hv_vcpu_irq_cleanup, TypeOK
    <2>4. raced' \in BOOLEAN
      BY <1>11 DEF hv_vcpu_irq_cleanup, OpenSection, TypeOK
    <2> QED BY <1>11, <2>1, <2>2, <2>3, <2>4
            DEF hv_vcpu_irq_cleanup, TypeOK, PcState
  <1>12. CASE HandleExit(v)
    <2>1. Spi \subseteq Irq /\ Priv \subseteq Irq
      BY DEF Irq
    <2> QED
      BY <1>12, <2>1, <1>2, <1>3, <1>4, <1>5, <1>7, <1>8, <1>9, <1>10, <1>11,
         <1>23, VgicAssumption DEF HandleExit, Priv
  <1>13. CASE hv_vcpu_inject_virq(v)
    <2>1. gic' \in [Spi -> GicType]
      BY <1>13, IcactiverType DEF hv_vcpu_inject_virq, TypeOK
    <2>2. op' \in [Vcpu -> OpType]
      BY <1>13, <1>n DEF hv_vcpu_inject_virq, EndInject, TypeOK
    <2> QED BY <1>13, <2>1, <2>2
            DEF hv_vcpu_inject_virq, EndInject, TypeOK, PcState
  <1>14. CASE insert_into_pdlist(v)
    <2>1. op[v].irq \in Irq /\ op[v].to \in Vcpu
      BY <1>14 DEF insert_into_pdlist, TypeOK, OpType
    <2>2. CASE EndInject(v) /\ UNCHANGED <<irq, raced>>
      BY <1>14, <2>2, <1>n DEF insert_into_pdlist, EndInject, TypeOK, PcState
    <2>3. CASE /\ pc' = [pc EXCEPT ![v] = "link"]
               /\ irq' = [irq EXCEPT ![op[v].irq].pdq = TRUE]
               /\ OpenSection(v, op[v].to, op[v].irq)
               /\ UNCHANGED op
      <3>1. irq' \in [Irq -> IrqType]
        BY <2>1, <2>3, SetPdq DEF TypeOK
      <3>2. raced' \in BOOLEAN
        BY <2>3 DEF OpenSection, TypeOK
      <3> QED BY <1>14, <2>1, <2>3, <3>1, <3>2
              DEF insert_into_pdlist, TypeOK, PcState
    <2> QED BY <1>14, <2>2, <2>3 DEF insert_into_pdlist
  <1>24. CASE InsertLink(v)
    <2>1. op[v].irq \in Irq /\ op[v].to \in Vcpu
      BY <1>24 DEF InsertLink, TypeOK, OpType
    <2>2. pd' \in [Vcpu -> Seq(Irq)]
      <3>1. pd_insert(pd[op[v].to], op[v].irq) \in Seq(Irq)
        BY <2>1, PdInsertLemma DEF TypeOK
      <3> QED BY <1>24, <2>1, <3>1 DEF InsertLink, TypeOK
    <2> QED BY <1>24, <2>2, <1>n DEF InsertLink, EndInject, TypeOK, PcState
  <1>25. CASE ClearUnlink(v)
    <2>1. op[v].irq \in Irq
      BY <1>25 DEF ClearUnlink, TypeOK
    <2>2. pd' \in [Vcpu -> Seq(Irq)]
      BY <1>25, <2>1, UnlinkType DEF ClearUnlink
    <2>3. raced' \in BOOLEAN
      BY <1>25 DEF ClearUnlink, UnlockedAccess, TypeOK
    <2> QED BY <1>25, <2>2, <2>3, <1>n
            DEF ClearUnlink, EndInject, TypeOK, PcState
  <1>15. CASE hv_poweroff_current(v)
    BY <1>15 DEF hv_poweroff_current, TypeOK, PcState
  <1>16. CASE hv_virq_to_lrs(v)
    <2>1. CASE UNCHANGED <<pd, op, raced>> /\ pc' = [pc EXCEPT ![v] = "guest"]
      BY <1>16, <2>1 DEF hv_virq_to_lrs, TypeOK, PcState
    <2>2. CASE /\ pd[v] # <<>> /\ pc' = [pc EXCEPT ![v] = "flush"]
               /\ UNCHANGED pd /\ LoopAt(v, Head(pd[v]))
               /\ OpenSection(v, v, NoIrq)
      <3>1. Head(pd[v]) \in Pointer
        BY <2>2 DEF TypeOK, Pointer
      <3>2. op' \in [Vcpu -> OpType]
        BY <2>2, <3>1, LoopType
      <3>3. \A w \in Vcpu \ {v} : op'[w] = op[w]
        BY <2>2 DEF LoopAt, TypeOK
      <3>4. raced' \in BOOLEAN
        BY <2>2 DEF OpenSection, TypeOK
      <3> QED BY <1>16, <2>2, <3>2, <3>3, <3>4
              DEF hv_virq_to_lrs, TypeOK, PcState
    <2> QED BY <1>16, <2>1, <2>2 DEF hv_virq_to_lrs
  <1>17. CASE FlushNoLr(v)
    <2>1. irq' \in [Irq -> IrqType]
      <3>1. FlushIrq(v) \in Irq
        BY <1>17 DEF FlushNoLr, Flushing, FlushIrq
      <3> QED BY <1>17, <3>1, SetLr DEF FlushNoLr, TypeOK
    <2>2. op' \in [Vcpu -> OpType]
      BY <1>17, <1>n DEF FlushNoLr, TypeOK
    <2> QED BY <1>17, <2>1, <2>2 DEF FlushNoLr, TypeOK, PcState
  \* a step of the flush loop that goes on with the next entry
  <1>m. ASSUME pc[v] = "flush", op' \in [Vcpu -> OpType], UNCHANGED pc,
               NEW i, LoopAt(v, i)
        PROVE  \A w \in Vcpu :
                 pc'[w] \in {"inject", "insert", "link", "clear"}
                   => op'[w].irq \in Irq
    BY <1>m DEF LoopAt, TypeOK
  <1>18. CASE FlushToLr(v)
    <2>1. /\ FlushIrq(v) \in Irq /\ pd' \in [Vcpu -> Seq(Irq)]
          /\ lrl' \in [Vcpu -> SUBSET Irq] /\ op' \in [Vcpu -> OpType]
      BY <1>18, MoveType DEF FlushToLr, Flushing, FlushIrq
    <2>2. vgic_get_lr(v) \in Lrs
      BY <1>18, GetLrLemma DEF FlushToLr, EmptyLr
    <2>3. irq' \in [Irq -> IrqType]
      BY <1>18, <2>1, <2>2, SetLrPdq DEF FlushToLr, TypeOK
    <2>4. reg' \in [Vcpu -> [Lrs -> LrType]]
      BY <1>18, <2>1, <2>2 DEF FlushToLr, vgic_write_lr, TypeOK, LrType, LrState
    <2>5. \A w \in Vcpu : pc'[w] \in {"inject", "insert", "link", "clear"}
                            => op'[w].irq \in Irq
      BY <1>18, <2>1, <1>m DEF FlushToLr, Flushing, move_to_lr_lst
    <2> QED BY <1>18, <2>1, <2>3, <2>4, <2>5 DEF FlushToLr, TypeOK
  <1>19. CASE FlushReuse(v)
    <2> DEFINE i == FlushIrq(v)
               n == irq[i].lr
    <2>1. i \in Irq /\ op[v].nxt \in Pointer
      BY <1>19, ZenonT(40) DEF FlushReuse, Flushing, FlushIrq, TypeOK, OpType
    <2>2. n \in Lrs
      BY <1>19, <2>1, IrqFacts DEF FlushReuse, NeedsLr
    <2>m. ASSUME move_to_lr_lst(v)
          PROVE  /\ pd' \in [Vcpu -> Seq(Irq)] /\ lrl' \in [Vcpu -> SUBSET Irq]
                 /\ op' \in [Vcpu -> OpType]
                 /\ \A w \in Vcpu :
                      pc'[w] \in {"inject", "insert", "link", "clear"}
                        => op'[w].irq \in Irq
      BY <1>19, <2>m, <1>m, MoveType DEF FlushReuse, Flushing, move_to_lr_lst
    <2>3. CASE reg[v][n].state = "active" /\ move_to_lr_lst(v)
               /\ irq' = [irq EXCEPT ![i].pdq = FALSE]
               /\ reg' = [reg EXCEPT ![v][n].state = "actpend"]
      <3>2. irq' \in [Irq -> IrqType]
        BY <2>1, <2>3, SetPdq DEF TypeOK
      <3>3. reg' \in [Vcpu -> [Lrs -> LrType]]
        BY <2>2, <2>3, RegUpdate DEF TypeOK, LrState
      <3> QED BY <1>19, <2>3, <2>m, <3>2, <3>3 DEF FlushReuse, TypeOK
    <2>4. CASE reg[v][n].state = "invalid" /\ move_to_lr_lst(v)
               /\ irq' = [irq EXCEPT ![i].pdq = FALSE]
               /\ vgic_write_lr(v, n, i)
      <3>2. irq' \in [Irq -> IrqType]
        BY <2>1, <2>4, SetPdq DEF TypeOK
      <3>3. reg' \in [Vcpu -> [Lrs -> LrType]]
        BY <2>1, <2>2, <2>4 DEF TypeOK, LrType, LrState, vgic_write_lr
      <3> QED BY <1>19, <2>4, <2>m, <3>2, <3>3 DEF FlushReuse, TypeOK
    <2>5. CASE LoopAt(v, op[v].nxt) /\ UNCHANGED <<reg, irq, pd, lrl>>
      <3>1. op' \in [Vcpu -> OpType]
        BY <2>1, <2>5, LoopType
      <3>2. \A w \in Vcpu : pc'[w] \in {"inject", "insert", "link", "clear"}
                              => op'[w].irq \in Irq
        BY <1>19, <2>5, <3>1, <1>m DEF FlushReuse, Flushing
      <3> QED BY <1>19, <2>5, <3>1, <3>2 DEF FlushReuse, TypeOK
    <2> QED BY <1>19, <2>3, <2>4, <2>5, SMTT(40) DEF FlushReuse
  <1>20. CASE FlushEnd(v)
    <2>1. op' \in [Vcpu -> OpType]
      BY <1>20 DEF FlushEnd, NoOp, TypeOK, OpType
    <2> QED BY <1>20, <2>1 DEF FlushEnd, TypeOK, PcState
  <1>21. ASSUME NEW n \in Lrs, GuestAck(v, n) PROVE TypeOK'
    <2>1. reg' \in [Vcpu -> [Lrs -> LrType]]
      BY <1>21, RegUpdate DEF GuestAck, TypeOK, LrState
    <2> QED BY <1>21, <2>1 DEF GuestAck, TypeOK
  <1>22. ASSUME NEW n \in Lrs, GuestEoi(v, n) PROVE TypeOK'
    <2>1. reg' \in [Vcpu -> [Lrs -> LrType]]
      BY <1>22, RegUpdate DEF GuestEoi, TypeOK, LrState
    <2>2. gic' \in [Spi -> GicType]
      BY <1>22, IcactiverType DEF GuestEoi
    <2> QED BY <1>22, <2>1, <2>2 DEF GuestEoi, TypeOK
  <1> QED
    BY <1>1, <1>12, <1>13, <1>14, <1>15, <1>16, <1>17, <1>18, <1>19, <1>20,
       <1>21, <1>22, <1>24, <1>25

\* Every state of the virtual interrupt controller is well typed, for any
\* number of vcpus, interrupts and list registers (hv_vgic.c).
THEOREM TypeCorrect == Spec => []TypeOK
  BY InitType, NextType, PTL DEF Spec

-----------------------------------------------------------------------------
(***************************************************************************)
(* The lists of the virtual interrupt controller keep their shape, and a   *)
(* device interrupt is in one place at a time.                             *)
(***************************************************************************)

-----------------------------------------------------------------------------
(* What linking and unlinking a node does to the pending lists.            *)

\* list_delete leaves the other entries linked once, and this one not at all.
LEMMA RemoveNode ==
  ASSUME TypeOK, SingleNode, NEW v \in Vcpu, NEW k \in 1 .. Len(pd[v]),
         pd' = [pd EXCEPT ![v] = RemoveAt(@, k)]
  PROVE  /\ SingleNode'
         /\ \A j : InPdList(j)' => InPdList(j) /\ j # pd[v][k]
  <1> DEFINE P(w, l) == IF w = v /\ l >= k THEN l + 1 ELSE l
  <1>1. pd \in [Vcpu -> Seq(Irq)] /\ \A w \in Vcpu : Len(pd[w]) \in Nat
    BY LenProperties DEF TypeOK
  <1>2. ASSUME NEW w \in Vcpu, NEW l \in 1 .. Len(pd'[w])
        PROVE  /\ P(w, l) \in 1 .. Len(pd[w])
               /\ pd'[w][l] = pd[w][P(w, l)]
               /\ w = v => P(w, l) # k
    <2>1. CASE w = v
      <3>1. pd'[w] = RemoveAt(pd[v], k)
        BY <2>1, <1>1
      <3>2. /\ Len(RemoveAt(pd[v], k)) = Len(pd[v]) - 1
            /\ \A j \in 1 .. (Len(pd[v]) - 1) :
                 RemoveAt(pd[v], k)[j] =
                   IF j < k THEN pd[v][j] ELSE pd[v][j + 1]
        BY <1>1, RemoveAtLemma
      <3>3. l \in 1 .. (Len(pd[v]) - 1)
        BY <3>1, <3>2, <1>2
      <3>4. l < k \/ l >= k
        BY <3>3
      <3>5. CASE l < k
        BY <3>1, <3>2, <3>3, <3>5, <2>1, <1>1
      <3>6. CASE l >= k
        BY <3>1, <3>2, <3>3, <3>6, <2>1, <1>1
      <3> QED BY <3>4, <3>5, <3>6
    <2>2. CASE w # v
      BY <2>2, <1>1, <1>2
    <2> QED BY <2>1, <2>2
  <1>3. SingleNode'
    <2> SUFFICES ASSUME NEW u \in Vcpu, NEW w \in Vcpu,
                        NEW a \in 1 .. Len(pd'[u]), NEW b \in 1 .. Len(pd'[w]),
                        pd'[u][a] = pd'[w][b]
                 PROVE  u = w /\ a = b
      BY DEF SingleNode
    <2>1. pd[u][P(u, a)] = pd[w][P(w, b)]
      BY <1>2
    <2>2. u = w /\ P(u, a) = P(w, b)
      BY <1>2, <2>1 DEF SingleNode
    <2> QED BY <2>2
  <1>4. \A j : InPdList(j)' => InPdList(j) /\ j # pd[v][k]
    <2> SUFFICES ASSUME NEW j, InPdList(j)'
                 PROVE  InPdList(j) /\ j # pd[v][k]
      OBVIOUS
    <2>w. PICK w \in Vcpu : \E l \in 1 .. Len(pd'[w]) : pd'[w][l] = j
      BY DEF InPdList, Listed
    <2>j. PICK l \in 1 .. Len(pd'[w]) : pd'[w][l] = j
      BY <2>w
    <2>1. P(w, l) \in 1 .. Len(pd[w]) /\ pd'[w][l] = pd[w][P(w, l)]
      BY <1>2
    <2>2. ~(w = v /\ P(w, l) = k)
      BY <1>2
    <2> HIDE DEF P
    <2> QED BY <2>j, <2>1, <2>2 DEF InPdList, Listed, SingleNode
  <1> QED BY <1>3, <1>4

\* UnlinkPd, whichever list the entry was on.
LEMMA UnlinkNode ==
  ASSUME TypeOK, SingleNode, NEW i, UnlinkPd(i)
  PROVE  /\ SingleNode'
         /\ \A j : InPdList(j)' => InPdList(j) /\ j # i
  <1>1. CASE ~InPdList(i) /\ UNCHANGED pd
    BY <1>1 DEF SingleNode, InPdList, Listed
  <1>2. ASSUME NEW v \in Vcpu, NEW k \in 1 .. Len(pd[v]), pd[v][k] = i,
               pd' = [pd EXCEPT ![v] = RemoveAt(@, k)]
        PROVE  SingleNode' /\ \A j : InPdList(j)' => InPdList(j) /\ j # i
    BY <1>2, RemoveNode
  <1> QED BY <1>1, <1>2 DEF UnlinkPd

\* insert_into_pdlist links an interrupt that was on no list.
LEMMA InsertNode ==
  ASSUME TypeOK, SingleNode, NEW v \in Vcpu, NEW i \in Irq, ~InPdList(i),
         pd' = [pd EXCEPT ![v] = pd_insert(@, i)]
  PROVE  /\ SingleNode'
         /\ \A j : InPdList(j)' => InPdList(j) \/ j = i
  <1>1. pd \in [Vcpu -> Seq(Irq)] /\ \A w \in Vcpu : Len(pd[w]) \in Nat
    BY LenProperties DEF TypeOK
  <1>2. CASE pd_insert(pd[v], i) = pd[v]
    <2>1. pd' = pd
      BY <1>1, <1>2
    <2> QED BY <2>1 DEF SingleNode, InPdList, Listed
  <1>3. CASE /\ Len(pd_insert(pd[v], i)) = Len(pd[v]) + 1
             /\ \E k \in 1 .. Len(pd[v]) + 1 : \A j \in 1 .. Len(pd[v]) + 1 :
                  pd_insert(pd[v], i)[j] =
                    IF j < k THEN pd[v][j] ELSE IF j = k THEN i
                    ELSE pd[v][j - 1]
    <2>1. PICK k \in 1 .. Len(pd[v]) + 1 : \A j \in 1 .. Len(pd[v]) + 1 :
            pd_insert(pd[v], i)[j] =
              IF j < k THEN pd[v][j] ELSE IF j = k THEN i ELSE pd[v][j - 1]
      BY <1>3
    <2>2. pd'[v] = pd_insert(pd[v], i) /\ \A w \in Vcpu \ {v} : pd'[w] = pd[w]
      BY <1>1
    <2> DEFINE P(w, l) == IF w = v /\ l > k THEN l - 1 ELSE l
    <2>3. ASSUME NEW w \in Vcpu, NEW l \in 1 .. Len(pd'[w])
          PROVE  \/ w = v /\ l = k /\ pd'[w][l] = i
                 \/ /\ ~(w = v /\ l = k)
                    /\ P(w, l) \in 1 .. Len(pd[w])
                    /\ pd'[w][l] = pd[w][P(w, l)]
      <3>1. CASE w = v
        <4>1. l \in 1 .. Len(pd[v]) + 1
          BY <3>1, <2>2, <2>3, <1>3
        <4>2. l < k \/ l = k \/ l > k
          BY <4>1, <2>1
        <4>3. CASE l < k
          BY <4>1, <4>3, <3>1, <2>1, <2>2, <1>1
        <4>4. CASE l = k
          BY <4>1, <4>4, <3>1, <2>1, <2>2, <1>1
        <4>5. CASE l > k
          BY <4>1, <4>5, <3>1, <2>1, <2>2, <1>1
        <4> QED BY <4>2, <4>3, <4>4, <4>5
      <3>2. CASE w # v
        BY <3>2, <2>2, <2>3
      <3> QED BY <3>1, <3>2
    <2>4. \A w \in Vcpu : \A l \in 1 .. Len(pd[w]) : pd[w][l] # i
      BY DEF InPdList, Listed
    <2>a. ASSUME NEW w \in Vcpu, NEW l \in 1 .. Len(pd'[w]), pd'[w][l] = i
          PROVE  w = v /\ l = k
      <3> HIDE DEF P
      <3>1. ~(P(w, l) \in 1 .. Len(pd[w]) /\ pd'[w][l] = pd[w][P(w, l)])
        BY <2>4, <2>a
      <3> QED BY <2>3, <3>1
    <2>5. SingleNode'
      <3> SUFFICES ASSUME NEW u \in Vcpu, NEW w \in Vcpu,
                        NEW a \in 1 .. Len(pd'[u]), NEW b \in 1 .. Len(pd'[w]),
                        pd'[u][a] = pd'[w][b]
                   PROVE  u = w /\ a = b
        BY DEF SingleNode
      <3>1. CASE u = v /\ a = k
        <4>1. pd'[u][a] = i
          BY <3>1, <2>3
        <4> QED BY <3>1, <4>1, <2>a
      <3>2. CASE w = v /\ b = k
        <4>1. pd'[w][b] = i
          BY <3>2, <2>3
        <4> QED BY <3>2, <4>1, <2>a
      <3>3. CASE ~(u = v /\ a = k) /\ ~(w = v /\ b = k)
        <4>1. pd[u][P(u, a)] = pd[w][P(w, b)]
              /\ P(u, a) \in 1 .. Len(pd[u]) /\ P(w, b) \in 1 .. Len(pd[w])
          BY <2>3, <3>3
        <4>2. u = w /\ P(u, a) = P(w, b)
          BY <4>1, SMTT(40) DEF SingleNode
        <4>3. a \in Int /\ b \in Int /\ k \in Int
          OBVIOUS
        <4> QED BY <3>3, <4>2, <4>3
      <3> QED BY <3>1, <3>2, <3>3
    <2>6. \A j : InPdList(j)' => InPdList(j) \/ j = i
      <3> HIDE DEF P
      <3> QED BY <2>3 DEF InPdList, Listed
    <2> QED BY <2>5, <2>6
  <1> QED BY <1>1, <1>2, <1>3, PdInsertLemma

-----------------------------------------------------------------------------
(* The invariant: the shape of the lists, what a cpu that is linking may   *)
(* count on, and where the pointers of a flush loop are.                   *)

\* A cpu that links an interrupt has the list for itself, and the interrupt.
Sections ==
  \A v \in Vcpu : pc[v] = "link" =>
    /\ pc[op[v].to] # "flush"
    /\ ~InPdList(op[v].irq)
    /\ irq[op[v].irq].pdq
    /\ \A w \in Vcpu \ {v} :
         pc[w] = "link" => op[w].to # op[v].to /\ op[w].irq # op[v].irq

NoHw(v, k) == \A l \in 1 .. Len(pd[v]) : l < k => ~Hw(pd[v][l])

\* The flush loop of v is at the k-th entry of its list, has saved the one
\* after it, and has passed over no hardware interrupt.
AtEntry(v, k) ==
  /\ pd[v][k] = op[v].irq
  /\ op[v].nxt = IF k < Len(pd[v]) THEN pd[v][k + 1] ELSE NoIrq
  /\ NoHw(v, k)

\* The flush loop of v is at an entry of its list, or at the end of it.
FlushAt(v) ==
  pc[v] = "flush" =>
    \/ op[v].irq = NoIrq /\ NoHw(v, Len(pd[v]) + 1)
    \/ \E k \in 1 .. Len(pd[v]) : AtEntry(v, k)

Flushes == \A v \in Vcpu : FlushAt(v)

Lists == SingleNode /\ ListedPdq /\ LrListSingle /\ Sections /\ Flushes

ListInv == TypeOK /\ (~raced => Lists)

\* A step of cpu v leaves the other cpus where they are.
Others(v) == \A w \in Vcpu \ {v} : pc'[w] = pc[w] /\ op'[w] = op[w]

-----------------------------------------------------------------------------
(* The parts of the invariant after a step.                                *)

\* What is linked on a pending list has pdq set or is being cleared.
LEMMA PdqOfListed ==
  ASSUME TypeOK, ListedPdq, NEW j, InPdList(j)
  PROVE  irq[j].pdq \/ Clearing(j)
  BY DEF ListedPdq, InPdList, Listed

\* ListedPdq after a step, from what the step does to the lists and to pdq.
LEMMA PdqPrimed ==
  ASSUME TypeOK',
         \A j \in Irq : InPdList(j)' => irq'[j].pdq \/ Clearing(j)'
  PROVE  ListedPdq'
  <1> SUFFICES ASSUME NEW v \in Vcpu, NEW k \in 1 .. Len(pd'[v])
               PROVE  (irq[pd[v][k]].pdq \/ Clearing(pd[v][k]))'
    BY DEF ListedPdq
  <1>1. PICK j \in Irq : j = pd'[v][k]
    BY ElementOfSeq DEF TypeOK
  <1>2. InPdList(j)'
    BY <1>1 DEF InPdList, Listed
  <1>3. irq'[j].pdq \/ Clearing(j)'
    BY <1>2
  <1> QED BY <1>1, <1>3 DEF Clearing

\* An interrupt that another cpu is clearing still is.
LEMMA ClearingKept ==
  ASSUME NEW v \in Vcpu, Others(v), NEW j, Clearing(j),
         pc[v] = "clear" => op[v].irq # j
  PROVE  Clearing(j)'
  BY DEF Others, Clearing

\* What the cpus that link count on is kept by a step of another cpu that
\* leaves their interrupts alone.
LEMMA SectionsKept ==
  ASSUME TypeOK, Sections, NEW v \in Vcpu, Others(v), pc'[v] # "link",
         pc'[v] = "flush" => pc[v] = "flush" \/ ~Linking(v),
         \A w \in Vcpu \ {v}, j \in Irq : pc[w] = "link" /\ op[w].irq = j =>
           ~InPdList(j)' /\ irq'[j].pdq
  PROVE  Sections'
  <1> SUFFICES ASSUME NEW w \in Vcpu, pc'[w] = "link"
               PROVE  (/\ pc[op[w].to] # "flush"
                       /\ ~InPdList(op[w].irq)
                       /\ irq[op[w].irq].pdq
                       /\ \A u \in Vcpu \ {w} : pc[u] = "link" =>
                            op[u].to # op[w].to /\ op[u].irq # op[w].irq)'
    BY DEF Sections
  <1>1. w # v /\ pc[w] = "link" /\ op'[w] = op[w]
    BY DEF Others
  <1>2. pc'[op'[w].to] # "flush"
    <2>1. op[w].to \in Vcpu /\ pc[op[w].to] # "flush"
      BY <1>1 DEF TypeOK, OpType, Sections
    <2>2. CASE op[w].to = v
      BY <1>1, <2>1, <2>2 DEF Linking
    <2>3. CASE op[w].to # v
      BY <1>1, <2>1, <2>3 DEF Others
    <2> QED BY <2>2, <2>3
  <1>3. ASSUME NEW u \in Vcpu \ {w}, pc'[u] = "link"
        PROVE  op'[u].to # op'[w].to /\ op'[u].irq # op'[w].irq
    <2>1. u # v /\ pc[u] = "link" /\ op'[u] = op[u]
      BY <1>3 DEF Others
    <2> QED BY <1>1, <2>1 DEF Sections
  <1>4. PICK j \in Irq : op[w].irq = j
    BY <1>1 DEF TypeOK
  <1>5. ~InPdList(j)' /\ irq'[j].pdq
    BY <1>1, <1>4
  <1>6. ~InPdList(op[w].irq)' /\ irq'[op'[w].irq].pdq
    BY <1>1, <1>4, <1>5 DEF InPdList, Listed
  <1> QED BY <1>2, <1>3, <1>6

\* A step that leaves the lists of the other flush loops alone.
LEMMA FlushesKept ==
  ASSUME NEW v \in Vcpu, Flushes, Others(v), FlushAt(v)',
         \A w \in Vcpu \ {v} : pc[w] = "flush" => pd'[w] = pd[w]
  PROVE  Flushes'
  <1> SUFFICES ASSUME NEW w \in Vcpu \ {v}, pc'[w] = "flush" PROVE FlushAt(w)'
    BY DEF Flushes, FlushAt
  <1>1. pc[w] = "flush" /\ op'[w] = op[w] /\ pd'[w] = pd[w]
    BY DEF Others
  <1>2. FlushAt(w)
    BY DEF Flushes
  <1> QED BY <1>1, <1>2 DEF FlushAt, AtEntry, NoHw

-----------------------------------------------------------------------------
(* The kinds of steps.                                                     *)

\* A step that leaves the pending lists and pdq alone and neither links nor
\* flushes afterwards.
LEMMA ListFrame ==
  ASSUME TypeOK, TypeOK', Lists, NEW v \in Vcpu, Others(v), UNCHANGED pd,
         \A j \in Irq : irq'[j].pdq = irq[j].pdq,
         \A w \in Vcpu : lrl'[w] \subseteq lrl[w],
         pc[v] # "clear", pc'[v] \notin {"link", "flush"}
  PROVE  Lists'
  <1>1. SingleNode' /\ LrListSingle'
    BY DEF Lists, SingleNode, LrListSingle
  <1>2. ListedPdq'
    <2> SUFFICES ASSUME NEW j \in Irq, InPdList(j)'
                 PROVE  irq'[j].pdq \/ Clearing(j)'
      BY PdqPrimed
    <2>1. InPdList(j)
      BY DEF InPdList, Listed
    <2> QED BY <2>1, PdqOfListed, ClearingKept DEF Lists
  <1>3. Sections'
    <2>1. ASSUME NEW w \in Vcpu \ {v}, NEW j \in Irq,
                 pc[w] = "link", op[w].irq = j
          PROVE  ~InPdList(j)' /\ irq'[j].pdq
      <3>1. ~InPdList(j) /\ irq[j].pdq
        BY <2>1 DEF Lists, Sections
      <3> QED BY <3>1 DEF InPdList, Listed
    <2> QED BY <2>1, SectionsKept DEF Lists
  <1>4. Flushes'
    BY FlushesKept DEF Lists, FlushAt
  <1> QED BY <1>1, <1>2, <1>3, <1>4 DEF Lists

\* An unlocked access that has met no critical section leaves alone the list
\* of a flush loop and the interrupt that another cpu links.
LEMMA AccessApart ==
  ASSUME NEW v \in Vcpu, NEW i, UnlockedAccess(v, i), ~raced',
         NEW w \in Vcpu \ {v}
  PROVE  /\ pc[w] = "flush" => ~Listed(i, w)
         /\ pc[w] = "link" => op[w].irq # i
         /\ pc[w] = "clear" => op[w].irq # i
  BY DEF UnlockedAccess, Busy

\* A step that unlinks i outside its list's critical sections.
LEMMA ListUnlink ==
  ASSUME TypeOK, TypeOK', Lists, NEW v \in Vcpu, Others(v), NEW i \in Irq,
         UnlinkPd(i), UnlockedAccess(v, i), ~raced', UNCHANGED lrl,
         \A j \in Irq : j # i => irq'[j].pdq = irq[j].pdq,
         pc[v] = "clear" => op[v].irq = i, pc'[v] \notin {"link", "flush"}
  PROVE  /\ Lists'
         /\ \A j : InPdList(j)' => InPdList(j) /\ j # i
  <1>1. SingleNode' /\ \A j : InPdList(j)' => InPdList(j) /\ j # i
    BY UnlinkNode DEF Lists
  <1>2. LrListSingle'
    BY DEF Lists, LrListSingle
  <1>3. ListedPdq'
    <2> SUFFICES ASSUME NEW j \in Irq, InPdList(j)'
                 PROVE  irq'[j].pdq \/ Clearing(j)'
      BY PdqPrimed
    <2>1. InPdList(j) /\ j # i
      BY <1>1
    <2> QED BY <2>1, PdqOfListed, ClearingKept DEF Lists
  <1>4. Sections'
    <2>1. ASSUME NEW w \in Vcpu \ {v}, NEW j \in Irq,
                 pc[w] = "link", op[w].irq = j
          PROVE  ~InPdList(j)' /\ irq'[j].pdq
      <3>1. ~InPdList(j) /\ irq[j].pdq
        BY <2>1 DEF Lists, Sections
      <3>2. j # i
        BY <2>1, AccessApart
      <3> QED BY <3>1, <3>2, <1>1
    <2> QED BY <2>1, SectionsKept DEF Lists
  <1>5. Flushes'
    <2>1. ASSUME NEW w \in Vcpu \ {v}, pc[w] = "flush" PROVE pd'[w] = pd[w]
      <3>1. ~Listed(i, w)
        BY <2>1, AccessApart
      <3>2. CASE UNCHANGED pd
        BY <3>2
      <3>3. ASSUME NEW u \in Vcpu, NEW k \in 1 .. Len(pd[u]), pd[u][k] = i,
                   pd' = [pd EXCEPT ![u] = RemoveAt(@, k)]
            PROVE  pd'[w] = pd[w]
        BY <3>1, <3>3 DEF Listed, TypeOK
      <3> QED BY <3>2, <3>3 DEF UnlinkPd
    <2> QED BY <2>1, FlushesKept DEF Lists, FlushAt
  <1> QED BY <1>1, <1>2, <1>3, <1>4, <1>5 DEF Lists

\* hv_virq_cpending clears pdq: the interrupt is being cleared from now on.
LEMMA ListClear ==
  ASSUME TypeOK, TypeOK', Lists, NEW v \in Vcpu, NEW i \in Irq,
         NEW e \in BOOLEAN, hv_virq_cpending(v, i, e), ~raced',
         pc[v] = "hyp", UNCHANGED <<pd, lrl>>
  PROVE  Lists'
  <1>0. /\ Others(v) /\ pc'[v] = "clear" /\ op'[v].irq = i
        /\ \A j \in Irq : j # i => irq'[j].pdq = irq[j].pdq
    <2>1. irq \in [Irq -> IrqType] /\ op \in [Vcpu -> OpType]
          /\ pc \in [Vcpu -> PcState]
      BY DEF TypeOK
    <2>2. \A j \in Irq : j # i => irq'[j] = irq[j]
      BY <2>1 DEF hv_virq_cpending
    <2>3. op'[v].irq = i
      BY <2>1 DEF hv_virq_cpending, NoOp
    <2> QED BY <2>1, <2>2, <2>3 DEF hv_virq_cpending, Others
  <1>1. SingleNode' /\ LrListSingle'
    BY DEF Lists, SingleNode, LrListSingle
  <1>2. ListedPdq'
    <2> SUFFICES ASSUME NEW j \in Irq, InPdList(j)'
                 PROVE  irq'[j].pdq \/ Clearing(j)'
      BY PdqPrimed
    <2>1. InPdList(j)
      BY DEF InPdList, Listed
    <2>2. CASE j = i
      BY <2>2, <1>0 DEF Clearing
    <2>3. CASE j # i
      BY <2>1, <2>3, <1>0, PdqOfListed, ClearingKept DEF Lists
    <2> QED BY <2>2, <2>3
  <1>3. Sections'
    <2>1. ASSUME NEW w \in Vcpu \ {v}, NEW j \in Irq,
                 pc[w] = "link", op[w].irq = j
          PROVE  ~InPdList(j)' /\ irq'[j].pdq
      <3>1. ~InPdList(j) /\ irq[j].pdq
        BY <2>1 DEF Lists, Sections
      <3>2. j # i
        BY <2>1, AccessApart DEF hv_virq_cpending
      <3> QED BY <3>1, <3>2, <1>0 DEF InPdList, Listed
    <2> QED BY <2>1, <1>0, SectionsKept DEF Lists
  <1>4. Flushes'
    BY <1>0, FlushesKept DEF Lists, FlushAt
  <1> QED BY <1>1, <1>2, <1>3, <1>4 DEF Lists

\* hv_vcpu_irq_cleanup empties the lists of its own vcpu.
LEMMA ListCleanup ==
  ASSUME TypeOK, TypeOK', Lists, NEW v \in Vcpu, hv_vcpu_irq_cleanup(v)
  PROVE  Lists'
  <1>0. /\ Others(v) /\ pc'[v] = "clean" /\ pc[v] = "hyp" /\ irq' = irq
        /\ pd'[v] = <<>> /\ \A w \in Vcpu \ {v} : pd'[w] = pd[w]
        /\ \A w \in Vcpu : lrl'[w] \subseteq lrl[w]
    BY DEF hv_vcpu_irq_cleanup, Others, TypeOK
  <1>1. 1 .. Len(pd'[v]) = {}
    BY <1>0
  <1>2. SingleNode' /\ LrListSingle'
    BY <1>0, <1>1 DEF Lists, SingleNode, LrListSingle
  <1>3. \A j : InPdList(j)' => InPdList(j)
    BY <1>0, <1>1 DEF InPdList, Listed
  <1>4. ListedPdq'
    <2> SUFFICES ASSUME NEW j \in Irq, InPdList(j)'
                 PROVE  irq'[j].pdq \/ Clearing(j)'
      BY PdqPrimed
    <2> QED BY <1>0, <1>3, PdqOfListed, ClearingKept DEF Lists
  <1>5. Sections'
    <2>1. ASSUME NEW w \in Vcpu \ {v}, NEW j \in Irq,
                 pc[w] = "link", op[w].irq = j
          PROVE  ~InPdList(j)' /\ irq'[j].pdq
      BY <2>1, <1>0, <1>3 DEF Lists, Sections
    <2> QED BY <2>1, <1>0, SectionsKept DEF Lists
  <1>6. Flushes'
    BY <1>0, FlushesKept DEF Lists, FlushAt
  <1> QED BY <1>2, <1>4, <1>5, <1>6 DEF Lists

\* insert_into_pdlist takes the lock and sets pdq.
LEMMA ListOpen ==
  ASSUME TypeOK, TypeOK', Lists, NEW v \in Vcpu, pc[v] = "insert",
         ~Locked(op[v].to), ~InPdList(op[v].irq),
         pc' = [pc EXCEPT ![v] = "link"],
         irq' = [irq EXCEPT ![op[v].irq].pdq = TRUE],
         OpenSection(v, op[v].to, op[v].irq), ~raced',
         UNCHANGED <<op, pd, lrl>>
  PROVE  Lists'
  <1> DEFINE i == op[v].irq
  <1>0. /\ Others(v) /\ pc'[v] = "link" /\ i \in Irq /\ op[v].to \in Vcpu
        /\ irq'[i].pdq /\ \A j \in Irq : j # i => irq'[j].pdq = irq[j].pdq
        /\ \A w \in Vcpu \ {v} : pc[w] = "link" => op[w].irq # i
    <2>1. i \in Irq /\ op[v].to \in Vcpu
      BY DEF TypeOK, OpType
    <2>2. irq \in [Irq -> IrqType] /\ pc \in [Vcpu -> PcState]
      BY DEF TypeOK
    <2>3. irq'[i].pdq /\ \A j \in Irq : j # i => irq'[j] = irq[j]
      BY <2>1, <2>2 DEF IrqType
    <2>4. \A w \in Vcpu \ {v} : pc[w] = "link" => op[w].irq # i
      BY DEF OpenSection
    <2> QED BY <2>1, <2>2, <2>3, <2>4 DEF Others
  <1>1. SingleNode' /\ LrListSingle' /\ \A j : InPdList(j)' <=> InPdList(j)
    BY DEF Lists, SingleNode, LrListSingle, InPdList, Listed
  <1>2. ListedPdq'
    <2> SUFFICES ASSUME NEW j \in Irq, InPdList(j)'
                 PROVE  irq'[j].pdq \/ Clearing(j)'
      BY PdqPrimed
    <2>1. irq[j].pdq \/ Clearing(j)
      BY <1>1, PdqOfListed DEF Lists
    <2> QED BY <2>1, <1>0, ClearingKept
  <1>3. Sections'
    <2> SUFFICES ASSUME NEW w \in Vcpu, pc'[w] = "link"
                 PROVE  (/\ pc[op[w].to] # "flush"
                         /\ ~InPdList(op[w].irq)
                         /\ irq[op[w].irq].pdq
                         /\ \A u \in Vcpu \ {w} : pc[u] = "link" =>
                              op[u].to # op[w].to /\ op[u].irq # op[w].irq)'
      BY DEF Sections
    <2>1. /\ pc[op[v].to] # "flush"
          /\ \A u \in Vcpu : pc[u] = "link" => op[u].to # op[v].to
      BY DEF Locked, Linking
    <2>2. op[w].to \in Vcpu /\ pc[op[w].to] # "flush"
          /\ pc'[op[w].to] # "flush"
      <3>1. op[w].to \in Vcpu
        BY DEF TypeOK, OpType
      <3>2. pc[op[w].to] # "flush"
        BY <2>1 DEF Lists, Sections, TypeOK
      <3>3. pc'[op[w].to] = pc[op[w].to] \/ pc'[op[w].to] = "link"
        BY <3>1, <1>0 DEF Others
      <3> QED BY <3>1, <3>2, <3>3
    <2>3. op[w].irq \in Irq /\ ~InPdList(op[w].irq) /\ irq'[op[w].irq].pdq
      <3>1. CASE w = v
        BY <3>1, <1>0
      <3>2. CASE w # v
        <4>1. pc[w] = "link"
          BY <3>2 DEF TypeOK
        <4> QED BY <3>2, <4>1, <1>0 DEF Lists, Sections, TypeOK
      <3> QED BY <3>1, <3>2
    <2>4. ASSUME NEW u \in Vcpu \ {w}, pc'[u] = "link"
          PROVE  op[u].to # op[w].to /\ op[u].irq # op[w].irq
      <3>1. CASE w = v
        BY <3>1, <2>1, <2>4, <1>0 DEF Others
      <3>2. CASE u = v
        BY <3>2, <2>1, <2>4, <1>0 DEF Others
      <3>3. CASE w # v /\ u # v
        BY <3>3, <2>4 DEF Lists, Sections, TypeOK
      <3> QED BY <3>1, <3>2, <3>3
    <2>5. ~InPdList(op[w].irq)'
      BY <2>3 DEF InPdList, Listed
    <2> QED BY <2>2, <2>3, <2>4, <2>5
  <1>4. Flushes'
    BY <1>0, FlushesKept DEF Lists, FlushAt
  <1> QED BY <1>1, <1>2, <1>3, <1>4 DEF Lists

\* insert_into_pdlist links the interrupt, or finds no place for it.
LEMMA ListLink ==
  ASSUME TypeOK, TypeOK', Lists, NEW v \in Vcpu, InsertLink(v)
  PROVE  /\ Lists'
         /\ \A j : InPdList(j)' => InPdList(j) \/ j = op[v].irq
  <1> DEFINE i == op[v].irq
             to == op[v].to
  <1>0. /\ Others(v) /\ pc'[v] = "ret" /\ pc[v] = "link" /\ irq' = irq
        /\ i \in Irq /\ to \in Vcpu /\ lrl' = lrl
        /\ pd' = [pd EXCEPT ![to] = pd_insert(@, i)]
    BY DEF InsertLink, EndInject, Others, TypeOK, OpType
  <1>1. ~InPdList(i) /\ irq[i].pdq /\ pc[to] # "flush"
        /\ \A w \in Vcpu \ {v} : pc[w] = "link" => op[w].irq # i
    BY <1>0 DEF Lists, Sections
  <1>2. SingleNode' /\ \A j : InPdList(j)' => InPdList(j) \/ j = i
    <2> HIDE DEF i, to
    <2> QED BY <1>0, <1>1, InsertNode DEF Lists
  <1>3. LrListSingle'
    BY <1>0 DEF Lists, LrListSingle
  <1>4. ListedPdq'
    <2> SUFFICES ASSUME NEW j \in Irq, InPdList(j)'
                 PROVE  irq'[j].pdq \/ Clearing(j)'
      BY PdqPrimed
    <2>1. CASE j = i
      BY <2>1, <1>0, <1>1
    <2>2. CASE InPdList(j)
      BY <2>2, <1>0, PdqOfListed, ClearingKept DEF Lists
    <2> QED BY <2>1, <2>2, <1>2
  <1>5. Sections'
    <2>1. ASSUME NEW w \in Vcpu \ {v}, NEW j \in Irq,
                 pc[w] = "link", op[w].irq = j
          PROVE  ~InPdList(j)' /\ irq'[j].pdq
      BY <2>1, <1>0, <1>1, <1>2 DEF Lists, Sections
    <2> QED BY <2>1, <1>0, SectionsKept DEF Lists
  <1>6. Flushes'
    <2>1. \A w \in Vcpu \ {v} : pc[w] = "flush" => pd'[w] = pd[w]
      BY <1>0, <1>1 DEF TypeOK
    <2> QED BY <2>1, <1>0, FlushesKept DEF Lists, FlushAt
  <1> QED BY <1>2, <1>3, <1>4, <1>5, <1>6 DEF Lists

\* The pointers of a loop that is set to the k-th entry of its own list.
LEMMA LoopAtEntry ==
  ASSUME TypeOK, TypeOK', SingleNode', NEW v \in Vcpu, NEW k \in 1 .. Len(pd'[v]),
         LoopAt(v, pd'[v][k])
  PROVE  /\ op'[v].irq = pd'[v][k]
         /\ op'[v].nxt = IF k < Len(pd'[v]) THEN pd'[v][k + 1] ELSE NoIrq
         /\ \A w \in Vcpu \ {v} : op'[w] = op[w]
  <1>1. PICK i \in Irq : i = pd'[v][k]
    BY ElementOfSeq DEF TypeOK
  <1>2. PICK j \in Pointer :
          /\ Follows(pd', v, i, j)
          /\ op' = [op EXCEPT ![v] = [NoOp(v) EXCEPT !.irq = i, !.nxt = j]]
    BY <1>1 DEF LoopAt
  <1>3. /\ op'[v].irq = i /\ op'[v].nxt = j
        /\ \A w \in Vcpu \ {v} : op'[w] = op[w]
    BY <1>2 DEF TypeOK, NoOp
  <1>4. PICK u \in Vcpu : \E l \in 1 .. Len(pd'[u]) :
          /\ pd'[u][l] = i
          /\ j = IF l < Len(pd'[u]) THEN pd'[u][l + 1]
                 ELSE IF u = v THEN NoIrq ELSE Astray
    BY <1>1, <1>2 DEF Follows
  <1>5. PICK l \in 1 .. Len(pd'[u]) :
          /\ pd'[u][l] = i
          /\ j = IF l < Len(pd'[u]) THEN pd'[u][l + 1]
                 ELSE IF u = v THEN NoIrq ELSE Astray
    BY <1>4
  <1>6. u = v /\ l = k
    BY <1>1, <1>5 DEF SingleNode
  <1> QED BY <1>1, <1>3, <1>5, <1>6

\* A loop that is set to an entry behind no hardware interrupt.
LEMMA FlushAtEntry ==
  ASSUME TypeOK, TypeOK', SingleNode', NEW v \in Vcpu, NEW k \in 1 .. Len(pd'[v]),
         LoopAt(v, pd'[v][k]), \A l \in 1 .. Len(pd'[v]) : l < k => ~Hw(pd'[v][l])
  PROVE  FlushAt(v)'
  BY LoopAtEntry DEF FlushAt, AtEntry, NoHw

\* A loop that is set to the end of a list without hardware interrupts.
LEMMA FlushAtEnd ==
  ASSUME TypeOK, NEW v \in Vcpu, LoopAt(v, NoIrq),
         \A l \in 1 .. Len(pd'[v]) : ~Hw(pd'[v][l])
  PROVE  FlushAt(v)' /\ \A w \in Vcpu \ {v} : op'[w] = op[w]
  BY DEF LoopAt, FlushAt, NoHw, TypeOK, NoOp

\* hv_flush_queued_virqs takes the lock and starts at the head of the list.
LEMMA ListFlush ==
  ASSUME TypeOK, TypeOK', Lists, NEW v \in Vcpu, pc[v] = "ret",
         pd[v] # <<>>, ~Linking(v), pc' = [pc EXCEPT ![v] = "flush"],
         UNCHANGED <<pd, lrl, irq>>, LoopAt(v, Head(pd[v]))
  PROVE  Lists'
  <1>1. SingleNode' /\ LrListSingle' /\ \A j : InPdList(j)' <=> InPdList(j)
    BY DEF Lists, SingleNode, LrListSingle, InPdList, Listed
  <1>2. /\ 1 \in 1 .. Len(pd'[v]) /\ Head(pd[v]) = pd'[v][1]
        /\ \A l \in 1 .. Len(pd'[v]) : ~(l < 1)
    <2>1. pd[v] \in Seq(Irq) /\ pd' = pd
      BY DEF TypeOK
    <2> QED BY <2>1
  <1>3. FlushAt(v)' /\ \A w \in Vcpu \ {v} : op'[w] = op[w]
    BY <1>1, <1>2, FlushAtEntry, LoopAtEntry
  <1>4. Others(v) /\ pc'[v] = "flush"
    BY <1>3 DEF Others, TypeOK
  <1>5. ListedPdq'
    <2> SUFFICES ASSUME NEW j \in Irq, InPdList(j)'
                 PROVE  irq'[j].pdq \/ Clearing(j)'
      BY PdqPrimed
    <2> QED BY <1>1, <1>4, PdqOfListed, ClearingKept DEF Lists
  <1>6. Sections'
    <2>1. ASSUME NEW w \in Vcpu \ {v}, NEW j \in Irq,
                 pc[w] = "link", op[w].irq = j
          PROVE  ~InPdList(j)' /\ irq'[j].pdq
      BY <2>1, <1>1 DEF Lists, Sections
    <2> QED BY <2>1, <1>4, SectionsKept DEF Lists
  <1>7. Flushes'
    BY <1>3, <1>4, FlushesKept DEF Lists
  <1> QED BY <1>1, <1>5, <1>6, <1>7 DEF Lists

\* The loop works on an entry of its own list.
LEMMA FlushEntry ==
  ASSUME Flushes, NEW v \in Vcpu, Flushing(v)
  PROVE  /\ FlushIrq(v) \in Irq /\ pc[v] = "flush"
         /\ \E k \in 1 .. Len(pd[v]) : AtEntry(v, k)
         /\ InPdList(FlushIrq(v))
  BY VgicAssumption
     DEF Flushes, FlushAt, Flushing, FlushIrq, AtEntry, InPdList, Listed

\* move_to_lr_lst takes the entry off the list of its own vcpu.
LEMMA MoveUnlink ==
  ASSUME TypeOK, SingleNode, NEW v \in Vcpu, NEW k \in 1 .. Len(pd[v]),
         UnlinkPd(pd[v][k])
  PROVE  pd' = [pd EXCEPT ![v] = RemoveAt(@, k)]
  <1>1. InPdList(pd[v][k])
    BY DEF InPdList, Listed
  <1>2. PICK u \in Vcpu : \E l \in 1 .. Len(pd[u]) :
          pd[u][l] = pd[v][k] /\ pd' = [pd EXCEPT ![u] = RemoveAt(@, l)]
    BY <1>1 DEF UnlinkPd
  <1>3. PICK l \in 1 .. Len(pd[u]) :
          pd[u][l] = pd[v][k] /\ pd' = [pd EXCEPT ![u] = RemoveAt(@, l)]
    BY <1>2
  <1>4. u = v /\ l = k
    BY <1>3 DEF SingleNode
  <1> QED BY <1>3, <1>4

\* After move_to_lr_lst the loop is at the next entry.
LEMMA MoveFlushAt ==
  ASSUME TypeOK, TypeOK', SingleNode, SingleNode', NEW v \in Vcpu,
         NEW k \in 1 .. Len(pd[v]), AtEntry(v, k),
         pd' = [pd EXCEPT ![v] = RemoveAt(@, k)], LoopAt(v, op[v].nxt)
  PROVE  FlushAt(v)' /\ \A w \in Vcpu \ {v} : op'[w] = op[w]
  <1>1. pd[v] \in Seq(Irq) /\ Len(pd[v]) \in Nat /\ pd'[v] = RemoveAt(pd[v], k)
    BY LenProperties DEF TypeOK
  <1>2. /\ Len(pd'[v]) = Len(pd[v]) - 1
        /\ \A j \in 1 .. (Len(pd[v]) - 1) :
             pd'[v][j] = IF j < k THEN pd[v][j] ELSE pd[v][j + 1]
    BY <1>1, RemoveAtLemma, SMTT(40)
  <1>3. \A l \in 1 .. Len(pd'[v]) : l < k => ~Hw(pd'[v][l])
    <2> SUFFICES ASSUME NEW l \in 1 .. Len(pd'[v]), l < k PROVE ~Hw(pd'[v][l])
      OBVIOUS
    <2>1. l \in 1 .. (Len(pd[v]) - 1) /\ l \in 1 .. Len(pd[v])
      BY <1>1, <1>2
    <2>2. pd'[v][l] = pd[v][l]
      BY <1>2, <2>1
    <2> QED BY <2>1, <2>2 DEF AtEntry, NoHw
  <1>4. CASE k < Len(pd[v])
    <2>1. k \in 1 .. Len(pd'[v]) /\ op[v].nxt = pd'[v][k]
      BY <1>1, <1>2, <1>4 DEF AtEntry
    <2> QED BY <2>1, <1>3, FlushAtEntry, LoopAtEntry
  <1>5. CASE ~(k < Len(pd[v]))
    <2>1. op[v].nxt = NoIrq /\ k = Len(pd[v])
      BY <1>1, <1>5 DEF AtEntry
    <2>2. \A l \in 1 .. Len(pd'[v]) : ~Hw(pd'[v][l])
      BY <1>1, <1>2, <1>3, <2>1
    <2> QED BY <2>1, <2>2, FlushAtEnd
  <1> QED BY <1>4, <1>5

\* A step of the flush loop that moves its entry to the used registers.
LEMMA ListMove ==
  ASSUME TypeOK, TypeOK', Lists, NEW v \in Vcpu, Flushing(v),
         move_to_lr_lst(v), UNCHANGED pc,
         \A j \in Irq : j # FlushIrq(v) => irq'[j].pdq = irq[j].pdq
  PROVE  /\ Lists'
         /\ \A j : InPdList(j)' => InPdList(j) /\ j # FlushIrq(v)
  <1> DEFINE i == FlushIrq(v)
  <1>k. PICK k \in 1 .. Len(pd[v]) : AtEntry(v, k)
    BY FlushEntry DEF Lists
  <1>0. i \in Irq /\ InPdList(i) /\ pc[v] = "flush" /\ i = pd[v][k]
    BY <1>k, FlushEntry DEF Lists, AtEntry, FlushIrq
  <1>1. pd' = [pd EXCEPT ![v] = RemoveAt(@, k)]
    BY <1>0, MoveUnlink DEF move_to_lr_lst, Lists
  <1>2. SingleNode' /\ \A j : InPdList(j)' => InPdList(j) /\ j # i
    BY <1>0, <1>1, RemoveNode DEF Lists
  <1>3. FlushAt(v)' /\ Others(v)
    BY <1>k, <1>1, <1>2, MoveFlushAt DEF move_to_lr_lst, Lists, Others
  <1>4. LrListSingle'
    <2>1. lrl \in [Vcpu -> SUBSET Irq]
      BY DEF TypeOK
    <2>2. CASE InLrList(i)
      BY <2>2 DEF move_to_lr_lst, Lists, LrListSingle
    <2>3. CASE ~InLrList(i)
      BY <2>1, <2>3 DEF move_to_lr_lst, Lists, LrListSingle, InLrList
    <2> QED BY <2>2, <2>3
  <1>5. ListedPdq'
    <2> SUFFICES ASSUME NEW j \in Irq, InPdList(j)'
                 PROVE  irq'[j].pdq \/ Clearing(j)'
      BY PdqPrimed
    <2>1. InPdList(j) /\ j # i
      BY <1>2
    <2> QED BY <2>1, <1>0, <1>3, PdqOfListed, ClearingKept DEF Lists
  <1>6. Sections'
    <2>1. ASSUME NEW w \in Vcpu \ {v}, NEW j \in Irq,
                 pc[w] = "link", op[w].irq = j
          PROVE  ~InPdList(j)' /\ irq'[j].pdq
      <3>1. ~InPdList(j) /\ irq[j].pdq
        BY <2>1 DEF Lists, Sections
      <3> QED BY <3>1, <1>0, <1>2
    <2> QED BY <2>1, <1>0, <1>3, SectionsKept DEF Lists
  <1>7. Flushes'
    <2>1. \A w \in Vcpu \ {v} : pd'[w] = pd[w]
      BY <1>1 DEF TypeOK
    <2> QED BY <2>1, <1>3, FlushesKept DEF Lists
  <1> QED BY <1>2, <1>4, <1>5, <1>6, <1>7 DEF Lists

\* A step of the flush loop that leaves its entry queued: a software
\* interrupt whose remembered register is still pending.
LEMMA ListStay ==
  ASSUME TypeOK, TypeOK', Lists, NEW v \in Vcpu, Flushing(v),
         ~Hw(FlushIrq(v)), LoopAt(v, op[v].nxt), UNCHANGED <<pc, irq, pd, lrl>>
  PROVE  Lists'
  <1>k. PICK k \in 1 .. Len(pd[v]) : AtEntry(v, k)
    BY FlushEntry DEF Lists
  <1>1. SingleNode' /\ LrListSingle' /\ \A j : InPdList(j)' <=> InPdList(j)
    BY DEF Lists, SingleNode, LrListSingle, InPdList, Listed
  <1>2. Len(pd[v]) \in Nat /\ pd' = pd /\ pc[v] = "flush" /\ k \in Nat
    BY LenProperties DEF TypeOK, Flushing
  <1>3. \A l \in 1 .. Len(pd'[v]) : l < k + 1 => ~Hw(pd'[v][l])
    BY <1>k, <1>2 DEF AtEntry, NoHw, FlushIrq
  <1>4. FlushAt(v)' /\ \A w \in Vcpu \ {v} : op'[w] = op[w]
    <2>1. CASE k < Len(pd[v])
      <3>1. k + 1 \in 1 .. Len(pd'[v]) /\ op[v].nxt = pd'[v][k + 1]
        BY <1>k, <1>2, <2>1 DEF AtEntry
      <3> QED BY <3>1, <1>1, <1>3, FlushAtEntry, LoopAtEntry
    <2>2. CASE ~(k < Len(pd[v]))
      <3>1. op[v].nxt = NoIrq /\ k = Len(pd[v])
        BY <1>k, <1>2, <2>2 DEF AtEntry
      <3>2. \A l \in 1 .. Len(pd'[v]) : ~Hw(pd'[v][l])
        BY <1>2, <1>3, <3>1
      <3> QED BY <3>1, <3>2, FlushAtEnd
    <2> QED BY <2>1, <2>2
  <1>5. Others(v)
    BY <1>4 DEF Others
  <1>6. ListedPdq'
    <2> SUFFICES ASSUME NEW j \in Irq, InPdList(j)'
                 PROVE  irq'[j].pdq \/ Clearing(j)'
      BY PdqPrimed
    <2> QED BY <1>1, <1>2, <1>5, PdqOfListed, ClearingKept DEF Lists
  <1>7. Sections'
    <2>1. ASSUME NEW w \in Vcpu \ {v}, NEW j \in Irq,
                 pc[w] = "link", op[w].irq = j
          PROVE  ~InPdList(j)' /\ irq'[j].pdq
      BY <2>1, <1>1 DEF Lists, Sections
    <2> QED BY <2>1, <1>2, <1>5, SectionsKept DEF Lists
  <1>8. Flushes'
    BY <1>4, <1>5, FlushesKept DEF Lists
  <1> QED BY <1>1, <1>6, <1>7, <1>8 DEF Lists

-----------------------------------------------------------------------------
(* The invariant is inductive.                                             *)

\* A race is never forgotten.
LEMMA RacedStays == [Next]_vars /\ ~raced' => ~raced
  <1> SUFFICES ASSUME [Next]_vars, raced PROVE raced'
    OBVIOUS
  <1>0. CASE UNCHANGED vars
    BY <1>0 DEF vars
  <1> SUFFICES ASSUME NEW v \in Vcpu,
        \/ GuestExit(v) \/ HandleExit(v) \/ hv_vcpu_inject_virq(v)
        \/ insert_into_pdlist(v) \/ InsertLink(v) \/ ClearUnlink(v)
        \/ hv_poweroff_current(v)
        \/ hv_virq_to_lrs(v) \/ FlushNoLr(v) \/ FlushToLr(v)
        \/ FlushReuse(v) \/ FlushEnd(v)
        \/ \E n \in Lrs : GuestAck(v, n) \/ GuestEoi(v, n)
      PROVE raced'
    BY <1>0 DEF Next
  <1>1. /\ \A i : UnlockedAccess(v, i) => raced'
        /\ \A u, i : OpenSection(v, u, i) => raced'
    BY DEF UnlockedAccess, OpenSection
  <1>2. ASSUME NEW i, GuestDisable(v, i) \/ GuestClearPending(v, i)
        PROVE  raced'
    BY <1>1, <1>2 DEF GuestDisable, GuestClearPending, hv_virq_cpending
  <1>3. ASSUME NEW i, NEW r,
               \/ MigrateRefused(v, i, r) \/ MigrateNow(v, i, r)
               \/ MigrateLater(v, i, r)   \/ MigrateQueued(v, i, r)
               \/ MigrateNothing(v, i, r)
        PROVE  raced'
    BY <1>1, <1>3 DEF MigrateRefused, MigrateNow, MigrateLater, MigrateQueued,
                      MigrateNothing
  <1>4. ASSUME NEW i, DeviceIrq(v, i) \/ PrivateIrq(v, i) \/ GuestSgi(v, i)
                      \/ GuestEnable(v, i) \/ GuestSetPriority(v, i)
        PROVE  raced'
    BY <1>4 DEF DeviceIrq, PrivateIrq, GuestSgi, GuestEnable, GuestSetPriority
  <1>5. CASE OtherExit(v) \/ hv_vcpu_irq_cleanup(v)
    BY <1>1, <1>5 DEF OtherExit, hv_vcpu_irq_cleanup
  <1>6. CASE HandleExit(v)
    BY <1>2, <1>3, <1>4, <1>5, <1>6 DEF HandleExit
  <1>7. CASE insert_into_pdlist(v) \/ ClearUnlink(v) \/ hv_virq_to_lrs(v)
    BY <1>1, <1>7, ZenonT(40) DEF insert_into_pdlist, ClearUnlink, hv_virq_to_lrs
  <1>8. CASE \/ GuestExit(v) \/ hv_vcpu_inject_virq(v) \/ InsertLink(v)
             \/ hv_poweroff_current(v) \/ FlushNoLr(v) \/ FlushToLr(v)
             \/ FlushReuse(v) \/ FlushEnd(v)
             \/ \E n \in Lrs : GuestAck(v, n) \/ GuestEoi(v, n)
    BY <1>8, ZenonT(40) DEF GuestExit, hv_vcpu_inject_virq, InsertLink,
                hv_poweroff_current, FlushNoLr, FlushToLr, FlushReuse,
                FlushEnd, GuestAck, GuestEoi
  <1> QED BY <1>6, <1>7, <1>8

\* Every action keeps the lists in shape, unless it is an access that meets a
\* critical section.
LEMMA NextLists == ListInv /\ TypeOK' /\ [Next]_vars => ListInv'
  <1> SUFFICES ASSUME TypeOK, Lists, TypeOK', [Next]_vars, ~raced'
               PROVE  Lists'
    BY RacedStays DEF ListInv
  <1>0. CASE UNCHANGED vars
    BY <1>0 DEF vars, Lists, SingleNode, ListedPdq, Clearing, LrListSingle,
       Sections, Flushes, FlushAt, AtEntry, NoHw, InPdList, Listed
  <1> SUFFICES ASSUME NEW v \in Vcpu,
        \/ GuestExit(v) \/ HandleExit(v) \/ hv_vcpu_inject_virq(v)
        \/ insert_into_pdlist(v) \/ InsertLink(v) \/ ClearUnlink(v)
        \/ hv_poweroff_current(v)
        \/ hv_virq_to_lrs(v) \/ FlushNoLr(v) \/ FlushToLr(v)
        \/ FlushReuse(v) \/ FlushEnd(v)
        \/ \E n \in Lrs : GuestAck(v, n) \/ GuestEoi(v, n)
      PROVE Lists'
    BY <1>0 DEF Next
  <1>t. /\ irq \in [Irq -> IrqType] /\ pc \in [Vcpu -> PcState]
        /\ op \in [Vcpu -> OpType] /\ lrl \in [Vcpu -> SUBSET Irq]
    BY DEF TypeOK
  \* a step of v that neither starts nor ends in a section and keeps pdq
  <1>f. ASSUME NEW q, q \notin {"link", "flush"}, pc[v] # "clear",
               pc' = [pc EXCEPT ![v] = q], UNCHANGED <<pd, lrl>>,
               \A j \in Irq : irq'[j].pdq = irq[j].pdq,
               \A w \in Vcpu \ {v} : op'[w] = op[w]
        PROVE  Lists'
    <2>1. Others(v) /\ pc'[v] = q
      BY <1>f, <1>t DEF Others
    <2> QED BY <1>f, <2>1, ListFrame
  <1>b. ASSUME NEW i, NEW to, NEW d, BeginInject(v, i, to, d)
        PROVE  pc' = [pc EXCEPT ![v] = "inject"]
               /\ \A w \in Vcpu \ {v} : op'[w] = op[w]
    BY <1>b, <1>t DEF BeginInject
  <1>e. ASSUME EndInject(v)
        PROVE  pc' = [pc EXCEPT ![v] = "ret"]
               /\ \A w \in Vcpu \ {v} : op'[w] = op[w]
    BY <1>e, <1>t DEF EndInject
  <1>1. CASE GuestExit(v)
    <2>1. \A j \in Irq : irq'[j].pdq = irq[j].pdq
      BY <1>1, <1>t DEF GuestExit, IrqType
    <2>2. \A w \in Vcpu : lrl'[w] \subseteq lrl[w]
      BY <1>1, <1>t DEF GuestExit
    <2>3. /\ UNCHANGED pd /\ pc[v] = "guest" /\ pc'[v] = "hyp" /\ Others(v)
      BY <1>1, <1>t DEF GuestExit, Others
    <2> QED BY <2>1, <2>2, <2>3, ListFrame
  <1>2. CASE OtherExit(v) \/ hv_poweroff_current(v)
    BY <1>2, <1>f DEF OtherExit, hv_poweroff_current
  <1>3. ASSUME NEW i \in Spi, DeviceIrq(v, i) PROVE Lists'
    BY <1>3, <1>f, <1>b DEF DeviceIrq
  <1>4. ASSUME NEW i \in Priv, GuestSgi(v, i) \/ PrivateIrq(v, i) PROVE Lists'
    BY <1>4, <1>f, <1>b DEF GuestSgi, PrivateIrq
  <1>5. ASSUME NEW i \in Irq, GuestEnable(v, i) \/ GuestSetPriority(v, i)
        PROVE  Lists'
    <2>1. \A j \in Irq : irq'[j].pdq = irq[j].pdq
      BY <1>5, <1>t DEF GuestEnable, GuestSetPriority, IrqType
    <2> QED BY <1>5, <2>1, <1>f DEF GuestEnable, GuestSetPriority
  <1>6. ASSUME NEW i \in Irq, GuestDisable(v, i) \/ GuestClearPending(v, i)
        PROVE  Lists'
    BY <1>6, ListClear DEF GuestDisable, GuestClearPending
  <1>7. ASSUME NEW i \in Irq, NEW r \in Route,
               MigrateRefused(v, i, r) \/ MigrateNow(v, i, r)
               \/ MigrateLater(v, i, r) \/ MigrateNothing(v, i, r)
        PROVE  Lists'
    <2>1. \A j \in Irq : irq'[j].pdq = irq[j].pdq
      BY <1>7, <1>t
         DEF MigrateRefused, MigrateNow, MigrateLater, MigrateNothing, IrqType
    <2> QED BY <1>7, <2>1, <1>f
            DEF MigrateRefused, MigrateNow, MigrateLater, MigrateNothing,
                RouteWrite
  <1>8. ASSUME NEW i \in Irq, NEW r \in Route, MigrateQueued(v, i, r)
        PROVE  Lists'
    <2>1. \A j \in Irq : j # i => irq'[j].pdq = irq[j].pdq
      BY <1>8, <1>t DEF MigrateQueued, IrqType
    <2>2. Others(v) /\ pc[v] = "hyp" /\ pc'[v] = "inject"
      BY <1>8, <1>t, <1>b DEF MigrateQueued, RouteWrite, Others
    <2>3. UnlinkPd(i) /\ UnlockedAccess(v, i) /\ UNCHANGED lrl
      BY <1>8 DEF MigrateQueued
    <2> QED BY <2>1, <2>2, <2>3, ListUnlink
  <1>9. CASE HandleExit(v)
    <2>1. Spi \subseteq Irq /\ Ppi \subseteq Priv /\ SgiN \cup Sgi0 \subseteq Priv
          /\ CanDisable \subseteq Irq /\ CanPrioritise \subseteq Irq
          /\ CanRoute \subseteq Irq
      BY VgicAssumption DEF Irq, Priv
    <2>2. CASE hv_vcpu_irq_cleanup(v)
      BY <2>2, ListCleanup
    <2> QED BY <1>9, <2>1, <2>2, <1>2, <1>3, <1>4, <1>5, <1>6, <1>7, <1>8
            DEF HandleExit
  <1>10. CASE hv_vcpu_inject_virq(v)
    <2>1. CASE EndInject(v)
      BY <1>10, <2>1, <1>f, <1>e DEF hv_vcpu_inject_virq
    <2>2. CASE UNCHANGED op /\ pc' = [pc EXCEPT ![v] = "insert"]
      BY <1>10, <2>2, <1>f DEF hv_vcpu_inject_virq
    <2> QED BY <1>10, <2>1, <2>2 DEF hv_vcpu_inject_virq
  <1>11. CASE insert_into_pdlist(v)
    <2>1. CASE EndInject(v) /\ UNCHANGED irq
      BY <1>11, <2>1, <1>f, <1>e DEF insert_into_pdlist
    <2>2. CASE /\ ~InPdList(op[v].irq)
               /\ pc' = [pc EXCEPT ![v] = "link"]
               /\ irq' = [irq EXCEPT ![op[v].irq].pdq = TRUE]
               /\ OpenSection(v, op[v].to, op[v].irq)
               /\ UNCHANGED op
      BY <1>11, <2>2, ListOpen DEF insert_into_pdlist
    <2> QED BY <1>11, <2>1, <2>2 DEF insert_into_pdlist
  <1>12. CASE InsertLink(v)
    BY <1>12, ListLink
  <1>13. CASE ClearUnlink(v)
    <2>1. Others(v) /\ pc[v] = "clear" /\ pc'[v] = "ret" /\ irq' = irq
      BY <1>13, <1>t, <1>e DEF ClearUnlink, Others
    <2>2. PICK i \in Irq : i = op[v].irq
      BY <2>1 DEF TypeOK
    <2>3. UnlinkPd(i) /\ UnlockedAccess(v, i) /\ UNCHANGED lrl
      BY <1>13, <2>2 DEF ClearUnlink
    <2> QED BY <2>1, <2>2, <2>3, ListUnlink
  <1>14. CASE hv_virq_to_lrs(v)
    <2>1. CASE UNCHANGED <<pd, op>> /\ pc' = [pc EXCEPT ![v] = "guest"]
      BY <1>14, <2>1, <1>f DEF hv_virq_to_lrs
    <2>2. CASE /\ pd[v] # <<>> /\ ~Linking(v)
               /\ pc' = [pc EXCEPT ![v] = "flush"] /\ UNCHANGED pd
               /\ LoopAt(v, Head(pd[v]))
      BY <1>14, <2>2, ListFlush DEF hv_virq_to_lrs
    <2> QED BY <1>14, <2>1, <2>2 DEF hv_virq_to_lrs
  <1>15. CASE FlushNoLr(v)
    <2>1. \A j \in Irq : irq'[j].pdq = irq[j].pdq
      BY <1>15, <1>t DEF FlushNoLr, IrqType
    <2> QED BY <1>15, <2>1, <1>t, <1>f DEF FlushNoLr, Flushing
  <1>16. CASE FlushEnd(v)
    BY <1>16, <1>t, <1>f DEF FlushEnd
  <1>17. CASE FlushToLr(v)
    <2>1. \A j \in Irq : j # FlushIrq(v) => irq'[j].pdq = irq[j].pdq
      BY <1>17, <1>t DEF FlushToLr, IrqType
    <2> QED BY <1>17, <2>1, ListMove DEF FlushToLr
  <1>18. CASE FlushReuse(v)
    <2>0. Flushing(v) /\ ~Hw(FlushIrq(v)) /\ UNCHANGED pc
      BY <1>18 DEF FlushReuse, NeedsLr
    <2>1. CASE UNCHANGED <<reg, irq, pd, lrl>> /\ LoopAt(v, op[v].nxt)
      BY <2>0, <2>1, ListStay
    <2>2. CASE /\ irq' = [irq EXCEPT ![FlushIrq(v)].pdq = FALSE]
               /\ move_to_lr_lst(v)
      <3>1. \A j \in Irq : j # FlushIrq(v) => irq'[j].pdq = irq[j].pdq
        BY <2>2, <1>t DEF IrqType
      <3> QED BY <2>0, <2>2, <3>1, ListMove
    <2> QED BY <1>18, <2>1, <2>2 DEF FlushReuse
  <1>19. ASSUME NEW n \in Lrs, GuestAck(v, n) \/ GuestEoi(v, n)
         PROVE  Lists'
    <2>1. UNCHANGED <<pd, lrl, irq, pc, op>> /\ pc[v] = "guest"
      BY <1>19 DEF GuestAck, GuestEoi
    <2> QED BY <2>1, ListFrame DEF Others
  <1> QED
    BY <1>1, <1>2, <1>9, <1>10, <1>11, <1>12, <1>13, <1>14, <1>15, <1>16,
       <1>17, <1>18, <1>19

\* The lists are empty at start and nobody is in a critical section.
LEMMA InitLists == Init => ListInv
  <1> SUFFICES ASSUME Init PROVE ListInv
    OBVIOUS
  <1>1. \A v \in Vcpu : /\ pd[v] = <<>> /\ lrl[v] = {} /\ 1 .. Len(pd[v]) = {}
                        /\ pc[v] = "guest"
    BY DEF Init
  <1>2. Lists
    BY <1>1 DEF Lists, SingleNode, ListedPdq, LrListSingle, Sections, Flushes,
                FlushAt
  <1> QED BY <1>2, InitType DEF ListInv

\* The shape of the lists is an invariant.
LEMMA ListsInvariant == Spec => []ListInv
  BY InitLists, TypeCorrect, NextLists, PTL DEF Spec

\* For any number of vcpus, interrupts and list registers, and whatever the
\* guest does: as long as no unlocked access (hv_virq_cpending, the unlinking
\* in hv_migrate_virq) has met a critical section of the list it changes, no
\* node is linked on two lists, and what is queued has pdq set unless it is
\* just being taken off (insert_into_pdlist, move_to_lr_lst and
\* hv_vcpu_irq_cleanup of hv_vgic.c).
THEOREM ListsCorrect == Spec => []PdListConsistent
  <1>1. ListInv => PdListConsistent
    BY DEF ListInv, Lists, PdListConsistent
  <1> QED BY <1>1, ListsInvariant, PTL

-----------------------------------------------------------------------------
(***************************************************************************)
(* A device interrupt is in one place at a time until an unlocked access   *)
(* meets a critical section, as long as no vcpu is powered off and no      *)
(* interrupt takes the software path of the flush loop.  All three         *)
(* conditions are needed: the runs VgicRoute, VgicTwoVcpus and VgicStaleLr *)
(* show what a route written under the wrong lock, power off and the       *)
(* remembered list register of SGI 0 lead to.                              *)
(***************************************************************************)

\* Only the software path of the flush loop makes a register active and
\* pending at once.
NoActPend == \A v \in Vcpu, n \in Lrs : reg[v][n].state # "actpend"

Held == \A i \in Spi : HeldOnce(i)

DeviceInv == ListInv /\ (~raced => NoActPend /\ Held)

\* Interrupt i gains no place, and is as active as before.
LEMMA HeldFrame ==
  ASSUME NEW i, HeldOnce(i),
         \A v \in Vcpu, n \in Lrs : Live(v, n, i)' => Live(v, n, i),
         \A v \in Vcpu : InFlight(v, i)' => InFlight(v, i),
         InPdList(i)' => InPdList(i),
         gic'[i].active = gic[i].active
  PROVE  HeldOnce(i)'
  <1>1. InLr(i)' => InLr(i)
    BY DEF InLr
  <1>2. Injected(i)' => Injected(i)
    BY DEF Injected
  <1> QED BY <1>1, <1>2 DEF HeldOnce

\* Interrupt i is nowhere.
LEMMA HeldNowhere ==
  ASSUME NEW i, 
         \A v \in Vcpu, n \in Lrs : ~Live(v, n, i)',
         \A v \in Vcpu : ~InFlight(v, i)',
         ~InPdList(i)'
  PROVE  HeldOnce(i)'
  <1>1. ~InLr(i)'
    BY DEF InLr
  <1>2. ~Injected(i)'
    BY DEF Injected
  <1> QED BY <1>1, <1>2 DEF HeldOnce

\* Interrupt i is being injected by v and nowhere else.
LEMMA HeldByInjection ==
  ASSUME NEW i, NEW v \in Vcpu, gic'[i].active,
         \A w \in Vcpu, n \in Lrs : ~Live(w, n, i)',
         \A w \in Vcpu : InFlight(w, i)' => w = v,
         ~InPdList(i)'
  PROVE  HeldOnce(i)'
  <1>1. ~InLr(i)'
    BY DEF InLr
  <1> QED BY <1>1 DEF HeldOnce, Injected

\* Interrupt i is on a pending list and nowhere else.
LEMMA HeldByList ==
  ASSUME NEW i, gic'[i].active,
         \A w \in Vcpu, n \in Lrs : ~Live(w, n, i)',
         \A w \in Vcpu : ~InFlight(w, i)'
  PROVE  HeldOnce(i)'
  <1>1. ~InLr(i)'
    BY DEF InLr
  <1>2. ~Injected(i)'
    BY DEF Injected
  <1> QED BY <1>1, <1>2 DEF HeldOnce

\* Interrupt i is in register n of v and nowhere else.
LEMMA HeldByRegister ==
  ASSUME NEW i, NEW v \in Vcpu, NEW n \in Lrs, gic'[i].active,
         \A w \in Vcpu, m \in Lrs : Live(w, m, i)' => w = v /\ m = n,
         \A w \in Vcpu : ~InFlight(w, i)',
         ~InPdList(i)'
  PROVE  HeldOnce(i)'
  <1>1. ~Injected(i)'
    BY DEF Injected
  <1> QED BY <1>1 DEF HeldOnce, InLr

\* Every action keeps a device interrupt in one place at a time, as long as no
\* vcpu is powered off, no interrupt can be active and pending, and no unlocked
\* access has met a critical section.
LEMMA NextDevice ==
  ASSUME Sgi0 = {}, CanPowerOff = {}, TypeOK, Lists, NoActPend, Held,
         TypeOK', Next, ~raced'
  PROVE  NoActPend' /\ Held'
  <1> SUFFICES ASSUME NEW v \in Vcpu,
        \/ GuestExit(v) \/ HandleExit(v) \/ hv_vcpu_inject_virq(v)
        \/ insert_into_pdlist(v) \/ InsertLink(v) \/ ClearUnlink(v)
        \/ hv_poweroff_current(v)
        \/ hv_virq_to_lrs(v) \/ FlushNoLr(v) \/ FlushToLr(v)
        \/ FlushReuse(v) \/ FlushEnd(v)
        \/ \E n \in Lrs : GuestAck(v, n) \/ GuestEoi(v, n)
      PROVE NoActPend' /\ Held'
    BY DEF Next
  <1>t. /\ pc \in [Vcpu -> PcState] /\ op \in [Vcpu -> OpType]
        /\ gic \in [Spi -> GicType] /\ reg \in [Vcpu -> [Lrs -> LrType]]
        /\ irq \in [Irq -> IrqType]
    BY DEF TypeOK
  <1>d. Spi \cap Priv = {} /\ Spi \subseteq Irq
    BY VgicAssumption DEF Irq
  <1>h. \A i \in Spi : HeldOnce(i)
    BY DEF Held
  \* a step that touches neither the registers nor the lists, starts no
  \* injection and deactivates nothing
  <1>f. ASSUME UNCHANGED <<reg, pd>>,
               \A w \in Vcpu, i \in Spi : InFlight(w, i)' => InFlight(w, i),
               \A i \in Spi : gic'[i].active = gic[i].active
        PROVE  NoActPend' /\ Held'
    <2>1. NoActPend'
      BY <1>f DEF NoActPend
    <2>2. ASSUME NEW i \in Spi PROVE HeldOnce(i)'
      <3>1. \A w \in Vcpu, n \in Lrs : Live(w, n, i)' => Live(w, n, i)
        BY <1>f DEF Live
      <3>2. InPdList(i)' => InPdList(i)
        BY <1>f DEF InPdList, Listed
      <3> QED BY <1>f, <1>h, <3>1, <3>2, HeldFrame
    <2> QED BY <2>1, <2>2 DEF Held
  \* moving a cpu to a place outside an injection
  <1>p. ASSUME NEW q \in PcState \ {"inject", "insert", "link"},
               pc' = [pc EXCEPT ![v] = q],
               \A w \in Vcpu : w # v => op'[w] = op[w]
        PROVE  \A w \in Vcpu, i \in Spi : InFlight(w, i)' =>
                 InFlight(w, i) /\ w # v
    BY <1>p, <1>t DEF InFlight
  <1>1. CASE GuestExit(v)
    <2>1. \A i \in Spi : gic'[i].active = gic[i].active
      BY <1>1, <1>t DEF GuestExit, GicType
    <2>2. \A w \in Vcpu, i \in Spi : InFlight(w, i)' => InFlight(w, i)
      BY <1>1, <1>p DEF GuestExit, PcState
    <2> QED BY <1>1, <2>1, <2>2, <1>f DEF GuestExit
  <1>2. CASE OtherExit(v) \/ hv_poweroff_current(v)
    <2>1. \A w \in Vcpu, i \in Spi : InFlight(w, i)' => InFlight(w, i)
      BY <1>2, <1>p DEF OtherExit, hv_poweroff_current, PcState
    <2> QED BY <1>2, <2>1, <1>f DEF OtherExit, hv_poweroff_current
  <1>3. ASSUME NEW i0 \in Spi, DeviceIrq(v, i0)
        PROVE  NoActPend' /\ Held'
    <2>1. UNCHANGED <<reg, pd>> /\ ~gic[i0].active
      BY <1>3 DEF DeviceIrq
    <2>2. NoActPend'
      BY <2>1 DEF NoActPend
    <2>3. gic'[i0].active /\ \A i \in Spi : i # i0 => gic'[i] = gic[i]
      BY <1>3, <1>t DEF DeviceIrq, GicType
    <2>4. /\ op'[v].irq = i0
          /\ \A w \in Vcpu : w # v => op'[w] = op[w] /\ pc'[w] = pc[w]
      BY <1>3, <1>t DEF DeviceIrq, BeginInject
    <2>5. HeldOnce(i0)'
      <3>1. ~InLr(i0) /\ ~InPdList(i0) /\ ~Injected(i0)
        BY <1>h, <2>1 DEF HeldOnce
      <3>2. \A w \in Vcpu, n \in Lrs : ~Live(w, n, i0)'
        BY <2>1, <3>1 DEF InLr, Live
      <3>3. \A w \in Vcpu : InFlight(w, i0)' => w = v
        BY <2>4, <3>1 DEF Injected, InFlight
      <3>4. ~InPdList(i0)'
        BY <2>1, <3>1 DEF InPdList, Listed
      <3> QED BY <2>3, <3>2, <3>3, <3>4, HeldByInjection
    <2>6. ASSUME NEW i \in Spi, i # i0 PROVE HeldOnce(i)'
      <3>1. \A w \in Vcpu, n \in Lrs : Live(w, n, i)' => Live(w, n, i)
        BY <2>1 DEF Live
      <3>2. \A w \in Vcpu : InFlight(w, i)' => InFlight(w, i)
        BY <2>4, <2>6 DEF InFlight
      <3>3. InPdList(i)' => InPdList(i)
        BY <2>1 DEF InPdList, Listed
      <3> QED BY <2>3, <2>6, <3>1, <3>2, <3>3, <1>h, HeldFrame
    <2> QED BY <2>2, <2>5, <2>6 DEF Held
  <1>4. ASSUME NEW i0 \in Priv, GuestSgi(v, i0) \/ PrivateIrq(v, i0)
        PROVE  NoActPend' /\ Held'
    <2>1. /\ op'[v].irq = i0
          /\ \A w \in Vcpu : w # v => op'[w] = op[w] /\ pc'[w] = pc[w]
      BY <1>4, <1>t DEF GuestSgi, PrivateIrq, BeginInject
    <2>2. \A w \in Vcpu, i \in Spi : InFlight(w, i)' => InFlight(w, i)
      BY <2>1, <1>d DEF InFlight
    <2> QED BY <1>4, <2>2, <1>f DEF GuestSgi, PrivateIrq
  <1>5. ASSUME NEW i0 \in Irq, GuestEnable(v, i0) \/ GuestSetPriority(v, i0)
        PROVE  NoActPend' /\ Held'
    <2>1. \A i \in Spi : gic'[i].active = gic[i].active
      BY <1>5, <1>t DEF GuestEnable, GuestSetPriority, GicType
    <2>2. \A w \in Vcpu, i \in Spi : InFlight(w, i)' => InFlight(w, i)
      BY <1>5, <1>p DEF GuestEnable, GuestSetPriority, PcState
    <2> QED BY <1>5, <2>1, <2>2, <1>f DEF GuestEnable, GuestSetPriority
  <1>6. ASSUME NEW i0 \in Irq, GuestDisable(v, i0) \/ GuestClearPending(v, i0)
        PROVE  NoActPend' /\ Held'
    <2>1. /\ UNCHANGED <<reg, gic, pd>> /\ pc' = [pc EXCEPT ![v] = "clear"]
          /\ \A w \in Vcpu : w # v => op'[w] = op[w]
      BY <1>6, <1>t DEF GuestDisable, GuestClearPending, hv_virq_cpending
    <2>2. \A w \in Vcpu, i \in Spi : InFlight(w, i)' => InFlight(w, i)
      BY <2>1, <1>p DEF PcState
    <2> QED BY <2>1, <2>2, <1>f
  <1>7. ASSUME NEW i0 \in Spi, NEW r \in Route,
               MigrateRefused(v, i0, r) \/ MigrateNow(v, i0, r)
               \/ MigrateLater(v, i0, r) \/ MigrateNothing(v, i0, r)
        PROVE  NoActPend' /\ Held'
    <2>1. \A i \in Spi : gic'[i].active = gic[i].active
      <3>1. CASE MigrateNow(v, i0, r)
        BY <3>1, <1>t DEF MigrateNow, GicType
      <3>2. CASE gic' = gic
        BY <3>2
      <3> QED BY <1>7, <3>1, <3>2
              DEF MigrateRefused, MigrateLater, MigrateNothing
    <2>2. \A w \in Vcpu, i \in Spi : InFlight(w, i)' => InFlight(w, i)
      BY <1>7, <1>p
         DEF MigrateRefused, MigrateNow, MigrateLater, MigrateNothing, PcState
    <2> QED BY <1>7, <2>1, <2>2, <1>f
            DEF MigrateRefused, MigrateNow, MigrateLater, MigrateNothing
  <1>8. ASSUME NEW i0 \in Spi, NEW r \in Route, MigrateQueued(v, i0, r)
        PROVE  NoActPend' /\ Held'
    <2>1. reg' = reg /\ UnlinkPd(i0) /\ InPdList(i0)
      BY <1>8 DEF MigrateQueued
    <2>2. NoActPend'
      BY <2>1 DEF NoActPend
    <2>3. \A i \in Spi : gic'[i].active = gic[i].active
      BY <1>8, <1>t DEF MigrateQueued, GicType
    <2>4. /\ op'[v].irq = i0
          /\ \A w \in Vcpu : w # v => op'[w] = op[w] /\ pc'[w] = pc[w]
      BY <1>8, <1>t DEF MigrateQueued, BeginInject
    <2>5. \A i : InPdList(i)' => InPdList(i) /\ i # i0
      BY <2>1, UnlinkNode DEF Lists
    <2>6. HeldOnce(i0)'
      <3>1. ~InLr(i0) /\ ~Injected(i0) /\ gic[i0].active
        BY <1>h, <2>1 DEF HeldOnce
      <3>2. \A w \in Vcpu, n \in Lrs : ~Live(w, n, i0)'
        BY <2>1, <3>1 DEF InLr, Live
      <3>3. \A w \in Vcpu : InFlight(w, i0)' => w = v
        BY <2>4, <3>1 DEF Injected, InFlight
      <3> QED BY <2>3, <2>5, <3>1, <3>2, <3>3, HeldByInjection
    <2>7. ASSUME NEW i \in Spi, i # i0 PROVE HeldOnce(i)'
      <3>1. \A w \in Vcpu, n \in Lrs : Live(w, n, i)' => Live(w, n, i)
        BY <2>1 DEF Live
      <3>2. \A w \in Vcpu : InFlight(w, i)' => InFlight(w, i)
        BY <2>4, <2>7 DEF InFlight
      <3> QED BY <2>3, <2>5, <3>1, <3>2, <1>h, HeldFrame
    <2> QED BY <2>2, <2>6, <2>7 DEF Held
  <1>9. CASE HandleExit(v)
    <2>1. ~hv_vcpu_irq_cleanup(v)
      BY DEF hv_vcpu_irq_cleanup
    <2>2. Spi \subseteq Irq /\ Ppi \subseteq Priv /\ SgiN \cup Sgi0 \subseteq Priv
          /\ CanDisable \subseteq Irq /\ CanPrioritise \subseteq Irq
          /\ CanRoute \subseteq Spi
      BY VgicAssumption DEF Irq, Priv
    <2> QED
      BY <1>9, <2>1, <2>2, <1>2, <1>3, <1>4, <1>5, <1>6, <1>7, <1>8
         DEF HandleExit
  <1>10. CASE hv_vcpu_inject_virq(v)
    <2> DEFINE i0 == op[v].irq
    <2>0. UNCHANGED <<reg, pd>> /\ InFlight(v, i0)
      BY <1>10 DEF hv_vcpu_inject_virq, InFlight
    <2>1. \A w \in Vcpu, i \in Spi : InFlight(w, i)' => InFlight(w, i)
      <3>1. CASE EndInject(v)
        BY <3>1, <1>t, <1>p DEF EndInject, PcState
      <3>2. CASE UNCHANGED op /\ pc' = [pc EXCEPT ![v] = "insert"]
        BY <3>2, <2>0, <1>t DEF InFlight
      <3> QED BY <1>10, <3>1, <3>2 DEF hv_vcpu_inject_virq
    <2>2. CASE UNCHANGED gic
      BY <2>0, <2>1, <2>2, <1>f
    <2>3. CASE gic_set_icactiver({i0}) /\ EndInject(v)
      <3>1. NoActPend'
        BY <2>0 DEF NoActPend
      <3>2. ASSUME NEW i \in Spi, i = i0 PROVE HeldOnce(i)'
        <4>1. ~InLr(i) /\ ~InPdList(i)
          BY <1>h, <2>0, <3>2 DEF HeldOnce, Injected
        <4>2. \A w \in Vcpu, n \in Lrs : ~Live(w, n, i)'
          BY <2>0, <4>1 DEF InLr, Live
        <4>3. \A w \in Vcpu : InFlight(w, i)' => InFlight(w, i) /\ w # v
          BY <2>3, <1>t, <1>p DEF EndInject, PcState
        <4>4. \A w \in Vcpu : ~InFlight(w, i)'
          BY <4>3, <2>0, <3>2, <1>h DEF HeldOnce
        <4>5. ~InPdList(i)'
          BY <2>0, <4>1 DEF InPdList, Listed
        <4> QED BY <4>2, <4>4, <4>5, HeldNowhere
      <3>3. ASSUME NEW i \in Spi, i # i0 PROVE HeldOnce(i)'
        <4>1. gic'[i] = gic[i]
          BY <2>3, <3>3 DEF gic_set_icactiver
        <4>2. \A w \in Vcpu, n \in Lrs : Live(w, n, i)' => Live(w, n, i)
          BY <2>0 DEF Live
        <4>3. InPdList(i)' => InPdList(i)
          BY <2>0 DEF InPdList, Listed
        <4> QED BY <2>1, <4>1, <4>2, <4>3, <1>h, HeldFrame
      <3> QED BY <3>1, <3>2, <3>3 DEF Held
    <2> QED BY <1>10, <2>2, <2>3 DEF hv_vcpu_inject_virq
  <1>11. CASE insert_into_pdlist(v)
    <2>1. UNCHANGED <<reg, pd, gic>> /\ pc[v] = "insert"
      BY <1>11 DEF insert_into_pdlist
    <2>2. \A w \in Vcpu, i \in Spi : InFlight(w, i)' => InFlight(w, i)
      <3>1. CASE EndInject(v)
        BY <3>1, <1>t, <1>p DEF EndInject, PcState
      <3>2. CASE UNCHANGED op /\ pc' = [pc EXCEPT ![v] = "link"]
        BY <3>2, <2>1, <1>t DEF InFlight
      <3> QED BY <1>11, <3>1, <3>2 DEF insert_into_pdlist
    <2> QED BY <2>1, <2>2, <1>f
  <1>17. CASE InsertLink(v)
    <2> DEFINE i0 == op[v].irq
    <2>1. UNCHANGED <<reg, gic>> /\ InFlight(v, i0) /\ EndInject(v)
      BY <1>17 DEF InsertLink, InFlight
    <2>2. NoActPend'
      BY <2>1 DEF NoActPend
    <2>3. \A w \in Vcpu, i \in Spi : InFlight(w, i)' =>
            InFlight(w, i) /\ w # v
      BY <2>1, <1>t, <1>p DEF EndInject, PcState
    <2>4. \A j : InPdList(j)' => InPdList(j) \/ j = i0
      BY <1>17, ListLink
    <2>5. ASSUME NEW i \in Spi, i = i0 PROVE HeldOnce(i)'
      <3>1. ~InLr(i) /\ gic[i].active
        BY <1>h, <2>1, <2>5 DEF HeldOnce, Injected
      <3>2. \A w \in Vcpu, n \in Lrs : ~Live(w, n, i)'
        BY <2>1, <3>1 DEF InLr, Live
      <3>3. \A w \in Vcpu : ~InFlight(w, i)'
        BY <2>1, <2>3, <2>5, <1>h DEF HeldOnce
      <3> QED BY <2>1, <3>1, <3>2, <3>3, HeldByList
    <2>6. ASSUME NEW i \in Spi, i # i0 PROVE HeldOnce(i)'
      <3>1. \A w \in Vcpu, n \in Lrs : Live(w, n, i)' => Live(w, n, i)
        BY <2>1 DEF Live
      <3> QED BY <2>1, <2>3, <2>4, <2>6, <3>1, <1>h, HeldFrame
    <2> QED BY <2>2, <2>5, <2>6 DEF Held
  <1>18. CASE ClearUnlink(v)
    <2>1. UNCHANGED <<reg, gic>> /\ UnlinkPd(op[v].irq) /\ EndInject(v)
      BY <1>18 DEF ClearUnlink
    <2>2. NoActPend'
      BY <2>1 DEF NoActPend
    <2>3. ASSUME NEW i \in Spi PROVE HeldOnce(i)'
      <3>1. \A w \in Vcpu, n \in Lrs : Live(w, n, i)' => Live(w, n, i)
        BY <2>1 DEF Live
      <3>2. \A w \in Vcpu : InFlight(w, i)' => InFlight(w, i)
        BY <2>1, <1>t, <1>p DEF EndInject, PcState
      <3>3. InPdList(i)' => InPdList(i)
        BY <2>1, UnlinkNode DEF Lists
      <3> QED BY <2>1, <3>1, <3>2, <3>3, <1>h, HeldFrame
    <2> QED BY <2>2, <2>3 DEF Held
  <1>12. CASE hv_virq_to_lrs(v) \/ FlushNoLr(v) \/ FlushEnd(v)
    <2>1. /\ \A w \in Vcpu : w # v => op'[w] = op[w]
          /\ pc' = [pc EXCEPT ![v] = "guest"] \/ pc' = [pc EXCEPT ![v] = "flush"]
      BY <1>12, <1>t DEF hv_virq_to_lrs, FlushNoLr, FlushEnd, LoopAt
    <2>2. \A w \in Vcpu, i \in Spi : InFlight(w, i)' => InFlight(w, i)
      BY <2>1, <1>p DEF PcState
    <2> QED BY <1>12, <2>2, <1>f DEF hv_virq_to_lrs, FlushNoLr, FlushEnd
  <1>13. CASE FlushToLr(v)
    <2> DEFINE i0 == FlushIrq(v)
               n0 == vgic_get_lr(v)
    <2>1. i0 \in Irq /\ InPdList(i0) /\ pc[v] = "flush"
      BY <1>13, FlushEntry DEF FlushToLr, Lists
    <2>2. n0 \in Lrs /\ reg[v][n0].state = "invalid"
      BY <1>13, GetLrLemma DEF FlushToLr, EmptyLr
    <2>3. /\ UNCHANGED <<gic, pc>> /\ move_to_lr_lst(v)
          /\ \A w \in Vcpu : w # v => op'[w] = op[w]
          /\ vgic_write_lr(v, n0, i0)
      BY <1>13, <1>t DEF FlushToLr, move_to_lr_lst, LoopAt
    <2>4. \A w \in Vcpu, m \in Lrs :
            reg'[w][m] = IF w = v /\ m = n0
                         THEN [virq |-> i0, state |-> "pending"]
                         ELSE reg[w][m]
      BY <2>2, <2>3, <1>t DEF vgic_write_lr
    <2>5. \A j : InPdList(j)' => InPdList(j) /\ j # i0
      <3>1. \A j \in Irq : j # i0 => irq'[j].pdq = irq[j].pdq
        BY <1>13, <1>t DEF FlushToLr, IrqType
      <3> QED BY <1>13, <3>1, ListMove DEF FlushToLr
    <2> HIDE DEF i0, n0
    <2>6. NoActPend'
      BY <2>4 DEF NoActPend
    <2>7. ASSUME NEW i \in Spi, i = i0 PROVE HeldOnce(i)'
      <3>1. ~InLr(i) /\ ~Injected(i) /\ gic[i].active
        BY <1>h, <2>1, <2>7 DEF HeldOnce
      <3>2. \A w \in Vcpu, m \in Lrs : Live(w, m, i)' => w = v /\ m = n0
        BY <2>4, <3>1 DEF InLr, Live
      <3>3. \A w \in Vcpu : ~InFlight(w, i)'
        BY <2>1, <2>3, <3>1 DEF Injected, InFlight
      <3> QED BY <2>2, <2>3, <2>5, <2>7, <3>1, <3>2, <3>3, HeldByRegister
    <2>8. ASSUME NEW i \in Spi, i # i0 PROVE HeldOnce(i)'
      <3>1. \A w \in Vcpu, m \in Lrs : Live(w, m, i)' => Live(w, m, i)
        BY <2>4, <2>8 DEF Live
      <3>2. \A w \in Vcpu : InFlight(w, i)' => InFlight(w, i)
        BY <2>1, <2>3 DEF InFlight
      <3> QED BY <2>3, <2>5, <3>1, <3>2, <1>h, HeldFrame
    <2> QED BY <2>6, <2>7, <2>8 DEF Held
  <1>14. ~FlushReuse(v)
    <2> SUFFICES ASSUME FlushReuse(v) PROVE FALSE
      BY SMTT(40)
    <2>1. FlushIrq(v) \in Irq /\ ~NeedsLr(FlushIrq(v))
      BY ZenonT(40) DEF FlushReuse, Flushing, FlushIrq
    <2> QED BY <2>1 DEF NeedsLr, Hw, Irq, Priv
  <1>15. ASSUME NEW n \in Lrs, GuestAck(v, n)
         PROVE  NoActPend' /\ Held'
    <2>1. /\ UNCHANGED <<gic, pd, pc, op>>
          /\ reg[v][n].state = "pending"
          /\ \A w \in Vcpu, m \in Lrs :
               /\ reg'[w][m].virq = reg[w][m].virq
               /\ reg'[w][m].state = IF w = v /\ m = n THEN "active"
                                     ELSE reg[w][m].state
      BY <1>15, <1>t DEF GuestAck, LrType
    <2>2. NoActPend'
      BY <2>1 DEF NoActPend
    <2>3. ASSUME NEW i \in Spi PROVE HeldOnce(i)'
      <3>1. \A w \in Vcpu, m \in Lrs : Live(w, m, i)' => Live(w, m, i)
        BY <2>1 DEF Live
      <3>2. \A w \in Vcpu : InFlight(w, i)' => InFlight(w, i)
        BY <2>1 DEF InFlight
      <3>3. InPdList(i)' => InPdList(i)
        BY <2>1 DEF InPdList, Listed
      <3> QED BY <2>1, <3>1, <3>2, <3>3, <1>h, HeldFrame
    <2> QED BY <2>2, <2>3 DEF Held
  <1>16. ASSUME NEW n \in Lrs, GuestEoi(v, n)
         PROVE  NoActPend' /\ Held'
    <2> DEFINE i0 == reg[v][n].virq
    <2>1. reg[v][n].state = "active"
      BY <1>16 DEF GuestEoi, NoActPend
    <2>2. /\ UNCHANGED <<pd, pc, op>> /\ gic_set_icactiver({i0})
          /\ \A w \in Vcpu, m \in Lrs :
               /\ reg'[w][m].virq = reg[w][m].virq
               /\ reg'[w][m].state = IF w = v /\ m = n THEN "invalid"
                                     ELSE reg[w][m].state
      BY <1>16, <2>1, <1>t DEF GuestEoi, LrType
    <2>3. NoActPend'
      BY <2>2 DEF NoActPend
    <2>4. ASSUME NEW i \in Spi, i = i0 PROVE HeldOnce(i)'
      <3>1. Live(v, n, i) /\ InLr(i)
        BY <2>1, <2>4 DEF Live, InLr
      <3>2. ~InPdList(i) /\ ~Injected(i)
            /\ \A w \in Vcpu, m \in Lrs : Live(w, m, i) => w = v /\ m = n
        BY <3>1, <1>h DEF HeldOnce
      <3>3. \A w \in Vcpu, m \in Lrs : ~Live(w, m, i)'
        BY <2>2, <3>2 DEF Live
      <3>4. \A w \in Vcpu : ~InFlight(w, i)'
        BY <2>2, <3>2 DEF Injected, InFlight
      <3>5. ~InPdList(i)'
        BY <2>2, <3>2 DEF InPdList, Listed
      <3> QED BY <3>3, <3>4, <3>5, HeldNowhere
    <2>5. ASSUME NEW i \in Spi, i # i0 PROVE HeldOnce(i)'
      <3>1. gic'[i] = gic[i]
        BY <2>2, <2>5 DEF gic_set_icactiver
      <3>2. \A w \in Vcpu, m \in Lrs : Live(w, m, i)' => Live(w, m, i)
        BY <2>2 DEF Live
      <3>3. \A w \in Vcpu : InFlight(w, i)' => InFlight(w, i)
        BY <2>2 DEF InFlight
      <3>4. InPdList(i)' => InPdList(i)
        BY <2>2 DEF InPdList, Listed
      <3> QED BY <3>1, <3>2, <3>3, <3>4, <1>h, HeldFrame
    <2> QED BY <2>3, <2>4, <2>5 DEF Held
  <1> QED
    BY <1>1, <1>2, <1>9, <1>10, <1>11, <1>12, <1>13, <1>14, <1>15, <1>16,
       <1>17, <1>18

\* At start no interrupt is held anywhere and every list register is empty.
LEMMA InitDevice == Init => NoActPend /\ Held
  <1> SUFFICES ASSUME Init PROVE NoActPend /\ Held
    OBVIOUS
  <1>1. \A v \in Vcpu, n \in Lrs : reg[v][n].state = "invalid"
    BY DEF Init, ZeroLr
  <1>2. \A v \in Vcpu : pc[v] = "guest" /\ 1 .. Len(pd[v]) = {}
    BY DEF Init
  <1>3. \A i : ~InLr(i) /\ ~Injected(i) /\ ~InPdList(i)
               /\ \A v \in Vcpu : ~InFlight(v, i) /\ \A n \in Lrs : ~Live(v, n, i)
    BY <1>1, <1>2 DEF InLr, Live, Injected, InFlight, InPdList, Listed
  <1> QED BY <1>1, <1>3 DEF NoActPend, Held, HeldOnce

\* For any number of vcpus, device interrupts, private interrupts but SGI 0 and
\* list registers, whatever the guest routes, disables or prioritises: until an
\* unlocked access meets a critical section of the list it changes, a device
\* interrupt is in one list register, on one pending list or in one injection
\* at a time, and is physically active while it is (hv_inject_virq,
\* hv_migrate_virq and hv_flush_queued_virqs of hv_vgic.c).
THEOREM DeviceInterruptExclusive ==
  ASSUME Sgi0 = {}, CanPowerOff = {}
  PROVE  Spec => []DeviceExclusive
  <1>1. Init => DeviceInv
    BY InitDevice, InitLists DEF DeviceInv
  <1>2. DeviceInv /\ [Next]_vars => DeviceInv'
    <2> SUFFICES ASSUME DeviceInv, [Next]_vars PROVE DeviceInv'
      OBVIOUS
    <2>1. TypeOK' /\ ListInv'
      BY NextType, NextLists DEF DeviceInv, ListInv
    <2>2. ASSUME ~raced' PROVE NoActPend' /\ Held'
      <3>1. TypeOK /\ Lists /\ NoActPend /\ Held
        BY <2>2, RacedStays DEF DeviceInv, ListInv
      <3>2. CASE UNCHANGED vars
        BY <3>1, <3>2
           DEF vars, NoActPend, Held, HeldOnce, Live, InLr, InFlight,
               Injected, InPdList, Listed
      <3>3. CASE Next
        BY <2>1, <2>2, <3>1, <3>3, NextDevice
      <3> QED BY <3>2, <3>3
    <2> QED BY <2>1, <2>2 DEF DeviceInv
  <1>3. DeviceInv => DeviceExclusive
    BY DEF DeviceInv, Held, DeviceExclusive
  <1> QED BY <1>1, <1>2, <1>3, PTL DEF Spec

-----------------------------------------------------------------------------
(***************************************************************************)
(* The flush loop never leaves a hardware interrupt behind without asking  *)
(* for the underflow interrupt.                                            *)
(***************************************************************************)

\* Only two steps leave the flush loop: one arms the underflow interrupt, the
\* other is at the end of the list, past no hardware interrupt.
LEMMA NextArmed == ListInv /\ [Next]_vars => [ArmedStep]_vars
  <1> SUFFICES ASSUME TypeOK, ~raced => Lists, Next,
                      NEW w \in Vcpu, ~raced, pc[w] = "flush",
                      pc'[w] = "guest",
                      \E k \in 1 .. Len(pd'[w]) : Hw(pd'[w][k])
               PROVE  uie'[w]
    BY DEF ListInv, ArmedStep
  <1>t. pc \in [Vcpu -> PcState] /\ uie \in [Vcpu -> BOOLEAN]
        /\ op \in [Vcpu -> OpType]
    BY DEF TypeOK
  <1> SUFFICES ASSUME NEW v \in Vcpu,
        \/ GuestExit(v) \/ HandleExit(v) \/ hv_vcpu_inject_virq(v)
        \/ insert_into_pdlist(v) \/ InsertLink(v) \/ ClearUnlink(v)
        \/ hv_poweroff_current(v)
        \/ hv_virq_to_lrs(v) \/ FlushNoLr(v) \/ FlushToLr(v)
        \/ FlushReuse(v) \/ FlushEnd(v)
        \/ \E n \in Lrs : GuestAck(v, n) \/ GuestEoi(v, n)
      PROVE uie'[w]
    BY DEF Next
  <1>1. CASE FlushNoLr(v)
    <2>1. v = w
      BY <1>1, <1>t DEF FlushNoLr
    <2> QED BY <1>1, <2>1, <1>t DEF FlushNoLr
  <1>2. ~FlushEnd(v)
    <2> SUFFICES ASSUME FlushEnd(v) PROVE FALSE
      OBVIOUS
    <2>1. v = w /\ op[v].irq = NoIrq /\ pd' = pd
      BY <1>t DEF FlushEnd
    <2>2. NoHw(v, Len(pd[v]) + 1)
      <3>1. FlushAt(v) /\ pc[v] = "flush"
        BY <2>1 DEF Lists, Flushes
      <3>2. ASSUME NEW k \in 1 .. Len(pd[v]), AtEntry(v, k) PROVE FALSE
        <4>1. op[v].irq \in Irq
          BY <3>2, ElementOfSeq DEF AtEntry, TypeOK
        <4> QED BY <2>1, <4>1, VgicAssumption
      <3> QED BY <3>1, <3>2 DEF FlushAt
    <2>3. Len(pd[v]) \in Nat
      BY LenProperties DEF TypeOK
    <2> QED BY <2>1, <2>2, <2>3 DEF NoHw
  <1>3. ASSUME pc[v] # "flush", NEW q, pc' = [pc EXCEPT ![v] = q] PROVE FALSE
    BY <1>3, <1>t
  <1>4. ASSUME UNCHANGED pc PROVE FALSE
    BY <1>4
  <1>5. ~GuestExit(v) /\ ~hv_poweroff_current(v) /\ ~InsertLink(v)
        /\ ~ClearUnlink(v)
    BY <1>3 DEF GuestExit, hv_poweroff_current, InsertLink, ClearUnlink,
                EndInject
  <1>6. ~HandleExit(v)
    <2>1. \A i : ~DeviceIrq(v, i) /\ ~PrivateIrq(v, i) /\ ~GuestSgi(v, i)
      BY <1>3 DEF DeviceIrq, PrivateIrq, GuestSgi, BeginInject
    <2>2. \A i : ~GuestEnable(v, i) /\ ~GuestSetPriority(v, i)
      BY <1>3 DEF GuestEnable, GuestSetPriority
    <2>3. \A i : ~GuestDisable(v, i) /\ ~GuestClearPending(v, i)
      BY <1>3 DEF GuestDisable, GuestClearPending, hv_virq_cpending
    <2>4. \A i, r : /\ ~MigrateRefused(v, i, r) /\ ~MigrateNow(v, i, r)
                    /\ ~MigrateLater(v, i, r) /\ ~MigrateQueued(v, i, r)
                    /\ ~MigrateNothing(v, i, r)
      BY <1>3 DEF MigrateRefused, MigrateNow, MigrateLater, MigrateQueued,
                  MigrateNothing, RouteWrite, BeginInject
    <2>5. ~OtherExit(v) /\ ~hv_vcpu_irq_cleanup(v)
      BY <1>3 DEF OtherExit, hv_vcpu_irq_cleanup
    <2> QED BY <2>1, <2>2, <2>3, <2>4, <2>5 DEF HandleExit
  <1>7. ~hv_vcpu_inject_virq(v) /\ ~insert_into_pdlist(v)
    BY <1>3 DEF hv_vcpu_inject_virq, insert_into_pdlist, EndInject
  <1>8. ~hv_virq_to_lrs(v)
    BY <1>3 DEF hv_virq_to_lrs
  <1>9. ~FlushToLr(v) /\ ~FlushReuse(v)
    BY <1>4 DEF FlushToLr, FlushReuse
  <1>10. \A n \in Lrs : ~GuestAck(v, n) /\ ~GuestEoi(v, n)
    BY <1>4 DEF GuestAck, GuestEoi
  <1> QED BY <1>1, <1>2, <1>5, <1>6, <1>7, <1>8, <1>9, <1>10

\* For any number of vcpus, interrupts and list registers: until an unlocked
\* access meets the flush, hv_flush_queued_virqs that returns to the guest with
\* a hardware interrupt still on the pending list has turned the underflow
\* interrupt on.
THEOREM FlushArmed == Spec => LeftoverArmed
  <1>1. Spec => []ListInv /\ [][Next]_vars
    BY ListsInvariant, PTL DEF Spec
  <1> QED BY <1>1, NextArmed, PTL DEF LeftoverArmed
=============================================================================
