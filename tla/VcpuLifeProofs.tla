--------------------------- MODULE VcpuLifeProofs ---------------------------
(***************************************************************************)
(* For every number of vcpus, every pinning and every use of the machine:  *)
(* the scheduler's lists stay sound, and current_vcpu() is exact.  For     *)
(* every number of vcpus, every pinning and every orderly use: no          *)
(* assertion fails, and a vcpu that is off stays out of its guest.         *)
(***************************************************************************)
EXTENDS VcpuLife, SequenceTheorems, TLAPS

-----------------------------------------------------------------------------
(* A list with an entry taken out                                          *)

\* What list_delete of the k-th entry leaves.
LEMMA RemoveAtLemma ==
  ASSUME NEW S, NEW s \in Seq(S), NEW k \in 1 .. Len(s)
  PROVE  /\ RemoveAt(s, k) \in Seq(S)
         /\ Len(RemoveAt(s, k)) = Len(s) - 1
         /\ \A j \in 1 .. (Len(s) - 1) :
              RemoveAt(s, k)[j] = IF j < k THEN s[j] ELSE s[j + 1]
  <1> DEFINE a == SubSeq(s, 1, k - 1)
             b == SubSeq(s, k + 1, Len(s))
  <1>0. Len(s) \in Nat /\ \A j \in 1 .. Len(s) : s[j] \in S
    BY LenProperties, ElementOfSeq
  <1>1. /\ a \in Seq(S) /\ Len(a) = k - 1
        /\ \A j \in 1 .. (k - 1) : a[j] = s[j]
    BY <1>0, SubSeqProperties
  <1>2. /\ b \in Seq(S) /\ Len(b) = Len(s) - k
        /\ \A j \in 1 .. (Len(s) - k) : b[j] = s[k + j]
    BY <1>0, SubSeqProperties
  <1>3. /\ a \o b \in Seq(S) /\ Len(a \o b) = Len(a) + Len(b)
        /\ \A j \in 1 .. Len(a) + Len(b) :
             (a \o b)[j] = IF j <= Len(a) THEN a[j] ELSE b[j - Len(a)]
    BY <1>1, <1>2, ConcatProperties
  <1> HIDE DEF a, b
  <1>4. \A j \in 1 .. (Len(s) - 1) :
          (a \o b)[j] = IF j < k THEN s[j] ELSE s[j + 1]
    <2> TAKE j \in 1 .. (Len(s) - 1)
    <2>1. CASE j < k
      BY <2>1, <1>0, <1>1, <1>2, <1>3
    <2>2. CASE ~(j < k)
      <3>1. j - Len(a) \in 1 .. (Len(s) - k) /\ j \in 1 .. Len(a) + Len(b)
        BY <2>2, <1>0, <1>1, <1>2
      <3>2. (a \o b)[j] = b[j - Len(a)]
        BY <2>2, <3>1, <1>0, <1>1, <1>3, SMTT(40)
      <3>3. b[j - Len(a)] = s[k + (j - Len(a))] /\ k + (j - Len(a)) = j + 1
        BY <3>1, <1>0, <1>1, <1>2
      <3> QED BY <2>2, <3>2, <3>3
    <2> QED BY <2>1, <2>2
  <1>5. RemoveAt(s, k) = a \o b
    BY Zenon DEF RemoveAt, a, b
  <1>6. Len(a \o b) = Len(s) - 1
    BY <1>0, <1>1, <1>2, <1>3
  <1> QED
    BY <1>3, <1>4, <1>5, <1>6

-----------------------------------------------------------------------------
(* The invariant                                                           *)

\* A suspended thread is not running: thread_reset is kept from the stack of
\* a current thread, so thread_resume never queues one.
SuspendedElsewhere ==
  \A v \in Vcpu : thread[v] = "suspended" => cur[Pin[v]] # v

\* vcpu_switch_to finds a vcpu initialised that has been in its guest.
GuestInited == \A v \in Vcpu : at[v] = "guest" => inited[v]

\* hv_vcpu_poweroff has callers other than the console, and stops a thread
\* only on its own cpu.
PoweroffLocal ==
  \A c \in Cpu :
    /\ pc[c] \in {"off", "stop"} => op[c].from # "console"
    /\ pc[c] = "stop" => Pin[op[c].v] = c

\* What the steps preserve together.
IInv ==
  /\ TypeOK /\ QueueSound /\ SuspendedElsewhere
  /\ GuestInited /\ CurrentVcpuExact /\ PoweroffLocal

-----------------------------------------------------------------------------
(* The run queue, when a thread is switched to.                            *)

\* The queue q of cpu c holds threads pinned to c, each once.
GoodQueue(c, q) ==
  \A k \in 1 .. Len(q) :
    Pin[q[k]] = c /\ \A l \in 1 .. Len(q) : q[k] = q[l] => k = l

\* What get_top_thread leaves of a queue.
LEMMA TailFacts ==
  ASSUME NEW q \in Seq(Vcpu), q # <<>>
  PROVE  /\ Len(q) \in Nat /\ Len(q) >= 1
         /\ Head(q) = q[1] /\ Head(q) \in Vcpu
         /\ Tail(q) \in Seq(Vcpu) /\ Len(Tail(q)) = Len(q) - 1
         /\ \A k \in 1 .. (Len(q) - 1) : Tail(q)[k] = q[k + 1]
  <1>1. Len(q) \in Nat /\ Len(q) >= 1 /\ \A j \in 1 .. Len(q) : q[j] \in Vcpu
    BY EmptySeq, LenProperties, ElementOfSeq
  <1>2. /\ Head(q) = q[1] /\ Tail(q) \in Seq(Vcpu)
        /\ Len(Tail(q)) = Len(q) - 1
        /\ \A k \in 1 .. Len(Tail(q)) : Tail(q)[k] = q[k + 1]
    BY <1>1, HeadTailProperties
  <1> QED BY <1>1, <1>2

\* The thread that thread_resched leaves is not running, and every ready
\* thread of the cpu is on the queue q: then the scheduler is sound again.
LEMMA ReschedSound ==
  ASSUME VcpuLifeAssumption, TypeOK, QueueSound, SuspendedElsewhere,
         NEW c \in Cpu, NEW th \in [Vcpu -> Thread], NEW q \in Seq(Vcpu),
         GoodQueue(c, q),
         \A v \in Vcpu : Pin[v] # c => th[v] = thread[v],
         \A v \in Vcpu : Pin[v] = c /\ th[v] = "ready" =>
                           \E k \in 1 .. Len(q) : q[k] = v,
         \A v \in Vcpu : Pin[v] = c => th[v] # "running",
         thread_resched(c, th, q)
  PROVE  /\ rq' \in [Cpu -> Seq(Vcpu)]
         /\ thread' \in [Vcpu -> Thread]
         /\ cur' \in [Cpu -> Vcpu \cup {Host}]
         /\ here' \in [Cpu -> Vcpu \cup {Host}]
         /\ QueueSound' /\ SuspendedElsewhere'
  <1> USE DEF VcpuLifeAssumption
  <1>1. CASE q = <<>>
    <2>1. /\ rq' = [rq EXCEPT ![c] = q] /\ thread' = th
          /\ cur' = [cur EXCEPT ![c] = Host] /\ here' = here
      BY <1>1 DEF thread_resched, TypeOK
    <2>2. Len(q) = 0
      BY <1>1
    <2>3. \A v \in Vcpu : Host # v
      BY DEF Host, Vcpu
    <2>4. QueueSound'
      <3>1. /\ rq'[c] = q /\ cur'[c] = Host
            /\ \A d \in Cpu : d # c => rq'[d] = rq[d] /\ cur'[d] = cur[d]
        BY <2>1 DEF TypeOK
      <3>2. \A d \in Cpu : \A k \in 1 .. Len(rq'[d]) :
              /\ Pin[rq'[d][k]] = d /\ rq'[d][k] # cur'[d]
              /\ \A l \in 1 .. Len(rq'[d]) : rq'[d][k] = rq'[d][l] => k = l
        BY <2>2, <3>1 DEF QueueSound
      <3>3. \A d \in Cpu : cur'[d] # Host => Pin[cur'[d]] = d
        BY <3>1 DEF QueueSound
      <3>4. \A v \in Vcpu : thread'[v] = "ready" => Queued(v)'
        <4> SUFFICES ASSUME NEW v \in Vcpu, thread'[v] = "ready"
                     PROVE  Queued(v)'
          OBVIOUS
        <4>1. Pin[v] # c /\ thread[v] = "ready" /\ Pin[v] \in Cpu
          BY <2>1, <2>2
        <4> QED BY <4>1, <3>1 DEF QueueSound, Queued
      <3>5. \A v \in Vcpu : thread'[v] = "running" => cur'[Pin[v]] = v
        BY <2>1, <3>1 DEF QueueSound
      <3> QED BY <3>2, <3>3, <3>4, <3>5 DEF QueueSound
    <2>5. SuspendedElsewhere'
      BY <2>1, <2>3 DEF SuspendedElsewhere, TypeOK
    <2> QED BY <2>1, <2>4, <2>5 DEF TypeOK
  <1>2. CASE q # <<>>
    <2> DEFINE n == Head(q)
    <2>1. /\ Len(q) \in Nat /\ Len(q) >= 1 /\ n = q[1] /\ n \in Vcpu
          /\ Tail(q) \in Seq(Vcpu) /\ Len(Tail(q)) = Len(q) - 1
          /\ \A k \in 1 .. (Len(q) - 1) : Tail(q)[k] = q[k + 1]
      BY <1>2, TailFacts
    <2>2. n # Host /\ Pin[n] = c
      BY <2>1 DEF Host, Vcpu, GoodQueue
    <2>3. /\ rq' = [rq EXCEPT ![c] = Tail(q)]
          /\ thread' = [th EXCEPT ![n] = "running"]
          /\ cur' = [cur EXCEPT ![c] = n]
          /\ here' = [here EXCEPT ![c] =
                        IF n # Host /\ n # cur[c] /\ inited[n] THEN n ELSE @]
      BY <1>2, <2>2 DEF thread_resched
    <2> HIDE DEF n
    <2>4. /\ rq' \in [Cpu -> Seq(Vcpu)] /\ thread' \in [Vcpu -> Thread]
          /\ cur' \in [Cpu -> Vcpu \cup {Host}]
          /\ here' \in [Cpu -> Vcpu \cup {Host}]
      BY <2>1, <2>3 DEF TypeOK, Thread
    <2>5. ASSUME NEW d \in Cpu, NEW k \in 1 .. Len(rq'[d])
          PROVE  /\ Pin[rq'[d][k]] = d /\ rq'[d][k] # cur'[d]
                 /\ \A l \in 1 .. Len(rq'[d]) : rq'[d][k] = rq'[d][l] => k = l
      <3>1. CASE d = c
        <4>1. rq'[d] = Tail(q) /\ cur'[d] = n
          BY <3>1, <2>3 DEF TypeOK
        <4>2. k \in 1 .. (Len(q) - 1)
          BY <4>1, <2>1, <2>5
        <4>3. k + 1 \in 1 .. Len(q) /\ 1 \in 1 .. Len(q) /\ k + 1 # 1
          BY <4>2, <2>1
        <4>4. Pin[q[k + 1]] = c /\ q[k + 1] # q[1]
          BY <4>3 DEF GoodQueue
        <4>5. \A l \in 1 .. (Len(q) - 1) : q[k + 1] = q[l + 1] => k = l
          <5> TAKE l \in 1 .. (Len(q) - 1)
          <5>1. l + 1 \in 1 .. Len(q)
            BY <2>1
          <5>2. q[k + 1] = q[l + 1] => k + 1 = l + 1
            BY <5>1, <4>3 DEF GoodQueue
          <5> QED BY <5>2, <4>2
        <4> QED BY <3>1, <4>1, <4>2, <4>4, <4>5, <2>1
      <3>2. CASE d # c
        BY <3>2, <2>3, <2>5 DEF QueueSound, TypeOK
      <3> QED BY <3>1, <3>2
    <2>6. \A d \in Cpu : cur'[d] # Host => Pin[cur'[d]] = d
      BY <2>2, <2>3 DEF QueueSound, TypeOK
    <2>7. ASSUME NEW v \in Vcpu, thread'[v] = "ready" PROVE Queued(v)'
      <3>1. v # n /\ th[v] = "ready"
        BY <2>7, <2>1, <2>3
      <3>2. CASE Pin[v] = c
        <4>1. PICK k \in 1 .. Len(q) : q[k] = v
          BY <3>1, <3>2
        <4>2. k # 1 /\ k - 1 \in 1 .. (Len(q) - 1)
          BY <4>1, <3>1, <2>1
        <4>3. Tail(q)[k - 1] = v /\ rq'[c] = Tail(q)
          BY <4>1, <4>2, <2>1, <2>3 DEF TypeOK
        <4> QED BY <4>2, <4>3, <3>2, <2>1 DEF Queued
      <3>3. CASE Pin[v] # c
        <4>1. thread[v] = "ready" /\ rq'[Pin[v]] = rq[Pin[v]]
          BY <3>1, <3>3, <2>3 DEF TypeOK
        <4> QED BY <4>1 DEF QueueSound, Queued
      <3> QED BY <3>2, <3>3
    <2>8. \A v \in Vcpu : thread'[v] = "running" => cur'[Pin[v]] = v
      BY <2>1, <2>2, <2>3 DEF QueueSound, TypeOK
    <2>9. SuspendedElsewhere'
      <3> SUFFICES ASSUME NEW v \in Vcpu, thread'[v] = "suspended"
                   PROVE  cur'[Pin[v]] # v
        BY DEF SuspendedElsewhere
      <3>1. v # n /\ th[v] = "suspended"
        BY <2>1, <2>3
      <3> QED BY <3>1, <2>2, <2>3 DEF SuspendedElsewhere, TypeOK
    <2>10. QueueSound'
      BY <2>5, <2>6, <2>7, <2>8 DEF QueueSound
    <2> QED BY <2>4, <2>9, <2>10
  <1> QED BY <1>1, <1>2

\* vcpu_switch_to makes the vcpu of the new thread current, if it has been
\* in its guest.
LEMMA ReschedExact ==
  ASSUME VcpuLifeAssumption, TypeOK, GuestInited, CurrentVcpuExact,
         NEW c \in Cpu, NEW th, NEW q \in Seq(Vcpu),
         thread_resched(c, th, q), at' = at, inited' = inited
  PROVE  GuestInited' /\ CurrentVcpuExact'
  <1> DEFINE n == IF q = <<>> THEN Host ELSE Head(q)
  <1>1. n \in Vcpu \cup {Host}
    BY TailFacts
  <1>2. /\ cur' = [cur EXCEPT ![c] = n]
        /\ here' = [here EXCEPT ![c] =
                      IF n # Host /\ n # cur[c] /\ inited[n] THEN n ELSE @]
    BY DEF thread_resched
  <1> HIDE DEF n
  <1>3. CurrentVcpuExact'
    BY <1>1, <1>2 DEF CurrentVcpuExact, GuestInited, TypeOK
  <1> QED BY <1>3 DEF GuestInited

\* thread_preempt requeues the current thread, or changes nothing.
LEMMA PreemptSound ==
  ASSUME VcpuLifeAssumption, IInv, NEW c \in Cpu, NEW tail \in BOOLEAN,
         thread_preempt(c, tail), at' = at, inited' = inited
  PROVE  /\ rq' \in [Cpu -> Seq(Vcpu)]
         /\ thread' \in [Vcpu -> Thread]
         /\ cur' \in [Cpu -> Vcpu \cup {Host}]
         /\ here' \in [Cpu -> Vcpu \cup {Host}]
         /\ fault' \in Fault /\ usage' = usage
         /\ QueueSound' /\ SuspendedElsewhere'
         /\ GuestInited' /\ CurrentVcpuExact'
  <1> DEFINE v == cur[c]
  <1>0. /\ rq[c] \in Seq(Vcpu) /\ thread \in [Vcpu -> Thread]
        /\ fault \in Fault /\ v \in Vcpu \cup {Host}
        /\ \A w \in Vcpu : w # Host
    BY DEF IInv, TypeOK, Host, Vcpu
  <1>1. CASE /\ v = Host
             /\ thread_resched(c, thread, rq[c]) /\ Goes
    <2>1. GoodQueue(c, rq[c])
      BY DEF IInv, QueueSound, GoodQueue
    <2>2. /\ \A w \in Vcpu : Pin[w] = c /\ thread[w] = "ready" =>
                               \E k \in 1 .. Len(rq[c]) : rq[c][k] = w
          /\ \A w \in Vcpu : Pin[w] = c => thread[w] # "running"
      BY <1>0, <1>1 DEF IInv, QueueSound, Queued
    <2> QED
      BY <1>0, <1>1, <2>1, <2>2, ReschedSound, ReschedExact DEF IInv, Goes
  <1>2. CASE /\ v # Host /\ thread[v] = "running" /\ ~Queued(v)
             /\ thread_resched(c, [thread EXCEPT ![v] = "ready"],
                               IF tail THEN Append(rq[c], v)
                               ELSE <<v>> \o rq[c])
             /\ Goes
    <2> DEFINE th == [thread EXCEPT ![v] = "ready"]
               q  == IF tail THEN Append(rq[c], v) ELSE <<v>> \o rq[c]
               m  == Len(rq[c])
    <2>1. v \in Vcpu /\ Pin[v] = c /\ th \in [Vcpu -> Thread]
      BY <1>0, <1>2 DEF IInv, QueueSound, Thread
    <2>2. /\ q \in Seq(Vcpu) /\ m \in Nat /\ Len(q) = m + 1
          /\ tail => \A k \in 1 .. m + 1 :
                       q[k] = IF k <= m THEN rq[c][k] ELSE v
          /\ ~tail => \A k \in 1 .. m + 1 :
                        q[k] = IF k = 1 THEN v ELSE rq[c][k - 1]
      BY <1>0, <2>1
    <2>3. \A k \in 1 .. m : /\ Pin[rq[c][k]] = c /\ rq[c][k] # v
                            /\ \A l \in 1 .. m : rq[c][k] = rq[c][l] => k = l
      BY DEF IInv, QueueSound
    <2> HIDE DEF q
    <2>4. GoodQueue(c, q)
      <3>1. CASE tail
        <4>1. /\ q[m + 1] = v
              /\ \A k \in 1 .. m + 1 :
                   k # m + 1 => q[k] = rq[c][k] /\ k \in 1 .. m
          BY <3>1, <2>2
        <4> SUFFICES ASSUME NEW k \in 1 .. m + 1
                     PROVE  /\ Pin[q[k]] = c
                            /\ \A l \in 1 .. m + 1 : q[k] = q[l] => k = l
          BY <2>2 DEF GoodQueue
        <4>2. Pin[q[k]] = c
          BY <4>1, <2>1, <2>3
        <4>3. ASSUME NEW l \in 1 .. m + 1, q[k] = q[l] PROVE k = l
          <5>1. CASE k = m + 1 \/ l = m + 1
            BY <5>1, <4>1, <4>3, <2>3
          <5>2. CASE k # m + 1 /\ l # m + 1
            BY <5>2, <4>1, <4>3, <2>3
          <5> QED BY <5>1, <5>2
        <4> QED BY <4>2, <4>3
      <3>2. CASE ~tail
        <4>1. /\ q[1] = v
              /\ \A k \in 1 .. m + 1 :
                   k # 1 => q[k] = rq[c][k - 1] /\ k - 1 \in 1 .. m
          BY <3>2, <2>2
        <4> SUFFICES ASSUME NEW k \in 1 .. m + 1
                     PROVE  /\ Pin[q[k]] = c
                            /\ \A l \in 1 .. m + 1 : q[k] = q[l] => k = l
          BY <2>2 DEF GoodQueue
        <4>2. Pin[q[k]] = c
          BY <4>1, <2>1, <2>3
        <4>3. ASSUME NEW l \in 1 .. m + 1, q[k] = q[l] PROVE k = l
          <5>1. CASE k = 1 \/ l = 1
            BY <5>1, <4>1, <4>3, <2>3
          <5>2. CASE k # 1 /\ l # 1
            <6>1. k - 1 = l - 1
              BY <5>2, <4>1, <4>3, <2>3
            <6> QED BY <6>1
          <5> QED BY <5>1, <5>2
        <4> QED BY <4>2, <4>3
      <3> QED BY <3>1, <3>2
    <2>5. ASSUME NEW w \in Vcpu, Pin[w] = c, th[w] = "ready"
          PROVE  \E k \in 1 .. Len(q) : q[k] = w
      <3>1. CASE w = v
        <4>1. q[IF tail THEN m + 1 ELSE 1] = v
          BY <2>2
        <4> QED BY <4>1, <3>1, <2>2
      <3>2. CASE w # v
        <4>1. PICK k \in 1 .. m : rq[c][k] = w
          BY <3>2, <2>5, <1>0 DEF IInv, QueueSound, Queued
        <4>2. CASE tail
          BY <4>1, <4>2, <2>2
        <4>3. CASE ~tail
          <5>1. k + 1 \in 1 .. m + 1 /\ k + 1 # 1 /\ (k + 1) - 1 = k
            BY <2>2
          <5> QED BY <5>1, <4>1, <4>3, <2>2
        <4> QED BY <4>2, <4>3
      <3> QED BY <3>1, <3>2
    <2>6. \A w \in Vcpu : Pin[w] = c => th[w] # "running"
      BY <1>0 DEF IInv, QueueSound
    <2>7. thread_resched(c, th, q)
      BY <1>2 DEF q
    <2>8. \A w \in Vcpu : Pin[w] # c => th[w] = thread[w]
      BY <2>1, <1>0
    <2> HIDE DEF th
    <2> QED
      BY <1>0, <1>2, <2>1, <2>2, <2>4, <2>5, <2>6, <2>7, <2>8,
         ReschedSound, ReschedExact DEF IInv, Goes
  <1>3. CASE \E f \in Fault : Fails(f) /\ UNCHANGED <<rq, thread, cur, here>>
    BY <1>3, SMTT(40) DEF IInv, TypeOK, Fails, QueueSound, SuspendedElsewhere, Queued,
                GuestInited, CurrentVcpuExact
  <1> QED BY <1>1, <1>2, <1>3 DEF thread_preempt, Fault
-----------------------------------------------------------------------------
(* The steps that change the scheduler's state themselves.                 *)

\* thread_resume puts a suspended thread at the head of its cpu's queue.
LEMMA ResumeSound ==
  ASSUME VcpuLifeAssumption, IInv, NEW c \in Cpu, thread_resume(c)
  PROVE  /\ rq' \in [Cpu -> Seq(Vcpu)] /\ thread' \in [Vcpu -> Thread]
         /\ QueueSound' /\ SuspendedElsewhere'
  <1> USE DEF VcpuLifeAssumption
  <1> DEFINE v == op[c].v
             p == Pin[v]
             m == Len(rq[p])
  <1>0. /\ v \in Vcpu /\ p \in Cpu /\ rq[p] \in Seq(Vcpu) /\ m \in Nat
        /\ UNCHANGED cur
    <2>1. v \in Vcpu
      BY DEF IInv, TypeOK, OpType
    <2>2. p \in Cpu /\ rq[p] \in Seq(Vcpu)
      BY <2>1, SMTT(40) DEF IInv, TypeOK
    <2>3. UNCHANGED cur
      BY DEF thread_resume
    <2> QED BY <2>1, <2>2, <2>3, LenProperties
  <1>1. CASE UNCHANGED <<thread, rq>>
    <2>1. /\ rq' \in [Cpu -> Seq(Vcpu)] /\ thread' \in [Vcpu -> Thread]
          /\ SuspendedElsewhere'
      BY <1>0, <1>1 DEF IInv, TypeOK, SuspendedElsewhere
    <2>2. QueueSound'
      BY <1>0, <1>1 DEF IInv, QueueSound, Queued
    <2> QED BY <2>1, <2>2
  <1>2. CASE /\ thread[v] = "suspended" /\ ~Queued(v)
             /\ thread' = [thread EXCEPT ![v] = "ready"]
             /\ rq' = [rq EXCEPT ![p] = <<v>> \o @]
    <2>1. /\ rq'[p] \in Seq(Vcpu) /\ Len(rq'[p]) = m + 1 /\ rq'[p][1] = v
          /\ \A k \in 1 .. m + 1 :
               k # 1 => rq'[p][k] = rq[p][k - 1] /\ k - 1 \in 1 .. m
          /\ \A d \in Cpu : d # p => rq'[d] = rq[d]
      BY <1>0, <1>2 DEF IInv, TypeOK
    <2>2. /\ rq' \in [Cpu -> Seq(Vcpu)] /\ thread' \in [Vcpu -> Thread]
      BY <1>0, <1>2, <2>1 DEF IInv, TypeOK, Thread
    <2>3. /\ \A k \in 1 .. m : /\ Pin[rq[p][k]] = p /\ rq[p][k] # cur[p]
                               /\ rq[p][k] # v
                               /\ \A l \in 1 .. m :
                                    rq[p][k] = rq[p][l] => k = l
          /\ cur[p] # v
      <3>1. \A k \in 1 .. m : rq[p][k] # v
        BY <1>2 DEF Queued
      <3>2. cur[p] # v
        BY <1>0, <1>2 DEF IInv, SuspendedElsewhere
      <3> HIDE DEF p, v
      <3> QED BY <1>0, <3>1, <3>2, SMTT(40) DEF IInv, QueueSound
    <2> HIDE DEF m, p
    <2>4. ASSUME NEW k \in 1 .. m + 1
          PROVE  /\ Pin[rq'[p][k]] = p /\ rq'[p][k] # cur[p]
                 /\ \A l \in 1 .. m + 1 : rq'[p][k] = rq'[p][l] => k = l
      <3>1. Pin[rq'[p][k]] = p /\ rq'[p][k] # cur[p]
        <4>1. CASE k = 1
          BY <4>1, <1>0, <2>1, <2>3 DEF p
        <4>2. CASE k # 1
          BY <4>2, <2>1, <2>3
        <4> QED BY <4>1, <4>2, SMTT(40)
      <3>2. ASSUME NEW l \in 1 .. m + 1, rq'[p][k] = rq'[p][l] PROVE k = l
        <4>1. CASE k = 1 \/ l = 1
          BY <4>1, <3>2, <2>1, <2>3
        <4>2. CASE k # 1 /\ l # 1
          <5>1. k - 1 = l - 1
            BY <4>2, <3>2, <2>1, <2>3
          <5> QED BY <5>1, <1>0
        <4> QED BY <4>1, <4>2
      <3> QED BY <3>1, <3>2
    <2>5. \A d \in Cpu : \A k \in 1 .. Len(rq'[d]) :
            /\ Pin[rq'[d][k]] = d /\ rq'[d][k] # cur'[d]
            /\ \A l \in 1 .. Len(rq'[d]) : rq'[d][k] = rq'[d][l] => k = l
      <3> SUFFICES ASSUME NEW d \in Cpu
                   PROVE  \A k \in 1 .. Len(rq'[d]) :
            /\ Pin[rq'[d][k]] = d /\ rq'[d][k] # cur'[d]
            /\ \A l \in 1 .. Len(rq'[d]) : rq'[d][k] = rq'[d][l] => k = l
        OBVIOUS
      <3>1. CASE d = p
        BY <3>1, <2>1, <2>4, <1>0
      <3>2. CASE d # p
        BY <3>2, <2>1, <1>0 DEF IInv, QueueSound
      <3> QED BY <3>1, <3>2
    <2>6. ASSUME NEW w \in Vcpu, thread'[w] = "ready" PROVE Queued(w)'
      <3>1. CASE w = v
        BY <3>1, <2>1, <1>0 DEF Queued, p
      <3>2. CASE w # v
        <4>1. PICK k \in 1 .. Len(rq[Pin[w]]) : rq[Pin[w]][k] = w
          BY <3>2, <2>6, <1>2, <1>0 DEF IInv, TypeOK, QueueSound, Queued
        <4>2. CASE Pin[w] = p
          <5>1. k + 1 \in 1 .. m + 1 /\ k + 1 # 1 /\ (k + 1) - 1 = k
            BY <4>1, <4>2, <1>0 DEF m
          <5>2. rq'[p][k + 1] = w
            BY <5>1, <4>1, <4>2, <2>1
          <5> QED BY <5>1, <5>2, <4>2, <2>1 DEF Queued
        <4>3. CASE Pin[w] # p
          BY <4>1, <4>3, <2>1 DEF Queued
        <4> QED BY <4>2, <4>3
      <3> QED BY <3>1, <3>2
    <2>7. /\ \A d \in Cpu : cur'[d] # Host => Pin[cur'[d]] = d
          /\ \A w \in Vcpu : thread'[w] = "running" => cur'[Pin[w]] = w
          /\ SuspendedElsewhere'
      BY <1>0, <1>2 DEF IInv, TypeOK, QueueSound, SuspendedElsewhere
    <2> QED BY <2>2, <2>5, <2>6, <2>7 DEF QueueSound
  <1> QED BY <1>1, <1>2, ZenonT(40) DEF thread_resume

\* stop_current_cpu_thread takes a ready thread off its queue.
LEMMA StopSound ==
  ASSUME VcpuLifeAssumption, IInv, NEW c \in Cpu, stop_current_cpu_thread(c)
  PROVE  /\ rq' \in [Cpu -> Seq(Vcpu)] /\ thread' \in [Vcpu -> Thread]
         /\ QueueSound' /\ SuspendedElsewhere'
  <1> USE DEF VcpuLifeAssumption
  <1> DEFINE v == op[c].v
  <1>0. /\ v \in Vcpu /\ Pin[v] = c /\ UNCHANGED cur
        /\ thread' = [thread EXCEPT ![v] = "blocked"]
        /\ thread' \in [Vcpu -> Thread]
    <2>1. v \in Vcpu
      BY DEF IInv, TypeOK, OpType
    <2>2. Pin[v] = c
      BY DEF IInv, PoweroffLocal, stop_current_cpu_thread, Is
    <2> QED BY <2>1, <2>2 DEF IInv, TypeOK, stop_current_cpu_thread, Thread
  <1>1. /\ \A d \in Cpu : cur'[d] # Host => Pin[cur'[d]] = d
        /\ \A w \in Vcpu : thread'[w] = "running" => cur'[Pin[w]] = w
        /\ SuspendedElsewhere'
    BY <1>0 DEF IInv, TypeOK, QueueSound, SuspendedElsewhere
  <1>2. CASE UNCHANGED rq
    BY <1>0, <1>1, <1>2, SMTT(40) DEF IInv, TypeOK, QueueSound, Queued
  <1>3. ASSUME NEW k \in 1 .. Len(rq[c]), rq[c][k] = v,
               rq' = [rq EXCEPT ![c] = RemoveAt(@, k)]
        PROVE  rq' \in [Cpu -> Seq(Vcpu)] /\ QueueSound'
    <2> DEFINE m == Len(rq[c])
               P(j) == IF j < k THEN j ELSE j + 1
    <2>1. rq \in [Cpu -> Seq(Vcpu)] /\ rq[c] \in Seq(Vcpu) /\ m \in Nat
      BY LenProperties DEF IInv, TypeOK
    <2>2. /\ rq'[c] \in Seq(Vcpu) /\ Len(rq'[c]) = m - 1
          /\ \A j \in 1 .. (m - 1) : rq'[c][j] = rq[c][P(j)]
          /\ \A d \in Cpu : d # c => rq'[d] = rq[d]
      <3>1. /\ RemoveAt(rq[c], k) \in Seq(Vcpu)
            /\ Len(RemoveAt(rq[c], k)) = m - 1
            /\ \A j \in 1 .. (m - 1) :
                 RemoveAt(rq[c], k)[j] = IF j < k THEN rq[c][j]
                                         ELSE rq[c][j + 1]
        BY <2>1, RemoveAtLemma
      <3> QED BY <3>1, <2>1, <1>3
    <2>3. rq' \in [Cpu -> Seq(Vcpu)]
      BY <2>1, <2>2, <1>3
    <2>4. \A j \in 1 .. (m - 1) : P(j) \in 1 .. m /\ P(j) # k
      BY <2>1
    <2>5. \A j, l \in 1 .. (m - 1) : P(j) = P(l) => j = l
      BY <2>1
    <2>6. \A j \in 1 .. m : j # k => \E l \in 1 .. (m - 1) : P(l) = j
      <3> TAKE j \in 1 .. m
      <3> HAVE j # k
      <3>1. CASE j < k
        <4> WITNESS j \in 1 .. (m - 1)
        <4> QED BY <3>1, <2>1
      <3>2. CASE j > k
        <4> WITNESS j - 1 \in 1 .. (m - 1)
        <4> QED BY <3>2, <2>1
      <3> QED BY <3>1, <3>2, <2>1
    <2> HIDE DEF P
    <2>7. \A d \in Cpu : \A j \in 1 .. Len(rq'[d]) :
            /\ Pin[rq'[d][j]] = d /\ rq'[d][j] # cur'[d]
            /\ \A l \in 1 .. Len(rq'[d]) : rq'[d][j] = rq'[d][l] => j = l
      <3> SUFFICES ASSUME NEW d \in Cpu
                   PROVE  \A j \in 1 .. Len(rq'[d]) :
            /\ Pin[rq'[d][j]] = d /\ rq'[d][j] # cur'[d]
            /\ \A l \in 1 .. Len(rq'[d]) : rq'[d][j] = rq'[d][l] => j = l
        OBVIOUS
      <3>1. CASE d = c
        <4> SUFFICES ASSUME NEW j \in 1 .. (m - 1)
                     PROVE  /\ Pin[rq'[c][j]] = c /\ rq'[c][j] # cur'[c]
                            /\ \A l \in 1 .. (m - 1) :
                                 rq'[c][j] = rq'[c][l] => j = l
          BY <3>1, <2>2
        <4>1. Pin[rq[c][P(j)]] = c /\ rq[c][P(j)] # cur[c]
          BY <2>4 DEF IInv, QueueSound
        <4>2. \A l \in 1 .. (m - 1) : rq[c][P(j)] = rq[c][P(l)] => P(j) = P(l)
          BY <2>4 DEF IInv, QueueSound
        <4> QED BY <4>1, <4>2, <2>2, <2>5, <1>0
      <3>2. CASE d # c
        BY <3>2, <2>2, <1>0 DEF IInv, QueueSound
      <3> QED BY <3>1, <3>2
    <2>8. ASSUME NEW w \in Vcpu, thread'[w] = "ready" PROVE Queued(w)'
      <3>1. w # v /\ thread[w] = "ready"
        BY <2>8, <1>0 DEF IInv, TypeOK
      <3>2. PICK j \in 1 .. Len(rq[Pin[w]]) : rq[Pin[w]][j] = w
        BY <3>1 DEF IInv, QueueSound, Queued
      <3>3. CASE Pin[w] = c
        <4>1. j \in 1 .. m /\ j # k
          BY <3>1, <3>2, <3>3, <1>3
        <4>2. PICK l \in 1 .. (m - 1) : P(l) = j
          BY <4>1, <2>6
        <4> QED BY <4>2, <3>2, <3>3, <2>2 DEF Queued
      <3>4. CASE Pin[w] # c
        BY <3>2, <3>4, <2>2 DEF Queued
      <3> QED BY <3>3, <3>4
    <2> QED BY <2>3, <2>7, <2>8, <1>1 DEF QueueSound
  <1> QED
    BY <1>0, <1>1, <1>2, <1>3 DEF stop_current_cpu_thread, IInv, TypeOK

\* thread_reset makes a thread suspended that no cpu runs.
LEMMA StartSound ==
  ASSUME VcpuLifeAssumption, IInv, NEW c \in Cpu, hv_vcpu_start(c)
  PROVE  /\ thread' \in [Vcpu -> Thread] /\ at' \in [Vcpu -> At]
         /\ QueueSound' /\ SuspendedElsewhere'
         /\ GuestInited' /\ CurrentVcpuExact'
  <1> DEFINE v == op[c].v
  <1>0. v \in Vcpu /\ UNCHANGED <<inited, rq, cur, here>>
    BY DEF IInv, TypeOK, OpType, hv_vcpu_start
  <1>1. CASE UNCHANGED <<thread, at>>
    BY <1>0, <1>1 DEF IInv, TypeOK, QueueSound, SuspendedElsewhere, Queued,
                      GuestInited, CurrentVcpuExact
  <1>2. CASE /\ cur[Pin[v]] # v
             /\ thread' = [thread EXCEPT ![v] = "suspended"]
             /\ at' = [at EXCEPT ![v] = "entry"]
    <2>1. thread' \in [Vcpu -> Thread] /\ at' \in [Vcpu -> At]
      BY <1>0, <1>2 DEF IInv, TypeOK, Thread, At
    <2>2. /\ \A w \in Vcpu : thread'[w] = IF w = v THEN "suspended"
                                          ELSE thread[w]
          /\ \A w \in Vcpu : at'[w] = IF w = v THEN "entry" ELSE at[w]
      BY <1>0, <1>2 DEF IInv, TypeOK
    <2>3. QueueSound' /\ SuspendedElsewhere'
      BY <1>0, <1>2, <2>2
         DEF IInv, QueueSound, SuspendedElsewhere, Queued
    <2>4. GuestInited' /\ CurrentVcpuExact'
      BY <1>0, <2>2 DEF IInv, TypeOK, GuestInited, CurrentVcpuExact
    <2> QED BY <2>1, <2>3, <2>4
  <1> QED BY <1>1, <1>2 DEF hv_vcpu_start
-----------------------------------------------------------------------------
(* The invariant.                                                          *)

\* The machine is created with the invariant.
LEMMA InitIInv == ASSUME VcpuLifeAssumption, Init PROVE IInv
  <1> USE DEF VcpuLifeAssumption
  <1>0. Primary \in Vcpu /\ Host \notin Vcpu /\ NoOp \in OpType
    BY DEF Primary, Vcpu, Host, NoOp, OpType, From
  <1>1. TypeOK
    <2>1. <<>> \in Seq(Vcpu)
      BY EmptySeq
    <2>2. /\ status \in [Vcpu -> Status] /\ thread \in [Vcpu -> Thread]
          /\ at \in [Vcpu -> At] /\ inited \in [Vcpu -> BOOLEAN]
      BY DEF Init, Status, Thread, At
    <2>3. /\ rq \in [Cpu -> Seq(Vcpu)] /\ evq \in [Cpu -> Seq(Vcpu)]
          /\ cur \in [Cpu -> Vcpu \cup {Host}]
          /\ here \in [Cpu -> Vcpu \cup {Host}]
      BY <2>1 DEF Init
    <2>4. /\ ipi \in [Cpu -> BOOLEAN] /\ poke \in [Cpu -> BOOLEAN]
          /\ mem \in BOOLEAN /\ pc \in [Cpu -> PcState]
          /\ op \in [Cpu -> OpType]
      BY <1>0 DEF Init, PcState
    <2>5. starts \in 0 .. MaxStarts /\ usage \in Usage /\ fault \in Fault
      BY DEF Init, Fault
    <2> QED BY <2>2, <2>3, <2>4, <2>5 DEF TypeOK
  <1>2. QueueSound /\ SuspendedElsewhere
    BY <1>0 DEF Init, QueueSound, SuspendedElsewhere, Queued
  <1>3. GuestInited /\ CurrentVcpuExact /\ PoweroffLocal
    BY DEF Init, GuestInited, CurrentVcpuExact, PoweroffLocal
  <1> QED BY <1>1, <1>2, <1>3 DEF IInv

\* A step that leaves the scheduler and the vcpus alone.
LEMMA MachineUnchanged ==
  ASSUME IInv, UNCHANGED <<thread, at, inited, rq, cur, here>>
  PROVE  /\ QueueSound' /\ SuspendedElsewhere'
         /\ GuestInited' /\ CurrentVcpuExact'
  BY DEF IInv, QueueSound, SuspendedElsewhere, Queued, GuestInited,
         CurrentVcpuExact

\* Where the caller of hv_vcpu_poweroff continues.
LEMMA PoweroffRetFacts ==
  ASSUME VcpuLifeAssumption, IInv, NEW c \in Cpu, NEW r \in BOOLEAN,
         op[c].from # "console", Poweroff_ret(c, r)
  PROVE  /\ pc' \in [Cpu -> PcState] /\ op' \in [Cpu -> OpType]
         /\ PoweroffLocal'
  <1> DEFINE from == op[c].from
  <1>1. /\ pc \in [Cpu -> PcState] /\ op \in [Cpu -> OpType]
        /\ from \in From /\ op[c] \in OpType
    BY DEF IInv, TypeOK, OpType
  <1>2. \E w \in PcState \ {"off", "stop"} : pc' = [pc EXCEPT ![c] = w]
    <2>1. from \in {"guest", "irq", "loop", "last"}
      BY <1>1 DEF From
    <2> QED BY <2>1 DEF Poweroff_ret, GoTo, PcState
  <1>3. op' = [op EXCEPT ![c].sched = @ \/ r]
    BY DEF Poweroff_ret
  <1>4. op' \in [Cpu -> OpType]
    <2>1. [op[c] EXCEPT !.sched = op[c].sched \/ r] \in OpType
      BY <1>1 DEF OpType
    <2> QED BY <1>1, <1>3, <2>1
  <1>5. \A d \in Cpu : d # c => op'[d] = op[d] /\ pc'[d] = pc[d]
    BY <1>1, <1>2, <1>3
  <1>6. pc'[c] \notin {"off", "stop"} /\ pc' \in [Cpu -> PcState]
    BY <1>1, <1>2
  <1> QED BY <1>4, <1>5, <1>6 DEF IInv, PoweroffLocal

\* A cpu goes to where, with locals o.
LEMMA GoToFacts ==
  ASSUME IInv, NEW c \in Cpu, NEW where \in PcState, NEW o \in OpType,
         pc' = [pc EXCEPT ![c] = where], op' = [op EXCEPT ![c] = o],
         where \in {"off", "stop"} => o.from # "console",
         where = "stop" => Pin[o.v] = c
  PROVE  /\ pc' \in [Cpu -> PcState] /\ op' \in [Cpu -> OpType]
         /\ PoweroffLocal'
  <1>1. pc \in [Cpu -> PcState] /\ op \in [Cpu -> OpType]
    BY DEF IInv, TypeOK
  <1> QED BY <1>1 DEF IInv, PoweroffLocal

\* A trap that goes on with locals of the right type.
LEMMA TrapIInv ==
  ASSUME IInv, NEW c \in Cpu, NEW where \in PcState, NEW o \in OpType,
         Trap(c, where, o), where # "stop",
         where = "off" => o.from # "console"
  PROVE  IInv'
  <1>1. /\ pc' = [pc EXCEPT ![c] = where] /\ op' = [op EXCEPT ![c] = o]
        /\ UNCHANGED <<machine, wires, usage, fault>>
    BY DEF Trap, GoTo, Goes
  <1>2. /\ pc' \in [Cpu -> PcState] /\ op' \in [Cpu -> OpType]
        /\ PoweroffLocal'
    BY <1>1, GoToFacts
  <1> QED BY <1>1, <1>2, MachineUnchanged DEF IInv, TypeOK, machine, wires

\* Every step keeps it.
LEMMA NextIInv ==
  ASSUME VcpuLifeAssumption, IInv, [Next]_vars PROVE IInv'
  <1> USE DEF VcpuLifeAssumption
  <1>0. CASE UNCHANGED vars
    BY <1>0 DEF vars, IInv, TypeOK, QueueSound, SuspendedElsewhere, Queued,
                GuestInited, CurrentVcpuExact, PoweroffLocal
  <1> SUFFICES ASSUME NEW c \in Cpu, Step(c) PROVE IInv'
    BY <1>0 DEF Next
  <1> DEFINE v == op[c].v
  <1>T. /\ Primary \in Vcpu /\ Host \notin Vcpu /\ NoOp \in OpType
        /\ NoOp.from = "guest"
        /\ op[c] \in OpType /\ v \in Vcpu /\ pc[c] \in PcState
        /\ Pin[v] \in Cpu /\ op = [op EXCEPT ![c] = op[c]]
    <2>1. op[c] \in OpType /\ pc[c] \in PcState /\ op = [op EXCEPT ![c] = op[c]]
      BY DEF IInv, TypeOK
    <2>2. v \in Vcpu
      BY <2>1 DEF OpType
    <2> QED BY <2>1, <2>2 DEF Primary, Vcpu, Host, NoOp, OpType, From
  <1>1. CASE Tick(c)
    <2>1. /\ thread_preempt(c, TRUE)
          /\ UNCHANGED <<status, at, inited, wires, pc, op>>
      BY <1>1 DEF Tick
    <2>2. PoweroffLocal'
      BY <2>1 DEF IInv, PoweroffLocal
    <2> QED BY <2>1, <2>2, PreemptSound DEF IInv, TypeOK, wires
  <1>2. CASE RescheduleIrq(c)
    <2>1. PICK tail \in BOOLEAN : thread_preempt(c, tail)
      BY <1>2 DEF RescheduleIrq
    <2>2. /\ UNCHANGED <<status, at, inited, evq, ipi, mem, starts, pc, op>>
          /\ poke' = [poke EXCEPT ![c] = FALSE]
      BY <1>2 DEF RescheduleIrq
    <2>3. PoweroffLocal'
      BY <2>2 DEF IInv, PoweroffLocal
    <2> QED BY <2>1, <2>2, <2>3, PreemptSound DEF IInv, TypeOK
  <1>3. CASE hv_event_handler(c)
    <2>1. /\ UNCHANGED <<machine, poke, mem, starts, usage, fault>>
          /\ ipi' = [ipi EXCEPT ![c] = FALSE]
      BY <1>3 DEF hv_event_handler, Goes
    <2>2. /\ evq' \in [Cpu -> Seq(Vcpu)]
          /\ pc' \in [Cpu -> PcState] /\ op' \in [Cpu -> OpType]
          /\ PoweroffLocal'
      <3>1. CASE UNCHANGED <<evq, pc, op>>
        BY <3>1 DEF IInv, TypeOK, PoweroffLocal
      <3>2. CASE /\ evq[c] # <<>> /\ GoTo(c, "off")
                 /\ evq' = [evq EXCEPT ![c] = Tail(@)]
                 /\ op' = [op EXCEPT ![c] = [NoOp EXCEPT !.v = Head(evq[c]),
                                                         !.from = "irq"]]
        <4> DEFINE o == [NoOp EXCEPT !.v = Head(evq[c]), !.from = "irq"]
        <4>1. Head(evq[c]) \in Vcpu /\ Tail(evq[c]) \in Seq(Vcpu)
          BY <3>2, TailFacts DEF IInv, TypeOK
        <4>2. o \in OpType /\ o.from = "irq"
          BY <4>1, <1>T DEF OpType, From
        <4> HIDE DEF o
        <4>3. op' = [op EXCEPT ![c] = o] /\ pc' = [pc EXCEPT ![c] = "off"]
          BY <3>2 DEF o, GoTo
        <4>4. /\ pc' \in [Cpu -> PcState] /\ op' \in [Cpu -> OpType]
              /\ PoweroffLocal'
          BY <4>2, <4>3, GoToFacts DEF PcState
        <4> QED BY <3>2, <4>1, <4>4 DEF IInv, TypeOK
      <3> QED BY <1>3, <3>1, <3>2 DEF hv_event_handler
    <2> QED BY <2>1, <2>2, MachineUnchanged DEF IInv, TypeOK, machine
  <1>4. CASE VcpuSched(c)
    <2>1. UNCHANGED <<status, at, inited, wires, op, usage>>
      BY <1>4 DEF VcpuSched, Goes, Fails
    <2>2. CASE UNCHANGED <<rq, thread, cur, here, pc>> /\ Fails("resched")
      <3>1. PoweroffLocal' /\ fault' \in Fault
        BY <2>1, <2>2 DEF IInv, PoweroffLocal, Fails, Fault
      <3> QED BY <2>1, <2>2, <3>1, MachineUnchanged DEF IInv, TypeOK, wires
    <2>3. CASE /\ ~(cur[c] # Host /\ thread[cur[c]] = "running")
               /\ thread_resched(c, thread, rq[c]) /\ GoTo(c, "run") /\ Goes
      <3>1. /\ GoodQueue(c, rq[c]) /\ rq[c] \in Seq(Vcpu)
            /\ thread \in [Vcpu -> Thread]
        BY DEF IInv, TypeOK, QueueSound, GoodQueue
      <3>2. /\ \A w \in Vcpu : Pin[w] = c /\ thread[w] = "ready" =>
                                 \E k \in 1 .. Len(rq[c]) : rq[c][k] = w
            /\ \A w \in Vcpu : Pin[w] = c => thread[w] # "running"
        BY <2>3, <1>T DEF IInv, QueueSound, Queued
      <3>3. /\ rq' \in [Cpu -> Seq(Vcpu)] /\ thread' \in [Vcpu -> Thread]
            /\ cur' \in [Cpu -> Vcpu \cup {Host}]
            /\ here' \in [Cpu -> Vcpu \cup {Host}]
            /\ QueueSound' /\ SuspendedElsewhere'
        BY <2>3, <3>1, <3>2, ReschedSound DEF IInv
      <3>4. GuestInited' /\ CurrentVcpuExact'
        BY <2>1, <2>3, <3>1, ReschedExact DEF IInv
      <3>5. pc' \in [Cpu -> PcState] /\ PoweroffLocal'
        BY <2>1, <2>3, <1>T, GoToFacts DEF GoTo, PcState
      <3> QED BY <2>1, <2>3, <3>3, <3>4, <3>5 DEF IInv, TypeOK, wires, Goes
    <2> QED BY <1>4, <2>2, <2>3 DEF VcpuSched
  <1>5. CASE hv_vcpu_start(c)
    <2>1. /\ UNCHANGED <<inited, rq, cur, here, wires, op, usage>>
          /\ status' \in [Vcpu -> Status] /\ fault' \in Fault
      <3>1. UNCHANGED <<inited, rq, cur, here, wires, op, usage>>
        BY <1>5 DEF hv_vcpu_start, Goes, Fails
      <3>2. UNCHANGED status \/ status' = [status EXCEPT ![v] = "ready"]
        BY <1>5 DEF hv_vcpu_start
      <3>3. status' \in [Vcpu -> Status]
        BY <3>2, <1>T DEF IInv, TypeOK, Status
      <3>4. fault' = fault \/ fault' = "stack"
        BY <1>5 DEF hv_vcpu_start, Goes, Fails
      <3> QED BY <3>1, <3>3, <3>4 DEF IInv, TypeOK, Fault
    <2>2. pc' \in [Cpu -> PcState] /\ PoweroffLocal'
      <3>1. CASE UNCHANGED pc
        BY <2>1, <3>1 DEF IInv, TypeOK, PoweroffLocal
      <3>2. CASE GoTo(c, "run") \/ GoTo(c, "resume")
        BY <2>1, <3>2, <1>T, GoToFacts DEF GoTo, PcState
      <3> QED BY <1>5, <3>1, <3>2 DEF hv_vcpu_start
    <2> QED BY <1>5, <2>1, <2>2, StartSound DEF IInv, TypeOK, wires
  <1>6. CASE thread_resume(c)
    <2>1. /\ UNCHANGED <<status, at, inited, cur, here, evq, ipi, mem, starts,
                         op, usage>>
          /\ fault' \in Fault
      BY <1>6, SMTT(40) DEF thread_resume, Goes, Fails, IInv, TypeOK, Fault
    <2>2. pc' \in [Cpu -> PcState] /\ PoweroffLocal'
      <3>1. CASE UNCHANGED pc
        BY <2>1, <3>1 DEF IInv, TypeOK, PoweroffLocal
      <3>2. CASE GoTo(c, "run") \/ GoTo(c, "sched")
        BY <2>1, <3>2, <1>T, GoToFacts, SMTT(40) DEF GoTo, PcState
      <3> QED BY <1>6, <3>1, <3>2 DEF thread_resume
    <2>3. poke' \in [Cpu -> BOOLEAN]
      BY <1>6, <1>T DEF thread_resume, IInv, TypeOK
    <2>4. GuestInited' /\ CurrentVcpuExact'
      BY <2>1 DEF IInv, GuestInited, CurrentVcpuExact
    <2> QED BY <1>6, <2>1, <2>2, <2>3, <2>4, ResumeSound, SMTT(40) DEF IInv, TypeOK
  <1>7. CASE hv_vcpu_poweroff(c)
    <2>1. UNCHANGED <<thread, at, inited, rq, cur, here, poke, mem, starts,
                      usage, fault>>
      BY <1>7 DEF hv_vcpu_poweroff, Goes
    <2>2. op[c].from # "console"
      BY <1>7, SMTT(40) DEF hv_vcpu_poweroff, Is, IInv, PoweroffLocal
    <2>3. /\ status' \in [Vcpu -> Status] /\ evq' \in [Cpu -> Seq(Vcpu)]
          /\ ipi' \in [Cpu -> BOOLEAN]
      <3>1. /\ status \in [Vcpu -> Status] /\ evq \in [Cpu -> Seq(Vcpu)]
            /\ ipi \in [Cpu -> BOOLEAN]
        BY DEF IInv, TypeOK
      <3>2. CASE UNCHANGED <<status, evq, ipi>>
        BY <3>1, <3>2
      <3>3. CASE /\ evq' = [evq EXCEPT ![Pin[v]] = Append(@, v)]
                 /\ ipi' = [ipi EXCEPT ![Pin[v]] = TRUE]
                 /\ UNCHANGED status
        <4>1. Append(evq[Pin[v]], v) \in Seq(Vcpu)
          BY <1>T, <3>1
        <4> QED BY <1>T, <3>1, <3>3, <4>1
      <3>4. CASE /\ status' = [status EXCEPT ![v] = "shutdown"]
                 /\ UNCHANGED <<evq, ipi>>
        BY <1>T, <3>1, <3>4 DEF Status
      <3> QED BY <1>7, <3>2, <3>3, <3>4 DEF hv_vcpu_poweroff
    <2>4. /\ pc' \in [Cpu -> PcState] /\ op' \in [Cpu -> OpType]
          /\ PoweroffLocal'
      <3>1. CASE Poweroff_ret(c, FALSE)
        BY <2>2, <3>1, PoweroffRetFacts
      <3>2. CASE Pin[v] = c /\ GoTo(c, "stop") /\ UNCHANGED op
        BY <2>2, <3>2, <1>T, GoToFacts DEF GoTo, PcState
      <3> QED BY <1>7, <3>1, <3>2 DEF hv_vcpu_poweroff
    <2> QED BY <2>1, <2>3, <2>4, MachineUnchanged DEF IInv, TypeOK
  <1>8. CASE stop_current_cpu_thread(c)
    <2>1. UNCHANGED <<status, at, inited, cur, here, wires, usage, fault>>
      BY <1>8 DEF stop_current_cpu_thread, Goes
    <2>2. op[c].from # "console"
      BY <1>8 DEF stop_current_cpu_thread, Is, IInv, PoweroffLocal
    <2>3. /\ pc' \in [Cpu -> PcState] /\ op' \in [Cpu -> OpType]
          /\ PoweroffLocal'
      BY <1>8, <2>2, PoweroffRetFacts DEF stop_current_cpu_thread
    <2>4. GuestInited' /\ CurrentVcpuExact'
      BY <2>1 DEF IInv, GuestInited, CurrentVcpuExact
    <2> QED BY <1>8, <2>1, <2>3, <2>4, StopSound DEF IInv, TypeOK, wires
  <1>9. CASE Shutdown_loop(c)
    <2> DEFINE i == op[c].i
               self == op[c].self
    <2>1. UNCHANGED <<machine, wires, usage, fault>>
      BY <1>9 DEF Shutdown_loop, Goes
    <2>2. i \in 0 .. VcpuNum /\ self \in Vcpu
      BY <1>T DEF OpType
    <2>3. /\ pc' \in [Cpu -> PcState] /\ op' \in [Cpu -> OpType]
          /\ PoweroffLocal'
      <3>1. CASE /\ op' = [op EXCEPT ![c].v = self, ![c].from = "last"]
                 /\ GoTo(c, "off")
        <4> DEFINE o == [op[c] EXCEPT !.v = self, !.from = "last"]
        <4>1. o \in OpType /\ o.from = "last"
          BY <2>2, <1>T DEF OpType, From
        <4>2. op' = [op EXCEPT ![c] = o]
          BY <3>1 DEF IInv, TypeOK
        <4> HIDE DEF o
        <4> QED BY <3>1, <4>1, <4>2, GoToFacts DEF GoTo, PcState
      <3>2. CASE /\ i = self /\ op' = [op EXCEPT ![c].i = i + 1]
                 /\ UNCHANGED pc
        <4> DEFINE o == [op[c] EXCEPT !.i = i + 1]
        <4>0. i + 1 \in 0 .. VcpuNum
          BY <2>2, <3>2 DEF Vcpu
        <4>1. o \in OpType
          BY <4>0, <1>T DEF OpType
        <4>2. op' = [op EXCEPT ![c] = o]
          BY <3>2 DEF IInv, TypeOK
        <4>3. pc' = [pc EXCEPT ![c] = "loop"]
          BY <3>2, <1>9, SMTT(40) DEF Shutdown_loop, Is, IInv, TypeOK
        <4> HIDE DEF o
        <4> QED BY <4>1, <4>2, <4>3, GoToFacts DEF PcState
      <3>3. CASE /\ i < VcpuNum /\ GoTo(c, "off")
                 /\ op' = [op EXCEPT ![c].v = i, ![c].from = "loop",
                                     ![c].i = i + 1]
        <4> DEFINE o == [op[c] EXCEPT !.v = i, !.from = "loop", !.i = i + 1]
        <4>0. i \in Vcpu /\ i + 1 \in 0 .. VcpuNum
          BY <2>2, <3>3 DEF Vcpu
        <4>1. o \in OpType /\ o.from = "loop"
          BY <4>0, <1>T DEF OpType, From
        <4>2. op' = [op EXCEPT ![c] = o]
          BY <3>3 DEF IInv, TypeOK
        <4> HIDE DEF o
        <4> QED BY <3>3, <4>1, <4>2, GoToFacts DEF GoTo, PcState
      <3> QED BY <1>9, <3>1, <3>2, <3>3, SMTT(40) DEF Shutdown_loop
    <2> QED
      BY <2>1, <2>3, MachineUnchanged DEF IInv, TypeOK, machine, wires
  <1>10. CASE lkhv_vm_free_mem(c)
    <2>1. /\ UNCHANGED <<machine, evq, ipi, poke, starts, usage>>
          /\ mem' \in BOOLEAN /\ fault' \in Fault
      BY <1>10 DEF lkhv_vm_free_mem, Goes, Fails, IInv, TypeOK, Fault
    <2>2. /\ pc' \in [Cpu -> PcState] /\ op' \in [Cpu -> OpType]
          /\ PoweroffLocal'
      <3>1. CASE UNCHANGED <<op, pc>>
        BY <3>1 DEF IInv, TypeOK, PoweroffLocal
      <3>2. CASE mem
        <4> DEFINE o == [op[c] EXCEPT !.v = Primary, !.from = "guest"]
        <4>1. o \in OpType /\ o.from = "guest"
          BY <1>T DEF OpType, From
        <4>2. op' = [op EXCEPT ![c] = o]
          BY <3>2, <1>10 DEF lkhv_vm_free_mem, IInv, TypeOK
        <4> HIDE DEF o
        <4>3. op[c].sched \in BOOLEAN /\ op[c].reset \in BOOLEAN
          BY <1>T DEF OpType
        <4>4. \E w \in {"block", "start", "run"} : pc' = [pc EXCEPT ![c] = w]
          BY <3>2, <1>10, <4>3 DEF lkhv_vm_free_mem, GoTo
        <4> QED BY <4>1, <4>2, <4>4, GoToFacts DEF PcState
      <3> QED BY <1>10, <3>1, <3>2 DEF lkhv_vm_free_mem
    <2> QED BY <2>1, <2>2, MachineUnchanged DEF IInv, TypeOK, machine
  <1>11. CASE thread_block(c)
    <2>1. UNCHANGED <<status, at, inited, wires, op, usage>>
      BY <1>11 DEF thread_block, Goes, Fails
    <2>2. CASE UNCHANGED <<rq, thread, cur, here, pc>> /\ Fails("block")
      <3>1. PoweroffLocal' /\ fault' \in Fault
        BY <2>1, <2>2 DEF IInv, PoweroffLocal, Fails, Fault
      <3> QED BY <2>1, <2>2, <3>1, MachineUnchanged DEF IInv, TypeOK, wires
    <2>3. CASE /\ thread[cur[c]] = "blocked"
               /\ thread_resched(c, thread, rq[c]) /\ GoTo(c, "run") /\ Goes
      <3>1. /\ GoodQueue(c, rq[c]) /\ rq[c] \in Seq(Vcpu)
            /\ thread \in [Vcpu -> Thread]
        BY DEF IInv, TypeOK, QueueSound, GoodQueue
      <3>2. /\ \A w \in Vcpu : Pin[w] = c /\ thread[w] = "ready" =>
                                 \E k \in 1 .. Len(rq[c]) : rq[c][k] = w
            /\ \A w \in Vcpu : Pin[w] = c => thread[w] # "running"
        BY <2>3, <1>T DEF IInv, QueueSound, Queued
      <3>3. /\ rq' \in [Cpu -> Seq(Vcpu)] /\ thread' \in [Vcpu -> Thread]
            /\ cur' \in [Cpu -> Vcpu \cup {Host}]
            /\ here' \in [Cpu -> Vcpu \cup {Host}]
            /\ QueueSound' /\ SuspendedElsewhere'
        BY <2>3, <3>1, <3>2, ReschedSound DEF IInv
      <3>4. GuestInited' /\ CurrentVcpuExact'
        BY <2>1, <2>3, <3>1, ReschedExact DEF IInv
      <3>5. pc' \in [Cpu -> PcState] /\ PoweroffLocal'
        BY <2>1, <2>3, <1>T, GoToFacts DEF GoTo, PcState
      <3> QED BY <2>1, <2>3, <3>3, <3>4, <3>5 DEF IInv, TypeOK, wires, Goes
    <2> QED BY <1>11, <2>2, <2>3 DEF thread_block
  <1>12. CASE vcpu_entry_primary(c)
    <2>1. /\ UNCHANGED <<status, inited, evq, ipi, poke, starts, pc, op, usage>>
          /\ fault' \in Fault /\ mem' \in BOOLEAN /\ PoweroffLocal'
      BY <1>12 DEF vcpu_entry_primary, Goes, Fails, IInv, TypeOK, Fault,
                   PoweroffLocal
    <2>2. CASE UNCHANGED <<thread, rq, cur, here>>
      <3>0. UNCHANGED at \/ at' = [at EXCEPT ![Primary] = "loaded"]
        BY <1>12 DEF vcpu_entry_primary
      <3>1. /\ at' \in [Vcpu -> At]
            /\ \A w \in Vcpu : at'[w] = "guest" => at[w] = "guest"
        <4>1. at \in [Vcpu -> At] /\ Primary \in Vcpu /\ "loaded" \in At
          BY <1>T DEF IInv, TypeOK, At
        <4>2. CASE UNCHANGED at
          BY <4>1, <4>2
        <4>3. CASE at' = [at EXCEPT ![Primary] = "loaded"]
          BY <4>1, <4>3
        <4> QED BY <3>0, <4>2, <4>3
      <3>2. QueueSound' /\ SuspendedElsewhere'
        BY <2>2 DEF IInv, QueueSound, SuspendedElsewhere, Queued
      <3>3. GuestInited' /\ CurrentVcpuExact'
        BY <2>1, <2>2, <3>1 DEF IInv, TypeOK, GuestInited, CurrentVcpuExact
      <3> QED BY <2>1, <2>2, <3>1, <3>2, <3>3 DEF IInv, TypeOK
    <2>3. CASE /\ cur[c] = Primary /\ UNCHANGED at
               /\ thread_resched(c, [thread EXCEPT ![Primary] = "death"],
                                 rq[c])
      <3> DEFINE th == [thread EXCEPT ![Primary] = "death"]
      <3>1. /\ GoodQueue(c, rq[c]) /\ rq[c] \in Seq(Vcpu)
            /\ th \in [Vcpu -> Thread]
        BY <1>T DEF IInv, TypeOK, QueueSound, GoodQueue, Thread
      <3>2. \A w \in Vcpu : th[w] = IF w = Primary THEN "death" ELSE thread[w]
        BY <1>T DEF IInv, TypeOK
      <3>3. Pin[Primary] = c
        BY <2>3, <1>T DEF IInv, QueueSound
      <3> HIDE DEF th
      <3>4. /\ \A w \in Vcpu : Pin[w] = c /\ th[w] = "ready" =>
                                 \E k \in 1 .. Len(rq[c]) : rq[c][k] = w
            /\ \A w \in Vcpu : Pin[w] = c => th[w] # "running"
            /\ \A w \in Vcpu : Pin[w] # c => th[w] = thread[w]
        BY <2>3, <3>2, <3>3 DEF IInv, QueueSound, Queued
      <3>5. thread_resched(c, th, rq[c])
        BY <2>3 DEF th
      <3>6. /\ rq' \in [Cpu -> Seq(Vcpu)] /\ thread' \in [Vcpu -> Thread]
            /\ cur' \in [Cpu -> Vcpu \cup {Host}]
            /\ here' \in [Cpu -> Vcpu \cup {Host}]
            /\ QueueSound' /\ SuspendedElsewhere'
        BY <3>1, <3>4, <3>5, ReschedSound DEF IInv
      <3>7. GuestInited' /\ CurrentVcpuExact'
        BY <2>1, <2>3, <3>1, <3>5, ReschedExact DEF IInv
      <3> QED BY <2>1, <2>3, <3>6, <3>7 DEF IInv, TypeOK
    <2> QED BY <1>12, <2>2, <2>3 DEF vcpu_entry_primary
  <1>13. CASE vcpu_start_common(c)
    <2> DEFINE u == cur[c]
    <2>1. UNCHANGED <<status, thread, rq, cur, wires, pc, op, usage, fault>>
      BY <1>13 DEF vcpu_start_common, Goes
    <2>2. /\ u \in Vcpu
          /\ at' = [at EXCEPT ![u] = "guest"]
          /\ inited' = [inited EXCEPT ![u] = TRUE]
          /\ here' = [here EXCEPT ![c] = u]
      BY <1>13 DEF vcpu_start_common, IInv, TypeOK
    <2>3. /\ at' \in [Vcpu -> At] /\ inited' \in [Vcpu -> BOOLEAN]
          /\ here' \in [Cpu -> Vcpu \cup {Host}]
      BY <2>2 DEF IInv, TypeOK, At
    <2>4. QueueSound' /\ SuspendedElsewhere' /\ PoweroffLocal'
      BY <2>1 DEF IInv, QueueSound, SuspendedElsewhere, Queued, PoweroffLocal
    <2>5. GuestInited'
      BY <2>2 DEF IInv, TypeOK, GuestInited
    <2>6. CurrentVcpuExact'
      <3>1. \A d \in Cpu : cur[d] = u => d = c
        BY <2>2, <1>T DEF IInv, QueueSound
      <3> QED BY <2>1, <2>2, <3>1 DEF IInv, TypeOK, CurrentVcpuExact
    <2> QED BY <2>1, <2>3, <2>4, <2>5, <2>6 DEF IInv, TypeOK, wires
  <1>14. CASE vm_start(c)
    <2> DEFINE o == [NoOp EXCEPT !.from = "console"]
    <2>1. o \in OpType
      BY <1>T DEF OpType, From
    <2>2. /\ UNCHANGED <<machine, evq, ipi, poke, mem, usage, fault>>
          /\ pc' = [pc EXCEPT ![c] = "start"] /\ op' = [op EXCEPT ![c] = o]
          /\ starts' \in 0 .. MaxStarts
      BY <1>14 DEF vm_start, Goes, GoTo, IInv, TypeOK
    <2> HIDE DEF o
    <2>3. /\ pc' \in [Cpu -> PcState] /\ op' \in [Cpu -> OpType]
          /\ PoweroffLocal'
      BY <2>1, <2>2, GoToFacts DEF PcState
    <2> QED BY <2>2, <2>3, MachineUnchanged DEF IInv, TypeOK, machine
  <1>15. ASSUME NEW u \in Vcpu, NEW t \in Vcpu, psci_vcpu_on(c, u, t)
         PROVE  IInv'
    <2> DEFINE o == [NoOp EXCEPT !.v = t]
    <2>1. o \in OpType
      BY <1>T, <1>15 DEF OpType
    <2>2. Trap(c, "start", o)
      BY <1>15 DEF psci_vcpu_on
    <2> HIDE DEF o
    <2> QED BY <2>1, <2>2, TrapIInv DEF PcState
  <1>16. ASSUME NEW u \in Vcpu, psci_vcpu_off(c, u) PROVE IInv'
    <2> DEFINE o == [NoOp EXCEPT !.v = here[c]]
    <2>1. here[c] = u
      BY <1>16, <1>T DEF psci_vcpu_off, Guest, IInv, CurrentVcpuExact
    <2>2. o \in OpType /\ o.from = "guest"
      BY <1>T, <2>1 DEF OpType
    <2>3. Trap(c, "off", o)
      BY <1>16 DEF psci_vcpu_off
    <2> HIDE DEF o
    <2> QED BY <2>2, <2>3, TrapIInv DEF PcState
  <1>17. ASSUME NEW u \in Vcpu, psci_vcpu_suspend(c, u) PROVE IInv'
    <2>1. here[c] = u /\ Pin[u] = c /\ cur[c] = u
      BY <1>17, <1>T DEF psci_vcpu_suspend, Guest, IInv, CurrentVcpuExact,
                         QueueSound
    <2>2. /\ UNCHANGED <<at, inited, rq, cur, here, wires, pc, op, usage>>
          /\ status' = [status EXCEPT ![u] = "blocked"]
          /\ thread' = [thread EXCEPT ![u] = "blocked"]
          /\ fault' = "lock"
      BY <1>17, <2>1 DEF psci_vcpu_suspend, Fails
    <2>3. /\ status' \in [Vcpu -> Status] /\ thread' \in [Vcpu -> Thread]
          /\ fault' \in Fault
      BY <2>2 DEF IInv, TypeOK, Status, Thread, Fault
    <2>4. QueueSound' /\ SuspendedElsewhere'
      BY <2>2 DEF IInv, TypeOK, QueueSound, SuspendedElsewhere, Queued
    <2>5. GuestInited' /\ CurrentVcpuExact' /\ PoweroffLocal'
      BY <2>2 DEF IInv, GuestInited, CurrentVcpuExact, PoweroffLocal
    <2> QED BY <2>2, <2>3, <2>4, <2>5 DEF IInv, TypeOK, wires
  <1>18. ASSUME NEW u \in Vcpu, NEW reset \in BOOLEAN, psci_sys(c, u, reset)
         PROVE  IInv'
    <2>1. here[c] = u
      BY <1>18, <1>T DEF psci_sys, Guest, IInv, CurrentVcpuExact
    <2> DEFINE o == [NoOp EXCEPT !.self = here[c], !.reset = reset]
    <2>2. o \in OpType
      BY <1>T, <2>1 DEF OpType
    <2>3. \/ Trap(c, "loop", o)
          \/ Trap(c, "start", NoOp)
          \/ Trap(c, "run", NoOp)
      BY <1>18 DEF psci_sys
    <2> HIDE DEF o
    <2> QED BY <2>2, <2>3, <1>T, TrapIInv DEF PcState
  <1> QED
    BY <1>1, <1>2, <1>3, <1>4, <1>5, <1>6, <1>7, <1>8, <1>9, <1>10, <1>11,
       <1>12, <1>13, <1>14, <1>15, <1>16, <1>17, <1>18
       DEF Step, Code, Boots, Calls

\* The invariant holds throughout.
LEMMA IInvHolds == Spec => []IInv
  <1>1. Init => IInv
    BY VcpuLifeAssumption, InitIInv
  <1>2. IInv /\ [Next]_vars => IInv'
    BY VcpuLifeAssumption, NextIInv
  <1> QED BY <1>1, <1>2, PTL DEF Spec

\* The state always has its type.  An operation in progress is about a vcpu
\* only because current_vcpu() is exact: psci_vcpu_off and lkhv_shutdown_vm
\* take their vcpu from it.
THEOREM TypeCorrect == Spec => []TypeOK
  <1>1. IInv => TypeOK
    BY DEF IInv
  <1> QED BY <1>1, IInvHolds, PTL

\* However the machine is used, the run queues are sound: no thread is
\* queued twice, queued for another cpu or queued while it runs, and no
\* ready thread is forgotten.
THEOREM QueuesCorrect == Spec => []QueueSound
  <1>1. IInv => QueueSound
    BY DEF IInv
  <1> QED BY <1>1, IInvHolds, PTL

\* However the machine is used, current_vcpu() in a trap is the vcpu that
\* trapped.
THEOREM CurrentVcpuCorrect == Spec => []CurrentVcpuExact
  <1>1. IInv => CurrentVcpuExact
    BY DEF IInv
  <1> QED BY <1>1, IInvHolds, PTL

-----------------------------------------------------------------------------
(* Orderly use: what keeps the assertions of thread.c from failing.  The   *)
(* boot vcpu's thread makes every call, so that a start and a power-off of *)
(* the same vcpu never overlap: hv_vcpu_poweroff takes no lock.            *)

Home == Pin[Primary]

\* The boot vcpu runs on cpu c, and its guest has called the hypervisor.
InTrap(c) ==
  cur[c] = Primary /\ thread[Primary] = "running" /\ at[Primary] = "guest"

\* Cpu c handles the power-off of a vcpu that was asked for by an event.
ByEvent(c) == pc[c] \in {"off", "stop", "sched"} /\ op[c].from = "irq"

\* The status of a vcpu and the state of its thread.  A thread stays as it is
\* between the two halves of a power-off.
StatusThread ==
  \A v \in Vcpu :
    /\ status[v] # "blocked"
    /\ status[v] = "created" => thread[v] = "suspended" /\ at[v] = "entry"
    /\ status[v] = "shutdown" =>
         thread[v] = "blocked" \/ (pc[Pin[v]] = "stop" /\ op[Pin[v]].v = v)

\* Only ready threads are queued, and a cpu outside the hypervisor runs a
\* running thread.
ThreadsSound ==
  /\ \A v \in Vcpu : Queued(v) => thread[v] = "ready"
  /\ \A c \in Cpu : pc[c] = "run" /\ cur[c] # Host => thread[cur[c]] = "running"

\* A vcpu is started by the boot vcpu's trap, or it is the boot vcpu and is
\* started at a console while everything is off.  Nobody else starts it.
StartingAt(c) ==
  /\ pc[c] \in {"start", "resume"} =>
       \/ op[c].from = "guest" /\ InTrap(c)
       \/ op[c].from = "console" /\ cur[c] = Host /\ op[c].v = Primary
  /\ pc[c] = "start" /\ op[c].from = "console" =>
       /\ \A v \in Vcpu : IsOff(v)
       /\ \A d \in Cpu : evq[d] = <<>> /\ (d # c => pc[d] = "run")
  /\ pc[c] = "resume" =>
       /\ thread[op[c].v] = "suspended" /\ status[op[c].v] = "ready"
       /\ \A d \in Cpu : pc[d] = "resume" /\ op[d].v = op[c].v => d = c

\* A machine is shut down by the boot vcpu's trap, which powers its own vcpu
\* off last; the others' cpus do it in their event handlers.
StoppingAt(c) ==
  /\ pc[c] = "loop" => InTrap(c) /\ op[c].self = Primary
  /\ pc[c] \in {"off", "stop"} =>
       \/ /\ op[c].from = "loop" /\ InTrap(c)
          /\ op[c].self = Primary /\ op[c].v # Primary
       \/ op[c].from = "last" /\ InTrap(c) /\ op[c].v = Primary
       \/ /\ op[c].from = "irq" /\ op[c].v # Primary /\ Pin[op[c].v] = c
          /\ cur[c] # Host => thread[cur[c]] = "running"
  /\ pc[c] = "stop" =>
       status[op[c].v] = "shutdown" /\ (op[c].from = "last" => mem)
  /\ pc[c] = "free" =>
       /\ cur[c] = Primary /\ thread[Primary] = "blocked"
       /\ status[Primary] = "shutdown" /\ op[c].sched /\ mem
  /\ pc[c] = "block" => cur[c] = Primary /\ thread[Primary] = "blocked"
  /\ pc[c] = "sched" =>
       \/ op[c].from = "console" /\ cur[c] = Host
       \/ op[c].from = "irq" /\ cur[c] # Host /\ thread[cur[c]] = "blocked"

\* A vcpu of another cpu is powered off only while the boot vcpu is shutting
\* the machine down, or has done so.
EventsAt(c) ==
  /\ evq[c] # <<>> \/ ByEvent(c) =>
       /\ c # Home
       /\ status[Primary] = "shutdown" \/ pc[Home] \in {"loop", "off", "stop"}
  /\ \A k \in 1 .. Len(evq[c]) : Pin[evq[c][k]] = c /\ evq[c][k] # Primary

\* The boot vcpu has the machine's memory from lkhv_vm_init on.
HasMemory ==
  status[Primary] = "ready" /\ at[Primary] \in {"loaded", "guest"} => mem

\* What the steps preserve in orderly use, together with IInv.
OInv ==
  /\ fault = "none" /\ StatusThread /\ ThreadsSound /\ HasMemory
  /\ \A c \in Cpu : StartingAt(c) /\ StoppingAt(c) /\ EventsAt(c)

\* The boot vcpu runs nowhere but at home, and so do its traps.
LEMMA AtHome ==
  ASSUME VcpuLifeAssumption, IInv, OInv, NEW c \in Cpu
  PROVE  /\ Primary \in Vcpu /\ Home \in Cpu /\ Pin[Primary] = Home
         /\ Primary # Host /\ Host \notin Vcpu
         /\ cur[c] = Primary => c = Home
         /\ InTrap(c) => c = Home
         /\ pc[c] \in {"loop", "free", "block"} => c = Home
         /\ pc[c] \in {"off", "stop"} /\ op[c].from # "irq" => c = Home
         /\ pc[c] \in {"start", "resume"} /\ op[c].from = "guest" => c = Home
         /\ cur[c] # Host => cur[c] \in Vcpu /\ Pin[cur[c]] = c
         /\ op[c].v \in Vcpu
  <1>1. Primary \in Vcpu /\ Home \in Cpu /\ Pin[Primary] = Home
    BY DEF VcpuLifeAssumption, Primary, Vcpu, Home
  <1>2. Primary # Host /\ Host \notin Vcpu
    BY <1>1 DEF Host, Vcpu, Primary
  <1>3. cur[c] # Host => cur[c] \in Vcpu /\ Pin[cur[c]] = c
    BY DEF IInv, TypeOK, QueueSound
  <1>4. cur[c] = Primary => c = Home
    BY <1>1, <1>2, <1>3
  <1>5. InTrap(c) => c = Home
    BY <1>4 DEF InTrap
  <1>6. StartingAt(c) /\ StoppingAt(c)
    BY DEF OInv
  <1>7. op[c].v \in Vcpu
    BY DEF IInv, TypeOK, OpType
  <1> QED BY <1>1, <1>2, <1>3, <1>4, <1>5, <1>6, <1>7 DEF StartingAt, StoppingAt

\* A thread that may run belongs to a vcpu that is on, or whose power-off is
\* between its halves.
LEMMA LiveIsOn ==
  ASSUME VcpuLifeAssumption, IInv, OInv, NEW v \in Vcpu,
         thread[v] \in {"ready", "running"},
         ~(pc[Pin[v]] = "stop" /\ op[Pin[v]].v = v)
  PROVE  status[v] = "ready"
  <1>1. status[v] \in Status
    BY DEF IInv, TypeOK
  <1> QED BY <1>1 DEF OInv, StatusThread, Status

\* What a step does to cpu c that leaves the other cpus' code alone.
CodeStep(c, w, o) ==
  /\ pc' = [pc EXCEPT ![c] = w]
  /\ op' = [op EXCEPT ![c] = o]

\* Such a step leaves the other cpus' code where it is.
LEMMA CodeFacts ==
  ASSUME IInv, NEW c \in Cpu, NEW w, NEW o, CodeStep(c, w, o)
  PROVE  /\ pc'[c] = w /\ op'[c] = o
         /\ \A d \in Cpu \ {c} : pc'[d] = pc[d] /\ op'[d] = op[d]
  BY DEF IInv, TypeOK, CodeStep

\* A switch of threads on cpu c moves ready and running threads of c only.
Switched(c) ==
  /\ \A d \in Cpu \ {c} : cur'[d] = cur[d]
  /\ cur'[c] # Host => thread'[cur'[c]] = "running"
  /\ \A v \in Vcpu :
       /\ Queued(v)' => thread'[v] = "ready"
       /\ \/ thread'[v] = thread[v]
          \/ /\ Pin[v] = c /\ thread[v] \in {"ready", "running"}
             /\ thread'[v] \in {"ready", "running", "death"}

\* thread_resched takes the first ready thread of the queue.
LEMMA ReschedSwitches ==
  ASSUME VcpuLifeAssumption, IInv, OInv, NEW c \in Cpu,
         NEW th \in [Vcpu -> Thread], NEW q \in Seq(Vcpu),
         GoodQueue(c, q), \A k \in 1 .. Len(q) : th[q[k]] = "ready",
         \A v \in Vcpu : \/ th[v] = thread[v]
                         \/ /\ Pin[v] = c /\ thread[v] = "running"
                            /\ th[v] \in {"ready", "death"},
         thread_resched(c, th, q)
  PROVE  Switched(c)
  <1>1. CASE q = <<>>
    <2>1. /\ rq' = [rq EXCEPT ![c] = q] /\ thread' = th
          /\ cur' = [cur EXCEPT ![c] = Host]
      BY <1>1 DEF thread_resched
    <2>2. /\ rq'[c] = q /\ Len(q) = 0 /\ cur'[c] = Host
          /\ \A d \in Cpu \ {c} : cur'[d] = cur[d] /\ rq'[d] = rq[d]
      BY <1>1, <2>1 DEF IInv, TypeOK
    <2>3. ASSUME NEW v \in Vcpu, Queued(v)' PROVE thread'[v] = "ready"
      <3>1. Pin[v] # c /\ Pin[v] \in Cpu
        BY <2>2, <2>3 DEF Queued, VcpuLifeAssumption
      <3>2. Queued(v)
        BY <2>2, <2>3, <3>1 DEF Queued
      <3>3. thread[v] = "ready"
        BY <3>2 DEF OInv, ThreadsSound
      <3> QED BY <2>1, <3>1, <3>3
    <2> QED BY <2>1, <2>2, <2>3 DEF Switched
  <1>2. CASE q # <<>>
    <2> DEFINE n == Head(q)
    <2>1. /\ Len(q) \in Nat /\ Len(q) >= 1 /\ n = q[1] /\ n \in Vcpu
          /\ Tail(q) \in Seq(Vcpu) /\ Len(Tail(q)) = Len(q) - 1
          /\ \A k \in 1 .. (Len(q) - 1) : Tail(q)[k] = q[k + 1]
      BY <1>2, TailFacts
    <2>2. n # Host /\ Pin[n] = c /\ th[n] = "ready"
      BY <2>1 DEF Host, Vcpu, GoodQueue
    <2>3. /\ rq' = [rq EXCEPT ![c] = Tail(q)]
          /\ thread' = [th EXCEPT ![n] = "running"]
          /\ cur' = [cur EXCEPT ![c] = n]
      BY <1>2, <2>2 DEF thread_resched
    <2> HIDE DEF n
    <2>4. /\ rq'[c] = Tail(q) /\ cur'[c] = n /\ thread'[n] = "running"
          /\ \A d \in Cpu \ {c} : cur'[d] = cur[d] /\ rq'[d] = rq[d]
          /\ \A v \in Vcpu \ {n} : thread'[v] = th[v]
      BY <2>1, <2>3 DEF IInv, TypeOK
    <2>5. ASSUME NEW v \in Vcpu, Queued(v)' PROVE thread'[v] = "ready"
      <3>1. CASE Pin[v] = c
        <4>1. PICK k \in 1 .. (Len(q) - 1) : Tail(q)[k] = v
          BY <2>1, <2>4, <2>5, <3>1, ZenonT(40) DEF Queued
        <4>2. k + 1 \in 1 .. Len(q) /\ 1 \in 1 .. Len(q) /\ k + 1 # 1
          BY <2>1
        <4>3. q[k + 1] = v /\ v # n /\ th[v] = "ready"
          BY <2>1, <4>1, <4>2 DEF GoodQueue
        <4> QED BY <2>4, <4>3
      <3>2. CASE Pin[v] # c
        <4>1. Pin[v] \in Cpu /\ Queued(v)
          BY <2>4, <2>5, <3>2 DEF Queued, VcpuLifeAssumption
        <4>2. thread[v] = "ready" /\ v # n
          BY <2>2, <3>2, <4>1 DEF OInv, ThreadsSound
        <4> QED BY <2>4, <3>2, <4>2
      <3> QED BY <3>1, <3>2
    <2>6. ASSUME NEW v \in Vcpu
          PROVE  \/ thread'[v] = thread[v]
                 \/ /\ Pin[v] = c /\ thread[v] \in {"ready", "running"}
                    /\ thread'[v] \in {"ready", "running", "death"}
      <3>1. CASE v = n
        <4>1. th[v] = "ready" /\ Pin[v] = c /\ thread'[v] = "running"
          BY <2>2, <2>4, <3>1
        <4> QED BY <4>1
      <3>2. CASE v # n
        BY <2>4, <3>2
      <3> QED BY <3>1, <3>2
    <2> QED BY <2>4, <2>5, <2>6 DEF Switched
  <1> QED BY <1>1, <1>2

\* A step of cpu c that goes on at w with locals o leaves alone what the code
\* of another cpu d relies on.
LEMMA OthersKeep ==
  ASSUME VcpuLifeAssumption, IInv, OInv, NEW c \in Cpu, NEW w, NEW o,
         CodeStep(c, w, o), NEW d \in Cpu \ {c}, cur'[d] = cur[d],
         cur[d] # Host /\ thread[cur[d]] \in {"running", "blocked"} =>
           thread'[cur[d]] = thread[cur[d]],
         cur[d] = Primary => at'[Primary] = at[Primary],
         pc[d] = "start" /\ op[d].from = "console" =>
           w = "run" /\ status' = status /\ evq' = evq,
         pc[d] = "resume" =>
           /\ thread'[op[d].v] = "suspended" /\ status'[op[d].v] = "ready"
           /\ w # "resume" \/ o.v # op[d].v,
         pc[d] = "stop" => status'[op[d].v] = "shutdown",
         d = Home /\ pc[d] \in {"stop", "free"} =>
           mem' = mem /\ status'[Primary] = status[Primary]
  PROVE  StartingAt(d)' /\ StoppingAt(d)'
  <1>1. /\ pc'[c] = w /\ op'[c] = o
        /\ \A e \in Cpu \ {c} : pc'[e] = pc[e] /\ op'[e] = op[e]
    BY CodeFacts
  <1>2. StartingAt(d) /\ StoppingAt(d)
    BY DEF OInv
  <1>3. /\ Primary # Host /\ (pc[d] \in {"loop", "free", "block"} => d = Home)
        /\ pc[d] \in {"off", "stop"} /\ op[d].from # "irq" => d = Home
    BY AtHome
  <1>4. pc'[d] = pc[d] /\ op'[d] = op[d]
    BY <1>1
  <1>5. InTrap(d) => InTrap(d)'
    BY <1>3 DEF InTrap
  <1>6. StartingAt(d)'
    <2>1. pc'[d] \in {"start", "resume"} =>
            \/ op'[d].from = "guest" /\ InTrap(d)'
            \/ op'[d].from = "console" /\ cur'[d] = Host /\ op'[d].v = Primary
      BY <1>2, <1>4, <1>5 DEF StartingAt
    <2>2. pc'[d] = "start" /\ op'[d].from = "console" =>
            /\ \A v \in Vcpu : IsOff(v)'
            /\ \A e \in Cpu : evq'[e] = <<>> /\ (e # d => pc'[e] = "run")
      BY <1>1, <1>2, <1>4 DEF StartingAt, IsOff
    <2>3. pc'[d] = "resume" =>
            /\ thread'[op'[d].v] = "suspended" /\ status'[op'[d].v] = "ready"
            /\ \A e \in Cpu : pc'[e] = "resume" /\ op'[e].v = op'[d].v => e = d
      BY <1>1, <1>2, <1>4 DEF StartingAt
    <2> QED BY <2>1, <2>2, <2>3 DEF StartingAt
  <1>7. StoppingAt(d)'
    <2>1. pc'[d] = "loop" => InTrap(d)' /\ op'[d].self = Primary
      BY <1>2, <1>4, <1>5 DEF StoppingAt
    <2>2. pc'[d] \in {"off", "stop"} =>
            \/ op'[d].from = "loop" /\ InTrap(d)' /\ op'[d].self = Primary
                 /\ op'[d].v # Primary
            \/ op'[d].from = "last" /\ InTrap(d)' /\ op'[d].v = Primary
            \/ /\ op'[d].from = "irq" /\ op'[d].v # Primary /\ Pin[op'[d].v] = d
               /\ cur'[d] # Host => thread'[cur'[d]] = "running"
      BY <1>2, <1>4, <1>5 DEF StoppingAt
    <2>3. pc'[d] = "stop" =>
            status'[op'[d].v] = "shutdown" /\ (op'[d].from = "last" => mem')
      BY <1>2, <1>3, <1>4 DEF StoppingAt
    <2>4. pc'[d] = "free" =>
            /\ cur'[d] = Primary /\ thread'[Primary] = "blocked"
            /\ status'[Primary] = "shutdown" /\ op'[d].sched /\ mem'
      BY <1>2, <1>3, <1>4 DEF StoppingAt
    <2>5. pc'[d] = "block" => cur'[d] = Primary /\ thread'[Primary] = "blocked"
      BY <1>2, <1>3, <1>4 DEF StoppingAt
    <2>6. pc'[d] = "sched" =>
            \/ op'[d].from = "console" /\ cur'[d] = Host
            \/ /\ op'[d].from = "irq" /\ cur'[d] # Host
               /\ thread'[cur'[d]] = "blocked"
      BY <1>2, <1>4 DEF StoppingAt
    <2> QED BY <2>1, <2>2, <2>3, <2>4, <2>5, <2>6 DEF StoppingAt
  <1> QED BY <1>6, <1>7

\* A switch of threads, by a preemption or when a trap ends, leaves the
\* hypervisor.  A boot vcpu that could not load has no memory.
LEMMA SwitchKeeps ==
  ASSUME VcpuLifeAssumption, IInv, OInv, NEW c \in Cpu, Switched(c),
         pc[c] \in {"run", "sched", "block"}, CodeStep(c, "run", op[c]),
         UNCHANGED <<status, evq, at, fault>>,
         mem' = mem \/ (at[Primary] = "entry" /\ c = Home)
  PROVE  OInv'
  <1>1. /\ pc'[c] = "run" /\ op'[c] = op[c]
        /\ \A e \in Cpu \ {c} : pc'[e] = pc[e] /\ op'[e] = op[e]
    BY CodeFacts
  <1>2. /\ \A d \in Cpu : cur[d] # Host => cur[d] \in Vcpu /\ Pin[cur[d]] = d
        /\ \A d \in Cpu : op[d].v \in Vcpu
        /\ Primary \in Vcpu /\ Home \in Cpu
        /\ \A d \in Cpu :
             pc[d] \in {"off", "stop"} /\ op[d].from # "irq" => d = Home
        /\ \A v \in Vcpu : Pin[v] \in Cpu
    BY AtHome DEF VcpuLifeAssumption
  <1>3. \A v \in Vcpu : \/ Pin[v] # c
                        \/ thread[v] \notin {"ready", "running"}
                        => thread'[v] = thread[v]
    BY DEF Switched
  <1>4. StatusThread'
    <2> SUFFICES ASSUME NEW v \in Vcpu
                 PROVE  /\ status[v] # "blocked"
                        /\ status[v] = "created" =>
                             thread'[v] = "suspended" /\ at[v] = "entry"
                        /\ status[v] = "shutdown" =>
                             \/ thread'[v] = "blocked"
                             \/ pc'[Pin[v]] = "stop" /\ op'[Pin[v]].v = v
      BY DEF StatusThread
    <2> QED BY <1>1, <1>2, <1>3 DEF OInv, StatusThread
  <1>5. ThreadsSound'
    <2>1. ASSUME NEW d \in Cpu, pc'[d] = "run", cur'[d] # Host
          PROVE  thread'[cur'[d]] = "running"
      <3>1. CASE d = c
        BY <2>1, <3>1 DEF Switched
      <3>2. CASE d # c
        <4>1. cur'[d] = cur[d] /\ pc[d] = "run"
          BY <1>1, <2>1, <3>2 DEF Switched
        <4>2. cur[d] \in Vcpu /\ Pin[cur[d]] # c /\ thread[cur[d]] = "running"
          BY <1>2, <2>1, <3>2, <4>1 DEF OInv, ThreadsSound
        <4> QED BY <1>3, <4>1, <4>2
      <3> QED BY <3>1, <3>2
    <2> QED BY <2>1 DEF ThreadsSound, Switched
  <1>6. HasMemory'
    BY DEF OInv, HasMemory
  <1>7. ASSUME NEW d \in Cpu PROVE StartingAt(d)' /\ StoppingAt(d)'
    <2>1. CASE d = c
      BY <1>1, <2>1 DEF StartingAt, StoppingAt
    <2>2. CASE d # c
      <3>1. cur'[d] = cur[d]
        BY <2>2 DEF Switched
      <3>2. cur[d] # Host /\ thread[cur[d]] \in {"running", "blocked"} =>
              thread'[cur[d]] = thread[cur[d]]
        BY <1>2, <1>3, <2>2
      <3>3. StartingAt(d) /\ StoppingAt(d)
        BY DEF OInv
      <3>4. pc[d] = "resume" =>
              /\ thread'[op[d].v] = "suspended"
              /\ status'[op[d].v] = "ready"
        BY <1>2, <1>3, <3>3 DEF StartingAt
      <3>5. pc[d] = "stop" => status'[op[d].v] = "shutdown"
        BY <3>3 DEF StoppingAt
      <3>6. d = Home => mem' = mem
        BY <2>2
      <3> QED BY <2>2, <3>1, <3>2, <3>4, <3>5, <3>6, OthersKeep
    <2> QED BY <2>1, <2>2
  <1>8. ASSUME NEW d \in Cpu PROVE EventsAt(d)'
    <2>1. ByEvent(d)' => ByEvent(d)
      BY <1>1 DEF ByEvent
    <2>2. EventsAt(d)
      BY DEF OInv
    <2> QED BY <1>1, <1>2, <2>1, <2>2 DEF EventsAt, Home
  <1> QED BY <1>4, <1>5, <1>6, <1>7, <1>8 DEF OInv

\* Where the boot vcpu runs outside a power-off of itself, it is on: so no
\* machine is being started at a console, and no vcpu powered off by event.
LEMMA BootOn ==
  ASSUME VcpuLifeAssumption, IInv, OInv, thread[Primary] = "running",
         pc[Home] \notin {"loop", "off", "stop"}
  PROVE  /\ status[Primary] = "ready"
         /\ \A d \in Cpu : evq[d] = <<>> /\ ~ByEvent(d)
         /\ \A d \in Cpu : ~(pc[d] = "start" /\ op[d].from = "console")
  <1>1. Primary \in Vcpu /\ Pin[Primary] = Home /\ Home \in Cpu
    BY DEF VcpuLifeAssumption, Primary, Vcpu, Home
  <1>2. status[Primary] = "ready"
    BY <1>1, LiveIsOn
  <1>3. \A d \in Cpu : evq[d] = <<>> /\ ~ByEvent(d)
    BY <1>2 DEF OInv, EventsAt
  <1>4. \A d \in Cpu : ~(pc[d] = "start" /\ op[d].from = "console")
    BY <1>1, <1>2 DEF OInv, StartingAt, IsOff
  <1> QED BY <1>2, <1>3, <1>4

\* While a vcpu is started nothing is powered off anywhere.
LEMMA StartIsQuiet ==
  ASSUME VcpuLifeAssumption, IInv, OInv, NEW c \in Cpu, pc[c] = "start"
  PROVE  \A d \in Cpu :
           /\ evq[d] = <<>> /\ ~ByEvent(d)
           /\ pc[d] \notin {"loop", "off", "stop", "free", "block"}
           /\ d # c => ~(pc[d] = "start" /\ op[d].from = "console")
  <1>1. StartingAt(c)
    BY DEF OInv
  <1>2. CASE op[c].from = "guest" /\ InTrap(c)
    <2>1. c = Home /\ thread[Primary] = "running" /\ pc[Home] = "start"
      BY <1>2, AtHome DEF InTrap
    <2>2. \A d \in Cpu : /\ evq[d] = <<>> /\ ~ByEvent(d)
                         /\ ~(pc[d] = "start" /\ op[d].from = "console")
      BY <2>1, BootOn
    <2>3. \A d \in Cpu :
            /\ pc[d] \in {"loop", "free", "block"} => d = Home
            /\ pc[d] \in {"off", "stop"} /\ op[d].from # "irq" => d = Home
      BY AtHome
    <2> QED BY <2>1, <2>2, <2>3 DEF ByEvent
  <1>3. CASE op[c].from = "console"
    <2>1. \A d \in Cpu : evq[d] = <<>> /\ (d # c => pc[d] = "run")
      BY <1>1, <1>3 DEF StartingAt
    <2> QED BY <2>1 DEF ByEvent
  <1> QED BY <1>1, <1>2, <1>3 DEF StartingAt

\* A step of cpu c that only moves its own code on, to a place where the code
\* finds what it relies on.
LEMMA CodeKeeps ==
  ASSUME VcpuLifeAssumption, IInv, OInv, NEW c \in Cpu, NEW w, NEW o,
         CodeStep(c, w, o), UNCHANGED <<machine, evq, mem, fault>>,
         pc[c] # "stop", w # "resume",
         w = "run" /\ cur[c] # Host => thread[cur[c]] = "running",
         w # "run" => \A d \in Cpu \ {c} :
                        ~(pc[d] = "start" /\ op[d].from = "console"),
         ~(w \in {"off", "stop", "sched"} /\ o.from = "irq"),
         c = Home /\ pc[c] \in {"loop", "off"} => w \in {"loop", "off"},
         StartingAt(c)', StoppingAt(c)'
  PROVE  OInv'
  <1>1. /\ pc'[c] = w /\ op'[c] = o
        /\ \A e \in Cpu \ {c} : pc'[e] = pc[e] /\ op'[e] = op[e]
    BY CodeFacts
  <1>2. UNCHANGED <<status, thread, at, rq, cur, evq, mem, fault>>
    BY DEF machine
  <1>3. Home \in Cpu /\ \A v \in Vcpu : Pin[v] \in Cpu
    BY AtHome DEF VcpuLifeAssumption
  <1>4. StatusThread'
    BY <1>1, <1>2, <1>3 DEF OInv, StatusThread
  <1>5. ThreadsSound'
    BY <1>1, <1>2 DEF OInv, ThreadsSound, Queued
  <1>6. HasMemory'
    BY <1>2 DEF OInv, HasMemory
  <1>7. ASSUME NEW d \in Cpu PROVE StartingAt(d)' /\ StoppingAt(d)'
    <2>1. CASE d # c
      <3>1. StartingAt(d) /\ StoppingAt(d)
        BY DEF OInv
      <3>2. pc[d] = "resume" =>
              /\ thread'[op[d].v] = "suspended"
              /\ status'[op[d].v] = "ready"
        BY <1>2, <3>1 DEF StartingAt
      <3>3. pc[d] = "stop" => status'[op[d].v] = "shutdown"
        BY <1>2, <3>1 DEF StoppingAt
      <3> QED BY <1>2, <2>1, <3>2, <3>3, OthersKeep
    <2> QED BY <2>1
  <1>8. ASSUME NEW d \in Cpu PROVE EventsAt(d)'
    <2>1. ByEvent(d)' => ByEvent(d)
      BY <1>1 DEF ByEvent
    <2>2. EventsAt(d)
      BY DEF OInv
    <2> QED BY <1>1, <1>2, <1>3, <2>1, <2>2 DEF EventsAt
  <1> QED BY <1>2, <1>4, <1>5, <1>6, <1>7, <1>8 DEF OInv

-----------------------------------------------------------------------------
(* Orderly use: the calls.                                                 *)

\* A guest that calls is the boot vcpu's, on its own cpu, and makes no other
\* call than these.
LEMMA OrderlyGuest ==
  ASSUME VcpuLifeAssumption, IInv, OInv, Orderly, NEW c \in Cpu,
         NEW v \in Vcpu, NEW k, Guest(c, v, k)
  PROVE  /\ v = Primary /\ k \in {"on", "sysoff", "reset"} /\ c = Home
         /\ cur[c] = Primary /\ here[c] = Primary /\ pc[c] = "run"
         /\ thread[Primary] = "running" /\ at[Primary] = "guest"
  <1>1. v = Primary /\ k \in {"on", "sysoff", "reset"}
    BY DEF Guest, Orderly
  <1>2. cur[c] = Primary /\ at[Primary] = "guest" /\ pc[c] = "run"
    BY <1>1 DEF Guest, Is
  <1>3. c = Home /\ Primary # Host
    BY <1>2, AtHome
  <1>4. thread[Primary] = "running"
    BY <1>2, <1>3 DEF OInv, ThreadsSound
  <1>5. here[c] = Primary
    BY <1>2, <1>3 DEF IInv, CurrentVcpuExact
  <1> QED BY <1>1, <1>2, <1>3, <1>4, <1>5

\* psci_vcpu_on: the boot vcpu's trap goes on to start a vcpu.
LEMMA OnKeeps ==
  ASSUME VcpuLifeAssumption, IInv, OInv, Orderly, NEW c \in Cpu,
         NEW v \in Vcpu, NEW t \in Vcpu, psci_vcpu_on(c, v, t)
  PROVE  OInv'
  <1> DEFINE o == [NoOp EXCEPT !.v = t]
  <1>1. /\ c = Home /\ cur[c] = Primary /\ pc[c] = "run"
        /\ thread[Primary] = "running" /\ at[Primary] = "guest"
    BY OrderlyGuest DEF psci_vcpu_on
  <1>2. CodeStep(c, "start", o) /\ UNCHANGED <<machine, evq, mem, fault>>
    BY DEF psci_vcpu_on, Trap, CodeStep, GoTo, Goes, wires
  <1>3. o.from = "guest" /\ o.v = t
    BY DEF NoOp
  <1> HIDE DEF o
  <1>4. pc'[c] = "start" /\ op'[c] = o
    BY <1>2, CodeFacts
  <1>5. StartingAt(c)' /\ StoppingAt(c)'
    BY <1>1, <1>2, <1>3, <1>4 DEF StartingAt, StoppingAt, InTrap, machine
  <1>6. \A d \in Cpu : ~(pc[d] = "start" /\ op[d].from = "console")
    BY <1>1, BootOn
  <1> QED BY <1>1, <1>2, <1>3, <1>5, <1>6, CodeKeeps

\* psci_sys_off and psci_sys_reset find the boot vcpu on, and go on to the
\* loop of lkhv_shutdown_vm.
LEMMA SysKeeps ==
  ASSUME VcpuLifeAssumption, IInv, OInv, Orderly, NEW c \in Cpu,
         NEW v \in Vcpu, NEW reset \in BOOLEAN, psci_sys(c, v, reset)
  PROVE  OInv'
  <1> DEFINE o == [NoOp EXCEPT !.self = here[c], !.reset = reset]
  <1>1. /\ c = Home /\ cur[c] = Primary /\ pc[c] = "run"
        /\ here[c] = Primary
        /\ thread[Primary] = "running" /\ at[Primary] = "guest"
    BY OrderlyGuest DEF psci_sys
  <1>2. /\ status[Primary] = "ready"
        /\ \A d \in Cpu : ~(pc[d] = "start" /\ op[d].from = "console")
    BY <1>1, BootOn
  <1>3. CodeStep(c, "loop", o) /\ UNCHANGED <<machine, evq, mem, fault>>
    BY <1>1, <1>2 DEF psci_sys, Trap, CodeStep, GoTo, Goes, wires
  <1>4. o.from = "guest" /\ o.self = Primary
    BY <1>1 DEF NoOp
  <1> HIDE DEF o
  <1>5. pc'[c] = "loop" /\ op'[c] = o
    BY <1>3, CodeFacts
  <1>6. StartingAt(c)' /\ StoppingAt(c)'
    BY <1>1, <1>3, <1>4, <1>5 DEF StartingAt, StoppingAt, InTrap, machine
  <1> QED BY <1>1, <1>2, <1>3, <1>4, <1>6, CodeKeeps

\* vm_start finds the machine at rest, so nothing else is under way.
LEMMA VmStartKeeps ==
  ASSUME VcpuLifeAssumption, IInv, OInv, Orderly, NEW c \in Cpu, vm_start(c)
  PROVE  OInv'
  <1> DEFINE o == [NoOp EXCEPT !.from = "console"]
  <1>1. cur[c] = Host /\ AtRest /\ pc[c] = "run"
    BY DEF vm_start, Orderly, Is
  <1>2. CodeStep(c, "start", o) /\ UNCHANGED <<machine, evq, mem, fault>>
    BY DEF vm_start, CodeStep, GoTo, Goes
  <1>3. o.from = "console" /\ o.v = Primary
    BY DEF NoOp
  <1> HIDE DEF o
  <1>4. /\ pc'[c] = "start" /\ op'[c] = o
        /\ \A e \in Cpu \ {c} : pc'[e] = pc[e] /\ op'[e] = op[e]
    BY <1>2, CodeFacts
  <1>5. StartingAt(c)'
    BY <1>1, <1>2, <1>3, <1>4 DEF StartingAt, machine, AtRest, IsOff
  <1>6. StoppingAt(c)'
    BY <1>4 DEF StoppingAt
  <1>7. \A d \in Cpu : pc[d] = "run"
    BY <1>1 DEF AtRest
  <1> QED BY <1>1, <1>2, <1>3, <1>5, <1>6, <1>7, CodeKeeps

-----------------------------------------------------------------------------
(* Orderly use: the shutdown.                                              *)

\* The loop powers every other vcpu off, then the boot vcpu.
LEMMA LoopKeeps ==
  ASSUME VcpuLifeAssumption, IInv, OInv, NEW c \in Cpu, Shutdown_loop(c)
  PROVE  OInv'
  <1>1. pc[c] = "loop" /\ InTrap(c) /\ op[c].self = Primary /\ c = Home
    BY AtHome DEF Shutdown_loop, Is, OInv, StoppingAt
  <1>2. UNCHANGED <<machine, evq, mem, fault>> /\ op[c] \in OpType
    BY DEF Shutdown_loop, Goes, wires, IInv, TypeOK
  <1>3. \A d \in Cpu \ {c} : ~(pc[d] = "start" /\ op[d].from = "console")
    BY <1>1 DEF OInv, StartingAt
  <1>4. InTrap(c)'
    BY <1>1, <1>2 DEF InTrap, machine
  <1>5. PICK w, o : /\ CodeStep(c, w, o) /\ w \in {"loop", "off"}
                    /\ o.self = Primary
                    /\ w = "off" => \/ o.from = "loop" /\ o.v # Primary
                                    \/ o.from = "last" /\ o.v = Primary
    <2>1. CASE /\ op' = [op EXCEPT ![c].v = op[c].self, ![c].from = "last"]
               /\ GoTo(c, "off")
      <3> DEFINE o == [op[c] EXCEPT !.v = op[c].self, !.from = "last"]
      <3>1. o.self = Primary /\ o.from = "last" /\ o.v = Primary
        BY <1>1, <1>2 DEF OpType
      <3>2. CodeStep(c, "off", o)
        BY <2>1 DEF CodeStep, GoTo, IInv, TypeOK
      <3> QED BY <3>1, <3>2
    <2>2. CASE op' = [op EXCEPT ![c].i = op[c].i + 1] /\ UNCHANGED pc
      <3> DEFINE o == [op[c] EXCEPT !.i = op[c].i + 1]
      <3>1. o.self = Primary
        BY <1>1, <1>2 DEF OpType
      <3>2. CodeStep(c, "loop", o)
        BY <1>1, <2>2 DEF CodeStep, IInv, TypeOK
      <3> HIDE DEF o
      <3> QED BY <3>1, <3>2
    <2>3. CASE /\ op[c].i # op[c].self
               /\ op' = [op EXCEPT ![c].v = op[c].i, ![c].from = "loop",
                                   ![c].i = op[c].i + 1]
               /\ GoTo(c, "off")
      <3> DEFINE o == [op[c] EXCEPT !.v = op[c].i, !.from = "loop",
                                    !.i = op[c].i + 1]
      <3>1. o.self = Primary /\ o.from = "loop" /\ o.v # Primary
        BY <1>1, <1>2, <2>3 DEF OpType
      <3>2. CodeStep(c, "off", o)
        BY <2>3 DEF CodeStep, GoTo, IInv, TypeOK
      <3> QED BY <3>1, <3>2
    <2> QED BY <2>1, <2>2, <2>3 DEF Shutdown_loop
  <1>6. pc'[c] = w /\ op'[c] = o
    BY <1>5, CodeFacts
  <1>7. StartingAt(c)' /\ StoppingAt(c)'
    BY <1>4, <1>5, <1>6 DEF StartingAt, StoppingAt
  <1> QED BY <1>1, <1>2, <1>3, <1>5, <1>7, CodeKeeps

\* lkhv_vm_free_mem finds the memory, and the boot vcpu's thread blocked.
LEMMA FreeKeeps ==
  ASSUME VcpuLifeAssumption, IInv, OInv, NEW c \in Cpu, lkhv_vm_free_mem(c)
  PROVE  OInv'
  <1> DEFINE o == [op[c] EXCEPT !.v = Primary, !.from = "guest"]
  <1>1. /\ pc[c] = "free" /\ cur[c] = Primary /\ thread[Primary] = "blocked"
        /\ status[Primary] = "shutdown" /\ op[c].sched /\ mem
    BY DEF lkhv_vm_free_mem, Is, OInv, StoppingAt
  <1>2. c = Home /\ Home \in Cpu /\ \A v \in Vcpu : Pin[v] \in Cpu
    BY <1>1, AtHome DEF VcpuLifeAssumption
  <1>3. /\ CodeStep(c, "block", o)
        /\ UNCHANGED <<status, thread, at, rq, cur, evq, fault>>
    BY <1>1 DEF lkhv_vm_free_mem, CodeStep, GoTo, Goes, machine, IInv, TypeOK
  <1> HIDE DEF o
  <1>4. /\ pc'[c] = "block" /\ op'[c] = o
        /\ \A e \in Cpu \ {c} : pc'[e] = pc[e] /\ op'[e] = op[e]
    BY <1>3, CodeFacts
  <1>5. StatusThread'
    BY <1>1, <1>2, <1>3, <1>4 DEF OInv, StatusThread
  <1>6. ThreadsSound'
    BY <1>3, <1>4 DEF OInv, ThreadsSound, Queued
  <1>7. HasMemory'
    BY <1>1, <1>3 DEF HasMemory
  <1>8. ASSUME NEW d \in Cpu PROVE StartingAt(d)' /\ StoppingAt(d)'
    <2>1. CASE d = c
      BY <1>1, <1>3, <1>4, <2>1 DEF StartingAt, StoppingAt
    <2>2. CASE d # c
      <3>1. StartingAt(d) /\ StoppingAt(d)
        BY DEF OInv
      <3>2. pc[d] = "resume" =>
              /\ thread'[op[d].v] = "suspended"
              /\ status'[op[d].v] = "ready"
        BY <1>3, <3>1 DEF StartingAt
      <3>3. pc[d] = "stop" => status'[op[d].v] = "shutdown"
        BY <1>3, <3>1 DEF StoppingAt
      <3>4. ~(pc[d] = "start" /\ op[d].from = "console")
        BY <1>1, <2>2, <3>1 DEF StartingAt
      <3> QED BY <1>2, <1>3, <2>2, <3>2, <3>3, <3>4, OthersKeep
    <2> QED BY <2>1, <2>2
  <1>9. ASSUME NEW d \in Cpu PROVE EventsAt(d)'
    <2>1. ByEvent(d)' => ByEvent(d)
      BY <1>4 DEF ByEvent
    <2>2. EventsAt(d)
      BY DEF OInv
    <2> QED BY <1>1, <1>3, <2>1, <2>2 DEF EventsAt
  <1> QED BY <1>3, <1>5, <1>6, <1>7, <1>8, <1>9 DEF OInv

\* hv_event_handler takes an event only while the machine is shut down.
LEMMA EventKeeps ==
  ASSUME VcpuLifeAssumption, IInv, OInv, NEW c \in Cpu, hv_event_handler(c)
  PROVE  OInv'
  <1>1. /\ pc[c] = "run"
        /\ UNCHANGED <<status, thread, at, rq, cur, mem, fault>>
    BY DEF hv_event_handler, Is, Goes, machine
  <1>2. CASE evq[c] = <<>> /\ UNCHANGED <<evq, pc, op>>
    BY <1>1, <1>2 DEF OInv, StatusThread, ThreadsSound, HasMemory, Queued,
       StartingAt, StoppingAt, EventsAt, ByEvent, InTrap, IsOff
  <1>3. CASE /\ evq[c] # <<>>
             /\ evq' = [evq EXCEPT ![c] = Tail(@)]
             /\ op' = [op EXCEPT ![c] = [NoOp EXCEPT !.v = Head(evq[c]),
                                                     !.from = "irq"]]
             /\ GoTo(c, "off")
    <2> DEFINE o == [NoOp EXCEPT !.v = Head(evq[c]), !.from = "irq"]
    <2>1. CodeStep(c, "off", o) /\ o.from = "irq" /\ o.v = Head(evq[c])
      BY <1>3 DEF CodeStep, GoTo, NoOp
    <2> HIDE DEF o
    <2>2. /\ pc'[c] = "off" /\ op'[c] = o
          /\ \A e \in Cpu \ {c} : pc'[e] = pc[e] /\ op'[e] = op[e]
      BY <2>1, CodeFacts
    <2> DEFINE q == evq[c]
    <2>3. /\ q \in Seq(Vcpu) /\ evq'[c] = Tail(q)
          /\ \A e \in Cpu \ {c} : evq'[e] = evq[e]
      BY <1>3 DEF IInv, TypeOK
    <2>4. /\ Len(q) \in Nat /\ Len(q) >= 1 /\ Head(q) = q[1] /\ Head(q) \in Vcpu
          /\ Len(Tail(q)) = Len(q) - 1
          /\ \A k \in 1 .. (Len(q) - 1) : Tail(q)[k] = q[k + 1]
      BY <1>3, <2>3, TailFacts
    <2>5. /\ c # Home
          /\ status[Primary] = "shutdown" \/ pc[Home] \in {"loop", "off", "stop"}
          /\ \A k \in 1 .. Len(q) : Pin[q[k]] = c /\ q[k] # Primary
      BY <1>3 DEF OInv, EventsAt
    <2>6. Home \in Cpu /\ \A v \in Vcpu : Pin[v] \in Cpu
      BY AtHome DEF VcpuLifeAssumption
    <2> HIDE DEF q
    <2>7. Pin[Head(q)] = c /\ Head(q) # Primary
      BY <2>4, <2>5
    <2>8. \A k \in 1 .. Len(Tail(q)) :
            Pin[Tail(q)[k]] = c /\ Tail(q)[k] # Primary
      <3> TAKE k \in 1 .. Len(Tail(q))
      <3>1. k \in 1 .. (Len(q) - 1) /\ k + 1 \in 1 .. Len(q)
        BY <2>4
      <3> QED BY <2>4, <2>5, <3>1
    <2>9. StatusThread'
      BY <1>1, <2>2, <2>6 DEF OInv, StatusThread
    <2>10. ThreadsSound'
      BY <1>1, <2>2 DEF OInv, ThreadsSound, Queued
    <2>11. HasMemory'
      BY <1>1 DEF OInv, HasMemory
    <2>12. ASSUME NEW d \in Cpu PROVE StartingAt(d)' /\ StoppingAt(d)'
      <3>1. CASE d = c
        <4>1. cur[c] # Host => thread[cur[c]] = "running"
          BY <1>1 DEF OInv, ThreadsSound
        <4>2. o.v = Head(q)
          BY <2>1 DEF q
        <4> QED BY <1>1, <2>1, <2>2, <2>7, <3>1, <4>1, <4>2
            DEF StartingAt, StoppingAt
      <3>2. CASE d # c
        <4>1. StartingAt(d) /\ StoppingAt(d)
          BY DEF OInv
        <4>2. pc[d] = "resume" =>
                /\ thread'[op[d].v] = "suspended"
                /\ status'[op[d].v] = "ready"
          BY <1>1, <4>1 DEF StartingAt
        <4>3. pc[d] = "stop" => status'[op[d].v] = "shutdown"
          BY <1>1, <4>1 DEF StoppingAt
        <4>4. ~(pc[d] = "start" /\ op[d].from = "console")
          BY <1>3, <4>1 DEF StartingAt
        <4> QED BY <1>1, <2>1, <3>2, <4>2, <4>3, <4>4, OthersKeep
      <3> QED BY <3>1, <3>2
    <2>13. ASSUME NEW d \in Cpu PROVE EventsAt(d)'
      <3>1. CASE d = c
        <4>1. status'[Primary] = "shutdown" \/ pc'[Home] \in {"loop", "off", "stop"}
          BY <1>1, <2>2, <2>5, <2>6
        <4> QED BY <2>3, <2>5, <2>8, <3>1, <4>1 DEF EventsAt
      <3>2. CASE d # c
        <4>1. ByEvent(d)' => ByEvent(d)
          BY <2>2, <3>2 DEF ByEvent
        <4>2. EventsAt(d)
          BY DEF OInv
        <4> QED BY <1>1, <2>2, <2>3, <2>5, <2>6, <3>2, <4>1, <4>2 DEF EventsAt
      <3> QED BY <3>1, <3>2
    <2> QED BY <1>1, <2>9, <2>10, <2>11, <2>12, <2>13 DEF OInv
  <1> QED BY <1>2, <1>3 DEF hv_event_handler

\* A vcpu that cpu c powers off is not one that another cpu starts.
LEMMA OffNotStarted ==
  ASSUME VcpuLifeAssumption, IInv, OInv, NEW c \in Cpu, pc[c] = "off",
         NEW d \in Cpu, pc[d] = "resume"
  PROVE  op[d].v # op[c].v
  <1>1. StartingAt(d) /\ StoppingAt(c) /\ EventsAt(c)
    BY DEF OInv
  <1>2. CASE InTrap(c)
    <2>1. c = Home /\ thread[Primary] = "running"
      BY <1>2, AtHome DEF InTrap
    <2>2. thread[op[d].v] = "suspended"
      BY <1>1 DEF StartingAt
    <2>3. op[d].from # "guest"
      BY <2>1, AtHome
    <2> QED BY <1>1, <2>1, <2>2, <2>3 DEF StartingAt
  <1>3. CASE op[c].from = "irq" /\ op[c].v # Primary
    <2>1. CASE op[d].from = "guest" /\ InTrap(d)
      <3>1. d = Home /\ thread[Primary] = "running"
        BY <2>1, AtHome DEF InTrap
      <3>2. ~ByEvent(c)
        BY <3>1, BootOn, SMTT(40)
      <3> QED BY <1>3, <3>2 DEF ByEvent
    <2> QED BY <1>1, <1>3, <2>1 DEF StartingAt
  <1> QED BY <1>1, <1>2, <1>3 DEF StoppingAt

\* hv_vcpu_poweroff does nothing, or sends an event to another cpu, or marks
\* a vcpu of its own cpu.
LEMMA PoweroffKeeps ==
  ASSUME VcpuLifeAssumption, IInv, OInv, NEW c \in Cpu, hv_vcpu_poweroff(c)
  PROVE  OInv'
  <1> DEFINE v == op[c].v
             from == op[c].from
             o == [op[c] EXCEPT !.sched = @ \/ FALSE]
  <1>1. /\ pc[c] = "off" /\ v \in Vcpu /\ op[c] \in OpType
        /\ UNCHANGED <<thread, at, rq, cur, mem, fault>>
    BY DEF hv_vcpu_poweroff, Is, Goes, IInv, TypeOK, OpType
  <1>2. StoppingAt(c) /\ EventsAt(c)
    BY DEF OInv
  <1>3. \A d \in Cpu \ {c} : ~(pc[d] = "start" /\ op[d].from = "console")
    BY <1>1 DEF OInv, StartingAt
  <1>4. /\ Home \in Cpu /\ Primary \in Vcpu /\ Pin[Primary] = Home
        /\ \A u \in Vcpu : Pin[u] \in Cpu
        /\ InTrap(c) => c = Home
    BY AtHome DEF VcpuLifeAssumption
  <1>5. /\ o.v = v /\ o.from = from /\ o.self = op[c].self
    BY <1>1 DEF OpType
  <1>6. from = "irq" => c # Home
    BY <1>1, <1>2 DEF EventsAt, ByEvent
  <1>7. InTrap(c) => InTrap(c)'
    BY <1>1 DEF InTrap
  <1>8. InTrap(c) => status[Primary] = "ready"
    <2> SUFFICES ASSUME InTrap(c) PROVE status[Primary] = "ready"
      OBVIOUS
    <2>1. thread[Primary] = "running" /\ pc[Pin[Primary]] # "stop"
      BY <1>1, <1>4 DEF InTrap
    <2> QED BY <1>4, <2>1, LiveIsOn
  <1>9. CASE IsOff(v) /\ Poweroff_ret(c, FALSE) /\ UNCHANGED <<status, evq>>
    <2>1. UNCHANGED <<machine, evq, mem, fault>>
      BY <1>1, <1>9 DEF machine, hv_vcpu_poweroff
    <2>2. ~(from = "last")
      BY <1>1, <1>2, <1>8, <1>9 DEF StoppingAt, IsOff
    <2>3. CASE from = "loop"
      <3>1. CodeStep(c, "loop", o)
        BY <1>9, <2>3 DEF Poweroff_ret, CodeStep, GoTo, IInv, TypeOK
      <3>2. InTrap(c) /\ op[c].self = Primary
        BY <1>1, <1>2, <2>3 DEF StoppingAt
      <3> HIDE DEF o
      <3>3. pc'[c] = "loop" /\ op'[c] = o
        BY <3>1, CodeFacts
      <3>4. StartingAt(c)' /\ StoppingAt(c)'
        BY <1>5, <1>7, <3>2, <3>3 DEF StartingAt, StoppingAt
      <3> QED BY <1>1, <1>3, <2>1, <3>1, <3>4, CodeKeeps
    <2>4. CASE from = "irq"
      <3>1. CodeStep(c, "run", o)
        BY <1>9, <2>4 DEF Poweroff_ret, CodeStep, GoTo, IInv, TypeOK
      <3>2. cur[c] # Host => thread[cur[c]] = "running"
        BY <1>1, <1>2, <2>4 DEF StoppingAt
      <3> HIDE DEF o
      <3>3. pc'[c] = "run" /\ op'[c] = o
        BY <3>1, CodeFacts
      <3>4. StartingAt(c)' /\ StoppingAt(c)'
        BY <3>3 DEF StartingAt, StoppingAt
      <3> QED BY <1>1, <1>6, <2>1, <2>4, <3>1, <3>2, <3>4, CodeKeeps
    <2> QED BY <1>1, <1>2, <2>2, <2>3, <2>4 DEF StoppingAt
  <1>10. CASE /\ ~IsOff(v) /\ Pin[v] # c
              /\ evq' = [evq EXCEPT ![Pin[v]] = Append(@, v)]
              /\ Poweroff_ret(c, FALSE) /\ UNCHANGED status
    <2> DEFINE p == Pin[v]
    <2>1. from = "loop" /\ InTrap(c) /\ op[c].self = Primary /\ v # Primary
      BY <1>1, <1>2, <1>4, <1>10 DEF StoppingAt
    <2>2. CodeStep(c, "loop", o)
      BY <1>10, <2>1 DEF Poweroff_ret, CodeStep, GoTo, IInv, TypeOK
    <2> HIDE DEF o
    <2>3. /\ pc'[c] = "loop" /\ op'[c] = o
          /\ \A e \in Cpu \ {c} : pc'[e] = pc[e] /\ op'[e] = op[e]
      BY <2>2, CodeFacts
    <2>4. c = Home /\ p \in Cpu /\ p # Home
      BY <1>1, <1>4, <1>10, <2>1
    <2>5. /\ evq[p] \in Seq(Vcpu) /\ evq'[p] = Append(evq[p], v)
          /\ \A e \in Cpu \ {p} : evq'[e] = evq[e]
      BY <1>10, <2>4 DEF IInv, TypeOK
    <2>6. /\ Len(evq'[p]) = Len(evq[p]) + 1 /\ Len(evq[p]) \in Nat
          /\ \A k \in 1 .. Len(evq[p]) : evq'[p][k] = evq[p][k]
          /\ evq'[p][Len(evq[p]) + 1] = v
      <3>1. v \in Vcpu
        BY <1>1
      <3> HIDE DEF v, p
      <3> QED BY ONLY <2>5, <3>1, AppendProperties, LenProperties
    <2>7. StatusThread'
      BY <1>1, <1>4, <1>10, <2>3 DEF OInv, StatusThread
    <2>8. ThreadsSound'
      BY <1>1, <2>3 DEF OInv, ThreadsSound, Queued
    <2>9. HasMemory'
      BY <1>1, <1>10 DEF OInv, HasMemory
    <2>10. ASSUME NEW d \in Cpu PROVE StartingAt(d)' /\ StoppingAt(d)'
      <3>1. CASE d = c
        BY <1>5, <1>7, <2>1, <2>3, <3>1 DEF StartingAt, StoppingAt
      <3>2. CASE d # c
        <4>1. StartingAt(d) /\ StoppingAt(d)
          BY DEF OInv
        <4>2. pc[d] = "resume" =>
                /\ thread'[op[d].v] = "suspended"
                /\ status'[op[d].v] = "ready"
          BY <1>1, <1>10, <4>1 DEF StartingAt
        <4>3. pc[d] = "stop" => status'[op[d].v] = "shutdown"
          BY <1>10, <4>1 DEF StoppingAt
        <4> QED BY <1>1, <1>3, <1>10, <2>2, <3>2, <4>2, <4>3, OthersKeep
      <3> QED BY <3>1, <3>2
    <2>11. ASSUME NEW d \in Cpu PROVE EventsAt(d)'
      <3>1. EventsAt(d) /\ pc'[Home] = "loop"
        BY <2>3, <2>4 DEF OInv
      <3>2. ByEvent(d)' => ByEvent(d)
        BY <2>3 DEF ByEvent
      <3>3. CASE d = p
        <4>1. \A k \in 1 .. Len(evq'[p]) :
                Pin[evq'[p][k]] = p /\ evq'[p][k] # Primary
          <5> TAKE k \in 1 .. Len(evq'[p])
          <5>1. k \in 1 .. Len(evq[p]) \/ k = Len(evq[p]) + 1
            BY <2>6, SMTT(40)
          <5> QED BY <2>1, <2>6, <3>1, <3>3, <5>1, ZenonT(40) DEF EventsAt
        <4> QED BY <2>4, <3>1, <3>3, <4>1, SMTT(40) DEF EventsAt
      <3>4. CASE d # p
        BY <2>5, <3>1, <3>2, <3>4 DEF EventsAt
      <3> QED BY <3>3, <3>4
    <2> QED BY <1>1, <2>7, <2>8, <2>9, <2>10, <2>11 DEF OInv
  <1>11. CASE /\ ~IsOff(v) /\ Pin[v] = c
              /\ status' = [status EXCEPT ![v] = "shutdown"]
              /\ GoTo(c, "stop") /\ UNCHANGED <<evq, op>>
    <2>1. CodeStep(c, "stop", op[c])
      BY <1>11 DEF CodeStep, GoTo, IInv, TypeOK
    <2>2. /\ pc'[c] = "stop" /\ op'[c] = op[c]
          /\ \A e \in Cpu \ {c} : pc'[e] = pc[e] /\ op'[e] = op[e]
      BY <2>1, CodeFacts
    <2>3. /\ status'[v] = "shutdown"
          /\ \A u \in Vcpu \ {v} : status'[u] = status[u]
      BY <1>1, <1>11 DEF IInv, TypeOK
    <2>4. from = "last" => mem
      BY <1>1, <1>2, <1>8 DEF StoppingAt, InTrap, OInv, HasMemory
    <2>5. StatusThread'
      <3> SUFFICES ASSUME NEW u \in Vcpu
                   PROVE  /\ status'[u] # "blocked"
                          /\ status'[u] = "created" =>
                               thread'[u] = "suspended" /\ at'[u] = "entry"
                          /\ status'[u] = "shutdown" =>
                               \/ thread'[u] = "blocked"
                               \/ pc'[Pin[u]] = "stop" /\ op'[Pin[u]].v = u
        BY DEF StatusThread
      <3>1. CASE u = v
        BY <1>11, <2>2, <2>3, <3>1
      <3>2. CASE u # v
        BY <1>1, <1>4, <2>2, <2>3, <3>2 DEF OInv, StatusThread
      <3> QED BY <3>1, <3>2
    <2>6. ThreadsSound'
      BY <1>1, <2>2 DEF OInv, ThreadsSound, Queued
    <2>7. HasMemory'
      BY <1>1, <1>4, <2>3 DEF OInv, HasMemory
    <2>8. ASSUME NEW d \in Cpu PROVE StartingAt(d)' /\ StoppingAt(d)'
      <3>1. CASE d = c
        <4>1. StartingAt(c)'
          BY <2>2 DEF StartingAt
        <4>2. StoppingAt(c)'
          BY <1>1, <1>2, <1>7, <2>2, <2>3, <2>4 DEF StoppingAt
        <4> QED BY <3>1, <4>1, <4>2
      <3>2. CASE d # c
        <4>1. StartingAt(d) /\ StoppingAt(d) /\ op[d].v \in Vcpu
          BY AtHome DEF OInv
        <4>2. pc[d] = "resume" =>
                /\ thread'[op[d].v] = "suspended"
                /\ status'[op[d].v] = "ready"
          BY <1>1, <2>3, <4>1, OffNotStarted DEF StartingAt
        <4>3. pc[d] = "stop" => status'[op[d].v] = "shutdown"
          BY <2>3, <4>1 DEF StoppingAt
        <4>4. d = Home => status'[Primary] = status[Primary]
          <5>1. d = Home => v # Primary
            BY <1>4, <1>11, <3>2
          <5> QED BY <1>4, <2>3, <5>1
        <4> QED BY <1>1, <1>3, <2>1, <3>2, <4>2, <4>3, <4>4, OthersKeep
      <3> QED BY <3>1, <3>2
    <2>9. ASSUME NEW d \in Cpu PROVE EventsAt(d)'
      <3>1. ByEvent(d)' => ByEvent(d)
        BY <1>1, <2>2 DEF ByEvent
      <3>2. EventsAt(d) /\ evq' = evq
        BY <1>11 DEF OInv
      <3>3. /\ status[Primary] = "shutdown" => status'[Primary] = "shutdown"
            /\ pc[Home] \in {"loop", "off", "stop"} =>
                 pc'[Home] \in {"loop", "off", "stop"}
        BY <1>1, <1>4, <2>2, <2>3
      <3> QED BY <3>1, <3>2, <3>3 DEF EventsAt
    <2> QED BY <1>1, <2>5, <2>6, <2>7, <2>8, <2>9 DEF OInv
  <1> QED BY <1>9, <1>10, <1>11 DEF hv_vcpu_poweroff

\* stop_current_cpu_thread takes a ready thread off its queue, and the other
\* threads stay where they are.
LEMMA StopQueues ==
  ASSUME VcpuLifeAssumption, IInv, OInv, NEW c \in Cpu,
         stop_current_cpu_thread(c), NEW u \in Vcpu, Queued(u)'
  PROVE  u # op[c].v /\ Queued(u)
  <1> DEFINE v == op[c].v
  <1>1. v \in Vcpu /\ Pin[v] = c
    BY DEF IInv, TypeOK, OpType, PoweroffLocal, stop_current_cpu_thread, Is
  <1>2. CASE thread[v] # "ready" /\ UNCHANGED rq
    <2>1. Queued(u) /\ ~Queued(v)
      BY <1>1, <1>2 DEF Queued, OInv, ThreadsSound
    <2> QED BY <2>1
  <1>3. ASSUME NEW k \in 1 .. Len(rq[c]), rq[c][k] = v,
               rq' = [rq EXCEPT ![c] = RemoveAt(@, k)]
        PROVE  u # v /\ Queued(u)
    <2>1. rq \in [Cpu -> Seq(Vcpu)] /\ rq[c] \in Seq(Vcpu) /\ Len(rq[c]) \in Nat
      BY LenProperties DEF IInv, TypeOK
    <2>2. /\ RemoveAt(rq[c], k) \in Seq(Vcpu)
          /\ Len(RemoveAt(rq[c], k)) = Len(rq[c]) - 1
          /\ \A j \in 1 .. (Len(rq[c]) - 1) :
               RemoveAt(rq[c], k)[j] = IF j < k THEN rq[c][j] ELSE rq[c][j + 1]
      BY <2>1, RemoveAtLemma
    <2>3. CASE Pin[u] = c
      <3>1. rq'[c] = RemoveAt(rq[c], k)
        BY <1>3, <2>1
      <3>2. PICK j \in 1 .. (Len(rq[c]) - 1) : rq'[c][j] = u
        BY <2>2, <2>3, <3>1 DEF Queued
      <3>3. PICK i : i = IF j < k THEN j ELSE j + 1
        OBVIOUS
      <3>4. i \in 1 .. Len(rq[c]) /\ i # k
        BY <2>1, <3>3
      <3>5. rq[c][i] = u
        BY <2>2, <3>1, <3>2, <3>3
      <3>6. rq[c][i] # rq[c][k]
        BY <3>4 DEF IInv, QueueSound
      <3> QED BY <1>3, <2>3, <3>4, <3>5, <3>6 DEF Queued
    <2>4. CASE Pin[u] # c
      <3>1. Pin[u] \in Cpu /\ rq'[Pin[u]] = rq[Pin[u]] /\ u # v
        BY <1>1, <1>3, <2>1, <2>4 DEF VcpuLifeAssumption
      <3> QED BY <3>1 DEF Queued
    <2> QED BY <2>3, <2>4
  <1> QED BY <1>2, <1>3 DEF stop_current_cpu_thread

\* stop_current_cpu_thread blocks the thread; its callers switch away from it
\* if it was the current one.
LEMMA StopKeeps ==
  ASSUME VcpuLifeAssumption, IInv, OInv, NEW c \in Cpu,
         stop_current_cpu_thread(c)
  PROVE  OInv'
  <1> DEFINE v == op[c].v
             from == op[c].from
             r == thread[v] = "running"
             o == [op[c] EXCEPT !.sched = @ \/ r]
  <1>1. /\ pc[c] = "stop" /\ v \in Vcpu /\ op[c] \in OpType /\ Pin[v] = c
        /\ UNCHANGED <<status, at, cur, evq, mem, fault>>
        /\ thread' = [thread EXCEPT ![v] = "blocked"] /\ Poweroff_ret(c, r)
    BY DEF stop_current_cpu_thread, Is, Goes, IInv, TypeOK, OpType, wires,
           PoweroffLocal
  <1>2. StoppingAt(c) /\ EventsAt(c)
    BY DEF OInv
  <1>3. \A d \in Cpu \ {c} : ~(pc[d] = "start" /\ op[d].from = "console")
    BY <1>1 DEF OInv, StartingAt
  <1>4. /\ Home \in Cpu /\ Primary \in Vcpu /\ Pin[Primary] = Home
        /\ Primary # Host /\ Host \notin Vcpu
        /\ \A u \in Vcpu : Pin[u] \in Cpu
        /\ InTrap(c) => c = Home
        /\ \A d \in Cpu : cur[d] # Host => cur[d] \in Vcpu /\ Pin[cur[d]] = d
        /\ \A d \in Cpu : op[d].v \in Vcpu
    BY AtHome DEF VcpuLifeAssumption
  <1>5. /\ o.v = v /\ o.from = from /\ o.self = op[c].self
        /\ r => o.sched
    BY <1>1 DEF OpType
  <1>6. /\ thread'[v] = "blocked" /\ status[v] = "shutdown"
        /\ \A u \in Vcpu \ {v} : thread'[u] = thread[u]
    BY <1>1, <1>2 DEF IInv, TypeOK, StoppingAt
  <1>7. PICK w : /\ CodeStep(c, w, o)
                 /\ from = "loop" => w = "loop"
                 /\ from = "last" => w = "free"
                 /\ from = "irq" => w = IF r THEN "sched" ELSE "run"
    <2>1. op' = [op EXCEPT ![c] = o]
      BY <1>1 DEF Poweroff_ret, IInv, TypeOK
    <2> HIDE DEF o, r
    <2>2. CASE from = "loop"
      <3>1. CodeStep(c, "loop", o)
        BY <1>1, <2>1, <2>2 DEF Poweroff_ret, GoTo, CodeStep
      <3> QED BY <2>2, <3>1
    <2>3. CASE from = "last"
      <3>1. CodeStep(c, "free", o)
        BY <1>1, <2>1, <2>3 DEF Poweroff_ret, GoTo, CodeStep
      <3> QED BY <2>3, <3>1
    <2>4. CASE from = "irq"
      <3>1. CodeStep(c, IF r THEN "sched" ELSE "run", o)
        BY <1>1, <2>1, <2>4 DEF Poweroff_ret, GoTo, CodeStep
      <3> QED BY <2>4, <3>1
    <2> QED BY <1>1, <1>2, <2>2, <2>3, <2>4 DEF StoppingAt
  <1> HIDE DEF o
  <1>8. /\ pc'[c] = w /\ op'[c] = o
        /\ \A e \in Cpu \ {c} : pc'[e] = pc[e] /\ op'[e] = op[e]
    BY <1>7, CodeFacts
  <1>9. from \in {"loop", "last", "irq"}
    BY <1>1, <1>2 DEF StoppingAt
  <1>10. StatusThread'
    <2> SUFFICES ASSUME NEW u \in Vcpu
                 PROVE  /\ status'[u] # "blocked"
                        /\ status'[u] = "created" =>
                             thread'[u] = "suspended" /\ at'[u] = "entry"
                        /\ status'[u] = "shutdown" =>
                             \/ thread'[u] = "blocked"
                             \/ pc'[Pin[u]] = "stop" /\ op'[Pin[u]].v = u
      BY DEF StatusThread
    <2>1. CASE u = v
      BY <1>1, <1>6, <2>1
    <2>2. CASE u # v
      BY <1>1, <1>4, <1>6, <1>8, <2>2 DEF OInv, StatusThread
    <2> QED BY <2>1, <2>2
  <1>11. ThreadsSound'
    <2>1. ASSUME NEW u \in Vcpu, Queued(u)' PROVE thread'[u] = "ready"
      <3>1. u # v /\ Queued(u)
        BY <2>1, StopQueues
      <3> QED BY <1>6, <3>1 DEF OInv, ThreadsSound
    <2>2. ASSUME NEW d \in Cpu, pc'[d] = "run", cur'[d] # Host
          PROVE  thread'[cur'[d]] = "running"
      <3>1. CASE d = c
        <4>1. from = "irq" /\ ~r
          BY <1>7, <1>8, <1>9, <2>2, <3>1
        <4>2. thread[cur[c]] = "running" /\ cur[c] \in Vcpu
          BY <1>1, <1>2, <1>4, <2>2, <3>1, <4>1 DEF StoppingAt
        <4> QED BY <1>1, <1>6, <3>1, <4>1, <4>2
      <3>2. CASE d # c
        <4>1. cur[d] \in Vcpu /\ cur[d] # v /\ thread[cur[d]] = "running"
          BY <1>1, <1>4, <1>8, <2>2, <3>2 DEF OInv, ThreadsSound
        <4> QED BY <1>1, <1>6, <4>1
      <3> QED BY <3>1, <3>2
    <2> QED BY <2>1, <2>2 DEF ThreadsSound
  <1>12. HasMemory'
    BY <1>1 DEF OInv, HasMemory
  <1>13. ASSUME NEW d \in Cpu PROVE StartingAt(d)' /\ StoppingAt(d)'
    <2>1. CASE d = c
      <3>1. StartingAt(c)'
        BY <1>7, <1>8, <1>9 DEF StartingAt
      <3>2. StoppingAt(c)'
        <4>1. CASE from = "loop"
          <5>1. InTrap(c) /\ op[c].self = Primary /\ v # Primary /\ w = "loop"
            BY <1>1, <1>2, <1>7, <4>1 DEF StoppingAt
          <5>2. InTrap(c)'
            BY <1>1, <1>4, <1>6, <5>1 DEF InTrap
          <5> QED BY <1>5, <1>8, <5>1, <5>2 DEF StoppingAt
        <4>2. CASE from = "last"
          <5>1. InTrap(c) /\ v = Primary /\ mem /\ w = "free" /\ r
            BY <1>1, <1>2, <1>7, <4>2 DEF StoppingAt, InTrap
          <5>2. cur'[c] = Primary /\ mem' /\ op'[c].sched
            BY <1>1, <1>5, <1>8, <5>1 DEF InTrap
          <5> QED BY <1>1, <1>6, <1>8, <5>1, <5>2 DEF StoppingAt
        <4>3. CASE from = "irq" /\ r
          <5>1. w = "sched" /\ cur'[c] = v /\ v # Host
            BY <1>1, <1>4, <1>7, <4>3 DEF IInv, QueueSound
          <5> QED BY <1>5, <1>6, <1>8, <4>3, <5>1 DEF StoppingAt
        <4>4. CASE from = "irq" /\ ~r
          <5>1. w = "run"
            BY <1>7, <4>4
          <5> QED BY <1>8, <5>1 DEF StoppingAt
        <4> QED BY <1>9, <4>1, <4>2, <4>3, <4>4
      <3> QED BY <2>1, <3>1, <3>2
    <2>2. CASE d # c
      <3>1. StartingAt(d) /\ StoppingAt(d)
        BY DEF OInv
      <3>2. cur[d] # Host => thread'[cur[d]] = thread[cur[d]]
        BY <1>1, <1>4, <1>6, <2>2
      <3>3. pc[d] = "resume" =>
              /\ thread'[op[d].v] = "suspended" /\ status'[op[d].v] = "ready"
              /\ w # "resume"
        BY <1>1, <1>4, <1>6, <1>7, <1>9, <3>1 DEF StartingAt
      <3>4. pc[d] = "stop" => status'[op[d].v] = "shutdown"
        BY <1>1, <3>1 DEF StoppingAt
      <3> QED BY <1>1, <1>3, <1>7, <2>2, <3>2, <3>3, <3>4, OthersKeep
    <2> QED BY <2>1, <2>2
  <1>14. ASSUME NEW d \in Cpu PROVE EventsAt(d)'
    <2>1. ByEvent(d)' => ByEvent(d)
      BY <1>1, <1>5, <1>8 DEF ByEvent
    <2>2. EventsAt(d)
      BY DEF OInv
    <2>3. pc[Home] \in {"loop", "off", "stop"} =>
            \/ status'[Primary] = "shutdown"
            \/ pc'[Home] \in {"loop", "off", "stop"}
      <3>1. CASE c = Home
        <4>1. from # "irq"
          BY <1>1, <1>2, <3>1 DEF EventsAt, ByEvent
        <4>2. from = "last" => v = Primary
          BY <1>1, <1>2 DEF StoppingAt
        <4> QED BY <1>1, <1>6, <1>7, <1>8, <1>9, <3>1, <4>1, <4>2
      <3>2. CASE c # Home
        BY <1>4, <1>8, <3>2
      <3> QED BY <3>1, <3>2
    <2> QED BY <1>1, <2>1, <2>2, <2>3 DEF EventsAt
  <1> QED BY <1>1, <1>10, <1>11, <1>12, <1>13, <1>14 DEF OInv

-----------------------------------------------------------------------------
(* Orderly use: the start of a vcpu.                                       *)

\* A vcpu that is started after a shutdown has been switched away from: so
\* thread_reset writes a stack that no cpu runs on.
LEMMA StartStack ==
  ASSUME VcpuLifeAssumption, IInv, OInv, NEW c \in Cpu, pc[c] = "start",
         status[op[c].v] = "shutdown"
  PROVE  /\ thread[op[c].v] = "blocked" /\ cur[Pin[op[c].v]] # op[c].v
         /\ ~Queued(op[c].v)
  <1> DEFINE v == op[c].v
             p == Pin[v]
  <1>1. /\ v \in Vcpu /\ p \in Cpu /\ v # Host /\ pc[p] \in PcState
    BY AtHome DEF VcpuLifeAssumption, IInv, TypeOK
  <1>2. ~ByEvent(p) /\ pc[p] \notin {"loop", "off", "stop", "free", "block"}
    BY <1>1, StartIsQuiet
  <1>3. thread[v] = "blocked"
    BY <1>1, <1>2 DEF OInv, StatusThread
  <1>4. ASSUME cur[p] = v PROVE FALSE
    <2>1. StartingAt(p) /\ StoppingAt(p)
      BY <1>1 DEF OInv
    <2>2. CASE pc[p] = "run"
      BY <1>1, <1>3, <1>4, <2>2 DEF OInv, ThreadsSound
    <2>3. CASE pc[p] \in {"start", "resume"}
      BY <1>1, <1>3, <1>4, <2>1, <2>3 DEF StartingAt, InTrap
    <2>4. CASE pc[p] = "sched"
      BY <1>1, <1>2, <1>4, <2>1, <2>4 DEF StoppingAt, ByEvent
    <2> QED BY <1>1, <1>2, <2>2, <2>3, <2>4 DEF PcState
  <1>5. ~Queued(v)
    BY <1>1, <1>3 DEF OInv, ThreadsSound
  <1> QED BY <1>3, <1>4, <1>5

\* hv_vcpu_start, by the boot vcpu's trap or by a console.
LEMMA StartKeeps ==
  ASSUME VcpuLifeAssumption, IInv, OInv, NEW c \in Cpu, hv_vcpu_start(c)
  PROVE  OInv'
  <1> DEFINE v == op[c].v
  <1>1. /\ pc[c] = "start" /\ v \in Vcpu
        /\ UNCHANGED <<inited, rq, cur, here, evq, mem, op>>
    BY DEF hv_vcpu_start, Is, IInv, TypeOK, OpType, wires
  <1>2. StartingAt(c)
    BY DEF OInv
  <1>3. \A d \in Cpu :
          /\ evq[d] = <<>> /\ ~ByEvent(d)
          /\ pc[d] \notin {"loop", "off", "stop", "free", "block"}
          /\ d # c => ~(pc[d] = "start" /\ op[d].from = "console")
    BY <1>1, StartIsQuiet
  <1>4. /\ Home \in Cpu /\ Primary \in Vcpu /\ Pin[Primary] = Home
        /\ Primary # Host /\ Host \notin Vcpu
        /\ \A u \in Vcpu : Pin[u] \in Cpu
        /\ InTrap(c) => c = Home
        /\ \A d \in Cpu : cur[d] # Host => cur[d] \in Vcpu /\ Pin[cur[d]] = d
        /\ \A d \in Cpu : op[d].v \in Vcpu
    BY AtHome DEF VcpuLifeAssumption
  <1>5. CASE /\ status[v] \notin {"created", "shutdown"}
             /\ GoTo(c, "run") /\ Goes
             /\ UNCHANGED <<status, thread, at>>
    <2>1. CodeStep(c, "run", op[c])
      BY <1>1, <1>5 DEF CodeStep, GoTo, IInv, TypeOK
    <2>2. pc'[c] = "run"
      BY <2>1, CodeFacts
    <2>3. cur[c] # Host => thread[cur[c]] = "running"
      BY <1>1, <1>2 DEF StartingAt, InTrap
    <2>4. StartingAt(c)' /\ StoppingAt(c)'
      BY <2>2 DEF StartingAt, StoppingAt
    <2>5. UNCHANGED <<machine, evq, mem, fault>>
      BY <1>1, <1>5 DEF machine, Goes
    <2> QED BY <1>1, <2>1, <2>3, <2>4, <2>5, CodeKeeps
  <1>6. CASE /\ status[v] \in {"created", "shutdown"} /\ cur[Pin[v]] # v
             /\ status' = [status EXCEPT ![v] = "ready"]
             /\ thread' = [thread EXCEPT ![v] = "suspended"]
             /\ at' = [at EXCEPT ![v] = "entry"]
             /\ GoTo(c, "resume") /\ Goes
             /\ ~Queued(v)
    <2>1. CodeStep(c, "resume", op[c])
      BY <1>1, <1>6 DEF CodeStep, GoTo, IInv, TypeOK
    <2>2. /\ pc'[c] = "resume" /\ op'[c] = op[c]
          /\ \A e \in Cpu \ {c} : pc'[e] = pc[e] /\ op'[e] = op[e]
      BY <2>1, CodeFacts
    <2>3. /\ status'[v] = "ready" /\ thread'[v] = "suspended"
          /\ at'[v] = "entry"
          /\ \A u \in Vcpu \ {v} : /\ status'[u] = status[u] /\ at'[u] = at[u]
                                   /\ thread'[u] = thread[u]
      BY <1>1, <1>6 DEF IInv, TypeOK
    <2>4. \A d \in Cpu : cur[d] # v
      BY <1>1, <1>4, <1>6
    <2>5. StatusThread'
      <3> SUFFICES ASSUME NEW u \in Vcpu
                   PROVE  /\ status'[u] # "blocked"
                          /\ status'[u] = "created" =>
                               thread'[u] = "suspended" /\ at'[u] = "entry"
                          /\ status'[u] = "shutdown" =>
                               \/ thread'[u] = "blocked"
                               \/ pc'[Pin[u]] = "stop" /\ op'[Pin[u]].v = u
        BY DEF StatusThread
      <3>1. CASE u = v
        BY <2>3, <3>1
      <3>2. CASE u # v
        BY <1>3, <1>4, <2>3, <3>2 DEF OInv, StatusThread
      <3> QED BY <3>1, <3>2
    <2>6. ThreadsSound'
      <3>1. ASSUME NEW u \in Vcpu, Queued(u)' PROVE thread'[u] = "ready"
        <4>1. Queued(u) /\ u # v
          BY <1>1, <1>6, <3>1 DEF Queued
        <4> QED BY <2>3, <4>1 DEF OInv, ThreadsSound
      <3>2. ASSUME NEW d \in Cpu, pc'[d] = "run", cur'[d] # Host
            PROVE  thread'[cur'[d]] = "running"
        <4>1. d # c /\ pc[d] = "run" /\ cur[d] \in Vcpu /\ cur[d] # v
          BY <1>1, <1>4, <2>2, <2>4, <3>2
        <4> QED BY <1>1, <2>3, <3>2, <4>1 DEF OInv, ThreadsSound
      <3> QED BY <3>1, <3>2 DEF ThreadsSound
    <2>7. HasMemory'
      BY <1>1, <1>4, <2>3 DEF OInv, HasMemory
    <2>8. ASSUME NEW d \in Cpu PROVE StartingAt(d)' /\ StoppingAt(d)'
      <3>1. CASE d = c
        <4>1. InTrap(c) => InTrap(c)'
          BY <1>1, <1>4, <2>3, <2>4 DEF InTrap
        <4>2. ASSUME NEW e \in Cpu \ {c}, pc'[e] = "resume" PROVE op'[e].v # v
          <5>1. pc[e] = "resume" /\ op'[e] = op[e]
            BY <2>2, <4>2
          <5>2. status[op[e].v] = "ready"
            BY <5>1 DEF OInv, StartingAt
          <5> QED BY <1>6, <5>1, <5>2
        <4> QED BY <1>1, <1>2, <2>2, <2>3, <3>1, <4>1, <4>2
            DEF StartingAt, StoppingAt
      <3>2. CASE d # c
        <4>1. StartingAt(d)
          BY DEF OInv
        <4>2. cur[d] # Host =>
                /\ thread'[cur[d]] = thread[cur[d]]
                /\ cur[d] = Primary => at'[Primary] = at[Primary]
          BY <1>4, <2>3, <2>4
        <4>3. pc[d] = "resume" =>
                /\ thread'[op[d].v] = "suspended" /\ status'[op[d].v] = "ready"
                /\ op[c].v # op[d].v
          BY <1>4, <1>6, <2>3, <4>1 DEF StartingAt
        <4> QED BY <1>1, <1>3, <1>4, <2>1, <3>2, <4>2, <4>3, OthersKeep
      <3> QED BY <3>1, <3>2
    <2>9. ASSUME NEW d \in Cpu PROVE EventsAt(d)'
      <3>1. ~ByEvent(d)' /\ evq'[d] = <<>> /\ Len(evq'[d]) = 0
        BY <1>1, <1>3, <2>2 DEF ByEvent
      <3> QED BY <3>1 DEF EventsAt
    <2> QED BY <1>6, <2>5, <2>6, <2>7, <2>8, <2>9 DEF OInv, Goes
  <1>7. CASE /\ status[v] = "created"
             /\ status' = [status EXCEPT ![v] = "ready"]
             /\ GoTo(c, "resume") /\ Goes
             /\ UNCHANGED <<thread, at>>
    <2>1. thread[v] = "suspended" /\ at[v] = "entry"
      BY <1>1, <1>7 DEF OInv, StatusThread
    <2>2. /\ thread' = [thread EXCEPT ![v] = "suspended"]
          /\ at' = [at EXCEPT ![v] = "entry"]
      BY <1>7, <2>1 DEF IInv, TypeOK
    <2>3. cur[Pin[v]] # v /\ ~Queued(v)
      BY <1>1, <2>1 DEF IInv, SuspendedElsewhere, OInv, ThreadsSound
    <2> QED BY <1>6, <1>7, <2>2, <2>3
  <1>8. CASE status[v] = "shutdown"
    <2>1. cur[Pin[v]] # v /\ ~Queued(v)
      BY <1>1, <1>8, StartStack
    <2> QED BY <1>6, <1>8, <2>1 DEF hv_vcpu_start
  <1> QED BY <1>5, <1>7, <1>8 DEF hv_vcpu_start

\* thread_resume finds the thread suspended and on no queue.
LEMMA ResumeKeeps ==
  ASSUME VcpuLifeAssumption, IInv, OInv, NEW c \in Cpu, thread_resume(c)
  PROVE  OInv'
  <1> DEFINE v == op[c].v
             p == Pin[v]
             w == IF op[c].from = "console" THEN "sched" ELSE "run"
  <1>1. /\ pc[c] = "resume" /\ v \in Vcpu
        /\ UNCHANGED <<status, at, cur, evq, mem, op>>
    BY DEF thread_resume, Is, IInv, TypeOK, OpType
  <1>2. /\ StartingAt(c) /\ thread[v] = "suspended" /\ status[v] = "ready"
        /\ ~Queued(v)
    BY <1>1, SMTT(40) DEF OInv, StartingAt, ThreadsSound
  <1>3. /\ thread' = [thread EXCEPT ![v] = "ready"]
        /\ rq' = [rq EXCEPT ![p] = <<v>> \o @]
        /\ GoTo(c, w) /\ Goes
    BY <1>2, ZenonT(40) DEF thread_resume
  <1>4. /\ Home \in Cpu /\ Primary \in Vcpu /\ Primary # Host
        /\ \A u \in Vcpu : Pin[u] \in Cpu
        /\ \A d \in Cpu : cur[d] # Host => cur[d] \in Vcpu /\ Pin[cur[d]] = d
        /\ \A d \in Cpu : op[d].v \in Vcpu
    BY AtHome DEF VcpuLifeAssumption
  <1>5. CodeStep(c, w, op[c]) /\ w \in {"run", "sched"}
    BY <1>1, <1>3 DEF CodeStep, GoTo, IInv, TypeOK
  <1>6. /\ pc'[c] = w /\ op'[c] = op[c]
        /\ \A e \in Cpu \ {c} : pc'[e] = pc[e] /\ op'[e] = op[e]
    BY <1>5, CodeFacts
  <1>7. /\ thread'[v] = "ready" /\ \A u \in Vcpu \ {v} : thread'[u] = thread[u]
    BY <1>1, <1>3 DEF IInv, TypeOK
  <1>8. StatusThread'
    <2> SUFFICES ASSUME NEW u \in Vcpu
                 PROVE  /\ status'[u] # "blocked"
                        /\ status'[u] = "created" =>
                             thread'[u] = "suspended" /\ at'[u] = "entry"
                        /\ status'[u] = "shutdown" =>
                             \/ thread'[u] = "blocked"
                             \/ pc'[Pin[u]] = "stop" /\ op'[Pin[u]].v = u
      BY DEF StatusThread
    <2>1. CASE u = v
      BY <1>1, <1>2, <2>1
    <2>2. CASE u # v
      BY <1>1, <1>4, <1>6, <1>7, <2>2 DEF OInv, StatusThread
    <2> QED BY <2>1, <2>2
  <1>9. ThreadsSound'
    <2>1. ASSUME NEW u \in Vcpu, Queued(u)' PROVE thread'[u] = "ready"
      <3>1. CASE u = v
        BY <1>7, <3>1
      <3>2. CASE u # v
        <4>1. rq[p] \in Seq(Vcpu) /\ p \in Cpu
          BY <1>1, <1>4 DEF IInv, TypeOK
        <4>2. Queued(u)
          <5>1. CASE Pin[u] = p
            <6>1. rq'[p] = <<v>> \o rq[p]
              BY <1>3, <4>1, SMTT(40) DEF IInv, TypeOK
            <6>2. PICK k \in 1 .. Len(rq'[p]) : rq'[p][k] = u
              BY <2>1, <5>1 DEF Queued
            <6>3. /\ Len(rq'[p]) = Len(rq[p]) + 1 /\ Len(rq[p]) \in Nat
                  /\ rq'[p][1] = v
                  /\ \A j \in 1 .. Len(rq[p]) + 1 :
                       j # 1 => rq'[p][j] = rq[p][j - 1]
              BY <1>1, <4>1, <6>1
            <6>4. k # 1 /\ k - 1 \in 1 .. Len(rq[p]) /\ rq[p][k - 1] = u
              BY <3>2, <6>2, <6>3, SMTT(40)
            <6> QED BY <5>1, <6>4 DEF Queued
          <5>2. CASE Pin[u] # p
            <6>1. rq'[Pin[u]] = rq[Pin[u]]
              BY <1>3, <1>4, <5>2 DEF IInv, TypeOK
            <6> QED BY <2>1, <6>1 DEF Queued
          <5> QED BY <5>1, <5>2
        <4> QED BY <1>7, <3>2, <4>2 DEF OInv, ThreadsSound
      <3> QED BY <3>1, <3>2
    <2>2. ASSUME NEW d \in Cpu, pc'[d] = "run", cur'[d] # Host
          PROVE  thread'[cur'[d]] = "running"
      <3>1. thread[cur[d]] = "running"
        <4>1. CASE d = c
          BY <1>1, <1>2, <1>6, <2>2, <4>1 DEF StartingAt, InTrap
        <4>2. CASE d # c
          BY <1>1, <1>6, <2>2, <4>2 DEF OInv, ThreadsSound
        <4> QED BY <4>1, <4>2
      <3> QED BY <1>1, <1>2, <1>4, <1>7, <2>2, <3>1
    <2> QED BY <2>1, <2>2 DEF ThreadsSound
  <1>10. HasMemory'
    BY <1>1 DEF OInv, HasMemory
  <1>11. ASSUME NEW d \in Cpu PROVE StartingAt(d)' /\ StoppingAt(d)'
    <2>1. CASE d = c
      <3>1. StartingAt(c)'
        BY <1>5, <1>6 DEF StartingAt
      <3>2. w = "sched" => op[c].from = "console" /\ cur[c] = Host
        BY <1>1, <1>2 DEF StartingAt
      <3>3. StoppingAt(c)'
        BY <1>1, <1>5, <1>6, <3>2 DEF StoppingAt
      <3> QED BY <2>1, <3>1, <3>3
    <2>2. CASE d # c
      <3>1. StartingAt(d) /\ StoppingAt(d)
        BY DEF OInv
      <3>2. cur[d] # Host /\ thread[cur[d]] \in {"running", "blocked"} =>
              thread'[cur[d]] = thread[cur[d]]
        BY <1>2, <1>4, <1>7
      <3>3. pc[d] = "resume" =>
              /\ thread'[op[d].v] = "suspended" /\ status'[op[d].v] = "ready"
              /\ w # "resume"
        BY <1>1, <1>4, <1>5, <1>7, <2>2, <3>1 DEF StartingAt
      <3>4. pc[d] = "stop" => status'[op[d].v] = "shutdown"
        BY <1>1, <3>1 DEF StoppingAt
      <3>5. ~(pc[d] = "start" /\ op[d].from = "console")
        BY <1>1, <2>2, <3>1 DEF StartingAt
      <3> HIDE DEF w
      <3> QED BY <1>1, <1>5, <2>2, <3>2, <3>3, <3>4, <3>5, OthersKeep
    <2> QED BY <2>1, <2>2
  <1>12. ASSUME NEW d \in Cpu PROVE EventsAt(d)'
    <2>1. ByEvent(d)' => ByEvent(d)
      BY <1>6 DEF ByEvent
    <2>2. EventsAt(d)
      BY DEF OInv
    <2> QED BY <1>1, <1>4, <1>6, <2>1, <2>2 DEF EventsAt
  <1> QED BY <1>3, <1>8, <1>9, <1>10, <1>11, <1>12, SMTT(40) DEF OInv, Goes

\* lkhv_vm_init has given the machine its memory, or a vcpu enters its guest:
\* only the place of a running thread changes.
LEMMA MovesKeep ==
  ASSUME VcpuLifeAssumption, IInv, OInv, NEW c \in Cpu, NEW p,
         pc[c] = "run", cur[c] # Host, at' = [at EXCEPT ![cur[c]] = p],
         UNCHANGED <<status, thread, rq, cur, evq, pc, op, fault>>,
         mem => mem', HasMemory'
  PROVE  OInv'
  <1> DEFINE v == cur[c]
  <1>1. /\ v \in Vcpu /\ Pin[v] = c /\ Primary # Host
        /\ \A d \in Cpu : cur[d] # Host => cur[d] \in Vcpu /\ Pin[cur[d]] = d
    BY AtHome
  <1>2. thread[v] = "running"
    BY DEF OInv, ThreadsSound
  <1>3. \A u \in Vcpu \ {v} : at'[u] = at[u]
    BY DEF IInv, TypeOK
  <1>4. StatusThread'
    BY <1>1, <1>2, <1>3 DEF OInv, StatusThread
  <1>5. ThreadsSound'
    BY DEF OInv, ThreadsSound, Queued
  <1>6. ASSUME NEW d \in Cpu PROVE StartingAt(d)' /\ StoppingAt(d)'
    <2>1. CASE d = c
      BY <2>1 DEF StartingAt, StoppingAt
    <2>2. CASE d # c
      <3>1. InTrap(d) => InTrap(d)'
        <4>1. InTrap(d) => v # Primary /\ Primary \in Vcpu
          BY <1>1, <2>2 DEF InTrap
        <4> QED BY <1>3, <4>1 DEF InTrap
      <3>2. StartingAt(d) /\ StoppingAt(d)
        BY DEF OInv
      <3>3. StartingAt(d)'
        BY <3>1, <3>2 DEF StartingAt, IsOff
      <3>4. StoppingAt(d)'
        BY <3>1, <3>2 DEF StoppingAt
      <3> QED BY <3>3, <3>4
    <2> QED BY <2>1, <2>2
  <1>7. \A d \in Cpu : EventsAt(d)'
    BY DEF OInv, EventsAt, ByEvent
  <1> QED BY <1>4, <1>5, <1>6, <1>7 DEF OInv

\* vcpu_start_common enters the guest, with the machine's memory.
LEMMA StartCommonKeeps ==
  ASSUME VcpuLifeAssumption, IInv, OInv, NEW c \in Cpu, vcpu_start_common(c)
  PROVE  OInv'
  <1>1. /\ pc[c] = "run" /\ cur[c] # Host
        /\ at[cur[c]] = IF cur[c] = Primary THEN "loaded" ELSE "entry"
        /\ at' = [at EXCEPT ![cur[c]] = "guest"]
        /\ UNCHANGED <<status, thread, rq, cur, evq, mem, pc, op, fault>>
    BY DEF vcpu_start_common, Is, Goes, wires
  <1>2. HasMemory'
    <2>1. Primary \in Vcpu /\ cur[c] \in Vcpu
      BY <1>1, AtHome
    <2>2. at'[Primary] = IF cur[c] = Primary THEN "guest" ELSE at[Primary]
      BY <1>1, <2>1 DEF IInv, TypeOK
    <2> QED BY <1>1, <2>2 DEF OInv, HasMemory
  <1> QED BY <1>1, <1>2, MovesKeep

-----------------------------------------------------------------------------
(* Orderly use: the switches.                                              *)

\* The queue of a cpu is good for a switch, and holds ready threads.
LEMMA QueueReady ==
  ASSUME VcpuLifeAssumption, IInv, OInv, NEW c \in Cpu
  PROVE  /\ rq[c] \in Seq(Vcpu) /\ GoodQueue(c, rq[c])
         /\ \A k \in 1 .. Len(rq[c]) : thread[rq[c][k]] = "ready"
  <1>1. rq[c] \in Seq(Vcpu) /\ GoodQueue(c, rq[c])
    BY DEF IInv, TypeOK, QueueSound, GoodQueue
  <1>2. ASSUME NEW k \in 1 .. Len(rq[c]) PROVE thread[rq[c][k]] = "ready"
    <2>1. rq[c][k] \in Vcpu /\ Pin[rq[c][k]] = c
      BY <1>1, ElementOfSeq DEF GoodQueue
    <2>2. Queued(rq[c][k])
      BY <2>1 DEF Queued
    <2> QED BY <2>1, <2>2 DEF OInv, ThreadsSound
  <1> QED BY <1>1, <1>2

\* thread_preempt finds the current thread running, so its assertions hold.
LEMMA PreemptSwitches ==
  ASSUME VcpuLifeAssumption, IInv, OInv, NEW c \in Cpu, NEW tail \in BOOLEAN,
         pc[c] = "run", thread_preempt(c, tail)
  PROVE  Switched(c) /\ fault' = fault
  <1> DEFINE v == cur[c]
  <1>1. /\ rq[c] \in Seq(Vcpu) /\ GoodQueue(c, rq[c])
        /\ \A k \in 1 .. Len(rq[c]) : thread[rq[c][k]] = "ready"
    BY QueueReady
  <1>2. thread \in [Vcpu -> Thread]
    BY DEF IInv, TypeOK
  <1>3. CASE v = Host
    <2>1. thread_resched(c, thread, rq[c]) /\ Goes
      BY <1>3 DEF thread_preempt
    <2> QED BY <1>1, <1>2, <2>1, ReschedSwitches DEF Goes
  <1>4. CASE v # Host
    <2> DEFINE th == [thread EXCEPT ![v] = "ready"]
               q  == IF tail THEN Append(rq[c], v) ELSE <<v>> \o rq[c]
               m  == Len(rq[c])
    <2>1. v \in Vcpu /\ Pin[v] = c /\ thread[v] = "running" /\ ~Queued(v)
      BY <1>4, AtHome DEF OInv, ThreadsSound
    <2>2. thread_resched(c, th, q) /\ Goes
      BY <1>4, <2>1 DEF thread_preempt
    <2>3. /\ th \in [Vcpu -> Thread] /\ th[v] = "ready"
          /\ \A u \in Vcpu \ {v} : th[u] = thread[u]
      BY <1>2, <2>1 DEF Thread
    <2>4. /\ q \in Seq(Vcpu) /\ m \in Nat /\ Len(q) = m + 1
          /\ tail => \A k \in 1 .. m + 1 :
                       q[k] = IF k <= m THEN rq[c][k] ELSE v
          /\ ~tail => \A k \in 1 .. m + 1 :
                        q[k] = IF k = 1 THEN v ELSE rq[c][k - 1]
      BY <1>1, <2>1
    <2>5. \A k \in 1 .. m : /\ Pin[rq[c][k]] = c /\ rq[c][k] # v
                            /\ \A l \in 1 .. m : rq[c][k] = rq[c][l] => k = l
                            /\ th[rq[c][k]] = "ready"
      <3> TAKE k \in 1 .. m
      <3>1. /\ Pin[rq[c][k]] = c /\ rq[c][k] # v
            /\ \A l \in 1 .. m : rq[c][k] = rq[c][l] => k = l
        BY DEF IInv, QueueSound
      <3>2. rq[c][k] \in Vcpu
        BY <1>1, ElementOfSeq
      <3> QED BY <1>1, <2>3, <3>1, <3>2
    <2> HIDE DEF q, th
    <2>6. PICK x \in 1 .. m + 1 :
            /\ q[x] = v
            /\ \A k \in 1 .. m + 1 :
                 k # x => \E j \in 1 .. m : q[k] = rq[c][j]
            /\ \A k, l \in 1 .. m + 1 :
                 k # x /\ l # x /\ q[k] = q[l] => k = l
      <3>1. CASE tail
        <4>1. /\ m + 1 \in 1 .. m + 1 /\ q[m + 1] = v
              /\ \A k \in 1 .. m + 1 :
                   k # m + 1 => k \in 1 .. m /\ q[k] = rq[c][k]
          BY <2>4, <3>1
        <4>2. \A k, l \in 1 .. m + 1 :
                k # m + 1 /\ l # m + 1 /\ q[k] = q[l] => k = l
          BY <2>5, <4>1
        <4> QED BY <4>1, <4>2
      <3>2. CASE ~tail
        <4>1. /\ 1 \in 1 .. m + 1 /\ q[1] = v
              /\ \A k \in 1 .. m + 1 :
                   k # 1 => k - 1 \in 1 .. m /\ q[k] = rq[c][k - 1]
          BY <2>4, <3>2
        <4>2. ASSUME NEW k \in 1 .. m + 1, NEW l \in 1 .. m + 1,
                     k # 1, l # 1, q[k] = q[l]
              PROVE  k = l
          <5>1. k - 1 = l - 1
            BY <2>5, <4>1, <4>2
          <5> QED BY <5>1
        <4> QED BY <4>1, <4>2
      <3> QED BY <3>1, <3>2
    <2>7. GoodQueue(c, q) /\ \A k \in 1 .. Len(q) : th[q[k]] = "ready"
      <3> SUFFICES ASSUME NEW k \in 1 .. m + 1
                   PROVE  /\ Pin[q[k]] = c /\ th[q[k]] = "ready"
                          /\ \A l \in 1 .. m + 1 : q[k] = q[l] => k = l
        BY <2>4 DEF GoodQueue
      <3>1. \A l \in 1 .. m + 1 : l # x =>
              Pin[q[l]] = c /\ th[q[l]] = "ready" /\ q[l] # v
        BY <2>5, <2>6
      <3>2. CASE k = x
        BY <2>1, <2>3, <2>6, <3>1, <3>2
      <3>3. CASE k # x
        BY <2>6, <3>1, <3>3
      <3> QED BY <3>2, <3>3
    <2>8. \A u \in Vcpu : \/ th[u] = thread[u]
                          \/ /\ Pin[u] = c /\ thread[u] = "running"
                             /\ th[u] \in {"ready", "death"}
      BY <2>1, <2>3
    <2> QED BY <2>2, <2>3, <2>4, <2>7, <2>8, ReschedSwitches DEF Goes
  <1> QED BY <1>3, <1>4

\* A switch away from a thread that is not running.
LEMMA LeaveSwitches ==
  ASSUME VcpuLifeAssumption, IInv, OInv, NEW c \in Cpu,
         thread_resched(c, thread, rq[c])
  PROVE  Switched(c)
  <1>1. /\ rq[c] \in Seq(Vcpu) /\ GoodQueue(c, rq[c])
        /\ \A k \in 1 .. Len(rq[c]) : thread[rq[c][k]] = "ready"
    BY QueueReady
  <1>2. thread \in [Vcpu -> Thread]
    BY DEF IInv, TypeOK
  <1> QED BY <1>1, <1>2, ReschedSwitches

\* vcpu_entry_primary loads the machine, or its thread ends.
LEMMA EntryKeeps ==
  ASSUME VcpuLifeAssumption, IInv, OInv, NEW c \in Cpu, vcpu_entry_primary(c)
  PROVE  OInv'
  <1>1. /\ pc[c] = "run" /\ cur[c] = Primary /\ at[Primary] = "entry"
        /\ UNCHANGED <<status, evq, pc, op>>
    BY DEF vcpu_entry_primary, Is
  <1>2. /\ c = Home /\ Primary # Host /\ Primary \in Vcpu
        /\ Pin[Primary] = c /\ thread[Primary] = "running"
    BY <1>1, AtHome DEF OInv, ThreadsSound
  <1>3. CASE /\ mem' = TRUE
             /\ at' = [at EXCEPT ![Primary] = "loaded"]
             /\ Goes /\ UNCHANGED <<thread, rq, cur, here>>
    <2>1. HasMemory' /\ (mem => mem')
      BY <1>3 DEF HasMemory
    <2> QED BY <1>1, <1>2, <1>3, <2>1, MovesKeep DEF Goes
  <1>4. CASE /\ mem' = FALSE
             /\ thread_resched(c, [thread EXCEPT ![Primary] = "death"], rq[c])
             /\ Goes /\ UNCHANGED at
    <2> DEFINE th == [thread EXCEPT ![Primary] = "death"]
    <2>1. /\ th \in [Vcpu -> Thread] /\ th[Primary] = "death"
          /\ \A u \in Vcpu \ {Primary} : th[u] = thread[u]
      BY <1>2 DEF IInv, TypeOK, Thread
    <2>2. thread_resched(c, th, rq[c])
      BY <1>4
    <2> HIDE DEF th
    <2>3. /\ rq[c] \in Seq(Vcpu) /\ GoodQueue(c, rq[c])
          /\ \A k \in 1 .. Len(rq[c]) : thread[rq[c][k]] = "ready"
      BY QueueReady
    <2>4. \A k \in 1 .. Len(rq[c]) : th[rq[c][k]] = "ready"
      <3> TAKE k \in 1 .. Len(rq[c])
      <3>1. rq[c][k] \in Vcpu
        BY <2>3, ElementOfSeq
      <3> QED BY <1>2, <2>1, <2>3, <3>1
    <2>5. Switched(c)
      BY <1>2, <2>1, <2>2, <2>3, <2>4, ReschedSwitches
    <2>6. CodeStep(c, "run", op[c])
      BY <1>1 DEF CodeStep, IInv, TypeOK
    <2> QED BY <1>1, <1>2, <1>4, <2>5, <2>6, SwitchKeeps DEF Goes
  <1> QED BY <1>2, <1>3, <1>4 DEF vcpu_entry_primary

\* The steps that end in thread_resched.
LEMMA SwitchesKeep ==
  ASSUME VcpuLifeAssumption, IInv, OInv, NEW c \in Cpu,
         Tick(c) \/ RescheduleIrq(c) \/ VcpuSched(c) \/ thread_block(c)
  PROVE  OInv'
  <1>1. /\ fault = "none" /\ StoppingAt(c)
        /\ UNCHANGED <<status, at, evq, mem, op>>
    BY DEF Tick, RescheduleIrq, VcpuSched, thread_block, wires, OInv
  <1>2. CASE Tick(c) \/ RescheduleIrq(c)
    <2>1. PICK tail \in BOOLEAN : thread_preempt(c, tail)
      BY <1>2 DEF Tick, RescheduleIrq
    <2>2. pc[c] = "run" /\ UNCHANGED pc
      BY <1>2 DEF Tick, RescheduleIrq, Is
    <2>3. Switched(c) /\ fault' = fault
      BY <2>1, <2>2, PreemptSwitches
    <2>4. CodeStep(c, "run", op[c])
      BY <1>1, <2>2 DEF CodeStep, IInv, TypeOK
    <2> QED BY <1>1, <2>2, <2>3, <2>4, SwitchKeeps
  <1>3. CASE VcpuSched(c)
    <2>1. pc[c] = "sched"
      BY <1>3 DEF VcpuSched, Is
    <2>2. ~(cur[c] # Host /\ thread[cur[c]] = "running")
      BY <1>1, <2>1 DEF StoppingAt
    <2>3. thread_resched(c, thread, rq[c]) /\ GoTo(c, "run") /\ Goes
      BY <1>3, <2>2 DEF VcpuSched
    <2>4. CodeStep(c, "run", op[c])
      BY <1>1, <2>3 DEF CodeStep, GoTo, IInv, TypeOK
    <2> QED BY <1>1, <2>1, <2>3, <2>4, LeaveSwitches, SwitchKeeps DEF Goes
  <1>4. CASE thread_block(c)
    <2>1. pc[c] = "block"
      BY <1>4 DEF thread_block, Is
    <2>2. thread[cur[c]] = "blocked"
      BY <1>1, <2>1 DEF StoppingAt
    <2>3. thread_resched(c, thread, rq[c]) /\ GoTo(c, "run") /\ Goes
      BY <1>4, <2>2 DEF thread_block
    <2>4. CodeStep(c, "run", op[c])
      BY <1>1, <2>3 DEF CodeStep, GoTo, IInv, TypeOK
    <2> QED BY <1>1, <2>1, <2>3, <2>4, LeaveSwitches, SwitchKeeps DEF Goes
  <1> QED BY <1>2, <1>3, <1>4

-----------------------------------------------------------------------------
(* Orderly use: the theorems.                                              *)

\* Before the first vm_start.
LEMMA InitOInv ==
  ASSUME VcpuLifeAssumption, Init
  PROVE  OInv
  <1>1. /\ fault = "none" /\ status = [v \in Vcpu |-> "created"]
        /\ thread = [v \in Vcpu |-> "suspended"]
        /\ at = [v \in Vcpu |-> "entry"] /\ rq = [c \in Cpu |-> <<>>]
        /\ cur = [c \in Cpu |-> Host] /\ evq = [c \in Cpu |-> <<>>]
        /\ pc = [c \in Cpu |-> "run"]
    BY DEF Init
  <1>2. Primary \in Vcpu /\ \A v \in Vcpu : Pin[v] \in Cpu
    BY DEF VcpuLifeAssumption, Primary, Vcpu
  <1>3. StatusThread /\ HasMemory
    BY <1>1, <1>2 DEF StatusThread, HasMemory
  <1>4. ThreadsSound
    BY <1>1, <1>2 DEF ThreadsSound, Queued
  <1>5. ASSUME NEW c \in Cpu PROVE StartingAt(c) /\ StoppingAt(c) /\ EventsAt(c)
    BY <1>1 DEF StartingAt, StoppingAt, EventsAt, ByEvent
  <1> QED BY <1>1, <1>3, <1>4, <1>5 DEF OInv

\* Every step of an orderly use is one of the above.
LEMMA NextOInv ==
  ASSUME VcpuLifeAssumption, IInv, Orderly => OInv, [Next]_vars
  PROVE  (Orderly => OInv)'
  <1>1. CASE UNCHANGED vars
    BY <1>1 DEF vars, Orderly, OInv, StatusThread, ThreadsSound, HasMemory,
       Queued, StartingAt, StoppingAt, EventsAt, ByEvent, InTrap, IsOff
  <1>2. ASSUME NEW c \in Cpu, Step(c) PROVE (Orderly => OInv)'
    <2>1. UNCHANGED usage
      BY <1>2, ZenonT(40) DEF Step, Code, Boots, Calls, Tick, RescheduleIrq, VcpuSched,
         thread_preempt, hv_vcpu_start, thread_resume, vcpu_entry_primary,
         vcpu_start_common, hv_vcpu_poweroff, stop_current_cpu_thread,
         hv_event_handler, Shutdown_loop, lkhv_vm_free_mem, thread_block,
         psci_vcpu_on, psci_vcpu_off, psci_vcpu_suspend, psci_sys, vm_start,
         Trap, Goes, Fails
    <2> SUFFICES ASSUME Orderly PROVE OInv'
      BY <2>1 DEF Orderly
    <2>2. OInv
      OBVIOUS
    <2>3. \A v \in Vcpu : ~psci_vcpu_off(c, v) /\ ~psci_vcpu_suspend(c, v)
      BY <2>2, OrderlyGuest DEF psci_vcpu_off, psci_vcpu_suspend
    <2>4. CASE Code(c)
      BY <2>2, <2>4, SwitchesKeep, StartKeeps, ResumeKeeps, PoweroffKeeps,
         StopKeeps, LoopKeeps, FreeKeeps DEF Code
    <2>5. CASE Boots(c)
      BY <2>2, <2>5, EntryKeeps, StartCommonKeeps DEF Boots
    <2>6. CASE Calls(c)
      BY <2>2, <2>3, <2>6, OnKeeps, SysKeeps, VmStartKeeps DEF Calls
    <2>7. CASE Tick(c) \/ RescheduleIrq(c)
      BY <2>2, <2>7, SwitchesKeep
    <2>8. CASE hv_event_handler(c)
      BY <2>2, <2>8, EventKeeps
    <2> QED BY <1>2, <2>4, <2>5, <2>6, <2>7, <2>8, SMTT(40) DEF Step
  <1> QED BY <1>1, <1>2 DEF Next

\* Both invariants hold throughout.
LEMMA OInvHolds == Spec => [](IInv /\ (Orderly => OInv))
  <1>1. Init => IInv /\ (Orderly => OInv)
    BY VcpuLifeAssumption, InitIInv, InitOInv
  <1>2. IInv /\ (Orderly => OInv) /\ [Next]_vars =>
          (IInv /\ (Orderly => OInv))'
    BY VcpuLifeAssumption, NextIInv, NextOInv
  <1> QED BY <1>1, <1>2, PTL DEF Spec

\* In orderly use no assertion of thread.c fails, no stack is written under a
\* running thread, and the memory is given back once: for every number of
\* vcpus, every pinning and every number of starts.
THEOREM NoFaultCorrect == Spec => []NoFault
  <1>1. IInv /\ (Orderly => OInv) => NoFault
    BY DEF NoFault, OInv
  <1> QED BY <1>1, OInvHolds, PTL

\* In orderly use only ready threads are queued, and a cpu outside the
\* hypervisor runs a running thread.
THEOREM ThreadsCorrect == Spec => []ThreadConsistent
  <1>1. IInv /\ (Orderly => OInv) => ThreadConsistent
    BY DEF ThreadConsistent, OInv, ThreadsSound
  <1> QED BY <1>1, OInvHolds, PTL

\* In orderly use a vcpu that has been shut down is not back in its guest:
\* its cpu leaves the hypervisor only by switching away from it.
THEOREM OffCorrect == Spec => []OffMeansOff
  <1>1. ASSUME IInv, Orderly => OInv PROVE OffMeansOff
    <2> SUFFICES ASSUME Orderly, NEW c \in Cpu, NEW v \in Vcpu,
                        status[v] = "shutdown", pc[c] = "run", cur[c] = v
                 PROVE  FALSE
      BY DEF OffMeansOff
    <2>1. OInv
      BY <1>1
    <2>2. Pin[v] = c /\ v # Host
      BY <1>1, <2>1, VcpuLifeAssumption, AtHome
    <2>3. thread[v] = "running"
      BY <2>1, <2>2 DEF OInv, ThreadsSound
    <2> QED BY <2>1, <2>2, <2>3 DEF OInv, StatusThread
  <1> QED BY <1>1, OInvHolds, PTL
=============================================================================
