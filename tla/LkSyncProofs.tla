---------------------------- MODULE LkSyncProofs ----------------------------
(***************************************************************************)
(* For every number of threads and of cpus, and every choice of who waits  *)
(* with a timeout: what the mutex, the semaphore and the event hand over   *)
(* is handed over once, the wait queue and the timer queues have what they *)
(* should, and on one cpu no timer fires after it was cancelled.           *)
(***************************************************************************)
EXTENDS LkSync, FiniteSetTheorems, SequenceTheorems, TLAPS

-----------------------------------------------------------------------------
(* A list with an entry taken out                                          *)

\* What list_delete of the k-th entry leaves.
LEMMA RemoveAtLemma ==
  ASSUME NEW S, NEW s \in Seq(S), NEW k \in 1 .. Len(s)
  PROVE  /\ RemoveAt(s, k) \in Seq(S)
         /\ Len(RemoveAt(s, k)) = Len(s) - 1
         /\ \A j \in 1 .. (Len(s) - 1) :
              RemoveAt(s, k)[j] = IF j < k THEN s[j] ELSE s[j + 1]
  <1> DEFINE a == SubSeq(s, 1, k - 1)
             b == SubSeq(s, k + 1, Len(s))
  <1>0. Len(s) \in Nat /\ \A j \in 1 .. Len(s) : s[j] \in S
    BY LenProperties, ElementOfSeq
  <1>1. /\ a \in Seq(S) /\ Len(a) = k - 1
        /\ \A j \in 1 .. (k - 1) : a[j] = s[j]
    BY <1>0, SubSeqProperties
  <1>2. /\ b \in Seq(S) /\ Len(b) = Len(s) - k
        /\ \A j \in 1 .. (Len(s) - k) : b[j] = s[k + j]
    BY <1>0, SubSeqProperties
  <1>3. /\ a \o b \in Seq(S) /\ Len(a \o b) = Len(a) + Len(b)
        /\ \A j \in 1 .. Len(a) + Len(b) :
             (a \o b)[j] = IF j <= Len(a) THEN a[j] ELSE b[j - Len(a)]
    BY <1>1, <1>2, ConcatProperties
  <1> HIDE DEF a, b
  <1>4. \A j \in 1 .. (Len(s) - 1) :
          (a \o b)[j] = IF j < k THEN s[j] ELSE s[j + 1]
    <2> TAKE j \in 1 .. (Len(s) - 1)
    <2>1. CASE j < k
      BY <2>1, <1>0, <1>1, <1>2, <1>3
    <2>2. CASE ~(j < k)
      <3>1. j - Len(a) \in 1 .. (Len(s) - k) /\ j \in 1 .. Len(a) + Len(b)
        BY <2>2, <1>0, <1>1, <1>2
      <3>2. (a \o b)[j] = b[j - Len(a)]
        BY <2>2, <3>1, <1>0, <1>1, <1>3, SMTT(40)
      <3>3. b[j - Len(a)] = s[k + (j - Len(a))] /\ k + (j - Len(a)) = j + 1
        BY <3>1, <1>0, <1>1, <1>2
      <3> QED BY <2>2, <3>2, <3>3
    <2> QED BY <2>1, <2>2
  <1>5. RemoveAt(s, k) = a \o b
    BY Zenon DEF RemoveAt, a, b
  <1>6. Len(a \o b) = Len(s) - 1
    BY <1>0, <1>1, <1>2, <1>3
  <1> QED
    BY <1>3, <1>4, <1>5, <1>6

-----------------------------------------------------------------------------
(* The invariant                                                           *)

Thread == [state : {"READY", "RUNNING", "BLOCKED"}, in : BOOLEAN, inf : BOOLEAN,
           ret : {"ok", "timed_out", "destroyed"}]

Object == [count : Int, holder : Threads \cup {NoThread}, signaled : BOOLEAN,
           live : BOOLEAN]

\* The values the object has, and what counts its tokens.
ObjTypes ==
  /\ kind \in Kinds /\ cpus \in CpuSets
  /\ obj \in Object
  /\ tokens \in Int

\* The values the scheduler's and the timers' variables have.
SchedTypes ==
  /\ wait \in Seq(Threads)
  /\ thr \in [Threads -> Thread]
  /\ cur \in [cpus -> Threads \cup {NoThread}]
  /\ timer \in [Threads -> [cpu : cpus \cup {NoCpu}, callback : BOOLEAN]]
  /\ tick \in [cpus -> [t : Threads \cup {NoThread},
                        stage : {"none", "taken", "called"}]]
  /\ fault \in BOOLEAN

\* The interrupt handler works on the timer of a thread.
TickThread == \A c \in cpus : tick[c] # NoTick => tick[c].t \in Threads

\* The scheduler runs a thread on one cpu, outside wait_queue_block, and a
\* blocked thread is inside it.
Placed ==
  /\ \A c, d \in cpus : cur[c] = cur[d] /\ cur[c] # NoThread => c = d
  /\ \A c \in cpus : cur[c] # NoThread => thr[cur[c]].state = "RUNNING"
  /\ \A t \in Threads : /\ thr[t].state = "RUNNING" => ~thr[t].in
                        /\ thr[t].state = "BLOCKED" => thr[t].in

\* wait->list by its positions.
Listed ==
  /\ \A j, k \in 1 .. Len(wait) : wait[j] = wait[k] => j = k
  /\ \A k \in 1 .. Len(wait) : thr[wait[k]].state = "BLOCKED"
  /\ \A t \in Threads : thr[t].state = "BLOCKED" => \E k \in 1 .. Len(wait) : wait[k] = t

\* A queued timer is in the frame of a wait that has a timeout.
TimersOwned ==
  \A t \in Threads : timer[t].cpu # NoCpu => thr[t].in /\ ~thr[t].inf

\* The threads inside wait_queue_block.
Waiting == {t \in Threads : thr[t].in}

\* While the object exists nobody is told that it was destroyed, and its
\* owner is not waiting for it.
LiveWaits ==
  obj.live => \A t \in Threads :
                thr[t].in => thr[t].ret # "destroyed" /\ obj.holder # t

\* Only a mutex has a holder.
HolderIsMutex == kind # "mutex" => obj.holder = NoThread

\* What a mutex counts: the threads in mutex_acquire, and the holder.  At most
\* one thread is woken for it, and only when nobody holds it.
MutexCount ==
  (obj.live /\ kind = "mutex") =>
    /\ obj.count = Cardinality(Waiting) + (IF obj.holder # NoThread THEN 1 ELSE 0)
    /\ \A t, u \in Granted : t = u
    /\ Granted # {} => obj.holder = NoThread

\* What a semaphore counts: the posts that were not taken, less the waiters.
SemCount ==
  (obj.live /\ kind = "sem") =>
    /\ obj.count = tokens - Cardinality(Waiting)
    /\ Cardinality(Granted) <= tokens

\* Each signal of an auto event is somewhere.
AutoCount ==
  (obj.live /\ kind = "auto") =>
    tokens = Cardinality(Granted) + (IF obj.signaled THEN 1 ELSE 0)

\* On one cpu: what timer_tick has taken is in the frame of a wait that has a
\* timeout, and still has its callback.
OneCpu ==
  (\A c, d \in cpus : c = d) =>
    /\ ~fault /\ InfiniteWaits
    /\ \A t \in Threads : timer[t].cpu # NoCpu => timer[t].callback
    /\ \A c \in cpus :
         tick[c] # NoTick =>
           /\ thr[tick[c].t].in /\ ~thr[tick[c].t].inf
           /\ tick[c].stage = "taken" => timer[tick[c].t].callback

\* What holds of the scheduler and the timers, and of the object.
SchedInv  == SchedTypes /\ TickThread /\ Placed /\ Listed /\ TimersOwned /\ OneCpu
ObjectInv == ObjTypes /\ LiveWaits /\ HolderIsMutex /\ MutexCount /\ SemCount /\ AutoCount

\* What the steps preserve together.
IInv == SchedInv /\ ObjectInv

-----------------------------------------------------------------------------
(* What blocking, waking and running a thread do to the scheduler.         *)

\* wait_queue_block: t is added to the waiters, and nobody is granted anything.
LEMMA BlockStep ==
  ASSUME LkSyncAssumption, SchedInv, cpus \in CpuSets,
         NEW c \in cpus, NEW t \in Threads, Runs(c, t), NEW inf \in BOOLEAN,
         wait_queue_block(c, t, inf), UNCHANGED mode
  PROVE  /\ SchedInv'
         /\ t \notin Waiting /\ Waiting' = Waiting \cup {t} /\ Granted' = Granted
         /\ thr'[t].ret = "ok" /\ \A u \in Threads : u # t => thr'[u] = thr[u]
  <1> USE DEF SchedInv, mode, LkSyncAssumption
  <1>1. /\ wait' = Append(wait, t)
        /\ thr' = [thr EXCEPT ![t] = [state |-> "BLOCKED", in |-> TRUE,
                                      inf |-> inf, ret |-> "ok"]]
        /\ cur' = [cur EXCEPT ![c] = NoThread]
        /\ timer' = IF inf THEN timer
                    ELSE [timer EXCEPT ![t] = [cpu |-> c, callback |-> TRUE]]
        /\ UNCHANGED <<tick, fault, cpus>>
        /\ cur[c] = t /\ tick[c] = NoTick
    BY DEF wait_queue_block, Runs
  <1>2. thr[t].state = "RUNNING" /\ ~thr[t].in /\ timer[t].cpu = NoCpu
    BY <1>1 DEF Placed, TimersOwned
  <1>3. /\ Len(wait) \in Nat /\ Len(wait') = Len(wait) + 1 /\ wait' \in Seq(Threads)
        /\ wait'[Len(wait) + 1] = t
        /\ \A k \in 1 .. Len(wait) : wait'[k] = wait[k] /\ wait[k] \in Threads
    BY <1>1, AppendProperties, LenProperties, ElementOfSeq DEF SchedTypes
  <1>4. /\ thr'[t] = [state |-> "BLOCKED", in |-> TRUE, inf |-> inf, ret |-> "ok"]
        /\ \A u \in Threads : u # t => thr'[u] = thr[u]
    BY <1>1 DEF SchedTypes
  <1>5. SchedTypes'
    <2>1. thr' \in [Threads -> Thread]
      BY <1>1 DEF SchedTypes, Thread
    <2>2. timer' \in [Threads -> [cpu : cpus \cup {NoCpu}, callback : BOOLEAN]]
      BY <1>1 DEF SchedTypes
    <2> QED BY <1>1, <1>3, <2>1, <2>2 DEF SchedTypes
  <1>6. TickThread'
    BY <1>1 DEF TickThread
  <1>7. Placed'
    BY <1>1, <1>2, <1>4 DEF Placed, SchedTypes
  <1>8. Listed'
    <2>1. \A k \in 1 .. Len(wait) : wait[k] # t
      BY <1>2 DEF Listed
    <2>2. \A k \in 1 .. (Len(wait) + 1) : k \in 1 .. Len(wait) \/ k = Len(wait) + 1
      BY <1>3
    <2>3. \A j, k \in 1 .. Len(wait') : wait'[j] = wait'[k] => j = k
      BY <2>1, <2>2, <1>3 DEF Listed
    <2>4. \A k \in 1 .. Len(wait') : thr'[wait'[k]].state = "BLOCKED"
      BY <2>1, <2>2, <1>3, <1>4 DEF Listed
    <2>5. ASSUME NEW u \in Threads, thr'[u].state = "BLOCKED"
          PROVE  \E k \in 1 .. Len(wait') : wait'[k] = u
      <3>1. CASE u = t
        BY <3>1, <1>3
      <3>2. CASE u # t
        <4>1. PICK k \in 1 .. Len(wait) : wait[k] = u
          BY <3>2, <2>5, <1>4 DEF Listed
        <4> QED BY <4>1, <1>3
      <3> QED BY <3>1, <3>2
    <2> QED BY <2>3, <2>4, <2>5 DEF Listed
  <1>9. TimersOwned'
    BY <1>1, <1>2, <1>4 DEF TimersOwned, SchedTypes
  <1>10. OneCpu'
    <2> SUFFICES ASSUME \A d, e \in cpus : d = e PROVE OneCpu'
      BY <1>1 DEF OneCpu
    <2>1. \A d \in cpus : tick'[d] = NoTick
      BY <1>1
    <2>2. InfiniteWaits'
      BY <1>4 DEF OneCpu, InfiniteWaits
    <2>3. \A u \in Threads : timer'[u].cpu # NoCpu => timer'[u].callback
      BY <1>1 DEF OneCpu, SchedTypes
    <2> QED BY <1>1, <2>1, <2>2, <2>3 DEF OneCpu
  <1>11. t \notin Waiting /\ Waiting' = Waiting \cup {t}
    BY <1>2, <1>4 DEF Waiting
  <1>12. Granted' = Granted
    BY <1>2, <1>4, SMTT(40) DEF Granted
  <1> QED BY <1>4, <1>5, <1>6, <1>7, <1>8, <1>9, <1>10, <1>11, <1>12

\* The blocked threads are those in ts and those on rest, each once.
Leaves(ts, rest) ==
  /\ rest \in Seq(Threads)
  /\ \A u \in ts : u \in Threads /\ thr[u].state = "BLOCKED"
  /\ \A j, k \in 1 .. Len(rest) : rest[j] = rest[k] => j = k
  /\ \A k \in 1 .. Len(rest) : rest[k] \notin ts /\ thr[rest[k]].state = "BLOCKED"
  /\ \A u \in Threads : u \notin ts /\ thr[u].state = "BLOCKED" =>
                           \E k \in 1 .. Len(rest) : rest[k] = u

\* The scheduler after the threads in ts were woken: they are given ret, and no
\* thread enters or leaves its wait.
Woken(ts, ret) ==
  /\ wait' \in Seq(Threads) /\ thr' \in [Threads -> Thread]
  /\ cur' \in [cpus -> Threads \cup {NoThread}]
  /\ Placed' /\ Listed'
  /\ \A u \in Threads :
       /\ thr'[u].in = thr[u].in /\ thr'[u].inf = thr[u].inf
       /\ thr'[u].ret = IF u \in ts THEN ret ELSE thr[u].ret
  /\ Waiting' = Waiting
  /\ Granted' = IF ret = "ok" THEN Granted \cup ts ELSE Granted
  /\ \A u \in ts : u \in Threads /\ u \notin Granted

\* What every wait_queue_wake_* does, and the timeout handler.
LEMMA WakeStep ==
  ASSUME LkSyncAssumption, SchedInv, cpus \in CpuSets, UNCHANGED mode,
         NEW c \in cpus, NEW ts, NEW rest, Leaves(ts, rest),
         NEW ret \in {"ok", "timed_out", "destroyed"}, NEW reschedule \in BOOLEAN,
         Wake(c, ts, rest, ret, reschedule)
  PROVE  Woken(ts, ret)
  <1> USE DEF SchedInv, mode, LkSyncAssumption, Leaves
  <1> DEFINE yields == reschedule /\ ts # {}
  <1>1. /\ wait' = rest /\ cpus' = cpus
        /\ thr' = [u \in Threads |->
             IF u \in ts THEN [thr[u] EXCEPT !.state = "READY", !.ret = ret]
             ELSE IF yields /\ u = cur[c] THEN [thr[u] EXCEPT !.state = "READY"]
             ELSE thr[u]]
        /\ cur' = IF yields THEN [cur EXCEPT ![c] = NoThread] ELSE cur
    BY DEF Wake
  <1> HIDE DEF yields
  <1>2. \A u \in Threads :
          /\ thr[u] \in Thread
          /\ u \in ts => thr'[u] = [thr[u] EXCEPT !.state = "READY", !.ret = ret]
          /\ (u \notin ts /\ yields /\ u = cur[c]) =>
               thr'[u] = [thr[u] EXCEPT !.state = "READY"]
          /\ (u \notin ts /\ ~(yields /\ u = cur[c])) => thr'[u] = thr[u]
    BY <1>1 DEF SchedTypes
  <1>3. \A u \in Threads :
          /\ thr'[u] \in Thread
          /\ thr'[u].in = thr[u].in /\ thr'[u].inf = thr[u].inf
          /\ thr'[u].ret = IF u \in ts THEN ret ELSE thr[u].ret
          /\ u \in ts => thr'[u].state = "READY"
          /\ (u \notin ts /\ yields /\ u = cur[c]) => thr'[u].state = "READY"
          /\ (u \notin ts /\ ~(yields /\ u = cur[c])) => thr'[u].state = thr[u].state
    <2> TAKE u \in Threads
    <2>1. CASE u \in ts
      <3>1. thr'[u] = [thr[u] EXCEPT !.state = "READY", !.ret = ret]
        BY <2>1, <1>2, Zenon
      <3>2. /\ thr'[u] \in Thread /\ thr'[u].state = "READY"
            /\ thr'[u].in = thr[u].in /\ thr'[u].inf = thr[u].inf
            /\ thr'[u].ret = ret
        <4>1. thr[u] \in Thread
          BY <1>2
        <4>2. ret \in {"ok", "timed_out", "destroyed"}
          OBVIOUS
        <4> QED BY ONLY <4>1, <4>2, <3>1 DEF Thread
      <3> QED BY <2>1, <3>2
    <2>2. CASE u \notin ts /\ yields /\ u = cur[c]
      <3>1. thr'[u] = [thr[u] EXCEPT !.state = "READY"]
        BY <2>2, <1>2, Zenon
      <3>2. /\ thr'[u] \in Thread /\ thr'[u].state = "READY"
            /\ thr'[u].in = thr[u].in /\ thr'[u].inf = thr[u].inf
            /\ thr'[u].ret = thr[u].ret
        <4>1. thr[u] \in Thread
          BY <1>2
        <4> QED BY ONLY <4>1, <3>1 DEF Thread
      <3> QED BY <2>2, <3>2
    <2>3. CASE u \notin ts /\ ~(yields /\ u = cur[c])
      BY <2>3, <1>2, ZenonT(40)
    <2> QED BY <2>1, <2>2, <2>3
  <1>4. thr' \in [Threads -> Thread]
    BY <1>1, <1>3
  <1>5. cur' \in [cpus -> Threads \cup {NoThread}]
    BY <1>1 DEF SchedTypes
  <1>6. \A u \in Threads : thr'[u].state = "BLOCKED" <=>
                             u \notin ts /\ thr[u].state = "BLOCKED"
    <2> TAKE u \in Threads
    <2>1. u = cur[c] => thr[u].state = "RUNNING"
      BY DEF Placed
    <2> QED BY <2>1, <1>3
  <1>7. Placed'
    <2>1. ASSUME NEW d \in cpus, cur'[d] # NoThread
          PROVE  thr'[cur'[d]].state = "RUNNING"
      <3>1. cur'[d] = cur[d] /\ ~(yields /\ d = c) /\ cur[d] \in Threads
        BY <2>1, <1>1, ZenonT(40) DEF SchedTypes
      <3>2. thr[cur[d]].state = "RUNNING" /\ cur[d] \notin ts
        BY <2>1, <3>1 DEF Placed
      <3>3. ~(yields /\ cur[d] = cur[c])
        BY <2>1, <3>1 DEF Placed
      <3> QED BY <3>1, <3>2, <3>3, <1>3
    <2>2. \A d, e \in cpus : cur'[d] = cur'[e] /\ cur'[d] # NoThread => d = e
      BY <1>1, ZenonT(40) DEF Placed, SchedTypes
    <2>3. ASSUME NEW u \in Threads
          PROVE  /\ thr'[u].state = "RUNNING" => ~thr'[u].in
                 /\ thr'[u].state = "BLOCKED" => thr'[u].in
      BY <1>3, <1>6 DEF Placed
    <2> QED BY <1>1, <2>1, <2>2, <2>3, ZenonT(40) DEF Placed
  <1>8. Listed'
    <2>1. \A k \in 1 .. Len(rest) : rest[k] \in Threads
      BY ElementOfSeq
    <2> QED BY <1>1, <1>6, <2>1, ZenonT(40) DEF Listed
  <1>9. Waiting' = Waiting
    BY <1>3 DEF Waiting
  <1>10. ASSUME NEW u \in Threads
         PROVE  /\ u \in ts => u \notin Granted
                /\ u \in Granted' <=> u \in Granted \/ (ret = "ok" /\ u \in ts)
    <2>1. CASE u \in ts
      BY <2>1, <1>3 DEF Granted, Placed
    <2>2. CASE u \notin ts /\ yields /\ u = cur[c]
      <3>1. thr[u].state = "RUNNING" /\ ~thr[u].in
        BY <2>2 DEF Placed
      <3> QED BY <2>2, <3>1, <1>3 DEF Granted
    <2>3. CASE u \notin ts /\ ~(yields /\ u = cur[c])
      BY <2>3, <1>3 DEF Granted
    <2> QED BY <2>1, <2>2, <2>3
  <1>11. Granted' = IF ret = "ok" THEN Granted \cup ts ELSE Granted
    <2>1. \A u \in Granted' \cup Granted \cup ts : u \in Threads
      BY DEF Granted
    <2> QED BY <2>1, <1>10
  <1>12. \A u \in ts : u \notin Granted
    BY <1>10
  <1> QED
    BY <1>1, <1>3, <1>4, <1>5, <1>7, <1>8, <1>9, <1>11, <1>12 DEF Woken

\* What wait_queue_wake_one takes and leaves is what WakeStep asks for.
LEMMA HeadRest ==
  ASSUME SchedInv, NEW rest, wait = <<>> => rest = wait, wait # <<>> => rest = Tail(wait)
  PROVE  Leaves(First, rest)
  <1> USE DEF SchedInv
  <1>1. wait \in Seq(Threads) /\ Len(wait) \in Nat
    BY LenProperties DEF SchedTypes
  <1>2. CASE wait = <<>>
    BY <1>2, <1>1 DEF First, Listed, Leaves
  <1>3. CASE wait # <<>>
    <2>1. /\ Len(wait) >= 1 /\ First = {wait[1]} /\ wait[1] \in Threads
          /\ rest \in Seq(Threads) /\ Len(rest) = Len(wait) - 1
          /\ \A k \in 1 .. Len(rest) : rest[k] = wait[k + 1]
      BY <1>1, <1>3, EmptySeq, HeadTailProperties, ElementOfSeq DEF First
    <2>2. \A k \in 1 .. Len(rest) : k + 1 \in 1 .. Len(wait) /\ k + 1 # 1
      BY <2>1, <1>1
    <2>3. 1 \in 1 .. Len(wait)
      BY <2>1, <1>1
    <2>4. \A u \in First : u \in Threads /\ thr[u].state = "BLOCKED"
      BY <2>1, <2>3 DEF Listed
    <2>5. ASSUME NEW j \in 1 .. Len(rest), NEW k \in 1 .. Len(rest), rest[j] = rest[k]
          PROVE  j = k
      <3>1. j + 1 = k + 1
        BY <2>1, <2>2, <2>5 DEF Listed
      <3> QED BY <3>1, <2>1
    <2>6. ASSUME NEW k \in 1 .. Len(rest)
          PROVE  rest[k] \notin First /\ thr[rest[k]].state = "BLOCKED"
      <3>1. rest[k] = wait[k + 1] /\ k + 1 \in 1 .. Len(wait) /\ k + 1 # 1
        BY <2>1, <2>2
      <3>2. wait[k + 1] # wait[1] /\ thr[wait[k + 1]].state = "BLOCKED"
        BY <3>1, <2>3 DEF Listed
      <3> QED BY <3>1, <3>2, <2>1
    <2>7. ASSUME NEW u \in Threads, u \notin First, thr[u].state = "BLOCKED"
          PROVE  \E k \in 1 .. Len(rest) : rest[k] = u
      <3>1. PICK k \in 1 .. Len(wait) : wait[k] = u
        BY <2>7 DEF Listed
      <3>2. k # 1
        BY <3>1, <2>1, <2>7
      <3>3. k - 1 \in 1 .. Len(rest) /\ (k - 1) + 1 = k
        BY <3>2, <2>1, <1>1
      <3> QED BY <3>1, <3>3, <2>1
    <2> QED BY <2>1, <2>4, <2>5, <2>6, <2>7 DEF Leaves
  <1> QED BY <1>2, <1>3

\* timer, tick and fault are left alone: the timers and the interrupt handlers
\* keep their threads, whoever is woken for another reason than a timeout.
LEMMA WakesInv ==
  ASSUME LkSyncAssumption, SchedInv, cpus \in CpuSets, UNCHANGED mode,
         UNCHANGED <<timer, tick, fault>>,
         wait' \in Seq(Threads), thr' \in [Threads -> Thread],
         cur' \in [cpus -> Threads \cup {NoThread}], Placed', Listed',
         \A u \in Threads :
           /\ thr'[u].in = thr[u].in /\ thr'[u].inf = thr[u].inf
           /\ thr'[u].ret = "timed_out" => thr[u].ret = "timed_out"
  PROVE  SchedInv'
  <1> USE DEF SchedInv, mode
  <1>1. SchedTypes' /\ TickThread'
    BY DEF SchedTypes, TickThread
  <1>2. TimersOwned'
    BY DEF TimersOwned
  <1>3. OneCpu'
    <2> SUFFICES ASSUME \A d, e \in cpus : d = e PROVE OneCpu'
      BY DEF OneCpu
    <2>1. ~fault' /\ InfiniteWaits'
      BY DEF OneCpu, InfiniteWaits
    <2>2. \A u \in Threads : timer'[u].cpu # NoCpu => timer'[u].callback
      BY DEF OneCpu
    <2>3. ASSUME NEW d \in cpus, tick'[d] # NoTick
          PROVE  /\ thr'[tick'[d].t].in /\ ~thr'[tick'[d].t].inf
                 /\ tick'[d].stage = "taken" => timer'[tick'[d].t].callback
      <3>1. tick[d].t \in Threads
        BY <2>3 DEF TickThread
      <3> QED BY <2>3, <3>1 DEF OneCpu
    <2> QED BY <2>1, <2>2, <2>3 DEF OneCpu
  <1> QED BY <1>1, <1>2, <1>3

\* wait_queue_wake_one, with what its caller leaves alone.
LEMMA WakeOneStep ==
  ASSUME LkSyncAssumption, SchedInv, cpus \in CpuSets, UNCHANGED mode,
         NEW c \in cpus, NEW reschedule \in BOOLEAN,
         Wakes(wait_queue_wake_one(c, "ok", reschedule))
  PROVE  /\ SchedInv'
         /\ Waiting' = Waiting /\ Granted' = Granted \cup First
         /\ \A u \in First : u \in Threads /\ u \notin Granted
         /\ \A u \in Threads : thr'[u].ret = thr[u].ret \/ thr'[u].ret = "ok"
  <1> DEFINE rest == IF wait = <<>> THEN wait ELSE Tail(wait)
  <1>1. Wake(c, First, rest, "ok", reschedule) /\ UNCHANGED <<timer, tick, fault>>
    BY DEF Wakes, wait_queue_wake_one
  <1>2. Leaves(First, rest)
    BY HeadRest
  <1> HIDE DEF rest
  <1>3. Woken(First, "ok")
    BY <1>1, <1>2, WakeStep
  <1>4. SchedInv'
    BY <1>1, <1>3, WakesInv DEF Woken
  <1> QED BY <1>3, <1>4 DEF Woken

\* wait_queue_wake_all likewise.
LEMMA WakeAllStep ==
  ASSUME LkSyncAssumption, SchedInv, cpus \in CpuSets, UNCHANGED mode,
         NEW c \in cpus, NEW reschedule \in BOOLEAN, NEW ret \in {"ok", "destroyed"},
         Wakes(wait_queue_wake_all(c, ret, reschedule))
  PROVE  /\ SchedInv' /\ Waiting' = Waiting
         /\ \A u \in Threads : thr'[u].ret = thr[u].ret \/ thr'[u].ret = ret
  <1> DEFINE rest == <<>>
             ts == ToSet(wait)
  <1>1. Wake(c, ts, rest, ret, reschedule) /\ UNCHANGED <<timer, tick, fault>>
    BY DEF Wakes, wait_queue_wake_all
  <1>2. wait \in Seq(Threads) /\ ts = {wait[k] : k \in 1 .. Len(wait)}
    BY DEF SchedInv, SchedTypes, ToSet
  <1>3. Leaves(ts, rest)
    BY <1>2, ElementOfSeq DEF SchedInv, Listed, Leaves
  <1> HIDE DEF rest, ts
  <1>4. ret \in {"ok", "timed_out", "destroyed"} /\ ret # "timed_out"
    OBVIOUS
  <1>5. Woken(ts, ret)
    BY <1>1, <1>3, <1>4, WakeStep
  <1>6. SchedInv'
    BY <1>1, <1>4, <1>5, WakesInv DEF Woken
  <1> QED BY <1>5, <1>6 DEF Woken

\* timer_tick up to the call of the timeout handler: the thread of the timer
\* does not move.
LEMMA TickStep ==
  ASSUME LkSyncAssumption, SchedInv, cpus \in CpuSets, NEW c \in cpus,
         TickDequeue(c) \/ TickCall(c)
  PROVE  /\ SchedInv' /\ UNCHANGED <<mode, obj, thr, tokens>>
         /\ Waiting' = Waiting /\ Granted' = Granted
  <1> USE DEF SchedInv, mode, LkSyncAssumption
  <1>1. CASE TickDequeue(c)
    <2>1. PICK t \in Threads :
            /\ timer[t].cpu = c
            /\ timer' = [timer EXCEPT ![t].cpu = NoCpu]
            /\ tick' = [tick EXCEPT ![c] = [t |-> t, stage |-> "taken"]]
      BY <1>1 DEF TickDequeue
    <2>2. UNCHANGED <<mode, obj, wait, thr, cur, fault, tokens>>
      BY <1>1 DEF TickDequeue
    <2>3. c # NoCpu /\ thr[t].in /\ ~thr[t].inf
      BY <2>1 DEF TimersOwned
    <2>4. SchedTypes'
      BY <2>1, <2>2, ZenonT(40) DEF SchedTypes
    <2>5. /\ tick'[c].t = t /\ tick'[c].stage = "taken"
          /\ \A d \in cpus : d # c => tick'[d] = tick[d]
          /\ timer'[t].cpu = NoCpu /\ timer'[t].callback = timer[t].callback
          /\ \A u \in Threads : u # t => timer'[u] = timer[u]
      BY <2>1 DEF SchedTypes
    <2>6. TickThread'
      BY <2>2, <2>5 DEF TickThread
    <2>7. Placed' /\ Listed' /\ TimersOwned'
      BY <2>2, <2>5 DEF Placed, Listed, TimersOwned
    <2>8. OneCpu'
      <3> SUFFICES ASSUME \A d, e \in cpus : d = e PROVE OneCpu'
        BY <2>2 DEF OneCpu
      <3>1. timer[t].callback
        BY <2>1, <2>3 DEF OneCpu
      <3>2. ~fault' /\ InfiniteWaits'
        BY <2>2 DEF OneCpu, InfiniteWaits
      <3>3. \A u \in Threads : timer'[u].cpu # NoCpu => timer'[u].callback
        BY <2>5 DEF OneCpu
      <3>4. \A d \in cpus : d = c
        OBVIOUS
      <3> QED BY <2>2, <2>3, <2>5, <3>1, <3>2, <3>3, <3>4 DEF OneCpu
    <2> QED BY <2>2, <2>4, <2>6, <2>7, <2>8 DEF Waiting, Granted
  <1>2. CASE TickCall(c)
    <2>1. /\ tick[c].stage = "taken"
          /\ fault' = ~timer[tick[c].t].callback
          /\ tick' = [tick EXCEPT ![c].stage = "called"]
          /\ UNCHANGED <<mode, obj, wait, thr, cur, timer, tokens>>
      BY <1>2 DEF TickCall
    <2>2. tick[c] # NoTick /\ tick[c].t \in Threads
      BY <2>1 DEF NoTick, TickThread
    <2>3. /\ tick'[c].t = tick[c].t /\ tick'[c].stage = "called"
          /\ \A d \in cpus : d # c => tick'[d] = tick[d]
      BY <2>1 DEF SchedTypes
    <2>4. SchedTypes'
      BY <2>1, <2>2, ZenonT(40) DEF SchedTypes
    <2>5. TickThread'
      BY <2>1, <2>2, <2>3 DEF TickThread
    <2>6. Placed' /\ Listed' /\ TimersOwned'
      BY <2>1 DEF Placed, Listed, TimersOwned
    <2>7. OneCpu'
      <3> SUFFICES ASSUME \A d, e \in cpus : d = e PROVE OneCpu'
        BY <2>1 DEF OneCpu
      <3>1. /\ thr[tick[c].t].in /\ ~thr[tick[c].t].inf /\ timer[tick[c].t].callback
        BY <2>1, <2>2 DEF OneCpu
      <3>2. ~fault' /\ InfiniteWaits'
        BY <2>1, <3>1 DEF OneCpu, InfiniteWaits
      <3>3. \A d \in cpus : d = c
        OBVIOUS
      <3> QED BY <2>1, <2>3, <3>1, <3>2, <3>3 DEF OneCpu
    <2> QED BY <2>1, <2>4, <2>5, <2>6, <2>7 DEF Waiting, Granted
  <1> QED BY <1>1, <1>2

\* What list_delete of a blocked thread leaves is what WakeStep asks for.
LEMMA DeleteRest ==
  ASSUME SchedInv, NEW t \in Threads, NEW i \in 1 .. Len(wait), wait[i] = t
  PROVE  Leaves({t}, RemoveAt(wait, i))
  <1> USE DEF SchedInv
  <1> DEFINE rest == RemoveAt(wait, i)
  <1>1. wait \in Seq(Threads) /\ Len(wait) \in Nat
    BY LenProperties DEF SchedTypes
  <1>2. /\ rest \in Seq(Threads) /\ Len(rest) = Len(wait) - 1
        /\ \A j \in 1 .. (Len(wait) - 1) : rest[j] = IF j < i THEN wait[j] ELSE wait[j + 1]
    BY <1>1, RemoveAtLemma
  <1> HIDE DEF rest
  <1>3. ASSUME NEW j \in 1 .. Len(rest)
        PROVE  \E a \in 1 .. Len(wait) : a # i /\ rest[j] = wait[a] /\ (a = j \/ a = j + 1)
                                         /\ (a = j <=> j < i)
    <2>1. CASE j < i
      BY <2>1, <1>1, <1>2
    <2>2. CASE ~(j < i)
      <3>1. j + 1 \in 1 .. Len(wait) /\ j + 1 # i /\ rest[j] = wait[j + 1]
        BY <2>2, <1>1, <1>2
      <3> QED BY <3>1, <2>2
    <2> QED BY <2>1, <2>2
  <1>4. thr[t].state = "BLOCKED"
    BY DEF Listed
  <1>5. ASSUME NEW j \in 1 .. Len(rest), NEW k \in 1 .. Len(rest), rest[j] = rest[k]
        PROVE  j = k
    <2>1. PICK a \in 1 .. Len(wait) :
            rest[j] = wait[a] /\ (a = j \/ a = j + 1) /\ (a = j <=> j < i)
      BY <1>3
    <2>2. PICK b \in 1 .. Len(wait) :
            rest[k] = wait[b] /\ (b = k \/ b = k + 1) /\ (b = k <=> k < i)
      BY <1>3
    <2>3. a = b
      BY <1>5, <2>1, <2>2 DEF Listed
    <2> QED BY <2>1, <2>2, <2>3, <1>1, <1>2
  <1>6. ASSUME NEW j \in 1 .. Len(rest)
        PROVE  rest[j] \notin {t} /\ thr[rest[j]].state = "BLOCKED"
    BY <1>3 DEF Listed
  <1>7. ASSUME NEW u \in Threads, u \notin {t}, thr[u].state = "BLOCKED"
        PROVE  \E k \in 1 .. Len(rest) : rest[k] = u
    <2>1. PICK a \in 1 .. Len(wait) : wait[a] = u
      BY <1>7 DEF Listed
    <2>2. CASE a < i
      <3>1. a \in 1 .. Len(rest) /\ rest[a] = u
        BY <2>1, <2>2, <1>1, <1>2
      <3> QED BY <3>1
    <2>3. CASE a > i
      <3>1. a - 1 \in 1 .. Len(rest) /\ ~(a - 1 < i) /\ (a - 1) + 1 = a
        BY <2>3, <1>1, <1>2
      <3>2. rest[a - 1] = wait[(a - 1) + 1]
        BY <3>1, <1>2
      <3> QED BY <3>1, <3>2, <2>1
    <2>4. a # i
      BY <2>1, <1>7
    <2> QED BY <2>2, <2>3, <2>4
  <1>8. Leaves({t}, rest)
    BY <1>2, <1>4, <1>5, <1>6, <1>7 DEF Leaves
  <1> QED BY <1>8 DEF rest

\* wait_queue_timeout_handler: the thread that waited too long is woken, and
\* granted nothing.
LEMMA HandlerStep ==
  ASSUME LkSyncAssumption, SchedInv, cpus \in CpuSets, NEW c \in cpus,
         wait_queue_timeout_handler(c)
  PROVE  /\ SchedInv' /\ UNCHANGED <<mode, obj, tokens>>
         /\ Waiting' = Waiting /\ Granted' = Granted
         /\ \A u \in Threads : thr'[u].ret = thr[u].ret \/ thr'[u].ret = "timed_out"
  <1> USE DEF SchedInv
  <1> DEFINE t == tick[c].t
  <1>1. /\ tick[c].stage = "called"
        /\ tick' = [tick EXCEPT ![c] = NoTick]
        /\ UNCHANGED <<mode, obj, timer, fault, tokens>>
    BY DEF wait_queue_timeout_handler
  <1>2. tick[c] # NoTick /\ t \in Threads
    BY <1>1 DEF NoTick, TickThread
  <1>3. /\ tick'[c] = NoTick /\ \A d \in cpus : d # c => tick'[d] = tick[d]
        /\ tick' \in [cpus -> [t : Threads \cup {NoThread},
                               stage : {"none", "taken", "called"}]]
    BY <1>1 DEF SchedTypes, NoTick
  <1>4. CASE thr[t].state # "BLOCKED"
    <2>1. UNCHANGED <<wait, thr, cur>>
      BY <1>4 DEF wait_queue_timeout_handler
    <2>2. SchedTypes' /\ TickThread' /\ Placed' /\ Listed' /\ TimersOwned'
      BY <1>1, <1>3, <2>1 DEF SchedTypes, TickThread, Placed, Listed, TimersOwned, mode
    <2>3. OneCpu'
      BY <1>1, <1>3, <2>1 DEF OneCpu, InfiniteWaits, mode
    <2> QED BY <1>1, <2>1, <2>2, <2>3 DEF Waiting, Granted
  <1>5. CASE thr[t].state = "BLOCKED"
    <2>1. PICK k \in 1 .. Len(wait) :
            wait[k] = t /\ Wake(c, {t}, RemoveAt(wait, k), "timed_out", TRUE)
      BY <1>5 DEF wait_queue_timeout_handler
    <2> HIDE DEF t
    <2>2. Leaves({t}, RemoveAt(wait, k))
      BY <1>2, <2>1, DeleteRest
    <2>3. UNCHANGED mode
      BY <1>1
    <2>4. Woken({t}, "timed_out")
      BY <2>1, <2>2, <2>3, WakeStep
    <2>5. \A u \in Threads :
            /\ thr'[u].in = thr[u].in /\ thr'[u].inf = thr[u].inf
            /\ thr'[u].ret = IF u = t THEN "timed_out" ELSE thr[u].ret
      BY <2>4 DEF Woken
    <2>6. SchedTypes' /\ TickThread' /\ Placed' /\ Listed' /\ TimersOwned'
      BY <1>1, <1>3, <2>4 DEF SchedTypes, TickThread, TimersOwned, mode, Woken
    <2>7. OneCpu'
      <3> SUFFICES ASSUME \A d, e \in cpus : d = e PROVE OneCpu'
        BY <1>1 DEF OneCpu, mode
      <3>1. thr[t].in /\ ~thr[t].inf
        BY <1>2 DEF OneCpu, t
      <3>2. ~fault' /\ InfiniteWaits'
        BY <1>1, <2>5, <3>1 DEF OneCpu, InfiniteWaits
      <3>3. \A d \in cpus : tick'[d] = NoTick
        BY <1>3
      <3> QED BY <1>1, <3>2, <3>3 DEF OneCpu, mode
    <2> QED BY <1>1, <2>4, <2>5, <2>6, <2>7 DEF Woken
  <1> QED BY <1>4, <1>5

\* Running a thread ends its wait: its timer is cancelled.
LEMMA DispatchStep ==
  ASSUME LkSyncAssumption, SchedInv, cpus \in CpuSets, NEW c \in cpus,
         NEW t \in Threads, Dispatch(c, t)
  PROVE  /\ SchedInv' /\ UNCHANGED mode
         /\ Waiting' = Waiting \ {t} /\ Granted' = Granted \ {t}
         /\ ~thr'[t].in /\ \A u \in Threads : u # t => thr'[u] = thr[u]
  <1> USE DEF SchedInv
  <1>1. /\ cur[c] = NoThread /\ tick[c] = NoTick
        /\ thr[t].state = "READY"
        /\ cur' = [cur EXCEPT ![c] = t]
        /\ thr' = [thr EXCEPT ![t].state = "RUNNING", ![t].in = FALSE,
                              ![t].inf = TRUE, ![t].ret = "ok"]
        /\ UNCHANGED <<mode, wait, tick, fault>>
        /\ timer' = IF thr[t].in /\ ~thr[t].inf THEN timer_cancel(t) ELSE timer
    BY DEF Dispatch, Returned
  <1>2. cpus' = cpus
    BY <1>1 DEF mode
  <1>3. /\ thr' \in [Threads -> Thread]
        /\ thr'[t].state = "RUNNING" /\ ~thr'[t].in /\ thr'[t].ret = "ok"
        /\ \A u \in Threads : u # t => thr'[u] = thr[u]
    <2>1. thr[t] \in Thread /\ thr \in [Threads -> Thread]
      BY DEF SchedTypes
    <2> QED BY <1>1, <2>1 DEF Thread
  <1>4. /\ timer' \in [Threads -> [cpu : cpus \cup {NoCpu}, callback : BOOLEAN]]
        /\ timer'[t].cpu = NoCpu
        /\ \A u \in Threads : u # t => timer'[u] = timer[u]
    BY <1>1 DEF SchedTypes, timer_cancel, NoTimer, TimersOwned
  <1>5. SchedTypes'
    BY <1>1, <1>2, <1>3, <1>4 DEF SchedTypes
  <1>6. TickThread'
    BY <1>1, <1>2 DEF TickThread
  <1>7. Placed'
    <2>1. \A d \in cpus : cur[d] # t
      BY <1>1 DEF Placed, LkSyncAssumption
    <2>2. \A d \in cpus : cur'[d] = IF d = c THEN t ELSE cur[d]
      BY <1>1 DEF SchedTypes
    <2>3. \A d, e \in cpus : cur'[d] = cur'[e] /\ cur'[d] # NoThread => d = e
      BY <2>1, <2>2 DEF Placed
    <2>4. \A d \in cpus : cur'[d] # NoThread => thr'[cur'[d]].state = "RUNNING"
      BY <2>1, <2>2, <1>3 DEF Placed, SchedTypes
    <2>5. \A u \in Threads : /\ thr'[u].state = "RUNNING" => ~thr'[u].in
                             /\ thr'[u].state = "BLOCKED" => thr'[u].in
      BY <1>3 DEF Placed
    <2> QED BY <1>2, <2>3, <2>4, <2>5 DEF Placed
  <1>8. Listed'
    <2>1. \A k \in 1 .. Len(wait) : wait[k] \in Threads /\ wait[k] # t
      BY <1>1, ElementOfSeq DEF SchedTypes, Listed
    <2> QED BY <1>1, <1>3, <2>1 DEF Listed
  <1>9. TimersOwned'
    BY <1>3, <1>4 DEF TimersOwned
  <1>10. OneCpu'
    <2> SUFFICES ASSUME \A d, e \in cpus : d = e PROVE OneCpu'
      BY <1>2 DEF OneCpu
    <2>1. \A d \in cpus : tick'[d] = NoTick
      BY <1>1
    <2>2. ~fault' /\ InfiniteWaits'
      BY <1>1, <1>3 DEF OneCpu, InfiniteWaits
    <2>3. \A u \in Threads : timer'[u].cpu # NoCpu => timer'[u].callback
      BY <1>4 DEF OneCpu
    <2> QED BY <1>2, <2>1, <2>2, <2>3 DEF OneCpu
  <1>11. Waiting' = Waiting \ {t} /\ Granted' = Granted \ {t}
    BY <1>3 DEF Waiting, Granted
  <1> QED
    BY <1>1, <1>3, <1>5, <1>6, <1>7, <1>8, <1>9, <1>10, <1>11

\* A preempted thread is in no wait.
LEMMA PreemptStep ==
  ASSUME LkSyncAssumption, SchedInv, cpus \in CpuSets, NEW c \in cpus,
         NEW t \in Threads, Preempt(c, t)
  PROVE  /\ SchedInv' /\ UNCHANGED <<mode, obj, tokens>>
         /\ Waiting' = Waiting /\ Granted' = Granted
         /\ \A u \in Threads : thr'[u].ret = thr[u].ret
  <1> USE DEF SchedInv
  <1>1. /\ cur[c] = t /\ tick[c] = NoTick
        /\ cur' = [cur EXCEPT ![c] = NoThread]
        /\ thr' = [thr EXCEPT ![t].state = "READY"]
        /\ UNCHANGED <<mode, obj, wait, timer, tick, fault, tokens>>
    BY DEF Preempt, Runs
  <1>2. thr[t].state = "RUNNING" /\ ~thr[t].in
    BY <1>1 DEF Placed, LkSyncAssumption
  <1>3. /\ thr' \in [Threads -> Thread]
        /\ thr'[t].state = "READY" /\ thr'[t].in = thr[t].in
        /\ thr'[t].inf = thr[t].inf /\ thr'[t].ret = thr[t].ret
        /\ \A u \in Threads : u # t => thr'[u] = thr[u]
    <2>1. thr[t] \in Thread /\ thr \in [Threads -> Thread]
      BY DEF SchedTypes
    <2> QED BY <1>1, <2>1 DEF Thread
  <1>4. cur' \in [cpus -> Threads \cup {NoThread}]
    BY <1>1 DEF SchedTypes
  <1>5. Placed'
    <2>1. cpus' = cpus
      BY <1>1 DEF mode
    <2>2. \A d \in cpus : cur'[d] = IF d = c THEN NoThread ELSE cur[d]
      BY <1>1 DEF SchedTypes
    <2>3. \A d, e \in cpus : cur'[d] = cur'[e] /\ cur'[d] # NoThread => d = e
      BY <2>2 DEF Placed
    <2>4. \A d \in cpus : cur'[d] # NoThread => cur'[d] # t
      BY <2>2, <1>1 DEF Placed
    <2>5. \A d \in cpus : cur'[d] # NoThread => thr'[cur'[d]].state = "RUNNING"
      BY <2>2, <2>4, <1>3 DEF Placed, SchedTypes
    <2>6. \A u \in Threads : /\ thr'[u].state = "RUNNING" => ~thr'[u].in
                             /\ thr'[u].state = "BLOCKED" => thr'[u].in
      BY <1>3 DEF Placed
    <2> QED BY <2>1, <2>3, <2>5, <2>6 DEF Placed
  <1>6. Listed'
    <2>1. \A k \in 1 .. Len(wait) : wait[k] \in Threads /\ wait[k] # t
      BY <1>2, ElementOfSeq DEF SchedTypes, Listed
    <2> QED BY <1>1, <1>3, <2>1 DEF Listed
  <1>7. wait' \in Seq(Threads)
    BY <1>1 DEF SchedTypes
  <1>8. \A u \in Threads : /\ thr'[u].in = thr[u].in /\ thr'[u].inf = thr[u].inf
                           /\ thr'[u].ret = thr[u].ret
    BY <1>3
  <1>9. SchedInv'
    BY <1>1, <1>3, <1>4, <1>5, <1>6, <1>7, <1>8, WakesInv
  <1>10. Waiting' = Waiting /\ Granted' = Granted
    BY <1>2, <1>3 DEF Waiting, Granted
  <1> QED BY <1>1, <1>8, <1>9, <1>10

\* A call that does not block and wakes nobody.
LEMMA QuietSched ==
  ASSUME SchedInv, UNCHANGED mode, NoSwitch
  PROVE  SchedInv' /\ Waiting' = Waiting /\ Granted' = Granted
  <1> USE DEF SchedInv, mode, NoSwitch
  <1>1. SchedTypes' /\ TickThread' /\ Placed' /\ Listed' /\ TimersOwned'
    BY DEF SchedTypes, TickThread, Placed, Listed, TimersOwned
  <1>2. OneCpu'
    BY DEF OneCpu, InfiniteWaits
  <1> QED BY <1>1, <1>2 DEF Waiting, Granted

-----------------------------------------------------------------------------
(* What the operations do to the object's count.                           *)

\* There are finitely many waiters, and a granted thread is one of them.
LEMMA Counted ==
  ASSUME LkSyncAssumption
  PROVE  /\ IsFiniteSet(Waiting) /\ IsFiniteSet(Granted)
         /\ Cardinality(Waiting) \in Nat /\ Cardinality(Granted) \in Nat
         /\ Cardinality(Granted) <= Cardinality(Waiting)
         /\ Cardinality(Waiting) = 0 => Waiting = {} /\ Granted = {}
  <1>1. IsFiniteSet(Waiting)
    BY FS_Subset DEF LkSyncAssumption, Waiting
  <1>2. Granted \in SUBSET Waiting
    BY DEF Granted, Waiting
  <1>3. IsFiniteSet(Granted) /\ Cardinality(Granted) <= Cardinality(Waiting)
    BY <1>1, <1>2, FS_Subset
  <1>4. Cardinality(Waiting) = 0 => Waiting = {}
    BY <1>1, FS_EmptySet
  <1>5. Cardinality(Waiting) \in Nat /\ Cardinality(Granted) \in Nat
    BY <1>1, <1>3, FS_CardinalityType
  <1> QED BY <1>1, <1>2, <1>3, <1>4, <1>5

\* A step that leaves the object alone, and grants nothing.
LEMMA QuietObject ==
  ASSUME ObjectInv, UNCHANGED <<mode, obj, tokens>>,
         Waiting' = Waiting, Granted' = Granted,
         \A u \in Threads : thr'[u].ret = thr[u].ret \/ thr'[u].ret # "destroyed"
  PROVE  ObjectInv'
  <1> USE DEF ObjectInv, mode
  <1>1. LiveWaits'
    <2>1. \A u \in Threads : thr'[u].in => thr[u].in
      BY DEF Waiting
    <2> QED BY <2>1 DEF LiveWaits
  <1>2. MutexCount' /\ SemCount' /\ AutoCount'
    BY DEF MutexCount, SemCount, AutoCount
  <1> QED BY <1>1, <1>2 DEF ObjTypes, HolderIsMutex

\* mutex_acquire_timeout: the caller is counted, as a waiter or as the holder.
LEMMA AcquireStep ==
  ASSUME LkSyncAssumption, IInv, NEW c \in cpus, NEW t \in Threads,
         mutex_acquire_timeout(c, t)
  PROVE  IInv'
  <1> USE DEF IInv, ObjectInv, mode
  <1>1. /\ Runs(c, t) /\ kind = "mutex" /\ obj.live /\ obj.holder # t /\ UNCHANGED mode
        /\ cpus \in CpuSets
    BY DEF mutex_acquire_timeout, ObjTypes
  <1>2. /\ obj.count = Cardinality(Waiting) + (IF obj.holder # NoThread THEN 1 ELSE 0)
        /\ \A u, w \in Granted : u = w
        /\ Granted # {} => obj.holder = NoThread
    BY <1>1 DEF MutexCount
  <1>3. t \notin Waiting /\ t # NoThread
    BY <1>1 DEF Runs, SchedInv, Placed, Waiting, LkSyncAssumption
  <1>4. CASE obj.count + 1 > 1
    <2>1. PICK inf \in BOOLEAN : wait_queue_block(c, t, inf)
      BY <1>4 DEF mutex_acquire_timeout, Blocks, Timeouts
    <2>2. obj' = [obj EXCEPT !.count = @ + 1] /\ tokens' = tokens
      BY <1>4 DEF mutex_acquire_timeout, Blocks
    <2>3. /\ SchedInv' /\ Waiting' = Waiting \cup {t} /\ Granted' = Granted
          /\ thr'[t].ret = "ok" /\ \A u \in Threads : u # t => thr'[u] = thr[u]
      BY <1>1, <2>1, BlockStep
    <2>4. /\ ObjTypes' /\ obj'.count = obj.count + 1 /\ obj'.holder = obj.holder
          /\ obj'.live = obj.live /\ obj'.signaled = obj.signaled
      <3>1. obj \in Object
        BY DEF ObjTypes
      <3>2. /\ obj' \in Object /\ obj'.count = obj.count + 1 /\ obj'.holder = obj.holder
            /\ obj'.live = obj.live /\ obj'.signaled = obj.signaled
        BY ONLY <3>1, <2>2 DEF Object
      <3> QED BY <1>1, <2>2, <3>2 DEF ObjTypes
    <2>5. Cardinality(Waiting') = Cardinality(Waiting) + 1
      BY <1>3, <2>3, Counted, FS_AddElement
    <2>6. LiveWaits'
      BY <1>1, <2>3, <2>4 DEF LiveWaits
    <2>7. MutexCount'
      BY <1>1, <1>2, <2>3, <2>4, <2>5, Counted DEF MutexCount
    <2>8. SemCount' /\ AutoCount' /\ HolderIsMutex'
      BY <1>1 DEF SemCount, AutoCount, HolderIsMutex
    <2> QED BY <2>3, <2>4, <2>6, <2>7, <2>8
  <1>5. CASE ~(obj.count + 1 > 1)
    <2>0. NoSwitch /\ tokens' = tokens - 0
      BY <1>5 DEF mutex_acquire_timeout, Passes
    <2>1. obj' = [obj EXCEPT !.count = @ + 1, !.holder = t]
      BY <1>5 DEF mutex_acquire_timeout
    <2>2. /\ ObjTypes' /\ obj'.count = obj.count + 1 /\ obj'.holder = t
          /\ obj'.live = obj.live /\ obj'.signaled = obj.signaled
      <3>1. obj \in Object
        BY DEF ObjTypes
      <3>2. t \in Threads
        OBVIOUS
      <3>3. /\ obj' \in Object /\ obj'.count = obj.count + 1 /\ obj'.holder = t
            /\ obj'.live = obj.live /\ obj'.signaled = obj.signaled
        <4>1. obj' = [count |-> obj.count + 1, holder |-> t,
                      signaled |-> obj.signaled, live |-> obj.live]
          BY ONLY <3>1, <2>1 DEF Object
        <4> QED BY ONLY <3>1, <3>2, <4>1 DEF Object
      <3>4. tokens' \in Int
        BY <2>0 DEF ObjTypes
      <3> QED BY <1>1, <3>3, <3>4 DEF ObjTypes
    <2>3. Cardinality(Waiting) = 0 /\ obj.holder = NoThread /\ obj.count = 0
      BY <1>2, <1>5, Counted
    <2>4. SchedInv' /\ Waiting' = Waiting /\ Granted' = Granted
      BY <1>1, <2>0, QuietSched
    <2>5. Waiting = {} /\ Granted = {}
      BY <2>3, Counted
    <2>6. LiveWaits'
      BY <2>4, <2>5 DEF LiveWaits, Waiting
    <2>7. MutexCount'
      BY <1>1, <1>3, <2>2, <2>3, <2>4, <2>5 DEF MutexCount
    <2>8. SemCount' /\ AutoCount' /\ HolderIsMutex'
      BY <1>1 DEF SemCount, AutoCount, HolderIsMutex
    <2> QED BY <2>2, <2>4, <2>6, <2>7, <2>8
  <1> QED BY <1>4, <1>5

\* The head of the wait queue adds one to those granted something, if there is one.
LEMMA FirstCount ==
  ASSUME LkSyncAssumption, \A u \in First : u \notin Granted
  PROVE  /\ \A u, w \in First : u = w
         /\ Cardinality(Granted \cup First) =
              Cardinality(Granted) + (IF First = {} THEN 0 ELSE 1)
  <1>1. First = {} \/ \E u : First = {u}
    BY DEF First
  <1>2. CASE First = {}
    <2>1. Granted \cup First = Granted
      BY <1>2
    <2> QED BY <1>2, <2>1, Counted
  <1>3. ASSUME NEW u, First = {u}
        PROVE  /\ \A x, w \in First : x = w
               /\ Cardinality(Granted \cup First) =
                    Cardinality(Granted) + (IF First = {} THEN 0 ELSE 1)
    <2>1. u \notin Granted /\ First # {}
      BY <1>3
    <2>2. Cardinality(Granted \cup {u}) = Cardinality(Granted) + 1
      BY <2>1, Counted, FS_AddElement
    <2> QED BY <1>3, <2>1, <2>2
  <1> QED BY <1>1, <1>2, <1>3

\* mutex_release: nobody was granted the mutex while it was held, and the first
\* waiter is granted it now, or nobody.
LEMMA ReleaseStep ==
  ASSUME LkSyncAssumption, IInv, NEW c \in cpus, NEW t \in Threads,
         mutex_release(c, t)
  PROVE  IInv'
  <1> USE DEF IInv, ObjectInv, mode
  <1>1. /\ kind = "mutex" /\ obj.live /\ obj.holder = t /\ UNCHANGED <<mode, tokens>>
        /\ cpus \in CpuSets /\ t # NoThread
    BY DEF mutex_release, ObjTypes, LkSyncAssumption
  <1>2. obj.count = Cardinality(Waiting) + 1 /\ Granted = {}
    BY <1>1 DEF MutexCount
  <1>3. obj' = [obj EXCEPT !.holder = NoThread, !.count = @ - 1]
    BY DEF mutex_release
  <1>4. obj \in Object
    BY DEF ObjTypes
  <1>5. obj' = [count |-> obj.count - 1, holder |-> NoThread,
                signaled |-> obj.signaled, live |-> obj.live]
    BY ONLY <1>3, <1>4 DEF Object
  <1>6. /\ obj' \in Object /\ obj'.count = obj.count - 1 /\ obj'.holder = NoThread
        /\ obj'.live = obj.live
    BY ONLY <1>4, <1>5 DEF Object
  <1>7. ObjTypes'
    BY <1>1, <1>6 DEF ObjTypes
  <1>8. CASE WakeIfAny(obj.count - 1)
    <2>1. Wakes(wait_queue_wake_one(c, "ok", TRUE))
      BY <1>8 DEF mutex_release
    <2>2. /\ SchedInv' /\ Waiting' = Waiting /\ Granted' = Granted \cup First
          /\ \A u \in First : u \in Threads /\ u \notin Granted
          /\ \A u \in Threads : thr'[u].ret = thr[u].ret \/ thr'[u].ret = "ok"
      BY <1>1, <2>1, WakeOneStep
    <2>3. \A u, w \in Granted' : u = w
      BY <1>2, <2>2, FirstCount
    <2>4. LiveWaits'
      <3>1. \A u \in Threads : thr'[u].in => thr[u].in /\ u # NoThread
        BY <2>2 DEF Waiting, LkSyncAssumption
      <3> QED BY <1>1, <1>6, <2>2, <3>1 DEF LiveWaits
    <2>5. MutexCount'
      BY <1>1, <1>2, <1>6, <2>2, <2>3, Counted DEF MutexCount
    <2> QED BY <1>1, <1>7, <2>2, <2>4, <2>5 DEF SemCount, AutoCount, HolderIsMutex
  <1>9. CASE ~WakeIfAny(obj.count - 1)
    <2>1. NoSwitch
      BY <1>9 DEF mutex_release
    <2>2. SchedInv' /\ Waiting' = Waiting /\ Granted' = Granted
      BY <1>1, <2>1, QuietSched
    <2>3. LiveWaits'
      <3>1. thr' = thr /\ \A u \in Threads : u # NoThread
        BY <2>1 DEF NoSwitch, LkSyncAssumption
      <3> QED BY <1>1, <1>6, <3>1 DEF LiveWaits
    <2>4. MutexCount'
      BY <1>1, <1>2, <1>6, <2>2, Counted DEF MutexCount
    <2> QED BY <1>1, <1>7, <2>2, <2>3, <2>4 DEF SemCount, AutoCount, HolderIsMutex
  <1> QED BY <1>8, <1>9

\* sem_post: one more post, and at most one more thread is granted one.
LEMMA PostStep ==
  ASSUME LkSyncAssumption, IInv, NEW c \in cpus, NEW t \in Threads, sem_post(c, t)
  PROVE  IInv'
  <1> USE DEF IInv, ObjectInv, mode
  <1>1. /\ kind = "sem" /\ obj.live /\ UNCHANGED mode /\ cpus \in CpuSets
        /\ tokens' = tokens + 1 /\ tokens \in Int
    BY DEF sem_post, ObjTypes
  <1>2. obj.count = tokens - Cardinality(Waiting) /\ Cardinality(Granted) <= tokens
    BY <1>1 DEF SemCount
  <1>3. obj' = [obj EXCEPT !.count = @ + 1]
    BY DEF sem_post
  <1>4. obj \in Object
    BY DEF ObjTypes
  <1>5. /\ obj' \in Object /\ obj'.count = obj.count + 1 /\ obj'.holder = obj.holder
        /\ obj'.live = obj.live
    BY ONLY <1>3, <1>4 DEF Object
  <1>6. ObjTypes'
    BY <1>1, <1>5 DEF ObjTypes
  <1>7. CASE obj.count + 1 <= 0
    <2>1. PICK reschedule \in BOOLEAN : Wakes(wait_queue_wake_one(c, "ok", reschedule))
      BY <1>7 DEF sem_post
    <2>2. /\ SchedInv' /\ Waiting' = Waiting /\ Granted' = Granted \cup First
          /\ \A u \in First : u \in Threads /\ u \notin Granted
          /\ \A u \in Threads : thr'[u].ret = thr[u].ret \/ thr'[u].ret = "ok"
      BY <1>1, <2>1, WakeOneStep
    <2>3. Cardinality(Granted') <= Cardinality(Granted) + 1
      BY <2>2, FirstCount, Counted
    <2>4. LiveWaits'
      <3>1. \A u \in Threads : thr'[u].in => thr[u].in
        BY <2>2 DEF Waiting
      <3> QED BY <1>1, <1>5, <2>2, <3>1 DEF LiveWaits
    <2>5. SemCount'
      <3>1. Cardinality(Granted') \in Int
        BY <2>2, FirstCount, Counted
      <3> QED BY <1>1, <1>2, <1>5, <2>2, <2>3, <3>1, Counted DEF SemCount
    <2> QED BY <1>1, <1>5, <1>6, <2>2, <2>4, <2>5 DEF MutexCount, AutoCount, HolderIsMutex
  <1>8. CASE ~(obj.count + 1 <= 0)
    <2>1. NoSwitch
      BY <1>8 DEF sem_post
    <2>2. SchedInv' /\ Waiting' = Waiting /\ Granted' = Granted
      BY <1>1, <2>1, QuietSched
    <2>3. LiveWaits'
      BY <1>5, <2>1 DEF LiveWaits, NoSwitch
    <2>4. SemCount'
      BY <1>1, <1>2, <1>5, <2>2, Counted DEF SemCount
    <2> QED BY <1>1, <1>5, <1>6, <2>2, <2>3, <2>4 DEF MutexCount, AutoCount, HolderIsMutex
  <1> QED BY <1>7, <1>8

\* sem_wait and sem_trywait: a post is taken that no woken thread needs, or the
\* caller is counted as a waiter.
LEMMA SemWaitStep ==
  ASSUME LkSyncAssumption, IInv, NEW c \in cpus, NEW t \in Threads,
         sem_wait(c, t) \/ sem_trywait(c, t)
  PROVE  IInv'
  <1> USE DEF IInv, ObjectInv, mode
  <1>1. /\ kind = "sem" /\ obj.live /\ UNCHANGED mode /\ cpus \in CpuSets
        /\ tokens \in Int /\ Runs(c, t)
    BY DEF sem_wait, sem_trywait, ObjTypes
  <1>2. obj.count = tokens - Cardinality(Waiting) /\ Cardinality(Granted) <= tokens
    BY <1>1 DEF SemCount
  <1>3. obj' = [obj EXCEPT !.count = @ - 1]
    BY DEF sem_wait, sem_trywait
  <1>4. obj \in Object
    BY DEF ObjTypes
  <1>5. /\ obj' \in Object /\ obj'.count = obj.count - 1 /\ obj'.holder = obj.holder
        /\ obj'.live = obj.live /\ obj.count \in Int
    BY ONLY <1>3, <1>4 DEF Object
  <1>6. t \notin Waiting /\ t # NoThread
    BY <1>1 DEF Runs, SchedInv, Placed, Waiting, LkSyncAssumption
  <1>7. CASE obj.count - 1 < 0
    <2>1. sem_wait(c, t)
      BY <1>5, <1>7 DEF sem_trywait
    <2>2. PICK inf \in BOOLEAN : wait_queue_block(c, t, inf)
      BY <1>7, <2>1 DEF sem_wait, Blocks, Timeouts
    <2>3. tokens' = tokens
      BY <1>7, <2>1 DEF sem_wait, Blocks
    <2>4. /\ SchedInv' /\ Waiting' = Waiting \cup {t} /\ Granted' = Granted
          /\ thr'[t].ret = "ok" /\ \A u \in Threads : u # t => thr'[u] = thr[u]
      BY <1>1, <2>2, BlockStep
    <2>5. Cardinality(Waiting') = Cardinality(Waiting) + 1
      BY <1>6, <2>4, Counted, FS_AddElement
    <2>6. LiveWaits'
      <3>1. obj.holder # t
        BY <1>1, <1>6 DEF HolderIsMutex
      <3> QED BY <1>1, <1>5, <2>4, <3>1 DEF LiveWaits
    <2>7. SemCount'
      BY <1>1, <1>2, <1>5, <2>3, <2>4, <2>5, Counted DEF SemCount
    <2> QED BY <1>1, <1>5, <2>3, <2>4, <2>6, <2>7 DEF MutexCount, AutoCount, ObjTypes, HolderIsMutex
  <1>8. CASE ~(obj.count - 1 < 0)
    <2>1. NoSwitch /\ tokens' = tokens - 1
      BY <1>8 DEF sem_wait, sem_trywait, Passes
    <2>2. SchedInv' /\ Waiting' = Waiting /\ Granted' = Granted
      BY <1>1, <2>1, QuietSched
    <2>3. LiveWaits'
      BY <1>5, <2>1 DEF LiveWaits, NoSwitch
    <2>4. SemCount'
      BY <1>1, <1>2, <1>5, <1>8, <2>1, <2>2, Counted DEF SemCount
    <2>5. tokens' \in Int
      BY <1>1, <2>1
    <2> QED BY <1>1, <1>5, <2>2, <2>3, <2>4, <2>5 DEF MutexCount, AutoCount, ObjTypes, HolderIsMutex
  <1> QED BY <1>7, <1>8

\* event_wait_timeout and event_unsignal: a signal is taken, or the caller waits.
LEMMA EventWaitStep ==
  ASSUME LkSyncAssumption, IInv, NEW c \in cpus, NEW t \in Threads,
         event_wait_timeout(c, t) \/ event_unsignal(c, t)
  PROVE  IInv'
  <1> USE DEF IInv, ObjectInv, mode
  <1>1. /\ kind \in {"event", "auto"} /\ UNCHANGED mode /\ cpus \in CpuSets
        /\ tokens \in Int /\ Runs(c, t)
    BY DEF event_wait_timeout, event_unsignal, ObjTypes
  <1>2. obj \in Object
    BY DEF ObjTypes
  <1>3. CASE obj.signaled
    <2>1. NoSwitch /\ tokens' = tokens - (IF kind = "auto" THEN 1 ELSE 0)
      BY <1>3 DEF event_wait_timeout, event_unsignal, Passes
    <2>2. PICK s \in BOOLEAN : obj' = [obj EXCEPT !.signaled = s]
                               /\ (kind = "auto" => ~s)
      BY <1>1, <1>3 DEF event_wait_timeout, event_unsignal
    <2>3. /\ obj' \in Object /\ obj'.count = obj.count /\ obj'.holder = obj.holder
          /\ obj'.live = obj.live /\ obj'.signaled = s
      BY ONLY <1>2, <2>2, s \in BOOLEAN DEF Object
    <2>4. SchedInv' /\ Waiting' = Waiting /\ Granted' = Granted
      BY <1>1, <2>1, QuietSched
    <2>5. LiveWaits'
      BY <2>1, <2>3 DEF LiveWaits, NoSwitch
    <2>6. AutoCount'
      BY <1>1, <1>3, <2>1, <2>2, <2>3, <2>4, Counted DEF AutoCount
    <2>7. tokens' \in Int
      BY <1>1, <2>1
    <2> QED BY <1>1, <2>3, <2>4, <2>5, <2>6, <2>7 DEF MutexCount, SemCount, ObjTypes, HolderIsMutex
  <1>4. CASE ~obj.signaled
    <2>1. PICK inf \in BOOLEAN : wait_queue_block(c, t, inf)
      BY <1>4 DEF event_wait_timeout, event_unsignal, Blocks, Timeouts
    <2>2. UNCHANGED <<obj, tokens>>
      BY <1>4 DEF event_wait_timeout, event_unsignal, Blocks
    <2>3. /\ SchedInv' /\ Waiting' = Waiting \cup {t} /\ Granted' = Granted
          /\ thr'[t].ret = "ok" /\ \A u \in Threads : u # t => thr'[u] = thr[u]
      BY <1>1, <2>1, BlockStep
    <2>4. obj.holder # t
      BY <1>1 DEF HolderIsMutex, LkSyncAssumption
    <2>5. LiveWaits'
      BY <2>2, <2>3, <2>4 DEF LiveWaits
    <2>6. AutoCount'
      BY <1>1, <2>2, <2>3 DEF AutoCount
    <2> QED BY <1>1, <2>2, <2>3, <2>5, <2>6 DEF MutexCount, SemCount, ObjTypes, HolderIsMutex
  <1> QED BY <1>3, <1>4

\* event_signal: a signal of an auto event goes to the first waiter or stays.
LEMMA SignalStep ==
  ASSUME LkSyncAssumption, IInv, NEW c \in cpus, NEW t \in Threads,
         event_signal(c, t)
  PROVE  IInv'
  <1> USE DEF IInv, ObjectInv, mode
  <1>1. /\ kind \in {"event", "auto"} /\ obj.live /\ ~obj.signaled /\ UNCHANGED mode
        /\ cpus \in CpuSets /\ tokens \in Int
        /\ tokens' = IF kind = "auto" THEN tokens + 1 ELSE tokens
    BY DEF event_signal, ObjTypes
  <1>2. obj \in Object
    BY DEF ObjTypes
  <1>3. PICK s \in BOOLEAN : /\ obj' = [obj EXCEPT !.signaled = s]
                             /\ s <=> (kind = "event" \/ First = {})
    BY DEF event_signal, StaysSignaled
  <1>4. /\ obj' \in Object /\ obj'.count = obj.count /\ obj'.holder = obj.holder
        /\ obj'.live = obj.live /\ obj'.signaled = s
    BY ONLY <1>2, <1>3, s \in BOOLEAN DEF Object
  <1>5. tokens' \in Int
    BY <1>1
  <1>6. PICK reschedule \in BOOLEAN :
          Wakes(IF kind = "auto" THEN wait_queue_wake_one(c, "ok", reschedule)
                ELSE wait_queue_wake_all(c, "ok", reschedule))
    BY DEF event_signal
  <1>7. CASE kind = "auto"
    <2>1. Wakes(wait_queue_wake_one(c, "ok", reschedule))
      BY <1>6, <1>7 DEF Wakes
    <2>2. /\ SchedInv' /\ Waiting' = Waiting /\ Granted' = Granted \cup First
          /\ \A u \in First : u \in Threads /\ u \notin Granted
          /\ \A u \in Threads : thr'[u].ret = thr[u].ret \/ thr'[u].ret = "ok"
      BY <1>1, <2>1, WakeOneStep
    <2>3. Cardinality(Granted') = Cardinality(Granted) + (IF First = {} THEN 0 ELSE 1)
      BY <2>2, FirstCount
    <2>4. LiveWaits'
      <3>1. \A u \in Threads : thr'[u].in => thr[u].in
        BY <2>2 DEF Waiting
      <3> QED BY <1>1, <1>4, <2>2, <3>1 DEF LiveWaits
    <2>5. tokens = Cardinality(Granted)
      BY <1>1, <1>7, Counted DEF AutoCount
    <2>6. AutoCount'
      <3>1. CASE First = {}
        BY <3>1, <1>1, <1>3, <1>4, <1>7, <2>3, <2>5, Counted DEF AutoCount
      <3>2. CASE First # {}
        BY <3>2, <1>1, <1>3, <1>4, <1>7, <2>3, <2>5, Counted DEF AutoCount
      <3> QED BY <3>1, <3>2
    <2> QED BY <1>1, <1>4, <1>5, <1>7, <2>2, <2>4, <2>6
            DEF MutexCount, SemCount, ObjTypes, HolderIsMutex
  <1>8. CASE kind = "event"
    <2>1. Wakes(wait_queue_wake_all(c, "ok", reschedule))
      BY <1>6, <1>8 DEF Wakes
    <2>2. /\ SchedInv' /\ Waiting' = Waiting
          /\ \A u \in Threads : thr'[u].ret = thr[u].ret \/ thr'[u].ret = "ok"
      BY <1>1, <2>1, WakeAllStep
    <2>3. LiveWaits'
      <3>1. \A u \in Threads : thr'[u].in => thr[u].in
        BY <2>2 DEF Waiting
      <3> QED BY <1>1, <1>4, <2>2, <3>1 DEF LiveWaits
    <2> QED BY <1>1, <1>4, <1>5, <1>8, <2>2, <2>3
            DEF MutexCount, SemCount, AutoCount, ObjTypes, HolderIsMutex
  <1> QED BY <1>1, <1>7, <1>8

\* mutex_destroy, sem_destroy, event_destroy: nothing is counted any more.
LEMMA DestroyStep ==
  ASSUME LkSyncAssumption, IInv, NEW c \in cpus, NEW t \in Threads, Destroy(c, t)
  PROVE  IInv'
  <1> USE DEF IInv, ObjectInv, mode
  <1>1. /\ UNCHANGED <<mode, tokens>> /\ cpus \in CpuSets /\ tokens \in Int
        /\ Wakes(wait_queue_wake_all(c, "destroyed", TRUE))
    BY DEF Destroy, ObjTypes
  <1>2. obj \in Object
    BY DEF ObjTypes
  <1>3. obj' = [obj EXCEPT !.live = FALSE, !.count = 0, !.signaled = FALSE]
    BY DEF Destroy
  <1>4. obj' = [count |-> 0, holder |-> obj.holder, signaled |-> FALSE, live |-> FALSE]
    BY ONLY <1>2, <1>3 DEF Object
  <1>5. obj' \in Object /\ ~obj'.live /\ obj'.holder = obj.holder
    BY ONLY <1>2, <1>4 DEF Object
  <1>6. SchedInv'
    BY <1>1, WakeAllStep
  <1> QED BY <1>1, <1>5, <1>6
          DEF LiveWaits, MutexCount, SemCount, AutoCount, ObjTypes, HolderIsMutex

\* The end of a wait: what was granted is taken, and a timeout is backed out.
LEMMA ReturnStep ==
  ASSUME LkSyncAssumption, IInv, NEW c \in cpus, NEW t \in Threads, Dispatch(c, t)
  PROVE  IInv'
  <1> USE DEF IInv, ObjectInv, mode
  <1>1. /\ SchedInv' /\ UNCHANGED mode
        /\ Waiting' = Waiting \ {t} /\ Granted' = Granted \ {t}
        /\ ~thr'[t].in /\ \A u \in Threads : u # t => thr'[u] = thr[u]
    BY DispatchStep DEF ObjTypes
  <1>2. obj \in Object /\ tokens \in Int /\ thr[t].state = "READY" /\ t # NoThread
    BY DEF ObjTypes, Dispatch, LkSyncAssumption
  <1>3. CASE ~thr[t].in
    <2>1. UNCHANGED <<obj, tokens>>
      BY <1>3 DEF Dispatch
    <2>2. Waiting' = Waiting /\ Granted' = Granted
      BY <1>1, <1>3 DEF Waiting, Granted
    <2>3. LiveWaits'
      BY <1>1, <2>1 DEF LiveWaits
    <2> QED BY <1>1, <2>1, <2>2, <2>3
            DEF MutexCount, SemCount, AutoCount, ObjTypes, HolderIsMutex
  <1>4. CASE thr[t].in
    <2>1. /\ t \in Waiting /\ Cardinality(Waiting') = Cardinality(Waiting) - 1
          /\ Cardinality(Waiting) \in Nat /\ Cardinality(Granted) \in Nat
          /\ Cardinality(Granted') =
               IF t \in Granted THEN Cardinality(Granted) - 1 ELSE Cardinality(Granted)
      <3>1. t \in Waiting
        BY <1>4 DEF Waiting
      <3>2. IsFiniteSet(Waiting) /\ IsFiniteSet(Granted)
        BY Counted
      <3>3. /\ Cardinality(Waiting) \in Nat /\ Cardinality(Granted) \in Nat
            /\ Cardinality(Waiting \ {t}) = Cardinality(Waiting) - 1
            /\ t \in Granted => Cardinality(Granted \ {t}) = Cardinality(Granted) - 1
        BY ONLY <3>1, <3>2, FS_RemoveElement, FS_CardinalityType
      <3>4. t \notin Granted => Granted \ {t} = Granted
        OBVIOUS
      <3>5. Waiting' = Waiting \ {t} /\ Granted' = Granted \ {t}
        BY <1>1, <1>4
      <3> QED BY ONLY <3>1, <3>3, <3>4, <3>5
    <2>2. Returned(t)
      BY <1>4 DEF Dispatch
    <2>3. thr[t].ret \in {"ok", "timed_out", "destroyed"}
      BY DEF SchedInv, SchedTypes, Thread
    <2>4. tokens' = (IF thr[t].ret = "ok" /\ kind \in {"sem", "auto"} THEN tokens - 1
                     ELSE tokens)
      BY <2>2 DEF Returned
    <2>5. tokens' \in Int
      BY <1>2, <2>4
    <2>6. CASE kind = "mutex" /\ thr[t].ret = "ok"
      <3>1. obj' = [obj EXCEPT !.holder = t]
        BY <2>2, <2>6 DEF Returned
      <3>2. t \in Threads
        OBVIOUS
      <3>3. /\ obj' \in Object /\ obj'.count = obj.count /\ obj'.holder = t
            /\ obj'.live = obj.live
        BY ONLY <1>2, <3>1, <3>2 DEF Object
      <3>4. t \in Granted
        BY <1>2, <1>4, <2>6 DEF Granted
      <3>5. MutexCount'
        BY <1>1, <1>2, <2>1, <2>6, <3>3, <3>4 DEF MutexCount
      <3>6. LiveWaits'
        BY <1>1, <3>3 DEF LiveWaits
      <3> QED BY <1>1, <2>5, <2>6, <3>3, <3>5, <3>6
              DEF SemCount, AutoCount, ObjTypes, HolderIsMutex
    <2>7. CASE kind = "mutex" /\ thr[t].ret = "timed_out"
      <3>1. obj' = [obj EXCEPT !.count = @ - 1]
        BY <2>2, <2>7 DEF Returned
      <3>2. /\ obj' \in Object /\ obj'.count = obj.count - 1 /\ obj'.holder = obj.holder
            /\ obj'.live = obj.live
        BY ONLY <1>2, <3>1 DEF Object
      <3>3. MutexCount'
        BY <1>1, <1>2, <2>1, <2>7, <3>2 DEF MutexCount
      <3>4. LiveWaits'
        BY <1>1, <3>2 DEF LiveWaits
      <3> QED BY <1>1, <2>5, <2>7, <3>2, <3>3, <3>4
              DEF SemCount, AutoCount, ObjTypes, HolderIsMutex
    <2>8. CASE kind = "sem" /\ thr[t].ret = "timed_out"
      <3>1. obj' = [obj EXCEPT !.count = @ + 1]
        BY <2>2, <2>8 DEF Returned
      <3>2. /\ obj' \in Object /\ obj'.count = obj.count + 1 /\ obj'.holder = obj.holder
            /\ obj'.live = obj.live
        BY ONLY <1>2, <3>1 DEF Object
      <3>3. t \notin Granted
        BY <2>8 DEF Granted
      <3>4. SemCount'
        BY <1>1, <1>2, <2>1, <2>4, <2>8, <3>2, <3>3 DEF SemCount
      <3>5. LiveWaits'
        BY <1>1, <3>2 DEF LiveWaits
      <3> QED BY <1>1, <2>5, <2>8, <3>2, <3>4, <3>5
              DEF MutexCount, AutoCount, ObjTypes, HolderIsMutex
    <2>9. CASE /\ ~(kind = "mutex" /\ thr[t].ret \in {"ok", "timed_out"})
               /\ ~(kind = "sem" /\ thr[t].ret = "timed_out")
      <3>1. obj' = obj
        BY <2>2, <2>9 DEF Returned
      <3>2. t \in Granted <=> thr[t].ret = "ok"
        BY <1>2, <1>4 DEF Granted
      <3>3. obj.live => thr[t].ret # "destroyed"
        BY <1>4 DEF LiveWaits
      <3>4. LiveWaits'
        BY <1>1, <3>1 DEF LiveWaits
      <3>5. MutexCount'
        BY <1>1, <2>3, <2>9, <3>1, <3>3 DEF MutexCount
      <3>6. SemCount'
        BY <1>1, <1>2, <2>1, <2>3, <2>4, <2>9, <3>1, <3>2, <3>3 DEF SemCount
      <3>7. AutoCount'
        BY <1>1, <1>2, <2>1, <2>3, <2>4, <2>9, <3>1, <3>2, <3>3 DEF AutoCount
      <3> QED BY <1>1, <2>5, <3>1, <3>4, <3>5, <3>6, <3>7 DEF ObjTypes, HolderIsMutex
    <2> QED BY <2>3, <2>6, <2>7, <2>8, <2>9
  <1> QED BY <1>3, <1>4

-----------------------------------------------------------------------------
(* The theorems.                                                           *)

LEMMA InitInv ==
  ASSUME LkSyncAssumption, Init
  PROVE  IInv
  <1> USE DEF Init
  <1>1. /\ \A t \in Threads : thr[t] = [state |-> "READY", in |-> FALSE, inf |-> TRUE,
                                        ret |-> "ok"]
        /\ Len(wait) = 0 /\ \A c \in cpus : cur[c] = NoThread /\ tick[c] = NoTick
        /\ \A t \in Threads : timer[t] = NoTimer
    OBVIOUS
  <1>2. SchedTypes
    <2>1. thr \in [Threads -> Thread]
      BY DEF Thread
    <2>2. timer \in [Threads -> [cpu : cpus \cup {NoCpu}, callback : BOOLEAN]]
      BY DEF NoTimer
    <2>3. tick \in [cpus -> [t : Threads \cup {NoThread},
                             stage : {"none", "taken", "called"}]]
      BY DEF NoTick
    <2>4. wait \in Seq(Threads)
      BY EmptySeq
    <2>5. fault \in BOOLEAN /\ cur \in [cpus -> Threads \cup {NoThread}]
      OBVIOUS
    <2> QED BY <2>1, <2>2, <2>3, <2>4, <2>5 DEF SchedTypes
  <1>3. TickThread /\ Placed /\ Listed /\ TimersOwned
    BY <1>1 DEF TickThread, Placed, Listed, TimersOwned, NoTimer
  <1>4. OneCpu
    BY <1>1 DEF OneCpu, InfiniteWaits, NoTimer
  <1>5. ObjTypes /\ LiveWaits /\ HolderIsMutex
    BY <1>1 DEF ObjTypes, LiveWaits, HolderIsMutex, Object
  <1>6. Waiting = {} /\ Granted = {}
    BY <1>1 DEF Waiting, Granted
  <1>7. Cardinality(Waiting) = 0 /\ Cardinality(Granted) = 0
    BY <1>6, FS_EmptySet
  <1>8. MutexCount /\ SemCount /\ AutoCount
    BY <1>6, <1>7 DEF MutexCount, SemCount, AutoCount
  <1> QED BY <1>2, <1>3, <1>4, <1>5, <1>8 DEF IInv, SchedInv, ObjectInv

\* Every step of a cpu, of a thread on it or of its timer interrupt.
LEMMA StepInv ==
  ASSUME LkSyncAssumption, IInv, [Next]_vars
  PROVE  IInv'
  <1>0. cpus \in CpuSets /\ SchedInv /\ ObjectInv
    BY DEF IInv, ObjectInv, ObjTypes
  <1>1. ASSUME NEW c \in cpus, TickDequeue(c) \/ TickCall(c)
        PROVE  IInv'
    <2>1. /\ SchedInv' /\ UNCHANGED <<mode, obj, thr, tokens>>
          /\ Waiting' = Waiting /\ Granted' = Granted
      BY <1>0, <1>1, TickStep
    <2>2. ObjectInv'
      BY <1>0, <2>1, QuietObject
    <2> QED BY <2>1, <2>2 DEF IInv
  <1>2. ASSUME NEW c \in cpus, wait_queue_timeout_handler(c)
        PROVE  IInv'
    <2>1. /\ SchedInv' /\ UNCHANGED <<mode, obj, tokens>>
          /\ Waiting' = Waiting /\ Granted' = Granted
          /\ \A u \in Threads : thr'[u].ret = thr[u].ret \/ thr'[u].ret = "timed_out"
      BY <1>0, <1>2, HandlerStep
    <2>2. ObjectInv'
      BY <1>0, <2>1, QuietObject
    <2> QED BY <2>1, <2>2 DEF IInv
  <1>3. ASSUME NEW c \in cpus, NEW t \in Threads, Preempt(c, t)
        PROVE  IInv'
    <2>1. /\ SchedInv' /\ UNCHANGED <<mode, obj, tokens>>
          /\ Waiting' = Waiting /\ Granted' = Granted
          /\ \A u \in Threads : thr'[u].ret = thr[u].ret
      BY <1>0, <1>3, PreemptStep
    <2>2. ObjectInv'
      BY <1>0, <2>1, QuietObject
    <2> QED BY <2>1, <2>2 DEF IInv
  <1>4. ASSUME NEW c \in cpus, NEW t \in Threads,
               \/ mutex_acquire_timeout(c, t) \/ mutex_release(c, t)
               \/ sem_post(c, t) \/ sem_wait(c, t) \/ sem_trywait(c, t)
               \/ event_wait_timeout(c, t) \/ event_signal(c, t) \/ event_unsignal(c, t)
               \/ Destroy(c, t) \/ Dispatch(c, t)
        PROVE  IInv'
    BY <1>4, AcquireStep, ReleaseStep, PostStep, SemWaitStep, EventWaitStep,
       SignalStep, DestroyStep, ReturnStep
  <1>5. CASE UNCHANGED vars
    <2>1. NoSwitch /\ UNCHANGED <<mode, obj, tokens>> /\ thr' = thr
      BY <1>5 DEF vars, NoSwitch, mode
    <2>2. SchedInv' /\ Waiting' = Waiting /\ Granted' = Granted
      BY <1>0, <2>1, QuietSched
    <2>3. ObjectInv'
      BY <1>0, <2>1, <2>2, QuietObject
    <2> QED BY <2>2, <2>3 DEF IInv
  <1> QED BY <1>1, <1>2, <1>3, <1>4, <1>5 DEF Next

THEOREM Invariance == Spec => []IInv
  <1>1. Init => IInv
    BY LkSyncAssumption, InitInv
  <1>2. IInv /\ [Next]_vars => IInv'
    BY LkSyncAssumption, StepInv
  <1> QED BY <1>1, <1>2, PTL DEF Spec

\* What mutex_release, sem_post and event_signal hand over is handed over once,
\* also where a timeout races them: GrantExact in every reachable state.
THEOREM GrantCorrect == Spec => []GrantExact
  <1>1. IInv => GrantExact
    <2> SUFFICES ASSUME IInv, obj.live PROVE GrantExact
      BY DEF GrantExact
    <2> USE DEF IInv, ObjectInv
    <2>1. kind \in {"mutex", "sem", "event", "auto"}
      BY LkSyncAssumption DEF LkSyncAssumption, ObjTypes, KindType
    <2>2. CASE kind = "mutex"
      <3> DEFINE S == Granted \cup ({obj.holder} \ {NoThread})
      <3>1. \A u, w \in S : u = w
        BY <2>2 DEF MutexCount
      <3>2. S = {} \/ \E u : S = {u}
        BY <3>1
      <3> HIDE DEF S
      <3>3. Cardinality(S) = 0 \/ Cardinality(S) = 1
        BY <3>2, FS_EmptySet, FS_Singleton, Zenon
      <3>4. Cardinality(S) <= 1
        BY <3>3
      <3> QED BY <2>2, <3>4 DEF GrantExact, S
    <2>3. CASE kind = "sem"
      BY <2>3 DEF GrantExact, SemCount
    <2>4. CASE kind = "auto"
      BY <2>4 DEF GrantExact, AutoCount
    <2>5. CASE kind = "event"
      BY <2>5 DEF GrantExact
    <2> QED BY <2>1, <2>2, <2>3, <2>4, <2>5
  <1> QED BY <1>1, Invariance, PTL

\* The wait queue has the blocked threads, each once, and no timer is queued
\* whose wait is over: QueuesExact in every reachable state.
THEOREM QueuesCorrect == Spec => []QueuesExact
  <1>1. IInv => QueuesExact
    <2> SUFFICES ASSUME IInv PROVE QueuesExact
      OBVIOUS
    <2>1. SchedTypes /\ Listed /\ TimersOwned
      BY DEF IInv, SchedInv
    <2>2. /\ Len(wait) \in Nat /\ wait \in [1 .. Len(wait) -> Threads]
          /\ ToSet(wait) = {wait[k] : k \in 1 .. Len(wait)}
      BY <2>1, LenProperties DEF SchedTypes, ToSet
    <2>3. ToSet(wait) = {t \in Threads : thr[t].state = "BLOCKED"}
      BY <2>1, <2>2 DEF Listed
    <2>4. wait \in Bijection(1 .. Len(wait), ToSet(wait))
      BY <2>1, <2>2 DEF Listed, Bijection, Injection, Surjection, IsInjective
    <2>5. Cardinality(ToSet(wait)) = Len(wait)
      BY <2>2, <2>4, FS_CountingElements DEF ExistsBijection
    <2> QED BY <2>1, <2>3, <2>5 DEF QueuesExact, TimersOwned
  <1> QED BY <1>1, Invariance, PTL

\* On one cpu no callback is called after timer_cancel, and a wait without a
\* timeout does not time out: OneCpuTimers in every reachable state.
THEOREM OneCpuCorrect == Spec => []OneCpuTimers
  <1>1. IInv => OneCpuTimers
    <2> SUFFICES ASSUME IInv, Cardinality(cpus) = 1 PROVE ~fault /\ InfiniteWaits
      BY DEF OneCpuTimers
    <2>1. OneCpu /\ IsFiniteSet(cpus)
      BY LkSyncAssumption DEF LkSyncAssumption, IInv, SchedInv, ObjectInv, ObjTypes
    <2>2. \A c, d \in cpus : c = d
      BY <2>1, FS_Singleton
    <2> QED BY <2>1, <2>2 DEF OneCpu
  <1> QED BY <1>1, Invariance, PTL
=============================================================================
