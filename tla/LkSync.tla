------------------------------- MODULE LkSync -------------------------------
(***************************************************************************)
(* Blocking in the kernel: the wait queues of kernel/thread.c with their   *)
(* timeouts, the timer queues of kernel/timer.c, and the mutex, semaphore  *)
(* and event built on them (kernel/mutex.c, semaphore.c, event.c).         *)
(*                                                                         *)
(* What a thread does under thread_lock is one step.  It ends where the    *)
(* thread blocks; the rest of the call is done when the thread is run      *)
(* again, which may be long after it was made ready.  The timer interrupt  *)
(* takes a timer off its queue under timer_lock and calls it without that  *)
(* lock, so other cpus act between the two.  A thread that is ready may be *)
(* run by any cpu, and preempted at any time: priorities are left open.    *)
(* One object is modelled, of a kind chosen at the start.                  *)
(***************************************************************************)
EXTENDS Integers, Sequences, FiniteSets, SequencesExt

CONSTANTS
  Threads,
  CpuSets,     \* sets of cpus to choose from
  Kinds,       \* a subset of KindType
  TimedSets,   \* sets of threads that wait with a timeout, to choose from
  MaxTokens    \* bound on what sem_post adds

KindType == {"mutex", "sem", "event", "auto"}   \* auto: EVENT_FLAG_AUTOUNSIGNAL

NoThread == "none"
NoCpu    == 0

ASSUME LkSyncAssumption ==
  /\ IsFiniteSet(Threads) /\ NoThread \notin Threads
  /\ \A C \in CpuSets : IsFiniteSet(C) /\ NoCpu \notin C
  /\ Kinds \subseteq KindType
  /\ MaxTokens \in Nat

NoTick   == [t |-> NoThread, stage |-> "none"]
NoTimer  == [cpu |-> NoCpu, callback |-> FALSE]

VARIABLES
  kind, cpus, timed,   \* chosen at the start
  obj,      \* the mutex, semaphore or event
  wait,     \* wait->list
  thr,      \* the threads
  cur,      \* the thread each cpu runs
  timer,    \* the timer in each thread's frame of wait_queue_block
  tick,     \* the timer interrupt of each cpu
  fault,    \* timer_tick called a null pointer
  tokens    \* history: signals and posts less the waits that took one

mode == <<kind, cpus, timed>>
vars == <<kind, cpus, timed, obj, wait, thr, cur, timer, tick, fault, tokens>>

Init ==
  /\ kind \in Kinds /\ cpus \in CpuSets /\ timed \in TimedSets
  /\ obj = [count |-> 0, holder |-> NoThread, signaled |-> FALSE, live |-> TRUE]
  /\ wait = <<>>
  /\ thr = [t \in Threads |-> [state |-> "READY", in |-> FALSE, inf |-> TRUE, ret |-> "ok"]]
  /\ cur = [c \in cpus |-> NoThread]
  /\ timer = [t \in Threads |-> NoTimer]
  /\ tick = [c \in cpus |-> NoTick]
  /\ fault = FALSE
  /\ tokens = 0

\* Thread t runs on cpu c, outside the interrupt handler
Runs(c, t) == cur[c] = t /\ tick[c] = NoTick /\ ~fault

-----------------------------------------------------------------------------
(* Wait queues                                                             *)

\* wait_queue_block up to the switch to another thread
wait_queue_block(c, t, inf) ==
  /\ wait' = Append(wait, t)
  /\ thr' = [thr EXCEPT ![t] = [state |-> "BLOCKED", in |-> TRUE, inf |-> inf, ret |-> "ok"]]
  /\ cur' = [cur EXCEPT ![c] = NoThread]
  /\ timer' = IF inf THEN timer
              ELSE [timer EXCEPT ![t] = [cpu |-> c, callback |-> TRUE]]
  /\ UNCHANGED <<tick, fault>>

\* The threads in ts are woken and rest stays on the wait queue.  Where somebody
\* was woken and the caller is to reschedule, cpu c gives up its thread, which
\* stays ready
Wake(c, ts, rest, ret, reschedule) ==
  LET yields == reschedule /\ ts # {} IN
  /\ wait' = rest
  /\ thr' = [u \in Threads |->
       IF u \in ts THEN [thr[u] EXCEPT !.state = "READY", !.ret = ret]
       ELSE IF yields /\ u = cur[c] THEN [thr[u] EXCEPT !.state = "READY"] ELSE thr[u]]
  /\ cur' = IF yields THEN [cur EXCEPT ![c] = NoThread] ELSE cur

First == IF wait = <<>> THEN {} ELSE {Head(wait)}
wait_queue_wake_one(c, ret, reschedule) ==
  Wake(c, First, IF wait = <<>> THEN wait ELSE Tail(wait), ret, reschedule)
wait_queue_wake_all(c, ret, reschedule) ==
  Wake(c, ToSet(wait), <<>>, ret, reschedule)

\* Mutant: a thread that some other thread woke leaves its timer queued
CancelIfFired(t) ==
  IF thr[t].ret = "timed_out" THEN [timer EXCEPT ![t] = NoTimer] ELSE timer

\* timer_cancel: off the queue, if it is still on one, and no callback
timer_cancel(t) == [timer EXCEPT ![t] = NoTimer]

-----------------------------------------------------------------------------
(* Timer interrupts                                                        *)

\* timer_tick takes an expired timer off the queue and releases timer_lock
TickDequeue(c) ==
  /\ tick[c] = NoTick /\ ~fault
  /\ \E t \in Threads :
       /\ timer[t].cpu = c
       /\ timer' = [timer EXCEPT ![t].cpu = NoCpu]
       /\ tick' = [tick EXCEPT ![c] = [t |-> t, stage |-> "taken"]]
  /\ UNCHANGED <<mode, obj, wait, thr, cur, fault, tokens>>

\* timer->callback is read and called
TickCall(c) ==
  /\ tick[c].stage = "taken" /\ ~fault
  /\ fault' = ~timer[tick[c].t].callback
  /\ tick' = [tick EXCEPT ![c].stage = "called"]
  /\ UNCHANGED <<mode, obj, wait, thr, cur, timer, tokens>>

\* wait_queue_timeout_handler, once it has thread_lock: a thread that is not
\* blocked is left alone
wait_queue_timeout_handler(c) ==
  /\ tick[c].stage = "called" /\ ~fault
  /\ LET t == tick[c].t IN
       IF thr[t].state = "BLOCKED"
       THEN \E k \in 1 .. Len(wait) :
              wait[k] = t /\ Wake(c, {t}, RemoveAt(wait, k), "timed_out", TRUE)
       ELSE UNCHANGED <<wait, thr, cur>>
  /\ tick' = [tick EXCEPT ![c] = NoTick]
  /\ UNCHANGED <<mode, obj, timer, fault, tokens>>

-----------------------------------------------------------------------------
(* Mutex, semaphore and event: a thread on its cpu                          *)

Timeouts(t) == IF t \in timed THEN BOOLEAN ELSE {TRUE}

\* The call does not block, or wakes nobody
NoSwitch == UNCHANGED <<wait, thr, cur, timer, tick, fault>>
Passes(token) == NoSwitch /\ tokens' = tokens - token
Blocks(c, t)  == /\ \E inf \in Timeouts(t) : wait_queue_block(c, t, inf)
                 /\ UNCHANGED tokens
Wakes(w)      == w /\ UNCHANGED <<timer, tick, fault>>

mutex_acquire_timeout(c, t) ==
  /\ Runs(c, t) /\ kind = "mutex" /\ obj.live /\ obj.holder # t
  /\ IF obj.count + 1 > 1
     THEN Blocks(c, t) /\ obj' = [obj EXCEPT !.count = @ + 1]
     ELSE Passes(0) /\ obj' = [obj EXCEPT !.count = @ + 1, !.holder = t]
  /\ UNCHANGED mode

\* Mutant: the last waiter is not counted as one
WakeIfMore(count) == count > 1

\* The count that is left says whether there may be a thread to wake
WakeIfAny(count) == count >= 1

mutex_release(c, t) ==
  /\ Runs(c, t) /\ kind = "mutex" /\ obj.live /\ obj.holder = t
  /\ obj' = [obj EXCEPT !.holder = NoThread, !.count = @ - 1]
  /\ IF WakeIfAny(obj.count - 1) THEN Wakes(wait_queue_wake_one(c, "ok", TRUE)) ELSE NoSwitch
  /\ UNCHANGED <<mode, tokens>>

sem_post(c, t) ==
  /\ Runs(c, t) /\ kind = "sem" /\ obj.live /\ tokens < MaxTokens
  /\ obj' = [obj EXCEPT !.count = @ + 1]
  /\ IF obj.count + 1 <= 0
     THEN \E reschedule \in BOOLEAN : Wakes(wait_queue_wake_one(c, "ok", reschedule))
     ELSE NoSwitch
  /\ tokens' = tokens + 1
  /\ UNCHANGED mode

\* sem_wait, and sem_timedwait up to where it blocks
sem_wait(c, t) ==
  /\ Runs(c, t) /\ kind = "sem" /\ obj.live
  /\ obj' = [obj EXCEPT !.count = @ - 1]
  /\ IF obj.count - 1 < 0 THEN Blocks(c, t) ELSE Passes(1)
  /\ UNCHANGED mode

sem_trywait(c, t) ==
  /\ Runs(c, t) /\ kind = "sem" /\ obj.live /\ obj.count > 0
  /\ obj' = [obj EXCEPT !.count = @ - 1]
  /\ Passes(1)
  /\ UNCHANGED mode

event_wait_timeout(c, t) ==
  /\ Runs(c, t) /\ kind \in {"event", "auto"} /\ obj.live
  /\ IF obj.signaled
     THEN /\ obj' = [obj EXCEPT !.signaled = (kind = "event")]
          /\ Passes(IF kind = "auto" THEN 1 ELSE 0)
     ELSE Blocks(c, t) /\ UNCHANGED obj
  /\ UNCHANGED mode

\* Mutant: the event stays signaled although a thread was woken
SignalAndWake == TRUE

\* An auto event is signaled when there was no thread to wake
StaysSignaled == kind = "event" \/ First = {}

event_signal(c, t) ==
  /\ Runs(c, t) /\ kind \in {"event", "auto"} /\ obj.live /\ ~obj.signaled
  /\ obj' = [obj EXCEPT !.signaled = StaysSignaled]
  /\ \E reschedule \in BOOLEAN :
       Wakes(IF kind = "auto" THEN wait_queue_wake_one(c, "ok", reschedule)
             ELSE wait_queue_wake_all(c, "ok", reschedule))
  /\ tokens' = IF kind = "auto" THEN tokens + 1 ELSE tokens
  /\ UNCHANGED mode

event_unsignal(c, t) ==
  /\ Runs(c, t) /\ kind \in {"event", "auto"} /\ obj.signaled
  /\ obj' = [obj EXCEPT !.signaled = FALSE]
  /\ Passes(IF kind = "auto" THEN 1 ELSE 0)
  /\ UNCHANGED mode

\* mutex_destroy, sem_destroy, event_destroy: the waiters return
\* ERR_OBJECT_DESTROYED and nobody calls for the object again
Destroy(c, t) ==
  /\ Runs(c, t) /\ obj.live
  /\ kind = "mutex" => obj.holder \in {NoThread, t}
  /\ obj' = [obj EXCEPT !.live = FALSE, !.count = 0, !.signaled = FALSE]
  /\ Wakes(wait_queue_wake_all(c, "destroyed", TRUE))
  /\ UNCHANGED <<mode, tokens>>

-----------------------------------------------------------------------------
(* The scheduler, as far as it matters here                                *)

\* The rest of a call that blocked, still under thread_lock: the timer is
\* cancelled, and a timeout is backed out of the count
Returned(t) ==
  LET ok == thr[t].ret = "ok"
      late == thr[t].ret = "timed_out"
  IN /\ timer' = IF thr[t].inf THEN timer ELSE timer_cancel(t)
     /\ obj' = CASE kind = "mutex" /\ ok   -> [obj EXCEPT !.holder = t]
                 [] kind = "mutex" /\ late -> [obj EXCEPT !.count = @ - 1]
                 [] kind = "sem" /\ late   -> [obj EXCEPT !.count = @ + 1]
                 [] OTHER                  -> obj
     /\ tokens' = IF ok /\ kind \in {"sem", "auto"} THEN tokens - 1 ELSE tokens

\* A cpu without a thread takes a ready one
Dispatch(c, t) ==
  /\ cur[c] = NoThread /\ tick[c] = NoTick /\ ~fault
  /\ thr[t].state = "READY"
  /\ cur' = [cur EXCEPT ![c] = t]
  /\ thr' = [thr EXCEPT ![t].state = "RUNNING", ![t].in = FALSE, ![t].inf = TRUE,
                        ![t].ret = "ok"]
  /\ IF thr[t].in THEN Returned(t) ELSE UNCHANGED <<timer, obj, tokens>>
  /\ UNCHANGED <<mode, wait, tick, fault>>

Preempt(c, t) ==
  /\ Runs(c, t)
  /\ cur' = [cur EXCEPT ![c] = NoThread]
  /\ thr' = [thr EXCEPT ![t].state = "READY"]
  /\ UNCHANGED <<mode, obj, wait, timer, tick, fault, tokens>>

Next ==
  \E c \in cpus :
    \/ TickDequeue(c) \/ TickCall(c) \/ wait_queue_timeout_handler(c)
    \/ \E t \in Threads :
         \/ mutex_acquire_timeout(c, t) \/ mutex_release(c, t)
         \/ sem_post(c, t) \/ sem_wait(c, t) \/ sem_trywait(c, t)
         \/ event_wait_timeout(c, t) \/ event_signal(c, t) \/ event_unsignal(c, t)
         \/ Destroy(c, t) \/ Dispatch(c, t) \/ Preempt(c, t)

\* The scheduler runs the threads of one priority in turn, each until its
\* quantum ends, and a thread that holds the mutex goes on to release it
Fairness ==
  \A t \in Threads :
    /\ SF_vars(\E c \in cpus : Dispatch(c, t))
    /\ WF_vars(\E c \in cpus : Preempt(c, t))
    /\ SF_vars(\E c \in cpus : mutex_release(c, t))

Spec     == Init /\ [][Next]_vars
FairSpec == Spec /\ Fairness

-----------------------------------------------------------------------------
(* Properties                                                              *)

\* Threads that were woken to take what they waited for and have not run yet
Granted == {t \in Threads : thr[t].in /\ thr[t].state = "READY" /\ thr[t].ret = "ok"}

\* What is handed over is handed over once, also when a timeout races it: a
\* mutex has one owner, counting the thread mutex_release has woken for it;
\* sem_post wakes no more threads than there are posts; and each event_signal
\* of an auto event is taken, on its way to a woken thread, or still there
GrantExact ==
  obj.live =>
    CASE kind = "mutex" -> Cardinality(Granted \cup ({obj.holder} \ {NoThread})) <= 1
      [] kind = "sem"   -> Cardinality(Granted) <= tokens
      [] kind = "auto"  -> tokens = Cardinality(Granted) + (IF obj.signaled THEN 1 ELSE 0)
      [] OTHER          -> TRUE

\* wait->list has the blocked threads, each once, and a timer in a queue belongs
\* to a frame of wait_queue_block that exists, which is what timer_cancel at the
\* end of wait_queue_block is for
QueuesExact ==
  /\ ToSet(wait) = {t \in Threads : thr[t].state = "BLOCKED"}
  /\ Len(wait) = Cardinality(ToSet(wait))
  /\ \A t \in Threads : timer[t].cpu # NoCpu => thr[t].in /\ ~thr[t].inf

\* A wait with INFINITE_TIME does not time out
InfiniteWaits == \A t \in Threads : thr[t].in /\ thr[t].inf => thr[t].ret # "timed_out"

\* On one cpu timer_tick is done with a timer before any thread can cancel it:
\* no callback is called after timer_cancel and no infinite wait times out
OneCpuTimers == Cardinality(cpus) = 1 => ~fault /\ InfiniteWaits

\* No thread waits for a mutex that nobody holds and nobody is about to take
\* or to give up
MutexAvailable ==
  (kind = "mutex" /\ wait # <<>>) =>
    obj.holder # NoThread \/ \E t \in Threads : thr[t].in /\ thr[t].state = "READY"

\* Where no timeouts are used, a thread that waits for the mutex gets it, unless
\* it is destroyed: mutex_release leaves no waiter behind
MutexServed ==
  \A t \in Threads :
    (kind = "mutex" /\ timed = {} /\ thr[t].state = "BLOCKED")
      ~> (obj.holder = t \/ ~obj.live)

=============================================================================
