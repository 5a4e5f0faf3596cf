------------------------------ MODULE VcpuLife ------------------------------
(***************************************************************************)
(* The life of the vcpus of one virtual machine: hv/hv_vcpu.c, the PSCI    *)
(* calls of hv/arch/armv8a/hv_psci_emulation.c that start and stop vcpus,  *)
(* the start and shutdown of the machine in hv/hv_vm.c, and the part of    *)
(* kernel/thread.c they use.                                               *)
(*                                                                         *)
(* Every vcpu has a thread that is pinned to a cpu.  A guest calls the     *)
(* hypervisor by a trap, which runs with interrupts masked; a vcpu of      *)
(* another cpu is powered off by an event, handled in the interrupt that   *)
(* announces it.  The kernel's other threads (idle, the console) are one   *)
(* thread Host per cpu, which runs when no vcpu thread is ready there.     *)
(*                                                                         *)
(* A step is one critical section of thread_lock or of vcpu->lock, or the  *)
(* unlocked accesses between two of them.  hv_vcpu_poweroff and its        *)
(* callees take no vcpu->lock, so the steps of a start and of a power-off  *)
(* of the same vcpu interleave.                                            *)
(*                                                                         *)
(* The code runs with DEBUG_ASSERT: a failed assertion, or an access whose *)
(* effect is undefined, stops the model with its name in fault.            *)
(***************************************************************************)
EXTENDS Integers, Sequences, SequencesExt, FiniteSets

CONSTANTS
  VcpuNum,    \* vm->vcpu_num
  Cpu,
  Pin,        \* vcpu->affinity, the cpu each vcpu's thread is pinned to
  Usage,      \* the ways the machine may be used: see UsageType
  Console,    \* the cpus on which the console may be served
  MaxStarts   \* bound on the vm_start commands given at the console

Vcpu    == 0 .. (VcpuNum - 1)
Primary == 0
Host    == -1   \* a thread that is not a vcpu's; current_vcpu() before any

PsciCall == {"on", "off", "standby", "sysoff", "reset"}

\* The PSCI calls the guest may make on each vcpu, and whether the console
\* gives a vm_start only while the machine is at rest
UsageType == [call: [Vcpu -> SUBSET PsciCall], patient: BOOLEAN]

ASSUME VcpuLifeAssumption ==
  /\ VcpuNum \in Nat \ {0}
  /\ Pin \in [Vcpu -> Cpu]
  /\ Usage \subseteq UsageType
  /\ Console \subseteq Cpu
  /\ MaxStarts \in Nat

VARIABLES
  status,   \* vcpu->status
  thread,   \* the state of each vcpu's thread
  at,       \* where each thread is, or will continue when switched to
  inited,   \* vcpu->is_inited
  rq,       \* run_queue, of each cpu the threads pinned to it
  cur,      \* the current thread of each cpu
  here,     \* vcpu_data[cpu].vcpu, what current_vcpu() returns there
  evq,      \* cpu_event[cpu]: the vcpus to be powered off, oldest first
  ipi,      \* MP_IPI_HV_EVENT is pending at the cpu
  poke,     \* MP_IPI_RESCHEDULE is pending at the cpu
  mem,      \* the machine's memory is allocated (vm->mem.mem_seg)
  pc,       \* where the hypervisor code of each cpu is
  op,       \* the locals of that code
  starts,   \* vm_start commands given
  usage,    \* how the machine is used, chosen at the start
  fault     \* the assertion that failed, or the undefined access made

vars == <<status, thread, at, inited, rq, cur, here, evq, ipi, poke, mem,
          pc, op, starts, usage, fault>>

machine == <<status, thread, at, inited, rq, cur, here>>
wires   == <<evq, ipi, poke, mem, starts>>

Status == {"created", "ready", "blocked", "shutdown"}
Thread == {"suspended", "ready", "running", "blocked", "death"}
At     == {"entry", "loaded", "guest"}
PcState == {"run", "start", "resume", "loop", "off", "stop", "free", "block",
            "sched"}
\* v is the vcpu an operation is about and from its caller; i, self, sched
\* and reset are the locals of lkhv_shutdown_vm and psci_sys_reset
From   == {"guest", "console", "irq", "loop", "last"}
OpType == [v: Vcpu, from: From, i: 0 .. VcpuNum, self: Vcpu, sched: BOOLEAN,
           reset: BOOLEAN]
Fault  == {"none", "preempt", "insert", "resched", "block", "lock", "free",
           "stack", "death"}

NoOp == [v |-> Primary, from |-> "guest", i |-> 0, self |-> Primary,
         sched |-> FALSE, reset |-> FALSE]

\* hv_vcpu_create without auto_boot: the thread is created and suspended
Init ==
  /\ status = [v \in Vcpu |-> "created"]
  /\ thread = [v \in Vcpu |-> "suspended"]
  /\ at     = [v \in Vcpu |-> "entry"]
  /\ inited = [v \in Vcpu |-> FALSE]
  /\ rq   = [c \in Cpu |-> <<>>]
  /\ cur  = [c \in Cpu |-> Host]
  /\ here = [c \in Cpu |-> Host]
  /\ evq  = [c \in Cpu |-> <<>>]
  /\ ipi  = [c \in Cpu |-> FALSE]
  /\ poke = [c \in Cpu |-> FALSE]
  /\ mem  = FALSE
  /\ pc   = [c \in Cpu |-> "run"]
  /\ op   = [c \in Cpu |-> NoOp]
  /\ starts = 0
  /\ usage \in Usage
  /\ fault = "none"

\* The step fails, or does not
Fails(f) == fault' = f /\ UNCHANGED usage
Goes     == UNCHANGED <<fault, usage>>

\* Cpu c is at where; after a failure nothing moves
Is(c, where) == fault = "none" /\ pc[c] = where

GoTo(c, where) == pc' = [pc EXCEPT ![c] = where]

\* A thread is on a run queue (list_in_list(&t->queue_node))
Queued(v) == \E k \in 1 .. Len(rq[Pin[v]]) : rq[Pin[v]][k] = v

-----------------------------------------------------------------------------
(* The scheduler.                                                          *)

\* thread_resched that does not call vcpu_switch_to
thread_resched_no_switch(c, th, q) ==
  LET n == IF q = <<>> THEN Host ELSE Head(q) IN
  /\ rq' = [rq EXCEPT ![c] = IF q = <<>> THEN q ELSE Tail(q)]
  /\ thread' = IF n = Host THEN th ELSE [th EXCEPT ![n] = "running"]
  /\ cur' = [cur EXCEPT ![c] = n]
  /\ UNCHANGED here

\* thread_resched on cpu c, when the thread states are th and the queue of c
\* is q: the first thread of the queue, or Host.  vcpu_switch_to does
\* nothing for a vcpu that has not been initialised.
thread_resched(c, th, q) ==
  LET n == IF q = <<>> THEN Host ELSE Head(q) IN
  /\ rq' = [rq EXCEPT ![c] = IF q = <<>> THEN q ELSE Tail(q)]
  /\ thread' = IF n = Host THEN th ELSE [th EXCEPT ![n] = "running"]
  /\ cur' = [cur EXCEPT ![c] = n]
  /\ here' = [here EXCEPT ![c] =
                IF n # Host /\ n # cur[c] /\ inited[n] THEN n ELSE @]

\* thread_preempt: the current thread goes back to the head of the queue
\* while it has quantum left, else to the tail
thread_preempt(c, tail) ==
  LET v == cur[c] IN
  \/ /\ v = Host
     /\ thread_resched(c, thread, rq[c]) /\ Goes
  \/ /\ v # Host /\ thread[v] = "running" /\ ~Queued(v)
     /\ thread_resched(c, [thread EXCEPT ![v] = "ready"],
                       IF tail THEN Append(rq[c], v) ELSE <<v>> \o rq[c])
     /\ Goes
  \/ /\ v # Host /\ (thread[v] # "running" \/ Queued(v))
     /\ Fails(IF thread[v] # "running" THEN "preempt" ELSE "insert")
     /\ UNCHANGED <<rq, thread, cur, here>>

\* thread_timer_tick asks for a preemption when the quantum is used up
Tick(c) ==
  /\ Is(c, "run") /\ cur[c] # Host
  /\ thread_preempt(c, TRUE)
  /\ UNCHANGED <<status, at, inited, wires, pc, op>>

\* mp_mbx_reschedule_irq
RescheduleIrq(c) ==
  /\ Is(c, "run") /\ poke[c]
  /\ poke' = [poke EXCEPT ![c] = FALSE]
  /\ \E tail \in BOOLEAN : thread_preempt(c, tail)
  /\ UNCHANGED <<status, at, inited, evq, ipi, mem, starts, pc, op>>

\* thread_vcpu_sched(VCPU_RESCHED_EXIT), and the yield of a console that has
\* resumed a thread
VcpuSched(c) ==
  /\ Is(c, "sched")
  /\ IF cur[c] # Host /\ thread[cur[c]] = "running"
     THEN Fails("resched") /\ UNCHANGED <<rq, thread, cur, here, pc>>
     ELSE thread_resched(c, thread, rq[c]) /\ GoTo(c, "run") /\ Goes
  /\ UNCHANGED <<status, at, inited, wires, op>>

-----------------------------------------------------------------------------
(* Starting a vcpu.                                                        *)

\* The critical section of hv_vcpu_start.  thread_reset writes a new frame
\* onto the thread's stack, whoever may be running on it.
hv_vcpu_start(c) ==
  LET v == op[c].v IN
  /\ Is(c, "start")
  /\ \/ /\ status[v] \notin {"created", "shutdown"}    \* ERR_BUSY
        /\ GoTo(c, "run") /\ Goes
        /\ UNCHANGED <<status, thread, at>>
     \/ /\ status[v] = "created"
        /\ status' = [status EXCEPT ![v] = "ready"]
        /\ GoTo(c, "resume") /\ Goes
        /\ UNCHANGED <<thread, at>>
     \/ /\ status[v] = "shutdown" /\ cur[Pin[v]] # v
        /\ status' = [status EXCEPT ![v] = "ready"]
        /\ thread' = [thread EXCEPT ![v] = "suspended"]
        /\ at' = [at EXCEPT ![v] = "entry"]
        /\ GoTo(c, "resume") /\ Goes
     \/ /\ status[v] = "shutdown" /\ cur[Pin[v]] = v
        /\ Fails("stack")
        /\ UNCHANGED <<status, thread, at, pc>>
  /\ UNCHANGED <<inited, rq, cur, here, wires, op>>

\* thread_resume that does not ask whether the thread is suspended
thread_resume_any(c) ==
  LET v == op[c].v IN
  /\ Is(c, "resume")
  /\ thread' = [thread EXCEPT ![v] = "ready"]
  /\ rq' = [rq EXCEPT ![Pin[v]] = <<v>> \o @]
  /\ GoTo(c, IF op[c].from = "console" THEN "sched" ELSE "run") /\ Goes
  /\ poke' = [poke EXCEPT ![Pin[v]] = @ \/ Pin[v] # c]
  /\ UNCHANGED <<status, at, inited, cur, here, evq, ipi, mem, starts, op>>

\* thread_resume and wakeup_cpu_for_thread.  A console yields to the thread
\* it has resumed, a trap does not.
thread_resume(c) ==
  LET v == op[c].v IN
  /\ Is(c, "resume")
  /\ \/ /\ thread[v] = "suspended" /\ ~Queued(v)
        /\ thread' = [thread EXCEPT ![v] = "ready"]
        /\ rq' = [rq EXCEPT ![Pin[v]] = <<v>> \o @]
        /\ GoTo(c, IF op[c].from = "console" THEN "sched" ELSE "run") /\ Goes
     \/ /\ thread[v] \notin {"suspended", "death"}
        /\ GoTo(c, "run") /\ Goes
        /\ UNCHANGED <<thread, rq>>
     \/ /\ thread[v] = "death" \/ (thread[v] = "suspended" /\ Queued(v))
        /\ Fails(IF thread[v] = "death" THEN "death" ELSE "insert")
        /\ UNCHANGED <<thread, rq, pc>>
  /\ poke' = [poke EXCEPT ![Pin[v]] = @ \/ (Pin[v] # c /\ fault' = "none")]
  /\ UNCHANGED <<status, at, inited, cur, here, evq, ipi, mem, starts, op>>

\* vcpu_entry_primary up to vcpu_start_common: lkhv_vm_init allocates, maps
\* and loads, or fails and gives everything back; then the thread returns,
\* and is dead
vcpu_entry_primary(c) ==
  /\ Is(c, "run") /\ cur[c] = Primary /\ at[Primary] = "entry"
  /\ \/ /\ mem' = TRUE
        /\ at' = [at EXCEPT ![Primary] = "loaded"]
        /\ Goes /\ UNCHANGED <<thread, rq, cur, here>>
     \/ /\ mem' = FALSE
        /\ thread[Primary] = "running"
        /\ thread_resched(c, [thread EXCEPT ![Primary] = "death"], rq[c])
        /\ Goes /\ UNCHANGED at
     \/ /\ thread[Primary] # "running"
        /\ Fails("death")
        /\ UNCHANGED <<thread, rq, cur, here, at, mem>>
  /\ UNCHANGED <<status, inited, evq, ipi, poke, starts, pc, op>>

\* vcpu_start_common: the vcpu becomes the current one and enters its guest
vcpu_start_common(c) ==
  LET v == cur[c] IN
  /\ Is(c, "run") /\ v # Host
  /\ at[v] = IF v = Primary THEN "loaded" ELSE "entry"
  /\ at' = [at EXCEPT ![v] = "guest"]
  /\ inited' = [inited EXCEPT ![v] = TRUE]
  /\ here' = [here EXCEPT ![c] = v]
  /\ Goes
  /\ UNCHANGED <<status, thread, rq, cur, wires, pc, op>>

-----------------------------------------------------------------------------
(* Powering a vcpu off.                                                    *)

\* Poweroff_ret that forgets to reschedule after the event handler
Poweroff_ret_no_sched(c, r) ==
  LET from == op[c].from IN
  /\ GoTo(c, CASE from \in {"guest", "irq"} -> "run"
               [] from = "loop"  -> "loop"
               [] from = "last"  -> "free")
  /\ op' = [op EXCEPT ![c].sched = @ \/ r]

\* What the caller of hv_vcpu_poweroff does when the result is r, that is
\* whether it is VCPU_RESCHED_EXIT.  psci_vcpu_off only tests its sign.
Poweroff_ret(c, r) ==
  LET from == op[c].from IN
  /\ GoTo(c, CASE from = "guest" -> "run"
               [] from = "irq"   -> IF r THEN "sched" ELSE "run"
               [] from = "loop"  -> "loop"
               [] from = "last"  -> "free")
  /\ op' = [op EXCEPT ![c].sched = @ \/ r]

IsOff(v) == status[v] \in {"shutdown", "created"}

\* hv_vcpu_poweroff that writes the event and raises no interrupt
hv_vcpu_poweroff_no_ipi(c) ==
  LET v == op[c].v IN
  /\ Is(c, "off")
  /\ \/ /\ IsOff(v) \/ Pin[v] # c
        /\ evq' = [evq EXCEPT ![Pin[v]] = IF IsOff(v) THEN @ ELSE Append(@, v)]
        /\ Poweroff_ret(c, FALSE)
        /\ UNCHANGED status
     \/ /\ ~IsOff(v) /\ Pin[v] = c
        /\ status' = [status EXCEPT ![v] = "shutdown"]
        /\ GoTo(c, "stop")
        /\ UNCHANGED <<evq, op>>
  /\ Goes
  /\ UNCHANGED <<thread, at, inited, rq, cur, here, ipi, poke, mem, starts>>

\* hv_vcpu_poweroff: nothing to do, an event for another cpu, or
\* hv_vcpu_irq_cleanup and the first half of hv_poweroff_current
hv_vcpu_poweroff(c) ==
  LET v == op[c].v IN
  /\ Is(c, "off")
  /\ \/ /\ IsOff(v)
        /\ Poweroff_ret(c, FALSE)
        /\ UNCHANGED <<status, evq, ipi>>
     \/ /\ ~IsOff(v) /\ Pin[v] # c
        /\ evq' = [evq EXCEPT ![Pin[v]] = Append(@, v)]
        /\ ipi' = [ipi EXCEPT ![Pin[v]] = TRUE]
        /\ Poweroff_ret(c, FALSE)
        /\ UNCHANGED status
     \/ /\ ~IsOff(v) /\ Pin[v] = c
        /\ status' = [status EXCEPT ![v] = "shutdown"]
        /\ GoTo(c, "stop")
        /\ UNCHANGED <<evq, ipi, op>>
  /\ Goes
  /\ UNCHANGED <<thread, at, inited, rq, cur, here, poke, mem, starts>>

\* stop_current_cpu_thread that leaves a ready thread on the run queue
stop_current_cpu_thread_queued(c) ==
  LET v == op[c].v IN
  /\ Is(c, "stop")
  /\ thread' = [thread EXCEPT ![v] = "blocked"]
  /\ Poweroff_ret(c, thread[v] = "running")
  /\ Goes
  /\ UNCHANGED <<status, at, inited, rq, cur, here, wires>>

\* stop_current_cpu_thread.  A thread that is neither ready nor running is
\* marked as blocked, on whatever queue it is.
stop_current_cpu_thread(c) ==
  LET v == op[c].v IN
  /\ Is(c, "stop")
  /\ thread' = [thread EXCEPT ![v] = "blocked"]
  /\ \/ /\ thread[v] = "ready"
        /\ \E k \in 1 .. Len(rq[c]) :
             rq[c][k] = v /\ rq' = [rq EXCEPT ![c] = RemoveAt(@, k)]
     \/ thread[v] # "ready" /\ UNCHANGED rq
  /\ Poweroff_ret(c, thread[v] = "running")
  /\ Goes
  /\ UNCHANGED <<status, at, inited, cur, here, wires>>

\* hv_event_handler: one event per interrupt
hv_event_handler(c) ==
  /\ Is(c, "run") /\ ipi[c]
  /\ ipi' = [ipi EXCEPT ![c] = FALSE]
  /\ \/ evq[c] = <<>> /\ UNCHANGED <<evq, pc, op>>
     \/ /\ evq[c] # <<>>
        /\ evq' = [evq EXCEPT ![c] = Tail(@)]
        /\ op' = [op EXCEPT ![c] = [NoOp EXCEPT !.v = Head(evq[c]),
                                                !.from = "irq"]]
        /\ GoTo(c, "off")
  /\ Goes
  /\ UNCHANGED <<machine, poke, mem, starts>>

-----------------------------------------------------------------------------
(* Shutting the machine down.                                              *)

\* Shutdown_loop that goes one vcpu too far
Shutdown_loop_past(c) ==
  LET i == op[c].i
      self == op[c].self IN
  /\ Is(c, "loop")
  /\ \/ /\ i = self
        /\ op' = [op EXCEPT ![c].i = i + 1]
        /\ UNCHANGED pc
     \/ /\ i <= VcpuNum /\ i # self
        /\ op' = [op EXCEPT ![c].v = i, ![c].from = "loop", ![c].i = i + 1]
        /\ GoTo(c, "off")
  /\ Goes
  /\ UNCHANGED <<machine, wires>>

\* The loop of lkhv_shutdown_vm over the other vcpus, then the caller itself
Shutdown_loop(c) ==
  LET i == op[c].i
      self == op[c].self IN
  /\ Is(c, "loop")
  /\ \/ /\ i = VcpuNum
        /\ op' = [op EXCEPT ![c].v = self, ![c].from = "last"]
        /\ GoTo(c, "off")
     \/ /\ i = self
        /\ op' = [op EXCEPT ![c].i = i + 1]
        /\ UNCHANGED pc
     \/ /\ i < VcpuNum /\ i # self
        /\ op' = [op EXCEPT ![c].v = i, ![c].from = "loop", ![c].i = i + 1]
        /\ GoTo(c, "off")
  /\ Goes
  /\ UNCHANGED <<machine, wires>>

\* lkhv_vm_free_mem: mem_seg is a null pointer after the first time.  When
\* nobody has to be switched away from, lkhv_shutdown_vm returns, and
\* psci_sys_reset starts the primary vcpu.
lkhv_vm_free_mem(c) ==
  /\ Is(c, "free")
  /\ IF mem
     THEN /\ mem' = FALSE /\ Goes
          /\ op' = [op EXCEPT ![c].v = Primary, ![c].from = "guest"]
          /\ GoTo(c, CASE op[c].sched -> "block"
                       [] ~op[c].sched /\ op[c].reset -> "start"
                       [] ~op[c].sched /\ ~op[c].reset -> "run")
     ELSE Fails("free") /\ UNCHANGED <<mem, op, pc>>
  /\ UNCHANGED <<machine, evq, ipi, poke, starts>>

\* thread_block: the trap never returns
thread_block(c) ==
  /\ Is(c, "block")
  /\ IF thread[cur[c]] = "blocked"
     THEN thread_resched(c, thread, rq[c]) /\ GoTo(c, "run") /\ Goes
     ELSE Fails("block") /\ UNCHANGED <<rq, thread, cur, here, pc>>
  /\ UNCHANGED <<status, at, inited, wires, op>>

-----------------------------------------------------------------------------
(* The calls of the guest, and of the console.                             *)

\* Vcpu v's guest runs on cpu c and makes call k
Guest(c, v, k) ==
  /\ Is(c, "run") /\ cur[c] = v
  /\ at[v] = "guest" /\ k \in usage.call[v]

\* A trap that goes on at pc where with locals o
Trap(c, where, o) ==
  /\ GoTo(c, where) /\ op' = [op EXCEPT ![c] = o]
  /\ Goes /\ UNCHANGED <<machine, wires>>

\* psci_vcpu_on; entry point and argument of the vcpu are left out
psci_vcpu_on(c, v, t) ==
  /\ Guest(c, v, "on")
  /\ Trap(c, "start", [NoOp EXCEPT !.v = t])

\* psci_vcpu_off, and the power-down form of psci_vcpu_suspend
psci_vcpu_off(c, v) ==
  /\ Guest(c, v, "off")
  /\ Trap(c, "off", [NoOp EXCEPT !.v = here[c]])

\* The standby form of psci_vcpu_suspend: hv_vcpu_block stops the thread and
\* calls thread_block, which asserts that thread_lock is held; it is not
psci_vcpu_suspend(c, v) ==
  /\ Guest(c, v, "standby")
  /\ status' = [status EXCEPT ![here[c]] = "blocked"]
  /\ thread' = [thread EXCEPT ![here[c]] = "blocked"]
  /\ Fails("lock")
  /\ UNCHANGED <<at, inited, rq, cur, here, wires, pc, op>>

\* psci_sys_off, psci_sys_reset and lkhv_shutdown_vm up to its loop
psci_sys(c, v, reset) ==
  /\ Guest(c, v, IF reset THEN "reset" ELSE "sysoff")
  /\ \/ /\ status[here[c]] # "shutdown"
        /\ Trap(c, "loop", [NoOp EXCEPT !.self = here[c], !.reset = reset])
     \/ /\ status[here[c]] = "shutdown"
        /\ Trap(c, IF reset THEN "start" ELSE "run", NoOp)

\* Every vcpu is off and no power-off is under way
AtRest ==
  /\ \A v \in Vcpu : IsOff(v)
  /\ \A c \in Cpu : pc[c] = "run" /\ evq[c] = <<>>

\* vm_start at the console
vm_start(c) ==
  /\ Is(c, "run") /\ cur[c] = Host /\ c \in Console
  /\ starts < MaxStarts /\ (usage.patient => AtRest)
  /\ starts' = starts + 1
  /\ GoTo(c, "start")
  /\ op' = [op EXCEPT ![c] = [NoOp EXCEPT !.from = "console"]]
  /\ Goes
  /\ UNCHANGED <<machine, evq, ipi, poke, mem>>

-----------------------------------------------------------------------------

\* What a cpu does by itself once it is in hypervisor code
Code(c) ==
  \/ VcpuSched(c) \/ hv_vcpu_start(c) \/ thread_resume(c)
  \/ hv_vcpu_poweroff(c) \/ stop_current_cpu_thread(c)
  \/ Shutdown_loop(c) \/ lkhv_vm_free_mem(c) \/ thread_block(c)

Boots(c) == vcpu_entry_primary(c) \/ vcpu_start_common(c)

Calls(c) ==
  \/ \E v \in Vcpu :
       \/ \E t \in Vcpu : psci_vcpu_on(c, v, t)
       \/ psci_vcpu_off(c, v) \/ psci_vcpu_suspend(c, v)
       \/ \E reset \in BOOLEAN : psci_sys(c, v, reset)
  \/ vm_start(c)

Step(c) ==
  Code(c) \/ Boots(c) \/ Calls(c) \/ Tick(c) \/ RescheduleIrq(c)
    \/ hv_event_handler(c)

Next == \E c \in Cpu : Step(c)

\* Hypervisor code runs on: a trap or a handler is never interrupted.  An
\* interrupt from another cpu is taken at the latest when the cpu leaves the
\* hypervisor, because a guest cannot mask it.
Fairness ==
  \A c \in Cpu :
    /\ WF_vars(Code(c))
    /\ SF_vars(hv_event_handler(c))

Spec == Init /\ [][Next]_vars
FairSpec == Spec /\ Fairness

-----------------------------------------------------------------------------
(* Properties.                                                             *)

\* The state has its type, and an operation in progress is about a vcpu.
TypeOK ==
  /\ status \in [Vcpu -> Status]
  /\ thread \in [Vcpu -> Thread]
  /\ at \in [Vcpu -> At]
  /\ inited \in [Vcpu -> BOOLEAN]
  /\ rq \in [Cpu -> Seq(Vcpu)]
  /\ cur \in [Cpu -> Vcpu \cup {Host}]
  /\ here \in [Cpu -> Vcpu \cup {Host}]
  /\ evq \in [Cpu -> Seq(Vcpu)]
  /\ ipi \in [Cpu -> BOOLEAN]
  /\ poke \in [Cpu -> BOOLEAN]
  /\ mem \in BOOLEAN
  /\ pc \in [Cpu -> PcState]
  /\ op \in [Cpu -> OpType]
  /\ starts \in 0 .. MaxStarts
  /\ usage \in Usage
  /\ fault \in Fault

\* How the code means to be used: only the boot vcpu makes calls, it starts
\* the others and shuts the machine down, and a machine is started at rest.
Orderly ==
  /\ usage.patient
  /\ \A v \in Vcpu :
       usage.call[v] \subseteq (IF v = Primary THEN {"on", "sysoff", "reset"}
                              ELSE {})

\* No assertion of thread.c fails, no thread's stack is written while a cpu
\* runs on it, and the memory is not given back twice.
NoFault == Orderly => fault = "none"

\* However starts, power-offs and preemptions interleave, and however the
\* machine is used: a thread is on no run queue but its own cpu's, at most
\* once and not while that cpu runs it; a ready thread is on it, and a
\* running thread is its cpu's current thread.
QueueSound ==
  /\ \A c \in Cpu : \A k \in 1 .. Len(rq[c]) :
       /\ Pin[rq[c][k]] = c /\ rq[c][k] # cur[c]
       /\ \A l \in 1 .. Len(rq[c]) : rq[c][k] = rq[c][l] => k = l
  /\ \A c \in Cpu : cur[c] # Host => Pin[cur[c]] = c
  /\ \A v \in Vcpu :
       /\ thread[v] = "ready" => Queued(v)
       /\ thread[v] = "running" => cur[Pin[v]] = v

\* In orderly use only ready threads are queued, and a cpu that is not inside
\* the hypervisor runs a thread that is running: thread_preempt and
\* thread_exit assert it.
ThreadConsistent ==
  Orderly =>
  /\ \A v \in Vcpu : Queued(v) => thread[v] = "ready"
  /\ \A c \in Cpu :
       pc[c] = "run" /\ cur[c] # Host => thread[cur[c]] = "running"

\* current_vcpu() is the vcpu whose guest has trapped: what psci_vcpu_off
\* and lkhv_shutdown_vm rely on.
CurrentVcpuExact ==
  \A c \in Cpu : cur[c] # Host /\ at[cur[c]] = "guest" => here[c] = cur[c]

\* A vcpu that has been shut down does not go on executing its guest.
OffMeansOff ==
  Orderly => \A c \in Cpu, v \in Vcpu :
    status[v] = "shutdown" /\ pc[c] = "run" => cur[c] # v

\* Whoever is running when lkhv_shutdown_vm comes to it is shut down in the
\* end, on whichever cpu it is.
ShutdownReaches ==
  \A v \in Vcpu :
    (/\ Orderly
     /\ \E c \in Cpu : pc[c] = "loop" /\ op[c].i <= v /\ status[v] = "ready")
      ~> status[v] = "shutdown"

\* What thread_preempt asserts of the current thread: its "state ==
\* THREAD_RUNNING".
PreemptAssert == fault # "preempt"

\* What lkhv_shutdown_vm says of lkhv_vm_free_mem: "last free vm resources".
\* No vcpu is in its guest while the machine has no memory.
GuestHasMemory ==
  \A c \in Cpu :
    pc[c] = "run" /\ cur[c] # Host /\ at[cur[c]] = "guest" => mem
=============================================================================
