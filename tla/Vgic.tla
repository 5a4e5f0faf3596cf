-------------------------------- MODULE Vgic --------------------------------
(***************************************************************************)
(* The virtual interrupt controller of one virtual machine                 *)
(* (hv/arch/armv8a/hv_vgic.c, vgic_gic.c and the register writes of        *)
(* vgic_mmio.c that change interrupt state).                               *)
(*                                                                         *)
(* A virtual interrupt (struct vgic_irq) is queued on the pending list of  *)
(* a vcpu (pd_head), is moved into a list register when that vcpu goes     *)
(* back to its guest (hv_flush_queued_virqs), is acknowledged and          *)
(* completed by the guest without any trap, and is looked at again when    *)
(* the vcpu next leaves its guest (hv_sync_irq_from_lrs).  Every vcpu is   *)
(* pinned to a cpu of its own, so a vcpu stands for its cpu too.           *)
(*                                                                         *)
(* The critical sections that change a pending list are not one step: an   *)
(* insertion sets pdq and then links, a flush is a step per entry.         *)
(* hv_virq_cpending takes no lock, and hv_migrate_virq not always the lock *)
(* of the list it takes an entry off, so their steps fall between those of *)
(* a section.  The variable raced notes when that has happened.  One       *)
(* list_delete or list_add is indivisible, and so is the walk that finds   *)
(* an entry's place.                                                       *)
(*                                                                         *)
(* The bits pending and active of struct vgic_irq are copies of the list   *)
(* register that only the emulated GICD_ISPENDR reads: they are left out.  *)
(***************************************************************************)
EXTENDS Integers, Sequences, SequencesExt, FiniteSets

CONSTANTS
  Vcpu,         \* the vcpus of the virtual machine, one per cpu
  Boot,         \* vm->vcpu[0], where every SPI is routed at first
  Spi,          \* the device interrupts mapped to the guest (hwintid # 0)
  Ppi,          \* private peripheral interrupts of each vcpu (its timer)
  SgiN,         \* software generated interrupts 1..15 of each vcpu; the
                \* hwintid of both is their own number: they count as hardware
  Sgi0,         \* software generated interrupt 0 of each vcpu: hwintid = 0
  Owner,        \* the vcpu whose redistributor holds a private interrupt
  LrNum,        \* vgic_info.lr_nr, the list registers in use
  CanPowerOff,  \* the vcpus the guest may power off
  CanDisable,   \* the interrupts the guest may disable or clear
  CanPrioritise,\* the interrupts whose priority the guest may write
  CanRoute      \* the SPIs whose route the guest may write

Priv == Ppi \cup SgiN \cup Sgi0
Irq  == Spi \cup Priv
Lrs  == 0 .. (LrNum - 1)

LR_INDEX_INVALID == 255
VIRQ_DEFAULT_PRI == 100
NoIrq   == "none"     \* an all-zero list register
AnyVcpu == "any"      \* GICD_IROUTER with bit 31 set
Astray  == "astray"   \* a flush loop's pointer past the end of another list

ASSUME VgicAssumption ==
  /\ LrNum \in 1 .. 16
  /\ Boot \in Vcpu
  /\ AnyVcpu \notin Vcpu
  /\ NoIrq \notin Irq /\ Astray \notin Irq
  /\ Spi \cap Priv = {} /\ (Ppi \cup SgiN) \cap Sgi0 = {}
  /\ Owner \in [Priv -> Vcpu]
  /\ CanPowerOff \subseteq Vcpu
  /\ CanDisable \subseteq Irq /\ CanPrioritise \subseteq Irq
  /\ CanRoute \subseteq Spi

\* virq->hwintid is not 0
Hw(i) == i \in Spi \cup Ppi \cup SgiN

VARIABLES
  irq,    \* struct vgic_irq of each interrupt
  pd,     \* pd_head of each vcpu: interrupts waiting for a list register
  lrl,    \* lr_head of each vcpu: interrupts believed to be in one
  reg,    \* the list registers of each vcpu
  uie,    \* ICH_HCR_EL2.UIE of each vcpu
  gic,    \* the physical distributor's view of each SPI
  up,     \* vcpu->status is not VCPU_SHUTDOWN
  pc,     \* where each cpu is
  op,     \* the interrupt a cpu works on
  raced   \* an unlocked access has met a critical section of its list

vars == <<irq, pd, lrl, reg, uie, gic, up, pc, op, raced>>

LrState == {"invalid", "pending", "active", "actpend"}
PcState == {"guest", "hyp", "inject", "insert", "link", "clear", "clean",
            "ret", "flush"}
Route   == Vcpu \cup {AnyVcpu}

IrqType == [enable: BOOLEAN, pdq: BOOLEAN, priority: {0, VIRQ_DEFAULT_PRI},
            lr: Lrs \cup {LR_INDEX_INVALID}, vcpu: Vcpu, migrate: BOOLEAN,
            iroute: Route]
LrType  == [virq: Irq \cup {NoIrq}, state: LrState]
GicType == [active: BOOLEAN, aff: Vcpu, enable: BOOLEAN]
\* What a pointer of the flush loop may be: an interrupt, the head of the
\* list (NoIrq), or the head of another list taken for an interrupt
Pointer == Irq \cup {NoIrq, Astray}
\* irq is injected into vcpu to, is being cleared, or is the flush loop's
\* entry and nxt the one it has saved; dea: a failed injection deactivates
\* the physical interrupt
OpType  == [irq: Pointer, to: Vcpu, dea: BOOLEAN, nxt: Pointer]

NoOp(v) == [irq |-> NoIrq, to |-> v, dea |-> FALSE, nxt |-> NoIrq]

ZeroLr == [virq |-> NoIrq, state |-> "invalid"]

\* init_virq and hv_vm_init_virq; the field vcpu of a private interrupt is
\* never used, Owner stands in for it
init_virq(i) ==
  [enable |-> FALSE, pdq |-> FALSE, priority |-> VIRQ_DEFAULT_PRI,
   lr |-> LR_INDEX_INVALID, vcpu |-> IF i \in Priv THEN Owner[i] ELSE Boot,
   migrate |-> FALSE, iroute |-> Boot]

Init ==
  /\ irq = [i \in Irq |-> init_virq(i)]
  /\ pd  = [v \in Vcpu |-> <<>>]
  /\ lrl = [v \in Vcpu |-> {}]
  /\ reg = [v \in Vcpu |-> [n \in Lrs |-> ZeroLr]]
  /\ uie = [v \in Vcpu |-> FALSE]
  /\ gic = [i \in Spi |-> [active |-> FALSE, aff |-> Boot, enable |-> FALSE]]
  /\ up  = [v \in Vcpu |-> TRUE]
  /\ pc  = [v \in Vcpu |-> "guest"]
  /\ op  = [v \in Vcpu |-> NoOp(v)]
  /\ raced = FALSE

-----------------------------------------------------------------------------
(* The pending list.                                                       *)

Listed(i, v) == \E k \in 1 .. Len(pd[v]) : pd[v][k] = i
InPdList(i)  == \E v \in Vcpu : Listed(i, v)

\* A cpu holds the lock of vcpu u to link an interrupt
Linking(u) == \E w \in Vcpu : pc[w] = "link" /\ op[w].to = u

\* pd_lock of vcpu u is held
Locked(u) == pc[u] = "flush" \/ Linking(u)

\* Cpu w is busy with the list that interrupt i is on, or with i itself
Busy(w, i) ==
  \/ pc[w] = "flush" /\ Listed(i, w)
  \/ pc[w] = "link" /\ (op[w].irq = i \/ Listed(i, op[w].to))
  \/ pc[w] = "clear"
       /\ (op[w].irq = i
             \/ \E u \in Vcpu : Listed(i, u) /\ Listed(op[w].irq, u))

\* Cpu v changes interrupt i or unlinks it without the lock of its list
UnlockedAccess(v, i) ==
  raced' = (raced \/ \E w \in Vcpu \ {v} : Busy(w, i))

\* Cpu v opens a critical section in which it changes the list of u, and
\* links i: is somebody about to unlink one of them without the lock, or
\* putting i on another list?
OpenSection(v, u, i) ==
  raced' = (raced \/ \E w \in Vcpu \ {v} :
              \/ pc[w] \in {"link", "clear"} /\ op[w].irq = i
              \/ pc[w] = "clear" /\ Listed(op[w].irq, u))

\* list_delete(&virq->pd_node), whichever list it is on
UnlinkPd(i) ==
  \/ ~InPdList(i) /\ UNCHANGED pd
  \/ \E v \in Vcpu : \E k \in 1 .. Len(pd[v]) :
       /\ pd[v][k] = i
       /\ pd' = [pd EXCEPT ![v] = RemoveAt(@, k)]

\* The physical interrupt i may be delivered again: gic_set_icactiver
gic_set_icactiver(S) ==
  gic' = [i \in Spi |-> IF i \in S THEN [gic[i] EXCEPT !.active = FALSE]
                                   ELSE gic[i]]

\* The part of hv_sync_irq_from_lrs that decides whether an interrupt has
\* left its list register: the register was reused, or the guest is done
SyncFreed(v, i) ==
  LET n == irq[i].lr IN
  /\ i \in lrl[v]
  /\ n # LR_INDEX_INVALID
  /\ reg[v][n].virq # i \/ reg[v][n].state = "invalid"

SyncActive(v, i) ==
  LET n == irq[i].lr IN
  /\ i \in lrl[v]
  /\ n # LR_INDEX_INVALID
  /\ reg[v][n] = [virq |-> i, state |-> "active"]

\* hv_virq_from_lrs, which takes pd_lock: a trap or a physical interrupt takes
\* vcpu v out of its guest.  A freed interrupt gets lr = 0, not
\* LR_INDEX_INVALID; a migration that waited for it is completed.
GuestExit(v) ==
  /\ pc[v] = "guest" /\ ~Linking(v)
  /\ pc' = [pc EXCEPT ![v] = "hyp"]
  /\ irq' = [i \in Irq |-> IF SyncFreed(v, i)
                           THEN [irq[i] EXCEPT !.lr = 0, !.migrate = FALSE]
                           ELSE irq[i]]
  /\ lrl' = [lrl EXCEPT ![v] = {i \in @ : ~SyncFreed(v, i)}]
  /\ gic' = [i \in Spi |-> IF SyncFreed(v, i) /\ irq[i].migrate
                           THEN [gic[i] EXCEPT !.aff = irq[i].vcpu]
                           ELSE gic[i]]
  /\ uie' = [uie EXCEPT ![v] =
               @ /\ \A i \in Irq : ~SyncFreed(v, i) /\ ~SyncActive(v, i)]
  /\ UNCHANGED <<pd, reg, up, op, raced>>

-----------------------------------------------------------------------------
(* What the hypervisor does between leaving a guest and going back to it.  *)

\* The exit needed no interrupt operation (a tick, another trap, an
\* unrelated register access)
OtherExit(v) ==
  /\ pc[v] = "hyp"
  /\ pc' = [pc EXCEPT ![v] = "ret"]
  /\ UNCHANGED <<irq, pd, lrl, reg, uie, gic, up, op, raced>>

BeginInject(v, i, to, dea) ==
  /\ pc' = [pc EXCEPT ![v] = "inject"]
  /\ op' = [op EXCEPT ![v] = [irq |-> i, to |-> to, dea |-> dea,
                              nxt |-> NoIrq]]

EndInject(v) ==
  /\ pc' = [pc EXCEPT ![v] = "ret"]
  /\ op' = [op EXCEPT ![v] = NoOp(v)]

\* __platform_irq, hv_int_handler and hv_inject_virq: device interrupt i is
\* taken on the cpu it is routed to.  It stays active until the guest
\* completes it or gic_set_icactiver is called for it.
DeviceIrq(v, i) ==
  /\ pc[v] = "hyp"
  /\ gic[i].enable /\ ~gic[i].active /\ gic[i].aff = v
  /\ gic' = [gic EXCEPT ![i].active = TRUE]
  /\ BeginInject(v, i, irq[i].vcpu, TRUE)
  /\ UNCHANGED <<irq, pd, lrl, reg, uie, up, raced>>

\* vtimer_irq_handler: a private interrupt of the cpu is injected into the
\* vcpu it runs.  Its state in the physical redistributor is left out.
PrivateIrq(v, i) ==
  /\ pc[v] = "hyp"
  /\ Owner[i] = v
  /\ BeginInject(v, i, v, TRUE)
  /\ UNCHANGED <<irq, pd, lrl, reg, uie, gic, up, raced>>

\* gic_sgi_emulation: the guest of v writes ICC_SGI1R_EL1.  A write that
\* names several vcpus is one injection after the other.
GuestSgi(v, i) ==
  /\ pc[v] = "hyp"
  /\ BeginInject(v, i, Owner[i], TRUE)
  /\ UNCHANGED <<irq, pd, lrl, reg, uie, gic, up, raced>>

\* hv_vcpu_inject_virq up to the insertion.  No vcpu is ever VCPU_RUNNING
\* and VCPU_FLAGS_EVENT is never set, so its two wake-up calls never happen.
InjectFails(v)  == ~irq[op[v].irq].enable \/ ~up[op[v].to]
InjectQueued(v) == irq[op[v].irq].pdq

hv_vcpu_inject_virq(v) ==
  /\ pc[v] = "inject"
  /\ \/ /\ InjectFails(v)
        /\ IF op[v].dea THEN gic_set_icactiver({op[v].irq}) ELSE UNCHANGED gic
        /\ EndInject(v)
     \/ /\ ~InjectFails(v) /\ InjectQueued(v)
        /\ UNCHANGED gic
        /\ EndInject(v)
     \/ /\ ~InjectFails(v) /\ ~InjectQueued(v)
        /\ UNCHANGED <<gic, op>>
        /\ pc' = [pc EXCEPT ![v] = "insert"]
  /\ UNCHANGED <<irq, pd, lrl, reg, uie, up, raced>>

\* The positions of list s that insert_into_pdlist stops at: it puts the
\* interrupt in front of the first entry whose priority value is smaller
SmallerPriority(s, i) ==
  {k \in 1 .. Len(s) : irq[s[k]].priority < irq[i].priority}

\* The list after the insertion: when no entry stops the walk, the interrupt
\* is added only to an empty list
pd_insert(s, i) ==
  LET K == SmallerPriority(s, i) IN
  CASE s = <<>>            -> <<i>>
    [] s # <<>> /\ K = {}  -> s
    [] s # <<>> /\ K # {}  -> InsertAt(s, Min(K), i)

\* insert_into_pdlist without its test that the interrupt is on no list yet
insert_into_pdlist_again(v) ==
  /\ pc[v] = "insert" /\ ~Locked(op[v].to)
  /\ pc' = [pc EXCEPT ![v] = "link"]
  /\ irq' = [irq EXCEPT ![op[v].irq].pdq = TRUE]
  /\ OpenSection(v, op[v].to, op[v].irq)
  /\ UNCHANGED <<pd, lrl, reg, uie, gic, up, op>>

\* insert_into_pdlist up to the walk: take the lock, test, set pdq
insert_into_pdlist(v) ==
  /\ pc[v] = "insert" /\ ~Locked(op[v].to)
  /\ \/ /\ InPdList(op[v].irq)
        /\ EndInject(v)
        /\ UNCHANGED <<irq, raced>>
     \/ /\ ~InPdList(op[v].irq)
        /\ pc' = [pc EXCEPT ![v] = "link"]
        /\ irq' = [irq EXCEPT ![op[v].irq].pdq = TRUE]
        /\ OpenSection(v, op[v].to, op[v].irq)
        /\ UNCHANGED op
  /\ UNCHANGED <<pd, lrl, reg, uie, gic, up>>

\* insert_into_pdlist, the walk and the link
InsertLink(v) ==
  /\ pc[v] = "link"
  /\ pd' = [pd EXCEPT ![op[v].to] = pd_insert(@, op[v].irq)]
  /\ EndInject(v)
  /\ UNCHANGED <<irq, lrl, reg, uie, gic, up, raced>>

-----------------------------------------------------------------------------
(* Accesses of the guest to the emulated distributor and redistributor.    *)

\* Every vcpu reaches the redistributors of the others too: redist_mmio_write
\* works on the vcpu whose frame is addressed.

\* isenabler_write and hv_virq_enable(virq, 1)
GuestEnable(v, i) ==
  /\ pc[v] = "hyp"
  /\ ~irq[i].enable
  /\ irq' = [irq EXCEPT ![i].enable = TRUE]
  /\ gic' = [j \in Spi |-> IF j = i THEN [gic[j] EXCEPT !.enable = TRUE]
                                    ELSE gic[j]]
  /\ pc' = [pc EXCEPT ![v] = "ret"]
  /\ UNCHANGED <<pd, lrl, reg, uie, up, op, raced>>

\* hv_virq_cpending, without a lock: pdq is cleared first (the caller has
\* written enable)
hv_virq_cpending(v, i, enable) ==
  /\ irq' = [irq EXCEPT ![i].pdq = FALSE, ![i].enable = enable]
  /\ pc' = [pc EXCEPT ![v] = "clear"]
  /\ op' = [op EXCEPT ![v] = [NoOp(v) EXCEPT !.irq = i]]
  /\ UnlockedAccess(v, i)

\* hv_virq_cpending, the rest: the entry leaves the pending list, a list
\* register is not touched and the physical interrupt is not deactivated
ClearUnlink(v) ==
  /\ pc[v] = "clear"
  /\ UnlinkPd(op[v].irq)
  /\ UnlockedAccess(v, op[v].irq)
  /\ EndInject(v)
  /\ UNCHANGED <<irq, lrl, reg, uie, gic, up>>

\* GuestDisable as it would be if it deactivated the physical interrupt too
GuestDisableDeactivate(v, i) ==
  /\ pc[v] = "hyp"
  /\ irq[i].enable
  /\ hv_virq_cpending(v, i, FALSE)
  /\ gic_set_icactiver({i})
  /\ UNCHANGED <<pd, lrl, reg, uie, up>>

\* icenabler_write and hv_virq_enable(virq, 0); a hardware interrupt stays
\* enabled in the physical distributor
GuestDisable(v, i) ==
  /\ pc[v] = "hyp"
  /\ irq[i].enable
  /\ hv_virq_cpending(v, i, FALSE)
  /\ UNCHANGED <<pd, lrl, reg, uie, gic, up>>

\* icpendr_write: SGIs are skipped
GuestClearPending(v, i) ==
  /\ pc[v] = "hyp"
  /\ i \in Spi \cup Ppi /\ irq[i].enable
  /\ hv_virq_cpending(v, i, TRUE)
  /\ UNCHANGED <<pd, lrl, reg, uie, gic, up>>

\* GuestSetPriority without the mask
GuestSetPriorityRaw(v, i) ==
  /\ pc[v] = "hyp"
  /\ irq' = [irq EXCEPT ![i].priority = 1]
  /\ pc' = [pc EXCEPT ![v] = "ret"]
  /\ UNCHANGED <<pd, lrl, reg, uie, gic, up, op, raced>>

\* ipriority_write: pribits is 0, so whatever is written is masked to 0
GuestSetPriority(v, i) ==
  /\ pc[v] = "hyp"
  /\ irq' = [irq EXCEPT ![i].priority = 0]
  /\ pc' = [pc EXCEPT ![v] = "ret"]
  /\ UNCHANGED <<pd, lrl, reg, uie, gic, up, op, raced>>

\* irouter_write: the route is remembered only when the migration is
\* refused; a write of the remembered route is ignored
RouteTarget(r) == IF r = AnyVcpu THEN Boot ELSE r

RouteWrite(v, i, r) ==
  /\ pc[v] = "hyp"
  /\ irq[i].iroute # r
  /\ RouteTarget(r) # irq[i].vcpu

InLrList(i) == \E v \in Vcpu : i \in lrl[v]

\* hv_migrate_virq, an earlier migration still waits for the guest
MigrateRefused(v, i, r) ==
  /\ RouteWrite(v, i, r)
  /\ irq[i].migrate
  /\ irq' = [irq EXCEPT ![i].iroute = r]
  /\ pc' = [pc EXCEPT ![v] = "ret"]
  /\ UNCHANGED <<pd, lrl, reg, uie, gic, up, op, raced>>

\* hv_migrate_virq, "does not in any queue": the test looks at pd_node only,
\* so an interrupt that is in a list register is rerouted here too
MigrateNow(v, i, r) ==
  /\ RouteWrite(v, i, r)
  /\ ~irq[i].migrate /\ ~Locked(irq[i].vcpu)
  /\ ~InPdList(i)
  /\ gic' = [gic EXCEPT ![i].aff = RouteTarget(r)]
  /\ irq' = [irq EXCEPT ![i].vcpu = RouteTarget(r)]
  /\ pc' = [pc EXCEPT ![v] = "ret"]
  /\ UNCHANGED <<pd, lrl, reg, uie, up, op, raced>>

\* hv_migrate_virq, "already in lr, wait for EOI": on the pending list again
\* while still on a list of used list registers
MigrateLater(v, i, r) ==
  /\ RouteWrite(v, i, r)
  /\ ~irq[i].migrate /\ ~Locked(irq[i].vcpu)
  /\ InPdList(i) /\ InLrList(i)
  /\ irq' = [irq EXCEPT ![i].vcpu = RouteTarget(r), ![i].migrate = TRUE]
  /\ pc' = [pc EXCEPT ![v] = "ret"]
  /\ UNCHANGED <<pd, lrl, reg, uie, gic, up, op, raced>>

\* hv_migrate_virq, "in pdq, but not in lr", without list_delete
MigrateQueuedLinked(v, i, r) ==
  /\ RouteWrite(v, i, r)
  /\ ~irq[i].migrate /\ ~Locked(irq[i].vcpu)
  /\ InPdList(i) /\ ~InLrList(i) /\ irq[i].pdq
  /\ UNCHANGED pd
  /\ irq' = [irq EXCEPT ![i].vcpu = RouteTarget(r), ![i].pdq = FALSE]
  /\ gic' = [gic EXCEPT ![i].aff = RouteTarget(r)]
  /\ BeginInject(v, i, RouteTarget(r), FALSE)
  /\ UnlockedAccess(v, i)
  /\ UNCHANGED <<lrl, reg, uie, up>>

\* hv_migrate_virq, "in pdq, but not in lr": the entry is taken off the list
\* and injected into the new vcpu; that injection's result is ignored.  The
\* lock is that of the old vcpu, the list need not be.
MigrateQueued(v, i, r) ==
  /\ RouteWrite(v, i, r)
  /\ ~irq[i].migrate /\ ~Locked(irq[i].vcpu)
  /\ InPdList(i) /\ ~InLrList(i) /\ irq[i].pdq
  /\ UnlinkPd(i)
  /\ irq' = [irq EXCEPT ![i].vcpu = RouteTarget(r), ![i].pdq = FALSE]
  /\ gic' = [gic EXCEPT ![i].aff = RouteTarget(r)]
  /\ BeginInject(v, i, RouteTarget(r), FALSE)
  /\ UnlockedAccess(v, i)
  /\ UNCHANGED <<lrl, reg, uie, up>>

\* hv_migrate_virq, none of the cases: the entry is linked and in no list
\* register, but another cpu has just cleared pdq.  Nothing happens.
MigrateNothing(v, i, r) ==
  /\ RouteWrite(v, i, r)
  /\ ~irq[i].migrate /\ ~Locked(irq[i].vcpu)
  /\ InPdList(i) /\ ~InLrList(i) /\ ~irq[i].pdq
  /\ pc' = [pc EXCEPT ![v] = "ret"]
  /\ UNCHANGED <<irq, pd, lrl, reg, uie, gic, up, op, raced>>

-----------------------------------------------------------------------------
(* Powering a vcpu off.                                                    *)

\* hv_vcpu_irq_cleanup: every list register that names a physical interrupt
\* has that interrupt deactivated, in whatever state the register is; the
\* interrupts taken off the lists keep pdq, lr and migrate
hv_vcpu_irq_cleanup(v) ==
  /\ pc[v] = "hyp" /\ v \in CanPowerOff /\ up[v] /\ ~Linking(v)
  /\ lrl' = [lrl EXCEPT ![v] = {}]
  /\ gic_set_icactiver({reg[v][n].virq : n \in Lrs}
                       \cup {pd[v][k] : k \in 1 .. Len(pd[v])})
  /\ reg' = [reg EXCEPT ![v] = [n \in Lrs |-> ZeroLr]]
  /\ pd' = [pd EXCEPT ![v] = <<>>]
  /\ pc' = [pc EXCEPT ![v] = "clean"]
  /\ OpenSection(v, v, NoIrq)
  /\ UNCHANGED <<irq, uie, up, op>>

\* hv_poweroff_current, as far as interrupts see it.  CPU_OFF does not
\* reschedule, so the cpu goes back to the guest.
hv_poweroff_current(v) ==
  /\ pc[v] = "clean"
  /\ up' = [up EXCEPT ![v] = FALSE]
  /\ pc' = [pc EXCEPT ![v] = "ret"]
  /\ UNCHANGED <<irq, pd, lrl, reg, uie, gic, op, raced>>

-----------------------------------------------------------------------------
(* Going back to the guest: hv_flush_queued_virqs, one step per entry.     *)

EmptyLr(v) == {n \in Lrs : reg[v][n].state = "invalid"}

vgic_get_lr(v) ==
  IF EmptyLr(v) = {} THEN LR_INDEX_INVALID ELSE Min(EmptyLr(v))

\* Where list p of every vcpu leads from pointer i in the loop of vcpu v: an
\* entry that is on no list points to itself, and a list that is not v's
\* ends in a head the loop does not know
Follows(p, v, i, j) ==
  \/ i \notin Irq /\ j = i
  \/ i \in Irq /\ j = i
       /\ \A u \in Vcpu : \A k \in 1 .. Len(p[u]) : p[u][k] # i
  \/ \E u \in Vcpu : \E k \in 1 .. Len(p[u]) :
       /\ p[u][k] = i
       /\ j = IF k < Len(p[u]) THEN p[u][k + 1]
              ELSE IF u = v THEN NoIrq ELSE Astray

\* list_for_every_entry_safe: the pointers of the loop are set to i and to
\* the entry after it
LoopAt(v, i) ==
  \E j \in Pointer :
    /\ Follows(pd', v, i, j)
    /\ op' = [op EXCEPT ![v] = [NoOp(v) EXCEPT !.irq = i, !.nxt = j]]

\* The unlocked test for an empty list, then the lock
hv_virq_to_lrs(v) ==
  /\ pc[v] = "ret"
  /\ \/ /\ pd[v] = <<>>
        /\ pc' = [pc EXCEPT ![v] = "guest"]
        /\ UNCHANGED <<pd, op, raced>>
     \/ /\ pd[v] # <<>> /\ ~Linking(v)
        /\ pc' = [pc EXCEPT ![v] = "flush"]
        /\ UNCHANGED pd
        /\ LoopAt(v, Head(pd[v]))
        /\ OpenSection(v, v, NoIrq)
  /\ UNCHANGED <<irq, lrl, reg, uie, gic, up>>

\* The loop works on an interrupt.  A pointer that went astray is no
\* interrupt, and what the cpu does with it is undefined: it stops here.
FlushIrq(v) == op[v].irq
Flushing(v) == pc[v] = "flush" /\ op[v].irq \in Irq

\* A list register has to be found for the entry: always for a hardware
\* interrupt, the first time for the other
NeedsLr(i) == Hw(i) \/ irq[i].lr = LR_INDEX_INVALID

\* move_to_lr_lst, and the loop goes on: an interrupt on a list of used
\* registers stays on that one
move_to_lr_lst(v) ==
  /\ UnlinkPd(FlushIrq(v))
  /\ LoopAt(v, op[v].nxt)
  /\ lrl' = IF InLrList(FlushIrq(v)) THEN lrl
            ELSE [lrl EXCEPT ![v] = @ \cup {FlushIrq(v)}]

\* vgic_write_lr
vgic_write_lr(v, n, i) ==
  reg' = [reg EXCEPT ![v][n] = [virq |-> i, state |-> "pending"]]

\* FlushNoLr without vgic_maintenace_on
FlushNoLrSilent(v) ==
  /\ Flushing(v)
  /\ NeedsLr(FlushIrq(v)) /\ vgic_get_lr(v) = LR_INDEX_INVALID
  /\ irq' = [irq EXCEPT ![FlushIrq(v)].lr = LR_INDEX_INVALID]
  /\ pc' = [pc EXCEPT ![v] = "guest"]
  /\ op' = [op EXCEPT ![v] = NoOp(v)]
  /\ UNCHANGED <<pd, lrl, reg, uie, gic, up, raced>>

\* No list register is free: ask for the underflow interrupt and stop
FlushNoLr(v) ==
  /\ Flushing(v)
  /\ NeedsLr(FlushIrq(v)) /\ vgic_get_lr(v) = LR_INDEX_INVALID
  /\ irq' = [irq EXCEPT ![FlushIrq(v)].lr = LR_INDEX_INVALID]
  /\ uie' = [uie EXCEPT ![v] = TRUE]
  /\ pc' = [pc EXCEPT ![v] = "guest"]
  /\ op' = [op EXCEPT ![v] = NoOp(v)]
  /\ UNCHANGED <<pd, lrl, reg, gic, up, raced>>

\* A free list register takes the entry
FlushToLr(v) ==
  /\ Flushing(v)
  /\ NeedsLr(FlushIrq(v)) /\ vgic_get_lr(v) # LR_INDEX_INVALID
  /\ vgic_write_lr(v, vgic_get_lr(v), FlushIrq(v))
  /\ irq' = [irq EXCEPT ![FlushIrq(v)].lr = vgic_get_lr(v),
                        ![FlushIrq(v)].pdq = FALSE]
  /\ move_to_lr_lst(v)
  /\ UNCHANGED <<uie, gic, up, pc, raced>>

\* A software interrupt remembers a register: it is used again when empty,
\* made active and pending when active (vgic_update_lr looks at the state
\* only, not at the interrupt the register holds), and the entry stays
\* queued when the register is pending
FlushReuse(v) ==
  LET i == FlushIrq(v)
      n == irq[i].lr IN
  /\ Flushing(v)
  /\ ~NeedsLr(i)
  /\ \/ /\ reg[v][n].state = "active"
        /\ reg' = [reg EXCEPT ![v][n].state = "actpend"]
        /\ irq' = [irq EXCEPT ![i].pdq = FALSE]
        /\ move_to_lr_lst(v)
     \/ /\ reg[v][n].state = "invalid"
        /\ vgic_write_lr(v, n, i)
        /\ irq' = [irq EXCEPT ![i].pdq = FALSE]
        /\ move_to_lr_lst(v)
     \/ /\ reg[v][n].state \in {"pending", "actpend"}
        /\ UNCHANGED <<reg, irq, pd, lrl>>
        /\ LoopAt(v, op[v].nxt)
  /\ UNCHANGED <<uie, gic, up, pc, raced>>

\* The list is at its end: unlock and return to the guest
FlushEnd(v) ==
  /\ pc[v] = "flush" /\ op[v].irq = NoIrq
  /\ pc' = [pc EXCEPT ![v] = "guest"]
  /\ op' = [op EXCEPT ![v] = NoOp(v)]
  /\ UNCHANGED <<irq, pd, lrl, reg, uie, gic, up, raced>>

-----------------------------------------------------------------------------
(* The guest and the virtual cpu interface, outside the hypervisor's code. *)

\* The guest acknowledges a pending interrupt (read of ICC_IAR1_EL1)
GuestAck(v, n) ==
  /\ pc[v] = "guest"
  /\ reg[v][n].state = "pending"
  /\ reg' = [reg EXCEPT ![v][n].state = "active"]
  /\ UNCHANGED <<irq, pd, lrl, uie, gic, up, pc, op, raced>>

\* The guest completes an interrupt.  The register keeps its other fields;
\* the interface deactivates the physical interrupt of a hardware entry.
GuestEoi(v, n) ==
  /\ pc[v] = "guest"
  /\ reg[v][n].state \in {"active", "actpend"}
  /\ reg' = [reg EXCEPT ![v][n].state =
               IF @ = "active" THEN "invalid" ELSE "pending"]
  /\ gic_set_icactiver({reg[v][n].virq})
  /\ UNCHANGED <<irq, pd, lrl, uie, up, pc, op, raced>>

-----------------------------------------------------------------------------

HandleExit(v) ==
  \/ OtherExit(v)
  \/ \E i \in Spi : DeviceIrq(v, i)
  \/ \E i \in Ppi : PrivateIrq(v, i)
  \/ \E i \in SgiN \cup Sgi0 : GuestSgi(v, i)
  \/ \E i \in Irq : GuestEnable(v, i)
  \/ \E i \in CanDisable : GuestDisable(v, i) \/ GuestClearPending(v, i)
  \/ \E i \in CanPrioritise : GuestSetPriority(v, i)
  \/ \E i \in CanRoute, r \in Route :
       \/ MigrateRefused(v, i, r) \/ MigrateNow(v, i, r)
       \/ MigrateLater(v, i, r)   \/ MigrateQueued(v, i, r)
       \/ MigrateNothing(v, i, r)
  \/ hv_vcpu_irq_cleanup(v)

Next ==
  \E v \in Vcpu :
    \/ GuestExit(v)
    \/ HandleExit(v)
    \/ hv_vcpu_inject_virq(v)
    \/ insert_into_pdlist(v) \/ InsertLink(v)
    \/ ClearUnlink(v)
    \/ hv_poweroff_current(v)
    \/ hv_virq_to_lrs(v)
    \/ FlushNoLr(v) \/ FlushToLr(v) \/ FlushReuse(v) \/ FlushEnd(v)
    \/ \E n \in Lrs : GuestAck(v, n) \/ GuestEoi(v, n)

Spec == Init /\ [][Next]_vars

-----------------------------------------------------------------------------
(* Properties.                                                             *)

\* Every field has its type: a remembered register index is one in use or
\* LR_INDEX_INVALID (255 would index past the array if it were used), and a
\* cpu between the steps of hv_vcpu_inject_virq has an interrupt to inject.
TypeOK ==
  /\ irq \in [Irq -> IrqType]
  /\ pd \in [Vcpu -> Seq(Irq)]
  /\ lrl \in [Vcpu -> SUBSET Irq]
  /\ reg \in [Vcpu -> [Lrs -> LrType]]
  /\ uie \in [Vcpu -> BOOLEAN]
  /\ gic \in [Spi -> GicType]
  /\ up \in [Vcpu -> BOOLEAN]
  /\ pc \in [Vcpu -> PcState]
  /\ op \in [Vcpu -> OpType]
  /\ raced \in BOOLEAN
  /\ \A v \in Vcpu :
       pc[v] \in {"inject", "insert", "link", "clear"} => op[v].irq \in Irq

\* An interrupt is linked on at most one pending list, once; what is linked
\* has pdq set, unless hv_virq_cpending is about to unlink it; an interrupt is
\* on at most one list of used registers.
SingleNode ==
  \A v, w \in Vcpu : \A k \in 1 .. Len(pd[v]), l \in 1 .. Len(pd[w]) :
    pd[v][k] = pd[w][l] => v = w /\ k = l
Clearing(i) == \E v \in Vcpu : pc[v] = "clear" /\ op[v].irq = i
ListedPdq ==
  \A v \in Vcpu : \A k \in 1 .. Len(pd[v]) :
    irq[pd[v][k]].pdq \/ Clearing(pd[v][k])
LrListSingle == \A v, w \in Vcpu : lrl[v] \cap lrl[w] # {} => v = w

\* pd_node and lr_node are single nodes: a second insertion (two cpus that
\* inject the same interrupt, a migration that races an injection) would
\* cross two lists.  insert_into_pdlist and hv_migrate_virq must never let
\* that happen, and must never clear pdq of an interrupt that stays linked.
\* They do not, as long as no unlocked access has met a critical section of
\* its list: that race is the only way.
PdListConsistent == ~raced => SingleNode /\ ListedPdq /\ LrListSingle

Live(v, n, i) == reg[v][n].virq = i /\ reg[v][n].state # "invalid"
InLr(i)       == \E v \in Vcpu, n \in Lrs : Live(v, n, i)
InFlight(v, i) == pc[v] \in {"inject", "insert", "link"} /\ op[v].irq = i
Injected(i)   == \E v \in Vcpu : InFlight(v, i)

HeldOnce(i) ==
  /\ \A v, w \in Vcpu, n, m \in Lrs :
       Live(v, n, i) /\ Live(w, m, i) => v = w /\ n = m
  /\ \A v, w \in Vcpu : InFlight(v, i) /\ InFlight(w, i) => v = w
  /\ InLr(i) => ~InPdList(i) /\ ~Injected(i)
  /\ Injected(i) => ~InPdList(i)
  /\ InLr(i) \/ InPdList(i) \/ Injected(i) => gic[i].active

\* "does not support a virq to be handled by 2 vcpus" (hv_migrate_virq): a
\* device interrupt is in one place at a time - one list register, one
\* pending list or one cpu that is injecting it - and while it is anywhere
\* the physical interrupt stays active, so that the distributor cannot
\* deliver it a second time.  This too holds until an unlocked access meets a
\* critical section of its list.
DeviceExclusive == ~raced => \A i \in Spi : HeldOnce(i)

ArmedStep ==
  \A v \in Vcpu :
    ~raced /\ pc[v] = "flush" /\ pc'[v] = "guest"
      /\ (\E k \in 1 .. Len(pd'[v]) : Hw(pd'[v][k])) => uie'[v]

\* When the flush loop gives up and leaves hardware interrupts queued, the
\* underflow interrupt is armed, so that the guest traps as soon as list
\* registers drain ("there is no free lrs, turn on mit, then return").
LeftoverArmed == [][ArmedStep]_vars

\* What struct vgic_irq says of pdq: "already vcpu pending list, but not in
\* lr list" (or a cpu is just linking it).
PdqListed ==
  \A i \in Irq :
    irq[i].pdq =>
      InPdList(i) \/ \E v \in Vcpu : pc[v] = "link" /\ op[v].irq = i

\* What the state diagram of hv_vcpu_inject_virq says: from IRQ_QUEUE an
\* interrupt goes to the list registers, where it is pending.
FlushDelivers ==
  [][\A v \in Vcpu, i \in Irq :
       pc[v] = "flush" /\ Listed(i, v) /\ ~Listed(i, v)'
         => \E n \in Lrs : Live(v, n, i)']_vars

\* What the comment of hv_migrate_virq says: "does not support a virq to be
\* handled by 2 vcpus".
NotOnTwoVcpus ==
  \A i \in Spi, v, w \in Vcpu, n, m \in Lrs :
    Live(v, n, i) /\ Live(w, m, i) => v = w

\* What vgic_write_lr says of its argument: "virq is not in lrs yes".  No
\* interrupt is live in two list registers of the same vcpu.
OneRegister ==
  \A v \in Vcpu, i \in Irq, n, m \in Lrs :
    Live(v, n, i) /\ Live(v, m, i) => n = m
=============================================================================
