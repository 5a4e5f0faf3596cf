# Verification of the lk_hv hypervisor

lk_hv is a small type-1 hypervisor for ARMv8-A built on the LK kernel. This
directory holds TLA+ models of its core, the TLC configurations that check
them, and TLAPS proofs. Paths below are relative to `src/`.

Run a model with `tlc -config <cfg> <module>`, a proof with `tlapm <module>.tla`.
`PROJECT.json` lists the runs, the source lines of every definition, the mutants
that show each property can fail, the findings, the hazards and the theorems.

## 1. Inventory

The program's own logic is under `hv/` (and `hv/arch/armv8a/`), about 5,600
lines. It runs on LK's kernel (`kernel/`), whose threads, wait queues, locks and
timers it uses, talks between cpus through `lib/cbuf/cbuf.c`, and loads its
guests through LK's file systems, of which the one written for this kernel is
`lib/fs/spifs`.

| Component | State | Operations | Interacts with | Hard part | What makes it correct |
|---|---|---|---|---|---|
| Virtual interrupt controller (`hv_vgic.c`, `vgic_gic.c`, `vgic_mmio.c`, `hv_irq.c`) | `struct vgic_irq` per interrupt, pending list and list-register list per vcpu, list registers, underflow bit | inject, insert, flush, sync, enable, priority, route, migrate, clean up on power-off | traps and interrupts of every cpu, physical GIC | many cpus touch the same interrupt under the lock of only one vcpu, or (`hv_virq_cpending`) under none; the guest changes list registers without a trap | an interrupt is in one place; nothing queued is forgotten; flush delivers; leftovers are announced |
| Event channel (`hv_event.c`) | a circular buffer per cpu, a pending IPI | send, handle | vcpu life cycle | several senders, a level-less interrupt, a full buffer | every interrupt finds a record; records stay whole; every event is handled |
| Circular buffer (`lib/cbuf/cbuf.c`, `kernel/event.c`) | head, tail, cells, an event | write, read, peek, reset | event channel, console | wraparound, a wait outside the lock | it is an atomic bounded queue; no reader sleeps on data |
| vcpu life cycle, PSCI (`hv_vcpu.c`, `hv_psci_emulation.c`) | status, thread, is_inited, current vcpu per cpu | start, enter, power off (here or elsewhere), suspend | scheduler, event channel, VM | power-off takes no lock; each caller has to act on `VCPU_RESCHED_EXIT` | what is off does not run; `current_vcpu()` is the caller |
| Thread scheduler (`kernel/thread.c`, `kernel/mp.c`) | run queue, thread states, current thread | resched, preempt, resume, block, exit | vcpu life cycle | resumes come from other cpus, stops from interrupts | a thread is queued once, exactly when ready; its assertions hold |
| VM life cycle (`hv_vm.c`) | is_load, the machine's resources | start, init, shut down | vcpu life cycle, guest memory | shutdown is a loop over vcpus of several cpus; init fails halfway | shutdown reaches all; memory outlives its users; a failed start gives everything back |
| Guest memory (`hv_mem.c`, `hv_image.c`, `kernel/vm/pmm.c`) | segments, free frames, loaded contents | allocate, map, load, unmap, free | stage-2 table, file system | failure halfway, a second life over the tables of the first, other machines | a machine maps its own frames; no frame is lost; loading stays inside |
| Stage-2 table (`hv_arch_mem.c`) | page table, need_flush, TLB | map, unmap, walk, flush | guest memory, other cpus' walks | blocks over pages, break-before-make, deferred flush, no table page | a call changes exactly its range; no stale translation; the walk agrees with the hardware's |
| Emulated devices (`hv_mmio.c`) | table of handlers | register, look up, dispatch | traps | overlapping ranges, a restarted machine | an address finds the handler of the present life |
| Flash file system (`lib/fs/spifs/spifs.c`, `lib/fs/fs.c`) | two tables of contents on the device, list of files, directory handles | format, mount, create, remove, write, truncate, scan | block device, image loading | power lost or a request failing between any two pages | a mount finds one whole committed list; committed data survives |
| Kernel synchronisation (`kernel/mutex.c`, `semaphore.c`, `event.c`, `timer.c`, wait queues of `thread.c`) | counts, holder, wait list, timer queues | acquire, release, wait, post, signal, destroy, time out | every driver, `cbuf` | a timeout races a wake-up; a timer runs on another cpu than the one that cancels it | handed over once; nobody waits for what is free |
| Exceptions, virtual timer, boot, configuration | registers, parsed tables | - | - | - | sequential or register-level code |

Everything below `hv/` was surveyed; vendored libraries, other platforms, the
unmodified rest of LK and the tests are left aside. `hv_dev.c` is not built.

The hazards, one by one with their lines, are in `PROJECT.json`. Further ones
that no property covers and that list has no room for: `hv_vm_init_virq` accepts
index `spi_num` (`hv_vgic.c:126`); a vcpu that is started again reinitialises its
list heads while SPIs may be linked on them (`hv_vgic.c:162`); SYSTEM_RESET ends
as a power-off because `lkhv_shutdown_vm` does not return
(`hv_psci_emulation.c:140`); CPU_ON writes the target's entry point before any
lock (`:101`); the standby CPU_SUSPEND calls `thread_block` without its lock
(`hv_vcpu.c:225`); after a failed start the vcpu stays VCPU_READY and the machine
cannot be started again (`hv_vcpu.c:112`); without memory for the program headers
`vm_load_elf` returns NO_ERROR (`hv_image.c:108`); `spifs_remove` frees a file
that may be open (`spifs.c:862`); `fs_unmount` twice takes the reference of an
open handle (`fs.c:189`); a capacity rounded up to 2^32 is 0 (`spifs.c:749`).

## 2. Modules

| Module | Models | Used by |
|---|---|---|
| `Vgic` | virtual interrupt controller of one VM | `MCVgic`, `VgicProofs` |
| `Cbuf` | circular buffer, pass by pass | `MCCbuf`, `CbufProofs` |
| `Fifo` | what the buffer promises: an atomic bounded queue with blocking reads | refined by `Cbuf` |
| `HvEvent` | event channel over an abstract buffer | `MCHvEvent`, `HvEventProofs` |
| `VcpuLife` | vcpus, PSCI, VM start and shutdown, scheduler | `MCVcpuLife`, `VcpuLifeProofs` |
| `GuestMem` | frames, tables, translation buffers, image and device ranges of machines over their lives | `MCGuestMem`, `GuestMemProofs` |
| `Stage2` | one machine's stage-2 table, entry by entry | `MCStage2`, `Stage2Proofs` |
| `Spifs` | flash file system with failing requests and loss of power | `MCSpifs`, `SpifsProofs` |
| `LkSync` | wait queue, timers, mutex, semaphore, event | `MCLkSync`, `LkSyncProofs` |
| `VgicProofs`, `CbufProofs`, `HvEventProofs`, `VcpuLifeProofs`, `GuestMemProofs`, `LkSyncProofs`, `SpifsProofs`, `Stage2Proofs` | theorems | - |

`Fifo` is refined by `Cbuf` (`Cbuf!Abstract`), which lets `HvEvent` use a
sequence for the buffer, which in turn lets `VcpuLife` use a queue of power-off
events with a pending bit. `GuestMem` composes allocator, tables, loader and
device ranges of several machines and takes a call of `arch_mem_map` for one
step on the level-2 entries; `Stage2` justifies that (`CallExact`) for addresses
below the end of the first root page. `VcpuLife`
knows of memory only whether it is there.

### Vgic

`irq`, `pd`, `lrl`, `reg`, `uie` are `struct vgic_irq`, `pd_head`, `lr_head`,
the list registers and ICH_HCR_EL2.UIE; `gic` is the part of the physical
distributor the hypervisor relies on (active, affinity, enabled). A cpu is in
its guest (`guest`), in the hypervisor (`hyp`), in `hv_vcpu_inject_virq` before
its tests (`inject`) or after them (`insert`), in `insert_into_pdlist` between
setting `pdq` and linking (`link`), in `hv_virq_cpending` between clearing `pdq`
and unlinking (`clear`), in the power-off cleanup (`clean`), on its way back
(`ret`), or in the flush loop (`flush`) at entry `op.irq` with the next one saved
in `op.nxt`.

Locking is as in the code. The sections that hold a vcpu's `pd_lock` (exit,
insertion, cleanup, flush, migration) exclude each other for one vcpu.
`hv_virq_cpending` takes no lock, and `hv_migrate_virq` the lock of the vcpu the
interrupt is routed to, which need not be the one whose list it is on: their
steps fall between the steps of other cpus' sections. `raced` notes when such an
access has met a section that is at work on the same list or interrupt. After
that a linked entry may have `pdq` clear, one SPI may fill several registers, and
the flush loop may follow its saved pointer into another list, whose head it
takes for an interrupt (`Astray`; that cpu stops there).

Abstractions:

- a vcpu is pinned to a cpu of its own, so it stands for the cpu too; moving a
  vcpu and saving list registers across a switch are not modelled;
- the bits `pending` and `active` are copies that only a register read sees;
- one `list_delete`, one `list_add` and the walk that finds an entry's place are
  indivisible: pointers half written by two cpus are not shown;
- the cleanup's three critical sections, all on the cpu that powers off, are one;
- `lr_nr` is the ListRegs field, one less than the number of registers, so the
  last register is never used: `LrNum` is that number;
- a write to GICD_ISPENDR of a mapped SPI makes the physical interrupt pending,
  which the model allows at any time anyway; unmapped SPIs and register reads
  are left out;
- a private interrupt belongs to the redistributor of its `Owner`, and every vcpu
  may write to that one; its state in the physical redistributor is left out, so
  a PPI may fire at any time;
- a vcpu that has been powered off stays off.

### Cbuf, Fifo, HvEvent

`Cbuf` has one step per pass of `cbuf_write` and `cbuf_read` under the spin lock
and one for taking and returning it with the event call made just before it.
The mapping to `Fifo` hides what the call in progress has copied so far.
`HvEvent` writes a record (in `RecLen` cells), then raises the interrupt; the
handler reads one record per interrupt. The interrupt is pending or not; a
record that does not fit is cut off and announced by nobody, as in
`hv_send_event`.

### VcpuLife

`status`, `thread`, `inited` are fields of `struct lk_vcpu` and its thread; `at`
says whether a thread is at its entry, has loaded the machine, or has been in
its guest; `rq`, `cur`, `here` are the run queue (by pinned cpu), the current
thread and `vcpu_data[cpu].vcpu`; `evq`, `ipi`, `poke` the events and the two
IPIs; `mem` whether the machine has memory. A trap runs with interrupts masked:
a cpu with `pc # "run"` takes no interrupt. A failed `DEBUG_ASSERT`, a write to
a stack in use and a use of the null `mem_seg` end the behaviour with their name
in `fault`.

`usage` fixes how the machine is used: which PSCI calls each vcpu makes, and
whether the console waits with `vm_start` until the machine is at rest. It is
chosen in the initial state, so one run covers several. `Orderly` is the use the
code is written for: calls from the boot vcpu only (CPU_ON, SYSTEM_OFF,
SYSTEM_RESET), started at rest.

Abstractions:

- vcpus are pinned; all other threads are one `Host` thread per cpu that runs
  when no vcpu thread is ready. Priorities and unpinned threads are left out;
- a send of an event is one step (its steps are in `HvEvent`), and the buffer
  does not overflow here;
- the locked section of `hv_vcpu_start` is one step: of what it touches,
  power-off writes only `status` (before) and the thread's state (under
  `thread_lock`), and both orders are represented;
- the console's interrupts wait between its start and its resume;
- the entry point and argument of CPU_ON and the contents of memory are left
  out; events other than power-off are never sent by the code.

### GuestMem

Memory is counted in 2M blocks: `free` is the allocator's list, `seg` a machine's
`mem_seg`, `blk` its level-2 entries, `node` its table pages, `tlb` the
translations any cpu caches (the flushes are broadcast), `vttbr` whose tables
each cpu walks. `pc` follows `lkhv_vm_init` in the thread of the primary vcpu
through every failure exit, then the guest's life, `lkhv_shutdown_vm` and a new
start. What a machine leaves behind stays: its table, `is_load`, its vgic. The
walk of the freed `mem_seg` on the failure path of `lkhv_alloc_mem` reads what was
there or is a `fault`.

`tlb_flush_ipa` does what the instruction does with the operand it is given: it
acts for the machine `vttbr_el2` names on that cpu, and on the block the raw
address names, because TLBI IPAS2E1IS takes the address from bit 12 on and the
code does not shift it (`hv_arch_mem.h:125`). `IpaStart` is where a machine's ram
begins, and with it what its flushes name (`Named`). `vmalls12e1is` takes no
address and drops everything of one machine.

Abstractions: a machine is shut down with its vcpus off (the other order is the
run `vcpu_mem`); fragmentation below 2M is left out; of an image the blocks
each segment covers matter and of the entry point the block it lies in and
whether it is the block's first byte. Lengths and addresses are whole blocks, as
the machines' configurations have them. The code does not insist on it:
`IS_PAGE_ALIGN` (`hv_arch_mem.c:28`) is true of every value, so an unaligned length
passes and the last round of the loop maps a whole page or block beyond it, against
the comments at `hv_arch_mem.c:302` and `:378`.

### Stage2

`table` maps table pages to their entries, three levels of `PerTable` entries
(512 in the code, 2 in the run, any number in the proofs); `FirstTable` is where
table pages begin, above the guest's frames. A call of `arch_mem_map` or
`arch_mem_unmap` is a loop of `Round` (with `pte_get`) and the two or three
stores of `mem_pte_set`, between which another cpu may walk the table and cache
one translation (`watched`, whichever it is).

The root is at level 1 and has `RootNum` pages (1, 2 or 8 in the code, for
`root_order` 0, 1, 3). `init_st2_root` allocates all of them and clears one
(`hv_arch_mem.c:62`, `:86`): from the first call on the others hold `Leftover`,
whatever was in those frames. The calls modelled stay below the end of the first
root page (512G), where every configuration of this repository has its ram. A root
at level 0 (machines of 44 and 48 bits) is not modelled; permissions are never set
by the code.

`tlb_flush_ipa` drops the page the operand names: `ipa * PageLen` as a page number,
of which the operand holds what is below `OperandLen`. It is the page that was
changed only at address 0 and where the two happen to meet. `replaced` keeps the
pages whose valid translation was replaced by another valid one, the case in which
that matters. Addresses and lengths are whole pages (see `GuestMem` on
`IS_PAGE_ALIGN`).

### Spifs

A page write is two steps, erase and program, and either may be the last one
before power is lost or the device fails the request. A table of contents is
`TocPages` pages with the generation in the first and the checksum in the last;
the checksum is the value of what it covers, so a table with pages of two
commits has none that fits unless the contents agree. `hist` is history: the
list last committed, the lists attempted since, what the cells should hold and
which pages are in doubt. The calls hold `spifs->lock` throughout, so they do not
interleave; reading and file handles are left out.

### LkSync

What a thread does under `thread_lock` is one step, up to where it blocks; the
rest of the call is part of the step that dispatches it again. The timer
interrupt takes a timer off its queue, reads its callback, and enters the
handler, in three steps as the locks allow. Which ready thread a cpu takes is
left open, which covers every assignment of priorities. A timeout of zero changes
nothing and is left out. The kind of object, the cpus and the threads that use
timeouts are chosen in the initial state.

## 3. Runs

| Run | Instance | Result |
|---|---|---|
| `vgic_device` | 2 vcpus, an SPI, a PPI of the second vcpu that fires at any time, 2 list registers; disable, clear, priority and route writes | `TypeOK`, `PdListConsistent`, `DeviceExclusive`, `LeftoverArmed` hold, up to the first race |
| `vgic_sgi` | 2 vcpus, SGI 0 and a PPI of the second, 2 registers, one vcpu may power off; explored past races | `PdListConsistent` holds |
| `cbuf` | 1 writer, 2 readers, 4 cells | `ImplementsFifo`, `WakeupExact`, `PeekExact`, `TwoPasses` hold |
| `hv_event` | 3 senders, records of 3 cells, room for 7 | `InterruptHasRecord`, `WholeRecords` hold |
| `vcpu_life` | 3 vcpus on 2 cpus, three uses, 2 starts | `NoFault`, `ThreadConsistent`, `OffMeansOff`, `ShutdownReaches` hold in orderly use, `QueueSound`, `CurrentVcpuExact`, `TypeOK` in all |
| `guest_mem` | 2 machines of 2 blocks sharing a cpu, one with a second cpu, one entered at the first byte of its second block; 1, 3 or 4 frames; 2 starts; 1 failure with 1 or 3 frames | `OwnFrames`, `FramesAccounted`, `UnmappedFlushed`, `LoadInside`, `FdtApart`, `DistCurrent`, `TypeOK` hold |
| `stage2` | 8 guest pages, a root of 2 pages with an entry left over in the second, 5 table pages, 3 calls out of 36 | `CallExact`, `TlbClean`, `TableTree`, `WalkAgrees`, `TypeOK` hold |
| `spifs` | 3 names, room for 2 files, 3 data pages of 2 cells, tables of 2 pages; 5 calls, 1 failing request, 1 loss of power | `CrashAtomic`, `DataIntact`, `Durable`, `DirScan`, `TypeOK` hold |
| `lk_sync` | 3 threads, 1 or 2 cpus, 4 kinds of object, with and without a timeout | `GrantExact`, `QueuesExact`, `OneCpuTimers`, `MutexServed` hold |
| `vgic_lost` | equal priorities | `PdqListed` violated: the interrupt is marked queued and linked nowhere |
| `vcpu_mem` | SYSTEM_OFF with a vcpu on another cpu | `GuestHasMemory` violated |
| `lk_mutex` | as `lk_sync` | `MutexAvailable` violated: a timeout races a release, and a thread waits for a mutex nobody holds |

The violated properties quote a comment, a diagram or an assertion of the code;
the findings in `PROJECT.json` say what happens and where.

`vgic_device` has `CONSTRAINT BeforeRace`: its properties claim nothing of what
follows a race (`~raced => ...`), so TLC does not go on from there. `vgic_sgi`, and
the two configurations below that show a race, do. `VgicTwoSpis.cfg`, not among
the runs either, checks `TypeOK`, `PdListConsistent` and `DeviceExclusive` with two
SPIs and one register, and they hold.

`FdtApart` says exactly where the device tree is apart from the entry block. In a
ram of one block, or of two with the entry at the first byte of the second, it is
written over that block (`Crowded`): `calc_fdt_pos` (`hv_image.c:139`) and
`vm_load_fdt` neither check for that nor refuse it, and nothing in the
repository says they would. The property has the tree there in these cases and
nowhere near the entry in all others.

Further counterexamples, with a configuration each that is not among the runs of
`PROJECT.json`:

| Configuration | Module | Shows |
|---|---|---|
| `VgicStaleLr.cfg` | `MCVgic` | `FlushDelivers` violated: `hv_sync_irq_from_lrs` leaves `lr = 0` behind (`hv_vgic.c:355`, `372`), and the next flush of an SGI makes whatever is active in register 0 pending again; the diagram at `hv_vgic.c:569` has it inserted into the registers |
| `VgicTwoVcpus.cfg` | `MCVgic` | `NotOnTwoVcpus` violated: a route write reroutes an interrupt that is in a register, and the cleanup of another vcpu deactivates it; `hv_vgic.c:695` rules two vcpus out |
| `VgicClear.cfg` | `MCVgic` | `ListedPdq` violated: `hv_virq_cpending` takes no lock, falls between `pdq = 1` and the link (`hv_vgic.c:531`, `536`, `542`), and a linked entry is left with `pdq` clear; `hv_vgic.h:45` says what `pdq` means |
| `VgicRoute.cfg` | `MCVgic` | `OneRegister` violated: `hv_migrate_virq` locks the list of the vcpu the interrupt is routed to (`hv_vgic.c:716`), but unlinks it from whichever list it is on; the flush of that list goes on with it, the second injection is flushed too, and it fills two registers; `vgic_gic.c:243` says it is in none yet |
| `VgicTwoLrs.cfg` | `MCVgic` | `OneRegister` violated: SGIs 1 to 15 take the hardware path of the flush, which never looks for the register they are in |
| `HvEventLost.cfg` | `MCHvEvent` | `Drained` violated: two events before the interrupt is taken raise it once, and the handler reads one record (`hv_event.c:98`) |
| `VcpuLifeOff.cfg` | `MCVcpuLife` | `PreemptAssert` violated: `psci_vcpu_off` ignores VCPU_RESCHED_EXIT, so the assertion at `thread.c:692` fails at the next preemption |
| `Stage2Tlb.cfg` | `MCStage2` | `FlushedAtOnce` violated: `tlb_flush_ipa` passes the address itself where TLBI IPAS2E1IS takes IPA[47:12] (`hv_arch_mem.h:125`), so the replaced translation stays, against "others cases, flush at once" (`hv_arch_mem.c:247`); `vmalle1is`, which follows, does not drop what is cached of stage 2 alone |
| `Stage2Root.cfg` | `MCStage2` | `NothingAbove` violated: of the `1 << root_order` pages of the root `init_st2_root` clears one (`hv_arch_mem.c:86`), and the hardware walks what the others held before |
| `GuestTlb.cfg` | `MCGuestMem` | `TlbAgrees` violated: a restarted machine's entries are replaced while `vttbr_el2` names another machine, so the flush acts on that one and a translation to a frame the machine no longer holds stays; `hv_arch_mem.h:100` says the flushes apply to the current vmid. The machines' ram begins at address 0, where the operand is right |
| `LkTimeout.cfg` | `MCLkSync` | `InfiniteWaits` violated on two cpus: `timer_tick` is past `timer_lock` when the woken thread cancels the timer and waits again without a timeout, and the handler times that wait out (`thread.c:1116` has it wait indefinitely); or the callback is already null |

Why the bounds are enough. Two list registers are what it takes to see one SPI
in two; a PPI that fires at any time fills them all, so that they run out and
the list grows beyond one entry; two cpus race for the SPI. Three vcpus are
needed to power off one while another holds an interrupt a third still has. Four
cells wrap within two writes. A buffer of seven cells takes two records and
tears the third. Two vcpus on one cpu make them wait for each other, the third
is powered off remotely; two starts cover a restart. Two starts of one machine
with another one between them give its frames to somebody else; one frame is too
few for its two blocks, three are enough for one machine and leave the other
short of its last block, and four hold both (there nothing fails,
`FailuresWhenShort`); its blocks lie under two level-2 tables, so that one can
be there and the other not, and on both sides of 64G, where the addresses a
flush can name begin again, so that one is named rightly by chance and the other
not. Of two blocks, and entered at the first byte of the first and of the
second, the machines are on either side of the boundary that `calc_fdt_pos`
tests. Three calls map, replace and unmap, with pages, blocks and ranges across
a block; five table pages are one too few for the largest of them; a root of two
pages is enough to have one uncleared, and four bytes in a page with operands
below 32 give each flush a wrong page, a right one (page 0) or none. Five calls
fill the table of contents, remove, create in the hole and write across pages,
each interrupted at any page; two pages per table are what it takes to tear one.
Three threads are the holder, one that times out and one that comes too late.

Fairness. `vcpu_life` and `lk_sync` check a liveness property each. In
`vcpu_life`, hypervisor code is weakly
fair: a trap or handler runs with interrupts masked and loops over a bounded
number of vcpus. The interrupt of the event channel is strongly fair: a guest
cannot mask an interrupt that is routed to EL2, so it is taken when the cpu
leaves the hypervisor, but a guest that keeps calling may disable it again and
again in between. Guests and the console are not fair. `ShutdownReaches` is
checked with one vcpu on the other cpu: with two there, the second power-off
event is the lost one of `HvEventLost.cfg`.

In `lk_sync`, `MutexServed` assumes that a ready thread is dispatched if it can
be again and again (the scheduler runs threads of one priority in turn; threads
of a higher priority that never block are excluded), that a running thread is
preempted in the end (its quantum), and that a holder that runs again and again
goes on to release (a critical section that ends). The timer interrupt and the
threads' other calls are not fair.

Deadlock is not checked where the system may stop: `vcpu_life` and the runs of
`MCGuestMem` when the starts are used up or the machine is beyond a start, those
of `MCStage2` and `spifs` when their calls are, `lk_sync` when all threads wait,
`VgicRoute.cfg` when every cpu's flush loop has gone astray.

## 4. Proofs

Each theorem holds for all values of the constants that satisfy the module's
ASSUME, whose conditions TLC evaluates on the instances above. "Assumes" names
what a theorem needs beyond that.

| Theorem | States | Assumes |
|---|---|---|
| `VgicProofs!TypeCorrect` | `[]TypeOK` | - |
| `VgicProofs!ListsCorrect` | `[]PdListConsistent` | - |
| `VgicProofs!DeviceInterruptExclusive` | `[]DeviceExclusive` | no SGI 0, no power-off |
| `VgicProofs!FlushArmed` | `LeftoverArmed` | - |
| `CbufProofs!FifoCorrect` | `ImplementsFifo`, the refinement of `Fifo` | - |
| `CbufProofs!WakeupCorrect` | `[]WakeupExact` | - |
| `CbufProofs!PeekCorrect` | `[]PeekExact` | - |
| `CbufProofs!TwoPassesCorrect` | `[]TwoPasses` | - |
| `HvEventProofs!RecordCorrect` | `[]InterruptHasRecord` | - |
| `HvEventProofs!WholeCorrect` | `[]WholeRecords` | - |
| `VcpuLifeProofs!TypeCorrect` | `[]TypeOK` | - |
| `VcpuLifeProofs!QueuesCorrect` | `[]QueueSound` | - |
| `VcpuLifeProofs!CurrentVcpuCorrect` | `[]CurrentVcpuExact` | - |
| `VcpuLifeProofs!NoFaultCorrect` | `[]NoFault` | - |
| `VcpuLifeProofs!ThreadsCorrect` | `[]ThreadConsistent` | - |
| `VcpuLifeProofs!OffCorrect` | `[]OffMeansOff` | - |
| `GuestMemProofs!TypeCorrect` | `[]TypeOK` | - |
| `GuestMemProofs!FramesCorrect` | `[]FramesAccounted` | - |
| `GuestMemProofs!OwnFramesCorrect` | `[]OwnFrames` | - |
| `GuestMemProofs!UnmappedCorrect` | `[]UnmappedFlushed` | - |
| `GuestMemProofs!DistCorrect` | `[]DistCurrent` | - |
| `GuestMemProofs!LoadCorrect` | `LoadInside`, an action property | - |
| `GuestMemProofs!FdtCorrect` | `[]FdtApart` | - |
| `LkSyncProofs!GrantCorrect` | `[]GrantExact` | - |
| `LkSyncProofs!QueuesCorrect` | `[]QueuesExact` | - |
| `LkSyncProofs!OneCpuCorrect` | `[]OneCpuTimers` | - |
| `SpifsProofs!TypeCorrect` | `[]TypeOK` | - |
| `SpifsProofs!CrashCorrect` | `[]CrashAtomic` | - |
| `SpifsProofs!DataCorrect` | `[]DataIntact` | - |
| `SpifsProofs!DurableCorrect` | `[]Durable` | - |
| `SpifsProofs!DirCorrect` | `[]DirScan` | - |
| `Stage2Proofs!TypeCorrect` | `[]TypeOK` | - |
| `Stage2Proofs!CallCorrect` | `[]CallExact` | - |
| `Stage2Proofs!TlbCorrect` | `[]TlbClean` | - |
| `Stage2Proofs!TreeCorrect` | `[]TableTree` | - |
| `Stage2Proofs!WalkCorrect` | `[]WalkAgrees` | - |

**Vgic.** The invariants of the lists and of device interrupts are of the form
`~raced => ...`; that is also what the theorems say, and `VgicClear.cfg` and
`VgicRoute.cfg` show that it cannot be dropped. `ListsCorrect` is inductive as
`ListInv`: with `SingleNode`, `ListedPdq` and `LrListSingle` it says that sections
on one list exclude each other and are not at work on an interrupt that is linked
elsewhere (`Sections`), and that a flush loop's entry and the one it has saved are
neighbours on its own list (`Flushes`). `hv_vcpu_inject_virq` tests `pdq` in one
critical section and inserts in another, but the insertion tests the links again.
Without a race the only entry with `pdq` clear is one that is being cleared; the
case of `hv_migrate_virq` for which the code has no branch (`MigrateNothing`) is
then reachable all the same.
`DeviceInterruptExclusive` adds `NoActPend`: no register of a device interrupt is
active-and-pending, so the completion by the guest both frees the register and
deactivates the interrupt. The two assumptions are needed: with SGI 0 the stale
index of `VgicStaleLr.cfg` rewrites a register of a device interrupt, and the
cleanup on power-off is `VgicTwoVcpus.cfg`. `FlushArmed` needs that the entries
the flush loop has passed over are software interrupts or that the underflow bit
is already set (`Passed`).

**Cbuf.** The invariant says what a call in progress has done (`Callers`,
`Written`: the newest cells are the ones the writer with the lock has copied),
why there is no third pass (`Passes`: the first one ends at the end of the buffer
unless the call is finished), and what the event says while a call has the lock
(`Wakeup`: it still shows whether there was data when the call began). The
refinement maps the contents between `tail` and `head`, less what the writer
with the lock has copied and with what the reader with the lock has taken, to
the queue of `Fifo`: a pass is a stutter, and giving the lock back is the call
taking effect. Of the size being a power of two the proofs use only that it is
more than one; the arithmetic of the pointers modulo the size is in the lemmas
at the head of the module.

**HvEvent.** `InterruptHasRecord` and `WholeRecords` are inductive together with
the types. The first counts: the cells in the buffer are enough for the
interrupts that are pending, being handled or still to be raised, and a step
moves one from one place to the next or drops one (two raised interrupts are one
pending one).

**VcpuLife.** The first three theorems share one invariant, `IInv`, and are
stated without `Orderly`: they survive every use. It adds that a suspended
thread is nobody's current thread (else `thread_resume` would queue a running
thread), that a vcpu that has been in its guest is initialised (else
`vcpu_switch_to` would do nothing), and that a power-off in its second half is on
the thread's own cpu and was not called by the console. `TypeOK` by itself is not
inductive: the vcpu of a power-off is taken from `current_vcpu()`.

The other three hold in orderly use and rest on `OInv` (checked by TLC as
`Orderly => OInv` before it was proved). It says why a start and a power-off of
one vcpu do not overlap although `hv_vcpu_poweroff` takes no lock: whoever starts
a vcpu is the boot vcpu's trap, or a console while everything is off
(`StartingAt`); whoever powers one off is the boot vcpu's trap, or the event
handler of another cpu (`StoppingAt`); and such an event exists only while the
boot vcpu shuts the machine down or after it has (`EventsAt`). So while a vcpu is
started no event is under way, its thread has been switched away from, and
`thread_reset` writes a stack nobody runs on (`StartStack`). `StatusThread` and
`ThreadsSound` tie the status of a vcpu to its thread's state, and `HasMemory`
is what keeps `lkhv_vm_free_mem` from its null pointer. The number of starts and
the uses of the run are bounds of the model checker only.

**GuestMem.** `IInv` says how many frames a machine holds at each place in its
life (`SegFits`), that its table has entries for its own ram only (`TableInRam`),
and that from `lkhv_map_ram` on the table and the distributor are the present life's
(`TableMaps`, `DistFresh`). `FramesAccounted` over several machines needs the
first: a failure exit gives back exactly what was allocated. `UnmappedCorrect`
rests on the flush of the whole machine, which is right, and on no flush by
address. `FdtCorrect` adds what is in the frames (`LoadState`, `NothingLoaded`,
`FdtPlaced`) and where `calc_fdt_pos` puts the tree for a ram of any size and an
entry anywhere in it (`FdtPlace`).

**LkSync.** `IInv` has the scheduler's half (which thread is where, `Listed` for
the wait list by its positions, `TimersOwned` for the timers) and the object's:
`MutexCount`, `SemCount` and `AutoCount` say what the counters count, in terms of
the threads inside `wait_queue_block`. `GrantExact` is not inductive without
them: a release decides by the count whether to wake somebody. `OneCpuTimers`
needs that what `timer_tick` has taken off its queue belongs to a wait with a
timeout and still has its callback.

**Spifs.** One invariant, `IInv`, carries all five theorems; it was checked by TLC
first. For the tables of contents it says: the one memory was read from, or that
was committed last, is good, has memory's generation and is never the one being
written (`Kept`, in `Device`); the front one has the odd generations and the back
one the even, so two good ones are never equally new (`OwnGen`); whatever is in
the last page of the other one is older, or its list is one of the attempts since
(`Behind`); and the pages a commit has written so far are those of the list in
memory (`Written`). A table that reads as good while half of it is from the
commit before is then the complete table of that earlier attempt, whose list is
the one its checksum covers. For the data it says that the lists a mount may find
lie, but for the pages in doubt, in the same places (`Places`, with `Remnants` for
lists that only a later commit could complete), that what is queued for a page is
what is wanted there (`DueExact`), and that every other page of a file already
holds it (`DataExact`). `Durable` needs `NewestInMemory`, which a failed request
ends until the next commit. While the file system is mounted, `CrashAtomic` and
`DataIntact` follow from the rest (`CoreGives`); while it is not, they are what
is left of it, and `MountInv` recovers the rest from them. The page arithmetic of
`spifs_write` (a leading part, whole pages, a trailing part) is in `RangeSplit`
and `WritePagesFacts`: the images cover exactly the range. The bounds on calls,
failed requests and losses of power are arbitrary numbers.

**Stage2.** One invariant, `IInv`, which TLC checked first, carries all five
theorems. `CallExact` speaks of translations, and what a store to one entry does
to those of all pages depends on the shape of the tables: `Tree` says that every
table page has one level, the root alone the first, that an entry is one its
level allows, and that no two entries lead to one table. A table that a block
replaced keeps its level and its entries; nothing leads to it any more. From
this, `StoreBlock` and `StorePage` say that a store to the level-2 or level-3
entry of an address changes the translations of its block or page and of no
other, and `PteGet` that the tables `pte_get` adds change none. `AtEntry` and
`Progress` tie the store under way to what is left of the call; `Exact` and
`Cached` strengthen `CallExact` and `TlbClean` to the states between the two
stores of `mem_pte_set`. `replaced` makes `TlbClean` a claim that does not rest
on what `tlb_flush_ipa` names: an invalid entry is cached by nobody, a page
whose valid entry another valid one replaced is in `replaced` until the flush of
the whole machine, and the rest hold whichever page is flushed. The arithmetic
(an address is its three indices, a block is the pages with two of them in
common, a length of whole blocks) is in the lemmas at the head of the module.
The theorems hold for tables of any length, a root of any number of pages with
anything left over in all but the first, any number of table pages, and calls
for any ranges below the end of the first root page and any frames below the
tables; that no allocator hands a table page to a guest is the assumption
`Stage2` makes.

Only model-checked: the two liveness properties, `ShutdownReaches` and
`MutexServed`; the prover does not handle fairness. Every safety property of a
passing run has a theorem.

## 5. Not modelled

- Exception decoding, timer registers, boot and device-tree parsing: register
  level or sequential code with no protocol. The parsing of ELF headers likewise;
  where the segments go is in `GuestMem`.
- The lookup of emulated devices and its red-black tree (Linux's), which
  nothing changes after a machine's start; register reads of the virtual
  interrupt controller; saving and loading its registers across a switch.
- The physical GIC driver, except for the state `Vgic` needs.
- Of LK: periodic timers, sleeping, joining, ports, heaps, the network stack, the
  other file systems, drivers, and all other architectures and platforms. The
  hypervisor neither changes nor, but for a console and a block device, uses
  them. They are most of the repository's 113,000 lines; the models here cover
  the hypervisor's own logic and the parts of the kernel and libraries that
  carry a protocol it relies on.

## 6. Plan

1. Done: all modules above; the theorems about `Vgic`, `Cbuf` with the refinement
   of `Fifo`, `HvEvent`, `VcpuLife`, `GuestMem`, `LkSync`, `Spifs` and `Stage2`.
2. Next: `Stage2` as a refinement of the one-step map of `GuestMem`.
3. `Vgic`: restart of a vcpu, and the switch of two vcpus on one cpu.
4. `VcpuLife` over `HvEvent`, with several vcpus on the remote cpu.
