------------------------------ MODULE GuestMem ------------------------------
(***************************************************************************)
(* The memory of virtual machines over their lives: the physical blocks    *)
(* they hold (hv/hv_mem.c), the stage-2 tables that map them and the       *)
(* translations the cpus cache (hv/arch/armv8a/hv_arch_mem.c), the image   *)
(* loaded into them (hv/hv_image.c), and the emulated device ranges        *)
(* (hv/hv_mmio.c), as lkhv_vm_init sets them up in the thread of a         *)
(* machine's primary vcpu and lkhv_shutdown_vm takes them down.            *)
(*                                                                         *)
(* The machines' threads run on several cpus; they share the allocator     *)
(* kernel/vm/pmm.c, the cpus' vttbr_el2 and the translation buffers.  A    *)
(* step is one call of the allocator, one critical section of mem_lock, or *)
(* the work between two of them.                                           *)
(*                                                                         *)
(* Memory is counted in blocks of 2M: a frame is an aligned physical       *)
(* block, and block b of a machine's ram is the guest physical block at    *)
(* ipa_start + b * 2M.  The table of a machine is what its level-2 entries *)
(* hold; the page tables above them are nodes, allocated on demand.        *)
(* Module Stage2 models the same table entry by entry.                     *)
(***************************************************************************)
EXTENDS Integers, Sequences, FiniteSetsExt, Functions

CONSTANTS
  Vm, Cpu,
  ArenaSizes,  \* how many aligned 2M blocks the kernel may have left free
  SegNum,      \* ram_size >> VM_MEM_BLOCK_SHIFT, of each machine
  IpaStart,    \* ipa_start of each machine, in blocks of 2M
  Region,      \* of each block of ram, which level-2 table holds its entry
  On,          \* the cpus each machine's vcpus are pinned to
  Pin,         \* the cpu of each machine's primary vcpu
  Image,       \* the PT_LOAD segments of each image: first block, blocks
  Entry,       \* info->entry: its block of ram, and whether it starts it
  Fdt,         \* the machines that have a device tree to load
  MaxStarts,   \* bound on the starts of each machine
  MaxErrors    \* bound on the allocations and file accesses that fail

Frame  == UNION {1 .. n : n \in ArenaSizes}
Ram(v) == 0 .. (SegNum[v] - 1)
Block  == UNION {Ram(v) : v \in Vm}
NoFrame == 0   \* an entry that is not valid; what ipa_to_pa returns then
NoVm   == "none"

\* The root, the level-2 tables of the ram's regions, and the two tables
\* above the page of the serial port
RamNodes(v) == {"root"} \cup {Region[b] : b \in Ram(v)}
Nodes == UNION {RamNodes(v) : v \in Vm} \cup {"dev", "page"}

Segment == [at: Block, n: Nat \ {0}]

ASSUME GuestMemAssumption ==
  /\ ArenaSizes \subseteq Nat \ {0} /\ ArenaSizes # {}
  /\ SegNum \in [Vm -> Nat \ {0}]
  /\ IpaStart \in [Vm -> Nat]
  /\ Fdt \subseteq Vm
  /\ MaxStarts \in [Vm -> Nat] /\ MaxErrors \in Nat
  /\ On \in [Vm -> SUBSET Cpu]
  /\ Pin \in [Vm -> Cpu] /\ \A v \in Vm : Pin[v] \in On[v]
  /\ Image \in [Vm -> Seq(Segment)]
  /\ \A v \in Vm : \A k \in 1 .. Len(Image[v]) :
       Image[v][k].at + Image[v][k].n <= SegNum[v]
  /\ Entry \in [Vm -> [at: Block, first: BOOLEAN]]
  /\ \A v \in Vm : Entry[v].at \in Ram(v)
  /\ NoVm \notin Vm

VARIABLES
  arena,       \* the frames the kernel has left free
  free,        \* the frames on the allocator's free list
  seg,         \* mem->mem_seg: the frames a machine holds, by block
  node,        \* the tables that exist
  blk,         \* the level-2 entries of the ram: a frame or NoFrame
  page,        \* the level-3 entry of the serial port is valid
  need_flush,  \* mem->need_flush
  vttbr,       \* vttbr_el2 of each cpu: whose tables it walks
  tlb,         \* the translations some cpu caches (flushes are broadcast)
  is_load,     \* vm->is_load
  content,     \* what was loaded into each frame since it was allocated
  vgic,        \* vm->interrupt: 0, or which of the machine's it is
  mmio,        \* vm->mmio: the ranges registered, with their argument
  pc,          \* where the machine is in its life
  i,           \* the segments of the image loaded so far
  starts,      \* starts of the machine
  errors,      \* failures of allocations and file accesses so far
  fault        \* an access with undefined effect was made

vars == <<arena, free, seg, node, blk, page, need_flush, vttbr, tlb,
          is_load, content, vgic, mmio, pc, i, starts, errors, fault>>

tables == <<node, blk, page, need_flush, vttbr, tlb>>
image  == <<is_load, content, i>>
device == <<vgic, mmio>>
still  == <<arena, fault>>

PcState == {"off", "alloc", "map", "serial", "load", "fdt", "irq", "launch",
            "run", "unmap", "free", "down", "dead"}
Content == Vm \X {"image", "fdt"}
Trans   == Vm \X Block \X Frame

\* The state has its type, no machine has more memory than its segments, and
\* only frames of the arena are free
TypeOK ==
  /\ arena \subseteq Frame /\ free \subseteq arena
  /\ seg \in [Vm -> Seq(Frame)] /\ \A v \in Vm : Len(seg[v]) <= SegNum[v]
  /\ node \in [Vm -> SUBSET Nodes]
  /\ blk \in [Vm -> [Block -> Frame \cup {NoFrame}]]
  /\ page \in [Vm -> BOOLEAN] /\ need_flush \in [Vm -> BOOLEAN]
  /\ vttbr \in [Cpu -> Vm \cup {NoVm}]
  /\ tlb \subseteq Trans
  /\ is_load \in [Vm -> BOOLEAN]
  /\ content \in [Frame -> SUBSET Content]
  /\ vgic \in [Vm -> Nat]
  /\ mmio \in [Vm -> SUBSET (({"dist"} \cup Cpu) \X Nat)]
  /\ \A v \in Vm : \A m \in mmio[v] : m[2] <= starts[v]
  /\ pc \in [Vm -> PcState]
  /\ i \in [Vm -> Nat] /\ \A v \in Vm : i[v] <= Len(Image[v])
  /\ starts \in [Vm -> Nat] /\ \A v \in Vm : starts[v] <= MaxStarts[v]
  /\ errors \in 0 .. MaxErrors
  /\ fault \in BOOLEAN

\* The machines are created, and none is started
Init ==
  /\ \E n \in ArenaSizes : arena = 1 .. n
  /\ free = arena
  /\ seg = [v \in Vm |-> <<>>]
  /\ node = [v \in Vm |-> {}]
  /\ blk = [v \in Vm |-> [b \in Block |-> NoFrame]]
  /\ page = [v \in Vm |-> FALSE] /\ need_flush = [v \in Vm |-> FALSE]
  /\ vttbr = [c \in Cpu |-> NoVm]
  /\ tlb = {}
  /\ is_load = [v \in Vm |-> FALSE]
  /\ content = [f \in Frame |-> {}]
  /\ vgic = [v \in Vm |-> 0] /\ mmio = [v \in Vm |-> {}]
  /\ pc = [v \in Vm |-> "off"] /\ i = [v \in Vm |-> 0]
  /\ starts = [v \in Vm |-> 0]
  /\ errors = 0
  /\ fault = FALSE

Is(v, where)   == ~fault /\ pc[v] = where
GoTo(v, where) == pc' = [pc EXCEPT ![v] = where]

\* Something the step asks for cannot be had, or everything can
Fails     == errors < MaxErrors /\ errors' = errors + 1
Succeeds  == UNCHANGED errors
MayFail(failed) == IF failed THEN Fails ELSE Succeeds

-----------------------------------------------------------------------------
(* lkhv_alloc_mem and lkhv_vm_free_mem                                     *)

\* vm_start: the primary vcpu's thread is resumed at its entry
Start(v) ==
  /\ Is(v, "off") /\ starts[v] < MaxStarts[v]
  /\ starts' = [starts EXCEPT ![v] = @ + 1]
  /\ GoTo(v, "alloc")
  /\ UNCHANGED <<errors, free, seg, tables, image, device, still>>

\* ram_size is not a multiple of 2M, or there is no memory for mem_seg
AllocRefused(v) ==
  /\ Is(v, "alloc") /\ seg[v] = <<>>
  /\ Fails
  /\ GoTo(v, "dead")
  /\ UNCHANGED <<free, seg, tables, image, device, starts, still>>

\* Mutant: the search starts one aligned run too far
AllocOneOn == Min(free) + 1

\* pmm_alloc_contiguous takes the lowest run of free pages that is aligned
pmm_alloc_contiguous == Min(free)

\* One round of the loop of lkhv_alloc_mem
AllocSeg(v) ==
  /\ Is(v, "alloc") /\ Len(seg[v]) < SegNum[v] /\ free # {}
  /\ seg' = [seg EXCEPT ![v] = Append(@, pmm_alloc_contiguous)]
  /\ free' = free \ {pmm_alloc_contiguous}
  /\ GoTo(v, IF Len(seg[v]) + 1 = SegNum[v] THEN "map" ELSE "alloc")
  /\ UNCHANGED <<errors, tables, image, device, starts, still>>

\* Mutant: the frames allocated before the one that failed are forgotten
WalkNothing(v) == {}

\* The frames the loop on the failure path gives back
WalkSegs(v) == Range(seg[v])

\* No aligned run is left.  mem_seg is freed and then walked: what the loop
\* reads is what was there (miniheap writes only before the block), so it
\* frees the runs allocated and finds an empty list at the one that failed;
\* or another cpu has taken the block by then, or the loop goes on to entries
\* that were never written
AllocFailed(v) ==
  /\ Is(v, "alloc") /\ Len(seg[v]) < SegNum[v] /\ free = {}
  /\ \/ /\ free' = free \cup WalkSegs(v)
        /\ seg' = [seg EXCEPT ![v] = <<>>]
        /\ GoTo(v, "dead")
        /\ UNCHANGED fault
     \/ /\ fault' = TRUE
        /\ UNCHANGED <<free, seg, pc>>
  /\ UNCHANGED <<arena, errors, tables, image, device, starts>>

-----------------------------------------------------------------------------
(* lkhv_map_ram, lkhv_unmap_ram and lkhv_map_test_serial                   *)

\* The tables above the level-2 entry of block b, top first
Above(b) == <<"root", Region[b]>>

\* pte_get allocates, of the tables in path, the ones that are missing; a
\* page may not be had for one of them, which leaves the ones before it
PteGet(v, path, had, found) ==
  \E k \in 0 .. Len(path) :
    /\ had = node[v] \cup {path[j] : j \in 1 .. k}
    /\ found <=> (Range(path) \subseteq had)

\* Mutants: the flush of a machine acts on whichever is current; a valid entry
\* is broken and not made again
FlushCurrent(t, v, current) == {e \in t : e[1] # current}
BreakOnly(old, new)        == IF old = NoFrame THEN new ELSE NoFrame

\* tlb_flush acts on the machine whose tables the cpu walks
tlb_flush(t, v) == {e \in t : e[1] # v}

\* ipas2e1is takes IPA[47:12] in the low 36 bits of its operand, and is given
\* the address itself: 4K for each page, of the 2^27 blocks those bits can name
PageLen == 4096
OperandBlocks == 2 ^ 27
Named(ipa) == (ipa * PageLen) % OperandBlocks

\* tlb_flush_ipa for the blocks P of guest physical memory, on a cpu that
\* walks the tables of the machine v
tlb_flush_ipa(t, v, P) ==
  {e \in t : ~(e[1] = v /\ \E p \in P : IpaStart[v] + e[2] = Named(p))}

\* arch_tlb_flush makes the machine v the current one for the flush, and
\* puts back the one that was
arch_tlb_flush(t, v, current) == tlb_flush(t, v)

\* mem_unlock, with the translations t that are left and the flag f
mem_unlock(v, f, t) ==
  /\ tlb' = IF f THEN arch_tlb_flush(t, v, vttbr[Pin[v]]) ELSE t
  /\ need_flush' = [need_flush EXCEPT ![v] = FALSE]

\* The entry after mem_pte_set: broken first when it was valid, then made
mem_pte_set(old, new) == new

\* mem_pte_set for the blocks below k, each given its frame of mem_seg: where
\* an entry that was valid is replaced, tlb_flush_ipa is called at once, for
\* the machine whose tables this cpu happens to walk; where the frame is the
\* same, the flush is deferred to mem_unlock
MapBlocks(v, k) ==
  LET B == {b \in Block : b < k}
      new(b) == seg[v][b + 1]
      changed == {b \in B : blk[v][b] \notin {NoFrame, new(b)}}
      again   == {b \in B : blk[v][b] = new(b)}
  IN /\ blk' = [blk EXCEPT ![v] =
           [b \in Block |-> IF b \in B THEN mem_pte_set(@[b], new(b)) ELSE @[b]]]
     /\ mem_unlock(v, need_flush[v] \/ again # {},
                   tlb_flush_ipa(tlb, vttbr[Pin[v]], {IpaStart[v] + b : b \in changed}))

\* lkhv_map_ram: every block is mapped
MapRam(v) ==
  /\ Is(v, "map")
  /\ node' = [node EXCEPT ![v] = @ \cup RamNodes(v)]
  /\ MapBlocks(v, SegNum[v])
  /\ GoTo(v, "serial")
  /\ UNCHANGED <<errors, free, seg, page, vttbr, image, device, starts, still>>

\* No page for a table above block k: the blocks below it stay mapped until
\* lkhv_unmap_ram, in another critical section
MapFailed(v) ==
  /\ Is(v, "map")
  /\ \E k \in Ram(v), had \in SUBSET Nodes :
       LET below == UNION {Range(Above(b)) : b \in 0 .. (k - 1)} IN
       /\ \E j \in 0 .. 1 :
            had = node[v] \cup below \cup {Above(k)[m] : m \in 1 .. j}
       /\ ~(Range(Above(k)) \subseteq had)
       /\ node' = [node EXCEPT ![v] = had]
       /\ MapBlocks(v, k)
  /\ Fails
  /\ GoTo(v, "unmap")
  /\ UNCHANGED <<free, seg, page, vttbr, image, device, starts, still>>

\* lkhv_unmap_ram.  pte_get allocates here too; where it fails there was no
\* entry to clear, and the failure is ignored
UnmapRam(v) ==
  /\ Is(v, "unmap")
  /\ \E had \in SUBSET Nodes :
       /\ node[v] \subseteq had /\ had \subseteq node[v] \cup RamNodes(v)
       /\ had # {} => "root" \in had
       /\ MayFail(~(RamNodes(v) \subseteq had))
       /\ node' = [node EXCEPT ![v] = had]
  /\ blk' = [blk EXCEPT ![v] = [b \in Block |-> NoFrame]]
  /\ mem_unlock(v, need_flush[v] \/ \E b \in Ram(v) : blk[v][b] # NoFrame, tlb)
  /\ GoTo(v, "free")
  /\ UNCHANGED <<free, seg, page, vttbr, image, device, starts, still>>

\* lkhv_map_test_serial, without mem_lock: its result is ignored.  An entry
\* that is already there is written again, and its flush stays deferred
MapSerial(v) ==
  /\ Is(v, "serial")
  /\ \E had \in SUBSET Nodes, found \in BOOLEAN :
       /\ PteGet(v, <<"root", "dev", "page">>, had, found)
       /\ MayFail(~found)
       /\ node' = [node EXCEPT ![v] = had]
       /\ page' = [page EXCEPT ![v] = @ \/ found]
       /\ need_flush' = [need_flush EXCEPT ![v] = @ \/ (found /\ page[v])]
  /\ GoTo(v, "load")
  /\ UNCHANGED <<free, seg, blk, vttbr, tlb, image, device, starts, still>>

-----------------------------------------------------------------------------
(* lkhv_vm_load: vm_load_elf and vm_load_fdt                               *)

\* The frame of guest block b, by a walk of the machine's table
ipa_to_pa(v, b) == blk[v][b]

\* Mutant: one block more than the segment has is written
OneMore(f, n) == {g \in Frame : f <= g /\ g <= f + n}

\* What is written when n blocks are read from a file to frame f: the read
\* goes on in physical memory
Written(f, n) == {g \in Frame : f <= g /\ g < f + n}

\* The image was loaded in an earlier life of the machine
LoadSkip(v) ==
  /\ Is(v, "load") /\ is_load[v]
  /\ GoTo(v, "irq")
  /\ UNCHANGED <<errors, free, seg, tables, image, device, starts, still>>

\* load_pl, for the next program header
LoadSegment(v) ==
  /\ Is(v, "load") /\ ~is_load[v] /\ i[v] < Len(Image[v])
  /\ LET s == Image[v][i[v] + 1]
         f == ipa_to_pa(v, s.at)
     IN /\ f # NoFrame
        /\ content' = [g \in Frame |->
             IF g \in Written(f, s.n) THEN content[g] \cup {<<v, "image">>}
                                      ELSE content[g]]
  /\ i' = [i EXCEPT ![v] = @ + 1]
  /\ GoTo(v, IF i[v] + 1 = Len(Image[v]) THEN "fdt" ELSE "load")
  /\ UNCHANGED <<errors, free, seg, tables, is_load, device, starts, still>>

\* A file cannot be opened or read, a header is wrong, or an address of the
\* image is not mapped
LoadFailed(v) ==
  /\ (Is(v, "load") /\ ~is_load[v]) \/ Is(v, "fdt")
  /\ i' = [i EXCEPT ![v] = 0]
  /\ Fails
  /\ GoTo(v, "unmap")
  /\ UNCHANGED <<free, seg, tables, is_load, content, device, starts, still>>

\* There is no memory for the program headers: vm_load_elf returns what
\* verify_eheader returned, NO_ERROR, with nothing loaded
LoadNoHeaders(v) ==
  /\ Is(v, "load") /\ ~is_load[v] /\ i[v] = 0
  /\ Fails
  /\ GoTo(v, "fdt")
  /\ UNCHANGED <<free, seg, tables, image, device, starts, still>>

\* info->entry: 0, below the ram, until vm_load_elf has set it
EntryIn(v, b) == i[v] # 0 /\ Entry[v].at = b

\* Mutant: always the first segment, as the comment in vm_load_fdt has it
FdtFirst(v)  == 0

\* calc_fdt_pos: both ends of the first segment count
calc_fdt_pos(v) ==
  IF EntryIn(v, 0) \/ (EntryIn(v, 1) /\ Entry[v].first) THEN SegNum[v] - 1 ELSE 0

\* vm_load_fdt
LoadFdt(v) ==
  /\ Is(v, "fdt")
  /\ content' = IF v \in Fdt
       THEN [content EXCEPT ![seg[v][calc_fdt_pos(v) + 1]] = @ \cup {<<v, "fdt">>}]
       ELSE content
  /\ is_load' = [is_load EXCEPT ![v] = TRUE]
  /\ i' = [i EXCEPT ![v] = 0]
  /\ GoTo(v, "irq")
  /\ UNCHANGED <<errors, free, seg, tables, device, starts, still>>

-----------------------------------------------------------------------------
(* hv_vm_mmio_init, hv_vm_irq_init and the start of a vcpu                 *)

\* hv_mmio_register of the range r: it must overlap no other
hv_mmio_register(space, r, arg) ==
  IF \E m \in space : m[1] = r THEN space ELSE space \cup {<<r, arg>>}

\* Mutant: the space of the former life is kept
KeepSpace(v) == mmio[v]

hv_vm_mmio_init(v) == {}

\* The space is emptied, a vgic is allocated, and its distributor registered
IrqInit(v) ==
  /\ Is(v, "irq")
  /\ vgic' = [vgic EXCEPT ![v] = starts[v]]
  /\ mmio' = [mmio EXCEPT ![v] = hv_mmio_register(hv_vm_mmio_init(v), "dist", starts[v])]
  /\ GoTo(v, "launch")
  /\ UNCHANGED <<errors, free, seg, tables, image, starts, still>>

\* There is no memory for the vgic, or for the item of the distributor
IrqFailed(v) ==
  /\ Is(v, "irq")
  /\ vgic' \in {vgic, [vgic EXCEPT ![v] = starts[v]]}
  /\ mmio' = [mmio EXCEPT ![v] = hv_vm_mmio_init(v)]
  /\ Fails
  /\ GoTo(v, "unmap")
  /\ UNCHANGED <<free, seg, tables, image, starts, still>>

\* vcpu_start_common on cpu c: hv_redist_mmio_init, whose result is ignored,
\* and hv_vcpu_arch_contex_switch, which writes vttbr_el2
StartCommon(v, c) ==
  /\ \/ mmio' = [mmio EXCEPT ![v] = hv_mmio_register(@, c, 0)] /\ Succeeds
     \/ UNCHANGED mmio /\ Fails
  /\ vttbr' = [vttbr EXCEPT ![c] = v]
  /\ UNCHANGED <<free, seg, node, blk, page, need_flush, tlb, image,
                 vgic, starts, still>>

Launch(v) ==
  /\ Is(v, "launch")
  /\ GoTo(v, "run")
  /\ StartCommon(v, Pin[v])

\* CPU_ON of a vcpu that was never on or is off again
StartSecondary(v, c) ==
  /\ Is(v, "run") /\ c \in On[v] \ {Pin[v]}
  /\ StartCommon(v, c)
  /\ UNCHANGED pc

\* The scheduler switches to the thread of a vcpu
SwitchTo(v, c) ==
  /\ Is(v, "run") /\ c = Pin[v] /\ vttbr[c] # v
  /\ vttbr' = [vttbr EXCEPT ![c] = v]
  /\ UNCHANGED <<errors, free, seg, node, blk, page, need_flush, tlb, image,
                 device, pc, starts, still>>

\* A cpu walks the tables vttbr_el2 names, for an access of the guest or
\* ahead of one, and caches what it finds
Walk(c, b) ==
  /\ ~fault /\ vttbr[c] # NoVm
  /\ blk[vttbr[c]][b] # NoFrame
  /\ tlb' = tlb \cup {<<vttbr[c], b, blk[vttbr[c]][b]>>}
  /\ UNCHANGED <<errors, free, seg, node, blk, page, need_flush, vttbr, image,
                 device, pc, starts, still>>

-----------------------------------------------------------------------------
(* The end of a life                                                       *)

\* lkhv_shutdown_vm, its vcpus off: only the frames are given back
Shutdown(v) ==
  /\ Is(v, "run")
  /\ GoTo(v, "down")
  /\ UNCHANGED <<errors, free, seg, tables, image, device, starts, still>>

\* One round of the loop of lkhv_vm_free_mem, after a shutdown or a failure
FreeSeg(v) ==
  /\ ~fault /\ pc[v] \in {"free", "down"} /\ seg[v] # <<>>
  /\ free' = free \cup {Head(seg[v])}
  /\ content' = [content EXCEPT ![Head(seg[v])] = {}]
  /\ seg' = [seg EXCEPT ![v] = Tail(@)]
  /\ UNCHANGED <<errors, tables, is_load, i, device, pc, starts, still>>

\* mem_seg is freed.  After a failed start the thread ends and the vcpu's
\* status stays VCPU_READY: the machine cannot be started again
Freed(v) ==
  /\ ~fault /\ pc[v] \in {"free", "down"} /\ seg[v] = <<>>
  /\ GoTo(v, IF pc[v] = "down" THEN "off" ELSE "dead")
  /\ UNCHANGED <<errors, free, seg, tables, image, device, starts, still>>

Next ==
  \/ \E v \in Vm : \/ Start(v) \/ AllocRefused(v) \/ AllocSeg(v) \/ AllocFailed(v)
                   \/ MapRam(v) \/ MapFailed(v) \/ UnmapRam(v) \/ MapSerial(v)
                   \/ LoadSkip(v) \/ LoadSegment(v) \/ LoadFailed(v)
                   \/ LoadNoHeaders(v) \/ LoadFdt(v)
                   \/ IrqInit(v) \/ IrqFailed(v) \/ Launch(v)
                   \/ Shutdown(v) \/ FreeSeg(v) \/ Freed(v)
                   \/ \E c \in Cpu : StartSecondary(v, c) \/ SwitchTo(v, c)
  \/ \E c \in Cpu, b \in Block : Walk(c, b)

Spec == Init /\ [][Next]_vars

-----------------------------------------------------------------------------
(* Properties                                                              *)

Running(v) == pc[v] = "run"

\* A running machine's table maps each block of its ram to the frame that
\* mem_seg names, whatever its earlier lives, failed steps and the other
\* machines left behind: lkhv_map_ram over a table that was never cleared
OwnFrames ==
  \A v \in Vm : Running(v) => \A b \in Ram(v) : blk[v][b] = seg[v][b + 1]

\* No frame is held twice, and none is lost: every frame of the arena is free
\* or held once by one machine, also after the failure paths of
\* lkhv_alloc_mem and lkhv_vm_init and in the middle of lkhv_vm_free_mem
FramesAccounted ==
  /\ free \cup UNION {Range(seg[v]) : v \in Vm} = arena
  /\ \A v \in Vm :
       /\ Range(seg[v]) \cap free = {}
       /\ \A j, k \in DOMAIN seg[v] : seg[v][j] = seg[v][k] => j = k
       /\ \A w \in Vm \ {v} : Range(seg[v]) \cap Range(seg[w]) = {}

\* What lkhv_unmap_ram took out of the table is in no translation buffer once
\* mem_lock is free, on whichever cpu and for whichever machine that cpu
\* walks tables: arch_tlb_flush
UnmappedFlushed ==
  \A v \in Vm, b \in Block : blk[v][b] = NoFrame =>
    \A e \in tlb : ~(e[1] = v /\ e[2] = b)

\* The frames under each segment of the image follow each other
Adjacent(v) ==
  \A k \in 1 .. Len(Image[v]) : \A j \in 0 .. (Image[v][k].n - 1) :
    ipa_to_pa(v, Image[v][k].at + j) = ipa_to_pa(v, Image[v][k].at) + j

\* load_pl and vm_load_fdt write only to frames of their machine, where the
\* frames of a segment of the image follow each other
LoadInside ==
  [][\A v \in Vm : Adjacent(v) =>
       \A f \in Frame \ Range(seg[v]) :
         content'[f] \cap ({v} \X {"image", "fdt"}) \subseteq content[f]]_vars

\* The frame the machine starts in
EntryFrame(v) == seg[v][Entry[v].at + 1]

\* calc_fdt_pos has no block to choose but the one the machine starts in, or
\* takes the start of the last of two blocks for the end of the first
Crowded(v) ==
  SegNum[v] = 1 \/ (SegNum[v] = 2 /\ Entry[v].at = 1 /\ Entry[v].first)

\* calc_fdt_pos keeps the device tree out of the block the machine starts in,
\* except for crowded machines, which have it written over their first
\* instructions: it neither looks where the image lies nor refuses a ram that
\* is too small
FdtApart ==
  \A v \in Vm : Running(v) /\ <<v, "image">> \in content[EntryFrame(v)] =>
    \A f \in Range(seg[v]) :
      <<v, "fdt">> \in content[f] => (f = EntryFrame(v) <=> Crowded(v))

\* The distributor a running machine reaches is the one of its present life:
\* hv_vm_mmio_init empties the space before hv_dist_mmio_init registers it
DistCurrent ==
  \A v \in Vm : Running(v) => {m \in mmio[v] : m[1] = "dist"} = {<<"dist", vgic[v]>>}

\* hv_arch_mem.c:247 says of a valid entry that is replaced "flush at once":
\* no translation of a running machine differs from its table.  tlb_flush_ipa
\* acts on the machine whose tables the cpu walks, another one where this
\* machine is started again after a switch
TlbAgrees ==
  \A v \in Vm : Running(v) => \A e \in tlb : e[1] = v => e[3] = blk[v][e[2]]
=============================================================================
