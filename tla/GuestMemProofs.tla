--------------------------- MODULE GuestMemProofs ---------------------------
(***************************************************************************)
(* For every number of machines, cpus and blocks of memory, and whatever   *)
(* fails: no frame is lost or held twice, a running machine's table maps   *)
(* its own frames, nothing that was unmapped stays in a translation        *)
(* buffer, and images stay in the frames of their machine.                 *)
(***************************************************************************)
EXTENDS GuestMem, SequenceTheorems, WellFoundedInduction, TLAPS

-----------------------------------------------------------------------------
(* The least element of a set                                              *)

\* A non-empty set of numbers has a least element.
LEMMA LeastLemma ==
  ASSUME NEW K \in SUBSET Nat, K # {}
  PROVE  \E x \in K : \A y \in K : x =< y
  <1>1. PICK x \in K : \A y \in K : ~(<<y, x>> \in OpToRel(<, Nat))
    BY NatLessThanWellFounded, WFMin, Zenon
  <1>2. \A y \in K : x =< y
    <2>1. SUFFICES ASSUME NEW y \in K, y < x PROVE FALSE
      OBVIOUS
    <2>2. <<y, x>> \in OpToRel(<, Nat)
      BY <2>1 DEF OpToRel
    <2> QED BY <1>1, <2>2
  <1> QED BY <1>2

\* Min picks an element of a non-empty set of numbers: the lowest free run
\* of pages.
LEMMA MinLemma ==
  ASSUME NEW K \in SUBSET Nat, K # {}
  PROVE  Min(K) \in K
  BY LeastLemma DEF Min

-----------------------------------------------------------------------------
(* The invariant                                                           *)

\* Where a machine holds all its frames, and where its table maps them.
Full   == {"map", "serial", "load", "fdt", "irq", "launch", "run", "unmap"}
Mapped == {"serial", "load", "fdt", "irq", "launch", "run"}

\* How many frames a machine holds, by where it is in its life.
SegFits ==
  \A v \in Vm :
    /\ pc[v] \in {"off", "dead"} => seg[v] = <<>>
    /\ pc[v] = "alloc" => Len(seg[v]) < SegNum[v]
    /\ pc[v] \in Full => Len(seg[v]) = SegNum[v]

\* A table has entries for the blocks of its machine's ram only.
TableInRam == \A v \in Vm : \A b \in Block \ Ram(v) : blk[v][b] = NoFrame

\* From lkhv_map_ram on, the table maps the frames that mem_seg names.
TableMaps ==
  \A v \in Vm : pc[v] \in Mapped => \A b \in Ram(v) : blk[v][b] = seg[v][b + 1]

\* From hv_vm_irq_init on, one distributor is registered, the present one.
DistFresh ==
  \A v \in Vm : pc[v] \in {"launch", "run"} =>
    {m \in mmio[v] : m[1] = "dist"} = {<<"dist", vgic[v]>>}

\* A machine that was set up has its image; one that loads has not.
LoadState ==
  \A v \in Vm :
    /\ pc[v] \in {"irq", "launch", "run", "down"} => is_load[v]
    /\ pc[v] = "fdt" => ~is_load[v]

\* Until vm_load_elf has loaded a segment, nothing of the image is in memory.
NothingLoaded ==
  \A v \in Vm :
    /\ pc[v] \in {"off", "alloc", "map", "serial", "load", "fdt"}
    /\ ~is_load[v] /\ i[v] = 0
    => \A f \in Frame : <<v, "image">> \notin content[f]

\* The device tree is written once, into a frame f the machine holds, which it
\* loses with the frame; where the image was loaded, f is the frame the machine
\* starts in if and only if the machine is crowded.
FdtPlace(v, f) ==
  /\ is_load[v] /\ pc[v] \in {"irq", "launch", "run", "unmap", "free", "down"}
  /\ f \in Range(seg[v])
  /\ /\ pc[v] \in {"irq", "launch", "run"}
     /\ <<v, "image">> \in content[EntryFrame(v)]
     => (f = EntryFrame(v) <=> Crowded(v))

FdtPlaced ==
  \A v \in Vm : \A f \in Frame : <<v, "fdt">> \in content[f] => FdtPlace(v, f)

\* What the steps preserve together.
IInv ==
  /\ TypeOK /\ FramesAccounted /\ SegFits /\ TableInRam /\ TableMaps
  /\ UnmappedFlushed /\ DistFresh

-----------------------------------------------------------------------------
(* The constants, the allocator, and type correctness.                     *)

\* Frames and blocks are numbers, and no frame is NoFrame.
LEMMA ConstFacts ==
  ASSUME GuestMemAssumption
  PROVE  /\ Frame \subseteq Nat \ {0} /\ NoFrame \notin Frame
         /\ Block \subseteq Nat
         /\ \A v \in Vm : Ram(v) \subseteq Block /\ SegNum[v] \in Nat \ {0}
         /\ \A v \in Vm, b \in Block : b \in Ram(v) <=> b < SegNum[v]
  <1>1. Frame \subseteq Nat \ {0} /\ NoFrame \notin Frame
    BY DEF GuestMemAssumption, Frame, NoFrame
  <1>2. \A v \in Vm : Ram(v) \subseteq Block /\ SegNum[v] \in Nat \ {0}
    BY DEF GuestMemAssumption, Block, Ram
  <1>3. Block \subseteq Nat
    BY <1>2 DEF Block, Ram
  <1>4. \A v \in Vm, b \in Block : b \in Ram(v) <=> b < SegNum[v]
    BY <1>2, <1>3 DEF Ram
  <1> QED BY <1>1, <1>2, <1>3, <1>4

\* The frame the allocator hands out is one of its own.
LEMMA AllocFree ==
  ASSUME GuestMemAssumption, TypeOK, free # {}
  PROVE  pmm_alloc_contiguous \in free /\ pmm_alloc_contiguous \in Frame
  <1>1. free \subseteq Frame /\ free \in SUBSET Nat
    BY ConstFacts DEF TypeOK
  <1> QED BY <1>1, MinLemma DEF pmm_alloc_contiguous

\* What a machine's frames are, after one more and after one less.
LEMMA SegFacts ==
  ASSUME TypeOK, NEW v \in Vm
  PROVE  /\ seg[v] \in Seq(Frame) /\ Len(seg[v]) \in Nat
         /\ DOMAIN seg[v] = 1 .. Len(seg[v])
         /\ Range(seg[v]) = {seg[v][k] : k \in 1 .. Len(seg[v])}
         /\ \A k \in 1 .. Len(seg[v]) : seg[v][k] \in Frame
         /\ seg[v] = <<>> <=> Len(seg[v]) = 0
  <1>1. seg[v] \in Seq(Frame)
    BY DEF TypeOK
  <1>2. Len(seg[v]) \in Nat /\ DOMAIN seg[v] = 1 .. Len(seg[v])
    BY <1>1, LenProperties
  <1>3. Range(seg[v]) = {seg[v][k] : k \in 1 .. Len(seg[v])}
    BY <1>1, RangeEquality
  <1>4. \A k \in 1 .. Len(seg[v]) : seg[v][k] \in Frame
    BY <1>1, ElementOfSeq
  <1>5. seg[v] = <<>> <=> Len(seg[v]) = 0
    BY <1>1, EmptySeq
  <1> QED BY <1>1, <1>2, <1>3, <1>4, <1>5

\* The initial state has its type.
LEMMA TypeInit == GuestMemAssumption /\ Init => TypeOK
  <1> SUFFICES ASSUME GuestMemAssumption, Init PROVE TypeOK
    OBVIOUS
  <1>1. arena \subseteq Frame /\ free \subseteq arena
    BY DEF Init, Frame
  <1>2. seg \in [Vm -> Seq(Frame)] /\ \A v \in Vm : Len(seg[v]) <= SegNum[v]
    BY EmptySeq DEF Init, GuestMemAssumption
  <1>3. i \in [Vm -> Nat] /\ \A v \in Vm : i[v] <= Len(Image[v])
    BY LenProperties DEF Init, GuestMemAssumption
  <1>4. blk \in [Vm -> [Block -> Frame \cup {NoFrame}]]
    BY DEF Init
  <1>5. /\ mmio \in [Vm -> SUBSET (({"dist"} \cup Cpu) \X Nat)]
        /\ \A v \in Vm : \A m \in mmio[v] : m[2] <= starts[v]
    BY DEF Init
  <1>6. starts \in [Vm -> Nat] /\ \A v \in Vm : starts[v] <= MaxStarts[v]
    BY DEF Init, GuestMemAssumption
  <1>7. pc \in [Vm -> PcState] /\ errors \in 0 .. MaxErrors
    BY DEF Init, PcState, GuestMemAssumption
  <1>8. /\ node \in [Vm -> SUBSET Nodes] /\ content \in [Frame -> SUBSET Content]
        /\ page \in [Vm -> BOOLEAN] /\ need_flush \in [Vm -> BOOLEAN]
        /\ vttbr \in [Cpu -> Vm \cup {NoVm}] /\ tlb \subseteq Trans
        /\ is_load \in [Vm -> BOOLEAN]
        /\ vgic \in [Vm -> Nat] /\ fault \in BOOLEAN
    BY DEF Init
  <1> QED
    BY <1>1, <1>2, <1>3, <1>4, <1>5, <1>6, <1>7, <1>8 DEF TypeOK

\* The frame lkhv_vm_free_mem gives back next, and what is left then.
LEMMA HeadFacts ==
  ASSUME TypeOK, NEW v \in Vm, seg[v] # <<>>
  PROVE  /\ Len(seg[v]) \in Nat \ {0}
         /\ Head(seg[v]) = seg[v][1] /\ Head(seg[v]) \in Frame
         /\ Head(seg[v]) \in Range(seg[v])
         /\ Tail(seg[v]) \in Seq(Frame) /\ Len(Tail(seg[v])) = Len(seg[v]) - 1
         /\ \A k \in 1 .. (Len(seg[v]) - 1) : Tail(seg[v])[k] = seg[v][k + 1]
         /\ Range(Tail(seg[v])) = {seg[v][k] : k \in 2 .. Len(seg[v])}
  <1>1. seg[v] \in Seq(Frame) /\ Len(seg[v]) \in Nat \ {0}
    BY SegFacts
  <1>2. /\ Head(seg[v]) = seg[v][1] /\ Tail(seg[v]) \in Seq(Frame)
        /\ Len(Tail(seg[v])) = Len(seg[v]) - 1
        /\ \A k \in 1 .. Len(Tail(seg[v])) : Tail(seg[v])[k] = seg[v][k + 1]
    BY <1>1, HeadTailProperties
  <1>3. Head(seg[v]) \in Frame /\ Head(seg[v]) \in Range(seg[v])
    <2>1. 1 \in 1 .. Len(seg[v])
      BY <1>1
    <2> QED BY <1>2, <2>1, SegFacts, ZenonT(40)
  <1>4. Range(Tail(seg[v])) = {Tail(seg[v])[k] : k \in 1 .. (Len(seg[v]) - 1)}
    BY <1>2, RangeEquality, ZenonT(40)
  <1>5. {Tail(seg[v])[k] : k \in 1 .. (Len(seg[v]) - 1)}
          = {seg[v][k] : k \in 2 .. Len(seg[v])}
    <2>1. ASSUME NEW k \in 1 .. (Len(seg[v]) - 1)
          PROVE  Tail(seg[v])[k] \in {seg[v][j] : j \in 2 .. Len(seg[v])}
      BY <1>1, <1>2
    <2>2. ASSUME NEW k \in 2 .. Len(seg[v])
          PROVE  seg[v][k] \in {Tail(seg[v])[j] : j \in 1 .. (Len(seg[v]) - 1)}
      <3>1. k - 1 \in 1 .. (Len(seg[v]) - 1) /\ Tail(seg[v])[k - 1] = seg[v][k]
        BY <1>1, <1>2, <2>2
      <3> QED BY <3>1
    <2> QED BY <2>1, <2>2
  <1> QED BY <1>1, <1>2, <1>3, <1>4, <1>5

\* mem_pte_set and mem_unlock over the blocks below k.
LEMMA MapBlocksType ==
  ASSUME GuestMemAssumption, TypeOK, NEW v \in Vm, NEW k \in Nat,
         k <= Len(seg[v]), MapBlocks(v, k)
  PROVE  /\ blk' \in [Vm -> [Block -> Frame \cup {NoFrame}]]
         /\ tlb' \subseteq tlb
         /\ need_flush' \in [Vm -> BOOLEAN]
  <1>1. \A b \in Block : b < k => seg[v][b + 1] \in Frame
    BY SegFacts, ConstFacts, SMTT(40)
  <1>2. blk' \in [Vm -> [Block -> Frame \cup {NoFrame}]]
    BY <1>1, SMTT(40) DEF MapBlocks, TypeOK, mem_pte_set
  <1>3. tlb' \subseteq tlb
    BY DEF MapBlocks, mem_unlock, arch_tlb_flush, tlb_flush, tlb_flush_ipa
  <1>4. need_flush' \in [Vm -> BOOLEAN]
    BY DEF MapBlocks, mem_unlock, TypeOK
  <1> QED BY <1>2, <1>3, <1>4

\* vcpu_start_common, on any cpu.
LEMMA StartCommonType ==
  ASSUME GuestMemAssumption, TypeOK, NEW v \in Vm, NEW c \in Cpu,
         StartCommon(v, c)
  PROVE  /\ mmio' \in [Vm -> SUBSET (({"dist"} \cup Cpu) \X Nat)]
         /\ \A w \in Vm : \A m \in mmio'[w] : m[2] <= starts[w]
         /\ vttbr' \in [Cpu -> Vm \cup {NoVm}] /\ errors' \in 0 .. MaxErrors
  <1>1. vttbr' \in [Cpu -> Vm \cup {NoVm}] /\ errors' \in 0 .. MaxErrors
    BY DEF StartCommon, TypeOK, Succeeds, Fails, GuestMemAssumption
  <1>2. <<c, 0>> \in ({"dist"} \cup Cpu) \X Nat /\ <<c, 0>>[2] = 0
    OBVIOUS
  <1>3. /\ mmio' \in [Vm -> SUBSET (({"dist"} \cup Cpu) \X Nat)]
        /\ \A w \in Vm : \A m \in mmio'[w] : m[2] <= starts[w]
    <2>1. mmio \in [Vm -> SUBSET (({"dist"} \cup Cpu) \X Nat)]
      BY DEF TypeOK
    <2>2. \A w \in Vm : \A m \in mmio[w] : m[2] <= starts[w]
      BY DEF TypeOK
    <2>3. starts[v] \in Nat
      BY DEF TypeOK
    <2>4. \/ mmio' = mmio
          \/ mmio' = [mmio EXCEPT ![v] = mmio[v] \cup {<<c, 0>>}]
      BY <2>1 DEF StartCommon, hv_mmio_register
    <2>5. CASE mmio' = mmio
      BY <2>1, <2>2, <2>5
    <2>6. CASE mmio' = [mmio EXCEPT ![v] = mmio[v] \cup {<<c, 0>>}]
      <3>1. mmio' \in [Vm -> SUBSET (({"dist"} \cup Cpu) \X Nat)]
        BY <1>2, <2>1, <2>6
      <3>2. /\ mmio'[v] = mmio[v] \cup {<<c, 0>>}
            /\ \A w \in Vm : w # v => mmio'[w] = mmio[w]
        BY <2>1, <2>6
      <3>3. \A w \in Vm : \A m \in mmio'[w] : m[2] <= starts[w]
        <4> TAKE w \in Vm
        <4> TAKE m \in mmio'[w]
        <4>1. CASE m \in mmio[w]
          BY <2>2, <4>1
        <4>2. CASE m \notin mmio[w]
          <5>1. w = v /\ m = <<c, 0>>
            BY <3>2, <4>2
          <5>2. m[2] = 0
            BY <1>2, <5>1
          <5> QED BY <2>3, <5>1, <5>2
        <4> QED BY <4>1, <4>2
      <3> QED BY <3>1, <3>3
    <2> QED BY <2>4, <2>5, <2>6
  <1> QED BY <1>1, <1>3

\* Every step preserves the types.
LEMMA TypeStep ==
  ASSUME GuestMemAssumption, TypeOK, FramesAccounted, SegFits, Next
  PROVE  TypeOK'
  <1> USE DEF Is, GoTo, Fails, Succeeds, tables, image, device, still, PcState
  <1>1. ASSUME NEW v \in Vm, Start(v) PROVE TypeOK'
    <2>1. /\ starts \in [Vm -> Nat] /\ \A w \in Vm : starts[w] <= MaxStarts[w]
          /\ starts[v] < MaxStarts[v] /\ starts' = [starts EXCEPT ![v] = @ + 1]
          /\ MaxStarts[v] \in Nat
      BY <1>1 DEF TypeOK, Start, GuestMemAssumption
    <2>2. /\ starts' \in [Vm -> Nat]
          /\ \A w \in Vm : starts'[w] <= MaxStarts[w] /\ starts[w] <= starts'[w]
      BY ONLY <2>1
    <2>3. mmio' = mmio /\ i' = i /\ seg' = seg /\ pc' \in [Vm -> PcState]
      BY <1>1 DEF TypeOK, Start
    <2>4. \A w \in Vm : \A m \in mmio'[w] : m[2] <= starts'[w]
      <3>1. /\ mmio \in [Vm -> SUBSET (({"dist"} \cup Cpu) \X Nat)]
            /\ \A w \in Vm : \A m \in mmio[w] : m[2] <= starts[w]
        BY DEF TypeOK
      <3> QED BY ONLY <2>1, <2>2, <2>3, <3>1
    <2> QED
      BY <1>1, <2>2, <2>3, <2>4 DEF TypeOK, Start
  <1>2. ASSUME NEW v \in Vm, AllocRefused(v) PROVE TypeOK'
    BY <1>2 DEF TypeOK, AllocRefused
  <1>3. ASSUME NEW v \in Vm, AllocSeg(v) PROVE TypeOK'
    <2>1. /\ pmm_alloc_contiguous \in Frame /\ SegNum[v] \in Nat
          /\ seg[v] \in Seq(Frame) /\ Len(seg[v]) \in Nat
      BY <1>3, AllocFree, SegFacts, ConstFacts DEF AllocSeg
    <2>2. /\ Append(seg[v], pmm_alloc_contiguous) \in Seq(Frame)
          /\ Len(Append(seg[v], pmm_alloc_contiguous)) = Len(seg[v]) + 1
      BY <2>1, AppendProperties
    <2>3. /\ seg' \in [Vm -> Seq(Frame)]
          /\ \A w \in Vm : Len(seg'[w]) <= SegNum[w]
      BY <1>3, <2>1, <2>2, SMTT(40) DEF TypeOK, AllocSeg
    <2> QED
      BY <1>3, <2>3 DEF TypeOK, AllocSeg
  <1>4. ASSUME NEW v \in Vm, AllocFailed(v) PROVE TypeOK'
    <2>1. /\ seg' \in [Vm -> Seq(Frame)]
          /\ \A w \in Vm : Len(seg'[w]) <= SegNum[w]
      <3>1. <<>> \in Seq(Frame) /\ Len(<<>>) = 0
        BY EmptySeq
      <3>2. SegNum[v] \in Nat
        BY ConstFacts
      <3>3. seg' = seg \/ seg' = [seg EXCEPT ![v] = <<>>]
        BY <1>4 DEF AllocFailed
      <3>4. CASE seg' = seg
        BY <3>4 DEF TypeOK
      <3>5. CASE seg' = [seg EXCEPT ![v] = <<>>]
        <4>1. seg'[v] = <<>> /\ \A w \in Vm : w # v => seg'[w] = seg[w]
          BY <3>5 DEF TypeOK
        <4>2. seg' \in [Vm -> Seq(Frame)]
          BY <3>1, <3>5 DEF TypeOK
        <4>3. Len(seg'[v]) = 0
          BY <3>1, <4>1
        <4>4. \A w \in Vm : w # v => Len(seg'[w]) <= SegNum[w]
          BY <4>1 DEF TypeOK
        <4> QED BY <3>2, <4>2, <4>3, <4>4
      <3> QED BY <3>3, <3>4, <3>5
    <2>2. free' \subseteq arena
      BY <1>4 DEF TypeOK, AllocFailed, WalkSegs, FramesAccounted
    <2> QED
      BY <1>4, <2>1, <2>2, ZenonT(40) DEF TypeOK, AllocFailed
  <1>5. ASSUME NEW v \in Vm, MapRam(v) PROVE TypeOK'
    <2>1. /\ blk' \in [Vm -> [Block -> Frame \cup {NoFrame}]]
          /\ tlb' \subseteq tlb
          /\ need_flush' \in [Vm -> BOOLEAN]
      <3>1. pc[v] = "map" /\ MapBlocks(v, SegNum[v])
        BY <1>5 DEF MapRam
      <3>2. SegNum[v] \in Nat /\ SegNum[v] <= Len(seg[v])
        BY <3>1, ConstFacts DEF SegFits, Full
      <3> QED BY <3>1, <3>2, MapBlocksType
    <2>2. node' \in [Vm -> SUBSET Nodes]
      BY <1>5, SMTT(40) DEF TypeOK, MapRam, Nodes
    <2> QED
      BY <1>5, <2>1, <2>2 DEF TypeOK, MapRam
  <1>6. ASSUME NEW v \in Vm, MapFailed(v) PROVE TypeOK'
    <2>1. PICK k \in Ram(v), had \in SUBSET Nodes :
            node' = [node EXCEPT ![v] = had] /\ MapBlocks(v, k)
      BY <1>6 DEF MapFailed
    <2>2. k \in Nat /\ k <= Len(seg[v])
      BY <1>6, ConstFacts DEF MapFailed, SegFits, Full, Ram
    <2>3. /\ blk' \in [Vm -> [Block -> Frame \cup {NoFrame}]]
          /\ tlb' \subseteq tlb
          /\ need_flush' \in [Vm -> BOOLEAN]
      BY <2>1, <2>2, MapBlocksType
    <2>4. node' \in [Vm -> SUBSET Nodes]
      BY <2>1 DEF TypeOK
    <2> QED
      BY <1>6, <2>3, <2>4 DEF TypeOK, MapFailed
  <1>7. ASSUME NEW v \in Vm, UnmapRam(v) PROVE TypeOK'
    <2>1. PICK had \in SUBSET Nodes :
            node' = [node EXCEPT ![v] = had] /\ errors' \in 0 .. MaxErrors
      <3>1. PICK had \in SUBSET Nodes :
              /\ MayFail(~(RamNodes(v) \subseteq had))
              /\ node' = [node EXCEPT ![v] = had]
        BY <1>7 DEF UnmapRam
      <3>2. errors' \in 0 .. MaxErrors
        BY <3>1 DEF MayFail, TypeOK, GuestMemAssumption
      <3> QED BY <3>1, <3>2
    <2>2. node' \in [Vm -> SUBSET Nodes]
      BY <2>1 DEF TypeOK
    <2>3. /\ blk' \in [Vm -> [Block -> Frame \cup {NoFrame}]]
          /\ tlb' \subseteq tlb /\ need_flush' \in [Vm -> BOOLEAN]
      BY <1>7 DEF TypeOK, UnmapRam, mem_unlock, arch_tlb_flush, tlb_flush
    <2> QED
      BY <1>7, <2>1, <2>2, <2>3 DEF TypeOK, UnmapRam
  <1>8. ASSUME NEW v \in Vm, MapSerial(v) PROVE TypeOK'
    <2>1. PICK had \in SUBSET Nodes, found \in BOOLEAN :
            /\ MayFail(~found)
            /\ node' = [node EXCEPT ![v] = had]
            /\ page' = [page EXCEPT ![v] = @ \/ found]
            /\ need_flush' = [need_flush EXCEPT ![v] = @ \/ (found /\ page[v])]
      BY <1>8 DEF MapSerial
    <2>2. node' \in [Vm -> SUBSET Nodes] /\ errors' \in 0 .. MaxErrors
      BY <2>1 DEF TypeOK, MayFail, GuestMemAssumption
    <2>3. page' \in [Vm -> BOOLEAN] /\ need_flush' \in [Vm -> BOOLEAN]
      BY <2>1 DEF TypeOK
    <2> QED
      BY <1>8, <2>2, <2>3 DEF TypeOK, MapSerial
  <1>9. ASSUME NEW v \in Vm, LoadSkip(v) PROVE TypeOK'
    BY <1>9 DEF TypeOK, LoadSkip
  <1>10. ASSUME NEW v \in Vm, LoadSegment(v) PROVE TypeOK'
    <2>1. content' \in [Frame -> SUBSET Content]
      BY <1>10 DEF TypeOK, LoadSegment, Content
    <2>2. i' \in [Vm -> Nat] /\ \A w \in Vm : i'[w] <= Len(Image[w])
      <3>1. Image[v] \in Seq(Segment)
        BY DEF GuestMemAssumption
      <3>2. Len(Image[v]) \in Nat
        BY <3>1, LenProperties
      <3> QED BY <1>10, <3>2 DEF TypeOK, LoadSegment
    <2> QED
      BY <1>10, <2>1, <2>2 DEF TypeOK, LoadSegment
  <1>11. ASSUME NEW v \in Vm, LoadFailed(v) PROVE TypeOK'
    BY <1>11 DEF TypeOK, LoadFailed
  <1>12. ASSUME NEW v \in Vm, LoadNoHeaders(v) PROVE TypeOK'
    BY <1>12 DEF TypeOK, LoadNoHeaders
  <1>13. ASSUME NEW v \in Vm, LoadFdt(v) PROVE TypeOK'
    <2>1. content' \in [Frame -> SUBSET Content]
      <3>1. {<<v, "fdt">>} \subseteq Content /\ content \in [Frame -> SUBSET Content]
        BY DEF Content, TypeOK
      <3> DEFINE f == seg[v][calc_fdt_pos(v) + 1]
      <3>2. \/ content' = content
            \/ content' = [content EXCEPT ![f] = @ \cup {<<v, "fdt">>}]
        BY <1>13 DEF LoadFdt
      <3> HIDE DEF f
      <3>3. CASE content' = [content EXCEPT ![f] = @ \cup {<<v, "fdt">>}]
        <4>1. /\ content' = [g \in Frame |-> IF g = f THEN content[g] \cup {<<v, "fdt">>}
                                                    ELSE content[g]]
          BY <3>1, <3>3
        <4>2. \A g \in Frame : content[g] \cup {<<v, "fdt">>} \in SUBSET Content
          BY <3>1
        <4> QED BY <3>1, <4>1, <4>2
      <3> QED BY <3>1, <3>2, <3>3
    <2>2. i' \in [Vm -> Nat] /\ \A w \in Vm : i'[w] <= Len(Image[w])
      BY <1>13, LenProperties DEF TypeOK, LoadFdt, GuestMemAssumption
    <2> QED
      BY <1>13, <2>1, <2>2 DEF TypeOK, LoadFdt
  <1>14. ASSUME NEW v \in Vm, IrqInit(v) PROVE TypeOK'
    <2>1. /\ mmio' \in [Vm -> SUBSET (({"dist"} \cup Cpu) \X Nat)]
          /\ \A w \in Vm : \A m \in mmio'[w] : m[2] <= starts[w]
      BY <1>14 DEF TypeOK, IrqInit, hv_mmio_register, hv_vm_mmio_init
    <2>2. vgic' \in [Vm -> Nat]
      BY <1>14 DEF TypeOK, IrqInit
    <2> QED
      BY <1>14, <2>1, <2>2 DEF TypeOK, IrqInit
  <1>15. ASSUME NEW v \in Vm, IrqFailed(v) PROVE TypeOK'
    <2>1. /\ mmio' \in [Vm -> SUBSET (({"dist"} \cup Cpu) \X Nat)]
          /\ \A w \in Vm : \A m \in mmio'[w] : m[2] <= starts[w]
      BY <1>15 DEF TypeOK, IrqFailed, hv_vm_mmio_init
    <2>2. vgic' \in [Vm -> Nat]
      BY <1>15, SMTT(40) DEF TypeOK, IrqFailed
    <2> QED
      BY <1>15, <2>1, <2>2, SMTT(40) DEF TypeOK, IrqFailed
  <1>16. ASSUME NEW v \in Vm, Launch(v) PROVE TypeOK'
    <2>1. /\ mmio' \in [Vm -> SUBSET (({"dist"} \cup Cpu) \X Nat)]
          /\ \A w \in Vm : \A m \in mmio'[w] : m[2] <= starts[w]
      BY <1>16, StartCommonType DEF Launch, GuestMemAssumption
    <2>2. vttbr' \in [Cpu -> Vm \cup {NoVm}] /\ errors' \in 0 .. MaxErrors
      BY <1>16, StartCommonType DEF Launch, GuestMemAssumption
    <2> QED
      BY <1>16, <2>1, <2>2 DEF TypeOK, Launch, StartCommon
  <1>17. ASSUME NEW v \in Vm, Shutdown(v) PROVE TypeOK'
    BY <1>17 DEF TypeOK, Shutdown
  <1>18. ASSUME NEW v \in Vm, FreeSeg(v) PROVE TypeOK'
    <2>1. Head(seg[v]) \in Frame /\ Head(seg[v]) \in Range(seg[v])
      BY <1>18, HeadFacts DEF FreeSeg
    <2>2. Tail(seg[v]) \in Seq(Frame) /\ Len(Tail(seg[v])) <= SegNum[v]
      BY <1>18, HeadFacts, SegFacts, ConstFacts DEF FreeSeg, TypeOK
    <2>3. free' \subseteq arena
      BY <1>18, <2>1 DEF TypeOK, FreeSeg, FramesAccounted
    <2>4. /\ seg' \in [Vm -> Seq(Frame)]
          /\ \A w \in Vm : Len(seg'[w]) <= SegNum[w]
      BY <1>18, <2>2 DEF TypeOK, FreeSeg
    <2>5. content' \in [Frame -> SUBSET Content]
      BY <1>18 DEF TypeOK, FreeSeg
    <2> QED
      BY <1>18, <2>3, <2>4, <2>5 DEF TypeOK, FreeSeg
  <1>19. ASSUME NEW v \in Vm, Freed(v) PROVE TypeOK'
    BY <1>19 DEF TypeOK, Freed
  <1>20. ASSUME NEW v \in Vm, NEW c \in Cpu, StartSecondary(v, c) PROVE TypeOK'
    <2>1. /\ mmio' \in [Vm -> SUBSET (({"dist"} \cup Cpu) \X Nat)]
          /\ \A w \in Vm : \A m \in mmio'[w] : m[2] <= starts[w]
      BY <1>20, StartCommonType DEF StartSecondary
    <2>2. vttbr' \in [Cpu -> Vm \cup {NoVm}] /\ errors' \in 0 .. MaxErrors
      BY <1>20, StartCommonType DEF StartSecondary
    <2> QED
      BY <1>20, <2>1, <2>2 DEF TypeOK, StartSecondary, StartCommon
  <1>21. ASSUME NEW v \in Vm, NEW c \in Cpu, SwitchTo(v, c) PROVE TypeOK'
    BY <1>21 DEF TypeOK, SwitchTo
  <1>22. ASSUME NEW c \in Cpu, NEW b \in Block, Walk(c, b) PROVE TypeOK'
    <2>1. tlb' \subseteq Trans
      BY <1>22 DEF TypeOK, Walk, Trans
    <2> QED
      BY <1>22, <2>1 DEF TypeOK, Walk
  <1> QED
    BY <1>1, <1>2, <1>3, <1>4, <1>5, <1>6, <1>7, <1>8, <1>9, <1>10,
       <1>11, <1>12, <1>13, <1>14, <1>15, <1>16, <1>17, <1>18, <1>19, <1>20, <1>21,
       <1>22 DEF Next

-----------------------------------------------------------------------------
(* The frames.                                                             *)

\* Three operations change who holds a frame.
LEMMA FrameSteps ==
  ASSUME Next
  PROVE  \/ \E v \in Vm : AllocSeg(v) \/ AllocFailed(v) \/ FreeSeg(v)
         \/ UNCHANGED <<arena, free, seg>>
  <1>1. ASSUME NEW v \in Vm,
               \/ Start(v) \/ AllocRefused(v) \/ MapRam(v) \/ MapFailed(v)
               \/ UnmapRam(v) \/ MapSerial(v) \/ LoadSkip(v) \/ LoadSegment(v)
               \/ LoadFailed(v) \/ LoadNoHeaders(v) \/ LoadFdt(v) \/ IrqInit(v)
               \/ IrqFailed(v) \/ Launch(v) \/ Shutdown(v) \/ Freed(v)
               \/ \E c \in Cpu : StartSecondary(v, c) \/ SwitchTo(v, c)
        PROVE  UNCHANGED <<arena, free, seg>>
    BY <1>1 DEF Start, AllocRefused, MapRam, MapFailed, UnmapRam, MapSerial,
       LoadSkip, LoadSegment, LoadFailed, LoadNoHeaders, LoadFdt, IrqInit,
       IrqFailed, Launch, Shutdown, Freed, StartSecondary, SwitchTo, StartCommon,
       still
  <1>2. ASSUME NEW c \in Cpu, NEW b \in Block, Walk(c, b)
        PROVE  UNCHANGED <<arena, free, seg>>
    BY <1>2 DEF Walk, still
  <1> QED BY <1>1, <1>2 DEF Next

\* What lkhv_alloc_mem and lkhv_vm_free_mem do to a machine's frames.
LEMMA AllocSegShape ==
  ASSUME GuestMemAssumption, TypeOK, NEW v \in Vm, AllocSeg(v)
  PROVE  \E f \in free :
           /\ seg'[v] \in Seq(Frame) /\ Len(seg'[v]) = Len(seg[v]) + 1
           /\ \A k \in 1 .. Len(seg[v]) : seg'[v][k] = seg[v][k]
           /\ seg'[v][Len(seg[v]) + 1] = f
           /\ Range(seg'[v]) = Range(seg[v]) \cup {f}
           /\ \A w \in Vm : w # v => seg'[w] = seg[w]
           /\ free' = free \ {f} /\ arena' = arena
  <1> DEFINE f == pmm_alloc_contiguous
  <1>1. f \in free /\ f \in Frame
    BY AllocFree DEF AllocSeg
  <1>2. /\ seg' = [seg EXCEPT ![v] = Append(seg[v], f)]
        /\ free' = free \ {f} /\ arena' = arena
    BY DEF AllocSeg, still
  <1>3. seg'[v] = Append(seg[v], f) /\ \A w \in Vm : w # v => seg'[w] = seg[w]
    BY <1>2 DEF TypeOK
  <1> HIDE DEF f
  <1>4. seg[v] \in Seq(Frame) /\ Len(seg[v]) \in Nat
    BY SegFacts
  <1>5. /\ seg'[v] \in Seq(Frame) /\ Len(seg'[v]) = Len(seg[v]) + 1
        /\ \A k \in 1 .. Len(seg[v]) : seg'[v][k] = seg[v][k]
        /\ seg'[v][Len(seg[v]) + 1] = f
    BY <1>1, <1>3, <1>4, AppendProperties
  <1>6. Range(seg'[v]) = Range(seg[v]) \cup {f}
    <2>1. /\ Range(seg'[v]) = {seg'[v][k] : k \in 1 .. Len(seg'[v])}
          /\ Range(seg[v]) = {seg[v][k] : k \in 1 .. Len(seg[v])}
      BY <1>4, <1>5, RangeEquality
    <2>2. ASSUME NEW g \in Range(seg'[v]) PROVE g \in Range(seg[v]) \cup {f}
      <3>1. PICK k \in 1 .. Len(seg'[v]) : g = seg'[v][k]
        BY <2>1, <2>2
      <3>2. CASE k \in 1 .. Len(seg[v])
        BY <1>5, <2>1, <3>1, <3>2
      <3>3. CASE k = Len(seg[v]) + 1
        BY <1>5, <3>1, <3>3
      <3> QED BY <1>4, <1>5, <3>2, <3>3
    <2>3. ASSUME NEW g \in Range(seg[v]) PROVE g \in Range(seg'[v])
      <3>1. PICK k \in 1 .. Len(seg[v]) : g = seg[v][k]
        BY <2>1, <2>3
      <3>2. k \in 1 .. Len(seg'[v]) /\ g = seg'[v][k]
        BY <1>4, <1>5, <3>1
      <3> QED BY <2>1, <3>2
    <2>4. f \in Range(seg'[v])
      <3>1. Len(seg[v]) + 1 \in 1 .. Len(seg'[v])
        BY <1>4, <1>5
      <3> QED BY <1>5, <2>1, <3>1
    <2> QED BY <2>2, <2>3, <2>4
  <1> QED BY <1>1, <1>2, <1>3, <1>5, <1>6

\* What a machine holds follows where it is: each step of its life keeps it.
LEMMA SegFitsStep ==
  ASSUME GuestMemAssumption, TypeOK, SegFits, Next
  PROVE  SegFits'
  <1> USE DEF Is, GoTo, still
  <1>0. pc \in [Vm -> PcState] /\ seg \in [Vm -> Seq(Frame)]
    BY DEF TypeOK
  <1>1. ASSUME NEW v \in Vm, AllocSeg(v) PROVE SegFits'
    <2>1. /\ Len(seg'[v]) = Len(seg[v]) + 1 /\ seg'[v] # <<>>
          /\ \A w \in Vm : w # v => seg'[w] = seg[w]
      BY <1>1, AllocSegShape, SegFacts, EmptySeq
    <2>2. Len(seg[v]) \in Nat /\ SegNum[v] \in Nat /\ Len(seg[v]) < SegNum[v]
      BY <1>1, SegFacts, ConstFacts DEF AllocSeg
    <2>3. \A w \in Vm : w # v => pc'[w] = pc[w]
      BY <1>0, <1>1 DEF AllocSeg
    <2>4. pc'[v] = IF Len(seg[v]) + 1 = SegNum[v] THEN "map" ELSE "alloc"
      BY <1>0, <1>1 DEF AllocSeg
    <2>5. /\ pc'[v] = "alloc" => Len(seg'[v]) < SegNum[v]
          /\ pc'[v] \in Full => Len(seg'[v]) = SegNum[v]
          /\ pc'[v] \notin {"off", "dead"}
      BY <2>1, <2>2, <2>4 DEF Full
    <2> QED BY <2>1, <2>3, <2>5 DEF SegFits
  <1>2. ASSUME NEW v \in Vm, AllocFailed(v) PROVE SegFits'
    BY <1>0, <1>2 DEF AllocFailed, SegFits, Full
  <1>3. ASSUME NEW v \in Vm, FreeSeg(v) PROVE SegFits'
    BY <1>0, <1>3 DEF FreeSeg, SegFits, Full
  <1>4. ASSUME NEW v \in Vm, Start(v) PROVE SegFits'
    <2>1. Len(seg[v]) = 0 /\ SegNum[v] \in Nat \ {0}
      BY <1>4, SegFacts, ConstFacts DEF Start, SegFits
    <2> QED BY <1>0, <1>4, <2>1 DEF Start, SegFits, Full
  <1>5. ASSUME NEW v \in Vm,
               \/ AllocRefused(v) \/ MapRam(v) \/ MapFailed(v)
               \/ UnmapRam(v) \/ MapSerial(v) \/ LoadSkip(v) \/ LoadSegment(v)
               \/ LoadFailed(v) \/ LoadNoHeaders(v) \/ LoadFdt(v) \/ IrqInit(v)
               \/ IrqFailed(v) \/ Launch(v) \/ Shutdown(v) \/ Freed(v)
               \/ \E c \in Cpu : StartSecondary(v, c) \/ SwitchTo(v, c)
        PROVE  SegFits'
    <2>1. UNCHANGED seg
      BY <1>5 DEF AllocRefused, MapRam, MapFailed, UnmapRam, MapSerial,
         LoadSkip, LoadSegment, LoadFailed, LoadNoHeaders, LoadFdt, IrqInit,
         IrqFailed, Launch, Shutdown, Freed, StartSecondary, SwitchTo, StartCommon
    <2>2. \A w \in Vm : w # v => pc'[w] = pc[w]
      BY <1>0, <1>5 DEF AllocRefused, MapRam, MapFailed, UnmapRam, MapSerial,
         LoadSkip, LoadSegment, LoadFailed, LoadNoHeaders, LoadFdt, IrqInit,
         IrqFailed, Launch, Shutdown, Freed, StartSecondary, SwitchTo, StartCommon
    <2>3. \/ pc'[v] \in {"off", "dead"} /\ seg[v] = <<>>
          \/ pc'[v] \in Full /\ pc[v] \in Full
          \/ pc'[v] \in {"free", "down"}
      BY <1>0, <1>5 DEF AllocRefused, MapRam, MapFailed, UnmapRam, MapSerial,
         LoadSkip, LoadSegment, LoadFailed, LoadNoHeaders, LoadFdt, IrqInit,
         IrqFailed, Launch, Shutdown, Freed, StartSecondary, SwitchTo, StartCommon,
         Full
    <2> QED BY <2>1, <2>2, <2>3 DEF SegFits, Full
  <1>6. ASSUME NEW c \in Cpu, NEW b \in Block, Walk(c, b) PROVE SegFits'
    BY <1>6 DEF Walk, SegFits
  <1> QED BY <1>1, <1>2, <1>3, <1>4, <1>5, <1>6 DEF Next

\* No two positions of a sequence hold the same frame.
OnlyOnce(s) == \A j, k \in DOMAIN s : s[j] = s[k] => j = k

\* Every step keeps the account of the frames: what it takes from the free list
\* it adds to one machine, and the other way round.
LEMMA FramesStep ==
  ASSUME GuestMemAssumption, TypeOK, FramesAccounted,
         Next \/ UNCHANGED <<arena, free, seg>>
  PROVE  FramesAccounted'
  <1>0. /\ \A f : f \in arena <=> f \in free \/ \E w \in Vm : f \in Range(seg[w])
        /\ \A w \in Vm : \A f \in Range(seg[w]) : f \notin free
        /\ \A w \in Vm : OnlyOnce(seg[w])
        /\ \A w, u \in Vm : w # u => \A f \in Range(seg[w]) : f \notin Range(seg[u])
    <2>1. \A f : f \in arena <=> f \in free \/ \E w \in Vm : f \in Range(seg[w])
      <3>1. free \cup UNION {Range(seg[w]) : w \in Vm} = arena
        BY DEF FramesAccounted
      <3>2. \A f : f \in UNION {Range(seg[w]) : w \in Vm}
                     <=> \E w \in Vm : f \in Range(seg[w])
        OBVIOUS
      <3> QED BY <3>1, <3>2
    <2>2. \A w \in Vm : OnlyOnce(seg[w])
      BY Zenon DEF FramesAccounted, OnlyOnce
    <2>3. /\ \A w \in Vm : \A f \in Range(seg[w]) : f \notin free
          /\ \A w, u \in Vm : w # u => \A f \in Range(seg[w]) : f \notin Range(seg[u])
      <3>1. \A w \in Vm : Range(seg[w]) \cap free = {}
        BY DEF FramesAccounted
      <3>2. \A w \in Vm : \A u \in Vm \ {w} : Range(seg[w]) \cap Range(seg[u]) = {}
        BY DEF FramesAccounted
      <3> QED BY <3>1, <3>2
    <2> QED BY <2>1, <2>2, <2>3
  <1>1. ASSUME /\ \A f : f \in arena' <=> f \in free' \/ \E w \in Vm : f \in Range(seg'[w])
               /\ \A w \in Vm : \A f \in Range(seg'[w]) : f \notin free'
               /\ \A w \in Vm : OnlyOnce(seg'[w])
               /\ \A w, u \in Vm : w # u =>
                    \A f \in Range(seg'[w]) : f \notin Range(seg'[u])
        PROVE  FramesAccounted'
    <2>1. free' \cup UNION {Range(seg'[w]) : w \in Vm} = arena'
      <3>1. \A f : f \in UNION {Range(seg'[w]) : w \in Vm}
                     <=> \E w \in Vm : f \in Range(seg'[w])
        OBVIOUS
      <3> QED BY <1>1, <3>1
    <2>2. \A w \in Vm : \A j, k \in DOMAIN seg'[w] : seg'[w][j] = seg'[w][k] => j = k
      BY <1>1, Zenon DEF OnlyOnce
    <2>3. \A w \in Vm : Range(seg'[w]) \cap free' = {}
      BY <1>1
    <2>4. \A w \in Vm : \A u \in Vm \ {w} : Range(seg'[w]) \cap Range(seg'[u]) = {}
      BY <1>1
    <2> QED BY <2>1, <2>2, <2>3, <2>4, Zenon DEF FramesAccounted
  <1>2. ASSUME NEW v \in Vm, AllocSeg(v) PROVE FramesAccounted'
    <2>1. PICK f \in free :
            /\ seg'[v] \in Seq(Frame) /\ Len(seg'[v]) = Len(seg[v]) + 1
            /\ \A k \in 1 .. Len(seg[v]) : seg'[v][k] = seg[v][k]
            /\ seg'[v][Len(seg[v]) + 1] = f
            /\ Range(seg'[v]) = Range(seg[v]) \cup {f}
            /\ \A w \in Vm : w # v => seg'[w] = seg[w]
            /\ free' = free \ {f} /\ arena' = arena
      BY <1>2, AllocSegShape
    <2>a. \A g : /\ g \in free' <=> g \in free /\ g # f
                 /\ g \in Range(seg'[v]) <=> g \in Range(seg[v]) \/ g = f
                 /\ \A w \in Vm : w # v => (g \in Range(seg'[w]) <=> g \in Range(seg[w]))
      BY <2>1
    <2>b. arena' = arena /\ f \in free
      BY <2>1
    <2>2. \A g : g \in arena' <=> g \in free' \/ \E w \in Vm : g \in Range(seg'[w])
      <3> TAKE g
      <3>1. (\E w \in Vm : g \in Range(seg'[w]))
              <=> g = f \/ \E w \in Vm : g \in Range(seg[w])
        BY <2>a
      <3> QED BY <1>0, <2>a, <2>b, <3>1
    <2>3. ASSUME NEW w \in Vm, NEW u \in Vm, w # u, NEW g \in Range(seg'[w])
          PROVE  g \notin Range(seg'[u])
      <3>1. f \notin Range(seg[w]) /\ f \notin Range(seg[u])
        BY <1>0, <2>b
      <3>2. g \in Range(seg[w]) => g \notin Range(seg[u])
        BY <1>0, <2>3
      <3>3. CASE w = v
        BY <2>a, <2>3, <3>1, <3>2, <3>3
      <3>4. CASE w # v
        BY <2>a, <2>3, <3>1, <3>2, <3>4
      <3> QED BY <3>3, <3>4
    <2>4. ASSUME NEW w \in Vm, NEW g \in Range(seg'[w])
          PROVE  g \notin free'
      <3>1. g \in Range(seg[w]) \/ g = f
        BY <2>a, <2>4
      <3> QED BY <1>0, <2>a, <3>1
    <2>5. OnlyOnce(seg'[v])
      <3>1. /\ DOMAIN seg'[v] = 1 .. (Len(seg[v]) + 1)
            /\ DOMAIN seg[v] = 1 .. Len(seg[v]) /\ Len(seg[v]) \in Nat
        BY <2>1, SegFacts, LenProperties
      <3>2. \A k \in 1 .. Len(seg[v]) : seg[v][k] \in Range(seg[v])
        BY <3>1 DEF Range
      <3>3. \A k \in 1 .. Len(seg[v]) : seg[v][k] # f
        BY <1>0, <2>1, <3>2
      <3>4. \A j, k \in 1 .. Len(seg[v]) : seg[v][j] = seg[v][k] => j = k
        BY <1>0, <3>1 DEF OnlyOnce
      <3>5. ASSUME NEW j \in 1 .. (Len(seg[v]) + 1),
                   NEW k \in 1 .. (Len(seg[v]) + 1), seg'[v][j] = seg'[v][k]
            PROVE  j = k
        <4>1. CASE j \in 1 .. Len(seg[v]) /\ k \in 1 .. Len(seg[v])
          BY <2>1, <3>4, <3>5, <4>1
        <4>2. CASE j \in 1 .. Len(seg[v]) /\ k = Len(seg[v]) + 1
          BY <2>1, <3>3, <3>5, <4>2
        <4>3. CASE k \in 1 .. Len(seg[v]) /\ j = Len(seg[v]) + 1
          BY <2>1, <3>3, <3>5, <4>3
        <4>4. CASE j = Len(seg[v]) + 1 /\ k = Len(seg[v]) + 1
          BY <4>4
        <4>5. /\ j \in 1 .. Len(seg[v]) \/ j = Len(seg[v]) + 1
              /\ k \in 1 .. Len(seg[v]) \/ k = Len(seg[v]) + 1
          <5>1. Len(seg[v]) \in Nat
            BY <3>1
          <5> QED BY ONLY <5>1, j \in 1 .. (Len(seg[v]) + 1), k \in 1 .. (Len(seg[v]) + 1)
        <4> QED BY <4>1, <4>2, <4>3, <4>4, <4>5
      <3> QED BY <3>1, <3>5 DEF OnlyOnce
    <2> QED BY <1>0, <1>1, <2>1, <2>2, <2>3, <2>4, <2>5
  <1>3. ASSUME NEW v \in Vm, AllocFailed(v) PROVE FramesAccounted'
    <2>1. \/ UNCHANGED <<arena, free, seg>>
          \/ /\ free' = free \cup Range(seg[v]) /\ arena' = arena
             /\ seg' = [seg EXCEPT ![v] = <<>>]
      BY <1>3 DEF AllocFailed, WalkSegs
    <2>2. CASE UNCHANGED <<arena, free, seg>>
      BY <1>0, <1>1, <2>2
    <2>3. CASE /\ free' = free \cup Range(seg[v]) /\ arena' = arena
               /\ seg' = [seg EXCEPT ![v] = <<>>]
      <3>1. /\ seg'[v] = <<>> /\ \A w \in Vm : w # v => seg'[w] = seg[w]
            /\ free' = free \cup Range(seg[v]) /\ arena' = arena
        BY <2>3 DEF TypeOK
      <3>2. Range(seg'[v]) = {} /\ OnlyOnce(seg'[v])
        BY <3>1 DEF Range, OnlyOnce
      <3>3. \A g : g \in arena' <=> g \in free' \/ \E w \in Vm : g \in Range(seg'[w])
        BY <1>0, <3>1, <3>2
      <3>4. \A w, u \in Vm : w # u =>
            \A g \in Range(seg'[w]) : g \notin Range(seg'[u])
        BY <1>0, <3>1, <3>2
      <3>5. \A w \in Vm : (\A g \in Range(seg'[w]) : g \notin free') /\ OnlyOnce(seg'[w])
        BY <1>0, <3>1, <3>2
      <3> QED BY <1>1, <3>3, <3>4, <3>5
    <2> QED BY <2>1, <2>2, <2>3
  <1>4. ASSUME NEW v \in Vm, FreeSeg(v) PROVE FramesAccounted'
    <2> DEFINE f == Head(seg[v])
    <2>1. /\ seg[v] # <<>> /\ seg' = [seg EXCEPT ![v] = Tail(seg[v])]
          /\ free' = free \cup {f} /\ arena' = arena
      BY <1>4 DEF FreeSeg, still
    <2>2. seg'[v] = Tail(seg[v]) /\ \A w \in Vm : w # v => seg'[w] = seg[w]
      BY <2>1 DEF TypeOK
    <2>3. /\ Len(seg[v]) \in Nat \ {0} /\ f = seg[v][1] /\ f \in Range(seg[v])
          /\ Tail(seg[v]) \in Seq(Frame) /\ Len(Tail(seg[v])) = Len(seg[v]) - 1
          /\ \A k \in 1 .. (Len(seg[v]) - 1) : Tail(seg[v])[k] = seg[v][k + 1]
          /\ Range(Tail(seg[v])) = {seg[v][k] : k \in 2 .. Len(seg[v])}
      BY <2>1, HeadFacts
    <2> HIDE DEF f
    <2>4. /\ Range(seg[v]) = {seg[v][k] : k \in 1 .. Len(seg[v])}
          /\ DOMAIN seg[v] = 1 .. Len(seg[v])
          /\ DOMAIN Tail(seg[v]) = 1 .. (Len(seg[v]) - 1)
      BY <2>3, SegFacts, LenProperties
    <2>5. Range(seg[v]) = Range(seg'[v]) \cup {f} /\ f \notin Range(seg'[v])
      <3>1. Range(seg[v]) = Range(seg'[v]) \cup {f}
        BY <2>2, <2>3, <2>4
      <3>2. \A k \in 2 .. Len(seg[v]) : seg[v][k] # seg[v][1]
        <4>1. \A j, k \in 1 .. Len(seg[v]) : seg[v][j] = seg[v][k] => j = k
          BY <1>0, <2>4 DEF OnlyOnce
        <4>2. 1 \in 1 .. Len(seg[v])
          BY <2>3
        <4>3. ASSUME NEW k \in 2 .. Len(seg[v]), seg[v][k] = seg[v][1] PROVE FALSE
          <5>1. k \in 1 .. Len(seg[v]) /\ k # 1
            BY <2>3
          <5> QED BY <4>1, <4>2, <4>3, <5>1
        <4> QED BY <4>3
      <3>3. f \notin Range(seg'[v])
        <4>1. Range(seg'[v]) = {seg[v][k] : k \in 2 .. Len(seg[v])} /\ f = seg[v][1]
          BY <2>2, <2>3
        <4> QED BY <3>2, <4>1
      <3> QED BY <3>1, <3>3
    <2>6. OnlyOnce(seg'[v])
      BY <1>0, <2>2, <2>3, <2>4, SMTT(40) DEF OnlyOnce
    <2>7. \A g : g \in arena' <=> g \in free' \/ \E w \in Vm : g \in Range(seg'[w])
      BY <1>0, <2>1, <2>2, <2>5
    <2>8. \A w, u \in Vm : w # u =>
            \A g \in Range(seg'[w]) : g \notin Range(seg'[u])
      BY <1>0, <2>2, <2>5
    <2>9. \A w \in Vm : \A g \in Range(seg'[w]) : g \notin free'
      BY <1>0, <2>1, <2>2, <2>5
    <2> QED BY <1>0, <1>1, <2>2, <2>6, <2>7, <2>8, <2>9
  <1>5. CASE UNCHANGED <<arena, free, seg>>
    BY <1>0, <1>1, <1>5
  <1> QED BY <1>2, <1>3, <1>4, <1>5, FrameSteps

-----------------------------------------------------------------------------
(* The tables and the translation buffers.                                 *)

\* Four operations change a table or a translation buffer.
LEMMA TableSteps ==
  ASSUME Next
  PROVE  \/ \E v \in Vm : MapRam(v) \/ MapFailed(v) \/ UnmapRam(v)
         \/ \E c \in Cpu, b \in Block : Walk(c, b)
         \/ UNCHANGED <<blk, tlb>>
  <1>1. ASSUME NEW v \in Vm,
               \/ Start(v) \/ AllocRefused(v) \/ AllocSeg(v) \/ AllocFailed(v)
               \/ MapSerial(v) \/ LoadSkip(v) \/ LoadSegment(v)
               \/ LoadFailed(v) \/ LoadNoHeaders(v) \/ LoadFdt(v) \/ IrqInit(v)
               \/ IrqFailed(v) \/ Launch(v) \/ Shutdown(v) \/ FreeSeg(v) \/ Freed(v)
               \/ \E c \in Cpu : StartSecondary(v, c) \/ SwitchTo(v, c)
        PROVE  UNCHANGED <<blk, tlb>>
    BY <1>1 DEF Start, AllocRefused, AllocSeg, AllocFailed, MapSerial,
       LoadSkip, LoadSegment, LoadFailed, LoadNoHeaders, LoadFdt, IrqInit,
       IrqFailed, Launch, Shutdown, FreeSeg, Freed, StartSecondary, SwitchTo,
       StartCommon, tables
  <1> QED BY <1>1 DEF Next

\* A machine comes to have a mapped table by lkhv_map_ram only, and keeps its
\* frames for as long.
LEMMA MappedSteps ==
  ASSUME TypeOK, Next, NEW w \in Vm, pc'[w] \in Mapped
  PROVE  MapRam(w) \/ (pc[w] \in Mapped /\ seg'[w] = seg[w])
  <1> USE DEF Is, GoTo, Mapped
  <1>0. pc \in [Vm -> PcState] /\ seg \in [Vm -> Seq(Frame)]
    BY DEF TypeOK
  <1>1. ASSUME NEW v \in Vm, AllocSeg(v) \/ AllocFailed(v) \/ FreeSeg(v)
        PROVE  pc[w] \in Mapped /\ seg'[w] = seg[w]
    BY <1>0, <1>1 DEF AllocSeg, AllocFailed, FreeSeg
  <1>2. ASSUME NEW v \in Vm, MapRam(v)
        PROVE  MapRam(w) \/ (pc[w] \in Mapped /\ seg'[w] = seg[w])
    <2>1. CASE v = w
      BY <1>2, <2>1
    <2>2. CASE v # w
      BY <1>0, <1>2, <2>2 DEF MapRam
    <2> QED BY <2>1, <2>2
  <1>3. ASSUME NEW v \in Vm,
               \/ Start(v) \/ AllocRefused(v) \/ MapFailed(v)
               \/ UnmapRam(v) \/ MapSerial(v) \/ LoadSkip(v) \/ LoadSegment(v)
               \/ LoadFailed(v) \/ LoadNoHeaders(v) \/ LoadFdt(v) \/ IrqInit(v)
               \/ IrqFailed(v) \/ Launch(v) \/ Shutdown(v) \/ Freed(v)
               \/ \E c \in Cpu : StartSecondary(v, c) \/ SwitchTo(v, c)
        PROVE  pc[w] \in Mapped /\ seg'[w] = seg[w]
    BY <1>0, <1>3 DEF Start, AllocRefused, MapFailed, UnmapRam, MapSerial,
       LoadSkip, LoadSegment, LoadFailed, LoadNoHeaders, LoadFdt, IrqInit,
       IrqFailed, Launch, Shutdown, Freed, StartSecondary, SwitchTo, StartCommon
  <1>4. ASSUME NEW c \in Cpu, NEW b \in Block, Walk(c, b)
        PROVE  pc[w] \in Mapped /\ seg'[w] = seg[w]
    BY <1>4 DEF Walk
  <1> QED BY <1>1, <1>2, <1>3, <1>4 DEF Next

\* What mapping the blocks below k leaves: their entries name the machine's
\* frames, and nothing is cached anew.
LEMMA MapBlocksShape ==
  ASSUME TypeOK, NEW v \in Vm, NEW k \in Nat, MapBlocks(v, k)
  PROVE  /\ \A w \in Vm : w # v => blk'[w] = blk[w]
         /\ \A b \in Block :
              blk'[v][b] = IF b < k THEN seg[v][b + 1] ELSE blk[v][b]
         /\ tlb' \subseteq tlb
  <1>1. blk' = [blk EXCEPT ![v] =
                [b \in Block |-> IF b \in {c \in Block : c < k} THEN seg[v][b + 1]
                                                            ELSE blk[v][b]]]
    BY DEF MapBlocks, mem_pte_set
  <1>2. \A w \in Vm : w # v => blk'[w] = blk[w]
    BY <1>1 DEF TypeOK
  <1>3. \A b \in Block :
          blk'[v][b] = IF b < k THEN seg[v][b + 1] ELSE blk[v][b]
    BY <1>1 DEF TypeOK
  <1>4. tlb' \subseteq tlb
    BY DEF MapBlocks, mem_unlock, arch_tlb_flush, tlb_flush, tlb_flush_ipa
  <1> QED BY <1>2, <1>3, <1>4

\* Every step keeps the tables and the translation buffers in order.
LEMMA TablesStep ==
  ASSUME GuestMemAssumption, TypeOK, SegFits, TableInRam, TableMaps,
         UnmappedFlushed, Next
  PROVE  TableInRam' /\ TableMaps' /\ UnmappedFlushed'
  <1>1. ASSUME NEW v \in Vm, MapRam(v)
        PROVE  TableInRam' /\ TableMaps' /\ UnmappedFlushed'
    <2>1. pc[v] = "map" /\ MapBlocks(v, SegNum[v]) /\ seg' = seg
      BY <1>1 DEF MapRam, Is
    <2>2. SegNum[v] \in Nat /\ Len(seg[v]) = SegNum[v]
      BY <2>1, ConstFacts DEF SegFits, Full
    <2>3. /\ \A w \in Vm : w # v => blk'[w] = blk[w]
          /\ \A b \in Block :
               blk'[v][b] = IF b < SegNum[v] THEN seg[v][b + 1] ELSE blk[v][b]
          /\ tlb' \subseteq tlb
      BY <2>1, <2>2, MapBlocksShape
    <2>4. \A b \in Ram(v) : blk'[v][b] = seg[v][b + 1] /\ blk'[v][b] # NoFrame
      BY <2>2, <2>3, ConstFacts, SegFacts, SMTT(40)
    <2>5. \A b \in Block \ Ram(v) : blk'[v][b] = blk[v][b]
      BY <2>3, ConstFacts
    <2>6. TableInRam'
      <3> SUFFICES ASSUME NEW w \in Vm, NEW b \in Block \ Ram(w)
                   PROVE  blk'[w][b] = NoFrame
        BY DEF TableInRam
      <3>1. blk'[w][b] = blk[w][b]
        BY <2>3, <2>5
      <3> QED BY <3>1 DEF TableInRam
    <2>7. TableMaps'
      <3> SUFFICES ASSUME NEW w \in Vm, pc'[w] \in Mapped, NEW b \in Ram(w)
                   PROVE  blk'[w][b] = seg'[w][b + 1]
        BY DEF TableMaps
      <3>1. CASE w = v
        BY <2>1, <2>4, <3>1
      <3>2. CASE w # v
        <4>1. pc[w] \in Mapped
          BY <1>1, <3>2 DEF MapRam, GoTo, TypeOK
        <4>2. blk[w][b] = seg[w][b + 1]
          BY <4>1 DEF TableMaps
        <4>3. blk'[w] = blk[w] /\ seg' = seg
          BY <2>1, <2>3, <3>2
        <4> QED BY <4>2, <4>3
      <3> QED BY <3>1, <3>2
    <2>8. UnmappedFlushed'
      <3> SUFFICES ASSUME NEW w \in Vm, NEW b \in Block, blk'[w][b] = NoFrame,
                          NEW e \in tlb', e[1] = w, e[2] = b
                   PROVE  FALSE
        BY DEF UnmappedFlushed
      <3>1. blk[w][b] = NoFrame /\ e \in tlb
        <4>1. CASE w = v
          BY <2>3, <2>4, <2>5, <4>1
        <4>2. CASE w # v
          BY <2>3, <4>2
        <4> QED BY <4>1, <4>2
      <3> QED BY <3>1 DEF UnmappedFlushed
    <2> QED BY <2>6, <2>7, <2>8
  <1>2. ASSUME NEW v \in Vm, MapFailed(v)
        PROVE  TableInRam' /\ TableMaps' /\ UnmappedFlushed'
    <2>1. PICK k \in Ram(v) : MapBlocks(v, k)
      BY <1>2 DEF MapFailed
    <2>2. /\ pc[v] = "map" /\ seg' = seg
          /\ pc' = [pc EXCEPT ![v] = "unmap"]
      BY <1>2 DEF MapFailed, Is, GoTo
    <2>3. k \in Nat /\ k <= Len(seg[v]) /\ k <= SegNum[v] /\ k # SegNum[v]
      BY <2>2, ConstFacts DEF SegFits, Full, Ram
    <2>4. /\ \A w \in Vm : w # v => blk'[w] = blk[w]
          /\ \A b \in Block :
               blk'[v][b] = IF b < k THEN seg[v][b + 1] ELSE blk[v][b]
          /\ tlb' \subseteq tlb
      BY <2>1, <2>3, MapBlocksShape
    <2>5. \A b \in Block : b < k => b \in Ram(v) /\ seg[v][b + 1] # NoFrame
      BY <2>3, ConstFacts, SegFacts, SMTT(40)
    <2>6. ASSUME NEW b \in Block
          PROVE  \/ blk'[v][b] = blk[v][b]
                 \/ b \in Ram(v) /\ blk'[v][b] # NoFrame
      <3>1. CASE b < k
        BY <2>4, <2>5, <3>1
      <3>2. CASE ~(b < k)
        BY <2>4, <3>2
      <3> QED BY <3>1, <3>2
    <2>7. \A w \in Vm : pc'[w] \in Mapped => w # v /\ pc[w] \in Mapped
      BY <2>2 DEF Mapped, TypeOK
    <2>8. TableInRam'
      <3> SUFFICES ASSUME NEW w \in Vm, NEW b \in Block \ Ram(w)
                   PROVE  blk'[w][b] = NoFrame
        BY DEF TableInRam
      <3>1. blk'[w][b] = blk[w][b]
        BY <2>4, <2>6
      <3> QED BY <3>1 DEF TableInRam
    <2>9. ASSUME NEW w \in Vm, pc'[w] \in Mapped
          PROVE  pc[w] \in Mapped /\ blk'[w] = blk[w] /\ seg'[w] = seg[w]
      BY <2>2, <2>4, <2>7, <2>9
    <2>10. TableMaps'
      <3> SUFFICES ASSUME NEW w \in Vm, pc'[w] \in Mapped, NEW b \in Ram(w)
                   PROVE  blk'[w][b] = seg'[w][b + 1]
        BY DEF TableMaps
      <3>1. pc[w] \in Mapped /\ blk'[w] = blk[w] /\ seg'[w] = seg[w]
        BY <2>9
      <3>2. blk[w][b] = seg[w][b + 1]
        BY <3>1 DEF TableMaps
      <3> QED BY <3>1, <3>2
    <2>11. UnmappedFlushed'
      <3> SUFFICES ASSUME NEW w \in Vm, NEW b \in Block, blk'[w][b] = NoFrame,
                          NEW e \in tlb', e[1] = w, e[2] = b
                   PROVE  FALSE
        BY DEF UnmappedFlushed
      <3>1. blk[w][b] = NoFrame /\ e \in tlb
        BY <2>4, <2>6
      <3> QED BY <3>1 DEF UnmappedFlushed
    <2> QED BY <2>8, <2>10, <2>11
  <1>3. ASSUME NEW v \in Vm, UnmapRam(v)
        PROVE  TableInRam' /\ TableMaps' /\ UnmappedFlushed'
    <2>1. /\ seg' = seg
          /\ pc' = [pc EXCEPT ![v] = "free"]
          /\ blk' = [blk EXCEPT ![v] = [b \in Block |-> NoFrame]]
          /\ mem_unlock(v, need_flush[v] \/ \E b \in Ram(v) : blk[v][b] # NoFrame, tlb)
      BY <1>3 DEF UnmapRam, GoTo
    <2>2. /\ \A w \in Vm : w # v => blk'[w] = blk[w]
          /\ \A b \in Block : blk'[v][b] = NoFrame
      BY <2>1 DEF TypeOK
    <2>3. tlb' \subseteq tlb /\ \A e \in tlb' : e[1] # v
      <3>1. CASE \E b \in Ram(v) : blk[v][b] # NoFrame
        BY <2>1, <3>1 DEF mem_unlock, arch_tlb_flush, tlb_flush
      <3>2. CASE \A b \in Ram(v) : blk[v][b] = NoFrame
        <4>1. tlb' \subseteq tlb
          BY <2>1 DEF mem_unlock, arch_tlb_flush, tlb_flush
        <4>2. \A e \in tlb : e[2] \in Block
          BY DEF TypeOK, Trans
        <4>3. \A b \in Block : blk[v][b] = NoFrame
          BY <3>2 DEF TableInRam
        <4>4. ASSUME NEW e \in tlb', e[1] = v PROVE FALSE
          <5>1. e \in tlb /\ e[2] \in Block
            BY <4>1, <4>2
          <5> QED BY <4>3, <4>4, <5>1 DEF UnmappedFlushed
        <4> QED BY <4>1, <4>4
      <3> QED BY <3>1, <3>2
    <2>4. \A w \in Vm : pc'[w] \in Mapped => w # v /\ pc[w] \in Mapped
      BY <2>1 DEF Mapped, TypeOK
    <2>5. TableInRam'
      BY <2>2 DEF TableInRam
    <2>6. TableMaps'
      BY <2>1, <2>2, <2>4 DEF TableMaps
    <2>7. UnmappedFlushed'
      <3> SUFFICES ASSUME NEW w \in Vm, NEW b \in Block, blk'[w][b] = NoFrame,
                          NEW e \in tlb', e[1] = w, e[2] = b
                   PROVE  FALSE
        BY DEF UnmappedFlushed
      <3>1. w # v /\ e \in tlb
        BY <2>3
      <3>2. blk[w][b] = NoFrame
        BY <2>2, <3>1
      <3> QED BY <3>1, <3>2 DEF UnmappedFlushed
    <2> QED BY <2>5, <2>6, <2>7
  <1>4. ASSUME NEW c \in Cpu, NEW b \in Block, Walk(c, b)
        PROVE  TableInRam' /\ TableMaps' /\ UnmappedFlushed'
    <2> DEFINE u == vttbr[c]
               t == <<u, b, blk[u][b]>>
    <2>1. /\ blk' = blk /\ seg' = seg /\ pc' = pc
          /\ blk[u][b] # NoFrame /\ tlb' = tlb \cup {t}
      BY <1>4 DEF Walk
    <2>2. t[1] = u /\ t[2] = b /\ t[3] = blk[u][b]
      OBVIOUS
    <2> HIDE DEF u, t
    <2>3. TableInRam' /\ TableMaps'
      BY <2>1 DEF TableInRam, TableMaps
    <2>4. UnmappedFlushed'
      BY <2>1, <2>2 DEF UnmappedFlushed
    <2> QED BY <2>3, <2>4
  <1>5. CASE UNCHANGED <<blk, tlb>> /\ ~\E v \in Vm : MapRam(v)
    <2>1. \A w \in Vm : pc'[w] \in Mapped => pc[w] \in Mapped /\ seg'[w] = seg[w]
      BY <1>5, MappedSteps
    <2>2. TableMaps'
      BY <1>5, <2>1, ZenonT(40) DEF TableMaps
    <2>3. TableInRam' /\ UnmappedFlushed'
      BY <1>5 DEF TableInRam, UnmappedFlushed
    <2> QED BY <2>2, <2>3
  <1> QED BY <1>1, <1>2, <1>3, <1>4, <1>5, TableSteps

-----------------------------------------------------------------------------
(* The emulated ranges.                                                    *)

\* Every step keeps the distributor of a machine that runs registered once.
LEMMA DistStep ==
  ASSUME GuestMemAssumption, TypeOK, DistFresh, Next
  PROVE  DistFresh'
  <1> USE DEF Is, GoTo, device
  <1>0. /\ pc \in [Vm -> PcState] /\ vgic \in [Vm -> Nat] /\ DOMAIN mmio = Vm
        /\ mmio \in [Vm -> SUBSET (({"dist"} \cup Cpu) \X Nat)]
    BY DEF TypeOK
  <1>1. ASSUME NEW v \in Vm, IrqInit(v) PROVE DistFresh'
    <2>1. /\ mmio'[v] = {<<"dist", starts[v]>>} /\ vgic'[v] = starts[v]
          /\ \A w \in Vm : w # v =>
               mmio'[w] = mmio[w] /\ vgic'[w] = vgic[w] /\ pc'[w] = pc[w]
      BY <1>0, <1>1 DEF IrqInit, hv_mmio_register, hv_vm_mmio_init
    <2>2. <<"dist", starts[v]>>[1] = "dist"
      OBVIOUS
    <2>3. {m \in mmio'[v] : m[1] = "dist"} = {<<"dist", vgic'[v]>>}
      BY <2>1, <2>2
    <2> QED BY <2>1, <2>3 DEF DistFresh
  <1>2. ASSUME NEW v \in Vm, IrqFailed(v) PROVE DistFresh'
    <2>1. /\ pc'[v] = "unmap"
          /\ \A w \in Vm : w # v =>
               mmio'[w] = mmio[w] /\ vgic'[w] = vgic[w] /\ pc'[w] = pc[w]
      BY <1>0, <1>2 DEF IrqFailed
    <2> QED BY <2>1 DEF DistFresh
  <1>3. ASSUME NEW v \in Vm, NEW c \in Cpu, StartCommon(v, c),
               pc[v] \in {"launch", "run"},
               \A w \in Vm : w # v => pc'[w] = pc[w]
        PROVE  DistFresh'
    <2>1. /\ vgic' = vgic
          /\ \A w \in Vm : w # v => mmio'[w] = mmio[w]
          /\ mmio'[v] \in {mmio[v], hv_mmio_register(mmio[v], c, 0)}
      BY <1>0, <1>3 DEF StartCommon
    <2>2. {m \in mmio[v] : m[1] = "dist"} = {<<"dist", vgic[v]>>}
      BY <1>3 DEF DistFresh
    <2>3. {m \in mmio'[v] : m[1] = "dist"} = {<<"dist", vgic[v]>>}
      <3>1. CASE mmio'[v] = mmio[v]
        BY <2>2, <3>1
      <3>2. CASE mmio'[v] # mmio[v]
        <4>1. /\ mmio'[v] = mmio[v] \cup {<<c, 0>>}
              /\ \A m \in mmio[v] : m[1] # c
          BY <2>1, <3>2 DEF hv_mmio_register
        <4>2. <<"dist", vgic[v]>> \in mmio[v] /\ <<"dist", vgic[v]>>[1] = "dist"
          BY <2>2
        <4>3. <<c, 0>>[1] # "dist"
          BY <4>1, <4>2
        <4> QED BY <2>2, <4>1, <4>3
      <3> QED BY <3>1, <3>2
    <2> QED BY <1>3, <2>1, <2>3 DEF DistFresh
  <1>4. ASSUME NEW v \in Vm, Launch(v) PROVE DistFresh'
    BY <1>0, <1>3, <1>4 DEF Launch, GuestMemAssumption
  <1>5. ASSUME NEW v \in Vm, NEW c \in Cpu, StartSecondary(v, c) PROVE DistFresh'
    BY <1>0, <1>3, <1>5 DEF StartSecondary
  <1>6. ASSUME UNCHANGED <<mmio, vgic>>,
               \A w \in Vm : pc'[w] \in {"launch", "run"} => pc'[w] = pc[w]
        PROVE  DistFresh'
    BY <1>6 DEF DistFresh
  <1>7. ASSUME NEW v \in Vm,
               \/ Start(v) \/ AllocRefused(v) \/ AllocSeg(v) \/ AllocFailed(v)
               \/ MapRam(v) \/ MapFailed(v) \/ UnmapRam(v) \/ MapSerial(v)
               \/ LoadSkip(v) \/ LoadSegment(v) \/ LoadFailed(v)
               \/ LoadNoHeaders(v) \/ LoadFdt(v)
               \/ Shutdown(v) \/ FreeSeg(v) \/ Freed(v)
               \/ \E c \in Cpu : SwitchTo(v, c)
        PROVE  /\ UNCHANGED <<mmio, vgic>>
               /\ \A w \in Vm : pc'[w] \in {"launch", "run"} => pc'[w] = pc[w]
    BY <1>0, <1>7 DEF Start, AllocRefused, AllocSeg, AllocFailed, MapRam,
       MapFailed, UnmapRam, MapSerial, LoadSkip, LoadSegment, LoadFailed,
       LoadNoHeaders, LoadFdt, Shutdown, FreeSeg, Freed, SwitchTo
  <1>8. ASSUME NEW c \in Cpu, NEW b \in Block, Walk(c, b)
        PROVE  UNCHANGED <<mmio, vgic, pc>>
    BY <1>8 DEF Walk
  <1> QED BY <1>1, <1>2, <1>4, <1>5, <1>6, <1>7, <1>8 DEF Next

-----------------------------------------------------------------------------
(* The images.                                                             *)

\* Three operations write to a frame or clear it.
LEMMA ImageSteps ==
  ASSUME Next
  PROVE  \/ \E v \in Vm : LoadSegment(v) \/ LoadFdt(v) \/ FreeSeg(v)
         \/ UNCHANGED <<content, is_load>>
  <1>1. ASSUME NEW v \in Vm,
               \/ Start(v) \/ AllocRefused(v) \/ AllocSeg(v) \/ AllocFailed(v)
               \/ MapRam(v) \/ MapFailed(v) \/ UnmapRam(v) \/ MapSerial(v)
               \/ LoadSkip(v) \/ LoadFailed(v) \/ LoadNoHeaders(v)
               \/ IrqInit(v) \/ IrqFailed(v) \/ Launch(v)
               \/ Shutdown(v) \/ Freed(v)
               \/ \E c \in Cpu : StartSecondary(v, c) \/ SwitchTo(v, c)
        PROVE  UNCHANGED <<content, is_load>>
    BY <1>1 DEF Start, AllocRefused, AllocSeg, AllocFailed, MapRam,
       MapFailed, UnmapRam, MapSerial, LoadSkip, LoadFailed, LoadNoHeaders,
       IrqInit, IrqFailed, Launch, Shutdown, Freed, StartSecondary, SwitchTo,
       StartCommon, image
  <1>2. ASSUME NEW c \in Cpu, NEW b \in Block, Walk(c, b)
        PROVE  UNCHANGED <<content, is_load>>
    BY <1>2 DEF Walk, image
  <1> QED BY <1>1, <1>2 DEF Next

\* is_load follows the life of a machine.
LEMMA LoadStateStep ==
  ASSUME TypeOK, LoadState, Next
  PROVE  LoadState'
  <1> USE DEF Is, GoTo, image
  <1>0. pc \in [Vm -> PcState] /\ is_load \in [Vm -> BOOLEAN]
    BY DEF TypeOK
  <1>1. ASSUME NEW v \in Vm,
               \/ Start(v) \/ AllocRefused(v) \/ AllocSeg(v) \/ AllocFailed(v)
               \/ MapRam(v) \/ MapFailed(v) \/ UnmapRam(v) \/ MapSerial(v)
               \/ LoadSkip(v) \/ LoadSegment(v) \/ LoadFailed(v)
               \/ LoadNoHeaders(v) \/ IrqInit(v) \/ IrqFailed(v) \/ Launch(v)
               \/ Shutdown(v) \/ FreeSeg(v) \/ Freed(v)
               \/ \E c \in Cpu : StartSecondary(v, c) \/ SwitchTo(v, c)
        PROVE  /\ is_load' = is_load
               /\ \A w \in Vm : w # v => pc'[w] = pc[w]
               /\ pc'[v] \in {"irq", "launch", "run", "down"} => is_load[v]
               /\ pc'[v] = "fdt" => ~is_load[v]
    BY <1>0, <1>1 DEF Start, AllocRefused, AllocSeg, AllocFailed, MapRam,
       MapFailed, UnmapRam, MapSerial, LoadSkip, LoadSegment, LoadFailed,
       LoadNoHeaders, IrqInit, IrqFailed, Launch, Shutdown, FreeSeg, Freed,
       StartSecondary, SwitchTo, StartCommon, LoadState
  <1>2. ASSUME NEW v \in Vm, LoadFdt(v) PROVE LoadState'
    BY <1>0, <1>2 DEF LoadFdt, LoadState
  <1>3. ASSUME NEW c \in Cpu, NEW b \in Block, Walk(c, b) PROVE LoadState'
    BY <1>3 DEF Walk, LoadState
  <1>4. ASSUME NEW v \in Vm, is_load' = is_load,
               \A w \in Vm : w # v => pc'[w] = pc[w],
               pc'[v] \in {"irq", "launch", "run", "down"} => is_load[v],
               pc'[v] = "fdt" => ~is_load[v]
        PROVE  LoadState'
    BY <1>4 DEF LoadState
  <1> QED BY <1>1, <1>2, <1>3, <1>4 DEF Next

\* load_pl adds the image's mark to the frames it writes.
LEMMA LoadSegmentShape ==
  ASSUME TypeOK, NEW v \in Vm, LoadSegment(v)
  PROVE  /\ \A f \in Frame : \A t : t # <<v, "image">> =>
              (t \in content'[f] <=> t \in content[f])
         /\ is_load' = is_load /\ ~is_load[v] /\ i'[v] # 0 /\ seg' = seg
         /\ \A w \in Vm : w # v => pc'[w] = pc[w] /\ i'[w] = i[w]
  <1>1. \A f \in Frame :
          content'[f] = content[f] \/ content'[f] = content[f] \cup {<<v, "image">>}
    BY DEF LoadSegment
  <1>2. /\ is_load' = is_load /\ ~is_load[v] /\ seg' = seg
        /\ i' = [i EXCEPT ![v] = @ + 1]
        /\ \E s \in PcState : pc' = [pc EXCEPT ![v] = s]
    BY DEF LoadSegment, GoTo, PcState
  <1>3. /\ i'[v] # 0
        /\ \A w \in Vm : w # v => pc'[w] = pc[w] /\ i'[w] = i[w]
    BY <1>2 DEF TypeOK
  <1> QED BY <1>1, <1>2, <1>3

\* vm_load_fdt adds the device tree's mark to one frame of the machine.
LEMMA LoadFdtShape ==
  ASSUME GuestMemAssumption, TypeOK, SegFits, NEW v \in Vm, LoadFdt(v)
  PROVE  /\ calc_fdt_pos(v) \in Ram(v)
         /\ seg[v][calc_fdt_pos(v) + 1] \in Range(seg[v])
         /\ \A f \in Frame : \A t : t \in content'[f] =>
              \/ t \in content[f]
              \/ t = <<v, "fdt">> /\ v \in Fdt /\ f = seg[v][calc_fdt_pos(v) + 1]
         /\ \A f \in Frame : content[f] \subseteq content'[f]
         /\ is_load'[v] /\ pc[v] = "fdt" /\ pc'[v] = "irq" /\ seg' = seg
         /\ \A w \in Vm : w # v =>
              pc'[w] = pc[w] /\ i'[w] = i[w] /\ is_load'[w] = is_load[w]
  <1>1. /\ pc[v] = "fdt" /\ pc' = [pc EXCEPT ![v] = "irq"] /\ seg' = seg
        /\ is_load' = [is_load EXCEPT ![v] = TRUE] /\ i' = [i EXCEPT ![v] = 0]
    BY DEF LoadFdt, Is, GoTo
  <1>2. SegNum[v] \in Nat \ {0} /\ Len(seg[v]) = SegNum[v]
    BY <1>1, ConstFacts DEF SegFits, Full
  <1>3. calc_fdt_pos(v) \in Ram(v)
    BY <1>2 DEF calc_fdt_pos, Ram
  <1>4. seg[v][calc_fdt_pos(v) + 1] \in Range(seg[v])
    <2>1. calc_fdt_pos(v) + 1 \in 1 .. Len(seg[v])
      BY <1>2, <1>3 DEF Ram
    <2>2. Range(seg[v]) = {seg[v][k] : k \in 1 .. Len(seg[v])}
      BY SegFacts
    <2> QED BY <2>1, <2>2
  <1> DEFINE p == seg[v][calc_fdt_pos(v) + 1]
  <1>5. content' = IF v \in Fdt
                   THEN [content EXCEPT ![p] = @ \cup {<<v, "fdt">>}] ELSE content
    BY DEF LoadFdt
  <1> HIDE DEF p
  <1>6. \A f \in Frame :
          content'[f] = IF v \in Fdt /\ f = p THEN content[f] \cup {<<v, "fdt">>}
                                              ELSE content[f]
    BY <1>5 DEF TypeOK
  <1>7. \A f \in Frame : \A t : t \in content'[f] =>
          t \in content[f] \/ (t = <<v, "fdt">> /\ v \in Fdt /\ f = p)
    BY <1>6
  <1>8. \A f \in Frame : content[f] \subseteq content'[f]
    BY <1>6
  <1>9. /\ is_load'[v] /\ pc'[v] = "irq"
        /\ \A w \in Vm : w # v =>
             pc'[w] = pc[w] /\ i'[w] = i[w] /\ is_load'[w] = is_load[w]
    BY <1>1 DEF TypeOK
  <1> QED BY <1>1, <1>3, <1>4, <1>7, <1>8, <1>9 DEF p

\* lkhv_vm_free_mem clears the frame it gives back.
LEMMA FreeSegShape ==
  ASSUME TypeOK, NEW v \in Vm, FreeSeg(v)
  PROVE  /\ pc[v] \in {"free", "down"} /\ pc' = pc /\ is_load' = is_load /\ i' = i
         /\ \A f \in Frame : content'[f] \subseteq content[f]
         /\ \A f \in Range(seg[v]) : f \in Range(seg'[v]) \/ content'[f] = {}
         /\ \A w \in Vm : w # v => seg'[w] = seg[w]
  <1> DEFINE h == Head(seg[v])
  <1>1. /\ pc[v] \in {"free", "down"} /\ pc' = pc /\ is_load' = is_load /\ i' = i
        /\ content' = [content EXCEPT ![h] = {}]
        /\ seg' = [seg EXCEPT ![v] = Tail(seg[v])] /\ seg[v] # <<>>
    BY DEF FreeSeg
  <1>2. /\ Len(seg[v]) \in Nat \ {0} /\ h = seg[v][1] /\ h \in Frame
        /\ Range(Tail(seg[v])) = {seg[v][k] : k \in 2 .. Len(seg[v])}
    BY <1>1, HeadFacts
  <1>3. Range(seg[v]) = {seg[v][k] : k \in 1 .. Len(seg[v])}
    BY SegFacts
  <1> HIDE DEF h
  <1>4. seg'[v] = Tail(seg[v]) /\ \A w \in Vm : w # v => seg'[w] = seg[w]
    BY <1>1 DEF TypeOK
  <1>5. content'[h] = {} /\ \A f \in Frame : f # h => content'[f] = content[f]
    BY <1>1, <1>2 DEF TypeOK
  <1>6. ASSUME NEW f \in Range(seg[v]), f # h PROVE f \in Range(seg'[v])
    <2>1. PICK k \in 1 .. Len(seg[v]) : f = seg[v][k]
      BY <1>3
    <2>2. k \in 2 .. Len(seg[v])
      BY <1>2, <1>6, <2>1
    <2> QED BY <1>2, <1>4, <2>1, <2>2
  <1>7. \A f \in Frame : content'[f] \subseteq content[f]
    BY <1>5
  <1> QED BY <1>1, <1>4, <1>5, <1>6, <1>7

\* Nothing of an image is in memory before vm_load_elf has loaded a segment.
LEMMA NothingLoadedStep ==
  ASSUME GuestMemAssumption, TypeOK, SegFits, LoadState, NothingLoaded, Next
  PROVE  NothingLoaded'
  <1> DEFINE P == {"off", "alloc", "map", "serial", "load", "fdt"}
  <1> SUFFICES ASSUME NEW w \in Vm, pc'[w] \in P, ~is_load'[w], i'[w] = 0,
                      NEW f \in Frame, <<w, "image">> \in content'[f]
               PROVE  FALSE
    BY DEF NothingLoaded
  <1>0. /\ pc \in [Vm -> PcState] /\ is_load \in [Vm -> BOOLEAN]
        /\ i \in [Vm -> Nat]
    BY DEF TypeOK
  <1>1. ASSUME pc[w] \in P, ~is_load[w], i[w] = 0, <<w, "image">> \in content[f]
        PROVE  FALSE
    BY <1>1 DEF NothingLoaded
  <1>2. ASSUME NEW v \in Vm, LoadSegment(v) PROVE FALSE
    <2>1. w # v
      BY <1>2, LoadSegmentShape
    <2>2. <<w, "image">> # <<v, "image">>
      BY <2>1
    <2> QED BY <1>1, <1>2, <2>1, <2>2, LoadSegmentShape
  <1>3. ASSUME NEW v \in Vm, LoadFdt(v) PROVE FALSE
    <2>1. w # v /\ <<w, "image">> # <<v, "fdt">>
      BY <1>3, LoadFdtShape
    <2> QED BY <1>1, <1>3, <2>1, LoadFdtShape, SMTT(40)
  <1>4. ASSUME NEW v \in Vm, FreeSeg(v) PROVE FALSE
    BY <1>1, <1>4, FreeSegShape
  <1>5. CASE UNCHANGED <<content, is_load>> /\ ~\E v \in Vm : LoadSegment(v) \/ LoadFdt(v)
    <2> USE DEF Is, GoTo, image
    <2>1. ASSUME NEW v \in Vm,
                 \/ Start(v) \/ AllocRefused(v) \/ AllocSeg(v) \/ AllocFailed(v)
                 \/ MapRam(v) \/ MapFailed(v) \/ UnmapRam(v) \/ MapSerial(v)
                 \/ LoadSkip(v) \/ LoadFailed(v)
                 \/ LoadNoHeaders(v) \/ IrqInit(v) \/ IrqFailed(v) \/ Launch(v)
                 \/ Shutdown(v) \/ FreeSeg(v) \/ Freed(v)
                 \/ \E c \in Cpu : StartSecondary(v, c) \/ SwitchTo(v, c)
          PROVE  i[w] = 0 /\ (pc[w] \in P \/ is_load[w])
      BY <1>0, <2>1 DEF Start, AllocRefused, AllocSeg, AllocFailed, MapRam,
         MapFailed, UnmapRam, MapSerial, LoadSkip, LoadFailed,
         LoadNoHeaders, IrqInit, IrqFailed, Launch, Shutdown, FreeSeg, Freed,
         StartSecondary, SwitchTo, StartCommon, LoadState
    <2>2. ASSUME NEW c \in Cpu, NEW b \in Block, Walk(c, b)
          PROVE  i[w] = 0 /\ pc[w] \in P
      BY <2>2 DEF Walk
    <2> QED BY <1>1, <1>5, <2>1, <2>2 DEF Next
  <1> QED BY <1>2, <1>3, <1>4, <1>5, ImageSteps

\* The frame a machine starts in is one of its own, and no other block's.
LEMMA EntryFacts ==
  ASSUME GuestMemAssumption, TypeOK, SegFits, FramesAccounted,
         NEW v \in Vm, pc[v] \in Full
  PROVE  /\ Entry[v].at \in Ram(v) /\ EntryFrame(v) \in Frame
         /\ \A b \in Ram(v) : seg[v][b + 1] = EntryFrame(v) => b = Entry[v].at
  <1>1. Entry[v].at \in Ram(v) /\ SegNum[v] \in Nat \ {0}
    BY ConstFacts DEF GuestMemAssumption
  <1>2. Len(seg[v]) = SegNum[v]
    BY DEF SegFits
  <1>3. DOMAIN seg[v] = 1 .. SegNum[v] /\ \A k \in 1 .. SegNum[v] : seg[v][k] \in Frame
    BY <1>2, SegFacts
  <1>4. \A b \in Ram(v) : b \in Nat /\ b + 1 \in 1 .. SegNum[v]
    BY ONLY <1>1 DEF Ram
  <1>5. EntryFrame(v) \in Frame
    BY <1>1, <1>3, <1>4 DEF EntryFrame
  <1>6. \A j, k \in DOMAIN seg[v] : seg[v][j] = seg[v][k] => j = k
    BY DEF FramesAccounted
  <1>7. ASSUME NEW b \in Ram(v), seg[v][b + 1] = EntryFrame(v)
        PROVE  b = Entry[v].at
    <2>1. b + 1 = Entry[v].at + 1
      BY <1>1, <1>3, <1>4, <1>6, <1>7, Zenon DEF EntryFrame
    <2> QED BY ONLY <1>1, <1>4, <2>1
  <1> QED BY <1>1, <1>5, <1>7

\* calc_fdt_pos, of an image that was loaded, is the block of the entry for
\* the crowded machines and no other.
LEMMA CalcFdtPos ==
  ASSUME GuestMemAssumption, NEW v \in Vm, i[v] # 0
  PROVE  calc_fdt_pos(v) = Entry[v].at <=> Crowded(v)
  <1>1. Entry[v].at \in Nat /\ Entry[v].at < SegNum[v] /\ SegNum[v] \in Nat \ {0}
    BY ConstFacts DEF GuestMemAssumption, Ram
  <1>2. calc_fdt_pos(v) = IF Entry[v].at = 0 \/ (Entry[v].at = 1 /\ Entry[v].first)
                            THEN SegNum[v] - 1 ELSE 0
    BY DEF calc_fdt_pos, EntryIn
  <1>3. CASE Entry[v].at = 0
    BY <1>1, <1>2, <1>3 DEF Crowded
  <1>4. CASE Entry[v].at = 1 /\ Entry[v].first
    BY <1>1, <1>2, <1>4 DEF Crowded
  <1>5. CASE Entry[v].at # 0 /\ ~(Entry[v].at = 1 /\ Entry[v].first)
    BY <1>1, <1>2, <1>5 DEF Crowded
  <1> QED BY <1>3, <1>4, <1>5

\* The place of the device tree: it is written once, and goes with its frame.
LEMMA FdtPlacedStep ==
  ASSUME GuestMemAssumption, TypeOK, SegFits, FramesAccounted,
         LoadState, NothingLoaded, FdtPlaced, Next
  PROVE  FdtPlaced'
  <1> DEFINE Late == {"irq", "launch", "run", "unmap", "free", "down"}
             Up   == {"irq", "launch", "run"}
  <1> SUFFICES ASSUME NEW w \in Vm, NEW f \in Frame, <<w, "fdt">> \in content'[f]
               PROVE  FdtPlace(w, f)'
    BY DEF FdtPlaced
  <1>0. <<w, "fdt">> \in content[f] =>
          /\ is_load[w] /\ pc[w] \in Late /\ f \in Range(seg[w])
          /\ pc[w] \in Up /\ <<w, "image">> \in content[EntryFrame(w)] =>
               (f = EntryFrame(w) <=> Crowded(w))
    BY DEF FdtPlaced, FdtPlace
  <1>a. ASSUME <<w, "fdt">> \in content[f],
               is_load'[w], seg'[w] = seg[w], pc'[w] \in Late,
               pc'[w] \in Up => pc[w] \in Up,
               \A g \in Frame :
                 <<w, "image">> \in content'[g] => <<w, "image">> \in content[g]
        PROVE  FdtPlace(w, f)'
    <2>1. EntryFrame(w)' = EntryFrame(w)
      BY <1>a DEF EntryFrame
    <2>2. pc[w] \in Up => EntryFrame(w) \in Frame
      BY EntryFacts DEF Full
    <2>3. f \in Range(seg'[w])
      BY <1>0, <1>a
    <2>4. pc'[w] \in Up /\ <<w, "image">> \in content'[EntryFrame(w)] =>
            (f = EntryFrame(w) <=> Crowded(w))
      BY <1>0, <1>a, <2>2
    <2> QED BY <1>a, <2>1, <2>3, <2>4 DEF FdtPlace
  <1>1. ASSUME NEW v \in Vm, LoadSegment(v) PROVE FdtPlace(w, f)'
    <2>1. <<w, "fdt">> \in content[f]
      BY <1>1, LoadSegmentShape
    <2>2. w # v
      BY <1>0, <1>1, <2>1, LoadSegmentShape
    <2>3. <<w, "image">> # <<v, "image">>
      BY <2>2
    <2>4. \A g \in Frame :
            <<w, "image">> \in content'[g] => <<w, "image">> \in content[g]
      BY <1>1, <2>3, LoadSegmentShape
    <2>5. is_load' = is_load /\ seg' = seg /\ pc'[w] = pc[w]
      BY <1>1, <2>2, LoadSegmentShape
    <2> QED BY <1>0, <1>a, <2>1, <2>4, <2>5
  <1>2. ASSUME NEW v \in Vm, LoadFdt(v) PROVE FdtPlace(w, f)'
    <2>1. \A g \in Frame :
            <<w, "image">> \in content'[g] => <<w, "image">> \in content[g]
      BY <1>2, LoadFdtShape
    <2>2. CASE w # v
      <3>1. <<w, "fdt">> # <<v, "fdt">>
        BY <2>2
      <3>2. <<w, "fdt">> \in content[f]
        BY <1>2, <3>1, LoadFdtShape
      <3>3. is_load'[w] = is_load[w] /\ seg' = seg /\ pc'[w] = pc[w]
        BY <1>2, <2>2, LoadFdtShape
      <3> QED BY <1>0, <1>a, <2>1, <3>2, <3>3
    <2>3. CASE w = v
      <3>1. /\ pc[v] = "fdt" /\ is_load'[v] /\ pc'[v] = "irq" /\ seg' = seg
            /\ calc_fdt_pos(v) \in Ram(v)
            /\ seg[v][calc_fdt_pos(v) + 1] \in Range(seg[v])
        BY <1>2, LoadFdtShape
      <3>2. <<v, "fdt">> \notin content[f]
        BY <1>0, <2>3, <3>1
      <3>3. v \in Fdt /\ f = seg[v][calc_fdt_pos(v) + 1]
        BY <1>2, <2>3, <3>2, LoadFdtShape
      <3>4. EntryFrame(v)' = EntryFrame(v)
        BY <3>1 DEF EntryFrame
      <3>5. /\ Entry[v].at \in Ram(v) /\ EntryFrame(v) \in Frame
            /\ \A b \in Ram(v) : seg[v][b + 1] = EntryFrame(v) => b = Entry[v].at
        BY <3>1, EntryFacts DEF Full
      <3>6. ASSUME <<v, "image">> \in content'[EntryFrame(v)]
            PROVE  f = EntryFrame(v) <=> Crowded(v)
        <4>1. <<v, "image">> \in content[EntryFrame(v)]
          BY <2>1, <2>3, <3>5, <3>6
        <4>2. ~is_load[v]
          BY <3>1 DEF LoadState
        <4>3. i[v] # 0
          BY <3>1, <3>5, <4>1, <4>2 DEF NothingLoaded
        <4>4. calc_fdt_pos(v) = Entry[v].at <=> Crowded(v)
          BY <4>3, CalcFdtPos
        <4>5. f = EntryFrame(v) <=> calc_fdt_pos(v) = Entry[v].at
          BY <3>1, <3>3, <3>5 DEF EntryFrame
        <4> QED BY <4>4, <4>5
      <3> QED BY <2>3, <3>1, <3>3, <3>4, <3>6 DEF FdtPlace
    <2> QED BY <2>2, <2>3
  <1>3. ASSUME NEW v \in Vm, FreeSeg(v) PROVE FdtPlace(w, f)'
    <2>1. /\ pc[v] \in {"free", "down"} /\ pc' = pc /\ is_load' = is_load
          /\ \A g \in Frame : content'[g] \subseteq content[g]
          /\ f \in Range(seg[v]) => f \in Range(seg'[v])
          /\ w # v => seg'[w] = seg[w]
      BY <1>3, FreeSegShape
    <2>2. <<w, "fdt">> \in content[f]
      BY <2>1
    <2>3. CASE w = v
      BY <1>0, <2>1, <2>2, <2>3 DEF FdtPlace
    <2>4. CASE w # v
      BY <1>0, <1>a, <2>1, <2>2, <2>4
    <2> QED BY <2>3, <2>4
  <1>4. CASE /\ UNCHANGED <<content, is_load>>
             /\ ~\E v \in Vm : LoadSegment(v) \/ LoadFdt(v) \/ FreeSeg(v)
    <2> USE DEF Is, GoTo
    <2>0. <<w, "fdt">> \in content[f] /\ f \in Range(seg[w]) /\ pc[w] \in Late
      BY <1>0, <1>4
    <2>1. pc \in [Vm -> PcState] /\ seg \in [Vm -> Seq(Frame)] /\ seg[w] # <<>>
      BY <2>0, SegFacts, SMTT(40) DEF TypeOK
    <2>2. ASSUME NEW v \in Vm, AllocSeg(v) \/ AllocFailed(v)
          PROVE  seg'[w] = seg[w] /\ pc'[w] = pc[w]
      BY <2>0, <2>1, <2>2 DEF AllocSeg, AllocFailed
    <2>3. ASSUME NEW v \in Vm,
                 \/ Start(v) \/ AllocRefused(v)
                 \/ MapRam(v) \/ MapFailed(v) \/ UnmapRam(v) \/ MapSerial(v)
                 \/ LoadSkip(v) \/ LoadFailed(v)
                 \/ LoadNoHeaders(v) \/ IrqInit(v) \/ IrqFailed(v) \/ Launch(v)
                 \/ Shutdown(v) \/ Freed(v)
                 \/ \E c \in Cpu : StartSecondary(v, c) \/ SwitchTo(v, c)
          PROVE  seg'[w] = seg[w] /\ pc'[w] \in Late /\ (pc'[w] \in Up => pc[w] \in Up)
      BY <2>0, <2>1, <2>3, SMTT(40) DEF Start, AllocRefused, MapRam,
         MapFailed, UnmapRam, MapSerial, LoadSkip, LoadFailed,
         LoadNoHeaders, IrqInit, IrqFailed, Launch, Shutdown, Freed,
         StartSecondary, SwitchTo, StartCommon
    <2>4. ASSUME NEW c \in Cpu, NEW b \in Block, Walk(c, b)
          PROVE  seg'[w] = seg[w] /\ pc'[w] = pc[w]
      BY <2>4 DEF Walk
    <2>5. seg'[w] = seg[w] /\ pc'[w] \in Late /\ (pc'[w] \in Up => pc[w] \in Up)
      BY <1>4, <2>0, <2>2, <2>3, <2>4 DEF Next
    <2> QED BY <1>0, <1>4, <1>a, <2>0, <2>5
  <1> QED BY <1>1, <1>2, <1>3, <1>4, ImageSteps

\* A mark appears outside the frames of its machine in no step.
LEMMA LoadInsideStep ==
  ASSUME GuestMemAssumption, TypeOK, SegFits, TableMaps, Next,
         NEW w \in Vm, Adjacent(w), NEW f \in Frame \ Range(seg[w]),
         NEW t \in content'[f], t \in {w} \X {"image", "fdt"}
  PROVE  t \in content[f]
  <1>1. ASSUME NEW v \in Vm, LoadSegment(v) PROVE t \in content[f]
    <2>1. CASE v # w
      <3>1. t # <<v, "image">>
        BY <2>1
      <3> QED BY <1>1, <3>1, LoadSegmentShape
    <2>2. CASE v = w
      <3> DEFINE s == Image[v][i[v] + 1]
                 at == s.at
                 n == s.n
                 p == blk[v][at]
      <3>1. /\ pc[v] = "load" /\ i[v] < Len(Image[v])
            /\ f \notin Written(p, n) => content'[f] = content[f]
        BY <1>1 DEF LoadSegment, Is, ipa_to_pa
      <3>2. Image[v] \in Seq(Segment) /\ Len(Image[v]) \in Nat /\ i[v] \in Nat
        BY LenProperties DEF GuestMemAssumption, TypeOK
      <3>3. i[v] + 1 \in 1 .. Len(Image[v])
        BY <3>1, <3>2
      <3>4. s \in Segment /\ at + n <= SegNum[v]
        BY <3>2, <3>3, ElementOfSeq DEF GuestMemAssumption
      <3>5. n \in Nat \ {0} /\ at \in Nat /\ SegNum[v] \in Nat
        BY <3>4, ConstFacts DEF Segment
      <3>6. \A j \in 0 .. (n - 1) : blk[v][at + j] = p + j
        BY <2>2, <3>3 DEF Adjacent, ipa_to_pa
      <3>7. \A b \in Ram(v) : blk[v][b] = seg[v][b + 1]
        BY <3>1 DEF TableMaps, Mapped
      <3>8. Len(seg[v]) = SegNum[v]
        BY <3>1 DEF SegFits, Full
      <3> HIDE DEF s, at, n
      <3>9. \A b \in Ram(v) : b + 1 \in 1 .. Len(seg[v])
        BY <3>5, <3>8 DEF Ram
      <3>10. p \in Nat
        <4>1. at \in Ram(v)
          BY <3>4, <3>5 DEF Ram
        <4>2. p \in Frame
          BY <3>7, <3>9, <4>1, SegFacts
        <4> QED BY <4>2, ConstFacts
      <3> HIDE DEF p
      <3>11. ASSUME f \in Written(p, n) PROVE FALSE
        <4>1. f \in Nat /\ p <= f /\ f < p + n
          BY <3>11, ConstFacts DEF Written
        <4> DEFINE j == f - p
        <4>2. j \in 0 .. (n - 1) /\ p + j = f
          BY <3>5, <3>10, <4>1
        <4> HIDE DEF j
        <4>3. at + j \in Ram(v)
          BY <3>4, <3>5, <4>2 DEF Ram
        <4>4. blk[v][at + j] = f
          BY <3>6, <4>2
        <4>5. f = seg[v][at + j + 1] /\ at + j + 1 \in 1 .. Len(seg[v])
          BY <3>7, <3>9, <4>3, <4>4
        <4>6. Range(seg[v]) = {seg[v][k] : k \in 1 .. Len(seg[v])}
          BY SegFacts
        <4>7. f \in Range(seg[v])
          BY <4>5, <4>6
        <4> QED BY <2>2, <4>7
      <3> QED BY <3>1, <3>11
    <2> QED BY <2>1, <2>2
  <1>2. ASSUME NEW v \in Vm, LoadFdt(v) PROVE t \in content[f]
    <2>1. CASE v # w
      <3>1. t # <<v, "fdt">>
        BY <2>1
      <3> QED BY <1>2, <3>1, LoadFdtShape, SMTT(40)
    <2>2. CASE v = w
      <3>1. f # seg[v][calc_fdt_pos(v) + 1]
        BY <1>2, <2>2, LoadFdtShape
      <3> QED BY <1>2, <3>1, LoadFdtShape, ZenonT(40)
    <2> QED BY <2>1, <2>2
  <1>3. ASSUME NEW v \in Vm, FreeSeg(v) PROVE t \in content[f]
    BY <1>3, FreeSegShape
  <1> QED BY <1>1, <1>2, <1>3, ImageSteps

-----------------------------------------------------------------------------
(* The theorems.                                                           *)

\* The initial state has the invariant.
LEMMA InvInit == GuestMemAssumption /\ Init => IInv
  <1> SUFFICES ASSUME GuestMemAssumption, Init PROVE IInv
    OBVIOUS
  <1>1. TypeOK
    BY TypeInit
  <1>2. \A v \in Vm : seg[v] = <<>> /\ Range(seg[v]) = {} /\ DOMAIN seg[v] = {}
    BY DEF Init, Range
  <1>3. FramesAccounted
    BY <1>2 DEF FramesAccounted, Init
  <1>4. SegFits
    BY <1>2 DEF SegFits, Init, Full
  <1>5. TableInRam /\ TableMaps /\ DistFresh
    BY DEF Init, TableInRam, TableMaps, DistFresh, Mapped
  <1>6. UnmappedFlushed
    BY DEF Init, UnmappedFlushed
  <1> QED BY <1>1, <1>3, <1>4, <1>5, <1>6 DEF IInv

\* Every step keeps the invariant.
LEMMA InvStep == GuestMemAssumption /\ IInv /\ [Next]_vars => IInv'
  <1> SUFFICES ASSUME GuestMemAssumption, IInv, [Next]_vars PROVE IInv'
    OBVIOUS
  <1> USE DEF IInv
  <1>1. CASE Next
    BY <1>1, TypeStep, FramesStep, SegFitsStep, TablesStep, DistStep
  <1>2. CASE UNCHANGED vars
    <2>1. TypeOK'
      BY <1>2 DEF vars, TypeOK
    <2>2. FramesAccounted'
      BY <1>2, FramesStep DEF vars
    <2>3. SegFits' /\ TableInRam' /\ TableMaps' /\ DistFresh'
      BY <1>2 DEF vars, SegFits, TableInRam, TableMaps, DistFresh
    <2>4. UnmappedFlushed'
      BY <1>2 DEF vars, UnmappedFlushed
    <2> QED BY <2>1, <2>2, <2>3, <2>4
  <1> QED BY <1>1, <1>2

\* The invariant holds always.
THEOREM Invariance == Spec => []IInv
  <1>1. Init => IInv
    BY InvInit, GuestMemAssumption
  <1>2. IInv /\ [Next]_vars => IInv'
    BY InvStep, GuestMemAssumption
  <1> QED BY <1>1, <1>2, PTL DEF Spec

\* The state has its type in every life of every machine.
THEOREM TypeCorrect == Spec => []TypeOK
  <1>1. IInv => TypeOK
    BY DEF IInv
  <1> QED BY <1>1, Invariance, PTL

\* lkhv_alloc_mem, lkhv_vm_free_mem and the failure paths of lkhv_vm_init
\* neither lose a frame nor give one to two machines, however the machines'
\* threads interleave.
THEOREM FramesCorrect == Spec => []FramesAccounted
  <1>1. IInv => FramesAccounted
    BY DEF IInv
  <1> QED BY <1>1, Invariance, PTL

\* lkhv_map_ram leaves a running machine a table of its own frames, whatever
\* its earlier lives left in it.
THEOREM OwnFramesCorrect == Spec => []OwnFrames
  <1>1. IInv => OwnFrames
    BY DEF IInv, TableMaps, OwnFrames, Running, Mapped
  <1> QED BY <1>1, Invariance, PTL

\* lkhv_unmap_ram and mem_unlock leave no translation of an entry that is not
\* valid, on any cpu.
THEOREM UnmappedCorrect == Spec => []UnmappedFlushed
  <1>1. IInv => UnmappedFlushed
    BY DEF IInv
  <1> QED BY <1>1, Invariance, PTL

\* A running machine reaches the distributor of its present life.
THEOREM DistCorrect == Spec => []DistCurrent
  <1>1. IInv => DistCurrent
    BY DEF IInv, DistFresh, DistCurrent, Running
  <1> QED BY <1>1, Invariance, PTL

\* load_pl and vm_load_fdt write to frames of their own machine, where the
\* frames under a segment of the image follow each other.
THEOREM LoadCorrect == Spec => LoadInside
  <1> DEFINE A == \A v \in Vm : Adjacent(v) =>
                    \A f \in Frame \ Range(seg[v]) :
                      content'[f] \cap ({v} \X {"image", "fdt"}) \subseteq content[f]
  <1>1. IInv /\ [Next]_vars => [A]_vars
    <2> SUFFICES ASSUME IInv, Next PROVE A
      OBVIOUS
    <2> SUFFICES ASSUME NEW v \in Vm, Adjacent(v), NEW f \in Frame \ Range(seg[v]),
                        NEW t \in content'[f], t \in {v} \X {"image", "fdt"}
                 PROVE  t \in content[f]
      OBVIOUS
    <2> QED BY LoadInsideStep, GuestMemAssumption DEF IInv
  <1> HIDE DEF A
  <1>2. Spec => [][A]_vars
    BY <1>1, Invariance, PTL DEF Spec
  <1> QED BY <1>2 DEF LoadInside, A

\* The image part of the invariant.
ImageInv == LoadState /\ NothingLoaded /\ FdtPlaced

\* The device tree is kept out of the block a machine starts in, unless the
\* machine is crowded, and then it is not: calc_fdt_pos.
THEOREM FdtCorrect == Spec => []FdtApart
  <1>1. Init => ImageInv
    BY DEF Init, ImageInv, LoadState, NothingLoaded, FdtPlaced
  <1>2. IInv /\ ImageInv /\ [Next]_vars => ImageInv'
    <2> SUFFICES ASSUME IInv, ImageInv, [Next]_vars PROVE ImageInv'
      OBVIOUS
    <2> USE DEF ImageInv
    <2>1. CASE Next
      BY <2>1, LoadStateStep, NothingLoadedStep, FdtPlacedStep,
         GuestMemAssumption DEF IInv
    <2>2. CASE UNCHANGED vars
      BY <2>2 DEF vars, LoadState, NothingLoaded, FdtPlaced, FdtPlace, EntryFrame
    <2> QED BY <2>1, <2>2
  <1>3. IInv /\ ImageInv => FdtApart
    <2> SUFFICES ASSUME IInv, ImageInv, NEW v \in Vm, pc[v] = "run",
                        <<v, "image">> \in content[EntryFrame(v)],
                        NEW f \in Range(seg[v]), <<v, "fdt">> \in content[f]
                 PROVE  f = EntryFrame(v) <=> Crowded(v)
      BY DEF FdtApart, Running
    <2>1. f \in Frame
      <3>1. TypeOK
        BY DEF IInv
      <3>2. PICK k \in 1 .. Len(seg[v]) : f = seg[v][k]
        BY <3>1, SegFacts
      <3> QED BY <3>1, <3>2, SegFacts
    <2> QED BY <2>1 DEF ImageInv, FdtPlaced, FdtPlace
  <1> QED BY <1>1, <1>2, <1>3, Invariance, PTL DEF Spec
=============================================================================
