----------------------------- MODULE MCGuestMem -----------------------------
(* Two machines that share a cpu, the first with a second vcpu on another  *)
(* cpu.  The ram of the first lies across the boundary of two level-2      *)
(* tables; the second is entered at the start of its second block.  The    *)
(* arena holds what both machines need, or too little for one or for both. *)
EXTENDS GuestMem

MCRegion == [b \in Block |-> IF b = 0 THEN "low" ELSE "high"]
MCOn     == [v \in Vm |-> IF v = "vm1" THEN Cpu ELSE {"c1"}]
MCPin    == [v \in Vm |-> "c1"]
MCSegNum == [v \in Vm |-> 2]
MCImage  == [v \in Vm |-> IF v = "vm1" THEN <<[at |-> 0, n |-> 2]>>
                          ELSE <<[at |-> 1, n |-> 1]>>]
MCEntry  == [v \in Vm |-> [at |-> IF v = "vm1" THEN 0 ELSE 1, first |-> TRUE]]
\* 64G, where the addresses tlb_flush_ipa can name begin again, lies between
\* the two blocks of the first machine; the second has its ram at 0
MCIpaStart == [v \in Vm |-> IF v = "vm1" THEN 32767 ELSE 0]
MCStarts == [v \in Vm |-> IF v = "vm1" THEN 2 ELSE 1]

\* A bound: in the arena that holds both machines no allocation fails
FailuresWhenShort == arena = 1 .. 4 => errors = 0

\* Two machines of one block at address 0, the only one tlb_flush_ipa names
\* rightly
MCOneBlock == [v \in Vm |-> 1]
MCOneEntry == [v \in Vm |-> [at |-> 0, first |-> TRUE]]
MCOneImage == [v \in Vm |-> <<[at |-> 0, n |-> 1]>>]
MCZero     == [v \in Vm |-> 0]
=============================================================================
