------------------------------- MODULE Stage2 -------------------------------
(***************************************************************************)
(* The stage-2 page table of one machine, entry by entry: arch_mem_map,    *)
(* arch_mem_unmap, pte_get, mem_pte_set and ipa_to_pa of                   *)
(* hv/arch/armv8a/hv_arch_mem.c, with the root at level 1.                 *)
(*                                                                         *)
(* Addresses are page numbers.  A table has PerTable entries, 512 in the   *)
(* code, so a block has as many pages.  The root has RootNum pages, 1, 2   *)
(* or 8 with the cpu's address sizes; only the first is cleared, and the   *)
(* others keep what the allocator's memory held.  The calls stay within    *)
(* the addresses of the first, 512G in the code.  Callers hold mem_lock;   *)
(* the walks of the cpus do not, and fall between any two stores to the    *)
(* table.  The machine is the one vttbr_el2 names.                         *)
(***************************************************************************)
EXTENDS Integers, FiniteSets

CONSTANTS
  PerTable,   \* 1 << VM_MEM_PTE_SHIFT
  RootNum,    \* 1 << root_order, the pages of the root
  Leftover,   \* what the pages of the root behind the first held before
  PageLen,    \* PAGE_SIZE, which an address is not divided by
  OperandLen, \* the pages that the operand of tlbi ipas2e1is can name
  FirstTable, \* table pages lie above the guest's frames
  TableNum,   \* tables the allocator has pages for, the root included
  Calls,      \* the calls that may be made: see CallType
  MaxCalls    \* bound on the calls made

BlockLen == PerTable              \* pages of a block at level 2

\* The guest's pages: those under the first page of the root, and the others
Ipa      == 0 .. (PerTable * PerTable * PerTable - 1)
Above    == PerTable * PerTable * PerTable .. (RootNum * PerTable * PerTable * PerTable - 1)
Table    == FirstTable .. (FirstTable + TableNum - 1)

\* arch_mem_map has a pa; arch_mem_unmap has none
NoPa     == -1
CallType == [pa: Nat \cup {NoPa}, ipa: Ipa, len: Nat \ {0}]

\* An entry is invalid, or has its last two bits and an address.  At levels 1
\* and 2 "01" is a block and "11" a table; at level 3 "11" is a page
Invalid == <<"00", 0>>
Entry   == {Invalid} \cup ({"01", "11"} \X Nat)

ASSUME Stage2Assumption ==
  /\ PerTable \in Nat \ {0} /\ FirstTable \in Nat \ {0}
  /\ Calls \subseteq CallType /\ Calls # {}
  /\ \A c \in Calls : c.ipa + c.len - 1 \in Ipa /\ c.pa + c.len <= FirstTable
  /\ TableNum \in Nat \ {0} /\ MaxCalls \in Nat
  /\ RootNum \in Nat \ {0}
  /\ Leftover \in [PerTable .. (PerTable * RootNum - 1) -> Entry]
  /\ PageLen \in Nat \ {0} /\ OperandLen \in Nat \ {0}

VARIABLES
  table,       \* the entries of every table page in use
  root,        \* arch_mem->st2_table, or 0
  need_flush,  \* mem->need_flush
  watched,     \* one stage-2 translation a cpu caches, or none
  call,        \* what is left to do of the call being made
  of,          \* the call as it was made
  ret,         \* its result
  pc,          \* where it is
  set,         \* the store mem_pte_set has under way
  before,      \* history: the translations when the call began
  replaced,    \* history: pages whose valid entry another valid one replaced
  calls        \* calls made

vars == <<table, root, need_flush, watched, call, of, ret, pc, set, before,
          replaced, calls>>

NoTrans == {}

is_pte_valid(e) == e[1] # "00"
is_pte_block(e) == e[1] = "01"

\* The entry of ipa in a table of the given level, of which the root is longer
pte_index(ipa, level) ==
  CASE level = 1 -> (ipa \div (PerTable * PerTable)) % (PerTable * RootNum)
    [] level = 2 -> (ipa \div PerTable) % PerTable
    [] level = 3 -> ipa % PerTable

Init ==
  /\ table = [t \in {} |-> <<>>]
  /\ root = 0
  /\ need_flush = FALSE
  /\ watched = NoTrans
  /\ call = [pa |-> NoPa, ipa |-> 0, len |-> 0]
  /\ of = call
  /\ ret = "ok"
  /\ pc = "idle"
  /\ set = [t |-> 0, x |-> 0, val |-> Invalid, old |-> Invalid]
  /\ before = [p \in Ipa |-> NoPa]
  /\ replaced = {}
  /\ calls = 0

-----------------------------------------------------------------------------
(* The walk of the hardware, and the one of ipa_to_pa                      *)

At(t, ipa, level) == table[t][pte_index(ipa, level)]

\* What the memory system makes of guest page p
HwWalk(p) ==
  IF root = 0 \/ ~is_pte_valid(At(root, p, 1)) THEN NoPa
  ELSE LET l2 == At(At(root, p, 1)[2], p, 2) IN
       IF ~is_pte_valid(l2) THEN NoPa
       ELSE IF is_pte_block(l2) THEN l2[2] + (p % BlockLen)
       ELSE LET l3 == At(l2[2], p, 3) IN
            IF is_pte_valid(l3) /\ ~is_pte_block(l3) THEN l3[2] ELSE NoPa

\* The pages of the entry it finds there
HwSpan(p) ==
  IF is_pte_block(At(At(root, p, 1)[2], p, 2))
  THEN {q \in Ipa : q \div BlockLen = p \div BlockLen} ELSE {p}

\* Mutant: the offset bits of the level above are cleared
ClearAbove(e, level) ==
  IF level = 3 THEN e[2] ELSE e[2] - (e[2] % (PerTable * BlockLen))

\* pte_block_address clears the offset bits of a level
pte_block_address(e, level) ==
  IF level = 3 THEN e[2] ELSE e[2] - (e[2] % BlockLen)

\* ipa_to_pa: the loop ends with pte at the level-2 entry, of which the last
\* lines then take the address
ipa_to_pa(p) ==
  IF root = 0 \/ ~is_pte_valid(At(root, p, 1)) THEN NoPa
  ELSE LET pte == At(At(root, p, 1)[2], p, 2) IN
       IF ~is_pte_valid(pte) THEN NoPa
       ELSE IF is_pte_block(pte)
            THEN pte_block_address(pte, 2) + (p % BlockLen)
            ELSE pte_block_address(pte, 3)

-----------------------------------------------------------------------------
(* pte_get                                                                 *)

Fresh(tb) == {t \in Table : t \notin DOMAIN tb}

\* Mutant: a new table page holds what another one does
NotZeroed(tb, t) ==
  [s \in DOMAIN tb \cup {t} |->
     IF s # t THEN tb[s]
     ELSE [x \in 0 .. (PerTable - 1) |-> IF root = 0 THEN Invalid ELSE tb[root][x]]]

\* The tables with page t added, its entries cleared
Zeroed(tb, t) ==
  [s \in DOMAIN tb \cup {t} |->
     IF s # t THEN tb[s] ELSE [x \in 0 .. (PerTable - 1) |-> Invalid]]

\* One round of the loop, at table t of the tables tb: the tables after it
\* and the next table, or table 0 when there is none to be had
Descend(tb, t, ipa, level) ==
  LET x == pte_index(ipa, level)
      e == tb[t][x]
      n == CHOOSE f \in Fresh(tb) : TRUE
  IN IF ~is_pte_valid(e)
     THEN IF Fresh(tb) = {} THEN [tb |-> tb, t |-> 0]
          ELSE [tb |-> [Zeroed(tb, n) EXCEPT ![t][x] = <<"11", n>>], t |-> n]
     ELSE IF is_pte_block(e) THEN [tb |-> tb, t |-> 0]
     ELSE [tb |-> tb, t |-> e[2]]

\* init_st2_root clears one page of the root
RootEntries ==
  [x \in 0 .. (PerTable * RootNum - 1) |-> IF x < PerTable THEN Invalid ELSE Leftover[x]]

\* The root is there, or init_st2_root makes it
Rooted ==
  IF root # 0 THEN [tb |-> table, t |-> root]
  ELSE IF Fresh(table) = {} THEN [tb |-> table, t |-> 0]
  ELSE LET n == CHOOSE f \in Fresh(table) : TRUE
       IN [tb |-> [s \in {n} |-> RootEntries], t |-> n]

\* The tables after pte_get, and the one that holds the entry of that level
pte_get(ipa, level) ==
  IF Rooted.t = 0 THEN Rooted
  ELSE LET l2 == Descend(Rooted.tb, Rooted.t, ipa, 1) IN
       IF level = 2 \/ l2.t = 0 THEN l2
       ELSE Descend(l2.tb, l2.t, ipa, 2)

-----------------------------------------------------------------------------
(* arch_mem_map and arch_mem_unmap                                         *)

IsMap(c) == c.pa # NoPa

\* A caller takes mem_lock and makes a call
Call(c) ==
  /\ pc = "idle" /\ calls < MaxCalls
  /\ call' = c /\ of' = c /\ ret' = "ok"
  /\ pc' = "loop"
  /\ before' = [p \in Ipa |-> HwWalk(p)]
  /\ calls' = calls + 1
  /\ UNCHANGED <<table, root, need_flush, watched, set, replaced>>

\* Mutant: what is left of the length is not looked at
LevelAnyLen(c) ==
  IF c.ipa % BlockLen = 0 /\ (IsMap(c) => c.pa % BlockLen = 0) THEN 2 ELSE 3

\* The level the next entry is written at: a block where the addresses and
\* what is left of the length are aligned
Level(c) ==
  IF /\ c.ipa % BlockLen = 0 /\ c.len % BlockLen = 0
     /\ IsMap(c) => c.pa % BlockLen = 0
  THEN 2 ELSE 3

\* A round of the loop up to mem_pte_set: the call fails when there is no
\* page for a table, or a block lies above the page
Round ==
  /\ pc = "loop" /\ call.len > 0
  /\ LET level == Level(call)
         g == pte_get(call.ipa, level)
     IN /\ table' = g.tb
        /\ root' = Rooted.t
        /\ IF g.t = 0
           THEN ret' = "failed" /\ pc' = "idle" /\ UNCHANGED set
           ELSE /\ set' = [t |-> g.t, x |-> pte_index(call.ipa, level), old |-> Invalid,
                           val |-> IF ~IsMap(call) THEN Invalid
                                   ELSE <<IF level = 2 THEN "01" ELSE "11", call.pa>>]
                /\ pc' = "set"
                /\ UNCHANGED ret
  /\ UNCHANGED <<need_flush, watched, call, of, before, replaced, calls>>

\* Mutant: the frames do not move along with the addresses
AdvanceSameFrame ==
  LET n == IF Level(call) = 2 THEN BlockLen ELSE 1 IN
  /\ call' = [call EXCEPT !.ipa = @ + n, !.len = @ - n]
  /\ pc' = "loop"

\* The call goes on behind the entry that was set
Advance ==
  LET n == IF Level(call) = 2 THEN BlockLen ELSE 1 IN
  /\ call' = [pa |-> IF IsMap(call) THEN call.pa + n ELSE NoPa,
              ipa |-> call.ipa + n, len |-> call.len - n]
  /\ pc' = "loop"

\* set_pte
Store(val) == table' = [table EXCEPT ![set.t][set.x] = val]

\* mem_pte_set: the entry is invalid and is written
SetFresh ==
  /\ pc = "set" /\ ~is_pte_valid(table[set.t][set.x])
  /\ Store(set.val)
  /\ Advance
  /\ UNCHANGED <<root, need_flush, watched, of, ret, set, before, replaced, calls>>

\* The pages whose translation the entry at hand decides
Behind ==
  IF Level(call) = 2 THEN {p \in Ipa : p \div BlockLen = call.ipa \div BlockLen}
  ELSE {call.ipa}

\* It is valid, and broken first
Break ==
  /\ pc = "set" /\ is_pte_valid(table[set.t][set.x])
  /\ Store(Invalid)
  /\ set' = [set EXCEPT !.old = table[set.t][set.x]]
  /\ pc' = "make"
  /\ replaced' = IF is_pte_valid(set.val) /\ set.val # table[set.t][set.x]
                 THEN replaced \cup Behind ELSE replaced
  /\ UNCHANGED <<root, need_flush, watched, call, of, ret, before, calls>>

\* tlb_flush_ipa has the address in the register of which ipas2e1is takes the
\* page number: what is cached of the page so named goes.  vmalle1is, which
\* follows, takes out translations of stage 1 and those of both stages
tlb_flush_ipa(ipa) ==
  LET named == (ipa * PageLen) % OperandLen
  IN  watched' = {w \in watched : named \notin w.span}

\* Mutant: an entry that is taken out is flushed by its address
DeferredSame(val, old) == val = old

\* The flush is deferred when the entry is taken out or written again
Deferred(val, old) == ~is_pte_valid(val) \/ val = old

\* The flush, at once or deferred, and the new value
Make ==
  /\ pc = "make"
  /\ IF Deferred(set.val, set.old)
     THEN need_flush' = TRUE /\ UNCHANGED watched
     ELSE tlb_flush_ipa(call.ipa) /\ UNCHANGED need_flush
  /\ Store(set.val)
  /\ Advance
  /\ UNCHANGED <<root, of, ret, set, before, replaced, calls>>

\* The call returns
Return ==
  /\ pc = "loop" /\ call.len <= 0
  /\ pc' = "idle"
  /\ UNCHANGED <<table, root, need_flush, watched, call, of, ret, set, before,
                 replaced, calls>>

\* mem_unlock, which not every caller uses
mem_unlock ==
  /\ pc = "idle" /\ need_flush
  /\ need_flush' = FALSE
  /\ watched' = NoTrans
  /\ replaced' = {}
  /\ UNCHANGED <<table, root, call, of, ret, pc, set, before, calls>>

\* A cpu walks the table and caches what it finds, or drops what it cached
Walk ==
  /\ \/ /\ watched = NoTrans
        /\ \E p \in Ipa : /\ HwWalk(p) # NoPa
                          /\ watched' = {[page |-> p, frame |-> HwWalk(p), span |-> HwSpan(p)]}
     \/ watched # NoTrans /\ watched' = NoTrans
  /\ UNCHANGED <<table, root, need_flush, call, of, ret, pc, set, before,
                 replaced, calls>>

Next ==
  \/ \E c \in Calls : Call(c)
  \/ Round \/ SetFresh \/ Break \/ Make \/ Return \/ mem_unlock \/ Walk

Spec == Init /\ [][Next]_vars

-----------------------------------------------------------------------------
(* Properties                                                              *)

\* The entries of a table, and what a cpu may cache
Width(t)   == IF t = root THEN PerTable * RootNum ELSE PerTable
CachedType == [page: Ipa, frame: Nat, span: SUBSET Ipa]

\* The state has its type
TypeOK ==
  /\ DOMAIN table \subseteq Table
  /\ \A t \in DOMAIN table : table[t] \in [0 .. (Width(t) - 1) -> Entry]
  /\ root \in {0} \cup DOMAIN table
  /\ need_flush \in BOOLEAN
  /\ watched \subseteq CachedType /\ Cardinality(watched) <= 1
  /\ pc \in {"idle", "loop", "set", "make"} /\ ret \in {"ok", "failed"}
  /\ call.len \in 0 .. of.len
  /\ replaced \subseteq Ipa /\ calls \in 0 .. MaxCalls

\* The pages a call has dealt with, and what each should be mapped to
Done == of.ipa .. (call.ipa - 1)
Wanted(p) == IF IsMap(of) THEN of.pa + (p - of.ipa) ELSE NoPa

\* A call maps, or unmaps, the pages it has dealt with and no other: through
\* blocks, pages, tables replaced by a block and a failure on the way; and
\* one that reports success has dealt with all of its pages
CallExact ==
  /\ pc \in {"idle", "loop"} /\ calls > 0 =>
       \A p \in Ipa : HwWalk(p) = IF p \in Done THEN Wanted(p) ELSE before[p]
  /\ pc = "idle" /\ calls > 0 /\ ret = "ok" =>
       call.ipa = of.ipa + of.len

\* With no flush outstanding no cpu caches a translation of a page that is not
\* mapped, and what it caches of any page is what the table says, unless a
\* valid entry of the page was replaced by another: a walk that fell between
\* two stores of mem_pte_set left nothing behind
TlbClean ==
  pc = "idle" /\ ~need_flush =>
    \A w \in watched :
      /\ HwWalk(w.page) # NoPa
      /\ w.page \notin replaced => HwWalk(w.page) = w.frame

\* "others cases, flush at once" (hv_arch_mem.c:247): with no flush
\* outstanding, what a cpu caches is what the table says
FlushedAtOnce ==
  pc = "idle" /\ ~need_flush => \A w \in watched : HwWalk(w.page) = w.frame

\* "init root directory" (hv_arch_mem.c:53): a page that no call has mapped is
\* not translated, those under the other pages of the root included
NothingAbove == root # 0 => \A p \in Above : ~is_pte_valid(At(root, p, 1))

\* Every table page has one place in the tree of the guest's pages
TableTree ==
  \A t \in DOMAIN table :
    Cardinality({e \in (DOMAIN table) \X (0 .. (PerTable - 1)) :
                   table[e[1]][e[2]][2] = t}) <= IF t = root THEN 0 ELSE 1

\* ipa_to_pa agrees with the hardware wherever it does not end at a level-3
\* table, whose own address it returns
WalkAgrees ==
  \A p \in Ipa : ipa_to_pa(p) \notin Table => ipa_to_pa(p) = HwWalk(p)
=============================================================================
