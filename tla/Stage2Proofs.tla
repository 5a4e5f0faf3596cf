---------------------------- MODULE Stage2Proofs ----------------------------
(***************************************************************************)
(* The stage-2 table for tables of any length, a root of any number of     *)
(* pages with anything in those that init_st2_root does not clear, any     *)
(* number of table pages, any page that the operand of tlbi ipas2e1is      *)
(* turns out to name, and any sequence of calls of arch_mem_map and        *)
(* arch_mem_unmap under the first page of the root.                        *)
(***************************************************************************)
EXTENDS Stage2, FiniteSetTheorems, TLAPS

-----------------------------------------------------------------------------
(* The inductive invariant                                                 *)

\* The places of a table under the first page of the root, guest frames, and
\* frames a block may begin at
Idx     == 0 .. (PerTable - 1)
Frame   == 0 .. (FirstTable - 1)
Aligned == {a \in Frame : a % BlockLen = 0}

\* All the places of table t, with root r
Places(r, t) == IF t = r THEN 0 .. (PerTable * RootNum - 1) ELSE Idx

\* The entries that a table of level l may have, in tables tb of levels lev
Allowed(tb, lev, l) ==
  {Invalid} \cup
    CASE l = 1 -> {"11"} \X {t \in DOMAIN tb : lev[t] = 2}
      [] l = 2 -> ({"01"} \X Aligned) \cup ({"11"} \X {t \in DOMAIN tb : lev[t] = 3})
      [] l = 3 -> {"11"} \X Frame

\* Every table has one level, the root alone level 1; what the other pages of
\* the root hold is of no level
Levels(tb, r, lev) ==
  /\ DOMAIN tb \subseteq Table
  /\ lev \in [DOMAIN tb -> 1 .. 3]
  /\ IF r = 0 THEN DOMAIN tb = {} ELSE r \in DOMAIN tb
  /\ \A t \in DOMAIN tb :
       /\ lev[t] = 1 <=> t = r
       /\ tb[t] \in [Places(r, t) -> Entry]
       /\ \A y \in Idx : tb[t][y] \in Allowed(tb, lev, lev[t])

\* No two entries lead to one table
Unshared(tb) ==
  \A s, t \in DOMAIN tb, x, y \in Idx :
    tb[s][x][2] \in Table /\ tb[s][x][2] = tb[t][y][2] => s = t /\ x = y

Tree(tb, r, lev) == Levels(tb, r, lev) /\ Unshared(tb)

\* Table t is where pte_get ends for that address and level
Path(tb, r, ipa, level, t) ==
  LET e == tb[r][pte_index(ipa, 1)] IN
  IF level = 2 THEN e = <<"11", t>>
  ELSE e[1] = "11" /\ tb[e[2]][pte_index(ipa, 2)] = <<"11", t>>

\* Page p is one of those whose translation the entry at hand decides
Covered(p) ==
  IF Level(call) = 2 THEN p \div BlockLen = call.ipa \div BlockLen ELSE p = call.ipa

\* Types, and how far the call is
CallRec == [pa: Nat \cup {NoPa}, ipa: Nat, len: Nat]

Scalars ==
  /\ need_flush \in BOOLEAN
  /\ watched \subseteq CachedType
  /\ watched = {} \/ \E w : watched = {w}
  /\ pc \in {"idle", "loop", "set", "make"} /\ ret \in {"ok", "failed"}
  /\ replaced \subseteq Ipa /\ calls \in 0 .. MaxCalls

Progress ==
  /\ call \in CallRec /\ of \in CallRec
  /\ of.ipa <= call.ipa /\ call.ipa + call.len = of.ipa + of.len
  /\ of.ipa + of.len <= PerTable * PerTable * PerTable
  /\ IsMap(of) <=> IsMap(call)
  /\ IsMap(of) => /\ call.pa = of.pa + (call.ipa - of.ipa)
                  /\ call.pa + call.len <= FirstTable
  /\ pc \in {"set", "make"} => call.len > 0
  /\ pc = "idle" /\ ret = "ok" => call.len = 0

\* The entry at hand is the one the hardware looks at for call.ipa
AtEntry ==
  pc \in {"set", "make"} =>
    /\ root # 0
    /\ set = [t |-> set.t, x |-> set.x, val |-> set.val, old |-> set.old]
    /\ Path(table, root, call.ipa, Level(call), set.t)
    /\ set.x = pte_index(call.ipa, Level(call))
    /\ set.val = IF ~IsMap(call) THEN Invalid
                 ELSE <<IF Level(call) = 2 THEN "01" ELSE "11", call.pa>>

\* The entry is broken, and its pages are marked where another valid entry is
\* to take the place of a valid one
Broken ==
  pc = "make" =>
    /\ table[set.t][set.x] = Invalid
    /\ is_pte_valid(set.val) /\ set.val # set.old =>
         \A p \in Ipa : Covered(p) => p \in replaced

\* What the table says of every page, entry by entry
Exact ==
  \A p \in Ipa :
    HwWalk(p) = IF p \in Done THEN Wanted(p)
                ELSE IF pc = "make" /\ Covered(p) THEN NoPa ELSE before[p]

\* What a cpu caches is in the table or marked, or a flush is to come; a page
\* it caches is mapped, but for one whose entry is broken
Cached ==
  ~need_flush =>
    \A w \in watched :
      ~(pc = "make" /\ Covered(w.page)) =>
        /\ HwWalk(w.page) # NoPa
        /\ w.page \notin replaced => HwWalk(w.page) = w.frame

\* The tables are a tree
HasTree == \E lev : Tree(table, root, lev)

IInv ==
  /\ Scalars /\ Progress /\ HasTree
  /\ AtEntry /\ Broken /\ Exact /\ Cached

-----------------------------------------------------------------------------
(* Arithmetic                                                              *)

\* Division with a remainder.
LEMMA DivFacts ==
  ASSUME NEW n \in Nat, NEW e \in Nat \ {0}
  PROVE  /\ n \div e \in Nat /\ n % e \in 0 .. (e - 1)
         /\ n = (n \div e) * e + (n % e)
  OBVIOUS

\* A product is less only with the smaller factor.
LEMMA MulLess ==
  ASSUME NEW q \in Nat, NEW b \in Nat, NEW e \in Nat, q * e < b * e
  PROVE  q < b
  <1>1. SUFFICES ASSUME q >= b PROVE FALSE
    OBVIOUS
  <1>2. PICK d \in Nat : q = b + d
    BY <1>1
  <1>3. (b + d) * e = b * e + d * e /\ d * e >= 0
    BY ONLY b \in Nat, d \in Nat, e \in Nat
  <1> QED BY <1>2, <1>3

\* Quotient and remainder are unique.
LEMMA DivUnique ==
  ASSUME NEW e \in Nat \ {0}, NEW q \in Nat, NEW r \in 0 .. (e - 1),
         NEW b \in Nat, NEW m \in 0 .. (e - 1), q * e + r = b * e + m
  PROVE  q = b /\ r = m
  <1>1. q * e \in Nat /\ b * e \in Nat
    OBVIOUS
  <1>2. (q + 1) * e = q * e + e /\ (b + 1) * e = b * e + e
    BY ONLY q \in Nat, b \in Nat, e \in Nat \ {0}
  <1>3. q * e < (b + 1) * e /\ b * e < (q + 1) * e
    BY ONLY <1>1, <1>2, e \in Nat \ {0}, r \in 0 .. (e - 1), m \in 0 .. (e - 1),
       q * e + r = b * e + m
  <1>4. q < b + 1
    BY ONLY <1>3, MulLess, q \in Nat, b + 1 \in Nat, e \in Nat \ {0}
  <1>5. b < q + 1
    BY ONLY <1>3, MulLess, b \in Nat, q + 1 \in Nat, e \in Nat \ {0}
  <1>6. q = b
    BY <1>4, <1>5
  <1> QED BY <1>1, <1>6

\* The constants are as the code has them.
LEMMA ConstFacts ==
  ASSUME Stage2Assumption
  PROVE  /\ PerTable \in Nat \ {0} /\ BlockLen = PerTable /\ FirstTable \in Nat \ {0}
         /\ RootNum \in Nat \ {0} /\ Leftover \in [PerTable .. (PerTable * RootNum - 1) -> Entry]
         /\ TableNum \in Nat \ {0} /\ MaxCalls \in Nat
         /\ 0 \notin Table /\ Table # {} /\ Table \subseteq Nat
         /\ Frame \cap Table = {} /\ Frame \subseteq Nat /\ 0 \in Frame
         /\ NoPa = -1 /\ Idx = 0 .. (PerTable - 1)
  <1>1. /\ PerTable \in Nat \ {0} /\ BlockLen = PerTable /\ FirstTable \in Nat \ {0}
        /\ RootNum \in Nat \ {0} /\ Leftover \in [PerTable .. (PerTable * RootNum - 1) -> Entry]
        /\ TableNum \in Nat \ {0} /\ MaxCalls \in Nat
    BY DEF Stage2Assumption, BlockLen
  <1>2. FirstTable \in Table
    BY <1>1 DEF Table
  <1>3. 0 \notin Table /\ Table \subseteq Nat
    BY <1>1 DEF Table
  <1>4. Frame \cap Table = {}
    BY <1>1 DEF Table, Frame
  <1>5. Frame \subseteq Nat /\ 0 \in Frame
    BY <1>1 DEF Frame
  <1> QED BY <1>1, <1>2, <1>3, <1>4, <1>5 DEF NoPa, Idx

\* Two divisions in turn are one.
LEMMA DivTwice ==
  ASSUME NEW n \in Nat, NEW e \in Nat \ {0}
  PROVE  /\ n \div (e * e) = (n \div e) \div e
         /\ n < e * e * e => n \div (e * e) \in 0 .. (e - 1)
  <1>1. PICK b \in Nat, m \in 0 .. (e - 1) : b = n \div e /\ n = b * e + m
    BY DivFacts
  <1>2. PICK a \in Nat, k \in 0 .. (e - 1) : a = b \div e /\ b = a * e + k
    BY DivFacts
  <1>3. PICK ee \in Nat \ {0} : ee = e * e
    OBVIOUS
  <1>4. n = a * ee + (k * e + m)
    <2>1. n = (a * e + k) * e + m
      BY <1>1, <1>2
    <2>2. (a * e + k) * e = a * (e * e) + k * e
      BY ONLY a \in Nat, e \in Nat \ {0}, k \in 0 .. (e - 1)
    <2>3. a * (e * e) \in Nat /\ k * e \in Nat
      OBVIOUS
    <2> QED BY ONLY <1>3, <2>1, <2>2, <2>3, m \in 0 .. (e - 1), e \in Nat \ {0}
  <1>5. k * e + m \in 0 .. (ee - 1)
    <2>1. PICK d \in Nat : k + d + 1 = e
      <3>1. e - 1 - k \in Nat /\ k + (e - 1 - k) + 1 = e
        OBVIOUS
      <3> QED BY <3>1
    <2>2. (k + d + 1) * e = k * e + d * e + e /\ k * e >= 0 /\ d * e >= 0
          /\ k * e \in Nat /\ d * e \in Nat
      BY ONLY k \in 0 .. (e - 1), d \in Nat, e \in Nat \ {0}
    <2>3. ee = k * e + d * e + e
      BY <1>3, <2>1, <2>2
    <2> QED BY ONLY <2>2, <2>3, m \in 0 .. (e - 1), e \in Nat \ {0}
  <1>6. PICK q \in Nat, r \in 0 .. (ee - 1) : q = n \div ee /\ n = q * ee + r
    BY DivFacts
  <1>7. q = a
    BY ONLY <1>4, <1>5, <1>6, DivUnique, a \in Nat, q \in Nat, ee \in Nat \ {0},
       r \in 0 .. (ee - 1)
  <1>8. ASSUME n < e * e * e PROVE a < e
    <2>1. a * ee \in Nat /\ a * ee <= n
      BY <1>4, <1>5
    <2>2. e * e * e = e * ee
      BY <1>3
    <2>3. a * ee < e * ee
      BY <1>8, <2>1, <2>2
    <2> QED BY ONLY <2>3, MulLess, a \in Nat, e \in Nat \ {0}, ee \in Nat \ {0}
  <1>9. n \div (e * e) = a /\ a = (n \div e) \div e
    BY <1>1, <1>2, <1>3, <1>6, <1>7
  <1> QED BY <1>8, <1>9

\* A number below a length is its own remainder by a multiple of the length.
LEMMA SmallMod ==
  ASSUME NEW e \in Nat \ {0}, NEW k \in Nat \ {0}, NEW n \in 0 .. (e - 1)
  PROVE  e * k \in Nat \ {0} /\ e <= e * k /\ n % (e * k) = n
  <1>1. PICK j \in Nat : k = j + 1
    <2>1. k - 1 \in Nat /\ k = (k - 1) + 1
      OBVIOUS
    <2> QED BY <2>1
  <1>2. e * (j + 1) = e * j + e /\ e * j >= 0 /\ e * j \in Nat
    BY ONLY e \in Nat \ {0}, j \in Nat
  <1>3. PICK m \in Nat \ {0} : m = e * k /\ e <= m
    <2>1. e * k = e * j + e
      BY <1>1, <1>2
    <2>2. e * k \in Nat \ {0} /\ e <= e * k
      BY ONLY <1>2, <2>1, e \in Nat \ {0}
    <2> QED BY <2>2
  <1>4. PICK q \in Nat, r \in 0 .. (m - 1) : q = n \div m /\ r = n % m /\ n = q * m + r
    BY DivFacts
  <1>5. 0 * m + n = q * m + r /\ n \in 0 .. (m - 1)
    BY <1>3, <1>4
  <1>6. n = r
    BY ONLY <1>5, DivUnique, m \in Nat \ {0}, q \in Nat, r \in 0 .. (m - 1), 0 \in Nat
  <1> QED BY <1>3, <1>4, <1>6

\* The places under the first page of the root are among all of its places.
LEMMA PlacesFacts ==
  ASSUME Stage2Assumption
  PROVE  /\ \A r, t : Idx \subseteq Places(r, t) /\ (t # r => Places(r, t) = Idx)
         /\ \A n \in Idx : n % (PerTable * RootNum) = n
  <1>1. PICK e \in Nat \ {0}, k \in Nat \ {0} : e = PerTable /\ k = RootNum
    BY ConstFacts
  <1>2. Idx = 0 .. (e - 1)
    BY <1>1 DEF Idx
  <1>3. \A n \in Idx : n % (e * k) = n
    BY <1>2, SmallMod
  <1>4. PICK m \in Nat \ {0} : m = e * k /\ e <= m
    <2>1. 0 \in 0 .. (e - 1)
      OBVIOUS
    <2> QED BY <2>1, SmallMod
  <1>5. 0 .. (e - 1) \subseteq 0 .. (m - 1)
    BY <1>4
  <1> QED BY <1>1, <1>2, <1>3, <1>4, <1>5 DEF Places

\* The places of an address in the tables of the three levels: the first two
\* are those of its block, the third is that of the page in it.
LEMMA IndexFacts ==
  ASSUME Stage2Assumption, NEW p \in Ipa
  PROVE  /\ pte_index(p, 1) \in Idx /\ pte_index(p, 2) \in Idx /\ pte_index(p, 3) \in Idx
         /\ p \in Nat /\ p % BlockLen \in Nat /\ p % BlockLen \in 0 .. (BlockLen - 1)
         /\ p \div BlockLen \in Nat /\ p = (p \div BlockLen) * BlockLen + (p % BlockLen)
         /\ pte_index(p, 1) = p \div (PerTable * PerTable)
  <1>1. PICK e \in Nat \ {0} : e = PerTable /\ BlockLen = e
    BY ConstFacts
  <1>2. p \in Nat /\ p < e * e * e
    <2>1. e * e * e \in Nat
      OBVIOUS
    <2> QED BY <1>1, <2>1 DEF Ipa
  <1>3. /\ p \div e \in Nat /\ p % e \in 0 .. (e - 1) /\ p = (p \div e) * e + (p % e)
    BY <1>2, DivFacts
  <1>4. (p \div e) % e \in 0 .. (e - 1)
    BY ONLY <1>3, DivFacts, e \in Nat \ {0}
  <1>5. p \div (e * e) \in 0 .. (e - 1)
    BY <1>2, DivTwice
  <1>6. Idx = 0 .. (e - 1)
    BY <1>1 DEF Idx
  <1>7. pte_index(p, 1) = (p \div (e * e)) % (PerTable * RootNum)
    BY <1>1 DEF pte_index
  <1>8. pte_index(p, 1) = p \div (e * e)
    BY <1>5, <1>6, <1>7, PlacesFacts
  <1>9. pte_index(p, 2) = (p \div e) % e /\ pte_index(p, 3) = p % e
    BY <1>1 DEF pte_index
  <1> QED BY <1>1, <1>2, <1>3, <1>4, <1>5, <1>6, <1>8, <1>9

\* Addresses have the same two first places exactly when in one block.
LEMMA BlockIndex ==
  ASSUME Stage2Assumption, NEW p \in Ipa, NEW q \in Ipa
  PROVE  /\ p \div BlockLen = q \div BlockLen <=>
              pte_index(p, 1) = pte_index(q, 1) /\ pte_index(p, 2) = pte_index(q, 2)
         /\ p = q <=> p \div BlockLen = q \div BlockLen /\ pte_index(p, 3) = pte_index(q, 3)
  <1>1. PICK e \in Nat \ {0} : e = PerTable /\ BlockLen = e
    BY ConstFacts
  <1>2. /\ p \div e \in Nat /\ p % e \in 0 .. (e - 1) /\ p = (p \div e) * e + (p % e)
        /\ q \div e \in Nat /\ q % e \in 0 .. (e - 1) /\ q = (q \div e) * e + (q % e)
        /\ p \in Nat /\ q \in Nat
    BY <1>1, IndexFacts
  <1>3. PICK b \in Nat, c \in Nat : b = p \div e /\ c = q \div e
    BY <1>2
  <1>4. /\ b = (b \div e) * e + (b % e) /\ c = (c \div e) * e + (c % e)
    BY DivFacts
  <1>5. /\ pte_index(p, 1) = b \div e /\ pte_index(p, 2) = b % e /\ pte_index(p, 3) = p % e
        /\ pte_index(q, 1) = c \div e /\ pte_index(q, 2) = c % e /\ pte_index(q, 3) = q % e
    <2>1. p \div (e * e) = b \div e /\ q \div (e * e) = c \div e
      BY <1>2, <1>3, DivTwice
    <2>2. pte_index(p, 1) = p \div (e * e) /\ pte_index(q, 1) = q \div (e * e)
      BY <1>1, IndexFacts
    <2>3. /\ pte_index(p, 2) = b % e /\ pte_index(p, 3) = p % e
          /\ pte_index(q, 2) = c % e /\ pte_index(q, 3) = q % e
      BY <1>1, <1>3 DEF pte_index
    <2> QED BY <2>1, <2>2, <2>3
  <1>6. b = c <=> pte_index(p, 1) = pte_index(q, 1) /\ pte_index(p, 2) = pte_index(q, 2)
    BY <1>4, <1>5
  <1>7. p = q <=> b = c /\ pte_index(p, 3) = pte_index(q, 3)
    BY <1>2, <1>3, <1>5
  <1> QED BY <1>1, <1>3, <1>6, <1>7

-----------------------------------------------------------------------------
(* Trees of tables                                                         *)

\* The walk of the hardware over tables tb from root r
WalkOf(tb, r, p) ==
  IF r = 0 \/ ~is_pte_valid(tb[r][pte_index(p, 1)]) THEN NoPa
  ELSE LET l2 == tb[tb[r][pte_index(p, 1)][2]][pte_index(p, 2)] IN
       IF ~is_pte_valid(l2) THEN NoPa
       ELSE IF is_pte_block(l2) THEN l2[2] + (p % BlockLen)
       ELSE LET l3 == tb[l2[2]][pte_index(p, 3)] IN
            IF is_pte_valid(l3) /\ ~is_pte_block(l3) THEN l3[2] ELSE NoPa

\* It is the walk of the model.
LEMMA WalkIs ==
  \A p : HwWalk(p) = WalkOf(table, root, p)
  BY DEF HwWalk, WalkOf, At

\* The same of the next state.
LEMMA WalkNext ==
  \A p : HwWalk(p)' = WalkOf(table', root', p)
  BY DEF HwWalk, WalkOf, At

\* What an entry of each level is.
LEMMA EntryFacts ==
  ASSUME Stage2Assumption, NEW tb, NEW lev, NEW e
  PROVE  /\ e \in Allowed(tb, lev, 1) <=>
              \/ e = Invalid
              \/ e[1] = "11" /\ e = <<"11", e[2]>> /\ e[2] \in DOMAIN tb /\ lev[e[2]] = 2
         /\ e \in Allowed(tb, lev, 2) <=>
              \/ e = Invalid
              \/ e[1] = "01" /\ e = <<"01", e[2]>> /\ e[2] \in Aligned
              \/ e[1] = "11" /\ e = <<"11", e[2]>> /\ e[2] \in DOMAIN tb /\ lev[e[2]] = 3
         /\ e \in Allowed(tb, lev, 3) <=>
              \/ e = Invalid
              \/ e[1] = "11" /\ e = <<"11", e[2]>> /\ e[2] \in Frame
         /\ Invalid[1] = "00" /\ Invalid[2] = 0 /\ ~is_pte_valid(Invalid)
  <1>1. Invalid[1] = "00" /\ Invalid[2] = 0 /\ ~is_pte_valid(Invalid)
    BY DEF Invalid, is_pte_valid
  <1>2. Allowed(tb, lev, 1) = {Invalid} \cup ({"11"} \X {t \in DOMAIN tb : lev[t] = 2})
    BY DEF Allowed
  <1>3. Allowed(tb, lev, 2) = {Invalid} \cup ({"01"} \X Aligned) \cup ({"11"} \X {t \in DOMAIN tb : lev[t] = 3})
    BY DEF Allowed
  <1>4. Allowed(tb, lev, 3) = {Invalid} \cup ({"11"} \X Frame)
    BY DEF Allowed
  <1>5. e \in Allowed(tb, lev, 1) <=>
              \/ e = Invalid
              \/ e[1] = "11" /\ e = <<"11", e[2]>> /\ e[2] \in DOMAIN tb /\ lev[e[2]] = 2
    BY <1>2
  <1>6. e \in Allowed(tb, lev, 2) <=>
              \/ e = Invalid
              \/ e[1] = "01" /\ e = <<"01", e[2]>> /\ e[2] \in Aligned
              \/ e[1] = "11" /\ e = <<"11", e[2]>> /\ e[2] \in DOMAIN tb /\ lev[e[2]] = 3
    BY <1>3
  <1>7. e \in Allowed(tb, lev, 3) <=>
              \/ e = Invalid
              \/ e[1] = "11" /\ e = <<"11", e[2]>> /\ e[2] \in Frame
    BY <1>4
  <1> QED BY <1>1, <1>5, <1>6, <1>7

\* Tables and entries of a tree.
LEMMA TreeFacts ==
  ASSUME Stage2Assumption, NEW tb, NEW r, NEW lev, Tree(tb, r, lev)
  PROVE  /\ DOMAIN tb \subseteq Table /\ 0 \notin DOMAIN tb
         /\ r # 0 => r \in DOMAIN tb /\ lev[r] = 1
         /\ \A t \in DOMAIN tb : /\ lev[t] \in 1 .. 3 /\ (lev[t] = 1 <=> t = r)
                                 /\ tb[t] \in [Places(r, t) -> Entry]
         /\ \A t \in DOMAIN tb, x \in Idx : tb[t][x] \in Allowed(tb, lev, lev[t])
  <1>1. Levels(tb, r, lev)
    BY DEF Tree
  <1>2. DOMAIN tb \subseteq Table /\ 0 \notin DOMAIN tb
    BY <1>1, ConstFacts DEF Levels
  <1>3. \A t \in DOMAIN tb : /\ lev[t] \in 1 .. 3 /\ (lev[t] = 1 <=> t = r)
                             /\ tb[t] \in [Places(r, t) -> Entry]
    BY <1>1 DEF Levels
  <1>4. r # 0 => r \in DOMAIN tb /\ lev[r] = 1
    BY <1>1, <1>3, SMTT(40) DEF Levels
  <1>5. \A t \in DOMAIN tb, x \in Idx : tb[t][x] \in Allowed(tb, lev, lev[t])
    BY <1>1 DEF Levels
  <1> QED BY <1>2, <1>3, <1>4, <1>5

\* Entries of the tables of any level are entries.
LEMMA AllowedEntry ==
  ASSUME Stage2Assumption, NEW tb, DOMAIN tb \subseteq Table, NEW lev, NEW l \in 1 .. 3
  PROVE  Allowed(tb, lev, l) \subseteq Entry
  <1>1. DOMAIN tb \subseteq Nat /\ Frame \subseteq Nat /\ Aligned \subseteq Nat
    BY ConstFacts DEF Aligned
  <1>2. SUFFICES ASSUME NEW e \in Allowed(tb, lev, l) PROVE e \in Entry
    OBVIOUS
  <1>3. e = Invalid \/ (\E a \in Nat : e = <<"01", a>>) \/ (\E a \in Nat : e = <<"11", a>>)
    <2>1. CASE l = 1
      <3>1. e \in Allowed(tb, lev, 1)
        BY <1>2, <2>1
      <3> QED BY <1>1, <3>1, EntryFacts
    <2>2. CASE l = 2
      <3>1. e \in Allowed(tb, lev, 2)
        BY <1>2, <2>2
      <3> QED BY <1>1, <3>1, EntryFacts
    <2>3. CASE l = 3
      <3>1. e \in Allowed(tb, lev, 3)
        BY <1>2, <2>3
      <3> QED BY <1>1, <3>1, EntryFacts
    <2> QED BY <2>1, <2>2, <2>3
  <1> QED BY <1>3 DEF Entry

\* The walk for page p ends at one of the three levels.
Ends(tb, r, lev, p, w) ==
  LET e1 == tb[r][pte_index(p, 1)]
      e2 == tb[e1[2]][pte_index(p, 2)]
      e3 == tb[e2[2]][pte_index(p, 3)]
  IN \/ e1 = Invalid /\ w = NoPa
     \/ /\ e1[1] = "11" /\ e1[2] \in DOMAIN tb /\ lev[e1[2]] = 2
        /\ \/ e2 = Invalid /\ w = NoPa
           \/ e2[1] = "01" /\ e2[2] \in Aligned /\ w = e2[2] + (p % BlockLen)
           \/ /\ e2[1] = "11" /\ e2[2] \in DOMAIN tb /\ lev[e2[2]] = 3
              /\ \/ e3 = Invalid /\ w = NoPa
                 \/ e3[1] = "11" /\ e3[2] \in Frame /\ w = e3[2]

\* It does, and with what the hardware finds.
LEMMA WalkEnds ==
  ASSUME Stage2Assumption, NEW tb, NEW r, NEW lev, Tree(tb, r, lev), r # 0, NEW p \in Ipa
  PROVE  Ends(tb, r, lev, p, WalkOf(tb, r, p))
  <1>1. PICK i1 \in Idx, i2 \in Idx, i3 \in Idx :
          i1 = pte_index(p, 1) /\ i2 = pte_index(p, 2) /\ i3 = pte_index(p, 3)
    BY IndexFacts
  <1>2. PICK e1 : e1 = tb[r][i1]
    OBVIOUS
  <1>3. e1 = Invalid \/ (e1[1] = "11" /\ e1[2] \in DOMAIN tb /\ lev[e1[2]] = 2)
    <2>1. e1 \in Allowed(tb, lev, 1)
      BY <1>2, TreeFacts
    <2> QED BY <2>1, EntryFacts
  <1>4. PICK e2 : e2 = tb[e1[2]][i2]
    OBVIOUS
  <1>5. e1[2] \in DOMAIN tb /\ lev[e1[2]] = 2 =>
          \/ e2 = Invalid
          \/ e2[1] = "01" /\ e2[2] \in Aligned
          \/ e2[1] = "11" /\ e2[2] \in DOMAIN tb /\ lev[e2[2]] = 3
    <2> HAVE e1[2] \in DOMAIN tb /\ lev[e1[2]] = 2
    <2>1. e2 \in Allowed(tb, lev, 2)
      BY <1>4, TreeFacts
    <2> QED BY <2>1, EntryFacts
  <1>6. PICK e3 : e3 = tb[e2[2]][i3]
    OBVIOUS
  <1>7. e2[2] \in DOMAIN tb /\ lev[e2[2]] = 3 =>
          e3 = Invalid \/ (e3[1] = "11" /\ e3[2] \in Frame)
    <2> HAVE e2[2] \in DOMAIN tb /\ lev[e2[2]] = 3
    <2>1. e3 \in Allowed(tb, lev, 3)
      BY <1>6, TreeFacts
    <2> QED BY <2>1, EntryFacts
  <1>8. Invalid[1] = "00"
    BY EntryFacts, SMTT(40)
  <1>9. WalkOf(tb, r, p) =
          IF e1[1] = "00" THEN NoPa ELSE IF e2[1] = "00" THEN NoPa
          ELSE IF e2[1] = "01" THEN e2[2] + (p % BlockLen)
          ELSE IF e3[1] # "00" /\ e3[1] # "01" THEN e3[2] ELSE NoPa
    BY <1>1, <1>2, <1>4, <1>6, ZenonT(40) DEF WalkOf, is_pte_valid, is_pte_block
  <1> QED BY <1>1, <1>2, <1>3, <1>4, <1>5, <1>6, <1>7, <1>8, <1>9, ZenonT(40) DEF Ends

\* There is one end.
LEMMA EndsOnce ==
  ASSUME NEW tb, NEW r, NEW lev, NEW p, NEW w, NEW v,
         Ends(tb, r, lev, p, w), Ends(tb, r, lev, p, v)
  PROVE  w = v
  <1>1. Invalid[1] = "00"
    BY DEF Invalid
  <1>2. PICK e1 : e1 = tb[r][pte_index(p, 1)]
    OBVIOUS
  <1>3. PICK e2 : e2 = tb[e1[2]][pte_index(p, 2)]
    OBVIOUS
  <1>4. PICK e3 : e3 = tb[e2[2]][pte_index(p, 3)]
    BY SMTT(40)
  <1>5. \A z : Ends(tb, r, lev, p, z) =>
          \/ e1[1] = "00" /\ z = NoPa
          \/ e1[1] = "11" /\ e2[1] = "00" /\ z = NoPa
          \/ e1[1] = "11" /\ e2[1] = "01" /\ z = e2[2] + (p % BlockLen)
          \/ e1[1] = "11" /\ e2[1] = "11" /\ e3[1] = "00" /\ z = NoPa
          \/ e1[1] = "11" /\ e2[1] = "11" /\ e3[1] = "11" /\ z = e3[2]
    BY <1>1, <1>2, <1>3, <1>4, ZenonT(40) DEF Ends
  <1>6. /\ \/ e1[1] = "00" /\ w = NoPa
           \/ e1[1] = "11" /\ e2[1] = "00" /\ w = NoPa
           \/ e1[1] = "11" /\ e2[1] = "01" /\ w = e2[2] + (p % BlockLen)
           \/ e1[1] = "11" /\ e2[1] = "11" /\ e3[1] = "00" /\ w = NoPa
           \/ e1[1] = "11" /\ e2[1] = "11" /\ e3[1] = "11" /\ w = e3[2]
        /\ \/ e1[1] = "00" /\ v = NoPa
           \/ e1[1] = "11" /\ e2[1] = "00" /\ v = NoPa
           \/ e1[1] = "11" /\ e2[1] = "01" /\ v = e2[2] + (p % BlockLen)
           \/ e1[1] = "11" /\ e2[1] = "11" /\ e3[1] = "00" /\ v = NoPa
           \/ e1[1] = "11" /\ e2[1] = "11" /\ e3[1] = "11" /\ v = e3[2]
    BY <1>5
  <1> QED BY ONLY <1>6

\* A walk finds a guest frame or nothing.
LEMMA WalkType ==
  ASSUME Stage2Assumption, NEW tb, NEW r, NEW lev, Tree(tb, r, lev), NEW p \in Ipa
  PROVE  WalkOf(tb, r, p) \in Nat \cup {NoPa}
  <1>1. CASE r = 0
    BY <1>1 DEF WalkOf
  <1>2. CASE r # 0
    <2>1. PICK w : w = WalkOf(tb, r, p)
      OBVIOUS
    <2>2. Ends(tb, r, lev, p, w)
      BY <1>2, <2>1, WalkEnds
    <2>3. w = NoPa \/ w \in Frame \/ \E a \in Aligned : w = a + (p % BlockLen)
      BY <2>2, ZenonT(40) DEF Ends
    <2>4. Aligned \subseteq Nat /\ Frame \subseteq Nat /\ p % BlockLen \in Nat
      BY ConstFacts, IndexFacts DEF Aligned
    <2>5. ASSUME NEW a \in Aligned PROVE a + (p % BlockLen) \in Nat
      BY <2>4
    <2> QED BY <2>1, <2>3, <2>4, <2>5, ZenonT(40)
  <1> QED BY <1>1, <1>2

\* Tables u are what a store of v, which leads to no table, makes of tables tb.
Stored(tb, lev, t, x, v, u) ==
  /\ t \in DOMAIN tb /\ x \in Idx /\ v \in Allowed(tb, lev, lev[t]) /\ v[2] \notin Table
  /\ u = [tb EXCEPT ![t][x] = v]

\* They are a tree again.
LEMMA StoreTree ==
  ASSUME Stage2Assumption, NEW tb, NEW r, NEW lev, Tree(tb, r, lev),
         NEW t, NEW x, NEW v, NEW u, Stored(tb, lev, t, x, v, u)
  PROVE  /\ Tree(u, r, lev) /\ DOMAIN u = DOMAIN tb
         /\ \A s \in DOMAIN tb, y \in Idx : u[s][y] = IF s = t /\ y = x THEN v ELSE tb[s][y]
  <1>0. SUFFICES ASSUME t \in DOMAIN tb, x \in Idx, v \in Allowed(tb, lev, lev[t]),
                        v[2] \notin Table, u = [tb EXCEPT ![t][x] = v]
                 PROVE  /\ Tree(u, r, lev) /\ DOMAIN u = DOMAIN tb
                        /\ \A s \in DOMAIN tb, y \in Idx :
                             u[s][y] = IF s = t /\ y = x THEN v ELSE tb[s][y]
    BY DEF Stored
  <1> USE <1>0
  <1>1. DOMAIN u = DOMAIN tb
    OBVIOUS
  <1>2. /\ \A s \in DOMAIN tb : tb[s] \in [Places(r, s) -> Entry]
        /\ \A s \in DOMAIN tb, y \in Idx : tb[s][y] \in Allowed(tb, lev, lev[s])
        /\ \A s \in DOMAIN tb : Idx \subseteq DOMAIN tb[s]
    <2>1. \A s \in DOMAIN tb : tb[s] \in [Places(r, s) -> Entry] /\ Idx \subseteq Places(r, s)
      BY TreeFacts, PlacesFacts
    <2> QED BY <2>1, TreeFacts
  <1>3. u[t] = [tb[t] EXCEPT ![x] = v] /\ \A s \in DOMAIN tb : s # t => u[s] = tb[s]
    OBVIOUS
  <1>4. \A s \in DOMAIN tb, y \in Idx : u[s][y] = IF s = t /\ y = x THEN v ELSE tb[s][y]
    BY <1>2, <1>3
  <1>5. \A l : Allowed(u, lev, l) = Allowed(tb, lev, l)
    BY <1>1 DEF Allowed
  <1>6. \A s \in DOMAIN tb : /\ u[s] \in [Places(r, s) -> Entry]
                             /\ \A y \in Idx : u[s][y] \in Allowed(u, lev, lev[s])
    <2>1. v \in Entry
      BY AllowedEntry, TreeFacts
    <2>2. \A s \in DOMAIN tb : u[s] \in [Places(r, s) -> Entry]
      BY <1>2, <1>3, <2>1
    <2> QED BY <1>2, <1>4, <1>5, <2>2
  <1>7. Levels(u, r, lev)
    BY <1>1, <1>6 DEF Tree, Levels
  <1>8. Unshared(u)
    <2>1. Unshared(tb)
      BY DEF Tree
    <2>2. SUFFICES ASSUME NEW s \in DOMAIN tb, NEW q \in DOMAIN tb, NEW y \in Idx, NEW z \in Idx,
                          u[s][y][2] \in Table, u[s][y][2] = u[q][z][2]
                   PROVE  s = q /\ y = z
      BY <1>1 DEF Unshared
    <2>3. u[s][y] = tb[s][y] /\ u[q][z] = tb[q][z]
      BY <1>4, <2>2
    <2> QED BY <2>1, <2>2, <2>3 DEF Unshared
  <1> QED BY <1>1, <1>4, <1>7, <1>8 DEF Tree

\* Tables u extend tables tb, levels included.
Extends(tb, lev, u, lev2) ==
  DOMAIN tb \subseteq DOMAIN u /\ \A s \in DOMAIN tb : lev2[s] = lev[s]

\* They have the entries that the walk for p looks at.
SameOn(tb, lev, u, r, p) ==
  LET e1 == tb[r][pte_index(p, 1)]
      e2 == tb[e1[2]][pte_index(p, 2)]
  IN /\ u[r][pte_index(p, 1)] = e1
     /\ e1[2] \in DOMAIN tb /\ lev[e1[2]] = 2 => u[e1[2]][pte_index(p, 2)] = e2
     /\ e2[2] \in DOMAIN tb /\ lev[e2[2]] = 3 =>
          u[e2[2]][pte_index(p, 3)] = tb[e2[2]][pte_index(p, 3)]

\* A walk whose entries are as they were ends where it did.
LEMMA SameEnds ==
  ASSUME NEW tb, NEW lev, NEW u, NEW lev2, Extends(tb, lev, u, lev2),
         NEW r, NEW p, NEW w, Ends(tb, r, lev, p, w), SameOn(tb, lev, u, r, p)
  PROVE  Ends(u, r, lev2, p, w)
  <1>1. PICK e1 : e1 = tb[r][pte_index(p, 1)]
    OBVIOUS
  <1>2. PICK e2 : e2 = tb[e1[2]][pte_index(p, 2)]
    OBVIOUS
  <1>3. /\ u[r][pte_index(p, 1)] = e1
        /\ e1[2] \in DOMAIN tb /\ lev[e1[2]] = 2 => u[e1[2]][pte_index(p, 2)] = e2
        /\ e2[2] \in DOMAIN tb /\ lev[e2[2]] = 3 =>
             u[e2[2]][pte_index(p, 3)] = tb[e2[2]][pte_index(p, 3)]
    BY <1>1, <1>2 DEF SameOn
  <1>4. CASE e1 = Invalid /\ w = NoPa
    BY <1>1, <1>2, <1>3, <1>4, SMTT(40) DEF Ends
  <1>5. CASE /\ e1[1] = "11" /\ e1[2] \in DOMAIN tb /\ lev[e1[2]] = 2
             /\ e2 = Invalid /\ w = NoPa
    BY <1>1, <1>2, <1>3, <1>5, ZenonT(40) DEF Ends, Extends
  <1>6. CASE /\ e1[1] = "11" /\ e1[2] \in DOMAIN tb /\ lev[e1[2]] = 2
             /\ e2[1] = "01" /\ e2[2] \in Aligned /\ w = e2[2] + (p % BlockLen)
    BY <1>1, <1>2, <1>3, <1>6, ZenonT(40) DEF Ends, Extends
  <1>7. PICK e3 : e3 = tb[e2[2]][pte_index(p, 3)]
    OBVIOUS
  <1>8. CASE /\ e1[1] = "11" /\ e1[2] \in DOMAIN tb /\ lev[e1[2]] = 2
             /\ e2[1] = "11" /\ e2[2] \in DOMAIN tb /\ lev[e2[2]] = 3
             /\ (e3 = Invalid /\ w = NoPa) \/ (e3[1] = "11" /\ e3[2] \in Frame /\ w = e3[2])
    BY <1>1, <1>2, <1>3, <1>7, <1>8, ZenonT(40) DEF Ends, Extends
  <1> QED BY <1>1, <1>2, <1>3, <1>4, <1>5, <1>6, <1>7, <1>8, ZenonT(40) DEF Ends

\* Where pte_get ends for a level is a table of that level.
LEMMA PathFacts ==
  ASSUME Stage2Assumption, NEW tb, NEW r, NEW lev, Tree(tb, r, lev), r # 0,
         NEW ipa \in Ipa, NEW l \in 2 .. 3, NEW t, Path(tb, r, ipa, l, t)
  PROVE  t \in DOMAIN tb /\ lev[t] = l /\ t # r
  <1>1. pte_index(ipa, 1) \in Idx /\ pte_index(ipa, 2) \in Idx
    BY IndexFacts
  <1>2. PICK e : e = tb[r][pte_index(ipa, 1)]
    OBVIOUS
  <1>3. e \in Allowed(tb, lev, 1) /\ Invalid[1] = "00"
    BY <1>1, <1>2, TreeFacts, EntryFacts
  <1>4. e[1] = "11" /\ e # Invalid
    <2>1. e[1] = "11"
      BY <1>2 DEF Path
    <2> QED BY <1>3, <2>1
  <1>5. e[2] \in DOMAIN tb /\ lev[e[2]] = 2
    BY <1>3, <1>4, EntryFacts
  <1>6. CASE l = 2
    <2>1. e[2] = t
      BY <1>2, <1>6 DEF Path
    <2> QED BY <1>5, <1>6, <2>1, TreeFacts
  <1>7. CASE l = 3
    <2>1. PICK d : d = tb[e[2]][pte_index(ipa, 2)]
      OBVIOUS
    <2>2. d = <<"11", t>>
      BY <1>2, <1>7, <2>1 DEF Path
    <2>3. d \in Allowed(tb, lev, 2)
      BY <1>1, <1>5, <2>1, TreeFacts
    <2>4. d # Invalid /\ d[1] = "11" /\ d[2] = t
      BY <2>2 DEF Invalid
    <2>5. t \in DOMAIN tb /\ lev[t] = 3
      BY <2>3, <2>4, EntryFacts
    <2> QED BY <1>7, <2>5, TreeFacts
  <1> QED BY <1>6, <1>7

\* What every walk finds after v is stored to the level-2 entry of an address
BlockStored(tb, r, lev, ipa, t, v, u) ==
  /\ Tree(u, r, lev) /\ Path(u, r, ipa, 2, t) /\ u[t][pte_index(ipa, 2)] = v
  /\ \A p \in Ipa : WalkOf(u, r, p) =
       IF p \div BlockLen = ipa \div BlockLen
       THEN IF v = Invalid THEN NoPa ELSE v[2] + (p % BlockLen)
       ELSE WalkOf(tb, r, p)

\* What a store to the level-2 entry of an address does to every walk.
LEMMA StoreBlock ==
  ASSUME Stage2Assumption, NEW tb, NEW r, NEW lev, Tree(tb, r, lev), r # 0,
         NEW ipa \in Ipa, NEW t, Path(tb, r, ipa, 2, t),
         NEW v, v = Invalid \/ v \in {"01"} \X Aligned,
         NEW u, u = [tb EXCEPT ![t][pte_index(ipa, 2)] = v]
  PROVE  BlockStored(tb, r, lev, ipa, t, v, u)
  <1>1. t \in DOMAIN tb /\ lev[t] = 2 /\ t # r
    BY PathFacts
  <1>2. PICK x \in Idx, i \in Idx : x = pte_index(ipa, 2) /\ i = pte_index(ipa, 1)
    BY IndexFacts
  <1>3. tb[r][i] = <<"11", t>> /\ r \in DOMAIN tb /\ lev[r] = 1 /\ t \in Table
    BY <1>1, <1>2, TreeFacts DEF Path
  <1>4. v \in Allowed(tb, lev, lev[t]) /\ v[2] \notin Table
    <2>1. v = Invalid \/ (v[1] = "01" /\ v = <<"01", v[2]>> /\ v[2] \in Aligned)
      OBVIOUS
    <2>2. v \in Allowed(tb, lev, 2)
      BY <2>1, EntryFacts
    <2>3. Invalid[2] \notin Table /\ Aligned \cap Table = {}
      BY ConstFacts, EntryFacts DEF Aligned
    <2>4. v[2] \notin Table
      BY <2>1, <2>3
    <2> QED BY <1>1, <2>2, <2>4
  <1>5. /\ Tree(u, r, lev) /\ DOMAIN u = DOMAIN tb
        /\ \A s \in DOMAIN tb, y \in Idx : u[s][y] = IF s = t /\ y = x THEN v ELSE tb[s][y]
    <2>1. Stored(tb, lev, t, x, v, u)
      BY <1>1, <1>2, <1>4 DEF Stored
    <2> QED BY ONLY Stage2Assumption, Tree(tb, r, lev), <2>1, StoreTree
  <1>6. u[r][i] = <<"11", t>> /\ u[t][x] = v
    BY <1>1, <1>3, <1>5
  <1>7. ASSUME NEW p \in Ipa
        PROVE  WalkOf(u, r, p) =
                 IF p \div BlockLen = ipa \div BlockLen
                 THEN IF v = Invalid THEN NoPa ELSE v[2] + (p % BlockLen)
                 ELSE WalkOf(tb, r, p)
    <2>1. Ends(u, r, lev, p, WalkOf(u, r, p)) /\ Ends(tb, r, lev, p, WalkOf(tb, r, p))
      BY <1>5, WalkEnds
    <2>2. CASE p \div BlockLen = ipa \div BlockLen
      <3>1. pte_index(p, 1) = i /\ pte_index(p, 2) = x
        BY <1>2, <2>2, BlockIndex
      <3>2. v = Invalid \/ (v # Invalid /\ v[1] = "01" /\ v[2] \in Aligned)
        BY DEF Invalid
      <3>3. <<"11", t>>[1] = "11" /\ <<"11", t>>[2] = t
        BY SMTT(40)
      <3>4. Ends(u, r, lev, p, IF v = Invalid THEN NoPa ELSE v[2] + (p % BlockLen))
        BY <1>1, <1>5, <1>6, <3>1, <3>2, <3>3, ZenonT(40) DEF Ends
      <3> QED BY <2>1, <2>2, <3>4, EndsOnce
    <2>3. CASE p \div BlockLen # ipa \div BlockLen
      <3>1. PICK j \in Idx, y \in Idx, z \in Idx :
              j = pte_index(p, 1) /\ y = pte_index(p, 2) /\ z = pte_index(p, 3)
        BY IndexFacts
      <3>2. ~(j = i /\ y = x)
        BY <1>2, <2>3, <3>1, BlockIndex
      <3>3. PICK e1 : e1 = tb[r][j]
        OBVIOUS
      <3>4. u[r][j] = e1
        BY <1>1, <1>3, <1>5, <3>3
      <3>5. PICK e2 : e2 = tb[e1[2]][y]
        OBVIOUS
      <3>6. e1[2] \in DOMAIN tb => u[e1[2]][y] = e2
        <4> HAVE e1[2] \in DOMAIN tb
        <4>1. e1[2] = t => j = i
          <5> HAVE e1[2] = t
          <5>1. tb[r][j][2] = t /\ tb[r][i][2] = t
            BY <1>3, <3>3
          <5> QED BY <1>3, <5>1 DEF Tree, Unshared
        <4> QED BY <1>5, <3>2, <3>5, <4>1
      <3>7. e2[2] \in DOMAIN tb /\ lev[e2[2]] = 3 => u[e2[2]][z] = tb[e2[2]][z]
        BY <1>1, <1>5
      <3>8. Extends(tb, lev, u, lev)
        BY <1>5 DEF Extends
      <3>9. Ends(u, r, lev, p, WalkOf(tb, r, p))
        <4>1. SameOn(tb, lev, u, r, p)
          BY <3>1, <3>3, <3>4, <3>5, <3>6, <3>7, ZenonT(40) DEF SameOn
        <4> QED BY <2>1, <3>8, <4>1, SameEnds
      <3> QED BY <2>1, <2>3, <3>9, EndsOnce
    <2> QED BY <2>2, <2>3
  <1>8. Path(u, r, ipa, 2, t)
    BY <1>2, <1>6 DEF Path
  <1> QED BY <1>2, <1>5, <1>6, <1>7, <1>8 DEF BlockStored

\* What every walk finds after v is stored to the level-3 entry of an address
PageStored(tb, r, lev, ipa, t, v, u) ==
  /\ Tree(u, r, lev) /\ Path(u, r, ipa, 3, t) /\ u[t][pte_index(ipa, 3)] = v
  /\ \A p \in Ipa : WalkOf(u, r, p) =
       IF p = ipa THEN IF v = Invalid THEN NoPa ELSE v[2] ELSE WalkOf(tb, r, p)

\* What a store to the level-3 entry of an address does to every walk.
LEMMA StorePage ==
  ASSUME Stage2Assumption, NEW tb, NEW r, NEW lev, Tree(tb, r, lev), r # 0,
         NEW ipa \in Ipa, NEW t, Path(tb, r, ipa, 3, t),
         NEW v, v = Invalid \/ v \in {"11"} \X Frame,
         NEW u, u = [tb EXCEPT ![t][pte_index(ipa, 3)] = v]
  PROVE  PageStored(tb, r, lev, ipa, t, v, u)
  <1>1. t \in DOMAIN tb /\ lev[t] = 3 /\ t # r
    BY PathFacts
  <1>2. PICK i \in Idx, x \in Idx, k \in Idx :
          i = pte_index(ipa, 1) /\ x = pte_index(ipa, 2) /\ k = pte_index(ipa, 3)
    BY IndexFacts
  <1>3. PICK s : s = tb[r][i][2]
    OBVIOUS
  <1>4. tb[r][i][1] = "11" /\ tb[s][x] = <<"11", t>>
    BY <1>2, <1>3 DEF Path
  <1>5. s \in DOMAIN tb /\ lev[s] = 2 /\ s \in Table /\ t \in Table /\ r \in DOMAIN tb /\ lev[r] = 1
    <2>1. tb[r][i] \in Allowed(tb, lev, 1) /\ tb[r][i] # Invalid
      BY <1>4, TreeFacts, EntryFacts, SMTT(40)
    <2>2. s \in DOMAIN tb /\ lev[s] = 2
      BY <1>3, <2>1, EntryFacts, SMTT(40)
    <2> QED BY <1>1, <2>2, TreeFacts
  <1>6. v \in Allowed(tb, lev, lev[t]) /\ v[2] \notin Table
    <2>1. v = Invalid \/ (v[1] = "11" /\ v = <<"11", v[2]>> /\ v[2] \in Frame)
      OBVIOUS
    <2>2. v \in Allowed(tb, lev, 3)
      BY <2>1, EntryFacts
    <2>3. Invalid[2] \notin Table /\ Frame \cap Table = {}
      BY ConstFacts, EntryFacts DEF Aligned
    <2>4. v[2] \notin Table
      BY <2>1, <2>3
    <2> QED BY <1>1, <2>2, <2>4
  <1>7. /\ Tree(u, r, lev) /\ DOMAIN u = DOMAIN tb
        /\ \A q \in DOMAIN tb, y \in Idx : u[q][y] = IF q = t /\ y = k THEN v ELSE tb[q][y]
    <2>1. Stored(tb, lev, t, k, v, u)
      BY <1>1, <1>2, <1>6 DEF Stored
    <2> QED BY ONLY Stage2Assumption, Tree(tb, r, lev), <2>1, StoreTree
  <1>8. u[r][i] = tb[r][i] /\ u[s][x] = <<"11", t>> /\ u[t][k] = v
    BY <1>1, <1>4, <1>5, <1>7
  <1>9. ASSUME NEW p \in Ipa
        PROVE  WalkOf(u, r, p) =
                 IF p = ipa THEN IF v = Invalid THEN NoPa ELSE v[2] ELSE WalkOf(tb, r, p)
    <2>1. Ends(u, r, lev, p, WalkOf(u, r, p)) /\ Ends(tb, r, lev, p, WalkOf(tb, r, p))
      BY <1>7, WalkEnds
    <2>2. CASE p = ipa
      <3>1. v = Invalid \/ (v # Invalid /\ v[1] = "11" /\ v[2] \in Frame)
        BY DEF Invalid
      <3>2. <<"11", t>>[1] = "11" /\ <<"11", t>>[2] = t
        OBVIOUS
      <3>3. PICK w : w = IF v = Invalid THEN NoPa ELSE v[2]
        OBVIOUS
      <3>4. (v = Invalid /\ w = NoPa) \/ (v[1] = "11" /\ v[2] \in Frame /\ w = v[2])
        BY <3>1, <3>3
      <3>5. /\ u[r][i][1] = "11" /\ u[r][i][2] = s /\ s \in DOMAIN u /\ lev[s] = 2
            /\ u[s][x][1] = "11" /\ u[s][x][2] = t /\ t \in DOMAIN u /\ lev[t] = 3
        BY <1>1, <1>3, <1>4, <1>5, <1>7, <1>8, <3>2, SMTT(40)
      <3>6. Ends(u, r, lev, p, w)
        BY <1>2, <1>8, <2>2, <3>4, <3>5, ZenonT(40) DEF Ends
      <3> QED BY <2>1, <2>2, <3>3, <3>6, EndsOnce
    <2>3. CASE p # ipa
      <3>1. PICK j \in Idx, y \in Idx, z \in Idx :
              j = pte_index(p, 1) /\ y = pte_index(p, 2) /\ z = pte_index(p, 3)
        BY IndexFacts
      <3>2. ~(j = i /\ y = x /\ z = k)
        BY <1>2, <2>3, <3>1, BlockIndex
      <3>3. PICK e1 : e1 = tb[r][j]
        OBVIOUS
      <3>4. u[r][j] = e1
        BY <1>1, <1>5, <1>7, <3>3
      <3>5. PICK e2 : e2 = tb[e1[2]][y]
        OBVIOUS
      <3>6. e1[2] \in DOMAIN tb /\ lev[e1[2]] = 2 => u[e1[2]][y] = e2
        BY <1>1, <1>7, <3>5
      <3>7. e2[2] \in DOMAIN tb /\ e1[2] \in DOMAIN tb => u[e2[2]][z] = tb[e2[2]][z]
        <4> HAVE e2[2] \in DOMAIN tb /\ e1[2] \in DOMAIN tb
        <4>1. e2[2] = t => j = i /\ y = x
          <5> HAVE e2[2] = t
          <5>1. tb[e1[2]][y][2] = t /\ tb[s][x][2] = t
            BY <1>4, <3>5
          <5>2. e1[2] = s /\ y = x
            BY <1>5, <5>1 DEF Tree, Unshared
          <5>3. tb[r][j][2] = s /\ tb[r][i][2] = s
            BY <1>3, <3>3, <5>2
          <5> QED BY <1>5, <5>2, <5>3 DEF Tree, Unshared
        <4> QED BY <1>7, <3>2, <4>1
      <3>8. Extends(tb, lev, u, lev)
        BY <1>7 DEF Extends
      <3>9. Ends(u, r, lev, p, WalkOf(tb, r, p))
        <4>1. CASE e1[2] \in DOMAIN tb
          <5>1. SameOn(tb, lev, u, r, p)
            BY <3>1, <3>3, <3>4, <3>5, <3>6, <3>7, <4>1, SMTT(40) DEF SameOn
          <5> QED BY <2>1, <3>8, <5>1, SameEnds, SMTT(40)
        <4>2. CASE e1[2] \notin DOMAIN tb
          BY <2>1, <3>1, <3>3, <3>4, <4>2, ZenonT(40) DEF Ends
        <4> QED BY <4>1, <4>2
      <3> QED BY <2>1, <2>3, <3>9, EndsOnce
    <2> QED BY <2>2, <2>3
  <1>10. Path(u, r, ipa, 3, t)
    BY <1>2, <1>3, <1>4, <1>8, ZenonT(40) DEF Path
  <1> QED BY <1>2, <1>7, <1>8, <1>9, <1>10 DEF PageStored

-----------------------------------------------------------------------------
(* pte_get                                                                 *)

\* Tables u are tables tb with a cleared table n that entry x of t leads to.
Grown(tb, lev, t, x, n, u) ==
  /\ t \in DOMAIN tb /\ x \in Idx /\ n \in Table /\ n \notin DOMAIN tb
  /\ tb[t][x] = Invalid /\ lev[t] \in 1 .. 2
  /\ u = [Zeroed(tb, n) EXCEPT ![t][x] = <<"11", n>>]

\* Their entries
GrownIs(tb, t, x, n, u) ==
  /\ DOMAIN u = DOMAIN tb \cup {n} /\ n # t
  /\ u[n] = [y \in Idx |-> Invalid]
  /\ \A s \in DOMAIN tb : u[s] = IF s = t THEN [tb[t] EXCEPT ![x] = <<"11", n>>] ELSE tb[s]
  /\ \A s \in DOMAIN tb, y \in Idx :
       u[s][y] = IF s = t /\ y = x THEN <<"11", n>> ELSE tb[s][y]
  /\ \A y \in Idx : u[n][y] = Invalid

\* The entries of such tables.
LEMMA GrownEntries ==
  ASSUME Stage2Assumption, NEW tb, NEW r, NEW lev, Tree(tb, r, lev),
         NEW t, NEW x, NEW n, NEW u, Grown(tb, lev, t, x, n, u)
  PROVE  GrownIs(tb, t, x, n, u)
  <1>1. /\ t \in DOMAIN tb /\ x \in Idx /\ n \notin DOMAIN tb
        /\ u = [Zeroed(tb, n) EXCEPT ![t][x] = <<"11", n>>]
    BY DEF Grown
  <1>2. PICK z : z = Zeroed(tb, n)
    OBVIOUS
  <1>3. z = [s \in DOMAIN tb \cup {n} |-> IF s # n THEN tb[s] ELSE [y \in Idx |-> Invalid]]
    BY <1>2 DEF Zeroed, Idx
  <1>4. u = [z EXCEPT ![t] = [z[t] EXCEPT ![x] = <<"11", n>>]] /\ n # t
    BY <1>1, <1>2
  <1>5. DOMAIN u = DOMAIN tb \cup {n} /\ u[n] = [y \in Idx |-> Invalid]
    BY <1>1, <1>3, <1>4
  <1>6. \A s \in DOMAIN tb : u[s] = IF s = t THEN [tb[t] EXCEPT ![x] = <<"11", n>>] ELSE tb[s]
    BY <1>1, <1>3, <1>4
  <1>7. \A s \in DOMAIN tb : Idx \subseteq DOMAIN tb[s]
    BY TreeFacts, PlacesFacts
  <1>8. \A s \in DOMAIN tb, y \in Idx :
          u[s][y] = IF s = t /\ y = x THEN <<"11", n>> ELSE tb[s][y]
    <2>1. SUFFICES ASSUME NEW s \in DOMAIN tb, NEW y \in Idx
                   PROVE  u[s][y] = IF s = t /\ y = x THEN <<"11", n>> ELSE tb[s][y]
      OBVIOUS
    <2>2. y \in DOMAIN tb[s]
      BY <1>7, <2>1
    <2>3. CASE s = t
      <3>1. u[s] = [tb[s] EXCEPT ![x] = <<"11", n>>]
        BY <1>6, <2>3
      <3>2. u[s][y] = IF y = x THEN <<"11", n>> ELSE tb[s][y]
        BY ONLY <2>2, <3>1
      <3> QED BY <2>3, <3>2
    <2>4. CASE s # t
      BY <1>6, <2>1, <2>4
    <2> QED BY <2>3, <2>4
  <1> QED BY <1>4, <1>5, <1>6, <1>8 DEF GrownIs

\* An entry that leads to a table leads to one of the tree.
LEMMA LinkFacts ==
  ASSUME Stage2Assumption, NEW tb, NEW r, NEW lev, Tree(tb, r, lev),
         NEW s \in DOMAIN tb, NEW y \in Idx, tb[s][y][2] \in Table
  PROVE  tb[s][y][2] \in DOMAIN tb
  <1>1. PICK e : e = tb[s][y]
    OBVIOUS
  <1>2. e \in Allowed(tb, lev, lev[s]) /\ lev[s] \in 1 .. 3
    BY <1>1, TreeFacts
  <1>3. lev[s] = 1 \/ lev[s] = 2 \/ lev[s] = 3
    BY <1>2
  <1>4. e \in Allowed(tb, lev, 1) \/ e \in Allowed(tb, lev, 2) \/ e \in Allowed(tb, lev, 3)
    BY <1>2, <1>3
  <1>5. e[2] \in DOMAIN tb \/ e[2] \in Frame \/ e[2] = 0
    BY <1>4, EntryFacts DEF Aligned
  <1> QED BY <1>1, <1>5, ConstFacts

\* A new table is one level below the table whose entry leads to it, and no
\* walk finds anything in it.
LEMMA GrownTree ==
  ASSUME Stage2Assumption, NEW tb, NEW r, NEW lev, Tree(tb, r, lev), r # 0,
         NEW t, NEW x, NEW n, NEW u, Grown(tb, lev, t, x, n, u)
  PROVE  \E lev2 : /\ Tree(u, r, lev2) /\ Extends(tb, lev, u, lev2) /\ lev2[n] = lev[t] + 1
                   /\ \A p \in Ipa : WalkOf(u, r, p) = WalkOf(tb, r, p)
  <1>1. /\ t \in DOMAIN tb /\ x \in Idx /\ n \in Table /\ n \notin DOMAIN tb
        /\ tb[t][x] = Invalid /\ lev[t] \in 1 .. 2
    BY DEF Grown
  <1>0. GrownIs(tb, t, x, n, u)
    BY GrownEntries
  <1>2. DOMAIN u = DOMAIN tb \cup {n} /\ n # t
    BY <1>0 DEF GrownIs
  <1>3. \A s \in DOMAIN tb, y \in Idx :
          u[s][y] = IF s = t /\ y = x THEN <<"11", n>> ELSE tb[s][y]
    BY <1>0 DEF GrownIs
  <1>4. u[n] = [y \in Idx |-> Invalid] /\ \A y \in Idx : u[n][y] = Invalid
    BY <1>0 DEF GrownIs
  <1>5. PICK lev2 : lev2 = [s \in DOMAIN u |-> IF s = n THEN lev[t] + 1 ELSE lev[s]]
    OBVIOUS
  <1>6. lev2[n] = lev[t] + 1 /\ \A s \in DOMAIN tb : lev2[s] = lev[s]
    BY <1>1, <1>2, <1>5
  <1>7. Extends(tb, lev, u, lev2)
    BY <1>2, <1>6 DEF Extends
  <1>8. \A l \in 1 .. 3 : Allowed(tb, lev, l) \subseteq Allowed(u, lev2, l)
    <2>1. SUFFICES ASSUME NEW l \in 1 .. 3, NEW e \in Allowed(tb, lev, l)
                   PROVE  e \in Allowed(u, lev2, l)
      OBVIOUS
    <2>2. \A s \in DOMAIN tb : s \in DOMAIN u /\ lev2[s] = lev[s]
      BY <1>2, <1>6
    <2>3. CASE l = 1
      BY <2>1, <2>2, <2>3, EntryFacts
    <2>4. CASE l = 2
      BY <2>1, <2>2, <2>4, EntryFacts
    <2>5. CASE l = 3
      BY <2>1, <2>5, EntryFacts
    <2> QED BY <2>3, <2>4, <2>5
  <1>9. <<"11", n>> \in Allowed(u, lev2, lev[t])
    <2>1. n \in DOMAIN u /\ <<"11", n>>[1] = "11" /\ <<"11", n>>[2] = n
      BY <1>2
    <2>2. CASE lev[t] = 1
      <3>1. lev2[n] = 2
        BY <1>6, <2>2
      <3> QED BY <2>1, <2>2, <3>1, EntryFacts
    <2>3. CASE lev[t] = 2
      <3>1. lev2[n] = 3
        BY <1>6, <2>3
      <3> QED BY <2>1, <2>3, <3>1, EntryFacts
    <2> QED BY <1>1, <2>2, <2>3
  <1>10. Levels(u, r, lev2)
    <2>1. DOMAIN u \subseteq Table /\ r \in DOMAIN u /\ n # r
      BY <1>1, <1>2, TreeFacts
    <2>2. lev2 \in [DOMAIN u -> 1 .. 3]
      <3>1. lev[t] + 1 \in 1 .. 3
        BY <1>1
      <3>2. \A s \in DOMAIN tb : lev[s] \in 1 .. 3
        BY TreeFacts
      <3> QED BY <1>2, <1>5, <3>1, <3>2
    <2>3. \A s \in DOMAIN u : lev2[s] = 1 <=> s = r
      <3>1. lev[t] + 1 # 1
        BY <1>1
      <3> QED BY <1>2, <1>6, <2>1, <3>1, TreeFacts
    <2>4. <<"11", n>> \in Entry /\ Invalid \in Entry /\ lev[t] \in 1 .. 3
      <3>1. n \in Nat
        BY <1>1, ConstFacts
      <3> QED BY <1>1, <3>1 DEF Entry
    <2>5. ASSUME NEW s \in DOMAIN u
          PROVE  /\ u[s] \in [Places(r, s) -> Entry]
                 /\ \A y \in Idx : u[s][y] \in Allowed(u, lev2, lev2[s])
      <3>1. CASE s = n
        <4>1. Places(r, n) = Idx
          BY <2>1, PlacesFacts
        <4> QED BY <1>4, <2>4, <3>1, <4>1 DEF Allowed
      <3>2. CASE s = t
        <4>1. u[t] = [tb[t] EXCEPT ![x] = <<"11", n>>]
          BY <1>0, <1>1 DEF GrownIs
        <4>2. tb[t] \in [Places(r, t) -> Entry]
          BY <1>1, TreeFacts
        <4>3. u[t] \in [Places(r, t) -> Entry]
          BY <2>4, <4>1, <4>2
        <4>4. ASSUME NEW y \in Idx PROVE u[t][y] \in Allowed(u, lev2, lev[t])
          <5>1. tb[t][y] \in Allowed(u, lev2, lev[t])
            BY <1>1, <1>8, <2>4, TreeFacts
          <5> QED BY <1>1, <1>3, <1>9, <5>1
        <4> QED BY <1>1, <1>6, <3>2, <4>3, <4>4
      <3>3. CASE s # n /\ s # t
        <4>1. s \in DOMAIN tb /\ u[s] = tb[s]
          BY <1>0, <3>3 DEF GrownIs
        <4>2. tb[s] \in [Places(r, s) -> Entry] /\ lev[s] \in 1 .. 3
          BY <4>1, TreeFacts
        <4>3. \A y \in Idx : tb[s][y] \in Allowed(u, lev2, lev[s])
          BY <1>8, <4>1, <4>2, TreeFacts
        <4> QED BY <1>6, <4>1, <4>2, <4>3
      <3> QED BY <3>1, <3>2, <3>3
    <2> QED BY <2>1, <2>2, <2>3, <2>5 DEF Levels
  <1>11. Unshared(u)
    <2>1. SUFFICES ASSUME NEW s \in DOMAIN u, NEW q \in DOMAIN u, NEW y \in Idx, NEW z \in Idx,
                          u[s][y][2] \in Table, u[s][y][2] = u[q][z][2]
                   PROVE  s = q /\ y = z
      BY DEF Unshared
    <2>2. Invalid[2] \notin Table
      BY EntryFacts, ConstFacts
    <2>3. s \in DOMAIN tb /\ q \in DOMAIN tb
      BY <1>2, <1>4, <2>1, <2>2
    <2>4. <<"11", n>>[2] = n
      OBVIOUS
    <2>5. \A a \in DOMAIN tb, b \in Idx : tb[a][b][2] # n
      BY <1>1, LinkFacts
    <2>6. \A a \in DOMAIN tb, b \in Idx : u[a][b][2] = n <=> a = t /\ b = x
      BY <1>3, <2>4, <2>5
    <2>7. CASE u[s][y][2] = n
      BY <2>1, <2>3, <2>6, <2>7
    <2>8. CASE u[s][y][2] # n
      <3>1. u[s][y] = tb[s][y] /\ u[q][z] = tb[q][z]
        BY <1>3, <2>1, <2>3, <2>6, <2>8
      <3> QED BY <2>1, <2>3, <3>1 DEF Tree, Unshared
    <2> QED BY <2>7, <2>8
  <1>12. Tree(u, r, lev2)
    BY <1>10, <1>11 DEF Tree
  <1>13. ASSUME NEW p \in Ipa PROVE WalkOf(u, r, p) = WalkOf(tb, r, p)
    <2>1. Ends(u, r, lev2, p, WalkOf(u, r, p)) /\ Ends(tb, r, lev, p, WalkOf(tb, r, p))
      BY <1>12, WalkEnds
    <2>2. PICK j \in Idx, y \in Idx, z \in Idx :
            j = pte_index(p, 1) /\ y = pte_index(p, 2) /\ z = pte_index(p, 3)
      BY IndexFacts
    <2>3. PICK e1 : e1 = tb[r][j]
      OBVIOUS
    <2>4. PICK e2 : e2 = tb[e1[2]][y]
      OBVIOUS
    <2>5. <<"11", n>>[1] = "11" /\ <<"11", n>>[2] = n /\ n \in DOMAIN u /\ Invalid[1] = "00"
      BY <1>2, EntryFacts
    <2>6. r \in DOMAIN tb /\ lev[r] = 1
      BY TreeFacts
    <2>7. CASE t = r /\ j = x
      <3>1. e1 = Invalid /\ u[r][j] = <<"11", n>> /\ u[n][y] = Invalid /\ lev2[n] = 2
        BY <1>1, <1>3, <1>4, <1>6, <2>3, <2>6, <2>7, SMTT(40)
      <3>2. WalkOf(tb, r, p) = NoPa
        BY <2>1, <2>2, <2>3, <2>5, <3>1 DEF Ends
      <3>3. Ends(u, r, lev2, p, NoPa)
        BY <2>2, <2>5, <3>1 DEF Ends
      <3> QED BY <2>1, <3>2, <3>3, EndsOnce
    <2>8. CASE /\ ~(t = r /\ j = x) /\ e1[2] = t /\ lev[t] = 2 /\ y = x /\ e1[1] = "11"
      <3>1. u[r][j] = e1 /\ e2 = Invalid /\ u[t][y] = <<"11", n>> /\ u[n][z] = Invalid
        BY <1>1, <1>3, <1>4, <2>3, <2>4, <2>6, <2>8
      <3>2. lev2[n] = 3 /\ lev2[t] = 2 /\ t \in DOMAIN u
        BY <1>1, <1>2, <1>6, <2>8, SMTT(40)
      <3>3. WalkOf(tb, r, p) = NoPa
        BY <2>1, <2>2, <2>3, <2>4, <2>5, <2>8, <3>1, ZenonT(40) DEF Ends
      <3>4. /\ u[r][j][1] = "11" /\ u[r][j][2] = t /\ u[t][y][1] = "11" /\ u[t][y][2] = n
        BY <2>5, <2>8, <3>1
      <3>5. Ends(u, r, lev2, p, NoPa)
        BY <2>2, <2>5, <3>1, <3>2, <3>4 DEF Ends
      <3> QED BY <2>1, <3>3, <3>5, EndsOnce
    <2>9. CASE ~(t = r /\ j = x) /\ ~(e1[2] = t /\ lev[t] = 2 /\ y = x /\ e1[1] = "11")
      <3>1. u[r][j] = e1
        BY <1>3, <2>3, <2>6, <2>9, SMTT(40)
      <3>2. e1[1] = "11" \/ e1 = Invalid
        BY <2>1, <2>2, <2>3, ZenonT(40) DEF Ends
      <3>3. e1[2] \in DOMAIN tb /\ lev[e1[2]] = 2 => u[e1[2]][y] = e2
        <4> HAVE e1[2] \in DOMAIN tb /\ lev[e1[2]] = 2
        <4>1. e1[1] = "11"
          <5>1. 0 \notin DOMAIN tb /\ Invalid[2] = 0
            BY TreeFacts, EntryFacts
          <5> QED BY <3>2, <5>1
        <4> QED BY <1>3, <2>4, <2>9, <4>1
      <3>4. e2[2] \in DOMAIN tb /\ lev[e2[2]] = 3 => u[e2[2]][z] = tb[e2[2]][z]
        BY <1>1, <1>3, SMTT(40)
      <3>5. SameOn(tb, lev, u, r, p)
        BY <2>2, <2>3, <2>4, <3>1, <3>3, <3>4 DEF SameOn
      <3>6. Ends(u, r, lev2, p, WalkOf(tb, r, p))
        BY <1>7, <2>1, <3>5, SameEnds
      <3> QED BY <2>1, <3>6, EndsOnce
    <2> QED BY <2>7, <2>8, <2>9
  <1> QED BY <1>6, <1>7, <1>12, <1>13

\* After a round of pte_get at table t of level l: the tree has grown at most
\* behind the entry of the address, no walk has changed, and the entry leads
\* to the table the round ends with, if any.
After(tb, lev, r, t, ipa, l, u, m) ==
  \E lev2 :
    /\ Tree(u, r, lev2) /\ Extends(tb, lev, u, lev2)
    /\ \A p \in Ipa : WalkOf(u, r, p) = WalkOf(tb, r, p)
    /\ \A s \in DOMAIN tb, y \in Idx : s # t => u[s][y] = tb[s][y]
    /\ m # 0 => /\ u[t][pte_index(ipa, l)] = <<"11", m>>
                /\ m \in DOMAIN u /\ lev2[m] = l + 1

\* A round that changes nothing.
LEMMA AfterSame ==
  ASSUME Stage2Assumption, NEW tb, NEW r, NEW lev, Tree(tb, r, lev), NEW t, NEW ipa, NEW l, NEW m,
         m # 0 => /\ tb[t][pte_index(ipa, l)] = <<"11", m>>
                  /\ m \in DOMAIN tb /\ lev[m] = l + 1
  PROVE  After(tb, lev, r, t, ipa, l, tb, m)
  <1>1. Extends(tb, lev, tb, lev)
    BY DEF Extends
  <1> QED BY <1>1 DEF After

\* A round of the loop, whatever the entry is.
LEMMA DescendFacts ==
  ASSUME Stage2Assumption, NEW tb, NEW r, NEW lev, Tree(tb, r, lev), r # 0,
         NEW l \in 1 .. 2, NEW t \in DOMAIN tb, lev[t] = l, NEW ipa \in Ipa
  PROVE  \E u, m : Descend(tb, t, ipa, l) = [tb |-> u, t |-> m] /\ After(tb, lev, r, t, ipa, l, u, m)
  <1>1. PICK x \in Idx : x = pte_index(ipa, l)
    BY IndexFacts
  <1>2. PICK e : e = tb[t][x]
    OBVIOUS
  <1>3. e \in Allowed(tb, lev, l)
    BY <1>1, <1>2, TreeFacts
  <1>4. Invalid[1] = "00"
    BY EntryFacts
  <1>5. CASE e = Invalid /\ Fresh(tb) = {}
    <2>1. Descend(tb, t, ipa, l) = [tb |-> tb, t |-> 0]
      BY <1>1, <1>2, <1>4, <1>5 DEF Descend, is_pte_valid
    <2>2. After(tb, lev, r, t, ipa, l, tb, 0)
      BY AfterSame
    <2> QED BY <2>1, <2>2
  <1>6. CASE e = Invalid /\ Fresh(tb) # {}
    <2>1. PICK n : n = CHOOSE f \in Fresh(tb) : TRUE
      OBVIOUS
    <2>2. n \in Fresh(tb)
      BY <1>6, <2>1
    <2>3. n \in Table /\ n \notin DOMAIN tb
      BY <2>2 DEF Fresh
    <2>4. PICK u : u = [Zeroed(tb, n) EXCEPT ![t][x] = <<"11", n>>]
      OBVIOUS
    <2>5. Descend(tb, t, ipa, l) = [tb |-> u, t |-> n]
      BY <1>1, <1>2, <1>4, <1>6, <2>1, <2>4 DEF Descend, is_pte_valid
    <2>6. Grown(tb, lev, t, x, n, u)
      BY <1>2, <1>6, <2>3, <2>4 DEF Grown
    <2>7. PICK lev2 : /\ Tree(u, r, lev2) /\ Extends(tb, lev, u, lev2) /\ lev2[n] = lev[t] + 1
                      /\ \A p \in Ipa : WalkOf(u, r, p) = WalkOf(tb, r, p)
      BY <2>6, GrownTree
    <2>8. GrownIs(tb, t, x, n, u)
      BY <2>6, GrownEntries
    <2>9. /\ n \in DOMAIN u /\ u[t][x] = <<"11", n>>
          /\ \A s \in DOMAIN tb, y \in Idx : s # t => u[s][y] = tb[s][y]
      BY <2>8 DEF GrownIs
    <2>10. After(tb, lev, r, t, ipa, l, u, n)
      BY <1>1, <2>7, <2>9 DEF After
    <2> QED BY <2>5, <2>10
  <1>7. CASE e[1] = "01"
    <2>1. Descend(tb, t, ipa, l) = [tb |-> tb, t |-> 0]
      BY <1>1, <1>2, <1>7 DEF Descend, is_pte_valid, is_pte_block
    <2>2. After(tb, lev, r, t, ipa, l, tb, 0)
      BY AfterSame
    <2> QED BY <2>1, <2>2
  <1>8. CASE e[1] = "11"
    <2>1. PICK m : m = e[2]
      OBVIOUS
    <2>2. Descend(tb, t, ipa, l) = [tb |-> tb, t |-> m]
      BY <1>1, <1>2, <1>8, <2>1 DEF Descend, is_pte_valid, is_pte_block
    <2>3. e = <<"11", m>> /\ m \in DOMAIN tb /\ lev[m] = l + 1
      <3>1. CASE l = 1
        <4>1. e \in Allowed(tb, lev, 1)
          BY <1>3, <3>1
        <4> QED BY <1>4, <1>8, <2>1, <3>1, <4>1, EntryFacts
      <3>2. CASE l = 2
        <4>1. e \in Allowed(tb, lev, 2)
          BY <1>3, <3>2
        <4> QED BY <1>4, <1>8, <2>1, <3>2, <4>1, EntryFacts
      <3> QED BY <3>1, <3>2
    <2>4. After(tb, lev, r, t, ipa, l, tb, m)
      BY <1>1, <1>2, <2>3, AfterSame
    <2> QED BY <2>2, <2>4
  <1>9. e = Invalid \/ e[1] = "01" \/ e[1] = "11"
    <2>1. e \in Allowed(tb, lev, 1) \/ e \in Allowed(tb, lev, 2)
      BY <1>3
    <2> QED BY <2>1, EntryFacts
  <1> QED BY <1>5, <1>6, <1>7, <1>8, <1>9

\* The first page of a new root is clear.
LEMMA RootType ==
  ASSUME Stage2Assumption
  PROVE  /\ \A n : RootEntries \in [Places(n, n) -> Entry]
         /\ \A y \in Idx : RootEntries[y] = Invalid
  <1>1. PICK e \in Nat \ {0}, m \in Nat : e = PerTable /\ m = PerTable * RootNum
    <2>1. PICK e \in Nat \ {0}, k \in Nat \ {0} : e = PerTable /\ k = RootNum
      BY ConstFacts
    <2>2. e * k \in Nat
      OBVIOUS
    <2> QED BY <2>1, <2>2
  <1>2. Leftover \in [e .. (m - 1) -> Entry]
    BY <1>1, ConstFacts
  <1>3. RootEntries = [x \in 0 .. (m - 1) |-> IF x < e THEN Invalid ELSE Leftover[x]]
    BY <1>1 DEF RootEntries
  <1>4. Invalid \in Entry
    BY DEF Entry
  <1>5. \A x \in 0 .. (m - 1) : x < e \/ x \in e .. (m - 1)
    OBVIOUS
  <1>6. RootEntries \in [0 .. (m - 1) -> Entry]
    BY <1>2, <1>3, <1>4, <1>5
  <1>7. \A n : Places(n, n) = 0 .. (m - 1)
    BY <1>1 DEF Places
  <1>8. Idx \subseteq 0 .. (m - 1) /\ \A y \in Idx : y < e
    <2>1. Idx = 0 .. (e - 1)
      BY <1>1 DEF Idx
    <2>2. Idx \subseteq 0 .. (m - 1)
      BY <1>7, PlacesFacts
    <2> QED BY <2>1, <2>2
  <1> QED BY <1>3, <1>6, <1>7, <1>8

\* The root is always to be had: the first table page is for it.
LEMMA RootedFacts ==
  ASSUME Stage2Assumption, NEW lev, Tree(table, root, lev)
  PROVE  \E u, m, lev2 :
           /\ Rooted = [tb |-> u, t |-> m] /\ m # 0 /\ Tree(u, m, lev2)
           /\ \A p \in Ipa : WalkOf(u, m, p) = WalkOf(table, root, p)
  <1>1. CASE root # 0
    BY <1>1 DEF Rooted
  <1>2. CASE root = 0
    <2>1. DOMAIN table = {}
      BY <1>2 DEF Tree, Levels
    <2>2. Fresh(table) # {}
      BY <2>1, ConstFacts DEF Fresh
    <2>3. PICK n : n = CHOOSE f \in Fresh(table) : TRUE
      OBVIOUS
    <2>4. n \in Table /\ n # 0
      BY <2>2, <2>3, ConstFacts DEF Fresh
    <2>5. PICK u : u = [s \in {n} |-> RootEntries]
      OBVIOUS
    <2>6. Rooted = [tb |-> u, t |-> n]
      BY <1>2, <2>2, <2>3, <2>5 DEF Rooted
    <2>7. DOMAIN u = {n} /\ u[n] = RootEntries
      BY <2>5
    <2>8. PICK lev2 : lev2 = [s \in {n} |-> 1]
      OBVIOUS
    <2>9. lev2 \in [{n} -> 1 .. 3] /\ lev2[n] = 1
      BY <2>8
    <2>10. u[n] \in [Places(n, n) -> Entry] /\ \A y \in Idx : u[n][y] = Invalid
      BY <2>7, RootType
    <2>11. Levels(u, n, lev2)
      <3>1. \A y \in Idx : u[n][y] \in Allowed(u, lev2, 1)
        BY <2>10 DEF Allowed
      <3> QED BY <2>4, <2>7, <2>9, <2>10, <3>1 DEF Levels
    <2>12. Invalid[2] \notin Table /\ ~is_pte_valid(Invalid)
      BY EntryFacts, ConstFacts
    <2>13. Unshared(u)
      BY <2>7, <2>10, <2>12 DEF Unshared
    <2>14. Tree(u, n, lev2)
      BY <2>11, <2>13 DEF Tree
    <2>15. ASSUME NEW p \in Ipa PROVE WalkOf(u, n, p) = WalkOf(table, root, p)
      <3>1. pte_index(p, 1) \in Idx
        BY IndexFacts
      <3>2. u[n][pte_index(p, 1)] = Invalid
        BY <2>10, <3>1
      <3>3. WalkOf(u, n, p) = NoPa
        BY <2>12, <3>2 DEF WalkOf
      <3>4. WalkOf(table, root, p) = NoPa
        BY <1>2 DEF WalkOf
      <3> QED BY <3>3, <3>4
    <2> QED BY <2>4, <2>6, <2>14, <2>15
  <1> QED BY <1>1, <1>2

\* pte_get makes a tree with the same translations, and ends where the
\* hardware looks for that address.
LEMMA PteGet ==
  ASSUME Stage2Assumption, NEW lev, Tree(table, root, lev), NEW ipa \in Ipa, NEW l \in 2 .. 3
  PROVE  \E u, m, lev2 :
           /\ pte_get(ipa, l) = [tb |-> u, t |-> m] /\ Rooted.t # 0 /\ Tree(u, Rooted.t, lev2)
           /\ \A p \in Ipa : WalkOf(u, Rooted.t, p) = WalkOf(table, root, p)
           /\ m # 0 => Path(u, Rooted.t, ipa, l, m)
  <1>1. PICK a, r, lev1 :
           /\ Rooted = [tb |-> a, t |-> r] /\ r # 0 /\ Tree(a, r, lev1)
           /\ \A p \in Ipa : WalkOf(a, r, p) = WalkOf(table, root, p)
    BY RootedFacts
  <1>2. Rooted.tb = a /\ Rooted.t = r
    BY <1>1
  <1>3. r \in DOMAIN a /\ lev1[r] = 1
    BY <1>1, TreeFacts
  <1>4. PICK b, s : Descend(a, r, ipa, 1) = [tb |-> b, t |-> s] /\ After(a, lev1, r, r, ipa, 1, b, s)
    <2>1. 1 \in 1 .. 2
      OBVIOUS
    <2> QED BY <1>1, <1>3, <2>1, DescendFacts
  <1>5. PICK lev2 :
          /\ Tree(b, r, lev2)
          /\ \A p \in Ipa : WalkOf(b, r, p) = WalkOf(a, r, p)
          /\ s # 0 => /\ b[r][pte_index(ipa, 1)] = <<"11", s>>
                      /\ s \in DOMAIN b /\ lev2[s] = 1 + 1
    BY <1>4 DEF After
  <1>6. [tb |-> b, t |-> s].t = s /\ [tb |-> b, t |-> s].tb = b
    OBVIOUS
  <1>7. CASE l = 2 \/ s = 0
    <2>1. pte_get(ipa, l) = [tb |-> b, t |-> s]
      BY <1>1, <1>2, <1>4, <1>6, <1>7 DEF pte_get
    <2>2. s # 0 => Path(b, r, ipa, l, s)
      BY <1>5, <1>7 DEF Path
    <2> QED BY <1>1, <1>2, <1>5, <2>1, <2>2
  <1>8. CASE l = 3 /\ s # 0
    <2>1. s \in DOMAIN b /\ lev2[s] = 2 /\ r \in DOMAIN b /\ s # r /\ 2 \in 1 .. 2
      BY <1>1, <1>5, <1>8, TreeFacts
    <2>2. PICK c, m : Descend(b, s, ipa, 2) = [tb |-> c, t |-> m] /\ After(b, lev2, r, s, ipa, 2, c, m)
      BY <1>1, <1>5, <2>1, DescendFacts
    <2>3. pte_get(ipa, l) = [tb |-> c, t |-> m]
      BY <1>1, <1>2, <1>4, <1>6, <1>8, <2>2 DEF pte_get
    <2>4. PICK lev3 :
          /\ Tree(c, r, lev3)
          /\ \A p \in Ipa : WalkOf(c, r, p) = WalkOf(b, r, p)
          /\ \A q \in DOMAIN b, y \in Idx : q # s => c[q][y] = b[q][y]
          /\ m # 0 => c[s][pte_index(ipa, 2)] = <<"11", m>>
      BY <2>2 DEF After
    <2>5. pte_index(ipa, 1) \in Idx
      BY IndexFacts
    <2>6. c[r][pte_index(ipa, 1)] = <<"11", s>>
      BY <1>5, <1>8, <2>1, <2>4, <2>5
    <2>7. <<"11", s>>[1] = "11" /\ <<"11", s>>[2] = s
      OBVIOUS
    <2>8. m # 0 => Path(c, r, ipa, l, m)
      BY <1>8, <2>4, <2>6, <2>7 DEF Path
    <2> QED BY <1>1, <1>2, <1>5, <2>3, <2>4, <2>8, ZenonT(40)
  <1> QED BY <1>7, <1>8

-----------------------------------------------------------------------------
(* The call                                                                *)

\* The pages of a block that begins at a.
LEMMA BlockPages ==
  ASSUME NEW e \in Nat \ {0}, NEW a \in Nat, a % e = 0, NEW p \in Nat
  PROVE  /\ p \div e = a \div e <=> p \in a .. (a + e - 1)
         /\ p \in a .. (a + e - 1) => p % e = p - a
  <1>1. PICK b \in Nat : b = a \div e /\ a = b * e /\ b * e \in Nat
    <2>1. a \div e \in Nat /\ a = (a \div e) * e + (a % e)
      BY DivFacts
    <2>2. (a \div e) * e \in Nat
      BY <2>1
    <2> QED BY <2>1, <2>2
  <1>2. PICK q \in Nat, m \in 0 .. (e - 1) : q = p \div e /\ m = p % e /\ p = q * e + m
    BY DivFacts
  <1>3. ASSUME q = b PROVE p \in a .. (a + e - 1)
    BY <1>1, <1>2, <1>3
  <1>4. ASSUME p \in a .. (a + e - 1) PROVE q = b /\ m = p - a
    <2>1. PICK d \in 0 .. (e - 1) : d = p - a
      BY <1>4
    <2>2. q * e + m = b * e + d
      BY <1>1, <1>2, <1>4, <2>1
    <2>3. q = b /\ m = d
      BY ONLY <2>2, DivUnique, e \in Nat \ {0}, q \in Nat, b \in Nat, m \in 0 .. (e - 1),
         d \in 0 .. (e - 1)
    <2> QED BY <2>1, <2>3
  <1> QED BY <1>1, <1>2, <1>3, <1>4

\* A length of whole blocks is at least one block.
LEMMA WholeBlocks ==
  ASSUME NEW e \in Nat \ {0}, NEW n \in Nat \ {0}, n % e = 0
  PROVE  n >= e
  <1>1. PICK q \in Nat : n = q * e
    <2>1. n \div e \in Nat /\ n = (n \div e) * e + (n % e)
      BY DivFacts
    <2>2. (n \div e) * e \in Nat
      BY <2>1
    <2> QED BY <2>1, <2>2
  <1>2. q # 0
    BY <1>1
  <1>3. PICK d \in Nat : q = d + 1
    <2>1. q - 1 \in Nat /\ q = (q - 1) + 1
      BY <1>2
    <2> QED BY <2>1
  <1>4. (d + 1) * e = d * e + e /\ d * e >= 0 /\ d * e \in Nat
    BY ONLY d \in Nat, e \in Nat \ {0}
  <1> QED BY <1>1, <1>3, <1>4

\* The length of the entry at hand
EntryLen == IF Level(call) = 2 THEN BlockLen ELSE 1

\* The pages of the entry at hand are the next ones of the call.
LEMMA EntryPages ==
  ASSUME Stage2Assumption, Progress, call.len > 0
  PROVE  /\ call.ipa \in Ipa /\ Level(call) \in 2 .. 3
         /\ EntryLen \in 1 .. call.len
         /\ \A p \in Ipa : Covered(p) <=> p \in call.ipa .. (call.ipa + EntryLen - 1)
         /\ Level(call) = 2 => \A p \in Ipa : Covered(p) => p % BlockLen = p - call.ipa
         /\ Level(call) = 2 /\ IsMap(call) => call.pa \in Aligned
         /\ IsMap(call) => call.pa \in Frame
  <1>1. PICK e \in Nat \ {0} : e = BlockLen /\ e = PerTable
    BY ConstFacts
  <1>2. call.ipa \in Nat /\ call.len \in Nat \ {0} /\ call.pa \in Nat \cup {NoPa} /\ of.ipa \in Nat /\ of.len \in Nat
    BY DEF Progress, CallRec
  <1>3. PICK k \in Nat : k = e * e * e
    <2>1. e * e * e \in Nat
      OBVIOUS
    <2> QED BY <2>1
  <1>4. call.ipa + call.len <= k /\ Ipa = 0 .. (k - 1)
    BY <1>1, <1>3 DEF Progress, Ipa
  <1>5. call.ipa \in Ipa
    BY ONLY <1>2, <1>3, <1>4
  <1>6. Level(call) \in 2 .. 3
    BY DEF Level
  <1>7. IsMap(call) => call.pa \in Frame
    <2> HAVE IsMap(call)
    <2>1. call.pa \in Nat /\ call.pa + call.len <= FirstTable /\ FirstTable \in Nat
      BY <1>2, ConstFacts DEF Progress, IsMap
    <2> QED BY <1>2, <2>1 DEF Frame
  <1>8. \A p \in Ipa : p \in Nat
    BY <1>3, <1>4
  <1>9. CASE Level(call) = 2
    <2>1. call.ipa % e = 0 /\ call.len % e = 0 /\ (IsMap(call) => call.pa % e = 0)
      <3>1. 2 # 3
        OBVIOUS
      <3> QED BY <1>1, <1>9, <3>1 DEF Level
    <2>2. EntryLen = e
      BY <1>1, <1>9 DEF EntryLen
    <2>3. e <= call.len
      BY <1>2, <2>1, WholeBlocks
    <2>4. \A p \in Ipa : Covered(p) <=> p \in call.ipa .. (call.ipa + e - 1)
      <3>1. SUFFICES ASSUME NEW p \in Ipa
                     PROVE  Covered(p) <=> p \in call.ipa .. (call.ipa + e - 1)
        OBVIOUS
      <3>2. p \div e = call.ipa \div e <=> p \in call.ipa .. (call.ipa + e - 1)
        BY ONLY <1>2, <1>8, <2>1, <3>1, e \in Nat \ {0}, p \in Ipa, BlockPages
      <3>3. Covered(p) <=> p \div e = call.ipa \div e
        BY <1>1, <1>9 DEF Covered
      <3> QED BY <3>2, <3>3
    <2>5. \A p \in Ipa : Covered(p) => p % e = p - call.ipa
      BY <1>2, <1>8, <2>1, <2>4, BlockPages
    <2>6. EntryLen \in 1 .. call.len
      BY <1>2, <2>2, <2>3
    <2>7. IsMap(call) => call.pa \in Aligned
      BY <1>1, <1>7, <2>1 DEF Aligned
    <2> QED BY <1>1, <1>5, <1>6, <1>7, <2>2, <2>4, <2>5, <2>6, <2>7
  <1>10. CASE Level(call) = 3
    <2>1. EntryLen = 1
      BY <1>10 DEF EntryLen
    <2>2. EntryLen \in 1 .. call.len
      BY <1>2, <2>1
    <2>3. \A p \in Ipa : Covered(p) <=> p \in call.ipa .. (call.ipa + 1 - 1)
      BY <1>2, <1>8, <1>10 DEF Covered
    <2> QED BY <1>5, <1>6, <1>7, <1>10, <2>1, <2>2, <2>3
  <1> QED BY <1>6, <1>9, <1>10

\* Behind the entry at hand the call is done with its pages and no others.
LEMMA AdvanceFacts ==
  ASSUME Stage2Assumption, Progress, call.len > 0, Advance, UNCHANGED <<of, ret>>
  PROVE  /\ Progress'
         /\ \A p \in Ipa : (p \in Done)' <=> p \in Done \/ Covered(p)
         /\ \A p \in Ipa : Covered(p) => p \notin Done
         /\ \A p : Wanted(p)' = Wanted(p)
  <1>1. PICK n \in 1 .. call.len : n = EntryLen
    BY EntryPages
  <1>2. /\ call' = [pa |-> IF IsMap(call) THEN call.pa + n ELSE NoPa,
                    ipa |-> call.ipa + n, len |-> call.len - n]
        /\ pc' = "loop"
    BY <1>1 DEF Advance, EntryLen
  <1>3. /\ call.ipa \in Nat /\ call.len \in Nat \ {0} /\ call.pa \in Nat \cup {NoPa}
        /\ of.ipa \in Nat /\ of.len \in Nat /\ of.pa \in Nat \cup {NoPa} /\ of \in CallRec
    BY DEF Progress, CallRec
  <1>4. call'.ipa = call.ipa + n /\ call'.len = call.len - n
    BY <1>2
  <1>5. call'.pa = IF IsMap(call) THEN call.pa + n ELSE NoPa
    BY <1>2
  <1>6. IsMap(call) <=> call.pa # NoPa
    BY DEF IsMap
  <1>7. NoPa = -1
    BY DEF NoPa
  <1>8. call'.pa \in Nat \cup {NoPa} /\ (IsMap(call') <=> IsMap(call))
    BY <1>1, <1>3, <1>5, <1>6, <1>7 DEF IsMap
  <1>9. call'.ipa \in Nat /\ call'.len \in Nat
    BY ONLY <1>1, <1>3, <1>4
  <1>10. call' \in CallRec
    BY <1>2, <1>4, <1>5, <1>8, <1>9 DEF CallRec
  <1>11. of.ipa <= call.ipa /\ call.ipa + call.len = of.ipa + of.len
    BY DEF Progress
  <1>12. of.ipa <= call'.ipa /\ call'.ipa + call'.len = of.ipa + of.len
    BY ONLY <1>1, <1>3, <1>4, <1>11
  <1>13. ASSUME IsMap(of)
         PROVE  call'.pa = of.pa + (call'.ipa - of.ipa) /\ call'.pa + call'.len <= FirstTable
    <2>1. /\ call.pa = of.pa + (call.ipa - of.ipa) /\ call.pa + call.len <= FirstTable
          /\ IsMap(call) /\ FirstTable \in Nat
      BY <1>13, ConstFacts DEF Progress
    <2>2. call.pa \in Nat /\ call'.pa = call.pa + n /\ of.pa \in Nat
      BY <1>3, <1>5, <1>6, <1>13, <2>1 DEF IsMap
    <2> QED BY ONLY <1>1, <1>3, <1>4, <2>1, <2>2
  <1>14. Progress'
    <2>1. IsMap(of) <=> IsMap(call)
      BY DEF Progress
    <2>2. of.ipa + of.len <= PerTable * PerTable * PerTable
      BY DEF Progress
    <2>3. of' = of /\ pc' = "loop"
      BY <1>2
    <2>4. IsMap(of)' <=> IsMap(of)
      BY <2>3 DEF IsMap
    <2>5. IsMap(call)' <=> IsMap(call')
      BY DEF IsMap
    <2> QED BY <1>3, <1>8, <1>10, <1>12, <1>13, <2>1, <2>2, <2>3, <2>4, <2>5 DEF Progress
  <1>15. \A p \in Ipa : p \in Nat
    BY IndexFacts
  <1>16. \A p \in Ipa : Covered(p) <=> p \in call.ipa .. (call.ipa + n - 1)
    BY <1>1, EntryPages
  <1>17. Done = of.ipa .. (call.ipa - 1) /\ Done' = of.ipa .. (call'.ipa - 1)
    BY DEF Done
  <1>18. \A p \in Ipa : (p \in Done)' <=> p \in Done \/ Covered(p)
    <2>1. SUFFICES ASSUME NEW p \in Ipa PROVE (p \in Done)' <=> p \in Done \/ Covered(p)
      OBVIOUS
    <2>2. p \in Nat /\ (Covered(p) <=> p \in call.ipa .. (call.ipa + n - 1))
      BY <1>15, <1>16, <2>1
    <2>3. (p \in Done <=> p \in of.ipa .. (call.ipa - 1))
          /\ ((p \in Done)' <=> p \in of.ipa .. (call'.ipa - 1))
      BY <1>17
    <2>4. p \in of.ipa .. (call'.ipa - 1)
          <=> p \in of.ipa .. (call.ipa - 1) \/ p \in call.ipa .. (call.ipa + n - 1)
      BY ONLY <1>1, <1>3, <1>4, <1>11, <2>2
    <2> QED BY <2>2, <2>3, <2>4
  <1>19. \A p \in Ipa : Covered(p) => p \notin Done
    BY <1>1, <1>3, <1>15, <1>16, <1>17
  <1>20. \A p : Wanted(p)' = Wanted(p)
    BY DEF Wanted, IsMap
  <1> QED BY <1>14, <1>18, <1>19, <1>20

\* What a store of v to the entry at hand has done
StoreDone(v) ==
  /\ HasTree'
  /\ Path(table', root, call.ipa, Level(call), set.t)
  /\ table'[set.t][set.x] = v
  /\ \A p \in Ipa : HwWalk(p)' =
       IF Covered(p) THEN IF v = Invalid THEN NoPa ELSE Wanted(p) ELSE HwWalk(p)

\* A store of set_pte to the entry at hand, to break it or to make it, changes
\* the translations of its pages and no other.
LEMMA StoreFacts ==
  ASSUME Stage2Assumption, Progress, HasTree, AtEntry, pc \in {"set", "make"},
         NEW v \in {Invalid, set.val}, Store(v), root' = root
  PROVE  StoreDone(v)
  <1>1. PICK lev : Tree(table, root, lev)
    BY DEF HasTree
  <1>2. /\ root # 0 /\ Path(table, root, call.ipa, Level(call), set.t)
        /\ set.x = pte_index(call.ipa, Level(call))
        /\ set.val = IF ~IsMap(call) THEN Invalid
                     ELSE <<IF Level(call) = 2 THEN "01" ELSE "11", call.pa>>
    BY DEF AtEntry
  <1>3. call.len > 0
    BY DEF Progress
  <1>4. /\ call.ipa \in Ipa /\ Level(call) \in 2 .. 3
        /\ Level(call) = 2 => \A p \in Ipa : Covered(p) => p % BlockLen = p - call.ipa
        /\ Level(call) = 2 /\ IsMap(call) => call.pa \in Aligned
        /\ IsMap(call) => call.pa \in Frame
    BY <1>3, EntryPages
  <1>5. PICK a, t, x : a \in Ipa /\ a = call.ipa /\ t = set.t /\ x = set.x
    BY <1>4
  <1>6. PICK u : u = table' /\ u = [table EXCEPT ![t][x] = v]
    BY <1>5 DEF Store
  <1>7. v # Invalid => IsMap(call) /\ v[2] = call.pa
    BY <1>2
  <1>8. ASSUME IsMap(call), NEW p \in Ipa PROVE Wanted(p) = call.pa + (p - call.ipa)
    <2>1. /\ IsMap(of) /\ call.pa = of.pa + (call.ipa - of.ipa)
      BY <1>8 DEF Progress
    <2>2. of.pa \in Nat /\ of.ipa \in Nat /\ call.ipa \in Nat
      BY <2>1 DEF Progress, CallRec, IsMap
    <2>3. p \in Nat
      BY IndexFacts
    <2>4. of.pa + (p - of.ipa) = call.pa + (p - call.ipa)
      BY ONLY <2>1, <2>2, <2>3
    <2> QED BY <2>1, <2>4 DEF Wanted
  <1>9. CASE Level(call) = 2
    <2>1. Path(table, root, a, 2, t) /\ u = [table EXCEPT ![t][pte_index(a, 2)] = v]
      BY <1>2, <1>5, <1>6, <1>9
    <2>2. v = Invalid \/ v \in {"01"} \X Aligned
      BY <1>2, <1>4, <1>9
    <2>3. /\ Tree(u, root, lev) /\ Path(u, root, a, 2, t) /\ u[t][pte_index(a, 2)] = v
          /\ \A p \in Ipa : WalkOf(u, root, p) =
               IF p \div BlockLen = a \div BlockLen
               THEN IF v = Invalid THEN NoPa ELSE v[2] + (p % BlockLen)
               ELSE WalkOf(table, root, p)
      <3>1. BlockStored(table, root, lev, a, t, v, u)
        BY <1>1, <1>2, <1>5, <2>1, <2>2, StoreBlock
      <3> QED BY <3>1 DEF BlockStored
    <2>4. ASSUME NEW p \in Ipa
          PROVE  HwWalk(p)' = IF Covered(p) THEN IF v = Invalid THEN NoPa ELSE Wanted(p) ELSE HwWalk(p)
      <3>1. HwWalk(p)' = WalkOf(u, root, p) /\ HwWalk(p) = WalkOf(table, root, p)
        BY <1>6, WalkIs, WalkNext
      <3>2. Covered(p) <=> p \div BlockLen = a \div BlockLen
        BY <1>5, <1>9 DEF Covered
      <3>3. CASE ~Covered(p)
        BY <2>3, <3>1, <3>2, <3>3
      <3>4. CASE Covered(p) /\ v = Invalid
        BY <2>3, <3>1, <3>2, <3>4
      <3>5. CASE Covered(p) /\ v # Invalid
        <4>1. v[2] = call.pa /\ p % BlockLen = p - call.ipa /\ Wanted(p) = call.pa + (p - call.ipa)
          BY <1>4, <1>7, <1>8, <1>9, <3>5
        <4> QED BY <2>3, <3>1, <3>2, <3>5, <4>1
      <3> QED BY <3>3, <3>4, <3>5
    <2>5. HasTree'
      BY <1>6, <2>3 DEF HasTree
    <2> QED BY <1>2, <1>5, <1>6, <1>9, <2>3, <2>4, <2>5 DEF StoreDone
  <1>10. CASE Level(call) = 3
    <2>1. Path(table, root, a, 3, t) /\ u = [table EXCEPT ![t][pte_index(a, 3)] = v]
      BY <1>2, <1>5, <1>6, <1>10
    <2>2. v = Invalid \/ v \in {"11"} \X Frame
      BY <1>2, <1>4, <1>10
    <2>3. /\ Tree(u, root, lev) /\ Path(u, root, a, 3, t) /\ u[t][pte_index(a, 3)] = v
          /\ \A p \in Ipa : WalkOf(u, root, p) =
               IF p = a THEN IF v = Invalid THEN NoPa ELSE v[2] ELSE WalkOf(table, root, p)
      <3>1. PageStored(table, root, lev, a, t, v, u)
        BY <1>1, <1>2, <1>5, <2>1, <2>2, StorePage
      <3> QED BY <3>1 DEF PageStored
    <2>4. ASSUME NEW p \in Ipa
          PROVE  HwWalk(p)' = IF Covered(p) THEN IF v = Invalid THEN NoPa ELSE Wanted(p) ELSE HwWalk(p)
      <3>1. HwWalk(p)' = WalkOf(u, root, p) /\ HwWalk(p) = WalkOf(table, root, p)
        BY <1>6, WalkIs, WalkNext
      <3>2. Covered(p) <=> p = a
        BY <1>5, <1>10 DEF Covered
      <3>3. CASE ~Covered(p)
        BY <2>3, <3>1, <3>2, <3>3
      <3>4. CASE Covered(p) /\ v = Invalid
        BY <2>3, <3>1, <3>2, <3>4
      <3>5. CASE Covered(p) /\ v # Invalid
        <4>1. v[2] = call.pa /\ Wanted(p) = call.pa + (p - call.ipa) /\ p = call.ipa
          BY <1>5, <1>7, <1>8, <3>2, <3>5
        <4>2. call.pa \in Nat /\ p \in Nat
          BY <1>4, <1>7, <3>5, ConstFacts, IndexFacts
        <4>3. call.pa + (p - call.ipa) = call.pa
          BY <4>1, <4>2
        <4> QED BY <2>3, <3>1, <3>2, <3>5, <4>1, <4>3
      <3> QED BY <3>3, <3>4, <3>5
    <2>5. HasTree'
      BY <1>6, <2>3 DEF HasTree
    <2> QED BY <1>2, <1>5, <1>6, <1>10, <2>3, <2>4, <2>5 DEF StoreDone
  <1> QED BY <1>4, <1>9, <1>10

\* What the store of mem_pte_set leaves is what the call wants.
LEMMA ValueWanted ==
  ASSUME Progress, AtEntry, pc \in {"set", "make"}, set.val = Invalid
  PROVE  \A p : Wanted(p) = NoPa
  <1>1. ~IsMap(call)
    <2>1. SUFFICES ASSUME IsMap(call) PROVE FALSE
      OBVIOUS
    <2>2. set.val = <<IF Level(call) = 2 THEN "01" ELSE "11", call.pa>>
      BY <2>1 DEF AtEntry
    <2>3. set.val[1] # "00"
      BY <2>2
    <2> QED BY <2>3 DEF Invalid
  <1> QED BY <1>1 DEF Progress, Wanted

\* An invalid entry at hand translates none of its pages.
LEMMA InvalidEntry ==
  ASSUME Stage2Assumption, Progress, AtEntry, pc \in {"set", "make"},
         ~is_pte_valid(table[set.t][set.x]), NEW p \in Ipa, Covered(p)
  PROVE  HwWalk(p) = NoPa
  <1>1. /\ root # 0 /\ Path(table, root, call.ipa, Level(call), set.t)
        /\ set.x = pte_index(call.ipa, Level(call)) /\ call.len > 0
    BY DEF AtEntry, Progress
  <1>2. call.ipa \in Ipa /\ Level(call) \in 2 .. 3
    BY <1>1, EntryPages
  <1>3. PICK t : t = set.t
    OBVIOUS
  <1>4. PICK a \in Ipa : a = call.ipa
    BY <1>2
  <1>5. <<"11", t>>[1] = "11" /\ <<"11", t>>[2] = t
    OBVIOUS
  <1>6. CASE Level(call) = 2
    <2>1. pte_index(p, 1) = pte_index(a, 1) /\ pte_index(p, 2) = pte_index(a, 2)
      BY <1>3, <1>4, <1>6, BlockIndex DEF Covered
    <2>2. table[root][pte_index(a, 1)] = <<"11", t>>
      BY <1>1, <1>3, <1>4, <1>6 DEF Path
    <2>3. ~is_pte_valid(table[t][pte_index(a, 2)])
      BY <1>1, <1>3, <1>4, <1>6, SMTT(40)
    <2>4. WalkOf(table, root, p) = NoPa
      BY <1>5, <2>1, <2>2, <2>3, ZenonT(40) DEF WalkOf
    <2> QED BY <2>4, WalkIs
  <1>7. CASE Level(call) = 3
    <2>1. p = a
      BY <1>3, <1>4, <1>7 DEF Covered
    <2>2. PICK e : e = table[root][pte_index(a, 1)]
      BY SMTT(40)
    <2>3. e[1] = "11" /\ table[e[2]][pte_index(a, 2)] = <<"11", t>>
      <3>1. Path(table, root, a, 3, t)
        BY <1>1, <1>3, <1>4, <1>7
      <3> QED BY <2>2, <3>1 DEF Path
    <2>4. ~is_pte_valid(table[t][pte_index(a, 3)])
      BY <1>1, <1>3, <1>4, <1>7
    <2>5. WalkOf(table, root, p) = NoPa
      BY <1>5, <2>1, <2>2, <2>3, <2>4 DEF WalkOf, is_pte_valid, is_pte_block
    <2> QED BY <2>5, WalkIs
  <1> QED BY <1>2, <1>6, <1>7

-----------------------------------------------------------------------------
(* The invariant, action by action                                         *)

\* Walks that find no change in the tables.
LEMMA SameWalk ==
  ASSUME UNCHANGED <<table, root>>
  PROVE  (\A p : HwWalk(p)' = HwWalk(p)) /\ (HasTree => HasTree')
  BY DEF HwWalk, At, HasTree

\* A call finds every page as it is.
LEMMA CallInv ==
  ASSUME Stage2Assumption, IInv, NEW c \in Calls, Call(c)
  PROVE  IInv'
  <1>1. /\ pc = "idle" /\ calls < MaxCalls /\ call' = c /\ of' = c /\ ret' = "ok" /\ pc' = "loop"
        /\ before' = [p \in Ipa |-> HwWalk(p)] /\ calls' = calls + 1
        /\ UNCHANGED <<table, root, need_flush, watched, set, replaced>>
    BY DEF Call
  <1>2. (\A p : HwWalk(p)' = HwWalk(p)) /\ HasTree'
    BY <1>1, SameWalk DEF IInv
  <1>3. Scalars'
    <2>1. calls \in 0 .. MaxCalls /\ MaxCalls \in Nat
      BY ConstFacts DEF IInv, Scalars
    <2>2. calls' \in 0 .. MaxCalls
      BY <1>1, <2>1
    <2> QED BY <1>1, <2>2 DEF IInv, Scalars
  <1>4. /\ c \in [pa: Nat \cup {NoPa}, ipa: Ipa, len: Nat \ {0}]
        /\ c.ipa + c.len - 1 \in Ipa /\ c.pa + c.len <= FirstTable
    BY DEF Stage2Assumption, CallType
  <1>5. c.ipa \in Nat /\ c.len \in Nat
    BY <1>4, IndexFacts
  <1>6. c \in CallRec
    BY <1>4, <1>5 DEF CallRec
  <1>7. c.ipa + c.len <= PerTable * PerTable * PerTable
    <2>1. PICK k \in Nat : k = PerTable * PerTable * PerTable
      <3>1. PICK e \in Nat : e = PerTable
        BY ConstFacts
      <3>2. e * e * e \in Nat
        OBVIOUS
      <3> QED BY <3>1, <3>2
    <2>2. c.ipa + c.len - 1 \in 0 .. (k - 1)
      BY <1>4, <2>1 DEF Ipa
    <2>3. c.ipa + c.len <= k
      BY ONLY <1>5, <2>2, k \in Nat
    <2> QED BY <2>1, <2>3
  <1>8. Progress'
    <2>1. IsMap(c) => c.pa \in Nat
      BY <1>4 DEF IsMap
    <2>2. c.ipa <= c.ipa /\ (IsMap(c) => c.pa = c.pa + (c.ipa - c.ipa))
      BY <1>5, <2>1
    <2>3. (IsMap(of) <=> IsMap(call))' /\ (IsMap(of)' => IsMap(c))
      BY <1>1 DEF IsMap
    <2> QED BY <1>1, <1>4, <1>6, <1>7, <2>2, <2>3 DEF Progress
  <1>9. Done' = {}
    <2>1. Done' = c.ipa .. (c.ipa - 1)
      BY <1>1 DEF Done
    <2> QED BY <1>5, <2>1
  <1>10. Exact'
    BY <1>1, <1>2, <1>9 DEF Exact
  <1>11. Cached'
    BY <1>1, <1>2 DEF Cached, IInv
  <1>12. AtEntry' /\ Broken'
    BY <1>1 DEF AtEntry, Broken
  <1> QED BY <1>2, <1>3, <1>8, <1>10, <1>11, <1>12 DEF IInv

\* A round up to mem_pte_set changes no translation.
LEMMA RoundInv ==
  ASSUME Stage2Assumption, IInv, Round
  PROVE  IInv'
  <1>1. PICK lev : Tree(table, root, lev)
    BY DEF IInv, HasTree
  <1>2. pc = "loop" /\ call.len > 0 /\ Progress
    BY DEF Round, IInv
  <1>3. call.ipa \in Ipa /\ Level(call) \in 2 .. 3
    BY <1>2, EntryPages
  <1>4. PICK u, m, lev2 :
          /\ pte_get(call.ipa, Level(call)) = [tb |-> u, t |-> m]
          /\ Rooted.t # 0 /\ Tree(u, Rooted.t, lev2)
          /\ \A p \in Ipa : WalkOf(u, Rooted.t, p) = WalkOf(table, root, p)
          /\ m # 0 => Path(u, Rooted.t, call.ipa, Level(call), m)
    BY <1>1, <1>3, PteGet
  <1>5. [tb |-> u, t |-> m].tb = u /\ [tb |-> u, t |-> m].t = m
    OBVIOUS
  <1>6. /\ table' = u /\ root' = Rooted.t
        /\ UNCHANGED <<need_flush, watched, call, of, before, replaced, calls>>
    BY <1>4, <1>5 DEF Round
  <1>7. IF m = 0
        THEN ret' = "failed" /\ pc' = "idle" /\ UNCHANGED set
        ELSE /\ set' = [t |-> m, x |-> pte_index(call.ipa, Level(call)), old |-> Invalid,
                        val |-> IF ~IsMap(call) THEN Invalid
                                ELSE <<IF Level(call) = 2 THEN "01" ELSE "11", call.pa>>]
             /\ pc' = "set"
             /\ UNCHANGED ret
    BY <1>4, <1>5 DEF Round
  <1>8. (pc' = "idle" /\ ret' = "failed") \/ (pc' = "set" /\ ret' = ret)
    BY <1>7
  <1>9. HasTree'
    BY <1>4, <1>6 DEF HasTree
  <1>10. \A p \in Ipa : HwWalk(p)' = HwWalk(p)
    BY <1>4, <1>6, WalkIs, WalkNext
  <1>11. Scalars'
    BY <1>6, <1>8 DEF IInv, Scalars
  <1>12. Progress'
    BY <1>2, <1>6, <1>8 DEF Progress, IsMap
  <1>13. Level(call)' = Level(call) /\ (IsMap(call))' = IsMap(call)
    BY <1>6 DEF Level, IsMap
  <1>14. AtEntry'
    <2>1. SUFFICES ASSUME m # 0 PROVE AtEntry'
      BY <1>7 DEF AtEntry
    <2>2. /\ set'.t = m /\ set'.x = pte_index(call.ipa, Level(call)) /\ set'.old = Invalid
          /\ set'.val = IF ~IsMap(call) THEN Invalid
                        ELSE <<IF Level(call) = 2 THEN "01" ELSE "11", call.pa>>
          /\ set' = [t |-> set'.t, x |-> set'.x, val |-> set'.val, old |-> set'.old]
      BY <1>7, <2>1
    <2> QED BY <1>4, <1>6, <1>13, <2>1, <2>2 DEF AtEntry
  <1>15. Broken'
    BY <1>8 DEF Broken
  <1>16. Exact'
    <2>1. \A p : Done' = Done /\ Wanted(p)' = Wanted(p)
      BY <1>6 DEF Done, Wanted, IsMap
    <2> QED BY <1>2, <1>6, <1>8, <1>10, <2>1 DEF Exact, IInv
  <1>17. Cached'
    <2>1. \A w \in watched : w.page \in Ipa
      BY DEF IInv, Scalars, CachedType
    <2> QED BY <1>2, <1>6, <1>8, <1>10, <2>1 DEF Cached, IInv
  <1> QED BY <1>9, <1>11, <1>12, <1>14, <1>15, <1>16, <1>17 DEF IInv

\* Behind a store of the value, all but the cached translation.
LEMMA MadeInv ==
  ASSUME Stage2Assumption, IInv, pc \in {"set", "make"}, Store(set.val), Advance,
         UNCHANGED <<root, of, ret, before>>
  PROVE  /\ Progress' /\ HasTree' /\ AtEntry' /\ Broken' /\ Exact' /\ pc' = "loop"
         /\ \A p \in Ipa : HwWalk(p)' = IF Covered(p) THEN Wanted(p) ELSE HwWalk(p)
  <1>1. Progress /\ HasTree /\ AtEntry /\ Exact /\ call.len > 0 /\ pc' = "loop"
    BY DEF IInv, Progress, Advance
  <1>2. StoreDone(set.val)
    BY <1>1, StoreFacts
  <1>3. /\ HasTree'
        /\ \A p \in Ipa : HwWalk(p)' =
             IF Covered(p) THEN IF set.val = Invalid THEN NoPa ELSE Wanted(p) ELSE HwWalk(p)
    BY <1>2 DEF StoreDone
  <1>4. \A p \in Ipa : HwWalk(p)' = IF Covered(p) THEN Wanted(p) ELSE HwWalk(p)
    BY <1>1, <1>3, ValueWanted
  <1>5. /\ Progress'
        /\ \A p \in Ipa : (p \in Done)' <=> p \in Done \/ Covered(p)
        /\ \A p \in Ipa : Covered(p) => p \notin Done
        /\ \A p : Wanted(p)' = Wanted(p)
    BY <1>1, AdvanceFacts
  <1>6. Exact'
    <2>1. SUFFICES ASSUME NEW p \in Ipa
                   PROVE  HwWalk(p)' = IF (p \in Done)' THEN Wanted(p)' ELSE before'[p]
      BY <1>1 DEF Exact
    <2>2. CASE Covered(p)
      BY <1>4, <1>5, <2>2
    <2>3. CASE ~Covered(p)
      BY <1>1, <1>4, <1>5, <2>3 DEF Exact
    <2> QED BY <2>2, <2>3
  <1>7. AtEntry' /\ Broken'
    BY <1>1 DEF AtEntry, Broken
  <1> QED BY <1>1, <1>3, <1>4, <1>5, <1>6, <1>7

\* Nothing of an invalid entry was cached.
LEMMA SetFreshInv ==
  ASSUME Stage2Assumption, IInv, SetFresh
  PROVE  IInv'
  <1>1. /\ pc = "set" /\ ~is_pte_valid(table[set.t][set.x]) /\ Store(set.val) /\ Advance
        /\ UNCHANGED <<root, need_flush, watched, of, ret, set, before, replaced, calls>>
    BY DEF SetFresh
  <1>2. /\ Progress' /\ HasTree' /\ AtEntry' /\ Broken' /\ Exact' /\ pc' = "loop"
        /\ \A p \in Ipa : HwWalk(p)' = IF Covered(p) THEN Wanted(p) ELSE HwWalk(p)
    BY <1>1, MadeInv
  <1>3. Scalars'
    BY <1>1, <1>2 DEF IInv, Scalars
  <1>4. Cached'
    <2>1. SUFFICES ASSUME ~need_flush, NEW w \in watched
                   PROVE  /\ HwWalk(w.page)' # NoPa
                          /\ w.page \notin replaced => HwWalk(w.page)' = w.frame
      BY <1>1 DEF Cached
    <2>2. /\ HwWalk(w.page) # NoPa /\ w.page \in Ipa
          /\ w.page \notin replaced => HwWalk(w.page) = w.frame
      BY <1>1, <2>1 DEF IInv, Cached, Scalars, CachedType
    <2>3. ~Covered(w.page)
      <3>1. Covered(w.page) => HwWalk(w.page) = NoPa
        BY <1>1, <2>2, InvalidEntry DEF IInv
      <3> QED BY <2>2, <3>1
    <2> QED BY <1>2, <2>2, <2>3
  <1> QED BY <1>2, <1>3, <1>4 DEF IInv

\* A broken entry translates none of its pages.
LEMMA BreakInv ==
  ASSUME Stage2Assumption, IInv, Break
  PROVE  IInv'
  <1>1. /\ pc = "set" /\ is_pte_valid(table[set.t][set.x]) /\ Store(Invalid)
        /\ set' = [set EXCEPT !.old = table[set.t][set.x]] /\ pc' = "make"
        /\ UNCHANGED <<root, need_flush, watched, call, of, ret, before, calls>>
    BY DEF Break
  <1>2. replaced' = IF is_pte_valid(set.val) /\ set.val # table[set.t][set.x]
                    THEN replaced \cup Behind ELSE replaced
    BY DEF Break
  <1>3. Progress /\ HasTree /\ AtEntry /\ Exact /\ call.len > 0
    BY <1>1 DEF IInv, Progress
  <1>4. StoreDone(Invalid)
    BY <1>1, <1>3, StoreFacts
  <1>5. /\ HasTree' /\ Path(table', root, call.ipa, Level(call), set.t)
        /\ table'[set.t][set.x] = Invalid
        /\ \A p \in Ipa : HwWalk(p)' = IF Covered(p) THEN NoPa ELSE HwWalk(p)
    BY <1>4 DEF StoreDone
  <1>6. /\ set'.t = set.t /\ set'.x = set.x /\ set'.val = set.val
        /\ set'.old = table[set.t][set.x]
        /\ set' = [t |-> set'.t, x |-> set'.x, val |-> set'.val, old |-> set'.old]
    <2>1. set = [t |-> set.t, x |-> set.x, val |-> set.val, old |-> set.old]
      BY <1>1, <1>3 DEF AtEntry
    <2> QED BY ONLY <1>1, <2>1
  <1>7. Level(call)' = Level(call) /\ IsMap(call)' = IsMap(call)
        /\ (\A p : Covered(p)' = Covered(p))
    BY <1>1 DEF Level, IsMap, Covered
  <1>8. replaced \subseteq replaced' /\ replaced' \subseteq Ipa
    <2>1. call.ipa \in Ipa
      BY <1>3, EntryPages
    <2>2. Behind \subseteq Ipa
      BY <2>1 DEF Behind
    <2> QED BY <1>2, <2>2 DEF IInv, Scalars
  <1>9. Scalars'
    BY <1>1, <1>8 DEF IInv, Scalars
  <1>10. Progress'
    BY <1>1, <1>3 DEF Progress, IsMap
  <1>11. AtEntry'
    BY <1>1, <1>3, <1>5, <1>6, <1>7 DEF AtEntry
  <1>13. Broken'
    <2>1. ASSUME is_pte_valid(set.val), set.val # table[set.t][set.x], NEW p \in Ipa, Covered(p)
          PROVE  p \in replaced'
      <3>1. p \in Behind
        BY <2>1 DEF Covered, Behind
      <3> QED BY <1>2, <2>1, <3>1
    <2> QED BY <1>5, <1>6, <1>7, <2>1 DEF Broken
  <1>14. Exact'
    <2>1. Done' = Done /\ (\A p : Wanted(p)' = Wanted(p))
      BY <1>1 DEF Done, Wanted, IsMap
    <2>2. \A p \in Ipa : Covered(p) => p \notin Done
      <3>1. call.ipa \in Nat /\ of.ipa \in Nat /\ EntryLen \in Nat
        <4>1. EntryLen \in 1 .. call.len /\ call.len \in Nat
          BY <1>3, EntryPages DEF Progress, CallRec
        <4>2. EntryLen \in Nat
          BY <4>1
        <4> QED BY <1>3, <4>2 DEF Progress, CallRec
      <3>2. \A p \in Ipa : p \in Nat /\ (Covered(p) => p \in call.ipa .. (call.ipa + EntryLen - 1))
        BY <1>3, EntryPages, IndexFacts
      <3> QED BY <3>1, <3>2 DEF Done
    <2> QED BY <1>1, <1>3, <1>5, <1>7, <2>1, <2>2 DEF Exact
  <1>15. Cached'
    <2>1. SUFFICES ASSUME ~need_flush, NEW w \in watched, ~Covered(w.page)
                   PROVE  /\ HwWalk(w.page)' # NoPa
                          /\ w.page \notin replaced' => HwWalk(w.page)' = w.frame
      BY <1>1, <1>7 DEF Cached
    <2>2. /\ HwWalk(w.page) # NoPa /\ w.page \in Ipa
          /\ w.page \notin replaced' => HwWalk(w.page) = w.frame
      BY <1>1, <1>8, <2>1 DEF IInv, Cached, Scalars, CachedType
    <2> QED BY <1>5, <2>1, <2>2
  <1> QED BY <1>5, <1>9, <1>10, <1>11, <1>13, <1>14, <1>15 DEF IInv

\* A valid value maps its pages.
LEMMA ValidWanted ==
  ASSUME Stage2Assumption, Progress, AtEntry, pc \in {"set", "make"}, is_pte_valid(set.val),
         NEW p \in Ipa, Covered(p)
  PROVE  Wanted(p) # NoPa
  <1>1. IsMap(call)
    <2>1. ~IsMap(call) => set.val = Invalid
      BY DEF AtEntry
    <2> QED BY <2>1 DEF Invalid, is_pte_valid
  <1>2. /\ IsMap(of) /\ call.pa = of.pa + (call.ipa - of.ipa) /\ call.len > 0
        /\ of.ipa <= call.ipa
    BY <1>1 DEF Progress
  <1>3. /\ of.pa \in Nat /\ of.ipa \in Nat /\ call.ipa \in Nat /\ call.len \in Nat /\ p \in Nat
    BY <1>2, IndexFacts DEF Progress, CallRec, IsMap
  <1>4. p \in call.ipa .. (call.ipa + EntryLen - 1) /\ EntryLen \in 1 .. call.len
    BY <1>2, EntryPages
  <1>5. p >= of.ipa
    BY <1>2, <1>3, <1>4
  <1>6. Wanted(p) = of.pa + (p - of.ipa)
    BY <1>2 DEF Wanted
  <1> QED BY <1>3, <1>5, <1>6 DEF NoPa

\* A page whose entry another valid one replaces is marked and mapped again,
\* and otherwise the flush is to come.
LEMMA MakeInv ==
  ASSUME Stage2Assumption, IInv, Make
  PROVE  IInv'
  <1>1. /\ pc = "make" /\ Store(set.val) /\ Advance
        /\ UNCHANGED <<root, of, ret, set, before, replaced, calls>>
        /\ IF Deferred(set.val, set.old)
           THEN need_flush' = TRUE /\ UNCHANGED watched
           ELSE tlb_flush_ipa(call.ipa) /\ UNCHANGED need_flush
    BY DEF Make
  <1>2. /\ Progress' /\ HasTree' /\ AtEntry' /\ Broken' /\ Exact' /\ pc' = "loop"
        /\ \A p \in Ipa : HwWalk(p)' = IF Covered(p) THEN Wanted(p) ELSE HwWalk(p)
    BY <1>1, MadeInv
  <1>3. watched' \subseteq watched /\ need_flush' \in BOOLEAN
    BY <1>1 DEF tlb_flush_ipa, IInv, Scalars
  <1>4. watched' = {} \/ \E w : watched' = {w}
    <2>1. watched = {} \/ \E w : watched = {w}
      BY DEF IInv, Scalars
    <2> QED BY <1>3, <2>1
  <1>5. Scalars'
    BY <1>1, <1>2, <1>3, <1>4 DEF IInv, Scalars
  <1>6. Cached'
    <2>1. SUFFICES ASSUME ~need_flush', NEW w \in watched'
                   PROVE  /\ HwWalk(w.page)' # NoPa
                          /\ w.page \notin replaced => HwWalk(w.page)' = w.frame
      BY <1>1 DEF Cached
    <2>2. is_pte_valid(set.val) /\ set.val # set.old /\ ~need_flush
      BY <1>1, <2>1 DEF Deferred
    <2>3. w \in watched /\ w.page \in Ipa
      BY <1>3, <2>1 DEF IInv, Scalars, CachedType
    <2>4. Broken /\ Cached /\ Progress /\ AtEntry
      BY DEF IInv
    <2>5. CASE Covered(w.page)
      <3>1. w.page \in replaced
        BY <1>1, <2>2, <2>3, <2>4, <2>5 DEF Broken
      <3>2. Wanted(w.page) # NoPa
        BY <1>1, <2>2, <2>3, <2>4, <2>5, ValidWanted
      <3> QED BY <1>2, <2>3, <2>5, <3>1, <3>2
    <2>6. CASE ~Covered(w.page)
      <3>1. /\ HwWalk(w.page) # NoPa
            /\ w.page \notin replaced => HwWalk(w.page) = w.frame
        BY <2>2, <2>3, <2>4, <2>6 DEF Cached
      <3> QED BY <1>2, <2>3, <2>6, <3>1
    <2> QED BY <2>5, <2>6
  <1> QED BY <1>2, <1>5, <1>6 DEF IInv

\* A call returns when nothing is left of it.
LEMMA ReturnInv ==
  ASSUME Stage2Assumption, IInv, Return
  PROVE  IInv'
  <1>1. /\ pc = "loop" /\ call.len <= 0 /\ pc' = "idle"
        /\ UNCHANGED <<table, root, need_flush, watched, call, of, ret, set, before, replaced, calls>>
    BY DEF Return
  <1>2. (\A p : HwWalk(p)' = HwWalk(p)) /\ HasTree'
    BY <1>1, SameWalk DEF IInv
  <1>3. call.len = 0
    <2>1. call.len \in Nat
      BY DEF IInv, Progress, CallRec
    <2> QED BY <1>1, <2>1
  <1>4. Scalars'
    BY <1>1 DEF IInv, Scalars
  <1>5. Progress'
    BY <1>1, <1>3 DEF IInv, Progress, IsMap
  <1>6. AtEntry' /\ Broken'
    BY <1>1 DEF AtEntry, Broken
  <1>7. Exact'
    <2>1. Done' = Done /\ (\A p : Wanted(p)' = Wanted(p))
      BY <1>1 DEF Done, Wanted, IsMap
    <2> QED BY <1>1, <1>2, <2>1 DEF IInv, Exact
  <1>8. Cached'
    BY <1>1, <1>2 DEF IInv, Cached
  <1> QED BY <1>2, <1>4, <1>5, <1>6, <1>7, <1>8 DEF IInv

\* A step that leaves the tables and the call alone.
LEMMA TlbInv ==
  ASSUME Stage2Assumption, IInv, Scalars', Cached',
         UNCHANGED <<table, root, call, of, ret, pc, set, before>>,
         replaced' = replaced \/ pc = "idle"
  PROVE  IInv'
  <1>1. (\A p : HwWalk(p)' = HwWalk(p)) /\ HasTree'
    BY SameWalk DEF IInv
  <1>2. Progress'
    BY DEF IInv, Progress, IsMap
  <1>3. Level(call)' = Level(call) /\ IsMap(call)' = IsMap(call)
        /\ (\A p : Covered(p)' = Covered(p))
    BY DEF Level, IsMap, Covered
  <1>4. AtEntry'
    BY <1>3 DEF IInv, AtEntry
  <1>5. Broken'
    <2>1. pc' = "make" => replaced' = replaced
      OBVIOUS
    <2> QED BY <1>3, <2>1 DEF IInv, Broken
  <1>6. Exact'
    <2>1. Done' = Done /\ (\A p : Wanted(p)' = Wanted(p))
      BY DEF Done, Wanted, IsMap
    <2> QED BY <1>1, <1>3, <2>1 DEF IInv, Exact
  <1> QED BY <1>1, <1>2, <1>4, <1>5, <1>6 DEF IInv

\* mem_unlock leaves nothing cached.
LEMMA UnlockInv ==
  ASSUME Stage2Assumption, IInv, mem_unlock
  PROVE  IInv'
  <1>1. /\ pc = "idle" /\ need_flush' = FALSE /\ watched' = {} /\ replaced' = {}
        /\ UNCHANGED <<table, root, call, of, ret, pc, set, before, calls>>
    BY DEF mem_unlock, NoTrans
  <1>2. Scalars'
    BY <1>1 DEF IInv, Scalars
  <1>3. Cached'
    BY <1>1 DEF Cached
  <1> QED BY <1>1, <1>2, <1>3, TlbInv

\* A walk caches what the table says.
LEMMA WalkInv ==
  ASSUME Stage2Assumption, IInv, Walk
  PROVE  IInv'
  <1>1. UNCHANGED <<table, root, need_flush, call, of, ret, pc, set, before, replaced, calls>>
    BY DEF Walk
  <1>2. \A p : HwWalk(p)' = HwWalk(p)
    BY <1>1, SameWalk
  <1>3. CASE watched' = {}
    <2>1. Scalars'
      BY <1>1, <1>3 DEF IInv, Scalars
    <2>2. Cached'
      BY <1>3 DEF Cached
    <2> QED BY <1>1, <2>1, <2>2, TlbInv
  <1>4. ASSUME NEW p \in Ipa, HwWalk(p) # NoPa,
               watched' = {[page |-> p, frame |-> HwWalk(p), span |-> HwSpan(p)]}
        PROVE  IInv'
    <2>1. PICK w, c : /\ w = HwWalk(p) /\ c = [page |-> p, frame |-> w, span |-> HwSpan(p)]
                      /\ watched' = {c}
      BY <1>4
    <2>2. PICK lev : Tree(table, root, lev)
      BY DEF IInv, HasTree
    <2>3. w \in Nat
      BY <1>4, <2>1, <2>2, WalkType, WalkIs
    <2>4. watched' \subseteq CachedType
      <3>1. HwSpan(p) \subseteq Ipa
        BY <1>4 DEF HwSpan
      <3> QED BY <1>4, <2>1, <2>3, <3>1 DEF CachedType
    <2>5. Scalars'
      BY <1>1, <2>1, <2>4 DEF IInv, Scalars
    <2>6. Cached'
      <3>1. \A d \in watched' : d.page = p /\ d.frame = w
        BY <2>1
      <3>2. HwWalk(p)' = w /\ w # NoPa
        BY <1>2, <1>4, <2>1
      <3> QED BY <3>1, <3>2 DEF Cached
    <2> QED BY <1>1, <2>5, <2>6, TlbInv
  <1> QED BY <1>3, <1>4 DEF Walk, NoTrans

\* Before the first call there are no tables.
LEMMA InitInv ==
  ASSUME Stage2Assumption, Init
  PROVE  IInv
  <1>1. /\ table = [t \in {} |-> <<>>] /\ root = 0 /\ need_flush = FALSE /\ watched = {}
        /\ call = [pa |-> NoPa, ipa |-> 0, len |-> 0] /\ of = call /\ ret = "ok" /\ pc = "idle"
        /\ before = [p \in Ipa |-> NoPa] /\ replaced = {} /\ calls = 0
    BY DEF Init, NoTrans
  <1>2. call.ipa = 0 /\ call.len = 0 /\ call.pa = NoPa
    BY <1>1
  <1>3. Scalars
    <2>1. calls \in 0 .. MaxCalls
      BY <1>1, ConstFacts
    <2>2. need_flush \in BOOLEAN
      BY <1>1
    <2> QED BY <1>1, <2>1, <2>2 DEF Scalars
  <1>4. Progress
    <2>1. PICK e \in Nat : e = PerTable
      BY ConstFacts
    <2>2. e * e * e >= 0
      BY e \in Nat
    <2>3. call \in CallRec
      BY <1>1 DEF CallRec
    <2>4. ~IsMap(call)
      BY <1>2 DEF IsMap
    <2> QED BY <1>1, <1>2, <2>1, <2>2, <2>3, <2>4 DEF Progress
  <1>5. HasTree
    <2>1. PICK lev : lev = [t \in {} |-> 1]
      OBVIOUS
    <2>2. DOMAIN table = {} /\ lev \in [DOMAIN table -> 1 .. 3]
      BY <1>1, <2>1
    <2>3. Levels(table, root, lev) /\ Unshared(table)
      BY <1>1, <2>2 DEF Levels, Unshared
    <2> QED BY <2>3 DEF HasTree, Tree
  <1>6. AtEntry /\ Broken /\ Cached
    BY <1>1 DEF AtEntry, Broken, Cached
  <1>7. Exact
    <2>1. Done = {}
      BY <1>1, <1>2 DEF Done
    <2>2. \A p : HwWalk(p) = NoPa
      BY <1>1 DEF HwWalk
    <2> QED BY <1>1, <2>1, <2>2 DEF Exact
  <1> QED BY <1>3, <1>4, <1>5, <1>6, <1>7 DEF IInv

\* Every step keeps the invariant.
LEMMA NextInv ==
  ASSUME Stage2Assumption, IInv, [Next]_vars
  PROVE  IInv'
  <1>1. CASE \E c \in Calls : Call(c)
    BY <1>1, CallInv
  <1>2. CASE Round
    BY <1>2, RoundInv
  <1>3. CASE SetFresh
    BY <1>3, SetFreshInv
  <1>4. CASE Break
    BY <1>4, BreakInv
  <1>5. CASE Make
    BY <1>5, MakeInv
  <1>6. CASE Return
    BY <1>6, ReturnInv
  <1>7. CASE mem_unlock
    BY <1>7, UnlockInv
  <1>8. CASE Walk
    BY <1>8, WalkInv
  <1>9. CASE UNCHANGED vars
    <2>1. /\ UNCHANGED <<table, root, call, of, ret, pc, set, before>>
          /\ UNCHANGED <<need_flush, watched, replaced, calls>>
      BY <1>9 DEF vars
    <2>2. \A p : HwWalk(p)' = HwWalk(p) /\ Covered(p)' = Covered(p)
      BY <2>1, SameWalk DEF Covered, Level, IsMap
    <2>3. Scalars'
      BY <2>1 DEF IInv, Scalars
    <2>4. Cached'
      BY <2>1, <2>2 DEF IInv, Cached
    <2> QED BY <2>1, <2>3, <2>4, TlbInv
  <1> QED BY <1>1, <1>2, <1>3, <1>4, <1>5, <1>6, <1>7, <1>8, <1>9 DEF Next

-----------------------------------------------------------------------------
(* The properties                                                          *)

\* The invariant gives the type.
LEMMA GivesType ==
  ASSUME Stage2Assumption, IInv
  PROVE  TypeOK
  <1>1. PICK lev : Tree(table, root, lev)
    BY DEF IInv, HasTree
  <1>2. \A t \in DOMAIN table : table[t] \in [0 .. (Width(t) - 1) -> Entry]
    <2>1. \A t \in DOMAIN table : table[t] \in [Places(root, t) -> Entry]
      BY <1>1, TreeFacts
    <2>2. \A t : Places(root, t) = 0 .. (Width(t) - 1)
      BY DEF Places, Width, Idx
    <2> QED BY <2>1, <2>2
  <1>3. DOMAIN table \subseteq Table /\ root \in {0} \cup DOMAIN table
    BY <1>1, TreeFacts
  <1>4. Cardinality(watched) <= 1
    <2>1. Cardinality({}) = 0 /\ \A w : Cardinality({w}) = 1
      BY FS_EmptySet, FS_Singleton
    <2>2. watched = {} \/ \E w : watched = {w}
      BY DEF IInv, Scalars
    <2>3. Cardinality(watched) = 0 \/ Cardinality(watched) = 1
      BY <2>1, <2>2, Zenon
    <2> QED BY <2>3
  <1>5. call.len \in 0 .. of.len
    <2>1. /\ call.len \in Nat /\ call.ipa \in Nat /\ of.len \in Nat /\ of.ipa \in Nat
          /\ of.ipa <= call.ipa /\ call.ipa + call.len = of.ipa + of.len
      BY DEF IInv, Progress, CallRec
    <2> QED BY ONLY <2>1
  <1> QED BY <1>2, <1>3, <1>4, <1>5 DEF IInv, Scalars, TypeOK

\* The invariant gives what a call promises.
LEMMA GivesCall ==
  ASSUME Stage2Assumption, IInv
  PROVE  CallExact
  <1>1. ASSUME pc \in {"idle", "loop"}
        PROVE  \A p \in Ipa : HwWalk(p) = IF p \in Done THEN Wanted(p) ELSE before[p]
    BY <1>1 DEF IInv, Exact
  <1>2. ASSUME pc = "idle", ret = "ok" PROVE call.ipa = of.ipa + of.len
    <2>1. call.len = 0 /\ call.ipa \in Nat /\ call.ipa + call.len = of.ipa + of.len
      BY <1>2 DEF IInv, Progress, CallRec
    <2> QED BY <2>1
  <1> QED BY <1>1, <1>2 DEF CallExact

\* The invariant gives clean translation buffers.
LEMMA GivesTlb ==
  ASSUME IInv
  PROVE  TlbClean
  BY DEF IInv, Cached, TlbClean

\* The invariant gives each table page its place.
LEMMA GivesTree ==
  ASSUME Stage2Assumption, IInv
  PROVE  TableTree
  <1>1. PICK lev : Tree(table, root, lev)
    BY DEF IInv, HasTree
  <1>2. SUFFICES ASSUME NEW t \in DOMAIN table,
                        NEW S, S = {e \in (DOMAIN table) \X (0 .. (PerTable - 1)) :
                                      table[e[1]][e[2]][2] = t}
                 PROVE  Cardinality(S) <= IF t = root THEN 0 ELSE 1
    BY DEF TableTree
  <1>3. Cardinality({}) = 0 /\ \A w : Cardinality({w}) = 1
    BY FS_EmptySet, FS_Singleton
  <1>4. \A e \in S : /\ e[1] \in DOMAIN table /\ e[2] \in Idx /\ table[e[1]][e[2]][2] = t
                     /\ e = <<e[1], e[2]>>
    BY <1>2 DEF Idx
  <1>5. t \in Table
    BY <1>1, TreeFacts
  <1>6. \A e, d \in S : e = d
    <2>1. SUFFICES ASSUME NEW e \in S, NEW d \in S PROVE e = d
      OBVIOUS
    <2>2. e[1] = d[1] /\ e[2] = d[2]
      BY <1>1, <1>4, <1>5 DEF Tree, Unshared
    <2> QED BY <1>4, <2>2
  <1>7. S = {} \/ \E w : S = {w}
    <2>1. S = {} \/ \E e : e \in S
      BY Zenon
    <2>2. ASSUME NEW e \in S PROVE S = {e}
      BY ONLY <1>6, <2>2
    <2> QED BY ONLY <2>1, <2>2, Zenon
  <1>8. t = root => S = {}
    <2>1. SUFFICES ASSUME t = root, NEW e \in S PROVE FALSE
      OBVIOUS
    <2>2. PICK s \in DOMAIN table, y \in Idx : table[s][y][2] = t
      BY <1>4
    <2>3. PICK d : d = table[s][y]
      OBVIOUS
    <2>4. lev[t] = 1 /\ d \in Allowed(table, lev, lev[s]) /\ lev[s] \in 1 .. 3
      BY <1>1, <2>1, <2>3, TreeFacts
    <2>5. lev[s] = 1 \/ lev[s] = 2 \/ lev[s] = 3
      BY <2>4
    <2>6. d \in Allowed(table, lev, 1) \/ d \in Allowed(table, lev, 2) \/ d \in Allowed(table, lev, 3)
      BY <2>4, <2>5
    <2>7. d[2] = 0 \/ d[2] \in Frame \/ lev[d[2]] = 2 \/ lev[d[2]] = 3
      BY <2>6, EntryFacts DEF Aligned
    <2> QED BY <1>5, <2>2, <2>3, <2>4, <2>7, ConstFacts
  <1>9. Cardinality(S) = 0 \/ Cardinality(S) = 1
    BY <1>3, <1>7, Zenon
  <1>10. t = root => Cardinality(S) = 0
    BY <1>3, <1>8, Zenon
  <1> QED BY <1>9, <1>10

\* The invariant gives the agreement of the two walks.
LEMMA GivesWalk ==
  ASSUME Stage2Assumption, IInv
  PROVE  WalkAgrees
  <1>1. PICK lev : Tree(table, root, lev)
    BY DEF IInv, HasTree
  <1>2. SUFFICES ASSUME NEW p \in Ipa, ipa_to_pa(p) \notin Table
                 PROVE  ipa_to_pa(p) = HwWalk(p)
    BY DEF WalkAgrees
  <1>3. CASE root = 0
    BY <1>3 DEF ipa_to_pa, HwWalk
  <1>4. CASE root # 0
    <2>1. PICK w : w = HwWalk(p)
      OBVIOUS
    <2>2. Ends(table, root, lev, p, w)
      BY <1>1, <1>4, <2>1, WalkEnds, WalkIs
    <2>3. PICK e1 : e1 = table[root][pte_index(p, 1)]
      OBVIOUS
    <2>4. PICK e2 : e2 = table[e1[2]][pte_index(p, 2)]
      BY SMTT(40)
    <2>5. \/ e1 = Invalid /\ w = NoPa
          \/ /\ e1[1] = "11"
             /\ \/ e2 = Invalid /\ w = NoPa
                \/ e2[1] = "01" /\ e2[2] \in Aligned /\ w = e2[2] + (p % BlockLen)
                \/ e2[1] = "11" /\ e2[2] \in DOMAIN table
      BY <2>2, <2>3, <2>4, ZenonT(40) DEF Ends
    <2>6. Invalid[1] = "00"
      BY EntryFacts
    <2>7. ipa_to_pa(p) =
            IF e1[1] = "00" THEN NoPa ELSE IF e2[1] = "00" THEN NoPa
            ELSE IF e2[1] = "01" THEN pte_block_address(e2, 2) + (p % BlockLen)
            ELSE pte_block_address(e2, 3)
      BY <1>4, <2>3, <2>4 DEF ipa_to_pa, At, is_pte_valid, is_pte_block
    <2>8. e2[2] \in Aligned => pte_block_address(e2, 2) = e2[2]
      <3> HAVE e2[2] \in Aligned
      <3>1. e2[2] \in Nat /\ e2[2] % BlockLen = 0
        BY ConstFacts DEF Aligned
      <3>2. pte_block_address(e2, 2) = e2[2] - (e2[2] % BlockLen)
        BY DEF pte_block_address
      <3> QED BY <3>1, <3>2
    <2>9. pte_block_address(e2, 3) = e2[2]
      BY DEF pte_block_address
    <2>10. DOMAIN table \subseteq Table
      BY <1>1, TreeFacts
    <2> QED BY <1>2, <2>1, <2>5, <2>6, <2>7, <2>8, <2>9, <2>10
  <1> QED BY <1>3, <1>4

\* The invariant holds in every state of every run of the model.
THEOREM Invariance == Spec => []IInv
  <1>1. Init => IInv
    BY InitInv, Stage2Assumption
  <1>2. IInv /\ [Next]_vars => IInv'
    BY NextInv, Stage2Assumption
  <1> QED BY <1>1, <1>2, PTL DEF Spec

\* Tables, translations and calls keep their types: arch_mem_map and
\* arch_mem_unmap only ever link table pages of the allocator and write
\* entries of the three forms, whatever calls are made.
THEOREM TypeCorrect == Spec => []TypeOK
  <1>1. IInv => TypeOK
    BY GivesType, Stage2Assumption
  <1> QED BY <1>1, Invariance, PTL

\* arch_mem_map and arch_mem_unmap map, or unmap, the pages they have dealt
\* with and no other of those under the first page of the root, for tables of
\* any length, any frames and lengths, over any tables earlier calls left, with
\* failures for want of a table page, and whatever the other pages of the root
\* hold.
THEOREM CallCorrect == Spec => []CallExact
  <1>1. IInv => CallExact
    BY GivesCall, Stage2Assumption
  <1> QED BY <1>1, Invariance, PTL

\* Break before make and the deferred flush of mem_pte_set leave no cpu a
\* translation of a page that is not mapped once no flush is outstanding, nor a
\* wrong one of a page whose valid entry no other valid one replaced, whatever
\* page tlb_flush_ipa turns out to name.
THEOREM TlbCorrect == Spec => []TlbClean
  <1>1. IInv => TlbClean
    BY GivesTlb
  <1> QED BY <1>1, Invariance, PTL

\* pte_get links every table page it allocates in one place of the tree under
\* the first page of the root, and the root in none, whatever its other pages
\* hold.
THEOREM TreeCorrect == Spec => []TableTree
  <1>1. IInv => TableTree
    BY GivesTree, Stage2Assumption
  <1> QED BY <1>1, Invariance, PTL

\* ipa_to_pa agrees with the hardware wherever its loop does not end at the
\* entry of a level-3 table.
THEOREM WalkCorrect == Spec => []WalkAgrees
  <1>1. IInv => WalkAgrees
    BY GivesWalk, Stage2Assumption
  <1> QED BY <1>1, Invariance, PTL

=============================================================================
