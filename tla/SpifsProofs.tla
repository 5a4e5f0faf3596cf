---------------------------- MODULE SpifsProofs -----------------------------
(***************************************************************************)
(* What the SPI-flash file system promises over losses of power and failed *)
(* requests, for any number of pages, of ToC pages, of files and of calls. *)
(***************************************************************************)
EXTENDS Spifs, FiniteSetTheorems, SequenceTheorems, WellFoundedInduction, TLAPS

-----------------------------------------------------------------------------
(* The least element of a set                                              *)

\* A non-empty set of numbers has a least element.
LEMMA LeastLemma ==
  ASSUME NEW K \in SUBSET Nat, K # {}
  PROVE  \E x \in K : \A y \in K : x =< y
  <1>1. PICK x \in K : \A y \in K : ~(<<y, x>> \in OpToRel(<, Nat))
    BY NatLessThanWellFounded, WFMin, Zenon
  <1>2. \A y \in K : x =< y
    <2>1. SUFFICES ASSUME NEW y \in K, y < x PROVE FALSE
      OBVIOUS
    <2>2. <<y, x>> \in OpToRel(<, Nat)
      BY <2>1 DEF OpToRel
    <2> QED BY <1>1, <2>2
  <1> QED BY <1>2

\* Min picks an element of a non-empty set of numbers: the run of pages that
\* find_open_run finds.
LEMMA MinLemma ==
  ASSUME NEW K \in SUBSET Nat, K # {}
  PROVE  Min(K) \in K
  BY LeastLemma DEF Min

-----------------------------------------------------------------------------
(* The inductive invariant                                                 *)

\* The cells of a page, and the calls that may be under way
CellPage == [0 .. (PageLen - 1) -> {Lost} \cup (0 .. MaxCalls)]
Kinds    == {"none", "format", "create", "remove", "truncate", "write"}

\* The call under way, the history and what the device and memory have
OpType ==
  [kind: Kinds, pages: SUBSET Page, file: SUBSET File,
   todo: Seq([page: Page, data: CellPage]), dirty: BOOLEAN,
   k: 0 .. (TocPages + 1), rounds: 0 .. 2, torn: BOOLEAN]

HistType ==
  [committed: SUBSET File, attempts: SUBSET (SUBSET File),
   want: [Page -> CellPage], doubt: SUBSET Page, safe: BOOLEAN, failed: BOOLEAN]

TocPageType ==
  [gen: Int, part: SUBSET File, sum: {<<>>} \cup (Nat \X SUBSET File)]

MemType == [on: BOOLEAN, own: BOOLEAN, gen: Nat, pos: Slot, files: SUBSET File]
DirType == [next: Names \cup {End}, due: SUBSET Names, open: BOOLEAN]

\* The types of the variables
Types ==
  /\ cell \in [Page -> CellPage]
  /\ mem \in MemType
  /\ toc \in [Slot -> [1 .. TocPages -> TocPageType]]
  /\ op \in OpType
  /\ dirs \in [Dirs -> DirType]
  /\ hist \in HistType
  /\ count \in [calls: 0 .. MaxCalls, faults: Nat, crashes: Nat]

\* A list of files that a ToC has room for, no two of them in one place
ListOK(fs) ==
  /\ fs \subseteq File
  /\ IsFiniteSet(fs) /\ Cardinality(fs) <= MaxFiles
  /\ \A f, g \in fs : f.name = g.name => f = g
  /\ consistency_check(fs)
  /\ \A f \in fs : f.at + f.cap <= PageNum

\* The ToC at the front has the odd generations, the one at the back the even
OwnGen(s, g) == (g % 2 = 0) <=> (s = "back")

\* What is in the last page of a ToC was put there by a commit
Footer(s) == toc[s][TocPages]

\* Its checksum is over a list that fits, of a generation of this ToC
FooterOK(s) ==
  Footer(s) # LostPage =>
    /\ Footer(s).sum \in Nat \X SUBSET File
    /\ OwnGen(s, Footer(s).sum[1])
    /\ ListOK(Footer(s).sum[2])

\* The lists in memory and on the device fit
Lists ==
  /\ ListOK(mem.files)
  /\ op.kind \in {"create", "remove"} => ListOK(mem.files \cup op.file)
  /\ \A s \in Slot : FooterOK(s)

\* How far a call may be, of which kind
Calls ==
  /\ Idle => op = NoOp
  /\ mem.on => op.kind # "format"
  /\ ~mem.on => /\ op.kind \in {"none", "format"} /\ ~mem.own
                /\ mem.files = {}
                /\ \A d \in Dirs : ~dirs[d].open
  /\ op.kind = "format" => op.k > 0 /\ op.rounds > 0
  /\ op.kind \in {"create", "remove", "truncate", "write"} => op.rounds = 1
  /\ op.kind \in {"remove", "truncate"} => op.k > 0
  /\ op.kind = "create" => op.dirty
  /\ op.kind \notin {"create", "remove"} => op.file = {}
  /\ op.kind # "write" => op.pages = {}
  /\ op.k > 0 => op.todo = <<>>
  /\ op.torn => AtData \/ AtToc

\* The pages of the ToC that the commit under way has written
Written ==
  \A j \in 1 .. (op.k - 1) : toc[Target][j] = TocPage(mem.gen + 1, mem.files, j)

\* The ToC that memory was read from, or that was committed last, is good
Kept(fs) ==
  /\ Good(mem.pos)
  /\ GenOf(mem.pos) = mem.gen
  /\ FilesOf(mem.pos) = fs

\* The other one has an older list, or one of the attempts since
Behind ==
  \/ Footer(Target) = LostPage
  \/ Footer(Target).sum[1] < mem.gen
  \/ Footer(Target).sum[2] \in hist.attempts

\* The ToC that a commit does not write is the one to fall back on
Device ==
  /\ mem.on \/ ~Idle => OwnGen(mem.pos, mem.gen)
  /\ mem.on => /\ hist.safe
               /\ Kept(hist.committed)
               /\ Behind
               /\ op.torn /\ AtToc => mem.files \in hist.attempts
  /\ op.kind = "format" => ~hist.safe /\ (op.rounds = 1 => Kept({}))

\* The list in memory is the newest on the device until a call changes it
NewestInMemory ==
  mem.on /\ ~hist.failed /\ op.k = 0 =>
    /\ ~op.dirty => mem.files = hist.committed
    /\ ~(Good(Target) /\ GenOf(Target) > mem.gen)

\* The directory handles are at files of the list, and not at one that a
\* failed spifs_create takes back
Handles ==
  /\ DirScan
  /\ \A d \in Dirs : dirs[d].open =>
       /\ dirs[d].due \subseteq NamesOf(mem.files)
       /\ op.kind = "create" => (dirs[d].due \cup {dirs[d].next}) \cap NamesOf(op.file) = {}

\* The pages by which the list in memory differs from the one committed
Moving ==
  IF op.kind = "remove" \/ (op.kind = "create" /\ op.k > 0)
  THEN DataPages(op.file) ELSE {}

\* What mounts may find is, but for pages in doubt, in the same places
SamePlaces(fs, gs, but) ==
  DataPages(fs) \subseteq DataPages(gs) \cup but /\ DataPages(gs) \subseteq DataPages(fs) \cup but

\* Outside the pages in doubt the lists agree on where files are, and a file
\* that is being created is in nobody's pages
Places ==
  /\ ~hist.safe => hist.doubt = Page
  /\ mem.on =>
       /\ SamePlaces(mem.files, hist.committed, hist.doubt \cup Moving)
       /\ op.k <= TocPages => \A fs \in Remnants(mem.gen) :
            DataPages(fs) \subseteq DataPages(hist.committed) \cup hist.doubt
       /\ op.kind = "create" /\ op.k = 0 =>
            DataPages(op.file) \cap DataPages(mem.files) = {}
  /\ ~mem.on /\ hist.safe => \A fs \in Remnants(GenOf(Newest(GoodSlots))) :
       DataPages(fs) \subseteq DataPages(Recovered) \cup hist.doubt

\* The pages that the call under way still has to write, with what is wanted
Due == op.pages \cup IF op.kind = "create" THEN DataPages(op.file) ELSE {}

\* A page of which it is known what it has to hold
Sure(p) == op.kind = "create" \/ p \notin hist.doubt

\* Each page that a call is to write is queued with what is wanted, or holds it
DueExact ==
  /\ \A j \in 1 .. Len(op.todo) :
       /\ op.todo[j].page \in Due
       /\ Sure(op.todo[j].page) => op.todo[j].data = hist.want[op.todo[j].page]
  /\ \A p \in Due : Sure(p) =>
       cell[p] = hist.want[p] \/ \E j \in 1 .. Len(op.todo) : op.todo[j].page = p
  /\ op.kind = "write" => op.pages \subseteq DataPages(mem.files)

\* The pages of files that no call is writing hold what is wanted
DataExact ==
  mem.on => \A p \in (DataPages(mem.files) \cup DataPages(hist.committed))
                       \ (hist.doubt \cup op.pages) : cell[p] = hist.want[p]

\* The inductive invariant
IInv ==
  /\ Types /\ Lists /\ Calls /\ Written /\ Device /\ NewestInMemory /\ Handles
  /\ Places /\ DueExact /\ DataExact /\ CrashAtomic /\ DataIntact

-----------------------------------------------------------------------------
(* Arithmetic                                                              *)

\* Division with a remainder.
LEMMA DivFacts ==
  ASSUME NEW n \in Nat, NEW e \in Nat \ {0}
  PROVE  /\ n \div e \in Nat /\ n % e \in 0 .. (e - 1)
         /\ n = (n \div e) * e + (n % e)
         /\ (n \div e) * e <= n /\ n < (n \div e) * e + e
  OBVIOUS

\* A product is less only with the smaller factor.
LEMMA MulLess ==
  ASSUME NEW q \in Nat, NEW b \in Nat, NEW e \in Nat, q * e < b * e
  PROVE  q < b
  <1>1. SUFFICES ASSUME q >= b PROVE FALSE
    OBVIOUS
  <1>2. PICK d \in Nat : q = b + d
    BY <1>1
  <1>3. (b + d) * e = b * e + d * e /\ d * e >= 0
    BY ONLY b \in Nat, d \in Nat, e \in Nat
  <1> QED BY <1>2, <1>3

\* The constants are as the code has them.
LEMMA ConstFacts ==
  ASSUME SpifsAssumption
  PROVE  /\ PageNum \in Nat \ {0} /\ PageLen \in Nat \ {0} /\ TocPages \in Nat \ {0}
         /\ EntriesPerPage \in Nat \ {0} /\ MaxFiles \in Nat \ {0}
         /\ MaxFiles = TocPages * EntriesPerPage - 4
         /\ Page \subseteq Nat /\ MaxCalls \in Nat /\ End \notin Names
  <1>1. /\ PageNum \in Nat \ {0} /\ PageLen \in Nat \ {0} /\ TocPages \in Nat \ {0}
        /\ EntriesPerPage \in Nat /\ MaxFiles \in Nat \ {0} /\ MaxCalls \in Nat
        /\ End \notin Names
    BY DEF SpifsAssumption
  <1>2. MaxFiles = TocPages * EntriesPerPage - 4
    BY DEF MaxFiles
  <1>3. EntriesPerPage # 0
    <2>1. SUFFICES ASSUME EntriesPerPage = 0 PROVE FALSE
      OBVIOUS
    <2>2. TocPages * 0 = 0
      BY <1>1
    <2> QED BY <1>1, <1>2, <2>1, <2>2
  <1>4. Page \subseteq Nat
    BY <1>1 DEF Page
  <1> QED BY <1>1, <1>2, <1>3, <1>4

-----------------------------------------------------------------------------
(* Lists of files                                                          *)

\* The place of a file is one of the list's.
LEMMA PlaceIn ==
  ASSUME SpifsAssumption, NEW fs, ListOK(fs), NEW f \in fs
  PROVE  Place(fs, f) \in 1 .. MaxFiles
  <1> DEFINE below == {g \in fs : g.at <= f.at}
  <1>1. IsFiniteSet(fs) /\ Cardinality(fs) \in Nat /\ Cardinality(fs) <= MaxFiles
    BY FS_CardinalityType DEF ListOK
  <1>2. below \subseteq fs /\ f \in below
    BY ConstFacts DEF ListOK, File
  <1>3. /\ IsFiniteSet(below) /\ Cardinality(below) \in Nat
        /\ Cardinality(below) <= Cardinality(fs)
    BY <1>1, <1>2, FS_Subset, FS_CardinalityType
  <1>4. Cardinality(below) # 0
    BY <1>2, <1>3, FS_EmptySet
  <1>5. Place(fs, f) = Cardinality(below)
    BY DEF Place
  <1> HIDE DEF below
  <1> QED BY <1>1, <1>3, <1>4, <1>5, ConstFacts

\* The pages of a ToC together have every file of the list.
LEMMA PartsCover ==
  ASSUME SpifsAssumption, NEW fs, ListOK(fs)
  PROVE  UNION {TocPart(fs, k) : k \in 1 .. TocPages} = fs
  <1>1. \A k : TocPart(fs, k) \subseteq fs
    BY DEF TocPart
  <1>2. ASSUME NEW f \in fs PROVE \E k \in 1 .. TocPages : f \in TocPart(fs, k)
    <2>1. PICK r \in Nat : r = Place(fs, f) /\ r >= 1 /\ r <= MaxFiles
      BY PlaceIn, ConstFacts
    <2>2. PICK e \in Nat \ {0} : e = EntriesPerPage
      BY ConstFacts
    <2>3. PICK q \in Nat : q * e <= r + 1 /\ r + 1 < q * e + e
      <3>1. r + 1 \in Nat
        OBVIOUS
      <3>2. /\ (r + 1) \div e \in Nat /\ ((r + 1) \div e) * e <= r + 1
            /\ r + 1 < ((r + 1) \div e) * e + e
        BY ONLY <3>1, e \in Nat \ {0}, DivFacts
      <3> QED BY ONLY <3>2
    <2>4. PICK tp \in Nat \ {0} : tp = TocPages
      BY ConstFacts
    <2>5. MaxFiles = tp * e - 4
      BY <2>2, <2>4, ConstFacts
    <2>6. tp * e \in Nat /\ q * e \in Nat /\ (q + 1) * e = q * e + e
      OBVIOUS
    <2>7. q * e < tp * e
      BY ONLY <2>1, <2>3, <2>5, <2>6
    <2>8. q < tp
      BY ONLY <2>7, MulLess, q \in Nat, tp \in Nat \ {0}, e \in Nat \ {0}
    <2>9. q + 1 \in 1 .. TocPages
      BY <2>4, <2>8
    <2>10. (q + 1) - 1 = q
      OBVIOUS
    <2>11. r \in (((q + 1) - 1) * e - 1) .. ((q + 1) * e - 2)
      BY ONLY <2>1, <2>3, <2>6, <2>10
    <2>12. f \in TocPart(fs, q + 1)
      BY <2>1, <2>2, <2>11 DEF TocPart
    <2> QED BY <2>9, <2>12
  <1> QED BY <1>1, <1>2

\* A part of a list is a list.
LEMMA ListSubset ==
  ASSUME SpifsAssumption, NEW fs, ListOK(fs), NEW gs, gs \subseteq fs
  PROVE  ListOK(gs)
  <1>1. IsFiniteSet(gs) /\ Cardinality(gs) <= Cardinality(fs)
    BY FS_Subset DEF ListOK
  <1>2. Cardinality(gs) \in Nat /\ Cardinality(fs) \in Nat
    BY <1>1, FS_CardinalityType DEF ListOK
  <1>3. Cardinality(gs) <= MaxFiles
    BY <1>1, <1>2, ConstFacts DEF ListOK
  <1>4. consistency_check(gs)
    BY DEF ListOK, consistency_check
  <1> QED BY <1>1, <1>3, <1>4 DEF ListOK

\* A list with one more file in free pages.
LEMMA ListAdd ==
  ASSUME SpifsAssumption, NEW fs, ListOK(fs), Cardinality(fs) < MaxFiles,
         NEW f \in File, f.name \notin NamesOf(fs), f.at + f.cap <= PageNum,
         \A g \in fs : PagesOf(g) \cap PagesOf(f) = {}
  PROVE  ListOK(fs \cup {f})
  <1>1. IsFiniteSet(fs \cup {f}) /\ Cardinality(fs \cup {f}) <= Cardinality(fs) + 1
    <2>1. IsFiniteSet(fs) /\ Cardinality(fs) \in Nat
      BY FS_CardinalityType DEF ListOK
    <2>2. /\ IsFiniteSet(fs \cup {f})
          /\ Cardinality(fs \cup {f}) = IF f \in fs THEN Cardinality(fs) ELSE Cardinality(fs) + 1
      BY ONLY <2>1, FS_AddElement
    <2> QED BY <2>1, <2>2
  <1>2. Cardinality(fs \cup {f}) \in Nat /\ Cardinality(fs) \in Nat
    BY <1>1, FS_CardinalityType DEF ListOK
  <1>3. Cardinality(fs \cup {f}) <= MaxFiles
    BY <1>1, <1>2, ConstFacts
  <1>4. consistency_check(fs \cup {f})
    BY DEF ListOK, consistency_check
  <1>5. \A g, h \in fs \cup {f} : g.name = h.name => g = h
    BY DEF ListOK, NamesOf
  <1> QED BY <1>1, <1>3, <1>4, <1>5 DEF ListOK

\* A list in which a file has another length has the same names and pages.
LEMMA ListResized ==
  ASSUME SpifsAssumption, NEW fs, ListOK(fs), NEW f \in fs,
         NEW len \in 0 .. (PageNum * PageLen)
  PROVE  /\ ListOK(Resized(fs, f, len))
         /\ NamesOf(Resized(fs, f, len)) = NamesOf(fs)
         /\ DataPages(Resized(fs, f, len)) = DataPages(fs)
         /\ \A g \in fs : \E h \in Resized(fs, f, len) : h.name = g.name /\ h.at = g.at
  <1>1. PICK r : r = [f EXCEPT !.len = len]
    OBVIOUS
  <1>2. f \in File
    BY DEF ListOK
  <1>3. /\ r \in File /\ r.name = f.name /\ r.at = f.at /\ r.cap = f.cap
    BY ONLY <1>1, <1>2, len \in 0 .. (PageNum * PageLen) DEF File
  <1>4. PagesOf(r) = PagesOf(f)
    BY <1>3 DEF PagesOf
  <1>5. PICK gs : gs = fs \ {f}
    OBVIOUS
  <1>6. ListOK(gs) /\ Cardinality(gs) = Cardinality(fs) - 1
    BY <1>5, ListSubset, FS_RemoveElement DEF ListOK
  <1>7. Resized(fs, f, len) = gs \cup {r}
    BY <1>1, <1>5 DEF Resized
  <1>8. Cardinality(fs) \in Nat /\ Cardinality(gs) \in Nat
    BY <1>6, FS_CardinalityType DEF ListOK
  <1>9. Cardinality(gs) < MaxFiles
    BY <1>6, <1>8, ConstFacts DEF ListOK
  <1>10. r.name \notin NamesOf(gs)
    BY <1>3, <1>5 DEF ListOK, NamesOf
  <1>11. \A g \in gs : PagesOf(g) \cap PagesOf(r) = {}
    BY <1>4, <1>5 DEF ListOK, consistency_check
  <1>12. r.at + r.cap <= PageNum
    BY <1>3 DEF ListOK
  <1>13. ListOK(gs \cup {r})
    BY <1>3, <1>6, <1>9, <1>10, <1>11, <1>12, ListAdd
  <1>14. NamesOf(gs \cup {r}) = NamesOf(fs)
    BY <1>3, <1>5 DEF NamesOf
  <1>15. DataPages(gs \cup {r}) = DataPages(fs)
    BY <1>4, <1>5 DEF DataPages
  <1>16. \A g \in fs : \E h \in gs \cup {r} : h.name = g.name /\ h.at = g.at
    BY <1>3, <1>5
  <1> QED BY <1>7, <1>13, <1>14, <1>15, <1>16

\* find_file finds the one file with the name.
LEMMA FindFile ==
  ASSUME ListOK(mem.files)
  PROVE  /\ \A n \in NamesOf(mem.files) : find_file(n) \in mem.files /\ find_file(n).name = n
         /\ \A f \in mem.files : find_file(f.name) = f /\ f.name \in NamesOf(mem.files)
  <1>1. ASSUME NEW n \in NamesOf(mem.files)
        PROVE  find_file(n) \in mem.files /\ find_file(n).name = n
    BY <1>1 DEF find_file, NamesOf
  <1>2. ASSUME NEW f \in mem.files
        PROVE  find_file(f.name) = f /\ f.name \in NamesOf(mem.files)
    BY <1>1 DEF NamesOf, ListOK
  <1> QED BY <1>1, <1>2

\* Two files of a list begin at different pages, and their pages are the device's.
LEMMA FilePages ==
  ASSUME SpifsAssumption, NEW fs, ListOK(fs)
  PROVE  /\ \A f \in fs : /\ f.at \in Nat /\ f.cap \in Nat \ {0} /\ f.at + f.cap <= PageNum
                          /\ f.len \in Nat /\ f.at \in PagesOf(f) /\ PagesOf(f) \subseteq Page
         /\ \A f, g \in fs : f.at = g.at => f = g
         /\ DataPages(fs) \subseteq Page
  <1>1. ASSUME NEW f \in fs
        PROVE  /\ f.at \in Nat /\ f.cap \in Nat \ {0} /\ f.at + f.cap <= PageNum
               /\ f.len \in Nat /\ f.at \in PagesOf(f) /\ PagesOf(f) \subseteq Page
    <2>1. f \in File /\ f.at + f.cap <= PageNum
      BY DEF ListOK
    <2>2. f.at \in Nat /\ f.cap \in Nat \ {0} /\ f.len \in Nat
      BY <2>1, ConstFacts DEF File
    <2> QED BY <2>1, <2>2, ConstFacts DEF PagesOf, Page
  <1>2. \A f, g \in fs : f.at = g.at => f = g
    BY <1>1 DEF ListOK, consistency_check
  <1> QED BY <1>1, <1>2 DEF DataPages

-----------------------------------------------------------------------------
(* Types                                                                   *)

\* The types and the lists are what TypeOK says.
LEMMA TypesGive ==
  ASSUME Types, Lists
  PROVE  TypeOK
  <1>1. op.k \in 0 .. (TocPages + 1) /\ op.rounds \in 0 .. 2
    BY DEF Types, OpType
  <1> QED BY <1>1 DEF Types, Lists, ListOK, TypeOK, CellPage, MemType, DirType

\* The page a call is about to write, and what it writes after that one.
LEMMA HeadFacts ==
  ASSUME Types, op.todo # <<>>
  PROVE  /\ Head(op.todo) = op.todo[1] /\ Len(op.todo) \in Nat \ {0}
         /\ op.todo[1].page \in Page /\ op.todo[1].data \in CellPage
         /\ Tail(op.todo) \in Seq([page: Page, data: CellPage])
         /\ Len(Tail(op.todo)) = Len(op.todo) - 1
         /\ \A j \in 1 .. (Len(op.todo) - 1) : Tail(op.todo)[j] = op.todo[j + 1]
  <1>1. op.todo \in Seq([page: Page, data: CellPage])
    BY DEF Types, OpType
  <1>2. PICK s : s = op.todo
    OBVIOUS
  <1>3. PICK T : T = [page: Page, data: CellPage]
    OBVIOUS
  <1>4. s \in Seq(T) /\ s # <<>>
    BY <1>1, <1>2, <1>3
  <1>5. /\ Len(s) \in Nat \ {0} /\ Head(s) = s[1] /\ s[1] \in T
        /\ Tail(s) \in Seq(T) /\ Len(Tail(s)) = Len(s) - 1
        /\ \A j \in 1 .. (Len(s) - 1) : Tail(s)[j] = s[j + 1]
    BY ONLY <1>4, HeadTailProperties, EmptySeq, LenProperties, ElementOfSeq
  <1>6. op.todo[1].page \in Page /\ op.todo[1].data \in CellPage
    BY <1>2, <1>3, <1>5
  <1> QED BY <1>2, <1>3, <1>5, <1>6

\* A ToC page that a commit writes.
LEMMA TocPageFacts ==
  ASSUME NEW g \in Nat, NEW fs \in SUBSET File, NEW k
  PROVE  /\ TocPage(g, fs, k) \in TocPageType /\ TocPage(g, fs, k) # LostPage
         /\ TocPage(g, fs, k).part = TocPart(fs, k)
         /\ k = 1 => TocPage(g, fs, k).gen = g
         /\ k = TocPages => TocPage(g, fs, k).sum = <<g, fs>>
  <1>1. TocPart(fs, k) \subseteq File
    BY DEF TocPart
  <1>2. TocPage(g, fs, k).gen # Lost
    BY DEF TocPage, Lost
  <1>3. TocPage(g, fs, k) # LostPage
    BY <1>2 DEF LostPage
  <1>4. TocPage(g, fs, k) \in TocPageType
    BY <1>1 DEF TocPage, TocPageType
  <1> QED BY <1>3, <1>4 DEF TocPage

\* The two ToCs.
LEMMA SlotFacts ==
  ASSUME NEW s \in Slot
  PROVE  /\ Other(s) \in Slot /\ Other(s) # s /\ Other(Other(s)) = s
         /\ \A t \in Slot : t = s \/ t = Other(s)
  BY DEF Slot, Other

\* What is there when nothing is under way, and nothing is mounted.
LEMMA RestFacts ==
  ASSUME SpifsAssumption
  PROVE  /\ NoOp \in OpType /\ Unmounted \in MemType /\ NoDir \in DirType
         /\ LostPage \in TocPageType
         /\ [j \in 0 .. (PageLen - 1) |-> Lost] \in CellPage
         /\ [j \in 0 .. (PageLen - 1) |-> Blank] \in CellPage
  <1>1. <<>> \in Seq([page: Page, data: CellPage])
    BY EmptySeq
  <1>2. NoOp \in OpType
    BY <1>1, ConstFacts DEF NoOp, OpType, Kinds
  <1>3. Unmounted \in MemType
    BY DEF Unmounted, MemType, Slot
  <1>4. NoDir \in DirType /\ LostPage \in TocPageType
    BY DEF NoDir, DirType, LostPage, TocPageType, Lost
  <1>5. /\ [j \in 0 .. (PageLen - 1) |-> Lost] \in CellPage
        /\ [j \in 0 .. (PageLen - 1) |-> Blank] \in CellPage
    BY ConstFacts DEF CellPage, Blank
  <1> QED BY <1>2, <1>3, <1>4, <1>5

-----------------------------------------------------------------------------
(* What the steps of a page write do                                       *)

\* A store to one page of the ToC that is being written.
LEMMA TocStore ==
  ASSUME Types, AtToc, NEW v \in TocPageType, toc' = [toc EXCEPT ![Target][op.k] = v]
  PROVE  /\ toc' \in [Slot -> [1 .. TocPages -> TocPageType]]
         /\ toc'[Target][op.k] = v /\ toc'[mem.pos] = toc[mem.pos]
         /\ \A j \in 1 .. TocPages : j # op.k => toc'[Target][j] = toc[Target][j]
  <1>1. mem.pos \in Slot /\ op.k \in 1 .. TocPages
    BY DEF Types, MemType, AtToc
  <1>2. Target \in Slot /\ Target # mem.pos
    BY <1>1, SlotFacts DEF Target
  <1> QED BY <1>1, <1>2 DEF Types

\* A store to one data page.
LEMMA CellStore ==
  ASSUME Types, AtData, NEW v \in CellPage, cell' = [cell EXCEPT ![Head(op.todo).page] = v]
  PROVE  /\ cell' \in [Page -> CellPage] /\ cell'[op.todo[1].page] = v
         /\ \A p \in Page : p # op.todo[1].page => cell'[p] = cell[p]
  BY HeadFacts DEF AtData, Types

\* The first half of a page write.
LEMMA EraseFacts ==
  ASSUME SpifsAssumption, Types, ErasePage
  PROVE  /\ op' \in OpType /\ op' = [op EXCEPT !.torn = TRUE] /\ ~op.torn
         /\ UNCHANGED <<mem, dirs, count>>
         /\ \/ /\ AtData /\ toc' = toc /\ hist' = hist
               /\ cell' \in [Page -> CellPage]
               /\ \A p \in Page : p # op.todo[1].page => cell'[p] = cell[p]
            \/ /\ AtToc /\ cell' = cell
               /\ hist' = [hist EXCEPT !.attempts = @ \cup {mem.files}] /\ hist' \in HistType
               /\ toc' \in [Slot -> [1 .. TocPages -> TocPageType]]
               /\ toc'[Target][op.k] = LostPage /\ toc'[mem.pos] = toc[mem.pos]
               /\ \A j \in 1 .. TocPages : j # op.k => toc'[Target][j] = toc[Target][j]
  <1>1. op' = [op EXCEPT !.torn = TRUE] /\ ~op.torn /\ UNCHANGED <<mem, dirs, count>>
    BY DEF ErasePage
  <1>2. op' \in OpType
    BY <1>1 DEF Types, OpType
  <1>3. CASE /\ AtData /\ UNCHANGED <<toc, hist>>
             /\ cell' = [cell EXCEPT ![Head(op.todo).page] = [i \in DOMAIN @ |-> Lost]]
    <2>1. op.todo[1].page \in Page /\ Head(op.todo).page = op.todo[1].page
      BY <1>3, HeadFacts DEF AtData
    <2>2. DOMAIN cell[op.todo[1].page] = 0 .. (PageLen - 1)
      BY <2>1 DEF Types, CellPage
    <2>3. [i \in DOMAIN cell[op.todo[1].page] |-> Lost] \in CellPage
      BY <2>2, RestFacts
    <2>4. /\ cell' \in [Page -> CellPage]
          /\ \A p \in Page : p # op.todo[1].page => cell'[p] = cell[p]
      BY <1>3, <2>1, <2>3 DEF Types
    <2> QED BY <1>1, <1>2, <1>3, <2>4
  <1>4. CASE /\ AtToc /\ toc' = [toc EXCEPT ![Target][op.k] = LostPage]
             /\ hist' = [hist EXCEPT !.attempts = @ \cup {mem.files}]
             /\ UNCHANGED cell
    <2>1. mem.files \in SUBSET File /\ hist \in HistType
      BY DEF Types, MemType
    <2>2. hist' \in HistType
      BY <1>4, <2>1 DEF HistType
    <2> QED BY <1>1, <1>2, <1>4, <2>2, TocStore, RestFacts
  <1> QED BY <1>3, <1>4 DEF ErasePage

\* The second half, when the device does what it is asked to.
LEMMA ProgrammedFacts ==
  ASSUME SpifsAssumption, Types, Programmed
  PROVE  \/ /\ AtData /\ toc' = toc
            /\ cell' \in [Page -> CellPage] /\ cell'[op.todo[1].page] = op.todo[1].data
            /\ \A p \in Page : p # op.todo[1].page => cell'[p] = cell[p]
         \/ /\ AtToc /\ cell' = cell
            /\ toc' \in [Slot -> [1 .. TocPages -> TocPageType]]
            /\ toc'[Target][op.k] = TocPage(mem.gen + 1, mem.files, op.k)
            /\ toc'[mem.pos] = toc[mem.pos]
            /\ \A j \in 1 .. TocPages : j # op.k => toc'[Target][j] = toc[Target][j]
  <1>1. CASE AtData /\ cell' = [cell EXCEPT ![Head(op.todo).page] = Head(op.todo).data] /\ toc' = toc
    <2>1. Head(op.todo).data \in CellPage /\ Head(op.todo) = op.todo[1]
      BY <1>1, HeadFacts DEF AtData
    <2> QED BY <1>1, <2>1, CellStore
  <1>2. CASE /\ AtToc /\ cell' = cell
             /\ toc' = [toc EXCEPT ![Target][op.k] = TocPage(mem.gen + 1, mem.files, op.k)]
    <2>1. mem.gen + 1 \in Nat /\ mem.files \in SUBSET File
      BY DEF Types, MemType
    <2>2. TocPage(mem.gen + 1, mem.files, op.k) \in TocPageType
      BY <2>1, TocPageFacts
    <2> QED BY <1>2, <2>2, TocStore
  <1> QED BY <1>1, <1>2 DEF Programmed

\* The call goes on to its next page.
LEMMA ProgramFacts ==
  ASSUME SpifsAssumption, Types, ProgramPage
  PROVE  /\ op.torn /\ UNCHANGED <<mem, dirs, hist, count>>
         /\ op' \in OpType
         /\ AtData => op' = [op EXCEPT !.todo = Tail(@), !.torn = FALSE]
         /\ ~AtData => op' = [op EXCEPT !.k = @ + 1, !.torn = FALSE] /\ AtToc
  <1>1. /\ op.torn /\ UNCHANGED <<mem, dirs, hist, count>>
        /\ AtData => op' = [op EXCEPT !.todo = Tail(@), !.torn = FALSE]
        /\ ~AtData => op' = [op EXCEPT !.k = @ + 1, !.torn = FALSE]
    BY DEF ProgramPage
  <1>2. AtData \/ AtToc
    BY DEF ProgramPage, Programmed
  <1>3. CASE AtData
    <2>1. Tail(op.todo) \in Seq([page: Page, data: CellPage]) /\ op \in OpType
      BY <1>3, HeadFacts DEF AtData, Types
    <2>2. op' \in OpType
      BY <1>1, <1>3, <2>1 DEF OpType
    <2> QED BY <1>1, <1>3, <2>2
  <1>4. CASE ~AtData
    <2>1. op.k + 1 \in 0 .. (TocPages + 1) /\ op \in OpType
      BY <1>2, <1>4, ConstFacts DEF AtToc, Types
    <2>2. op' \in OpType
      BY <1>1, <1>4, <2>1 DEF OpType
    <2> QED BY <1>1, <1>2, <1>4, <2>2
  <1> QED BY <1>3, <1>4

-----------------------------------------------------------------------------
(* The ToCs on the device                                                  *)

\* A ToC with a right checksum is what its footer says.
LEMMA GoodFacts ==
  ASSUME SpifsAssumption, NEW s \in Slot, FooterOK(s), Good(s)
  PROVE  /\ Footer(s) # LostPage
         /\ GenOf(s) \in Nat /\ GenOf(s) = Footer(s).sum[1] /\ OwnGen(s, GenOf(s))
         /\ FilesOf(s) = Footer(s).sum[2] /\ ListOK(FilesOf(s))
  <1>1. Footer(s) # LostPage
    BY ConstFacts DEF Good, Footer
  <1>2. PICK u : Footer(s).sum = <<GenOf(s), u>>
    BY DEF Good, Footer, GenOf
  <1>3. GenOf(s) = Footer(s).sum[1]
    BY <1>2
  <1> QED BY <1>1, <1>3 DEF FooterOK, FilesOf, Footer

\* A ToC all of whose pages a commit has written is good.
LEMMA CommitGood ==
  ASSUME SpifsAssumption, NEW s \in Slot, NEW g \in Nat, NEW fs, ListOK(fs),
         \A k \in 1 .. TocPages : toc[s][k] = TocPage(g, fs, k)
  PROVE  Good(s) /\ GenOf(s) = g /\ FilesOf(s) = fs
  <1>1. fs \in SUBSET File
    BY DEF ListOK
  <1>2. 1 \in 1 .. TocPages /\ TocPages \in 1 .. TocPages
    BY ConstFacts
  <1>3. \A k \in 1 .. TocPages : toc[s][k] # LostPage /\ toc[s][k].part = TocPart(fs, k)
    BY <1>1, TocPageFacts
  <1>4. toc[s][1].gen = g /\ toc[s][TocPages].sum = <<g, fs>>
    BY <1>1, <1>2, TocPageFacts
  <1>5. {toc[s][k].part : k \in 1 .. TocPages} = {TocPart(fs, k) : k \in 1 .. TocPages}
    BY <1>3
  <1>6. UNION {toc[s][k].part : k \in 1 .. TocPages} = fs
    BY <1>5, PartsCover
  <1> QED BY <1>3, <1>4, <1>6 DEF Good, GenOf, FilesOf

\* spifs_mount takes a newest ToC, and there are never two of one generation.
LEMMA NewestFacts ==
  ASSUME SpifsAssumption, \A s \in Slot : FooterOK(s),
         NEW ss, ss \subseteq GoodSlots, ss # {}
  PROVE  /\ Newest(ss) \in ss /\ Newest(ss) \in Slot
         /\ \A t \in ss : t # Newest(ss) => GenOf(t) < GenOf(Newest(ss))
         /\ \A s \in ss : (\A t \in ss : GenOf(t) <= GenOf(s)) => Newest(ss) = s
  <1>1. \A s \in ss : s \in Slot /\ Good(s)
    BY DEF GoodSlots
  <1>2. \A s \in ss : GenOf(s) \in Nat /\ OwnGen(s, GenOf(s))
    BY <1>1, GoodFacts
  <1>3. \A s, t \in ss : s # t => GenOf(s) # GenOf(t)
    BY <1>1, <1>2 DEF OwnGen, Slot
  <1>4. \E s \in ss : \A t \in ss : GenOf(t) <= GenOf(s)
    <2>1. PICK s : s \in ss
      OBVIOUS
    <2>2. s \in Slot /\ Other(s) \in Slot /\ \A t \in ss : t = s \/ t = Other(s)
      BY <1>1, <2>1, SlotFacts
    <2>3. CASE Other(s) \notin ss
      BY <1>2, <2>1, <2>2, <2>3
    <2>4. CASE Other(s) \in ss
      <3>1. GenOf(s) \in Nat /\ GenOf(Other(s)) \in Nat
        BY <1>2, <2>1, <2>4
      <3>2. CASE GenOf(Other(s)) <= GenOf(s)
        BY <2>1, <2>2, <3>1, <3>2
      <3>3. CASE GenOf(s) <= GenOf(Other(s))
        BY <2>2, <2>4, <3>1, <3>3
      <3> QED BY <3>1, <3>2, <3>3
    <2> QED BY <2>3, <2>4
  <1>5. Newest(ss) \in ss /\ \A t \in ss : GenOf(t) <= GenOf(Newest(ss))
    BY <1>4 DEF Newest
  <1>6. \A t \in ss : t # Newest(ss) => GenOf(t) < GenOf(Newest(ss))
    <2> TAKE t \in ss
    <2>1. GenOf(t) \in Nat /\ GenOf(Newest(ss)) \in Nat /\ GenOf(t) <= GenOf(Newest(ss))
      BY <1>2, <1>5
    <2>2. t # Newest(ss) => GenOf(t) # GenOf(Newest(ss))
      BY <1>3, <1>5
    <2> QED BY <2>1, <2>2
  <1>7. ASSUME NEW s \in ss, \A t \in ss : GenOf(t) <= GenOf(s) PROVE Newest(ss) = s
    <2>1. /\ GenOf(s) \in Nat /\ GenOf(Newest(ss)) \in Nat
          /\ GenOf(Newest(ss)) <= GenOf(s) /\ GenOf(s) <= GenOf(Newest(ss))
      BY <1>2, <1>5, <1>7
    <2>2. GenOf(Newest(ss)) = GenOf(s)
      BY <2>1
    <2> QED BY <1>3, <1>5, <2>2
  <1> QED BY <1>1, <1>5, <1>6, <1>7

\* What a mount after a loss of power would find: the list last committed, or
\* the one whose commit is in the other ToC.
LEMMA MountedView ==
  ASSUME SpifsAssumption, Types, \A s \in Slot : FooterOK(s), mem.on, Kept(hist.committed),
         OwnGen(mem.pos, mem.gen)
  PROVE  /\ GoodSlots # {} /\ mem.pos \in Slot /\ mem.gen \in Nat /\ Target \in Slot
         /\ ListOK(hist.committed)
         /\ \/ /\ ~(Good(Target) /\ GenOf(Target) > mem.gen)
               /\ Newest(GoodSlots) = mem.pos /\ Recovered = hist.committed
            \/ /\ Good(Target) /\ GenOf(Target) > mem.gen
               /\ Newest(GoodSlots) = Target /\ Recovered = Footer(Target).sum[2]
  <1>1. mem.pos \in Slot /\ mem.gen \in Nat
    BY DEF Types, MemType
  <1>2. Target \in Slot /\ Target # mem.pos /\ \A t \in Slot : t = mem.pos \/ t = Target
    BY <1>1, SlotFacts DEF Target
  <1>3. mem.pos \in GoodSlots /\ GenOf(mem.pos) = mem.gen /\ FilesOf(mem.pos) = hist.committed
    BY <1>1 DEF Kept, GoodSlots
  <1>4. GoodSlots \subseteq Slot /\ \A s \in GoodSlots : Good(s)
    BY DEF GoodSlots
  <1>5. ListOK(hist.committed)
    BY <1>1, <1>3, <1>4, GoodFacts
  <1>6. CASE ~(Good(Target) /\ GenOf(Target) > mem.gen)
    <2>1. \A t \in GoodSlots : GenOf(t) <= GenOf(mem.pos)
      <3> TAKE t \in GoodSlots
      <3>1. GenOf(t) \in Nat /\ Good(t) /\ t \in Slot
        BY <1>4, GoodFacts
      <3>2. CASE t = mem.pos
        BY <1>3, <1>1, <3>2
      <3>3. CASE t = Target
        BY <1>1, <1>3, <1>6, <3>1, <3>3
      <3> QED BY <1>2, <3>1, <3>2, <3>3
    <2>2. Newest(GoodSlots) = mem.pos
      BY <1>3, <2>1, NewestFacts
    <2>3. Recovered = hist.committed
      BY <1>3, <2>2 DEF Recovered
    <2> QED BY <1>1, <1>2, <1>3, <1>5, <1>6, <2>2, <2>3
  <1>7. CASE Good(Target) /\ GenOf(Target) > mem.gen
    <2>1. Target \in GoodSlots
      BY <1>2, <1>7 DEF GoodSlots
    <2>2. GenOf(Target) \in Nat /\ FilesOf(Target) = Footer(Target).sum[2]
      BY <1>2, <1>7, GoodFacts
    <2>3. \A t \in GoodSlots : GenOf(t) <= GenOf(Target)
      BY <1>1, <1>2, <1>3, <1>4, <1>7, <2>2
    <2>4. Newest(GoodSlots) = Target
      BY <2>1, <2>3, NewestFacts
    <2>5. Recovered = Footer(Target).sum[2]
      BY <2>2, <2>4 DEF Recovered
    <2> QED BY <1>1, <1>2, <1>3, <1>5, <1>7, <2>4, <2>5
  <1> QED BY <1>6, <1>7

-----------------------------------------------------------------------------
(* The pages of a write                                                    *)

\* A range of cells that begins m cells into page p: what is in that page, in
\* whole pages from rest on, and in the page behind them
IsSplit(P, p, m, size, lead, rest, whole, trail, start) ==
  /\ P \in Nat \ {0} /\ p \in Nat /\ m \in 0 .. (P - 1) /\ size \in Nat
  /\ lead \in Nat /\ rest \in Nat /\ whole \in Nat /\ trail \in 0 .. (P - 1)
  /\ start = p * P + m
  /\ lead = (IF m = 0 THEN 0 ELSE IF size < P - m THEN size ELSE P - m)
  /\ rest = (IF m = 0 THEN p ELSE p + 1)
  /\ size - lead = whole * P + trail

\* The cells of the three parts are those of the range
Covers(P, p, m, size, lead, rest, whole, trail, start) ==
  /\ m # 0 => \A c \in 0 .. (P - 1) :
       (m <= c /\ c < m + lead) <=> p * P + c \in start .. (start + size - 1)
  /\ \A i \in 1 .. whole, c \in 0 .. (P - 1) :
       (rest + i - 1) * P + c \in start .. (start + size - 1)
  /\ trail # 0 => \A c \in 0 .. (P - 1) :
       (c < trail) <=> (rest + whole) * P + c \in start .. (start + size - 1)
  /\ \A q \in Nat, c \in 0 .. (P - 1) :
       q * P + c \in start .. (start + size - 1) =>
         \/ m # 0 /\ q = p
         \/ \E i \in 1 .. whole : q = rest + i - 1
         \/ trail # 0 /\ q = rest + whole

\* The cells that the three parts of a write cover are those of the range.
LEMMA RangeSplit ==
  ASSUME NEW P, NEW p, NEW m, NEW size, NEW lead, NEW rest, NEW whole, NEW trail, NEW start,
         IsSplit(P, p, m, size, lead, rest, whole, trail, start)
  PROVE  Covers(P, p, m, size, lead, rest, whole, trail, start)
  <1>0. /\ P \in Nat \ {0} /\ p \in Nat /\ m \in 0 .. (P - 1) /\ size \in Nat
        /\ lead \in Nat /\ rest \in Nat /\ whole \in Nat /\ trail \in 0 .. (P - 1)
        /\ start = p * P + m
        /\ lead = (IF m = 0 THEN 0 ELSE IF size < P - m THEN size ELSE P - m)
        /\ rest = (IF m = 0 THEN p ELSE p + 1)
        /\ size - lead = whole * P + trail
    BY DEF IsSplit
  <1> USE <1>0
  <1>1. PICK pp \in Nat : pp = p * P
    OBVIOUS
  <1>2. PICK ww \in Nat : ww = whole * P
    OBVIOUS
  <1>3. start = pp + m /\ start \in Nat /\ size - lead = ww + trail
    BY <1>1, <1>2
  <1>4. PICK rr \in Nat : rr = rest * P
    OBVIOUS
  <1>5. rr = IF m = 0 THEN pp ELSE pp + P
    <2>1. (p + 1) * P = p * P + P
      OBVIOUS
    <2> QED BY <1>1, <1>4, <2>1
  <1>6. size > lead => start + lead = rr
    BY ONLY <1>3, <1>5, m \in 0 .. (P - 1), P \in Nat \ {0}, size \in Nat, lead \in Nat,
       lead = (IF m = 0 THEN 0 ELSE IF size < P - m THEN size ELSE P - m)
  <1>7. m # 0 => \A c \in 0 .. (P - 1) :
          (m <= c /\ c < m + lead) <=> p * P + c \in start .. (start + size - 1)
    BY ONLY <1>1, <1>3, m \in 0 .. (P - 1), P \in Nat \ {0}, size \in Nat, lead \in Nat,
       lead = (IF m = 0 THEN 0 ELSE IF size < P - m THEN size ELSE P - m)
  <1>8. ASSUME NEW i \in 1 .. whole, NEW c \in 0 .. (P - 1)
        PROVE  (rest + i - 1) * P + c \in start .. (start + size - 1)
    <2>1. PICK ii \in Nat : ii = (i - 1) * P
      OBVIOUS
    <2>2. (rest + i - 1) * P = rest * P + (i - 1) * P
      OBVIOUS
    <2>3. ii + P <= ww
      <3>1. PICK d \in Nat : whole = (i - 1) + 1 + d
        OBVIOUS
      <3>2. ((i - 1) + 1 + d) * P = (i - 1) * P + P + d * P
        BY ONLY d \in Nat, i \in 1 .. whole, whole \in Nat, P \in Nat \ {0}
      <3>3. d * P \in Nat
        OBVIOUS
      <3> QED BY <1>2, <2>1, <3>1, <3>2, <3>3
    <2>4. (rest + i - 1) * P = rr + ii
      BY <1>4, <2>1, <2>2
    <2>5. size > lead /\ start + lead = rr
      BY <1>3, <1>6, <2>3
    <2> QED BY ONLY <1>3, <2>3, <2>4, <2>5, c \in 0 .. (P - 1), P \in Nat \ {0},
               size \in Nat, lead \in Nat, trail \in 0 .. (P - 1), ww \in Nat,
               rr \in Nat, ii \in Nat
  <1>9. (rest + whole) * P = rr + ww
    <2>1. (rest + whole) * P = rest * P + whole * P
      OBVIOUS
    <2> QED BY <1>2, <1>4, <2>1
  <1>10. trail # 0 => \A c \in 0 .. (P - 1) :
           (c < trail) <=> (rest + whole) * P + c \in start .. (start + size - 1)
    BY ONLY <1>3, <1>6, <1>9, P \in Nat \ {0},
            size \in Nat, lead \in Nat, trail \in 0 .. (P - 1), ww \in Nat, rr \in Nat
  <1>11. ASSUME NEW q \in Nat, NEW c \in 0 .. (P - 1),
                q * P + c \in start .. (start + size - 1)
         PROVE  \/ m # 0 /\ q = p
                \/ \E i \in 1 .. whole : q = rest + i - 1
                \/ trail # 0 /\ q = rest + whole
    <2>1. PICK qq \in Nat : qq = q * P
      OBVIOUS
    <2>2. q >= p
      <3>1. (q + 1) * P = q * P + P
        OBVIOUS
      <3>2. p * P < (q + 1) * P
        BY <1>1, <1>3, <1>11, <2>1, <3>1
      <3>3. q + 1 \in Nat
        OBVIOUS
      <3>4. p < q + 1
        BY ONLY <3>2, <3>3, MulLess, p \in Nat, P \in Nat \ {0}
      <3> QED BY <3>4
    <2>3. SUFFICES ASSUME ~(m # 0 /\ q = p)
                   PROVE  \/ \E i \in 1 .. whole : q = rest + i - 1
                          \/ trail # 0 /\ q = rest + whole
      OBVIOUS
    <2>4. q >= rest
      BY <2>2, <2>3
    <2>5. PICK d \in Nat : q = rest + d
      <3>1. q - rest \in Nat /\ q = rest + (q - rest)
        BY <2>4
      <3> QED BY <3>1
    <2>6. qq = rr + d * P
      <3>1. (rest + d) * P = rest * P + d * P
        OBVIOUS
      <3> QED BY <1>4, <2>1, <2>5, <3>1
    <2>7. PICK dd \in Nat : dd = d * P
      OBVIOUS
    <2>8. qq + c >= start /\ qq + c <= start + size - 1 /\ qq = rr + dd
      BY <1>3, <1>11, <2>1, <2>6, <2>7
    <2>9. size > lead
      BY ONLY <1>3, <1>5, <2>8, m \in 0 .. (P - 1), P \in Nat \ {0}, size \in Nat,
         lead \in Nat, pp \in Nat, rr \in Nat, dd \in Nat, c \in 0 .. (P - 1),
         lead = (IF m = 0 THEN 0 ELSE IF size < P - m THEN size ELSE P - m)
    <2>10. dd + c < ww + trail
      BY ONLY <1>3, <1>6, <2>8, <2>9, rr \in Nat, dd \in Nat, ww \in Nat, qq \in Nat,
         c \in 0 .. (P - 1), P \in Nat \ {0}, size \in Nat, lead \in Nat, trail \in 0 .. (P - 1)
    <2>11. d <= whole
      <3>1. (whole + 1) * P = whole * P + P
        OBVIOUS
      <3>2. d * P < (whole + 1) * P
        BY <1>2, <2>7, <2>10, <3>1
      <3>3. whole + 1 \in Nat
        OBVIOUS
      <3>4. d < whole + 1
        BY ONLY <3>2, <3>3, MulLess, d \in Nat, P \in Nat \ {0}
      <3> QED BY <3>4
    <2>12. CASE d < whole
      <3>1. d + 1 \in 1 .. whole /\ q = rest + (d + 1) - 1
        BY <2>5, <2>12
      <3> QED BY <3>1
    <2>13. CASE d = whole
      <3>1. dd = ww
        BY <1>2, <2>7, <2>13
      <3>2. trail # 0
        BY <2>10, <3>1
      <3> QED BY <2>5, <2>13, <3>2
    <2> QED BY <2>11, <2>12, <2>13
  <1> QED BY ONLY <1>7, <1>8, <1>10, <1>11 DEF Covers

\* A page with a cell before the end of a file, and with one after its
\* beginning, is a page of the file.
LEMMA PageInFile ==
  ASSUME NEW P \in Nat \ {0}, NEW at \in Nat, NEW cap \in Nat, NEW q \in Nat,
         NEW c \in 0 .. (P - 1), at * P <= q * P + c, q * P < (at + cap) * P
  PROVE  q \in at .. (at + cap - 1)
  <1>1. (q + 1) * P = q * P + P
    OBVIOUS
  <1>2. at * P \in Nat /\ q * P \in Nat
    OBVIOUS
  <1>3. at * P < (q + 1) * P /\ q + 1 \in Nat /\ at + cap \in Nat
    BY <1>1, <1>2
  <1>4. at < q + 1
    BY ONLY <1>3, MulLess, at \in Nat, P \in Nat \ {0}
  <1>5. q < at + cap
    BY ONLY <1>3, MulLess, q \in Nat, P \in Nat \ {0}, q * P < (at + cap) * P
  <1> QED BY <1>4, <1>5

\* The page images that suit a write of v to size cells from start on
Images(f, start, size, v) ==
  {e \in [page: PagesOf(f), data: CellPage] :
     \A c \in 0 .. (PageLen - 1) :
       e.data[c] = IF e.page * PageLen + c \in start .. (start + size - 1)
                   THEN v ELSE cell[e.page][c]}

\* The cells from i on, n of them, are those of page q that are in the range
Hits(q, i, n, start, size) ==
  \A c \in 0 .. (PageLen - 1) :
    (i <= c /\ c < i + n) <=> q * PageLen + c \in start .. (start + size - 1)

\* A patched page is such an image if the cells patched are those of the range.
LEMMA PatchFits ==
  ASSUME SpifsAssumption, Types, NEW f, PagesOf(f) \subseteq Page, NEW start, NEW size,
         NEW v \in 0 .. MaxCalls, NEW q \in PagesOf(f), NEW i, NEW n,
         Hits(q, i, n, start, size)
  PROVE  Patch(q, i, n, v) \in Images(f, start, size, v) /\ Patch(q, i, n, v).page = q
  <1>1. cell[q] \in CellPage
    BY DEF Types
  <1>2. PICK e : e = Patch(q, i, n, v)
    OBVIOUS
  <1>3. /\ e = [page |-> q, data |-> e.data] /\ e.page = q
        /\ e.data = [c \in 0 .. (PageLen - 1) |-> IF i <= c /\ c < i + n THEN v ELSE cell[q][c]]
    BY <1>2 DEF Patch
  <1>4. e.data \in CellPage
    BY <1>1, <1>3 DEF CellPage
  <1>5. \A c \in 0 .. (PageLen - 1) :
          e.data[c] = IF q * PageLen + c \in start .. (start + size - 1) THEN v ELSE cell[q][c]
    BY <1>3 DEF Hits
  <1>6. e \in [page: PagesOf(f), data: CellPage]
    BY <1>3, <1>4
  <1>7. e \in Images(f, start, size, v)
    BY <1>3, <1>5, <1>6 DEF Images
  <1> QED BY <1>2, <1>3, <1>7

\* What spifs_write has worked out when it begins with the pages
WriteFits(f, off, size, start, v, w) ==
  /\ f \in File /\ f.at + f.cap <= PageNum /\ off \in Nat /\ size \in Nat
  /\ off + size <= f.cap * PageLen /\ start = off + f.at * PageLen
  /\ v \in 0 .. MaxCalls /\ w = WritePages(start, size, v)

\* The parts of a write are images of pages of the file, one at least for
\* every page that has a cell of the range.
LEMMA WritePagesFacts ==
  ASSUME SpifsAssumption, Types, NEW f, NEW off, NEW size, NEW start, NEW v, NEW w,
         WriteFits(f, off, size, start, v, w)
  PROVE  /\ w \in Seq(Images(f, start, size, v))
         /\ \A q \in Page, c \in 0 .. (PageLen - 1) :
              q * PageLen + c \in start .. (start + size - 1) =>
                \E j \in 1 .. Len(w) : w[j].page = q
  <1>0. SUFFICES ASSUME f \in File, f.at + f.cap <= PageNum, off \in Nat, size \in Nat,
                        off + size <= f.cap * PageLen, start = off + f.at * PageLen,
                        v \in 0 .. MaxCalls, w = WritePages(start, size, v)
                 PROVE  /\ w \in Seq(Images(f, start, size, v))
                        /\ \A q \in Page, c \in 0 .. (PageLen - 1) :
                             q * PageLen + c \in start .. (start + size - 1) =>
                               \E j \in 1 .. Len(w) : w[j].page = q
    BY DEF WriteFits
  <1> USE <1>0
  <1>1. /\ PageLen \in Nat \ {0} /\ f.at \in Nat /\ f.cap \in Nat \ {0}
        /\ PagesOf(f) \subseteq Page /\ PagesOf(f) = f.at .. (f.at + f.cap - 1)
    BY ConstFacts DEF File, Page, PagesOf
  <1>3. /\ f.at * PageLen \in Nat /\ f.cap * PageLen \in Nat
        /\ (f.at + f.cap) * PageLen = f.at * PageLen + f.cap * PageLen
    BY ONLY <1>1
  <1>4. start \in Nat /\ f.at * PageLen <= start /\ start + size <= (f.at + f.cap) * PageLen
    BY <1>3
  <1>5. PICK p \in Nat, m \in 0 .. (PageLen - 1) :
          p = start \div PageLen /\ m = start % PageLen /\ start = p * PageLen + m
    <2>1. /\ start \div PageLen \in Nat /\ start % PageLen \in 0 .. (PageLen - 1)
          /\ start = (start \div PageLen) * PageLen + (start % PageLen)
      BY ONLY <1>1, <1>4, DivFacts
    <2> QED BY ONLY <2>1
  <1>5a. start = p * PageLen + m
    BY <1>5
  <1>6. PICK lead \in Nat : /\ lead = LeadLen(start, size) /\ lead <= size
          /\ lead = (IF m = 0 THEN 0 ELSE IF size < PageLen - m THEN size ELSE PageLen - m)
    <2>1. LeadLen(start, size) = (IF m = 0 THEN 0 ELSE IF size < PageLen - m THEN size ELSE PageLen - m)
      BY <1>5 DEF LeadLen
    <2>2. PICK l : l = LeadLen(start, size)
      OBVIOUS
    <2>3. l \in Nat /\ l <= size
      BY ONLY <2>1, <2>2, m \in 0 .. (PageLen - 1), <1>1, size \in Nat
    <2> QED BY <2>1, <2>2, <2>3
  <1>7. size - lead \in Nat
    BY ONLY <1>6, size \in Nat
  <1>8. PICK whole \in Nat, trail \in 0 .. (PageLen - 1) :
          /\ whole = (size - lead) \div PageLen /\ trail = (size - lead) % PageLen
          /\ size - lead = whole * PageLen + trail
    BY <1>1, <1>7, DivFacts, ZenonT(40)
  <1>8a. size - lead = whole * PageLen + trail
    BY <1>8
  <1>9. PICK rest \in Nat : rest = (IF m = 0 THEN p ELSE p + 1)
    OBVIOUS
  <1>10. PICK A, B, C :
           /\ A = IF m = 0 THEN <<>> ELSE <<Patch(p, m, lead, v)>>
           /\ B = [i \in 1 .. whole |-> Patch(rest + i - 1, 0, PageLen, v)]
           /\ C = IF trail = 0 THEN <<>> ELSE <<Patch(rest + whole, 0, trail, v)>>
           /\ w = A \o B \o C
    BY <1>5, <1>6, <1>8, <1>9, ZenonT(40) DEF WritePages
  <1>11. PICK T : T = Images(f, start, size, v)
    OBVIOUS
  <1>12. /\ m # 0 => \A c \in 0 .. (PageLen - 1) :
              (m <= c /\ c < m + lead) <=> p * PageLen + c \in start .. (start + size - 1)
         /\ \A i \in 1 .. whole, c \in 0 .. (PageLen - 1) :
              (rest + i - 1) * PageLen + c \in start .. (start + size - 1)
         /\ trail # 0 => \A c \in 0 .. (PageLen - 1) :
              (c < trail) <=> (rest + whole) * PageLen + c \in start .. (start + size - 1)
         /\ \A q \in Nat, c \in 0 .. (PageLen - 1) :
              q * PageLen + c \in start .. (start + size - 1) =>
                \/ m # 0 /\ q = p
                \/ \E i \in 1 .. whole : q = rest + i - 1
                \/ trail # 0 /\ q = rest + whole
    <2>1. lead = (IF m = 0 THEN 0 ELSE IF size < PageLen - m THEN size ELSE PageLen - m)
      BY <1>6
    <2>2. IsSplit(PageLen, p, m, size, lead, rest, whole, trail, start)
      BY ONLY <1>1, <1>5a, <1>8a, <1>9, <2>1, p \in Nat, m \in 0 .. (PageLen - 1),
         size \in Nat, lead \in Nat, rest \in Nat, whole \in Nat,
         trail \in 0 .. (PageLen - 1) DEF IsSplit
    <2>3. Covers(PageLen, p, m, size, lead, rest, whole, trail, start)
      BY ONLY <2>2, RangeSplit
    <2> QED BY ONLY <2>3 DEF Covers
  <1>13. \A q \in Nat, c \in 0 .. (PageLen - 1) :
           q * PageLen + c \in start .. (start + size - 1) => q \in PagesOf(f)
    <2> TAKE q \in Nat, c \in 0 .. (PageLen - 1)
    <2> HAVE q * PageLen + c \in start .. (start + size - 1)
    <2>1. q * PageLen \in Nat
      BY <1>1
    <2>2. f.at * PageLen <= q * PageLen + c /\ q * PageLen < (f.at + f.cap) * PageLen
      BY <1>3, <1>4, <2>1
    <2> QED BY <1>1, <2>2, PageInFile
  <1>14. m # 0 => p \in PagesOf(f)
    <2> HAVE m # 0
    <2>1. p * PageLen \in Nat
      BY <1>1, <1>4
    <2>2. f.at * PageLen <= p * PageLen + m /\ p * PageLen < (f.at + f.cap) * PageLen
      BY ONLY <1>3, <1>4, <1>5a, <2>1, m # 0, m \in 0 .. (PageLen - 1), size \in Nat, <1>1
    <2> QED BY <1>1, <2>2, PageInFile
  <1>14a. ASSUME NEW q \in PagesOf(f), NEW i, NEW n, Hits(q, i, n, start, size)
         PROVE  Patch(q, i, n, v) \in T /\ Patch(q, i, n, v).page = q
    <2>1. PagesOf(f) \subseteq Page
      BY <1>1
    <2>2. Patch(q, i, n, v) \in Images(f, start, size, v) /\ Patch(q, i, n, v).page = q
      BY <1>14a, <2>1, PatchFits
    <2> QED BY <1>11, <2>2
  <1>15. A \in Seq(T) /\ (m # 0 => Len(A) = 1 /\ A[1].page = p) /\ (m = 0 => A = <<>>)
    <2>1. CASE m = 0
      BY <1>10, <2>1, EmptySeq
    <2>2. CASE m # 0
      <3>1. Patch(p, m, lead, v) \in T /\ Patch(p, m, lead, v).page = p
        <4>1. Hits(p, m, lead, start, size)
          BY ONLY <1>12, <2>2 DEF Hits
        <4>2. p \in PagesOf(f)
          BY <1>14, <2>2
        <4> QED BY ONLY <1>14a, <4>1, <4>2
      <3>2. A = <<Patch(p, m, lead, v)>>
        BY <1>10, <2>2
      <3> QED BY <2>2, <3>1, <3>2
    <2> QED BY <2>1, <2>2
  <1>16. B \in Seq(T) /\ Len(B) = whole /\ \A i \in 1 .. whole : B[i].page = rest + i - 1
    <2>1. ASSUME NEW i \in 1 .. whole
          PROVE  /\ Patch(rest + i - 1, 0, PageLen, v) \in T
                 /\ Patch(rest + i - 1, 0, PageLen, v).page = rest + i - 1
      <3>1. PICK q \in Nat : q = rest + i - 1
        BY <1>8, <1>9, <2>1
      <3>2. \A c \in 0 .. (PageLen - 1) : q * PageLen + c \in start .. (start + size - 1)
        BY <1>12, <3>1
      <3>3. q \in PagesOf(f)
        <4>1. 0 \in 0 .. (PageLen - 1)
          BY <1>1
        <4> QED BY <1>13, <3>2, <4>1
      <3>4. \A c \in 0 .. (PageLen - 1) : 0 <= c /\ c < 0 + PageLen
        BY <1>1
      <3>5. Patch(q, 0, PageLen, v) \in T /\ Patch(q, 0, PageLen, v).page = q
        <4>1. Hits(q, 0, PageLen, start, size)
          BY ONLY <3>2, <3>4 DEF Hits
        <4> QED BY ONLY <1>14a, <3>3, <4>1
      <3> QED BY <3>1, <3>5
    <2>2. B \in [1 .. whole -> T] /\ \A i \in 1 .. whole : B[i].page = rest + i - 1
      BY <1>10, <2>1
    <2>3. B \in Seq(T)
      BY ONLY <2>2, whole \in Nat
    <2>4. DOMAIN B = 1 .. whole /\ DOMAIN B = 1 .. Len(B) /\ Len(B) \in Nat
      BY ONLY <2>2, <2>3, LenProperties
    <2>5. Len(B) = whole
      BY ONLY <2>4, whole \in Nat
    <2> QED BY <2>2, <2>3, <2>5
  <1>17. /\ C \in Seq(T) /\ (trail # 0 => Len(C) = 1 /\ C[1].page = rest + whole)
         /\ (trail = 0 => C = <<>>)
    <2>1. CASE trail = 0
      BY <1>10, <2>1, EmptySeq
    <2>2. CASE trail # 0
      <3>1. PICK q \in Nat : q = rest + whole
        BY <1>8, <1>9
      <3>2. \A c \in 0 .. (PageLen - 1) :
              (0 <= c /\ c < 0 + trail) <=> q * PageLen + c \in start .. (start + size - 1)
        <4>1. \A c \in 0 .. (PageLen - 1) :
                (c < trail) <=> (rest + whole) * PageLen + c \in start .. (start + size - 1)
          BY ONLY <1>12, <2>2
        <4>2. \A c \in 0 .. (PageLen - 1) : (0 <= c /\ c < 0 + trail) <=> (c < trail)
          BY ONLY <1>1, trail \in 0 .. (PageLen - 1)
        <4> QED BY ONLY <3>1, <4>1, <4>2
      <3>2a. Hits(q, 0, trail, start, size)
        BY ONLY <3>2 DEF Hits
      <3>3. q \in PagesOf(f)
        <4>1. 0 \in 0 .. (PageLen - 1) /\ 0 < 0 + trail
          BY <1>1, <1>8, <2>2
        <4>2. q * PageLen + 0 \in start .. (start + size - 1)
          BY ONLY <3>2, <4>1
        <4> QED BY ONLY <1>13, <4>1, <4>2, q \in Nat
      <3>4. Patch(q, 0, trail, v) \in T /\ Patch(q, 0, trail, v).page = q
        BY ONLY <1>14a, <3>2a, <3>3
      <3>5. C = <<Patch(q, 0, trail, v)>>
        BY <1>10, <2>2, <3>1
      <3> QED BY <2>2, <3>1, <3>4, <3>5
    <2> QED BY <2>1, <2>2
  <1>15a. A \in Seq(T) /\ B \in Seq(T) /\ C \in Seq(T)
    BY <1>15, <1>16, <1>17
  <1>18. PICK D : D = A \o B
    OBVIOUS
  <1>19. /\ D \in Seq(T) /\ Len(D) = Len(A) + Len(B)
         /\ \A j \in 1 .. Len(A) + Len(B) : D[j] = IF j <= Len(A) THEN A[j] ELSE B[j - Len(A)]
    BY ONLY <1>15a, <1>18, ConcatProperties
  <1>20. PICK E : E = D \o C
    OBVIOUS
  <1>21. /\ E \in Seq(T) /\ Len(E) = Len(D) + Len(C)
         /\ \A j \in 1 .. Len(D) + Len(C) : E[j] = IF j <= Len(D) THEN D[j] ELSE C[j - Len(D)]
    <2>1. D \in Seq(T)
      BY <1>19
    <2> QED BY ONLY <1>15a, <1>20, <2>1, ConcatProperties
  <1>22. w = E
    BY <1>10, <1>18, <1>20
  <1>23. Len(A) \in Nat /\ Len(B) \in Nat /\ Len(C) \in Nat
    BY <1>15, <1>16, <1>17, LenProperties
  <1>24. ASSUME NEW q \in Page, NEW c \in 0 .. (PageLen - 1),
                q * PageLen + c \in start .. (start + size - 1)
         PROVE  \E j \in 1 .. Len(E) : E[j].page = q
    <2>1. q \in Nat
      BY ConstFacts
    <2>2. CASE m # 0 /\ q = p
      <3>0. Len(A) = 1
        BY <1>15, <2>2
      <3>1. 1 \in 1 .. Len(E) /\ E[1] = A[1]
        BY ONLY <1>19, <1>21, <1>23, <3>0
      <3> QED BY <1>15, <2>2, <3>1
    <2>3. ASSUME NEW i \in 1 .. whole, q = rest + i - 1
          PROVE  \E j \in 1 .. Len(E) : E[j].page = q
      <3>1. /\ Len(A) + i \in 1 .. Len(E) /\ Len(A) + i <= Len(D) /\ ~(Len(A) + i <= Len(A))
            /\ Len(A) + i - Len(A) = i
        BY ONLY <1>8, <1>16, <1>19, <1>21, <1>23, i \in 1 .. whole, SMTT(40)
      <3>2. E[Len(A) + i] = D[Len(A) + i] /\ D[Len(A) + i] = B[i]
        <4>1. PICK a \in Nat : a = Len(A) + i
          BY <1>23
        <4>2. E[a] = D[a]
          BY ONLY <1>21, <3>1, <4>1
        <4>3. a \in 1 .. (Len(A) + Len(B)) /\ ~(a <= Len(A)) /\ a - Len(A) = i
          BY ONLY <1>19, <1>23, <3>1, <4>1, i \in 1 .. whole, whole \in Nat
        <4>4. D[a] = B[a - Len(A)]
          BY ONLY <1>19, <4>3
        <4> QED BY <4>1, <4>2, <4>3, <4>4
      <3> QED BY <1>16, <2>3, <3>1, <3>2
    <2>4. CASE trail # 0 /\ q = rest + whole
      <3>0. Len(C) = 1
        BY <1>17, <2>4
      <3>1. Len(D) + 1 \in 1 .. Len(E) /\ ~(Len(D) + 1 <= Len(D)) /\ Len(D) + 1 - Len(D) = 1
        BY ONLY <1>19, <1>21, <1>23, <3>0
      <3>2. E[Len(D) + 1] = C[1]
        BY ONLY <1>19, <1>21, <1>23, <3>0, <3>1
      <3> QED BY <1>17, <2>4, <3>1, <3>2
    <2>5. \/ m # 0 /\ q = p
          \/ \E i \in 1 .. whole : q = rest + i - 1
          \/ trail # 0 /\ q = rest + whole
      BY <1>12, <1>24, <2>1
    <2> QED BY <2>2, <2>3, <2>4, <2>5
  <1> QED BY <1>11, <1>21, <1>22, <1>24

-----------------------------------------------------------------------------
(* What mounts may find                                                    *)

\* A ToC that has not been written to.
LEMMA SlotSame ==
  ASSUME NEW s, toc'[s] = toc[s]
  PROVE  /\ Good(s)' <=> Good(s)
         /\ GenOf(s)' = GenOf(s) /\ FilesOf(s)' = FilesOf(s) /\ Footer(s)' = Footer(s)
         /\ FooterOK(s)' <=> FooterOK(s)
  BY DEF Good, GenOf, FilesOf, Footer, FooterOK

\* Neither ToC has been written to.
LEMMA TocSame ==
  ASSUME toc' = toc
  PROVE  /\ GoodSlots' = GoodSlots /\ Recovered' = Recovered
         /\ Newest(GoodSlots)' = Newest(GoodSlots)
         /\ GenOf(Newest(GoodSlots))' = GenOf(Newest(GoodSlots))
         /\ \A g : Remnants(g)' = Remnants(g)
         /\ \A s \in Slot : FooterOK(s)' <=> FooterOK(s)
  <1>1. GoodSlots' = GoodSlots
    BY DEF GoodSlots, Good
  <1>2. Newest(GoodSlots)' = Newest(GoodSlots)
    BY <1>1 DEF Newest, GenOf
  <1>3. GenOf(Newest(GoodSlots))' = GenOf(Newest(GoodSlots)) /\ Recovered' = Recovered
    BY <1>2 DEF GenOf, Recovered, FilesOf
  <1>4. \A g : Remnants(g)' = Remnants(g)
    BY DEF Remnants
  <1>5. \A s \in Slot : FooterOK(s)' <=> FooterOK(s)
    BY SlotSame
  <1> QED BY <1>1, <1>2, <1>3, <1>4, <1>5

\* What is in a footer newer than g, and only that.
LEMMA RemnantFacts ==
  ASSUME NEW g, NEW fs \in Remnants(g)
  PROVE  \E s \in Slot : Footer(s) # LostPage /\ Footer(s).sum[1] > g /\ fs = Footer(s).sum[2]
  BY DEF Remnants, Footer

\* While a file system is mounted, a mount after a loss of power finds the list
\* last committed or that of an attempt since.
LEMMA MountedCrash ==
  ASSUME SpifsAssumption, Types, Lists, Device, mem.on
  PROVE  CrashAtomic
  <1>1. /\ \A s \in Slot : FooterOK(s)
        /\ Kept(hist.committed) /\ OwnGen(mem.pos, mem.gen) /\ Behind
    BY DEF Lists, Device
  <1>2. /\ GoodSlots # {} /\ mem.pos \in Slot /\ mem.gen \in Nat /\ Target \in Slot
        /\ ListOK(hist.committed)
        /\ \/ Recovered = hist.committed
           \/ /\ Good(Target) /\ GenOf(Target) > mem.gen
              /\ Recovered = Footer(Target).sum[2]
    BY <1>1, MountedView
  <1>3. CASE Recovered = hist.committed
    BY <1>2, <1>3 DEF CrashAtomic, ListOK
  <1>4. CASE Good(Target) /\ GenOf(Target) > mem.gen /\ Recovered = Footer(Target).sum[2]
    <2>1. /\ Footer(Target) # LostPage /\ GenOf(Target) \in Nat
          /\ GenOf(Target) = Footer(Target).sum[1]
          /\ FilesOf(Target) = Footer(Target).sum[2] /\ ListOK(FilesOf(Target))
      BY <1>1, <1>2, <1>4, GoodFacts
    <2>2. Recovered \in hist.attempts
      BY <1>1, <1>2, <1>4, <2>1 DEF Behind
    <2>3. consistency_check(Recovered)
      BY <1>4, <2>1 DEF ListOK
    <2> QED BY <1>2, <2>2, <2>3 DEF CrashAtomic
  <1> QED BY <1>2, <1>3, <1>4

\* The commit under way has written all of the ToC.
LEMMA AllWritten ==
  ASSUME SpifsAssumption, Types, Lists, Written, op.k = TocPages + 1
  PROVE  /\ Target \in Slot /\ mem.gen + 1 \in Nat
         /\ Good(Target) /\ GenOf(Target) = mem.gen + 1 /\ FilesOf(Target) = mem.files
  <1>1. mem.pos \in Slot /\ mem.gen + 1 \in Nat
    BY DEF Types, MemType
  <1>2. Target \in Slot
    BY <1>1, SlotFacts DEF Target
  <1>3. \A j \in 1 .. TocPages : toc[Target][j] = TocPage(mem.gen + 1, mem.files, j)
    BY ConstFacts DEF Written
  <1>4. ListOK(mem.files)
    BY DEF Lists
  <1>5. PICK s \in Slot, g \in Nat, fs \in SUBSET File :
          s = Target /\ g = mem.gen + 1 /\ fs = mem.files
    BY <1>1, <1>2, <1>4 DEF ListOK
  <1>6. Good(s) /\ GenOf(s) = g /\ FilesOf(s) = fs
    BY <1>3, <1>4, <1>5, CommitGood
  <1> QED BY <1>1, <1>2, <1>5, <1>6

\* A footer newer than memory is that of the other ToC.
LEMMA NewerFooter ==
  ASSUME SpifsAssumption, Types, Lists, Kept(hist.committed),
         NEW fs \in Remnants(mem.gen)
  PROVE  fs = Footer(Target).sum[2] /\ Footer(Target).sum[1] > mem.gen
  <1>1. PICK s \in Slot : /\ Footer(s) # LostPage /\ Footer(s).sum[1] > mem.gen
                          /\ fs = Footer(s).sum[2]
    BY RemnantFacts
  <1>2. mem.pos \in Slot /\ mem.gen \in Nat
    BY DEF Types, MemType
  <1>3. FooterOK(mem.pos) /\ Good(mem.pos) /\ GenOf(mem.pos) = mem.gen
    BY <1>2 DEF Lists, Kept
  <1>4. Footer(mem.pos).sum[1] = mem.gen
    BY <1>2, <1>3, GoodFacts
  <1>5. s # mem.pos
    BY <1>1, <1>2, <1>4
  <1>6. s = Target
    BY <1>2, <1>5, SlotFacts DEF Target
  <1> QED BY <1>1, <1>6

\* While a file system is mounted, what a mount after a loss of power finds is
\* in pages of the list in memory or of the one committed, and what may be found
\* after that one is in no other page.
LEMMA MountedPlaces ==
  ASSUME SpifsAssumption, Types, Lists, Written, Device, Places, mem.on
  PROVE  /\ DataPages(Recovered) \subseteq
              DataPages(mem.files) \cup DataPages(hist.committed) \cup hist.doubt
         /\ \A fs \in Remnants(GenOf(Newest(GoodSlots))) :
              DataPages(fs) \subseteq DataPages(Recovered) \cup hist.doubt
  <1>1. /\ \A s \in Slot : FooterOK(s)
        /\ Kept(hist.committed) /\ OwnGen(mem.pos, mem.gen) /\ Behind
    BY DEF Lists, Device
  <1>2. mem.pos \in Slot /\ mem.gen \in Nat /\ Target \in Slot /\ op.k \in 0 .. (TocPages + 1)
    BY SlotFacts DEF Types, MemType, OpType, Target
  <1>3. GenOf(mem.pos) = mem.gen
    BY <1>1 DEF Kept
  <1>4. op.k <= TocPages => \A fs \in Remnants(mem.gen) :
            DataPages(fs) \subseteq DataPages(hist.committed) \cup hist.doubt
    BY DEF Places
  <1>5. \/ /\ ~(Good(Target) /\ GenOf(Target) > mem.gen)
           /\ Newest(GoodSlots) = mem.pos /\ Recovered = hist.committed
        \/ /\ Good(Target) /\ GenOf(Target) > mem.gen
           /\ Newest(GoodSlots) = Target /\ Recovered = Footer(Target).sum[2]
    BY <1>1, MountedView
  <1>6. CASE /\ ~(Good(Target) /\ GenOf(Target) > mem.gen)
             /\ Newest(GoodSlots) = mem.pos /\ Recovered = hist.committed
    <2>1. op.k <= TocPages
      <3>1. op.k = TocPages + 1 => Good(Target) /\ GenOf(Target) = mem.gen + 1
        BY AllWritten
      <3> QED BY <1>2, <1>6, <3>1, ConstFacts
    <2>2. Remnants(GenOf(Newest(GoodSlots))) = Remnants(mem.gen)
      BY <1>3, <1>6
    <2> QED BY <1>4, <1>6, <2>1, <2>2
  <1>7. CASE /\ Good(Target) /\ GenOf(Target) > mem.gen
             /\ Newest(GoodSlots) = Target /\ Recovered = Footer(Target).sum[2]
    <2>1. /\ Footer(Target) # LostPage /\ GenOf(Target) \in Nat
          /\ GenOf(Target) = Footer(Target).sum[1]
          /\ FilesOf(Target) = Footer(Target).sum[2]
      BY <1>1, <1>2, <1>7, GoodFacts
    <2>2. Recovered \in Remnants(mem.gen)
      BY <1>2, <1>7, <2>1 DEF Remnants, Footer
    <2>3. ASSUME op.k = TocPages + 1 PROVE Recovered = mem.files
      BY <1>7, <2>1, <2>3, AllWritten
    <2>4. DataPages(Recovered) \subseteq
            DataPages(mem.files) \cup DataPages(hist.committed) \cup hist.doubt
      <3>1. CASE op.k <= TocPages
        BY <1>4, <2>2, <3>1
      <3>2. CASE op.k = TocPages + 1
        BY <2>3, <3>2
      <3> QED BY <1>2, <3>1, <3>2, ConstFacts
    <2>5. ASSUME NEW fs \in Remnants(GenOf(Newest(GoodSlots))) PROVE FALSE
      <3>1. PICK s \in Slot : Footer(s) # LostPage /\ Footer(s).sum[1] > GenOf(Target)
        BY <1>7, <2>5, RemnantFacts
      <3>2. s # Target
        BY <2>1, <3>1
      <3>3. s = mem.pos
        BY <1>2, <3>2, SlotFacts DEF Target
      <3>4. Footer(mem.pos).sum[1] = mem.gen
        BY <1>1, <1>2, <1>3, GoodFacts DEF Kept
      <3> QED BY <1>2, <1>7, <2>1, <3>1, <3>3, <3>4
    <2> QED BY <2>4, <2>5
  <1> QED BY <1>5, <1>6, <1>7

\* While a file system is mounted, the data that a mount after a loss of power
\* finds is what was wanted.
LEMMA MountedData ==
  ASSUME SpifsAssumption, Types, Lists, Written, Device, Places, DataExact, mem.on
  PROVE  DataIntact
  <1>1. DataPages(Recovered) \subseteq
          DataPages(mem.files) \cup DataPages(hist.committed) \cup hist.doubt
    BY MountedPlaces
  <1>2. SUFFICES ASSUME NEW f \in Recovered, NEW q \in PagesOf(f) \ (hist.doubt \cup op.pages)
                 PROVE  cell[q] = hist.want[q]
    BY DEF DataIntact
  <1>3. q \in DataPages(Recovered)
    BY DEF DataPages
  <1> QED BY <1>1, <1>3 DEF DataExact

\* The invariant but for what follows from the rest while mounted
Core ==
  /\ Types /\ Lists /\ Calls /\ Written /\ Device /\ NewestInMemory /\ Handles
  /\ Places /\ DueExact /\ DataExact

\* While mounted, the rest of the invariant follows from the core.
LEMMA CoreGives ==
  Core /\ mem.on => IInv
  BY SpifsAssumption, MountedCrash, MountedData DEF Core, IInv

\* The same of the next state.
LEMMA CoreNext ==
  Core' /\ mem'.on => IInv'
  <1>1. (Core /\ mem.on)' => IInv'
    BY CoreGives, PTL
  <1> QED BY <1>1

-----------------------------------------------------------------------------
(* The steps of a page write keep the invariant                            *)

\* The pages that the invariant speaks of are pages of the device.
LEMMA PagesIn ==
  ASSUME SpifsAssumption, IInv
  PROVE  /\ Due \subseteq Page /\ DataPages(mem.files) \subseteq Page
         /\ mem.on => ListOK(hist.committed) /\ DataPages(hist.committed) \subseteq Page
  <1>1. Types /\ Lists /\ Device
    BY DEF IInv
  <1>2. op.kind = "create" => DataPages(op.file) \subseteq Page
    <2> HAVE op.kind = "create"
    <2>1. ListOK(mem.files \cup op.file)
      BY <1>1 DEF Lists
    <2> QED BY <2>1, FilePages DEF DataPages
  <1>3. op.pages \subseteq Page
    BY <1>1 DEF Types, OpType
  <1>4. DataPages(mem.files) \subseteq Page
    BY <1>1, FilePages DEF Lists
  <1>5. mem.on => ListOK(hist.committed)
    BY <1>1, MountedView DEF Device, Lists
  <1> QED BY <1>2, <1>3, <1>4, <1>5, FilePages DEF Due

\* A call that has data pages to write has not begun its commit.
LEMMA WorkData ==
  ASSUME SpifsAssumption, IInv, AtData
  PROVE  /\ mem.on /\ op.k = 0 /\ ~Idle
         /\ op.todo[1].page \in Due /\ op.todo[1].page \in Page
         /\ op.todo[1].page \notin (DataPages(mem.files) \cup DataPages(hist.committed))
                                     \ (hist.doubt \cup op.pages)
  <1>1. Types /\ Lists /\ Calls /\ Places /\ DueExact
    BY DEF IInv
  <1>2. op.k = 0
    BY <1>1 DEF Calls, AtData, Types, OpType
  <1>3. ~Idle
    BY <1>1 DEF Calls, AtData, NoOp
  <1>4. mem.on
    BY <1>1, <1>2, <1>3 DEF Calls, Idle, Types, MemType
  <1>5. op.todo[1].page \in Due /\ op.todo[1].page \in Page
    BY <1>1, HeadFacts DEF DueExact, AtData
  <1>6. /\ SamePlaces(mem.files, hist.committed, hist.doubt \cup Moving)
        /\ op.kind = "create" => DataPages(op.file) \cap DataPages(mem.files) = {}
    BY <1>1, <1>2, <1>4 DEF Places
  <1>7. CASE op.todo[1].page \in op.pages
    BY <1>2, <1>3, <1>4, <1>5, <1>7
  <1>8. CASE op.kind = "create" /\ op.todo[1].page \in DataPages(op.file)
    <2>1. Moving = {}
      BY <1>2, <1>8 DEF Moving
    <2>2. DataPages(hist.committed) \subseteq DataPages(mem.files) \cup hist.doubt
      BY <1>6, <2>1 DEF SamePlaces
    <2> QED BY <1>2, <1>3, <1>4, <1>5, <1>6, <1>8, <2>2
  <1> QED BY <1>5, <1>7, <1>8 DEF Due

\* A call at a ToC page has written its data.
LEMMA WorkToc ==
  ASSUME SpifsAssumption, IInv, AtToc
  PROVE  /\ ~Idle /\ op.todo = <<>> /\ op.k \in 1 .. TocPages
         /\ OwnGen(mem.pos, mem.gen) /\ mem.pos \in Slot /\ mem.gen \in Nat
         /\ Target \in Slot /\ Target # mem.pos
         /\ ~mem.on => op.kind = "format" /\ ~hist.safe
         /\ mem.on => op.kind # "format"
  <1>1. Types /\ Calls /\ Device
    BY DEF IInv
  <1>2. op.todo = <<>> /\ op.k \in 1 .. TocPages
    BY DEF AtToc
  <1>3. ~Idle
    BY <1>1, <1>2 DEF Calls, NoOp
  <1>4. OwnGen(mem.pos, mem.gen) /\ mem.pos \in Slot /\ mem.gen \in Nat
    BY <1>1, <1>3 DEF Device, Types, MemType
  <1>5. Target \in Slot /\ Target # mem.pos
    BY <1>4, SlotFacts DEF Target
  <1>6. /\ ~mem.on => op.kind = "format" /\ ~hist.safe
        /\ mem.on => op.kind # "format"
    BY <1>1, <1>3 DEF Calls, Idle, Device
  <1> QED BY <1>2, <1>3, <1>4, <1>5, <1>6

\* The directory handles and the list are as they were.
LEMMA HandlesSame ==
  ASSUME Handles, mem'.files = mem.files, dirs' = dirs,
         op'.kind = "create" => op.kind = "create" /\ op'.file = op.file
  PROVE  Handles'
  <1>1. \A n : find_file(n)' = find_file(n)
    BY DEF find_file
  <1>2. DirScan'
    BY <1>1 DEF Handles, DirScan
  <1>3. ASSUME NEW d \in Dirs, dirs'[d].open
        PROVE  /\ dirs'[d].due \subseteq NamesOf(mem'.files)
               /\ op'.kind = "create" =>
                    (dirs'[d].due \cup {dirs'[d].next}) \cap NamesOf(op'.file) = {}
    BY <1>3 DEF Handles
  <1> QED BY <1>2, <1>3 DEF Handles

\* The erased data page is one that is to be written.
LEMMA EraseData ==
  ASSUME SpifsAssumption, IInv, ErasePage, AtData, ~AtToc
  PROVE  IInv'
  <1>1. Types /\ Lists /\ Calls /\ Written /\ Device /\ NewestInMemory /\ Handles
    BY DEF IInv
  <1>2. Places /\ DueExact /\ DataExact
    BY DEF IInv
  <1>3. /\ mem.on /\ op.k = 0 /\ ~Idle
        /\ op.todo[1].page \in Due /\ op.todo[1].page \in Page
        /\ op.todo[1].page \notin (DataPages(mem.files) \cup DataPages(hist.committed))
                                    \ (hist.doubt \cup op.pages)
    BY WorkData
  <1>4. /\ op' \in OpType /\ op' = [op EXCEPT !.torn = TRUE]
        /\ mem' = mem /\ dirs' = dirs /\ count' = count /\ toc' = toc /\ hist' = hist
        /\ cell' \in [Page -> CellPage]
        /\ \A p \in Page : p # op.todo[1].page => cell'[p] = cell[p]
    BY <1>1, EraseFacts
  <1>5. /\ op'.kind = op.kind /\ op'.pages = op.pages /\ op'.file = op.file
        /\ op'.todo = op.todo /\ op'.dirty = op.dirty /\ op'.k = op.k
        /\ op'.rounds = op.rounds
    BY <1>1, <1>4 DEF Types, OpType
  <1>6. ~AtToc' /\ AtData'
    BY <1>5 DEF AtToc, AtData
  <1>7. Types'
    BY <1>1, <1>4 DEF Types
  <1>8. Lists'
    BY <1>1, <1>4, <1>5, TocSame DEF Lists
  <1>9. Calls'
    BY <1>1, <1>3, <1>4, <1>5, <1>6 DEF Calls, Idle
  <1>10. Target' = Target
    BY <1>4 DEF Target
  <1>11. Written'
    BY <1>1, <1>4, <1>5, <1>10, SMTT(40) DEF Written
  <1>12. Device'
    BY <1>1, <1>3, <1>4, <1>5, <1>6, <1>10
       DEF Device, Kept, Behind, Footer, Good, GenOf, FilesOf, Idle
  <1>13. NewestInMemory'
    BY <1>1, <1>4, <1>5, <1>10 DEF NewestInMemory, Good, GenOf
  <1>14. Handles'
    BY <1>1, <1>4, <1>5, HandlesSame
  <1>15. Places'
    <2>1. Moving' = Moving
      BY <1>5 DEF Moving
    <2>2. Remnants(mem.gen)' = Remnants(mem.gen)
      BY <1>4 DEF Remnants
    <2> QED BY <1>2, <1>3, <1>4, <1>5, <2>1, <2>2 DEF Places
  <1>16. Due' = Due
    BY <1>5 DEF Due
  <1>17. DueExact'
    <2>1. 1 \in 1 .. Len(op.todo)
      BY <1>1, HeadFacts DEF AtData
    <2>2. Due \subseteq Page
      BY PagesIn
    <2> QED BY <1>2, <1>4, <1>5, <1>16, <2>1, <2>2, SMTT(40) DEF DueExact, Sure
  <1>18. DataExact'
    <2>1. DataPages(mem.files) \cup DataPages(hist.committed) \subseteq Page
      BY <1>3, PagesIn
    <2> QED BY <1>2, <1>3, <1>4, <1>5, <2>1 DEF DataExact
  <1> QED BY <1>3, <1>4, <1>7, <1>8, <1>9, <1>11, <1>12, <1>13, <1>14, <1>15, <1>17, <1>18,
             CoreNext DEF Core

\* The data page that is written is off the list of what is to be written.
LEMMA ProgramData ==
  ASSUME SpifsAssumption, IInv, ProgramPage, AtData, ~AtToc
  PROVE  IInv'
  <1>1. Types /\ Lists /\ Calls /\ Written /\ Device /\ NewestInMemory /\ Handles
    BY DEF IInv
  <1>2. Places /\ DueExact /\ DataExact
    BY DEF IInv
  <1>3. /\ mem.on /\ op.k = 0 /\ ~Idle
        /\ op.todo[1].page \in Due /\ op.todo[1].page \in Page
        /\ op.todo[1].page \notin (DataPages(mem.files) \cup DataPages(hist.committed))
                                    \ (hist.doubt \cup op.pages)
    BY WorkData
  <1>4. /\ op' \in OpType /\ op' = [op EXCEPT !.todo = Tail(@), !.torn = FALSE]
        /\ mem' = mem /\ dirs' = dirs /\ count' = count /\ hist' = hist
    BY <1>1, ProgramFacts
  <1>5. Programmed
    BY DEF ProgramPage
  <1>6. /\ toc' = toc
        /\ cell' \in [Page -> CellPage] /\ cell'[op.todo[1].page] = op.todo[1].data
        /\ \A p \in Page : p # op.todo[1].page => cell'[p] = cell[p]
    BY <1>1, <1>5, ProgrammedFacts
  <1>7. /\ op'.kind = op.kind /\ op'.pages = op.pages /\ op'.file = op.file
        /\ op'.todo = Tail(op.todo) /\ op'.dirty = op.dirty /\ op'.k = op.k
        /\ op'.rounds = op.rounds /\ op'.torn = FALSE
    BY <1>1, <1>4 DEF Types, OpType
  <1>8. Types'
    BY <1>1, <1>4, <1>6 DEF Types
  <1>9. Lists'
    BY <1>1, <1>4, <1>6, <1>7, TocSame DEF Lists
  <1>10. Calls'
    BY <1>1, <1>3, <1>4, <1>7 DEF Calls, Idle
  <1>11. Target' = Target
    BY <1>4 DEF Target
  <1>12. Written'
    BY <1>1, <1>4, <1>6, <1>7, <1>11 DEF Written
  <1>13. Device'
    <2>1. ~op'.torn
      BY <1>7, SMTT(40)
    <2>2. Behind' /\ Kept(hist.committed)'
      BY <1>1, <1>3, <1>4, <1>6, <1>11
         DEF Device, Kept, Behind, Footer, Good, GenOf, FilesOf
    <2>3. op'.kind # "format"
      BY <1>1, <1>3, <1>7 DEF Calls
    <2> QED BY <1>1, <1>3, <1>4, <2>1, <2>2, <2>3 DEF Device
  <1>14. NewestInMemory'
    BY <1>1, <1>4, <1>6, <1>7, <1>11 DEF NewestInMemory, Good, GenOf
  <1>15. Handles'
    BY <1>1, <1>4, <1>7, HandlesSame
  <1>16. Places'
    <2>1. Moving' = Moving
      BY <1>7 DEF Moving
    <2>2. Remnants(mem.gen)' = Remnants(mem.gen)
      BY <1>4, <1>6 DEF Remnants
    <2> QED BY <1>2, <1>3, <1>4, <1>7, <2>1, <2>2 DEF Places
  <1>17. Due' = Due
    BY <1>7 DEF Due
  <1>18. DueExact'
    <2>1. /\ Len(op.todo) \in Nat \ {0} /\ Len(op'.todo) = Len(op.todo) - 1
          /\ \A j \in 1 .. (Len(op.todo) - 1) : op'.todo[j] = op.todo[j + 1]
      BY <1>1, <1>7, HeadFacts DEF AtData
    <2>2. Due \subseteq Page
      BY PagesIn
    <2>3. ASSUME NEW j \in 1 .. Len(op'.todo)
          PROVE  /\ op'.todo[j].page \in Due
                 /\ Sure(op'.todo[j].page) => op'.todo[j].data = hist.want[op'.todo[j].page]
      <3>1. op'.todo[j] = op.todo[j + 1] /\ j + 1 \in 1 .. Len(op.todo)
        BY <2>1, <2>3
      <3> QED BY <1>2, <3>1 DEF DueExact
    <2>4. ASSUME NEW p \in Due, Sure(p)
          PROVE  cell'[p] = hist.want[p] \/ \E j \in 1 .. Len(op'.todo) : op'.todo[j].page = p
      <3>1. CASE p = op.todo[1].page
        <4>1. 1 \in 1 .. Len(op.todo)
          BY <2>1
        <4>2. op.todo[1].data = hist.want[op.todo[1].page]
          BY <1>2, <2>4, <3>1, <4>1 DEF DueExact
        <4> QED BY <1>6, <3>1, <4>2
      <3>2. CASE p # op.todo[1].page
        <4>1. cell'[p] = cell[p]
          BY <1>6, <2>2, <3>2
        <4>2. CASE cell[p] = hist.want[p]
          BY <4>1, <4>2
        <4>3. ASSUME NEW j \in 1 .. Len(op.todo), op.todo[j].page = p
              PROVE  \E i \in 1 .. Len(op'.todo) : op'.todo[i].page = p
          <5>1. j # 1
            BY <3>2, <4>3
          <5>2. /\ j - 1 \in 1 .. Len(op'.todo) /\ j - 1 \in 1 .. (Len(op.todo) - 1)
                /\ (j - 1) + 1 = j
            BY <2>1, <5>1
          <5>3. op'.todo[j - 1] = op.todo[j]
            BY <2>1, <5>2
          <5> QED BY <4>3, <5>2, <5>3
        <4> QED BY <1>2, <2>4, <4>2, <4>3 DEF DueExact
      <3> QED BY <3>1, <3>2
    <2>5. \A p : Sure(p)' <=> Sure(p)
      BY <1>4, <1>7 DEF Sure
    <2>6. op'.kind = "write" => op'.pages \subseteq DataPages(mem'.files)
      BY <1>2, <1>4, <1>7 DEF DueExact
    <2> QED BY <1>4, <1>17, <2>3, <2>4, <2>5, <2>6, ZenonT(40) DEF DueExact
  <1>19. DataExact'
    <2>1. DataPages(mem.files) \cup DataPages(hist.committed) \subseteq Page
      BY <1>3, PagesIn
    <2> QED BY <1>2, <1>3, <1>4, <1>6, <1>7, <2>1 DEF DataExact
  <1> QED BY <1>3, <1>4, <1>8, <1>9, <1>10, <1>12, <1>13, <1>14, <1>15, <1>16, <1>18, <1>19,
             CoreNext DEF Core

\* A page of the ToC that is being written gets another content: neither the
\* ToC that is kept nor what the invariant says of the rest is concerned.
LEMMA TocWrite ==
  ASSUME SpifsAssumption, IInv, AtToc, mem' = mem,
         toc' \in [Slot -> [1 .. TocPages -> TocPageType]],
         toc'[mem.pos] = toc[mem.pos],
         \A j \in 1 .. TocPages : j # op.k => toc'[Target][j] = toc[Target][j]
  PROVE  /\ Target' = Target
         /\ \A fs : Kept(fs)' <=> Kept(fs)
         /\ FooterOK(mem.pos)'
         /\ op.k # TocPages =>
              /\ Footer(Target)' = Footer(Target) /\ FooterOK(Target)'
              /\ Remnants(mem.gen)' = Remnants(mem.gen)
  <1>1. /\ op.k \in 1 .. TocPages /\ mem.pos \in Slot /\ Target \in Slot /\ Target # mem.pos
    BY WorkToc
  <1>2. \A s \in Slot : FooterOK(s)
    BY DEF IInv, Lists
  <1>3. Target' = Target
    BY DEF Target
  <1>4. \A fs : Kept(fs)' <=> Kept(fs)
    BY DEF Kept, Good, GenOf, FilesOf
  <1>5. Footer(mem.pos)' = Footer(mem.pos) /\ FooterOK(mem.pos)'
    BY <1>1, <1>2 DEF FooterOK, Footer
  <1>6. ASSUME op.k # TocPages
        PROVE  /\ Footer(Target)' = Footer(Target) /\ FooterOK(Target)'
               /\ Remnants(mem.gen)' = Remnants(mem.gen)
    <2>1. TocPages \in 1 .. TocPages
      BY ConstFacts
    <2>2. toc'[Target][TocPages] = toc[Target][TocPages]
      BY <1>6, <2>1
    <2>3. Footer(Target)' = Footer(Target) /\ FooterOK(Target)'
      BY <1>1, <1>2, <1>3, <2>2 DEF FooterOK, Footer
    <2>4. \A s \in Slot : toc'[s][TocPages] = toc[s][TocPages]
      BY <1>1, <2>2, SlotFacts DEF Target
    <2>5. Remnants(mem.gen)' = Remnants(mem.gen)
      BY <2>4 DEF Remnants
    <2> QED BY <2>3, <2>5
  <1> QED BY <1>3, <1>4, <1>5, <1>6

\* The invariant in a state in which nothing is mounted and the device is not
\* promised to be recoverable.
LEMMA UnsafeNext ==
  ASSUME Types', Lists', Calls', Written', Device', DueExact',
         ~mem'.on, ~hist'.safe, hist'.doubt = Page
  PROVE  IInv'
  <1>1. NewestInMemory' /\ DataExact' /\ CrashAtomic' /\ DataIntact' /\ Places'
    BY DEF NewestInMemory, DataExact, CrashAtomic, DataIntact, Places
  <1>2. \A d \in Dirs : ~dirs'[d].open
    BY DEF Calls
  <1>3. Handles'
    BY <1>2 DEF Handles, DirScan
  <1> QED BY <1>1, <1>3 DEF IInv

\* The ToC page that is erased is one of the ToC that is not kept.
LEMMA EraseToc ==
  ASSUME SpifsAssumption, IInv, ErasePage, AtToc, ~AtData
  PROVE  IInv'
  <1>1. Types /\ Lists /\ Calls /\ Written /\ Device /\ NewestInMemory /\ Handles
    BY DEF IInv
  <1>2. Places /\ DueExact /\ DataExact
    BY DEF IInv
  <1>3. /\ ~Idle /\ op.todo = <<>> /\ op.k \in 1 .. TocPages
        /\ mem.pos \in Slot /\ Target \in Slot /\ Target # mem.pos
        /\ ~mem.on => op.kind = "format" /\ ~hist.safe
        /\ mem.on => op.kind # "format"
    BY WorkToc
  <1>4. /\ op' \in OpType /\ op' = [op EXCEPT !.torn = TRUE]
        /\ mem' = mem /\ dirs' = dirs /\ count' = count /\ cell' = cell
        /\ hist' = [hist EXCEPT !.attempts = @ \cup {mem.files}] /\ hist' \in HistType
        /\ toc' \in [Slot -> [1 .. TocPages -> TocPageType]]
        /\ toc'[Target][op.k] = LostPage /\ toc'[mem.pos] = toc[mem.pos]
        /\ \A j \in 1 .. TocPages : j # op.k => toc'[Target][j] = toc[Target][j]
    BY <1>1, EraseFacts
  <1>5. /\ op'.kind = op.kind /\ op'.pages = op.pages /\ op'.file = op.file
        /\ op'.todo = op.todo /\ op'.dirty = op.dirty /\ op'.k = op.k
        /\ op'.rounds = op.rounds
    BY <1>1, <1>4 DEF Types, OpType
  <1>6. /\ hist'.committed = hist.committed /\ hist'.want = hist.want
        /\ hist'.doubt = hist.doubt /\ hist'.safe = hist.safe /\ hist'.failed = hist.failed
        /\ hist'.attempts = hist.attempts \cup {mem.files}
    BY <1>1, <1>4 DEF Types, HistType
  <1>7. AtToc'
    BY <1>5 DEF AtToc
  <1>8. /\ Target' = Target
        /\ \A fs : Kept(fs)' <=> Kept(fs)
        /\ FooterOK(mem.pos)'
        /\ op.k # TocPages =>
             /\ Footer(Target)' = Footer(Target) /\ FooterOK(Target)'
             /\ Remnants(mem.gen)' = Remnants(mem.gen)
    BY <1>4, TocWrite
  <1>9. op.k = TocPages => Footer(Target)' = LostPage
    BY <1>4, <1>8 DEF Footer
  <1>10. Types'
    BY <1>1, <1>4 DEF Types
  <1>11. \A s \in Slot : FooterOK(s)'
    <2>1. FooterOK(Target)'
      BY <1>8, <1>9 DEF FooterOK
    <2>2. \A s \in Slot : s = mem'.pos \/ s = Target'
      BY <1>3, <1>4, <1>8, SlotFacts DEF Target
    <2> QED BY <1>8, <2>1, <2>2 DEF FooterOK, Footer
  <1>12. Lists'
    BY <1>1, <1>4, <1>5, <1>11 DEF Lists
  <1>13. Calls'
    BY <1>1, <1>3, <1>4, <1>5, <1>7 DEF Calls, Idle
  <1>14. Written'
    <2>1. \A j \in 1 .. (op.k - 1) : j \in 1 .. TocPages /\ j # op.k
      BY <1>3
    <2> QED BY <1>1, <1>4, <1>5, <1>8, <2>1 DEF Written
  <1>15. DueExact'
    BY <1>2, <1>4, <1>5, <1>6 DEF DueExact, Due, Sure
  <1>16. CASE mem.on
    <2>1. Kept(hist.committed)'
      BY <1>1, <1>6, <1>8, <1>16 DEF Device
    <2>2. Behind'
      <3>1. CASE op.k = TocPages
        BY <1>9, <3>1 DEF Behind
      <3>2. CASE op.k # TocPages
        BY <1>1, <1>4, <1>6, <1>8, <1>16, <3>2 DEF Device, Behind
      <3> QED BY <3>1, <3>2
    <2>3. Device'
      BY <1>1, <1>3, <1>4, <1>5, <1>6, <1>16, <2>1, <2>2 DEF Device
    <2>4. NewestInMemory'
      BY <1>3, <1>5 DEF NewestInMemory
    <2>5. Handles'
      BY <1>1, <1>4, <1>5, HandlesSame
    <2>6. Places'
      <3>1. Moving' = Moving
        BY <1>5 DEF Moving
      <3>2. Remnants(mem.gen)' \subseteq Remnants(mem.gen)
        <4>1. CASE op.k # TocPages
          BY <1>8, <4>1
        <4>2. CASE op.k = TocPages
          <5>1. \A s \in Slot : \/ toc'[s][TocPages] = LostPage
                                \/ toc'[s][TocPages] = toc[s][TocPages]
            BY <1>3, <1>4, <4>2, SlotFacts DEF Target
          <5> QED BY <1>4, <5>1 DEF Remnants
        <4> QED BY <4>1, <4>2
      <3> QED BY <1>2, <1>3, <1>4, <1>5, <1>6, <1>16, <3>1, <3>2 DEF Places
    <2>7. DataExact'
      BY <1>2, <1>4, <1>5, <1>6 DEF DataExact
    <2> QED BY <1>4, <1>10, <1>12, <1>13, <1>14, <1>15, <1>16, <2>3, <2>4, <2>5, <2>6, <2>7,
               CoreNext DEF Core
  <1>17. CASE ~mem.on
    <2>1. ~hist'.safe /\ hist'.doubt = Page /\ op'.kind = "format" /\ ~mem'.on
      BY <1>2, <1>3, <1>4, <1>5, <1>6, <1>17 DEF Places
    <2>2. Device'
      <3>1. op.rounds = 1 => Kept({})'
        BY <1>1, <1>3, <1>8, <1>17 DEF Device
      <3> QED BY <1>1, <1>3, <1>4, <1>5, <2>1, <3>1 DEF Device
    <2> QED BY <1>10, <1>12, <1>13, <1>14, <1>15, <2>1, <2>2, UnsafeNext
  <1> QED BY <1>16, <1>17

\* The parity of the generations goes with the ToC.
LEMMA NextGen ==
  ASSUME NEW s \in Slot, NEW g \in Nat, OwnGen(s, g)
  PROVE  OwnGen(Other(s), g + 1)
  BY DEF OwnGen, Other, Slot

\* What is in the footer once the last page of a commit is written.
LEMMA NewFooter ==
  ASSUME SpifsAssumption, IInv, AtToc, mem' = mem, op.k = TocPages,
         toc'[Target][op.k] = TocPage(mem.gen + 1, mem.files, op.k)
  PROVE  /\ Footer(Target)' # LostPage
         /\ Footer(Target)'.sum = <<mem.gen + 1, mem.files>> /\ FooterOK(Target)'
  <1>1. /\ mem.pos \in Slot /\ mem.gen \in Nat /\ OwnGen(mem.pos, mem.gen)
    BY WorkToc
  <1>2. ListOK(mem.files) /\ mem.files \in SUBSET File /\ mem.gen + 1 \in Nat
    BY <1>1 DEF IInv, Lists, ListOK
  <1>3. OwnGen(Target, mem.gen + 1)
    BY <1>1, NextGen DEF Target
  <1>4. Footer(Target)' = TocPage(mem.gen + 1, mem.files, TocPages)
    BY DEF Footer, Target
  <1>5. /\ TocPage(mem.gen + 1, mem.files, TocPages) # LostPage
        /\ TocPage(mem.gen + 1, mem.files, TocPages).sum = <<mem.gen + 1, mem.files>>
    BY <1>2, TocPageFacts
  <1>6. Target' = Target
    BY DEF Target
  <1>7. PICK u : u = Footer(Target)'
    OBVIOUS
  <1>8. /\ u.sum = <<mem.gen + 1, mem.files>> /\ u.sum \in Nat \X SUBSET File
        /\ u.sum[1] = mem.gen + 1 /\ u.sum[2] = mem.files
    <2>1. u.sum = <<mem.gen + 1, mem.files>>
      BY ONLY <1>4, <1>5, <1>7
    <2> QED BY ONLY <1>2, <2>1
  <1>9. FooterOK(Target)'
    BY <1>2, <1>3, <1>6, <1>7, <1>8 DEF FooterOK
  <1> QED BY <1>4, <1>5, <1>9

\* The ToC page that is written is one of the list in memory.
LEMMA ProgramToc ==
  ASSUME SpifsAssumption, IInv, ProgramPage, AtToc, ~AtData
  PROVE  IInv'
  <1>1. Types /\ Lists /\ Calls /\ Written /\ Device /\ NewestInMemory /\ Handles
    BY DEF IInv
  <1>2. Places /\ DueExact /\ DataExact
    BY DEF IInv
  <1>3. /\ ~Idle /\ op.todo = <<>> /\ op.k \in 1 .. TocPages
        /\ mem.pos \in Slot /\ Target \in Slot /\ Target # mem.pos
        /\ ~mem.on => op.kind = "format" /\ ~hist.safe
        /\ mem.on => op.kind # "format"
    BY WorkToc
  <1>4. /\ op' \in OpType /\ op' = [op EXCEPT !.k = @ + 1, !.torn = FALSE] /\ op.torn
        /\ mem' = mem /\ dirs' = dirs /\ count' = count /\ hist' = hist
    BY <1>1, ProgramFacts
  <1>5. Programmed
    BY DEF ProgramPage
  <1>6. /\ cell' = cell
        /\ toc' \in [Slot -> [1 .. TocPages -> TocPageType]]
        /\ toc'[Target][op.k] = TocPage(mem.gen + 1, mem.files, op.k)
        /\ toc'[mem.pos] = toc[mem.pos]
        /\ \A j \in 1 .. TocPages : j # op.k => toc'[Target][j] = toc[Target][j]
    BY <1>1, <1>5, ProgrammedFacts
  <1>7. /\ op'.kind = op.kind /\ op'.pages = op.pages /\ op'.file = op.file
        /\ op'.todo = op.todo /\ op'.dirty = op.dirty /\ op'.k = op.k + 1
        /\ op'.rounds = op.rounds
    BY <1>1, <1>4 DEF Types, OpType
  <1>8. ~op'.torn
    BY <1>1, <1>4 DEF Types, OpType
  <1>9. /\ Target' = Target
        /\ \A fs : Kept(fs)' <=> Kept(fs)
        /\ FooterOK(mem.pos)'
        /\ op.k # TocPages =>
             /\ Footer(Target)' = Footer(Target) /\ FooterOK(Target)'
             /\ Remnants(mem.gen)' = Remnants(mem.gen)
    BY <1>4, <1>6, TocWrite
  <1>10. op.k = TocPages =>
           /\ Footer(Target)' # LostPage /\ FooterOK(Target)'
           /\ Footer(Target)'.sum = <<mem.gen + 1, mem.files>>
    BY <1>4, <1>6, NewFooter
  <1>11. Types'
    BY <1>1, <1>4, <1>6 DEF Types
  <1>12. \A s \in Slot : FooterOK(s)'
    <2>1. \A s \in Slot : s = mem'.pos \/ s = Target'
      BY <1>3, <1>4, <1>9, SlotFacts DEF Target
    <2> QED BY <1>9, <1>10, <2>1 DEF FooterOK, Footer
  <1>13. Lists'
    BY <1>1, <1>4, <1>7, <1>12 DEF Lists
  <1>14. Calls'
    BY <1>1, <1>3, <1>4, <1>7, <1>8 DEF Calls, Idle
  <1>15. Written'
    <2>1. ASSUME NEW j \in 1 .. (op'.k - 1)
          PROVE  toc'[Target][j] = TocPage(mem.gen + 1, mem.files, j)
      <3>1. j \in 1 .. TocPages /\ (j = op.k \/ j \in 1 .. (op.k - 1))
        BY <1>3, <1>7, <2>1
      <3>2. CASE j = op.k
        BY <1>6, <3>2
      <3>3. CASE j \in 1 .. (op.k - 1)
        <4>1. j # op.k
          BY <1>3, <3>3
        <4> QED BY <1>1, <1>6, <3>1, <3>3, <4>1 DEF Written
      <3> QED BY <3>1, <3>2, <3>3
    <2> QED BY <1>4, <1>9, <2>1 DEF Written
  <1>16. DueExact'
    BY <1>2, <1>4, <1>6, <1>7 DEF DueExact, Due, Sure
  <1>17. CASE mem.on
    <2>1. Kept(hist.committed)'
      BY <1>1, <1>4, <1>9, <1>17 DEF Device
    <2>2. Behind'
      <3>1. CASE op.k = TocPages
        <4>1. mem.files \in hist.attempts
          BY <1>1, <1>4, <1>17 DEF Device
        <4> QED BY <1>4, <1>10, <3>1, <4>1 DEF Behind
      <3>2. CASE op.k # TocPages
        BY <1>1, <1>4, <1>9, <1>17, <3>2 DEF Device, Behind
      <3> QED BY <3>1, <3>2
    <2>3. Device'
      BY <1>1, <1>3, <1>4, <1>7, <1>8, <1>17, <2>1, <2>2 DEF Device
    <2>4. NewestInMemory'
      BY <1>3, <1>7 DEF NewestInMemory
    <2>5. Handles'
      BY <1>1, <1>4, <1>7, HandlesSame
    <2>6. Places'
      <3>1. Moving' = Moving
        BY <1>3, <1>7 DEF Moving
      <3>2. op'.k <= TocPages => op.k # TocPages /\ op.k <= TocPages
        BY <1>3, <1>7
      <3>3. ~(op'.kind = "create" /\ op'.k = 0)
        BY <1>3, <1>7
      <3> QED BY <1>2, <1>4, <1>9, <1>17, <3>1, <3>2, <3>3 DEF Places
    <2>7. DataExact'
      BY <1>2, <1>4, <1>6, <1>7 DEF DataExact
    <2> QED BY <1>4, <1>11, <1>13, <1>14, <1>15, <1>16, <1>17, <2>3, <2>4, <2>5, <2>6, <2>7,
               CoreNext DEF Core
  <1>18. CASE ~mem.on
    <2>1. ~hist'.safe /\ hist'.doubt = Page /\ op'.kind = "format" /\ ~mem'.on
      BY <1>2, <1>3, <1>4, <1>7, <1>18 DEF Places
    <2>2. Device'
      <3>1. op.rounds = 1 => Kept({})'
        BY <1>1, <1>3, <1>9, <1>18 DEF Device
      <3> QED BY <1>1, <1>3, <1>4, <1>7, <2>1, <3>1 DEF Device
    <2> QED BY <1>11, <1>13, <1>14, <1>15, <1>16, <2>1, <2>2, UnsafeNext
  <1> QED BY <1>17, <1>18

-----------------------------------------------------------------------------
(* The ends of a call keep the invariant                                   *)

\* No call is under way.
LEMMA RestNext ==
  ASSUME op' = NoOp
  PROVE  /\ DueExact' /\ Written' /\ Moving' = {} /\ Idle' /\ ~op'.torn
         /\ op'.kind = "none" /\ op'.pages = {} /\ op'.file = {} /\ op'.todo = <<>>
         /\ op'.dirty = FALSE /\ op'.k = 0 /\ op'.rounds = 0
  <1>1. /\ op'.kind = "none" /\ op'.pages = {} /\ op'.file = {} /\ op'.todo = <<>>
        /\ op'.dirty = FALSE /\ op'.k = 0 /\ op'.rounds = 0
    BY DEF NoOp
  <1>2. ~op'.torn
    BY DEF NoOp
  <1>3. Due' = {} /\ Moving' = {} /\ Idle'
    BY <1>1 DEF Due, Moving, Idle
  <1>4. Len(op'.todo) = 0
    BY <1>1
  <1>5. DueExact'
    BY <1>1, <1>3, <1>4 DEF DueExact
  <1>6. Written'
    BY <1>1 DEF Written
  <1> QED BY <1>1, <1>2, <1>3, <1>5, <1>6

\* How far the call is when its data is written and its commit not begun.
LEMMA DataWritten ==
  ASSUME SpifsAssumption, IInv, ~Idle, op.todo = <<>>, op.k = 0
  PROVE  /\ mem.on /\ op.kind \in {"create", "write"} /\ ~op.torn
         /\ \A p \in Due : Sure(p) => cell[p] = hist.want[p]
  <1>1. Types /\ Calls /\ DueExact
    BY DEF IInv
  <1>2. mem.on
    BY <1>1 DEF Calls, Idle, Types, MemType
  <1>3. op.kind \in {"create", "write"}
    BY <1>1, <1>2 DEF Calls, Idle, Types, OpType, Kinds
  <1>4. ~op.torn
    BY <1>1 DEF Calls, AtData, AtToc
  <1>5. Len(op.todo) = 0
    OBVIOUS
  <1>6. \A p \in Due : Sure(p) => cell[p] = hist.want[p]
    BY <1>1, <1>5 DEF DueExact
  <1> QED BY <1>2, <1>3, <1>4, <1>6

\* A list that has one more file finds the others where they were.
LEMMA FindMore ==
  ASSUME SpifsAssumption, ListOK(mem.files), ListOK(mem'.files),
         NEW n \in NamesOf(mem.files), find_file(n) \in mem'.files
  PROVE  find_file(n)' = find_file(n) /\ n \in NamesOf(mem'.files)
  <1>1. find_file(n) \in mem.files /\ find_file(n).name = n
    BY FindFile
  <1>2. \A f \in mem'.files : f.name = n => f = find_file(n)
    BY <1>1 DEF ListOK
  <1>3. PICK g : g = find_file(n)
    OBVIOUS
  <1>4. g \in mem'.files /\ g.name = n /\ \A f \in mem'.files : f.name = n => f = g
    BY <1>1, <1>2, <1>3
  <1>5. find_file(n)' = (CHOOSE f \in mem'.files : f.name = n)
    BY DEF find_file
  <1>6. find_file(n)' = g
    BY ONLY <1>4, <1>5
  <1> QED BY <1>3, <1>4, <1>6 DEF NamesOf

\* The directory handles stay right when none of the files they are at or have
\* to list has gone.
LEMMA HandlesKept ==
  ASSUME SpifsAssumption, Handles, ListOK(mem.files), ListOK(mem'.files), dirs' = dirs,
         \A d \in Dirs, n \in NamesOf(mem.files) :
           dirs[d].open /\ n \in dirs[d].due \cup {dirs[d].next} =>
             find_file(n) \in mem'.files,
         op'.kind = "create" => op.kind = "create" /\ op'.file = op.file
  PROVE  Handles'
  <1>1. ASSUME NEW d \in Dirs, dirs[d].open
        PROVE  /\ IF dirs[d].next = End THEN dirs[d].due = {}
                  ELSE /\ dirs[d].next \in NamesOf(mem'.files)
                       /\ \A n \in dirs[d].due :
                            (find_file(n)').at >= (find_file(dirs[d].next)').at
               /\ dirs[d].due \subseteq NamesOf(mem'.files)
               /\ op'.kind = "create" =>
                    (dirs[d].due \cup {dirs[d].next}) \cap NamesOf(op'.file) = {}
    <2>1. /\ IF dirs[d].next = End THEN dirs[d].due = {}
             ELSE /\ dirs[d].next \in NamesOf(mem.files)
                  /\ \A n \in dirs[d].due : find_file(n).at >= find_file(dirs[d].next).at
          /\ dirs[d].due \subseteq NamesOf(mem.files)
          /\ op.kind = "create" => (dirs[d].due \cup {dirs[d].next}) \cap NamesOf(op.file) = {}
      BY <1>1 DEF Handles, DirScan
    <2>2. \A n \in NamesOf(mem.files) : n \in dirs[d].due \cup {dirs[d].next} =>
            find_file(n)' = find_file(n) /\ n \in NamesOf(mem'.files)
      BY <1>1, FindMore
    <2>3. dirs[d].due \subseteq NamesOf(mem'.files)
      BY <2>1, <2>2
    <2>4. CASE dirs[d].next = End
      BY <2>1, <2>3, <2>4
    <2>5. CASE dirs[d].next # End
      <3>1. PICK e : e = dirs[d].next
        OBVIOUS
      <3>2. /\ e \in NamesOf(mem.files) /\ e \in NamesOf(mem'.files)
            /\ find_file(e)' = find_file(e)
        BY <2>1, <2>2, <2>5, <3>1
      <3>3. find_file(dirs[d].next)' = find_file(e)'
        BY <3>1 DEF find_file
      <3>4. ASSUME NEW n \in dirs[d].due
            PROVE  (find_file(n)').at >= (find_file(dirs[d].next)').at
        <4>1. find_file(n).at >= find_file(e).at /\ n \in NamesOf(mem.files)
          BY <2>1, <2>5, <3>1, <3>4
        <4>2. find_file(n)' = find_file(n)
          BY <2>2, <3>4, <4>1
        <4> QED BY <3>2, <3>3, <4>1, <4>2
      <3> QED BY <2>1, <2>3, <2>5, <3>1, <3>2, <3>4
    <2> QED BY <2>4, <2>5
  <1>3. DirScan'
    BY <1>1 DEF DirScan, find_file
  <1> QED BY <1>1, <1>3 DEF Handles

\* The data is written, and the list has to be: spifs_create adds its file.
LEMMA DataDoneDirty ==
  ASSUME SpifsAssumption, IInv, DataDone, op.dirty
  PROVE  IInv'
  <1>1. Types /\ Lists /\ Calls /\ Written /\ Device /\ NewestInMemory /\ Handles
    BY DEF IInv
  <1>2. Places /\ DueExact /\ DataExact
    BY DEF IInv
  <1>3. /\ ~Idle /\ op.todo = <<>> /\ op.k = 0 /\ op' = [op EXCEPT !.k = 1]
        /\ mem' = [mem EXCEPT !.files = @ \cup IF op.kind = "create" THEN op.file ELSE {}]
        /\ toc' = toc /\ cell' = cell /\ dirs' = dirs /\ hist' = hist /\ count' = count
    BY DEF DataDone
  <1>4. /\ mem.on /\ op.kind \in {"create", "write"} /\ ~op.torn
        /\ \A p \in Due : Sure(p) => cell[p] = hist.want[p]
    BY <1>3, DataWritten
  <1>5. /\ op'.kind = op.kind /\ op'.pages = op.pages /\ op'.file = op.file
        /\ op'.todo = <<>> /\ op'.dirty = op.dirty /\ op'.k = 1
        /\ op'.rounds = op.rounds /\ op'.torn = op.torn
    BY <1>1, <1>3 DEF Types, OpType
  <1>6. /\ mem'.on = mem.on /\ mem'.own = mem.own /\ mem'.gen = mem.gen /\ mem'.pos = mem.pos
        /\ op.kind = "create" => mem'.files = mem.files \cup op.file
        /\ op.kind # "create" => mem'.files = mem.files
    BY <1>1, <1>3 DEF Types, MemType
  <1>7. ListOK(mem'.files) /\ (op.kind = "create" => ListOK(mem'.files \cup op'.file))
    <2>1. op.kind = "create" => (mem.files \cup op.file) \cup op.file = mem.files \cup op.file
      OBVIOUS
    <2> QED BY <1>1, <1>5, <1>6, <2>1 DEF Lists
  <1>8. Types'
    <2>1. mem'.files \in SUBSET File
      BY <1>7 DEF ListOK
    <2>2. mem' \in MemType
      BY <1>1, <1>3, <1>6, <2>1 DEF Types, MemType
    <2>3. op \in OpType /\ 1 \in 0 .. (TocPages + 1)
      BY <1>1, ConstFacts DEF Types
    <2>4. op' \in OpType
      BY <1>3, <2>3 DEF OpType
    <2> QED BY <1>1, <1>3, <2>2, <2>4 DEF Types
  <1>9. Lists'
    BY <1>1, <1>3, <1>4, <1>5, <1>7, TocSame DEF Lists
  <1>10. Calls'
    BY <1>1, <1>3, <1>4, <1>5, <1>6 DEF Calls, Idle
  <1>11. Written'
    BY <1>5 DEF Written
  <1>12. Target' = Target
    BY <1>6 DEF Target
  <1>13. Device'
    <2>1. Behind' /\ Kept(hist.committed)'
      BY <1>1, <1>3, <1>4, <1>6, <1>12
         DEF Device, Kept, Behind, Footer, Good, GenOf, FilesOf
    <2> QED BY <1>1, <1>3, <1>4, <1>5, <1>6, <2>1, SMTT(40) DEF Device
  <1>14. NewestInMemory'
    BY <1>5 DEF NewestInMemory
  <1>15. Handles'
    <2>1. mem.files \subseteq mem'.files
      BY <1>6
    <2>2. ListOK(mem.files)
      BY <1>1 DEF Lists
    <2>3. \A n \in NamesOf(mem.files) : find_file(n) \in mem'.files
      BY <2>1, <2>2, FindFile
    <2> QED BY <1>1, <1>3, <1>5, <1>7, <2>2, <2>3, HandlesKept
  <1>16. Places'
    <2>1. SamePlaces(mem.files, hist.committed, hist.doubt \cup Moving) /\ Moving = {}
      BY <1>2, <1>3, <1>4 DEF Places, Moving
    <2>2. op.kind = "create" =>
            Moving' = DataPages(op.file)
            /\ DataPages(mem'.files) = DataPages(mem.files) \cup DataPages(op.file)
      BY <1>5, <1>6 DEF Moving, DataPages
    <2>3. SamePlaces(mem.files, hist.committed, hist.doubt \cup Moving)'
      BY <1>3, <1>4, <1>6, <2>1, <2>2 DEF SamePlaces
    <2>4. Remnants(mem.gen)' = Remnants(mem.gen)
      BY <1>3, <1>6 DEF Remnants
    <2>5. op.k <= TocPages
      BY <1>3, ConstFacts
    <2> QED BY <1>2, <1>3, <1>4, <1>5, <1>6, <2>3, <2>4, <2>5 DEF Places
  <1>17. DueExact'
    <2>1. Due' = Due /\ \A p : Sure(p)' <=> Sure(p)
      BY <1>3, <1>5 DEF Due, Sure
    <2>2. Len(op'.todo) = 0
      BY <1>5
    <2>3. op'.kind = "write" => op'.pages \subseteq DataPages(mem'.files)
      BY <1>2, <1>5, <1>6 DEF DueExact
    <2>4. \A p \in Due : Sure(p) => cell'[p] = hist'.want[p]
      BY <1>3, <1>4
    <2>5. \A p \in Due' : Sure(p)' => cell'[p] = hist'.want[p]
      BY <2>1, <2>4
    <2> QED BY <2>2, <2>3, <2>5 DEF DueExact
  <1>18. DataExact'
    <2>1. CASE op.kind # "create"
      BY <1>2, <1>3, <1>4, <1>5, <1>6, <2>1 DEF DataExact
    <2>2. CASE op.kind = "create"
      <3>1. DataPages(mem'.files) = DataPages(mem.files) \cup DataPages(op.file)
        BY <1>6, <2>2 DEF DataPages
      <3>2. \A p \in DataPages(op.file) : cell[p] = hist.want[p]
        BY <1>4, <2>2 DEF Due, Sure
      <3> QED BY <1>2, <1>3, <1>4, <1>5, <3>1, <3>2 DEF DataExact
    <2> QED BY <2>1, <2>2
  <1> QED BY <1>4, <1>6, <1>8, <1>9, <1>10, <1>11, <1>13, <1>14, <1>15, <1>16, <1>17, <1>18,
             CoreNext DEF Core

\* The data is written and the list is as it was.
LEMMA DataDoneClean ==
  ASSUME SpifsAssumption, IInv, DataDone, ~op.dirty
  PROVE  IInv'
  <1>1. Types /\ Lists /\ Calls /\ Written /\ Device /\ NewestInMemory /\ Handles
    BY DEF IInv
  <1>2. Places /\ DueExact /\ DataExact
    BY DEF IInv
  <1>3. /\ ~Idle /\ op.todo = <<>> /\ op.k = 0 /\ op' = NoOp /\ mem' = mem
        /\ toc' = toc /\ cell' = cell /\ dirs' = dirs /\ hist' = hist /\ count' = count
    BY DEF DataDone
  <1>4. /\ mem.on /\ op.kind \in {"create", "write"} /\ ~op.torn
        /\ \A p \in Due : Sure(p) => cell[p] = hist.want[p]
    BY <1>3, DataWritten
  <1>5. op.kind = "write"
    BY <1>1, <1>4 DEF Calls
  <1>6. /\ DueExact' /\ Written' /\ Moving' = {} /\ Idle' /\ ~op'.torn
        /\ op'.kind = "none" /\ op'.pages = {} /\ op'.file = {} /\ op'.todo = <<>>
        /\ op'.dirty = FALSE /\ op'.k = 0 /\ op'.rounds = 0
    BY <1>3, RestNext
  <1>7. Types'
    BY <1>1, <1>3, RestFacts DEF Types
  <1>8. Lists'
    BY <1>1, <1>3, <1>6, TocSame DEF Lists
  <1>9. Calls'
    BY <1>1, <1>3, <1>4, <1>6 DEF Calls
  <1>10. Target' = Target
    BY <1>3 DEF Target
  <1>11. Device'
    <2>1. Behind' /\ Kept(hist.committed)'
      BY <1>1, <1>3, <1>4, <1>10 DEF Device, Kept, Behind, Footer, Good, GenOf, FilesOf
    <2> QED BY <1>1, <1>3, <1>4, <1>6, <2>1, SMTT(40) DEF Device
  <1>12. NewestInMemory'
    BY <1>1, <1>3, <1>10 DEF NewestInMemory, Good, GenOf
  <1>13. Handles'
    BY <1>1, <1>3, <1>6, HandlesSame
  <1>14. Places'
    <2>1. Moving = {}
      BY <1>5 DEF Moving
    <2>2. Remnants(mem.gen)' = Remnants(mem.gen)
      BY <1>3 DEF Remnants
    <2>3. op.k <= TocPages
      BY <1>3, ConstFacts
    <2> QED BY <1>2, <1>3, <1>4, <1>6, <2>1, <2>2, <2>3 DEF Places
  <1>15. DataExact'
    <2>1. \A p \in op.pages : p \notin hist.doubt => cell[p] = hist.want[p]
      BY <1>4 DEF Due, Sure
    <2> QED BY <1>2, <1>3, <1>6, <2>1 DEF DataExact
  <1> QED BY <1>3, <1>4, <1>6, <1>7, <1>8, <1>9, <1>11, <1>12, <1>13, <1>14, <1>15,
             CoreNext DEF Core

\* What a commit that went through leaves in memory.
LEMMA CommittedFacts ==
  ASSUME mem \in MemType, NEW m, m = CommittedMem(mem)
  PROVE  /\ m \in MemType /\ m.on = mem.on /\ m.own = mem.own /\ m.files = mem.files
         /\ m.gen = mem.gen + 1 /\ m.pos = Target
  <1>1. mem.gen + 1 \in Nat /\ Other(mem.pos) \in Slot
    BY SlotFacts DEF MemType
  <1>2. m = [mem EXCEPT !.gen = mem.gen + 1, !.pos = Other(mem.pos)]
    BY DEF CommittedMem, MemType
  <1> QED BY ONLY <1>1, <1>2, mem \in MemType DEF MemType, Target

\* A commit is at its end: the ToC it wrote is good.
LEMMA CommitWork ==
  ASSUME SpifsAssumption, IInv, op.k = TocPages + 1
  PROVE  /\ ~Idle /\ op.todo = <<>> /\ op.k > 0 /\ op.kind \in Kinds \ {"none"}
         /\ mem.pos \in Slot /\ mem.gen \in Nat /\ OwnGen(mem.pos, mem.gen)
         /\ Target \in Slot /\ OwnGen(Target, mem.gen + 1)
         /\ Good(Target) /\ GenOf(Target) = mem.gen + 1 /\ FilesOf(Target) = mem.files
         /\ Footer(Target).sum[1] = mem.gen + 1
         /\ mem.on => op.kind # "format" /\ op.rounds = 1
         /\ ~mem.on => op.kind = "format" /\ op.rounds \in {1, 2}
  <1>1. Types /\ Lists /\ Calls /\ Written /\ Device
    BY DEF IInv
  <1>2. op.k > 0 /\ op.k # 0
    BY ConstFacts
  <1>3. ~Idle
    BY <1>1, <1>2 DEF Calls, NoOp
  <1>4. op.todo = <<>> /\ op.kind \in Kinds \ {"none"}
    BY <1>1, <1>2, <1>3 DEF Calls, Idle, Types, OpType
  <1>5. mem.pos \in Slot /\ mem.gen \in Nat /\ OwnGen(mem.pos, mem.gen)
    BY <1>1, <1>3 DEF Types, MemType, Device
  <1>6. Target \in Slot /\ OwnGen(Target, mem.gen + 1)
    BY <1>5, SlotFacts, NextGen DEF Target
  <1>7. Good(Target) /\ GenOf(Target) = mem.gen + 1 /\ FilesOf(Target) = mem.files
    BY <1>1, AllWritten
  <1>8. Footer(Target).sum[1] = mem.gen + 1
    BY <1>1, <1>6, <1>7, GoodFacts DEF Lists
  <1>9. mem.on => op.kind # "format" /\ op.rounds = 1
    BY <1>1, <1>4 DEF Calls, Kinds
  <1>10. ~mem.on => op.kind = "format" /\ op.rounds \in {1, 2}
    BY <1>1, <1>3 DEF Calls, Idle, Types, OpType
  <1> QED BY <1>2, <1>3, <1>4, <1>5, <1>6, <1>7, <1>8, <1>9, <1>10

\* The commit of a mounted file system: what it wrote is kept from now on.
LEMMA CommitMounted ==
  ASSUME SpifsAssumption, IInv, CommitDone, mem.on
  PROVE  IInv'
  <1>1. Types /\ Lists /\ Calls /\ Written /\ Device /\ NewestInMemory /\ Handles
    BY DEF IInv
  <1>2. Places /\ DueExact /\ DataExact
    BY DEF IInv
  <1>3. op.k = TocPages + 1
    BY DEF CommitDone
  <1>4. /\ ~Idle /\ op.todo = <<>> /\ op.k > 0 /\ op.kind \in Kinds \ {"none"}
        /\ mem.pos \in Slot /\ mem.gen \in Nat /\ OwnGen(mem.pos, mem.gen)
        /\ Target \in Slot /\ OwnGen(Target, mem.gen + 1)
        /\ Good(Target) /\ GenOf(Target) = mem.gen + 1 /\ FilesOf(Target) = mem.files
        /\ Footer(Target).sum[1] = mem.gen + 1
        /\ op.kind # "format" /\ op.rounds = 1
    BY <1>3, CommitWork
  <1>5. /\ mem' = CommittedMem(mem) /\ op' = NoOp
        /\ hist' = [hist EXCEPT !.committed = mem.files, !.attempts = {},
                                !.safe = TRUE, !.failed = FALSE,
                                !.doubt = IF op.kind = "create"
                                          THEN @ \ DataPages(op.file) ELSE @]
        /\ toc' = toc /\ cell' = cell /\ dirs' = dirs /\ count' = count
    BY <1>4 DEF CommitDone
  <1>6. /\ mem'.on = mem.on /\ mem'.own = mem.own /\ mem'.files = mem.files
        /\ mem'.gen = mem.gen + 1 /\ mem'.pos = Target
    BY <1>1, <1>5, CommittedFacts DEF Types
  <1>7. /\ hist'.committed = mem.files /\ hist'.attempts = {} /\ hist'.want = hist.want
        /\ op.kind = "create" => hist'.doubt = hist.doubt \ DataPages(op.file)
        /\ op.kind # "create" => hist'.doubt = hist.doubt
    BY <1>1, <1>5 DEF Types, HistType
  <1>8. hist'.safe /\ ~hist'.failed
    BY <1>1, <1>5 DEF Types, HistType
  <1>9. /\ DueExact' /\ Written' /\ Moving' = {} /\ Idle' /\ ~op'.torn
        /\ op'.kind = "none" /\ op'.pages = {} /\ op'.file = {} /\ op'.todo = <<>>
        /\ op'.dirty = FALSE /\ op'.k = 0 /\ op'.rounds = 0
    BY <1>5, RestNext
  <1>10. Types'
    <2>1. mem' \in MemType
      BY <1>1, <1>5, CommittedFacts DEF Types
    <2>2. hist \in HistType /\ mem.files \in SUBSET File
      BY <1>1 DEF Types, MemType
    <2>3. hist.doubt \in SUBSET Page /\ hist.doubt \ DataPages(op.file) \in SUBSET Page
      BY <2>2 DEF HistType
    <2>4. hist' \in HistType
      BY <1>5, <2>2, <2>3 DEF HistType
    <2> QED BY <1>1, <1>5, <2>1, <2>4, RestFacts DEF Types
  <1>11. Lists'
    BY <1>1, <1>5, <1>6, <1>9, TocSame DEF Lists
  <1>12. Calls'
    BY <1>1, <1>5, <1>6, <1>9 DEF Calls
  <1>13. Target' = mem.pos
    BY <1>4, <1>6, SlotFacts DEF Target
  <1>14. Good(mem.pos) /\ GenOf(mem.pos) = mem.gen /\ Footer(mem.pos).sum[1] = mem.gen
    <2>1. Good(mem.pos) /\ GenOf(mem.pos) = mem.gen
      BY <1>1 DEF Device, Kept
    <2> QED BY <1>1, <1>4, <2>1, GoodFacts DEF Lists
  <1>15. Device'
    <2>1. Kept(hist.committed)'
      <3>1. Good(Target) /\ GenOf(Target) = mem.gen + 1 /\ FilesOf(Target) = mem.files
        BY <1>4
      <3>2. /\ toc' = toc /\ mem'.pos = Target /\ mem'.gen = mem.gen + 1
            /\ hist'.committed = mem.files
        BY <1>5, <1>6, <1>7
      <3> QED BY ONLY <3>1, <3>2 DEF Kept, Good, GenOf, FilesOf
    <2>2. Behind'
      <3>1. Footer(Target)' = Footer(mem.pos)
        BY <1>5, <1>13 DEF Footer
      <3> QED BY <1>4, <1>6, <1>14, <3>1 DEF Behind
    <2>3. OwnGen(mem.pos, mem.gen)'
      BY <1>4, <1>6 DEF OwnGen
    <2> QED BY <1>8, <1>9, <2>1, <2>2, <2>3 DEF Device
  <1>16. NewestInMemory'
    <2>1. GenOf(Target)' = mem.gen
      BY <1>5, <1>13, <1>14 DEF GenOf
    <2>2. ~(GenOf(Target)' > mem'.gen)
      BY <1>4, <1>6, <2>1
    <2> QED BY <1>6, <1>7, <2>2 DEF NewestInMemory
  <1>17. Handles'
    BY <1>1, <1>5, <1>6, <1>9, HandlesSame
  <1>18. Places'
    <2>1. SamePlaces(mem.files, hist.committed, hist.doubt \cup Moving)'
      BY <1>6, <1>7 DEF SamePlaces
    <2>2. Remnants(mem.gen)' = {}
      <3>1. \A s \in Slot : s = mem.pos \/ s = Target
        BY <1>4, SlotFacts DEF Target
      <3>2. \A s \in Slot : ~(toc[s][TocPages].sum[1] > mem.gen + 1)
        BY <1>4, <1>14, <3>1 DEF Footer
      <3> QED BY <1>5, <1>6, <3>2 DEF Remnants
    <2> QED BY <1>6, <1>8, <1>9, <2>1, <2>2 DEF Places
  <1>19. DataExact'
    <2>0. Len(op.todo) = 0
      BY <1>4
    <2>1. \A p \in Due : Sure(p) => cell[p] = hist.want[p]
      BY <1>2, <2>0 DEF DueExact
    <2>2. ASSUME NEW p \in DataPages(mem.files), p \notin hist'.doubt
          PROVE  cell[p] = hist.want[p]
      <3>1. CASE op.kind = "create" /\ p \in DataPages(op.file)
        BY <2>1, <3>1 DEF Due, Sure
      <3>2. CASE ~(op.kind = "create" /\ p \in DataPages(op.file))
        <4>1. p \notin hist.doubt
          BY <1>7, <2>2, <3>2
        <4>2. CASE p \in op.pages
          BY <2>1, <4>1, <4>2 DEF Due, Sure
        <4>3. CASE p \notin op.pages
          BY <1>2, <2>2, <4>1, <4>3 DEF DataExact
        <4> QED BY <4>2, <4>3
      <3> QED BY <3>1, <3>2
    <2> QED BY <1>5, <1>6, <1>7, <2>2 DEF DataExact
  <1> QED BY <1>6, <1>9, <1>10, <1>11, <1>12, <1>15, <1>16, <1>17, <1>18, <1>19,
             CoreNext DEF Core

\* spifs_format has written the first ToC and goes on to the other one.
LEMMA CommitFirst ==
  ASSUME SpifsAssumption, IInv, CommitDone, ~mem.on, op.rounds # 1
  PROVE  IInv'
  <1>1. Types /\ Lists /\ Calls /\ Device /\ Places /\ DueExact
    BY DEF IInv
  <1>2. op.k = TocPages + 1
    BY DEF CommitDone
  <1>3. /\ ~Idle /\ op.todo = <<>> /\ op.k > 0
        /\ mem.pos \in Slot /\ mem.gen \in Nat
        /\ Target \in Slot /\ OwnGen(Target, mem.gen + 1)
        /\ Good(Target) /\ GenOf(Target) = mem.gen + 1 /\ FilesOf(Target) = mem.files
        /\ op.kind = "format" /\ op.rounds = 2
    BY <1>2, CommitWork
  <1>4. /\ mem' = CommittedMem(mem) /\ op' = [op EXCEPT !.k = 1, !.rounds = @ - 1]
        /\ hist' = hist /\ toc' = toc /\ cell' = cell /\ dirs' = dirs /\ count' = count
    BY <1>3 DEF CommitDone
  <1>5. /\ mem'.on = mem.on /\ mem'.own = mem.own /\ mem'.files = mem.files
        /\ mem'.gen = mem.gen + 1 /\ mem'.pos = Target
    BY <1>1, <1>4, CommittedFacts DEF Types
  <1>6. /\ op'.kind = op.kind /\ op'.pages = op.pages /\ op'.file = op.file
        /\ op'.todo = op.todo /\ op'.dirty = op.dirty /\ op'.k = 1
        /\ op'.rounds = 1 /\ op'.torn = op.torn
    BY <1>1, <1>3, <1>4 DEF Types, OpType
  <1>7. Types'
    <2>1. mem' \in MemType
      BY <1>1, <1>4, CommittedFacts DEF Types
    <2>2. op \in OpType /\ 1 \in 0 .. (TocPages + 1) /\ op.rounds - 1 \in 0 .. 2
      BY <1>1, <1>3, ConstFacts DEF Types
    <2>3. op' \in OpType
      BY <1>4, <2>2 DEF OpType
    <2> QED BY <1>1, <1>4, <2>1, <2>3 DEF Types
  <1>8. Lists'
    BY <1>1, <1>3, <1>4, <1>5, <1>6, TocSame DEF Lists
  <1>9. ~op.torn
    BY <1>1, <1>2, <1>3, ConstFacts DEF Calls, AtData, AtToc
  <1>10. Calls'
    BY <1>1, <1>3, <1>4, <1>5, <1>6, <1>9 DEF Calls, Idle
  <1>11. Written'
    BY <1>6 DEF Written
  <1>12. Device'
    <2>1. mem.files = {} /\ ~hist.safe
      BY <1>1, <1>3 DEF Calls, Device
    <2>2. Kept({})'
      BY <1>3, <1>4, <1>5, <2>1, ZenonT(40) DEF Kept, Good, GenOf, FilesOf
    <2>3. OwnGen(mem.pos, mem.gen)'
      BY <1>3, <1>5 DEF OwnGen
    <2> QED BY <1>4, <1>5, <1>6, <2>1, <2>2, <2>3 DEF Device
  <1>13. DueExact'
    BY <1>1, <1>3, <1>4, <1>6 DEF DueExact, Due, Sure
  <1>14. ~hist'.safe /\ hist'.doubt = Page /\ ~mem'.on
    BY <1>1, <1>3, <1>4, <1>5 DEF Device, Places
  <1> QED BY <1>7, <1>8, <1>10, <1>11, <1>12, <1>13, <1>14, UnsafeNext

\* What any footer has is in pages of the device.
LEMMA RemnantPages ==
  ASSUME SpifsAssumption, Lists, NEW g, NEW fs \in Remnants(g)
  PROVE  DataPages(fs) \subseteq Page
  <1>1. PICK s \in Slot : Footer(s) # LostPage /\ fs = Footer(s).sum[2]
    BY RemnantFacts
  <1>2. ListOK(fs)
    BY <1>1 DEF Lists, FooterOK
  <1> QED BY <1>2, FilePages

\* Memory and call of a state in which nothing is mounted or under way.
LEMMA BareNext ==
  ASSUME SpifsAssumption, Lists, toc' = toc, mem' = Unmounted, op' = NoOp,
         \A d \in Dirs : ~dirs'[d].open
  PROVE  /\ Lists' /\ Calls' /\ Written' /\ Device' /\ NewestInMemory' /\ Handles'
         /\ DueExact' /\ DataExact' /\ ~mem'.on
  <1>1. /\ DueExact' /\ Written' /\ Moving' = {} /\ Idle' /\ ~op'.torn
        /\ op'.kind = "none" /\ op'.pages = {} /\ op'.file = {} /\ op'.todo = <<>>
        /\ op'.dirty = FALSE /\ op'.k = 0 /\ op'.rounds = 0
    BY RestNext
  <1>2. ~mem'.on /\ ~mem'.own
    BY DEF Unmounted
  <1>3. mem'.files = {}
    BY DEF Unmounted
  <1>4. ListOK({})
    BY ListSubset DEF Lists
  <1>5. Lists'
    BY <1>1, <1>3, <1>4, TocSame DEF Lists
  <1>6. Calls'
    BY <1>1, <1>2, <1>3 DEF Calls
  <1>7. Device' /\ NewestInMemory' /\ DataExact'
    BY <1>1, <1>2 DEF Device, NewestInMemory, DataExact
  <1>8. Handles'
    BY DEF Handles, DirScan
  <1> QED BY <1>1, <1>2, <1>5, <1>6, <1>7, <1>8

\* spifs_format has written both ToCs: a mount finds an empty file system.
LEMMA CommitLast ==
  ASSUME SpifsAssumption, IInv, CommitDone, ~mem.on, op.rounds = 1
  PROVE  IInv'
  <1>1. Types /\ Lists /\ Calls /\ Device /\ Places
    BY DEF IInv
  <1>2. op.k = TocPages + 1
    BY DEF CommitDone
  <1>3. /\ ~Idle /\ mem.pos \in Slot /\ mem.gen \in Nat /\ Target \in Slot
        /\ Good(Target) /\ FilesOf(Target) = mem.files /\ op.kind = "format"
    BY <1>2, CommitWork
  <1>4. /\ mem' = Unmounted /\ op' = NoOp
        /\ hist' = [hist EXCEPT !.committed = mem.files, !.attempts = {},
                                !.safe = TRUE, !.failed = FALSE, !.doubt = @]
        /\ toc' = toc /\ cell' = cell /\ dirs' = dirs /\ count' = count
    BY <1>3 DEF CommitDone
  <1>5. mem.files = {} /\ ~hist.safe /\ Kept({}) /\ \A d \in Dirs : ~dirs[d].open
    BY <1>1, <1>3 DEF Calls, Device
  <1>6. hist.doubt = Page
    BY <1>1, <1>5 DEF Places
  <1>7. hist'.committed = {} /\ hist'.doubt = Page
    BY <1>1, <1>4, <1>5, <1>6 DEF Types, HistType
  <1>8. hist'.safe
    BY <1>1, <1>4 DEF Types, HistType
  <1>9. /\ Lists' /\ Calls' /\ Written' /\ Device' /\ NewestInMemory' /\ Handles'
        /\ DueExact' /\ DataExact' /\ ~mem'.on
    BY <1>1, <1>4, <1>5, BareNext
  <1>10. Types'
    <2>1. hist \in HistType /\ mem.files \in SUBSET File
      BY <1>1 DEF Types, MemType
    <2>2. hist' \in HistType
      BY <1>4, <2>1 DEF HistType
    <2> QED BY <1>1, <1>4, <2>2, RestFacts DEF Types
  <1>11. GoodSlots # {} /\ Recovered = {}
    <2>1. mem.pos \in GoodSlots /\ FilesOf(mem.pos) = {} /\ FilesOf(Target) = {}
      BY <1>3, <1>5 DEF GoodSlots, Kept
    <2>2. Newest(GoodSlots) \in Slot
      BY <1>1, <2>1, NewestFacts DEF Lists
    <2>3. Newest(GoodSlots) = mem.pos \/ Newest(GoodSlots) = Target
      BY <1>3, <2>2, SlotFacts DEF Target
    <2> QED BY <2>1, <2>3 DEF Recovered
  <1>12. GoodSlots' # {} /\ Recovered' = {}
    BY <1>4, <1>11, TocSame
  <1>13. CrashAtomic'
    BY <1>7, <1>12 DEF CrashAtomic, consistency_check
  <1>14. DataIntact'
    BY <1>12 DEF DataIntact
  <1>15. Places'
    <2>1. \A fs \in Remnants(GenOf(Newest(GoodSlots)))' : DataPages(fs) \subseteq Page
      <3>1. \A fs \in Remnants(GenOf(Newest(GoodSlots))) : DataPages(fs) \subseteq Page
        BY <1>1, RemnantPages
      <3>2. Remnants(GenOf(Newest(GoodSlots)))' = Remnants(GenOf(Newest(GoodSlots)))
        BY <1>4, TocSame DEF Remnants
      <3> QED BY <3>1, <3>2
    <2> QED BY <1>7, <1>8, <1>9, <2>1 DEF Places
  <1> QED BY <1>9, <1>10, <1>13, <1>14, <1>15 DEF IInv

\* The file system goes away, with its last reference or with the power.
LEMMA UnmountNext ==
  ASSUME SpifsAssumption, IInv, mem.on, toc' = toc, cell' = cell,
         mem' = Unmounted, op' = NoOp, dirs' \in [Dirs -> DirType],
         \A d \in Dirs : ~dirs'[d].open, hist' \in HistType,
         hist'.committed = hist.committed, hist'.attempts = hist.attempts,
         hist'.want = hist.want, hist'.safe = hist.safe,
         hist'.doubt = hist.doubt \cup op.pages,
         count' \in [calls: 0 .. MaxCalls, faults: Nat, crashes: Nat]
  PROVE  IInv'
  <1>1. Types /\ Lists /\ Calls /\ Written /\ Device /\ Places /\ CrashAtomic /\ DataIntact
    BY DEF IInv
  <1>2. /\ Lists' /\ Calls' /\ Written' /\ Device' /\ NewestInMemory' /\ Handles'
        /\ DueExact' /\ DataExact' /\ ~mem'.on
    BY <1>1, BareNext
  <1>3. Types'
    BY <1>1, RestFacts DEF Types
  <1>4. /\ GoodSlots' = GoodSlots /\ Recovered' = Recovered
        /\ Remnants(GenOf(Newest(GoodSlots)))' = Remnants(GenOf(Newest(GoodSlots)))
    BY TocSame DEF Remnants
  <1>5. hist.safe
    BY <1>1 DEF Device
  <1>6. CrashAtomic'
    BY <1>1, <1>4 DEF CrashAtomic
  <1>7. op'.pages = {}
    BY RestNext
  <1>8. DataIntact'
    BY <1>1, <1>4, <1>5, <1>7 DEF DataIntact
  <1>9. Places'
    <2>1. \A fs \in Remnants(GenOf(Newest(GoodSlots))) :
              DataPages(fs) \subseteq DataPages(Recovered) \cup hist.doubt
      BY <1>1, MountedPlaces
    <2> QED BY <1>2, <1>4, <1>5, <2>1 DEF Places
  <1> QED BY <1>2, <1>3, <1>6, <1>8, <1>9 DEF IInv

\* Power is lost, while mounted or in spifs_format.
LEMMA CrashInv ==
  ASSUME SpifsAssumption, IInv, Crash
  PROVE  IInv'
  <1>1. Types /\ Lists /\ Calls /\ Device /\ Places
    BY DEF IInv
  <1>2. /\ dirs' = [d \in Dirs |-> NoDir] /\ toc' = toc /\ cell' = cell
        /\ hist' = [hist EXCEPT !.doubt = @ \cup op.pages]
        /\ count' = [count EXCEPT !["crashes"] = @ + 1]
    BY DEF Crash, Count
  <1>2a. /\ mem.on \/ ~Idle
         /\ mem' = Unmounted /\ op' = NoOp
    BY DEF Crash
  <1>3. /\ hist'.committed = hist.committed /\ hist'.attempts = hist.attempts
        /\ hist'.want = hist.want /\ hist'.safe = hist.safe
        /\ hist'.doubt = hist.doubt \cup op.pages
    BY <1>1, <1>2 DEF Types, HistType
  <1>4. hist' \in HistType
    <2>1. hist \in HistType /\ op.pages \in SUBSET Page
      BY <1>1 DEF Types, OpType
    <2>2. hist.doubt \cup op.pages \in SUBSET Page
      BY <2>1 DEF HistType
    <2> QED BY <1>2, <2>1, <2>2 DEF HistType
  <1>5. count' \in [calls: 0 .. MaxCalls, faults: Nat, crashes: Nat]
    BY <1>1, <1>2 DEF Types
  <1>6. dirs' \in [Dirs -> DirType] /\ \A d \in Dirs : ~dirs'[d].open
    <2>1. ~NoDir.open
      BY DEF NoDir
    <2> QED BY <1>2, <2>1, RestFacts
  <1>7. CASE mem.on
    BY <1>2, <1>2a, <1>3, <1>4, <1>5, <1>6, <1>7, UnmountNext
  <1>8. CASE ~mem.on
    <2>1. op.kind = "format"
      BY <1>1, <1>2a, <1>8 DEF Calls, Idle
    <2>2. ~hist.safe /\ hist.doubt = Page
      BY <1>1, <2>1 DEF Device, Places
    <2>3. op.pages = {}
      BY <1>1, <2>1 DEF Calls
    <2>4. ~hist'.safe /\ hist'.doubt = Page
      BY <1>3, <2>2, <2>3
    <2>5. /\ Lists' /\ Calls' /\ Written' /\ Device' /\ DueExact' /\ ~mem'.on
      BY <1>1, <1>2, <1>2a, <1>6, BareNext
    <2>6. Types'
      BY <1>1, <1>2, <1>2a, <1>4, <1>5, <1>6, RestFacts DEF Types
    <2> QED BY <2>4, <2>5, <2>6, UnsafeNext
  <1> QED BY <1>7, <1>8

\* What a failed request may have done to the device.
LEMMA FailDevice ==
  ASSUME SpifsAssumption, IInv, PageFails
  PROVE  /\ cell' \in [Page -> CellPage] /\ toc' \in [Slot -> [1 .. TocPages -> TocPageType]]
         /\ toc'[mem.pos] = toc[mem.pos]
         /\ \A p \in Page : p \notin Due => cell'[p] = cell[p]
         /\ \A s \in Slot : FooterOK(s)'
         /\ \A s \in Slot : \/ Footer(s)' = Footer(s)
                            \/ AtToc /\ s = Target /\ Footer(s)'.sum = <<mem.gen + 1, mem.files>>
  <1>1. Types /\ Lists /\ Calls /\ Device
    BY DEF IInv
  <1>2. mem.pos \in Slot
    BY <1>1 DEF Types, MemType
  <1>3. CASE UNCHANGED <<toc, cell>>
    <2>1. \A s \in Slot : FooterOK(s)' /\ Footer(s)' = Footer(s)
      BY <1>1, <1>3, TocSame DEF Lists, Footer
    <2> QED BY <1>1, <1>3, <2>1 DEF Types
  <1>4. CASE Programmed /\ AtData
    <2>1. ~AtToc
      BY <1>4 DEF AtData, AtToc
    <2>2. /\ toc' = toc /\ cell' \in [Page -> CellPage]
          /\ \A p \in Page : p # op.todo[1].page => cell'[p] = cell[p]
      BY <1>1, <1>4, <2>1, ProgrammedFacts
    <2>3. op.todo[1].page \in Due
      BY <1>4, WorkData
    <2>4. \A s \in Slot : FooterOK(s)' /\ Footer(s)' = Footer(s)
      BY <1>1, <2>2, TocSame DEF Lists, Footer
    <2> QED BY <1>1, <2>2, <2>3, <2>4 DEF Types
  <1>5. CASE Programmed /\ AtToc
    <2>1. ~AtData
      BY <1>5 DEF AtData, AtToc
    <2>2. /\ cell' = cell
          /\ toc' \in [Slot -> [1 .. TocPages -> TocPageType]]
          /\ toc'[Target][op.k] = TocPage(mem.gen + 1, mem.files, op.k)
          /\ toc'[mem.pos] = toc[mem.pos]
          /\ \A j \in 1 .. TocPages : j # op.k => toc'[Target][j] = toc[Target][j]
      BY <1>1, <1>5, <2>1, ProgrammedFacts
    <2>3. /\ mem.gen \in Nat /\ OwnGen(mem.pos, mem.gen) /\ op.k \in 1 .. TocPages
          /\ Target \in Slot /\ Target # mem.pos
      BY <1>5, WorkToc
    <2>4. PICK t \in Slot : t = Target
      BY <2>3
    <2>5. \A s \in Slot : s = mem.pos \/ s = t
      BY <1>2, <2>4, SlotFacts DEF Target
    <2>6. FooterOK(mem.pos) /\ FooterOK(t) /\ ListOK(mem.files)
      BY <1>1, <1>2, <2>4 DEF Lists
    <2>7. \A s \in Slot : s = mem.pos => FooterOK(s)' /\ Footer(s)' = Footer(s)
      BY <2>2, <2>6, SlotSame
    <2>8. CASE op.k # TocPages
      <3>1. toc'[t][TocPages] = toc[t][TocPages]
        BY <2>2, <2>4, <2>8, ConstFacts
      <3>2. FooterOK(t)' /\ Footer(t)' = Footer(t)
        BY <2>6, <3>1 DEF FooterOK, Footer
      <3> QED BY <1>1, <2>2, <2>5, <2>7, <3>2 DEF Types
    <2>9. CASE op.k = TocPages
      <3>1. mem.files \in SUBSET File /\ mem.gen + 1 \in Nat
        BY <2>3, <2>6 DEF ListOK
      <3>2. PICK u : u = Footer(t)'
        OBVIOUS
      <3>3. u = TocPage(mem.gen + 1, mem.files, TocPages)
        BY <2>2, <2>4, <2>9, <3>2 DEF Footer
      <3>4. u.sum = <<mem.gen + 1, mem.files>>
        BY <3>1, <3>3, TocPageFacts
      <3>5. u.sum \in Nat \X SUBSET File /\ u.sum[1] = mem.gen + 1 /\ u.sum[2] = mem.files
        BY ONLY <3>1, <3>4
      <3>6. OwnGen(t, mem.gen + 1)
        BY <1>2, <2>3, <2>4, NextGen DEF Target
      <3>7. FooterOK(t)'
        BY <2>6, <3>2, <3>5, <3>6 DEF FooterOK
      <3>8. AtToc /\ t = Target /\ Footer(t)'.sum = <<mem.gen + 1, mem.files>>
        BY <1>5, <2>4, <3>2, <3>4
      <3> QED BY <1>1, <2>2, <2>5, <2>7, <3>7, <3>8 DEF Types
    <2> QED BY <2>8, <2>9
  <1>6. AtData \/ AtToc
    BY DEF PageFails
  <1>7. Programmed \/ UNCHANGED <<toc, cell>>
    BY DEF PageFails
  <1> QED BY <1>3, <1>4, <1>5, <1>6, <1>7

\* The failed request is one of spifs_format.
LEMMA FailFormat ==
  ASSUME SpifsAssumption, IInv, PageFails, ~mem.on
  PROVE  IInv'
  <1>1. Types /\ Lists /\ Calls /\ Device /\ Places
    BY DEF IInv
  <1>2. AtData \/ AtToc
    BY DEF PageFails
  <1>3. AtToc
    BY <1>2, WorkData
  <1>4. op.kind = "format" /\ ~hist.safe
    BY <1>3, WorkToc
  <1>5. /\ op' = NoOp /\ mem' = Unmounted /\ dirs' = dirs
        /\ hist' = [hist EXCEPT !.failed = TRUE,
                          !.attempts = IF AtToc THEN @ \cup {mem.files} ELSE @,
                          !.doubt = @ \cup op.pages \cup DataPages(op.file)]
        /\ count' = [count EXCEPT !["faults"] = @ + 1]
    BY <1>4 DEF PageFails, Count
  <1>6. /\ cell' \in [Page -> CellPage] /\ toc' \in [Slot -> [1 .. TocPages -> TocPageType]]
        /\ \A s \in Slot : FooterOK(s)'
    BY <1>1, FailDevice
  <1>7. op.pages = {} /\ DataPages(op.file) = {} /\ hist.doubt = Page
    BY <1>1, <1>4 DEF Calls, Places, DataPages
  <1>8. ~hist'.safe /\ hist'.doubt = Page
    BY <1>1, <1>4, <1>5, <1>7 DEF Types, HistType
  <1>9. Types'
    <2>1. hist \in HistType /\ mem.files \in SUBSET File
      BY <1>1 DEF Types, MemType
    <2>2. hist' \in HistType
      BY <1>5, <1>7, <2>1 DEF HistType
    <2>3. count' \in [calls: 0 .. MaxCalls, faults: Nat, crashes: Nat]
      BY <1>1, <1>5, SMTT(40) DEF Types
    <2> QED BY <1>1, <1>5, <1>6, <2>2, <2>3, RestFacts DEF Types
  <1>10. /\ DueExact' /\ Written' /\ Moving' = {} /\ Idle' /\ ~op'.torn
         /\ op'.kind = "none" /\ op'.pages = {} /\ op'.file = {} /\ op'.todo = <<>>
         /\ op'.dirty = FALSE /\ op'.k = 0 /\ op'.rounds = 0
    BY <1>5, RestNext
  <1>11. ~mem'.on /\ ~mem'.own
    BY <1>5 DEF Unmounted
  <1>12. mem'.files = {}
    BY <1>5 DEF Unmounted
  <1>13. Lists'
    <2>1. ListOK({})
      BY <1>1, ListSubset DEF Lists
    <2> QED BY <1>6, <1>10, <1>12, <2>1 DEF Lists
  <1>14. Calls'
    BY <1>1, <1>5, <1>10, <1>11, <1>12 DEF Calls
  <1>15. Device'
    BY <1>10, <1>11 DEF Device
  <1> QED BY <1>8, <1>9, <1>10, <1>11, <1>13, <1>14, <1>15, UnsafeNext

\* The failed request is one of a call on a mounted file system: the list stays,
\* but for the file of a spifs_create, and so does the ToC to begin with.
LEMMA FailMounted ==
  ASSUME SpifsAssumption, IInv, PageFails, mem.on
  PROVE  IInv'
  <1>1. Types /\ Lists /\ Calls /\ Written /\ Device /\ NewestInMemory /\ Handles
    BY DEF IInv
  <1>2. Places /\ DueExact /\ DataExact
    BY DEF IInv
  <1>3. /\ op.kind # "format" /\ op.k <= TocPages
        /\ AtData \/ AtToc
    <2>1. AtData \/ AtToc
      BY DEF PageFails
    <2>2. AtData => op.k = 0
      BY WorkData
    <2>3. AtToc => op.k \in 1 .. TocPages
      BY DEF AtToc
    <2> QED BY <1>1, <2>1, <2>2, <2>3, ConstFacts DEF Calls
  <1>4. /\ op' = NoOp /\ dirs' = dirs
        /\ mem' = [mem EXCEPT !.files = IF op.kind = "create" THEN @ \ op.file ELSE @]
        /\ hist' = [hist EXCEPT !.failed = TRUE,
                          !.attempts = IF AtToc THEN @ \cup {mem.files} ELSE @,
                          !.doubt = @ \cup op.pages \cup DataPages(op.file)]
        /\ count' = [count EXCEPT !["faults"] = @ + 1]
    BY <1>3 DEF PageFails, Count, FailedMem
  <1>5. /\ cell' \in [Page -> CellPage] /\ toc' \in [Slot -> [1 .. TocPages -> TocPageType]]
        /\ toc'[mem.pos] = toc[mem.pos]
        /\ \A p \in Page : p \notin Due => cell'[p] = cell[p]
        /\ \A s \in Slot : FooterOK(s)'
        /\ \A s \in Slot : \/ Footer(s)' = Footer(s)
                           \/ AtToc /\ s = Target /\ Footer(s)'.sum = <<mem.gen + 1, mem.files>>
    BY <1>1, FailDevice
  <1>6. /\ mem'.on = mem.on /\ mem'.own = mem.own /\ mem'.gen = mem.gen /\ mem'.pos = mem.pos
        /\ op.kind = "create" => mem'.files = mem.files \ op.file
        /\ op.kind # "create" => mem'.files = mem.files
    BY <1>1, <1>4 DEF Types, MemType
  <1>7. /\ hist'.committed = hist.committed /\ hist'.want = hist.want
        /\ hist'.safe = hist.safe
        /\ hist'.doubt = hist.doubt \cup op.pages \cup DataPages(op.file)
        /\ AtToc => hist'.attempts = hist.attempts \cup {mem.files}
        /\ ~AtToc => hist'.attempts = hist.attempts
    BY <1>1, <1>4 DEF Types, HistType
  <1>8. hist'.failed
    BY <1>1, <1>4 DEF Types, HistType
  <1>9. /\ DueExact' /\ Written' /\ Moving' = {} /\ Idle' /\ ~op'.torn
        /\ op'.kind = "none" /\ op'.pages = {} /\ op'.file = {} /\ op'.todo = <<>>
        /\ op'.dirty = FALSE /\ op'.k = 0 /\ op'.rounds = 0
    BY <1>4, RestNext
  <1>10. mem'.files \subseteq mem.files
    BY <1>6
  <1>11. ListOK(mem.files) /\ ListOK(mem'.files)
    BY <1>1, <1>10, ListSubset DEF Lists
  <1>12. Types'
    <2>1. hist \in HistType /\ mem.files \in SUBSET File /\ op.pages \in SUBSET Page
      BY <1>1 DEF Types, MemType, OpType
    <2>2. DataPages(op.file) \subseteq Page
      <3>1. CASE op.kind = "create"
        BY <3>1, PagesIn DEF Due
      <3>2. CASE op.kind = "remove"
        <4>1. ListOK(mem.files \cup op.file)
          BY <1>1, <3>2 DEF Lists
        <4> QED BY <4>1, FilePages DEF DataPages
      <3>3. CASE op.kind \notin {"create", "remove"}
        BY <1>1, <3>3 DEF Calls, DataPages
      <3> QED BY <3>1, <3>2, <3>3
    <2>3. hist.doubt \cup op.pages \cup DataPages(op.file) \in SUBSET Page
      BY <2>1, <2>2 DEF HistType
    <2>4. hist' \in HistType
      BY <1>4, <2>1, <2>3 DEF HistType
    <2>5. mem' \in MemType
      BY <1>1, <1>4, <1>6, <1>10, <2>1 DEF Types, MemType
    <2>6. count' \in [calls: 0 .. MaxCalls, faults: Nat, crashes: Nat]
      BY <1>1, <1>4, SMTT(40) DEF Types
    <2> QED BY <1>1, <1>4, <1>5, <2>4, <2>5, <2>6, RestFacts DEF Types
  <1>13. Lists'
    BY <1>5, <1>9, <1>11 DEF Lists
  <1>14. Calls'
    BY <1>1, <1>4, <1>6, <1>9 DEF Calls
  <1>15. mem.pos \in Slot /\ Target \in Slot /\ Target' = Target /\ mem.gen \in Nat
    BY <1>1, <1>6, SlotFacts DEF Types, MemType, Target
  <1>16. Device'
    <2>1. Kept(hist.committed)'
      <3>1. Kept(hist.committed)
        BY <1>1 DEF Device
      <3>2. /\ toc'[mem.pos] = toc[mem.pos] /\ mem'.pos = mem.pos /\ mem'.gen = mem.gen
            /\ hist'.committed = hist.committed
        BY <1>5, <1>6, <1>7
      <3> QED BY ONLY <3>1, <3>2 DEF Kept, Good, GenOf, FilesOf
    <2>2. Behind'
      <3>1. PICK t \in Slot : t = Target
        BY <1>15
      <3>2. Footer(Target)' = Footer(t)'
        BY <1>15, <3>1 DEF Footer
      <3>3. CASE Footer(t)' = Footer(t)
        <4>1. Behind /\ hist.attempts \subseteq hist'.attempts
          BY <1>1, <1>7 DEF Device
        <4> QED BY <1>6, <3>1, <3>2, <3>3, <4>1 DEF Behind
      <3>4. CASE AtToc /\ Footer(t)'.sum = <<mem.gen + 1, mem.files>>
        <4>1. Footer(t)'.sum[2] = mem.files
          BY <3>4
        <4>2. mem.files \in hist'.attempts
          BY <1>7, <3>4
        <4> QED BY <3>2, <4>1, <4>2 DEF Behind
      <3> QED BY <1>5, <3>1, <3>3, <3>4
    <2>3. OwnGen(mem.pos, mem.gen)' /\ hist'.safe
      BY <1>1, <1>6, <1>7 DEF Device, OwnGen
    <2> QED BY <1>9, <2>1, <2>2, <2>3 DEF Device
  <1>17. NewestInMemory'
    BY <1>8 DEF NewestInMemory
  <1>18. Handles'
    <2>1. ASSUME NEW d \in Dirs, NEW n \in NamesOf(mem.files),
                 dirs[d].open, n \in dirs[d].due \cup {dirs[d].next}
          PROVE  find_file(n) \in mem'.files
      <3>1. find_file(n) \in mem.files /\ find_file(n).name = n
        BY <1>11, FindFile
      <3>2. op.kind = "create" => n \notin NamesOf(op.file)
        BY <1>1, <2>1 DEF Handles
      <3> QED BY <1>6, <3>1, <3>2 DEF NamesOf
    <2> QED BY <1>1, <1>4, <1>9, <1>11, <2>1, HandlesKept
  <1>19. SamePlaces(mem.files, hist.committed, hist'.doubt)
    <2>1. Moving \subseteq DataPages(op.file)
      BY DEF Moving
    <2> QED BY <1>2, <1>7, <2>1 DEF Places, SamePlaces
  <1>20. Places'
    <2>1. SamePlaces(mem.files, hist.committed, hist.doubt \cup Moving)'
      <3>1. /\ DataPages(mem'.files) \subseteq DataPages(mem.files)
            /\ DataPages(mem.files) \subseteq DataPages(mem'.files) \cup DataPages(op.file)
        BY <1>6 DEF DataPages
      <3> QED BY <1>7, <1>9, <1>19, <3>1 DEF SamePlaces
    <2>2. ASSUME NEW fs \in Remnants(mem.gen)'
          PROVE  DataPages(fs) \subseteq DataPages(hist'.committed) \cup hist'.doubt
      <3>1. PICK s \in Slot : /\ toc'[s][TocPages] # LostPage
                              /\ toc'[s][TocPages].sum[1] > mem.gen
                              /\ fs = toc'[s][TocPages].sum[2]
        BY <1>6, <2>2 DEF Remnants
      <3>2. CASE Footer(s)' = Footer(s)
        <4>1. fs \in Remnants(mem.gen)
          BY <3>1, <3>2 DEF Remnants, Footer
        <4> QED BY <1>2, <1>3, <1>7, <4>1, SMTT(40) DEF Places
      <3>3. CASE Footer(s)'.sum = <<mem.gen + 1, mem.files>>
        <4>1. fs = mem.files
          BY <3>1, <3>3 DEF Footer
        <4> QED BY <1>7, <1>19, <4>1 DEF SamePlaces
      <3> QED BY <1>5, <3>2, <3>3
    <2>3. hist'.safe
      BY <1>1, <1>7 DEF Device
    <2> QED BY <1>6, <1>9, <2>1, <2>2, <2>3 DEF Places
  <1>21. DataExact'
    <2>1. Due \subseteq hist'.doubt
      BY <1>7 DEF Due
    <2>2. DataPages(mem.files) \cup DataPages(hist.committed) \subseteq Page
      BY PagesIn
    <2>3. DataPages(mem'.files) \subseteq DataPages(mem.files)
      BY <1>10 DEF DataPages
    <2> QED BY <1>2, <1>5, <1>7, <2>1, <2>2, <2>3 DEF DataExact
  <1> QED BY <1>6, <1>9, <1>12, <1>13, <1>14, <1>16, <1>17, <1>18, <1>20, <1>21,
             CoreNext DEF Core

-----------------------------------------------------------------------------
(* Format, mount and unmount keep the invariant                            *)

\* No call is under way.
LEMMA IdleFacts ==
  ASSUME IInv, Idle
  PROVE  /\ op = NoOp /\ op.kind = "none" /\ op.pages = {} /\ op.file = {} /\ op.todo = <<>>
         /\ op.k = 0 /\ op.rounds = 0 /\ ~op.torn /\ ~op.dirty /\ Moving = {}
  <1>1. op = NoOp
    BY DEF IInv, Calls
  <1>2. /\ op.kind = "none" /\ op.pages = {} /\ op.file = {} /\ op.todo = <<>>
        /\ op.k = 0 /\ op.rounds = 0
    BY <1>1 DEF NoOp
  <1>3. ~op.torn /\ ~op.dirty
    BY <1>1 DEF NoOp
  <1> QED BY <1>1, <1>2, <1>3 DEF Moving

\* spifs_format begins.
LEMMA FormatInv ==
  ASSUME SpifsAssumption, IInv, spifs_format
  PROVE  IInv'
  <1>1. Types /\ Lists /\ Calls /\ Device /\ Places
    BY DEF IInv
  <1>2. /\ Idle /\ ~mem.on /\ count.calls < MaxCalls
        /\ mem' = [Unmounted EXCEPT !.gen = 1]
        /\ op' = [NoOp EXCEPT !.kind = "format", !.k = 1, !.rounds = 2]
        /\ hist' = [hist EXCEPT !.safe = FALSE, !.doubt = Page,
                                !.attempts = @ \cup {FilesOf(s) : s \in GoodSlots}]
        /\ count' = [count EXCEPT !["calls"] = @ + 1]
        /\ toc' = toc /\ cell' = cell /\ dirs' = dirs
    BY DEF spifs_format, Count
  <1>3. mem'.files = {} /\ mem'.pos = "front" /\ mem'.gen = 1
    BY <1>2 DEF Unmounted
  <1>4. ~mem'.on /\ ~mem'.own
    BY <1>2 DEF Unmounted
  <1>5. /\ op'.kind = "format" /\ op'.pages = {} /\ op'.file = {} /\ op'.todo = <<>>
        /\ op'.k = 1 /\ op'.rounds = 2
    BY <1>2 DEF NoOp
  <1>6. ~op'.torn
    BY <1>2 DEF NoOp
  <1>7. hist'.doubt = Page
    BY <1>1, <1>2 DEF Types, HistType
  <1>8. ~hist'.safe
    BY <1>1, <1>2 DEF Types, HistType
  <1>9. Types'
    <2>1. {FilesOf(s) : s \in GoodSlots} \subseteq SUBSET File
      <3>1. \A s \in GoodSlots : ListOK(FilesOf(s))
        BY <1>1, GoodFacts DEF GoodSlots, Lists
      <3> QED BY <3>1 DEF ListOK
    <2>2. hist' \in HistType
      BY <1>1, <1>2, <2>1 DEF Types, HistType
    <2>3. mem' \in MemType
      BY <1>2 DEF Unmounted, MemType, Slot
    <2>4. NoOp \in OpType /\ 1 \in 0 .. (TocPages + 1)
      BY RestFacts, ConstFacts
    <2>5. op' \in OpType
      <3>1. op' = [NoOp EXCEPT !.kind = "format", !.k = 1, !.rounds = 2]
        BY <1>2
      <3>2. "format" \in Kinds /\ 2 \in 0 .. 2
        BY DEF Kinds
      <3> QED BY ONLY <2>4, <3>1, <3>2 DEF OpType
    <2>6. count.calls + 1 \in 0 .. MaxCalls
      <3>1. count.calls \in 0 .. MaxCalls
        BY <1>1 DEF Types
      <3>2. MaxCalls \in Nat /\ count.calls < MaxCalls
        BY <1>2, ConstFacts
      <3> QED BY ONLY <3>1, <3>2
    <2>7. count' \in [calls: 0 .. MaxCalls, faults: Nat, crashes: Nat]
      BY <1>1, <1>2, <2>6 DEF Types
    <2> QED BY <1>1, <1>2, <2>2, <2>3, <2>5, <2>7 DEF Types
  <1>10. Lists'
    <2>1. ListOK({})
      BY <1>1, ListSubset DEF Lists
    <2> QED BY <1>1, <1>2, <1>3, <1>5, <2>1, TocSame DEF Lists
  <1>11. Calls'
    BY <1>1, <1>2, <1>3, <1>4, <1>5, <1>6 DEF Calls, Idle
  <1>12. Written'
    BY <1>5 DEF Written
  <1>13. Device'
    <2>1. OwnGen(mem.pos, mem.gen)'
      BY <1>3 DEF OwnGen
    <2> QED BY <1>4, <1>5, <1>8, <2>1 DEF Device
  <1>14. DueExact'
    <2>1. Len(op'.todo) = 0
      BY <1>5
    <2> QED BY <1>5, <2>1 DEF DueExact, Due
  <1> QED BY <1>4, <1>7, <1>8, <1>9, <1>10, <1>11, <1>12, <1>13, <1>14, UnsafeNext

\* spifs_mount: memory has the list of a ToC that is good, and that ToC is kept.
LEMMA MountInv ==
  ASSUME SpifsAssumption, IInv, spifs_mount
  PROVE  IInv'
  <1>1. Types /\ Lists /\ Calls /\ Places /\ DataIntact
    BY DEF IInv
  <1>2. /\ Idle /\ ~mem.on /\ toc' = toc /\ cell' = cell /\ op' = op /\ dirs' = dirs
    BY DEF spifs_mount
  <1>3. PICK bad \in SUBSET Slot :
          /\ GoodSlots \ bad # {}
          /\ mem' = [on |-> TRUE, own |-> TRUE, gen |-> GenOf(Newest(GoodSlots \ bad)),
                     pos |-> Newest(GoodSlots \ bad), files |-> FilesOf(Newest(GoodSlots \ bad))]
          /\ hist' = [hist EXCEPT
                        !.committed = FilesOf(Newest(GoodSlots \ bad)), !.safe = TRUE,
                        !.failed = (Newest(GoodSlots \ bad) # Newest(GoodSlots)),
                        !.attempts = Remnants(GenOf(Newest(GoodSlots \ bad))),
                        !.doubt = IF Newest(GoodSlots \ bad) # Newest(GoodSlots)
                                  THEN Page ELSE @]
          /\ count' = [count EXCEPT !.faults = @ + Cardinality(bad)]
    BY DEF spifs_mount
  <1>4. PICK s \in Slot : s = Newest(GoodSlots \ bad) /\ s \in GoodSlots
    BY <1>1, <1>3, NewestFacts DEF Lists
  <1>5. /\ mem' = [on |-> TRUE, own |-> TRUE, gen |-> GenOf(s), pos |-> s, files |-> FilesOf(s)]
        /\ hist' = [hist EXCEPT !.committed = FilesOf(s), !.safe = TRUE,
                                !.failed = (s # Newest(GoodSlots)),
                                !.attempts = Remnants(GenOf(s)),
                                !.doubt = IF s # Newest(GoodSlots) THEN Page ELSE @]
    BY <1>3, <1>4
  <1>6. /\ Good(s) /\ Footer(s) # LostPage
        /\ GenOf(s) \in Nat /\ GenOf(s) = Footer(s).sum[1] /\ OwnGen(s, GenOf(s))
        /\ FilesOf(s) = Footer(s).sum[2] /\ ListOK(FilesOf(s))
    BY <1>1, <1>4, GoodFacts DEF Lists, GoodSlots
  <1>7. mem'.gen = GenOf(s) /\ mem'.pos = s /\ mem'.files = FilesOf(s)
    BY <1>5
  <1>8. mem'.on /\ mem'.own
    BY <1>5
  <1>9. /\ hist'.committed = FilesOf(s) /\ hist'.want = hist.want
        /\ hist'.attempts = Remnants(GenOf(s))
        /\ s # Newest(GoodSlots) => hist'.doubt = Page
        /\ s = Newest(GoodSlots) => hist'.doubt = hist.doubt
    BY <1>1, <1>5 DEF Types, HistType
  <1>10. hist'.safe /\ (hist'.failed <=> s # Newest(GoodSlots))
    BY <1>1, <1>5 DEF Types, HistType
  <1>11. /\ op = NoOp /\ op.kind = "none"
    BY <1>2, IdleFacts
  <1>12. /\ DueExact' /\ Written' /\ Moving' = {} /\ Idle' /\ ~op'.torn
         /\ op'.kind = "none" /\ op'.pages = {} /\ op'.file = {} /\ op'.todo = <<>>
         /\ op'.dirty = FALSE /\ op'.k = 0 /\ op'.rounds = 0
    BY <1>2, <1>11, RestNext
  <1>13. Types'
    <2>1. FilesOf(s) \in SUBSET File
      BY <1>6 DEF ListOK
    <2>2. mem' \in MemType
      BY <1>4, <1>5, <1>6, <2>1 DEF MemType
    <2>3. Remnants(GenOf(s)) \subseteq SUBSET File
      <3>1. \A fs \in Remnants(GenOf(s)) : \E t \in Slot : Footer(t) # LostPage /\ fs = Footer(t).sum[2]
        BY RemnantFacts
      <3>2. \A fs \in Remnants(GenOf(s)) : ListOK(fs)
        BY <1>1, <3>1 DEF Lists, FooterOK
      <3> QED BY <3>2 DEF ListOK
    <2>4. hist \in HistType
      BY <1>1 DEF Types
    <2>5. hist' \in HistType
      BY <1>5, <2>1, <2>3, <2>4 DEF HistType
    <2>6. Cardinality(bad) \in Nat
      <3>1. IsFiniteSet({"front", "back"})
        <4>1. IsFiniteSet({"front"}) /\ {"front", "back"} = {"front"} \cup {"back"}
          BY FS_Singleton
        <4>2. IsFiniteSet({"front"} \cup {"back"})
          BY <4>1, FS_AddElement
        <4> QED BY <4>1, <4>2
      <3>2. IsFiniteSet(bad)
        BY <3>1, FS_Subset DEF Slot
      <3> QED BY <3>2, FS_CardinalityType
    <2>7. count' \in [calls: 0 .. MaxCalls, faults: Nat, crashes: Nat]
      <3>1. count' = [count EXCEPT !.faults = @ + Cardinality(bad)]
        BY <1>3
      <3>2. count \in [calls: 0 .. MaxCalls, faults: Nat, crashes: Nat]
        BY <1>1 DEF Types
      <3> QED BY ONLY <2>6, <3>1, <3>2
    <2> QED BY <1>1, <1>2, <2>2, <2>5, <2>7 DEF Types
  <1>14. Lists'
    BY <1>1, <1>2, <1>6, <1>7, <1>12, TocSame DEF Lists
  <1>15. Calls'
    BY <1>1, <1>2, <1>8, <1>11, <1>12 DEF Calls
  <1>16. PICK t \in Slot : t = Other(s) /\ t # s /\ \A u \in Slot : u = s \/ u = t
    BY <1>4, SlotFacts
  <1>17. Target' = t
    BY <1>7, <1>16 DEF Target
  <1>18. Footer(t) = LostPage \/ Footer(t).sum[1] < GenOf(s) \/ Footer(t).sum[1] > GenOf(s)
    <2>1. SUFFICES ASSUME Footer(t) # LostPage
                   PROVE  Footer(t).sum[1] < GenOf(s) \/ Footer(t).sum[1] > GenOf(s)
      OBVIOUS
    <2>2. Footer(t).sum[1] \in Nat /\ OwnGen(t, Footer(t).sum[1])
      BY <1>1, <2>1 DEF Lists, FooterOK
    <2>3. Footer(t).sum[1] # GenOf(s)
      BY <1>6, <1>16, <2>2 DEF OwnGen, Slot
    <2> QED BY <1>6, <2>2, <2>3
  <1>19. Device'
    <2>1. Kept(hist.committed)'
      BY <1>2, <1>6, <1>7, <1>9, ZenonT(40) DEF Kept, Good, GenOf, FilesOf
    <2>2. Behind'
      <3>1. Footer(Target)' = Footer(t)
        BY <1>2, <1>17 DEF Footer
      <3>2. CASE Footer(t) = LostPage \/ Footer(t).sum[1] < GenOf(s)
        BY <1>7, <3>1, <3>2 DEF Behind
      <3>3. CASE Footer(t) # LostPage /\ Footer(t).sum[1] > GenOf(s)
        <4>1. Footer(t).sum[2] \in Remnants(GenOf(s))
          BY <3>3 DEF Remnants, Footer
        <4> QED BY <1>9, <3>1, <4>1 DEF Behind
      <3> QED BY <1>18, <3>2, <3>3
    <2>3. OwnGen(mem.pos, mem.gen)'
      BY <1>6, <1>7 DEF OwnGen
    <2> QED BY <1>10, <1>12, <2>1, <2>2, <2>3 DEF Device
  <1>20. NewestInMemory'
    <2>1. ASSUME s = Newest(GoodSlots), Good(t) PROVE ~(GenOf(t) > GenOf(s))
      <3>1. t \in GoodSlots /\ GoodSlots # {}
        BY <1>4, <2>1 DEF GoodSlots
      <3>2. GenOf(t) < GenOf(s)
        BY <1>1, <1>16, <2>1, <3>1, NewestFacts DEF Lists
      <3>3. GenOf(t) \in Nat
        BY <1>1, <2>1, GoodFacts DEF Lists
      <3> QED BY <1>6, <3>2, <3>3
    <2>2. (Good(Target)' <=> Good(t)) /\ GenOf(Target)' = GenOf(t)
      BY <1>2, <1>17 DEF Good, GenOf
    <2> QED BY <1>7, <1>9, <1>10, <2>1, <2>2 DEF NewestInMemory
  <1>21. Handles'
    BY <1>1, <1>2 DEF Calls, Handles, DirScan
  <1>22. Places'
    <2>1. SamePlaces(mem.files, hist.committed, hist.doubt \cup Moving)'
      BY <1>7, <1>9 DEF SamePlaces
    <2>2. \A fs \in Remnants(GenOf(s)) :
            DataPages(fs) \subseteq DataPages(FilesOf(s)) \cup hist'.doubt
      <3>1. \A fs \in Remnants(GenOf(s)) : DataPages(fs) \subseteq Page
        BY <1>1, RemnantPages
      <3>2. CASE s # Newest(GoodSlots) \/ ~hist.safe
        <4>1. hist'.doubt = Page
          BY <1>1, <1>9, <3>2 DEF Places
        <4> QED BY <3>1, <4>1
      <3>3. CASE s = Newest(GoodSlots) /\ hist.safe
        BY <1>1, <1>2, <1>9, <3>3 DEF Places, Recovered
      <3> QED BY <3>2, <3>3
    <2>3. Remnants(mem.gen)' = Remnants(GenOf(s))
      BY <1>2, <1>7 DEF Remnants
    <2> QED BY <1>8, <1>9, <1>10, <1>12, <2>1, <2>2, <2>3 DEF Places
  <1>23. DataExact'
    <2>1. ASSUME NEW p \in DataPages(FilesOf(s)), p \notin hist'.doubt
          PROVE  cell[p] = hist.want[p]
      <3>1. p \in Page
        BY <1>6, FilePages
      <3>2. s = Newest(GoodSlots) /\ hist.safe
        BY <1>1, <1>9, <2>1, <3>1 DEF Places
      <3>3. Recovered = FilesOf(s) /\ GoodSlots # {} /\ p \notin hist.doubt /\ op.pages = {}
        BY <1>2, <1>4, <1>9, <1>12, <2>1, <3>2 DEF Recovered
      <3> QED BY <1>1, <2>1, <3>2, <3>3 DEF DataIntact, DataPages
    <2> QED BY <1>2, <1>7, <1>9, <2>1 DEF DataExact
  <1> QED BY <1>8, <1>12, <1>13, <1>14, <1>15, <1>19, <1>20, <1>21, <1>22, <1>23,
             CoreNext DEF Core

-----------------------------------------------------------------------------
(* Unmounting and the directories keep the invariant                       *)

\* The next file of a list, if there is one.
LEMMA AfterFacts ==
  ASSUME SpifsAssumption, NEW fs, ListOK(fs), NEW at \in Int, NEW r, r = After(fs, at)
  PROVE  \/ r = End /\ \A g \in fs : ~(g.at > at)
         \/ \E f \in fs : /\ r = f.name /\ r # End /\ f.at > at
                          /\ \A g \in fs : g.at > at => f.at <= g.at
  <1>1. PICK later : later = {f \in fs : f.at > at}
    OBVIOUS
  <1>2. r = IF later = {} THEN End ELSE (CHOOSE f \in later : \A g \in later : f.at <= g.at).name
    BY <1>1 DEF After
  <1>3. CASE later = {}
    BY <1>1, <1>2, <1>3
  <1>4. CASE later # {}
    <2>1. PICK K : K = {f.at : f \in later}
      OBVIOUS
    <2>2. K \in SUBSET Nat /\ K # {}
      <3>1. \A f \in later : f.at \in Nat
        BY <1>1, FilePages
      <3> QED BY ONLY <1>4, <2>1, <3>1
    <2>3. PICK x \in K : \A y \in K : x =< y
      BY <2>2, LeastLemma
    <2>4. \E f \in later : \A g \in later : f.at <= g.at
      BY <2>1, <2>3
    <2>5. PICK f : f = CHOOSE h \in later : \A g \in later : h.at <= g.at
      OBVIOUS
    <2>6. f \in later /\ \A g \in later : f.at <= g.at
      BY <2>4, <2>5
    <2>7. r = f.name
      BY <1>2, <1>4, <2>5
    <2>8. f \in fs /\ f.name \in Names
      BY <1>1, <2>6 DEF ListOK, File
    <2> QED BY <1>1, <2>6, <2>7, <2>8, ConstFacts
  <1> QED BY <1>3, <1>4

\* A handle that goes on from a file has the rest of the files before it.
LEMMA AfterDue ==
  ASSUME SpifsAssumption, ListOK(mem.files), NEW at \in Int, NEW D, D \subseteq NamesOf(mem.files),
         \A m \in D : find_file(m).at > at, NEW r, r = After(mem.files, at)
  PROVE  IF r = End THEN D = {}
         ELSE /\ r \in NamesOf(mem.files) /\ find_file(r).at > at
              /\ \A m \in D : find_file(m).at >= find_file(r).at
  <1>1. \A m \in D : find_file(m) \in mem.files
    BY FindFile
  <1>2. CASE r = End /\ \A g \in mem.files : ~(g.at > at)
    BY <1>1, <1>2
  <1>3. ASSUME NEW f \in mem.files, r = f.name, r # End, f.at > at,
               \A g \in mem.files : g.at > at => f.at <= g.at
        PROVE  /\ r # End /\ r \in NamesOf(mem.files) /\ find_file(r).at > at
               /\ \A m \in D : find_file(m).at >= find_file(r).at
    <2>1. find_file(r) = f /\ r \in NamesOf(mem.files)
      BY <1>3, FindFile
    <2>2. ASSUME NEW m \in D PROVE find_file(m).at >= f.at
      <3>1. f.at <= find_file(m).at
        BY <1>1, <1>3, <2>2
      <3>2. f.at \in Nat /\ find_file(m).at \in Nat
        BY <1>1, <2>2, FilePages
      <3> QED BY <3>1, <3>2
    <2> QED BY <1>3, <2>1, <2>2
  <1> QED BY <1>2, <1>3, AfterFacts

\* A step that leaves the device, the list and the calls alone.
LEMMA QuietNext ==
  ASSUME SpifsAssumption, IInv, mem.on, toc' = toc, cell' = cell, op' = op, hist' = hist,
         count' = count, mem' \in MemType, mem'.on, mem'.gen = mem.gen, mem'.pos = mem.pos,
         mem'.files = mem.files, dirs' \in [Dirs -> DirType], Handles'
  PROVE  IInv'
  <1>1. Types /\ Lists /\ Calls /\ Written /\ Device /\ NewestInMemory
    BY DEF IInv
  <1>2. Places /\ DueExact /\ DataExact
    BY DEF IInv
  <1>3. Target' = Target
    BY DEF Target
  <1>4. Types'
    BY <1>1 DEF Types
  <1>5. Lists'
    BY <1>1, TocSame DEF Lists
  <1>6. Calls'
    BY <1>1 DEF Calls, Idle, AtData, AtToc
  <1>7. Written'
    BY <1>1, <1>3 DEF Written
  <1>8. Device'
    <2>1. Kept(hist.committed)' /\ Behind'
      BY <1>1, <1>3 DEF Device, Kept, Behind, Footer, Good, GenOf, FilesOf
    <2> QED BY <1>1, <2>1, SMTT(40) DEF Device, Calls, AtToc
  <1>9. NewestInMemory'
    BY <1>1, <1>3 DEF NewestInMemory, Good, GenOf
  <1>10. Places'
    <2>1. Moving' = Moving /\ Remnants(mem.gen)' = Remnants(mem.gen)
      BY DEF Moving, Remnants
    <2> QED BY <1>2, <2>1 DEF Places
  <1>11. DueExact'
    BY <1>2 DEF DueExact, Due, Sure
  <1>12. DataExact'
    BY <1>2 DEF DataExact
  <1> QED BY <1>4, <1>5, <1>6, <1>7, <1>8, <1>9, <1>10, <1>11, <1>12, CoreNext DEF Core

\* A reference goes: the file system is unmounted with the last one.
LEMMA PutNext ==
  ASSUME SpifsAssumption, IInv, mem.on, Idle, toc' = toc, cell' = cell, op' = op,
         hist' = hist, count' = count, NEW m \in MemType, m.on, m.gen = mem.gen,
         m.pos = mem.pos, m.files = mem.files, mem' = Put(m, dirs'),
         dirs' \in [Dirs -> DirType], mem' = m => Handles'
  PROVE  IInv'
  <1>1. CASE mem' = m
    BY <1>1, QuietNext
  <1>2. CASE mem' # m
    <2>1. mem' = Unmounted /\ \A d \in Dirs : ~dirs'[d].open
      BY <1>2 DEF Put
    <2>2. op = NoOp /\ op.pages = {}
      BY IdleFacts
    <2>3. hist \in HistType /\ count \in [calls: 0 .. MaxCalls, faults: Nat, crashes: Nat]
      BY DEF IInv, Types
    <2>4. hist.doubt \cup op.pages = hist.doubt
      BY <2>2
    <2> QED BY <2>1, <2>2, <2>3, <2>4, UnmountNext
  <1> QED BY <1>1, <1>2

\* fs_unmount returns the reference of the mount.
LEMMA UnmountInv ==
  ASSUME SpifsAssumption, IInv, fs_unmount
  PROVE  IInv'
  <1>1. Types /\ Calls /\ Handles
    BY DEF IInv
  <1>2. /\ Idle /\ mem.own /\ mem' = Put([mem EXCEPT !.own = FALSE], dirs)
        /\ toc' = toc /\ cell' = cell /\ op' = op /\ dirs' = dirs /\ hist' = hist
        /\ count' = count
    BY DEF fs_unmount
  <1>3. mem.on
    BY <1>1, <1>2 DEF Calls
  <1>4. PICK m : m = [mem EXCEPT !.own = FALSE]
    OBVIOUS
  <1>5. m \in MemType /\ m.gen = mem.gen /\ m.pos = mem.pos /\ m.files = mem.files
    BY <1>1, <1>4 DEF Types, MemType
  <1>6. m.on
    BY <1>1, <1>3, <1>4 DEF Types, MemType
  <1>7. mem' = Put(m, dirs')
    BY <1>2, <1>4
  <1>8. mem' = m => Handles'
    BY <1>1, <1>2, <1>5, HandlesSame
  <1>9. dirs' \in [Dirs -> DirType]
    BY <1>1, <1>2 DEF Types
  <1> QED BY <1>2, <1>3, <1>5, <1>6, <1>7, <1>8, <1>9, PutNext

\* A step that moves one handle, to a place that fits what it has to list.
LEMMA HandleMoved ==
  ASSUME IInv, Idle, op' = op, mem'.files = mem.files, NEW d \in Dirs,
         \A e \in Dirs : e # d => dirs'[e] = dirs[e],
         dirs'[d].open =>
           /\ IF dirs'[d].next = End THEN dirs'[d].due = {}
              ELSE /\ dirs'[d].next \in NamesOf(mem.files)
                   /\ \A n \in dirs'[d].due : find_file(n).at >= find_file(dirs'[d].next).at
           /\ dirs'[d].due \subseteq NamesOf(mem.files)
  PROVE  Handles'
  <1>1. Handles /\ op'.kind # "create"
    BY IdleFacts DEF IInv
  <1>2. ASSUME NEW e \in Dirs, dirs'[e].open
        PROVE  /\ IF dirs'[e].next = End THEN dirs'[e].due = {}
                  ELSE /\ dirs'[e].next \in NamesOf(mem.files)
                       /\ \A n \in dirs'[e].due : find_file(n).at >= find_file(dirs'[e].next).at
               /\ dirs'[e].due \subseteq NamesOf(mem.files)
    <2>1. CASE e = d
      BY <1>2, <2>1
    <2>2. CASE e # d
      <3>1. dirs'[e] = dirs[e] /\ dirs[e].open
        BY <1>2, <2>2
      <3>2. /\ IF dirs[e].next = End THEN dirs[e].due = {}
               ELSE /\ dirs[e].next \in NamesOf(mem.files)
                    /\ \A n \in dirs[e].due : find_file(n).at >= find_file(dirs[e].next).at
            /\ dirs[e].due \subseteq NamesOf(mem.files)
        BY <1>1, <3>1 DEF Handles, DirScan
      <3> QED BY ONLY <3>1, <3>2
    <2> QED BY <2>1, <2>2
  <1>3. DirScan'
    BY <1>2 DEF DirScan, find_file
  <1> QED BY <1>1, <1>2, <1>3 DEF Handles

\* spifs_opendir begins before the first file.
LEMMA OpendirInv ==
  ASSUME SpifsAssumption, IInv, NEW d \in Dirs, spifs_opendir(d)
  PROVE  IInv'
  <1>1. Types /\ Lists
    BY DEF IInv
  <1>2. /\ Idle /\ mem.on
        /\ dirs' = [dirs EXCEPT ![d] = [next |-> After(mem.files, -1), open |-> TRUE,
                                        due |-> NamesOf(mem.files)]]
        /\ toc' = toc /\ cell' = cell /\ mem' = mem /\ op' = op /\ hist' = hist
        /\ count' = count
    BY DEF spifs_opendir
  <1>3. ListOK(mem.files)
    BY <1>1 DEF Lists
  <1>4. PICK r : r = After(mem.files, -1)
    OBVIOUS
  <1>5. \A m \in NamesOf(mem.files) : find_file(m).at > -1
    <2>1. \A m \in NamesOf(mem.files) : find_file(m).at \in Nat
      BY <1>3, FindFile, FilePages
    <2> QED BY <2>1
  <1>6. -1 \in Int /\ NamesOf(mem.files) \subseteq NamesOf(mem.files)
    OBVIOUS
  <1>7. IF r = End THEN NamesOf(mem.files) = {}
        ELSE /\ r \in NamesOf(mem.files)
             /\ \A m \in NamesOf(mem.files) : find_file(m).at >= find_file(r).at
    BY <1>3, <1>4, <1>5, <1>6, AfterDue
  <1>8. /\ dirs'[d] = [next |-> r, open |-> TRUE, due |-> NamesOf(mem.files)]
        /\ \A e \in Dirs : e # d => dirs'[e] = dirs[e]
    BY <1>1, <1>2, <1>4 DEF Types
  <1>9. dirs'[d].next = r /\ dirs'[d].due = NamesOf(mem.files)
    BY <1>8
  <1>10. NamesOf(mem.files) \subseteq Names
    BY <1>3 DEF ListOK, NamesOf, File
  <1>11. dirs' \in [Dirs -> DirType]
    <2>1. r \in Names \cup {End}
      BY <1>7, <1>10
    <2>2. dirs'[d] \in DirType
      BY <1>8, <1>10, <2>1 DEF DirType
    <2> QED BY <1>1, <1>2, <1>4, <1>8, <2>2 DEF Types
  <1>12. Handles'
    BY <1>2, <1>7, <1>8, <1>9, HandleMoved
  <1>13. mem' \in MemType
    BY <1>1, <1>2 DEF Types
  <1> QED BY <1>2, <1>11, <1>12, <1>13, QuietNext

\* spifs_readdir lists a file and goes on to the next one.
LEMMA ReaddirInv ==
  ASSUME SpifsAssumption, IInv, NEW d \in Dirs, spifs_readdir(d)
  PROVE  IInv'
  <1>1. Types /\ Lists /\ Calls /\ Handles
    BY DEF IInv
  <1>2. /\ Idle /\ dirs[d].open /\ dirs[d].next # End
        /\ dirs' = [dirs EXCEPT ![d].next = After(mem.files, find_file(@).at),
                                ![d].due = @ \ {dirs[d].next}]
        /\ toc' = toc /\ cell' = cell /\ mem' = mem /\ op' = op /\ hist' = hist
        /\ count' = count
    BY DEF spifs_readdir
  <1>3. ListOK(mem.files)
    BY <1>1 DEF Lists
  <1>4. mem.on
    BY <1>1, <1>2 DEF Calls
  <1>5. PICK n : n = dirs[d].next
    OBVIOUS
  <1>6. /\ n \in NamesOf(mem.files) /\ dirs[d].due \subseteq NamesOf(mem.files)
        /\ \A m \in dirs[d].due : find_file(m).at >= find_file(n).at
    BY <1>1, <1>2, <1>5 DEF Handles, DirScan
  <1>7. PICK at, r, D : /\ at = find_file(n).at /\ r = After(mem.files, at)
                        /\ D = dirs[d].due \ {n}
    OBVIOUS
  <1>8. find_file(n) \in mem.files /\ find_file(n).name = n /\ at \in Nat
    BY <1>3, <1>6, <1>7, FindFile, FilePages
  <1>9. \A m \in D : find_file(m).at > at
    <2> TAKE m \in D
    <2>1. m \in dirs[d].due /\ m # n /\ m \in NamesOf(mem.files)
      BY <1>6, <1>7
    <2>2. find_file(m) \in mem.files /\ find_file(m).name = m
      BY <1>3, <2>1, FindFile
    <2>3. find_file(m).at # at /\ find_file(m).at \in Nat
      BY <1>3, <1>7, <1>8, <2>1, <2>2, FilePages
    <2>4. find_file(m).at >= at
      BY <1>6, <1>7, <2>1
    <2> QED BY <1>8, <2>3, <2>4
  <1>10. D \subseteq NamesOf(mem.files) /\ at \in Int
    BY <1>6, <1>7, <1>8
  <1>11. IF r = End THEN D = {}
         ELSE /\ r \in NamesOf(mem.files)
              /\ \A m \in D : find_file(m).at >= find_file(r).at
    <2>1. r = After(mem.files, at)
      BY <1>7
    <2> QED BY <1>3, <1>9, <1>10, <2>1, AfterDue
  <1>12. dirs[d] \in DirType
    BY <1>1 DEF Types
  <1>13. /\ dirs'[d] = [dirs[d] EXCEPT !.next = r, !.due = D]
         /\ \A e \in Dirs : e # d => dirs'[e] = dirs[e]
         /\ DOMAIN dirs' = Dirs
    BY <1>1, <1>2, <1>5, <1>7, <1>12 DEF Types, DirType
  <1>14. dirs'[d].next = r /\ dirs'[d].due = D
    BY <1>12, <1>13 DEF DirType
  <1>15. NamesOf(mem.files) \subseteq Names
    BY <1>3 DEF ListOK, NamesOf, File
  <1>16. dirs' \in [Dirs -> DirType]
    <2>1. r \in Names \cup {End} /\ D \in SUBSET Names
      BY <1>10, <1>11, <1>15
    <2>2. dirs'[d] \in DirType
      BY <1>12, <1>13, <2>1 DEF DirType
    <2>3. \A e \in Dirs : dirs'[e] \in DirType
      BY <1>1, <1>13, <2>2 DEF Types
    <2>4. dirs' = [e \in Dirs |-> dirs'[e]]
      BY <1>1, <1>2 DEF Types
    <2> QED BY <2>3, <2>4
  <1>17. Handles'
    BY <1>2, <1>10, <1>11, <1>13, <1>14, HandleMoved
  <1>18. mem' \in MemType
    BY <1>1, <1>2 DEF Types
  <1> QED BY <1>2, <1>4, <1>16, <1>17, <1>18, QuietNext

\* spifs_closedir returns the reference of the handle.
LEMMA ClosedirInv ==
  ASSUME SpifsAssumption, IInv, NEW d \in Dirs, spifs_closedir(d)
  PROVE  IInv'
  <1>1. Types /\ Calls
    BY DEF IInv
  <1>2. /\ Idle /\ dirs[d].open /\ dirs' = [dirs EXCEPT ![d] = NoDir]
        /\ mem' = Put(mem, dirs')
        /\ toc' = toc /\ cell' = cell /\ op' = op /\ hist' = hist /\ count' = count
    BY DEF spifs_closedir
  <1>3. mem.on
    BY <1>1, <1>2 DEF Calls
  <1>4. dirs'[d] = NoDir /\ \A e \in Dirs : e # d => dirs'[e] = dirs[e]
    BY <1>1, <1>2 DEF Types
  <1>5. dirs' \in [Dirs -> DirType]
    BY <1>1, <1>2, RestFacts DEF Types
  <1>6. ~dirs'[d].open
    BY <1>4 DEF NoDir
  <1>7. mem' = mem => Handles'
    BY <1>2, <1>4, <1>6, HandleMoved
  <1>8. mem \in MemType
    BY <1>1 DEF Types
  <1>9. PICK m : m = mem
    OBVIOUS
  <1>10. /\ m \in MemType /\ m.gen = mem.gen /\ m.pos = mem.pos /\ m.files = mem.files
         /\ mem' = Put(m, dirs') /\ (mem' = m => Handles')
    BY <1>2, <1>7, <1>8, <1>9
  <1>11. m.on
    BY <1>3, <1>9
  <1> QED BY <1>2, <1>3, <1>5, <1>10, <1>11, PutNext

-----------------------------------------------------------------------------
(* The beginnings of the calls keep the invariant                          *)

\* The history of a call that begins says nothing new of the device.
SameHist ==
  /\ hist'.committed = hist.committed /\ hist'.attempts = hist.attempts
  /\ hist'.doubt = hist.doubt /\ hist'.safe = hist.safe /\ hist'.failed = hist.failed

\* The call that begins is one that the invariant allows.
NewCall ==
  /\ op'.kind \in {"create", "remove", "truncate", "write"} /\ op'.rounds = 1 /\ ~op'.torn
  /\ op'.kind \in {"remove", "truncate"} => op'.k = 1
  /\ op'.kind \in {"create", "write"} => op'.k = 0
  /\ op'.kind = "create" => op'.dirty
  /\ op'.kind \notin {"create", "remove"} => op'.file = {}
  /\ op'.kind # "write" => op'.pages = {}
  /\ op'.k = 1 => op'.todo = <<>>

\* A call that begins leaves the device as it is, and what it says of the
\* list in memory is made good later.
LEMMA CallNext ==
  ASSUME SpifsAssumption, IInv, Call, toc' = toc, cell' = cell, mem' \in MemType,
         mem'.on, mem'.gen = mem.gen, mem'.pos = mem.pos, ListOK(mem'.files),
         op' \in OpType, NewCall, hist' \in HistType, SameHist,
         dirs' \in [Dirs -> DirType], count' = [count EXCEPT !["calls"] = @ + 1],
         op'.kind \in {"create", "remove"} => ListOK(mem'.files \cup op'.file),
         op'.kind = "write" /\ ~op'.dirty => mem'.files = mem.files
  PROVE  /\ Types' /\ Lists' /\ Calls' /\ Written' /\ Device' /\ NewestInMemory'
         /\ hist.safe /\ hist'.safe /\ Remnants(mem.gen)' = Remnants(mem.gen)
  <1>1. Types /\ Lists /\ Calls /\ Device /\ NewestInMemory
    BY DEF IInv
  <1>2. /\ Idle /\ mem.on /\ count.calls < MaxCalls
    BY DEF Call
  <1>3. op.k = 0 /\ ~op.dirty
    BY <1>2, IdleFacts
  <1>4. Types'
    <2>1. count.calls + 1 \in 0 .. MaxCalls
      BY <1>1, <1>2, ConstFacts DEF Types
    <2>2. count' \in [calls: 0 .. MaxCalls, faults: Nat, crashes: Nat]
      BY <1>1, <2>1 DEF Types
    <2> QED BY <1>1, <2>2 DEF Types
  <1>5. Lists'
    BY <1>1, TocSame DEF Lists
  <1>6. Calls'
    BY <1>1 DEF Calls, NewCall, Idle
  <1>7. Written'
    BY DEF Written, NewCall
  <1>8. Target' = Target
    BY DEF Target
  <1>9. Device'
    <2>1. Kept(hist.committed)' /\ Behind'
      BY <1>1, <1>2, <1>8 DEF Device, Kept, Behind, Footer, Good, GenOf, FilesOf, SameHist
    <2>2. OwnGen(mem.pos, mem.gen)' /\ hist'.safe
      BY <1>1, <1>2 DEF Device, OwnGen, SameHist
    <2> QED BY <2>1, <2>2, SMTT(40) DEF Device, NewCall
  <1>10. NewestInMemory'
    <2>1. SUFFICES ASSUME ~hist'.failed, op'.k = 0
                   PROVE  /\ ~op'.dirty => mem'.files = hist'.committed
                          /\ ~(Good(Target)' /\ GenOf(Target)' > mem'.gen)
      BY DEF NewestInMemory
    <2>2. /\ mem.files = hist.committed
          /\ ~(Good(Target) /\ GenOf(Target) > mem.gen)
      BY <1>1, <1>2, <1>3, <2>1 DEF NewestInMemory, SameHist
    <2>3. ~op'.dirty => op'.kind = "write"
      BY <2>1 DEF NewCall
    <2>4. (Good(Target)' <=> Good(Target)) /\ GenOf(Target)' = GenOf(Target)
      BY <1>8 DEF Good, GenOf
    <2> QED BY <2>2, <2>3, <2>4 DEF SameHist
  <1>11. hist.safe /\ hist'.safe
    BY <1>1, <1>2 DEF Device, SameHist
  <1>12. Remnants(mem.gen)' = Remnants(mem.gen)
    BY DEF Remnants
  <1> QED BY <1>4, <1>5, <1>6, <1>7, <1>9, <1>10, <1>11, <1>12

\* What Places says between the calls.
LEMMA IdlePlaces ==
  ASSUME SpifsAssumption, IInv, Call
  PROVE  /\ SamePlaces(mem.files, hist.committed, hist.doubt)
         /\ \A fs \in Remnants(mem.gen) :
              DataPages(fs) \subseteq DataPages(hist.committed) \cup hist.doubt
         /\ \A p \in DataPages(mem.files) \cup DataPages(hist.committed) :
              p \notin hist.doubt => cell[p] = hist.want[p]
  <1>1. Idle /\ mem.on
    BY DEF Call
  <1>2. op.k = 0 /\ Moving = {} /\ op.pages = {}
    BY <1>1, IdleFacts
  <1>3. Places /\ DataExact
    BY DEF IInv
  <1>4. hist.doubt \cup Moving = hist.doubt /\ hist.doubt \cup op.pages = hist.doubt
    BY <1>2
  <1>5. 0 <= TocPages
    BY ConstFacts
  <1> QED BY <1>1, <1>2, <1>3, <1>4, <1>5 DEF Places, DataExact

\* The directory handles stay right when every file keeps its name and place.
LEMMA HandlesPlaced ==
  ASSUME SpifsAssumption, Handles, ListOK(mem.files), ListOK(mem'.files), dirs' = dirs,
         NamesOf(mem'.files) = NamesOf(mem.files),
         \A g \in mem.files : \E h \in mem'.files : h.name = g.name /\ h.at = g.at,
         op'.kind # "create"
  PROVE  Handles'
  <1>1. ASSUME NEW n \in NamesOf(mem.files) PROVE (find_file(n)').at = find_file(n).at
    <2>1. find_file(n) \in mem.files /\ find_file(n).name = n
      BY FindFile
    <2>2. PICK h \in mem'.files : h.name = n /\ h.at = find_file(n).at
      BY <2>1
    <2>3. \A g \in mem'.files : g.name = n => g = h
      BY <2>2 DEF ListOK
    <2>4. find_file(n)' = (CHOOSE g \in mem'.files : g.name = n)
      BY DEF find_file
    <2>5. find_file(n)' = h
      BY ONLY <2>2, <2>3, <2>4
    <2> QED BY <2>2, <2>5
  <1>2. ASSUME NEW d \in Dirs, dirs[d].open
        PROVE  /\ IF dirs[d].next = End THEN dirs[d].due = {}
                  ELSE /\ dirs[d].next \in NamesOf(mem'.files)
                       /\ \A n \in dirs[d].due :
                            (find_file(n)').at >= (find_file(dirs[d].next)').at
               /\ dirs[d].due \subseteq NamesOf(mem'.files)
    <2>1. PICK e : e = dirs[d].next
      OBVIOUS
    <2>2. /\ IF e = End THEN dirs[d].due = {}
             ELSE /\ e \in NamesOf(mem.files)
                  /\ \A n \in dirs[d].due : find_file(n).at >= find_file(e).at
          /\ dirs[d].due \subseteq NamesOf(mem.files)
      BY <1>2, <2>1 DEF Handles, DirScan
    <2>3. find_file(dirs[d].next)' = find_file(e)'
      BY <2>1 DEF find_file
    <2>4. CASE e = End
      BY <2>1, <2>2, <2>4
    <2>5. CASE e # End
      <3>1. e \in NamesOf(mem.files) /\ (find_file(e)').at = find_file(e).at
        BY <1>1, <2>2, <2>5
      <3>2. ASSUME NEW n \in dirs[d].due
            PROVE  (find_file(n)').at >= (find_file(dirs[d].next)').at
        <4>1. n \in NamesOf(mem.files) /\ find_file(n).at >= find_file(e).at
          BY <2>2, <2>5, <3>2
        <4>2. (find_file(n)').at = find_file(n).at
          BY <1>1, <4>1
        <4> QED BY <2>3, <3>1, <4>1, <4>2
      <3> QED BY <2>1, <2>2, <2>5, <3>1, <3>2
    <2> QED BY <2>4, <2>5
  <1>3. DirScan'
    BY ONLY <1>2, dirs' = dirs DEF DirScan, find_file
  <1> QED BY <1>2, <1>3 DEF Handles

\* spifs_truncate changes the length of a file and no page.
LEMMA TruncateInv ==
  ASSUME SpifsAssumption, IInv, NEW n \in Names, NEW len \in Lens, spifs_truncate(n, len)
  PROVE  IInv'
  <1>1. Types /\ Lists /\ Handles
    BY DEF IInv
  <1>2. /\ Call /\ n \in NamesOf(mem.files) /\ len <= find_file(n).len
        /\ mem' = [mem EXCEPT !.files = Resized(@, find_file(n), len)]
        /\ op' = [NoOp EXCEPT !.kind = "truncate", !.k = 1, !.rounds = 1]
        /\ count' = [count EXCEPT !["calls"] = @ + 1]
        /\ toc' = toc /\ cell' = cell /\ dirs' = dirs /\ hist' = hist
    BY DEF spifs_truncate, Count
  <1>3. ListOK(mem.files) /\ mem.on
    BY <1>1, <1>2 DEF Lists, Call
  <1>4. PICK f \in mem.files : f = find_file(n)
    BY <1>2, <1>3, FindFile
  <1>5. len \in 0 .. (PageNum * PageLen)
    <2>1. len \in Nat
      BY DEF SpifsAssumption
    <2>2. f.len \in 0 .. (PageNum * PageLen)
      BY <1>3 DEF ListOK, File
    <2>3. PageNum * PageLen \in Nat
      BY ConstFacts
    <2> QED BY <1>2, <1>4, <2>1, <2>2, <2>3
  <1>6. PICK fs : fs = Resized(mem.files, f, len)
    OBVIOUS
  <1>7. /\ ListOK(fs) /\ NamesOf(fs) = NamesOf(mem.files)
        /\ DataPages(fs) = DataPages(mem.files)
        /\ \A g \in mem.files : \E h \in fs : h.name = g.name /\ h.at = g.at
    BY <1>3, <1>5, <1>6, ListResized
  <1>8. /\ mem' = [mem EXCEPT !.files = fs] /\ mem'.gen = mem.gen /\ mem'.pos = mem.pos
        /\ mem'.files = fs
    BY <1>1, <1>2, <1>4, <1>6 DEF Types, MemType
  <1>9. mem' \in MemType /\ mem'.on
    BY <1>1, <1>3, <1>7, <1>8 DEF Types, MemType, ListOK
  <1>10. /\ op'.kind = "truncate" /\ op'.pages = {} /\ op'.file = {} /\ op'.todo = <<>>
         /\ op'.k = 1 /\ op'.rounds = 1
    BY <1>2 DEF NoOp
  <1>11. ~op'.torn
    BY <1>2 DEF NoOp
  <1>12. op' \in OpType
    <2>1. NoOp \in OpType /\ 1 \in 0 .. (TocPages + 1)
      BY RestFacts, ConstFacts
    <2>2. op' = [NoOp EXCEPT !.kind = "truncate", !.k = 1, !.rounds = 1]
      BY <1>2
    <2>3. "truncate" \in Kinds /\ 1 \in 0 .. 2
      BY DEF Kinds
    <2> QED BY ONLY <2>1, <2>2, <2>3 DEF OpType
  <1>13. NewCall /\ SameHist
    BY <1>2, <1>10, <1>11 DEF NewCall, SameHist
  <1>14. hist' \in HistType /\ dirs' \in [Dirs -> DirType]
    BY <1>1, <1>2 DEF Types
  <1>15. /\ Types' /\ Lists' /\ Calls' /\ Written' /\ Device' /\ NewestInMemory'
         /\ hist.safe /\ hist'.safe /\ Remnants(mem.gen)' = Remnants(mem.gen)
    BY <1>2, <1>7, <1>8, <1>9, <1>10, <1>12, <1>13, <1>14, CallNext
  <1>16. /\ SamePlaces(mem.files, hist.committed, hist.doubt)
         /\ \A gs \in Remnants(mem.gen) :
              DataPages(gs) \subseteq DataPages(hist.committed) \cup hist.doubt
         /\ \A p \in DataPages(mem.files) \cup DataPages(hist.committed) :
              p \notin hist.doubt => cell[p] = hist.want[p]
    BY <1>2, IdlePlaces
  <1>17. Places'
    <2>1. Moving' = {}
      BY <1>10 DEF Moving
    <2>2. SamePlaces(mem.files, hist.committed, hist.doubt \cup Moving)'
      BY <1>2, <1>7, <1>8, <1>16, <2>1 DEF SamePlaces
    <2> QED BY <1>2, <1>9, <1>10, <1>15, <1>16, <2>2 DEF Places
  <1>18. DueExact'
    <2>1. Len(op'.todo) = 0
      BY <1>10
    <2> QED BY <1>10, <2>1 DEF DueExact, Due
  <1>19. DataExact'
    BY <1>2, <1>7, <1>8, <1>16 DEF DataExact
  <1>20. Handles'
    <2>1. op'.kind # "create"
      BY <1>10
    <2> QED BY <1>1, <1>2, <1>3, <1>7, <1>8, <2>1, HandlesPlaced
  <1> QED BY <1>9, <1>15, <1>17, <1>18, <1>19, <1>20, CoreNext DEF Core

\* spifs_remove takes a file off the list and moves the handles that are at it.
LEMMA RemoveInv ==
  ASSUME SpifsAssumption, IInv, NEW n \in Names, spifs_remove(n)
  PROVE  IInv'
  <1>1. Types /\ Lists /\ Calls /\ Handles
    BY DEF IInv
  <1>2. /\ Call /\ n \in NamesOf(mem.files)
        /\ dirs' = [d \in Dirs |->
                      [AdvanceCookies(dirs, find_file(n), mem.files)[d] EXCEPT !.due = @ \ {n}]]
        /\ mem' = [mem EXCEPT !.files = @ \ {find_file(n)}]
        /\ op' = [NoOp EXCEPT !.kind = "remove", !.file = {find_file(n)}, !.k = 1, !.rounds = 1]
        /\ count' = [count EXCEPT !["calls"] = @ + 1]
        /\ toc' = toc /\ cell' = cell /\ hist' = hist
    BY DEF spifs_remove, Count
  <1>3. ListOK(mem.files) /\ mem.on
    BY <1>1, <1>2 DEF Lists, Call
  <1>4. PICK f \in mem.files : f = find_file(n) /\ f.name = n
    BY <1>2, <1>3, FindFile
  <1>5. f \in File /\ f.at \in Nat
    BY <1>3, FilePages DEF ListOK
  <1>6. PICK fs : fs = mem.files \ {f}
    OBVIOUS
  <1>7. ListOK(fs) /\ fs \cup {f} = mem.files
    BY <1>3, <1>6, ListSubset
  <1>8. /\ mem' = [mem EXCEPT !.files = fs] /\ mem'.gen = mem.gen /\ mem'.pos = mem.pos
        /\ mem'.files = fs
    BY <1>1, <1>2, <1>4, <1>6 DEF Types, MemType
  <1>9. mem' \in MemType /\ mem'.on
    BY <1>1, <1>3, <1>7, <1>8 DEF Types, MemType, ListOK
  <1>10. /\ op'.kind = "remove" /\ op'.pages = {} /\ op'.file = {f} /\ op'.todo = <<>>
         /\ op'.k = 1 /\ op'.rounds = 1
    BY <1>2, <1>4 DEF NoOp
  <1>11. ~op'.torn
    BY <1>2 DEF NoOp
  <1>12. op' \in OpType
    <2>1. NoOp \in OpType /\ 1 \in 0 .. (TocPages + 1)
      BY RestFacts, ConstFacts
    <2>2. op' = [NoOp EXCEPT !.kind = "remove", !.file = {f}, !.k = 1, !.rounds = 1]
      BY <1>2, <1>4
    <2>3. "remove" \in Kinds /\ 1 \in 0 .. 2 /\ {f} \in SUBSET File
      BY <1>5 DEF Kinds
    <2> QED BY ONLY <2>1, <2>2, <2>3 DEF OpType
  <1>13. NewCall /\ SameHist
    BY <1>2, <1>10, <1>11 DEF NewCall, SameHist
  <1>14. PICK r : r = After(mem.files, f.at)
    OBVIOUS
  <1>15. ASSUME NEW d \in Dirs
         PROVE  /\ dirs[d].open /\ dirs[d].next = n =>
                     dirs'[d] = [dirs[d] EXCEPT !.next = r, !.due = dirs[d].due \ {n}]
                /\ ~(dirs[d].open /\ dirs[d].next = n) =>
                     dirs'[d] = [dirs[d] EXCEPT !.due = dirs[d].due \ {n}]
    <2>1. dirs[d] \in DirType
      BY <1>1 DEF Types
    <2>2. dirs'[d] = [AdvanceCookies(dirs, f, mem.files)[d] EXCEPT !.due = @ \ {n}]
      BY <1>2, <1>4
    <2>3. CASE dirs[d].open /\ dirs[d].next = n
      <3>1. AdvanceCookies(dirs, f, mem.files)[d] = [dirs[d] EXCEPT !.next = r]
        BY <1>4, <1>14, <2>3 DEF AdvanceCookies
      <3> QED BY ONLY <2>1, <2>2, <2>3, <3>1 DEF DirType
    <2>4. CASE ~(dirs[d].open /\ dirs[d].next = n)
      <3>1. AdvanceCookies(dirs, f, mem.files)[d] = dirs[d]
        BY <1>4, <2>4 DEF AdvanceCookies
      <3> QED BY ONLY <2>1, <2>2, <2>4, <3>1 DEF DirType
    <2> QED BY <2>3, <2>4
  <1>16. ASSUME NEW d \in Dirs
         PROVE  /\ dirs'[d].due = dirs[d].due \ {n}
                /\ dirs[d].open /\ dirs[d].next = n => dirs'[d].next = r
                /\ ~(dirs[d].open /\ dirs[d].next = n) => dirs'[d].next = dirs[d].next
                /\ dirs'[d].open = dirs[d].open
    <2>1. dirs[d] \in DirType
      BY <1>1 DEF Types
    <2>2. CASE dirs[d].open /\ dirs[d].next = n
      <3>1. dirs'[d] = [dirs[d] EXCEPT !.next = r, !.due = dirs[d].due \ {n}]
        BY <1>15, <2>2
      <3>2. /\ dirs'[d].due = dirs[d].due \ {n} /\ dirs'[d].next = r
            /\ dirs'[d].open = dirs[d].open
        BY ONLY <2>1, <3>1 DEF DirType
      <3> QED BY <2>2, <3>2
    <2>3. CASE ~(dirs[d].open /\ dirs[d].next = n)
      <3>1. dirs'[d] = [dirs[d] EXCEPT !.due = dirs[d].due \ {n}]
        BY <1>15, <2>3
      <3>2. /\ dirs'[d].due = dirs[d].due \ {n} /\ dirs'[d].next = dirs[d].next
            /\ dirs'[d].open = dirs[d].open
        BY ONLY <2>1, <3>1 DEF DirType
      <3> QED BY <2>3, <3>2
    <2> QED BY <2>2, <2>3
  <1>17. NamesOf(mem.files) \subseteq Names
    BY <1>3 DEF ListOK, NamesOf, File
  <1>18. ASSUME NEW D, D \subseteq NamesOf(mem.files), n \notin D,
                \A m \in D : find_file(m).at >= f.at
         PROVE  IF r = End THEN D = {}
                ELSE /\ r \in NamesOf(mem.files) /\ find_file(r).at > f.at
                     /\ \A m \in D : find_file(m).at >= find_file(r).at
    <2>1. \A m \in D : find_file(m).at > f.at
      <3> TAKE m \in D
      <3>1. find_file(m) \in mem.files /\ find_file(m).name = m /\ m # n
        BY <1>3, <1>18, FindFile
      <3>2. find_file(m).at # f.at /\ find_file(m).at \in Nat
        BY <1>3, <1>4, <3>1, FilePages
      <3>3. find_file(m).at >= f.at
        BY <1>18
      <3> QED BY <1>5, <3>2, <3>3
    <2>2. f.at \in Int
      BY <1>5
    <2> QED BY <1>3, <1>14, <1>18, <2>1, <2>2, AfterDue
  <1>19. r \in Names \cup {End}
    <2>1. f.at \in Int
      BY <1>5
    <2>2. r = End \/ \E g \in mem.files : r = g.name
      BY <1>3, <1>14, <2>1, AfterFacts
    <2> QED BY <1>3, <2>2 DEF ListOK, File
  <1>20. dirs' \in [Dirs -> DirType]
    <2>1. ASSUME NEW d \in Dirs PROVE dirs'[d] \in DirType
      <3>1. dirs[d] \in DirType
        BY <1>1 DEF Types
      <3>2. dirs[d].due \ {n} \in SUBSET Names
        BY <3>1 DEF DirType
      <3>3. \/ dirs'[d] = [dirs[d] EXCEPT !.next = r, !.due = dirs[d].due \ {n}]
            \/ dirs'[d] = [dirs[d] EXCEPT !.due = dirs[d].due \ {n}]
        BY <1>15
      <3> QED BY ONLY <1>19, <3>1, <3>2, <3>3 DEF DirType
    <2>2. dirs' = [d \in Dirs |-> dirs'[d]]
      BY <1>2
    <2> QED BY <2>1, <2>2
  <1>21. /\ Types' /\ Lists' /\ Calls' /\ Written' /\ Device' /\ NewestInMemory'
         /\ hist.safe /\ hist'.safe /\ Remnants(mem.gen)' = Remnants(mem.gen)
    <2>1. ListOK(mem'.files \cup op'.file)
      BY <1>3, <1>7, <1>8, <1>10
    <2>2. hist' \in HistType
      BY <1>1, <1>2 DEF Types
    <2> QED BY <1>2, <1>7, <1>8, <1>9, <1>10, <1>12, <1>13, <1>20, <2>1, <2>2, CallNext
  <1>22. /\ SamePlaces(mem.files, hist.committed, hist.doubt)
         /\ \A gs \in Remnants(mem.gen) :
              DataPages(gs) \subseteq DataPages(hist.committed) \cup hist.doubt
         /\ \A p \in DataPages(mem.files) \cup DataPages(hist.committed) :
              p \notin hist.doubt => cell[p] = hist.want[p]
    BY <1>2, IdlePlaces
  <1>23. DataPages(mem.files) = DataPages(fs) \cup DataPages({f})
    BY <1>7 DEF DataPages
  <1>24. Places'
    <2>1. Moving' = DataPages({f})
      BY <1>10 DEF Moving
    <2>2. SamePlaces(mem.files, hist.committed, hist.doubt \cup Moving)'
      BY <1>2, <1>8, <1>22, <1>23, <2>1 DEF SamePlaces
    <2> QED BY <1>2, <1>9, <1>10, <1>21, <1>22, <2>2 DEF Places
  <1>25. DueExact'
    <2>1. Len(op'.todo) = 0
      BY <1>10
    <2> QED BY <1>10, <2>1 DEF DueExact, Due
  <1>26. DataExact'
    BY <1>2, <1>8, <1>22, <1>23 DEF DataExact
  <1>27. ASSUME NEW m \in NamesOf(mem.files), m # n
         PROVE  find_file(m)' = find_file(m) /\ m \in NamesOf(mem'.files)
    <2>1. find_file(m) \in mem.files /\ find_file(m).name = m
      BY <1>3, FindFile
    <2>2. find_file(m) \in mem'.files
      BY <1>4, <1>6, <1>8, <1>27, <2>1
    <2> QED BY <1>3, <1>7, <1>8, <2>2, FindMore
  <1>28. ASSUME NEW d \in Dirs, dirs'[d].open
         PROVE  /\ dirs'[d].due \subseteq NamesOf(mem'.files)
                /\ IF dirs'[d].next = End THEN dirs'[d].due = {}
                   ELSE /\ dirs'[d].next \in NamesOf(mem'.files)
                        /\ \A m \in dirs'[d].due :
                             (find_file(m)').at >= (find_file(dirs[d].next)').at
    <2>1. PICK e, D : e = dirs[d].next /\ D = dirs[d].due \ {n}
      OBVIOUS
    <2>2. /\ dirs[d].open /\ dirs'[d].due = D
          /\ e = n => dirs'[d].next = r
          /\ e # n => dirs'[d].next = e
      BY <1>16, <1>28, <2>1
    <2>3. /\ D \subseteq NamesOf(mem.files) /\ n \notin D
          /\ IF e = End THEN D = {}
             ELSE /\ e \in NamesOf(mem.files)
                  /\ \A m \in D : find_file(m).at >= find_file(e).at
      BY <1>1, <2>1, <2>2 DEF Handles, DirScan
    <2>4. \A m \in D : find_file(m)' = find_file(m) /\ m \in NamesOf(mem'.files)
      BY <1>27, <2>3
    <2>5. PICK x : x = dirs'[d].next
      OBVIOUS
    <2>6. find_file(dirs[d].next)' = find_file(x)'
      BY <2>5 DEF find_file
    <2>7. IF x = End THEN D = {}
          ELSE /\ x \in NamesOf(mem.files) /\ x # n
               /\ \A m \in D : find_file(m).at >= find_file(x).at
      <3>1. CASE e # n
        BY <2>2, <2>3, <2>5, <3>1
      <3>2. CASE e = n
        <4>1. n # End
          BY ConstFacts
        <4>2. \A m \in D : find_file(m).at >= f.at
          BY <1>4, <2>3, <3>2, <4>1
        <4>3. IF r = End THEN D = {}
              ELSE /\ r \in NamesOf(mem.files) /\ find_file(r).at > f.at
                   /\ \A m \in D : find_file(m).at >= find_file(r).at
          BY <1>18, <2>3, <4>2
        <4>4. find_file(r).at > f.at => r # n
          BY <1>4, <1>5
        <4> QED BY <2>2, <2>5, <3>2, <4>3, <4>4
      <3> QED BY <3>1, <3>2
    <2>8. CASE x = End
      BY <2>2, <2>4, <2>5, <2>7, <2>8
    <2>9. CASE x # End
      <3>1. find_file(x)' = find_file(x) /\ x \in NamesOf(mem'.files)
        BY <1>27, <2>7, <2>9
      <3>2. ASSUME NEW m \in D PROVE (find_file(m)').at >= (find_file(dirs[d].next)').at
        <4>1. find_file(m).at >= find_file(x).at
          BY <2>7, <2>9, <3>2
        <4>2. find_file(m)' = find_file(m)
          BY <2>4, <3>2
        <4> QED BY <2>6, <3>1, <4>1, <4>2
      <3> QED BY <2>2, <2>4, <2>5, <2>9, <3>1, <3>2
    <2> QED BY <2>8, <2>9
  <1>29. Handles'
    <2>1. DirScan'
      BY ONLY <1>28 DEF DirScan, find_file
    <2> QED BY <1>10, <1>28, <2>1 DEF Handles
  <1> QED BY <1>9, <1>21, <1>24, <1>25, <1>26, <1>29, CoreNext DEF Core

\* A length fits into its pages, and there is one at least.
LEMMA PagesForFacts ==
  ASSUME SpifsAssumption, NEW len \in Nat
  PROVE  PagesFor(len) \in Nat \ {0} /\ len <= PagesFor(len) * PageLen
  <1>1. PICK e \in Nat \ {0} : e = PageLen
    BY ConstFacts
  <1>2. CASE len = 0
    <2>1. PagesFor(len) = 1
      BY <1>2 DEF PagesFor
    <2> QED BY <1>1, <1>2, <2>1
  <1>3. CASE len # 0
    <2>1. PICK m \in Nat : m = len + e - 1
      <3>1. len + e - 1 \in Nat
        BY <1>3
      <3> QED BY <3>1
    <2>2. PICK q \in Nat : q = m \div e /\ q * e <= m /\ m < q * e + e
      <3>1. m \div e \in Nat /\ (m \div e) * e <= m /\ m < (m \div e) * e + e
        BY ONLY m \in Nat, e \in Nat \ {0}, DivFacts
      <3> QED BY ONLY <3>1
    <2>3. PagesFor(len) = q
      BY <1>1, <1>3, <2>1, <2>2 DEF PagesFor
    <2>4. PICK qq \in Nat : qq = q * e
      OBVIOUS
    <2>5. len <= qq /\ qq # 0
      BY ONLY <1>3, <2>1, <2>2, <2>4, len \in Nat, e \in Nat \ {0}
    <2>6. q # 0
      <3>1. 0 * e = 0
        OBVIOUS
      <3> QED BY <2>4, <2>5, <3>1
    <2> QED BY <1>1, <2>3, <2>4, <2>5, <2>6
  <1> QED BY <1>2, <1>3

\* find_open_run: the run lies on the device and in no file.
LEMMA OpenRunFacts ==
  ASSUME SpifsAssumption, NEW fs, ListOK(fs), NEW n \in Nat \ {0}, OpenRuns(fs, n) # {},
         NEW at, at = find_open_run(fs, n)
  PROVE  /\ at \in Nat /\ at + n <= PageNum
         /\ \A g \in fs : PagesOf(g) \cap (at .. (at + n - 1)) = {}
  <1>1. PICK K : K = OpenRuns(fs, n)
    OBVIOUS
  <1>2. \A g \in fs : g.at + g.cap \in Nat
    <2>1. \A g \in fs : g.at \in Nat /\ g.cap \in Nat
      BY FilePages
    <2> QED BY <2>1
  <1>3. K \in SUBSET Nat /\ K # {}
    BY <1>1, <1>2 DEF OpenRuns
  <1>4. at \in K
    BY <1>1, <1>3, MinLemma DEF find_open_run
  <1> QED BY <1>1, <1>3, <1>4 DEF OpenRuns

\* The file that spifs_create makes, and the list with it.
LEMMA NewFile ==
  ASSUME SpifsAssumption, NEW fs, ListOK(fs), Cardinality(fs) < MaxFiles,
         NEW n \in Names, n \notin NamesOf(fs), NEW len \in Nat,
         OpenRuns(fs, PagesFor(len)) # {},
         NEW f, f = [name |-> n, at |-> find_open_run(fs, PagesFor(len)),
                     cap |-> PagesFor(len), len |-> len]
  PROVE  /\ f \in File /\ ListOK(fs \cup {f}) /\ f.name = n
         /\ f.at \in Nat /\ f.cap \in Nat \ {0} /\ f.cap = PagesFor(len)
         /\ PagesOf(f) \subseteq Page /\ PagesOf(f) \cap DataPages(fs) = {}
  <1>0. PICK c \in Nat \ {0} : c = PagesFor(len)
    BY PagesForFacts
  <1>1. PICK at : at = find_open_run(fs, c)
    OBVIOUS
  <1>2. len <= c * PageLen
    BY <1>0, <1>1, PagesForFacts
  <1>3. /\ at \in Nat /\ at + c <= PageNum
        /\ \A g \in fs : PagesOf(g) \cap (at .. (at + c - 1)) = {}
    BY <1>0, <1>1, OpenRunFacts
  <1>4. f = [name |-> n, at |-> at, cap |-> c, len |-> len]
    BY <1>0, <1>1
  <1>5. f.name = n /\ f.at = at /\ f.cap = c /\ f.len = len
    BY <1>4
  <1>6. PageNum \in Nat /\ PageLen \in Nat
    BY ConstFacts
  <1>7. len \in 0 .. (PageNum * PageLen)
    <2>1. PageNum - c \in Nat /\ PageNum = c + (PageNum - c)
      BY <1>3, <1>6
    <2>2. PICK d \in Nat : PageNum = c + d
      BY <2>1
    <2>3. (c + d) * PageLen = c * PageLen + d * PageLen /\ d * PageLen \in Nat /\ c * PageLen \in Nat
      BY <1>6
    <2> QED BY <1>2, <2>2, <2>3
  <1>8. at \in Page /\ c \in 1 .. PageNum
    BY <1>3, <1>6 DEF Page
  <1>9. f \in File
    BY <1>4, <1>7, <1>8 DEF File
  <1>10. PagesOf(f) = at .. (at + c - 1)
    BY <1>5 DEF PagesOf
  <1>11. ListOK(fs \cup {f})
    BY <1>3, <1>5, <1>9, <1>10, ListAdd
  <1>12. PagesOf(f) \subseteq Page
    BY <1>3, <1>6, <1>10 DEF Page
  <1>13. PagesOf(f) \cap DataPages(fs) = {}
    BY <1>3, <1>10 DEF DataPages
  <1> QED BY <1>0, <1>1, <1>3, <1>5, <1>9, <1>11, <1>12, <1>13

\* spifs_create: the run it erases is in no list that a mount may find.
LEMMA CreateInv ==
  ASSUME SpifsAssumption, IInv, NEW n \in Names, NEW len \in Lens, spifs_create(n, len)
  PROVE  IInv'
  <1>1. Types /\ Lists /\ Handles
    BY DEF IInv
  <1>2. PICK f, blank :
          /\ f = [name |-> n, at |-> find_open_run(mem.files, PagesFor(len)),
                  cap |-> PagesFor(len), len |-> len]
          /\ blank = [i \in 0 .. (PageLen - 1) |-> Blank]
          /\ op' = [NoOp EXCEPT !.kind = "create", !.file = {f}, !.dirty = TRUE, !.rounds = 1,
                       !.todo = [i \in 1 .. f.cap |-> [page |-> f.at + i - 1, data |-> blank]]]
          /\ hist' = [hist EXCEPT !.want =
                        [p \in Page |-> IF p \in PagesOf(f) THEN blank ELSE @[p]]]
    <2>1. PICK f : f = [name |-> n, at |-> find_open_run(mem.files, PagesFor(len)),
                        cap |-> PagesFor(len), len |-> len]
      OBVIOUS
    <2>2. f.at = find_open_run(mem.files, PagesFor(len))
      BY <2>1
    <2> QED BY <2>1, <2>2 DEF spifs_create
  <1>3. /\ Call /\ n \notin NamesOf(mem.files) /\ Cardinality(mem.files) < MaxFiles
        /\ OpenRuns(mem.files, PagesFor(len)) # {}
        /\ count' = [count EXCEPT !["calls"] = @ + 1]
        /\ toc' = toc /\ cell' = cell /\ mem' = mem /\ dirs' = dirs
    BY DEF spifs_create, Count, EntryFree
  <1>4. ListOK(mem.files) /\ mem.on /\ len \in Nat
    BY <1>1, <1>3 DEF Lists, Call, SpifsAssumption
  <1>5. f = [name |-> n, at |-> find_open_run(mem.files, PagesFor(len)),
             cap |-> PagesFor(len), len |-> len]
    BY <1>2
  <1>6. /\ f \in File /\ ListOK(mem.files \cup {f}) /\ f.name = n
        /\ f.at \in Nat /\ f.cap \in Nat \ {0}
        /\ PagesOf(f) \subseteq Page /\ PagesOf(f) \cap DataPages(mem.files) = {}
    BY <1>3, <1>4, <1>5, NewFile
  <1>7. PICK todo : todo = [i \in 1 .. f.cap |-> [page |-> f.at + i - 1, data |-> blank]]
    OBVIOUS
  <1>8. blank \in CellPage
    BY <1>2, RestFacts
  <1>9. PagesOf(f) = f.at .. (f.at + f.cap - 1)
    BY DEF PagesOf
  <1>10. /\ todo \in Seq([page: Page, data: CellPage]) /\ Len(todo) = f.cap
         /\ \A i \in 1 .. f.cap : todo[i].page = f.at + i - 1 /\ todo[i].data = blank
    <2>1. \A i \in 1 .. f.cap : todo[i].page = f.at + i - 1 /\ todo[i].data = blank
      BY <1>7
    <2>2. \A i \in 1 .. f.cap : f.at + i - 1 \in Page
      BY <1>6, <1>9
    <2>3. todo \in [1 .. f.cap -> [page: Page, data: CellPage]]
      BY <1>7, <1>8, <2>2
    <2>4. f.cap \in Nat
      BY <1>6
    <2>5. todo \in Seq([page: Page, data: CellPage])
      <3>1. PICK T, c : T = [page: Page, data: CellPage] /\ c = f.cap
        OBVIOUS
      <3>2. c \in Nat /\ todo \in [1 .. c -> T]
        BY <2>3, <2>4, <3>1
      <3>3. todo \in Seq(T)
        BY ONLY <3>2
      <3> QED BY <3>1, <3>3
    <2>6. DOMAIN todo = 1 .. f.cap /\ DOMAIN todo = 1 .. Len(todo) /\ Len(todo) \in Nat
      BY ONLY <2>3, <2>5, LenProperties
    <2>7. Len(todo) = f.cap
      BY ONLY <2>4, <2>6
    <2> QED BY <2>1, <2>5, <2>7
  <1>11. op' = [NoOp EXCEPT !.kind = "create", !.file = {f}, !.dirty = TRUE, !.rounds = 1,
                            !.todo = todo]
    BY <1>2, <1>7
  <1>12. /\ op'.kind = "create" /\ op'.pages = {} /\ op'.file = {f} /\ op'.todo = todo
         /\ op'.k = 0 /\ op'.rounds = 1
    BY <1>11 DEF NoOp
  <1>13. op'.dirty /\ ~op'.torn
    BY <1>11 DEF NoOp
  <1>14. op' \in OpType
    <2>1. NoOp \in OpType
      BY RestFacts
    <2>2. "create" \in Kinds /\ 1 \in 0 .. 2 /\ {f} \in SUBSET File
      BY <1>6 DEF Kinds
    <2>3. todo \in Seq([page: Page, data: CellPage])
      BY <1>10
    <2> QED BY ONLY <1>11, <2>1, <2>2, <2>3 DEF OpType
  <1>15. PICK want : want = [p \in Page |-> IF p \in PagesOf(f) THEN blank ELSE hist.want[p]]
    OBVIOUS
  <1>16. hist' = [hist EXCEPT !.want = want]
    BY <1>1, <1>2, <1>15 DEF Types, HistType
  <1>17. /\ hist'.committed = hist.committed /\ hist'.attempts = hist.attempts
         /\ hist'.doubt = hist.doubt /\ hist'.safe = hist.safe /\ hist'.failed = hist.failed
         /\ hist'.want = want
    BY <1>1, <1>16 DEF Types, HistType
  <1>18. hist' \in HistType
    <2>1. hist \in HistType
      BY <1>1 DEF Types
    <2>2. want \in [Page -> CellPage]
      BY <1>8, <1>15, <2>1 DEF HistType
    <2> QED BY ONLY <1>16, <2>1, <2>2 DEF HistType
  <1>19. NewCall /\ SameHist
    BY <1>12, <1>13, <1>17 DEF NewCall, SameHist
  <1>20. /\ Types' /\ Lists' /\ Calls' /\ Written' /\ Device' /\ NewestInMemory'
         /\ hist.safe /\ hist'.safe /\ Remnants(mem.gen)' = Remnants(mem.gen)
    <2>1. mem' \in MemType /\ dirs' \in [Dirs -> DirType]
      BY <1>1, <1>3 DEF Types
    <2>2. ListOK(mem'.files) /\ ListOK(mem'.files \cup op'.file) /\ mem'.on
      BY <1>3, <1>4, <1>6, <1>12
    <2> QED BY <1>3, <1>12, <1>14, <1>18, <1>19, <2>1, <2>2, CallNext
  <1>21. /\ SamePlaces(mem.files, hist.committed, hist.doubt)
         /\ \A gs \in Remnants(mem.gen) :
              DataPages(gs) \subseteq DataPages(hist.committed) \cup hist.doubt
         /\ \A p \in DataPages(mem.files) \cup DataPages(hist.committed) :
              p \notin hist.doubt => cell[p] = hist.want[p]
    BY <1>3, IdlePlaces
  <1>22. DataPages({f}) = PagesOf(f)
    BY DEF DataPages
  <1>23. Places'
    <2>1. Moving' = {}
      BY <1>12 DEF Moving
    <2>2. SamePlaces(mem.files, hist.committed, hist.doubt \cup Moving)'
      BY <1>3, <1>17, <1>21, <2>1 DEF SamePlaces
    <2>3. DataPages(op'.file) \cap DataPages(mem'.files) = {}
      BY <1>3, <1>6, <1>12, <1>22
    <2> QED BY <1>3, <1>4, <1>17, <1>20, <1>21, <2>2, <2>3 DEF Places
  <1>24. DueExact'
    <2>1. Due' = PagesOf(f)
      BY <1>12, <1>22 DEF Due
    <2>2. \A p \in PagesOf(f) : want[p] = blank
      BY <1>6, <1>15
    <2>3. ASSUME NEW j \in 1 .. Len(todo)
          PROVE  todo[j].page \in PagesOf(f) /\ todo[j].data = want[todo[j].page]
      <3>1. j \in 1 .. f.cap /\ todo[j].page = f.at + j - 1 /\ todo[j].data = blank
        BY <1>10, <2>3
      <3>2. f.at + j - 1 \in PagesOf(f)
        BY <1>6, <1>9, <3>1
      <3> QED BY <2>2, <3>1, <3>2
    <2>4. ASSUME NEW p \in PagesOf(f) PROVE \E j \in 1 .. Len(todo) : todo[j].page = p
      <3>1. p - f.at + 1 \in 1 .. f.cap /\ f.at + (p - f.at + 1) - 1 = p
        BY <1>6, <1>9, <2>4
      <3> QED BY <1>10, <3>1
    <2> QED BY <1>12, <1>17, <2>1, <2>3, <2>4 DEF DueExact
  <1>25. DataExact'
    <2>1. ASSUME NEW p \in DataPages(mem.files) \cup DataPages(hist.committed), p \notin hist.doubt
          PROVE  cell[p] = want[p]
      <3>1. p \in DataPages(mem.files) /\ p \in Page
        BY <1>4, <1>21, <2>1, FilePages DEF SamePlaces
      <3>2. p \notin PagesOf(f)
        BY <1>6, <3>1
      <3> QED BY <1>15, <1>21, <2>1, <3>1, <3>2
    <2> QED BY <1>3, <1>17, <2>1 DEF DataExact
  <1>26. Handles'
    <2>1. NamesOf({f}) = {n}
      BY <1>6 DEF NamesOf
    <2>2. \A m : find_file(m)' = find_file(m)
      BY <1>3 DEF find_file
    <2>3. DirScan'
      BY <1>1, <1>3, <2>2 DEF Handles, DirScan
    <2>4. ASSUME NEW d \in Dirs, dirs[d].open
          PROVE  /\ dirs[d].due \subseteq NamesOf(mem.files)
                 /\ n \notin dirs[d].due \cup {dirs[d].next}
      <3>1. dirs[d].due \subseteq NamesOf(mem.files)
        BY <1>1, <2>4 DEF Handles
      <3>2. dirs[d].next = End \/ dirs[d].next \in NamesOf(mem.files)
        BY <1>1, <2>4 DEF Handles, DirScan
      <3> QED BY <1>3, <3>1, <3>2, ConstFacts
    <2> QED BY <1>3, <1>12, <2>1, <2>3, <2>4 DEF Handles
  <1> QED BY <1>3, <1>4, <1>20, <1>23, <1>24, <1>25, <1>26, CoreNext DEF Core

\* A product grows with its first factor.
LEMMA MulMono ==
  ASSUME NEW a \in Nat, NEW b \in Nat, a <= b, NEW e \in Nat
  PROVE  a * e <= b * e /\ a * e \in Nat /\ b * e \in Nat
  <1>1. b - a \in Nat /\ b = a + (b - a)
    OBVIOUS
  <1>2. PICK d \in Nat : b = a + d
    BY <1>1
  <1>3. (a + d) * e = a * e + d * e /\ d * e \in Nat /\ a * e \in Nat
    OBVIOUS
  <1> QED BY <1>2, <1>3

\* A sequence over a part of a set is one over the set.
LEMMA SeqMono ==
  ASSUME NEW T, NEW U, T \subseteq U, NEW s \in Seq(T)
  PROVE  s \in Seq(U) /\ Len(s) \in Nat /\ \A j \in 1 .. Len(s) : s[j] \in T
  <1>1. Len(s) \in Nat /\ s \in [1 .. Len(s) -> T] /\ \A j \in 1 .. Len(s) : s[j] \in T
    BY LenProperties, ElementOfSeq, SMTT(40)
  <1>2. PICK k \in Nat : k = Len(s)
    BY <1>1
  <1>3. s \in [1 .. k -> U]
    BY <1>1, <1>2
  <1>4. s \in Seq(U)
    BY ONLY <1>3, k \in Nat
  <1> QED BY <1>1, <1>4

\* The list after the length of a file has grown, if it has.
LEMMA GrownList ==
  ASSUME SpifsAssumption, NEW fs, ListOK(fs), NEW f \in fs, NEW end \in Nat,
         end <= f.cap * PageLen,
         NEW gs, gs = IF end > f.len THEN Resized(fs, f, end) ELSE fs
  PROVE  /\ ListOK(gs) /\ NamesOf(gs) = NamesOf(fs) /\ DataPages(gs) = DataPages(fs)
         /\ \A g \in fs : \E h \in gs : h.name = g.name /\ h.at = g.at
  <1>1. end \in 0 .. (PageNum * PageLen)
    <2>1. f.cap \in Nat /\ f.at \in Nat /\ f.at + f.cap <= PageNum
      BY FilePages
    <2>2. PageNum \in Nat /\ PageLen \in Nat
      BY ConstFacts
    <2>3. f.cap <= PageNum
      BY <2>1, <2>2
    <2>4. PICK c \in Nat : c = f.cap
      BY <2>1
    <2>5. c * PageLen <= PageNum * PageLen /\ c * PageLen \in Nat /\ PageNum * PageLen \in Nat
      BY ONLY <2>2, <2>3, <2>4, MulMono
    <2>6. end <= c * PageLen
      BY <2>4
    <2> QED BY ONLY <2>5, <2>6, end \in Nat
  <1>2. CASE end > f.len
    BY <1>1, <1>2, ListResized
  <1>3. CASE ~(end > f.len)
    BY <1>3
  <1> QED BY <1>2, <1>3

\* spifs_write: the images of the pages it writes are what is wanted, and the
\* other pages are not concerned.
LEMMA WriteInv ==
  ASSUME SpifsAssumption, IInv, NEW n \in Names, NEW off \in Nat, NEW size \in Nat,
         spifs_write(n, off, size)
  PROVE  IInv'
  <1>1. Types /\ Lists /\ Handles
    BY DEF IInv
  <1>0a. PICK f : f = find_file(n)
    OBVIOUS
  <1>0b. PICK start : start = off + f.at * PageLen
    OBVIOUS
  <1>0c. PICK v : v = count.calls + 1
    OBVIOUS
  <1>0d. PICK todo : todo = WritePages(start, size, v)
    OBVIOUS
  <1>2. /\ off + size <= f.cap * PageLen
        /\ mem' = IF off + size > f.len
                  THEN [mem EXCEPT !.files = Resized(@, f, off + size)] ELSE mem
        /\ op' = [NoOp EXCEPT !.kind = "write", !.todo = todo, !.rounds = 1,
                              !.dirty = Grows(f, off + size),
                              !.pages = {todo[i].page : i \in 1 .. Len(todo)}]
        /\ hist' = [hist EXCEPT
             !.want = [p \in Page |-> [c \in 0 .. (PageLen - 1) |->
               IF p * PageLen + c \in start .. (start + size - 1) THEN v ELSE @[p][c]]]]
    BY ONLY <1>0a, <1>0b, <1>0c, <1>0d, spifs_write(n, off, size), Zenon DEF spifs_write
  <1>3. /\ Call /\ n \in NamesOf(mem.files) /\ count' = [count EXCEPT !["calls"] = @ + 1]
        /\ toc' = toc /\ cell' = cell /\ dirs' = dirs
    BY DEF spifs_write, Count
  <1>4. ListOK(mem.files) /\ mem.on /\ count.calls < MaxCalls
    BY <1>1, <1>3 DEF Lists, Call
  <1>5. /\ f \in mem.files /\ f \in File /\ f.at + f.cap <= PageNum
        /\ PagesOf(f) \subseteq DataPages(mem.files) /\ PagesOf(f) \subseteq Page
    <2>1. f \in mem.files
      BY <1>0a, <1>3, <1>4, FindFile
    <2> QED BY <1>4, <2>1, FilePages DEF ListOK, DataPages
  <1>6. v \in 0 .. MaxCalls
    <2>1. count.calls \in 0 .. MaxCalls /\ v = count.calls + 1
      BY <1>1, <1>0c DEF Types
    <2> QED BY <1>4, <2>1, ConstFacts
  <1>7. PICK I : I = Images(f, start, size, v)
    OBVIOUS
  <1>8. /\ todo \in Seq(I)
        /\ \A q \in Page, c \in 0 .. (PageLen - 1) :
             q * PageLen + c \in start .. (start + size - 1) =>
               \E j \in 1 .. Len(todo) : todo[j].page = q
    <2>1. off + size <= f.cap * PageLen /\ f \in File /\ f.at + f.cap <= PageNum /\ Types
      BY <1>1, <1>2, <1>5
    <2>2. /\ todo \in Seq(Images(f, start, size, v))
          /\ \A q \in Page, c \in 0 .. (PageLen - 1) :
               q * PageLen + c \in start .. (start + size - 1) =>
                 \E j \in 1 .. Len(todo) : todo[j].page = q
      <3>1. WriteFits(f, off, size, start, v, todo)
        BY <1>0b, <1>0d, <1>6, <2>1 DEF WriteFits
      <3> QED BY ONLY SpifsAssumption, <2>1, <3>1, WritePagesFacts
    <2> QED BY <1>7, <2>2
  <1>9. I \subseteq [page: Page, data: CellPage]
    BY <1>5, <1>7 DEF Images
  <1>10. /\ todo \in Seq([page: Page, data: CellPage]) /\ Len(todo) \in Nat
         /\ \A j \in 1 .. Len(todo) : todo[j] \in I
    <2>1. todo \in Seq(I)
      BY <1>8
    <2> QED BY ONLY <1>9, <2>1, SeqMono
  <1>11. PICK pages : pages = {todo[i].page : i \in 1 .. Len(todo)}
    OBVIOUS
  <1>12. \A j \in 1 .. Len(todo) : todo[j].page \in PagesOf(f) /\ todo[j].page \in pages
    BY <1>7, <1>10, <1>11 DEF Images
  <1>13. pages \subseteq PagesOf(f)
    BY <1>11, <1>12
  <1>14. PICK end \in Nat : end = off + size
    OBVIOUS
  <1>15. PICK fs : fs = IF end > f.len THEN Resized(mem.files, f, end) ELSE mem.files
    OBVIOUS
  <1>16. /\ ListOK(fs) /\ NamesOf(fs) = NamesOf(mem.files) /\ DataPages(fs) = DataPages(mem.files)
         /\ \A g \in mem.files : \E h \in fs : h.name = g.name /\ h.at = g.at
    <2>1. ListOK(mem.files) /\ f \in mem.files /\ end <= f.cap * PageLen
      BY <1>2, <1>4, <1>5, <1>14
    <2> QED BY ONLY SpifsAssumption, end \in Nat, <1>15, <2>1, GrownList
  <1>17. /\ mem' \in MemType /\ mem'.on = mem.on /\ mem'.gen = mem.gen /\ mem'.pos = mem.pos
         /\ mem'.files = fs
    <2>1. mem \in MemType /\ fs \in SUBSET File
      BY <1>1, <1>16 DEF Types, ListOK
    <2>2. CASE end > f.len
      <3>1. mem' = [mem EXCEPT !.files = fs]
        BY <1>2, <1>14, <1>15, <2>2
      <3> QED BY ONLY <2>1, <3>1 DEF MemType
    <2>3. CASE ~(end > f.len)
      <3>1. mem' = mem /\ fs = mem.files
        BY <1>2, <1>14, <1>15, <2>3
      <3> QED BY <2>1, <3>1
    <2> QED BY <2>2, <2>3
  <1>18. PICK dirty \in BOOLEAN : dirty = Grows(f, end)
    <2>1. (end > f.len) \in BOOLEAN
      OBVIOUS
    <2>2. Grows(f, end) \in BOOLEAN
      BY <2>1, Zenon DEF Grows
    <2> QED BY <2>2, Zenon
  <1>19. op' = [NoOp EXCEPT !.kind = "write", !.todo = todo, !.rounds = 1,
                            !.dirty = dirty, !.pages = pages]
    BY <1>2, <1>11, <1>14, <1>18
  <1>20. /\ op'.kind = "write" /\ op'.pages = pages /\ op'.file = {} /\ op'.todo = todo
         /\ op'.k = 0 /\ op'.rounds = 1 /\ op'.dirty = dirty
    BY ONLY <1>19 DEF NoOp
  <1>21. ~op'.torn
    BY ONLY <1>19 DEF NoOp
  <1>22. op' \in OpType
    <2>1. NoOp \in OpType
      BY RestFacts
    <2>2. "write" \in Kinds /\ 1 \in 0 .. 2 /\ pages \in SUBSET Page
      BY <1>5, <1>13 DEF Kinds
    <2>3. todo \in Seq([page: Page, data: CellPage])
      BY <1>10
    <2> QED BY ONLY <1>19, <2>1, <2>2, <2>3, dirty \in BOOLEAN DEF OpType
  <1>23. PICK want : want = [p \in Page |-> [c \in 0 .. (PageLen - 1) |->
            IF p * PageLen + c \in start .. (start + size - 1) THEN v ELSE hist.want[p][c]]]
    OBVIOUS
  <1>24. hist \in HistType /\ hist.want \in [Page -> CellPage]
    BY <1>1 DEF Types, HistType
  <1>25. hist' = [hist EXCEPT !.want = want]
    BY <1>2, <1>23, <1>24 DEF HistType
  <1>26. /\ hist'.committed = hist.committed /\ hist'.attempts = hist.attempts
         /\ hist'.doubt = hist.doubt /\ hist'.safe = hist.safe /\ hist'.failed = hist.failed
         /\ hist'.want = want
    BY ONLY <1>24, <1>25 DEF HistType
  <1>27. hist' \in HistType
    <2>1. ASSUME NEW p \in Page
          PROVE  [c \in 0 .. (PageLen - 1) |->
                    IF p * PageLen + c \in start .. (start + size - 1) THEN v
                    ELSE hist.want[p][c]] \in CellPage
      <3>1. hist.want[p] \in CellPage
        BY <1>24
      <3> QED BY <1>6, <3>1 DEF CellPage
    <2>2. want \in [Page -> CellPage]
      BY <1>23, <2>1
    <2> QED BY ONLY <1>24, <1>25, <2>2 DEF HistType
  <1>28. NewCall /\ SameHist
    BY <1>20, <1>21, <1>26 DEF NewCall, SameHist
  <1>29. /\ Types' /\ Lists' /\ Calls' /\ Written' /\ Device' /\ NewestInMemory'
         /\ hist.safe /\ hist'.safe /\ Remnants(mem.gen)' = Remnants(mem.gen)
    <2>1. dirs' \in [Dirs -> DirType] /\ mem'.on /\ ListOK(mem'.files)
      BY <1>1, <1>3, <1>4, <1>16, <1>17 DEF Types
    <2>2. ~op'.dirty => mem'.files = mem.files
      BY <1>15, <1>17, <1>18, <1>20 DEF Grows
    <2>3. mem' \in MemType /\ mem'.gen = mem.gen /\ mem'.pos = mem.pos
      BY <1>17
    <2>4. op'.kind = "write"
      BY <1>20
    <2> QED BY <1>3, <1>22, <1>27, <1>28, <2>1, <2>2, <2>3, <2>4, CallNext
  <1>30. /\ SamePlaces(mem.files, hist.committed, hist.doubt)
         /\ \A gs \in Remnants(mem.gen) :
              DataPages(gs) \subseteq DataPages(hist.committed) \cup hist.doubt
         /\ \A p \in DataPages(mem.files) \cup DataPages(hist.committed) :
              p \notin hist.doubt => cell[p] = hist.want[p]
    BY <1>3, IdlePlaces
  <1>31. Places'
    <2>1. Moving' = {}
      BY <1>20 DEF Moving
    <2>2. SamePlaces(mem.files, hist.committed, hist.doubt \cup Moving)'
      BY <1>16, <1>17, <1>26, <1>30, <2>1 DEF SamePlaces
    <2>3. op'.kind # "create" /\ mem'.on
      BY <1>4, <1>17, <1>20
    <2> QED BY <1>26, <1>29, <1>30, <2>2, <2>3 DEF Places
  <1>32. DueExact'
    <2>1. Due' = pages
      BY <1>20 DEF Due
    <2>2. ASSUME NEW j \in 1 .. Len(todo), todo[j].page \notin hist.doubt
          PROVE  todo[j].data = want[todo[j].page]
      <3>1. PICK e, q : e = todo[j] /\ q = todo[j].page
        OBVIOUS
      <3>2. /\ e.data \in CellPage
            /\ \A c \in 0 .. (PageLen - 1) :
                 e.data[c] = IF q * PageLen + c \in start .. (start + size - 1)
                             THEN v ELSE cell[q][c]
        BY <1>7, <1>10, <2>2, <3>1 DEF Images
      <3>3. q \in Page /\ cell[q] = hist.want[q]
        BY <1>5, <1>12, <1>30, <2>2, <3>1
      <3>4. want[q] = [c \in 0 .. (PageLen - 1) |->
                IF q * PageLen + c \in start .. (start + size - 1) THEN v ELSE hist.want[q][c]]
        BY <1>23, <3>3
      <3>5. e.data = want[q]
        BY ONLY <3>2, <3>3, <3>4, ZenonT(40) DEF CellPage
      <3> QED BY <3>1, <3>5
    <2>3. \A p \in pages : \E j \in 1 .. Len(todo) : todo[j].page = p
      BY <1>11
    <2>4. pages \subseteq DataPages(mem'.files)
      BY <1>5, <1>13, <1>16, <1>17
    <2>5. op'.kind # "create" /\ hist'.doubt = hist.doubt /\ op'.todo = todo /\ hist'.want = want
      BY <1>20, <1>26
    <2>6. \A j \in 1 .. Len(op'.todo) :
            /\ op'.todo[j].page \in Due'
            /\ (op'.kind = "create" \/ op'.todo[j].page \notin hist'.doubt) =>
                 op'.todo[j].data = hist'.want[op'.todo[j].page]
      BY <1>12, <2>1, <2>2, <2>5
    <2>7. \A p \in Due' : \E j \in 1 .. Len(op'.todo) : op'.todo[j].page = p
      BY <2>1, <2>3, <2>5
    <2>8. op'.pages \subseteq DataPages(mem'.files)
      BY <1>20, <2>4
    <2>9. \A p \in Due' : (op'.kind = "create" \/ p \notin hist'.doubt) =>
            cell'[p] = hist'.want[p] \/ \E j \in 1 .. Len(op'.todo) : op'.todo[j].page = p
      BY <2>7
    <2> QED BY ONLY <2>6, <2>9, <2>8 DEF DueExact, Sure
  <1>33. DataExact'
    <2>1. ASSUME NEW p \in DataPages(mem.files) \cup DataPages(hist.committed),
                 p \notin hist.doubt, p \notin pages
          PROVE  cell[p] = want[p]
      <3>1. p \in Page
        <4>1. p \in DataPages(mem.files)
          BY <1>30, <2>1 DEF SamePlaces
        <4> QED BY <1>4, <4>1, FilePages
      <3>2. cell[p] = hist.want[p] /\ hist.want[p] \in CellPage
        BY <1>24, <1>30, <2>1, <3>1
      <3>3. \A c \in 0 .. (PageLen - 1) : ~(p * PageLen + c \in start .. (start + size - 1))
        BY <1>8, <1>11, <2>1, <3>1
      <3>4. want[p] = [c \in 0 .. (PageLen - 1) |->
                IF p * PageLen + c \in start .. (start + size - 1) THEN v ELSE hist.want[p][c]]
        BY <1>23, <3>1
      <3> QED BY ONLY <3>2, <3>3, <3>4 DEF CellPage
    <2> QED BY <1>3, <1>16, <1>17, <1>20, <1>26, <2>1 DEF DataExact
  <1>34. Handles'
    <2>1. op'.kind # "create"
      BY <1>20
    <2> QED BY <1>1, <1>3, <1>4, <1>16, <1>17, <2>1, HandlesPlaced
  <1> QED BY <1>4, <1>17, <1>29, <1>31, <1>32, <1>33, <1>34, CoreNext DEF Core

-----------------------------------------------------------------------------
(* The invariant is inductive                                              *)

\* A device of which nothing is known: no ToC is good, every page is in doubt.
LEMMA InitInv ==
  ASSUME SpifsAssumption, Init
  PROVE  IInv
  <1>1. /\ toc = [s \in Slot |-> [k \in 1 .. TocPages |-> LostPage]]
        /\ cell = [p \in Page |-> [i \in 0 .. (PageLen - 1) |-> Lost]]
        /\ mem = Unmounted /\ op = NoOp /\ dirs = [d \in Dirs |-> NoDir]
        /\ hist = [committed |-> {}, attempts |-> {}, want |-> cell, doubt |-> Page,
                   safe |-> FALSE, failed |-> FALSE]
        /\ count = [calls |-> 0, faults |-> 0, crashes |-> 0]
    BY DEF Init
  <1>2. /\ op.kind = "none" /\ op.pages = {} /\ op.file = {} /\ op.todo = <<>> /\ op.k = 0
        /\ Len(op.todo) = 0
    BY <1>1 DEF NoOp
  <1>3. ~op.torn
    BY <1>1 DEF NoOp
  <1>4. mem.files = {}
    BY <1>1 DEF Unmounted
  <1>5. ~mem.on /\ ~mem.own
    BY <1>1 DEF Unmounted
  <1>6. ~hist.safe
    BY <1>1
  <1>7. hist.doubt = Page
    BY <1>1
  <1>8. \A d \in Dirs : ~dirs[d].open
    BY <1>1 DEF NoDir
  <1>9. Types
    <2>1. cell \in [Page -> CellPage]
      BY <1>1, RestFacts
    <2>2. toc \in [Slot -> [1 .. TocPages -> TocPageType]] /\ dirs \in [Dirs -> DirType]
      BY <1>1, RestFacts
    <2>3. mem \in MemType /\ op \in OpType
      BY <1>1, RestFacts
    <2>4. hist \in HistType
      BY <1>1, <2>1 DEF HistType
    <2>5. count \in [calls: 0 .. MaxCalls, faults: Nat, crashes: Nat]
      BY <1>1, ConstFacts
    <2> QED BY <2>1, <2>2, <2>3, <2>4, <2>5 DEF Types
  <1>10. Lists
    <2>1. ListOK(mem.files)
      BY <1>4, FS_EmptySet, ConstFacts DEF ListOK, consistency_check
    <2>2. ASSUME NEW s \in Slot PROVE FooterOK(s)
      BY <1>1, ConstFacts DEF FooterOK, Footer
    <2> QED BY <1>2, <2>1, <2>2 DEF Lists
  <1>11. Calls
    BY <1>1, <1>2, <1>3, <1>4, <1>5, <1>8 DEF Calls
  <1>12. Written /\ Device /\ NewestInMemory
    BY <1>2, <1>3, <1>5 DEF Written, Device, NewestInMemory, Idle
  <1>13. Handles /\ DataExact /\ CrashAtomic /\ DataIntact /\ Places
    BY <1>5, <1>6, <1>7, <1>8 DEF Handles, DirScan, DataExact, CrashAtomic, DataIntact, Places
  <1>14. DueExact
    BY <1>2 DEF DueExact, Due
  <1> QED BY <1>9, <1>10, <1>11, <1>12, <1>13, <1>14 DEF IInv

\* Every step of the file system and of its device keeps the invariant.
LEMMA NextInv ==
  ASSUME SpifsAssumption, IInv, [Next]_vars
  PROVE  IInv'
  <1>1. CASE ErasePage
    <2>1. AtData \/ AtToc
      BY <1>1 DEF ErasePage
    <2>2. ~(AtData /\ AtToc)
      BY DEF AtData, AtToc
    <2> QED BY <1>1, <2>1, <2>2, EraseData, EraseToc
  <1>2. CASE ProgramPage
    <2>1. AtData \/ AtToc
      BY <1>2 DEF ProgramPage, Programmed
    <2>2. ~(AtData /\ AtToc)
      BY DEF AtData, AtToc
    <2> QED BY <1>2, <2>1, <2>2, ProgramData, ProgramToc
  <1>3. CASE DataDone
    BY <1>3, DataDoneDirty, DataDoneClean
  <1>4. CASE CommitDone
    BY <1>4, CommitMounted, CommitFirst, CommitLast
  <1>5. CASE PageFails
    BY <1>5, FailFormat, FailMounted
  <1>6. CASE Crash
    BY <1>6, CrashInv
  <1>7. CASE spifs_format
    BY <1>7, FormatInv
  <1>8. CASE spifs_mount
    BY <1>8, MountInv
  <1>9. CASE fs_unmount
    BY <1>9, UnmountInv
  <1>10. ASSUME NEW n \in Names, spifs_remove(n) PROVE IInv'
    BY <1>10, RemoveInv
  <1>11. ASSUME NEW n \in Names, NEW len \in Lens, spifs_create(n, len) PROVE IInv'
    BY <1>11, CreateInv
  <1>12. ASSUME NEW n \in Names, NEW len \in Lens, spifs_truncate(n, len) PROVE IInv'
    BY <1>12, TruncateInv
  <1>13. ASSUME NEW n \in Names, NEW r \in Ranges, spifs_write(n, r[1], r[2]) PROVE IInv'
    <2>1. r[1] \in Nat /\ r[2] \in Nat
      BY DEF SpifsAssumption
    <2> QED BY <1>13, <2>1, WriteInv
  <1>14. ASSUME NEW d \in Dirs, spifs_opendir(d) PROVE IInv'
    BY <1>14, OpendirInv
  <1>15. ASSUME NEW d \in Dirs, spifs_readdir(d) PROVE IInv'
    BY <1>15, ReaddirInv
  <1>16. ASSUME NEW d \in Dirs, spifs_closedir(d) PROVE IInv'
    BY <1>16, ClosedirInv
  <1>17. CASE UNCHANGED vars
    <2>1. /\ toc' = toc /\ cell' = cell /\ mem' = mem /\ op' = op /\ dirs' = dirs
          /\ hist' = hist /\ count' = count
      BY <1>17 DEF vars
    <2>2. Types' /\ Lists' /\ Calls'
      BY <2>1, SMTT(40) DEF IInv, Types, Lists, Calls, FooterOK, Footer, Idle, AtData, AtToc
    <2>3. Written' /\ Device' /\ NewestInMemory'
      BY <2>1 DEF IInv, Written, Device, NewestInMemory, Target, Kept, Good, GenOf, FilesOf,
                  Behind, Footer, Idle, AtToc
    <2>4. Handles' /\ DueExact' /\ DataExact'
      BY <2>1 DEF IInv, Handles, DirScan, find_file, DueExact, Due, Sure, DataExact
    <2>5. /\ GoodSlots' = GoodSlots /\ Recovered' = Recovered
          /\ GenOf(Newest(GoodSlots))' = GenOf(Newest(GoodSlots))
      BY <2>1, TocSame
    <2>6. Moving' = Moving
      BY <2>1 DEF Moving
    <2>7. CrashAtomic' /\ DataIntact'
      BY <2>1, <2>5 DEF IInv, CrashAtomic, DataIntact
    <2>8. /\ Remnants(mem.gen)' = Remnants(mem.gen)
          /\ Remnants(GenOf(Newest(GoodSlots)))' = Remnants(GenOf(Newest(GoodSlots)))
      BY <2>1, <2>5, TocSame DEF Remnants
    <2>9. Places'
      BY <2>1, <2>5, <2>6, <2>8 DEF IInv, Places
    <2> QED BY <2>2, <2>3, <2>4, <2>7, <2>9 DEF IInv
  <1>18. CASE Next
    BY <1>1, <1>2, <1>3, <1>4, <1>5, <1>6, <1>7, <1>8, <1>9, <1>10, <1>11, <1>12, <1>13,
       <1>14, <1>15, <1>16, <1>18 DEF Next
  <1> QED BY <1>17, <1>18

\* The invariant gives what the runs check of a file system at rest.
LEMMA IInvGives ==
  ASSUME SpifsAssumption, IInv
  PROVE  TypeOK /\ CrashAtomic /\ DataIntact /\ DirScan /\ Durable
  <1>1. Types /\ Lists /\ Calls /\ Device /\ NewestInMemory /\ Handles /\ CrashAtomic /\ DataIntact
    BY DEF IInv
  <1>2. TypeOK
    BY <1>1, TypesGive
  <1>3. DirScan
    BY <1>1 DEF Handles
  <1>4. ASSUME mem.on, Idle, ~hist.failed PROVE Recovered = mem.files
    <2>1. op = NoOp
      BY <1>1, <1>4 DEF Calls
    <2>2. op.k = 0
      BY <2>1 DEF NoOp
    <2>3. ~op.dirty
      BY <2>1 DEF NoOp
    <2>4. mem.files = hist.committed /\ ~(Good(Target) /\ GenOf(Target) > mem.gen)
      BY <1>1, <1>4, <2>2, <2>3 DEF NewestInMemory
    <2>5. /\ \A s \in Slot : FooterOK(s)
          /\ Kept(hist.committed) /\ OwnGen(mem.pos, mem.gen)
      BY <1>1, <1>4 DEF Lists, Device
    <2>6. Recovered = hist.committed
      BY <1>1, <1>4, <2>4, <2>5, MountedView
    <2> QED BY <2>4, <2>6
  <1> QED BY <1>1, <1>2, <1>3, <1>4 DEF Durable

-----------------------------------------------------------------------------
(* The theorems                                                            *)

\* The invariant holds of every state that the file system gets into.
THEOREM Invariance == Spec => []IInv
  <1>1. Init => IInv
    BY SpifsAssumption, InitInv
  <1>2. IInv /\ [Next]_vars => IInv'
    BY SpifsAssumption, NextInv
  <1> QED BY <1>1, <1>2, PTL DEF Spec

\* The list that spifs_create and spifs_remove keep never has more files than
\* the ToC has entries for, nor two of one name, and a call under way is at a
\* page that there is: whatever the calls, the failed requests and the losses
\* of power.
THEOREM TypeCorrect == Spec => []TypeOK
  <1>1. IInv => TypeOK
    BY SpifsAssumption, IInvGives
  <1> QED BY <1>1, Invariance, PTL

\* spifs_commit_toc is atomic with regard to power: once a spifs_format or a
\* spifs_mount has succeeded, each moment leaves a device on which the next
\* spifs_mount finds one whole and consistent list, that of the last commit or
\* of an attempt since.
THEOREM CrashCorrect == Spec => []CrashAtomic
  <1>1. IInv => CrashAtomic
    BY SpifsAssumption, IInvGives
  <1> QED BY <1>1, Invariance, PTL

\* The pages of every file that a mount may find hold what the spifs_write
\* calls that succeeded put there, and blanks elsewhere: spifs_create erases
\* no page of such a file, and a partial page keeps the rest of its cells.
THEOREM DataCorrect == Spec => []DataIntact
  <1>1. IInv => DataIntact
    BY SpifsAssumption, IInvGives
  <1> QED BY <1>1, Invariance, PTL

\* When a call has returned and no request has failed since the last commit,
\* the device has the list of files that memory has, lengths included.
THEOREM DurableCorrect == Spec => []Durable
  <1>1. IInv => Durable
    BY SpifsAssumption, IInvGives
  <1> QED BY <1>1, Invariance, PTL

\* The handle of a spifs_opendir never stays at a file that spifs_remove has
\* freed, and spifs_readdir passes over none that it has still to list.
THEOREM DirCorrect == Spec => []DirScan
  <1>1. IInv => DirScan
    BY SpifsAssumption, IInvGives
  <1> QED BY <1>1, Invariance, PTL
=============================================================================
