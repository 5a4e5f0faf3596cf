------------------------------- MODULE Spifs --------------------------------
(***************************************************************************)
(* The SPI-flash file system lib/fs/spifs/spifs.c on a block device that   *)
(* may lose power, or fail a request, between any two pages.               *)
(*                                                                         *)
(* The device keeps two tables of contents (ToCs), one at each end, and    *)
(* data pages between them.  spifs->lock makes the calls serial, so one    *)
(* call is under way at a time; what interleaves with its page writes is   *)
(* the loss of power.  A call that fails its checks changes nothing and is *)
(* no action.  Lengths are counted in cells; a page holds PageLen of them. *)
(***************************************************************************)
EXTENDS Integers, Sequences, FiniteSetsExt

CONSTANTS
  Names,           \* file names
  PageNum,         \* pages between the two ToCs
  PageLen,         \* cells of a page
  TocPages,        \* args->toc_pages
  EntriesPerPage,  \* page_size / SPIFS_ENTRY_LENGTH
  Dirs,            \* handles of open directories
  Lens,            \* lengths that create and truncate are called with
  Ranges,          \* <<off, size>> that write is called with
  MaxCalls,        \* bound on the calls that change the device
  MaxFaults,       \* bound on the requests the device fails
  MaxCrashes       \* bound on the losses of power

Page   == 0 .. (PageNum - 1)
Slot   == {"front", "back"}
End    == "back-toc"              \* the list of files ends with the back ToC
MaxFiles == TocPages * EntriesPerPage - 4   \* header, footer, both ToC entries

ASSUME SpifsAssumption ==
  /\ PageNum \in Nat \ {0} /\ PageLen \in Nat \ {0} /\ TocPages \in Nat \ {0}
  /\ EntriesPerPage \in Nat /\ MaxFiles \in Nat \ {0}   \* else ERR_TOO_BIG
  /\ End \notin Names                \* it stands for a pointer, and is no name
  /\ Lens \subseteq Nat /\ Ranges \subseteq Nat \X Nat
  /\ MaxCalls \in Nat /\ MaxFaults \in Nat /\ MaxCrashes \in Nat

VARIABLES
  toc,     \* the pages of the two ToCs
  cell,    \* the data pages
  mem,     \* struct spifs_t, and the reference fs_mount keeps on it
  op,      \* the call under way
  dirs,    \* dcookies
  hist,    \* history: what a recovery may find
  count    \* calls, faults and crashes so far

vars == <<toc, cell, mem, op, dirs, hist, count>>

Lost == -1                        \* what an interrupted write leaves behind
LostPage == [gen |-> Lost, part |-> {}, sum |-> <<>>]
Blank == 0                        \* an erased cell
NoDir == [next |-> End, due |-> {}, open |-> FALSE]

\* toc_file_t: at is page_idx, cap the pages of the capacity
File == [name: Names, at: Page, cap: 1 .. PageNum, len: 0 .. (PageNum * PageLen)]
NoOp == [kind |-> "none", pages |-> {}, file |-> {}, todo |-> <<>>,
         dirty |-> FALSE, k |-> 0, rounds |-> 0, torn |-> FALSE]
Unmounted == [on |-> FALSE, own |-> FALSE, gen |-> 0, pos |-> "front", files |-> {}]

PagesOf(f)  == f.at .. (f.at + f.cap - 1)
NamesOf(fs) == {f.name : f \in fs}
find_file(n) == CHOOSE f \in mem.files : f.name = n
Other(s)    == IF s = "front" THEN "back" ELSE "front"

Init ==
  /\ toc = [s \in Slot |-> [k \in 1 .. TocPages |-> LostPage]]
  /\ cell = [p \in Page |-> [i \in 0 .. (PageLen - 1) |-> Lost]]
  /\ mem = Unmounted
  /\ op = NoOp
  /\ dirs = [d \in Dirs |-> NoDir]
  /\ hist = [committed |-> {}, attempts |-> {}, want |-> cell, doubt |-> Page,
             safe |-> FALSE, failed |-> FALSE]
  /\ count = [calls |-> 0, faults |-> 0, crashes |-> 0]

Count(what) == count' = [count EXCEPT ![what] = @ + 1]

-----------------------------------------------------------------------------
(* The tables of contents                                                  *)

\* The place of a file in the list, which is in ascending order of the pages
Place(fs, f) == Cardinality({g \in fs : g.at <= f.at})

\* The entries of page k: page 1 begins with the header and the front ToC's
\* entry, the last page ends with the back ToC's entry and the footer
TocPart(fs, k) ==
  {f \in fs : Place(fs, f) \in ((k - 1) * EntriesPerPage - 1) .. (k * EntriesPerPage - 2)}

\* Page k of the ToC that spifs_commit_toc writes: the generation is in the
\* header, the checksum over everything in the footer
TocPage(gen, fs, k) ==
  [gen  |-> IF k = 1 THEN gen ELSE 0,
   part |-> TocPart(fs, k),
   sum  |-> IF k = TocPages THEN <<gen, fs>> ELSE <<>>]

\* get_toc_generation finds the checksum right
Good(s) ==
  LET pg == toc[s] IN
  /\ \A k \in 1 .. TocPages : pg[k] # LostPage
  /\ pg[TocPages].sum = <<pg[1].gen, UNION {pg[k].part : k \in 1 .. TocPages}>>

GoodSlots == {s \in Slot : Good(s)}
GenOf(s)   == toc[s][1].gen
FilesOf(s) == toc[s][TocPages].sum[2]

\* The ToC that spifs_mount chooses among the ones it could read
Newest(ss) == CHOOSE s \in ss : \A t \in ss : GenOf(t) <= GenOf(s)

\* Lists newer than generation g whose footer is still on the device.  The next
\* commit has generation g + 1 as well and may, half done, complete one of them
Remnants(g) ==
  {toc[s][TocPages].sum[2] : s \in {t \in Slot : /\ toc[t][TocPages] # LostPage
                                               /\ toc[t][TocPages].sum[1] > g}}

\* The files a mount after a loss of power finds
Recovered == FilesOf(Newest(GoodSlots))

-----------------------------------------------------------------------------
(* Placement of files                                                      *)

\* Mutant: the run may begin inside the file before it
OverlapRuns(fs, n) ==
  {s \in {0} \cup {f.at + f.cap - 1 : f \in fs} : s + n <= PageNum}

\* The runs of n free pages that follow a file or the front ToC
OpenRuns(fs, n) ==
  {s \in {0} \cup {f.at + f.cap : f \in fs} :
     /\ s + n <= PageNum
     /\ \A f \in fs : PagesOf(f) \cap (s .. (s + n - 1)) = {}}

\* find_open_run takes the first one
find_open_run(fs, n) == Min(OpenRuns(fs, n))

\* consistency_check: no file begins inside another one
consistency_check(fs) ==
  \A f, g \in fs : f # g => PagesOf(f) \cap PagesOf(g) = {}

\* ROUNDUP of a length to pages; an empty file has one
PagesFor(len) == IF len = 0 THEN 1 ELSE (len + PageLen - 1) \div PageLen

\* What the list has after a place: the next file, or the back ToC
After(fs, at) ==
  LET later == {f \in fs : f.at > at}
  IN IF later = {} THEN End
     ELSE (CHOOSE f \in later : \A g \in later : f.at <= g.at).name

-----------------------------------------------------------------------------
(* Page writes: spifs_write_page, and bio_erase of a new file              *)

Idle == op.kind = "none"

Target == Other(mem.pos)

\* The page at hand is a data page, while any is left, and then a ToC page
AtData == op.todo # <<>>
AtToc  == op.todo = <<>> /\ op.k \in 1 .. TocPages

\* bio_erase, or the beginning of a write without one: the page is lost.
\* A ToC page is the attempt to make a new list of files durable
ErasePage ==
  /\ AtData \/ AtToc
  /\ ~op.torn
  /\ op' = [op EXCEPT !.torn = TRUE]
  /\ \/ /\ AtData
        /\ cell' = [cell EXCEPT ![Head(op.todo).page] = [i \in DOMAIN @ |-> Lost]]
        /\ UNCHANGED <<toc, hist>>
     \/ /\ AtToc
        /\ toc' = [toc EXCEPT ![Target][op.k] = LostPage]
        /\ hist' = [hist EXCEPT !.attempts = @ \cup {mem.files}]
        /\ UNCHANGED cell
  /\ UNCHANGED <<mem, dirs, count>>

\* bio_write_block succeeds
Programmed ==
  \/ /\ AtData
     /\ cell' = [cell EXCEPT ![Head(op.todo).page] = Head(op.todo).data]
     /\ UNCHANGED toc
  \/ /\ AtToc
     /\ toc' = [toc EXCEPT ![Target][op.k] = TocPage(mem.gen + 1, mem.files, op.k)]
     /\ UNCHANGED cell

ProgramPage ==
  /\ op.torn
  /\ Programmed
  /\ op' = IF AtData THEN [op EXCEPT !.todo = Tail(@), !.torn = FALSE]
           ELSE [op EXCEPT !.k = @ + 1, !.torn = FALSE]
  /\ UNCHANGED <<mem, dirs, hist, count>>

\* All data pages are written.  spifs_create adds the file to the list, and
\* the calls that changed the list go on to spifs_commit_toc
DataDone ==
  /\ ~Idle /\ op.todo = <<>> /\ op.k = 0
  /\ IF op.dirty
     THEN /\ mem' = [mem EXCEPT !.files = @ \cup IF op.kind = "create" THEN op.file ELSE {}]
          /\ op' = [op EXCEPT !.k = 1]
     ELSE op' = NoOp /\ UNCHANGED mem
  /\ UNCHANGED <<toc, cell, dirs, hist, count>>

-----------------------------------------------------------------------------
(* The end of spifs_commit_toc                                             *)

\* The generation and the position move once the pages went through
CommittedMem(m) == [m EXCEPT !.gen = @ + 1, !.pos = Other(@)]

\* Mutant: a failed commit moves them as well
FailedMovesOn(m) == CommittedMem(m)

\* A failed one leaves them, so that the next commit writes the bad ToC again
FailedMem(m) == m

DataPages(fs) == UNION {PagesOf(f) : f \in fs}

CommitDone ==
  /\ op.k = TocPages + 1
  /\ mem' = IF op.kind = "format" /\ op.rounds = 1 THEN Unmounted ELSE CommittedMem(mem)
  /\ op' = IF op.rounds = 1 THEN NoOp ELSE [op EXCEPT !.k = 1, !.rounds = @ - 1]
  /\ hist' = IF op.rounds > 1 THEN hist
             ELSE [hist EXCEPT !.committed = mem.files, !.attempts = {},
                               !.safe = TRUE, !.failed = FALSE,
                               !.doubt = IF op.kind = "create"
                                         THEN @ \ DataPages(op.file) ELSE @]
  /\ UNCHANGED <<toc, cell, dirs, count>>

\* The device fails the request: the page keeps what it has or gets what was
\* to be written.  The call returns; spifs_create takes the file back, the
\* others leave the list as they made it
PageFails ==
  /\ AtData \/ AtToc
  /\ count.faults < MaxFaults
  /\ (op.torn /\ Programmed) \/ UNCHANGED <<toc, cell>>
  /\ op' = NoOp
  /\ mem' = IF op.kind = "format" THEN Unmounted
            ELSE [FailedMem(mem) EXCEPT
                    !.files = IF op.kind = "create" THEN @ \ op.file ELSE @]
  /\ hist' = [hist EXCEPT !.failed = TRUE,
                          !.attempts = IF AtToc THEN @ \cup {mem.files} ELSE @,
                          !.doubt = @ \cup op.pages \cup DataPages(op.file)]
  /\ Count("faults")
  /\ UNCHANGED dirs

\* Power is lost: nothing but the device remains
Crash ==
  /\ mem.on \/ ~Idle
  /\ count.crashes < MaxCrashes
  /\ mem' = Unmounted
  /\ op' = NoOp
  /\ dirs' = [d \in Dirs |-> NoDir]
  /\ hist' = [hist EXCEPT !.doubt = @ \cup op.pages]
  /\ Count("crashes")
  /\ UNCHANGED <<toc, cell>>

-----------------------------------------------------------------------------
(* The calls                                                               *)

\* spifs->lock is free and the file system is there
Call == Idle /\ mem.on /\ count.calls < MaxCalls

\* spifs_format commits an empty list to the back ToC and then to the front one
spifs_format ==
  /\ Idle /\ ~mem.on
  /\ count.calls < MaxCalls
  /\ mem' = [Unmounted EXCEPT !.gen = 1]
  /\ op' = [NoOp EXCEPT !.kind = "format", !.k = 1, !.rounds = 2]
  /\ hist' = [hist EXCEPT !.safe = FALSE, !.doubt = Page,
                          !.attempts = @ \cup {FilesOf(s) : s \in GoodSlots}]
  /\ Count("calls")
  /\ UNCHANGED <<toc, cell, dirs>>

\* spifs_mount takes the newer of the ToCs it can read.  A ToC whose pages it
\* fails to read (bad) counts as a corrupt one
spifs_mount ==
  /\ Idle /\ ~mem.on
  /\ \E bad \in SUBSET Slot :
       /\ Cardinality(bad) + count.faults <= MaxFaults
       /\ GoodSlots \ bad # {}
       /\ LET s == Newest(GoodSlots \ bad)
              stale == s # Newest(GoodSlots)
          IN /\ consistency_check(FilesOf(s))
             /\ mem' = [on |-> TRUE, own |-> TRUE, gen |-> GenOf(s), pos |-> s,
                        files |-> FilesOf(s)]
             /\ hist' = [hist EXCEPT
                           !.committed = FilesOf(s), !.safe = TRUE, !.failed = stale,
                           !.attempts = Remnants(GenOf(s)),
                           !.doubt = IF stale THEN Page ELSE @]
       /\ count' = [count EXCEPT !.faults = @ + Cardinality(bad)]
  /\ UNCHANGED <<toc, cell, op, dirs>>

\* spifs_unmount, with the last reference of lib/fs/fs.c
Put(m, ds) ==
  IF ~m.own /\ \A d \in Dirs : ~ds[d].open THEN Unmounted ELSE m

\* fs_unmount returns the reference of the mount
fs_unmount ==
  /\ Idle /\ mem.own
  /\ mem' = Put([mem EXCEPT !.own = FALSE], dirs)
  /\ UNCHANGED <<toc, cell, op, dirs, hist, count>>

\* Mutant: the entry of the back ToC is taken for a free one
EntryMiscounted(fs) == Cardinality(fs) <= MaxFiles

\* The ToC has an entry for one more file
EntryFree(fs) == Cardinality(fs) < MaxFiles

\* spifs_create: the run is erased before the list has the file
spifs_create(n, len) ==
  /\ Call
  /\ n \notin NamesOf(mem.files)
  /\ EntryFree(mem.files)
  /\ OpenRuns(mem.files, PagesFor(len)) # {}
  /\ LET at == find_open_run(mem.files, PagesFor(len))
         f  == [name |-> n, at |-> at, cap |-> PagesFor(len), len |-> len]
         blank == [i \in 0 .. (PageLen - 1) |-> Blank]
     IN /\ op' = [NoOp EXCEPT !.kind = "create", !.file = {f}, !.dirty = TRUE, !.rounds = 1,
                              !.todo = [i \in 1 .. f.cap |-> [page |-> at + i - 1, data |-> blank]]]
        /\ hist' = [hist EXCEPT !.want = [p \in Page |-> IF p \in PagesOf(f) THEN blank ELSE @[p]]]
  /\ Count("calls")
  /\ UNCHANGED <<toc, cell, mem, dirs>>

\* Mutant: a directory handle keeps the file that goes
LeaveCookies(ds, f, fs) == ds

\* The directory handles that are at the file move to the next one
AdvanceCookies(ds, f, fs) ==
  [d \in Dirs |-> IF ds[d].open /\ ds[d].next = f.name
                  THEN [ds[d] EXCEPT !.next = After(fs, f.at)] ELSE ds[d]]

spifs_remove(n) ==
  /\ Call
  /\ n \in NamesOf(mem.files)
  /\ LET f == find_file(n)
         ds == AdvanceCookies(dirs, f, mem.files)
     IN /\ dirs' = [d \in Dirs |-> [ds[d] EXCEPT !.due = @ \ {n}]]
        /\ mem' = [mem EXCEPT !.files = @ \ {f}]
        /\ op' = [NoOp EXCEPT !.kind = "remove", !.file = {f}, !.k = 1, !.rounds = 1]
  /\ Count("calls")
  /\ UNCHANGED <<toc, cell, hist>>

\* The file with another length
Resized(fs, f, len) == (fs \ {f}) \cup {[f EXCEPT !.len = len]}

spifs_truncate(n, len) ==
  /\ Call
  /\ n \in NamesOf(mem.files)
  /\ len <= find_file(n).len
  /\ mem' = [mem EXCEPT !.files = Resized(@, find_file(n), len)]
  /\ op' = [NoOp EXCEPT !.kind = "truncate", !.k = 1, !.rounds = 1]
  /\ Count("calls")
  /\ UNCHANGED <<toc, cell, dirs, hist>>

-----------------------------------------------------------------------------
(* spifs_write                                                             *)

\* The first cells of page p from cell i on, n of them, take value v
Patch(p, i, n, v) ==
  [page |-> p, data |-> [c \in 0 .. (PageLen - 1) |->
                          IF i <= c /\ c < i + n THEN v ELSE cell[p][c]]]

\* Mutant: the leading page takes as much as a whole page
LeadWhole(start, size) == IF start % PageLen = 0 THEN 0 ELSE IF size < PageLen THEN size ELSE PageLen

\* The cells that the leading partial page takes
LeadLen(start, size) ==
  IF start % PageLen = 0 THEN 0
  ELSE LET room == PageLen - (start % PageLen) IN IF size < room THEN size ELSE room

\* The leading partial page, the whole pages, and the trailing partial one
WritePages(start, size, v) ==
  LET lead  == LeadLen(start, size)
      p     == start \div PageLen
      rest  == IF start % PageLen = 0 THEN p ELSE p + 1
      whole == (size - lead) \div PageLen
      trail == (size - lead) % PageLen
  IN (IF start % PageLen = 0 THEN <<>> ELSE <<Patch(p, start % PageLen, lead, v)>>)
     \o [i \in 1 .. whole |-> Patch(rest + i - 1, 0, PageLen, v)]
     \o (IF trail = 0 THEN <<>> ELSE <<Patch(rest + whole, 0, trail, v)>>)

\* Mutant: a longer file is no reason for a commit
NeverDirty(f, end) == FALSE

\* The write grows the file, which is why the ToC has to be written
Grows(f, end) == end > f.len

\* The length in memory grows before the data pages are written
spifs_write(n, off, size) ==
  /\ Call
  /\ n \in NamesOf(mem.files)
  /\ LET f     == find_file(n)
         start == off + f.at * PageLen
         v     == count.calls + 1
         todo  == WritePages(start, size, v)
     IN /\ off + size <= f.cap * PageLen
        /\ mem' = IF off + size > f.len
                  THEN [mem EXCEPT !.files = Resized(@, f, off + size)] ELSE mem
        /\ op' = [NoOp EXCEPT !.kind = "write", !.todo = todo, !.rounds = 1,
                              !.dirty = Grows(f, off + size),
                              !.pages = {todo[i].page : i \in 1 .. Len(todo)}]
        /\ hist' = [hist EXCEPT
             !.want = [p \in Page |-> [c \in 0 .. (PageLen - 1) |->
               IF p * PageLen + c \in start .. (start + size - 1) THEN v ELSE @[p][c]]]]
  /\ Count("calls")
  /\ UNCHANGED <<toc, cell, dirs>>

-----------------------------------------------------------------------------
(* Directories                                                             *)

\* due: the names that were there when the handle was opened, have not been
\* removed since and have not been listed yet
spifs_opendir(d) ==
  /\ Idle /\ mem.on /\ ~dirs[d].open
  /\ dirs' = [dirs EXCEPT ![d] = [next |-> After(mem.files, -1), open |-> TRUE,
                                  due |-> NamesOf(mem.files)]]
  /\ UNCHANGED <<toc, cell, mem, op, hist, count>>

spifs_readdir(d) ==
  /\ Idle /\ dirs[d].open /\ dirs[d].next # End
  /\ dirs' = [dirs EXCEPT ![d].next = After(mem.files, find_file(@).at),
                          ![d].due = @ \ {dirs[d].next}]
  /\ UNCHANGED <<toc, cell, mem, op, hist, count>>

spifs_closedir(d) ==
  /\ Idle /\ dirs[d].open
  /\ dirs' = [dirs EXCEPT ![d] = NoDir]
  /\ mem' = Put(mem, dirs')
  /\ UNCHANGED <<toc, cell, op, hist, count>>

Next ==
  \/ ErasePage \/ ProgramPage \/ DataDone \/ CommitDone \/ PageFails \/ Crash
  \/ spifs_format \/ spifs_mount \/ fs_unmount
  \/ \E n \in Names :
       \/ spifs_remove(n)
       \/ \E len \in Lens : spifs_create(n, len) \/ spifs_truncate(n, len)
       \/ \E r \in Ranges : spifs_write(n, r[1], r[2])
  \/ \E d \in Dirs : spifs_opendir(d) \/ spifs_readdir(d) \/ spifs_closedir(d)

Spec == Init /\ [][Next]_vars

-----------------------------------------------------------------------------
(* Properties                                                              *)

\* Types, and the shape of the list of files in memory: at most as many as
\* the ToC has entries for, with distinct names
TypeOK ==
  /\ cell \in [Page -> [0 .. (PageLen - 1) -> {Lost} \cup (0 .. MaxCalls)]]
  /\ mem \in [on: BOOLEAN, own: BOOLEAN, gen: Nat, pos: Slot, files: SUBSET File]
  /\ Cardinality(mem.files) <= MaxFiles
  /\ \A f, g \in mem.files : f.name = g.name => f = g
  /\ op.k \in 0 .. (TocPages + 1) /\ op.rounds \in 0 .. 2
  /\ dirs \in [Dirs -> [next: Names \cup {End}, due: SUBSET Names, open: BOOLEAN]]

\* spifs_commit_toc writes over the older ToC only, and over the same one again
\* when that failed: once a format or a mount has succeeded, power may be lost
\* at any page, also after a failed write, and the next mount finds the files
\* of the last commit or of an attempt since, one whole list and consistent
CrashAtomic ==
  hist.safe =>
    /\ GoodSlots # {}
    /\ Recovered \in {hist.committed} \cup hist.attempts
    /\ consistency_check(Recovered)

\* Whatever call is interrupted, the pages of the files that the next mount
\* finds hold what the writes that succeeded put there and blanks elsewhere:
\* spifs_create erases no page that is still in a ToC, and spifs_write leaves
\* the rest of a page alone.  Left out are the pages of an interrupted or failed
\* write, and of a file whose removal or creation the device failed
DataIntact ==
  (hist.safe /\ GoodSlots # {}) =>
    \A f \in Recovered : \A p \in PagesOf(f) \ (hist.doubt \cup op.pages) :
       cell[p] = hist.want[p]

\* Between the calls the device has the list of files that memory has, lengths
\* included, when no request has failed since the last commit
Durable == (mem.on /\ Idle /\ ~hist.failed) => Recovered = mem.files

\* A directory handle never points to a file that spifs_remove has freed, and
\* the files it has still to list lie at or after the place it points to
DirScan ==
  \A d \in Dirs : dirs[d].open =>
    IF dirs[d].next = End THEN dirs[d].due = {}
    ELSE /\ dirs[d].next \in NamesOf(mem.files)
         /\ \A n \in dirs[d].due : find_file(n).at >= find_file(dirs[d].next).at

=============================================================================
