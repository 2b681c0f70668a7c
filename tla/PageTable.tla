------------------------------ MODULE PageTable -----------------------------
(***************************************************************************)
(* The memory manager of CSC369/Virtual Memory: the two-level page table,  *)
(* the coremap, the page fault path with its eviction (pagetable.c), the   *)
(* swap file (swap.c) and the reference made through them (sim.c).         *)
(*                                                                         *)
(* The flag bits of a pgtbl_entry_t are one set of pages each, its frame   *)
(* number and swap offset one function each.  The victim of an eviction is *)
(* any frame here: evict_fcn is a pointer, and with -a rand this is the    *)
(* whole of the policy.  The other policies are modules that extend this   *)
(* one and say which victim they take.                                     *)
(***************************************************************************)
EXTENDS Integers, FiniteSets

CONSTANTS
    Page,           \* virtual pages (a trace names a page by its base address)
    NoPage,         \* in an unused coremap entry or an unwritten cell
    NoRef,          \* out before the first reference
    DirIndex,       \* directory indices
    PGDIR_INDEX,    \* PGDIR_INDEX[p]: the second-level table that holds p
    memsize,        \* frames of physical memory (-m)
    swapsize,       \* slots of the swap file (-s)
    AccessType,     \* "Load" (trace letters I, L) and "Store" (S, M)
    MaxRefs         \* BOUND: the length of the longest trace replayed

ASSUME PageAssumption     == IsFiniteSet(Page) /\ NoPage \notin Page
ASSUME DirAssumption      == PGDIR_INDEX \in [Page -> DirIndex]
ASSUME MemsizeAssumption  == memsize \in Nat \ {0}
ASSUME SwapsizeAssumption == swapsize \in Nat
ASSUME AccessAssumption   == AccessType \subseteq {"Load", "Store"}
ASSUME MaxRefsAssumption  == MaxRefs \in Nat

INVALID_SWAP == -1
Frame        == 0 .. memsize - 1
Slot         == 0 .. swapsize - 1       \* byte offset / SIMPAGESIZE

(* The part of a simulated page that access_mem reads and writes. *)
Cell  == [vaddr : Page \cup {NoPage}, version : Nat]
Blank == [vaddr |-> NoPage, version |-> 0]     \* malloc'd, or past end of file

VARIABLES
    pgdir,          \* directory entries whose second-level table exists
    valid,          \* pages with PG_VALID
    dirty,          \* pages with PG_DIRTY
    onswap,         \* pages with PG_ONSWAP
    frame,          \* frame[p]: the frame number in p's entry
    swap_off,       \* swap_off[p]: p's slot, or INVALID_SWAP
    coremap,        \* coremap[f]: the page whose pte is there, NoPage if !in_use
    physmem,        \* physmem[f]: content of a frame
    swapmap,        \* slots marked in the bitmap
    swapfile,       \* swapfile[s]: content of a slot, Blank if never written
    status,         \* "running", "done", or why the process called exit(1)
    hit_count, miss_count, ref_count, evict_clean_count, evict_dirty_count,
    out             \* what access_mem saw at the last reference

tableVars == <<pgdir, valid, dirty, onswap, frame, swap_off>>
memVars   == <<coremap, physmem>>
swapVars  == <<swapmap, swapfile>>
countVars == <<hit_count, miss_count, ref_count, evict_clean_count, evict_dirty_count>>
vars      == <<tableVars, memVars, swapVars, countVars, status, out>>

Observation(t, p, tag, ver) == [type |-> t, page |-> p, vaddr |-> tag, version |-> ver]

-----------------------------------------------------------------------------
Init ==
    /\ pgdir    = {}
    /\ valid    = {}
    /\ dirty    = {}
    /\ onswap   = {}
    /\ frame    = [p \in Page |-> 0]
    /\ swap_off = [p \in Page |-> INVALID_SWAP]
    /\ coremap  = [f \in Frame |-> NoPage]
    /\ physmem  = [f \in Frame |-> Blank]
    /\ swapmap  = {}
    /\ swapfile = [s \in Slot |-> Blank]
    /\ status   = "running"
    /\ hit_count = 0 /\ miss_count = 0 /\ ref_count = 0
    /\ evict_clean_count = 0 /\ evict_dirty_count = 0
    /\ out = NoRef

-----------------------------------------------------------------------------
(* Second-level tables.                                                      *)

(* The entries that the reference to p (re)initialises: all those of p's table
   when its directory entry is invalid, none otherwise. *)
FreshEntries(p) ==
    {q \in Page : PGDIR_INDEX[q] = PGDIR_INDEX[p] /\ PGDIR_INDEX[p] \notin pgdir}

TableValid(p)   == valid \ FreshEntries(p)
TableDirty(p)   == dirty \ FreshEntries(p)
TableOnSwap(p)  == onswap \ FreshEntries(p)
TableSwapOff(p) ==
    [q \in Page |-> IF q \in FreshEntries(p) THEN INVALID_SWAP ELSE swap_off[q]]
TableFrame(p)   ==
    [q \in Page |-> IF q \in FreshEntries(p) THEN 0 ELSE frame[q]]

-----------------------------------------------------------------------------
(* The swap file.                                                            *)

(* s is the lowest clear bit of the bitmap, the one bitmap_alloc returns. *)
LowestFree(s) == /\ s \in Slot \ swapmap
                 /\ \A r \in Slot \ swapmap : s <= r

SwapHasRoom == Slot \ swapmap # {}

\* Mutant: every pageout allocates a slot.
PageoutSlotFresh(off, s) == LowestFree(s)

(* swap_pageout writes a page whose entry says slot off to that slot, or to the
   lowest free one if the entry has none yet. *)
PageoutSlot(off, s) == IF off = INVALID_SWAP THEN LowestFree(s) ELSE s = off

(* What a frame that held `old' holds after swap_pagein from slot s.  Slots are
   allocated in ascending order, so one that was never written lies at the end
   of the file: read() returns 0 there, which swap_pagein returns and its caller
   takes for success, and the frame keeps what it had. *)
Pagein(file, s, old) == IF file[s] = Blank THEN old ELSE file[s]

-----------------------------------------------------------------------------
(* References.                                                               *)

CanRefer == status = "running" /\ ref_count < MaxRefs

\* Mutant: the version counts down.
TouchDecrements(t, c) == IF t = "Store" THEN [c EXCEPT !.version = @ - 1] ELSE c

(* access_mem on the cell it was given a pointer to. *)
Touch(t, c) == IF t = "Store" THEN [c EXCEPT !.version = @ + 1] ELSE c

(* The tail of find_physpage and access_mem: content c of frame f is what
   the reference sees. *)
Observe(t, p, f, c) ==
    /\ physmem' = [physmem EXCEPT ![f] = Touch(t, c)]
    /\ out' = Observation(t, p, c.vaddr, c.version)
    /\ ref_count' = ref_count + 1
    /\ pgdir' = pgdir \cup {PGDIR_INDEX[p]}

\* Mutant: a store does not mark its page.
DirtiedByNothing(t, p) == {}

(* A store sets PG_DIRTY. *)
DirtiedBy(t, p) == IF t = "Store" THEN {p} ELSE {}

Hit(t, p) ==
    /\ CanRefer
    /\ p \in TableValid(p)
    /\ valid' = TableValid(p)
    /\ dirty' = TableDirty(p) \cup DirtiedBy(t, p)
    /\ onswap' = TableOnSwap(p)
    /\ frame' = TableFrame(p)
    /\ swap_off' = TableSwapOff(p)
    /\ hit_count' = hit_count + 1
    /\ Observe(t, p, frame[p], physmem[frame[p]])
    /\ UNCHANGED <<coremap, swapVars, miss_count, evict_clean_count, evict_dirty_count, status>>

Miss(p) == CanRefer /\ p \notin TableValid(p)

\* Mutant: every fault initialises the frame.
ContentZeroed(p, f, file) == [vaddr |-> p, version |-> 0]

(* The frame's new content: zeroed and tagged at the first reference, read
   from p's slot afterwards.  file is the swap file as the eviction left it. *)
InitFrame(p) == [vaddr |-> p, version |-> 0]
Content(p, f, file) == IF p \in TableOnSwap(p)
                         THEN Pagein(file, TableSwapOff(p)[p], physmem[f])
                         ELSE InitFrame(p)

(* A page that was never on swap is dirty from the start: dropping it would lose
   even its zeroes. *)
DirtiedByFill(t, p) == IF p \in TableOnSwap(p) THEN DirtiedBy(t, p) ELSE {p}

(* The faulting page p is installed in frame f.  valid0, dirty0 and file are the
   flags and the swap file the eviction, if there was one, left behind. *)
Fill(t, p, f, valid0, dirty0, file) ==
    /\ coremap' = [coremap EXCEPT ![f] = p]
    /\ frame' = [TableFrame(p) EXCEPT ![p] = f]
    /\ valid' = valid0 \cup {p}
    /\ dirty' = dirty0 \cup DirtiedByFill(t, p)
    /\ miss_count' = miss_count + 1
    /\ Observe(t, p, f, Content(p, f, file))
    /\ UNCHANGED <<hit_count, status>>

\* Mutant: the search for a free frame stops one short.
FreeFramesButLast == {f \in 0 .. memsize - 2 : coremap[f] = NoPage}

FreeFrames     == {f \in Frame : coremap[f] = NoPage}
FirstFree(f)   == f \in FreeFrames /\ \A g \in FreeFrames : f <= g
AllFramesInUse == FreeFrames = {}

\* Mutant: the victim's PG_VALID is left on.
ValidWithVictim(p, v) == TableValid(p)

(* The valid bits once v is evicted in the reference to p. *)
ValidWithout(p, v)    == TableValid(p) \ {v}

MissFree(t, p, f) ==
    /\ Miss(p)
    /\ FirstFree(f)
    /\ onswap' = TableOnSwap(p)
    /\ swap_off' = TableSwapOff(p)
    /\ Fill(t, p, f, TableValid(p), TableDirty(p), swapfile)
    /\ UNCHANGED <<swapVars, evict_clean_count, evict_dirty_count>>

(* A fault that evicts the page in frame f, which was not modified since it was
   last brought in: nothing is written. *)
MissEvictClean(t, p, f) ==
    LET v == coremap[f] IN
    /\ Miss(p)
    /\ AllFramesInUse
    /\ v \notin TableDirty(p)
    /\ onswap' = TableOnSwap(p)
    /\ swap_off' = TableSwapOff(p)
    /\ evict_clean_count' = evict_clean_count + 1
    /\ Fill(t, p, f, ValidWithout(p, v), TableDirty(p), swapfile)
    /\ UNCHANGED <<swapVars, evict_dirty_count>>

(* A fault that evicts a modified page, written to slot s on the way out. *)
MissEvictDirty(t, p, f, s) ==
    LET v == coremap[f] IN
    /\ Miss(p)
    /\ AllFramesInUse
    /\ v \in TableDirty(p)
    /\ PageoutSlot(TableSwapOff(p)[v], s)
    /\ onswap' = TableOnSwap(p) \cup {v}
    /\ swap_off' = [TableSwapOff(p) EXCEPT ![v] = s]
    /\ swapmap' = swapmap \cup {s}
    /\ swapfile' = [swapfile EXCEPT ![s] = physmem[frame[v]]]
    /\ evict_dirty_count' = evict_dirty_count + 1
    /\ Fill(t, p, f, ValidWithout(p, v), TableDirty(p) \ {v}, swapfile')
    /\ UNCHANGED evict_clean_count

(* The victim is modified, has no slot, and every slot is taken. *)
OutOfSwap(p, f) ==
    /\ AllFramesInUse
    /\ coremap[f] \in TableDirty(p)
    /\ TableSwapOff(p)[coremap[f]] = INVALID_SWAP
    /\ ~SwapHasRoom

(* The process ends.  What it had in memory is gone with it; only the reason is
   kept, and the state it ended in. *)
ExitWith(why) ==
    /\ status' = why
    /\ UNCHANGED <<tableVars, memVars, swapVars, countVars, out>>

(* swap_pageout finds no slot and returns INVALID_SWAP. *)
SwapFull(p, f) == Miss(p) /\ OutOfSwap(p, f) /\ ExitWith("swap_full")

(* lseek, read or write fails, or moves part of a page only, when a victim is
   paged out or p is paged in; or posix_memalign has no room for p's table. *)
OsError(p, f) ==
    /\ Miss(p)
    /\ \/ PGDIR_INDEX[p] \notin pgdir
       \/ /\ ~OutOfSwap(p, f)
          /\ p \in TableOnSwap(p) \/ (AllFramesInUse /\ coremap[f] \in TableDirty(p))
    /\ ExitWith("os_error")

(* End of the trace file: main prints the counters and removes the swap file. *)
EndTrace == status = "running" /\ ExitWith("done")

Next ==
    \/ \E t \in AccessType, p \in Page : Hit(t, p)
    \/ \E t \in AccessType, p \in Page, f \in Frame : MissFree(t, p, f)
    \/ \E t \in AccessType, p \in Page, f \in Frame : MissEvictClean(t, p, f)
    \/ \E t \in AccessType, p \in Page, f \in Frame, s \in Slot : MissEvictDirty(t, p, f, s)
    \/ \E p \in Page, f \in Frame : SwapFull(p, f)
    \/ \E p \in Page, f \in Frame : OsError(p, f)
    \/ EndTrace

Spec == Init /\ [][Next]_vars

-----------------------------------------------------------------------------
(* Properties.                                                               *)

Pages == valid \cup onswap          \* the pages referenced so far
EvictCount == evict_clean_count + evict_dirty_count

TypeOK ==
    /\ pgdir \subseteq DirIndex
    /\ valid \subseteq Page /\ dirty \subseteq Page /\ onswap \subseteq Page
    /\ frame \in [Page -> Frame]
    /\ swap_off \in [Page -> Slot \cup {INVALID_SWAP}]
    /\ coremap \in [Frame -> Page \cup {NoPage}]
    /\ physmem \in [Frame -> Cell]
    /\ swapmap \subseteq Slot
    /\ swapfile \in [Slot -> Cell]
    /\ status \in {"running", "done", "swap_full", "os_error"}
    /\ hit_count \in Nat /\ miss_count \in Nat /\ ref_count \in Nat
    /\ evict_clean_count \in Nat /\ evict_dirty_count \in Nat

(* The reverse map used to find a victim's entry agrees with the page table:
   the entry of a resident page names a frame whose coremap entry points back
   at it, and a frame in use holds a page that is valid there.  allocate_frame
   clears the victim's bit and installs the new page through these two. *)
FrameTableConsistent ==
    /\ \A p \in valid : coremap[frame[p]] = p
    /\ \A f \in Frame : coremap[f] # NoPage =>
           coremap[f] \in valid /\ frame[coremap[f]] = f

(* Every page with PG_ONSWAP has a slot, no two pages share one, and the bitmap
   marks exactly the slots some page owns: no slot leaks, none is given twice. *)
SwapOwnership ==
    /\ onswap = {p \in Page : swap_off[p] # INVALID_SWAP}
    /\ \A p, q \in onswap : swap_off[p] = swap_off[q] => p = q
    /\ swapmap = {swap_off[p] : p \in onswap}

(* A page that is resident and not dirty can be dropped without writing it: its
   copy on swap is what its frame holds, as allocate_frame assumes when it
   takes the clean branch. *)
CleanPagesHaveCopies ==
    \A p \in valid \ dirty : p \in onswap /\ swapfile[swap_off[p]] = physmem[frame[p]]

(* The counters main prints add up: every reference is a hit or a miss, and every
   miss either took a frame that was free or evicted exactly one page. *)
CountersBalance ==
    /\ hit_count + miss_count = ref_count
    /\ miss_count = Cardinality({f \in Frame : coremap[f] # NoPage}) + EvictCount
    /\ Cardinality(onswap) <= evict_dirty_count

(* "Could not allocate space in swapfile" is only ever said of a trace that
   references more pages than the swap file has slots: slots are never released,
   but none is taken for a page that has one. *)
SwapFullOnlyWhenTooSmall ==
    status = "swap_full" => Cardinality(Pages) > swapsize

(* A page leaves memory only for a miss that found every frame in use, it goes
   alone, and its last content is then on swap. *)
EvictionKeepsContent ==
    [][\A p \in valid \ valid' :
           /\ valid \ valid' = {p} /\ FreeFrames = {}
           /\ p \in onswap' /\ swapfile'[swap_off'[p]] = physmem[frame[p]]]_vars

(* The content of page p, wherever it is. *)
VersionOf(p) == IF p \in valid THEN physmem[frame[p]].version
                ELSE IF p \in onswap THEN swapfile[swap_off[p]].version
                ELSE 0

Flat == INSTANCE FlatMemory WITH mem <- [p \in Page |-> VersionOf(p)]

(* Paging is invisible to the trace: under every eviction policy each reference
   sees the page it asked for with every store made to it, as if memory were
   flat. *)
ImplementsFlatMemory == Flat!Spec
=============================================================================
