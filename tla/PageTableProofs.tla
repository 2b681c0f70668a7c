--------------------------- MODULE PageTableProofs --------------------------
(***************************************************************************)
(* For any number of pages, frames and slots, any split of the pages over  *)
(* second-level tables and any choice of victims: the page table, coremap  *)
(* and swap file stay consistent, and paging is invisible to the trace.    *)
(*                                                                         *)
(* The four properties hold together or not at all: a victim is found      *)
(* through the coremap, dropped because its swap copy is trusted, and      *)
(* found again through a slot that nobody else was given.  IInv is their   *)
(* conjunction with what links them.                                       *)
(***************************************************************************)
EXTENDS PageTable, FiniteSetTheorems, TLAPS

(* A second-level table that was not created yet has nothing in it, so creating
   it (FreshEntries) changes no entry. *)
UntouchedEntries ==
    \A p \in Page : PGDIR_INDEX[p] \notin pgdir =>
        /\ p \notin valid /\ p \notin dirty /\ p \notin onswap
        /\ frame[p] = 0 /\ swap_off[p] = INVALID_SWAP

DirtyResident == dirty \subseteq valid

(* Wherever a page's content is, in its frame or in its slot, it carries that
   page's address: the error message of access_mem is never printed. *)
TagsCorrect ==
    /\ \A p \in valid  : physmem[frame[p]].vaddr = p
    /\ \A p \in onswap : swapfile[swap_off[p]].vaddr = p

IInv ==
    /\ TypeOK
    /\ UntouchedEntries
    /\ DirtyResident
    /\ FrameTableConsistent
    /\ SwapOwnership
    /\ CleanPagesHaveCopies
    /\ TagsCorrect

-----------------------------------------------------------------------------
(* init_second_level never erases an entry that is in use. *)
LEMMA FreshEntriesAreEmpty ==
    ASSUME TypeOK, UntouchedEntries, NEW p \in Page
    PROVE  /\ TableValid(p) = valid /\ TableDirty(p) = dirty
           /\ TableOnSwap(p) = onswap
           /\ TableSwapOff(p) = swap_off /\ TableFrame(p) = frame
<1>1. \A q \in FreshEntries(p) : q \in Page /\ PGDIR_INDEX[q] \notin pgdir
  BY DEF FreshEntries
<1>2. TableValid(p) = valid /\ TableDirty(p) = dirty /\ TableOnSwap(p) = onswap
  BY <1>1 DEF UntouchedEntries, TableValid, TableDirty, TableOnSwap
<1>3. TableSwapOff(p) = swap_off
  BY <1>1 DEF UntouchedEntries, TableSwapOff, TypeOK
<1>4. TableFrame(p) = frame
  BY <1>1 DEF UntouchedEntries, TableFrame, TypeOK
<1> QED BY <1>2, <1>3, <1>4

(* access_mem keeps the tag, and changes the version only on a store. *)
LEMMA TouchType ==
    ASSUME NEW t, NEW c \in Cell
    PROVE  /\ Touch(t, c) \in Cell
           /\ Touch(t, c).vaddr = c.vaddr
           /\ t # "Store" => Touch(t, c) = c
           /\ t = "Store" => Touch(t, c).version = c.version + 1
BY DEF Touch, Cell

(* main's initialisation establishes IInv. *)
LEMMA InitInv == Init => IInv
<1> SUFFICES ASSUME Init PROVE IInv
  OBVIOUS
<1> USE DEF Init
<1>1. 0 \in Frame
  BY MemsizeAssumption DEF Frame
<1>2. TypeOK
  BY <1>1 DEF TypeOK, Cell, Blank
<1>3. UntouchedEntries /\ DirtyResident
  BY DEF UntouchedEntries, DirtyResident
<1>4. FrameTableConsistent
  BY DEF FrameTableConsistent
<1>5. SwapOwnership
  BY DEF SwapOwnership
<1>6. CleanPagesHaveCopies /\ TagsCorrect
  BY DEF CleanPagesHaveCopies, TagsCorrect
<1> QED BY <1>2, <1>3, <1>4, <1>5, <1>6 DEF IInv

-----------------------------------------------------------------------------
(* One lemma per action: what it does once FreshEntriesAreEmpty has simplified
   it, then that it preserves IInv, conjunct by conjunct. *)

(* A hit touches one frame, whose page a store marks dirty. *)
LEMMA HitInv ==
    ASSUME IInv, NEW t \in AccessType, NEW p \in Page, Hit(t, p)
    PROVE  IInv'
<1> DEFINE f == frame[p]
<1>1. /\ TableValid(p) = valid /\ TableDirty(p) = dirty
      /\ TableOnSwap(p) = onswap
      /\ TableSwapOff(p) = swap_off /\ TableFrame(p) = frame
  BY FreshEntriesAreEmpty DEF IInv
<1>2. /\ p \in valid /\ valid' = valid /\ onswap' = onswap
      /\ dirty' = dirty \cup DirtiedBy(t, p)
      /\ frame' = frame /\ swap_off' = swap_off /\ coremap' = coremap
      /\ swapmap' = swapmap /\ swapfile' = swapfile /\ status' = status
      /\ physmem' = [physmem EXCEPT ![f] = Touch(t, physmem[f])]
      /\ pgdir' = pgdir \cup {PGDIR_INDEX[p]}
      /\ hit_count' = hit_count + 1 /\ ref_count' = ref_count + 1
      /\ UNCHANGED <<miss_count, evict_clean_count, evict_dirty_count>>
  BY <1>1 DEF Hit, Observe, swapVars
<1>3. /\ f \in Frame /\ physmem[f] \in Cell /\ Touch(t, physmem[f]) \in Cell
      /\ Touch(t, physmem[f]).vaddr = physmem[f].vaddr
      /\ t # "Store" => Touch(t, physmem[f]) = physmem[f]
  BY TouchType DEF IInv, TypeOK
<1>4. DirtiedBy(t, p) \subseteq {p} /\ (t = "Store" => p \in DirtiedBy(t, p))
  BY DEF DirtiedBy
<1>5. \A q \in valid : q # p => frame[q] # f
  BY <1>2 DEF IInv, FrameTableConsistent
<1>6. TypeOK'
  BY <1>2, <1>3, <1>4, DirAssumption DEF IInv, TypeOK
<1>7. UntouchedEntries' /\ DirtyResident'
  BY <1>2, <1>4 DEF IInv, UntouchedEntries, DirtyResident
<1>8. FrameTableConsistent' /\ SwapOwnership'
  BY <1>2 DEF IInv, FrameTableConsistent, SwapOwnership
<1>9. CleanPagesHaveCopies'
  <2> SUFFICES ASSUME NEW q \in valid, q \notin dirty, q = p => t # "Store"
               PROVE  q \in onswap /\ swapfile[swap_off[q]] = physmem'[frame[q]]
    BY <1>2, <1>4 DEF CleanPagesHaveCopies
  <2>1. q \in onswap /\ swapfile[swap_off[q]] = physmem[frame[q]]
    BY DEF IInv, CleanPagesHaveCopies
  <2>2. physmem'[frame[q]] = physmem[frame[q]]
    BY <1>2, <1>3, <1>5 DEF IInv, TypeOK
  <2> QED BY <2>1, <2>2
<1>10. TagsCorrect'
  <2>1. \A q \in valid : physmem'[frame[q]].vaddr = q
    BY <1>2, <1>3, <1>5 DEF IInv, TypeOK, TagsCorrect
  <2> QED BY <1>2, <2>1 DEF IInv, TagsCorrect
<1> QED BY <1>6, <1>7, <1>8, <1>9, <1>10 DEF IInv

-----------------------------------------------------------------------------
(* The three misses do the same to the pages: the page in f, if there is one,
   goes, p comes.  They differ in what happens on swap. *)

(* What swap must still say of every page once f's page can be dropped. *)
SwapStep(f) ==
    /\ onswap' \subseteq onswap \cup {coremap[f]}
    /\ \A q \in onswap : q \in onswap' /\ swap_off'[q] = swap_off[q]
    /\ \A q \in onswap \ {coremap[f]} : swapfile'[swap_off[q]] = swapfile[swap_off[q]]
    /\ coremap[f] # NoPage =>
           /\ coremap[f] \in onswap'
           /\ swapfile'[swap_off'[coremap[f]]] = physmem[f]
    /\ onswap' \subseteq Page
    /\ swap_off' \in [Page -> Slot \cup {INVALID_SWAP}]
    /\ swapmap' \subseteq Slot
    /\ swapfile' \in [Slot -> Cell]
    /\ SwapOwnership'

StoredCell(p) == IF p \in onswap THEN swapfile[swap_off[p]] ELSE InitFrame(p)

MissStep(t, p, f) ==
    /\ p \notin valid
    /\ SwapStep(f)
    /\ pgdir' = pgdir \cup {PGDIR_INDEX[p]}
    /\ coremap' = [coremap EXCEPT ![f] = p]
    /\ frame' = [frame EXCEPT ![p] = f]
    /\ valid' = (valid \ {coremap[f]}) \cup {p}
    /\ dirty' = (dirty \ {coremap[f]}) \cup (IF p \in onswap THEN DirtiedBy(t, p) ELSE {p})
    /\ physmem' = [physmem EXCEPT ![f] = Touch(t, StoredCell(p))]
    /\ out' = Observation(t, p, StoredCell(p).vaddr, StoredCell(p).version)
    /\ status' = status
    /\ hit_count' = hit_count /\ miss_count' = miss_count + 1
    /\ ref_count' = ref_count + 1

(* What a miss reads is the faulting page: the slot that its entry names was
   written, and the eviction that came first did not overwrite it. *)
LEMMA FillIsMissStep ==
    ASSUME IInv, NEW t \in AccessType, NEW p \in Page, NEW f \in Frame,
           p \notin valid, SwapStep(f),
           Fill(t, p, f, valid \ {coremap[f]}, dirty \ {coremap[f]}, swapfile')
    PROVE  MissStep(t, p, f)
<1>1. TableOnSwap(p) = onswap /\ TableSwapOff(p) = swap_off /\ TableFrame(p) = frame
  BY FreshEntriesAreEmpty DEF IInv
<1>2. Content(p, f, swapfile') = StoredCell(p)
  <2>1. CASE p \notin onswap
    BY <1>1, <2>1 DEF Content, StoredCell
  <2>2. CASE p \in onswap
    <3>1. coremap[f] # p
      BY PageAssumption DEF IInv, FrameTableConsistent
    <3>2. swapfile'[swap_off[p]] = swapfile[swap_off[p]]
      BY <2>2, <3>1 DEF SwapStep
    <3>3. swapfile[swap_off[p]] # Blank
      BY <2>2, PageAssumption DEF IInv, TagsCorrect, Blank
    <3> QED BY <1>1, <2>2, <3>2, <3>3 DEF Content, StoredCell, Pagein
  <2> QED BY <2>1, <2>2
<1> QED BY <1>1, <1>2 DEF Fill, Observe, DirtiedByFill, MissStep

(* A miss that takes a free frame leaves the swap file alone. *)
LEMMA MissFreeIsMissStep ==
    ASSUME IInv, NEW t \in AccessType, NEW p \in Page, NEW f \in Frame, MissFree(t, p, f)
    PROVE  MissStep(t, p, f) /\ UNCHANGED <<evict_clean_count, evict_dirty_count>>
<1>1. TableValid(p) = valid /\ TableDirty(p) = dirty
      /\ TableOnSwap(p) = onswap /\ TableSwapOff(p) = swap_off
  BY FreshEntriesAreEmpty DEF IInv
<1>2. p \notin valid /\ coremap[f] = NoPage
  BY <1>1 DEF MissFree, Miss, FirstFree, FreeFrames
<1>3. UNCHANGED <<onswap, swap_off, swapmap, swapfile>>
  BY <1>1 DEF MissFree, swapVars
<1>4. SwapStep(f)
  BY <1>2, <1>3 DEF SwapStep, IInv, TypeOK, SwapOwnership
<1>5. valid \ {coremap[f]} = valid /\ dirty \ {coremap[f]} = dirty
  BY <1>2, PageAssumption DEF IInv, TypeOK
<1>6. Fill(t, p, f, valid \ {coremap[f]}, dirty \ {coremap[f]}, swapfile')
  BY <1>1, <1>3, <1>5 DEF MissFree
<1> QED BY <1>2, <1>4, <1>6, FillIsMissStep DEF MissFree

(* A clean eviction writes nothing: CleanPagesHaveCopies is why it need not. *)
LEMMA MissEvictCleanIsMissStep ==
    ASSUME IInv, NEW t \in AccessType, NEW p \in Page, NEW f \in Frame,
           MissEvictClean(t, p, f)
    PROVE  MissStep(t, p, f) /\ coremap[f] # NoPage
<1> DEFINE v == coremap[f]
<1>1. TableValid(p) = valid /\ TableDirty(p) = dirty
      /\ TableOnSwap(p) = onswap /\ TableSwapOff(p) = swap_off
  BY FreshEntriesAreEmpty DEF IInv
<1>2. p \notin valid /\ v # NoPage /\ v \notin dirty
  BY <1>1 DEF MissEvictClean, Miss, AllFramesInUse, FreeFrames
<1>3. UNCHANGED <<onswap, swap_off, swapmap, swapfile>>
  BY <1>1 DEF MissEvictClean, swapVars
<1>4. v \in onswap /\ swapfile[swap_off[v]] = physmem[f]
  BY <1>2 DEF IInv, FrameTableConsistent, CleanPagesHaveCopies
<1>5. SwapStep(f)
  BY <1>3, <1>4 DEF SwapStep, IInv, TypeOK, SwapOwnership
<1>6. Fill(t, p, f, valid \ {v}, dirty \ {v}, swapfile')
  <2>1. dirty \ {v} = dirty /\ ValidWithout(p, v) = valid \ {v}
    BY <1>1, <1>2 DEF ValidWithout
  <2> QED BY <1>1, <1>3, <2>1 DEF MissEvictClean
<1> QED BY <1>2, <1>5, <1>6, FillIsMissStep

(* A slot that bitmap_alloc returns belongs to nobody; a slot that is reused
   belongs to the victim alone.  Either way only the victim's copy is replaced. *)
LEMMA MissEvictDirtyIsMissStep ==
    ASSUME IInv, NEW t \in AccessType, NEW p \in Page, NEW f \in Frame, NEW s \in Slot,
           MissEvictDirty(t, p, f, s)
    PROVE  MissStep(t, p, f) /\ coremap[f] # NoPage
<1> DEFINE v == coremap[f]
<1>1. TableValid(p) = valid /\ TableDirty(p) = dirty
      /\ TableOnSwap(p) = onswap /\ TableSwapOff(p) = swap_off
  BY FreshEntriesAreEmpty DEF IInv
<1>2. p \notin valid /\ v # NoPage /\ v \in dirty
  BY <1>1 DEF MissEvictDirty, Miss, AllFramesInUse, FreeFrames
<1>3. v \in Page /\ v \in valid /\ frame[v] = f /\ physmem[f] \in Cell
      /\ physmem[f].vaddr = v
  BY <1>2 DEF IInv, FrameTableConsistent, TypeOK, TagsCorrect
<1>4. /\ onswap' = onswap \cup {v} /\ swap_off' = [swap_off EXCEPT ![v] = s]
      /\ swapmap' = swapmap \cup {s} /\ swapfile' = [swapfile EXCEPT ![s] = physmem[f]]
      /\ PageoutSlot(swap_off[v], s)
  BY <1>1, <1>3 DEF MissEvictDirty
<1>5. /\ swap_off[v] # INVALID_SWAP => s = swap_off[v]
      /\ swap_off[v] = INVALID_SWAP => s \notin swapmap
  BY <1>4 DEF PageoutSlot, LowestFree
<1>6. \A q \in onswap : q \in Page /\ swap_off[q] \in swapmap /\ swap_off[q] \in Slot
                        /\ swap_off[q] # INVALID_SWAP
  BY DEF IInv, SwapOwnership, TypeOK
<1>7. \A q \in onswap \ {v} : swap_off[q] # s
  BY <1>3, <1>5, <1>6 DEF IInv, SwapOwnership
<1>8. swap_off \in [Page -> Slot \cup {INVALID_SWAP}] /\ swapfile \in [Slot -> Cell]
      /\ onswap \subseteq Page /\ swapmap \subseteq Slot
  BY DEF IInv, TypeOK
<1>9. s # INVALID_SWAP
  BY DEF Slot, INVALID_SWAP
<1>10. SwapOwnership'
  <2>1. onswap = {q \in Page : swap_off[q] # INVALID_SWAP}
    BY DEF IInv, SwapOwnership
  <2>2. onswap' = {q \in Page : swap_off'[q] # INVALID_SWAP}
    BY <1>3, <1>4, <1>8, <1>9, <2>1
  <2>3. ASSUME NEW q \in onswap', NEW r \in onswap', swap_off'[q] = swap_off'[r]
        PROVE  q = r
    BY <1>3, <1>4, <1>7, <1>8, <2>3 DEF IInv, SwapOwnership
  <2>4. swapmap = {swap_off[q] : q \in onswap}
    BY DEF IInv, SwapOwnership
  <2>5. swapmap' \subseteq {swap_off'[q] : q \in onswap'}
    <3> SUFFICES ASSUME NEW u \in swapmap' PROVE \E q \in onswap' : u = swap_off'[q]
      OBVIOUS
    <3>1. CASE u = s
      BY <1>3, <1>4, <1>8, <3>1
    <3>2. CASE u # s
      <4>1. PICK q \in onswap : u = swap_off[q]
        BY <1>4, <2>4, <3>2
      <4>2. q # v
        BY <1>5, <1>6, <3>2, <4>1
      <4> QED BY <1>4, <1>8, <4>1, <4>2
    <3> QED BY <3>1, <3>2
  <2>6. ASSUME NEW q \in onswap' PROVE swap_off'[q] \in swapmap'
    BY <1>3, <1>4, <1>6, <1>8
  <2> QED BY <2>2, <2>3, <2>5, <2>6 DEF SwapOwnership
<1>11. SwapStep(f)
  <2>1. \A q \in onswap : q \in onswap' /\ swap_off'[q] = swap_off[q]
    BY <1>4, <1>5, <1>6, <1>8
  <2>2. \A q \in onswap \ {v} : swapfile'[swap_off[q]] = swapfile[swap_off[q]]
    BY <1>4, <1>6, <1>7, <1>8
  <2>3. v \in onswap' /\ swapfile'[swap_off'[v]] = physmem[f]
    BY <1>3, <1>4, <1>8
  <2>4. /\ onswap' \subseteq Page /\ swap_off' \in [Page -> Slot \cup {INVALID_SWAP}]
        /\ swapmap' \subseteq Slot /\ swapfile' \in [Slot -> Cell]
    BY <1>3, <1>4, <1>8
  <2> QED BY <1>4, <1>10, <2>1, <2>2, <2>3, <2>4 DEF SwapStep
<1>12. Fill(t, p, f, valid \ {v}, dirty \ {v}, swapfile')
  BY <1>1 DEF MissEvictDirty, ValidWithout
<1> QED BY <1>2, <1>11, <1>12, FillIsMissStep

(* Any of the three misses preserves IInv. *)
LEMMA MissStepInv ==
    ASSUME IInv, NEW t \in AccessType, NEW p \in Page, NEW f \in Frame, MissStep(t, p, f),
           evict_clean_count' \in Nat, evict_dirty_count' \in Nat
    PROVE  IInv'
<1> DEFINE v == coremap[f]
           c == StoredCell(p)
<1>1. /\ p \notin valid /\ p \notin dirty /\ SwapStep(f)
      /\ pgdir' = pgdir \cup {PGDIR_INDEX[p]}
      /\ coremap' = [coremap EXCEPT ![f] = p] /\ frame' = [frame EXCEPT ![p] = f]
      /\ valid' = (valid \ {v}) \cup {p}
      /\ dirty' = (dirty \ {v}) \cup (IF p \in onswap THEN DirtiedBy(t, p) ELSE {p})
      /\ physmem' = [physmem EXCEPT ![f] = Touch(t, c)]
  BY DEF MissStep, IInv, DirtyResident
<1>2. /\ c \in Cell /\ c.vaddr = p
      /\ Touch(t, c) \in Cell /\ Touch(t, c).vaddr = p
      /\ t # "Store" => Touch(t, c) = c
  <2>1. c \in Cell /\ c.vaddr = p
    <3>1. CASE p \in onswap
      <4>1. swap_off[p] \in Slot
        BY <3>1 DEF IInv, TypeOK, SwapOwnership
      <4> QED BY <3>1, <4>1 DEF StoredCell, IInv, TypeOK, TagsCorrect
    <3>2. CASE p \notin onswap
      BY <3>2 DEF StoredCell, InitFrame, Cell
    <3> QED BY <3>1, <3>2
  <2> QED BY <2>1, TouchType
<1>3. DirtiedBy(t, p) \subseteq {p} /\ (t = "Store" => p \in DirtiedBy(t, p))
  BY DEF DirtiedBy
<1>4. /\ frame \in [Page -> Frame] /\ coremap \in [Frame -> Page \cup {NoPage}]
      /\ physmem \in [Frame -> Cell] /\ valid \subseteq Page /\ dirty \subseteq valid
      /\ onswap \subseteq Page /\ pgdir \subseteq DirIndex
      /\ v \in Page \cup {NoPage}
      /\ PGDIR_INDEX[p] \in DirIndex
  BY DirAssumption DEF IInv, TypeOK, DirtyResident
(* The other resident pages are in other frames. *)
<1>5. ASSUME NEW q \in valid \ {v}
      PROVE  /\ q \in Page /\ q # p /\ frame[q] # f /\ frame'[q] = frame[q]
             /\ physmem'[frame'[q]] = physmem[frame[q]]
             /\ coremap'[frame'[q]] = q
  <2>1. q \in Page /\ q # p /\ coremap[frame[q]] = q
    BY <1>1, <1>4 DEF IInv, FrameTableConsistent
  <2>2. frame[q] # f
    BY <2>1
  <2> QED BY <1>1, <1>4, <2>1, <2>2
<1>6. frame'[p] = f /\ coremap'[f] = p /\ physmem'[f] = Touch(t, c)
  BY <1>1, <1>4
<1>7. TypeOK'
  <2>1. valid' \subseteq Page /\ dirty' \subseteq Page
    BY <1>1, <1>3, <1>4
  <2>2. /\ frame' \in [Page -> Frame] /\ coremap' \in [Frame -> Page \cup {NoPage}]
        /\ physmem' \in [Frame -> Cell] /\ pgdir' \subseteq DirIndex
    BY <1>1, <1>2, <1>4
  <2>3. /\ status' = status /\ hit_count' = hit_count
        /\ miss_count' = miss_count + 1 /\ ref_count' = ref_count + 1
    BY DEF MissStep
  <2>4. /\ status' \in {"running", "done", "swap_full", "os_error"}
        /\ hit_count' \in Nat /\ miss_count' \in Nat /\ ref_count' \in Nat
    BY <2>3 DEF IInv, TypeOK
  <2> QED BY <1>1, <2>1, <2>2, <2>4 DEF TypeOK, SwapStep
<1>8. UntouchedEntries'
  <2> SUFFICES ASSUME NEW q \in Page, PGDIR_INDEX[q] \notin pgdir'
               PROVE  /\ q \notin valid' /\ q \notin dirty' /\ q \notin onswap'
                      /\ frame'[q] = 0 /\ swap_off'[q] = INVALID_SWAP
    BY DEF UntouchedEntries
  <2>1. q # p /\ PGDIR_INDEX[q] \notin pgdir
    BY <1>1
  <2>2. /\ q \notin valid /\ q \notin dirty /\ q \notin onswap /\ frame[q] = 0
    BY <2>1 DEF IInv, UntouchedEntries
  <2>3. q # v
    BY <2>2, PageAssumption DEF IInv, FrameTableConsistent
  <2>4. q \notin onswap'
    BY <1>1, <2>2, <2>3 DEF SwapStep
  <2>5. swap_off'[q] = INVALID_SWAP
    BY <1>1, <2>4 DEF SwapStep, SwapOwnership
  <2> QED BY <1>1, <1>3, <1>4, <2>1, <2>2, <2>4, <2>5
<1>9. DirtyResident'
  BY <1>1, <1>3, <1>4 DEF DirtyResident
<1>10. FrameTableConsistent'
  <2>1. \A q \in valid' : coremap'[frame'[q]] = q
    BY <1>1, <1>5, <1>6
  <2>2. ASSUME NEW g \in Frame, coremap'[g] # NoPage
        PROVE  coremap'[g] \in valid' /\ frame'[coremap'[g]] = g
    <3>1. CASE g = f
      BY <1>1, <1>6, <3>1
    <3>2. CASE g # f
      <4>1. coremap'[g] = coremap[g] /\ coremap[g] \in valid /\ frame[coremap[g]] = g
        BY <1>1, <1>4, <2>2, <3>2 DEF IInv, FrameTableConsistent
      <4>2. coremap[g] # v
        BY <4>1, <2>2, <3>2 DEF IInv, FrameTableConsistent
      <4> QED BY <1>1, <1>5, <4>1, <4>2
    <3> QED BY <3>1, <3>2
  <2> QED BY <2>1, <2>2 DEF FrameTableConsistent
<1>11. ASSUME NEW q \in onswap, q # v
       PROVE  swapfile'[swap_off'[q]] = swapfile[swap_off[q]] /\ q \in onswap'
  BY <1>1, <1>11 DEF SwapStep
<1>12. CleanPagesHaveCopies'
  <2> SUFFICES ASSUME NEW q \in valid', q \notin dirty'
               PROVE  q \in onswap' /\ swapfile'[swap_off'[q]] = physmem'[frame'[q]]
    BY DEF CleanPagesHaveCopies
  <2>1. CASE q = p
    <3>1. p \in onswap /\ t # "Store"
      BY <1>1, <1>3, <2>1
    <3>2. p # v
      BY <1>1, PageAssumption DEF IInv, FrameTableConsistent
    <3> QED BY <1>2, <1>6, <1>11, <2>1, <3>1, <3>2 DEF StoredCell
  <2>2. CASE q # p
    <3>1. q \in valid \ {v} /\ q \notin dirty
      BY <1>1, <2>2
    <3>2. q \in onswap /\ swapfile[swap_off[q]] = physmem[frame[q]]
      BY <3>1 DEF IInv, CleanPagesHaveCopies
    <3> QED BY <1>5, <1>11, <3>1, <3>2
  <2> QED BY <2>1, <2>2
<1>13. TagsCorrect'
  <2>1. ASSUME NEW q \in valid' PROVE physmem'[frame'[q]].vaddr = q
    <3>1. CASE q = p
      BY <1>2, <1>6, <3>1
    <3>2. CASE q # p
      BY <1>1, <1>5, <3>2 DEF IInv, TagsCorrect
    <3> QED BY <3>1, <3>2
  <2>2. ASSUME NEW q \in onswap' PROVE swapfile'[swap_off'[q]].vaddr = q
    <3>1. CASE q = v
      <4>1. v # NoPage
        BY <1>1, <3>1, PageAssumption DEF SwapStep
      <4>2. v \in valid /\ frame[v] = f
        BY <4>1 DEF IInv, FrameTableConsistent
      <4> QED BY <1>1, <3>1, <4>1, <4>2 DEF SwapStep, IInv, TagsCorrect
    <3>2. CASE q # v
      <4>1. q \in onswap
        BY <1>1, <3>2 DEF SwapStep
      <4> QED BY <1>11, <3>2, <4>1 DEF IInv, TagsCorrect
    <3> QED BY <3>1, <3>2
  <2> QED BY <2>1, <2>2 DEF TagsCorrect
<1>14. SwapOwnership'
  BY <1>1 DEF SwapStep
<1> QED BY <1>7, <1>8, <1>9, <1>10, <1>12, <1>13, <1>14 DEF IInv

(* The state the process ends in is consistent too. *)
LEMMA ExitInv ==
    ASSUME IInv, NEW why \in {"done", "swap_full", "os_error"}, ExitWith(why)
    PROVE  IInv'
BY DEF ExitWith, IInv, TypeOK, UntouchedEntries, DirtyResident, FrameTableConsistent,
       SwapOwnership, CleanPagesHaveCopies, TagsCorrect,
       tableVars, memVars, swapVars, countVars

(* IInv speaks of vars only. *)
LEMMA StutterInv == IInv /\ UNCHANGED vars => IInv'
BY DEF vars, IInv, TypeOK, UntouchedEntries, DirtyResident, FrameTableConsistent,
       SwapOwnership, CleanPagesHaveCopies, TagsCorrect,
       tableVars, memVars, swapVars, countVars

(* IInv is inductive. *)
LEMMA NextInv == IInv /\ [Next]_vars => IInv'
<1> SUFFICES ASSUME IInv, [Next]_vars PROVE IInv'
  OBVIOUS
<1>1. ASSUME NEW t \in AccessType, NEW p \in Page, Hit(t, p) PROVE IInv'
  BY <1>1, HitInv
<1>2. ASSUME NEW t \in AccessType, NEW p \in Page, NEW f \in Frame, MissFree(t, p, f)
      PROVE  IInv'
  BY <1>2, MissFreeIsMissStep, MissStepInv DEF IInv, TypeOK
<1>3. ASSUME NEW t \in AccessType, NEW p \in Page, NEW f \in Frame, MissEvictClean(t, p, f)
      PROVE  IInv'
  <2>1. evict_clean_count' \in Nat /\ evict_dirty_count' \in Nat
    BY <1>3 DEF MissEvictClean, IInv, TypeOK
  <2> QED BY <1>3, <2>1, MissEvictCleanIsMissStep, MissStepInv
<1>4. ASSUME NEW t \in AccessType, NEW p \in Page, NEW f \in Frame, NEW s \in Slot,
             MissEvictDirty(t, p, f, s)
      PROVE  IInv'
  <2>1. evict_clean_count' \in Nat /\ evict_dirty_count' \in Nat
    BY <1>4 DEF MissEvictDirty, IInv, TypeOK
  <2> QED BY <1>4, <2>1, MissEvictDirtyIsMissStep, MissStepInv
<1>5. ASSUME NEW p \in Page, NEW f \in Frame, SwapFull(p, f) \/ OsError(p, f) PROVE IInv'
  BY <1>5, ExitInv DEF SwapFull, OsError
<1>6. CASE EndTrace
  BY <1>6, ExitInv DEF EndTrace
<1>7. CASE UNCHANGED vars
  BY <1>7, StutterInv
<1> QED BY <1>1, <1>2, <1>3, <1>4, <1>5, <1>6, <1>7 DEF Next

-----------------------------------------------------------------------------
(* The invariants.                                                           *)

(* IInv holds in every reachable state. *)
THEOREM InductiveInvariant == Spec => []IInv
BY InitInv, NextInv, PTL DEF Spec

(* Type correctness. *)
THEOREM TypeCorrect == Spec => []TypeOK
BY InductiveInvariant, PTL DEF IInv

(* The coremap entry that allocate_frame goes through always leads to the page
   that is in the frame. *)
THEOREM FrameTableIsConsistent == Spec => []FrameTableConsistent
BY InductiveInvariant, PTL DEF IInv

(* No slot of the swap file leaks and none is given to two pages. *)
THEOREM SlotsHaveOneOwner == Spec => []SwapOwnership
BY InductiveInvariant, PTL DEF IInv

(* The clean branch of allocate_frame may skip the write. *)
THEOREM CleanCopiesAreCurrent == Spec => []CleanPagesHaveCopies
BY InductiveInvariant, PTL DEF IInv

(* "simulated page returned by pagetable lookup doese not have expected value" is
   never printed. *)
THEOREM TagsAreCorrect == Spec => []TagsCorrect
BY InductiveInvariant, PTL DEF IInv

-----------------------------------------------------------------------------
(* Paging is invisible.                                                      *)

(* Before the first reference every page is at version 0. *)
LEMMA InitRefines == Init => Flat!Init
BY DEF Init, Flat!Init, VersionOf

(* A step that leaves every page where it is and in what it holds. *)
LEMMA FrozenVersions ==
    ASSUME UNCHANGED <<valid, onswap, frame, swap_off, physmem, swapfile>>
    PROVE  \A q \in Page : VersionOf(q)' = VersionOf(q)
BY DEF VersionOf

(* A hit is one reference to flat memory. *)
LEMMA HitRefines ==
    ASSUME IInv, NEW t \in AccessType, NEW p \in Page, Hit(t, p)
    PROVE  Flat!Reference(t, p)
<1> DEFINE f == frame[p]
<1>1. /\ TableValid(p) = valid /\ TableOnSwap(p) = onswap
      /\ TableSwapOff(p) = swap_off /\ TableFrame(p) = frame
  BY FreshEntriesAreEmpty DEF IInv
<1>2. /\ p \in valid /\ valid' = valid /\ onswap' = onswap
      /\ frame' = frame /\ swap_off' = swap_off /\ swapfile' = swapfile
      /\ physmem' = [physmem EXCEPT ![f] = Touch(t, physmem[f])]
      /\ out' = Observation(t, p, physmem[f].vaddr, physmem[f].version)
  BY <1>1 DEF Hit, Observe, swapVars
<1>3. f \in Frame /\ physmem[f] \in Cell /\ physmem[f].vaddr = p
  BY <1>2 DEF IInv, TypeOK, TagsCorrect
<1>4. \A q \in valid : q # p => frame[q] # f
  BY <1>2 DEF IInv, FrameTableConsistent
<1>5. physmem'[f] = Touch(t, physmem[f])
      /\ \A g \in Frame : g # f => physmem'[g] = physmem[g]
  BY <1>2, <1>3 DEF IInv, TypeOK
<1>6. \A q \in Page : q # p => VersionOf(q)' = VersionOf(q)
  BY <1>2, <1>4, <1>5 DEF VersionOf, IInv, TypeOK
<1>7. VersionOf(p) = physmem[f].version /\ VersionOf(p)' = physmem'[f].version
  BY <1>2 DEF VersionOf
<1>8. VersionOf(p)' = Flat!Written(t, VersionOf(p))
  BY <1>3, <1>5, <1>7, TouchType DEF Flat!Written
<1>9. [q \in Page |-> VersionOf(q)]' = [[q \in Page |-> VersionOf(q)] EXCEPT
                                           ![p] = Flat!Written(t, @)]
  BY <1>6, <1>8
<1>10. out' = Flat!Observation(t, p, p, VersionOf(p))
  BY <1>2, <1>3, <1>7 DEF Observation, Flat!Observation
<1> QED BY <1>9, <1>10 DEF Flat!Reference

(* So is a miss: only the faulting page's version may change, the victim's moves
   from its frame to its slot. *)
LEMMA MissStepRefines ==
    ASSUME IInv, NEW t \in AccessType, NEW p \in Page, NEW f \in Frame, MissStep(t, p, f)
    PROVE  Flat!Reference(t, p)
<1> DEFINE v == coremap[f]
           c == StoredCell(p)
<1>1. /\ p \notin valid /\ SwapStep(f)
      /\ frame' = [frame EXCEPT ![p] = f]
      /\ valid' = (valid \ {v}) \cup {p}
      /\ physmem' = [physmem EXCEPT ![f] = Touch(t, c)]
      /\ out' = Observation(t, p, c.vaddr, c.version)
  BY DEF MissStep
<1>2. /\ c \in Cell /\ c.vaddr = p /\ VersionOf(p) = c.version
  <2>1. CASE p \in onswap
    <3>1. swap_off[p] \in Slot
      BY <2>1 DEF IInv, TypeOK, SwapOwnership
    <3> QED BY <1>1, <2>1, <3>1 DEF StoredCell, VersionOf, IInv, TypeOK, TagsCorrect
  <2>2. CASE p \notin onswap
    BY <1>1, <2>2 DEF StoredCell, InitFrame, VersionOf, Cell
  <2> QED BY <2>1, <2>2
<1>3. VersionOf(p)' = Flat!Written(t, VersionOf(p))
  <2>1. p \in valid' /\ frame'[p] = f /\ physmem'[f] = Touch(t, c)
    BY <1>1 DEF IInv, TypeOK
  <2>2. VersionOf(p)' = Touch(t, c).version
    BY <2>1 DEF VersionOf
  <2> QED BY <1>2, <2>2, TouchType DEF Flat!Written
<1>4. ASSUME NEW q \in Page, q # p PROVE VersionOf(q)' = VersionOf(q)
  <2>1. CASE q = v
    <3>1. q \in valid /\ frame[q] = f /\ q # NoPage
      BY <2>1, PageAssumption DEF IInv, FrameTableConsistent
    <3>2. q \notin valid' /\ q \in onswap' /\ swapfile'[swap_off'[q]] = physmem[f]
      BY <1>1, <1>4, <2>1, <3>1 DEF SwapStep
    <3> QED BY <3>1, <3>2 DEF VersionOf
  <2>2. CASE q # v /\ q \in valid
    <3>1. q \in valid' /\ frame'[q] = frame[q] /\ frame[q] # f /\ frame[q] \in Frame
      BY <1>1, <1>4, <2>2 DEF IInv, TypeOK, FrameTableConsistent
    <3>2. physmem'[frame'[q]] = physmem[frame[q]]
      BY <1>1, <3>1 DEF IInv, TypeOK
    <3> QED BY <2>2, <3>1, <3>2 DEF VersionOf
  <2>3. CASE q # v /\ q \notin valid
    <3>1. q \notin valid' /\ (q \in onswap' <=> q \in onswap)
      BY <1>1, <1>4, <2>3 DEF SwapStep
    <3>2. q \in onswap => swapfile'[swap_off'[q]] = swapfile[swap_off[q]]
      BY <1>1, <2>3 DEF SwapStep
    <3> QED BY <2>3, <3>1, <3>2 DEF VersionOf
  <2> QED BY <2>1, <2>2, <2>3
<1>5. [q \in Page |-> VersionOf(q)]' = [[q \in Page |-> VersionOf(q)] EXCEPT
                                           ![p] = Flat!Written(t, @)]
  BY <1>3, <1>4
<1>6. out' = Flat!Observation(t, p, p, VersionOf(p))
  BY <1>1, <1>2 DEF Observation, Flat!Observation
<1> QED BY <1>5, <1>6 DEF Flat!Reference

(* Every step is a reference or a stutter of flat memory. *)
LEMMA NextRefines == IInv /\ [Next]_vars => [Flat!Next]_(Flat!vars)
<1> SUFFICES ASSUME IInv, [Next]_vars PROVE [Flat!Next]_(Flat!vars)
  OBVIOUS
<1>1. ASSUME NEW t \in AccessType, NEW p \in Page, Hit(t, p) PROVE Flat!Next
  BY <1>1, HitRefines DEF Flat!Next
<1>2. ASSUME NEW t \in AccessType, NEW p \in Page, NEW f \in Frame,
             \/ MissFree(t, p, f) \/ MissEvictClean(t, p, f)
             \/ \E s \in Slot : MissEvictDirty(t, p, f, s)
      PROVE  Flat!Next
  <2>1. MissStep(t, p, f)
    BY <1>2, MissFreeIsMissStep, MissEvictCleanIsMissStep, MissEvictDirtyIsMissStep
  <2> QED BY <2>1, MissStepRefines DEF Flat!Next
<1>3. ASSUME UNCHANGED <<valid, onswap, frame, swap_off, physmem, swapfile, out>>
      PROVE  UNCHANGED Flat!vars
  BY <1>3, FrozenVersions DEF Flat!vars
<1>4. ASSUME NEW p \in Page, NEW f \in Frame, SwapFull(p, f) \/ OsError(p, f)
      PROVE  UNCHANGED Flat!vars
  BY <1>3, <1>4 DEF SwapFull, OsError, ExitWith, tableVars, memVars, swapVars
<1>5. CASE EndTrace
  BY <1>3, <1>5 DEF EndTrace, ExitWith, tableVars, memVars, swapVars
<1>6. CASE UNCHANGED vars
  BY <1>3, <1>6 DEF vars, tableVars, memVars, swapVars
<1> QED BY <1>1, <1>2, <1>4, <1>5, <1>6 DEF Next

(* Whatever is evicted and whenever, each reference of the trace finds the page
   it names, with every store made to it so far. *)
THEOREM PagingIsInvisible == Spec => ImplementsFlatMemory
<1>1. Init => Flat!Init
  BY InitRefines
<1>2. IInv /\ [Next]_vars => [Flat!Next]_(Flat!vars)
  BY NextRefines
<1> QED BY <1>1, <1>2, InductiveInvariant, PTL DEF Spec, ImplementsFlatMemory, Flat!Spec

-----------------------------------------------------------------------------
(* Evictions.                                                                *)

(* A page that stops being valid is the one in the frame of a MissStep. *)
LEMMA StepKeepsContent ==
    ASSUME IInv, [Next]_vars, NEW q \in valid \ valid'
    PROVE  /\ valid \ valid' = {q} /\ FreeFrames = {}
           /\ q \in onswap' /\ swapfile'[swap_off'[q]] = physmem[frame[q]]
<1>1. PICK t \in AccessType, p \in Page, f \in Frame :
          \/ MissFree(t, p, f) \/ MissEvictClean(t, p, f)
          \/ \E s \in Slot : MissEvictDirty(t, p, f, s)
  <2>1. ASSUME NEW t \in AccessType, NEW p \in Page, Hit(t, p) PROVE valid' = valid
    BY <2>1, FreshEntriesAreEmpty DEF Hit, IInv
  <2> QED BY <2>1 DEF Next, SwapFull, OsError, EndTrace, ExitWith, tableVars, vars
<1>2. MissStep(t, p, f)
  BY <1>1, MissFreeIsMissStep, MissEvictCleanIsMissStep, MissEvictDirtyIsMissStep
<1>3. q = coremap[f] /\ valid \ valid' = {q}
  BY <1>2 DEF MissStep
<1>4. q \in Page /\ q # NoPage /\ frame[q] = f
  BY <1>3, PageAssumption DEF IInv, TypeOK, FrameTableConsistent
<1>5. FreeFrames = {}
  BY <1>1, <1>3, <1>4 DEF MissFree, FirstFree, FreeFrames, MissEvictClean, MissEvictDirty,
                          AllFramesInUse
<1> QED BY <1>2, <1>3, <1>4, <1>5 DEF MissStep, SwapStep

(* A page goes alone, only when memory is full, and leaves its content on swap. *)
THEOREM EvictionsKeepContent == Spec => EvictionKeepsContent
<1>1. IInv /\ [Next]_vars =>
        [\A p \in valid \ valid' :
           /\ valid \ valid' = {p} /\ FreeFrames = {}
           /\ p \in onswap' /\ swapfile'[swap_off'[p]] = physmem[frame[p]]]_vars
  BY StepKeepsContent
<1> QED BY <1>1, InductiveInvariant, PTL DEF Spec, EvictionKeepsContent

-----------------------------------------------------------------------------
(* Counting.                                                                 *)

InUse == {f \in Frame : coremap[f] # NoPage}

(* The sets that are counted are finite. *)
LEMMA Finiteness ==
    ASSUME TypeOK
    PROVE  /\ IsFiniteSet(InUse) /\ Cardinality(InUse) \in Nat
           /\ IsFiniteSet(onswap) /\ Cardinality(onswap) \in Nat
           /\ IsFiniteSet(Pages)
<1>1. IsFiniteSet(Frame)
  BY FS_Interval, MemsizeAssumption DEF Frame
<1>2. InUse \in SUBSET Frame /\ onswap \in SUBSET Page /\ Pages \in SUBSET Page
  BY DEF InUse, Pages, TypeOK
<1> QED BY <1>1, <1>2, PageAssumption, FS_Subset, FS_CardinalityType

(* CountersBalance, in one sum. *)
Counted ==
    /\ hit_count + miss_count = ref_count
    /\ miss_count = Cardinality(InUse) + (evict_clean_count + evict_dirty_count)
    /\ Cardinality(onswap) <= evict_dirty_count

(* Nothing is counted before the first reference. *)
LEMMA CountersInit == Init => Counted
<1> SUFFICES ASSUME Init PROVE Counted
  OBVIOUS
<1>1. InUse = {} /\ onswap = {}
  BY DEF Init, InUse
<1> QED BY <1>1, FS_EmptySet DEF Init, Counted

(* A miss takes a free frame and counts no eviction, or evicts and counts one; the
   pages on swap grow only with a dirty eviction. *)
LEMMA CountersNext == IInv /\ Counted /\ [Next]_vars => Counted'
<1> SUFFICES ASSUME IInv, Counted, [Next]_vars PROVE Counted'
  OBVIOUS
<1>1. /\ hit_count \in Nat /\ miss_count \in Nat /\ ref_count \in Nat
      /\ evict_clean_count \in Nat /\ evict_dirty_count \in Nat
      /\ IsFiniteSet(InUse) /\ Cardinality(InUse) \in Nat
      /\ IsFiniteSet(onswap) /\ Cardinality(onswap) \in Nat
      /\ coremap \in [Frame -> Page \cup {NoPage}]
  BY Finiteness DEF IInv, TypeOK
<1>2. ASSUME NEW t \in AccessType, NEW p \in Page, Hit(t, p) PROVE Counted'
  <2>1. /\ hit_count' = hit_count + 1 /\ ref_count' = ref_count + 1
        /\ miss_count' = miss_count
        /\ evict_clean_count' = evict_clean_count
        /\ evict_dirty_count' = evict_dirty_count
        /\ onswap' = onswap /\ InUse' = InUse
    BY <1>2, FreshEntriesAreEmpty DEF Hit, Observe, IInv, InUse
  <2> QED BY <1>1, <2>1 DEF Counted
<1>3. ASSUME NEW t \in AccessType, NEW p \in Page, NEW f \in Frame, MissFree(t, p, f)
      PROVE  Counted'
  <2>1. /\ MissStep(t, p, f) /\ coremap[f] = NoPage /\ onswap' = onswap
        /\ evict_clean_count' = evict_clean_count
        /\ evict_dirty_count' = evict_dirty_count
    BY <1>3, MissFreeIsMissStep, FreshEntriesAreEmpty
       DEF MissFree, FirstFree, FreeFrames, IInv
  <2>2. InUse' = InUse \cup {f} /\ f \notin InUse
    BY <1>1, <2>1, PageAssumption DEF MissStep, InUse
  <2>3. Cardinality(InUse') = Cardinality(InUse) + 1
    BY <1>1, <2>2, FS_AddElement
  <2>4. /\ hit_count' = hit_count /\ miss_count' = miss_count + 1
        /\ ref_count' = ref_count + 1
    BY <2>1 DEF MissStep
  <2> QED BY <1>1, <2>1, <2>3, <2>4 DEF Counted
<1>4. ASSUME NEW t \in AccessType, NEW p \in Page, NEW f \in Frame,
             MissStep(t, p, f), coremap[f] # NoPage
      PROVE  /\ InUse' = InUse /\ hit_count' = hit_count
             /\ miss_count' = miss_count + 1 /\ ref_count' = ref_count + 1
  BY <1>1, <1>4, PageAssumption DEF MissStep, InUse
<1>5. ASSUME NEW t \in AccessType, NEW p \in Page, NEW f \in Frame, MissEvictClean(t, p, f)
      PROVE  Counted'
  <2>1. MissStep(t, p, f) /\ coremap[f] # NoPage
    BY <1>5, MissEvictCleanIsMissStep
  <2>2. /\ onswap' = onswap /\ evict_clean_count' = evict_clean_count + 1
        /\ evict_dirty_count' = evict_dirty_count
    BY <1>5, FreshEntriesAreEmpty DEF MissEvictClean, IInv
  <2> QED BY <1>1, <1>4, <2>1, <2>2 DEF Counted
<1>6. ASSUME NEW t \in AccessType, NEW p \in Page, NEW f \in Frame, NEW s \in Slot,
             MissEvictDirty(t, p, f, s)
      PROVE  Counted'
  <2>1. MissStep(t, p, f) /\ coremap[f] # NoPage
    BY <1>6, MissEvictDirtyIsMissStep
  <2>2. /\ onswap' = onswap \cup {coremap[f]} /\ evict_clean_count' = evict_clean_count
        /\ evict_dirty_count' = evict_dirty_count + 1
    BY <1>6, FreshEntriesAreEmpty DEF MissEvictDirty, IInv
  <2>3. Cardinality(onswap') \in {Cardinality(onswap), Cardinality(onswap) + 1}
    <3>1. Cardinality(onswap \cup {coremap[f]}) =
              IF coremap[f] \in onswap THEN Cardinality(onswap) ELSE Cardinality(onswap) + 1
      BY <1>1, FS_AddElement
    <3> QED BY <2>2, <3>1
  <2> QED BY <1>1, <1>4, <2>1, <2>2, <2>3 DEF Counted
<1>7. ASSUME UNCHANGED <<countVars, coremap, onswap>> PROVE Counted'
  BY <1>7 DEF countVars, Counted, InUse
<1>8. ASSUME NEW p \in Page, NEW f \in Frame, SwapFull(p, f) \/ OsError(p, f)
      PROVE  Counted'
  BY <1>7, <1>8 DEF SwapFull, OsError, ExitWith, tableVars, memVars
<1>9. CASE EndTrace
  BY <1>7, <1>9 DEF EndTrace, ExitWith, tableVars, memVars
<1>10. CASE UNCHANGED vars
  BY <1>7, <1>10 DEF vars, tableVars, memVars
<1> QED BY <1>2, <1>3, <1>5, <1>6, <1>8, <1>9, <1>10 DEF Next

(* The counts that main prints add up, for a trace of any length. *)
THEOREM CountersAddUp == Spec => []CountersBalance
<1>1. Counted => CountersBalance
  BY DEF Counted, InUse, CountersBalance, EvictCount
<1> QED BY <1>1, CountersInit, CountersNext, InductiveInvariant, PTL DEF Spec

(* When no slot is free, swap_off maps the pages on swap onto all of them. *)
LEMMA FullSwapHasManyPages ==
    ASSUME IInv, ~SwapHasRoom
    PROVE  Cardinality(onswap) >= swapsize
<1> DEFINE off == [q \in onswap |-> swap_off[q]]
<1>1. swapmap = Slot /\ swapmap = {swap_off[q] : q \in onswap}
  BY DEF IInv, TypeOK, SwapHasRoom, SwapOwnership
<1>2. off \in Surjection(onswap, Slot)
  BY <1>1 DEF Surjection
<1>3. Cardinality(Slot) <= Cardinality(onswap)
  BY <1>2, Finiteness, FS_Surjection DEF IInv
<1>4. Cardinality(Slot) = swapsize
  <2>1. 0 \in Int /\ swapsize - 1 \in Int
    BY SwapsizeAssumption
  <2>2. Cardinality(0 .. swapsize - 1) = IF 0 > swapsize - 1 THEN 0 ELSE swapsize - 1 - 0 + 1
    BY <2>1, FS_Interval
  <2> QED BY <2>2, SwapsizeAssumption DEF Slot
<1> QED BY <1>3, <1>4, Finiteness, SwapsizeAssumption DEF IInv

(* When swap_pageout gives up, the pages on swap fill every slot, and the victim
   is one more. *)
LEMMA SwapFullNext ==
    IInv /\ SwapFullOnlyWhenTooSmall /\ [Next]_vars => SwapFullOnlyWhenTooSmall'
<1> SUFFICES ASSUME IInv, SwapFullOnlyWhenTooSmall, [Next]_vars, status' = "swap_full"
             PROVE  Cardinality(Pages') > swapsize
  BY DEF SwapFullOnlyWhenTooSmall
<1>1. CASE UNCHANGED vars
  BY <1>1 DEF vars, tableVars, SwapFullOnlyWhenTooSmall, Pages
<1>2. ASSUME NEW p \in Page, NEW f \in Frame, SwapFull(p, f)
      PROVE  Cardinality(Pages') > swapsize
  <2> DEFINE v == coremap[f]
  <2>1. v \in dirty /\ swap_off[v] = INVALID_SWAP /\ ~SwapHasRoom
        /\ Pages' = Pages
    BY <1>2, FreshEntriesAreEmpty DEF SwapFull, OutOfSwap, ExitWith, tableVars, Pages, IInv
  <2>2. v \in valid /\ v \notin onswap
    BY <2>1 DEF IInv, DirtyResident, SwapOwnership
  <2>3. onswap \cup {v} \in SUBSET Pages
    BY <2>2 DEF Pages
  <2>4. Cardinality(onswap \cup {v}) = Cardinality(onswap) + 1
    BY <2>2, Finiteness, FS_AddElement DEF IInv
  <2>5. /\ Cardinality(onswap \cup {v}) <= Cardinality(Pages)
        /\ Cardinality(Pages) \in Nat
    BY <2>3, Finiteness, FS_Subset, FS_CardinalityType DEF IInv
  <2> QED BY <2>1, <2>4, <2>5, FullSwapHasManyPages, Finiteness, SwapsizeAssumption DEF IInv
<1>3. status = "running" \/ UNCHANGED vars
  BY DEF Next, Hit, MissFree, MissEvictClean, MissEvictDirty, SwapFull, OsError, EndTrace,
         Miss, CanRefer
<1>4. ASSUME \/ \E t \in AccessType, p \in Page : Hit(t, p)
             \/ \E t \in AccessType, p \in Page, f \in Frame :
                   \/ MissFree(t, p, f) \/ MissEvictClean(t, p, f)
                   \/ \E s \in Slot : MissEvictDirty(t, p, f, s)
      PROVE  status' = status
  BY <1>4 DEF Hit, MissFree, MissEvictClean, MissEvictDirty, Fill
<1>5. ASSUME \/ EndTrace \/ \E p \in Page, f \in Frame : OsError(p, f)
      PROVE  status' \in {"done", "os_error"}
  BY <1>5 DEF EndTrace, OsError, ExitWith
<1> QED BY <1>1, <1>2, <1>3, <1>4, <1>5 DEF Next

(* The swap file runs out only on a trace with more pages than it has slots. *)
THEOREM SwapFullMeansTooSmall == Spec => []SwapFullOnlyWhenTooSmall
<1>1. Init => SwapFullOnlyWhenTooSmall
  BY DEF Init, SwapFullOnlyWhenTooSmall
<1> QED BY <1>1, SwapFullNext, InductiveInvariant, PTL DEF Spec
=============================================================================
