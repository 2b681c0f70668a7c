-------------------------------- MODULE Clock -------------------------------
(***************************************************************************)
(* Replacement by -a clock (clock.c of CSC369/Virtual Memory).  The loop of *)
(* clock_evict is a step per frame it passes, so that whether it ends is a *)
(* question that can be asked.  coremap is read here, never written: the   *)
(* reference bit is in the page table entry the coremap points to.         *)
(***************************************************************************)
EXTENDS Integers

CONSTANT memsize
VARIABLES
    coremap,        \* of PageTable
    refbit,         \* pages with PG_REF
    clockHand,      \* a frame
    sweeping        \* clock_evict is in its loop

ownVars == <<refbit, clockHand, sweeping>>

Init == refbit = {} /\ clockHand = 0 /\ sweeping = FALSE

(* clock_ref sets the reference bit of the page that ends up in frame f; fresh
   are entries the reference has just created with every bit clear. *)
Ref(f, fresh) == refbit' = (refbit \ fresh) \cup {coremap'[f]}

Hit(f, fresh)  == Ref(f, fresh) /\ UNCHANGED <<clockHand, sweeping>>
Load(f, fresh) == Ref(f, fresh) /\ UNCHANGED <<clockHand, sweeping>>

(* clock_evict is entered: a hand on the last frame restarts at frame 0, without
   looking at the frame it was on. *)
StartSweep ==
    /\ ~sweeping
    /\ sweeping' = TRUE
    /\ clockHand' = IF clockHand = memsize - 1 THEN 0 ELSE clockHand
    /\ UNCHANGED refbit

\* Mutants: the hand does not wrap; a pass clears no bit, or every bit.
AdvancePast(h) == h + 1
ClearNone(p)   == refbit
ClearAll(p)    == {}

Advance(h) == IF h = memsize - 1 THEN 0 ELSE h + 1
Clear(p)   == refbit \ {p}

(* One iteration: the page was used since the hand last passed; it is spared. *)
Sweep ==
    /\ sweeping
    /\ coremap[clockHand] \in refbit
    /\ refbit' = Clear(coremap[clockHand])
    /\ clockHand' = Advance(clockHand)
    /\ UNCHANGED sweeping

Victim(f) == sweeping /\ f = clockHand /\ coremap[f] \notin refbit

(* The loop ends at a page whose bit is off.  The hand stays on its frame. *)
Replace(f, fresh) ==
    /\ Victim(f)
    /\ sweeping' = FALSE
    /\ Ref(f, fresh)
    /\ UNCHANGED clockHand
=============================================================================
