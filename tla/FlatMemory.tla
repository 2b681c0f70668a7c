----------------------------- MODULE FlatMemory -----------------------------
(***************************************************************************)
(* What the virtual memory simulator of CSC369/Virtual Memory promises to  *)
(* the program whose trace it replays: one flat memory, in which every     *)
(* page remembers how many times it was written.  access_mem (sim.c)       *)
(* observes a page through two words kept at the start of its frame, the   *)
(* virtual address it expects to find and a version number that every      *)
(* store increments; `out' is that observation.  Frames, page tables and   *)
(* swap do not exist at this level.                                        *)
(***************************************************************************)
EXTENDS Naturals

CONSTANTS
    Page,       \* the virtual pages a trace may reference
    AccessType, \* the kinds of reference, "Load" and "Store"
    NoRef       \* the value of out before the first reference

VARIABLES
    mem,        \* mem[p]: the number of stores made to page p
    out         \* the last reference, as access_mem saw it

vars == <<mem, out>>

Observation(t, p, tag, ver) == [type |-> t, page |-> p, vaddr |-> tag, version |-> ver]

(* The version a page has after a reference that found it at version ver. *)
Written(t, ver) == IF t = "Store" THEN ver + 1 ELSE ver

Init == /\ mem = [p \in Page |-> 0]
        /\ out = NoRef

(* One line of the trace: the page shows its own address and every store made
   to it so far. *)
Reference(t, p) ==
    /\ out' = Observation(t, p, p, mem[p])
    /\ mem' = [mem EXCEPT ![p] = Written(t, @)]

Next == \E t \in AccessType, p \in Page : Reference(t, p)

Spec == Init /\ [][Next]_vars
=============================================================================
