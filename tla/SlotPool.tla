------------------------------ MODULE SlotPool ------------------------------
(***************************************************************************)
(* What the swap bitmap promises to swap.c: a pool of nbits slots.         *)
(* PageTable uses it in this form, as its set swapmap.                     *)
(***************************************************************************)
EXTENDS Naturals

VARIABLES
    nbits,          \* how many slots there are; never changes
    used,           \* slots in use
    out             \* what the last call returned

Slot == 0 .. nbits - 1
Full == <<"full">>

Init == nbits \in Nat /\ used = {} /\ out = Full

(* The lowest free slot, if there is any. *)
Alloc == \/ \E s \in Slot \ used :
              /\ \A r \in Slot \ used : s <= r
              /\ used' = used \cup {s} /\ out' = <<"slot", s>>
         \/ used = Slot /\ out' = Full /\ UNCHANGED used

Mark(s)   == s \notin used /\ used' = used \cup {s} /\ UNCHANGED out
Unmark(s) == s \in used /\ used' = used \ {s} /\ UNCHANGED out
IsSet(s)  == out' = <<"set", s \in used>> /\ UNCHANGED used

Next == /\ Alloc \/ \E s \in Slot : Mark(s) \/ Unmark(s) \/ IsSet(s)
        /\ UNCHANGED nbits

Spec == Init /\ [][Next]_<<nbits, used, out>>
=============================================================================
