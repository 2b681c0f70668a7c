----------------------------- MODULE SwapBitmap -----------------------------
(***************************************************************************)
(* The bitmap of swap.c (CSC369/Virtual Memory) as it is stored: an array  *)
(* of words of BITS_PER_WORD bits, whose last word has bits for slots that *)
(* do not exist.  A word is the set of the offsets of its bits that are 1. *)
(* Unsigned arithmetic has a width: UINT values, after which it wraps.     *)
(*                                                                         *)
(* The simulator calls bitmap_alloc only; the other calls are made here    *)
(* wherever their assertions allow.                                        *)
(***************************************************************************)
EXTENDS Integers

CONSTANTS
    BITS_PER_WORD,  \* 32 in the code
    UINT,           \* 2^32 in the code
    Sizes           \* values of nbits, the -s argument

ASSUME WordAssumption == BITS_PER_WORD \in Nat \ {0} /\ UINT \in Nat \ {0}
(* With -s closer than a word to UINT, DIVROUNDUP wraps and no word is allocated. *)
ASSUME SizesAssumption == \A n \in Sizes : n \in Nat /\ n + BITS_PER_WORD - 1 < UINT

VARIABLES
    nbits, v,       \* struct bitmap: v[ix] is a word
    out             \* what the last call returned or stored in *index

vars == <<nbits, v, out>>

DIVROUNDUP(a, b) == ((a + b - 1) % UINT) \div b

Offset       == 0 .. BITS_PER_WORD - 1
WORD_ALLBITS == Offset
WordIndex    == 0 .. DIVROUNDUP(nbits, BITS_PER_WORD) - 1
Full         == <<"full">>

-----------------------------------------------------------------------------
\* Mutant: the last word keeps its spare bits clear.
NoLeftoverBits(n, ix) == {}

(* The bits of word ix that bitmap_create marks because no slot has them: those
   of the last word from offset overbits on, if the last word is not whole. *)
LeftoverBits(n, ix) ==
    LET words    == DIVROUNDUP(n, BITS_PER_WORD)
        overbits == n - ix * BITS_PER_WORD
    IN  IF words > n \div BITS_PER_WORD /\ ix = words - 1
          THEN {j \in Offset : j >= overbits} ELSE {}

Init ==
    /\ nbits \in Sizes
    /\ v = [ix \in WordIndex |-> LeftoverBits(nbits, ix)]
    /\ out = Full

(* bitmap_translate. *)
Word(bitno) == bitno \div BITS_PER_WORD
Bit(bitno)  == bitno % BITS_PER_WORD

FirstWordWithRoom(ix) == /\ v[ix] # WORD_ALLBITS
                         /\ \A j \in WordIndex : j < ix => v[j] = WORD_ALLBITS

\* Mutant: any clear bit of the word will do.
SomeClearBit(ix, o) == o \in Offset \ v[ix]

FirstClearBit(ix, o) == o \in Offset \ v[ix] /\ \A j \in Offset \ v[ix] : o <= j

bitmap_alloc ==
    \/ \E ix \in WordIndex, o \in Offset :
          /\ FirstWordWithRoom(ix) /\ FirstClearBit(ix, o)
          /\ v' = [v EXCEPT ![ix] = @ \cup {o}]
          /\ out' = <<"slot", ix * BITS_PER_WORD + o>>
          /\ UNCHANGED nbits
    \/ /\ \A ix \in WordIndex : v[ix] = WORD_ALLBITS
       /\ out' = Full
       /\ UNCHANGED <<nbits, v>>

bitmap_mark(i) ==
    /\ Bit(i) \notin v[Word(i)]
    /\ v' = [v EXCEPT ![Word(i)] = @ \cup {Bit(i)}]
    /\ UNCHANGED <<nbits, out>>

bitmap_unmark(i) ==
    /\ Bit(i) \in v[Word(i)]
    /\ v' = [v EXCEPT ![Word(i)] = @ \ {Bit(i)}]
    /\ UNCHANGED <<nbits, out>>

bitmap_isset(i) ==
    /\ out' = <<"set", Bit(i) \in v[Word(i)]>>
    /\ UNCHANGED <<nbits, v>>

Index == 0 .. nbits - 1

Next ==
    \/ bitmap_alloc
    \/ \E i \in Index : bitmap_mark(i)
    \/ \E i \in Index : bitmap_unmark(i)
    \/ \E i \in Index : bitmap_isset(i)

Spec == Init /\ [][Next]_vars

-----------------------------------------------------------------------------
(* Properties.                                                               *)

Pool == INSTANCE SlotPool WITH
            used <- {i \in Index : Bit(i) \in v[Word(i)]}

(* The array of words is a pool of nbits slots: allocation returns the lowest free
   slot and says "full" exactly when there is none.  The bits that the last word
   has beyond the last slot stay marked, whatever is allocated and released, so
   the assertion that *index is below nbits holds. *)
ImplementsSlotPool == Pool!Spec
=============================================================================
