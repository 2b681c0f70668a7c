-------------------------- MODULE SwapBitmapProofs --------------------------
(***************************************************************************)
(* For any size of a word, any number of slots with which bitmap_create    *)
(* does not overflow, and any sequence of calls that their assertions      *)
(* allow: the array of words is a pool of slots.                           *)
(*                                                                         *)
(* That takes an invariant of the words: the bits behind the last slot     *)
(* stay marked (BitmapInv); otherwise bitmap_alloc would hand them out.    *)
(***************************************************************************)
EXTENDS SwapBitmap, TLAPS

BitmapInv ==
    /\ nbits \in Sizes
    /\ v \in [WordIndex -> SUBSET Offset]
    /\ \A ix \in WordIndex, o \in Offset : ix * BITS_PER_WORD + o >= nbits => o \in v[ix]

(* The slots in use, as a set. *)
Used == {i \in Index : Bit(i) \in v[Word(i)]}

-----------------------------------------------------------------------------
(* Words and bits.                                                           *)

LEMMA DivMod ==
    ASSUME NEW a \in Nat
    PROVE  /\ a \div BITS_PER_WORD \in Nat /\ a % BITS_PER_WORD \in Offset
           /\ a = (a \div BITS_PER_WORD) * BITS_PER_WORD + (a % BITS_PER_WORD)
BY WordAssumption DEF Offset

(* bitmap_translate finds the word and the bit of a slot's number, and no other. *)
LEMMA Translate ==
    ASSUME NEW q \in Nat, NEW o \in Offset
    PROVE  /\ q * BITS_PER_WORD + o \in Nat
           /\ Word(q * BITS_PER_WORD + o) = q
           /\ Bit(q * BITS_PER_WORD + o) = o
<1> DEFINE a == q * BITS_PER_WORD + o
<1>1. a \in Nat
  BY WordAssumption DEF Offset
<1>2. a \div BITS_PER_WORD = q
  <2>1. a < (q + 1) * BITS_PER_WORD /\ a >= q * BITS_PER_WORD
    BY WordAssumption DEF Offset
  <2> QED BY <1>1, <2>1, WordAssumption, DivMod DEF Offset
<1>3. a % BITS_PER_WORD = o
  BY <1>1, <1>2, DivMod, WordAssumption DEF Offset
<1> QED BY <1>1, <1>2, <1>3 DEF Word, Bit

(* bitmap_create makes as many words as the slots need, and no more. *)
LEMMA WordCount ==
    ASSUME NEW n \in Sizes
    PROVE  LET words == DIVROUNDUP(n, BITS_PER_WORD)
           IN  words \in Nat /\ n <= words * BITS_PER_WORD /\ words * BITS_PER_WORD < n + BITS_PER_WORD
<1> DEFINE a == n + BITS_PER_WORD - 1
<1>1. n \in Nat /\ a \in Nat /\ a < UINT
  BY WordAssumption, SizesAssumption
<1>2. a % UINT = a
  BY <1>1, WordAssumption
<1>3. DIVROUNDUP(n, BITS_PER_WORD) = a \div BITS_PER_WORD
  BY <1>2 DEF DIVROUNDUP
<1> QED BY <1>1, <1>3, DivMod, WordAssumption DEF Offset

(* The place of a slot is in the array. *)
LEMMA SlotPlace ==
    ASSUME nbits \in Sizes, NEW i \in Index
    PROVE  /\ i \in Nat /\ Word(i) \in WordIndex /\ Bit(i) \in Offset
           /\ i = Word(i) * BITS_PER_WORD + Bit(i)
<1>1. nbits \in Nat
  BY SizesAssumption
<1>2. i \in Nat /\ i < nbits
  BY <1>1 DEF Index
<1>3. /\ Word(i) \in Nat /\ Bit(i) \in Offset
      /\ i = Word(i) * BITS_PER_WORD + Bit(i)
  BY <1>2, DivMod DEF Word, Bit
<1> DEFINE words == DIVROUNDUP(nbits, BITS_PER_WORD)
<1>4. words \in Nat /\ nbits <= words * BITS_PER_WORD
  BY WordCount
<1> HIDE DEF words
<1>5. Word(i) < words
  BY <1>1, <1>2, <1>3, <1>4, WordAssumption DEF Offset
<1> QED BY <1>2, <1>3, <1>4, <1>5 DEF WordIndex, words

(* A place in the array whose bit is clear is that of a slot. *)
LEMMA ClearIsSlot ==
    ASSUME BitmapInv, NEW ix \in WordIndex, NEW o \in Offset, o \notin v[ix]
    PROVE  /\ ix * BITS_PER_WORD + o \in Index
           /\ Word(ix * BITS_PER_WORD + o) = ix /\ Bit(ix * BITS_PER_WORD + o) = o
<1>1. nbits \in Nat /\ ix \in Nat
  BY SizesAssumption DEF BitmapInv, WordIndex
<1>2. ix * BITS_PER_WORD + o < nbits
  BY <1>1, WordAssumption DEF BitmapInv, Offset
<1>3. ix * BITS_PER_WORD + o \in Nat
  BY <1>1, Translate
<1> DEFINE a == ix * BITS_PER_WORD + o
<1> HIDE DEF a
<1>4. a \in Index
  BY <1>1, <1>2, <1>3 DEF Index, a
<1> QED BY <1>1, <1>4, Translate DEF a
-----------------------------------------------------------------------------
(* bitmap_create: the bits that it marks are those behind the last slot. *)
LEMMA InitialWords ==
    ASSUME Init
    PROVE  BitmapInv /\ Used = {}
<1> DEFINE words == DIVROUNDUP(nbits, BITS_PER_WORD)
<1>1. nbits \in Sizes /\ nbits \in Nat /\ v = [ix \in WordIndex |-> LeftoverBits(nbits, ix)]
  BY SizesAssumption DEF Init
<1>2. words \in Nat /\ nbits <= words * BITS_PER_WORD /\ words * BITS_PER_WORD < nbits + BITS_PER_WORD
  BY <1>1, WordCount
<1>3. v \in [WordIndex -> SUBSET Offset]
  BY <1>1 DEF LeftoverBits
<1>4. ASSUME NEW ix \in WordIndex, NEW o \in Offset, ix * BITS_PER_WORD + o >= nbits
      PROVE  o \in v[ix]
  <2>1. ix \in Nat /\ ix < words
    BY <1>2 DEF WordIndex
  <2>2. ix = words - 1
    <3>1. CASE ix + 1 < words
      <4>1. (ix + 2) * BITS_PER_WORD <= words * BITS_PER_WORD
        BY <1>2, <2>1, <3>1, WordAssumption
      <4>2. ix * BITS_PER_WORD + BITS_PER_WORD < nbits
        BY <1>1, <1>2, <2>1, <4>1, WordAssumption
      <4> QED BY <1>1, <1>4, <2>1, <4>2, WordAssumption DEF Offset
    <3> QED BY <1>2, <2>1, <3>1
  <2>3. words > nbits \div BITS_PER_WORD
    <3> DEFINE q == nbits \div BITS_PER_WORD
    <3>1. q \in Nat /\ q * BITS_PER_WORD <= nbits
      <4>1. q \in Nat /\ nbits % BITS_PER_WORD \in Offset /\ nbits = q * BITS_PER_WORD + (nbits % BITS_PER_WORD)
        BY <1>1, DivMod
      <4> QED BY <4>1, WordAssumption DEF Offset
    <3> HIDE DEF q
    <3>2. CASE q >= words
      <4>1. nbits >= words * BITS_PER_WORD
        BY <1>1, <1>2, <3>1, <3>2, WordAssumption
      <4> QED BY <1>1, <1>2, <1>4, <2>1, <2>2, <4>1, WordAssumption DEF Offset
    <3> QED BY <1>2, <3>1, <3>2 DEF q
  <2>4. o >= nbits - ix * BITS_PER_WORD
    BY <1>1, <1>4, <2>1, WordAssumption DEF Offset
  <2>5. LeftoverBits(nbits, ix) = {j \in Offset : j >= nbits - ix * BITS_PER_WORD}
    BY <2>2, <2>3 DEF LeftoverBits
  <2> QED BY <1>1, <2>4, <2>5
<1>5. ASSUME NEW i \in Index
      PROVE  Bit(i) \notin v[Word(i)]
  <2>1. /\ i \in Nat /\ Word(i) \in WordIndex /\ Bit(i) \in Offset
        /\ i = Word(i) * BITS_PER_WORD + Bit(i)
    BY <1>1, SlotPlace
  <2>2. i < nbits
    BY <1>1 DEF Index
  <2>3. ~(Bit(i) >= nbits - Word(i) * BITS_PER_WORD)
    BY <1>1, <2>1, <2>2, WordAssumption DEF Offset, WordIndex
  <2>4. v[Word(i)] = LeftoverBits(nbits, Word(i))
    BY <1>1, <2>1
  <2> QED BY <2>3, <2>4 DEF LeftoverBits
<1> QED BY <1>1, <1>3, <1>4, <1>5 DEF BitmapInv, Used

(* Marking the bit of a place of the array, if it is a slot's. *)
LEMMA MarkedSlot ==
    ASSUME BitmapInv, NEW i \in Index, UNCHANGED nbits,
           v' = [v EXCEPT ![Word(i)] = @ \cup {Bit(i)}]
    PROVE  BitmapInv' /\ Used' = Used \cup {i}
<1>1. Word(i) \in WordIndex /\ Bit(i) \in Offset
  BY SlotPlace DEF BitmapInv
<1>2. WordIndex' = WordIndex /\ Index' = Index
  BY DEF WordIndex, Index
<1>3. BitmapInv'
  BY <1>1, <1>2 DEF BitmapInv
<1>4. ASSUME NEW j \in Index
      PROVE  Bit(j) \in v'[Word(j)] <=> Bit(j) \in v[Word(j)] \/ j = i
  <2>1. /\ Word(j) \in WordIndex
        /\ j = Word(j) * BITS_PER_WORD + Bit(j) /\ i = Word(i) * BITS_PER_WORD + Bit(i)
    BY SlotPlace DEF BitmapInv
  <2>2. Word(j) = Word(i) /\ Bit(j) = Bit(i) => j = i
    BY <2>1
  <2> QED BY <1>1, <2>1, <2>2 DEF BitmapInv
<1> QED BY <1>2, <1>3, <1>4 DEF Used

LEMMA UnmarkedSlot ==
    ASSUME BitmapInv, NEW i \in Index, UNCHANGED nbits,
           v' = [v EXCEPT ![Word(i)] = @ \ {Bit(i)}]
    PROVE  BitmapInv' /\ Used' = Used \ {i}
<1>1. /\ i \in Nat /\ Word(i) \in WordIndex /\ Bit(i) \in Offset
      /\ i = Word(i) * BITS_PER_WORD + Bit(i)
  BY SlotPlace DEF BitmapInv
<1>2. WordIndex' = WordIndex /\ Index' = Index
  BY DEF WordIndex, Index
<1>3. i < nbits /\ nbits \in Nat
  BY SizesAssumption DEF Index, BitmapInv
<1>4. BitmapInv'
  <2>1. nbits' \in Sizes /\ v' \in [WordIndex' -> SUBSET Offset]
    BY <1>1, <1>2 DEF BitmapInv
  <2>2. ASSUME NEW ix \in WordIndex, NEW o \in Offset, ix * BITS_PER_WORD + o >= nbits
        PROVE  o \in v'[ix]
    <3>1. o \in v[ix]
      BY <2>2 DEF BitmapInv
    <3>2. ~(ix = Word(i) /\ o = Bit(i))
      BY <1>1, <1>3, <2>2
    <3> QED BY <1>1, <3>1, <3>2 DEF BitmapInv
  <2> QED BY <1>2, <2>1, <2>2 DEF BitmapInv
<1>5. ASSUME NEW j \in Index
      PROVE  Bit(j) \in v'[Word(j)] <=> Bit(j) \in v[Word(j)] /\ j # i
  <2>1. Word(j) \in WordIndex /\ j = Word(j) * BITS_PER_WORD + Bit(j)
    BY SlotPlace DEF BitmapInv
  <2>2. Word(j) = Word(i) /\ Bit(j) = Bit(i) => j = i
    BY <1>1, <2>1
  <2> QED BY <1>1, <2>1, <2>2 DEF BitmapInv
<1> QED BY <1>2, <1>4, <1>5 DEF Used

-----------------------------------------------------------------------------
(* bitmap_alloc takes the lowest free slot, or there is none. *)
LEMMA AllocStep ==
    ASSUME BitmapInv, bitmap_alloc
    PROVE  BitmapInv' /\ Pool!Next
<1>1. CASE \E ix \in WordIndex, o \in Offset :
              /\ FirstWordWithRoom(ix) /\ FirstClearBit(ix, o)
              /\ v' = [v EXCEPT ![ix] = @ \cup {o}]
              /\ out' = <<"slot", ix * BITS_PER_WORD + o>>
              /\ UNCHANGED nbits
  <2>1. PICK ix \in WordIndex, o \in Offset :
              /\ FirstWordWithRoom(ix) /\ FirstClearBit(ix, o)
              /\ v' = [v EXCEPT ![ix] = @ \cup {o}]
              /\ out' = <<"slot", ix * BITS_PER_WORD + o>>
              /\ UNCHANGED nbits
    BY <1>1
  <2> DEFINE s == ix * BITS_PER_WORD + o
  <2>2. o \notin v[ix]
    BY <2>1 DEF FirstClearBit
  <2>3. s \in Index /\ Word(s) = ix /\ Bit(s) = o
    BY <2>2, ClearIsSlot
  <2>4. BitmapInv' /\ Used' = Used \cup {s}
    BY <2>1, <2>3, MarkedSlot
  <2>5. s \in Index \ Used
    BY <2>2, <2>3 DEF Used
  <2>6. ASSUME NEW r \in Index \ Used
        PROVE  s <= r
    <3>1. /\ r \in Nat /\ Word(r) \in WordIndex /\ Bit(r) \in Offset
          /\ r = Word(r) * BITS_PER_WORD + Bit(r)
      BY SlotPlace DEF BitmapInv
    <3>2. Bit(r) \in Offset \ v[Word(r)]
      BY <2>6, <3>1 DEF Used
    <3>3. ~(Word(r) < ix)
      BY <2>1, <3>1, <3>2 DEF FirstWordWithRoom, WORD_ALLBITS
    <3>4. ix \in Nat /\ Word(r) \in Nat
      BY <3>1, WordCount DEF WordIndex, BitmapInv
    <3>5. CASE Word(r) = ix
      BY <2>1, <3>1, <3>2, <3>4, <3>5, WordAssumption DEF FirstClearBit, Offset
    <3>6. CASE Word(r) > ix
      <4>1. Word(r) * BITS_PER_WORD >= (ix + 1) * BITS_PER_WORD
        BY <3>4, <3>6, WordAssumption
      <4> QED BY <3>1, <3>4, <4>1, WordAssumption DEF Offset
    <3> QED BY <3>3, <3>4, <3>5, <3>6
  <2> HIDE DEF s
  <2>7. out' = <<"slot", s>> /\ nbits' = nbits
    BY <2>1 DEF s
  <2> QED BY <2>4, <2>5, <2>6, <2>7 DEF Pool!Next, Pool!Alloc, Pool!Slot, Index, Used
<1>2. CASE /\ \A ix \in WordIndex : v[ix] = WORD_ALLBITS
           /\ out' = Full
           /\ UNCHANGED <<nbits, v>>
  <2>1. Used = Index
    BY <1>2, SlotPlace DEF Used, BitmapInv, WORD_ALLBITS
  <2>2. BitmapInv' /\ Used' = Used
    BY <1>2 DEF BitmapInv, Used, WordIndex, Index
  <2> QED BY <1>2, <2>1, <2>2
      DEF Pool!Next, Pool!Alloc, Pool!Slot, Index, Used, Pool!Full, Full
<1> QED BY <1>1, <1>2 DEF bitmap_alloc

(* The other calls change or read one slot. *)
LEMMA StepRefines ==
    ASSUME BitmapInv, [Next]_vars
    PROVE  BitmapInv' /\ [Pool!Next]_<<nbits, Used, out>>
<1> USE DEF Pool!Next, Pool!Slot
<1>1. CASE bitmap_alloc
  BY <1>1, AllocStep
<1>2. ASSUME NEW i \in Index, bitmap_mark(i)
      PROVE  BitmapInv' /\ Pool!Next
  <2>1. i \notin Used
    BY <1>2 DEF bitmap_mark, Used
  <2>2. BitmapInv' /\ Used' = Used \cup {i}
    BY <1>2, MarkedSlot DEF bitmap_mark
  <2> QED BY <1>2, <2>1, <2>2 DEF bitmap_mark, Pool!Mark, Used, Index
<1>3. ASSUME NEW i \in Index, bitmap_unmark(i)
      PROVE  BitmapInv' /\ Pool!Next
  <2>1. i \in Used
    BY <1>3 DEF bitmap_unmark, Used
  <2>2. BitmapInv' /\ Used' = Used \ {i}
    BY <1>3, UnmarkedSlot DEF bitmap_unmark
  <2> QED BY <1>3, <2>1, <2>2 DEF bitmap_unmark, Pool!Unmark, Used, Index
<1>4. ASSUME NEW i \in Index, bitmap_isset(i)
      PROVE  BitmapInv' /\ Pool!Next
  <2>1. BitmapInv' /\ Used' = Used
    BY <1>4 DEF bitmap_isset, BitmapInv, Used, WordIndex, Index
  <2>2. (Bit(i) \in v[Word(i)]) = (i \in Used)
    BY DEF Used
  <2> QED BY <1>4, <2>1, <2>2 DEF bitmap_isset, Pool!IsSet, Used, Index
<1>5. CASE UNCHANGED vars
  BY <1>5 DEF vars, BitmapInv, Used, WordIndex, Index
<1> QED BY <1>1, <1>2, <1>3, <1>4, <1>5 DEF Next

(* The array of words is a pool of nbits slots: bitmap_alloc returns the     *)
(* lowest free slot and fails exactly when there is none, and every slot it  *)
(* returns exists, as its assertion says.                                    *)
THEOREM WordsArePool == Spec => ImplementsSlotPool
<1>1. Init => BitmapInv /\ Pool!Init
  BY InitialWords, SizesAssumption DEF Init, Pool!Init, Used, Pool!Full, Full
<1>2. BitmapInv /\ [Next]_vars => BitmapInv' /\ [Pool!Next]_<<nbits, Used, out>>
  BY StepRefines
<1> QED BY <1>1, <1>2, PTL DEF Spec, ImplementsSlotPool, Pool!Spec, Used
=============================================================================
