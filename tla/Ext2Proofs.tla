----------------------------- MODULE Ext2Proofs -----------------------------
(***************************************************************************)
(* What the commands of Ext2 keep, for any image, names and sizes.         *)
(***************************************************************************)
EXTENDS Ext2, FiniteSetTheorems, SequenceTheorems, WellFoundedInduction, TLAPS

-----------------------------------------------------------------------------
(* Induction, and functions that are defined by it.                          *)

LEMMA NatSets ==
    ASSUME NEW S, 0 \in S, \A n \in Nat : n \in S => n + 1 \in S
    PROVE  Nat \subseteq S
<1> DEFINE less == {ss \in Nat \X Nat : ss[1] < ss[2]}
           T == Nat \ S
<1> SUFFICES ASSUME T # {} PROVE FALSE
  OBVIOUS
<1>1. IsWellFoundedOn(less, Nat)
  BY NatLessThanWellFounded, Zenon DEF OpToRel
<1>2. PICK m \in T : \A n \in T : ~(<<n, m>> \in less)
  BY <1>1, WFMin
<1>3. m - 1 \in Nat /\ m - 1 < m
  BY <1>2
<1>4. m - 1 \notin T
  BY <1>2, <1>3
<1> QED BY <1>2, <1>3, <1>4

(* f lists what N applications of F to a lead through.                       *)
Iterates(f, N, a, F) == f[0] = a /\ \A n \in 1 .. N : f[n] = F[n][f[n - 1]]

LEMMA IterationExists ==
    ASSUME NEW T, NEW a \in T, NEW N \in Nat, NEW F \in [1 .. N -> [T -> T]]
    PROVE  \E f \in [0 .. N -> T] : Iterates(f, N, a, F)
<1> DEFINE S == {k \in Nat : k <= N => \E f \in [0 .. k -> T] : Iterates(f, k, a, F)}
<1>1. 0 \in S
  <2>1. [i \in 0 .. 0 |-> a] \in [0 .. 0 -> T] /\ Iterates([i \in 0 .. 0 |-> a], 0, a, F)
    BY DEF Iterates
  <2> QED BY <2>1
<1>2. ASSUME NEW k \in Nat, k \in S, k + 1 <= N PROVE \E f \in [0 .. k + 1 -> T] : Iterates(f, k + 1, a, F)
  <2>1. PICK g \in [0 .. k -> T] : Iterates(g, k, a, F)
    BY <1>2
  <2> DEFINE h == [i \in 0 .. k + 1 |-> IF i = k + 1 THEN F[k + 1][g[k]] ELSE g[i]]
  <2>2. F[k + 1][g[k]] \in T
    <3>1. g[k] \in T /\ k + 1 \in 1 .. N
      BY <1>2, <2>1
    <3> QED BY <3>1
  <2>3. \A i \in 0 .. k + 1 : h[i] = IF i = k + 1 THEN F[k + 1][g[k]] ELSE g[i]
    BY Zenon
  <2>4. \A i \in 0 .. k + 1 : h[i] \in T
    <3>1. ASSUME NEW i \in 0 .. k + 1, i # k + 1 PROVE g[i] \in T
      <4>1. i \in 0 .. k
        BY <3>1
      <4> QED BY <4>1
    <3> HIDE DEF h
    <3> QED BY <2>2, <2>3, <3>1
  <2>5. h \in [0 .. k + 1 -> T]
    BY <2>4
  <2> HIDE DEF h
  <2>6. h[0] = a
    BY <2>1, <2>3 DEF Iterates
  <2>7. ASSUME NEW n \in 1 .. k + 1 PROVE h[n] = F[n][h[n - 1]]
    <3>1. CASE n = k + 1
      <4>1. h[n] = F[k + 1][g[k]] /\ n - 1 = k /\ h[k] = g[k]
        BY <2>3, <3>1
      <4> QED BY <3>1, <4>1
    <3>2. CASE n \in 1 .. k
      <4>1. h[n] = g[n] /\ h[n - 1] = g[n - 1]
        BY <2>3, <3>2
      <4> QED BY <3>2, <4>1, <2>1 DEF Iterates
    <3> QED BY <3>1, <3>2
  <2> QED BY <2>5, <2>6, <2>7 DEF Iterates
<1>3. Nat \subseteq S
  <2>1. \A k \in Nat : k \in S => k + 1 \in S
    BY <1>2
  <2> HIDE DEF S
  <2> QED BY <1>1, <2>1, NatSets
<1> QED BY <1>3

(* What holds at first and is kept at each step holds at each.                *)
LEMMA Steps ==
    ASSUME NEW N \in Nat, NEW S, 0 \in S, \A n \in 1 .. N : n - 1 \in S => n \in S
    PROVE  0 .. N \subseteq S
<1> DEFINE R == {k \in Nat : k <= N => k \in S}
<1>1. 0 \in R
  OBVIOUS
<1>2. ASSUME NEW k \in Nat, k \in R PROVE k + 1 \in R
  <2>1. CASE k + 1 <= N
    <3>1. k + 1 \in 1 .. N /\ (k + 1) - 1 = k /\ k \in S
      BY <1>2, <2>1
    <3> QED BY <3>1
  <2> QED BY <2>1
<1>3. Nat \subseteq R
  <2> HIDE DEF R
  <2> QED BY <1>1, <1>2, NatSets
<1> QED BY <1>3

-----------------------------------------------------------------------------
(* Sequences.                                                                *)

LEMMA LeastIndex ==
    ASSUME NEW I \in SUBSET Nat, I # {}
    PROVE  Min(I) \in I /\ \A n \in I : Min(I) <= n
<1> DEFINE less == {ss \in Nat \X Nat : ss[1] < ss[2]}
<1>1. IsWellFoundedOn(less, Nat)
  BY NatLessThanWellFounded, Zenon DEF OpToRel
<1>2. PICK m \in I : \A n \in I : ~(<<n, m>> \in less)
  BY <1>1, WFMin
<1>3. \A a, b \in Nat : a < b => <<a, b>> \in less
  OBVIOUS
<1> HIDE DEF less
<1>4. ASSUME NEW n \in I PROVE m <= n
  <2>1. n \in Nat /\ m \in Nat
    OBVIOUS
  <2>2. ~(n < m)
    BY <1>2, <1>3, <2>1, Zenon
  <2> QED BY <2>1, <2>2
<1> QED BY <1>4 DEF Min

(* r is s with e put in as element m.                                        *)
IsInserted(r, s, m, e) ==
    /\ Len(r) = Len(s) + 1
    /\ \A i \in 1 .. Len(s) + 1 : r[i] = IF i < m THEN s[i] ELSE IF i = m THEN e ELSE s[i - 1]

LEMMA InsertAtIs ==
    ASSUME NEW S, NEW s \in Seq(S), NEW e \in S, NEW m \in 1 .. Len(s) + 1
    PROVE  InsertAt(s, m, e) \in Seq(S) /\ IsInserted(InsertAt(s, m, e), s, m, e)
<1> DEFINE n == Len(s)
           front == SubSeq(s, 1, m - 1)
           back == SubSeq(s, m, n)
           one == <<e>>
<1>1. n \in Nat /\ \A i \in 1 .. n : s[i] \in S
  BY LenProperties, ElementOfSeq
<1>2. front \in Seq(S) /\ Len(front) = m - 1 /\ \A i \in 1 .. m - 1 : front[i] = s[i]
  <2>1. \A i \in 1 .. m - 1 : s[i] \in S
    BY <1>1
  <2>2. front \in Seq(S) /\ Len(front) = (IF 1 <= m - 1 THEN m - 1 - 1 + 1 ELSE 0)
        /\ \A i \in 1 .. m - 1 - 1 + 1 : front[i] = s[1 + i - 1]
    BY <2>1, SubSeqProperties
  <2> HIDE DEF front
  <2> QED BY <2>2, <1>1
<1>3. back \in Seq(S) /\ Len(back) = n - m + 1 /\ \A i \in 1 .. n - m + 1 : back[i] = s[m + i - 1]
  <2>1. \A i \in m .. n : s[i] \in S
    BY <1>1
  <2>2. n \in Int /\ m \in Int
    BY <1>1
  <2>3. back \in Seq(S) /\ Len(back) = (IF m <= n THEN n - m + 1 ELSE 0)
        /\ \A i \in 1 .. n - m + 1 : back[i] = s[m + i - 1]
    <3> HIDE DEF n
    <3> QED BY <2>1, <2>2, SubSeqProperties
  <2> HIDE DEF back
  <2> QED BY <1>1, <2>3
<1>4. one \in Seq(S) /\ Len(one) = 1 /\ one[1] = e
  OBVIOUS
<1> DEFINE r1 == front \o one
           r == r1 \o back
<1> HIDE DEF one, front, back
<1>5. r1 \in Seq(S) /\ Len(r1) = m /\ \A i \in 1 .. m : r1[i] = IF i <= m - 1 THEN front[i] ELSE one[i - (m - 1)]
  <2>1. r1 \in Seq(S) /\ Len(r1) = Len(front) + Len(one)
        /\ \A i \in 1 .. Len(front) + Len(one) :
              r1[i] = IF i <= Len(front) THEN front[i] ELSE one[i - Len(front)]
    BY <1>2, <1>4, ConcatProperties
  <2> HIDE DEF r1
  <2> QED BY <1>1, <1>2, <1>4, <2>1
<1>6. \A i \in 1 .. m : r1[i] = IF i < m THEN s[i] ELSE e
  <2> HIDE DEF r1
  <2> QED BY <1>1, <1>2, <1>4, <1>5
<1> HIDE DEF r1
<1>7. r \in Seq(S) /\ Len(r) = m + (n - m + 1)
      /\ \A i \in 1 .. m + (n - m + 1) : r[i] = IF i <= m THEN r1[i] ELSE back[i - m]
  <2>1. r \in Seq(S) /\ Len(r) = Len(r1) + Len(back)
        /\ \A i \in 1 .. Len(r1) + Len(back) : r[i] = IF i <= Len(r1) THEN r1[i] ELSE back[i - Len(r1)]
    BY <1>3, <1>5, ConcatProperties
  <2> HIDE DEF r
  <2> QED BY <1>1, <1>3, <1>5, <2>1
<1>8. InsertAt(s, m, e) = r
  BY DEF InsertAt, r, r1, front, back, one
<1> HIDE DEF r
<1>9. \A i \in 1 .. n + 1 : r[i] = IF i < m THEN s[i] ELSE IF i = m THEN e ELSE s[i - 1]
  <2> SUFFICES ASSUME NEW i \in 1 .. n + 1
               PROVE  r[i] = IF i < m THEN s[i] ELSE IF i = m THEN e ELSE s[i - 1]
    OBVIOUS
  <2>1. CASE i <= m
    BY <1>1, <1>6, <1>7, <2>1
  <2>2. CASE i > m
    <3>1. i - m \in 1 .. n - m + 1 /\ m + (i - m) - 1 = i - 1
      BY <1>1, <2>2
    <3>2. r[i] = back[i - m]
      BY <1>1, <1>7, <2>2
    <3> QED BY <1>1, <1>3, <2>2, <3>1, <3>2
  <2> QED BY <1>1, <2>1, <2>2
<1> QED BY <1>1, <1>7, <1>8, <1>9 DEF IsInserted

LEMMA RemoveAtIs ==
    ASSUME NEW S, NEW s \in Seq(S), NEW i \in 1 .. Len(s)
    PROVE  /\ RemoveAt(s, i) \in Seq(S) /\ Len(RemoveAt(s, i)) = Len(s) - 1
           /\ \A k \in 1 .. Len(s) - 1 : RemoveAt(s, i)[k] = IF k < i THEN s[k] ELSE s[k + 1]
<1> DEFINE n == Len(s)
           front == SubSeq(s, 1, i - 1)
           back == SubSeq(s, i + 1, n)
           r == front \o back
<1>1. n \in Nat /\ \A k \in 1 .. n : s[k] \in S
  BY LenProperties, ElementOfSeq
<1>2. front \in Seq(S) /\ Len(front) = i - 1 /\ \A k \in 1 .. i - 1 : front[k] = s[k]
  <2>1. \A k \in 1 .. i - 1 : s[k] \in S
    BY <1>1
  <2>2. front \in Seq(S) /\ Len(front) = (IF 1 <= i - 1 THEN i - 1 - 1 + 1 ELSE 0)
        /\ \A k \in 1 .. i - 1 - 1 + 1 : front[k] = s[1 + k - 1]
    BY <2>1, SubSeqProperties
  <2> HIDE DEF front
  <2> QED BY <2>2, <1>1
<1>3. back \in Seq(S) /\ Len(back) = n - i /\ \A k \in 1 .. n - i : back[k] = s[i + k]
  <2>1. \A k \in i + 1 .. n : s[k] \in S
    BY <1>1
  <2>2. n \in Int /\ i + 1 \in Int
    BY <1>1
  <2>3. back \in Seq(S) /\ Len(back) = (IF i + 1 <= n THEN n - (i + 1) + 1 ELSE 0)
        /\ \A k \in 1 .. n - (i + 1) + 1 : back[k] = s[i + 1 + k - 1]
    <3> HIDE DEF n
    <3> QED BY <2>1, <2>2, SubSeqProperties
  <2> HIDE DEF back
  <2> QED BY <1>1, <2>3
<1> HIDE DEF front, back
<1>4. r \in Seq(S) /\ Len(r) = Len(front) + Len(back)
      /\ \A k \in 1 .. Len(front) + Len(back) : r[k] = IF k <= Len(front) THEN front[k] ELSE back[k - Len(front)]
  BY <1>2, <1>3, ConcatProperties
<1>5. Len(front) + Len(back) = n - 1
  BY <1>1, <1>2, <1>3
<1>6. \A k \in 1 .. n - 1 : r[k] = IF k < i THEN s[k] ELSE s[k + 1]
  <2> HIDE DEF r
  <2>1. ASSUME NEW k \in 1 .. n - 1, k < i PROVE r[k] = s[k]
    BY <1>1, <1>2, <1>4, <1>5, <2>1
  <2>2. ASSUME NEW k \in 1 .. n - 1, k >= i PROVE r[k] = s[k + 1]
    <3>1. k - (i - 1) \in 1 .. n - i /\ i + (k - (i - 1)) = k + 1
      BY <1>1, <2>2
    <3>2. r[k] = back[k - (i - 1)]
      BY <1>1, <1>2, <1>4, <1>5, <2>2
    <3> QED BY <1>3, <3>1, <3>2
  <2> QED BY <2>1, <2>2
<1>7. RemoveAt(s, i) = r
  BY DEF RemoveAt, front, back
<1> HIDE DEF r
<1> QED BY <1>4, <1>5, <1>6, <1>7

-----------------------------------------------------------------------------
(* What a command holds, typed.                                              *)

Kinds == {"none", "file", "dir"}
Names == Name \cup {"", ".", ".."}
Entry == [name : Names, inode : Inode \cup Block \cup {0}, type : Kinds, rec : Int]
Node  == [type : Kinds, links : Nat, block : Seq(Block)]
Bits  == [b : SUBSET Block, i : SUBSET Inode]
Left  == [b : Nat, i : Nat]
Super == [b : 0 .. SB_MOD - 1, i : 0 .. SB_MOD - 1]

Process ==
    [bitmap : Bits, gd : Left, dirs : Nat, sb : Super, inode : [Inode -> Node],
     entries : [Block -> Seq(Entry)], words : [Block -> Seq(Block)],
     dir : Node, got : Int, at : Int \X Int, ok : BOOLEAN]

(* The counts of the group are never below what its bitmaps leave free.      *)
Counted(p) ==
    /\ p.gd.b >= Cardinality(Block \ p.bitmap.b)
    /\ p.gd.i >= Cardinality(Inode \ p.bitmap.i)

(* All but bits, counts and the number reserved.                             *)
SameRest(p, q) ==
    /\ q.dirs = p.dirs /\ q.inode = p.inode /\ q.entries = p.entries /\ q.words = p.words
    /\ q.dir = p.dir /\ q.at = p.at

(* The process has called exit(ENOSPC).                                      *)
Failed(p, q) ==
    /\ SameRest(p, q) /\ q.bitmap = p.bitmap /\ q.gd = p.gd /\ q.sb = p.sb /\ ~q.ok

(* It has taken the first free block or inode.                               *)
BlockTaken(p, q) ==
    /\ SameRest(p, q) /\ p.ok /\ q.ok
    /\ q.got \in Block \ p.bitmap.b /\ \A y \in Block \ p.bitmap.b : q.got <= y
    /\ q.bitmap = [b |-> p.bitmap.b \cup {q.got}, i |-> p.bitmap.i]
    /\ q.gd = [b |-> p.gd.b - 1, i |-> p.gd.i]
    /\ q.sb = [b |-> (p.sb.b - 1) % SB_MOD, i |-> p.sb.i]

InodeTaken(p, q) ==
    /\ SameRest(p, q) /\ p.ok /\ q.ok
    /\ q.got \in Inode \ p.bitmap.i
    /\ q.bitmap = [b |-> p.bitmap.b, i |-> p.bitmap.i \cup {q.got}]
    /\ q.gd = [b |-> p.gd.b, i |-> p.gd.i - 1]
    /\ q.sb = [b |-> p.sb.b, i |-> (p.sb.i - 1) % SB_MOD]

LEMMA Finite ==
    /\ IsFiniteSet(Block) /\ Block \subseteq Nat
    /\ IsFiniteSet(Inode) /\ Inode \subseteq Nat
<1>1. BLOCKS \in Int /\ INODES \in Int /\ 1 \in Int
  <2>1. BLOCKS \in Nat /\ INODES \in Nat
    BY Ext2Assumption, Zenon
  <2> QED BY <2>1
<1>2. IsFiniteSet(1 .. BLOCKS) /\ IsFiniteSet(1 .. INODES)
  BY <1>1, FS_Interval
<1>3. Block \subseteq 1 .. BLOCKS /\ Inode \subseteq 1 .. INODES
  BY Ext2Assumption
<1>4. Block \subseteq Nat /\ Inode \subseteq Nat
  BY <1>1, <1>3
<1> QED BY <1>2, <1>3, <1>4, FS_Subset

LEMMA Least ==
    ASSUME NEW S \in SUBSET Nat, S # {}
    PROVE  LET n == CHOOSE x \in S : \A y \in S : x <= y
           IN  n \in S /\ \A y \in S : n <= y
BY LeastIndex DEF Min

(* What one command can add to a count of the group at most.                 *)
Gain == NDIRECT + ADDRS

LEMMA Bounds ==
    /\ BLOCKS \in Nat /\ INODES \in Nat /\ MaxCommands \in Nat /\ Gain \in Nat /\ SB_MOD \in Nat
    /\ MaxCommands * Gain \in Nat /\ SB_MOD > BLOCKS + INODES + MaxCommands * Gain
<1>1. /\ BLOCKS \in Nat /\ INODES \in Nat /\ MaxCommands \in Nat /\ SB_MOD \in Nat
      /\ NDIRECT \in Nat \ {0} /\ ADDRS \in Nat \ {0}
      /\ SB_MOD > BLOCKS + INODES + MaxCommands * (NDIRECT + ADDRS)
  BY Ext2Assumption, Zenon
<1>2. Gain \in Nat /\ Gain = NDIRECT + ADDRS
  BY <1>1 DEF Gain
<1>3. \A m, n \in Nat : m * n \in Nat
  OBVIOUS
<1>4. MaxCommands * Gain \in Nat
  BY <1>1, <1>2, <1>3, Zenon
<1> QED BY <1>1, <1>2, <1>4

LEMMA Wraps ==
    ASSUME NEW x \in Int PROVE x % SB_MOD \in 0 .. SB_MOD - 1
<1>1. SB_MOD \in Nat /\ SB_MOD > 0
  BY Bounds
<1> QED BY <1>1

LEMMA Small ==
    ASSUME NEW x \in Nat, x < SB_MOD PROVE x % SB_MOD = x
<1>1. SB_MOD \in Nat /\ SB_MOD > 0
  BY Bounds
<1> QED BY <1>1

LEMMA LessFree ==
    ASSUME NEW S, IsFiniteSet(S), NEW B, NEW n \in S \ B, NEW g \in Nat, g >= Cardinality(S \ B)
    PROVE  g - 1 \in Nat /\ g - 1 >= Cardinality(S \ (B \cup {n}))
<1>1. IsFiniteSet(S \ B) /\ S \ (B \cup {n}) = (S \ B) \ {n}
  BY FS_Subset
<1>2. Cardinality((S \ B) \ {n}) = Cardinality(S \ B) - 1 /\ IsFiniteSet((S \ B) \ {n})
  BY <1>1, FS_RemoveElement
<1>3. Cardinality((S \ B) \ {n}) \in Nat /\ Cardinality(S \ B) \in Nat
  BY <1>1, <1>2, FS_CardinalityType
<1> QED BY <1>1, <1>2, <1>3

LEMMA ReserveBlock ==
    ASSUME NEW p \in Process, Counted(p)
    PROVE  LET q == reserve(p, "b")
           IN  q \in Process /\ Counted(q) /\ (Failed(p, q) \/ BlockTaken(p, q))
<1> DEFINE q == reserve(p, "b")
           free == Block \ p.bitmap.b
           n == CHOOSE x \in free : \A y \in free : x <= y
<1>1. CASE p.ok /\ free # {}
  <2>1. q = [p EXCEPT !.bitmap["b"] = @ \cup {n}, !.gd["b"] = @ - 1, !.sb["b"] = (@ - 1) % SB_MOD, !.got = n]
    BY <1>1 DEF reserve
  <2>2. n \in free /\ \A y \in free : n <= y
    <3>1. free \in SUBSET Nat
      BY Finite
    <3> HIDE DEF free
    <3> QED BY <1>1, <3>1, Least
  <2>3. p.bitmap \in Bits /\ p.gd \in Left /\ p.sb \in Super
    BY DEF Process
  <2> HIDE DEF n, q
  <2>4. /\ q.bitmap = [p.bitmap EXCEPT !["b"] = @ \cup {n}]
        /\ q.gd = [p.gd EXCEPT !["b"] = @ - 1]
        /\ q.sb = [p.sb EXCEPT !["b"] = (@ - 1) % SB_MOD]
        /\ q.got = n /\ q.ok = p.ok
    BY <2>1 DEF Process
  <2>5. SameRest(p, q)
    BY <2>1 DEF Process, SameRest
  <2>6. /\ q.bitmap = [b |-> p.bitmap.b \cup {n}, i |-> p.bitmap.i]
        /\ q.gd = [b |-> p.gd.b - 1, i |-> p.gd.i]
        /\ q.sb = [b |-> (p.sb.b - 1) % SB_MOD, i |-> p.sb.i]
    BY <2>3, <2>4 DEF Bits, Left, Super
  <2> HIDE DEF free
  <2>7. n \in Block \ p.bitmap.b /\ \A y \in Block \ p.bitmap.b : n <= y
    BY <2>2 DEF free
  <2>8. p.gd.b - 1 \in Nat /\ p.gd.b - 1 >= Cardinality(Block \ (p.bitmap.b \cup {n}))
    BY <2>3, <2>7, LessFree, Finite DEF Counted, Left
  <2>9. Counted(q)
    BY <2>6, <2>8 DEF Counted
  <2>10. BlockTaken(p, q)
    BY <1>1, <2>4, <2>5, <2>6, <2>7 DEF BlockTaken
  <2>11. (p.sb.b - 1) % SB_MOD \in 0 .. SB_MOD - 1
    BY <2>3, Wraps DEF Super
  <2>12. q.bitmap \in Bits /\ q.gd \in Left /\ q.sb \in Super /\ n \in Int
    BY <2>3, <2>6, <2>7, <2>8, <2>11, Finite DEF Bits, Left, Super
  <2>13. q = [p EXCEPT !.bitmap = q.bitmap, !.gd = q.gd, !.sb = q.sb, !.got = q.got]
    BY <2>1, <2>4 DEF Process
  <2>14. q \in Process
    BY <2>4, <2>12, <2>13 DEF Process
  <2> QED BY <2>9, <2>10, <2>14 DEF q
<1>2. CASE ~(p.ok /\ free # {})
  <2>1. q = [p EXCEPT !.ok = FALSE]
    BY <1>2 DEF reserve
  <2> QED BY <2>1 DEF Process, Counted, Failed, SameRest
<1> QED BY <1>1, <1>2

LEMMA ReserveInode ==
    ASSUME NEW p \in Process, Counted(p)
    PROVE  LET q == reserve(p, "i")
           IN  q \in Process /\ Counted(q) /\ (Failed(p, q) \/ InodeTaken(p, q))
<1> DEFINE q == reserve(p, "i")
           free == Inode \ p.bitmap.i
           n == CHOOSE x \in free : \A y \in free : x <= y
<1>1. CASE p.ok /\ free # {}
  <2>1. q = [p EXCEPT !.bitmap["i"] = @ \cup {n}, !.gd["i"] = @ - 1, !.sb["i"] = (@ - 1) % SB_MOD, !.got = n]
    BY <1>1 DEF reserve
  <2>2. n \in free /\ \A y \in free : n <= y
    <3>1. free \in SUBSET Nat
      BY Finite
    <3> HIDE DEF free
    <3> QED BY <1>1, <3>1, Least
  <2>3. p.bitmap \in Bits /\ p.gd \in Left /\ p.sb \in Super
    BY DEF Process
  <2> HIDE DEF n, q
  <2>4. /\ q.bitmap = [p.bitmap EXCEPT !["i"] = @ \cup {n}]
        /\ q.gd = [p.gd EXCEPT !["i"] = @ - 1]
        /\ q.sb = [p.sb EXCEPT !["i"] = (@ - 1) % SB_MOD]
        /\ q.got = n /\ q.ok = p.ok
    BY <2>1 DEF Process
  <2>5. SameRest(p, q)
    BY <2>1 DEF Process, SameRest
  <2>6. /\ q.bitmap = [b |-> p.bitmap.b, i |-> p.bitmap.i \cup {n}]
        /\ q.gd = [b |-> p.gd.b, i |-> p.gd.i - 1]
        /\ q.sb = [b |-> p.sb.b, i |-> (p.sb.i - 1) % SB_MOD]
    BY <2>3, <2>4 DEF Bits, Left, Super
  <2> HIDE DEF free
  <2>7. n \in Inode \ p.bitmap.i /\ \A y \in Inode \ p.bitmap.i : n <= y
    BY <2>2 DEF free
  <2>8. p.gd.i - 1 \in Nat /\ p.gd.i - 1 >= Cardinality(Inode \ (p.bitmap.i \cup {n}))
    BY <2>3, <2>7, LessFree, Finite DEF Counted, Left
  <2>9. Counted(q)
    BY <2>6, <2>8 DEF Counted
  <2>10. InodeTaken(p, q)
    BY <1>1, <2>4, <2>5, <2>6, <2>7 DEF InodeTaken
  <2>11. (p.sb.i - 1) % SB_MOD \in 0 .. SB_MOD - 1
    BY <2>3, Wraps DEF Super
  <2>12. q.bitmap \in Bits /\ q.gd \in Left /\ q.sb \in Super /\ n \in Int
    BY <2>3, <2>6, <2>7, <2>8, <2>11, Finite DEF Bits, Left, Super
  <2>13. q = [p EXCEPT !.bitmap = q.bitmap, !.gd = q.gd, !.sb = q.sb, !.got = q.got]
    BY <2>1, <2>4 DEF Process
  <2>14. q \in Process
    BY <2>4, <2>12, <2>13 DEF Process
  <2> QED BY <2>9, <2>10, <2>14 DEF q
<1>2. CASE ~(p.ok /\ free # {})
  <2>1. q = [p EXCEPT !.ok = FALSE]
    BY <1>2 DEF reserve
  <2> QED BY <2>1 DEF Process, Counted, Failed, SameRest
<1> QED BY <1>1, <1>2
-----------------------------------------------------------------------------
(* What a command keeps, from s - where it began - to p.                     *)

(* The blocks in use, the root's at least, come before the free ones.        *)
Packed(p) == ROOT_BLOCK \in p.bitmap.b /\ \A x \in p.bitmap.b, y \in Block : y < x => y \in p.bitmap.b

(* A name leads to one of the inodes L; only a directory's to the root.      *)
Leads(e, L) == e.name \in Name => e.inode \in L /\ (e.type # "dir" => e.inode # ROOT)

NamesLead(p, L) == \A b \in Block : \A k \in 1 .. Len(p.entries[b]) : Leads(p.entries[b][k], L)

(* The first block an indirect block lists is the one before it.             *)
ListsFollow(p) == \A b \in Block : p.words[b] # <<>> => p.words[b][1] = b - 1 /\ b - 1 # ROOT_BLOCK

(* What a failed command left of a directory is in the first free block.     *)
LeftFirst(p, B) == \A b \in Block : b - 1 \in Block \ B => p.entries[b] = <<>>

(* A block holds entries or numbers of blocks.                               *)
OneUse(p) == \A b \in Block : p.entries[b] # <<>> => p.words[b] = <<>>

(* Blocks and inodes in use are as they were, and the rest is sound.         *)
Working(s, p) ==
    /\ p \in Process /\ Counted(p) /\ Packed(p)
    /\ s.bitmap.b \subseteq p.bitmap.b /\ s.bitmap.i \subseteq p.bitmap.i
    /\ \A b \in s.bitmap.b : p.entries[b] = s.entries[b] /\ p.words[b] = s.words[b]
    /\ \A i \in s.bitmap.i : p.inode[i] = s.inode[i]
    /\ NamesLead(p, s.bitmap.i) /\ ListsFollow(p) /\ LeftFirst(p, s.bitmap.b) /\ OneUse(p)
    /\ p.gd.b <= s.gd.b /\ p.gd.i <= s.gd.i

(* The entries s fill a block.                                               *)
Fills(s) == Behind(s) = BLOCK_SIZE /\ \A k \in 1 .. Len(s) : s[k].rec >= Need(s[k].name)

(* No command has run out of space before: free blocks hold zeros.           *)
Neat(p) ==
    /\ \A b \in Block \ p.bitmap.b : p.entries[b] = <<>> /\ p.words[b] = <<>>
    /\ \A b \in Block : p.entries[b] # <<>> => Fills(p.entries[b])
    /\ p.ok => p.sb = p.gd

LEMMA TakeBlockWorks ==
    ASSUME NEW s \in Process, NEW p, Working(s, p)
    PROVE  LET q == reserve(p, "b")
           IN  /\ Working(s, q) /\ (Failed(p, q) \/ BlockTaken(p, q))
               /\ Neat(p) => Neat(q)
<1> DEFINE q == reserve(p, "b")
<1>1. q \in Process /\ Counted(q) /\ (Failed(p, q) \/ BlockTaken(p, q))
  BY ReserveBlock DEF Working
<1> HIDE DEF q
<1>2. CASE Failed(p, q)
  <2>1. Working(s, q)
    BY <1>1, <1>2 DEF Working, Failed, SameRest, Packed, NamesLead, ListsFollow, LeftFirst, OneUse
  <2>2. Neat(p) => Neat(q)
    BY <1>2 DEF Neat, Failed, SameRest
  <2> QED BY <1>1, <2>1, <2>2 DEF q
<1>3. CASE BlockTaken(p, q)
  <2>1. q.bitmap.b = p.bitmap.b \cup {q.got} /\ q.bitmap.i = p.bitmap.i
    BY <1>3 DEF BlockTaken
  <2>2. Packed(q)
    <3>1. ASSUME NEW x \in q.bitmap.b, NEW y \in Block, y < x PROVE y \in q.bitmap.b
      <4>1. CASE x \in p.bitmap.b
        BY <2>1, <3>1, <4>1 DEF Working, Packed
      <4>2. CASE x = q.got
        <5>1. y \in Block \ p.bitmap.b => q.got <= y
          BY <1>3 DEF BlockTaken
        <5>2. x \in Nat /\ y \in Nat
          BY <1>3, <4>2, Finite DEF BlockTaken
        <5> QED BY <2>1, <3>1, <4>2, <5>1, <5>2
      <4> QED BY <2>1, <4>1, <4>2
    <3>2. ROOT_BLOCK \in q.bitmap.b
      BY <2>1 DEF Working, Packed
    <3> QED BY <3>1, <3>2 DEF Packed
  <2>3. Working(s, q)
    <3>1. p \in Process /\ p.gd \in Left /\ s.gd \in Left /\ p.gd.b <= s.gd.b /\ p.gd.i <= s.gd.i
      BY DEF Working, Process
    <3>2. q.gd.b <= s.gd.b /\ q.gd.i <= s.gd.i
      BY <1>3, <3>1 DEF BlockTaken, Left
    <3>3. /\ s.bitmap.b \subseteq q.bitmap.b /\ s.bitmap.i \subseteq q.bitmap.i
          /\ \A b \in s.bitmap.b : q.entries[b] = s.entries[b] /\ q.words[b] = s.words[b]
          /\ \A i \in s.bitmap.i : q.inode[i] = s.inode[i]
      BY <1>3, <2>1 DEF Working, BlockTaken, SameRest
    <3>4. NamesLead(q, s.bitmap.i) /\ ListsFollow(q) /\ LeftFirst(q, s.bitmap.b) /\ OneUse(q)
      BY <1>3 DEF Working, BlockTaken, SameRest, NamesLead, ListsFollow, LeftFirst, OneUse
    <3> QED BY <1>1, <2>2, <3>2, <3>3, <3>4, Zenon DEF Working
  <2>4. ASSUME Neat(p) PROVE Neat(q)
    <3>1. q.sb = q.gd
      <4>1. p.sb = p.gd /\ p.sb \in Super /\ p.ok
        BY <1>3, <2>4 DEF Neat, BlockTaken, Process, Working
      <4>2. q.gd.b = p.gd.b - 1 /\ q.gd.b \in Nat
        BY <1>1, <1>3, SMTT(30) DEF BlockTaken, Process, Left
      <4>3. p.sb.b \in 0 .. SB_MOD - 1 /\ SB_MOD \in Nat
        BY <4>1, Ext2Assumption, Zenon DEF Super
      <4>4. (p.sb.b - 1) % SB_MOD = p.sb.b - 1
        BY <4>1, <4>2, <4>3, Small
      <4> QED BY <1>3, <4>1, <4>4 DEF BlockTaken
    <3> QED BY <1>3, <2>1, <2>4, <3>1 DEF Neat, BlockTaken, SameRest
  <2> QED BY <1>3, <2>3, <2>4 DEF q
<1> QED BY <1>1, <1>2, <1>3
LEMMA TakeInodeWorks ==
    ASSUME NEW s \in Process, NEW p, Working(s, p)
    PROVE  LET q == reserve(p, "i")
           IN  /\ Working(s, q) /\ (Failed(p, q) \/ InodeTaken(p, q))
               /\ Neat(p) => Neat(q)
<1> DEFINE q == reserve(p, "i")
<1>1. q \in Process /\ Counted(q) /\ (Failed(p, q) \/ InodeTaken(p, q))
  BY ReserveInode DEF Working
<1> HIDE DEF q
<1>2. CASE Failed(p, q)
  <2>1. Working(s, q)
    BY <1>1, <1>2 DEF Working, Failed, SameRest, Packed, NamesLead, ListsFollow, LeftFirst, OneUse
  <2>2. Neat(p) => Neat(q)
    BY <1>2 DEF Neat, Failed, SameRest
  <2> QED BY <1>1, <2>1, <2>2 DEF q
<1>3. CASE InodeTaken(p, q)
  <2>1. q.bitmap.b = p.bitmap.b /\ q.bitmap.i = p.bitmap.i \cup {q.got}
    BY <1>3 DEF InodeTaken
  <2>2. Working(s, q)
    <3>1. p \in Process /\ p.gd \in Left /\ s.gd \in Left /\ p.gd.b <= s.gd.b /\ p.gd.i <= s.gd.i
      BY DEF Working, Process
    <3>2. q.gd.b <= s.gd.b /\ q.gd.i <= s.gd.i
      BY <1>3, <3>1 DEF InodeTaken, Left
    <3>3. /\ s.bitmap.b \subseteq q.bitmap.b /\ s.bitmap.i \subseteq q.bitmap.i
          /\ \A b \in s.bitmap.b : q.entries[b] = s.entries[b] /\ q.words[b] = s.words[b]
          /\ \A i \in s.bitmap.i : q.inode[i] = s.inode[i]
      BY <1>3, <2>1 DEF Working, InodeTaken, SameRest
    <3>4. NamesLead(q, s.bitmap.i) /\ ListsFollow(q) /\ LeftFirst(q, s.bitmap.b) /\ OneUse(q) /\ Packed(q)
      BY <1>3 DEF Working, InodeTaken, SameRest, NamesLead, ListsFollow, LeftFirst, OneUse, Packed
    <3> QED BY <1>1, <3>2, <3>3, <3>4, Zenon DEF Working
  <2>3. ASSUME Neat(p) PROVE Neat(q)
    <3>1. q.sb = q.gd
      <4>1. p.sb = p.gd /\ p.sb \in Super /\ p.ok
        BY <1>3, <2>3 DEF Neat, InodeTaken, Process, Working
      <4>2. q.gd.i = p.gd.i - 1 /\ q.gd.i \in Nat
        BY <1>1, <1>3 DEF InodeTaken, Process, Left
      <4>3. p.sb.i \in 0 .. SB_MOD - 1 /\ SB_MOD \in Nat
        BY <4>1, Ext2Assumption, Zenon DEF Super
      <4>4. (p.sb.i - 1) % SB_MOD = p.sb.i - 1
        BY <4>1, <4>2, <4>3, Small
      <4> QED BY <1>3, <4>1, <4>4 DEF InodeTaken
    <3> QED BY <1>3, <2>1, <2>3, <3>1 DEF Neat, InodeTaken, SameRest
  <2> QED BY <1>3, <2>2, <2>3 DEF q
<1> QED BY <1>1, <1>2, <1>3

(* Bits and counts, and all but entries and words, are as before.             *)
SameBits(p, q) == q.bitmap = p.bitmap /\ q.gd = p.gd /\ q.sb = p.sb /\ q.dirs = p.dirs
SameTables(p, q) == q.entries = p.entries /\ q.words = p.words

LEMMA ZeroIs ==
    ASSUME NEW p \in Process, NEW b \in Block
    PROVE  LET z == zero_block(p, b)
           IN  /\ z \in Process /\ SameBits(p, z) /\ z.inode = p.inode
               /\ z.dir = p.dir /\ z.got = p.got /\ z.at = p.at /\ z.ok = p.ok
               /\ z.entries = [p.entries EXCEPT ![b] = <<>>]
               /\ z.words = [p.words EXCEPT ![b] = <<>>]
<1> DEFINE z == zero_block(p, b)
<1>1. z = [p EXCEPT !.entries = [p.entries EXCEPT ![b] = <<>>], !.words = [p.words EXCEPT ![b] = <<>>]]
  BY DEF zero_block, Process
<1>2. [p.entries EXCEPT ![b] = <<>>] \in [Block -> Seq(Entry)] /\ [p.words EXCEPT ![b] = <<>>] \in [Block -> Seq(Block)]
  <2>1. <<>> \in Seq(Entry) /\ <<>> \in Seq(Block)
    OBVIOUS
  <2> QED BY <2>1 DEF Process
<1> HIDE DEF z
<1> QED BY <1>1, <1>2 DEF Process, SameBits, z

(* Blocks of zeros keep what holds of the tables.                            *)
LEMMA ZeroKeeps ==
    ASSUME NEW s \in Process, NEW p, Working(s, p), NEW b \in Block \ s.bitmap.b
    PROVE  LET z == zero_block(p, b)
           IN  Working(s, z) /\ (Neat(p) => Neat(z))
<1> DEFINE z == zero_block(p, b)
<1>1. /\ z \in Process /\ SameBits(p, z) /\ z.inode = p.inode /\ z.ok = p.ok
      /\ z.entries = [p.entries EXCEPT ![b] = <<>>]
      /\ z.words = [p.words EXCEPT ![b] = <<>>]
  BY ZeroIs DEF Working
<1> HIDE DEF z
<1>2. p.entries \in [Block -> Seq(Entry)] /\ p.words \in [Block -> Seq(Block)]
  BY DEF Working, Process
<1>3. \A x \in Block : /\ z.entries[x] = IF x = b THEN <<>> ELSE p.entries[x]
                       /\ z.words[x] = IF x = b THEN <<>> ELSE p.words[x]
  BY <1>1, <1>2
<1>4. NamesLead(z, s.bitmap.i)
  BY <1>3 DEF Working, NamesLead
<1>5. ListsFollow(z) /\ LeftFirst(z, s.bitmap.b) /\ OneUse(z)
  BY <1>3 DEF Working, ListsFollow, LeftFirst, OneUse
<1>6. s.bitmap.b \subseteq Block
  BY DEF Process, Bits
<1>7. Working(s, z)
  BY <1>1, <1>3, <1>4, <1>5, <1>6 DEF Working, SameBits, Counted, Packed
<1>8. Neat(p) => Neat(z)
  BY <1>1, <1>3 DEF Neat, SameBits
<1> QED BY <1>7, <1>8 DEF z
-----------------------------------------------------------------------------
(* Copying a file's data.                                                    *)

(* The places of i_block that hold blocks of their own; those behind repeat  *)
(* the indirect block.                                                       *)
Kept(node) == 1 .. (IF Len(node.block) > NDIRECT THEN NDIRECT + 1 ELSE Len(node.block))

Ind(node) == node.block[NDIRECT + 1]

OneEach(node, S) ==
    /\ \A j \in 1 .. Len(node.block) : node.block[j] \in S
    /\ \A j, k \in Kept(node) : node.block[j] = node.block[k] => j = k
    /\ \A j \in NDIRECT + 1 .. Len(node.block) : node.block[j] = Ind(node)

(* The indirect block holds no entries, and a list of numbers.               *)
IndSound(p, node) ==
    Len(node.block) > NDIRECT => p.entries[Ind(node)] = <<>> /\ p.words[Ind(node)] # <<>>

(* What it lists are other blocks, each of them once.                        *)
ListedOnce(p, node, S) ==
    Len(node.block) > NDIRECT =>
        LET w == p.words[Ind(node)]
        IN  /\ \A k \in 1 .. Len(w) : w[k] \in S /\ \A j \in Kept(node) : w[k] # node.block[j]
            /\ \A k, m \in 1 .. Len(w) : w[k] = w[m] => k = m

(* The file of p takes blocks that were free in s.                           *)
Building(s, p, tidy) ==
    /\ Working(s, p)
    /\ p.ok =>
        /\ p.bitmap.i = s.bitmap.i
        /\ OneEach(p.dir, p.bitmap.b \ s.bitmap.b) /\ IndSound(p, p.dir)
        /\ tidy => Neat(p) /\ ListedOnce(p, p.dir, p.bitmap.b \ s.bitmap.b)

(* The node's blocks with b put behind them.                                 *)
Longer(node, new, b) ==
    /\ new \in Node /\ Len(new.block) = Len(node.block) + 1
    /\ \A j \in 1 .. Len(node.block) : new.block[j] = node.block[j]
    /\ new.block[Len(node.block) + 1] = b
    /\ new.type = node.type /\ new.links = node.links

LEMMA LongerIs ==
    ASSUME NEW node \in Node, NEW b \in Block
    PROVE  Longer(node, [node EXCEPT !.block = Append(@, b)], b)
<1> DEFINE bs == node.block
<1>1. bs \in Seq(Block)
  BY DEF Node
<1>2. /\ Append(bs, b) \in Seq(Block) /\ Len(Append(bs, b)) = Len(bs) + 1
      /\ \A j \in 1 .. Len(bs) : Append(bs, b)[j] = bs[j]
      /\ Append(bs, b)[Len(bs) + 1] = b
  <2> HIDE DEF bs
  <2> QED BY <1>1, AppendProperties
<1>3. [node EXCEPT !.block = Append(@, b)] = [node EXCEPT !.block = Append(bs, b)]
  BY DEF Node
<1> QED BY <1>2, <1>3 DEF Longer, Node

(* A direct block more.                                                      *)
LEMMA OneEachLonger ==
    ASSUME NEW node \in Node, NEW new, NEW b, Longer(node, new, b), NEW S, NEW T,
           OneEach(node, S), S \subseteq T, b \in T \ S, Len(node.block) < NDIRECT
    PROVE  OneEach(new, T) /\ ~(Len(new.block) > NDIRECT)
<1> DEFINE n == Len(node.block)
<1>1. n \in Nat /\ NDIRECT \in Nat /\ n < NDIRECT /\ Len(new.block) = n + 1
  <2>1. NDIRECT \in Nat
    BY Ext2Assumption, Zenon
  <2>2. n \in Nat
    BY DEF Node
  <2> QED BY <2>1, <2>2 DEF Longer
<1> HIDE DEF n
<1>2. Kept(node) = 1 .. n /\ Kept(new) = 1 .. n + 1
  BY <1>1 DEF Kept, n
<1>3. \A j \in 1 .. n + 1 : new.block[j] = IF j = n + 1 THEN b ELSE node.block[j]
  BY <1>1 DEF Longer, n
<1>4. \A j \in 1 .. n : node.block[j] \in S
  BY DEF OneEach, n
<1>5. \A j \in 1 .. n + 1 : new.block[j] \in T
  BY <1>1, <1>3, <1>4
<1>6. \A j, k \in 1 .. n + 1 : new.block[j] = new.block[k] => j = k
  BY <1>1, <1>2, <1>3, <1>4, SMTT(30) DEF OneEach
<1> QED BY <1>1, <1>2, <1>5, <1>6 DEF OneEach
LEMMA WriteDirect ==
    ASSUME NEW s \in Process, NEW p, NEW tidy \in BOOLEAN, Building(s, p, tidy), p.ok, NEW q,
           Working(s, q), BlockTaken(p, q), Neat(p) => Neat(q), Len(p.dir.block) < NDIRECT
    PROVE  Building(s, zero_block([q EXCEPT !.dir.block = Append(@, q.got)], q.got), tidy)
<1> DEFINE g == q.got
           d == [p.dir EXCEPT !.block = Append(@, g)]
           m == [q EXCEPT !.dir = d]
           r == zero_block(m, g)
<1>1. p \in Process /\ q \in Process /\ p.dir \in Node /\ q.dir = p.dir /\ g \in Block \ p.bitmap.b
      /\ q.bitmap.b = p.bitmap.b \cup {g} /\ s.bitmap.b \subseteq p.bitmap.b /\ q.ok
  BY SMTT(30) DEF Building, Working, BlockTaken, SameRest, Process
<1>2. Longer(p.dir, d, g)
  BY <1>1, LongerIs
<1>3. [q EXCEPT !.dir.block = Append(@, q.got)] = m
  BY <1>1 DEF Process
<1> HIDE DEF d
<1>4. m \in Process /\ m.dir = d /\ m.ok = q.ok /\ SameBits(q, m) /\ SameTables(q, m) /\ m.inode = q.inode
  BY <1>1, <1>2 DEF Process, SameBits, SameTables, Longer
<1> HIDE DEF m, g
<1>5. Working(s, m) /\ (Neat(q) => Neat(m))
  BY <1>4 DEF Working, Neat, SameBits, SameTables, Counted, Packed, NamesLead, ListsFollow, LeftFirst, OneUse
<1>6. Working(s, r) /\ (Neat(m) => Neat(r))
  BY <1>1, <1>5, ZeroKeeps
<1>7. r.dir = d /\ r.bitmap = q.bitmap
  BY <1>1, <1>4, ZeroIs DEF SameBits
<1> HIDE DEF r
<1>8. OneEach(p.dir, p.bitmap.b \ s.bitmap.b)
  BY DEF Building
<1>9. OneEach(d, r.bitmap.b \ s.bitmap.b) /\ ~(Len(d.block) > NDIRECT)
  <2> DEFINE S == p.bitmap.b \ s.bitmap.b
             T == r.bitmap.b \ s.bitmap.b
  <2>1. S \subseteq T /\ g \in T \ S
    BY <1>1, <1>7
  <2> HIDE DEF S, T
  <2>2. OneEach(p.dir, S)
    BY <1>8 DEF S
  <2>3. OneEach(d, T) /\ ~(Len(d.block) > NDIRECT)
    BY <1>1, <1>2, <2>1, <2>2, OneEachLonger
  <2> QED BY <2>3 DEF T
<1>10. tidy => Neat(r)
  BY <1>5, <1>6 DEF Building
<1>11. r.bitmap.i = s.bitmap.i
  BY <1>7 DEF BlockTaken, Building
<1>12. Building(s, r, tidy)
  BY <1>6, <1>7, <1>9, <1>10, <1>11 DEF Building, IndSound, ListedOnce
<1> QED BY <1>3, <1>12 DEF r, g

(* The number is put behind those that the indirect block lists already.     *)
LEMMA AppendIs ==
    ASSUME NEW S, NEW w \in Seq(S), NEW g \in S
    PROVE  /\ Append(w, g) \in Seq(S) /\ Len(Append(w, g)) = Len(w) + 1 /\ Append(w, g) # <<>>
           /\ \A k \in 1 .. Len(w) + 1 : Append(w, g)[k] = IF k = Len(w) + 1 THEN g ELSE w[k]
           /\ Append(w, g)[1] = IF w = <<>> THEN g ELSE w[1]
<1> DEFINE n == Len(w)
           v == Append(w, g)
<1>1. v \in Seq(S) /\ Len(v) = n + 1 /\ (\A k \in 1 .. n : v[k] = w[k]) /\ v[n + 1] = g
  BY AppendProperties
<1>2. n \in Nat /\ (n = 0 <=> w = <<>>)
  BY EmptySeq, LenProperties
<1>3. Len(<<>>) = 0
  OBVIOUS
<1> HIDE DEF n, v
<1>4. v # <<>>
  BY <1>1, <1>2, <1>3
<1>5. v[1] = IF w = <<>> THEN g ELSE w[1]
  BY <1>1, <1>2
<1> QED BY <1>1, <1>2, <1>4, <1>5 DEF n, v
(* The block g of data is noted in the indirect block.                       *)
Noted(m, ind, g) ==
    zero_block([[m EXCEPT !.got = ind, !.words[ind] = Append(@, g)] EXCEPT !.dir.block = Append(@, ind)], g)

LEMMA WriteListed ==
    ASSUME NEW s \in Process, NEW p, NEW tidy \in BOOLEAN, Building(s, p, tidy), p.ok,
           NEW m, Working(s, m), Neat(p) => Neat(m), m.ok, SameTables(p, m), m.dir = p.dir,
           NEW g \in Block \ p.bitmap.b, NEW ind \in Block, ind # g,
           p.bitmap.b \subseteq m.bitmap.b, g \in m.bitmap.b, ind \in m.bitmap.b, m.bitmap.i = p.bitmap.i,
           \/ Len(p.dir.block) = NDIRECT /\ ind \notin p.bitmap.b /\ ind - 1 = g
           \/ Len(p.dir.block) > NDIRECT /\ ind = Ind(p.dir)
    PROVE  Building(s, Noted(m, ind, g), tidy)
<1> DEFINE w == Append(p.words[ind], g)
           d == [p.dir EXCEPT !.block = Append(@, ind)]
           a == [m EXCEPT !.got = ind, !.words[ind] = Append(@, g)]
           c == [a EXCEPT !.dir.block = Append(@, ind)]
           r == zero_block(c, g)
           n == Len(p.dir.block)
           S == p.bitmap.b \ s.bitmap.b
           T == m.bitmap.b \ s.bitmap.b
<1>1. /\ p \in Process /\ m \in Process /\ p.dir \in Node /\ n \in Nat /\ NDIRECT \in Nat \ {0}
      /\ m.words = p.words /\ m.entries = p.entries /\ s.bitmap.b \subseteq p.bitmap.b
  <2>1. NDIRECT \in Nat \ {0}
    BY Ext2Assumption, Zenon
  <2>2. p \in Process /\ m \in Process /\ s.bitmap.b \subseteq p.bitmap.b
    BY DEF Building, Working
  <2>3. p.dir \in Node
    BY <2>2 DEF Process
  <2>4. n \in Nat
    BY <2>3 DEF Node
  <2> QED BY <2>1, <2>2, <2>3, <2>4 DEF SameTables
<1>2. Longer(p.dir, d, ind)
  BY <1>1, LongerIs
<1>3. /\ w \in Seq(Block) /\ Len(w) = Len(p.words[ind]) + 1 /\ w # <<>>
      /\ \A k \in 1 .. Len(w) : w[k] = IF k = Len(w) THEN g ELSE p.words[ind][k]
      /\ w[1] = IF p.words[ind] = <<>> THEN g ELSE p.words[ind][1]
  <2>1. p.words[ind] \in Seq(Block)
    BY <1>1 DEF Process
  <2> QED BY <2>1, AppendIs
<1>4. OneEach(p.dir, S) /\ IndSound(p, p.dir)
  BY DEF Building
<1>5. ind \in T \ {g} /\ g \in T /\ g \notin S /\ S \subseteq T /\ p.entries[ind] = <<>>
  <2>1. CASE n = NDIRECT
    <3>1. ind - 1 \in Block \ s.bitmap.b
      BY <1>1, <2>1
    <3> QED BY <1>1, <2>1, <3>1 DEF Building, Working, LeftFirst
  <2>2. CASE n > NDIRECT
    <3>1. NDIRECT + 1 \in 1 .. n
      BY <1>1, <2>2
    <3>2. ind \in S
      BY <1>4, <2>2, <3>1 DEF OneEach, Ind
    <3> QED BY <1>1, <1>4, <2>2, <3>2 DEF IndSound
  <2> QED BY <2>1, <2>2
<1>6. p.words[ind] # <<>> => p.words[ind][1] = ind - 1 /\ ind - 1 # ROOT_BLOCK
  BY DEF Building, Working, ListsFollow
<1>7. w[1] = ind - 1 /\ ind - 1 # ROOT_BLOCK
  <2>1. CASE n = NDIRECT
    <3>1. ind - 1 = g /\ ROOT_BLOCK \in p.bitmap.b
      BY <1>1, <2>1 DEF Building, Working, Packed
    <3>2. w[1] = ind - 1
      BY <1>3, <1>6, <2>1, <3>1
    <3> QED BY <3>1, <3>2
  <2>2. CASE n > NDIRECT
    BY <1>3, <1>4, <1>6, <2>2 DEF IndSound
  <2> QED BY <2>1, <2>2
<1> HIDE DEF w
<1>8. a \in Process /\ SameBits(m, a) /\ a.inode = m.inode /\ a.entries = m.entries /\ a.dir = p.dir /\ a.ok
      /\ a.words = [p.words EXCEPT ![ind] = w]
  <2>1. a = [m EXCEPT !.got = ind, !.words = [p.words EXCEPT ![ind] = w]]
    BY <1>1 DEF Process, w
  <2>2. [p.words EXCEPT ![ind] = w] \in [Block -> Seq(Block)] /\ ind \in Int
    BY <1>1, <1>3, Finite DEF Process
  <2> HIDE DEF a
  <2> QED BY <1>1, <2>1, <2>2 DEF Process, SameBits
<1> HIDE DEF a, d
<1>9. c \in Process /\ SameBits(m, c) /\ c.inode = m.inode /\ c.entries = p.entries /\ c.dir = d /\ c.ok
      /\ c.words = [p.words EXCEPT ![ind] = w]
  <2>1. c = [a EXCEPT !.dir = d]
    BY <1>8 DEF Process, d
  <2> HIDE DEF c
  <2> QED BY <1>1, <1>2, <1>8, <2>1 DEF Process, SameBits, Longer
<1> HIDE DEF c
<1>10. \A b \in Block : c.words[b] = IF b = ind THEN w ELSE p.words[b]
  <2>1. p.words \in [Block -> Seq(Block)]
    BY <1>1 DEF Process
  <2> QED BY <1>9, <2>1
<1>11. Working(s, c)
  <2>1. ListsFollow(c) /\ OneUse(c)
    BY <1>1, <1>5, <1>7, <1>9, <1>10 DEF Building, Working, ListsFollow, OneUse
  <2>2. NamesLead(c, s.bitmap.i) /\ LeftFirst(c, s.bitmap.b)
    BY <1>1, <1>9 DEF Working, NamesLead, LeftFirst
  <2>3. s.bitmap.b \subseteq Block
    BY DEF Process, Bits
  <2>4. Counted(c) /\ Packed(c)
    BY <1>9 DEF Working, Counted, Packed, SameBits
  <2> QED BY <1>1, <1>5, <1>9, <1>10, <2>1, <2>2, <2>3, <2>4 DEF Working, SameBits
<1>12. Neat(m) => Neat(c)
  <2>1. \A b \in Block : c.entries[b] = m.entries[b] /\ (b # ind => c.words[b] = m.words[b])
    BY <1>1, <1>9, <1>10
  <2>2. c.entries[ind] = <<>> /\ ind \in c.bitmap.b /\ c.bitmap = m.bitmap /\ c.sb = m.sb /\ c.gd = m.gd
    BY <1>1, <1>5, <1>9 DEF SameBits
  <2> QED BY <2>1, <2>2 DEF Neat
<1>13. Working(s, r) /\ (Neat(c) => Neat(r))
  BY <1>5, <1>11, ZeroKeeps
<1>14. /\ r.dir = d /\ r.bitmap = m.bitmap
       /\ r.entries = [p.entries EXCEPT ![g] = <<>>] /\ r.words = [c.words EXCEPT ![g] = <<>>]
  <2>1. r.dir = c.dir /\ SameBits(c, r) /\ r.entries = [c.entries EXCEPT ![g] = <<>>]
        /\ r.words = [c.words EXCEPT ![g] = <<>>]
    BY <1>9, ZeroIs, ZenonT(30)
  <2> HIDE DEF r
  <2> QED BY <1>9, <2>1 DEF SameBits
<1> HIDE DEF r
<1>15. r.words[ind] = w /\ r.entries[ind] = <<>>
  BY <1>1, <1>5, <1>9, <1>10, <1>14 DEF Process
<1> HIDE DEF S, T
<1>16. Len(d.block) = n + 1 /\ \A j \in 1 .. n + 1 : d.block[j] = IF j = n + 1 THEN ind ELSE p.dir.block[j]
  BY <1>1, <1>2 DEF Longer
<1> HIDE DEF n
<1>17. Len(d.block) > NDIRECT /\ Ind(d) = ind /\ Kept(d) = 1 .. NDIRECT + 1 /\ n >= NDIRECT
  <2>1. Ind(d) = ind
    BY <1>1, <1>16, SMTT(30) DEF Ind, n
  <2> QED BY <1>1, <1>16, <2>1 DEF Kept, n
<1>18. \A j \in 1 .. NDIRECT + 1 : d.block[j] = IF j = NDIRECT + 1 THEN ind ELSE p.dir.block[j]
  BY <1>1, <1>16, <1>17, SMTT(30) DEF n, Ind
<1>19. Kept(p.dir) = IF n = NDIRECT THEN 1 .. NDIRECT ELSE 1 .. NDIRECT + 1
  BY <1>1, <1>17 DEF Kept, n
<1>20. \A j \in 1 .. n : p.dir.block[j] \in S
  BY <1>4 DEF OneEach, n
<1>21. OneEach(d, T)
  <2>1. \A j \in 1 .. n + 1 : d.block[j] \in T
    BY <1>1, <1>5, <1>16, <1>20
  <2>2. ASSUME NEW j \in 1 .. NDIRECT + 1, NEW k \in 1 .. NDIRECT + 1, d.block[j] = d.block[k]
        PROVE  j = k
    <3>1. CASE n = NDIRECT
      <4>1. ind \notin S
        BY <1>1, <3>1 DEF S, n
      <4>2. \A x \in 1 .. NDIRECT : x \in Kept(p.dir) /\ d.block[x] \in S /\ d.block[x] = p.dir.block[x]
        BY <1>1, <1>18, <1>19, <1>20, <3>1
      <4>3. d.block[NDIRECT + 1] = ind
        BY <1>1, <1>18
      <4> QED BY <1>1, <1>4, <2>2, <4>1, <4>2, <4>3 DEF OneEach
    <3>2. CASE n > NDIRECT
      <4>1. \A x \in 1 .. NDIRECT + 1 : x \in Kept(p.dir) /\ d.block[x] = p.dir.block[x]
        BY <1>1, <1>18, <1>19, <3>2 DEF n, Ind
      <4> QED BY <1>4, <2>2, <4>1 DEF OneEach
    <3> QED BY <1>1, <1>17, <3>1, <3>2
  <2>3. \A j \in NDIRECT + 1 .. n + 1 : d.block[j] = ind
    <3>1. \A j \in NDIRECT + 1 .. n : p.dir.block[j] = ind
      BY <1>1, <1>4 DEF OneEach, n
    <3> QED BY <1>1, <1>16, <1>17, <3>1
  <2> QED BY <1>16, <1>17, <2>1, <2>2, <2>3 DEF OneEach
<1>22. ASSUME tidy PROVE Neat(r) /\ ListedOnce(r, d, T)
  <2>1. Neat(p) /\ ListedOnce(p, p.dir, S)
    BY <1>22 DEF Building, S
  <2>2. Neat(r)
    BY <1>12, <1>13, <2>1
  <2>3. \A k \in 1 .. Len(w) - 1 : p.words[ind][k] \in S /\ p.words[ind][k] # g /\ p.words[ind][k] # ind
                                   /\ \A j \in 1 .. NDIRECT : p.words[ind][k] # p.dir.block[j]
    <3>1. CASE n = NDIRECT
      <4>1. p.words[ind] = <<>>
        BY <1>1, <2>1, <3>1 DEF Neat, n
      <4>2. Len(p.words[ind]) = 0
        BY <4>1
      <4> QED BY <1>3, <4>2
    <3>2. CASE n > NDIRECT
      <4>1. Len(w) - 1 = Len(p.words[ind]) /\ ind = Ind(p.dir) /\ NDIRECT + 1 \in Kept(p.dir) /\ 1 .. NDIRECT \subseteq Kept(p.dir)
        <5>1. Len(p.words[ind]) \in Nat
          BY <1>1 DEF Process
        <5>2. NDIRECT + 1 \in 1 .. NDIRECT + 1 /\ 1 .. NDIRECT \subseteq 1 .. NDIRECT + 1
          BY <1>1
        <5> QED BY <1>1, <1>3, <1>19, <3>2, <5>1, <5>2 DEF n
      <4>2. ListedOnce(p, p.dir, S) /\ Len(p.dir.block) > NDIRECT /\ p.dir.block[NDIRECT + 1] = ind
        BY <2>1, <3>2, <4>1 DEF n, Ind
      <4>3. \A k \in 1 .. Len(w) - 1 : p.words[ind][k] \in S /\ \A j \in Kept(p.dir) : p.words[ind][k] # p.dir.block[j]
        BY <4>1, <4>2, SMTT(30) DEF ListedOnce
      <4> QED BY <1>5, <4>1, <4>2, <4>3
    <3> QED BY <1>1, <1>17, <3>1, <3>2
  <2>4. \A k, x \in 1 .. Len(w) - 1 : p.words[ind][k] = p.words[ind][x] => k = x
    <3>1. CASE n = NDIRECT
      <4>1. p.words[ind] = <<>>
        BY <1>1, <2>1, <3>1 DEF Neat, n
      <4>2. Len(p.words[ind]) = 0
        BY <4>1
      <4> QED BY <1>3, <4>2
    <3>2. CASE n > NDIRECT
      <4>1. Len(w) - 1 = Len(p.words[ind]) /\ ind = Ind(p.dir)
        <5>1. Len(p.words[ind]) \in Nat
          BY <1>1 DEF Process
        <5> QED BY <1>1, <1>3, <3>2, <5>1 DEF n
      <4> QED BY <2>1, <3>2, <4>1 DEF ListedOnce, n
    <3> QED BY <1>1, <1>17, <3>1, <3>2
  <2>5. Len(w) \in Nat
    BY <1>3
  <2>6. \A k \in 1 .. Len(w) : w[k] \in T /\ \A j \in 1 .. NDIRECT + 1 : w[k] # d.block[j]
    <3>1. ASSUME NEW k \in 1 .. Len(w), k < Len(w), NEW j \in 1 .. NDIRECT + 1
          PROVE  w[k] \in T /\ w[k] # d.block[j]
      <4>1. k \in 1 .. Len(w) - 1
        BY <2>5, <3>1
      <4>2. w[k] = p.words[ind][k]
        BY <1>3, <3>1
      <4>3. w[k] \in S /\ w[k] # ind /\ \A x \in 1 .. NDIRECT : w[k] # p.dir.block[x]
        BY <2>3, <4>1, <4>2
      <4>4. w[k] \in T
        BY <1>5, <4>3
      <4>5. CASE j = NDIRECT + 1
        BY <1>18, <4>3, <4>4, <4>5
      <4>6. CASE j # NDIRECT + 1
        <5>1. j \in 1 .. NDIRECT
          BY <1>1, <3>1, <4>6
        <5>2. d.block[j] = p.dir.block[j]
          BY <1>18, <4>6
        <5> QED BY <4>3, <4>4, <5>1, <5>2
      <4> QED BY <4>5, <4>6
    <3>2. ASSUME NEW j \in 1 .. NDIRECT + 1 PROVE g # d.block[j]
      BY <1>1, <1>5, <1>17, <1>18, <1>20
    <3>3. 1 \in 1 .. NDIRECT + 1
      BY <1>1
    <3> QED BY <1>3, <1>5, <2>5, <3>1, <3>2, <3>3
  <2>7. \A k, x \in 1 .. Len(w) : w[k] = w[x] => k = x
    <3>1. \A k \in 1 .. Len(w) : k < Len(w) => k \in 1 .. Len(w) - 1
      BY <2>5
    <3>2. \A k \in 1 .. Len(w) : k # Len(w) => k < Len(w)
      BY <2>5
    <3>3. ASSUME NEW k \in 1 .. Len(w), k < Len(w) PROVE w[k] # g
      BY <1>3, <2>3, <3>1, <3>3
    <3>4. w[Len(w)] = g
      <4>1. 1 .. Len(w) # {} => Len(w) \in 1 .. Len(w)
        BY <2>5
      <4>2. Len(w) # 0
        BY <1>3, EmptySeq
      <4> QED BY <1>3, <2>5, <4>1, <4>2
    <3>5. ASSUME NEW k \in 1 .. Len(w), NEW x \in 1 .. Len(w), w[k] = w[x], k < Len(w), x < Len(w) PROVE k = x
      <4>1. w[k] = p.words[ind][k] /\ w[x] = p.words[ind][x]
        BY <1>3, <3>5
      <4> QED BY <2>4, <3>1, <3>5, <4>1
    <3> QED BY <3>2, <3>3, <3>4, <3>5
  <2> QED BY <1>15, <1>17, <2>2, <2>6, <2>7 DEF ListedOnce
<1>23. Building(s, r, tidy)
  <2>1. r.bitmap.b \ s.bitmap.b = T /\ r.dir = d
    BY <1>14 DEF T
  <2>2. IndSound(r, d)
    BY <1>3, <1>15, <1>17 DEF IndSound
  <2>3. r.bitmap.i = s.bitmap.i
    BY <1>14 DEF Building
  <2> QED BY <1>13, <1>21, <1>22, <2>1, <2>2, <2>3 DEF Building
<1> QED BY <1>23 DEF r, c, a, Noted
LEMMA WriteFileBlock ==
    ASSUME NEW s \in Process, NEW p, NEW tidy \in BOOLEAN, Building(s, p, tidy)
    PROVE  Building(s, write_file_block(p), tidy)
<1> DEFINE q == reserve(p, "b")
           u == IF Len(p.dir.block) > NDIRECT THEN [q EXCEPT !.got = p.dir.block[NDIRECT + 1]] ELSE reserve(q, "b")
           n == Len(p.dir.block)
           g == q.got
<1>1. p \in Process /\ Working(s, p)
  BY DEF Building, Working
<1>2. Working(s, q) /\ (Failed(p, q) \/ BlockTaken(p, q)) /\ (Neat(p) => Neat(q)) /\ q \in Process
  BY <1>1, TakeBlockWorks DEF Working
<1> HIDE DEF q
<1>3. n \in Nat /\ NDIRECT \in Nat \ {0}
  <2>1. p.dir \in Node
    BY <1>1 DEF Process
  <2>2. NDIRECT \in Nat \ {0}
    BY Ext2Assumption, Zenon
  <2> QED BY <2>1, <2>2 DEF Node
<1>4. CASE Failed(p, q)
  <2>1. ~q.ok
    BY <1>4 DEF Failed
  <2>2. write_file_block(p) = q
    BY <2>1 DEF write_file_block, q
  <2> QED BY <1>2, <2>1, <2>2 DEF Building
<1>5. CASE BlockTaken(p, q) /\ n < NDIRECT
  <2>1. q.ok /\ p.ok
    BY <1>5 DEF BlockTaken
  <2>2. ~(n >= NDIRECT)
    BY <1>3, <1>5
  <2>3. write_file_block(p) = zero_block([q EXCEPT !.dir.block = Append(@, q.got)], q.got)
    BY <2>1, <2>2 DEF write_file_block, q
  <2> QED BY <1>2, <1>5, <2>1, <2>3, WriteDirect
<1>6. CASE BlockTaken(p, q) /\ n >= NDIRECT
  <2>1. q.ok /\ p.ok /\ g \in Block \ p.bitmap.b /\ q.bitmap.b = p.bitmap.b \cup {g} /\ q.dir = p.dir
        /\ SameTables(p, q)
    BY <1>6 DEF BlockTaken, SameRest, SameTables
  <2>2. allocate_to_ind_block(q, g) = IF u.ok THEN [u EXCEPT !.words[u.got] = Append(@, g)] ELSE u
    BY <2>1 DEF allocate_to_ind_block
  <2> DEFINE r == allocate_to_ind_block(q, g)
  <2>3. write_file_block(p) = IF r.ok THEN zero_block([r EXCEPT !.dir.block = Append(@, r.got)], g) ELSE r
    BY <1>6, <2>1 DEF write_file_block, q
  <2>4. CASE n > NDIRECT
    <3> DEFINE ind == Ind(p.dir)
    <3>1. u = [q EXCEPT !.got = ind]
      BY <2>4 DEF Ind
    <3>2. NDIRECT + 1 \in 1 .. n /\ OneEach(p.dir, p.bitmap.b \ s.bitmap.b)
      BY <1>3, <2>1, <2>4 DEF Building
    <3>3. ind \in p.bitmap.b
      BY <3>2 DEF OneEach, Ind
    <3>4. ind \in Block
      BY <1>1, <3>3 DEF Process, Bits
    <3> HIDE DEF u, ind
    <3>5. u.ok /\ u.got = ind
      BY <1>2, <2>1, <3>1, <3>4, Finite DEF Process
    <3>6. r = [[q EXCEPT !.got = ind] EXCEPT !.words[ind] = Append(@, g)]
      BY <2>2, <3>1, <3>5
    <3>7. r = [q EXCEPT !.got = ind, !.words[ind] = Append(@, g)]
      BY <3>6
    <3> HIDE DEF r
    <3>8. r.ok /\ r.got = ind
      BY <1>2, <2>1, <3>4, <3>7, Finite DEF Process
    <3>9. write_file_block(p) = Noted(q, ind, g)
      BY <2>3, <3>7, <3>8 DEF Noted
    <3>10. ind # g /\ p.bitmap.b \subseteq q.bitmap.b /\ g \in q.bitmap.b /\ ind \in q.bitmap.b
           /\ q.bitmap.i = p.bitmap.i
      BY <1>6, <2>1, <3>3 DEF BlockTaken
    <3>11. Building(s, Noted(q, ind, g), tidy)
      <4>1. n > NDIRECT /\ ind = Ind(p.dir)
        BY <2>4 DEF ind
      <4> QED BY <1>2, <2>1, <3>4, <3>10, <4>1, WriteListed
    <3> QED BY <3>9, <3>11
  <2>5. CASE n = NDIRECT
    <3>1. u = reserve(q, "b")
      BY <1>3, <2>5
    <3>2. Working(s, u) /\ (Failed(q, u) \/ BlockTaken(q, u)) /\ (Neat(q) => Neat(u)) /\ u \in Process
      BY <1>2, <3>1, TakeBlockWorks DEF Working
    <3> HIDE DEF u
    <3>3. CASE Failed(q, u)
      <4>1. ~u.ok
        BY <3>3 DEF Failed
      <4>2. write_file_block(p) = u
        BY <2>2, <2>3, <4>1
      <4> QED BY <3>2, <4>1, <4>2 DEF Building
    <3>4. CASE BlockTaken(q, u)
      <4> DEFINE ind == u.got
      <4>1. u.ok /\ ind \in Block \ q.bitmap.b /\ (\A y \in Block \ q.bitmap.b : ind <= y)
            /\ u.bitmap.b = q.bitmap.b \cup {ind} /\ u.dir = q.dir /\ SameTables(q, u)
        BY <3>4 DEF BlockTaken, SameRest, SameTables
      <4>2. \A y \in Block \ p.bitmap.b : g <= y
        BY <1>6 DEF BlockTaken
      <4>3. ind - 1 = g
        <5>1. ind \in Nat /\ g \in Nat /\ ind # g /\ g <= ind
          BY <2>1, <4>1, <4>2, Finite
        <5>2. g .. ind \subseteq Block
          <6>1. \A a, b \in Block \ {ROOT_BLOCK} : a .. b \subseteq Block
            BY Ext2Assumption, Zenon
          <6>2. ROOT_BLOCK \in p.bitmap.b /\ ROOT_BLOCK \in q.bitmap.b
            BY <1>1, <2>1 DEF Working, Packed
          <6> QED BY <2>1, <4>1, <6>1, <6>2
        <5>3. ind - 1 \in Block /\ g <= ind - 1
          BY <5>1, <5>2
        <5>4. ind - 1 \notin p.bitmap.b
          <6>1. g < ind - 1 => g \in p.bitmap.b \/ ind - 1 \notin p.bitmap.b
            BY <1>1, <2>1, <5>3 DEF Working, Packed
          <6>2. g = ind - 1 => ind - 1 \notin p.bitmap.b
            BY <2>1
          <6> QED BY <2>1, <5>1, <5>3, <6>1, <6>2
        <5>5. ind - 1 \in q.bitmap.b
          BY <4>1, <5>1, <5>3
        <5> QED BY <2>1, <5>4, <5>5
      <4> HIDE DEF ind
      <4>4. r = [u EXCEPT !.words[ind] = Append(@, g)]
        BY <2>2, <4>1 DEF ind
      <4>5. r = [u EXCEPT !.got = ind, !.words[ind] = Append(@, g)]
        <5>1. u = [u EXCEPT !.got = ind]
          BY <3>2 DEF ind, Process
        <5>2. [[u EXCEPT !.got = ind] EXCEPT !.words[ind] = Append(@, g)] = [u EXCEPT !.got = ind, !.words[ind] = Append(@, g)]
          OBVIOUS
        <5> QED BY <4>4, <5>1, <5>2
      <4> HIDE DEF r
      <4>6. r.ok /\ r.got = ind
        BY <3>2, <4>1, <4>5, Finite DEF Process
      <4>7. write_file_block(p) = Noted(u, ind, g)
        BY <2>3, <4>5, <4>6 DEF Noted
      <4>8. ind # g /\ p.bitmap.b \subseteq u.bitmap.b /\ g \in u.bitmap.b /\ ind \in u.bitmap.b
            /\ ind \notin p.bitmap.b /\ ind \in Block
        BY <2>1, <4>1, Zenon DEF ind
      <4>9. SameTables(p, u) /\ u.dir = p.dir /\ (Neat(p) => Neat(u)) /\ u.ok /\ u.bitmap.i = p.bitmap.i
        BY <1>2, <1>6, <2>1, <3>2, <3>4, <4>1 DEF SameTables, BlockTaken
      <4>10. Building(s, Noted(u, ind, g), tidy)
        BY <2>1, <2>5, <3>2, <4>3, <4>8, <4>9, WriteListed
      <4> QED BY <4>7, <4>10
    <3> QED BY <3>2, <3>3, <3>4
  <2> QED BY <1>3, <1>6, <2>4, <2>5
<1> QED BY <1>2, <1>3, <1>4, <1>5, <1>6
LEMMA WriteFile ==
    ASSUME NEW s \in Process, NEW p, NEW tidy \in BOOLEAN, Building(s, p, tidy), NEW size \in Nat
    PROVE  Building(s, write_file(p, size), tidy)
<1> DEFINE T == {q \in Process : Building(s, q, tidy)}
           F == [n \in 1 .. size |-> [q \in T |-> write_file_block(q)]]
           Recursion(h) == h = [k \in 0 .. size |-> IF k = 0 THEN p ELSE write_file_block(h[k - 1])]
<1>1. ASSUME NEW q \in T PROVE write_file_block(q) \in T
  <2>1. Building(s, write_file_block(q), tidy)
    BY WriteFileBlock
  <2> QED BY <2>1 DEF Building, Working
<1>2. F \in [1 .. size -> [T -> T]]
  BY <1>1
<1>3. \A n \in 1 .. size : \A q \in T : F[n][q] = write_file_block(q)
  OBVIOUS
<1>4. p \in T
  BY DEF Building, Working
<1> HIDE DEF F
<1>5. PICK f \in [0 .. size -> T] : Iterates(f, size, p, F)
  <2> HIDE DEF T
  <2> QED BY <1>2, <1>4, IterationExists
<1>6. ASSUME NEW n \in 1 .. size PROVE f[n] = write_file_block(f[n - 1])
  <2>1. f[n - 1] \in T
    BY <1>5
  <2> QED BY <1>3, <1>5, <2>1 DEF Iterates
<1>7. f[0] = p
  BY <1>5 DEF Iterates
<1>8. Recursion(f)
  <2>1. ASSUME NEW n \in 0 .. size
        PROVE  f[n] = IF n = 0 THEN p ELSE write_file_block(f[n - 1])
    <3>1. n = 0 \/ n \in 1 .. size
      OBVIOUS
    <3> QED BY <1>6, <1>7, <3>1
  <2> QED BY <1>5, <2>1
<1> DEFINE h == CHOOSE h : Recursion(h)
<1>9. Recursion(h)
  BY <1>8
<1>10. write_file(p, size) = h[size]
  BY DEF write_file
<1>11. \A n \in 0 .. size : h[n] = IF n = 0 THEN p ELSE write_file_block(h[n - 1])
  <2>1. h = [n \in 0 .. size |-> h[n]] /\ \A n \in 0 .. size : h[n] = IF n = 0 THEN p ELSE write_file_block(h[n - 1])
    BY <1>9
  <2> QED BY <2>1
<1> HIDE DEF h
<1>12. 0 .. size \subseteq {n \in 0 .. size : h[n] \in T}
  <2> DEFINE I == {n \in 0 .. size : h[n] \in T}
  <2>1. 0 \in I
    BY <1>4, <1>11
  <2>2. ASSUME NEW n \in 1 .. size, n - 1 \in I PROVE n \in I
    <3>1. n \in 0 .. size /\ n # 0 /\ h[n - 1] \in T
      BY <2>2
    <3> QED BY <1>1, <1>11, <3>1
  <2>3. 0 .. size \subseteq I
    <3> HIDE DEF I
    <3> QED BY <2>1, <2>2, Steps
  <2> QED BY <2>3
<1>13. h[size] \in T
  BY <1>12
<1> QED BY <1>10, <1>13
-----------------------------------------------------------------------------
(* Entries of a block.                                                       *)

LEMMA NeedIs ==
    /\ \A name \in Names : Need(name) \in Nat /\ Need(name) >= 12 /\ BLOCK_SIZE >= Need(name)
    /\ Need("") = 12 /\ Need(".") = 12 /\ Need("..") = 12
<1>1. /\ NameLen \in [Name -> Nat \ {0}] /\ {"", ".", ".."} \cap Name = {}
      /\ BLOCK_SIZE \in Nat /\ BLOCK_SIZE >= 24 /\ \A n \in Name : BLOCK_SIZE >= NameLen[n] + 12
  BY Ext2Assumption, Zenon
<1>2. Need("") = 12 /\ Need(".") = 12 /\ Need("..") = 12
  BY DEF Need
<1>3. ASSUME NEW name \in Name
      PROVE  Need(name) \in Nat /\ Need(name) >= 12 /\ BLOCK_SIZE >= Need(name)
  <2> DEFINE L == NameLen[name]
  <2>1. L \in Nat \ {0} /\ BLOCK_SIZE >= L + 12 /\ BLOCK_SIZE \in Nat
    BY <1>1, Zenon
  <2>2. name # "" /\ name # "." /\ name # ".."
    BY <1>1
  <2>3. Need(name) = 8 + L + (4 - (L % 4))
    BY <2>2 DEF Need
  <2> HIDE DEF L
  <2>4. L % 4 \in 0 .. 3 /\ L % 4 <= L
    BY <2>1
  <2> QED BY <2>1, <2>3, <2>4
<1>4. BLOCK_SIZE \in Nat /\ BLOCK_SIZE >= 24
  BY <1>1, Zenon
<1>5. \A name \in {"", ".", ".."} : Need(name) \in Nat /\ Need(name) >= 12 /\ BLOCK_SIZE >= Need(name)
  <2>1. \A name \in {"", ".", ".."} : Need(name) = 12
    BY <1>2, Zenon
  <2>2. 12 \in Nat /\ 12 >= 12 /\ BLOCK_SIZE >= 12
    BY <1>4
  <2> QED BY <2>1, <2>2, Zenon
<1> QED BY <1>2, <1>3, <1>5, Zenon DEF Names

LEMMA EntryIs ==
    ASSUME NEW s \in Seq(Entry)
    PROVE  Len(s) \in Nat /\ \A k \in 1 .. Len(s) : s[k] \in Entry /\ s[k].rec \in Int /\ s[k].name \in Names
<1>1. ASSUME NEW k \in 1 .. Len(s) PROVE s[k] \in Entry
  OBVIOUS
<1>2. \A e \in Entry : e.rec \in Int /\ e.name \in Names
  BY DEF Entry
<1> QED BY <1>1, <1>2, LenProperties

(* f gives the place behind each entry of s.                                 *)
Sums(f, s) ==
    /\ f \in [0 .. Len(s) -> Int] /\ f[0] = 0
    /\ \A k \in 1 .. Len(s) : f[k] = f[k - 1] + s[k].rec

LEMMA SumsExist ==
    ASSUME NEW s \in Seq(Entry)
    PROVE  \E f : Sums(f, s)
<1> DEFINE N == Len(s)
           F == [n \in 1 .. N |-> [x \in Int |-> x + s[n].rec]]
<1>1. N \in Nat
  OBVIOUS
<1>2. \A n \in 1 .. N : s[n].rec \in Int
  BY EntryIs
<1>3. F \in [1 .. N -> [Int -> Int]] /\ \A n \in 1 .. N : \A x \in Int : F[n][x] = x + s[n].rec
  BY <1>2
<1> HIDE DEF F, N
<1>4. PICK f \in [0 .. N -> Int] : Iterates(f, N, 0, F)
  <2>1. 0 \in Int
    OBVIOUS
  <2> QED BY <1>1, <1>3, <2>1, IterationExists
<1>5. \A n \in 1 .. N : f[n] = f[n - 1] + s[n].rec
  <2>1. \A n \in 1 .. N : f[n - 1] \in Int
    BY <1>1, <1>4
  <2> QED BY <1>3, <1>4, <2>1 DEF Iterates
<1>6. Sums(f, s)
  BY <1>4, <1>5 DEF Sums, N, Iterates
<1> QED BY <1>6

LEMMA BehindIs ==
    ASSUME NEW s \in Seq(Entry), NEW f, Sums(f, s)
    PROVE  Behind(s) = f[Len(s)]
<1> DEFINE N == Len(s)
           Recursion(h) == h = [k \in 0 .. N |-> IF k = 0 THEN 0 ELSE h[k - 1] + s[k].rec]
<1>1. N \in Nat
  OBVIOUS
<1>2. Recursion(f)
  <2>1. ASSUME NEW k \in 0 .. N PROVE f[k] = IF k = 0 THEN 0 ELSE f[k - 1] + s[k].rec
    <3>1. k = 0 \/ k \in 1 .. N
      BY <1>1
    <3> QED BY <3>1 DEF Sums
  <2>2. f = [k \in 0 .. N |-> f[k]]
    BY DEF Sums
  <2> HIDE DEF N
  <2> QED BY <2>1, <2>2
<1> DEFINE h == CHOOSE h : Recursion(h)
<1>3. Recursion(h)
  BY <1>2
<1>4. Behind(s) = h[N]
  BY DEF Behind
<1>5. \A k \in 0 .. N : h[k] = IF k = 0 THEN 0 ELSE h[k - 1] + s[k].rec
  <2>1. h = [k \in 0 .. N |-> h[k]] /\ \A k \in 0 .. N : h[k] = IF k = 0 THEN 0 ELSE h[k - 1] + s[k].rec
    BY <1>3
  <2> QED BY <2>1
<1> HIDE DEF h
<1>6. 0 .. N \subseteq {k \in 0 .. N : h[k] = f[k]}
  <2> DEFINE I == {k \in 0 .. N : h[k] = f[k]}
  <2>1. 0 \in I
    BY <1>1, <1>5 DEF Sums
  <2>2. ASSUME NEW n \in 1 .. N, n - 1 \in I PROVE n \in I
    <3>1. n \in 0 .. N /\ n # 0 /\ h[n - 1] = f[n - 1]
      BY <1>1, <2>2
    <3>2. h[n] = h[n - 1] + s[n].rec /\ f[n] = f[n - 1] + s[n].rec
      BY <1>5, <3>1 DEF Sums
    <3> QED BY <3>1, <3>2
  <2> HIDE DEF I
  <2>3. 0 .. N \subseteq I
    BY <1>1, <2>1, <2>2, Steps
  <2> QED BY <2>3 DEF I
<1>7. N \in 0 .. N
  BY <1>1
<1> QED BY <1>4, <1>6, <1>7

(* Splitting the length of entry k among it and a new one behind it.         *)
LEMMA BehindSplit ==
    ASSUME NEW s \in Seq(Entry), NEW r \in Seq(Entry), NEW k \in 1 .. Len(s), Len(r) = Len(s) + 1,
           \A j \in 1 .. Len(s) + 1 : r[j].rec = IF j < k THEN s[j].rec ELSE IF j = k THEN r[k].rec
                                                 ELSE IF j = k + 1 THEN s[k].rec - r[k].rec ELSE s[j - 1].rec
    PROVE  Behind(r) = Behind(s)
<1> DEFINE N == Len(s)
<1>1. N \in Nat /\ \A j \in 1 .. N : s[j].rec \in Int
  BY EntryIs
<1>2. r[k].rec \in Int
  <2>1. k \in 1 .. Len(r)
    BY <1>1
  <2> QED BY <2>1, EntryIs
<1>3. PICK f : Sums(f, s)
  BY SumsExist
<1> HIDE DEF N
<1>4. f \in [0 .. N -> Int] /\ f[0] = 0 /\ \A j \in 1 .. N : f[j] = f[j - 1] + s[j].rec
  BY <1>3 DEF Sums, N
<1> DEFINE g == [j \in 0 .. N + 1 |-> IF j < k THEN f[j] ELSE IF j = k THEN f[k - 1] + r[k].rec ELSE f[j - 1]]
<1>5. \A j \in 0 .. N + 1 : g[j] = IF j < k THEN f[j] ELSE IF j = k THEN f[k - 1] + r[k].rec ELSE f[j - 1]
  BY Zenon
<1>6. k \in 1 .. N
  BY DEF N
<1>7. \A j \in 0 .. N + 1 : g[j] \in Int
  <2>1. \A j \in 0 .. N : f[j] \in Int
    BY <1>4
  <2>2. ASSUME NEW j \in 0 .. N + 1 PROVE g[j] \in Int
    <3>1. CASE j < k
      <4>1. j \in 0 .. N /\ g[j] = f[j]
        BY <1>1, <1>5, <1>6, <3>1
      <4> HIDE DEF g
      <4> QED BY <2>1, <4>1
    <3>2. CASE j = k
      <4>1. k - 1 \in 0 .. N /\ g[j] = f[k - 1] + r[k].rec
        BY <1>1, <1>5, <1>6, <3>2
      <4> HIDE DEF g
      <4> QED BY <1>2, <2>1, <4>1
    <3>3. CASE j > k
      <4>1. j - 1 \in 0 .. N /\ g[j] = f[j - 1]
        BY <1>1, <1>5, <1>6, <3>3
      <4> QED BY <2>1, <4>1
    <3> QED BY <1>1, <1>6, <3>1, <3>2, <3>3
  <2> QED BY <2>2
<1>8. g \in [0 .. N + 1 -> Int]
  BY <1>7
<1> HIDE DEF g
<1>9. g[0] = 0
  BY <1>1, <1>4, <1>5, <1>6
<1>10. ASSUME NEW j \in 1 .. N + 1 PROVE g[j] = g[j - 1] + r[j].rec
  <2>0. r[j].rec = IF j < k THEN s[j].rec ELSE IF j = k THEN r[k].rec
                                                 ELSE IF j = k + 1 THEN s[k].rec - r[k].rec ELSE s[j - 1].rec
    BY DEF N
  <2>1. CASE j < k
    <3>1. j \in 1 .. N /\ j \in 0 .. N + 1 /\ j - 1 \in 0 .. N + 1 /\ j - 1 < k
      BY <1>1, <1>6, <2>1
    <3>2. g[j] = f[j] /\ g[j - 1] = f[j - 1] /\ r[j].rec = s[j].rec
      BY <1>5, <2>0, <2>1, <3>1
    <3>3. f[j] = f[j - 1] + s[j].rec
      BY <1>4, <3>1
    <3> QED BY <3>2, <3>3
  <2>2. CASE j = k
    <3>1. j \in 0 .. N + 1 /\ j - 1 \in 0 .. N + 1 /\ j - 1 < k /\ ~(j < k) /\ j - 1 = k - 1
      BY <1>1, <1>6, <2>2
    <3>2. g[j] = f[k - 1] + r[k].rec /\ g[j - 1] = f[k - 1]
      BY <1>5, <2>2, <3>1
    <3> QED BY <2>2, <3>2
  <2>3. CASE j = k + 1
    <3>1. g[j] = f[k] /\ g[j - 1] = f[k - 1] + r[k].rec /\ f[k] = f[k - 1] + s[k].rec
      BY <1>1, <1>4, <1>5, <1>6, <2>3
    <3>2. f[k - 1] \in Int /\ s[k].rec \in Int
      <4>1. k - 1 \in 0 .. N
        BY <1>1, <1>6
      <4> QED BY <1>1, <1>4, <1>6, <4>1
    <3> QED BY <1>2, <2>0, <2>3, <3>1, <3>2
  <2>4. CASE j > k + 1
    <3>1. j - 1 \in 1 .. N /\ g[j] = f[j - 1] /\ g[j - 1] = f[j - 2] /\ r[j].rec = s[j - 1].rec
      BY <1>1, <1>5, <1>6, <2>0, <2>4
    <3>2. f[j - 1] = f[j - 2] + s[j - 1].rec
      BY <1>4, <3>1
    <3> QED BY <3>1, <3>2
  <2> QED BY <1>1, <1>6, <2>1, <2>2, <2>3, <2>4
<1>11. Sums(g, r)
  BY <1>8, <1>9, <1>10 DEF Sums, N
<1>12. Behind(r) = g[N + 1] /\ Behind(s) = f[N]
  BY <1>3, <1>11, BehindIs DEF N
<1>13. g[N + 1] = f[N]
  BY <1>1, <1>5, <1>6
<1> QED BY <1>12, <1>13
(* d stands for the same thing as e, and may differ in length.               *)
Alike(d, e) == d.name = e.name /\ d.inode = e.inode /\ d.type = e.type

LEMMA CutIs ==
    ASSUME NEW s \in Seq(Entry), NEW k \in 1 .. Len(s), NEW v \in Int
    PROVE  LET c == [s EXCEPT ![k].rec = v]
           IN  /\ c \in Seq(Entry) /\ Len(c) = Len(s)
               /\ \A j \in 1 .. Len(s) : /\ Alike(c[j], s[j])
                                         /\ c[j].rec = IF j = k THEN v ELSE s[j].rec
<1> DEFINE e == [s[k] EXCEPT !.rec = v]
           c == [s EXCEPT ![k] = e]
<1>1. s[k] \in Entry /\ Len(s) \in Nat
  BY EntryIs
<1>2. e \in Entry /\ Alike(e, s[k]) /\ e.rec = v
  BY <1>1 DEF Entry, Alike
<1> HIDE DEF e
<1>3. c \in Seq(Entry) /\ Len(c) = Len(s) /\ \A j \in 1 .. Len(s) : c[j] = IF j = k THEN e ELSE s[j]
  BY <1>1, <1>2, ExceptSeq
<1>4. [s EXCEPT ![k].rec = v] = c
  BY DEF e
<1> HIDE DEF c
<1>5. \A j \in 1 .. Len(s) : Alike(s[j], s[j])
  BY DEF Alike
<1>6. \A j \in 1 .. Len(s) : Alike(c[j], s[j]) /\ c[j].rec = IF j = k THEN v ELSE s[j].rec
  BY <1>2, <1>3, <1>5
<1> QED BY <1>3, <1>4, <1>6

(* The entries of a block after new_dir_entry behind the k-th.               *)
Split(s, k, e) ==
    IF s[k].rec - Need(s[k].name) = 0 THEN SubSeq([s EXCEPT ![k].rec = Need(s[k].name)], 1, k)
    ELSE InsertAt([s EXCEPT ![k].rec = Need(s[k].name)], k + 1, e)

LEMMA SplitIs ==
    ASSUME NEW s \in Seq(Entry), NEW k \in 1 .. Len(s), NEW e \in Entry,
           e.rec = s[k].rec - Need(s[k].name)
    PROVE  LET t == Split(s, k, e)
           IN  /\ t \in Seq(Entry) /\ t # <<>>
               /\ \A j \in 1 .. Len(t) : t[j] = e \/ \E m \in 1 .. Len(s) : Alike(t[j], s[m])
               /\ e.rec # 0 =>
                     /\ Len(t) = Len(s) + 1 /\ t[k + 1] = e
                     /\ \A j \in 1 .. Len(s) : Alike(t[IF j <= k THEN j ELSE j + 1], s[j])
               /\ Fills(s) /\ e.rec >= Need(e.name) => Fills(t)
<1> DEFINE v == Need(s[k].name)
           c == [s EXCEPT ![k].rec = v]
           N == Len(s)
<1>1. N \in Nat /\ s[k].rec \in Int /\ s[k].name \in Names /\ v \in Nat /\ e.name \in Names /\ e.rec \in Int
  <2>1. s[k].name \in Names /\ N \in Nat /\ s[k].rec \in Int
    BY EntryIs
  <2>2. e.name \in Names /\ e.rec \in Int
    BY DEF Entry
  <2> QED BY <2>1, <2>2, NeedIs
<1>2. c \in Seq(Entry) /\ Len(c) = N
      /\ \A j \in 1 .. N : Alike(c[j], s[j]) /\ c[j].rec = IF j = k THEN v ELSE s[j].rec
  <2>1. v \in Int
    BY <1>1
  <2> HIDE DEF v
  <2> QED BY <2>1, CutIs
<1>3. k \in 1 .. N
  OBVIOUS
<1>4. CASE e.rec = 0
  <2> DEFINE t == SubSeq(c, 1, k)
  <2>1. Split(s, k, e) = t
    BY <1>4 DEF Split
  <2> HIDE DEF c, N, v
  <2>2. \A i \in 1 .. k : c[i] \in Entry
    BY <1>1, <1>2, <1>3, EntryIs
  <2>3. t \in Seq(Entry) /\ Len(t) = (IF 1 <= k THEN k - 1 + 1 ELSE 0) /\ \A i \in 1 .. k - 1 + 1 : t[i] = c[1 + i - 1]
    <3>1. k \in Int /\ 1 \in Int
      BY <1>1, <1>3
    <3> QED BY <2>2, <3>1, SubSeqProperties
  <2> HIDE DEF t
  <2>4. Len(t) = k /\ \A i \in 1 .. k : t[i] = c[i] /\ i \in 1 .. N
    BY <1>1, <1>3, <2>3
  <2>5. t # <<>>
    <3>1. Len(<<>>) = 0
      OBVIOUS
    <3> QED BY <1>1, <1>3, <2>4, <3>1
  <2>6. \A j \in 1 .. Len(t) : \E m \in 1 .. Len(s) : Alike(t[j], s[m])
    BY <1>2, <2>4 DEF N
  <2>7. ~(e.rec >= Need(e.name))
    <3>1. Need(e.name) \in Nat /\ Need(e.name) >= 12
      BY <1>1, NeedIs
    <3> QED BY <1>4, <3>1
  <2> QED BY <1>4, <2>1, <2>3, <2>5, <2>6, <2>7
<1>5. CASE e.rec # 0
  <2> DEFINE t == InsertAt(c, k + 1, e)
  <2>1. Split(s, k, e) = t
    BY <1>5 DEF Split
  <2> HIDE DEF c, N
  <2>2. t \in Seq(Entry) /\ IsInserted(t, c, k + 1, e)
    <3>1. k + 1 \in 1 .. Len(c) + 1
      BY <1>1, <1>2, <1>3
    <3> QED BY <1>2, <3>1, InsertAtIs
  <2> HIDE DEF t
  <2>3. Len(t) = N + 1 /\ \A j \in 1 .. N + 1 : t[j] = IF j < k + 1 THEN c[j] ELSE IF j = k + 1 THEN e ELSE c[j - 1]
    BY <1>2, <2>2 DEF IsInserted
  <2>4. t # <<>>
    <3>1. Len(<<>>) = 0
      OBVIOUS
    <3> QED BY <1>1, <2>3, <3>1
  <2>5. ASSUME NEW j \in 1 .. N + 1 PROVE t[j] = e \/ \E m \in 1 .. N : Alike(t[j], s[m])
    <3>1. CASE j < k + 1
      <4>1. j \in 1 .. N /\ t[j] = c[j]
        BY <1>1, <1>3, <2>3, <3>1
      <4> QED BY <1>2, <4>1
    <3>2. CASE j > k + 1
      <4>1. j - 1 \in 1 .. N /\ t[j] = c[j - 1]
        BY <1>1, <1>3, <2>3, <3>2
      <4> QED BY <1>2, <4>1
    <3> QED BY <1>1, <1>3, <2>3, <3>1, <3>2
  <2>6. t[k + 1] = e
    BY <1>1, <1>3, <2>3
  <2>7. ASSUME NEW j \in 1 .. N PROVE Alike(t[IF j <= k THEN j ELSE j + 1], s[j])
    <3>1. CASE j <= k
      <4>1. t[j] = c[j]
        BY <1>1, <1>3, <2>3, <3>1
      <4> QED BY <1>2, <3>1, <4>1
    <3>2. CASE ~(j <= k)
      <4>1. t[j + 1] = c[j]
        BY <1>1, <1>3, <2>3, <3>2
      <4> QED BY <1>2, <3>2, <4>1
    <3> QED BY <3>1, <3>2
  <2>8. \A j \in 1 .. N + 1 : t[j].rec = IF j < k THEN s[j].rec ELSE IF j = k THEN v
                                                 ELSE IF j = k + 1 THEN e.rec ELSE s[j - 1].rec
    <3> HIDE DEF v
    <3>1. ASSUME NEW j \in 1 .. N + 1, j < k + 1 PROVE t[j].rec = IF j < k THEN s[j].rec ELSE v
      BY <1>1, <1>2, <1>3, <2>3, <3>1
    <3>2. ASSUME NEW j \in 1 .. N + 1, j > k + 1 PROVE t[j].rec = s[j - 1].rec
      BY <1>1, <1>2, <1>3, <2>3, <3>2
    <3> QED BY <1>1, <1>3, <2>6, <3>1, <3>2
  <2>9. ASSUME Fills(s), e.rec >= Need(e.name) PROVE Fills(t)
    <3>1. t[k].rec = v /\ e.rec = s[k].rec - v
      BY <1>1, <1>3, <2>8
    <3>2. Behind(t) = Behind(s)
      <4>1. \A j \in 1 .. Len(s) + 1 : t[j].rec = IF j < k THEN s[j].rec ELSE IF j = k THEN t[k].rec
                                                 ELSE IF j = k + 1 THEN s[k].rec - t[k].rec ELSE s[j - 1].rec
        BY <2>8, <3>1 DEF N
      <4> QED BY <2>2, <2>3, <4>1, BehindSplit DEF N
    <3>3. \A j \in 1 .. N : s[j].rec >= Need(s[j].name)
      BY <2>9 DEF Fills, N
    <3>4. \A j \in 1 .. N + 1 : t[j].name = IF j <= k THEN s[j].name ELSE IF j = k + 1 THEN e.name ELSE s[j - 1].name
      <4>1. \A j \in 1 .. N : c[j].name = s[j].name
        BY <1>2 DEF Alike
      <4>2. ASSUME NEW j \in 1 .. N + 1, j <= k PROVE t[j].name = s[j].name
        <5>1. j \in 1 .. N /\ j < k + 1
          BY <1>1, <1>3, <4>2
        <5>2. t[j] = c[j]
          BY <2>3, <5>1
        <5> QED BY <4>1, <5>1, <5>2
      <4>3. ASSUME NEW j \in 1 .. N + 1, j > k + 1 PROVE t[j].name = s[j - 1].name
        <5>1. j - 1 \in 1 .. N /\ ~(j < k + 1) /\ j # k + 1
          BY <1>1, <1>3, <4>3
        <5>2. t[j] = c[j - 1]
          BY <2>3, <5>1
        <5> QED BY <4>1, <5>1, <5>2
      <4>4. \A j \in 1 .. N + 1 : j <= k \/ j = k + 1 \/ j > k + 1
        BY <1>1, <1>3
      <4>5. ~(k + 1 <= k) /\ \A j \in 1 .. N + 1 : j > k + 1 => ~(j <= k) /\ j # k + 1
        BY <1>1, <1>3
      <4> HIDE DEF t
      <4>6. ASSUME NEW j \in 1 .. N + 1
            PROVE  t[j].name = IF j <= k THEN s[j].name ELSE IF j = k + 1 THEN e.name ELSE s[j - 1].name
        <5>1. CASE j <= k
          BY <4>2, <5>1
        <5>2. CASE j = k + 1
          BY <2>6, <4>5, <5>2
        <5>3. CASE j > k + 1
          BY <4>3, <4>5, <5>3
        <5> QED BY <4>4, <5>1, <5>2, <5>3
      <4> QED BY <4>6
    <3>5. ASSUME NEW j \in 1 .. N + 1 PROVE t[j].rec >= Need(t[j].name)
      <4>1. CASE j < k
        BY <1>1, <1>3, <2>8, <3>3, <3>4, <4>1
      <4>2. CASE j = k
        <5>1. t[j].rec = Need(s[k].name) /\ t[j].name = s[k].name
          BY <1>1, <1>3, <3>1, <3>4, <4>2
        <5> QED BY <1>1, <5>1
      <4>3. CASE j = k + 1
        BY <2>6, <2>9, <4>3
      <4>4. CASE j > k + 1
        BY <1>1, <1>3, <2>8, <3>3, <3>4, <4>4
      <4> QED BY <1>1, <1>3, <4>1, <4>2, <4>3, <4>4
    <3> QED BY <2>3, <2>9, <3>2, <3>5 DEF Fills
  <2> QED BY <2>1, <2>2, <2>3, <2>4, <2>5, <2>6, <2>7, <2>9 DEF N
<1> QED BY <1>4, <1>5
LEMMA BehindSame ==
    ASSUME NEW s \in Seq(Entry), NEW r \in Seq(Entry), Len(r) = Len(s),
           \A j \in 1 .. Len(s) : r[j].rec = s[j].rec
    PROVE  Behind(r) = Behind(s)
<1>1. PICK f : Sums(f, s)
  BY SumsExist
<1>2. Sums(f, r)
  BY <1>1 DEF Sums
<1>3. Behind(s) = f[Len(s)] /\ Behind(r) = f[Len(r)]
  BY <1>1, <1>2, BehindIs
<1> QED BY <1>3

(* Entry k given up to the one before it.                                    *)
LEMMA BehindJoin ==
    ASSUME NEW s \in Seq(Entry), NEW r \in Seq(Entry), NEW k \in 2 .. Len(s), Len(r) = Len(s) - 1,
           \A j \in 1 .. Len(s) - 1 : r[j].rec = IF j < k - 1 THEN s[j].rec
                                                 ELSE IF j = k - 1 THEN s[k - 1].rec + s[k].rec
                                                 ELSE s[j + 1].rec
    PROVE  Behind(r) = Behind(s)
<1> DEFINE N == Len(s)
           M == Len(r)
           i == k - 1
<1>1. N \in Nat /\ M = N - 1 /\ M \in Nat /\ i \in 1 .. M /\ N = M + 1 /\ i + 1 = k
  <2>1. N \in Nat
    BY EntryIs
  <2> QED BY <2>1
<1>2. \A j \in 1 .. N : s[j].rec \in Int
  BY EntryIs
<1>3. \A j \in 1 .. M : r[j].rec = IF j < i THEN s[j].rec ELSE IF j = i THEN s[i].rec + s[k].rec ELSE s[j + 1].rec
  BY <1>1
<1> HIDE DEF N, M, i
<1>4. ASSUME NEW j \in 1 .. M + 1
      PROVE  s[j].rec = IF j < i THEN r[j].rec ELSE IF j = i THEN s[i].rec
                        ELSE IF j = i + 1 THEN r[i].rec - s[i].rec ELSE r[j - 1].rec
  <2>1. CASE j < i
    <3>1. j \in 1 .. M /\ r[j].rec = s[j].rec
      BY <1>1, <1>3, <2>1
    <3> QED BY <2>1, <3>1
  <2>2. CASE j = i
    BY <1>1, <1>3, <2>2
  <2>3. CASE j = i + 1
    <3>1. r[i].rec = s[i].rec + s[k].rec /\ s[i].rec \in Int /\ s[k].rec \in Int
      BY <1>1, <1>2, <1>3
    <3>2. s[j].rec = s[k].rec /\ i \in Int
      BY <1>1, <2>3
    <3>3. s[j].rec = r[i].rec - s[i].rec
      BY <3>1, <3>2
    <3> QED BY <2>3, <3>2, <3>3
  <2>4. CASE j > i + 1
    <3>1. j - 1 \in 1 .. M /\ j - 1 > i /\ (j - 1) + 1 = j
      BY <1>1, <2>4
    <3>2. r[j - 1].rec = s[j].rec
      BY <1>1, <1>3, <3>1
    <3> QED BY <1>1, <2>4, <3>2
  <2> QED BY <1>1, <2>1, <2>2, <2>3, <2>4
<1>5. Behind(s) = Behind(r)
  <2>1. i \in 1 .. Len(r) /\ Len(s) = Len(r) + 1
    BY <1>1 DEF M, N
  <2>2. \A j \in 1 .. Len(r) + 1 : s[j].rec = IF j < i THEN r[j].rec ELSE IF j = i THEN s[i].rec
                        ELSE IF j = i + 1 THEN r[i].rec - s[i].rec ELSE r[j - 1].rec
    BY <1>4 DEF M
  <2> QED BY <2>1, <2>2, BehindSplit
<1> QED BY <1>5

(* The entries of a block after rm_dir_entry on the k-th.                    *)
Joined(s, k) ==
    IF k = 1 THEN [s EXCEPT ![1].name = "", ![1].inode = 0, ![1].type = "none"]
    ELSE RemoveAt([s EXCEPT ![k - 1].rec = @ + s[k].rec], k)

LEMMA JoinedIs ==
    ASSUME NEW s \in Seq(Entry), NEW k \in 1 .. Len(s)
    PROVE  LET t == Joined(s, k)
           IN  /\ t \in Seq(Entry) /\ t # <<>>
               /\ \A j \in 1 .. Len(t) : t[j].name = "" \/ \E m \in 1 .. Len(s) : Alike(t[j], s[m])
               /\ Fills(s) => Fills(t)
<1> DEFINE N == Len(s)
<1>1. N \in Nat /\ \A j \in 1 .. N : s[j] \in Entry /\ s[j].rec \in Int /\ s[j].name \in Names
  BY EntryIs
<1>2. \A x \in Seq(Entry) : Len(x) \in Nat \ {0} => x # <<>>
  <2>1. Len(<<>>) = 0
    OBVIOUS
  <2> QED BY <2>1
<1>3. CASE k = 1
  <2> DEFINE e == [s[1] EXCEPT !.name = "", !.inode = 0, !.type = "none"]
             t == [s EXCEPT ![k] = e]
  <2>1. 1 \in 1 .. N
    BY <1>1, <1>3
  <2>2. s[1] \in Entry
    BY <1>1, <2>1
  <2>3. "" \in Names /\ "none" \in Kinds /\ 0 \in Inode \cup Block \cup {0}
    BY Zenon DEF Names, Kinds
  <2>4. Joined(s, k) = t
    <3>1. [s EXCEPT ![1].name = "", ![1].inode = 0, ![1].type = "none"] = t
      BY <1>3, <2>1
    <3> QED BY <1>3, <3>1 DEF Joined
  <2>5. e \in Entry /\ e.name = "" /\ e.rec = s[1].rec
    BY <2>2, <2>3 DEF Entry
  <2> HIDE DEF e
  <2>6. t \in Seq(Entry) /\ Len(t) = N /\ \A j \in 1 .. N : t[j] = IF j = 1 THEN e ELSE s[j]
    <3>1. t \in Seq(Entry) /\ Len(t) = N /\ \A j \in 1 .. N : t[j] = IF j = k THEN e ELSE s[j]
      <4>1. e \in Entry
        BY <2>5
      <4>2. [s EXCEPT ![k] = e] \in Seq(Entry) /\ Len([s EXCEPT ![k] = e]) = Len(s)
            /\ \A j \in 1 .. Len(s) : [s EXCEPT ![k] = e][j] = IF j = k THEN e ELSE s[j]
        BY <4>1, ExceptSeq
      <4> QED BY <4>2
    <3> QED BY <1>3, <3>1
  <2> HIDE DEF t
  <2>7. \A j \in 1 .. N : t[j].rec = s[j].rec /\ (t[j].name = "" \/ Alike(t[j], s[j]))
    BY <2>5, <2>6 DEF Alike
  <2>8. ASSUME Fills(s) PROVE Fills(t)
    <3>1. Behind(t) = Behind(s)
      BY <2>6, <2>7, BehindSame DEF N
    <3>2. ASSUME NEW j \in 1 .. N PROVE t[j].rec >= Need(t[j].name)
      <4>1. s[j].rec >= Need(s[j].name) /\ s[j].rec \in Int
        BY <1>1, <2>8 DEF Fills, N
      <4>2. Need(s[j].name) \in Nat /\ Need(s[j].name) >= 12
        BY <1>1, NeedIs
      <4>3. CASE t[j].name = ""
        <5>1. Need(t[j].name) = 12
          BY <4>3, NeedIs
        <5>2. t[j].rec = s[j].rec
          BY <2>7
        <5> QED BY <4>1, <4>2, <5>1, <5>2
      <4>4. CASE Alike(t[j], s[j])
        <5>1. t[j].rec = s[j].rec /\ t[j].name = s[j].name
          BY <2>7, <4>4 DEF Alike
        <5> QED BY <4>1, <5>1
      <4> QED BY <2>7, <4>3, <4>4
    <3> QED BY <2>6, <2>8, <3>1, <3>2 DEF Fills
  <2>10. t # <<>>
    BY <1>1, <1>2, <2>1, <2>6
  <2>11. \A j \in 1 .. Len(t) : t[j].name = "" \/ \E m \in 1 .. Len(s) : Alike(t[j], s[m])
    BY <2>6, <2>7 DEF N
  <2> QED BY <2>4, <2>6, <2>8, <2>10, <2>11
<1>4. CASE k # 1
  <2> DEFINE v == s[k - 1].rec + s[k].rec
             c == [s EXCEPT ![k - 1].rec = v]
             t == RemoveAt(c, k)
  <2>1. k \in 2 .. N /\ k - 1 \in 1 .. N /\ k \in 1 .. N /\ N - 1 \in Nat \ {0}
    BY <1>1, <1>4
  <2>2. v \in Int
    BY <1>1, <2>1
  <2>3. Joined(s, k) = t
    <3>1. c = [s EXCEPT ![k - 1].rec = @ + s[k].rec]
      BY <2>1
    <3> QED BY <1>4, <3>1 DEF Joined
  <2>4. c \in Seq(Entry) /\ Len(c) = N
        /\ \A j \in 1 .. N : Alike(c[j], s[j]) /\ c[j].rec = IF j = k - 1 THEN v ELSE s[j].rec
    <3> HIDE DEF v
    <3> QED BY <2>1, <2>2, CutIs
  <2> HIDE DEF c
  <2>5. t \in Seq(Entry) /\ Len(t) = N - 1 /\ \A j \in 1 .. N - 1 : t[j] = IF j < k THEN c[j] ELSE c[j + 1]
    BY <2>1, <2>4, RemoveAtIs
  <2> HIDE DEF t
  <2>6. ASSUME NEW j \in 1 .. N - 1 PROVE Alike(t[j], s[IF j < k THEN j ELSE j + 1])
    <3>1. j \in 1 .. N /\ j + 1 \in 1 .. N
      BY <1>1
    <3> QED BY <2>4, <2>5, <3>1
  <2>7. \A j \in 1 .. N - 1 : \E m \in 1 .. N : Alike(t[j], s[m])
    <3>1. \A j \in 1 .. N - 1 : (IF j < k THEN j ELSE j + 1) \in 1 .. N
      BY <1>1, <2>1
    <3> QED BY <2>6, <3>1
  <2>8. ASSUME NEW j \in 1 .. N - 1
        PROVE  t[j].rec = IF j < k - 1 THEN s[j].rec ELSE IF j = k - 1 THEN v ELSE s[j + 1].rec
    <3> HIDE DEF v
    <3>1. j \in 1 .. N /\ j + 1 \in 1 .. N
      BY <1>1
    <3>2. c[j].rec = (IF j = k - 1 THEN v ELSE s[j].rec) /\ c[j + 1].rec = (IF j + 1 = k - 1 THEN v ELSE s[j + 1].rec)
      BY <2>4, <3>1
    <3>3. t[j].rec = IF j < k THEN c[j].rec ELSE c[j + 1].rec
      BY <2>5, <3>1
    <3>4. k \in Int /\ j \in Int /\ (j + 1 = k - 1 => j < k)
      BY <2>1, <3>1
    <3> HIDE DEF t, c
    <3>5. CASE j < k - 1
      <4>1. j < k /\ j # k - 1
        BY <3>4, <3>5
      <4> QED BY <3>2, <3>3, <3>5, <4>1
    <3>6. CASE j = k - 1
      <4>1. j < k /\ ~(j < k - 1)
        BY <3>4, <3>6
      <4> QED BY <3>2, <3>3, <3>6, <4>1
    <3>7. CASE j > k - 1
      <4>1. ~(j < k) /\ ~(j < k - 1) /\ j # k - 1 /\ j + 1 # k - 1
        BY <3>4, <3>7
      <4> QED BY <3>2, <3>3, <4>1
    <3> QED BY <3>4, <3>5, <3>6, <3>7
  <2>9. ASSUME Fills(s) PROVE Fills(t)
    <3>1. Behind(t) = Behind(s)
      BY <2>1, <2>5, <2>8, BehindJoin DEF N
    <3>2. ASSUME NEW j \in 1 .. N - 1 PROVE t[j].rec >= Need(t[j].name)
      <4> DEFINE m == IF j < k THEN j ELSE j + 1
      <4>1. m \in 1 .. N /\ t[j].name = s[m].name
        <5>1. m \in 1 .. N
          BY <1>1, <2>1
        <5> QED BY <2>6, <5>1 DEF Alike
      <4>2. t[j].rec >= s[m].rec
        <5>1. CASE j = k - 1
          <6>1. t[j].rec = s[k - 1].rec + s[k].rec /\ m = k - 1
            BY <2>1, <2>8, <5>1
          <6>2. s[k].rec >= Need(s[k].name) /\ Need(s[k].name) \in Nat /\ s[k].rec \in Int /\ s[k - 1].rec \in Int
            BY <1>1, <2>1, <2>9, NeedIs DEF Fills, N
          <6> HIDE DEF m
          <6> QED BY <6>1, <6>2
        <5>2. CASE j # k - 1
          <6>1. t[j].rec = s[m].rec
            BY <2>1, <2>8, <5>2
          <6> QED BY <1>1, <4>1, <6>1
        <5> QED BY <5>1, <5>2
      <4>3. s[m].rec >= Need(s[m].name) /\ Need(s[m].name) \in Nat /\ s[m].rec \in Int
        BY <1>1, <2>9, <4>1, NeedIs DEF Fills, N
      <4>4. t[j].rec \in Int
        BY <2>5, EntryIs
      <4> HIDE DEF m
      <4> QED BY <4>1, <4>2, <4>3, <4>4
    <3> QED BY <2>5, <2>9, <3>1, <3>2 DEF Fills
  <2> QED BY <1>2, <2>1, <2>3, <2>5, <2>7, <2>9 DEF N
<1> QED BY <1>3, <1>4
-----------------------------------------------------------------------------
(* Looking for a place or a name.                                            *)

LEMMA OffsetIs ==
    ASSUME NEW p, NEW b, NEW size
    PROVE  LET k == dir_block_offset(p, b, size)
               s == p.entries[b]
           IN  k = 0 \/ (k \in 1 .. Len(s) /\ s[k].rec - Need(s[k].name) >= size)
<1> DEFINE s == p.entries[b]
           I == {i \in 1 .. Len(s) : s[i].rec - Need(s[i].name) >= size}
           k == dir_block_offset(p, b, size)
<1>1. k = IF I # {} THEN Min(I) ELSE 0
  BY DEF dir_block_offset, SelectInSeq
<1>2. I \in SUBSET Nat
  OBVIOUS
<1>3. I # {} => Min(I) \in I
  <2> HIDE DEF I
  <2> QED BY <1>2, LeastIndex
<1> QED BY <1>1, <1>3

LEMMA SpotIs ==
    ASSUME NEW p, NEW size
    PROVE  LET blocks == p.dir.block
               j == spot_block(p, size)
           IN  j = 0 \/ (j \in 1 .. Len(blocks) /\ dir_block_offset(p, blocks[j], size) # 0)
<1> DEFINE blocks == p.dir.block
           I == {i \in 1 .. Len(blocks) : dir_block_offset(p, blocks[i], size) # 0}
           j == spot_block(p, size)
<1>1. j = IF I # {} THEN Min(I) ELSE 0
  BY DEF spot_block, SelectInSeq
<1>2. I \in SUBSET Nat
  OBVIOUS
<1>3. I # {} => Min(I) \in I
  <2> HIDE DEF I
  <2> QED BY <1>2, LeastIndex
<1> QED BY <1>1, <1>3

LEMMA HitIs ==
    ASSUME NEW table, NEW b, NEW name
    PROVE  LET k == hit(table, b, name)
           IN  k = 0 \/ (k \in 1 .. Len(table[b]) /\ table[b][k].name \in Name)
<1> DEFINE I == {i \in 1 .. Len(table[b]) : Matches(table[b][i], name)}
           k == hit(table, b, name)
<1>1. k = IF I # {} THEN Min(I) ELSE 0
  BY DEF hit, SelectInSeq
<1>2. I \in SUBSET Nat
  OBVIOUS
<1>3. I # {} => Min(I) \in I
  <2> HIDE DEF I
  <2> QED BY <1>2, LeastIndex
<1>4. BeginsWith \subseteq Name \X Name
  BY Ext2Assumption, Zenon
<1>5. \A e : Matches(e, name) => e.name \in Name
  BY <1>4 DEF Matches
<1> QED BY <1>1, <1>3, <1>5

LEMMA HitBlockIs ==
    ASSUME NEW table, NEW node, NEW name
    PROVE  LET j == hit_block(table, node, name)
           IN  j = 0 \/ (j \in 1 .. Len(node.block) /\ hit(table, node.block[j], name) # 0)
<1> DEFINE I == {i \in 1 .. Len(node.block) : hit(table, node.block[i], name) # 0}
           j == hit_block(table, node, name)
<1>1. j = IF I # {} THEN Min(I) ELSE 0
  BY DEF hit_block, SelectInSeq
<1>2. I \in SUBSET Nat
  OBVIOUS
<1>3. I # {} => Min(I) \in I
  <2> HIDE DEF I
  <2> QED BY <1>2, LeastIndex
<1> QED BY <1>1, <1>3

(* A directory entry that a walk finds leads to an inode in use.             *)
LEMMA WalkOne ==
    ASSUME setUp \in Process, NamesLead(setUp, bitmap.i), NEW n \in Inode, NEW name
    PROVE  LET e == walk_one(n, name)
           IN  \/ e = NoEntry
               \/ e # NoEntry /\ Leads(e, bitmap.i) /\ e.name \in Name
<1> DEFINE j == hit_block(entries, inode[n], name)
           b == inode[n].block[j]
           k == hit(entries, b, name)
           e == walk_one(n, name)
<1>1. e = IF j = 0 THEN NoEntry ELSE entries[b][k]
  BY DEF walk_one
<1>2. CASE j # 0
  <2>1. j \in 1 .. Len(inode[n].block) /\ k # 0
    BY <1>2, HitBlockIs
  <2>2. k \in 1 .. Len(entries[b]) /\ entries[b][k].name \in Name
    BY <2>1, HitIs
  <2>3. inode[n].block \in Seq(Block)
    BY DEF Process, Node, setUp
  <2>4. b \in Block
    BY <2>1, <2>3
  <2>5. Leads(entries[b][k], bitmap.i)
    BY <2>2, <2>4 DEF NamesLead, setUp
  <2>6. "" \notin Name
    BY Ext2Assumption, Zenon
  <2>7. e # NoEntry
    <3>1. NoEntry.name = ""
      BY DEF NoEntry
    <3>2. e = entries[b][k]
      BY <1>1, <1>2
    <3> HIDE DEF e, k, b
    <3> QED BY <2>2, <2>6, <3>1, <3>2, Zenon
  <2> QED BY <1>1, <1>2, <2>2, <2>5, <2>7
<1> QED BY <1>1, <1>2

LEMMA FullWalk ==
    ASSUME setUp \in Process, NamesLead(setUp, bitmap.i), ROOT \in bitmap.i,
           NEW path \in Path, NEW e, e = full_walk(path), Found(e)
    PROVE  e.inode \in bitmap.i /\ (e.type # "dir" => e.inode # ROOT)
<1> DEFINE first == walk_one(ROOT, path[1])
<1>1. bitmap.i \subseteq Inode /\ ROOT \in Inode
  BY Ext2Assumption DEF setUp, Process, Bits
<1>2. first = NoEntry \/ (first # NoEntry /\ Leads(first, bitmap.i) /\ first.name \in Name)
  BY <1>1, WalkOne
<1>3. ~Found(NoEntry)
  BY DEF Found, NoEntry
<1> HIDE DEF first
<1>4. \A x : Leads(x, bitmap.i) /\ x.name \in Name => x.inode \in bitmap.i /\ (x.type # "dir" => x.inode # ROOT)
  BY DEF Leads
<1>5. CASE path = <<>>
  <2>1. e.inode = ROOT /\ e.type = "dir"
    BY <1>5 DEF full_walk, NoEntry
  <2> QED BY <2>1
<1>6. CASE path # <<>> /\ Len(path) = 1
  <2>1. e = first
    BY <1>6 DEF full_walk, first
  <2> QED BY <1>2, <1>3, <1>4, <2>1
<1>7. CASE path # <<>> /\ Len(path) # 1 /\ first = NoEntry
  <2>1. e = [NoEntry EXCEPT !.name = "crash"]
    BY <1>7 DEF full_walk, first
  <2> QED BY <2>1 DEF Found, NoEntry
<1>8. CASE path # <<>> /\ Len(path) # 1 /\ first # NoEntry
  <2>1. e = walk_one(first.inode, path[2])
    BY <1>8 DEF full_walk, first
  <2>2. first.inode \in Inode
    BY <1>1, <1>2, <1>4, <1>8
  <2>3. e = NoEntry \/ (e # NoEntry /\ Leads(e, bitmap.i) /\ e.name \in Name)
    BY <2>1, <2>2, WalkOne
  <2> QED BY <1>3, <1>4, <2>3
<1> QED BY <1>5, <1>6, <1>7, <1>8
-----------------------------------------------------------------------------
(* Who owns the blocks, by the inode table T.                                *)

(* Inodes in use own blocks in use, no two of them the same, and none but    *)
(* the root's its first block.                                               *)
Owned(p, T) ==
    /\ \A i \in p.bitmap.i :
          /\ OneEach(T[i], p.bitmap.b)
          /\ Len(T[i].block) > NDIRECT => p.entries[Ind(T[i])] = <<>>
    /\ \A h, i \in p.bitmap.i : h # i =>
          \A j \in Kept(T[h]), k \in Kept(T[i]) : T[h].block[j] # T[i].block[k]
    /\ \A i \in p.bitmap.i : i # ROOT => \A j \in Kept(T[i]) : T[i].block[j] # ROOT_BLOCK

(* What the indirect block of a node lists.                                  *)
List(p, node) == IF Len(node.block) > NDIRECT THEN p.words[Ind(node)] ELSE <<>>

(* Listed blocks are in use, and nowhere else.                               *)
Apart(p, T) ==
    \A h \in p.bitmap.i : \A k \in 1 .. Len(List(p, T[h])) :
        /\ List(p, T[h])[k] \in p.bitmap.b
        /\ \A i \in p.bitmap.i : \A j \in Kept(T[i]) : List(p, T[h])[k] # T[i].block[j]
        /\ \A i \in p.bitmap.i : \A m \in 1 .. Len(List(p, T[i])) :
              List(p, T[h])[k] = List(p, T[i])[m] => h = i /\ k = m

(* A command that works on the directory T[t].                               *)
Linking(s, p, T, t, tidy) ==
    /\ Working(s, p)
    /\ p.ok => T[t] = p.dir /\ Owned(p, T) /\ (tidy => Neat(p) /\ Apart(p, T))

LEMMA OwnedLonger ==
    ASSUME NEW p \in Process, NEW q \in Process, NEW T \in [Inode -> Node], NEW t \in p.bitmap.i,
           NEW new, NEW g \in Block \ p.bitmap.b, Longer(T[t], new, g), Len(T[t].block) < NDIRECT,
           q.bitmap.b = p.bitmap.b \cup {g}, q.bitmap.i = p.bitmap.i, SameTables(p, q), Owned(p, T),
           ROOT_BLOCK \in p.bitmap.b, NEW U, U = [T EXCEPT ![t] = new]
    PROVE  /\ Owned(q, U) /\ (Apart(p, T) => Apart(q, U))
           /\ \A i \in q.bitmap.i : Len(U[i].block) > NDIRECT => Ind(U[i]) # g
<1>1. p.bitmap.i \subseteq Inode /\ t \in Inode
  BY DEF Process, Bits
<1>2. U[t] = new /\ \A i \in p.bitmap.i : i # t => U[i] = T[i]
  BY <1>1
<1>3. NDIRECT \in Nat \ {0}
  BY Ext2Assumption, Zenon
<1>4. T[t] \in Node
  BY <1>1
<1>5. OneEach(T[t], p.bitmap.b)
  BY DEF Owned
<1>6. OneEach(new, q.bitmap.b) /\ ~(Len(new.block) > NDIRECT)
  <2> DEFINE S == p.bitmap.b
             R == q.bitmap.b
  <2>1. S \subseteq R /\ g \in R \ S /\ OneEach(T[t], S)
    BY <1>5
  <2> HIDE DEF S, R
  <2>2. OneEach(new, R) /\ ~(Len(new.block) > NDIRECT)
    BY <1>4, <2>1, OneEachLonger
  <2> QED BY <2>2 DEF R
<1> DEFINE n == Len(T[t].block)
<1>7. n \in Nat /\ Len(new.block) = n + 1
  BY <1>4 DEF Node, Longer
<1>8. Kept(T[t]) = 1 .. n /\ Kept(new) = 1 .. n + 1
  BY <1>3, <1>7 DEF Kept
<1>9. \A j \in 1 .. n + 1 : new.block[j] = IF j = n + 1 THEN g ELSE T[t].block[j]
  BY <1>7 DEF Longer
<1> HIDE DEF n
(* A place of the longer node is one of the node, or the new one.            *)
<1>10. \A j \in Kept(new) : new.block[j] = g \/ (j \in Kept(T[t]) /\ new.block[j] = T[t].block[j])
  BY <1>7, <1>8, <1>9
<1>11. \A i \in p.bitmap.i : \A j \in Kept(T[i]) : T[i].block[j] \in p.bitmap.b
  <2> SUFFICES ASSUME NEW i \in p.bitmap.i, NEW j \in Kept(T[i]) PROVE T[i].block[j] \in p.bitmap.b
    OBVIOUS
  <2>1. T[i] \in Node /\ OneEach(T[i], p.bitmap.b)
    BY <1>1 DEF Owned
  <2>2. Len(T[i].block) \in Nat
    BY <2>1 DEF Node
  <2>3. j \in 1 .. Len(T[i].block)
    BY <1>3, <2>2 DEF Kept
  <2> QED BY <2>1, <2>3 DEF OneEach
<1>12. ASSUME NEW i \in p.bitmap.i, Len(U[i].block) > NDIRECT PROVE i # t /\ U[i] = T[i] /\ Ind(T[i]) \in p.bitmap.b
  <2>1. i # t /\ U[i] = T[i]
    BY <1>2, <1>6, <1>12
  <2>2. NDIRECT + 1 \in Kept(T[i])
    BY <1>3, <1>12, <2>1 DEF Kept
  <2> QED BY <1>11, <2>1, <2>2 DEF Ind
<1>13. ASSUME NEW i \in p.bitmap.i, NEW j \in Kept(U[i])
       PROVE  (U[i].block[j] = g /\ i = t) \/ (j \in Kept(T[i]) /\ U[i].block[j] = T[i].block[j])
  BY <1>2, <1>10, <1>13
<1>14. Owned(q, U)
  <2>1. ASSUME NEW i \in p.bitmap.i
        PROVE  OneEach(U[i], q.bitmap.b) /\ (Len(U[i].block) > NDIRECT => q.entries[Ind(U[i])] = <<>>)
    <3>1. CASE i = t
      BY <1>2, <1>6, <3>1
    <3>2. CASE i # t
      <4>1. OneEach(T[i], p.bitmap.b) /\ (Len(T[i].block) > NDIRECT => p.entries[Ind(T[i])] = <<>>)
        BY DEF Owned
      <4>2. OneEach(T[i], q.bitmap.b)
        BY <4>1 DEF OneEach
      <4> QED BY <1>2, <3>2, <4>1, <4>2 DEF SameTables
    <3> QED BY <3>1, <3>2
  <2>2. ASSUME NEW h \in p.bitmap.i, NEW i \in p.bitmap.i, h # i, NEW j \in Kept(U[h]), NEW k \in Kept(U[i])
        PROVE  U[h].block[j] # U[i].block[k]
    <3>1. (U[h].block[j] = g /\ h = t) \/ (j \in Kept(T[h]) /\ U[h].block[j] = T[h].block[j])
      BY <1>13
    <3>2. (U[i].block[k] = g /\ i = t) \/ (k \in Kept(T[i]) /\ U[i].block[k] = T[i].block[k])
      BY <1>13
    <3>3. j \in Kept(T[h]) => T[h].block[j] # g
      BY <1>11
    <3>4. k \in Kept(T[i]) => T[i].block[k] # g
      BY <1>11
    <3>5. j \in Kept(T[h]) /\ k \in Kept(T[i]) => T[h].block[j] # T[i].block[k]
      BY <2>2 DEF Owned
    <3> QED BY <2>2, <3>1, <3>2, <3>3, <3>4, <3>5
  <2>3. \A h, i \in q.bitmap.i : h # i => \A j \in Kept(U[h]), k \in Kept(U[i]) : U[h].block[j] # U[i].block[k]
    BY <2>2
  <2>4. \A i \in q.bitmap.i :
           /\ OneEach(U[i], q.bitmap.b)
           /\ Len(U[i].block) > NDIRECT => q.entries[Ind(U[i])] = <<>>
    BY <2>1
  <2>5. ASSUME NEW i \in p.bitmap.i, i # ROOT, NEW j \in Kept(U[i]) PROVE U[i].block[j] # ROOT_BLOCK
    <3>1. (U[i].block[j] = g /\ i = t) \/ (j \in Kept(T[i]) /\ U[i].block[j] = T[i].block[j])
      BY <1>13
    <3>2. j \in Kept(T[i]) => T[i].block[j] # ROOT_BLOCK
      BY <2>5 DEF Owned
    <3> QED BY <3>1, <3>2
  <2>6. \A i \in q.bitmap.i : i # ROOT => \A j \in Kept(U[i]) : U[i].block[j] # ROOT_BLOCK
    BY <2>5
  <2> QED BY <2>3, <2>4, <2>6, Zenon DEF Owned
<1>15. \A i \in p.bitmap.i : Len(List(q, U[i])) = 0 \/ List(q, U[i]) = List(p, T[i])
  <2> SUFFICES ASSUME NEW i \in p.bitmap.i PROVE Len(List(q, U[i])) = 0 \/ List(q, U[i]) = List(p, T[i])
    OBVIOUS
  <2>1. CASE Len(U[i].block) > NDIRECT
    BY <1>12, <2>1 DEF List, SameTables
  <2>2. CASE ~(Len(U[i].block) > NDIRECT)
    <3>1. List(q, U[i]) = <<>>
      BY <2>2 DEF List
    <3>2. Len(<<>>) = 0
      OBVIOUS
    <3> QED BY <3>1, <3>2
  <2> QED BY <2>1, <2>2
<1>16. ASSUME Apart(p, T) PROVE Apart(q, U)
  <2> SUFFICES ASSUME NEW h \in p.bitmap.i, NEW k \in 1 .. Len(List(q, U[h]))
               PROVE  /\ List(q, U[h])[k] \in q.bitmap.b
                      /\ \A i \in p.bitmap.i : \A j \in Kept(U[i]) : List(q, U[h])[k] # U[i].block[j]
                      /\ \A i \in p.bitmap.i : \A m \in 1 .. Len(List(q, U[i])) :
                            List(q, U[h])[k] = List(q, U[i])[m] => h = i /\ k = m
    BY DEF Apart
  <2>1. List(q, U[h]) = List(p, T[h])
    BY <1>15
  <2>2. List(p, T[h])[k] \in p.bitmap.b /\ List(p, T[h])[k] # g
    BY <1>16, <2>1 DEF Apart
  <2>3. ASSUME NEW i \in p.bitmap.i, NEW j \in Kept(U[i]) PROVE List(p, T[h])[k] # U[i].block[j]
    BY <1>13, <1>16, <2>1, <2>2 DEF Apart
  <2>4. ASSUME NEW i \in p.bitmap.i, NEW m \in 1 .. Len(List(q, U[i])), List(q, U[h])[k] = List(q, U[i])[m]
        PROVE  h = i /\ k = m
    <3>1. List(q, U[i]) = List(p, T[i])
      BY <1>15
    <3> QED BY <1>16, <2>1, <2>4, <3>1 DEF Apart
  <2> QED BY <2>1, <2>2, <2>3, <2>4
<1>17. \A i \in q.bitmap.i : Len(U[i].block) > NDIRECT => Ind(U[i]) # g
  BY <1>12
<1> QED BY <1>14, <1>16, <1>17
(* Only dir, got, at or the inode table differ.                              *)
Moved(p, q) == q \in Process /\ SameBits(p, q) /\ SameTables(p, q) /\ q.ok = p.ok

LEMMA MovedKeeps ==
    ASSUME NEW s, NEW p \in Process, NEW q, Moved(p, q)
    PROVE  /\ Working(s, p) /\ (\A i \in s.bitmap.i : q.inode[i] = p.inode[i]) => Working(s, q)
           /\ Neat(p) => Neat(q)
           /\ \A T : (Owned(p, T) => Owned(q, T)) /\ (Apart(p, T) => Apart(q, T))
<1>1. q \in Process /\ q.bitmap = p.bitmap /\ q.gd = p.gd /\ q.sb = p.sb /\ q.entries = p.entries
      /\ q.words = p.words /\ q.ok = p.ok
  BY DEF Moved, SameBits, SameTables
<1>2. ASSUME Working(s, p), \A i \in s.bitmap.i : q.inode[i] = p.inode[i] PROVE Working(s, q)
  BY <1>1, <1>2 DEF Working, Counted, Packed, NamesLead, ListsFollow, LeftFirst, OneUse
<1>3. Neat(p) => Neat(q)
  BY <1>1 DEF Neat
<1>4. ASSUME NEW T, Owned(p, T) PROVE Owned(q, T)
  BY <1>1, <1>4 DEF Owned
<1>5. \A node : List(q, node) = List(p, node)
  BY <1>1 DEF List
<1>6. ASSUME NEW T, Apart(p, T) PROVE Apart(q, T)
  BY <1>1, <1>5, <1>6 DEF Apart
<1> QED BY <1>2, <1>3, <1>4, <1>6

(* Room for size bytes behind the entry k of block b.                        *)
HasRoom(q, b, k, size) ==
    k \in 1 .. Len(q.entries[b]) /\ q.entries[b][k].rec - Need(q.entries[b][k].name) >= size

(* Where the new entry goes: behind another, or into a block that was free.  *)
Place(q, T, size, tidy) ==
    LET b == q.at[1]
    IN  /\ b \in q.bitmap.b /\ b \in Block
        /\ \A i \in q.bitmap.i : Len(T[i].block) > NDIRECT => Ind(T[i]) # b
        /\ \/ HasRoom(q, b, q.at[2], size)
           \/ q.at[2] = 1 /\ (tidy => q.entries[b] = <<>> /\ q.words[b] = <<>>)

(* The directory may have one more block, and the table T becomes U.         *)
Spotted(s, p, q, U, t, size, tidy) ==
    /\ Linking(s, q, U, t, tidy) /\ U \in [Inode -> Node]
    /\ q.inode = p.inode /\ q.bitmap.i = p.bitmap.i
    /\ q.ok => p.ok /\ Place(q, U, size, tidy) /\ q.dir.links = p.dir.links

LEMMA EmptySpot ==
    ASSUME NEW s \in Process, NEW p, NEW T \in [Inode -> Node], NEW t \in s.bitmap.i, NEW tidy \in BOOLEAN,
           Linking(s, p, T, t, tidy), NEW size
    PROVE  LET q == empty_dir_spot(p, size)
           IN  Spotted(s, p, q, [T EXCEPT ![t] = q.dir], t, size, tidy)
<1> DEFINE q == empty_dir_spot(p, size)
           U == [T EXCEPT ![t] = q.dir]
           blocks == p.dir.block
           j == spot_block(p, size)
           u == reserve(p, "b")
<1>0. p \in Process /\ t \in Inode /\ s.bitmap.i \subseteq p.bitmap.i /\ p.dir \in Node /\ Working(s, p)
  BY DEF Linking, Working, Process, Bits
<1>1. q = IF ~p.ok THEN p
          ELSE IF j \in 1 .. NDIRECT THEN [p EXCEPT !.at = <<blocks[j], dir_block_offset(p, blocks[j], size)>>]
          ELSE IF Len(blocks) >= NDIRECT THEN [p EXCEPT !.ok = FALSE]
          ELSE IF ~u.ok THEN u
          ELSE [u EXCEPT !.dir.block = Append(@, u.got), !.at = <<u.got, 1>>]
  BY SMTT(30), ZenonT(60) DEF empty_dir_spot
<1>2. Len(blocks) \in Nat /\ NDIRECT \in Nat \ {0} /\ blocks \in Seq(Block)
  <2>1. NDIRECT \in Nat \ {0}
    BY Ext2Assumption, Zenon
  <2> QED BY <1>0, <2>1 DEF Node
<1>3. j = 0 \/ (j \in 1 .. Len(blocks) /\ dir_block_offset(p, blocks[j], size) # 0)
  BY SpotIs
<1>4. Working(s, u) /\ (Failed(p, u) \/ BlockTaken(p, u)) /\ (Neat(p) => Neat(u))
  BY <1>0, TakeBlockWorks
<1> HIDE DEF j, u, q
<1>5. q.dir \in Node => U \in [Inode -> Node] /\ U[t] = q.dir
  BY <1>0
<1>6. CASE ~p.ok
  <2>1. q = p
    BY <1>1, <1>6
  <2> QED BY <1>0, <1>5, <1>6, <2>1 DEF Linking, q, Spotted
<1>7. CASE p.ok /\ j \in 1 .. NDIRECT
  <2> DEFINE b == blocks[j]
             k == dir_block_offset(p, b, size)
  <2>1. q = [p EXCEPT !.at = <<b, k>>]
    BY <1>1, <1>7
  <2>2. j \in 1 .. Len(blocks) /\ k # 0
    BY <1>3, <1>7
  <2>3. b \in Block
    BY <1>2, <2>2
  <2>4. k \in 1 .. Len(p.entries[b]) /\ p.entries[b][k].rec - Need(p.entries[b][k].name) >= size
    BY <2>2, OffsetIs
  <2>5. Owned(p, T) /\ T[t] = p.dir
    BY <1>7 DEF Linking
  <2>6. b \in p.bitmap.b
    BY <1>0, <2>2, <2>5 DEF Owned, OneEach
  <2>7. p.entries[b] # <<>>
    <3>1. Len(<<>>) = 0
      OBVIOUS
    <3> HIDE DEF k, b
    <3> QED BY <2>4, <3>1
  <2>8. \A i \in p.bitmap.i : Len(T[i].block) > NDIRECT => Ind(T[i]) # b
    BY <2>5, <2>7 DEF Owned
  <2>9. b \in Int /\ k \in Int
    <3> HIDE DEF b, k
    <3>1. b \in Int
      BY <2>3, Finite
    <3>2. k \in Int
      BY <2>4
    <3> QED BY <3>1, <3>2
  <2> HIDE DEF b, k
  <2>10. q \in Process /\ SameBits(p, q) /\ SameTables(p, q) /\ q.ok = p.ok /\ q.dir = p.dir /\ q.inode = p.inode
         /\ q.at[1] = b /\ q.at[2] = k
    BY <1>0, <2>1, <2>9 DEF Process, SameBits, SameTables
  <2>11. Moved(p, q) /\ U = T
    BY <1>0, <2>5, <2>10 DEF Moved
  <2>12. Linking(s, q, U, t, tidy)
    <3>1. Working(s, q)
      BY <1>0, <2>10, <2>11, MovedKeeps
    <3>2. Owned(q, T) /\ (Neat(p) => Neat(q)) /\ (Apart(p, T) => Apart(q, T))
      BY <1>0, <2>5, <2>11, MovedKeeps
    <3> QED BY <1>7, <2>5, <2>10, <2>11, <3>1, <3>2 DEF Linking
  <2>13. Place(q, U, size, tidy)
    BY <2>3, <2>4, <2>6, <2>8, <2>10, <2>11 DEF Place, HasRoom, SameBits, SameTables
  <2> QED BY <1>0, <1>5, <1>7, <2>10, <2>12, <2>13 DEF q, SameBits, Spotted
<1>8. CASE p.ok /\ ~(j \in 1 .. NDIRECT) /\ Len(blocks) >= NDIRECT
  <2>1. q = [p EXCEPT !.ok = FALSE]
    BY <1>1, <1>8
  <2>2. q \in Process /\ Failed(p, q) /\ q.inode = p.inode /\ q.dir = p.dir
    BY <1>0, <2>1 DEF Process, Failed, SameRest
  <2>3. Working(s, q)
    BY <1>0, <2>2 DEF Working, Failed, SameRest, Counted, Packed, NamesLead, ListsFollow, LeftFirst, OneUse
  <2> QED BY <1>0, <1>5, <2>2, <2>3 DEF Linking, Failed, q, Spotted
<1>9. CASE p.ok /\ ~(j \in 1 .. NDIRECT) /\ ~(Len(blocks) >= NDIRECT) /\ Failed(p, u)
  <2>1. q = u
    BY <1>1, <1>9 DEF Failed
  <2> QED BY <1>0, <1>4, <1>5, <1>9, <2>1 DEF Linking, Failed, SameRest, q, Spotted
<1>10. CASE p.ok /\ ~(j \in 1 .. NDIRECT) /\ ~(Len(blocks) >= NDIRECT) /\ BlockTaken(p, u)
  <2> DEFINE g == u.got
             d == [p.dir EXCEPT !.block = Append(@, g)]
  <2>1. u.ok /\ g \in Block \ p.bitmap.b /\ u.bitmap.b = p.bitmap.b \cup {g} /\ u.bitmap.i = p.bitmap.i
        /\ u.dir = p.dir /\ u.inode = p.inode /\ SameTables(p, u) /\ u \in Process
    BY <1>4, <1>10 DEF BlockTaken, SameRest, SameTables, Working
  <2>2. q = [u EXCEPT !.dir.block = Append(@, g), !.at = <<g, 1>>]
    BY <1>1, <1>10, <2>1
  <2>3. Longer(p.dir, d, g)
    BY <1>0, <2>1, LongerIs
  <2>4. q = [u EXCEPT !.dir = d, !.at = <<g, 1>>]
    BY <2>1, <2>2 DEF Process
  <2>5. g \in Int
    BY <2>1, Finite
  <2> HIDE DEF d, g
  <2>6. q \in Process /\ SameBits(u, q) /\ SameTables(u, q) /\ q.ok = u.ok /\ q.dir = d /\ q.inode = u.inode
        /\ q.at[1] = g /\ q.at[2] = 1
    <3> DEFINE a == <<g, 1>>
    <3>1. a \in Int \X Int /\ a[1] = g /\ a[2] = 1 /\ d \in Node
      BY <2>3, <2>5 DEF Longer
    <3>2. q = [u EXCEPT !.dir = d, !.at = a]
      BY <2>4
    <3> HIDE DEF a
    <3> QED BY <2>1, <3>1, <3>2 DEF Process, SameBits, SameTables
  <2>7. Moved(u, q)
    BY <2>6 DEF Moved
  <2>8. Working(s, q) /\ (Neat(u) => Neat(q))
    BY <1>4, <2>1, <2>6, <2>7, MovedKeeps
  <2>9. Owned(p, T) /\ T[t] = p.dir /\ (tidy => Neat(p) /\ Apart(p, T))
    BY <1>10 DEF Linking
  <2>10. q.bitmap.b = p.bitmap.b \cup {g} /\ q.bitmap.i = p.bitmap.i /\ SameTables(p, q)
    BY <2>1, <2>6 DEF SameBits, SameTables
  <2>11. Owned(q, U) /\ (Apart(p, T) => Apart(q, U)) /\ \A i \in q.bitmap.i : Len(U[i].block) > NDIRECT => Ind(U[i]) # g
    <3>1. t \in p.bitmap.i /\ Len(T[t].block) < NDIRECT /\ Longer(T[t], d, g)
      BY <1>0, <1>2, <1>10, <2>3, <2>9
    <3>2. U = [T EXCEPT ![t] = d]
      BY <2>6
    <3>3. /\ p \in Process /\ q \in Process /\ g \in Block \ p.bitmap.b /\ Owned(p, T)
          /\ q.bitmap.b = p.bitmap.b \cup {g} /\ q.bitmap.i = p.bitmap.i /\ SameTables(p, q)
      BY <1>0, <2>1, <2>6, <2>9, <2>10
    <3>4. ROOT_BLOCK \in p.bitmap.b
      BY <1>10 DEF Linking, Working, Packed
    <3> HIDE DEF U
    <3> QED BY <3>1, <3>2, <3>3, <3>4, OwnedLonger, Zenon
  <2>12. tidy => q.entries[g] = <<>> /\ q.words[g] = <<>>
    BY <2>1, <2>9, <2>10 DEF Neat, SameTables
  <2>13. Place(q, U, size, tidy)
    BY <2>1, <2>6, <2>10, <2>11, <2>12 DEF Place
  <2>14. q.dir \in Node /\ q.dir.links = p.dir.links
    BY <2>3, <2>6 DEF Longer
  <2>15. Linking(s, q, U, t, tidy)
    BY <1>4, <1>5, <2>8, <2>9, <2>11, <2>14 DEF Linking
  <2> QED BY <1>5, <1>10, <2>1, <2>6, <2>10, <2>13, <2>14, <2>15 DEF q, Spotted
<1> QED BY <1>4, <1>6, <1>7, <1>8, <1>9, <1>10
-----------------------------------------------------------------------------
(* The new entry.                                                            *)

LEMMA AlikeLeads ==
    ASSUME NEW d, NEW e, NEW L, Alike(d, e), Leads(e, L) PROVE Leads(d, L)
BY DEF Alike, Leads

LEMMA OneEntry ==
    ASSUME NEW e \in Entry
    PROVE  <<e>> \in Seq(Entry) /\ Len(<<e>>) = 1 /\ <<e>>[1] = e /\ <<e>> # <<>> /\ Behind(<<e>>) = e.rec
<1> DEFINE s == <<e>>
           f == [k \in 0 .. 1 |-> IF k = 0 THEN 0 ELSE e.rec]
<1>1. s \in Seq(Entry) /\ Len(s) = 1 /\ s[1] = e /\ s # <<>>
  OBVIOUS
<1>2. e.rec \in Int
  BY DEF Entry
<1>3. f \in [0 .. 1 -> Int] /\ f[0] = 0 /\ f[1] = e.rec
  BY <1>2
<1> HIDE DEF f, s
<1>4. \A k \in 1 .. 1 : f[k] = f[k - 1] + s[k].rec
  BY <1>1, <1>2, <1>3
<1>5. Sums(f, s)
  BY <1>1, <1>3, <1>4 DEF Sums
<1>6. Behind(s) = f[1]
  BY <1>1, <1>5, BehindIs
<1> QED BY <1>1, <1>3, <1>6 DEF s

(* One block gets entries, and holds no numbers any more.                    *)
Filled(q, r, b, v) ==
    /\ r \in Process /\ r.bitmap = q.bitmap /\ r.gd = q.gd /\ r.sb = q.sb /\ r.ok = q.ok
    /\ r.inode = q.inode /\ r.dir = q.dir /\ r.got = q.got /\ r.at = q.at
    /\ \A x \in Block : /\ r.entries[x] = IF x = b THEN v ELSE q.entries[x]
                        /\ r.words[x] = IF x = b THEN <<>> ELSE q.words[x]

LEMMA FilledIs ==
    ASSUME NEW q \in Process, NEW b \in Block, NEW v \in Seq(Entry), NEW r,
           r = [q EXCEPT !.dirs = @ + 1, !.words[b] = <<>>, !.entries[b] = v]
    PROVE  Filled(q, r, b, v)
<1> DEFINE w == [q.words EXCEPT ![b] = <<>>]
           e == [q.entries EXCEPT ![b] = v]
<1>1. q.words \in [Block -> Seq(Block)] /\ q.entries \in [Block -> Seq(Entry)]
  BY DEF Process
<1>2. \A x \in Block : /\ e[x] = IF x = b THEN v ELSE q.entries[x]
                       /\ w[x] = IF x = b THEN <<>> ELSE q.words[x]
  BY <1>1
<1>3. w \in [Block -> Seq(Block)] /\ e \in [Block -> Seq(Entry)]
  BY <1>1
<1> DEFINE m == q.dirs + 1
<1>4. r = [q EXCEPT !.dirs = m, !.words = w, !.entries = e] /\ m \in Nat
  BY DEF Process
<1> HIDE DEF w, e, m
<1>5. r \in Process /\ r.bitmap = q.bitmap /\ r.gd = q.gd /\ r.sb = q.sb /\ r.ok = q.ok
      /\ r.inode = q.inode /\ r.dir = q.dir /\ r.got = q.got /\ r.at = q.at /\ r.entries = e /\ r.words = w
  BY <1>3, <1>4 DEF Process
<1> QED BY <1>2, <1>5 DEF Filled

LEMMA WrittenIs ==
    ASSUME NEW old, NEW k, NEW name, NEW type, NEW n
    PROVE  LET new(rec) == [name |-> name, inode |-> n, type |-> type, rec |-> rec]
           IN  with_entry(old, k, name, type, n)
                  = IF old = <<>> THEN <<new(BLOCK_SIZE)>>
                    ELSE Split(old, k, new(old[k].rec - Need(old[k].name)))
BY DEF with_entry, Split

(* The entries that the new one joins.                                       *)
OldEntries(q, name) == IF name = "." THEN <<>> ELSE first_entries(q, q.at[1])

LEMMA NewEntryIs ==
    ASSUME NEW q \in Process, q.ok, NEW name, NEW type, NEW n, NEW old, old = OldEntries(q, name),
           NEW b \in Block, b = q.at[1], NEW v, v = with_entry(old, q.at[2], name, type, n), v \in Seq(Entry)
    PROVE  Filled(q, new_dir_entry(q, name, type, n), b, v)
<1>1. new_dir_entry(q, name, type, n) = [q EXCEPT !.dirs = @ + 1, !.words[b] = <<>>, !.entries[b] = v]
  BY Zenon DEF new_dir_entry, OldEntries
<1> QED BY <1>1, FilledIs
(* All that holds between commands, if T were the inode table.               *)
Done(p, T, tidy) ==
    /\ p \in Process /\ Counted(p) /\ Packed(p) /\ NamesLead(p, p.bitmap.i)
    /\ ListsFollow(p) /\ LeftFirst(p, p.bitmap.b) /\ OneUse(p) /\ Owned(p, T)
    /\ tidy => Neat(p) /\ Apart(p, T)

LEMMA OldEntriesAre ==
    ASSUME NEW s \in Process, NEW q, NEW T, NEW t, NEW tidy \in BOOLEAN, Linking(s, q, T, t, tidy), q.ok,
           NEW name \in Name, Place(q, T, Need(name), tidy), NEW old, old = OldEntries(q, name)
    PROVE  /\ old \in Seq(Entry) /\ \A j \in 1 .. Len(old) : Leads(old[j], q.bitmap.i)
           /\ old # <<>> => q.at[2] \in 1 .. Len(old)
           /\ tidy /\ old # <<>> => /\ Fills(old)
                                    /\ old[q.at[2]].rec - Need(old[q.at[2]].name) >= Need(name)
<1> DEFINE b == q.at[1]
           k == q.at[2]
<1>1. Working(s, q) /\ q \in Process /\ s.bitmap.i \subseteq q.bitmap.i /\ b \in Block
  BY DEF Linking, Working, Place
<1>2. q.entries[b] \in Seq(Entry) /\ q.words[b] \in Seq(Block)
  BY <1>1 DEF Process
<1>3. name # "."
  <2>1. {"", ".", ".."} \cap Name = {}
    BY Ext2Assumption, Zenon
  <2> QED BY <2>1
<1>4. old = first_entries(q, b)
  BY <1>3 DEF OldEntries
<1>5. \A j \in 1 .. Len(q.entries[b]) : Leads(q.entries[b][j], q.bitmap.i)
  BY <1>1 DEF Working, NamesLead, Leads
<1>6. tidy /\ q.entries[b] # <<>> => Fills(q.entries[b])
  BY <1>1 DEF Linking, Neat
<1>7. CASE HasRoom(q, b, k, Need(name))
  <2>1. q.entries[b] # <<>>
    <3>1. Len(<<>>) = 0
      OBVIOUS
    <3> QED BY <1>7, <3>1 DEF HasRoom
  <2>2. q.words[b] = <<>>
    BY <1>1, <2>1 DEF Working, OneUse
  <2>3. old = q.entries[b]
    <3>1. Len(q.words[b]) = 0
      BY <2>2
    <3> QED BY <1>4, <3>1 DEF first_entries
  <2> QED BY <1>2, <1>5, <1>6, <1>7, <2>3 DEF HasRoom
<1>8. CASE k = 1 /\ (tidy => q.entries[b] = <<>> /\ q.words[b] = <<>>)
  <2>1. CASE Len(q.words[b]) < 2
    <3>1. old = q.entries[b]
      BY <1>4, <2>1 DEF first_entries
    <3>2. old # <<>> => 1 \in 1 .. Len(old)
      <4>1. Len(old) \in Nat /\ (old # <<>> => Len(old) # 0)
        BY <1>2, <3>1, EmptySeq
      <4> QED BY <4>1
    <3> QED BY <1>2, <1>5, <1>8, <3>1, <3>2
  <2>2. CASE ~(Len(q.words[b]) < 2)
    <3> DEFINE e == [name |-> "", inode |-> q.words[b][1], type |-> "none", rec |-> q.words[b][2]]
    <3>1. old = <<e>>
      BY <1>4, <2>2 DEF first_entries
    <3>2. Len(q.words[b]) \in Nat
      BY <1>2
    <3>3. 1 \in 1 .. Len(q.words[b]) /\ 2 \in 1 .. Len(q.words[b])
      BY <2>2, <3>2
    <3>4. q.words[b][1] \in Block /\ q.words[b][2] \in Int
      <4>1. q.words[b][1] \in Block /\ q.words[b][2] \in Block
        BY <1>2, <3>3, ElementOfSeq
      <4>2. Block \subseteq Int
        BY Finite
      <4> QED BY <4>1, <4>2, Zenon
    <3>5. "" \in Names /\ "none" \in Kinds
      BY Zenon DEF Names, Kinds
    <3>6. e \in Entry
      BY <3>4, <3>5 DEF Entry
    <3>7. e.name = ""
      OBVIOUS
    <3> HIDE DEF e
    <3>8. {"", ".", ".."} \cap Name = {}
      BY Ext2Assumption, Zenon
    <3>9. Leads(e, q.bitmap.i)
      BY <3>7, <3>8 DEF Leads
    <3>10. ~tidy
      <4>1. Len(<<>>) = 0
        OBVIOUS
      <4> QED BY <1>8, <2>2, <4>1
    <3>11. old \in Seq(Entry) /\ Len(old) = 1 /\ old[1] = e
      BY <3>1, <3>6, OneEntry
    <3> QED BY <1>8, <3>9, <3>10, <3>11
  <2> QED BY <2>1, <2>2
<1> QED BY <1>7, <1>8 DEF Place

LEMMA EntryWritten ==
    ASSUME NEW old \in Seq(Entry), NEW L, \A j \in 1 .. Len(old) : Leads(old[j], L),
           NEW k, old # <<>> => k \in 1 .. Len(old),
           NEW name \in Name, NEW type \in Kinds, NEW n \in L, L \subseteq Inode, type # "dir" => n # ROOT
    PROVE  LET v == with_entry(old, k, name, type, n)
           IN  /\ v \in Seq(Entry) /\ v # <<>> /\ \A j \in 1 .. Len(v) : Leads(v[j], L)
               /\ (old # <<>> => Fills(old) /\ old[k].rec - Need(old[k].name) >= Need(name)) => Fills(v)
<1> DEFINE new(rec) == [name |-> name, inode |-> n, type |-> type, rec |-> rec]
           v == with_entry(old, k, name, type, n)
<1>1. \A x \in Int : new(x) \in Entry /\ new(x).rec = x /\ new(x).name = name /\ Leads(new(x), L)
  <2>1. name \in Names /\ n \in Inode \cup Block \cup {0}
    BY DEF Names
  <2> QED BY <2>1 DEF Entry, Leads
<1>2. v = IF old = <<>> THEN <<new(BLOCK_SIZE)>> ELSE Split(old, k, new(old[k].rec - Need(old[k].name)))
  BY WrittenIs
<1> HIDE DEF v
<1>3. CASE old = <<>>
  <2> DEFINE e == new(BLOCK_SIZE)
  <2>1. BLOCK_SIZE \in Int
    <3>1. BLOCK_SIZE \in Nat
      BY Ext2Assumption, Zenon
    <3> QED BY <3>1
  <2>2. e \in Entry /\ e.rec = BLOCK_SIZE /\ e.name = name /\ Leads(e, L)
    BY <1>1, <2>1
  <2>3. v = <<e>>
    BY <1>2, <1>3
  <2> HIDE DEF e, new
  <2>4. v \in Seq(Entry) /\ Len(v) = 1 /\ v[1] = e /\ v # <<>> /\ Behind(v) = BLOCK_SIZE
    BY <2>2, <2>3, OneEntry
  <2>5. BLOCK_SIZE >= Need(name)
    BY NeedIs DEF Names
  <2>6. \A j \in 1 .. Len(v) : v[j] = e
    BY <2>4
  <2>7. Fills(v)
    BY <2>2, <2>4, <2>5, <2>6 DEF Fills
  <2> QED BY <2>2, <2>4, <2>6, <2>7 DEF v
<1>4. CASE old # <<>>
  <2> DEFINE x == old[k].rec - Need(old[k].name)
             e == new(x)
  <2>1. k \in 1 .. Len(old) /\ x \in Int
    <3>1. k \in 1 .. Len(old)
      BY <1>4
    <3>2. old[k].rec \in Int /\ old[k].name \in Names
      BY <3>1, EntryIs
    <3>3. Need(old[k].name) \in Nat
      BY <3>2, NeedIs
    <3> QED BY <3>1, <3>2, <3>3
  <2>2. v = Split(old, k, e)
    BY <1>2, <1>4
  <2>3. e \in Entry /\ e.rec = x /\ e.name = name /\ Leads(e, L)
    BY <1>1, <2>1
  <2> HIDE DEF e, new
  <2>4. /\ v \in Seq(Entry) /\ v # <<>>
        /\ \A j \in 1 .. Len(v) : v[j] = e \/ \E m \in 1 .. Len(old) : Alike(v[j], old[m])
        /\ Fills(old) /\ e.rec >= Need(e.name) => Fills(v)
    BY <2>1, <2>2, <2>3, SplitIs
  <2>5. \A j \in 1 .. Len(v) : Leads(v[j], L)
    BY <2>3, <2>4, AlikeLeads
  <2> QED BY <1>4, <2>3, <2>4, <2>5 DEF v
<1> QED BY <1>3, <1>4
Entered(q, r, T, tidy) ==
    Done(r, T, tidy) /\ r.ok /\ r.inode = q.inode /\ r.dir = q.dir /\ r.bitmap = q.bitmap /\ r.gd = q.gd

LEMMA NewEntry ==
    ASSUME NEW s \in Process, NEW q, NEW T \in [Inode -> Node], NEW t, NEW tidy \in BOOLEAN,
           Linking(s, q, T, t, tidy), q.ok, NEW name \in Name, Place(q, T, Need(name), tidy),
           NEW type \in Kinds, NEW n \in q.bitmap.i, type # "dir" => n # ROOT
    PROVE  Entered(q, new_dir_entry(q, name, type, n), T, tidy)
<1> DEFINE r == new_dir_entry(q, name, type, n)
           b == q.at[1]
           old == OldEntries(q, name)
           v == with_entry(old, q.at[2], name, type, n)
<1>1. Working(s, q) /\ q \in Process /\ s.bitmap.i \subseteq q.bitmap.i /\ s.bitmap.b \subseteq q.bitmap.b
      /\ Owned(q, T) /\ (tidy => Neat(q) /\ Apart(q, T)) /\ q.bitmap.i \subseteq Inode
  BY DEF Linking, Working, Process, Bits
<1>2. /\ b \in Block /\ b \in q.bitmap.b
      /\ \A i \in q.bitmap.i : Len(T[i].block) > NDIRECT => Ind(T[i]) # b
  BY DEF Place
<1> HIDE DEF r, old
<1>3. /\ old \in Seq(Entry) /\ \A j \in 1 .. Len(old) : Leads(old[j], q.bitmap.i)
      /\ old # <<>> => q.at[2] \in 1 .. Len(old)
      /\ tidy /\ old # <<>> => /\ Fills(old)
                               /\ old[q.at[2]].rec - Need(old[q.at[2]].name) >= Need(name)
  BY OldEntriesAre DEF old
<1>4. /\ v \in Seq(Entry) /\ v # <<>> /\ \A j \in 1 .. Len(v) : Leads(v[j], q.bitmap.i)
      /\ tidy => Fills(v)
  BY <1>1, <1>3, EntryWritten
<1>5. Filled(q, r, b, v)
  BY <1>1, <1>2, <1>4, NewEntryIs DEF r, old
<1> HIDE DEF v, b
<1>6. \A x \in Block : /\ r.entries[x] = IF x = b THEN v ELSE q.entries[x]
                       /\ r.words[x] = IF x = b THEN <<>> ELSE q.words[x]
  BY <1>5 DEF Filled
<1>7. r \in Process /\ r.bitmap = q.bitmap /\ r.gd = q.gd /\ r.sb = q.sb /\ r.ok = q.ok
      /\ r.inode = q.inode /\ r.dir = q.dir
  BY <1>5 DEF Filled
<1>8. Counted(r) /\ Packed(r)
  BY <1>1, <1>7 DEF Working, Counted, Packed
<1>9. NamesLead(r, r.bitmap.i)
  <2>1. \A x \in Block : \A k \in 1 .. Len(q.entries[x]) : Leads(q.entries[x][k], q.bitmap.i)
    BY <1>1 DEF Working, NamesLead, Leads
  <2> QED BY <1>4, <1>6, <1>7, <2>1 DEF NamesLead
<1>10. ListsFollow(r) /\ OneUse(r)
  BY <1>1, <1>6 DEF Working, ListsFollow, OneUse
<1>11. LeftFirst(r, r.bitmap.b)
  <2> SUFFICES ASSUME NEW x \in Block, x - 1 \in Block \ q.bitmap.b PROVE r.entries[x] = <<>>
    BY <1>7 DEF LeftFirst
  <2>1. x # b
    <3>1. b \in Nat
      BY <1>2, Finite
    <3>2. b - 1 < b
      BY <3>1
    <3> QED BY <1>1, <1>2, <3>2 DEF Working, Packed
  <2>2. q.entries[x] = <<>>
    BY <1>1 DEF Working, LeftFirst
  <2> QED BY <1>6, <2>1, <2>2
<1>12. \A i \in q.bitmap.i : Len(T[i].block) > NDIRECT =>
          Ind(T[i]) \in Block /\ r.entries[Ind(T[i])] = q.entries[Ind(T[i])] /\ r.words[Ind(T[i])] = q.words[Ind(T[i])]
  <2> SUFFICES ASSUME NEW i \in q.bitmap.i, Len(T[i].block) > NDIRECT
               PROVE  Ind(T[i]) \in Block /\ Ind(T[i]) # b
    BY <1>6
  <2>1. OneEach(T[i], q.bitmap.b)
    BY <1>1 DEF Owned
  <2>2. Ind(T[i]) \in q.bitmap.b
    <3>1. NDIRECT \in Nat \ {0}
      BY Ext2Assumption, Zenon
    <3>2. Len(T[i].block) \in Nat
      BY <1>1 DEF Node
    <3>3. NDIRECT + 1 \in 1 .. Len(T[i].block)
      BY <3>1, <3>2
    <3> QED BY <2>1, <3>3 DEF OneEach, Ind
  <2>3. q.bitmap.b \subseteq Block
    BY <1>1 DEF Process, Bits
  <2> QED BY <1>2, <2>2, <2>3
<1>13. Owned(r, T)
  BY <1>1, <1>7, <1>12 DEF Owned
<1>14. ASSUME tidy PROVE Neat(r) /\ Apart(r, T)
  <2>1. Neat(r)
    BY <1>1, <1>2, <1>4, <1>6, <1>7, <1>14 DEF Neat
  <2>2. \A i \in q.bitmap.i : List(r, T[i]) = List(q, T[i])
    BY <1>12 DEF List
  <2>3. Apart(r, T)
    BY <1>1, <1>7, <1>14, <2>2 DEF Apart
  <2> QED BY <2>1, <2>3
<1> QED BY <1>7, <1>8, <1>9, <1>10, <1>11, <1>13, <1>14 DEF Done, Entered, r
-----------------------------------------------------------------------------
(* From the entry to the end of the command.                                 *)

LEMMA WriteInode ==
    ASSUME NEW p \in Process, NEW n, p.ok => n \in Inode, NEW node, p.ok => node \in Node
    PROVE  LET q == write_inode(p, n, node)
           IN  /\ Moved(p, q) /\ q.dir = p.dir /\ q.got = p.got
               /\ q.inode = IF p.ok THEN [p.inode EXCEPT ![n] = node] ELSE p.inode
<1>1. CASE p.ok
  <2> DEFINE f == [p.inode EXCEPT ![n] = node]
             q == [p EXCEPT !.inode = f]
  <2>1. write_inode(p, n, node) = q
    BY <1>1 DEF write_inode, Process
  <2>2. f \in [Inode -> Node]
    BY <1>1 DEF Process
  <2> HIDE DEF f
  <2>3. q \in Process /\ SameBits(p, q) /\ SameTables(p, q) /\ q.ok = p.ok /\ q.dir = p.dir /\ q.got = p.got /\ q.inode = f
    BY <2>2 DEF Process, SameBits, SameTables
  <2> HIDE DEF q
  <2> QED BY <1>1, <2>1, <2>3 DEF Moved, f
<1>2. CASE ~p.ok
  BY <1>2 DEF write_inode, Moved, SameBits, SameTables
<1> QED BY <1>1, <1>2

(* q is p with an inode written, unless p has ended before.                  *)
Written(p, q, n, node) ==
    /\ Moved(p, q) /\ q.dir = p.dir /\ q.got = p.got
    /\ q.inode = IF p.ok THEN [p.inode EXCEPT ![n] = node] ELSE p.inode

LEMMA WriteInodeIs ==
    ASSUME NEW p \in Process, NEW n, p.ok => n \in Inode, NEW node, p.ok => node \in Node
    PROVE  Written(p, write_inode(p, n, node), n, node)
<1>1. LET q == write_inode(p, n, node)
      IN  /\ Moved(p, q) /\ q.dir = p.dir /\ q.got = p.got
          /\ q.inode = IF p.ok THEN [p.inode EXCEPT ![n] = node] ELSE p.inode
  BY WriteInode
<1> QED BY <1>1 DEF Written

LEMMA DoneMoved ==
    ASSUME NEW p, NEW q, NEW T, NEW tidy \in BOOLEAN, Done(p, T, tidy), Moved(p, q)
    PROVE  Done(q, T, tidy)
<1>1. p \in Process
  BY DEF Done
<1>2. q \in Process /\ q.bitmap = p.bitmap /\ q.gd = p.gd /\ q.entries = p.entries /\ q.words = p.words
  BY DEF Moved, SameBits, SameTables
<1>3. (Owned(p, T) => Owned(q, T)) /\ (Neat(p) => Neat(q)) /\ (Apart(p, T) => Apart(q, T))
  BY <1>1, MovedKeeps
<1> QED BY <1>2, <1>3 DEF Done, Counted, Packed, NamesLead, ListsFollow, LeftFirst, OneUse

(* Only the blocks of the inodes in use matter.                              *)
LEMMA DoneSame ==
    ASSUME NEW p, NEW T, NEW V, NEW tidy \in BOOLEAN, Done(p, T, tidy),
           \A i \in p.bitmap.i : V[i].block = T[i].block
    PROVE  Done(p, V, tidy)
<1>1. \A i \in p.bitmap.i : /\ Kept(V[i]) = Kept(T[i]) /\ Ind(V[i]) = Ind(T[i])
                            /\ List(p, V[i]) = List(p, T[i])
  BY DEF Kept, Ind, List
<1>2. \A i \in p.bitmap.i : OneEach(T[i], p.bitmap.b) => OneEach(V[i], p.bitmap.b)
  BY <1>1 DEF OneEach
<1>3. Owned(p, T) => Owned(p, V)
  BY <1>1, <1>2 DEF Owned
<1>4. Apart(p, T) => Apart(p, V)
  BY <1>1 DEF Apart
<1> QED BY <1>3, <1>4 DEF Done

(* What the new entry and its directory come to; f is the command so far.    *)
Linked(s, p, f, T, t, tidy) ==
    /\ ~f.ok => Working(s, f)
    /\ f.ok => /\ p.ok /\ Done(f, [T EXCEPT ![t] = f.dir], tidy) /\ f.dir \in Node
               /\ f.inode = p.inode /\ f.bitmap.i = p.bitmap.i /\ s.bitmap.b \subseteq f.bitmap.b
               /\ f.gd.b <= s.gd.b /\ f.gd.i <= s.gd.i /\ f.dir.links = p.dir.links

LEMMA Link ==
    ASSUME NEW s \in Process, NEW p, NEW T \in [Inode -> Node], NEW t \in s.bitmap.i, NEW tidy \in BOOLEAN,
           Linking(s, p, T, t, tidy), NEW name \in Name, NEW type \in Kinds,
           NEW n, p.ok => n \in p.bitmap.i /\ (type # "dir" => n # ROOT)
    PROVE  Linked(s, p, new_dir_entry(empty_dir_spot(p, Need(name)), name, type, n), T, t, tidy)
<1> DEFINE q == empty_dir_spot(p, Need(name))
           r == new_dir_entry(q, name, type, n)
           U == [T EXCEPT ![t] = q.dir]
<1>0. Spotted(s, p, q, U, t, Need(name), tidy)
  BY EmptySpot
<1> HIDE DEF q, U
<1>1. /\ Linking(s, q, U, t, tidy) /\ U \in [Inode -> Node]
      /\ q.inode = p.inode /\ q.bitmap.i = p.bitmap.i
      /\ q.ok => p.ok /\ Place(q, U, Need(name), tidy) /\ q.dir.links = p.dir.links
  BY <1>0 DEF Spotted
<1>2. Working(s, q) /\ q \in Process
  BY <1>1 DEF Linking, Working
<1>3. CASE ~q.ok
  <2>1. r = q
    BY <1>3, ZenonT(60) DEF new_dir_entry
  <2> QED BY <1>2, <1>3, <2>1 DEF Linked, q
<1>4. CASE q.ok
  <2>1. n \in q.bitmap.i /\ (type # "dir" => n # ROOT)
    BY <1>1, <1>4
  <2>2. Done(r, U, tidy) /\ r.ok /\ r.inode = q.inode /\ r.dir = q.dir /\ r.bitmap = q.bitmap /\ r.gd = q.gd
    <3>1. Linking(s, q, U, t, tidy) /\ U \in [Inode -> Node] /\ Place(q, U, Need(name), tidy)
      BY <1>1, <1>4
    <3>2. n \in q.bitmap.i /\ (type # "dir" => n # ROOT)
      BY <2>1
    <3> QED BY <1>4, <3>1, <3>2, NewEntry DEF Entered
  <2> HIDE DEF r
  <2>3. q.dir \in Node
    BY <1>2 DEF Process
  <2>4. s.bitmap.b \subseteq q.bitmap.b /\ q.gd.b <= s.gd.b /\ q.gd.i <= s.gd.i
    BY <1>2 DEF Working
  <2>5. Linked(s, p, r, T, t, tidy)
    BY <1>1, <1>4, <2>2, <2>3, <2>4 DEF Linked, U
  <2> QED BY <2>5 DEF r, q
<1> QED BY <1>3, <1>4
(* A command that began with s ends with f.                                  *)
Outcome(s, f, tidy) ==
    /\ f \in Process
    /\ ~f.ok => Working(s, f)
    /\ f.ok => /\ Done(f, f.inode, tidy) /\ s.bitmap.b \subseteq f.bitmap.b /\ s.bitmap.i \subseteq f.bitmap.i
               /\ f.gd.b <= s.gd.b + Gain /\ f.gd.i <= s.gd.i + Gain

LEMMA WorkingStart ==
    ASSUME NEW s, NEW tidy \in BOOLEAN, Done(s, s.inode, tidy), NEW node \in Node
    PROVE  LET p == [s EXCEPT !.dir = node]
           IN  /\ p \in Process /\ Working(s, p) /\ p.dir = node /\ p.inode = s.inode /\ p.bitmap = s.bitmap
               /\ Moved(s, p) /\ p.ok = s.ok
<1> DEFINE p == [s EXCEPT !.dir = node]
<1>1. s \in Process
  BY DEF Done
<1>2. p \in Process /\ SameBits(s, p) /\ SameTables(s, p) /\ p.dir = node /\ p.inode = s.inode /\ p.ok = s.ok
  BY <1>1 DEF Process, SameBits, SameTables
<1> HIDE DEF p
<1>3. s.gd.b <= s.gd.b /\ s.gd.i <= s.gd.i
  BY <1>1 DEF Process, Left
<1>4. Working(s, s)
  BY <1>1, <1>3 DEF Done, Working
<1>5. Moved(s, p)
  BY <1>2 DEF Moved
<1>6. Working(s, p)
  BY <1>1, <1>2, <1>4, <1>5, MovedKeeps
<1> QED BY <1>2, <1>5, <1>6 DEF SameBits, p

(* An inode taken for blocks that were free.                                 *)
LEMMA OwnedNew ==
    ASSUME NEW s \in Process, NEW tidy \in BOOLEAN, Done(s, s.inode, tidy), NEW p \in Process, Working(s, p),
           NEW T \in [Inode -> Node], \A i \in s.bitmap.i : T[i] = s.inode[i],
           NEW n \in Inode \ s.bitmap.i, p.bitmap.i = s.bitmap.i \cup {n},
           OneEach(T[n], p.bitmap.b \ s.bitmap.b),
           Len(T[n].block) > NDIRECT => p.entries[Ind(T[n])] = <<>>,
           tidy => ListedOnce(p, T[n], p.bitmap.b \ s.bitmap.b)
    PROVE  Owned(p, T) /\ (tidy => Apart(p, T))
<1> DEFINE S == s.bitmap.b
           R == p.bitmap.b \ S
<1>1. /\ S \subseteq p.bitmap.b /\ s.bitmap.i \subseteq Inode /\ T[n] \in Node /\ NDIRECT \in Nat \ {0}
      /\ \A b \in S : p.entries[b] = s.entries[b] /\ p.words[b] = s.words[b]
  <2>1. NDIRECT \in Nat \ {0}
    BY Ext2Assumption, Zenon
  <2> QED BY <2>1 DEF Working, Process, Bits
<1>2. Owned(s, s.inode) /\ (tidy => Apart(s, s.inode))
  BY DEF Done
<1>3. \A i \in s.bitmap.i : OneEach(T[i], S) /\ (Len(T[i].block) > NDIRECT => s.entries[Ind(T[i])] = <<>>)
  BY <1>2 DEF Owned
<1>4. OneEach(T[n], R)
  OBVIOUS
<1> HIDE DEF S, R
<1>5. S \subseteq p.bitmap.b /\ R \subseteq p.bitmap.b /\ S \cap R = {}
  BY <1>1 DEF R
(* Kept places and the indirect block are places of the node.                *)
<1>6. ASSUME NEW x \in Node, NEW B, OneEach(x, B)
      PROVE  (\A j \in Kept(x) : x.block[j] \in B) /\ (Len(x.block) > NDIRECT => Ind(x) \in B)
  <2>1. Len(x.block) \in Nat
    BY DEF Node
  <2>2. Kept(x) \subseteq 1 .. Len(x.block) /\ (Len(x.block) > NDIRECT => NDIRECT + 1 \in 1 .. Len(x.block))
    BY <1>1, <2>1 DEF Kept
  <2> QED BY <1>6, <2>2 DEF OneEach, Ind
<1>7. \A i \in s.bitmap.i : (\A j \in Kept(T[i]) : T[i].block[j] \in S) /\ (Len(T[i].block) > NDIRECT => Ind(T[i]) \in S)
  BY <1>1, <1>3, <1>6
<1>8. (\A j \in Kept(T[n]) : T[n].block[j] \in R) /\ (Len(T[n].block) > NDIRECT => Ind(T[n]) \in R)
  BY <1>1, <1>4, <1>6
<1>9. Owned(p, T)
  <2>1. ASSUME NEW i \in p.bitmap.i
        PROVE  /\ OneEach(T[i], p.bitmap.b)
               /\ Len(T[i].block) > NDIRECT => p.entries[Ind(T[i])] = <<>>
    <3>1. CASE i = n
      BY <1>4, <1>5, <3>1 DEF OneEach
    <3>2. CASE i \in s.bitmap.i
      <4>1. OneEach(T[i], p.bitmap.b)
        BY <1>3, <1>5, <3>2 DEF OneEach
      <4>2. ASSUME Len(T[i].block) > NDIRECT PROVE p.entries[Ind(T[i])] = <<>>
        BY <1>1, <1>3, <1>7, <3>2, <4>2 DEF S
      <4> QED BY <4>1, <4>2
    <3> QED BY <3>1, <3>2
  <2>2. ASSUME NEW h \in p.bitmap.i, NEW i \in p.bitmap.i, h # i, NEW j \in Kept(T[h]), NEW k \in Kept(T[i])
        PROVE  T[h].block[j] # T[i].block[k]
    <3>1. CASE h \in s.bitmap.i /\ i \in s.bitmap.i
      BY <1>2, <2>2, <3>1 DEF Owned
    <3>2. CASE h = n /\ i \in s.bitmap.i
      BY <1>5, <1>7, <1>8, <3>2
    <3>3. CASE h \in s.bitmap.i /\ i = n
      BY <1>5, <1>7, <1>8, <3>3
    <3> QED BY <2>2, <3>1, <3>2, <3>3
  <2>3. ASSUME NEW i \in p.bitmap.i, i # ROOT, NEW j \in Kept(T[i]) PROVE T[i].block[j] # ROOT_BLOCK
    <3>1. CASE i = n
      <4>1. ROOT_BLOCK \in S
        BY DEF Done, Packed, S
      <4> QED BY <1>5, <1>8, <3>1, <4>1
    <3>2. CASE i \in s.bitmap.i
      BY <1>2, <2>3, <3>2 DEF Owned
    <3> QED BY <3>1, <3>2
  <2> QED BY <2>1, <2>2, <2>3, Zenon DEF Owned
<1>10. ASSUME tidy PROVE Apart(p, T)
  <2>1. \A i \in s.bitmap.i : List(p, T[i]) = List(s, s.inode[i])
    <3> SUFFICES ASSUME NEW i \in s.bitmap.i PROVE List(p, T[i]) = List(s, s.inode[i])
      OBVIOUS
    <3>1. Len(T[i].block) > NDIRECT => p.words[Ind(T[i])] = s.words[Ind(T[i])]
      BY <1>1, <1>7 DEF S
    <3> QED BY <3>1 DEF List
  <2>2. \A i \in s.bitmap.i : \A k \in 1 .. Len(List(p, T[i])) :
           /\ List(p, T[i])[k] \in S
           /\ \A h \in s.bitmap.i : \A j \in Kept(T[h]) : List(p, T[i])[k] # T[h].block[j]
           /\ \A h \in s.bitmap.i : \A m \in 1 .. Len(List(p, T[h])) :
                 List(p, T[i])[k] = List(p, T[h])[m] => i = h /\ k = m
    BY <1>2, <1>10, <2>1 DEF Apart, S
  <2>3. \A k \in 1 .. Len(List(p, T[n])) :
           /\ List(p, T[n])[k] \in R
           /\ \A j \in Kept(T[n]) : List(p, T[n])[k] # T[n].block[j]
           /\ \A m \in 1 .. Len(List(p, T[n])) : List(p, T[n])[k] = List(p, T[n])[m] => k = m
    <3>1. CASE Len(T[n].block) > NDIRECT
      BY <1>10, <3>1 DEF ListedOnce, List, R, S
    <3>2. CASE ~(Len(T[n].block) > NDIRECT)
      <4>1. List(p, T[n]) = <<>> /\ Len(<<>>) = 0
        BY <3>2 DEF List
      <4>2. 1 .. 0 = {}
        OBVIOUS
      <4> QED BY <4>1, <4>2
    <3> QED BY <3>1, <3>2
  <2>4. ASSUME NEW h \in p.bitmap.i, NEW k \in 1 .. Len(List(p, T[h]))
        PROVE  /\ List(p, T[h])[k] \in p.bitmap.b
               /\ \A i \in p.bitmap.i : \A j \in Kept(T[i]) : List(p, T[h])[k] # T[i].block[j]
               /\ \A i \in p.bitmap.i : \A m \in 1 .. Len(List(p, T[i])) :
                     List(p, T[h])[k] = List(p, T[i])[m] => h = i /\ k = m
    <3>1. CASE h = n
      <4>1. List(p, T[h])[k] \in R
        BY <2>3, <3>1
      <4>2. ASSUME NEW i \in p.bitmap.i, NEW j \in Kept(T[i]) PROVE List(p, T[h])[k] # T[i].block[j]
        BY <1>5, <1>7, <2>3, <3>1, <4>1
      <4>3. ASSUME NEW i \in p.bitmap.i, NEW m \in 1 .. Len(List(p, T[i])), List(p, T[h])[k] = List(p, T[i])[m]
            PROVE  h = i /\ k = m
        <5>1. CASE i = n
          BY <2>3, <3>1, <4>3, <5>1
        <5>2. CASE i \in s.bitmap.i
          BY <1>5, <2>2, <4>1, <4>3, <5>2
        <5> QED BY <5>1, <5>2
      <4> QED BY <1>5, <4>1, <4>2, <4>3
    <3>2. CASE h \in s.bitmap.i
      <4>1. List(p, T[h])[k] \in S
        BY <2>2, <3>2
      <4>2. ASSUME NEW i \in p.bitmap.i, NEW j \in Kept(T[i]) PROVE List(p, T[h])[k] # T[i].block[j]
        BY <1>5, <1>8, <2>2, <3>2, <4>1
      <4>3. ASSUME NEW i \in p.bitmap.i, NEW m \in 1 .. Len(List(p, T[i])), List(p, T[h])[k] = List(p, T[i])[m]
            PROVE  h = i /\ k = m
        <5>1. CASE i = n
          BY <1>5, <2>3, <4>1, <4>3, <5>1
        <5>2. CASE i \in s.bitmap.i
          BY <2>2, <3>2, <4>3, <5>2
        <5> QED BY <5>1, <5>2
      <4> QED BY <1>5, <4>1, <4>2, <4>3
    <3> QED BY <3>1, <3>2
  <2> QED BY <2>4, Zenon DEF Apart
<1> QED BY <1>9, <1>10
(* Only inodes are written: the directory's, and no blocks of others.        *)
Ends(f, g, T, t) ==
    /\ Moved(f, g) /\ (~f.ok => g.inode = f.inode)
    /\ f.ok => \A i \in f.bitmap.i : g.inode[i].block = [T EXCEPT ![t] = f.dir][i].block

LEMMA LinkedEnds ==
    ASSUME NEW s \in Process, NEW p, NEW f, NEW T, NEW t, NEW tidy \in BOOLEAN,
           Linked(s, p, f, T, t, tidy), s.bitmap.i \subseteq p.bitmap.i, NEW g, Ends(f, g, T, t)
    PROVE  Outcome(s, g, tidy)
<1>1. g \in Process /\ SameBits(f, g) /\ g.ok = f.ok /\ Moved(f, g) /\ (~f.ok => g.inode = f.inode)
  BY DEF Moved, Ends
<1>2. CASE ~f.ok
  <2>1. Working(s, f) /\ f \in Process
    BY <1>2 DEF Linked, Working
  <2>2. Working(s, g)
    BY <1>1, <1>2, <2>1, MovedKeeps DEF Working
  <2> QED BY <1>1, <1>2, <2>2 DEF Outcome
<1>3. CASE f.ok
  <2> DEFINE U == [T EXCEPT ![t] = f.dir]
  <2>1. Done(f, U, tidy) /\ \A i \in f.bitmap.i : g.inode[i].block = U[i].block
    BY <1>3, Zenon DEF Linked, Ends
  <2> HIDE DEF U
  <2>2. Done(f, g.inode, tidy)
    BY <2>1, DoneSame
  <2>3. Done(g, g.inode, tidy)
    BY <1>1, <2>2, DoneMoved
  <2>4. /\ g.gd = f.gd /\ g.bitmap = f.bitmap /\ g.ok /\ f.gd.b <= s.gd.b /\ f.gd.i <= s.gd.i
        /\ f.bitmap.i = p.bitmap.i /\ s.bitmap.b \subseteq f.bitmap.b
    BY <1>1, <1>3 DEF Linked, SameBits
  <2>5. s.gd.b \in Nat /\ s.gd.i \in Nat /\ Gain \in Nat /\ g.gd.b \in Nat /\ g.gd.i \in Nat
    BY <1>1, Bounds DEF Process, Left
  <2>6. g.gd.b <= s.gd.b + Gain /\ g.gd.i <= s.gd.i + Gain
    BY <2>4, <2>5
  <2> QED BY <1>1, <2>3, <2>4, <2>6 DEF Outcome
<1> QED BY <1>2, <1>3

-----------------------------------------------------------------------------
(* cp.                                                                       *)

LEMMA BuildingStart ==
    ASSUME NEW s, NEW tidy \in BOOLEAN, Done(s, s.inode, tidy), NEW node \in Node, node.block = <<>>
    PROVE  Building(s, [s EXCEPT !.dir = node], tidy)
<1> DEFINE p == [s EXCEPT !.dir = node]
<1>1. p \in Process /\ Working(s, p) /\ p.dir = node /\ p.bitmap = s.bitmap /\ Moved(s, p)
  BY WorkingStart
<1> HIDE DEF p
<1>2. NDIRECT \in Nat \ {0} /\ s \in Process
  <2>1. NDIRECT \in Nat \ {0}
    BY Ext2Assumption, Zenon
  <2> QED BY <2>1 DEF Done
<1>3. Len(p.dir.block) = 0
  BY <1>1
<1>4. ~(Len(p.dir.block) > NDIRECT) /\ Kept(p.dir) = {}
  <2>1. 1 .. 0 = {}
    OBVIOUS
  <2> QED BY <1>2, <1>3, <2>1 DEF Kept
<1>5. OneEach(p.dir, p.bitmap.b \ s.bitmap.b)
  <2>1. 1 .. 0 = {} /\ NDIRECT + 1 .. 0 = {}
    BY <1>2
  <2> QED BY <1>3, <1>4, <2>1 DEF OneEach
<1>6. tidy => Neat(p)
  BY <1>1, <1>2, MovedKeeps DEF Done
<1>7. IndSound(p, p.dir) /\ ListedOnce(p, p.dir, p.bitmap.b \ s.bitmap.b)
  BY <1>4 DEF IndSound, ListedOnce
<1> QED BY <1>1, <1>5, <1>6, <1>7 DEF Building, p

(* The file has an inode that was free, and the blocks that it took.         *)
Made(s, m, tidy) ==
    /\ Working(s, m)
    /\ m.ok => /\ m.got \in Inode \ s.bitmap.i /\ m.bitmap.i = s.bitmap.i \cup {m.got}
               /\ Owned(m, m.inode) /\ (tidy => Neat(m) /\ Apart(m, m.inode))

LEMMA InitInode ==
    ASSUME NEW s \in Process, NEW tidy \in BOOLEAN, Done(s, s.inode, tidy), NEW p, Building(s, p, tidy)
    PROVE  Made(s, init_inode(p), tidy)
<1> DEFINE q == reserve(p, "i")
           m == write_inode(q, q.got, q.dir)
<1>1. Working(s, p)
  BY DEF Building
<1>2. Working(s, q) /\ (Failed(p, q) \/ InodeTaken(p, q)) /\ (Neat(p) => Neat(q))
  BY <1>1, TakeInodeWorks
<1> HIDE DEF q
<1>3. q \in Process /\ p \in Process
  BY <1>1, <1>2 DEF Working
<1>4. CASE ~q.ok
  <2>1. m = q
    BY <1>4 DEF write_inode
  <2> QED BY <1>2, <1>4, <2>1 DEF Made, init_inode, q
<1>5. CASE q.ok
  <2>1. InodeTaken(p, q)
    BY <1>2, <1>5 DEF Failed
  <2>2. /\ p.ok /\ q.got \in Inode \ p.bitmap.i /\ q.bitmap.i = p.bitmap.i \cup {q.got}
        /\ q.bitmap.b = p.bitmap.b /\ q.dir = p.dir /\ SameTables(p, q)
    BY <2>1 DEF InodeTaken, SameRest, SameTables
  <2>3. /\ p.bitmap.i = s.bitmap.i /\ OneEach(p.dir, p.bitmap.b \ s.bitmap.b) /\ IndSound(p, p.dir)
        /\ tidy => Neat(p) /\ ListedOnce(p, p.dir, p.bitmap.b \ s.bitmap.b)
    BY <2>2 DEF Building
  <2>4. q.dir \in Node /\ q.got \in Inode
    BY <1>3, <2>2 DEF Process
  <2>5. Moved(q, m) /\ m.got = q.got /\ m.inode = [q.inode EXCEPT ![q.got] = q.dir]
    BY <1>3, <1>5, <2>4, WriteInode
  <2> HIDE DEF m
  <2>6. m \in Process /\ m.bitmap = q.bitmap /\ SameTables(q, m) /\ m.ok
    BY <1>5, <2>5 DEF Moved, SameBits
  <2>7. m.inode \in [Inode -> Node] /\ q.inode \in [Inode -> Node]
    BY <1>3, <2>6 DEF Process
  <2>8. (\A i \in s.bitmap.i : m.inode[i] = q.inode[i]) /\ m.inode[m.got] = p.dir
    <3>1. s.bitmap.i \subseteq Inode
      BY DEF Process, Bits
    <3> QED BY <2>2, <2>3, <2>4, <2>5, <2>7, <3>1
  <2>9. Working(s, m) /\ (Neat(q) => Neat(m))
    BY <1>2, <1>3, <2>5, <2>8, MovedKeeps
  <2>10. \A i \in s.bitmap.i : m.inode[i] = s.inode[i]
    BY <2>9 DEF Working
  <2>11. m.got \in Inode \ s.bitmap.i /\ m.bitmap.i = s.bitmap.i \cup {m.got} /\ m.bitmap.b = p.bitmap.b
    BY <2>2, <2>3, <2>5, <2>6
  <2>12. OneEach(m.inode[m.got], m.bitmap.b \ s.bitmap.b)
    BY <2>3, <2>8, <2>11
  <2>13. m.entries = p.entries /\ m.words = p.words
    BY <2>2, <2>6 DEF SameTables
  <2>14. Len(m.inode[m.got].block) > NDIRECT => m.entries[Ind(m.inode[m.got])] = <<>>
    BY <2>3, <2>8, <2>13 DEF IndSound
  <2>15. tidy => ListedOnce(m, m.inode[m.got], m.bitmap.b \ s.bitmap.b)
    BY <2>3, <2>8, <2>11, <2>13 DEF ListedOnce
  <2>16. Owned(m, m.inode) /\ (tidy => Apart(m, m.inode))
    BY <2>6, <2>7, <2>9, <2>10, <2>11, <2>12, <2>14, <2>15, OwnedNew
  <2>17. Made(s, m, tidy)
    BY <1>2, <2>3, <2>9, <2>11, <2>16 DEF Made
  <2> QED BY <2>17 DEF init_inode, m, q
<1> QED BY <1>4, <1>5
(* What a command ends with, from the image s.                               *)
CpEnd(s, t, name, size) ==
    LET data  == write_file([s EXCEPT !.dir = [type |-> "file", links |-> 1, block |-> <<>>]], size)
        made  == init_inode(data)
        spot  == empty_dir_spot([made EXCEPT !.dir = made.inode[t]], Need(name))
        named == new_dir_entry(spot, name, "file", made.got)
    IN  write_inode(named, t, named.dir)

LEMMA CpWorks ==
    ASSUME NEW s, NEW tidy \in BOOLEAN, Done(s, s.inode, tidy), ROOT \in s.bitmap.i,
           NEW t \in s.bitmap.i, NEW name \in Name, NEW size \in Nat
    PROVE  Outcome(s, CpEnd(s, t, name, size), tidy)
<1> DEFINE file == [type |-> "file", links |-> 1, block |-> <<>>]
           data == write_file([s EXCEPT !.dir = file], size)
           made == init_inode(data)
           p == [made EXCEPT !.dir = made.inode[t]]
           named == new_dir_entry(empty_dir_spot(p, Need(name)), name, "file", made.got)
           f == write_inode(named, t, named.dir)
<1>1. s \in Process /\ t \in Inode /\ s.bitmap.i \subseteq Inode
  BY DEF Done, Process, Bits
<1>2. file \in Node /\ file.block = <<>>
  BY DEF Node, Kinds
<1> HIDE DEF file
<1>3. Building(s, [s EXCEPT !.dir = file], tidy)
  BY <1>2, BuildingStart
<1>4. Building(s, data, tidy)
  BY <1>1, <1>3, WriteFile
<1> HIDE DEF data
<1>5. Made(s, made, tidy)
  BY <1>1, <1>4, InitInode
<1> HIDE DEF made
<1>6. made \in Process /\ Working(s, made)
  BY <1>5 DEF Made, Working
<1>7. made.inode \in [Inode -> Node]
  BY <1>6 DEF Process
<1>8. /\ Moved(made, p) /\ p.dir = made.inode[t] /\ p.inode = made.inode /\ p.bitmap = made.bitmap
      /\ p.ok = made.ok
  <2>1. made.inode[t] \in Node
    BY <1>1, <1>7
  <2>2. p \in Process /\ p.dir = made.inode[t] /\ p.inode = made.inode /\ SameBits(made, p)
        /\ SameTables(made, p) /\ p.ok = made.ok
    BY <1>6, <2>1 DEF Process, SameBits, SameTables
  <2> HIDE DEF p
  <2> QED BY <2>2 DEF Moved, SameBits
<1> HIDE DEF p
<1>9. Linking(s, p, made.inode, t, tidy)
  <2>1. Working(s, p)
    BY <1>6, <1>8, MovedKeeps
  <2>2. ASSUME p.ok PROVE Owned(p, made.inode) /\ (tidy => Neat(p) /\ Apart(p, made.inode))
    <3>1. Owned(made, made.inode) /\ (tidy => Neat(made) /\ Apart(made, made.inode))
      BY <1>5, <1>8, <2>2 DEF Made
    <3> QED BY <1>6, <1>8, <3>1, MovedKeeps
  <2> QED BY <1>8, <2>1, <2>2 DEF Linking
<1>10. p.ok => made.got \in p.bitmap.i /\ made.got # ROOT
  BY <1>5, <1>8 DEF Made
<1>11. Linked(s, p, named, made.inode, t, tidy)
  <2>1. "file" \in Kinds
    BY DEF Kinds
  <2> QED BY <1>1, <1>7, <1>9, <1>10, <2>1, Link
<1> HIDE DEF named
<1>12. named \in Process /\ (named.ok => named.dir \in Node)
  BY <1>11 DEF Linked, Working, Done
<1>13. Moved(named, f) /\ f.inode = IF named.ok THEN [named.inode EXCEPT ![t] = named.dir] ELSE named.inode
  BY <1>1, <1>12, WriteInode
<1> HIDE DEF f
<1>14. named.ok => \A i \in named.bitmap.i : f.inode[i].block = [made.inode EXCEPT ![t] = named.dir][i].block
  <2>1. named.ok => named.inode = made.inode
    BY <1>8, <1>11 DEF Linked
  <2> QED BY <1>13, <2>1
<1>15. s.bitmap.i \subseteq p.bitmap.i
  BY <1>6, <1>8 DEF Working
<1>16. Outcome(s, f, tidy)
  <2>1. ~named.ok => f.inode = named.inode
    BY <1>13
  <2>2. Ends(named, f, made.inode, t)
    BY <1>13, <1>14, <2>1, Zenon DEF Ends
  <2> QED BY <1>1, <1>11, <1>15, <2>2, LinkedEnds
<1> QED BY <1>16 DEF CpEnd, f, named, p, made, data, file
-----------------------------------------------------------------------------
(* ln.                                                                       *)

(* Two inodes are written one after the other.                               *)
WrittenTwice(f, g, t, node, x, more) ==
    /\ Moved(f, g)
    /\ g.inode = IF f.ok THEN [[f.inode EXCEPT ![t] = node] EXCEPT ![x] = more] ELSE f.inode

LEMMA TwoWrites ==
    ASSUME NEW f \in Process, NEW t \in Inode, NEW node, NEW x, f.ok => x \in Inode,
           NEW more, f.ok => node \in Node /\ more \in Node
    PROVE  WrittenTwice(f, write_inode(write_inode(f, t, node), x, more), t, node, x, more)
<1> DEFINE q == write_inode(f, t, node)
           g == write_inode(q, x, more)
<1>1. Moved(f, q) /\ q.inode = IF f.ok THEN [f.inode EXCEPT ![t] = node] ELSE f.inode
  <2>1. Written(f, q, t, node)
    BY WriteInodeIs
  <2> QED BY <2>1 DEF Written
<1> HIDE DEF q
<1>2. q \in Process /\ q.ok = f.ok
  BY <1>1 DEF Moved
<1>3. Moved(q, g) /\ g.inode = IF q.ok THEN [q.inode EXCEPT ![x] = more] ELSE q.inode
  <2>1. Written(q, g, x, more)
    BY <1>2, WriteInodeIs
  <2> QED BY <2>1 DEF Written
<1> HIDE DEF g
<1>4. Moved(f, g)
  BY <1>1, <1>3 DEF Moved, SameBits, SameTables
<1>5. g.inode = IF f.ok THEN [[f.inode EXCEPT ![t] = node] EXCEPT ![x] = more] ELSE f.inode
  BY <1>1, <1>2, <1>3
<1> QED BY <1>4, <1>5 DEF WrittenTwice, g, q

LEMMA MoreLinks ==
    ASSUME NEW node \in Node
    PROVE  LET more == [node EXCEPT !.links = @ + 1]
           IN  more \in Node /\ more.block = node.block
BY DEF Node

LnEnd(s, t, x, name) ==
    LET spot   == empty_dir_spot([s EXCEPT !.dir = s.inode[t]], Need(name))
        named  == new_dir_entry(spot, name, "file", x)
        linked == write_inode(named, t, named.dir)
        node   == linked.inode[x]
    IN  write_inode(linked, x, [node EXCEPT !.links = @ + 1])

LEMMA LnWorks ==
    ASSUME NEW s, NEW tidy \in BOOLEAN, Done(s, s.inode, tidy),
           NEW t \in s.bitmap.i, NEW x \in s.bitmap.i, x # ROOT, NEW name \in Name
    PROVE  Outcome(s, LnEnd(s, t, x, name), tidy)
<1> DEFINE p == [s EXCEPT !.dir = s.inode[t]]
           named == new_dir_entry(empty_dir_spot(p, Need(name)), name, "file", x)
           linked == write_inode(named, t, named.dir)
           more == [linked.inode[x] EXCEPT !.links = @ + 1]
           f == write_inode(linked, x, more)
<1>1. s \in Process /\ t \in Inode /\ x \in Inode /\ s.bitmap.i \subseteq Inode /\ s.inode \in [Inode -> Node]
  BY DEF Done, Process, Bits
<1>2. p \in Process /\ Working(s, p) /\ p.dir = s.inode[t] /\ p.bitmap = s.bitmap /\ Moved(s, p) /\ p.inode = s.inode
  <2>1. s.inode[t] \in Node
    BY <1>1
  <2> QED BY <2>1, WorkingStart
<1> HIDE DEF p
<1>3. Linking(s, p, s.inode, t, tidy)
  <2>1. Owned(p, s.inode) /\ (tidy => Neat(p) /\ Apart(p, s.inode))
    <3>1. Owned(s, s.inode) /\ (tidy => Neat(s) /\ Apart(s, s.inode))
      BY DEF Done
    <3> QED BY <1>1, <1>2, <3>1, MovedKeeps
  <2> QED BY <1>2, <2>1 DEF Linking
<1>4. Linked(s, p, named, s.inode, t, tidy)
  <2>1. "file" \in Kinds /\ x \in p.bitmap.i
    BY <1>2 DEF Kinds
  <2> QED BY <1>1, <1>3, <2>1, Link
<1> HIDE DEF named
<1>5. named \in Process /\ (named.ok => named.dir \in Node /\ named.inode = s.inode)
  BY <1>2, <1>4 DEF Linked, Working, Done
<1>6. named.inode \in [Inode -> Node]
  BY <1>5 DEF Process
<1>7. linked.inode = IF named.ok THEN [named.inode EXCEPT ![t] = named.dir] ELSE named.inode
  <2>1. Written(named, linked, t, named.dir)
    BY <1>1, <1>5, WriteInodeIs
  <2> QED BY <2>1 DEF Written
<1> HIDE DEF linked
<1>8. linked.inode[x] \in Node
  BY <1>1, <1>5, <1>6, <1>7
<1>9. more \in Node /\ more.block = linked.inode[x].block
  BY <1>8, MoreLinks
<1> HIDE DEF more
<1>10. /\ Moved(named, f)
       /\ f.inode = IF named.ok THEN [[named.inode EXCEPT ![t] = named.dir] EXCEPT ![x] = more] ELSE named.inode
  <2>1. WrittenTwice(named, f, t, named.dir, x, more)
    BY <1>1, <1>5, <1>9, TwoWrites DEF linked
  <2> QED BY <2>1 DEF WrittenTwice
<1> HIDE DEF f
<1>11. named.ok => \A i \in named.bitmap.i : f.inode[i].block = [s.inode EXCEPT ![t] = named.dir][i].block
  <2> SUFFICES ASSUME named.ok, NEW i \in named.bitmap.i
               PROVE  f.inode[i].block = [s.inode EXCEPT ![t] = named.dir][i].block
    OBVIOUS
  <2> DEFINE V == [s.inode EXCEPT ![t] = named.dir]
  <2>1. f.inode = [V EXCEPT ![x] = more] /\ more.block = V[x].block
    BY <1>5, <1>7, <1>9, <1>10
  <2>2. V \in [Inode -> Node] /\ i \in Inode
    BY <1>1, <1>5 DEF Process, Bits
  <2> HIDE DEF V
  <2>3. f.inode[i].block = V[i].block
    BY <1>1, <2>1, <2>2
  <2> QED BY <2>3 DEF V
<1>12. Outcome(s, f, tidy)
  <2>1. (~named.ok => f.inode = named.inode) /\ s.bitmap.i \subseteq p.bitmap.i
    BY <1>2, <1>10
  <2>2. Ends(named, f, s.inode, t)
    BY <1>10, <1>11, <2>1, Zenon DEF Ends
  <2> QED BY <1>1, <1>4, <2>1, <2>2, LinkedEnds
<1> QED BY <1>12 DEF LnEnd, f, more, linked, named, p
-----------------------------------------------------------------------------
(* mkdir.                                                                    *)

(* The process has an inode and the first free block b for a directory.      *)
Alone(s, r, n, b, tidy) ==
    /\ Working(s, r) /\ r.ok /\ n \in Inode \ s.bitmap.i /\ r.bitmap.i = s.bitmap.i \cup {n}
    /\ b \in Block /\ b \in r.bitmap.b \ s.bitmap.b /\ b - 1 \notin Block \ s.bitmap.b
    /\ r.dir.block = <<b>>
    /\ tidy => Neat(r)

(* Entries that are written into it name nothing that can be looked up.      *)
LEMMA AloneFilled ==
    ASSUME NEW s \in Process, NEW q, NEW n, NEW b, NEW tidy \in BOOLEAN, Alone(s, q, n, b, tidy),
           NEW v \in Seq(Entry), v # <<>>, \A j \in 1 .. Len(v) : v[j].name \notin Name,
           tidy => Fills(v), NEW r, Filled(q, r, b, v)
    PROVE  Alone(s, r, n, b, tidy)
<1>1. Working(s, q) /\ b \in Block /\ b \in q.bitmap.b \ s.bitmap.b /\ b - 1 \notin Block \ s.bitmap.b
      /\ q \in Process /\ s.bitmap.b \subseteq Block
  BY DEF Alone, Working, Process, Bits
<1>2. \A x \in Block : /\ r.entries[x] = IF x = b THEN v ELSE q.entries[x]
                       /\ r.words[x] = IF x = b THEN <<>> ELSE q.words[x]
  BY DEF Filled
<1>3. r \in Process /\ r.bitmap = q.bitmap /\ r.gd = q.gd /\ r.sb = q.sb /\ r.ok = q.ok
      /\ r.inode = q.inode /\ r.dir = q.dir
  BY DEF Filled
<1>4. Counted(r) /\ Packed(r)
  BY <1>1, <1>3 DEF Working, Counted, Packed
<1>5. NamesLead(r, s.bitmap.i)
  BY <1>1, <1>2 DEF Working, NamesLead, Leads
<1>6. ListsFollow(r) /\ LeftFirst(r, s.bitmap.b) /\ OneUse(r)
  BY <1>1, <1>2 DEF Working, ListsFollow, LeftFirst, OneUse
<1>7. \A x \in s.bitmap.b : r.entries[x] = s.entries[x] /\ r.words[x] = s.words[x]
  BY <1>1, <1>2 DEF Working
<1>8. Working(s, r)
  BY <1>1, <1>3, <1>4, <1>5, <1>6, <1>7 DEF Working
<1>9. tidy => Neat(r)
  BY <1>1, <1>2, <1>3 DEF Alone, Neat
<1> QED BY <1>1, <1>3, <1>8, <1>9 DEF Alone

(* An inode is reserved.                                                     *)
LEMMA FolderInode ==
    ASSUME NEW s, NEW tidy \in BOOLEAN, Done(s, s.inode, tidy), NEW node \in Node
    PROVE  LET num == reserve(s, "i")
               q == [num EXCEPT !.dir = node]
           IN  /\ Working(s, q) /\ q.dir = node /\ q.bitmap.b = s.bitmap.b
               /\ q.ok => /\ num.got \in Inode \ s.bitmap.i /\ q.bitmap.i = s.bitmap.i \cup {num.got}
                          /\ tidy => Neat(q)
<1> DEFINE num == reserve(s, "i")
           q == [num EXCEPT !.dir = node]
<1>1. s \in Process /\ Working(s, s) /\ (tidy => Neat(s))
  <2>1. s \in Process
    BY DEF Done
  <2>2. s.gd.b <= s.gd.b /\ s.gd.i <= s.gd.i
    BY <2>1 DEF Process, Left
  <2> QED BY <2>1, <2>2 DEF Done, Working
<1>2. Working(s, num) /\ (Failed(s, num) \/ InodeTaken(s, num)) /\ (Neat(s) => Neat(num))
  BY <1>1, TakeInodeWorks
<1> HIDE DEF num
<1>3. num \in Process
  BY <1>2 DEF Working
<1>4. Moved(num, q) /\ q.dir = node /\ q.inode = num.inode
  <2>1. q \in Process /\ SameBits(num, q) /\ SameTables(num, q) /\ q.ok = num.ok /\ q.dir = node /\ q.inode = num.inode
    BY <1>3 DEF Process, SameBits, SameTables
  <2> HIDE DEF q
  <2> QED BY <2>1 DEF Moved
<1> HIDE DEF q
<1>5. Working(s, q) /\ (Neat(num) => Neat(q))
  BY <1>2, <1>3, <1>4, MovedKeeps
<1>6. q.bitmap = num.bitmap /\ q.ok = num.ok
  BY <1>4 DEF Moved, SameBits
<1>7. q.bitmap.b = s.bitmap.b
  BY <1>2, <1>6 DEF Failed, InodeTaken
<1>8. q.ok => num.got \in Inode \ s.bitmap.i /\ q.bitmap.i = s.bitmap.i \cup {num.got}
  BY <1>2, <1>6 DEF Failed, InodeTaken
<1> QED BY <1>1, <1>2, <1>4, <1>5, <1>7, <1>8 DEF q, num

LEMMA NoPlace ==
    ASSUME NEW p, p.dir.block = <<>>, NEW size
    PROVE  spot_block(p, size) = 0
<1>1. Len(p.dir.block) = 0 /\ 1 .. 0 = {}
  OBVIOUS
<1> QED BY <1>1, SpotIs

(* The empty directory gets a block.                                         *)
LEMMA FolderBlock ==
    ASSUME NEW s \in Process, NEW q, Working(s, q), q.dir.block = <<>>, q.bitmap.b = s.bitmap.b,
           NEW n, NEW tidy \in BOOLEAN,
           q.ok => n \in Inode \ s.bitmap.i /\ q.bitmap.i = s.bitmap.i \cup {n} /\ (tidy => Neat(q)), NEW size
    PROVE  LET r == empty_dir_spot(q, size)
           IN  \/ ~r.ok /\ Working(s, r)
               \/ Alone(s, r, n, r.at[1], tidy)
<1> DEFINE r == empty_dir_spot(q, size)
           u == reserve(q, "b")
<1>1. spot_block(q, size) = 0 /\ NDIRECT \in Nat \ {0} /\ Len(q.dir.block) = 0
  <2>1. NDIRECT \in Nat \ {0}
    BY Ext2Assumption, Zenon
  <2>2. Len(q.dir.block) = 0
    OBVIOUS
  <2> QED BY <2>1, <2>2, NoPlace
<1>2. r = IF ~q.ok THEN q
          ELSE IF ~u.ok THEN u
          ELSE [u EXCEPT !.dir.block = Append(@, u.got), !.at = <<u.got, 1>>]
  <2>1. ~(0 \in 1 .. NDIRECT) /\ ~(Len(q.dir.block) >= NDIRECT)
    BY <1>1
  <2> QED BY <1>1, <2>1, SMTT(30), ZenonT(60) DEF empty_dir_spot
<1>3. Working(s, u) /\ (Failed(q, u) \/ BlockTaken(q, u)) /\ (Neat(q) => Neat(u))
  BY TakeBlockWorks
<1> HIDE DEF u, r
<1>4. CASE ~q.ok
  BY <1>2, <1>4 DEF r
<1>5. CASE ~u.ok
  BY <1>2, <1>3, <1>5 DEF r
<1>6. CASE q.ok /\ u.ok
  <2> DEFINE g == u.got
             d == [u.dir EXCEPT !.block = Append(@, g)]
             a == <<g, 1>>
  <2>1. /\ g \in Block \ q.bitmap.b /\ u.bitmap.b = q.bitmap.b \cup {g} /\ u.bitmap.i = q.bitmap.i
        /\ \A y \in Block \ q.bitmap.b : g <= y
        /\ u.dir = q.dir /\ u \in Process
    BY <1>3, <1>6 DEF BlockTaken, Failed, SameRest, Working
  <2>2. r = [u EXCEPT !.dir = d, !.at = a]
    BY <1>2, <1>6, <2>1 DEF Process
  <2>3. u.dir \in Node
    BY <2>1 DEF Process
  <2>4. Longer(u.dir, d, g)
    BY <2>1, <2>3, LongerIs
  <2>5. Append(<<>>, g) = <<g>>
    OBVIOUS
  <2>6. d.block = <<g>>
    BY <2>1, <2>3, <2>5 DEF Node
  <2>7. g \in Int /\ g - 1 < g
    <3>1. g \in Nat
      BY <2>1, Finite
    <3> HIDE DEF g
    <3> QED BY <3>1
  <2>8. a \in Int \X Int /\ a[1] = g /\ d \in Node
    BY <2>4, <2>7 DEF Longer
  <2> HIDE DEF d, a, g
  <2>9. Moved(u, r) /\ r.dir = d /\ r.at = a /\ r.inode = u.inode
    <3>1. r \in Process /\ SameBits(u, r) /\ SameTables(u, r) /\ r.ok = u.ok /\ r.dir = d /\ r.at = a /\ r.inode = u.inode
      BY <2>1, <2>2, <2>8 DEF Process, SameBits, SameTables
    <3> QED BY <3>1 DEF Moved
  <2>10. Working(s, r) /\ (Neat(u) => Neat(r))
    BY <1>3, <2>1, <2>9, MovedKeeps
  <2>11. r.bitmap = u.bitmap /\ r.ok
    BY <1>6, <2>9 DEF Moved, SameBits
  <2>12. g - 1 \notin Block \ s.bitmap.b
    <3> SUFFICES ASSUME g - 1 \in Block \ q.bitmap.b PROVE FALSE
      OBVIOUS
    <3>1. g <= g - 1
      BY <2>1
    <3> QED BY <2>7, <3>1
  <2>13. tidy => Neat(r)
    BY <1>3, <1>6, <2>10
  <2>14. Alone(s, r, n, r.at[1], tidy)
    BY <1>6, <2>1, <2>6, <2>8, <2>9, <2>10, <2>11, <2>12, <2>13 DEF Alone
  <2> QED BY <2>14 DEF r
<1> QED BY <1>4, <1>5, <1>6
LEMMA NotNames == "" \notin Name /\ "." \notin Name /\ ".." \notin Name
<1>1. {"", ".", ".."} \cap Name = {}
  BY Ext2Assumption, Zenon
<1>2. "" \in {"", ".", ".."} /\ "." \in {"", ".", ".."} /\ ".." \in {"", ".", ".."}
  OBVIOUS
<1> QED BY <1>1, <1>2, Zenon

(* Where there is room, room is found.                                       *)
LEMMA RoomFound ==
    ASSUME NEW p, NEW b, NEW size, NEW k \in 1 .. Len(p.entries[b]),
           p.entries[b][k].rec - Need(p.entries[b][k].name) >= size
    PROVE  dir_block_offset(p, b, size) \in 1 .. Len(p.entries[b])
<1> DEFINE s == p.entries[b]
           I == {i \in 1 .. Len(s) : s[i].rec - Need(s[i].name) >= size}
<1>1. dir_block_offset(p, b, size) = IF I # {} THEN Min(I) ELSE 0
  BY DEF dir_block_offset, SelectInSeq
<1>2. I \in SUBSET Nat /\ I # {} /\ I \subseteq 1 .. Len(s)
  OBVIOUS
<1>3. Min(I) \in I
  <2> HIDE DEF I
  <2> QED BY <1>2, LeastIndex
<1> HIDE DEF I
<1> QED BY <1>1, <1>2, <1>3

LEMMA SpotFound ==
    ASSUME NEW p, NEW size, NEW j \in 1 .. Len(p.dir.block), dir_block_offset(p, p.dir.block[j], size) # 0
    PROVE  spot_block(p, size) \in 1 .. Len(p.dir.block)
<1> DEFINE blocks == p.dir.block
           I == {i \in 1 .. Len(blocks) : dir_block_offset(p, blocks[i], size) # 0}
<1>1. spot_block(p, size) = IF I # {} THEN Min(I) ELSE 0
  BY DEF spot_block, SelectInSeq
<1>2. I \in SUBSET Nat /\ I # {} /\ I \subseteq 1 .. Len(blocks)
  OBVIOUS
<1>3. Min(I) \in I
  <2> HIDE DEF I
  <2> QED BY <1>2, LeastIndex
<1> QED BY <1>1, <1>2, <1>3

(* The block holds the entry "." alone.                                      *)
HoldsSelf(p, b) ==
    /\ p.words[b] = <<>>
    /\ \E e \in Entry : p.entries[b] = <<e>> /\ e.name = "." /\ e.rec = BLOCK_SIZE

LEMMA FolderSelf ==
    ASSUME NEW s \in Process, NEW q, NEW n, NEW b, NEW tidy \in BOOLEAN, Alone(s, q, n, b, tidy), b = q.at[1]
    PROVE  LET r == new_dir_entry(q, ".", "dir", n)
           IN  Alone(s, r, n, b, tidy) /\ HoldsSelf(r, b)
<1> DEFINE r == new_dir_entry(q, ".", "dir", n)
           e == [name |-> ".", inode |-> n, type |-> "dir", rec |-> BLOCK_SIZE]
           v == <<e>>
<1>1. q \in Process /\ q.ok /\ b \in Block /\ n \in Inode
  BY DEF Alone, Working
<1>2. BLOCK_SIZE \in Nat /\ "." \notin Name /\ BLOCK_SIZE >= Need(".") /\ Need(".") \in Nat
  <2>1. BLOCK_SIZE \in Nat /\ {"", ".", ".."} \cap Name = {}
    BY Ext2Assumption, Zenon
  <2>2. "." \notin Name
    BY NotNames, Zenon
  <2>3. BLOCK_SIZE >= Need(".") /\ Need(".") \in Nat
    <3>1. "." \in Names
      BY DEF Names
    <3> QED BY <3>1, NeedIs, Zenon
  <2> HIDE DEF e, r
  <2> QED BY <2>1, <2>2, <2>3, Zenon
<1>3. e \in Entry /\ e.name = "." /\ e.rec = BLOCK_SIZE
  BY <1>1, <1>2 DEF Entry, Names, Kinds
<1>4. OldEntries(q, ".") = <<>>
  BY DEF OldEntries
<1>5. with_entry(<<>>, q.at[2], ".", "dir", n) = v
  BY WrittenIs
<1> HIDE DEF e, r
<1>6. v \in Seq(Entry) /\ Len(v) = 1 /\ v[1] = e /\ v # <<>> /\ Behind(v) = e.rec
  BY <1>3, OneEntry
<1> HIDE DEF v
<1>7. Fills(v) /\ \A j \in 1 .. Len(v) : v[j].name \notin Name
  <2>1. \A j \in 1 .. Len(v) : j = 1
    BY <1>6
  <2> QED BY <1>2, <1>3, <1>6, <2>1 DEF Fills
<1>8. Filled(q, r, b, v)
  BY <1>1, <1>4, <1>5, <1>6, NewEntryIs DEF r
<1>9. Alone(s, r, n, b, tidy)
  BY <1>6, <1>7, <1>8, AloneFilled
<1>10. r.entries[b] = v /\ r.words[b] = <<>>
  BY <1>1, <1>8 DEF Filled
<1>11. HoldsSelf(r, b)
  BY <1>3, <1>10 DEF HoldsSelf, v
<1> QED BY <1>9, <1>11 DEF r

LEMMA FolderUp ==
    ASSUME NEW s \in Process, NEW q, NEW n, NEW b, NEW tidy \in BOOLEAN, Alone(s, q, n, b, tidy),
           HoldsSelf(q, b), NEW t \in s.bitmap.i
    PROVE  Alone(s, new_dir_entry(empty_dir_spot(q, Need("..")), "..", "dir", t), n, b, tidy)
<1> DEFINE size == Need("..")
           u == empty_dir_spot(q, size)
           r == new_dir_entry(u, "..", "dir", t)
           k == dir_block_offset(q, b, size)
<1>1. q \in Process /\ q.ok /\ b \in Block /\ q.dir.block = <<b>> /\ t \in Inode
  BY DEF Alone, Working, Process, Bits
<1>2. /\ BLOCK_SIZE \in Nat /\ BLOCK_SIZE >= 24 /\ NDIRECT \in Nat \ {0} /\ "." \notin Name /\ ".." \notin Name
      /\ Need(".") = 12 /\ size = 12
  <2>1. BLOCK_SIZE \in Nat /\ BLOCK_SIZE >= 24 /\ NDIRECT \in Nat \ {0} /\ {"", ".", ".."} \cap Name = {}
    BY Ext2Assumption, Zenon
  <2>2. "." \notin Name /\ ".." \notin Name
    BY NotNames, Zenon
  <2>3. Need(".") = 12 /\ size = 12
    BY NeedIs, Zenon
  <2> QED BY <2>1, <2>2, <2>3, Zenon
<1>3. PICK e \in Entry : q.entries[b] = <<e>> /\ e.name = "." /\ e.rec = BLOCK_SIZE
  BY DEF HoldsSelf
<1> DEFINE old == q.entries[b]
<1>4. old \in Seq(Entry) /\ Len(old) = 1 /\ old[1] = e /\ old # <<>> /\ Behind(old) = e.rec
  BY <1>3, OneEntry
<1>5. k = 1
  <2>1. 1 \in 1 .. Len(old) /\ old[1].rec - Need(old[1].name) >= size
    BY <1>2, <1>3, <1>4
  <2>2. k \in 1 .. Len(old)
    BY <2>1, RoomFound
  <2> HIDE DEF k
  <2> QED BY <1>4, <2>2
<1>6. spot_block(q, size) = 1
  <2>1. Len(q.dir.block) = 1 /\ q.dir.block[1] = b
    BY <1>1
  <2>2. 1 \in 1 .. Len(q.dir.block) /\ dir_block_offset(q, q.dir.block[1], size) # 0
    BY <1>5, <2>1
  <2>3. spot_block(q, size) \in 1 .. Len(q.dir.block)
    BY <2>2, SpotFound
  <2> QED BY <2>1, <2>3
<1>7. u = [q EXCEPT !.at = <<b, 1>>]
  <2>1. 1 \in 1 .. NDIRECT /\ q.dir.block[1] = b
    BY <1>1, <1>2
  <2> QED BY <1>1, <1>5, <1>6, <2>1, SMTT(30) DEF empty_dir_spot
<1> HIDE DEF u, k
<1>8. /\ u \in Process /\ SameBits(q, u) /\ SameTables(q, u) /\ u.ok /\ u.dir = q.dir /\ u.inode = q.inode
      /\ u.at[1] = b /\ u.at[2] = 1
  <2> DEFINE a == <<b, 1>>
  <2>1. a \in Int \X Int /\ a[1] = b /\ a[2] = 1
    BY <1>1, Finite
  <2>2. u = [q EXCEPT !.at = a]
    BY <1>7
  <2> HIDE DEF a
  <2> QED BY <1>1, <2>1, <2>2 DEF Process, SameBits, SameTables
<1>9. Alone(s, u, n, b, tidy)
  <2>1. Moved(q, u)
    BY <1>1, <1>8 DEF Moved
  <2>2. Working(s, q) /\ (tidy => Neat(q))
    BY DEF Alone
  <2>3. Working(s, u) /\ (tidy => Neat(u))
    BY <1>1, <1>8, <2>1, <2>2, MovedKeeps
  <2> QED BY <1>8, <2>3 DEF Alone, SameBits
<1>10. u.entries[b] = old /\ u.words[b] = <<>>
  BY <1>8 DEF SameTables, HoldsSelf
<1> HIDE DEF old
<1>11. OldEntries(u, "..") = old
  <2>1. Len(u.words[b]) < 2
    <3>1. Len(<<>>) = 0
      OBVIOUS
    <3> QED BY <1>10, <3>1
  <2> QED BY <1>8, <1>10, <2>1 DEF OldEntries, first_entries
<1> DEFINE rest == old[1].rec - Need(old[1].name)
           f == [name |-> "..", inode |-> t, type |-> "dir", rec |-> rest]
           v == Split(old, 1, f)
<1>12. with_entry(old, 1, "..", "dir", t) = v
  BY <1>4, WrittenIs
<1>13. rest = BLOCK_SIZE - 12
  BY <1>2, <1>3, <1>4
<1> HIDE DEF rest
<1>14. f \in Entry /\ f.rec = rest /\ f.name = ".."
  <2>1. rest \in Int
    BY <1>2, <1>13
  <2>2. "dir" \in Kinds /\ ".." \in Names /\ t \in Inode \cup Block \cup {0}
    BY <1>1 DEF Kinds, Names
  <2> QED BY <2>1, <2>2 DEF Entry
<1> HIDE DEF f
<1>15. Fills(old) /\ 1 \in 1 .. Len(old)
  <2>1. \A j \in 1 .. Len(old) : j = 1
    BY <1>4
  <2> QED BY <1>2, <1>3, <1>4, <2>1 DEF Fills
<1>16. /\ v \in Seq(Entry) /\ v # <<>>
       /\ \A j \in 1 .. Len(v) : v[j] = f \/ \E m \in 1 .. Len(old) : Alike(v[j], old[m])
       /\ Fills(v)
  <2>1. f.rec = old[1].rec - Need(old[1].name) /\ f.rec >= Need(f.name)
    BY <1>2, <1>13, <1>14 DEF rest
  <2> QED BY <1>4, <1>14, <1>15, <2>1, SplitIs
<1> HIDE DEF v
<1>17. \A j \in 1 .. Len(v) : v[j].name \notin Name
  <2>1. \A m \in 1 .. Len(old) : old[m].name = "."
    <3>1. \A m \in 1 .. Len(old) : m = 1
      BY <1>4
    <3> QED BY <1>3, <1>4, <3>1
  <2> QED BY <1>2, <1>14, <1>16, <2>1 DEF Alike
<1>18. Filled(u, r, b, v)
  BY <1>1, <1>8, <1>11, <1>12, <1>16, NewEntryIs
<1> HIDE DEF r
<1>19. Alone(s, r, n, b, tidy)
  BY <1>9, <1>16, <1>17, <1>18, AloneFilled
<1> QED BY <1>19 DEF r, u
MkdirEnd(s, t, name) ==
    LET num    == reserve(s, "i")
        fresh  == [num EXCEPT !.dir = [type |-> "dir", links |-> 2, block |-> <<>>]]
        self   == new_dir_entry(empty_dir_spot(fresh, Need(".")), ".", "dir", num.got)
        up     == new_dir_entry(empty_dir_spot(self, Need("..")), "..", "dir", t)
        spot   == empty_dir_spot([up EXCEPT !.dir = s.inode[t]], Need(name))
        named  == new_dir_entry(spot, name, "dir", num.got)
        linked == write_inode(named, t, [named.dir EXCEPT !.links = @ + 1])
    IN  write_inode(linked, num.got, up.dir)

LEMMA AfterExit ==
    ASSUME NEW p, ~p.ok
    PROVE  /\ \A size : empty_dir_spot(p, size) = p
           /\ \A name, type, n : new_dir_entry(p, name, type, n) = p
<1>1. \A size : empty_dir_spot(p, size) = p
  BY SMTT(30), ZenonT(60) DEF empty_dir_spot
<1>2. \A name, type, n : new_dir_entry(p, name, type, n) = p
  BY SMTT(30), ZenonT(60) DEF new_dir_entry
<1> QED BY <1>1, <1>2

(* The process has failed, or it has a directory for the inode n.            *)
Folder(s, r, n, tidy) ==
    /\ ~r.ok => Working(s, r)
    /\ r.ok => \E b : Alone(s, r, n, b, tidy)

LEMMA MkdirFolder ==
    ASSUME NEW s, NEW tidy \in BOOLEAN, Done(s, s.inode, tidy), NEW t \in s.bitmap.i,
           NEW num, num = reserve(s, "i"), NEW node \in Node, node.block = <<>>
    PROVE  LET self == new_dir_entry(empty_dir_spot([num EXCEPT !.dir = node], Need(".")), ".", "dir", num.got)
           IN  Folder(s, new_dir_entry(empty_dir_spot(self, Need("..")), "..", "dir", t), num.got, tidy)
<1> DEFINE q == [num EXCEPT !.dir = node]
           r == empty_dir_spot(q, Need("."))
           self == new_dir_entry(r, ".", "dir", num.got)
           up == new_dir_entry(empty_dir_spot(self, Need("..")), "..", "dir", t)
           n == num.got
<1>1. /\ Working(s, q) /\ q.dir = node /\ q.bitmap.b = s.bitmap.b /\ s \in Process
      /\ q.ok => n \in Inode \ s.bitmap.i /\ q.bitmap.i = s.bitmap.i \cup {n} /\ (tidy => Neat(q))
  BY FolderInode DEF Done
<1> HIDE DEF q, n
<1>2. (~r.ok /\ Working(s, r)) \/ Alone(s, r, n, r.at[1], tidy)
  BY <1>1, FolderBlock
<1> HIDE DEF r
<1>3. CASE ~r.ok /\ Working(s, r)
  <2>1. self = r
    BY <1>3, AfterExit
  <2> HIDE DEF self
  <2>2. empty_dir_spot(self, Need("..")) = r
    BY <1>3, <2>1, AfterExit
  <2>4. up = r
    BY <1>3, <2>2, AfterExit
  <2> HIDE DEF up
  <2>3. Folder(s, up, n, tidy)
    BY <1>3, <2>4 DEF Folder
  <2> QED BY <2>3 DEF up, self, r, q, n
<1>4. CASE Alone(s, r, n, r.at[1], tidy)
  <2> DEFINE b == r.at[1]
  <2>1. Alone(s, self, n, b, tidy) /\ HoldsSelf(self, b)
    BY <1>1, <1>4, FolderSelf DEF n
  <2> HIDE DEF self, b
  <2>2. Alone(s, up, n, b, tidy)
    BY <1>1, <2>1, FolderUp
  <2> HIDE DEF up
  <2>3. Folder(s, up, n, tidy)
    BY <2>2 DEF Folder, Alone
  <2> QED BY <2>3 DEF up, self, r, q, n
<1> QED BY <1>2, <1>3, <1>4

(* The directory owns its block.                                             *)
LEMMA AloneOwned ==
    ASSUME NEW s, NEW tidy \in BOOLEAN, Done(s, s.inode, tidy), NEW r, NEW n, NEW b, Alone(s, r, n, b, tidy)
    PROVE  LET T == [r.inode EXCEPT ![n] = r.dir]
           IN  Owned(r, T) /\ (tidy => Apart(r, T))
<1> DEFINE T == [r.inode EXCEPT ![n] = r.dir]
<1>1. /\ Working(s, r) /\ n \in Inode \ s.bitmap.i /\ r.bitmap.i = s.bitmap.i \cup {n}
      /\ b \in r.bitmap.b \ s.bitmap.b /\ r.dir.block = <<b>>
  BY DEF Alone
<1>2. s \in Process /\ r \in Process /\ r.inode \in [Inode -> Node] /\ r.dir \in Node /\ s.bitmap.i \subseteq Inode
  BY <1>1 DEF Done, Working, Process, Bits
<1>3. T \in [Inode -> Node] /\ T[n] = r.dir /\ \A i \in s.bitmap.i : T[i] = s.inode[i]
  <2>1. \A i \in s.bitmap.i : r.inode[i] = s.inode[i]
    BY <1>1 DEF Working
  <2> QED BY <1>1, <1>2, <2>1
<1> HIDE DEF T
<1>4. Len(T[n].block) = 1 /\ T[n].block[1] = b /\ NDIRECT \in Nat \ {0}
  <2>1. NDIRECT \in Nat \ {0}
    BY Ext2Assumption, Zenon
  <2>2. T[n].block = <<b>>
    BY <1>1, <1>3
  <2>3. Len(<<b>>) = 1 /\ <<b>>[1] = b
    OBVIOUS
  <2> QED BY <2>1, <2>2, <2>3, Zenon
<1>5. ~(Len(T[n].block) > NDIRECT)
  BY <1>4
<1>6. OneEach(T[n], r.bitmap.b \ s.bitmap.b)
  <2>1. \A j \in 1 .. 1 : j = 1
    OBVIOUS
  <2>2. Kept(T[n]) = 1 .. 1 /\ NDIRECT + 1 .. 1 = {}
    BY <1>4, <1>5 DEF Kept
  <2> QED BY <1>1, <1>4, <2>1, <2>2 DEF OneEach
<1>7. ListedOnce(r, T[n], r.bitmap.b \ s.bitmap.b)
  BY <1>5 DEF ListedOnce
<1>8. Owned(r, T) /\ (tidy => Apart(r, T))
  BY <1>1, <1>2, <1>3, <1>5, <1>6, <1>7, OwnedNew
<1> QED BY <1>8 DEF T

LEMMA MkdirWorks ==
    ASSUME NEW s, NEW tidy \in BOOLEAN, Done(s, s.inode, tidy), ROOT \in s.bitmap.i,
           NEW t \in s.bitmap.i, NEW name \in Name
    PROVE  Outcome(s, MkdirEnd(s, t, name), tidy)
<1> DEFINE num == reserve(s, "i")
           node == [type |-> "dir", links |-> 2, block |-> <<>>]
           self == new_dir_entry(empty_dir_spot([num EXCEPT !.dir = node], Need(".")), ".", "dir", num.got)
           up == new_dir_entry(empty_dir_spot(self, Need("..")), "..", "dir", t)
           n == num.got
           p == [up EXCEPT !.dir = s.inode[t]]
           T == [up.inode EXCEPT ![n] = up.dir]
           named == new_dir_entry(empty_dir_spot(p, Need(name)), name, "dir", n)
           more == [named.dir EXCEPT !.links = @ + 1]
           f == write_inode(write_inode(named, t, more), n, up.dir)
<1>1. s \in Process /\ t \in Inode /\ s.bitmap.i \subseteq Inode /\ s.inode[t] \in Node
  BY DEF Done, Process, Bits
<1>2. node \in Node /\ node.block = <<>>
  BY DEF Node, Kinds
<1> HIDE DEF node
<1>3. Folder(s, up, n, tidy)
  BY <1>2, MkdirFolder
<1>4. MkdirEnd(s, t, name) = f
  BY DEF MkdirEnd, node
<1> HIDE DEF up, n
<1>5. Working(s, up) /\ up \in Process /\ up.inode \in [Inode -> Node] /\ up.dir \in Node
  <2>1. Working(s, up)
    BY <1>3 DEF Folder, Alone
  <2> QED BY <2>1 DEF Working, Process
<1>6. /\ Moved(up, p) /\ p.dir = s.inode[t] /\ p.inode = up.inode /\ p.bitmap = up.bitmap /\ p.ok = up.ok
  <2>1. p \in Process /\ p.dir = s.inode[t] /\ p.inode = up.inode /\ SameBits(up, p)
        /\ SameTables(up, p) /\ p.ok = up.ok
    BY <1>1, <1>5 DEF Process, SameBits, SameTables
  <2> HIDE DEF p
  <2> QED BY <2>1 DEF Moved, SameBits
<1> HIDE DEF p
<1>7. p.ok => n \in Inode \ s.bitmap.i /\ p.bitmap.i = s.bitmap.i \cup {n}
  BY <1>3, <1>6 DEF Folder, Alone
<1> DEFINE U == IF p.ok THEN T ELSE s.inode
<1>8. U \in [Inode -> Node]
  BY <1>1, <1>5, <1>7 DEF Process
<1>9. Linking(s, p, U, t, tidy)
  <2>1. Working(s, p)
    BY <1>5, <1>6, MovedKeeps
  <2>2. ASSUME p.ok PROVE U[t] = p.dir /\ Owned(p, U) /\ (tidy => Neat(p) /\ Apart(p, U))
    <3>1. PICK b : Alone(s, up, n, b, tidy)
      BY <1>3, <1>6, <2>2 DEF Folder
    <3>2. Owned(up, T) /\ (tidy => Apart(up, T)) /\ (tidy => Neat(up))
      BY <3>1, AloneOwned DEF Alone
    <3>3. U = T
      BY <2>2
    <3>4. Owned(p, U) /\ (tidy => Neat(p) /\ Apart(p, U))
      BY <1>5, <1>6, <3>2, <3>3, MovedKeeps
    <3>5. T[t] = up.inode[t] /\ up.inode[t] = s.inode[t]
      BY <1>1, <1>5, <1>7, <2>2 DEF Working
    <3> QED BY <1>6, <3>3, <3>4, <3>5
  <2> QED BY <2>1, <2>2 DEF Linking
<1>10. Linked(s, p, named, U, t, tidy)
  <2>1. "dir" \in Kinds
    BY DEF Kinds
  <2>2. p.ok => n \in p.bitmap.i /\ ("dir" # "dir" => n # ROOT)
    BY <1>7
  <2> HIDE DEF U, named
  <2> QED BY <1>1, <1>8, <1>9, <2>1, <2>2, Link DEF named
<1> HIDE DEF named
<1>11. named \in Process /\ (named.ok => named.dir \in Node /\ p.ok /\ named.inode = up.inode)
  BY <1>6, <1>10 DEF Linked, Working, Done
<1>12. named.ok => more \in Node /\ more.block = named.dir.block
  BY <1>11, MoreLinks
<1> HIDE DEF more
<1>13. WrittenTwice(named, f, t, more, n, up.dir)
  BY <1>1, <1>5, <1>7, <1>11, <1>12, TwoWrites
<1> HIDE DEF f
<1>14. /\ Moved(named, f)
       /\ f.inode = IF named.ok THEN [[named.inode EXCEPT ![t] = more] EXCEPT ![n] = up.dir] ELSE named.inode
  BY <1>13 DEF WrittenTwice
<1>15. ASSUME named.ok, NEW i \in named.bitmap.i
       PROVE  f.inode[i].block = [U EXCEPT ![t] = named.dir][i].block
  <2>1. /\ f.inode = [[up.inode EXCEPT ![t] = more] EXCEPT ![n] = up.dir] /\ U = [up.inode EXCEPT ![n] = up.dir]
        /\ more.block = named.dir.block
    BY <1>11, <1>12, <1>14, <1>15
  <2>2. i \in Inode /\ n \in Inode /\ n # t
    BY <1>7, <1>11, <1>15 DEF Process, Bits
  <2> HIDE DEF U
  <2> QED BY <1>1, <1>5, <2>1, <2>2
<1>16. Outcome(s, f, tidy)
  <2>1. ~named.ok => f.inode = named.inode
    BY <1>14
  <2>2. Ends(named, f, U, t)
    BY <1>14, <1>15, <2>1, Zenon DEF Ends
  <2>3. s.bitmap.i \subseteq p.bitmap.i
    BY <1>5, <1>6 DEF Working
  <2> HIDE DEF U
  <2> QED BY <1>1, <1>10, <2>2, <2>3, LinkedEnds
<1> QED BY <1>4, <1>16
-----------------------------------------------------------------------------
(* rm.                                                                       *)

(* A byte of the bitmap so far behind that no bit looked at is in it.        *)
LEMMA ClearBlockBit ==
    ASSUME NEW p \in Process, NEW b \in Block \ {ROOT_BLOCK}
    PROVE  LET q == clear_bit(p, b, "b")
           IN  /\ q \in Process /\ SameRest(p, q) /\ q.ok = p.ok /\ q.bitmap = p.bitmap
               /\ q.gd = [b |-> p.gd.b + 1, i |-> p.gd.i]
               /\ q.sb = [b |-> (p.sb.b + 1) % SB_MOD, i |-> p.sb.i]
<1> DEFINE q == clear_bit(p, b, "b")
           bits == {m \in p.bitmap.b : (m - 1) \div 8 # b + 1}
<1>1. p.bitmap \in Bits /\ p.gd \in Left /\ p.sb \in Super
  BY DEF Process
<1>2. bits = p.bitmap.b
  <2> SUFFICES ASSUME NEW m \in p.bitmap.b PROVE (m - 1) \div 8 # b + 1
    OBVIOUS
  <2>1. BLOCKS \in Nat /\ m \in 1 .. BLOCKS /\ b \in 1 .. BLOCKS /\ 8 * (b + 1) >= BLOCKS
    <3>1. BLOCKS \in Nat /\ Block \subseteq 1 .. BLOCKS /\ \A x \in Block \ {ROOT_BLOCK} : 8 * (x + 1) >= BLOCKS
      BY Ext2Assumption, Zenon
    <3>2. m \in Block
      BY <1>1 DEF Bits
    <3> QED BY <3>1, <3>2
  <2> QED BY <2>1
<1>3. q = [p EXCEPT !.bitmap["b"] = bits, !.gd["b"] = @ + 1, !.sb["b"] = (@ + 1) % SB_MOD]
  BY <1>1 DEF clear_bit, Process, Bits
<1> HIDE DEF bits, q
<1>4. /\ q.bitmap = [p.bitmap EXCEPT !["b"] = bits] /\ q.gd = [p.gd EXCEPT !["b"] = @ + 1]
      /\ q.sb = [p.sb EXCEPT !["b"] = (@ + 1) % SB_MOD] /\ SameRest(p, q) /\ q.ok = p.ok /\ q.got = p.got
  BY <1>3 DEF Process, SameRest
<1>5. /\ q.bitmap = p.bitmap /\ q.gd = [b |-> p.gd.b + 1, i |-> p.gd.i]
      /\ q.sb = [b |-> (p.sb.b + 1) % SB_MOD, i |-> p.sb.i]
  BY <1>1, <1>2, <1>4 DEF Bits, Left, Super
<1>6. (p.sb.b + 1) % SB_MOD \in 0 .. SB_MOD - 1
  BY <1>1, Wraps DEF Super
<1>7. q.gd \in Left /\ q.sb \in Super
  BY <1>1, <1>5, <1>6 DEF Left, Super
<1>8. q = [p EXCEPT !.bitmap = q.bitmap, !.gd = q.gd, !.sb = q.sb]
  BY <1>3, <1>4 DEF Process
<1>9. q \in Process
  BY <1>5, <1>7, <1>8, ZenonT(30) DEF Process
<1> QED BY <1>4, <1>5, <1>9 DEF q

LEMMA ClearInodeBit ==
    ASSUME NEW p \in Process, NEW n \in Inode \ {ROOT}
    PROVE  LET q == clear_bit(p, n, "i")
           IN  /\ q \in Process /\ SameRest(p, q) /\ q.ok = p.ok /\ q.bitmap = p.bitmap
               /\ q.gd = [b |-> p.gd.b, i |-> p.gd.i + 1]
               /\ q.sb = [b |-> p.sb.b, i |-> (p.sb.i + 1) % SB_MOD]
<1> DEFINE q == clear_bit(p, n, "i")
           bits == {m \in p.bitmap.i : (m - 1) \div 8 # n + 1}
<1>1. p.bitmap \in Bits /\ p.gd \in Left /\ p.sb \in Super
  BY DEF Process
<1>2. bits = p.bitmap.i
  <2> SUFFICES ASSUME NEW m \in p.bitmap.i PROVE (m - 1) \div 8 # n + 1
    OBVIOUS
  <2>1. INODES \in Nat /\ m \in 1 .. INODES /\ n \in 1 .. INODES /\ 8 * (n + 1) >= INODES
    <3>1. INODES \in Nat /\ Inode \subseteq 1 .. INODES /\ \A x \in Inode \ {ROOT} : 8 * (x + 1) >= INODES
      BY Ext2Assumption, Zenon
    <3>2. m \in Inode
      BY <1>1 DEF Bits
    <3> QED BY <3>1, <3>2
  <2> QED BY <2>1
<1>3. q = [p EXCEPT !.bitmap["i"] = bits, !.gd["i"] = @ + 1, !.sb["i"] = (@ + 1) % SB_MOD]
  BY <1>1 DEF clear_bit, Process, Bits
<1> HIDE DEF bits, q
<1>4. /\ q.bitmap = [p.bitmap EXCEPT !["i"] = bits] /\ q.gd = [p.gd EXCEPT !["i"] = @ + 1]
      /\ q.sb = [p.sb EXCEPT !["i"] = (@ + 1) % SB_MOD] /\ SameRest(p, q) /\ q.ok = p.ok /\ q.got = p.got
  BY <1>3 DEF Process, SameRest
<1>5. /\ q.bitmap = p.bitmap /\ q.gd = [b |-> p.gd.b, i |-> p.gd.i + 1]
      /\ q.sb = [b |-> p.sb.b, i |-> (p.sb.i + 1) % SB_MOD]
  BY <1>1, <1>2, <1>4 DEF Bits, Left, Super
<1>6. (p.sb.i + 1) % SB_MOD \in 0 .. SB_MOD - 1
  BY <1>1, Wraps DEF Super
<1>7. q.gd \in Left /\ q.sb \in Super
  BY <1>1, <1>5, <1>6 DEF Left, Super
<1>8. q = [p EXCEPT !.bitmap = q.bitmap, !.gd = q.gd, !.sb = q.sb]
  BY <1>3, <1>4 DEF Process
<1>9. q \in Process
  BY <1>5, <1>7, <1>8 DEF Process
<1> QED BY <1>4, <1>5, <1>9 DEF q

(* Blocks are zeroed, and at most m given back.                              *)
Zeroed(p, q, m) ==
    /\ q \in Process /\ q.bitmap = p.bitmap /\ q.inode = p.inode /\ q.ok = p.ok
    /\ \A c \in Block : /\ q.entries[c] = <<>> \/ q.entries[c] = p.entries[c]
                        /\ q.words[c] = <<>> \/ q.words[c] = p.words[c]
    /\ p.gd.b <= q.gd.b /\ q.gd.b <= p.gd.b + m /\ q.gd.i = p.gd.i
    /\ p.gd.b + m < SB_MOD /\ p.sb = p.gd => q.sb = q.gd

LEMMA ZeroedNone ==
    ASSUME NEW p \in Process PROVE Zeroed(p, p, 0)
<1>1. p.gd.b \in Nat
  BY DEF Process, Left
<1> QED BY <1>1 DEF Zeroed

LEMMA ZeroedMore ==
    ASSUME NEW p \in Process, NEW q, NEW r, NEW m \in Nat, NEW l \in Nat, Zeroed(p, q, m), Zeroed(q, r, l)
    PROVE  Zeroed(p, r, m + l)
<1>1. q \in Process /\ r \in Process /\ p.gd.b \in Nat /\ q.gd.b \in Nat /\ r.gd.b \in Nat /\ SB_MOD \in Nat
  BY Bounds DEF Zeroed, Process, Left
<1>2. p.gd.b <= r.gd.b /\ r.gd.b <= p.gd.b + (m + l) /\ r.gd.i = p.gd.i
  <2>1. /\ p.gd.b <= q.gd.b /\ q.gd.b <= p.gd.b + m /\ q.gd.i = p.gd.i
        /\ q.gd.b <= r.gd.b /\ r.gd.b <= q.gd.b + l /\ r.gd.i = q.gd.i
    BY DEF Zeroed
  <2> QED BY <1>1, <2>1
<1>3. ASSUME p.gd.b + (m + l) < SB_MOD, p.sb = p.gd PROVE r.sb = r.gd
  <2>1. q.gd.b <= p.gd.b + m /\ (p.gd.b + m < SB_MOD /\ p.sb = p.gd => q.sb = q.gd)
        /\ (q.gd.b + l < SB_MOD /\ q.sb = q.gd => r.sb = r.gd)
    BY DEF Zeroed
  <2>2. p.gd.b + m < SB_MOD /\ q.gd.b + l < SB_MOD
    BY <1>1, <1>3, <2>1
  <2> QED BY <1>3, <2>1, <2>2
<1>4. \A c \in Block : /\ r.entries[c] = <<>> \/ r.entries[c] = p.entries[c]
                       /\ r.words[c] = <<>> \/ r.words[c] = p.words[c]
  BY DEF Zeroed
<1>5. r.bitmap = p.bitmap /\ r.inode = p.inode /\ r.ok = p.ok
  BY DEF Zeroed
<1> QED BY <1>1, <1>2, <1>3, <1>4, <1>5 DEF Zeroed

LEMMA ClearBlock ==
    ASSUME NEW p \in Process, NEW b \in Block \ {ROOT_BLOCK}
    PROVE  Zeroed(p, clear_block(p, b), 1)
<1> DEFINE z == zero_block(p, b)
           q == clear_bit(z, b, "b")
<1>1. /\ z \in Process /\ SameBits(p, z) /\ z.inode = p.inode /\ z.ok = p.ok
      /\ z.entries = [p.entries EXCEPT ![b] = <<>>] /\ z.words = [p.words EXCEPT ![b] = <<>>]
  BY ZeroIs
<1> HIDE DEF z
<1>2. /\ q \in Process /\ SameRest(z, q) /\ q.ok = z.ok /\ q.bitmap = z.bitmap
      /\ q.gd = [b |-> z.gd.b + 1, i |-> z.gd.i] /\ q.sb = [b |-> (z.sb.b + 1) % SB_MOD, i |-> z.sb.i]
  BY <1>1, ClearBlockBit
<1> HIDE DEF q
<1>3. p.gd \in Left /\ p.gd.b \in Nat /\ p.sb \in Super /\ SB_MOD \in Nat
  BY Bounds DEF Process, Left
<1>4. q.gd = [b |-> p.gd.b + 1, i |-> p.gd.i] /\ q.sb = [b |-> (p.sb.b + 1) % SB_MOD, i |-> p.sb.i]
      /\ q.bitmap = p.bitmap /\ q.inode = p.inode /\ q.ok = p.ok /\ q.entries = z.entries /\ q.words = z.words
  BY <1>1, <1>2 DEF SameBits, SameRest
<1>5. ASSUME p.gd.b + 1 < SB_MOD, p.sb = p.gd PROVE q.sb = q.gd
  <2>1. (p.gd.b + 1) % SB_MOD = p.gd.b + 1
    BY <1>3, <1>5, Small
  <2> QED BY <1>4, <1>5, <2>1
<1>6. p.entries \in [Block -> Seq(Entry)] /\ p.words \in [Block -> Seq(Block)]
  BY DEF Process
<1>7. \A c \in Block : /\ q.entries[c] = <<>> \/ q.entries[c] = p.entries[c]
                       /\ q.words[c] = <<>> \/ q.words[c] = p.words[c]
  BY <1>1, <1>4, <1>6
<1>8. p.gd.b <= q.gd.b /\ q.gd.b <= p.gd.b + 1 /\ q.gd.i = p.gd.i
  BY <1>3, <1>4
<1>9. Zeroed(p, q, 1)
  BY <1>2, <1>4, <1>5, <1>7, <1>8 DEF Zeroed
<1> QED BY <1>9 DEF clear_block, q, z
LEMMA ClearDirect ==
    ASSUME NEW p \in Process, NEW blocks, NEW n \in Nat, \A j \in 1 .. n : blocks[j] \in Block \ {ROOT_BLOCK}
    PROVE  Zeroed(p, clear_direct(p, blocks, n), n)
<1> DEFINE F == [j \in 1 .. n |-> [q \in Process |-> clear_block(q, blocks[j])]]
           Recursion(h) == h = [j \in 0 .. n |-> IF j = 0 THEN p ELSE clear_block(h[j - 1], blocks[j])]
<1>1. ASSUME NEW j \in 1 .. n, NEW q \in Process
      PROVE  Zeroed(q, clear_block(q, blocks[j]), 1) /\ clear_block(q, blocks[j]) \in Process
  BY ClearBlock DEF Zeroed
<1>2. F \in [1 .. n -> [Process -> Process]]
  BY <1>1
<1>3. \A j \in 1 .. n : \A q \in Process : F[j][q] = clear_block(q, blocks[j])
  OBVIOUS
<1> HIDE DEF F
<1>4. PICK f \in [0 .. n -> Process] : Iterates(f, n, p, F)
  BY <1>2, IterationExists
<1>5. ASSUME NEW j \in 1 .. n PROVE f[j] = clear_block(f[j - 1], blocks[j])
  <2>1. f[j - 1] \in Process
    BY <1>4
  <2> QED BY <1>3, <1>4, <2>1 DEF Iterates
<1>6. f[0] = p
  BY <1>4 DEF Iterates
<1>7. Recursion(f)
  <2>1. ASSUME NEW j \in 0 .. n
        PROVE  f[j] = IF j = 0 THEN p ELSE clear_block(f[j - 1], blocks[j])
    <3>1. j = 0 \/ j \in 1 .. n
      OBVIOUS
    <3> QED BY <1>5, <1>6, <3>1
  <2> QED BY <1>4, <2>1
<1> DEFINE h == CHOOSE h : Recursion(h)
<1>8. Recursion(h)
  BY <1>7
<1>9. clear_direct(p, blocks, n) = h[n]
  BY DEF clear_direct
<1>10. \A j \in 0 .. n : h[j] = IF j = 0 THEN p ELSE clear_block(h[j - 1], blocks[j])
  <2>1. h = [j \in 0 .. n |-> h[j]] /\ \A j \in 0 .. n : h[j] = IF j = 0 THEN p ELSE clear_block(h[j - 1], blocks[j])
    BY <1>8
  <2> QED BY <2>1
<1> HIDE DEF h
<1> DEFINE I == {j \in 0 .. n : h[j] \in Process /\ Zeroed(p, h[j], j)}
<1>11. 0 \in I
  BY <1>10, ZeroedNone
<1>12. ASSUME NEW j \in 1 .. n, j - 1 \in I PROVE j \in I
  <2>1. j \in 0 .. n /\ j # 0 /\ h[j - 1] \in Process /\ Zeroed(p, h[j - 1], j - 1) /\ j - 1 \in Nat /\ (j - 1) + 1 = j
    BY <1>12
  <2>2. h[j] = clear_block(h[j - 1], blocks[j])
    BY <1>10, <2>1
  <2>3. Zeroed(h[j - 1], h[j], 1) /\ h[j] \in Process
    BY <1>1, <2>1, <2>2
  <2>4. Zeroed(p, h[j], (j - 1) + 1)
    BY <2>1, <2>3, ZeroedMore
  <2> QED BY <2>1, <2>3, <2>4
<1>13. 0 .. n \subseteq I
  <2> HIDE DEF I
  <2> QED BY <1>11, <1>12, Steps
<1>14. Zeroed(p, h[n], n)
  BY <1>13
<1> QED BY <1>9, <1>14

(* The indirect block ind, and where the walk over its list is: at the block *)
(* before it, again and again, or at the end.                                *)
AtList(s, ind) ==
    /\ s.p \in Process /\ s.p.entries[ind] = <<>>
    /\ s.p.words[ind] # <<>> => s.p.words[ind][1] = ind - 1 /\ ind - 1 \in Block \ {ROOT_BLOCK}
    /\ s.b = 0 \/ (s.b = ind - 1 /\ ind - 1 \in Block \ {ROOT_BLOCK})

LEMMA FirstWord ==
    ASSUME NEW p, NEW ind \in Block, p.entries[ind] = <<>>,
           p.words[ind] # <<>> => p.words[ind][1] = ind - 1 /\ ind - 1 \in Block \ {ROOT_BLOCK}
    PROVE  first_word(p, ind) = 0 \/ (first_word(p, ind) = ind - 1 /\ ind - 1 \in Block \ {ROOT_BLOCK})
BY DEF first_word

LEMMA ClearNext ==
    ASSUME NEW ind \in Block, NEW s, AtList(s, ind)
    PROVE  AtList(clear_next(s), ind) /\ Zeroed(s.p, clear_next(s).p, 1)
<1> DEFINE r == clear_block(s.p, s.b)
           n == clear_next(s)
<1>1. s.p \in Process /\ ind \in Nat
  BY Finite DEF AtList
<1>2. CASE s.b = 0
  <2>1. n = s
    BY <1>2 DEF clear_next
  <2>2. Zeroed(s.p, s.p, 0)
    BY <1>1, ZeroedNone
  <2>3. Zeroed(s.p, s.p, 1)
    <3>1. s.p.gd.b \in Nat /\ SB_MOD \in Nat
      BY <1>1, Bounds DEF Process, Left
    <3> QED BY <2>2, <3>1 DEF Zeroed
  <2> QED BY <2>1, <2>3
<1>3. CASE s.b # 0
  <2>1. s.b = ind - 1 /\ s.b \in Block \ {ROOT_BLOCK} /\ s.b + 1 = ind
    BY <1>1, <1>3 DEF AtList
  <2>2. Zeroed(s.p, r, 1)
    BY <1>1, <2>1, ClearBlock
  <2>3. n = [p |-> r, b |-> first_word(r, ind)]
    BY <1>3, <2>1 DEF clear_next
  <2> HIDE DEF r, n
  <2>4. n.p = r /\ n.b = first_word(r, ind)
    BY <2>3
  <2>5. r \in Process /\ r.entries[ind] = <<>> /\ (r.words[ind] = <<>> \/ r.words[ind] = s.p.words[ind])
    BY <2>2 DEF Zeroed, AtList
  <2>6. r.words[ind] # <<>> => r.words[ind][1] = ind - 1 /\ ind - 1 \in Block \ {ROOT_BLOCK}
    BY <2>5 DEF AtList
  <2>7. AtList(n, ind)
    BY <2>4, <2>5, <2>6, FirstWord DEF AtList
  <2> QED BY <2>2, <2>4, <2>7 DEF n
<1> QED BY <1>2, <1>3
LEMMA ClearListed ==
    ASSUME NEW p \in Process, NEW ind \in Block, p.entries[ind] = <<>>, ListsFollow(p)
    PROVE  Zeroed(p, clear_listed(p, ind), ADDRS - 1)
<1> DEFINE N == ADDRS - 1
           start == [p |-> p, b |-> first_word(p, ind)]
           T == {s \in [p : Process, b : {0, ind - 1}] : AtList(s, ind)}
           F == [k \in 1 .. N |-> [s \in T |-> clear_next(s)]]
           Recursion(h) == h = [k \in 0 .. ADDRS - 1 |->
                                   IF k = 0 THEN [p |-> p, b |-> first_word(p, ind)] ELSE clear_next(h[k - 1])]
<1>1. N \in Nat
  <2>1. ADDRS \in Nat \ {0}
    BY Ext2Assumption, Zenon
  <2> QED BY <2>1
<1>2. start \in T
  <2>1. p.words[ind] # <<>> => p.words[ind][1] = ind - 1 /\ ind - 1 \in Block \ {ROOT_BLOCK}
    <3>1. p.words[ind] \in Seq(Block)
      BY DEF Process
    <3>2. ASSUME p.words[ind] # <<>> PROVE p.words[ind][1] \in Block
      <4>1. Len(p.words[ind]) \in Nat /\ Len(p.words[ind]) # 0
        BY <3>1, <3>2
      <4>2. 1 \in 1 .. Len(p.words[ind])
        BY <4>1
      <4> QED BY <3>1, <4>2
    <3> QED BY <3>2 DEF ListsFollow
  <2>2. first_word(p, ind) = 0 \/ (first_word(p, ind) = ind - 1 /\ ind - 1 \in Block \ {ROOT_BLOCK})
    BY <2>1, FirstWord
  <2>3. start.p = p /\ start.b = first_word(p, ind) /\ start \in [p : Process, b : {0, ind - 1}]
    BY <2>2
  <2> HIDE DEF start
  <2>4. AtList(start, ind)
    BY <2>1, <2>2, <2>3 DEF AtList
  <2> QED BY <2>3, <2>4
<1>3. ASSUME NEW s \in T PROVE clear_next(s) \in T /\ Zeroed(s.p, clear_next(s).p, 1)
  <2>1. AtList(clear_next(s), ind) /\ Zeroed(s.p, clear_next(s).p, 1)
    BY ClearNext
  <2>2. clear_next(s) = s \/ clear_next(s) = [p |-> clear_next(s).p, b |-> clear_next(s).b]
    <3> DEFINE r == clear_block(s.p, s.b)
               w == first_word(r, s.b + 1)
    <3>1. clear_next(s) = s \/ clear_next(s) = [p |-> r, b |-> w]
      BY DEF clear_next
    <3> HIDE DEF r, w
    <3> QED BY <3>1
  <2>3. clear_next(s).p \in Process /\ clear_next(s).b \in {0, ind - 1}
    BY <2>1 DEF AtList
  <2>4. clear_next(s) \in [p : Process, b : {0, ind - 1}]
    <3> DEFINE x == clear_next(s).p
               y == clear_next(s).b
    <3>1. x \in Process /\ y \in {0, ind - 1}
      BY <2>3
    <3> HIDE DEF x, y
    <3>2. [p |-> x, b |-> y] \in [p : Process, b : {0, ind - 1}]
      BY <3>1
    <3> QED BY <2>2, <3>2 DEF x, y
  <2> QED BY <2>1, <2>4
<1>4. F \in [1 .. N -> [T -> T]]
  BY <1>3
<1>5. \A k \in 1 .. N : \A s \in T : F[k][s] = clear_next(s)
  OBVIOUS
<1> HIDE DEF F
<1>6. PICK f \in [0 .. N -> T] : Iterates(f, N, start, F)
  <2> HIDE DEF T, N, start
  <2> QED BY <1>1, <1>2, <1>4, IterationExists
<1>7. ASSUME NEW k \in 1 .. N PROVE f[k] = clear_next(f[k - 1])
  <2>1. f[k - 1] \in T
    <3> HIDE DEF T, N
    <3> QED BY <1>1, <1>6
  <2> QED BY <1>5, <1>6, <2>1 DEF Iterates
<1>8. f[0] = start
  BY <1>6 DEF Iterates
<1>9. Recursion(f)
  <2>1. ASSUME NEW k \in 0 .. N
        PROVE  f[k] = IF k = 0 THEN start ELSE clear_next(f[k - 1])
    <3>1. k = 0 \/ k \in 1 .. N
      BY <1>1
    <3> QED BY <1>7, <1>8, <3>1
  <2>2. f = [k \in 0 .. N |-> IF k = 0 THEN start ELSE clear_next(f[k - 1])]
    <3> HIDE DEF T, N, start
    <3> QED BY <1>6, <2>1
  <2> QED BY <2>2
<1> DEFINE h == CHOOSE h : Recursion(h)
<1>10. Recursion(h)
  BY <1>9
<1>11. clear_listed(p, ind) = h[N].p
  BY DEF clear_listed
<1>12. \A k \in 0 .. N : h[k] = IF k = 0 THEN start ELSE clear_next(h[k - 1])
  <2>1. h = [k \in 0 .. N |-> h[k]] /\ \A k \in 0 .. N : h[k] = IF k = 0 THEN start ELSE clear_next(h[k - 1])
    BY <1>10
  <2> QED BY <2>1
<1>13. start.p = p
  OBVIOUS
<1> HIDE DEF h, T, N, start
<1> DEFINE I == {k \in 0 .. N : h[k] \in T /\ Zeroed(p, h[k].p, k)}
<1>14. 0 \in I
  BY <1>1, <1>2, <1>12, <1>13, ZeroedNone
<1>15. ASSUME NEW k \in 1 .. N, k - 1 \in I PROVE k \in I
  <2>1. k \in 0 .. N /\ k # 0 /\ h[k - 1] \in T /\ Zeroed(p, h[k - 1].p, k - 1) /\ k - 1 \in Nat /\ (k - 1) + 1 = k
    BY <1>1, <1>15
  <2>2. h[k] = clear_next(h[k - 1])
    BY <1>12, <2>1
  <2>3. Zeroed(h[k - 1].p, h[k].p, 1) /\ h[k] \in T
    BY <1>3, <2>1, <2>2
  <2>4. Zeroed(p, h[k].p, (k - 1) + 1)
    BY <2>1, <2>3, ZeroedMore
  <2> QED BY <2>1, <2>3, <2>4
<1>16. 0 .. N \subseteq I
  <2> HIDE DEF I
  <2> QED BY <1>1, <1>14, <1>15, Steps
<1>17. Zeroed(p, h[N].p, N)
  BY <1>1, <1>16
<1> QED BY <1>11, <1>17 DEF N

LEMMA ZeroedWithin ==
    ASSUME NEW p \in Process, NEW q, NEW m \in Nat, NEW n \in Nat, m <= n, Zeroed(p, q, m)
    PROVE  Zeroed(p, q, n)
<1>1. q \in Process /\ p.gd.b \in Nat /\ q.gd.b \in Nat /\ SB_MOD \in Nat
  BY Bounds DEF Zeroed, Process, Left
<1>2. q.gd.b <= p.gd.b + n
  <2>1. q.gd.b <= p.gd.b + m
    BY DEF Zeroed
  <2> QED BY <1>1, <2>1
<1>3. p.gd.b + n < SB_MOD => p.gd.b + m < SB_MOD
  BY <1>1
<1> QED BY <1>2, <1>3 DEF Zeroed

LEMMA ClearAll ==
    ASSUME NEW p \in Process, NEW node \in Node, ListsFollow(p),
           Len(node.block) > NDIRECT => p.entries[Ind(node)] = <<>>,
           \A j \in Kept(node) : node.block[j] # ROOT_BLOCK
    PROVE  Zeroed(p, clear_all(p, node), Gain)
<1> DEFINE L == Len(node.block)
           ind == node.block[NDIRECT + 1]
<1>1. NDIRECT \in Nat \ {0} /\ ADDRS \in Nat \ {0} /\ L \in Nat /\ Gain = NDIRECT + ADDRS
      /\ \A j \in Kept(node) : node.block[j] \in Block \ {ROOT_BLOCK}
  <2>1. NDIRECT \in Nat \ {0} /\ ADDRS \in Nat \ {0}
    BY Ext2Assumption, Zenon
  <2>2. node.block \in Seq(Block)
    BY DEF Node
  <2>3. L \in Nat /\ \A j \in 1 .. L : node.block[j] \in Block
    BY <2>2
  <2>4. Kept(node) \subseteq 1 .. L
    BY <2>1, <2>3 DEF Kept
  <2> QED BY <2>1, <2>3, <2>4 DEF Gain
<1> HIDE DEF L
<1>2. CASE L <= NDIRECT
  <2>1. clear_all(p, node) = clear_direct(p, node.block, L)
    BY <1>2 DEF clear_all, L
  <2>2. Zeroed(p, clear_direct(p, node.block, L), L)
    <3>1. Kept(node) = 1 .. L
      BY <1>1, <1>2 DEF Kept, L
    <3> QED BY <1>1, <3>1, ClearDirect
  <2>3. Gain \in Nat /\ L <= Gain
    BY <1>1, <1>2
  <2> QED BY <1>1, <2>1, <2>2, <2>3, ZeroedWithin
<1>3. CASE ~(L <= NDIRECT)
  <2> DEFINE q == clear_direct(p, node.block, NDIRECT)
             r == clear_listed(q, ind)
             z == clear_block(r, ind)
  <2>1. clear_all(p, node) = z
    BY <1>3 DEF clear_all, L
  <2>0. Kept(node) = 1 .. NDIRECT + 1
    BY <1>1, <1>3 DEF Kept, L
  <2>2. ind \in Block \ {ROOT_BLOCK} /\ p.entries[ind] = <<>> /\ ADDRS - 1 \in Nat
    BY <1>1, <1>3, <2>0 DEF Ind, L
  <2>3. Zeroed(p, q, NDIRECT)
    <3>1. 1 .. NDIRECT \subseteq Kept(node)
      BY <1>1, <2>0
    <3> QED BY <1>1, <3>1, ClearDirect
  <2> HIDE DEF q, ind
  <2>4. q \in Process /\ q.entries[ind] = <<>> /\ ListsFollow(q)
    BY <2>2, <2>3 DEF Zeroed, ListsFollow
  <2>5. Zeroed(q, r, ADDRS - 1)
    BY <2>2, <2>4, ClearListed
  <2> HIDE DEF r
  <2>6. Zeroed(r, z, 1)
    BY <2>2, <2>5, ClearBlock DEF Zeroed
  <2> HIDE DEF z
  <2>7. Zeroed(p, r, NDIRECT + (ADDRS - 1))
    BY <1>1, <2>2, <2>3, <2>5, ZeroedMore
  <2>8. Zeroed(p, z, NDIRECT + (ADDRS - 1) + 1)
    <3>1. NDIRECT + (ADDRS - 1) \in Nat
      BY <1>1, <2>2
    <3> QED BY <2>6, <2>7, <3>1, ZeroedMore
  <2>9. NDIRECT + (ADDRS - 1) + 1 = Gain
    BY <1>1
  <2> QED BY <2>1, <2>8, <2>9
<1> QED BY <1>2, <1>3
(* The indirect block is a block in use.                                     *)
LEMMA IndIn ==
    ASSUME NEW node \in Node, NEW S, OneEach(node, S), Len(node.block) > NDIRECT
    PROVE  Ind(node) \in S
<1>1. NDIRECT \in Nat \ {0}
  BY Ext2Assumption, Zenon
<1>2. Len(node.block) \in Nat
  BY DEF Node
<1>3. NDIRECT + 1 \in 1 .. Len(node.block)
  BY <1>1, <1>2
<1> QED BY <1>3 DEF OneEach, Ind

(* Entries of one block that are replaced by others.                         *)
LEMMA FilledDone ==
    ASSUME NEW q, NEW T \in [Inode -> Node], NEW tidy \in BOOLEAN, Done(q, T, tidy), NEW b \in Block,
           q.entries[b] # <<>>, NEW v \in Seq(Entry), v # <<>>,
           \A j \in 1 .. Len(v) : Leads(v[j], q.bitmap.i), Fills(q.entries[b]) => Fills(v),
           NEW r, Filled(q, r, b, v)
    PROVE  Done(r, T, tidy)
<1>1. /\ q \in Process /\ Counted(q) /\ Packed(q) /\ NamesLead(q, q.bitmap.i) /\ ListsFollow(q)
      /\ LeftFirst(q, q.bitmap.b) /\ OneUse(q) /\ Owned(q, T) /\ (tidy => Neat(q) /\ Apart(q, T))
  BY DEF Done
<1>2. \A x \in Block : /\ r.entries[x] = IF x = b THEN v ELSE q.entries[x]
                       /\ r.words[x] = IF x = b THEN <<>> ELSE q.words[x]
  BY DEF Filled
<1>3. r \in Process /\ r.bitmap = q.bitmap /\ r.gd = q.gd /\ r.sb = q.sb /\ r.ok = q.ok
  BY DEF Filled
<1>4. q.bitmap.b \subseteq Block /\ q.bitmap.i \subseteq Inode
  BY <1>1 DEF Process, Bits
<1>5. \A i \in q.bitmap.i : Len(T[i].block) > NDIRECT =>
         /\ Ind(T[i]) \in Block /\ r.entries[Ind(T[i])] = <<>> /\ r.words[Ind(T[i])] = q.words[Ind(T[i])]
  <2> SUFFICES ASSUME NEW i \in q.bitmap.i, Len(T[i].block) > NDIRECT
               PROVE  /\ Ind(T[i]) \in Block /\ r.entries[Ind(T[i])] = <<>>
                      /\ r.words[Ind(T[i])] = q.words[Ind(T[i])]
    OBVIOUS
  <2>1. T[i] \in Node /\ OneEach(T[i], q.bitmap.b) /\ q.entries[Ind(T[i])] = <<>>
    BY <1>1, <1>4 DEF Owned
  <2>2. Ind(T[i]) \in Block
    BY <1>4, <2>1, IndIn
  <2> QED BY <1>2, <2>1, <2>2
<1>6. Counted(r) /\ Packed(r)
  BY <1>1, <1>3 DEF Counted, Packed
<1>7. NamesLead(r, r.bitmap.i)
  BY <1>1, <1>2, <1>3 DEF NamesLead
<1>8. ListsFollow(r) /\ OneUse(r) /\ LeftFirst(r, r.bitmap.b)
  BY <1>1, <1>2, <1>3 DEF ListsFollow, OneUse, LeftFirst
<1>9. Owned(r, T)
  BY <1>1, <1>3, <1>5 DEF Owned
<1>10. ASSUME tidy PROVE Neat(r) /\ Apart(r, T)
  <2>1. Neat(r)
    BY <1>1, <1>2, <1>3, <1>10 DEF Neat
  <2>2. \A i \in q.bitmap.i : List(r, T[i]) = List(q, T[i])
    BY <1>5 DEF List
  <2>3. Apart(r, T)
    BY <1>1, <1>3, <1>10, <2>2 DEF Apart
  <2> QED BY <2>1, <2>3
<1> QED BY <1>3, <1>6, <1>7, <1>8, <1>9, <1>10 DEF Done

(* The image without the entry: what else rm keeps.                          *)
Removed(s, g, tidy) ==
    Done(g, s.inode, tidy) /\ g.inode = s.inode /\ g.bitmap = s.bitmap /\ g.gd = s.gd /\ g.ok = s.ok

LEMMA DirRmSpot ==
    ASSUME NEW s, NEW tidy \in BOOLEAN, Done(s, s.inode, tidy), NEW t \in s.bitmap.i, NEW name,
           hit_block(s.entries, s.inode[t], name) # 0
    PROVE  Removed(s, dir_rm_spot(s, s.inode[t], name), tidy)
<1> DEFINE node == s.inode[t]
           j == hit_block(s.entries, node, name)
           b == node.block[j]
           k == hit(s.entries, b, name)
           old == s.entries[b]
           v == Joined(old, k)
           g == dir_rm_spot(s, node, name)
<1>1. s \in Process /\ t \in Inode /\ node \in Node /\ s.inode \in [Inode -> Node] /\ s.entries \in [Block -> Seq(Entry)]
  BY DEF Done, Process, Bits
<1>2. g = [s EXCEPT !.entries[b] = v]
  BY DEF dir_rm_spot, Joined
<1>3. j \in 1 .. Len(node.block) /\ k # 0
  BY HitBlockIs
<1>4. b \in Block
  BY <1>1, <1>3 DEF Node
<1>5. k \in 1 .. Len(old)
  BY <1>3, HitIs
<1> HIDE DEF g, k, b, j, node
<1>6. old \in Seq(Entry) /\ old # <<>>
  <2>1. old \in Seq(Entry)
    BY <1>1, <1>4
  <2>2. Len(<<>>) = 0
    OBVIOUS
  <2> HIDE DEF old
  <2> QED BY <1>5, <2>1, <2>2
<1>7. /\ v \in Seq(Entry) /\ v # <<>>
      /\ \A m \in 1 .. Len(v) : v[m].name = "" \/ \E n \in 1 .. Len(old) : Alike(v[m], old[n])
      /\ Fills(old) => Fills(v)
  <2> HIDE DEF old
  <2> QED BY <1>5, <1>6, JoinedIs, Zenon
<1> HIDE DEF v
<1>8. \A m \in 1 .. Len(v) : Leads(v[m], s.bitmap.i)
  <2>1. \A n \in 1 .. Len(old) : Leads(old[n], s.bitmap.i)
    BY <1>4 DEF Done, NamesLead
  <2>2. "" \notin Name
    BY NotNames, Zenon
  <2> SUFFICES ASSUME NEW m \in 1 .. Len(v) PROVE Leads(v[m], s.bitmap.i)
    OBVIOUS
  <2>3. CASE v[m].name = ""
    BY <2>2, <2>3, Zenon DEF Leads
  <2>4. CASE \E n \in 1 .. Len(old) : Alike(v[m], old[n])
    BY <2>1, <2>4, AlikeLeads
  <2>5. v[m].name = "" \/ \E n \in 1 .. Len(old) : Alike(v[m], old[n])
    BY <1>7, Zenon
  <2> QED BY <2>3, <2>4, <2>5, Zenon
<1>9. s.words[b] = <<>> /\ s.words \in [Block -> Seq(Block)]
  BY <1>1, <1>4, <1>6 DEF Done, OneUse, Process
<1>10. g \in Process /\ SameBits(s, g) /\ g.inode = s.inode /\ g.dir = s.dir /\ g.got = s.got /\ g.at = s.at /\ g.ok = s.ok
       /\ g.words = s.words /\ g.entries = [s.entries EXCEPT ![b] = v]
  <2> DEFINE table == [s.entries EXCEPT ![b] = v]
  <2>1. g = [s EXCEPT !.entries = table]
    BY <1>1, <1>2 DEF Process
  <2>2. table \in [Block -> Seq(Entry)]
    <3>1. v \in Seq(Entry)
      BY <1>7, Zenon
    <3> QED BY <1>1, <1>4, <3>1
  <2> HIDE DEF table
  <2> QED BY <1>1, <2>1, <2>2 DEF Process, SameBits, table
<1>11. Filled(s, g, b, v)
  <2>1. \A x \in Block : /\ g.entries[x] = IF x = b THEN v ELSE s.entries[x]
                         /\ g.words[x] = IF x = b THEN <<>> ELSE s.words[x]
    BY <1>1, <1>9, <1>10
  <2> QED BY <1>10, <2>1 DEF Filled, SameBits
<1>12. Done(g, s.inode, tidy)
  <2>1. s.inode \in [Inode -> Node] /\ b \in Block /\ s.entries[b] # <<>> /\ v \in Seq(Entry) /\ v # <<>>
        /\ (Fills(s.entries[b]) => Fills(v))
    BY <1>1, <1>4, <1>6, <1>7, Zenon
  <2> HIDE DEF old
  <2> QED BY <1>8, <1>11, <2>1, FilledDone, Zenon
<1>13. Removed(s, g, tidy)
  BY <1>10, <1>12 DEF Removed, SameBits
<1> QED BY <1>13 DEF g, node

(* Zeroing blocks keeps what holds between commands.                         *)
LEMMA ZeroedDone ==
    ASSUME NEW q, NEW T \in [Inode -> Node], NEW tidy \in BOOLEAN, Done(q, T, tidy), NEW m \in Nat, NEW r,
           Zeroed(q, r, m), q.ok => q.gd.b + m < SB_MOD
    PROVE  Done(r, T, tidy)
<1>1. /\ q \in Process /\ Counted(q) /\ Packed(q) /\ NamesLead(q, q.bitmap.i) /\ ListsFollow(q)
      /\ LeftFirst(q, q.bitmap.b) /\ OneUse(q) /\ Owned(q, T) /\ (tidy => Neat(q) /\ Apart(q, T))
  BY DEF Done
<1>2. \A x \in Block : /\ r.entries[x] = <<>> \/ r.entries[x] = q.entries[x]
                       /\ r.words[x] = <<>> \/ r.words[x] = q.words[x]
  BY DEF Zeroed
<1>3. r \in Process /\ r.bitmap = q.bitmap /\ r.ok = q.ok /\ q.gd.b <= r.gd.b /\ r.gd.i = q.gd.i
  BY DEF Zeroed
<1>4. q.bitmap.b \subseteq Block /\ q.bitmap.i \subseteq Inode
  BY <1>1 DEF Process, Bits
<1>5. \A i \in q.bitmap.i : Len(T[i].block) > NDIRECT =>
         /\ r.entries[Ind(T[i])] = <<>> /\ (r.words[Ind(T[i])] = <<>> \/ r.words[Ind(T[i])] = q.words[Ind(T[i])])
  <2> SUFFICES ASSUME NEW i \in q.bitmap.i, Len(T[i].block) > NDIRECT
               PROVE  /\ r.entries[Ind(T[i])] = <<>>
                      /\ r.words[Ind(T[i])] = <<>> \/ r.words[Ind(T[i])] = q.words[Ind(T[i])]
    OBVIOUS
  <2>1. T[i] \in Node /\ OneEach(T[i], q.bitmap.b) /\ q.entries[Ind(T[i])] = <<>>
    BY <1>1, <1>4 DEF Owned
  <2>2. Ind(T[i]) \in Block
    BY <1>4, <2>1, IndIn
  <2> QED BY <1>2, <2>1, <2>2
<1>6. Counted(r) /\ Packed(r)
  <2>1. Packed(r)
    BY <1>1, <1>3 DEF Packed
  <2>2. q.gd.b \in Nat /\ r.gd.b \in Nat
    BY <1>1, <1>3 DEF Process, Left
  <2>3. Cardinality(Block \ q.bitmap.b) \in Nat
    BY Finite, FS_Subset, FS_CardinalityType
  <2>4. Counted(r)
    BY <1>1, <1>3, <2>2, <2>3 DEF Counted
  <2> QED BY <2>1, <2>4
<1>7. NamesLead(r, r.bitmap.i)
  <2>1. Len(<<>>) = 0 /\ 1 .. 0 = {}
    OBVIOUS
  <2> QED BY <1>1, <1>2, <1>3, <2>1 DEF NamesLead
<1>8. ListsFollow(r) /\ OneUse(r) /\ LeftFirst(r, r.bitmap.b)
  BY <1>1, <1>2, <1>3 DEF ListsFollow, OneUse, LeftFirst
<1>9. Owned(r, T)
  BY <1>1, <1>3, <1>5 DEF Owned
<1>10. ASSUME tidy PROVE Neat(r) /\ Apart(r, T)
  <2>1. q.ok => q.sb = q.gd
    BY <1>1, <1>10 DEF Neat
  <2>2. r.ok => r.sb = r.gd
    BY <1>3, <2>1 DEF Zeroed
  <2>3. Neat(r)
    BY <1>1, <1>2, <1>3, <1>10, <2>2 DEF Neat
  <2>4. \A i \in q.bitmap.i : List(r, T[i]) = <<>> \/ List(r, T[i]) = List(q, T[i])
    BY <1>5 DEF List
  <2>5. Len(<<>>) = 0 /\ 1 .. 0 = {}
    OBVIOUS
  <2>6. \A i \in q.bitmap.i : \A k \in 1 .. Len(List(r, T[i])) : List(r, T[i]) = List(q, T[i])
    BY <2>4, <2>5
  <2>7. Apart(r, T)
    BY <1>1, <1>3, <1>10, <2>6 DEF Apart
  <2> QED BY <2>3, <2>7
<1> QED BY <1>3, <1>6, <1>7, <1>8, <1>9, <1>10 DEF Done
(* Giving an inode back, which then owns nothing.                            *)
LEMMA InodeCleared ==
    ASSUME NEW q, NEW T \in [Inode -> Node], NEW tidy \in BOOLEAN, Done(q, T, tidy),
           NEW x \in Inode \ {ROOT}, q.gd.i + 1 < SB_MOD, NEW V, V = [T EXCEPT ![x] = NoInode]
    PROVE  LET r == clear_inode(q, x)
           IN  /\ Done(r, V, tidy) /\ r.bitmap = q.bitmap /\ r.ok = q.ok
               /\ r.inode = [q.inode EXCEPT ![x] = NoInode]
               /\ r.gd.b = q.gd.b /\ r.gd.i = q.gd.i + 1
<1> DEFINE table == [q.inode EXCEPT ![x] = NoInode]
           u == [q EXCEPT !.inode[x] = NoInode]
           r == clear_bit(u, x, "i")
<1>1. /\ q \in Process /\ Counted(q) /\ Packed(q) /\ NamesLead(q, q.bitmap.i) /\ ListsFollow(q)
      /\ LeftFirst(q, q.bitmap.b) /\ OneUse(q) /\ Owned(q, T) /\ (tidy => Neat(q) /\ Apart(q, T))
  BY DEF Done
<1>2. NoInode \in Node /\ NoInode.block = <<>>
  BY DEF NoInode, Node, Kinds
<1>3. u \in Process /\ SameBits(q, u) /\ SameTables(q, u) /\ u.ok = q.ok /\ u.inode = table
  <2>1. u = [q EXCEPT !.inode = table]
    BY <1>1 DEF Process
  <2>2. table \in [Inode -> Node]
    BY <1>1, <1>2 DEF Process
  <2> HIDE DEF table, u
  <2> QED BY <1>1, <2>1, <2>2 DEF Process, SameBits, SameTables
<1>4. clear_inode(q, x) = r
  BY DEF clear_inode
<1> HIDE DEF u, table
<1>5. /\ r \in Process /\ SameRest(u, r) /\ r.ok = u.ok /\ r.bitmap = u.bitmap
      /\ r.gd = [b |-> u.gd.b, i |-> u.gd.i + 1]
      /\ r.sb = [b |-> u.sb.b, i |-> (u.sb.i + 1) % SB_MOD]
  BY <1>3, ClearInodeBit
<1> HIDE DEF r
<1>6. /\ r.bitmap = q.bitmap /\ r.entries = q.entries /\ r.words = q.words /\ r.ok = q.ok /\ r.inode = table
      /\ r.gd = [b |-> q.gd.b, i |-> q.gd.i + 1] /\ r.sb = [b |-> q.sb.b, i |-> (q.sb.i + 1) % SB_MOD]
  BY <1>3, <1>5 DEF SameBits, SameTables, SameRest
<1>7. q.gd \in Left /\ q.gd.i \in Nat /\ q.bitmap.i \subseteq Inode
  BY <1>1 DEF Process, Left, Bits
<1>8. Counted(r) /\ Packed(r)
  <2>1. Packed(r)
    BY <1>1, <1>6 DEF Packed
  <2>2. Cardinality(Inode \ q.bitmap.i) \in Nat
    BY Finite, FS_Subset, FS_CardinalityType
  <2>3. Counted(r)
    BY <1>1, <1>6, <1>7, <2>2 DEF Counted
  <2> QED BY <2>1, <2>3
<1>9. NamesLead(r, r.bitmap.i) /\ ListsFollow(r) /\ OneUse(r) /\ LeftFirst(r, r.bitmap.b)
  BY <1>1, <1>6 DEF NamesLead, ListsFollow, OneUse, LeftFirst
<1>10. \A i \in q.bitmap.i : V[i] = IF i = x THEN NoInode ELSE T[i]
  BY <1>7
<1>11. Len(NoInode.block) = 0 /\ ~(Len(NoInode.block) > NDIRECT) /\ Kept(NoInode) = {} /\ OneEach(NoInode, q.bitmap.b)
  <2>1. NDIRECT \in Nat \ {0}
    BY Ext2Assumption, Zenon
  <2>2. Len(<<>>) = 0 /\ 1 .. 0 = {} /\ NDIRECT + 1 .. 0 = {}
    BY <2>1
  <2>3. Len(NoInode.block) = 0 /\ ~(Len(NoInode.block) > NDIRECT)
    BY <1>2, <2>1, <2>2
  <2>4. Kept(NoInode) = {}
    BY <2>2, <2>3 DEF Kept
  <2>5. OneEach(NoInode, q.bitmap.b)
    BY <2>2, <2>3, <2>4 DEF OneEach
  <2> QED BY <2>3, <2>4, <2>5
<1>12. Owned(r, V)
  <2>1. \A i \in q.bitmap.i : OneEach(V[i], q.bitmap.b) /\ (Len(V[i].block) > NDIRECT => q.entries[Ind(V[i])] = <<>>)
    BY <1>1, <1>10, <1>11 DEF Owned
  <2>2. \A h, i \in q.bitmap.i : h # i =>
           \A j \in Kept(V[h]), k \in Kept(V[i]) : V[h].block[j] # V[i].block[k]
    BY <1>1, <1>10, <1>11 DEF Owned
  <2>3. \A i \in q.bitmap.i : i # ROOT => \A j \in Kept(V[i]) : V[i].block[j] # ROOT_BLOCK
    BY <1>1, <1>10, <1>11 DEF Owned
  <2> QED BY <1>6, <2>1, <2>2, <2>3 DEF Owned
<1>13. ASSUME tidy PROVE Neat(r) /\ Apart(r, V)
  <2>1. r.ok => r.sb = r.gd
    <3>1. (q.gd.i + 1) % SB_MOD = q.gd.i + 1
      BY <1>7, Small
    <3> QED BY <1>1, <1>6, <1>13, <3>1 DEF Neat
  <2>2. Neat(r)
    BY <1>1, <1>6, <1>13, <2>1 DEF Neat
  <2>3. \A i \in q.bitmap.i : List(r, V[i]) = IF i = x THEN <<>> ELSE List(q, T[i])
    BY <1>6, <1>10, <1>11 DEF List
  <2>4. Len(<<>>) = 0 /\ 1 .. 0 = {}
    OBVIOUS
  <2>5. \A i \in q.bitmap.i : \A k \in 1 .. Len(List(r, V[i])) : i # x /\ List(r, V[i]) = List(q, T[i])
    BY <2>3, <2>4
  <2>6. \A i \in q.bitmap.i : \A j \in Kept(V[i]) : V[i] = T[i]
    BY <1>10, <1>11
  <2>7. ASSUME NEW h \in r.bitmap.i, NEW k \in 1 .. Len(List(r, V[h]))
        PROVE  /\ List(r, V[h])[k] \in r.bitmap.b
               /\ \A i \in r.bitmap.i : \A j \in Kept(V[i]) : List(r, V[h])[k] # V[i].block[j]
               /\ \A i \in r.bitmap.i : \A m \in 1 .. Len(List(r, V[i])) :
                     List(r, V[h])[k] = List(r, V[i])[m] => h = i /\ k = m
    <3>1. /\ List(r, V[h]) = List(q, T[h]) /\ k \in 1 .. Len(List(q, T[h]))
          /\ r.bitmap = q.bitmap
      BY <1>6, <2>5
    <3>2. /\ List(q, T[h])[k] \in r.bitmap.b
          /\ \A i \in r.bitmap.i : \A j \in Kept(T[i]) : List(q, T[h])[k] # T[i].block[j]
          /\ \A i \in r.bitmap.i : \A m \in 1 .. Len(List(q, T[i])) :
                List(q, T[h])[k] = List(q, T[i])[m] => h = i /\ k = m
      BY <1>1, <1>13, <3>1 DEF Apart
    <3>3. ASSUME NEW i \in r.bitmap.i, NEW j \in Kept(V[i]) PROVE List(r, V[h])[k] # V[i].block[j]
      <4>1. V[i] = T[i] /\ j \in Kept(T[i])
        BY <2>6, <3>1
      <4> QED BY <3>1, <3>2, <4>1
    <3>4. ASSUME NEW i \in r.bitmap.i, NEW m \in 1 .. Len(List(r, V[i])), List(r, V[h])[k] = List(r, V[i])[m]
          PROVE  h = i /\ k = m
      BY <2>5, <3>1, <3>2, <3>4
    <3> QED BY <3>1, <3>2, <3>3, <3>4
  <2>8. Apart(r, V)
    BY <2>7, Zenon DEF Apart
  <2> QED BY <2>2, <2>8
<1>14. Done(r, V, tidy)
  BY <1>5, <1>8, <1>9, <1>12, <1>13 DEF Done
<1>15. r.gd.b = q.gd.b /\ r.gd.i = q.gd.i + 1
  BY <1>6
<1> QED BY <1>4, <1>6, <1>14, <1>15 DEF table

RmEnd(s, t, name, x) ==
    LET gone == dir_rm_spot(s, s.inode[t], name)
        node == [gone.inode[x] EXCEPT !.links = @ - 1]
        last == node.links < 1
    IN  IF last THEN clear_inode(clear_all(gone, node), x) ELSE write_inode(gone, x, node)

LEMMA RmWorks ==
    ASSUME NEW s, NEW tidy \in BOOLEAN, Done(s, s.inode, tidy), s.ok, NEW t \in s.bitmap.i, NEW name,
           hit_block(s.entries, s.inode[t], name) # 0, NEW x \in s.bitmap.i, x # ROOT,
           s.gd.b + Gain < SB_MOD, s.gd.i + Gain < SB_MOD
    PROVE  Outcome(s, RmEnd(s, t, name, x), tidy)
<1> DEFINE gone == dir_rm_spot(s, s.inode[t], name)
           node == [gone.inode[x] EXCEPT !.links = @ - 1]
           z == clear_all(gone, node)
           r == clear_inode(z, x)
           f == write_inode(gone, x, node)
<1>1. s \in Process /\ x \in Inode /\ s.inode[x] \in Node /\ s.inode \in [Inode -> Node]
      /\ s.gd.b \in Nat /\ s.gd.i \in Nat
  BY DEF Done, Process, Bits, Left
<1>2. Removed(s, gone, tidy)
  BY DirRmSpot
<1> HIDE DEF gone
<1>3. Done(gone, s.inode, tidy) /\ gone.inode = s.inode /\ gone.bitmap = s.bitmap /\ gone.gd = s.gd /\ gone.ok
      /\ gone \in Process
  BY <1>2 DEF Removed, Done
<1>4. node.block = s.inode[x].block /\ node.links = s.inode[x].links - 1 /\ node.type = s.inode[x].type
      /\ s.inode[x].links \in Nat /\ node = [type |-> node.type, links |-> node.links, block |-> node.block]
  BY <1>1, <1>3 DEF Node
<1>5. Gain \in Nat /\ Gain >= 1 /\ SB_MOD \in Nat
  <2>1. NDIRECT \in Nat \ {0} /\ ADDRS \in Nat
    BY Ext2Assumption, Zenon
  <2> QED BY <2>1, Bounds DEF Gain
<1> HIDE DEF node
<1>6. CASE ~(node.links < 1)
  <2>1. node \in Node
    <3>1. node.links \in Nat /\ node.type \in Kinds /\ node.block \in Seq(Block)
      BY <1>1, <1>4, <1>6 DEF Node
    <3> QED BY <1>4, <3>1 DEF Node
  <2>2. Written(gone, f, x, node)
    BY <1>1, <1>3, <2>1, WriteInodeIs
  <2> HIDE DEF f
  <2>3. Moved(gone, f) /\ f.inode = [s.inode EXCEPT ![x] = node]
    BY <1>3, <2>2 DEF Written
  <2>4. \A i \in gone.bitmap.i : f.inode[i].block = s.inode[i].block
    <3>1. gone.bitmap.i \subseteq Inode
      BY <1>3 DEF Process, Bits
    <3> QED BY <1>1, <1>4, <2>3, <3>1
  <2>5. Done(gone, f.inode, tidy)
    BY <1>3, <2>4, DoneSame
  <2>6. Done(f, f.inode, tidy)
    BY <2>3, <2>5, DoneMoved
  <2>7. f \in Process /\ f.ok /\ f.bitmap = s.bitmap /\ f.gd = s.gd
    BY <1>3, <2>3 DEF Moved, SameBits
  <2>8. f.gd.b <= s.gd.b + Gain /\ f.gd.i <= s.gd.i + Gain
    BY <1>1, <1>5, <2>7
  <2>9. Outcome(s, f, tidy)
    BY <2>6, <2>7, <2>8 DEF Outcome
  <2>10. RmEnd(s, t, name, x) = f
    BY <1>6 DEF RmEnd, f, node, gone
  <2> QED BY <2>9, <2>10
<1>7. CASE node.links < 1
  <2> DEFINE plain == s.inode[x]
             V == [s.inode EXCEPT ![x] = NoInode]
  <2>1. clear_all(gone, node) = clear_all(gone, plain)
    BY <1>4 DEF clear_all
  <2>2. /\ ListsFollow(gone) /\ (Len(plain.block) > NDIRECT => gone.entries[Ind(plain)] = <<>>)
        /\ \A j \in Kept(plain) : plain.block[j] # ROOT_BLOCK
    BY <1>3 DEF Done, Owned
  <2>3. Zeroed(gone, clear_all(gone, plain), Gain)
    BY <1>1, <1>3, <2>2, ClearAll
  <2>4. Zeroed(gone, z, Gain)
    BY <2>1, <2>3
  <2> HIDE DEF z
  <2>5. Done(z, s.inode, tidy)
    <3>1. gone.gd.b + Gain < SB_MOD
      BY <1>3
    <3> QED BY <1>1, <1>3, <1>5, <2>4, <3>1, ZeroedDone
  <2>6. z.bitmap = s.bitmap /\ z.inode = s.inode /\ z.ok /\ z.gd.b <= s.gd.b + Gain /\ z.gd.i = s.gd.i
    BY <1>3, <2>4 DEF Zeroed
  <2>7. x \in Inode \ {ROOT} /\ z.gd.i + 1 < SB_MOD
    BY <1>1, <1>5, <2>6
  <2> HIDE DEF V
  <2>8. /\ Done(r, V, tidy) /\ r.bitmap = z.bitmap /\ r.ok = z.ok
        /\ r.inode = [z.inode EXCEPT ![x] = NoInode]
        /\ r.gd.b = z.gd.b /\ r.gd.i = z.gd.i + 1
    BY <1>1, <2>5, <2>7, InodeCleared, SMTT(30) DEF V
  <2> HIDE DEF r
  <2>9. r.inode = V
    BY <2>6, <2>8 DEF V
  <2>10. r.gd.b <= s.gd.b + Gain /\ r.gd.i <= s.gd.i + Gain
    BY <1>1, <1>5, <2>6, <2>8
  <2>11. Outcome(s, r, tidy)
    BY <2>6, <2>8, <2>9, <2>10 DEF Outcome, Done
  <2>12. RmEnd(s, t, name, x) = r
    BY <1>7 DEF RmEnd, r, z, node, gone
  <2> QED BY <2>11, <2>12
<1> QED BY <1>6, <1>7
-----------------------------------------------------------------------------
(* From command to command.                                                  *)

Codes == {"ok", "ENOENT", "EEXIST", "EISDIR", "ENOSPC", "crash"}

(* The inductive invariant.                                                  *)
FsInv ==
    /\ Done(setUp, inode, ~outOfSpace)
    /\ ROOT \in bitmap.i /\ ROOT_BLOCK \in bitmap.b
    /\ gd.b <= BLOCKS + commands * Gain /\ gd.i <= INODES + commands * Gain
    /\ exit \in Codes /\ commands \in 0 .. MaxCommands
    /\ outOfSpace \in BOOLEAN /\ lostFolder \in BOOLEAN

(* What a failed command leaves: the bitmaps that s began with.              *)
LEMMA Abandoned ==
    ASSUME NEW s \in Process, NEW tidy \in BOOLEAN, Done(s, s.inode, tidy), NEW f, Working(s, f),
           NEW g \in Process, SameTables(f, g), g.bitmap = s.bitmap, g.gd = s.gd
    PROVE  Done(g, f.inode, FALSE)
<1>1. /\ Counted(s) /\ Packed(s) /\ Owned(s, s.inode) /\ s.bitmap.b \subseteq Block /\ s.bitmap.i \subseteq Inode
      /\ s.inode \in [Inode -> Node]
  BY DEF Done, Process, Bits
<1>2. /\ \A b \in s.bitmap.b : g.entries[b] = s.entries[b]
      /\ \A i \in s.bitmap.i : f.inode[i] = s.inode[i]
      /\ NamesLead(f, s.bitmap.i) /\ ListsFollow(f) /\ LeftFirst(f, s.bitmap.b) /\ OneUse(f)
  BY DEF Working, SameTables
<1>3. Counted(g) /\ Packed(g)
  BY <1>1 DEF Counted, Packed
<1>4. NamesLead(g, g.bitmap.i) /\ ListsFollow(g) /\ LeftFirst(g, g.bitmap.b) /\ OneUse(g)
  BY <1>2 DEF SameTables, NamesLead, ListsFollow, LeftFirst, OneUse
<1>5. Owned(g, f.inode)
  <2>1. ASSUME NEW i \in s.bitmap.i
        PROVE  OneEach(f.inode[i], s.bitmap.b) /\ (Len(f.inode[i].block) > NDIRECT => g.entries[Ind(f.inode[i])] = <<>>)
    <3>1. f.inode[i] = s.inode[i] /\ s.inode[i] \in Node
      BY <1>1, <1>2
    <3>2. OneEach(s.inode[i], s.bitmap.b) /\ (Len(s.inode[i].block) > NDIRECT => s.entries[Ind(s.inode[i])] = <<>>)
      BY <1>1 DEF Owned
    <3>3. Len(s.inode[i].block) > NDIRECT => Ind(s.inode[i]) \in s.bitmap.b
      BY <3>1, <3>2, IndIn
    <3> QED BY <1>2, <3>1, <3>2, <3>3
  <2>2. \A h, i \in s.bitmap.i : h # i =>
           \A j \in Kept(f.inode[h]), k \in Kept(f.inode[i]) : f.inode[h].block[j] # f.inode[i].block[k]
    BY <1>1, <1>2 DEF Owned
  <2>3. \A i \in s.bitmap.i : i # ROOT => \A j \in Kept(f.inode[i]) : f.inode[i].block[j] # ROOT_BLOCK
    BY <1>1, <1>2 DEF Owned
  <2> QED BY <2>1, <2>2, <2>3 DEF Owned
<1> QED BY <1>3, <1>4, <1>5 DEF Done

LEMMA Commit ==
    ASSUME FsInv, commands < MaxCommands, commands' = commands + 1,
           NEW f, Outcome(setUp, f, ~outOfSpace), cleanUp(f), lostFolder' \in BOOLEAN
    PROVE  FsInv'
<1>1. /\ Done(setUp, inode, ~outOfSpace) /\ setUp.inode = inode /\ setUp.bitmap = bitmap /\ setUp.gd = gd
      /\ setUp.dirs = dirs /\ setUp \in Process
  <2>1. Done(setUp, inode, ~outOfSpace)
    BY DEF FsInv
  <2>2. setUp \in Process
    BY <2>1 DEF Done
  <2> QED BY <2>1, <2>2 DEF setUp
<1>2. f \in Process /\ f.ok \in BOOLEAN
  BY DEF Outcome, Process
<1>3. /\ sb' = f.sb /\ inode' = f.inode /\ entries' = f.entries /\ words' = f.words
      /\ outOfSpace' = (outOfSpace \/ ~f.ok)
      /\ f.ok => bitmap' = f.bitmap /\ gd' = f.gd /\ dirs' = f.dirs /\ exit' = "ok"
      /\ ~f.ok => bitmap' = bitmap /\ gd' = gd /\ dirs' = dirs /\ exit' = "ENOSPC"
  BY DEF cleanUp
<1> DEFINE g == setUp'
<1>4. /\ g.sb = sb' /\ g.inode = inode' /\ g.entries = entries' /\ g.words = words'
      /\ g.bitmap = bitmap' /\ g.gd = gd' /\ g.dirs = dirs' /\ g.ok = TRUE
      /\ g = [bitmap |-> bitmap', gd |-> gd', dirs |-> dirs', sb |-> sb', inode |-> inode',
              entries |-> entries', words |-> words', dir |-> NoInode, got |-> 0, at |-> <<0, 0>>, ok |-> TRUE]
  BY DEF setUp
<1>5. NoInode \in Node /\ <<0, 0>> \in Int \X Int
  BY DEF NoInode, Node, Kinds
<1>6. g \in Process
  <2>1. /\ bitmap' \in Bits /\ gd' \in Left /\ dirs' \in Nat /\ sb' \in Super /\ inode' \in [Inode -> Node]
        /\ entries' \in [Block -> Seq(Entry)] /\ words' \in [Block -> Seq(Block)]
    <3>1. f.ok \/ ~f.ok
      BY <1>2
    <3>2. /\ f.sb \in Super /\ f.inode \in [Inode -> Node] /\ f.entries \in [Block -> Seq(Entry)]
          /\ f.words \in [Block -> Seq(Block)] /\ f.bitmap \in Bits /\ f.gd \in Left /\ f.dirs \in Nat
      BY <1>2 DEF Process
    <3>3. bitmap \in Bits /\ gd \in Left /\ dirs \in Nat
      BY <1>1 DEF Process
    <3> QED BY <1>3, <3>1, <3>2, <3>3
  <2> HIDE DEF g
  <2> QED BY <1>4, <1>5, <2>1 DEF Process
<1> HIDE DEF g
<1>7. Done(g, inode', ~outOfSpace') /\ outOfSpace' \in BOOLEAN
  <2>1. CASE f.ok
    <3>1. Done(f, f.inode, ~outOfSpace)
      BY <2>1 DEF Outcome
    <3>2. Moved(f, g)
      BY <1>2, <1>3, <1>4, <1>6, <2>1 DEF Moved, SameBits, SameTables
    <3>3. Done(g, f.inode, ~outOfSpace)
      BY <3>1, <3>2, DoneMoved
    <3>4. outOfSpace' = outOfSpace /\ outOfSpace \in BOOLEAN
      BY <1>3, <2>1 DEF FsInv
    <3> QED BY <1>3, <3>3, <3>4
  <2>2. CASE ~f.ok
    <3>1. Working(setUp, f)
      BY <2>2 DEF Outcome
    <3>2. SameTables(f, g) /\ g.bitmap = setUp.bitmap /\ g.gd = setUp.gd
      BY <1>1, <1>3, <1>4, <2>2 DEF SameTables
    <3>3. Done(setUp, setUp.inode, ~outOfSpace)
      BY <1>1, Zenon
    <3>7. (~outOfSpace) \in BOOLEAN
      OBVIOUS
    <3>4. Done(g, f.inode, FALSE)
      BY <1>1, <1>6, <3>1, <3>2, <3>3, <3>7, Abandoned
    <3>5. outOfSpace' = TRUE
      BY <1>3, <2>2
    <3>6. ~outOfSpace' = FALSE
      BY <3>5
    <3> QED BY <1>3, <3>4, <3>5, <3>6
  <2> QED BY <1>2, <2>1, <2>2
<1>8. ROOT \in bitmap'.i /\ ROOT_BLOCK \in bitmap'.b
  <2>1. CASE f.ok
    BY <1>1, <1>3, <2>1 DEF Outcome, FsInv
  <2>2. CASE ~f.ok
    BY <1>3, <2>2 DEF FsInv
  <2> QED BY <1>2, <2>1, <2>2
<1>9. gd'.b <= BLOCKS + commands' * Gain /\ gd'.i <= INODES + commands' * Gain
  <2>1. \A c, n \in Nat : c * n \in Nat /\ (c + 1) * n = c * n + n
    OBVIOUS
  <2>2. commands \in Nat /\ Gain \in Nat /\ BLOCKS \in Nat /\ INODES \in Nat
    BY Bounds DEF FsInv
  <2>3. commands * Gain \in Nat /\ commands' * Gain = commands * Gain + Gain
    BY <2>1, <2>2, Zenon
  <2> DEFINE G == commands * Gain
             H == commands' * Gain
  <2>4. gd.b \in Nat /\ gd.i \in Nat /\ gd'.b \in Nat /\ gd'.i \in Nat
    BY <1>1, <1>4, <1>6 DEF Process, Left
  <2>5. gd'.b <= gd.b + Gain /\ gd'.i <= gd.i + Gain
    <3>1. CASE f.ok
      BY <1>1, <1>3, <3>1 DEF Outcome
    <3>2. CASE ~f.ok
      <4>1. gd' = gd
        BY <1>3, <3>2
      <4> QED BY <2>2, <2>4, <4>1
    <3> QED BY <1>2, <3>1, <3>2
  <2>6. gd.b <= BLOCKS + G /\ gd.i <= INODES + G
    BY DEF FsInv
  <2>7. G \in Nat /\ H = G + Gain
    BY <2>3
  <2> HIDE DEF G, H
  <2>8. gd'.b <= BLOCKS + H /\ gd'.i <= INODES + H
    BY <2>2, <2>4, <2>5, <2>6, <2>7
  <2> QED BY <2>8 DEF H
<1>10. exit' \in Codes /\ commands' \in 0 .. MaxCommands
  <2>1. exit' \in Codes
    BY <1>2, <1>3 DEF Codes
  <2>2. commands \in Nat /\ MaxCommands \in Nat
    BY Bounds DEF FsInv
  <2> QED BY <2>1, <2>2
<1> QED BY <1>7, <1>8, <1>9, <1>10 DEF FsInv, g
(* A command that returns early, or crashes.                                 *)
LEMMA Stopped ==
    ASSUME FsInv, commands < MaxCommands, commands' = commands + 1, NEW code \in Codes, Fail(code)
    PROVE  FsInv'
<1>1. /\ exit' = code /\ bitmap' = bitmap /\ gd' = gd /\ dirs' = dirs /\ sb' = sb /\ inode' = inode
      /\ entries' = entries /\ words' = words /\ outOfSpace' = outOfSpace /\ lostFolder' = lostFolder
  BY DEF Fail, imageVars
<1>2. setUp' = setUp
  BY <1>1 DEF setUp
<1>3. Done(setUp', inode', ~outOfSpace')
  BY <1>1, <1>2 DEF FsInv
<1>4. /\ commands \in Nat /\ MaxCommands \in Nat /\ Gain \in Nat /\ BLOCKS \in Nat /\ INODES \in Nat
      /\ gd.b \in Nat /\ gd.i \in Nat
  BY Bounds DEF FsInv, Done, Process, Left, setUp
<1>5. commands' * Gain = commands * Gain + Gain /\ commands * Gain \in Nat
  <2>1. \A c, n \in Nat : c * n \in Nat /\ (c + 1) * n = c * n + n
    OBVIOUS
  <2> QED BY <1>4, <2>1, Zenon
<1>6. gd'.b <= BLOCKS + commands' * Gain /\ gd'.i <= INODES + commands' * Gain
  <2> DEFINE G == commands * Gain
             H == commands' * Gain
  <2>1. gd.b <= BLOCKS + G /\ gd.i <= INODES + G /\ G \in Nat /\ H = G + Gain
    BY <1>5 DEF FsInv
  <2> HIDE DEF G, H
  <2>2. gd.b <= BLOCKS + H /\ gd.i <= INODES + H
    BY <1>4, <2>1
  <2> QED BY <1>1, <2>2 DEF H
<1>7. commands' \in 0 .. MaxCommands
  BY <1>4
<1> QED BY <1>1, <1>3, <1>6, <1>7 DEF FsInv

(* What a command starts with.                                               *)
Start ==
    /\ setUp \in Process /\ setUp.ok /\ Done(setUp, setUp.inode, ~outOfSpace) /\ (~outOfSpace) \in BOOLEAN
    /\ setUp.bitmap = bitmap /\ setUp.inode = inode /\ setUp.entries = entries /\ setUp.gd = gd
    /\ NamesLead(setUp, bitmap.i) /\ ROOT \in setUp.bitmap.i /\ bitmap.i \subseteq Inode

LEMMA Started ==
    ASSUME FsInv PROVE Start
<1>1. /\ setUp.ok /\ setUp.bitmap = bitmap /\ setUp.inode = inode /\ setUp.entries = entries /\ setUp.gd = gd
  BY DEF setUp
<1>2. Done(setUp, inode, ~outOfSpace) /\ ROOT \in bitmap.i
  BY DEF FsInv
<1>3. setUp \in Process /\ NamesLead(setUp, bitmap.i)
  BY <1>1, <1>2 DEF Done
<1>4. bitmap.i \subseteq Inode
  BY <1>1, <1>3 DEF Process, Bits
<1>5. Done(setUp, setUp.inode, ~outOfSpace)
  BY <1>1, <1>2, Zenon
<1>6. (~outOfSpace) \in BOOLEAN
  OBVIOUS
<1> QED BY <1>1, <1>2, <1>3, <1>4, <1>5, <1>6 DEF Start

LEMMA Target ==
    ASSUME Start, NEW path \in Path, Found(full_walk(path))
    PROVE  /\ full_walk(path).inode \in setUp.bitmap.i
           /\ full_walk(path).type # "dir" => full_walk(path).inode # ROOT
<1> DEFINE e == full_walk(path)
<1>1. Found(e) /\ e = full_walk(path)
  OBVIOUS
<1> HIDE DEF e
<1>2. e.inode \in bitmap.i /\ (e.type # "dir" => e.inode # ROOT)
  BY <1>1, FullWalk DEF Start
<1> QED BY <1>1, <1>2 DEF Start

LEMMA DirIsPath == Dir \subseteq Path
BY DEF Dir, Path

(* How a command ends: after cleanUp or an exit, or without any change.      *)
Ended ==
    \/ \E f : Outcome(setUp, f, ~outOfSpace) /\ cleanUp(f) /\ lostFolder' \in BOOLEAN
    \/ \E code \in Codes \ {"ENOSPC"} : Fail(code)

LEMMA CpStep ==
    ASSUME FsInv, commands < MaxCommands,
           NEW path \in Path, NEW name \in Name, NEW size \in FileBlocks, Cp(path, name, size)
    PROVE  Ended
<1>1. CASE ~Found(full_walk(path))
  <2>1. \E code \in Codes \ {"ENOSPC"} : Fail(code)
    BY <1>1 DEF Cp, Codes
  <2> QED BY <2>1 DEF Ended
<1>2. CASE Found(full_walk(path))
  <2> DEFINE f == CpEnd(setUp, full_walk(path).inode, name, size)
  <2>1. cleanUp(f) /\ lostFolder' = lostFolder
    BY <1>2 DEF Cp, CpEnd
  <2>2. Start
    BY Started
  <2>3. full_walk(path).inode \in setUp.bitmap.i
    BY <1>2, <2>2, Target
  <2>4. size \in Nat
    <3>1. NDIRECT \in Nat \ {0} /\ FileBlocks \subseteq 0 .. NDIRECT + 3
      BY Ext2Assumption, Zenon
    <3> QED BY <3>1
  <2>5. Outcome(setUp, f, ~outOfSpace)
    <3> DEFINE t == full_walk(path).inode
    <3>1. t \in setUp.bitmap.i
      BY <2>3
    <3> HIDE DEF t
    <3>2. Outcome(setUp, CpEnd(setUp, t, name, size), ~outOfSpace)
      BY <2>2, <2>4, <3>1, CpWorks DEF Start
    <3> QED BY <3>2 DEF t
  <2> HIDE DEF f
  <2>6. lostFolder' \in BOOLEAN
    BY <2>1 DEF FsInv
  <2> QED BY <2>1, <2>5, <2>6 DEF Ended
<1> QED BY <1>1, <1>2

LEMMA LnStep ==
    ASSUME FsInv, commands < MaxCommands,
           NEW source \in Path, NEW path \in Dir, NEW name \in Name, Ln(source, path, name)
    PROVE  Ended
<1> DEFINE file == full_walk(source)
           parent == full_walk(path)
           works == /\ file.name # "crash" /\ Found(file) /\ Found(parent)
                    /\ ~Found(walk_one(parent.inode, name)) /\ file.type # "dir"
<1>1. CASE ~works
  <2>1. Fail("crash") \/ Fail("ENOENT") \/ Fail("EISDIR") \/ Fail("EEXIST")
    BY <1>1, Zenon DEF Ln
  <2>2. \E code \in Codes \ {"ENOSPC"} : Fail(code)
    BY <2>1 DEF Codes
  <2> QED BY <2>2 DEF Ended
<1>2. CASE works
  <2> DEFINE f == LnEnd(setUp, parent.inode, file.inode, name)
  <2>1. setUp.inode = inode
    BY DEF setUp
  <2>2. cleanUp(f) /\ lostFolder' = lostFolder
    BY <1>2, <2>1, Zenon DEF Ln, LnEnd
  <2>3. Start
    BY Started
  <2>4. path \in Path
    BY DirIsPath
  <2>5. parent.inode \in setUp.bitmap.i /\ file.inode \in setUp.bitmap.i /\ file.inode # ROOT
    BY <1>2, <2>3, <2>4, Target
  <2> HIDE DEF parent, file
  <2>6. Outcome(setUp, f, ~outOfSpace)
    BY <2>3, <2>5, LnWorks DEF Start
  <2> HIDE DEF f
  <2>7. lostFolder' \in BOOLEAN
    BY <2>2 DEF FsInv
  <2> QED BY <2>2, <2>6, <2>7 DEF Ended
<1> QED BY <1>1, <1>2

LEMMA MkdirStep ==
    ASSUME FsInv, commands < MaxCommands,
           NEW path \in Dir, NEW name \in Name, Mkdir(path, name)
    PROVE  Ended
<1> DEFINE parent == full_walk(path)
           works == Found(parent) /\ ~Found(walk_one(parent.inode, name))
<1>1. CASE ~works
  <2>1. \E code \in Codes \ {"ENOSPC"} : Fail(code)
    BY <1>1 DEF Mkdir, Codes
  <2> QED BY <2>1 DEF Ended
<1>2. CASE works
  <2> DEFINE f == MkdirEnd(setUp, parent.inode, name)
  <2>1. setUp.inode = inode
    BY DEF setUp
  <2>2. cleanUp(f) /\ lostFolder' = lostFolder
    BY <1>2, <2>1, Zenon DEF Mkdir, MkdirEnd
  <2>3. Start
    BY Started
  <2>4. path \in Path
    BY DirIsPath
  <2>5. parent.inode \in setUp.bitmap.i
    BY <1>2, <2>3, <2>4, Target
  <2> HIDE DEF parent
  <2>6. Outcome(setUp, f, ~outOfSpace)
    BY <2>3, <2>5, MkdirWorks DEF Start
  <2> HIDE DEF f
  <2>7. lostFolder' \in BOOLEAN
    BY <2>2 DEF FsInv
  <2> QED BY <2>2, <2>6, <2>7 DEF Ended
<1> QED BY <1>1, <1>2

(* The counts stay below where the superblock's wrap around.                 *)
LEMMA NoWrap ==
    ASSUME FsInv, commands < MaxCommands
    PROVE  gd.b + Gain < SB_MOD /\ gd.i + Gain < SB_MOD
<1> DEFINE G == commands * Gain
           M == MaxCommands * Gain
<1>1. /\ commands \in Nat /\ MaxCommands \in Nat /\ Gain \in Nat /\ BLOCKS \in Nat /\ INODES \in Nat
      /\ gd.b \in Nat /\ gd.i \in Nat /\ SB_MOD \in Nat /\ M \in Nat /\ SB_MOD > BLOCKS + INODES + M
      /\ commands + 1 <= MaxCommands
  BY Bounds DEF FsInv, Done, Process, Left, setUp
<1>2. G \in Nat /\ G + Gain <= M
  <2>1. \A c, m, n \in Nat : c + 1 <= m => c * n \in Nat /\ c * n + n <= m * n
    <3>1. \A c, m, n \in Nat : c + 1 <= m => m * n = (c + 1) * n + (m - c - 1) * n
      OBVIOUS
    <3>2. \A c, n \in Nat : c * n \in Nat /\ (c + 1) * n = c * n + n
      OBVIOUS
    <3>3. ASSUME NEW c \in Nat, NEW m \in Nat, NEW n \in Nat, c + 1 <= m
          PROVE  c * n \in Nat /\ c * n + n <= m * n
      <4>1. m - c - 1 \in Nat
        BY <3>3
      <4>2. (m - c - 1) * n \in Nat
        BY <4>1, <3>2
      <4>3. m * n = (c + 1) * n + (m - c - 1) * n /\ (c + 1) * n = c * n + n /\ c * n \in Nat
        BY <3>1, <3>2, <3>3, Zenon
      <4> QED BY <4>2, <4>3
    <3> QED BY <3>3
  <2> QED BY <1>1, <2>1, Zenon
<1>3. gd.b <= BLOCKS + G /\ gd.i <= INODES + G
  BY DEF FsInv
<1> HIDE DEF G, M
<1> QED BY <1>1, <1>2, <1>3

LEMMA RmStep ==
    ASSUME FsInv, commands < MaxCommands,
           NEW path \in Dir, NEW name \in Name, Rm(path, name)
    PROVE  Ended
<1> DEFINE parent == full_walk(path)
           file == walk_one(parent.inode, name)
           works == Found(parent) /\ Found(file) /\ file.type # "dir"
<1>1. CASE ~works
  <2>1. Fail("crash") \/ Fail("ENOENT") \/ Fail("EISDIR")
    BY <1>1, Zenon DEF Rm
  <2>2. \E code \in Codes \ {"ENOSPC"} : Fail(code)
    BY <2>1 DEF Codes
  <2> QED BY <2>2 DEF Ended
<1>2. CASE works
  <2> DEFINE f == RmEnd(setUp, parent.inode, name, file.inode)
  <2>1. setUp.inode = inode
    BY DEF setUp
  <2>2. cleanUp(f) /\ lostFolder' \in BOOLEAN
    <3>1. cleanUp(f)
      BY <1>2, <2>1, Zenon DEF Rm, RmEnd
    <3>2. lostFolder' \in BOOLEAN
      <4> DEFINE node == [dir_rm_spot(setUp, inode[parent.inode], name).inode[file.inode] EXCEPT !.links = @ - 1]
                 folder == node.links < 1 /\ \E j \in DOMAIN node.block : entries[node.block[j]] # <<>>
      <4>1. lostFolder' = (lostFolder \/ folder)
        BY <1>2, Zenon DEF Rm
      <4> HIDE DEF folder
      <4>2. lostFolder \in BOOLEAN
        BY DEF FsInv
      <4> QED BY <4>1, <4>2, Zenon
    <3> QED BY <3>1, <3>2
  <2>3. Start
    BY Started
  <2>4. path \in Path
    BY DirIsPath
  <2>5. parent.inode \in setUp.bitmap.i
    BY <1>2, <2>3, <2>4, Target
  <2> HIDE DEF parent
  <2>6. file.inode \in setUp.bitmap.i /\ file.inode # ROOT
    <3>1. file = NoEntry \/ (file # NoEntry /\ Leads(file, bitmap.i) /\ file.name \in Name)
      <4>1. parent.inode \in Inode
        BY <2>3, <2>5 DEF Start
      <4> QED BY <2>3, <4>1, WalkOne DEF Start
    <3>2. file.inode # 0 /\ file.type # "dir"
      BY <1>2 DEF Found
    <3> HIDE DEF file
    <3>3. file # NoEntry
      <4>1. NoEntry.inode = 0
        BY DEF NoEntry
      <4> QED BY <3>2, <4>1, Zenon
    <3> QED BY <2>3, <3>1, <3>2, <3>3 DEF Leads, Start
  <2>7. hit_block(setUp.entries, setUp.inode[parent.inode], name) # 0
    <3>1. hit_block(entries, inode[parent.inode], name) # 0
      BY <1>2 DEF walk_one, Found, NoEntry
    <3> QED BY <2>3, <3>1, Zenon DEF Start
  <2> HIDE DEF file
  <2>8. setUp.gd.b + Gain < SB_MOD /\ setUp.gd.i + Gain < SB_MOD
    BY <2>3, NoWrap DEF Start
  <2>9. Outcome(setUp, f, ~outOfSpace)
    BY <2>3, <2>5, <2>6, <2>7, <2>8, RmWorks DEF Start
  <2> HIDE DEF f
  <2> QED BY <2>2, <2>9 DEF Ended
<1> QED BY <1>1, <1>2

LEMMA CommandEnds ==
    ASSUME FsInv, Next
    PROVE  Ended /\ commands < MaxCommands /\ commands' = commands + 1
<1>1. commands < MaxCommands /\ commands' = commands + 1 /\ Command
  BY DEF Next
<1>2. ASSUME NEW path \in Path, NEW name \in Name, NEW size \in FileBlocks, Cp(path, name, size) PROVE Ended
  BY <1>1, <1>2, CpStep
<1>3. ASSUME NEW source \in Path, NEW path \in Dir, NEW name \in Name, Ln(source, path, name) PROVE Ended
  BY <1>1, <1>3, LnStep
<1>4. ASSUME NEW path \in Dir, NEW name \in Name, Rm(path, name) PROVE Ended
  BY <1>1, <1>4, RmStep
<1>5. ASSUME NEW path \in Dir, NEW name \in Name, Mkdir(path, name) PROVE Ended
  BY <1>1, <1>5, MkdirStep
<1> QED BY <1>1, <1>2, <1>3, <1>4, <1>5 DEF Command

LEMMA FsStep ==
    ASSUME FsInv, [Next]_vars PROVE FsInv'
<1>1. CASE Next
  <2>1. Ended /\ commands < MaxCommands /\ commands' = commands + 1
    BY <1>1, CommandEnds
  <2>2. ASSUME NEW f, Outcome(setUp, f, ~outOfSpace), cleanUp(f), lostFolder' \in BOOLEAN PROVE FsInv'
    BY <2>1, <2>2, Commit
  <2>3. ASSUME NEW code \in Codes, Fail(code) PROVE FsInv'
    BY <2>1, <2>3, Stopped
  <2> QED BY <2>1, <2>2, <2>3 DEF Ended
<1>2. CASE UNCHANGED vars
  <2>1. /\ exit' = exit /\ bitmap' = bitmap /\ gd' = gd /\ dirs' = dirs /\ sb' = sb /\ inode' = inode
        /\ entries' = entries /\ words' = words /\ outOfSpace' = outOfSpace /\ lostFolder' = lostFolder
        /\ commands' = commands
    BY <1>2 DEF vars, imageVars
  <2>2. setUp' = setUp
    BY <2>1 DEF setUp
  <2> QED BY <2>1, <2>2 DEF FsInv
<1> QED BY <1>1, <1>2
-----------------------------------------------------------------------------
(* The first state.                                                          *)

(* The entries "." and ".." of the root fill its block.                      *)
LEMMA TwoEntries ==
    ASSUME NEW c \in Entry, NEW d \in Entry, c.name = ".", d.name = "..",
           c.rec = Need("."), d.rec = BLOCK_SIZE - Need(".")
    PROVE  <<c, d>> \in Seq(Entry) /\ Fills(<<c, d>>)
<1> DEFINE s == <<c, d>>
           f == [k \in 0 .. 2 |-> IF k = 0 THEN 0 ELSE IF k = 1 THEN c.rec ELSE BLOCK_SIZE]
<1>1. s \in Seq(Entry) /\ Len(s) = 2 /\ s[1] = c /\ s[2] = d
  OBVIOUS
<1>2. c.rec = 12 /\ d.rec = BLOCK_SIZE - 12 /\ BLOCK_SIZE \in Nat /\ BLOCK_SIZE >= 24
  <2>1. BLOCK_SIZE \in Nat /\ BLOCK_SIZE >= 24
    BY Ext2Assumption, Zenon
  <2>2. Need(".") = 12
    BY NeedIs, Zenon
  <2>3. c.rec = 12 /\ d.rec = BLOCK_SIZE - 12
    BY <2>2, Zenon
  <2> QED BY <2>1, <2>3
<1>3. f \in [0 .. 2 -> Int] /\ f[0] = 0 /\ f[1] = c.rec /\ f[2] = BLOCK_SIZE
  BY <1>2
<1> HIDE DEF f, s
<1>4. \A k \in 1 .. 2 : f[k] = f[k - 1] + s[k].rec
  <2>1. \A k \in 1 .. 2 : k = 1 \/ k = 2
    OBVIOUS
  <2> QED BY <1>1, <1>2, <1>3, <2>1
<1>5. Sums(f, s)
  BY <1>1, <1>3, <1>4 DEF Sums
<1>6. Behind(s) = BLOCK_SIZE
  BY <1>1, <1>3, <1>5, BehindIs
<1>7. \A k \in 1 .. 2 : s[k].rec >= Need(s[k].name)
  <2>1. \A k \in 1 .. 2 : k = 1 \/ k = 2
    OBVIOUS
  <2>2. Need(s[1].name) = 12 /\ Need(s[2].name) = 12
    BY <1>1, NeedIs, Zenon
  <2> QED BY <1>1, <1>2, <2>1, <2>2
<1> QED BY <1>1, <1>6, <1>7 DEF Fills, s

LEMMA FirstCounts ==
    ASSUME Init
    PROVE  /\ gd \in Left /\ sb \in Super /\ gd.b <= BLOCKS /\ gd.i <= INODES
           /\ gd.b = Cardinality(Block \ {ROOT_BLOCK}) /\ gd.i = Cardinality(Inode \ {ROOT})
<1>1. /\ Block \subseteq 1 .. BLOCKS /\ Inode \subseteq 1 .. INODES /\ ROOT \in Inode /\ ROOT_BLOCK \in Block
      /\ BLOCKS \in Nat /\ INODES \in Nat /\ SB_MOD \in Nat /\ SB_MOD > BLOCKS + INODES
  <2>1. Block \subseteq 1 .. BLOCKS /\ Inode \subseteq 1 .. INODES /\ ROOT \in Inode /\ ROOT_BLOCK \in Block
    BY Ext2Assumption, Zenon
  <2> QED BY <2>1, Bounds
<1>2. /\ IsFiniteSet(1 .. BLOCKS) /\ Cardinality(1 .. BLOCKS) = BLOCKS
      /\ IsFiniteSet(1 .. INODES) /\ Cardinality(1 .. INODES) = INODES
  <2>1. 1 \in Int /\ BLOCKS \in Int /\ INODES \in Int
    BY <1>1
  <2>2. \A a, b \in Int : IsFiniteSet(a .. b) /\ Cardinality(a .. b) = IF a > b THEN 0 ELSE b - a + 1
    BY FS_Interval
  <2>3. /\ IsFiniteSet(1 .. BLOCKS) /\ Cardinality(1 .. BLOCKS) = IF 1 > BLOCKS THEN 0 ELSE BLOCKS - 1 + 1
        /\ IsFiniteSet(1 .. INODES) /\ Cardinality(1 .. INODES) = IF 1 > INODES THEN 0 ELSE INODES - 1 + 1
    BY <2>1, <2>2
  <2> QED BY <1>1, <2>3
<1>3. /\ IsFiniteSet(Block) /\ Cardinality(Block) <= BLOCKS
      /\ IsFiniteSet(Inode) /\ Cardinality(Inode) <= INODES
  BY <1>1, <1>2, FS_Subset
<1>4. Cardinality(Block) \in Nat /\ Cardinality(Inode) \in Nat
  BY <1>3, FS_CardinalityType
<1>5. /\ Cardinality(Block \ {ROOT_BLOCK}) = Cardinality(Block) - 1 /\ Cardinality(Block \ {ROOT_BLOCK}) \in Nat
      /\ Cardinality(Inode \ {ROOT}) = Cardinality(Inode) - 1 /\ Cardinality(Inode \ {ROOT}) \in Nat
  <2>1. IsFiniteSet(Block \ {ROOT_BLOCK}) /\ Cardinality(Block \ {ROOT_BLOCK}) = Cardinality(Block) - 1
    BY <1>1, <1>3, FS_RemoveElement
  <2>2. IsFiniteSet(Inode \ {ROOT}) /\ Cardinality(Inode \ {ROOT}) = Cardinality(Inode) - 1
    BY <1>1, <1>3, FS_RemoveElement
  <2> QED BY <2>1, <2>2, FS_CardinalityType
<1> DEFINE nb == Cardinality(Block \ {ROOT_BLOCK})
           ni == Cardinality(Inode \ {ROOT})
<1>6. gd = [b |-> nb, i |-> ni] /\ sb = gd
  BY <1>5 DEF Init
<1>7. nb \in Nat /\ ni \in Nat /\ nb <= BLOCKS /\ ni <= INODES
  BY <1>1, <1>3, <1>4, <1>5
<1> HIDE DEF nb, ni
<1>8. nb \in 0 .. SB_MOD - 1 /\ ni \in 0 .. SB_MOD - 1
  BY <1>1, <1>7
<1>9. gd \in Left /\ sb \in Super /\ gd.b = nb /\ gd.i = ni
  BY <1>6, <1>7, <1>8 DEF Left, Super
<1> QED BY <1>7, <1>9 DEF nb, ni

LEMMA FirstTables ==
    ASSUME Init
    PROVE  /\ entries \in [Block -> Seq(Entry)] /\ words \in [Block -> Seq(Block)]
           /\ \A b \in Block : words[b] = <<>> /\ (b # ROOT_BLOCK => entries[b] = <<>>)
           /\ \A k \in 1 .. Len(entries[ROOT_BLOCK]) : entries[ROOT_BLOCK][k].name \notin Name
           /\ Fills(entries[ROOT_BLOCK])
<1> DEFINE c == [name |-> ".",  inode |-> ROOT, type |-> "dir", rec |-> Need(".")]
           d == [name |-> "..", inode |-> ROOT, type |-> "dir", rec |-> BLOCK_SIZE - Need(".")]
<1>1. entries = [b \in Block |-> IF b # ROOT_BLOCK THEN <<>> ELSE <<c, d>>] /\ words = [b \in Block |-> <<>>]
  BY DEF Init
<1>2. ROOT \in Inode /\ ROOT_BLOCK \in Block /\ BLOCK_SIZE \in Nat
  BY Ext2Assumption, Zenon
<1>3. /\ c \in Entry /\ d \in Entry /\ c.name = "." /\ d.name = ".." /\ c.rec = Need(".")
      /\ d.rec = BLOCK_SIZE - Need(".")
  <2>1. Need(".") = 12 /\ "." \in Names /\ ".." \in Names /\ "dir" \in Kinds
    BY NeedIs, Zenon DEF Names, Kinds
  <2>2. Need(".") \in Int /\ BLOCK_SIZE - Need(".") \in Int
    BY <1>2, <2>1
  <2> QED BY <1>2, <2>1, <2>2 DEF Entry
<1> HIDE DEF c, d
<1>4. <<c, d>> \in Seq(Entry) /\ Fills(<<c, d>>)
  BY <1>3, TwoEntries
<1>5. entries[ROOT_BLOCK] = <<c, d>> /\ \A b \in Block : words[b] = <<>> /\ (b # ROOT_BLOCK => entries[b] = <<>>)
  BY <1>1, <1>2
<1>6. \A k \in 1 .. Len(<<c, d>>) : <<c, d>>[k].name \notin Name
  <2>1. Len(<<c, d>>) = 2 /\ <<c, d>>[1] = c /\ <<c, d>>[2] = d /\ \A k \in 1 .. 2 : k = 1 \/ k = 2
    OBVIOUS
  <2>2. c.name \notin Name /\ d.name \notin Name
    BY <1>3, NotNames, Zenon
  <2> QED BY <2>1, <2>2
<1>7. entries \in [Block -> Seq(Entry)]
  <2>1. <<>> \in Seq(Entry)
    OBVIOUS
  <2> DEFINE z == <<c, d>>
  <2>2. z \in Seq(Entry) /\ entries = [b \in Block |-> IF b # ROOT_BLOCK THEN <<>> ELSE z]
    BY <1>1, <1>4
  <2> HIDE DEF z
  <2> QED BY <2>1, <2>2
<1>8. words \in [Block -> Seq(Block)]
  <2>1. <<>> \in Seq(Block)
    OBVIOUS
  <2> QED BY <1>1, <2>1
<1> QED BY <1>4, <1>5, <1>6, <1>7, <1>8

LEMMA FirstInodes ==
    ASSUME Init
    PROVE  /\ inode \in [Inode -> Node]
           /\ OneEach(inode[ROOT], {ROOT_BLOCK}) /\ ~(Len(inode[ROOT].block) > NDIRECT)
<1> DEFINE node == [type |-> "dir", links |-> 2, block |-> <<ROOT_BLOCK>>]
<1>1. ROOT \in Inode /\ ROOT_BLOCK \in Block /\ NDIRECT \in Nat \ {0}
  BY Ext2Assumption, Zenon
<1>2. node \in Node /\ NoInode \in Node /\ node.block = <<ROOT_BLOCK>>
  <2>1. <<ROOT_BLOCK>> \in Seq(Block) /\ <<>> \in Seq(Block) /\ "dir" \in Kinds /\ "none" \in Kinds
    BY <1>1 DEF Kinds
  <2> QED BY <2>1 DEF Node, NoInode
<1>3. inode = [i \in Inode |-> IF i = ROOT THEN node ELSE NoInode]
  BY DEF Init
<1> HIDE DEF node
<1>4. inode \in [Inode -> Node] /\ inode[ROOT] = node
  BY <1>1, <1>2, <1>3
<1>5. Len(node.block) = 1 /\ node.block[1] = ROOT_BLOCK
  <2>1. Len(<<ROOT_BLOCK>>) = 1 /\ <<ROOT_BLOCK>>[1] = ROOT_BLOCK
    OBVIOUS
  <2> QED BY <1>2, <2>1
<1>6. ~(Len(node.block) > NDIRECT) /\ Kept(node) = 1 .. 1
  BY <1>1, <1>5 DEF Kept
<1>7. OneEach(node, {ROOT_BLOCK})
  <2>1. \A j \in 1 .. 1 : j = 1
    OBVIOUS
  <2>2. NDIRECT + 1 .. 1 = {}
    BY <1>1
  <2> QED BY <1>5, <1>6, <2>1, <2>2 DEF OneEach
<1> QED BY <1>4, <1>6, <1>7

LEMMA FsInit ==
    ASSUME Init PROVE FsInv
<1>1. /\ bitmap.b = {ROOT_BLOCK} /\ bitmap.i = {ROOT} /\ bitmap \in Bits
      /\ ROOT \in Inode /\ ROOT_BLOCK \in Block /\ \A b \in Block : b >= ROOT_BLOCK /\ b \in Nat
  <2>0. ROOT \in Inode /\ ROOT_BLOCK \in Block /\ \A b \in Block \ {ROOT_BLOCK} : b > ROOT_BLOCK
    BY Ext2Assumption, Zenon
  <2>2. \A b \in Block : b \in Nat
    BY Finite
  <2>1. ROOT \in Inode /\ ROOT_BLOCK \in Block /\ \A b \in Block : b >= ROOT_BLOCK
    BY <2>0, <2>2
  <2> QED BY <2>1, <2>2 DEF Init, Bits
<1>2. /\ gd \in Left /\ sb \in Super /\ gd.b <= BLOCKS /\ gd.i <= INODES
      /\ gd.b = Cardinality(Block \ {ROOT_BLOCK}) /\ gd.i = Cardinality(Inode \ {ROOT})
  BY FirstCounts
<1>3. /\ entries \in [Block -> Seq(Entry)] /\ words \in [Block -> Seq(Block)]
      /\ \A b \in Block : words[b] = <<>> /\ (b # ROOT_BLOCK => entries[b] = <<>>)
      /\ \A k \in 1 .. Len(entries[ROOT_BLOCK]) : entries[ROOT_BLOCK][k].name \notin Name
      /\ Fills(entries[ROOT_BLOCK])
  BY FirstTables
<1>4. /\ inode \in [Inode -> Node]
      /\ OneEach(inode[ROOT], {ROOT_BLOCK}) /\ ~(Len(inode[ROOT].block) > NDIRECT)
  BY FirstInodes
<1>5. dirs = 1 /\ sb = gd /\ exit = "ok" /\ commands = 0 /\ outOfSpace = FALSE /\ lostFolder = FALSE
  BY DEF Init
<1> DEFINE p == setUp
<1>6. /\ p.bitmap = bitmap /\ p.gd = gd /\ p.sb = sb /\ p.entries = entries /\ p.words = words /\ p.ok
      /\ p.inode = inode
  BY DEF setUp
<1>7. p \in Process
  <2>1. NoInode \in Node /\ <<0, 0>> \in Int \X Int
    BY DEF NoInode, Node, Kinds
  <2> QED BY <1>1, <1>2, <1>3, <1>4, <1>5, <2>1 DEF setUp, Process
<1> HIDE DEF p
<1>8. Counted(p)
  <2>1. gd.b \in Nat /\ gd.i \in Nat
    BY <1>2 DEF Left
  <2> QED BY <1>1, <1>2, <1>6, <2>1, SMTT(30) DEF Counted
<1>9. Packed(p)
  BY <1>1, <1>6 DEF Packed
<1>10. NamesLead(p, p.bitmap.i)
  <2>1. ASSUME NEW b \in Block, NEW k \in 1 .. Len(entries[b]) PROVE entries[b][k].name \notin Name
    <3>1. b = ROOT_BLOCK
      <4>1. Len(<<>>) = 0 /\ 1 .. 0 = {}
        OBVIOUS
      <4> QED BY <1>3, <4>1
    <3> QED BY <1>3, <3>1
  <2> QED BY <1>6, <2>1 DEF NamesLead, Leads
<1>11. ListsFollow(p) /\ OneUse(p)
  BY <1>3, <1>6 DEF ListsFollow, OneUse
<1>12. LeftFirst(p, p.bitmap.b)
  <2>1. ASSUME NEW b \in Block, b - 1 \in Block PROVE b # ROOT_BLOCK
    <3>1. b - 1 >= ROOT_BLOCK /\ b \in Nat /\ ROOT_BLOCK \in Nat
      BY <1>1, <2>1
    <3> QED BY <3>1
  <2> QED BY <1>3, <1>6, <2>1 DEF LeftFirst
<1>13. Owned(p, inode)
  <2>1. p.bitmap.b = {ROOT_BLOCK} /\ \A i \in p.bitmap.i : i = ROOT
    BY <1>1, <1>6
  <2>2. \A i \in p.bitmap.i : OneEach(inode[i], p.bitmap.b) /\ ~(Len(inode[i].block) > NDIRECT)
    BY <1>4, <2>1, Zenon
  <2>3. \A h, i \in p.bitmap.i : h = i
    BY <2>1, Zenon
  <2> QED BY <2>1, <2>2, <2>3, Zenon DEF Owned
<1>14. Neat(p)
  BY <1>1, <1>3, <1>5, <1>6 DEF Neat
<1>15. Apart(p, inode)
  <2>1. \A h \in p.bitmap.i : Len(List(p, inode[h])) = 0
    <3>1. Len(<<>>) = 0
      OBVIOUS
    <3> QED BY <1>1, <1>4, <1>6, <3>1 DEF List
  <2> QED BY <2>1 DEF Apart
<1>16. Done(p, inode, ~outOfSpace)
  BY <1>7, <1>8, <1>9, <1>10, <1>11, <1>12, <1>13, <1>14, <1>15 DEF Done
<1>17. commands \in 0 .. MaxCommands /\ commands * Gain = 0
  BY <1>5, Bounds
<1>18. BLOCKS + 0 = BLOCKS /\ INODES + 0 = INODES
  BY Bounds
<1>19. gd.b <= BLOCKS + commands * Gain /\ gd.i <= INODES + commands * Gain
  BY <1>2, <1>17, <1>18
<1> QED BY <1>1, <1>5, <1>16, <1>17, <1>19 DEF FsInv, Codes, p
LEMMA FsHolds == Spec => []FsInv
<1> QED BY FsInit, FsStep, PTL DEF Spec

-----------------------------------------------------------------------------
(* What follows for the image.                                               *)

(* A command holds the numbers of blocks and inodes of the image, entries    *)
(* and lists made of them, and counts that are in range; a link count is not *)
(* taken below 0, and the root is never taken for free.                      *)
THEOREM FsTypes == Spec => []FsTypeOK
<1>1. ASSUME FsInv PROVE FsTypeOK
  <2>1. /\ setUp \in Process /\ setUp.bitmap = bitmap /\ setUp.gd = gd /\ setUp.dirs = dirs /\ setUp.sb = sb
        /\ setUp.inode = inode /\ setUp.entries = entries /\ setUp.words = words
    BY <1>1 DEF FsInv, Done, setUp
  <2>2. /\ bitmap \in Bits /\ gd \in Left /\ dirs \in Nat /\ sb \in Super /\ inode \in [Inode -> Node]
        /\ entries \in [Block -> Seq(Entry)] /\ words \in [Block -> Seq(Block)]
    BY <2>1 DEF Process
  <2>3. ASSUME NEW i \in Inode
        PROVE  /\ inode[i].type \in {"none", "file", "dir"} /\ inode[i].links \in Nat
               /\ inode[i].block \in Seq(Block)
    BY <2>2 DEF Node, Kinds
  <2>4. ASSUME NEW b \in Block
        PROVE  /\ words[b] \in Seq(Block)
               /\ \A k \in DOMAIN entries[b] : entries[b][k].inode \in Inode \cup Block \cup {0}
    <3>1. words[b] \in Seq(Block) /\ entries[b] \in Seq(Entry)
      BY <2>2
    <3>2. \A k \in DOMAIN entries[b] : entries[b][k] \in Entry
      BY <3>1
    <3> QED BY <3>1, <3>2 DEF Entry
  <2>5. /\ ROOT \in bitmap.i /\ ROOT_BLOCK \in bitmap.b /\ exit \in Codes /\ commands \in 0 .. MaxCommands
        /\ outOfSpace \in BOOLEAN /\ lostFolder \in BOOLEAN
    BY <1>1 DEF FsInv
  <2> QED BY <2>2, <2>3, <2>4, <2>5 DEF FsTypeOK, Bits, Left, Super, Codes
<1> QED BY <1>1, FsHolds, PTL

(* The group descriptor never counts fewer blocks or inodes free than its    *)
(* bitmaps leave, so reserve, which looks at the bits alone, takes no count  *)
(* below zero; and the superblock agrees with it until a command that runs   *)
(* out of space leaves without cleanUp.                                      *)
THEOREM FsCounts == Spec => []FreeCountsNeverLow
<1>1. ASSUME FsInv PROVE FreeCountsNeverLow
  <2>1. Counted(setUp) /\ (~outOfSpace => Neat(setUp))
    BY <1>1 DEF FsInv, Done
  <2>2. setUp.bitmap = bitmap /\ setUp.gd = gd /\ setUp.sb = sb /\ setUp.ok
    BY DEF setUp
  <2> QED BY <2>1, <2>2 DEF FreeCountsNeverLow, Counted, Neat
<1> QED BY <1>1, FsHolds, PTL

(* Until a command runs out of space, the entries of a directory block fill  *)
(* it: new_dir_entry splits the length it finds, rm_dir_entry joins two, and *)
(* neither makes an entry too short for its name.                            *)
THEOREM FsFilled == Spec => []DirBlocksFilled
<1>1. ASSUME FsInv PROVE DirBlocksFilled
  <2> SUFFICES ASSUME ~outOfSpace, NEW b \in Block, entries[b] # <<>>
      PROVE  /\ Behind(entries[b]) = BLOCK_SIZE
             /\ \A k \in DOMAIN entries[b] : entries[b][k].rec >= Need(entries[b][k].name)
    BY DEF DirBlocksFilled
  <2>1. setUp.entries = entries /\ setUp \in Process
    BY <1>1 DEF FsInv, Done, setUp
  <2>2. Neat(setUp)
    BY <1>1 DEF FsInv, Done
  <2>3. Fills(entries[b])
    BY <2>1, <2>2 DEF Neat
  <2>4. entries[b] \in Seq(Entry)
    BY <2>1 DEF Process
  <2>5. DOMAIN entries[b] = 1 .. Len(entries[b])
    BY <2>4
  <2> QED BY <2>3, <2>5 DEF Fills
<1> QED BY <1>1, FsHolds, PTL

(* Different places hold different things, so there are as many.             *)
LEMMA AsMany ==
    ASSUME NEW S, NEW f, DOMAIN f = S, f = [x \in S |-> f[x]], NEW T, T = {f[x] : x \in S}, IsFiniteSet(T),
           \A x, y \in S : f[x] = f[y] => x = y
    PROVE  Cardinality(T) = Cardinality(S)
<1>1. f \in [S -> T] /\ \A y \in T : \E x \in S : f[x] = y
  OBVIOUS
<1>2. f \in Injection(S, T) /\ f \in Surjection(S, T)
  BY <1>1 DEF Injection, IsInjective, Surjection
<1> QED BY <1>2, FS_Injection

(* A block in use belongs to one inode, at one place, whatever failed before;*)
(* what an indirect block lists belongs to it alone, until a copy ran out of *)
(* space half way.                                                           *)
THEOREM FsOwners == Spec => []BlocksHaveOneOwner
<1>1. ASSUME FsInv PROVE BlocksHaveOneOwner
  <2> DEFINE direct == {q \in Live \X (1 .. NDIRECT + 1) : q[2] \in Places(q[1])}
             listed == {q \in Live \X (1 .. ADDRS) :
                            IsIndirect(q[1]) /\ q[2] \in DOMAIN words[inode[q[1]].block[NDIRECT + 1]]}
             own == {inode[q[1]].block[q[2]] : q \in direct}
             far == {words[inode[q[1]].block[NDIRECT + 1]][q[2]] : q \in listed}
  <2>1. /\ setUp \in Process /\ Owned(setUp, inode) /\ (~outOfSpace => Apart(setUp, inode))
        /\ setUp.bitmap = bitmap /\ setUp.words = words /\ setUp.inode = inode
    BY <1>1 DEF FsInv, Done, setUp
  <2>2. /\ bitmap.i \subseteq Inode /\ inode \in [Inode -> Node] /\ words \in [Block -> Seq(Block)]
        /\ NDIRECT \in Nat \ {0} /\ bitmap.b \subseteq Block
    <3>1. NDIRECT \in Nat \ {0}
      BY Ext2Assumption, Zenon
    <3> QED BY <2>1, <3>1 DEF Process, Bits
  <2>3. IsFiniteSet(bitmap.b)
    BY <2>2, Finite, FS_Subset
  <2>4. ASSUME NEW i \in bitmap.i
        PROVE  /\ OneEach(inode[i], bitmap.b) /\ inode[i] \in Node /\ Len(inode[i].block) \in Nat
               /\ Places(i) = Kept(inode[i]) /\ Kept(inode[i]) \subseteq 1 .. Len(inode[i].block)
    <3>1. OneEach(inode[i], bitmap.b) /\ inode[i] \in Node
      BY <2>1, <2>2 DEF Owned
    <3>2. Len(inode[i].block) \in Nat
      BY <3>1 DEF Node
    <3>3. Places(i) = Kept(inode[i])
      BY DEF Places, Kept, IsIndirect
    <3>4. Kept(inode[i]) \subseteq 1 .. Len(inode[i].block)
      BY <2>2, <3>2 DEF Kept
    <3> QED BY <3>1, <3>2, <3>3, <3>4
  <2>5. \A q \in direct : q[1] \in bitmap.i /\ q[2] \in Kept(inode[q[1]]) /\ q = <<q[1], q[2]>>
    BY <2>4 DEF Live
  <2>6. own \subseteq bitmap.b
    <3>1. ASSUME NEW q \in direct PROVE inode[q[1]].block[q[2]] \in bitmap.b
      <4>1. q[1] \in bitmap.i /\ q[2] \in Kept(inode[q[1]])
        BY <2>5
      <4>2. q[2] \in 1 .. Len(inode[q[1]].block)
        BY <2>4, <4>1
      <4> QED BY <2>4, <4>1, <4>2 DEF OneEach
    <3> HIDE DEF direct
    <3> QED BY <3>1
  <2>7. Cardinality(own) = Cardinality(direct)
    <3> DEFINE f == [q \in direct |-> inode[q[1]].block[q[2]]]
    <3>1. ASSUME NEW p \in direct, NEW q \in direct, f[p] = f[q] PROVE p = q
      <4>1. /\ p[1] \in bitmap.i /\ p[2] \in Kept(inode[p[1]]) /\ p = <<p[1], p[2]>>
            /\ q[1] \in bitmap.i /\ q[2] \in Kept(inode[q[1]]) /\ q = <<q[1], q[2]>>
        BY <2>5
      <4>2. inode[p[1]].block[p[2]] = inode[q[1]].block[q[2]]
        BY <3>1
      <4>3. p[1] = q[1]
        BY <2>1, <4>1, <4>2 DEF Owned
      <4>4. p[2] = q[2]
        BY <2>4, <4>1, <4>2, <4>3 DEF OneEach
      <4> QED BY <4>1, <4>3, <4>4
    <3>2. own = {f[q] : q \in direct} /\ DOMAIN f = direct /\ f = [q \in direct |-> f[q]]
      <4> HIDE DEF direct
      <4> QED OBVIOUS
    <3>3. IsFiniteSet(own)
      BY <2>3, <2>6, FS_Subset
    <3> HIDE DEF f, own, direct
    <3> QED BY <3>1, <3>2, <3>3, AsMany
  <2>8. ASSUME ~outOfSpace
        PROVE  far \subseteq bitmap.b \ own /\ Cardinality(far) = Cardinality(listed)
    <3>1. Apart(setUp, inode)
      BY <2>1, <2>8
    <3>2. ASSUME NEW q \in listed
          PROVE  /\ q[1] \in bitmap.i /\ q[2] \in 1 .. Len(List(setUp, inode[q[1]])) /\ q = <<q[1], q[2]>>
                 /\ words[inode[q[1]].block[NDIRECT + 1]][q[2]] = List(setUp, inode[q[1]])[q[2]]
      <4>1. q[1] \in bitmap.i /\ Len(inode[q[1]].block) > NDIRECT /\ q = <<q[1], q[2]>>
            /\ q[2] \in DOMAIN words[inode[q[1]].block[NDIRECT + 1]]
        BY DEF Live, IsIndirect
      <4>2. List(setUp, inode[q[1]]) = words[inode[q[1]].block[NDIRECT + 1]]
        BY <2>1, <4>1 DEF List, Ind
      <4>3. inode[q[1]].block[NDIRECT + 1] \in Block
        BY <2>2, <2>4, <4>1, IndIn DEF Ind
      <4>4. words[inode[q[1]].block[NDIRECT + 1]] \in Seq(Block)
        BY <2>2, <4>3
      <4>5. DOMAIN words[inode[q[1]].block[NDIRECT + 1]] = 1 .. Len(words[inode[q[1]].block[NDIRECT + 1]])
        BY <4>4
      <4> QED BY <4>1, <4>2, <4>5
    <3> HIDE DEF listed
    <3>3. far \subseteq bitmap.b
      BY <2>1, <3>1, <3>2 DEF Apart
    <3>4. ASSUME NEW q \in listed, NEW p \in direct
          PROVE  words[inode[q[1]].block[NDIRECT + 1]][q[2]] # inode[p[1]].block[p[2]]
      <4>1. p[1] \in bitmap.i /\ p[2] \in Kept(inode[p[1]])
        BY <2>5
      <4> QED BY <2>1, <3>1, <3>2, <4>1 DEF Apart
    <3>5. far \subseteq bitmap.b \ own
      <4> HIDE DEF direct
      <4> QED BY <3>3, <3>4
    <3> DEFINE f == [q \in listed |-> words[inode[q[1]].block[NDIRECT + 1]][q[2]]]
    <3>6. ASSUME NEW p \in listed, NEW q \in listed, f[p] = f[q] PROVE p = q
      <4>1. List(setUp, inode[p[1]])[p[2]] = List(setUp, inode[q[1]])[q[2]]
        BY <3>2, <3>6
      <4>2. p[1] = q[1] /\ p[2] = q[2]
        BY <2>1, <3>1, <3>2, <4>1 DEF Apart
      <4> QED BY <3>2, <4>2
    <3>7. far = {f[q] : q \in listed} /\ DOMAIN f = listed /\ f = [q \in listed |-> f[q]]
      OBVIOUS
    <3>8. IsFiniteSet(far)
      BY <2>3, <3>3, FS_Subset
    <3> HIDE DEF f, far
    <3>9. Cardinality(far) = Cardinality(listed)
      BY <3>6, <3>7, <3>8, AsMany
    <3> QED BY <3>5, <3>9 DEF far
  <2>9. own \subseteq bitmap.b /\ Cardinality(own) = Cardinality(direct)
        /\ (~outOfSpace => far \subseteq bitmap.b \ own /\ Cardinality(far) = Cardinality(listed))
    <3> HIDE DEF own, far, direct, listed
    <3> QED BY <2>6, <2>7, <2>8
  <2> QED BY <2>9 DEF BlocksHaveOneOwner
<1> QED BY <1>1, FsHolds, PTL

(* What a directory in use holds, if its inode and its blocks stay.          *)
LEMMA ListingStays ==
    ASSUME FsInv, NEW i \in bitmap.i, inode'[i] = inode[i], \A b \in bitmap.b : entries'[b] = entries[b]
    PROVE  Listing(i)' = Listing(i)
<1>1. OneEach(inode[i], bitmap.b)
  BY DEF FsInv, Done, Owned, setUp
<1> DEFINE N == Len(inode[i].block)
<1>2. \A j \in 1 .. N : entries'[inode[i].block[j]] = entries[inode[i].block[j]]
  BY <1>1 DEF OneEach
<1>3. [j \in 1 .. N |-> entries'[inode[i].block[j]]] = [j \in 1 .. N |-> entries[inode[i].block[j]]]
  <2> HIDE DEF N
  <2> QED BY <1>2
<1>4. Entries(inode[i])' = Entries(inode[i])
  BY <1>3 DEF Entries
<1> QED BY <1>4 DEF Listing

(* A command that exits with ENOSPC has written blocks and inodes already,   *)
(* but none that was in use: no directory and no file changes.               *)
THEOREM FsExits == Spec => OutOfSpaceKeepsTree
<1> DEFINE Step == exit' = "ENOSPC" => Visible' = Visible /\ \A i \in Live : inode'[i] = inode[i]
<1>1. FsInv /\ [Next]_vars => [Step]_vars
  <2> SUFFICES ASSUME FsInv, Next, exit' = "ENOSPC"
               PROVE  Visible' = Visible /\ \A i \in Live : inode'[i] = inode[i]
    OBVIOUS
  <2>1. Ended
    BY CommandEnds
  <2>2. ~(\E code \in Codes \ {"ENOSPC"} : Fail(code))
    BY DEF Fail
  <2>3. PICK f : Outcome(setUp, f, ~outOfSpace) /\ cleanUp(f)
    BY <2>1, <2>2 DEF Ended
  <2>4. ~f.ok
    BY <2>3 DEF cleanUp
  <2>5. Working(setUp, f)
    BY <2>3, <2>4 DEF Outcome
  <2>6. inode' = f.inode /\ entries' = f.entries /\ bitmap' = bitmap
    BY <2>3, <2>4 DEF cleanUp
  <2>7. /\ \A i \in bitmap.i : inode'[i] = inode[i]
        /\ \A b \in bitmap.b : entries'[b] = entries[b]
    BY <2>5, <2>6 DEF Working, setUp
  <2>8. \A i \in bitmap.i : Listing(i)' = Listing(i)
    BY <2>7, ListingStays
  <2>9. Visible' = Visible
    BY <2>6, <2>8 DEF Visible, Live
  <2> QED BY <2>7, <2>9 DEF Live
<1>2. Spec => [][Step]_vars
  BY <1>1, FsHolds, PTL DEF Spec
<1> QED BY <1>2 DEF OutOfSpaceKeepsTree
=============================================================================
