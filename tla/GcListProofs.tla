--------------------------- MODULE GcListProofs -----------------------------
(***************************************************************************)
(* What holds of the collector for any number of chunks.  The lemmas of    *)
(* the first part are about linked lists in memory: a list is described by *)
(* the set of chunks on it and a rank that grows along it, which a step    *)
(* that removes or inserts a chunk keeps or extends; that the walks of     *)
(* GcList then end, and pass exactly that set, is proved once.             *)
(***************************************************************************)
EXTENDS GcList, FiniteSetTheorems, WellFoundedInduction, TLAPS

Links == [Chunk -> Chunk \cup {NULL}]
N     == Cardinality(Chunk)

LEMMA LeastIndex ==
    ASSUME NEW I \in SUBSET Nat, I # {}
    PROVE  Min(I) \in I /\ \A n \in I : Min(I) <= n
<1> DEFINE less == {ss \in Nat \X Nat : ss[1] < ss[2]}
<1>1. IsWellFoundedOn(less, Nat)
  BY NatLessThanWellFounded, Zenon DEF OpToRel
<1>2. PICK m \in I : \A n \in I : ~(<<n, m>> \in less)
  BY <1>1, WFMin
<1>3. \A a, b \in Nat : a < b => <<a, b>> \in less
  OBVIOUS
<1> HIDE DEF less
<1>4. ASSUME NEW n \in I PROVE m <= n
  <2>1. n \in Nat /\ m \in Nat
    OBVIOUS
  <2>2. ~(n < m)
    BY <1>2, <1>3, <2>1, Zenon
  <2> QED BY <2>1, <2>2
<1> QED BY <1>4 DEF Min

LEMMA NType == N \in Nat
  BY GcAssumption, FS_CardinalityType DEF N

-----------------------------------------------------------------------------
(* Walking lists.                                                            *)

(* f is a walk of n steps from p. *)
Steps(p, nx, n, f) ==
    /\ f \in [0 .. n -> Chunk \cup {NULL}]
    /\ f[0] = p
    /\ \A i \in 1 .. n : f[i] = IF f[i - 1] = NULL THEN NULL ELSE nx[f[i - 1]]

(* A walk of any length can be made. *)
LEMMA WalkExists ==
    ASSUME NEW p \in Chunk \cup {NULL}, NEW nx \in Links
    PROVE  \E f : Steps(p, nx, N, f)
<1> DEFINE Has(n) == \E f : Steps(p, nx, n, f)
           I == {n \in 0 .. N : ~Has(n)}
<1>1. Has(0)
  <2>1. Steps(p, nx, 0, [i \in 0 .. 0 |-> p])
    BY DEF Steps
  <2> QED BY <2>1
<1>2. ASSUME NEW n \in Nat, Has(n) PROVE Has(n + 1)
  <2>1. PICK f : Steps(p, nx, n, f)
    BY <1>2
  <2> DEFINE last == IF f[n] = NULL THEN NULL ELSE nx[f[n]]
             g == [i \in 0 .. n + 1 |-> IF i = n + 1 THEN last ELSE f[i]]
  <2>2. f[n] \in Chunk \cup {NULL}
    BY <2>1 DEF Steps
  <2>3. last \in Chunk \cup {NULL}
    BY <2>2 DEF Links
  <2> HIDE DEF last
  <2>4. g \in [0 .. n + 1 -> Chunk \cup {NULL}] /\ g[0] = p
    BY <2>1, <2>3 DEF Steps
  <2>5. ASSUME NEW i \in 1 .. n + 1
        PROVE  g[i] = IF g[i - 1] = NULL THEN NULL ELSE nx[g[i - 1]]
    <3>1. CASE i = n + 1
      BY <3>1 DEF last
    <3>2. CASE i \in 1 .. n
      BY <3>2, <2>1 DEF Steps
    <3> QED BY <3>1, <3>2
  <2>6. Steps(p, nx, n + 1, g)
    BY <2>4, <2>5 DEF Steps
  <2> QED BY <2>6
<1> HIDE DEF Has
<1>3. ASSUME I # {} PROVE FALSE
  <2>1. I \in SUBSET Nat
    OBVIOUS
  <2>2. Min(I) \in I /\ \A k \in I : Min(I) <= k
    BY <1>3, <2>1, LeastIndex
  <2>3. Min(I) \in 0 .. N /\ ~Has(Min(I))
    BY <2>2
  <2>4. Min(I) - 1 \in Nat /\ ~(Min(I) <= Min(I) - 1) /\ Min(I) - 1 \in 0 .. N
    BY <1>1, <2>3, NType
  <2>5. Has(Min(I) - 1)
    BY <2>2, <2>4
  <2>6. Has((Min(I) - 1) + 1)
    BY <1>2, <2>4, <2>5, Zenon
  <2> QED BY <2>3, <2>6
<1> QED BY <1>3, NType DEF Has

LEMMA WalkSteps ==
    ASSUME NEW p \in Chunk \cup {NULL}, NEW nx \in Links
    PROVE  Steps(p, nx, N, Walk(p, nx))
<1>1. PICK f : Steps(p, nx, N, f)
  BY WalkExists
<1> DEFINE Recursion(g) ==
        g = [n \in 0 .. N |-> IF n = 0 THEN p ELSE IF g[n - 1] = NULL THEN NULL ELSE nx[g[n - 1]]]
<1>2. Recursion(f)
  BY <1>1, NType DEF Steps
<1>3. Walk(p, nx) = CHOOSE g : Recursion(g)
  BY Zenon DEF Walk, N
<1> HIDE DEF Recursion
<1>4. Recursion(Walk(p, nx))
  BY <1>2, <1>3, Zenon
<1> DEFINE w == Walk(p, nx)
<1>5. w = [n \in 0 .. N |-> IF n = 0 THEN p ELSE IF w[n - 1] = NULL THEN NULL ELSE nx[w[n - 1]]]
  BY <1>4, Zenon DEF Recursion
<1> HIDE DEF w
<1> DEFINE Good(n) == w[n] \in Chunk \cup {NULL}
           I == {n \in 0 .. N : ~Good(n)}
<1>6. w[0] = p
  BY <1>5, NType
<1>7. \A i \in 1 .. N : w[i] = IF w[i - 1] = NULL THEN NULL ELSE nx[w[i - 1]]
  BY <1>5, NType
<1>8. ASSUME I # {} PROVE FALSE
  <2>1. I \in SUBSET Nat
    OBVIOUS
  <2>2. Min(I) \in I /\ \A k \in I : Min(I) <= k
    BY <1>8, <2>1, LeastIndex
  <2>3. Min(I) \in 0 .. N /\ ~Good(Min(I))
    BY <2>2
  <2>4. Min(I) \in 1 .. N /\ ~(Min(I) <= Min(I) - 1) /\ Min(I) - 1 \in 0 .. N
    BY <1>6, <2>3, NType
  <2>5. Good(Min(I) - 1)
    BY <2>2, <2>4
  <2> QED BY <1>7, <2>3, <2>4, <2>5 DEF Links
<1>9. w \in [0 .. N -> Chunk \cup {NULL}]
  BY <1>5, <1>8
<1> QED BY <1>6, <1>7, <1>9 DEF Steps, w

-----------------------------------------------------------------------------
(* Lists as ranked sets.                                                     *)

(* S is the set of chunks on the list from p along nx; r grows along it. *)
Ranked(p, nx, S, r) ==
    /\ S \subseteq Chunk /\ r \in [Chunk -> Int]
    /\ p \in S \cup {NULL}
    /\ \A c \in S : p # NULL /\ r[p] <= r[c]
    /\ \A c, d \in S : r[c] = r[d] => c = d
    /\ \A c \in S : nx[c] = NULL \/ (nx[c] \in S /\ r[c] < r[nx[c]])
    /\ \A c, d \in S : r[c] < r[d] => nx[c] # NULL /\ r[nx[c]] <= r[d]

IsList(p, nx, S) == \E r \in [Chunk -> Int] : Ranked(p, nx, S, r)

(* The walk comes to an end. *)
Ends(p, nx)  == Walk(p, nx)[N] = NULL
Reach(p, nx) == ToSet(Along(p, nx))

(* Sound, for any set A in the place of the allocated chunks. *)
SoundIn(p, nx, A) ==
    LET at == Walk(p, nx)
    IN  at[Cardinality(Chunk)] = NULL /\ \A n \in DOMAIN at : at[n] \in A \cup {NULL}

LEMMA SoundIs ==
    ASSUME NEW p \in Chunk \cup {NULL}, NEW nx \in Links, NEW A
    PROVE  SoundIn(p, nx, A) <=> Ends(p, nx) /\ \A n \in 0 .. N : Walk(p, nx)[n] \in A \cup {NULL}
<1>1. DOMAIN Walk(p, nx) = 0 .. N
  BY WalkSteps DEF Steps
<1> QED BY <1>1 DEF SoundIn, Ends, N

(* How far a walk gets, and what it passes. *)
LEMMA AlongLength ==
    ASSUME NEW p \in Chunk \cup {NULL}, NEW nx \in Links
    PROVE  \E n \in 0 .. N :
               /\ \A i \in 0 .. n - 1 : Walk(p, nx)[i] # NULL
               /\ n < N => Walk(p, nx)[n] = NULL
               /\ Along(p, nx) = [i \in 1 .. n |-> Walk(p, nx)[i - 1]]
<1> DEFINE w == Walk(p, nx)
           I == {n \in 0 .. N : w[n] = NULL \/ n = N}
<1>1. I \in SUBSET Nat /\ I # {}
  BY NType
<1>2. Min(I) \in I /\ \A k \in I : Min(I) <= k
  BY <1>1, LeastIndex
<1>3. Along(p, nx) = [i \in 1 .. Min(I) |-> w[i - 1]]
  BY DEF Along, N
<1>4. ASSUME NEW i \in 0 .. Min(I) - 1 PROVE w[i] # NULL
  BY <1>2, NType
<1>5. Min(I) \in 0 .. N /\ (Min(I) < N => w[Min(I)] = NULL)
  BY <1>2
<1> HIDE DEF I
<1> QED BY <1>3, <1>4, <1>5

(* The walk stays on the list until it ends. *)
LEMMA RankedWalk ==
    ASSUME NEW p \in Chunk \cup {NULL}, NEW nx \in Links, NEW S, NEW r, Ranked(p, nx, S, r)
    PROVE  LET w == Walk(p, nx)
           IN  /\ \A n \in 0 .. N : w[n] \in S \cup {NULL}
               /\ \A i, j \in 0 .. N : i < j /\ w[j] # NULL => w[i] # NULL /\ r[w[i]] < r[w[j]]
<1> DEFINE w == Walk(p, nx)
           Good(n) == /\ w[n] \in S \cup {NULL}
                      /\ w[n] # NULL => \A i \in 0 .. n - 1 : w[i] # NULL /\ r[w[i]] < r[w[n]]
           I == {n \in 0 .. N : ~Good(n)}
<1>1. Steps(p, nx, N, w)
  BY WalkSteps
<1> HIDE DEF w
<1>2. Good(0)
  BY <1>1 DEF Steps, Ranked
<1>3. ASSUME NEW n \in 1 .. N, Good(n - 1) PROVE Good(n)
  <2>1. w[n] = IF w[n - 1] = NULL THEN NULL ELSE nx[w[n - 1]]
    BY <1>1 DEF Steps
  <2>2. CASE w[n - 1] = NULL
    BY <2>1, <2>2
  <2>3. CASE w[n - 1] # NULL
    <3>1. w[n - 1] \in S /\ w[n] = nx[w[n - 1]]
      BY <1>3, <2>1, <2>3
    <3>2. w[n] = NULL \/ (w[n] \in S /\ r[w[n - 1]] < r[w[n]])
      BY <3>1 DEF Ranked
    <3>3. ASSUME w[n] # NULL, NEW i \in 0 .. n - 1
          PROVE  w[i] # NULL /\ r[w[i]] < r[w[n]]
      <4>1. CASE i = n - 1
        BY <4>1, <2>3, <3>2, <3>3
      <4>2. CASE i \in 0 .. (n - 1) - 1
        <5>1. w[i] # NULL /\ r[w[i]] < r[w[n - 1]]
          BY <1>3, <2>3, <4>2
        <5>2. w[i] \in Chunk /\ w[n - 1] \in Chunk /\ w[n] \in Chunk /\ r \in [Chunk -> Int]
          BY <1>1, <5>1, <3>1, <3>2, <3>3, <4>2, NType DEF Steps, Ranked
        <5> QED BY <5>1, <5>2, <3>2, <3>3
      <4> QED BY <4>1, <4>2
    <3> QED BY <3>2, <3>3
  <2> QED BY <2>2, <2>3
<1> HIDE DEF Good
<1>4. ASSUME I # {} PROVE FALSE
  <2>1. I \in SUBSET Nat
    OBVIOUS
  <2>2. Min(I) \in I /\ \A k \in I : Min(I) <= k
    BY <1>4, <2>1, LeastIndex
  <2>3. Min(I) \in 0 .. N /\ ~Good(Min(I))
    BY <2>2
  <2>4. Min(I) \in 1 .. N /\ ~(Min(I) <= Min(I) - 1) /\ Min(I) - 1 \in 0 .. N
    BY <1>2, <2>3, NType
  <2>5. Good(Min(I) - 1)
    BY <2>2, <2>4
  <2> QED BY <1>3, <2>3, <2>4, <2>5
<1>5. \A n \in 0 .. N : Good(n)
  BY <1>4
<1>6. \A n \in 0 .. N : w[n] \in S \cup {NULL}
  BY <1>5 DEF Good
<1>7. \A i, j \in 0 .. N : i < j /\ w[j] # NULL => w[i] # NULL /\ r[w[i]] < r[w[j]]
  BY <1>5, NType DEF Good
<1> QED BY <1>6, <1>7 DEF w

(* A walk along a list ends: it has no more places than there are chunks. *)
LEMMA RankedEnds ==
    ASSUME NEW p \in Chunk \cup {NULL}, NEW nx \in Links, NEW S, NEW r, Ranked(p, nx, S, r)
    PROVE  Ends(p, nx)
<1> DEFINE w == Walk(p, nx)
           f == [i \in 0 .. N |-> w[i]]
<1> SUFFICES ASSUME w[N] # NULL PROVE FALSE
  BY DEF Ends
<1>1. /\ \A n \in 0 .. N : w[n] \in S \cup {NULL}
      /\ \A i, j \in 0 .. N : i < j /\ w[j] # NULL => w[i] # NULL /\ r[w[i]] < r[w[j]]
  BY RankedWalk
<1> HIDE DEF w
<1>2. \A i \in 0 .. N : w[i] \in Chunk
  BY <1>1, NType DEF Ranked
<1>3. \A i, j \in 0 .. N : i < j => w[i] # w[j]
  BY <1>1, <1>2, GcAssumption DEF Ranked
<1>4. f \in Injection(0 .. N, Chunk)
  <2>1. f \in [0 .. N -> Chunk]
    BY <1>2
  <2> HIDE DEF f
  <2>2. ASSUME NEW i \in 0 .. N, NEW j \in 0 .. N, f[i] = f[j] PROVE i = j
    <3>1. i \in Int /\ j \in Int /\ w[i] = w[j]
      BY <2>2, NType DEF f
    <3>2. ~(i < j) /\ ~(j < i)
      BY <1>3, <3>1
    <3> QED BY <3>1, <3>2
  <2>3. DOMAIN f = 0 .. N
    BY <2>1
  <2> QED BY <2>1, <2>2, <2>3 DEF Injection, IsInjective
<1>5. Cardinality(0 .. N) <= Cardinality(Chunk)
  BY <1>4, GcAssumption, FS_Injection
<1>6. Cardinality(0 .. N) = N + 1
  BY FS_Interval, NType
<1> QED BY <1>5, <1>6, NType DEF N

(* It passes every chunk of the list. *)
LEMMA RankedReach ==
    ASSUME NEW p \in Chunk \cup {NULL}, NEW nx \in Links, NEW S, NEW r, Ranked(p, nx, S, r)
    PROVE  Reach(p, nx) = S
<1> DEFINE w == Walk(p, nx)
<1>1. /\ \A n \in 0 .. N : w[n] \in S \cup {NULL}
      /\ \A i, j \in 0 .. N : i < j /\ w[j] # NULL => w[i] # NULL /\ r[w[i]] < r[w[j]]
  BY RankedWalk
<1>2. Steps(p, nx, N, w)
  BY WalkSteps
<1>3. w[N] = NULL
  BY RankedEnds DEF Ends
<1>4. PICK n \in 0 .. N : /\ \A i \in 0 .. n - 1 : w[i] # NULL
                          /\ n < N => w[n] = NULL
                          /\ Along(p, nx) = [i \in 1 .. n |-> w[i - 1]]
  BY AlongLength
<1> HIDE DEF w
<1>5. Reach(p, nx) = {w[i] : i \in 0 .. n - 1}
  <2>1. ToSet(Along(p, nx)) = {w[i - 1] : i \in 1 .. n}
    <3> DEFINE a == [i \in 1 .. n |-> w[i - 1]]
    <3>1. Along(p, nx) = a /\ DOMAIN a = 1 .. n /\ \A i \in 1 .. n : a[i] = w[i - 1]
      BY <1>4
    <3> HIDE DEF a
    <3>2. ToSet(a) = {w[i - 1] : i \in 1 .. n}
      BY <3>1 DEF ToSet
    <3> QED BY <3>1, <3>2
  <2>2. \A x : x \in {w[i - 1] : i \in 1 .. n} <=> x \in {w[i] : i \in 0 .. n - 1}
    <3>1. \A i \in 1 .. n : i - 1 \in 0 .. n - 1
      BY NType
    <3>2. \A i \in 0 .. n - 1 : i + 1 \in 1 .. n /\ (i + 1) - 1 = i
      BY NType
    <3> QED BY <3>1, <3>2
  <2> QED BY <2>1, <2>2 DEF Reach
<1>6. ASSUME NEW c \in S PROVE \E i \in 0 .. n - 1 : w[i] = c
  <2> DEFINE I == {i \in 0 .. N : w[i] = NULL \/ r[c] <= r[w[i]]}
  <2>1. I \in SUBSET Nat /\ I # {}
    BY <1>3, NType
  <2>2. Min(I) \in I /\ \A k \in I : Min(I) <= k
    BY <2>1, LeastIndex
  <2> DEFINE m == Min(I)
  <2>3. m \in 0 .. N /\ (w[m] = NULL \/ r[c] <= r[w[m]])
    BY <2>2
  <2>4. m - 1 \in 0 .. N => w[m - 1] # NULL /\ ~(r[c] <= r[w[m - 1]])
    BY <2>2, <2>3, NType
  <2> HIDE DEF m, I
  <2>5. w[m] = c
    <3>1. CASE m = 0
      BY <3>1, <2>3, <1>2, NType DEF Steps, Ranked
    <3>2. CASE m # 0
      <4>1. m - 1 \in 0 .. N /\ m \in 1 .. N
        BY <3>2, <2>3, NType
      <4>2. w[m - 1] \in S /\ w[m] = nx[w[m - 1]]
        BY <4>1, <2>4, <1>1, <1>2 DEF Steps
      <4>3. r[w[m - 1]] < r[c]
        BY <4>1, <4>2, <2>4 DEF Ranked
      <4>4. nx[w[m - 1]] # NULL /\ r[nx[w[m - 1]]] <= r[c]
        BY <4>2, <4>3 DEF Ranked
      <4>5. w[m] \in S /\ r[w[m]] <= r[c] /\ r[c] <= r[w[m]]
        BY <4>2, <4>4, <2>3, <1>1
      <4> QED BY <4>5 DEF Ranked
    <3> QED BY <3>1, <3>2
  <2>6. w[m] # NULL
    BY <2>5, GcAssumption DEF Ranked
  <2>7. ASSUME ~(m < n) PROVE FALSE
    <3>1. (n < N /\ w[n] = NULL) \/ n = N
      BY <1>4, NType
    <3>2. w[n] = NULL
      BY <3>1, <1>3
    <3>3. n < m
      BY <2>7, <2>6, <3>2, <2>3, NType
    <3> QED BY <1>1, <2>3, <2>6, <3>2, <3>3, NType
  <2> QED BY <2>5, <2>7, <2>3, NType
<1>7. ASSUME NEW i \in 0 .. n - 1 PROVE w[i] \in S
  BY <1>1, <1>4, NType
<1> QED BY <1>5, <1>6, <1>7

LEMMA ListIsSound ==
    ASSUME NEW p \in Chunk \cup {NULL}, NEW nx \in Links, NEW S, IsList(p, nx, S)
    PROVE  /\ \A A : S \subseteq A => SoundIn(p, nx, A)
           /\ Ends(p, nx) /\ Reach(p, nx) = S
<1>1. PICK r \in [Chunk -> Int] : Ranked(p, nx, S, r)
  BY DEF IsList
<1>2. Ends(p, nx) /\ Reach(p, nx) = S
  BY <1>1, RankedEnds, RankedReach
<1>3. \A n \in 0 .. N : Walk(p, nx)[n] \in S \cup {NULL}
  BY <1>1, RankedWalk
<1> QED BY <1>2, <1>3, SoundIs

(* s is the list from p along nx, in order. *)
IsChain(p, nx, s) ==
    /\ s \in Seq(Chunk)
    /\ \A i, j \in 1 .. Len(s) : s[i] = s[j] => i = j
    /\ p = IF Len(s) = 0 THEN NULL ELSE s[1]
    /\ \A i \in 1 .. Len(s) : nx[s[i]] = IF i = Len(s) THEN NULL ELSE s[i + 1]

(* A walk that ends never comes back to where it was. *)
LEMMA EndsOnce ==
    ASSUME NEW p \in Chunk \cup {NULL}, NEW nx \in Links, NEW n \in 0 .. N,
           Walk(p, nx)[n] = NULL, \A i \in 0 .. n - 1 : Walk(p, nx)[i] # NULL,
           NEW i \in 0 .. n - 1, NEW j \in 0 .. n - 1, i < j
    PROVE  Walk(p, nx)[i] # Walk(p, nx)[j]
<1> DEFINE w == Walk(p, nx)
           Same(k) == w[i + k] = w[j + k]
           I == {k \in 0 .. n - j : ~Same(k)}
<1>1. Steps(p, nx, N, w)
  BY WalkSteps
<1> HIDE DEF w
<1> SUFFICES ASSUME w[i] = w[j] PROVE FALSE
  BY DEF w
<1>2. n \in Nat /\ i \in Nat /\ j \in Nat /\ n <= N /\ j < n
  BY NType
<1>3. \A k \in 1 .. n : w[k - 1] # NULL /\ w[k] = nx[w[k - 1]]
  <2> SUFFICES ASSUME NEW k \in 1 .. n PROVE w[k - 1] # NULL /\ w[k] = nx[w[k - 1]]
    OBVIOUS
  <2>1. k - 1 \in 0 .. n - 1 /\ k \in 1 .. N
    BY <1>2, NType
  <2> QED BY <2>1, <1>1 DEF Steps, w
<1>4. ASSUME I # {} PROVE FALSE
  <2>1. I \in SUBSET Nat
    OBVIOUS
  <2>2. Min(I) \in I /\ \A k \in I : Min(I) <= k
    BY <1>4, <2>1, LeastIndex
  <2> DEFINE m == Min(I)
  <2>3. m \in 0 .. n - j /\ w[i + m] # w[j + m]
    BY <2>2
  <2>4. m - 1 \in 0 .. n - j => w[i + (m - 1)] = w[j + (m - 1)]
    BY <2>2, <2>3, <1>2
  <2> HIDE DEF m
  <2>5. m # 0
    BY <2>3, <1>2
  <2>6. /\ m - 1 \in 0 .. n - j /\ i + m \in 1 .. n /\ j + m \in 1 .. n
        /\ i + (m - 1) = (i + m) - 1 /\ j + (m - 1) = (j + m) - 1
    BY <2>3, <2>5, <1>2
  <2> QED BY <2>3, <2>4, <2>6, <1>3
<1>5. n - j \in 0 .. n - j /\ i + (n - j) \in 0 .. n - 1 /\ j + (n - j) = n
  BY <1>2
<1>6. w[i + (n - j)] = w[n]
  BY <1>4, <1>5
<1> QED BY <1>5, <1>6 DEF w

LEMMA AlongIsChain ==
    ASSUME NEW p \in Chunk \cup {NULL}, NEW nx \in Links, Ends(p, nx)
    PROVE  IsChain(p, nx, Along(p, nx)) /\ \A n \in 1 .. Len(Along(p, nx)) : Along(p, nx)[n] = Walk(p, nx)[n - 1]
<1> DEFINE w == Walk(p, nx)
           s == Along(p, nx)
<1>1. Steps(p, nx, N, w)
  BY WalkSteps
<1>2. PICK n \in 0 .. N : /\ \A i \in 0 .. n - 1 : w[i] # NULL
                          /\ n < N => w[n] = NULL
                          /\ Along(p, nx) = [i \in 1 .. n |-> w[i - 1]]
  BY AlongLength
<1>3. w[n] = NULL
  BY <1>2, NType DEF Ends
<1>4. \A i, j \in 0 .. n - 1 : i < j => w[i] # w[j]
  BY <1>2, <1>3, EndsOnce
<1>5. n \in Nat /\ n <= N
  BY NType
<1> HIDE DEF w
<1>6. \A i \in 1 .. n : i - 1 \in 0 .. n - 1 /\ w[i - 1] \in Chunk
  BY <1>1, <1>2, <1>5, NType DEF Steps
<1>7. s \in Seq(Chunk) /\ Len(s) = n /\ \A i \in 1 .. n : s[i] = w[i - 1]
  BY <1>2, <1>5, <1>6
<1> HIDE DEF s
<1>8. ASSUME NEW i \in 1 .. n, NEW j \in 1 .. n, s[i] = s[j] PROVE i = j
  <2>1. i - 1 \in 0 .. n - 1 /\ j - 1 \in 0 .. n - 1 /\ w[i - 1] = w[j - 1]
    BY <1>6, <1>7, <1>8
  <2>2. ~(i - 1 < j - 1) /\ ~(j - 1 < i - 1)
    BY <2>1, <1>4
  <2> QED BY <2>2, <1>5
<1>9. p = IF n = 0 THEN NULL ELSE s[1]
  BY <1>1, <1>3, <1>5, <1>7 DEF Steps
<1>10. ASSUME NEW i \in 1 .. n PROVE nx[s[i]] = IF i = n THEN NULL ELSE s[i + 1]
  <2>1. i \in 1 .. N /\ w[i - 1] # NULL /\ s[i] = w[i - 1]
    BY <1>2, <1>5, <1>6, <1>7, NType
  <2>2. w[i] = nx[s[i]]
    BY <2>1, <1>1 DEF Steps
  <2>3. i # n => i + 1 \in 1 .. n /\ (i + 1) - 1 = i
    BY <1>5
  <2> QED BY <2>2, <2>3, <1>3, <1>7
<1> QED BY <1>7, <1>8, <1>9, <1>10 DEF IsChain, s, w

(* The places of a list in order rank its chunks. *)
LEMMA ChainIsRanked ==
    ASSUME NEW p, NEW nx, NEW s, IsChain(p, nx, s)
    PROVE  \E r \in [Chunk -> Int] :
               /\ Ranked(p, nx, ToSet(s), r)
               /\ \A i \in 1 .. Len(s) : r[s[i]] = i
<1> DEFINE S == {s[i] : i \in 1 .. Len(s)}
           at(c) == CHOOSE i \in 1 .. Len(s) : s[i] = c
           r == [c \in Chunk |-> IF c \in S THEN at(c) ELSE 0]
<1>1. ToSet(s) = S /\ Len(s) \in Nat
  BY DEF ToSet, IsChain
<1>2. \A c \in S : at(c) \in 1 .. Len(s) /\ s[at(c)] = c
  OBVIOUS
<1> HIDE DEF at
<1>3. \A i \in 1 .. Len(s) : s[i] \in Chunk /\ s[i] \in S
  BY DEF IsChain
<1>4. r \in [Chunk -> Int]
  BY <1>1, <1>2
<1>5. \A i \in 1 .. Len(s) : r[s[i]] = i
  BY <1>2, <1>3 DEF IsChain
<1>6. \A c \in S : c \in Chunk /\ \E i \in 1 .. Len(s) : c = s[i] /\ r[c] = i
  BY <1>3, <1>5
<1> HIDE DEF r
<1>7. Ranked(p, nx, S, r)
  <2>1. S \subseteq Chunk /\ p \in S \cup {NULL}
    BY <1>1, <1>3 DEF IsChain
  <2>2. \A c \in S : p # NULL /\ r[p] <= r[c]
    <3> SUFFICES ASSUME NEW c \in S PROVE p # NULL /\ r[p] <= r[c]
      OBVIOUS
    <3>1. PICK i \in 1 .. Len(s) : c = s[i] /\ r[c] = i
      BY <1>6
    <3>2. p = s[1] /\ 1 \in 1 .. Len(s)
      BY <1>1 DEF IsChain
    <3>3. r[p] = 1 /\ p \in Chunk
      BY <3>2, <1>3, <1>5
    <3>4. i \in Nat /\ 1 <= i
      BY <1>1
    <3> QED BY <3>1, <3>3, <3>4, GcAssumption
  <2>3. \A c, d \in S : r[c] = r[d] => c = d
    BY <1>6
  <2>4. ASSUME NEW c \in S
        PROVE  /\ nx[c] = NULL \/ (nx[c] \in S /\ r[c] < r[nx[c]])
               /\ \A d \in S : r[c] < r[d] => nx[c] # NULL /\ r[nx[c]] <= r[d]
    <3>1. PICK i \in 1 .. Len(s) : c = s[i] /\ r[c] = i
      BY <1>6
    <3>2. nx[c] = IF i = Len(s) THEN NULL ELSE s[i + 1]
      BY <3>1 DEF IsChain
    <3>3. CASE i = Len(s)
      <4>1. \A d \in S : ~(r[c] < r[d])
        BY <3>1, <3>3, <1>1, <1>6
      <4> QED BY <4>1, <3>2, <3>3
    <3>4. CASE i # Len(s)
      <4>1. i + 1 \in 1 .. Len(s) /\ nx[c] = s[i + 1]
        BY <3>1, <3>2, <3>4, <1>1
      <4>2. nx[c] \in S /\ nx[c] # NULL /\ r[nx[c]] = i + 1
        BY <4>1, <1>3, <1>5, GcAssumption
      <4>3. \A d \in S : r[d] \in Int
        BY <1>4, <2>1
      <4> QED BY <4>2, <4>3, <3>1
    <3> QED BY <3>3, <3>4
  <2> QED BY <1>4, <2>1, <2>2, <2>3, <2>4 DEF Ranked
<1> QED BY <1>1, <1>4, <1>5, <1>7

LEMMA SoundIsList ==
    ASSUME NEW p \in Chunk \cup {NULL}, NEW nx \in Links, NEW A, SoundIn(p, nx, A)
    PROVE  IsList(p, nx, Reach(p, nx)) /\ Reach(p, nx) \subseteq A
<1>1. Ends(p, nx) /\ \A n \in 0 .. N : Walk(p, nx)[n] \in A \cup {NULL}
  BY SoundIs
<1>2. IsChain(p, nx, Along(p, nx))
      /\ \A n \in 1 .. Len(Along(p, nx)) : Along(p, nx)[n] = Walk(p, nx)[n - 1]
  BY <1>1, AlongIsChain
<1>3. IsList(p, nx, Reach(p, nx))
  BY <1>2, ChainIsRanked DEF IsList, Reach
<1>4. PICK n \in 0 .. N : Along(p, nx) = [i \in 1 .. n |-> Walk(p, nx)[i - 1]]
  BY AlongLength
<1>5. ASSUME NEW c \in Reach(p, nx) PROVE c \in A
  <2>1. Len(Along(p, nx)) = n
    BY <1>4, NType
  <2>2. PICK i \in 1 .. n : c = Along(p, nx)[i]
    BY <2>1, <1>2 DEF Reach, ToSet, IsChain
  <2>3. c = Walk(p, nx)[i - 1] /\ i - 1 \in 0 .. N /\ c \in Chunk
    BY <2>1, <2>2, <1>2, NType DEF IsChain
  <2> QED BY <2>3, <1>1, GcAssumption
<1> QED BY <1>3, <1>5

-----------------------------------------------------------------------------
(* What the steps do to a list.                                              *)

LEMMA ListEnds ==
    ASSUME NEW p, NEW nx, NEW S, IsList(p, nx, S)
    PROVE  /\ S \subseteq Chunk /\ p \in S \cup {NULL} /\ (p = NULL <=> S = {})
           /\ \A c \in S : nx[c] \in S \cup {NULL}
           /\ \A c \in S : nx[c] # c /\ nx[c] # p
BY GcAssumption DEF IsList, Ranked

LEMMA ListEmpty == \A nx : IsList(NULL, nx, {})
<1> DEFINE r == [c \in Chunk |-> 0]
<1>1. r \in [Chunk -> Int]
  OBVIOUS
<1>2. \A nx : Ranked(NULL, nx, {}, r)
  BY <1>1 DEF Ranked
<1> QED BY <1>1, <1>2 DEF IsList

(* Only the links of the list's own chunks matter. *)
LEMMA ListFrame ==
    ASSUME NEW p, NEW nx, NEW S, IsList(p, nx, S), NEW nx2, \A c \in S : nx2[c] = nx[c]
    PROVE  IsList(p, nx2, S)
BY DEF IsList, Ranked

LEMMA ListInsert ==
    ASSUME NEW p, NEW nx, NEW S, IsList(p, nx, S),
           NEW c \in Chunk, c \notin S,
           NEW nx2, nx2[c] = p, \A d \in S : nx2[d] = nx[d]
    PROVE  IsList(c, nx2, S \cup {c})
<1>1. PICK r \in [Chunk -> Int] : Ranked(p, nx, S, r)
  BY DEF IsList
<1> DEFINE low == IF p = NULL THEN 0 ELSE r[p] - 1
           r2 == [d \in Chunk |-> IF d = c THEN low ELSE r[d]]
<1>2. S \subseteq Chunk /\ p \in S \cup {NULL} /\ c # NULL /\ NULL \notin S
  BY <1>1, GcAssumption DEF Ranked
<1>3. low \in Int /\ \A d \in S : low < r[d]
  BY <1>1, <1>2 DEF Ranked
<1> HIDE DEF low
<1>4. /\ r2 \in [Chunk -> Int] /\ r2[c] = low
      /\ \A d \in S : r2[d] = r[d] /\ d # c
  BY <1>2, <1>3
<1> HIDE DEF r2
<1>5. p # NULL => \A d \in S : r[p] <= r[d]
  BY <1>1 DEF Ranked
<1>6. p = NULL => S = {}
  BY <1>1 DEF Ranked
<1>7. Ranked(c, nx2, S \cup {c}, r2)
  BY <1>1, <1>2, <1>3, <1>4, <1>5, <1>6 DEF Ranked
<1> QED BY <1>4, <1>7 DEF IsList

LEMMA ListTail ==
    ASSUME NEW p, NEW nx, NEW S, IsList(p, nx, S), p # NULL
    PROVE  IsList(nx[p], nx, S \ {p})
<1>1. PICK r \in [Chunk -> Int] : Ranked(p, nx, S, r)
  BY DEF IsList
<1>2. p \in S /\ S \subseteq Chunk /\ NULL \notin S
  BY <1>1, GcAssumption DEF Ranked
<1>3. \A c \in S \ {p} : r[p] < r[c]
  BY <1>1, <1>2 DEF Ranked
<1>4. Ranked(nx[p], nx, S \ {p}, r)
  BY <1>1, <1>2, <1>3 DEF Ranked
<1> QED BY <1>4 DEF IsList

(* c is passed, and the chunk that followed it with it. *)
LEMMA ListRemove ==
    ASSUME NEW p, NEW nx, NEW S, IsList(p, nx, S),
           NEW c \in S, nx[c] # NULL,
           NEW nx2, nx2[c] = nx[nx[c]], \A d \in S \ {c, nx[c]} : nx2[d] = nx[d]
    PROVE  IsList(p, nx2, S \ {nx[c]})
<1>1. PICK r \in [Chunk -> Int] : Ranked(p, nx, S, r)
  BY DEF IsList
<1> DEFINE gone == nx[c]
           T == S \ {gone}
<1>2. /\ gone \in S /\ gone \in Chunk /\ c \in Chunk /\ r[c] < r[gone] /\ NULL \notin S
      /\ nx[gone] = NULL \/ (nx[gone] \in S /\ r[gone] < r[nx[gone]])
  BY <1>1, GcAssumption DEF Ranked
<1>3. p \in T /\ c \in T
  BY <1>1, <1>2 DEF Ranked
<1>4. ASSUME NEW d \in T, d # c PROVE nx2[d] = nx[d] /\ nx[d] # gone
  <2>1. nx2[d] = nx[d]
    BY <1>4
  <2>2. r[d] \in Int /\ r[c] \in Int /\ r[d] # r[c] /\ nx[c] = gone
    BY <1>1, <1>2, <1>4 DEF Ranked
  <2>3. r[d] < r[c] => r[nx[d]] <= r[c]
    BY <1>1, <1>4 DEF Ranked
  <2>4. r[c] < r[d] => r[gone] <= r[d]
    BY <1>1, <1>4 DEF Ranked
  <2>5. nx[d] = gone => r[d] < r[gone]
    BY <1>1, <1>2, <1>4 DEF Ranked
  <2>6. r[gone] \in Int
    BY <1>1, <1>2
  <2> QED BY <1>2, <2>1, <2>2, <2>3, <2>4, <2>5, <2>6
<1>5. nx2[c] = nx[gone]
  OBVIOUS
<1> HIDE DEF gone
<1>6. \A d \in T : nx2[d] = NULL \/ (nx2[d] \in T /\ r[d] < r[nx2[d]])
  <2> SUFFICES ASSUME NEW d \in T PROVE nx2[d] = NULL \/ (nx2[d] \in T /\ r[d] < r[nx2[d]])
    OBVIOUS
  <2>1. CASE d = c
    <3>1. nx[gone] # NULL => nx[gone] \in Chunk /\ nx[gone] # gone
      BY <1>1, <1>2 DEF Ranked
    <3> QED BY <2>1, <3>1, <1>1, <1>2, <1>5
  <2>2. CASE d # c
    BY <2>2, <1>1, <1>4 DEF Ranked
  <2> QED BY <2>1, <2>2
<1>7. \A d, e \in T : r[d] < r[e] => nx2[d] # NULL /\ r[nx2[d]] <= r[e]
  <2> SUFFICES ASSUME NEW d \in T, NEW e \in T, r[d] < r[e] PROVE nx2[d] # NULL /\ r[nx2[d]] <= r[e]
    OBVIOUS
  <2>1. CASE d = c
    <3>1. r[gone] <= r[e] /\ e # gone
      BY <2>1, <1>1 DEF Ranked, gone
    <3>2. r[gone] < r[e]
      BY <3>1, <1>1, <1>2 DEF Ranked
    <3> QED BY <2>1, <3>2, <1>1, <1>2, <1>5 DEF Ranked
  <2>2. CASE d # c
    BY <2>2, <1>1, <1>4 DEF Ranked
  <2> QED BY <2>1, <2>2
<1>8. Ranked(p, nx2, T, r)
  BY <1>1, <1>2, <1>3, <1>6, <1>7 DEF Ranked
<1> QED BY <1>8 DEF IsList, gone

(* From any of its chunks on, a list is a list. *)
LEMMA ListFrom ==
    ASSUME NEW p, NEW nx, NEW S, IsList(p, nx, S), NEW c \in S
    PROVE  \E T \in SUBSET S : IsList(c, nx, T) /\ \A d \in S : nx[d] = c => d \notin T
<1>1. PICK r \in [Chunk -> Int] : Ranked(p, nx, S, r)
  BY DEF IsList
<1> DEFINE T == {d \in S : r[c] <= r[d]}
<1>2. S \subseteq Chunk /\ c \in T /\ NULL \notin S
  BY <1>1, GcAssumption DEF Ranked
<1>3. \A d \in S : r[d] \in Int
  BY <1>1, <1>2
<1>4. Ranked(c, nx, T, r)
  BY <1>1, <1>2, <1>3 DEF Ranked
<1>5. \A d \in S : nx[d] = c => d \notin T
  BY <1>1, <1>2, <1>3 DEF Ranked
<1> QED BY <1>4, <1>5 DEF IsList

(* The converse of ListRemove: d is put behind c. *)
LEMMA ListPutBack ==
    ASSUME NEW p, NEW nx, NEW S, IsList(p, nx, S),
           NEW c \in S, NEW d \in Chunk, d \notin S,
           NEW nx2, nx2[c] = d, nx2[d] = nx[c], \A e \in S \ {c} : nx2[e] = nx[e]
    PROVE  IsList(p, nx2, S \cup {d})
<1>1. PICK r \in [Chunk -> Int] : Ranked(p, nx, S, r)
  BY DEF IsList
<1> DEFINE r2 == [e \in Chunk |-> IF e = d THEN 2 * r[c] + 1 ELSE 2 * r[e]]
<1>2. S \subseteq Chunk /\ c \in Chunk /\ p \in S /\ NULL \notin S /\ d # NULL
  BY <1>1, GcAssumption DEF Ranked
<1>3. \A e \in S : r[e] \in Int
  BY <1>1, <1>2
<1>4. /\ r2 \in [Chunk -> Int] /\ r2[d] = 2 * r[c] + 1
      /\ \A e \in S : r2[e] = 2 * r[e] /\ e # d
  BY <1>1, <1>2
<1> HIDE DEF r2
<1>5. \A e \in S : r[p] <= r[e]
  BY <1>1 DEF Ranked
<1>6. \A e \in S \cup {d} : r2[p] <= r2[e]
  BY <1>2, <1>3, <1>4, <1>5
<1>7. \A e, f \in S \cup {d} : r2[e] = r2[f] => e = f
  BY <1>1, <1>3, <1>4 DEF Ranked
<1>8. \A e \in S \cup {d} : nx2[e] = NULL \/ (nx2[e] \in S \cup {d} /\ r2[e] < r2[nx2[e]])
  <2>1. r2[c] < r2[d]
    BY <1>3, <1>4
  <2>2. nx[c] # NULL => nx[c] \in S /\ r[c] < r[nx[c]]
    BY <1>1 DEF Ranked
  <2>3. nx[c] # NULL => r2[d] < r2[nx[c]]
    BY <2>2, <1>3, <1>4
  <2>4. \A e \in S \ {c} : nx[e] # NULL => nx[e] \in S /\ r2[e] < r2[nx[e]]
    BY <1>1, <1>3, <1>4 DEF Ranked
  <2> QED BY <2>1, <2>2, <2>3, <2>4
<1>9. \A e, f \in S \cup {d} : r2[e] < r2[f] => nx2[e] # NULL /\ r2[nx2[e]] <= r2[f]
  <2>1. \A e, f \in S : r2[e] < r2[f] => nx[e] \in S /\ r2[nx[e]] <= r2[f]
    BY <1>1, <1>2, <1>3, <1>4 DEF Ranked
  <2>2. \A f \in S : r2[c] < r2[f] => r2[d] <= r2[f] /\ r2[d] < r2[f]
    BY <1>3, <1>4
  <2>3. \A f \in S : r2[d] < r2[f] => r2[c] < r2[f]
    BY <1>3, <1>4
  <2>4. \A e \in S \ {c} : r2[e] < r2[d] => r2[e] < r2[c]
    BY <1>1, <1>3, <1>4 DEF Ranked
  <2>5. \A f \in S : r2[f] <= r2[c] => r2[f] <= r2[d]
    BY <1>3, <1>4
  <2>6. r2[d] <= r2[d] /\ ~(r2[d] < r2[d])
    BY <1>4, <1>3
  <2>7. nx2[c] = d /\ nx2[d] = nx[c] /\ \A e \in S \ {c} : nx2[e] = nx[e]
    OBVIOUS
  <2> SUFFICES ASSUME NEW e \in S \cup {d}, NEW f \in S \cup {d}, r2[e] < r2[f]
               PROVE  nx2[e] # NULL /\ r2[nx2[e]] <= r2[f]
    OBVIOUS
  <2>8. CASE e = c
    BY <1>2, <2>2, <2>6, <2>7, <2>8
  <2>9. CASE e = d
    BY <1>2, <2>1, <2>3, <2>6, <2>7, <2>9
  <2>10. CASE e \in S \ {c}
    <3>1. CASE f \in S
      BY <1>2, <2>1, <2>7, <2>10, <3>1
    <3>2. CASE f = d
      BY <1>2, <2>1, <2>4, <2>5, <2>7, <2>10, <3>2
    <3> QED BY <3>1, <3>2
  <2> QED BY <2>8, <2>9, <2>10
<1>10. Ranked(p, nx2, S \cup {d}, r2)
  <2>1. S \cup {d} \subseteq Chunk /\ p # NULL
    BY <1>2
  <2> QED BY <1>2, <1>4, <1>6, <1>7, <1>8, <1>9, <2>1 DEF Ranked
<1> QED BY <1>4, <1>10 DEF IsList

LEMMA AfterIs ==
    ASSUME NEW n \in Nat, NEW s, NEW K \in SUBSET (1 .. n), NEW i \in 0 .. n
    PROVE  \/ /\ \A j \in K : j <= i
              /\ After(s, K, i) = NULL
           \/ \E j \in K : /\ i < j /\ After(s, K, i) = s[j]
                           /\ \A k \in K : i < k => j <= k
<1> DEFINE later == {j \in K : i < j}
<1>1. After(s, K, i) = IF later = {} THEN NULL ELSE s[Min(later)]
  BY DEF After
<1>2. later \in SUBSET Nat
  <2>1. \A j \in K : j \in Nat
    OBVIOUS
  <2> QED BY <2>1
<1>3. later # {} => Min(later) \in later /\ \A j \in later : Min(later) <= j
  BY <1>2, LeastIndex
<1>4. CASE later = {}
  BY <1>1, <1>4
<1>5. CASE later # {}
  <2> DEFINE m == Min(later)
  <2>1. m \in K /\ i < m /\ After(s, K, i) = s[m] /\ \A k \in K : i < k => m <= k
    BY <1>1, <1>3, <1>5
  <2> HIDE DEF m
  <2> QED BY <2>1
<1> QED BY <1>4, <1>5

(* The chunks at the places in K, linked in their order, are a list. *)
LEMMA KeptIsList ==
    ASSUME NEW p, NEW nx, NEW s, IsChain(p, nx, s),
           NEW K \in SUBSET (1 .. Len(s)),
           NEW nx2, \A i \in K : nx2[s[i]] = After(s, K, i)
    PROVE  IsList(After(s, K, 0), nx2, {s[i] : i \in K})
<1> DEFINE S == {s[i] : i \in K}
           q == After(s, K, 0)
<1>1. PICK r \in [Chunk -> Int] : \A i \in 1 .. Len(s) : r[s[i]] = i
  BY ChainIsRanked
<1>2. Len(s) \in Nat /\ \A i \in K : s[i] \in Chunk /\ s[i] # NULL /\ i \in Nat /\ r[s[i]] = i
  <2>1. Len(s) \in Nat /\ \A i \in 1 .. Len(s) : s[i] \in Chunk
    BY DEF IsChain
  <2>2. \A i \in K : i \in 1 .. Len(s) /\ i \in Nat
    BY <2>1
  <2> QED BY <1>1, <2>1, <2>2, GcAssumption
<1>3. \A c \in S : \E i \in K : c = s[i] /\ r[c] = i
  BY <1>2
<1>4. \A i \in K : s[i] \in S
  OBVIOUS
<1>5. \/ (\A j \in K : j <= 0) /\ q = NULL
      \/ \E j \in K : q = s[j] /\ \A k \in K : 0 < k => j <= k
  BY <1>2, AfterIs
<1>6. \A i \in K : \/ (\A j \in K : j <= i) /\ nx2[s[i]] = NULL
                   \/ \E j \in K : i < j /\ nx2[s[i]] = s[j] /\ \A k \in K : i < k => j <= k
  <2> SUFFICES ASSUME NEW i \in K
               PROVE  \/ (\A j \in K : j <= i) /\ nx2[s[i]] = NULL
                      \/ \E j \in K : i < j /\ nx2[s[i]] = s[j] /\ \A k \in K : i < k => j <= k
    OBVIOUS
  <2>1. i \in 0 .. Len(s) /\ nx2[s[i]] = After(s, K, i)
    BY <1>2
  <2> QED BY <2>1, <1>2, AfterIs
<1>7. \A i \in K : i \in Nat /\ i > 0
  BY <1>2
<1> HIDE DEF q, S
<1>8. S \subseteq Chunk
  BY <1>2, <1>3
<1>9. q \in S \cup {NULL} /\ \A c \in S : q # NULL /\ r[q] <= r[c]
  BY <1>2, <1>3, <1>4, <1>5, <1>7
<1>10. \A c, d \in S : r[c] = r[d] => c = d
  BY <1>3
<1>11. ASSUME NEW c \in S
       PROVE  /\ nx2[c] = NULL \/ (nx2[c] \in S /\ r[c] < r[nx2[c]])
              /\ \A d \in S : r[c] < r[d] => nx2[c] # NULL /\ r[nx2[c]] <= r[d]
  <2>1. PICK i \in K : c = s[i] /\ r[c] = i
    BY <1>3
  <2>2. CASE (\A j \in K : j <= i) /\ nx2[s[i]] = NULL
    <3>1. \A d \in S : ~(r[c] < r[d])
      BY <2>1, <2>2, <1>3, <1>7
    <3> QED BY <2>1, <2>2, <3>1
  <2>3. ASSUME NEW j \in K, i < j, nx2[s[i]] = s[j], \A k \in K : i < k => j <= k
        PROVE  /\ nx2[c] = NULL \/ (nx2[c] \in S /\ r[c] < r[nx2[c]])
               /\ \A d \in S : r[c] < r[d] => nx2[c] # NULL /\ r[nx2[c]] <= r[d]
    <3>1. nx2[c] = s[j] /\ s[j] \in S /\ s[j] # NULL /\ r[s[j]] = j
      BY <2>1, <2>3, <1>2, <1>4
    <3>2. \A d \in S : r[c] < r[d] => j <= r[d]
      BY <2>1, <2>3, <1>3
    <3> QED BY <2>1, <2>3, <3>1, <3>2
  <2> QED BY <2>1, <2>2, <2>3, <1>6
<1>12. Ranked(q, nx2, S, r)
  BY <1>8, <1>9, <1>10, <1>11 DEF Ranked
<1> QED BY <1>12 DEF IsList, S, q

-----------------------------------------------------------------------------
(* The collector's list and the program's.                                   *)

LEMMA TypeLists ==
    GcTypeOK => /\ head \in Chunk \cup {NULL} /\ next \in Links
                /\ ll \in Chunk \cup {NULL} /\ lnext \in Links
                /\ in_use \subseteq allocated /\ allocated \subseteq Chunk
                /\ cur \in Chunk \cup {NULL} /\ prev \in Chunk \cup {NULL}
BY DEF GcTypeOK, Links

LEMMA SoundNow ==
    ASSUME NEW p \in Chunk \cup {NULL}, NEW nx \in Links, Sound(p, nx)
    PROVE  IsList(p, nx, Reach(p, nx)) /\ Reach(p, nx) \subseteq allocated
<1>1. SoundIn(p, nx, allocated)
  BY DEF Sound, SoundIn
<1> QED BY <1>1, SoundIsList

(* What a list in the next state comes to. *)
LEMMA SoundNext ==
    ASSUME NEW S, GcTypeOK'
    PROVE  /\ IsList(head', next', S) /\ S \subseteq allocated' =>
                  Sound(head, next)' /\ Reach(head, next)' = S
           /\ IsList(ll', lnext', S) /\ S \subseteq allocated' =>
                  Sound(ll, lnext)' /\ Reach(ll, lnext)' = S
<1>1. /\ head' \in Chunk \cup {NULL} /\ next' \in Links
      /\ ll' \in Chunk \cup {NULL} /\ lnext' \in Links
  BY DEF GcTypeOK, Links
<1>2. Sound(head, next)' <=> SoundIn(head', next', allocated')
  BY DEF Sound, SoundIn
<1>3. Sound(ll, lnext)' <=> SoundIn(ll', lnext', allocated')
  BY DEF Sound, SoundIn
<1>4. IsList(head', next', S) => (\A A : S \subseteq A => SoundIn(head', next', A)) /\ Reach(head', next') = S
  BY <1>1, ListIsSound
<1>5. IsList(ll', lnext', S) => (\A A : S \subseteq A => SoundIn(ll', lnext', A)) /\ Reach(ll', lnext') = S
  BY <1>1, ListIsSound
<1> QED BY <1>2, <1>3, <1>4, <1>5

LEMMA LiveIs == Live = Reach(ll, lnext) /\ ToSet(Chunks) = Reach(head, next)
BY DEF Live, Nodes, Chunks, Reach

(* A collection without interruption: what it keeps is a list in the old order,
   what the program reaches is kept, and the rest is gone. *)
LEMMA HandlerKeeps ==
    ASSUME GcTypeOK, Handler
    PROVE  LET old == Reach(head, next)
           IN  /\ Sound(head, next)
               /\ \E S \in SUBSET old :
                  /\ IsList(head', next', S)
                  /\ old \cap Live \subseteq S
                  /\ allocated' = allocated \ (old \ S)
                  /\ in_use' = (in_use \ old) \cup (Live \cap old)
                  /\ value' = [c \in Chunk |-> IF c \in old \ S THEN NULL ELSE value[c]]
                  /\ lnext' = [c \in Chunk |-> IF c \in old \ S THEN NULL ELSE lnext[c]]
                  /\ next' \in Links
                  /\ \A c \in S : next[c] \in S => next'[c] = next[c]
                  /\ head \in S => head' = head
                  /\ left' = S \ Live /\ \A c, d \in left' : c = d
<1> DEFINE s     == Chunks
           K     == Kept(s, Marked)
           freed == {s[i] : i \in DOMAIN s \ K}
           S     == {s[i] : i \in K}
           old   == Reach(head, next)
           at(c) == CHOOSE i \in K : s[i] = c
<1>1. Sound(head, next) /\ head \in Chunk \cup {NULL} /\ next \in Links
  BY TypeLists DEF Handler
<1>2. Ends(head, next)
  <2>1. SoundIn(head, next, allocated)
    BY <1>1 DEF Sound, SoundIn
  <2> QED BY <1>1, <2>1, SoundIs
<1>3. IsChain(head, next, s)
  BY <1>1, <1>2, AlongIsChain DEF Chunks
<1>4. /\ head' = After(s, K, 0)
      /\ next' = [c \in Chunk |->
             IF c \in freed THEN NULL
             ELSE IF c \in ToSet(s) THEN After(s, K, at(c)) ELSE next[c]]
      /\ in_use' = (in_use \ ToSet(s)) \cup Marked
      /\ Free(freed)
      /\ left' = S \ Live
  BY DEF Handler
<1>5. ToSet(s) = old /\ Marked = Live \cap old
  BY LiveIs DEF Marked
<1>6. Len(s) \in Nat /\ DOMAIN s = 1 .. Len(s) /\ \A i \in 1 .. Len(s) : s[i] \in Chunk
  BY <1>3 DEF IsChain
<1>7. old = {s[i] : i \in 1 .. Len(s)}
  BY <1>5, <1>6 DEF ToSet
<1>8. K = {i \in 1 .. Len(s) : s[i] \in Live \cap old \/ (i = 2 /\ s[1] \notin Live \cap old)}
  BY <1>5, <1>6 DEF Kept
<1>9. \A i, j \in 1 .. Len(s) : s[i] = s[j] => i = j
  BY <1>3 DEF IsChain
<1> HIDE DEF s, at
<1>10. K \in SUBSET (1 .. Len(s)) /\ S \subseteq old
  BY <1>7, <1>8
<1>11. freed = old \ S
  BY <1>6, <1>7, <1>9, <1>10
<1>12. old \cap Live \subseteq S
  BY <1>7, <1>8
<1>13. \A i \in K : at(s[i]) = i /\ s[i] \notin freed /\ s[i] \in ToSet(s) /\ s[i] \in Chunk
  <2> SUFFICES ASSUME NEW i \in K
               PROVE  at(s[i]) = i /\ s[i] \notin freed /\ s[i] \in ToSet(s) /\ s[i] \in Chunk
    OBVIOUS
  <2>1. at(s[i]) \in K /\ s[at(s[i])] = s[i]
    BY DEF at
  <2>2. i \in 1 .. Len(s) /\ at(s[i]) \in 1 .. Len(s)
    BY <2>1, <1>10
  <2>3. at(s[i]) = i
    BY <2>1, <2>2, <1>9
  <2>4. s[i] \in S /\ s[i] \in old
    BY <2>2, <1>7
  <2> HIDE DEF freed, S, old
  <2> QED BY <2>2, <2>3, <2>4, <1>5, <1>6, <1>11
<1> HIDE DEF K, S, freed, old
<1>14. \A i \in K : next'[s[i]] = After(s, K, i)
  BY <1>4, <1>13
<1>15. IsList(head', next', S)
  BY <1>3, <1>4, <1>10, <1>14, KeptIsList DEF S
<1>16. \A i \in 0 .. Len(s) :
           \/ /\ \A j \in K : j <= i
              /\ After(s, K, i) = NULL
           \/ \E j \in K : /\ i < j /\ After(s, K, i) = s[j]
                           /\ \A k \in K : i < k => j <= k
  BY <1>6, <1>10, AfterIs
<1>17. \A i \in K : i \in 1 .. Len(s) /\ i \in Int
  BY <1>10
<1>18. next' \in Links
  <2>1. \A i \in 0 .. Len(s) : After(s, K, i) \in Chunk \cup {NULL}
    BY <1>13, <1>16
  <2>2. \A c \in Chunk : c \in ToSet(s) /\ c \notin freed => c \in S
    BY <1>5, <1>11
  <2>3. \A c \in Chunk : c \in ToSet(s) /\ c \notin freed => at(c) \in 0 .. Len(s)
    BY <2>2, <1>13, <1>17 DEF S
  <2> QED BY <1>1, <1>4, <2>1, <2>3 DEF Links
<1>19. ASSUME NEW c \in S, next[c] \in S PROVE next'[c] = next[c]
  <2>1. PICK i \in K : c = s[i]
    BY DEF S
  <2>2. PICK j \in K : next[c] = s[j]
    BY <1>19 DEF S
  <2>3. next[c] = IF i = Len(s) THEN NULL ELSE s[i + 1]
    BY <2>1, <1>3, <1>17 DEF IsChain
  <2>4. i # Len(s) /\ i + 1 \in 1 .. Len(s)
    <3>1. next[c] # NULL
      BY <2>2, <1>13, GcAssumption
    <3>2. i # Len(s)
      BY <3>1, <2>3
    <3> QED BY <3>2, <2>1, <1>6, <1>17
  <2>5. j = i + 1
    <3>1. j \in 1 .. Len(s) /\ s[j] = s[i + 1]
      BY <2>2, <2>3, <2>4, <1>17
    <3> QED BY <3>1, <2>4, <1>9, <1>17
  <2>6. After(s, K, i) = s[j]
    BY <2>5, <1>16, <1>17
  <2> QED BY <2>1, <2>2, <2>6, <1>14
<1>20. ASSUME head \in S PROVE head' = head
  <2>1. PICK i \in K : head = s[i]
    BY <1>20 DEF S
  <2>2. head = s[1] /\ 1 \in 1 .. Len(s)
    <3>1. head # NULL
      BY <2>1, <1>13, GcAssumption
    <3>2. head = IF Len(s) = 0 THEN NULL ELSE s[1]
      BY <1>3 DEF IsChain
    <3>3. head = s[1] /\ Len(s) # 0
      BY <3>1, <3>2
    <3> QED BY <3>3, <1>6
  <2>3. i = 1
    BY <2>1, <2>2, <1>9, <1>17
  <2>4. After(s, K, 0) = s[1]
    BY <2>3, <1>6, <1>16, <1>17
  <2> QED BY <2>2, <2>4, <1>4
<1>21. \A c, d \in left' : c = d
  <2>1. \A c \in left' : c \in Chunk /\ \E i \in K : c = s[i] /\ i = 2
    BY <1>4, <1>8, <1>13 DEF S
  <2> QED BY <2>1
<1> QED BY <1>1, <1>4, <1>5, <1>10, <1>11, <1>12, <1>15, <1>18, <1>19, <1>20, <1>21 DEF Free, old, S

-----------------------------------------------------------------------------
(* The invariant.                                                            *)

(* A deletion that has found its node finds it there. *)
UnlinkInv == pc = "unlink" => {cur, lnext[cur]} \subseteq Live

(* Marking has reached cur: every node before it is marked, if the collector's
   list has it. *)
MarkInv ==
    pc = "mark" =>
        /\ cur \in Live \cup {NULL}
        /\ cur # ll => Sound(head, next)
        /\ Live \cap Reach(head, next) \subseteq in_use \cup Reach(cur, lnext)

(* While the collector sweeps, every node is marked, and prev is before cur
   unless the handler has freed one of them. *)
SweepInv ==
    pc = "sweep" /\ ll # NULL =>
        /\ Sound(head, next)
        /\ Live \cap Reach(head, next) \subseteq in_use
        /\ {cur, prev} \cap allocated \subseteq Reach(head, next)
        /\ {cur, prev} \subseteq allocated => (prev = cur /\ cur = head) \/ next[prev] = cur

GcInv == GcTypeOK /\ Sound(ll, lnext) /\ UnlinkInv /\ MarkInv /\ SweepInv

LEMMA EndTypes ==
    ASSUME GcTypeOK, NEW first \in Chunk \cup {NULL}, EndTransaction(first)
    PROVE  /\ count' \in 0 .. PERIOD /\ pc' \in {"idle", "reset"} /\ cur' \in Chunk \cup {NULL}
           /\ prev' = prev /\ status' = status /\ raced' = raced /\ left' = {}
<1>1. count \in Nat /\ PERIOD \in Nat /\ PERIOD > 0
  <2>1. PERIOD \in Nat /\ PERIOD # 0
    BY GcAssumption
  <2>2. count \in 0 .. PERIOD
    BY DEF GcTypeOK
  <2> QED BY <2>1, <2>2
<1>2. count' = (count + 1) % PERIOD
  BY DEF EndTransaction
<1>3. count' \in 0 .. PERIOD
  BY <1>1, <1>2
<1> QED BY <1>3 DEF EndTransaction, Goto

LEMMA LiveType == GcTypeOK /\ Sound(ll, lnext) => Live \subseteq Chunk
BY TypeLists, SoundNow, ListEnds, LiveIs

LEMMA TypeInit == Init => GcTypeOK
<1> SUFFICES ASSUME Init PROVE GcTypeOK
  OBVIOUS
<1>1. raced \in BOOLEAN
  BY Zenon DEF Init
<1>2. count \in 0 .. PERIOD
  BY GcAssumption DEF Init
<1> QED BY <1>1, <1>2 DEF Init, GcTypeOK

LEMMA TypeStep == GcTypeOK /\ Sound(ll, lnext) /\ Next => GcTypeOK'
<1> SUFFICES ASSUME GcTypeOK, Sound(ll, lnext), Next PROVE GcTypeOK'
  OBVIOUS
<1>1. CASE Handler
  <2> DEFINE old == Reach(head, next)
  <2>1. PICK S \in SUBSET old :
              /\ IsList(head', next', S)
              /\ old \cap Live \subseteq S
              /\ allocated' = allocated \ (old \ S)
              /\ in_use' = (in_use \ old) \cup (Live \cap old)
              /\ value' = [c \in Chunk |-> IF c \in old \ S THEN NULL ELSE value[c]]
              /\ lnext' = [c \in Chunk |-> IF c \in old \ S THEN NULL ELSE lnext[c]]
              /\ next' \in Links
              /\ left' = S \ Live
    BY <1>1, HandlerKeeps
  <2>2. old \subseteq Chunk /\ old \subseteq allocated
    BY <1>1, HandlerKeeps, TypeLists, SoundNow, ListEnds
  <2>3. head' \in Chunk \cup {NULL}
    BY <2>1, ListEnds
  <2> HIDE DEF old
  <2>4. in_use' \subseteq allocated' /\ allocated' \subseteq Chunk /\ left' \subseteq Chunk
    BY <2>1, <2>2, TypeLists
  <2>5. raced' \in BOOLEAN
    BY <1>1, Zenon DEF Handler, GcTypeOK
  <2>6. /\ value' \in [Chunk -> Value \cup {NULL}] /\ lnext' \in [Chunk -> Chunk \cup {NULL}]
        /\ next' \in [Chunk -> Chunk \cup {NULL}]
    BY <2>1 DEF GcTypeOK, Links
  <2>7. UNCHANGED <<ll, mainVars, status>>
    BY <1>1 DEF Handler
  <2> QED BY <2>3, <2>4, <2>5, <2>6, <2>7 DEF GcTypeOK, mainVars
<1>2. ASSUME NEW why \in {"done", "crash", "fault"}, Fails(why) PROVE GcTypeOK'
  BY <1>2 DEF Fails, GcTypeOK, heapVars, listVars, mainVars
<1>3. CASE HandlerFails
  BY <1>2, <1>3 DEF HandlerFails
<1>4. ASSUME NEW c \in Chunk, NEW v \in Value, Add(c, v) PROVE GcTypeOK'
  <2>1. EndTransaction(c)
    BY <1>4 DEF Add
  <2> QED BY <1>4, <2>1, EndTypes DEF Add, GcTypeOK
<1>5. ASSUME NEW v \in Value, DelFirst(v) PROVE GcTypeOK'
  <2>1. EndTransaction(head) /\ head \in Chunk \cup {NULL}
    BY <1>5 DEF DelFirst, GcTypeOK
  <2> QED BY <1>5, <2>1, EndTypes DEF DelFirst, GcTypeOK, heapVars
<1>6. ASSUME NEW v \in Value, DelNothing(v) PROVE GcTypeOK'
  <2>1. EndTransaction(head) /\ head \in Chunk \cup {NULL}
    BY <1>6 DEF DelNothing, GcTypeOK
  <2> QED BY <1>6, <2>1, EndTypes DEF DelNothing, GcTypeOK, heapVars, listVars
<1>7. ASSUME NEW v \in Value, DelFind(v) PROVE GcTypeOK'
  BY <1>7, LiveType DEF DelFind, Goto, GcTypeOK, heapVars, listVars
<1>8. CASE BadTransaction
  <2>1. EndTransaction(head) /\ head \in Chunk \cup {NULL}
    BY <1>8 DEF BadTransaction, GcTypeOK
  <2> QED BY <1>8, <2>1, EndTypes DEF BadTransaction, GcTypeOK, heapVars, listVars
<1>9. CASE Unlink
  <2>1. EndTransaction(head) /\ head \in Chunk \cup {NULL}
    BY <1>9 DEF Unlink, GcTypeOK
  <2> QED BY <1>9, <2>1, EndTypes DEF Unlink, Uses, GcTypeOK, heapVars
<1>10. ASSUME NEW c \in Chunk, PrintMalloc(c) PROVE GcTypeOK'
  BY <1>10 DEF PrintMalloc, Goto, GcTypeOK, listVars
<1>11. CASE PrintLink
  BY <1>11 DEF PrintLink, Uses, Goto, GcTypeOK, listVars
<1>12. CASE PrintStore
  BY <1>12 DEF PrintStore, Uses, Goto, GcTypeOK, listVars
<1>13. CASE PrintMark
  BY <1>13 DEF PrintMark, Uses, Goto, GcTypeOK, listVars
<1>14. CASE PrintText
  <2>1. EndTransaction(head) /\ head \in Chunk \cup {NULL}
    BY <1>14 DEF PrintText, GcTypeOK
  <2> QED BY <1>14, <2>1, EndTypes DEF PrintText, GcTypeOK, heapVars, listVars
<1>15. CASE ResetOne
  BY <1>15 DEF ResetOne, Uses, Goto, GcTypeOK, listVars
<1>16. CASE ResetDone
  BY <1>16 DEF ResetDone, Goto, GcTypeOK, heapVars, listVars
<1>17. CASE MarkOne
  BY <1>17 DEF MarkOne, Uses, Goto, GcTypeOK, listVars
<1>18. CASE MarkDone
  BY <1>18 DEF MarkDone, Goto, GcTypeOK, heapVars, listVars
<1>19. CASE SweepKeep
  BY <1>19 DEF SweepKeep, Uses, Goto, GcTypeOK, heapVars, listVars
<1>20. CASE SweepHead
  BY <1>20 DEF SweepHead, Uses, Free, Goto, GcTypeOK
<1>21. CASE SweepMiddle
  BY <1>21 DEF SweepMiddle, Uses, Free, Goto, GcTypeOK
<1>22. CASE SweepDone
  <2>1. ToSet(Chunks) \subseteq Chunk
    BY <1>22, TypeLists, SoundNow, ListEnds, LiveIs DEF SweepDone
  <2> QED BY <1>22, <2>1 DEF SweepDone, Goto, GcTypeOK, heapVars, listVars
<1>23. CASE MainFaults \/ MainCrashes \/ EndOfFile
  BY <1>2, <1>23 DEF MainFaults, MainCrashes, EndOfFile
<1> QED BY <1>1, <1>3, <1>4, <1>5, <1>6, <1>7, <1>8, <1>9, <1>10, <1>11, <1>12, <1>13, <1>14,
           <1>15, <1>16, <1>17, <1>18, <1>19, <1>20, <1>21, <1>22, <1>23 DEF Next, Main

LEMMA LiveList ==
    ASSUME GcInv
    PROVE  /\ IsList(ll, lnext, Reach(ll, lnext))
           /\ Reach(ll, lnext) \subseteq allocated /\ Reach(ll, lnext) \subseteq Chunk
           /\ Live = Reach(ll, lnext) /\ Live' = Reach(ll, lnext)'
           /\ next \in Links /\ allocated \subseteq Chunk
<1>1. ll \in Chunk \cup {NULL} /\ lnext \in Links /\ next \in Links /\ allocated \subseteq Chunk
  BY TypeLists DEF GcInv
<1>2. Sound(ll, lnext)
  BY DEF GcInv
<1>3. IsList(ll, lnext, Reach(ll, lnext)) /\ Reach(ll, lnext) \subseteq allocated
  BY <1>1, <1>2, SoundNow
<1>4. Live' = Reach(ll, lnext)'
  BY DEF Live, Nodes, Reach
<1> QED BY <1>1, <1>3, <1>4, LiveIs

(* The case of the handler: wherever the thread is, its list is kept. *)
LEMMA HandlerInv ==
    ASSUME GcInv, GcTypeOK', Handler
    PROVE  Sound(ll, lnext)' /\ UnlinkInv' /\ MarkInv' /\ SweepInv'
<1> DEFINE old == Reach(head, next)
           L == Reach(ll, lnext)
<1>1. /\ Sound(head, next) /\ IsList(ll, lnext, L) /\ L \subseteq allocated /\ L \subseteq Chunk
      /\ Live = L /\ Live' = Reach(ll, lnext)'
      /\ UNCHANGED <<ll, pc, cur, prev>>
  BY LiveList, HandlerKeeps DEF GcInv, Handler, mainVars
<1>2. PICK S \in SUBSET old :
          /\ IsList(head', next', S)
          /\ old \cap Live \subseteq S
          /\ allocated' = allocated \ (old \ S)
          /\ in_use' = (in_use \ old) \cup (Live \cap old)
          /\ lnext' = [c \in Chunk |-> IF c \in old \ S THEN NULL ELSE lnext[c]]
          /\ \A c \in S : next[c] \in S => next'[c] = next[c]
          /\ head \in S => head' = head
  BY HandlerKeeps DEF GcInv
<1>3. old \subseteq allocated
  BY <1>1, TypeLists, SoundNow DEF GcInv
<1> HIDE DEF old, L
<1>4. L \subseteq allocated' /\ \A c \in L : lnext'[c] = lnext[c]
  BY <1>1, <1>2
<1>5. IsList(ll', lnext', L)
  BY <1>1, <1>4, ListFrame
<1>6. Sound(ll, lnext)' /\ Live' = L
  BY <1>1, <1>4, <1>5, SoundNext
<1>7. Sound(head, next)' /\ Reach(head, next)' = S
  BY <1>2, <1>3, SoundNext
<1>8. UnlinkInv'
  BY <1>1, <1>4, <1>6 DEF GcInv, UnlinkInv
<1>9. MarkInv'
  BY <1>1, <1>2, <1>6, <1>7 DEF GcInv, MarkInv
<1>10. ASSUME pc = "sweep", ll # NULL
       PROVE  /\ {cur, prev} \cap allocated' \subseteq S
              /\ {cur, prev} \subseteq allocated' => (prev = cur /\ cur = head') \/ next'[prev] = cur
  <2>1. /\ {cur, prev} \cap allocated \subseteq old
        /\ {cur, prev} \subseteq allocated => (prev = cur /\ cur = head) \/ next[prev] = cur
    BY <1>10 DEF GcInv, SweepInv, old
  <2>2. {cur, prev} \cap allocated' \subseteq S
    BY <2>1, <1>2
  <2> QED BY <2>1, <2>2, <1>2
<1>11. SweepInv'
  BY <1>1, <1>2, <1>6, <1>7, <1>10 DEF SweepInv
<1> QED BY <1>6, <1>8, <1>9, <1>11

(* The two steps that free a chunk, with the program's list not empty. *)
LEMMA SweepHeadInv ==
    ASSUME GcInv, GcTypeOK', SweepHead
    PROVE  Sound(ll, lnext)' /\ SweepInv' /\ Live' = Live
<1> DEFINE R == Reach(head, next)
           L == Reach(ll, lnext)
<1>1. /\ pc = "sweep" /\ cur \in allocated /\ cur \notin in_use /\ cur = head
      /\ prev \in allocated /\ next[cur] \in allocated
      /\ head' = next[cur] /\ cur' = next[next[cur]] /\ prev' = next[cur] /\ ll' = ll
      /\ allocated' = allocated \ {prev}
      /\ in_use' = in_use \ {prev}
      /\ next' = [next EXCEPT ![prev] = NULL]
      /\ lnext' = [c \in Chunk |-> IF c \in {prev} THEN NULL ELSE lnext[c]]
  BY DEF SweepHead, Uses, Free, Goto
<1>2. /\ IsList(ll, lnext, L) /\ L \subseteq allocated /\ L \subseteq Chunk
      /\ Live = L /\ Live' = Reach(ll, lnext)' /\ next \in Links /\ allocated \subseteq Chunk
  BY LiveList
<1>3. CASE ll = NULL
  <2>1. IsList(ll', lnext', {})
    BY <1>1, <1>3, ListEmpty
  <2>2. L = {} /\ Reach(ll, lnext)' = {} /\ Sound(ll, lnext)'
    BY <1>2, <1>3, <2>1, ListEnds, SoundNext
  <2> QED BY <1>1, <1>2, <1>3, <2>2 DEF SweepInv
<1>4. CASE ll # NULL
  <2>1. /\ Sound(head, next) /\ L \cap R \subseteq in_use
        /\ cur \in R /\ prev \in R
        /\ (prev = cur /\ cur = head) \/ next[prev] = cur
    BY <1>1, <1>2, <1>4 DEF GcInv, SweepInv
  <2>2. IsList(head, next, R) /\ R \subseteq allocated
    BY <2>1, TypeLists, SoundNow DEF GcInv
  <2> HIDE DEF R, L
  <2>3. /\ head \in R /\ R \subseteq Chunk /\ \A c \in R : next[c] \in R \cup {NULL} /\ next[c] # head
    BY <1>1, <2>1, <2>2, ListEnds
  <2>4. prev = head /\ head # NULL /\ head \notin L
    BY <1>1, <2>1, <2>3, GcAssumption
  <2>5. IsList(head', next, R \ {head})
    BY <1>1, <2>2, <2>4, ListTail
  <2>6. \A c \in R \ {head} : next'[c] = next[c]
    BY <1>1, <1>2, <2>3, <2>4 DEF Links
  <2>7. IsList(head', next', R \ {head})
    BY <2>5, <2>6, ListFrame
  <2>8. Sound(head, next)' /\ Reach(head, next)' = R \ {head}
    BY <1>1, <2>2, <2>4, <2>7, SoundNext
  <2>9. \A c \in L : lnext'[c] = lnext[c]
    BY <1>1, <1>2, <2>4
  <2>10. IsList(ll', lnext', L) /\ L \subseteq allocated'
    BY <1>1, <1>2, <2>4, <2>9, ListFrame
  <2>11. Sound(ll, lnext)' /\ Live' = L
    BY <1>2, <2>10, SoundNext
  <2>12. next[cur] \in R \ {head} /\ next[next[cur]] \in (R \ {head}) \cup {NULL}
    BY <1>1, <1>2, <2>3, GcAssumption
  <2>13. {cur', prev'} \cap allocated' \subseteq R \ {head} /\ next'[prev'] = cur'
    BY <1>1, <1>2, <2>6, <2>12, GcAssumption
  <2>14. L \cap (R \ {head}) \subseteq in_use'
    BY <1>1, <2>1, <2>4
  <2> QED BY <1>2, <2>8, <2>11, <2>13, <2>14 DEF SweepInv
<1> QED BY <1>3, <1>4

LEMMA SweepMiddleInv ==
    ASSUME GcInv, GcTypeOK', SweepMiddle
    PROVE  Sound(ll, lnext)' /\ SweepInv' /\ Live' = Live
<1> DEFINE R == Reach(head, next)
           L == Reach(ll, lnext)
<1>1. /\ pc = "sweep" /\ cur \in allocated /\ cur \notin in_use /\ cur # head
      /\ prev \in allocated
      /\ head' = head /\ cur' = next[cur] /\ prev' = prev /\ ll' = ll
      /\ allocated' = allocated \ {cur}
      /\ in_use' = in_use
      /\ next' = [next EXCEPT ![prev] = next[cur], ![cur] = NULL]
      /\ lnext' = [c \in Chunk |-> IF c \in {cur} THEN NULL ELSE lnext[c]]
  BY DEF SweepMiddle, Uses, Free, Goto
<1>2. /\ IsList(ll, lnext, L) /\ L \subseteq allocated /\ L \subseteq Chunk
      /\ Live = L /\ Live' = Reach(ll, lnext)' /\ next \in Links /\ allocated \subseteq Chunk
  BY LiveList
<1>3. CASE ll = NULL
  <2>1. IsList(ll', lnext', {})
    BY <1>1, <1>3, ListEmpty
  <2>2. L = {} /\ Reach(ll, lnext)' = {} /\ Sound(ll, lnext)'
    BY <1>2, <1>3, <2>1, ListEnds, SoundNext
  <2> QED BY <1>1, <1>2, <1>3, <2>2 DEF SweepInv
<1>4. CASE ll # NULL
  <2>1. /\ Sound(head, next) /\ L \cap R \subseteq in_use
        /\ cur \in R /\ prev \in R /\ next[prev] = cur
    BY <1>1, <1>2, <1>4 DEF GcInv, SweepInv
  <2>2. IsList(head, next, R) /\ R \subseteq allocated
    BY <2>1, TypeLists, SoundNow DEF GcInv
  <2> HIDE DEF R, L
  <2>3. R \subseteq Chunk /\ \A c \in R : next[c] \in R \cup {NULL} /\ next[c] # c
    BY <2>2, ListEnds
  <2>4. prev # cur /\ cur # NULL /\ cur \notin L
    BY <1>1, <2>1, <2>3, GcAssumption
  <2>5. next'[prev] = next[next[prev]] /\ \A d \in R \ {prev, next[prev]} : next'[d] = next[d]
    BY <1>1, <1>2, <2>1, <2>3, <2>4 DEF Links
  <2>6. IsList(head', next', R \ {cur})
    BY <1>1, <2>1, <2>2, <2>4, <2>5, ListRemove
  <2>7. Sound(head, next)' /\ Reach(head, next)' = R \ {cur}
    BY <1>1, <2>2, <2>6, SoundNext
  <2>8. \A c \in L : lnext'[c] = lnext[c]
    BY <1>1, <1>2, <2>4
  <2>9. IsList(ll', lnext', L) /\ L \subseteq allocated'
    BY <1>1, <1>2, <2>4, <2>8, ListFrame
  <2>10. Sound(ll, lnext)' /\ Live' = L
    BY <1>2, <2>9, SoundNext
  <2>11. {cur', prev'} \cap allocated' \subseteq R \ {cur} /\ next'[prev'] = cur'
    <3>1. next'[prev] = next[cur]
      BY <2>1, <2>5
    <3>2. NULL \notin allocated /\ next[cur] \in R \cup {NULL} /\ next[cur] # cur
      BY <1>2, <2>1, <2>3, GcAssumption
    <3> QED BY <1>1, <2>1, <2>4, <3>1, <3>2
  <2> QED BY <1>1, <1>2, <2>1, <2>7, <2>10, <2>11 DEF SweepInv
<1> QED BY <1>3, <1>4

LEMMA InvStep == GcInv /\ [Next]_vars => GcInv'
<1> SUFFICES ASSUME GcInv, [Next]_vars PROVE GcInv'
  OBVIOUS
<1> DEFINE L == Reach(ll, lnext)
           R == Reach(head, next)
           Goal == Sound(ll, lnext)' /\ UnlinkInv' /\ MarkInv' /\ SweepInv'
<1>1. CASE UNCHANGED vars
  <2>1. UNCHANGED <<heapVars, listVars, mainVars>>
    BY <1>1 DEF vars
  <2>2. GcTypeOK'
    BY <1>1 DEF vars, heapVars, listVars, mainVars, GcInv, GcTypeOK
  <2> QED BY <2>1, <2>2 DEF heapVars, listVars, mainVars, GcInv, Sound, UnlinkInv, MarkInv,
                           SweepInv, Live, Nodes, Reach
<1> SUFFICES ASSUME Next PROVE GcInv'
  BY <1>1
<1>2. GcTypeOK'
  BY TypeStep DEF GcInv
<1> SUFFICES Goal
  BY <1>2 DEF GcInv
<1>3. /\ IsList(ll, lnext, L) /\ L \subseteq allocated /\ L \subseteq Chunk
      /\ Live = L /\ Live' = Reach(ll, lnext)' /\ next \in Links /\ allocated \subseteq Chunk
  BY LiveList
<1> HIDE DEF L
<1>4. ASSUME NEW T, IsList(ll', lnext', T), T \subseteq allocated',
             pc' \notin {"unlink", "mark", "sweep"}
      PROVE  Goal
  BY <1>2, <1>4, SoundNext DEF UnlinkInv, MarkInv, SweepInv
<1>5. ASSUME UNCHANGED listVars, allocated \subseteq allocated' PROVE Sound(ll, lnext)' /\ Live' = L
  BY <1>2, <1>3, <1>5, SoundNext DEF listVars
<1>6. ASSUME UNCHANGED listVars, allocated \subseteq allocated',
             pc' \notin {"unlink", "mark", "sweep"}
      PROVE  Goal
  BY <1>5, <1>6 DEF UnlinkInv, MarkInv, SweepInv
<1>7. ASSUME NEW first, EndTransaction(first) PROVE pc' \in {"idle", "reset"}
  BY <1>7 DEF EndTransaction, Goto
<1>8. ASSUME NEW why, Fails(why) PROVE Goal
  BY <1>8 DEF Fails, heapVars, listVars, mainVars, GcInv, Sound, UnlinkInv, MarkInv,
              SweepInv, Live, Nodes, Reach
<1>9. CASE Handler
  BY <1>2, <1>9, HandlerInv
<1>10. CASE HandlerFails
  BY <1>8, <1>10 DEF HandlerFails
<1>11. ASSUME NEW c \in Chunk, NEW v \in Value, Add(c, v) PROVE Goal
  <2>1. /\ c \notin allocated /\ allocated' = allocated \cup {c}
        /\ lnext' = [lnext EXCEPT ![c] = ll] /\ ll' = c /\ pc' \in {"idle", "reset"}
    BY <1>7, <1>11 DEF Add
  <2>2. lnext \in Links
    BY TypeLists DEF GcInv
  <2>3. c \notin L /\ lnext'[c] = ll /\ \A d \in L : lnext'[d] = lnext[d]
    BY <1>3, <2>1, <2>2 DEF Links
  <2>4. IsList(ll', lnext', L \cup {c})
    BY <1>3, <2>1, <2>3, ListInsert
  <2> QED BY <1>3, <1>4, <2>1, <2>4
<1>12. ASSUME NEW v \in Value, DelFirst(v) PROVE Goal
  <2>1. ll # NULL /\ ll' = lnext[ll] /\ UNCHANGED <<lnext, allocated>> /\ pc' \in {"idle", "reset"}
    BY <1>7, <1>12 DEF DelFirst, heapVars
  <2>2. IsList(ll', lnext', L \ {ll})
    BY <1>3, <2>1, ListTail
  <2> QED BY <1>3, <1>4, <2>1, <2>2
<1>13. ASSUME NEW v \in Value, DelNothing(v) PROVE Goal
  BY <1>6, <1>7, <1>13 DEF DelNothing, heapVars
<1>14. ASSUME NEW v \in Value, DelFind(v) PROVE Goal
  <2>1. PICK c \in Live : Before(c, v) /\ Goto("unlink", c)
    BY <1>14 DEF DelFind
  <2>2. PICK i \in 1 .. Len(Nodes) - 1 : c = Nodes[i]
    BY <2>1 DEF Before
  <2>3. IsChain(ll, lnext, Nodes)
    <3>1. ll \in Chunk \cup {NULL} /\ lnext \in Links /\ SoundIn(ll, lnext, allocated)
      BY TypeLists DEF GcInv, Sound, SoundIn
    <3> QED BY <3>1, SoundIs, AlongIsChain DEF Nodes
  <2>4. Len(Nodes) \in Nat /\ DOMAIN Nodes = 1 .. Len(Nodes)
    BY <2>3 DEF IsChain
  <2>5. i \in 1 .. Len(Nodes) /\ i # Len(Nodes) /\ i + 1 \in 1 .. Len(Nodes)
    <3>1. \A n \in Nat : \A j \in 1 .. n - 1 : j \in 1 .. n /\ j # n /\ j + 1 \in 1 .. n
      OBVIOUS
    <3> QED BY <2>2, <2>4, <3>1
  <2>6. lnext[c] = Nodes[i + 1]
    BY <2>2, <2>3, <2>5 DEF IsChain
  <2>7. lnext[c] \in Live
    BY <2>4, <2>5, <2>6 DEF Live, ToSet
  <2>8. UNCHANGED listVars /\ allocated' = allocated /\ pc' = "unlink" /\ cur' = c
    BY <1>14, <2>1 DEF DelFind, Goto, heapVars
  <2>9. UnlinkInv'
    BY <1>3, <1>5, <2>1, <2>7, <2>8 DEF UnlinkInv, listVars
  <2> QED BY <1>5, <2>8, <2>9 DEF MarkInv, SweepInv
<1>15. CASE BadTransaction
  BY <1>6, <1>7, <1>15 DEF BadTransaction, heapVars
<1>16. CASE Unlink
  <2>1. /\ pc = "unlink" /\ lnext[cur] \in allocated /\ UNCHANGED <<ll, allocated>>
        /\ lnext' = [lnext EXCEPT ![cur] = lnext[lnext[cur]]] /\ pc' \in {"idle", "reset"}
    BY <1>7, <1>16 DEF Unlink, Uses, heapVars
  <2>2. cur \in L
    BY <1>3, <2>1 DEF GcInv, UnlinkInv
  <2>3. lnext \in Links /\ lnext[cur] # NULL
    BY <1>3, <2>1, TypeLists, GcAssumption DEF GcInv
  <2>4. lnext'[cur] = lnext[lnext[cur]] /\ \A d \in L \ {cur, lnext[cur]} : lnext'[d] = lnext[d]
    BY <1>3, <2>1, <2>2, <2>3 DEF Links
  <2>5. IsList(ll', lnext', L \ {lnext[cur]})
    BY <1>3, <2>1, <2>2, <2>3, <2>4, ListRemove
  <2> QED BY <1>3, <1>4, <2>1, <2>5
<1>17. ASSUME NEW c \in Chunk, PrintMalloc(c) PROVE Goal
  BY <1>6, <1>17 DEF PrintMalloc, Goto
<1>18. CASE PrintLink
  BY <1>6, <1>18 DEF PrintLink, Goto
<1>19. CASE PrintStore
  BY <1>6, <1>19 DEF PrintStore, Goto
<1>20. CASE PrintMark
  BY <1>6, <1>20 DEF PrintMark, Goto
<1>21. CASE PrintText
  BY <1>6, <1>7, <1>21 DEF PrintText, heapVars
<1>22. CASE ResetOne
  BY <1>6, <1>22 DEF ResetOne, Goto
<1>23. CASE ResetDone
  <2>1. UNCHANGED <<heapVars, listVars>> /\ pc' = "mark" /\ cur' = ll
    BY <1>23 DEF ResetDone, Goto
  <2>2. Sound(ll, lnext)' /\ Live' = L /\ ll \in L \cup {NULL}
    BY <1>3, <1>5, <2>1, ListEnds DEF heapVars
  <2>3. Reach(cur, lnext)' = L
    BY <2>1 DEF L, listVars
  <2>4. MarkInv'
    BY <2>1, <2>2, <2>3 DEF MarkInv, listVars
  <2> QED BY <2>1, <2>2, <2>4 DEF UnlinkInv, SweepInv
<1>24. CASE MarkOne
  <2>1. /\ pc = "mark" /\ cur \in allocated /\ Sound(head, next)
        /\ in_use' = in_use \cup ({cur} \cap R)
        /\ pc' = "mark" /\ cur' = lnext[cur]
        /\ UNCHANGED <<head, next, allocated, listVars>>
    BY <1>24, LiveIs DEF MarkOne, Uses, Goto
  <2>2. cur \in L /\ cur # NULL /\ L \cap R \subseteq in_use \cup Reach(cur, lnext)
    BY <1>3, <2>1, GcAssumption DEF GcInv, MarkInv
  <2>3. PICK T \in SUBSET L : IsList(cur, lnext, T)
    BY <1>3, <2>2, ListFrom
  <2>4. IsList(lnext[cur], lnext, T \ {cur})
    BY <2>2, <2>3, ListTail
  <2>5. lnext[cur] \in L \cup {NULL} /\ lnext \in Links
    BY <1>3, <2>2, ListEnds, TypeLists DEF GcInv
  <2>6. Reach(cur, lnext) = T /\ Reach(lnext[cur], lnext) = T \ {cur}
    BY <1>3, <2>2, <2>3, <2>4, <2>5, ListIsSound
  <2>7. Sound(ll, lnext)' /\ Live' = L
    BY <1>5, <2>1
  <2>8. Sound(head, next)' /\ Reach(head, next)' = R
    BY <2>1 DEF Sound
  <2>9. Reach(cur, lnext)' = T \ {cur}
    BY <2>1, <2>6 DEF listVars
  <2>10. L \cap R \subseteq in_use' \cup (T \ {cur})
    BY <2>1, <2>2, <2>6
  <2>11. MarkInv'
    BY <2>1, <2>5, <2>7, <2>8, <2>9, <2>10 DEF MarkInv
  <2> QED BY <2>1, <2>7, <2>11 DEF UnlinkInv, SweepInv
<1>25. CASE MarkDone
  <2>1. /\ pc = "mark" /\ cur = NULL /\ pc' = "sweep" /\ cur' = head /\ prev' = head
        /\ UNCHANGED <<heapVars, listVars>>
    BY <1>25 DEF MarkDone, Goto
  <2>2. Sound(ll, lnext)' /\ Live' = L
    BY <1>5, <2>1 DEF heapVars
  <2>3. Reach(head, next)' = R /\ Sound(head, next)' = Sound(head, next)
    BY <2>1 DEF heapVars, Sound
  <2>4. ASSUME ll # NULL
        PROVE  Sound(head, next) /\ L \cap R \subseteq in_use /\ {head} \cap allocated \subseteq R
    <3>1. Sound(head, next) /\ L \cap R \subseteq in_use \cup Reach(NULL, lnext)
      BY <1>3, <2>1, <2>4 DEF GcInv, MarkInv
    <3>2. Reach(NULL, lnext) = {}
      BY ListEmpty, ListIsSound, TypeLists DEF GcInv
    <3>3. head \in R \cup {NULL}
      BY <3>1, SoundNow, ListEnds, TypeLists DEF GcInv
    <3> QED BY <1>3, <3>1, <3>2, <3>3, GcAssumption
  <2>5. SweepInv'
    BY <2>1, <2>2, <2>3, <2>4 DEF SweepInv, heapVars, listVars
  <2> QED BY <2>1, <2>2, <2>5 DEF UnlinkInv, MarkInv
<1>26. CASE SweepKeep
  <2>1. /\ pc = "sweep" /\ cur \in allocated /\ pc' = "sweep" /\ cur' = next[cur] /\ prev' = cur
        /\ UNCHANGED <<heapVars, listVars>>
    BY <1>26 DEF SweepKeep, Uses, Goto
  <2>2. Sound(ll, lnext)' /\ Live' = L
    BY <1>5, <2>1 DEF heapVars
  <2>3. Reach(head, next)' = R /\ Sound(head, next)' = Sound(head, next)
    BY <2>1 DEF heapVars, Sound
  <2>4. ASSUME ll # NULL
        PROVE  Sound(head, next) /\ L \cap R \subseteq in_use /\ {next[cur], cur} \cap allocated \subseteq R
    <3>1. Sound(head, next) /\ L \cap R \subseteq in_use /\ cur \in R
      BY <1>3, <2>1, <2>4 DEF GcInv, SweepInv
    <3>2. next[cur] \in R \cup {NULL}
      BY <3>1, SoundNow, ListEnds, TypeLists DEF GcInv
    <3> QED BY <1>3, <3>1, <3>2, GcAssumption
  <2>5. SweepInv'
    BY <2>1, <2>2, <2>3, <2>4 DEF SweepInv, heapVars, listVars
  <2> QED BY <2>1, <2>2, <2>5 DEF UnlinkInv, MarkInv
<1>27. CASE SweepHead
  BY <1>2, <1>27, SweepHeadInv DEF SweepHead, Goto, UnlinkInv, MarkInv
<1>28. CASE SweepMiddle
  BY <1>2, <1>28, SweepMiddleInv DEF SweepMiddle, Goto, UnlinkInv, MarkInv
<1>29. CASE SweepDone
  BY <1>6, <1>29 DEF SweepDone, Goto, heapVars
<1>30. CASE MainFaults \/ MainCrashes \/ EndOfFile
  BY <1>8, <1>30 DEF MainFaults, MainCrashes, EndOfFile
<1> HIDE DEF Goal
<1> QED BY <1>9, <1>10, <1>11, <1>12, <1>13, <1>14, <1>15, <1>16, <1>17, <1>18, <1>19, <1>20,
           <1>21, <1>22, <1>23, <1>24, <1>25, <1>26, <1>27, <1>28, <1>29, <1>30 DEF Next, Main

LEMMA InvInit == Init => GcInv
<1> SUFFICES ASSUME Init PROVE GcInv
  OBVIOUS
<1>1. GcTypeOK
  BY TypeInit
<1>2. ll = NULL /\ lnext \in Links /\ pc = "idle"
  BY DEF Init, Links
<1>3. SoundIn(ll, lnext, allocated)
  BY <1>2, ListEmpty, ListIsSound
<1> QED BY <1>1, <1>2, <1>3 DEF GcInv, Sound, SoundIn, UnlinkInv, MarkInv, SweepInv

(* The type invariant of the collector, for any number of chunks and values. *)
THEOREM CollectorTypes == Spec => []GcTypeOK
<1>1. GcInv => GcTypeOK
  BY DEF GcInv
<1> QED BY <1>1, InvInit, InvStep, PTL DEF Spec

(* The collector never frees what the program can reach: at every moment at
   which SIGUSR1 can arrive, and after any number of collections, the program's
   list is a list of nodes that exist, and a deletion finds its node. *)
THEOREM CollectorKeepsTheList == Spec => []ListSurvives
<1>1. GcInv => ListSurvives
  <2> SUFFICES ASSUME GcInv PROVE ListSurvives
    OBVIOUS
  <2>1. Live \subseteq allocated /\ Sound(ll, lnext) /\ UnlinkInv
    BY LiveList DEF GcInv
  <2> QED BY <2>1 DEF ListSurvives, UnlinkInv
<1> QED BY <1>1, InvInit, InvStep, PTL DEF Spec

-----------------------------------------------------------------------------
(* As long as no signal arrives while main prints or collects.               *)

(* The chunk that gc_malloc has yet to put on its list. *)
Pending == IF pc \in {"link", "store"} THEN {cur} ELSE {}

PrintInv ==
    /\ pc \in {"link", "store", "mark new", "print"} => cur \in allocated
    /\ pc \in {"link", "store"} => cur \notin Live
    /\ pc = "store" => next[cur] = head

CollectInv ==
    /\ pc = "reset" => cur \in allocated \cup {NULL}
    /\ pc = "sweep" /\ cur # NULL =>
           /\ {cur, prev} \subseteq allocated
           /\ (prev = cur /\ cur = head) \/ next[prev] = cur

CleanInv ==
    ~raced =>
        /\ status # "fault"
        /\ status = "crash" => ll = NULL /\ next[head] = NULL
        /\ Sound(head, next)
        /\ Reach(head, next) = allocated \ Pending
        /\ PrintInv
        /\ CollectInv

LEMMA CleanInit == Init => CleanInv
<1> SUFFICES ASSUME Init PROVE CleanInv
  OBVIOUS
<1>1. head = NULL /\ next \in Links /\ pc = "idle" /\ status = "running" /\ allocated = {}
  BY DEF Init, Links
<1>2. SoundIn(head, next, allocated) /\ Reach(head, next) = {}
  BY <1>1, ListEmpty, ListIsSound
<1> QED BY <1>1, <1>2 DEF CleanInv, Sound, SoundIn, Pending, PrintInv, CollectInv

(* The handler and the thread stop for a lack of chunks only with the last one. *)
LEMMA LastChunk ==
    ASSUME GcInv, Sound(head, next), Live \subseteq Reach(head, next),
           \/ FollowsNull(Chunks, Marked)
           \/ MainCrashes
    PROVE  ll = NULL /\ next[head] = NULL
<1> DEFINE R == Reach(head, next)
<1>1. head \in Chunk \cup {NULL} /\ next \in Links /\ IsList(head, next, R)
  BY TypeLists, SoundNow DEF GcInv
<1>2. ll # NULL => ll \in Live
  BY LiveList, ListEnds
<1>3. CASE FollowsNull(Chunks, Marked)
  <2>1. IsChain(head, next, Chunks)
    <3>1. SoundIn(head, next, allocated)
      BY DEF Sound, SoundIn
    <3> QED BY <1>1, <3>1, SoundIs, AlongIsChain DEF Chunks
  <2>2. Len(Chunks) = 1 /\ Chunks[1] \notin Live \cap R
    BY <1>3, LiveIs DEF FollowsNull, Marked
  <2>3. head = Chunks[1] /\ next[head] = NULL /\ DOMAIN Chunks = {1}
    <3>1. 1 .. 1 = {1}
      OBVIOUS
    <3> QED BY <2>1, <2>2, <3>1 DEF IsChain
  <2>4. R = {head}
    BY <2>3, LiveIs DEF ToSet
  <2> QED BY <1>2, <2>2, <2>3, <2>4
<1>4. CASE MainCrashes
  <2>1. pc = "sweep" /\ cur \in allocated /\ cur \notin in_use /\ cur = head /\ next[cur] = NULL
    BY <1>4 DEF MainCrashes, Uses
  <2>2. head # NULL
    BY <2>1, TypeLists, GcAssumption DEF GcInv
  <2>3. IsList(next[head], next, R \ {head})
    BY <1>1, <2>2, ListTail
  <2>4. R \ {head} = {}
    BY <2>1, <2>3, ListEnds
  <2>5. ll # NULL => ll \in in_use
    BY <1>2, <2>1 DEF GcInv, SweepInv
  <2> QED BY <1>2, <2>1, <2>4, <2>5
<1> QED BY <1>3, <1>4

(* One chunk freed by the thread; the list is the rest. *)
LEMMA CleanSweep ==
    ASSUME GcInv, CleanInv, ~raced, SweepHead \/ SweepMiddle
    PROVE  /\ IsList(head', next', allocated') /\ allocated' \subseteq allocated
           /\ cur' # NULL => {cur', prev'} \subseteq allocated' /\ next'[prev'] = cur'
<1> DEFINE R == Reach(head, next)
<1>1. /\ pc = "sweep" /\ cur \in allocated /\ next \in Links /\ allocated \subseteq Chunk /\ cur # NULL
  BY TypeLists, GcAssumption DEF GcInv, SweepHead, SweepMiddle, Uses
<1>2. /\ Sound(head, next) /\ R = allocated /\ prev \in allocated
      /\ (prev = cur /\ cur = head) \/ next[prev] = cur
  BY <1>1 DEF CleanInv, Pending, CollectInv
<1>3. IsList(head, next, allocated)
  BY <1>2, TypeLists, SoundNow DEF GcInv
<1>4. /\ NULL \notin allocated
      /\ \A c \in allocated : next[c] \in allocated \cup {NULL} /\ next[c] # head /\ next[c] # c
  BY <1>1, <1>3, ListEnds, GcAssumption
<1>5. CASE SweepHead
  <2>1. /\ cur = head /\ next[cur] \in allocated
        /\ head' = next[cur] /\ cur' = next[next[cur]] /\ prev' = next[cur]
        /\ allocated' = allocated \ {prev}
        /\ next' = [next EXCEPT ![prev] = NULL]
    BY <1>5 DEF SweepHead, Uses, Free, Goto
  <2>2. prev = head
    BY <1>2, <1>4, <2>1
  <2>3. IsList(head', next, allocated \ {head})
    BY <1>1, <1>3, <2>1, ListTail
  <2>4. \A c \in allocated \ {head} : next'[c] = next[c]
    BY <1>1, <2>1, <2>2 DEF Links
  <2>5. IsList(head', next', allocated')
    BY <2>1, <2>2, <2>3, <2>4, ListFrame
  <2>6. next[cur] \in allocated' /\ next[next[cur]] \in allocated' \cup {NULL}
    BY <1>1, <1>4, <2>1, <2>2
  <2> QED BY <2>1, <2>2, <2>4, <2>5, <2>6
<1>6. CASE SweepMiddle
  <2>1. /\ cur # head /\ head' = head /\ cur' = next[cur] /\ prev' = prev
        /\ allocated' = allocated \ {cur}
        /\ next' = [next EXCEPT ![prev] = next[cur], ![cur] = NULL]
    BY <1>6 DEF SweepMiddle, Uses, Free, Goto
  <2>2. next[prev] = cur /\ prev # cur
    BY <1>2, <1>4, <2>1
  <2>3. next'[prev] = next[next[prev]] /\ \A d \in allocated \ {prev, next[prev]} : next'[d] = next[d]
    BY <1>1, <1>2, <2>1, <2>2 DEF Links
  <2>4. IsList(head', next', allocated')
    BY <1>1, <1>2, <1>3, <2>1, <2>2, <2>3, ListRemove
  <2>5. next'[prev'] = cur' /\ cur' \in allocated' \cup {NULL} /\ prev' \in allocated'
    BY <1>1, <1>2, <1>4, <2>1, <2>2, <2>3
  <2> QED BY <2>1, <2>4, <2>5
<1> QED BY <1>5, <1>6

LEMMA CleanStep == GcInv /\ CleanInv /\ [Next]_vars => CleanInv'
<1> SUFFICES ASSUME GcInv, CleanInv, [Next]_vars, ~raced' PROVE CleanInv'
  BY DEF CleanInv
<1> DEFINE R == Reach(head, next)
<1>1. CASE UNCHANGED vars
  BY <1>1 DEF vars, heapVars, listVars, mainVars, CleanInv, Sound, Pending, PrintInv, CollectInv,
              Live, Nodes, Reach
<1> SUFFICES ASSUME Next PROVE CleanInv'
  BY <1>1
<1>2. GcTypeOK'
  BY TypeStep DEF GcInv
<1>3. ~raced /\ (Handler => pc \in {"idle", "unlink"})
  <2>1. raced' = raced \/ Handler
    BY Zenon DEF Next, Main, HandlerFails, Fails, Add, DelFirst, DelNothing, DelFind, BadTransaction,
           Unlink, PrintMalloc, PrintLink, PrintStore, PrintMark, PrintText, ResetOne, ResetDone,
           MarkOne, MarkDone, SweepKeep, SweepHead, SweepMiddle, SweepDone, MainFaults,
           MainCrashes, EndOfFile, EndTransaction
  <2>2. Handler => ~raced /\ pc \in {"idle", "unlink"}
    BY Zenon DEF Handler
  <2>3. raced' = raced => ~raced
    <3>1. ~raced'
      OBVIOUS
    <3> QED BY <3>1, SMT
  <2> QED BY <2>1, <2>2, <2>3, Zenon
<1>4. /\ status # "fault" /\ Sound(head, next) /\ R = allocated \ Pending /\ PrintInv /\ CollectInv
      /\ status = "crash" => ll = NULL /\ next[head] = NULL
  BY <1>3 DEF CleanInv
<1>5. /\ IsList(head, next, R) /\ R \subseteq allocated /\ next \in Links /\ allocated \subseteq Chunk
      /\ head \in R \cup {NULL} /\ \A c \in R : next[c] \in R \cup {NULL}
  BY <1>4, TypeLists, SoundNow, ListEnds DEF GcInv
<1>6. Live \subseteq allocated /\ Live \subseteq R
  BY <1>4, LiveList DEF Pending, PrintInv
<1>7. NULL \notin allocated
  BY <1>5, GcAssumption
<1> HIDE DEF R
\* A list is made of the chunks, and the thread is not stopped.
<1>8. ASSUME IsList(head', next', allocated' \ Pending'), PrintInv', CollectInv', status' = "running"
      PROVE  CleanInv'
  BY <1>2, <1>8, SoundNext DEF CleanInv
\* A transaction ends with the list complete.
<1>9. ASSUME NEW first \in allocated' \cup {NULL}, EndTransaction(first), status = "running",
             IsList(head', next', allocated')
      PROVE  CleanInv'
  <2>1. pc' \in {"idle", "reset"} /\ (pc' = "reset" => cur' = first) /\ status' = status
    BY <1>9 DEF EndTransaction, Goto
  <2>2. PrintInv' /\ CollectInv' /\ Pending' = {}
    BY <1>9, <2>1 DEF PrintInv, CollectInv, Pending
  <2>3. allocated' \ Pending' = allocated'
    BY <2>2
  <2> QED BY <1>8, <1>9, <2>1, <2>2, <2>3
<1>10. ASSUME EndTransaction(head), status = "running", UNCHANGED heapVars,
              pc \in {"idle", "unlink", "print"}
       PROVE  CleanInv'
  BY <1>4, <1>5, <1>9, <1>10 DEF Pending, heapVars
<1>11. ASSUME NEW why \in {"done", "crash", "fault"}, Fails(why), why # "fault",
              why = "crash" => ll = NULL /\ next[head] = NULL
       PROVE  CleanInv'
  BY <1>3, <1>4, <1>11 DEF Fails, heapVars, listVars, mainVars, CleanInv, Sound, Pending, PrintInv,
              CollectInv, Live, Nodes, Reach
<1>12. CASE Handler
  <2>1. PICK S \in SUBSET R :
             /\ IsList(head', next', S)
             /\ allocated' = allocated \ (R \ S)
    BY <1>12, HandlerKeeps DEF GcInv, R
  <2>2. pc \in {"idle", "unlink"} /\ pc' = pc /\ status' = "running" /\ R = allocated
    BY <1>3, <1>4, <1>12 DEF Handler, mainVars, Pending
  <2>3. allocated' \ Pending' = S
    BY <2>1, <2>2 DEF Pending
  <2>4. PrintInv' /\ CollectInv'
    BY <2>2 DEF PrintInv, CollectInv
  <2> QED BY <1>8, <2>1, <2>2, <2>3, <2>4
<1>13. CASE HandlerFails
  <2>1. FollowsNull(Chunks, Marked) /\ Fails("crash")
    BY <1>4, <1>13 DEF HandlerFails
  <2>2. ll = NULL /\ next[head] = NULL
    BY <1>4, <1>6, <2>1, LastChunk DEF R
  <2> QED BY <1>11, <2>1, <2>2
<1>14. ASSUME NEW c \in Chunk, NEW v \in Value, Add(c, v) PROVE CleanInv'
  <2>1. /\ pc = "idle" /\ status = "running" /\ c \notin allocated
        /\ allocated' = allocated \cup {c}
        /\ next' = [next EXCEPT ![c] = head] /\ head' = c /\ EndTransaction(c)
    BY <1>14 DEF Add
  <2>2. R = allocated
    BY <1>4, <2>1 DEF Pending
  <2>3. next'[c] = head /\ \A d \in R : next'[d] = next[d]
    BY <1>5, <2>1, <2>2 DEF Links
  <2>4. IsList(head', next', R \cup {c})
    <3>1. c \notin R /\ head' = c
      BY <2>1, <2>2
    <3>2. IsList(c, next', R \cup {c})
      BY <1>5, <2>3, <3>1, ListInsert
    <3> QED BY <3>1, <3>2
  <2>5. R \cup {c} = allocated'
    BY <2>1, <2>2
  <2> QED BY <1>9, <2>1, <2>4, <2>5
<1>15. ASSUME NEW v \in Value, DelFirst(v) \/ DelNothing(v) PROVE CleanInv'
  BY <1>10, <1>15 DEF DelFirst, DelNothing
<1>16. ASSUME NEW v \in Value, DelFind(v) PROVE CleanInv'
  <2>1. pc = "idle" /\ status' = "running" /\ UNCHANGED heapVars /\ pc' = "unlink"
    BY <1>16 DEF DelFind, Goto
  <2>2. PrintInv' /\ CollectInv' /\ Pending' = {} /\ Pending = {}
    BY <2>1 DEF PrintInv, CollectInv, Pending
  <2> QED BY <1>4, <1>5, <1>8, <2>1, <2>2 DEF heapVars
<1>17. CASE BadTransaction
  BY <1>10, <1>17 DEF BadTransaction
<1>18. CASE Unlink
  BY <1>10, <1>18 DEF Unlink, Uses
<1>19. ASSUME NEW c \in Chunk, PrintMalloc(c) PROVE CleanInv'
  <2>1. /\ pc = "idle" /\ status' = "running" /\ c \notin allocated /\ allocated' = allocated \cup {c}
        /\ pc' = "link" /\ cur' = c /\ UNCHANGED <<head, next, listVars>>
    BY <1>19 DEF PrintMalloc, Goto
  <2>2. Live' = Live
    BY <2>1 DEF Live, Nodes, listVars
  <2>3. PrintInv' /\ CollectInv' /\ Pending' = {c} /\ Pending = {}
    BY <1>6, <2>1, <2>2 DEF PrintInv, CollectInv, Pending
  <2>4. allocated' \ Pending' = R
    BY <1>4, <2>1, <2>3
  <2> QED BY <1>5, <1>8, <2>1, <2>3, <2>4
<1>20. CASE PrintLink
  <2>1. /\ pc = "link" /\ status' = "running" /\ cur \in allocated /\ next' = [next EXCEPT ![cur] = head]
        /\ pc' = "store" /\ cur' = cur /\ UNCHANGED <<head, allocated, listVars>>
    BY <1>20 DEF PrintLink, Uses, Goto
  <2>2. Live' = Live
    BY <2>1 DEF Live, Nodes, listVars
  <2>3. PrintInv' /\ CollectInv' /\ Pending' = {cur} /\ Pending = {cur}
    BY <1>4, <1>5, <2>1, <2>2 DEF PrintInv, CollectInv, Pending, Links
  <2>4. \A d \in R : next'[d] = next[d]
    BY <1>4, <1>5, <2>1, <2>3 DEF Links
  <2>5. allocated' \ Pending' = R
    BY <1>4, <2>1, <2>3
  <2>6. IsList(head', next', R)
    BY <1>5, <2>1, <2>4, ListFrame
  <2> QED BY <1>8, <2>1, <2>3, <2>5, <2>6
<1>21. CASE PrintStore
  <2>1. /\ pc = "store" /\ status' = "running" /\ cur \in allocated /\ head' = cur /\ next[cur] = head
        /\ pc' = "mark new" /\ cur' = cur /\ UNCHANGED <<next, allocated>>
    BY <1>4, <1>21 DEF PrintStore, Uses, Goto, PrintInv
  <2>2. PrintInv' /\ CollectInv' /\ Pending' = {} /\ Pending = {cur}
    BY <2>1 DEF PrintInv, CollectInv, Pending
  <2>3. allocated' \ Pending' = R \cup {cur} /\ cur \notin R /\ cur \in Chunk
    BY <1>4, <1>5, <2>1, <2>2
  <2>4. IsList(head', next', R \cup {cur})
    BY <1>5, <2>1, <2>3, ListInsert
  <2> QED BY <1>8, <2>1, <2>2, <2>3, <2>4
<1>22. CASE PrintMark
  <2>1. /\ pc = "mark new" /\ status' = "running" /\ cur \in allocated
        /\ pc' = "print" /\ cur' = cur /\ UNCHANGED <<head, next, allocated>>
    BY <1>22 DEF PrintMark, Uses, Goto
  <2>2. PrintInv' /\ CollectInv' /\ Pending' = {} /\ Pending = {}
    BY <2>1 DEF PrintInv, CollectInv, Pending
  <2> QED BY <1>4, <1>5, <1>8, <2>1, <2>2
<1>23. CASE PrintText
  BY <1>10, <1>23 DEF PrintText, Uses
<1>24. CASE ResetOne
  <2>1. /\ pc = "reset" /\ status' = "running" /\ cur \in allocated
        /\ pc' = "reset" /\ cur' = next[cur] /\ UNCHANGED <<head, next, allocated>>
    BY <1>24 DEF ResetOne, Uses, Goto
  <2>2. PrintInv' /\ Pending' = {} /\ Pending = {}
    BY <2>1 DEF PrintInv, Pending
  <2>3. CollectInv'
    BY <1>4, <1>5, <2>1, <2>2 DEF CollectInv
  <2> QED BY <1>4, <1>5, <1>8, <2>1, <2>2, <2>3
<1>25. CASE ResetDone \/ MarkOne
  <2>1. /\ pc \in {"reset", "mark"} /\ status' = "running"
        /\ pc' = "mark" /\ UNCHANGED <<head, next, allocated>>
    BY <1>25 DEF ResetDone, MarkOne, Uses, Goto, heapVars
  <2>2. PrintInv' /\ CollectInv' /\ Pending' = {} /\ Pending = {}
    BY <2>1 DEF PrintInv, CollectInv, Pending
  <2> QED BY <1>4, <1>5, <1>8, <2>1, <2>2
<1>26. CASE MarkDone \/ SweepKeep
  <2>1. /\ pc \in {"mark", "sweep"} /\ status' = "running"
        /\ pc' = "sweep" /\ UNCHANGED <<head, next, allocated>>
        /\ \/ cur' = head /\ prev' = head
           \/ cur \in allocated /\ cur' = next[cur] /\ prev' = cur
    BY <1>26 DEF MarkDone, SweepKeep, Uses, Goto, heapVars
  <2>2. PrintInv' /\ Pending' = {} /\ Pending = {}
    BY <2>1 DEF PrintInv, Pending
  <2>3. CollectInv'
    BY <1>4, <1>5, <2>1, <2>2 DEF CollectInv
  <2> QED BY <1>4, <1>5, <1>8, <2>1, <2>2, <2>3
<1>27. CASE SweepHead \/ SweepMiddle
  <2>1. status' = "running" /\ pc' = "sweep"
    BY <1>27 DEF SweepHead, SweepMiddle, Uses, Goto
  <2>2. /\ IsList(head', next', allocated')
        /\ cur' # NULL => {cur', prev'} \subseteq allocated' /\ next'[prev'] = cur'
    BY <1>3, <1>27, CleanSweep
  <2>3. PrintInv' /\ CollectInv' /\ Pending' = {}
    BY <2>1, <2>2 DEF PrintInv, CollectInv, Pending
  <2>4. allocated' \ Pending' = allocated'
    BY <2>3
  <2> QED BY <1>8, <2>1, <2>2, <2>3, <2>4
<1>28. CASE SweepDone
  <2>1. pc = "sweep" /\ status' = "running" /\ pc' = "idle" /\ UNCHANGED <<head, next, allocated>>
    BY <1>28 DEF SweepDone, Goto, heapVars
  <2>2. PrintInv' /\ CollectInv' /\ Pending' = {} /\ Pending = {}
    BY <2>1 DEF PrintInv, CollectInv, Pending
  <2> QED BY <1>4, <1>5, <1>8, <2>1, <2>2
<1>29. ~MainFaults
  <2>1. ASSUME pc # "idle", cur # NULL PROVE cur \in allocated
    BY <1>4, <1>6, <2>1 DEF GcInv, GcTypeOK, UnlinkInv, MarkInv, PrintInv, CollectInv
  <2>2. pc = "unlink" => lnext[cur] \in allocated
    BY <1>6 DEF GcInv, UnlinkInv
  <2>3. ASSUME pc = "sweep", cur \in allocated
        PROVE  prev \in allocated /\ next[cur] \in allocated \cup {NULL}
    BY <1>4, <1>5, <1>7, <2>3 DEF CollectInv, Pending
  <2> QED BY <1>4, <2>1, <2>2, <2>3 DEF MainFaults
<1>30. CASE MainCrashes
  <2>1. ll = NULL /\ next[head] = NULL /\ Fails("crash")
    BY <1>4, <1>6, <1>30, LastChunk DEF MainCrashes, R
  <2> QED BY <1>11, <2>1
<1>31. CASE EndOfFile
  BY <1>11, <1>31 DEF EndOfFile
<1> QED BY <1>12, <1>13, <1>14, <1>15, <1>16, <1>17, <1>18, <1>19, <1>20, <1>21, <1>22, <1>23,
           <1>24, <1>25, <1>26, <1>27, <1>28, <1>29, <1>30, <1>31 DEF Next, Main

(* Every chunk the program allocated and not freed is on the collector's list,
   once, and no step uses one that was freed, as long as no signal arrives while
   main prints or collects. *)
THEOREM NoChunkIsLost == Spec => []ChunkListComplete
<1>1. CleanInv => ChunkListComplete
  BY LiveIs DEF CleanInv, ChunkListComplete, Pending
<1> QED BY <1>1, InvInit, InvStep, CleanInit, CleanStep, PTL DEF Spec

-----------------------------------------------------------------------------
(* What a collection leaves, however it is interrupted.                      *)

AtMostOne(S) == \A c, d \in S : c = d

(* Where the sweep is, also on a list that a raced allocation has broken. *)
PlaceInv ==
    pc = "sweep" =>
        /\ {cur, prev} \subseteq allocated => prev = cur \/ next[prev] = cur
        /\ Sound(head, next) =>
               /\ {cur, prev} \cap allocated \subseteq Reach(head, next)
               /\ prev = cur /\ cur \in allocated => cur = head

(* No mark of an earlier time is left, from the chunks that are reset on. *)
UsedInv ==
    Sound(head, next) =>
        /\ pc \in {"mark", "sweep"} => Reach(head, next) \cap in_use \subseteq Live
        /\ pc = "reset" =>
               \/ Reach(head, next) \cap in_use \subseteq Live
               \/ /\ cur \in Reach(head, next)
                  /\ Reach(head, next) \cap in_use \subseteq Live \cup Reach(cur, next)

(* The handler leaves at most one unused chunk behind; without it, the sweep has
   passed at most one. *)
LeftInv ==
    pc = "sweep" /\ Sound(head, next) =>
        \/ AtMostOne(Reach(head, next) \ Live)
        \/ /\ cur \in Reach(head, next) \cup {NULL}
           /\ AtMostOne((Reach(head, next) \ Live) \ Reach(cur, next))

LeaveInv == AtMostOne(left) /\ PlaceInv /\ UsedInv /\ LeftInv

LEMMA SoundLater ==
    ASSUME GcTypeOK', Sound(head, next)'
    PROVE  IsList(head', next', Reach(head, next)') /\ Reach(head, next)' \subseteq allocated'
<1>1. head' \in Chunk \cup {NULL} /\ next' \in Links
  BY DEF GcTypeOK, Links
<1>2. SoundIn(head', next', allocated')
  BY DEF Sound, SoundIn
<1> QED BY <1>1, <1>2, SoundIsList

(* The rest of a list is what the walk from there passes. *)
LEMMA ReachFrom ==
    ASSUME NEW p, NEW nx \in Links, NEW S, IsList(p, nx, S), NEW c \in S
    PROVE  /\ IsList(c, nx, Reach(c, nx)) /\ Reach(c, nx) \subseteq S
           /\ c \in Reach(c, nx)
           /\ IsList(nx[c], nx, Reach(c, nx) \ {c})
           /\ Reach(nx[c], nx) = Reach(c, nx) \ {c}
           /\ \A d \in S : nx[d] = c => d \notin Reach(c, nx)
<1>1. PICK T \in SUBSET S : IsList(c, nx, T) /\ \A d \in S : nx[d] = c => d \notin T
  BY ListFrom
<1>2. c \in Chunk /\ c # NULL /\ c \in T /\ nx[c] \in Chunk \cup {NULL}
  BY <1>1, ListEnds, GcAssumption DEF Links
<1>3. IsList(nx[c], nx, T \ {c})
  BY <1>1, <1>2, ListTail
<1>4. Reach(c, nx) = T
  BY <1>1, <1>2, ListIsSound
<1>5. Reach(nx[c], nx) = T \ {c}
  BY <1>2, <1>3, ListIsSound
<1> QED BY <1>1, <1>2, <1>3, <1>4, <1>5

LEMMA ReachNothing == \A nx \in Links : Reach(NULL, nx) = {}
BY ListEmpty, ListIsSound

(* A list that the sweep leaves sound was sound before. *)
LEMMA HeadWasSound ==
    ASSUME GcInv, GcTypeOK', PlaceInv, SweepHead, Sound(head, next)'
    PROVE  /\ Sound(head, next) /\ prev = head
           /\ head \notin Reach(head, next)'
           /\ Reach(head, next) = Reach(head, next)' \cup {head}
<1> DEFINE R2 == Reach(head, next)'
           R  == Reach(head, next)
<1>1. /\ pc = "sweep" /\ cur = head /\ cur \in allocated /\ prev \in allocated
      /\ head' = next[cur] /\ allocated' = allocated \ {prev}
      /\ next' = [next EXCEPT ![prev] = NULL]
  BY DEF SweepHead, Uses, Free, Goto
<1>2. IsList(head', next', R2) /\ R2 \subseteq allocated'
  BY SoundLater
<1>3. allocated \subseteq Chunk /\ next \in Links /\ head \in Chunk
  BY <1>1, TypeLists DEF GcInv
<1> HIDE DEF R2, R
<1>4. \A c \in R2 : next'[c] = next[c] /\ next'[c] # head'
  BY <1>1, <1>2, <1>3, ListEnds DEF Links
<1>5. head \notin R2
  BY <1>1, <1>4
<1>6. IsList(head', next, R2)
  BY <1>2, <1>4, ListFrame
<1>7. IsList(head, next, R2 \cup {head})
  BY <1>1, <1>3, <1>5, <1>6, ListInsert
<1>8. R2 \cup {head} \subseteq allocated
  BY <1>1, <1>2
<1>9. SoundIn(head, next, allocated) /\ Reach(head, next) = R2 \cup {head}
  BY <1>3, <1>7, <1>8, ListIsSound
<1>10. Sound(head, next)
  BY <1>9 DEF Sound, SoundIn
<1>11. prev = head
  <2>1. prev \in Reach(head, next) /\ (prev = cur \/ next[prev] = cur)
    BY <1>1, <1>10 DEF PlaceInv
  <2>2. next[prev] # head
    BY <1>7, <1>9, <2>1, ListEnds
  <2> QED BY <1>1, <2>1, <2>2
<1> QED BY <1>5, <1>9, <1>10, <1>11 DEF R2

LEMMA MiddleWasSound ==
    ASSUME GcInv, GcTypeOK', PlaceInv, SweepMiddle, Sound(head, next)'
    PROVE  /\ Sound(head, next) /\ prev # cur /\ next[prev] = cur
           /\ cur \notin Reach(head, next)' /\ prev \in Reach(head, next)'
           /\ Reach(head, next) = Reach(head, next)' \cup {cur}
<1> DEFINE R2 == Reach(head, next)'
<1>1. /\ pc = "sweep" /\ cur # head /\ cur \in allocated /\ prev \in allocated
      /\ head' = head /\ allocated' = allocated \ {cur}
      /\ next' = [next EXCEPT ![prev] = next[cur], ![cur] = NULL]
  BY DEF SweepMiddle, Uses, Free, Goto
<1>2. IsList(head', next', R2) /\ R2 \subseteq allocated'
  BY SoundLater
<1>3. allocated \subseteq Chunk /\ next \in Links /\ head \in Chunk \cup {NULL} /\ prev \in Chunk /\ cur \in Chunk
  BY <1>1, TypeLists DEF GcInv
<1> HIDE DEF R2
<1>4. cur \notin R2
  BY <1>1, <1>2
<1>5. prev \in R2
  <2> SUFFICES ASSUME prev \notin R2 PROVE FALSE
    OBVIOUS
  <2>1. \A c \in R2 : next'[c] = next[c]
    BY <1>1, <1>2, <1>3, <1>4 DEF Links
  <2>2. IsList(head, next, R2) /\ R2 \subseteq allocated
    BY <1>1, <1>2, <2>1, ListFrame
  <2>3. SoundIn(head, next, allocated) /\ Reach(head, next) = R2
    BY <1>3, <2>2, ListIsSound
  <2>4. Sound(head, next)
    BY <2>3 DEF Sound, SoundIn
  <2> QED BY <1>1, <1>4, <2>3, <2>4 DEF PlaceInv
<1>6. prev # cur /\ next[prev] = cur
  BY <1>1, <1>4, <1>5 DEF PlaceInv
<1>7. next[cur] = next'[prev] /\ \A c \in R2 \ {prev} : next[c] = next'[c]
  BY <1>1, <1>2, <1>3, <1>4, <1>6 DEF Links
<1>8. IsList(head, next, R2 \cup {cur})
  BY <1>1, <1>2, <1>3, <1>4, <1>5, <1>6, <1>7, ListPutBack
<1>9. R2 \cup {cur} \subseteq allocated
  BY <1>1, <1>2
<1>10. SoundIn(head, next, allocated) /\ Reach(head, next) = R2 \cup {cur}
  BY <1>3, <1>8, <1>9, ListIsSound
<1>11. Sound(head, next)
  BY <1>10 DEF Sound, SoundIn
<1> QED BY <1>4, <1>5, <1>6, <1>10, <1>11 DEF R2

LEMMA LeaveSweepHead ==
    ASSUME GcInv, GcTypeOK', LeaveInv, SweepHead
    PROVE  LeaveInv'
<1> DEFINE R2 == Reach(head, next)'
           R  == Reach(head, next)
<1>1. /\ pc = "sweep" /\ pc' = "sweep" /\ cur = head /\ cur \in allocated /\ prev \in allocated
      /\ next[cur] \in allocated
      /\ head' = next[cur] /\ cur' = next[next[cur]] /\ prev' = next[cur]
      /\ allocated' = allocated \ {prev}
      /\ in_use' = in_use \ {prev} /\ left' = left
      /\ next' = [next EXCEPT ![prev] = NULL]
  BY DEF SweepHead, Uses, Free, Goto
<1>2. /\ allocated \subseteq Chunk /\ next \in Links /\ head \in Chunk /\ next' \in Links
  BY <1>1, TypeLists DEF GcInv, GcTypeOK, Links
<1>3. Live' = Live
  BY SweepHeadInv
<1>4. {cur', prev'} \subseteq allocated' => prev' = cur' \/ next'[prev'] = cur'
  BY <1>1, <1>2 DEF Links
<1>5. ASSUME Sound(head, next)'
      PROVE  /\ {cur', prev'} \cap allocated' \subseteq R2
             /\ prev' = cur' /\ cur' \in allocated' => cur' = head'
             /\ R2 \cap in_use' \subseteq Live
             /\ cur' \in R2 \cup {NULL}
             /\ AtMostOne((R2 \ Live) \ Reach(cur', next'))
  <2>1. Sound(head, next) /\ prev = head /\ head \notin R2 /\ R = R2 \cup {head}
    BY <1>5, HeadWasSound DEF LeaveInv
  <2>2. IsList(head', next', R2) /\ R2 \subseteq allocated'
    BY <1>5, SoundLater
  <2> HIDE DEF R2, R
  <2>3. NULL \notin allocated /\ head' # NULL
    BY <1>1, <1>2, GcAssumption
  <2>4. head' \in R2 /\ next'[head'] = cur' /\ cur' \in R2 \cup {NULL}
    <3>1. head' \in R2 /\ next'[head'] \in R2 \cup {NULL}
      BY <2>2, <2>3, ListEnds
    <3>2. next'[head'] = next[head']
      BY <1>1, <1>2, <2>1, <3>1 DEF Links
    <3> QED BY <1>1, <3>1, <3>2
  <2>5. {cur', prev'} \cap allocated' \subseteq R2
    BY <1>1, <2>3, <2>4
  <2>6. R \cap in_use \subseteq Live
    BY <1>1, <2>1 DEF LeaveInv, UsedInv, R
  <2>7. Reach(cur', next') = Reach(head', next') \ {head'} /\ Reach(head', next') = R2
    <3>1. Reach(next'[head'], next') = Reach(head', next') \ {head'}
      BY <1>2, <2>2, <2>4, ReachFrom
    <3>2. Reach(head', next') = R2
      BY DEF R2
    <3> QED BY <2>4, <3>1, <3>2
  <2>8. \A c \in (R2 \ Live) \ Reach(cur', next') : c = head'
    BY <2>7
  <2>9. AtMostOne((R2 \ Live) \ Reach(cur', next'))
    BY <2>8 DEF AtMostOne
  <2> QED BY <1>1, <2>1, <2>4, <2>5, <2>6, <2>9
<1>6. PlaceInv'
  BY <1>4, <1>5 DEF PlaceInv
<1>7. UsedInv'
  BY <1>1, <1>3, <1>5 DEF UsedInv
<1>8. LeftInv'
  BY <1>3, <1>5 DEF LeftInv
<1> QED BY <1>1, <1>6, <1>7, <1>8 DEF LeaveInv, AtMostOne

LEMMA LeaveSweepMiddle ==
    ASSUME GcInv, GcTypeOK', LeaveInv, SweepMiddle
    PROVE  LeaveInv'
<1> DEFINE R2 == Reach(head, next)'
           R  == Reach(head, next)
<1>1. /\ pc = "sweep" /\ pc' = "sweep" /\ cur # head /\ cur \in allocated /\ prev \in allocated
      /\ head' = head /\ cur' = next[cur] /\ prev' = prev
      /\ allocated' = allocated \ {cur}
      /\ in_use' = in_use /\ left' = left
      /\ next' = [next EXCEPT ![prev] = next[cur], ![cur] = NULL]
  BY DEF SweepMiddle, Uses, Free, Goto
<1>2. /\ allocated \subseteq Chunk /\ next \in Links /\ head \in Chunk \cup {NULL} /\ next' \in Links
  BY <1>1, TypeLists DEF GcInv, GcTypeOK, Links
<1>3. Live' = Live
  BY SweepMiddleInv
<1>4. {cur', prev'} \subseteq allocated' => prev' = cur' \/ next'[prev'] = cur'
  BY <1>1, <1>2 DEF Links
<1>5. ASSUME Sound(head, next)'
      PROVE  /\ {cur', prev'} \cap allocated' \subseteq R2
             /\ prev' = cur' /\ cur' \in allocated' => cur' = head'
             /\ R2 \cap in_use' \subseteq Live
             /\ \/ AtMostOne(R2 \ Live)
                \/ /\ cur' \in R2 \cup {NULL}
                   /\ AtMostOne((R2 \ Live) \ Reach(cur', next'))
  <2>1. Sound(head, next) /\ prev # cur /\ next[prev] = cur /\ cur \notin R2 /\ prev \in R2 /\ R = R2 \cup {cur}
    BY <1>5, MiddleWasSound DEF LeaveInv
  <2>2. IsList(head', next', R2) /\ R2 \subseteq allocated'
    BY <1>5, SoundLater
  <2>3. IsList(head, next, R)
    BY <1>2, <2>1, SoundNow
  <2>4. R \cap in_use \subseteq Live
    BY <1>1, <2>1 DEF LeaveInv, UsedInv
  <2>5. \/ AtMostOne(R \ Live)
        \/ AtMostOne((R \ Live) \ Reach(cur, next))
    BY <1>1, <2>1 DEF LeaveInv, LeftInv
  <2> HIDE DEF R2, R
  <2>6. next'[prev] = cur' /\ cur' \in R2 \cup {NULL} /\ cur' # prev
    <3>1. next'[prev] = next[cur]
      BY <1>1, <1>2, <2>1 DEF Links
    <3>2. next'[prev] \in R2 \cup {NULL} /\ next'[prev] # prev
      BY <2>1, <2>2, ListEnds
    <3> QED BY <1>1, <3>1, <3>2
  <2>7. NULL \notin allocated
    BY <1>2, GcAssumption
  <2>8. Reach(cur', next') = Reach(cur, next) \ {cur}
    <3> DEFINE T == Reach(cur, next)
    <3>1. /\ T \subseteq R /\ prev \notin T /\ IsList(next[cur], next, T \ {cur})
      <4>1. cur \in R /\ prev \in R
        BY <2>1
      <4> QED BY <1>2, <2>1, <2>3, <4>1, ReachFrom
    <3> HIDE DEF T
    <3>2. \A c \in T \ {cur} : next'[c] = next[c]
      BY <1>1, <1>2, <2>1, <3>1, <2>3, ListEnds DEF Links
    <3>3. IsList(cur', next', T \ {cur})
      BY <1>1, <3>1, <3>2, ListFrame
    <3>4. cur' \in Chunk \cup {NULL}
      BY <2>2, <2>6, ListEnds
    <3> QED BY <1>2, <3>3, <3>4, ListIsSound DEF T
  <2>9. AtMostOne(R2 \ Live) \/ AtMostOne((R2 \ Live) \ Reach(cur', next'))
    <3>1. R2 \ Live \subseteq R \ Live
      BY <2>1
    <3>2. (R2 \ Live) \ Reach(cur', next') \subseteq (R \ Live) \ Reach(cur, next)
      BY <2>1, <2>8
    <3> QED BY <2>5, <3>1, <3>2 DEF AtMostOne
  <2> QED BY <1>1, <2>1, <2>4, <2>6, <2>7, <2>9
<1>6. PlaceInv'
  BY <1>4, <1>5 DEF PlaceInv
<1>7. UsedInv'
  BY <1>1, <1>3, <1>5 DEF UsedInv
<1>8. LeftInv'
  BY <1>3, <1>5 DEF LeftInv
<1> QED BY <1>1, <1>6, <1>7, <1>8 DEF LeaveInv, AtMostOne

LEMMA LeaveHandler ==
    ASSUME GcInv, GcTypeOK', LeaveInv, Handler
    PROVE  LeaveInv'
<1> DEFINE old == Reach(head, next)
<1>1. PICK S \in SUBSET old :
          /\ IsList(head', next', S)
          /\ old \cap Live \subseteq S
          /\ allocated' = allocated \ (old \ S)
          /\ in_use' = (in_use \ old) \cup (Live \cap old)
          /\ lnext' = [c \in Chunk |-> IF c \in old \ S THEN NULL ELSE lnext[c]]
          /\ \A c \in S : next[c] \in S => next'[c] = next[c]
          /\ head \in S => head' = head
          /\ left' = S \ Live /\ \A c, d \in left' : c = d
  BY HandlerKeeps DEF GcInv
<1>2. Sound(head, next) /\ old \subseteq allocated /\ UNCHANGED <<ll, pc, cur, prev>>
  BY TypeLists, SoundNow, HandlerKeeps DEF GcInv, Handler, mainVars
<1>3. Live' = Live
  <2>1. IsList(ll, lnext, Live) /\ Live \subseteq allocated /\ Live \subseteq Chunk /\ Live' = Reach(ll, lnext)'
    BY LiveList
  <2> HIDE DEF old
  <2>2. Live \subseteq allocated' /\ \A c \in Live : lnext'[c] = lnext[c]
    BY <1>1, <2>1
  <2>3. IsList(ll', lnext', Live)
    BY <1>2, <2>1, <2>2, ListFrame
  <2> QED BY <2>1, <2>2, <2>3, SoundNext
<1> HIDE DEF old
<1>4. Reach(head, next)' = S /\ S \subseteq allocated'
  BY <1>1, <1>2, SoundNext
<1>5. AtMostOne(S \ Live) /\ AtMostOne(left')
  BY <1>1 DEF AtMostOne
<1>6. S \cap in_use' \subseteq Live
  BY <1>1
<1>7. ASSUME pc = "sweep"
      PROVE  /\ {cur, prev} \subseteq allocated' => prev = cur \/ next'[prev] = cur
             /\ {cur, prev} \cap allocated' \subseteq S
             /\ prev = cur /\ cur \in allocated' => cur = head'
  <2>1. /\ {cur, prev} \subseteq allocated => prev = cur \/ next[prev] = cur
        /\ {cur, prev} \cap allocated \subseteq old
        /\ prev = cur /\ cur \in allocated => cur = head
    BY <1>2, <1>7 DEF LeaveInv, PlaceInv, old
  <2> QED BY <1>1, <2>1
<1>8. PlaceInv'
  BY <1>2, <1>4, <1>7 DEF PlaceInv
<1>9. UsedInv' /\ LeftInv'
  BY <1>3, <1>4, <1>5, <1>6 DEF UsedInv, LeftInv
<1> QED BY <1>5, <1>8, <1>9 DEF LeaveInv

LEMMA LeaveStep == GcInv /\ LeaveInv /\ [Next]_vars => LeaveInv'
<1> SUFFICES ASSUME GcInv, LeaveInv, [Next]_vars PROVE LeaveInv'
  OBVIOUS
<1> DEFINE R == Reach(head, next)
<1>1. AtMostOne(left) /\ PlaceInv /\ UsedInv /\ LeftInv /\ AtMostOne({})
  BY DEF LeaveInv, AtMostOne
<1>2. CASE UNCHANGED <<heapVars, listVars, mainVars, left>>
  BY <1>1, <1>2 DEF heapVars, listVars, mainVars, LeaveInv, AtMostOne, PlaceInv, UsedInv, LeftInv,
              Sound, Live, Nodes, Reach
<1> SUFFICES ASSUME Next PROVE LeaveInv'
  BY <1>2 DEF vars
<1>3. GcTypeOK'
  BY TypeStep DEF GcInv
<1>4. ASSUME NEW why, Fails(why) PROVE LeaveInv'
  BY <1>2, <1>4 DEF Fails
<1>5. head \in Chunk \cup {NULL} /\ next \in Links /\ NULL \notin allocated
  BY TypeLists, GcAssumption DEF GcInv
<1>6. ASSUME Sound(head, next)
      PROVE  /\ IsList(head, next, R) /\ head \in R \cup {NULL}
             /\ \A c \in R : next[c] \in R \cup {NULL} /\ next[c] # c
  BY <1>5, <1>6, SoundNow, ListEnds
\* A transaction ends: nothing has been collected, or the collection begins.
<1>7. ASSUME EndTransaction(head') PROVE LeaveInv'
  <2>1. left' = {} /\ (pc' = "idle" \/ (pc' = "reset" /\ cur' = head'))
    BY <1>7 DEF EndTransaction, Goto
  <2>2. ASSUME Sound(head, next)', pc' = "reset"
        PROVE  \/ Reach(head, next)' \cap in_use' \subseteq Live'
               \/ /\ cur' \in Reach(head, next)'
                  /\ Reach(head, next)' \cap in_use' \subseteq Live' \cup Reach(cur, next)'
    <3>1. IsList(head', next', Reach(head, next)') /\ Reach(head, next)' = Reach(cur, next)'
      BY <1>3, <2>1, <2>2, SoundLater
    <3>2. head' = NULL => Reach(head, next)' = {}
      BY <3>1, ListEnds
    <3>3. head' # NULL => head' \in Reach(head, next)'
      BY <3>1, ListEnds
    <3> QED BY <2>1, <2>2, <3>1, <3>2, <3>3
  <2> QED BY <1>1, <2>1, <2>2 DEF LeaveInv, AtMostOne, PlaceInv, UsedInv, LeftInv
\* Nothing of the collector's lists changes, and no collection is under way.
<1>8. ASSUME left' = left, pc' \notin {"reset", "mark", "sweep"} PROVE LeaveInv'
  BY <1>1, <1>8 DEF LeaveInv, AtMostOne, PlaceInv, UsedInv, LeftInv
\* A step of the collection that leaves both lists alone.
<1>9. ASSUME UNCHANGED <<head, next, allocated, listVars>>
      PROVE  /\ Sound(head, next)' = Sound(head, next) /\ Reach(head, next)' = R
             /\ Live' = Live /\ Reach(cur, next)' = Reach(cur', next)
  BY <1>9 DEF Sound, Live, Nodes, listVars
<1>10. CASE Handler
  BY <1>3, <1>10, LeaveHandler
<1>11. CASE HandlerFails
  BY <1>4, <1>11 DEF HandlerFails
<1>12. ASSUME NEW c \in Chunk, NEW v \in Value, Add(c, v) PROVE LeaveInv'
  BY <1>7, <1>12 DEF Add
<1>13. ASSUME NEW v \in Value, DelFirst(v) \/ DelNothing(v) PROVE LeaveInv'
  BY <1>7, <1>13 DEF DelFirst, DelNothing, heapVars
<1>14. ASSUME NEW v \in Value, DelFind(v) PROVE LeaveInv'
  BY <1>8, <1>14 DEF DelFind, Goto
<1>15. CASE BadTransaction \/ Unlink \/ PrintText
  BY <1>7, <1>15 DEF BadTransaction, Unlink, PrintText, heapVars
<1>16. ASSUME NEW c \in Chunk, PrintMalloc(c) PROVE LeaveInv'
  BY <1>8, <1>16 DEF PrintMalloc, Goto
<1>17. CASE PrintLink \/ PrintStore \/ PrintMark
  BY <1>8, <1>17 DEF PrintLink, PrintStore, PrintMark, Goto
<1>18. CASE ResetOne
  <2>1. /\ pc = "reset" /\ cur \in allocated /\ in_use' = in_use \ {cur} /\ left' = left
        /\ pc' = "reset" /\ cur' = next[cur] /\ UNCHANGED <<head, next, allocated, listVars>>
    BY <1>18 DEF ResetOne, Uses, Goto
  <2>2. ASSUME Sound(head, next), cur \in R, R \cap in_use \subseteq Live \cup Reach(cur, next)
        PROVE  \/ R \cap in_use' \subseteq Live
               \/ cur' \in R /\ R \cap in_use' \subseteq Live \cup Reach(cur', next)
    <3>1. Reach(cur', next) = Reach(cur, next) \ {cur}
      <4>1. IsList(head, next, R) /\ cur \in R /\ cur' = next[cur]
        BY <1>6, <2>1, <2>2
      <4> HIDE DEF R
      <4>2. Reach(next[cur], next) = Reach(cur, next) \ {cur}
        BY <1>5, <4>1, ReachFrom
      <4> QED BY <4>1, <4>2
    <3>2. R \cap in_use' \subseteq Live \cup Reach(cur', next)
      BY <2>1, <2>2, <3>1
    <3>3. cur' = NULL => Reach(cur', next) = {}
      BY <1>5, ReachNothing
    <3>4. cur' \in R \cup {NULL}
      BY <1>6, <2>1, <2>2
    <3> QED BY <3>2, <3>3, <3>4
  <2>3. UsedInv'
    <3>1. ASSUME Sound(head, next)
          PROVE  \/ R \cap in_use' \subseteq Live
                 \/ cur' \in R /\ R \cap in_use' \subseteq Live \cup Reach(cur', next)
      <4>1. \/ R \cap in_use \subseteq Live
            \/ cur \in R /\ R \cap in_use \subseteq Live \cup Reach(cur, next)
        BY <1>1, <2>1, <3>1 DEF UsedInv
      <4> QED BY <2>1, <2>2, <3>1, <4>1
    <3> QED BY <1>9, <2>1, <3>1 DEF UsedInv
  <2> QED BY <1>1, <2>1, <2>3 DEF LeaveInv, AtMostOne, PlaceInv, LeftInv
<1>19. CASE ResetDone
  <2>1. /\ pc = "reset" /\ cur = NULL /\ in_use' = in_use /\ left' = left
        /\ pc' = "mark" /\ UNCHANGED <<head, next, allocated, listVars>>
    BY <1>19 DEF ResetDone, Goto, heapVars
  <2>2. Sound(head, next) => R \cap in_use \subseteq Live
    <3> SUFFICES ASSUME Sound(head, next) PROVE R \cap in_use \subseteq Live
      OBVIOUS
    <3>1. NULL \notin R
      BY <1>5, SoundNow
    <3> QED BY <1>1, <2>1, <3>1 DEF UsedInv
  <2>3. UsedInv'
    BY <1>9, <2>1, <2>2 DEF UsedInv
  <2> QED BY <1>1, <2>1, <2>3 DEF LeaveInv, AtMostOne, PlaceInv, LeftInv
<1>20. CASE MarkOne
  <2>1. /\ pc = "mark" /\ cur \in allocated /\ in_use' \subseteq in_use \cup {cur} /\ left' = left
        /\ pc' = "mark" /\ UNCHANGED <<head, next, allocated, listVars>>
    BY <1>20 DEF MarkOne, Uses, Goto
  <2>2. cur \in Live
    BY <1>5, <2>1 DEF GcInv, MarkInv
  <2>3. UsedInv'
    <3>1. Sound(head, next) => R \cap in_use' \subseteq Live
      BY <1>1, <2>1, <2>2 DEF UsedInv
    <3> QED BY <1>9, <2>1, <3>1 DEF UsedInv
  <2> QED BY <1>1, <2>1, <2>3 DEF LeaveInv, AtMostOne, PlaceInv, LeftInv
<1>21. CASE MarkDone
  <2>1. /\ pc = "mark" /\ in_use' = in_use /\ left' = left
        /\ pc' = "sweep" /\ cur' = head /\ prev' = head /\ UNCHANGED <<head, next, allocated, listVars>>
    BY <1>21 DEF MarkDone, Goto, heapVars
  <2>2. UsedInv'
    BY <1>1, <1>9, <2>1 DEF UsedInv
  <2>3. Sound(head, next) => {head} \cap allocated \subseteq R
    BY <1>5, <1>6
  <2>4. PlaceInv'
    BY <1>9, <2>1, <2>3 DEF PlaceInv
  <2>5. Reach(cur, next)' = R /\ AtMostOne((R \ Live) \ R)
    BY <1>9, <2>1 DEF AtMostOne
  <2>6. LeftInv'
    BY <1>6, <1>9, <2>1, <2>5 DEF LeftInv
  <2> QED BY <1>1, <2>1, <2>2, <2>4, <2>6 DEF LeaveInv, AtMostOne
<1>22. CASE SweepKeep
  <2>1. /\ pc = "sweep" /\ cur \in allocated /\ cur \in in_use /\ in_use' = in_use /\ left' = left
        /\ pc' = "sweep" /\ cur' = next[cur] /\ prev' = cur
        /\ UNCHANGED <<head, next, allocated, listVars>>
    BY <1>22 DEF SweepKeep, Uses, Goto, heapVars
  <2>2. UsedInv'
    BY <1>1, <1>9, <2>1 DEF UsedInv
  <2>3. ASSUME Sound(head, next) PROVE cur \in R /\ cur \in Live /\ cur' \in R \cup {NULL} /\ cur' # cur
    <3>1. cur \in R
      BY <1>1, <2>1, <2>3 DEF PlaceInv
    <3>2. cur \in Live
      BY <1>1, <2>1, <2>3, <3>1 DEF UsedInv
    <3> QED BY <1>6, <2>1, <2>3, <3>1, <3>2
  <2>4. PlaceInv'
    BY <1>5, <1>9, <2>1, <2>3 DEF PlaceInv
  <2>5. ASSUME Sound(head, next)
        PROVE  AtMostOne(R \ Live) \/ AtMostOne((R \ Live) \ Reach(cur', next))
    <3>1. Reach(cur', next) = Reach(cur, next) \ {cur}
      <4>1. IsList(head, next, R) /\ cur \in R /\ cur' = next[cur]
        BY <1>6, <2>1, <2>3, <2>5
      <4> HIDE DEF R
      <4>2. Reach(next[cur], next) = Reach(cur, next) \ {cur}
        BY <1>5, <4>1, ReachFrom
      <4> QED BY <4>1, <4>2
    <3>2. (R \ Live) \ Reach(cur', next) = (R \ Live) \ Reach(cur, next)
      BY <2>3, <2>5, <3>1
    <3> QED BY <1>1, <2>1, <2>5, <3>2 DEF LeftInv
  <2>6. LeftInv'
    BY <1>9, <2>1, <2>3, <2>5 DEF LeftInv
  <2> QED BY <1>1, <2>1, <2>2, <2>4, <2>6 DEF LeaveInv, AtMostOne
<1>23. CASE SweepHead
  BY <1>3, <1>23, LeaveSweepHead
<1>24. CASE SweepMiddle
  BY <1>3, <1>24, LeaveSweepMiddle
<1>25. CASE SweepDone
  <2>1. /\ pc = "sweep" /\ cur = NULL /\ Sound(head, next) /\ pc' = "idle" /\ left' = R \ Live
    BY <1>25, LiveIs DEF SweepDone, Goto
  <2>2. Reach(cur, next) = {}
    BY <1>5, <2>1, ReachNothing
  <2>3. AtMostOne(R \ Live)
    BY <1>1, <2>1, <2>2 DEF LeftInv, AtMostOne
  <2> QED BY <2>1, <2>3 DEF LeaveInv, AtMostOne, PlaceInv, UsedInv, LeftInv
<1>26. CASE MainFaults \/ MainCrashes \/ EndOfFile
  BY <1>4, <1>26 DEF MainFaults, MainCrashes, EndOfFile
<1> QED BY <1>10, <1>11, <1>12, <1>13, <1>14, <1>15, <1>16, <1>17, <1>18, <1>19, <1>20, <1>21,
           <1>22, <1>23, <1>24, <1>25, <1>26 DEF Next, Main

(* However many chunks are unused, however often SIGUSR1 arrives, and whatever it
   interrupts: a collection that comes to its end leaves at most one of them. *)
THEOREM OneUnusedChunkStays == Spec => []SweepLeavesAtMostOne
<1>1. Init => LeaveInv
  BY DEF Init, LeaveInv, AtMostOne, PlaceInv, UsedInv, LeftInv
<1>2. GcInv /\ LeaveInv => SweepLeavesAtMostOne
  <2> SUFFICES ASSUME GcInv, LeaveInv PROVE Cardinality(left) <= 1
    BY DEF SweepLeavesAtMostOne
  <2>1. \A c, d \in left : c = d
    BY DEF LeaveInv, AtMostOne
  <2>2. CASE left = {}
    BY <2>2, FS_EmptySet
  <2>3. ASSUME NEW c \in left PROVE Cardinality(left) = 1
    <3>1. left = {c}
      BY <2>1
    <3> QED BY <3>1, FS_Singleton
  <2> QED BY <2>2, <2>3, FS_EmptySet
<1> QED BY <1>1, <1>2, InvInit, InvStep, LeaveStep, PTL DEF Spec
=============================================================================
