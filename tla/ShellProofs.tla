---------------------------- MODULE ShellProofs -----------------------------
(***************************************************************************)
(* What holds of the shell's tree for any paths and any number of objects: *)
(* an object stands in its parent's list and in no other, names in a       *)
(* directory differ, and a command loses at most what it took away.        *)
(***************************************************************************)
EXTENDS Shell, FiniteSetTheorems, SequenceTheorems, WellFoundedInduction, TLAPS

-----------------------------------------------------------------------------
(* Induction, and functions that are defined by it.                          *)

LEMMA NatSets ==
    ASSUME NEW S, 0 \in S, \A n \in Nat : n \in S => n + 1 \in S
    PROVE  Nat \subseteq S
<1> DEFINE less == {ss \in Nat \X Nat : ss[1] < ss[2]}
           T == Nat \ S
<1> SUFFICES ASSUME T # {} PROVE FALSE
  OBVIOUS
<1>1. IsWellFoundedOn(less, Nat)
  BY NatLessThanWellFounded, Zenon DEF OpToRel
<1>2. PICK m \in T : \A n \in T : ~(<<n, m>> \in less)
  BY <1>1, WFMin
<1>3. m - 1 \in Nat /\ m - 1 < m
  BY <1>2
<1>4. m - 1 \notin T
  BY <1>2, <1>3
<1> QED BY <1>2, <1>3, <1>4

(* f lists what N applications of F to a lead through.                       *)
Iterates(f, N, a, F) == f[0] = a /\ \A n \in 1 .. N : f[n] = F[n][f[n - 1]]

LEMMA IterationExists ==
    ASSUME NEW T, NEW a \in T, NEW N \in Nat, NEW F \in [1 .. N -> [T -> T]]
    PROVE  \E f \in [0 .. N -> T] : Iterates(f, N, a, F)
<1> DEFINE S == {k \in Nat : k <= N => \E f \in [0 .. k -> T] : Iterates(f, k, a, F)}
<1>1. 0 \in S
  <2>1. [i \in 0 .. 0 |-> a] \in [0 .. 0 -> T] /\ Iterates([i \in 0 .. 0 |-> a], 0, a, F)
    BY DEF Iterates
  <2> QED BY <2>1
<1>2. ASSUME NEW k \in Nat, k \in S, k + 1 <= N PROVE \E f \in [0 .. k + 1 -> T] : Iterates(f, k + 1, a, F)
  <2>1. PICK g \in [0 .. k -> T] : Iterates(g, k, a, F)
    BY <1>2
  <2> DEFINE h == [i \in 0 .. k + 1 |-> IF i = k + 1 THEN F[k + 1][g[k]] ELSE g[i]]
  <2>2. F[k + 1][g[k]] \in T
    <3>1. g[k] \in T /\ k + 1 \in 1 .. N
      BY <1>2, <2>1
    <3> QED BY <3>1
  <2>3. \A i \in 0 .. k + 1 : h[i] = IF i = k + 1 THEN F[k + 1][g[k]] ELSE g[i]
    BY Zenon
  <2>4. \A i \in 0 .. k + 1 : h[i] \in T
    <3>1. ASSUME NEW i \in 0 .. k + 1, i # k + 1 PROVE g[i] \in T
      <4>1. i \in 0 .. k
        BY <3>1
      <4> QED BY <4>1
    <3> HIDE DEF h
    <3> QED BY <2>2, <2>3, <3>1
  <2>5. h \in [0 .. k + 1 -> T]
    BY <2>4
  <2> HIDE DEF h
  <2>6. h[0] = a
    BY <2>1, <2>3 DEF Iterates
  <2>7. ASSUME NEW n \in 1 .. k + 1 PROVE h[n] = F[n][h[n - 1]]
    <3>1. CASE n = k + 1
      <4>1. h[n] = F[k + 1][g[k]] /\ n - 1 = k /\ h[k] = g[k]
        BY <2>3, <3>1
      <4> QED BY <3>1, <4>1
    <3>2. CASE n \in 1 .. k
      <4>1. h[n] = g[n] /\ h[n - 1] = g[n - 1]
        BY <2>3, <3>2
      <4> QED BY <3>2, <4>1, <2>1 DEF Iterates
    <3> QED BY <3>1, <3>2
  <2> QED BY <2>5, <2>6, <2>7 DEF Iterates
<1>3. Nat \subseteq S
  <2>1. \A k \in Nat : k \in S => k + 1 \in S
    BY <1>2
  <2> HIDE DEF S
  <2> QED BY <1>1, <2>1, NatSets
<1> QED BY <1>3

(* What holds at first and is kept at each step holds at each.                *)
LEMMA Steps ==
    ASSUME NEW N \in Nat, NEW S, 0 \in S, \A n \in 1 .. N : n - 1 \in S => n \in S
    PROVE  0 .. N \subseteq S
<1> DEFINE R == {k \in Nat : k <= N => k \in S}
<1>1. 0 \in R
  OBVIOUS
<1>2. ASSUME NEW k \in Nat, k \in R PROVE k + 1 \in R
  <2>1. CASE k + 1 <= N
    <3>1. k + 1 \in 1 .. N /\ (k + 1) - 1 = k /\ k \in S
      BY <1>2, <2>1
    <3> QED BY <3>1
  <2> QED BY <2>1
<1>3. Nat \subseteq R
  <2> HIDE DEF R
  <2> QED BY <1>1, <1>2, NatSets
<1> QED BY <1>3

-----------------------------------------------------------------------------
(* Sequences.                                                                *)

LEMMA LeastIndex ==
    ASSUME NEW I \in SUBSET Nat, I # {}
    PROVE  Min(I) \in I /\ \A n \in I : Min(I) <= n
<1> DEFINE less == {ss \in Nat \X Nat : ss[1] < ss[2]}
<1>1. IsWellFoundedOn(less, Nat)
  BY NatLessThanWellFounded, Zenon DEF OpToRel
<1>2. PICK m \in I : \A n \in I : ~(<<n, m>> \in less)
  BY <1>1, WFMin
<1>3. \A a, b \in Nat : a < b => <<a, b>> \in less
  OBVIOUS
<1> HIDE DEF less
<1>4. ASSUME NEW n \in I PROVE m <= n
  <2>1. n \in Nat /\ m \in Nat
    OBVIOUS
  <2>2. ~(n < m)
    BY <1>2, <1>3, <2>1, Zenon
  <2> QED BY <2>1, <2>2
<1> QED BY <1>4 DEF Min

Distinct(s) == \A i, j \in 1 .. Len(s) : s[i] = s[j] => i = j

LEMMA RemoveAtIs ==
    ASSUME NEW S, NEW s \in Seq(S), NEW i \in 1 .. Len(s)
    PROVE  /\ RemoveAt(s, i) \in Seq(S) /\ Len(RemoveAt(s, i)) = Len(s) - 1
           /\ \A k \in 1 .. Len(s) - 1 : RemoveAt(s, i)[k] = IF k < i THEN s[k] ELSE s[k + 1]
<1> DEFINE n == Len(s)
           front == SubSeq(s, 1, i - 1)
           back == SubSeq(s, i + 1, n)
           r == front \o back
<1>1. n \in Nat /\ \A k \in 1 .. n : s[k] \in S
  BY LenProperties, ElementOfSeq
<1>2. front \in Seq(S) /\ Len(front) = i - 1 /\ \A k \in 1 .. i - 1 : front[k] = s[k]
  <2>1. \A k \in 1 .. i - 1 : s[k] \in S
    BY <1>1
  <2>2. front \in Seq(S) /\ Len(front) = (IF 1 <= i - 1 THEN i - 1 - 1 + 1 ELSE 0)
        /\ \A k \in 1 .. i - 1 - 1 + 1 : front[k] = s[1 + k - 1]
    BY <2>1, SubSeqProperties
  <2> HIDE DEF front
  <2> QED BY <2>2, <1>1
<1>3. back \in Seq(S) /\ Len(back) = n - i /\ \A k \in 1 .. n - i : back[k] = s[i + k]
  <2>1. \A k \in i + 1 .. n : s[k] \in S
    BY <1>1
  <2>2. n \in Int /\ i + 1 \in Int
    BY <1>1
  <2>3. back \in Seq(S) /\ Len(back) = (IF i + 1 <= n THEN n - (i + 1) + 1 ELSE 0)
        /\ \A k \in 1 .. n - (i + 1) + 1 : back[k] = s[i + 1 + k - 1]
    <3> HIDE DEF n
    <3> QED BY <2>1, <2>2, SubSeqProperties
  <2> HIDE DEF back
  <2> QED BY <1>1, <2>3
<1> HIDE DEF front, back
<1>4. r \in Seq(S) /\ Len(r) = Len(front) + Len(back)
      /\ \A k \in 1 .. Len(front) + Len(back) : r[k] = IF k <= Len(front) THEN front[k] ELSE back[k - Len(front)]
  BY <1>2, <1>3, ConcatProperties
<1>5. Len(front) + Len(back) = n - 1
  BY <1>1, <1>2, <1>3
<1>6. \A k \in 1 .. n - 1 : r[k] = IF k < i THEN s[k] ELSE s[k + 1]
  <2> HIDE DEF r
  <2>1. ASSUME NEW k \in 1 .. n - 1, k < i PROVE r[k] = s[k]
    BY <1>1, <1>2, <1>4, <1>5, <2>1
  <2>2. ASSUME NEW k \in 1 .. n - 1, k >= i PROVE r[k] = s[k + 1]
    <3>1. k - (i - 1) \in 1 .. n - i /\ i + (k - (i - 1)) = k + 1
      BY <1>1, <2>2
    <3>2. r[k] = back[k - (i - 1)]
      BY <1>1, <1>2, <1>4, <1>5, <2>2
    <3> QED BY <1>3, <3>1, <3>2
  <2> QED BY <2>1, <2>2
<1>7. RemoveAt(s, i) = r
  BY DEF RemoveAt, front, back
<1> HIDE DEF r
<1> QED BY <1>4, <1>5, <1>6, <1>7

LEMMA RemoveFirstKeeps ==
    ASSUME NEW S, NEW s \in Seq(S), NEW e
    PROVE  /\ RemoveFirst(s, e) \in Seq(S)
           /\ ToSet(RemoveFirst(s, e)) \subseteq ToSet(s)
           /\ ToSet(s) \ {e} \subseteq ToSet(RemoveFirst(s, e))
           /\ Distinct(s) => /\ Distinct(RemoveFirst(s, e))
                             /\ ToSet(RemoveFirst(s, e)) = ToSet(s) \ {e}
<1> DEFINE r == RemoveFirst(s, e)
           I == {k \in 1 .. Len(s) : s[k] = e}
           m == Min(I)
<1>1. CASE I = {}
  <2>1. r = s /\ e \notin ToSet(s)
    BY <1>1 DEF RemoveFirst, ToSet
  <2> QED BY <2>1
<1>2. CASE I # {}
  <2>1. m \in I
    <3>1. I \in SUBSET Nat
      OBVIOUS
    <3> HIDE DEF I
    <3> QED BY <1>2, <3>1, LeastIndex
  <2>2. r = RemoveAt(s, m)
    BY <1>2 DEF RemoveFirst, SelectInSeq
  <2> HIDE DEF m, r
  <2>3. /\ r \in Seq(S) /\ Len(r) = Len(s) - 1
        /\ \A k \in 1 .. Len(s) - 1 : r[k] = IF k < m THEN s[k] ELSE s[k + 1]
    BY <2>1, <2>2, RemoveAtIs
  <2>4. ToSet(r) \subseteq ToSet(s)
    BY <2>1, <2>3 DEF ToSet
  <2>5. ASSUME NEW i \in 1 .. Len(s), i # m PROVE s[i] \in ToSet(r)
    <3>1. CASE i < m
      <4>1. i \in 1 .. Len(s) - 1 /\ r[i] = s[i]
        BY <2>1, <2>3, <3>1
      <4> QED BY <4>1, <2>3 DEF ToSet
    <3>2. CASE i > m
      <4>1. i - 1 \in 1 .. Len(s) - 1 /\ r[i - 1] = s[i]
        BY <2>1, <2>3, <3>2
      <4> QED BY <4>1, <2>3 DEF ToSet
    <3> QED BY <2>1, <2>5, <3>1, <3>2
  <2>6. ToSet(s) \ {e} \subseteq ToSet(r)
    BY <2>1, <2>5 DEF ToSet
  <2>7. ASSUME Distinct(s) PROVE Distinct(r) /\ e \notin ToSet(r)
    <3>1. e \notin ToSet(r)
      BY <2>1, <2>3, <2>7 DEF ToSet, Distinct
    <3>2. ASSUME NEW i \in 1 .. Len(r), NEW j \in 1 .. Len(r), r[i] = r[j] PROVE i = j
      <4> DEFINE p(k) == IF k < m THEN k ELSE k + 1
      <4>1. p(i) \in 1 .. Len(s) /\ p(j) \in 1 .. Len(s) /\ s[p(i)] = s[p(j)]
        BY <2>1, <2>3, <3>2
      <4>2. p(i) = p(j)
        BY <4>1, <2>7 DEF Distinct
      <4> QED BY <4>2, <2>1, <2>3
    <3> QED BY <3>1, <3>2 DEF Distinct
  <2> QED BY <2>3, <2>4, <2>6, <2>7 DEF r
<1> QED BY <1>1, <1>2

LEMMA RemoveFirstLength ==
    ASSUME NEW S, NEW s \in Seq(S), NEW e
    PROVE  Len(RemoveFirst(s, e)) >= Len(s) - 1
<1> DEFINE r == RemoveFirst(s, e)
           I == {k \in 1 .. Len(s) : s[k] = e}
           m == Min(I)
<1>1. CASE I = {}
  <2>1. r = s /\ Len(s) \in Nat
    BY <1>1 DEF RemoveFirst
  <2> QED BY <2>1
<1>2. CASE I # {}
  <2>1. m \in I
    <3>1. I \in SUBSET Nat
      OBVIOUS
    <3> HIDE DEF I
    <3> QED BY <1>2, <3>1, LeastIndex
  <2>2. r = RemoveAt(s, m)
    BY <1>2 DEF RemoveFirst, SelectInSeq
  <2> HIDE DEF m, r
  <2>3. Len(r) = Len(s) - 1 /\ Len(s) \in Nat
    BY <2>1, <2>2, RemoveAtIs
  <2> QED BY <2>3 DEF r
<1> QED BY <1>1, <1>2

LEMMA AppendKeeps ==
    ASSUME NEW S, NEW s \in Seq(S), NEW e \in S
    PROVE  /\ Append(s, e) \in Seq(S)
           /\ ToSet(Append(s, e)) = ToSet(s) \cup {e}
           /\ Distinct(s) /\ e \notin ToSet(s) => Distinct(Append(s, e))
<1>1. Append(s, e) \in Seq(S) /\ Len(Append(s, e)) = Len(s) + 1
      /\ \A i \in 1 .. Len(s) : Append(s, e)[i] = s[i]
      /\ Append(s, e)[Len(s) + 1] = e
  OBVIOUS
<1>2. ToSet(Append(s, e)) = ToSet(s) \cup {e}
  BY <1>1 DEF ToSet
<1>3. Distinct(s) /\ e \notin ToSet(s) => Distinct(Append(s, e))
  BY <1>1 DEF Distinct, ToSet
<1> QED BY <1>1, <1>2, <1>3

LEMMA JoinKeeps ==
    ASSUME NEW S, NEW s \in Seq(S), NEW r \in Seq(S)
    PROVE  /\ s \o r \in Seq(S) /\ Len(s \o r) = Len(s) + Len(r)
           /\ ToSet(s \o r) = ToSet(s) \cup ToSet(r)
<1>1. s \o r \in Seq(S) /\ Len(s \o r) = Len(s) + Len(r)
      /\ \A j \in 1 .. Len(s) : (s \o r)[j] = s[j]
      /\ \A i \in 1 .. Len(r) : (s \o r)[Len(s) + i] = r[i]
  OBVIOUS
<1>2. ToSet(s \o r) \subseteq ToSet(s) \cup ToSet(r)
  <2>1. ASSUME NEW i \in 1 .. Len(s \o r) PROVE (s \o r)[i] \in ToSet(s) \cup ToSet(r)
    <3>1. CASE i <= Len(s)
      BY <3>1, <1>1 DEF ToSet
    <3>2. CASE i > Len(s)
      <4>1. i - Len(s) \in 1 .. Len(r) /\ Len(s) + (i - Len(s)) = i
        BY <3>2, <1>1
      <4> QED BY <4>1, <1>1 DEF ToSet
    <3> QED BY <3>1, <3>2, <1>1
  <2> QED BY <2>1, <1>1 DEF ToSet
<1>3. ToSet(s) \subseteq ToSet(s \o r)
  BY <1>1 DEF ToSet
<1>4. ToSet(r) \subseteq ToSet(s \o r)
  <2>1. ASSUME NEW i \in 1 .. Len(r) PROVE r[i] \in ToSet(s \o r)
    <3>1. Len(s) + i \in 1 .. Len(s \o r)
      BY <1>1
    <3> QED BY <3>1, <1>1 DEF ToSet
  <2> QED BY <2>1 DEF ToSet
<1> QED BY <1>1, <1>2, <1>3, <1>4

LEMMA JoinAt ==
    ASSUME NEW S, NEW s \in Seq(S), NEW r \in Seq(S), NEW n \in Nat \ {0}, n <= Len(s) + Len(r)
    PROVE  /\ n - Len(s) < 1 => (s \o r)[n] \in ToSet(s)
           /\ n - Len(s) >= 1 => (s \o r)[n] \in ToSet(r) /\ n - Len(s) \in 1 .. Len(r)
<1>1. Len(s) \in Nat /\ Len(r) \in Nat
      /\ \A j \in 1 .. Len(s) : (s \o r)[j] = s[j]
      /\ \A i \in 1 .. Len(r) : (s \o r)[Len(s) + i] = r[i]
  OBVIOUS
<1>2. CASE n - Len(s) < 1
  <2>1. n \in 1 .. Len(s)
    BY <1>1, <1>2
  <2> QED BY <1>1, <1>2, <2>1 DEF ToSet
<1>3. CASE n - Len(s) >= 1
  <2>1. n - Len(s) \in 1 .. Len(r) /\ Len(s) + (n - Len(s)) = n
    BY <1>1, <1>3
  <2>2. (s \o r)[n] = r[n - Len(s)]
    BY <1>1, <2>1
  <2> QED BY <1>1, <1>3, <2>1, <2>2 DEF ToSet
<1> QED BY <1>1, <1>2, <1>3

-----------------------------------------------------------------------------
(* Trees, and what the functions of Directory.java and File.java do to one.  *)

(* The provers do not know that these two are strings.                       *)
Word == STRING \cup {"/", ""}

DirsOf(t) == {o \in DOMAIN t : t[o].kind = "dir"}

Obj(S, D) ==
    [kind : {"dir", "file"}, name : Word, parent : D \cup {NULL}, dirs : Seq(D), files : Seq(S \ D)]

Tree(t) ==
    /\ \E n \in Nat : DOMAIN t = 0 .. n
    /\ t \in [DOMAIN t -> Obj(DOMAIN t, DirsOf(t))]
    /\ root \in DirsOf(t)
    /\ \A o \in DOMAIN t : t[o].kind = "file" => t[o].dirs = <<>> /\ t[o].files = <<>>

LEMMA TreeParts ==
    ASSUME NEW t, Tree(t), NEW o \in DOMAIN t
    PROVE  /\ o \in Nat /\ o # NULL /\ NULL \notin DOMAIN t
           /\ t[o].kind \in {"dir", "file"} /\ t[o].name \in Word
           /\ t[o].parent \in DirsOf(t) \cup {NULL}
           /\ t[o].dirs \in Seq(DirsOf(t)) /\ t[o].files \in Seq(DOMAIN t \ DirsOf(t))
           /\ t[o] = [kind |-> t[o].kind, name |-> t[o].name, parent |-> t[o].parent,
                      dirs |-> t[o].dirs, files |-> t[o].files]
<1>1. o \in Nat /\ o # NULL /\ NULL \notin DOMAIN t
  BY DEF Tree, NULL
<1>2. t[o] \in Obj(DOMAIN t, DirsOf(t))
  BY DEF Tree
<1> QED BY <1>1, <1>2 DEF Obj

(* A tree given object by object.                                            *)
LEMMA TreeFrom ==
    ASSUME NEW t, Tree(t), NEW u, DOMAIN u = DOMAIN t, u = [x \in DOMAIN t |-> u[x]],
           \A x \in DOMAIN t :
               /\ u[x] \in [kind : {t[x].kind}, name : Word, parent : DirsOf(t) \cup {NULL},
                            dirs : Seq(DirsOf(t)), files : Seq(DOMAIN t \ DirsOf(t))]
               /\ t[x].kind = "file" => u[x].dirs = <<>> /\ u[x].files = <<>>
    PROVE  Tree(u) /\ DirsOf(u) = DirsOf(t)
<1>1. \A x \in DOMAIN t : u[x].kind = t[x].kind /\ t[x].kind \in {"dir", "file"}
  BY TreeParts
<1>2. DirsOf(u) = DirsOf(t)
  BY <1>1 DEF DirsOf
<1>3. \A x \in DOMAIN t : u[x] \in Obj(DOMAIN t, DirsOf(t))
  BY <1>1 DEF Obj
<1>4. u \in [DOMAIN u -> Obj(DOMAIN u, DirsOf(u))]
  BY <1>2, <1>3
<1> QED BY <1>1, <1>2, <1>4 DEF Tree

LEMMA AddEffect ==
    ASSUME NEW t, Tree(t), NEW o \in DOMAIN t, NEW p \in DirsOf(t)
    PROVE  LET u == addToParent(t, o, p)
           IN  /\ Tree(u) /\ DOMAIN u = DOMAIN t /\ DirsOf(u) = DirsOf(t)
               /\ \A x \in DOMAIN t :
                     /\ u[x].kind = t[x].kind /\ u[x].name = t[x].name
                     /\ u[x].parent = IF x = o THEN p ELSE t[x].parent
                     /\ u[x].dirs = IF x = p /\ t[o].kind = "dir" THEN Append(t[x].dirs, o) ELSE t[x].dirs
                     /\ u[x].files = IF x = p /\ t[o].kind = "file" THEN Append(t[x].files, o) ELSE t[x].files
<1> DEFINE u == addToParent(t, o, p)
           ds == [x \in DOMAIN t |-> IF x = p /\ t[o].kind = "dir" THEN Append(t[x].dirs, o) ELSE t[x].dirs]
           fs == [x \in DOMAIN t |-> IF x = p /\ t[o].kind = "file" THEN Append(t[x].files, o) ELSE t[x].files]
           pa == [x \in DOMAIN t |-> IF x = o THEN p ELSE t[x].parent]
<1>1. p \in DOMAIN t /\ t = [x \in DOMAIN t |-> t[x]]
  BY DEF DirsOf, Tree
<1>2. DOMAIN u = DOMAIN t /\ u = [x \in DOMAIN t |-> u[x]]
  BY <1>1 DEF addToParent
<1>3. ASSUME NEW x \in DOMAIN t
      PROVE  u[x] = [kind |-> t[x].kind, name |-> t[x].name, parent |-> pa[x], dirs |-> ds[x], files |-> fs[x]]
  <2>1. x \in DOMAIN t /\ o \in DOMAIN t /\ p \in DOMAIN t
    BY <1>1
  <2>2. t[x] = [kind |-> t[x].kind, name |-> t[x].name, parent |-> t[x].parent,
                dirs |-> t[x].dirs, files |-> t[x].files]
    BY TreeParts
  <2>3. CASE x = p /\ x = o
    <3>1. u = [t EXCEPT ![p] = [@ EXCEPT !.parent = p, !.dirs = IF t[p].kind = "dir" THEN Append(t[p].dirs, p) ELSE t[p].dirs,
                                         !.files = IF t[p].kind = "file" THEN Append(t[p].files, p) ELSE t[p].files]]
      BY <2>1, <2>3, Zenon DEF addToParent
    <3>2. u[p] = [[[t[p] EXCEPT !.parent = p] EXCEPT
                       !.dirs = IF t[p].kind = "dir" THEN Append(t[p].dirs, p) ELSE t[p].dirs] EXCEPT
                       !.files = IF t[p].kind = "file" THEN Append(t[p].files, p) ELSE t[p].files]
      BY <2>1, <3>1, Zenon
    <3>3. pa[p] = p /\ ds[p] = (IF t[p].kind = "dir" THEN Append(t[p].dirs, p) ELSE t[p].dirs)
          /\ fs[p] = (IF t[p].kind = "file" THEN Append(t[p].files, p) ELSE t[p].files)
      BY <2>1, <2>3
    <3> DEFINE d == IF t[p].kind = "dir" THEN Append(t[p].dirs, p) ELSE t[p].dirs
               f == IF t[p].kind = "file" THEN Append(t[p].files, p) ELSE t[p].files
    <3> HIDE DEF u, d, f, pa, ds, fs
    <3>4. u[p] = [kind |-> t[p].kind, name |-> t[p].name, parent |-> p, dirs |-> d, files |-> f]
      <4>1. u[p] = [[[t[p] EXCEPT !.parent = p] EXCEPT !.dirs = d] EXCEPT !.files = f]
        BY <3>2 DEF d, f
      <4>2. t[p] = [kind |-> t[p].kind, name |-> t[p].name, parent |-> t[p].parent,
                    dirs |-> t[p].dirs, files |-> t[p].files]
        BY <2>2, <2>3
      <4> QED BY <4>1, <4>2
    <3> QED BY <2>3, <3>3, <3>4 DEF d, f
  <2>4. CASE x = p /\ x # o
    BY <2>1, <2>2, <2>4 DEF addToParent
  <2>5. CASE x # p /\ x = o
    BY <2>1, <2>2, <2>5 DEF addToParent
  <2>6. CASE x # p /\ x # o
    BY <2>1, <2>2, <2>6 DEF addToParent
  <2> QED BY <2>3, <2>4, <2>5, <2>6
<1> HIDE DEF u
<1>4. ASSUME NEW x \in DOMAIN t
      PROVE  ds[x] \in Seq(DirsOf(t)) /\ fs[x] \in Seq(DOMAIN t \ DirsOf(t)) /\ pa[x] \in DirsOf(t) \cup {NULL}
             /\ (t[x].kind = "file" => ds[x] = <<>> /\ fs[x] = <<>>)
  <2>1. t[x].dirs \in Seq(DirsOf(t)) /\ t[x].files \in Seq(DOMAIN t \ DirsOf(t)) /\ t[x].parent \in DirsOf(t) \cup {NULL}
    BY TreeParts
  <2>2. t[o].kind = "dir" => Append(t[x].dirs, o) \in Seq(DirsOf(t))
    BY <2>1 DEF DirsOf
  <2>3. t[o].kind = "file" => Append(t[x].files, o) \in Seq(DOMAIN t \ DirsOf(t))
    BY <2>1 DEF DirsOf
  <2>4. t[x].kind = "file" => t[x].dirs = <<>> /\ t[x].files = <<>> /\ x # p
    BY DEF Tree, DirsOf
  <2> QED BY <2>1, <2>2, <2>3, <2>4
<1> HIDE DEF ds, fs, pa
<1>5. Tree(u) /\ DirsOf(u) = DirsOf(t)
  <2>1. \A x \in DOMAIN t : t[x].name \in Word
    BY TreeParts
  <2>2. ASSUME NEW x \in DOMAIN t
        PROVE  /\ u[x] \in [kind : {t[x].kind}, name : Word, parent : DirsOf(t) \cup {NULL},
                            dirs : Seq(DirsOf(t)), files : Seq(DOMAIN t \ DirsOf(t))]
               /\ t[x].kind = "file" => u[x].dirs = <<>> /\ u[x].files = <<>>
    <3>1. u[x] = [kind |-> t[x].kind, name |-> t[x].name, parent |-> pa[x], dirs |-> ds[x], files |-> fs[x]]
      BY <1>3
    <3>2. ds[x] \in Seq(DirsOf(t)) /\ fs[x] \in Seq(DOMAIN t \ DirsOf(t)) /\ pa[x] \in DirsOf(t) \cup {NULL}
          /\ (t[x].kind = "file" => ds[x] = <<>> /\ fs[x] = <<>>)
      BY <1>4
    <3>3. t[x].name \in Word
      BY <2>1
    <3> QED BY <3>1, <3>2, <3>3
  <2> QED BY <1>2, <2>2, TreeFrom
<1>6. ASSUME NEW x \in DOMAIN t
      PROVE  u[x].kind = t[x].kind /\ u[x].name = t[x].name /\ u[x].parent = pa[x]
             /\ u[x].dirs = ds[x] /\ u[x].files = fs[x]
  <2>1. u[x] = [kind |-> t[x].kind, name |-> t[x].name, parent |-> pa[x], dirs |-> ds[x], files |-> fs[x]]
    BY <1>3
  <2> QED BY <2>1
<1> QED BY <1>2, <1>5, <1>6 DEF u, ds, fs, pa

LEMMA DeleteEffect ==
    ASSUME NEW t, Tree(t), NEW o \in DOMAIN t, t[o].parent # NULL
    PROVE  LET u == deleteFileSystem(t, o)
           IN  /\ Tree(u) /\ DOMAIN u = DOMAIN t /\ DirsOf(u) = DirsOf(t)
               /\ \A x \in DOMAIN t :
                     /\ u[x].kind = t[x].kind /\ u[x].name = t[x].name
                     /\ u[x].parent = IF x = o THEN NULL ELSE t[x].parent
                     /\ u[x].dirs = IF x = t[o].parent THEN RemoveFirst(t[x].dirs, o) ELSE t[x].dirs
                     /\ u[x].files = IF x = t[o].parent THEN RemoveFirst(t[x].files, o) ELSE t[x].files
<1> DEFINE u == deleteFileSystem(t, o)
           p == t[o].parent
           ds == [x \in DOMAIN t |-> IF x = p THEN RemoveFirst(t[x].dirs, o) ELSE t[x].dirs]
           fs == [x \in DOMAIN t |-> IF x = p THEN RemoveFirst(t[x].files, o) ELSE t[x].files]
           pa == [x \in DOMAIN t |-> IF x = o THEN NULL ELSE t[x].parent]
<1>1. p \in DirsOf(t) /\ p \in DOMAIN t /\ t = [x \in DOMAIN t |-> t[x]]
  <2>1. p \in DirsOf(t)
    BY TreeParts
  <2> QED BY <2>1 DEF DirsOf, Tree
<1>2. DOMAIN u = DOMAIN t /\ u = [x \in DOMAIN t |-> u[x]]
  BY <1>1 DEF deleteFileSystem
<1>3. ASSUME NEW x \in DOMAIN t
      PROVE  u[x] = [kind |-> t[x].kind, name |-> t[x].name, parent |-> pa[x], dirs |-> ds[x], files |-> fs[x]]
  <2>1. x \in DOMAIN t /\ o \in DOMAIN t /\ p \in DOMAIN t
    BY <1>1
  <2>2. t[x] = [kind |-> t[x].kind, name |-> t[x].name, parent |-> t[x].parent,
                dirs |-> t[x].dirs, files |-> t[x].files]
    BY TreeParts
  <2>3. CASE x = p /\ x = o
    <3> DEFINE d == RemoveFirst(t[p].dirs, p)
               f == RemoveFirst(t[p].files, p)
    <3>1. u = [[t EXCEPT ![p] = [[@ EXCEPT !.dirs = d] EXCEPT !.files = f]] EXCEPT ![p].parent = NULL]
      <4>1. o = p
        BY <2>3
      <4> QED BY <2>1, <4>1, Zenon DEF deleteFileSystem
    <3> HIDE DEF u, d, f, pa, ds, fs
    <3>2. u[p] = [[[t[p] EXCEPT !.dirs = d] EXCEPT !.files = f] EXCEPT !.parent = NULL]
      BY <2>1, <3>1
    <3>3. pa[p] = NULL /\ ds[p] = d /\ fs[p] = f
      BY <2>1, <2>3 DEF pa, ds, fs, d, f
    <3>4. u[p] = [kind |-> t[p].kind, name |-> t[p].name, parent |-> NULL, dirs |-> d, files |-> f]
      <4>1. t[p] = [kind |-> t[p].kind, name |-> t[p].name, parent |-> t[p].parent,
                    dirs |-> t[p].dirs, files |-> t[p].files]
        BY <2>2, <2>3
      <4> HIDE DEF p
      <4> QED BY <3>2, <4>1
    <3> QED BY <2>3, <3>3, <3>4
  <2>4. CASE x = p /\ x # o
    BY <2>1, <2>2, <2>4 DEF deleteFileSystem
  <2>5. CASE x # p /\ x = o
    BY <2>1, <2>2, <2>5 DEF deleteFileSystem
  <2>6. CASE x # p /\ x # o
    BY <2>1, <2>2, <2>6 DEF deleteFileSystem
  <2> QED BY <2>3, <2>4, <2>5, <2>6
<1> HIDE DEF u
<1>4. ASSUME NEW x \in DOMAIN t
      PROVE  ds[x] \in Seq(DirsOf(t)) /\ fs[x] \in Seq(DOMAIN t \ DirsOf(t)) /\ pa[x] \in DirsOf(t) \cup {NULL}
             /\ (t[x].kind = "file" => ds[x] = <<>> /\ fs[x] = <<>>)
  <2>1. t[x].dirs \in Seq(DirsOf(t)) /\ t[x].files \in Seq(DOMAIN t \ DirsOf(t)) /\ t[x].parent \in DirsOf(t) \cup {NULL}
    BY TreeParts
  <2>2. RemoveFirst(t[x].dirs, o) \in Seq(DirsOf(t)) /\ RemoveFirst(t[x].files, o) \in Seq(DOMAIN t \ DirsOf(t))
    BY <2>1, RemoveFirstKeeps
  <2>4. t[x].kind = "file" => t[x].dirs = <<>> /\ t[x].files = <<>> /\ x # p
    BY <1>1 DEF Tree, DirsOf
  <2> QED BY <2>1, <2>2, <2>4
<1> HIDE DEF ds, fs, pa
<1>5. Tree(u) /\ DirsOf(u) = DirsOf(t)
  <2>1. \A x \in DOMAIN t : t[x].name \in Word
    BY TreeParts
  <2>2. ASSUME NEW x \in DOMAIN t
        PROVE  /\ u[x] \in [kind : {t[x].kind}, name : Word, parent : DirsOf(t) \cup {NULL},
                            dirs : Seq(DirsOf(t)), files : Seq(DOMAIN t \ DirsOf(t))]
               /\ t[x].kind = "file" => u[x].dirs = <<>> /\ u[x].files = <<>>
    <3>1. u[x] = [kind |-> t[x].kind, name |-> t[x].name, parent |-> pa[x], dirs |-> ds[x], files |-> fs[x]]
      BY <1>3
    <3>2. ds[x] \in Seq(DirsOf(t)) /\ fs[x] \in Seq(DOMAIN t \ DirsOf(t)) /\ pa[x] \in DirsOf(t) \cup {NULL}
          /\ (t[x].kind = "file" => ds[x] = <<>> /\ fs[x] = <<>>)
      BY <1>4
    <3>3. t[x].name \in Word
      BY <2>1
    <3> QED BY <3>1, <3>2, <3>3
  <2> QED BY <1>2, <2>2, TreeFrom
<1>6. ASSUME NEW x \in DOMAIN t
      PROVE  u[x].kind = t[x].kind /\ u[x].name = t[x].name /\ u[x].parent = pa[x]
             /\ u[x].dirs = ds[x] /\ u[x].files = fs[x]
  <2>1. u[x] = [kind |-> t[x].kind, name |-> t[x].name, parent |-> pa[x], dirs |-> ds[x], files |-> fs[x]]
    BY <1>3
  <2> QED BY <2>1
<1> QED BY <1>2, <1>5, <1>6 DEF u, ds, fs, pa

LEMMA DomainSize ==
    ASSUME NEW t, Tree(t)
    PROVE  /\ Cardinality(DOMAIN t) \in Nat \ {0} /\ DOMAIN t = 0 .. Cardinality(DOMAIN t) - 1
           /\ IsFiniteSet(DOMAIN t)
<1>1. PICK n \in Nat : DOMAIN t = 0 .. n
  BY DEF Tree
<1>2. Cardinality(0 .. n) = n + 1 /\ IsFiniteSet(0 .. n)
  BY FS_Interval
<1> QED BY <1>1, <1>2

(* A new object, before it is given a parent.                                *)
Grown(t, kind, name) ==
    LET o == Cardinality(DOMAIN t)
    IN  [x \in DOMAIN t \cup {o} |->
            IF x = o THEN [kind |-> kind, name |-> name, parent |-> NULL, dirs |-> <<>>, files |-> <<>>]
            ELSE t[x]]

LEMMA GrownEffect ==
    ASSUME NEW t, Tree(t), NEW kind \in {"dir", "file"}, NEW name \in Word
    PROVE  LET u == Grown(t, kind, name)
               o == Cardinality(DOMAIN t)
           IN  /\ Tree(u) /\ DOMAIN u = DOMAIN t \cup {o} /\ o \notin DOMAIN t
               /\ Cardinality(DOMAIN u) = o + 1
               /\ DirsOf(u) = IF kind = "dir" THEN DirsOf(t) \cup {o} ELSE DirsOf(t)
               /\ \A x \in DOMAIN t : u[x] = t[x]
               /\ u[o] = [kind |-> kind, name |-> name, parent |-> NULL, dirs |-> <<>>, files |-> <<>>]
<1> DEFINE u == Grown(t, kind, name)
           o == Cardinality(DOMAIN t)
           new == [kind |-> kind, name |-> name, parent |-> NULL, dirs |-> <<>>, files |-> <<>>]
<1>1. o \in Nat \ {0} /\ DOMAIN t = 0 .. o - 1
  BY DomainSize
<1> HIDE DEF o
<1>2. o \notin DOMAIN t /\ DOMAIN t \cup {o} = 0 .. o
  BY <1>1
<1>3. DOMAIN u = DOMAIN t \cup {o} /\ u = [x \in DOMAIN t \cup {o} |-> IF x = o THEN new ELSE t[x]]
  BY DEF Grown, o
<1>4. u[o] = new /\ \A x \in DOMAIN t : u[x] = t[x]
  BY <1>2, <1>3
<1> HIDE DEF u
<1>5. DirsOf(u) = IF kind = "dir" THEN DirsOf(t) \cup {o} ELSE DirsOf(t)
  <2>1. u[o].kind = kind
    BY <1>4
  <2> QED BY <1>3, <1>4, <2>1 DEF DirsOf
<1>6. ASSUME NEW x \in DOMAIN u
      PROVE  u[x] \in Obj(DOMAIN u, DirsOf(u)) /\ (u[x].kind = "file" => u[x].dirs = <<>> /\ u[x].files = <<>>)
  <2>1. CASE x = o
    <3>1. u[x] = new /\ <<>> \in Seq(DirsOf(u)) /\ <<>> \in Seq(DOMAIN u \ DirsOf(u))
      BY <1>4, <2>1
    <3> QED BY <3>1 DEF Obj
  <2>2. CASE x \in DOMAIN t
    <3>1. u[x] = t[x] /\ DirsOf(t) \subseteq DirsOf(u) /\ DOMAIN t \ DirsOf(t) \subseteq DOMAIN u \ DirsOf(u)
      BY <1>2, <1>3, <1>4, <1>5, <2>2 DEF DirsOf
    <3>2. t[x].dirs \in Seq(DirsOf(u)) /\ t[x].files \in Seq(DOMAIN u \ DirsOf(u))
          /\ t[x].parent \in DirsOf(u) \cup {NULL}
      <4>1. t[x].dirs \in Seq(DirsOf(t)) /\ t[x].files \in Seq(DOMAIN t \ DirsOf(t))
            /\ t[x].parent \in DirsOf(t) \cup {NULL}
        BY <2>2, TreeParts
      <4> QED BY <3>1, <4>1, SeqMonotonic
    <3>3. t[x] = [kind |-> t[x].kind, name |-> t[x].name, parent |-> t[x].parent,
                  dirs |-> t[x].dirs, files |-> t[x].files]
          /\ t[x].kind \in {"dir", "file"} /\ t[x].name \in Word
      BY <2>2, TreeParts
    <3>4. t[x].kind = "file" => t[x].dirs = <<>> /\ t[x].files = <<>>
      BY <2>2 DEF Tree
    <3> QED BY <3>1, <3>2, <3>3, <3>4 DEF Obj
  <2> QED BY <1>3, <2>1, <2>2
<1>7. u = [x \in DOMAIN u |-> u[x]]
  BY <1>3
<1>8. u \in [DOMAIN u -> Obj(DOMAIN u, DirsOf(u))]
  BY <1>6, <1>7
<1>9. root \in DirsOf(u) /\ DOMAIN u = 0 .. o
  BY <1>2, <1>3, <1>5 DEF Tree
<1>10. Tree(u)
  BY <1>1, <1>6, <1>8, <1>9 DEF Tree
<1>11. Cardinality(DOMAIN u) = o + 1
  BY <1>1, <1>9, FS_Interval
<1> QED BY <1>2, <1>3, <1>4, <1>5, <1>10, <1>11 DEF u, o

(* u is t with an object o, which its parent p has listed.                   *)
NewIs(t, u, o, kind, name, p) ==
    /\ Tree(u) /\ DOMAIN u = DOMAIN t \cup {o} /\ o \notin DOMAIN t /\ Newest(u) = o
    /\ DirsOf(u) = IF kind = "dir" THEN DirsOf(t) \cup {o} ELSE DirsOf(t)
    /\ u[o].kind = kind /\ u[o].name = name /\ u[o].parent = p
    /\ u[o].dirs = <<>> /\ u[o].files = <<>>
    /\ \A x \in DOMAIN t :
          /\ u[x].kind = t[x].kind /\ u[x].name = t[x].name /\ u[x].parent = t[x].parent
          /\ u[x].dirs = IF x = p /\ kind = "dir" THEN Append(t[x].dirs, o) ELSE t[x].dirs
          /\ u[x].files = IF x = p /\ kind = "file" THEN Append(t[x].files, o) ELSE t[x].files

LEMMA NewEffect ==
    ASSUME NEW t, Tree(t), NEW kind \in {"dir", "file"}, NEW name \in Word, NEW p \in DirsOf(t)
    PROVE  NewIs(t, NewObject(t, kind, name, p), Cardinality(DOMAIN t), kind, name, p)
<1> DEFINE o == Cardinality(DOMAIN t)
           g == Grown(t, kind, name)
           u == addToParent(g, o, p)
<1>1. NewObject(t, kind, name, p) = u
  BY DEF NewObject, Grown
<1>2. /\ Tree(g) /\ DOMAIN g = DOMAIN t \cup {o} /\ o \notin DOMAIN t /\ Cardinality(DOMAIN g) = o + 1
      /\ DirsOf(g) = IF kind = "dir" THEN DirsOf(t) \cup {o} ELSE DirsOf(t)
      /\ \A x \in DOMAIN t : g[x] = t[x]
      /\ g[o] = [kind |-> kind, name |-> name, parent |-> NULL, dirs |-> <<>>, files |-> <<>>]
  BY GrownEffect, Zenon
<1>3. g[o].kind = kind /\ g[o].name = name /\ g[o].dirs = <<>> /\ g[o].files = <<>>
  BY <1>2
<1>4. o \in Nat /\ p \in DirsOf(g) /\ p \in DOMAIN t
  BY <1>2, DomainSize DEF DirsOf
<1> HIDE DEF o, g
<1>5. /\ Tree(u) /\ DOMAIN u = DOMAIN g /\ DirsOf(u) = DirsOf(g)
      /\ \A x \in DOMAIN g :
            /\ u[x].kind = g[x].kind /\ u[x].name = g[x].name
            /\ u[x].parent = IF x = o THEN p ELSE g[x].parent
            /\ u[x].dirs = IF x = p /\ g[o].kind = "dir" THEN Append(g[x].dirs, o) ELSE g[x].dirs
            /\ u[x].files = IF x = p /\ g[o].kind = "file" THEN Append(g[x].files, o) ELSE g[x].files
  BY <1>2, <1>4, AddEffect
<1> HIDE DEF u
<1>6. Newest(u) = o
  BY <1>2, <1>4, <1>5 DEF Newest
<1>7. o # p /\ o \in DOMAIN g
  BY <1>2, <1>4
<1>8. u[o].kind = kind /\ u[o].name = name /\ u[o].parent = p /\ u[o].dirs = <<>> /\ u[o].files = <<>>
  BY <1>3, <1>5, <1>7
<1>9. ASSUME NEW x \in DOMAIN t
      PROVE  /\ u[x].kind = t[x].kind /\ u[x].name = t[x].name /\ u[x].parent = t[x].parent
             /\ u[x].dirs = IF x = p /\ kind = "dir" THEN Append(t[x].dirs, o) ELSE t[x].dirs
             /\ u[x].files = IF x = p /\ kind = "file" THEN Append(t[x].files, o) ELSE t[x].files
  <2>1. x \in DOMAIN g /\ x # o /\ g[x] = t[x]
    BY <1>2
  <2> QED BY <1>3, <1>5, <2>1
<1>10. NewIs(t, u, o, kind, name, p)
  BY <1>2, <1>5, <1>6, <1>8, <1>9 DEF NewIs
<1> QED BY <1>1, <1>10 DEF o

LEMMA RenameEffect ==
    ASSUME NEW t, Tree(t), NEW o \in DOMAIN t, NEW name \in Word
    PROVE  LET u == Rename(t, o, name)
           IN  /\ Tree(u) /\ DOMAIN u = DOMAIN t /\ DirsOf(u) = DirsOf(t)
               /\ \A x \in DOMAIN t :
                     /\ u[x].kind = t[x].kind /\ u[x].parent = t[x].parent
                     /\ u[x].dirs = t[x].dirs /\ u[x].files = t[x].files
                     /\ u[x].name = IF x = o /\ name # "" THEN name ELSE t[x].name
<1> DEFINE u == Rename(t, o, name)
           nm == [x \in DOMAIN t |-> IF x = o /\ name # "" THEN name ELSE t[x].name]
<1>1. t = [x \in DOMAIN t |-> t[x]]
  BY DEF Tree
<1>2. DOMAIN u = DOMAIN t /\ u = [x \in DOMAIN t |-> u[x]]
  BY <1>1 DEF Rename
<1>3. ASSUME NEW x \in DOMAIN t
      PROVE  u[x] = [kind |-> t[x].kind, name |-> nm[x], parent |-> t[x].parent,
                     dirs |-> t[x].dirs, files |-> t[x].files]
  <2>1. t[x] = [kind |-> t[x].kind, name |-> t[x].name, parent |-> t[x].parent,
                dirs |-> t[x].dirs, files |-> t[x].files]
    BY TreeParts
  <2>2. CASE name = ""
    BY <2>1, <2>2 DEF Rename
  <2>3. CASE name # "" /\ x = o
    BY <2>1, <2>3 DEF Rename
  <2>4. CASE name # "" /\ x # o
    BY <2>1, <2>4 DEF Rename
  <2> QED BY <2>2, <2>3, <2>4
<1> HIDE DEF u
<1>4. ASSUME NEW x \in DOMAIN t
      PROVE  /\ u[x] \in [kind : {t[x].kind}, name : Word, parent : DirsOf(t) \cup {NULL},
                          dirs : Seq(DirsOf(t)), files : Seq(DOMAIN t \ DirsOf(t))]
             /\ t[x].kind = "file" => u[x].dirs = <<>> /\ u[x].files = <<>>
             /\ u[x].kind = t[x].kind /\ u[x].parent = t[x].parent
             /\ u[x].dirs = t[x].dirs /\ u[x].files = t[x].files /\ u[x].name = nm[x]
  <2>1. t[x].dirs \in Seq(DirsOf(t)) /\ t[x].files \in Seq(DOMAIN t \ DirsOf(t))
        /\ t[x].parent \in DirsOf(t) \cup {NULL} /\ t[x].name \in Word /\ nm[x] \in Word
    BY TreeParts
  <2>2. t[x].kind = "file" => t[x].dirs = <<>> /\ t[x].files = <<>>
    BY DEF Tree
  <2>3. u[x] = [kind |-> t[x].kind, name |-> nm[x], parent |-> t[x].parent,
                dirs |-> t[x].dirs, files |-> t[x].files]
    BY <1>3
  <2> HIDE DEF nm
  <2> QED BY <2>1, <2>2, <2>3
<1>5. Tree(u) /\ DirsOf(u) = DirsOf(t)
  BY <1>2, <1>4, TreeFrom
<1> QED BY <1>2, <1>4, <1>5 DEF u

-----------------------------------------------------------------------------
(* Types, and what a path leads to.                                          *)

Dirs0 == DirsOf(node)

(* The working directory, the stack and the question, in a tree t.           *)
StateOK(wd, stack, question, failed, t) ==
    /\ wd \in DirsOf(t) \cup {NULL} /\ stack \in Seq(DirsOf(t) \cup {NULL}) /\ failed \in BOOLEAN
    /\ question \in [queue : Seq(DOMAIN t), parents : Seq(DirsOf(t)), top : DOMAIN t \cup {NULL}, final : BOOLEAN]
    /\ question # NoQuestion => question.queue # <<>> /\ question.top \in DOMAIN t

TypeInv ==
    /\ Tree(node) /\ StateOK(workingDirectory, newStack, asking, crashed, node)
    /\ redirect \in BOOLEAN /\ commands \in 0 .. MaxCommands
    /\ doubled \in BOOLEAN /\ merged \in BOOLEAN

LEMMA ChildrenOf ==
    ASSUME NEW t, Tree(t), NEW d \in DOMAIN t
    PROVE  /\ Children(t, d) \subseteq DOMAIN t
           /\ ToSet(t[d].dirs) \subseteq DirsOf(t) /\ ToSet(t[d].files) \subseteq DOMAIN t \ DirsOf(t)
<1>1. t[d].dirs \in Seq(DirsOf(t)) /\ t[d].files \in Seq(DOMAIN t \ DirsOf(t))
  BY TreeParts
<1>2. ToSet(t[d].dirs) \subseteq DirsOf(t) /\ ToSet(t[d].files) \subseteq DOMAIN t \ DirsOf(t)
  BY <1>1 DEF ToSet
<1> QED BY <1>2 DEF Children, DirsOf

LEMMA Lookup ==
    ASSUME NEW t, Tree(t), NEW d \in DOMAIN t, NEW name
    PROVE  LET r == fileSystemNameToObject(t, d, name)
           IN  \/ r = NULL /\ \A x \in Children(t, d) : t[x].name # name
               \/ r \in Children(t, d) /\ r # NULL /\ t[r].name = name
<1> DEFINE all == t[d].dirs \o t[d].files
           I == {i \in 1 .. Len(all) : t[all[i]].name = name}
           r == fileSystemNameToObject(t, d, name)
<1>1. t[d].dirs \in Seq(DOMAIN t) /\ t[d].files \in Seq(DOMAIN t)
  <2>1. t[d].dirs \in Seq(DirsOf(t)) /\ t[d].files \in Seq(DOMAIN t \ DirsOf(t)) /\ DirsOf(t) \subseteq DOMAIN t
    BY TreeParts DEF DirsOf
  <2> QED BY <2>1, SeqMonotonic
<1>2. all \in Seq(DOMAIN t) /\ ToSet(all) = Children(t, d)
  BY <1>1, JoinKeeps DEF Children
<1>3. r = IF (IF I # {} THEN Min(I) ELSE 0) = 0 THEN NULL ELSE all[IF I # {} THEN Min(I) ELSE 0]
  BY DEF fileSystemNameToObject, SelectInSeq
<1> HIDE DEF r, all
<1>4. I \in SUBSET Nat /\ 0 \notin I
  <2>1. Len(all) \in Nat
    BY <1>2
  <2> QED BY <2>1
<1>5. CASE I = {}
  <2>1. r = NULL
    BY <1>3, <1>5
  <2>2. \A x \in Children(t, d) : t[x].name # name
    BY <1>2, <1>5 DEF ToSet
  <2> QED BY <2>1, <2>2 DEF r
<1>6. CASE I # {}
  <2>1. Min(I) \in I
    <3> HIDE DEF I
    <3> QED BY <1>4, <1>6, LeastIndex
  <2> DEFINE m == Min(I)
  <2> HIDE DEF m
  <2>2. m \in 1 .. Len(all) /\ m # 0 /\ t[all[m]].name = name /\ r = all[m]
    BY <1>3, <1>4, <1>6, <2>1 DEF m
  <2>3. r \in Children(t, d)
    BY <1>2, <2>2 DEF ToSet
  <2>4. r # NULL
    <3>1. r \in DOMAIN t
      BY <2>3, ChildrenOf
    <3> QED BY <3>1, TreeParts DEF NULL
  <2> QED BY <2>2, <2>3, <2>4 DEF r
<1> QED BY <1>5, <1>6

Place == [res : {"yes", "no", "crash"}, prev : Object \cup {NULL}, last : Object \cup {NULL}, left : Int]

LEMMA FollowTypes ==
    ASSUME TypeInv, NEW w \in Place, NEW part, NEW mayMiss \in BOOLEAN
    PROVE  follow(w, part, mayMiss) \in Place
<1> DEFINE o == IF part = ".." THEN node[w.last].parent ELSE fileSystemNameToObject(node, w.last, part)
<1>1. Tree(node)
  BY DEF TypeInv
<1>2. w = [res |-> w.res, prev |-> w.prev, last |-> w.last, left |-> w.left]
      /\ w.last \in Object \cup {NULL} /\ w.prev \in Object \cup {NULL} /\ w.left \in Int
  BY DEF Place
<1>3. w.last # NULL => o \in Object \cup {NULL}
  <2>1. ASSUME w.last \in Object PROVE node[w.last].parent \in Object \cup {NULL}
    BY <1>1, <2>1, TreeParts DEF DirsOf, Object
  <2>2. ASSUME w.last \in Object PROVE fileSystemNameToObject(node, w.last, part) \in Object \cup {NULL}
    BY <1>1, <2>2, Lookup, ChildrenOf DEF Object
  <2> QED BY <1>2, <2>1, <2>2
<1> HIDE DEF o
<1>4. CASE w.last = NULL
  <2>1. follow(w, part, mayMiss) \in {w, [w EXCEPT !.res = "crash"]}
    BY <1>4 DEF follow
  <2> QED BY <1>2, <2>1 DEF Place
<1>5. CASE w.last # NULL
  <2>1. follow(w, part, mayMiss) \in {w, [w EXCEPT !.res = "crash"], [w EXCEPT !.res = "no"],
                                      [w EXCEPT !.prev = w.last, !.last = o, !.left = w.left - 1]}
    BY DEF follow, o
  <2>2. [w EXCEPT !.prev = w.last, !.last = o, !.left = w.left - 1] \in Place
    <3>1. w.last \in Object \cup {NULL} /\ o \in Object \cup {NULL} /\ w.left - 1 \in Int
      BY <1>2, <1>3, <1>5
    <3> QED BY <3>1 DEF Place
  <2>3. [w EXCEPT !.res = "crash"] \in Place /\ [w EXCEPT !.res = "no"] \in Place
    BY DEF Place
  <2> QED BY <2>1, <2>2, <2>3
<1> QED BY <1>4, <1>5

LEMMA StartTypes ==
    ASSUME TypeInv, NEW path \in Path
    PROVE  /\ Start(path) \in Place /\ Len(path.parts) \in Nat \ {0}
           /\ \A n \in 1 .. Len(path.parts) : path.parts[n] \in Word
<1>1. path \in [abs : BOOLEAN, parts : Seq(STRING) \ {<<>>}]
  BY ShellAssumption
<1>2. path.parts \in Seq(Word) /\ path.parts # <<>>
  <2>1. path.parts \in Seq(STRING) /\ path.parts # <<>> /\ STRING \subseteq Word
    BY <1>1 DEF Word
  <2> QED BY <2>1, SeqMonotonic
<1>3. Len(path.parts) \in Nat \ {0}
  BY <1>2, EmptySeq
<1>4. root \in Object /\ workingDirectory \in Object \cup {NULL}
  BY DEF TypeInv, StateOK, Tree, DirsOf, Object
<1> QED BY <1>2, <1>3, <1>4 DEF Start, Place

(* The walk of checkPath, part by part.                                      *)
Walk(path, mkdir0, f) ==
    /\ f \in [0 .. Len(path.parts) -> Place] /\ f[0] = Start(path)
    /\ \A n \in 1 .. Len(path.parts) :
           f[n] = follow(f[n - 1], path.parts[n], mkdir0 /\ n = Len(path.parts))

LEMMA WalkExists ==
    ASSUME TypeInv, NEW path \in Path, NEW m \in BOOLEAN
    PROVE  \E f : Walk(path, m, f) /\ checkPath(path, m) = f[Len(path.parts)]
<1> DEFINE N == Len(path.parts)
           F == [n \in 1 .. N |-> [w \in Place |-> follow(w, path.parts[n], m /\ n = N)]]
           Recursion(h) == h = [n \in 0 .. N |-> IF n = 0 THEN Start(path)
                                                 ELSE follow(h[n - 1], path.parts[n], m /\ n = N)]
<1>1. N \in Nat /\ Start(path) \in Place
  BY StartTypes
<1>2. F \in [1 .. N -> [Place -> Place]]
  BY FollowTypes
<1>3. \A n \in 1 .. N : \A w \in Place : F[n][w] = follow(w, path.parts[n], m /\ n = N)
  OBVIOUS
<1> HIDE DEF N, F
<1>4. PICK f \in [0 .. N -> Place] : Iterates(f, N, Start(path), F)
  BY <1>1, <1>2, IterationExists
<1>5. ASSUME NEW n \in 1 .. N PROVE f[n] = follow(f[n - 1], path.parts[n], m /\ n = N)
  <2>1. f[n - 1] \in Place
    BY <1>1, <1>4
  <2> QED BY <1>3, <1>4, <2>1 DEF Iterates
<1>6. f[0] = Start(path)
  BY <1>4 DEF Iterates
<1>7. Recursion(f)
  <2>1. ASSUME NEW n \in 0 .. N
        PROVE  f[n] = IF n = 0 THEN Start(path) ELSE follow(f[n - 1], path.parts[n], m /\ n = N)
    <3>1. n = 0 \/ n \in 1 .. N
      BY <1>1
    <3> QED BY <1>5, <1>6, <3>1
  <2> QED BY <1>4, <2>1
<1> DEFINE h == CHOOSE h : Recursion(h)
<1>8. Recursion(h)
  BY <1>7
<1>9. checkPath(path, m) = h[N]
  BY DEF checkPath, N
<1>10. DOMAIN h = 0 .. N /\ h = [n \in 0 .. N |-> h[n]]
  BY <1>8
<1>11. \A n \in 0 .. N : h[n] = IF n = 0 THEN Start(path) ELSE follow(h[n - 1], path.parts[n], m /\ n = N)
  BY <1>8
<1> HIDE DEF h
<1>12. h[0] = Start(path)
  BY <1>1, <1>11
<1>13. \A n \in 1 .. N : h[n] = follow(h[n - 1], path.parts[n], m /\ n = N)
  BY <1>1, <1>11
<1>14. 0 .. N \subseteq {n \in 0 .. N : h[n] \in Place}
  <2> DEFINE S == {n \in 0 .. N : h[n] \in Place}
  <2>1. 0 \in S
    BY <1>1, <1>12
  <2>2. ASSUME NEW n \in 1 .. N, n - 1 \in S PROVE n \in S
    <3>1. h[n - 1] \in Place /\ n \in 0 .. N /\ (m /\ n = N) \in BOOLEAN
      BY <1>1, <2>2
    <3> QED BY <1>13, <3>1, FollowTypes
  <2>3. 0 .. N \subseteq S
    <3> HIDE DEF S
    <3> QED BY <1>1, <2>1, <2>2, Steps
  <2> QED BY <2>3
<1>15. h \in [0 .. N -> Place]
  BY <1>10, <1>14
<1> QED BY <1>9, <1>12, <1>13, <1>15 DEF Walk, N

(* All parts but the last lead as far without mkdir as with it; the last one *)
(* is followed from there.                                                   *)
LEMMA PathEnd ==
    ASSUME TypeInv, NEW path \in Path
    PROVE  /\ LastPart(path) \in Word
           /\ \A m \in BOOLEAN : checkPath(path, m) \in Place
           /\ \E w \in Place : \A m \in BOOLEAN : checkPath(path, m) = follow(w, LastPart(path), m)
<1> DEFINE N == Len(path.parts)
           part(n) == path.parts[n]
<1>1. Start(path) \in Place /\ N \in Nat \ {0} /\ LastPart(path) = part(N) /\ part(N) \in Word
  BY StartTypes DEF LastPart, Last
<1>2. PICK f : Walk(path, FALSE, f) /\ checkPath(path, FALSE) = f[N]
  BY WalkExists
<1>3. PICK g : Walk(path, TRUE, g) /\ checkPath(path, TRUE) = g[N]
  BY WalkExists
<1>4. /\ f \in [0 .. N -> Place] /\ f[0] = Start(path)
      /\ \A n \in 1 .. N : f[n] = follow(f[n - 1], part(n), FALSE /\ n = N)
  BY <1>2 DEF Walk
<1>5. /\ g \in [0 .. N -> Place] /\ g[0] = Start(path)
      /\ \A n \in 1 .. N : g[n] = follow(g[n - 1], part(n), TRUE /\ n = N)
  BY <1>3 DEF Walk
<1> HIDE DEF N, part
<1>6. f[N - 1] = g[N - 1]
  <2> DEFINE S == {n \in 0 .. N - 1 : f[n] = g[n]}
  <2>1. 0 \in S
    BY <1>1, <1>4, <1>5
  <2>2. ASSUME NEW n \in 1 .. N - 1, n - 1 \in S PROVE n \in S
    <3>1. n \in 1 .. N /\ n # N /\ f[n - 1] = g[n - 1]
      BY <1>1, <2>2
    <3>2. (FALSE /\ n = N) = FALSE /\ (TRUE /\ n = N) = FALSE
      BY <3>1
    <3>3. f[n] = g[n]
      BY <1>4, <1>5, <3>1, <3>2
    <3> QED BY <2>2, <3>3
  <2>3. 0 .. N - 1 \subseteq S
    <3>1. N - 1 \in Nat
      BY <1>1
    <3> HIDE DEF S
    <3> QED BY <2>1, <2>2, <3>1, Steps
  <2> QED BY <1>1, <2>3
<1>7. N \in 1 .. N /\ (FALSE /\ N = N) = FALSE /\ (TRUE /\ N = N) = TRUE /\ N - 1 \in 0 .. N
  BY <1>1
<1>8. f[N] = follow(f[N - 1], part(N), FALSE) /\ g[N] = follow(f[N - 1], part(N), TRUE)
  BY <1>4, <1>5, <1>6, <1>7
<1>9. f[N] \in Place /\ g[N] \in Place /\ f[N - 1] \in Place
  BY <1>4, <1>5, <1>7
<1>10. \A m \in BOOLEAN : checkPath(path, m) = follow(f[N - 1], LastPart(path), m)
  BY <1>1, <1>2, <1>3, <1>8
<1> QED BY <1>1, <1>2, <1>3, <1>9, <1>10

(* What a command knows of the object at the end of a path.                  *)
LEMMA PathYes ==
    ASSUME TypeInv, NEW path \in Path, NEW m \in BOOLEAN, checkPath(path, m).res = "yes"
    PROVE  LET c == checkPath(path, m)
               name == LastPart(path)
           IN  /\ c.prev \in Object /\ c.last \in Object \cup {NULL}
               /\ c.last = IF name = ".." THEN node[c.prev].parent ELSE fileSystemNameToObject(node, c.prev, name)
               /\ name # ".." => c.prev \in Dirs0
               /\ ~m => c.last # NULL \/ name \in {"..", ""}
<1> DEFINE c == checkPath(path, m)
           name == LastPart(path)
<1>1. PICK w \in Place : c = follow(w, name, m)
  BY PathEnd
<1>2. c \in Place
  BY PathEnd
<1> HIDE DEF c, name
<1> DEFINE o == IF name = ".." THEN node[w.last].parent ELSE fileSystemNameToObject(node, w.last, name)
<1>3. c.res = "yes"
  BY DEF c
<1>4. w \in [res : {"yes", "no", "crash"}, prev : Object \cup {NULL}, last : Object \cup {NULL}, left : Int]
  BY DEF Place
<1>5. /\ ~(w.last = NULL \/ (name # ".." /\ IsFile(w.last))) /\ (o # NULL \/ name \in {"..", ""} \/ m)
      /\ c = [w EXCEPT !.prev = w.last, !.last = o, !.left = w.left - 1]
  BY <1>1, <1>3, <1>4 DEF follow
<1>6. c.prev = w.last /\ c.last = o
  BY <1>4, <1>5
<1>7. w.last \in Object
  BY <1>4, <1>5
<1>8. name # ".." => w.last \in Dirs0
  <2>1. Tree(node) /\ w.last \in DOMAIN node
    BY <1>7 DEF TypeInv, Object
  <2>2. w.last # NULL /\ node[w.last].kind \in {"dir", "file"}
    BY <2>1, TreeParts
  <2> QED BY <1>5, <2>1, <2>2 DEF IsFile, Dirs0, DirsOf
<1>9. c.last \in Object \cup {NULL}
  BY <1>2 DEF Place
<1> QED BY <1>5, <1>6, <1>7, <1>8, <1>9 DEF c, name

(* Where a path names nothing that exists, its last part may be made.        *)
LEMMA PathFree ==
    ASSUME TypeInv, NEW path \in Path, checkPath(path, FALSE).res = "no", checkPath(path, TRUE).res = "yes"
    PROVE  /\ checkPath(path, TRUE).prev \in Dirs0 /\ LastPart(path) \notin {"", ".."}
           /\ \A x \in Children(node, checkPath(path, TRUE).prev) : node[x].name # LastPart(path)
<1> DEFINE d == checkPath(path, FALSE)
           e == checkPath(path, TRUE)
           name == LastPart(path)
<1>1. PICK w \in Place : d = follow(w, name, FALSE) /\ e = follow(w, name, TRUE)
  <2>1. PICK w \in Place : \A m \in BOOLEAN : checkPath(path, m) = follow(w, name, m)
    BY PathEnd
  <2> QED BY <2>1
<1>2. e.prev \in Object /\ (name # ".." => e.prev \in Dirs0)
      /\ e.last = IF name = ".." THEN node[e.prev].parent ELSE fileSystemNameToObject(node, e.prev, name)
  BY PathYes
<1>3. d.res = "no" /\ e.res = "yes"
  OBVIOUS
<1> HIDE DEF d, e, name
<1> DEFINE o == IF name = ".." THEN node[w.last].parent ELSE fileSystemNameToObject(node, w.last, name)
<1>4. w \in [res : {"yes", "no", "crash"}, prev : Object \cup {NULL}, last : Object \cup {NULL}, left : Int]
  BY DEF Place
<1>5. w.res = "yes" /\ e = [w EXCEPT !.prev = w.last, !.last = o, !.left = w.left - 1]
      /\ o = NULL /\ name \notin {"..", ""}
  <2>1. w.res = "yes"
    BY <1>1, <1>3, <1>4 DEF follow
  <2> QED BY <1>1, <1>3, <1>4, <2>1 DEF follow
<1>6. e.last = NULL
  BY <1>4, <1>5
<1>7. Tree(node) /\ e.prev \in DOMAIN node
  BY <1>2 DEF TypeInv, Object
<1>8. \A x \in Children(node, e.prev) : node[x].name # name
  <2>1. fileSystemNameToObject(node, e.prev, name) = NULL
    BY <1>2, <1>5, <1>6
  <2> QED BY <1>7, <2>1, Lookup
<1> QED BY <1>2, <1>5, <1>8 DEF e, name

-----------------------------------------------------------------------------
(* What a directory leads to.                                                *)

Rounds(t, S, f) ==
    /\ f \in [0 .. Cardinality(DOMAIN t) -> SUBSET DOMAIN t]
    /\ f[0] = S /\ Below(t, S) = f[Cardinality(DOMAIN t)]
    /\ \A n \in 1 .. Cardinality(DOMAIN t) : f[n] = Spread(t, f[n - 1])

LEMMA BelowExists ==
    ASSUME NEW t, Tree(t), NEW S \in SUBSET DOMAIN t
    PROVE  \E f : Rounds(t, S, f)
<1> DEFINE N == Cardinality(DOMAIN t)
           T == SUBSET DOMAIN t
           F == [n \in 1 .. N |-> [X \in T |-> Spread(t, X)]]
           Recursion(h) == h = [n \in 0 .. N |-> IF n = 0 THEN S ELSE Spread(t, h[n - 1])]
<1>1. N \in Nat
  BY DomainSize
<1>2. \A X \in T : Spread(t, X) \in T
  BY ChildrenOf DEF Spread
<1>3. F \in [1 .. N -> [T -> T]]
  BY <1>2
<1>4. \A n \in 1 .. N : \A X \in T : F[n][X] = Spread(t, X)
  OBVIOUS
<1> HIDE DEF N, F
<1>5. S \in T
  OBVIOUS
<1>6. PICK f \in [0 .. N -> T] : Iterates(f, N, S, F)
  <2> HIDE DEF T
  <2> QED BY <1>1, <1>3, <1>5, IterationExists
<1>7. ASSUME NEW n \in 1 .. N PROVE f[n] = Spread(t, f[n - 1])
  <2>1. f[n - 1] \in T
    BY <1>1, <1>6
  <2> QED BY <1>4, <1>6, <2>1 DEF Iterates
<1>8. f[0] = S
  BY <1>6 DEF Iterates
<1>9. Recursion(f)
  <2>1. ASSUME NEW n \in 0 .. N
        PROVE  f[n] = IF n = 0 THEN S ELSE Spread(t, f[n - 1])
    <3>1. n = 0 \/ n \in 1 .. N
      BY <1>1
    <3> QED BY <1>7, <1>8, <3>1
  <2> QED BY <1>6, <2>1
<1> DEFINE h == CHOOSE h : Recursion(h)
<1>10. Recursion(h)
  BY <1>9
<1>11. Below(t, S) = h[N]
  BY DEF Below, N
<1>12. h = [n \in 0 .. N |-> h[n]] /\ \A n \in 0 .. N : h[n] = IF n = 0 THEN S ELSE Spread(t, h[n - 1])
  BY <1>10
<1> HIDE DEF h
<1>13. h[0] = S /\ \A n \in 1 .. N : h[n] = Spread(t, h[n - 1])
  <2>1. 0 \in 0 .. N /\ \A n \in 1 .. N : n \in 0 .. N /\ n # 0
    BY <1>1
  <2>2. h[0] = S
    BY <1>12, <2>1
  <2>3. ASSUME NEW n \in 1 .. N PROVE h[n] = Spread(t, h[n - 1])
    <3>1. h[n] = IF n = 0 THEN S ELSE Spread(t, h[n - 1])
      BY <1>12, <2>1
    <3> QED BY <2>1, <3>1
  <2> QED BY <2>2, <2>3
<1>14. 0 .. N \subseteq {n \in 0 .. N : h[n] \in T}
  <2> DEFINE I == {n \in 0 .. N : h[n] \in T}
  <2>1. 0 \in I
    BY <1>1, <1>13
  <2>2. ASSUME NEW n \in 1 .. N, n - 1 \in I PROVE n \in I
    <3>1. h[n - 1] \in T /\ n \in 0 .. N
      BY <1>1, <2>2
    <3> QED BY <1>2, <1>13, <3>1
  <2>3. 0 .. N \subseteq I
    <3> HIDE DEF I
    <3> QED BY <1>1, <2>1, <2>2, Steps
  <2> QED BY <2>3
<1>15. h \in [0 .. N -> T]
  BY <1>12, <1>14
<1>16. Rounds(t, S, h)
  BY <1>11, <1>13, <1>15 DEF N, Rounds
<1> QED BY <1>16

LEMMA BelowHas ==
    ASSUME NEW t, Tree(t), NEW S \in SUBSET DOMAIN t
    PROVE  S \subseteq Below(t, S) /\ Below(t, S) \subseteq DOMAIN t
<1> DEFINE N == Cardinality(DOMAIN t)
<1>0. PICK f : Rounds(t, S, f)
  BY BelowExists
<1>1. /\ f \in [0 .. N -> SUBSET DOMAIN t] /\ f[0] = S /\ Below(t, S) = f[N]
      /\ \A n \in 1 .. N : f[n] = Spread(t, f[n - 1])
  BY <1>0 DEF Rounds
<1>2. N \in Nat
  BY DomainSize
<1> DEFINE I == {n \in 0 .. N : S \subseteq f[n]}
<1>3. 0 \in I
  BY <1>1, <1>2
<1>4. ASSUME NEW n \in 1 .. N, n - 1 \in I PROVE n \in I
  <2>1. n \in 0 .. N /\ S \subseteq f[n - 1]
    BY <1>2, <1>4
  <2> QED BY <1>1, <2>1 DEF Spread
<1>5. 0 .. N \subseteq I
  <2> HIDE DEF I
  <2> QED BY <1>2, <1>3, <1>4, Steps
<1>6. N \in 0 .. N
  BY <1>2
<1> QED BY <1>1, <1>5, <1>6

LEMMA BelowLeast ==
    ASSUME NEW t, Tree(t), NEW S \in SUBSET DOMAIN t, NEW X, S \subseteq X,
           \A x \in X \cap DOMAIN t : Children(t, x) \subseteq X
    PROVE  Below(t, S) \subseteq X
<1> DEFINE N == Cardinality(DOMAIN t)
<1>0. PICK f : Rounds(t, S, f)
  BY BelowExists
<1>1. /\ f \in [0 .. N -> SUBSET DOMAIN t] /\ f[0] = S /\ Below(t, S) = f[N]
      /\ \A n \in 1 .. N : f[n] = Spread(t, f[n - 1])
  BY <1>0 DEF Rounds
<1>2. N \in Nat
  BY DomainSize
<1> DEFINE I == {n \in 0 .. N : f[n] \subseteq X}
<1>3. 0 \in I
  BY <1>1, <1>2
<1>4. ASSUME NEW n \in 1 .. N, n - 1 \in I PROVE n \in I
  <2>1. n \in 0 .. N /\ n - 1 \in 0 .. N /\ f[n - 1] \subseteq X
    BY <1>2, <1>4
  <2>2. f[n - 1] \subseteq DOMAIN t
    BY <1>1, <2>1
  <2> QED BY <1>1, <2>1, <2>2 DEF Spread
<1>5. 0 .. N \subseteq I
  <2> HIDE DEF I
  <2> QED BY <1>2, <1>3, <1>4, Steps
<1>6. N \in 0 .. N
  BY <1>2
<1> QED BY <1>1, <1>5, <1>6

(* Each round adds an object or is the last that could, and there are not    *)
(* more objects than rounds.                                                 *)
LEMMA BelowClosed ==
    ASSUME NEW t, Tree(t), NEW S \in SUBSET DOMAIN t, NEW x \in Below(t, S)
    PROVE  Children(t, x) \subseteq Below(t, S)
<1> DEFINE N == Cardinality(DOMAIN t)
<1>0. PICK f : Rounds(t, S, f)
  BY BelowExists
<1>1. /\ f \in [0 .. N -> SUBSET DOMAIN t] /\ f[0] = S /\ Below(t, S) = f[N]
      /\ \A n \in 1 .. N : f[n] = Spread(t, f[n - 1])
  BY <1>0 DEF Rounds
<1>2. N \in Nat /\ IsFiniteSet(DOMAIN t)
  BY DomainSize
<1>3. \A X \in SUBSET DOMAIN t : IsFiniteSet(X) /\ Cardinality(X) \in Nat /\ Cardinality(X) <= N
                                 /\ (Cardinality(X) = N => X = DOMAIN t)
  BY <1>2, FS_Subset, FS_CardinalityType
<1> DEFINE I == {n \in 0 .. N : Spread(t, f[n]) = f[n] \/ Cardinality(f[n]) >= n}
<1>4. 0 \in I
  <2>1. Cardinality(f[0]) \in Nat
    BY <1>1, <1>2, <1>3
  <2> QED BY <1>2, <2>1
<1>5. ASSUME NEW n \in 1 .. N, n - 1 \in I PROVE n \in I
  <2>1. n \in 0 .. N /\ n - 1 \in 0 .. N /\ f[n] = Spread(t, f[n - 1])
    BY <1>1, <1>2, <1>5
  <2>2. CASE Spread(t, f[n - 1]) = f[n - 1]
    BY <2>1, <2>2
  <2>3. CASE Spread(t, f[n - 1]) # f[n - 1] /\ Cardinality(f[n - 1]) >= n - 1
    <3>1. f[n - 1] \subseteq f[n] /\ f[n - 1] # f[n] /\ f[n] \in SUBSET DOMAIN t /\ f[n - 1] \in SUBSET DOMAIN t
      BY <1>1, <2>1, <2>3 DEF Spread
    <3>2. Cardinality(f[n - 1]) \in Nat /\ Cardinality(f[n]) \in Nat /\ IsFiniteSet(f[n])
      BY <1>3, <3>1
    <3>3. Cardinality(f[n - 1]) <= Cardinality(f[n]) /\ Cardinality(f[n - 1]) # Cardinality(f[n])
      BY <3>1, <3>2, FS_Subset
    <3> QED BY <2>1, <2>3, <3>2, <3>3
  <2> QED BY <1>5, <2>2, <2>3
<1>6. N \in I
  <2>1. 0 .. N \subseteq I
    <3> HIDE DEF I
    <3> QED BY <1>2, <1>4, <1>5, Steps
  <2> QED BY <1>2, <2>1
<1>7. f[N] \in SUBSET DOMAIN t
  BY <1>1, <1>2
<1>8. CASE Spread(t, f[N]) = f[N]
  BY <1>1, <1>8 DEF Spread
<1>9. CASE Cardinality(f[N]) >= N
  <2>1. f[N] = DOMAIN t
    BY <1>2, <1>3, <1>7, <1>9
  <2> QED BY <1>1, <2>1, ChildrenOf
<1> QED BY <1>6, <1>8, <1>9

LEMMA NothingTaken ==
    ASSUME NEW t, Tree(t), NEW u, Tree(u), DOMAIN t \subseteq DOMAIN u,
           \A x \in DOMAIN t : Children(t, x) \subseteq Children(u, x)
    PROVE  Below(t, {root}) \subseteq Below(u, {root})
<1> DEFINE R == Below(u, {root})
<1>1. {root} \in SUBSET DOMAIN t /\ {root} \in SUBSET DOMAIN u
  BY DEF Tree, DirsOf
<1>2. {root} \subseteq R
  BY <1>1, BelowHas
<1>3. \A x \in R : Children(u, x) \subseteq R
  BY <1>1, BelowClosed
<1>4. \A x \in R \cap DOMAIN t : Children(t, x) \subseteq R
  BY <1>3
<1> HIDE DEF R
<1>5. Below(t, {root}) \subseteq R
  BY <1>1, <1>2, <1>4, BelowLeast
<1> QED BY <1>5 DEF R

(* Where only o is taken out of lists, what is lost is below o, and o is.    *)
LEMMA OneTaken ==
    ASSUME NEW t, Tree(t), NEW u, Tree(u), DOMAIN t \subseteq DOMAIN u, NEW o \in DOMAIN t,
           \A x \in DOMAIN t : Children(t, x) \ {o} \subseteq Children(u, x)
    PROVE  LET lost == Below(t, {root}) \ Below(u, {root})
           IN  lost # {} => o \in lost /\ lost \subseteq Below(t, {o})
<1> DEFINE R == Below(t, {root})
           Q == Below(u, {root})
           B == Below(t, {o})
<1>1. {root} \in SUBSET DOMAIN t /\ {root} \in SUBSET DOMAIN u /\ {o} \in SUBSET DOMAIN t
  BY DEF Tree, DirsOf
<1>2. root \in R /\ root \in Q /\ o \in B
  BY <1>1, BelowHas
<1>3. \A x \in R : Children(t, x) \subseteq R
  BY <1>1, BelowClosed
<1>4. \A x \in Q : Children(u, x) \subseteq Q
  BY <1>1, BelowClosed
<1>5. \A x \in B : Children(t, x) \subseteq B
  BY <1>1, BelowClosed
<1> HIDE DEF Q, B
<1>6. R \subseteq Q \cup B
  <2> DEFINE X == Q \cup B
  <2>1. {root} \subseteq X
    BY <1>2
  <2>2. \A x \in X \cap DOMAIN t : Children(t, x) \subseteq X
    BY <1>2, <1>4, <1>5
  <2> HIDE DEF X
  <2>3. R \subseteq X
    BY <1>1, <2>1, <2>2, BelowLeast
  <2> QED BY <2>3 DEF X
<1>7. o \in Q => R \subseteq Q
  <2> SUFFICES ASSUME o \in Q PROVE R \subseteq Q
    OBVIOUS
  <2>1. \A x \in Q \cap DOMAIN t : Children(t, x) \subseteq Q
    BY <1>4
  <2>2. {root} \subseteq Q
    BY <1>2
  <2> QED BY <1>1, <2>1, <2>2, BelowLeast
<1>8. o \notin R => R \subseteq Q
  <2> SUFFICES ASSUME o \notin R PROVE R \subseteq Q
    OBVIOUS
  <2> DEFINE X == R \cap Q
  <2>1. {root} \subseteq X
    BY <1>2
  <2>2. \A x \in X \cap DOMAIN t : Children(t, x) \subseteq X
    <3> HIDE DEF R
    <3> QED BY <1>3, <1>4
  <2>3. R \subseteq X
    <3> HIDE DEF X
    <3> QED BY <1>1, <2>1, <2>2, BelowLeast
  <2> QED BY <2>3
<1> HIDE DEF R
<1> QED BY <1>6, <1>7, <1>8 DEF R, Q, B

-----------------------------------------------------------------------------
(* Lists and parents: an object is in its parent's list, and in no other.    *)

Placed(t) ==
    /\ \A d \in DOMAIN t : Distinct(t[d].dirs) /\ Distinct(t[d].files)
    /\ \A d \in DOMAIN t : \A o \in Children(t, d) : t[o].parent = d
    /\ \A o \in DOMAIN t \ {root} : t[o].parent # NULL => o \in Children(t, t[o].parent)

(* What the lists of a directory hold after an object joined them or left.   *)
LEMMA ListsAdd ==
    ASSUME NEW t, Tree(t), NEW o \in DOMAIN t, NEW p \in DirsOf(t), NEW x \in DOMAIN t
    PROVE  LET ds == IF x = p /\ t[o].kind = "dir" THEN Append(t[x].dirs, o) ELSE t[x].dirs
               fs == IF x = p /\ t[o].kind = "file" THEN Append(t[x].files, o) ELSE t[x].files
           IN  /\ ToSet(ds) \cup ToSet(fs) = IF x = p THEN Children(t, x) \cup {o} ELSE Children(t, x)
               /\ Distinct(t[x].dirs) /\ Distinct(t[x].files) /\ o \notin Children(t, x)
                  => Distinct(ds) /\ Distinct(fs)
<1>1. /\ t[x].dirs \in Seq(DirsOf(t)) /\ t[x].files \in Seq(DOMAIN t \ DirsOf(t))
      /\ t[o].kind \in {"dir", "file"}
  BY TreeParts
<1>2. CASE t[o].kind = "dir"
  <2>1. o \in DirsOf(t)
    BY <1>2 DEF DirsOf
  <2>2. /\ ToSet(Append(t[x].dirs, o)) = ToSet(t[x].dirs) \cup {o}
        /\ Distinct(t[x].dirs) /\ o \notin ToSet(t[x].dirs) => Distinct(Append(t[x].dirs, o))
    BY <1>1, <2>1, AppendKeeps
  <2> QED BY <1>2, <2>2 DEF Children
<1>3. CASE t[o].kind = "file"
  <2>1. o \in DOMAIN t \ DirsOf(t)
    BY <1>3 DEF DirsOf
  <2>2. /\ ToSet(Append(t[x].files, o)) = ToSet(t[x].files) \cup {o}
        /\ Distinct(t[x].files) /\ o \notin ToSet(t[x].files) => Distinct(Append(t[x].files, o))
    BY <1>1, <2>1, AppendKeeps
  <2> QED BY <1>3, <2>2 DEF Children
<1> QED BY <1>1, <1>2, <1>3

LEMMA AddLists ==
    ASSUME NEW t, Tree(t), NEW o \in DOMAIN t, NEW p \in DirsOf(t)
    PROVE  LET u == addToParent(t, o, p)
           IN  \A x \in DOMAIN t :
                  /\ Children(u, x) = IF x = p THEN Children(t, x) \cup {o} ELSE Children(t, x)
                  /\ Distinct(t[x].dirs) /\ Distinct(t[x].files) /\ o \notin Children(t, x)
                     => Distinct(u[x].dirs) /\ Distinct(u[x].files)
                  /\ x # p => u[x].dirs = t[x].dirs /\ u[x].files = t[x].files
<1> DEFINE u == addToParent(t, o, p)
<1>1. \A x \in DOMAIN t :
          /\ u[x].dirs = IF x = p /\ t[o].kind = "dir" THEN Append(t[x].dirs, o) ELSE t[x].dirs
          /\ u[x].files = IF x = p /\ t[o].kind = "file" THEN Append(t[x].files, o) ELSE t[x].files
  BY AddEffect
<1> HIDE DEF u
<1>2. ASSUME NEW x \in DOMAIN t
      PROVE  /\ Children(u, x) = IF x = p THEN Children(t, x) \cup {o} ELSE Children(t, x)
             /\ Distinct(t[x].dirs) /\ Distinct(t[x].files) /\ o \notin Children(t, x)
                => Distinct(u[x].dirs) /\ Distinct(u[x].files)
             /\ x # p => u[x].dirs = t[x].dirs /\ u[x].files = t[x].files
  <2>1. /\ u[x].dirs = IF x = p /\ t[o].kind = "dir" THEN Append(t[x].dirs, o) ELSE t[x].dirs
        /\ u[x].files = IF x = p /\ t[o].kind = "file" THEN Append(t[x].files, o) ELSE t[x].files
    BY <1>1
  <2> QED BY <2>1, ListsAdd DEF Children
<1> QED BY <1>2 DEF u

LEMMA AddPlaced ==
    ASSUME NEW t, Tree(t), Placed(t), NEW o \in DOMAIN t, NEW p \in DirsOf(t), t[o].parent = NULL
    PROVE  Placed(addToParent(t, o, p))
<1> DEFINE u == addToParent(t, o, p)
<1>1. /\ DOMAIN u = DOMAIN t
      /\ \A x \in DOMAIN t : u[x].parent = IF x = o THEN p ELSE t[x].parent
  BY AddEffect
<1>2. \A x \in DOMAIN t :
          /\ Children(u, x) = IF x = p THEN Children(t, x) \cup {o} ELSE Children(t, x)
          /\ Distinct(t[x].dirs) /\ Distinct(t[x].files) /\ o \notin Children(t, x)
             => Distinct(u[x].dirs) /\ Distinct(u[x].files)
  BY AddLists
<1> HIDE DEF u
<1>3. p \in DOMAIN t /\ \A x \in DOMAIN t : x # NULL /\ Children(t, x) \subseteq DOMAIN t
  BY TreeParts, ChildrenOf DEF DirsOf
<1>4. \A x \in DOMAIN t : o \notin Children(t, x)
  BY <1>3 DEF Placed
<1>5. ASSUME NEW d \in DOMAIN u PROVE Distinct(u[d].dirs) /\ Distinct(u[d].files)
  BY <1>1, <1>2, <1>4, <1>5 DEF Placed
<1>6. ASSUME NEW d \in DOMAIN u, NEW x \in Children(u, d) PROVE u[x].parent = d
  <2>1. CASE x = o
    BY <1>1, <1>2, <1>3, <1>4, <1>6, <2>1
  <2>2. CASE x # o
    <3>1. x \in Children(t, d) /\ x \in DOMAIN t
      BY <1>1, <1>2, <1>3, <1>6, <2>2
    <3> QED BY <1>1, <2>2, <3>1 DEF Placed
  <2> QED BY <2>1, <2>2
<1>7. ASSUME NEW x \in DOMAIN u \ {root}, u[x].parent # NULL PROVE x \in Children(u, u[x].parent)
  <2>1. CASE x = o
    BY <1>1, <1>2, <1>3, <2>1
  <2>2. CASE x # o
    <3>1. u[x].parent = t[x].parent /\ x \in Children(t, t[x].parent)
      BY <1>1, <1>7, <2>2 DEF Placed
    <3>2. t[x].parent \in DOMAIN t
      BY <1>1, <1>7, <3>1, TreeParts DEF DirsOf
    <3> QED BY <1>2, <3>1, <3>2
  <2> QED BY <2>1, <2>2
<1>8. Placed(u)
  BY <1>5, <1>6, <1>7 DEF Placed
<1> QED BY <1>8 DEF u

(* Only the first place of o goes; where lists are Distinct, it was the last.*)
LEMMA DeleteLists ==
    ASSUME NEW t, Tree(t), NEW o \in DOMAIN t, t[o].parent # NULL
    PROVE  LET u == deleteFileSystem(t, o)
           IN  \A x \in DOMAIN t :
                  /\ Children(u, x) \subseteq Children(t, x) /\ Children(t, x) \ {o} \subseteq Children(u, x)
                  /\ x # t[o].parent => u[x].dirs = t[x].dirs /\ u[x].files = t[x].files
                  /\ Distinct(t[x].dirs) /\ Distinct(t[x].files)
                     => /\ Distinct(u[x].dirs) /\ Distinct(u[x].files)
                        /\ x = t[o].parent => Children(u, x) = Children(t, x) \ {o}
<1> DEFINE u == deleteFileSystem(t, o)
<1>1. \A x \in DOMAIN t :
          /\ u[x].dirs = IF x = t[o].parent THEN RemoveFirst(t[x].dirs, o) ELSE t[x].dirs
          /\ u[x].files = IF x = t[o].parent THEN RemoveFirst(t[x].files, o) ELSE t[x].files
  BY DeleteEffect
<1> HIDE DEF u
<1>2. ASSUME NEW x \in DOMAIN t
      PROVE  /\ Children(u, x) \subseteq Children(t, x) /\ Children(t, x) \ {o} \subseteq Children(u, x)
             /\ x # t[o].parent => u[x].dirs = t[x].dirs /\ u[x].files = t[x].files
             /\ Distinct(t[x].dirs) /\ Distinct(t[x].files)
                => /\ Distinct(u[x].dirs) /\ Distinct(u[x].files)
                   /\ x = t[o].parent => Children(u, x) = Children(t, x) \ {o}
  <2>1. t[x].dirs \in Seq(DirsOf(t)) /\ t[x].files \in Seq(DOMAIN t \ DirsOf(t))
    BY TreeParts
  <2>2. /\ ToSet(RemoveFirst(t[x].dirs, o)) \subseteq ToSet(t[x].dirs)
        /\ ToSet(t[x].dirs) \ {o} \subseteq ToSet(RemoveFirst(t[x].dirs, o))
        /\ Distinct(t[x].dirs) => /\ Distinct(RemoveFirst(t[x].dirs, o))
                                  /\ ToSet(RemoveFirst(t[x].dirs, o)) = ToSet(t[x].dirs) \ {o}
    BY <2>1, RemoveFirstKeeps
  <2>3. /\ ToSet(RemoveFirst(t[x].files, o)) \subseteq ToSet(t[x].files)
        /\ ToSet(t[x].files) \ {o} \subseteq ToSet(RemoveFirst(t[x].files, o))
        /\ Distinct(t[x].files) => /\ Distinct(RemoveFirst(t[x].files, o))
                                   /\ ToSet(RemoveFirst(t[x].files, o)) = ToSet(t[x].files) \ {o}
    BY <2>1, RemoveFirstKeeps
  <2>4. CASE x = t[o].parent
    <3>1. u[x].dirs = RemoveFirst(t[x].dirs, o) /\ u[x].files = RemoveFirst(t[x].files, o)
      BY <1>1, <2>4
    <3> QED BY <2>2, <2>3, <2>4, <3>1 DEF Children
  <2>5. CASE x # t[o].parent
    BY <1>1, <2>5 DEF Children
  <2> QED BY <2>4, <2>5
<1> QED BY <1>2 DEF u

LEMMA DeletePlaced ==
    ASSUME NEW t, Tree(t), Placed(t), NEW o \in DOMAIN t, t[o].parent # NULL
    PROVE  Placed(deleteFileSystem(t, o))
<1> DEFINE u == deleteFileSystem(t, o)
<1>1. /\ DOMAIN u = DOMAIN t
      /\ \A x \in DOMAIN t : u[x].parent = IF x = o THEN NULL ELSE t[x].parent
  BY DeleteEffect
<1>2. \A x \in DOMAIN t :
          /\ Children(u, x) \subseteq Children(t, x) /\ Children(t, x) \ {o} \subseteq Children(u, x)
          /\ Distinct(u[x].dirs) /\ Distinct(u[x].files)
          /\ x = t[o].parent => Children(u, x) = Children(t, x) \ {o}
  BY DeleteLists DEF Placed
<1> HIDE DEF u
<1>3. \A x \in DOMAIN t : Children(t, x) \subseteq DOMAIN t /\ (t[x].parent # NULL => t[x].parent \in DOMAIN t)
  BY TreeParts, ChildrenOf DEF DirsOf
<1>4. ASSUME NEW d \in DOMAIN u, NEW x \in Children(u, d) PROVE u[x].parent = d
  <2>1. x \in Children(t, d) /\ x \in DOMAIN t /\ t[x].parent = d
    BY <1>1, <1>2, <1>3, <1>4 DEF Placed
  <2>2. x # o
    BY <1>1, <1>2, <1>4, <2>1
  <2> QED BY <1>1, <2>1, <2>2
<1>5. ASSUME NEW x \in DOMAIN u \ {root}, u[x].parent # NULL PROVE x \in Children(u, u[x].parent)
  <2>1. x # o /\ u[x].parent = t[x].parent /\ x \in DOMAIN t
    BY <1>1, <1>5
  <2>2. x \in Children(t, t[x].parent) /\ t[x].parent \in DOMAIN t
    BY <1>3, <1>5, <2>1 DEF Placed
  <2> QED BY <1>2, <2>1, <2>2
<1>6. Placed(u)
  BY <1>1, <1>2, <1>4, <1>5 DEF Placed
<1> QED BY <1>6 DEF u

(* A new object is listed once, by its parent.                               *)
LEMMA NewLists ==
    ASSUME NEW t, Tree(t), NEW kind \in {"dir", "file"}, NEW name \in Word, NEW p \in DirsOf(t)
    PROVE  LET u == NewObject(t, kind, name, p)
               o == Cardinality(DOMAIN t)
           IN  /\ Children(u, o) = {} /\ Distinct(u[o].dirs) /\ Distinct(u[o].files)
               /\ \A x \in DOMAIN t :
                  /\ Children(u, x) = IF x = p THEN Children(t, x) \cup {o} ELSE Children(t, x)
                  /\ Distinct(t[x].dirs) /\ Distinct(t[x].files) => Distinct(u[x].dirs) /\ Distinct(u[x].files)
                  /\ x # p => u[x].dirs = t[x].dirs /\ u[x].files = t[x].files
<1> DEFINE o == Cardinality(DOMAIN t)
           g == Grown(t, kind, name)
           u == addToParent(g, o, p)
<1>1. u = NewObject(t, kind, name, p)
  BY DEF NewObject, Grown
<1>2. /\ Tree(g) /\ DOMAIN g = DOMAIN t \cup {o} /\ o \notin DOMAIN t /\ p \in DirsOf(g)
      /\ \A x \in DOMAIN t : g[x] = t[x]
      /\ g[o].dirs = <<>> /\ g[o].files = <<>>
  <2>1. /\ Tree(g) /\ DOMAIN g = DOMAIN t \cup {o} /\ o \notin DOMAIN t
        /\ DirsOf(g) = IF kind = "dir" THEN DirsOf(t) \cup {o} ELSE DirsOf(t)
        /\ \A x \in DOMAIN t : g[x] = t[x]
        /\ g[o] = [kind |-> kind, name |-> name, parent |-> NULL, dirs |-> <<>>, files |-> <<>>]
    BY GrownEffect, Zenon
  <2> HIDE DEF g, o
  <2> QED BY <2>1
<1> HIDE DEF g
<1>9. o \in DOMAIN g
  BY <1>2
<1>3. \A x \in DOMAIN g :
          /\ Children(u, x) = IF x = p THEN Children(g, x) \cup {o} ELSE Children(g, x)
          /\ Distinct(g[x].dirs) /\ Distinct(g[x].files) /\ o \notin Children(g, x)
             => Distinct(u[x].dirs) /\ Distinct(u[x].files)
          /\ x # p => u[x].dirs = g[x].dirs /\ u[x].files = g[x].files
  BY <1>2, <1>9, AddLists
<1>4. o # p /\ p \in DOMAIN t
  BY <1>2 DEF DirsOf
<1> HIDE DEF u, o
<1>5. \A x \in DOMAIN t : Children(g, x) = Children(t, x) /\ o \notin Children(g, x)
  BY <1>2, ChildrenOf DEF Children
<1>6. Children(u, o) = {} /\ Distinct(u[o].dirs) /\ Distinct(u[o].files)
  <2>1. u[o].dirs = <<>> /\ u[o].files = <<>>
    BY <1>2, <1>3, <1>4
  <2>2. Len(<<>>) = 0 /\ DOMAIN <<>> = {}
    OBVIOUS
  <2> QED BY <2>1, <2>2 DEF Children, Distinct, ToSet
<1>7. ASSUME NEW x \in DOMAIN t
      PROVE  /\ Children(u, x) = IF x = p THEN Children(t, x) \cup {o} ELSE Children(t, x)
             /\ Distinct(t[x].dirs) /\ Distinct(t[x].files) => Distinct(u[x].dirs) /\ Distinct(u[x].files)
             /\ x # p => u[x].dirs = t[x].dirs /\ u[x].files = t[x].files
  <2>1. x \in DOMAIN g /\ g[x] = t[x] /\ Children(g, x) = Children(t, x) /\ o \notin Children(g, x)
    BY <1>2, <1>5
  <2> QED BY <1>3, <2>1
<1> QED BY <1>1, <1>6, <1>7 DEF o

LEMMA NewPlaced ==
    ASSUME NEW t, Tree(t), Placed(t), NEW kind \in {"dir", "file"}, NEW name \in Word, NEW p \in DirsOf(t)
    PROVE  Placed(NewObject(t, kind, name, p))
<1> DEFINE o == Cardinality(DOMAIN t)
           u == NewObject(t, kind, name, p)
<1>1. /\ DOMAIN u = DOMAIN t \cup {o} /\ o \notin DOMAIN t /\ u[o].parent = p
      /\ \A x \in DOMAIN t : u[x].parent = t[x].parent
  <2>1. NewIs(t, u, o, kind, name, p)
    BY NewEffect
  <2> HIDE DEF o, u
  <2> QED BY <2>1 DEF NewIs
<1>2. /\ Children(u, o) = {} /\ Distinct(u[o].dirs) /\ Distinct(u[o].files)
      /\ \A x \in DOMAIN t :
            /\ Children(u, x) = IF x = p THEN Children(t, x) \cup {o} ELSE Children(t, x)
            /\ Distinct(t[x].dirs) /\ Distinct(t[x].files) => Distinct(u[x].dirs) /\ Distinct(u[x].files)
  BY NewLists
<1> HIDE DEF o, u
<1>3. \A x \in DOMAIN t : Children(t, x) \subseteq DOMAIN t /\ (t[x].parent # NULL => t[x].parent \in DOMAIN t)
  BY TreeParts, ChildrenOf DEF DirsOf
<1>4. p \in DOMAIN t
  BY DEF DirsOf
<1>5. ASSUME NEW d \in DOMAIN u PROVE Distinct(u[d].dirs) /\ Distinct(u[d].files)
  BY <1>1, <1>2, <1>5 DEF Placed
<1>6. ASSUME NEW d \in DOMAIN u, NEW x \in Children(u, d) PROVE u[x].parent = d
  <2>1. d \in DOMAIN t
    BY <1>1, <1>2, <1>6
  <2>2. CASE x = o
    <3>1. o \notin Children(t, d)
      BY <1>1, <1>3, <2>1
    <3> QED BY <1>1, <1>2, <1>6, <2>1, <2>2, <3>1
  <2>3. CASE x # o
    <3>1. x \in Children(t, d) /\ x \in DOMAIN t
      BY <1>2, <1>3, <1>6, <2>1, <2>3
    <3> QED BY <1>1, <2>1, <3>1 DEF Placed
  <2> QED BY <2>2, <2>3
<1>7. ASSUME NEW x \in DOMAIN u \ {root}, u[x].parent # NULL PROVE x \in Children(u, u[x].parent)
  <2>1. CASE x = o
    BY <1>1, <1>2, <1>4, <2>1
  <2>2. CASE x # o
    <3>1. x \in DOMAIN t \ {root} /\ u[x].parent = t[x].parent
      BY <1>1, <1>7, <2>2
    <3>2. x \in Children(t, t[x].parent) /\ t[x].parent \in DOMAIN t
      BY <1>3, <1>7, <3>1 DEF Placed
    <3> QED BY <1>2, <3>1, <3>2
  <2> QED BY <2>1, <2>2
<1>8. Placed(u)
  BY <1>5, <1>6, <1>7 DEF Placed
<1> QED BY <1>8 DEF u

LEMMA RenamePlaced ==
    ASSUME NEW t, Tree(t), NEW o \in DOMAIN t, NEW name \in Word
    PROVE  LET u == Rename(t, o, name)
           IN  /\ \A x \in DOMAIN t : Children(u, x) = Children(t, x)
               /\ Placed(t) => Placed(u)
<1> DEFINE u == Rename(t, o, name)
<1>1. /\ DOMAIN u = DOMAIN t
      /\ \A x \in DOMAIN t : u[x].parent = t[x].parent /\ u[x].dirs = t[x].dirs /\ u[x].files = t[x].files
  BY RenameEffect
<1> HIDE DEF u
<1>2. \A x \in DOMAIN t : Children(u, x) = Children(t, x) /\ Children(t, x) \subseteq DOMAIN t
                          /\ (t[x].parent # NULL => t[x].parent \in DOMAIN t)
  BY <1>1, TreeParts, ChildrenOf DEF Children, DirsOf
<1>3. ASSUME Placed(t) PROVE Placed(u)
  <2>1. \A d \in DOMAIN u : Distinct(u[d].dirs) /\ Distinct(u[d].files)
    BY <1>1, <1>3 DEF Placed
  <2>2. \A d \in DOMAIN u : \A x \in Children(u, d) : u[x].parent = d
    BY <1>1, <1>2, <1>3 DEF Placed
  <2>3. \A x \in DOMAIN u \ {root} : u[x].parent # NULL => x \in Children(u, u[x].parent)
    BY <1>1, <1>2, <1>3 DEF Placed
  <2> QED BY <2>1, <2>2, <2>3 DEF Placed
<1> QED BY <1>2, <1>3 DEF u

-----------------------------------------------------------------------------
(* Copies.                                                                   *)

(* t is only added to.                                                       *)
Grows(t, u) ==
    /\ DOMAIN t \subseteq DOMAIN u
    /\ \A x \in DOMAIN t :
          /\ u[x].kind = t[x].kind /\ u[x].name = t[x].name /\ u[x].parent = t[x].parent
          /\ Children(t, x) \subseteq Children(u, x)
          /\ Len(u[x].dirs) >= Len(t[x].dirs) /\ Len(u[x].files) >= Len(t[x].files)

LEMMA GrowsAgain ==
    ASSUME NEW t, Tree(t), NEW u, Tree(u), NEW v, Tree(v), Grows(t, u), Grows(u, v)
    PROVE  Grows(t, v)
<1>1. ASSUME NEW x \in DOMAIN t
      PROVE  /\ v[x].kind = t[x].kind /\ v[x].name = t[x].name /\ v[x].parent = t[x].parent
             /\ Children(t, x) \subseteq Children(v, x)
             /\ Len(v[x].dirs) >= Len(t[x].dirs) /\ Len(v[x].files) >= Len(t[x].files)
  <2>1. x \in DOMAIN u /\ x \in DOMAIN v
    BY DEF Grows
  <2>2. /\ t[x].dirs \in Seq(DirsOf(t)) /\ t[x].files \in Seq(DOMAIN t \ DirsOf(t))
        /\ u[x].dirs \in Seq(DirsOf(u)) /\ u[x].files \in Seq(DOMAIN u \ DirsOf(u))
        /\ v[x].dirs \in Seq(DirsOf(v)) /\ v[x].files \in Seq(DOMAIN v \ DirsOf(v))
    BY <2>1, TreeParts
  <2>3. /\ Len(t[x].dirs) \in Nat /\ Len(t[x].files) \in Nat /\ Len(u[x].dirs) \in Nat
        /\ Len(u[x].files) \in Nat /\ Len(v[x].dirs) \in Nat /\ Len(v[x].files) \in Nat
    BY <2>2
  <2> QED BY <2>1, <2>3 DEF Grows
<1> QED BY <1>1 DEF Grows

LEMMA NewGrows ==
    ASSUME NEW t, Tree(t), NEW kind \in {"dir", "file"}, NEW name \in Word, NEW p \in DirsOf(t)
    PROVE  LET u == NewObject(t, kind, name, p)
           IN  Grows(t, u) /\ (kind = "dir" => Len(u[p].dirs) = Len(t[p].dirs) + 1)
<1> DEFINE u == NewObject(t, kind, name, p)
           o == Cardinality(DOMAIN t)
<1>1. NewIs(t, u, o, kind, name, p)
  BY NewEffect
<1>2. \A x \in DOMAIN t : Children(u, x) = IF x = p THEN Children(t, x) \cup {o} ELSE Children(t, x)
  BY NewLists
<1> HIDE DEF u, o
<1>3. p \in DOMAIN t
  BY DEF DirsOf
<1>4. ASSUME NEW x \in DOMAIN t
      PROVE  Len(u[x].dirs) >= Len(t[x].dirs) /\ Len(u[x].files) >= Len(t[x].files)
             /\ (x = p /\ kind = "dir" => Len(u[x].dirs) = Len(t[x].dirs) + 1)
  <2>1. t[x].dirs \in Seq(DirsOf(t)) /\ t[x].files \in Seq(DOMAIN t \ DirsOf(t))
    BY TreeParts
  <2>2. /\ Len(Append(t[x].dirs, o)) = Len(t[x].dirs) + 1 /\ Len(Append(t[x].files, o)) = Len(t[x].files) + 1
        /\ Len(t[x].dirs) \in Nat /\ Len(t[x].files) \in Nat
    BY <2>1
  <2>3. /\ u[x].dirs = IF x = p /\ kind = "dir" THEN Append(t[x].dirs, o) ELSE t[x].dirs
        /\ u[x].files = IF x = p /\ kind = "file" THEN Append(t[x].files, o) ELSE t[x].files
    BY <1>1 DEF NewIs
  <2> QED BY <2>2, <2>3
<1> QED BY <1>1, <1>2, <1>3, <1>4 DEF NewIs, Grows, u

(* Added once more to the list of its parent.                                *)
Again(t, o, p) ==
    IF t[o].kind = "file" THEN [t EXCEPT ![p].files = Append(@, o)]
                          ELSE [t EXCEPT ![p].dirs = Append(@, o)]

LEMMA AgainEffect ==
    ASSUME NEW t, Tree(t), NEW o \in DOMAIN t, NEW p \in DirsOf(t), t[o].parent = p
    PROVE  LET u == Again(t, o, p)
           IN  /\ Tree(u) /\ DirsOf(u) = DirsOf(t) /\ Grows(t, u)
               /\ t[o].kind = "dir" => Len(u[p].dirs) = Len(t[p].dirs) + 1
<1> DEFINE u == IF t[o].kind = "file" THEN [t EXCEPT ![p].files = Append(t[p].files, o)]
                                      ELSE [t EXCEPT ![p].dirs = Append(t[p].dirs, o)]
           w == addToParent(t, o, p)
<1>1. /\ Tree(w) /\ DOMAIN w = DOMAIN t /\ DirsOf(w) = DirsOf(t)
      /\ \A x \in DOMAIN t :
            /\ w[x].kind = t[x].kind /\ w[x].name = t[x].name
            /\ w[x].parent = IF x = o THEN p ELSE t[x].parent
            /\ w[x].dirs = IF x = p /\ t[o].kind = "dir" THEN Append(t[x].dirs, o) ELSE t[x].dirs
            /\ w[x].files = IF x = p /\ t[o].kind = "file" THEN Append(t[x].files, o) ELSE t[x].files
  BY AddEffect
<1>2. \A x \in DOMAIN t : Children(t, x) \subseteq Children(w, x)
  BY AddLists
<1> HIDE DEF w
<1>3. t = [x \in DOMAIN t |-> t[x]] /\ w = [x \in DOMAIN t |-> w[x]] /\ t[o].kind \in {"dir", "file"}
  BY <1>1, TreeParts DEF Tree
<1>4. ASSUME NEW x \in DOMAIN t PROVE u[x] = w[x]
  <2>1. t[x] = [kind |-> t[x].kind, name |-> t[x].name, parent |-> t[x].parent,
                dirs |-> t[x].dirs, files |-> t[x].files]
    BY TreeParts
  <2>2. w[x] = [kind |-> w[x].kind, name |-> w[x].name, parent |-> w[x].parent,
                dirs |-> w[x].dirs, files |-> w[x].files]
    <3>1. x \in DOMAIN w /\ Tree(w)
      BY <1>1
    <3> QED BY <3>1, TreeParts
  <2>3. w[x].kind = t[x].kind /\ w[x].name = t[x].name /\ w[x].parent = t[x].parent
    BY <1>1
  <2>4. CASE x # p
    <3>1. u[x] = t[x]
      BY <1>3, <2>4
    <3>2. w[x].dirs = t[x].dirs /\ w[x].files = t[x].files
      BY <1>1, <2>4
    <3> HIDE DEF u
    <3> QED BY <2>1, <2>2, <2>3, <3>1, <3>2
  <2>5. CASE x = p /\ t[o].kind = "file"
    <3>1. w[x].dirs = t[x].dirs /\ w[x].files = Append(t[x].files, o)
      BY <1>1, <2>5
    <3>2. u[x] = [kind |-> t[x].kind, name |-> t[x].name, parent |-> t[x].parent,
                  dirs |-> t[x].dirs, files |-> Append(t[x].files, o)]
      BY <1>3, <2>1, <2>5
    <3> HIDE DEF u
    <3> QED BY <2>2, <2>3, <3>1, <3>2
  <2>6. CASE x = p /\ t[o].kind = "dir"
    <3>1. w[x].dirs = Append(t[x].dirs, o) /\ w[x].files = t[x].files
      BY <1>1, <2>6
    <3>2. u[x] = [kind |-> t[x].kind, name |-> t[x].name, parent |-> t[x].parent,
                  dirs |-> Append(t[x].dirs, o), files |-> t[x].files]
      BY <1>3, <2>1, <2>6
    <3> HIDE DEF u
    <3> QED BY <2>2, <2>3, <3>1, <3>2
  <2> QED BY <1>3, <2>4, <2>5, <2>6
<1>5. u = w
  <2>1. u = [x \in DOMAIN t |-> u[x]]
    BY <1>3
  <2> HIDE DEF u
  <2> QED BY <1>3, <1>4, <2>1
<1>6. u = Again(t, o, p)
  BY DEF Again
<1> HIDE DEF u
<1>7. p \in DOMAIN t
  BY DEF DirsOf
<1>8. ASSUME NEW x \in DOMAIN t
      PROVE  Len(w[x].dirs) >= Len(t[x].dirs) /\ Len(w[x].files) >= Len(t[x].files)
             /\ (x = p /\ t[o].kind = "dir" => Len(w[x].dirs) = Len(t[x].dirs) + 1)
  <2>1. t[x].dirs \in Seq(DirsOf(t)) /\ t[x].files \in Seq(DOMAIN t \ DirsOf(t))
    BY TreeParts
  <2>2. /\ Len(Append(t[x].dirs, o)) = Len(t[x].dirs) + 1 /\ Len(Append(t[x].files, o)) = Len(t[x].files) + 1
        /\ Len(t[x].dirs) \in Nat /\ Len(t[x].files) \in Nat
    BY <2>1
  <2>3. /\ w[x].dirs = IF x = p /\ t[o].kind = "dir" THEN Append(t[x].dirs, o) ELSE t[x].dirs
        /\ w[x].files = IF x = p /\ t[o].kind = "file" THEN Append(t[x].files, o) ELSE t[x].files
    BY <1>1
  <2> QED BY <2>2, <2>3
<1>9. Grows(t, w)
  BY <1>1, <1>2, <1>8 DEF Grows
<1> QED BY <1>1, <1>5, <1>6, <1>7, <1>8, <1>9

LEMMA TwiceEffect ==
    ASSUME NEW t, Tree(t), NEW x \in DOMAIN t, NEW p \in DirsOf(t)
    PROVE  LET v == Twice(t, x, p)
           IN  /\ Tree(v) /\ Grows(t, v)
               /\ t[x].kind = "dir" => Len(v[p].dirs) = Len(t[p].dirs) + 2
<1> DEFINE kind == t[x].kind
           o == Cardinality(DOMAIN t)
           v == NewObject(t, kind, t[x].name, p)
           w == Again(v, o, p)
<1>1. kind \in {"dir", "file"} /\ t[x].name \in Word
  BY TreeParts
<1>2. NewIs(t, v, o, kind, t[x].name, p)
  BY <1>1, NewEffect
<1>3. Grows(t, v) /\ (kind = "dir" => Len(v[p].dirs) = Len(t[p].dirs) + 1)
  BY <1>1, NewGrows
<1>4. Twice(t, x, p) = IF kind = "file" THEN [v EXCEPT ![p].files = Append(@, Newest(v))]
                                        ELSE [v EXCEPT ![p].dirs = Append(@, Newest(v))]
  BY DEF Twice
<1> HIDE DEF v, o, kind
<1>5. Tree(v) /\ o \in DOMAIN v /\ v[o].kind = kind /\ v[o].parent = p /\ Newest(v) = o /\ p \in DirsOf(v)
  BY <1>2 DEF NewIs
<1>6. Twice(t, x, p) = w
  BY <1>4, <1>5 DEF Again
<1>7. /\ Tree(w) /\ DirsOf(w) = DirsOf(v) /\ Grows(v, w)
      /\ v[o].kind = "dir" => Len(w[p].dirs) = Len(v[p].dirs) + 1
  BY <1>5, AgainEffect
<1> HIDE DEF w
<1>8. Grows(t, w)
  BY <1>3, <1>5, <1>7, GrowsAgain
<1>9. Len(t[p].dirs) \in Nat
  <2>1. t[p].dirs \in Seq(DirsOf(t))
    BY TreeParts DEF DirsOf
  <2> QED BY <2>1
<1>10. kind = "dir" => Len(w[p].dirs) = Len(t[p].dirs) + 2
  BY <1>3, <1>5, <1>7, <1>9
<1> QED BY <1>6, <1>7, <1>8, <1>10 DEF kind

Job == [to : Nat, from : Nat, n : Nat]

(* What a call of cloneDirectory has copied stands in its directory, so that *)
(* the next directory it goes through is there.                              *)
JobOK(t, j) ==
    /\ j.to \in DirsOf(t) /\ j.from \in DirsOf(t) /\ j.n >= 1
    /\ Len(t[j.to].dirs) >= j.n - 1 - Len(t[j.from].files)

CloneOK(t, s) ==
    /\ s = [t |-> s.t, jobs |-> s.jobs] /\ Tree(s.t) /\ Grows(t, s.t)
    /\ s.jobs \in Seq(Job) /\ \A j \in ToSet(s.jobs) : JobOK(s.t, j)

LEMMA JobGrows ==
    ASSUME NEW t, Tree(t), NEW u, Tree(u), Grows(t, u), NEW j \in Job, JobOK(t, j)
    PROVE  JobOK(u, j)
<1>1. j.to \in DOMAIN t /\ j.from \in DOMAIN t /\ j.n \in Nat
  BY DEF JobOK, DirsOf, Job
<1>2. j.to \in DirsOf(u) /\ j.from \in DirsOf(u)
  BY <1>1 DEF JobOK, DirsOf, Grows
<1>3. Len(u[j.to].dirs) >= Len(t[j.to].dirs) /\ Len(u[j.from].files) >= Len(t[j.from].files)
  BY <1>1 DEF Grows
<1>4. Len(u[j.to].dirs) \in Nat /\ Len(t[j.to].dirs) \in Nat
      /\ Len(u[j.from].files) \in Nat /\ Len(t[j.from].files) \in Nat
  <2>1. t[j.to].dirs \in Seq(DirsOf(t)) /\ t[j.from].files \in Seq(DOMAIN t \ DirsOf(t))
    BY <1>1, TreeParts
  <2>2. u[j.to].dirs \in Seq(DirsOf(u)) /\ u[j.from].files \in Seq(DOMAIN u \ DirsOf(u))
    BY <1>2, TreeParts DEF DirsOf
  <2> QED BY <2>1, <2>2
<1>5. Len(t[j.to].dirs) >= j.n - 1 - Len(t[j.from].files) /\ j.n >= 1
  BY DEF JobOK
<1>6. Len(u[j.to].dirs) >= j.n - 1 - Len(u[j.from].files)
  <2> DEFINE a == Len(t[j.to].dirs)
             b == Len(u[j.to].dirs)
             c == Len(t[j.from].files)
             d == Len(u[j.from].files)
             n == j.n
  <2>1. a \in Nat /\ b \in Nat /\ c \in Nat /\ d \in Nat /\ n \in Nat /\ b >= a /\ d >= c /\ a >= n - 1 - c
    BY <1>1, <1>3, <1>4, <1>5
  <2> HIDE DEF a, b, c, d, n
  <2>2. b >= n - 1 - d
    BY <2>1
  <2> QED BY <2>2 DEF b, n, d
<1> QED BY <1>2, <1>5, <1>6 DEF JobOK

LEMMA CloneStep ==
    ASSUME NEW t, Tree(t), NEW s, CloneOK(t, s)
    PROVE  CloneOK(t, cloneNext(s))
<1> DEFINE job == Head(s.jobs)
           all == s.t[job.from].files \o s.t[job.from].dirs
           i   == job.n - Len(s.t[job.from].files)
           x   == all[job.n]
           v   == Twice(s.t, x, job.to)
           next == [to |-> job.to, from |-> job.from, n |-> job.n + 1]
           on  == <<next>> \o Tail(s.jobs)
           call == [to |-> v[job.to].dirs[i], from |-> x, n |-> 1]
<1>1. Tree(s.t) /\ Grows(t, s.t) /\ s.jobs \in Seq(Job) /\ s = [t |-> s.t, jobs |-> s.jobs]
  BY DEF CloneOK
<1>2. CASE s.jobs = <<>>
  BY <1>2 DEF cloneNext
<1>3. CASE s.jobs # <<>>
  <2>1. job \in Job /\ JobOK(s.t, job) /\ Tail(s.jobs) \in Seq(Job)
        /\ \A j \in ToSet(Tail(s.jobs)) : j \in Job /\ JobOK(s.t, j)
    <3>1. Len(s.jobs) \in Nat \ {0}
      BY <1>1, <1>3, EmptySeq
    <3>2. job = s.jobs[1] /\ Tail(s.jobs) \in Seq(Job) /\ Len(Tail(s.jobs)) = Len(s.jobs) - 1
          /\ \A k \in 1 .. Len(s.jobs) - 1 : Tail(s.jobs)[k] = s.jobs[k + 1]
      BY <1>1, <1>3, HeadTailProperties
    <3>3. \A k \in 1 .. Len(s.jobs) : s.jobs[k] \in Job /\ JobOK(s.t, s.jobs[k])
      BY <1>1 DEF CloneOK, ToSet
    <3>4. \A k \in 1 .. Len(Tail(s.jobs)) : Tail(s.jobs)[k] \in Job /\ JobOK(s.t, Tail(s.jobs)[k])
      BY <3>1, <3>2, <3>3
    <3> HIDE DEF job
    <3> QED BY <3>1, <3>2, <3>3, <3>4 DEF ToSet
  <2>2. job.to \in DirsOf(s.t) /\ job.from \in DirsOf(s.t) /\ job.from \in DOMAIN s.t /\ job.n \in Nat \ {0}
    <3> HIDE DEF job
    <3> QED BY <2>1 DEF JobOK, Job, DirsOf
  <2>3. s.t[job.from].files \in Seq(DOMAIN s.t \ DirsOf(s.t)) /\ s.t[job.from].dirs \in Seq(DirsOf(s.t))
    BY <1>1, <2>2, TreeParts
  <2>4. CASE job.n > Len(all)
    <3>1. cloneNext(s) = [s EXCEPT !.jobs = Tail(s.jobs)]
      BY <1>3, <2>4 DEF cloneNext
    <3>2. cloneNext(s) = [t |-> s.t, jobs |-> Tail(s.jobs)]
      BY <1>1, <3>1
    <3> QED BY <1>1, <2>1, <3>2 DEF CloneOK
  <2>5. CASE ~(job.n > Len(all))
    <3>1. /\ Len(s.t[job.from].files) \in Nat /\ Len(s.t[job.from].dirs) \in Nat /\ i \in Int
          /\ i < 1 => x \in ToSet(s.t[job.from].files)
          /\ i >= 1 => x \in ToSet(s.t[job.from].dirs)
      <4> DEFINE fs == s.t[job.from].files
                 ds == s.t[job.from].dirs
                 n == job.n
      <4>1. fs \in Seq(DOMAIN s.t) /\ ds \in Seq(DOMAIN s.t)
        <5>1. DirsOf(s.t) \subseteq DOMAIN s.t
          BY DEF DirsOf
        <5> HIDE DEF job
        <5> QED BY <2>3, <5>1, SeqMonotonic
      <4>2. n \in Nat \ {0} /\ ~(n > Len(fs \o ds)) /\ i = n - Len(fs) /\ x = (fs \o ds)[n]
        BY <2>2, <2>5
      <4> HIDE DEF fs, ds, n, x, i
      <4>3. Len(fs) \in Nat /\ Len(ds) \in Nat /\ Len(fs \o ds) = Len(fs) + Len(ds)
        BY <4>1
      <4>4. n <= Len(fs) + Len(ds)
        BY <4>2, <4>3
      <4>5. (n - Len(fs) < 1 => (fs \o ds)[n] \in ToSet(fs)) /\ (n - Len(fs) >= 1 => (fs \o ds)[n] \in ToSet(ds))
        BY <4>1, <4>2, <4>4, JoinAt
      <4>6. Len(fs) \in Nat /\ Len(ds) \in Nat /\ i \in Int
        BY <4>2, <4>3
      <4>7. (i < 1 => x \in ToSet(fs)) /\ (i >= 1 => x \in ToSet(ds))
        BY <4>2, <4>5
      <4> HIDE DEF job
      <4> QED BY <4>6, <4>7 DEF fs, ds
    <3>2. x \in DOMAIN s.t /\ (i < 1 => s.t[x].kind # "dir") /\ (i >= 1 => x \in DirsOf(s.t) /\ s.t[x].kind = "dir")
      <4>1. ToSet(s.t[job.from].dirs) \subseteq DirsOf(s.t)
            /\ ToSet(s.t[job.from].files) \subseteq DOMAIN s.t \ DirsOf(s.t)
        <5> HIDE DEF job
        <5> QED BY <1>1, <2>2, ChildrenOf
      <4> HIDE DEF x, i, job
      <4>2. i < 1 \/ i >= 1
        BY <3>1
      <4> QED BY <3>1, <4>1, <4>2 DEF DirsOf
    <3> HIDE DEF x
    <3>3. Tree(v) /\ Grows(s.t, v) /\ (s.t[x].kind = "dir" => Len(v[job.to].dirs) = Len(s.t[job.to].dirs) + 2)
      BY <1>1, <2>2, <3>2, TwiceEffect
    <3>4. Grows(t, v)
      BY <1>1, <3>3, GrowsAgain
    <3>5. cloneNext(s) = [t |-> v, jobs |-> IF i < 1 THEN on ELSE <<call>> \o on]
      <4>1. [job EXCEPT !.n = job.n + 1] = next
        <5> HIDE DEF job
        <5>1. job = [to |-> job.to, from |-> job.from, n |-> job.n]
          BY <2>1 DEF Job
        <5> QED BY <5>1
      <4>2. cloneNext(s) = [t |-> v, jobs |-> IF i < 1 THEN <<[job EXCEPT !.n = job.n + 1]>> \o Tail(s.jobs)
                                              ELSE <<call>> \o (<<[job EXCEPT !.n = job.n + 1]>> \o Tail(s.jobs))]
        BY <1>3, <2>5 DEF cloneNext, x
      <4> QED BY <4>1, <4>2
    <3> HIDE DEF v, call, job
    <3>6. \A j \in ToSet(Tail(s.jobs)) : JobOK(v, j)
      BY <1>1, <2>1, <3>3, JobGrows
    <3>7. job.to \in DOMAIN v /\ job.from \in DOMAIN v /\ job.to \in DOMAIN s.t
      BY <2>2, <3>3 DEF Grows, DirsOf
    <3>8. v[job.to].dirs \in Seq(DirsOf(v)) /\ v[job.from].files \in Seq(DOMAIN v \ DirsOf(v))
          /\ s.t[job.to].dirs \in Seq(DirsOf(s.t))
      BY <1>1, <3>3, <3>7, TreeParts
    <3> DEFINE a == Len(s.t[job.to].dirs)
               b == Len(v[job.to].dirs)
               c == Len(s.t[job.from].files)
               d == Len(v[job.from].files)
               n == job.n
    <3>9. /\ a \in Nat /\ b \in Nat /\ c \in Nat /\ d \in Nat /\ n \in Nat \ {0} /\ i = n - c
          /\ b >= a /\ d >= c /\ a >= n - 1 - c
          /\ i >= 1 => b = a + 2
      <4>1. a \in Nat /\ b \in Nat /\ c \in Nat /\ d \in Nat
        <5>1. a \in Nat /\ b \in Nat
          BY <3>8
        <5>2. c \in Nat
          BY <2>3
        <5>3. d \in Nat
          BY <3>8
        <5> QED BY <5>1, <5>2, <5>3
      <4>2. b >= a /\ d >= c
        BY <2>2, <3>3, <3>7 DEF Grows
      <4>3. a >= n - 1 - c
        BY <2>1 DEF JobOK
      <4>4. i >= 1 => b = a + 2
        BY <3>2, <3>3
      <4> QED BY <2>2, <4>1, <4>2, <4>3, <4>4
    <3> HIDE DEF a, b, c, d, n, i
    <3>10. b >= n + 1 - 1 - d /\ (i >= 1 => i \in 1 .. b)
      BY <3>1, <3>9
    <3>11. next \in Job /\ JobOK(v, next)
      <4>1. next \in Job
        BY <2>1, <2>2 DEF Job
      <4>2. JobOK(v, job)
        BY <1>1, <2>1, <3>3, JobGrows
      <4>4. next.to = job.to /\ next.from = job.from /\ next.n = job.n + 1
        OBVIOUS
      <4> HIDE DEF next
      <4>5. Len(v[next.to].dirs) >= next.n - 1 - Len(v[next.from].files) /\ next.n >= 1
        <5>1. next.n = n + 1 /\ b >= next.n - 1 - d /\ next.n >= 1
          BY <3>9, <3>10, <4>4 DEF n
        <5> QED BY <4>4, <5>1 DEF b, d
      <4>6. next.to \in DirsOf(v) /\ next.from \in DirsOf(v)
        BY <4>2, <4>4 DEF JobOK
      <4> QED BY <4>1, <4>5, <4>6 DEF JobOK
    <3>12. on \in Seq(Job) /\ \A j \in ToSet(on) : JobOK(v, j)
      <4> HIDE DEF next
      <4>1. <<next>> \in Seq(Job) /\ ToSet(<<next>>) = {next}
        BY <3>11 DEF ToSet
      <4>2. on \in Seq(Job) /\ ToSet(on) = ToSet(<<next>>) \cup ToSet(Tail(s.jobs))
        <5> DEFINE one == <<next>>
                   rest == Tail(s.jobs)
        <5>1. one \in Seq(Job) /\ rest \in Seq(Job)
          BY <2>1, <4>1
        <5>2. on = one \o rest
          OBVIOUS
        <5> HIDE DEF one, rest, on
        <5>3. one \o rest \in Seq(Job) /\ ToSet(one \o rest) = ToSet(one) \cup ToSet(rest)
          BY <5>1, JoinKeeps
        <5> QED BY <5>2, <5>3 DEF one, rest
      <4> HIDE DEF on
      <4> QED BY <3>6, <3>11, <4>1, <4>2
    <3> HIDE DEF on, next
    <3>13. ASSUME i >= 1 PROVE <<call>> \o on \in Seq(Job) /\ \A j \in ToSet(<<call>> \o on) : JobOK(v, j)
      <4>1. v[job.to].dirs[i] \in DirsOf(v) /\ x \in DirsOf(v)
        <5>1. v[job.to].dirs[i] \in DirsOf(v)
          BY <3>8, <3>10, <3>13 DEF b
        <5>2. x \in DirsOf(v)
          BY <3>2, <3>3, <3>13 DEF DirsOf, Grows
        <5> QED BY <5>1, <5>2
      <4>2. v[job.to].dirs[i] \in Nat /\ x \in Nat
        BY <3>3, <4>1, TreeParts DEF DirsOf
      <4>3. call \in Job /\ call.to = v[job.to].dirs[i] /\ call.from = x /\ call.n = 1
        BY <4>2 DEF Job, call
      <4>4. Len(v[call.to].dirs) \in Nat /\ Len(v[call.from].files) \in Nat
        <5>1. v[call.to].dirs \in Seq(DirsOf(v)) /\ v[call.from].files \in Seq(DOMAIN v \ DirsOf(v))
          BY <3>3, <4>1, <4>3, TreeParts DEF DirsOf
        <5> QED BY <5>1
      <4>5. JobOK(v, call)
        <5>1. Len(v[call.to].dirs) >= 1 - 1 - Len(v[call.from].files)
          BY <4>4
        <5> QED BY <4>1, <4>3, <5>1 DEF JobOK
      <4>6. <<call>> \in Seq(Job) /\ ToSet(<<call>>) = {call}
        BY <4>3 DEF ToSet
      <4>7. <<call>> \o on \in Seq(Job) /\ ToSet(<<call>> \o on) = ToSet(<<call>>) \cup ToSet(on)
        <5> DEFINE one == <<call>>
        <5>1. one \in Seq(Job)
          BY <4>6
        <5> HIDE DEF one
        <5>2. one \o on \in Seq(Job) /\ ToSet(one \o on) = ToSet(one) \cup ToSet(on)
          BY <3>12, <5>1, JoinKeeps
        <5> QED BY <5>2 DEF one
      <4> QED BY <3>12, <4>5, <4>6, <4>7
    <3>14. i < 1 \/ i >= 1
      BY <3>1
    <3> QED BY <3>3, <3>4, <3>5, <3>12, <3>13, <3>14 DEF CloneOK
  <2> QED BY <2>4, <2>5
<1> QED BY <1>2, <1>3

(* The set of all trees, and more.                                           *)
Bare == [kind : {"dir", "file"}, name : Word, parent : Nat \cup {NULL}, dirs : Seq(Nat), files : Seq(Nat)]
AnyTree == UNION {[0 .. n -> Bare] : n \in Nat}

LEMMA TreeIsAny ==
    ASSUME NEW t, Tree(t)
    PROVE  t \in AnyTree
<1>1. PICK n \in Nat : DOMAIN t = 0 .. n
  BY DEF Tree
<1>2. ASSUME NEW x \in DOMAIN t PROVE t[x] \in Bare
  <2>1. DirsOf(t) \subseteq Nat /\ DOMAIN t \ DirsOf(t) \subseteq Nat
    BY <1>1 DEF DirsOf
  <2>2. /\ t[x].kind \in {"dir", "file"} /\ t[x].name \in Word /\ t[x].parent \in DirsOf(t) \cup {NULL}
        /\ t[x].dirs \in Seq(DirsOf(t)) /\ t[x].files \in Seq(DOMAIN t \ DirsOf(t))
        /\ t[x] = [kind |-> t[x].kind, name |-> t[x].name, parent |-> t[x].parent,
                   dirs |-> t[x].dirs, files |-> t[x].files]
    BY TreeParts
  <2>3. t[x].dirs \in Seq(Nat) /\ t[x].files \in Seq(Nat)
    BY <2>1, <2>2, SeqMonotonic
  <2> QED BY <2>1, <2>2, <2>3 DEF Bare
<1>3. t = [x \in 0 .. n |-> t[x]]
  BY <1>1 DEF Tree
<1>4. t \in [0 .. n -> Bare]
  BY <1>1, <1>2, <1>3
<1> QED BY <1>4 DEF AnyTree

LEMMA CloneEffect ==
    ASSUME NEW t, Tree(t), NEW p \in DirsOf(t), NEW from \in DirsOf(t)
    PROVE  LET u == cloneDirectory(t, p, from)
           IN  /\ Tree(u) /\ Grows(t, u)
               /\ t[from].dirs = <<>> /\ t[from].files = <<>> => u = t
<1> DEFINE N == 2 * MaxObjects + 1
           start == [t |-> t, jobs |-> <<[to |-> p, from |-> from, n |-> 1]>>]
           done == [t |-> t, jobs |-> <<>>]
           T == {s \in [t : AnyTree, jobs : Seq(Job)] : CloneOK(t, s)}
           F == [n \in 1 .. N |-> [s \in T |-> cloneNext(s)]]
           Recursion(h) == h = [n \in 0 .. N |-> IF n = 0 THEN start ELSE cloneNext(h[n - 1])]
           u == cloneDirectory(t, p, from)
<1>1. N \in Nat /\ 0 \in 0 .. N /\ N \in 0 .. N
  BY ShellAssumption
<1>2. \A s : s \in T <=> CloneOK(t, s)
  <2>1. ASSUME NEW s, CloneOK(t, s) PROVE s \in T
    BY <2>1, TreeIsAny DEF CloneOK
  <2> QED BY <2>1
<1> HIDE DEF T
<1>3. start \in T
  <2> DEFINE j == [to |-> p, from |-> from, n |-> 1]
  <2>1. p \in DOMAIN t /\ from \in DOMAIN t
    BY DEF DirsOf
  <2>2. j \in Job
    BY <2>1, TreeParts DEF Job
  <2>3. Len(t[p].dirs) \in Nat /\ Len(t[from].files) \in Nat
    <3>1. t[p].dirs \in Seq(DirsOf(t)) /\ t[from].files \in Seq(DOMAIN t \ DirsOf(t))
      BY <2>1, TreeParts
    <3> QED BY <3>1
  <2>4. JobOK(t, j)
    <3>1. Len(t[p].dirs) >= 1 - 1 - Len(t[from].files)
      BY <2>3
    <3> QED BY <3>1 DEF JobOK
  <2> HIDE DEF j
  <2>5. <<j>> \in Seq(Job) /\ ToSet(<<j>>) = {j}
    BY <2>2 DEF ToSet
  <2>6. Grows(t, t)
    <3>1. ASSUME NEW x \in DOMAIN t PROVE Len(t[x].dirs) \in Nat /\ Len(t[x].files) \in Nat
      <4>1. t[x].dirs \in Seq(DirsOf(t)) /\ t[x].files \in Seq(DOMAIN t \ DirsOf(t))
        BY TreeParts
      <4> QED BY <4>1
    <3> QED BY <3>1 DEF Grows
  <2>7. CloneOK(t, [t |-> t, jobs |-> <<j>>])
    BY <2>4, <2>5, <2>6 DEF CloneOK
  <2> QED BY <1>2, <2>7 DEF j
<1>4. \A s \in T : cloneNext(s) \in T
  BY <1>2, CloneStep
<1>5. F \in [1 .. N -> [T -> T]] /\ \A n \in 1 .. N : \A s \in T : F[n][s] = cloneNext(s)
  BY <1>4
<1> HIDE DEF N, F, start, done
<1>6. PICK f \in [0 .. N -> T] : Iterates(f, N, start, F)
  BY <1>1, <1>3, <1>5, IterationExists
<1>7. ASSUME NEW n \in 0 .. N PROVE f[n] = IF n = 0 THEN start ELSE cloneNext(f[n - 1])
  <2>1. f[0] = start
    BY <1>6 DEF Iterates
  <2>2. CASE n # 0
    <3>1. n \in 1 .. N /\ n - 1 \in 0 .. N
      BY <1>1, <2>2
    <3>2. f[n - 1] \in T
      BY <1>6, <3>1
    <3> QED BY <1>5, <1>6, <2>2, <3>1, <3>2 DEF Iterates
  <2> QED BY <2>1, <2>2
<1>8. Recursion(f)
  BY <1>6, <1>7
<1> DEFINE h == CHOOSE h : Recursion(h)
<1>9. Recursion(h)
  BY <1>8
<1>10. u = h[N].t
  BY DEF cloneDirectory, N, start
<1> HIDE DEF u
<1>11. \A n \in 0 .. N : h[n] = IF n = 0 THEN start ELSE cloneNext(h[n - 1])
  BY <1>9
<1> HIDE DEF h
<1>12. h[0] = start /\ \A n \in 1 .. N : h[n] = cloneNext(h[n - 1])
  <2>1. ASSUME NEW n \in 1 .. N PROVE n \in 0 .. N /\ n # 0
    BY <1>1
  <2>2. ASSUME NEW n \in 1 .. N PROVE h[n] = cloneNext(h[n - 1])
    <3>1. h[n] = IF n = 0 THEN start ELSE cloneNext(h[n - 1])
      BY <1>11, <2>1
    <3> QED BY <2>1, <3>1
  <2>3. h[0] = start
    BY <1>1, <1>11
  <2> QED BY <2>2, <2>3
<1>13. h[N] \in T
  <2> DEFINE I == {n \in 0 .. N : h[n] \in T}
  <2>1. 0 \in I
    BY <1>1, <1>3, <1>12
  <2>2. ASSUME NEW n \in 1 .. N, n - 1 \in I PROVE n \in I
    <3>1. h[n - 1] \in T /\ n \in 0 .. N
      BY <1>1, <2>2
    <3> QED BY <1>4, <1>12, <3>1
  <2>3. 0 .. N \subseteq I
    <3> HIDE DEF I
    <3> QED BY <1>1, <2>1, <2>2, Steps
  <2> QED BY <1>1, <2>3
<1>14. Tree(u) /\ Grows(t, u)
  BY <1>2, <1>10, <1>13 DEF CloneOK
<1>15. ASSUME t[from].dirs = <<>>, t[from].files = <<>> PROVE u = t
  <2>1. cloneNext(done) = done
    BY DEF cloneNext, done
  <2>2. cloneNext(start) = done
    <3> DEFINE j == [to |-> p, from |-> from, n |-> 1]
    <3>1. start = [t |-> t, jobs |-> <<j>>] /\ start.t = t /\ start.jobs = <<j>> /\ j.from = from /\ j.n = 1
      BY DEF start
    <3> HIDE DEF j
    <3>2. Head(<<j>>) = j /\ Tail(<<j>>) = <<>> /\ <<j>> # <<>>
      OBVIOUS
    <3>3. 1 > Len(t[from].files \o t[from].dirs)
      BY <1>15
    <3>4. cloneNext(start) = [start EXCEPT !.jobs = Tail(start.jobs)]
      BY <3>1, <3>2, <3>3 DEF cloneNext
    <3> QED BY <3>1, <3>2, <3>4 DEF done
  <2> DEFINE I == {n \in 0 .. N : h[n] \in {start, done}}
  <2>3. 0 \in I
    BY <1>1, <1>12
  <2>4. ASSUME NEW n \in 1 .. N, n - 1 \in I PROVE n \in I
    <3>1. h[n - 1] \in {start, done} /\ n \in 0 .. N
      BY <1>1, <2>4
    <3> QED BY <1>12, <2>1, <2>2, <3>1
  <2>5. 0 .. N \subseteq I
    <3> HIDE DEF I
    <3> QED BY <1>1, <2>3, <2>4, Steps
  <2>6. h[N] \in {start, done}
    BY <1>1, <2>5
  <2> QED BY <1>10, <2>6 DEF start, done
<1> QED BY <1>14, <1>15 DEF u

-----------------------------------------------------------------------------
(* What rm asks for.                                                         *)

Queue == Seq(Object) \ {<<>>}

LEMMA OpenTypes ==
    ASSUME TypeInv, NEW s \in Queue, NEW o \in Object
    PROVE  open(s, o) \in Queue
<1> DEFINE more == s \o node[o].dirs \o node[o].files
<1>1. CASE ~IsDir(o)
  BY <1>1 DEF open
<1>2. CASE IsDir(o)
  <2>1. node[o].dirs \in Seq(Object) /\ node[o].files \in Seq(Object) /\ s \in Seq(Object)
    <3>1. node[o].dirs \in Seq(DirsOf(node)) /\ node[o].files \in Seq(DOMAIN node \ DirsOf(node))
      BY TreeParts DEF TypeInv, Object
    <3>2. DirsOf(node) \subseteq Object /\ DOMAIN node \ DirsOf(node) \subseteq Object
      BY DEF DirsOf, Object
    <3> QED BY <3>1, <3>2, SeqMonotonic DEF Queue
  <2>2. Len(s) \in Nat \ {0}
    BY <2>1, EmptySeq DEF Queue
  <2>3. more \in Seq(Object) /\ Len(more) = Len(s) + Len(node[o].dirs) + Len(node[o].files)
        /\ Len(node[o].dirs) \in Nat /\ Len(node[o].files) \in Nat
    BY <2>1
  <2> HIDE DEF more
  <2> DEFINE a == Len(s)
             b == Len(node[o].dirs)
             c == Len(node[o].files)
  <2>6. Len(more) = a + b + c /\ a \in Nat /\ a # 0 /\ b \in Nat /\ c \in Nat
    BY <2>2, <2>3
  <2> HIDE DEF a, b, c
  <2>4. CASE node[o].dirs = <<>>
    <3>1. open(s, o) = more
      BY <1>2, <2>4 DEF open, more
    <3>2. Len(more) # 0
      BY <2>6
    <3>3. more # <<>>
      BY <3>2
    <3> QED BY <2>3, <3>1, <3>3 DEF Queue
  <2>5. CASE node[o].dirs # <<>>
    <3>1. open(s, o) = RemoveFirst(more, o)
      BY <1>2, <2>5 DEF open, more
    <3>2. RemoveFirst(more, o) \in Seq(Object) /\ Len(RemoveFirst(more, o)) >= Len(more) - 1
      BY <2>3, RemoveFirstKeeps, RemoveFirstLength
    <3>3. b # 0
      BY <2>1, <2>5, EmptySeq DEF b
    <3>4. Len(RemoveFirst(more, o)) # 0
      <4>1. Len(RemoveFirst(more, o)) \in Nat
        BY <3>2
      <4> QED BY <2>6, <3>2, <3>3, <4>1
    <3>5. RemoveFirst(more, o) # <<>>
      BY <3>4
    <3> QED BY <3>1, <3>2, <3>5 DEF Queue
  <2> QED BY <2>4, <2>5
<1> QED BY <1>1, <1>2

LEMMA OpenAllTypes ==
    ASSUME TypeInv, NEW list \in Queue
    PROVE  openAll(list) \in Queue
<1> DEFINE N == Len(list)
           T == Queue
           F == [k \in 1 .. N |-> [s \in T |-> open(s, list[k])]]
           Recursion(h) == h = [k \in 0 .. N |-> IF k = 0 THEN list ELSE open(h[k - 1], list[k])]
           u == openAll(list)
<1>1. N \in Nat /\ N \in 0 .. N /\ \A k \in 1 .. N : list[k] \in Object
  BY DEF Queue
<1>2. F \in [1 .. N -> [T -> T]] /\ \A k \in 1 .. N : \A s \in T : F[k][s] = open(s, list[k])
  BY <1>1, OpenTypes
<1> HIDE DEF N, F, T
<1>3. list \in T
  BY DEF T
<1>4. PICK f \in [0 .. N -> T] : Iterates(f, N, list, F)
  BY <1>1, <1>2, <1>3, IterationExists
<1>5. ASSUME NEW k \in 0 .. N PROVE f[k] = IF k = 0 THEN list ELSE open(f[k - 1], list[k])
  <2>1. f[0] = list
    BY <1>4 DEF Iterates
  <2>2. CASE k # 0
    <3>1. k \in 1 .. N /\ k - 1 \in 0 .. N
      BY <1>1, <2>2
    <3>2. f[k - 1] \in T
      BY <1>4, <3>1
    <3> QED BY <1>2, <1>4, <2>2, <3>1, <3>2 DEF Iterates
  <2> QED BY <2>1, <2>2
<1>6. Recursion(f)
  BY <1>4, <1>5
<1> DEFINE h == CHOOSE h : Recursion(h)
<1>7. Recursion(h)
  BY <1>6
<1>8. u = h[N]
  BY DEF openAll, N
<1>9. \A k \in 0 .. N : h[k] = IF k = 0 THEN list ELSE open(h[k - 1], list[k])
  BY <1>7
<1> HIDE DEF h, u
<1> DEFINE I == {k \in 0 .. N : h[k] \in T}
<1>10. 0 \in I
  BY <1>1, <1>3, <1>9
<1>11. ASSUME NEW k \in 1 .. N, k - 1 \in I PROVE k \in I
  <2>1. k \in 0 .. N /\ k # 0 /\ h[k - 1] \in T
    BY <1>1, <1>11
  <2>2. h[k] = open(h[k - 1], list[k])
    BY <1>9, <2>1
  <2> QED BY <1>1, <2>1, <2>2, OpenTypes DEF T
<1>12. 0 .. N \subseteq I
  <2> HIDE DEF I
  <2> QED BY <1>1, <1>10, <1>11, Steps
<1> QED BY <1>1, <1>8, <1>12 DEF u, T

LEMMA FindTypes ==
    ASSUME TypeInv, NEW list \in Queue
    PROVE  findNode(list) \in Queue
<1> DEFINE N == Cardinality(Object)
           T == Queue
           round(s) == IF HasChildren(s) THEN openAll(s) ELSE s
           F == [k \in 1 .. N |-> [s \in T |-> round(s)]]
           Recursion(h) == h = [k \in 0 .. N |-> IF k = 0 THEN openAll(list) ELSE round(h[k - 1])]
           u == findNode(list)
<1>1. N \in Nat /\ N \in 0 .. N
  BY DomainSize DEF TypeInv, Object
<1>2. F \in [1 .. N -> [T -> T]] /\ \A k \in 1 .. N : \A s \in T : F[k][s] = round(s)
  BY <1>1, OpenAllTypes
<1> HIDE DEF N, F, T
<1>3. openAll(list) \in T
  BY OpenAllTypes DEF T
<1>4. PICK f \in [0 .. N -> T] : Iterates(f, N, openAll(list), F)
  BY <1>1, <1>2, <1>3, IterationExists
<1>5. ASSUME NEW k \in 0 .. N PROVE f[k] = IF k = 0 THEN openAll(list) ELSE round(f[k - 1])
  <2>1. f[0] = openAll(list)
    BY <1>4 DEF Iterates
  <2>2. CASE k # 0
    <3>1. k \in 1 .. N /\ k - 1 \in 0 .. N
      BY <1>1, <2>2
    <3>2. f[k - 1] \in T
      BY <1>4, <3>1
    <3> QED BY <1>2, <1>4, <2>2, <3>1, <3>2 DEF Iterates
  <2> QED BY <2>1, <2>2
<1>6. Recursion(f)
  BY <1>4, <1>5
<1> DEFINE h == CHOOSE h : Recursion(h)
<1>7. Recursion(h)
  BY <1>6
<1>8. u = h[N]
  BY DEF findNode, N
<1>9. \A k \in 0 .. N : h[k] = IF k = 0 THEN openAll(list) ELSE round(h[k - 1])
  BY <1>7
<1> HIDE DEF h, u
<1> DEFINE I == {k \in 0 .. N : h[k] \in T}
<1>10. 0 \in I
  BY <1>1, <1>3, <1>9
<1>11. ASSUME NEW k \in 1 .. N, k - 1 \in I PROVE k \in I
  <2>1. k \in 0 .. N /\ k # 0 /\ h[k - 1] \in T
    BY <1>1, <1>11
  <2>2. h[k] = round(h[k - 1])
    BY <1>9, <2>1
  <2> QED BY <1>1, <2>1, <2>2, OpenAllTypes DEF T
<1>12. 0 .. N \subseteq I
  <2> HIDE DEF I
  <2> QED BY <1>1, <1>10, <1>11, Steps
<1> QED BY <1>1, <1>8, <1>12 DEF u, T

-----------------------------------------------------------------------------
(* How a step changes the tree, and what it knows of the names then.         *)

Free(t, p, name) == name = ".." \/ \A x \in Children(t, p) : t[x].name # name

Made(t, u, m) ==
    \E kind \in {"dir", "file"}, name \in Word, p \in DirsOf(t) :
        u = NewObject(t, kind, name, p) /\ (m \/ Free(t, p, name))

Taken(t, u) == \E o \in DOMAIN t : t[o].parent # NULL /\ u = deleteFileSystem(t, o)

MovedInto(t, u, m) ==
    \E o \in DOMAIN t, p \in DirsOf(t), name \in Word :
        /\ t[o].parent # NULL /\ (m \/ (name # "" /\ Free(t, p, name)))
        /\ u = Rename(addToParent(deleteFileSystem(t, o), o, p), o, name)

MovedOnto(t, u, m) ==
    \E o, q \in DOMAIN t \ DirsOf(t) :
        /\ t[o].parent # NULL /\ o # q /\ t[q].parent # NULL /\ m
        /\ u = deleteFileSystem(addToParent(deleteFileSystem(t, o), o, t[q].parent), q)

CopiedDir(t, u, d, m) ==
    \E o, p \in DirsOf(t), name \in Word :
        LET made == NewObject(t, "dir", t[o].name, p)
            w    == cloneDirectory(made, Newest(made), o)
        IN  /\ o # p /\ (m \/ (name # "" /\ Free(t, p, name)))
            /\ d \/ (t[o].dirs = <<>> /\ t[o].files = <<>>)
            /\ u = Rename(w, fileSystemNameToObject(w, p, t[o].name), name)

CopiedWithin(t, u, m) ==
    \E o \in DOMAIN t, p \in DirsOf(t), name \in Word :
        LET made == NewObject(t, "dir", name, p)
        IN  (m \/ Free(t, p, name)) /\ u = NewObject(made, "file", t[o].name, Newest(made))

CopiedOnto(t, u, m) ==
    \E o \in DOMAIN t, q \in DOMAIN t :
        /\ t[q].parent # NULL /\ m
        /\ u = deleteFileSystem(NewObject(t, "file", t[o].name, t[q].parent), q)

TreeStep(t, u, d, m) ==
    \/ u = t \/ Made(t, u, m) \/ Taken(t, u) \/ MovedInto(t, u, m) \/ MovedOnto(t, u, m)
    \/ CopiedDir(t, u, d, m) \/ CopiedWithin(t, u, m) \/ CopiedOnto(t, u, m)

(* A new directory on the way, and a file in it.                             *)
LEMMA WithinEffect ==
    ASSUME NEW t, Tree(t), NEW o \in DOMAIN t, NEW p \in DirsOf(t), NEW name \in Word
    PROVE  LET made == NewObject(t, "dir", name, p)
           IN  /\ NewIs(t, made, Newest(made), "dir", name, p) /\ Newest(made) \in DirsOf(made)
               /\ t[o].name \in Word
               /\ Tree(NewObject(made, "file", t[o].name, Newest(made)))
               /\ DOMAIN t \subseteq DOMAIN NewObject(made, "file", t[o].name, Newest(made))
               /\ DirsOf(t) \subseteq DirsOf(NewObject(made, "file", t[o].name, Newest(made)))
<1> DEFINE made == NewObject(t, "dir", name, p)
           n == Newest(made)
           u == NewObject(made, "file", t[o].name, n)
<1>1. NewIs(t, made, Cardinality(DOMAIN t), "dir", name, p)
  BY NewEffect
<1> HIDE DEF made
<1>2. n = Cardinality(DOMAIN t)
  BY <1>1 DEF NewIs
<1>3. NewIs(t, made, n, "dir", name, p)
  BY <1>1, <1>2
<1> HIDE DEF n
<1>4. Tree(made) /\ n \in DirsOf(made) /\ DOMAIN t \subseteq DOMAIN made /\ DirsOf(t) \subseteq DirsOf(made)
  BY <1>3 DEF NewIs
<1>5. t[o].name \in Word
  BY TreeParts
<1>6. NewIs(made, u, Cardinality(DOMAIN made), "file", t[o].name, n)
  BY <1>4, <1>5, NewEffect
<1> HIDE DEF u
<1>7. Tree(u) /\ DOMAIN t \subseteq DOMAIN u /\ DirsOf(t) \subseteq DirsOf(u)
  BY <1>4, <1>6 DEF NewIs
<1> QED BY <1>3, <1>4, <1>5, <1>7 DEF made, n, u

(* The copy stands in p when it is looked up by its name.                    *)
LEMMA CopyEffect ==
    ASSUME NEW t, Tree(t), NEW o \in DirsOf(t), NEW p \in DirsOf(t), NEW name \in Word
    PROVE  LET made == NewObject(t, "dir", t[o].name, p)
               w    == cloneDirectory(made, Newest(made), o)
               r    == fileSystemNameToObject(w, p, t[o].name)
               u    == Rename(w, r, name)
           IN  /\ NewIs(t, made, Newest(made), "dir", t[o].name, p) /\ Newest(made) \in DirsOf(made)
               /\ Tree(w) /\ Grows(made, w) /\ Grows(t, w)
               /\ made[o].dirs = <<>> /\ made[o].files = <<>> => w = made
               /\ r \in Children(w, p) /\ r \in DOMAIN w /\ w[r].name = t[o].name
               /\ Tree(u) /\ DOMAIN t \subseteq DOMAIN u /\ DirsOf(t) \subseteq DirsOf(u)
<1> DEFINE made == NewObject(t, "dir", t[o].name, p)
           n == Newest(made)
           w == cloneDirectory(made, n, o)
           r == fileSystemNameToObject(w, p, t[o].name)
           u == Rename(w, r, name)
<1>1. t[o].name \in Word
  BY TreeParts DEF DirsOf
<1>2. NewIs(t, made, Cardinality(DOMAIN t), "dir", t[o].name, p)
  BY <1>1, NewEffect
<1>3. Grows(t, made)
  BY <1>1, NewGrows
<1>4. Children(made, p) = Children(t, p) \cup {Cardinality(DOMAIN t)}
  <2>1. p \in DOMAIN t
    BY DEF DirsOf
  <2> DEFINE nm == t[o].name
             v == NewObject(t, "dir", nm, p)
  <2>2. nm \in Word /\ "dir" \in {"dir", "file"}
    BY <1>1
  <2> HIDE DEF nm
  <2>3. \A x \in DOMAIN t : Children(v, x) = IF x = p THEN Children(t, x) \cup {Cardinality(DOMAIN t)}
                                              ELSE Children(t, x)
    BY <2>2, NewLists
  <2> HIDE DEF v
  <2>4. Children(v, p) = Children(t, p) \cup {Cardinality(DOMAIN t)}
    BY <2>1, <2>3
  <2> QED BY <2>4 DEF v, nm
<1> HIDE DEF made
<1>5. n = Cardinality(DOMAIN t)
  BY <1>2 DEF NewIs
<1>6. NewIs(t, made, n, "dir", t[o].name, p)
  BY <1>2, <1>5
<1> HIDE DEF n
<1>7. /\ Tree(made) /\ n \in DirsOf(made) /\ o \in DirsOf(made) /\ n \in Children(made, p)
      /\ p \in DOMAIN made /\ n \in DOMAIN made /\ made[n].name = t[o].name /\ DirsOf(t) \subseteq DirsOf(made)
  BY <1>4, <1>5, <1>6 DEF NewIs, DirsOf
<1>8. Tree(w) /\ Grows(made, w) /\ (made[o].dirs = <<>> /\ made[o].files = <<>> => w = made)
  BY <1>7, CloneEffect
<1> HIDE DEF w
<1>9. Grows(t, w)
  BY <1>3, <1>7, <1>8, GrowsAgain
<1>10. p \in DOMAIN w /\ n \in Children(w, p) /\ w[n].name = t[o].name
  BY <1>7, <1>8 DEF Grows
<1>11. r \in Children(w, p) /\ w[r].name = t[o].name
  BY <1>8, <1>10, Lookup
<1>12. r \in DOMAIN w
  BY <1>8, <1>10, <1>11, ChildrenOf
<1> HIDE DEF r
<1>13. Tree(u) /\ DOMAIN u = DOMAIN w /\ DirsOf(u) = DirsOf(w)
  BY <1>8, <1>12, RenameEffect
<1> HIDE DEF u
<1>14. DOMAIN t \subseteq DOMAIN w /\ DirsOf(t) \subseteq DirsOf(w)
  BY <1>9 DEF Grows, DirsOf
<1>15. DOMAIN t \subseteq DOMAIN u /\ DirsOf(t) \subseteq DirsOf(u)
  BY <1>13, <1>14
<1> QED BY <1>6, <1>7, <1>8, <1>9, <1>11, <1>12, <1>13, <1>15 DEF made, n, w, r, u

(* The files that change places.                                             *)
LEMMA OntoEffect ==
    ASSUME NEW t, Tree(t), NEW o \in DOMAIN t \ DirsOf(t), NEW q \in DOMAIN t \ DirsOf(t),
           t[o].parent # NULL, o # q, t[q].parent # NULL
    PROVE  LET a == deleteFileSystem(t, o)
               b == addToParent(a, o, t[q].parent)
               u == deleteFileSystem(b, q)
           IN  /\ Tree(a) /\ DOMAIN a = DOMAIN t /\ DirsOf(a) = DirsOf(t) /\ a[o].parent = NULL
               /\ t[q].parent \in DirsOf(a)
               /\ Tree(b) /\ DOMAIN b = DOMAIN t /\ DirsOf(b) = DirsOf(t) /\ b[q].parent = t[q].parent
               /\ Tree(u) /\ DOMAIN u = DOMAIN t /\ DirsOf(u) = DirsOf(t)
               /\ u[q].parent = NULL /\ u[o].parent = t[q].parent
<1> DEFINE p == t[q].parent
           a == deleteFileSystem(t, o)
           b == addToParent(a, o, p)
           u == deleteFileSystem(b, q)
<1>1. /\ Tree(a) /\ DOMAIN a = DOMAIN t /\ DirsOf(a) = DirsOf(t)
      /\ \A x \in DOMAIN t : a[x].parent = IF x = o THEN NULL ELSE t[x].parent
  BY DeleteEffect
<1>2. p \in DirsOf(t)
  BY TreeParts
<1> HIDE DEF a, p
<1>3. o \in DOMAIN a /\ p \in DirsOf(a)
  BY <1>1, <1>2
<1>4. /\ Tree(b) /\ DOMAIN b = DOMAIN a /\ DirsOf(b) = DirsOf(a)
      /\ \A x \in DOMAIN a : b[x].parent = IF x = o THEN p ELSE a[x].parent
  BY <1>1, <1>3, AddEffect
<1> HIDE DEF b
<1>5. q \in DOMAIN b /\ b[q].parent = p /\ p # NULL
  BY <1>1, <1>4 DEF p
<1>6. /\ Tree(u) /\ DOMAIN u = DOMAIN b /\ DirsOf(u) = DirsOf(b)
      /\ \A x \in DOMAIN b : u[x].parent = IF x = q THEN NULL ELSE b[x].parent
  BY <1>4, <1>5, DeleteEffect
<1> HIDE DEF u
<1>7. u[q].parent = NULL /\ u[o].parent = p /\ a[o].parent = NULL
  BY <1>1, <1>4, <1>5, <1>6
<1> QED BY <1>1, <1>3, <1>4, <1>5, <1>6, <1>7 DEF a, b, p, u

(* o was taken out of t, put into p and renamed.                             *)
IntoIs(t, a, b, u, o, p, name) ==
    /\ Tree(a) /\ DOMAIN a = DOMAIN t /\ DirsOf(a) = DirsOf(t) /\ a[o].parent = NULL
    /\ Tree(b) /\ DOMAIN b = DOMAIN t /\ DirsOf(b) = DirsOf(t)
    /\ Tree(u) /\ DOMAIN u = DOMAIN t /\ DirsOf(u) = DirsOf(t)
    /\ \A x \in DOMAIN t : /\ u[x].parent = IF x = o THEN p ELSE t[x].parent
                           /\ u[x].name = IF x = o /\ name # "" THEN name ELSE t[x].name

LEMMA IntoEffect ==
    ASSUME NEW t, Tree(t), NEW o \in DOMAIN t, NEW p \in DirsOf(t), NEW name \in Word, t[o].parent # NULL
    PROVE  LET a == deleteFileSystem(t, o)
               b == addToParent(a, o, p)
           IN  IntoIs(t, a, b, Rename(b, o, name), o, p, name)
<1> DEFINE a == deleteFileSystem(t, o)
           b == addToParent(a, o, p)
           u == Rename(b, o, name)
<1>1. /\ Tree(a) /\ DOMAIN a = DOMAIN t /\ DirsOf(a) = DirsOf(t)
      /\ \A x \in DOMAIN t : a[x].name = t[x].name /\ a[x].parent = IF x = o THEN NULL ELSE t[x].parent
  BY DeleteEffect
<1> HIDE DEF a
<1>2. o \in DOMAIN a /\ p \in DirsOf(a)
  BY <1>1
<1>3. /\ Tree(b) /\ DOMAIN b = DOMAIN a /\ DirsOf(b) = DirsOf(a)
      /\ \A x \in DOMAIN a : b[x].name = a[x].name /\ b[x].parent = IF x = o THEN p ELSE a[x].parent
  BY <1>1, <1>2, AddEffect
<1> HIDE DEF b
<1>4. o \in DOMAIN b
  BY <1>2, <1>3
<1>5. /\ Tree(u) /\ DOMAIN u = DOMAIN b /\ DirsOf(u) = DirsOf(b)
      /\ \A x \in DOMAIN b : u[x].parent = b[x].parent /\ u[x].name = IF x = o /\ name # "" THEN name ELSE b[x].name
  BY <1>3, <1>4, RenameEffect
<1> HIDE DEF u
<1>6. \A x \in DOMAIN t : /\ u[x].parent = IF x = o THEN p ELSE t[x].parent
                          /\ u[x].name = IF x = o /\ name # "" THEN name ELSE t[x].name
  BY <1>1, <1>3, <1>5
<1>7. a[o].parent = NULL
  BY <1>1
<1>8. IntoIs(t, a, b, u, o, p, name)
  BY <1>1, <1>3, <1>5, <1>6, <1>7 DEF IntoIs
<1> QED BY <1>8 DEF a, b, u

LEMMA CopiedOntoEffect ==
    ASSUME NEW t, Tree(t), NEW o \in DOMAIN t, NEW q \in DOMAIN t, t[q].parent # NULL
    PROVE  LET v == NewObject(t, "file", t[o].name, t[q].parent)
               u == deleteFileSystem(v, q)
           IN  /\ t[q].parent \in DirsOf(t) /\ t[o].name \in Word
               /\ Tree(v) /\ DOMAIN t \subseteq DOMAIN v /\ v[q].parent = t[q].parent
               /\ Tree(u) /\ DOMAIN u = DOMAIN v /\ DirsOf(t) \subseteq DirsOf(u) /\ u[q].parent = NULL
<1> DEFINE p == t[q].parent
           v == NewObject(t, "file", t[o].name, p)
           u == deleteFileSystem(v, q)
<1>1. p \in DirsOf(t) /\ t[o].name \in Word
  BY TreeParts
<1>2. NewIs(t, v, Cardinality(DOMAIN t), "file", t[o].name, p)
  BY <1>1, NewEffect
<1> HIDE DEF v
<1>3. Tree(v) /\ DOMAIN t \subseteq DOMAIN v /\ DirsOf(v) = DirsOf(t) /\ v[q].parent = p
  BY <1>2 DEF NewIs
<1>4. q \in DOMAIN v /\ v[q].parent # NULL
  BY <1>3
<1>5. /\ Tree(u) /\ DOMAIN u = DOMAIN v /\ DirsOf(u) = DirsOf(v)
      /\ \A x \in DOMAIN v : u[x].parent = IF x = q THEN NULL ELSE v[x].parent
  BY <1>3, <1>4, DeleteEffect
<1> HIDE DEF u
<1>6. u[q].parent = NULL
  BY <1>4, <1>5
<1> QED BY <1>1, <1>3, <1>5, <1>6 DEF p, v, u

LEMMA StepTypes ==
    ASSUME NEW t, Tree(t), NEW u, NEW d, NEW m, TreeStep(t, u, d, m)
    PROVE  Tree(u) /\ DOMAIN t \subseteq DOMAIN u /\ DirsOf(t) \subseteq DirsOf(u)
<1>1. CASE u = t
  BY <1>1
<1>2. CASE Made(t, u, m)
  <2>1. PICK kind \in {"dir", "file"}, name \in Word, p \in DirsOf(t) : u = NewObject(t, kind, name, p)
    BY <1>2 DEF Made
  <2>2. NewIs(t, u, Cardinality(DOMAIN t), kind, name, p)
    BY <2>1, NewEffect
  <2> QED BY <2>2 DEF NewIs
<1>3. CASE Taken(t, u)
  <2>1. PICK o \in DOMAIN t : t[o].parent # NULL /\ u = deleteFileSystem(t, o)
    BY <1>3 DEF Taken
  <2> QED BY <2>1, DeleteEffect
<1>4. CASE MovedInto(t, u, m)
  <2>1. PICK o \in DOMAIN t, p \in DirsOf(t), name \in Word :
            t[o].parent # NULL /\ u = Rename(addToParent(deleteFileSystem(t, o), o, p), o, name)
    BY <1>4 DEF MovedInto
  <2>2. IntoIs(t, deleteFileSystem(t, o), addToParent(deleteFileSystem(t, o), o, p), u, o, p, name)
    BY <2>1, IntoEffect
  <2> QED BY <2>2 DEF IntoIs
<1>5. CASE MovedOnto(t, u, m)
  <2>1. PICK o \in DOMAIN t \ DirsOf(t), q \in DOMAIN t \ DirsOf(t) :
            /\ t[o].parent # NULL /\ o # q /\ t[q].parent # NULL
            /\ u = deleteFileSystem(addToParent(deleteFileSystem(t, o), o, t[q].parent), q)
    BY <1>5 DEF MovedOnto
  <2> DEFINE v == deleteFileSystem(addToParent(deleteFileSystem(t, o), o, t[q].parent), q)
  <2>2. Tree(v) /\ DOMAIN v = DOMAIN t /\ DirsOf(v) = DirsOf(t)
    BY <2>1, OntoEffect
  <2>3. u = v
    BY <2>1
  <2> HIDE DEF v
  <2> QED BY <2>2, <2>3
<1>6. CASE CopiedDir(t, u, d, m)
  <2>1. PICK o \in DirsOf(t), p \in DirsOf(t), name \in Word :
            LET made == NewObject(t, "dir", t[o].name, p)
                w    == cloneDirectory(made, Newest(made), o)
            IN  u = Rename(w, fileSystemNameToObject(w, p, t[o].name), name)
    BY <1>6 DEF CopiedDir
  <2> QED BY <2>1, CopyEffect
<1>7. CASE CopiedWithin(t, u, m)
  <2>1. PICK o \in DOMAIN t, p \in DirsOf(t), name \in Word :
            LET made == NewObject(t, "dir", name, p)
            IN  u = NewObject(made, "file", t[o].name, Newest(made))
    BY <1>7 DEF CopiedWithin
  <2> QED BY <2>1, WithinEffect
<1>8. CASE CopiedOnto(t, u, m)
  <2>1. PICK o \in DOMAIN t, q \in DOMAIN t :
            t[q].parent # NULL /\ u = deleteFileSystem(NewObject(t, "file", t[o].name, t[q].parent), q)
    BY <1>8 DEF CopiedOnto
  <2> QED BY <2>1, CopiedOntoEffect
<1> QED BY <1>1, <1>2, <1>3, <1>4, <1>5, <1>6, <1>7, <1>8 DEF TreeStep

-----------------------------------------------------------------------------
(* The commands.                                                             *)

Sound(d, m) ==
    /\ TreeStep(node, node', d, m)
    /\ StateOK(workingDirectory', newStack', asking', crashed', node')

LEMMA StateGrows ==
    ASSUME NEW t, Tree(t), NEW u, DOMAIN t \subseteq DOMAIN u, DirsOf(t) \subseteq DirsOf(u),
           NEW w, NEW s, NEW a, NEW c, StateOK(w, s, a, c, t)
    PROVE  StateOK(w, s, a, c, u)
<1>1. w \in DirsOf(u) \cup {NULL} /\ c \in BOOLEAN
  BY DEF StateOK
<1>2. s \in Seq(DirsOf(u) \cup {NULL})
  <2>1. s \in Seq(DirsOf(t) \cup {NULL}) /\ DirsOf(t) \cup {NULL} \subseteq DirsOf(u) \cup {NULL}
    BY DEF StateOK
  <2> QED BY <2>1, SeqMonotonic
<1>3. a \in [queue : Seq(DOMAIN u), parents : Seq(DirsOf(u)), top : DOMAIN u \cup {NULL}, final : BOOLEAN]
  <2>1. a \in [queue : Seq(DOMAIN t), parents : Seq(DirsOf(t)), top : DOMAIN t \cup {NULL}, final : BOOLEAN]
    BY DEF StateOK
  <2>2. a.queue \in Seq(DOMAIN u) /\ a.parents \in Seq(DirsOf(u))
    BY <2>1, SeqMonotonic
  <2>3. a.top \in DOMAIN u \cup {NULL} /\ a.final \in BOOLEAN
    BY <2>1
  <2>4. a = [queue |-> a.queue, parents |-> a.parents, top |-> a.top, final |-> a.final]
    BY <2>1
  <2> QED BY <2>2, <2>3, <2>4
<1>4. a # NoQuestion => a.queue # <<>> /\ a.top \in DOMAIN u
  BY DEF StateOK
<1> QED BY <1>1, <1>2, <1>3, <1>4 DEF StateOK

LEMMA Changed ==
    ASSUME TypeInv, NEW d, NEW m, NEW t, TreeStep(node, t, d, m), Changes(t)
    PROVE  Sound(d, m)
<1>1. Tree(node) /\ StateOK(workingDirectory, newStack, asking, crashed, node)
  BY DEF TypeInv
<1>2. node' = t /\ workingDirectory' = workingDirectory /\ newStack' = newStack
      /\ asking' = asking /\ crashed' = crashed
  BY DEF Changes
<1>3. Tree(t) /\ DOMAIN node \subseteq DOMAIN t /\ DirsOf(node) \subseteq DirsOf(t)
  BY <1>1, StepTypes
<1>4. StateOK(workingDirectory, newStack, asking, crashed, t)
  BY <1>1, <1>3, StateGrows
<1> QED BY <1>2, <1>4 DEF Sound

LEMMA Idle ==
    ASSUME TypeInv, NEW d, NEW m, Nothing \/ Crash
    PROVE  Sound(d, m)
<1>1. node' = node /\ workingDirectory' = workingDirectory /\ newStack' = newStack
      /\ asking' = asking /\ crashed' \in BOOLEAN
  BY DEF TypeInv, StateOK, Nothing, Crash
<1>2. StateOK(workingDirectory, newStack, asking, crashed', node)
  BY <1>1 DEF TypeInv, StateOK
<1>3. TreeStep(node, node', d, m)
  BY <1>1 DEF TreeStep
<1> QED BY <1>1, <1>2, <1>3 DEF Sound

LEMMA MakesSound ==
    ASSUME TypeInv, NEW d, NEW m, NEW kind \in {"dir", "file"}, NEW name \in Word, NEW p \in Dirs0,
           m \/ Free(node, p, name), Makes(kind, name, p)
    PROVE  Sound(d, m)
<1>1. Changes(NewObject(node, kind, name, p))
  BY DEF Makes
<1>2. Made(node, NewObject(node, kind, name, p), m)
  BY DEF Made, Dirs0
<1>3. TreeStep(node, NewObject(node, kind, name, p), d, m)
  BY <1>2 DEF TreeStep
<1> QED BY <1>1, <1>3, Changed

LEMMA IsDirIs ==
    ASSUME TypeInv, NEW o
    PROVE  /\ o \in Object => o # NULL /\ IsDir(o) = (o \in Dirs0) /\ IsFile(o) = (o \in Object \ Dirs0)
           /\ o \in Object \cup {NULL} => /\ IsDir(o) => o \in Dirs0
                                          /\ IsFile(o) => o \in Object \ Dirs0
                                          /\ o = NULL \/ IsDir(o) \/ IsFile(o)
<1>1. ASSUME o \in Object
      PROVE  o # NULL /\ node[o].kind \in {"dir", "file"}
  BY <1>1, TreeParts DEF TypeInv, Object
<1>2. o \in Object => /\ o # NULL /\ IsDir(o) = (o \in Dirs0) /\ IsFile(o) = (o \in Object \ Dirs0)
                      /\ IsDir(o) \/ IsFile(o)
  BY <1>1 DEF IsDir, IsFile, Dirs0, DirsOf, Object
<1>3. ~IsDir(NULL) /\ ~IsFile(NULL)
  BY DEF IsDir, IsFile
<1> QED BY <1>2, <1>3

LEMMA MkdirSound ==
    ASSUME TypeInv, NEW d, NEW m, NEW path \in Path, mkdir(path)
    PROVE  Sound(d, m)
<1> DEFINE c == checkPath(path, TRUE)
           name == LastPart(path)
<1>1. CASE Nothing \/ Crash
  BY <1>1, Idle
<1>2. CASE ~(Nothing \/ Crash)
  <2>1. /\ c.res # "no" /\ c.res # "crash" /\ IsDir(c.prev) /\ Makes("dir", name, c.prev)
        /\ fileSystemNameToObject(node, c.prev, name) = NULL
    BY <1>2 DEF mkdir
  <2>2. c.res \in {"yes", "no", "crash"}
    BY PathEnd DEF Place
  <2>3. c.prev \in Object
    BY <2>1, <2>2, PathYes
  <2>4. c.prev \in Dirs0
    BY <2>1, <2>3, IsDirIs
  <2>5. name \in Word
    BY PathEnd
  <2> HIDE DEF c, name
  <2>6. Free(node, c.prev, name)
    <3>1. \A x \in Children(node, c.prev) : node[x].name # name
      BY <2>1, <2>3, Lookup DEF TypeInv, Object
    <3> QED BY <3>1 DEF Free
  <2> QED BY <2>1, <2>4, <2>5, <2>6, MakesSound
<1> QED BY <1>1, <1>2

LEMMA RedirectionSound ==
    ASSUME TypeInv, NEW d, NEW m, NEW path \in Path, fileRedirection(path)
    PROVE  Sound(d, m)
<1> DEFINE c == checkPath(path, TRUE)
           name == LastPart(path)
<1>1. CASE Nothing \/ Crash
  BY <1>1, Idle
<1>2. CASE ~(Nothing \/ Crash)
  <2>1. c.res # "no" /\ c.res # "crash" /\ IsDir(c.prev) /\ Makes("file", name, c.prev) /\ c.last = NULL
    BY <1>2 DEF fileRedirection
  <2>2. c.res \in {"yes", "no", "crash"}
    BY PathEnd DEF Place
  <2>3. c.prev \in Object
        /\ c.last = IF name = ".." THEN node[c.prev].parent ELSE fileSystemNameToObject(node, c.prev, name)
    BY <2>1, <2>2, PathYes
  <2>4. c.prev \in Dirs0
    BY <2>1, <2>3, IsDirIs
  <2>5. name \in Word
    BY PathEnd
  <2> HIDE DEF c, name
  <2>6. Free(node, c.prev, name)
    <3>1. CASE name = ".."
      BY <3>1 DEF Free
    <3>2. CASE name # ".."
      <4>1. fileSystemNameToObject(node, c.prev, name) = NULL
        BY <2>1, <2>3, <3>2
      <4>2. \A x \in Children(node, c.prev) : node[x].name # name
        BY <2>3, <4>1, Lookup DEF TypeInv, Object
      <4> QED BY <4>2 DEF Free
    <3> QED BY <3>1, <3>2
  <2> QED BY <2>1, <2>4, <2>5, <2>6, MakesSound
<1> QED BY <1>1, <1>2

LEMMA WritesSound ==
    ASSUME TypeInv, NEW d, NEW m, NEW path \in Path, NEW outfile \in Path,
           \/ \E toFile \in BOOLEAN : echo(path, toFile)
           \/ pwd(path) \/ ls(path) \/ lsTo(path, outfile)
    PROVE  Sound(d, m)
<1>1. Nothing \/ Crash \/ fileRedirection(path) \/ fileRedirection(outfile)
  BY DEF echo, pwd, ls, lsTo
<1> QED BY <1>1, Idle, RedirectionSound

LEMMA GetSound ==
    ASSUME TypeInv, NEW d, NEW name \in Names, get(name)
    PROVE  Sound(d, TRUE)
<1>1. CASE workingDirectory = NULL
  BY <1>1, Idle DEF get
<1>2. CASE workingDirectory # NULL
  <2>1. workingDirectory \in Dirs0
    BY <1>2 DEF TypeInv, StateOK, Dirs0
  <2>2. name \in Word
    BY PathEnd DEF Names
  <2>3. Makes("file", name, workingDirectory)
    BY <1>2 DEF get, Makes
  <2> QED BY <2>1, <2>2, <2>3, MakesSound
<1> QED BY <1>1, <1>2

(* What a command knows of the name that it gives in new.                    *)
NameOK(new, newName, m) == m \/ (newName # "" /\ new \in Dirs0 /\ Free(node, new, newName))

LEMMA MvSound ==
    ASSUME TypeInv, NEW d, NEW m, NEW old \in Object \cup {NULL}, NEW new \in Object \cup {NULL},
           NEW newName \in Word, NameOK(new, newName, m), mv(old, new, newName)
    PROVE  Sound(d, m)
<1> DEFINE t == deleteFileSystem(node, old)
<1>1. CASE Crash
  BY <1>1, Idle
<1>2. CASE ~Crash
  <2>1. old # NULL /\ node[old].parent # NULL /\ old \in DOMAIN node /\ Tree(node)
    BY <1>2 DEF mv, Object, TypeInv
  <2>2. DOMAIN t = DOMAIN node /\ \A x \in DOMAIN node : t[x].parent = IF x = old THEN NULL ELSE node[x].parent
    BY <2>1, DeleteEffect
  <2>3. CASE IsFile(new) /\ IsDir(old)
    <3>1. Changes(t)
      BY <1>2, <2>1, <2>3 DEF mv
    <3>2. Taken(node, t)
      BY <2>1 DEF Taken
    <3> HIDE DEF t
    <3>3. TreeStep(node, t, d, m)
      BY <3>2 DEF TreeStep
    <3> QED BY <3>1, <3>3, Changed
  <2>4. CASE IsFile(new) /\ ~IsDir(old)
    <3> DEFINE p == node[new].parent
               v == deleteFileSystem(addToParent(t, old, p), new)
    <3>1. old \in DOMAIN node \ DirsOf(node) /\ new \in DOMAIN node \ DirsOf(node)
      BY <2>1, <2>4, IsDirIs DEF Dirs0, Object
    <3>2. t[new].parent # NULL /\ Changes(deleteFileSystem(addToParent(t, old, t[new].parent), new))
      <4>1. new # NULL
        BY <2>4 DEF IsFile
      <4> HIDE DEF t
      <4> QED BY <1>2, <2>1, <2>4, <4>1 DEF mv, t
    <3>3. new # old /\ t[new].parent = p
      BY <2>2, <3>1, <3>2
    <3>4. Changes(v) /\ p # NULL
      BY <3>2, <3>3
    <3>5. m
      BY <2>4, IsDirIs DEF NameOK
    <3>6. MovedOnto(node, v, m)
      BY <2>1, <3>1, <3>3, <3>4, <3>5 DEF MovedOnto
    <3> HIDE DEF v
    <3>7. TreeStep(node, v, d, m)
      BY <3>6 DEF TreeStep
    <3> QED BY <3>4, <3>7, Changed
  <2>5. CASE ~IsFile(new)
    <3> DEFINE v == Rename(addToParent(t, old, new), old, newName)
    <3>1. new # NULL /\ Changes(v)
      BY <1>2, <2>1, <2>5 DEF mv
    <3>2. new \in DirsOf(node)
      BY <2>5, <3>1, IsDirIs DEF Dirs0
    <3>3. MovedInto(node, v, m)
      BY <2>1, <3>2 DEF MovedInto, NameOK
    <3> HIDE DEF v
    <3>4. TreeStep(node, v, d, m)
      BY <3>3 DEF TreeStep
    <3> QED BY <3>1, <3>4, Changed
  <2> QED BY <2>3, <2>4, <2>5
<1> QED BY <1>1, <1>2

LEMMA CpFileSound ==
    ASSUME TypeInv, NEW d, NEW m, NEW old \in Object, NEW new \in Object,
           NEW newName \in Word, NameOK(new, newName, m), IsFile(new) => node[new].parent # NULL,
           cpFile(old, new, newName)
    PROVE  Sound(d, m)
<1>1. Tree(node) /\ old \in DOMAIN node /\ new \in DOMAIN node
  BY DEF TypeInv, Object
<1>2. node[old].name \in Word
  BY <1>1, TreeParts
<1>3. CASE IsDir(new) /\ newName = ""
  <2>1. Makes("file", node[old].name, new)
    BY <1>3 DEF cpFile, Makes
  <2>2. m /\ new \in Dirs0
    BY <1>3, IsDirIs DEF NameOK
  <2> QED BY <1>2, <2>1, <2>2, MakesSound
<1>4. CASE IsDir(new) /\ newName # ""
  <2> DEFINE made == NewObject(node, "dir", newName, new)
             v == NewObject(made, "file", node[old].name, Newest(made))
  <2>1. Changes(v)
    BY <1>4 DEF cpFile
  <2>2. new \in DirsOf(node)
    BY <1>4, IsDirIs DEF Dirs0
  <2>3. CopiedWithin(node, v, m)
    BY <1>1, <2>2 DEF CopiedWithin, NameOK
  <2> HIDE DEF v
  <2>4. TreeStep(node, v, d, m)
    BY <2>3 DEF TreeStep
  <2> QED BY <2>1, <2>4, Changed
<1>5. CASE ~IsDir(new)
  <2> DEFINE v == deleteFileSystem(NewObject(node, "file", node[old].name, node[new].parent), new)
  <2>1. Changes(v)
    BY <1>5 DEF cpFile
  <2>2. IsFile(new) /\ m
    BY <1>5, IsDirIs DEF NameOK
  <2>3. CopiedOnto(node, v, m)
    BY <1>1, <2>2 DEF CopiedOnto
  <2> HIDE DEF v
  <2>4. TreeStep(node, v, d, m)
    BY <2>3 DEF TreeStep
  <2> QED BY <2>1, <2>4, Changed
<1> QED BY <1>3, <1>4, <1>5

LEMMA CpSound ==
    ASSUME TypeInv, NEW d, NEW m, NEW old \in Object \cup {NULL}, NEW new \in Object \cup {NULL},
           NEW newName \in Word, NameOK(new, newName, m), cp(old, new, newName),
           IsDir(old) => d \/ (node[old].dirs = <<>> /\ node[old].files = <<>>)
    PROVE  Sound(d, m)
<1>1. CASE Nothing \/ Crash
  BY <1>1, Idle
<1>2. CASE ~(Nothing \/ Crash)
  <2>1. /\ old # NULL /\ new # NULL /\ ~(IsFile(new) /\ ~IsFile(old))
        /\ IsFile(new) => node[new].parent # NULL
    BY <1>2 DEF cp
  <2>2. old \in Object /\ new \in Object
    BY <2>1
  <2>3. CASE IsFile(old)
    <3>1. cpFile(old, new, newName)
      BY <1>2, <2>1, <2>3 DEF cp
    <3> QED BY <2>1, <2>2, <3>1, CpFileSound
  <2>4. CASE ~IsFile(old)
    <3>1. ~Holds(old, new) /\ cpDirectory(old, new, newName)
      BY <1>2, <2>1, <2>4 DEF cp
    <3>2. old \in DirsOf(node) /\ new \in DirsOf(node) /\ IsDir(old)
      BY <2>1, <2>2, <2>4, IsDirIs DEF Dirs0
    <3>3. old # new
      <4>1. {old} \in SUBSET DOMAIN node
        BY <3>2 DEF DirsOf
      <4>2. old \in Below(node, {old})
        BY <4>1, BelowHas DEF TypeInv
      <4> QED BY <3>1, <4>2 DEF Holds
    <3> DEFINE made == NewObject(node, "dir", node[old].name, new)
               w == cloneDirectory(made, Newest(made), old)
               v == Rename(w, fileSystemNameToObject(w, new, node[old].name), newName)
    <3>4. Changes(v)
      BY <3>1 DEF cpDirectory
    <3>5. CopiedDir(node, v, d, m)
      BY <3>2, <3>3 DEF CopiedDir, NameOK
    <3> HIDE DEF v
    <3>6. TreeStep(node, v, d, m)
      BY <3>5 DEF TreeStep
    <3> QED BY <3>4, <3>6, Changed
  <2> QED BY <2>3, <2>4
<1> QED BY <1>1, <1>2

LEMMA MovementSound ==
    ASSUME TypeInv, NEW command \in {"mv", "cp"}, NEW oldPath \in Path, NEW newPath \in Path,
           movement(command, oldPath, newPath), Merge(newPath), command = "cp" => Double(oldPath)
    PROVE  Sound(doubled', merged')
<1> DEFINE c == checkPath(oldPath, FALSE)
           b == checkPath(newPath, FALSE)
           e == checkPath(newPath, TRUE)
           name == LastPart(newPath)
<1>1. CASE Nothing \/ Crash
  BY <1>1, Idle
<1>2. CASE ~(Nothing \/ Crash)
  <2>1. c.res # "no" /\ c.res # "crash" /\ b.res # "crash"
    BY <1>2 DEF movement
  <2>2. c.res \in {"yes", "no", "crash"} /\ b.res \in {"yes", "no", "crash"} /\ name \in Word
    BY PathEnd DEF Place
  <2>3. c.res = "yes" /\ c.last \in Object \cup {NULL}
    BY <2>1, <2>2, PathYes
  <2>4. \E new \in Object \cup {NULL}, newName \in Word :
            NameOK(new, newName, merged') /\ FileMovement(command, c.last, new, newName)
    <3>1. CASE b.res = "yes"
      <4>1. merged' = TRUE
        BY <3>1 DEF Merge
      <4>2. b.last \in Object \cup {NULL}
        BY <3>1, PathYes
      <4>3. FileMovement(command, c.last, b.last, "")
        BY <1>2, <2>1, <2>3, <3>1 DEF movement
      <4>4. NameOK(b.last, "", merged')
        BY <4>1 DEF NameOK
      <4>5. "" \in Word
        BY DEF Word
      <4> HIDE DEF b, c
      <4> QED BY <4>2, <4>3, <4>4, <4>5
    <3>2. CASE b.res = "no"
      <4>1. e.res = "yes"
        BY <1>2, <2>1, <2>3, <3>2 DEF movement
      <4>2. FileMovement(command, c.last, e.prev, name)
        BY <1>2, <2>1, <2>3, <3>2, <4>1 DEF movement
      <4>3. e.prev \in Dirs0 /\ name \notin {"", ".."} /\ \A x \in Children(node, e.prev) : node[x].name # name
        BY <3>2, <4>1, PathFree
      <4>4. NameOK(e.prev, name, merged')
        BY <4>3 DEF NameOK, Free
      <4>5. e.prev \in Object \cup {NULL}
        BY <4>3 DEF Dirs0, DirsOf, Object
      <4> QED BY <2>2, <4>2, <4>4, <4>5
    <3> QED BY <2>1, <2>2, <3>1, <3>2
  <2>5. PICK new \in Object \cup {NULL}, newName \in Word :
            NameOK(new, newName, merged') /\ FileMovement(command, c.last, new, newName)
    BY <2>4
  <2>6. CASE command = "mv"
    <3>1. mv(c.last, new, newName)
      BY <2>5, <2>6 DEF FileMovement
    <3> HIDE DEF c
    <3> QED BY <2>3, <2>5, <3>1, MvSound
  <2>7. CASE command = "cp"
    <3>1. cp(c.last, new, newName)
      BY <2>5, <2>7 DEF FileMovement
    <3>2. IsDir(c.last) => doubled' \/ (node[c.last].dirs = <<>> /\ node[c.last].files = <<>>)
      <4>1. SUFFICES ASSUME IsDir(c.last), ~doubled' PROVE node[c.last].dirs = <<>> /\ node[c.last].files = <<>>
        OBVIOUS
      <4>2. Listed(c.last) = <<>>
        BY <2>3, <2>7, <4>1 DEF Double
      <4>3. c.last \in DOMAIN node
        BY <2>3, <4>1, IsDirIs DEF Dirs0, DirsOf
      <4> HIDE DEF c
      <4>4. node[c.last].dirs \in Seq(DirsOf(node)) /\ node[c.last].files \in Seq(DOMAIN node \ DirsOf(node))
        BY <4>3, TreeParts DEF TypeInv
      <4> DEFINE i == Len(node[c.last].dirs)
                 j == Len(node[c.last].files)
      <4>5. i \in Nat /\ j \in Nat /\ Len(Listed(c.last)) = i + j
        BY <4>4 DEF Listed
      <4>6. Len(Listed(c.last)) = 0
        BY <4>2
      <4>7. i = 0 /\ j = 0
        <5> HIDE DEF i, j
        <5> QED BY <4>5, <4>6
      <4> QED BY <4>4, <4>7, EmptySeq
    <3> HIDE DEF c
    <3> QED BY <2>3, <2>5, <3>1, <3>2, CpSound
  <2> QED BY <2>6, <2>7
<1> QED BY <1>1, <1>2

LEMMA NoQuestionOK ==
    ASSUME NEW S, NEW D
    PROVE  NoQuestion \in [queue : Seq(S), parents : Seq(D), top : S \cup {NULL}, final : BOOLEAN]
<1>1. <<>> \in Seq(S) /\ <<>> \in Seq(D)
  OBVIOUS
<1> QED BY <1>1 DEF NoQuestion

LEMMA RemoveSound ==
    ASSUME TypeInv, NEW d, NEW m, NEW path \in Path, NEW f \in BOOLEAN, removeDir(path, f)
    PROVE  Sound(d, m)
<1> DEFINE c == checkPath(path, FALSE)
           o == c.last
<1>1. CASE Nothing \/ Crash
  BY <1>1, Idle
<1>2. CASE ~(Nothing \/ Crash)
  <2>1. c.res # "no" /\ c.res # "crash" /\ o # NULL /\ ~(f /\ node[o].parent = NULL)
    BY <1>2 DEF removeDir
  <2>2. c.res \in {"yes", "no", "crash"}
    BY PathEnd DEF Place
  <2>3. o \in Object
    BY <2>1, <2>2, PathYes
  <2>4. Tree(node) /\ StateOK(workingDirectory, newStack, asking, crashed, node) /\ o \in DOMAIN node
    BY <2>3 DEF TypeInv, Object
  <2>5. CASE f
    <3>1. /\ node' = deleteFileSystem(node, o) /\ workingDirectory' = NULL
          /\ newStack' = newStack /\ asking' = asking /\ crashed' = crashed
      BY <1>2, <2>1, <2>5 DEF removeDir
    <3> HIDE DEF o
    <3>2. Taken(node, node')
      BY <2>1, <2>4, <2>5, <3>1 DEF Taken
    <3>3. TreeStep(node, node', d, m)
      BY <3>2 DEF TreeStep
    <3>4. StateOK(workingDirectory, newStack, asking, crashed, node')
      BY <2>4, <3>3, StepTypes, StateGrows
    <3>5. StateOK(NULL, newStack, asking, crashed, node')
      BY <3>4 DEF StateOK
    <3> QED BY <3>1, <3>3, <3>5 DEF Sound
  <2>6. CASE ~f
    <3>1. /\ asking' = [queue |-> findNode(<<o>>), parents |-> <<>>, top |-> o, final |-> FALSE]
          /\ node' = node /\ workingDirectory' = workingDirectory /\ newStack' = newStack /\ crashed' = crashed
      BY <1>2, <2>1, <2>6 DEF removeDir
    <3> HIDE DEF o
    <3>2. <<o>> \in Queue
      BY <2>3 DEF Queue
    <3>3. findNode(<<o>>) \in Seq(DOMAIN node) /\ findNode(<<o>>) # <<>>
      BY <3>2, FindTypes DEF Queue, Object
    <3>4. asking' \in [queue : Seq(DOMAIN node), parents : Seq(DirsOf(node)), top : DOMAIN node \cup {NULL}, final : BOOLEAN]
      <4>1. <<>> \in Seq(DirsOf(node))
        OBVIOUS
      <4> QED BY <2>4, <3>1, <3>3, <4>1
    <3>5. asking'.queue # <<>> /\ asking'.top \in DOMAIN node
      BY <2>4, <3>1, <3>3
    <3>6. StateOK(workingDirectory', newStack', asking', crashed', node')
      BY <2>4, <3>1, <3>4, <3>5 DEF StateOK
    <3>7. TreeStep(node, node', d, m)
      BY <3>1 DEF TreeStep
    <3> QED BY <3>6, <3>7 DEF Sound
  <2> QED BY <2>5, <2>6
<1> QED BY <1>1, <1>2

LEMMA OrderTypes ==
    ASSUME NEW S, NEW E \in SUBSET S, IsFiniteSet(E), E # {}, NEW order \in SetToSeqs(E)
    PROVE  order \in Seq(S) \ {<<>>}
<1> DEFINE n == Cardinality(E)
<1>1. n \in Nat \ {0}
  BY FS_CardinalityType, FS_EmptySet
<1>2. order \in [1 .. n -> E]
  BY DEF SetToSeqs
<1> HIDE DEF n
<1>3. order \in [1 .. n -> S]
  BY <1>2
<1>4. order \in Seq(S)
  BY <1>1, <1>3
<1>5. Len(order) = n
  BY <1>1, <1>3
<1> QED BY <1>1, <1>4, <1>5

(* After the last answer, in the tree t that it left.                        *)
LEMMA RoundTypes ==
    ASSUME NEW t, Tree(t), StateOK(workingDirectory, newStack, asking, crashed, t), asking # NoQuestion,
           NEW parents \in Seq(DirsOf(t)), NextRound(t, parents)
    PROVE  StateOK(workingDirectory', newStack, asking', crashed', t)
<1> DEFINE empty == {p \in ToSet(parents) : t[p].dirs = <<>>}
<1>1. /\ asking \in [queue : Seq(DOMAIN t), parents : Seq(DirsOf(t)), top : DOMAIN t \cup {NULL}, final : BOOLEAN]
      /\ asking.top \in DOMAIN t
      /\ workingDirectory \in DirsOf(t) \cup {NULL} /\ newStack \in Seq(DirsOf(t) \cup {NULL}) /\ crashed \in BOOLEAN
  BY DEF StateOK
<1>2. CASE asking' = NoQuestion /\ workingDirectory' = t[asking.top].parent /\ crashed' = crashed
  <2>1. t[asking.top].parent \in DirsOf(t) \cup {NULL}
    BY <1>1, TreeParts
  <2> QED BY <1>1, <1>2, <2>1, NoQuestionOK DEF StateOK
<1>3. CASE crashed' = TRUE /\ asking' = asking /\ workingDirectory' = workingDirectory
  BY <1>3 DEF StateOK
<1>4. CASE /\ empty # {} /\ workingDirectory' = workingDirectory /\ crashed' = crashed
           /\ \E order \in SetToSeqs(empty) :
                 asking' = IF order[1] = asking.top
                           THEN [asking EXCEPT !.queue = <<asking.top>>, !.parents = <<>>, !.final = TRUE]
                           ELSE [asking EXCEPT !.queue = order, !.parents = <<>>]
  <2>1. PICK order \in SetToSeqs(empty) :
            asking' = IF order[1] = asking.top
                      THEN [asking EXCEPT !.queue = <<asking.top>>, !.parents = <<>>, !.final = TRUE]
                      ELSE [asking EXCEPT !.queue = order, !.parents = <<>>]
    BY <1>4
  <2>2. empty \in SUBSET DOMAIN t /\ IsFiniteSet(empty)
    <3>1. ToSet(parents) \subseteq DOMAIN t
      BY DEF ToSet, DirsOf
    <3>2. empty \subseteq DOMAIN t
      BY <3>1
    <3> HIDE DEF empty
    <3> QED BY <3>2, DomainSize, FS_Subset
  <2> HIDE DEF empty
  <2>3. order \in Seq(DOMAIN t) \ {<<>>}
    BY <1>4, <2>2, OrderTypes
  <2>4. <<asking.top>> \in Seq(DOMAIN t) /\ <<asking.top>> # <<>> /\ <<>> \in Seq(DirsOf(t))
    BY <1>1
  <2>5. \E q \in Seq(DOMAIN t) \ {<<>>}, b \in BOOLEAN :
            asking' = [queue |-> q, parents |-> <<>>, top |-> asking.top, final |-> b]
    <3>1. CASE order[1] = asking.top
      <4>1. asking' = [asking EXCEPT !.queue = <<asking.top>>, !.parents = <<>>, !.final = TRUE]
        BY <2>1, <3>1
      <4>2. asking' = [queue |-> <<asking.top>>, parents |-> <<>>, top |-> asking.top, final |-> TRUE]
        BY <1>1, <4>1
      <4> QED BY <2>4, <4>2
    <3>2. CASE order[1] # asking.top
      <4>1. asking' = [asking EXCEPT !.queue = order, !.parents = <<>>]
        BY <2>1, <3>2
      <4>2. asking' = [queue |-> order, parents |-> <<>>, top |-> asking.top, final |-> asking.final]
        BY <1>1, <4>1
      <4> QED BY <1>1, <2>3, <4>2
    <3> QED BY <3>1, <3>2
  <2>6. PICK q \in Seq(DOMAIN t) \ {<<>>}, b \in BOOLEAN :
            asking' = [queue |-> q, parents |-> <<>>, top |-> asking.top, final |-> b]
    BY <2>5
  <2>7. asking' \in [queue : Seq(DOMAIN t), parents : Seq(DirsOf(t)), top : DOMAIN t \cup {NULL}, final : BOOLEAN]
        /\ asking'.queue # <<>> /\ asking'.top \in DOMAIN t
    BY <1>1, <2>4, <2>6
  <2> QED BY <1>1, <1>4, <2>7 DEF StateOK
<1>5. \/ asking.final \/ parents = <<>>
      \/ empty = {} /\ ~asking.final /\ parents # <<>>
      \/ empty # {} /\ ~asking.final /\ parents # <<>>
  BY <1>1
<1> QED BY <1>2, <1>3, <1>4, <1>5 DEF NextRound

LEMMA AnswerSound ==
    ASSUME TypeInv, asking # NoQuestion, NEW d, NEW m, NEW yes \in BOOLEAN, makeDirToRemoveList(yes)
    PROVE  Sound(d, m)
<1> DEFINE o == Head(asking.queue)
           t == IF yes THEN deleteFileSystem(node, o) ELSE node
           parents == IF yes THEN Append(asking.parents, node[o].parent) ELSE asking.parents
<1>1. Tree(node) /\ StateOK(workingDirectory, newStack, asking, crashed, node)
  BY DEF TypeInv
<1>2. /\ asking \in [queue : Seq(DOMAIN node), parents : Seq(DirsOf(node)), top : DOMAIN node \cup {NULL},
                     final : BOOLEAN]
      /\ asking.queue # <<>> /\ asking.top \in DOMAIN node
  BY <1>1 DEF StateOK
<1>3. o \in DOMAIN node /\ Tail(asking.queue) \in Seq(DOMAIN node)
  BY <1>2
<1>4. CASE yes /\ node[o].parent = NULL
  BY <1>4, Idle DEF makeDirToRemoveList
<1>5. CASE ~(yes /\ node[o].parent = NULL)
  <2>1. /\ node' = t /\ newStack' = newStack
        /\ IF Len(asking.queue) > 1
           THEN /\ asking' = [asking EXCEPT !.queue = Tail(@), !.parents = parents]
                /\ workingDirectory' = workingDirectory /\ crashed' = crashed
           ELSE NextRound(t, parents)
    BY <1>5 DEF makeDirToRemoveList
  <2>2. node[o].parent \in DirsOf(node) \cup {NULL}
    BY <1>1, <1>3, TreeParts
  <2>3. parents \in Seq(DirsOf(node))
    <3>1. yes => node[o].parent \in DirsOf(node)
      BY <1>5, <2>2
    <3> HIDE DEF o
    <3>2. yes => Append(asking.parents, node[o].parent) \in Seq(DirsOf(node))
      BY <1>2, <3>1
    <3> QED BY <1>2, <3>2
  <2>4. TreeStep(node, t, d, m)
    <3>1. CASE yes
      <4>1. Taken(node, t)
        BY <1>3, <1>5, <3>1 DEF Taken
      <4> QED BY <4>1 DEF TreeStep
    <3>2. CASE ~yes
      BY <3>2 DEF TreeStep
    <3> QED BY <3>1, <3>2
  <2> HIDE DEF t, parents
  <2>5. Tree(t) /\ DOMAIN node \subseteq DOMAIN t /\ DirsOf(node) \subseteq DirsOf(t)
    BY <1>1, <2>4, StepTypes
  <2>6. StateOK(workingDirectory, newStack, asking, crashed, t)
    BY <1>1, <2>5, StateGrows
  <2>7. CASE Len(asking.queue) > 1
    <3>1. /\ asking' = [asking EXCEPT !.queue = Tail(@), !.parents = parents]
          /\ workingDirectory' = workingDirectory /\ crashed' = crashed
      BY <2>1, <2>7
    <3>2. Tail(asking.queue) # <<>>
      <4> DEFINE q == asking.queue
      <4>1. q \in Seq(DOMAIN node) /\ Len(q) > 1
        BY <1>2, <2>7
      <4> HIDE DEF q
      <4>2. Len(q) \in Nat /\ Len(Tail(q)) = Len(q) - 1
        BY <4>1
      <4> DEFINE a == Len(q)
                 r == Tail(q)
                 b == Len(r)
      <4>3. a \in Nat /\ a > 1 /\ b = a - 1
        BY <4>1, <4>2
      <4>4. r = <<>> => b = 0
        <5> HIDE DEF r
        <5> QED OBVIOUS
      <4>5. b # 0
        <5> HIDE DEF a, b
        <5> QED BY <4>3
      <4> QED BY <4>4, <4>5 DEF q
    <3>3. asking' \in [queue : Seq(DOMAIN node), parents : Seq(DirsOf(node)), top : DOMAIN node \cup {NULL},
                       final : BOOLEAN]
      BY <1>2, <1>3, <2>3, <3>1
    <3>4. asking'.queue # <<>> /\ asking'.top \in DOMAIN node
      BY <1>2, <3>1, <3>2
    <3>5. StateOK(workingDirectory', newStack', asking', crashed', node)
      BY <1>1, <2>1, <3>1, <3>3, <3>4 DEF StateOK
    <3>6. StateOK(workingDirectory', newStack', asking', crashed', t)
      BY <1>1, <2>5, <3>5, StateGrows
    <3> QED BY <2>1, <2>4, <3>6 DEF Sound
  <2>8. CASE ~(Len(asking.queue) > 1)
    <3>1. NextRound(t, parents)
      BY <2>1, <2>8
    <3>2. parents \in Seq(DirsOf(t))
      BY <2>3, <2>5, SeqMonotonic
    <3>3. StateOK(workingDirectory', newStack, asking', crashed', t)
      BY <2>5, <2>6, <3>1, <3>2, RoundTypes
    <3> QED BY <2>1, <2>4, <3>3 DEF Sound
  <2> QED BY <2>7, <2>8
<1> QED BY <1>4, <1>5

(* cd, pushd and popd leave the tree.                                        *)
LEMMA WaySound ==
    ASSUME TypeInv, NEW d, NEW m, NEW o \in Dirs0 \cup {NULL}, changeWorkingDirectory(o),
           node' = node, asking' = asking, newStack' \in Seq(Dirs0 \cup {NULL})
    PROVE  Sound(d, m)
<1>1. workingDirectory' \in Dirs0 \cup {NULL} /\ crashed' \in BOOLEAN
  BY DEF changeWorkingDirectory, TypeInv, StateOK, directoryLocation, Dirs0
<1>2. StateOK(workingDirectory', newStack', asking', crashed', node')
  BY <1>1 DEF TypeInv, StateOK, Dirs0
<1>3. TreeStep(node, node', d, m)
  BY DEF TreeStep
<1> QED BY <1>2, <1>3 DEF Sound

LEMMA CdSound ==
    ASSUME TypeInv, NEW d, NEW m, NEW path \in Path, cd(path)
    PROVE  Sound(d, m)
<1> DEFINE c == checkPath(path, FALSE)
           o == IF IsDir(c.last) THEN c.last ELSE IF IsDir(c.prev) THEN c.prev ELSE NULL
<1>1. CASE Nothing \/ Crash
  BY <1>1, Idle
<1>2. CASE ~(Nothing \/ Crash)
  <2>1. changeWorkingDirectory(o) /\ node' = node /\ newStack' = newStack /\ asking' = asking
    BY <1>2 DEF cd
  <2>2. c.last \in Object \cup {NULL} /\ c.prev \in Object \cup {NULL}
    BY PathEnd DEF Place
  <2> HIDE DEF c
  <2>3. o \in Dirs0 \cup {NULL}
    BY <2>2, IsDirIs
  <2>4. newStack \in Seq(Dirs0 \cup {NULL})
    BY DEF TypeInv, StateOK, Dirs0
  <2> QED BY <2>1, <2>3, <2>4, WaySound
<1> QED BY <1>1, <1>2

LEMMA PushdSound ==
    ASSUME TypeInv, NEW d, NEW m, NEW path \in Path, Pushd(path)
    PROVE  Sound(d, m)
<1> DEFINE c == checkPath(path, FALSE)
<1>1. CASE Nothing \/ Crash
  BY <1>1, Idle
<1>2. CASE ~(Nothing \/ Crash)
  <2>1. /\ ~IsFile(c.last) /\ newStack' = Append(newStack, workingDirectory) /\ changeWorkingDirectory(c.last)
        /\ node' = node /\ asking' = asking
    BY <1>2 DEF Pushd
  <2>2. c.last \in Object \cup {NULL}
    BY PathEnd DEF Place
  <2> HIDE DEF c
  <2>3. c.last \in Dirs0 \cup {NULL}
    BY <2>1, <2>2, IsDirIs
  <2>4. newStack \in Seq(Dirs0 \cup {NULL}) /\ workingDirectory \in Dirs0 \cup {NULL}
    BY DEF TypeInv, StateOK, Dirs0
  <2>5. newStack' \in Seq(Dirs0 \cup {NULL})
    BY <2>1, <2>4
  <2> QED BY <2>1, <2>3, <2>5, WaySound
<1> QED BY <1>1, <1>2

LEMMA PopdSound ==
    ASSUME TypeInv, NEW d, NEW m, Popd
    PROVE  Sound(d, m)
<1>1. CASE Nothing
  BY <1>1, Idle
<1>2. CASE ~Nothing
  <2>1. /\ newStack # <<>> /\ newStack' = Front(newStack) /\ changeWorkingDirectory(Last(newStack))
        /\ node' = node /\ asking' = asking
    BY <1>2 DEF Popd
  <2>2. newStack \in Seq(Dirs0 \cup {NULL})
    BY DEF TypeInv, StateOK, Dirs0
  <2>3. Front(newStack) \in Seq(Dirs0 \cup {NULL}) /\ Last(newStack) \in Dirs0 \cup {NULL}
    <3> DEFINE n == Len(newStack)
    <3>1. n \in Nat \ {0}
      BY <2>1, <2>2, EmptySeq
    <3>2. Last(newStack) \in Dirs0 \cup {NULL}
      BY <2>2, <3>1 DEF Last
    <3>3. \A i \in 1 .. n - 1 : newStack[i] \in Dirs0 \cup {NULL}
      BY <2>2, <3>1
    <3>4. Front(newStack) \in Seq(Dirs0 \cup {NULL})
      BY <2>2, <3>1, <3>3 DEF Front
    <3> QED BY <3>2, <3>4
  <2> QED BY <2>1, <2>3, WaySound
<1> QED BY <1>1, <1>2

-----------------------------------------------------------------------------
(* Steps and behaviours.                                                     *)

NextSound == Sound(doubled', merged') /\ (doubled => doubled') /\ (merged => merged')

LEMMA StepSound ==
    ASSUME TypeInv, Next
    PROVE  NextSound /\ TypeInv'
<1>1. redirect' \in BOOLEAN /\ commands' \in 0 .. MaxCommands
  <2>1. redirect' \in {redirect, TRUE}
    BY DEF Next, enterCommand, answer
  <2>2. commands' = commands \/ (commands < MaxCommands /\ commands' = commands + 1)
    BY DEF Next, enterCommand, answer
  <2>3. MaxCommands \in Nat /\ redirect \in BOOLEAN /\ commands \in 0 .. MaxCommands
    BY ShellAssumption DEF TypeInv
  <2>4. redirect' \in BOOLEAN
    BY <2>1, <2>3
  <2>5. commands' \in 0 .. MaxCommands
    BY <2>2, <2>3
  <2> QED BY <2>4, <2>5
<1>2. doubled' \in BOOLEAN /\ merged' \in BOOLEAN /\ (doubled => doubled') /\ (merged => merged')
  <2>1. doubled' = doubled \/ \E path \in Path : Double(path)
    BY DEF Next, enterCommand, answer, enteredCommand, redirected
  <2>2. merged' = merged \/ merged' = TRUE \/ \E path \in Path : Merge(path)
    BY DEF Next, enterCommand, answer, enteredCommand, redirected
  <2>3. doubled \in BOOLEAN /\ merged \in BOOLEAN
    BY DEF TypeInv
  <2>4. doubled' \in BOOLEAN /\ (doubled => doubled')
    BY <2>1, <2>3 DEF Double
  <2>5. merged' \in BOOLEAN /\ (merged => merged')
    BY <2>2, <2>3 DEF Merge
  <2> QED BY <2>4, <2>5
<1>3. Sound(doubled', merged')
  <2>1. CASE enteredCommand
    <3>1. ASSUME NEW path \in Path,
                 mkdir(path) \/ pwd(path) \/ ls(path) \/ echo(path, FALSE) \/ cd(path) \/ Pushd(path)
          PROVE  Sound(doubled', merged')
      BY <3>1, MkdirSound, WritesSound, CdSound, PushdSound
    <3>2. ASSUME NEW path \in Path, NEW f \in BOOLEAN, removeDir(path, f) PROVE Sound(doubled', merged')
      BY <3>2, RemoveSound
    <3>3. CASE Popd \/ TooFew
      BY <3>3, PopdSound, Idle DEF TooFew
    <3>4. ASSUME NEW name \in Names, get(name), merged' = TRUE PROVE Sound(doubled', merged')
      <4>1. Sound(doubled', TRUE)
        BY <3>4, GetSound
      <4> QED BY <3>4, <4>1
    <3>5. ASSUME NEW oldPath \in Path, NEW newPath \in Path, movement("mv", oldPath, newPath), Merge(newPath)
          PROVE  Sound(doubled', merged')
      BY <3>5, MovementSound
    <3>6. ASSUME NEW oldPath \in Path, NEW newPath \in Path, movement("cp", oldPath, newPath), Merge(newPath),
                 Double(oldPath)
          PROVE  Sound(doubled', merged')
      BY <3>6, MovementSound
    <3> QED BY <2>1, <3>1, <3>2, <3>3, <3>4, <3>5, <3>6 DEF enteredCommand
  <2>2. CASE redirected
    <3>1. ASSUME NEW path \in Path, echo(path, TRUE) \/ pwd(path) \/ cd(path) \/ Pushd(path)
          PROVE  Sound(doubled', merged')
      BY <3>1, WritesSound, CdSound, PushdSound
    <3>2. ASSUME NEW path \in Path, NEW outfile \in Path, lsTo(path, outfile) PROVE Sound(doubled', merged')
      BY <3>2, WritesSound
    <3> QED BY <2>2, <3>1, <3>2, PopdSound DEF redirected
  <2>3. CASE answer
    BY <2>3, AnswerSound DEF answer
  <2> QED BY <2>1, <2>2, <2>3 DEF Next, enterCommand
<1>4. Tree(node')
  BY <1>3, StepTypes DEF Sound, TypeInv
<1>5. TypeInv'
  BY <1>1, <1>2, <1>3, <1>4 DEF Sound, TypeInv
<1> QED BY <1>2, <1>3, <1>5 DEF NextSound

LEMMA InitTypes ==
    ASSUME Init
    PROVE  TypeInv
<1> DEFINE r == [kind |-> "dir", name |-> "/", parent |-> root, dirs |-> <<>>, files |-> <<>>]
<1>1. node = [o \in {root} |-> r] /\ DOMAIN node = {root} /\ node[root] = r
  BY DEF Init
<1>2. DirsOf(node) = {root} /\ root \in Nat
  BY <1>1 DEF DirsOf, root
<1>3. Tree(node)
  <2>1. DOMAIN node = 0 .. 0
    BY <1>1 DEF root
  <2>2. r \in Obj({root}, {root})
    <3>1. <<>> \in Seq({root}) /\ <<>> \in Seq({root} \ {root})
      OBVIOUS
    <3> QED BY <3>1 DEF Obj, Word
  <2>3. node \in [DOMAIN node -> Obj(DOMAIN node, DirsOf(node))]
    BY <1>1, <1>2, <2>2
  <2> QED BY <1>1, <1>2, <2>1, <2>3 DEF Tree
<1>4. StateOK(workingDirectory, newStack, asking, crashed, node)
  <2>1. asking = NoQuestion /\ newStack = <<>> /\ workingDirectory = root /\ crashed = FALSE
    BY DEF Init
  <2>2. asking \in [queue : Seq(DOMAIN node), parents : Seq(DirsOf(node)), top : DOMAIN node \cup {NULL},
                    final : BOOLEAN]
    BY <2>1, NoQuestionOK
  <2>3. newStack \in Seq(DirsOf(node) \cup {NULL})
    BY <2>1
  <2> QED BY <1>2, <2>1, <2>2, <2>3 DEF StateOK
<1>5. redirect \in BOOLEAN /\ commands \in 0 .. MaxCommands /\ doubled \in BOOLEAN /\ merged \in BOOLEAN
  <2>1. redirect = FALSE /\ commands = 0 /\ doubled = FALSE /\ merged = FALSE
    BY DEF Init
  <2>2. MaxCommands \in Nat
    BY ShellAssumption
  <2>3. commands \in 0 .. MaxCommands
    BY <2>1, <2>2
  <2> QED BY <2>1, <2>3
<1> QED BY <1>3, <1>4, <1>5 DEF TypeInv

LEMMA TypesHold == Spec => []TypeInv
<1>1. TypeInv /\ UNCHANGED vars => TypeInv'
  BY DEF TypeInv, vars, Tree, DirsOf, StateOK
<1>2. TypeInv /\ [Next]_vars => TypeInv'
  BY <1>1, StepSound
<1> QED BY <1>2, InitTypes, PTL DEF Spec

(* A directory's lists hold directories and files, in this order, and what   *)
(* the working directory, the stack of pushd and the questions of rm refer   *)
(* to is there, whatever the paths that are typed lead to.                   *)
THEOREM ShellTypes == Spec => []ShellTypeOK
<1>1. ASSUME TypeInv PROVE ShellTypeOK
  <2>1. Dirs = DirsOf(node) /\ Object = DOMAIN node
    BY DEF Dirs, DirsOf, Object
  <2>2. \A o \in Object :
            /\ node[o].kind \in {"dir", "file"} /\ node[o].parent \in Dirs \cup {NULL}
            /\ ToSet(node[o].dirs) \subseteq Dirs /\ ToSet(node[o].files) \subseteq Object \ Dirs
    BY <1>1, <2>1, TreeParts, ChildrenOf DEF TypeInv
  <2>3. workingDirectory \in Dirs \cup {NULL} /\ newStack \in Seq(Dirs \cup {NULL}) /\ crashed \in BOOLEAN
    BY <1>1, <2>1 DEF TypeInv, StateOK
  <2>4. asking.queue \in Seq(Object) /\ asking.parents \in Seq(Object)
    <3>1. asking.queue \in Seq(DOMAIN node) /\ asking.parents \in Seq(DirsOf(node)) /\ DirsOf(node) \subseteq DOMAIN node
      BY <1>1 DEF TypeInv, StateOK, DirsOf
    <3> QED BY <2>1, <3>1, SeqMonotonic
  <2>5. ToSet(asking.queue \o asking.parents) \subseteq Object
    <3>1. ToSet(asking.queue \o asking.parents) = ToSet(asking.queue) \cup ToSet(asking.parents)
      BY <2>4, JoinKeeps
    <3>2. ToSet(asking.queue) \subseteq Object /\ ToSet(asking.parents) \subseteq Object
      BY <2>4 DEF ToSet
    <3> QED BY <3>1, <3>2
  <2>6. ToSet(newStack) \subseteq Dirs \cup {NULL}
    BY <2>3 DEF ToSet
  <2> QED BY <1>1, <2>2, <2>3, <2>5, <2>6 DEF ShellTypeOK, TypeInv
<1> QED BY <1>1, TypesHold, PTL

-----------------------------------------------------------------------------
(* Every step leaves each object in its parent's list, once.                 *)

LEMMA StepPlaced ==
    ASSUME NEW t, Tree(t), Placed(t), NEW u, NEW d, NEW m, ~d, TreeStep(t, u, d, m)
    PROVE  Placed(u)
<1>1. CASE u = t
  BY <1>1
<1>2. CASE Made(t, u, m)
  <2>1. PICK kind \in {"dir", "file"}, name \in Word, p \in DirsOf(t) : u = NewObject(t, kind, name, p)
    BY <1>2 DEF Made
  <2> QED BY <2>1, NewPlaced
<1>3. CASE Taken(t, u)
  <2>1. PICK o \in DOMAIN t : t[o].parent # NULL /\ u = deleteFileSystem(t, o)
    BY <1>3 DEF Taken
  <2> QED BY <2>1, DeletePlaced
<1>4. CASE MovedInto(t, u, m)
  <2>1. PICK o \in DOMAIN t, p \in DirsOf(t), name \in Word :
            t[o].parent # NULL /\ u = Rename(addToParent(deleteFileSystem(t, o), o, p), o, name)
    BY <1>4 DEF MovedInto
  <2> DEFINE a == deleteFileSystem(t, o)
             b == addToParent(a, o, p)
  <2>2. IntoIs(t, a, b, u, o, p, name) /\ Placed(a)
    BY <2>1, IntoEffect, DeletePlaced
  <2>3. u = Rename(b, o, name)
    BY <2>1
  <2> HIDE DEF a
  <2>4. Placed(b)
    BY <2>2, AddPlaced DEF IntoIs
  <2> HIDE DEF b
  <2> QED BY <2>2, <2>3, <2>4, RenamePlaced DEF IntoIs
<1>5. CASE MovedOnto(t, u, m)
  <2>1. PICK o \in DOMAIN t \ DirsOf(t), q \in DOMAIN t \ DirsOf(t) :
            /\ t[o].parent # NULL /\ o # q /\ t[q].parent # NULL
            /\ u = deleteFileSystem(addToParent(deleteFileSystem(t, o), o, t[q].parent), q)
    BY <1>5 DEF MovedOnto
  <2> DEFINE a == deleteFileSystem(t, o)
             b == addToParent(a, o, t[q].parent)
  <2>2. /\ Tree(a) /\ DOMAIN a = DOMAIN t /\ DirsOf(a) = DirsOf(t) /\ a[o].parent = NULL
        /\ t[q].parent \in DirsOf(a) /\ Tree(b) /\ DOMAIN b = DOMAIN t /\ b[q].parent = t[q].parent
    BY <2>1, OntoEffect
  <2>3. Placed(a) /\ u = deleteFileSystem(b, q)
    BY <2>1, DeletePlaced
  <2> HIDE DEF a
  <2>4. Placed(b)
    BY <2>2, <2>3, AddPlaced
  <2> HIDE DEF b
  <2> QED BY <2>1, <2>2, <2>3, <2>4, DeletePlaced
<1>6. CASE CopiedDir(t, u, d, m)
  <2>1. PICK o \in DirsOf(t), p \in DirsOf(t), name \in Word :
            LET made == NewObject(t, "dir", t[o].name, p)
                w    == cloneDirectory(made, Newest(made), o)
            IN  /\ o # p /\ t[o].dirs = <<>> /\ t[o].files = <<>>
                /\ u = Rename(w, fileSystemNameToObject(w, p, t[o].name), name)
    BY <1>6 DEF CopiedDir
  <2> DEFINE made == NewObject(t, "dir", t[o].name, p)
             w    == cloneDirectory(made, Newest(made), o)
             r    == fileSystemNameToObject(w, p, t[o].name)
  <2>2. /\ NewIs(t, made, Newest(made), "dir", t[o].name, p) /\ r \in DOMAIN w
        /\ made[o].dirs = <<>> /\ made[o].files = <<>> => w = made
    BY CopyEffect
  <2>3. o \in DOMAIN t /\ u = Rename(w, r, name)
    BY <2>1 DEF DirsOf
  <2>4. Placed(made)
    <3>1. t[o].name \in Word
      BY <2>3, TreeParts
    <3> QED BY <3>1, NewPlaced
  <2> HIDE DEF r, w, made
  <2>5. made[o].dirs = <<>> /\ made[o].files = <<>> /\ Tree(made)
    BY <2>1, <2>2, <2>3 DEF NewIs
  <2>6. w = made
    BY <2>2, <2>5
  <2> QED BY <2>2, <2>3, <2>4, <2>5, <2>6, RenamePlaced
<1>7. CASE CopiedWithin(t, u, m)
  <2>1. PICK o \in DOMAIN t, p \in DirsOf(t), name \in Word :
            LET made == NewObject(t, "dir", name, p)
            IN  u = NewObject(made, "file", t[o].name, Newest(made))
    BY <1>7 DEF CopiedWithin
  <2> DEFINE made == NewObject(t, "dir", name, p)
  <2>2. NewIs(t, made, Newest(made), "dir", name, p) /\ Newest(made) \in DirsOf(made) /\ t[o].name \in Word
    BY WithinEffect
  <2>3. u = NewObject(made, "file", t[o].name, Newest(made)) /\ Placed(made)
    BY <2>1, NewPlaced
  <2> HIDE DEF made
  <2> QED BY <2>2, <2>3, NewPlaced DEF NewIs
<1>8. CASE CopiedOnto(t, u, m)
  <2>1. PICK o \in DOMAIN t, q \in DOMAIN t :
            t[q].parent # NULL /\ u = deleteFileSystem(NewObject(t, "file", t[o].name, t[q].parent), q)
    BY <1>8 DEF CopiedOnto
  <2> DEFINE v == NewObject(t, "file", t[o].name, t[q].parent)
  <2>2. /\ t[q].parent \in DirsOf(t) /\ t[o].name \in Word
        /\ Tree(v) /\ DOMAIN t \subseteq DOMAIN v /\ v[q].parent = t[q].parent
    BY <2>1, CopiedOntoEffect
  <2>3. Placed(v) /\ u = deleteFileSystem(v, q)
    BY <2>1, <2>2, NewPlaced
  <2> HIDE DEF v
  <2> QED BY <2>1, <2>2, <2>3, DeletePlaced
<1> QED BY <1>1, <1>2, <1>3, <1>4, <1>5, <1>6, <1>7, <1>8 DEF TreeStep

(* How often a list and another, with nothing in common, hold e.             *)
LEMMA HeldOnce ==
    ASSUME NEW D, NEW F, D \cap F = {}, NEW s \in Seq(D), NEW r \in Seq(F), Distinct(s), Distinct(r), NEW e
    PROVE  /\ \A i, j \in DOMAIN (s \o r) : (s \o r)[i] = (s \o r)[j] => i = j
           /\ Cardinality({i \in DOMAIN (s \o r) : (s \o r)[i] = e})
                  = IF e \in ToSet(s) \cup ToSet(r) THEN 1 ELSE 0
<1> DEFINE all == s \o r
           a == Len(s)
           b == Len(r)
           I == {i \in DOMAIN all : all[i] = e}
<1>1. s \in Seq(D \cup F) /\ r \in Seq(D \cup F) /\ a \in Nat /\ b \in Nat
  BY SeqMonotonic
<1>2. all \in Seq(D \cup F) /\ Len(all) = a + b /\ ToSet(all) = ToSet(s) \cup ToSet(r)
  BY <1>1, JoinKeeps
<1>3. DOMAIN all = 1 .. a + b
  BY <1>2
<1>4. \A i \in 1 .. a + b : all[i] = IF i <= a THEN s[i] ELSE r[i - a]
  BY <1>1
<1>5. ASSUME NEW i \in DOMAIN all, NEW j \in DOMAIN all, all[i] = all[j] PROVE i = j
  <2>1. i \in 1 .. a + b /\ j \in 1 .. a + b
    BY <1>3
  <2>2. i <= a => i \in 1 .. a /\ s[i] \in D
    BY <1>1, <2>1
  <2>3. j <= a => j \in 1 .. a /\ s[j] \in D
    BY <1>1, <2>1
  <2>4. i > a => i - a \in 1 .. b /\ r[i - a] \in F
    BY <1>1, <2>1
  <2>5. j > a => j - a \in 1 .. b /\ r[j - a] \in F
    BY <1>1, <2>1
  <2>6. CASE i <= a /\ j <= a
    BY <1>4, <1>5, <2>1, <2>2, <2>3, <2>6 DEF Distinct
  <2>7. CASE i > a /\ j > a
    <3>1. i - a = j - a
      <4>1. r[i - a] = r[j - a]
        <5> HIDE DEF all, a
        <5>1. ~(i <= a) /\ ~(j <= a)
          BY <1>1, <2>1, <2>7
        <5> QED BY <1>4, <1>5, <2>1, <5>1
      <4> QED BY <2>4, <2>5, <2>7, <4>1 DEF Distinct
    <3> HIDE DEF a, b
    <3> QED BY <1>1, <2>1, <3>1
  <2>8. CASE (i <= a /\ j > a) \/ (i > a /\ j <= a)
    BY <1>1, <1>4, <1>5, <2>1, <2>2, <2>3, <2>4, <2>5, <2>8
  <2> HIDE DEF all, a, b
  <2> QED BY <1>1, <2>1, <2>6, <2>7, <2>8
<1>6. CASE e \in ToSet(all)
  <2>1. PICK i \in DOMAIN all : all[i] = e
    BY <1>2, <1>6 DEF ToSet
  <2> HIDE DEF all
  <2>2. I = {i}
    BY <1>5, <2>1
  <2>3. Cardinality(I) = 1
    BY <2>2, FS_Singleton
  <2> QED BY <1>2, <1>5, <1>6, <2>3 DEF all
<1>7. CASE e \notin ToSet(all)
  <2>1. I = {}
    BY <1>2, <1>7 DEF ToSet
  <2>2. Cardinality(I) = 0
    BY <2>1, FS_EmptySet
  <2> HIDE DEF all
  <2> QED BY <1>2, <1>5, <1>7, <2>2 DEF all
<1> QED BY <1>6, <1>7

LEMMA InitPlaced ==
    ASSUME Init
    PROVE  Placed(node)
<1>1. DOMAIN node = {root} /\ node[root].dirs = <<>> /\ node[root].files = <<>>
  BY DEF Init
<1> QED BY <1>1 DEF Placed, Distinct, Children, ToSet

LEMMA PlacedHolds == Spec => [](~doubled => Placed(node))
<1> DEFINE PlacedInv == ~doubled => Placed(node)
<1>1. ASSUME TypeInv, PlacedInv, Next PROVE PlacedInv'
  <2>1. Sound(doubled', merged') /\ (doubled => doubled')
    BY <1>1, StepSound DEF NextSound
  <2> QED BY <1>1, <2>1, StepPlaced DEF Sound, TypeInv
<1>2. PlacedInv /\ UNCHANGED vars => PlacedInv'
  BY DEF vars
<1>3. Init => PlacedInv
  BY InitPlaced
<1>4. TypeInv /\ PlacedInv /\ [Next]_vars => PlacedInv'
  BY <1>1, <1>2
<1> HIDE DEF PlacedInv
<1>5. Spec => []PlacedInv
  BY <1>3, <1>4, TypesHold, PTL DEF Spec
<1> QED BY <1>5 DEF PlacedInv

(* Until a directory that is not empty was copied, an object stands in its   *)
(* parent's list, there once, and nowhere else: whatever addToParent and     *)
(* deleteFileSystem were called for, in whatever order.                      *)
THEOREM ShellLists == Spec => []ListsMatchParents
<1>1. ASSUME TypeInv, ~doubled => Placed(node) PROVE ListsMatchParents
  <2> SUFFICES ASSUME ~doubled, NEW d \in Dirs, NEW o \in Object \ {root}
      PROVE  Cardinality({i \in DOMAIN Listed(d) : Listed(d)[i] = o}) = IF node[o].parent = d THEN 1 ELSE 0
    BY DEF ListsMatchParents
  <2>1. Tree(node) /\ Placed(node) /\ d \in DOMAIN node /\ o \in DOMAIN node
    BY <1>1 DEF TypeInv, Dirs, Object
  <2>2. node[d].dirs \in Seq(DirsOf(node)) /\ node[d].files \in Seq(DOMAIN node \ DirsOf(node)) /\ d # NULL
    BY <2>1, TreeParts
  <2>3. Distinct(node[d].dirs) /\ Distinct(node[d].files)
    BY <2>1 DEF Placed
  <2>4. (node[o].parent = d) <=> o \in Children(node, d)
    BY <2>1, <2>2 DEF Placed
  <2>5. Cardinality({i \in DOMAIN Listed(d) : Listed(d)[i] = o})
            = IF o \in ToSet(node[d].dirs) \cup ToSet(node[d].files) THEN 1 ELSE 0
    <3> DEFINE D == DirsOf(node)
               F == DOMAIN node \ DirsOf(node)
               s == node[d].dirs
               r == node[d].files
    <3>1. D \cap F = {} /\ s \in Seq(D) /\ r \in Seq(F) /\ Distinct(s) /\ Distinct(r)
      BY <2>2, <2>3
    <3> HIDE DEF D, F, s, r
    <3>2. Cardinality({i \in DOMAIN (s \o r) : (s \o r)[i] = o}) = IF o \in ToSet(s) \cup ToSet(r) THEN 1 ELSE 0
      BY <3>1, HeldOnce
    <3> QED BY <3>2 DEF s, r, Listed
  <2> QED BY <2>4, <2>5 DEF Children
<1> QED BY <1>1, TypesHold, PlacedHolds, PTL

-----------------------------------------------------------------------------
(* What a step loses.                                                        *)

OneLost(t, u) ==
    LET lost == Below(t, {root}) \ Below(u, {root})
    IN  lost # {} => \E o \in lost : lost \subseteq Below(t, {o}) /\ u[o].parent # t[o].parent

LEMMA OntoLoses ==
    ASSUME NEW t, Tree(t), NEW u, Tree(u), DOMAIN u = DOMAIN t,
           NEW o \in DOMAIN t \ DirsOf(t), NEW q \in DOMAIN t \ DirsOf(t), NEW p, t[q].parent = p, p # NULL,
           u[q].parent = NULL, u[o].parent = p, o \in Children(u, p), p \in DOMAIN t,
           \A x \in DOMAIN t : /\ Children(t, x) \ {o, q} \subseteq Children(u, x)
                               /\ x # p => Children(t, x) \ {o} \subseteq Children(u, x)
                               /\ x # p /\ x # t[o].parent => Children(t, x) \subseteq Children(u, x)
    PROVE  OneLost(t, u)
<1> DEFINE R == Below(t, {root})
           Q == Below(u, {root})
<1>1. {root} \in SUBSET DOMAIN t /\ {root} \in SUBSET DOMAIN u
  BY DEF Tree, DirsOf
<1>2. root \in Q /\ \A x \in Q : Children(u, x) \subseteq Q
  BY <1>1, BelowHas, BelowClosed
<1>3. Children(t, o) = {} /\ Children(t, q) = {}
  <2>1. \A x \in DOMAIN t \ DirsOf(t) : t[x].dirs = <<>> /\ t[x].files = <<>>
    BY TreeParts DEF Tree, DirsOf
  <2> QED BY <2>1 DEF Children, ToSet
<1>4. o \in Below(t, {o}) /\ q \in Below(t, {q})
  BY BelowHas
<1> HIDE DEF Q
<1>5. CASE p \in Q
  <2>1. o \in Q
    BY <1>2, <1>5
  <2> DEFINE X == Q \cup {q}
  <2>2. {root} \subseteq X /\ \A x \in X \cap DOMAIN t : Children(t, x) \subseteq X
    BY <1>2, <1>3, <2>1
  <2> HIDE DEF X
  <2>3. R \subseteq X
    BY <1>1, <2>2, BelowLeast
  <2> HIDE DEF R
  <2>4. R \ Q \subseteq {q}
    BY <2>3 DEF X
  <2> QED BY <1>4, <2>4 DEF OneLost, R, Q
<1>6. CASE p \notin Q
  <2> DEFINE X == Q \cup {o}
  <2>1. {root} \subseteq X /\ \A x \in X \cap DOMAIN t : Children(t, x) \subseteq X
    BY <1>2, <1>3, <1>6
  <2> HIDE DEF X
  <2>2. R \subseteq X
    BY <1>1, <2>1, BelowLeast
  <2>3. t[o].parent = p => R \subseteq Q
    <3> SUFFICES ASSUME t[o].parent = p PROVE R \subseteq Q
      OBVIOUS
    <3>1. {root} \subseteq Q /\ \A x \in Q \cap DOMAIN t : Children(t, x) \subseteq Q
      BY <1>2, <1>6
    <3> QED BY <1>1, <3>1, BelowLeast
  <2> HIDE DEF R
  <2>4. R \ Q \subseteq {o}
    BY <2>2 DEF X
  <2> QED BY <1>4, <2>3, <2>4 DEF OneLost, R, Q
<1> QED BY <1>5, <1>6

LEMMA StepLoses ==
    ASSUME NEW t, Tree(t), NEW u, NEW d, NEW m, TreeStep(t, u, d, m)
    PROVE  OneLost(t, u)
<1>0. Tree(u) /\ DOMAIN t \subseteq DOMAIN u
  BY StepTypes
<1>1. ASSUME \A x \in DOMAIN t : Children(t, x) \subseteq Children(u, x)
      PROVE  OneLost(t, u)
  <2>1. Below(t, {root}) \subseteq Below(u, {root})
    BY <1>0, <1>1, NothingTaken
  <2> QED BY <2>1 DEF OneLost
<1>2. ASSUME NEW o \in DOMAIN t, u[o].parent # t[o].parent,
             \A x \in DOMAIN t : Children(t, x) \ {o} \subseteq Children(u, x)
      PROVE  OneLost(t, u)
  <2> DEFINE lost == Below(t, {root}) \ Below(u, {root})
  <2>1. lost # {} => o \in lost /\ lost \subseteq Below(t, {o})
    BY <1>0, <1>2, OneTaken
  <2> QED BY <1>2, <2>1 DEF OneLost
<1>3. CASE u = t
  BY <1>1, <1>3
<1>4. CASE Made(t, u, m)
  <2>1. PICK kind \in {"dir", "file"}, name \in Word, p \in DirsOf(t) : u = NewObject(t, kind, name, p)
    BY <1>4 DEF Made
  <2>2. \A x \in DOMAIN t : Children(t, x) \subseteq Children(u, x)
    BY <2>1, NewLists
  <2> QED BY <1>1, <2>2
<1>5. CASE Taken(t, u)
  <2>1. PICK o \in DOMAIN t : t[o].parent # NULL /\ u = deleteFileSystem(t, o)
    BY <1>5 DEF Taken
  <2>2. \A x \in DOMAIN t : Children(t, x) \ {o} \subseteq Children(u, x)
    BY <2>1, DeleteLists
  <2>3. u[o].parent = NULL
    BY <2>1, DeleteEffect
  <2> QED BY <1>2, <2>1, <2>2, <2>3
<1>6. CASE MovedInto(t, u, m)
  <2>1. PICK o \in DOMAIN t, p \in DirsOf(t), name \in Word :
            t[o].parent # NULL /\ u = Rename(addToParent(deleteFileSystem(t, o), o, p), o, name)
    BY <1>6 DEF MovedInto
  <2> DEFINE a == deleteFileSystem(t, o)
             b == addToParent(a, o, p)
  <2>2. IntoIs(t, a, b, u, o, p, name)
    BY <2>1, IntoEffect
  <2>3. \A x \in DOMAIN t : /\ Children(t, x) \ {o} \subseteq Children(a, x)
                            /\ x # t[o].parent => Children(a, x) = Children(t, x)
    BY <2>1, DeleteLists DEF Children
  <2>4. u = Rename(b, o, name)
    BY <2>1
  <2> HIDE DEF a
  <2>5. \A x \in DOMAIN t : Children(b, x) = IF x = p THEN Children(a, x) \cup {o} ELSE Children(a, x)
    <3>1. Tree(a) /\ DOMAIN a = DOMAIN t /\ p \in DirsOf(a)
      BY <2>2 DEF IntoIs
    <3> QED BY <3>1, AddLists
  <2> HIDE DEF b
  <2>6. \A x \in DOMAIN t : Children(u, x) = Children(b, x)
    BY <2>2, <2>4, RenamePlaced DEF IntoIs
  <2>7. CASE p = t[o].parent
    <3>1. \A x \in DOMAIN t : Children(t, x) \subseteq Children(u, x)
      BY <2>3, <2>5, <2>6, <2>7
    <3> QED BY <1>1, <3>1
  <2>8. CASE p # t[o].parent
    <3>1. \A x \in DOMAIN t : Children(t, x) \ {o} \subseteq Children(u, x)
      BY <2>3, <2>5, <2>6
    <3>2. u[o].parent = p
      BY <2>2 DEF IntoIs
    <3> QED BY <1>2, <2>8, <3>1, <3>2
  <2> QED BY <2>7, <2>8
<1>7. CASE MovedOnto(t, u, m)
  <2>1. PICK o \in DOMAIN t \ DirsOf(t), q \in DOMAIN t \ DirsOf(t) :
            /\ t[o].parent # NULL /\ o # q /\ t[q].parent # NULL
            /\ u = deleteFileSystem(addToParent(deleteFileSystem(t, o), o, t[q].parent), q)
    BY <1>7 DEF MovedOnto
  <2> DEFINE p == t[q].parent
             a == deleteFileSystem(t, o)
             b == addToParent(a, o, p)
  <2>2. /\ Tree(a) /\ DOMAIN a = DOMAIN t /\ DirsOf(a) = DirsOf(t) /\ p \in DirsOf(a)
        /\ Tree(b) /\ DOMAIN b = DOMAIN t /\ b[q].parent = p
        /\ DOMAIN u = DOMAIN t /\ u[q].parent = NULL /\ u[o].parent = p
    BY <2>1, OntoEffect
  <2>3. \A x \in DOMAIN t : /\ Children(t, x) \ {o} \subseteq Children(a, x)
                            /\ x # t[o].parent => Children(a, x) = Children(t, x)
    BY <2>1, DeleteLists DEF Children
  <2>4. u = deleteFileSystem(b, q)
    BY <2>1
  <2> HIDE DEF a
  <2>5. \A x \in DOMAIN t : Children(b, x) = IF x = p THEN Children(a, x) \cup {o} ELSE Children(a, x)
    <3> HIDE DEF p
    <3>1. Tree(a) /\ o \in DOMAIN a /\ p \in DirsOf(a)
      BY <2>2
    <3> QED BY <2>2, <3>1, AddLists
  <2> HIDE DEF b
  <2>6. \A x \in DOMAIN t : /\ Children(b, x) \ {q} \subseteq Children(u, x)
                            /\ x # p => Children(u, x) = Children(b, x)
    <3> HIDE DEF p
    <3>1. Tree(b) /\ q \in DOMAIN b /\ b[q].parent # NULL /\ b[q].parent = p
      BY <2>1, <2>2 DEF p
    <3>2. \A x \in DOMAIN b : /\ Children(b, x) \ {q} \subseteq Children(u, x)
                              /\ x # p => u[x].dirs = b[x].dirs /\ u[x].files = b[x].files
      BY <2>4, <3>1, DeleteLists
    <3> QED BY <2>2, <3>2 DEF Children
  <2>7. p \in DOMAIN t /\ o \in Children(u, p)
    BY <2>1, <2>2, <2>5, <2>6 DEF DirsOf
  <2>8. \A x \in DOMAIN t : /\ Children(t, x) \ {o, q} \subseteq Children(u, x)
                            /\ x # p => Children(t, x) \ {o} \subseteq Children(u, x)
                            /\ x # p /\ x # t[o].parent => Children(t, x) \subseteq Children(u, x)
    BY <2>3, <2>5, <2>6
  <2> QED BY <1>0, <2>1, <2>2, <2>7, <2>8, OntoLoses
<1>8. CASE CopiedDir(t, u, d, m)
  <2>1. PICK o \in DirsOf(t), p \in DirsOf(t), name \in Word :
            LET made == NewObject(t, "dir", t[o].name, p)
                w    == cloneDirectory(made, Newest(made), o)
            IN  u = Rename(w, fileSystemNameToObject(w, p, t[o].name), name)
    BY <1>8 DEF CopiedDir
  <2> DEFINE made == NewObject(t, "dir", t[o].name, p)
             w    == cloneDirectory(made, Newest(made), o)
             r    == fileSystemNameToObject(w, p, t[o].name)
  <2>2. Tree(w) /\ Grows(t, w) /\ r \in DOMAIN w
    BY CopyEffect
  <2>3. u = Rename(w, r, name)
    BY <2>1
  <2> HIDE DEF r, w
  <2>4. \A x \in DOMAIN w : Children(u, x) = Children(w, x)
    BY <2>2, <2>3, RenamePlaced
  <2>5. \A x \in DOMAIN t : Children(t, x) \subseteq Children(u, x)
    BY <2>2, <2>4 DEF Grows
  <2> QED BY <1>1, <2>5
<1>9. CASE CopiedWithin(t, u, m)
  <2>1. PICK o \in DOMAIN t, p \in DirsOf(t), name \in Word :
            LET made == NewObject(t, "dir", name, p)
            IN  u = NewObject(made, "file", t[o].name, Newest(made))
    BY <1>9 DEF CopiedWithin
  <2> DEFINE made == NewObject(t, "dir", name, p)
  <2>2. NewIs(t, made, Newest(made), "dir", name, p) /\ Newest(made) \in DirsOf(made) /\ t[o].name \in Word
    BY WithinEffect
  <2>3. u = NewObject(made, "file", t[o].name, Newest(made))
        /\ \A x \in DOMAIN t : Children(t, x) \subseteq Children(made, x)
    BY <2>1, NewLists
  <2> HIDE DEF made
  <2>4. \A x \in DOMAIN made : Children(made, x) \subseteq Children(u, x)
    BY <2>2, <2>3, NewLists DEF NewIs
  <2>5. \A x \in DOMAIN t : Children(t, x) \subseteq Children(u, x)
    BY <2>2, <2>3, <2>4 DEF NewIs
  <2> QED BY <1>1, <2>5
<1>10. CASE CopiedOnto(t, u, m)
  <2>1. PICK o \in DOMAIN t, q \in DOMAIN t :
            t[q].parent # NULL /\ u = deleteFileSystem(NewObject(t, "file", t[o].name, t[q].parent), q)
    BY <1>10 DEF CopiedOnto
  <2> DEFINE v == NewObject(t, "file", t[o].name, t[q].parent)
  <2>2. /\ t[q].parent \in DirsOf(t) /\ t[o].name \in Word
        /\ Tree(v) /\ DOMAIN t \subseteq DOMAIN v /\ v[q].parent = t[q].parent
        /\ u[q].parent = NULL
    BY <2>1, CopiedOntoEffect
  <2>3. u = deleteFileSystem(v, q) /\ \A x \in DOMAIN t : Children(t, x) \subseteq Children(v, x)
    BY <2>1, <2>2, NewLists
  <2> HIDE DEF v
  <2>4. \A x \in DOMAIN v : Children(v, x) \ {q} \subseteq Children(u, x)
    BY <2>1, <2>2, <2>3, DeleteLists
  <2>5. \A x \in DOMAIN t : Children(t, x) \ {q} \subseteq Children(u, x)
    BY <2>2, <2>3, <2>4
  <2> QED BY <1>2, <2>1, <2>2, <2>5
<1> QED BY <1>3, <1>4, <1>5, <1>6, <1>7, <1>8, <1>9, <1>10 DEF TreeStep

(* What a command takes out of the tree lies below one object, and that one  *)
(* it took from its parent: mv and cp lose nothing but the file they         *)
(* replace, or what they moved under itself, and mkdir, > and get nothing.   *)
THEOREM ShellLoses == Spec => OneSubtreeLost
<1> DEFINE Step == LET lost == Reachable \ Below(node', {root}) IN
                   node' # node /\ lost # {} =>
                       \E o \in lost : lost \subseteq Below(node, {o}) /\ node'[o].parent # node[o].parent
<1>1. TypeInv /\ Next => Step
  <2> SUFFICES ASSUME TypeInv, Next PROVE Step
    OBVIOUS
  <2>1. TreeStep(node, node', doubled', merged') /\ Tree(node)
    BY StepSound DEF NextSound, Sound, TypeInv
  <2>2. OneLost(node, node')
    BY <2>1, StepLoses
  <2> QED BY <2>2 DEF OneLost, Reachable
<1>2. UNCHANGED vars => Step
  BY DEF vars
<1>3. TypeInv /\ [Next]_vars => [Step]_vars
  BY <1>1, <1>2
<1> HIDE DEF Step
<1>4. Spec => [][Step]_vars
  BY <1>3, TypesHold, PTL DEF Spec
<1> QED BY <1>4 DEF OneSubtreeLost, Step

-----------------------------------------------------------------------------
(* Names.                                                                    *)

Unique(t) == \A d \in DOMAIN t : \A x, y \in Children(t, d) : x # y => t[x].name # t[y].name \/ t[x].name = ".."

(* u is t, but that o is put into p, or is there, with a name that is free.  *)
JoinIs(t, u, o, p, name) ==
    /\ DOMAIN u = DOMAIN t \cup {o} /\ u[o].name = name
    /\ \A x \in DOMAIN t \ {o} : u[x].name = t[x].name
    /\ \A d \in DOMAIN t : Children(u, d) \ {o} \subseteq Children(t, d)
    /\ \A d \in DOMAIN u \ DOMAIN t : Children(u, d) = {}
    /\ \A d \in DOMAIN u : d # p => o \notin Children(u, d)
    /\ name = ".." \/ \A x \in Children(t, p) \ {o} : t[x].name # name

LEMMA JoinUnique ==
    ASSUME NEW t, Tree(t), Unique(t), NEW u, NEW o, NEW p \in DOMAIN t, NEW name, JoinIs(t, u, o, p, name)
    PROVE  Unique(u)
<1> SUFFICES ASSUME NEW d \in DOMAIN u, NEW x \in Children(u, d), NEW y \in Children(u, d), x # y
    PROVE  u[x].name # u[y].name \/ u[x].name = ".."
  BY DEF Unique
<1>1. d \in DOMAIN t /\ Children(u, d) \ {o} \subseteq Children(t, d)
  BY DEF JoinIs
<1>2. Children(t, d) \subseteq DOMAIN t /\ Children(t, p) \subseteq DOMAIN t
  BY <1>1, ChildrenOf
<1>3. CASE x # o /\ y # o
  <2>1. x \in Children(t, d) /\ y \in Children(t, d) /\ u[x].name = t[x].name /\ u[y].name = t[y].name
    BY <1>1, <1>2, <1>3 DEF JoinIs
  <2> QED BY <1>1, <2>1 DEF Unique
<1>4. ASSUME NEW z \in Children(u, d), z # o, o \in Children(u, d)
      PROVE  name = ".." \/ u[z].name # name
  <2>1. d = p /\ z \in Children(t, p) \ {o} /\ u[z].name = t[z].name
    BY <1>1, <1>2, <1>4 DEF JoinIs
  <2> QED BY <2>1 DEF JoinIs
<1>5. u[o].name = name
  BY DEF JoinIs
<1> QED BY <1>3, <1>4, <1>5

(* Only p holds more, the object o.                                          *)
HoldsMore(t, u, o, p) ==
    Children(u, o) = {} /\ \A x \in DOMAIN t : Children(u, x) = IF x = p THEN Children(t, x) \cup {o} ELSE Children(t, x)

LEMMA NewHolds ==
    ASSUME NEW t, Tree(t), NEW kind \in {"dir", "file"}, NEW name \in Word, NEW p \in DirsOf(t)
    PROVE  HoldsMore(t, NewObject(t, kind, name, p), Cardinality(DOMAIN t), p)
BY NewLists DEF HoldsMore

(* Only the name of r is another.                                            *)
NamedIs(t, u, r, name) ==
    /\ Tree(u) /\ DOMAIN u = DOMAIN t
    /\ \A x \in DOMAIN t : Children(u, x) = Children(t, x) /\ u[x].name = IF x = r THEN name ELSE t[x].name

LEMMA RenameIs ==
    ASSUME NEW t, Tree(t), NEW r \in DOMAIN t, NEW name \in Word, name # ""
    PROVE  NamedIs(t, Rename(t, r, name), r, name)
<1> DEFINE u == Rename(t, r, name)
<1>1. /\ Tree(u) /\ DOMAIN u = DOMAIN t
      /\ \A x \in DOMAIN t : u[x].name = IF x = r /\ name # "" THEN name ELSE t[x].name
  BY RenameEffect
<1>2. \A x \in DOMAIN t : Children(u, x) = Children(t, x)
  BY RenamePlaced
<1> HIDE DEF u
<1>3. NamedIs(t, u, r, name)
  BY <1>1, <1>2 DEF NamedIs
<1> QED BY <1>3 DEF u

LEMMA NewUnique ==
    ASSUME NEW t, Tree(t), Unique(t), NEW kind \in {"dir", "file"}, NEW name \in Word, NEW p \in DirsOf(t),
           Free(t, p, name)
    PROVE  Unique(NewObject(t, kind, name, p))
<1> DEFINE u == NewObject(t, kind, name, p)
           o == Cardinality(DOMAIN t)
<1>1. NewIs(t, u, o, kind, name, p)
  BY NewEffect
<1>2. Children(u, o) = {} /\ \A x \in DOMAIN t : Children(u, x) = IF x = p THEN Children(t, x) \cup {o} ELSE Children(t, x)
  BY NewLists
<1>3. p \in DOMAIN t /\ \A x \in DOMAIN t : Children(t, x) \subseteq DOMAIN t
  BY ChildrenOf DEF DirsOf
<1> HIDE DEF u, o
<1>4. JoinIs(t, u, o, p, name)
  <2>1. DOMAIN u = DOMAIN t \cup {o} /\ u[o].name = name /\ \A x \in DOMAIN t : u[x].name = t[x].name
    BY <1>1 DEF NewIs
  <2>2. o \notin DOMAIN t
    BY <1>1 DEF NewIs
  <2>3. \A d \in DOMAIN t : Children(u, d) \ {o} \subseteq Children(t, d)
    BY <1>2
  <2>4. \A d \in DOMAIN u : d # p => o \notin Children(u, d)
    BY <1>2, <1>3, <2>1, <2>2
  <2>5. name = ".." \/ \A x \in Children(t, p) \ {o} : t[x].name # name
    BY DEF Free
  <2> QED BY <1>2, <2>1, <2>3, <2>4, <2>5 DEF JoinIs
<1>5. Unique(u)
  BY <1>3, <1>4, JoinUnique
<1> QED BY <1>5 DEF u

(* An object of p gets another name, one that is free.                       *)
LEMMA RenameUnique ==
    ASSUME NEW t, Tree(t), Placed(t), Unique(t), NEW p \in DirsOf(t), NEW r \in Children(t, p),
           NEW name \in Word, name # "", name = ".." \/ \A x \in Children(t, p) \ {r} : t[x].name # name
    PROVE  Unique(Rename(t, r, name))
<1> DEFINE u == Rename(t, r, name)
<1>1. p \in DOMAIN t /\ r \in DOMAIN t
  BY ChildrenOf DEF DirsOf
<1>2. NamedIs(t, u, r, name)
  BY <1>1, RenameIs
<1>3. \A d \in DOMAIN t : d # p => r \notin Children(t, d)
  BY <1>1 DEF Placed
<1> HIDE DEF u
<1>4. JoinIs(t, u, r, p, name)
  BY <1>1, <1>2, <1>3 DEF JoinIs, NamedIs
<1>5. Unique(u)
  BY <1>1, <1>4, JoinUnique
<1> QED BY <1>5 DEF u

LEMMA IntoUnique ==
    ASSUME NEW t, Tree(t), Placed(t), Unique(t), NEW o \in DOMAIN t, NEW p \in DirsOf(t), NEW name \in Word,
           t[o].parent # NULL, name # "", Free(t, p, name),
           Placed(Rename(addToParent(deleteFileSystem(t, o), o, p), o, name))
    PROVE  Unique(Rename(addToParent(deleteFileSystem(t, o), o, p), o, name))
<1> DEFINE a == deleteFileSystem(t, o)
           b == addToParent(a, o, p)
           u == Rename(b, o, name)
<1>1. IntoIs(t, a, b, u, o, p, name) /\ Placed(u)
  BY IntoEffect
<1>2. \A x \in DOMAIN t : Children(a, x) \subseteq Children(t, x)
  BY DeleteLists
<1> HIDE DEF a
<1>3. \A x \in DOMAIN t : Children(b, x) = IF x = p THEN Children(a, x) \cup {o} ELSE Children(a, x)
  <2>1. Tree(a) /\ o \in DOMAIN a /\ p \in DirsOf(a) /\ DOMAIN a = DOMAIN t
    BY <1>1 DEF IntoIs
  <2>2. \A x \in DOMAIN a : Children(b, x) = IF x = p THEN Children(a, x) \cup {o} ELSE Children(a, x)
    BY <2>1, AddLists
  <2> HIDE DEF b
  <2> QED BY <2>1, <2>2
<1> HIDE DEF b
<1>4. \A x \in DOMAIN t : Children(u, x) = Children(b, x)
  <2>1. Tree(b) /\ o \in DOMAIN b /\ DOMAIN b = DOMAIN t
    BY <1>1 DEF IntoIs
  <2> QED BY <2>1, RenamePlaced
<1>5. DOMAIN u = DOMAIN t /\ u[o].parent = p /\ \A x \in DOMAIN t : u[x].name = IF x = o THEN name ELSE t[x].name
  BY <1>1 DEF IntoIs
<1> HIDE DEF u
<1>6. \A d \in DOMAIN u : d # p => o \notin Children(u, d)
  BY <1>1, <1>5 DEF Placed
<1>7. \A d \in DOMAIN t : Children(u, d) \ {o} \subseteq Children(t, d)
  BY <1>2, <1>3, <1>4
<1>8. name = ".." \/ \A x \in Children(t, p) \ {o} : t[x].name # name
  BY DEF Free
<1>9. JoinIs(t, u, o, p, name)
  BY <1>5, <1>6, <1>7, <1>8 DEF JoinIs
<1>10. Unique(u)
  BY <1>9, JoinUnique DEF DirsOf
<1> QED BY <1>10 DEF u, b, a

(* The copy of an empty directory stands beside what had its name before:    *)
(* one of the two keeps it.                                                  *)
LEMMA CopyUnique ==
    ASSUME NEW t, Tree(t), Placed(t), Unique(t), NEW old \in Word, NEW p \in DirsOf(t), NEW name \in Word,
           name # "", Free(t, p, name),
           NEW r \in Children(NewObject(t, "dir", old, p), p), NewObject(t, "dir", old, p)[r].name = old
    PROVE  Unique(Rename(NewObject(t, "dir", old, p), r, name))
<1> DEFINE n == Cardinality(DOMAIN t)
           made == NewObject(t, "dir", old, p)
           u == Rename(made, r, name)
<1>1. NewIs(t, made, n, "dir", old, p) /\ r \in Children(made, p) /\ made[r].name = old
  BY NewEffect
<1>2. Children(made, n) = {} /\ \A x \in DOMAIN t : Children(made, x) = IF x = p THEN Children(t, x) \cup {n} ELSE Children(t, x)
  <2>1. HoldsMore(t, made, n, p)
    BY NewHolds
  <2> HIDE DEF made, n
  <2> QED BY <2>1 DEF HoldsMore
<1>3. p \in DOMAIN t /\ \A x \in DOMAIN t : Children(t, x) \subseteq DOMAIN t
  BY ChildrenOf DEF DirsOf
<1> HIDE DEF made, n
<1>4. Tree(made) /\ DOMAIN made = DOMAIN t \cup {n} /\ n \notin DOMAIN t /\ made[n].name = old
      /\ (\A x \in DOMAIN t : made[x].name = t[x].name)
  BY <1>1 DEF NewIs
<1>5. r \in DOMAIN made /\ (r = n \/ r \in Children(t, p))
  BY <1>1, <1>2, <1>3, <1>4
<1>6. NamedIs(made, u, r, name)
  BY <1>4, <1>5, RenameIs
<1> HIDE DEF u
<1>7. /\ DOMAIN u = DOMAIN made /\ \A x \in DOMAIN made : u[x].name = IF x = r THEN name ELSE made[x].name
      /\ \A x \in DOMAIN made : Children(u, x) = Children(made, x)
  BY <1>6 DEF NamedIs
<1>8. \A d \in DOMAIN u : d # p => n \notin Children(u, d)
  BY <1>2, <1>3, <1>4, <1>7
<1>9. \A d \in DOMAIN t : Children(u, d) \ {n} \subseteq Children(t, d)
  BY <1>2, <1>4, <1>7
<1>10. CASE r = n
  <2>1. name = ".." \/ \A x \in Children(t, p) \ {n} : t[x].name # name
    BY DEF Free
  <2>2. JoinIs(t, u, n, p, name)
    BY <1>2, <1>4, <1>7, <1>8, <1>9, <1>10, <2>1 DEF JoinIs
  <2>3. Unique(u)
    BY <1>3, <2>2, JoinUnique
  <2> QED BY <2>3 DEF u, made
<1>11. CASE r # n
  <2> DEFINE v == Rename(t, r, name)
  <2>1. r \in Children(t, p) /\ r \in DOMAIN t /\ t[r].name = old
    BY <1>1, <1>3, <1>4, <1>5, <1>11
  <2>2. NamedIs(t, v, r, name)
    BY <2>1, RenameIs
  <2>3. Unique(v)
    BY <2>1, RenameUnique DEF Free
  <2> HIDE DEF v
  <2>4. /\ Tree(v) /\ DOMAIN v = DOMAIN t /\ \A x \in DOMAIN t : v[x].name = IF x = r THEN name ELSE t[x].name
        /\ \A x \in DOMAIN t : Children(v, x) = Children(t, x)
    BY <2>2 DEF NamedIs
  <2>5. old = ".." \/ \A x \in Children(v, p) \ {n} : v[x].name # old
    <3> SUFFICES ASSUME old # "..", NEW x \in Children(t, p) PROVE v[x].name # old
      BY <1>3, <2>4
    <3>1. x \in DOMAIN t
      BY <1>3
    <3>2. CASE x = r
      BY <2>1, <2>4, <3>1, <3>2 DEF Free
    <3>3. CASE x # r
      <4>1. t[x].name # t[r].name \/ t[r].name = ".."
        BY <1>3, <2>1, <3>3 DEF Unique
      <4> QED BY <2>1, <2>4, <3>1, <3>3, <4>1
    <3> QED BY <3>2, <3>3
  <2>6. u[n].name = old /\ \A x \in DOMAIN t : u[x].name = v[x].name
    BY <1>4, <1>7, <1>11, <2>4
  <2>7. JoinIs(v, u, n, p, old)
    BY <1>2, <1>4, <1>7, <1>8, <1>9, <2>4, <2>5, <2>6 DEF JoinIs
  <2>8. Unique(u)
    BY <1>3, <2>3, <2>4, <2>7, JoinUnique
  <2> QED BY <2>8 DEF u, made
<1> QED BY <1>10, <1>11

LEMMA StepUnique ==
    ASSUME NEW t, Tree(t), Placed(t), Unique(t), NEW u, NEW d, NEW m, ~d, ~m, TreeStep(t, u, d, m)
    PROVE  Unique(u)
<1>1. CASE u = t
  BY <1>1
<1>2. CASE Made(t, u, m)
  <2>1. PICK kind \in {"dir", "file"}, name \in Word, p \in DirsOf(t) :
            u = NewObject(t, kind, name, p) /\ Free(t, p, name)
    BY <1>2 DEF Made
  <2> QED BY <2>1, NewUnique
<1>3. CASE Taken(t, u)
  <2>1. PICK o \in DOMAIN t : t[o].parent # NULL /\ u = deleteFileSystem(t, o)
    BY <1>3 DEF Taken
  <2>2. DOMAIN u = DOMAIN t /\ \A x \in DOMAIN t : u[x].name = t[x].name
    BY <2>1, DeleteEffect
  <2>3. \A x \in DOMAIN t : Children(u, x) \subseteq Children(t, x) /\ Children(t, x) \subseteq DOMAIN t
    BY <2>1, DeleteLists, ChildrenOf
  <2> QED BY <2>2, <2>3 DEF Unique
<1>4. CASE MovedInto(t, u, m)
  <2>1. PICK o \in DOMAIN t, p \in DirsOf(t), name \in Word :
            /\ t[o].parent # NULL /\ name # "" /\ Free(t, p, name)
            /\ u = Rename(addToParent(deleteFileSystem(t, o), o, p), o, name)
    BY <1>4 DEF MovedInto
  <2>2. Placed(u)
    BY StepPlaced
  <2> QED BY <2>1, <2>2, IntoUnique
<1>5. CASE MovedOnto(t, u, m) \/ CopiedOnto(t, u, m)
  BY <1>5 DEF MovedOnto, CopiedOnto
<1>6. CASE CopiedDir(t, u, d, m)
  <2>1. PICK o \in DirsOf(t), p \in DirsOf(t), name \in Word :
            LET made == NewObject(t, "dir", t[o].name, p)
                w    == cloneDirectory(made, Newest(made), o)
            IN  /\ o # p /\ t[o].dirs = <<>> /\ t[o].files = <<>> /\ name # "" /\ Free(t, p, name)
                /\ u = Rename(w, fileSystemNameToObject(w, p, t[o].name), name)
    BY <1>6 DEF CopiedDir
  <2> DEFINE old  == t[o].name
             made == NewObject(t, "dir", old, p)
             w    == cloneDirectory(made, Newest(made), o)
             r    == fileSystemNameToObject(w, p, old)
  <2>2. /\ NewIs(t, made, Newest(made), "dir", old, p)
        /\ made[o].dirs = <<>> /\ made[o].files = <<>> => w = made
        /\ r \in Children(w, p) /\ w[r].name = old
    BY CopyEffect
  <2>3. o \in DOMAIN t /\ u = Rename(w, r, name) /\ old \in Word
    BY <2>1, TreeParts DEF DirsOf
  <2> HIDE DEF r, w, made
  <2>4. made[o].dirs = <<>> /\ made[o].files = <<>>
    BY <2>1, <2>2, <2>3 DEF NewIs
  <2>5. r \in Children(made, p) /\ made[r].name = old /\ u = Rename(made, r, name)
    BY <2>2, <2>3, <2>4
  <2> HIDE DEF old
  <2> QED BY <2>1, <2>3, <2>5, CopyUnique DEF made
<1>7. CASE CopiedWithin(t, u, m)
  <2>1. PICK o \in DOMAIN t, p \in DirsOf(t), name \in Word :
            LET made == NewObject(t, "dir", name, p)
            IN  Free(t, p, name) /\ u = NewObject(made, "file", t[o].name, Newest(made))
    BY <1>7 DEF CopiedWithin
  <2> DEFINE made == NewObject(t, "dir", name, p)
             n == Newest(made)
  <2>2. NewIs(t, made, n, "dir", name, p) /\ n \in DirsOf(made) /\ t[o].name \in Word
    BY WithinEffect
  <2>3. u = NewObject(made, "file", t[o].name, n) /\ Unique(made)
    BY <2>1, NewUnique
  <2> HIDE DEF made, n
  <2>4. Tree(made) /\ Children(made, n) = {}
    BY <2>2 DEF NewIs, Children, ToSet
  <2>5. Free(made, n, t[o].name)
    BY <2>4 DEF Free
  <2> QED BY <2>2, <2>3, <2>4, <2>5, NewUnique
<1> QED BY <1>1, <1>2, <1>3, <1>4, <1>5, <1>6, <1>7 DEF TreeStep

LEMMA UniqueHolds == Spec => [](~doubled /\ ~merged => Unique(node))
<1> DEFINE PlacedInv == ~doubled => Placed(node)
           UniqueInv == ~doubled /\ ~merged => Unique(node)
<1>1. ASSUME TypeInv, PlacedInv, UniqueInv, Next PROVE UniqueInv'
  <2>1. Sound(doubled', merged') /\ (doubled => doubled') /\ (merged => merged')
    BY <1>1, StepSound DEF NextSound
  <2> QED BY <1>1, <2>1, StepUnique DEF Sound, TypeInv
<1>2. UniqueInv /\ UNCHANGED vars => UniqueInv'
  BY DEF vars
<1>3. Init => UniqueInv
  <2> SUFFICES ASSUME Init PROVE Unique(node)
    OBVIOUS
  <2>1. DOMAIN node = {root} /\ node[root].dirs = <<>> /\ node[root].files = <<>>
    BY DEF Init
  <2> QED BY <2>1 DEF Unique, Children, ToSet
<1>4. TypeInv /\ PlacedInv /\ UniqueInv /\ [Next]_vars => UniqueInv'
  BY <1>1, <1>2
<1>5. Spec => []PlacedInv
  BY PlacedHolds
<1> HIDE DEF PlacedInv, UniqueInv
<1>6. Spec => []UniqueInv
  BY <1>3, <1>4, <1>5, TypesHold, PTL DEF Spec
<1> QED BY <1>6 DEF UniqueInv

(* Until something was moved or copied onto what was there, or fetched, no   *)
(* two things in a directory have one name, but for "..": each of mkdir,     *)
(* fileRedirection, mv and cp looks for the name before it gives it.         *)
THEOREM ShellNames == Spec => []NamesUnique
<1>1. ASSUME TypeInv, ~doubled => Placed(node), ~doubled /\ ~merged => Unique(node) PROVE NamesUnique
  <2> SUFFICES ASSUME ~doubled, ~merged, NEW d \in Dirs,
                      NEW i \in DOMAIN Listed(d), NEW j \in DOMAIN Listed(d), i # j
      PROVE  node[Listed(d)[i]].name # node[Listed(d)[j]].name \/ node[Listed(d)[i]].name = ".."
    BY DEF NamesUnique
  <2> DEFINE D == DirsOf(node)
             F == DOMAIN node \ DirsOf(node)
             s == node[d].dirs
             r == node[d].files
  <2>1. Tree(node) /\ Placed(node) /\ Unique(node) /\ d \in DOMAIN node
    BY <1>1 DEF TypeInv, Dirs, Object
  <2>2. s \in Seq(D) /\ r \in Seq(F) /\ D \cap F = {} /\ Distinct(s) /\ Distinct(r)
    BY <2>1, TreeParts DEF Placed
  <2>3. Children(node, d) = ToSet(s) \cup ToSet(r) /\ Listed(d) = s \o r
    BY DEF Children, Listed
  <2>4. s \in Seq(D \cup F) /\ r \in Seq(D \cup F)
    BY <2>2, SeqMonotonic
  <2> HIDE DEF D, F, s, r
  <2>5. (s \o r)[i] # (s \o r)[j]
    BY <2>2, <2>3, HeldOnce
  <2>6. ToSet(s \o r) = ToSet(s) \cup ToSet(r)
    BY <2>4, JoinKeeps
  <2>7. Listed(d)[i] \in Children(node, d) /\ Listed(d)[j] \in Children(node, d)
    BY <2>3, <2>6 DEF ToSet
  <2> QED BY <2>1, <2>3, <2>5, <2>7 DEF Unique
<1> QED BY <1>1, TypesHold, PlacedHolds, UniqueHolds, PTL
=============================================================================
