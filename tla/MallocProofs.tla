---------------------------- MODULE MallocProofs ----------------------------
(***************************************************************************)
(* What holds of the allocator for any number of threads, any requests and *)
(* any heap: whatever headers overlap, memory keeps words and pointers in  *)
(* it apart, and the list is changed by one thread at a time.              *)
(***************************************************************************)
EXTENDS Malloc, FiniteSetTheorems, WellFoundedInduction, TLAPS

Word   == Int \cup {HIGH, MAGIC_NUMBER, JUNK}
Memory == [0 .. LAST -> Word]
Locked == {"move", "create", "add", "merge"}

(* A whole free header can be written at b.                                  *)
Usable(b) == b \in Nat /\ b + FreeHeader <= LAST

(* Blocks given out, and those that are about to be or are on their way back. *)
BlocksUsable ==
    /\ \A b \in DOMAIN held : Usable(b)
    /\ \A t \in Thread : /\ pc[t] = "create" => Usable(at[t])
                         /\ pc[t] \in {"place", "put", "add", "merge"} => Usable(arg[t])

MallocInv == MallocTypeOK /\ BlocksUsable

(* What lies below the break is memory.                                      *)
LEMMA PlacesInMemory ==
    ASSUME MallocInv
    PROVE  /\ end \in Nat /\ END <= end /\ end <= LAST
           /\ freep \in 0 .. LAST /\ at \in [Thread -> 0 .. LAST]
<1>1. /\ end \in Nat /\ END <= end /\ end <= LAST
      /\ freep \in 0 .. end - FreeHeader /\ at \in [Thread -> 0 .. end - FreeHeader]
  BY MallocAssumption DEF MallocInv, MallocTypeOK, FreeHeader
<1>2. 0 .. end - FreeHeader \subseteq 0 .. LAST
  BY <1>1, MallocAssumption DEF FreeHeader
<1> QED BY <1>1, <1>2

-----------------------------------------------------------------------------
(* Words and headers.                                                        *)

LEMMA TotalType ==
    ASSUME NEW n \in Nat
    PROVE  Total(n) \in Nat /\ Total(n) >= HEADER_SIZE + n
  BY DEF Total, HEADER_SIZE

(* A field holds what is written to it, be its place in memory or not.        *)
LEMMA PutTypes ==
    ASSUME NEW m \in Memory, NEW p, NEW q \in Word
    PROVE  PutNext(m, p, q) \in Memory /\ PutPrev(m, p, q) \in Memory
  BY DEF PutNext, PutPrev, Memory, Word

(* A header that is moved stays one of words, whatever it lies over.          *)
LEMMA MoveTypes ==
    ASSUME NEW m \in Memory, NEW node \in Nat, NEW movement \in Nat,
           node + movement + FreeHeader <= LAST
    PROVE  /\ Copied(m, node, movement) \in Memory
           /\ Relinked(Copied(m, node, movement), node, node + movement) \in Memory
<1> USE MallocAssumption DEF FreeHeader
<1> DEFINE n  == node + movement
           m1 == [m  EXCEPT ![n] = m[node]]
           m2 == [m1 EXCEPT ![n + 1] = m1[node + 1], ![n + 2] = m1[node + 2]]
           m3 == [m2 EXCEPT ![n + 3] = m2[node + 3], ![n + 4] = m2[node + 4]]
           c  == [m3 EXCEPT ![n] = m3[node]]
<1>1. \A x \in Memory, i \in 0 .. 4 : x[node + i] \in Word
  BY DEF Memory
<1>2. m1 \in Memory
  <2>1. m[node] \in Word
    BY <1>1
  <2> QED BY <2>1 DEF Memory
<1>3. m2 \in Memory
  <2> HIDE DEF m1
  <2>1. m1[node + 1] \in Word /\ m1[node + 2] \in Word
    BY <1>1, <1>2
  <2> QED BY <1>2, <2>1 DEF Memory
<1>4. m3 \in Memory
  <2> HIDE DEF m2
  <2>1. m2[node + 3] \in Word /\ m2[node + 4] \in Word
    BY <1>1, <1>3
  <2> QED BY <1>3, <2>1 DEF Memory
<1>5. c \in Memory
  <2> HIDE DEF m3
  <2>1. m3[node] \in Word
    BY <1>1, <1>4
  <2> QED BY <1>4, <2>1 DEF Memory
<1>6. c = Copied(m, node, movement)
  BY DEF Copied
<1>7. Relinked(c, node, n) \in Memory
  <2>1. n \in Word
    BY DEF Word
  <2>2. \A x \in Memory : \A p : PutNext(x, p, n) \in Memory /\ PutPrev(x, p, n) \in Memory
    BY <2>1, PutTypes
  <2> HIDE DEF c, n
  <2> QED BY <1>5, <2>2 DEF Relinked
<1> QED BY <1>5, <1>6, <1>7

-----------------------------------------------------------------------------
(* The lock: a thread that goes to l takes it, keeps it or gives it back.    *)

Places == {"idle", "find", "take", "move", "create", "place", "put", "add", "merge"}
LockOK == lock = {t \in Thread : pc[t] \in Locked} /\ Cardinality(lock) <= 1

LEMMA LockStays ==
    ASSUME MallocInv, NEW t \in Thread, NEW l \in Places, Go(t, l), lock' = lock,
           pc[t] \in Locked <=> l \in Locked
    PROVE  LockOK' /\ pc' \in [Thread -> Places]
  BY DEF MallocInv, MallocTypeOK, LockOK, Locked, Go, Places

LEMMA LockTaken ==
    ASSUME MallocInv, NEW t \in Thread, NEW l \in Places, Go(t, l), lock = {}, lock' = {t},
           l \in Locked
    PROVE  LockOK' /\ pc' \in [Thread -> Places]
<1>1. pc' \in [Thread -> Places] /\ lock' = {u \in Thread : pc'[u] \in Locked}
  BY DEF MallocInv, MallocTypeOK, Locked, Go, Places
<1>2. Cardinality(lock') = 1
  BY FS_Singleton
<1> QED BY <1>1, <1>2 DEF LockOK

LEMMA LockGivenBack ==
    ASSUME MallocInv, NEW t \in Thread, NEW l \in Places, Go(t, l), pc[t] \in Locked, lock' = {},
           l \notin Locked
    PROVE  LockOK' /\ pc' \in [Thread -> Places]
<1>1. lock = {t}
  <2>1. t \in lock /\ lock \subseteq Thread /\ Cardinality(lock) <= 1
    BY DEF MallocInv, MallocTypeOK, Locked
  <2>2. IsFiniteSet(lock) /\ Cardinality(lock) \in Nat
    BY <2>1, MallocAssumption, FS_Subset, FS_CardinalityType
  <2>3. Cardinality(lock) # 0
    BY <2>1, <2>2, FS_EmptySet
  <2>4. \E x : lock = {x}
    BY <2>1, <2>2, <2>3, FS_Singleton
  <2> QED BY <2>1, <2>4
<1>2. pc' \in [Thread -> Places] /\ {u \in Thread : pc'[u] \in Locked} = {}
  BY <1>1 DEF MallocInv, MallocTypeOK, Locked, Go, Places
<1>3. Cardinality({}) = 0
  BY FS_EmptySet
<1> QED BY <1>2, <1>3 DEF LockOK

(* A thread that crashes changes nothing else.                               *)
LEMMA CrashInv ==
    ASSUME MallocInv, NEW t \in Thread, Crash(t)
    PROVE  MallocInv'
  BY DEF MallocInv, MallocTypeOK, BlocksUsable, Crash

-----------------------------------------------------------------------------
LEMMA Initially == Init => MallocInv
<1> SUFFICES ASSUME Init PROVE MallocInv
  OBVIOUS
<1> DEFINE zeros == [i \in 0 .. LAST |-> IF i = 0 THEN HEAP ELSE 0]
<1>1. zeros \in Memory /\ 0 \in Word
  BY MallocAssumption DEF Memory, Word
<1>2. mem \in Memory
  <2> HIDE DEF zeros
  <2>1. PutNext(zeros, 0, 0) \in Memory
    BY <1>1, PutTypes
  <2>2. mem = PutPrev(PutNext(zeros, 0, 0), 0, 0)
    BY DEF Init, zeros
  <2> QED BY <1>1, <2>1, <2>2, PutTypes
<1>3. LockOK
  <2>1. Cardinality({}) = 0
    BY FS_EmptySet
  <2> QED BY <2>1 DEF LockOK, Init, Locked
<1>4. 0 \in 0 .. END - FreeHeader /\ END \in END .. LAST
  BY MallocAssumption DEF FreeHeader
<1> QED BY <1>2, <1>3, <1>4, MallocAssumption DEF Init, MallocInv, MallocTypeOK, BlocksUsable, Memory, Word, LockOK, Locked

LEMMA MallocKeeps ==
    ASSUME MallocInv, NEW t \in Thread, NEW n \in Words, Malloc(t, n)
    PROVE  MallocInv'
<1>1. LockOK' /\ pc' \in [Thread -> Places]
  BY LockStays DEF Malloc, Locked, Places
<1> QED BY <1>1, MallocAssumption
       DEF MallocInv, MallocTypeOK, BlocksUsable, Malloc, Go, LockOK, Locked, Places

(* Where a walk goes next is below the break.                                *)
LEMMA NextType ==
    ASSUME NEW m, NEW p, HasNext(m, p)
    PROVE  next(m, p) \in 0 .. end - FreeHeader
  BY DEF HasNext, IsPtr, next

LEMMA FindKeeps ==
    ASSUME MallocInv, NEW t \in Thread, Find(t)
    PROVE  MallocInv'
<1>1. CASE Crash(t)
  BY <1>1, CrashInv
<1>2. CASE Go(t, "take") /\ UNCHANGED <<mem, freep, lock, end, at, arg, held, tight>> /\ NoCrash
  <2>1. LockOK' /\ pc' \in [Thread -> Places]
    BY <1>2, LockStays DEF Find, Locked, Places
  <2> QED BY <1>2, <2>1
         DEF MallocInv, MallocTypeOK, BlocksUsable, Find, Go, NoCrash, LockOK, Locked, Places
<1>3. CASE /\ HasNext(mem, at[t]) /\ at' = [at EXCEPT ![t] = next(mem, @)]
           /\ UNCHANGED <<mem, freep, lock, end, pc, arg, held, tight>> /\ NoCrash
  <2>1. next(mem, at[t]) \in 0 .. end - FreeHeader
    BY <1>3, NextType
  <2> QED BY <1>3, <2>1 DEF MallocInv, MallocTypeOK, BlocksUsable, Find, NoCrash
<1> QED BY <1>1, <1>2, <1>3 DEF Find

LEMMA LockToTakeKeeps ==
    ASSUME MallocInv, NEW t \in Thread, LockToTake(t)
    PROVE  MallocInv'
<1>1. CASE Crash(t)
  BY <1>1, CrashInv
<1>2. CASE extendHeap(t) /\ ~Crash(t)
  <2>1. LockOK' /\ pc' \in [Thread -> Places]
    BY <1>2, LockTaken DEF LockToTake, extendHeap, Locked, Places
  <2>2. end' \in END .. LAST /\ end \in 0 .. end' - FreeHeader
        /\ 0 .. end - FreeHeader \subseteq 0 .. end' - FreeHeader
    BY <1>2, PlacesInMemory, MallocAssumption DEF extendHeap, FreeHeader
  <2>3. at' \in [Thread -> 0 .. end' - FreeHeader] /\ freep' \in 0 .. end' - FreeHeader
    <3>1. at' = [at EXCEPT ![t] = end] /\ freep' = freep
      BY <1>2 DEF extendHeap
    <3> QED BY <2>2, <3>1 DEF MallocInv, MallocTypeOK
  <2>4. mem' \in Memory
    <3>1. {at[t], end, freep, PAGE} \subseteq Word
      BY PlacesInMemory, MallocAssumption DEF Word
    <3> DEFINE m1 == PutNext(mem, at[t], end)
               m2 == PutPrev(m1, end, at[t])
               m3 == [m2 EXCEPT ![end] = PAGE]
    <3>2. m1 \in Memory
      BY <3>1, PutTypes DEF MallocInv, MallocTypeOK, Memory, Word
    <3>3. m2 \in Memory
      <4> HIDE DEF m1
      <4> QED BY <3>1, <3>2, PutTypes
    <3>4. m3 \in Memory
      <4> HIDE DEF m2
      <4> QED BY <3>1, <3>3 DEF Memory
    <3>5. mem' = PutNext(m3, end, freep)
      BY <1>2 DEF extendHeap
    <3> HIDE DEF m3
    <3> QED BY <3>1, <3>4, <3>5, PutTypes
  <2>5. BlocksUsable'
    BY <1>2 DEF extendHeap, MallocInv, MallocTypeOK, BlocksUsable, Go, LockToTake
  <2> QED BY <1>2, <2>1, <2>2, <2>3, <2>4, <2>5, MallocAssumption
         DEF MallocInv, MallocTypeOK, extendHeap, LockOK, Locked, Places, NoCrash, Memory, Word
<1>3. CASE lock' = {t} /\ Go(t, "move") /\ NoCrash /\ UNCHANGED <<mem, freep, end, at, arg, held, tight>>
  <2>1. LockOK' /\ pc' \in [Thread -> Places]
    BY <1>3, LockTaken DEF LockToTake, Locked, Places
  <2> QED BY <1>3, <2>1
         DEF MallocInv, MallocTypeOK, BlocksUsable, LockToTake, Go, NoCrash, LockOK, Locked, Places
<1> QED BY <1>1, <1>2, <1>3 DEF LockToTake

LEMMA moveFreeHeaderKeeps ==
    ASSUME MallocInv, NEW t \in Thread, moveFreeHeader(t)
    PROVE  MallocInv'
<1> DEFINE node == at[t]
           total == Total(arg[t])
           n == node + total
           r == Relinked(Copied(mem, node, total), node, n)
<1>1. CASE Crash(t)
  BY <1>1, CrashInv
<1>2. CASE ~Crash(t)
  <2>0. node \in Nat /\ total \in Nat /\ total >= 2 /\ mem \in Memory
    <3>1. arg[t] \in Nat /\ node \in 0 .. LAST /\ mem \in Memory
      BY PlacesInMemory DEF MallocInv, MallocTypeOK, Memory, Word
    <3> QED BY <3>1, TotalType, MallocAssumption DEF HEADER_SIZE
  <2>1. /\ n + FreeHeader <= end /\ HasSize(r, n)
        /\ mem' = [r EXCEPT ![n] = @ - total] /\ freep' = IF freep = node THEN n ELSE freep
        /\ Go(t, "create") /\ NoCrash /\ UNCHANGED <<lock, end, at, arg, held, raced>>
    <3> HIDE DEF total
    <3>1. n + FreeHeader \in Int /\ end \in Int
      BY <2>0, PlacesInMemory DEF FreeHeader
    <3> USE DEF total
    <3> QED BY <1>2, <3>1 DEF moveFreeHeader, PastBreak
  <2>9. n + FreeHeader <= LAST
    <3> HIDE DEF total
    <3> QED BY <2>0, <2>1, PlacesInMemory, MallocAssumption DEF FreeHeader
  <2>2. r \in Memory
    BY <2>0, <2>9, MoveTypes
  <2>3. mem' \in Memory
    <3> HIDE DEF r, total
    <3>1. r[n] - total \in Word
      BY <2>0, <2>1 DEF HasSize, Word
    <3>2. mem' = [r EXCEPT ![n] = r[n] - total]
      BY <2>1
    <3> QED BY <2>2, <3>1, <3>2 DEF Memory
  <2>4. LockOK' /\ pc' \in [Thread -> Places]
    BY <2>1, LockStays DEF moveFreeHeader, Locked, Places
  <2>5. freep' \in 0 .. end - FreeHeader /\ Usable(at[t])
    <3>1. n \in Nat /\ node <= n /\ n + 5 <= end /\ freep \in 0 .. end - FreeHeader
      <4> HIDE DEF total
      <4>1. freep \in 0 .. end - FreeHeader
        BY DEF MallocInv, MallocTypeOK
      <4> QED BY <2>0, <2>1, <4>1 DEF FreeHeader
    <3> HIDE DEF n
    <3> QED BY <2>0, <2>1, <3>1, PlacesInMemory, MallocAssumption DEF Usable, FreeHeader
  <2>6. BlocksUsable'
    BY <2>1, <2>5 DEF MallocInv, MallocTypeOK, BlocksUsable, Go, moveFreeHeader
  <2> QED BY <2>1, <2>3, <2>4, <2>5, <2>6
         DEF MallocInv, MallocTypeOK, LockOK, Locked, Places, NoCrash, Memory, Word
<1> QED BY <1>1, <1>2

LEMMA createHeaderKeeps ==
    ASSUME MallocInv, NEW t \in Thread, createHeader(t)
    PROVE  MallocInv'
<1>1. PICK written \in {{}, 2 .. arg[t] + 1} :
          mem' = [i \in 0 .. LAST |-> CASE i = at[t]           -> arg[t]
                                       [] i = at[t] + 1       -> MAGIC_NUMBER
                                       [] i - at[t] \in written -> JUNK
                                       [] OTHER               -> mem[i]]
  BY DEF createHeader
<1>2. mem' \in Memory
  <2> DEFINE w(i) == CASE i = at[t]           -> arg[t]
                       [] i = at[t] + 1       -> MAGIC_NUMBER
                       [] i - at[t] \in written -> JUNK
                       [] OTHER               -> mem[i]
  <2>1. ASSUME NEW i \in 0 .. LAST PROVE w(i) \in Word
    <3>1. arg[t] \in Word /\ MAGIC_NUMBER \in Word /\ JUNK \in Word /\ mem[i] \in Word
      <4> HIDE DEF w
      <4>1. arg[t] \in Nat /\ mem \in [0 .. LAST -> Word]
        BY DEF MallocInv, MallocTypeOK, Word
      <4>2. mem[i] \in Word
        BY <4>1
      <4> QED BY <4>1, <4>2 DEF Word
    <3>2. w(i) \in {arg[t], MAGIC_NUMBER, JUNK, mem[i]}
      BY Zenon
    <3> QED BY <3>1, <3>2
  <2> HIDE DEF w
  <2>2. mem' = [i \in 0 .. LAST |-> w(i)]
    BY <1>1, Zenon DEF w
  <2> QED BY <2>1, <2>2 DEF Memory
<1>3. LockOK' /\ pc' \in [Thread -> Places]
  BY LockGivenBack DEF createHeader, Locked, Places
<1>4. DOMAIN held' = DOMAIN held \cup {at[t]}
  BY DEF createHeader
<1>5. BlocksUsable'
  BY <1>4 DEF createHeader, MallocInv, MallocTypeOK, BlocksUsable, Go
<1> QED BY <1>2, <1>3, <1>5
       DEF MallocInv, MallocTypeOK, createHeader, LockOK, Locked, Places, NoCrash, Memory, Word

LEMMA FreeKeeps ==
    ASSUME MallocInv, NEW t \in Thread, NEW b \in DOMAIN held, Free(t, b)
    PROVE  MallocInv'
<1>1. LockOK' /\ pc' \in [Thread -> Places]
  BY LockStays DEF Free, Locked, Places
<1>2. Usable(b) /\ b \in Nat
  BY DEF MallocInv, BlocksUsable, Usable
<1> QED BY <1>1, <1>2, MallocAssumption
       DEF MallocInv, MallocTypeOK, BlocksUsable, Free, Go, LockOK, Locked, Places

LEMMA PlaceKeeps ==
    ASSUME MallocInv, NEW t \in Thread, Place(t)
    PROVE  MallocInv'
<1>1. CASE Crash(t)
  BY <1>1, CrashInv
<1>2. CASE Go(t, "put") /\ UNCHANGED <<mem, freep, lock, end, at, arg, held, tight>> /\ NoCrash
  <2>1. LockOK' /\ pc' \in [Thread -> Places]
    BY <1>2, LockStays DEF Place, Locked, Places
  <2> QED BY <1>2, <2>1
         DEF MallocInv, MallocTypeOK, BlocksUsable, Place, Go, NoCrash, LockOK, Locked, Places
<1>3. CASE /\ HasNext(mem, at[t]) /\ at' = [at EXCEPT ![t] = next(mem, @)]
           /\ UNCHANGED <<mem, freep, lock, end, pc, arg, held, tight>> /\ NoCrash
  <2>1. next(mem, at[t]) \in 0 .. end - FreeHeader
    BY <1>3, NextType
  <2> QED BY <1>3, <2>1 DEF MallocInv, MallocTypeOK, BlocksUsable, Place, NoCrash
<1> QED BY <1>1, <1>2, <1>3 DEF Place

LEMMA LockToPutKeeps ==
    ASSUME MallocInv, NEW t \in Thread, LockToPut(t)
    PROVE  MallocInv'
<1>1. LockOK' /\ pc' \in [Thread -> Places]
  BY LockTaken DEF LockToPut, Locked, Places
<1> QED BY <1>1 DEF MallocInv, MallocTypeOK, BlocksUsable, LockToPut, Go, NoCrash, LockOK, Locked, Places

LEMMA addBlockKeeps ==
    ASSUME MallocInv, NEW t \in Thread, addBlock(t)
    PROVE  MallocInv'
<1> DEFINE b == arg[t]
           p == at[t]
           m1 == PutPrev(mem, b, p)
           m2 == PutNext(m1, b, next(m1, p))
           m3 == PutPrev(m2, next(m2, p), b)
<1>1. CASE Crash(t)
  BY <1>1, CrashInv
<1>2. CASE ~Crash(t)
  <2>1. /\ HasNext(m1, p) /\ mem' = PutNext(m3, p, b)
        /\ held' = [x \in DOMAIN held \ {b} |-> held[x]]
        /\ Go(t, "merge") /\ NoCrash /\ UNCHANGED <<freep, lock, end, at, arg, raced, tight>>
    BY <1>2 DEF addBlock
  <2>2. mem \in Memory /\ b \in Word /\ p \in Word
    BY PlacesInMemory, MallocAssumption DEF MallocInv, MallocTypeOK, Memory, Word
  <2>3. m1 \in Memory
    BY <2>2, PutTypes
  <2>4. m2 \in Memory
    <3> HIDE DEF m1
    <3>1. next(m1, p) \in Word
      BY <2>1, NextType, PlacesInMemory DEF Word
    <3> QED BY <2>3, <3>1, PutTypes
  <2>5. m3 \in Memory
    <3> HIDE DEF m2
    <3> QED BY <2>2, <2>4, PutTypes
  <2>6. mem' \in Memory
    <3> HIDE DEF m3
    <3> QED BY <2>1, <2>2, <2>5, PutTypes
  <2>7. LockOK' /\ pc' \in [Thread -> Places]
    BY <2>1, LockStays DEF addBlock, Locked, Places
  <2>8. BlocksUsable'
    BY <2>1 DEF MallocInv, MallocTypeOK, BlocksUsable, Go, addBlock
  <2> QED BY <2>1, <2>6, <2>7, <2>8
         DEF MallocInv, MallocTypeOK, LockOK, Locked, Places, NoCrash, Memory, Word
<1> QED BY <1>1, <1>2

(* Merging adds sizes, and writes pointers that were read.                    *)
Mergeable(m, b) ==
    /\ HasSize(m, b) /\ HasNext(m, b) /\ HasPrev(m, b)
    /\ HasSize(m, next(m, b)) /\ HasNext(m, next(m, b)) /\ HasSize(m, prev(m, b))

LEMMA MergeTypes ==
    ASSUME MallocInv, NEW m \in Memory, NEW b, Usable(b), Mergeable(m, b)
    PROVE  MergedNext(m, b) \in Memory /\ MergedPrev(m, b) \in Memory
<1> USE MallocAssumption, PlacesInMemory
<1>0. \A x \in Memory, i \in 0 .. LAST : x[i] \in Word
  BY DEF Memory
<1>1. /\ b \in 0 .. LAST /\ b + 3 \in 0 .. LAST
      /\ next(m, b) \in 0 .. LAST /\ next(m, b) + 3 \in 0 .. LAST
      /\ prev(m, b) \in 0 .. LAST
      /\ size(m, b) \in Int /\ size(m, next(m, b)) \in Int /\ size(m, prev(m, b)) \in Int
  BY DEF Usable, FreeHeader, Mergeable, HasSize, HasNext, HasPrev, IsPtr, next, prev, size
<1>2. b \in Word
  BY <1>1 DEF Word
<1>3. MergedNext(m, b) \in Memory
  <2> DEFINE sum == m[b] + size(m, next(m, b))
             m1 == [m EXCEPT ![b] = sum]
             m2 == PutNext(m1, b, next(m1, next(m1, b)))
  <2>1. sum \in Word
    BY <1>1 DEF size, Word
  <2>2. m1 \in Memory
    <3> HIDE DEF sum
    <3> QED BY <2>1 DEF Memory
  <2>3. next(m1, b) = next(m, b)
    BY <1>1 DEF next, Memory
  <2>4. next(m1, next(m1, b)) \in Word
    <3> HIDE DEF m1
    <3> QED BY <1>0, <1>1, <2>2, <2>3 DEF next
  <2>5. m2 \in Memory
    <3> HIDE DEF m1
    <3> QED BY <2>2, <2>4, PutTypes
  <2>6. PutPrev(m2, next(m2, b), b) \in Memory
    <3> HIDE DEF m2
    <3> QED BY <1>2, <2>5, PutTypes
  <2> QED BY <2>6 DEF MergedNext
<1>4. MergedPrev(m, b) \in Memory
  <2> DEFINE p == prev(m, b)
             sum == m[p] + size(m, b)
             m1 == [m EXCEPT ![p] = sum]
             q == next(m1, b)
  <2>1. sum \in Word /\ p \in Word
    BY <1>1 DEF size, Word
  <2>2. m1 \in Memory
    <3> HIDE DEF sum, p
    <3> QED BY <2>1 DEF Memory
  <2>3. q \in Word
    <3> HIDE DEF m1
    <3> QED BY <1>0, <1>1, <2>2 DEF next
  <2>4. PutPrev(m1, q, p) \in Memory
    <3> HIDE DEF m1, q, p
    <3> QED BY <2>1, <2>2, PutTypes
  <2>5. PutNext(PutPrev(m1, q, p), p, q) \in Memory
    <3> HIDE DEF m1, q, p
    <3> QED BY <2>3, <2>4, PutTypes
  <2> QED BY <2>5 DEF MergedPrev
<1> QED BY <1>3, <1>4

LEMMA coalesceBlocksKeeps ==
    ASSUME MallocInv, NEW t \in Thread, coalesceBlocks(t)
    PROVE  MallocInv'
<1> DEFINE b == arg[t]
           m == MergedNext(mem, b)
<1>1. CASE Crash(t)
  BY <1>1, CrashInv
<1>2. CASE ~Crash(t)
  <2>1. /\ Mergeable(mem, b) /\ Mergeable(m, b) /\ mem' = MergedPrev(m, b)
        /\ lock' = {} /\ Go(t, "idle") /\ NoCrash /\ UNCHANGED <<freep, end, at, arg, held, raced, tight>>
    BY <1>2 DEF coalesceBlocks, Mergeable
  <2>2. mem \in Memory /\ Usable(b)
    BY DEF MallocInv, MallocTypeOK, BlocksUsable, coalesceBlocks, Memory, Word
  <2>3. m \in Memory
    BY <2>1, <2>2, MergeTypes
  <2>4. mem' \in Memory
    <3> HIDE DEF m
    <3> QED BY <2>1, <2>2, <2>3, MergeTypes
  <2>5. LockOK' /\ pc' \in [Thread -> Places]
    BY <2>1, LockGivenBack DEF coalesceBlocks, Locked, Places
  <2>6. BlocksUsable'
    BY <2>1 DEF MallocInv, MallocTypeOK, BlocksUsable, Go, coalesceBlocks
  <2> QED BY <2>1, <2>4, <2>5, <2>6
         DEF MallocInv, MallocTypeOK, LockOK, Locked, Places, NoCrash, Memory, Word
<1> QED BY <1>1, <1>2

-----------------------------------------------------------------------------
LEMMA Inductive == MallocInv /\ [Next]_vars => MallocInv'
<1> SUFFICES ASSUME MallocInv, [Next]_vars PROVE MallocInv'
  OBVIOUS
<1>1. ASSUME NEW t \in Thread, NEW n \in Words, Malloc(t, n) PROVE MallocInv'
  BY <1>1, MallocKeeps
<1>2. ASSUME NEW t \in Thread, NEW b \in DOMAIN held, Free(t, b) PROVE MallocInv'
  BY <1>2, FreeKeeps
<1>3. ASSUME NEW t \in Thread, Step(t) PROVE MallocInv'
  BY <1>3, FindKeeps, LockToTakeKeeps, moveFreeHeaderKeeps, createHeaderKeeps,
     PlaceKeeps, LockToPutKeeps, addBlockKeeps, coalesceBlocksKeeps DEF Step
<1>4. CASE UNCHANGED vars
  BY <1>4 DEF vars, MallocInv, MallocTypeOK, BlocksUsable
<1> QED BY <1>1, <1>2, <1>3, <1>4 DEF Next

(* Memory keeps words and pointers in it apart, whatever headers lie over    *)
(* each other; and the lock is held by the thread that changes the list and  *)
(* by no other, whatever the threads do between their steps.                 *)
THEOREM AllocatorTypes == Spec => []MallocTypeOK
<1>1. MallocInv => MallocTypeOK
  BY DEF MallocInv
<1> QED BY <1>1, Initially, Inductive, PTL DEF Spec

-----------------------------------------------------------------------------
(* The free list as a ring: L lists its n blocks from f on.                  *)

LEMMA NatSets ==
    ASSUME NEW S, 0 \in S, \A n \in Nat : n \in S => n + 1 \in S
    PROVE  Nat \subseteq S
<1> DEFINE less == {ss \in Nat \X Nat : ss[1] < ss[2]}
           T == Nat \ S
<1> SUFFICES ASSUME T # {} PROVE FALSE
  OBVIOUS
<1>1. IsWellFoundedOn(less, Nat)
  BY NatLessThanWellFounded, Zenon DEF OpToRel
<1>2. PICK m \in T : \A n \in T : ~(<<n, m>> \in less)
  BY <1>1, WFMin
<1>3. m - 1 \in Nat /\ m - 1 < m
  BY <1>2
<1>4. m - 1 \notin T
  BY <1>2, <1>3
<1> QED BY <1>2, <1>3, <1>4

Joined(m, p, q) == m[p + 3] = q /\ m[p + 4] = HIGH /\ m[q + 1] = p /\ m[q + 2] = HIGH

Succ(n, i) == IF i = n - 1 THEN 0 ELSE i + 1

Ring(m, f, n, L) ==
    /\ n \in Nat \ {0} /\ L \in [0 .. n - 1 -> 0 .. END - FreeHeader]
    /\ \A i, j \in 0 .. n - 1 : L[i] = L[j] => i = j
    /\ L[0] = f
    /\ \A i \in 0 .. n - 1 : Joined(m, L[i], L[Succ(n, i)])

(* FreeBlocks, of any memory.                                                *)
Nth(m, f) ==
    LET nth[k \in 0 .. MaxCalls] ==
            IF k = 0 THEN f
            ELSE LET p == nth[k - 1] IN IF HasNext(m, p) THEN next(m, p) ELSE p
    IN  nth
Blocks(m, f) == {Nth(m, f)[k] : k \in 0 .. MaxCalls}

LEMMA FreeBlocksNow == FreeBlocks = Blocks(mem, freep)
  BY DEF FreeBlocks, Blocks, Nth

LEMMA FreeBlocksAre ==
    ASSUME UNCHANGED end
    PROVE  FreeBlocks = Blocks(mem, freep) /\ FreeBlocks' = Blocks(mem', freep')
<1>1. FreeBlocks' = Blocks(mem', freep')
  BY DEF FreeBlocks, Blocks, Nth, HasNext, next, IsPtr
<1> QED BY <1>1, FreeBlocksNow

(* Where the code's pointers lead in a ring.                                 *)
LEMMA RingPointers ==
    ASSUME MallocInv, NEW m, NEW f, NEW n, NEW L, Ring(m, f, n, L), NEW i \in 0 .. n - 1
    PROVE  /\ HasNext(m, L[i]) /\ next(m, L[i]) = L[Succ(n, i)]
           /\ HasPrev(m, L[Succ(n, i)]) /\ prev(m, L[Succ(n, i)]) = L[i]
           /\ Succ(n, i) \in 0 .. n - 1
           /\ \E j \in 0 .. n - 1 : i = Succ(n, j)
<1>1. Succ(n, i) \in 0 .. n - 1
  BY DEF Ring, Succ
<1>2. Joined(m, L[i], L[Succ(n, i)]) /\ {L[i], L[Succ(n, i)]} \subseteq 0 .. END - FreeHeader
  BY <1>1 DEF Ring
<1>3. \E j \in 0 .. n - 1 : i = Succ(n, j)
  <2> DEFINE j == IF i = 0 THEN n - 1 ELSE i - 1
  <2>1. j \in 0 .. n - 1 /\ i = Succ(n, j)
    BY DEF Ring, Succ
  <2> QED BY <2>1
<1>5. 0 .. END - FreeHeader \subseteq 0 .. end - FreeHeader
  BY PlacesInMemory, MallocAssumption DEF FreeHeader
<1>4. L[i] + 4 = L[i] + 3 + 1 /\ L[Succ(n, i)] + 2 = L[Succ(n, i)] + 1 + 1
  BY <1>2, MallocAssumption DEF FreeHeader
<1> QED BY <1>1, <1>2, <1>3, <1>4, <1>5 DEF Joined, HasNext, HasPrev, IsPtr, next, prev

(* The walk of FreeBlocks, step by step; it goes round the ring.             *)
Walks(m, f, k, g) ==
    /\ DOMAIN g = 0 .. k /\ g[0] = f
    /\ \A i \in 1 .. k : g[i] = IF HasNext(m, g[i - 1]) THEN next(m, g[i - 1]) ELSE g[i - 1]

LEMMA WalkExists ==
    ASSUME NEW m, NEW f
    PROVE  \A k \in Nat : \E g : Walks(m, f, k, g)
<1> DEFINE S == {k \in Nat : \E g : Walks(m, f, k, g)}
<1>1. 0 \in S
  <2>1. Walks(m, f, 0, [i \in 0 .. 0 |-> f])
    BY DEF Walks
  <2> QED BY <2>1
<1>2. ASSUME NEW k \in Nat, k \in S PROVE k + 1 \in S
  <2>1. PICK g : Walks(m, f, k, g)
    BY <1>2
  <2> DEFINE last == IF HasNext(m, g[k]) THEN next(m, g[k]) ELSE g[k]
             h == [i \in 0 .. k + 1 |-> IF i = k + 1 THEN last ELSE g[i]]
  <2>2. DOMAIN h = 0 .. k + 1 /\ h[0] = f
    BY <2>1 DEF Walks
  <2>3. ASSUME NEW i \in 1 .. k + 1
        PROVE  h[i] = IF HasNext(m, h[i - 1]) THEN next(m, h[i - 1]) ELSE h[i - 1]
    <3>1. CASE i = k + 1
      <4>1. h[i] = last /\ h[i - 1] = g[k]
        BY <3>1
      <4> HIDE DEF h
      <4> QED BY <4>1
    <3>2. CASE i \in 1 .. k
      <4>1. h[i] = g[i] /\ h[i - 1] = g[i - 1]
        BY <3>2
      <4> HIDE DEF h
      <4> QED BY <3>2, <4>1, <2>1 DEF Walks
    <3> QED BY <3>1, <3>2
  <2>4. Walks(m, f, k + 1, h)
    <3> HIDE DEF h
    <3> QED BY <2>2, <2>3 DEF Walks
  <2> QED BY <2>4
<1>3. Nat \subseteq S
  <2> HIDE DEF S
  <2> QED BY <1>1, <1>2, NatSets
<1> QED BY <1>3

LEMMA NthWalks ==
    ASSUME NEW m, NEW f
    PROVE  Walks(m, f, MaxCalls, Nth(m, f))
<1>1. PICK g : Walks(m, f, MaxCalls, g)
  BY WalkExists, MallocAssumption
<1> DEFINE Recursion(h) ==
        h = [k \in 0 .. MaxCalls |->
                IF k = 0 THEN f ELSE IF HasNext(m, h[k - 1]) THEN next(m, h[k - 1]) ELSE h[k - 1]]
<1>2. \E h : Recursion(h)
  <2> DEFINE h == [k \in 0 .. MaxCalls |-> g[k]]
  <2>1. \A k \in 0 .. MaxCalls : h[k] = g[k]
    OBVIOUS
  <2>2. \A k \in 0 .. MaxCalls :
           h[k] = IF k = 0 THEN f ELSE IF HasNext(m, h[k - 1]) THEN next(m, h[k - 1]) ELSE h[k - 1]
    <3>1. \A k \in 0 .. MaxCalls : k = 0 \/ (k \in 1 .. MaxCalls /\ k - 1 \in 0 .. MaxCalls)
      BY MallocAssumption
    <3> HIDE DEF h
    <3> QED BY <1>1, <2>1, <3>1 DEF Walks
  <2>3. Recursion(h)
    BY <2>2
  <2> QED BY <2>3
<1>3. Nth(m, f) = CHOOSE h : Recursion(h)
  BY Zenon DEF Nth
<1> HIDE DEF Recursion
<1>4. Recursion(Nth(m, f))
  BY <1>2, <1>3, Zenon
<1> DEFINE w == Nth(m, f)
<1>5. w = [k \in 0 .. MaxCalls |->
                IF k = 0 THEN f ELSE IF HasNext(m, w[k - 1]) THEN next(m, w[k - 1]) ELSE w[k - 1]]
  BY <1>4, Zenon DEF Recursion
<1> HIDE DEF w
<1>6. DOMAIN w = 0 .. MaxCalls /\ w[0] = f
  BY <1>5, MallocAssumption
<1>7. \A i \in 1 .. MaxCalls : w[i] = IF HasNext(m, w[i - 1]) THEN next(m, w[i - 1]) ELSE w[i - 1]
  BY <1>5, MallocAssumption
<1> QED BY <1>6, <1>7 DEF Walks, w

LEMMA RingBlocks ==
    ASSUME MallocInv, NEW m, NEW f, NEW n, NEW L, Ring(m, f, n, L), n <= MaxCalls + 1
    PROVE  Blocks(m, f) = {L[i] : i \in 0 .. n - 1}
<1> DEFINE w == Nth(m, f)
           R == {L[i] : i \in 0 .. n - 1}
           S == {k \in Nat : k <= MaxCalls => w[k] \in R /\ (k < n => w[k] = L[k])}
<1>0. n \in Nat /\ n >= 1 /\ L[0] = f /\ MaxCalls \in Nat
  BY MallocAssumption DEF Ring
<1>1. w[0] = f /\ \A i \in 1 .. MaxCalls : w[i] = IF HasNext(m, w[i - 1]) THEN next(m, w[i - 1]) ELSE w[i - 1]
  BY NthWalks DEF Walks
<1> HIDE DEF w
<1>2. 0 \in S
  BY <1>0, <1>1
<1>3. ASSUME NEW k \in Nat, k \in S PROVE k + 1 \in S
  <2> SUFFICES ASSUME k + 1 <= MaxCalls
               PROVE  w[k + 1] \in R /\ (k + 1 < n => w[k + 1] = L[k + 1])
    OBVIOUS
  <2>1. k + 1 \in 1 .. MaxCalls /\ (k + 1) - 1 = k /\ k <= MaxCalls
    BY <1>0
  <2>2. PICK i \in 0 .. n - 1 : w[k] = L[i] /\ (k < n => i = k)
    <3>1. w[k] \in R /\ (k < n => w[k] = L[k])
      BY <1>3, <2>1
    <3>2. k < n => k \in 0 .. n - 1
      BY <1>0
    <3> QED BY <3>1, <3>2
  <2>3. w[k + 1] = L[Succ(n, i)] /\ Succ(n, i) \in 0 .. n - 1
    BY <1>1, <2>1, <2>2, RingPointers
  <2>4. k + 1 < n => Succ(n, i) = k + 1
    BY <1>0, <2>2 DEF Succ
  <2> QED BY <2>3, <2>4
<1>4. Nat \subseteq S
  <2> HIDE DEF S
  <2> QED BY <1>2, <1>3, NatSets
<1>5. \A k \in 0 .. MaxCalls : w[k] \in R
  BY <1>4
<1>6. \A i \in 0 .. n - 1 : i \in 0 .. MaxCalls /\ L[i] = w[i]
  BY <1>0, <1>4
<1>7. Blocks(m, f) = {w[k] : k \in 0 .. MaxCalls}
  BY DEF Blocks, w
<1> QED BY <1>5, <1>6, <1>7

(* A block takes the place of another in the ring.                           *)
LEMMA RingReplace ==
    ASSUME NEW m, NEW f, NEW n, NEW L, Ring(m, f, n, L), NEW k \in 0 .. n - 1,
           NEW x \in 0 .. END - FreeHeader, \A i \in 0 .. n - 1 : L[i] # x,
           NEW w,
           \A i \in 0 .. n - 1 :
              LET p == IF i = k THEN x ELSE L[i]
                  q == IF Succ(n, i) = k THEN x ELSE L[Succ(n, i)]
              IN  Joined(w, p, q)
    PROVE  Ring(w, IF f = L[k] THEN x ELSE f, n, [L EXCEPT ![k] = x])
<1> DEFINE M == [L EXCEPT ![k] = x]
<1>1. n \in Nat \ {0} /\ L \in [0 .. n - 1 -> 0 .. END - FreeHeader] /\ L[0] = f
  BY DEF Ring
<1>2. M \in [0 .. n - 1 -> 0 .. END - FreeHeader] /\ M[0] = IF f = L[k] THEN x ELSE f
  BY <1>1 DEF Ring
<1>3. \A i \in 0 .. n - 1 : M[i] = IF i = k THEN x ELSE L[i]
  BY <1>1
<1>4. \A i \in 0 .. n - 1 : Succ(n, i) \in 0 .. n - 1
  BY <1>1 DEF Succ
<1> HIDE DEF M
<1>5. \A i, j \in 0 .. n - 1 : M[i] = M[j] => i = j
  BY <1>3 DEF Ring
<1>6. \A i \in 0 .. n - 1 : Joined(w, M[i], M[Succ(n, i)])
  BY <1>3, <1>4
<1> QED BY <1>1, <1>2, <1>5, <1>6 DEF Ring, M

(* A block is put behind another in the ring.                                *)
LEMMA RingInsert ==
    ASSUME NEW m, NEW f, NEW n, NEW L, Ring(m, f, n, L), NEW k \in 0 .. n - 1,
           NEW x \in 0 .. END - FreeHeader, \A i \in 0 .. n - 1 : L[i] # x,
           NEW w,
           \A i \in 0 .. n - 1 : i # k => Joined(w, L[i], L[Succ(n, i)]),
           Joined(w, L[k], x), Joined(w, x, L[Succ(n, k)])
    PROVE  Ring(w, f, n + 1, [i \in 0 .. n |-> IF i <= k THEN L[i] ELSE IF i = k + 1 THEN x ELSE L[i - 1]])
<1> DEFINE M == [i \in 0 .. n |-> IF i <= k THEN L[i] ELSE IF i = k + 1 THEN x ELSE L[i - 1]]
<1>1. n \in Nat \ {0} /\ L \in [0 .. n - 1 -> 0 .. END - FreeHeader] /\ L[0] = f
  BY DEF Ring
<1>2. M \in [0 .. n -> 0 .. END - FreeHeader] /\ M[0] = f
  BY <1>1
<1>3. \A i \in 0 .. n : M[i] = IF i <= k THEN L[i] ELSE IF i = k + 1 THEN x ELSE L[i - 1]
  OBVIOUS
<1> HIDE DEF M
<1>4. \A i, j \in 0 .. n : M[i] = M[j] => i = j
  <2> SUFFICES ASSUME NEW i \in 0 .. n, NEW j \in 0 .. n, M[i] = M[j] PROVE i = j
    OBVIOUS
  <2> DEFINE from(u) == IF u <= k THEN u ELSE u - 1
  <2>1. \A u \in 0 .. n : u # k + 1 => from(u) \in 0 .. n - 1 /\ M[u] = L[from(u)]
    BY <1>1, <1>3
  <2>2. \A u \in 0 .. n : u = k + 1 => M[u] = x
    BY <1>1, <1>3
  <2>3. CASE i # k + 1 /\ j # k + 1
    <3>1. from(i) = from(j)
      <4> HIDE DEF from
      <4> QED BY <2>1, <2>3 DEF Ring
    <3> QED BY <2>3, <3>1, <1>1
  <2>4. CASE i = k + 1 \/ j = k + 1
    <3> HIDE DEF from
    <3> QED BY <2>1, <2>2, <2>4
  <2> QED BY <2>3, <2>4
<1>5. ASSUME NEW i \in 0 .. n PROVE Joined(w, M[i], M[Succ(n + 1, i)])
  <2>1. CASE i < k
    <3>1. M[i] = L[i] /\ M[Succ(n + 1, i)] = L[Succ(n, i)] /\ i \in 0 .. n - 1
      BY <1>1, <1>3, <2>1 DEF Succ
    <3> QED BY <2>1, <3>1
  <2>2. CASE i = k
    <3>1. M[i] = L[k] /\ M[Succ(n + 1, i)] = x
      BY <1>1, <1>3, <2>2 DEF Succ
    <3> QED BY <3>1
  <2>3. CASE i = k + 1
    <3>1. M[i] = x /\ M[Succ(n + 1, i)] = L[Succ(n, k)]
      <4>1. k = n - 1 => Succ(n + 1, i) = 0 /\ Succ(n, k) = 0
        BY <1>1, <2>3 DEF Succ
      <4>2. k # n - 1 => Succ(n + 1, i) = k + 2 /\ Succ(n, k) = k + 1 /\ k + 2 \in 0 .. n
        BY <1>1, <2>3 DEF Succ
      <4> QED BY <1>1, <1>2, <1>3, <2>3, <4>1, <4>2
    <3> QED BY <3>1
  <2>4. CASE i > k + 1
    <3>1. i - 1 \in 0 .. n - 1 /\ i - 1 # k /\ M[i] = L[i - 1]
      BY <1>1, <1>3, <2>4
    <3>2. M[Succ(n + 1, i)] = L[Succ(n, i - 1)]
      <4>1. CASE i = n
        <5>1. Succ(n + 1, i) = 0 /\ Succ(n, i - 1) = 0
          BY <1>1, <4>1 DEF Succ
        <5> QED BY <1>1, <1>2, <5>1
      <4>2. CASE i # n
        <5>1. Succ(n + 1, i) = i + 1 /\ Succ(n, i - 1) = i /\ i + 1 \in 0 .. n
          BY <1>1, <4>2 DEF Succ
        <5>2. M[i + 1] = L[i]
          BY <1>1, <1>3, <2>4, <5>1
        <5> QED BY <5>1, <5>2
      <4> QED BY <4>1, <4>2
    <3> QED BY <3>1, <3>2
  <2> QED BY <1>1, <2>1, <2>2, <2>3, <2>4
<1>6. n + 1 \in Nat \ {0} /\ (n + 1) - 1 = n
  BY <1>1
<1>7. \A i \in 0 .. n : Joined(w, M[i], M[Succ(n + 1, i)])
  BY <1>5
<1>8. Ring(w, f, n + 1, M)
  BY <1>2, <1>4, <1>6, <1>7 DEF Ring
<1> QED BY <1>8 DEF M

-----------------------------------------------------------------------------
(* Blocks in memory: those of the free list, F, and those given out, with    *)
(* the words asked for, a.                                                   *)

(* A free header, and the words it counts, end before q.                     *)
Clear(m, p, q) == p + FreeHeader <= q /\ p + m[p] <= q

Apart(m, F, a) ==
    /\ \A p \in F : p \in Nat /\ m[p] \in Nat /\ Clear(m, p, HEAP)
    /\ \A p, q \in F : p < q => Clear(m, p, q)
    /\ \A p \in F, b \in DOMAIN a :
          p # b /\ (p < b => Clear(m, p, b)) /\ (b < p => b + Total(a[b]) <= p)
    /\ \A b, c \in DOMAIN a : b < c => b + Total(a[b]) <= c
    /\ \A p \in F : p + m[p] \notin (F \ {p}) \cup DOMAIN a
    /\ \A b \in DOMAIN a : b \in Nat /\ a[b] \in Words /\ b + Total(a[b]) <= HEAP /\ b + Total(a[b]) <= END

(* A header fits into every block: callers ask for 12 bytes or more.         *)
RoomForHeaders == \A n \in Words : n >= 3

LEMMA TotalRoom ==
    ASSUME RoomForHeaders, NEW w \in Words
    PROVE  w \in Nat /\ w >= 3 /\ Total(w) \in Nat /\ Total(w) >= w + 2 /\ Total(w) > FreeHeader
<1>1. w \in Nat /\ w >= 3
  BY MallocAssumption DEF RoomForHeaders
<1>2. w % 2 \in {0, 1} /\ (w % 2 = 1 => (w + 2) % 2 = 1)
  BY <1>1
<1> QED BY <1>1, <1>2 DEF Total, HEADER_SIZE, FreeHeader

(* The front of a free block is given out, and a header put behind it that   *)
(* lies over nothing in use.                                                 *)
LEMMA ApartMove ==
    ASSUME RoomForHeaders, NEW m, NEW F, NEW a, Apart(m, F, a),
           NEW node \in F, NEW w \in Words, m[node] >= Total(w),
           NEW x, x = node + Total(w), x + FreeHeader <= HEAP, x + FreeHeader <= END,
           \A b \in DOMAIN a : (x .. x + FreeHeader - 1) \cap (b .. b + Total(a[b]) - 1) = {},
           \A p \in F \ {node} : (x .. x + FreeHeader - 1) \cap (p .. p + FreeHeader - 1) = {},
           NEW v, v[x] = m[node] - Total(w), \A p \in F \ {node} : v[p] = m[p]
    PROVE  Apart(v, (F \ {node}) \cup {x}, [b \in DOMAIN a \cup {node} |-> IF b = node THEN w ELSE a[b]])
<1> DEFINE G == (F \ {node}) \cup {x}
           d == [b \in DOMAIN a \cup {node} |-> IF b = node THEN w ELSE a[b]]
           t == Total(w)
<1> USE MallocAssumption
<1>1. w \in Nat /\ t \in Nat /\ t >= w + 2 /\ t > 5 /\ x = node + t /\ m[node] >= t /\ x + 5 <= HEAP /\ x + 5 <= END
  BY TotalRoom DEF FreeHeader
<1>2. /\ node \in Nat /\ m[node] \in Nat /\ node + m[node] <= HEAP
      /\ x \in Nat /\ v[x] \in Nat /\ x + v[x] = node + m[node] /\ node < x
  BY <1>1 DEF Apart, Clear
<1>3. \A b \in DOMAIN a : b \in Nat /\ a[b] \in Words /\ Total(a[b]) \in Nat /\ Total(a[b]) > 5
  BY TotalRoom DEF Apart, FreeHeader
<1>4. \A p \in F : p \in Nat /\ m[p] \in Nat
  BY DEF Apart
<1>5. \A b \in DOMAIN a : b < x => b + Total(a[b]) <= node
  <2> SUFFICES ASSUME NEW b \in DOMAIN a, b < x PROVE b + Total(a[b]) <= node
    OBVIOUS
  <2>1. b # node /\ (node < b => node + m[node] <= b)
    BY DEF Apart, Clear
  <2>2. ~(node < b)
    BY <1>1, <1>2, <1>3, <2>1
  <2> QED BY <1>2, <1>3, <2>1, <2>2 DEF Apart
<1>6. \A b \in DOMAIN a : x < b => x + 5 <= b /\ x + v[x] <= b
  <2> SUFFICES ASSUME NEW b \in DOMAIN a, x < b PROVE x + 5 <= b /\ x + v[x] <= b
    OBVIOUS
  <2>1. node + m[node] <= b
    BY <1>2, <1>3 DEF Apart, Clear
  <2>2. b \in b .. b + Total(a[b]) - 1
    BY <1>3
  <2>3. b \notin x .. x + 4
    BY <2>2 DEF FreeHeader
  <2> QED BY <1>2, <1>3, <2>1, <2>3
<1>7. \A b \in DOMAIN a : b # x
  <2> SUFFICES ASSUME NEW b \in DOMAIN a, b = x PROVE FALSE
    OBVIOUS
  <2>1. b \in b .. b + Total(a[b]) - 1 /\ b \in x .. x + FreeHeader - 1
    BY <1>2, <1>3 DEF FreeHeader
  <2> QED BY <2>1
<1>8. \A p \in F \ {node} : p < x => p + 5 <= node /\ p + m[p] <= node
  <2> SUFFICES ASSUME NEW p \in F \ {node}, p < x PROVE p + 5 <= node /\ p + m[p] <= node
    OBVIOUS
  <2>1. node < p => node + m[node] <= p
    BY <1>4 DEF Apart, Clear
  <2>2. p < node
    BY <1>1, <1>2, <1>4, <2>1
  <2> QED BY <2>2 DEF Apart, Clear, FreeHeader
<1>9. \A p \in F \ {node} : x < p => x + 5 <= p /\ x + v[x] <= p
  <2> SUFFICES ASSUME NEW p \in F \ {node}, x < p PROVE x + 5 <= p /\ x + v[x] <= p
    OBVIOUS
  <2>1. node + m[node] <= p
    BY <1>2, <1>4 DEF Apart, Clear
  <2>2. p \in p .. p + 4
    BY <1>4
  <2>3. p \notin x .. x + 4
    BY <2>2 DEF FreeHeader
  <2> QED BY <1>2, <1>4, <2>1, <2>3
<1>10. \A p \in F \ {node} : p # x
  <2> SUFFICES ASSUME NEW p \in F \ {node}, p = x PROVE FALSE
    OBVIOUS
  <2>1. p \in p .. p + FreeHeader - 1 /\ p \in x .. x + FreeHeader - 1
    BY <1>2 DEF FreeHeader
  <2> QED BY <2>1
<1> HIDE DEF t
<1>11. DOMAIN d = DOMAIN a \cup {node} /\ d[node] = w /\ \A b \in DOMAIN a : d[b] = a[b]
  <2>1. node \notin DOMAIN a
    BY DEF Apart
  <2> QED BY <2>1
<1> HIDE DEF d
<1>12. \A p \in G : p \in Nat /\ v[p] \in Nat /\ Clear(v, p, HEAP)
  BY <1>1, <1>2, <1>4 DEF Apart, Clear, FreeHeader
<1>13. \A p, q \in G : p < q => Clear(v, p, q)
  <2> SUFFICES ASSUME NEW p \in G, NEW q \in G, p < q PROVE Clear(v, p, q)
    OBVIOUS
  <2>1. CASE p = x
    BY <1>2, <1>9, <2>1 DEF Clear, FreeHeader
  <2>2. CASE q = x /\ p # x
    BY <1>1, <1>2, <1>4, <1>8, <2>2 DEF Clear, FreeHeader
  <2>3. CASE p # x /\ q # x
    BY <1>4, <2>3 DEF Clear, FreeHeader, Apart
  <2> QED BY <2>1, <2>2, <2>3
<1>14. \A p \in G, b \in DOMAIN d :
          p # b /\ (p < b => Clear(v, p, b)) /\ (b < p => b + Total(d[b]) <= p)
  <2> SUFFICES ASSUME NEW p \in G, NEW b \in DOMAIN d
               PROVE  p # b /\ (p < b => Clear(v, p, b)) /\ (b < p => b + Total(d[b]) <= p)
    OBVIOUS
  <2>1. CASE p = x /\ b = node
    BY <1>1, <1>2, <1>11, <2>1
  <2>2. CASE p = x /\ b # node
    <3>1. b \in DOMAIN a /\ d[b] = a[b]
      BY <1>11, <2>2
    <3> QED BY <1>1, <1>2, <1>3, <1>5, <1>6, <1>7, <2>2, <3>1 DEF Clear, FreeHeader
  <2>3. CASE p # x /\ b = node
    <3>1. p \in F \ {node} /\ p \in Nat
      BY <1>4, <2>3
    <3>2. node < p => x <= p
      BY <1>2, <1>8, <3>1
    <3>3. p < node => Clear(m, p, node)
      BY <3>1 DEF Apart
    <3> QED BY <1>1, <1>2, <1>11, <2>3, <3>1, <3>2, <3>3 DEF Clear
  <2>4. CASE p # x /\ b # node
    <3>1. b \in DOMAIN a /\ d[b] = a[b] /\ p \in F \ {node} /\ v[p] = m[p]
      BY <1>11, <2>4
    <3> QED BY <3>1 DEF Apart, Clear
  <2> QED BY <2>1, <2>2, <2>3, <2>4
<1>15. \A b, c \in DOMAIN d : b < c => b + Total(d[b]) <= c
  <2> SUFFICES ASSUME NEW b \in DOMAIN d, NEW c \in DOMAIN d, b < c PROVE b + Total(d[b]) <= c
    OBVIOUS
  <2>1. CASE b = node
    <3>1. c \in DOMAIN a /\ c \in Nat
      BY <1>2, <1>3, <1>11, <2>1
    <3>2. ~(c < x)
      BY <1>2, <1>3, <1>5, <2>1, <3>1
    <3> QED BY <1>1, <1>2, <1>11, <2>1, <3>1, <3>2
  <2>2. CASE c = node /\ b # node
    <3>1. b \in DOMAIN a /\ d[b] = a[b] /\ b < x
      BY <1>2, <1>3, <1>11, <2>2
    <3> QED BY <1>5, <2>2, <3>1
  <2>3. CASE b # node /\ c # node
    BY <1>11, <2>3 DEF Apart
  <2> QED BY <2>1, <2>2, <2>3
<1>16. \A p \in G : p + v[p] \notin (G \ {p}) \cup DOMAIN d
  <2> SUFFICES ASSUME NEW p \in G PROVE p + v[p] \notin (G \ {p}) \cup DOMAIN d
    OBVIOUS
  <2>1. CASE p = x
    <3>1. node + m[node] \notin (F \ {node}) \cup DOMAIN a
      BY DEF Apart
    <3>2. x + v[x] = node + m[node] /\ x + v[x] # node
      BY <1>1, <1>2
    <3> QED BY <1>11, <2>1, <3>1, <3>2
  <2>2. CASE p # x
    <3>1. p \in F \ {node} /\ v[p] = m[p] /\ p + m[p] \notin (F \ {p}) \cup DOMAIN a /\ node \in F \ {p}
      BY <2>2 DEF Apart
    <3>2. p + m[p] # x
      <4>1. p < x => p + m[p] <= node
        BY <1>8, <3>1
      <4> QED BY <1>2, <1>4, <2>2, <3>1, <4>1
    <3> QED BY <1>11, <3>1, <3>2
  <2> QED BY <2>1, <2>2
<1>17. \A b \in DOMAIN d : b \in Nat /\ d[b] \in Words /\ b + Total(d[b]) <= HEAP /\ b + Total(d[b]) <= END
  BY <1>1, <1>2, <1>3, <1>11 DEF Apart
<1>18. Apart(v, G, d)
  BY <1>12, <1>13, <1>14, <1>15, <1>16, <1>17 DEF Apart
<1> QED BY <1>18 DEF d

(* A block goes back to the free list with the words asked for as its size.  *)
LEMMA ApartAdd ==
    ASSUME RoomForHeaders, NEW m, NEW F, NEW a, Apart(m, F, a), NEW b \in DOMAIN a,
           NEW v, v[b] = a[b], \A p \in F : v[p] = m[p]
    PROVE  Apart(v, F \cup {b}, [c \in DOMAIN a \ {b} |-> a[c]])
<1> DEFINE d == [c \in DOMAIN a \ {b} |-> a[c]]
<1> USE MallocAssumption
<1>1. \A c \in DOMAIN a : /\ c \in Nat /\ a[c] \in Nat /\ a[c] >= 3 /\ a[c] \in Words
                          /\ Total(a[c]) \in Nat /\ Total(a[c]) >= a[c] + 2 /\ Total(a[c]) > 5
                          /\ c + Total(a[c]) <= HEAP /\ c + Total(a[c]) <= END
  BY TotalRoom DEF Apart, FreeHeader
<1>2. \A p \in F : p \in Nat /\ m[p] \in Nat /\ p # b /\ b \notin F
  BY DEF Apart
<1>3. DOMAIN d = DOMAIN a \ {b} /\ \A c \in DOMAIN d : d[c] = a[c]
  OBVIOUS
<1> HIDE DEF d
<1>4. \A p \in F \cup {b} : p \in Nat /\ v[p] \in Nat /\ Clear(v, p, HEAP)
  BY <1>1, <1>2 DEF Apart, Clear, FreeHeader
<1>5. \A p, q \in F \cup {b} : p < q => Clear(v, p, q)
  <2> SUFFICES ASSUME NEW p \in F \cup {b}, NEW q \in F \cup {b}, p < q PROVE Clear(v, p, q)
    OBVIOUS
  <2>1. CASE p = b
    <3>1. q \in F /\ b + Total(a[b]) <= q
      BY <1>1, <2>1 DEF Apart
    <3> QED BY <1>1, <1>2, <2>1, <3>1 DEF Clear, FreeHeader
  <2>2. CASE p # b
    BY <1>2, <2>2 DEF Apart, Clear
  <2> QED BY <2>1, <2>2
<1>6. \A p \in F \cup {b}, c \in DOMAIN d :
          p # c /\ (p < c => Clear(v, p, c)) /\ (c < p => c + Total(d[c]) <= p)
  <2> SUFFICES ASSUME NEW p \in F \cup {b}, NEW c \in DOMAIN d
               PROVE  p # c /\ (p < c => Clear(v, p, c)) /\ (c < p => c + Total(d[c]) <= p)
    OBVIOUS
  <2>1. CASE p = b
    <3>1. b < c => b + Total(a[b]) <= c
      BY <1>3 DEF Apart
    <3>2. c < b => c + Total(d[c]) <= b
      BY <1>3 DEF Apart
    <3> QED BY <1>1, <1>3, <2>1, <3>1, <3>2 DEF Clear, FreeHeader
  <2>2. CASE p # b
    BY <1>3, <2>2 DEF Apart, Clear
  <2> QED BY <2>1, <2>2
<1>7. \A c, e \in DOMAIN d : c < e => c + Total(d[c]) <= e
  BY <1>3 DEF Apart
<1>8. \A p \in F \cup {b} : p + v[p] \notin ((F \cup {b}) \ {p}) \cup DOMAIN d
  <2> SUFFICES ASSUME NEW p \in F \cup {b}, NEW q \in ((F \cup {b}) \ {p}) \cup DOMAIN d, p + v[p] = q
               PROVE  FALSE
    OBVIOUS
  <2>1. CASE p = b
    <3>1. b < q /\ q < b + Total(a[b])
      BY <1>1, <2>1
    <3>2. q \in F \/ q \in DOMAIN a
      BY <1>3, <2>1
    <3> QED BY <1>1, <3>1, <3>2 DEF Apart
  <2>2. CASE p # b
    <3>1. q \in (F \ {p}) \cup DOMAIN a
      BY <1>3
    <3> QED BY <2>2, <3>1 DEF Apart
  <2> QED BY <2>1, <2>2
<1>9. \A c \in DOMAIN d : c \in Nat /\ d[c] \in Words /\ c + Total(d[c]) <= HEAP /\ c + Total(d[c]) <= END
  BY <1>1, <1>3
<1>10. Apart(v, F \cup {b}, d)
  BY <1>4, <1>5, <1>6, <1>7, <1>8, <1>9 DEF Apart
<1> QED BY <1>10 DEF d

-----------------------------------------------------------------------------
(* The heap, while no thread has used a block that was gone and no header    *)
(* lies over anything.                                                       *)

Freeing  == {t \in Thread : pc[t] \in {"place", "put", "add"}}

(* There are no more free blocks than calls of myfree have put there.        *)
RingInv ==
    \E n, L : Ring(mem, freep, n, L) /\ n + Cardinality(Freeing) <= calls + 1

(* What was given out, and what createHeader is about to give out.           *)
Given(a) ==
    /\ DOMAIN a = DOMAIN held \cup {at[t] : t \in {u \in Thread : pc[u] = "create"}}
    /\ \A b \in DOMAIN held : a[b] = held[b]
    /\ \A t \in Thread : pc[t] = "create" => a[at[t]] = arg[t] /\ at[t] \notin DOMAIN held

BlocksInv ==
    /\ \E a : Given(a) /\ Apart(mem, FreeBlocks, a)
    /\ \A b \in DOMAIN held : mem[b] = held[b]

(* What a thread under way works on.                                         *)
CallsInv ==
    /\ \A t \in Thread :
          /\ pc[t] \in {"find", "take", "move", "create"} => arg[t] \in Words
          /\ pc[t] = "move" => at[t] \in FreeBlocks /\ mem[at[t]] >= Total(arg[t])
          /\ pc[t] \in {"place", "put", "add"} => arg[t] \in DOMAIN held
          /\ pc[t] = "add" => at[t] \in FreeBlocks
          /\ pc[t] = "merge" => arg[t] \in FreeBlocks /\ mem[arg[t]] > 0
    /\ \A t, u \in Freeing : arg[t] = arg[u] => t = u

(* No call has failed, but for want of a place below the break.              *)
FaultInv == crashed => \E t \in Thread : PastBreak(t)

HeapInv == end = END /\ FaultInv /\ RingInv /\ BlocksInv /\ CallsInv
SafeInv == ~raced /\ ~tight => HeapInv

LEMMA RingOfBlocks ==
    ASSUME MallocInv, NEW n, NEW L, Ring(mem, freep, n, L), n + Cardinality(Freeing) <= calls + 1
    PROVE  n \in Nat \ {0} /\ n <= MaxCalls + 1 /\ FreeBlocks = {L[i] : i \in 0 .. n - 1}
<1>1. Cardinality(Freeing) \in Nat
  <2>1. Freeing \subseteq Thread /\ IsFiniteSet(Thread)
    BY MallocAssumption DEF Freeing
  <2> QED BY <2>1, FS_Subset, FS_CardinalityType
<1>2. n \in Nat \ {0} /\ calls \in 0 .. MaxCalls
  BY DEF Ring, MallocInv, MallocTypeOK
<1>3. n <= MaxCalls + 1
  BY <1>1, <1>2, MallocAssumption
<1> QED BY <1>2, <1>3, RingBlocks, FreeBlocksNow

(* The fields of a free block lead to free blocks, and back.                 *)
LEMMA FreeBlockLinks ==
    ASSUME MallocInv, RingInv, NEW p \in FreeBlocks
    PROVE  /\ HasNext(mem, p) /\ next(mem, p) \in FreeBlocks /\ prev(mem, next(mem, p)) = p
           /\ HasPrev(mem, p) /\ prev(mem, p) \in FreeBlocks /\ next(mem, prev(mem, p)) = p
           /\ p \in 0 .. END - FreeHeader
<1>1. PICK n, L : Ring(mem, freep, n, L) /\ n + Cardinality(Freeing) <= calls + 1
  BY DEF RingInv
<1>2. FreeBlocks = {L[i] : i \in 0 .. n - 1}
  BY <1>1, RingOfBlocks
<1>3. PICK i \in 0 .. n - 1 : p = L[i]
  BY <1>2
<1>4. PICK j \in 0 .. n - 1 : i = Succ(n, j)
  BY <1>1, <1>3, RingPointers
<1>5. HasNext(mem, p) /\ next(mem, p) = L[Succ(n, i)] /\ prev(mem, L[Succ(n, i)]) = p /\ Succ(n, i) \in 0 .. n - 1
  BY <1>1, <1>3, RingPointers
<1>6. HasPrev(mem, p) /\ prev(mem, p) = L[j] /\ next(mem, L[j]) = p
  BY <1>1, <1>3, <1>4, RingPointers
<1>7. p \in 0 .. END - FreeHeader
  BY <1>1, <1>3 DEF Ring
<1> QED BY <1>2, <1>4, <1>5, <1>6, <1>7

LEMMA SafeIsSound ==
    ASSUME RoomForHeaders, MallocInv, SafeInv
    PROVE  HeapSound
<1> SUFFICES ASSUME ~raced, ~tight
             PROVE  /\ crashed => \E t \in Thread : PastBreak(t)
                    /\ \A b, c \in DOMAIN held : b < c => b + Total(held[b]) <= c
                    /\ \A b \in DOMAIN held : b + Total(held[b]) <= end
                    /\ \A p \in FreeBlocks :
                          /\ (p .. p + size(mem, p) - 1) \cap InUse = {}
                          /\ HasNext(mem, p) /\ prev(mem, next(mem, p)) = p
  BY DEF HeapSound
<1>1. HeapInv
  BY DEF SafeInv
<1>2. PICK a : Given(a) /\ Apart(mem, FreeBlocks, a)
  BY <1>1 DEF HeapInv, BlocksInv
<1>3. \A b \in DOMAIN held : b \in DOMAIN a /\ a[b] = held[b]
  BY <1>2 DEF Given
<1>4. \A b, c \in DOMAIN held : b < c => b + Total(held[b]) <= c
  BY <1>2, <1>3 DEF Apart
<1>7. \A b \in DOMAIN held : b + Total(held[b]) <= end
  BY <1>1, <1>2, <1>3 DEF Apart, HeapInv
<1>5. ASSUME NEW p \in FreeBlocks
      PROVE  (p .. p + size(mem, p) - 1) \cap InUse = {}
  <2> SUFFICES ASSUME NEW b \in DOMAIN held, NEW i \in p .. p + mem[p] - 1,
                      i \in b .. b + Total(held[b]) - 1
               PROVE  FALSE
    BY DEF InUse, size
  <2>1. p \in Nat /\ mem[p] \in Nat /\ b \in Nat /\ Total(held[b]) \in Nat
    BY <1>2, <1>3, TotalRoom DEF Apart
  <2>2. p # b /\ (p < b => p + mem[p] <= b) /\ (b < p => b + Total(held[b]) <= p)
    BY <1>2, <1>3 DEF Apart, Clear
  <2> QED BY <2>1, <2>2
<1>6. ASSUME NEW p \in FreeBlocks
      PROVE  HasNext(mem, p) /\ prev(mem, next(mem, p)) = p
  BY <1>1, FreeBlockLinks DEF HeapInv
<1> QED BY <1>1, <1>4, <1>5, <1>6, <1>7 DEF HeapInv, FaultInv

(* A step that writes neither memory nor the history of what is given out.   *)
LEMMA QuietStep ==
    ASSUME MallocInv, MallocInv', HeapInv, UNCHANGED <<mem, freep, held, end>>, NEW t \in Thread,
           \A u \in Thread : u # t => pc'[u] = pc[u] /\ at'[u] = at[u] /\ arg'[u] = arg[u],
           pc[t] # "create", pc'[t] # "create"
    PROVE  BlocksInv' /\ FreeBlocks' = FreeBlocks
<1>1. FreeBlocks' = FreeBlocks
  BY FreeBlocksAre
<1>2. PICK a : Given(a) /\ Apart(mem, FreeBlocks, a)
  BY DEF HeapInv, BlocksInv
<1>3. {at[u] : u \in {z \in Thread : pc[z] = "create"}} = {at'[u] : u \in {z \in Thread : pc'[z] = "create"}}
  OBVIOUS
<1>4. Given(a)'
  <2>1. DOMAIN a = DOMAIN held' \cup {at'[u] : u \in {z \in Thread : pc'[z] = "create"}}
    BY <1>2, <1>3 DEF Given
  <2>2. \A u \in Thread : pc'[u] = "create" => a[at'[u]] = arg'[u] /\ at'[u] \notin DOMAIN held'
    BY <1>2 DEF Given
  <2>3. \A b \in DOMAIN held' : a[b] = held'[b]
    BY <1>2 DEF Given
  <2> QED BY <2>1, <2>2, <2>3 DEF Given
<1>5. Apart(mem', FreeBlocks', a)
  BY <1>1, <1>2
<1>6. \A b \in DOMAIN held' : mem'[b] = held'[b]
  BY DEF HeapInv, BlocksInv
<1> QED BY <1>1, <1>4, <1>5, <1>6 DEF BlocksInv

LEMMA InitiallySafe == RoomForHeaders /\ Init => SafeInv
<1> SUFFICES ASSUME RoomForHeaders, Init PROVE HeapInv
  BY DEF SafeInv
<1> USE MallocAssumption
<1>0. MallocInv
  BY Initially
<1>1. /\ mem[0] = HEAP /\ mem[1] = 0 /\ mem[2] = HIGH /\ mem[3] = 0 /\ mem[4] = HIGH
  <2> DEFINE m0 == [i \in 0 .. LAST |-> IF i = 0 THEN HEAP ELSE 0]
             m1 == PutNext(m0, 0, 0)
             m2 == PutPrev(m1, 0, 0)
  <2>1. {0, 1, 2, 3, 4} \subseteq 0 .. LAST
    BY DEF FreeHeader
  <2>2. DOMAIN m0 = 0 .. LAST /\ m0[0] = HEAP
    BY <2>1
  <2> HIDE DEF m0
  <2>3. DOMAIN m1 = 0 .. LAST /\ m1[0] = HEAP /\ m1[3] = 0 /\ m1[4] = HIGH
    BY <2>1, <2>2 DEF PutNext
  <2> HIDE DEF m1
  <2>4. m2[0] = HEAP /\ m2[1] = 0 /\ m2[2] = HIGH /\ m2[3] = 0 /\ m2[4] = HIGH
    BY <2>1, <2>3 DEF PutPrev
  <2>5. mem = m2
    BY DEF Init, m0, m1
  <2> HIDE DEF m2
  <2> QED BY <2>4, <2>5
<1> DEFINE L == [i \in 0 .. 0 |-> 0]
<1>2. Ring(mem, freep, 1, L)
  <2>1. Joined(mem, 0, 0)
    BY <1>1 DEF Joined
  <2>2. 0 \in 0 .. END - FreeHeader
    BY DEF FreeHeader
  <2>3. L \in [0 .. 0 -> 0 .. END - FreeHeader] /\ \A i \in 0 .. 0 : L[i] = 0 /\ i = 0
    BY <2>2
  <2>4. \A i \in 0 .. 0 : Joined(mem, L[i], L[Succ(1, i)])
    BY <2>1, <2>3 DEF Succ
  <2>5. freep = 0
    BY DEF Init
  <2> HIDE DEF L
  <2> QED BY <2>3, <2>4, <2>5 DEF Ring
<1>3. Cardinality(Freeing) = 0
  <2>1. Freeing = {}
    BY DEF Freeing, Init
  <2> QED BY <2>1, FS_EmptySet
<1>4. FreeBlocks = {0}
  <2>1. FreeBlocks = {L[i] : i \in 0 .. 0}
    BY <1>0, <1>2, <1>3, RingOfBlocks DEF Init
  <2> QED BY <2>1
<1>5. RingInv
  <2> HIDE DEF L
  <2> QED BY <1>2, <1>3 DEF RingInv, Init
<1>6. DOMAIN held = {} /\ \A t \in Thread : pc[t] = "idle"
  BY DEF Init
<1>7. Given(held)
  BY <1>6 DEF Given
<1>8. Apart(mem, FreeBlocks, held)
  BY <1>1, <1>4, <1>6 DEF Apart, Clear, FreeHeader
<1> QED BY <1>5, <1>6, <1>7, <1>8 DEF HeapInv, FaultInv, BlocksInv, CallsInv, Init, Freeing

-----------------------------------------------------------------------------
(* Steps that change no memory.                                              *)

(* What a thread finds where it looks, if nobody has taken it.               *)
LEMMA LookFinds ==
    ASSUME MallocInv, SafeInv, NEW t \in Thread, Look(t), ~raced', ~tight
    PROVE  /\ HeapInv /\ at[t] \in FreeBlocks
           /\ HasSize(mem, at[t]) /\ mem[at[t]] \in Nat /\ HasNext(mem, at[t])
           /\ pc[t] = "take" => Fits(mem, at[t], Total(arg[t])) /\ mem[at[t]] >= Total(arg[t])
<1>1. ~raced /\ at[t] \in FreeBlocks /\ (pc[t] = "take" => Fits(mem, at[t], Total(arg[t])))
  BY DEF Look
<1>2. HeapInv
  BY <1>1 DEF SafeInv
<1>3. mem[at[t]] \in Nat
  BY <1>1, <1>2 DEF HeapInv, BlocksInv, Apart
<1>4. HasNext(mem, at[t])
  BY <1>1, <1>2, FreeBlockLinks DEF HeapInv
<1> QED BY <1>1, <1>2, <1>3, <1>4 DEF HasSize, Fits, size

LEMMA MallocSafe ==
    ASSUME RoomForHeaders, MallocInv, MallocInv', SafeInv, ~crashed, NEW t \in Thread, NEW n \in Words, Malloc(t, n)
    PROVE  SafeInv'
<1> SUFFICES ASSUME ~raced', ~tight' PROVE HeapInv'
  BY DEF SafeInv
<1>1. HeapInv
  BY DEF Malloc, SafeInv
<1>2. /\ pc' = [pc EXCEPT ![t] = "find"] /\ arg' = [arg EXCEPT ![t] = n] /\ at' = [at EXCEPT ![t] = freep]
      /\ UNCHANGED <<mem, freep, held, end, crashed>> /\ calls' = calls + 1 /\ pc[t] = "idle"
  BY DEF Malloc, Go
<1>3. BlocksInv' /\ FreeBlocks' = FreeBlocks
  BY <1>1, <1>2, QuietStep DEF MallocInv, MallocTypeOK
<1>4. Freeing' = Freeing
  BY <1>2 DEF Freeing, MallocInv, MallocTypeOK
<1>5. RingInv'
  <2>1. PICK k, L : Ring(mem, freep, k, L) /\ k + Cardinality(Freeing) <= calls + 1
    BY <1>1 DEF HeapInv, RingInv
  <2>2. Cardinality(Freeing) \in Nat /\ k \in Nat /\ calls \in Nat
    <3>1. IsFiniteSet(Thread)
      BY MallocAssumption
    <3>2. IsFiniteSet(Freeing)
      BY <3>1, FS_Subset DEF Freeing
    <3>3. Cardinality(Freeing) \in Nat
      BY <3>2, FS_CardinalityType
    <3>4. k \in Nat /\ calls \in Nat
      BY <2>1 DEF Ring, MallocInv, MallocTypeOK
    <3> QED BY <3>3, <3>4
  <2>3. k + Cardinality(Freeing) <= calls' + 1
    BY <1>2, <2>1, <2>2
  <2> QED BY <1>2, <1>4, <2>1, <2>3 DEF RingInv
<1>6. CallsInv'
  BY <1>1, <1>2, <1>3, <1>4 DEF HeapInv, CallsInv, Freeing, MallocInv, MallocTypeOK
<1> QED BY <1>1, <1>2, <1>3, <1>5, <1>6 DEF HeapInv, FaultInv

LEMMA FindSafe ==
    ASSUME RoomForHeaders, MallocInv, MallocInv', SafeInv, ~crashed, NEW t \in Thread, Find(t)
    PROVE  SafeInv'
<1> SUFFICES ASSUME ~raced', ~tight' PROVE HeapInv'
  BY DEF SafeInv
<1>1. Look(t) /\ ~tight
  BY DEF Find, Crash
<1>2. /\ HeapInv /\ HasSize(mem, at[t]) /\ HasNext(mem, at[t])
  BY <1>1, LookFinds
<1>3. /\ pc[t] = "find" /\ pc' \in {pc, [pc EXCEPT ![t] = "take"]}
      /\ at' \in {at, [at EXCEPT ![t] = next(mem, at[t])]}
      /\ UNCHANGED <<mem, freep, held, arg, calls, end, crashed>>
  BY <1>2 DEF Find, Go, NoCrash
<1>4. BlocksInv' /\ FreeBlocks' = FreeBlocks
  BY <1>2, <1>3, QuietStep DEF MallocInv, MallocTypeOK
<1>5. Freeing' = Freeing
  BY <1>3 DEF Freeing, MallocInv, MallocTypeOK
<1>6. RingInv'
  BY <1>2, <1>3, <1>5 DEF HeapInv, RingInv
<1>7. CallsInv'
  BY <1>2, <1>3, <1>4, <1>5 DEF HeapInv, CallsInv, Freeing, MallocInv, MallocTypeOK
<1> QED BY <1>2, <1>3, <1>4, <1>6, <1>7 DEF HeapInv, FaultInv

LEMMA LockToTakeSafe ==
    ASSUME RoomForHeaders, MallocInv, MallocInv', SafeInv, ~crashed, NEW t \in Thread, LockToTake(t)
    PROVE  SafeInv'
<1> SUFFICES ASSUME ~raced', ~tight' PROVE HeapInv'
  BY DEF SafeInv
<1>1. Look(t) /\ ~tight
  BY DEF LockToTake, extendHeap, Crash
<1>2. /\ HeapInv /\ at[t] \in FreeBlocks /\ Fits(mem, at[t], Total(arg[t])) /\ mem[at[t]] >= Total(arg[t])
  BY <1>1, LookFinds DEF LockToTake
<1>3. /\ pc[t] = "take" /\ pc' = [pc EXCEPT ![t] = "move"]
      /\ UNCHANGED <<mem, freep, held, at, arg, calls, end, crashed>>
  BY <1>2 DEF LockToTake, Go, NoCrash
<1>4. BlocksInv' /\ FreeBlocks' = FreeBlocks
  BY <1>2, <1>3, QuietStep DEF MallocInv, MallocTypeOK
<1>5. Freeing' = Freeing
  BY <1>3 DEF Freeing, MallocInv, MallocTypeOK
<1>6. RingInv'
  BY <1>2, <1>3, <1>5 DEF HeapInv, RingInv
<1>7. CallsInv'
  BY <1>2, <1>3, <1>4, <1>5 DEF HeapInv, CallsInv, Freeing, MallocInv, MallocTypeOK
<1> QED BY <1>2, <1>3, <1>4, <1>6, <1>7 DEF HeapInv, FaultInv

LEMMA FreeSafe ==
    ASSUME RoomForHeaders, MallocInv, MallocInv', SafeInv, ~crashed, NEW t \in Thread, NEW b \in DOMAIN held, Free(t, b)
    PROVE  SafeInv'
<1> SUFFICES ASSUME ~raced', ~tight' PROVE HeapInv'
  BY DEF SafeInv
<1>1. HeapInv
  BY DEF Free, SafeInv
<1>2. /\ pc' = [pc EXCEPT ![t] = "place"] /\ arg' = [arg EXCEPT ![t] = b] /\ at' = [at EXCEPT ![t] = freep]
      /\ UNCHANGED <<mem, freep, held, end, crashed>> /\ calls' = calls + 1 /\ pc[t] = "idle"
      /\ \A u \in Freeing : arg[u] # b
  BY DEF Free, Go, Freeing
<1>3. BlocksInv' /\ FreeBlocks' = FreeBlocks
  BY <1>1, <1>2, QuietStep DEF MallocInv, MallocTypeOK
<1>4. Freeing' = Freeing \cup {t} /\ t \notin Freeing
  BY <1>2 DEF Freeing, MallocInv, MallocTypeOK
<1>5. RingInv'
  <2>1. PICK k, L : Ring(mem, freep, k, L) /\ k + Cardinality(Freeing) <= calls + 1
    BY <1>1 DEF HeapInv, RingInv
  <2>2. IsFiniteSet(Freeing) /\ Cardinality(Freeing) \in Nat /\ k \in Nat /\ calls \in Nat
    <3>1. IsFiniteSet(Thread)
      BY MallocAssumption
    <3>2. IsFiniteSet(Freeing)
      BY <3>1, FS_Subset DEF Freeing
    <3>3. Cardinality(Freeing) \in Nat
      BY <3>2, FS_CardinalityType
    <3>4. k \in Nat /\ calls \in Nat
      BY <2>1 DEF Ring, MallocInv, MallocTypeOK
    <3> QED BY <3>2, <3>3, <3>4
  <2>3. Cardinality(Freeing') = Cardinality(Freeing) + 1
    BY <1>4, <2>2, FS_AddElement
  <2>4. k + Cardinality(Freeing') <= calls' + 1
    BY <1>2, <2>1, <2>2, <2>3
  <2> QED BY <1>2, <2>1, <2>4 DEF RingInv
<1>6. CallsInv'
  <2>1. \A u \in Thread : u # t => pc'[u] = pc[u] /\ arg'[u] = arg[u] /\ at'[u] = at[u]
    BY <1>2 DEF MallocInv, MallocTypeOK
  <2>2. pc'[t] = "place" /\ arg'[t] = b
    BY <1>2 DEF MallocInv, MallocTypeOK
  <2>3. \A u, z \in Freeing' : arg'[u] = arg'[z] => u = z
    BY <1>1, <1>2, <1>4, <2>1, <2>2 DEF HeapInv, CallsInv, Freeing
  <2> QED BY <1>1, <1>2, <1>3, <2>1, <2>2, <2>3 DEF HeapInv, CallsInv
<1> QED BY <1>1, <1>2, <1>3, <1>5, <1>6 DEF HeapInv, FaultInv

LEMMA PlaceSafe ==
    ASSUME RoomForHeaders, MallocInv, MallocInv', SafeInv, ~crashed, NEW t \in Thread, Place(t)
    PROVE  SafeInv'
<1> SUFFICES ASSUME ~raced', ~tight' PROVE HeapInv'
  BY DEF SafeInv
<1>1. Look(t) /\ ~tight
  BY DEF Place, Crash
<1>2. /\ HeapInv /\ HasSize(mem, at[t]) /\ HasNext(mem, at[t])
  BY <1>1, LookFinds
<1>3. /\ pc[t] = "place" /\ pc' \in {pc, [pc EXCEPT ![t] = "put"]}
      /\ at' \in {at, [at EXCEPT ![t] = next(mem, at[t])]}
      /\ UNCHANGED <<mem, freep, held, arg, calls, end, crashed>>
  BY <1>2 DEF Place, Go, NoCrash
<1>4. BlocksInv' /\ FreeBlocks' = FreeBlocks
  BY <1>2, <1>3, QuietStep DEF MallocInv, MallocTypeOK
<1>5. Freeing' = Freeing
  BY <1>3 DEF Freeing, MallocInv, MallocTypeOK
<1>6. RingInv'
  BY <1>2, <1>3, <1>5 DEF HeapInv, RingInv
<1>7. CallsInv'
  BY <1>2, <1>3, <1>4, <1>5 DEF HeapInv, CallsInv, Freeing, MallocInv, MallocTypeOK
<1> QED BY <1>2, <1>3, <1>4, <1>6, <1>7 DEF HeapInv, FaultInv

LEMMA LockToPutSafe ==
    ASSUME RoomForHeaders, MallocInv, MallocInv', SafeInv, ~crashed, NEW t \in Thread, LockToPut(t)
    PROVE  SafeInv'
<1> SUFFICES ASSUME ~raced', ~tight' PROVE HeapInv'
  BY DEF SafeInv
<1>1. Look(t) /\ ~tight
  BY DEF LockToPut
<1>2. HeapInv /\ at[t] \in FreeBlocks
  BY <1>1, LookFinds
<1>3. /\ pc[t] = "put" /\ pc' = [pc EXCEPT ![t] = "add"]
      /\ UNCHANGED <<mem, freep, held, at, arg, calls, end, crashed>>
  BY DEF LockToPut, Go, NoCrash
<1>4. BlocksInv' /\ FreeBlocks' = FreeBlocks
  BY <1>2, <1>3, QuietStep DEF MallocInv, MallocTypeOK
<1>5. Freeing' = Freeing
  BY <1>3 DEF Freeing, MallocInv, MallocTypeOK
<1>6. RingInv'
  BY <1>2, <1>3, <1>5 DEF HeapInv, RingInv
<1>7. CallsInv'
  BY <1>2, <1>3, <1>4, <1>5 DEF HeapInv, CallsInv, Freeing, MallocInv, MallocTypeOK
<1> QED BY <1>2, <1>3, <1>4, <1>6, <1>7 DEF HeapInv, FaultInv

-----------------------------------------------------------------------------
(* moveFreeHeader, word by word.                                             *)

(* The lock is not shared.                                                   *)
LEMMA LockAlone ==
    ASSUME MallocInv, NEW t \in Thread, pc[t] \in Locked
    PROVE  \A u \in Thread : u # t => pc[u] \notin Locked
<1>1. t \in lock /\ lock \subseteq Thread /\ Cardinality(lock) <= 1
  BY DEF MallocInv, MallocTypeOK, Locked
<1>2. IsFiniteSet(lock) /\ Cardinality(lock) \in Nat
  BY <1>1, MallocAssumption, FS_Subset, FS_CardinalityType
<1>3. Cardinality(lock) # 0
  BY <1>1, <1>2, FS_EmptySet
<1>4. \E x : lock = {x}
  BY <1>1, <1>2, <1>3, FS_Singleton
<1>5. \A u \in lock : u = t
  BY <1>1, <1>4
<1>6. \A u \in Thread : pc[u] \in Locked => u \in lock
  BY DEF MallocInv, MallocTypeOK, Locked
<1> QED BY <1>5, <1>6

(* A header that is moved further than its own length arrives as it was.     *)
LEMMA CopyEffect ==
    ASSUME NEW m \in Memory, NEW node \in Nat, NEW movement \in Nat, movement > FreeHeader,
           NEW x, x = node + movement, x + FreeHeader <= LAST
    PROVE  /\ Copied(m, node, movement) \in Memory
           /\ \A j \in 0 .. 4 : Copied(m, node, movement)[x + j] = m[node + j]
           /\ \A i \in 0 .. LAST : i \notin x .. x + 4 => Copied(m, node, movement)[i] = m[i]
<1> USE MallocAssumption DEF FreeHeader
<1> DEFINE m1 == [m  EXCEPT ![x] = m[node]]
           m2 == [m1 EXCEPT ![x + 1] = m1[node + 1], ![x + 2] = m1[node + 2]]
           m3 == [m2 EXCEPT ![x + 3] = m2[node + 3], ![x + 4] = m2[node + 4]]
           c  == [m3 EXCEPT ![x] = m3[node]]
<1>1. \A i \in 0 .. 4 : node + i \in 0 .. LAST /\ x + i \in 0 .. LAST /\ node + i < x
  OBVIOUS
<1>2. DOMAIN m = 0 .. LAST /\ x \in Nat
  BY DEF Memory
<1>3. DOMAIN m1 = 0 .. LAST /\ \A i \in 0 .. LAST : m1[i] = IF i = x THEN m[node] ELSE m[i]
  BY <1>2
<1> HIDE DEF m1
<1>4. DOMAIN m2 = 0 .. LAST
      /\ \A i \in 0 .. LAST : m2[i] = IF i = x + 2 THEN m1[node + 2] ELSE IF i = x + 1 THEN m1[node + 1] ELSE m1[i]
  BY <1>2, <1>3
<1> HIDE DEF m2
<1>5. DOMAIN m3 = 0 .. LAST
      /\ \A i \in 0 .. LAST : m3[i] = IF i = x + 4 THEN m2[node + 4] ELSE IF i = x + 3 THEN m2[node + 3] ELSE m2[i]
  BY <1>2, <1>4
<1> HIDE DEF m3
<1>6. \A i \in 0 .. LAST : c[i] = IF i = x THEN m3[node] ELSE m3[i]
  BY <1>1, <1>5
<1> HIDE DEF c
<1>7. \A i \in 0 .. 4 : m1[node + i] = m[node + i] /\ m2[node + i] = m[node + i] /\ m3[node + i] = m[node + i]
  <2> SUFFICES ASSUME NEW i \in 0 .. 4
               PROVE  m1[node + i] = m[node + i] /\ m2[node + i] = m[node + i] /\ m3[node + i] = m[node + i]
    OBVIOUS
  <2>1. /\ node + i \in 0 .. LAST /\ node + i # x /\ node + i # x + 1 /\ node + i # x + 2
        /\ node + i # x + 3 /\ node + i # x + 4
    BY <1>1
  <2> QED BY <1>3, <1>4, <1>5, <2>1
<1>8. c[x] = m[node] /\ c[x + 1] = m[node + 1] /\ c[x + 2] = m[node + 2] /\ c[x + 3] = m[node + 3]
      /\ c[x + 4] = m[node + 4]
  BY <1>1, <1>2, <1>3, <1>4, <1>5, <1>6, <1>7
<1>9. ASSUME NEW i \in 0 .. LAST, i \notin x .. x + 4 PROVE c[i] = m[i]
  <2>1. i # x /\ i # x + 1 /\ i # x + 2 /\ i # x + 3 /\ i # x + 4
    BY <1>2, <1>9
  <2>2. c[i] = m3[i] /\ m3[i] = m2[i] /\ m2[i] = m1[i] /\ m1[i] = m[i]
    BY <1>3, <1>4, <1>5, <1>6, <2>1
  <2> QED BY <2>2
<1>10. \A j \in 0 .. 4 : c[x + j] = m[node + j]
  BY <1>8
<1>11. c = Copied(m, node, movement)
  BY DEF Copied, c, m1, m2, m3
<1>12. c \in Memory
  BY <1>11, MoveTypes
<1> QED BY <1>9, <1>10, <1>11, <1>12

(* It is then linked where the old one was, p before it and q behind.        *)
LinkedBetween(c, node, x, p, q, r) ==
    /\ r[x] = c[x]
    /\ p = node =>
          /\ Joined(r, x, x)
          /\ \A i \in 0 .. LAST : i \notin x .. x + 4 => r[i] = c[i]
    /\ p # node /\ {p, q} \cap (x - 4 .. x + 4) = {} =>
          /\ Joined(r, x, q) /\ Joined(r, p, x)
          /\ \A i \in 0 .. LAST : i \notin {q + 1, q + 2, p + 3, p + 4} => r[i] = c[i]

LEMMA RelinkEffect ==
    ASSUME NEW c \in Memory, NEW node \in 0 .. LAST, NEW x \in 0 .. END - FreeHeader,
           NEW p \in 0 .. END - FreeHeader, NEW q \in 0 .. END - FreeHeader,
           c[x + 1] = p, c[x + 2] = HIGH, c[x + 3] = q, c[x + 4] = HIGH,
           p = node <=> q = node,
           p # node => (x < p \/ p + FreeHeader <= x) /\ (x < q \/ q + FreeHeader <= x),
           p = q \/ p + FreeHeader <= q \/ q + FreeHeader <= p
    PROVE  LinkedBetween(c, node, x, p, q, Relinked(c, node, x))
<1> USE MallocAssumption DEF FreeHeader
<1> DEFINE r == Relinked(c, node, x)
<1>1. DOMAIN c = 0 .. LAST
  BY DEF Memory
<1>2. CASE p = node
  <2> DEFINE m1 == PutNext(c, x, x)
             m2 == PutPrev(m1, x, x)
  <2>1. r = m2
    BY <1>2 DEF Relinked, prev, next
  <2>2. DOMAIN m1 = 0 .. LAST /\ \A i \in 0 .. LAST : m1[i] = IF i = x + 3 THEN x ELSE IF i = x + 4 THEN HIGH ELSE c[i]
    BY <1>1 DEF PutNext
  <2> HIDE DEF m1
  <2>3. \A i \in 0 .. LAST : m2[i] = IF i = x + 1 THEN x ELSE IF i = x + 2 THEN HIGH ELSE m1[i]
    BY <2>2 DEF PutPrev
  <2> HIDE DEF m2, r
  <2>4. \A i \in 0 .. 4 : x + i \in 0 .. LAST
    OBVIOUS
  <2>5. r[x] = c[x] /\ Joined(r, x, x) /\ \A i \in 0 .. LAST : i \notin x .. x + 4 => r[i] = c[i]
    BY <2>1, <2>2, <2>3, <2>4 DEF Joined
  <2> QED BY <1>2, <2>5 DEF r, LinkedBetween
<1>3. CASE p # node
  <2> DEFINE m1 == PutPrev(c, q, x)
             m2 == PutNext(m1, p, x)
  <2>1. DOMAIN m1 = 0 .. LAST /\ \A i \in 0 .. LAST : m1[i] = IF i = q + 1 THEN x ELSE IF i = q + 2 THEN HIGH ELSE c[i]
    BY <1>1 DEF PutPrev
  <2>2. r = m2
    <3>1. r = PutNext(m1, m1[x + 1], x)
      BY <1>3 DEF Relinked, prev, next
    <3>2. m1[x + 1] = p
      <4> HIDE DEF m1
      <4>1. x + 1 \in 0 .. LAST /\ x + 1 # q + 1 /\ x + 1 # q + 2
        BY <1>3
      <4> QED BY <2>1, <4>1
    <3> QED BY <3>1, <3>2
  <2> HIDE DEF m1
  <2>3. \A i \in 0 .. LAST : m2[i] = IF i = p + 3 THEN x ELSE IF i = p + 4 THEN HIGH ELSE m1[i]
    BY <2>1 DEF PutNext
  <2> HIDE DEF m2, r
  <2>4. \A i \in 0 .. 4 : x + i \in 0 .. LAST /\ p + i \in 0 .. LAST /\ q + i \in 0 .. LAST
    OBVIOUS
  <2>5. r[x] = c[x]
    BY <1>3, <2>1, <2>2, <2>3
  <2>6. \A i \in 0 .. LAST : i \notin {q + 1, q + 2, p + 3, p + 4} => r[i] = c[i]
    BY <2>1, <2>2, <2>3
  <2>7. ASSUME {p, q} \cap (x - 4 .. x + 4) = {}
        PROVE  Joined(r, x, q) /\ Joined(r, p, x)
    <3>1. p \notin x - 4 .. x + 4 /\ q \notin x - 4 .. x + 4
      BY <2>7
    <3>2. \A i \in 1 .. 4 : x + i \notin {q + 1, q + 2, p + 3, p + 4}
      BY <3>1
    <3>3. r[x + 1] = p /\ r[x + 2] = HIGH /\ r[x + 3] = q /\ r[x + 4] = HIGH
      BY <2>4, <2>6, <3>2
    <3>4. r[p + 3] = x /\ r[p + 4] = HIGH
      BY <2>2, <2>3, <2>4
    <3>5. q + 1 # p + 3 /\ q + 1 # p + 4 /\ q + 2 # p + 3 /\ q + 2 # p + 4
      OBVIOUS
    <3>6. r[q + 1] = x /\ r[q + 2] = HIGH
      BY <2>1, <2>2, <2>3, <2>4, <3>5
    <3> QED BY <3>3, <3>4, <3>6 DEF Joined
  <2> QED BY <1>3, <2>5, <2>6, <2>7 DEF r, LinkedBetween
<1> QED BY <1>2, <1>3

LEMMA SuccInjective ==
    ASSUME NEW n \in Nat \ {0}, NEW i \in 0 .. n - 1, NEW j \in 0 .. n - 1, Succ(n, i) = Succ(n, j)
    PROVE  i = j
  BY DEF Succ

LEMMA MoveBelowBreak ==
    ASSUME RoomForHeaders, MallocInv, MallocInv', SafeInv, ~crashed, NEW t \in Thread, moveFreeHeader(t),
           ~PastBreak(t)
    PROVE  SafeInv'
<1> SUFFICES ASSUME ~raced', ~tight' PROVE HeapInv'
  BY DEF SafeInv
<1> USE MallocAssumption
<1> DEFINE node == at[t]
           w == arg[t]
           T == Total(w)
           x == node + T
           c == Copied(mem, node, T)
           r == Relinked(c, node, x)
           F == FreeBlocks
<1>1. ~raced /\ ~tight /\ pc[t] = "move"
  BY DEF moveFreeHeader, Crash, Look
<1>2. HeapInv
  BY <1>1 DEF SafeInv
<1>3. mem \in Memory /\ arg \in [Thread -> Nat] /\ at \in [Thread -> 0 .. LAST] /\ pc \in [Thread -> Places]
  BY PlacesInMemory DEF MallocInv, MallocTypeOK, Memory, Word, Places
<1>4. PICK a : Given(a) /\ Apart(mem, F, a)
  BY <1>2 DEF HeapInv, BlocksInv
<1>5. PICK n, L : Ring(mem, freep, n, L) /\ n + Cardinality(Freeing) <= calls + 1
  BY <1>2 DEF HeapInv, RingInv
<1>6. F = {L[i] : i \in 0 .. n - 1} /\ n \in Nat \ {0}
  BY <1>5, RingOfBlocks
<1>7. node \in F /\ mem[node] >= T /\ w \in Words
  BY <1>1, <1>2 DEF HeapInv, CallsInv
<1>8. PICK k \in 0 .. n - 1 : node = L[k]
  BY <1>6, <1>7
<1>9. PICK j \in 0 .. n - 1 : k = Succ(n, j)
  BY <1>5, <1>8, RingPointers
<1> DEFINE p == L[j]
           q == L[Succ(n, k)]
<1>10. /\ p \in F /\ q \in F /\ Succ(n, k) \in 0 .. n - 1
       /\ p \in 0 .. END - FreeHeader /\ q \in 0 .. END - FreeHeader /\ node \in 0 .. END - FreeHeader
       /\ Joined(mem, p, node) /\ Joined(mem, node, q)
  BY <1>5, <1>6, <1>8, <1>9 DEF Ring, Succ
<1>11. /\ T \in Nat /\ T > 5 /\ mem[node] \in Nat /\ mem[node] >= T /\ node + mem[node] <= HEAP
       /\ node \in Nat /\ x \in Nat /\ node < x /\ x + 5 <= LAST /\ x + 5 <= END
  <2>1. T \in Nat /\ T > 5
    BY <1>7, TotalRoom DEF FreeHeader
  <2>2. node \in Nat /\ mem[node] \in Nat /\ node + mem[node] <= HEAP
    BY <1>4, <1>7 DEF Apart, Clear
  <2>3. at[t] + Total(arg[t]) + FreeHeader <= end /\ end = END
    <3>1. at[t] + Total(arg[t]) + FreeHeader \in Int /\ end \in Int
      BY <2>1, <2>2, PlacesInMemory DEF FreeHeader
    <3> QED BY <1>1, <1>2, <3>1 DEF PastBreak, HeapInv
  <2>4. node + T + 5 <= END
    BY <2>3 DEF FreeHeader
  <2> HIDE DEF T
  <2> QED BY <1>7, <2>1, <2>2, <2>4
<1>12. \A z \in F \ {node} : z \in Nat /\ mem[z] \in Nat /\ (x < z \/ z + 5 <= x)
  <2> SUFFICES ASSUME NEW z \in F \ {node} PROVE z \in Nat /\ mem[z] \in Nat /\ (x < z \/ z + 5 <= x)
    OBVIOUS
  <2>1. /\ z \in Nat /\ mem[z] \in Nat /\ z # node
        /\ z < node => z + 5 <= node
        /\ node < z => node + mem[node] <= z
        /\ node + mem[node] # z
    BY <1>4, <1>7 DEF Apart, Clear, FreeHeader
  <2> HIDE DEF T
  <2> QED BY <1>11, <2>1
<1>13. p = node <=> q = node
  <2>1. p = node => j = k
    BY <1>5, <1>8 DEF Ring
  <2>2. q = node => Succ(n, k) = k
    BY <1>5, <1>8, <1>10 DEF Ring
  <2>3. q = node => j = k
    BY <1>6, <1>9, <2>2, SuccInjective
  <2> QED BY <1>8, <1>9, <2>1, <2>3
<1>14. p = q \/ p + FreeHeader <= q \/ q + FreeHeader <= p
  BY <1>4, <1>10 DEF Apart, Clear
<1>15. /\ c \in Memory
       /\ c[x] = mem[node] /\ c[x + 1] = p /\ c[x + 2] = HIGH /\ c[x + 3] = q /\ c[x + 4] = HIGH
       /\ \A i \in 0 .. LAST : i \notin x .. x + 4 => c[i] = mem[i]
  <2>1. /\ c \in Memory
        /\ \A i \in 0 .. 4 : c[x + i] = mem[node + i]
        /\ \A i \in 0 .. LAST : i \notin x .. x + 4 => c[i] = mem[i]
    <3>1. T > FreeHeader /\ x + FreeHeader <= LAST
      BY <1>11 DEF FreeHeader
    <3> HIDE DEF T
    <3> QED BY <1>3, <1>11, <3>1, CopyEffect
  <2> HIDE DEF T, c
  <2>2. c[x + 0] = mem[node + 0] /\ c[x + 1] = mem[node + 1] /\ c[x + 2] = mem[node + 2]
        /\ c[x + 3] = mem[node + 3] /\ c[x + 4] = mem[node + 4]
    BY <2>1
  <2>3. x + 0 = x /\ node + 0 = node
    BY <1>11
  <2> QED BY <1>10, <2>1, <2>2, <2>3 DEF Joined
<1> HIDE DEF T, c
<1>16. /\ r[x] = c[x]
       /\ p = node =>
             /\ Joined(r, x, x)
             /\ \A i \in 0 .. LAST : i \notin x .. x + 4 => r[i] = c[i]
       /\ p # node /\ {p, q} \cap (x - 4 .. x + 4) = {} =>
             /\ Joined(r, x, q) /\ Joined(r, p, x)
             /\ \A i \in 0 .. LAST : i \notin {q + 1, q + 2, p + 3, p + 4} => r[i] = c[i]
  <2>1. x \in 0 .. END - FreeHeader /\ node \in 0 .. LAST
    BY <1>11 DEF FreeHeader
  <2>2. p # node => (x < p \/ p + FreeHeader <= x) /\ (x < q \/ q + FreeHeader <= x)
    BY <1>10, <1>12, <1>13 DEF FreeHeader
  <2>3. c[x + 1] = p /\ c[x + 2] = HIGH /\ c[x + 3] = q /\ c[x + 4] = HIGH
    BY <1>15
  <2>5. p \in 0 .. END - FreeHeader /\ q \in 0 .. END - FreeHeader /\ c \in Memory
    BY <1>10, <1>15
  <2> HIDE DEF x, node, p, q
  <2>4. LinkedBetween(c, node, x, p, q, Relinked(c, node, x))
    BY <1>13, <1>14, <2>1, <2>2, <2>3, <2>5, RelinkEffect
  <2> QED BY <2>4 DEF LinkedBetween
<1>17. /\ mem' = [r EXCEPT ![x] = r[x] - T]
       /\ freep' = IF freep = node THEN x ELSE freep
       /\ pc' = [pc EXCEPT ![t] = "create"]
       /\ UNCHANGED <<at, arg, held, calls, end, crashed>>
       /\ x + FreeHeader <= HEAP
       /\ (x .. x + FreeHeader - 1) \cap (InUse \cup Heads(node)) = {}
  <2>1. x + FreeHeader <= LAST /\ x + 1 + 1 = x + 2 /\ x + 3 + 1 = x + 4
    BY <1>11 DEF FreeHeader
  <2>2. HasPrev(c, x) /\ HasNext(c, x)
    <3>1. p \in 0 .. end - FreeHeader /\ q \in 0 .. end - FreeHeader
      BY <1>2, <1>10 DEF HeapInv
    <3> QED BY <1>15, <2>1, <3>1 DEF HasPrev, HasNext, IsPtr
  <2>3. HasSize(r, x)
    BY <1>11, <1>15, <1>16 DEF HasSize
  <2>5. ~(PastBreak(t) \/ ~HasPrev(Copied(mem, node, Total(w)), node + Total(w))
           \/ ~HasNext(Copied(mem, node, Total(w)), node + Total(w)) \/ ~HasSize(r, node + Total(w)))
    BY <2>2, <2>3 DEF T, c
  <2>6. x + FreeHeader <= HEAP \/ x + FreeHeader > HEAP
    BY <1>11 DEF FreeHeader
  <2> QED BY <1>1, <2>5, <2>6 DEF moveFreeHeader, T, c, Go, NoCrash
<1>18. /\ \A z \in F \ {node} : (x .. x + FreeHeader - 1) \cap (z .. z + FreeHeader - 1) = {}
       /\ \A b \in DOMAIN held : (x .. x + FreeHeader - 1) \cap (b .. b + Total(held[b]) - 1) = {}
  BY <1>17 DEF InUse, Heads
<1>19. DOMAIN a = DOMAIN held /\ \A b \in DOMAIN held : a[b] = held[b]
  <2>1. \A u \in Thread : pc[u] # "create"
    BY <1>1, LockAlone DEF Locked
  <2> QED BY <1>4, <2>1 DEF Given
<1>20. \A y, z \in F : y \in Nat /\ (y = z \/ y + 5 <= z \/ z + 5 <= y)
  BY <1>4 DEF Apart, Clear, FreeHeader
<1>21. \A z \in F \ {node} : z + 5 <= x \/ x + 5 <= z
  <2> SUFFICES ASSUME NEW z \in F \ {node}, ~(z + 5 <= x), ~(x + 5 <= z) PROVE FALSE
    OBVIOUS
  <2>1. z \in Nat /\ x < z /\ z < x + 5
    BY <1>11, <1>12
  <2>2. z \in (x .. x + FreeHeader - 1) \cap (z .. z + FreeHeader - 1)
    BY <1>11, <2>1 DEF FreeHeader
  <2> QED BY <1>18, <2>2
<1>22. \A b \in DOMAIN held : b \in Nat /\ b \notin x .. x + 4
  <2> SUFFICES ASSUME NEW b \in DOMAIN held PROVE b \in Nat /\ b \notin x .. x + 4
    OBVIOUS
  <2>1. b \in Nat /\ held[b] \in Words
    BY <1>4, <1>19 DEF Apart
  <2>2. Total(held[b]) \in Nat /\ Total(held[b]) > 5
    BY <2>1, TotalRoom DEF FreeHeader
  <2>3. b \in b .. b + Total(held[b]) - 1
    BY <2>1, <2>2
  <2>4. x + FreeHeader - 1 = x + 4
    BY <1>11 DEF FreeHeader
  <2> QED BY <1>18, <2>1, <2>3, <2>4
<1>23. /\ mem'[x] = mem[node] - T
       /\ \A i \in 0 .. LAST : i # x => mem'[i] = r[i]
  <2>1. DOMAIN r = 0 .. LAST
    BY <1>15 DEF Memory, Relinked, PutNext, PutPrev
  <2>2. x \in 0 .. LAST
    BY <1>11
  <2> HIDE DEF r
  <2> QED BY <1>15, <1>16, <1>17, <2>1, <2>2
<1> HIDE DEF r
<1>24. ASSUME p = node
       PROVE  Joined(mem', x, x) /\ \A i \in 0 .. LAST : i \notin x .. x + 4 => mem'[i] = mem[i]
  <2>1. Joined(r, x, x) /\ \A i \in 0 .. LAST : i \notin x .. x + 4 => r[i] = mem[i]
    BY <1>15, <1>16, <1>24
  <2>2. mem'[x + 1] = r[x + 1] /\ mem'[x + 2] = r[x + 2] /\ mem'[x + 3] = r[x + 3] /\ mem'[x + 4] = r[x + 4]
    BY <1>11, <1>23
  <2> QED BY <1>11, <1>23, <2>1, <2>2 DEF Joined
<1>25. ASSUME p # node
       PROVE  /\ Joined(mem', x, q) /\ Joined(mem', p, x)
              /\ \A i \in 0 .. LAST : i \notin (x .. x + 4) \cup {q + 1, q + 2, p + 3, p + 4} => mem'[i] = mem[i]
  <2>1. p \in F \ {node} /\ q \in F \ {node}
    BY <1>10, <1>13, <1>25
  <2>2. (p + 5 <= x \/ x + 5 <= p) /\ (q + 5 <= x \/ x + 5 <= q)
    BY <1>21, <2>1
  <2>3. {p, q} \cap (x - 4 .. x + 4) = {}
    <3> HIDE DEF p, q
    <3> QED BY <1>10, <1>11, <2>2
  <2>4. /\ Joined(r, x, q) /\ Joined(r, p, x)
        /\ \A i \in 0 .. LAST : i \notin {q + 1, q + 2, p + 3, p + 4} => r[i] = c[i]
    BY <1>16, <1>25, <2>3
  <2>5. \A i \in 1 .. 4 : /\ x + i \in 0 .. LAST /\ x + i # x /\ p + i \in 0 .. LAST /\ p + i # x
                          /\ q + i \in 0 .. LAST /\ q + i # x
    <3> HIDE DEF p, q, x
    <3> QED BY <1>10, <1>11, <2>2 DEF FreeHeader
  <2>6. \A i \in 1 .. 4 : mem'[x + i] = r[x + i] /\ mem'[p + i] = r[p + i] /\ mem'[q + i] = r[q + i]
    BY <1>23, <2>5
  <2>7. Joined(mem', x, q) /\ Joined(mem', p, x)
    BY <2>4, <2>6 DEF Joined
  <2>8. ASSUME NEW i \in 0 .. LAST, i \notin (x .. x + 4) \cup {q + 1, q + 2, p + 3, p + 4}
        PROVE  mem'[i] = mem[i]
    <3>1. i # x
      BY <1>11, <2>8
    <3>2. r[i] = c[i] /\ c[i] = mem[i]
      BY <1>15, <2>4, <2>8
    <3> QED BY <1>23, <3>1, <3>2
  <2> QED BY <2>7, <2>8
<1>26. \A z \in F \ {node} : mem'[z] = mem[z]
  <2> SUFFICES ASSUME NEW z \in F \ {node} PROVE mem'[z] = mem[z]
    OBVIOUS
  <2>1. z \in 0 .. END - FreeHeader /\ (z + 5 <= x \/ x + 5 <= z)
    BY <1>5, <1>6, <1>21 DEF Ring
  <2>3. z \in 0 .. LAST /\ z \notin x .. x + 4
    <3> HIDE DEF x
    <3> QED BY <1>11, <2>1 DEF FreeHeader
  <2>2. z \notin {q + 1, q + 2, p + 3, p + 4}
    <3> HIDE DEF p, q
    <3> QED BY <1>10, <1>20
  <2> QED BY <1>24, <1>25, <2>2, <2>3
<1>27. \A b \in DOMAIN held : mem'[b] = held[b]
  <2> SUFFICES ASSUME NEW b \in DOMAIN held PROVE mem'[b] = mem[b]
    BY <1>2 DEF HeapInv, BlocksInv
  <2>1. \A z \in F : b \notin z .. z + 4
    <3> SUFFICES ASSUME NEW z \in F PROVE b \notin z .. z + 4
      OBVIOUS
    <3>1. held[b] \in Words /\ z # b /\ (z < b => z + 5 <= b) /\ (b < z => b + Total(held[b]) <= z)
      BY <1>4, <1>19 DEF Apart, Clear, FreeHeader
    <3>2. Total(held[b]) \in Nat
      BY <3>1, TotalRoom
    <3> QED BY <1>20, <1>22, <3>1, <3>2
  <2>2. b \notin p .. p + 4 /\ b \notin q .. q + 4
    BY <1>10, <2>1
  <2>3. b \notin {q + 1, q + 2, p + 3, p + 4}
    <3> HIDE DEF p, q
    <3> QED BY <1>10, <1>22, <2>2
  <2>4. b \in 0 .. LAST
    <3>1. held[b] \in Words /\ b + Total(held[b]) <= END
      BY <1>4, <1>19 DEF Apart
    <3>2. Total(held[b]) \in Nat
      BY <3>1, TotalRoom
    <3> QED BY <1>22, <3>1, <3>2
  <2> QED BY <1>22, <1>24, <1>25, <2>3, <2>4
<1>28. ASSUME NEW i \in 0 .. n - 1
       PROVE  Joined(mem', IF i = k THEN x ELSE L[i], IF Succ(n, i) = k THEN x ELSE L[Succ(n, i)])
  <2>1. CASE p = node
    <3>1. k = Succ(n, k)
      BY <1>5, <1>8, <1>9, <2>1 DEF Ring
    <3>2. i = k /\ Succ(n, i) = k
      BY <1>6, <3>1 DEF Succ
    <3> QED BY <1>24, <2>1, <3>2
  <2>2. CASE p # node /\ i = k
    <3>1. Succ(n, i) # k
      BY <1>8, <1>13, <2>2
    <3> QED BY <1>25, <2>2, <3>1
  <2>3. CASE p # node /\ Succ(n, i) = k
    <3>1. i = j /\ i # k
      BY <1>6, <1>8, <1>9, <2>3, SuccInjective
    <3> QED BY <1>25, <2>3, <3>1
  <2>4. CASE p # node /\ i # k /\ Succ(n, i) # k
    <3> DEFINE y == L[i]
               z == L[Succ(n, i)]
    <3>1. Succ(n, i) \in 0 .. n - 1 /\ Joined(mem, y, z)
      BY <1>5, RingPointers DEF Ring
    <3>2. y \in F \ {node} /\ z \in F \ {node}
      BY <1>5, <1>6, <1>8, <2>4, <3>1 DEF Ring
    <3>3. y # p
      BY <1>5, <1>9, <2>4 DEF Ring
    <3>4. z # q
      <4>1. Succ(n, i) # Succ(n, k)
        BY <1>6, <2>4, SuccInjective
      <4> QED BY <1>5, <1>10, <3>1, <4>1 DEF Ring
    <3>5. y \in 0 .. END - FreeHeader /\ z \in 0 .. END - FreeHeader
      BY <1>5, <3>1 DEF Ring
    <3> HIDE DEF y, z, p, q
    <3>6. (y + 5 <= x \/ x + 5 <= y) /\ (z + 5 <= x \/ x + 5 <= z)
      BY <1>21, <3>2
    <3>7. /\ y + 5 <= p \/ p + 5 <= y
          /\ z + 5 <= q \/ q + 5 <= z
          /\ y = q \/ y + 5 <= q \/ q + 5 <= y
          /\ z = p \/ z + 5 <= p \/ p + 5 <= z
      BY <1>10, <1>20, <3>2, <3>3, <3>4
    <3>8. \A u \in {y + 3, y + 4, z + 1, z + 2} :
              u \in 0 .. LAST /\ u \notin (x .. x + 4) \cup {q + 1, q + 2, p + 3, p + 4}
      BY <1>10, <1>11, <3>5, <3>6, <3>7 DEF FreeHeader
    <3>9. \A u \in {y + 3, y + 4, z + 1, z + 2} : mem'[u] = mem[u]
      BY <1>25, <2>4, <3>8
    <3>10. Joined(mem', y, z)
      BY <3>1, <3>9 DEF Joined
    <3> QED BY <2>4, <3>10 DEF y, z
  <2> QED BY <2>1, <2>2, <2>3, <2>4
<1> DEFINE M == [L EXCEPT ![k] = x]
<1>29. Ring(mem', freep', n, M)
  <2>1. x \in 0 .. END - FreeHeader
    BY <1>11 DEF FreeHeader
  <2>2. \A i \in 0 .. n - 1 : L[i] # x
    BY <1>6, <1>8, <1>11, <1>21
  <2>3. Ring(mem', IF freep = L[k] THEN x ELSE freep, n, [L EXCEPT ![k] = x])
    BY <1>5, <1>28, <2>1, <2>2, RingReplace
  <2> QED BY <1>8, <1>17, <2>3
<1>30. FreeBlocks' = (F \ {node}) \cup {x}
  <2>1. FreeBlocks' = {M[i] : i \in 0 .. n - 1}
    <3>1. n <= MaxCalls + 1
      BY <1>5, RingOfBlocks
    <3> HIDE DEF M
    <3> QED BY <1>17, <1>29, <3>1, RingBlocks, FreeBlocksAre
  <2>2. L \in [0 .. n - 1 -> 0 .. END - FreeHeader] /\ \A i \in 0 .. n - 1 : L[i] = L[k] => i = k
    BY <1>5 DEF Ring
  <2>3. \A i \in 0 .. n - 1 : M[i] = IF i = k THEN x ELSE L[i]
    BY <2>2
  <2> HIDE DEF M
  <2> QED BY <1>6, <1>8, <2>1, <2>2, <2>3
<1> HIDE DEF M
<1>31. Freeing' = Freeing
  BY <1>1, <1>3, <1>17 DEF Freeing
<1>32. RingInv'
  BY <1>5, <1>17, <1>29, <1>31 DEF RingInv
<1>37. PICK d : d = [b \in DOMAIN a \cup {node} |-> IF b = node THEN w ELSE a[b]]
  OBVIOUS
<1>33. Apart(mem', FreeBlocks', d)
  <2>1. /\ x = node + Total(w) /\ mem'[x] = mem[node] - Total(w) /\ mem[node] >= Total(w)
        /\ x + FreeHeader <= HEAP /\ x + FreeHeader <= END
        /\ \A b \in DOMAIN a : (x .. x + FreeHeader - 1) \cap (b .. b + Total(a[b]) - 1) = {}
    BY <1>7, <1>11, <1>17, <1>18, <1>19, <1>23 DEF T, FreeHeader
  <2>2. Apart(mem', (F \ {node}) \cup {x}, [b \in DOMAIN a \cup {node} |-> IF b = node THEN w ELSE a[b]])
    <3> HIDE DEF x, node, F, w
    <3> QED BY <1>4, <1>7, <1>18, <1>26, <2>1, ApartMove
  <2> QED BY <1>30, <1>37, <2>2
<1>34. Given(d)'
  <2>1. node \notin DOMAIN held
    BY <1>4, <1>7, <1>19 DEF Apart
  <2>2. \A u \in Thread : u # t => pc'[u] = pc[u] /\ pc[u] # "create"
    BY <1>1, <1>3, <1>17, LockAlone DEF Locked
  <2>3. pc'[t] = "create" /\ at' = at /\ arg' = arg /\ held' = held
    BY <1>3, <1>17
  <2>4. DOMAIN d = DOMAIN held' \cup {at'[u] : u \in {z \in Thread : pc'[z] = "create"}}
    BY <1>19, <1>37, <2>2, <2>3
  <2>5. \A b \in DOMAIN held' : d[b] = held'[b]
    BY <1>19, <1>37, <2>1, <2>3
  <2>6. \A u \in Thread : pc'[u] = "create" => d[at'[u]] = arg'[u] /\ at'[u] \notin DOMAIN held'
    BY <1>37, <2>1, <2>2, <2>3
  <2> QED BY <2>4, <2>5, <2>6 DEF Given
<1>35. BlocksInv'
  BY <1>17, <1>27, <1>33, <1>34 DEF BlocksInv
<1>36. CallsInv'
  <2>1. \A u \in Thread : u # t => pc'[u] = pc[u] /\ pc[u] \notin Locked
    BY <1>1, <1>3, <1>17, LockAlone DEF Locked
  <2>2. pc'[t] = "create" /\ at' = at /\ arg' = arg /\ held' = held
    BY <1>3, <1>17
  <2> QED BY <1>2, <1>7, <1>31, <2>1, <2>2 DEF HeapInv, CallsInv, Locked
<1> QED BY <1>2, <1>17, <1>32, <1>35, <1>36 DEF HeapInv, FaultInv

LEMMA moveFreeHeaderSafe ==
    ASSUME RoomForHeaders, MallocInv, MallocInv', SafeInv, ~crashed, NEW t \in Thread, moveFreeHeader(t)
    PROVE  SafeInv'
<1>1. CASE PastBreak(t)
  <2> SUFFICES ASSUME ~raced', ~tight' PROVE HeapInv'
    BY DEF SafeInv
  <2>1. Crash(t)
    BY <1>1 DEF moveFreeHeader
  <2>2. UNCHANGED <<mem, freep, lock, end, pc, at, arg, held, calls, tight>> /\ ~raced
    BY <2>1 DEF Crash, Look
  <2>3. HeapInv
    BY <2>2 DEF SafeInv
  <2>4. FreeBlocks' = FreeBlocks /\ Freeing' = Freeing
    BY <2>2, FreeBlocksAre DEF Freeing
  <2>5. FaultInv'
    BY <1>1, <2>2 DEF FaultInv, PastBreak
  <2>6. RingInv'
    BY <2>2, <2>3, <2>4 DEF HeapInv, RingInv
  <2>7. BlocksInv'
    BY <2>2, <2>3, <2>4 DEF HeapInv, BlocksInv, Given
  <2>8. CallsInv'
    BY <2>2, <2>3, <2>4 DEF HeapInv, CallsInv
  <2> QED BY <2>2, <2>3, <2>5, <2>6, <2>7, <2>8 DEF HeapInv
<1>2. CASE ~PastBreak(t)
  BY <1>2, MoveBelowBreak
<1> QED BY <1>1, <1>2

(* Changes in memory that leave the headers of the free list alone.          *)
LEMMA RingUntouched ==
    ASSUME NEW m, NEW f, NEW n, NEW L, Ring(m, f, n, L), NEW v,
           \A i \in 0 .. n - 1 : \A o \in 1 .. 4 : v[L[i] + o] = m[L[i] + o]
    PROVE  Ring(v, f, n, L)
<1>1. \A i \in 0 .. n - 1 : Succ(n, i) \in 0 .. n - 1
  BY DEF Ring, Succ
<1>2. ASSUME NEW i \in 0 .. n - 1 PROVE Joined(v, L[i], L[Succ(n, i)])
  <2> DEFINE y == L[i]
             z == L[Succ(n, i)]
  <2>1. Joined(m, y, z)
    BY DEF Ring
  <2>2. v[y + 3] = m[y + 3] /\ v[y + 4] = m[y + 4] /\ v[z + 1] = m[z + 1] /\ v[z + 2] = m[z + 2]
    BY <1>1
  <2> HIDE DEF y, z
  <2>3. Joined(v, y, z)
    BY <2>1, <2>2 DEF Joined
  <2> QED BY <2>3 DEF y, z
<1> QED BY <1>2 DEF Ring

LEMMA createHeaderSafe ==
    ASSUME RoomForHeaders, MallocInv, MallocInv', SafeInv, ~crashed, NEW t \in Thread, createHeader(t)
    PROVE  SafeInv'
<1> SUFFICES ASSUME ~raced', ~tight' PROVE HeapInv'
  BY DEF SafeInv
<1> USE MallocAssumption
<1> DEFINE node == at[t]
           w == arg[t]
           F == FreeBlocks
<1>1. /\ HeapInv /\ pc[t] = "create" /\ pc' = [pc EXCEPT ![t] = "idle"]
      /\ UNCHANGED <<freep, at, arg, calls, end, crashed>>
      /\ held' = [b \in DOMAIN held \cup {node} |-> IF b = node THEN w ELSE held[b]]
  BY DEF createHeader, Go, NoCrash, SafeInv
<1>2. mem \in Memory /\ arg \in [Thread -> Nat] /\ at \in [Thread -> 0 .. LAST] /\ pc \in [Thread -> Places]
  BY PlacesInMemory DEF MallocInv, MallocTypeOK, Memory, Word, Places
<1>3. PICK a : Given(a) /\ Apart(mem, F, a)
  BY <1>1 DEF HeapInv, BlocksInv
<1>4. PICK n, L : Ring(mem, freep, n, L) /\ n + Cardinality(Freeing) <= calls + 1
  BY <1>1 DEF HeapInv, RingInv
<1>5. F = {L[i] : i \in 0 .. n - 1} /\ n \in Nat \ {0}
  BY <1>4, RingOfBlocks
<1>6. \A u \in Thread : u # t => pc'[u] = pc[u] /\ pc[u] \notin Locked
  BY <1>1, <1>2, LockAlone DEF Locked
<1>7. DOMAIN a = DOMAIN held' /\ a[node] = w /\ node \in DOMAIN a /\ node \notin DOMAIN held
  BY <1>1, <1>3, <1>6 DEF Given, Locked
<1>8. w \in Nat /\ Total(w) \in Nat /\ Total(w) >= w + 2 /\ node \in 0 .. LAST /\ w \in Words /\ pc'[t] = "idle"
  BY <1>1, <1>2, TotalRoom DEF HeapInv, CallsInv
<1>9. /\ mem'[node] = w
      /\ \A i \in 0 .. LAST : i \notin node .. node + w + 1 => mem'[i] = mem[i]
  <2>1. PICK written \in {{}, 2 .. w + 1} :
          mem' = [i \in 0 .. LAST |-> CASE i = node             -> w
                                       [] i = node + 1         -> MAGIC_NUMBER
                                       [] i - node \in written -> JUNK
                                       [] OTHER                -> mem[i]]
    BY DEF createHeader
  <2> HIDE DEF node, w
  <2> DEFINE v(i) == CASE i = node             -> w
                       [] i = node + 1         -> MAGIC_NUMBER
                       [] i - node \in written -> JUNK
                       [] OTHER                -> mem[i]
  <2>2. \A i \in 0 .. LAST : mem'[i] = v(i)
    <3>1. mem' = [i \in 0 .. LAST |-> v(i)]
      BY <2>1, Zenon
    <3> HIDE DEF v
    <3> QED BY <3>1
  <2>3. v(node) = w
    <3>1. node # node + 1 /\ node - node \notin written
      <4> HIDE DEF v
      <4>1. \A j \in written : j \in 2 .. w + 1
        BY <2>1
      <4> QED BY <1>8, <4>1
    <3> QED BY <3>1, Zenon
  <2>4. ASSUME NEW i \in 0 .. LAST, i \notin node .. node + w + 1
        PROVE  v(i) = mem[i]
    <3>1. i # node /\ i # node + 1 /\ i - node \notin written
      <4> HIDE DEF v
      <4>1. \A j \in written : j \in 2 .. w + 1
        BY <2>1
      <4>2. i < node \/ i > node + w + 1
        BY <1>8, <2>4
      <4> QED BY <1>8, <4>1, <4>2
    <3> QED BY <3>1, Zenon
  <2> HIDE DEF v
  <2> QED BY <1>8, <2>2, <2>3, <2>4
<1>10. \A z \in F : z \in 0 .. END - 5 /\ (z + 5 <= node \/ node + w + 2 <= z)
  <2> SUFFICES ASSUME NEW z \in F PROVE z \in 0 .. END - 5 /\ (z + 5 <= node \/ node + w + 2 <= z)
    OBVIOUS
  <2>1. z \in 0 .. END - 5
    BY <1>4, <1>5 DEF Ring, FreeHeader
  <2>2. z # node /\ (z < node => z + 5 <= node) /\ (node < z => node + Total(w) <= z)
    BY <1>3, <1>7 DEF Apart, Clear, FreeHeader
  <2> HIDE DEF node, w
  <2> QED BY <1>8, <2>1, <2>2
<1>11. \A z \in F, o \in 0 .. 4 : mem'[z + o] = mem[z + o]
  <2> HIDE DEF node, w
  <2> QED BY <1>8, <1>9, <1>10
<1>12. \A z \in F : mem'[z] = mem[z]
  <2>1. \A z \in F : mem'[z + 0] = mem[z + 0] /\ z + 0 = z
    BY <1>10, <1>11
  <2> QED BY <2>1
<1>13. Ring(mem', freep', n, L) /\ FreeBlocks' = F /\ Freeing' = Freeing
  <2>1. Freeing' = Freeing
    BY <1>1, <1>2 DEF Freeing
  <2>2. \A i \in 0 .. n - 1 : \A o \in 1 .. 4 : mem'[L[i] + o] = mem[L[i] + o]
    BY <1>5, <1>11
  <2>3. Ring(mem', freep', n, L)
    BY <1>1, <1>4, <2>2, RingUntouched
  <2>4. FreeBlocks' = {L[i] : i \in 0 .. n - 1}
    BY <1>1, <1>4, <2>3, RingOfBlocks, RingBlocks, FreeBlocksAre
  <2> QED BY <1>5, <2>1, <2>3, <2>4
<1>14. RingInv'
  BY <1>1, <1>4, <1>13 DEF RingInv
<1>15. \A b \in DOMAIN held' : mem'[b] = held'[b]
  <2> SUFFICES ASSUME NEW b \in DOMAIN held' PROVE mem'[b] = held'[b]
    OBVIOUS
  <2>1. CASE b = node
    BY <1>1, <1>9, <2>1
  <2>2. CASE b # node
    <3>1. b \in DOMAIN held /\ held'[b] = held[b] /\ mem[b] = held[b] /\ a[b] = held[b]
      BY <1>1, <1>3, <2>2 DEF HeapInv, BlocksInv, Given
    <3>2. /\ b \in Nat /\ a[b] \in Words /\ b + Total(a[b]) <= END
          /\ (b < node => b + Total(a[b]) <= node) /\ (node < b => node + Total(w) <= b)
      BY <1>3, <1>7 DEF Apart
    <3>3. Total(a[b]) \in Nat /\ Total(a[b]) > 5
      BY <3>2, TotalRoom DEF FreeHeader
    <3>4. b \in 0 .. LAST /\ b \notin node .. node + w + 1
      <4> HIDE DEF node, w
      <4> QED BY <1>8, <2>2, <3>2, <3>3
    <3> QED BY <1>9, <3>1, <3>4
  <2> QED BY <2>1, <2>2
<1>16. Apart(mem', FreeBlocks', a)
  BY <1>3, <1>12, <1>13 DEF Apart, Clear
<1>17. Given(a)'
  <2>1. \A u \in Thread : pc'[u] # "create"
    BY <1>6, <1>8 DEF Locked
  <2>2. \A b \in DOMAIN held' : a[b] = held'[b]
    BY <1>1, <1>3, <1>7 DEF Given
  <2> QED BY <1>7, <2>1, <2>2 DEF Given
<1>18. CallsInv'
  <2>1. DOMAIN held \subseteq DOMAIN held'
    BY <1>1
  <2>2. \A u \in Thread : u # t => pc'[u] \notin {"move", "create", "add", "merge"}
    BY <1>6 DEF Locked
  <2> QED BY <1>1, <1>6, <1>8, <1>13, <2>1, <2>2 DEF HeapInv, CallsInv
<1> QED BY <1>1, <1>14, <1>15, <1>16, <1>17, <1>18 DEF HeapInv, BlocksInv, FaultInv

(* addBlock, word by word: b goes between p and the block behind it, q.      *)
LEMMA AddEffect ==
    ASSUME MallocInv, NEW m \in Memory, NEW b \in Nat, b + FreeHeader <= LAST,
           NEW p \in 0 .. END - FreeHeader, NEW q \in 0 .. END - FreeHeader,
           m[p + 3] = q, m[p + 4] = HIGH,
           p + FreeHeader <= b \/ b + FreeHeader <= p, q + FreeHeader <= b \/ b + FreeHeader <= q,
           p = q \/ p + FreeHeader <= q \/ q + FreeHeader <= p
    PROVE  LET m1 == PutPrev(m, b, p)
               m2 == PutNext(m1, b, next(m1, p))
               m3 == PutPrev(m2, next(m2, p), b)
               v  == PutNext(m3, p, b)
           IN  /\ HasNext(m1, p) /\ HasNext(m2, p)
               /\ Joined(v, p, b) /\ Joined(v, b, q)
               /\ \A i \in 0 .. LAST : i \notin {p + 3, p + 4, q + 1, q + 2} \cup (b + 1 .. b + 4) => v[i] = m[i]
<1> USE MallocAssumption DEF FreeHeader
<1> DEFINE m1 == PutPrev(m, b, p)
           m2 == PutNext(m1, b, next(m1, p))
           m3 == PutPrev(m2, next(m2, p), b)
           v  == PutNext(m3, p, b)
<1>1. DOMAIN m = 0 .. LAST
  BY DEF Memory
<1>2. \A i \in 0 .. 4 : p + i \in 0 .. LAST /\ q + i \in 0 .. LAST /\ b + i \in 0 .. LAST
  OBVIOUS
<1>3. DOMAIN m1 = 0 .. LAST /\ \A i \in 0 .. LAST : m1[i] = IF i = b + 1 THEN p ELSE IF i = b + 2 THEN HIGH ELSE m[i]
  BY <1>1 DEF PutPrev
<1> HIDE DEF m1
<1>4. m1[p + 3] = q /\ m1[p + 4] = HIGH
  BY <1>2, <1>3
<1>5. DOMAIN m2 = 0 .. LAST /\ \A i \in 0 .. LAST : m2[i] = IF i = b + 3 THEN q ELSE IF i = b + 4 THEN HIGH ELSE m1[i]
  <2>1. m2 = [m1 EXCEPT ![b + 3] = q, ![b + 4] = HIGH]
    BY <1>4 DEF PutNext, next
  <2>2. b + 3 # b + 4
    OBVIOUS
  <2> HIDE DEF m2
  <2> QED BY <1>3, <2>1, <2>2
<1> HIDE DEF m2
<1>6. m2[p + 3] = q /\ m2[p + 4] = HIGH
  BY <1>2, <1>4, <1>5
<1>7. DOMAIN m3 = 0 .. LAST /\ \A i \in 0 .. LAST : m3[i] = IF i = q + 1 THEN b ELSE IF i = q + 2 THEN HIGH ELSE m2[i]
  BY <1>5, <1>6 DEF PutPrev, next
<1> HIDE DEF m3
<1>8. \A i \in 0 .. LAST : v[i] = IF i = p + 3 THEN b ELSE IF i = p + 4 THEN HIGH ELSE m3[i]
  BY <1>7 DEF PutNext
<1> HIDE DEF v
<1>9. HasNext(m1, p) /\ HasNext(m2, p)
  <2>1. p + 3 + 1 = p + 4
    OBVIOUS
  <2>2. q \in 0 .. end - FreeHeader
    BY PlacesInMemory
  <2> QED BY <1>4, <1>6, <2>1, <2>2 DEF HasNext, IsPtr
<1>10. v[p + 3] = b /\ v[p + 4] = HIGH
  BY <1>2, <1>8
<1>11. v[q + 1] = b /\ v[q + 2] = HIGH
  <2>1. q + 1 # p + 3 /\ q + 1 # p + 4 /\ q + 2 # p + 3 /\ q + 2 # p + 4
    OBVIOUS
  <2> QED BY <1>2, <1>7, <1>8, <2>1
<1>12. v[b + 1] = p /\ v[b + 2] = HIGH /\ v[b + 3] = q /\ v[b + 4] = HIGH
  <2>1. \A j \in 1 .. 4 : b + j \notin {p + 3, p + 4, q + 1, q + 2}
    OBVIOUS
  <2>2. \A j \in 1 .. 4 : v[b + j] = m2[b + j]
    BY <1>2, <1>7, <1>8, <2>1
  <2>3. m2[b + 1] = p /\ m2[b + 2] = HIGH /\ m2[b + 3] = q /\ m2[b + 4] = HIGH
    BY <1>2, <1>3, <1>5
  <2> QED BY <2>2, <2>3
<1>13. ASSUME NEW i \in 0 .. LAST, i \notin {p + 3, p + 4, q + 1, q + 2} \cup (b + 1 .. b + 4)
       PROVE  v[i] = m[i]
  <2>1. i # b + 1 /\ i # b + 2 /\ i # b + 3 /\ i # b + 4
    BY <1>13
  <2> QED BY <1>3, <1>5, <1>7, <1>8, <1>13, <2>1
<1>14. Joined(v, p, b) /\ Joined(v, b, q)
  BY <1>10, <1>11, <1>12 DEF Joined
<1> QED BY <1>9, <1>13, <1>14 DEF m1, m2, m3, v

LEMMA addBlockSafe ==
    ASSUME RoomForHeaders, MallocInv, MallocInv', SafeInv, ~crashed, NEW t \in Thread, addBlock(t)
    PROVE  SafeInv'
<1> SUFFICES ASSUME ~raced', ~tight' PROVE HeapInv'
  BY DEF SafeInv
<1> USE MallocAssumption
<1> DEFINE b == arg[t]
           p == at[t]
           F == FreeBlocks
<1>1. ~raced /\ ~tight /\ pc[t] = "add"
  BY DEF addBlock, Crash, Look
<1>2. HeapInv
  BY <1>1 DEF SafeInv
<1>3. mem \in Memory /\ arg \in [Thread -> Nat] /\ at \in [Thread -> 0 .. LAST] /\ pc \in [Thread -> Places]
  BY PlacesInMemory DEF MallocInv, MallocTypeOK, Memory, Word, Places
<1>4. PICK a : Given(a) /\ Apart(mem, F, a)
  BY <1>2 DEF HeapInv, BlocksInv
<1>5. PICK n, L : Ring(mem, freep, n, L) /\ n + Cardinality(Freeing) <= calls + 1
  BY <1>2 DEF HeapInv, RingInv
<1>6. F = {L[i] : i \in 0 .. n - 1} /\ n \in Nat \ {0}
  BY <1>5, RingOfBlocks
<1>7. p \in F /\ b \in DOMAIN held
  BY <1>1, <1>2 DEF HeapInv, CallsInv
<1>8. PICK k \in 0 .. n - 1 : p = L[k]
  BY <1>6, <1>7
<1> DEFINE q == L[Succ(n, k)]
<1>9. q \in F /\ Succ(n, k) \in 0 .. n - 1 /\ Joined(mem, p, q)
  BY <1>5, <1>6, <1>8 DEF Ring, Succ
<1>10. \A z \in F : z \in 0 .. END - FreeHeader
  BY <1>5, <1>6 DEF Ring
<1>11. \A y, z \in F : y = z \/ y + FreeHeader <= z \/ z + FreeHeader <= y
  BY <1>4, <1>10 DEF Apart, Clear
<1>12. DOMAIN a = DOMAIN held /\ \A c \in DOMAIN held : a[c] = held[c] /\ mem[c] = held[c]
  <2>1. \A u \in Thread : pc[u] # "create"
    BY <1>1, LockAlone DEF Locked
  <2> QED BY <1>2, <1>4, <2>1 DEF Given, HeapInv, BlocksInv
<1>13. \A c \in DOMAIN held : /\ c \in Nat /\ held[c] \in Words /\ held[c] \in Nat /\ held[c] >= 3
                              /\ Total(held[c]) \in Nat /\ Total(held[c]) > FreeHeader
                              /\ c + Total(held[c]) <= END
  BY <1>4, <1>12, TotalRoom DEF Apart
<1>14. \A z \in F, c \in DOMAIN held : z + FreeHeader <= c \/ c + Total(held[c]) <= z
  BY <1>4, <1>10, <1>12, <1>13 DEF Apart, Clear
<1>15. \A z \in F, c \in DOMAIN held : z + FreeHeader <= c \/ c + FreeHeader <= z
  BY <1>10, <1>13, <1>14 DEF FreeHeader
<1>16. \A c \in DOMAIN held \ {b} : c + FreeHeader <= b \/ b + FreeHeader <= c
  <2> SUFFICES ASSUME NEW c \in DOMAIN held \ {b} PROVE c + FreeHeader <= b \/ b + FreeHeader <= c
    OBVIOUS
  <2>1. (b < c => b + Total(held[b]) <= c) /\ (c < b => c + Total(held[c]) <= b)
    BY <1>4, <1>7, <1>12 DEF Apart
  <2> HIDE DEF b
  <2> QED BY <1>7, <1>13, <2>1 DEF FreeHeader
<1> DEFINE m1 == PutPrev(mem, b, p)
           m2 == PutNext(m1, b, next(m1, p))
           m3 == PutPrev(m2, next(m2, p), b)
           v  == PutNext(m3, p, b)
<1>17. /\ HasNext(m1, p) /\ HasNext(m2, p)
       /\ Joined(v, p, b) /\ Joined(v, b, q)
       /\ \A i \in 0 .. LAST : i \notin {p + 3, p + 4, q + 1, q + 2} \cup (b + 1 .. b + 4) => v[i] = mem[i]
  <2>1. b \in Nat /\ b + FreeHeader <= LAST
    BY <1>7, <1>13 DEF FreeHeader
  <2>2. /\ p \in 0 .. END - FreeHeader /\ q \in 0 .. END - FreeHeader
        /\ p + FreeHeader <= b \/ b + FreeHeader <= p
        /\ q + FreeHeader <= b \/ b + FreeHeader <= q
        /\ p = q \/ p + FreeHeader <= q \/ q + FreeHeader <= p
        /\ mem[p + 3] = q /\ mem[p + 4] = HIGH
    BY <1>7, <1>9, <1>10, <1>11, <1>15 DEF Joined
  <2> HIDE DEF b, p, q
  <2> QED BY <1>3, <2>1, <2>2, AddEffect
<1>18. /\ mem' = v /\ held' = [c \in DOMAIN held \ {b} |-> held[c]] /\ pc' = [pc EXCEPT ![t] = "merge"]
       /\ UNCHANGED <<freep, at, arg, calls, end, crashed>>
  <2> HIDE DEF m1, m2, v
  <2> QED BY <1>1, <1>17 DEF addBlock, Go, NoCrash, m1, m2, v
<1> HIDE DEF m1, m2, m3, v
<1>19. Joined(mem', p, b) /\ Joined(mem', b, q)
  BY <1>17, <1>18
<1>20. \A i \in 0 .. LAST : i \notin {p + 3, p + 4, q + 1, q + 2} \cup (b + 1 .. b + 4) => mem'[i] = mem[i]
  BY <1>17, <1>18
<1>21. p \in 0 .. END - FreeHeader /\ q \in 0 .. END - FreeHeader /\ b \in Nat
  BY <1>7, <1>9, <1>10, <1>13
<1>22. \A z \in F : mem'[z] = mem[z]
  <2> SUFFICES ASSUME NEW z \in F PROVE mem'[z] = mem[z]
    OBVIOUS
  <2>1. /\ z = p \/ z + FreeHeader <= p \/ p + FreeHeader <= z
        /\ z = q \/ z + FreeHeader <= q \/ q + FreeHeader <= z
        /\ z + FreeHeader <= b \/ b + FreeHeader <= z
        /\ z \in 0 .. END - FreeHeader
    BY <1>7, <1>9, <1>10, <1>11, <1>15
  <2>2. z \in 0 .. LAST /\ z \notin {p + 3, p + 4, q + 1, q + 2} \cup (b + 1 .. b + 4)
    <3> HIDE DEF p, q, b
    <3> QED BY <1>21, <2>1 DEF FreeHeader
  <2> QED BY <1>20, <2>2
<1>23. \A c \in DOMAIN held : mem'[c] = held[c]
  <2> SUFFICES ASSUME NEW c \in DOMAIN held PROVE mem'[c] = mem[c]
    BY <1>12
  <2>1. /\ c + FreeHeader <= p \/ p + FreeHeader <= c
        /\ c + FreeHeader <= q \/ q + FreeHeader <= c
        /\ c = b \/ c + FreeHeader <= b \/ b + FreeHeader <= c
        /\ c \in 0 .. LAST
    <3>1. c \in Nat /\ c <= END
      BY <1>13 DEF FreeHeader
    <3> QED BY <1>7, <1>9, <1>15, <1>16, <3>1
  <2>2. c \notin {p + 3, p + 4, q + 1, q + 2} \cup (b + 1 .. b + 4)
    <3> HIDE DEF p, q, b
    <3> QED BY <1>21, <2>1 DEF FreeHeader
  <2> QED BY <1>20, <2>1, <2>2
<1>24. ASSUME NEW i \in 0 .. n - 1, i # k
       PROVE  Joined(mem', L[i], L[Succ(n, i)])
  <2> DEFINE y == L[i]
             z == L[Succ(n, i)]
  <2>1. Succ(n, i) \in 0 .. n - 1 /\ Joined(mem, y, z)
    BY <1>5, RingPointers DEF Ring
  <2>2. y \in F /\ z \in F
    BY <1>6, <2>1
  <2>3. y # p
    BY <1>5, <1>8, <1>24 DEF Ring
  <2>4. z # q
    <3>1. Succ(n, i) # Succ(n, k)
      BY <1>6, <1>24, SuccInjective
    <3> QED BY <1>5, <1>9, <2>1, <3>1 DEF Ring
  <2>5. y \in 0 .. END - FreeHeader /\ z \in 0 .. END - FreeHeader
    BY <1>10, <2>2
  <2> HIDE DEF y, z
  <2>6. /\ y + 5 <= p \/ p + 5 <= y
        /\ z + 5 <= q \/ q + 5 <= z
        /\ y = q \/ y + 5 <= q \/ q + 5 <= y
        /\ z = p \/ z + 5 <= p \/ p + 5 <= z
        /\ y + 5 <= b \/ b + 5 <= y
        /\ z + 5 <= b \/ b + 5 <= z
    BY <1>7, <1>9, <1>11, <1>15, <2>2, <2>3, <2>4 DEF FreeHeader
  <2>7. \A u \in {y + 3, y + 4, z + 1, z + 2} :
            u \in 0 .. LAST /\ u \notin {p + 3, p + 4, q + 1, q + 2} \cup (b + 1 .. b + 4)
    <3> HIDE DEF p, q, b
    <3> QED BY <1>21, <2>5, <2>6 DEF FreeHeader
  <2>8. \A u \in {y + 3, y + 4, z + 1, z + 2} : mem'[u] = mem[u]
    BY <1>20, <2>7
  <2>9. Joined(mem', y, z)
    BY <2>1, <2>8 DEF Joined
  <2> QED BY <2>9 DEF y, z
<1> DEFINE M == [i \in 0 .. n |-> IF i <= k THEN L[i] ELSE IF i = k + 1 THEN b ELSE L[i - 1]]
<1>25. Ring(mem', freep', n + 1, M)
  <2>1. b \in 0 .. END - FreeHeader
    BY <1>7, <1>13 DEF FreeHeader
  <2>2. \A i \in 0 .. n - 1 : L[i] # b
    <3>1. b \notin F
      BY <1>4, <1>7, <1>12 DEF Apart
    <3> QED BY <1>6, <3>1
  <2>3. Joined(mem', L[k], b) /\ Joined(mem', b, L[Succ(n, k)])
    BY <1>8, <1>19
  <2>4. Ring(mem', freep, n + 1, [i \in 0 .. n |-> IF i <= k THEN L[i] ELSE IF i = k + 1 THEN b ELSE L[i - 1]])
    <3> HIDE DEF b
    <3> QED BY <1>5, <1>24, <2>1, <2>2, <2>3, RingInsert
  <2> QED BY <1>18, <2>4
<1>26. Freeing' = Freeing \ {t} /\ t \in Freeing
  BY <1>1, <1>3, <1>18 DEF Freeing
<1>27. (n + 1) + Cardinality(Freeing') <= calls' + 1
  <2>1. IsFiniteSet(Freeing) /\ Cardinality(Freeing) \in Nat /\ calls \in Nat
    BY FS_Subset, FS_CardinalityType DEF Freeing, MallocInv, MallocTypeOK
  <2>2. Cardinality(Freeing') = Cardinality(Freeing) - 1
    BY <1>26, <2>1, FS_RemoveElement
  <2> QED BY <1>5, <1>6, <1>18, <2>1, <2>2
<1>28. FreeBlocks' = F \cup {b}
  <2>1. FreeBlocks' = {M[i] : i \in 0 .. (n + 1) - 1}
    <3> HIDE DEF M
    <3>1. n + 1 \in Nat \ {0} /\ Cardinality(Freeing') \in Nat /\ calls' \in 0 .. MaxCalls
      BY <1>6, <1>26, FS_Subset, FS_CardinalityType DEF Freeing, MallocInv, MallocTypeOK
    <3>2. n + 1 <= MaxCalls + 1
      BY <1>27, <3>1
    <3> QED BY <1>18, <1>25, <3>2, RingBlocks, FreeBlocksAre
  <2>2. (n + 1) - 1 = n
    BY <1>6
  <2>3. \A i \in 0 .. n : M[i] = IF i <= k THEN L[i] ELSE IF i = k + 1 THEN b ELSE L[i - 1]
    OBVIOUS
  <2> HIDE DEF M
  <2>4. \A i \in 0 .. n : M[i] \in F \cup {b}
    BY <1>6, <2>3
  <2>5. \A i \in 0 .. n - 1 : \E u \in 0 .. n : M[u] = L[i]
    <3> SUFFICES ASSUME NEW i \in 0 .. n - 1 PROVE \E u \in 0 .. n : M[u] = L[i]
      OBVIOUS
    <3>1. CASE i <= k
      BY <1>6, <2>3, <3>1
    <3>2. CASE i > k
      <4>1. i + 1 \in 0 .. n /\ M[i + 1] = L[i]
        BY <1>6, <2>3, <3>2
      <4> QED BY <4>1
    <3> QED BY <3>1, <3>2
  <2>6. k + 1 \in 0 .. n /\ M[k + 1] = b
    BY <1>6, <2>3
  <2> QED BY <1>6, <2>1, <2>2, <2>4, <2>5, <2>6
<1>29. RingInv'
  <2> HIDE DEF M
  <2> QED BY <1>25, <1>27 DEF RingInv
<1>37. PICK d : d = [c \in DOMAIN a \ {b} |-> a[c]]
  OBVIOUS
<1>30. Apart(mem', FreeBlocks', d)
  <2>1. b \in DOMAIN a /\ mem'[b] = a[b]
    BY <1>7, <1>12, <1>23
  <2>2. Apart(mem', F \cup {b}, [c \in DOMAIN a \ {b} |-> a[c]])
    <3> HIDE DEF b, F
    <3> QED BY <1>4, <1>22, <2>1, ApartAdd
  <2> QED BY <1>28, <1>37, <2>2
<1>31. \A u \in Thread : u # t => pc'[u] = pc[u] /\ pc[u] \notin Locked
  BY <1>1, <1>3, <1>18, LockAlone DEF Locked
<1>32. pc'[t] = "merge" /\ at' = at /\ arg' = arg
  BY <1>3, <1>18
<1>33. Given(d)'
  <2>1. \A u \in Thread : pc'[u] # "create"
    BY <1>31, <1>32 DEF Locked
  <2>2. DOMAIN d = DOMAIN held' /\ \A c \in DOMAIN held' : d[c] = held'[c]
    BY <1>12, <1>18, <1>37
  <2> QED BY <2>1, <2>2 DEF Given
<1>34. \A c \in DOMAIN held' : mem'[c] = held'[c]
  BY <1>18, <1>23
<1>35. CallsInv'
  <2>1. mem'[b] > 0
    BY <1>7, <1>13, <1>23
  <2>2. ASSUME NEW u \in Thread
        PROVE  /\ pc'[u] \in {"find", "take", "move", "create"} => arg'[u] \in Words
               /\ pc'[u] = "move" => at'[u] \in FreeBlocks' /\ mem'[at'[u]] >= Total(arg'[u])
               /\ pc'[u] \in {"place", "put", "add"} => arg'[u] \in DOMAIN held'
               /\ pc'[u] = "add" => at'[u] \in FreeBlocks'
               /\ pc'[u] = "merge" => arg'[u] \in FreeBlocks' /\ mem'[arg'[u]] > 0
    <3>1. CASE u = t
      BY <1>28, <1>32, <2>1, <3>1
    <3>2. CASE u # t
      <4>1. pc'[u] = pc[u] /\ pc[u] \notin {"move", "create", "add", "merge"}
        BY <1>31, <3>2 DEF Locked
      <4>2. pc[u] \in {"place", "put", "add"} => arg[u] \in DOMAIN held \ {b}
        BY <1>1, <1>2, <3>2 DEF HeapInv, CallsInv, Freeing
      <4>3. DOMAIN held' = DOMAIN held \ {b}
        BY <1>18
      <4> QED BY <1>2, <1>32, <4>1, <4>2, <4>3 DEF HeapInv, CallsInv
    <3> QED BY <3>1, <3>2
  <2>3. \A u, z \in Freeing' : arg'[u] = arg'[z] => u = z
    BY <1>2, <1>26, <1>32 DEF HeapInv, CallsInv
  <2> QED BY <2>2, <2>3 DEF CallsInv
<1>36. BlocksInv'
  BY <1>30, <1>33, <1>34 DEF BlocksInv
<1> QED BY <1>2, <1>18, <1>29, <1>35, <1>36 DEF HeapInv, FaultInv

(* A block's size is the words asked for, and so ends before the next block  *)
(* begins.                                                                   *)
LEMMA NothingToMerge ==
    ASSUME MallocInv, SafeInv, ~raced, ~tight, NEW t \in Thread, coalesceBlocks(t)
    PROVE  /\ UNCHANGED <<mem, freep, at, arg, held, calls, end, crashed>>
           /\ pc[t] = "merge" /\ pc' = [pc EXCEPT ![t] = "idle"]
<1> DEFINE b == arg[t]
<1>1. pc[t] = "merge"
  BY DEF coalesceBlocks
<1>2. HeapInv
  BY DEF SafeInv
<1>3. /\ b \in FreeBlocks /\ mem[b] > 0
      /\ \A z \in FreeBlocks : mem[z] \in Nat /\ z \in Nat /\ z + mem[z] \notin FreeBlocks \ {z}
  BY <1>1, <1>2 DEF HeapInv, CallsInv, BlocksInv, Apart
<1>4. /\ HasNext(mem, b) /\ next(mem, b) \in FreeBlocks
      /\ HasPrev(mem, b) /\ prev(mem, b) \in FreeBlocks
      /\ HasNext(mem, next(mem, b))
  BY <1>2, <1>3, FreeBlockLinks DEF HeapInv
<1>5. Mergeable(mem, b)
  BY <1>3, <1>4 DEF Mergeable, HasSize
<1>6. MergedNext(mem, b) = mem
  <2>1. b + mem[b] # b /\ b + mem[b] \notin FreeBlocks \ {b}
    BY <1>3
  <2>2. next(mem, b) # b + mem[b]
    <3> HIDE DEF b
    <3> QED BY <1>4, <2>1
  <2> QED BY <2>2 DEF MergedNext, size
<1>7. MergedPrev(mem, b) = mem
  <2> DEFINE p == prev(mem, b)
  <2>1. p + mem[p] \notin FreeBlocks \ {p} /\ (p = b => p + mem[p] # b)
    BY <1>3, <1>4
  <2>2. b # p + mem[p]
    <3> HIDE DEF b, p
    <3> QED BY <1>3, <2>1
  <2> QED BY <2>2 DEF MergedPrev, size
<1> QED BY <1>1, <1>5, <1>6, <1>7 DEF coalesceBlocks, Mergeable, Go, NoCrash

LEMMA coalesceBlocksSafe ==
    ASSUME RoomForHeaders, MallocInv, MallocInv', SafeInv, ~crashed, NEW t \in Thread, coalesceBlocks(t)
    PROVE  SafeInv'
<1> SUFFICES ASSUME ~raced', ~tight' PROVE HeapInv'
  BY DEF SafeInv
<1>1. ~raced /\ ~tight
  BY DEF coalesceBlocks, Crash, Look
<1>2. HeapInv
  BY <1>1 DEF SafeInv
<1>3. /\ UNCHANGED <<mem, freep, at, arg, held, calls, end, crashed>>
      /\ pc[t] = "merge" /\ pc' = [pc EXCEPT ![t] = "idle"]
  BY <1>1, NothingToMerge
<1>4. BlocksInv' /\ FreeBlocks' = FreeBlocks
  BY <1>2, <1>3, QuietStep DEF MallocInv, MallocTypeOK
<1>5. Freeing' = Freeing
  BY <1>3 DEF Freeing, MallocInv, MallocTypeOK
<1>6. RingInv'
  BY <1>2, <1>3, <1>5 DEF HeapInv, RingInv
<1>7. CallsInv'
  BY <1>2, <1>3, <1>4, <1>5 DEF HeapInv, CallsInv, MallocInv, MallocTypeOK
<1> QED BY <1>2, <1>3, <1>4, <1>6, <1>7 DEF HeapInv, FaultInv

-----------------------------------------------------------------------------
LEMMA SafeStep ==
    ASSUME RoomForHeaders, MallocInv, MallocInv', SafeInv, [Next]_vars
    PROVE  SafeInv'
<1>1. ASSUME ~crashed, NEW t \in Thread, NEW n \in Words, Malloc(t, n) PROVE SafeInv'
  BY <1>1, MallocSafe
<1>2. ASSUME ~crashed, NEW t \in Thread, NEW b \in DOMAIN held, Free(t, b) PROVE SafeInv'
  BY <1>2, FreeSafe
<1>3. ASSUME ~crashed, NEW t \in Thread, Step(t) PROVE SafeInv'
  BY <1>3, FindSafe, LockToTakeSafe, moveFreeHeaderSafe, createHeaderSafe,
     PlaceSafe, LockToPutSafe, addBlockSafe, coalesceBlocksSafe DEF Step
<1>4. CASE UNCHANGED vars
  <2>1. FreeBlocks' = FreeBlocks /\ Freeing' = Freeing
    BY <1>4, FreeBlocksAre DEF vars, Freeing
  <2>2. RingInv => RingInv'
    BY <1>4, <2>1 DEF vars, RingInv
  <2>3. BlocksInv => BlocksInv'
    BY <1>4, <2>1 DEF vars, BlocksInv, Given
  <2>4. CallsInv => CallsInv'
    BY <1>4, <2>1 DEF vars, CallsInv
  <2>5. FaultInv => FaultInv'
    BY <1>4 DEF vars, FaultInv, PastBreak
  <2> QED BY <1>4, <2>2, <2>3, <2>4, <2>5 DEF vars, SafeInv, HeapInv
<1> QED BY <1>1, <1>2, <1>3, <1>4 DEF Next

(* When no caller asks for less than 12 bytes, the heap stays sound whatever *)
(* is taken and freed and in whatever order: blocks do not overlap, the free *)
(* list is linked both ways and a call fails only where the remainder of a   *)
(* block lies past the break, unless a thread has walked over a block that   *)
(* another took meanwhile or a header was put over one.                      *)
THEOREM HeapStaysSound ==
    ASSUME RoomForHeaders
    PROVE  Spec => []HeapSound
<1>1. Init => MallocInv /\ SafeInv
  BY Initially, InitiallySafe
<1>2. MallocInv /\ SafeInv /\ [Next]_vars => (MallocInv /\ SafeInv)'
  BY Inductive, SafeStep
<1>3. MallocInv /\ SafeInv => HeapSound
  BY SafeIsSound
<1> QED BY <1>1, <1>2, <1>3, PTL DEF Spec

(* coalesceBlocks compares a block's place with the words asked for in the   *)
(* block before it, not with those taken: while the heap is sound it finds   *)
(* no two blocks adjacent.                                                   *)
NeverMerges ==
    [][\A t \in Thread : coalesceBlocks(t) /\ ~raced /\ ~tight => UNCHANGED mem]_vars

(* Memory is given back in the pieces it was taken in, and never joined.     *)
THEOREM NothingIsMerged ==
    ASSUME RoomForHeaders
    PROVE  Spec => NeverMerges
<1>1. Init => MallocInv /\ SafeInv
  BY Initially, InitiallySafe
<1>2. MallocInv /\ SafeInv /\ [Next]_vars => (MallocInv /\ SafeInv)'
  BY Inductive, SafeStep
<1>3. MallocInv /\ SafeInv /\ [Next]_vars
        => [\A t \in Thread : coalesceBlocks(t) /\ ~raced /\ ~tight => UNCHANGED mem]_vars
  BY NothingToMerge
<1> QED BY <1>1, <1>2, <1>3, PTL DEF Spec, NeverMerges
=============================================================================
