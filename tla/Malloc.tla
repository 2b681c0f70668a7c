------------------------------- MODULE Malloc -------------------------------
(***************************************************************************)
(* The allocator of CSC369/Malloc (mymemory.c) with threads: mymalloc and  *)
(* myfree walk the free list without the lock and change it with the lock  *)
(* held, so that what a walk has found may be gone when it is used.        *)
(*                                                                         *)
(* Memory is an array of words of four bytes.  A free header is the words  *)
(* size, prev, prev's upper half, next, next's upper half, and a sixth     *)
(* that is not used; an allocated one is size and magic.  Pointers into    *)
(* the heap share their upper half, HIGH.  Headers may overlap each other  *)
(* and the callers' data, as in the code; whoever uses a word that is no   *)
(* number as a size, or follows one that is no pointer, has crashed, and   *)
(* so has whoever touches a word past the program break.  The heap reaches *)
(* past it: mymalloc_init skips 40 headers, 960 bytes, where it means 40   *)
(* bytes, and takes 4088 of the 3136 that are left (HEAP and END are 1022  *)
(* and 784).  A walk takes one step for a block, the part under the lock   *)
(* one for each function it calls.  pthread_mutex_lock and unlock do not   *)
(* return a negative number.                                               *)
(***************************************************************************)
EXTENDS Integers, FiniteSets

CONSTANTS
    Thread,
    Words,          \* BOUND: requests, in words
    HEAP,           \* words that mymalloc_init marks as free
    END,            \* words of them that lie below the program break
    PAGE,           \* words that sbrk adds
    LAST,           \* BOUND: the last word sbrk can reach
    HIGH, MAGIC_NUMBER, JUNK,
    MaxCalls        \* BOUND: calls of mymalloc and myfree

HEADER_SIZE == 2
FreeHeader  == 5        \* the words of a free header that are written

ASSUME MallocAssumption ==
    /\ IsFiniteSet(Thread) /\ Words \subseteq Nat /\ HEAP \in Nat
    /\ HEAP >= FreeHeader /\ LAST \in Nat /\ END \in FreeHeader .. LAST
    /\ PAGE \in Nat /\ PAGE >= FreeHeader /\ MaxCalls \in Nat
    /\ HIGH \notin Int /\ MAGIC_NUMBER \notin Int /\ JUNK \notin Int

VARIABLES
    mem, freep,
    lock,       \* the threads that hold it: none or one
    end,        \* the program break
    pc, at,     \* of a thread: its place in the code, and freeHeader
    arg,        \* ... and the words asked for, or the block to free
    held,       \* held[b]: words asked for in the block at b, not freed yet
    crashed, calls,
    raced,      \* history: a block was used that was no longer in the list
    tight       \* history: a header was written over a block or past the end

vars == <<mem, freep, lock, end, pc, at, arg, held, crashed, calls, raced, tight>>

(* ALIGN8(size + HEADER_SIZE)                                                *)
Total(n) == LET t == n + HEADER_SIZE IN t + (t % 2)

(* Fields of the header at p.                                                *)
size(m, p)  == m[p]
IsPtr(m, i) == m[i] \in 0 .. end - FreeHeader /\ m[i + 1] = HIGH
next(m, p)  == m[p + 3]
prev(m, p)  == m[p + 1]
PutNext(m, p, q) == [m EXCEPT ![p + 3] = q, ![p + 4] = HIGH]
PutPrev(m, p, q) == [m EXCEPT ![p + 1] = q, ![p + 2] = HIGH]

HasNext(m, p) == IsPtr(m, p + 3)
HasPrev(m, p) == IsPtr(m, p + 1)
HasSize(m, p) == m[p] \in Int

(* size is int and totalSize unsigned: a negative size is a large one.       *)
Fits(m, p, total) == HasSize(m, p) /\ (size(m, p) < 0 \/ size(m, p) >= total)

Init ==
    /\ mem = PutPrev(PutNext([i \in 0 .. LAST |-> IF i = 0 THEN HEAP ELSE 0], 0, 0), 0, 0)
    /\ freep = 0 /\ lock = {} /\ end = END
    /\ pc = [t \in Thread |-> "idle"] /\ at = [t \in Thread |-> 0] /\ arg = [t \in Thread |-> 0]
    /\ held = <<>> /\ crashed = FALSE /\ calls = 0
    /\ raced = FALSE /\ tight = FALSE

(* The blocks of the free list; there are no more than calls have put there. *)
FreeBlocks ==
    LET nth[k \in 0 .. MaxCalls] ==
            IF k = 0 THEN freep
            ELSE LET p == nth[k - 1] IN IF HasNext(mem, p) THEN next(mem, p) ELSE p
    IN  {nth[k] : k \in 0 .. MaxCalls}

(* Words of the blocks in use, and of the free headers but p's.              *)
InUse == UNION {b .. b + Total(held[b]) - 1 : b \in DOMAIN held}
Heads(p) == UNION {b .. b + FreeHeader - 1 : b \in FreeBlocks \ {p}}

Go(t, l) == pc' = [pc EXCEPT ![t] = l]
NoCrash  == UNCHANGED <<crashed, calls>>

(* A thread uses the block its walk has led it to.                           *)
Look(t)  ==
    raced' = \/ raced
             \/ at[t] \notin FreeBlocks
             \/ pc[t] = "take" /\ ~Fits(mem, at[t], Total(arg[t]))

Crash(t) == /\ crashed' = TRUE /\ Look(t)
            /\ UNCHANGED <<mem, freep, lock, end, pc, at, arg, held, calls, tight>>

-----------------------------------------------------------------------------
(* mymalloc                                                                  *)

Malloc(t, n) ==
    /\ pc[t] = "idle" /\ calls < MaxCalls /\ calls' = calls + 1
    /\ Go(t, "find") /\ at' = [at EXCEPT ![t] = freep] /\ arg' = [arg EXCEPT ![t] = n]
    /\ UNCHANGED <<mem, freep, lock, end, held, crashed, raced, tight>>

(* One turn of the search loop.  At the last block it stays where it is.     *)
Find(t) ==
    /\ pc[t] = "find"
    /\ IF ~HasSize(mem, at[t]) THEN Crash(t)
       ELSE IF Fits(mem, at[t], Total(arg[t]))
       THEN Go(t, "take") /\ NoCrash /\ Look(t) /\ UNCHANGED <<mem, freep, lock, end, at, arg, held, tight>>
       ELSE IF ~HasNext(mem, at[t]) THEN Crash(t)
       ELSE /\ next(mem, at[t]) # freep
            /\ at' = [at EXCEPT ![t] = next(mem, @)]
            /\ NoCrash /\ Look(t) /\ UNCHANGED <<mem, freep, lock, end, pc, arg, held, tight>>

(* At the end of the list when another thread has used up the block; a       *)
(* failing sbrk is not recognised and its result followed.                   *)
extendHeap(t) ==
    \/ Crash(t)
    \/ LET p == at[t] IN
       /\ end + PAGE <= LAST
       /\ mem' = PutNext([PutPrev(PutNext(mem, p, end), end, p) EXCEPT ![end] = PAGE], end, freep)
       /\ at' = [at EXCEPT ![t] = end] /\ end' = end + PAGE
       /\ lock' = {t} /\ Go(t, "move")
       /\ NoCrash /\ Look(t) /\ UNCHANGED <<freep, arg, held, tight>>

LockToTake(t) ==
    /\ pc[t] = "take" /\ lock = {}
    /\ IF HasNext(mem, at[t]) /\ next(mem, at[t]) = freep /\ HasSize(mem, at[t])
             /\ ~Fits(mem, at[t], Total(arg[t]))
       THEN extendHeap(t)
       ELSE /\ lock' = {t} /\ Go(t, "move")
            /\ NoCrash /\ Look(t) /\ UNCHANGED <<mem, freep, end, at, arg, held, tight>>

(* The header is copied to node + movement field by field; the copy may      *)
(* overlap the fields that are still to be read.                             *)
Copied(m, node, movement) ==
    LET n  == node + movement
        m1 == [m  EXCEPT ![n] = m[node]]
        m2 == [m1 EXCEPT ![n + 1] = m1[node + 1], ![n + 2] = m1[node + 2]]
        m3 == [m2 EXCEPT ![n + 3] = m2[node + 3], ![n + 4] = m2[node + 4]]
    IN  [m3 EXCEPT ![n] = m3[node]]

(* ... and linked in its place: alone, or between its neighbours.            *)
Relinked(m, node, n) ==
    IF prev(m, n) = node /\ next(m, n) = node
    THEN PutPrev(PutNext(m, n, n), n, n)
    ELSE LET m1 == PutPrev(m, next(m, n), n) IN PutNext(m1, prev(m1, n), n)

(* What a block leaves over would have its header past the program break.    *)
PastBreak(t) == pc[t] = "move" /\ at[t] + Total(arg[t]) + FreeHeader > end

moveFreeHeader(t) ==
    LET node == at[t]
        n    == node + Total(arg[t])
        m    == Copied(mem, node, Total(arg[t]))
        r    == Relinked(m, node, n)
    IN
    /\ pc[t] = "move"
    /\ IF PastBreak(t) \/ ~HasPrev(m, n) \/ ~HasNext(m, n) \/ ~HasSize(r, n) THEN Crash(t)
       ELSE /\ mem' = [r EXCEPT ![n] = @ - Total(arg[t])]
            /\ freep' = IF freep = node THEN n ELSE freep
            /\ tight' = (tight \/ n + FreeHeader > HEAP
                               \/ (n .. n + FreeHeader - 1) \cap (InUse \cup Heads(node)) # {})
            /\ Go(t, "create") /\ NoCrash
            /\ UNCHANGED <<lock, end, at, arg, held, raced>>

(* The size asked for, not the one taken; and the block is returned.  The    *)
(* caller writes all of it at once, or nothing.                              *)
createHeader(t) ==
    /\ pc[t] = "create"
    /\ \E written \in {{}, 2 .. arg[t] + 1} :
          mem' = [i \in 0 .. LAST |-> CASE i = at[t]           -> arg[t]
                                       [] i = at[t] + 1       -> MAGIC_NUMBER
                                       [] i - at[t] \in written -> JUNK
                                       [] OTHER               -> mem[i]]
    /\ held' = [b \in DOMAIN held \cup {at[t]} |-> IF b = at[t] THEN arg[t] ELSE held[b]]
    /\ lock' = {} /\ Go(t, "idle")
    /\ NoCrash /\ UNCHANGED <<freep, end, at, arg, raced, tight>>

-----------------------------------------------------------------------------
(* myfree                                                                    *)

(* A block whose magic number was overwritten is refused, and stays.         *)
Free(t, b) ==
    /\ pc[t] = "idle" /\ calls < MaxCalls /\ calls' = calls + 1
    /\ \A u \in Thread : pc[u] \in {"put", "add", "merge", "place"} => arg[u] # b
    /\ mem[b + 1] = MAGIC_NUMBER
    /\ Go(t, "place") /\ at' = [at EXCEPT ![t] = freep] /\ arg' = [arg EXCEPT ![t] = b]
    /\ UNCHANGED <<mem, freep, lock, end, held, crashed, raced, tight>>

\* Mutant: the walk does not stop at the last block.
PlaceOnAndOn(t) ==
    /\ pc[t] = "place"
    /\ IF arg[t] + HEADER_SIZE >= at[t]
       THEN Go(t, "put") /\ NoCrash /\ Look(t) /\ UNCHANGED <<mem, freep, lock, end, at, arg, held, tight>>
       ELSE IF ~HasNext(mem, at[t]) THEN Crash(t)
       ELSE /\ at' = [at EXCEPT ![t] = next(mem, @)]
            /\ NoCrash /\ Look(t) /\ UNCHANGED <<mem, freep, lock, end, pc, arg, held, tight>>

(* Up to the first block that does not lie behind, or the last.              *)
Place(t) ==
    /\ pc[t] = "place"
    /\ IF arg[t] + HEADER_SIZE >= at[t]
       THEN Go(t, "put") /\ NoCrash /\ Look(t) /\ UNCHANGED <<mem, freep, lock, end, at, arg, held, tight>>
       ELSE IF ~HasNext(mem, at[t]) THEN Crash(t)
       ELSE /\ IF next(mem, at[t]) = freep THEN Go(t, "put") /\ UNCHANGED at
               ELSE at' = [at EXCEPT ![t] = next(mem, @)] /\ UNCHANGED pc
            /\ NoCrash /\ Look(t) /\ UNCHANGED <<mem, freep, lock, end, arg, held, tight>>

\* Mutant: myfree does not wait for the lock.
LockToPutAnyway(t) ==
    /\ pc[t] = "put"
    /\ lock' = lock \cup {t} /\ Go(t, "add")
    /\ Look(t)
    /\ NoCrash /\ UNCHANGED <<mem, freep, end, at, arg, held, tight>>

LockToPut(t) ==
    /\ pc[t] = "put" /\ lock = {}
    /\ lock' = {t} /\ Go(t, "add")
    /\ Look(t)
    /\ NoCrash /\ UNCHANGED <<mem, freep, end, at, arg, held, tight>>

\* Mutant: the block behind is not told.
addBlock_oneway(t) ==
    LET b == arg[t]
        p == at[t]
        m1 == PutPrev(mem, b, p)
        m2 == PutNext(m1, b, next(m1, p))
    IN
    /\ pc[t] = "add"
    /\ IF ~HasNext(m1, p) THEN Crash(t)
       ELSE /\ mem' = PutNext(m2, p, b)
            /\ held' = [x \in DOMAIN held \ {b} |-> held[x]]
            /\ Go(t, "merge") /\ NoCrash
            /\ UNCHANGED <<freep, lock, end, at, arg, raced, tight>>

(* ptr->size stays as it is.                                                 *)
addBlock(t) ==
    LET b == arg[t]
        p == at[t]
        m1 == PutPrev(mem, b, p)
        m2 == PutNext(m1, b, next(m1, p))
        m3 == PutPrev(m2, next(m2, p), b)
    IN
    /\ pc[t] = "add"
    /\ IF ~HasNext(m1, p) \/ ~HasNext(m2, p) THEN Crash(t)
       ELSE /\ mem' = PutNext(m3, p, b)
            /\ held' = [x \in DOMAIN held \ {b} |-> held[x]]
            /\ Go(t, "merge") /\ NoCrash
            /\ UNCHANGED <<freep, lock, end, at, arg, raced, tight>>

(* With the next block, and then with the one before.                        *)
MergedNext(m, b) ==
    IF next(m, b) # b + size(m, b) THEN m
    ELSE LET m1 == [m EXCEPT ![b] = @ + size(m, next(m, b))]
             m2 == PutNext(m1, b, next(m1, next(m1, b)))
         IN  PutPrev(m2, next(m2, b), b)

MergedPrev(m, b) ==
    LET p == prev(m, b) IN
    IF b # p + size(m, p) THEN m
    ELSE LET m1 == [m EXCEPT ![p] = @ + size(m, b)]
         IN  PutNext(PutPrev(m1, next(m1, b), p), p, next(m1, b))

coalesceBlocks(t) ==
    LET b == arg[t]
        sound(m) == /\ HasSize(m, b) /\ HasNext(m, b) /\ HasPrev(m, b)
                    /\ HasSize(m, next(m, b)) /\ HasNext(m, next(m, b)) /\ HasSize(m, prev(m, b))
    IN
    /\ pc[t] = "merge"
    /\ IF ~sound(mem) THEN Crash(t)
       ELSE IF ~sound(MergedNext(mem, b)) THEN Crash(t)
       ELSE /\ mem' = MergedPrev(MergedNext(mem, b), b)
            /\ lock' = {} /\ Go(t, "idle")
            /\ NoCrash /\ UNCHANGED <<freep, end, at, arg, held, raced, tight>>

-----------------------------------------------------------------------------
Step(t) ==
    \/ Find(t) \/ LockToTake(t) \/ moveFreeHeader(t) \/ createHeader(t)
    \/ Place(t) \/ LockToPut(t) \/ addBlock(t) \/ coalesceBlocks(t)

Next ==
    /\ ~crashed
    /\ \/ \E t \in Thread, n \in Words : Malloc(t, n)
       \/ \E t \in Thread, b \in DOMAIN held : Free(t, b)
       \/ \E t \in Thread : Step(t)

Spec == Init /\ [][Next]_vars /\ \A t \in Thread : WF_vars(~crashed /\ Step(t))

-----------------------------------------------------------------------------
(* Properties.                                                               *)

(* Types; the lock is held by the one thread that is changing the list, and  *)
(* that list's first block lies below the break.                             *)
MallocTypeOK ==
    /\ mem \in [0 .. LAST -> Int \cup {HIGH, MAGIC_NUMBER, JUNK}]
    /\ end \in END .. LAST /\ freep \in 0 .. end - FreeHeader
    /\ lock = {t \in Thread : pc[t] \in {"move", "create", "add", "merge"}}
    /\ Cardinality(lock) <= 1
    /\ pc \in [Thread -> {"idle", "find", "take", "move", "create", "place", "put", "add", "merge"}]
    /\ at \in [Thread -> 0 .. end - FreeHeader] /\ arg \in [Thread -> Nat]
    /\ calls \in 0 .. MaxCalls

(* Blocks in use and free blocks do not overlap, the free list is linked     *)
(* both ways, and a call that fails is one of mymalloc whose remainder has   *)
(* no place below the break, whatever blocks were taken and freed before     *)
(* and in what order: as long as no thread walks over a block that another   *)
(* has taken meanwhile (the walks at 45 and 83 do not hold the lock), and no *)
(* remainder is too short for its own header (moveFreeHeader).               *)
HeapSound ==
    ~raced /\ ~tight =>
        /\ crashed => \E t \in Thread : PastBreak(t)
        /\ \A b, c \in DOMAIN held : b < c => b + Total(held[b]) <= c
        /\ \A b \in DOMAIN held : b + Total(held[b]) <= end
        /\ lock = {} => \A p \in FreeBlocks :
              /\ (p .. p + size(mem, p) - 1) \cap InUse = {}
              /\ HasNext(mem, p) /\ prev(mem, next(mem, p)) = p

(* mymalloc stands at the end of the list and looks at it over and over.     *)
Spins(t) == pc[t] = "find" /\ next(mem, at[t]) = freep

(* Every call returns, whatever the other threads do between its steps, save *)
(* one of mymalloc that has passed over all blocks (45), one whose remainder *)
(* lies past the break, which ends the program, and one that walks over a    *)
(* block that was taken meanwhile or damaged by a short remainder.           *)
CallsReturn ==
    \A t \in Thread : pc[t] # "idle" ~>
        (pc[t] = "idle" \/ raced \/ tight \/ Spins(t) \/ \E u \in Thread : PastBreak(u))

(* mymemory.c:34 promises "a pointer to the block of memory allocated or     *)
(* NULL if the memory could not be allocated": no call ends the program.     *)
(* One does whose remainder lies past the break, and one that walks over a   *)
(* block another thread is given meanwhile (45).                             *)
NoCallCrashes == ~crashed
=============================================================================
