------------------------------- MODULE GcList -------------------------------
(***************************************************************************)
(* The mark and sweep collector of CSC209/Garbage Collector (gc.c) under   *)
(* the program that works on a linked list (do_trans.c, list.c).           *)
(*                                                                         *)
(* One thread runs the transactions and collects every PERIOD of them; a   *)
(* SIGUSR1 that arrives anywhere outside of an addition makes it collect   *)
(* on the spot.  The handler runs to its end before the thread goes on, so *)
(* it is one step; so is an addition.  The rest of the thread's code is    *)
(* cut where a collection in between matters: between the statements of an *)
(* allocation, and between the iterations of the collector's loops.  A     *)
(* Mem_chunk and the memory it points to are one chunk.  Logging is left   *)
(* out, and so is what malloc itself does when a signal interrupts it.     *)
(***************************************************************************)
EXTENDS Integers, FiniteSets, Sequences, SequencesExt

CONSTANTS
    Chunk,          \* BOUND: what gc_malloc can return, with its Mem_chunk
    NULL,
    Value,          \* values of list nodes
    PERIOD          \* transactions from one collection to the next (10 in the code)

ASSUME GcAssumption ==
    IsFiniteSet(Chunk) /\ NULL \notin Chunk /\ PERIOD \in Nat \ {0}

VARIABLES
    head,           \* MEMORY_LIST_PTR
    next,           \* next[c]: the next field of c's Mem_chunk
    in_use,         \* chunks whose Mem_chunk says so
    allocated,      \* chunks that were malloc'd and not freed
    ll,             \* the program's list
    value, lnext,   \* fields of its nodes
    pc,             \* what the thread does next
    cur, prev,      \* its local pointers (newChunk, str, curr, chunk, ptr, prev)
    count,          \* transactions since the last collection
    status,         \* "running", "done", "crash": NULL followed, "fault": freed memory used
    left,           \* history: chunks the program cannot reach, after a collection
    raced           \* history: SIGUSR1 arrived in an unprotected allocation or collection

heapVars == <<head, next, in_use, allocated>>
listVars == <<ll, value, lnext>>
mainVars == <<pc, cur, prev, count>>
vars     == <<heapVars, listVars, mainVars, status, left, raced>>

Init ==
    /\ head = NULL
    /\ next = [c \in Chunk |-> NULL]
    /\ in_use = {} /\ allocated = {}
    /\ ll = NULL
    /\ value = [c \in Chunk |-> NULL] /\ lnext = [c \in Chunk |-> NULL]
    /\ pc = "idle" /\ cur = NULL /\ prev = NULL
    /\ count = 1
    /\ status = "running"
    /\ left = {} /\ raced = FALSE

-----------------------------------------------------------------------------
(* Walking linked lists.                                                     *)

(* Where n steps along the field nx lead from p. *)
Walk(p, nx) ==
    LET at[n \in 0 .. Cardinality(Chunk)] ==
            IF n = 0 THEN p ELSE IF at[n - 1] = NULL THEN NULL ELSE nx[at[n - 1]]
    IN  at

(* The walk ends, and all it passes is allocated. *)
Sound(p, nx) ==
    LET at == Walk(p, nx)
    IN  at[Cardinality(Chunk)] = NULL /\ \A n \in DOMAIN at : at[n] \in allocated \cup {NULL}

(* What a walk passes, in order; at most as much as there is. *)
Along(p, nx) ==
    LET at   == Walk(p, nx)
        ends == {n \in 0 .. Cardinality(Chunk) : at[n] = NULL \/ n = Cardinality(Chunk)}
    IN  [n \in 1 .. Min(ends) |-> at[n - 1]]

Chunks == Along(head, next)         \* the collector's list
Nodes  == Along(ll, lnext)          \* the program's list
Live   == ToSet(Nodes)              \* what mark_list reaches

-----------------------------------------------------------------------------
(* The collector, without interruption.                                      *)

\* Mutant: the last node is not marked.
MarkedButLast == IF Nodes = <<>> THEN {} ELSE ToSet(Front(Nodes)) \cap ToSet(Chunks)

(* What reset_chunks and then mark_list leave marked. *)
Marked == Live \cap ToSet(Chunks)

\* Mutant: an unmarked chunk's successor is always passed over.
KeptSkipping(s, marked) ==
    {i \in DOMAIN s : s[i] \in marked \/ (i > 1 /\ s[i - 1] \notin marked)}

(* Where rm_chunks keeps a chunk of the list s.  After removing the head it moves
   on past the new head without having looked at it. *)
Kept(s, marked) == {i \in DOMAIN s : s[i] \in marked \/ (i = 2 /\ s[1] \notin marked)}

(* The chunk of s that follows position i when those at kept are left. *)
After(s, kept, i) ==
    LET later == {j \in kept : i < j}
    IN  IF later = {} THEN NULL ELSE s[Min(later)]

(* Moving on past the head follows NULL when it was the whole list. *)
FollowsNull(s, marked) == Len(s) = 1 /\ s[1] \notin marked

(* The chunks in freed are gone, and what they held with them. *)
Free(freed) ==
    /\ allocated' = allocated \ freed
    /\ value' = [c \in Chunk |-> IF c \in freed THEN NULL ELSE value[c]]
    /\ lnext' = [c \in Chunk |-> IF c \in freed THEN NULL ELSE lnext[c]]

Fails(why) == status' = why /\ UNCHANGED <<heapVars, listVars, mainVars, left, raced>>

-----------------------------------------------------------------------------
(* SIGUSR1: mark_and_sweep(ll, mark_list) in gcSigHandlerList. *)

Handler ==
    /\ status = "running"
    /\ Sound(head, next)
    /\ ~FollowsNull(Chunks, Marked)
    /\ LET s     == Chunks
           kept  == Kept(s, Marked)
           freed == {s[i] : i \in DOMAIN s \ kept}
       IN  /\ head' = After(s, kept, 0)
           /\ next' = [c \in Chunk |->
                  IF c \in freed THEN NULL
                  ELSE IF c \in ToSet(s) THEN After(s, kept, CHOOSE i \in kept : s[i] = c)
                  ELSE next[c]]
           /\ in_use' = (in_use \ ToSet(s)) \cup Marked
           /\ Free(freed)
           /\ left' = {s[i] : i \in kept} \ Live
    /\ raced' = (raced \/ pc \notin {"idle", "unlink"})
    /\ UNCHANGED <<ll, mainVars, status>>

HandlerFails ==
    /\ status = "running"
    /\ \/ ~Sound(head, next) /\ Fails("fault")
       \/ Sound(head, next) /\ FollowsNull(Chunks, Marked) /\ Fails("crash")

-----------------------------------------------------------------------------
(* Transactions.                                                             *)

Goto(label, c) == pc' = label /\ cur' = c

(* After a transaction that leaves first as the head of the collector's list:
   every PERIOD of them mark_and_sweep is called, which begins with reset_chunks. *)
EndTransaction(first) ==
    /\ count' = (count + 1) % PERIOD
    /\ IF count % PERIOD = 0 THEN Goto("reset", first) ELSE Goto("idle", NULL)
    /\ UNCHANGED <<prev, status, raced>>
    /\ left' = {}

(* A line of another kind. *)
BadTransaction ==
    /\ status = "running" /\ pc = "idle"
    /\ EndTransaction(head)
    /\ UNCHANGED <<heapVars, listVars>>

(* The thread reads or writes c, and goes on only if c is still there. *)
Uses(c) == status = "running" /\ c \in allocated

(* "1 v": add_node, with SIGUSR1 blocked throughout. *)
Add(c, v) ==
    /\ status = "running" /\ pc = "idle" /\ c \notin allocated
    /\ allocated' = allocated \cup {c}
    /\ next' = [next EXCEPT ![c] = head] /\ head' = c
    /\ in_use' = in_use \cup {c}
    /\ value' = [value EXCEPT ![c] = v]
    /\ lnext' = [lnext EXCEPT ![c] = ll] /\ ll' = c
    /\ EndTransaction(c)

(* remove_node stops at c, the node before the first one that holds v. *)
Before(c, v) ==
    \E i \in 1 .. Len(Nodes) - 1 :
        c = Nodes[i] /\ value[Nodes[i + 1]] = v /\ \A j \in 1 .. i : value[Nodes[j]] # v

(* "2 v": the node to remove is the first; or there is none; or it is found, and
   unlinked in a later step. *)
DelFirst(v) ==
    /\ status = "running" /\ pc = "idle"
    /\ ll # NULL /\ value[ll] = v
    /\ ll' = lnext[ll]
    /\ EndTransaction(head)
    /\ UNCHANGED <<heapVars, value, lnext>>

DelNothing(v) ==
    /\ status = "running" /\ pc = "idle"
    /\ \A c \in Live : value[c] # v
    /\ EndTransaction(head)
    /\ UNCHANGED <<heapVars, listVars>>

DelFind(v) ==
    /\ status = "running" /\ pc = "idle"
    /\ \E c \in Live : Before(c, v) /\ Goto("unlink", c)
    /\ UNCHANGED <<heapVars, listVars, prev, count, status, left, raced>>

Unlink ==
    /\ pc = "unlink" /\ Uses(cur) /\ Uses(lnext[cur])
    /\ lnext' = [lnext EXCEPT ![cur] = lnext[lnext[cur]]]
    /\ EndTransaction(head)
    /\ UNCHANGED <<heapVars, ll, value>>

(* "3": tostring allocates its buffer with the signal open, fills it, and main
   prints it.  gc_malloc is malloc, the new chunk's next, the list head, and its
   mark, which is not set before: the handler clears it anyhow. *)
PrintMalloc(c) ==
    /\ status = "running" /\ pc = "idle" /\ c \notin allocated
    /\ allocated' = allocated \cup {c}
    /\ Goto("link", c)
    /\ UNCHANGED <<head, next, in_use, listVars, prev, count, status, left, raced>>

PrintLink ==
    /\ pc = "link" /\ Uses(cur)
    /\ next' = [next EXCEPT ![cur] = head]
    /\ Goto("store", cur)
    /\ UNCHANGED <<head, in_use, allocated, listVars, prev, count, status, left, raced>>

PrintStore ==
    /\ pc = "store" /\ Uses(cur)
    /\ head' = cur
    /\ Goto("mark new", cur)
    /\ UNCHANGED <<next, in_use, allocated, listVars, prev, count, status, left, raced>>

PrintMark ==
    /\ pc = "mark new" /\ Uses(cur)
    /\ in_use' = in_use \cup {cur}
    /\ Goto("print", cur)
    /\ UNCHANGED <<head, next, allocated, listVars, prev, count, status, left, raced>>

PrintText ==
    /\ pc = "print" /\ Uses(cur)
    /\ EndTransaction(head)
    /\ UNCHANGED <<heapVars, listVars>>

-----------------------------------------------------------------------------
(* The periodic collection, with the signal open: mark_and_sweep.            *)

ResetOne ==
    /\ pc = "reset" /\ Uses(cur)
    /\ in_use' = in_use \ {cur}
    /\ Goto("reset", next[cur])
    /\ UNCHANGED <<head, next, allocated, listVars, prev, count, status, left, raced>>

ResetDone ==
    /\ status = "running" /\ pc = "reset" /\ cur = NULL
    /\ Goto("mark", ll)
    /\ UNCHANGED <<heapVars, listVars, prev, count, status, left, raced>>

(* mark_list at one node; the search for its chunk in mark_one is one step. *)
MarkOne ==
    /\ pc = "mark" /\ Uses(cur)
    /\ Sound(head, next)
    /\ in_use' = in_use \cup ({cur} \cap ToSet(Chunks))
    /\ Goto("mark", lnext[cur])
    /\ UNCHANGED <<head, next, allocated, listVars, prev, count, status, left, raced>>

MarkDone ==
    /\ status = "running" /\ pc = "mark" /\ cur = NULL
    /\ Goto("sweep", head) /\ prev' = head
    /\ UNCHANGED <<heapVars, listVars, count, status, left, raced>>

(* One iteration of the loop in rm_chunks: the chunk is in use; it is the head of
   the list, and prev is freed; or it is not, and it is freed. *)
SweepKeep ==
    /\ pc = "sweep" /\ Uses(cur) /\ cur \in in_use
    /\ Goto("sweep", next[cur]) /\ prev' = cur
    /\ UNCHANGED <<heapVars, listVars, count, status, left, raced>>

\* Mutant: the head of the list is freed and MEMORY_LIST_PTR is left on it.
SweepHeadBehind ==
    /\ pc = "sweep" /\ Uses(cur) /\ cur \notin in_use /\ cur = head
    /\ Uses(prev) /\ Uses(next[cur])
    /\ Free({prev}) /\ in_use' = in_use \ {prev}
    /\ next' = [next EXCEPT ![prev] = NULL]
    /\ Goto("sweep", next[next[cur]]) /\ prev' = next[cur]
    /\ UNCHANGED <<head, ll, count, status, left, raced>>

SweepHead ==
    /\ pc = "sweep" /\ Uses(cur) /\ cur \notin in_use /\ cur = head
    /\ Uses(prev) /\ Uses(next[cur])
    /\ head' = next[cur]
    /\ Free({prev}) /\ in_use' = in_use \ {prev}
    /\ next' = [next EXCEPT ![prev] = NULL]
    /\ Goto("sweep", next[next[cur]]) /\ prev' = next[cur]
    /\ UNCHANGED <<ll, count, status, left, raced>>

\* Mutant: prev is freed in the place of the chunk.
SweepMiddlePrev ==
    /\ pc = "sweep" /\ Uses(cur) /\ cur \notin in_use /\ cur # head
    /\ Uses(prev)
    /\ next' = [next EXCEPT ![prev] = next[cur], ![cur] = NULL]
    /\ Free({prev})
    /\ Goto("sweep", next[cur])
    /\ UNCHANGED <<head, in_use, ll, prev, count, status, left, raced>>

SweepMiddle ==
    /\ pc = "sweep" /\ Uses(cur) /\ cur \notin in_use /\ cur # head
    /\ Uses(prev)
    /\ next' = [next EXCEPT ![prev] = next[cur], ![cur] = NULL]
    /\ Free({cur})
    /\ Goto("sweep", next[cur])
    /\ UNCHANGED <<head, in_use, ll, prev, count, status, left, raced>>

SweepDone ==
    /\ status = "running" /\ pc = "sweep" /\ cur = NULL
    /\ Sound(head, next)
    /\ Goto("idle", NULL) /\ prev' = NULL
    /\ left' = ToSet(Chunks) \ Live
    /\ UNCHANGED <<heapVars, listVars, count, status, raced>>

(* The step the thread is about to make uses a chunk that has been freed. *)
MainFaults ==
    /\ status = "running"
    /\ \/ pc \notin {"idle"} /\ cur # NULL /\ cur \notin allocated
       \/ pc = "unlink" /\ cur \in allocated /\ lnext[cur] \notin allocated
       \/ pc = "mark" /\ cur \in allocated /\ ~Sound(head, next)
       \/ /\ pc = "sweep" /\ cur \in allocated \ in_use
          /\ \/ prev \notin allocated
             \/ cur = head /\ next[cur] \notin allocated \cup {NULL}
       \/ pc = "sweep" /\ cur = NULL /\ ~Sound(head, next)
    /\ Fails("fault")

(* rm_chunks moves on past the head of a list that is now empty. *)
MainCrashes ==
    /\ pc = "sweep" /\ Uses(cur) /\ cur \notin in_use /\ cur = head
    /\ Uses(prev) /\ next[cur] = NULL
    /\ Fails("crash")

EndOfFile ==
    /\ status = "running" /\ pc = "idle"
    /\ Fails("done")

Main ==
    \/ \E c \in Chunk, v \in Value : Add(c, v)
    \/ \E v \in Value : DelFirst(v) \/ DelNothing(v) \/ DelFind(v)
    \/ BadTransaction \/ Unlink
    \/ \E c \in Chunk : PrintMalloc(c)
    \/ PrintLink \/ PrintStore \/ PrintMark \/ PrintText
    \/ ResetOne \/ ResetDone \/ MarkOne \/ MarkDone
    \/ SweepKeep \/ SweepHead \/ SweepMiddle \/ SweepDone
    \/ MainFaults \/ MainCrashes \/ EndOfFile

Next == Handler \/ HandlerFails \/ Main

Spec == Init /\ [][Next]_vars

-----------------------------------------------------------------------------
(* Properties.                                                               *)

(* The type invariant. *)
GcTypeOK ==
    /\ head \in Chunk \cup {NULL} /\ next \in [Chunk -> Chunk \cup {NULL}]
    /\ in_use \subseteq allocated /\ allocated \subseteq Chunk
    /\ ll \in Chunk \cup {NULL} /\ value \in [Chunk -> Value \cup {NULL}]
    /\ lnext \in [Chunk -> Chunk \cup {NULL}]
    /\ pc \in {"idle", "unlink", "link", "store", "mark new", "print",
              "reset", "mark", "sweep"}
    /\ cur \in Chunk \cup {NULL} /\ prev \in Chunk \cup {NULL}
    /\ count \in 0 .. PERIOD
    /\ status \in {"running", "done", "crash", "fault"}
    /\ left \subseteq Chunk /\ raced \in BOOLEAN

(* A collection never frees what the program can reach: whenever signals
   arrive, the program's list is a list of nodes that exist, and a deletion that
   has found its node still finds it there.  That is why do_trans need not block
   the signal in remove_node. *)
ListSurvives ==
    /\ Sound(ll, lnext)
    /\ pc = "unlink" => {cur, lnext[cur]} \subseteq allocated

(* As long as no signal arrives while main prints or collects, the collector's
   list holds every chunk there is, once, except one that gc_malloc has yet to
   put there: no memory is lost, none is freed twice, nothing freed is used, and
   rm_chunks follows NULL only when it frees the last chunk there is, which a
   program that keeps a node never sees. *)
ChunkListComplete ==
    ~raced =>
        /\ status # "fault" /\ (status = "crash" => ll = NULL /\ next[head] = NULL)
        /\ Sound(head, next)
        /\ ToSet(Chunks) = allocated \ (IF pc \in {"link", "store"} THEN {cur} ELSE {})

(* However many chunks are unused, a collection leaves at most one of them: the
   one that rm_chunks passes over. *)
SweepLeavesAtMostOne == Cardinality(left) <= 1
=============================================================================
