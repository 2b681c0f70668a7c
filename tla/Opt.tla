--------------------------------- MODULE Opt --------------------------------
(***************************************************************************)
(* The simulator with -a opt (opt.c of CSC369/Virtual Memory): the trace   *)
(* file is read once by opt_init, which notes when each page is used, and  *)
(* replayed afterwards.  The memory manager is that of PageTable.          *)
(***************************************************************************)
EXTENDS PageTable, Sequences

CONSTANT
    EqLine          \* a line that starts with '=' (valgrind's own output)
ASSUME EqLineAssumption == EqLine \notin Page \cup {NoPage}

VARIABLES
    trace,          \* the lines of the trace file
    line,           \* how many of them replay_trace has read
    currTime        \* opt's clock, advanced by every reference

optVars == <<vars, trace, line, currTime>>

-----------------------------------------------------------------------------
(* opt_init and its timelines.                                               *)

(* The value of vaddr when line i is noted: an '=' line leaves it as it was, and
   is noted as one more use of that page.  Before the first reference it is 0. *)
NotedPage(i) ==
    LET at[j \in 0 .. i] == IF j = 0 THEN NoPage
                            ELSE IF trace[j] = EqLine THEN at[j - 1] ELSE trace[j]
    IN  at[i]

(* The timeStamps in p's list, in order: that of the list head in pageArray, which
   memset cleared and which stands for no use, and one per line noted for p. *)
TimeNodes(p) ==
    LET noted == SelectSeq([i \in 1 .. Len(trace) |-> i], LAMBDA i : NotedPage(i) = p)
    IN  <<0>> \o [k \in 1 .. Len(noted) |-> noted[k] - 1]

OptInit ==
    /\ Init
    /\ trace \in [1 .. MaxRefs -> Page \cup {EqLine}]
    /\ line = 0
    /\ currTime = 0

-----------------------------------------------------------------------------
(* opt_evict.                                                                *)

Never == -1

(* nextUse walks to the first node that is last in the list or later than
   currTime, and returns the time of the node after it. *)
nextUse(p) ==
    LET ts     == TimeNodes(p)
        stop   == CHOOSE k \in 1 .. Len(ts) :
                      /\ k = Len(ts) \/ ts[k] > currTime
                      /\ \A j \in 1 .. k - 1 : ts[j] <= currTime
    IN  IF stop = Len(ts) THEN Never ELSE ts[stop + 1]

(* The page opt takes to be in frame f, by the tag it reads in physical memory. *)
NextUseOfFrame(f) == nextUse(physmem[f].vaddr)

UsedLast(f) ==
    \A g \in Frame : \/ NextUseOfFrame(g) < NextUseOfFrame(f)
                     \/ NextUseOfFrame(g) = NextUseOfFrame(f) /\ f <= g

\* Mutant: -1 is compared like a time.
VictimByTime(f) == UsedLast(f)

(* The first frame never used again, else the first one used last. *)
Victim(f) ==
    LET never == {g \in Frame : NextUseOfFrame(g) = Never}
    IN  IF never # {} THEN f \in never /\ \A g \in never : f <= g ELSE UsedLast(f)

-----------------------------------------------------------------------------
(* replay_trace.                                                             *)

Reference(t, p) ==
    /\ line < Len(trace) /\ trace[line + 1] = p
    /\ \/ Hit(t, p)
       \/ \E f \in Frame : MissFree(t, p, f)
       \/ \E f \in Frame :
              /\ AllFramesInUse /\ Victim(f)
              /\ MissEvictClean(t, p, f) \/ \E s \in Slot : MissEvictDirty(t, p, f, s)
    /\ line' = line + 1
    /\ currTime' = currTime + 1
    /\ UNCHANGED trace

SkipEqLine ==
    /\ status = "running"
    /\ line < Len(trace) /\ trace[line + 1] = EqLine
    /\ line' = line + 1
    /\ UNCHANGED <<vars, trace, currTime>>

OptExit ==
    /\ \/ line = Len(trace) /\ EndTrace
       \/ /\ line < Len(trace) /\ trace[line + 1] # EqLine
          /\ \E f \in Frame :
                 /\ AllFramesInUse => Victim(f)
                 /\ SwapFull(trace[line + 1], f) \/ OsError(trace[line + 1], f)
    /\ UNCHANGED <<trace, line, currTime>>

OptNext ==
    \/ \E t \in AccessType, p \in Page : Reference(t, p)
    \/ SkipEqLine
    \/ OptExit

OptSpec == OptInit /\ [][OptNext]_optVars

-----------------------------------------------------------------------------
(* What the code and its README say of opt.                                  *)

EqLines == {i \in 1 .. Len(trace) : trace[i] = EqLine}

(* What is left of optimality: on a trace without '=' lines, a page that will be
   used twice more or oftener is evicted only if every resident page will. *)
UsesLeft(p) == Cardinality({i \in line + 2 .. Len(trace) : trace[i] = p})

OptSparesBusyPages ==
    [][\A v \in valid \ valid' :
           EqLines = {} /\ UsesLeft(v) >= 2 => \A q \in valid : UsesLeft(q) >= 2]_optVars

(* The fewest misses any choice of victims has on the rest of the trace after n
   lines, with the pages S resident. *)
FewestMisses ==
    LET Resident == {S \in SUBSET Page : Cardinality(S) <= memsize}
        LeastOf(C) == CHOOSE c \in C : \A d \in C : c <= d
        fewest[n \in 0 .. Len(trace), S \in Resident] ==
            IF n = Len(trace) THEN 0
            ELSE LET p == trace[n + 1] IN
                 IF p = EqLine \/ p \in S THEN fewest[n + 1, S]
                 ELSE IF Cardinality(S) < memsize THEN 1 + fewest[n + 1, S \cup {p}]
                 ELSE 1 + LeastOf({fewest[n + 1, (S \ {v}) \cup {p}] : v \in S})
    IN  fewest[0, {}]

(* "OPT was, of course, optimal" (README.txt): no eviction policy has fewer misses
   on the trace. *)
OptIsOptimal == status = "done" => miss_count = FewestMisses
=============================================================================
