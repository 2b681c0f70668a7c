------------------------------ MODULE Simulator -----------------------------
(***************************************************************************)
(* The simulator as main in sim.c puts it together: the memory manager of  *)
(* PageTable with the replacement policy that -a selects out of algs[].    *)
(* The first-in first-out, least-recently-used and clock policies are the  *)
(* modules Fifo, Lru and Clock; rand evicts any frame.  (opt, which reads  *)
(* the trace before it is replayed, is module Opt.)                        *)
(*                                                                         *)
(* The policies that were not selected stay in their initial state.        *)
(***************************************************************************)
EXTENDS PageTable

CONSTANT Alg                    \* the policies to choose from
ASSUME AlgAssumption == Alg \subseteq {"rand", "lru", "fifo", "clock"}

VARIABLES
    alg,                        \* init_fcn, ref_fcn and evict_fcn
    csize,                      \* fifo
    stack, stackSize,           \* lru
    refbit, clockHand, sweeping,\* clock
    fault,                      \* the reference waiting for clock_evict
    lastUse, loadedAt,          \* history: when each page was last referenced, loaded
    cold                        \* history: pages not referenced when a sweep began

NoFault == <<>>

fifoVars    == csize
lruVars     == <<stack, stackSize>>
clockVars   == <<refbit, clockHand, sweeping>>
historyVars == <<lastUse, loadedAt, cold>>
simVars     == <<vars, alg, fifoVars, lruVars, clockVars, fault, historyVars>>

Fifo  == INSTANCE Fifo
Lru   == INSTANCE Lru
Clock == INSTANCE Clock

SimInit ==
    /\ Init
    /\ alg \in Alg
    /\ Fifo!Init /\ Lru!Init /\ Clock!Init
    /\ fault = NoFault
    /\ lastUse = [p \in Page |-> 0] /\ loadedAt = [p \in Page |-> 0]
    /\ cold = {}

-----------------------------------------------------------------------------
(* ref_fcn on a hit, on a miss that took free frame f, and on a miss for which
   evict_fcn returned f. *)
Policies(fifo, lru, clock) ==
    \/ alg = "rand"  /\ UNCHANGED <<fifoVars, lruVars, clockVars>>
    \/ alg = "fifo"  /\ fifo  /\ UNCHANGED <<lruVars, clockVars>>
    \/ alg = "lru"   /\ lru   /\ UNCHANGED <<fifoVars, clockVars>>
    \/ alg = "clock" /\ clock /\ UNCHANGED <<fifoVars, lruVars>>

RefOnHit(p, f)   == Policies(Fifo!Hit(f), Lru!Hit(f), Clock!Hit(f, FreshEntries(p)))
RefOnLoad(p, f)  == Policies(Fifo!Load(f), Lru!Load(f), Clock!Load(f, FreshEntries(p)))
RefOnEvict(p, f) == Policies(Fifo!Replace(f), Lru!Replace(f), Clock!Replace(f, FreshEntries(p)))

Victim(f) ==
    CASE alg = "rand"  -> TRUE
      [] alg = "fifo"  -> Fifo!Victim(f)
      [] alg = "lru"   -> Lru!Victim(f)
      [] alg = "clock" -> Clock!Victim(f)

Used(p)   == lastUse' = [lastUse EXCEPT ![p] = ref_count'] /\ UNCHANGED cold
Loaded(p) == loadedAt' = [loadedAt EXCEPT ![p] = ref_count']

(* The reference the process is in the middle of, if it is, is (t, p). *)
Current(t, p) == fault \in {NoFault, <<t, p>>}

SimHit(t, p) ==
    /\ fault = NoFault
    /\ Hit(t, p)
    /\ RefOnHit(p, frame[p])
    /\ Used(p)
    /\ UNCHANGED <<alg, fault, loadedAt>>

SimMissFree(t, p, f) ==
    /\ MissFree(t, p, f)
    /\ RefOnLoad(p, f)
    /\ Used(p) /\ Loaded(p)
    /\ UNCHANGED <<alg, fault>>

SimMissEvict(t, p, f) ==
    /\ Current(t, p)
    /\ Victim(f)
    /\ MissEvictClean(t, p, f) \/ \E s \in Slot : MissEvictDirty(t, p, f, s)
    /\ RefOnEvict(p, f)
    /\ Used(p) /\ Loaded(p)
    /\ fault' = NoFault
    /\ UNCHANGED alg

(* With clock, a fault that finds no free frame enters clock_evict ... *)
StartSweep(t, p) ==
    /\ alg = "clock"
    /\ Miss(p) /\ AllFramesInUse
    /\ Clock!StartSweep
    /\ fault' = <<t, p>>
    /\ cold' = valid \ refbit
    /\ UNCHANGED <<vars, alg, fifoVars, lruVars, lastUse, loadedAt>>

(* ... and passes over frames before it returns one. *)
Sweep ==
    /\ status = "running"
    /\ Clock!Sweep
    /\ UNCHANGED <<vars, alg, fifoVars, lruVars, fault, historyVars>>

SimExit ==
    /\ \/ \E p \in Page, f \in Frame :
              /\ \E t \in AccessType : Current(t, p)
              /\ AllFramesInUse => Victim(f)
              /\ SwapFull(p, f) \/ OsError(p, f)
       \/ fault = NoFault /\ EndTrace
    /\ UNCHANGED <<alg, fifoVars, lruVars, clockVars, fault, historyVars>>

SimNext ==
    \/ \E t \in AccessType, p \in Page : SimHit(t, p)
    \/ \E t \in AccessType, p \in Page, f \in Frame : SimMissFree(t, p, f)
    \/ \E t \in AccessType, p \in Page, f \in Frame : SimMissEvict(t, p, f)
    \/ \E t \in AccessType, p \in Page : StartSweep(t, p)
    \/ Sweep
    \/ SimExit

(* The trace may end after any line, but nothing takes the only thread out of
   clock_evict's loop, or of the fault it was called for. *)
SimSpec == SimInit /\ [][SimNext]_simVars /\ WF_simVars(sweeping /\ SimNext)

-----------------------------------------------------------------------------
(* Properties.                                                               *)

SimTypeOK ==
    /\ alg \in Alg
    /\ csize \in 0 .. memsize
    /\ stack \in [0 .. memsize - 1 -> Int] /\ stackSize \in 0 .. memsize
    /\ refbit \subseteq Page /\ clockHand \in Frame /\ sweeping \in BOOLEAN
    /\ fault \in {NoFault} \cup (AccessType \X Page)

Evicted == valid \ valid'

(* fifo.c keeps one counter and no queue: whatever the hits in between, its
   victim is the page that was loaded longest ago. *)
FifoEvictsOldest ==
    [][alg = "fifo" => \A v \in Evicted, q \in valid : loadedAt[v] <= loadedAt[q]]_simVars

(* "accurate LRU": the victim is the page referenced longest ago, although the
   array is shifted one word past its end and each frame is looked for by a loop
   that goes on after it has removed it. *)
LruEvictsLeastRecent ==
    [][alg = "lru" => \A v \in Evicted, q \in valid : lastUse[v] <= lastUse[q]]_simVars

(* A page used since the hand last passed it is not evicted while some resident
   page was not, wherever the hand starts. *)
ClockSparesUsedPages ==
    [][alg = "clock" /\ cold # {} => Evicted \subseteq cold]_simVars

(* clock_evict returns: its loop has no bound and stops only at a page whose bit
   is off. *)
SweepEnds == sweeping ~> (~sweeping \/ status # "running")
=============================================================================
