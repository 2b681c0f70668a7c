-------------------------- MODULE SimulatorProofs ---------------------------
(***************************************************************************)
(* The simulator as main puts it together, for any number of pages, frames *)
(* and slots and any trace.  What holds of PageTable holds under every     *)
(* policy, because each step of the simulator is one of PageTable's        *)
(* (EveryStepIsPageTables).  Then what each policy promises.               *)
(*                                                                         *)
(* The policies look at frames, their promises speak of pages: the links   *)
(* are FrameTableConsistent, which PageTableProofs has, and that frames    *)
(* are filled in ascending order (FilledInOrder).                          *)
(***************************************************************************)
EXTENDS Simulator, PageTableProofs, WellFoundedInduction

-----------------------------------------------------------------------------
(* The simulator is the memory manager under some choice of victims.         *)

LEMMA MissesArePageTables ==
    ASSUME NEW t \in AccessType, NEW p \in Page, NEW f \in Frame
    PROVE  /\ MissFree(t, p, f) => Next
           /\ MissEvictClean(t, p, f) => Next
           /\ \A s \in Slot : MissEvictDirty(t, p, f, s) => Next
BY DEF Next

LEMMA SimNextIsNext == [SimNext]_simVars => [Next]_vars
<1> SUFFICES ASSUME [SimNext]_simVars PROVE [Next]_vars
  OBVIOUS
<1>1. ASSUME NEW t \in AccessType, NEW p \in Page, SimHit(t, p) PROVE Next
  BY <1>1 DEF SimHit, Next
<1>2. ASSUME NEW t \in AccessType, NEW p \in Page, NEW f \in Frame, SimMissFree(t, p, f) PROVE Next
  BY <1>2, MissesArePageTables DEF SimMissFree
<1>3. ASSUME NEW t \in AccessType, NEW p \in Page, NEW f \in Frame, SimMissEvict(t, p, f) PROVE Next
  BY <1>3, MissesArePageTables DEF SimMissEvict
<1>4. ASSUME NEW t \in AccessType, NEW p \in Page, StartSweep(t, p) PROVE UNCHANGED vars
  BY <1>4 DEF StartSweep
<1>5. CASE Sweep
  BY <1>5 DEF Sweep
<1>6. CASE SimExit
  BY <1>6 DEF SimExit, Next
<1>7. CASE UNCHANGED simVars
  BY <1>7 DEF simVars
<1> QED BY <1>1, <1>2, <1>3, <1>4, <1>5, <1>6, <1>7 DEF SimNext

(* Whatever policy -a selects, the simulator is PageTable. *)
THEOREM EveryStepIsPageTables == SimSpec => Spec
<1>1. SimInit => Init
  BY DEF SimInit
<1> QED BY <1>1, SimNextIsNext, PTL DEF SimSpec, Spec

(* So paging is invisible to the trace under fifo, lru and clock, too. *)
THEOREM PoliciesAreInvisible == SimSpec => ImplementsFlatMemory
BY EveryStepIsPageTables, PagingIsInvisible

-----------------------------------------------------------------------------
(* What a reference does to frames and pages.                                *)

(* Page p, which is in memory, is referenced. *)
Refers(p) ==
    /\ p \in valid
    /\ ref_count' = ref_count + 1
    /\ lastUse' = [lastUse EXCEPT ![p] = ref_count + 1]
    /\ UNCHANGED <<coremap, valid, frame, alg, loadedAt>>

(* Page p, which is not, is brought to frame f. *)
Installs(p, f) ==
    /\ p \notin valid
    /\ coremap' = [coremap EXCEPT ![f] = p]
    /\ frame' = [frame EXCEPT ![p] = f]
    /\ valid' = (valid \ {coremap[f]}) \cup {p}
    /\ ref_count' = ref_count + 1
    /\ lastUse' = [lastUse EXCEPT ![p] = ref_count + 1]
    /\ loadedAt' = [loadedAt EXCEPT ![p] = ref_count + 1]
    /\ UNCHANGED <<alg>>

LEMMA HitRefers ==
    ASSUME IInv, NEW t \in AccessType, NEW p \in Page, SimHit(t, p)
    PROVE  Refers(p)
<1>1. TableValid(p) = valid /\ TableFrame(p) = frame
  BY FreshEntriesAreEmpty DEF IInv
<1> QED BY <1>1 DEF SimHit, Hit, Used, Observe, Refers

LEMMA MissFreeInstalls ==
    ASSUME IInv, NEW t \in AccessType, NEW p \in Page, NEW f \in Frame, SimMissFree(t, p, f)
    PROVE  Installs(p, f) /\ FirstFree(f)
<1>1. MissStep(t, p, f) /\ FirstFree(f)
  BY MissFreeIsMissStep DEF SimMissFree, MissFree
<1> QED BY <1>1 DEF SimMissFree, MissStep, Used, Loaded, Installs

LEMMA MissEvictInstalls ==
    ASSUME IInv, NEW t \in AccessType, NEW p \in Page, NEW f \in Frame, SimMissEvict(t, p, f)
    PROVE  Installs(p, f) /\ AllFramesInUse /\ Victim(f)
<1>1. MissStep(t, p, f)
  BY MissEvictCleanIsMissStep, MissEvictDirtyIsMissStep DEF SimMissEvict
<1>2. AllFramesInUse /\ Victim(f)
  BY DEF SimMissEvict, MissEvictClean, MissEvictDirty
<1> QED BY <1>1, <1>2 DEF SimMissEvict, MissStep, Used, Loaded, Installs

(* Every other step leaves all of that alone. *)
Idles == UNCHANGED <<coremap, valid, frame, ref_count, alg, lastUse, loadedAt>>

LEMMA OthersIdle ==
    /\ (\E t \in AccessType, p \in Page : StartSweep(t, p)) => Idles
    /\ Sweep => Idles
    /\ SimExit => Idles
    /\ UNCHANGED simVars => Idles
<1>1. (\E t \in AccessType, p \in Page : StartSweep(t, p)) => Idles
  BY DEF StartSweep, Idles, vars, tableVars, memVars, countVars
<1>2. Sweep => Idles
  BY DEF Sweep, Idles, vars, tableVars, memVars, countVars, historyVars
<1>3. SimExit => Idles
  BY DEF SimExit, Idles, SwapFull, OsError, EndTrace, ExitWith, tableVars, memVars, countVars, historyVars
<1>4. UNCHANGED simVars => Idles
  BY DEF simVars, Idles, vars, tableVars, memVars, countVars, historyVars
<1> QED BY <1>1, <1>2, <1>3, <1>4
-----------------------------------------------------------------------------
(* Frames are filled in ascending order, and nothing was used in the future. *)

FilledInOrder == \A f, g \in Frame : g < f /\ coremap[f] # NoPage => coremap[g] # NoPage

HistoryOK ==
    /\ lastUse \in [Page -> Nat] /\ loadedAt \in [Page -> Nat]
    /\ \A p \in Page : lastUse[p] <= ref_count /\ loadedAt[p] <= ref_count

CommonInv == IInv /\ FilledInOrder /\ HistoryOK /\ alg \in Alg

LEMMA CommonInit == SimInit => CommonInv
<1> SUFFICES ASSUME SimInit PROVE CommonInv
  OBVIOUS
<1>1. IInv
  BY InitInv DEF SimInit
<1>2. FilledInOrder /\ HistoryOK /\ alg \in Alg
  BY DEF SimInit, Init, FilledInOrder, HistoryOK
<1> QED BY <1>1, <1>2 DEF CommonInv

LEMMA RefersCommon ==
    ASSUME CommonInv, NEW p \in Page, Refers(p)
    PROVE  (FilledInOrder /\ HistoryOK /\ alg \in Alg)'
<1>1. ref_count \in Nat
  BY DEF CommonInv, IInv, TypeOK
<1>2. FilledInOrder' /\ alg' \in Alg
  BY DEF CommonInv, FilledInOrder, Refers
<1>3. HistoryOK'
  BY <1>1 DEF CommonInv, HistoryOK, Refers
<1> QED BY <1>2, <1>3

LEMMA InstallsCommon ==
    ASSUME CommonInv, NEW p \in Page, NEW f \in Frame, Installs(p, f),
           FirstFree(f) \/ AllFramesInUse
    PROVE  (FilledInOrder /\ HistoryOK /\ alg \in Alg)'
<1>1. ref_count \in Nat /\ coremap \in [Frame -> Page \cup {NoPage}] /\ p # NoPage
  BY PageAssumption DEF CommonInv, IInv, TypeOK
<1>2. coremap' = [coremap EXCEPT ![f] = p] /\ alg' \in Alg
  BY DEF Installs, CommonInv
<1>3. FilledInOrder'
  <2> SUFFICES ASSUME NEW h \in Frame, NEW g \in Frame, g < h, coremap'[h] # NoPage
               PROVE  coremap'[g] # NoPage
    BY DEF FilledInOrder
  <2>1. CASE FirstFree(f)
    <3>1. \A k \in Frame : coremap[k] = NoPage => f <= k
      BY <2>1 DEF FirstFree, FreeFrames
    <3>2. CASE h = f
      BY <1>1, <1>2, <3>1, <3>2 DEF Frame
    <3>3. CASE h # f
      BY <1>1, <1>2, <3>3 DEF CommonInv, FilledInOrder
    <3> QED BY <3>2, <3>3
  <2>2. CASE AllFramesInUse
    BY <1>1, <1>2, <2>2 DEF AllFramesInUse, FreeFrames
  <2> QED BY <2>1, <2>2
<1>4. HistoryOK'
  BY <1>1 DEF CommonInv, HistoryOK, Installs
<1> QED BY <1>2, <1>3, <1>4

LEMMA CommonNext == CommonInv /\ [SimNext]_simVars => CommonInv'
<1> SUFFICES ASSUME CommonInv, [SimNext]_simVars PROVE CommonInv'
  OBVIOUS
<1>1. IInv'
  BY SimNextIsNext, NextInv DEF CommonInv
<1> USE DEF CommonInv
<1>2. ASSUME NEW t \in AccessType, NEW p \in Page, SimHit(t, p) PROVE CommonInv'
  BY <1>1, <1>2, HitRefers, RefersCommon
<1>3. ASSUME NEW t \in AccessType, NEW p \in Page, NEW f \in Frame, SimMissFree(t, p, f)
      PROVE  CommonInv'
  BY <1>1, <1>3, MissFreeInstalls, InstallsCommon
<1>4. ASSUME NEW t \in AccessType, NEW p \in Page, NEW f \in Frame, SimMissEvict(t, p, f)
      PROVE  CommonInv'
  BY <1>1, <1>4, MissEvictInstalls, InstallsCommon
<1>5. CASE Idles
  BY <1>1, <1>5 DEF Idles, FilledInOrder, HistoryOK
<1> QED BY <1>2, <1>3, <1>4, <1>5, OthersIdle DEF SimNext

-----------------------------------------------------------------------------
(* fifo                                                                      *)

(* The order in which Fifo comes round to the frames. *)
ComesBefore(f, g) ==
    LET next == Fifo!NextVictim
    IN  \/ next <= f /\ (f < g \/ g < next)
        \/ f < g /\ g < next

(* Pages were loaded in the order of their frames: no queue is needed. *)
FifoInv ==
    alg = "fifo" =>
        /\ csize \in 0 .. memsize
        /\ FreeFrames # {} => csize = 0
        /\ \A f, g \in Frame : coremap[f] # NoPage /\ coremap[g] # NoPage /\ ComesBefore(f, g) =>
               loadedAt[coremap[f]] < loadedAt[coremap[g]]

LEMMA FifoInit == SimInit => FifoInv
BY MemsizeAssumption DEF SimInit, Init, FifoInv, Fifo!Init

LEMMA FifoLoad ==
    ASSUME CommonInv, FifoInv, alg = "fifo", NEW p \in Page, NEW f \in Frame,
           Installs(p, f), FirstFree(f), UNCHANGED csize
    PROVE  FifoInv'
<1>1. /\ coremap \in [Frame -> Page \cup {NoPage}] /\ ref_count \in Nat
      /\ loadedAt \in [Page -> Nat] /\ p # NoPage /\ memsize \in Nat \ {0}
  BY PageAssumption, MemsizeAssumption DEF CommonInv, IInv, TypeOK, HistoryOK
<1>2. /\ coremap' = [coremap EXCEPT ![f] = p]
      /\ loadedAt' = [loadedAt EXCEPT ![p] = ref_count + 1]
      /\ alg' = alg
  BY DEF Installs
<1>3. csize = 0 /\ f \in FreeFrames
  BY DEF FirstFree, FifoInv
<1>4. Fifo!NextVictim = 0 /\ Fifo!NextVictim' = 0
  BY <1>1, <1>3 DEF Fifo!NextVictim
<1>5. ASSUME NEW g \in Frame, NEW h \in Frame, coremap'[g] # NoPage, coremap'[h] # NoPage,
             ComesBefore(g, h)'
      PROVE  loadedAt'[coremap'[g]] < loadedAt'[coremap'[h]]
  <2>1. g < h /\ ComesBefore(g, h)
    BY <1>4, <1>5 DEF ComesBefore, Frame
  <2>2. g # f
    <3>1. \A k \in Frame : f < k => coremap[k] = NoPage
      BY <1>3 DEF CommonInv, FilledInOrder, FreeFrames
    <3> QED BY <1>1, <1>2, <1>5, <2>1, <3>1 DEF Frame
  <2>3. coremap[g] # NoPage /\ coremap[g] # p /\ coremap[g] \in Page /\ coremap'[g] = coremap[g]
    BY <1>1, <1>2, <1>5, <2>2 DEF CommonInv, IInv, FrameTableConsistent, Installs
  <2>4. CASE h = f
    BY <1>1, <1>2, <2>3, <2>4 DEF CommonInv, HistoryOK
  <2>5. CASE h # f
    <3>1. coremap[h] # NoPage /\ coremap[h] # p /\ coremap[h] \in Page /\ coremap'[h] = coremap[h]
      BY <1>1, <1>2, <1>5, <2>5 DEF CommonInv, IInv, FrameTableConsistent, Installs
    <3> QED BY <1>1, <1>2, <2>1, <2>3, <3>1 DEF FifoInv
  <2> QED BY <2>4, <2>5
<1>6. csize' \in 0 .. memsize /\ csize' = 0
  BY <1>1, <1>3
<1> QED BY <1>5, <1>6 DEF FifoInv

LEMMA FifoReplace ==
    ASSUME CommonInv, FifoInv, alg = "fifo", NEW p \in Page, NEW f \in Frame,
           Installs(p, f), AllFramesInUse, Fifo!Replace(f)
    PROVE  FifoInv'
<1>1. /\ coremap \in [Frame -> Page \cup {NoPage}] /\ ref_count \in Nat
      /\ loadedAt \in [Page -> Nat] /\ p # NoPage /\ memsize \in Nat \ {0} /\ csize \in 0 .. memsize
  BY PageAssumption, MemsizeAssumption DEF CommonInv, IInv, TypeOK, HistoryOK, FifoInv
<1>2. /\ coremap' = [coremap EXCEPT ![f] = p]
      /\ loadedAt' = [loadedAt EXCEPT ![p] = ref_count + 1]
      /\ alg' = alg
  BY DEF Installs
<1>3. f = Fifo!NextVictim /\ csize' = f + 1
  BY DEF Fifo!Replace, Fifo!Victim
<1>4. Fifo!NextVictim' = IF f = memsize - 1 THEN 0 ELSE f + 1
  BY <1>1, <1>3 DEF Fifo!NextVictim, Frame
<1>5. ASSUME NEW g \in Frame, NEW h \in Frame, ComesBefore(g, h)'
      PROVE  loadedAt'[coremap'[g]] < loadedAt'[coremap'[h]]
  <2>1. g # f /\ (h # f => ComesBefore(g, h))
    BY <1>1, <1>3, <1>4, <1>5 DEF ComesBefore, Frame
  <2>2. coremap[g] # NoPage /\ coremap[h] # NoPage
    BY DEF AllFramesInUse, FreeFrames
  <2>3. coremap[g] # p /\ coremap[g] \in Page /\ coremap'[g] = coremap[g]
    BY <1>1, <1>2, <2>1, <2>2 DEF CommonInv, IInv, FrameTableConsistent, Installs
  <2>4. CASE h = f
    BY <1>1, <1>2, <2>3, <2>4 DEF CommonInv, HistoryOK
  <2>5. CASE h # f
    <3>1. coremap[h] # p /\ coremap[h] \in Page /\ coremap'[h] = coremap[h]
      BY <1>1, <1>2, <2>2, <2>5 DEF CommonInv, IInv, FrameTableConsistent, Installs
    <3> QED BY <1>1, <1>2, <2>1, <2>2, <2>3, <2>5, <3>1 DEF FifoInv
  <2> QED BY <2>4, <2>5
<1>6. csize' \in 0 .. memsize
  BY <1>1, <1>3 DEF Frame
<1>7. FreeFrames' = {}
  BY <1>1, <1>2 DEF AllFramesInUse, FreeFrames
<1> QED BY <1>5, <1>6, <1>7 DEF FifoInv

LEMMA FifoNext == CommonInv /\ FifoInv /\ [SimNext]_simVars => FifoInv'
<1> SUFFICES ASSUME CommonInv, FifoInv, [SimNext]_simVars, alg = "fifo", alg' = "fifo"
             PROVE  FifoInv'
  <2>1. ASSUME CommonInv, [SimNext]_simVars PROVE alg' = alg
    BY <2>1, OthersIdle
       DEF SimNext, SimHit, SimMissFree, SimMissEvict, Idles
  <2> QED BY <2>1 DEF FifoInv
<1>1. IInv
  BY DEF CommonInv
<1>2. ASSUME NEW t \in AccessType, NEW p \in Page, SimHit(t, p) PROVE FifoInv'
  <2>1. Refers(p)
    BY <1>1, <1>2, HitRefers
  <2>2. UNCHANGED csize
    BY <1>2 DEF SimHit, RefOnHit, Policies, Fifo!Hit
  <2> QED BY <2>1, <2>2
      DEF FifoInv, Refers, FreeFrames, ComesBefore, Fifo!NextVictim
<1>3. ASSUME NEW t \in AccessType, NEW p \in Page, NEW f \in Frame, SimMissFree(t, p, f)
      PROVE  FifoInv'
  <2>1. Installs(p, f) /\ FirstFree(f)
    BY <1>1, <1>3, MissFreeInstalls
  <2>2. UNCHANGED csize
    BY <1>3 DEF SimMissFree, RefOnLoad, Policies, Fifo!Load
  <2> QED BY <2>1, <2>2, FifoLoad
<1>4. ASSUME NEW t \in AccessType, NEW p \in Page, NEW f \in Frame, SimMissEvict(t, p, f)
      PROVE  FifoInv'
  <2>1. Installs(p, f) /\ AllFramesInUse
    BY <1>1, <1>4, MissEvictInstalls
  <2>2. Fifo!Replace(f)
    BY <1>4 DEF SimMissEvict, RefOnEvict, Policies
  <2> QED BY <2>1, <2>2, FifoReplace
<1>5. CASE \/ \E t \in AccessType, p \in Page : StartSweep(t, p)
           \/ Sweep \/ SimExit \/ UNCHANGED simVars
  <2>1. Idles
    BY <1>5, OthersIdle
  <2>2. UNCHANGED csize
    BY <1>5 DEF StartSweep, Sweep, SimExit, simVars, fifoVars
  <2> QED BY <2>1, <2>2
      DEF FifoInv, Idles, FreeFrames, ComesBefore, Fifo!NextVictim
<1> QED BY <1>2, <1>3, <1>4, <1>5 DEF SimNext

(* Only a miss that found no free frame evicts, and it evicts the page in the
   frame that its policy chose. *)
LEMMA OnlyVictimsLeave ==
    ASSUME CommonInv, [SimNext]_simVars, NEW v \in Evicted
    PROVE  /\ AllFramesInUse
           /\ \E f \in Frame : Victim(f) /\ v = coremap[f] /\ v \in valid
<1>1. IInv /\ v \in valid /\ v \notin valid'
  BY DEF CommonInv, Evicted
<1>2. ASSUME NEW t \in AccessType, NEW p \in Page, SimHit(t, p) PROVE FALSE
  BY <1>1, <1>2, HitRefers DEF Refers
<1>3. ASSUME NEW t \in AccessType, NEW p \in Page, NEW f \in Frame, SimMissFree(t, p, f)
      PROVE  FALSE
  BY <1>1, <1>3, MissFreeInstalls, PageAssumption DEF Installs, FirstFree, FreeFrames, IInv, TypeOK
<1>4. ~Idles
  BY <1>1 DEF Idles
<1>5. PICK t \in AccessType, p \in Page, f \in Frame : SimMissEvict(t, p, f)
  BY <1>2, <1>3, <1>4, OthersIdle DEF SimNext
<1>6. Installs(p, f) /\ AllFramesInUse /\ Victim(f)
  BY <1>1, <1>5, MissEvictInstalls
<1> QED BY <1>1, <1>6 DEF Installs

(* Every page in memory is in a frame. *)
LEMMA ResidentHasFrame ==
    ASSUME IInv, NEW q \in valid
    PROVE  frame[q] \in Frame /\ coremap[frame[q]] = q /\ q \in Page /\ q # NoPage
BY PageAssumption DEF IInv, TypeOK, FrameTableConsistent

(* fifo.c keeps one counter and no queue, and evicts the page that was loaded
   longest ago all the same. *)
THEOREM FifoIsFirstInFirstOut == SimSpec => FifoEvictsOldest
<1>1. CommonInv /\ FifoInv /\ [SimNext]_simVars =>
        [alg = "fifo" => \A v \in Evicted, q \in valid : loadedAt[v] <= loadedAt[q]]_simVars
  <2> SUFFICES ASSUME CommonInv, FifoInv, [SimNext]_simVars, alg = "fifo",
                      NEW v \in Evicted, NEW q \in valid
               PROVE  loadedAt[v] <= loadedAt[q]
    OBVIOUS
  <2>1. PICK f \in Frame : Victim(f) /\ v = coremap[f] /\ v \in valid
    BY OnlyVictimsLeave
  <2>2. f = Fifo!NextVictim
    BY <2>1 DEF Victim, Fifo!Victim
  <2> DEFINE g == frame[q]
  <2>3. g \in Frame /\ coremap[g] = q /\ q \in Page /\ q # NoPage /\ v \in Page /\ v # NoPage
    BY <2>1, ResidentHasFrame DEF CommonInv
  <2>4. loadedAt[v] \in Nat /\ loadedAt[q] \in Nat
    BY <2>3 DEF CommonInv, HistoryOK
  <2>5. CASE g = f
    BY <2>1, <2>3, <2>4, <2>5
  <2>6. CASE g # f
    <3>1. ComesBefore(f, g)
      BY <2>2, <2>3, <2>6 DEF ComesBefore, Frame
    <3> QED BY <2>1, <2>3, <2>4, <3>1 DEF FifoInv
  <2> QED BY <2>5, <2>6
<1> QED BY <1>1, CommonInit, CommonNext, FifoInit, FifoNext, PTL DEF SimSpec, FifoEvictsOldest

-----------------------------------------------------------------------------
(* lru: the array of frames.                                                 *)

(* A set of natural numbers that is not empty has a least member. *)
LEMMA LeastMember ==
    ASSUME NEW I \in SUBSET Nat, I # {}
    PROVE  \E m \in I : \A n \in I : m <= n
<1> DEFINE less == {ss \in Nat \X Nat : ss[1] < ss[2]}
<1>1. IsWellFoundedOn(less, Nat)
  BY NatLessThanWellFounded, Zenon DEF OpToRel
<1>2. PICK m \in I : \A n \in I : ~(<<n, m>> \in less)
  BY <1>1, WFMin
<1>3. \A a, b \in Nat : a < b => <<a, b>> \in less
  OBVIOUS
<1> HIDE DEF less
<1>4. ASSUME NEW n \in I PROVE m <= n
  <2>1. n \in Nat /\ m \in Nat
    OBVIOUS
  <2>2. ~(n < m)
    BY <1>2, <1>3, <2>1, Zenon
  <2> QED BY <2>1, <2>2
<1> QED BY <1>4

(* The loop of stackPush that goes on after it has removed e does what one that
   stops there would do: k is the place of e, or the end of the stack. *)
LEMMA StackWithoutIs ==
    ASSUME NEW a \in [Lru!Word -> Int], NEW n \in 0 .. memsize, NEW e, NEW junk,
           NEW k \in 0 .. n, \A i \in 0 .. n - 1 : a[i] = e <=> i = k
    PROVE  Lru!StackWithout(Lru!Stack(a, n), e, junk) =
               IF k < n THEN Lru!stackShift(Lru!Stack(a, n), k, junk) ELSE Lru!Stack(a, n)
<1> DEFINE s == Lru!Stack(a, n)
           without == IF k < n THEN Lru!stackShift(s, k, junk) ELSE s
           Turn(removed, i) ==
               IF i = 0 THEN s
               ELSE LET r == removed[i - 1]
                    IN  IF i - 1 < r.n /\ r.a[i - 1] = e THEN Lru!stackShift(r, i - 1, junk) ELSE r
           g == [i \in 0 .. memsize |-> IF i > k THEN without ELSE s]
           f == CHOOSE removed : removed = [i \in 0 .. memsize |-> Turn(removed, i)]
<1>1. g = [i \in 0 .. memsize |-> Turn(g, i)]
  <2> SUFFICES ASSUME NEW i \in 0 .. memsize PROVE g[i] = Turn(g, i)
    OBVIOUS
  <2>1. CASE i = 0
    BY <2>1
  <2>2. CASE i > 0 /\ i <= k
    <3>1. g[i - 1] = s /\ g[i] = s
      BY <2>2, MemsizeAssumption
    <3>2. i - 1 \in 0 .. n - 1 /\ i - 1 # k /\ s.a = a /\ s.n = n
      BY <2>2, MemsizeAssumption DEF Lru!Stack
    <3> QED BY <2>2, <3>1, <3>2
  <2>3. CASE i > 0 /\ i - 1 = k
    <3>1. g[i - 1] = s /\ g[i] = without
      BY <2>3, MemsizeAssumption
    <3>2. s.a = a /\ s.n = n
      BY DEF Lru!Stack
    <3> QED BY <2>3, <3>1, <3>2
  <2>4. CASE i > 0 /\ i - 1 > k
    <3>1. g[i - 1] = without /\ g[i] = without
      BY <2>4, MemsizeAssumption
    <3>2. CASE k < n
      <4>1. without.n = n - 1
        BY <3>2 DEF Lru!stackShift, Lru!Stack
      <4>2. i - 1 < n - 1 => without.a[i - 1] = a[i]
        BY <2>4, <3>2, MemsizeAssumption DEF Lru!stackShift, Lru!Stack, Lru!Word
      <4>3. i < n => a[i] # e
        BY <2>4, MemsizeAssumption
      <4> HIDE DEF without
      <4> QED BY <2>4, <3>1, <4>1, <4>2, <4>3, MemsizeAssumption
    <3>3. CASE k = n
      BY <2>4, <3>1, <3>3, MemsizeAssumption DEF Lru!Stack
    <3> QED BY <3>2, <3>3
  <2> QED BY <2>1, <2>2, <2>3, <2>4
<1>2. f = [i \in 0 .. memsize |-> Turn(f, i)]
  BY <1>1
<1>3. Lru!StackWithout(s, e, junk) = f[memsize]
  BY DEF Lru!StackWithout
<1>4. ASSUME NEW i \in 0 .. memsize, f[i] # g[i] PROVE FALSE
  <2> DEFINE D == {j \in 0 .. memsize : f[j] # g[j]}
  <2> HIDE DEF f, g
  <2>1. D # {} /\ D \in SUBSET Nat
    BY <1>4
  <2>2. PICK m \in D : \A j \in D : m <= j
    BY <2>1, LeastMember
  <2>3. f[m] = Turn(f, m) /\ g[m] = Turn(g, m)
    BY <1>1, <1>2, <2>2
  <2>4. m > 0 => f[m - 1] = g[m - 1]
    BY <2>2, MemsizeAssumption
  <2>5. Turn(f, m) = Turn(g, m)
    BY <2>2, <2>4
  <2> QED BY <2>2, <2>3, <2>5
<1>5. g[memsize] = without
  BY MemsizeAssumption
<1>6. f[memsize] = g[memsize]
  <2> HIDE DEF f, g
  <2> QED BY <1>4, MemsizeAssumption
<1> QED BY <1>3, <1>5, <1>6

(* What stackPush does to a stack that holds e at k, and to one that does not
   hold it. *)
LEMMA PushPresent ==
    ASSUME NEW a \in [Lru!Word -> Int], NEW n \in 0 .. memsize, NEW e, NEW junk,
           NEW k \in 0 .. n - 1, \A i \in 0 .. n - 1 : a[i] = e <=> i = k
    PROVE  Lru!stackPush(Lru!Stack(a, n), e, junk) =
               Lru!Stack([i \in Lru!Word |-> IF i < k \/ i >= n THEN a[i]
                                             ELSE IF i = n - 1 THEN e ELSE a[i + 1]], n)
<1> DEFINE r == Lru!StackWithout(Lru!Stack(a, n), e, junk)
           sh == Lru!stackShift(Lru!Stack(a, n), k, junk)
           pushed == [i \in Lru!Word |-> IF i < k \/ i >= n THEN a[i]
                                         ELSE IF i = n - 1 THEN e ELSE a[i + 1]]
<1>1. r = sh
  BY StackWithoutIs
<1>2. /\ sh.n = n - 1
      /\ sh.a = [i \in Lru!Word |-> IF i < k \/ i >= n THEN a[i]
                                    ELSE IF i + 1 = memsize THEN junk ELSE a[i + 1]]
  BY DEF Lru!stackShift, Lru!Stack
<1>3. [sh.a EXCEPT ![n - 1] = e] = pushed
  <2> DEFINE w == [i \in Lru!Word |-> IF i < k \/ i >= n THEN a[i]
                                      ELSE IF i + 1 = memsize THEN junk ELSE a[i + 1]]
  <2>1. sh.a = w
    BY <1>2
  <2>2. [w EXCEPT ![n - 1] = e] = [i \in Lru!Word |-> IF i = n - 1 THEN e ELSE w[i]]
    <3> HIDE DEF w
    <3>1. DOMAIN w = Lru!Word
      BY DEF w
    <3> QED BY <3>1
  <2>3. ASSUME NEW i \in Lru!Word
        PROVE  (IF i = n - 1 THEN e ELSE w[i]) = pushed[i]
    BY MemsizeAssumption DEF Lru!Word
  <2> HIDE DEF w, sh
  <2> QED BY <2>1, <2>2, <2>3
<1> HIDE DEF sh, r, pushed
<1>4. Lru!stackPush(Lru!Stack(a, n), e, junk) = Lru!Stack([sh.a EXCEPT ![sh.n] = e], sh.n + 1)
  <2>1. sh.n # memsize
    BY <1>2, MemsizeAssumption
  <2> QED BY <1>1, <2>1 DEF Lru!stackPush, r
<1>5. sh.n + 1 = n
  BY <1>2, MemsizeAssumption
<1> QED BY <1>2, <1>3, <1>4, <1>5 DEF pushed

LEMMA PushAbsent ==
    ASSUME NEW a \in [Lru!Word -> Int], NEW n \in 0 .. memsize - 1, NEW e, NEW junk,
           \A i \in 0 .. n - 1 : a[i] # e
    PROVE  Lru!stackPush(Lru!Stack(a, n), e, junk) = Lru!Stack([a EXCEPT ![n] = e], n + 1)
<1>1. Lru!StackWithout(Lru!Stack(a, n), e, junk) = Lru!Stack(a, n)
  <2>1. n \in 0 .. n /\ \A i \in 0 .. n - 1 : a[i] = e <=> i = n
    OBVIOUS
  <2> QED BY <2>1, StackWithoutIs, MemsizeAssumption
<1>2. Lru!Stack(a, n).n = n /\ Lru!Stack(a, n).a = a /\ n # memsize
  BY MemsizeAssumption DEF Lru!Stack
<1> QED BY <1>1, <1>2 DEF Lru!stackPush

(* lru_evict takes the frame off the front of a full stack, and lru_ref puts the
   same frame at the end. *)
LEMMA EvictAndPush ==
    ASSUME NEW a \in [Lru!Word -> Int], NEW junk \in Int,
           \A i \in 1 .. memsize - 1 : a[i] # a[0]
    PROVE  Lru!stackPush(Lru!stackShift(Lru!Stack(a, memsize), 0, junk), a[0], junk) =
               Lru!Stack([i \in Lru!Word |-> IF i = memsize - 1 THEN a[0] ELSE a[i + 1]], memsize)
<1> DEFINE b == [i \in Lru!Word |-> IF i + 1 = memsize THEN junk ELSE a[i + 1]]
           last == memsize - 1
<1>1. Lru!stackShift(Lru!Stack(a, memsize), 0, junk) = Lru!Stack(b, last)
  BY MemsizeAssumption DEF Lru!stackShift, Lru!Stack, Lru!Word
<1>2. b \in [Lru!Word -> Int] /\ \A i \in 0 .. last - 1 : b[i] # a[0]
  BY MemsizeAssumption DEF Lru!Word
<1>3. [b EXCEPT ![last] = a[0]] =
          [i \in Lru!Word |-> IF i = memsize - 1 THEN a[0] ELSE a[i + 1]]
  <2>1. ASSUME NEW i \in Lru!Word
        PROVE  (IF i = last THEN a[0] ELSE b[i]) = IF i = memsize - 1 THEN a[0] ELSE a[i + 1]
    BY MemsizeAssumption DEF Lru!Word
  <2>2. DOMAIN b = Lru!Word
    OBVIOUS
  <2> HIDE DEF b
  <2>3. [b EXCEPT ![last] = a[0]] = [i \in Lru!Word |-> IF i = last THEN a[0] ELSE b[i]]
    BY <2>2
  <2> QED BY <2>1, <2>3
<1>4. last \in 0 .. memsize - 1 /\ last + 1 = memsize
  BY MemsizeAssumption
<1> HIDE DEF b, last
<1>5. Lru!stackPush(Lru!Stack(b, last), a[0], junk) = Lru!Stack([b EXCEPT ![last] = a[0]], last + 1)
  BY <1>2, <1>4, PushAbsent
<1> QED BY <1>1, <1>3, <1>4, <1>5
(* The array holds the frames in use, in the order in which their pages were
   last referenced. *)
LruInv ==
    /\ stack \in [Lru!Word -> Int] /\ stackSize \in 0 .. memsize
    /\ alg = "lru" =>
        /\ \A f \in Frame : coremap[f] # NoPage <=> f < stackSize
        /\ \A i \in 0 .. stackSize - 1 : stack[i] \in 0 .. stackSize - 1
        /\ \A f \in 0 .. stackSize - 1 : \E i \in 0 .. stackSize - 1 : stack[i] = f
        /\ \A i, j \in 0 .. stackSize - 1 :
               i < j => lastUse[coremap[stack[i]]] < lastUse[coremap[stack[j]]]

LEMMA LruInit == SimInit => LruInv
BY MemsizeAssumption DEF SimInit, Init, LruInv, Lru!Init, Frame

(* The pages in the frames of the array. *)
LEMMA StackPages ==
    ASSUME CommonInv, LruInv, alg = "lru"
    PROVE  /\ stackSize \in Nat /\ stackSize <= memsize /\ ref_count \in Nat
           /\ \A i \in 0 .. stackSize - 1 :
                  /\ i \in Lru!Word /\ stack[i] \in Frame
                  /\ coremap[stack[i]] \in valid /\ coremap[stack[i]] \in Page
                  /\ frame[coremap[stack[i]]] = stack[i]
                  /\ lastUse[coremap[stack[i]]] \in Nat
                  /\ lastUse[coremap[stack[i]]] <= ref_count
           /\ \A i, j \in 0 .. stackSize - 1 : stack[i] = stack[j] => i = j
<1>1. stackSize \in Nat /\ stackSize <= memsize /\ memsize \in Nat /\ ref_count \in Nat
  BY MemsizeAssumption DEF LruInv, CommonInv, IInv, TypeOK
<1>2. ASSUME NEW i \in 0 .. stackSize - 1
      PROVE  /\ i \in Lru!Word /\ stack[i] \in Frame
             /\ coremap[stack[i]] \in valid /\ coremap[stack[i]] \in Page
             /\ frame[coremap[stack[i]]] = stack[i]
             /\ lastUse[coremap[stack[i]]] \in Nat
             /\ lastUse[coremap[stack[i]]] <= ref_count
  <2>1. stack[i] \in 0 .. stackSize - 1
    BY DEF LruInv
  <2>2. i \in Lru!Word /\ stack[i] \in Frame
    BY <1>1, <2>1 DEF Lru!Word, Frame
  <2>3. coremap[stack[i]] # NoPage
    BY <2>1, <2>2 DEF LruInv
  <2>4. coremap[stack[i]] \in valid /\ coremap[stack[i]] \in Page /\ frame[coremap[stack[i]]] = stack[i]
    BY <2>2, <2>3 DEF CommonInv, IInv, FrameTableConsistent, TypeOK
  <2> QED BY <2>2, <2>4 DEF CommonInv, HistoryOK
<1>3. ASSUME NEW i \in 0 .. stackSize - 1, NEW j \in 0 .. stackSize - 1, stack[i] = stack[j], i < j
      PROVE  FALSE
  BY <1>2, <1>3 DEF LruInv
<1>4. ASSUME NEW i \in 0 .. stackSize - 1, NEW j \in 0 .. stackSize - 1, stack[i] = stack[j]
      PROVE  i = j
  BY <1>1, <1>3, <1>4
<1> QED BY <1>1, <1>2, <1>4

(* The frame of the page that is referenced is put at the end, whether it was in
   the array before, at k, or not. *)
LEMMA MovedToEnd ==
    ASSUME CommonInv, LruInv, alg = "lru", NEW p \in Page, NEW f \in Frame, NEW k \in 0 .. stackSize - 1,
           stack[k] = f, UNCHANGED alg, stackSize' = stackSize,
           stack' = [i \in Lru!Word |-> IF i < k \/ i >= stackSize THEN stack[i]
                                        ELSE IF i = stackSize - 1 THEN f ELSE stack[i + 1]],
           coremap' = [coremap EXCEPT ![f] = p],
           p # coremap[f] => p \notin valid,
           lastUse' = [lastUse EXCEPT ![p] = ref_count + 1]
    PROVE  LruInv'
<1> DEFINE n == stackSize
<1>1. /\ n \in Nat /\ n <= memsize /\ ref_count \in Nat /\ p # NoPage /\ memsize \in Nat /\ k \in 0 .. n - 1
      /\ coremap \in [Frame -> Page \cup {NoPage}] /\ lastUse \in [Page -> Nat]
  BY StackPages, PageAssumption, MemsizeAssumption DEF CommonInv, IInv, TypeOK, HistoryOK
<1>2. \A i \in 0 .. n - 1 : i \in Lru!Word /\ stack[i] \in Frame /\ stack[i] \in 0 .. n - 1
  BY StackPages DEF LruInv
<1> DEFINE old(i) == IF i < k THEN i ELSE IF i = n - 1 THEN k ELSE i + 1
<1>3. \A i \in 0 .. n - 1 : old(i) \in 0 .. n - 1 /\ stack'[i] = stack[old(i)]
  BY <1>1, <1>2
<1>4. stack' \in [Lru!Word -> Int] /\ stackSize' \in 0 .. memsize
  <2>1. ASSUME NEW i \in Lru!Word
        PROVE  stack'[i] \in Int
    BY <1>1, <1>2, <1>3 DEF LruInv, Lru!Word
  <2> QED BY <1>1, <2>1
<1>5. \A g \in Frame : coremap'[g] # NoPage <=> g < n
  BY <1>1, <1>2 DEF LruInv
<1>6. \A i \in 0 .. n - 1 : stack'[i] \in 0 .. n - 1
  BY <1>2, <1>3
<1>7. ASSUME NEW g \in 0 .. n - 1
      PROVE  \E i \in 0 .. n - 1 : stack'[i] = g
  <2>1. PICK j \in 0 .. n - 1 : stack[j] = g
    BY DEF LruInv
  <2> DEFINE i == IF j < k THEN j ELSE IF j = k THEN n - 1 ELSE j - 1
  <2>2. i \in 0 .. n - 1 /\ old(i) = j
    BY <1>1
  <2> QED BY <1>3, <2>1, <2>2
<1>8. ASSUME NEW i \in 0 .. n - 1, i # n - 1
      PROVE  /\ coremap'[stack'[i]] = coremap[stack[old(i)]]
             /\ lastUse'[coremap'[stack'[i]]] = lastUse[coremap[stack[old(i)]]]
  <2>1. old(i) \in 0 .. n - 1 /\ old(i) # k
    BY <1>1, <1>8
  <2>2. stack[old(i)] # f /\ coremap[stack[old(i)]] # p
    <3> HIDE DEF old
    <3>1. stack[old(i)] # f
      BY <2>1, StackPages
    <3>2. CASE p = coremap[f]
      BY <1>1, <2>1, <3>1, <3>2, StackPages
    <3>3. CASE p # coremap[f]
      BY <2>1, <3>3, StackPages
    <3> QED BY <3>1, <3>2, <3>3
  <2>3. coremap[stack[old(i)]] \in Page /\ stack[old(i)] \in Frame
    BY <2>1, StackPages
  <2> QED BY <1>1, <1>3, <2>2, <2>3
<1>9. stack'[n - 1] = f /\ coremap'[f] = p /\ lastUse'[p] = ref_count + 1
  BY <1>1, <1>3
<1>10. ASSUME NEW i \in 0 .. n - 1, NEW j \in 0 .. n - 1, i < j
       PROVE  lastUse'[coremap'[stack'[i]]] < lastUse'[coremap'[stack'[j]]]
  <2>1. i # n - 1 /\ old(i) \in 0 .. n - 1 /\ lastUse'[coremap'[stack'[i]]] = lastUse[coremap[stack[old(i)]]]
    <3>1. i # n - 1
      BY <1>1, <1>10
    <3>2. old(i) \in 0 .. n - 1
      BY <1>3
    <3> HIDE DEF old
    <3> QED BY <1>8, <3>1, <3>2
  <2>2. CASE j = n - 1
    <3>1. lastUse[coremap[stack[old(i)]]] \in Nat /\ lastUse[coremap[stack[old(i)]]] <= ref_count
      BY <2>1, StackPages
    <3> QED BY <1>1, <1>9, <2>1, <2>2, <3>1
  <2>3. CASE j # n - 1
    <3>1. old(j) \in 0 .. n - 1 /\ old(i) < old(j)
      BY <1>1, <1>10, <2>3
    <3> HIDE DEF old
    <3>2. lastUse[coremap[stack[old(i)]]] < lastUse[coremap[stack[old(j)]]]
      BY <2>1, <3>1 DEF LruInv
    <3> QED BY <1>8, <2>1, <2>3, <3>2
  <2> QED BY <2>2, <2>3
<1> HIDE DEF old
<1> QED BY <1>4, <1>5, <1>6, <1>7, <1>10 DEF LruInv

LEMMA AddedToEnd ==
    ASSUME CommonInv, LruInv, alg = "lru", NEW p \in Page, NEW f \in Frame,
           f = stackSize, UNCHANGED alg, stackSize' = stackSize + 1,
           stack' = [stack EXCEPT ![stackSize] = f],
           coremap' = [coremap EXCEPT ![f] = p],
           p \notin valid,
           lastUse' = [lastUse EXCEPT ![p] = ref_count + 1]
    PROVE  LruInv'
<1> DEFINE n == stackSize
<1>1. /\ n \in Nat /\ n < memsize /\ ref_count \in Nat /\ p # NoPage /\ memsize \in Nat /\ n = f /\ n \in Lru!Word
      /\ coremap \in [Frame -> Page \cup {NoPage}] /\ lastUse \in [Page -> Nat]
      /\ stack \in [Lru!Word -> Int]
  <2>1. n \in Nat /\ ref_count \in Nat
    BY StackPages
  <2>2. memsize \in Nat /\ f < memsize /\ n = f /\ n \in Lru!Word
    BY <2>1, MemsizeAssumption DEF Frame, Lru!Word
  <2>3. p # NoPage /\ coremap \in [Frame -> Page \cup {NoPage}] /\ lastUse \in [Page -> Nat]
    BY PageAssumption DEF CommonInv, IInv, TypeOK, HistoryOK
  <2> QED BY <2>1, <2>2, <2>3 DEF LruInv
<1>2. stackSize' = n + 1 /\ stack' = [stack EXCEPT ![n] = n]
  BY <1>1
<1>3. ASSUME NEW i \in 0 .. n - 1
      PROVE  /\ stack'[i] = stack[i] /\ stack[i] \in 0 .. n - 1 /\ stack[i] \in Frame
             /\ coremap'[stack'[i]] = coremap[stack[i]]
             /\ lastUse'[coremap'[stack'[i]]] = lastUse[coremap[stack[i]]]
             /\ lastUse[coremap[stack[i]]] \in Nat /\ lastUse[coremap[stack[i]]] <= ref_count
  <2>1. stack'[i] = stack[i] /\ stack[i] \in 0 .. n - 1
    BY <1>1, <1>2 DEF LruInv, Lru!Word
  <2>2. /\ stack[i] \in Frame /\ coremap[stack[i]] \in valid /\ coremap[stack[i]] \in Page
        /\ lastUse[coremap[stack[i]]] \in Nat /\ lastUse[coremap[stack[i]]] <= ref_count
    BY StackPages
  <2> QED BY <1>1, <2>1, <2>2
<1>4. stack'[n] = n /\ coremap'[n] = p /\ lastUse'[p] = ref_count + 1
  BY <1>1, <1>2
<1>5. stack' \in [Lru!Word -> Int] /\ stackSize' \in 0 .. memsize
  BY <1>1, <1>2
<1>6. \A g \in Frame : coremap'[g] # NoPage <=> g < n + 1
  BY <1>1 DEF LruInv, Frame
<1>7. \A i \in 0 .. n : stack'[i] \in 0 .. n
  BY <1>1, <1>3, <1>4
<1>8. ASSUME NEW g \in 0 .. n
      PROVE  \E i \in 0 .. n : stack'[i] = g
  <2>1. CASE g = n
    BY <1>1, <1>4, <2>1
  <2>2. CASE g # n
    <3>1. PICK i \in 0 .. n - 1 : stack[i] = g
      BY <1>1, <2>2 DEF LruInv
    <3> QED BY <1>1, <1>3, <3>1
  <2> QED BY <2>1, <2>2
<1>9. ASSUME NEW i \in 0 .. n, NEW j \in 0 .. n, i < j
      PROVE  lastUse'[coremap'[stack'[i]]] < lastUse'[coremap'[stack'[j]]]
  <2>1. i \in 0 .. n - 1
    BY <1>1, <1>9
  <2>2. CASE j = n
    BY <1>1, <1>3, <1>4, <2>1, <2>2
  <2>3. CASE j # n
    <3>1. j \in 0 .. n - 1
      BY <1>1, <2>3
    <3> QED BY <1>3, <1>9, <2>1, <3>1 DEF LruInv
  <2> QED BY <2>2, <2>3
<1>10. 0 .. stackSize' - 1 = 0 .. n
  BY <1>1, <1>2
<1> QED BY <1>2, <1>5, <1>6, <1>7, <1>8, <1>9, <1>10 DEF LruInv

(* lru_ref on a hit finds the frame in the array and moves it to the end. *)
LEMMA LruHit ==
    ASSUME CommonInv, LruInv, alg = "lru", NEW p \in Page, Refers(p), Lru!Hit(frame[p])
    PROVE  LruInv'
<1> DEFINE f == frame[p]
<1>1. f \in Frame /\ coremap[f] = p /\ p # NoPage
  BY ResidentHasFrame DEF CommonInv, Refers
<1>2. stackSize \in Nat /\ f < stackSize
  BY <1>1, StackPages DEF LruInv
<1>3. PICK k \in 0 .. stackSize - 1 : stack[k] = f
  <2>1. f \in 0 .. stackSize - 1
    BY <1>1, <1>2, MemsizeAssumption DEF Frame
  <2> QED BY <2>1 DEF LruInv
<1>4. \A i \in 0 .. stackSize - 1 : stack[i] = f <=> i = k
  BY <1>3, StackPages
<1>5. PICK junk \in Lru!Junk : Lru!Becomes(Lru!stackPush(Lru!Stack(stack, stackSize), f, junk))
  BY DEF Lru!Hit, Lru!Ref
<1>6. stack \in [Lru!Word -> Int] /\ stackSize \in 0 .. memsize
  BY DEF LruInv
<1> DEFINE moved == [i \in Lru!Word |-> IF i < k \/ i >= stackSize THEN stack[i]
                                        ELSE IF i = stackSize - 1 THEN f ELSE stack[i + 1]]
<1> HIDE DEF f
<1>7. Lru!stackPush(Lru!Stack(stack, stackSize), f, junk) = Lru!Stack(moved, stackSize)
  BY <1>4, <1>6, PushPresent
<1>8. stack' = moved /\ stackSize' = stackSize
  <2> HIDE DEF moved
  <2> QED BY <1>5, <1>7 DEF Lru!Becomes, Lru!Stack
<1>9. coremap' = [coremap EXCEPT ![f] = p] /\ coremap[f] = p
  BY <1>1 DEF Refers, CommonInv, IInv, TypeOK
<1>10. lastUse' = [lastUse EXCEPT ![p] = ref_count + 1] /\ alg' = alg
  BY DEF Refers
<1> QED BY <1>1, <1>3, <1>8, <1>9, <1>10, MovedToEnd

(* On a miss that takes a free frame the frame is new to the array. *)
LEMMA LruLoad ==
    ASSUME CommonInv, LruInv, alg = "lru", NEW p \in Page, NEW f \in Frame,
           Installs(p, f), FirstFree(f), Lru!Load(f)
    PROVE  LruInv'
<1>1. stackSize \in Nat /\ memsize \in Nat /\ coremap[f] = NoPage
  BY StackPages, MemsizeAssumption DEF FirstFree, FreeFrames
<1>2. f = stackSize
  <2>1. f >= stackSize
    BY <1>1 DEF LruInv, Frame
  <2>2. CASE f > stackSize
    <3>1. stackSize \in Frame
      BY <1>1, <2>2 DEF Frame
    <3>2. coremap[stackSize] = NoPage
      BY <1>1, <3>1 DEF LruInv
    <3> QED BY <1>1, <2>2, <3>1, <3>2 DEF FirstFree, FreeFrames, Frame
  <2> QED BY <1>1, <2>1, <2>2 DEF Frame
<1>3. stackSize \in 0 .. memsize - 1 /\ stack \in [Lru!Word -> Int]
  BY <1>1, <1>2 DEF LruInv, Frame
<1>4. \A i \in 0 .. stackSize - 1 : stack[i] # f
  BY <1>1, <1>2 DEF LruInv
<1>5. PICK junk \in Lru!Junk : Lru!Becomes(Lru!stackPush(Lru!Stack(stack, stackSize), f, junk))
  BY DEF Lru!Load, Lru!Ref
<1> DEFINE added == [stack EXCEPT ![stackSize] = f]
<1>6. Lru!stackPush(Lru!Stack(stack, stackSize), f, junk) = Lru!Stack(added, stackSize + 1)
  BY <1>3, <1>4, PushAbsent
<1>7. stack' = added /\ stackSize' = stackSize + 1
  <2> HIDE DEF added
  <2> QED BY <1>5, <1>6 DEF Lru!Becomes, Lru!Stack
<1> QED BY <1>2, <1>7, AddedToEnd DEF Installs

(* On a miss that evicts, lru_evict takes the frame off and lru_ref puts it back,
   at the other end. *)
LEMMA LruReplace ==
    ASSUME CommonInv, LruInv, alg = "lru", NEW p \in Page, NEW f \in Frame,
           Installs(p, f), AllFramesInUse, Lru!Replace(f)
    PROVE  LruInv'
<1>1. stackSize \in Nat /\ memsize \in Nat /\ memsize > 0 /\ stackSize <= memsize
  BY StackPages, MemsizeAssumption
<1>2. stackSize = memsize
  <2>1. memsize - 1 \in Frame
    BY <1>1 DEF Frame
  <2>2. memsize - 1 < stackSize
    BY <2>1 DEF AllFramesInUse, FreeFrames, LruInv
  <2> QED BY <1>1, <2>2
<1>3. f = stack[0] /\ 0 \in 0 .. stackSize - 1
  BY <1>1, <1>2 DEF Lru!Replace, Lru!Victim
<1>4. \A i \in 1 .. memsize - 1 : stack[i] # stack[0]
  <2> SUFFICES ASSUME NEW i \in 1 .. memsize - 1, stack[i] = stack[0] PROVE FALSE
    OBVIOUS
  <2>1. i \in 0 .. stackSize - 1 /\ i # 0
    BY <1>1, <1>2
  <2> QED BY <1>3, <2>1, StackPages
<1>5. stack \in [Lru!Word -> Int]
  BY DEF LruInv
<1>6. PICK junk \in Lru!Junk :
          Lru!Becomes(Lru!stackPush(Lru!stackShift(Lru!Stack(stack, stackSize), 0, junk), f, junk))
  BY DEF Lru!Replace
<1>7. junk \in Int
  BY <1>1 DEF Lru!Junk
<1> DEFINE moved == [i \in Lru!Word |-> IF i = memsize - 1 THEN stack[0] ELSE stack[i + 1]]
<1>8. Lru!stackPush(Lru!stackShift(Lru!Stack(stack, memsize), 0, junk), stack[0], junk) =
          Lru!Stack(moved, memsize)
  BY <1>4, <1>5, <1>7, EvictAndPush
<1>9. stack' = moved /\ stackSize' = stackSize
  <2> HIDE DEF moved
  <2> QED BY <1>2, <1>3, <1>6, <1>8 DEF Lru!Becomes, Lru!Stack
<1>10. moved = [i \in Lru!Word |-> IF i < 0 \/ i >= stackSize THEN stack[i]
                                   ELSE IF i = stackSize - 1 THEN f ELSE stack[i + 1]]
  BY <1>1, <1>2, <1>3 DEF Lru!Word
<1> QED BY <1>3, <1>9, <1>10, MovedToEnd DEF Installs

LEMMA LruNext == CommonInv /\ LruInv /\ [SimNext]_simVars => LruInv'
<1> SUFFICES ASSUME CommonInv, LruInv, [SimNext]_simVars PROVE LruInv'
  OBVIOUS
<1>1. IInv
  BY DEF CommonInv
<1>2. ASSUME UNCHANGED lruVars, UNCHANGED alg, alg # "lru" PROVE LruInv'
  BY <1>2 DEF LruInv, lruVars, Lru!Word
<1>3. ASSUME NEW t \in AccessType, NEW p \in Page, SimHit(t, p) PROVE LruInv'
  <2>1. Refers(p)
    BY <1>1, <1>3, HitRefers
  <2>2. CASE alg = "lru"
    <3>1. Lru!Hit(frame[p])
      BY <1>3, <2>2 DEF SimHit, RefOnHit, Policies
    <3> QED BY <2>1, <2>2, <3>1, LruHit
  <2>3. CASE alg # "lru"
    <3>1. UNCHANGED lruVars
      BY <1>3, <2>3 DEF SimHit, RefOnHit, Policies
    <3> QED BY <1>2, <2>1, <2>3, <3>1 DEF Refers
  <2> QED BY <2>2, <2>3
<1>4. ASSUME NEW t \in AccessType, NEW p \in Page, NEW f \in Frame, SimMissFree(t, p, f)
      PROVE  LruInv'
  <2>1. Installs(p, f) /\ FirstFree(f)
    BY <1>1, <1>4, MissFreeInstalls
  <2>2. CASE alg = "lru"
    <3>1. Lru!Load(f)
      BY <1>4, <2>2 DEF SimMissFree, RefOnLoad, Policies
    <3> QED BY <2>1, <2>2, <3>1, LruLoad
  <2>3. CASE alg # "lru"
    <3>1. UNCHANGED lruVars
      BY <1>4, <2>3 DEF SimMissFree, RefOnLoad, Policies
    <3> QED BY <1>2, <2>1, <2>3, <3>1 DEF Installs
  <2> QED BY <2>2, <2>3
<1>5. ASSUME NEW t \in AccessType, NEW p \in Page, NEW f \in Frame, SimMissEvict(t, p, f)
      PROVE  LruInv'
  <2>1. Installs(p, f) /\ AllFramesInUse
    BY <1>1, <1>5, MissEvictInstalls
  <2>2. CASE alg = "lru"
    <3>1. Lru!Replace(f)
      BY <1>5, <2>2 DEF SimMissEvict, RefOnEvict, Policies
    <3> QED BY <2>1, <2>2, <3>1, LruReplace
  <2>3. CASE alg # "lru"
    <3>1. UNCHANGED lruVars
      BY <1>5, <2>3 DEF SimMissEvict, RefOnEvict, Policies
    <3> QED BY <1>2, <2>1, <2>3, <3>1 DEF Installs
  <2> QED BY <2>2, <2>3
<1>6. CASE \/ \E t \in AccessType, p \in Page : StartSweep(t, p)
           \/ Sweep \/ SimExit \/ UNCHANGED simVars
  <2>1. Idles
    BY <1>6, OthersIdle
  <2>2. UNCHANGED lruVars
    BY <1>6 DEF StartSweep, Sweep, SimExit, simVars
  <2> QED BY <2>1, <2>2 DEF LruInv, Idles, lruVars
<1> QED BY <1>3, <1>4, <1>5, <1>6 DEF SimNext

(* "accurate LRU": the victim is the page that was referenced longest ago,
   however the array is shifted and whatever word it reads past its end. *)
THEOREM LruIsLeastRecentlyUsed == SimSpec => LruEvictsLeastRecent
<1>1. CommonInv /\ LruInv /\ [SimNext]_simVars =>
        [alg = "lru" => \A v \in Evicted, q \in valid : lastUse[v] <= lastUse[q]]_simVars
  <2> SUFFICES ASSUME CommonInv, LruInv, [SimNext]_simVars, alg = "lru",
                      NEW v \in Evicted, NEW q \in valid
               PROVE  lastUse[v] <= lastUse[q]
    OBVIOUS
  <2>1. PICK f \in Frame : Victim(f) /\ v = coremap[f] /\ v \in valid
    BY OnlyVictimsLeave
  <2>2. f = stack[0]
    BY <2>1 DEF Victim, Lru!Victim
  <2> DEFINE g == frame[q]
  <2>3. g \in Frame /\ coremap[g] = q /\ q # NoPage
    BY ResidentHasFrame DEF CommonInv
  <2>4. stackSize \in Nat /\ g \in 0 .. stackSize - 1
    BY <2>3, StackPages, MemsizeAssumption DEF LruInv, Frame
  <2>5. PICK k \in 0 .. stackSize - 1 : stack[k] = g
    BY <2>4 DEF LruInv
  <2>6. 0 \in 0 .. stackSize - 1
    BY <2>4
  <2>7. lastUse[v] \in Nat /\ lastUse[q] \in Nat
    BY <2>1, <2>2, <2>3, <2>5, <2>6, StackPages
  <2>8. CASE k = 0
    BY <2>1, <2>2, <2>3, <2>5, <2>7, <2>8
  <2>9. CASE k # 0
    <3>1. lastUse[coremap[stack[0]]] < lastUse[coremap[stack[k]]]
      BY <2>4, <2>6, <2>9 DEF LruInv
    <3> QED BY <2>1, <2>2, <2>3, <2>5, <2>7, <3>1
  <2> QED BY <2>8, <2>9
<1> QED BY <1>1, CommonInit, CommonNext, LruInit, LruNext, PTL DEF SimSpec, LruEvictsLeastRecent

-----------------------------------------------------------------------------
(* clock                                                                     *)

(* The frames whose pages were spared since the sweep began. *)
Spared == {f \in Frame : coremap[f] \notin cold \cup refbit}

(* A sweep has the fault it was called for, memory is full, the pages that were
   cold when it began still are, and the frames it has spared are the ones
   that the hand has just gone past. *)
ClockInv ==
    /\ sweeping \in BOOLEAN /\ refbit \subseteq Page /\ clockHand \in Frame
    /\ fault \in {NoFault} \cup (AccessType \X Page)
    /\ sweeping =>
        /\ alg = "clock" /\ fault # NoFault /\ AllFramesInUse
        /\ cold \subseteq valid /\ cold \cap refbit = {}
        /\ \A f \in Spared : Clock!Advance(f) \in Spared \/ Clock!Advance(f) = clockHand

(* The hand comes round to every frame. *)
LEMMA HandComesRound ==
    ASSUME NEW P \in SUBSET Frame, NEW h \in P, \A f \in P : Clock!Advance(f) \in P
    PROVE  P = Frame
<1>1. memsize \in Nat \ {0}
  BY MemsizeAssumption
<1>2. ASSUME NEW from \in P, NEW g \in Frame, from <= g, g \notin P PROVE FALSE
  <2> DEFINE missed == {i \in Frame : from <= i /\ i \notin P}
  <2>1. missed \in SUBSET Nat /\ missed # {}
    BY <1>1, <1>2 DEF Frame
  <2>2. PICK m \in missed : \A i \in missed : m <= i
    BY <2>1, LeastMember
  <2>3. m - 1 \in Frame /\ m - 1 >= from
    BY <1>1, <2>2 DEF Frame
  <2>4. m - 1 \in P
    BY <1>1, <2>2, <2>3 DEF Frame
  <2>5. Clock!Advance(m - 1) = m
    BY <1>1, <2>2 DEF Frame, Clock!Advance
  <2> QED BY <2>2, <2>4, <2>5
<1>3. memsize - 1 \in P
  BY <1>1, <1>2 DEF Frame
<1>4. 0 \in P
  BY <1>1, <1>3 DEF Clock!Advance
<1>5. ASSUME NEW g \in Frame PROVE g \in P
  BY <1>2, <1>4, <1>5 DEF Frame
<1> QED BY <1>5

LEMMA ClockInit == SimInit => ClockInv
<1> SUFFICES ASSUME SimInit PROVE ClockInv
  OBVIOUS
<1>1. refbit = {} /\ clockHand = 0 /\ sweeping = FALSE /\ fault = NoFault
  BY DEF SimInit, Clock!Init
<1>2. refbit \subseteq Page /\ clockHand \in Frame
  BY <1>1, MemsizeAssumption DEF Frame
<1>3. sweeping \in BOOLEAN /\ ~sweeping /\ fault \in {NoFault} \cup (AccessType \X Page)
  BY <1>1, Zenon
<1> QED BY <1>2, <1>3 DEF ClockInv

LEMMA ClockSweep == CommonInv /\ ClockInv /\ Sweep => ClockInv'
<1> SUFFICES ASSUME CommonInv, ClockInv, Sweep PROVE ClockInv'
  OBVIOUS
<1>1. memsize \in Nat \ {0} /\ clockHand \in Frame
  BY MemsizeAssumption DEF ClockInv
<1>2. /\ sweeping /\ sweeping' /\ coremap[clockHand] \in refbit
      /\ refbit' = refbit \ {coremap[clockHand]}
      /\ clockHand' = Clock!Advance(clockHand)
  BY DEF Sweep, Clock!Sweep, Clock!Clear, ClockInv
<1>3. UNCHANGED <<coremap, valid, alg, fault, cold>>
  BY DEF Sweep, vars, tableVars, memVars, historyVars
<1>4. /\ sweeping' \in BOOLEAN /\ refbit' \subseteq Page /\ clockHand' \in Frame
      /\ fault' \in {NoFault} \cup (AccessType \X Page)
  BY <1>1, <1>2, <1>3 DEF ClockInv, Frame, Clock!Advance, Sweep, Clock!Sweep
<1>5. /\ alg' = "clock" /\ fault' # NoFault /\ AllFramesInUse'
      /\ cold' \subseteq valid' /\ cold' \cap refbit' = {}
  BY <1>2, <1>3 DEF ClockInv, AllFramesInUse, FreeFrames
<1>6. \A f \in Spared' : f \in Spared \/ f = clockHand
  <2> SUFFICES ASSUME NEW f \in Frame, coremap[f] \notin cold, coremap[f] = coremap[clockHand]
               PROVE  f = clockHand
    BY <1>2, <1>3 DEF Spared
  <2>1. coremap[f] # NoPage
    BY <1>2 DEF ClockInv, AllFramesInUse, FreeFrames
  <2> QED BY <1>1, <2>1 DEF CommonInv, IInv, FrameTableConsistent
<1>7. Spared \subseteq Spared' /\ clockHand \in Spared'
  BY <1>1, <1>2, <1>3 DEF Spared, ClockInv
<1>8. ASSUME NEW f \in Spared'
      PROVE  Clock!Advance(f) \in Spared' \/ Clock!Advance(f) = clockHand'
  BY <1>2, <1>6, <1>7, <1>8 DEF ClockInv
<1> QED BY <1>4, <1>5, <1>8 DEF ClockInv, Clock!Advance

LEMMA ClockStart ==
    ASSUME CommonInv, ClockInv, NEW t \in AccessType, NEW p \in Page, StartSweep(t, p)
    PROVE  ClockInv'
<1>1. memsize \in Nat \ {0} /\ clockHand \in Frame
  BY MemsizeAssumption DEF ClockInv
<1>2. /\ alg = "clock" /\ AllFramesInUse /\ sweeping'
      /\ clockHand' = (IF clockHand = memsize - 1 THEN 0 ELSE clockHand)
      /\ UNCHANGED <<refbit, coremap, valid, alg>>
      /\ fault' = <<t, p>> /\ cold' = valid \ refbit
  BY DEF StartSweep, Clock!StartSweep, vars, tableVars, memVars
<1>3. /\ sweeping' \in BOOLEAN /\ refbit' \subseteq Page /\ clockHand' \in Frame
      /\ fault' \in {NoFault} \cup (AccessType \X Page) /\ fault' # NoFault
  BY <1>1, <1>2 DEF ClockInv, Frame, StartSweep, Clock!StartSweep, NoFault
<1>4. Spared' = {}
  <2> SUFFICES ASSUME NEW f \in Frame PROVE coremap[f] \in valid
    BY <1>2 DEF Spared
  <2> QED BY <1>2 DEF AllFramesInUse, FreeFrames, CommonInv, IInv, FrameTableConsistent
<1> QED BY <1>2, <1>3, <1>4 DEF ClockInv, AllFramesInUse, FreeFrames

LEMMA ClockNext == CommonInv /\ ClockInv /\ [SimNext]_simVars => ClockInv'
<1> SUFFICES ASSUME CommonInv, ClockInv, [SimNext]_simVars PROVE ClockInv'
  OBVIOUS
<1>1. IInv /\ coremap \in [Frame -> Page \cup {NoPage}]
  BY DEF CommonInv, IInv, TypeOK
(* A reference that ends in frame f, whatever the policy. *)
<1>2. ASSUME NEW p \in Page, NEW f \in Frame, coremap'[f] = p,
             sweeping' = FALSE, fault' \in {NoFault} \cup (AccessType \X Page),
             \/ UNCHANGED <<refbit, clockHand>>
             \/ Clock!Ref(f, FreshEntries(p)) /\ UNCHANGED clockHand
      PROVE  ClockInv'
  BY <1>2 DEF ClockInv, Clock!Ref
<1>3. ASSUME NEW t \in AccessType, NEW p \in Page, SimHit(t, p) PROVE ClockInv'
  <2>1. Refers(p)
    BY <1>1, <1>3, HitRefers
  <2>2. frame[p] \in Frame /\ coremap'[frame[p]] = p
    BY <1>1, <2>1, ResidentHasFrame DEF Refers
  <2>3. fault = NoFault /\ fault' = fault /\ sweeping = FALSE
    BY <1>3 DEF SimHit, ClockInv
  <2>4. \/ UNCHANGED <<refbit, clockHand, sweeping>>
        \/ Clock!Ref(frame[p], FreshEntries(p)) /\ UNCHANGED <<clockHand, sweeping>>
    BY <1>3 DEF SimHit, RefOnHit, Policies, clockVars, Clock!Hit
  <2> QED BY <1>2, <2>2, <2>3, <2>4
<1>4. ASSUME NEW t \in AccessType, NEW p \in Page, NEW f \in Frame, SimMissFree(t, p, f)
      PROVE  ClockInv'
  <2>1. Installs(p, f) /\ FirstFree(f)
    BY <1>1, <1>4, MissFreeInstalls
  <2>2. coremap'[f] = p
    BY <1>1, <2>1 DEF Installs
  <2>3. fault' = fault /\ sweeping = FALSE
    BY <1>4, <2>1 DEF SimMissFree, ClockInv, AllFramesInUse, FirstFree
  <2>4. \/ UNCHANGED <<refbit, clockHand, sweeping>>
        \/ Clock!Ref(f, FreshEntries(p)) /\ UNCHANGED <<clockHand, sweeping>>
    BY <1>4 DEF SimMissFree, RefOnLoad, Policies, clockVars, Clock!Load
  <2> QED BY <1>2, <2>2, <2>3, <2>4 DEF ClockInv
<1>5. ASSUME NEW t \in AccessType, NEW p \in Page, NEW f \in Frame, SimMissEvict(t, p, f)
      PROVE  ClockInv'
  <2>1. Installs(p, f)
    BY <1>1, <1>5, MissEvictInstalls
  <2>2. coremap'[f] = p
    BY <1>1, <2>1 DEF Installs
  <2>3. fault' = NoFault
    BY <1>5 DEF SimMissEvict
  <2>4. CASE alg = "clock"
    <3>1. Clock!Replace(f, FreshEntries(p))
      BY <1>5, <2>4 DEF SimMissEvict, RefOnEvict, Policies
    <3> QED BY <1>2, <2>2, <2>3, <3>1 DEF Clock!Replace
  <2>5. CASE alg # "clock"
    <3>1. UNCHANGED <<refbit, clockHand, sweeping>>
      BY <1>5, <2>5 DEF SimMissEvict, RefOnEvict, Policies, clockVars
    <3> QED BY <1>2, <2>2, <2>3, <2>5, <3>1 DEF ClockInv
  <2> QED BY <2>4, <2>5
<1>6. ASSUME NEW t \in AccessType, NEW p \in Page, StartSweep(t, p) PROVE ClockInv'
  BY <1>6, ClockStart
<1>7. CASE Sweep
  BY <1>7, ClockSweep
<1>8. CASE SimExit \/ UNCHANGED simVars
  <2>1. Idles
    BY <1>8, OthersIdle
  <2>2. UNCHANGED <<clockVars, fault, cold>>
    BY <1>8 DEF SimExit, simVars, historyVars
  <2> QED BY <2>1, <2>2
      DEF ClockInv, Idles, clockVars, AllFramesInUse, FreeFrames, Spared, Clock!Advance
<1> QED BY <1>3, <1>4, <1>5, <1>6, <1>7, <1>8 DEF SimNext

(* A page that was used since the hand last passed it is not evicted while some
   page in memory was not, wherever the hand starts. *)
THEOREM ClockIsSecondChance == SimSpec => ClockSparesUsedPages
<1>1. CommonInv /\ ClockInv /\ [SimNext]_simVars =>
        [alg = "clock" /\ cold # {} => Evicted \subseteq cold]_simVars
  <2> SUFFICES ASSUME CommonInv, ClockInv, [SimNext]_simVars, alg = "clock", cold # {},
                      NEW v \in Evicted, v \notin cold
               PROVE  FALSE
    OBVIOUS
  <2>1. PICK f \in Frame : Victim(f) /\ v = coremap[f]
    BY OnlyVictimsLeave
  <2>2. Clock!Victim(f)
    BY <2>1, Zenon DEF Victim
  <2>3. sweeping /\ f = clockHand /\ f \in Spared
    BY <2>1, <2>2 DEF Clock!Victim, Spared
  <2>4. \A g \in Spared : Clock!Advance(g) \in Spared
    BY <2>3 DEF ClockInv
  <2>5. Spared \in SUBSET Frame
    BY DEF Spared
  <2>6. Spared = Frame
    <3> HIDE DEF Spared
    <3> QED BY <2>3, <2>4, <2>5, HandComesRound
  <2>7. PICK c \in cold : c \in valid
    BY <2>3 DEF ClockInv
  <2> QED BY <2>6, <2>7, ResidentHasFrame DEF Spared, CommonInv
<1> QED BY <1>1, CommonInit, CommonNext, ClockInit, ClockNext, PTL DEF SimSpec, ClockSparesUsedPages

-----------------------------------------------------------------------------
(* Every variable of the driver and its policies keeps its type, also under the
   policies that do not use it. *)
THEOREM DriverTypes == SimSpec => []SimTypeOK
<1> DEFINE CounterOK == csize \in 0 .. memsize
<1>1. SimInit => CounterOK
  BY MemsizeAssumption DEF SimInit, Fifo!Init
<1>2. CounterOK /\ [SimNext]_simVars => CounterOK'
  <2> SUFFICES ASSUME CounterOK, [SimNext]_simVars PROVE CounterOK'
    OBVIOUS
  <2>1. ASSUME NEW t \in AccessType, NEW p \in Page, SimHit(t, p) PROVE CounterOK'
    BY <2>1 DEF SimHit, RefOnHit, Policies, Fifo!Hit, fifoVars
  <2>2. ASSUME NEW t \in AccessType, NEW p \in Page, NEW f \in Frame, SimMissFree(t, p, f)
        PROVE  CounterOK'
    BY <2>2 DEF SimMissFree, RefOnLoad, Policies, Fifo!Load, fifoVars
  <2>3. ASSUME NEW t \in AccessType, NEW p \in Page, NEW f \in Frame, SimMissEvict(t, p, f)
        PROVE  CounterOK'
    BY <2>3, MemsizeAssumption
       DEF SimMissEvict, RefOnEvict, Policies, Fifo!Replace, fifoVars, Frame
  <2>4. CASE \/ \E t \in AccessType, p \in Page : StartSweep(t, p)
             \/ Sweep \/ SimExit \/ UNCHANGED simVars
    BY <2>4 DEF StartSweep, Sweep, SimExit, simVars, fifoVars
  <2> QED BY <2>1, <2>2, <2>3, <2>4 DEF SimNext
<1>3. CommonInv /\ LruInv /\ ClockInv /\ CounterOK => SimTypeOK
  BY DEF CommonInv, LruInv, ClockInv, SimTypeOK, Lru!Word
<1> QED BY <1>1, <1>2, <1>3, CommonInit, CommonNext, LruInit, LruNext, ClockInit, ClockNext, PTL
        DEF SimSpec
=============================================================================
