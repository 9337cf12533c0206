---------------------------- MODULE NodePool_proofs ----------------------------
(***************************************************************************)
(* Theorems about a NodePoolManager, for every number of nodes, every set  *)
(* of threads and every bound: about NodePool, and below about PoolMonitor.*)
(***************************************************************************)
EXTENDS NodePool, PoolMonitor, TLAPS

\* The loop position is a node wherever the code indexes with it.
LoopBounds == \A t \in Threads : pc[t] \in {"scan", "write"} => idx <= N

\* Probe threads exist only between StartProbes and JoinProbes.
ProbesJoined ==
    \A u \in Updaters : pc[u] # "probing" => \A n \in Nodes : probe[u][n] = "off"

\* A recalculation during which no probe can write: every update_pool is
\* either over or is the one that recalculates.
Undisturbed ==
    lock # NoThread /\ \A u \in Updaters : pc[u] = "idle" \/ lock = u

\* What an undisturbed scan has established about the nodes before idx ...
ScanSoFar ==
    Undisturbed /\ pc[lock] = "scan" =>
        \A n \in 1..(idx - 1) : healthy[n] => head[n] <= maxBlock

\* ... and what an undisturbed rating has.
RatedSoFar ==
    Undisturbed /\ pc[lock] \in {"read", "write"} =>
        /\ \A n \in HealthyNodes : head[n] <= maxBlock
        /\ \A n \in 1..(idx - 1) : healthy[n] => maxBlock - head[n] <= MaxLag
        /\ pc[lock] = "write" =>
              healthy[idx] /\ (verdict.healthy => maxBlock - head[idx] <= MaxLag)

LockInv == TypeOK /\ RecalculationExclusive /\ LoopBounds /\ ProbesJoined

IInv ==
    /\ LockInv
    /\ ScanSoFar
    /\ RatedSoFar
    /\ ActiveIsBest
    /\ NoLaggardHealthy

\* Without update_pool no thread revives a node in its cooldown, and a score
\* is stored for the very node state it was computed from.
CooldownInv ==
    /\ \A n \in Nodes : limitedUntil[n] > clock => ~healthy[n]
    /\ \A t \in Threads : pc[t] = "write" => healthy[idx]

-----------------------------------------------------------------------------

USE NodesAssumption, PenaltyAssumption, ThreadsAssumption, DataAssumption, BoundsAssumption

LEMMA ScoreType ==
    ASSUME TypeOK, NEW n \in Nodes, NEW top \in Nat
    PROVE  /\ Score(n, top) \in Scores
           /\ Score(n, top).healthy => top - head[n] <= MaxLag
<1> DEFINE d == Drift(n, top)
<1>1. d \in Nat /\ top - head[n] <= d
  BY DEF Drift, TypeOK, NodeTypes
<1>2. latency[n] + LagPenalty \in Nat /\ latency[n] + d * 100 \in Nat
  <2>1. d * 100 \in Nat
    BY <1>1
  <2> QED
    BY <2>1 DEF TypeOK, NodeTypes
<1>3. CASE d > MaxLag
  <2>1. Score(n, top) = [healthy |-> FALSE, penalty |-> latency[n] + LagPenalty]
    BY <1>3 DEF Score
  <2> QED
    BY <1>2, <2>1 DEF Scores
<1>4. CASE ~(d > MaxLag)
  <2>1. Score(n, top) = [healthy |-> TRUE, penalty |-> latency[n] + d * 100]
    BY <1>4 DEF Score
  <2>2. top - head[n] <= MaxLag
    BY <1>1, <1>4 DEF TypeOK, NodeTypes
  <2> HIDE DEF d
  <2> QED
    BY <1>2, <2>1, <2>2 DEF Scores
<1> QED
  BY <1>3, <1>4

\* Entering the recalculation keeps the types, given well-typed arguments.
LEMMA EnterType ==
    ASSUME LockInv, NEW t \in Threads,
           NEW fine \in [Nodes -> BOOLEAN], NEW pen \in [Nodes -> Nat],
           NEW until \in [Nodes -> Nat],
           pc[t] \in {"idle", "probing"},
           EnterRecalculate(t, fine, pen, until),
           errorCnt' \in [Nodes -> Nat], held' = held, reports' \in Nat,
           t \in Updaters => \A n \in Nodes : probe[t][n] = "off"
    PROVE  LockInv'
<1> USE DEF LockInv, TypeOK
<1>1. NodeTypes'
  BY DEF NodeTypes, EnterRecalculate
<1>2. ThreadTypes'
  BY DEF ThreadTypes, EnterRecalculate
<1>3. LocalTypes'
  BY DEF LocalTypes, EnterRecalculate
<1>4. EnvTypes'
  BY DEF EnvTypes, EnterRecalculate
<1>5. RecalculationExclusive'
  BY DEF ThreadTypes, EnterRecalculate, RecalculationExclusive, Threads
<1>6. LoopBounds'
  BY DEF ThreadTypes, EnterRecalculate, RecalculationExclusive, LoopBounds
<1>7. ProbesJoined'
  BY DEF ThreadTypes, EnterRecalculate, ProbesJoined, Threads
<1> QED
  BY <1>1, <1>2, <1>3, <1>4, <1>5, <1>6, <1>7

LEMMA LockInit == Init => LockInv
<1> SUFFICES ASSUME Init PROVE LockInv
  OBVIOUS
<1>1. NodeTypes /\ ThreadTypes /\ LocalTypes /\ EnvTypes
  BY DEF Init, NodeTypes, ThreadTypes, LocalTypes, EnvTypes, Nodes, Threads,
      Scores, NoVerdict
<1>2. RecalculationExclusive /\ LoopBounds /\ ProbesJoined
  BY DEF Init, RecalculationExclusive, LoopBounds, ProbesJoined, Threads, Nodes
<1> QED
  BY <1>1, <1>2 DEF LockInv, TypeOK

-----------------------------------------------------------------------------

LEMMA CallerLock ==
    ASSUME LockInv, NEW c \in Callers, Caller(c)
    PROVE  LockInv'
<1> USE DEF LockInv, TypeOK
<1> c \in Threads /\ c \notin Updaters
  BY DEF Threads
<1>1. CASE GetActive(c) \/ Answered(c)
  <2>1. held' \in [Callers -> Nodes \cup {0}]
    BY <1>1 DEF GetActive, Answered, ThreadTypes
  <2>2. UNCHANGED <<nodeVars, active, lock, pc, recalcVars, probe, envVars>>
    BY <1>1 DEF GetActive, Answered
  <2>3. TypeOK'
    BY <2>1, <2>2 DEF NodeTypes, ThreadTypes, LocalTypes, EnvTypes, nodeVars,
        recalcVars, envVars
  <2>4. (RecalculationExclusive /\ LoopBounds /\ ProbesJoined)'
    BY <2>2 DEF RecalculationExclusive, LoopBounds, ProbesJoined, recalcVars
  <2> QED
    BY <2>3, <2>4
<1>2. CASE GetActiveRecalculating(c)
  <2>1. errorCnt' \in [Nodes -> Nat] /\ reports' \in Nat
    BY <1>2 DEF GetActiveRecalculating, NodeTypes, EnvTypes
  <2> QED
    BY <1>2, <2>1, EnterType DEF GetActiveRecalculating, NodeTypes
<1>3. CASE MarkNodeFailed(c)
  <2>1. held[c] \in Nodes
    BY <1>3 DEF MarkNodeFailed, ThreadTypes
  <2>2. errorCnt' \in [Nodes -> Nat] /\ reports' \in Nat
    BY <1>3, <2>1 DEF MarkNodeFailed, NodeTypes, EnvTypes
  <2>3. /\ [healthy EXCEPT ![held[c]] = FALSE] \in [Nodes -> BOOLEAN]
        /\ [penalty EXCEPT ![held[c]] = Inf] \in [Nodes -> Nat]
        /\ limitedUntil \in [Nodes -> Nat]
    BY <2>1 DEF NodeTypes
  <2> QED
    BY <1>3, <2>2, <2>3, EnterType DEF MarkNodeFailed
<1>4. ASSUME NEW r \in RetryAfters, MarkNodeRateLimited(c, r) PROVE LockInv'
  <2>1. held[c] \in Nodes
    BY <1>4 DEF MarkNodeRateLimited, ThreadTypes
  <2>2. errorCnt' \in [Nodes -> Nat] /\ reports' \in Nat
    BY <1>4, <2>1 DEF MarkNodeRateLimited, NodeTypes, EnvTypes
  <2>3. /\ [healthy EXCEPT ![held[c]] = FALSE] \in [Nodes -> BOOLEAN]
        /\ [penalty EXCEPT ![held[c]] = Inf] \in [Nodes -> Nat]
        /\ [limitedUntil EXCEPT ![held[c]] = clock + r] \in [Nodes -> Nat]
    BY <2>1 DEF NodeTypes, EnvTypes
  <2> QED
    BY <1>4, <2>2, <2>3, EnterType DEF MarkNodeRateLimited
<1> QED
  BY <1>1, <1>2, <1>3, <1>4 DEF Caller

LEMMA RecalculateLock ==
    ASSUME LockInv, NEW t \in Threads, Recalculate(t)
    PROVE  LockInv'
<1> USE DEF LockInv, TypeOK
<1>0. lock = t /\ t \in Threads /\ pc[t] \in {"scan", "read", "write"}
  BY DEF Recalculate, Scan, SkipUnhealthy, ReadScore, WriteScore, Pick,
      RecalculationExclusive
<1>1. EnvTypes' /\ UNCHANGED <<errorCnt, limitedUntil, head, latency, probe>>
  BY DEF Recalculate, Scan, SkipUnhealthy, ReadScore, WriteScore, Pick, EnvTypes,
      envVars, nodeVars
<1>2. CASE Scan(t)
  <2>0. \A s \in Threads : s # t => pc'[s] = pc[s] /\ pc[s] \notin {"scan", "read", "write"}
    BY <1>0, <1>2 DEF Scan, ThreadTypes, RecalculationExclusive
  <2>a. idx \in Nodes
    BY <1>2 DEF Scan, LoopBounds, LocalTypes, Nodes
  <2>b. maxBlock' \in Nat /\ verdict' = verdict
    BY <1>2, <2>a DEF Scan, LocalTypes, NodeTypes
  <2>c. idx' \in Nodes /\ idx' <= N
    BY <1>2, <2>a DEF Scan, Nodes
  <2>1. LocalTypes' /\ LoopBounds'
    BY <2>0, <2>b, <2>c DEF LocalTypes, LoopBounds, Nodes
  <2>2. NodeTypes' /\ ThreadTypes'
    BY <1>2 DEF Scan, NodeTypes, ThreadTypes, nodeVars
  <2>3. RecalculationExclusive' /\ ProbesJoined'
    <3>1. pc'[t] \in {"scan", "read", "write"} /\ lock' = lock /\ probe' = probe
      BY <1>0, <1>2 DEF Scan, ThreadTypes
    <3> QED
      BY <1>0, <2>0, <3>1 DEF RecalculationExclusive, ProbesJoined, Threads
  <2> QED
    BY <1>1, <2>1, <2>2, <2>3
<1>3. CASE SkipUnhealthy(t)
  <2>1. LocalTypes' /\ LoopBounds'
    BY <1>0, <1>3 DEF SkipUnhealthy, LocalTypes, LoopBounds, RecalculationExclusive
  <2>2. NodeTypes' /\ ThreadTypes'
    BY <1>3 DEF SkipUnhealthy, NodeTypes, ThreadTypes
  <2>3. RecalculationExclusive' /\ ProbesJoined'
    BY <1>3 DEF SkipUnhealthy, RecalculationExclusive, ProbesJoined
  <2> QED
    BY <1>1, <2>1, <2>2, <2>3
<1>4. CASE ReadScore(t)
  <2>1. idx \in Nodes /\ maxBlock \in Nat
    BY <1>4 DEF ReadScore, LocalTypes, Nodes
  <2>2. LocalTypes'
    BY <1>4, <2>1, ScoreType DEF ReadScore, LocalTypes
  <2>3. LoopBounds'
    BY <1>0, <1>4 DEF ReadScore, LoopBounds, RecalculationExclusive, ThreadTypes
  <2>4. NodeTypes' /\ ThreadTypes'
    BY <1>4 DEF ReadScore, NodeTypes, ThreadTypes, nodeVars
  <2>5. RecalculationExclusive' /\ ProbesJoined'
    BY <1>4 DEF ReadScore, RecalculationExclusive, ProbesJoined, ThreadTypes
  <2> QED
    BY <1>1, <2>2, <2>3, <2>4, <2>5
<1>5. CASE WriteScore(t)
  <2>1. LocalTypes' /\ LoopBounds'
    BY <1>0, <1>5 DEF WriteScore, LocalTypes, LoopBounds, RecalculationExclusive,
        ThreadTypes
  <2>2. verdict.healthy \in BOOLEAN /\ verdict.penalty \in Nat
    BY DEF LocalTypes, Scores
  <2>3. NodeTypes' /\ ThreadTypes'
    BY <1>5, <2>2 DEF WriteScore, NodeTypes, ThreadTypes
  <2>4. RecalculationExclusive' /\ ProbesJoined'
    BY <1>5 DEF WriteScore, RecalculationExclusive, ProbesJoined, ThreadTypes
  <2> QED
    BY <1>1, <2>1, <2>3, <2>4
<1>6. CASE Pick(t)
  <2>1. LocalTypes' /\ NodeTypes'
    BY <1>6 DEF Pick, LocalTypes, NodeTypes, nodeVars, Scores, NoVerdict
  <2>2. PICK b \in Nodes :
           /\ active' = b
           /\ held' = [c \in Callers |-> IF c = t THEN IF held[c] = 0 THEN b ELSE 0
                                                  ELSE held[c]]
    BY <1>6 DEF Pick
  <2>3. ThreadTypes'
    BY <1>6, <2>2 DEF Pick, ThreadTypes
  <2>4. (RecalculationExclusive /\ LoopBounds /\ ProbesJoined)'
    <3>1. \A s \in Threads : s # t => pc'[s] = pc[s] /\ pc[s] \notin {"scan", "read", "write"}
      BY <1>0, <1>6 DEF Pick, ThreadTypes, RecalculationExclusive
    <3>2. pc'[t] = "idle" /\ lock' = NoThread /\ probe' = probe /\ pc[t] = "read"
      BY <1>6 DEF Pick, ThreadTypes
    <3>3. RecalculationExclusive' /\ LoopBounds'
      <4>1. NoThread \notin Threads
        BY DEF Threads
      <4> QED
        BY <3>1, <3>2, <4>1 DEF RecalculationExclusive, LoopBounds
    <3>4. ASSUME NEW u \in Updaters, pc'[u] # "probing", NEW n \in Nodes
          PROVE  probe'[u][n] = "off"
      <4>1. pc[u] # "probing"
        BY <3>1, <3>2, <3>4 DEF Threads
      <4> QED
        BY <3>2, <4>1 DEF ProbesJoined
    <3> QED
      BY <3>3, <3>4 DEF ProbesJoined
  <2> QED
    BY <1>1, <2>1, <2>3, <2>4
<1> QED
  BY <1>2, <1>3, <1>4, <1>5, <1>6 DEF Recalculate

LEMMA ProbeLock ==
    ASSUME LockInv, NEW u \in Updaters, NEW n \in Nodes, Probe(u, n)
    PROVE  LockInv'
<1> USE DEF LockInv, TypeOK, Probe, ProbeTimed, ProbeHead, ProbeHealthy,
        ProbeFailed, ProbeInfinite, ProbeStep
<1>1. probe[u][n] # "off" /\ pc[u] = "probing"
  BY DEF ProbesJoined
<1>2. UNCHANGED <<errorCnt, limitedUntil, active, lock, pc, recalcVars, held, envVars>>
  OBVIOUS
<1>3. PICK to \in {"off", "timed", "headed", "failed"} :
         probe' = [probe EXCEPT ![u][n] = to]
  OBVIOUS
<1>4. healthy' \in [Nodes -> BOOLEAN] /\ penalty' \in [Nodes -> Nat]
  BY DEF NodeTypes
<1>5. head' \in [Nodes -> Nat] /\ latency' \in [Nodes -> Nat]
  BY DEF NodeTypes
<1>6. probe' \in [Updaters -> [Nodes -> {"off", "sent", "timed", "headed", "failed"}]]
  BY <1>3 DEF ThreadTypes
<1> USE DEF LockInv, TypeOK
<1>7. TypeOK'
  BY <1>2, <1>4, <1>5, <1>6 DEF NodeTypes, ThreadTypes, LocalTypes, EnvTypes,
      recalcVars, envVars
<1>8. RecalculationExclusive' /\ LoopBounds'
  BY <1>2 DEF RecalculationExclusive, LoopBounds, recalcVars
<1>9. ProbesJoined'
  BY <1>1, <1>2, <1>3 DEF ProbesJoined, ThreadTypes
<1> QED
  BY <1>7, <1>8, <1>9

LEMMA LockStep == LockInv /\ [Next]_vars => LockInv'
<1> SUFFICES ASSUME LockInv, [Next]_vars PROVE LockInv'
  OBVIOUS
<1> USE DEF LockInv, TypeOK
<1>1. ASSUME NEW c \in Callers, Caller(c) PROVE LockInv'
  BY <1>1, CallerLock
<1>2. ASSUME NEW t \in Threads, Recalculate(t) PROVE LockInv'
  BY <1>2, RecalculateLock
<1>3. ASSUME NEW u \in Updaters, Update(u) PROVE LockInv'
  <2> u \in Threads
    BY DEF Threads
  <2>1. CASE StartProbes(u)
    <3>1. ThreadTypes'
      BY <2>1 DEF StartProbes, ThreadTypes
    <3>2. NodeTypes' /\ LocalTypes' /\ EnvTypes'
      BY <2>1 DEF StartProbes, NodeTypes, LocalTypes, EnvTypes, nodeVars,
          recalcVars, envVars
    <3>3. (RecalculationExclusive /\ LoopBounds /\ ProbesJoined)'
      BY <2>1 DEF StartProbes, RecalculationExclusive, LoopBounds, ProbesJoined,
          ThreadTypes, recalcVars, Threads
    <3> QED
      BY <3>1, <3>2, <3>3
  <2>2. CASE JoinProbes(u)
    <3>1. errorCnt' \in [Nodes -> Nat] /\ reports' \in Nat
      BY <2>2 DEF JoinProbes, NodeTypes, EnvTypes
    <3> QED
      BY <2>2, <3>1, EnterType DEF JoinProbes, NodeTypes
  <2> QED
    BY <1>3, <2>1, <2>2 DEF Update
<1>4. ASSUME NEW u \in Updaters, NEW n \in Nodes, Probe(u, n) PROVE LockInv'
  BY <1>4, ProbeLock
<1>5. CASE Tick \/ \E n \in Nodes : Flip(n)
  <2>1. EnvTypes'
    <3>1. CASE Tick
      BY <3>1 DEF Tick, EnvTypes
    <3>2. ASSUME NEW n \in Nodes, Flip(n) PROVE EnvTypes'
      BY <3>2 DEF Flip, EnvTypes
    <3> QED
      BY <1>5, <3>1, <3>2
  <2>2. UNCHANGED <<nodeVars, active, lock, pc, recalcVars, held, probe>>
    BY <1>5 DEF Tick, Flip
  <2> QED
    BY <2>1, <2>2 DEF NodeTypes, ThreadTypes, LocalTypes, RecalculationExclusive,
        LoopBounds, ProbesJoined, nodeVars, recalcVars
<1>6. CASE UNCHANGED vars
  BY <1>6 DEF vars, NodeTypes, ThreadTypes, LocalTypes, EnvTypes,
      RecalculationExclusive, LoopBounds, ProbesJoined, nodeVars, recalcVars, envVars
<1> QED
  BY <1>1, <1>2, <1>3, <1>4, <1>5, <1>6 DEF Next

LEMMA LockAlways == Spec => []LockInv
  BY LockInit, LockStep, PTL DEF Spec

\* Every value the pool ever holds has its type, however the threads are
\* interleaved: a penalty is never negative, the loop never leaves the list,
\* the active node is one of the configured ones.
THEOREM TypeCorrect == Spec => []TypeOK
<1>1. LockInv => TypeOK
  BY DEF LockInv
<1> QED
  BY <1>1, LockAlways, PTL

-----------------------------------------------------------------------------

\* What a step needs to keep the selection invariants when it touches neither
\* the scores nor the recalculation in progress.
LEMMA SelectionUnchanged ==
    ASSUME IInv, LockInv',
           UNCHANGED <<healthy, penalty, head, active, lock, recalcVars>>,
           \A t \in Threads : pc'[t] = pc[t] \/ (pc[t] = "idle" /\ pc'[t] = "probing")
    PROVE  IInv'
<1> USE DEF IInv, LockInv
<1>1. Quiet' => Quiet
  BY DEF Quiet, Threads
<1>2. ActiveIsBest' /\ NoLaggardHealthy'
  BY <1>1 DEF ActiveIsBest, NoLaggardHealthy, IsBest, First, HealthyNodes
<1>3. Undisturbed' => Undisturbed
  BY DEF Undisturbed, Threads
<1>4. lock # NoThread => lock \in Threads /\ pc'[lock] = pc[lock]
  BY DEF TypeOK, ThreadTypes, RecalculationExclusive
<1>5. ScanSoFar' /\ RatedSoFar'
  BY <1>3, <1>4 DEF ScanSoFar, RatedSoFar, Undisturbed, HealthyNodes, recalcVars
<1> QED
  BY <1>2, <1>5

\* Entering the recalculation leaves nothing to show: the scan starts at 1.
LEMMA SelectionEnter ==
    ASSUME IInv, LockInv', NEW t \in Threads, NEW fine, NEW pen, NEW until,
           EnterRecalculate(t, fine, pen, until)
    PROVE  IInv'
<1> USE DEF IInv, LockInv
<1>1. lock' = t /\ pc'[t] = "scan" /\ idx' = 1 /\ t # NoThread
  BY DEF EnterRecalculate, TypeOK, ThreadTypes, Threads
<1>2. ScanSoFar' /\ RatedSoFar'
  BY <1>1 DEF ScanSoFar, RatedSoFar
<1>3. ActiveIsBest' /\ NoLaggardHealthy'
  BY <1>1 DEF ActiveIsBest, NoLaggardHealthy, Quiet
<1> QED
  BY <1>2, <1>3

LEMMA SelectionRecalculate ==
    ASSUME IInv, LockInv', NEW t \in Threads, Recalculate(t)
    PROVE  IInv'
<1> USE DEF IInv, LockInv, TypeOK
<1>0. /\ lock = t /\ t # NoThread
      /\ \A s \in Threads : s # t => pc'[s] = pc[s]
      /\ UNCHANGED <<head, probe>>
  BY DEF Recalculate, Scan, SkipUnhealthy, ReadScore, WriteScore, Pick,
      RecalculationExclusive, ThreadTypes, Threads, nodeVars
<1>1. head \in [Nodes -> Nat] /\ maxBlock \in Nat /\ idx \in 1..(N + 1)
  BY DEF NodeTypes, LocalTypes
<1>2. lock' = t /\ Undisturbed' => Undisturbed
  BY <1>0 DEF Undisturbed, Threads
<1>3. lock' = t => ActiveIsBest' /\ NoLaggardHealthy'
  BY <1>0 DEF ActiveIsBest, NoLaggardHealthy, Quiet
<1>4. CASE Scan(t)
  <2>1. lock' = t /\ UNCHANGED <<healthy, head>> /\ pc[t] = "scan" /\ idx \in Nodes
    BY <1>0, <1>1, <1>4 DEF Scan, nodeVars, LoopBounds, Nodes
  <2>2. /\ maxBlock' \in Nat /\ maxBlock' >= maxBlock
        /\ healthy[idx] => head[idx] <= maxBlock'
    BY <1>1, <1>4, <2>1 DEF Scan
  <2>3. ASSUME Undisturbed' PROVE \A n \in 1..idx : healthy[n] => head[n] <= maxBlock'
    <3>1. \A n \in 1..(idx - 1) : healthy[n] => head[n] <= maxBlock
      BY <1>0, <1>2, <2>1, <2>3 DEF ScanSoFar
    <3>2. \A n \in 1..(idx - 1) : n \in Nodes
      BY <2>1 DEF Nodes
    <3> QED
      BY <1>1, <2>1, <2>2, <3>1, <3>2 DEF Nodes
  <2>4. \/ idx < N /\ idx' = idx + 1 /\ pc'[t] = "scan"
        \/ idx = N /\ idx' = 1 /\ pc'[t] = "read"
    BY <1>4, <2>1 DEF Scan, ThreadTypes, Nodes
  <2>5. ScanSoFar'
    BY <2>1, <2>3, <2>4 DEF ScanSoFar, Nodes
  <2>6. RatedSoFar'
    BY <2>1, <2>3, <2>4 DEF RatedSoFar, HealthyNodes, Nodes
  <2> QED
    BY <1>3, <2>1, <2>5, <2>6
<1>5. CASE SkipUnhealthy(t)
  <2>1. /\ lock' = t /\ UNCHANGED <<healthy, head, maxBlock, verdict, pc>>
        /\ pc[t] = "read" /\ idx \in Nodes /\ ~healthy[idx] /\ idx' = idx + 1
    BY <1>0, <1>1, <1>5 DEF SkipUnhealthy, Nodes
  <2>2. ScanSoFar'
    BY <2>1 DEF ScanSoFar
  <2>3. RatedSoFar'
    BY <1>0, <1>2, <2>1 DEF RatedSoFar, HealthyNodes, Nodes
  <2> QED
    BY <1>3, <2>1, <2>2, <2>3
<1>6. CASE ReadScore(t)
  <2>1. /\ lock' = t /\ UNCHANGED <<healthy, head, maxBlock, idx>>
        /\ pc[t] = "read" /\ pc'[t] = "write" /\ idx \in Nodes /\ healthy[idx]
        /\ verdict' = Score(idx, maxBlock)
    BY <1>0, <1>1, <1>6 DEF ReadScore, Nodes, nodeVars, ThreadTypes
  <2>2. verdict'.healthy => maxBlock - head[idx] <= MaxLag
    BY <1>1, <2>1, ScoreType
  <2>3. ScanSoFar'
    BY <2>1 DEF ScanSoFar
  <2>4. RatedSoFar'
    BY <1>0, <1>2, <2>1, <2>2 DEF RatedSoFar, HealthyNodes, Nodes
  <2> QED
    BY <1>3, <2>1, <2>3, <2>4
<1>7. CASE WriteScore(t)
  <2>1. /\ lock' = t /\ UNCHANGED <<head, maxBlock>>
        /\ pc[t] = "write" /\ pc'[t] = "read" /\ idx \in Nodes /\ idx' = idx + 1
        /\ healthy' = [healthy EXCEPT ![idx] = verdict.healthy]
    BY <1>0, <1>1, <1>7 DEF WriteScore, Nodes, ThreadTypes, LoopBounds
  <2>2. healthy \in [Nodes -> BOOLEAN]
    BY DEF NodeTypes
  <2>3. ScanSoFar'
    BY <2>1 DEF ScanSoFar
  <2>4. ASSUME Undisturbed'
        PROVE  /\ \A n \in Nodes : healthy'[n] => head[n] <= maxBlock
               /\ \A n \in 1..idx : healthy'[n] => maxBlock - head[n] <= MaxLag
    <3>1. /\ \A n \in HealthyNodes : head[n] <= maxBlock
          /\ \A n \in 1..(idx - 1) : healthy[n] => maxBlock - head[n] <= MaxLag
          /\ healthy[idx] /\ (verdict.healthy => maxBlock - head[idx] <= MaxLag)
      BY <1>0, <1>2, <2>1, <2>4 DEF RatedSoFar
    <3>2. \A n \in Nodes : healthy'[n] => healthy[n] /\ (n = idx => verdict.healthy)
      BY <2>1, <2>2, <3>1
    <3>3. \A n \in 1..idx : n \in Nodes /\ (n = idx \/ n \in 1..(idx - 1))
      BY <2>1 DEF Nodes
    <3> QED
      BY <3>1, <3>2, <3>3 DEF HealthyNodes
  <2>5. RatedSoFar'
    <3>1. idx' - 1 = idx
      BY <1>1, <2>1
    <3> QED
      BY <2>1, <2>4, <3>1 DEF RatedSoFar, HealthyNodes
  <2> QED
    BY <1>3, <2>1, <2>3, <2>5
<1>8. CASE Pick(t)
  <2>1. /\ lock' = NoThread /\ UNCHANGED <<healthy, penalty, head>>
        /\ pc[t] = "read" /\ idx = N + 1 /\ IsBest(active')
    BY <1>0, <1>1, <1>8 DEF Pick, nodeVars
  <2>2. ActiveIsBest'
    BY <2>1 DEF ActiveIsBest, IsBest, First, HealthyNodes
  <2>3. ASSUME Quiet' PROVE \A m, n \in HealthyNodes : head[m] - head[n] <= MaxLag
    <3>1. Undisturbed
      BY <1>0, <2>3 DEF Undisturbed, Quiet, Threads
    <3>2. \A n \in HealthyNodes : head[n] <= maxBlock /\ maxBlock - head[n] <= MaxLag
      BY <1>0, <2>1, <3>1 DEF RatedSoFar, HealthyNodes, Nodes
    <3> QED
      BY <1>1, <3>2 DEF HealthyNodes
  <2>4. NoLaggardHealthy'
    BY <2>1, <2>3 DEF NoLaggardHealthy, HealthyNodes
  <2>5. ScanSoFar' /\ RatedSoFar'
    BY <2>1 DEF ScanSoFar, RatedSoFar, Undisturbed
  <2> QED
    BY <2>2, <2>4, <2>5
<1> QED
  BY <1>4, <1>5, <1>6, <1>7, <1>8 DEF Recalculate

\* A probe may write anything: while it runs nobody may rely on the scores.
LEMMA SelectionProbe ==
    ASSUME IInv, LockInv', NEW u \in Updaters, NEW n \in Nodes, Probe(u, n)
    PROVE  IInv'
<1> USE DEF IInv, LockInv
<1>1. pc[u] = "probing" /\ UNCHANGED <<pc, lock>>
  BY DEF Probe, ProbeTimed, ProbeHead, ProbeHealthy, ProbeFailed, ProbeInfinite,
      ProbeStep, ProbesJoined
<1>2. ~Quiet' /\ ~Undisturbed'
  BY <1>1 DEF Quiet, Undisturbed, RecalculationExclusive, Threads
<1> QED
  BY <1>2 DEF ActiveIsBest, NoLaggardHealthy, ScanSoFar, RatedSoFar

LEMMA SelectionInit == Init => IInv
<1> SUFFICES ASSUME Init PROVE IInv
  OBVIOUS
<1>1. LockInv
  BY LockInit
<1>2. ActiveIsBest /\ NoLaggardHealthy
  BY DEF Init, ActiveIsBest, NoLaggardHealthy, IsBest, First, HealthyNodes, Nodes
<1>3. ScanSoFar /\ RatedSoFar
  BY DEF Init, ScanSoFar, RatedSoFar, Undisturbed
<1> QED
  BY <1>1, <1>2, <1>3 DEF IInv

LEMMA SelectionStep == IInv /\ [Next]_vars => IInv'
<1> SUFFICES ASSUME IInv, [Next]_vars PROVE IInv'
  OBVIOUS
<1>0. LockInv'
  BY LockStep DEF IInv
<1>1. ASSUME NEW c \in Callers, Caller(c) PROVE IInv'
  <2> c \in Threads
    BY DEF Threads
  <2>1. CASE GetActive(c) \/ Answered(c)
    BY <1>0, <2>1, SelectionUnchanged DEF GetActive, Answered, nodeVars
  <2>2. CASE GetActiveRecalculating(c)
    BY <1>0, <2>2, SelectionEnter DEF GetActiveRecalculating
  <2>3. CASE MarkNodeFailed(c)
    BY <1>0, <2>3, SelectionEnter DEF MarkNodeFailed
  <2>4. ASSUME NEW r \in RetryAfters, MarkNodeRateLimited(c, r) PROVE IInv'
    BY <1>0, <2>4, SelectionEnter DEF MarkNodeRateLimited
  <2> QED
    BY <1>1, <2>1, <2>2, <2>3, <2>4 DEF Caller
<1>2. ASSUME NEW t \in Threads, Recalculate(t) PROVE IInv'
  BY <1>0, <1>2, SelectionRecalculate
<1>3. ASSUME NEW u \in Updaters, Update(u) PROVE IInv'
  <2> u \in Threads
    BY DEF Threads
  <2>1. CASE StartProbes(u)
    BY <1>0, <2>1, SelectionUnchanged DEF StartProbes, nodeVars, IInv, LockInv,
        TypeOK, ThreadTypes
  <2>2. CASE JoinProbes(u)
    BY <1>0, <2>2, SelectionEnter DEF JoinProbes
  <2> QED
    BY <1>3, <2>1, <2>2 DEF Update
<1>4. ASSUME NEW u \in Updaters, NEW n \in Nodes, Probe(u, n) PROVE IInv'
  BY <1>0, <1>4, SelectionProbe
<1>5. CASE Tick \/ \E n \in Nodes : Flip(n)
  BY <1>0, <1>5, SelectionUnchanged DEF Tick, Flip, nodeVars
<1>6. CASE UNCHANGED vars
  BY <1>0, <1>6, SelectionUnchanged DEF vars, nodeVars, recalcVars
<1> QED
  BY <1>1, <1>2, <1>3, <1>4, <1>5, <1>6 DEF Next

LEMMA SelectionAlways == Spec => []IInv
  BY SelectionInit, SelectionStep, PTL DEF Spec

\* Whenever no thread is inside the pool, get_active_node would hand out the
\* node that the present flags and penalties make the best one.
THEOREM ActiveIsAlwaysBest == Spec => []ActiveIsBest
<1>1. IInv => ActiveIsBest
  BY DEF IInv
<1> QED
  BY <1>1, SelectionAlways, PTL

\* Whenever no thread is inside the pool, the healthy nodes are within max_lag
\* blocks of each other.
THEOREM LaggardsAreDown == Spec => []NoLaggardHealthy
<1>1. IInv => NoLaggardHealthy
  BY DEF IInv
<1> QED
  BY <1>1, SelectionAlways, PTL

-----------------------------------------------------------------------------

\* The step of a caller that reports a node or asks for the active one.
LEMMA CooldownEnter ==
    ASSUME IInv, CooldownInv, LockInv', NEW t \in Threads, NEW bad \in SUBSET Nodes,
           NEW pen, NEW until \in [Nodes -> Nat],
           \A n \in Nodes : n \notin bad => until[n] = limitedUntil[n],
           NEW fine \in [Nodes -> BOOLEAN],
           \A n \in Nodes : fine[n] = (n \notin bad /\ healthy[n]),
           EnterRecalculate(t, fine, pen, until)
    PROVE  CooldownInv'
<1>1. /\ clock' = clock /\ clock \in Nat
      /\ \A n \in Nodes :
            /\ limitedUntil'[n] = IF until[n] # 0 /\ until[n] <= clock THEN 0 ELSE until[n]
            /\ healthy'[n] = ((until[n] # 0 /\ until[n] <= clock) \/ fine[n])
  BY DEF EnterRecalculate, IInv, LockInv, TypeOK, EnvTypes
<1>2. \A n \in Nodes : limitedUntil'[n] > clock => ~healthy'[n]
  BY <1>1 DEF CooldownInv
<1>3. \A s \in Threads : pc'[s] # "write"
  BY DEF EnterRecalculate, IInv, LockInv, TypeOK, ThreadTypes,
      RecalculationExclusive, Threads
<1> QED
  BY <1>1, <1>2, <1>3 DEF CooldownInv

LEMMA CooldownStep ==
    ASSUME Updaters = {}
    PROVE  IInv /\ CooldownInv /\ [Next]_vars => CooldownInv'
<1> SUFFICES ASSUME IInv, CooldownInv, [Next]_vars PROVE CooldownInv'
  OBVIOUS
<1>0. LockInv' /\ LockInv /\ TypeOK
  BY LockStep DEF IInv, LockInv
<1>a. /\ healthy \in [Nodes -> BOOLEAN] /\ limitedUntil \in [Nodes -> Nat]
      /\ clock \in Nat
  BY <1>0 DEF TypeOK, NodeTypes, EnvTypes
<1>1. ASSUME NEW c \in Callers, Caller(c) PROVE CooldownInv'
  <2> c \in Threads
    BY DEF Threads
  <2>1. CASE GetActive(c) \/ Answered(c)
    BY <2>1 DEF GetActive, Answered, CooldownInv, nodeVars, recalcVars, envVars
  <2>2. CASE GetActiveRecalculating(c)
    <3>1. EnterRecalculate(c, healthy, penalty, limitedUntil)
      BY <2>2 DEF GetActiveRecalculating
    <3>2. {} \in SUBSET Nodes /\ \A n \in Nodes : healthy[n] = (n \notin {} /\ healthy[n])
      BY <1>a
    <3> QED
      BY <1>0, <1>a, <3>1, <3>2, CooldownEnter
  <2>3. CASE MarkNodeFailed(c)
    <3> DEFINE n == held[c]
               fine == [healthy EXCEPT ![n] = FALSE]
    <3>1. EnterRecalculate(c, fine, [penalty EXCEPT ![n] = Inf], limitedUntil)
      BY <2>3 DEF MarkNodeFailed
    <3>2. /\ n \in Nodes
          /\ fine \in [Nodes -> BOOLEAN]
          /\ \A m \in Nodes : fine[m] = (m \notin {n} /\ healthy[m])
      BY <1>0, <1>a, <2>3 DEF MarkNodeFailed, TypeOK, ThreadTypes
    <3> HIDE DEF n, fine
    <3> QED
      BY <1>0, <1>a, <3>1, <3>2, CooldownEnter
  <2>4. ASSUME NEW r \in RetryAfters, MarkNodeRateLimited(c, r) PROVE CooldownInv'
    <3> DEFINE n == held[c]
               fine == [healthy EXCEPT ![n] = FALSE]
               until == [limitedUntil EXCEPT ![n] = clock + r]
    <3>1. EnterRecalculate(c, fine, [penalty EXCEPT ![n] = Inf], until)
      BY <2>4 DEF MarkNodeRateLimited
    <3>2. /\ n \in Nodes
          /\ fine \in [Nodes -> BOOLEAN]
          /\ until \in [Nodes -> Nat]
          /\ \A m \in Nodes : fine[m] = (m \notin {n} /\ healthy[m])
          /\ \A m \in Nodes : m \notin {n} => until[m] = limitedUntil[m]
      <4>1. n \in Nodes
        BY <1>0, <2>4 DEF MarkNodeRateLimited, TypeOK, ThreadTypes
      <4>2. clock + r \in Nat
        BY <1>a
      <4> HIDE DEF n
      <4> QED
        BY <1>a, <4>1, <4>2
    <3> HIDE DEF n, fine, until
    <3> QED
      BY <1>0, <1>a, <3>1, <3>2, CooldownEnter
  <2> QED
    BY <1>1, <2>1, <2>2, <2>3, <2>4 DEF Caller
<1>2. ASSUME NEW t \in Threads, Recalculate(t) PROVE CooldownInv'
  <2>0. /\ UNCHANGED <<limitedUntil, clock>>
        /\ \A s \in Threads : pc[s] \in {"scan", "read", "write"} => s = t
        /\ \A s \in Threads : s # t => pc'[s] = pc[s]
    BY <1>0, <1>2 DEF Recalculate, Scan, SkipUnhealthy, ReadScore, WriteScore, Pick,
        LockInv, TypeOK, ThreadTypes, RecalculationExclusive, nodeVars, envVars
  <2>1. CASE WriteScore(t)
    <3>1. pc'[t] = "read" /\ healthy' = [healthy EXCEPT ![idx] = verdict.healthy]
          /\ pc[t] = "write"
      BY <1>0, <2>1 DEF WriteScore, TypeOK, ThreadTypes
    <3>2. \A n \in Nodes : healthy'[n] => healthy[n]
      BY <1>a, <3>1 DEF CooldownInv
    <3> QED
      BY <2>0, <3>1, <3>2 DEF CooldownInv
  <2>2. CASE ReadScore(t)
    BY <2>0, <2>2 DEF ReadScore, CooldownInv, nodeVars
  <2>3. CASE Scan(t) \/ SkipUnhealthy(t) \/ Pick(t)
    <3>1. healthy' = healthy /\ pc'[t] # "write"
      BY <1>0, <2>3 DEF Scan, SkipUnhealthy, Pick, TypeOK, ThreadTypes, nodeVars
    <3> QED
      BY <2>0, <3>1 DEF CooldownInv
  <2> QED
    BY <1>2, <2>1, <2>2, <2>3 DEF Recalculate
<1>3. CASE Tick
  BY <1>3, <1>a DEF Tick, CooldownInv, nodeVars, recalcVars
<1>4. CASE \E n \in Nodes : Flip(n)
  BY <1>4 DEF Flip, CooldownInv, nodeVars, recalcVars
<1>5. CASE UNCHANGED vars
  BY <1>5 DEF vars, CooldownInv, nodeVars, recalcVars, envVars
<1> QED
  BY <1>1, <1>2, <1>3, <1>4, <1>5 DEF Next

-----------------------------------------------------------------------------

\* Entering the recalculation revives expired nodes and nodes that were fine.
LEMMA ReviveEnter ==
    ASSUME NEW t, NEW fine, NEW pen, NEW until,
           EnterRecalculate(t, fine, pen, until), NEW n \in Nodes, healthy'[n]
    PROVE  fine[n] \/ (until[n] # 0 /\ until[n] <= clock)
  BY DEF EnterRecalculate

LEMMA Revive ==
    ASSUME IInv, CooldownInv, Updaters = {}, [Next]_vars
    PROVE  ReviveStep
<1> SUFFICES ASSUME NEW n \in Nodes, ~healthy[n], healthy'[n]
             PROVE  n \in Expired(clock) \/ ZeroCooldown(n)
  BY DEF ReviveStep
<1>0. /\ TypeOK /\ RecalculationExclusive
      /\ healthy \in [Nodes -> BOOLEAN] /\ limitedUntil \in [Nodes -> Nat]
      /\ clock \in Nat
  BY DEF IInv, LockInv, TypeOK, NodeTypes, EnvTypes
<1>1. ASSUME NEW c \in Callers, GetActiveRecalculating(c) PROVE n \in Expired(clock)
  BY <1>1, ReviveEnter DEF GetActiveRecalculating, Expired
<1>2. ASSUME NEW c \in Callers, MarkNodeFailed(c) PROVE n \in Expired(clock)
  <2>1. ~[healthy EXCEPT ![held[c]] = FALSE][n]
    BY <1>0
  <2> QED
    BY <1>2, <2>1, ReviveEnter DEF MarkNodeFailed, Expired
<1>3. ASSUME NEW c \in Callers, NEW r \in RetryAfters, MarkNodeRateLimited(c, r)
      PROVE  n \in Expired(clock) \/ ZeroCooldown(n)
  <2>1. ~[healthy EXCEPT ![held[c]] = FALSE][n]
    BY <1>0
  <2>2. /\ [limitedUntil EXCEPT ![held[c]] = clock + r][n] # 0
        /\ [limitedUntil EXCEPT ![held[c]] = clock + r][n] <= clock
    BY <1>3, <2>1, ReviveEnter DEF MarkNodeRateLimited
  <2>3. CASE n # held[c]
    BY <1>0, <2>2, <2>3 DEF Expired
  <2>4. CASE n = held[c]
    <3>1. clock + r <= clock
      BY <1>0, <2>2, <2>4
    <3>2. r = 0
      BY <1>0, <3>1
    <3>3. errorCnt' = errorCnt /\ pc[c] = "idle" /\ lock' = c
      BY <1>3 DEF MarkNodeRateLimited, EnterRecalculate
    <3> QED
      BY <2>4, <3>2, <3>3 DEF ZeroCooldown
  <2> QED
    BY <2>3, <2>4
<1>4. ASSUME NEW t \in Threads, WriteScore(t) PROVE FALSE
  BY <1>0, <1>4 DEF WriteScore, CooldownInv
<1>5. CASE healthy' = healthy
  BY <1>5
<1>6. ASSUME NEW c \in Callers, Caller(c) PROVE n \in Expired(clock) \/ ZeroCooldown(n)
  <2>1. CASE GetActive(c) \/ Answered(c)
    BY <1>5, <2>1 DEF GetActive, Answered, nodeVars
  <2> QED
    BY <1>1, <1>2, <1>3, <1>6, <2>1 DEF Caller
<1>7. ASSUME NEW t \in Threads, Recalculate(t) PROVE n \in Expired(clock)
  <2>1. CASE Scan(t) \/ SkipUnhealthy(t) \/ ReadScore(t) \/ Pick(t)
    BY <1>5, <2>1 DEF Scan, SkipUnhealthy, ReadScore, Pick, nodeVars
  <2> QED
    BY <1>4, <1>7, <2>1 DEF Recalculate
<1>8. CASE Tick \/ (\E m \in Nodes : Flip(m)) \/ UNCHANGED vars
  BY <1>5, <1>8 DEF Tick, Flip, vars, nodeVars
<1> QED
  BY <1>6, <1>7, <1>8 DEF Next

LEMMA CooldownAlways == Updaters = {} => (Spec => []CooldownInv)
<1> SUFFICES ASSUME Updaters = {} PROVE Spec => []CooldownInv
  OBVIOUS
<1>1. Init => CooldownInv
  BY DEF Init, CooldownInv, Threads
<1>2. IInv /\ CooldownInv /\ [Next]_vars => CooldownInv'
  BY CooldownStep
<1> QED
  BY <1>1, <1>2, SelectionAlways, PTL DEF Spec

\* With background monitoring off (the default), a rate-limited node is not
\* used before its cooldown is over, unless no other node is healthy.
THEOREM CooldownsHold == Updaters = {} => (Spec => []CooldownHonoured)
<1> SUFFICES ASSUME Updaters = {} PROVE Spec => []CooldownHonoured
  OBVIOUS
<1>1. IInv /\ CooldownInv => CooldownHonoured
  BY DEF IInv, LockInv, TypeOK, ThreadTypes, CooldownInv, CooldownHonoured, ActiveIsBest, IsBest,
      First, HealthyNodes
<1>2. Spec => []CooldownInv
  BY CooldownAlways
<1> QED
  BY <1>1, <1>2, SelectionAlways, PTL

\* With background monitoring off, a node that was marked down comes back in
\* the step that finds its own cooldown over, and in no other: no
\* recalculation and no report about another node revives it.
THEOREM OnlyCooldownsRevive == Updaters = {} => (Spec => RevivedByCooldownOnly)
<1> SUFFICES ASSUME Updaters = {} PROVE Spec => RevivedByCooldownOnly
  OBVIOUS
<1>1. IInv /\ CooldownInv /\ [Next]_vars => [ReviveStep]_vars
  BY Revive
<1>2. Spec => []CooldownInv
  BY CooldownAlways
<1> QED
  BY <1>1, <1>2, SelectionAlways, PTL DEF Spec, RevivedByCooldownOnly


-----------------------------------------------------------------------------
(***************************************************************************)
(* PoolMonitor.  One inductive invariant carries the three results: a      *)
(* thread that has joined a monitor holds a dead one (so that forgetting   *)
(* it loses none that runs), and a monitor that runs although the event is *)
(* set has a thread waiting for it.                                        *)
(***************************************************************************)

\* Monitors beyond the counter do not exist; the others known are not newer.
Created ==
    /\ \A m \in Monitors : m > created => monitor[m] = "none"
    /\ current <= created
    /\ \A t \in Owners : captured[t] <= created

\* What a thread has joined is dead.
JoinedIsDead == \A t \in Owners : at[t] = "forget" => ~Alive(captured[t])

\* A monitor that outlives its stop signal is being waited for.
SignalledIsAwaited ==
    stopEvent => \A m \in Monitors : Alive(m) =>
        \E t \in Owners : at[t] = "join" /\ captured[t] = m

MonitorIInv ==
    /\ MonitorTypeOK
    /\ Created
    /\ OnlyKnownMonitorRuns
    /\ JoinedIsDead
    /\ SignalledIsAwaited

-----------------------------------------------------------------------------

\* The first state: no monitor exists, nobody stops anything.
LEMMA MonitorInitInv == MonitorInit => MonitorIInv
<1> SUFFICES ASSUME MonitorInit PROVE MonitorIInv
  OBVIOUS
<1> USE MonitorAssumption DEF MonitorInit, Monitors
<1>1. MonitorTypeOK
  <2>1. poolLock \notin Monitors /\ 0 \in 0..MaxStarts
    OBVIOUS
  <2> QED
    BY <2>1 DEF MonitorTypeOK
<1>2. Created
  BY DEF Created
<1>3. OnlyKnownMonitorRuns /\ JoinedIsDead /\ SignalledIsAwaited
  BY DEF OnlyKnownMonitorRuns, JoinedIsDead, SignalledIsAwaited, Alive
<1> QED
  BY <1>1, <1>2, <1>3 DEF MonitorIInv

\* A new monitor is started only when the known one is dead, and clears the event.
LEMMA StartInv ==
    ASSUME MonitorIInv, NEW t \in Owners, Start(t)
    PROVE  MonitorIInv'
<1> USE MonitorAssumption DEF MonitorIInv, Start, Monitors
<1>1. created + 1 \in Monitors /\ created + 1 \in 0..MaxStarts
  BY DEF MonitorTypeOK
<1>2. MonitorTypeOK'
  <2>1. poolLock' \notin Monitors
    OBVIOUS
  <2> QED
    BY <1>1, <2>1 DEF MonitorTypeOK
<1>3. Created'
  BY DEF MonitorTypeOK, Created
<1>4. OnlyKnownMonitorRuns'
  BY DEF MonitorTypeOK, Created, OnlyKnownMonitorRuns, Alive
<1>5. JoinedIsDead'
  BY DEF MonitorTypeOK, Created, JoinedIsDead, Alive
<1>6. SignalledIsAwaited'
  BY DEF SignalledIsAwaited
<1> QED
  BY <1>2, <1>3, <1>4, <1>5, <1>6

\* The thread that sets the event waits for the only monitor that can be alive.
LEMMA StopInv ==
    ASSUME MonitorIInv, NEW t \in Owners, Stop(t)
    PROVE  MonitorIInv'
<1> USE MonitorAssumption DEF MonitorIInv, Stop, Monitors
<1>1. MonitorTypeOK'
  BY DEF MonitorTypeOK
<1>2. Created'
  BY DEF MonitorTypeOK, Created
<1>3. OnlyKnownMonitorRuns'
  BY DEF OnlyKnownMonitorRuns, Alive
<1>4. JoinedIsDead'
  BY DEF MonitorTypeOK, JoinedIsDead, Alive
<1>5. SignalledIsAwaited'
  BY DEF MonitorTypeOK, OnlyKnownMonitorRuns, SignalledIsAwaited, Alive
<1> QED
  BY <1>1, <1>2, <1>3, <1>4, <1>5

\* join() returns for a dead monitor only.
LEMMA JoinInv ==
    ASSUME MonitorIInv, NEW t \in Owners, Join(t)
    PROVE  MonitorIInv'
<1> USE MonitorAssumption DEF MonitorIInv, Join, Monitors
<1>1. MonitorTypeOK' /\ Created' /\ OnlyKnownMonitorRuns'
  BY DEF MonitorTypeOK, Created, OnlyKnownMonitorRuns, Alive
<1>2. JoinedIsDead'
  BY DEF MonitorTypeOK, JoinedIsDead, Alive
<1>3. SignalledIsAwaited'
  BY DEF MonitorTypeOK, SignalledIsAwaited, Alive
<1> QED
  BY <1>1, <1>2, <1>3

\* The monitor forgotten is the one joined, and that one is dead.
LEMMA ForgetInv ==
    ASSUME MonitorIInv, NEW t \in Owners, Forget(t)
    PROVE  MonitorIInv'
<1> USE MonitorAssumption DEF MonitorIInv, Forget, Monitors
<1>1. MonitorTypeOK' /\ Created'
  BY DEF MonitorTypeOK, Created
<1>2. OnlyKnownMonitorRuns'
  BY DEF MonitorTypeOK, OnlyKnownMonitorRuns, JoinedIsDead, Alive
<1>3. JoinedIsDead'
  BY DEF MonitorTypeOK, JoinedIsDead, Alive
<1>4. SignalledIsAwaited'
  BY DEF MonitorTypeOK, SignalledIsAwaited, Alive
<1> QED
  BY <1>1, <1>2, <1>3, <1>4

\* The monitor's own steps create none, and bring none back to life.
LEMMA LoopInv ==
    ASSUME MonitorIInv, NEW m \in Monitors, Loop(m)
    PROVE  MonitorIInv'
<1> USE MonitorAssumption DEF MonitorIInv, Monitors
<1> USE DEF Loop, Test, Lock, Unlock, Wake, Move
<1>1. MonitorTypeOK'
  BY DEF MonitorTypeOK
<1>2. Created'
  BY DEF MonitorTypeOK, Created
<1>3. \A k \in Monitors : Alive(k)' => Alive(k)
  BY DEF MonitorTypeOK, Alive
<1>4. OnlyKnownMonitorRuns'
  BY <1>3 DEF OnlyKnownMonitorRuns
<1>5. JoinedIsDead'
  BY <1>3 DEF MonitorTypeOK, JoinedIsDead, Alive
<1>6. SignalledIsAwaited'
  BY <1>3 DEF SignalledIsAwaited
<1> QED
  BY <1>1, <1>2, <1>4, <1>5, <1>6

\* Every step keeps the invariant.
LEMMA MonitorNextInv == MonitorIInv /\ [MonitorNext]_monitorVars => MonitorIInv'
<1> SUFFICES ASSUME MonitorIInv, [MonitorNext]_monitorVars PROVE MonitorIInv'
  OBVIOUS
<1>1. CASE MonitorNext
  BY <1>1, StartInv, StopInv, JoinInv, ForgetInv, LoopInv DEF MonitorNext
<1>2. CASE UNCHANGED monitorVars
  BY <1>2 DEF monitorVars, MonitorIInv, MonitorTypeOK, Created, OnlyKnownMonitorRuns, JoinedIsDead,
              SignalledIsAwaited, Alive
<1> QED
  BY <1>1, <1>2

\* The invariant holds in every behaviour.
LEMMA MonitorInvariance == MonitorSpec => []MonitorIInv
  BY MonitorInitInv, MonitorNextInv, PTL DEF MonitorSpec

-----------------------------------------------------------------------------

\* The variables keep their types and the lock is held only inside a round, for
\* any number of threads that start and stop the monitor.
THEOREM MonitorTypeCorrect == MonitorSpec => []MonitorTypeOK
  BY MonitorInvariance, PTL DEF MonitorIInv

\* Never two monitors: start_monitoring and stop_monitoring in any order leave at
\* most one running, and it is the one that the pool can stop.
THEOREM NoSecondMonitor == MonitorSpec => []OnlyKnownMonitorRuns
  BY MonitorInvariance, PTL DEF MonitorIInv

\* When every stop_monitoring has returned and the event is still set, no monitor
\* is left running.
THEOREM StoppedMonitorsAreGone == MonitorSpec => []StoppedIsGone
<1>1. MonitorIInv => StoppedIsGone
  BY DEF MonitorIInv, SignalledIsAwaited, StoppedIsGone
<1> QED
  BY <1>1, MonitorInvariance, PTL
=============================================================================
