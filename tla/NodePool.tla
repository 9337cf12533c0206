------------------------------- MODULE NodePool -------------------------------
(***************************************************************************)
(* NodePoolManager (nectarapi/pool.py): the RPC endpoints of one client,   *)
(* their scores, and the choice of the active one.                         *)
(*                                                                         *)
(* Callers are the request threads that go through a failover transport:   *)
(* each asks for the active node, sends to it, and reports a failure or a  *)
(* rate limit of that same node later.  Updaters are the threads that run  *)
(* update_pool(): the NodePoolMonitor thread, or an application thread.    *)
(* An updater starts one probe thread per node, joins them, recalculates.  *)
(*                                                                         *)
(* get_active_node, mark_node_failed, mark_node_rate_limited and           *)
(* _recalculate_best_node hold the pool's RLock; probe threads never take  *)
(* it.  So the recalculation is modelled one access at a time: it scans    *)
(* the heads (pc "scan"), reads (pc "read") and rewrites (pc "write") one  *)
(* node after another, then picks.  Probe writes fall in between.          *)
(***************************************************************************)
EXTENDS Integers

CONSTANTS
    N,           \* number of configured nodes, 1..N in the order of the list
    MaxLag,      \* max_lag: blocks a node may be behind and still be used
    Callers,     \* request threads
    Updaters,    \* threads that run update_pool
    NoThread,    \* the value of lock when it is free
    Heads,       \* head block numbers a node may report
    Latencies,   \* round trip times a probe may measure
    Inf,         \* float("inf"), a number above every finite penalty
    LagPenalty,  \* the 100000 ms added to a node that lags too far behind
    RetryAfters, \* cooldowns a 429 answer may ask for
    MaxClock,    \* bound on the monotonic clock
    MaxReports,  \* bound on the failures and rate limits reported
    MaxFlips     \* bound on how often nodes go down or come back

ASSUME NodesAssumption == N \in Nat \ {0} /\ MaxLag \in Nat
ASSUME PenaltyAssumption == Inf \in Nat /\ LagPenalty \in Nat
ASSUME ThreadsAssumption ==
    /\ Callers \cap Updaters = {}
    /\ NoThread \notin Callers \cup Updaters
ASSUME DataAssumption ==
    /\ Heads \subseteq Nat
    /\ Latencies \subseteq Nat
    /\ RetryAfters \subseteq Nat
ASSUME BoundsAssumption ==
    MaxClock \in Nat /\ MaxReports \in Nat /\ MaxFlips \in Nat

Nodes == 1..N
Threads == Callers \cup Updaters

VARIABLES
    \* RPCNode fields
    healthy, penalty, errorCnt, limitedUntil, head, latency,
    active,      \* _active_node
    lock,        \* holder of the RLock
    pc,          \* what each thread is doing
    idx,         \* the lock holder's loop position in _recalculate_best_node
    maxBlock,    \* ... its max_block
    verdict,     \* ... the score it has computed but not yet stored
    held,        \* the node a caller got and is talking to, 0 if none
    probe,       \* progress of each probe thread
    clock,       \* time.monotonic()
    up, flips,   \* which nodes answer at the moment, and how often that changed
    reports      \* how many reports callers have made

nodeVars == <<healthy, penalty, errorCnt, limitedUntil, head, latency>>
recalcVars == <<idx, maxBlock, verdict>>
envVars == <<clock, up, flips, reports>>
vars == <<nodeVars, active, lock, pc, recalcVars, held, probe, envVars>>

-----------------------------------------------------------------------------

\* Nodes whose cooldown is over at time now; 0.0 means no cooldown.
Expired(now) == {n \in Nodes : limitedUntil[n] # 0 /\ limitedUntil[n] <= now}

Drift(n, top) == IF top > head[n] THEN top - head[n] ELSE 0

\* Mutant: a node that lags too far behind keeps its health flag.
LaggardScore(n, top) ==
    [healthy |-> TRUE,
     penalty |-> latency[n] + (IF Drift(n, top) > MaxLag THEN LagPenalty
                                                         ELSE Drift(n, top) * 100)]

\* The score of a node that is not down, given the highest head block.
Score(n, top) ==
    IF Drift(n, top) > MaxLag
    THEN [healthy |-> FALSE, penalty |-> latency[n] + LagPenalty]
    ELSE [healthy |-> TRUE, penalty |-> latency[n] + Drift(n, top) * 100]

\* b comes first in S when S is sorted by penalty (the sort is stable).
First(S, b) ==
    /\ b \in S
    /\ \A n \in S : \/ penalty[b] < penalty[n]
                    \/ penalty[b] = penalty[n] /\ b <= n

HealthyNodes == {n \in Nodes : healthy[n]}

\* The sort of _recalculate_best_node: among the healthy, or among all.
IsBest(b) == First(IF HealthyNodes # {} THEN HealthyNodes ELSE Nodes, b)

NoVerdict == [healthy |-> TRUE, penalty |-> 0]

-----------------------------------------------------------------------------

Init ==
    /\ healthy = [n \in Nodes |-> TRUE]
    /\ penalty = [n \in Nodes |-> 0]
    /\ errorCnt = [n \in Nodes |-> 0]
    /\ limitedUntil = [n \in Nodes |-> 0]
    /\ head = [n \in Nodes |-> 0]
    /\ latency = [n \in Nodes |-> 0]
    /\ active = 1
    /\ lock = NoThread
    /\ pc = [t \in Threads |-> "idle"]
    /\ idx = 1
    /\ maxBlock = 0
    /\ verdict = NoVerdict
    /\ held = [c \in Callers |-> 0]
    /\ probe = [u \in Updaters |-> [n \in Nodes |-> "off"]]
    /\ clock = 1
    /\ up \in [Nodes -> BOOLEAN]
    /\ flips = 0
    /\ reports = 0

\* Thread t takes the lock with the flags fine, the penalties pen and the
\* cooldowns until, and enters _recalculate_best_node, whose first loop
\* restores every node whose cooldown has expired by now.
EnterRecalculate(t, fine, pen, until) ==
    LET over == {n \in Nodes : until[n] # 0 /\ until[n] <= clock}
    IN /\ lock = NoThread
       /\ lock' = t
       /\ limitedUntil' = [n \in Nodes |-> IF n \in over THEN 0 ELSE until[n]]
       /\ healthy' = [n \in Nodes |-> n \in over \/ fine[n]]
       /\ penalty' = [n \in Nodes |-> IF n \in over THEN 0 ELSE pen[n]]
       /\ pc' = [pc EXCEPT ![t] = "scan"]
       /\ idx' = 1
       /\ maxBlock' = 0
       /\ UNCHANGED <<head, latency, active, verdict, probe, clock, up, flips>>

\* get_active_node, no cooldown over: the active node as it stands.
GetActive(c) ==
    /\ pc[c] = "idle" /\ held[c] = 0 /\ lock = NoThread
    /\ Expired(clock) = {}
    /\ held' = [held EXCEPT ![c] = active]
    /\ UNCHANGED <<nodeVars, active, lock, pc, recalcVars, probe, envVars>>

\* get_active_node, some cooldown over: recalculate first.
GetActiveRecalculating(c) ==
    /\ pc[c] = "idle" /\ held[c] = 0
    /\ Expired(clock) # {}
    /\ EnterRecalculate(c, healthy, penalty, limitedUntil)
    /\ UNCHANGED <<errorCnt, held, reports>>

\* mark_node_failed, for the node the caller was talking to.
MarkNodeFailed(c) ==
    LET n == held[c]
    IN /\ pc[c] = "idle" /\ n # 0
       /\ reports < MaxReports
       /\ reports' = reports + 1
       /\ errorCnt' = [errorCnt EXCEPT ![n] = @ + 1]
       /\ EnterRecalculate(c, [healthy EXCEPT ![n] = FALSE],
                           [penalty EXCEPT ![n] = Inf], limitedUntil)
       /\ UNCHANGED held

\* Mutant: only the cooldown is recorded, the flag is left alone.
RateLimitedStillHealthy(c, retryAfter) ==
    LET n == held[c]
    IN /\ pc[c] = "idle" /\ n # 0
       /\ clock + retryAfter <= MaxClock
       /\ reports < MaxReports
       /\ reports' = reports + 1
       /\ EnterRecalculate(c, healthy, penalty,
                           [limitedUntil EXCEPT ![n] = clock + retryAfter])
       /\ UNCHANGED <<errorCnt, held>>

\* mark_node_rate_limited.
MarkNodeRateLimited(c, retryAfter) ==
    LET n == held[c]
    IN /\ pc[c] = "idle" /\ n # 0
       /\ clock + retryAfter <= MaxClock
       /\ reports < MaxReports
       /\ reports' = reports + 1
       /\ EnterRecalculate(c, [healthy EXCEPT ![n] = FALSE],
                           [penalty EXCEPT ![n] = Inf],
                           [limitedUntil EXCEPT ![n] = clock + retryAfter])
       /\ UNCHANGED <<errorCnt, held>>

\* The request was answered: the caller forgets the node.
Answered(c) ==
    /\ pc[c] = "idle" /\ held[c] # 0
    /\ held' = [held EXCEPT ![c] = 0]
    /\ UNCHANGED <<nodeVars, active, lock, pc, recalcVars, probe, envVars>>

\* max_block, one node further.
Scan(t) ==
    /\ pc[t] = "scan"
    /\ maxBlock' = IF healthy[idx] /\ head[idx] > maxBlock THEN head[idx] ELSE maxBlock
    /\ IF idx < N
       THEN idx' = idx + 1 /\ UNCHANGED pc
       ELSE idx' = 1 /\ pc' = [pc EXCEPT ![t] = "read"]
    /\ UNCHANGED <<nodeVars, active, lock, verdict, held, probe, envVars>>

\* An unhealthy node: its penalty becomes infinite.
SkipUnhealthy(t) ==
    /\ pc[t] = "read" /\ idx <= N /\ ~healthy[idx]
    /\ penalty' = [penalty EXCEPT ![idx] = Inf]
    /\ idx' = idx + 1
    /\ UNCHANGED <<healthy, errorCnt, limitedUntil, head, latency, active, lock,
                   pc, maxBlock, verdict, held, probe, envVars>>

\* A healthy node: compute its drift and its score ...
ReadScore(t) ==
    /\ pc[t] = "read" /\ idx <= N /\ healthy[idx]
    /\ verdict' = Score(idx, maxBlock)
    /\ pc' = [pc EXCEPT ![t] = "write"]
    /\ UNCHANGED <<nodeVars, active, lock, idx, maxBlock, held, probe, envVars>>

\* ... and store it, over whatever a probe has written in the meantime.
WriteScore(t) ==
    /\ pc[t] = "write"
    /\ healthy' = [healthy EXCEPT ![idx] = verdict.healthy]
    /\ penalty' = [penalty EXCEPT ![idx] = verdict.penalty]
    /\ idx' = idx + 1
    /\ pc' = [pc EXCEPT ![t] = "read"]
    /\ UNCHANGED <<errorCnt, limitedUntil, head, latency, active, lock, maxBlock,
                   verdict, held, probe, envVars>>

\* Mutant: when every node is down, all flags are reset.
ResettingPick(t) ==
    /\ pc[t] = "read" /\ idx > N
    /\ \E b \in Nodes :
          /\ IsBest(b)
          /\ active' = b
          /\ held' = [c \in Callers |-> IF c = t THEN IF held[c] = 0 THEN b ELSE 0
                                                 ELSE held[c]]
    /\ healthy' = [n \in Nodes |-> HealthyNodes = {} \/ healthy[n]]
    /\ lock' = NoThread
    /\ pc' = [pc EXCEPT ![t] = "idle"]
    /\ idx' = 1 /\ maxBlock' = 0 /\ verdict' = NoVerdict
    /\ UNCHANGED <<penalty, errorCnt, limitedUntil, head, latency, probe, envVars>>

\* The sort, the choice, and the release of the lock.  A caller that was in
\* get_active_node now holds the choice; one that reported is done.
Pick(t) ==
    /\ pc[t] = "read" /\ idx > N
    /\ \E b \in Nodes :
          /\ IsBest(b)
          /\ active' = b
          /\ held' = [c \in Callers |-> IF c = t THEN IF held[c] = 0 THEN b ELSE 0
                                                 ELSE held[c]]
    /\ lock' = NoThread
    /\ pc' = [pc EXCEPT ![t] = "idle"]
    /\ idx' = 1 /\ maxBlock' = 0 /\ verdict' = NoVerdict
    /\ UNCHANGED <<nodeVars, probe, envVars>>

-----------------------------------------------------------------------------

\* update_pool starts a probe thread per node ...
StartProbes(u) ==
    /\ pc[u] = "idle"
    /\ pc' = [pc EXCEPT ![u] = "probing"]
    /\ probe' = [probe EXCEPT ![u] = [n \in Nodes |-> "sent"]]
    /\ UNCHANGED <<nodeVars, active, lock, recalcVars, held, envVars>>

\* Mutant: the recalculation does not wait for the probes.
JoinNothing(u) ==
    /\ pc[u] = "probing"
    /\ EnterRecalculate(u, healthy, penalty, limitedUntil)
    /\ UNCHANGED <<errorCnt, held, reports>>

\* ... joins them all, and recalculates.
JoinProbes(u) ==
    /\ pc[u] = "probing"
    /\ \A n \in Nodes : probe[u][n] = "off"
    /\ EnterRecalculate(u, healthy, penalty, limitedUntil)
    /\ UNCHANGED <<errorCnt, held, reports>>

ProbeStep(u, n, from, to) ==
    /\ probe[u][n] = from
    /\ probe' = [probe EXCEPT ![u][n] = to]
    /\ UNCHANGED <<errorCnt, limitedUntil, active, lock, pc, recalcVars, held, envVars>>

\* An HTTP answer arrived, good or bad: the latency is stored.
ProbeTimed(u, n) ==
    /\ ProbeStep(u, n, "sent", "timed")
    /\ latency' \in {[latency EXCEPT ![n] = l] : l \in Latencies}
    /\ UNCHANGED <<healthy, penalty, head>>

\* A valid answer: the head block is stored, then the node is healthy.
ProbeHead(u, n) ==
    /\ up[n]
    /\ ProbeStep(u, n, "timed", "headed")
    /\ head' \in {[head EXCEPT ![n] = h] : h \in Heads}
    /\ UNCHANGED <<healthy, penalty, latency>>

\* Mutant: a valid answer does not restore the health flag.
ProbeKeepsFlag(u, n) ==
    /\ ProbeStep(u, n, "headed", "off")
    /\ UNCHANGED <<healthy, penalty, head, latency>>

ProbeHealthy(u, n) ==
    /\ ProbeStep(u, n, "headed", "off")
    /\ healthy' = [healthy EXCEPT ![n] = TRUE]
    /\ UNCHANGED <<penalty, head, latency>>

\* No answer, or an invalid one: not healthy, then an infinite penalty.
ProbeFailed(u, n) ==
    /\ ~up[n]
    /\ \/ ProbeStep(u, n, "sent", "failed")
       \/ ProbeStep(u, n, "timed", "failed")
    /\ healthy' = [healthy EXCEPT ![n] = FALSE]
    /\ UNCHANGED <<penalty, head, latency>>

ProbeInfinite(u, n) ==
    /\ ProbeStep(u, n, "failed", "off")
    /\ penalty' = [penalty EXCEPT ![n] = Inf]
    /\ UNCHANGED <<healthy, head, latency>>

-----------------------------------------------------------------------------

Tick ==
    /\ clock < MaxClock
    /\ clock' = clock + 1
    /\ UNCHANGED <<nodeVars, active, lock, pc, recalcVars, held, probe, up, flips,
                   reports>>

\* A node goes down or comes back.
Flip(n) ==
    /\ flips < MaxFlips
    /\ flips' = flips + 1
    /\ up' = [up EXCEPT ![n] = ~@]
    /\ UNCHANGED <<nodeVars, active, lock, pc, recalcVars, held, probe, clock,
                   reports>>

Caller(c) ==
    \/ GetActive(c)
    \/ GetActiveRecalculating(c)
    \/ MarkNodeFailed(c)
    \/ \E r \in RetryAfters : MarkNodeRateLimited(c, r)
    \/ Answered(c)

Recalculate(t) ==
    \/ Scan(t)
    \/ SkipUnhealthy(t)
    \/ ReadScore(t)
    \/ WriteScore(t)
    \/ Pick(t)

Probe(u, n) ==
    \/ ProbeTimed(u, n)
    \/ ProbeHead(u, n)
    \/ ProbeHealthy(u, n)
    \/ ProbeFailed(u, n)
    \/ ProbeInfinite(u, n)

Update(u) == StartProbes(u) \/ JoinProbes(u)

Next ==
    \/ \E c \in Callers : Caller(c)
    \/ \E t \in Threads : Recalculate(t)
    \/ \E u \in Updaters : Update(u) \/ \E n \in Nodes : Probe(u, n)
    \/ Tick
    \/ \E n \in Nodes : Flip(n)

Spec == Init /\ [][Next]_vars

-----------------------------------------------------------------------------

Scores == [healthy : BOOLEAN, penalty : Nat]

NodeTypes ==
    /\ healthy \in [Nodes -> BOOLEAN]
    /\ penalty \in [Nodes -> Nat]
    /\ errorCnt \in [Nodes -> Nat]
    /\ limitedUntil \in [Nodes -> Nat]
    /\ head \in [Nodes -> Nat]
    /\ latency \in [Nodes -> Nat]

ThreadTypes ==
    /\ active \in Nodes
    /\ lock \in Threads \cup {NoThread}
    /\ pc \in [Threads -> {"idle", "probing", "scan", "read", "write"}]
    /\ held \in [Callers -> Nodes \cup {0}]
    /\ probe \in [Updaters -> [Nodes -> {"off", "sent", "timed", "headed", "failed"}]]

LocalTypes ==
    /\ idx \in 1..(N + 1)
    /\ maxBlock \in Nat
    /\ verdict \in Scores

EnvTypes ==
    /\ clock \in Nat \ {0}
    /\ up \in [Nodes -> BOOLEAN]
    /\ flips \in Nat
    /\ reports \in Nat

\* Every variable has its type; in particular penalties are never negative and
\* the loop of _recalculate_best_node stays inside the node list.
TypeOK == NodeTypes /\ ThreadTypes /\ LocalTypes /\ EnvTypes

\* No thread is inside the pool: the lock is free and no update_pool runs.
Quiet == lock = NoThread /\ \A u \in Updaters : pc[u] = "idle"

\* The recalculation is exclusive although probes ignore the lock: a thread is
\* inside _recalculate_best_node exactly while it holds the RLock.
RecalculationExclusive ==
    \A t \in Threads : pc[t] \in {"scan", "read", "write"} <=> lock = t

\* What update_pool's join is for: whenever nobody is inside the pool, the
\* active node is the best one by the flags and penalties as they now are, no
\* matter how probes, reports and other recalculations were interleaved.
ActiveIsBest == Quiet => IsBest(active)

\* Whenever nobody is inside the pool, no node that counts as healthy lags more
\* than max_lag behind another healthy one, so no such node is ever active.
NoLaggardHealthy ==
    Quiet => \A m, n \in HealthyNodes : head[m] - head[n] <= MaxLag

\* mark_node_rate_limited removes a node from selection until its cooldown is
\* over: while it lasts, the node is active only if nothing else is healthy.
CooldownHonoured ==
    Quiet /\ limitedUntil[active] > clock => HealthyNodes = {}

\* A 429 answer with Retry-After: 0, reported for node n in this very step.
ZeroCooldown(n) ==
    /\ 0 \in RetryAfters /\ errorCnt' = errorCnt
    /\ \E c \in Callers : held[c] = n /\ pc[c] = "idle" /\ lock' = c

\* Without probes a node marked down comes back only when a cooldown of that
\* node has run out (at once, if it was zero); neither a recalculation nor a
\* report about another node revives it.
ReviveStep ==
    \A n \in Nodes :
        ~healthy[n] /\ healthy'[n] => n \in Expired(clock) \/ ZeroCooldown(n)
RevivedByCooldownOnly == [][ReviveStep]_vars

\* Every started thread is scheduled, every probe ends (the HTTP client has a
\* 3 s timeout), and an update_pool is followed by the next one (the monitor
\* loop).  Nothing is assumed of the callers or of the nodes.
Fairness ==
    /\ \A t \in Threads : WF_vars(Recalculate(t))
    /\ \A u \in Updaters : WF_vars(Update(u)) /\ \A n \in Nodes : WF_vars(Probe(u, n))

FairSpec == Spec /\ Fairness

\* Background monitoring ends every outage it can end: once some node stays up
\* and the reports about nodes stop, the active node is one that answers, for
\* good, whatever flags, cooldowns and lost verdicts the outage left behind.
SettlesOnLiveNode == <>[](\E n \in Nodes : up[n]) => <>[]up[active]
=============================================================================
