---------------------------- MODULE RpcClient_proofs ----------------------------
(***************************************************************************)
(* Theorems about RpcClient: the types for every client, and, for every    *)
(* list of nodes and every budget of retries, what a client used by one    *)
(* thread promises about failing over and about whom it blames.            *)
(***************************************************************************)
EXTENDS RpcClient, WellFoundedInduction, TLAPS

Pools == [healthy : [Nodes -> BOOLEAN], limited : [Nodes -> {"no", "wait", "over"}],
          active : Nodes]

Labels == {"idle", "enter", "count", "send", "attempt", "wait", "handle", "mark",
           "check", "connect", "open", "closing"}

Outcomes == {"none", "result", "RPCClosed", "RPCError", "NumRetriesReached",
             "WorkingNodeMissing"}

PoolTypes ==
    /\ pool \in Pools
    /\ callCnt \in [Nodes -> 0..NumRetriesCall]
    /\ errorCnt \in [Nodes -> 0..(NumRetries + 1)]
    /\ failed \subseteq Nodes
    /\ up \in [Nodes -> BOOLEAN] /\ flips \in 0..MaxFlips

ThreadTypes ==
    /\ pc \in [Threads -> Labels]
    /\ outcome \in [Threads -> Outcomes]
    /\ turn \in [Threads -> {"first", "moving", "second"}]
    /\ target \in [Threads -> 0..N]
    /\ attempts \in [Threads -> 0..(N - 1)]
    /\ steady \in [Threads -> SUBSET Nodes]

SwitchTypes ==
    closed \in BOOLEAN /\ session \in BOOLEAN /\ connected \in BOOLEAN /\ switchFlag \in BOOLEAN

\* Every variable has its type: the counters stop at the budgets, the failover
\* loop never runs past the list, and a thread that waits waits for a node.
TypeOK ==
    /\ PoolTypes /\ ThreadTypes /\ SwitchTypes
    /\ \A t \in Threads : pc[t] = "wait" => target[t] \in Nodes

\* The active node is the best one by the flags, after every operation.
ActiveIsBest == pool.active = Best(pool.healthy)

USE ClientAssumption

-----------------------------------------------------------------------------
\* The pool's operators.

\* The node that comes first is a node; it is healthy if any is, and then every
\* node before it is down.
LEMMA BestIsFirst ==
    ASSUME NEW h \in [Nodes -> BOOLEAN]
    PROVE  /\ Best(h) \in Nodes
           /\ (\E n \in Nodes : h[n]) => h[Best(h)]
           /\ \A m \in 1..(Best(h) - 1) : ~h[m]
<1>1. CASE \A n \in Nodes : ~h[n]
  BY <1>1 DEF Best, Nodes
<1>2. CASE \E n \in Nodes : h[n]
  <2> DEFINE H == {n \in Nodes : h[n]}
             Before == {ss \in Nat \X Nat : ss[1] < ss[2]}
  <2>0. IsWellFoundedOn(Before, Nat)
    BY NatLessThanWellFounded DEF OpToRel
  <2>1. H # {} /\ H \subseteq Nat
    BY <1>2 DEF Nodes
  <2> HIDE DEF Before
  <2>2. PICK b \in H : \A m \in H : ~(<<m, b>> \in Before)
    BY <2>0, <2>1, WFMin
  <2>3. h[b] /\ b \in Nodes /\ \A m \in 1..(b - 1) : ~h[m]
    <3> SUFFICES ASSUME NEW m \in 1..(b - 1), h[m] PROVE FALSE
      BY <2>2
    <3>1. m \in H /\ m < b /\ b \in Nat
      BY <2>2 DEF Nodes
    <3>2. m \in Nat
      OBVIOUS
    <3> QED
      BY <2>2, <3>1, <3>2 DEF Before
  <2>4. Best(h) = CHOOSE n \in Nodes : h[n] /\ \A m \in 1..(n - 1) : ~h[m]
    BY <1>2 DEF Best
  <2> QED
    BY <2>3, <2>4
<1> QED
  BY <1>1, <1>2

\* Recalculating keeps the types and leaves the best node active.
LEMMA RecalculatedPool ==
    ASSUME NEW p \in Pools
    PROVE  Recalculated(p) \in Pools /\ Recalculated(p).active = Best(Recalculated(p).healthy)
<1> DEFINE h == [n \in Nodes |-> p.healthy[n] \/ p.limited[n] = "over"]
           l == [n \in Nodes |-> IF p.limited[n] = "over" THEN "no" ELSE p.limited[n]]
<1>1. h \in [Nodes -> BOOLEAN] /\ l \in [Nodes -> {"no", "wait", "over"}]
  BY DEF Pools
<1>2. Recalculated(p) = [healthy |-> h, limited |-> l, active |-> Best(h)]
  BY DEF Recalculated
<1> HIDE DEF h, l
<1>3. Best(h) \in Nodes
  BY <1>1, BestIsFirst
<1> QED
  BY <1>1, <1>2, <1>3 DEF Pools

LEMMA PoolOperations ==
    ASSUME NEW p \in Pools, p.active = Best(p.healthy), NEW n \in Nodes
    PROVE  /\ Current(p) \in Pools /\ Current(p).active = Best(Current(p).healthy)
           /\ Failed(p, n) \in Pools /\ Failed(p, n).active = Best(Failed(p, n).healthy)
           /\ RateLimited(p, n) \in Pools
           /\ RateLimited(p, n).active = Best(RateLimited(p, n).healthy)
<1>1. [p EXCEPT !.healthy[n] = FALSE] \in Pools
  BY DEF Pools
<1>2. [p EXCEPT !.healthy[n] = FALSE, !.limited[n] = "wait"] \in Pools
  BY DEF Pools
<1> QED
  BY <1>1, <1>2, RecalculatedPool DEF Current, Failed, RateLimited

\* A pool without cooldowns is left alone by get_active_node, and a failure
\* takes out the one node that is named.
LEMMA PlainPool ==
    ASSUME NEW p \in Pools, \A n \in Nodes : p.limited[n] = "no"
    PROVE  /\ Current(p) = p
           /\ \A n \in Nodes :
                 /\ Failed(p, n).healthy = [p.healthy EXCEPT ![n] = FALSE]
                 /\ Failed(p, n).limited = p.limited
                 /\ Failed(p, n).active = Best([p.healthy EXCEPT ![n] = FALSE])
<1>1. Current(p) = p
  BY DEF Current
<1>2. ASSUME NEW n \in Nodes
      PROVE  /\ Failed(p, n).healthy = [p.healthy EXCEPT ![n] = FALSE]
             /\ Failed(p, n).limited = p.limited
             /\ Failed(p, n).active = Best([p.healthy EXCEPT ![n] = FALSE])
  <2> DEFINE q == [p EXCEPT !.healthy[n] = FALSE]
             h == [m \in Nodes |-> q.healthy[m] \/ q.limited[m] = "over"]
             l == [m \in Nodes |-> IF q.limited[m] = "over" THEN "no" ELSE q.limited[m]]
  <2>1. q.healthy = [p.healthy EXCEPT ![n] = FALSE] /\ q.limited = p.limited
    BY DEF Pools
  <2>2. Failed(p, n) = [healthy |-> h, limited |-> l, active |-> Best(h)]
    BY DEF Failed, Recalculated
  <2> HIDE DEF q
  <2>3. p.healthy \in [Nodes -> BOOLEAN] /\ p.limited \in [Nodes -> {"no", "wait", "over"}]
    BY DEF Pools
  <2>4. h = [p.healthy EXCEPT ![n] = FALSE]
    BY <2>1, <2>3
  <2>5. l = p.limited
    BY <2>1, <2>3
  <2> HIDE DEF h, l
  <2> QED
    BY <2>2, <2>4, <2>5
<1> QED
  BY <1>1, <1>2

-----------------------------------------------------------------------------
\* Types.

TypeInv == TypeOK /\ ActiveIsBest

LEMMA TypeInit == Init => TypeInv
<1> SUFFICES ASSUME Init PROVE TypeInv
  OBVIOUS
<1>1. PoolTypes /\ ThreadTypes /\ SwitchTypes
  <2>1. pool \in Pools
    BY DEF Init, Pools, Nodes
  <2>2. PoolTypes
    BY <2>1 DEF Init, PoolTypes
  <2>3. ThreadTypes
    BY DEF Init, ThreadTypes, Labels, Outcomes
  <2> QED
    BY <2>2, <2>3 DEF Init, SwitchTypes
<1>2. ActiveIsBest
  BY DEF Init, ActiveIsBest, Best, Nodes
<1> QED
  BY <1>1, <1>2 DEF Init, TypeInv, TypeOK

\* What the steps do to the counters.
LEMMA Counters ==
    ASSUME TypeInv
    PROVE  /\ Current(pool) \in Pools /\ Current(pool).active = Best(Current(pool).healthy)
           /\ CallCntReset \in [Nodes -> 0..NumRetriesCall]
           /\ ErrorCntCharged \in [Nodes -> 0..(NumRetries + 1)]
<1>1. /\ Current(pool) \in Pools /\ Current(pool).active = Best(Current(pool).healthy)
      /\ Current(pool).active \in Nodes
  <2>1. 1 \in Nodes
    BY DEF Nodes
  <2>2. pool \in Pools /\ pool.active = Best(pool.healthy)
    BY DEF TypeInv, TypeOK, PoolTypes, ActiveIsBest
  <2>3. Current(pool) \in Pools /\ Current(pool).active = Best(Current(pool).healthy)
    BY <2>1, <2>2, PoolOperations
  <2> QED
    BY <2>3 DEF Pools
<1>2. CallCntReset \in [Nodes -> 0..NumRetriesCall]
  BY <1>1 DEF TypeInv, TypeOK, PoolTypes, CallCntReset
<1>3. ErrorCntCharged \in [Nodes -> 0..(NumRetries + 1)]
  BY <1>1 DEF TypeInv, TypeOK, PoolTypes, ErrorCntCharged
<1> QED
  BY <1>1, <1>2, <1>3

\* The failover loop stays within the list.
LEMMA FailOverType ==
    ASSUME TypeInv, NEW t \in Threads, NEW q \in Pools, q.active = Best(q.healthy),
           FailOver(t, q)
    PROVE  /\ pool' \in Pools /\ pool'.active = Best(pool'.healthy)
           /\ attempts' \in [Threads -> 0..(N - 1)]
           /\ pc' \in [Threads -> Labels] /\ outcome' = outcome
           /\ pc'[t] \in {"handle", "attempt"} /\ \A s \in Threads \ {t} : pc'[s] = pc[s]
<1> USE DEF TypeInv, TypeOK, PoolTypes, ThreadTypes
<1>1. CASE N = 1
  BY <1>1 DEF FailOver, Goto, Labels, ActiveIsBest
<1>2. CASE N # 1
  <2>1. attempts[t] \in 0..(N - 1)
    OBVIOUS
  <2>2. (attempts[t] + 1) % N \in 0..(N - 1)
    BY <2>1
  <2>3. attempts' = [attempts EXCEPT ![t] = (attempts[t] + 1) % N]
    BY <1>2 DEF FailOver
  <2>4. attempts' \in [Threads -> 0..(N - 1)]
    BY <2>2, <2>3
  <2> QED
    BY <1>2, <2>4 DEF FailOver, Goto, Labels
<1> QED
  BY <1>1, <1>2

LEMMA ReplyType ==
    ASSUME TypeInv, NEW t \in Threads, Reply(t)
    PROVE  TypeInv'
<1> USE DEF TypeInv, TypeOK
<1> DEFINE n == target[t]
<1>1. n \in Nodes /\ pc[t] = "wait"
  BY DEF Reply, NoAnswer, TooManyRequests, BadStatus, EmptyReply, ErrorReply, ResultReply,
      FalsyReply, Answer
<1>2. target' \in [Threads -> 0..N]
  BY DEF Reply, NoAnswer, TooManyRequests, BadStatus, EmptyReply, ErrorReply, ResultReply,
      FalsyReply, Answer, ThreadTypes
<1>3. /\ steady' \in [Threads -> SUBSET Nodes]
      /\ failed' \subseteq Nodes /\ up' = up /\ flips' = flips
      /\ closed' = closed /\ session' = session /\ connected' = connected
      /\ switchFlag' \in BOOLEAN
  BY ZenonT(60), <1>1 DEF Reply, NoAnswer, TooManyRequests, BadStatus, EmptyReply,
      ErrorReply, ResultReply, FalsyReply, Refused, ThreadTypes, PoolTypes, SwitchTypes, envVars, clientVars
<1>4. \A s \in Threads \ {t} : target'[s] = target[s]
  BY DEF Reply, NoAnswer, TooManyRequests, BadStatus, EmptyReply, ErrorReply, ResultReply,
      FalsyReply, Answer, ThreadTypes
<1>5. CASE NoAnswer(t) \/ TooManyRequests(t)
  <2>1. PICK q \in {Failed(pool, n), RateLimited(pool, n)} : FailOver(t, q)
    BY <1>5 DEF NoAnswer, TooManyRequests
  <2>2. q \in Pools /\ q.active = Best(q.healthy)
    BY <1>1, PoolOperations DEF PoolTypes, ActiveIsBest
  <2>3. /\ pool' \in Pools /\ pool'.active = Best(pool'.healthy)
        /\ attempts' \in [Threads -> 0..(N - 1)]
        /\ pc' \in [Threads -> Labels] /\ outcome' = outcome
        /\ pc'[t] \in {"handle", "attempt"} /\ \A s \in Threads \ {t} : pc'[s] = pc[s]
    BY <2>1, <2>2, FailOverType
  <2>4. callCnt' = callCnt /\ errorCnt' = errorCnt /\ turn' = turn
    BY <1>5 DEF NoAnswer, TooManyRequests
  <2> QED
    BY <1>2, <1>3, <1>4, <2>3, <2>4 DEF PoolTypes, ThreadTypes, SwitchTypes, ActiveIsBest
<1>6. CASE BadStatus(t) \/ EmptyReply(t) \/ ErrorReply(t) \/ ResultReply(t) \/ FalsyReply(t)
  <2>1. pool' \in Pools /\ pool'.active = Best(pool'.healthy)
    BY <1>6, Counters DEF BadStatus, EmptyReply, ErrorReply, ResultReply, FalsyReply, poolVars,
        PoolTypes, ActiveIsBest
  <2>2. callCnt' \in [Nodes -> 0..NumRetriesCall] /\ errorCnt' \in [Nodes -> 0..(NumRetries + 1)]
    BY <1>6, Counters DEF BadStatus, EmptyReply, ErrorReply, ResultReply, FalsyReply, poolVars,
        PoolTypes
  <2>3. /\ attempts' \in [Threads -> 0..(N - 1)]
        /\ turn' \in [Threads -> {"first", "moving", "second"}]
    BY <1>6 DEF BadStatus, EmptyReply, ErrorReply, ResultReply, FalsyReply, Done, ThreadTypes
  <2>4. /\ pc' \in [Threads -> Labels] /\ outcome' \in [Threads -> Outcomes]
        /\ pc'[t] # "wait" /\ \A s \in Threads \ {t} : pc'[s] = pc[s]
    BY <1>6 DEF BadStatus, EmptyReply, ErrorReply, ResultReply, FalsyReply, Goto, Finish,
        ThreadTypes, Labels, Outcomes
  <2> QED
    BY <1>2, <1>3, <1>4, <2>1, <2>2, <2>3, <2>4 DEF PoolTypes, ThreadTypes, SwitchTypes,
        ActiveIsBest
<1> QED
  BY <1>5, <1>6 DEF Reply

LEMMA CountType ==
    ASSUME TypeInv, NEW t \in Threads, Count(t)
    PROVE  TypeInv'
<1> USE DEF TypeInv, TypeOK
<1> DEFINE p == Current(pool)
           cnt == callCnt[p.active] + 1
<1>1. p \in Pools /\ p.active = Best(p.healthy) /\ p.active \in Nodes
  BY Counters DEF Pools
<1>2. /\ pool' = IF cnt >= NumRetriesCall THEN Failed(p, p.active) ELSE p
      /\ callCnt' = [callCnt EXCEPT ![p.active] =
                        IF cnt > NumRetriesCall THEN NumRetriesCall ELSE cnt]
  BY DEF Count
<1> HIDE DEF p
<1>3. pool' \in Pools /\ pool'.active = Best(pool'.healthy)
  BY <1>1, <1>2, PoolOperations
<1>4. callCnt' \in [Nodes -> 0..NumRetriesCall]
  <2> DEFINE capped == IF cnt > NumRetriesCall THEN NumRetriesCall ELSE cnt
  <2>1. cnt \in Nat
    BY <1>1 DEF PoolTypes
  <2> HIDE DEF cnt
  <2>2. capped \in 0..NumRetriesCall
    BY <2>1
  <2>3. callCnt' = [callCnt EXCEPT ![p.active] = capped]
    BY <1>2
  <2> QED
    BY <2>2, <2>3 DEF PoolTypes
<1>5. pc' = [pc EXCEPT ![t] = "send"] /\ UNCHANGED outcome
  BY DEF Count, Goto
<1> QED
  BY <1>3, <1>4, <1>5 DEF Count, clientVars, envVars, PoolTypes, ThreadTypes, SwitchTypes, Labels,
      ActiveIsBest

LEMMA StepType ==
    ASSUME TypeInv, NEW t \in Threads, Step(t)
    PROVE  TypeInv'
<1> USE DEF TypeInv, TypeOK
<1>1. CASE Enter(t) \/ Send(t) \/ NoSession(t) \/ Connect(t) \/ DropSession(t)
  <2>1. UNCHANGED <<poolVars, target, steady, envVars, failed, closed, switchFlag>>
    BY <1>1 DEF Enter, Send, NoSession, Connect, DropSession, clientVars
  <2>2. session' \in BOOLEAN /\ connected' \in BOOLEAN
    BY <1>1 DEF Enter, Send, NoSession, Connect, DropSession, clientVars, SwitchTypes
  <2>3. /\ attempts' \in [Threads -> 0..(N - 1)]
        /\ turn' \in [Threads -> {"first", "moving", "second"}]
    BY <1>1 DEF Enter, Send, NoSession, Connect, DropSession, Resume, ThreadTypes
  <2>4. /\ pc' \in [Threads -> Labels] /\ outcome' \in [Threads -> Outcomes]
        /\ pc'[t] # "wait" /\ \A s \in Threads \ {t} : pc'[s] = pc[s]
    BY <1>1 DEF Enter, Send, NoSession, Connect, DropSession, Resume, Goto, Finish, ThreadTypes,
        Labels, Outcomes
  <2> QED
    BY <2>1, <2>2, <2>3, <2>4 DEF poolVars, envVars, PoolTypes, ThreadTypes, SwitchTypes,
        ActiveIsBest
<1>2. CASE Attempt(t)
  <2>1. pool' \in Pools /\ pool'.active = Best(pool'.healthy) /\ pool'.active \in Nodes
    BY <1>2, Counters DEF Attempt, PoolTypes, ActiveIsBest, Pools
  <2>2. pool'.active \in 0..N
    BY <2>1 DEF Nodes
  <2> QED
    BY <1>2, <2>1, <2>2 DEF Attempt, Goto, clientVars, envVars, PoolTypes, ThreadTypes,
        SwitchTypes, Labels, ActiveIsBest
<1>3. CASE Handle(t) \/ Check(t) \/ OpenSession(t)
  <2>1. pool' \in Pools /\ pool'.active = Best(pool'.healthy)
    BY <1>3, Counters DEF Handle, Check, OpenSession, PoolTypes, ActiveIsBest
  <2>2. callCnt' \in [Nodes -> 0..NumRetriesCall] /\ errorCnt' \in [Nodes -> 0..(NumRetries + 1)]
    BY <1>3, Counters DEF Handle, Check, OpenSession, PoolTypes
  <2> QED
    BY ZenonT(60), <1>3, <2>1, <2>2 DEF Handle, Check, OpenSession, Goto, Finish, Resume,
        clientVars, envVars, PoolTypes, ThreadTypes, SwitchTypes, Labels, Outcomes, ActiveIsBest
<1>4. CASE Mark(t)
  <2>1. pool' \in Pools /\ pool'.active = Best(pool'.healthy)
    BY <1>4, Counters, PoolOperations DEF Mark, Pools
  <2> QED
    BY <1>4, <2>1 DEF Mark, Goto, clientVars, envVars, PoolTypes, ThreadTypes, SwitchTypes, Labels,
        ActiveIsBest
<1> QED
  BY <1>1, <1>2, <1>3, <1>4, ReplyType, CountType DEF Step

LEMMA TypeStep == TypeInv /\ [Next]_vars => TypeInv'
<1> SUFFICES ASSUME TypeInv, [Next]_vars PROVE TypeInv'
  OBVIOUS
<1> USE DEF TypeInv, TypeOK
<1>1. ASSUME NEW t \in Callers, Call(t) \/ SetSwitchFlag(t) PROVE TypeInv'
  <2>1. t \in Threads
    BY DEF Threads
  <2>2. CASE Call(t)
    <3>1. steady' \in [Threads -> SUBSET Nodes]
      BY <2>1, <2>2 DEF Call, ThreadTypes, WorkingNodes
    <3>2. /\ pc' \in [Threads -> Labels] /\ outcome' \in [Threads -> Outcomes]
          /\ pc'[t] # "wait" /\ \A s \in Threads \ {t} : pc'[s] = pc[s]
      BY <2>1, <2>2 DEF Call, ThreadTypes, Labels, Outcomes
    <3>3. turn' \in [Threads -> {"first", "moving", "second"}]
      BY <2>1, <2>2 DEF Call, ThreadTypes
    <3> QED
      BY <2>2, <3>1, <3>2, <3>3 DEF Call, poolVars, clientVars, envVars, PoolTypes, ThreadTypes,
          SwitchTypes, ActiveIsBest
  <2>3. CASE SetSwitchFlag(t)
    BY <2>3 DEF SetSwitchFlag, poolVars, threadVars, envVars, PoolTypes, ThreadTypes,
        SwitchTypes, ActiveIsBest
  <2> QED
    BY <1>1, <2>2, <2>3
<1>2. ASSUME NEW t \in Closers, Close(t) PROVE TypeInv'
  <2>1. t \in Threads
    BY DEF Threads
  <2> QED
    BY <1>2, <2>1 DEF Close, Goto, poolVars, envVars, PoolTypes, ThreadTypes, SwitchTypes, Labels,
        ActiveIsBest
<1>3. ASSUME NEW n \in Nodes, Flip(n) PROVE TypeInv'
  BY <1>3 DEF Flip, poolVars, clientVars, PoolTypes, ThreadTypes, SwitchTypes, ActiveIsBest
<1>4. ASSUME NEW n \in Nodes, CooldownOver(n) PROVE TypeInv'
  <2>1. pool' \in Pools /\ pool'.healthy = pool.healthy /\ pool'.active = pool.active
    BY <1>4 DEF CooldownOver, PoolTypes, Pools
  <2> QED
    BY <1>4, <2>1 DEF CooldownOver, clientVars, threadVars, envVars, PoolTypes, ThreadTypes,
        SwitchTypes, ActiveIsBest
<1>5. ASSUME MonitorRound PROVE TypeInv'
  <2>1. [pool EXCEPT !.healthy = up] \in Pools
    BY DEF PoolTypes, Pools
  <2>2. pool' \in Pools /\ pool'.active = Best(pool'.healthy)
    BY <1>5, <2>1, RecalculatedPool DEF MonitorRound
  <2>3. callCnt' \in [Nodes -> 0..NumRetriesCall] /\ failed' \subseteq Nodes
    BY <1>5 DEF MonitorRound, PoolTypes
  <2> QED
    BY <1>5, <2>2, <2>3 DEF MonitorRound, clientVars, threadVars, envVars, PoolTypes, ThreadTypes,
        SwitchTypes, ActiveIsBest
<1>6. CASE UNCHANGED vars
  BY <1>6 DEF vars, poolVars, clientVars, threadVars, envVars, PoolTypes, ThreadTypes,
      SwitchTypes, ActiveIsBest
<1> QED
  BY <1>1, <1>2, <1>3, <1>4, <1>5, <1>6, StepType DEF Next

\* Whatever the nodes answer, however many threads use and close the client,
\* and with or without probes: the counters stop at the budgets of retries,
\* the failover loop never runs past the list of nodes, and the active node is
\* always the best one by the health flags.
THEOREM ClientTypeCorrect == Spec => [](TypeOK /\ ActiveIsBest)
<1> QED
  BY TypeInit, TypeStep, PTL DEF Spec, TypeInv

-----------------------------------------------------------------------------
\* A client that one thread uses and any threads close, whose nodes answer, refuse or
\* fall silent but neither report errors of the application nor name a cooldown nor
\* answer with nothing, that is not probed in the background and that may count
\* more than one call per node.  Each of these is needed: another caller's error is
\* charged to the node this one has just moved to, an error of the application or an
\* empty answer leaves the counted call behind, a node comes back from a cooldown or a
\* probe with its counters as they were, and with num_retries_call = 1 a node is down
\* before its first request.
UsedByOne ==
    /\ \A s, t \in Callers : s = t
    /\ Replies \subseteq {"result", "falsy", "http4xx"}
    /\ ~Monitored
    /\ NumRetriesCall > 1

NoCooldown == \A n \in Nodes : pool.limited[n] = "no"

\* Where the caller is: an open client has its session, the failover loop counts its
\* turns only while it runs, and the node asked is the active one.
Shape(t) ==
    /\ ~closed => session
    /\ pc[t] = "closing" => closed
    /\ pc[t] \notin {"attempt", "wait"} => attempts[t] = 0
    /\ pc[t] = "wait" => target[t] = pool.active

\* The failover loop has taken out the nodes in their order.
Tried(t) == \A n \in 1..attempts[t] : ~pool.healthy[n]

\* The active node has made an error that is being charged to it ...
AtFault(t) == pc[t] = "mark" \/ (pc[t] = "handle" /\ ~closed)

\* ... or will not be, because the client was closed in the meantime.
Over(t) == closed /\ pc[t] \in {"handle", "idle"}

\* An error is handled while the node that made it is active; every other node
\* that failed is down.
Blamed(t) ==
    /\ AtFault(t) => pool.active \in failed
    /\ \A n \in failed : pool.healthy[n] => n = pool.active /\ (AtFault(t) \/ Over(t))

\* Only the node that is asked has a call counted against it, and only one.
Counted(t) ==
    \A n \in Nodes \ failed : callCnt[n] > 0 =>
        /\ callCnt[n] = 1 /\ n = pool.active
        /\ (pc[t] \in {"send", "attempt", "wait"} \/ Over(t))

\* A node with an error on its account is down, or about to be.
Charged(t) ==
    \A n \in Nodes : errorCnt[n] > 0 /\ pool.healthy[n] => n = pool.active /\ pc[t] = "mark"

\* The nodes that have not let this call down are still in rotation, and the one
\* to be marked is none of them.
Kept(t) ==
    turn[t] = "first" =>
        /\ steady[t] \subseteq WorkingNodes
        /\ AtFault(t) => pool.active \notin steady[t]

Serves(t) ==
    turn[t] = "first" /\ outcome[t] \in {"NumRetriesReached", "WorkingNodeMissing"}
        => steady[t] = {}

ThreadInv(t) ==
    Shape(t) /\ Tried(t) /\ Blamed(t) /\ Counted(t) /\ Charged(t) /\ Kept(t) /\ Serves(t)

\* A thread that only closes the client.
OnlyCloses(t) ==
    /\ pc[t] \in {"idle", "closing"} /\ outcome[t] = "none"
    /\ pc[t] = "closing" => closed

OwnInv ==
    /\ TypeInv /\ NoCooldown /\ OnlyFailedAreDown
    /\ \A t \in Callers : ThreadInv(t)
    /\ \A t \in Threads \ Callers : OnlyCloses(t)

\* Without cooldowns the pool's operations are plain; when the active node is
\* down, all are.
LEMMA OwnPool ==
    ASSUME OwnInv
    PROVE  /\ Current(pool) = pool
           /\ pool.active \in Nodes /\ pool \in Pools
           /\ \A n \in 1..(pool.active - 1) : ~pool.healthy[n]
           /\ ~pool.healthy[pool.active] => \A n \in Nodes : ~pool.healthy[n]
<1>1. pool \in Pools /\ pool.active = Best(pool.healthy) /\ NoCooldown
  BY DEF OwnInv, TypeInv, TypeOK, PoolTypes, ActiveIsBest
<1>2. pool.healthy \in [Nodes -> BOOLEAN] /\ pool.active \in Nodes
  BY <1>1 DEF Pools
<1> QED
  BY <1>1, <1>2, PlainPool, BestIsFirst DEF NoCooldown

\* Taking out the active node.
LEMMA ActiveTakenOut ==
    ASSUME OwnInv, pool' = Failed(pool, pool.active)
    PROVE  /\ pool'.healthy = [pool.healthy EXCEPT ![pool.active] = FALSE]
           /\ NoCooldown' /\ pool'.active \in Nodes
           /\ ~pool'.healthy[pool.active]
           /\ \A n \in Nodes : pool'.healthy[n] => pool.healthy[n] /\ n # pool.active
           /\ \A n \in Nodes \ {pool.active} : pool'.healthy[n] = pool.healthy[n]
           /\ ~pool'.healthy[pool'.active] => \A n \in Nodes : ~pool'.healthy[n]
           /\ \A n \in 1..pool.active : ~pool'.healthy[n]
<1>1. pool \in Pools /\ pool.active \in Nodes /\ NoCooldown
  BY OwnPool DEF OwnInv
<1> DEFINE a == pool.active
           h == [pool.healthy EXCEPT ![a] = FALSE]
<1>2. pool'.healthy = h /\ pool'.limited = pool.limited /\ pool'.active = Best(h)
  BY <1>1, PlainPool DEF NoCooldown
<1>3. h \in [Nodes -> BOOLEAN] /\ ~h[a] /\ \A n \in Nodes \ {a} : h[n] = pool.healthy[n]
  BY <1>1 DEF Pools
<1>4. \A n \in 1..a : ~h[n]
  <2> SUFFICES ASSUME NEW n \in 1..a PROVE ~h[n]
    OBVIOUS
  <2>1. n \in Nodes /\ (n = a \/ n \in 1..(a - 1))
    BY <1>1 DEF Nodes
  <2> QED
    BY <1>3, <2>1, OwnPool
<1>6. pool'.healthy = [pool.healthy EXCEPT ![pool.active] = FALSE]
  BY <1>2
<1> HIDE DEF h
<1>5. Best(h) \in Nodes /\ (~h[Best(h)] => \A n \in Nodes : ~h[n])
  BY <1>3, BestIsFirst
<1> QED
  BY <1>1, <1>2, <1>3, <1>4, <1>5, <1>6 DEF NoCooldown

LEMMA OwnInit == UsedByOne /\ Init => OwnInv
<1> SUFFICES ASSUME UsedByOne, Init PROVE OwnInv
  OBVIOUS
<1>1. TypeInv
  BY TypeInit
<1>2. NoCooldown /\ OnlyFailedAreDown
  BY DEF Init, NoCooldown, OnlyFailedAreDown
<1>3. ASSUME NEW t \in Threads PROVE ThreadInv(t) /\ OnlyCloses(t)
  BY <1>3 DEF Init, ThreadInv, Shape, Tried, AtFault, Blamed, Counted, Charged, Kept, Serves,
      OnlyCloses, Nodes
<1> QED
  BY <1>1, <1>2, <1>3 DEF OwnInv, Threads

-----------------------------------------------------------------------------
\* The steps of the caller, and of the threads that close its client.

\* Everything of the invariant that a step can disturb for t, after the step.
After(t) == NoCooldown' /\ OnlyFailedAreDown' /\ ThreadInv(t)'

\* A step of t that leaves the pool and the counters alone and brings no blame.
Harmless(t) ==
    \/ pc'[t] = pc[t]
    \/ /\ pc[t] \in {"idle", "closing", "enter", "connect"} /\ ~Over(t)
       /\ pc'[t] \in {"idle", "closing", "enter", "count", "open"}
    \/ pc[t] = "send" /\ pc'[t] = "attempt"
    \/ closed /\ pc[t] \in {"send", "attempt", "handle"} /\ pc'[t] = "handle"
    \/ closed /\ pc[t] \in {"idle", "handle"} /\ pc'[t] = "idle"

LEMMA PoolUntouched ==
    ASSUME OwnInv, NEW t \in Callers, UNCHANGED <<poolVars, failed>>,
           attempts'[t] \in {attempts[t], 0}, closed => closed', Harmless(t)
    PROVE  NoCooldown' /\ OnlyFailedAreDown' /\ (Tried(t) /\ Blamed(t) /\ Counted(t) /\ Charged(t))'
<1> ThreadInv(t) /\ UNCHANGED <<pool, callCnt, errorCnt, failed>>
  BY DEF OwnInv, poolVars
<1>1. NoCooldown' /\ OnlyFailedAreDown'
  BY DEF OwnInv, NoCooldown, OnlyFailedAreDown
<1>2. Tried(t)'
  BY DEF ThreadInv, Tried
<1>3. /\ AtFault(t)' => AtFault(t)
      /\ AtFault(t) => AtFault(t)' \/ Over(t)'
      /\ Over(t) => Over(t)'
      /\ pc[t] \in {"send", "attempt", "wait"} =>
            pc'[t] \in {"send", "attempt", "wait"} \/ Over(t)'
      /\ pc[t] = "mark" => pc'[t] = "mark"
  <2>1. AtFault(t)' => AtFault(t)
    BY DEF Harmless, AtFault
  <2>2. (AtFault(t) => AtFault(t)' \/ Over(t)') /\ (Over(t) => Over(t)')
    BY DEF Harmless, AtFault, Over
  <2>3. /\ pc[t] \in {"send", "attempt", "wait"} =>
              pc'[t] \in {"send", "attempt", "wait"} \/ Over(t)'
        /\ pc[t] = "mark" => pc'[t] = "mark"
    BY DEF Harmless, Over
  <2> QED
    BY <2>1, <2>2, <2>3
<1>4. Charged(t)'
  BY <1>3 DEF ThreadInv, Charged
<1>5. Blamed(t)'
  BY <1>3 DEF ThreadInv, Blamed
<1>6. Counted(t)'
  BY <1>3 DEF ThreadInv, Counted
<1> QED
  BY <1>1, <1>2, <1>4, <1>5, <1>6

\* The steps of a call that only move on, those that find the client closed,
\* and close() itself, by this thread or by another.
LEMMA MovesOn ==
    ASSUME OwnInv, UsedByOne, NEW t \in Callers,
           \/ Call(t) \/ SetSwitchFlag(t) \/ Enter(t) \/ Send(t) \/ NoSession(t) \/ Connect(t)
           \/ (Handle(t) /\ closed)
           \/ \E s \in Threads : Close(s) \/ DropSession(s)
    PROVE  After(t)
<1> USE DEF ThreadInv
<1>0. /\ ThreadInv(t) /\ t \in Threads /\ closed \in BOOLEAN
      /\ \A s \in Threads : pc[s] = "closing" => closed
  BY DEF OwnInv, OnlyCloses, Shape, TypeInv, TypeOK, SwitchTypes, Threads
<1>1. pc \in [Threads -> Labels] /\ outcome \in [Threads -> Outcomes]
      /\ turn \in [Threads -> {"first", "moving", "second"}]
      /\ steady \in [Threads -> SUBSET Nodes] /\ attempts \in [Threads -> 0..(N - 1)]
  BY DEF OwnInv, TypeInv, TypeOK, ThreadTypes
<1>2. UNCHANGED <<poolVars, failed>> /\ target' = target
  BY DEF Call, SetSwitchFlag, Close, DropSession, Enter, Send, NoSession, Connect, Handle,
      threadVars, poolVars
<1>3. attempts'[t] = IF NoSession(t) THEN 0 ELSE attempts[t]
  BY <1>0, <1>1 DEF Call, SetSwitchFlag, Close, DropSession, Enter, Send, NoSession, Connect, Handle,
      threadVars
<1>4. (closed => closed') /\ (~closed' => session')
  BY <1>0 DEF Call, SetSwitchFlag, Close, DropSession, Enter, Send, NoSession, Connect, Handle,
      clientVars, Shape
<1>5. Harmless(t) /\ (pc'[t] = "closing" => closed')
      /\ (pc'[t] \notin {"attempt", "wait"} => pc[t] \notin {"attempt", "wait"} \/ NoSession(t))
  <2>1. CASE Call(t) \/ SetSwitchFlag(t) \/ Enter(t) \/ Connect(t)
    BY <1>0, <1>1, <1>4, <2>1 DEF Call, SetSwitchFlag, Enter, Connect, Resume, Goto, Finish,
        threadVars, Harmless, Over
  <2>2. CASE Send(t) \/ NoSession(t) \/ (Handle(t) /\ closed)
    BY <1>0, <1>1, <1>4, <2>2 DEF Send, NoSession, Handle, Goto, Finish, Harmless, Shape
  <2>3. ASSUME NEW s \in Threads, Close(s) \/ DropSession(s)
        PROVE  /\ Harmless(t) /\ (pc'[t] = "closing" => closed')
               /\ pc'[t] \notin {"attempt", "wait"} => pc[t] \notin {"attempt", "wait"}
    BY <1>0, <1>1, <1>4, <2>3 DEF Close, DropSession, Goto, Finish, Harmless, Over
  <2> QED
    BY <2>1, <2>2, <2>3
<1>6. pc'[t] = "wait" => pc[t] = "wait"
  BY <1>5 DEF Harmless
<1>7. Shape(t)'
  BY <1>0, <1>2, <1>3, <1>4, <1>5, <1>6 DEF Shape, poolVars
<1>8. NoCooldown' /\ OnlyFailedAreDown' /\ (Tried(t) /\ Blamed(t) /\ Counted(t) /\ Charged(t))'
  BY <1>2, <1>3, <1>4, <1>5, PoolUntouched
<1>9. WorkingNodes' = WorkingNodes /\ pool' = pool
  BY <1>2 DEF WorkingNodes, poolVars
<1>10. AtFault(t)' => AtFault(t)
  BY <1>4, <1>5 DEF Harmless, AtFault
<1>11. Kept(t)' /\ Serves(t)'
  <2>1. CASE Call(t)
    <3>1. ~AtFault(t)'
      BY <1>10, <2>1 DEF Call, AtFault
    <3> QED
      BY <1>0, <1>1, <1>9, <2>1, <3>1 DEF Call, Kept, Serves
  <2>2. CASE Enter(t)
    BY <1>0, <1>1, <1>9, <1>10, <2>2 DEF Enter, Finish, Goto, Kept, Serves
  <2>3. CASE Connect(t)
    BY <1>0, <1>1, <1>9, <1>10, <2>3 DEF Connect, Resume, Finish, Goto, Kept, Serves
  <2>4. CASE \/ SetSwitchFlag(t) \/ Send(t) \/ NoSession(t) \/ (Handle(t) /\ closed)
             \/ \E s \in Threads : Close(s) \/ DropSession(s)
    <3>1. turn' = turn /\ steady' = steady /\ outcome'[t] \in {outcome[t], "RPCClosed", "none"}
      BY <1>0, <1>1, <2>4 DEF SetSwitchFlag, Close, DropSession, Send, NoSession, Handle, Finish,
          Goto, threadVars
    <3> QED
      BY <1>0, <1>9, <1>10, <3>1 DEF Kept, Serves
  <2> QED
    BY <2>1, <2>2, <2>3, <2>4
<1> QED
  BY <1>7, <1>8, <1>11 DEF After

\* Counting the call.  The limit is met only by a node that has failed before,
\* and then every node is down already.
LEMMA CountKeeps ==
    ASSUME OwnInv, UsedByOne, NEW t \in Callers, Count(t)
    PROVE  After(t)
<1> USE DEF ThreadInv, AtFault, Over
<1> t \in Threads
  BY DEF Threads
<1> DEFINE a == pool.active
           cnt == callCnt[a] + 1
<1>0. /\ ThreadInv(t) /\ pc[t] = "count" /\ NoCooldown /\ OnlyFailedAreDown
      /\ pc \in [Threads -> Labels] /\ callCnt \in [Nodes -> 0..NumRetriesCall]
  BY DEF OwnInv, Count, ThreadInv, Shape, TypeInv, TypeOK, ThreadTypes, PoolTypes
<1>1. a \in Nodes /\ Current(pool) = pool
  BY OwnPool
<1>2. UNCHANGED <<errorCnt, clientVars, turn, outcome, target, attempts, steady, failed>>
      /\ pc'[t] = "send"
  BY <1>0 DEF Count, Goto
<1>3. /\ pool' = IF cnt >= NumRetriesCall THEN Failed(pool, a) ELSE pool
      /\ callCnt' = [callCnt EXCEPT ![a] = IF cnt > NumRetriesCall THEN NumRetriesCall ELSE cnt]
  BY <1>1 DEF Count
<1>4. CASE a \notin failed
  <2>1. callCnt[a] = 0
    BY <1>0, <1>1, <1>4 DEF Counted
  <2>2. pool' = pool /\ callCnt' = [callCnt EXCEPT ![a] = 1]
    <3>1. cnt = 1 /\ NumRetriesCall \in Nat /\ NumRetriesCall > 1
      BY <2>1 DEF UsedByOne
    <3>2. ~(cnt >= NumRetriesCall) /\ ~(cnt > NumRetriesCall)
      BY <3>1
    <3> HIDE DEF cnt
    <3> QED
      BY <1>3, <3>1, <3>2
  <2>3. Counted(t)'
    <3> SUFFICES ASSUME NEW n \in Nodes \ failed', callCnt'[n] > 0
                 PROVE  callCnt'[n] = 1 /\ n = pool'.active
      BY <1>2 DEF Counted
    <3> QED
      BY <1>0, <1>1, <1>2, <2>2 DEF Counted
  <2>4. WorkingNodes' = WorkingNodes
    BY <2>2 DEF WorkingNodes
  <2> QED
    BY <1>0, <1>2, <2>2, <2>3, <2>4 DEF After, NoCooldown, OnlyFailedAreDown, Shape, Tried, Blamed,
        Charged, Kept, Serves, clientVars
<1>5. CASE a \in failed
  <2>1. ~pool.healthy[a]
    BY <1>0, <1>1, <1>5 DEF Blamed
  <2>2. \A n \in Nodes : ~pool.healthy[n]
    BY <2>1, OwnPool
  <2>3. \A n \in Nodes : ~pool'.healthy[n]
    <3>1. CASE pool' = pool
      BY <2>2, <3>1
    <3>2. CASE pool' = Failed(pool, a)
      BY <2>2, <3>2, ActiveTakenOut
    <3> QED
      BY <1>3, <3>1, <3>2
  <2>4. NoCooldown'
    BY <1>0, <1>3, ActiveTakenOut DEF NoCooldown
  <2>5. \A n \in Nodes \ failed' : callCnt'[n] = 0
    <3> SUFFICES ASSUME NEW n \in Nodes \ failed PROVE callCnt'[n] = 0
      BY <1>2
    <3>1. n # a /\ callCnt'[n] = callCnt[n] /\ callCnt[n] \in Nat
      BY <1>0, <1>3, <1>5
    <3> QED
      BY <1>0, <3>1 DEF Counted
  <2>6. WorkingNodes' = {} /\ WorkingNodes = {}
    BY <2>2, <2>3 DEF WorkingNodes
  <2>7. OnlyFailedAreDown'
    BY <1>0, <1>2, <2>2 DEF OnlyFailedAreDown
  <2>8. Shape(t)' /\ Counted(t)' /\ Kept(t)' /\ Serves(t)'
    BY <1>0, <1>2, <2>5, <2>6 DEF Shape, Counted, Kept, Serves, clientVars
  <2>9. Tried(t)' /\ Blamed(t)' /\ Charged(t)'
    <3>1. attempts'[t] = 0
      BY <1>0, <1>2 DEF Shape
    <3>2. failed' \subseteq Nodes
      BY <1>2 DEF OwnInv, TypeInv, TypeOK, PoolTypes
    <3> QED
      BY <1>2, <2>3, <3>1, <3>2 DEF Tried, Blamed, Charged
  <2> QED
    BY <2>4, <2>7, <2>8, <2>9 DEF After
<1> QED
  BY <1>4, <1>5

\* The failover transport asks the active node.
LEMMA AttemptKeeps ==
    ASSUME OwnInv, UsedByOne, NEW t \in Callers, Attempt(t)
    PROVE  After(t)
<1> USE DEF ThreadInv, AtFault, Over
<1> t \in Threads
  BY DEF Threads
<1>0. ThreadInv(t) /\ NoCooldown /\ OnlyFailedAreDown
  BY DEF OwnInv
<1>1. /\ pool' = pool /\ pc[t] = "attempt" /\ pc'[t] = "wait" /\ target'[t] = pool.active
      /\ UNCHANGED <<callCnt, errorCnt, clientVars, outcome, turn, attempts, steady, failed>>
  BY OwnPool DEF Attempt, Goto, OwnInv, TypeInv, TypeOK, ThreadTypes
<1>2. WorkingNodes' = WorkingNodes
  BY <1>1 DEF WorkingNodes
<1> QED
  BY <1>0, <1>1, <1>2 DEF After, NoCooldown, OnlyFailedAreDown, Shape, Tried, Blamed, Counted,
      Charged, Kept, Serves, clientVars

\* A node that does not answer is taken out, and with it goes the first node
\* the loop has not tried yet.  After as many turns as there are nodes none is left.
LEMMA NoAnswerKeeps ==
    ASSUME OwnInv, UsedByOne, NEW t \in Callers, NoAnswer(t)
    PROVE  After(t)
<1> USE DEF ThreadInv, AtFault, Over
<1> t \in Threads
  BY DEF Threads
<1> DEFINE a == pool.active
<1>0. /\ ThreadInv(t) /\ NoCooldown /\ OnlyFailedAreDown /\ pc[t] = "wait" /\ target[t] = a
      /\ a \in Nodes
      /\ pc \in [Threads -> Labels] /\ steady \in [Threads -> SUBSET Nodes]
      /\ attempts \in [Threads -> 0..(N - 1)] /\ failed \subseteq Nodes
  BY OwnPool DEF OwnInv, NoAnswer, Shape, TypeInv, TypeOK, ThreadTypes, PoolTypes
<1>1. /\ UNCHANGED <<callCnt, errorCnt, clientVars, turn>>
      /\ failed' = failed \cup {a} /\ steady'[t] = steady[t] \ {a}
      /\ FailOver(t, Failed(pool, a))
  BY <1>0 DEF NoAnswer, Refused
<1>2. outcome' = outcome
  BY <1>1 DEF FailOver, Goto
<1>3. \A n \in Nodes \ failed' : callCnt'[n] = 0
  <2> SUFFICES ASSUME NEW n \in Nodes \ failed' PROVE callCnt[n] = 0
    BY <1>1
  <2>1. n # a /\ n \notin failed /\ callCnt[n] \in Nat
    BY <1>1 DEF OwnInv, TypeInv, TypeOK, PoolTypes
  <2> QED
    BY <1>0, <2>1 DEF Counted
<1>4. CASE N = 1
  <2>1. pool' = pool /\ attempts' = attempts /\ pc'[t] = "handle"
    BY <1>0, <1>1, <1>4 DEF FailOver, Goto
  <2>2. attempts[t] = 0
    BY <1>0, <1>4
  <2>3. WorkingNodes' = WorkingNodes
    BY <2>1 DEF WorkingNodes
  <2>4. \A n \in failed' : pool'.healthy[n] => n = pool'.active
    BY <1>0, <1>1, <2>1 DEF Blamed
  <2> QED
    BY <1>0, <1>1, <1>2, <1>3, <2>1, <2>2, <2>3, <2>4 DEF After, NoCooldown, OnlyFailedAreDown,
        Shape, Tried, Blamed, Counted, Charged, Kept, Serves, clientVars
<1>5. CASE N # 1
  <2>1. /\ pool' = Failed(pool, a)
        /\ attempts'[t] = (attempts[t] + 1) % N
        /\ pc'[t] = IF attempts[t] + 1 = N THEN "handle" ELSE "attempt"
    BY <1>0, <1>1, <1>5 DEF FailOver, Goto
  <2>2. /\ NoCooldown' /\ ~pool'.healthy[a] /\ pool'.active \in Nodes
        /\ \A n \in Nodes : pool'.healthy[n] => pool.healthy[n] /\ n # a
        /\ \A n \in Nodes \ {a} : pool'.healthy[n] = pool.healthy[n]
        /\ \A n \in 1..a : ~pool'.healthy[n]
    BY <2>1, ActiveTakenOut
  <2>3. OnlyFailedAreDown'
    BY <1>0, <1>1, <2>2 DEF OnlyFailedAreDown
  <2>4. \A n \in 1..(attempts[t] + 1) : ~pool'.healthy[n]
    <3> SUFFICES ASSUME NEW n \in 1..(attempts[t] + 1), pool'.healthy[n] PROVE FALSE
      OBVIOUS
    <3>1. attempts[t] \in 0..(N - 1) /\ n \in Nodes /\ a \in Nat
      BY <1>0 DEF Nodes
    <3>2. n > a /\ pool.healthy[n]
      BY <2>2, <3>1
    <3>3. n = attempts[t] + 1
      BY <1>0, <3>1, <3>2 DEF Tried
    <3>4. pool.healthy[a]
      BY <3>1, <3>2, OwnPool
    <3>5. a \in 1..attempts[t]
      BY <1>0, <3>1, <3>2, <3>3 DEF Nodes
    <3> QED
      BY <1>0, <3>4, <3>5 DEF Tried
  <2>5. WorkingNodes' = WorkingNodes \ {a}
    BY <2>2 DEF WorkingNodes
  <2>6. Kept(t)' /\ Serves(t)'
    <3>1. turn[t] = "first" => steady'[t] \subseteq WorkingNodes'
      BY <1>0, <1>1, <2>5 DEF Kept
    <3>2. turn[t] = "first" /\ pc'[t] = "handle" => pool'.active \notin steady'[t]
      <4> SUFFICES ASSUME turn[t] = "first", attempts[t] + 1 = N, pool'.active \in steady'[t]
                   PROVE  FALSE
        BY <2>1
      <4>1. pool'.healthy[pool'.active]
        BY <3>1 DEF WorkingNodes
      <4> QED
        BY <2>2, <2>4, <4>1 DEF Nodes
    <3> QED
      BY <1>0, <1>1, <1>2, <2>1, <3>1, <3>2 DEF Kept, Serves
  <2>7. Blamed(t)' /\ Counted(t)' /\ Charged(t)'
    <3>1. \A n \in failed' : ~pool'.healthy[n]
      BY <1>0, <1>1, <2>2 DEF Blamed
    <3>2. pc'[t] = "handle" => pool'.active \in failed'
      BY <2>1, <2>2, <2>3, <2>4 DEF OnlyFailedAreDown, Nodes
    <3>3. Charged(t)'
      BY <1>0, <1>1, <2>2 DEF Charged
    <3> QED
      BY <1>3, <2>1, <3>1, <3>2, <3>3 DEF Blamed, Counted
  <2>8. Shape(t)' /\ Tried(t)'
    <3>1. attempts[t] \in 0..(N - 1)
      BY <1>0
    <3>2. CASE attempts[t] + 1 = N
      <4>1. attempts'[t] = 0 /\ pc'[t] = "handle"
        BY <2>1, <3>2
      <4> QED
        BY <1>0, <1>1, <4>1 DEF Shape, Tried, clientVars
    <3>3. CASE attempts[t] + 1 # N
      <4>1. attempts'[t] = attempts[t] + 1 /\ pc'[t] = "attempt"
        BY <2>1, <3>1, <3>3
      <4> QED
        BY <1>0, <1>1, <2>4, <4>1 DEF Shape, Tried, clientVars
    <3> QED
      BY <3>2, <3>3
  <2> QED
    BY <2>2, <2>3, <2>6, <2>7, <2>8 DEF After
<1> QED
  BY <1>4, <1>5

\* Any other answer of the transport: an HTTP error, which ends the loop, or a result,
\* which clears the node's counter unless the call moves on to another node.
LEMMA AnswerKeeps ==
    ASSUME OwnInv, UsedByOne, NEW t \in Callers, Reply(t), ~NoAnswer(t)
    PROVE  After(t)
<1> USE DEF ThreadInv, AtFault, Over
<1> t \in Threads
  BY DEF Threads
<1> DEFINE a == pool.active
<1>0. /\ ThreadInv(t) /\ NoCooldown /\ OnlyFailedAreDown /\ pc[t] = "wait" /\ target[t] = a
      /\ a \in Nodes
      /\ pc \in [Threads -> Labels] /\ steady \in [Threads -> SUBSET Nodes]
      /\ outcome \in [Threads -> Outcomes]
      /\ turn \in [Threads -> {"first", "moving", "second"}]
      /\ attempts \in [Threads -> 0..(N - 1)] /\ failed \subseteq Nodes
      /\ callCnt \in [Nodes -> 0..NumRetriesCall]
  <2>1. pc[t] = "wait"
    BY DEF Reply, NoAnswer, TooManyRequests, BadStatus, EmptyReply, ErrorReply, ResultReply,
        FalsyReply, Answer
  <2> QED
    BY <2>1, OwnPool DEF OwnInv, Shape, TypeInv, TypeOK, ThreadTypes, PoolTypes
<1>1. BadStatus(t) \/ ResultReply(t) \/ FalsyReply(t)
  BY DEF Reply, TooManyRequests, EmptyReply, ErrorReply, Answer, UsedByOne
<1>2. /\ pool' = pool /\ attempts'[t] = 0
      /\ UNCHANGED <<closed, session, connected>>
  BY <1>0, <1>1, OwnPool DEF BadStatus, ResultReply, FalsyReply, Done, poolVars, clientVars
<1>3. WorkingNodes' = WorkingNodes
  BY <1>2 DEF WorkingNodes
<1>4. NoCooldown' /\ Tried(t)'
  BY <1>0, <1>2 DEF NoCooldown, Tried
<1>5. CASE BadStatus(t)
  <2>1. /\ pc'[t] = "handle" /\ outcome' = outcome /\ turn' = turn
        /\ failed' = failed \cup {a} /\ steady'[t] = steady[t] \ {a}
        /\ callCnt' = callCnt /\ errorCnt' = errorCnt
    BY <1>0, <1>5 DEF BadStatus, Goto, Refused, poolVars
  <2>2. Counted(t)'
    BY <1>0, <2>1 DEF Counted
  <2>3. Blamed(t)' /\ OnlyFailedAreDown'
    BY <1>0, <1>2, <2>1 DEF Blamed, OnlyFailedAreDown
  <2>4. Charged(t)' /\ Shape(t)'
    BY <1>0, <1>2, <2>1 DEF Charged, Shape
  <2>5. Kept(t)' /\ Serves(t)'
    BY <1>0, <1>2, <1>3, <2>1 DEF Kept, Serves
  <2> QED
    BY <1>4, <2>2, <2>3, <2>4, <2>5 DEF After
<1>6. CASE ResultReply(t) \/ FalsyReply(t)
  <2>1. callCnt' = [callCnt EXCEPT ![a] = 0] /\ steady' = steady
    BY <1>6, OwnPool DEF ResultReply, FalsyReply, CallCntReset
  <2>2. \A n \in Nodes \ failed : callCnt'[n] = 0
    <3> SUFFICES ASSUME NEW n \in Nodes \ failed, n # a PROVE callCnt'[n] = 0
      BY <1>0, <2>1
    <3>1. callCnt'[n] = callCnt[n] /\ callCnt[n] \in Nat
      BY <1>0, <2>1
    <3> QED
      BY <1>0, <3>1 DEF Counted
  <2>3. CASE pc'[t] = "mark"
    <3>1. /\ errorCnt' = ErrorCntCharged /\ turn'[t] = "moving" /\ failed' = failed \cup {a}
      BY <1>0, <1>6, <2>3 DEF ResultReply, FalsyReply, Finish
    <3>2. \A n \in Nodes \ {a} : errorCnt'[n] = errorCnt[n]
      BY <3>1, OwnPool DEF ErrorCntCharged, OwnInv, TypeInv, TypeOK, PoolTypes
    <3>3. Counted(t)'
      BY <2>2, <3>1 DEF Counted
    <3>4. Blamed(t)' /\ OnlyFailedAreDown'
      BY <1>0, <1>2, <2>3, <3>1 DEF Blamed, OnlyFailedAreDown
    <3>5. Charged(t)' /\ Shape(t)'
      BY <1>0, <1>2, <2>3, <3>2 DEF Charged, Shape
    <3>6. Kept(t)' /\ Serves(t)'
      BY <3>1 DEF Kept, Serves
    <3> QED
      BY <1>4, <3>3, <3>4, <3>5, <3>6 DEF After
  <2>4. CASE pc'[t] # "mark"
    <3>1. /\ errorCnt' = errorCnt /\ turn' = turn /\ failed' = failed
          /\ pc'[t] = "idle" /\ outcome'[t] = "result"
      BY <1>0, <1>6, <2>4 DEF ResultReply, FalsyReply, Finish, Goto
    <3>2. Counted(t)'
      BY <2>2, <3>1 DEF Counted
    <3>3. Blamed(t)' /\ OnlyFailedAreDown'
      BY <1>0, <1>2, <3>1 DEF Blamed, OnlyFailedAreDown
    <3>4. Charged(t)' /\ Shape(t)'
      BY <1>0, <1>2, <3>1 DEF Charged, Shape
    <3>5. Kept(t)' /\ Serves(t)'
      BY <1>0, <1>2, <1>3, <2>1, <3>1 DEF Kept, Serves
    <3> QED
      BY <1>4, <3>2, <3>3, <3>4, <3>5 DEF After
  <2> QED
    BY <2>3, <2>4
<1> QED
  BY <1>1, <1>5, <1>6

\* The error is charged to the active node, which is the one that made it ...
LEMMA HandleKeeps ==
    ASSUME OwnInv, UsedByOne, NEW t \in Callers, Handle(t), ~closed
    PROVE  After(t)
<1> USE DEF ThreadInv, AtFault, Over
<1> t \in Threads
  BY DEF Threads
<1>0. ThreadInv(t) /\ NoCooldown /\ OnlyFailedAreDown /\ pc[t] = "handle" /\ ~closed
  BY DEF OwnInv, Handle
<1>1. /\ pool' = pool /\ errorCnt' = ErrorCntCharged /\ pc'[t] = "mark"
      /\ UNCHANGED <<callCnt, clientVars, outcome, turn, target, attempts, steady, failed>>
  BY <1>0, OwnPool DEF Handle, Goto, OwnInv, TypeInv, TypeOK, ThreadTypes
<1>2. \A n \in Nodes \ {pool.active} : errorCnt'[n] = errorCnt[n]
  BY <1>1, OwnPool DEF ErrorCntCharged, OwnInv, TypeInv, TypeOK, PoolTypes
<1>3. WorkingNodes' = WorkingNodes
  BY <1>1 DEF WorkingNodes
<1>4. Charged(t)'
  BY <1>0, <1>1, <1>2 DEF Charged
<1> QED
  BY <1>0, <1>1, <1>3, <1>4 DEF After, NoCooldown, OnlyFailedAreDown, Shape, Tried, Blamed,
      Counted, Kept, Serves, clientVars

\* ... and then taken out.
LEMMA MarkKeeps ==
    ASSUME OwnInv, UsedByOne, NEW t \in Callers, Mark(t)
    PROVE  After(t)
<1> USE DEF ThreadInv, AtFault, Over
<1> t \in Threads
  BY DEF Threads
<1> DEFINE a == pool.active
<1>0. /\ ThreadInv(t) /\ NoCooldown /\ OnlyFailedAreDown /\ pc[t] = "mark"
      /\ a \in failed /\ failed \subseteq Nodes
  BY DEF OwnInv, Mark, Shape, Blamed, TypeInv, TypeOK, PoolTypes
<1>1. /\ pool' = Failed(pool, a) /\ pc'[t] = "check"
      /\ UNCHANGED <<callCnt, errorCnt, clientVars, outcome, turn, target, attempts, steady,
                     failed>>
  BY OwnPool DEF Mark, Goto, OwnInv, TypeInv, TypeOK, ThreadTypes
<1>2. /\ NoCooldown' /\ ~pool'.healthy[a]
      /\ \A n \in Nodes : pool'.healthy[n] => pool.healthy[n] /\ n # a
      /\ \A n \in Nodes \ {a} : pool'.healthy[n] = pool.healthy[n]
  BY <1>1, ActiveTakenOut
<1>3. WorkingNodes' = WorkingNodes \ {a}
  BY <1>2 DEF WorkingNodes
<1>4. OnlyFailedAreDown'
  BY <1>0, <1>1, <1>2 DEF OnlyFailedAreDown
<1>5. Blamed(t)' /\ Counted(t)' /\ Charged(t)'
  BY <1>0, <1>1, <1>2 DEF Blamed, Counted, Charged
<1>6. Shape(t)' /\ Tried(t)'
  BY <1>0, <1>1 DEF Shape, Tried, clientVars
<1>7. Kept(t)' /\ Serves(t)'
  BY <1>0, <1>1, <1>3 DEF Kept, Serves
<1> QED
  BY <1>2, <1>4, <1>5, <1>6, <1>7 DEF After

\* The budget is used up only when no node is left: after an error the active
\* node has errors on its account only if it is down, and then all are.
LEMMA CheckKeeps ==
    ASSUME OwnInv, UsedByOne, NEW t \in Callers, Check(t)
    PROVE  After(t)
<1> USE DEF ThreadInv, AtFault, Over
<1> t \in Threads
  BY DEF Threads
<1>0. ThreadInv(t) /\ NoCooldown /\ OnlyFailedAreDown /\ pc[t] = "check"
  BY DEF OwnInv, Check, Shape
<1>1. /\ pool' = pool
      /\ UNCHANGED <<callCnt, errorCnt, clientVars, turn, target, attempts, steady, failed>>
  BY OwnPool DEF Check
<1>2. \/ pc'[t] = "connect" /\ outcome' = outcome
      \/ pc'[t] = "idle" /\ errorCnt[pool.active] > NumRetries
  BY <1>1 DEF Check, Goto, Finish, OwnInv, TypeInv, TypeOK, ThreadTypes
<1>3. WorkingNodes' = WorkingNodes
  BY <1>1 DEF WorkingNodes
<1>4. Serves(t)'
  <2>1. CASE outcome' = outcome
    BY <1>0, <1>1, <2>1 DEF Serves
  <2>2. CASE errorCnt[pool.active] > NumRetries
    <3>1. pool.active \in Nodes /\ errorCnt[pool.active] > 0
      BY <2>2, OwnPool DEF OwnInv, TypeInv, TypeOK, PoolTypes
    <3>2. ~pool.healthy[pool.active]
      BY <1>0, <3>1 DEF Charged
    <3>3. WorkingNodes = {}
      BY <3>2, OwnPool DEF WorkingNodes
    <3> QED
      BY <1>0, <1>1, <3>3 DEF Serves, Kept
  <2> QED
    BY <1>2, <2>1, <2>2
<1> QED
  BY <1>0, <1>1, <1>2, <1>3, <1>4 DEF After, NoCooldown, OnlyFailedAreDown, Shape, Tried, Blamed,
      Counted, Charged, Kept, clientVars

LEMMA OpenSessionKeeps ==
    ASSUME OwnInv, UsedByOne, NEW t \in Callers, OpenSession(t)
    PROVE  After(t)
<1> USE DEF ThreadInv, AtFault, Over
<1> t \in Threads
  BY DEF Threads
<1>0. /\ ThreadInv(t) /\ NoCooldown /\ OnlyFailedAreDown /\ pc[t] = "open"
      /\ turn \in [Threads -> {"first", "moving", "second"}]
  BY DEF OwnInv, OpenSession, Shape, TypeInv, TypeOK, ThreadTypes
<1>1. /\ pool' = pool /\ callCnt' = [callCnt EXCEPT ![pool.active] = 0]
      /\ session' = TRUE /\ closed' = closed /\ pc'[t] \in {"enter", "count"}
      /\ UNCHANGED <<errorCnt, outcome, target, attempts, steady, failed>>
  BY OwnPool DEF OpenSession, CallCntReset, Resume, Goto, OwnInv, TypeInv, TypeOK, ThreadTypes
<1>2. turn'[t] = "first" => turn[t] = "first"
  BY <1>0 DEF OpenSession, Resume
<1>3. WorkingNodes' = WorkingNodes
  BY <1>1 DEF WorkingNodes
<1>4. Counted(t)'
  <2> SUFFICES ASSUME NEW n \in Nodes \ failed, callCnt'[n] > 0 PROVE FALSE
    BY <1>1 DEF Counted
  <2>1. n # pool.active /\ callCnt'[n] = callCnt[n]
    BY <1>1 DEF OwnInv, TypeInv, TypeOK, PoolTypes
  <2> QED
    BY <1>0, <2>1 DEF Counted
<1> QED
  BY <1>0, <1>1, <1>2, <1>3, <1>4 DEF After, NoCooldown, OnlyFailedAreDown, Shape, Tried, Blamed,
      Charged, Kept, Serves

-----------------------------------------------------------------------------

LEMMA OwnStep == UsedByOne /\ OwnInv /\ [Next]_vars => OwnInv'
<1> SUFFICES ASSUME UsedByOne, OwnInv, [Next]_vars PROVE OwnInv'
  OBVIOUS
<1>1. TypeInv'
  BY TypeStep DEF OwnInv
<1>2. ASSUME NEW t \in Callers, After(t), \A s \in Threads \ Callers : OnlyCloses(s)'
      PROVE  OwnInv'
  <2>1. \A s \in Callers : s = t
    BY DEF UsedByOne
  <2> QED
    BY <1>1, <1>2, <2>1 DEF After, OwnInv
<1>3. pc \in [Threads -> Labels] /\ outcome \in [Threads -> Outcomes] /\ closed \in BOOLEAN
  BY DEF OwnInv, TypeInv, TypeOK, ThreadTypes, SwitchTypes
<1>4. ASSUME NEW t \in Callers, Step(t) \/ Call(t) \/ SetSwitchFlag(t) PROVE OwnInv'
  <2>1. After(t)
    BY <1>4, MovesOn, CountKeeps, AttemptKeeps, NoAnswerKeeps, AnswerKeeps, HandleKeeps,
        MarkKeeps, CheckKeeps, OpenSessionKeeps DEF Step, Threads
  <2>2. /\ \A s \in Threads \ Callers : pc'[s] = pc[s] /\ outcome'[s] = outcome[s]
        /\ closed' = closed
    BY <1>3, <1>4 DEF Step, Call, SetSwitchFlag, Enter, Count, Send, Attempt, NoSession, Reply,
        NoAnswer, TooManyRequests, BadStatus, EmptyReply, ErrorReply, ResultReply, FalsyReply,
        FailOver, Handle, Mark, Check, Connect, OpenSession, DropSession, Resume, Goto, Finish,
        clientVars, threadVars
  <2> QED
    BY <1>2, <2>1, <2>2 DEF OwnInv, OnlyCloses
<1>5. ASSUME NEW s \in Threads, Close(s) \/ DropSession(s) PROVE OwnInv'
  <2>1. closed'
    BY <1>5 DEF Close, DropSession, OwnInv, ThreadInv, Shape, OnlyCloses
  <2>2. ASSUME NEW r \in Threads \ Callers PROVE OnlyCloses(r)'
    BY <1>3, <1>5, <2>1, <2>2 DEF Close, DropSession, Goto, Finish, OwnInv, OnlyCloses
  <2>3. NoCooldown' /\ OnlyFailedAreDown'
    BY <1>5 DEF Close, DropSession, poolVars, OwnInv, NoCooldown, OnlyFailedAreDown
  <2>4. ASSUME NEW t \in Callers PROVE ThreadInv(t)'
    BY <1>5, MovesOn DEF After
  <2> QED
    BY <1>1, <2>2, <2>3, <2>4 DEF OwnInv
<1>6. ASSUME \/ UNCHANGED vars \/ \E n \in Nodes : Flip(n)
      PROVE  OwnInv'
  <2>1. /\ UNCHANGED <<pool, callCnt, errorCnt, clientVars, pc, outcome, turn, target, attempts,
                       failed>>
    BY <1>6 DEF Flip, vars, poolVars, threadVars
  <2>2. \A t \in Threads : steady'[t] \subseteq steady[t]
    BY <1>6 DEF Flip, vars, threadVars
  <2>3. WorkingNodes' = WorkingNodes
    BY <2>1 DEF WorkingNodes
  <2>4. ASSUME NEW t \in Callers PROVE ThreadInv(t)'
    <3>1. ThreadInv(t) /\ t \in Threads
      BY DEF OwnInv, Threads
    <3>2. Shape(t)' /\ Tried(t)' /\ Blamed(t)' /\ Counted(t)' /\ Charged(t)'
      BY <2>1, <3>1 DEF ThreadInv, Shape, Tried, AtFault, Over, Blamed, Counted, Charged, clientVars
    <3>3. Kept(t)' /\ Serves(t)'
      BY <2>1, <2>2, <2>3, <3>1 DEF ThreadInv, AtFault, Kept, Serves, clientVars
    <3> QED
      BY <3>2, <3>3 DEF ThreadInv
  <2>5. \A s \in Threads \ Callers : OnlyCloses(s)'
    BY <2>1 DEF OwnInv, OnlyCloses, clientVars
  <2> QED
    BY <1>1, <2>1, <2>4, <2>5 DEF OwnInv, NoCooldown, OnlyFailedAreDown
<1>7. ~\E n \in Nodes : CooldownOver(n)
  BY DEF CooldownOver, OwnInv, NoCooldown
<1>8. ~MonitorRound
  BY DEF MonitorRound, UsedByOne
<1>9. ASSUME NEW s \in Threads \ Callers, Step(s) PROVE DropSession(s)
  <2>1. pc[s] \in {"idle", "closing"}
    BY DEF OwnInv, OnlyCloses
  <2> QED
    BY <1>9, <2>1 DEF Step, Enter, Count, Send, Attempt, NoSession, Reply, NoAnswer,
        TooManyRequests, BadStatus, EmptyReply, ErrorReply, ResultReply, FalsyReply, Answer,
        Handle, Mark, Check, Connect, OpenSession
<1> QED
  BY <1>4, <1>5, <1>6, <1>7, <1>8, <1>9 DEF Next, Threads

LEMMA OwnAlways == UsedByOne => (Spec => []OwnInv)
<1> SUFFICES ASSUME UsedByOne PROVE Spec => []OwnInv
  OBVIOUS
<1>1. Init => OwnInv
  BY OwnInit
<1>2. OwnInv /\ [Next]_vars => OwnInv'
  BY OwnStep
<1> QED
  BY <1>1, <1>2, PTL DEF Spec

\* Blame is fair: a client used by one thread takes no node out of rotation that
\* has not failed it, although it counts a call before it knows who will serve it and
\* charges an error to whatever node is active by then.
THEOREM BlameIsFair == UsedByOne => (Spec => []OnlyFailedAreDown)
<1> SUFFICES ASSUME UsedByOne PROVE Spec => []OnlyFailedAreDown
  OBVIOUS
<1>1. OwnInv => OnlyFailedAreDown
  BY DEF OwnInv
<1> QED
  BY <1>1, OwnAlways, PTL

\* Failover works: such a client does not give up a call while there is a node that
\* was healthy and up when the call began and has answered every request since,
\* however long its list and however small its budget of retries.
THEOREM FailoverServes == UsedByOne => (Spec => []SteadyNodeServes)
<1> SUFFICES ASSUME UsedByOne PROVE Spec => []SteadyNodeServes
  OBVIOUS
<1>1. OwnInv => SteadyNodeServes
  BY DEF OwnInv, ThreadInv, Serves, OnlyCloses, SteadyNodeServes
<1> QED
  BY <1>1, OwnAlways, PTL
=============================================================================
