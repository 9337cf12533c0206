------------------------------- MODULE RpcClient -------------------------------
(***************************************************************************)
(* One NodeRPC client (nectarapi/noderpc.py, graphenerpc.py, node.py and   *)
(* transports.py) used by a set of threads: a call, the failover transport *)
(* under it, the retry bookkeeping around it, reconnecting, and close().   *)
(*                                                                         *)
(* The node pool appears here through its locked operations, one atomic    *)
(* step each; how they interleave inside is the subject of NodePool.  All  *)
(* nodes have the same head and latency, so the best node is the first     *)
(* healthy one of the list, or the first of all when none is healthy.      *)
(***************************************************************************)
EXTENDS Integers, FiniteSets

CONSTANTS
    N,             \* nodes of the list, 1..N; with N > 1 requests fail over
    Callers,       \* threads that use the client
    Closers,       \* threads that close it
    NumRetries,    \* num_retries
    NumRetriesCall,\* num_retries_call
    Replies,       \* what a node that is up may answer
    MaxFlips,      \* bound on how often nodes go down or come back
    Monitored      \* whether the pool is probed in the background

ReplyKinds == {"result", "falsy", "error", "empty", "http4xx", "http429"}

ASSUME ClientAssumption ==
    /\ N \in Nat \ {0}
    /\ NumRetries \in Nat /\ NumRetriesCall \in Nat \ {0} /\ MaxFlips \in Nat
    /\ Replies \subseteq ReplyKinds
    /\ Monitored \in BOOLEAN

Nodes == 1..N
Threads == Callers \cup Closers

VARIABLES
    pool,        \* NodePoolManager: health flags, cooldowns, active node
    callCnt,     \* RPCNode.error_cnt_call
    errorCnt,    \* Node.error_cnt of the list, which no probe ever resets
    closed, session, connected,  \* _closed; session and url are not None
    switchFlag,  \* next_node_on_empty_reply
    pc, outcome, \* where each thread is; how its last call ended
    turn,        \* first request, moving to another node, or second request
    target, attempts,   \* handle_request: best_node and attempts
    up, flips,   \* which nodes answer, and how often that changed
    failed,      \* history: nodes that have failed a request or a probe, or had
                 \* nothing to say to a request that may move on
    steady       \* history: nodes healthy, up and willing since the call began

poolVars == <<pool, callCnt, errorCnt>>
clientVars == <<closed, session, connected, switchFlag>>
threadVars == <<pc, outcome, turn, target, attempts, steady>>
envVars == <<up, flips>>
vars == <<poolVars, clientVars, threadVars, envVars, failed>>

-----------------------------------------------------------------------------
\* The pool's operations.

Best(healthy) ==
    IF \A n \in Nodes : ~healthy[n] THEN 1
    ELSE CHOOSE n \in Nodes : healthy[n] /\ \A m \in 1..(n - 1) : ~healthy[m]

\* _recalculate_best_node: cooldowns that are over end, then the sort.
Recalculated(p) ==
    LET healthy == [n \in Nodes |-> p.healthy[n] \/ p.limited[n] = "over"]
    IN [healthy |-> healthy,
        limited |-> [n \in Nodes |-> IF p.limited[n] = "over" THEN "no" ELSE p.limited[n]],
        active |-> Best(healthy)]

\* get_active_node: the pool after it; its answer is the active node.
Current(p) == IF \E n \in Nodes : p.limited[n] = "over" THEN Recalculated(p) ELSE p

Failed(p, n) == Recalculated([p EXCEPT !.healthy[n] = FALSE])
RateLimited(p, n) == Recalculated([p EXCEPT !.healthy[n] = FALSE, !.limited[n] = "wait"])

WorkingNodes == {n \in Nodes : pool.healthy[n]}   \* working_nodes_count

Init ==
    /\ pool = [healthy |-> [n \in Nodes |-> TRUE],
               limited |-> [n \in Nodes |-> "no"], active |-> 1]
    /\ callCnt = [n \in Nodes |-> 0]
    /\ errorCnt = [n \in Nodes |-> 0]
    /\ closed = FALSE /\ session = TRUE /\ connected = TRUE
    /\ switchFlag = FALSE
    /\ pc = [t \in Threads |-> "idle"]
    /\ outcome = [t \in Threads |-> "none"]
    /\ turn = [t \in Threads |-> "first"]
    /\ target = [t \in Threads |-> 0]
    /\ attempts = [t \in Threads |-> 0]
    /\ up \in [Nodes -> BOOLEAN] /\ flips = 0
    /\ failed = {}
    /\ steady = [t \in Threads |-> {}]

Goto(t, label) ==
    pc' = [pc EXCEPT ![t] = label] /\ UNCHANGED outcome

Finish(t, result) ==
    /\ pc' = [pc EXCEPT ![t] = "idle"]
    /\ outcome' = [outcome EXCEPT ![t] = result]

-----------------------------------------------------------------------------
\* A call, up to the request.

Call(t) ==
    /\ pc[t] = "idle"
    /\ turn' = [turn EXCEPT ![t] = "first"]
    /\ steady' = [steady EXCEPT ![t] = {n \in WorkingNodes : up[n]}]
    /\ pc' = [pc EXCEPT ![t] = IF closed THEN "idle" ELSE "enter"]
    /\ outcome' = [outcome EXCEPT ![t] = IF closed THEN "RPCClosed" ELSE "none"]
    /\ UNCHANGED <<poolVars, clientVars, target, attempts, envVars, failed>>

\* The checks at the head of rpcexec.  (url is None only on a closed client.)
Enter(t) ==
    /\ pc[t] = "enter"
    /\ IF closed THEN Finish(t, "RPCClosed")
       ELSE IF WorkingNodes = {} THEN Finish(t, "WorkingNodeMissing")
       ELSE Goto(t, "count")
    /\ UNCHANGED <<poolVars, clientVars, turn, target, attempts, steady, envVars, failed>>

\* increase_error_cnt_call: counted before the request is even sent; a node
\* that reaches the limit is marked failed.
Count(t) ==
    /\ pc[t] = "count"
    /\ LET p == Current(pool)
           cnt == callCnt[p.active] + 1
       IN /\ callCnt' = [callCnt EXCEPT ![p.active] =
                            IF cnt > NumRetriesCall THEN NumRetriesCall ELSE cnt]
          /\ pool' = IF cnt >= NumRetriesCall THEN Failed(p, p.active) ELSE p
    /\ Goto(t, "send")
    /\ UNCHANGED <<errorCnt, clientVars, turn, target, attempts, steady, envVars, failed>>

\* Mutant: the request does not look whether the client was closed.
SendUnchecked(t) ==
    /\ pc[t] = "send"
    /\ Goto(t, "attempt")
    /\ UNCHANGED <<poolVars, clientVars, turn, target, attempts, steady, envVars, failed>>

\* request_send, up to session.post.  A closed client's error is caught and
\* ends in _handle_transport_error, which raises RPCClosed again.
Send(t) ==
    /\ pc[t] = "send"
    /\ IF closed THEN Goto(t, "handle") ELSE Goto(t, "attempt")
    /\ UNCHANGED <<poolVars, clientVars, turn, target, attempts, steady, envVars, failed>>

\* One turn of handle_request's loop (or the single node's plain request).
\* Only the first turn goes through the client's session.
Attempt(t) ==
    /\ pc[t] = "attempt" /\ (session \/ attempts[t] > 0)
    /\ pool' = IF N > 1 THEN Current(pool) ELSE pool
    /\ target' = [target EXCEPT ![t] = pool'.active]
    /\ Goto(t, "wait")
    /\ UNCHANGED <<callCnt, errorCnt, clientVars, turn, attempts, steady, envVars, failed>>

\* The session was dropped by close(): an error like any other.
NoSession(t) ==
    /\ pc[t] = "attempt" /\ ~session
    /\ attempts' = [attempts EXCEPT ![t] = 0]
    /\ Goto(t, "handle")
    /\ UNCHANGED <<poolVars, clientVars, turn, target, steady, envVars, failed>>

-----------------------------------------------------------------------------
\* The answer.

\* Mutant: the last node of the list is never tried.
FailOverGivesUp(t, reported) ==
    IF N = 1
    THEN Goto(t, "handle") /\ UNCHANGED <<pool, attempts>>
    ELSE /\ pool' = reported
         /\ attempts' = [attempts EXCEPT ![t] = (@ + 1) % N]
         /\ Goto(t, IF attempts[t] + 1 >= N - 1 THEN "handle" ELSE "attempt")

\* The transport reports its node and tries the next one, N times in all.
\* A single node has no failover transport: the error goes up at once.
FailOver(t, reported) ==
    IF N = 1
    THEN Goto(t, "handle") /\ UNCHANGED <<pool, attempts>>
    ELSE /\ pool' = reported
         /\ attempts' = [attempts EXCEPT ![t] = (@ + 1) % N]
         /\ Goto(t, IF attempts[t] + 1 = N THEN "handle" ELSE "attempt")

\* History: node n has failed a request.
Refused(n) ==
    /\ failed' = failed \cup {n}
    /\ steady' = [t \in Threads |-> steady[t] \ {n}]

\* No connection, a timeout, or an HTTP 5xx.
NoAnswer(t) ==
    /\ pc[t] = "wait" /\ ~up[target[t]] /\ target' = [target EXCEPT ![t] = 0]
    /\ FailOver(t, Failed(pool, target[t]))
    /\ Refused(target[t])
    /\ UNCHANGED <<callCnt, errorCnt, clientVars, turn, envVars>>

Answer(t, kind) ==
    /\ pc[t] = "wait" /\ up[target[t]] /\ kind \in Replies
    /\ target' = [target EXCEPT ![t] = 0]

\* The transport's loop is left.
Done(t) == attempts' = [attempts EXCEPT ![t] = 0]

TooManyRequests(t) ==
    /\ Answer(t, "http429")
    /\ FailOver(t, RateLimited(pool, target[t]))
    /\ Refused(target[t])
    /\ UNCHANGED <<callCnt, errorCnt, clientVars, turn, envVars>>

\* Any other HTTP error: raise_for_status, or UnauthorizedError.
BadStatus(t) ==
    /\ Answer(t, "http4xx") /\ Done(t)
    /\ Goto(t, "handle")
    /\ Refused(target[t])
    /\ UNCHANGED <<poolVars, clientVars, turn, envVars>>

\* An empty body: sleep_and_check_retries(call_retry=True) compares the list
\* node's error_cnt_call, which nothing ever increments, with the limit; so it
\* never raises CallRetriesReached, and the loop starts over.
ListErrorCntCall == 0

EmptyReply(t) ==
    /\ Answer(t, "empty") /\ Done(t)
    /\ Goto(t, IF ListErrorCntCall > NumRetriesCall THEN "handle" ELSE "count")
    /\ UNCHANGED <<poolVars, clientVars, turn, steady, envVars, failed>>

\* A JSON-RPC error: raised as it is, no counter is reset.
ErrorReply(t) ==
    /\ Answer(t, "error") /\ Done(t)
    /\ Finish(t, "RPCError")
    /\ UNCHANGED <<poolVars, clientVars, turn, steady, envVars, failed>>

\* Mutant: a good answer does not reset the counter.
CallCntKept == callCnt

\* reset_error_cnt_call, on the node that is active now.
CallCntReset == [callCnt EXCEPT ![Current(pool).active] = 0]

\* increase_error_cnt, first half: the list node of the active node.
ErrorCntCharged ==
    [errorCnt EXCEPT ![Current(pool).active] = IF @ > NumRetries THEN @ ELSE @ + 1]

ResultReply(t) ==
    /\ Answer(t, "result") /\ Done(t)
    /\ pool' = Current(pool) /\ callCnt' = CallCntReset
    /\ switchFlag' = (switchFlag /\ turn[t] = "second")
    /\ Finish(t, "result")
    /\ UNCHANGED <<errorCnt, closed, session, connected, turn,
                   steady, envVars, failed>>

\* A falsy result: NodeRPC.rpcexec may ask another node, once.
FalsyReply(t) ==
    /\ Answer(t, "falsy") /\ Done(t)
    /\ pool' = Current(pool) /\ callCnt' = CallCntReset
    /\ IF turn[t] = "first" /\ switchFlag /\ Cardinality(WorkingNodes) > 1
       THEN /\ errorCnt' = ErrorCntCharged
            /\ switchFlag' = FALSE
            /\ turn' = [turn EXCEPT ![t] = "moving"]
            /\ failed' = failed \cup {target[t]}
            /\ Goto(t, "mark")
       ELSE /\ switchFlag' = (switchFlag /\ turn[t] = "second")
            /\ Finish(t, "result")
            /\ UNCHANGED <<errorCnt, turn, failed>>
    /\ UNCHANGED <<closed, session, connected, steady, envVars>>

-----------------------------------------------------------------------------
\* _handle_transport_error, and the same steps for NodeRPC._retry_on_next_node.

Handle(t) ==
    /\ pc[t] = "handle"
    /\ IF closed
       THEN Finish(t, "RPCClosed") /\ UNCHANGED <<pool, errorCnt>>
       ELSE /\ pool' = Current(pool)
            /\ errorCnt' = ErrorCntCharged
            /\ Goto(t, "mark")
    /\ UNCHANGED <<callCnt, clientVars, turn, target, attempts, steady, envVars, failed>>

\* increase_error_cnt, second half: the pool's active node, read again.
Mark(t) ==
    /\ pc[t] = "mark"
    /\ pool' = Failed(Current(pool), Current(pool).active)
    /\ Goto(t, "check")
    /\ UNCHANGED <<callCnt, errorCnt, clientVars, turn, target, attempts, steady,
                   envVars, failed>>

\* Mutant: the retry budget is not consulted.
CheckNothing(t) ==
    /\ pc[t] = "check"
    /\ pool' = Current(pool)
    /\ Goto(t, "connect")
    /\ UNCHANGED <<callCnt, errorCnt, clientVars, turn, target, attempts, steady,
                   envVars, failed>>

\* sleep_and_check_retries(call_retry=False): the counter of the node that is
\* active now, after the failed one was taken out.
Check(t) ==
    /\ pc[t] = "check"
    /\ pool' = Current(pool)
    /\ IF errorCnt[pool'.active] > NumRetries
       THEN Finish(t, "NumRetriesReached")
       ELSE Goto(t, "connect")
    /\ UNCHANGED <<callCnt, errorCnt, clientVars, turn, target, attempts, steady,
                   envVars, failed>>

\* Back to the loop of rpcexec, or on to the second rpcexec.
Resume(t) ==
    /\ Goto(t, IF turn[t] = "moving" THEN "enter" ELSE "count")
    /\ turn' = [turn EXCEPT ![t] = IF @ = "moving" THEN "second" ELSE @]

\* rpcconnect: refused when closed, nothing to do when no node works ...
Connect(t) ==
    /\ pc[t] = "connect"
    /\ IF closed THEN Finish(t, "RPCClosed") /\ UNCHANGED turn
       ELSE IF WorkingNodes = {} THEN Resume(t)
       ELSE Goto(t, "open") /\ UNCHANGED turn
    /\ UNCHANGED <<poolVars, clientVars, target, attempts, steady, envVars, failed>>

\* ... otherwise the url is set and a missing session is made anew.
OpenSession(t) ==
    /\ pc[t] = "open"
    /\ pool' = Current(pool) /\ callCnt' = CallCntReset
    /\ connected' = TRUE /\ session' = TRUE
    /\ Resume(t)
    /\ UNCHANGED <<errorCnt, closed, switchFlag, target, attempts, steady, envVars, failed>>

-----------------------------------------------------------------------------
\* close(), the switch flag, and the world.

Close(t) ==
    /\ pc[t] = "idle" /\ ~closed
    /\ closed' = TRUE
    /\ Goto(t, "closing")
    /\ UNCHANGED <<poolVars, session, connected, switchFlag, turn, target, attempts,
                   steady, envVars, failed>>

DropSession(t) ==
    /\ pc[t] = "closing"
    /\ session' = FALSE /\ connected' = FALSE
    /\ Finish(t, "none")
    /\ UNCHANGED <<poolVars, closed, switchFlag, turn, target, attempts, steady,
                   envVars, failed>>

\* set_next_node_on_empty_reply(True)
SetSwitchFlag(t) ==
    /\ "falsy" \in Replies
    /\ pc[t] = "idle" /\ ~switchFlag
    /\ switchFlag' = TRUE
    /\ UNCHANGED <<poolVars, closed, session, connected, threadVars, envVars, failed>>

Flip(n) ==
    /\ flips < MaxFlips
    /\ flips' = flips + 1
    /\ up' = [up EXCEPT ![n] = ~@]
    /\ steady' = [t \in Threads |-> steady[t] \ {n}]
    /\ UNCHANGED <<poolVars, clientVars, pc, outcome, turn, target, attempts, failed>>

\* The time named by a 429 answer has passed.
CooldownOver(n) ==
    /\ pool.limited[n] = "wait"
    /\ pool' = [pool EXCEPT !.limited[n] = "over"]
    /\ UNCHANGED <<callCnt, errorCnt, clientVars, threadVars, envVars, failed>>

\* A round of update_pool: a valid answer resets error_cnt_call as well.
MonitorRound ==
    /\ Monitored
    /\ pool' = Recalculated([pool EXCEPT !.healthy = up])
    /\ callCnt' = [n \in Nodes |-> IF up[n] THEN 0 ELSE callCnt[n]]
    /\ failed' = failed \cup {n \in Nodes : ~up[n]}
    /\ UNCHANGED <<errorCnt, clientVars, threadVars, envVars>>

Reply(t) ==
    \/ NoAnswer(t) \/ TooManyRequests(t) \/ BadStatus(t) \/ EmptyReply(t)
    \/ ErrorReply(t) \/ ResultReply(t) \/ FalsyReply(t)

\* A thread that is inside a call.
Step(t) ==
    \/ Enter(t) \/ Count(t) \/ Send(t) \/ Attempt(t) \/ NoSession(t) \/ Reply(t)
    \/ Handle(t) \/ Mark(t) \/ Check(t) \/ Connect(t) \/ OpenSession(t)
    \/ DropSession(t)

Next ==
    \/ \E t \in Callers : Call(t) \/ SetSwitchFlag(t)
    \/ \E t \in Closers : Close(t)
    \/ \E t \in Threads : Step(t)
    \/ \E n \in Nodes : Flip(n) \/ CooldownOver(n)
    \/ MonitorRound

Spec == Init /\ [][Next]_vars

\* Threads run and requests end (the client has a timeout); the world is free.
Fairness == \A t \in Threads : WF_vars(Step(t))
FairSpec == Spec /\ Fairness

-----------------------------------------------------------------------------

\* Failover works: a call during which some node was healthy, up and refused no
\* request from beginning to end does not give up, whatever the others do.  (The second
\* request after a falsy result is excepted: the move to another node has taken
\* the node that answered out of rotation.)
SteadyNodeServes ==
    \A t \in Threads :
        /\ turn[t] = "first"
        /\ outcome[t] \in {"NumRetriesReached", "WorkingNodeMissing"}
        => steady[t] = {}

\* Blame is fair: a node is out of rotation only if it has failed a request or a
\* probe itself, or was left for its empty result, although the code blames whatever
\* node is active by the time it handles the error, and counts calls before it knows
\* who will serve them.
OnlyFailedAreDown == \A n \in Nodes : ~pool.healthy[n] => n \in failed

\* Every call ends, with a result or an error.
CallEnds == \A t \in Threads : pc[t] # "idle" ~> pc[t] = "idle"

\* close() ends every call, also those that would go on for ever on an open
\* client, and also when one of them has just made a new session.
ClosedCallsEnd == \A t \in Threads : closed /\ pc[t] # "idle" ~> pc[t] = "idle"
=============================================================================
