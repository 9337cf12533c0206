------------------------------ MODULE PoolMonitor ------------------------------
(***************************************************************************)
(* The life of the background monitor of a NodePoolManager                 *)
(* (nectarapi/pool.py): start_monitoring, stop_monitoring (which close()   *)
(* and __del__ call) and the loop of the monitor thread, for any number of *)
(* threads that start and stop it at the same time.                        *)
(*                                                                         *)
(* The pool's lock is modelled because the monitor's rounds need it too    *)
(* (update_pool recalculates under it) and stop_monitoring waits for the   *)
(* monitor; what a round does to the nodes is the subject of NodePool.     *)
(***************************************************************************)
EXTENDS Integers, FiniteSets

CONSTANTS
    Owners,      \* threads that start and stop the monitor
    MaxStarts,   \* bound on the monitor threads ever created
    Free         \* the lock is free

Monitors == 1..MaxStarts

ASSUME MonitorAssumption ==
    /\ MaxStarts \in Nat
    /\ Free \notin Int

VARIABLES
    poolLock,    \* NodePoolManager.lock: Free, or who holds it
    stopEvent,   \* _stop_event is set
    current,     \* _monitor_thread, 0 for None
    created,     \* how many monitor threads were created
    monitor,     \* where each monitor thread is
    at, captured \* where each thread is; stop_monitoring: monitor_thread

monitorVars == <<poolLock, stopEvent, current, created, monitor, at, captured>>

Alive(m) == m # 0 /\ monitor[m] \notin {"none", "dead"}   \* is_alive()

MonitorInit ==
    /\ poolLock = Free /\ stopEvent = FALSE /\ current = 0 /\ created = 0
    /\ monitor = [m \in Monitors |-> "none"]
    /\ at = [t \in Owners |-> "idle"]
    /\ captured = [t \in Owners |-> 0]

-----------------------------------------------------------------------------
\* start_monitoring

\* Mutant: a monitor is started whether or not one runs.
StartAnother(t) ==
    /\ at[t] = "idle" /\ poolLock = Free
    /\ created < MaxStarts
    /\ stopEvent' = FALSE
    /\ created' = created + 1 /\ current' = created + 1
    /\ monitor' = [monitor EXCEPT ![created + 1] = "test"]
    /\ UNCHANGED <<poolLock, at, captured>>

\* Nothing in it blocks, so that the section under the lock is one step.  A
\* monitor that is alive is left alone, also one that was told to stop.
Start(t) ==
    /\ at[t] = "idle" /\ poolLock = Free
    /\ ~Alive(current) /\ created < MaxStarts
    /\ stopEvent' = FALSE
    /\ created' = created + 1 /\ current' = created + 1
    /\ monitor' = [monitor EXCEPT ![created + 1] = "test"]
    /\ UNCHANGED <<poolLock, at, captured>>

-----------------------------------------------------------------------------
\* stop_monitoring

\* Mutant: the monitor is waited for but not told.
StopUnsignalled(t) ==
    /\ at[t] = "idle" /\ poolLock = Free
    /\ captured' = [captured EXCEPT ![t] = current]
    /\ at' = [at EXCEPT ![t] = "join"]
    /\ UNCHANGED <<poolLock, stopEvent, current, created, monitor>>

Stop(t) ==
    /\ at[t] = "idle" /\ poolLock = Free
    /\ stopEvent' = TRUE
    /\ captured' = [captured EXCEPT ![t] = current]
    /\ at' = [at EXCEPT ![t] = "join"]
    /\ UNCHANGED <<poolLock, current, created, monitor>>

\* Mutant: stop_monitoring does not wait for the monitor.
JoinAtOnce(t) ==
    /\ at[t] = "join"
    /\ at' = [at EXCEPT ![t] = "forget"]
    /\ UNCHANGED <<poolLock, stopEvent, current, created, monitor, captured>>

\* monitor_thread.join(), without the lock.
Join(t) ==
    /\ at[t] = "join" /\ ~Alive(captured[t])
    /\ at' = [at EXCEPT ![t] = "forget"]
    /\ UNCHANGED <<poolLock, stopEvent, current, created, monitor, captured>>

\* Only the monitor that was waited for is forgotten.
Forget(t) ==
    /\ at[t] = "forget" /\ poolLock = Free
    /\ current' = IF current = captured[t] THEN 0 ELSE current
    /\ captured' = [captured EXCEPT ![t] = 0]
    /\ at' = [at EXCEPT ![t] = "idle"]
    /\ UNCHANGED <<poolLock, stopEvent, created, monitor>>

-----------------------------------------------------------------------------
\* _monitor_loop

Move(m, from, to) ==
    /\ monitor[m] = from
    /\ monitor' = [monitor EXCEPT ![m] = to]
    /\ UNCHANGED <<stopEvent, current, created, at, captured>>

\* while not self._stop_event.is_set()
Test(m) ==
    /\ Move(m, "test", IF stopEvent THEN "dead" ELSE "update")
    /\ UNCHANGED poolLock

\* update_pool probes without the lock and then recalculates under it.
Lock(m) == poolLock = Free /\ poolLock' = m /\ Move(m, "update", "locked")

Unlock(m) == poolLock' = Free /\ Move(m, "locked", "wait")

\* _stop_event.wait(interval): woken by the event, or after the interval.
Wake(m) ==
    /\ Move(m, "wait", IF stopEvent THEN "dead" ELSE "test")
    /\ UNCHANGED poolLock

Loop(m) == Test(m) \/ Lock(m) \/ Unlock(m) \/ Wake(m)

MonitorNext ==
    \/ \E t \in Owners : Start(t) \/ Stop(t) \/ Join(t) \/ Forget(t)
    \/ \E m \in Monitors : Loop(m)

MonitorSpec == MonitorInit /\ [][MonitorNext]_monitorVars

\* Threads run; the lock is granted in the end to who keeps asking for it.
MonitorFairness ==
    /\ \A t \in Owners : WF_monitorVars(Join(t)) /\ SF_monitorVars(Forget(t))
    /\ \A m \in Monitors :
          /\ WF_monitorVars(Test(m)) /\ SF_monitorVars(Lock(m))
          /\ WF_monitorVars(Unlock(m)) /\ WF_monitorVars(Wake(m))
MonitorFairSpec == MonitorSpec /\ MonitorFairness

-----------------------------------------------------------------------------

\* Every variable has its type, and the lock is held by a monitor in its round.
MonitorTypeOK ==
    /\ poolLock \in {Free} \cup Monitors
    /\ poolLock \in Monitors => monitor[poolLock] = "locked"
    /\ stopEvent \in BOOLEAN
    /\ current \in 0..MaxStarts /\ created \in 0..MaxStarts
    /\ monitor \in [Monitors -> {"none", "test", "update", "locked", "wait", "dead"}]
    /\ at \in [Owners -> {"idle", "join", "forget"}]
    /\ captured \in [Owners -> 0..MaxStarts]

\* At most one monitor runs, and it is the one the pool knows, so that it can be
\* told to stop.
OnlyKnownMonitorRuns == \A m \in Monitors : Alive(m) => m = current

\* A monitor that was told to stop is gone when every stop_monitoring has
\* returned: no thread probes on behalf of a closed pool.
StoppedIsGone ==
    stopEvent /\ (\A t \in Owners : at[t] = "idle") => \A m \in Monitors : ~Alive(m)

\* stop_monitoring returns: it does not wait for a monitor that waits for it.
StopReturns == \A t \in Owners : at[t] # "idle" ~> at[t] = "idle"
=============================================================================
