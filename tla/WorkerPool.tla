------------------------------- MODULE WorkerPool ------------------------------
(***************************************************************************)
(* The pool of threads that fetches blocks where there are no futures      *)
(* (blockchain/concurrency.py), used as Blockchain.blocks uses it: a batch *)
(* of at most as many tasks as threads is put in the queue, the threads    *)
(* are started and joined, the results taken, and the threads told to end; *)
(* and so on, while the threads of the batch before may still be running.  *)
(*                                                                         *)
(* idle(), which nothing calls, is left out.                               *)
(***************************************************************************)
EXTENDS Naturals, Sequences

CONSTANTS
    ThreadCount,   \* thread_count, and the length of the queue (batch mode)
    Jobs           \* the tasks of each batch, in order

AllTasks == UNION {{Jobs[b][i] : i \in DOMAIN Jobs[b]} : b \in DOMAIN Jobs}

\* No batch is empty, and every task is one of its own.
ASSUME PoolAssumption ==
    /\ ThreadCount \in Nat \ {0}
    /\ Jobs \in Seq(Seq(AllTasks)) /\ Jobs # <<>>
    /\ \A b \in DOMAIN Jobs : Len(Jobs[b]) \in 1..ThreadCount
    /\ \A b, c \in DOMAIN Jobs : \A i \in DOMAIN Jobs[b], j \in DOMAIN Jobs[c] :
          Jobs[b][i] = Jobs[c][j] => b = c /\ i = j
    /\ "none" \notin AllTasks

VARIABLES
    caller,     \* where the caller is: the step, the batch, the tasks put in the queue
    queue,      \* tasks to be done
    unfinished, \* tasks put in the queue and not marked as done
    resultQueue,
    threads,    \* of the pool, the threads started last
    worker,     \* each thread: where it is, and its task
    aborts,     \* the threads told to end
    ends,       \* history: of each task, how it ended
    returned    \* history: the results that the caller got last

poolVars == <<caller, queue, unfinished, resultQueue, threads, worker, aborts, ends, returned>>

Batch == Jobs[caller.batch]
Workers == 1..(ThreadCount * Len(Jobs))
Off == [at |-> "off", task |-> "none"]

PoolInit ==
    /\ caller = [at |-> "enqueue", batch |-> 1, put |-> 0]
    /\ queue = <<>> /\ unfinished = 0 /\ resultQueue = <<>>
    /\ threads = {} /\ aborts = {}
    /\ worker = [w \in Workers |-> Off]
    /\ ends = [t \in AllTasks |-> "none"]
    /\ returned = {}

CallerAt(pc) == caller.at = pc
Go(pc) == caller' = [caller EXCEPT !.at = pc]

-----------------------------------------------------------------------------
(* The caller.                                                             *)

\* Waits while the queue is full.
enqueue ==
    /\ CallerAt("enqueue") /\ caller.put < Len(Batch) /\ Len(queue) < ThreadCount
    /\ queue' = Append(queue, Batch[caller.put + 1])
    /\ unfinished' = unfinished + 1
    /\ caller' = [caller EXCEPT !.put = @ + 1]
    /\ UNCHANGED <<resultQueue, threads, worker, aborts, ends, returned>>

alive == \E w \in threads : worker[w].at # "off"

\* run(True): waits until no thread is alive, and starts new ones.
run ==
    /\ CallerAt("enqueue") /\ caller.put = Len(Batch) /\ ~alive
    /\ threads' = ((caller.batch - 1) * ThreadCount + 1)..(caller.batch * ThreadCount)
    /\ worker' = [w \in Workers |-> IF w \in threads' THEN [Off EXCEPT !.at = "loop"] ELSE worker[w]]
    /\ Go("join")
    /\ UNCHANGED <<queue, unfinished, resultQueue, aborts, ends, returned>>

join ==
    /\ CallerAt("join") /\ unfinished = 0
    /\ Go("results")
    /\ UNCHANGED <<queue, unfinished, resultQueue, threads, worker, aborts, ends, returned>>

results ==
    /\ CallerAt("results")
    /\ returned' = {resultQueue[i] : i \in DOMAIN resultQueue}
    /\ resultQueue' = <<>>
    /\ Go("abort")
    /\ UNCHANGED <<queue, unfinished, threads, worker, aborts, ends>>

\* The threads end when they come to it; the caller goes on.
abort ==
    /\ CallerAt("abort")
    /\ aborts' = aborts \cup threads
    /\ caller' = IF caller.batch = Len(Jobs) THEN [caller EXCEPT !.at = "done"]
                 ELSE [at |-> "enqueue", batch |-> caller.batch + 1, put |-> 0]
    /\ UNCHANGED <<queue, unfinished, resultQueue, threads, worker, ends, returned>>

Caller == enqueue \/ run \/ join \/ results \/ abort

-----------------------------------------------------------------------------
(* A thread.                                                               *)

Goes(w, pc) == worker' = [worker EXCEPT ![w].at = pc]

Loop(w) ==
    /\ worker[w].at = "loop"
    /\ Goes(w, IF w \in aborts THEN "off" ELSE "get")
    /\ UNCHANGED <<caller, queue, unfinished, resultQueue, threads, aborts, ends, returned>>

\* The thread may have been told to end in between; it takes a task all the same.
Get(w) ==
    /\ worker[w].at = "get"
    /\ IF queue = <<>> THEN Goes(w, "loop") /\ UNCHANGED queue
       ELSE /\ worker' = [worker EXCEPT ![w] = [at |-> "work", task |-> Head(queue)]]
            /\ queue' = Tail(queue)
    /\ UNCHANGED <<caller, unfinished, resultQueue, threads, aborts, ends, returned>>

\* The task returns a result, or raises, which is logged.
Work(w) ==
    /\ worker[w].at = "work"
    /\ \/ resultQueue' = Append(resultQueue, worker[w].task) /\ ends' = [ends EXCEPT ![worker[w].task] = "some"]
       \/ UNCHANGED resultQueue /\ ends' = [ends EXCEPT ![worker[w].task] = "raised"]
    /\ Goes(w, "finally")
    /\ UNCHANGED <<caller, queue, unfinished, threads, aborts, returned>>

\* Mutant: a task that raised is not marked as done.
TaskDoneUnlessRaised(w) ==
    /\ worker[w].at = "finally"
    /\ unfinished' = IF ends[worker[w].task] = "raised" THEN unfinished ELSE unfinished - 1
    /\ worker' = [worker EXCEPT ![w] = [Off EXCEPT !.at = "loop"]]
    /\ UNCHANGED <<caller, queue, resultQueue, threads, aborts, ends, returned>>

TaskDone(w) ==
    /\ worker[w].at = "finally"
    /\ unfinished' = unfinished - 1
    /\ worker' = [worker EXCEPT ![w] = [Off EXCEPT !.at = "loop"]]
    /\ UNCHANGED <<caller, queue, resultQueue, threads, aborts, ends, returned>>

Worker(w) == Loop(w) \/ Get(w) \/ Work(w) \/ TaskDone(w)

PoolNext == Caller \/ \E w \in Workers : Worker(w)

PoolSpec == PoolInit /\ [][PoolNext]_poolVars

-----------------------------------------------------------------------------
(* Properties.                                                             *)

MarkedDone(t) == ends[t] # "none" /\ \A w \in Workers : worker[w].task # t
Handed(b, n) == {Jobs[b][i] : i \in 1..n}

Promise == INSTANCE Batches WITH
    Tasks <- AllTasks,
    given <- IF caller.at \in {"abort", "done"} THEN {} ELSE Handed(caller.batch, caller.put),
    result <- [t \in AllTasks |-> IF MarkedDone(t) THEN ends[t] ELSE "none"],
    collected <- returned

\* The pool keeps the promise to its caller: every batch ends, although tasks raise, and
\* ends with the results of its tasks only, although the threads of the batch before take
\* tasks of the next.
KeepsPromise == Promise!BatchSpec
================================================================================
