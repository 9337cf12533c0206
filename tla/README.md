# A verification of hive-nectar

TLA+ models of hive-nectar (`src/src`), checked by TLC on small instances and proved with
TLAPS for every size, but for what the last part of "Theorems" names.
hive-nectar is a client library for the Hive blockchain, with a command line: it finds a
node that answers, builds and signs transactions with keys from an encrypted store, and
reads blocks, lists and objects page by page. What goes wrong unnoticed in such a program is
in how its parts share state, in what a call leaves behind when it fails half way, and in
where one page ends and the next begins; this is what the models are about. What is data
(serialisation, cryptography, formatting, the arithmetic of rewards) is abstract.

## The system's parts

| Part | Source (`src/src/`) | State | Operations | Hard because | Correct when |
|---|---|---|---|---|---|
| Node pool | `nectarapi/pool.py` | health, penalty, counters, cooldown, head, latency per node; the active node; an RLock | get, mark failed, mark rate-limited, recalculate, probe, update | probe threads write without the lock while callers mark and recalculate under it | the active node is the best one, a lagging or rate-limited node is not used, a live node is found in the end |
| Pool monitor | `nectarapi/pool.py` | monitor thread, stop event | start, stop, close, loop | a stop joins a thread that needs the lock | at most one monitor, and it can be stopped |
| RPC client | `nectarapi/graphenerpc.py`, `noderpc.py`, `node.py`, `transports.py` | url, session, closed flag, switch flag, two kinds of error counters | rpcexec, reconnect, next, close | two layers of retries with budgets of their own; blame goes to the node that is active now | failover finds a node that is up, calls end, healthy nodes are not blamed |
| Transaction builder | `nectar/transactionbuilder.py`, `nectar/blockchaininstance/core.py` | operations, keys, signers, the constructed transaction (the dict), the signed transaction | append, add signer, construct, sign, broadcast, clear, load, finalizeOp | three representations of one transaction; a shared buffer; calls that fail half way | what is sent is what was asked for, once, with signatures that fit |
| Key store | `nectarstorage/*`, `nectar/wallet/core.py` | one SQLite file, two objects on it, password and master key in memory | unlock, lock, change password, add, get, remove, wipe; fallback to memory | storage errors hit one object and not the other; restarts | the password opens every key, none is lost |
| Block stream | `nectar/blockchain/client.py` | the local state of a generator | blocks in threads, ranges, or one by one; waiting for a block; the block of a date | every request may be answered by a node that is behind | every block once, in order, up to the last |
| Worker pool | `nectar/blockchain/concurrency.py` | task queue, result queue, abort events | run, enqueue, join, abort, results | workers of the batch before may still run; tasks raise | join returns when every task is done, the results are those of the batch |
| Operations and commands | `nectar/account`, `comment`, `market`, `witness`, `community`, `rc`, `memo`, `blockchaininstance`, `cli` | options, wallet, shared buffer, export file, cached objects | some 75 methods that send an operation or use a key, some 95 commands | many small scripts, each of which may end at every request, and which share one buffer and one wallet | a command sends its own operations, with authority, or nothing; keys are kept before they are needed |
| Readers of lists | `nectar/account/queries.py`, `discussions/core.py`, `comment/models.py`, `blockchain/client.py`, `community` | a cursor | history in both directions, followers, delegations, posts, discussions, accounts, communities | pages overlap, each reader drops the overlap in its own way, and the list moves | each entry asked for, once, and the reader ends |
| Chain data | `nectar/blockchaininstance/core.py` | data per category, time of its refresh, node of the last refresh | refresh, the methods that read | test, mark, request and store are apart | data is recent and of the node in use |
| Shared instance | `nectar/instance.py` | the instance, its configuration, a client that is handed on | get, set, configure | test and set without a lock | one instance, with the latest configuration |
| Beacon node list | `nectar/nodelist.py` | list per object, process-wide cache with a time stamp | refresh, background fetch, update | a background thread writes the list and the cache | a newer list is not replaced by an older one |
| Object cache | `nectar/blockchainobject.py` | objects with an expiry | store, look up, expire | test and use are two calls | — (not read, see below) |
| Account snapshot | `nectar/utils/snapshot.py` | arrays built from the history | build, search | replay of balances | — (cannot be constructed) |
| Values | `nectar/blockchain/models/*`, `nectar/hive.py`, `nectar/rc` | none | arithmetic of amounts, prices, vests, resource credits | rounding | — |
| Serialisation, keys, memos | `nectarbase`, `nectargraphenebase`, `nectar/memo` | none | byte formats, cryptography | — | — |

They interact as follows. A client (`RpcClient`) owns a node list and a pool; its transport
asks the pool for the active node before every attempt and reports failures to it; the
pool's monitor probes the nodes in the background. A chain instance owns a client, a wallet,
a shared transaction buffer and the chain data; `finalizeOp` appends to the buffer, takes
keys from the wallet and head block and authorities from the client, and broadcasts through
it. The wallet owns the key store, which asks the configuration store for the master key.
Methods that send end in `finalizeOp`; commands call methods, one after the other, in one
process with one buffer. The block stream, the readers and all objects read through the
client, each request possibly from another node. Objects made without an instance use the
shared one.

## Modules

| Module | Part | One step is |
|---|---|---|
| `NodePool` | node pool | one access to the node list between two points where another thread may come in |
| `PoolMonitor` | pool monitor | a section under the lock, or a wait |
| `RpcClient` | client, node list, transport | an operation of the pool, a request, an answer, or a decision between two of them |
| `TransactionBuilder` | builder, `finalizeOp` | a whole call, with the point where it fails |
| `KeyStore` | master password, SQLite store, wallet | a whole call; a storage error is a step before it |
| `BlockStream` | `Blockchain.blocks` | a request, or a chunk of requests, up to the next `yield` |
| `WorkerPool`, `Batches` | worker pool, and its promise to the caller | an access to a queue, a counter or an event |
| `Stream` | the generator beside the pool | one of theirs |
| `Steps`, `Operations`, `Commands` | methods and commands, as scripts | (no state) |
| `Session` | processes that run scripts | a step of a script |
| `SessionScripts` | rules that the scripts keep, for the proofs | (no state) |
| `Reading` | a list that changes, and what readers owe | a change |
| `History`, `Paging`, `Discussions`, `BlockDate` | the readers | a page, and what is returned of it |
| `Readers` | all of them with the changing list | one of theirs |
| `ChainData`, `SharedInstance`, `NodeList` | what threads share | an access to a shared variable, a request, an answer |
| `Process` | the three beside each other | one of theirs |
| `MC...` | instances for TLC | |
| `..._proofs` | theorems about the module, and about those it composes | |

Operators that a comment calls a mutant are variants of the code with a plausible mistake;
no specification uses them. Each shows that the property named with it in `PROJECT.json`
would notice. `PROJECT.json` also says for every definition which lines it models.

### NodePool

`healthy`, `penalty`, `errorCnt`, `limitedUntil`, `head`, `latency` are the fields of
`RPCNode`; `active` and `lock` those of the manager. `_recalculate_best_node` runs under the
lock, but probe threads do not take it, so that the recalculation is split at each access:
`Scan` reads one head after the other for the maximum, `Read` computes the score of one node
and `Write` stores it, `Pick` chooses. `RevivedByCooldownOnly` is about what the loop at the
top of it does. The probe writes latency, head, and health as three steps. Callers hold the
node they got (`held`) and report it later, when it may no longer be the active one. The
clock advances freely up to `MaxClock`.

### PoolMonitor

`start_monitoring` does all it does under the lock and is one step. `stop_monitoring` is
three: the signal under the lock, the join, the forgetting under the lock again. The loop
tests the event, probes, recalculates under the lock, and waits.

### RpcClient

The pool appears through its locked operations, one step each. All nodes have the same head
and latency, so that the best node is the first healthy one. The client is used by one
thread and closed by that or another: concurrent use of the pool is `NodePool`'s subject.
`Attempt`, `Reply` and `FailOver` are the transport's loop, `Count`, `Handle`, `Mark`,
`Check` that of `rpcexec`, `Connect` and `OpenSession` are `rpcconnect`. Replies: a result,
a falsy result (which may move the call to another node), a JSON-RPC error, an empty body,
an HTTP error and a rate limit.

### TransactionBuilder

`b` holds the builder: `ops`, `wifs`, `signers`, the dict (`exp` stands for the expiration
and the reference block, which are made together), and `tx`. A node that fails at any
request and a locked or empty wallet end a call in the middle; the state it leaves is the
state the code leaves. An account's authorities are its own keys: the recursion into other
accounts, and ledger devices, are left out. A transaction that was returned is taken to be
written down and read again before it is loaded, and `appendWif` is not modelled apart from
the keys it adds.

### KeyStore

`db` has two databases, on the disk and in memory; `place` says where each of the two
objects has its table. `Fallback` is `_fallback_to_memory` of one object: the file, if any,
is renamed with the second of the clock in its name (`aside`), unless the rename fails
(`FALSE \in Renames`), and the object goes on in memory. The error is taken at the begin of
the call whose statement meets it. `Restart` is the end or crash of the program and its next
start; `Delays` are the seconds between two errors. Left out: automatic unlocking from the
environment, a second program, and collisions of the 16-bit checksum of the master key.

### BlockStream

Every request is answered from some view of the chain, up to `MaxLag` blocks behind it; the
chain grows at any time. `Open` and `Round` are the polls, `FetchChunk`, `Refill` and
`YieldChunk` the threads, `FetchRange` the ranges, `Ask`, `WaitForBlock` and `Fetch`
`wait_for_and_get_block`. The tail of the threaded round (blocks after the last one yielded)
has nothing to do once all chunks are complete, and is not a step. The block numbers are
small, so that the branch that saves a poll when the head is 50 blocks away is not taken. A
request that fails after all its retries ends the generator and is left out, as is
`only_virtual_ops` in ranges, where blocks without operations are skipped on purpose.

### WorkerPool, Batches, Stream

`Blockchain.blocks` uses the pool of workers where `concurrent.futures` is missing: for each
chunk it enqueues the tasks, runs the workers, joins, takes the results, and aborts.
`enqueue`, `run`, `join`, `results`, `abort` are the caller's calls in this order; `Loop`,
`Get`, `Work`, `TaskDone` the accesses of a `Worker` thread. A worker that has taken its
task from the queue goes on after an abort, and workers of the batch before are still there
when the next one is enqueued: `run` starts new threads only when none is alive. A task may
raise: the worker catches it, logs it and counts the task as done.

`Batches` is what the caller may rely on: tasks are handed in, each ends with a result or an
exception, and when all have ended the caller collects the results. `KeepsPromise`, checked
on `Stream`, says that `WorkerPool` implements it, with its liveness, under the refinement
mapping of `WorkerPool`: what is given are the tasks put in by the caller, and a task has
ended when no worker has it any more. In the code the pool is used inside a step of the
generator (`FetchChunk`); a task that raised is a block that is still missing. That is the
same as a step of `Batches`, so that `Stream` runs the two side by side instead of one
inside the other.

### Steps, Operations, Commands, Session

A method that sends, or a command, is a script: the sequence of what it does to the wallet,
to the buffer, to the configuration and to the chain, with every early return and every
exception, and without what it computes or prints. `Operations` has a script for every
method that builds an operation or uses the memo key, `Commands` one for every command of
the command line, made of the former. `Steps` are the words of this language; `Session`
gives each of them its meaning: an action for each kind of step.

A process has options (`--no-broadcast`, `--unsigned`, offline, `--export`), or is a program
that calls methods. A command that returns early leaves the next one of the line to run, one
that raises ends the process; a call of a program that raises leaves the program running
with what the call has put in the buffer. `Read` is a run of steps that can only fail;
`Unlock` is `unlock_wallet`, where a private key given instead of the password makes a store
in memory; `AddKey`, `UseKey`, `DeleteKey`, `Wipe`, `Password`, `Lock` are the wallet's;
`SetNodes` and `Rotate` the list of nodes in the configuration; the `Finalize...` actions
are the branches of `finalizeOp`, with every point at which it may fail; `SendOwn` and
`ExportOwn` are for methods with a builder of their own; `SignFile` and `BroadcastFile` for
a transaction of an earlier command. A transaction that is sent may be executed although the
answer is lost. The chain is external: the role an operation needs, and the keys it changes.
There is one account, whose keys have two ages, before and after a change of its password;
`known` is what cached objects still show.

What the properties of `Session` need of the scripts is said by the rules of
`SessionScripts`, over sets that are closed under the steps of a script: `Lawful` (the role
named to `finalizeOp` suffices for its operations, and no handler catches what it raises),
`LawfulLines` (after an operation that is not a claim a command does nothing that can fail),
`Secure` (at each place of a script, which keys have been put into the wallet on the way
there; those a `finalizeOp` needs are among them). `MCSession` computes these sets for the
scripts of all commands and methods (672 with what may be left of them), and TLC checks
the rules as assumptions of the run `session`.

### Reading, History, Paging, Discussions, BlockDate, Readers

An entry is a number; the list of a node is a set of them that grows (and for followers and
delegations shrinks) while it is read, and a page is a set of entries too, whose order is
that of the numbers. A reader is a record `h` of the local variables of
the generator and a step for each page. `History` is `Account.history` and
`history_reverse`, by index and by block, with the search for the index of a block and the
two kinds of nodes the code distinguishes; `Paging` the blog, feed, replies, posts of an
account, followers, delegations, communities, accounts and reputations; `Discussions` the
sixteen classes of `discussions/core.py` under their `get_discussions`; `BlockDate` the
search of `get_estimated_block_num` for the block of a date in a chain where witnesses miss
their slots. `Readers` has the properties for all of them, with `Excused` for what the code
leaves out; `disturbed`, which tells that something has happened which the code does not
stand (an entry that was returned is removed; another kind of node answers in the middle of
a history with a filter); and `Skips`, the histories long enough for a forward filter to
jump over operations. What a reader may be asked for is said by `CasesAssumption`, reader by
reader; TLC evaluates it on the cases of `MCReading`.

### ChainData, SharedInstance, NodeList, Process

`ChainData` is `refresh_data` and the methods that read from it: `Check` (the test of the
time and the node), `Mark` (both are set before the request), `Answer`, `Store`, `Return`.
The node may change during a request; a request may fail, which raises, or for two
categories leaves no data. `SharedInstance` is `shared_blockchain_instance` in its four
accesses (`Look`, `Build`, `Assign`, `ReturnInstance`), the setters, and the client that
`_shared_transport` hands from one instance to the next. `NodeList` has the lists of several
owners, their fetches on threads, and the cache; a fetch looks in the cache, asks the
beacons, stores, and applies as separate steps. `Process` puts the three in one program; no
action of one touches the variables of another, so a behaviour uses one of them.

## Runs

| Run | Instance | What it shows |
|---|---|---|
| `pool_callers` | 3 nodes, 2 callers, no probes, a clock up to 3 | with any interleaving of two callers' reports cooldowns are honoured, and a node comes back only by the end of its cooldown |
| `pool_background` | 2 nodes, a caller, an updater, a node going down or up | beside probes that ignore the lock the active node is the best one when nobody is inside; a lagging node is not used; once some node stays up, the active node is one that answers, for good |
| `rpc_calls` | 3 nodes, two outages, one thread that calls, two that close | a node that is up and healthy throughout a call serves it; only nodes that failed are out; every call ends |
| `rpc_close` | 2 nodes, two closers, monitored; rate limits, empty bodies, errors | close ends a call even where the call would retry for ever |
| `monitor_threads` | 3 threads, 4 monitors | one monitor at most, none left behind, stop returns |
| `tx_calls` | 1 account, 2 operations, 2 broadcasts, one load, all calls | signatures that are sent fit, no operation is sent twice, finalizeOp signs and sends what it was called for |
| `keystore_storage` | 2 keys, 2 passwords, 2 master keys, 2 storage errors | the password opens every key on the disk, an unlocked store reads them, none is lost, if renaming works |
| `stream` | blocks 1 to 6, nodes up to 2 behind, chunks of 3, ranges of 2; 2 workers, 3 batches of 5 tasks | no gap, no repetition, streams reach the last block or an error, and do not fail while nodes are up to date; the pool of workers keeps its promise |
| `session` | every command on command lines of two, every method called twice by a program; 7 sets of options, 3 wallets | what is sent is the command's own, is authorised, and is nothing in a dry run; a failed command has sent nothing; derived keys are kept first |
| `reading` | every reader, lists of up to 4 entries, pages of 2, one change; histories of 6 with a filter; chains of up to 6 blocks (11 to count forwards) with missed slots | what was there all the time and asked for is returned, once, in order, and nothing else; readers end |
| `process` | 2 threads, 2 nodes; 3 reads, 4 calls or 3 fetches; a clock up to 2 | recent data of the node in use, an instance that fits the configuration and stays, lists that an update makes fresh |
| `tx_unsigned` | append, sign, send, append, send | violation: the second transaction is sent unsigned |

The bounds are as small as the interesting case allows. Three nodes are one that failed, one
that is blamed and one that serves. Two operations and two broadcasts are what a stale
signature needs. Two storage errors are one for each object. Six blocks give two chunks, one
of them partial, two ranges and a future stop. Two blocks of lag cover a poll below the
start of the round. Two workers and three batches give a batch that fills the queue, a
smaller one, and workers that are left over from the batch before. Two commands are what one
needs to find the rest of another in the buffer, the wallet or the export file. Four entries
in pages of two are a first page, a full one, and a last one that is full, partial or empty;
one change is enough to move an edge between two pages. Six operations are what a reader
with a filter needs to go two pages at a time. Two reads that overlap and one after
them show a stale mark. The counters that only bound the runs (`MaxClock`, `MaxReports`,
`MaxFlips`, `MaxStarts`, `MaxSent`, `MaxLoads`, `MaxNow`, `MaxMasters`, `MaxHead`,
`MaxRounds`, `MaxCalls`, `MaxChanges`, `MaxTime`, `MaxReads`, `MaxUses`, `MaxFetches`) are
guards on the steps of the environment or of the caller, never on the code's own. `process`
takes its two threads for alike (`SYMMETRY`); its properties are invariants and step
properties.

The passing runs leave out what breaks their properties and is listed below: probes in
`pool_callers`, empty bodies, rate limits and application errors in `rpc_calls`, failing
renames and two errors in one second in `keystore_storage`, and in `reading` the queries
that comments of `MCReading` name. `BlockStream`'s properties except streams with a range
that came back short and, for `NoReplay`, those where a poll went back; the properties of
`Session` except programs in which an earlier call has raised; those of `Process` except
what its history variables (`excuse`, `outdated`, `raced`, `among`) name.

### Fairness

* `NodePool`: threads inside the pool go on; probes end (their requests have a timeout of 3
  s); the monitor starts the next round. Nothing is assumed of callers and nodes.
* `PoolMonitor`: threads run, and the lock is granted at last to who keeps asking (strong
  fairness of the two steps that take it).
* `RpcClient`: threads inside a call go on, requests end (`timeout`). The world is free.
* `Stream`: the generator is driven on, the chain grows, and one of the missing blocks that
  exist is delivered some time: no node lags for ever. The caller of the pool and every
  worker run; they are threads that never wait but for a queue, a counter or each other, and
  those waits are the guards.
* `Session`: a process goes on with its script. Nobody need begin a command.
* `Readers`: the caller of a generator asks for the next entry. The list need not change.
* `TransactionBuilder`, `KeyStore`, `Process`: no liveness, since every call is the user's,
  and what threads share is only read and written.

Deadlock is checked but in `stream`, `session`, `reading` and `process`, where the program
ends.

## Theorems

They hold for every value of the constants that the named `ASSUME`s of the modules admit.

`NodePool_proofs` (every number of nodes, every set of threads, every bound): `TypeCorrect`,
`ActiveIsAlwaysBest` (`ActiveIsBest`), `LaggardsAreDown` (`NoLaggardHealthy`), and, without
updaters, `CooldownsHold` (`CooldownHonoured`) and `OnlyCooldownsRevive`
(`RevivedByCooldownOnly`). `ActiveIsBest` only speaks of moments when
nobody is inside the pool and is not inductive. `IInv` adds that the lock is held exactly by
a thread inside a recalculation, that probe threads exist only between their start and their
join, and two facts about a recalculation that no probe can disturb any more: `ScanSoFar`
(the maximum covers the healthy nodes scanned) and `RatedSoFar` (the nodes rated so far are
within `max_lag` of it). What a disturbed recalculation computes does not matter: whoever
runs the probes recalculates after joining them. `CooldownInv` carries
`CooldownsHold`.

The same module has the theorems about `PoolMonitor` (any number of threads and monitors):
`MonitorTypeCorrect`, `NoSecondMonitor` (`OnlyKnownMonitorRuns`), `StoppedMonitorsAreGone`
(`StoppedIsGone`). The invariant adds
that monitors not yet created do not run (`Created`), that a thread past its join has seen
its monitor dead (`JoinedIsDead`), and that a monitor told to stop is awaited by some thread
(`SignalledIsAwaited`).

`KeyStore_proofs` (any number of keys, passwords, errors and restarts): `StoreInvariant`,
`StoreTypeCorrect`, `KeysOnDiskOpen` (`KeysOpen`), `UnlockedStoreReads` (`UnlockedReads`),
`StorageErrorsKeepKeys` (`KeysSurvive`), all under `MovesAside`: renames do not fail, and no
two errors fall into one second; the code does not keep either promise by itself (see
below). The invariant says that the two tables are in the file together or not at all
(`TablesTogether`), that a master key in memory is that of the file (`MasterKept`), and that
names of later seconds are free (`NamesFree`).

`Stream_proofs`, about the generator (every mode, chunk, range, chain and lag):
`StreamInvariant`, `StreamTypeCorrect`, `StreamHasNoGap` (`NoGap`), `StreamHasNoReplay`
(`NoReplay`), `StreamReachesStop` (`ReachesStop`), `StreamFollows` (`FollowsSteadyNodes`).
The invariant relates the last block yielded (`Tip`), the next one to fetch, and the ends of
the chunk and of the round (`Positions`, `Passed`), and bounds the waits (`WaitIsLimited`).
About the pool of workers (any number of workers, any batches that fit the queue):
`PoolInvariant`, and `PoolImplementsBatches`: the pool starts as `Batches` starts, and each
of its steps is one of `Batches` or none. The invariant follows a task from its batch
(`QueueIsTheRest`: the queue is the end of what was put in) to the one worker that has it
(`EachHasItsTask`), counts what `unfinished` counts (`Counted`), so that a join that returns
leaves no task behind (`JoinedIsFinished`), and says what the result queue holds
(`ResultsAreOfTheBatch`). `enqueue` is `HandIn`, `TaskDone` is `Finish`, `results` is
`Collect`. About the two beside each other: `StreamKeepsItsPromises`. Every step of `Stream`
is a step of one and a stutter of the other (`PartsOfTheStream`), so that all of this holds
of the specification the run checks.

`Process_proofs`, about the chain data (any number of threads, methods and nodes):
`DataInvariant`, `ReturnedDataIsRecent` (`DataIsRecent`), `ReturnedDataIsOfThisNode`
(`DataOfThisNode`). Between the mark and the data there is always a request, so that neither
is inductive: `DataFollowsMark` and `DataFromLastNode` say what holds when no request for
the category is under way, `RequestIsMarked` and `ReturnIsMarked` carry it across one.
About the shared instance (any number of threads, nodes, configurations):
`ClientsFitTheConfig` (`SharedFitsConfig`) and `SharedInstanceStays` (`SharedStays`).
`BuiltFits` is the same of instances that are built and not yet assigned; `OvertakenKnowsIt`
says that a build during which an instance was set has been told. About the list of the
beacon (any number of owners and fetches): `UpdatesAreFresh` (`UpdateIsFresh`) and
`ServedFromCacheIsRecent` (`CacheIsRecent`). `StampsAreEarly`: what is cached, or about to
be, is not older than its stamp. `UpdatesAreFelt`: after an update that found no other fetch
under way nothing older is in the cache, in a fetch, or in the list. About all three, as
the run composes them: `PartsKeepTheirPromises`.

`RpcClient_proofs` (any number of nodes, outages and retries): `ClientTypeCorrect` without a
hypothesis, `BlameIsFair` (`OnlyFailedAreDown`) and `FailoverServes` (`SteadyNodeServes`)
under `UsedByOne`: one thread calls, any number may close the client; nodes answer with a
result, a falsy result or an HTTP error, or not at all; there is no monitor; and a node is
tried more than once per call. TLC violates both properties as soon as any one of these is
dropped: a second caller, an application error, an empty body, a rate limit, a monitor that
brings nodes back, or one try per node make the client take a node out that did not fail.
The argument follows the blame of an error: a failed node that is not down yet is the active
one, and its error is being handled (`Blamed`); a call is counted against the node that is
asked and no other (`Counted`), an error against a node that is down or about to be
(`Charged`); so that the nodes which have not let this call down stay in rotation (`Kept`),
and a call that gives up has none of them left (`Serves`).

`TransactionBuilder_proofs` (any accounts, keys, wallets, operations and bounds):
`BuilderTypeCorrect`, `SentSignaturesFit` (`SignaturesFit`), `OperationsAreSentOnce`
(`OpSentOnce`), `FinalizeSendsSigned` (`FinalizeSigns`), `SuccessSendsTheOperation`
(`SuccessIsSent`). Signatures of the dict may be stale, as long as it is to be constructed
anew before it is signed or sent: `Agrees` says when dict, operations and signatures are of
one piece, and every call keeps this (`Sound`), in all the places where it may fail.
`Unsent` and `SentOnce` carry `OpSentOnce`: while nothing is loaded, the operations in the
buffer are newer than all that was sent.

`Session_proofs` (any wallet, any options, any number of processes and commands, and any
scripts that keep the rules of `SessionScripts`): `DryRuns` (`DryRunSendsNothing`, without a
rule), `SendsItsOwnWork` (`OnlyOwnOperations`), `SignsWithTheRightKeys` (`SentIsAuthorised`),
`FailuresPrecedeSending` (`FailsBeforeSending`), `DerivedKeysAreKept` (`NewKeysKept`). The
invariant is that the buffer is empty between two steps of a process that has not failed
(`BufferEmpty`): a `finalizeOp` that raises before sending leaves its operations there, so
that nothing must catch what it raises. `CommitInv` adds that once a command line has sent
more than a claim the rest of it cannot fail; `KeptInv` that the process is at a place of
`Secure` whose keys are in a wallet that is unlocked.

`Readers_proofs` (any size of a page, any lists, any number of changes, any nodes, and any
queries that `CasesAssumption` admits): `ReturnedInOrder` (`NothingTwice`), `OnlyAsked`
(`NothingElse`), for all readers. A reader of pages is followed by `PageInv` (what it has
returned ascends, and is not behind its cursor) and `AskedInv` (it was asked for, and is
within the limit); a page is summed up by the set that is returned of it, which `Moves`
onwards and `Fits` what is still owed, and each reader is shown to take such a step.
`ThreadInv` says that replies come after what they reply to. A reader of operations is
followed by `HistoryInv`, which relates the index it will ask for next to what it has
returned, `BlocksInv` (the blocks of a history ascend, also those to come) and `KeptInv`.
For the search of a date `DateInv` says that it came to its block from the one before, and
to that from the one before (`OnTheWay`, `Reckoned`): it ends when it has found a block that
is near, or when it goes to and fro, and then (`ToAndFroIsNear`) the date lies in a gap
between two blocks. Its arithmetic is that of blocks at least an interval apart
(`SpacedUp`, `SpacedDown`).

`NothingLeftOut` is `NothingMissed`, for all readers. Of pages its invariant is `SeenInv`: an
entry asked for that stays in the list and lies behind the cursor was returned, or is
excused. `Placed` says what makes a page reach far enough (the cursor is the end of a page,
the limit is not reached while the reader goes on, a page that repeats its first entry has
room for a second) and `KindInv` the same of the queries: a thread fits into a page, and a
page holds more than the posts after the date. A page then `Covers` its part of the list:
what is ahead of the old cursor and behind the new one is on it, and after the last page
nothing is ahead, unless the limit was reached. Entries that appear keep `SeenInv` because
they do not stay, in the sense of `stay`, and entries that disappear only make it weaker.

Of histories the invariant is `Complete`. `CountInv`: no operation that was there at first
is beyond the number of operations. `SearchInv`: what lies before the lower bound of the
search, or before the estimate it ends with, is too early to be asked for; it rests on
`BlocksInv` alone, so it does not matter which blocks the search guesses, nor where it stops.
`WindowInv`: a window begins where the one before it ended, also when it was cut at either
end of the history, and the last one ends at the last operation. `BehindInv`: what is behind
the window was returned, or is excused. A page carries it over because its request reaches
the end of the window, with a filter too (`OperationsReach`: a page that is not full has all
there is), and because what is kept of it and not shown is beyond the stop (`ShownReaches`).
The proof fails where a filter lets the forward reader jump, and `LongHistories` of
`MCReading` shows operations missed there: hence `Skips`. Downwards the same jump misses
nothing, for the nodes that filter look two pages back.

### Only model-checked

The liveness properties (`SettlesOnLiveNode`, `CallEnds`, `ClosedCallsEnd`, `StopReturns`,
`Ends`, and the fairness of `Batches` in `KeepsPromise`) are beyond the prover.
That the scripts of the code keep the rules which the theorems of
`Session_proofs` assume is checked by TLC on those scripts, which are all there are.

## Where code and documentation differ

One is a run: `tx_unsigned` (`transactionbuilder.py:611`). These were met as well; the
models contain the behaviour or name it as left out, and no passing property denies it.
Paths are below `src/src/nectarapi`, `src/src/nectar` and `src/src/nectarstorage`.

Nodes:

* `pool.py:186`: a probe that answers makes a node healthy before its cooldown is over.
* `node.py:211`: the retry budget looked at is that of the node active after a failure; with
  rate limits of alternating nodes a call retries for ever.
* `node.py:207`: an empty body is retried under a counter that nothing increases
  (`graphenerpc.py:592`); the call never ends.
* `graphenerpc.py:586`: calls answered with an application error add up to a failed node.
* `graphenerpc.py:578`, `node.py:115`: when no node is marked healthy (one node and one
  transport error, or all nodes rate-limited) calls are refused, and without a monitor
  nothing changes this, though the cooldowns end.
* `graphenerpc.py:250`: a reconnection that has passed its test of `_closed` makes a session
  that `close()` does not see.
* `transports.py:109`: attempts are counted, not nodes: with `Retry-After: 0` the second
  node is never asked.
* `nodelist.py:171`: an older fetch that ends later overwrites a newer list, and fills a
  cache just cleared; a node without an endpoint makes `NodeList()` raise, and a list
  without scores leaves it empty.
* `blockchaininstance/core.py:1204`, `cli/utils.py:254`: `currentnode` and `nextnode` turn
  the list for ever when the node in use is not in it.

Data and instances:

* `blockchaininstance/core.py:433`: a refresh is marked before the request: when that fails,
  old data or none counts as recent, and without the configuration the chain passes for the
  main chain's defaults. Line 436: the node of the last refresh is one for all categories.
  An answer that overlaps a newer one overwrites it.
* `instance.py:21`: two threads build an instance each; `set_shared_config` during a build
  leaves an instance of the old configuration, `set_shared_blockchain_instance` during a
  build is overwritten, and `shared_blockchain_instance` may return `None` after it found
  one.
* `blockchainobject.py:182`: objects looked up by name are never taken from the cache.
* `utils/snapshot.py:88`, `:583`: asks for names that exist nowhere, so that
  `AccountSnapshot` cannot be made.

Keys:

* `sqlite.py:359`: when the rename fails, a key may be on the disk under a master key that
  is only in memory; two files moved aside in one second replace each other. Line 391: two
  programs may insert one key twice.
* `wallet/core.py:479`: a key added to a store just wiped cannot be read after the next
  start.
* `cli/utils.py:118`: a private key is accepted where `allow_wif=False`; `addkey`, `delkey`
  and `changewalletpassphrase` then work on a store in memory.
* `cli/wallet.py`: `createwallet` wipes before it asks for the new password, and with a
  keyring makes a wallet without one (line 70); `keygen -k` is shifted by one role (398);
  `changewalletpassphrase` writes the keyring first.
* `cli/account.py`: `changekeys` never unlocks the wallet, and does not store the owner key
  it puts on the chain.
* `blockchaininstance/core.py:1546`, `1751`, `1924`: a key that is there already raises what
  the handler does not catch, so that a `newaccount` whose broadcast failed cannot be
  repeated with the same password.

Transactions:

* `transactionbuilder.py:573`: after `clear()` a broadcast sends a transaction without
  operations, although it "returns None".
* `transactionbuilder.py:569`: a broadcast that fails while signing does not clear the
  buffer.
* `transactionbuilder.py:472`: a loaded transaction cannot be signed with
  `reconstruct_tx=False`; so `sign` of the command line (`cli/utils.py:448`) always fails.
* `transactionbuilder.py:627`: with `--unsigned` the transaction is constructed once: the
  export of the second command of a line has the operations of the first.
* `transactionbuilder.py:268`: a second `appendSigner` of an account, for another permission
  or after the key was added, does nothing. Line 288: the account counts as signing even
  when no key was found.
* `blockchaininstance/core.py:2053`: `witness_set_properties` signs and broadcasts although
  `--unsigned` says "Nothing will be signed" (`cli/__init__.py:34`).
* `account/operations.py:1180`: `disallow` may make a threshold negative, and changes the
  object before it can fail; `update_account_profile(account=other)` updates the caller.
  `cli/account.py:561`: `claimaccount` reads the account after each claim, and fails after
  the first was sent.
* `market.py`: `buy` and `sell` restore `blocking` only on success, and fail on an empty
  order book.

Readers:

* `blockchain/client.py:504`: a range that comes back short leaves a gap, also when `stop`
  is in the future. Line 546: a poll lower than the one before makes the stream repeat
  blocks; a start in the future yields earlier blocks.
* `blockchain/client.py:236`: `get_estimated_block_num` returns a number that is one step
  beyond the last block it has looked at: where slots were missed it may be many seconds
  off, beyond the head, or below 1.
* `blockchain/client.py:737`: `stream` drops the positional arguments that its docstring
  passes on (line 691). Line 841: `awaitTxConfirmation` gives up after ten blocks, before
  the transaction expires.
* `account/queries.py`: `history` does not end when it starts at or after the newest
  operation with `stop=0`; misses operations of the block it starts in; returns one twice
  with a start on api.hive.blog; skips operations with a filter when the client goes over to
  another kind of node, or, from 3000 operations on, when a page with few matches is followed
  by one that begins 2000 later although a request returns 1000 (`Skips`). `history_reverse`
  returns one twice from a start in a block. An entry that is removed while it is the cursor loses another one, in followers and
  delegations. Posts without an author can make the reading of a blog endless.
  `comment_history` without a permlink returns nothing.
* `blockchain/client.py`: `get_all_accounts` leaves out the start, and never stops at a stop
  that is the start.
* `discussions/core.py`: votes and children ask for trending, cashout for payout (the
  comments say so); `Trending_tags` ignores its start and returns its first page again; a
  page of `author_before_date` without a post before the date ends the reading; comments and
  replies lose entries when the limit of the query cuts a thread.

## Not modelled

* The asynchronous client, transport and probes repeat the synchronous code; their tasks
  interleave at `await` only, which is a coarser grain than that of the threads modelled.
* Object cache and account snapshot: see above, nothing depends on the one and the other
  cannot be made.
* Serialisation, cryptography, memos, amounts, prices, rewards, mana, formatting and
  parsing: computations on data without state of their own, and many of them on
  floating-point numbers.
* Single reads of the chain (tickers, profiles, account fields, HAF, media), which send a
  request and show the answer.
* The token stores repeat the key stores; SQLite backups are called by nothing; a second
  program on the same file is not modelled.
* Ledger devices, and the recursion of `TransactionBuilder` into the authorities of other
  accounts.

## What is left

1. `NodePool` against an abstract pool (a node is chosen among those believed healthy).
2. The keys found for an account whose authorities are other accounts (`AuthorityKeys`, a
   pure module: they reach the threshold, and no others are asked for).
3. A second program on the wallet file.
4. The arithmetic of amounts, prices and vests over bounded integers.
