-------------------------------- MODULE NodeList -------------------------------
(***************************************************************************)
(* The list of nodes that the beacon publishes, the NodeLists of a         *)
(* program, and the cache that they share (nectar/nodelist.py).  A         *)
(* NodeList begins with what is there and fetches the list on a thread of  *)
(* its own.                                                                *)
(***************************************************************************)
EXTENDS Integers

CONSTANTS
    Owners,          \* threads, each with a NodeList
    CacheDuration,   \* CACHE_DURATION
    MaxClock,        \* bound on the time
    MaxFetches       \* bound on the fetches

ASSUME BeaconAssumption == {CacheDuration, MaxClock, MaxFetches} \subseteq Nat

\* A list of nodes: when the beacon gave it, and whether there are any in it.  STATIC_NODES
\* are not from the beacon.  (A NodeList leaves out the nodes without a score.)
Contents == {"some", "empty"}
NotCached == [at |-> -1, kind |-> "none"]
Static == [at |-> -1, kind |-> "static"]

VARIABLES
    clock,     \* the time
    cache,     \* _cached_nodes
    stamp,     \* _cache_timestamp
    nodes,     \* the contents of each NodeList
    fetch,     \* the fetches
    fetches,   \* number of fetches begun
    asked      \* history: when update_nodes was called last, and whether another fetch was
               \* under way then

nodesVars == <<clock, cache, stamp, nodes, fetch, fetches, asked>>

NoFetch == [at |-> "none", owner |-> "none", updates |-> FALSE, began |-> 0, got |-> NotCached]

NodesInit ==
    /\ clock = 0
    /\ cache = NotCached /\ stamp = 0
    /\ nodes = [o \in Owners |-> Static]
    /\ fetch = [i \in 1..MaxFetches |-> NoFetch]
    /\ fetches = 0
    /\ asked = [o \in Owners |-> [at |-> -1, among |-> FALSE]]

ClockTick ==
    /\ clock < MaxClock /\ clock' = clock + 1
    /\ UNCHANGED <<cache, stamp, nodes, fetch, fetches, asked>>

Truthy(list) == list.kind = "some"
FetchAt(i, pc) == fetch[i].at = pc
Busy(o) == \E i \in DOMAIN fetch : fetch[i].owner = o /\ fetch[i].updates /\ ~FetchAt(i, "done")

-----------------------------------------------------------------------------
(* NodeList.                                                               *)

Start(o, updates, changed) ==
    /\ fetches < MaxFetches /\ fetches' = fetches + 1
    /\ fetch' = [changed EXCEPT ![fetches + 1] =
                    [NoFetch EXCEPT !.at = IF updates THEN "ask" ELSE "begin",
                                    !.owner = o, !.updates = updates, !.began = clock]]

Refresh(o, changed) ==
    /\ nodes' = [nodes EXCEPT ![o] = IF Truthy(cache) THEN cache ELSE Static]
    /\ Start(o, FALSE, changed)

\* NodeList(), and update.
_refresh_nodes(o) ==
    /\ ~Busy(o)
    /\ Refresh(o, fetch)
    /\ UNCHANGED <<clock, cache, stamp, asked>>

\* Mutant: the cache is left as it is.
update_nodes_on_top(o) ==
    /\ ~Busy(o)
    /\ asked' = [asked EXCEPT ![o] = [at |-> clock, among |->
                    \E i \in DOMAIN fetch : fetch[i].at \in {"ask", "store", "apply"}]]
    /\ Start(o, TRUE, fetch)
    /\ UNCHANGED <<clock, cache, stamp, nodes>>

\* The cache is cleared and not looked at.
update_nodes(o) ==
    /\ ~Busy(o)
    /\ cache' = NotCached /\ stamp' = 0
    /\ asked' = [asked EXCEPT ![o] = [at |-> clock, among |->
                    \E i \in DOMAIN fetch : fetch[i].at \in {"ask", "store", "apply"}]]
    /\ Start(o, TRUE, fetch)
    /\ UNCHANGED <<clock, nodes>>

-----------------------------------------------------------------------------
(* fetch_beacon_nodes, and what is done with its result.                   *)

Reach(i, pc, list) == fetch' = [fetch EXCEPT ![i].at = pc, ![i].got = list]

LookInCache(i) ==
    /\ FetchAt(i, "begin")
    /\ fetch' = [fetch EXCEPT
                    ![i].began = clock,
                    ![i].at = IF cache # NotCached /\ clock - stamp < CacheDuration
                              THEN "apply" ELSE "ask",
                    ![i].got = IF cache # NotCached /\ clock - stamp < CacheDuration
                               THEN cache ELSE NotCached]
    /\ UNCHANGED <<clock, cache, stamp, nodes, fetches, asked>>

\* One of the beacons answers.
BeaconAnswers(i) ==
    /\ FetchAt(i, "ask")
    /\ \E kind \in Contents : Reach(i, "store", [at |-> clock, kind |-> kind])
    /\ UNCHANGED <<clock, cache, stamp, nodes, fetches, asked>>

\* None does: whatever is cached is taken.
BeaconsFail(i) ==
    /\ FetchAt(i, "ask")
    /\ Reach(i, "apply", cache)
    /\ UNCHANGED <<clock, cache, stamp, nodes, fetches, asked>>

\* Mutant: the list is stamped with the time when it is stored.
StoreInCacheNow(i) ==
    /\ FetchAt(i, "store")
    /\ cache' = fetch[i].got /\ stamp' = clock
    /\ Reach(i, "apply", fetch[i].got)
    /\ UNCHANGED <<clock, nodes, fetches, asked>>

\* The list is stamped with the time when the fetch began.
StoreInCache(i) ==
    /\ FetchAt(i, "store")
    /\ cache' = fetch[i].got /\ stamp' = fetch[i].began
    /\ Reach(i, "apply", fetch[i].got)
    /\ UNCHANGED <<clock, nodes, fetches, asked>>

\* A list with nodes is taken over; after an update without one the NodeList begins again.
Apply(i) ==
    LET o == fetch[i].owner
        done == [fetch EXCEPT ![i] = [NoFetch EXCEPT !.at = "done"]]
    IN /\ FetchAt(i, "apply")
       /\ IF Truthy(fetch[i].got)
          THEN nodes' = [nodes EXCEPT ![o] = fetch[i].got] /\ fetch' = done /\ UNCHANGED fetches
          ELSE IF fetch[i].updates THEN Refresh(o, done)
          ELSE fetch' = done /\ UNCHANGED <<nodes, fetches>>
       /\ UNCHANGED <<clock, cache, stamp, asked>>

NodesNext ==
    \/ ClockTick
    \/ \E o \in Owners : _refresh_nodes(o) \/ update_nodes(o)
    \/ \E i \in DOMAIN fetch : \/ LookInCache(i) \/ BeaconAnswers(i) \/ BeaconsFail(i)
                               \/ StoreInCache(i) \/ Apply(i)

NodesSpec == NodesInit /\ [][NodesNext]_nodesVars

-----------------------------------------------------------------------------
(* Properties.                                                             *)

\* A list that is served from the cache is not older than the cache duration, whatever
\* fetches overlap and in whatever order they are stored.
CacheIsRecent ==
    [][\A i \in DOMAIN fetch : FetchAt(i, "begin") /\ (FetchAt(i, "apply"))' =>
          clock - cache.at < CacheDuration]_nodesVars

\* After update_nodes the NodeList has nothing that the beacon gave before it was called,
\* also when no beacon answers: unless another fetch was under way at that time.
UpdateIsFresh ==
    \A o \in Owners : ~Busy(o) /\ ~asked[o].among /\ nodes[o] # Static => nodes[o].at >= asked[o].at
================================================================================
