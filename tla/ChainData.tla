------------------------------ MODULE ChainData --------------------------------
(***************************************************************************)
(* The data about the chain that an instance keeps (blockchaininstance/    *)
(* core.py: refresh_data and the methods that read from it).  There are    *)
(* several categories.  Each has the time of its last refresh; the node of *)
(* the last refresh is one for all.  Threads share the instance.           *)
(***************************************************************************)
EXTENDS Integers, Sequences

CONSTANTS
    Callers,      \* threads that use the instance
    Getters,      \* the methods they call
    Urls,         \* nodes
    RefreshTime,  \* data_refresh_time_seconds
    MaxTime,      \* bound on the time
    MaxReads      \* bound on the calls

ASSUME DataAssumption ==
    /\ Urls # {}
    /\ RefreshTime \in Nat \ {0} /\ MaxTime \in Nat /\ MaxReads \in Nat

-----------------------------------------------------------------------------
(* The methods that read a category.  Without data they return None, or    *)
(* what holds on the main chain.                                           *)

ReadProperties == {"get_dynamic_global_properties", "get_reserve_ratio", "_max_vote_denom"}
ReadFeed == {"get_feed_history", "get_current_median_history", "get_median_price"}
ReadFunds == {"get_reward_funds"}
ReadHardfork == {"get_hardfork_properties", "hardfork"}
ReadNetwork == {"get_network", "chain_params", "prefix"}
ReadConfig == {"get_config", "get_block_interval", "get_blockchain_version",
               "get_blockchain_name", "get_dust_threshold", "is_hive"}
ReadSchedule == {"get_chain_properties", "get_witness_schedule"}

Category(getter) ==
    CASE getter \in ReadProperties -> "dynamic_global_properties"
      [] getter \in ReadFeed -> "feed_history"
      [] getter \in ReadFunds -> "reward_funds"
      [] getter \in ReadHardfork -> "hardfork_properties"
      [] getter \in ReadNetwork \cup ReadConfig -> "config"
      [] getter \in ReadSchedule -> "witness_schedule"

\* Where there are no hardfork properties, hardfork takes the version from the configuration.
Fallback(getter) == getter = "hardfork"

Categories == {Category(g) : g \in Getters} \cup (IF "hardfork" \in Getters THEN {"config"} ELSE {})

\* The witness schedule changes with every round.
Period(c) == IF c = "witness_schedule" THEN 3 ELSE RefreshTime

\* A request that fails raises, or leaves no data.
Swallows(c) == c \in {"feed_history", "hardfork_properties"}

-----------------------------------------------------------------------------
Never == -1
NoData == [at |-> Never, from |-> "none"]

VARIABLES
    now,        \* the time
    url,        \* the node that the client uses
    mark,       \* last_refresh of each category
    last_node,  \* the node of the last refresh, of any category
    data,       \* what is kept: the time at which, and the node from which, it was got
    read,       \* a thread's call: where it is, its category, what it has got
    reads,      \* number of calls begun
    excuse      \* history: why the data of a category may be old, or from another node

dataVars == <<now, url, mark, last_node, data, read, reads, excuse>>

Idle == [at |-> "idle", by |-> "none", of |-> "none", since |-> 0, node |-> "none", got |-> NoData]

DataInit ==
    /\ now = 0 /\ url = (CHOOSE u \in Urls : TRUE) /\ last_node = "none"
    /\ mark = [c \in Categories |-> Never]
    /\ data = [c \in Categories |-> NoData]
    /\ read = [t \in Callers |-> Idle]
    /\ reads = 0
    /\ excuse = [c \in Categories |-> {}]

AtRead(t, pc) == read[t].at = pc

DataTick ==
    /\ now < MaxTime /\ now' = now + 1
    /\ UNCHANGED <<url, mark, last_node, data, read, reads, excuse>>

\* The client goes over to another node in the course of a request.
DataSwitch ==
    /\ \E t \in Callers : AtRead(t, "request")
    /\ url' \in Urls \ {url}
    /\ UNCHANGED <<now, mark, last_node, data, read, reads, excuse>>

-----------------------------------------------------------------------------
(* The steps of a call.                                                    *)

To(t, pc) == read' = [read EXCEPT ![t].at = pc]
Fetching(t, c) == {u \in Callers \ {t} : read[u].of = c /\ read[u].at \in {"mark", "request", "store"}}

\* Mutant: a category is as recent as the last refresh of any.
RecentOfAny(c) ==
    last_node = url /\ \E d \in Categories : mark[d] # Never /\ now - mark[d] < Period(c)

\* Mutant: a category is recent whatever the node.
RecentAnywhere(c) == mark[c] # Never /\ now - mark[c] < Period(c)

\* The category has been refreshed lately, and the last refresh of any was at this node.
Recent(c) == mark[c] # Never /\ last_node = url /\ now - mark[c] < Period(c)

Looked(t, getter, c, force) ==
    read' = [read EXCEPT ![t] =
                [Idle EXCEPT !.at = IF Recent(c) /\ ~force THEN "return" ELSE "mark",
                             !.by = getter, !.of = c, !.since = now, !.node = url]]

\* refresh_data is forced by its caller only.
Check(t) ==
    /\ AtRead(t, "idle") /\ reads < MaxReads
    /\ \E g \in Getters : Looked(t, g, Category(g), FALSE)
    /\ reads' = reads + 1
    /\ UNCHANGED <<now, url, mark, last_node, data, excuse>>

ForceRefresh(t) ==
    /\ AtRead(t, "idle") /\ reads < MaxReads
    /\ \E c \in Categories : Looked(t, "refresh_data", c, TRUE)
    /\ reads' = reads + 1
    /\ UNCHANGED <<now, url, mark, last_node, data, excuse>>

\* The refresh is marked before the request is sent.  After a change of the node the data of
\* other categories is from another node, which the marks do not tell any more.
Mark(t) ==
    LET c == read[t].of IN
    /\ AtRead(t, "mark")
    /\ mark' = [mark EXCEPT ![c] = now]
    /\ last_node' = url
    /\ read' = [read EXCEPT ![t].at = "request", ![t].since = now, ![t].node = url]
    /\ excuse' = [d \in Categories |->
                    IF d = c THEN IF Fetching(t, c) = {} THEN {} ELSE {"overlap"}
                    ELSE IF url # last_node THEN excuse[d] \cup {"node"}
                    ELSE excuse[d]]
    /\ UNCHANGED <<now, url, data, reads>>

Answer(t) ==
    /\ AtRead(t, "request")
    /\ read' = [read EXCEPT ![t].at = "store", ![t].got = [at |-> now, from |-> url]]
    /\ UNCHANGED <<now, url, mark, last_node, data, reads, excuse>>

RequestFails(t) ==
    LET c == read[t].of IN
    /\ AtRead(t, "request")
    /\ excuse' = [excuse EXCEPT ![c] = @ \cup {"failed"}]
    /\ IF Swallows(c) THEN To(t, "return") /\ data' = [data EXCEPT ![c] = NoData]
       ELSE read' = [read EXCEPT ![t] = Idle] /\ UNCHANGED data
    /\ UNCHANGED <<now, url, mark, last_node, reads>>

Store(t) ==
    LET c == read[t].of IN
    /\ AtRead(t, "store")
    /\ data' = [data EXCEPT ![c] = read[t].got]
    /\ read' = [read EXCEPT ![t].at = "return", ![t].got = NoData]
    /\ excuse' = IF read[t].got.from = last_node THEN excuse
                 ELSE [excuse EXCEPT ![c] = @ \cup {"node"}]
    /\ UNCHANGED <<now, url, mark, last_node, reads>>

Return(t) ==
    /\ AtRead(t, "return")
    /\ IF Fallback(read[t].by) /\ read[t].of # "config" /\ data[read[t].of] = NoData
       THEN Looked(t, read[t].by, "config", FALSE)
       ELSE read' = [read EXCEPT ![t] = Idle]
    /\ UNCHANGED <<now, url, mark, last_node, data, reads, excuse>>

DataNext ==
    \/ DataTick \/ DataSwitch
    \/ \E t \in Callers : \/ Check(t) \/ ForceRefresh(t) \/ Mark(t) \/ Answer(t)
                          \/ RequestFails(t) \/ Store(t) \/ Return(t)

DataSpec == DataInit /\ [][DataNext]_dataVars

-----------------------------------------------------------------------------
(* Properties.                                                             *)

Excused(t, c, reasons) == excuse[c] \cap reasons # {} \/ Fetching(t, c) # {}
Returns(t) == AtRead(t, "return") /\ ~(AtRead(t, "return"))'

\* Data is not older than the refresh time when a call looks at it, although it is marked as
\* refreshed before it is: unless the last refresh failed, or overlapped with another.
DataIsRecent ==
    [][\A t \in Callers : Returns(t) =>
          LET c == read[t].of
          IN data[c].at > read[t].since - Period(c) \/ Excused(t, c, {"failed", "overlap"})]_dataVars

\* Data, if there is any, comes from the node that is in use when a call looks at it, or has
\* been got since: unless another category was refreshed from the new node, or the node
\* changed during a refresh.
DataOfThisNode ==
    [][\A t \in Callers : Returns(t) =>
          LET c == read[t].of
          IN \/ data[c].from \in {"none", read[t].node} \/ data[c].at >= read[t].since
             \/ Excused(t, c, {"failed", "overlap", "node"})]_dataVars
================================================================================
