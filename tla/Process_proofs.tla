---------------------------- MODULE Process_proofs -----------------------------
(***************************************************************************)
(* Proofs about the state that the threads of a program share: the chain   *)
(* data, the shared instance and the list of nodes of the beacon, each for *)
(* itself, and in the end all of them for the process.                     *)
(***************************************************************************)
EXTENDS Process, TLAPS

-----------------------------------------------------------------------------
(***************************************************************************)
(* Proofs about ChainData, for any number of threads, methods and nodes.   *)
(* Between the mark and the data there is always a request; the invariant  *)
(* says what holds of both when no request for the category is under way,  *)
(* and of the answer on its way to the data.                               *)
(***************************************************************************)

Times == Nat \cup {Never}
Data == [at : Times, from : Urls \cup {"none"}]
ReadSteps == {"idle", "mark", "request", "store", "return"}
Reads == [at : ReadSteps, by : Getters \cup {"none", "refresh_data"}, of : Categories \cup {"none"},
          since : Nat, node : Urls \cup {"none"}, got : Data]

DataTypeOK ==
    /\ now \in Nat /\ reads \in Nat
    /\ url \in Urls /\ last_node \in Urls \cup {"none"}
    /\ mark \in [Categories -> Times]
    /\ data \in [Categories -> Data]
    /\ read \in [Callers -> Reads]
    /\ excuse \in [Categories -> SUBSET {"failed", "overlap", "node"}]

\* A thread in a call reads a category, and nothing has happened after now.
CallsAreCurrent ==
    /\ \A t \in Callers : /\ ~AtRead(t, "idle") => read[t].of \in Categories
                          /\ read[t].since <= now
    /\ \A c \in Categories : mark[c] <= now

Requests(c) == {t \in Callers : read[t].of = c /\ read[t].at \in {"request", "store"}}
Undisturbed(c) == excuse[c] \cap {"failed", "overlap"} = {}

\* A request that nothing disturbs carries data that is newer than the mark; and so is the
\* data, once there is no request.
DataFollowsMark ==
    /\ \A t \in Callers : AtRead(t, "store") /\ Undisturbed(read[t].of) =>
          read[t].got.at >= mark[read[t].of]
    /\ \A c \in Categories : mark[c] # Never /\ Undisturbed(c) /\ Requests(c) = {} =>
          data[c].at >= mark[c]

\* Data is from the node of the last refresh, unless that is excused.
DataFromLastNode ==
    \A c \in Categories : mark[c] # Never /\ excuse[c] = {} /\ Requests(c) = {} =>
        data[c].from \in {"none", last_node}

\* The mark of a call that waits for its answer is its own, or a newer one.
RequestIsMarked ==
    \A t \in Callers : read[t].at \in {"request", "store"} =>
        mark[read[t].of] # Never /\ mark[read[t].of] >= read[t].since

\* What a call returns was marked as recent when it looked, and at its node.
ReturnIsMarked ==
    \A t \in Callers : AtRead(t, "return") =>
        LET c == read[t].of IN
        /\ mark[c] # Never /\ mark[c] > read[t].since - Period(c)
        /\ excuse[c] = {} => read[t].node = last_node \/ mark[c] >= read[t].since

DataInv ==
    /\ DataTypeOK /\ CallsAreCurrent
    /\ DataFollowsMark /\ DataFromLastNode
    /\ RequestIsMarked /\ ReturnIsMarked

-----------------------------------------------------------------------------

LEMMA Constants ==
    /\ Idle \in Reads /\ Idle.at = "idle" /\ NoData \in Data /\ Never \in Times /\ Never \notin Nat
    /\ \A c : Period(c) \in Nat \ {0}
    /\ \A g \in Getters : Category(g) \in Categories
    /\ "hardfork" \in Getters => "config" \in Categories
<1>1. NoData \in Data /\ Never \in Times /\ Never \notin Nat
  BY DEF NoData, Data, Times, Never
<1>2. Idle \in Reads /\ Idle.at = "idle"
  BY <1>1 DEF Idle, Reads, ReadSteps
<1>3. \A c : Period(c) \in Nat \ {0}
  BY DataAssumption DEF Period
<1>4. /\ \A g \in Getters : Category(g) \in Categories
      /\ "hardfork" \in Getters => "config" \in Categories
  BY DEF Categories
<1> QED
  BY <1>1, <1>2, <1>3, <1>4

\* At first nothing is marked and nobody reads.
LEMMA DataInitInv ==
    ASSUME Urls # {}, DataInit
    PROVE  DataInv
<1> USE Constants DEF DataInit
<1>1. url \in Urls
  OBVIOUS
<1>2. DataTypeOK
  BY <1>1 DEF DataTypeOK
<1>3. \A t \in Callers : read[t].at = "idle" /\ read[t].since = 0
  BY DEF Idle
<1>4. CallsAreCurrent
  BY <1>3 DEF CallsAreCurrent, AtRead, Never
<1>5. DataFollowsMark /\ DataFromLastNode /\ RequestIsMarked /\ ReturnIsMarked
  BY <1>3 DEF DataFollowsMark, DataFromLastNode, RequestIsMarked, ReturnIsMarked, AtRead
<1> QED
  BY <1>2, <1>4, <1>5 DEF DataInv

\* The time and the node that the client uses do not matter to what is kept.
LEMMA WorldInv ==
    ASSUME DataInv, DataTick \/ DataSwitch
    PROVE  DataInv'
<1> USE DEF DataInv, DataTick, DataSwitch
<1>1. DataTypeOK'
  BY DEF DataTypeOK
<1>2. CallsAreCurrent'
  <2>1. /\ \A t \in Callers : read[t].since \in Nat
        /\ \A c \in Categories : mark[c] \in Int
    BY DEF DataTypeOK, Reads, Times, Never
  <2>2. now \in Nat /\ now' \in Nat /\ now <= now'
    BY DEF DataTypeOK
  <2> QED
    BY <2>1, <2>2 DEF CallsAreCurrent, AtRead
<1>3. DataFollowsMark' /\ DataFromLastNode'
  BY DEF DataFollowsMark, DataFromLastNode, Undisturbed, Requests, AtRead
<1>4. RequestIsMarked' /\ ReturnIsMarked'
  BY DEF RequestIsMarked, ReturnIsMarked, AtRead, Period
<1> QED
  BY <1>1, <1>2, <1>3, <1>4

\* A call that looks at a category begins to read it; a recent one is returned.
LEMMA LookedInv ==
    ASSUME DataInv, NEW t \in Callers, read[t].at \in {"idle", "return"},
           NEW g \in Getters \cup {"refresh_data"}, NEW c \in Categories, NEW force \in BOOLEAN,
           Looked(t, g, c, force), reads' \in Nat,
           UNCHANGED <<now, url, mark, last_node, data, excuse>>
    PROVE  DataInv'
<1> USE DEF DataInv
<1>1. PICK pc \in {"return", "mark"} :
        /\ pc = "return" => Recent(c)
        /\ read' = [read EXCEPT ![t] = [Idle EXCEPT !.at = pc, !.by = g, !.of = c,
                                                   !.since = now, !.node = url]]
  BY DEF Looked
<1> DEFINE new == [Idle EXCEPT !.at = pc, !.by = g, !.of = c, !.since = now, !.node = url]
<1>2. /\ new \in Reads
      /\ new.at = pc /\ new.by = g /\ new.of = c /\ new.since = now /\ new.node = url
  <2>1. now \in Nat /\ url \in Urls
    BY DEF DataTypeOK
  <2>2. NoData \in Data
    BY Constants
  <2> QED
    BY <2>1, <2>2 DEF Reads, ReadSteps, Idle
<1>3. read' = [read EXCEPT ![t] = new]
  BY <1>1
<1> HIDE DEF new
<1>4. DataTypeOK'
  BY <1>2, <1>3 DEF DataTypeOK
<1>5. /\ read'[t] = new /\ \A u \in Callers \ {t} : read'[u] = read[u]
      /\ pc \in {"return", "mark"}
  BY <1>3 DEF DataTypeOK
<1>6. CallsAreCurrent'
  BY <1>2, <1>5 DEF CallsAreCurrent, AtRead, DataTypeOK
<1>7. \A d \in Categories : Requests(d)' = Requests(d)
  BY <1>2, <1>5 DEF Requests
<1>8. DataFollowsMark'
  BY <1>2, <1>5, <1>7 DEF DataFollowsMark, Undisturbed, AtRead
<1>9. DataFromLastNode'
  BY <1>7 DEF DataFromLastNode
<1>10. RequestIsMarked'
  BY <1>2, <1>5 DEF RequestIsMarked
<1>11. ReturnIsMarked'
  <2>1. pc = "return" => /\ mark[c] # Never /\ mark[c] > now - Period(c)
                         /\ url = last_node
    <3>1. now \in Nat /\ mark[c] \in Times /\ Period(c) \in Nat
      BY Constants DEF DataTypeOK
    <3> QED
      BY <1>1, <3>1 DEF Recent, Times, Never
  <2>2. \A d : Period(d)' = Period(d)
    BY DEF Period
  <2> QED
    BY <1>2, <1>5, <2>1, <2>2 DEF ReturnIsMarked, AtRead
<1> QED
  BY <1>4, <1>6, <1>8, <1>9, <1>10, <1>11

\* A mark takes the excuses away, unless another request may still disturb.
LEMMA MarkInv ==
    ASSUME DataInv, NEW t \in Callers, Mark(t)
    PROVE  DataInv'
<1> USE DEF DataInv
<1>0. PICK c \in Categories : read[t].of = c
  BY DEF Mark, AtRead, CallsAreCurrent
<1> DEFINE new == [read[t] EXCEPT !.at = "request", !.since = now, !.node = url]
<1>1. read[t] \in Reads /\ read[t].at = "mark" /\ now \in Nat /\ url \in Urls
  BY DEF Mark, AtRead, DataTypeOK
<1>2. /\ new \in Reads
      /\ new.at = "request" /\ new.of = c /\ new.since = now /\ new.node = url
  BY <1>0, <1>1 DEF Reads, ReadSteps
<1>3. /\ read' = [read EXCEPT ![t] = new] /\ mark' = [mark EXCEPT ![c] = now]
      /\ last_node' = url /\ UNCHANGED <<now, url, data, reads>>
  BY <1>0 DEF Mark
<1>4. /\ read'[t] = new /\ \A u \in Callers \ {t} : read'[u] = read[u]
      /\ mark'[c] = now /\ \A d \in Categories \ {c} : mark'[d] = mark[d]
  BY <1>3 DEF DataTypeOK
<1>5. /\ excuse' \in [Categories -> SUBSET {"failed", "overlap", "node"}]
      /\ excuse'[c] = IF Fetching(t, c) = {} THEN {} ELSE {"overlap"}
      /\ \A d \in Categories \ {c} :
            excuse'[d] = IF url # last_node THEN excuse[d] \cup {"node"} ELSE excuse[d]
  BY <1>0 DEF Mark, DataTypeOK
<1> HIDE DEF new
<1>6. DataTypeOK'
  BY <1>1, <1>2, <1>3, <1>5, Constants DEF DataTypeOK, Times
<1>7. CallsAreCurrent'
  BY <1>1, <1>2, <1>3, <1>4 DEF CallsAreCurrent, AtRead
<1>8. t \in Requests(c)' /\ \A d \in Categories \ {c} : Requests(d)' = Requests(d)
  BY <1>0, <1>1, <1>2, <1>4 DEF Requests
<1>9. DataFollowsMark'
  <2>1. ASSUME NEW u \in Callers, AtRead(u, "store")', Undisturbed(read[u].of)'
        PROVE  read'[u].got.at >= mark'[read'[u].of]
    <3>1. u # t /\ read'[u] = read[u] /\ read[u].at = "store"
      BY <1>2, <1>4, <2>1 DEF AtRead
    <3>2. read[u].of # c
      <4>1. SUFFICES ASSUME read[u].of = c PROVE FALSE
        OBVIOUS
      <4>2. u \in Fetching(t, c)
        BY <3>1, <4>1 DEF Fetching
      <4> QED
        BY <1>5, <2>1, <3>1, <4>1, <4>2 DEF Undisturbed
    <3>3. read[u].of \in Categories
      BY <3>1 DEF CallsAreCurrent, AtRead
    <3>4. Undisturbed(read[u].of)
      BY <1>5, <2>1, <3>1, <3>2, <3>3 DEF Undisturbed
    <3> QED
      BY <1>4, <3>1, <3>2, <3>3, <3>4 DEF DataFollowsMark, AtRead
  <2>2. ASSUME NEW d \in Categories, mark'[d] # Never, Undisturbed(d)', Requests(d)' = {}
        PROVE  data'[d].at >= mark'[d]
    <3>1. d # c
      BY <1>8, <2>2
    <3>2. Undisturbed(d)
      BY <1>5, <2>2, <3>1 DEF Undisturbed
    <3> QED
      BY <1>3, <1>4, <1>8, <2>2, <3>1, <3>2 DEF DataFollowsMark
  <2> QED
    BY <2>1, <2>2 DEF DataFollowsMark
<1>10. DataFromLastNode'
  <2>1. SUFFICES ASSUME NEW d \in Categories, mark'[d] # Never, excuse'[d] = {}, Requests(d)' = {}
                 PROVE  data'[d].from \in {"none", last_node'}
    BY DEF DataFromLastNode
  <2>2. d # c
    BY <1>8, <2>1
  <2>3. excuse[d] = {} /\ url = last_node
    BY <1>5, <2>1, <2>2
  <2> QED
    BY <1>3, <1>4, <1>8, <2>1, <2>2, <2>3 DEF DataFromLastNode
<1>11. /\ \A d \in Categories : mark[d] # Never => mark'[d] # Never
       /\ \A d \in Categories : mark[d] # Never => mark'[d] >= mark[d]
       /\ \A d \in Categories : mark[d] \in Int /\ mark'[d] \in Int
  BY <1>1, <1>4 DEF CallsAreCurrent, DataTypeOK, Times, Never
<1>12. RequestIsMarked'
  <2>1. SUFFICES ASSUME NEW u \in Callers, read'[u].at \in {"request", "store"}
                 PROVE  mark'[read'[u].of] # Never /\ mark'[read'[u].of] >= read'[u].since
    BY DEF RequestIsMarked
  <2>2. CASE u = t
    BY <1>1, <1>2, <1>4, <2>2 DEF Never
  <2>3. CASE u # t
    <3>1. read'[u] = read[u] /\ read[u].of \in Categories /\ read[u].since \in Nat
      BY <1>4, <2>1, <2>3 DEF CallsAreCurrent, AtRead, DataTypeOK, Reads
    <3>2. mark[read[u].of] # Never /\ mark[read[u].of] >= read[u].since
      BY <2>1, <3>1 DEF RequestIsMarked
    <3> QED
      BY <1>11, <3>1, <3>2
  <2> QED
    BY <2>2, <2>3
<1>13. ReturnIsMarked'
  <2>1. SUFFICES ASSUME NEW u \in Callers, read'[u].at = "return"
                 PROVE  LET d == read'[u].of IN
                        /\ mark'[d] # Never /\ mark'[d] > read'[u].since - Period(d)
                        /\ excuse'[d] = {} => read'[u].node = last_node' \/ mark'[d] >= read'[u].since
    BY DEF ReturnIsMarked, AtRead, Period
  <2>2. u # t /\ read'[u] = read[u]
    BY <1>2, <1>4, <2>1
  <2> DEFINE d == read[u].of
  <2>3. d \in Categories /\ read[u].since \in Nat /\ read[u].since <= now
    BY <2>1, <2>2 DEF CallsAreCurrent, AtRead, DataTypeOK, Reads
  <2>4. /\ mark[d] # Never /\ mark[d] > read[u].since - Period(d)
        /\ excuse[d] = {} => read[u].node = last_node \/ mark[d] >= read[u].since
    BY <2>1, <2>2 DEF ReturnIsMarked, AtRead
  <2>5. Period(d) \in Nat
    BY Constants
  <2>6. mark'[d] # Never /\ mark'[d] > read[u].since - Period(d)
    BY <1>11, <2>3, <2>4, <2>5
  <2>7. excuse'[d] = {} => read[u].node = last_node' \/ mark'[d] >= read[u].since
    <3>1. CASE d = c
      BY <1>1, <1>4, <2>3, <3>1
    <3>2. CASE d # c
      BY <1>3, <1>4, <1>5, <2>3, <2>4, <3>2
    <3> QED
      BY <3>1, <3>2
  <2> QED
    BY <2>2, <2>6, <2>7
<1> QED
  BY <1>6, <1>7, <1>9, <1>10, <1>12, <1>13

\* A call that is not, and was not, waiting for an answer goes, and leaves everything as it is.
LEMMA IdleInv ==
    ASSUME DataInv, NEW t \in Callers, AtRead(t, "return"), read' = [read EXCEPT ![t] = Idle],
           UNCHANGED <<now, url, mark, last_node, data, reads, excuse>>
    PROVE  DataInv'
<1> USE DEF DataInv
<1>1. /\ read'[t] = Idle /\ \A u \in Callers \ {t} : read'[u] = read[u]
      /\ Idle \in Reads /\ Idle.at = "idle" /\ Idle.since = 0
  BY Constants DEF DataTypeOK, Idle
<1>2. DataTypeOK'
  BY <1>1 DEF DataTypeOK
<1>3. CallsAreCurrent'
  BY <1>1 DEF CallsAreCurrent, AtRead, DataTypeOK
<1>4. \A d \in Categories : Requests(d)' = Requests(d)
  BY <1>1 DEF Requests, AtRead
<1>5. DataFollowsMark' /\ DataFromLastNode'
  BY <1>1, <1>4 DEF DataFollowsMark, DataFromLastNode, Undisturbed, AtRead
<1>6. RequestIsMarked' /\ ReturnIsMarked'
  BY <1>1 DEF RequestIsMarked, ReturnIsMarked, AtRead, Period
<1> QED
  BY <1>2, <1>3, <1>5, <1>6

LEMMA CallInv ==
    ASSUME DataInv, NEW t \in Callers, Check(t) \/ ForceRefresh(t) \/ Return(t)
    PROVE  DataInv'
<1>1. CASE Check(t)
  <2>1. PICK g \in Getters : Looked(t, g, Category(g), FALSE)
    BY <1>1 DEF Check
  <2>2. Category(g) \in Categories
    BY Constants
  <2>3. /\ read[t].at = "idle" /\ reads' \in Nat
        /\ UNCHANGED <<now, url, mark, last_node, data, excuse>>
    BY <1>1 DEF Check, AtRead, DataInv, DataTypeOK
  <2> QED
    BY <2>1, <2>2, <2>3, LookedInv
<1>2. CASE ForceRefresh(t)
  <2>1. PICK c \in Categories : Looked(t, "refresh_data", c, TRUE)
    BY <1>2 DEF ForceRefresh
  <2>2. /\ read[t].at = "idle" /\ reads' \in Nat
        /\ UNCHANGED <<now, url, mark, last_node, data, excuse>>
    BY <1>2 DEF ForceRefresh, AtRead, DataInv, DataTypeOK
  <2> QED
    BY <2>1, <2>2, LookedInv
<1>3. CASE Return(t)
  <2>1. AtRead(t, "return") /\ UNCHANGED <<now, url, mark, last_node, data, reads, excuse>>
    BY <1>3 DEF Return
  <2>2. CASE read' = [read EXCEPT ![t] = Idle]
    BY <2>1, <2>2, IdleInv
  <2>3. CASE Fallback(read[t].by) /\ Looked(t, read[t].by, "config", FALSE)
    <3>1. Looked(t, "hardfork", "config", FALSE)
      BY <2>3 DEF Fallback
    <3>2. "hardfork" \in Getters \cup {"none", "refresh_data"}
      BY <2>3 DEF Fallback, DataInv, DataTypeOK, Reads
    <3>3. "hardfork" \in Getters /\ "config" \in Categories
      BY <3>2, Constants
    <3>4. read[t].at = "return" /\ reads' \in Nat
      BY <2>1 DEF AtRead, DataInv, DataTypeOK
    <3> QED
      BY <2>1, <3>1, <3>3, <3>4, LookedInv
  <2> QED
    BY <1>3, <2>2, <2>3 DEF Return
<1> QED
  BY <1>1, <1>2, <1>3

\* An answer is not older than the mark: the mark of its category is not later than now.
LEMMA AnswerInv ==
    ASSUME DataInv, NEW t \in Callers, Answer(t)
    PROVE  DataInv'
<1> USE DEF DataInv
<1> DEFINE answer == [at |-> now, from |-> url]
           new == [read[t] EXCEPT !.at = "store", !.got = answer]
<1>1. read[t] \in Reads /\ read[t].at = "request" /\ answer \in Data /\ now \in Nat
  BY DEF Answer, AtRead, DataTypeOK, Data, Times
<1>2. /\ new \in Reads /\ new.at = "store" /\ new.of = read[t].of
      /\ new.since = read[t].since /\ new.got.at = now
  BY <1>1 DEF Reads, ReadSteps
<1>3. /\ read' = [read EXCEPT ![t] = new]
      /\ UNCHANGED <<now, url, mark, last_node, data, reads, excuse>>
  BY DEF Answer
<1> HIDE DEF new, answer
<1>4. read'[t] = new /\ \A u \in Callers \ {t} : read'[u] = read[u]
  BY <1>3 DEF DataTypeOK
<1>5. DataTypeOK'
  BY <1>2, <1>3 DEF DataTypeOK
<1>6. CallsAreCurrent'
  BY <1>1, <1>2, <1>3, <1>4 DEF CallsAreCurrent, AtRead
<1>7. \A d \in Categories : Requests(d)' = Requests(d)
  BY <1>1, <1>2, <1>4 DEF Requests
<1>8. DataFollowsMark'
  <2>1. ASSUME NEW u \in Callers, read'[u].at = "store", Undisturbed(read'[u].of)
        PROVE  read'[u].got.at >= mark[read'[u].of]
    <3>1. CASE u = t
      BY <1>1, <1>2, <1>4, <3>1 DEF CallsAreCurrent, AtRead
    <3>2. CASE u # t
      BY <1>4, <2>1, <3>2 DEF DataFollowsMark, AtRead
    <3> QED
      BY <3>1, <3>2
  <2> QED
    BY <1>3, <1>7, <2>1 DEF DataFollowsMark, Undisturbed, AtRead
<1>9. DataFromLastNode'
  BY <1>3, <1>7 DEF DataFromLastNode
<1>10. RequestIsMarked' /\ ReturnIsMarked'
  BY <1>1, <1>2, <1>3, <1>4 DEF RequestIsMarked, ReturnIsMarked, AtRead, Period
<1> QED
  BY <1>5, <1>6, <1>8, <1>9, <1>10

\* After a failure the data is excused: it is none, or older than its mark.
LEMMA FailsInv ==
    ASSUME DataInv, NEW t \in Callers, RequestFails(t)
    PROVE  DataInv'
<1> USE DEF DataInv
<1>0. PICK c \in Categories : read[t].of = c
  BY DEF RequestFails, AtRead, CallsAreCurrent
<1>1. /\ read[t] \in Reads /\ read[t].at = "request"
      /\ Idle \in Reads /\ Idle.at = "idle" /\ Idle.since = 0 /\ NoData \in Data
  BY Constants DEF RequestFails, AtRead, DataTypeOK, Idle
<1>2. PICK new \in Reads :
        /\ read' = [read EXCEPT ![t] = new]
        /\ new.at \in {"idle", "return"} /\ new.since <= now
        /\ new.at = "return" => new.of = c /\ new.since = read[t].since
  <2>1. CASE Swallows(c)
    <3> DEFINE new == [read[t] EXCEPT !.at = "return"]
    <3>1. /\ new \in Reads /\ new.at = "return" /\ new.of = c /\ new.since = read[t].since
      BY <1>0, <1>1 DEF Reads, ReadSteps
    <3>2. read' = [read EXCEPT ![t] = new]
      BY <1>0, <2>1 DEF RequestFails, To
    <3>3. read[t].since <= now
      BY DEF CallsAreCurrent
    <3> HIDE DEF new
    <3> QED
      BY <3>1, <3>2, <3>3
  <2>2. CASE ~Swallows(c)
    BY <1>0, <1>1, <2>2 DEF RequestFails, DataTypeOK
  <2> QED
    BY <2>1, <2>2
<1>3. /\ UNCHANGED <<now, url, mark, last_node, reads>>
      /\ excuse' = [excuse EXCEPT ![c] = @ \cup {"failed"}]
      /\ data' = data \/ data' = [data EXCEPT ![c] = NoData]
  BY <1>0 DEF RequestFails
<1>4. /\ read'[t] = new /\ \A u \in Callers \ {t} : read'[u] = read[u]
      /\ "failed" \in excuse'[c]
      /\ \A d \in Categories \ {c} : excuse'[d] = excuse[d] /\ data'[d] = data[d]
  BY <1>2, <1>3 DEF DataTypeOK
<1>5. DataTypeOK'
  <2>1. excuse' \in [Categories -> SUBSET {"failed", "overlap", "node"}]
    BY <1>3 DEF DataTypeOK
  <2> QED
    BY <1>1, <1>2, <1>3, <2>1 DEF DataTypeOK
<1>6. CallsAreCurrent'
  BY <1>2, <1>3, <1>4 DEF CallsAreCurrent, AtRead
<1>7. \A d \in Categories \ {c} : Requests(d)' = Requests(d)
  BY <1>0, <1>1, <1>2, <1>4 DEF Requests
<1>8. DataFollowsMark'
  <2>1. ASSUME NEW u \in Callers, read'[u].at = "store", Undisturbed(read[u].of)'
        PROVE  read'[u].got.at >= mark[read'[u].of]
    <3>1. u # t /\ read'[u] = read[u]
      BY <1>2, <1>4, <2>1
    <3>2. read[u].of \in Categories /\ read[u].of # c
      BY <1>4, <2>1, <3>1 DEF CallsAreCurrent, AtRead, Undisturbed
    <3>3. Undisturbed(read[u].of)
      BY <1>4, <2>1, <3>1, <3>2 DEF Undisturbed
    <3> QED
      BY <2>1, <3>1, <3>3 DEF DataFollowsMark, AtRead
  <2>2. ASSUME NEW d \in Categories, mark[d] # Never, Undisturbed(d)', Requests(d)' = {}
        PROVE  data'[d].at >= mark[d]
    <3>1. d # c /\ Undisturbed(d)
      BY <1>4, <2>2 DEF Undisturbed
    <3> QED
      BY <1>4, <1>7, <2>2, <3>1 DEF DataFollowsMark
  <2> QED
    BY <1>3, <2>1, <2>2 DEF DataFollowsMark, AtRead
<1>9. DataFromLastNode'
  BY <1>3, <1>4, <1>7 DEF DataFromLastNode
<1>10. RequestIsMarked'
  BY <1>2, <1>3, <1>4 DEF RequestIsMarked
<1>11. ReturnIsMarked'
  <2>1. SUFFICES ASSUME NEW u \in Callers, read'[u].at = "return"
                 PROVE  LET d == read'[u].of IN
                        /\ mark[d] # Never /\ mark[d] > read'[u].since - Period(d)
                        /\ excuse'[d] = {} => read'[u].node = last_node \/ mark[d] >= read'[u].since
    BY <1>3 DEF ReturnIsMarked, AtRead, Period
  <2>2. CASE u = t
    <3>1. /\ read'[u].of = c /\ read'[u].since = read[t].since
          /\ read[t].since \in Nat /\ mark[c] \in Int /\ Period(c) \in Nat \ {0}
      BY <1>1, <1>2, <1>4, <2>1, <2>2, Constants DEF DataTypeOK, Reads, Times, Never
    <3>2. mark[c] # Never /\ mark[c] >= read[t].since
      BY <1>0, <1>1 DEF RequestIsMarked
    <3> QED
      BY <1>4, <3>1, <3>2
  <2>3. CASE u # t
    <3>1. read'[u] = read[u] /\ read[u].of \in Categories
      BY <1>4, <2>1, <2>3 DEF CallsAreCurrent, AtRead
    <3>2. excuse'[read[u].of] = {} => excuse[read[u].of] = {}
      BY <1>4, <3>1
    <3> QED
      BY <2>1, <3>1, <3>2 DEF ReturnIsMarked, AtRead
  <2> QED
    BY <2>2, <2>3
<1> QED
  BY <1>5, <1>6, <1>8, <1>9, <1>10, <1>11

\* Undisturbed, what is stored is newer than the mark; from a node that is not the last, it
\* is excused.
LEMMA StoreInv ==
    ASSUME DataInv, NEW t \in Callers, Store(t)
    PROVE  DataInv'
<1> USE DEF DataInv
<1>0. PICK c \in Categories : read[t].of = c
  BY DEF Store, AtRead, CallsAreCurrent
<1> DEFINE new == [read[t] EXCEPT !.at = "return", !.got = NoData]
<1>1. PICK got \in Data : read[t].got = got
  BY DEF DataTypeOK, Reads
<1>2. read[t] \in Reads /\ read[t].at = "store" /\ NoData \in Data
  BY Constants DEF Store, AtRead, DataTypeOK
<1>3. /\ new \in Reads /\ new.at = "return" /\ new.of = c
      /\ new.since = read[t].since
  BY <1>0, <1>2 DEF Reads, ReadSteps
<1>4. /\ read' = [read EXCEPT ![t] = new] /\ data' = [data EXCEPT ![c] = got]
      /\ excuse' = IF got.from = last_node THEN excuse ELSE [excuse EXCEPT ![c] = @ \cup {"node"}]
      /\ UNCHANGED <<now, url, mark, last_node, reads>>
  BY <1>0, <1>1 DEF Store
<1> HIDE DEF new
<1>5. /\ read'[t] = new /\ \A u \in Callers \ {t} : read'[u] = read[u]
      /\ data'[c] = got /\ \A d \in Categories \ {c} : data'[d] = data[d]
      /\ \A d \in Categories : Undisturbed(d)' => Undisturbed(d)
      /\ \A d \in Categories : excuse'[d] = {} => excuse[d] = {}
      /\ excuse'[c] = {} => got.from = last_node
  BY <1>4 DEF DataTypeOK, Undisturbed
<1>6. DataTypeOK'
  <2>1. excuse' \in [Categories -> SUBSET {"failed", "overlap", "node"}]
    BY <1>4 DEF DataTypeOK
  <2> QED
    BY <1>3, <1>4, <2>1 DEF DataTypeOK
<1>7. CallsAreCurrent'
  BY <1>2, <1>3, <1>4, <1>5 DEF CallsAreCurrent, AtRead
<1>8. \A d \in Categories \ {c} : Requests(d)' = Requests(d)
  BY <1>0, <1>2, <1>3, <1>5 DEF Requests
<1>9. DataFollowsMark'
  <2>1. ASSUME NEW u \in Callers, read'[u].at = "store", Undisturbed(read[u].of)'
        PROVE  read'[u].got.at >= mark[read'[u].of]
    <3>1. u # t /\ read'[u] = read[u]
      BY <1>3, <1>5, <2>1
    <3>2. read[u].of \in Categories
      BY <2>1, <3>1 DEF CallsAreCurrent, AtRead
    <3>3. Undisturbed(read[u].of)
      BY <1>5, <2>1, <3>1, <3>2
    <3> QED
      BY <2>1, <3>1, <3>3 DEF DataFollowsMark, AtRead
  <2>2. ASSUME NEW d \in Categories, mark[d] # Never, Undisturbed(d)', Requests(d)' = {}
        PROVE  data'[d].at >= mark[d]
    <3>1. CASE d = c
      BY <1>0, <1>1, <1>2, <1>5, <2>2, <3>1 DEF DataFollowsMark, AtRead
    <3>2. CASE d # c
      BY <1>5, <1>8, <2>2, <3>2 DEF DataFollowsMark
    <3> QED
      BY <3>1, <3>2
  <2> QED
    BY <1>4, <2>1, <2>2 DEF DataFollowsMark, AtRead
<1>10. DataFromLastNode'
  BY <1>4, <1>5, <1>8 DEF DataFromLastNode
<1>11. RequestIsMarked'
  BY <1>3, <1>4, <1>5 DEF RequestIsMarked
<1>12. ReturnIsMarked'
  <2>1. SUFFICES ASSUME NEW u \in Callers, read'[u].at = "return"
                 PROVE  LET d == read'[u].of IN
                        /\ mark[d] # Never /\ mark[d] > read'[u].since - Period(d)
                        /\ excuse'[d] = {} => read'[u].node = last_node \/ mark[d] >= read'[u].since
    BY <1>4 DEF ReturnIsMarked, AtRead, Period
  <2>2. CASE u = t
    <3>1. /\ read'[u].of = c /\ read'[u].since = read[t].since
          /\ read[t].since \in Nat /\ mark[c] \in Int /\ Period(c) \in Nat \ {0}
      BY <1>2, <1>3, <1>5, <2>2, Constants DEF DataTypeOK, Reads, Times, Never
    <3>2. mark[c] # Never /\ mark[c] >= read[t].since
      BY <1>0, <1>2 DEF RequestIsMarked
    <3> QED
      BY <3>1, <3>2
  <2>3. CASE u # t
    <3>1. read'[u] = read[u] /\ read[u].of \in Categories
      BY <1>5, <2>1, <2>3 DEF CallsAreCurrent, AtRead
    <3>2. excuse'[read[u].of] = {} => excuse[read[u].of] = {}
      BY <1>5, <3>1
    <3> QED
      BY <2>1, <3>1, <3>2 DEF ReturnIsMarked, AtRead
  <2> QED
    BY <2>2, <2>3
<1> QED
  BY <1>6, <1>7, <1>9, <1>10, <1>11, <1>12

LEMMA DataNextInv ==
    ASSUME DataInv, [DataNext]_dataVars
    PROVE  DataInv'
<1>1. CASE DataTick \/ DataSwitch
  BY <1>1, WorldInv
<1>2. ASSUME NEW t \in Callers, \/ Check(t) \/ ForceRefresh(t) \/ Mark(t) \/ Answer(t)
                                \/ RequestFails(t) \/ Store(t) \/ Return(t)
      PROVE  DataInv'
  BY <1>2, CallInv, MarkInv, AnswerInv, FailsInv, StoreInv
<1>3. CASE UNCHANGED dataVars
  BY <1>3 DEF dataVars, DataInv, DataTypeOK, CallsAreCurrent, DataFollowsMark, DataFromLastNode,
              RequestIsMarked, ReturnIsMarked, Requests, Undisturbed, AtRead, Period
<1> QED
  BY <1>1, <1>2, <1>3 DEF DataNext

-----------------------------------------------------------------------------

\* What is known when a call returns, and no other is fetching the category: if nothing has
\* disturbed the last refresh, the data is newer than its mark.
LEMMA ReturnedData ==
    ASSUME DataInv, NEW t \in Callers, AtRead(t, "return"), Fetching(t, read[t].of) = {}
    PROVE  LET c == read[t].of IN
           /\ c \in Categories /\ mark[c] # Never /\ Requests(c) = {}
           /\ Undisturbed(c) => data[c].at >= mark[c]
           /\ mark[c] \in Int /\ data[c].at \in Int /\ read[t].since \in Int /\ Period(c) \in Int
<1> USE DEF DataInv
<1>1. PICK c \in Categories : read[t].of = c
  BY DEF CallsAreCurrent, AtRead
<1>2. mark[c] # Never
  BY <1>1 DEF ReturnIsMarked
<1>3. Requests(c) = {}
  BY <1>1 DEF Requests, Fetching, AtRead
<1>4. Undisturbed(c) => data[c].at >= mark[c]
  BY <1>2, <1>3 DEF DataFollowsMark
<1>5. mark[c] \in Int /\ data[c].at \in Int /\ read[t].since \in Int /\ Period(c) \in Int
  BY Constants DEF DataTypeOK, Data, Reads, Times, Never
<1> QED
  BY <1>1, <1>2, <1>3, <1>4, <1>5

LEMMA RecentStep ==
    ASSUME DataInv, NEW t \in Callers, AtRead(t, "return")
    PROVE  LET c == read[t].of
           IN data[c].at > read[t].since - Period(c) \/ Excused(t, c, {"failed", "overlap"})
<1> DEFINE c == read[t].of
<1>1. SUFFICES ASSUME Fetching(t, c) = {}, Undisturbed(c)
               PROVE  data[c].at > read[t].since - Period(c)
  BY DEF Excused, Undisturbed
<1>2. mark[c] > read[t].since - Period(c)
  BY DEF DataInv, ReturnIsMarked
<1> QED
  BY <1>1, <1>2, ReturnedData

LEMMA NodeStep ==
    ASSUME DataInv, NEW t \in Callers, AtRead(t, "return")
    PROVE  LET c == read[t].of
           IN \/ data[c].from \in {"none", read[t].node} \/ data[c].at >= read[t].since
              \/ Excused(t, c, {"failed", "overlap", "node"})
<1> DEFINE c == read[t].of
<1>1. c \in Categories
  BY DEF DataInv, CallsAreCurrent, AtRead
<1>2. SUFFICES ASSUME Fetching(t, c) = {}, excuse[c] = {}
               PROVE  data[c].from \in {"none", read[t].node} \/ data[c].at >= read[t].since
  <2>1. excuse[c] \in SUBSET {"failed", "overlap", "node"}
    BY <1>1 DEF DataInv, DataTypeOK
  <2> QED
    BY <2>1 DEF Excused
<1>3. CASE read[t].node = last_node
  BY <1>2, <1>3, ReturnedData DEF DataInv, DataFromLastNode
<1>4. CASE mark[c] >= read[t].since
  BY <1>2, <1>4, ReturnedData DEF Undisturbed
<1> QED
  BY <1>2, <1>3, <1>4 DEF DataInv, ReturnIsMarked

THEOREM DataInvariant == DataSpec => []DataInv
<1>1. DataInit => DataInv
  BY DataInitInv, DataAssumption
<1>2. DataInv /\ [DataNext]_dataVars => DataInv'
  BY DataNextInv
<1> QED
  BY <1>1, <1>2, PTL DEF DataSpec

\* However threads, failures and changes of the node interleave, data that a call returns was
\* got within the refresh time before it looked, unless the last refresh failed or overlapped.
THEOREM ReturnedDataIsRecent == DataSpec => DataIsRecent
<1>1. DataInv => \A t \in Callers : AtRead(t, "return") =>
          LET c == read[t].of
          IN data[c].at > read[t].since - Period(c) \/ Excused(t, c, {"failed", "overlap"})
  BY RecentStep
<1>2. DataInv /\ [DataNext]_dataVars =>
          [\A t \in Callers : Returns(t) =>
              LET c == read[t].of
              IN data[c].at > read[t].since - Period(c)
                 \/ Excused(t, c, {"failed", "overlap"})]_dataVars
  BY <1>1 DEF Returns
<1> QED
  BY <1>2, DataInvariant, PTL DEF DataSpec, DataIsRecent

\* And it comes from the node in use when the call looked, or was got since, unless the last
\* refresh was disturbed or the node changed under it.
THEOREM ReturnedDataIsOfThisNode == DataSpec => DataOfThisNode
<1>1. DataInv => \A t \in Callers : AtRead(t, "return") =>
          LET c == read[t].of
          IN \/ data[c].from \in {"none", read[t].node} \/ data[c].at >= read[t].since
             \/ Excused(t, c, {"failed", "overlap", "node"})
  BY NodeStep
<1>2. DataInv /\ [DataNext]_dataVars =>
          [\A t \in Callers : Returns(t) =>
              LET c == read[t].of
              IN \/ data[c].from \in {"none", read[t].node} \/ data[c].at >= read[t].since
                 \/ Excused(t, c, {"failed", "overlap", "node"})]_dataVars
  BY <1>1 DEF Returns
<1> QED
  BY <1>2, DataInvariant, PTL DEF DataSpec, DataOfThisNode

-----------------------------------------------------------------------------
(***************************************************************************)
(* Proofs about SharedInstance, for any number of threads, nodes and       *)
(* configurations.  The invariant follows a client from the configuration  *)
(* that it was made for to the instance that it ends up in, and says of    *)
(* every build under way that nothing was shared when it began.            *)
(***************************************************************************)

Clients == {c \in [url : AllNodes, nodes : SUBSET AllNodes] : c.url \in c.nodes} \cup {NoClient}
Instances == [set : BOOLEAN, given : BOOLEAN, client : Clients]
UseSteps == {"idle", "build", "assign", "return"}
UseRecords == [at : UseSteps, config : SUBSET AllNodes, built : Instances, raced : BOOLEAN]

InstanceTypeOK ==
    /\ config \subseteq AllNodes
    /\ instance \in Instances
    /\ transport \in Clients
    /\ use \in [Users -> UseRecords]
    /\ uses \in Nat /\ outdated \in BOOLEAN

\* What a thread has built fits the configuration that it read.
BuiltFits ==
    \A t \in Users : AtUse(t, "assign") =>
        (use[t].config # {} => use[t].built.client.nodes \cap use[t].config # {})

\* A build that is under way while an instance is shared has been overtaken.
OvertakenKnowsIt == \A t \in Builds : instance.set => use[t].raced

InstanceInv == InstanceTypeOK /\ BuiltFits /\ OvertakenKnowsIt /\ SharedFitsConfig

-----------------------------------------------------------------------------

\* A client made for a configuration has a node of it.
LEMMA NewClientsFit ==
    ASSUME NEW wanted \in SUBSET AllNodes, NEW c \in NewClients(wanted)
    PROVE  c \in Clients /\ c # NoClient /\ (wanted # {} => c.nodes \cap wanted # {})
BY DEF NewClients, Clients, NoClient

\* A client that is taken over is connected to a node that the configuration names.
LEMMA ReusedClientsFit ==
    ASSUME NEW wanted \in SUBSET AllNodes, NEW c \in Clients, Reuses(c, wanted)
    PROVE  wanted # {} => c.nodes \cap wanted # {}
BY DEF Reuses, Clients

\* Being overtaken changes nothing else of a call.
LEMMA RaceFields ==
    ASSUME InstanceTypeOK, NEW S \in SUBSET Users
    PROVE  /\ Race(S) \in [Users -> UseRecords]
           /\ \A t \in Users : /\ Race(S)[t].at = use[t].at
                               /\ Race(S)[t].config = use[t].config
                               /\ Race(S)[t].built = use[t].built
                               /\ Race(S)[t].raced = (use[t].raced \/ t \in S)
<1>1. ASSUME NEW t \in Users
      PROVE  LET r == IF t \in S THEN [use[t] EXCEPT !.raced = TRUE] ELSE use[t]
             IN /\ r \in UseRecords
                /\ r.at = use[t].at /\ r.config = use[t].config /\ r.built = use[t].built
                /\ r.raced = (use[t].raced \/ t \in S)
  <2>1. use[t] \in UseRecords
    BY DEF InstanceTypeOK
  <2>2. CASE t \in S
    BY <2>1, <2>2 DEF UseRecords
  <2>3. CASE t \notin S
    BY <2>1, <2>3 DEF UseRecords
  <2> QED
    BY <2>2, <2>3
<1> QED
  BY <1>1 DEF Race

-----------------------------------------------------------------------------

\* Nothing is shared at first, and no thread is in a call.
LEMMA InstanceInitInv == InstanceInit => InstanceInv
<1> SUFFICES ASSUME InstanceInit PROVE InstanceInv
  OBVIOUS
<1>1. NoClient \in Clients
  BY DEF Clients
<1>2. NoInstance \in Instances /\ ~NoInstance.set
  BY <1>1 DEF NoInstance, Instances
<1>3. NotUsing \in UseRecords /\ NotUsing.at = "idle"
  BY <1>2 DEF NotUsing, UseRecords, UseSteps
<1>4. InstanceTypeOK
  BY <1>1, <1>2, <1>3 DEF InstanceInit, InstanceTypeOK
<1>5. BuiltFits /\ OvertakenKnowsIt
  BY <1>3 DEF InstanceInit, BuiltFits, OvertakenKnowsIt, Builds, AtUse
<1>6. SharedFitsConfig
  BY DEF InstanceInit, SharedFitsConfig
<1> QED
  BY <1>4, <1>5, <1>6 DEF InstanceInv

\* A build begins only when nothing is shared.
LEMMA LookInv ==
    ASSUME InstanceInv, NEW t \in Users, Look(t)
    PROVE  InstanceInv'
<1> USE DEF InstanceInv, Look, AtUse
<1>1. InstanceTypeOK'
  <2>1. use[t] \in UseRecords
    BY DEF InstanceTypeOK
  <2>2. [use[t] EXCEPT !.at = IF instance.set THEN "return" ELSE "build",
                       !.config = config, !.raced = FALSE] \in UseRecords
    BY <2>1 DEF UseRecords, InstanceTypeOK, UseSteps
  <2>3. use' \in [Users -> UseRecords]
    BY <2>2 DEF InstanceTypeOK
  <2> QED
    BY <2>3 DEF InstanceTypeOK
<1>2. BuiltFits'
  BY DEF InstanceTypeOK, UseRecords, BuiltFits
<1>3. OvertakenKnowsIt'
  BY DEF InstanceTypeOK, UseRecords, OvertakenKnowsIt, Builds
<1>4. SharedFitsConfig'
  BY DEF SharedFitsConfig
<1> QED
  BY <1>1, <1>2, <1>3, <1>4

\* Whether the client is new or taken over, it fits.
LEMMA BuildInv ==
    ASSUME InstanceInv, NEW t \in Users, Build(t)
    PROVE  InstanceInv'
<1> USE DEF InstanceInv, AtUse
<1>1. PICK new \in NewClients(use[t].config) :
        LET client == IF Reuses(transport, use[t].config) THEN transport ELSE new
        IN /\ transport' = client
           /\ use' = [use EXCEPT ![t].at = "assign",
                                 ![t].built = [set |-> TRUE, given |-> FALSE, client |-> client]]
  BY DEF Build
<1>2. use[t] \in UseRecords /\ use[t].config \in SUBSET AllNodes
  BY DEF InstanceTypeOK, UseRecords
<1>3. /\ transport' \in Clients
      /\ use[t].config # {} => transport'.nodes \cap use[t].config # {}
  BY <1>1, <1>2, NewClientsFit, ReusedClientsFit DEF InstanceTypeOK
<1>4. [set |-> TRUE, given |-> FALSE, client |-> transport'] \in Instances
  BY <1>3 DEF Instances
<1>5. use' = [use EXCEPT ![t].at = "assign",
                         ![t].built = [set |-> TRUE, given |-> FALSE, client |-> transport']]
  BY <1>1
<1>6. InstanceTypeOK'
  <2>1. [use[t] EXCEPT !.at = "assign",
                       !.built = [set |-> TRUE, given |-> FALSE, client |-> transport']] \in UseRecords
    BY <1>2, <1>4 DEF UseRecords, UseSteps
  <2>2. use' \in [Users -> UseRecords]
    BY <1>5, <2>1 DEF InstanceTypeOK
  <2> QED
    BY <1>3, <2>2 DEF InstanceTypeOK, Build
<1>7. BuiltFits'
  BY <1>3, <1>5 DEF InstanceTypeOK, UseRecords, BuiltFits
<1>8. OvertakenKnowsIt'
  BY <1>5 DEF Build, InstanceTypeOK, UseRecords, OvertakenKnowsIt, Builds
<1>9. SharedFitsConfig'
  BY DEF Build, SharedFitsConfig
<1> QED
  BY <1>6, <1>7, <1>8, <1>9

\* The exception, and the return, leave the shared state alone.
LEMMA LeaveInv ==
    ASSUME InstanceInv, NEW t \in Users, BuildFails(t) \/ ReturnInstance(t)
    PROVE  InstanceInv'
<1> USE DEF InstanceInv, BuildFails, ReturnInstance, AtUse
<1>1. NotUsing \in UseRecords
  BY DEF UseRecords, NotUsing, NoInstance, NoClient, Instances, Clients, UseSteps
<1>2. InstanceTypeOK'
  BY <1>1 DEF InstanceTypeOK
<1>3. BuiltFits' /\ OvertakenKnowsIt'
  BY DEF InstanceTypeOK, UseRecords, BuiltFits, OvertakenKnowsIt, Builds, NotUsing
<1>4. SharedFitsConfig'
  BY DEF SharedFitsConfig
<1> QED
  BY <1>2, <1>3, <1>4

\* What is assigned fits the configuration, or is known to be for an earlier one; the
\* other builds have been overtaken.
LEMMA AssignInv ==
    ASSUME InstanceInv, NEW t \in Users, Assign(t)
    PROVE  InstanceInv'
<1> USE DEF InstanceInv, AtUse
<1> DEFINE raced == Race(Builds)
<1>1. Builds \in SUBSET Users
  BY DEF Builds
<1>2. /\ raced \in [Users -> UseRecords]
      /\ \A u \in Users : /\ raced[u].at = use[u].at /\ raced[u].config = use[u].config
                          /\ raced[u].built = use[u].built
                          /\ raced[u].raced = (use[u].raced \/ u \in Builds)
  BY <1>1, RaceFields
<1>3. use' = [raced EXCEPT ![t].at = "return"]
  BY DEF Assign
<1> HIDE DEF raced
<1>4. InstanceTypeOK'
  <2>1. [raced[t] EXCEPT !.at = "return"] \in UseRecords
    BY <1>2 DEF UseRecords, UseSteps
  <2>2. use' \in [Users -> UseRecords]
    BY <1>2, <1>3, <2>1
  <2>3. instance' \in Instances /\ outdated' \in BOOLEAN
    BY DEF Assign, InstanceTypeOK, UseRecords
  <2> QED
    BY <2>2, <2>3 DEF InstanceTypeOK, Assign
<1>5. BuiltFits'
  BY <1>2, <1>3 DEF UseRecords, BuiltFits
<1>6. OvertakenKnowsIt'
  BY <1>2, <1>3 DEF UseRecords, Builds, OvertakenKnowsIt
<1>7. SharedFitsConfig'
  BY DEF SharedFitsConfig, Assign, BuiltFits
<1> QED
  BY <1>4, <1>5, <1>6, <1>7

\* An instance or a configuration that is set overtakes the builds under way.
LEMMA SetInv ==
    ASSUME InstanceInv, set_shared_blockchain_instance \/ set_shared_config
    PROVE  InstanceInv'
<1> USE DEF InstanceInv, AtUse, set_shared_blockchain_instance, set_shared_config
<1>1. Builds \in SUBSET Users
  BY DEF Builds
<1>2. /\ use' \in [Users -> UseRecords]
      /\ \A u \in Users : /\ use'[u].at = use[u].at /\ use'[u].config = use[u].config
                          /\ use'[u].built = use[u].built
                          /\ use'[u].raced = (use[u].raced \/ u \in Builds)
  <2>1. use' = Race(Builds)
    OBVIOUS
  <2> QED
    BY <1>1, <2>1, RaceFields
<1>3. InstanceTypeOK'
  <2>1. \A c \in Configs : NewClients(c) \subseteq Clients
    <3> SUFFICES ASSUME NEW c \in Configs, NEW k \in NewClients(c) PROVE k \in Clients
      OBVIOUS
    <3>1. c \in SUBSET AllNodes
      BY ConfigAssumption
    <3> QED
      BY <3>1, NewClientsFit
  <2>2. NoInstance \in Instances /\ NoClient \in Clients
    BY DEF NoInstance, Instances, Clients
  <2>3. instance' \in Instances /\ transport' \in Clients
    <3>1. CASE set_shared_blockchain_instance
      <4>1. PICK client \in (UNION {NewClients(c) : c \in Configs}) \cup {NoClient} :
               /\ instance' = [set |-> TRUE, given |-> TRUE, client |-> client]
               /\ transport' = IF client = NoClient THEN transport ELSE client
        BY <3>1
      <4>2. client \in Clients
        <5>1. CASE client = NoClient
          BY <2>2, <5>1
        <5>2. ASSUME NEW c \in Configs, client \in NewClients(c)
              PROVE  client \in Clients
          BY <2>1, <5>2
        <5> QED
          BY <4>1, <5>1, <5>2
      <4> QED
        BY <4>1, <4>2 DEF Instances, InstanceTypeOK
    <3>2. CASE set_shared_config
      BY <2>2, <3>2 DEF InstanceTypeOK
    <3> QED
      BY <3>1, <3>2
  <2>4. config' \subseteq AllNodes
    BY ConfigAssumption DEF InstanceTypeOK
  <2> QED
    BY <1>2, <2>3, <2>4 DEF InstanceTypeOK
<1>4. BuiltFits'
  BY <1>2 DEF BuiltFits
<1>5. OvertakenKnowsIt'
  BY <1>2 DEF Builds, OvertakenKnowsIt
<1>6. SharedFitsConfig'
  BY DEF SharedFitsConfig, NoInstance
<1> QED
  BY <1>3, <1>4, <1>5, <1>6

\* A client goes over to another of its own nodes.
LEMMA RotateInv ==
    ASSUME InstanceInv, Rotate
    PROVE  InstanceInv'
<1> USE DEF InstanceInv, AtUse
<1>1. PICK u \in instance.client.nodes \ {instance.client.url} :
        LET client == [instance.client EXCEPT !.url = u]
        IN /\ instance' = [instance EXCEPT !.client = client]
           /\ transport' = IF transport = instance.client THEN client ELSE transport
  BY DEF Rotate
<1> DEFINE client == [instance.client EXCEPT !.url = u]
<1>2. client \in Clients /\ client.nodes = instance.client.nodes
  BY <1>1 DEF Rotate, InstanceTypeOK, Instances, Clients
<1>3. instance' \in Instances /\ transport' \in Clients
  BY <1>1, <1>2 DEF InstanceTypeOK, Instances
<1>4. /\ instance'.set = instance.set /\ instance'.given = instance.given
      /\ instance'.client.nodes = instance.client.nodes
  BY <1>1, <1>2 DEF InstanceTypeOK, Instances
<1>5. InstanceTypeOK'
  BY <1>3 DEF Rotate, InstanceTypeOK
<1>6. BuiltFits' /\ OvertakenKnowsIt'
  BY <1>4 DEF Rotate, BuiltFits, OvertakenKnowsIt, Builds
<1>7. SharedFitsConfig'
  BY <1>4 DEF Rotate, SharedFitsConfig
<1> QED
  BY <1>5, <1>6, <1>7

LEMMA InstanceNextInv == InstanceInv /\ [InstanceNext]_instVars => InstanceInv'
<1> SUFFICES ASSUME InstanceInv, [InstanceNext]_instVars PROVE InstanceInv'
  OBVIOUS
<1>1. CASE InstanceNext
  BY <1>1, LookInv, BuildInv, LeaveInv, AssignInv, SetInv, RotateInv DEF InstanceNext
<1>2. CASE UNCHANGED instVars
  BY <1>2 DEF instVars, InstanceInv, InstanceTypeOK, BuiltFits, OvertakenKnowsIt,
              SharedFitsConfig, Builds, AtUse
<1> QED
  BY <1>1, <1>2

-----------------------------------------------------------------------------
(* The results.                                                            *)

\* The client of an instance that was built can always reach a node that the configuration
\* names, whoever had the client before.
THEOREM ClientsFitTheConfig == InstanceSpec => []SharedFitsConfig
<1>1. InstanceInv => SharedFitsConfig
  BY DEF InstanceInv
<1> QED
  BY <1>1, InstanceInitInv, InstanceNextInv, PTL DEF InstanceSpec

\* An instance that is shared is replaced only by a build that had begun before it was shared.
THEOREM SharedInstanceStays == InstanceSpec => SharedStays
<1>1. InstanceInv /\ [InstanceNext]_instVars =>
        [\A t \in Users : AtUse(t, "assign") /\ instance' # instance /\ ~(AtUse(t, "assign"))' =>
            ~instance.set \/ use[t].raced]_instVars
  BY DEF InstanceInv, OvertakenKnowsIt, Builds
<1> QED
  BY <1>1, InstanceInitInv, InstanceNextInv, PTL DEF InstanceSpec, SharedStays

-----------------------------------------------------------------------------
(***************************************************************************)
(* Proofs about NodeList, for any number of NodeLists and of fetches that  *)
(* overlap.  The invariant says how old the lists may be that are on their *)
(* way: in the cache not older than its stamp, and, after an update that   *)
(* found no fetch under way, nowhere older than that update.               *)
(***************************************************************************)

Lists == [at : Nat, kind : Contents]
Stages == {"none", "begin", "ask", "store", "apply", "done"}
Fetches == [at : Stages, owner : Owners \cup {"none"}, updates : BOOLEAN, began : Nat,
            got : Lists \cup {NotCached}]

NodesTypeOK ==
    /\ clock \in Nat /\ stamp \in Nat
    /\ cache \in Lists \cup {NotCached}
    /\ nodes \in [Owners -> Lists \cup {Static}]
    /\ fetch \in [1..MaxFetches -> Fetches]
    /\ fetches \in 0..MaxFetches
    /\ asked \in [Owners -> [at : Nat \cup {-1}, among : BOOLEAN]]

\* The stamp of the cache, and of what will be stored there, is not after the list.
StampsAreEarly ==
    /\ cache # NotCached => cache.at >= stamp
    /\ \A i \in 1..MaxFetches :
          /\ fetch[i].began <= clock
          /\ FetchAt(i, "store") => fetch[i].got.at >= fetch[i].began

\* Fetches are counted.
UnusedIsEmpty == \A i \in 1..MaxFetches : i > fetches => fetch[i] = NoFetch

\* A list is as fresh as the last update of an owner.
Fresh(list, o) == list \in {NotCached, Static} \/ list.at >= asked[o].at

\* After an update that found no fetch under way, every list is as fresh as that.
UpdatesAreFelt ==
    \A o \in Owners :
        /\ asked[o].at <= clock
        /\ ~asked[o].among =>
              /\ Fresh(cache, o)
              /\ \A i \in 1..MaxFetches :
                    FetchAt(i, "store") \/ FetchAt(i, "apply") => Fresh(fetch[i].got, o)
              /\ ~Busy(o) => Fresh(nodes[o], o)

NodesInv == NodesTypeOK /\ StampsAreEarly /\ UnusedIsEmpty /\ UpdatesAreFelt

-----------------------------------------------------------------------------

LEMMA SpecialLists == NotCached \notin Lists /\ Static \notin Lists /\ NoFetch \in Fetches
BY DEF Lists, NotCached, Static, NoFetch, Fetches, Stages

\* At first there is nothing but the static nodes.
LEMMA NodesInitInv == NodesInit => NodesInv
<1> SUFFICES ASSUME NodesInit PROVE NodesInv
  OBVIOUS
<1> USE DEF NodesInit
<1>1. NodesTypeOK
  BY BeaconAssumption, SpecialLists DEF NodesTypeOK
<1>2. StampsAreEarly /\ UnusedIsEmpty
  BY DEF StampsAreEarly, UnusedIsEmpty, FetchAt, NoFetch
<1>3. UpdatesAreFelt
  <2>1. ASSUME NEW o \in Owners
        PROVE  Fresh(cache, o) /\ Fresh(nodes[o], o) /\ asked[o].at <= clock
    BY DEF Fresh
  <2>2. \A i \in 1..MaxFetches : ~FetchAt(i, "store") /\ ~FetchAt(i, "apply")
    BY DEF FetchAt, NoFetch
  <2> QED
    BY <2>1, <2>2 DEF UpdatesAreFelt
<1> QED
  BY <1>1, <1>2, <1>3 DEF NodesInv

\* A fetch that starts is a new one: nobody is less busy, and nothing has been got.
LEMMA StartFetch ==
    ASSUME NodesInv, NEW o \in Owners \cup {"none"}, NEW updates \in BOOLEAN,
           NEW changed \in [1..MaxFetches -> Fetches],
           \A i \in 1..MaxFetches : i > fetches => changed[i] = NoFetch,
           Start(o, updates, changed)
    PROVE  /\ fetches + 1 \in 1..MaxFetches /\ fetches' = fetches + 1
           /\ fetch' \in [1..MaxFetches -> Fetches]
           /\ fetch'[fetches + 1].began = clock
           /\ fetch'[fetches + 1].at = IF updates THEN "ask" ELSE "begin"
           /\ fetch'[fetches + 1].owner = o
           /\ fetch'[fetches + 1].updates = updates
           /\ changed[fetches + 1] = NoFetch
           /\ \A i \in 1..MaxFetches : i # fetches + 1 => fetch'[i] = changed[i]
<1> DEFINE new == [NoFetch EXCEPT !.at = IF updates THEN "ask" ELSE "begin",
                                  !.owner = o, !.updates = updates, !.began = clock]
<1>1. fetches + 1 \in 1..MaxFetches /\ fetches' = fetches + 1
  BY BeaconAssumption DEF NodesInv, NodesTypeOK, Start
<1>2. /\ new \in Fetches /\ new.began = clock /\ new.owner = o /\ new.updates = updates
      /\ new.at = IF updates THEN "ask" ELSE "begin"
  BY SpecialLists DEF NoFetch, Fetches, Stages, NodesInv, NodesTypeOK
<1>3. fetch' = [changed EXCEPT ![fetches + 1] = new]
  BY DEF Start
<1> HIDE DEF new
<1> QED
  BY <1>1, <1>2, <1>3 DEF NodesInv, NodesTypeOK

-----------------------------------------------------------------------------

\* The time makes nothing fresher than it was.
LEMMA ClockTickInv ==
    ASSUME NodesInv, ClockTick
    PROVE  NodesInv'
<1> USE DEF NodesInv, ClockTick
<1>1. NodesTypeOK'
  BY DEF NodesTypeOK
<1>2. StampsAreEarly'
  <2>1. \A i \in 1..MaxFetches : fetch[i].began \in Nat
    BY DEF NodesTypeOK, Fetches
  <2> QED
    BY <2>1 DEF StampsAreEarly, NodesTypeOK, FetchAt
<1>3. UnusedIsEmpty'
  BY DEF UnusedIsEmpty
<1>4. UpdatesAreFelt'
  <2>1. \A o \in Owners : asked[o].at \in Int /\ (Busy(o)' <=> Busy(o))
    BY DEF NodesTypeOK, Busy, FetchAt
  <2> QED
    BY <2>1 DEF UpdatesAreFelt, NodesTypeOK, Fresh, FetchAt
<1> QED
  BY <1>1, <1>2, <1>3, <1>4

\* A NodeList begins with what is cached.
LEMMA RefreshInv ==
    ASSUME NodesInv, NEW o \in Owners, _refresh_nodes(o)
    PROVE  NodesInv'
<1> USE DEF NodesInv
<1> DEFINE k == fetches + 1
<1>1. /\ k \in 1..MaxFetches /\ fetches' = k
      /\ fetch' \in [1..MaxFetches -> Fetches]
      /\ fetch'[k].began = clock /\ fetch'[k].at = "begin" /\ ~fetch'[k].updates
      /\ fetch[k] = NoFetch
      /\ \A i \in 1..MaxFetches : i # k => fetch'[i] = fetch[i]
  BY StartFetch DEF _refresh_nodes, Refresh, NodesTypeOK, UnusedIsEmpty
<1>2. nodes' = [nodes EXCEPT ![o] = IF Truthy(cache) THEN cache ELSE Static]
  BY DEF _refresh_nodes, Refresh
<1>3. UNCHANGED <<clock, cache, stamp, asked>>
  BY DEF _refresh_nodes
<1>4. Truthy(cache) => cache \in Lists
  BY DEF Truthy, NodesTypeOK, NotCached
<1> HIDE DEF k
<1>5. NodesTypeOK'
  BY <1>1, <1>2, <1>3, <1>4 DEF NodesTypeOK
<1>6. StampsAreEarly'
  BY <1>1, <1>3 DEF StampsAreEarly, FetchAt, NodesTypeOK
<1>7. UnusedIsEmpty'
  BY <1>1 DEF UnusedIsEmpty, NodesTypeOK, k
<1>8. UpdatesAreFelt'
  <2>1. \A p \in Owners : Busy(p)' <=> Busy(p)
    BY <1>1 DEF Busy, FetchAt, NoFetch, NodesTypeOK
  <2>2. \A p \in Owners : ~asked[p].among => Fresh(cache, p)
    BY DEF UpdatesAreFelt
  <2>3. \A p \in Owners : Fresh(nodes'[p], p) \/ nodes'[p] = nodes[p]
                          \/ asked[p].among
    BY <1>2, <2>2 DEF Fresh, NodesTypeOK
  <2> QED
    BY <1>1, <1>2, <1>3, <2>1, <2>2, <2>3 DEF UpdatesAreFelt, Fresh, FetchAt, NodesTypeOK
<1> QED
  BY <1>5, <1>6, <1>7, <1>8

\* With the cache gone, an update that finds no fetch under way finds no list at all.
LEMMA UpdateInv ==
    ASSUME NodesInv, NEW o \in Owners, update_nodes(o)
    PROVE  NodesInv'
<1> USE DEF NodesInv
<1> DEFINE k == fetches + 1
<1>1. /\ k \in 1..MaxFetches /\ fetches' = k
      /\ fetch' \in [1..MaxFetches -> Fetches]
      /\ fetch'[k].began = clock /\ fetch'[k].at = "ask"
      /\ fetch'[k].owner = o /\ fetch'[k].updates
      /\ fetch[k] = NoFetch
      /\ \A i \in 1..MaxFetches : i # k => fetch'[i] = fetch[i]
  BY StartFetch DEF update_nodes, NodesTypeOK, UnusedIsEmpty
<1>2. /\ cache' = NotCached /\ stamp' = 0 /\ UNCHANGED <<clock, nodes>>
      /\ asked' = [asked EXCEPT ![o] = [at |-> clock, among |->
                      \E i \in DOMAIN fetch : fetch[i].at \in {"ask", "store", "apply"}]]
  BY DEF update_nodes
<1> HIDE DEF k
<1>3. NodesTypeOK'
  BY <1>1, <1>2 DEF NodesTypeOK
<1>4. StampsAreEarly'
  BY <1>1, <1>2 DEF StampsAreEarly, FetchAt, NodesTypeOK
<1>5. UnusedIsEmpty'
  BY <1>1 DEF UnusedIsEmpty, NodesTypeOK, k
<1>6. UpdatesAreFelt'
  <2>1. Busy(o)'
    BY <1>1 DEF Busy, FetchAt, NodesTypeOK
  <2>2. \A p \in Owners \ {o} : (Busy(p)' <=> Busy(p)) /\ asked'[p] = asked[p]
    BY <1>1, <1>2 DEF Busy, FetchAt, NoFetch, NodesTypeOK
  <2>3. /\ asked'[o].at = clock
        /\ ~asked'[o].among => \A i \in 1..MaxFetches : ~FetchAt(i, "store") /\ ~FetchAt(i, "apply")
    BY <1>2 DEF FetchAt, NodesTypeOK
  <2> QED
    BY <1>1, <1>2, <2>1, <2>2, <2>3 DEF UpdatesAreFelt, Fresh, FetchAt, NodesTypeOK
<1> QED
  BY <1>3, <1>4, <1>5, <1>6

\* What a step of a fetch leaves alone.
LEMMA ReachFields ==
    ASSUME NodesTypeOK, NEW i \in 1..MaxFetches, NEW pc \in Stages,
           NEW list \in Lists \cup {NotCached}, Reach(i, pc, list)
    PROVE  /\ fetch' \in [1..MaxFetches -> Fetches]
           /\ fetch'[i].at = pc /\ fetch'[i].got = list
           /\ fetch'[i].owner = fetch[i].owner /\ fetch'[i].updates = fetch[i].updates
           /\ fetch'[i].began = fetch[i].began
           /\ \A j \in 1..MaxFetches : j # i => fetch'[j] = fetch[j]
<1> DEFINE next == [fetch[i] EXCEPT !.at = pc, !.got = list]
<1>1. fetch' = [fetch EXCEPT ![i] = next]
  BY DEF Reach
<1>2. /\ next \in Fetches /\ next.at = pc /\ next.got = list /\ next.owner = fetch[i].owner
      /\ next.updates = fetch[i].updates /\ next.began = fetch[i].began
  BY DEF Fetches, NodesTypeOK
<1> HIDE DEF next
<1> QED
  BY <1>1, <1>2 DEF NodesTypeOK

\* A fetch that goes on to its next step keeps its owner.
LEMMA ReachInv ==
    ASSUME NodesInv, NEW i \in DOMAIN fetch,
           LookInCache(i) \/ BeaconAnswers(i) \/ BeaconsFail(i) \/ StoreInCache(i)
    PROVE  NodesInv'
<1> USE DEF NodesInv
<1>1. /\ i \in 1..MaxFetches /\ fetch[i] \in Fetches /\ ~FetchAt(i, "none") /\ ~FetchAt(i, "done")
      /\ UNCHANGED <<clock, nodes, fetches, asked>>
  BY DEF LookInCache, BeaconAnswers, BeaconsFail, StoreInCache, NodesTypeOK, FetchAt
<1>2. /\ fetch' \in [1..MaxFetches -> Fetches]
      /\ fetch'[i].owner = fetch[i].owner /\ fetch'[i].updates = fetch[i].updates
      /\ fetch'[i].at \in {"ask", "store", "apply"}
      /\ fetch'[i].began <= clock
      /\ fetch'[i].at = "store" => fetch'[i].got.at = clock
      /\ fetch'[i].at = "apply" => \/ fetch'[i].got \in {cache, NotCached}
                                   \/ FetchAt(i, "store") /\ fetch'[i].got = fetch[i].got
      /\ \A j \in 1..MaxFetches : j # i => fetch'[j] = fetch[j]
  <2>1. CASE LookInCache(i)
    <3>1. PICK pc \in {"ask", "apply"}, list \in {cache, NotCached} :
             fetch' = [fetch EXCEPT ![i].began = clock, ![i].at = pc, ![i].got = list]
      BY <2>1 DEF LookInCache
    <3> DEFINE next == [fetch[i] EXCEPT !.began = clock, !.at = pc, !.got = list]
    <3>2. /\ next \in Fetches
          /\ next.owner = fetch[i].owner /\ next.updates = fetch[i].updates
          /\ next.at = pc /\ next.began = clock /\ next.got = list
      BY <1>1 DEF Fetches, Stages, NodesTypeOK
    <3>3. fetch' = [fetch EXCEPT ![i] = next]
      BY <3>1
    <3> HIDE DEF next
    <3> QED
      BY <1>1, <3>1, <3>2, <3>3 DEF NodesTypeOK
  <2>2. CASE BeaconAnswers(i)
    <3>1. PICK kind \in Contents : Reach(i, "store", [at |-> clock, kind |-> kind])
      BY <2>2 DEF BeaconAnswers
    <3>2. [at |-> clock, kind |-> kind] \in Lists
      BY DEF Lists, NodesTypeOK
    <3>3. /\ fetch' \in [1..MaxFetches -> Fetches]
          /\ fetch'[i].at = "store" /\ fetch'[i].got = [at |-> clock, kind |-> kind]
          /\ fetch'[i].owner = fetch[i].owner /\ fetch'[i].updates = fetch[i].updates
          /\ fetch'[i].began = fetch[i].began
          /\ \A j \in 1..MaxFetches : j # i => fetch'[j] = fetch[j]
      BY <1>1, <3>1, <3>2, ReachFields DEF Stages
    <3> QED
      BY <1>1, <3>3 DEF StampsAreEarly, NodesTypeOK
  <2>3. CASE BeaconsFail(i)
    BY <1>1, <2>3, ReachFields DEF BeaconsFail, NodesTypeOK, StampsAreEarly, Stages
  <2>4. CASE StoreInCache(i)
    BY <1>1, <2>4, ReachFields DEF StoreInCache, StampsAreEarly, Fetches, Stages
  <2> QED
    BY <2>1, <2>2, <2>3, <2>4
<1>3. /\ cache' \in {cache, fetch[i].got} /\ stamp' \in Nat
      /\ cache' # NotCached => cache'.at >= stamp'
      /\ cache' # cache => FetchAt(i, "store")
  BY <1>1 DEF LookInCache, BeaconAnswers, BeaconsFail, StoreInCache, StampsAreEarly,
              NodesTypeOK, Fetches
<1>4. NodesTypeOK'
  BY <1>1, <1>2, <1>3 DEF NodesTypeOK, Fetches
<1>5. StampsAreEarly'
  BY <1>1, <1>2, <1>3 DEF StampsAreEarly, FetchAt, NodesTypeOK, Fetches
<1>6. UnusedIsEmpty'
  BY <1>1, <1>2 DEF UnusedIsEmpty, FetchAt, NoFetch
<1>7. UpdatesAreFelt'
  <2>1. \A o \in Owners : Busy(o)' <=> Busy(o)
    BY <1>1, <1>2 DEF Busy, FetchAt, NodesTypeOK
  <2>2. ASSUME NEW o \in Owners, ~asked[o].among
        PROVE  /\ Fresh(cache', o)
               /\ fetch'[i].at \in {"store", "apply"} => Fresh(fetch'[i].got, o)
    <3>1. asked[o].at <= clock /\ Fresh(cache, o) /\ (FetchAt(i, "store") => Fresh(fetch[i].got, o))
      BY <1>1, <2>2 DEF UpdatesAreFelt
    <3>2. asked[o].at \in Int /\ clock \in Int
      BY DEF NodesTypeOK
    <3> QED
      BY <1>2, <1>3, <3>1, <3>2 DEF Fresh
  <2>3. ASSUME NEW o \in Owners
        PROVE  /\ asked'[o] = asked[o] /\ asked[o].at <= clock'
               /\ ~asked[o].among /\ ~Busy(o) => Fresh(nodes[o], o)
               /\ \A j \in 1..MaxFetches :
                     ~asked[o].among /\ fetch[j].at \in {"store", "apply"} => Fresh(fetch[j].got, o)
    BY <1>1 DEF UpdatesAreFelt, FetchAt
  <2> QED
    BY <1>1, <1>2, <2>1, <2>2, <2>3 DEF UpdatesAreFelt, Fresh, FetchAt
<1> QED
  BY <1>4, <1>5, <1>6, <1>7

\* What is applied is as fresh as the last update; so is what is cached, which an update that
\* got nothing takes instead.
LEMMA ApplyInv ==
    ASSUME NodesInv, NEW i \in DOMAIN fetch, Apply(i)
    PROVE  NodesInv'
<1> USE DEF NodesInv
<1> DEFINE o == fetch[i].owner
           done == [fetch EXCEPT ![i] = [NoFetch EXCEPT !.at = "done"]]
<1>1. /\ i \in 1..MaxFetches /\ i <= fetches
      /\ fetch[i] \in Fetches /\ fetch[i].at = "apply"
      /\ UNCHANGED <<clock, cache, stamp, asked>>
  BY DEF Apply, NodesTypeOK, FetchAt, UnusedIsEmpty, NoFetch
<1>2. /\ done \in [1..MaxFetches -> Fetches]
      /\ done[i].at = "done" /\ ~done[i].updates /\ done[i].began <= clock
      /\ \A j \in 1..MaxFetches : j # i => done[j] = fetch[j]
      /\ \A j \in 1..MaxFetches : j > fetches => done[j] = NoFetch
  <2> DEFINE over == [NoFetch EXCEPT !.at = "done"]
  <2>1. over \in Fetches /\ over.at = "done" /\ ~over.updates /\ over.began = 0
    BY DEF NoFetch, Fetches, Stages
  <2>2. done = [fetch EXCEPT ![i] = over]
    OBVIOUS
  <2> HIDE DEF over, done
  <2> QED
    BY <1>1, <2>1, <2>2 DEF NodesTypeOK, UnusedIsEmpty
<1>3. \A p \in Owners : ~asked[p].among => Fresh(fetch[i].got, p) /\ Fresh(cache, p)
  BY <1>1 DEF UpdatesAreFelt, FetchAt
<1>4. \/ Truthy(fetch[i].got) /\ nodes' = [nodes EXCEPT ![o] = fetch[i].got]
         /\ fetch' = done /\ UNCHANGED fetches
      \/ Refresh(o, done)
      \/ ~fetch[i].updates /\ fetch' = done /\ UNCHANGED <<nodes, fetches>>
  BY DEF Apply
<1> HIDE DEF done
<1>5. Refresh(o, done) =>
        /\ fetches + 1 \in 1..MaxFetches /\ fetches' = fetches + 1
        /\ fetch' \in [1..MaxFetches -> Fetches]
        /\ fetch'[fetches + 1].began = clock /\ fetch'[fetches + 1].at = "begin"
        /\ ~fetch'[fetches + 1].updates
        /\ done[fetches + 1] = NoFetch
        /\ \A j \in 1..MaxFetches : j # fetches + 1 => fetch'[j] = done[j]
  BY ZenonT(60), <1>1, <1>2, StartFetch DEF Refresh, Fetches
<1>6. /\ fetch' \in [1..MaxFetches -> Fetches] /\ fetches' \in 0..MaxFetches
      /\ \A j \in 1..MaxFetches :
            \/ fetch'[j] = done[j]
            \/ /\ fetch'[j].at = "begin" /\ fetch'[j].began = clock
               /\ ~fetch'[j].updates /\ done[j] = NoFetch
  <2>1. CASE fetch' = done /\ UNCHANGED fetches
    BY <1>2, <2>1 DEF NodesTypeOK
  <2>2. CASE Refresh(o, done)
    BY <1>5, <2>2
  <2> QED
    BY <1>4, <2>1, <2>2
<1>7. /\ nodes' \in [Owners -> Lists \cup {Static}]
      /\ \A p \in Owners :
            ~asked[p].among /\ (nodes'[p] # nodes[p] \/ (p = o /\ fetch[i].updates)) =>
                Fresh(nodes'[p], p)
  <2>1. Truthy(cache) => cache \in Lists
    BY DEF Truthy, NodesTypeOK, NotCached
  <2>2. Truthy(fetch[i].got) => fetch[i].got \in Lists
    BY <1>1 DEF Truthy, Fetches, NotCached
  <2>3. CASE Truthy(fetch[i].got) /\ nodes' = [nodes EXCEPT ![o] = fetch[i].got]
    BY <1>3, <2>2, <2>3 DEF NodesTypeOK
  <2>4. CASE Refresh(o, done)
    BY <1>3, <2>1, <2>4 DEF Refresh, NodesTypeOK, Fresh
  <2>5. CASE ~fetch[i].updates /\ UNCHANGED nodes
    BY <2>5 DEF NodesTypeOK
  <2> QED
    BY <1>4, <2>3, <2>4, <2>5
<1>8. NodesTypeOK'
  BY <1>1, <1>6, <1>7 DEF NodesTypeOK
<1>9. StampsAreEarly'
  BY <1>1, <1>2, <1>6 DEF StampsAreEarly, FetchAt, NodesTypeOK
<1>10. UnusedIsEmpty'
  <2>1. CASE fetch' = done /\ UNCHANGED fetches
    BY <1>2, <2>1 DEF UnusedIsEmpty
  <2>2. CASE Refresh(o, done)
    BY <1>2, <1>5, <2>2 DEF UnusedIsEmpty, NodesTypeOK
  <2> QED
    BY <1>4, <2>1, <2>2
<1>11. UpdatesAreFelt'
  <2>1. ASSUME NEW p \in Owners, p # o \/ ~fetch[i].updates, Busy(p)
        PROVE  Busy(p)'
    <3>1. PICK j \in 1..MaxFetches : fetch[j].owner = p /\ fetch[j].updates /\ ~FetchAt(j, "done")
      BY <2>1 DEF Busy, NodesTypeOK
    <3>2. j # i
      BY <2>1, <3>1
    <3>3. fetch'[j] = fetch[j]
      BY <1>2, <1>6, <3>1, <3>2 DEF NoFetch
    <3> QED
      BY <1>6, <3>1, <3>3 DEF Busy, FetchAt, NodesTypeOK
  <2>2. ASSUME NEW j \in 1..MaxFetches, FetchAt(j, "store")' \/ FetchAt(j, "apply")'
        PROVE  fetch'[j] = fetch[j] /\ (FetchAt(j, "store") \/ FetchAt(j, "apply"))
    BY <1>2, <1>6, <2>2 DEF FetchAt
  <2>3. ASSUME NEW p \in Owners, ~asked[p].among, ~Busy(p)'
        PROVE  Fresh(nodes'[p], p)
    BY <1>7, <2>1, <2>3 DEF UpdatesAreFelt
  <2> QED
    BY <1>1, <1>3, <2>2, <2>3 DEF UpdatesAreFelt, Fresh
<1> QED
  BY <1>8, <1>9, <1>10, <1>11

\* A fetch that is about to look in the cache goes on by that only.
LEMMA OnlyFromTheCache ==
    ASSUME NodesInv, NodesNext, NEW i \in DOMAIN fetch, FetchAt(i, "begin"),
           fetch'[i].at = "apply"
    PROVE  LookInCache(i)
<1> USE DEF NodesInv, FetchAt
<1>1. i \in 1..MaxFetches
  BY DEF NodesTypeOK
<1>2. ~ClockTick
  BY DEF ClockTick
<1>3. ASSUME NEW o \in Owners, _refresh_nodes(o) \/ update_nodes(o)
      PROVE  FALSE
  <2>1. CASE Start(o, TRUE, fetch)
    BY <1>1, <2>1, StartFetch DEF NodesTypeOK, UnusedIsEmpty
  <2>2. CASE Start(o, FALSE, fetch)
    BY <1>1, <2>2, StartFetch DEF NodesTypeOK, UnusedIsEmpty
  <2> QED
    BY <1>3, <2>1, <2>2 DEF _refresh_nodes, Refresh, update_nodes
<1>4. ASSUME NEW k \in DOMAIN fetch,
             BeaconAnswers(k) \/ BeaconsFail(k) \/ StoreInCache(k) \/ (LookInCache(k) /\ k # i)
      PROVE  FALSE
  <2>1. k # i
    BY <1>4 DEF BeaconAnswers, BeaconsFail, StoreInCache
  <2> QED
    BY <1>1, <1>4, <2>1
       DEF BeaconAnswers, BeaconsFail, StoreInCache, LookInCache, Reach, NodesTypeOK
<1>5. ASSUME NEW k \in DOMAIN fetch, Apply(k)
      PROVE  FALSE
  <2> DEFINE done == [fetch EXCEPT ![k] = [NoFetch EXCEPT !.at = "done"]]
  <2>1. /\ k \in 1..MaxFetches /\ k # i /\ done[i] = fetch[i]
        /\ done \in [1..MaxFetches -> Fetches]
        /\ \A j \in 1..MaxFetches : j > fetches => done[j] = NoFetch
    <3>1. [NoFetch EXCEPT !.at = "done"] \in Fetches
      BY DEF NoFetch, Fetches, Stages
    <3>2. k \in 1..MaxFetches /\ k # i /\ k <= fetches
      BY <1>5 DEF Apply, NodesTypeOK, UnusedIsEmpty, NoFetch
    <3> QED
      BY <3>1, <3>2 DEF NodesTypeOK, UnusedIsEmpty
  <2>2. fetch' = done \/ Refresh(fetch[k].owner, done)
    BY <1>5 DEF Apply
  <2> HIDE DEF done
  <2>3. fetch[k].owner \in Owners \cup {"none"}
    BY <2>1 DEF NodesTypeOK, Fetches
  <2>4. CASE Refresh(fetch[k].owner, done)
    BY <1>1, <2>1, <2>3, <2>4, StartFetch DEF Refresh
  <2> QED
    BY <2>1, <2>2, <2>4
<1> QED
  BY <1>2, <1>3, <1>4, <1>5 DEF NodesNext

LEMMA NodesNextInv == NodesInv /\ [NodesNext]_nodesVars => NodesInv'
<1> SUFFICES ASSUME NodesInv, [NodesNext]_nodesVars PROVE NodesInv'
  OBVIOUS
<1>1. CASE NodesNext
  BY <1>1, ClockTickInv, RefreshInv, UpdateInv, ReachInv, ApplyInv DEF NodesNext
<1>2. CASE UNCHANGED nodesVars
  BY <1>2 DEF nodesVars, NodesInv, NodesTypeOK, StampsAreEarly, UnusedIsEmpty, UpdatesAreFelt,
              Fresh, Busy, FetchAt
<1> QED
  BY <1>1, <1>2

-----------------------------------------------------------------------------
(* The results.                                                            *)

\* After update_nodes returns to its caller's thread and its fetch is done, the NodeList has
\* nothing that is older than the call, unless another fetch was under way at the time.
THEOREM UpdatesAreFresh == NodesSpec => []UpdateIsFresh
<1>1. NodesInv => UpdateIsFresh
  BY DEF NodesInv, NodesTypeOK, UpdatesAreFelt, UpdateIsFresh, Fresh, NotCached, Static, Lists
<1> QED
  BY <1>1, NodesInitInv, NodesNextInv, PTL DEF NodesSpec

\* What fetch_beacon_nodes serves from the cache is not older than CACHE_DURATION.
THEOREM ServedFromCacheIsRecent == NodesSpec => CacheIsRecent
<1>1. ASSUME NodesInv, NodesNext, NEW i \in DOMAIN fetch,
             FetchAt(i, "begin"), FetchAt(i, "apply")'
      PROVE  clock - cache.at < CacheDuration
  <2>1. LookInCache(i)
    BY <1>1, OnlyFromTheCache DEF FetchAt
  <2>2. cache # NotCached /\ clock - stamp < CacheDuration
    <3> SUFFICES ASSUME ~(cache # NotCached /\ clock - stamp < CacheDuration) PROVE FALSE
      OBVIOUS
    <3>1. fetch' = [fetch EXCEPT ![i].began = clock, ![i].at = "ask", ![i].got = NotCached]
      BY <2>1 DEF LookInCache
    <3>2. fetch'[i].at = "ask"
      BY <1>1, <3>1 DEF NodesInv, NodesTypeOK, Fetches
    <3> QED
      BY <1>1, <3>2 DEF FetchAt
  <2>3. cache.at \in Nat /\ stamp \in Nat /\ clock \in Nat /\ CacheDuration \in Nat
    BY <2>2, BeaconAssumption, <1>1 DEF NodesInv, NodesTypeOK, Lists
  <2> QED
    BY <1>1, <2>2, <2>3 DEF NodesInv, StampsAreEarly
<1>2. NodesInv /\ [NodesNext]_nodesVars =>
        [\A i \in DOMAIN fetch : FetchAt(i, "begin") /\ (FetchAt(i, "apply"))' =>
            clock - cache.at < CacheDuration]_nodesVars
  BY <1>1
<1> QED
  BY <1>2, NodesInitInv, NodesNextInv, PTL DEF NodesSpec, CacheIsRecent

-----------------------------------------------------------------------------
(* The process.                                                            *)

\* What a process does is, for each part, what that part does.
LEMMA PartsOfTheProcess == Spec => DataSpec /\ InstanceSpec /\ NodesSpec
<1>1. Init => DataInit /\ InstanceInit /\ NodesInit
  BY DEF Init
<1>2. [Next]_vars => [DataNext]_dataVars /\ [InstanceNext]_instVars /\ [NodesNext]_nodesVars
  BY DEF Next, vars, UseData, UseInstance, UseNodes
<1> QED
  BY <1>1, <1>2, PTL DEF Spec, DataSpec, InstanceSpec, NodesSpec

\* What was proved of the parts holds of the program that has all of them.
THEOREM PartsKeepTheirPromises ==
    Spec => /\ []SharedFitsConfig
            /\ SharedStays
            /\ []UpdateIsFresh
            /\ CacheIsRecent
            /\ DataIsRecent
            /\ DataOfThisNode
  BY PartsOfTheProcess, ClientsFitTheConfig, SharedInstanceStays, UpdatesAreFresh,
     ServedFromCacheIsRecent, ReturnedDataIsRecent, ReturnedDataIsOfThisNode
================================================================================
