------------------------------- MODULE MCReading -------------------------------
(***************************************************************************)
(* Readers over small lists, with every start, stop, limit and page size.  *)
(***************************************************************************)
EXTENDS Readers
LOCAL INSTANCE TLC

CONSTANTS
    MaxLen,        \* the longest list
    MaxBlock       \* the last block

-----------------------------------------------------------------------------
(* What is read.                                                           *)

Indices == 0..(MaxLen + MaxChanges)
Chain == {f \in [Indices -> 1..MaxBlock] : \A i \in Indices \ {0} : f[i - 1] <= f[i]}
OneBlock == {[i \in Indices |-> 1]}

\* Histories.  Left out is what history does not bring to an end, a start at or after the
\* newest operation (or block), or a stop at index 0, and what history_reverse returns
\* twice, a start in a block.  Left out below: replies without a post to begin from, and
\* pages of one entry, a stop that is not
\* after the start.
Queries ==
    {query \in [reader : OfOperations, mode : {"index", "block"},
                start : {None} \cup 0..MaxLen, stop : {None} \cup 0..MaxLen,
                batch : 1..Page, filter : BOOLEAN] :
        LET forward == query.reader = "forward"
            lower == IF forward THEN query.start ELSE query.stop
            upper == IF forward THEN query.stop ELSE query.start
        IN /\ lower # None /\ upper # None => lower <= upper
           /\ query.filter => query.mode = "index" /\ lower = None /\ upper = None
           /\ query.mode = "block" => upper <= MaxBlock /\ lower <= MaxBlock
           /\ IF forward THEN query.stop # 0 ELSE query.start = None \/ query.mode = "index"}

Sensible(query, n, f) ==
    query.start # None =>
        IF query.reader = "reverse" THEN query.start < n
        ELSE IF query.mode = "index" THEN query.start < n - 1
        ELSE n > 0 /\ query.start < f[n - 1]

Histories ==
    UNION {{[q |-> query, list |-> 0..(n - 1), block |-> f, chosen |-> c, blank |-> {}] :
                c \in IF query.filter THEN SUBSET (0..(n - 1)) ELSE {{}},
                f \in {g \in IF query.mode = "block" THEN Chain ELSE OneBlock : Sensible(query, n, g)}} :
           query \in Queries, n \in 0..MaxLen}

\* Histories with a filter in which a page may be followed by one that begins two pages later.
LongHistories ==
    {[q |-> query, list |-> 0..(3 * Page - 1), block |-> [i \in 0..(3 * Page + MaxChanges) |-> 1],
      chosen |-> c, blank |-> {}] :
        query \in {one \in Queries : one.filter}, c \in SUBSET (0..(3 * Page - 1))}

\* Lists.  Their entries leave room for others between them.
Lists == {{2 * i : i \in 1..n} : n \in 0..MaxLen}
Limits == {None} \cup 1..MaxLen

Query(readers, starts, stops, limits, batches, owns, inclusives) ==
    [reader : readers, start : starts, stop : stops, limit : limits, batch : batches,
     own : owns, inclusive : inclusives]
Over(queries, chosens, blanks) ==
    UNION {[q : {query \in queries :
                     /\ query.reader \in OfPosts => query.start \in {None} \cup l
                     /\ query.stop # None => query.start < query.stop},
            list : {l}, block : {<<>>}, chosen : chosens, blank : blanks] : l \in Lists}

Starts == {None} \cup {2 * i : i \in 1..MaxLen}
Some == {{}, {2}, {4}, {2, 6}}
Pages ==
    UNION {
      Over(Query({"blog"}, {None}, {None}, Limits, {0}, BOOLEAN, {TRUE}), Some, Some),
      Over(Query({"feed"}, Starts, {None}, Limits, {0}, {FALSE}, {TRUE}), {{}}, {{}}),
      Over(Query({"replies"}, Starts \ {None}, {None}, Limits, {0}, {FALSE}, {TRUE}), {{}}, Some),
      Over(Query({"ranked", "account"}, Starts, {None}, 1..MaxLen, {0}, {FALSE}, BOOLEAN), {{}}, {{}}),
      Over(Query({"followers", "delegations"}, {None}, {None}, {None}, {2, 3}, {FALSE}, {TRUE}), {{}}, {{}}),
      Over(Query({"communities"}, {None}, {None}, 1..MaxLen, {0}, {FALSE}, {FALSE}), {{}}, {{}}),
      Over(Query({"accounts", "reputations"}, Starts, Starts, Limits, {2, 3}, {FALSE}, {TRUE}), {{}}, {{}})}

\* Discussions of a kind; own says whether an account is given.  Left out are pages that the
\* limit of the query cuts from a thread, or that have no post before
\* the date, and the tag to start from, which is not passed on.
OfKinds(kinds, cases) ==
    {[c EXCEPT !.q = c.q @@ [kind |-> k]] : k \in kinds, c \in cases}
Asking(starts, batches, owns, inclusives) ==
    Query({"discussions"}, starts, {None}, 1..MaxLen, batches, owns, inclusives)

Forests == UNION {{f \in [1..n -> 0..n] : \A i \in 1..n : f[i] < i} : n \in 1..MaxLen}
ThreadCases ==
    {[q |-> query, list |-> DOMAIN f, block |-> f, chosen |-> {}, blank |-> {}] :
        query \in {a \in Asking({1, 2}, {0, MaxLen + MaxChanges}, {FALSE}, {TRUE}) :
                      a.batch = 0 => a.limit <= Page},
        f \in Forests}

DiscussionCases ==
    OfKinds({"trending", "created", "active", "votes", "children", "hot", "promoted"},
            Over(Asking({None, 4}, {0, 2}, {FALSE}, BOOLEAN), {{}}, {{}}))
    \cup OfKinds({"tags"}, Over(Asking({None}, {0, 2}, {FALSE}, {FALSE}), {{}}, {{}}))
    \cup OfKinds({"feed", "blog"}, Over(Asking({None, 4}, {0, 2}, BOOLEAN, {TRUE}), {{}}, {{}}))
    \cup OfKinds({"payout", "post_payout", "cashout"}, Over(Asking({None}, {0, 2}, {FALSE}, {TRUE}), Some, {{}}))
    \cup OfKinds({"author_before_date"},
                 Over(Asking({None}, {MaxChanges + 2}, {TRUE}, {TRUE}), {{2 * i : i \in 1..MaxLen}, {2 * i : i \in 2..MaxLen}}, {{}}))
    \cup OfKinds({"comments", "replies"}, ThreadCases)

\* Dates from the first block to the last and a little beyond; a slot, or three, may be missed
\* after any block.  To count forwards there must be a tenth block.
Times(n, missed, slots) ==
    [b \in 1..n |-> BlockInterval * (b - 1 + slots * Cardinality(missed \cap 1..(b - 1)))]
Dates(mode, n, times) ==
    [reader : {"date"}, mode : {mode}, start : -1..(times[n] + 4), stop : {None}, limit : {None},
     own : {FALSE}, inclusive : BOOLEAN]
DatesOf(mode, n, missed, slots) ==
    {[q |-> query, list |-> 1..n, block |-> Times(n, missed, slots), chosen |-> {}, blank |-> {}] :
        query \in Dates(mode, n, Times(n, missed, slots))}
DateCases ==
    UNION {UNION {DatesOf("backwards", n, m, s) : m \in SUBSET (1..(n - 1)), s \in {1, 3}} : n \in 1..6}
    \cup UNION {DatesOf("forwards", EarlyBlock + 1, m, 3) : m \in {{}} \cup {{b} : b \in 1..EarlyBlock}}

MCCases == DateCases \cup Histories \cup LongHistories \cup Pages \cup DiscussionCases
================================================================================
