-------------------------------- MODULE Readers --------------------------------
(***************************************************************************)
(* A reader of a list, from its first request to its last, while the list  *)
(* and the node change; and what it owes to its caller.                    *)
(***************************************************************************)
EXTENDS History, Discussions, BlockDate

-----------------------------------------------------------------------------
(* What readers may be asked for, and of which lists.                      *)

Kinds == {"trending", "author_before_date", "payout", "post_payout", "created", "active",
          "cashout", "votes", "children", "hot", "feed", "blog", "comments", "promoted",
          "replies", "tags"}

Numbers(c) ==
    /\ c.q.start \in Nat \cup {None}
    /\ c.q.stop \in Nat \cup {None} /\ (c.q.stop # None => c.q.start < c.q.stop)
    /\ c.q.limit \in (Nat \ {0}) \cup {None}
    /\ c.q.batch \in Nat /\ c.q.own \in BOOLEAN /\ c.q.inclusive \in BOOLEAN

\* A list of posts is read from a post; a later page begins with the last post of the one
\* before it, or does not (communities), unless the reader looks which it is.
PageCase(c) ==
    /\ Numbers(c)
    /\ c.q.reader \notin {"accounts", "reputations"} => c.q.stop = None
    /\ c.q.reader \in {"ranked", "account", "communities"} => c.q.limit # None
    /\ c.q.reader \in OfPosts => c.q.start \in {None} \cup c.list
    /\ c.q.reader \in Positional \cup {"communities"} => c.q.start = None
    /\ c.q.reader = "replies" => c.q.start # None
    /\ c.q.reader \in Positional => c.q.limit = None
    /\ c.q.reader \in Positional \cup {"accounts", "reputations"} => c.q.batch > 1
    /\ c.q.reader = "communities" => ~c.q.inclusive
    /\ c.q.reader \notin {"ranked", "account", "communities"} => c.q.inclusive
    /\ c.q.reader # "blog" => ~c.q.own
    /\ c.q.reader \notin {"blog", "replies"} => c.blank = {}

\* Replies are numbered from the post on.
Thread(c) ==
    /\ c.list = 1..Cardinality(c.list)
    /\ DOMAIN c.block = c.list
    /\ \A x \in c.list : c.block[x] \in Nat /\ c.block[x] < x

\* The limit of a query is one post at least, beside the one it starts from; it takes in a
\* thread, and some post before the date.
DiscussionCase(c) ==
    LET size == IF c.q.batch = 0 THEN Least(c.q.limit, Page) ELSE c.q.batch
        threads == c.q.kind \in {"comments", "replies"}
    IN /\ Numbers(c)
       /\ c.q.kind \in Kinds
       /\ c.q.stop = None /\ c.q.limit # None /\ c.q.batch # 1
       /\ c.blank = {}
       /\ threads =>
             /\ Thread(c) /\ c.q.start # None
             /\ IF c.q.batch = 0 THEN c.q.limit <= Page
                ELSE Cardinality(c.list) + MaxChanges <= c.q.batch
       /\ ~threads => c.q.start \in {None} \cup c.list
       /\ c.q.kind \in {"payout", "post_payout", "author_before_date", "tags"} => c.q.start = None
       /\ c.q.kind = "author_before_date" =>
             /\ c.q.own
             /\ \A x \in c.list \cap c.chosen, y \in c.list : x < y => y \in c.chosen
             /\ Cardinality(c.list \ c.chosen) + MaxChanges < size

\* Operations are numbered without a gap, also those to come, and none is in an earlier block
\* than the one before it; a reader from a start down knows its index.
HistoryCase(c) ==
    /\ c.list = 0..(Cardinality(c.list) - 1)
    /\ \A x, y \in 0..(Cardinality(c.list) + MaxChanges) :
          c.block[x] \in Nat /\ (x <= y => c.block[x] <= c.block[y])
    /\ c.q.mode \in {"index", "block"}
    /\ c.q.start \in Nat \cup {None} /\ c.q.stop \in Nat \cup {None}
    /\ c.q.batch \in 1..Page /\ c.q.filter \in BOOLEAN
    /\ c.q.reader = "reverse" /\ c.q.start # None =>
          c.q.mode = "index" /\ c.q.start < Cardinality(c.list)
    /\ c.q.filter => c.q.mode = "index" /\ c.q.start = None /\ c.q.stop = None

\* Blocks are an interval apart, or several; the date is not before the first.
DateCase(c) ==
    /\ c.list = 1..Cardinality(c.list) /\ c.list # {}
    /\ c.q.start \in Int /\ c.q.stop = None /\ c.q.limit = None
    /\ c.q.start > c.block[1] - BlockInterval
    /\ c.q.own \in BOOLEAN /\ c.q.inclusive \in BOOLEAN /\ c.blank = {}
    /\ c.q.mode = "forwards" => EarlyBlock \in c.list
    /\ \A x \in c.list : c.block[x] \in Int
    /\ \A x \in c.list : x + 1 \in c.list => c.block[x + 1] - c.block[x] >= BlockInterval

ASSUME CasesAssumption ==
    \A c \in Cases :
        /\ IsFiniteSet(c.list) /\ c.list \subseteq Nat
        /\ c.q.reader \in OfPosts \cup OfNames \cup OfOperations \cup {"date"}
        /\ c.q.reader \in (OfPosts \cup OfNames) \ {"discussions"} => PageCase(c)
        /\ c.q.reader = "discussions" => DiscussionCase(c)
        /\ c.q.reader \in OfOperations => HistoryCase(c)
        /\ c.q.reader = "date" => DateCase(c)

-----------------------------------------------------------------------------

Init ==
    \/ Begin(OfOperations, Fresh)
    \/ Begin(OfPosts \cup OfNames, FirstPage)
    \/ Begin({"date"}, NoDate)

Read == ReadHistory \/ ReadPage \/ ReadDiscussions \/ ReadDates
Next == World \/ Read

\* The caller asks for more until there is no more, and nothing in a reader waits.
Spec == Init /\ [][Next]_vars /\ WF_vars(Read)

-----------------------------------------------------------------------------
(* What was asked for.                                                     *)

Key(x) == IF History THEN Place(x) ELSE x
Lower == IF q.reader = "reverse" THEN q.stop ELSE q.start
Upper == IF q.reader = "reverse" THEN q.start ELSE q.stop
InRange(x) ==
    /\ Lower # None => Key(x) >= Lower
    /\ Upper # None => Key(x) <= Upper
OfKind(x) ==
    CASE q.kind \in {"payout", "author_before_date"} -> x \in chosen
      [] q.kind \in {"post_payout", "cashout"} -> x \notin chosen
      [] q.kind \in {"feed", "blog"} -> q.own
      [] q.kind \in {"comments", "replies"} ->
            /\ x \in Discussion(q.start)
            /\ q.kind = "replies" => x # q.start
      [] OTHER -> TRUE
Asked(x) ==
    /\ InRange(x)
    /\ IF History THEN q.filter => x \in chosen
       ELSE x \notin blank /\ IF q.reader = "discussions" THEN OfKind(x) ELSE Wanted(x)

\* Entries that a reader may leave out: the first operation of an account, which some nodes
\* do not give; operations of the block a history starts in; the post, or the account, that
\* a list starts from; what comes after the limit.
Excused(x) ==
    \/ History /\ (x = 0 \/ (~ByIndex /\ Key(x) = q.start))
    \/ q.reader \in OfPosts \cup {"accounts"} /\ x = q.start
    \/ ~History /\ Full(Len(out)) /\ \A y \in Returned : x > y

\* With a filter a page of few operations is followed by one that begins two pages later,
\* while a request returns one page: operations are missed in a history that is long enough.
Skips == q.reader = "forward" /\ h.filter /\ q.batch = Page /\ h.max >= 3 * Page

OfTags == q.reader = "discussions" /\ q.kind = "tags"

\* A block whose time is not an interval away from the date, or that is parted from it by a
\* slot that was missed.
OfDate == q.reader = "date"
Missed(a, b) == \E x \in list : x + 1 \in list /\ block[x + 1] - block[x] > BlockInterval
                                /\ (q.inclusive => block[x] < b /\ block[x + 1] > a)
NearDate(x) ==
    \/ block[x] - q.start \in (1 - BlockInterval)..(BlockInterval - 1)
    \/ Missed(Least(block[x], q.start), Greatest(block[x], q.start))

-----------------------------------------------------------------------------
(* Properties.                                                             *)

\* A reader that comes to its end has returned every entry asked for that was in the list
\* from the first request to the last, whatever was added, and whatever was removed, in
\* between: the overlap of two pages is neither too small nor taken off twice.  (Tags come
\* from the first page again and again.)
NothingMissed ==
    At("done") /\ ~disturbed /\ ~Skips /\ ~OfTags /\ ~OfDate =>
        \A x \in stay : Asked(x) => x \in Returned \/ Excused(x)

\* Entries are returned in order and each once, although pages overlap by one entry, or by
\* many (the last page of history reaches back to where the one before it ended).  History
\* from a start is left out: it drops no operation by its index, and its last page repeats one.
NothingTwice ==
    ~OfTags /\ (q.reader = "forward" => q.start = None) =>
        \A i, j \in DOMAIN out :
            i < j => IF q.reader = "reverse" THEN out[i] > out[j] ELSE out[i] < out[j]

\* Nothing is returned that was not asked for: no operation from beyond the start or the
\* stop, although pages and searches by block reach across them; no more than the limit,
\* although each request asks for one more.  (A stop that is no account stops nothing.)  The block
\* of a date, if there is one, is less than an interval away unless slots were missed.
NothingElse ==
    /\ \A x \in Returned :
          IF OfDate THEN x \in list => NearDate(x)
          ELSE Asked(x) \/ (~History /\ q.stop # None /\ q.stop \notin stay)
    /\ ~History /\ q.limit # None => Len(out) <= q.limit

\* Every reader comes to its end: the cursor moves with every page that is not the last,
\* and the search for a date does not go round in a circle.
\* (It does not where posts without an author fill a page.)
Ends == <>(Ended \/ blank # {})
================================================================================
