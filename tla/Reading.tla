-------------------------------- MODULE Reading --------------------------------
(***************************************************************************)
(* Lists that a node returns page by page, while they change: the entries, *)
(* the requests, and what a reader owes to its caller.  History and Paging *)
(* say how each reader goes from page to page.                             *)
(*                                                                         *)
(* An entry is a number, and entries are listed in the order of their      *)
(* numbers: the index of an operation in the history of an account, or the *)
(* place of a name or of a post among all that there may be.  A reply has  *)
(* a greater number than what it replies to.  A page is a set of entries:  *)
(* its order is that of the numbers.                                       *)
(***************************************************************************)
EXTENDS Integers, FiniteSets, Sequences

CONSTANTS
    Page,        \* the most entries a node returns (1000, 100 or 20)
    Cases,       \* what readers are asked for, and what the list is then
    Nodes,       \* kinds of nodes
    MaxChanges   \* how often the list, or the node, changes

ASSUME PageAssumption == Page \in Nat \ {0, 1}
ASSUME ChangesAssumption == MaxChanges \in Nat

None == -1       \* of a start, a stop, a limit or a cursor

VARIABLES
    q,        \* the query
    list,     \* the entries
    block,    \* the block of an operation; what a reply replies to, or 0; a block's time
    chosen,   \* entries of a kind that a query may ask for: operations, own posts, comments
    blank,    \* posts without an author
    node,     \* the node that answers
    h,        \* where the reader is
    out,      \* the entries it has returned
    stay,     \* entries that have been there all the time
    disturbed,  \* the filter was chosen for the other kind of node; or an entry that was
                \* returned, and may have been the cursor, has been removed
    changes   \* how often anything has changed

vars == <<q, list, block, chosen, blank, node, h, out, stay, disturbed, changes>>
world == <<list, block, chosen, blank, node, stay, disturbed, changes>>

Below(S, x) == {y \in S : y < x}
Sorted(S) == [i \in 1..Cardinality(S) |-> CHOOSE x \in S : Cardinality(Below(S, x)) = i - 1]
Downwards(S) == [i \in 1..Cardinality(S) |-> Sorted(S)[Cardinality(S) + 1 - i]]
Lowest(S, n) == {x \in S : Cardinality(Below(S, x)) < n}
Highest(S, n) == {x \in S : Cardinality({y \in S : y > x}) < n}
Bottom(S) == CHOOSE x \in S : \A y \in S : x <= y
Top(S) == CHOOSE x \in S : \A y \in S : x >= y
Least(a, b) == IF a < b THEN a ELSE b
Greatest(a, b) == IF a > b THEN a ELSE b

Returned == {out[i] : i \in DOMAIN out}

At(pc) == h.pc = pc
Done == h' = [h EXCEPT !.pc = "done"]
Failed == h' = [h EXCEPT !.pc = "failed"]
Ended == h.pc \in {"done", "partial", "failed"}

OfPosts == {"blog", "feed", "replies", "ranked", "account", "discussions"}
Positional == {"followers", "delegations"}
OfNames == Positional \cup {"communities", "accounts", "reputations"}

OfOperations == {"forward", "reverse"}
History == q.reader \in OfOperations
Threads == q.reader = "discussions" /\ q.kind \in {"comments", "replies"}

\* A reader begins; it keeps nothing from earlier ones.
Begin(readers, start) ==
    /\ \E c \in Cases : /\ c.q.reader \in readers /\ q = c.q /\ list = c.list
                        /\ block = c.block /\ chosen = c.chosen /\ blank = c.blank
    /\ node \in (IF History THEN Nodes ELSE {"other"})
    /\ h = start /\ out = <<>> /\ stay = list /\ disturbed = FALSE /\ changes = 0

\* A post is before a date only if all older ones are.
Before(x) ==
    q.reader = "discussions" /\ q.kind = "author_before_date" /\ x \in chosen' =>
        list \subseteq chosen

\* An operation is added to the history, or a reply below a post; an account, a post or a
\* delegation appears, at its place (a post as the newest), or is removed.
Places ==
    IF q.reader = "date" THEN {}
    ELSE IF History THEN {Cardinality(list)}
    ELSE IF Threads THEN {Cardinality(list) + 1}
    ELSE {y \in 1..(2 * Cardinality(list) + 1) :
              y \notin list /\ (q.reader \in OfPosts => \A z \in list : y < z)}

Appear ==
    /\ ~Ended /\ changes < MaxChanges
    /\ \E x \in Places :
          /\ list' = list \cup {x}
          /\ chosen' \in {chosen, chosen \cup {x}}
          /\ Before(x)
          /\ IF Threads
             THEN \E y \in list :
                     block' = [z \in DOMAIN block \cup {x} |-> IF z = x THEN y ELSE block[z]]
             ELSE UNCHANGED block
    /\ changes' = changes + 1
    /\ UNCHANGED <<q, blank, node, h, out, stay, disturbed>>

Disappear ==
    /\ ~Ended /\ q.reader \in Positional /\ changes < MaxChanges
    /\ \E x \in list : /\ list' = list \ {x} /\ stay' = stay \ {x}
                       /\ disturbed' = (disturbed \/ x \in Returned)
    /\ changes' = changes + 1
    /\ UNCHANGED <<q, block, chosen, blank, node, h, out>>

\* The client goes over to another node.
SwitchNode ==
    /\ ~Ended /\ History /\ changes < MaxChanges
    /\ node' \in Nodes \ {node}
    /\ disturbed' = (disturbed \/ (At("pages") /\ q.filter))
    /\ changes' = changes + 1
    /\ UNCHANGED <<q, list, block, chosen, blank, h, out, stay>>

World == Appear \/ Disappear \/ SwitchNode
================================================================================
