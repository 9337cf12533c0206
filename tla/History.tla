-------------------------------- MODULE History --------------------------------
(***************************************************************************)
(* Account.history and Account.history_reverse (account/queries.py): the   *)
(* operations of an account from the oldest to the newest or back, from a  *)
(* start to a stop that are indices or block numbers.                      *)
(*                                                                         *)
(* The code knows two kinds of nodes: api.hive.blog ("hive"), where the    *)
(* operation of index 0 can be had, and the others.                        *)
(***************************************************************************)
EXTENDS Reading

Fresh == [pc |-> "count", max |-> 0, min |-> 0, created |-> 0, low |-> 0, up |-> 0,
          upBlock |-> 0, guess |-> None, seen |-> 0, est |-> 0, diff |-> 0,
          first |-> 0, limit |-> 0, last |-> None, lastRound |-> FALSE, filter |-> FALSE]

Forward == q.reader = "forward"
ByIndex == q.mode = "index"

-----------------------------------------------------------------------------
(* Requests.  A node returns at most Page operations, the last of them the *)
(* one asked for or the newest; with a filter it looks at two pages.       *)

OnHive == node = "hive"

\* virtual_op_count
CountOf == IF list = {} THEN 0 ELSE Top(list) + (IF OnHive THEN 1 ELSE 0)

Refused(start, limit) == start >= 0 /\ start < Greatest(limit, 1) - (IF OnHive THEN 1 ELSE 0)

Upto(start) == {x \in list : start >= 0 => x <= start}
PageSize(limit) == Least(Greatest(limit, 1), Page)

\* get_account_history without a start or a stop: what a request returns, of the kind
\* asked for.
Operations(start, limit) ==
    LET items == Highest(Upto(start), PageSize(limit))
        lookedAt == Highest(Upto(start), 2 * Page)
    IN IF ~q.filter THEN items
       ELSE IF OnHive THEN Highest(lookedAt \cap chosen, PageSize(limit))
       ELSE items \cap chosen

\* _get_blocknum_from_hist
IndexAt(i) == IF i >= 0 /\ i < h.min THEN h.min ELSE i
BlockAt(i) == block[Top(Upto(IndexAt(i)))]

-----------------------------------------------------------------------------
(* Where to begin.                                                         *)

\* The first window of history.
Window(g, start) ==
    LET bound == IF q.stop # None /\ ByIndex /\ start + q.stop < q.batch
                 THEN q.stop ELSE q.batch
        first == start + bound - 1
        limit == IF first > g.max THEN g.max - start ELSE bound
    IN [g EXCEPT !.pc = IF limit < 0 THEN "done" ELSE "pages",
                 !.limit = limit,
                 !.first = IF first > g.max THEN start + limit - 1
                           ELSE IF first >= bound THEN first
                           ELSE IF OnHive THEN bound - 1 ELSE bound,
                 !.filter = OnHive /\ q.filter]

\* The first window of history_reverse.
WindowDown(g, first) ==
    [g EXCEPT !.pc = "pages", !.limit = q.batch, !.first = first, !.last = first + 1,
              !.filter = OnHive /\ q.filter]

Count ==
    /\ At("count")
    /\ LET g == [h EXCEPT !.max = CountOf]
       IN h' = IF g.max = 0 THEN [g EXCEPT !.pc = "done"]
               ELSE IF q.start # None /\ ByIndex
               THEN IF Forward THEN Window(g, q.start) ELSE WindowDown(g, q.start)
               ELSE IF q.start # None /\ g.max > q.batch THEN [g EXCEPT !.pc = "first"]
               ELSE IF Forward THEN Window(g, 0) ELSE WindowDown(g, g.max)
    /\ UNCHANGED <<q, world, out>>

\* _get_first_blocknum: the first index that the node lets be read.
FirstIndex ==
    /\ At("first")
    /\ h' = [h EXCEPT !.pc = "created", !.min = IF Refused(0, 1) THEN 1 ELSE 0]
    /\ UNCHANGED <<q, world, out>>

-----------------------------------------------------------------------------
(* estimate_virtual_op_num(start, stop_diff=1): the index of the first     *)
(* operation that is not before the block.                                 *)

Estimate(g, i) == [g EXCEPT !.pc = "back", !.est = Greatest(i, g.min)]

Created ==
    /\ At("created")
    /\ IF Refused(h.min, 1) THEN Failed
       ELSE LET g == [h EXCEPT !.up = CountOf, !.created = BlockAt(0)]
            IN h' = IF g.up < 1 \/ q.start <= g.created THEN Estimate(g, 0)
                    ELSE [g EXCEPT !.pc = "latest"]
    /\ UNCHANGED <<q, world, out>>

Latest ==
    /\ At("latest")
    /\ LET g == [h EXCEPT !.upBlock = block[Top(list)]]
       IN h' = IF q.start >= g.upBlock THEN Estimate(g, g.up)
               ELSE [g EXCEPT !.pc = "search"]
    /\ UNCHANGED <<q, world, out>>

\* First by interpolation, then by halves; at the end the upper bound.
Guess ==
    IF h.guess = None
    THEN h.low + ((q.start - h.created) * (h.up - h.low)) \div (h.upBlock - h.created)
    ELSE (h.up + h.low) \div 2 + (IF h.up = h.low + 1 THEN 1 ELSE 0)

Search ==
    /\ At("search")
    /\ LET seen == IF Guess = h.guess THEN h.seen ELSE BlockAt(Guess)
           g == [h EXCEPT !.guess = Guess, !.seen = seen]
       IN IF Guess # h.guess /\ Refused(IndexAt(Guess), 1) THEN Failed
          ELSE h' = IF h.up - h.low <= 1 THEN Estimate(g, Guess)
                    ELSE IF seen < q.start THEN [g EXCEPT !.low = Guess]
                    ELSE [g EXCEPT !.up = Guess]
    /\ UNCHANGED <<q, world, out>>

\* One batch back, or forth, until the block is not on the wrong side.
Back ==
    /\ At("back")
    /\ LET i == IF Forward THEN h.est - h.diff ELSE h.est + h.diff
           seen == block[Top(Upto(i))]
           further == IF Forward THEN h.est > h.diff + q.batch /\ seen > q.start
                      ELSE h.est + h.diff + q.batch < h.max /\ seen < q.start
       IN IF Refused(i, 0) THEN Failed
          ELSE h' = IF further THEN [h EXCEPT !.diff = @ + q.batch]
                    ELSE IF Forward THEN Window(h, i) ELSE WindowDown(h, i)
    /\ UNCHANGED <<q, world, out>>

-----------------------------------------------------------------------------
(* The pages.                                                              *)

Place(i) == IF ByIndex THEN i ELSE block[i]

\* Mutant: the operation beyond the stop is left out, and what follows it is not.
ShownBeside(kept, beyond) == kept

\* Of the operations of a page those before the first that is beyond the stop.
Shown(kept, beyond) == kept \ UNION {{j \in kept : IF Forward THEN j >= i ELSE j <= i} : i \in beyond}

\* Where history goes on; the last window reaches up to the number of operations.
Onwards(first, seen) ==
    IF first < h.max /\ first + h.limit >= h.max /\ ~h.lastRound
    THEN [h EXCEPT !.limit = h.max - first, !.first = h.max, !.lastRound = TRUE]
    ELSE LET next == first + (IF /\ h.filter /\ seen < h.limit
                                 /\ first + 2 * Page < h.max /\ h.limit = Page
                              THEN 2 * Page ELSE h.limit)
             over == IF q.stop # None /\ ByIndex /\ next >= q.stop + h.limit + 1 THEN TRUE
                     ELSE next > h.max \/ h.lastRound
         IN [h EXCEPT !.first = next, !.pc = IF over THEN "done" ELSE @]

PageUp ==
    /\ At("pages") /\ Forward
    /\ LET first == IF OnHive THEN Greatest(h.first, h.limit - 1)
                    ELSE Greatest(h.first, h.limit)
           items == Operations(first, h.limit)
           kept == {i \in items : IF q.start = None THEN i > h.last ELSE Place(i) >= q.start}
           beyond == {i \in kept : q.stop # None /\ Place(i) > q.stop}
           shown == Shown(kept, beyond)
           g == Onwards(first, Cardinality(items))
       IN IF Refused(first, h.limit) THEN Failed /\ UNCHANGED out
          ELSE /\ out' = out \o Sorted(shown)
               /\ h' = [g EXCEPT !.last = IF shown = {} THEN @ ELSE Top(shown),
                                 !.pc = IF beyond = {} THEN @ ELSE "done"]
    /\ UNCHANGED <<q, world>>

Downward(limit, seen) ==
    LET next == h.first - (IF h.filter /\ seen < limit /\ limit = Page THEN 2 * Page ELSE limit)
    IN [h EXCEPT !.limit = limit, !.first = next, !.pc = IF next < 1 THEN "done" ELSE @]

PageDown ==
    /\ At("pages") /\ ~Forward
    /\ LET limit == IF h.first - h.limit >= 0 THEN h.limit
                    ELSE IF OnHive THEN h.first + 1 ELSE h.first
           items == Operations(h.first, limit)
           kept == {i \in items : IF q.start = None THEN i < h.last ELSE Place(i) <= q.start}
           beyond == {i \in kept : q.stop # None /\ Place(i) < q.stop}
           shown == Shown(kept, beyond)
           g == Downward(limit, Cardinality(items))
       IN IF Refused(h.first, limit) THEN Failed /\ UNCHANGED out
          ELSE /\ out' = out \o Downwards(shown)
               /\ h' = [g EXCEPT !.last = IF shown = {} THEN @ ELSE Bottom(shown),
                                 !.pc = IF beyond = {} THEN @ ELSE "done"]
    /\ UNCHANGED <<q, world>>

ReadHistory ==
    History /\ (Count \/ FirstIndex \/ Created \/ Latest \/ Search \/ Back \/ PageUp \/ PageDown)
================================================================================
