-------------------------------- MODULE Paging ---------------------------------
(***************************************************************************)
(* The other readers of lists: posts (account/queries.py, comment/models), *)
(* followers and delegations, communities, and accounts                    *)
(* (blockchain/client.py).  Each keeps a cursor, the entry it asked from   *)
(* last, and knows the entry it has returned already in its own way.       *)
(***************************************************************************)
EXTENDS Reading

FirstPage == [pc |-> "pages", cursor |-> q.start, first |-> TRUE,
              size |-> IF q.limit = None THEN Page ELSE Least(q.limit, Page)]

\* n entries from the cursor on; q.inclusive says whether the node repeats the cursor.
Onward == {x \in list : h.cursor = None \/ x > h.cursor \/ (q.inclusive /\ x = h.cursor)}
FromCursor(n) == Lowest(Onward, n)

\* Mutant: the entry that two pages share is returned with each.
AfterFirstKept(page) == page

AfterFirst(page) == {x \in page : Below(page, x) # {}}

Left == q.limit - Len(out)
Full(returned) == q.limit # None /\ returned >= q.limit
FullWith(new) == Full(Len(out) + Cardinality(new))

\* Mutant: the cursor is not counted.
RoomExactly == IF q.limit = None THEN Page ELSE Least(Left, Page)

Room == IF q.limit = None THEN Page ELSE Least(Left + 1, Page)

Return(new) == out' = out \o Sorted(new)
GoOn(more, cursor, size) ==
    h' = [h EXCEPT !.pc = IF more THEN @ ELSE "done", !.cursor = cursor, !.size = size,
                   !.first = FALSE]

-----------------------------------------------------------------------------
(* blog_history, feed_history, reply_history: the limit, and one more for  *)
(* the cursor.                                                             *)

Wanted(x) == q.own => x \in chosen

\* The posts up to the last that the limit allows; those without an author are passed over.
Taken(posts) ==
    LET named == posts \ blank
    IN IF q.limit = None THEN named
       ELSE {x \in named : Cardinality({y \in Below(named, x) : Wanted(y)}) < Left}

Continue(page, rest) ==
    LET taken == Taken(rest)
        new == {x \in taken : Wanted(x)}
    IN IF page = {} \/ (h.cursor # None /\ Cardinality(page) = 1) THEN Done /\ Return({})
       ELSE /\ Return(new)
            /\ GoOn(~FullWith(new), IF taken = {} THEN h.cursor ELSE Top(taken), h.size)

Blog ==
    /\ q.reader = "blog"
    /\ LET page == FromCursor(IF q.own THEN Page ELSE Room)
       IN Continue(page, IF h.cursor # None THEN AfterFirst(page) ELSE page)

Feed ==
    /\ q.reader = "feed"
    /\ LET page == FromCursor(Room)
       IN Continue(page, IF out # <<>> THEN AfterFirst(page) ELSE page)

\* Without a post to begin from nothing is asked.
Replies ==
    /\ q.reader = "replies"
    /\ LET page == IF h.cursor = None THEN {} ELSE FromCursor(Room)
       IN Continue(page, IF out # <<>> THEN AfterFirst(page) ELSE page)

-----------------------------------------------------------------------------
(* RankedPosts and AccountPosts: the entry that was returned last is known *)
(* by its name.                                                            *)

LastOf(seq) == seq[Len(seq)]

MorePosts ==
    LET page == FromCursor(h.size)
        double == page # {} /\ out # <<>> /\ Bottom(page) = LastOf(out)
        other == IF double THEN AfterFirst(page) ELSE page
        new == Lowest(other, Left)
    IN /\ Return(new)
       /\ GoOn(new # {} /\ ~FullWith(new),
               IF new # {} THEN Top(new) ELSE IF out # <<>> THEN LastOf(out) ELSE h.cursor,
               Least(Page, Left - Cardinality(new) + 1))

\* A request fails: what there is so far is the result.
PostsFail ==
    /\ h' = [h EXCEPT !.pc = IF out = <<>> THEN "failed" ELSE "partial"]
    /\ Return({})

RankedPosts == q.reader = "ranked" /\ (MorePosts \/ PostsFail)
AccountPosts == q.reader = "account" /\ (MorePosts \/ PostsFail)

-----------------------------------------------------------------------------
(* _get_followers and the delegations of the command line: the first entry *)
(* of a later page is taken for the cursor.  Communities: the cursor is    *)
(* not repeated.                                                           *)

\* Mutant: there is more as long as a page is not empty.
ByPositionToEmpty ==
    /\ q.reader \in Positional
    /\ LET page == FromCursor(q.batch)
       IN /\ Return(IF h.first THEN page ELSE AfterFirst(page))
          /\ IF page # {} THEN GoOn(TRUE, Top(page), h.size) ELSE Done

ByPosition ==
    /\ q.reader \in Positional
    /\ LET page == FromCursor(q.batch)
       IN /\ Return(IF h.first THEN page ELSE AfterFirst(page))
          /\ IF Cardinality(page) >= q.batch THEN GoOn(TRUE, Top(page), h.size) ELSE Done

Communities ==
    /\ q.reader = "communities"
    /\ LET page == FromCursor(h.size)
           seen == Len(out) + Cardinality(page)
       IN IF page = {} THEN Done /\ Return({})
          ELSE /\ Return(Lowest(page, Left))
               /\ GoOn(seen < q.limit, Top(page),
                       IF seen + h.size > q.limit THEN q.limit - seen ELSE h.size)

-----------------------------------------------------------------------------
(* get_all_accounts and get_account_reputations.                           *)

\* The names up to the stop, or to the limit.
UpToStop(names) ==
    LET before == {x \in names : q.stop \in names => x <= q.stop}
    IN IF q.limit = None THEN before ELSE Lowest(before, Left)

Stopped(new) == FullWith(new) \/ q.stop \in new

AllAccounts ==
    /\ q.reader = "accounts"
    /\ LET page == FromCursor(q.batch)
           new == UpToStop(page \ {h.cursor})
       IN IF page = {} THEN Failed /\ Return({})
          ELSE /\ Return(new)
               /\ GoOn(~Stopped(new) /\ Top(page) # h.cursor /\ Cardinality(page) >= q.batch,
                       Top(page), h.size)

Reputations ==
    /\ q.reader = "reputations"
    /\ LET size == Least(q.batch, Page)
           page == FromCursor(size)
           new == UpToStop(IF h.first THEN page ELSE page \ {h.cursor})
       IN IF page = {} THEN Done /\ Return({})
          ELSE /\ Return(new)
               /\ GoOn(~Stopped(new) /\ Cardinality(page) >= size /\ Top(page) # q.stop,
                       Top(page), h.size)

ReadPage ==
    /\ ~History /\ At("pages")
    /\ UNCHANGED <<q, world>>
    /\ \/ Blog \/ Feed \/ Replies
       \/ RankedPosts \/ AccountPosts
       \/ ByPosition \/ Communities
       \/ AllAccounts \/ Reputations
================================================================================
