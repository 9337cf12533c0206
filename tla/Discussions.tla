------------------------------ MODULE Discussions ------------------------------
(***************************************************************************)
(* Discussions.get_discussions (discussions/core.py) and the classes that  *)
(* it takes its pages from.  There is a class for every kind of list; what *)
(* it asks the node for, and with which cursor, differs.                   *)
(*                                                                         *)
(* For lists of posts by payout, chosen are the comments; for those of an  *)
(* author before a date, the posts before it.  For the replies to a post,  *)
(* block is the post, or the reply, that is replied to, and q.start the    *)
(* post.                                                                   *)
(***************************************************************************)
EXTENDS Paging

\* What the node lists (external): posts in an order that it knows, those of an account, and
\* the replies below a post, none before the one it replies to.
Ranked(sort) ==
    {x \in Onward : CASE sort = "payout_comments" -> x \in chosen
                      [] sort = "payout" -> x \notin chosen
                      [] OTHER -> TRUE}
PostsOf(sort, account) == IF account THEN Ranked(sort) ELSE {}
Discussion(post) ==
    IF post \notin list THEN {}
    ELSE {x \in list : \A S \in SUBSET list :
                           post \in S /\ (\A y \in list : block[y] \in S => y \in S) => x \in S}

\* The limit of a query: the most entries of a page.
QueryLimit == IF q.batch = 0 THEN Least(q.limit, Page) ELSE q.batch
Limited(posts) == Lowest(posts, QueryLimit)

Discussions_by_trending == Limited(Ranked("trending"))
Comment_discussions_by_payout == Limited(Ranked("payout_comments"))
Post_discussions_by_payout == Limited(Ranked("payout"))
Discussions_by_created == Limited(Ranked("created"))
Discussions_by_active == Limited(Ranked("active"))
Discussions_by_cashout == Limited(Ranked("payout"))
Discussions_by_votes == Limited(Ranked("trending"))
Discussions_by_children == Limited(Ranked("trending"))
Discussions_by_hot == Limited(Ranked("hot"))
Discussions_by_promoted == Limited(Ranked("promoted"))
Discussions_by_feed == Limited(PostsOf("feed", q.own))
Discussions_by_blog == Limited(PostsOf("blog", q.own))

\* The date is looked at when the page is there.
Discussions_by_author_before_date ==
    Limited(PostsOf("posts", TRUE)) \cap chosen

Discussions_by_comments == Limited(Discussion(h.cursor))

Discussions_by_replies == Limited(Discussion(h.cursor) \ {h.cursor})

\* The tag to start from is not passed on.
Trending_tags == Limited(list)

NextPage ==
    CASE q.kind = "trending" -> Discussions_by_trending
      [] q.kind = "author_before_date" -> Discussions_by_author_before_date
      [] q.kind = "payout" -> Comment_discussions_by_payout
      [] q.kind = "post_payout" -> Post_discussions_by_payout
      [] q.kind = "created" -> Discussions_by_created
      [] q.kind = "active" -> Discussions_by_active
      [] q.kind = "cashout" -> Discussions_by_cashout
      [] q.kind = "votes" -> Discussions_by_votes
      [] q.kind = "children" -> Discussions_by_children
      [] q.kind = "hot" -> Discussions_by_hot
      [] q.kind = "feed" -> Discussions_by_feed
      [] q.kind = "blog" -> Discussions_by_blog
      [] q.kind = "comments" -> Discussions_by_comments
      [] q.kind = "promoted" -> Discussions_by_promoted
      [] q.kind = "replies" -> Discussions_by_replies
      [] q.kind = "tags" -> Trending_tags

\* The rest of get_discussions: the entry that was returned last is known by its name.
Yield(page) ==
    LET double == out # <<>> /\ page # {} /\ Bottom(page) = h.cursor
        new == IF double THEN AfterFirst(page) ELSE page
    IN IF page = {} THEN Done /\ Return({})
       ELSE /\ Return(Lowest(new, Left))
            /\ GoOn(Cardinality(new) < Left /\ ~(double /\ Cardinality(page) = 1), Top(page), h.size)

\* A request that fails ends the reading, but not that for tags.  (A request for the posts
\* of an author names the post to start from, and not its author, and may fail for that.)
RequestFails == IF q.kind = "tags" THEN Yield({}) ELSE Failed /\ Return({})

ReadDiscussions ==
    /\ q.reader = "discussions" /\ At("pages")
    /\ UNCHANGED <<q, world>>
    /\ Yield(NextPage) \/ RequestFails
================================================================================
