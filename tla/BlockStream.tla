----------------------------- MODULE BlockStream -----------------------------
(***************************************************************************)
(* Blockchain.blocks (nectar/blockchain/client.py): the generator that     *)
(* yields the blocks of the chain one after the other, up to a last block  *)
(* or for ever, fetching them one by one, in chunks on several threads or  *)
(* in ranges.                                                              *)
(*                                                                         *)
(* The chain grows while the generator runs, and every request may be      *)
(* answered by another node, which may be behind the chain.  After the     *)
(* first round all blocks are fetched one by one, by                       *)
(* wait_for_and_get_block.                                                 *)
(***************************************************************************)
EXTENDS Integers, Sequences, FiniteSetsExt, SequencesExt

CONSTANTS
    Modes,      \* the ways to fetch that are tried: see FetchModes
    Starts,     \* values of the argument start, 0 for None
    Stops,      \* values of the argument stop, 0 for None
    ThreadNum,  \* thread_num
    BatchSize,  \* max_batch_size
    WaitRep,    \* max_block_wait_repetition
    FirstHead,  \* the chain's head at the beginning
    MaxHead,    \* bound on the chain's head
    MaxLag,     \* how many blocks a node may be behind the chain
    MaxRounds   \* rounds after which the consumer takes no more blocks

FetchModes == {"threads", "batch", "single"}

ASSUME StreamAssumption ==
    /\ Modes \subseteq FetchModes
    /\ Starts \subseteq Nat /\ Stops \subseteq Nat
    /\ {ThreadNum, BatchSize, FirstHead} \subseteq Nat \ {0}
    /\ {WaitRep, MaxHead, MaxLag, MaxRounds} \subseteq Nat
    /\ FirstHead <= MaxHead

VARIABLES
    chain,    \* number of the chain's last block
    mode, stop,
    pc,       \* where the generator is
    first,    \* the block it was asked to begin with
    start,    \* the local start: first block of the round
    head,     \* head_block: last block of the round
    next,     \* blocknum: the next block to fetch
    got,      \* blocks of the chunk fetched so far
    wait,     \* of wait_for_and_get_block: repetition and its limit
    reached,  \* head_block_reached
    rounds,   \* number of rounds begun
    out,      \* the blocks yielded
    seen      \* history: a poll was below the blocks already passed ("back"), a range
              \* came back short ("short"), a node was behind ("late")

vars == <<chain, mode, stop, pc, first, start, head, next, got, wait, reached,
          rounds, out, seen>>

args == <<mode, stop, first>>

-----------------------------------------------------------------------------

\* The heads of the nodes that may answer a request, in their own view.
Views == {v \in (chain - MaxLag)..chain : v >= 1}

When(what, happens) == IF happens THEN {what} ELSE {}
Late(view) == seen \cup When("late", view < chain)

\* The blocks a..b, in order.
Blocks(a, b) == [i \in 1..(IF b < a THEN 0 ELSE b - a + 1) |-> a + i - 1]

ChunkEnd == Min({next + ThreadNum - 1, head})
Chunk == next..ChunkEnd

NoWait == [repetition |-> 0, limit |-> 0]

Init ==
    /\ chain = FirstHead
    /\ mode \in Modes /\ stop \in Stops /\ first \in Starts
    /\ pc = "open"
    /\ start = 0 /\ head = 0 /\ next = 0
    /\ got = {} /\ wait = NoWait
    /\ reached = FALSE /\ rounds = 0
    /\ out = <<>>
    /\ seen = {}

Grow ==
    /\ chain < MaxHead
    /\ chain' = chain + 1
    /\ UNCHANGED <<args, pc, start, head, next, got, wait, reached, rounds, out, seen>>

\* get_current_block: the head is polled and its block fetched, each from any node.
Open ==
    /\ pc = "open"
    /\ \E poll \in Views, view \in Views :
         /\ seen' = Late(poll) \cup Late(view)
         /\ IF view < poll
            THEN pc' = "failed" /\ UNCHANGED <<first, start>>
            ELSE /\ pc' = "round"
                 /\ first' = IF first = 0 THEN poll ELSE first
                 /\ start' = first'
    /\ UNCHANGED <<chain, mode, stop, head, next, got, wait, reached, rounds, out>>

\* How the blocks of a round are fetched.
Fetching(h) ==
    CASE mode = "threads" /\ ~reached -> "chunk"
      [] mode = "batch" /\ ~reached /\ h - start >= BatchSize -> "range"
      [] OTHER -> "single"

\* The top of the loop: the last block of the round is stop, or the head polled.
Round ==
    /\ pc = "round" /\ rounds < MaxRounds
    /\ rounds' = rounds + 1
    /\ next' = start
    /\ \E poll \in Views :
         /\ head' = IF stop # 0 THEN stop ELSE poll
         /\ seen' = IF stop # 0 THEN seen
                    ELSE Late(poll) \cup When("back", poll < start - 1)
    /\ pc' = Fetching(head')
    /\ UNCHANGED <<chain, args, start, got, wait, reached, out>>

\* Mutant: the next round begins with the last block of this one.
RoundEndsAtHead ==
    /\ pc \in {"chunk", "range", "single"} /\ next > head
    /\ start' = head
    /\ reached' = TRUE
    /\ pc' = IF stop # 0 THEN "returned" ELSE "round"
    /\ UNCHANGED <<chain, args, head, next, got, wait, rounds, out, seen>>

\* Mutant: the last block is compared with the wrong end of the round.
RoundEndsLate ==
    /\ pc \in {"chunk", "range", "single"} /\ next > head
    /\ start' = head + 1
    /\ reached' = TRUE
    /\ pc' = IF stop # 0 /\ head > stop THEN "returned" ELSE "round"
    /\ UNCHANGED <<chain, args, head, next, got, wait, rounds, out, seen>>

\* The bottom of the loop.
RoundEnds ==
    /\ pc \in {"chunk", "range", "single"} /\ next > head
    /\ start' = head + 1
    /\ reached' = TRUE
    /\ pc' = IF stop # 0 /\ start' > stop THEN "returned" ELSE "round"
    /\ UNCHANGED <<chain, args, head, next, got, wait, rounds, out, seen>>

-----------------------------------------------------------------------------
\* threading: chunks of thread_num blocks

\* One request on each thread.  If one raises, the results of all are dropped.
FetchChunk ==
    /\ pc = "chunk" /\ next <= head
    /\ \/ Max(Chunk) <= chain /\ got' = Chunk
       \/ got' = {}
    /\ pc' = "refill"
    /\ UNCHANGED <<chain, args, start, head, next, wait, reached, rounds, out, seen>>

\* One pass over the missing blocks: a request each, and its error is only logged.
Refill ==
    /\ pc = "refill" /\ got # Chunk
    /\ \E found \in SUBSET {b \in Chunk \ got : b <= chain} : got' = got \cup found
    /\ UNCHANGED <<chain, args, pc, start, head, next, wait, reached, rounds, out, seen>>

\* Mutant: what is missing of a chunk is not fetched again.
YieldChunkAtOnce ==
    /\ pc = "refill"
    /\ out' = out \o SetToSortSeq(got, <)
    /\ next' = next + ThreadNum
    /\ got' = {} /\ pc' = "chunk"
    /\ UNCHANGED <<chain, args, start, head, wait, reached, rounds, seen>>

\* The chunk is complete; its blocks are yielded sorted by their number.
YieldChunk ==
    /\ pc = "refill" /\ got = Chunk
    /\ out' = out \o Blocks(next, ChunkEnd)
    /\ next' = next + ThreadNum
    /\ got' = {} /\ pc' = "chunk"
    /\ UNCHANGED <<chain, args, start, head, wait, reached, rounds, seen>>

-----------------------------------------------------------------------------
\* max_batch_size: ranges of blocks

\* Mutant: one range more is asked for when the last one was full.
FetchOneRangeMore ==
    /\ pc = "range" /\ next <= head + 1
    /\ \E view \in Views :
         LET last == Min({next + BatchSize - 1, head, view})
         IN /\ seen' = Late(view) \cup When("short", view < Min({next + BatchSize - 1, head}))
            /\ IF last < next THEN pc' = "failed" /\ UNCHANGED <<next, out>>
               ELSE /\ out' = out \o Blocks(next, last)
                    /\ next' = next + BatchSize
                    /\ UNCHANGED pc
    /\ UNCHANGED <<chain, args, start, head, got, wait, reached, rounds>>

\* get_block_range: the node answers with the blocks it has.  No block at all is
\* BatchedCallsNotSupported; some but not all of them is not noticed.
FetchRange ==
    /\ pc = "range" /\ next <= head
    /\ \E view \in Views :
         LET asked == Min({next + BatchSize - 1, head})
             last == Min({asked, view})
         IN /\ seen' = Late(view) \cup When("short", last < asked)
            /\ IF last < next THEN pc' = "failed" /\ UNCHANGED <<next, out>>
               ELSE /\ out' = out \o Blocks(next, last)
                    /\ next' = next + BatchSize
                    /\ UNCHANGED pc
    /\ UNCHANGED <<chain, args, start, head, got, wait, reached, rounds>>

-----------------------------------------------------------------------------
\* wait_for_and_get_block

\* The head is polled; it decides how long the wait may take.
Ask ==
    /\ pc = "single" /\ next <= head
    /\ \E poll \in Views :
         /\ seen' = Late(poll)
         /\ wait' = [repetition |-> 0, limit |-> Max({1, next - poll}) * WaitRep]
         /\ pc' = IF poll < next THEN "wait" ELSE "fetch"
    /\ UNCHANGED <<chain, args, start, head, next, got, reached, rounds, out>>

\* A repetition: sleep, poll, and give up when it was one too many, even if the
\* block has come.
WaitForBlock ==
    /\ pc = "wait"
    /\ \E poll \in Views :
         LET repetition == wait.repetition + 1
         IN /\ seen' = Late(poll)
            /\ pc' = IF repetition > wait.limit THEN "failed"
                     ELSE IF poll < next THEN "wait" ELSE "fetch"
            /\ wait' = [wait EXCEPT !.repetition = IF pc' = "fetch" THEN 0 ELSE repetition]
    /\ UNCHANGED <<chain, args, start, head, next, got, reached, rounds, out>>

\* Mutant: the block that could not be fetched is left out.
FetchOrSkip ==
    /\ pc = "fetch"
    /\ \E view \in Views :
         /\ seen' = Late(view)
         /\ out' = IF view >= next THEN Append(out, next) ELSE out
    /\ next' = next + 1 /\ pc' = "single"
    /\ UNCHANGED <<chain, args, start, head, got, wait, reached, rounds>>

\* The block is fetched and yielded; a node that does not have it yet is asked
\* again after a sleep, up to the same limit.
Fetch ==
    /\ pc = "fetch"
    /\ \E view \in Views :
         /\ seen' = Late(view)
         /\ IF view >= next
            THEN /\ out' = Append(out, next)
                 /\ next' = next + 1 /\ pc' = "single" /\ UNCHANGED wait
            ELSE /\ pc' = IF wait.repetition > wait.limit THEN "failed" ELSE "fetch"
                 /\ wait' = [wait EXCEPT !.repetition = @ + 1]
                 /\ UNCHANGED <<out, next>>
    /\ UNCHANGED <<chain, args, start, head, got, reached, rounds>>

-----------------------------------------------------------------------------

\* What the generator does, but for the passes over missing blocks.
Step ==
    \/ Open \/ Round \/ RoundEnds
    \/ FetchChunk \/ YieldChunk
    \/ FetchRange
    \/ Ask \/ WaitForBlock \/ Fetch

Next == Step \/ Refill \/ Grow

Spec == Init /\ [][Next]_vars

-----------------------------------------------------------------------------

\* Every variable has its type, the results of a chunk are gone when it is done, and
\* no wait is more than one repetition over its limit.
TypeOK ==
    /\ chain \in 1..MaxHead
    /\ mode \in Modes /\ stop \in Stops /\ first \in Starts \cup 1..MaxHead
    /\ pc \in {"open", "round", "chunk", "refill", "range", "single", "wait", "fetch",
               "returned", "failed"}
    /\ {start, head, next} \subseteq Nat
    /\ got # {} => pc = "refill" /\ got \subseteq Chunk
    /\ wait \in [repetition : Nat, limit : Nat] /\ wait.repetition <= wait.limit + 2
    /\ reached \in BOOLEAN /\ rounds \in 0..MaxRounds
    /\ out \in Seq(1..MaxHead)
    /\ seen \subseteq {"back", "short", "late"}

\* The block that goes before the i-th block yielded.
Before(i) == IF i = 1 THEN first - 1 ELSE out[i - 1]

\* No block is left out, whichever way the blocks are fetched, in whatever order the
\* threads answer and whichever nodes are behind: unless a range came back short.
NoGap == "short" \notin seen => \A i \in DOMAIN out : out[i] <= Before(i) + 1

\* No block is yielded twice or after a later one, and none before the block that was
\* asked for, unless the head polled was below the blocks already passed.
NoReplay == "back" \notin seen => \A i \in DOMAIN out : out[i] > Before(i)

\* A stream with a last block that comes to its end has come to that block.
ReachesStop ==
    pc = "returned" /\ "short" \notin seen => stop < first \/ (out # <<>> /\ Last(out) = stop)

\* A stream that follows the chain ends in an error only after a node was behind.
FollowsSteadyNodes == pc = "failed" /\ stop = 0 => "late" \in seen

\* A stream with a last block comes to an end, by that block or by an error, even
\* when it was started before the block existed.
Ends == stop # 0 /\ pc = "round" ~> pc \in {"returned", "failed"}
=============================================================================
