------------------------------- MODULE BlockDate -------------------------------
(***************************************************************************)
(* Blockchain.get_estimated_block_num (blockchain/client.py): the number   *)
(* of the block of a date, from the head or from an early block and the    *)
(* block interval, and then by going from block to block.  A witness may   *)
(* miss its slot, so that two blocks are several intervals apart.          *)
(*                                                                         *)
(* list are the blocks, block is their time in seconds, and the query's    *)
(* start is the date; q.inclusive says whether to be accurate.             *)
(***************************************************************************)
EXTENDS Reading

BlockInterval == 3
EarlyBlock == 10     \* from which to count forwards

\* The last two differences count as 10 seconds at first.
NoDate == [pc |-> "guess", number |-> 0, diff |-> 10, last |-> 10]

Found(number) == out' = <<number>> /\ Done

Intervals(seconds) == seconds \div BlockInterval

FirstGuess ==
    /\ At("guess")
    /\ LET reference == IF q.mode = "forwards" THEN EarlyBlock ELSE Top(list)
           number == Greatest(reference + Intervals(q.start - block[reference]), 1)
       IN IF q.inclusive
          THEN h' = [h EXCEPT !.pc = "header", !.number = Least(number, Top(list))] /\ UNCHANGED out
          ELSE Found(number)
    /\ UNCHANGED <<q, world>>

\* At least one block forwards, if forwards.
StepTo(diff) == IF diff > 0 THEN Greatest(Intervals(diff), 1) ELSE Intervals(diff)

\* The block's header is read.  The search goes to and fro between two blocks, has come
\* near the date, or leaves the chain; the last step is taken all the same.
NextGuess ==
    /\ At("header")
    /\ LET diff == q.start - block[h.number]
           next == h.number + StepTo(diff)
       IN IF diff = h.last /\ diff < 10 THEN Found(h.number)
          ELSE IF next \notin list \/ diff \in -BlockInterval..BlockInterval THEN Found(next)
          ELSE h' = [h EXCEPT !.number = next, !.diff = diff, !.last = h.diff] /\ UNCHANGED out
    /\ UNCHANGED <<q, world>>

ReadDates == q.reader = "date" /\ (FirstGuess \/ NextGuess)
================================================================================
