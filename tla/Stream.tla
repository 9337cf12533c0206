--------------------------------- MODULE Stream --------------------------------
(***************************************************************************)
(* The generator of blocks and, where there are no futures, the pool of    *)
(* workers that fetches a chunk for it.  The generator sees a batch of the *)
(* pool as one step, which is what the pool promises (Batches); the blocks *)
(* whose tasks raised are missing and fetched again.  So the two are       *)
(* looked at side by side: one does not move while the other does.         *)
(***************************************************************************)
EXTENDS BlockStream, WorkerPool

VARIABLE futures     \* whether there are futures: the generator; or the pool

streamVars == <<futures, vars, poolVars>>

StreamInit == futures \in BOOLEAN /\ Init /\ PoolInit

Generator(step) == futures /\ step /\ UNCHANGED <<futures, poolVars>>
PoolStep(step) == ~futures /\ step /\ UNCHANGED <<futures, vars>>

StreamNext == Generator(Next) \/ PoolStep(PoolNext)

\* The chain grows, the generator goes on, and a pass over missing blocks that exist finds
\* one of them some time: no node is behind or out of reach for ever.  The caller of the
\* pool and its threads run.
StreamSpec ==
    /\ StreamInit /\ [][StreamNext]_streamVars
    /\ WF_streamVars(Generator(Grow))
    /\ WF_streamVars(Generator(Step))
    /\ WF_streamVars(Generator(Refill /\ got' # got))
    /\ WF_streamVars(PoolStep(Caller))
    /\ \A w \in Workers : WF_streamVars(PoolStep(Worker(w)))
================================================================================
