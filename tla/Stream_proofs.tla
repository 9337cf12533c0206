----------------------------- MODULE Stream_proofs -----------------------------
(***************************************************************************)
(* Proofs about the stream of blocks: the generator, the pool of workers   *)
(* that fetches a chunk for it, and the two side by side.                  *)
(***************************************************************************)
EXTENDS Stream, SequenceTheorems, FiniteSetTheorems, TLAPS

-----------------------------------------------------------------------------
(***************************************************************************)
(* Proofs about BlockStream, for every way to fetch, chunk size, length of *)
(* the chain and lag of the nodes.  The invariant relates the last block   *)
(* that was yielded to the next block to be fetched and to the end of the  *)
(* round.                                                                  *)
(***************************************************************************)

\* The last block that was yielded; before the first, the one that goes before it.
Tip == IF out = <<>> THEN first - 1 ELSE out[Len(out)]

InRound == pc \in {"chunk", "refill", "range", "single", "wait", "fetch"}

\* Where the generator is, its variables are in the round, and the round is on the chain or
\* ends at stop.
Positions ==
    /\ pc = "open" => out = <<>>
    /\ pc = "round" \/ InRound => first >= 1 /\ start >= 1
    /\ InRound => next >= 1 /\ (IF stop = 0 THEN head <= chain ELSE head = stop)
    /\ pc \in {"refill", "wait", "fetch"} => next <= head
    /\ got \subseteq 1..chain

\* A wait is within its limit, and one for a block of the chain is due to a node behind it.
WaitIsLimited ==
    /\ pc = "wait" => wait.repetition <= wait.limit /\ (stop = 0 => "late" \in seen)
    /\ pc = "fetch" => wait.repetition <= wait.limit + 1

\* Everything up to the next block has been yielded, and nothing else.
Passed ==
    /\ pc = "round" => /\ "short" \notin seen => Tip >= start - 1
                       /\ "back" \notin seen => Tip <= start - 1
                       /\ stop # 0 => out = <<>>
    /\ InRound => /\ "short" \notin seen => Tip >= next - 1 \/ Tip >= head
                  /\ "back" \notin seen => Tip <= next - 1 /\ (stop = 0 => Tip <= head)
                  /\ stop # 0 => out = <<>> \/ Tip <= stop

StreamInv ==
    /\ TypeOK /\ Positions /\ WaitIsLimited /\ Passed
    /\ NoGap /\ NoReplay /\ ReachesStop /\ FollowsSteadyNodes

-----------------------------------------------------------------------------

LEMMA MinOfTwo ==
    ASSUME NEW a \in Int, NEW b \in Int
    PROVE  Min({a, b}) \in {a, b} /\ Min({a, b}) <= a /\ Min({a, b}) <= b
<1>1. \E x \in {a, b} : \A y \in {a, b} : x =< y
  OBVIOUS
<1> QED
  BY <1>1 DEF Min

LEMMA MaxOfTwo ==
    ASSUME NEW a \in Int, NEW b \in Int
    PROVE  Max({a, b}) \in {a, b} /\ Max({a, b}) >= a /\ Max({a, b}) >= b
<1>1. \E x \in {a, b} : \A y \in {a, b} : x >= y
  OBVIOUS
<1> QED
  BY <1>1 DEF Max

LEMMA GeneratorInit == Init => StreamInv
<1> SUFFICES ASSUME Init PROVE StreamInv
  OBVIOUS
<1> USE StreamAssumption DEF Init
<1>1. TypeOK
  <2>1. chain \in 1..MaxHead /\ {start, head, next} \subseteq Nat /\ rounds \in 0..MaxRounds
    OBVIOUS
  <2>2. wait \in [repetition : Nat, limit : Nat] /\ wait.repetition <= wait.limit + 2
    BY DEF NoWait
  <2>3. out \in Seq(1..MaxHead) /\ seen \subseteq {"back", "short", "late"}
    OBVIOUS
  <2> QED
    BY <2>1, <2>2, <2>3 DEF TypeOK
<1>2. Positions /\ WaitIsLimited /\ Passed
  BY DEF Positions, WaitIsLimited, Passed, InRound
<1>3. NoGap /\ NoReplay /\ ReachesStop /\ FollowsSteadyNodes
  BY DEF NoGap, NoReplay, ReachesStop, FollowsSteadyNodes
<1> QED
  BY <1>1, <1>2, <1>3 DEF StreamInv

\* Blocks that follow the tip are appended.
LEMMA AppendedBlocks ==
    ASSUME TypeOK, NEW a \in 1..MaxHead, NEW b \in 1..MaxHead, a <= b,
           out' = out \o Blocks(a, b), first' = first
    PROVE  /\ out' \in Seq(1..MaxHead) /\ out' # <<>> /\ Tip' = b /\ Last(out)' = b
           /\ NoGap /\ a <= Tip + 1 /\ ("short" \in seen => "short" \in seen') => NoGap'
           /\ NoReplay /\ a > Tip /\ ("back" \in seen => "back" \in seen') => NoReplay'
<1>1. PICK n \in Nat : n = Len(out)
  BY DEF TypeOK
<1>2. PICK k \in Nat \ {0} : k = b - a + 1
  OBVIOUS
<1>3. out \in Seq(1..MaxHead) /\ first \in Int /\ MaxHead \in Nat
  BY StreamAssumption DEF TypeOK
<1>4. /\ Blocks(a, b) \in Seq(1..MaxHead) /\ Len(Blocks(a, b)) = k
      /\ \A i \in 1..k : Blocks(a, b)[i] = a + i - 1
  <2>1. (IF b < a THEN 0 ELSE b - a + 1) = k
    BY <1>2
  <2>2. Blocks(a, b) = [i \in 1..k |-> a + i - 1]
    BY <2>1 DEF Blocks
  <2>3. \A i \in 1..k : a + i - 1 \in 1..MaxHead
    BY <1>2, <1>3
  <2> QED
    BY <2>2, <2>3
<1>5. /\ out' \in Seq(1..MaxHead) /\ Len(out') = n + k
      /\ \A i \in 1..n : out'[i] = out[i]
      /\ \A i \in (n + 1)..(n + k) : out'[i] = a + (i - n) - 1
  <2>1. /\ out' \in Seq(1..MaxHead) /\ Len(out') = n + k
        /\ \A i \in 1..(n + k) : out'[i] = IF i <= n THEN out[i] ELSE Blocks(a, b)[i - n]
    BY <1>1, <1>3, <1>4, ConcatProperties
  <2>2. \A i \in (n + 1)..(n + k) : i \in 1..(n + k) /\ i - n \in 1..k /\ ~(i <= n)
    OBVIOUS
  <2> QED
    BY <1>4, <2>1, <2>2
<1>6. out' # <<>> /\ out'[Len(out')] = b
  <2>1. n + k \in (n + 1)..(n + k) /\ n + k # 0
    OBVIOUS
  <2>2. out'[n + k] = a + ((n + k) - n) - 1
    BY <1>5, <2>1
  <2>3. a + ((n + k) - n) - 1 = b
    BY <1>2
  <2> QED
    BY <1>5, <2>1, <2>2, <2>3
<1>7. Tip' = b /\ Last(out)' = b
  BY <1>6 DEF Tip, Last
<1>8. /\ DOMAIN out = 1..n /\ DOMAIN out' = 1..(n + k)
      /\ \A i \in 1..n : out[i] \in Int
  BY <1>1, <1>3, <1>5
<1>9. \A i \in 1..n : Before(i) \in Int /\ Before(i)' = Before(i)
  BY <1>3, <1>5, <1>8 DEF Before
<1>10. Tip \in Int /\ Before(n + 1)' = Tip
  <2>1. CASE n = 0
    <3>0. out # <<>> => Len(out) \in Nat \ {0}
      BY <1>3, EmptySeq
    <3>1. n + 1 = 1 /\ out = <<>> /\ first' = first
      BY <1>1, <2>1, <3>0
    <3>2. Before(1)' = first - 1
      BY <3>1 DEF Before
    <3> QED
      BY <1>3, <3>1, <3>2 DEF Tip
  <2>2. CASE n > 0
    <3>1. out # <<>> /\ n + 1 # 1 /\ n + 1 - 1 = n /\ n \in 1..n
      BY <1>1, <2>2
    <3> QED
      BY <1>1, <1>5, <1>8, <3>1 DEF Before, Tip
  <2> QED
    BY <2>1, <2>2
<1>11. \A i \in (n + 2)..(n + k) : Before(i)' = a + (i - n) - 2
  <2>1. SUFFICES ASSUME NEW i \in (n + 2)..(n + k) PROVE Before(i)' = a + (i - n) - 2
    OBVIOUS
  <2>2. i # 1 /\ i - 1 \in (n + 1)..(n + k)
    BY <2>1
  <2>3. Before(i)' = out'[i - 1]
    BY <2>2 DEF Before
  <2>4. out'[i - 1] = a + ((i - 1) - n) - 1
    BY <1>5, <2>2
  <2>5. a + ((i - 1) - n) - 1 = a + (i - n) - 2
    BY <2>1
  <2> QED
    BY <2>3, <2>4, <2>5
<1>12. ASSUME NEW i \in 1..(n + k)
       PROVE  \/ i \in 1..n /\ out'[i] = out[i] /\ Before(i)' = Before(i)
              \/ out'[i] = a /\ Before(i)' = Tip
              \/ out'[i] = Before(i)' + 1 /\ Before(i)' \in Int
  <2>0. i \in 1..n \/ i = n + 1 \/ i \in (n + 2)..(n + k)
    OBVIOUS
  <2>1. CASE i \in 1..n
    BY <1>5, <1>9, <2>1
  <2>2. CASE i = n + 1
    BY <1>5, <1>10, <2>2
  <2>3. CASE i \in (n + 2)..(n + k)
    BY <1>5, <1>11, <2>3
  <2> QED
    BY <2>0, <2>1, <2>2, <2>3
<1>13. NoGap /\ a <= Tip + 1 /\ ("short" \in seen => "short" \in seen') => NoGap'
  <2>1. SUFFICES ASSUME NoGap, a <= Tip + 1, "short" \notin seen, NEW i \in 1..(n + k)
                 PROVE  out'[i] <= Before(i)' + 1
    BY <1>8 DEF NoGap
  <2>2. CASE i \in 1..n /\ out'[i] = out[i] /\ Before(i)' = Before(i)
    BY <1>8, <2>1, <2>2 DEF NoGap
  <2>3. CASE out'[i] = a /\ Before(i)' = Tip
    BY <2>1, <2>3
  <2>4. CASE out'[i] = Before(i)' + 1 /\ Before(i)' \in Int
    BY <2>4
  <2> QED
    BY <1>12, <2>2, <2>3, <2>4
<1>14. NoReplay /\ a > Tip /\ ("back" \in seen => "back" \in seen') => NoReplay'
  <2>1. SUFFICES ASSUME NoReplay, a > Tip, "back" \notin seen, NEW i \in 1..(n + k)
                 PROVE  out'[i] > Before(i)'
    BY <1>8 DEF NoReplay
  <2>2. CASE i \in 1..n /\ out'[i] = out[i] /\ Before(i)' = Before(i)
    BY <1>8, <2>1, <2>2 DEF NoReplay
  <2>3. CASE out'[i] = a /\ Before(i)' = Tip
    BY <2>1, <2>3
  <2>4. CASE out'[i] = Before(i)' + 1 /\ Before(i)' \in Int
    BY <2>4
  <2> QED
    BY <1>12, <2>2, <2>3, <2>4
<1> QED
  BY <1>5, <1>6, <1>7, <1>13, <1>14

\* What is known of the variables, for arithmetic.
LEMMA Ranges ==
    ASSUME StreamInv
    PROVE  /\ {chain, stop, first, start, head, next} \subseteq Nat
           /\ MaxHead \in Nat /\ ThreadNum \in Nat \ {0} /\ BatchSize \in Nat \ {0}
           /\ chain \in 1..MaxHead /\ Views \subseteq 1..chain
           /\ seen \subseteq {"back", "short", "late"}
           /\ wait.repetition \in Nat /\ wait.limit \in Nat /\ Tip \in Int
<1>1. /\ {chain, stop, first, start, head, next} \subseteq Nat
      /\ MaxHead \in Nat /\ ThreadNum \in Nat \ {0} /\ BatchSize \in Nat \ {0}
      /\ chain \in 1..MaxHead /\ out \in Seq(1..MaxHead)
      /\ seen \subseteq {"back", "short", "late"}
      /\ wait.repetition \in Nat /\ wait.limit \in Nat
  BY SMTT(30), StreamAssumption DEF StreamInv, TypeOK
<1>2. Views \subseteq 1..chain
  BY <1>1, StreamAssumption DEF Views
<1>3. Tip \in Int
  <2>1. out # <<>> => Len(out) \in 1..Len(out)
    BY <1>1, EmptySeq
  <2>2. out # <<>> => out[Len(out)] \in 1..MaxHead
    BY <1>1, <2>1, ElementOfSeq
  <2> QED
    BY <1>1, <2>2 DEF Tip
<1> QED
  BY <1>1, <1>2, <1>3

\* The blocks yielded, and what was seen to go wrong with them, stay as they are.
LEMMA SameOutput ==
    ASSUME StreamInv, UNCHANGED <<first, out>>, "short" \in seen => "short" \in seen', "back" \in seen => "back" \in seen'
    PROVE  NoGap' /\ NoReplay' /\ Tip' = Tip
BY DEF StreamInv, NoGap, NoReplay, Before, Tip

LEMMA GrowInv == ASSUME StreamInv, Grow PROVE StreamInv'
<1>1. /\ chain' = chain + 1 /\ chain < MaxHead
      /\ UNCHANGED <<args, pc, start, head, next, got, wait, reached, rounds, out, seen>>
  BY DEF Grow
<1>2. {chain, head} \subseteq Nat /\ MaxHead \in Nat /\ chain' \in 1..MaxHead
  BY <1>1, Ranges
<1>3. TypeOK'
  BY <1>1, <1>2 DEF StreamInv, TypeOK, args, Chunk, ChunkEnd
<1>4. Positions'
  <2>1. got \subseteq 1..chain' /\ (head <= chain => head <= chain')
    BY <1>1, <1>2 DEF StreamInv, Positions
  <2> QED
    BY <1>1, <2>1 DEF StreamInv, Positions, InRound, args
<1>5. WaitIsLimited' /\ Passed' /\ NoGap' /\ NoReplay' /\ ReachesStop' /\ FollowsSteadyNodes'
  BY <1>1, SameOutput DEF StreamInv, WaitIsLimited, Passed, InRound, ReachesStop, FollowsSteadyNodes, args
<1> QED
  BY <1>3, <1>4, <1>5 DEF StreamInv

LEMMA OpenInv == ASSUME StreamInv, Open PROVE StreamInv'
<1>1. PICK poll \in Views, view \in Views :
        /\ seen' = Late(poll) \cup Late(view)
        /\ IF view < poll
           THEN pc' = "failed" /\ UNCHANGED <<first, start>>
           ELSE /\ pc' = "round"
                /\ first' = IF first = 0 THEN poll ELSE first
                /\ start' = first'
  BY DEF Open
<1>2. /\ pc = "open" /\ out = <<>>
      /\ UNCHANGED <<chain, mode, stop, head, next, got, wait, reached, rounds, out>>
  BY DEF Open, StreamInv, Positions
<1>3. /\ poll \in 1..chain /\ view \in 1..chain /\ chain \in 1..MaxHead /\ MaxHead \in Nat
      /\ {first, start} \subseteq Nat /\ seen \subseteq {"back", "short", "late"}
  BY Ranges
<1>4. /\ seen' \subseteq {"back", "short", "late"}
      /\ view < poll => "late" \in seen'
  BY <1>1, <1>3 DEF Late, When
<1>5. /\ first' \in Starts \cup 1..MaxHead /\ start' \in Nat
      /\ pc' = "round" => first' >= 1 /\ start' = first'
      /\ pc' \in {"round", "failed"} /\ (pc' = "failed" => view < poll)
  <2>1. first \in Starts \cup 1..MaxHead
    BY DEF StreamInv, TypeOK
  <2>2. CASE view < poll
    BY <1>1, <1>3, <2>1, <2>2
  <2>3. CASE ~(view < poll)
    <3>1. poll \in 1..MaxHead /\ poll >= 1
      BY <1>3
    <3> QED
      BY <1>1, <1>3, <2>1, <2>3, <3>1
  <2> QED
    BY <2>2, <2>3
<1>6. TypeOK'
  BY <1>2, <1>4, <1>5 DEF StreamInv, TypeOK, Chunk, ChunkEnd
<1>7. Positions' /\ WaitIsLimited'
  BY <1>2, <1>5 DEF StreamInv, Positions, WaitIsLimited, InRound
<1>8. Passed'
  <2>1. first' \in Nat /\ Tip' = first' - 1 /\ out' = <<>>
    BY <1>2, <1>3, <1>5, StreamAssumption DEF Tip
  <2>2. pc' = "round" => Tip' = start' - 1 /\ start' \in Nat
    BY <1>5, <2>1
  <2>3. pc' \in {"round", "failed"}
    BY <1>5
  <2> QED
    BY <2>1, <2>2, <2>3 DEF Passed, InRound
<1>9. NoGap' /\ NoReplay' /\ ReachesStop' /\ FollowsSteadyNodes'
  BY <1>2, <1>4, <1>5 DEF NoGap, NoReplay, ReachesStop, FollowsSteadyNodes
<1> QED
  BY <1>6, <1>7, <1>8, <1>9 DEF StreamInv

LEMMA RoundInv == ASSUME StreamInv, Round PROVE StreamInv'
<1>1. PICK poll \in Views :
        /\ head' = IF stop # 0 THEN stop ELSE poll
        /\ seen' = IF stop # 0 THEN seen
                   ELSE Late(poll) \cup When("back", poll < start - 1)
  BY DEF Round
<1>2. /\ pc = "round" /\ rounds' = rounds + 1 /\ rounds < MaxRounds /\ next' = start
      /\ pc' \in {"chunk", "range", "single"}
      /\ UNCHANGED <<chain, args, start, got, wait, reached, out>>
  BY DEF Round, Fetching
<1>3. /\ {chain, stop, first, start, head, next} \subseteq Nat /\ Tip \in Int
      /\ poll \in 1..chain /\ seen \subseteq {"back", "short", "late"}
  BY Ranges
<1>4. /\ seen' \subseteq {"back", "short", "late"}
      /\ ("short" \in seen => "short" \in seen') /\ ("back" \in seen => "back" \in seen')
      /\ stop = 0 /\ "back" \notin seen' => poll >= start - 1
  BY <1>1, <1>3 DEF Late, When
<1>5. NoGap' /\ NoReplay' /\ Tip' = Tip
  BY <1>2, <1>4, SameOutput DEF args
<1>6. TypeOK'
  <2>1. {start', head', next'} \subseteq Nat /\ rounds' \in 0..MaxRounds /\ got = {}
    <3>1. rounds \in 0..MaxRounds /\ got = {} /\ MaxRounds \in Nat
      BY <1>2, StreamAssumption DEF StreamInv, TypeOK
    <3>2. {start', head', next'} \subseteq Nat
      BY <1>1, <1>2, <1>3
    <3> QED
      BY <1>2, <3>1, <3>2
  <2> QED
    BY <1>2, <1>4, <2>1 DEF StreamInv, TypeOK, args
<1>7. Positions' /\ WaitIsLimited'
  BY <1>1, <1>2, <1>3 DEF StreamInv, Positions, WaitIsLimited, InRound, args
<1>8. Passed'
  BY <1>1, <1>2, <1>3, <1>4, <1>5 DEF StreamInv, Passed, InRound, args
<1>9. ReachesStop' /\ FollowsSteadyNodes'
  BY <1>2 DEF ReachesStop, FollowsSteadyNodes
<1> QED
  BY <1>5, <1>6, <1>7, <1>8, <1>9 DEF StreamInv

\* The round ends with its last block yielded; at stop, that is the last of all.
LEMMA RoundEndsInv == ASSUME StreamInv, RoundEnds PROVE StreamInv'
<1>1. /\ pc \in {"chunk", "range", "single"} /\ next > head
      /\ start' = head + 1 /\ reached' = TRUE
      /\ pc' = IF stop # 0 /\ start' > stop THEN "returned" ELSE "round"
      /\ UNCHANGED <<chain, args, head, next, got, wait, rounds, out, seen>>
  BY DEF RoundEnds
<1>2. {chain, stop, first, start, head, next} \subseteq Nat /\ Tip \in Int
  BY Ranges
<1>3. /\ stop = 0 => head <= chain
      /\ stop # 0 => head = stop /\ pc' = "returned"
      /\ stop = 0 => pc' = "round"
      /\ first >= 1
  BY <1>1, <1>2 DEF StreamInv, Positions, InRound
<1>4. /\ "short" \notin seen => Tip >= head
      /\ "back" \notin seen /\ stop = 0 => Tip <= head
      /\ stop # 0 => out = <<>> \/ Tip <= stop
  BY <1>1, <1>2 DEF StreamInv, Passed, InRound
<1>5. NoGap' /\ NoReplay' /\ Tip' = Tip
  BY <1>1, SameOutput DEF args
<1>6. TypeOK'
  <2>1. start' \in Nat /\ got = {}
    BY <1>1, <1>2 DEF StreamInv, TypeOK
  <2> QED
    BY <1>1, <1>3, <2>1 DEF StreamInv, TypeOK, args
<1>7. Positions' /\ WaitIsLimited'
  <2>1. pc' \in {"returned", "round"} /\ start' >= 1
    BY <1>1, <1>2
  <2> QED
    BY <1>1, <1>3, <2>1 DEF StreamInv, Positions, WaitIsLimited, InRound, args
<1>8. Passed'
  <2>1. start' - 1 = head
    BY <1>1, <1>2
  <2> QED
    BY <1>1, <1>3, <1>4, <1>5, <2>1 DEF Passed, InRound, args
<1>9. ReachesStop'
  <2>1. SUFFICES ASSUME pc' = "returned", "short" \notin seen
                 PROVE  stop < first \/ (out # <<>> /\ Last(out) = stop)
    BY <1>1 DEF ReachesStop, args
  <2>2. stop # 0 /\ head = stop /\ Tip >= stop
    BY <1>3, <1>4, <2>1
  <2>3. CASE out = <<>>
    <3>1. Tip = first - 1
      BY <2>3 DEF Tip
    <3> QED
      BY <1>2, <2>2, <3>1
  <2>4. CASE out # <<>>
    <3>1. Tip = stop
      BY <1>2, <1>4, <2>2, <2>4
    <3> QED
      BY <2>4, <3>1 DEF Tip, Last
  <2> QED
    BY <2>3, <2>4
<1>10. FollowsSteadyNodes'
  BY <1>1 DEF FollowsSteadyNodes
<1> QED
  BY <1>5, <1>6, <1>7, <1>8, <1>9, <1>10 DEF StreamInv

LEMMA ChunkEnds == ASSUME StreamInv PROVE ChunkEnd \in Nat /\ ChunkEnd <= head /\ (next <= head => next <= ChunkEnd)
<1>1. next + ThreadNum - 1 \in Nat /\ head \in Nat /\ next \in Nat /\ ThreadNum \in Nat \ {0}
  BY Ranges
<1>2. /\ ChunkEnd \in {next + ThreadNum - 1, head}
      /\ ChunkEnd <= next + ThreadNum - 1 /\ ChunkEnd <= head
  BY <1>1, MinOfTwo DEF ChunkEnd
<1> QED
  BY <1>1, <1>2

\* Only blocks that the chain has are got, and only for this chunk.
LEMMA ChunkInv == ASSUME StreamInv, FetchChunk \/ Refill PROVE StreamInv'
<1>1. /\ pc \in {"chunk", "refill"} /\ pc' = "refill" /\ next <= head
      /\ UNCHANGED <<chain, args, start, head, next, wait, reached, rounds, out, seen>>
  BY DEF FetchChunk, Refill, StreamInv, Positions
<1>2. {chain, next, head, ChunkEnd} \subseteq Nat
  BY Ranges, ChunkEnds
<1>3. got' \subseteq Chunk /\ got' \subseteq 1..chain
  <2>1. next >= 1
    BY <1>1 DEF StreamInv, Positions, InRound
  <2>2. CASE got' = {}
    BY <2>2
  <2>3. CASE FetchChunk /\ Max(Chunk) <= chain /\ got' = Chunk
    <3>1. next <= ChunkEnd
      BY <1>1, ChunkEnds
    <3>2. \E x \in Chunk : \A y \in Chunk : x >= y
      BY <1>2, <3>1 DEF Chunk
    <3>3. Max(Chunk) \in Chunk /\ \A y \in Chunk : Max(Chunk) >= y
      BY <3>2 DEF Max
    <3> QED
      BY <1>2, <2>1, <2>3, <3>3 DEF Chunk
  <2>4. CASE Refill
    <3>1. PICK found \in SUBSET {b \in Chunk \ got : b <= chain} : got' = got \cup found
      BY <2>4 DEF Refill
    <3>2. found \subseteq 1..chain /\ found \subseteq Chunk
      BY <1>2, <2>1 DEF Chunk
    <3>3. got \subseteq 1..chain /\ got \subseteq Chunk
      BY DEF StreamInv, Positions, TypeOK
    <3> QED
      BY <3>1, <3>2, <3>3
  <2> QED
    BY <2>2, <2>3, <2>4 DEF FetchChunk
<1>4. TypeOK'
  BY <1>1, <1>3 DEF StreamInv, TypeOK, args, Chunk, ChunkEnd
<1>5. Positions' /\ WaitIsLimited'
  BY <1>1, <1>3 DEF StreamInv, Positions, WaitIsLimited, InRound, args
<1>6. NoGap' /\ NoReplay' /\ Tip' = Tip
  BY <1>1, SameOutput DEF args
<1>7. Passed'
  BY <1>1, <1>6 DEF StreamInv, Passed, InRound, args
<1>8. ReachesStop' /\ FollowsSteadyNodes'
  BY <1>1 DEF ReachesStop, FollowsSteadyNodes
<1> QED
  BY <1>4, <1>5, <1>6, <1>7, <1>8 DEF StreamInv

\* Blocks from the next one on are yielded, and the next one is moved past them.
LEMMA YieldedInv ==
    ASSUME StreamInv, InRound, next <= head, NEW last \in next..head, last <= chain,
           NEW size \in Nat \ {0}, next' = next + size,
           "short" \notin seen' => last >= next' - 1 \/ last >= head, last <= next' - 1,
           out' = out \o Blocks(next, last), got' = {},
           pc' \in {"chunk", "range", "single"},
           seen \subseteq seen', seen' \subseteq {"back", "short", "late"},
           "back" \in seen' => "back" \in seen,
           UNCHANGED <<chain, args, start, head, wait, reached, rounds>>
    PROVE  StreamInv'
<1>1. /\ {chain, stop, first, start, head, next} \subseteq Nat /\ Tip \in Int
      /\ chain \in 1..MaxHead /\ MaxHead \in Nat
  BY Ranges
<1>2. next >= 1 /\ (IF stop = 0 THEN head <= chain ELSE head = stop)
  BY DEF StreamInv, Positions
<1>3. next \in 1..MaxHead /\ last \in 1..MaxHead /\ next <= last
  BY <1>1, <1>2
<1>4. /\ out' \in Seq(1..MaxHead) /\ out' # <<>> /\ Tip' = last
      /\ NoGap /\ next <= Tip + 1 /\ ("short" \in seen => "short" \in seen') => NoGap'
      /\ NoReplay /\ next > Tip /\ ("back" \in seen => "back" \in seen') => NoReplay'
  BY <1>3, AppendedBlocks DEF StreamInv, args
<1>5. NoGap'
  <2>1. CASE "short" \in seen
    <3>1. "short" \in seen'
      BY <2>1
    <3> QED
      BY <3>1 DEF NoGap
  <2>2. CASE "short" \notin seen
    <3>1. next <= Tip + 1
      BY <1>1, <2>2 DEF StreamInv, Passed
    <3> QED
      BY <1>4, <2>2, <3>1 DEF StreamInv
  <2> QED
    BY <2>1, <2>2
<1>6. NoReplay'
  <2>1. CASE "back" \in seen
    <3>1. "back" \in seen'
      BY <2>1
    <3> QED
      BY <3>1 DEF NoReplay
  <2>2. CASE "back" \notin seen
    <3>1. next > Tip
      BY <1>1, <2>2 DEF StreamInv, Passed
    <3> QED
      BY <1>4, <2>2, <3>1 DEF StreamInv
  <2> QED
    BY <2>1, <2>2
<1>7. next' \in Nat /\ next' >= 1
  BY <1>1, <1>2
<1>8. TypeOK'
  BY <1>1, <1>4, <1>7 DEF StreamInv, TypeOK, args
<1>9. Positions' /\ WaitIsLimited'
  BY <1>2, <1>7 DEF StreamInv, Positions, WaitIsLimited, InRound, args
<1>10. Passed'
  <2>1. pc' # "round" /\ stop' = stop /\ head' = head /\ Tip' = last
    BY <1>4 DEF args
  <2>2. "short" \notin seen' => last >= next' - 1 \/ last >= head
    OBVIOUS
  <2>3. last <= next' - 1 /\ (stop = 0 => last <= head) /\ (stop # 0 => last <= stop)
    BY <1>1, <1>2, <1>3
  <2> QED
    BY <2>1, <2>2, <2>3 DEF Passed
<1>11. ReachesStop' /\ FollowsSteadyNodes'
  BY DEF ReachesStop, FollowsSteadyNodes
<1> QED
  BY <1>5, <1>6, <1>8, <1>9, <1>10, <1>11 DEF StreamInv

LEMMA YieldChunkInv == ASSUME StreamInv, YieldChunk PROVE StreamInv'
<1>1. /\ pc = "refill" /\ got = Chunk /\ out' = out \o Blocks(next, ChunkEnd)
      /\ next' = next + ThreadNum /\ got' = {} /\ pc' = "chunk"
      /\ UNCHANGED <<chain, args, start, head, wait, reached, rounds, seen>>
  BY DEF YieldChunk
<1>2. /\ {chain, next, head, ChunkEnd} \subseteq Nat /\ ThreadNum \in Nat \ {0}
      /\ seen \subseteq {"back", "short", "late"}
  BY Ranges, ChunkEnds
<1>3. next <= head /\ got \subseteq 1..chain /\ InRound
  BY <1>1 DEF StreamInv, Positions, InRound
<1>4. ChunkEnd \in next..head /\ ChunkEnd <= chain
  <2>1. next <= ChunkEnd /\ ChunkEnd <= head
    BY <1>3, ChunkEnds
  <2>2. ChunkEnd \in Chunk
    BY <1>2, <2>1 DEF Chunk
  <2> QED
    BY <1>1, <1>2, <1>3, <2>1, <2>2
<1>5. (ChunkEnd >= next' - 1 \/ ChunkEnd >= head) /\ ChunkEnd <= next' - 1
  <2>1. next + ThreadNum - 1 \in Int /\ next' - 1 = next + ThreadNum - 1
    BY <1>1, <1>2
  <2>2. ChunkEnd \in {next + ThreadNum - 1, head} /\ ChunkEnd <= next + ThreadNum - 1
    BY <1>2, <2>1, MinOfTwo DEF ChunkEnd
  <2> QED
    BY <1>2, <2>1, <2>2
<1> DEFINE last == ChunkEnd
<1>6. PICK n \in next..head : n = ChunkEnd
  BY <1>4
<1> HIDE DEF last
<1> QED
  BY <1>1, <1>2, <1>3, <1>4, <1>5, <1>6, YieldedInv

\* A range is yielded as far as the node has it.
LEMMA FetchRangeInv == ASSUME StreamInv, FetchRange PROVE StreamInv'
<1>1. PICK view \in Views :
        LET asked == Min({next + BatchSize - 1, head})
            last == Min({asked, view})
        IN /\ seen' = Late(view) \cup When("short", last < asked)
           /\ IF last < next THEN pc' = "failed" /\ UNCHANGED <<next, out>>
              ELSE /\ out' = out \o Blocks(next, last)
                   /\ next' = next + BatchSize
                   /\ UNCHANGED pc
  BY DEF FetchRange
<1>2. /\ pc = "range" /\ next <= head
      /\ UNCHANGED <<chain, args, start, head, got, wait, reached, rounds>>
  BY DEF FetchRange
<1>3. /\ {chain, next, head} \subseteq Nat /\ BatchSize \in Nat \ {0} /\ view \in 1..chain
      /\ seen \subseteq {"back", "short", "late"}
  BY Ranges
<1>4. PICK asked \in Nat : /\ asked = Min({next + BatchSize - 1, head})
                           /\ asked \in {next + BatchSize - 1, head}
                           /\ asked <= next + BatchSize - 1 /\ asked <= head /\ next <= asked
  <2>1. next + BatchSize - 1 \in Nat /\ next + BatchSize - 1 >= next
    BY <1>3
  <2>2. /\ Min({next + BatchSize - 1, head}) \in {next + BatchSize - 1, head}
        /\ Min({next + BatchSize - 1, head}) <= next + BatchSize - 1
        /\ Min({next + BatchSize - 1, head}) <= head
    BY <1>3, <2>1, MinOfTwo
  <2> QED
    BY <1>2, <1>3, <2>1, <2>2
<1>5. PICK last \in Nat : /\ last = Min({asked, view})
                          /\ last \in {asked, view} /\ last <= asked /\ last <= view
  <2>1. view \in Int /\ view \in Nat /\ asked \in Int
    BY <1>3
  <2>2. /\ Min({asked, view}) \in {asked, view}
        /\ Min({asked, view}) <= asked /\ Min({asked, view}) <= view
    BY <2>1, MinOfTwo
  <2> QED
    BY <1>4, <2>1, <2>2
<1>6. /\ seen' = Late(view) \cup When("short", last < asked)
      /\ IF last < next THEN pc' = "failed" /\ UNCHANGED <<next, out>>
         ELSE out' = out \o Blocks(next, last) /\ next' = next + BatchSize /\ UNCHANGED pc
  BY <1>1, <1>4, <1>5
<1>7. /\ seen \subseteq seen' /\ seen' \subseteq {"back", "short", "late"}
      /\ "back" \in seen' => "back" \in seen
      /\ view < chain => "late" \in seen'
      /\ "short" \notin seen' => last >= asked
  BY <1>3, <1>4, <1>5, <1>6 DEF Late, When
<1>8. CASE last < next
  <2>1. pc' = "failed" /\ UNCHANGED <<next, out>>
    BY <1>6, <1>8
  <2>2. stop = 0 => "late" \in seen'
    <3>1. view < next
      BY <1>3, <1>4, <1>5, <1>8
    <3>2. stop = 0 => head <= chain
      BY <1>2 DEF StreamInv, Positions, InRound
    <3> QED
      BY <1>2, <1>3, <1>7, <3>1, <3>2
  <2>3. NoGap' /\ NoReplay'
    BY <1>2, <1>7, <2>1, SameOutput DEF args
  <2>4. TypeOK'
    BY <1>2, <1>7, <2>1 DEF StreamInv, TypeOK, args
  <2>5. Positions' /\ WaitIsLimited' /\ Passed' /\ ReachesStop' /\ FollowsSteadyNodes'
    BY <1>2, <2>1, <2>2 DEF StreamInv, Positions, WaitIsLimited, Passed, InRound,
                            ReachesStop, FollowsSteadyNodes, args
  <2> QED
    BY <2>3, <2>4, <2>5 DEF StreamInv
<1>9. CASE ~(last < next)
  <2>1. out' = out \o Blocks(next, last) /\ next' = next + BatchSize /\ pc' = "range"
    BY <1>2, <1>6, <1>9
  <2>2. last \in next..head /\ last <= chain /\ last <= next' - 1
    BY <1>3, <1>4, <1>5, <1>9, <2>1
  <2>3. "short" \notin seen' => last >= next' - 1 \/ last >= head
    BY <1>3, <1>4, <1>7, <2>1
  <2>4. InRound /\ got' = {}
    BY <1>2 DEF StreamInv, TypeOK, InRound
  <2> QED
    BY <1>2, <1>3, <1>7, <2>1, <2>2, <2>3, <2>4, YieldedInv
<1> QED
  BY <1>8, <1>9

\* A block that is fetched is yielded; one that is not there yet is waited for.
LEMMA FetchInv == ASSUME StreamInv, Fetch PROVE StreamInv'
<1>1. PICK view \in Views :
         /\ seen' = Late(view)
         /\ IF view >= next
            THEN /\ out' = Append(out, next)
                 /\ next' = next + 1 /\ pc' = "single" /\ UNCHANGED wait
            ELSE /\ pc' = IF wait.repetition > wait.limit THEN "failed" ELSE "fetch"
                 /\ wait' = [wait EXCEPT !.repetition = @ + 1]
                 /\ UNCHANGED <<out, next>>
  BY DEF Fetch
<1>2. /\ pc = "fetch" /\ next <= head /\ InRound /\ got = {}
      /\ UNCHANGED <<chain, args, start, head, got, reached, rounds>>
  BY DEF Fetch, StreamInv, Positions, TypeOK, InRound
<1>3. /\ {chain, next, head} \subseteq Nat /\ view \in 1..chain
      /\ seen \subseteq {"back", "short", "late"} /\ out \in Seq(1..MaxHead)
      /\ wait.repetition \in Nat /\ wait.limit \in Nat
  BY Ranges DEF StreamInv, TypeOK
<1>4. /\ seen \subseteq seen' /\ seen' \subseteq {"back", "short", "late"}
      /\ "back" \in seen' => "back" \in seen
      /\ "short" \in seen' => "short" \in seen
      /\ view < chain => "late" \in seen'
  BY <1>1, <1>3 DEF Late, When
<1>5. CASE view >= next
  <2>1. out' = out \o Blocks(next, next)
    <3>1. Blocks(next, next) = <<next>>
      <4>1. (IF next < next THEN 0 ELSE next - next + 1) = 1
        BY <1>3
      <4>2. Blocks(next, next) = [i \in 1..1 |-> next + i - 1]
        BY <4>1 DEF Blocks
      <4>3. \A i \in 1..1 : next + i - 1 = next
        BY <1>3
      <4> QED
        BY <1>3, <4>2, <4>3
    <3> QED
      BY <1>1, <1>3, <1>5, <3>1, AppendIsConcat
  <2>2. next \in next..head /\ next <= chain /\ next' = next + 1 /\ next <= next' - 1 /\ next >= next' - 1
    BY <1>1, <1>2, <1>3, <1>5
  <2>3. PICK n \in next..head : n = next
    BY <2>2
  <2>4. /\ out' = out \o Blocks(next, n) /\ n <= chain
        /\ n <= next' - 1 /\ n >= next' - 1 /\ next' = next + 1 /\ 1 \in Nat \ {0}
    BY <2>1, <2>2, <2>3
  <2>5. pc' \in {"chunk", "range", "single"} /\ UNCHANGED wait /\ got' = {}
    BY <1>1, <1>2, <1>5
  <2> QED
    BY <1>2, <1>4, <2>4, <2>5, YieldedInv
<1>6. CASE ~(view >= next)
  <2>1. /\ pc' \in {"failed", "fetch"} /\ UNCHANGED <<out, next>>
        /\ pc' = "fetch" => wait.repetition <= wait.limit
        /\ wait'.repetition = wait.repetition + 1 /\ wait'.limit = wait.limit
    <3>1. wait \in [repetition : Nat, limit : Nat]
      BY DEF StreamInv, TypeOK
    <3> QED
      BY <1>1, <1>3, <1>6, <3>1
  <2>2. stop = 0 => "late" \in seen'
    <3>1. stop = 0 => head <= chain
      BY <1>2 DEF StreamInv, Positions
    <3> QED
      BY <1>2, <1>3, <1>4, <1>6, <3>1
  <2>3. NoGap' /\ NoReplay' /\ Tip' = Tip
    BY <1>2, <1>4, <2>1, SameOutput DEF args
  <2>4. TypeOK'
    <3>1. wait' \in [repetition : Nat, limit : Nat]
      BY <1>1, <1>3, <1>6 DEF StreamInv, TypeOK
    <3>2. wait'.repetition <= wait'.limit + 2
      BY <1>2, <1>3, <2>1 DEF StreamInv, WaitIsLimited
    <3> QED
      BY <1>2, <1>4, <2>1, <3>1, <3>2 DEF StreamInv, TypeOK, args
  <2>5. WaitIsLimited'
    BY <1>3, <2>1 DEF WaitIsLimited
  <2>6. Positions' /\ Passed' /\ ReachesStop' /\ FollowsSteadyNodes'
    BY <1>2, <1>4, <2>1, <2>2, <2>3 DEF StreamInv, Positions, Passed, InRound,
                                  ReachesStop, FollowsSteadyNodes, args
  <2> QED
    BY <2>3, <2>4, <2>5, <2>6 DEF StreamInv
<1> QED
  BY <1>5, <1>6

\* The head that is polled decides how long the wait may be.
LEMMA AskInv == ASSUME StreamInv, Ask PROVE StreamInv'
<1>1. PICK poll \in Views :
        /\ seen' = Late(poll)
        /\ wait' = [repetition |-> 0, limit |-> Max({1, next - poll}) * WaitRep]
        /\ pc' = IF poll < next THEN "wait" ELSE "fetch"
  BY DEF Ask
<1>2. /\ pc = "single" /\ next <= head
      /\ UNCHANGED <<chain, args, start, head, next, got, reached, rounds, out>>
  BY DEF Ask
<1>3. /\ {chain, next, head} \subseteq Nat /\ poll \in 1..chain
      /\ seen \subseteq {"back", "short", "late"}
  BY Ranges
<1>4. /\ seen' \subseteq {"back", "short", "late"}
      /\ "back" \in seen => "back" \in seen'
      /\ "short" \in seen => "short" \in seen'
      /\ "back" \in seen' => "back" \in seen
      /\ "short" \in seen' => "short" \in seen
      /\ poll < chain => "late" \in seen'
  BY <1>1, <1>3 DEF Late, When
<1>5. PICK limit \in Nat : wait' = [repetition |-> 0, limit |-> limit]
  <2>1. PICK m \in Int : m = next - poll
    BY <1>3
  <2>2. 1 \in Int
    OBVIOUS
  <2>3. Max({1, m}) \in {1, m} /\ Max({1, m}) >= 1
    BY <2>1, <2>2, MaxOfTwo
  <2>4. Max({1, m}) \in Nat /\ WaitRep \in Nat
    BY <2>3, StreamAssumption
  <2>5. Max({1, m}) * WaitRep \in Nat
    BY <2>4
  <2> QED
    BY <1>1, <2>1, <2>5
<1>6. wait'.repetition = 0 /\ wait'.limit = limit /\ wait' \in [repetition : Nat, limit : Nat]
  BY <1>5
<1>7. pc' = "wait" /\ stop = 0 => "late" \in seen'
  BY <1>1, <1>2, <1>3, <1>4 DEF StreamInv, Positions, InRound
<1>8. NoGap' /\ NoReplay' /\ Tip' = Tip
  BY <1>2, <1>4, SameOutput DEF args
<1>9. TypeOK'
  <2>1. wait'.repetition <= wait'.limit + 2
    BY <1>6
  <2> QED
    BY <1>1, <1>2, <1>4, <1>6, <2>1 DEF StreamInv, TypeOK, args
<1>10. WaitIsLimited'
  BY <1>2, <1>6, <1>7 DEF WaitIsLimited, args
<1>11. Positions' /\ Passed' /\ ReachesStop' /\ FollowsSteadyNodes'
  BY <1>1, <1>2, <1>4, <1>8 DEF StreamInv, Positions, Passed, InRound,
                                ReachesStop, FollowsSteadyNodes, args
<1> QED
  BY <1>8, <1>9, <1>10, <1>11 DEF StreamInv

LEMMA WaitForBlockInv == ASSUME StreamInv, WaitForBlock PROVE StreamInv'
<1>1. PICK poll \in Views :
        /\ seen' = Late(poll)
        /\ pc' = IF wait.repetition + 1 > wait.limit THEN "failed"
                 ELSE IF poll < next THEN "wait" ELSE "fetch"
        /\ wait' = [wait EXCEPT !.repetition = IF pc' = "fetch" THEN 0 ELSE wait.repetition + 1]
  BY DEF WaitForBlock
<1>2. /\ pc = "wait"
      /\ UNCHANGED <<chain, args, start, head, next, got, reached, rounds, out>>
  BY DEF WaitForBlock
<1>3. /\ seen \subseteq {"back", "short", "late"}
      /\ wait \in [repetition : Nat, limit : Nat] /\ wait.repetition <= wait.limit
      /\ stop = 0 => "late" \in seen
  BY <1>2 DEF StreamInv, TypeOK, WaitIsLimited
<1>4. /\ seen' \subseteq {"back", "short", "late"}
      /\ "back" \in seen => "back" \in seen'
      /\ "short" \in seen => "short" \in seen'
      /\ "back" \in seen' => "back" \in seen
      /\ "short" \in seen' => "short" \in seen
      /\ stop = 0 => "late" \in seen'
  BY <1>1, <1>3 DEF Late, When
<1>5. /\ wait' \in [repetition : Nat, limit : Nat]
      /\ wait'.repetition <= wait'.limit + 1
      /\ pc' = "wait" => wait'.repetition <= wait'.limit
      /\ pc' \in {"failed", "wait", "fetch"}
  BY <1>1, <1>3
<1>6. NoGap' /\ NoReplay' /\ Tip' = Tip
  BY <1>2, <1>4, SameOutput DEF args
<1>7. TypeOK'
  <2>1. wait'.repetition <= wait'.limit + 2
    BY <1>5
  <2> QED
    BY <1>2, <1>4, <1>5, <2>1 DEF StreamInv, TypeOK, args
<1>8. WaitIsLimited'
  BY <1>2, <1>4, <1>5 DEF WaitIsLimited, args
<1>9. Positions' /\ Passed' /\ ReachesStop' /\ FollowsSteadyNodes'
  BY <1>2, <1>4, <1>5, <1>6 DEF StreamInv, Positions, Passed, InRound,
                                ReachesStop, FollowsSteadyNodes, args
<1> QED
  BY <1>6, <1>7, <1>8, <1>9 DEF StreamInv

LEMMA GeneratorNext == ASSUME StreamInv, [Next]_vars PROVE StreamInv'
<1>1. CASE Step
  BY <1>1, OpenInv, RoundInv, RoundEndsInv, ChunkInv, YieldChunkInv, FetchRangeInv, AskInv,
     WaitForBlockInv, FetchInv DEF Step
<1>2. CASE Refill
  BY <1>2, ChunkInv
<1>3. CASE Grow
  BY <1>3, GrowInv
<1>4. CASE UNCHANGED vars
  <2>1. NoGap' /\ NoReplay' /\ Tip' = Tip
    BY <1>4, SameOutput DEF vars, args
  <2>2. TypeOK'
    BY <1>4 DEF vars, args, StreamInv, TypeOK, Chunk, ChunkEnd
  <2>3. Positions' /\ WaitIsLimited' /\ ReachesStop' /\ FollowsSteadyNodes'
    BY <1>4 DEF vars, args, StreamInv, Positions, WaitIsLimited, InRound,
                ReachesStop, FollowsSteadyNodes
  <2>4. Passed'
    BY <1>4, <2>1 DEF vars, args, StreamInv, Passed, InRound
  <2> QED
    BY <2>1, <2>2, <2>3, <2>4 DEF StreamInv
<1> QED
  BY <1>1, <1>2, <1>3, <1>4 DEF Next

-----------------------------------------------------------------------------

THEOREM StreamInvariant == Spec => []StreamInv
<1>1. Init => StreamInv
  BY GeneratorInit
<1>2. StreamInv /\ [Next]_vars => StreamInv'
  BY GeneratorNext
<1> QED
  BY <1>1, <1>2, PTL DEF Spec

\* The variables keep their types, and no wait exceeds its limit by more than two.
THEOREM StreamTypeCorrect == Spec => []TypeOK
<1>1. StreamInv => TypeOK
  BY DEF StreamInv
<1> QED
  BY <1>1, StreamInvariant, PTL

\* No block is left out, unless a range came back short, whatever the chunks, the ranges and
\* the lag of the nodes.
THEOREM StreamHasNoGap == Spec => []NoGap
<1>1. StreamInv => NoGap
  BY DEF StreamInv
<1> QED
  BY <1>1, StreamInvariant, PTL

\* No block comes twice or out of order, unless a poll was below the blocks passed.
THEOREM StreamHasNoReplay == Spec => []NoReplay
<1>1. StreamInv => NoReplay
  BY DEF StreamInv
<1> QED
  BY <1>1, StreamInvariant, PTL

\* A stream that returns has come to the block it was told to stop at.
THEOREM StreamReachesStop == Spec => []ReachesStop
<1>1. StreamInv => ReachesStop
  BY DEF StreamInv
<1> QED
  BY <1>1, StreamInvariant, PTL

\* A stream without a last block ends in an error only after a node was behind.
THEOREM StreamFollows == Spec => []FollowsSteadyNodes
<1>1. StreamInv => FollowsSteadyNodes
  BY DEF StreamInv
<1> QED
  BY <1>1, StreamInvariant, PTL

-----------------------------------------------------------------------------
(***************************************************************************)
(* The pool of workers implements Batches: for every number of threads and *)
(* every sequence of batches each step is one of Batches or none, seen     *)
(* through the mapping of WorkerPool.  The invariant follows a task from   *)
(* its batch through the queue and the thread that has it to its result.   *)
(***************************************************************************)

CallerSteps == {"enqueue", "join", "results", "abort", "done"}
WorkerSteps == {"off", "loop", "get", "work", "finally"}

PoolTypeOK ==
    /\ caller \in [at : CallerSteps, batch : DOMAIN Jobs, put : Nat]
    /\ queue \in Seq(AllTasks) /\ unfinished \in Nat
    /\ resultQueue \in Seq(AllTasks)
    /\ threads \subseteq Workers /\ aborts \subseteq Workers
    /\ worker \in [Workers -> [at : WorkerSteps, task : AllTasks \cup {"none"}]]
    /\ ends \in [AllTasks -> {"none", "some", "raised"}]

\* Threads with a task, and the tasks of the batch that were taken from the queue.
Busy == {w \in Workers : worker[w].at \in {"work", "finally"}}
Taken == 1..(caller.put - Len(queue))

\* The queue is the end of what was put in; what is not put in yet has not been done.
QueueIsTheRest ==
    /\ Len(queue) <= caller.put /\ caller.put <= Len(Batch)
    /\ \A i \in DOMAIN queue : queue[i] = Batch[caller.put - Len(queue) + i]
    /\ \A i \in DOMAIN Batch \ Taken : ends[Batch[i]] = "none"
    /\ \A b \in DOMAIN Jobs : b > caller.batch => \A i \in DOMAIN Jobs[b] : ends[Jobs[b][i]] = "none"

\* A thread has one task of the batch, and no other thread has it; a task is done, or a
\* thread has it still to do.
EachHasItsTask ==
    /\ \A w \in Workers : IF w \in Busy THEN \E i \in Taken : worker[w].task = Batch[i]
                          ELSE worker[w].task = "none"
    /\ \A v, w \in Busy : worker[v].task = worker[w].task => v = w
    /\ \A w \in Busy : worker[w].at = "work" <=> ends[worker[w].task] = "none"
    /\ \A i \in Taken : ends[Batch[i]] = "none" => \E w \in Busy : worker[w].task = Batch[i]

\* unfinished counts the tasks in the queue and those that threads have.
Counted == unfinished = Len(queue) + Cardinality(Busy)

JoinedIsFinished ==
    /\ caller.at # "enqueue" => caller.put = Len(Batch)
    /\ caller.at \in {"results", "abort", "done"} => unfinished = 0

ResultsOf(q) == {q[i] : i \in DOMAIN q}

ResultsAreOfTheBatch ==
    ResultsOf(resultQueue) = IF caller.at \in {"abort", "done"} THEN {}
                             ELSE {t \in {Batch[i] : i \in Taken} : ends[t] = "some"}

OnlyTheLastRun == \A w \in Workers : worker[w].at # "off" => w \in threads

PoolInv ==
    /\ PoolTypeOK /\ QueueIsTheRest /\ EachHasItsTask /\ Counted
    /\ JoinedIsFinished /\ ResultsAreOfTheBatch /\ OnlyTheLastRun

-----------------------------------------------------------------------------

\* A batch is a sequence of tasks, and not empty.
LEMMA BatchTasks ==
    ASSUME NEW b \in DOMAIN Jobs
    PROVE  /\ Jobs[b] \in Seq(AllTasks) /\ Len(Jobs[b]) \in Nat \ {0}
           /\ DOMAIN Jobs[b] = 1..Len(Jobs[b])
           /\ \A i \in DOMAIN Jobs[b] : Jobs[b][i] \in AllTasks
BY PoolAssumption, SMT

\* Threads can be counted.
LEMMA ThreadsAreFinite ==
    ASSUME NEW S \in SUBSET Workers
    PROVE  IsFiniteSet(S) /\ Cardinality(S) \in Nat
<1>1. Len(Jobs) \in Nat /\ ThreadCount * Len(Jobs) \in Int
  BY PoolAssumption, SMT
<1>2. IsFiniteSet(Workers)
  BY <1>1, FS_Interval DEF Workers
<1> QED BY <1>2, FS_Subset, FS_CardinalityType

\* What the invariant says at the beginning.
LEMMA InitPool == PoolInit => PoolInv
<1> SUFFICES ASSUME PoolInit PROVE PoolInv
  OBVIOUS
<1> USE DEF PoolInit
<1>1. 1 \in DOMAIN Jobs /\ Jobs \in Seq(Seq(AllTasks))
  BY PoolAssumption, SMT
<1>2. Jobs[1] \in Seq(AllTasks) /\ Len(Batch) \in Nat /\ DOMAIN Jobs[1] = 1..Len(Jobs[1])
      /\ \A b \in DOMAIN Jobs : \A i \in DOMAIN Jobs[b] : Jobs[b][i] \in AllTasks
  BY <1>1, BatchTasks DEF Batch
<1>3. PoolTypeOK
  <2>1. caller \in [at : CallerSteps, batch : DOMAIN Jobs, put : Nat]
    BY <1>1 DEF CallerSteps
  <2>2. worker \in [Workers -> [at : WorkerSteps, task : AllTasks \cup {"none"}]]
    BY DEF WorkerSteps, Off
  <2>3. ends \in [AllTasks -> {"none", "some", "raised"}]
    OBVIOUS
  <2>4. queue \in Seq(AllTasks) /\ resultQueue \in Seq(AllTasks)
    OBVIOUS
  <2> QED BY <2>1, <2>2, <2>3, <2>4 DEF PoolTypeOK
<1>4. Busy = {} /\ Taken = {} /\ Cardinality(Busy) = 0
  <2>1. Busy = {}
    BY DEF Busy, Off
  <2>2. caller.put = 0 /\ Len(queue) = 0
    OBVIOUS
  <2>3. Taken = {}
    BY <2>2, SMT DEF Taken
  <2> QED BY <2>1, <2>3, FS_EmptySet
<1>5. QueueIsTheRest
  BY <1>1, <1>2, <1>4 DEF QueueIsTheRest, Batch
<1>6. EachHasItsTask
  BY <1>4 DEF EachHasItsTask, Off
<1>7. Counted /\ JoinedIsFinished /\ OnlyTheLastRun
  BY <1>4 DEF Counted, JoinedIsFinished, OnlyTheLastRun, Off
<1>8. ResultsAreOfTheBatch
  BY <1>4 DEF ResultsAreOfTheBatch, ResultsOf
<1> QED BY <1>3, <1>5, <1>6, <1>7, <1>8 DEF PoolInv

-----------------------------------------------------------------------------
(* The caller's steps.                                                     *)

\* The batch at hand, with the types of what the invariant speaks of.
LEMMA BatchAtHand ==
    ASSUME PoolTypeOK
    PROVE  /\ Batch \in Seq(AllTasks) /\ Len(Batch) \in Nat \ {0} /\ DOMAIN Batch = 1..Len(Batch)
           /\ \A i \in DOMAIN Batch : Batch[i] \in AllTasks
           /\ Len(queue) \in Nat /\ DOMAIN queue = 1..Len(queue)
           /\ caller.batch \in DOMAIN Jobs /\ caller.put \in Nat
<1>1. caller.batch \in DOMAIN Jobs /\ caller.put \in Nat /\ queue \in Seq(AllTasks)
  BY DEF PoolTypeOK
<1>2. Len(queue) \in Nat /\ DOMAIN queue = 1..Len(queue)
  BY <1>1
<1> QED BY <1>1, <1>2, BatchTasks DEF Batch

LEMMA EnqueuePreserves == PoolInv /\ enqueue => PoolInv'
<1> SUFFICES ASSUME PoolInv, enqueue PROVE PoolInv'
  OBVIOUS
<1> USE DEF enqueue
<1>1. PoolTypeOK
  BY DEF PoolInv
<1> DEFINE p == caller.put
           n == Len(queue)
<1>2. /\ Batch \in Seq(AllTasks) /\ Len(Batch) \in Nat \ {0} /\ DOMAIN Batch = 1..Len(Batch)
      /\ \A i \in DOMAIN Batch : Batch[i] \in AllTasks
      /\ n \in Nat /\ DOMAIN queue = 1..n /\ caller.batch \in DOMAIN Jobs /\ p \in Nat
  BY <1>1, BatchAtHand
<1>3. /\ caller.at = "enqueue" /\ p < Len(Batch)
      /\ caller' = [caller EXCEPT !.put = @ + 1]
  BY DEF CallerAt
<1>4. caller'.batch = caller.batch /\ caller'.put = p + 1 /\ caller'.at = "enqueue"
      /\ caller' \in [at : CallerSteps, batch : DOMAIN Jobs, put : Nat]
  <2>1. caller \in [at : CallerSteps, batch : DOMAIN Jobs, put : Nat]
    BY <1>1 DEF PoolTypeOK
  <2> HIDE DEF enqueue
  <2> QED BY <2>1, <1>2, <1>3
<1>5. Batch[p + 1] \in AllTasks
  BY <1>2, <1>3
<1>6. queue' = Append(queue, Batch[p + 1]) /\ queue' \in Seq(AllTasks) /\ Len(queue') = n + 1
      /\ DOMAIN queue' = 1..(n + 1)
      /\ \A i \in 1..(n + 1) : queue'[i] = IF i = n + 1 THEN Batch[p + 1] ELSE queue[i]
  BY <1>1, <1>2, <1>5 DEF PoolTypeOK
<1>7. PoolTypeOK'
  BY <1>1, <1>4, <1>6 DEF PoolTypeOK
<1>8. n <= p /\ p <= Len(Batch)
  BY DEF PoolInv, QueueIsTheRest
<1>9. Busy' = Busy /\ Batch' = Batch /\ Taken' = Taken
  <2>1. (p + 1) - (n + 1) = p - n
    <3>1. p \in Int /\ n \in Int
      BY <1>2
    <3> HIDE DEF p, n
    <3> QED BY <3>1
  <2> QED BY <1>4, <1>6, <2>1 DEF Busy, Batch, Taken
<1>10. QueueIsTheRest'
  <2>1. \A i \in DOMAIN queue' : queue'[i] = Batch[(p + 1) - (n + 1) + i]
    <3> SUFFICES ASSUME NEW i \in 1..(n + 1) PROVE queue'[i] = Batch[(p + 1) - (n + 1) + i]
      BY <1>6
    <3>1. CASE i = n + 1
      <4>1. (p + 1) - (n + 1) + i = p + 1
        BY <3>1, <1>2
      <4> QED BY <4>1, <3>1, <1>6
    <3>2. CASE i # n + 1
      <4>1. i \in DOMAIN queue /\ (p + 1) - (n + 1) + i = p - n + i
        BY <3>2, <1>2
      <4> QED BY <4>1, <3>2, <1>6 DEF PoolInv, QueueIsTheRest
    <3> QED BY <3>1, <3>2
  <2>2. Len(queue') <= caller'.put /\ caller'.put <= Len(Batch)
    BY <1>2, <1>3, <1>4, <1>6, <1>8
  <2> QED BY <2>1, <2>2, <1>4, <1>6, <1>9 DEF PoolInv, QueueIsTheRest
<1>11. EachHasItsTask'
  BY <1>9 DEF PoolInv, EachHasItsTask
<1>12. Counted'
  <2>1. Cardinality(Busy) \in Nat
    BY ThreadsAreFinite DEF Busy
  <2> QED BY <2>1, <1>2, <1>6, <1>9 DEF PoolInv, Counted
<1>13. JoinedIsFinished' /\ OnlyTheLastRun'
  BY <1>4 DEF PoolInv, JoinedIsFinished, OnlyTheLastRun
<1>14. ResultsAreOfTheBatch'
  BY <1>3, <1>4, <1>9 DEF PoolInv, ResultsAreOfTheBatch
<1> QED BY <1>7, <1>10, <1>11, <1>12, <1>13, <1>14 DEF PoolInv

\* When the last run has ended no thread has a task.
LEMMA NobodyIsBusy ==
    ASSUME PoolInv, ~alive
    PROVE  \A w \in Workers : worker[w].at = "off" /\ worker[w].task = "none"
<1>1. \A w \in Workers : worker[w].at = "off"
  BY DEF PoolInv, OnlyTheLastRun, alive
<1> QED BY <1>1 DEF PoolInv, EachHasItsTask, Busy

LEMMA RunPreserves == PoolInv /\ run => PoolInv'
<1> SUFFICES ASSUME PoolInv, run PROVE PoolInv'
  OBVIOUS
<1> USE DEF run
<1>1. PoolTypeOK
  BY DEF PoolInv
<1>2. caller.batch \in DOMAIN Jobs /\ DOMAIN Jobs = 1..Len(Jobs) /\ Len(Jobs) \in Nat
      /\ ThreadCount \in Nat \ {0}
  BY <1>1, PoolAssumption DEF PoolTypeOK
<1>3. threads' \subseteq Workers
  <2>1. \A w \in threads' : w \in Nat /\ w >= 1 /\ w <= caller.batch * ThreadCount
    <3>1. (caller.batch - 1) * ThreadCount + 1 >= 1
      BY <1>2
    <3> QED BY <3>1, <1>2
  <2>2. caller.batch * ThreadCount <= ThreadCount * Len(Jobs)
    BY <1>2
  <2> QED BY SMTT(30), <2>1, <2>2, <1>2 DEF Workers
<1>4. caller' = [caller EXCEPT !.at = "join"] /\ caller.at = "enqueue" /\ caller.put = Len(Batch)
  BY DEF Go, CallerAt
<1>5. caller'.batch = caller.batch /\ caller'.put = caller.put /\ caller'.at = "join"
      /\ caller' \in [at : CallerSteps, batch : DOMAIN Jobs, put : Nat]
  BY <1>1, <1>4 DEF PoolTypeOK, CallerSteps
<1>6. \A w \in Workers : worker[w].at = "off" /\ worker[w].task = "none"
  BY NobodyIsBusy
<1>7. /\ worker' \in [Workers -> [at : WorkerSteps, task : AllTasks \cup {"none"}]]
      /\ \A w \in Workers : worker'[w].at = (IF w \in threads' THEN "loop" ELSE "off")
      /\ \A w \in Workers : worker'[w].task = "none"
  <2>1. worker \in [Workers -> [at : WorkerSteps, task : AllTasks \cup {"none"}]]
    BY <1>1 DEF PoolTypeOK
  <2>2. worker' = [w \in Workers |-> IF w \in threads' THEN [at |-> "loop", task |-> "none"] ELSE worker[w]]
    BY DEF Off
  <2> HIDE DEF run
  <2>3. ASSUME NEW w \in Workers
        PROVE  /\ worker'[w] \in [at : WorkerSteps, task : AllTasks \cup {"none"}]
               /\ worker'[w].at = (IF w \in threads' THEN "loop" ELSE "off")
               /\ worker'[w].task = "none"
    <3>1. CASE w \in threads'
      BY <3>1, <2>2 DEF WorkerSteps
    <3>2. CASE w \notin threads'
      BY <3>2, <2>1, <2>2, <1>6
    <3> QED BY <3>1, <3>2
  <2> QED BY <2>2, <2>3
<1>8. Busy = {} /\ Busy' = {} /\ Batch' = Batch /\ Taken' = Taken
  <2>1. Busy = {}
    BY <1>6 DEF Busy
  <2>2. Busy' = {}
    <3> HIDE DEF run
    <3>1. \A w \in Workers : worker'[w].at \notin {"work", "finally"}
      BY <1>7
    <3> QED BY <3>1 DEF Busy
  <2>3. Batch' = Batch /\ Taken' = Taken
    BY <1>5 DEF Batch, Taken
  <2> QED BY <2>1, <2>2, <2>3
<1>9. PoolTypeOK'
  BY <1>1, <1>3, <1>5, <1>7 DEF PoolTypeOK
<1>10. QueueIsTheRest'
  BY <1>5, <1>8 DEF PoolInv, QueueIsTheRest
<1>11. EachHasItsTask'
  <2> HIDE DEF run
  <2>1. \A i \in Taken : ends[Batch[i]] # "none"
    BY <1>8 DEF PoolInv, EachHasItsTask
  <2>2. ends' = ends
    BY DEF run
  <2>3. \A w \in Workers : w \notin Busy' /\ worker'[w].task = "none"
    BY <1>7, <1>8
  <2>4. \A i \in Taken' : ends'[Batch'[i]] # "none"
    BY <2>1, <2>2, <1>8
  <2> QED BY <1>8, <2>3, <2>4 DEF EachHasItsTask
<1>12. Counted'
  BY <1>8 DEF PoolInv, Counted
<1>13. JoinedIsFinished'
  BY <1>4, <1>5, <1>8 DEF PoolInv, JoinedIsFinished
<1>14. OnlyTheLastRun'
  <2> HIDE DEF run
  <2> QED BY <1>7 DEF OnlyTheLastRun
<1>15. ResultsAreOfTheBatch'
  BY <1>4, <1>5, <1>8 DEF PoolInv, ResultsAreOfTheBatch
<1> QED BY <1>9, <1>10, <1>11, <1>12, <1>13, <1>14, <1>15 DEF PoolInv

LEMMA JoinPreserves == PoolInv /\ join => PoolInv'
<1> SUFFICES ASSUME PoolInv, join PROVE PoolInv'
  OBVIOUS
<1> USE DEF join
<1>1. PoolTypeOK /\ caller.at = "join" /\ unfinished = 0 /\ caller' = [caller EXCEPT !.at = "results"]
  BY DEF PoolInv, CallerAt, Go
<1>2. caller'.batch = caller.batch /\ caller'.put = caller.put /\ caller'.at = "results"
      /\ caller' \in [at : CallerSteps, batch : DOMAIN Jobs, put : Nat]
  BY <1>1 DEF PoolTypeOK, CallerSteps
<1>3. Busy' = Busy /\ Batch' = Batch /\ Taken' = Taken
  BY <1>2 DEF Busy, Batch, Taken
<1>4. PoolTypeOK'
  BY <1>1, <1>2 DEF PoolTypeOK
<1>5. QueueIsTheRest' /\ EachHasItsTask'
  BY <1>2, <1>3 DEF PoolInv, QueueIsTheRest, EachHasItsTask
<1>6. Counted' /\ OnlyTheLastRun'
  BY <1>3 DEF PoolInv, Counted, OnlyTheLastRun
<1>7. JoinedIsFinished' /\ ResultsAreOfTheBatch'
  BY <1>1, <1>2, <1>3 DEF PoolInv, JoinedIsFinished, ResultsAreOfTheBatch
<1> QED BY <1>4, <1>5, <1>6, <1>7 DEF PoolInv

\* When all that was put in is marked as done, the queue is empty and no thread has a task.
LEMMA NothingIsLeft ==
    ASSUME PoolInv, unfinished = 0
    PROVE  Len(queue) = 0 /\ Busy = {}
<1>1. Busy \in SUBSET Workers
  BY DEF Busy
<1>2. IsFiniteSet(Busy) /\ Cardinality(Busy) \in Nat
  BY <1>1, ThreadsAreFinite
<1>3. Len(queue) \in Nat
  BY BatchAtHand DEF PoolInv
<1>4. Len(queue) + Cardinality(Busy) = 0
  BY DEF PoolInv, Counted
<1>5. Len(queue) = 0 /\ Cardinality(Busy) = 0
  BY <1>2, <1>3, <1>4
<1> QED BY <1>2, <1>5, FS_EmptySet

LEMMA ResultsPreserves == PoolInv /\ results => PoolInv'
<1> SUFFICES ASSUME PoolInv, results PROVE PoolInv'
  OBVIOUS
<1> USE DEF results
<1>1. PoolTypeOK /\ caller.at = "results" /\ caller' = [caller EXCEPT !.at = "abort"]
  BY DEF PoolInv, CallerAt, Go
<1>2. caller'.batch = caller.batch /\ caller'.put = caller.put /\ caller'.at = "abort"
      /\ caller' \in [at : CallerSteps, batch : DOMAIN Jobs, put : Nat]
  BY <1>1 DEF PoolTypeOK, CallerSteps
<1>3. Busy' = Busy /\ Batch' = Batch /\ Taken' = Taken
  BY <1>2 DEF Busy, Batch, Taken
<1>4. PoolTypeOK'
  BY <1>1, <1>2 DEF PoolTypeOK
<1>5. QueueIsTheRest' /\ EachHasItsTask'
  BY <1>2, <1>3 DEF PoolInv, QueueIsTheRest, EachHasItsTask
<1>6. Counted' /\ OnlyTheLastRun'
  BY <1>3 DEF PoolInv, Counted, OnlyTheLastRun
<1>7. JoinedIsFinished'
  BY <1>1, <1>2, <1>3 DEF PoolInv, JoinedIsFinished
<1>8. ResultsAreOfTheBatch'
  BY <1>2 DEF ResultsAreOfTheBatch, ResultsOf
<1> QED BY <1>4, <1>5, <1>6, <1>7, <1>8 DEF PoolInv

LEMMA AbortPreserves == PoolInv /\ abort => PoolInv'
<1> SUFFICES ASSUME PoolInv, abort PROVE PoolInv'
  OBVIOUS
<1> USE DEF abort
<1>1. PoolTypeOK /\ caller.at = "abort" /\ unfinished = 0 /\ caller.put = Len(Batch)
  BY DEF PoolInv, CallerAt, JoinedIsFinished
<1>2. Len(queue) = 0 /\ Busy = {} /\ Busy' = {}
  BY <1>1, NothingIsLeft DEF Busy
<1>3. caller \in [at : CallerSteps, batch : DOMAIN Jobs, put : Nat]
      /\ caller.batch \in DOMAIN Jobs /\ DOMAIN Jobs = 1..Len(Jobs) /\ Len(Jobs) \in Nat
  BY <1>1, PoolAssumption DEF PoolTypeOK
<1>4. ResultsOf(resultQueue) = {} /\ ResultsOf(resultQueue') = {}
  BY <1>1 DEF PoolInv, ResultsAreOfTheBatch, ResultsOf
<1>5. CASE caller.batch = Len(Jobs)
  <2>1. caller' = [caller EXCEPT !.at = "done"]
    BY <1>5
  <2>2. caller'.batch = caller.batch /\ caller'.put = caller.put /\ caller'.at = "done"
        /\ caller' \in [at : CallerSteps, batch : DOMAIN Jobs, put : Nat]
    <3> HIDE DEF abort
    <3> QED BY <2>1, <1>3 DEF CallerSteps
  <2>3. Batch' = Batch /\ Taken' = Taken
    BY <2>2 DEF Batch, Taken
  <2>4. PoolTypeOK'
    BY <1>1, <2>2 DEF PoolTypeOK, Workers
  <2>5. QueueIsTheRest' /\ EachHasItsTask'
    BY <1>2, <2>2, <2>3 DEF PoolInv, QueueIsTheRest, EachHasItsTask
  <2>6. Counted' /\ OnlyTheLastRun' /\ JoinedIsFinished' /\ ResultsAreOfTheBatch'
    BY <1>1, <1>2, <1>4, <2>2, <2>3
       DEF PoolInv, Counted, OnlyTheLastRun, JoinedIsFinished, ResultsAreOfTheBatch
  <2> QED BY <2>4, <2>5, <2>6 DEF PoolInv
<1>6. CASE caller.batch # Len(Jobs)
  <2> DEFINE b == caller.batch + 1
  <2>1. caller' = [at |-> "enqueue", batch |-> b, put |-> 0]
    BY <1>6
  <2>2. b \in DOMAIN Jobs /\ b > caller.batch
    <3>1. caller.batch \in 1..Len(Jobs) /\ caller.batch # Len(Jobs) /\ Len(Jobs) \in Nat
      BY <1>3, <1>6
    <3>2. b \in 1..Len(Jobs) /\ b > caller.batch
      BY <3>1, SMT
    <3> QED BY <3>2, <1>3
  <2>3. caller'.batch = b /\ caller'.put = 0 /\ caller'.at = "enqueue" /\ Batch' = Jobs[b]
        /\ caller' \in [at : CallerSteps, batch : DOMAIN Jobs, put : Nat]
    <3> HIDE DEF abort
    <3> QED BY <2>1, <2>2 DEF CallerSteps, Batch
  <2>4. Taken' = {}
    <3>1. Taken' = 1..(0 - 0)
      BY <1>2, <2>3 DEF Taken
    <3> QED BY <3>1
  <2>5. Len(Jobs[b]) \in Nat /\ Len(queue') = 0 /\ DOMAIN queue' = {}
    <3>1. queue' = queue /\ DOMAIN queue = 1..Len(queue)
      BY <1>1, BatchAtHand
    <3> QED BY <3>1, <1>2, <2>2, BatchTasks
  <2>6. PoolTypeOK'
    BY <1>1, <2>3 DEF PoolTypeOK, Workers
  <2>7. QueueIsTheRest'
    <3>1. \A c \in DOMAIN Jobs : c > caller.batch => \A i \in DOMAIN Jobs[c] : ends[Jobs[c][i]] = "none"
      BY DEF PoolInv, QueueIsTheRest
    <3>2. \A c \in DOMAIN Jobs : c > b => c > caller.batch
      BY <1>3
    <3>3. ends' = ends
      OBVIOUS
    <3> HIDE DEF abort
    <3>4. \A i \in DOMAIN Batch' \ Taken' : ends'[Batch'[i]] = "none"
      BY <2>2, <2>3, <3>1, <3>3
    <3>5. \A c \in DOMAIN Jobs : c > caller'.batch => \A i \in DOMAIN Jobs[c] : ends'[Jobs[c][i]] = "none"
      BY <2>3, <3>1, <3>2, <3>3
    <3>6. Len(queue') <= caller'.put /\ caller'.put <= Len(Batch')
      BY <2>3, <2>5
    <3>7. \A i \in DOMAIN queue' : queue'[i] = Batch'[caller'.put - Len(queue') + i]
      BY <2>5
    <3> QED BY <3>4, <3>5, <3>6, <3>7 DEF QueueIsTheRest
  <2>8. EachHasItsTask'
    <3>1. \A w \in Workers : worker'[w].task = "none"
      BY <1>2 DEF PoolInv, EachHasItsTask
    <3> HIDE DEF abort
    <3> QED BY <1>2, <2>4, <3>1 DEF EachHasItsTask
  <2>9. Counted' /\ OnlyTheLastRun' /\ JoinedIsFinished'
    BY <1>2, <2>3 DEF PoolInv, Counted, OnlyTheLastRun, JoinedIsFinished
  <2>10. ResultsAreOfTheBatch'
    BY <1>4, <2>3, <2>4 DEF ResultsAreOfTheBatch
  <2> QED BY <2>6, <2>7, <2>8, <2>9, <2>10 DEF PoolInv
<1> QED BY <1>5, <1>6

-----------------------------------------------------------------------------
(* The steps of a thread.                                                  *)

\* A thread that has no task goes from one of its waiting places to another.
LEMMA IdlePreserves ==
    ASSUME PoolInv, NEW w \in Workers, worker[w].at \in {"loop", "get"},
           NEW place \in {"off", "loop", "get"}, Goes(w, place),
           UNCHANGED <<caller, queue, unfinished, resultQueue, threads, aborts, ends>>
    PROVE  PoolInv'
<1>1. PoolTypeOK /\ worker \in [Workers -> [at : WorkerSteps, task : AllTasks \cup {"none"}]]
  BY DEF PoolInv, PoolTypeOK
<1>2. /\ worker' \in [Workers -> [at : WorkerSteps, task : AllTasks \cup {"none"}]]
      /\ \A v \in Workers : worker'[v].task = worker[v].task
      /\ worker'[w].at = place /\ \A v \in Workers \ {w} : worker'[v].at = worker[v].at
  <2>1. worker' = [worker EXCEPT ![w].at = place] /\ place \in WorkerSteps
    BY DEF Goes, WorkerSteps
  <2>2. ASSUME NEW v \in Workers
        PROVE  /\ worker'[v] \in [at : WorkerSteps, task : AllTasks \cup {"none"}]
               /\ worker'[v].task = worker[v].task
               /\ worker'[v].at = (IF v = w THEN place ELSE worker[v].at)
    <3>1. CASE v = w
      BY <3>1, <2>1, <1>1
    <3>2. CASE v # w
      BY <3>2, <2>1, <1>1
    <3> QED BY <3>1, <3>2
  <2> QED BY <1>1, <2>1, <2>2
<1>3. Busy' = Busy /\ w \notin Busy
  BY <1>2 DEF Busy
<1>4. Batch' = Batch /\ Taken' = Taken
  BY DEF Batch, Taken
<1>5. PoolTypeOK'
  BY <1>1, <1>2 DEF PoolTypeOK
<1>6. QueueIsTheRest' /\ Counted' /\ JoinedIsFinished' /\ ResultsAreOfTheBatch'
  BY <1>3, <1>4 DEF PoolInv, QueueIsTheRest, Counted, JoinedIsFinished, ResultsAreOfTheBatch
<1>7. EachHasItsTask'
  <2>1. Busy \subseteq Workers
    BY DEF Busy
  <2>2. \A v \in Busy : worker'[v].at = worker[v].at /\ worker'[v].task = worker[v].task
    BY <1>2, <1>3, <2>1
  <2> QED BY <1>2, <1>3, <1>4, <2>2 DEF PoolInv, EachHasItsTask
<1>8. OnlyTheLastRun'
  BY <1>2 DEF PoolInv, OnlyTheLastRun
<1> QED BY <1>5, <1>6, <1>7, <1>8 DEF PoolInv

\* The tasks of a batch are distinct.
LEMMA TasksAreDistinct ==
    ASSUME PoolTypeOK, NEW i \in DOMAIN Batch, NEW j \in DOMAIN Batch, Batch[i] = Batch[j]
    PROVE  i = j
BY BatchAtHand, PoolAssumption DEF Batch

\* Where the tasks taken from the queue are in the batch.
LEMMA TakenOfTheBatch == PoolInv => Taken \subseteq DOMAIN Batch
<1> SUFFICES ASSUME PoolInv PROVE Taken \subseteq DOMAIN Batch
  OBVIOUS
<1>1. /\ DOMAIN Batch = 1..Len(Batch) /\ Len(Batch) \in Nat /\ caller.put \in Nat /\ Len(queue) \in Nat
      /\ caller.put <= Len(Batch)
  BY BatchAtHand DEF PoolInv, QueueIsTheRest
<1> QED BY <1>1 DEF Taken

LEMMA GetPreserves == \A w \in Workers : PoolInv /\ Get(w) => PoolInv'
<1> SUFFICES ASSUME PoolInv, NEW w \in Workers, Get(w) PROVE PoolInv'
  OBVIOUS
<1>1. CASE queue = <<>>
  <2>1. worker[w].at = "get" /\ Goes(w, "loop")
        /\ UNCHANGED <<caller, queue, unfinished, resultQueue, threads, aborts, ends>>
    BY <1>1 DEF Get
  <2> QED BY <2>1, IdlePreserves
<1>2. CASE queue # <<>>
  <2> DEFINE p == caller.put
             n == Len(queue)
             k == p - n + 1
  <2>1. /\ worker[w].at = "get" /\ queue' = Tail(queue)
        /\ worker' = [worker EXCEPT ![w] = [at |-> "work", task |-> Head(queue)]]
        /\ UNCHANGED <<caller, unfinished, resultQueue, threads, aborts, ends>>
    BY <1>2 DEF Get
  <2>2. PoolTypeOK /\ queue \in Seq(AllTasks)
        /\ worker \in [Workers -> [at : WorkerSteps, task : AllTasks \cup {"none"}]]
    BY DEF PoolInv, PoolTypeOK
  <2>3. /\ DOMAIN Batch = 1..Len(Batch) /\ Len(Batch) \in Nat /\ p \in Nat /\ n \in Nat
        /\ n <= p /\ p <= Len(Batch) /\ DOMAIN queue = 1..n
        /\ \A i \in DOMAIN Batch : Batch[i] \in AllTasks
    BY <2>2, BatchAtHand DEF PoolInv, QueueIsTheRest
  <2>4. n > 0 /\ Head(queue) = queue[1] /\ queue' \in Seq(AllTasks) /\ Len(queue') = n - 1
        /\ DOMAIN queue' = 1..(n - 1) /\ \A i \in 1..(n - 1) : queue'[i] = queue[i + 1]
    BY <1>2, <2>1, <2>2
  <2>5. queue[1] = Batch[k] /\ k \in DOMAIN Batch /\ k \notin Taken /\ Taken' = Taken \cup {k}
        /\ Batch' = Batch
    <3>1. k \in DOMAIN Batch /\ k \notin Taken
      BY <2>3, <2>4 DEF Taken
    <3>2. Taken' = 1..(p - (n - 1))
      BY <2>1, <2>4 DEF Taken
    <3>3. 1..(p - (n - 1)) = (1..(p - n)) \cup {k}
      BY <2>3, <2>4
    <3>4. queue[1] = Batch[p - n + 1]
      BY <2>3, <2>4 DEF PoolInv, QueueIsTheRest
    <3> QED BY <2>1, <3>1, <3>2, <3>3, <3>4 DEF Batch, Taken
  <2>6. ends[Batch[k]] = "none" /\ Batch[k] \in AllTasks
    BY <2>3, <2>5 DEF PoolInv, QueueIsTheRest
  <2>7. /\ worker' \in [Workers -> [at : WorkerSteps, task : AllTasks \cup {"none"}]]
        /\ worker'[w] = [at |-> "work", task |-> Batch[k]]
        /\ \A v \in Workers \ {w} : worker'[v] = worker[v]
    <3>1. [at |-> "work", task |-> Batch[k]] \in [at : WorkerSteps, task : AllTasks \cup {"none"}]
      BY <2>6 DEF WorkerSteps
    <3> HIDE DEF k
    <3> QED BY <2>1, <2>2, <2>4, <2>5, <3>1
  <2>8. w \notin Busy /\ Busy' = Busy \cup {w} /\ Busy \subseteq Workers
    <3> HIDE DEF k
    <3> QED BY <2>1, <2>7 DEF Busy
  <2>9. PoolTypeOK'
    BY <2>1, <2>2, <2>4, <2>7 DEF PoolTypeOK
  <2>10. QueueIsTheRest'
    <3>1. Len(queue') <= p /\ p <= Len(Batch)
      BY <2>3, <2>4
    <3>2. \A i \in DOMAIN queue' : queue'[i] = Batch[p - Len(queue') + i]
      <4> SUFFICES ASSUME NEW i \in 1..(n - 1) PROVE queue'[i] = Batch[p - (n - 1) + i]
        BY <2>4
      <4>1. i + 1 \in DOMAIN queue /\ p - (n - 1) + i = p - n + (i + 1)
        <5>1. i \in Int /\ p \in Int /\ n \in Int /\ i >= 1 /\ i <= n - 1
          BY <2>3
        <5> HIDE DEF p, n
        <5>2. p - (n - 1) + i = p - n + (i + 1) /\ i + 1 \in 1..n
          BY <5>1
        <5> QED BY <5>2, <2>3
      <4>2. queue[i + 1] = Batch[p - n + (i + 1)]
        BY <4>1 DEF PoolInv, QueueIsTheRest
      <4> QED BY <2>4, <4>1, <4>2
    <3> QED BY <2>1, <2>5, <3>1, <3>2 DEF PoolInv, QueueIsTheRest
  <2>11. EachHasItsTask'
    <3> HIDE DEF k
    <3>1. \A v \in Busy : worker[v].task # Batch[k]
      <4> SUFFICES ASSUME NEW v \in Busy, worker[v].task = Batch[k] PROVE FALSE
        OBVIOUS
      <4>1. PICK i \in Taken : worker[v].task = Batch[i]
        BY <2>8 DEF PoolInv, EachHasItsTask
      <4>2. i \in DOMAIN Batch
        BY TakenOfTheBatch
      <4> QED BY <2>2, <2>5, <4>1, <4>2, TasksAreDistinct
    <3>2. \A v \in Workers : IF v \in Busy' THEN \E i \in Taken' : worker'[v].task = Batch[i]
                             ELSE worker'[v].task = "none"
      BY <2>5, <2>7, <2>8 DEF PoolInv, EachHasItsTask
    <3>3. \A u, v \in Busy' : worker'[u].task = worker'[v].task => u = v
      <4>1. \A u \in Busy : u # w /\ worker'[u].task = worker[u].task
        BY <2>7, <2>8
      <4>2. worker'[w].task = Batch[k]
        BY <2>7
      <4> QED BY <2>8, <3>1, <4>1, <4>2 DEF PoolInv, EachHasItsTask
    <3>4. \A v \in Busy' : worker'[v].at = "work" <=> ends[worker'[v].task] = "none"
      BY <2>6, <2>7, <2>8 DEF PoolInv, EachHasItsTask
    <3>5. \A i \in Taken' : ends[Batch[i]] = "none" => \E v \in Busy' : worker'[v].task = Batch[i]
      <4> SUFFICES ASSUME NEW i \in Taken', ends[Batch[i]] = "none"
                   PROVE  \E v \in Busy' : worker'[v].task = Batch[i]
        OBVIOUS
      <4>1. CASE i = k
        BY <4>1, <2>7, <2>8
      <4>2. CASE i \in Taken
        <5>1. PICK v \in Busy : worker[v].task = Batch[i]
          BY <4>2 DEF PoolInv, EachHasItsTask
        <5> QED BY <5>1, <2>7, <2>8
      <4> QED BY <2>5, <4>1, <4>2
    <3> QED BY <2>1, <2>5, <3>2, <3>3, <3>4, <3>5 DEF EachHasItsTask
  <2>12. Counted'
    <3>1. IsFiniteSet(Busy) /\ Cardinality(Busy) \in Nat
      BY <2>8, ThreadsAreFinite
    <3>2. Cardinality(Busy') = Cardinality(Busy) + 1
      BY <2>8, <3>1, FS_AddElement
    <3> QED BY <2>1, <2>3, <2>4, <3>1, <3>2 DEF PoolInv, Counted
  <2>13. JoinedIsFinished'
    BY <2>1, <2>5 DEF PoolInv, JoinedIsFinished
  <2>14. ResultsAreOfTheBatch'
    <3>1. {t \in {Batch[i] : i \in Taken'} : ends[t] = "some"}
            = {t \in {Batch[i] : i \in Taken} : ends[t] = "some"}
      BY <2>5, <2>6
    <3> QED BY <2>1, <2>5, <3>1 DEF PoolInv, ResultsAreOfTheBatch
  <2>15. OnlyTheLastRun'
    BY <2>1, <2>7 DEF PoolInv, OnlyTheLastRun
  <2> QED BY <2>9, <2>10, <2>11, <2>12, <2>13, <2>14, <2>15 DEF PoolInv
<1> QED BY <1>1, <1>2

\* A thread that has a task has one of the batch, which the caller waits for.
LEMMA TaskAtHand ==
    ASSUME PoolInv, NEW w \in Busy
    PROVE  /\ \E i \in Taken : worker[w].task = Batch[i]
           /\ worker[w].task \in AllTasks /\ worker[w].task # "none"
           /\ unfinished > 0 /\ caller.at \in {"enqueue", "join"}
<1>1. Busy \in SUBSET Workers /\ PoolTypeOK
  BY DEF Busy, PoolInv
<1>2. PICK i \in Taken : worker[w].task = Batch[i]
  BY <1>1 DEF PoolInv, EachHasItsTask
<1>3. Batch[i] \in AllTasks
  BY <1>1, TakenOfTheBatch, BatchAtHand
<1>4. IsFiniteSet(Busy) /\ Cardinality(Busy) \in Nat /\ Cardinality(Busy) # 0
  BY <1>1, ThreadsAreFinite, FS_EmptySet
<1>5. unfinished > 0
  BY <1>1, <1>4, BatchAtHand DEF PoolInv, Counted
<1>6. caller.at \in {"enqueue", "join"}
  BY <1>1, <1>5 DEF PoolInv, JoinedIsFinished, PoolTypeOK, CallerSteps
<1> QED BY <1>2, <1>3, <1>5, <1>6, PoolAssumption

LEMMA WorkPreserves == \A w \in Workers : PoolInv /\ Work(w) => PoolInv'
<1> SUFFICES ASSUME PoolInv, NEW w \in Workers, Work(w) PROVE PoolInv'
  OBVIOUS
<1> DEFINE t == worker[w].task
<1>1. /\ worker[w].at = "work" /\ worker' = [worker EXCEPT ![w].at = "finally"]
      /\ UNCHANGED <<caller, queue, unfinished, threads, aborts>>
  BY DEF Work, Goes
<1>2. PICK r \in {"some", "raised"} :
         /\ ends' = [ends EXCEPT ![t] = r]
         /\ resultQueue' = (IF r = "some" THEN Append(resultQueue, t) ELSE resultQueue)
  BY DEF Work
<1>3. PoolTypeOK /\ resultQueue \in Seq(AllTasks)
      /\ worker \in [Workers -> [at : WorkerSteps, task : AllTasks \cup {"none"}]]
      /\ ends \in [AllTasks -> {"none", "some", "raised"}]
  BY DEF PoolInv, PoolTypeOK
<1>4. w \in Busy /\ Busy \subseteq Workers
  BY <1>1 DEF Busy
<1>5. t \in AllTasks /\ caller.at \in {"enqueue", "join"}
  BY <1>4, TaskAtHand
<1>6. PICK k \in Taken : t = Batch[k]
  BY <1>4, TaskAtHand
<1>7. Taken \subseteq DOMAIN Batch /\ \A i \in DOMAIN Batch : Batch[i] \in AllTasks
      /\ Batch[i] \in AllTasks /\ (Batch[i] = t => i = k)
  BY <1>3, <1>6, TakenOfTheBatch, BatchAtHand, TasksAreDistinct
<1>8. /\ worker' \in [Workers -> [at : WorkerSteps, task : AllTasks \cup {"none"}]]
      /\ worker'[w].at = "finally" /\ worker'[w].task = t
      /\ \A v \in Workers \ {w} : worker'[v] = worker[v]
  <2>1. [worker[w] EXCEPT !.at = "finally"] \in [at : WorkerSteps, task : AllTasks \cup {"none"}]
    BY <1>3 DEF WorkerSteps
  <2> QED BY <1>1, <1>3, <2>1
<1>9. /\ ends' \in [AllTasks -> {"none", "some", "raised"}]
      /\ ends'[t] = r /\ r # "none" /\ \A u \in AllTasks \ {t} : ends'[u] = ends[u]
  BY <1>2, <1>3, <1>5
<1>10. Busy' = Busy /\ Batch' = Batch /\ Taken' = Taken
  BY <1>1, <1>4, <1>8 DEF Busy, Batch, Taken
<1>11. resultQueue' \in Seq(AllTasks)
       /\ ResultsOf(resultQueue') = ResultsOf(resultQueue) \cup (IF r = "some" THEN {t} ELSE {})
  <2>1. CASE r = "some"
    <3>1. resultQueue' = Append(resultQueue, t)
      BY <1>2, <2>1
    <3>2. /\ resultQueue' \in Seq(AllTasks) /\ Len(resultQueue) \in Nat
          /\ DOMAIN resultQueue' = 1..(Len(resultQueue) + 1) /\ DOMAIN resultQueue = 1..Len(resultQueue)
          /\ resultQueue'[Len(resultQueue) + 1] = t
          /\ \A i \in 1..Len(resultQueue) : resultQueue'[i] = resultQueue[i]
      BY <3>1, <1>3, <1>5
    <3>3. DOMAIN resultQueue' = DOMAIN resultQueue \cup {Len(resultQueue) + 1}
      BY <3>2
    <3>4. ResultsOf(resultQueue') = ResultsOf(resultQueue) \cup {t}
      BY <3>2, <3>3 DEF ResultsOf
    <3> QED BY <2>1, <3>2, <3>4
  <2>2. CASE r # "some"
    BY <1>2, <1>3, <2>2 DEF ResultsOf
  <2> QED BY <2>1, <2>2
<1>12. PoolTypeOK'
  BY <1>1, <1>3, <1>8, <1>9, <1>11 DEF PoolTypeOK
<1>13. ends[t] = "none"
  BY <1>1, <1>4 DEF PoolInv, EachHasItsTask
<1>14. QueueIsTheRest'
  <2>1. \A i \in DOMAIN Batch \ Taken : ends'[Batch[i]] = "none"
    <3> SUFFICES ASSUME NEW i \in DOMAIN Batch \ Taken PROVE ends'[Batch[i]] = "none"
      OBVIOUS
    <3>1. Batch[i] \in AllTasks \ {t}
      BY <1>6, <1>7
    <3> QED BY <1>9, <3>1 DEF PoolInv, QueueIsTheRest
  <2>2. \A b \in DOMAIN Jobs : b > caller.batch => \A i \in DOMAIN Jobs[b] : ends'[Jobs[b][i]] = "none"
    <3> SUFFICES ASSUME NEW b \in DOMAIN Jobs, b > caller.batch, NEW i \in DOMAIN Jobs[b]
                 PROVE  ends'[Jobs[b][i]] = "none"
      OBVIOUS
    <3>1. Jobs[b][i] \in AllTasks /\ ends[Jobs[b][i]] = "none"
      BY BatchTasks DEF PoolInv, QueueIsTheRest
    <3>2. b # caller.batch /\ caller.batch \in DOMAIN Jobs
      <4>1. caller.batch \in DOMAIN Jobs /\ DOMAIN Jobs \subseteq Int
        BY <1>3, BatchAtHand, PoolAssumption
      <4> QED BY <4>1
    <3>3. Jobs[b][i] # t
      BY <1>6, <1>7, <3>2, PoolAssumption DEF Batch
    <3> QED BY <1>9, <3>1, <3>3
  <2> QED BY <1>1, <1>10, <2>1, <2>2 DEF PoolInv, QueueIsTheRest
<1>15. EachHasItsTask'
  <2>1. \A v \in Workers : worker'[v].task = worker[v].task
    BY <1>8
  <2>2. \A v \in Workers : IF v \in Busy THEN \E i \in Taken : worker'[v].task = Batch[i]
                           ELSE worker'[v].task = "none"
    BY <2>1 DEF PoolInv, EachHasItsTask
  <2>3. \A u, v \in Busy : worker'[u].task = worker'[v].task => u = v
    BY <1>4, <2>1 DEF PoolInv, EachHasItsTask
  <2>4. \A v \in Busy : worker'[v].at = "work" <=> ends'[worker'[v].task] = "none"
    <3> SUFFICES ASSUME NEW v \in Busy
                 PROVE  worker'[v].at = "work" <=> ends'[worker'[v].task] = "none"
      OBVIOUS
    <3>1. CASE v = w
      BY <3>1, <1>8, <1>9
    <3>2. CASE v # w
      <4>1. worker[v].task \in AllTasks \ {t} /\ worker'[v] = worker[v]
        BY <3>2, <1>4, <1>8, TaskAtHand DEF PoolInv, EachHasItsTask
      <4>2. worker[v].at = "work" <=> ends[worker[v].task] = "none"
        BY DEF PoolInv, EachHasItsTask
      <4> QED BY <1>9, <4>1, <4>2
    <3> QED BY <3>1, <3>2
  <2>5. \A i \in Taken : ends'[Batch[i]] = "none" => \E v \in Busy : worker'[v].task = Batch[i]
    <3> SUFFICES ASSUME NEW i \in Taken, ends'[Batch[i]] = "none"
                 PROVE  \E v \in Busy : worker'[v].task = Batch[i]
      OBVIOUS
    <3>1. Batch[i] \in AllTasks /\ Batch[i] # t
      BY <1>7, <1>9
    <3>2. PICK v \in Busy : worker[v].task = Batch[i]
      BY <1>9, <3>1 DEF PoolInv, EachHasItsTask
    <3> QED BY <1>4, <2>1, <3>2
  <2> QED BY <1>10, <2>2, <2>3, <2>4, <2>5 DEF EachHasItsTask
<1>16. Counted' /\ JoinedIsFinished'
  BY <1>1, <1>10 DEF PoolInv, Counted, JoinedIsFinished
<1>17. ResultsAreOfTheBatch'
  <2> DEFINE S == {Batch[i] : i \in Taken}
  <2>1. ResultsOf(resultQueue) = {u \in S : ends[u] = "some"}
    BY <1>5 DEF PoolInv, ResultsAreOfTheBatch
  <2>2. t \in S /\ S \subseteq AllTasks
    BY <1>6, <1>7
  <2>3. {u \in S : ends'[u] = "some"} = {u \in S : ends[u] = "some"} \cup (IF r = "some" THEN {t} ELSE {})
    <3> HIDE DEF S
    <3> QED BY <1>9, <1>13, <2>2
  <2> QED BY <1>1, <1>5, <1>10, <1>11, <2>1, <2>3 DEF ResultsAreOfTheBatch
<1>18. OnlyTheLastRun'
  BY <1>1, <1>8 DEF PoolInv, OnlyTheLastRun
<1> QED BY <1>12, <1>14, <1>15, <1>16, <1>17, <1>18 DEF PoolInv

LEMMA TaskDonePreserves == \A w \in Workers : PoolInv /\ TaskDone(w) => PoolInv'
<1> SUFFICES ASSUME PoolInv, NEW w \in Workers, TaskDone(w) PROVE PoolInv'
  OBVIOUS
<1>1. /\ worker[w].at = "finally" /\ worker' = [worker EXCEPT ![w] = [at |-> "loop", task |-> "none"]]
      /\ unfinished' = unfinished - 1
      /\ UNCHANGED <<caller, queue, resultQueue, threads, aborts, ends>>
  <2>1. [Off EXCEPT !.at = "loop"] = [at |-> "loop", task |-> "none"]
    BY DEF Off
  <2> QED BY <2>1 DEF TaskDone
<1>2. PoolTypeOK /\ unfinished \in Nat
      /\ worker \in [Workers -> [at : WorkerSteps, task : AllTasks \cup {"none"}]]
  BY DEF PoolInv, PoolTypeOK
<1>3. w \in Busy /\ Busy \subseteq Workers
  BY <1>1 DEF Busy
<1>4. unfinished > 0 /\ caller.at \in {"enqueue", "join"}
  BY <1>3, TaskAtHand
<1>5. /\ worker' \in [Workers -> [at : WorkerSteps, task : AllTasks \cup {"none"}]]
      /\ worker'[w] = [at |-> "loop", task |-> "none"]
      /\ \A v \in Workers \ {w} : worker'[v] = worker[v]
  <2>1. [at |-> "loop", task |-> "none"] \in [at : WorkerSteps, task : AllTasks \cup {"none"}]
    BY DEF WorkerSteps
  <2> QED BY <1>1, <1>2, <2>1
<1>6. Busy' = Busy \ {w} /\ Batch' = Batch /\ Taken' = Taken
  BY <1>1, <1>5 DEF Busy, Batch, Taken
<1>7. PoolTypeOK'
  <2>1. unfinished' \in Nat
    BY <1>1, <1>2, <1>4
  <2> QED BY <1>1, <1>2, <1>5, <2>1 DEF PoolTypeOK
<1>8. QueueIsTheRest'
  BY <1>1, <1>6 DEF PoolInv, QueueIsTheRest
<1>9. EachHasItsTask'
  <2>1. \A v \in Workers : IF v \in Busy' THEN \E i \in Taken : worker'[v].task = Batch[i]
                           ELSE worker'[v].task = "none"
    BY <1>5, <1>6 DEF PoolInv, EachHasItsTask
  <2>2. \A v \in Busy' : v \in Busy /\ worker'[v] = worker[v]
    BY <1>3, <1>5, <1>6
  <2>3. \A u, v \in Busy' : worker'[u].task = worker'[v].task => u = v
    BY <2>2 DEF PoolInv, EachHasItsTask
  <2>4. \A v \in Busy' : worker'[v].at = "work" <=> ends[worker'[v].task] = "none"
    BY <2>2 DEF PoolInv, EachHasItsTask
  <2>5. \A i \in Taken : ends[Batch[i]] = "none" => \E v \in Busy' : worker'[v].task = Batch[i]
    <3> SUFFICES ASSUME NEW i \in Taken, ends[Batch[i]] = "none"
                 PROVE  \E v \in Busy' : worker'[v].task = Batch[i]
      OBVIOUS
    <3>1. PICK v \in Busy : worker[v].task = Batch[i]
      BY DEF PoolInv, EachHasItsTask
    <3>2. worker[v].at = "work"
      BY <3>1 DEF PoolInv, EachHasItsTask
    <3>3. v \in Busy' /\ worker'[v] = worker[v]
      BY <1>1, <1>3, <1>5, <1>6, <3>2
    <3> QED BY <3>1, <3>3
  <2> QED BY <1>1, <1>6, <2>1, <2>3, <2>4, <2>5 DEF EachHasItsTask
<1>10. Counted'
  <2>1. IsFiniteSet(Busy) /\ Cardinality(Busy) \in Nat
    BY <1>3, ThreadsAreFinite
  <2>2. Cardinality(Busy') = Cardinality(Busy) - 1
    BY <1>3, <1>6, <2>1, FS_RemoveElement
  <2> QED BY <1>1, <1>2, <2>1, <2>2, BatchAtHand DEF PoolInv, Counted
<1>11. JoinedIsFinished' /\ ResultsAreOfTheBatch'
  BY <1>1, <1>4, <1>6 DEF PoolInv, JoinedIsFinished, ResultsAreOfTheBatch
<1>12. OnlyTheLastRun'
  BY <1>1, <1>5 DEF PoolInv, OnlyTheLastRun
<1> QED BY <1>7, <1>8, <1>9, <1>10, <1>11, <1>12 DEF PoolInv

LEMMA StutterPreserves == PoolInv /\ UNCHANGED poolVars => PoolInv'
BY DEF poolVars, PoolInv, PoolTypeOK, QueueIsTheRest, EachHasItsTask, Counted, JoinedIsFinished,
       ResultsAreOfTheBatch, OnlyTheLastRun, Busy, Taken, Batch

LEMMA StepPreserves == PoolInv /\ [PoolNext]_poolVars => PoolInv'
<1> SUFFICES ASSUME PoolInv, [PoolNext]_poolVars PROVE PoolInv'
  OBVIOUS
<1>1. CASE Caller
  BY <1>1, EnqueuePreserves, RunPreserves, JoinPreserves, ResultsPreserves, AbortPreserves DEF Caller
<1>2. ASSUME NEW w \in Workers, Worker(w) PROVE PoolInv'
  <2>1. CASE Loop(w)
    <3>1. worker[w].at \in {"loop", "get"} /\ Goes(w, IF w \in aborts THEN "off" ELSE "get")
          /\ UNCHANGED <<caller, queue, unfinished, resultQueue, threads, aborts, ends>>
      BY <2>1 DEF Loop
    <3> QED BY <3>1, IdlePreserves
  <2> QED BY <1>2, <2>1, GetPreserves, WorkPreserves, TaskDonePreserves DEF Worker
<1>3. CASE UNCHANGED poolVars
  BY <1>3, StutterPreserves
<1> QED BY <1>1, <1>2, <1>3 DEF PoolNext

\* The tasks of the batch at hand are in the queue, with one thread each, or done, and
\* unfinished counts those that are not (blockchain/concurrency.py).
THEOREM PoolInvariant == PoolSpec => []PoolInv
<1> QED BY InitPool, StepPreserves, PTL DEF PoolSpec

-----------------------------------------------------------------------------
(* The mapping: what Batches sees of the pool.                             *)

Given == IF caller.at \in {"abort", "done"} THEN {} ELSE Handed(caller.batch, caller.put)
Result == [t \in AllTasks |-> IF MarkedDone(t) THEN ends[t] ELSE "none"]

LEMMA Mapping ==
    /\ Promise!BatchInit <=> /\ Given = {} /\ returned = {}
                             /\ Result = [t \in AllTasks |-> "none"]
    /\ Promise!batchVars = <<Given, Result, returned>>
    /\ Promise!Collect <=> /\ Given # {} /\ \A t \in Given : Result[t] # "none"
                           /\ returned' = {t \in Given : Result[t] = "some"}
                           /\ Given' = {} /\ UNCHANGED Result
    /\ \A t : Promise!HandIn(t) <=> /\ t \notin Given /\ Result[t] = "none"
                                    /\ Given' = Given \cup {t} /\ UNCHANGED <<Result, returned>>
    /\ \A t : Promise!Finish(t) <=> /\ t \in Given /\ Result[t] = "none"
                                    /\ \E r \in {"some", "raised"} : Result' = [Result EXCEPT ![t] = r]
                                    /\ UNCHANGED <<Given, returned>>
BY DEF Promise!BatchInit, Promise!batchVars, Promise!Collect, Promise!HandIn, Promise!Finish, Given, Result

\* A step that gives and takes no task leaves what Batches sees.
LEMMA NothingSeen ==
    ASSUME \A w \in Workers : worker'[w].task = worker[w].task, ends' = ends
    PROVE  Result' = Result
BY DEF Result, MarkedDone

\* A step of the pool is a step of Batches.
LEMMA EnqueueHandsIn == PoolInv /\ enqueue => \E t \in AllTasks : Promise!HandIn(t)
<1> SUFFICES ASSUME PoolInv, enqueue PROVE \E t \in AllTasks : Promise!HandIn(t)
  OBVIOUS
<1> DEFINE p == caller.put
           t == Batch[p + 1]
<1>1. PoolTypeOK
  BY DEF PoolInv
<1>2. /\ caller.at = "enqueue" /\ p < Len(Batch) /\ caller' = [caller EXCEPT !.put = @ + 1]
      /\ UNCHANGED <<worker, ends, returned>>
  BY DEF enqueue, CallerAt
<1>3. /\ DOMAIN Batch = 1..Len(Batch) /\ Len(Batch) \in Nat /\ p \in Nat /\ Len(queue) \in Nat
      /\ \A i \in DOMAIN Batch : Batch[i] \in AllTasks
  BY <1>1, BatchAtHand
<1>4. caller'.batch = caller.batch /\ caller'.put = p + 1 /\ caller'.at = "enqueue"
  <2>1. caller \in [at : CallerSteps, batch : DOMAIN Jobs, put : Nat]
    BY <1>1 DEF PoolTypeOK
  <2> QED BY <1>2, <2>1
<1>5. p + 1 \in DOMAIN Batch /\ p + 1 \notin Taken /\ t \in AllTasks
  BY <1>2, <1>3 DEF Taken
<1>6. ends[t] = "none"
  BY <1>5 DEF PoolInv, QueueIsTheRest
<1>7. Result' = Result /\ Result[t] = "none"
  BY <1>2, <1>5, <1>6, NothingSeen DEF Result
<1>8. Given = {Batch[i] : i \in 1..p} /\ Given' = {Batch[i] : i \in 1..(p + 1)}
  BY <1>2, <1>4 DEF Given, Handed, Batch
<1>9. 1..(p + 1) = (1..p) \cup {p + 1}
  BY <1>3
<1>10. t \notin Given
  <2>1. \A i \in 1..p : i \in DOMAIN Batch /\ i # p + 1
    BY <1>2, <1>3
  <2> QED BY <1>1, <1>5, <1>8, <2>1, TasksAreDistinct
<1>11. Given' = Given \cup {t}
  BY <1>8, <1>9
<1>12. Promise!HandIn(t)
  BY <1>2, <1>7, <1>10, <1>11, Mapping
<1> QED BY <1>5, <1>12

LEMMA ResultsCollects == PoolInv /\ results => Promise!Collect
<1> SUFFICES ASSUME PoolInv, results PROVE Promise!Collect
  OBVIOUS
<1>1. /\ caller.at = "results" /\ caller' = [caller EXCEPT !.at = "abort"]
      /\ returned' = ResultsOf(resultQueue) /\ UNCHANGED <<worker, ends>>
  BY DEF results, CallerAt, Go, ResultsOf
<1>2. unfinished = 0 /\ caller.put = Len(Batch) /\ PoolTypeOK
  BY <1>1 DEF PoolInv, JoinedIsFinished
<1>3. Len(queue) = 0 /\ Busy = {}
  BY <1>2, NothingIsLeft
<1>4. /\ DOMAIN Batch = 1..Len(Batch) /\ Len(Batch) \in Nat \ {0}
      /\ \A i \in DOMAIN Batch : Batch[i] \in AllTasks
  BY <1>2, BatchAtHand
<1>5. Taken = 1..Len(Batch)
  BY <1>2, <1>3, <1>4 DEF Taken
<1>6. Given = {Batch[i] : i \in Taken} /\ Given \subseteq AllTasks
  BY <1>1, <1>2, <1>4, <1>5 DEF Given, Handed, Batch
<1>7. Given # {}
  <2>1. 1 \in Taken
    BY <1>4, <1>5
  <2> QED BY <1>6, <2>1
<1>8. \A w \in Workers : worker[w].task = "none"
  BY <1>3 DEF PoolInv, EachHasItsTask
<1>9. \A t \in Given : ends[t] # "none" /\ Result[t] = ends[t]
  <2>1. \A t \in Given : ends[t] # "none"
    BY <1>3, <1>6 DEF PoolInv, EachHasItsTask
  <2> QED BY <1>6, <1>8, <2>1, PoolAssumption DEF Result, MarkedDone
<1>10. returned' = {t \in Given : Result[t] = "some"}
  BY <1>1, <1>6, <1>9 DEF PoolInv, ResultsAreOfTheBatch
<1>11. Given' = {}
  <2>1. caller \in [at : CallerSteps, batch : DOMAIN Jobs, put : Nat]
    BY <1>2 DEF PoolTypeOK
  <2>2. caller'.at = "abort"
    BY <1>1, <2>1
  <2> QED BY <2>2 DEF Given
<1>12. Result' = Result
  BY <1>1, NothingSeen
<1> QED BY <1>7, <1>9, <1>10, <1>11, <1>12, Mapping

LEMMA TaskDoneFinishes ==
    \A w \in Workers : PoolInv /\ TaskDone(w) => \E t \in AllTasks : Promise!Finish(t)
<1> SUFFICES ASSUME PoolInv, NEW w \in Workers, TaskDone(w)
             PROVE  \E t \in AllTasks : Promise!Finish(t)
  OBVIOUS
<1>1. /\ worker[w].at = "finally" /\ worker' = [worker EXCEPT ![w] = [at |-> "loop", task |-> "none"]]
      /\ UNCHANGED <<caller, ends, returned>>
  <2>1. [Off EXCEPT !.at = "loop"] = [at |-> "loop", task |-> "none"]
    BY DEF Off
  <2> QED BY <2>1 DEF TaskDone
<1>2. /\ PoolTypeOK /\ ends \in [AllTasks -> {"none", "some", "raised"}]
      /\ worker \in [Workers -> [at : WorkerSteps, task : AllTasks \cup {"none"}]]
  BY DEF PoolInv, PoolTypeOK
<1>3. w \in Busy /\ Busy \subseteq Workers
  BY <1>1 DEF Busy
<1>4. PICK t \in AllTasks : t = worker[w].task /\ t # "none" /\ caller.at \in {"enqueue", "join"}
  BY <1>3, TaskAtHand
<1>5. PICK i \in Taken : t = Batch[i]
  BY <1>3, <1>4, TaskAtHand
<1>6. t \in Given /\ Given' = Given
  <2>1. i \in 1..caller.put
    BY <1>2, <1>5, BatchAtHand DEF Taken
  <2> QED BY <1>1, <1>4, <1>5, <2>1 DEF Given, Handed, Batch
<1>7. ends[t] \in {"some", "raised"}
  BY <1>1, <1>2, <1>3, <1>4 DEF PoolInv, EachHasItsTask
<1>8. worker'[w].task = "none" /\ \A v \in Workers \ {w} : worker'[v] = worker[v]
  BY <1>1, <1>2
<1>9. \A v \in Workers \ {w} : worker[v].task # t
  <2>1. \A v \in Workers \ Busy : worker[v].task = "none"
    BY DEF PoolInv, EachHasItsTask
  <2>2. \A v \in Busy : worker[v].task = t => v = w
    BY <1>3, <1>4 DEF PoolInv, EachHasItsTask
  <2> QED BY <1>4, <2>1, <2>2
<1>10. ~MarkedDone(t) /\ MarkedDone(t)'
  <2>1. ends'[t] # "none"
    BY <1>1, <1>7
  <2>2. \A v \in Workers : worker'[v].task # t
    BY <1>4, <1>8, <1>9
  <2> QED BY <1>4, <2>1, <2>2 DEF MarkedDone
<1>11. \A u \in AllTasks \ {t} : (MarkedDone(u)' <=> MarkedDone(u))
  <2> SUFFICES ASSUME NEW u \in AllTasks \ {t} PROVE MarkedDone(u)' <=> MarkedDone(u)
    OBVIOUS
  <2>1. u # "none" /\ ends'[u] = ends[u]
    BY <1>1, PoolAssumption
  <2>2. \A v \in Workers : worker'[v].task # u <=> worker[v].task # u
    BY <1>4, <1>8, <2>1
  <2> QED BY <2>1, <2>2 DEF MarkedDone
<1>12. Result[t] = "none" /\ Result' = [Result EXCEPT ![t] = ends[t]]
  BY <1>1, <1>4, <1>10, <1>11 DEF Result
<1>13. Promise!Finish(t)
  BY <1>1, <1>6, <1>7, <1>12, Mapping
<1> QED BY <1>4, <1>13

\* A step that Batches does not see.
Unseen == UNCHANGED <<Given, Result, returned>>

LEMMA CallerUnseen == PoolInv /\ (run \/ join \/ abort) => Unseen
<1> SUFFICES ASSUME PoolInv, run \/ join \/ abort PROVE Unseen
  OBVIOUS
<1>1. PoolTypeOK /\ caller \in [at : CallerSteps, batch : DOMAIN Jobs, put : Nat]
  BY DEF PoolInv, PoolTypeOK
<1>2. CASE run
  <2>1. /\ caller.at = "enqueue" /\ caller' = [caller EXCEPT !.at = "join"]
        /\ UNCHANGED <<ends, returned>> /\ ~alive
        /\ worker' = [w \in Workers |-> IF w \in threads' THEN [Off EXCEPT !.at = "loop"] ELSE worker[w]]
    BY <1>2 DEF run, CallerAt, Go
  <2>2. \A w \in Workers : worker'[w].task = worker[w].task
    BY <2>1, NobodyIsBusy DEF Off
  <2>3. Given' = Given
    BY <1>1, <2>1 DEF Given, Handed
  <2> QED BY <2>1, <2>2, <2>3, NothingSeen DEF Unseen
<1>3. CASE join
  <2>1. /\ caller.at = "join" /\ caller' = [caller EXCEPT !.at = "results"]
        /\ UNCHANGED <<ends, returned, worker>>
    BY <1>3 DEF join, CallerAt, Go
  <2>2. Given' = Given
    BY <1>1, <2>1 DEF Given, Handed
  <2> QED BY <2>1, <2>2, NothingSeen DEF Unseen
<1>4. CASE abort
  <2>1. /\ caller.at = "abort" /\ UNCHANGED <<ends, returned, worker>>
        /\ \/ caller' = [caller EXCEPT !.at = "done"]
           \/ caller' = [at |-> "enqueue", batch |-> caller.batch + 1, put |-> 0]
    BY <1>4 DEF abort, CallerAt
  <2>2. Given = {}
    BY <2>1 DEF Given
  <2>3. Given' = {}
    BY <1>1, <2>1 DEF Given, Handed
  <2> QED BY <2>1, <2>2, <2>3, NothingSeen DEF Unseen
<1> QED BY <1>2, <1>3, <1>4

LEMMA WorkerUnseen == \A w \in Workers : PoolInv /\ (Loop(w) \/ Get(w) \/ Work(w)) => Unseen
<1> SUFFICES ASSUME PoolInv, NEW w \in Workers, Loop(w) \/ Get(w) \/ Work(w) PROVE Unseen
  OBVIOUS
<1>1. /\ PoolTypeOK /\ ends \in [AllTasks -> {"none", "some", "raised"}]
      /\ worker \in [Workers -> [at : WorkerSteps, task : AllTasks \cup {"none"}]]
  BY DEF PoolInv, PoolTypeOK
<1>2. Given' = Given /\ returned' = returned
  <2>1. caller' = caller /\ returned' = returned
    BY DEF Loop, Get, Work
  <2> QED BY <2>1 DEF Given, Handed
<1>3. ASSUME NEW place, Goes(w, place) PROVE \A v \in Workers : worker'[v].task = worker[v].task
  BY <1>1, <1>3 DEF Goes
<1>4. CASE Loop(w)
  <2>1. Goes(w, IF w \in aborts THEN "off" ELSE "get") /\ ends' = ends
    BY <1>4 DEF Loop
  <2>2. \A v \in Workers : worker'[v].task = worker[v].task
    BY <1>3, <2>1
  <2> QED BY <1>2, <2>1, <2>2, NothingSeen DEF Unseen
<1>5. CASE Get(w) /\ queue = <<>>
  <2>1. Goes(w, "loop") /\ ends' = ends
    BY <1>5 DEF Get
  <2>2. \A v \in Workers : worker'[v].task = worker[v].task
    BY <1>3, <2>1
  <2> QED BY <1>2, <2>1, <2>2, NothingSeen DEF Unseen
<1>6. CASE Get(w) /\ queue # <<>>
  <2> DEFINE h == Head(queue)
  <2>1. /\ worker[w].at = "get" /\ worker' = [worker EXCEPT ![w] = [at |-> "work", task |-> h]]
        /\ ends' = ends
    BY <1>6 DEF Get
  <2>2. worker'[w].task = h /\ \A v \in Workers \ {w} : worker'[v] = worker[v]
    BY <1>1, <2>1
  <2>3. worker[w].task = "none"
    BY <2>1 DEF PoolInv, EachHasItsTask, Busy
  <2>4. ends[h] = "none"
    <3>1. queue \in Seq(AllTasks) /\ Len(queue) \in Nat /\ DOMAIN queue = 1..Len(queue)
      BY <1>1, BatchAtHand DEF PoolTypeOK
    <3>2. h = queue[1] /\ 1 \in DOMAIN queue /\ Len(queue) > 0
      BY <1>6, <3>1
    <3>3. h = Batch[caller.put - Len(queue) + 1]
      BY <3>2 DEF PoolInv, QueueIsTheRest
    <3>4. caller.put - Len(queue) + 1 \in DOMAIN Batch \ Taken
      <4>1. /\ DOMAIN Batch = 1..Len(Batch) /\ caller.put \in Nat /\ Len(Batch) \in Nat
            /\ Len(queue) <= caller.put /\ caller.put <= Len(Batch)
        BY <1>1, BatchAtHand DEF PoolInv, QueueIsTheRest
      <4> QED BY <3>1, <3>2, <4>1 DEF Taken
    <3> QED BY <3>3, <3>4 DEF PoolInv, QueueIsTheRest
  <2>5. \A t \in AllTasks : (MarkedDone(t)' <=> MarkedDone(t))
    <3> HIDE DEF h
    <3> QED BY <2>1, <2>2, <2>3, <2>4, PoolAssumption DEF MarkedDone
  <2>6. Result' = Result
    BY <2>1, <2>5 DEF Result
  <2> QED BY <1>2, <2>6 DEF Unseen
<1>7. CASE Work(w)
  <2> w \in Busy
    BY <1>7 DEF Work, Busy
  <2>0. PICK t \in AllTasks : t = worker[w].task
    BY TaskAtHand
  <2>1. /\ worker[w].at = "work" /\ Goes(w, "finally")
        /\ \E r \in {"some", "raised"} : ends' = [ends EXCEPT ![t] = r]
    BY <1>7, <2>0 DEF Work
  <2>2. \A v \in Workers : worker'[v].task = worker[v].task
    BY <1>3, <2>1
  <2>3. \A u \in AllTasks \ {t} : ends'[u] = ends[u]
    BY <1>1, <2>1
  <2>4. ~MarkedDone(t) /\ ~MarkedDone(t)'
    BY <2>0, <2>2 DEF MarkedDone
  <2>5. \A u \in AllTasks : /\ (MarkedDone(u)' <=> MarkedDone(u))
                            /\ MarkedDone(u) => ends'[u] = ends[u]
    <3> SUFFICES ASSUME NEW u \in AllTasks
                 PROVE  (MarkedDone(u)' <=> MarkedDone(u)) /\ (MarkedDone(u) => ends'[u] = ends[u])
      OBVIOUS
    <3>1. CASE u = t
      <4>1. ~MarkedDone(u) /\ ~MarkedDone(u)'
        BY <3>1, <2>4
      <4> HIDE DEF MarkedDone
      <4> QED BY <4>1
    <3>2. CASE u # t
      BY <3>2, <2>2, <2>3 DEF MarkedDone
    <3> QED BY <3>1, <3>2
  <2>6. Result' = Result
    BY <2>5 DEF Result
  <2> QED BY <1>2, <2>6 DEF Unseen
<1> QED BY <1>4, <1>5, <1>6, <1>7

\* The pool implements Batches, save that it goes on: a task is collected in one batch only,
\* when it is done, and the caller gets the results of the tasks of the batch and no others
\* (blockchain/concurrency.py; what must happen in the end is KeepsPromise, of the run).
THEOREM PoolImplementsBatches ==
    PoolSpec => Promise!BatchInit /\ [][Promise!BatchNext]_(Promise!batchVars)
<1>1. PoolInit => Promise!BatchInit
  <2> SUFFICES ASSUME PoolInit PROVE Promise!BatchInit
    OBVIOUS
  <2>1. Given = {} /\ returned = {}
    BY DEF PoolInit, Given, Handed
  <2>2. Result = [t \in AllTasks |-> "none"]
    BY DEF PoolInit, Result, MarkedDone
  <2> QED BY <2>1, <2>2, Mapping
<1>2. PoolInv /\ [PoolNext]_poolVars => [Promise!BatchNext]_(Promise!batchVars)
  <2> SUFFICES ASSUME PoolInv, [PoolNext]_poolVars
               PROVE  Promise!BatchNext \/ UNCHANGED Promise!batchVars
    OBVIOUS
  <2>1. ASSUME Unseen PROVE UNCHANGED Promise!batchVars
    BY <2>1 DEF Unseen, Promise!batchVars, Given, Result
  <2>2. CASE Caller
    BY <2>2, <2>1, EnqueueHandsIn, ResultsCollects, CallerUnseen DEF Caller, Promise!BatchNext
  <2>3. ASSUME NEW w \in Workers, Worker(w)
        PROVE  Promise!BatchNext \/ UNCHANGED Promise!batchVars
    BY <2>3, <2>1, TaskDoneFinishes, WorkerUnseen DEF Worker, Promise!BatchNext
  <2>4. CASE UNCHANGED poolVars
    BY <2>4, <2>1 DEF poolVars, Unseen, Given, Result, MarkedDone, Handed
  <2> QED BY <2>2, <2>3, <2>4 DEF PoolNext
<1> QED BY <1>1, <1>2, PoolInvariant, PTL DEF PoolSpec

-----------------------------------------------------------------------------
(* The stream.                                                             *)

\* What a stream does is, for the generator and for the pool, what it does alone.
LEMMA PartsOfTheStream == StreamSpec => Spec /\ PoolSpec
<1>1. StreamInit => Init /\ PoolInit
  BY DEF StreamInit
<1>2. [StreamNext]_streamVars => [Next]_vars /\ [PoolNext]_poolVars
  BY DEF StreamNext, streamVars, Generator, PoolStep
<1>3. StreamSpec => StreamInit /\ [][StreamNext]_streamVars
  BY PTL DEF StreamSpec
<1> QED
  BY <1>1, <1>2, <1>3, PTL DEF Spec, PoolSpec

\* What was proved of the generator and of the pool holds of the stream that has both.
THEOREM StreamKeepsItsPromises ==
    StreamSpec => /\ [](NoGap /\ NoReplay /\ ReachesStop /\ FollowsSteadyNodes)
                  /\ Promise!BatchInit /\ [][Promise!BatchNext]_(Promise!batchVars)
<1>1. Spec => [](NoGap /\ NoReplay /\ ReachesStop /\ FollowsSteadyNodes)
  BY StreamHasNoGap, StreamHasNoReplay, StreamReachesStop, StreamFollows, PTL
<1> QED
  BY <1>1, PartsOfTheStream, PoolImplementsBatches
================================================================================
