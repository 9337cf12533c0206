----------------------------- MODULE Session_proofs -----------------------------
(***************************************************************************)
(* Theorems about Session, for every wallet, every choice of options and   *)
(* every number of processes and commands, and for every set of scripts    *)
(* that keeps the rules of SessionScripts.                                 *)
(***************************************************************************)
EXTENDS SessionScripts, SequenceTheorems, WellFoundedInduction, TLAPS

\* How a step leaves the script: at a later point of it or in one of its alternatives ...
Moves ==
    /\ \/ \E k \in 0..Len(todo) : todo' = Suffix(todo, k)
       \/ It.do = "either" /\ \E i \in DOMAIN It.of : todo' = It.of[i] \o Rest
       \/ It.do \in {"if", "try"} /\ todo' = It.of \o Rest
    /\ outcome' = outcome

\* ... or at its end, with an exception that nothing catches.
Dies ==
    /\ todo' = <<>> /\ outcome' \in {"failed", "refused"}
    /\ It.do \notin Calm /\ ~Caught(todo)

\* A step that sends something, but nothing from the buffer.
SendsElsewhere ==
    /\ buffer' = buffer /\ ~FromBuffer(sent')
    /\ ~opts.nobroadcast /\ ~opts.offline

-----------------------------------------------------------------------------
\* The operators.

LEMMA LeastElement ==
    ASSUME NEW T, T \subseteq Nat, T # {}
    PROVE  \E x \in T : \A y \in T : x <= y
<1> DEFINE Before == {ss \in Nat \X Nat : ss[1] < ss[2]}
<1>1. IsWellFoundedOn(Before, Nat)
  BY NatLessThanWellFounded DEF OpToRel
<1> HIDE DEF Before
<1>2. PICK x \in T : \A y \in T : ~(<<y, x>> \in Before)
  BY <1>1, WFMin
<1>3. \A y \in T : ~(y < x)
  BY <1>2 DEF Before
<1> QED
  BY <1>3

\* What an exception does: a handler goes on with a later part of the script.
LEMMA RaisesEnds ==
    ASSUME NEW S, todo \in Seq(S), NEW how, Raises(how)
    PROVE  \/ \E k \in 0..Len(todo) : todo' = Suffix(todo, k) /\ outcome' = outcome
           \/ todo' = <<>> /\ outcome' = how /\ ~Caught(todo)
<1>1. CASE Handlers = {}
  BY <1>1 DEF Raises, Handlers, Caught
<1>2. CASE Handlers # {}
  <2> DEFINE h == CHOOSE i \in Handlers : \A j \in Handlers : i <= j
  <2>1. Len(todo) \in Nat /\ Handlers \subseteq 1..Len(todo)
    BY LenProperties DEF Handlers
  <2>0. Handlers \subseteq Nat
    BY <2>1
  <2>2. \E i \in Handlers : \A j \in Handlers : i <= j
    BY <1>2, <2>0, LeastElement
  <2>3. h \in Handlers
    BY <2>2
  <2>4. todo' = SubSeq(todo, h + 1, Len(todo)) /\ outcome' = outcome
    BY <1>2 DEF Raises
  <2> HIDE DEF h
  <2>5. h \in 0..Len(todo)
    BY <2>1, <2>3
  <2> QED
    BY <2>4, <2>5 DEF Suffix
<1> QED
  BY <1>1, <1>2

LEMMA RestIsSuffix ==
    ASSUME NEW S, todo \in Seq(S), todo # <<>>
    PROVE  Rest = Suffix(todo, 1) /\ 1 \in 0..Len(todo) /\ <<>> = Suffix(todo, Len(todo))
<1>1. Len(todo) \in Nat /\ Len(todo) >= 1
  BY EmptySeq, LenProperties
<1>2. Rest = SubSeq(todo, 2, Len(todo))
  BY DEF Rest
<1>3. SubSeq(todo, Len(todo) + 1, Len(todo)) = <<>>
  BY <1>1
<1> QED
  BY <1>1, <1>2, <1>3 DEF Suffix

LEMMA GoesOnMoves ==
    ASSUME NEW S, todo \in Seq(S), todo # <<>>
    PROVE  /\ GoesOn => Moves
           /\ Returns => Moves
           /\ \A how \in {"failed", "refused"} :
                 Raises(how) /\ It.do \notin Calm => Moves \/ Dies
<1>1. GoesOn => Moves
  BY RestIsSuffix DEF GoesOn, Moves
<1>2. Returns => Moves
  <2>1. Len(todo) \in 0..Len(todo)
    BY LenProperties
  <2> QED
    BY <2>1, RestIsSuffix DEF Returns, Moves
<1>3. ASSUME NEW how \in {"failed", "refused"}, Raises(how), It.do \notin Calm PROVE Moves \/ Dies
  BY <1>3, RaisesEnds DEF Moves, Dies
<1> QED
  BY <1>1, <1>2, <1>3

LEMMA Predecessor ==
    ASSUME NEW n \in Nat, NEW x \in 1..n, NEW j \in 1..x, j # 1
    PROVE  j - 1 \in 1..n /\ ~(x <= j - 1) /\ (j - 1) + 1 = j
  OBVIOUS

\* Several reads in a row are one step.
LEMMA ReadSkips ==
    ASSUME NEW S, todo \in Seq(S), Read
    PROVE  /\ todo # <<>> /\ It.do \in Reads
           /\ \/ Raises("failed")
              \/ \E k \in DOMAIN todo : /\ \A j \in 1..k : todo[j].do \in Reads
                                       /\ todo' = Suffix(todo, k) /\ outcome' = outcome
<1> DEFINE P(i) == /\ \A j \in 1..i : todo[j].do \in Reads
                   /\ i = Len(todo) \/ todo[i + 1].do \notin Reads
           n == CHOOSE i \in DOMAIN todo : P(i)
           T == {i \in 1..Len(todo) : i = Len(todo) \/ todo[i + 1].do \notin Reads}
<1>1. todo # <<>> /\ It.do \in Reads /\ It = todo[1]
  BY DEF Read, It
<1>2. Len(todo) \in Nat /\ Len(todo) >= 1 /\ DOMAIN todo = 1..Len(todo)
  BY <1>1, EmptySeq, LenProperties
<1>3. T # {} /\ T \subseteq Nat
  BY <1>2
<1>4. PICK x \in T : \A y \in T : x <= y
  BY <1>3, LeastElement
<1>5. /\ x \in 1..Len(todo) /\ x \in Nat
      /\ x = Len(todo) \/ todo[x + 1].do \notin Reads
      /\ \A y \in 1..Len(todo) : ~(x <= y) => todo[y + 1].do \in Reads
  BY <1>3, <1>4
<1> HIDE DEF T
<1>10. \A j \in 1..x : todo[j].do \in Reads
  <2> SUFFICES ASSUME NEW j \in 1..x, j # 1 PROVE todo[j].do \in Reads
    BY <1>1
  <2>1. j - 1 \in 1..Len(todo) /\ ~(x <= j - 1) /\ (j - 1) + 1 = j
    BY <1>2, <1>5, Predecessor
  <2> DEFINE i == j - 1
  <2> HIDE DEF i
  <2>2. i \in 1..Len(todo) /\ ~(x <= i) /\ i + 1 = j
    BY <2>1 DEF i
  <2> QED
    BY <1>5, <2>2
<1>6. n \in DOMAIN todo /\ P(n)
  <2>1. \E i \in DOMAIN todo : P(i)
    BY <1>2, <1>5, <1>10
  <2> HIDE DEF P
  <2> QED
    BY <2>1
<1>7. (todo' = SubSeq(todo, n + 1, Len(todo)) /\ outcome' = outcome) \/ Raises("failed")
  BY DEF Read
<1>8. \A j \in 1..n : todo[j].do \in Reads
  BY <1>6
<1> HIDE DEF n, P
<1> QED
  BY <1>1, <1>6, <1>7, <1>8 DEF Suffix

LEMMA ReadMoves ==
    ASSUME NEW S, todo \in Seq(S), Read
    PROVE  Moves \/ Dies
<1>1. DOMAIN todo \subseteq 0..Len(todo)
  BY LenProperties
<1>2. It.do \notin Calm
  BY ReadSkips DEF Reads, Calm
<1> QED
  BY <1>1, <1>2, ReadSkips, GoesOnMoves DEF Moves

\* Every step of a script goes on in it, or ends it with an exception.
LEMMA RunMoves ==
    ASSUME NEW S, todo \in Seq(S), Run
    PROVE  todo # <<>> /\ (Moves \/ Dies \/ UNCHANGED <<todo, outcome>>)
<1>1. todo # <<>>
  BY DEF Run, Read, Check, Branch, Wallet, Unlock, Derive, AddKey, UseKey, DeleteKey, Wipe,
      Password, Lock, SetNodes, Rotate, Transaction, Finalize, FinalizeOffline, FinalizeUnsigned,
      FinalizeFails, FinalizeSends, SendOwn, ExportOwn, SignFile, BroadcastFile, Does
<1> DEFINE Ends == \/ GoesOn \/ Returns
                   \/ It.do \notin Calm /\ \E how \in {"failed", "refused"} : Raises(how)
<1>2. ASSUME Check \/ Derive \/ DeleteKey \/ Lock \/ SetNodes \/ FinalizeOffline PROVE Ends
  BY <1>2 DEF Check, Derive, DeleteKey, Lock, SetNodes, FinalizeOffline
<1>3. ASSUME Unlock \/ AddKey \/ UseKey \/ Wipe \/ Password PROVE Ends
  BY <1>3 DEF Unlock, AddKey, UseKey, Wipe, Password, Does, It, Calm
<1>4. ASSUME FinalizeUnsigned \/ FinalizeFails \/ FinalizeSends PROVE Ends
  BY <1>4 DEF FinalizeUnsigned, FinalizeFails, FinalizeSends, SendTo, Does, It, Calm
<1>5. ASSUME SendOwn \/ ExportOwn \/ SignFile \/ BroadcastFile PROVE Ends
  BY <1>5 DEF SendOwn, ExportOwn, SignFile, BroadcastFile, SendTo, Does, It, Calm
<1>6. Ends => Moves \/ Dies
  BY <1>1, GoesOnMoves
<1>7. CASE Branch
  <2>1. <<>> \o Rest = Rest
    BY <1>1, ConcatProperties, HeadTailProperties DEF Rest
  <2>2. \/ Moves
        \/ todo' = Rest /\ outcome' = outcome
    BY <1>7, <2>1 DEF Branch, Moves, Does, It
  <2> QED
    BY <1>1, <2>2, GoesOnMoves DEF GoesOn
<1>8. CASE Rotate
  BY <1>1, <1>8, GoesOnMoves DEF Rotate
<1> HIDE DEF Ends
<1> QED
  BY <1>1, <1>2, <1>3, <1>4, <1>5, <1>6, <1>7, <1>8, ReadMoves DEF Run, Wallet, Transaction,
      Finalize

\* What is left of a script is in every set that is closed under steps and holds
\* the script.
LEMMA MovesWithin ==
    ASSUME NEW S, NEW X \in SUBSET Seq(S), ClosedUnderSteps(X), todo \in X, Run
    PROVE  todo' \in X
<1>1. todo # <<>> /\ (Moves \/ Dies \/ UNCHANGED <<todo, outcome>>)
  BY RunMoves
<1>2. CASE Moves
  BY <1>1, <1>2 DEF Moves, ClosedUnderSteps, It, Rest
<1>3. CASE Dies \/ UNCHANGED <<todo, outcome>>
  BY <1>3 DEF Dies, ClosedUnderSteps
<1> QED
  BY <1>1, <1>2, <1>3

\* The outcome is known only when nothing is left to do.
LEMMA OutcomeLast ==
    ASSUME NEW S, todo \in Seq(S), Run
    PROVE  todo' # <<>> => outcome' = outcome
<1> QED
  BY RunMoves DEF Moves, Dies

\* The transaction in the file says where it comes from.
TrxInFile == "from" \in DOMAIN trx

LEMMA RunEffects ==
    ASSUME Run, TrxInFile
    PROVE  /\ opts' = opts /\ broke' = broke
           /\ \/ UNCHANGED <<buffer, sent>>
              \/ FinalizeUnsigned \/ FinalizeFails \/ FinalizeSends
              \/ SendsElsewhere
<1>1. CASE Read \/ Check \/ Branch \/ SetNodes \/ Rotate
  BY <1>1 DEF Read, Check, Branch, SetNodes, Rotate, process, ledger
<1>2. CASE Wallet
  BY <1>2 DEF Wallet, Unlock, Derive, AddKey, UseKey, DeleteKey, Wipe, Password, Lock, process,
      ledger
<1>3. CASE FinalizeOffline \/ ExportOwn \/ SignFile
  BY <1>3 DEF FinalizeOffline, ExportOwn, SignFile, process, ledger
<1>4. CASE FinalizeUnsigned \/ FinalizeFails \/ FinalizeSends
  BY <1>4 DEF FinalizeUnsigned, FinalizeFails, FinalizeSends, process
<1>5. CASE SendOwn
  <2>1. opts' = opts /\ broke' = broke /\ buffer' = buffer
    BY <1>5 DEF SendOwn, process
  <2>2. \/ UNCHANGED sent
        \/ ~opts.offline /\ ~opts.nobroadcast /\ sent'.from = "own"
    BY <1>5 DEF SendOwn, SendTo, ledger
  <2> QED
    BY <2>1, <2>2 DEF SendsElsewhere, FromBuffer
<1>6. CASE BroadcastFile
  <2>1. opts' = opts /\ broke' = broke /\ buffer' = buffer
    BY <1>6 DEF BroadcastFile, process
  <2>2. \/ UNCHANGED sent
        \/ ~opts.offline /\ ~opts.nobroadcast /\ sent' = [trx EXCEPT !.from = "file"]
    BY <1>6 DEF BroadcastFile, SendTo, ledger
  <2>3. [trx EXCEPT !.from = "file"].from # "buffer"
    BY DEF TrxInFile
  <2> QED
    BY <2>1, <2>2, <2>3 DEF SendsElsewhere, FromBuffer
<1> QED
  BY <1>1, <1>2, <1>3, <1>4, <1>5, <1>6 DEF Run, Transaction, Finalize

LEMMA RunTrx == Run /\ TrxInFile => TrxInFile'
<1> SUFFICES ASSUME Run, TrxInFile PROVE TrxInFile'
  OBVIOUS
<1>1. ASSUME NEW ops, NEW wifs, NEW from, Exports([ops |-> ops, wifs |-> wifs, from |-> from])
      PROVE  TrxInFile'
  BY <1>1 DEF Exports, TrxInFile
<1>2. CASE UNCHANGED trx
  BY <1>2 DEF TrxInFile
<1>3. CASE FinalizeUnsigned
  BY <1>1, <1>2, <1>3 DEF FinalizeUnsigned
<1>4. CASE FinalizeSends
  BY <1>1, <1>2, <1>4 DEF FinalizeSends
<1>5. CASE SendOwn
  BY <1>1, <1>2, <1>5 DEF SendOwn
<1>6. CASE ExportOwn
  BY <1>1, <1>2, <1>6 DEF ExportOwn
<1>7. UNCHANGED trx \/ FinalizeUnsigned \/ FinalizeSends \/ SendOwn \/ ExportOwn
  BY DEF Run, Read, Check, Branch, Wallet, Unlock, Derive, AddKey, UseKey, DeleteKey, Wipe,
      Password, Lock, SetNodes, Rotate, Transaction, Finalize, FinalizeOffline, FinalizeFails,
      SignFile, BroadcastFile
<1> QED
  BY <1>2, <1>3, <1>4, <1>5, <1>6, <1>7

LEMMA OpFields ==
    \A name : /\ Op(name).needs = Needs(name) /\ Op(name).changes = Changes(name)
              /\ Op(name).by = "this"
  BY DEF Op

-----------------------------------------------------------------------------
\* Dry runs.

DryInv == DryRunSendsNothing /\ TrxInFile

LEMMA DryInit == Init => DryInv
  BY DEF Init, DryInv, DryRunSendsNothing, TrxInFile, Nothing

LEMMA DryStep == DryInv /\ [Next]_vars => DryInv'
<1> SUFFICES ASSUME DryInv, [Next]_vars PROVE DryInv'
  OBVIOUS
<1> USE DEF DryInv
<1>1. CASE NewProcess \/ Choose
  BY <1>1 DEF NewProcess, Choose, DryRunSendsNothing, TrxInFile
<1>2. CASE Run
  <2>1. TrxInFile' /\ opts' = opts
    BY <1>2, RunTrx, RunEffects
  <2>2. sent' = sent \/ (~opts.nobroadcast /\ ~opts.offline)
    <3>1. CASE FinalizeSends
      BY <3>1 DEF FinalizeSends, ledger
    <3>2. CASE FinalizeUnsigned \/ FinalizeFails
      BY <3>2 DEF FinalizeUnsigned, FinalizeFails, ledger
    <3> QED
      BY <1>2, <3>1, <3>2, RunEffects DEF SendsElsewhere
  <2> QED
    BY <2>1, <2>2 DEF DryRunSendsNothing
<1>3. CASE UNCHANGED vars
  BY <1>3 DEF vars, DryRunSendsNothing, TrxInFile
<1> QED
  BY <1>1, <1>2, <1>3 DEF Next

\* With --no-broadcast, and offline, nothing is sent: by no script whatever, of no
\* length, from no buffer and no file.
THEOREM DryRuns == Spec => []DryRunSendsNothing
<1>1. Spec => []DryInv
  BY DryInit, DryStep, PTL DEF Spec
<1>2. DryInv => DryRunSendsNothing
  BY DEF DryInv
<1> QED
  BY <1>1, <1>2, PTL

-----------------------------------------------------------------------------
\* What a command sends is its own.

\* A process that has not failed, and does not leave transactions unsigned, has an empty
\* buffer between two steps: finalizeOp either clears it or raises.
BufferEmpty == ~broke /\ ~opts.unsigned /\ outcome = "ok" => buffer = EmptyBuffer

OwnWorkInv(G) ==
    /\ TrxInFile
    /\ todo \in G
    /\ todo # <<>> => outcome = "ok"
    /\ ~opts.program => ~broke
    /\ BufferEmpty
    /\ OnlyOwnOperations

LEMMA OwnWorkInit ==
    ASSUME NEW S, NEW G, Lawful(S, G), Init
    PROVE  OwnWorkInv(G)
<1> QED
  BY DEF Init, OwnWorkInv, BufferEmpty, OnlyOwnOperations, FromBuffer, Nothing, Lawful,
      ClosedUnderSteps, TrxInFile

\* What is built on an empty buffer.
LEMMA BuiltAfresh ==
    ASSUME NEW S, NEW G, Lawful(S, G), OwnWorkInv(G), It.do = "finalize", todo # <<>>,
           ~broke, ~opts.unsigned
    PROVE  /\ Appended = [EmptyBuffer EXCEPT !.ops = OpsOf(It.ops)]
           /\ DOMAIN OpsOf(It.ops) = DOMAIN It.ops
           /\ \A i \in DOMAIN It.ops : OpsOf(It.ops)[i] = Op(It.ops[i])
<1>1. buffer = EmptyBuffer
  BY DEF OwnWorkInv, BufferEmpty
<1>2. It.ops \in Seq(STRING)
  BY DEF Lawful, RolesSuffice, OwnWorkInv, It
<1>3. /\ DOMAIN OpsOf(It.ops) = DOMAIN It.ops
      /\ \A i \in DOMAIN It.ops : OpsOf(It.ops)[i] = Op(It.ops[i])
  BY DEF OpsOf
<1> DEFINE R == {Op(x) : x \in STRING}
<1>4. OpsOf(It.ops) \in Seq(R)
  <2>1. Len(It.ops) \in Nat /\ DOMAIN It.ops = 1..Len(It.ops)
    BY <1>2, LenProperties
  <2>2. OpsOf(It.ops) = [i \in 1..Len(It.ops) |-> Op(It.ops[i])]
    BY <2>1 DEF OpsOf
  <2>3. \A i \in 1..Len(It.ops) : Op(It.ops[i]) \in R
    BY <1>2, <2>1
  <2> HIDE DEF R
  <2>4. OpsOf(It.ops) \in [1..Len(It.ops) -> R]
    BY <2>2, <2>3
  <2> QED
    BY <2>1, <2>4, SeqDef
<1>5. <<>> \o OpsOf(It.ops) = OpsOf(It.ops)
  BY <1>4, ConcatProperties
<1>6. Appended = [EmptyBuffer EXCEPT !.ops = OpsOf(It.ops)]
  BY <1>1, <1>5 DEF Appended, EmptyBuffer
<1> QED
  BY <1>3, <1>6

\* What is signed and sent from an empty buffer.
LEMMA SentAfresh ==
    ASSUME NEW S, NEW G, Lawful(S, G), OwnWorkInv(G), FinalizeSends, ~broke
    PROVE  /\ It.do = "finalize" /\ todo # <<>> /\ ~opts.unsigned
           /\ \/ sent' = sent /\ (GoesOn \/ Raises("refused"))
              \/ /\ FromBuffer(sent') /\ sent'.ops = OpsOf(It.ops)
                 /\ \E age \in SeenKeys : sent'.wifs = Found(It.role, age) /\ sent'.wifs # {}
                 /\ GoesOn \/ Raises("refused")
<1>1. It.do = "finalize" /\ todo # <<>> /\ ~opts.unsigned
  BY DEF FinalizeSends, Does, It
<1>2. Appended = [ops |-> OpsOf(It.ops), dict |-> <<>>, wifs |-> {}, signer |-> FALSE]
  BY <1>1, BuiltAfresh DEF EmptyBuffer
<1>3. PICK age \in SeenKeys :
         LET b == WithSigner(Appended, It.role, age)
             t == [ops |-> b.ops, wifs |-> b.wifs, from |-> "buffer"]
         IN /\ b.wifs # {}
            /\ \/ GoesOn /\ sent' = sent
               \/ SendTo(t)
  BY DEF FinalizeSends, ledger
<1> DEFINE b == WithSigner(Appended, It.role, age)
           t == [ops |-> b.ops, wifs |-> b.wifs, from |-> "buffer"]
<1>4. b = [ops |-> OpsOf(It.ops), dict |-> <<>>, wifs |-> Found(It.role, age), signer |-> TRUE]
  BY <1>2 DEF WithSigner
<1>5. b.ops = OpsOf(It.ops) /\ b.wifs = Found(It.role, age)
  BY <1>4
<1>6. t.ops = OpsOf(It.ops) /\ t.wifs = Found(It.role, age) /\ t.from = "buffer"
  BY <1>5
<1>7. (GoesOn /\ sent' = sent) \/ SendTo(t)
  BY <1>3
<1>8. t.wifs # {}
  BY <1>3
<1> HIDE DEF t, b
<1>9. CASE SendTo(t)
  BY <1>1, <1>6, <1>8, <1>9 DEF SendTo, FromBuffer
<1> QED
  BY <1>1, <1>7, <1>9

\* A step of a script, seen from the buffer of a process that has not failed.
LEMMA RunKeepsBuffer ==
    ASSUME NEW S, NEW G, Lawful(S, G), OwnWorkInv(G), Run, ~broke
    PROVE  BufferEmpty' /\ OnlyOwnOperations'
<1>1. /\ opts' = opts /\ broke' = broke
      /\ \/ UNCHANGED <<buffer, sent>>
         \/ FinalizeUnsigned \/ FinalizeFails \/ FinalizeSends
         \/ SendsElsewhere
  BY RunEffects DEF OwnWorkInv
<1>2. todo # <<>> /\ outcome = "ok" /\ todo \in G /\ todo \in Seq(S)
  BY RunMoves DEF OwnWorkInv, Lawful
<1>3. CASE UNCHANGED <<buffer, sent>>
  BY <1>1, <1>2, <1>3 DEF OwnWorkInv, BufferEmpty, OnlyOwnOperations
<1>4. CASE FinalizeUnsigned
  BY <1>1, <1>4 DEF FinalizeUnsigned, ledger, OwnWorkInv, BufferEmpty, OnlyOwnOperations
<1>5. CASE FinalizeFails
  <2>1. It.do = "finalize" /\ ~Caught(todo)
    BY <1>2, <1>5 DEF FinalizeFails, Does, It, Lawful, FinalizeUncaught
  <2>2. outcome' = "failed"
    <3>1. Handlers = {}
      BY <2>1 DEF Handlers, Caught
    <3> QED
      BY <1>5, <3>1 DEF FinalizeFails, Raises
  <2> QED
    BY <1>1, <1>5, <2>2 DEF FinalizeFails, ledger, OwnWorkInv, BufferEmpty, OnlyOwnOperations
<1>6. CASE FinalizeSends
  <2>1. buffer' = EmptyBuffer
    BY <1>6 DEF FinalizeSends, Cleared
  <2>2. It.do = "finalize" /\ ~opts.unsigned
        /\ (sent' = sent \/ sent'.ops = OpsOf(It.ops))
    BY <1>6, SentAfresh
  <2>3. OnlyOwnOperations'
    <3>1. CASE sent' = sent
      BY <1>1, <3>1 DEF OwnWorkInv, OnlyOwnOperations
    <3>2. CASE sent'.ops = OpsOf(It.ops)
      <4>1. /\ DOMAIN OpsOf(It.ops) = DOMAIN It.ops
            /\ \A i \in DOMAIN It.ops : OpsOf(It.ops)[i] = Op(It.ops[i])
        BY <1>2, <2>2, BuiltAfresh
      <4>2. \A i \in DOMAIN It.ops : OpsOf(It.ops)[i].by = "this"
        BY <4>1, OpFields
      <4>3. \A i \in DOMAIN sent'.ops : sent'.ops[i].by = "this"
        BY <3>2, <4>1, <4>2
      <4> QED
        BY <4>3 DEF OnlyOwnOperations
    <3> QED
      BY <2>2, <3>1, <3>2
  <2> QED
    BY <2>1, <2>3 DEF BufferEmpty
<1>7. CASE SendsElsewhere
  BY <1>1, <1>2, <1>7 DEF SendsElsewhere, OwnWorkInv, BufferEmpty, OnlyOwnOperations
<1> QED
  BY <1>1, <1>3, <1>4, <1>5, <1>6, <1>7

LEMMA OwnWorkStep ==
    ASSUME NEW S, NEW G, Lawful(S, G), OwnWorkInv(G), [Next]_vars
    PROVE  OwnWorkInv(G)'
<1>1. CASE NewProcess
  BY <1>1 DEF NewProcess, OwnWorkInv, BufferEmpty, OnlyOwnOperations, FromBuffer, Nothing,
      TrxInFile
<1>2. CASE Choose
  <2>1. todo' \in G /\ opts' = opts /\ outcome' = "ok" /\ sent' = Nothing /\ trx' = trx
    BY <1>2 DEF Choose, Lawful
  <2>2. ~broke' => ~broke /\ outcome = "ok"
    BY <1>2 DEF Choose
  <2>3. ~opts.program => ~broke'
    BY <1>2 DEF Choose, OwnWorkInv
  <2>4. BufferEmpty'
    <3> SUFFICES ASSUME ~broke', ~opts.unsigned PROVE buffer' = EmptyBuffer
      BY <2>1 DEF BufferEmpty
    <3>1. buffer = EmptyBuffer
      BY <2>2 DEF OwnWorkInv, BufferEmpty
    <3>2. Earlier(buffer.ops) = <<>>
      BY <3>1 DEF Earlier, EmptyBuffer
    <3>3. buffer' = [buffer EXCEPT !.ops = Earlier(buffer.ops)]
      BY <1>2 DEF Choose
    <3> QED
      BY <3>1, <3>2, <3>3 DEF EmptyBuffer
  <2> QED
    BY <2>1, <2>3, <2>4 DEF OwnWorkInv, OnlyOwnOperations, FromBuffer, Nothing, TrxInFile
<1>3. CASE Run
  <2>1. G \in SUBSET Seq(S) /\ ClosedUnderSteps(G) /\ todo \in G /\ todo \in Seq(S)
    BY DEF Lawful, OwnWorkInv
  <2>2. todo' \in G
    BY <1>3, <2>1, MovesWithin
  <2>3. todo' # <<>> => outcome' = "ok"
    BY <1>3, <2>1, OutcomeLast, RunMoves DEF OwnWorkInv
  <2>4. opts' = opts /\ broke' = broke /\ TrxInFile'
    BY <1>3, RunEffects, RunTrx DEF OwnWorkInv
  <2>5. BufferEmpty' /\ OnlyOwnOperations'
    <3>1. CASE ~broke
      BY <1>3, <3>1, RunKeepsBuffer
    <3>2. CASE broke
      BY <2>4, <3>2 DEF BufferEmpty, OnlyOwnOperations
    <3> QED
      BY <3>1, <3>2
  <2> QED
    BY <2>2, <2>3, <2>4, <2>5 DEF OwnWorkInv
<1>4. CASE UNCHANGED vars
  BY <1>4 DEF vars, OwnWorkInv, BufferEmpty, OnlyOwnOperations, TrxInFile
<1> QED
  BY <1>1, <1>2, <1>3, <1>4 DEF Next

\* The keys found for a role are keys that the chain accepts for the operations a lawful
\* script signs with it, and keys of the age that was asked for.
LEMMA FoundStands ==
    ASSUME NEW role, NEW age, NEW w \in Found(role, age)
    PROVE  w.age = age /\ w.role \in StandsFor(role) \cup {"owner"}
<1>1. \A r : \A k \in {Own(r, age)} \cap Held : k.age = age /\ k.role = r
  BY DEF Own
<1>2. /\ role \in StandsFor(role)
      /\ role = "posting" => "active" \in StandsFor(role)
  BY DEF StandsFor
<1> QED
  BY <1>1, <1>2 DEF Found

LEMMA AuthorisedStep ==
    ASSUME NEW S, NEW G, Lawful(S, G), OwnWorkInv(G), [Next]_vars,
           FromBuffer(sent'), sent' # sent, ~broke, known.keys = chain.keys
    PROVE  Authorised(sent')
<1>1. FinalizeSends
  <2>1. ~NewProcess /\ ~Choose /\ ~UNCHANGED vars
    BY DEF NewProcess, Choose, FromBuffer, Nothing, vars
  <2>2. Run
    BY <2>1 DEF Next
  <2> QED
    BY <2>2, RunEffects DEF FinalizeUnsigned, FinalizeFails, ledger, SendsElsewhere, OwnWorkInv
<1>2. /\ It.do = "finalize" /\ todo # <<>> /\ ~opts.unsigned
      /\ sent'.ops = OpsOf(It.ops)
      /\ \E age \in SeenKeys : sent'.wifs = Found(It.role, age) /\ sent'.wifs # {}
  BY <1>1, SentAfresh
<1>3. sent'.wifs = Found(It.role, chain.keys) /\ sent'.wifs # {}
  BY <1>2 DEF SeenKeys
<1>4. PICK w \in sent'.wifs : w.age = chain.keys /\ w.role \in StandsFor(It.role) \cup {"owner"}
  BY <1>3, FoundStands
<1>5. /\ DOMAIN OpsOf(It.ops) = DOMAIN It.ops
      /\ \A i \in DOMAIN It.ops : OpsOf(It.ops)[i] = Op(It.ops[i])
  BY <1>2, BuiltAfresh
<1>6. \A i \in DOMAIN It.ops : w.role \in StandsFor(Needs(It.ops[i]))
  <2>1. todo \in G \ {<<>>} /\ RolesSuffice(G)
    BY <1>2 DEF Lawful, OwnWorkInv
  <2>2. \A i \in DOMAIN It.ops :
           StandsFor(It.role) \cup {"owner"} \subseteq StandsFor(Needs(It.ops[i]))
    BY <1>2, <2>1 DEF RolesSuffice, It
  <2> QED
    BY <1>4, <2>2
<1>7. \A i \in DOMAIN sent'.ops : sent'.ops[i].needs = Needs(It.ops[i])
  BY <1>2, <1>5, OpFields
<1> QED
  BY <1>2, <1>4, <1>5, <1>6, <1>7 DEF Authorised

\* What a command sends from the shared buffer holds no operation of an earlier command or
\* call of a process that has not failed: with any wallet, for any number of processes and
\* commands.
THEOREM SendsItsOwnWork ==
    ASSUME NEW S, NEW G, Lawful(S, G)
    PROVE  Spec => []OnlyOwnOperations
<1>1. Init => OwnWorkInv(G)
  BY OwnWorkInit
<1>2. OwnWorkInv(G) /\ [Next]_vars => OwnWorkInv(G)'
  BY OwnWorkStep
<1>3. OwnWorkInv(G) => OnlyOwnOperations
  BY DEF OwnWorkInv
<1> QED
  BY <1>1, <1>2, <1>3, PTL DEF Spec

\* It is signed with the keys that the chain asks for, unless keys were changed since the
\* process began: with any wallet that has a key of the role, or one that stands for it.
THEOREM SignsWithTheRightKeys ==
    ASSUME NEW S, NEW G, Lawful(S, G)
    PROVE  Spec => SentIsAuthorised
<1> DEFINE A == FromBuffer(sent') /\ sent' # sent /\ ~broke /\ known.keys = chain.keys
                => Authorised(sent')
<1>1. Init => OwnWorkInv(G)
  BY OwnWorkInit
<1>2. OwnWorkInv(G) /\ [Next]_vars => OwnWorkInv(G)'
  BY OwnWorkStep
<1>3. OwnWorkInv(G) /\ [Next]_vars => [A]_vars
  BY AuthorisedStep
<1> QED
  BY <1>1, <1>2, <1>3, PTL DEF Spec, SentIsAuthorised

-----------------------------------------------------------------------------
\* A command that fails has sent nothing.

\* What was sent does more than claim an account.
Committed == FromBuffer(sent) /\ \E i \in DOMAIN sent.ops : sent.ops[i].changes # "claims"

\* Once that is sent, the rest of the command line is one that cannot fail.
CommitInv(L, Q) ==
    ~opts.program =>
        /\ todo \in L
        /\ Committed => todo \in Q /\ outcome # "failed"

LEMMA CommitInit ==
    ASSUME NEW S, NEW L, NEW Q, LawfulLines(S, L, Q), Init
    PROVE  CommitInv(L, Q)
<1> QED
  BY DEF Init, CommitInv, Committed, FromBuffer, Nothing, LawfulLines, ClosedUnderSteps

\* A step that sends nothing goes on in what cannot fail.
LEMMA QuietStep ==
    ASSUME NEW S, NEW L, NEW Q, LawfulLines(S, L, Q), CommitInv(L, Q), Run,
           ~opts.program, Committed
    PROVE  todo' \in Q /\ outcome' # "failed"
<1>1. /\ Q \in SUBSET Seq(S) /\ ClosedUnderSteps(Q) /\ todo \in Q /\ todo \in Seq(S)
      /\ outcome # "failed"
  BY DEF LawfulLines, CommitInv
<1>2. todo' \in Q
  BY <1>1, MovesWithin
<1>3. todo # <<>> /\ (Moves \/ Dies \/ UNCHANGED <<todo, outcome>>)
  BY <1>1, RunMoves
<1>4. ~Dies
  BY <1>1, <1>3 DEF Dies, LawfulLines, NothingFails, It
<1> QED
  BY <1>1, <1>2, <1>3, <1>4 DEF Moves

\* A finalizeOp that sends is the last step that may fail, or only claims.
LEMMA SendingStep ==
    ASSUME NEW S, NEW G, Lawful(S, G), NEW L, NEW Q, LawfulLines(S, L, Q),
           OwnWorkInv(G), CommitInv(L, Q), FinalizeSends, ~opts.program,
           sent' # sent, Committed'
    PROVE  todo' \in Q /\ outcome' # "failed"
<1>1. ~broke /\ todo \in L /\ todo \in G
  BY DEF OwnWorkInv, CommitInv
<1>2. /\ It.do = "finalize" /\ todo # <<>> /\ ~opts.unsigned
      /\ sent'.ops = OpsOf(It.ops)
      /\ GoesOn \/ Raises("refused")
  BY <1>1, SentAfresh
<1>3. outcome = "ok"
  BY <1>2 DEF OwnWorkInv
<1>4. Tail(todo) \in Q
  <2>1. PICK i \in DOMAIN OpsOf(It.ops) : OpsOf(It.ops)[i].changes # "claims"
    BY <1>2 DEF Committed
  <2>2. i \in DOMAIN It.ops /\ OpsOf(It.ops)[i] = Op(It.ops[i])
    BY <1>1, <1>2, <2>1, BuiltAfresh
  <2>3. Changes(It.ops[i]) # "claims"
    BY <2>1, <2>2, OpFields
  <2> QED
    BY <1>1, <1>2, <2>2, <2>3 DEF LawfulLines, SendsLast, It
<1>5. CASE GoesOn
  BY <1>3, <1>4, <1>5 DEF GoesOn, Rest
<1>6. CASE Raises("refused")
  <2>1. ~Caught(todo)
    BY <1>1, <1>2 DEF Lawful, FinalizeUncaught, It
  <2>2. Handlers = {}
    BY <2>1 DEF Handlers, Caught
  <2>3. todo' = <<>> /\ outcome' = "refused"
    BY <1>6, <2>2 DEF Raises
  <2> QED
    BY <2>3 DEF LawfulLines, ClosedUnderSteps
<1> QED
  BY <1>2, <1>5, <1>6

LEMMA CommitStep ==
    ASSUME NEW S, NEW G, Lawful(S, G), NEW L, NEW Q, LawfulLines(S, L, Q),
           OwnWorkInv(G), CommitInv(L, Q), [Next]_vars
    PROVE  CommitInv(L, Q)'
<1>1. CASE NewProcess
  BY <1>1 DEF NewProcess, CommitInv, Committed, FromBuffer, Nothing, LawfulLines,
      ClosedUnderSteps
<1>2. CASE Choose
  BY <1>2 DEF Choose, CommitInv, Committed, FromBuffer, Nothing, LawfulLines
<1>3. CASE Run
  <2> SUFFICES ASSUME ~opts.program
      PROVE todo' \in L /\ (Committed' => todo' \in Q /\ outcome' # "failed")
    BY <1>3, RunEffects DEF CommitInv, OwnWorkInv
  <2>1. todo' \in L
    <3>1. L \in SUBSET Seq(S) /\ ClosedUnderSteps(L) /\ todo \in L
      BY DEF LawfulLines, CommitInv
    <3> QED
      BY <1>3, <3>1, MovesWithin
  <2>2. ASSUME Committed', sent' = sent PROVE todo' \in Q /\ outcome' # "failed"
    BY <1>3, <2>2, QuietStep DEF Committed
  <2>3. ASSUME Committed', sent' # sent PROVE todo' \in Q /\ outcome' # "failed"
    <3>1. FinalizeSends
      BY <1>3, <2>3, RunEffects DEF FinalizeUnsigned, FinalizeFails, ledger, SendsElsewhere,
          OwnWorkInv, Committed
    <3> QED
      BY <2>3, <3>1, SendingStep
  <2> QED
    BY <2>1, <2>2, <2>3
<1>4. CASE UNCHANGED vars
  BY <1>4 DEF vars, CommitInv, Committed
<1> QED
  BY <1>1, <1>2, <1>3, <1>4 DEF Next

\* A command of a command line that fails otherwise than in sending has sent nothing but
\* claims of accounts, and may be repeated.
THEOREM FailuresPrecedeSending ==
    ASSUME NEW S, NEW G, Lawful(S, G), NEW L, NEW Q, LawfulLines(S, L, Q)
    PROVE  Spec => []FailsBeforeSending
<1> DEFINE Inv == OwnWorkInv(G) /\ CommitInv(L, Q)
<1>1. Init => Inv
  BY OwnWorkInit, CommitInit
<1>2. Inv /\ [Next]_vars => Inv'
  BY OwnWorkStep, CommitStep
<1>3. Inv => FailsBeforeSending
  BY DEF CommitInv, Committed, FailsBeforeSending
<1> HIDE DEF Inv
<1> QED
  BY <1>1, <1>2, <1>3, PTL DEF Spec

-----------------------------------------------------------------------------
\* New keys are kept before they are sent.

LEMMA PlaceFields ==
    \A s, ks, d : /\ Place(s, ks, d).rest = s /\ Place(s, ks, d).kept = ks
                 /\ Place(s, ks, d).derived = d
  BY DEF Place

\* An exception: a handler goes on at its own place.
LEMMA RaisesTo ==
    ASSUME NEW S, todo \in Seq(S), NEW how, Raises(how)
    PROVE  todo' = <<>> \/ \E k \in DOMAIN todo : HandledAt(todo, k) /\ todo' = Suffix(todo, k)
<1> SUFFICES ASSUME Handlers # {}
             PROVE \E k \in DOMAIN todo : HandledAt(todo, k) /\ todo' = Suffix(todo, k)
  BY DEF Raises
<1> DEFINE h == CHOOSE i \in Handlers : \A j \in Handlers : i <= j
<1>1. Len(todo) \in Nat /\ DOMAIN todo = 1..Len(todo) /\ Handlers \subseteq Nat
  BY LenProperties DEF Handlers
<1>2. \E i \in Handlers : \A j \in Handlers : i <= j
  BY <1>1, LeastElement
<1>3. h \in Handlers /\ \A j \in Handlers : h <= j
  BY <1>2
<1>4. todo' = SubSeq(todo, h + 1, Len(todo))
  BY DEF Raises
<1> HIDE DEF h
<1>5. h \in DOMAIN todo /\ todo[h].do = "tried" /\ h \in 1..Len(todo)
  BY <1>1, <1>3 DEF Handlers
<1>6. \A j \in 1..(h - 1) : j \in DOMAIN todo /\ ~(h <= j)
  BY <1>1, <1>5
<1>7. \A j \in 1..(h - 1) : todo[j].do # "tried"
  BY <1>3, <1>6 DEF Handlers
<1> QED
  BY <1>4, <1>5, <1>7 DEF HandledAt, Suffix

\* The steps that leave the keys alone, from a place in K.
LEMMA StaysInPlace ==
    ASSUME NEW S, todo \in Seq(S), derived \in BOOLEAN,
           NEW K, ClosedPlaces(K), NEW ks, Place(todo, ks, derived) \in K
    PROVE  /\ Returns => Place(todo', ks, derived) \in K
           /\ \A how : Raises(how) => Place(todo', ks, derived) \in K
           /\ todo # <<>> /\ GoesOn /\ It.do \notin {"add", "derive", "if"} =>
                 Place(todo', ks, derived) \in K
<1> DEFINE p == Place(todo, ks, derived)
<1>1. /\ Place(<<>>, ks, derived) \in K
      /\ \A k \in DOMAIN todo : HandledAt(todo, k) => Place(Suffix(todo, k), ks, derived) \in K
      /\ todo # <<>> => (Skips(Head(todo)) => Onward(p) \in K)
  <2>1. p.rest = todo /\ p.kept = ks /\ p.derived = derived /\ p \in K
    BY PlaceFields
  <2> HIDE DEF p
  <2> QED
    BY <2>1 DEF ClosedPlaces
<1>2. ASSUME NEW how, Raises(how) PROVE Place(todo', ks, derived) \in K
  BY <1>1, <1>2, RaisesTo
<1>3. ASSUME todo # <<>>, GoesOn, It.do \notin {"add", "derive", "if"}
      PROVE  Place(todo', ks, derived) \in K
  <2>1. Onward(p) = Place(Tail(todo), ks, derived)
    <3>1. p.rest = todo /\ p.kept = ks /\ p.derived = derived
      BY PlaceFields
    <3> HIDE DEF p
    <3>2. Head(p.rest).do \notin {"add", "derive"}
      BY <1>3, <3>1 DEF It
    <3>3. Onward(p) = Place(Tail(todo), ks \cup {}, derived \/ FALSE)
      BY <3>1, <3>2 DEF Onward
    <3>4. (derived \/ FALSE) = derived
      OBVIOUS
    <3> QED
      BY <3>3, <3>4
  <2>2. Skips(Head(todo))
    BY <1>3 DEF Skips, It
  <2> QED
    BY <1>1, <1>3, <2>1, <2>2 DEF GoesOn, Rest
<1> QED
  BY <1>1, <1>2, <1>3 DEF Returns

\* The actions of a step that do nothing to keys.
LEMMA OtherActions == Run => Wallet \/ UNCHANGED <<opts, keys>>
  BY DEF Run, Read, Check, Branch, SetNodes, Rotate, Transaction, Finalize, FinalizeOffline,
      FinalizeUnsigned, FinalizeFails, FinalizeSends, SendOwn, ExportOwn, SignFile,
      BroadcastFile, process

\* What is known of the wallet and the options without their contents.
WalletOK ==
    /\ {"keys", "open"} \subseteq DOMAIN store /\ derived \in BOOLEAN
    /\ opts.nobroadcast \in BOOLEAN

LEMMA WalletOKInit == Init => WalletOK
  BY ModesAssumption DEF Init, WalletOK, Locked, Options

LEMMA WalletOKStep == WalletOK /\ [Next]_vars => WalletOK'
<1> SUFFICES ASSUME WalletOK, [Next]_vars PROVE WalletOK'
  OBVIOUS
<1> USE DEF WalletOK
<1>1. CASE NewProcess
  BY <1>1, ModesAssumption DEF NewProcess, Begins, Locked, InMemory, Options
<1>2. CASE Choose
  BY <1>2 DEF Choose
<1>3. CASE Unlock \/ Derive \/ AddKey \/ UseKey
  <2>1. \A ks : Hold(ks) => DOMAIN store' = DOMAIN store
    BY DEF Hold
  <2>2. CASE AddKey
    BY <2>1, <2>2 DEF AddKey, process
  <2>3. CASE Unlock
    BY <2>3 DEF Unlock, InMemory, process
  <2>4. CASE Derive \/ UseKey
    BY <2>4 DEF Derive, UseKey, process, keys
  <2> QED
    BY <1>3, <2>2, <2>3, <2>4
<1>4. CASE DeleteKey \/ Wipe \/ Password \/ Lock
  BY <1>4 DEF DeleteKey, Wipe, Password, Lock, Locked, process, Hold
<1>5. CASE UNCHANGED <<opts, keys>>
  BY <1>5 DEF keys
<1>6. CASE UNCHANGED vars
  BY <1>6 DEF vars
<1>7. Run => Wallet \/ UNCHANGED <<opts, keys>>
  BY OtherActions
<1> QED
  BY <1>1, <1>2, <1>3, <1>4, <1>5, <1>6, <1>7 DEF Next, Wallet

\* At a place of K, and with the keys of that place in the wallet.
At(K, ks) ==
    /\ Place(todo, ks, derived) \in K
    /\ ks \subseteq Held /\ (ks # {} => Usable)

\* The steps other than those that derive a key or put one into the wallet.
LEMMA OtherSteps ==
    ASSUME NEW S, todo \in Seq(S), WalletOK, NEW K, ClosedPlaces(K), NEW ks,
           Place(todo, ks, derived) \in K, Run, ~AddKey, ~Derive, ~opts.nobroadcast
    PROVE  Place(todo', ks, derived) \in K
<1>2. derived \in BOOLEAN /\ opts.nobroadcast = FALSE
  BY DEF WalletOK
<1> DEFINE Ends == \/ Returns
                   \/ \E how : Raises(how)
                   \/ todo # <<>> /\ GoesOn /\ It.do \notin {"add", "derive", "if"}
<1>3. Ends => Place(todo', ks, derived) \in K
  BY <1>2, StaysInPlace
<1>4. ASSUME UseKey \/ SetNodes \/ Check PROVE Ends
  BY <1>4 DEF UseKey, SetNodes, Check, Does, It
<1>5. ASSUME FinalizeOffline \/ FinalizeUnsigned \/ FinalizeFails \/ FinalizeSends PROVE Ends
  BY <1>5 DEF FinalizeOffline, FinalizeUnsigned, FinalizeFails, FinalizeSends, SendTo, Does, It
<1>6. ASSUME SendOwn \/ ExportOwn \/ SignFile \/ BroadcastFile PROVE Ends
  BY <1>6 DEF SendOwn, ExportOwn, SignFile, BroadcastFile, SendTo, Does, It
<1>7. CASE Rotate
  <2>1. todo' = todo \/ Ends
    BY <1>7 DEF Rotate, Does, It
  <2> HIDE DEF Ends
  <2> QED
    BY <1>2, <1>3, <2>1
<1>8. CASE Branch
  <2> DEFINE p == Place(todo, ks, derived)
  <2>1. p.rest = todo /\ p.kept = ks /\ p.derived = derived /\ p \in K
    BY <1>2, PlaceFields
  <2> HIDE DEF p
  <2>2. CASE Does("either")
    BY <1>8, <2>1, <2>2 DEF Branch, ClosedPlaces, Does, It, Rest
  <2>3. CASE Does("try")
    BY <1>8, <2>1, <2>3 DEF Branch, ClosedPlaces, Does, It, Rest
  <2>4. CASE Does("tried")
    <3>1. Ends
      BY <1>8, <2>4 DEF Branch, GoesOn, Does, It
    <3> HIDE DEF Ends
    <3> QED
      BY <1>3, <3>1
  <2>5. CASE Does("if")
    <3>1. todo # <<>> /\ It.do = "if" /\ Head(p.rest) = It /\ Tail(p.rest) = Rest
      BY <2>1, <2>5 DEF Does, It, Rest
    <3>2. CASE opts[It.option] = It.is
      BY <1>8, <2>1, <2>5, <3>1, <3>2 DEF Branch, ClosedPlaces, Does
    <3>3. CASE opts[It.option] # It.is
      <4>1. Skips(It)
        BY <1>2, <3>3 DEF Skips
      <4>2. Onward(p) \in K
        BY <2>1, <3>1, <4>1 DEF ClosedPlaces
      <4>3. Onward(p) = Place(Rest, ks, derived)
        <5>1. Onward(p) = Place(Rest, ks \cup {}, derived \/ FALSE)
          BY <2>1, <3>1 DEF Onward
        <5>2. (derived \/ FALSE) = derived
          BY <1>2
        <5> QED
          BY <5>1, <5>2
      <4>4. todo' = Rest
        <5>1. <<>> \o Rest = Rest
          BY <3>1, ConcatProperties, HeadTailProperties DEF Rest
        <5> QED
          BY <1>8, <2>5, <3>1, <3>3, <5>1 DEF Branch, Does
      <4> QED
        BY <4>2, <4>3, <4>4
    <3> QED
      BY <3>2, <3>3
  <2> QED
    BY <1>8, <2>2, <2>3, <2>4, <2>5 DEF Branch
<1>9. CASE Read
  <2>1. CASE Raises("failed")
    BY <1>3, <2>1
  <2>2. CASE \E k \in DOMAIN todo : /\ \A j \in 1..k : todo[j].do \in Reads
                                   /\ todo' = Suffix(todo, k) /\ outcome' = outcome
    <3> DEFINE p == Place(todo, ks, derived)
    <3>1. p.rest = todo /\ p.kept = ks /\ p.derived = derived /\ p \in K
      BY <1>2, PlaceFields
    <3> HIDE DEF p
    <3> QED
      BY <2>2, <3>1 DEF ClosedPlaces
  <2> QED
    BY <1>9, <2>1, <2>2, ReadSkips
<1>10. CASE Unlock \/ Password \/ Lock
  <2>1. todo # <<>> /\ It.do \in {"unlock", "create", "password", "lock"}
    BY <1>10 DEF Unlock, Password, Lock, Does, It
  <2>2. GoesOn \/ Returns \/ Raises("failed")
    BY <1>10 DEF Unlock, Password, Lock
  <2>3. Ends
    BY <2>1, <2>2
  <2> HIDE DEF Ends
  <2> QED
    BY <1>3, <2>3
<1>11. CASE DeleteKey \/ Wipe
  <2>1. todo # <<>> /\ It.do \in {"delete", "wipe"}
    BY <1>11 DEF DeleteKey, Wipe, Does, It
  <2>2. GoesOn \/ Raises("failed")
    BY <1>11 DEF DeleteKey, Wipe
  <2>3. Ends
    BY <2>1, <2>2
  <2> HIDE DEF Ends
  <2> QED
    BY <1>3, <2>3
<1> HIDE DEF Ends
<1> QED
  BY <1>3, <1>4, <1>5, <1>6, <1>7, <1>8, <1>9, <1>10, <1>11 DEF Run, Wallet, Transaction,
      Finalize

LEMMA HoldsKeys ==
    ASSUME NEW ks, WalletOK, Hold(ks)
    PROVE  Held' = ks /\ (Usable => Usable')
<1>1. CASE store.ram
  <2>1. store' = [store EXCEPT !.keys = ks]
    BY <1>1 DEF Hold
  <2>2. store'.keys = ks /\ store'.ram = store.ram
    BY <2>1 DEF WalletOK
  <2> QED
    BY <1>1, <2>2 DEF Held, Usable
<1>2. CASE ~store.ram
  BY <1>2 DEF Hold, Held, Usable
<1> QED
  BY <1>1, <1>2

\* Keys that were put into the wallet stay there until the command has ended.
LEMMA KeysStay ==
    ASSUME NEW S, todo \in Seq(S), WalletOK, NEW K, ClosedPlaces(K), NothingThrownAway(K),
           NEW ks, At(K, ks), Run, ~opts.nobroadcast
    PROVE  \E more : ks \subseteq more /\ At(K, more)'
<1> DEFINE p == Place(todo, ks, derived)
<1>1. p.rest = todo /\ p.kept = ks /\ p.derived = derived /\ p \in K
  BY PlaceFields DEF At
<1> HIDE DEF p
<1>2. derived \in BOOLEAN /\ Place(todo, ks, derived) \in K
  BY DEF WalletOK, At
<1>3. ks \subseteq Held /\ (ks # {} => Usable)
  BY DEF At
<1>4. CASE Derive
  <2>1. todo # <<>> /\ It.do = "derive" /\ derived' = TRUE /\ todo' = Tail(todo)
    BY <1>4 DEF Derive, Does, It, GoesOn, Rest
  <2>2. Onward(p) = Place(Tail(todo), ks \cup {}, derived \/ TRUE)
    BY <1>1, <2>1 DEF Onward, It
  <2>3. (derived \/ TRUE) = TRUE
    OBVIOUS
  <2>4. Onward(p) \in K
    BY <1>1, <2>1 DEF ClosedPlaces, Skips, It
  <2>5. Held' = Held /\ Usable' = Usable
    BY <1>4 DEF Derive, Held, Usable
  <2> QED
    BY <1>3, <2>1, <2>2, <2>3, <2>4, <2>5 DEF At
<1>5. CASE AddKey
  <2>1. todo # <<>> /\ It.do = "add" /\ derived' = derived
    BY <1>5 DEF AddKey, Does, It
  <2>2. CASE Raises("failed") /\ UNCHANGED <<store, file>>
    <3>1. Held' = Held /\ Usable' = Usable
      BY <2>2 DEF Held, Usable
    <3>2. Place(todo', ks, derived) \in K
      BY <1>2, <2>2, StaysInPlace
    <3> QED
      BY <1>3, <2>1, <3>1, <3>2 DEF At
  <2>3. CASE \E k \in NewKey : GoesOn /\ Hold(Held \cup {k}) /\ Usable
    <3> DEFINE adds == IF It.keys = "fresh" THEN {Own(It.role, "new")} ELSE {}
               more == ks \cup adds
    <3>1. PICK k \in NewKey : GoesOn /\ Hold(Held \cup {k}) /\ Usable
      BY <2>3
    <3>2. Held' = Held \cup {k} /\ Usable'
      BY <3>1, HoldsKeys
    <3>3. adds \subseteq {k}
      BY DEF NewKey
    <3>4. Onward(p) = Place(Tail(todo), more, derived \/ FALSE)
      BY <1>1, <2>1 DEF Onward, It
    <3>5. (derived \/ FALSE) = derived
      BY <1>2
    <3>6. Onward(p) \in K
      BY <1>1, <2>1 DEF ClosedPlaces, Skips, It
    <3>7. todo' = Tail(todo)
      BY <3>1 DEF GoesOn, Rest
    <3>8. Place(todo', more, derived') \in K
      BY <2>1, <3>4, <3>5, <3>6, <3>7
    <3>9. more \subseteq Held' /\ ks \subseteq more
      BY <1>3, <3>2, <3>3
    <3> HIDE DEF more
    <3> QED
      BY <3>2, <3>8, <3>9 DEF At
  <2> QED
    BY <1>5, <2>2, <2>3 DEF AddKey
<1>6. CASE ~Derive /\ ~AddKey
  <2>1. Place(todo', ks, derived) \in K
    BY <1>2, <1>6, OtherSteps
  <2>2. derived' = derived
    BY <1>6, OtherActions DEF Wallet, Unlock, UseKey, DeleteKey, Wipe, Password, Lock, keys
  <2>3. ks \subseteq Held' /\ (ks # {} => Usable')
    <3>1. CASE UNCHANGED keys
      BY <1>3, <3>1 DEF keys, Held, Usable
    <3>2. CASE Unlock
      <4>1. CASE UNCHANGED <<store, file>>
        BY <1>3, <4>1 DEF Held, Usable
      <4>2. CASE store' = [store EXCEPT !.open = TRUE] /\ file' = file
        BY <1>3, <4>2 DEF WalletOK, Held, Usable
      <4>3. CASE ~Usable
        BY <1>3, <4>3
      <4> QED
        BY <3>2, <4>1, <4>2, <4>3 DEF Unlock
    <3>3. CASE Password
      <4>1. CASE UNCHANGED <<store, file>>
        BY <1>3, <4>1 DEF Held, Usable
      <4>2. CASE store' = [store EXCEPT !.open = TRUE] /\ file' = file
        BY <1>3, <4>2 DEF WalletOK, Held, Usable
      <4> QED
        BY <3>3, <4>1, <4>2 DEF Password
    <3>4. CASE DeleteKey \/ Wipe \/ Lock
      <4>1. Head(p.rest).do \in {"delete", "wipe", "lock"} /\ p.rest # <<>>
        BY <1>1, <3>4 DEF DeleteKey, Wipe, Lock, Does, It
      <4>2. ks = {}
        BY <1>1, <4>1 DEF NothingThrownAway
      <4> QED
        BY <4>2
    <3> QED
      BY <1>6, <3>1, <3>2, <3>3, <3>4, OtherActions DEF Wallet, UseKey
  <2> QED
    BY <2>1, <2>2, <2>3 DEF At
<1> QED
  BY <1>4, <1>5, <1>6

\* All that was sent needs is in ks.
AllKept(ks) == \A i \in DOMAIN sent.ops : KeptFor(sent.ops[i].changes, ks)

\* A process that broadcasts is at a place of its scripts with the keys of that place, and
\* those are the keys for what was sent, unless none were or will be derived.
KeptInv(KL, KC, N) ==
    /\ WalletOK
    /\ ~opts.nobroadcast =>
          \E ks : /\ At(IF opts.program THEN KC ELSE KL, ks)
                  /\ FromBuffer(sent) => AllKept(ks) \/ (~derived /\ todo \in N)

\* A finalizeOp that sends finds the keys for what it sends.
LEMMA KeysComeFirst ==
    ASSUME NEW S, NEW G, Lawful(S, G), OwnWorkInv(G), NEW KL, NEW KC, NEW N,
           Secure(S, KL, KC, N), FinalizeSends, WalletOK, sent' # sent,
           NEW ks, At(IF opts.program THEN KC ELSE KL, ks)
    PROVE  AllKept(ks)' \/ (~derived' /\ todo' \in N)
<1>1. It.do = "finalize" /\ todo # <<>> /\ todo \in G /\ derived' = derived
  BY DEF FinalizeSends, Does, It, OwnWorkInv, keys
<1>2. todo' = Tail(todo) \/ todo' = <<>>
  <2>1. ~Caught(todo)
    BY <1>1 DEF Lawful, FinalizeUncaught, It
  <2>2. Handlers = {}
    BY <2>1 DEF Handlers, Caught
  <2>3. GoesOn \/ Raises("refused")
    BY DEF FinalizeSends, SendTo
  <2> QED
    BY <2>2, <2>3 DEF GoesOn, Raises, Rest
<1>3. Tail(todo) \in N => todo' \in N
  BY <1>2 DEF Secure, ClosedUnderSteps
<1> DEFINE p == Place(todo, ks, derived)
<1>4. /\ p.rest = todo /\ p.kept = ks /\ p.derived = derived
      /\ p \in (IF opts.program THEN KC ELSE KL)
  BY PlaceFields DEF At
<1> HIDE DEF p
<1>5. CASE opts.program
  <2>1. NewKeys \subseteq ks \/ (~derived /\ Tail(todo) \in N)
    BY <1>1, <1>4, <1>5 DEF Secure, KeepsAllFirst, It
  <2>2. ASSUME NewKeys \subseteq ks PROVE AllKept(ks)'
    BY <2>2 DEF NewKeys, AllKept, KeptFor
  <2> QED
    BY <1>1, <1>3, <2>1, <2>2
<1>6. CASE ~opts.program
  <2>1. \/ \A i \in DOMAIN It.ops : KeptFor(Changes(It.ops[i]), ks)
        \/ ~derived /\ Tail(todo) \in N
    BY <1>1, <1>4, <1>6 DEF Secure, KeepsFirst, It
  <2>2. ASSUME \A i \in DOMAIN It.ops : KeptFor(Changes(It.ops[i]), ks) PROVE AllKept(ks)'
    <3>1. ~broke
      BY <1>6 DEF OwnWorkInv
    <3>2. sent'.ops = OpsOf(It.ops) /\ ~opts.unsigned
      BY <3>1, SentAfresh
    <3>3. \A i \in DOMAIN OpsOf(It.ops) :
             i \in DOMAIN It.ops /\ OpsOf(It.ops)[i].changes = Changes(It.ops[i])
      BY <1>1, <3>1, <3>2, BuiltAfresh, OpFields
    <3> QED
      BY <2>2, <3>2, <3>3 DEF AllKept
  <2> QED
    BY <1>1, <1>3, <2>1, <2>2
<1> QED
  BY <1>5, <1>6

LEMMA KeptInit ==
    ASSUME NEW S, NEW KL, NEW KC, NEW N, Secure(S, KL, KC, N), Init
    PROVE  KeptInv(KL, KC, N)
<1>1. At(IF opts.program THEN KC ELSE KL, {})
  BY DEF Init, At, Secure
<1>2. ~FromBuffer(sent)
  BY DEF Init, FromBuffer, Nothing
<1> QED
  BY <1>1, <1>2, WalletOKInit DEF KeptInv

LEMMA KeptStep ==
    ASSUME NEW S, NEW G, Lawful(S, G), OwnWorkInv(G), NEW KL, NEW KC, NEW N,
           Secure(S, KL, KC, N), KeptInv(KL, KC, N), [Next]_vars
    PROVE  KeptInv(KL, KC, N)'
<1> DEFINE K == IF opts.program THEN KC ELSE KL
<1>1. WalletOK /\ WalletOK'
  BY WalletOKStep DEF KeptInv
<1>2. CASE NewProcess
  <2>1. At(K, {})'
    BY <1>2 DEF NewProcess, At, Secure
  <2> QED
    BY <1>1, <1>2, <2>1 DEF KeptInv, NewProcess, FromBuffer, Nothing
<1>3. CASE Choose
  <2>1. At(K, {})'
    BY <1>3 DEF Choose, At, Secure
  <2> QED
    BY <1>1, <1>3, <2>1 DEF KeptInv, Choose, FromBuffer, Nothing
<1>4. CASE UNCHANGED vars
  BY <1>1, <1>4 DEF KeptInv, vars, At, Held, Usable, FromBuffer, AllKept
<1>5. CASE Run
  <2>1. opts' = opts /\ todo \in Seq(S)
    BY <1>5, RunEffects DEF OwnWorkInv, Lawful
  <2> SUFFICES ASSUME ~opts.nobroadcast
      PROVE \E ks : At(K, ks)' /\ (FromBuffer(sent') => AllKept(ks)' \/ (~derived' /\ todo' \in N))
    BY <1>1, <2>1 DEF KeptInv
  <2>2. PICK ks : /\ At(K, ks)
                  /\ FromBuffer(sent) => AllKept(ks) \/ (~derived /\ todo \in N)
    BY DEF KeptInv
  <2>4. PICK more : ks \subseteq more /\ At(K, more)'
    <3>1. CASE opts.program
      <4>1. At(KC, ks) /\ ClosedPlaces(KC) /\ NothingThrownAway(KC)
        BY <2>2, <3>1 DEF Secure
      <4>2. \E more : ks \subseteq more /\ At(KC, more)'
        BY <1>1, <1>5, <2>1, <4>1, KeysStay
      <4> QED
        BY <2>1, <3>1, <4>2 DEF At
    <3>2. CASE ~opts.program
      <4>1. At(KL, ks) /\ ClosedPlaces(KL) /\ NothingThrownAway(KL)
        BY <2>2, <3>2 DEF Secure
      <4>2. \E more : ks \subseteq more /\ At(KL, more)'
        BY <1>1, <1>5, <2>1, <4>1, KeysStay
      <4> QED
        BY <2>1, <3>2, <4>2 DEF At
    <3> QED
      BY <3>1, <3>2
  <2>5. AllKept(ks)' => AllKept(more)'
    BY <2>4 DEF AllKept, KeptFor
  <2>6. FromBuffer(sent') => AllKept(ks)' \/ (~derived' /\ todo' \in N)
    <3>1. CASE sent' = sent
      <4>1. ASSUME ~derived, todo \in N PROVE ~derived' /\ todo' \in N
        <5>1. N \in SUBSET Seq(S) /\ ClosedUnderSteps(N) /\ NeverDerives(N)
          BY DEF Secure
        <5>2. todo' \in N
          BY <1>5, <4>1, <5>1, MovesWithin
        <5>3. ~Derive
          BY <4>1, <5>1 DEF Derive, Does, NeverDerives
        <5>4. derived' = derived
          BY <1>5, <5>3, OtherActions DEF Wallet, Unlock, AddKey, UseKey, DeleteKey, Wipe,
              Password, Lock, keys
        <5> QED
          BY <4>1, <5>2, <5>4
      <4> QED
        BY <2>2, <3>1, <4>1 DEF AllKept, FromBuffer
    <3>2. CASE sent' # sent
      <4> SUFFICES ASSUME FromBuffer(sent') PROVE AllKept(ks)' \/ (~derived' /\ todo' \in N)
        OBVIOUS
      <4>1. FinalizeSends
        BY <1>5, <3>2, RunEffects DEF FinalizeUnsigned, FinalizeFails, ledger, SendsElsewhere,
            OwnWorkInv
      <4> QED
        BY <1>1, <2>2, <3>2, <4>1, KeysComeFirst
    <3> QED
      BY <3>1, <3>2
  <2> QED
    BY <2>4, <2>5, <2>6
<1> QED
  BY <1>2, <1>3, <1>4, <1>5 DEF Next

\* Keys that a command or a method derives and puts on the chain are in the wallet before
\* they are sent, and stay there: with any wallet and any node, in every mode, also when an
\* earlier call has raised and left its operations in the buffer.
THEOREM DerivedKeysAreKept ==
    ASSUME NEW S, NEW G, Lawful(S, G), NEW KL, NEW KC, NEW N, Secure(S, KL, KC, N)
    PROVE  Spec => []NewKeysKept
<1> DEFINE Inv == DryInv /\ OwnWorkInv(G) /\ KeptInv(KL, KC, N)
<1>1. Init => Inv
  BY DryInit, OwnWorkInit, KeptInit
<1>2. Inv /\ [Next]_vars => Inv'
  BY DryStep, OwnWorkStep, KeptStep
<1>3. Inv => NewKeysKept
  <2> SUFFICES ASSUME Inv, derived, FromBuffer(sent), NEW i \in DOMAIN sent.ops
               PROVE  /\ sent.ops[i].changes = "memo key" => Own("memo", "new") \in Held
                      /\ sent.ops[i].changes = "keys" => NewKeys \subseteq Held
    BY DEF NewKeysKept, NewKeys
  <2>1. ~opts.nobroadcast
    BY DEF DryInv, DryRunSendsNothing, FromBuffer, Nothing
  <2>2. PICK ks : ks \subseteq Held /\ AllKept(ks)
    BY <2>1 DEF KeptInv, At
  <2> QED
    BY <2>2 DEF AllKept, KeptFor
<1> HIDE DEF Inv
<1> QED
  BY <1>1, <1>2, <1>3, PTL DEF Spec
================================================================================
