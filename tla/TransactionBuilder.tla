--------------------------- MODULE TransactionBuilder ---------------------------
(***************************************************************************)
(* One TransactionBuilder (nectar/transactionbuilder.py) and the calls     *)
(* that work on it: its own methods, and finalizeOp of the blockchain      *)
(* instance (nectar/blockchaininstance/core.py), whose txbuffer it is.     *)
(*                                                                         *)
(* The builder is a dict that caches the constructed transaction beside    *)
(* the list of operations; the interesting states are those in which the   *)
(* two disagree.  A call is one step: nothing runs concurrently, but a     *)
(* call may fail half way, at a missing key, a locked wallet, or a node    *)
(* that does not answer, and leaves behind what it has done so far.        *)
(***************************************************************************)
EXTENDS Integers, Sequences, SequencesExt

CONSTANTS
    Accounts,    \* accounts that ask for operations
    Asked,       \* the permissions they ask with
    Kept,        \* the permissions whose keys the wallet may have
    MaxOps,      \* bound on the operations ever made
    MaxSent,     \* bound on the transactions ever sent
    MaxLoads,    \* bound on the transactions ever loaded
    MaxNow,      \* bound on the chain time, which a transaction's expiration follows
    Calls,       \* the calls the program makes
    NoTx         \* the builder has no Signed_Transaction

Perms == {"posting", "active", "owner"}
Keys == Accounts \X Perms      \* the key of each authority
CallKinds == {"default", "bundle", "unsigned", "appendOps", "appendSigner", "appendMissing",
              "clearWifs", "json", "sign", "resign", "broadcast", "clear", "load"}

ASSUME BuilderAssumption ==
    /\ Asked \subseteq Perms /\ Kept \subseteq Perms
    /\ MaxOps \in Nat /\ MaxSent \in Nat /\ MaxLoads \in Nat /\ MaxNow \in Nat \ {0}
    /\ Calls \subseteq CallKinds

VARIABLES
    b,           \* the builder: see Fresh
    wallet, locked,  \* keys in the wallet, and whether it is locked
    now,         \* the chain's time
    nextOp,      \* number of the next operation
    out,         \* how the last call ended
    returned,    \* the transaction as the last json() returned it
    loads,       \* history: how many transactions were loaded
    sent         \* history: the transactions sent to a node, in order

vars == <<b, wallet, locked, now, nextOp, out, returned, loads, sent>>

-----------------------------------------------------------------------------
\* The builder's state and what its methods make of it.

\* dict: the transaction as constructed last, exp = 0 standing for None;
\* tx: the Signed_Transaction, which is what gets signed.
Fresh == [ops |-> <<>>, wifs |-> {}, signers |-> {}, tx |-> NoTx, rebuild |-> TRUE,
          dict |-> [exp |-> 0, ops |-> <<>>, sigs |-> <<>>, missing |-> {}]]

Body(trx) == [ops |-> trx.ops, exp |-> trx.exp]

\* Mutant: signatures of the transaction before survive the construction.
BuiltKeepingSignatures(x) ==
    LET body == [ops |-> x.ops, exp |-> now]
    IN [x EXCEPT !.tx = body, !.rebuild = FALSE, !.dict.exp = now, !.dict.ops = x.ops]

\* constructTx: everything but the side information is replaced.
Built(x) ==
    LET body == [ops |-> x.ops, exp |-> now]
    IN [x EXCEPT !.tx = body, !.rebuild = FALSE,
                 !.dict.exp = now, !.dict.ops = x.ops, !.dict.sigs = <<>>]

Result(x, what) == [b |-> x, out |-> what]

\* Mutant: the failure is taken for success.
ConstructAnyhow(x, up) == IF up THEN Result(Built(x), "ok") ELSE Result(x, "ok")

\* constructTx asks a node for the head block; the node may fail.
Construct(x, up) == IF up THEN Result(Built(x), "ok") ELSE Result(x, "RPCError")

\* json()
Json(x, up) ==
    IF x.dict.exp = 0 \/ x.rebuild THEN Construct(x, up) ELSE Result(x, "ok")

\* A loaded transaction shares its list of operations with the dict, until the
\* next construction.
Shared(x) == x.tx = NoTx /\ x.dict.exp # 0

WithOps(x, ops) ==
    [x EXCEPT !.ops = @ \o ops, !.rebuild = TRUE,
              !.dict.ops = IF Shared(x) THEN @ \o ops ELSE @]

\* Mutant: the expiration survives, so that the transaction still counts as
\* constructed.
ClearedStillConstructed(x) ==
    [x EXCEPT !.ops = <<>>, !.wifs = {}, !.signers = {}]

\* clear(): dict.__init__({}) leaves the entries of the dict in place.
Cleared(x) ==
    [x EXCEPT !.ops = <<>>, !.wifs = {}, !.signers = {}, !.dict.exp = 0]

\* The keys of the wallet for an account's permission, or for a higher one.
Held(a, p) == wallet \cap {<<a, p>>}
FetchKeys(a, p) ==
    IF Held(a, p) # {} THEN Held(a, p)
    ELSE IF p = "posting" /\ Held(a, "active") # {} THEN Held(a, "active")
    ELSE Held(a, "owner")

\* appendSigner: an account is looked up once, whatever comes of it.
WithSigner(x, a, p) ==
    IF locked THEN Result(x, "WalletLocked")
    ELSE IF a \in x.signers THEN Result(x, "ok")
    ELSE Result([x EXCEPT !.wifs = @ \cup FetchKeys(a, p), !.signers = @ \cup {a}], "ok")

\* sign(reconstruct_tx): what is signed is tx, what is extended is the dict.
Sign(x, up, reconstruct) ==
    LET c == IF x.dict.exp = 0 \/ reconstruct THEN Construct(x, up) ELSE Result(x, "ok")
        signature(k) == [key |-> k, body |-> c.b.tx]
    IN IF c.out # "ok" THEN c
       ELSE IF c.b.dict.ops = <<>> THEN Result(c.b, "nothing")
       ELSE IF c.b.wifs = {} THEN Result(c.b, "MissingKeyError")
       ELSE IF c.b.tx = NoTx THEN Result(c.b, "AttributeError")
       ELSE Result([c.b EXCEPT !.dict.sigs = @ \o SetToSeq({signature(k) : k \in c.b.wifs})],
                   "ok")

\* broadcast(), up to the call of the node: signs what is not signed.
Ready(x, up) ==
    LET s == IF x.dict.sigs # <<>> THEN Result(x, "ok") ELSE Sign(x, up, TRUE)
    IN IF s.out \notin {"ok", "nothing"} THEN s
       ELSE IF s.b.dict.ops = <<>> THEN Result(s.b, "nothing")
       ELSE Json(s.b, up)

-----------------------------------------------------------------------------

Init ==
    /\ b = Fresh
    /\ wallet \in SUBSET (Accounts \X Kept) /\ locked \in BOOLEAN
    /\ now = 1 /\ nextOp = 1
    /\ out = "none" /\ returned = Fresh.dict /\ loads = 0
    /\ sent = <<>>

\* A call that ends without sending anything.
Ends(r) ==
    /\ b' = r.b /\ out' = r.out
    /\ UNCHANGED <<wallet, locked, now, sent>>

\* The rest of broadcast(): the transaction is sent and the builder cleared,
\* whether the node takes it or not.
Send(r) ==
    \/ /\ r.out = "ok" /\ Len(sent) < MaxSent
       /\ sent' = Append(sent, r.b.dict)
       /\ b' = Cleared(r.b)
       /\ out' \in {"sent", "RPCError"}
       /\ UNCHANGED <<wallet, locked, now>>
    \/ r.out # "ok" /\ Ends(r)

NewOp == nextOp <= MaxOps /\ nextOp' = nextOp + 1

\* Mutant: finalizeOp leaves the signing to broadcast().
FinalizeUnsigned(a, p, up) ==
    /\ "default" \in Calls /\ NewOp
    /\ LET x == WithOps(b, <<nextOp>>)
           s == WithSigner(x, a, p)
       IN IF s.out = "ok" THEN Send(Ready(s.b, up)) ELSE Ends(s)
    /\ UNCHANGED <<returned, loads>>

\* finalizeOp: append, look the keys up, sign, broadcast.
Finalize(a, p, up) ==
    /\ "default" \in Calls /\ NewOp
    /\ LET x == WithOps(b, <<nextOp>>)
           s == WithSigner(x, a, p)
           t == Sign(s.b, up, TRUE)
       IN IF s.out # "ok" THEN Ends(s)
          ELSE IF t.out # "ok" THEN Ends(t)
          ELSE Send(Ready(t.b, up))
    /\ UNCHANGED <<returned, loads>>

\* finalizeOp with bundle set: only constructs.
Bundle(a, p, up) ==
    /\ "bundle" \in Calls /\ NewOp
    /\ LET x == WithOps(b, <<nextOp>>)
           s == WithSigner(x, a, p)
           j == Json(s.b, up)
       IN IF s.out # "ok" THEN Ends(s) /\ UNCHANGED returned
          ELSE /\ Ends(j)
               /\ returned' = IF j.out = "ok" THEN j.b.dict ELSE returned
    /\ UNCHANGED loads

\* finalizeOp with unsigned set: side information for a later signer, which
\* replaces that of the operation before.
Unsigned(a, p, up) ==
    /\ "unsigned" \in Calls /\ NewOp
    /\ LET x == WithOps(b, <<nextOp>>)
           c == IF x.dict.exp = 0 THEN Construct(x, up) ELSE Result(x, "ok")
       IN Ends(IF c.out = "ok" THEN Result([c.b EXCEPT !.dict.missing = {<<a, p>>}], "ok") ELSE c)
    /\ UNCHANGED <<returned, loads>>

-----------------------------------------------------------------------------
\* The methods called by themselves.

AppendOps ==
    /\ "appendOps" \in Calls /\ NewOp
    /\ Ends(Result(WithOps(b, <<nextOp>>), "ok"))
    /\ UNCHANGED <<returned, loads>>

AppendSigner(a, p) ==
    /\ "appendSigner" \in Calls
    /\ LET s == WithSigner(b, a, p)
       IN Ends(s)
    /\ UNCHANGED <<nextOp, returned, loads>>

\* appendMissingSignatures: the keys named by the side information, as far as
\* the wallet has them.
AppendMissing ==
    /\ "appendMissing" \in Calls
    /\ LET keys == b.dict.missing \cap wallet
       IN Ends(IF locked /\ keys # {} THEN Result(b, "WalletLocked")
               ELSE Result([b EXCEPT !.wifs = @ \cup keys], "ok"))
    /\ UNCHANGED <<nextOp, returned, loads>>

ClearWifs ==
    /\ "clearWifs" \in Calls
    /\ Ends(Result([b EXCEPT !.wifs = {}], "ok"))
    /\ UNCHANGED <<nextOp, returned, loads>>

JsonCall(up) ==
    /\ "json" \in Calls
    /\ LET j == Json(b, up)
       IN Ends(j) /\ returned' = IF j.out = "ok" THEN j.b.dict ELSE returned
    /\ UNCHANGED <<nextOp, loads>>

\* sign(), and sign(reconstruct_tx=False), which adds to the signatures there
\* are; at most one signature per key is wanted, so that it ends there.
SignCall(up, reconstruct) ==
    /\ (IF reconstruct THEN "sign" ELSE "resign") \in Calls
    /\ reconstruct \/ \A i \in DOMAIN b.dict.sigs : b.dict.sigs[i].key \notin b.wifs
    /\ LET s == Sign(b, up, reconstruct)
       IN Ends(s)
    /\ UNCHANGED <<nextOp, returned, loads>>

Broadcast(up) ==
    /\ "broadcast" \in Calls
    /\ Send(Ready(b, up))
    /\ UNCHANGED <<nextOp, returned, loads>>

Clear ==
    /\ "clear" \in Calls
    /\ Ends(Result(Cleared(b), "ok"))
    /\ UNCHANGED <<nextOp, returned, loads>>

\* TransactionBuilder(tx): a new builder for a transaction that was returned, and
\* written down and read again in between.
Load ==
    /\ "load" \in Calls /\ returned.exp # 0 /\ loads < MaxLoads
    /\ Ends(Result([Fresh EXCEPT !.ops = returned.ops, !.dict = returned, !.rebuild = FALSE], "ok"))
    /\ loads' = loads + 1
    /\ UNCHANGED <<nextOp, returned>>

\* The wallet and the chain.
AddKey(k) ==
    /\ k \notin wallet /\ ~locked
    /\ wallet' = wallet \cup {k}
    /\ UNCHANGED <<b, locked, now, nextOp, out, returned, loads, sent>>

ToggleLock ==
    /\ locked' = ~locked
    /\ UNCHANGED <<b, wallet, now, nextOp, out, returned, loads, sent>>

Tick ==
    /\ now < MaxNow /\ now' = now + 1
    /\ UNCHANGED <<b, wallet, locked, nextOp, out, returned, loads, sent>>

Next ==
    \/ \E a \in Accounts, p \in Asked, up \in BOOLEAN :
         Finalize(a, p, up) \/ Bundle(a, p, up) \/ Unsigned(a, p, up)
    \/ \E a \in Accounts, p \in Asked : AppendSigner(a, p)
    \/ \E up, reconstruct \in BOOLEAN : SignCall(up, reconstruct)
    \/ \E up \in BOOLEAN : Broadcast(up) \/ JsonCall(up)
    \/ AppendOps \/ AppendMissing \/ ClearWifs \/ Clear \/ Load
    \/ \E k \in Accounts \X Kept : AddKey(k)
    \/ ToggleLock \/ Tick

Spec == Init /\ [][Next]_vars

-----------------------------------------------------------------------------

\* A signature that is sent was made for the transaction it is sent with.
SignaturesFit ==
    \A n \in DOMAIN sent : \A i \in DOMAIN sent[n].sigs : sent[n].sigs[i].body = Body(sent[n])

\* No operation is sent twice, in two transactions or in one, as long as the
\* program does not load a transaction and send it once more.
Places == {p \in (DOMAIN sent) \X (1..MaxOps) : p[2] \in DOMAIN sent[p[1]].ops}
OpSentOnce ==
    loads = 0 => \A q, r \in Places : q # r => sent[q[1]].ops[q[2]] # sent[r[1]].ops[r[2]]

\* finalizeOp signs what it sends, whatever the calls before it have left in the
\* buffer.
FinalizeSigns == [][
    nextOp' # nextOp /\ sent' # sent => Last(sent').sigs # <<>>]_vars

\* Nothing is sent unsigned.
SentIsSigned == \A n \in DOMAIN sent : sent[n].sigs # <<>>

\* A call of finalizeOp that succeeds has sent the operation it was called for.
SuccessIsSent == [][
    out' = "sent" /\ nextOp' # nextOp =>
        \E i \in DOMAIN Last(sent').ops : Last(sent').ops[i] = nextOp]_vars
=============================================================================
