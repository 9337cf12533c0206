-------------------------------- MODULE Session --------------------------------
(***************************************************************************)
(* What the commands of one or more command lines, or the calls of a       *)
(* program, do to the wallet, to the shared transaction buffer, to the     *)
(* file that a transaction is exported to, and to the chain.  One process  *)
(* after the other uses the same wallet file.  A step of a script is one   *)
(* action; what a node answers is chosen by the environment.               *)
(*                                                                         *)
(* There is one account.  Its keys are those it has now ("old") and those  *)
(* that a new password of its owner gives ("new").                         *)
(***************************************************************************)
EXTENDS Naturals, Sequences, FiniteSets

CONSTANTS
    Scripts,      \* the commands of a command line
    Calls,        \* the methods that a program calls
    Modes,        \* the options of a process
    Wallets,      \* the keys in the wallet file at the start
    MaxCalls      \* commands and calls in all processes

Options == {"nobroadcast", "unsigned", "offline", "export", "program"}
ASSUME ModesAssumption == Modes \subseteq [Options -> BOOLEAN]

Roles == {"owner", "active", "posting", "memo"}
Own(role, age) == [role |-> role, age |-> age]
Created == [role |-> "created", age |-> "new"]
Keys == [role : Roles, age : {"old", "new"}] \cup {Created}
Nothing == [ops |-> <<>>, wifs |-> {}, from |-> "nobody"]      \* no transaction

VARIABLES
    opts,      \* the options of the process
    todo,      \* the rest of the script
    store,     \* the key store: in memory with these keys, or the file, unlocked or not
    file,      \* the keys in the wallet file
    chain,     \* the age of the account's keys, and of its memo key
    known,     \* the same at the start of the process, as objects in its cache may show it
    buffer,    \* the shared transaction buffer
    trx,       \* the transaction in the export file
    listed,    \* the node in use is in the configured list; "?" until it matters
    turn,      \* the list of nodes is being turned
    derived,   \* the command has derived keys for the account
    sent,      \* the transaction that the command has sent
    outcome,   \* of the command so far
    broke,     \* an earlier call of the process has raised
    left       \* commands that may still be given

vars == <<opts, todo, store, file, chain, known, buffer, trx, listed, turn, derived,
          sent, outcome, broke, left>>
ledger == <<chain, sent>>
keys == <<store, file, derived>>
nodes == <<listed, turn>>
process == <<opts, known, broke, left>>

EmptyBuffer == [ops |-> <<>>, dict |-> <<>>, wifs |-> {}, signer |-> FALSE]

-----------------------------------------------------------------------------
(* The chain (external): the role an operation needs, the keys it changes, *)
(* and the keys that stand for a role.                                     *)

PostingOps == {"comment", "vote", "custom_json", "comment_options", "delete_comment",
               "account_update2", "claim_reward_balance"}
OwnerOps == {"update_keys", "update_owner", "change_recovery_account"}

Needs(op) ==
    CASE op \in PostingOps -> "posting"
      [] op \in OwnerOps -> "owner"
      [] op = "witness_set_properties" -> "signing"
      [] OTHER -> "active"

Changes(op) ==
    CASE op = "update_keys" -> "keys"
      [] op = "update_memo_key" -> "memo key"
      [] op = "claim_account" -> "claims"
      [] OTHER -> "nothing"

Op(name) == [needs |-> Needs(name), changes |-> Changes(name), by |-> "this"]

StandsFor(role) ==
    CASE role = "posting" -> {"posting", "active", "owner"}
      [] role = "active" -> {"active", "owner"}
      [] OTHER -> {role}

\* The signatures are those that the chain asks for.
Authorised(t) ==
    \A i \in DOMAIN t.ops : \E w \in t.wifs :
        w.role \in StandsFor(t.ops[i].needs) /\ w.age = chain.keys

ChangedBy(t) ==
    LET does(what) == \E i \in DOMAIN t.ops : t.ops[i].changes = what
    IN [keys |-> IF does("keys") THEN "new" ELSE chain.keys,
        memo |-> IF does("keys") \/ does("memo key") THEN "new" ELSE chain.memo]

-----------------------------------------------------------------------------
(* How a step ends.                                                        *)

Does(kind) == todo # <<>> /\ Head(todo).do = kind
It == Head(todo)
Rest == Tail(todo)

GoesOn == todo' = Rest /\ UNCHANGED outcome
Returns == todo' = <<>> /\ UNCHANGED outcome

Handlers == {i \in DOMAIN todo : todo[i].do = "tried"}

\* An exception goes to the nearest handler, or ends the call; that ends the process
\* when it is a command line.
Raises(how) ==
    IF Handlers # {}
    THEN LET h == CHOOSE i \in Handlers : \A j \in Handlers : i <= j
         IN todo' = SubSeq(todo, h + 1, Len(todo)) /\ UNCHANGED outcome
    ELSE todo' = <<>> /\ outcome' = how

-----------------------------------------------------------------------------
(* Processes and commands.                                                 *)

Locked == [ram |-> FALSE, open |-> FALSE, keys |-> {}]

InMemory(ks) == [ram |-> TRUE, open |-> TRUE, keys |-> ks]

\* The options, the node and the wallet of a process; a program has unlocked the wallet,
\* and --keys gives one in memory.
Begins ==
    /\ opts' \in Modes
    /\ listed' = "?"
    /\ \/ store' = [Locked EXCEPT !.open = opts'.program]
       \/ \E ks \in Wallets : ks # {} /\ store' = InMemory(ks)

Init ==
    /\ opts \in Modes /\ listed = "?"
    /\ store = [Locked EXCEPT !.open = opts.program] /\ file \in Wallets
    /\ chain = [keys |-> "old", memo |-> "old"] /\ known = chain
    /\ todo = <<>> /\ buffer = EmptyBuffer /\ trx = Nothing /\ turn = FALSE
    /\ derived = FALSE /\ sent = Nothing /\ outcome = "ok" /\ broke = FALSE
    /\ left = MaxCalls

\* The process has ended, or is left; the next one begins.
NewProcess ==
    /\ todo = <<>> /\ left \in 1..(MaxCalls - 1)
    /\ Begins
    /\ known' = chain /\ buffer' = EmptyBuffer /\ turn' = FALSE
    /\ derived' = FALSE /\ sent' = Nothing /\ outcome' = "ok" /\ broke' = FALSE
    /\ UNCHANGED <<todo, file, chain, trx, left>>

Earlier(ops) == [i \in DOMAIN ops |-> [ops[i] EXCEPT !.by = "earlier"]]

\* The next command of the line, or the next call of the program.
Choose ==
    /\ todo = <<>> /\ left > 0
    /\ outcome = "ok" \/ opts.program
    /\ todo' \in (IF opts.program THEN Calls ELSE Scripts)
    /\ left' = left - 1
    /\ buffer' = [buffer EXCEPT !.ops = Earlier(@)]
    /\ derived' = FALSE /\ sent' = Nothing /\ outcome' = "ok"
    /\ broke' = (broke \/ outcome # "ok")
    /\ UNCHANGED <<opts, store, file, chain, known, trx, nodes>>

-----------------------------------------------------------------------------
(* Steps that read, and alternatives.                                      *)

Reads == {"connect", "default", "look", "demand"}

\* Several in a row are one step: they leave everything as it is.
Read ==
    /\ todo # <<>> /\ It.do \in Reads
    /\ LET n == CHOOSE i \in DOMAIN todo :
                   /\ \A j \in 1..i : todo[j].do \in Reads
                   /\ i = Len(todo) \/ todo[i + 1].do \notin Reads
       IN \/ todo' = SubSeq(todo, n + 1, Len(todo)) /\ UNCHANGED outcome
          \/ Raises("failed")
    /\ UNCHANGED <<process, keys, ledger, buffer, trx, nodes>>

Check ==
    /\ Does("check")
    /\ GoesOn \/ Returns
    /\ UNCHANGED <<process, keys, ledger, buffer, trx, nodes>>

Branch ==
    /\ \/ Does("either") /\ \E i \in DOMAIN It.of : todo' = It.of[i] \o Rest
       \/ Does("if") /\ todo' = (IF opts[It.option] = It.is THEN It.of ELSE <<>>) \o Rest
       \/ Does("try") /\ todo' = It.of \o Rest
       \/ Does("tried") /\ todo' = Rest
    /\ UNCHANGED <<process, keys, ledger, buffer, trx, nodes, outcome>>

-----------------------------------------------------------------------------
(* The wallet.                                                             *)

Held == IF store.ram THEN store.keys ELSE file
Usable == store.ram \/ store.open

Hold(ks) ==
    IF store.ram THEN store' = [store EXCEPT !.keys = ks] /\ UNCHANGED file
    ELSE file' = ks /\ UNCHANGED store

\* The ages that the account's keys may seem to have.
SeenKeys == {known.keys, chain.keys}
SeenMemo == {known.memo, chain.memo}

\* unlock_wallet: with the password; with a private key, which takes the place of the
\* wallet for the rest of the process; or not.
Unlock ==
    /\ Does("unlock")
    /\ IF (opts.unsigned /\ opts.nobroadcast) \/ Usable
       THEN GoesOn /\ UNCHANGED store
       ELSE \/ GoesOn /\ store' = [store EXCEPT !.open = TRUE]
            \/ \E role \in Roles : GoesOn /\ store' = InMemory({Own(role, chain.keys)})
            \/ Raises("failed") /\ store' = InMemory({})
            \/ (IF It.ends THEN Returns ELSE GoesOn) /\ UNCHANGED store
    /\ UNCHANGED <<process, file, derived, ledger, buffer, trx, nodes>>

Derive ==
    /\ Does("derive")
    /\ derived' = TRUE /\ GoesOn
    /\ UNCHANGED <<process, store, file, ledger, buffer, trx, nodes>>

NewKey ==
    CASE It.keys = "fresh" -> {Own(It.role, "new")}
      [] It.keys = "own" -> {Own(It.role, chain.keys)}
      [] OTHER -> {Created}

\* Mutant: a key added to the wallet takes the place of those that are there.
AddKeyAlone ==
    /\ Does("add")
    /\ \E k \in NewKey :
          IF k \in Held \/ ~Usable
          THEN Raises("failed") /\ UNCHANGED <<store, file>>
          ELSE GoesOn /\ Hold({k})
    /\ UNCHANGED <<process, derived, ledger, buffer, trx, nodes>>

\* addPrivateKey, setKeys: not twice, and not into a locked wallet.
AddKey ==
    /\ Does("add")
    /\ \E k \in NewKey :
          IF k \in Held \/ ~Usable
          THEN Raises("failed") /\ UNCHANGED <<store, file>>
          ELSE GoesOn /\ Hold(Held \cup {k})
    /\ UNCHANGED <<process, derived, ledger, buffer, trx, nodes>>

\* getPrivateKeyForPublicKey, by those who need one key of a role.
UseKey ==
    /\ Does("use")
    /\ \E age \in (IF It.role = "memo" THEN SeenMemo ELSE SeenKeys) :
          IF Own(It.role, age) \in Held /\ Usable /\ ~opts.offline
          THEN GoesOn ELSE Raises("failed")
    /\ UNCHANGED <<process, keys, ledger, buffer, trx, nodes>>

DeleteKey ==
    /\ Does("delete")
    /\ IF Held = {} THEN UNCHANGED <<store, file>> ELSE \E k \in Held : Hold(Held \ {k})
    /\ GoesOn
    /\ UNCHANGED <<process, derived, ledger, buffer, trx, nodes>>

\* The store in memory has no master password to wipe: it raises when it is empty.
Wipe ==
    /\ Does("wipe")
    /\ Hold({})
    /\ IF store.ram THEN Raises("failed") ELSE GoesOn
    /\ UNCHANGED <<process, derived, ledger, buffer, trx, nodes>>

\* Create, changePassphrase: not for a store in memory.
Password ==
    /\ Does("create") \/ Does("password")
    /\ IF store.ram \/ (It.do = "create" /\ file # {})
       THEN Raises("failed") /\ UNCHANGED store
       ELSE GoesOn /\ store' = [store EXCEPT !.open = TRUE]
    /\ UNCHANGED <<process, file, derived, ledger, buffer, trx, nodes>>

Lock ==
    /\ Does("lock")
    /\ store' = IF store.ram THEN store ELSE Locked
    /\ GoesOn
    /\ UNCHANGED <<process, file, derived, ledger, buffer, trx, nodes>>

-----------------------------------------------------------------------------
(* The nodes in the configuration.                                         *)

\* The new list has all of the nodes of the client, or none.
SetNodes ==
    /\ Does("nodes") \/ Does("renew")
    /\ listed' = IF It.do = "renew" THEN "yes" ELSE "?"
    /\ GoesOn
    /\ UNCHANGED <<process, keys, ledger, buffer, trx, turn>>

\* move_current_node_to_front: turns the list until the node in use is its first.
Rotate ==
    /\ Does("rotate")
    /\ listed' \in (IF listed = "?" THEN {"yes", "no"} ELSE {listed})
    /\ IF opts.offline \/ listed' = "yes"
       THEN GoesOn /\ UNCHANGED turn
       ELSE turn' = ~turn /\ UNCHANGED <<todo, outcome>>
    /\ UNCHANGED <<process, keys, ledger, buffer, trx>>

-----------------------------------------------------------------------------
(* Transactions.                                                           *)

OpsOf(names) == [i \in DOMAIN names |-> Op(names[i])]

\* Mutant: the posting key is tried for every role.
FoundOrPosting(role, age) ==
    LET of(r) == {Own(r, age)} \cap Held
        second == IF of(role) = {} THEN of("posting") ELSE of(role)
    IN IF second = {} /\ role # "owner" THEN of("owner") ELSE second

\* appendSigner: the key of the role, or else one that stands for it; only the first
\* time that the account signs.
Found(role, age) ==
    LET of(r) == {Own(r, age)} \cap Held
        second == IF of(role) = {} /\ role = "posting" THEN of("active") ELSE of(role)
    IN IF second = {} /\ role # "owner" THEN of("owner") ELSE second
WithSigner(b, role, age) ==
    IF b.signer THEN b
    ELSE [b EXCEPT !.wifs = @ \cup Found(role, age), !.signer = TRUE]

\* Mutant: what the node answers is looked at as if it could not be missing.
SendToAndRead(t) ==
    /\ sent' = t
    /\ \/ Authorised(t) /\ chain' = ChangedBy(t)
          /\ (GoesOn \/ Raises("refused") \/ Raises("failed"))
       \/ UNCHANGED chain /\ Raises("refused")

\* A transaction is executed or not, and the answer arrives or not.
SendTo(t) ==
    /\ sent' = t
    /\ \/ Authorised(t) /\ chain' = ChangedBy(t) /\ (GoesOn \/ Raises("refused"))
       \/ UNCHANGED chain /\ Raises("refused")

\* The command writes the transaction it got to the file, when it is given --export.
Exports(t) == trx' = IF opts.export THEN t ELSE trx

Appended == [buffer EXCEPT !.ops = @ \o OpsOf(It.ops)]

FinalizeOffline ==
    /\ Does("finalize") /\ opts.offline
    /\ GoesOn
    /\ UNCHANGED <<process, keys, ledger, buffer, trx, nodes>>

\* addSigningInformation: the transaction is constructed once.  It stays in the buffer.
FinalizeUnsigned ==
    /\ Does("finalize") /\ ~opts.offline /\ opts.unsigned
    /\ \/ /\ buffer' = Appended /\ Raises("failed") /\ UNCHANGED trx
       \/ LET made == IF Appended.dict = <<>> THEN Appended.ops ELSE Appended.dict
          IN /\ buffer' = [Appended EXCEPT !.dict = made]
             /\ \/ GoesOn /\ Exports([ops |-> made, wifs |-> {}, from |-> "buffer"])
                \/ Raises("failed") /\ UNCHANGED trx
    /\ UNCHANGED <<process, keys, ledger, nodes>>

\* What was appended stays in the buffer when anything fails before the sending: the
\* account cannot be read, the wallet is locked, no block for reference, no key.
FinalizeFails ==
    /\ Does("finalize") /\ ~opts.offline /\ ~opts.unsigned
    /\ \/ buffer' = Appended
       \/ Usable /\ \E age \in SeenKeys : buffer' = WithSigner(Appended, It.role, age)
    /\ Raises("failed")
    /\ UNCHANGED <<process, keys, ledger, trx, nodes>>

\* Mutant: clear forgets the keys and not the operations.
ClearedKeepingOps(b) == [EmptyBuffer EXCEPT !.ops = b.ops]

Cleared(b) == EmptyBuffer

\* Sign and broadcast; the buffer is cleared whatever comes of it.
FinalizeSends ==
    /\ Does("finalize") /\ ~opts.offline /\ ~opts.unsigned /\ Usable
    /\ \E age \in SeenKeys :
          LET b == WithSigner(Appended, It.role, age)
              t == [ops |-> b.ops, wifs |-> b.wifs, from |-> "buffer"]
          IN /\ b.wifs # {}
             /\ IF opts.nobroadcast
                THEN GoesOn /\ Exports(t) /\ UNCHANGED ledger
                ELSE /\ SendTo(t)
                     /\ IF outcome' = "refused" THEN UNCHANGED trx ELSE Exports(t)
             /\ buffer' = Cleared(b)
    /\ UNCHANGED <<process, keys, nodes>>

\* A builder of its own, with a key that the user gives; signed also with --unsigned.
SendOwn ==
    /\ Does("own")
    /\ LET role == IF It.ops = <<"witness_set_properties">> THEN "signing" ELSE It.role
           t == [ops |-> OpsOf(It.ops), wifs |-> {Own(role, chain.keys)},
                from |-> "own"]
       IN \/ Raises("failed") /\ UNCHANGED <<ledger, trx>>
          \/ ~opts.offline /\ opts.nobroadcast /\ GoesOn /\ Exports(t) /\ UNCHANGED ledger
          \/ /\ ~opts.offline /\ ~opts.nobroadcast /\ SendTo(t)
             /\ IF outcome' = "refused" THEN UNCHANGED trx ELSE Exports(t)
    /\ UNCHANGED <<process, keys, buffer, nodes>>

\* The same unsigned: constructed and written, never sent.
ExportOwn ==
    /\ Does("export")
    /\ \/ Raises("failed") /\ UNCHANGED trx
       \/ /\ GoesOn
          /\ Exports([ops |-> <<Op("change_recovery_account")>>, wifs |-> {}, from |-> "own"])
    /\ UNCHANGED <<process, keys, ledger, buffer, nodes>>

\* A transaction read from a file has no object to sign.
SignFile ==
    /\ Does("sign")
    /\ Raises("failed")
    /\ UNCHANGED <<process, keys, ledger, buffer, trx, nodes>>

\* Mutant: --no-broadcast is for what the process has signed itself.
BroadcastFileAnyway ==
    /\ Does("broadcast")
    /\ IF trx = Nothing \/ opts.offline THEN Raises("failed") /\ UNCHANGED ledger
       ELSE IF trx.wifs = {} THEN Raises("failed") /\ UNCHANGED ledger
       ELSE SendTo([trx EXCEPT !.from = "file"])
    /\ UNCHANGED <<process, keys, buffer, trx, nodes>>

\* A transaction that is not signed is to be signed without a key.
BroadcastFile ==
    /\ Does("broadcast")
    /\ IF trx = Nothing \/ opts.offline THEN Raises("failed") /\ UNCHANGED ledger
       ELSE IF trx.wifs = {} THEN Raises("failed") /\ UNCHANGED ledger
       ELSE IF opts.nobroadcast THEN GoesOn /\ UNCHANGED ledger
       ELSE SendTo([trx EXCEPT !.from = "file"])
    /\ UNCHANGED <<process, keys, buffer, trx, nodes>>

-----------------------------------------------------------------------------
Finalize == FinalizeOffline \/ FinalizeUnsigned \/ FinalizeFails \/ FinalizeSends
Wallet == Unlock \/ Derive \/ AddKey \/ UseKey \/ DeleteKey \/ Wipe \/ Password \/ Lock
Transaction == Finalize \/ SendOwn \/ ExportOwn \/ SignFile \/ BroadcastFile

\* A step of the script.
Run == Read \/ Check \/ Branch \/ Wallet \/ SetNodes \/ Rotate \/ Transaction

Next == NewProcess \/ Choose \/ Run

\* A process runs until its commands have ended: they have no other thread to wait for.
Fairness == WF_vars(Run)

Spec == Init /\ [][Next]_vars /\ Fairness

-----------------------------------------------------------------------------
(* Properties.                                                             *)

FromBuffer(t) == t.from = "buffer"

\* What a command sends from the shared buffer is its own work: no operation of an
\* earlier command or call is in it, unless an earlier call of the process has raised,
\* which leaves its operations in the buffer (finalizeOp, TransactionBuilder.clear).
OnlyOwnOperations ==
    FromBuffer(sent) /\ ~broke => \A i \in DOMAIN sent.ops : sent.ops[i].by = "this"

\* With --no-broadcast, and offline, nothing is sent, by no command and from no file.
DryRunSendsNothing == opts.nobroadcast \/ opts.offline => sent = Nothing

\* The key of the role that a command asks the wallet for satisfies the chain, for all
\* operations of the transaction, unless keys were changed in this process, or an
\* earlier call has raised (its operations and its keys are still there).
SentIsAuthorised ==
    [][ FromBuffer(sent') /\ sent' # sent /\ ~broke /\ known.keys = chain.keys
        => Authorised(sent') ]_vars

\* A command that fails otherwise than in sending has sent nothing, so that it may be
\* repeated; but claimaccount goes on to read the account after each claim.
FailsBeforeSending ==
    outcome = "failed" /\ ~opts.program /\ FromBuffer(sent)
    => \A i \in DOMAIN sent.ops : sent.ops[i].changes = "claims"

\* Keys that a command derives and puts on the chain are in the wallet before they are
\* sent; the owner key need not be.
NewKeysKept ==
    derived /\ FromBuffer(sent) =>
        \A i \in DOMAIN sent.ops :
            /\ sent.ops[i].changes = "memo key" => Own("memo", "new") \in Held
            /\ sent.ops[i].changes = "keys" =>
                  {Own(r, "new") : r \in {"active", "posting", "memo"}} \subseteq Held
================================================================================
