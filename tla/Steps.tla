--------------------------------- MODULE Steps ---------------------------------
(***************************************************************************)
(* The steps of which the methods and the commands of hive-nectar are      *)
(* made, as far as they differ in what they do to the wallet, to the       *)
(* transaction buffer and to the chain, and in how they may end.  A        *)
(* script is a sequence of steps; Session says what each of them does.     *)
(*                                                                         *)
(* What a method shows, formats or computes from what it has read is left  *)
(* out of its script; every way it may end is in it.                       *)
(***************************************************************************)
EXTENDS Sequences

Step(kind) == <<[do |-> kind]>>

\* Steps that may raise and do nothing else: rpcconnect; the account taken from the
\* option or from the configuration; a request to a node, with the objects made from
\* the answer; and a test of the arguments.
Connect == Step("connect")
Default == Step("default")
Look == Step("look")
Demand == Step("demand")

\* A test, or a question answered with no, after which the command returns.
Check == Step("check")

\* unlock_wallet; most commands return when the wallet stays locked.  allow_wif=False
\* changes the prompt only: a private key is taken for an answer all the same.
Unlock == <<[do |-> "unlock", ends |-> TRUE]>>
UnlockStrict == Unlock
UnlockAnyway == <<[do |-> "unlock", ends |-> FALSE]>>

\* finalizeOp(ops, account, role), and the same with a builder of its own and a key
\* given by the caller.
Finalize(ops, role) == <<[do |-> "finalize", ops |-> ops, role |-> role]>>
SendOwn(ops, role) == <<[do |-> "own", ops |-> ops, role |-> role]>>
ExportOwn == Step("export")

\* The transaction in the file that an earlier command has written.
SignFile == Step("sign")
BroadcastFile == Step("broadcast")

\* Keys: those of the account that a password or the user gives, those a command has
\* derived for the account and is about to put on the chain, and those of an account
\* that is to be created.
Derive == Step("derive")
AddKey(role) == <<[do |-> "add", keys |-> "own", role |-> role]>>
AddFresh(role) == <<[do |-> "add", keys |-> "fresh", role |-> role]>>
AddCreated == <<[do |-> "add", keys |-> "created", role |-> "active"]>>
UseKey(role) == <<[do |-> "use", role |-> role]>>
DeleteKey == Step("delete")
Wipe == Step("wipe")
Create == Step("create")
ChangePassword == Step("password")
Lock == Step("lock")

\* The list of nodes in the configuration: a new one, and turning the list until the
\* node in use is the first.
SetNodes == Step("nodes")
Rotate == Step("rotate")

\* The node in use becomes one of the configured list.
Reconnect == Step("renew")

\* Alternatives.
Nothing == <<>>
Either(a, b) == <<[do |-> "either", of |-> <<a, b>>]>>
Optional(a) == Either(a, Nothing)
Several(a) == Optional(a \o Optional(a))

\* Unless the options say so.
Unless(option, a) == <<[do |-> "if", option |-> option, is |-> FALSE, of |-> a]>>
When(option, a) == <<[do |-> "if", option |-> option, is |-> TRUE, of |-> a]>>

\* try: a ... except Exception
Try(a) == <<[do |-> "try", of |-> a \o Step("tried")]>>
================================================================================
