----------------------------- MODULE SessionScripts -----------------------------
(***************************************************************************)
(* What the scripts of Session have in common that its properties rest on. *)
(* The proofs assume this of any set of scripts; TLC finds it true of      *)
(* those that Operations and Commands translate from the code.             *)
(***************************************************************************)
EXTENDS Session

Suffix(s, k) == SubSeq(s, k + 1, Len(s))

\* What may be left of a script after some of its steps is in G again.
ClosedUnderSteps(G) ==
    /\ <<>> \in G
    /\ \A s \in G : \A k \in 0..Len(s) : Suffix(s, k) \in G
    /\ \A s \in G \ {<<>>} :
          /\ Head(s).do = "either" =>
                \A i \in DOMAIN Head(s).of : Head(s).of[i] \o Tail(s) \in G
          /\ Head(s).do \in {"if", "try"} => Head(s).of \o Tail(s) \in G

\* A call of finalizeOp names its operations and a role whose keys, or the owner key,
\* the chain accepts for each of them.
RolesSuffice(G) ==
    \A s \in G \ {<<>>} : Head(s).do = "finalize" =>
        /\ Head(s).ops \in Seq(STRING)
        /\ \A i \in DOMAIN Head(s).ops :
              StandsFor(Head(s).role) \cup {"owner"} \subseteq StandsFor(Needs(Head(s).ops[i]))

Caught(s) == \E i \in DOMAIN s : s[i].do = "tried"

\* No call of finalizeOp is inside a try that catches its exception.
FinalizeUncaught(G) ==
    \A s \in G \ {<<>>} : Head(s).do = "finalize" => ~Caught(s)

\* The rules for the scripts of commands and of methods alike; S are the steps they use.
Lawful(S, G) ==
    /\ G \in SUBSET Seq(S) /\ Scripts \cup Calls \subseteq G
    /\ ClosedUnderSteps(G) /\ RolesSuffice(G) /\ FinalizeUncaught(G)

\* The steps that cannot raise.
Calm == {"check", "either", "if", "try", "tried", "derive", "delete", "lock", "nodes",
         "renew", "rotate"}

\* No step of a script in Q ends it with an exception.
NothingFails(Q) == \A s \in Q \ {<<>>} : Head(s).do \in Calm \/ Caught(s)

\* The rule for command lines: after a finalizeOp that does more than claim an account
\* the rest of the script is in Q.
SendsLast(L, Q) ==
    \A s \in L \ {<<>>} : Head(s).do = "finalize" =>
        \/ Tail(s) \in Q
        \/ \A i \in DOMAIN Head(s).ops : Changes(Head(s).ops[i]) = "claims"

LawfulLines(S, L, Q) ==
    /\ L \in SUBSET Seq(S) /\ Q \in SUBSET Seq(S) /\ Scripts \subseteq L
    /\ ClosedUnderSteps(L) /\ SendsLast(L, Q)
    /\ ClosedUnderSteps(Q) /\ NothingFails(Q)

-----------------------------------------------------------------------------
\* A place in a script: the rest of it, the new keys that were put into the wallet on the
\* way there, and whether keys have been derived.
Place(rest, kept, drv) == [rest |-> rest, kept |-> kept, derived |-> drv]

\* An exception raised in s goes to the handler at k.
HandledAt(s, k) == s[k].do = "tried" /\ \A j \in 1..(k - 1) : s[j].do # "tried"

\* The next place when the first step does all it is there for.
Onward(p) ==
    LET step == Head(p.rest)
        adds == IF step.do = "add" /\ step.keys = "fresh" THEN {Own(step.role, "new")} ELSE {}
    IN Place(Tail(p.rest), p.kept \cup adds, p.derived \/ step.do = "derive")

\* A process that broadcasts takes what is there "unless nobroadcast".
Skips(step) == step.do = "if" => step.option # "nobroadcast" \/ step.is # FALSE

\* The places where a process that broadcasts may be after a step are in K again.
ClosedPlaces(K) ==
    \A p \in K :
        LET At(s) == Place(s, p.kept, p.derived) IN
        /\ At(<<>>) \in K
        /\ \A k \in DOMAIN p.rest :
              HandledAt(p.rest, k) \/ (\A j \in 1..k : p.rest[j].do \in Reads)
              => At(Suffix(p.rest, k)) \in K
        /\ p.rest # <<>> =>
              LET step == Head(p.rest) IN
              /\ Skips(step) => Onward(p) \in K
              /\ step.do = "either" => \A i \in DOMAIN step.of : At(step.of[i] \o Tail(p.rest)) \in K
              /\ step.do \in {"if", "try"} => At(step.of \o Tail(p.rest)) \in K

\* No new key is thrown away, and the wallet is not locked before it is used.
NothingThrownAway(K) ==
    \A p \in K : p.rest # <<>> /\ Head(p.rest).do \in {"delete", "wipe", "lock"} => p.kept = {}

NewKeys == {Own(r, "new") : r \in {"active", "posting", "memo"}}

\* The keys in ks are those that such a change of the account asks for.
KeptFor(change, ks) ==
    /\ change = "memo key" => Own("memo", "new") \in ks
    /\ change = "keys" => NewKeys \subseteq ks

\* No step of a script in N derives keys.
NeverDerives(N) == \A s \in N \ {<<>>} : Head(s).do # "derive"

\* A finalizeOp comes after the keys for its own operations are kept, or after all new
\* keys are; or none were derived, nor are they afterwards.
KeepsFirst(K, N) ==
    \A p \in K : p.rest # <<>> /\ Head(p.rest).do = "finalize" =>
        \/ \A i \in DOMAIN Head(p.rest).ops : KeptFor(Changes(Head(p.rest).ops[i]), p.kept)
        \/ ~p.derived /\ Tail(p.rest) \in N
KeepsAllFirst(K, N) ==
    \A p \in K : p.rest # <<>> /\ Head(p.rest).do = "finalize" =>
        NewKeys \subseteq p.kept \/ (~p.derived /\ Tail(p.rest) \in N)

\* The rule for new keys: KL are places in command lines and KC in methods.  What a method
\* finds in the buffer may need any of the keys.
Secure(S, KL, KC, N) ==
    /\ \A p \in KL \cup KC : p = Place(p.rest, p.kept, p.derived) /\ p.rest \in Seq(S)
    /\ \A s \in Scripts \cup {<<>>} : Place(s, {}, FALSE) \in KL
    /\ \A s \in Calls \cup {<<>>} : Place(s, {}, FALSE) \in KC
    /\ ClosedPlaces(KL) /\ NothingThrownAway(KL) /\ KeepsFirst(KL, N)
    /\ ClosedPlaces(KC) /\ NothingThrownAway(KC) /\ KeepsAllFirst(KC, N)
    /\ N \in SUBSET Seq(S) /\ ClosedUnderSteps(N) /\ NeverDerives(N)
================================================================================
