------------------------------- MODULE MCSession -------------------------------
(* All commands on command lines, and all methods called by a program. *)
EXTENDS SessionScripts

C == INSTANCE Commands

MCScripts == C!CommandLine
MCCalls == C!Op!Methods
Mode(set) == [o \in Options |-> o \in set]
MCModes ==
    {Mode({}), Mode({"nobroadcast", "export"}), Mode({"unsigned", "export"}),
     Mode({"unsigned", "nobroadcast"}), Mode({"offline"}), Mode({"program"}),
     Mode({"program", "nobroadcast"})}
MCWallets == {{}, {Own("posting", "old")}, {Own(r, "old") : r \in {"active", "memo"}}}

\* What may be left of the scripts after some of their steps.
After(s) ==
    {Suffix(s, k) : k \in 0..Len(s)} \cup
    (IF s = <<>> THEN {}
     ELSE CASE Head(s).do = "either" -> {Head(s).of[i] \o Tail(s) : i \in DOMAIN Head(s).of}
            [] Head(s).do \in {"if", "try"} -> {Head(s).of \o Tail(s)}
            [] OTHER -> {})
RECURSIVE Reached(_, _)
Reached(new, all) ==
    IF new = {} THEN all ELSE Reached(UNION {After(s) : s \in new} \ (all \cup new), all \cup new)

MCLines == Reached(MCScripts, {})
MCAll == Reached(MCCalls, MCLines)
MCQuiet == {s \in MCLines : NothingFails(Reached({s}, {}))}

\* The scripts of the code keep the rules that the theorems of Session_proofs assume; the
\* steps S of those rules are all that occur.
ASSUME ScriptsAreLawful ==
    /\ Scripts \cup Calls \subseteq MCAll
    /\ ClosedUnderSteps(MCAll) /\ RolesSuffice(MCAll) /\ FinalizeUncaught(MCAll)

ASSUME LinesAreLawful ==
    /\ Scripts \subseteq MCLines
    /\ ClosedUnderSteps(MCLines) /\ SendsLast(MCLines, MCQuiet)
    /\ ClosedUnderSteps(MCQuiet) /\ NothingFails(MCQuiet)

\* The places to which a step leads.
Beyond(p) ==
    LET At(s) == Place(s, p.kept, p.derived)
        step == Head(p.rest)
    IN {At(<<>>)} \cup
       {At(Suffix(p.rest, k)) : k \in
           {k \in DOMAIN p.rest : HandledAt(p.rest, k) \/ \A j \in 1..k : p.rest[j].do \in Reads}}
       \cup (IF p.rest = <<>> THEN {}
             ELSE {Onward(q) : q \in {q \in {p} : Skips(step)}} \cup
                  (CASE step.do = "either" -> {At(step.of[i] \o Tail(p.rest)) : i \in DOMAIN step.of}
                     [] step.do \in {"if", "try"} -> {At(step.of \o Tail(p.rest))}
                     [] OTHER -> {}))
RECURSIVE Places(_, _)
Places(new, all) ==
    IF new = {} THEN all ELSE Places(UNION {Beyond(p) : p \in new} \ (all \cup new), all \cup new)

MCLinePlaces == Places({Place(s, {}, FALSE) : s \in MCScripts \cup {<<>>}}, {})
MCCallPlaces == Places({Place(s, {}, FALSE) : s \in MCCalls \cup {<<>>}}, {})
MCWithoutKeys == {s \in MCAll : NeverDerives(Reached({s}, {}))}

ASSUME KeysAreSecure ==
    /\ \A s \in Scripts \cup {<<>>} : Place(s, {}, FALSE) \in MCLinePlaces
    /\ \A s \in Calls \cup {<<>>} : Place(s, {}, FALSE) \in MCCallPlaces
    /\ ClosedPlaces(MCLinePlaces) /\ NothingThrownAway(MCLinePlaces)
    /\ KeepsFirst(MCLinePlaces, MCWithoutKeys)
    /\ ClosedPlaces(MCCallPlaces) /\ NothingThrownAway(MCCallPlaces)
    /\ KeepsAllFirst(MCCallPlaces, MCWithoutKeys)
    /\ ClosedUnderSteps(MCWithoutKeys) /\ NeverDerives(MCWithoutKeys)
================================================================================
