----------------------------- MODULE SharedInstance ----------------------------
(***************************************************************************)
(* The instance that the objects of a program share unless they are given  *)
(* one (nectar/instance.py), and the client that one shared instance       *)
(* leaves to the next.  Nothing is locked.  (The object cache, which is    *)
(* cleared with the instance, is left out: nothing reads it by name.)      *)
(*                                                                         *)
(* A configuration is the set of nodes it names, {} if it names none.      *)
(***************************************************************************)
EXTENDS Naturals

CONSTANTS
    Users,        \* threads
    Configs,      \* configurations
    AllNodes,     \* every node
    MaxUses       \* bound on the calls

ASSUME ConfigAssumption == Configs \subseteq SUBSET AllNodes /\ MaxUses \in Nat

NoClient == [url |-> "none", nodes |-> {}]
NoInstance == [set |-> FALSE, given |-> FALSE, client |-> NoClient]

VARIABLES
    config,      \* SharedInstance.config
    instance,    \* SharedInstance.instance
    transport,   \* _shared_transport["rpc"]
    use,         \* a thread's call: where it is, the configuration and the result of its build
    uses,        \* number of calls
    outdated     \* history: the instance was built for an earlier configuration

instVars == <<config, instance, transport, use, uses, outdated>>

NotUsing == [at |-> "idle", config |-> {}, built |-> NoInstance, raced |-> FALSE]

InstanceInit ==
    /\ config = {} /\ instance = NoInstance /\ transport = NoClient
    /\ use = [t \in Users |-> NotUsing]
    /\ uses = 0 /\ outdated = FALSE

AtUse(t, pc) == use[t].at = pc
Builds == {t \in Users : AtUse(t, "build") \/ AtUse(t, "assign")}

\* The instance has been set while these threads build one.
Race(threads) == [t \in Users |-> IF t \in threads THEN [use[t] EXCEPT !.raced = TRUE] ELSE use[t]]

-----------------------------------------------------------------------------
(* shared_blockchain_instance.                                             *)

\* Mutant: the caller builds an instance whether there is one or not.
LookAway(t) ==
    /\ AtUse(t, "idle") /\ uses < MaxUses
    /\ uses' = uses + 1
    /\ use' = [use EXCEPT ![t].at = "build", ![t].config = config, ![t].raced = FALSE]
    /\ UNCHANGED <<config, instance, transport, outdated>>

\* The caller goes on with the instance that is there, or builds one.
Look(t) ==
    /\ AtUse(t, "idle") /\ uses < MaxUses
    /\ uses' = uses + 1
    /\ use' = [use EXCEPT ![t].at = IF instance.set THEN "return" ELSE "build",
                          ![t].config = config, ![t].raced = FALSE]
    /\ UNCHANGED <<config, instance, transport, outdated>>

\* Mutant: the stored client is taken over wherever it is connected.
ReusesAny(client, nodes) == client # NoClient

\* The stored client is taken over when it is connected to a node that the configuration
\* names, or this names none.
Reuses(client, nodes) == client # NoClient /\ (nodes = {} \/ client.url \in nodes)

\* A new client connects to one of the nodes configured, or of all.
NewClients(nodes) ==
    LET from == IF nodes = {} THEN AllNodes ELSE nodes
    IN {[url |-> u, nodes |-> from] : u \in from}

Build(t) ==
    /\ AtUse(t, "build")
    /\ \E new \in NewClients(use[t].config) :
         LET client == IF Reuses(transport, use[t].config) THEN transport ELSE new
         IN /\ transport' = client
            /\ use' = [use EXCEPT ![t].at = "assign",
                                  ![t].built = [set |-> TRUE, given |-> FALSE, client |-> client]]
    /\ UNCHANGED <<config, instance, uses, outdated>>

\* No node answers: the exception leaves no instance.
BuildFails(t) ==
    /\ AtUse(t, "build")
    /\ use' = [use EXCEPT ![t] = NotUsing]
    /\ UNCHANGED <<config, instance, transport, uses, outdated>>

Assign(t) ==
    /\ AtUse(t, "assign")
    /\ instance' = use[t].built
    /\ outdated' = (use[t].config # config)
    /\ use' = [Race(Builds) EXCEPT ![t].at = "return"]
    /\ UNCHANGED <<config, transport, uses>>

\* The variable is read once more: after another call it may hold another instance, or none.
ReturnInstance(t) ==
    /\ AtUse(t, "return")
    /\ use' = [use EXCEPT ![t] = NotUsing]
    /\ UNCHANGED <<config, instance, transport, uses, outdated>>

-----------------------------------------------------------------------------

\* With an instance that has a client, or has none.
set_shared_blockchain_instance ==
    /\ uses < MaxUses /\ uses' = uses + 1
    /\ \E client \in (UNION {NewClients(c) : c \in Configs}) \cup {NoClient} :
         /\ instance' = [set |-> TRUE, given |-> TRUE, client |-> client]
         /\ transport' = IF client = NoClient THEN transport ELSE client
    /\ use' = Race(Builds)
    /\ UNCHANGED <<config, outdated>>

set_shared_config ==
    /\ uses < MaxUses /\ uses' = uses + 1
    /\ config' \in Configs
    /\ instance' = NoInstance
    /\ use' = Race(Builds)
    /\ UNCHANGED <<transport, outdated>>

\* A client goes over to another of its nodes; it is the stored one in most cases.
Rotate ==
    /\ instance.set /\ instance.client # NoClient
    /\ \E u \in instance.client.nodes \ {instance.client.url} :
         LET client == [instance.client EXCEPT !.url = u]
         IN /\ instance' = [instance EXCEPT !.client = client]
            /\ transport' = IF transport = instance.client THEN client ELSE transport
    /\ UNCHANGED <<config, use, uses, outdated>>

InstanceNext ==
    \/ set_shared_blockchain_instance \/ set_shared_config \/ Rotate
    \/ \E t \in Users : Look(t) \/ Build(t) \/ BuildFails(t) \/ Assign(t) \/ ReturnInstance(t)

InstanceSpec == InstanceInit /\ [][InstanceNext]_instVars

-----------------------------------------------------------------------------
(* Properties.                                                             *)

\* However configurations and instances follow one another, the client of an instance that
\* was built can reach a node that the configuration names, although clients are handed on
\* from one instance to the next: unless the configuration changed during the build.
\* (It may go over to other nodes, those of the configuration that it was made for.)
SharedFitsConfig ==
    instance.set /\ ~instance.given /\ ~outdated /\ config # {} =>
        instance.client.nodes \cap config # {}

\* An instance that is shared, or was set, is replaced by one that a call builds only when
\* the two overlapped.
SharedStays ==
    [][\A t \in Users : AtUse(t, "assign") /\ instance' # instance /\ ~(AtUse(t, "assign"))' =>
          ~instance.set \/ use[t].raced]_instVars
================================================================================
