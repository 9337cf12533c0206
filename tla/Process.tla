-------------------------------- MODULE Process --------------------------------
(***************************************************************************)
(* The state that the threads of one program share, beside the node pool:  *)
(* the chain data of an instance, the shared instance, and the list of     *)
(* nodes of the beacon.  No action of one of them touches another, so that *)
(* it is enough that threads use one of them at a time.                    *)
(***************************************************************************)
EXTENDS ChainData, SharedInstance, NodeList

VARIABLE part    \* what the threads use

vars == <<part, dataVars, instVars, nodesVars>>

Init ==
    /\ part \in {"data", "instance", "nodes"}
    /\ DataInit /\ InstanceInit /\ NodesInit

Uses(p) == part = p /\ UNCHANGED part

UseData == Uses("data") /\ DataNext /\ UNCHANGED <<instVars, nodesVars>>
UseInstance == Uses("instance") /\ InstanceNext /\ UNCHANGED <<dataVars, nodesVars>>
UseNodes == Uses("nodes") /\ NodesNext /\ UNCHANGED <<dataVars, instVars>>

Next == UseData \/ UseInstance \/ UseNodes

Spec == Init /\ [][Next]_vars
================================================================================
