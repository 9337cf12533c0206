------------------------------- MODULE MCProcess -------------------------------
(***************************************************************************)
(* Two threads and two nodes.                                              *)
(***************************************************************************)
EXTENDS Process, TLC

CONSTANT Threads

MCConfigs == {{}, {"a"}, {"b"}, {"a", "b"}}

\* Threads are alike.
Alike == Permutations(Threads)
================================================================================
