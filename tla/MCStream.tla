-------------------------------- MODULE MCStream -------------------------------
(***************************************************************************)
(* Six blocks, and three batches for two workers.                          *)
(***************************************************************************)
EXTENDS Stream

MCJobs == <<<<"j1", "j2">>, <<"j3">>, <<"j4", "j5">>>>
================================================================================
