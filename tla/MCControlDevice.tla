--------------------------- MODULE MCControlDevice ---------------------------
(* Three adapters: one deletes, one waits for it and a third one comes and   *)
(* goes meanwhile, which is every role the two routines distinguish.         *)
EXTENDS ControlDevice, TLC

CONSTANTS a1, a2, a3

MCAdapters == {a1, a2, a3}
==============================================================================
