---------------------------- MODULE MCMediaStatus ----------------------------
(* Bounds for MediaStatus: the link changes a few times.                     *)
EXTENDS MediaStatus

MCMaxChanges == 4
EveryScenario == SUBSET {"lowerSleeps", "overlap"}
==============================================================================
