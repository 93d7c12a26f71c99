-------------------------- MODULE MCConnectionLists --------------------------
(* Two threads and two connections, one of which both threads may work on.  *)
EXTENDS ConnectionLists

CONSTANTS t1, t2, c1, c2
TwoThreads == {t1, t2}
TwoConnections == {c1, c2}
Unordered == {c2}
==============================================================================
