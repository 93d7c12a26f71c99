----------------------------- MODULE MCAdapterIO -----------------------------
(* Two packets and a pool of one: a packet of the pool and a stacked one in  *)
(* flight together, and the exhausted pool.                                  *)
EXTENDS AdapterIO

CONSTANTS p1, p2

MCPackets == {p1, p2}
==============================================================================
