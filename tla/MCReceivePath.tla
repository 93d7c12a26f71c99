---------------------------- MODULE MCReceivePath ----------------------------
(* Packets of the lower miniport, with a pool of the driver too small for   *)
(* them, and a status code read as a count.                                 *)
EXTENDS ReceivePath

CONSTANTS p1, p2
TwoPackets == {p1, p2}
Many == 65539
==============================================================================
