----------------------------- MODULE MCTcpReceive -----------------------------
(* One short stream, cut in every way, and numbered mod 16.                 *)
EXTENDS TcpReceive

\* Segments of up to three bytes; those without data are acknowledgements.
AnyCut == {s \in [from : 0 .. StreamLength, len : 0 .. 3] :
              s.from + s.len <= StreamLength /\ (s.len = 0 => s.from = 0)}

\* Numbers that stay below SeqSpace, and numbers that wrap round.
LowAndHigh == {0, 13}

\* A stream in sequence, one with holes, and each kind of trouble with the other
\* faults that go with it.
Each == {{"repeat", "reconnect", "noSyn"}, {"reorder"},
         {"reorder", "noSyn", "noAck", "alloc"},
         {"straddle", "noSyn", "noAck", "alloc"}}
Reordered == {{"reorder"}}
==============================================================================
