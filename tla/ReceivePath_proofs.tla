-------------------------- MODULE ReceivePath_proofs --------------------------
(***************************************************************************)
(* Theorems about ReceivePath, for any finite set of packets and any pool.  *)
(*                                                                          *)
(* What is owed for a packet can only be told together with the place of    *)
(* its indication and with whether it is above: a packet that came back     *)
(* before the handler has returned is owed -1 times until then.  Settled    *)
(* says this for each place.  It is inductive, because an action moves one  *)
(* packet, and because the handle, once NULL, stays NULL.                   *)
(***************************************************************************)
EXTENDS ReceivePath, TLAPS

\* The packet is with a handler that has not handed it up.
Entered(p) ==
    at[p] \in {"checked", "analysing", "indicating", "crashed"} =>
        owed[p] = 0 /\ p \notin above \cup held

\* The handler is about to return: what is lent is not above, and what is not
\* lent and not above has come back or was not handed up after a halt.
AboutToReturn(p) ==
    at[p] = "leaving" =>
        /\ p \notin held
        /\ p \in above => owed[p] = 0 /\ ~lent[p]
        /\ (p \notin above /\ lent[p]) => owed[p] = 0
        /\ (p \notin above /\ ~lent[p]) =>
              \/ owed[p] = -1 /\ p \notin mine
              \/ owed[p] = 0 /\ ~MiniportHandle

\* No handler has the packet.
Away(p) ==
    (at[p] = "lower" /\ p \notin held) =>
        /\ p \in above => owed[p] = 1 /\ ~lent[p]
        /\ p \notin above => owed[p] = 0 \/ (owed[p] = 1 /\ ~MiniportHandle)
        /\ p \in mine => p \in above \/ ~MiniportHandle

Queued(p) ==
    p \in held => at[p] = "lower" /\ p \notin above /\ owed[p] \in {0, NotAccepted}

Settled(p) == /\ Entered(p) /\ AboutToReturn(p) /\ Away(p) /\ Queued(p)
              /\ at[p] = "checked" => p \notin mine
              /\ at[p] = "crashed" => ~MiniportHandle

IInv == TypeOK /\ \A p \in Packets : Settled(p)

------------------------------------------------------------------------------
\* Nobody has a packet at first.
LEMMA InitSettled == Init => IInv
  BY NotAcceptedMany DEF Init, IInv, TypeOK, Places, Settled, Entered, AboutToReturn, Away, Queued

\* The actions that move packet p leave every other packet as it is.
Elsewhere(p) ==
    /\ MiniportHandle' = MiniportHandle
    /\ \A q \in Packets \ {p} :
          /\ at'[q] = at[q] /\ owed'[q] = owed[q] /\ lent'[q] = lent[q]
          /\ q \in mine' <=> q \in mine
          /\ q \in above' <=> q \in above
          /\ q \in held' <=> q \in held

LEMMA OthersSettled ==
  ASSUME NEW p \in Packets, IInv, Elsewhere(p), Settled(p)'
  PROVE  \A q \in Packets : Settled(q)'
<1>1. ASSUME NEW q \in Packets, q # p PROVE Settled(q)'
  BY <1>1 DEF IInv, Elsewhere, Settled, Entered, AboutToReturn, Away, Queued
<1>2. QED
  BY <1>1

\* Every step preserves the invariant: one step per action, and under it the
\* types, the packet that moves and the others.
LEMMA NextSettled == IInv /\ [Next]_vars => IInv'
<1> SUFFICES ASSUME IInv, [Next]_vars PROVE IInv'
  OBVIOUS
<1> USE NotAcceptedMany
<1>1. ASSUME NEW p \in Packets, NEW handler \in {"PtReceivePacket", "PtReceive"},
             NEW status \in BOOLEAN, Start(p, handler, status) PROVE IInv'
  <2>1. TypeOK'
    BY <1>1 DEF IInv, TypeOK, Start, adapter, Go, Places, Settled, Entered, AboutToReturn,
       Away, Queued
  <2>2. Elsewhere(p)
    BY <1>1 DEF IInv, TypeOK, Start, Elsewhere, adapter, Go
  <2>3. Settled(p)'
    BY <1>1 DEF IInv, TypeOK, Start, adapter, Go, Settled, Entered, AboutToReturn,
       Away, Queued
  <2>4. QED
    BY <2>1, <2>2, <2>3, OthersSettled DEF IInv
<1>2. ASSUME NEW p \in Packets, ReusePacket(p) PROVE IInv'
  <2>1. TypeOK'
    BY <1>2 DEF IInv, TypeOK, ReusePacket, adapter, Go, Places, Settled, Entered, AboutToReturn,
       Away, Queued
  <2>2. Elsewhere(p)
    BY <1>2 DEF IInv, TypeOK, ReusePacket, Elsewhere, adapter, Go
  <2>3. Settled(p)'
    BY <1>2 DEF IInv, TypeOK, ReusePacket, adapter, Go, Settled, Entered, AboutToReturn,
       Away, Queued
  <2>4. QED
    BY <2>1, <2>2, <2>3, OthersSettled DEF IInv
<1>3. ASSUME NEW p \in Packets, AllocatePacket(p) PROVE IInv'
  <2>1. TypeOK'
    BY <1>3 DEF IInv, TypeOK, AllocatePacket, adapter, Go, Places, Settled, Entered, AboutToReturn,
       Away, Queued
  <2>2. Elsewhere(p)
    BY <1>3 DEF IInv, TypeOK, AllocatePacket, Elsewhere, adapter, Go
  <2>3. Settled(p)'
    BY <1>3 DEF IInv, TypeOK, AllocatePacket, adapter, Go, Settled, Entered, AboutToReturn,
       Away, Queued
  <2>4. QED
    BY <2>1, <2>2, <2>3, OthersSettled DEF IInv
<1>4. ASSUME NEW p \in Packets, AllocateFails(p) PROVE IInv'
  <2>1. TypeOK'
    BY <1>4 DEF IInv, TypeOK, AllocateFails, adapter, Go, Places, Settled, Entered, AboutToReturn,
       Away, Queued
  <2>2. Elsewhere(p)
    BY <1>4 DEF IInv, TypeOK, AllocateFails, Elsewhere, adapter, Go
  <2>3. Settled(p)'
    BY <1>4 DEF IInv, TypeOK, AllocateFails, adapter, Go, Settled, Entered, AboutToReturn,
       Away, Queued
  <2>4. QED
    BY <2>1, <2>2, <2>3, OthersSettled DEF IInv
<1>5. ASSUME NEW p \in Packets, AnalysisPasses(p) PROVE IInv'
  <2>1. TypeOK'
    BY <1>5 DEF IInv, TypeOK, AnalysisPasses, adapter, Go, Places, Settled, Entered, AboutToReturn,
       Away, Queued
  <2>2. Elsewhere(p)
    BY <1>5 DEF IInv, TypeOK, AnalysisPasses, Elsewhere, adapter, Go
  <2>3. Settled(p)'
    BY <1>5 DEF IInv, TypeOK, AnalysisPasses, adapter, Go, Settled, Entered, AboutToReturn,
       Away, Queued
  <2>4. QED
    BY <2>1, <2>2, <2>3, OthersSettled DEF IInv
<1>6. ASSUME NEW p \in Packets, AnalysisKeeps(p) PROVE IInv'
  <2>1. TypeOK'
    BY <1>6 DEF IInv, TypeOK, AnalysisKeeps, adapter, Go, Places, Settled, Entered, AboutToReturn,
       Away, Queued, HandUp
  <2>2. Elsewhere(p)
    BY <1>6 DEF IInv, TypeOK, AnalysisKeeps, Elsewhere, adapter, Go, HandUp
  <2>3. Settled(p)'
    BY <1>6 DEF IInv, TypeOK, AnalysisKeeps, adapter, Go, Settled, Entered, AboutToReturn,
       Away, Queued, HandUp
  <2>4. QED
    BY <2>1, <2>2, <2>3, OthersSettled DEF IInv
<1>7. ASSUME NEW p \in Packets, AnalysisStores(p) PROVE IInv'
  <2>1. TypeOK'
    BY <1>7 DEF IInv, TypeOK, AnalysisStores, adapter, Go, Places, Settled, Entered, AboutToReturn,
       Away, Queued
  <2>2. Elsewhere(p)
    BY <1>7 DEF IInv, TypeOK, AnalysisStores, Elsewhere, adapter, Go
  <2>3. Settled(p)'
    BY <1>7 DEF IInv, TypeOK, AnalysisStores, adapter, Go, Settled, Entered, AboutToReturn,
       Away, Queued
  <2>4. QED
    BY <2>1, <2>2, <2>3, OthersSettled DEF IInv
<1>8. ASSUME NEW p \in Packets, Indicate(p) PROVE IInv'
  <2>1. TypeOK'
    BY <1>8 DEF IInv, TypeOK, Indicate, adapter, Go, Places, Settled, Entered, AboutToReturn,
       Away, Queued, HandUp
  <2>2. Elsewhere(p)
    BY <1>8 DEF IInv, TypeOK, Indicate, Elsewhere, adapter, Go, HandUp
  <2>3. Settled(p)'
    BY <1>8 DEF IInv, TypeOK, Indicate, adapter, Go, Settled, Entered, AboutToReturn,
       Away, Queued, HandUp
  <2>4. QED
    BY <2>1, <2>2, <2>3, OthersSettled DEF IInv
<1>9. ASSUME NEW p \in Packets, Leave(p) PROVE IInv'
  <2>1. TypeOK'
    BY <1>9 DEF IInv, TypeOK, Leave, adapter, Go, Places, Settled, Entered, AboutToReturn,
       Away, Queued, Result
  <2>2. Elsewhere(p)
    BY <1>9 DEF IInv, TypeOK, Leave, Elsewhere, adapter, Go, Result
  <2>3. Settled(p)'
    BY <1>9 DEF IInv, TypeOK, Leave, adapter, Go, Settled, Entered, AboutToReturn,
       Away, Queued, Result
  <2>4. QED
    BY <2>1, <2>2, <2>3, OthersSettled DEF IInv
<1>10. ASSUME NEW p \in Packets, MPReturnPacket(p) PROVE IInv'
  <2>1. TypeOK'
    BY <1>10 DEF IInv, TypeOK, MPReturnPacket, adapter, Go, Places, Settled, Entered, AboutToReturn,
       Away, Queued
  <2>2. Elsewhere(p)
    BY <1>10 DEF IInv, TypeOK, MPReturnPacket, Elsewhere, adapter, Go
  <2>3. Settled(p)'
    BY <1>10 DEF IInv, TypeOK, MPReturnPacket, adapter, Go, Settled, Entered, AboutToReturn,
       Away, Queued
  <2>4. QED
    BY <2>1, <2>2, <2>3, OthersSettled DEF IInv
<1>11. CASE Halt
  BY <1>11 DEF IInv, TypeOK, Halt, Settled, Entered, AboutToReturn, Away, Queued
<1>12. ASSUME NEW state \in {"D0", "low"}, SetPower(state) PROVE IInv'
  BY <1>12 DEF IInv, TypeOK, SetPower, Settled, Entered, AboutToReturn, Away, Queued
<1>13. CASE UNCHANGED vars
  BY <1>13 DEF IInv, TypeOK, vars, adapter, Settled, Entered, AboutToReturn, Away, Queued
<1>14. QED
  BY <1>1, <1>2, <1>3, <1>4, <1>5, <1>6, <1>7, <1>8, <1>9, <1>10, <1>11, <1>12, <1>13 DEF Next, Step

------------------------------------------------------------------------------
\* The inductive invariant, for every instance.
THEOREM Invariance == Spec => []IInv
<1>1. QED
  BY InitSettled, NextSettled, PTL DEF Spec

\* Type correctness: what is owed for a packet is one of four numbers.
THEOREM TypeCorrect == Spec => []TypeOK
<1>1. IInv => TypeOK
  BY DEF IInv
<1>2. QED
  BY Invariance, <1>1, PTL

\* The results of PtReceivePacket and PtReceive agree with the returns to come.
THEOREM OwedCorrect == Spec => []OwedHasHolder
<1>1. IInv => OwedHasHolder
  BY DEF IInv, OwedHasHolder, Settled, Away
<1>2. QED
  BY Invariance, <1>1, PTL

\* No descriptor of RecvPacketPoolHandle leaks, or is freed while it is above.
THEOREM PoolCorrect == Spec => []PoolIsExact
<1>1. IInv => PoolIsExact
  BY DEF IInv, PoolIsExact, TypeOK, Places, Settled, Away
<1>2. QED
  BY Invariance, <1>1, PTL

\* What the lower miniport only lent is not above after the call.
THEOREM LentCorrect == Spec => []LentNotAbove
<1>1. IInv => LentNotAbove
  BY DEF IInv, LentNotAbove, TypeOK, Settled, Away, Queued
<1>2. QED
  BY Invariance, <1>1, PTL

\* Both together.
THEOREM DescriptorsAlwaysCorrect == Spec => []DescriptorsCorrect
<1>1. PoolIsExact /\ LentNotAbove => DescriptorsCorrect
  BY DEF DescriptorsCorrect
<1>2. QED
  BY <1>1, PoolCorrect, LentCorrect, PTL
==============================================================================
