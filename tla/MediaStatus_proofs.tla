-------------------------- MODULE MediaStatus_proofs --------------------------
(***************************************************************************)
(* Theorems about MediaStatus, for any scenarios and any number of changes  *)
(* of the link.                                                             *)
(*                                                                          *)
(* That the record is what was told holds between two handlers only; inside *)
(* them one of the two is ahead.  RecordAhead and ToldAhead say which, at   *)
(* each place.  A status that was never kept is not indicated because the   *)
(* miniport edge stands by before it comes back: KeptInTime says from when  *)
(* on LatestUnIndicateStatus has been written.  NothingForgotten follows    *)
(* the status reported last through both records.                           *)
(***************************************************************************)
EXTENDS MediaStatus, TLAPS

\* PtStatus runs alone.
StatusAlone == ~MayOverlap /\ pcStatus # "idle" => pcSet = "idle" /\ pcPnp = "idle"

\* PtStatus records first and tells then.
RecordAhead == ~MayOverlap /\ pcStatus = "indicating" => LastIndicatedStatus = status

\* MPProcessSetPowerOid tells first and records then.
ToldAhead == ~MayOverlap /\ pcSet = "recording" => told = LatestUnIndicateStatus

Between ==
    ~MayOverlap /\ pcStatus # "indicating" /\ pcSet # "recording"
        => LastIndicatedStatus = told

\* With a lower miniport that stays at D0 and one handler at a time, the power
\* states are those MPProcessSetPowerOid set.
SetByOid ==
    scenario = {} =>
        /\ pcPnp = "idle"
        /\ pcSet = "setting" => target # MPDeviceState /\ StandingBy = (target = "low")
        /\ pcSet \in {"set", "recording"} => StandingBy = (MPDeviceState = "low")
        /\ pcSet = "recording" => MPDeviceState = "D0"

\* From the first time the miniport edge is low, something has been written to
\* LatestUnIndicateStatus.
KeptInTime ==
    scenario = {} =>
        \/ LatestUnIndicateStatus \in Links
        \/ pcSet = "idle" /\ MPDeviceState = "D0"
        \/ pcSet = "setting" /\ target = "low"
        \/ pcSet = "set" /\ MPDeviceState = "low"

\* The status that was reported last, which PtStatus keeps in its local, is the
\* link; with no PtStatus under way it is what was told, what was kept, or both.
Told == \/ pcSet = "idle" /\ MPDeviceState = "D0"
        \/ pcSet = "setting" /\ target = "low"
        \/ pcSet = "set" /\ MPDeviceState = "low"
        \/ pcSet = "recording"
Kept == \/ pcSet = "idle" /\ MPDeviceState = "low"
        \/ pcSet = "setting" /\ target = "D0"
        \/ pcSet = "set" /\ MPDeviceState = "D0"
        \/ pcSet = "recording"

NothingForgotten ==
    scenario = {} =>
        /\ PTDeviceState = "D0"
        /\ reported => status = link
        /\ pcStatus = "indicating" => MPDeviceState = "D0"
        /\ pcStatus = "keeping" => MPDeviceState = "low"
        /\ pcStatus = "idle" /\ Told => told = status
        /\ pcStatus = "idle" /\ Kept => LatestUnIndicateStatus = status

IInv == /\ TypeOK /\ scenario \in Scenarios
        /\ StatusAlone /\ RecordAhead /\ ToldAhead /\ Between
        /\ SetByOid /\ KeptInTime /\ ToldWasReported /\ NothingForgotten

------------------------------------------------------------------------------
\* Nothing was kept and nothing is under way at first.
LEMMA InitHolds == Init => IInv
  <1> SUFFICES ASSUME Init PROVE IInv
    OBVIOUS
  <1>1. TypeOK
    <2>1. changes \in 0 .. MaxChanges
      BY MaxChangesNat DEF Init
    <2> QED
      BY <2>1 DEF Init, TypeOK, States, Links
  <1>2. StatusAlone /\ RecordAhead /\ ToldAhead /\ Between
    BY DEF Init, StatusAlone, RecordAhead, ToldAhead, Between, MayOverlap
  <1>3. SetByOid /\ KeptInTime /\ ToldWasReported /\ NothingForgotten
    BY DEF Init, SetByOid, KeptInTime, ToldWasReported, NothingForgotten, Told, Kept, Links
  <1> QED
    BY <1>1, <1>2, <1>3 DEF Init, IInv

\* Every step of the lower miniport and of the handlers keeps the types.
LEMMA NextTyped == TypeOK /\ [Next]_vars => TypeOK'
  <1> SUFFICES ASSUME TypeOK, [Next]_vars PROVE TypeOK'
    OBVIOUS
  <1> USE MaxChangesNat DEF TypeOK, States, Links
  <1>1. CASE UNCHANGED vars
    BY <1>1 DEF vars, power, records, media, statusThread, setThread, pnpThread
  <1>2. CASE LinkChanges
    <2>1. changes' \in 0 .. MaxChanges
      BY <1>2 DEF LinkChanges
    <2> QED
      BY <1>2, <2>1 DEF LinkChanges, power, records, statusThread, setThread, pnpThread
  <1>7. CASE Report
    BY <1>7 DEF Report, power, records, media, setThread, pnpThread
  <1>3. CASE RecordIndicated \/ Indicate \/ DecideToKeep \/ Keep
    BY <1>3 DEF RecordIndicated, Indicate, DecideToKeep, Keep, power, records, media,
       setThread, pnpThread
  <1>4. ASSUME NEW state \in States, BeginSetPower(state) PROVE TypeOK'
    <2>1. StandingBy' \in BOOLEAN
      BY <1>4 DEF BeginSetPower
    <2> QED
      BY <1>4, <2>1 DEF BeginSetPower, records, media, statusThread, pnpThread
  <1>8. ASSUME NEW state \in States, BeginPowerEvent(state) PROVE TypeOK'
    BY <1>8 DEF BeginPowerEvent, power, records, media, statusThread, setThread
  <1>5. CASE SetState \/ ForgetKept \/ NothingKept
    BY <1>5 DEF SetState, ForgetKept, NothingKept, power, records, media, statusThread,
       pnpThread
  <1>6. CASE IndicateKept \/ RecordKept \/ EndPowerEvent
    BY <1>6 DEF IndicateKept, RecordKept, EndPowerEvent, power, records, media,
       statusThread, setThread, pnpThread
  <1> QED
    BY <1>1, <1>2, <1>3, <1>4, <1>5, <1>6, <1>7, <1>8 DEF Next

\* What says where the record and what was told differ is kept by every step.
LEMMA NextHolds == IInv /\ [Next]_vars => IInv'
  <1> SUFFICES ASSUME IInv, [Next]_vars PROVE IInv'
    OBVIOUS
  <1>1. TypeOK /\ TypeOK'
    BY NextTyped DEF IInv
  <1>2. scenario' = scenario /\ scenario \in Scenarios
    BY DEF IInv, Next, vars, LinkChanges, Report, RecordIndicated, Indicate, DecideToKeep,
       Keep, BeginSetPower, BeginPowerEvent, SetState, ForgetKept, NothingKept,
       IndicateKept, RecordKept, EndPowerEvent
  <1> DEFINE Parts == /\ StatusAlone /\ RecordAhead /\ ToldAhead /\ Between
                      /\ SetByOid /\ KeptInTime /\ ToldWasReported
                      /\ NothingForgotten
  <1> SUFFICES Parts'
    BY <1>1, <1>2 DEF IInv
  <1>3. Parts /\ "lowerSleeps" \notin {} /\ "overlap" \notin {}
    BY DEF IInv
  <1> USE <1>1, <1>2, <1>3 DEF TypeOK, States, Links, StatusAlone, RecordAhead, ToldAhead, Between,
        SetByOid, KeptInTime, ToldWasReported, NothingForgotten, Told, Kept, BothOn,
        MayOverlap
  <1>4. CASE UNCHANGED vars
    BY <1>4 DEF vars, power, records, media, statusThread, setThread, pnpThread
  <1>5. CASE LinkChanges
    BY <1>5 DEF LinkChanges, power, records, statusThread, setThread, pnpThread
  <1>6. CASE Report
    BY <1>6 DEF Report, power, records, setThread, pnpThread
  <1>7. CASE RecordIndicated
    BY <1>7 DEF RecordIndicated, power, media, setThread, pnpThread
  <1>8. CASE Indicate
    BY <1>8 DEF Indicate, power, records, media, setThread, pnpThread
  <1>9. CASE DecideToKeep
    BY <1>9 DEF DecideToKeep, power, records, media, setThread, pnpThread
  <1>10. CASE Keep
    BY <1>10 DEF Keep, power, media, setThread, pnpThread
  <1>11. ASSUME NEW state \in States, BeginSetPower(state) PROVE Parts'
    BY <1>11 DEF BeginSetPower, records, media, statusThread, pnpThread
  <1>12. ASSUME NEW state \in States, BeginPowerEvent(state) PROVE Parts'
    BY <1>12 DEF BeginPowerEvent, power, records, media, statusThread, setThread
  <1>13. CASE SetState
    BY <1>13 DEF SetState, records, media, statusThread, pnpThread
  <1>14. CASE ForgetKept
    BY <1>14 DEF ForgetKept, power, media, statusThread, pnpThread
  <1>15. CASE NothingKept
    BY <1>15 DEF NothingKept, power, records, media, statusThread, pnpThread
  <1>16. CASE IndicateKept
    BY <1>16 DEF IndicateKept, power, records, media, statusThread, pnpThread
  <1>17. CASE RecordKept
    BY <1>17 DEF RecordKept, power, media, statusThread, pnpThread
  <1>18. CASE EndPowerEvent
    BY <1>18 DEF EndPowerEvent, records, media, statusThread, setThread
  <1> QED
    BY <1>4, <1>5, <1>6, <1>7, <1>8, <1>9, <1>10, <1>11, <1>12, <1>13, <1>14, <1>15,
       <1>16, <1>17, <1>18 DEF Next

\* The inductive invariant of the media status.
THEOREM Invariance == Spec => []IInv
  BY InitHolds, NextHolds, PTL DEF Spec

\* Every variable keeps its type (PtStatus, MPProcessSetPowerOid).
THEOREM TypeCorrect == Spec => []TypeOK
  <1>1. IInv => TypeOK
    BY DEF IInv
  <1> QED
    BY Invariance, <1>1, PTL

\* With the handlers left, LastIndicatedStatus is what the protocols above were
\* told; and with a lower miniport at D0 they were told only what was reported.
THEOREM RecordAlwaysCorrect == Spec => []RecordCorrect
  <1>1. IInv => RecordCorrect
    BY DEF IInv, Between, RecordCorrect, RecordIsTold, Quiet
  <1> QED
    BY Invariance, <1>1, PTL

\* What was suppressed while the miniport edge was off is made good for: with both
\* edges on and a lower miniport that stays at D0 the protocols above know the
\* link (PtStatus and the end of MPProcessSetPowerOid).
THEOREM LinkAlwaysKnown == Spec => []UpperKnowsLink
  <1>1. IInv => UpperKnowsLink
    BY DEF IInv, NothingForgotten, Told, UpperKnowsLink, Quiet, BothOn
  <1> QED
    BY Invariance, <1>1, PTL
===============================================================================
