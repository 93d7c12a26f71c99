----------------------------- MODULE MediaStatus -----------------------------
(***************************************************************************)
(* What one adapter tells the protocols above of the media below: PtStatus  *)
(* (protocol.c) passes a media status up or keeps it, and                   *)
(* MPProcessSetPowerOid (miniport.c) hands over what was kept when the      *)
(* miniport edge is powered up.  Both read the power states and StandingBy, *)
(* which PtPnPNetEventSetPower writes; its waits and the requests are       *)
(* AdapterIO's, and the miniport edge stays initialised here.               *)
(*                                                                          *)
(* PtStatus and MPProcessSetPowerOid take no lock: each access to what they *)
(* share is a step.  NDIS asks for a power state only to change it.         *)
(***************************************************************************)
EXTENDS Naturals

CONSTANTS Scenarios,     \* what a behaviour may meet, see "scenario" below
          MaxChanges     \* bound on the changes of the link

ASSUME ScenariosKnown == Scenarios \subseteq SUBSET {"lowerSleeps", "overlap"}
ASSUME MaxChangesNat == MaxChanges \in Nat

VARIABLES
    \* Never changes.  "lowerSleeps": the lower miniport may leave D0; "overlap":
    \* PtStatus may run together with the power handlers.
    scenario,
    MPDeviceState, PTDeviceState, StandingBy,
    LastIndicatedStatus,      \* the last one passed up
    LatestUnIndicateStatus,   \* the last one kept, "zero" before the first
    link,        \* external: what the lower miniport last knew of the media
    reported,    \* external: whether it has called PtStatus for that
    told,        \* external: what the protocols above were told last
    changes,     \* the changes of the link so far
    pcStatus, status,         \* PtStatus and the status it handles
    pcSet, target,            \* MPProcessSetPowerOid and the state it sets
    pcPnp, event, prev        \* PtPnPNetEventSetPower, its state, its PrevDeviceState

power == <<MPDeviceState, PTDeviceState, StandingBy>>
records == <<LastIndicatedStatus, LatestUnIndicateStatus>>
media == <<link, reported, changes>>
statusThread == <<pcStatus, status>>
setThread == <<pcSet, target>>
pnpThread == <<pcPnp, event, prev>>
vars == <<scenario, power, records, media, told, statusThread, setThread, pnpThread>>

States == {"D0", "low"}
Links == {"connect", "disconnect"}

Init ==
    /\ scenario \in Scenarios
    /\ MPDeviceState = "D0" /\ PTDeviceState = "D0" /\ StandingBy = FALSE
    /\ LastIndicatedStatus = "connect" /\ LatestUnIndicateStatus = "zero"
    /\ link = "connect" /\ reported = TRUE /\ changes = 0
    /\ told = "connect"
    /\ pcStatus = "idle" /\ status = "connect"
    /\ pcSet = "idle" /\ target = "D0"
    /\ pcPnp = "idle" /\ event = "D0" /\ prev = "D0"

MayOverlap == "overlap" \in scenario

------------------------------------------------------------------------------
(* The lower miniport.                                                      *)

\* The cable is plugged in or out.
LinkChanges ==
    /\ changes < MaxChanges
    /\ changes' = changes + 1
    /\ link' \in Links \ {link}
    /\ reported' = FALSE
    /\ UNCHANGED <<scenario, power, records, told, statusThread, setThread, pnpThread>>

\* It reports by PtStatus, one call at a time.
Report ==
    /\ ~reported /\ pcStatus = "idle"
    /\ MayOverlap \/ (pcSet = "idle" /\ pcPnp = "idle")
    /\ reported' = TRUE
    /\ status' = link
    /\ pcStatus' = "deciding"
    /\ UNCHANGED <<scenario, power, records, link, changes, told, setThread, pnpThread>>

------------------------------------------------------------------------------
(* PtStatus.                                                                *)

BothOn == MPDeviceState = "D0" /\ PTDeviceState = "D0"

\* Both edges on: the status is recorded as indicated, then passed up.
RecordIndicated ==
    /\ pcStatus = "deciding" /\ BothOn
    /\ LastIndicatedStatus' = status
    /\ pcStatus' = "indicating"
    /\ UNCHANGED <<scenario, power, LatestUnIndicateStatus, media, told, status,
                   setThread, pnpThread>>

\* NdisMIndicateStatus.
Indicate ==
    /\ pcStatus = "indicating"
    /\ told' = status
    /\ pcStatus' = "idle"
    /\ UNCHANGED <<scenario, power, records, media, status, setThread, pnpThread>>

\* One edge is not on: the status is to be kept.
DecideToKeep ==
    /\ pcStatus = "deciding" /\ ~BothOn
    /\ pcStatus' = "keeping"
    /\ UNCHANGED <<scenario, power, records, media, told, status, setThread, pnpThread>>

\* Mutant of Keep: the status is dropped.
Keep_Dropped ==
    /\ pcStatus = "keeping"
    /\ pcStatus' = "idle"
    /\ UNCHANGED <<scenario, power, records, media, told, status, setThread, pnpThread>>

Keep ==
    /\ pcStatus = "keeping"
    /\ LatestUnIndicateStatus' = status
    /\ pcStatus' = "idle"
    /\ UNCHANGED <<scenario, power, LastIndicatedStatus, media, told, status,
                   setThread, pnpThread>>

------------------------------------------------------------------------------
(* MPProcessSetPowerOid.                                                    *)

BeginSetPower(state) ==
    /\ pcSet = "idle" /\ state # MPDeviceState
    /\ MayOverlap \/ pcStatus = "idle"
    /\ target' = state
    /\ StandingBy' = (state = "low")
    /\ pcSet' = "setting"
    /\ UNCHANGED <<scenario, MPDeviceState, PTDeviceState, records, media, told,
                   statusThread, pnpThread>>

SetState ==
    /\ pcSet = "setting"
    /\ MPDeviceState' = target
    /\ pcSet' = "set"
    /\ UNCHANGED <<scenario, PTDeviceState, StandingBy, records, media, told, target,
                   statusThread, pnpThread>>

\* Mutant of ForgetKept: the status to compare with later is not initialised.
ForgetKept_Not ==
    /\ pcSet = "set" /\ StandingBy
    /\ pcSet' = "idle"
    /\ UNCHANGED <<scenario, power, records, media, told, target,
                   statusThread, pnpThread>>

\* Standing by: what was last indicated is the one nothing need be told of.
ForgetKept ==
    /\ pcSet = "set" /\ StandingBy
    /\ LatestUnIndicateStatus' = LastIndicatedStatus
    /\ pcSet' = "idle"
    /\ UNCHANGED <<scenario, power, LastIndicatedStatus, media, told, target,
                   statusThread, pnpThread>>

NothingKept ==
    /\ pcSet = "set" /\ ~StandingBy
    /\ LastIndicatedStatus = LatestUnIndicateStatus
    /\ pcSet' = "idle"
    /\ UNCHANGED <<scenario, power, records, media, told, target, statusThread, pnpThread>>

\* A status was kept meanwhile: NdisMIndicateStatus.
IndicateKept ==
    /\ pcSet = "set" /\ ~StandingBy
    /\ LastIndicatedStatus # LatestUnIndicateStatus
    /\ told' = LatestUnIndicateStatus
    /\ pcSet' = "recording"
    /\ UNCHANGED <<scenario, power, records, media, target, statusThread, pnpThread>>

\* Mutant of RecordKept: the record of what was passed up is not brought up
\* to date.
RecordKept_Not ==
    /\ pcSet = "recording"
    /\ pcSet' = "idle"
    /\ UNCHANGED <<scenario, power, records, media, told, target, statusThread, pnpThread>>

RecordKept ==
    /\ pcSet = "recording"
    /\ LastIndicatedStatus' = LatestUnIndicateStatus
    /\ pcSet' = "idle"
    /\ UNCHANGED <<scenario, power, LatestUnIndicateStatus, media, told, target,
                   statusThread, pnpThread>>

------------------------------------------------------------------------------
(* PtPnPNetEventSetPower, as far as the power states go.                    *)

BeginPowerEvent(state) ==
    /\ "lowerSleeps" \in scenario /\ pcPnp = "idle"
    /\ MayOverlap \/ pcStatus = "idle"
    /\ event' = state
    /\ prev' = PTDeviceState
    /\ pcPnp' = "locking"
    /\ UNCHANGED <<scenario, power, records, media, told, statusThread, setThread>>

\* Under the lock: StandingBy is set on leaving D0 and cleared on coming back.
EndPowerEvent ==
    /\ pcPnp = "locking"
    /\ PTDeviceState' = event
    /\ StandingBy' = IF event = "low" THEN StandingBy \/ prev = "D0"
                                      ELSE StandingBy /\ prev = "D0"
    /\ pcPnp' = "idle"
    /\ UNCHANGED <<scenario, MPDeviceState, records, media, told, event, prev,
                   statusThread, setThread>>

------------------------------------------------------------------------------
Next == \/ LinkChanges \/ Report
        \/ RecordIndicated \/ Indicate \/ DecideToKeep \/ Keep
        \/ \E state \in States : BeginSetPower(state) \/ BeginPowerEvent(state)
        \/ SetState \/ ForgetKept \/ NothingKept \/ IndicateKept \/ RecordKept
        \/ EndPowerEvent

Spec == Init /\ [][Next]_vars

------------------------------------------------------------------------------
Quiet == reported /\ pcStatus = "idle" /\ pcSet = "idle" /\ pcPnp = "idle"

\* Every variable stays in its type.
TypeOK ==
    /\ {MPDeviceState, PTDeviceState, target, event, prev} \subseteq States
    /\ StandingBy \in BOOLEAN /\ reported \in BOOLEAN
    /\ {LastIndicatedStatus, LatestUnIndicateStatus, told} \subseteq Links \cup {"zero"}
    /\ link \in Links /\ status \in Links
    /\ changes \in 0 .. MaxChanges
    /\ pcStatus \in {"idle", "deciding", "indicating", "keeping"}
    /\ pcSet \in {"idle", "setting", "set", "recording"}
    /\ pcPnp \in {"idle", "locking"}

\* Unless handlers overlap, LastIndicatedStatus is what the protocols above were
\* told last, once the handlers are left: MPProcessSetPowerOid relies on that to
\* know whether something is still to be told.
RecordIsTold == (Quiet /\ ~MayOverlap) => LastIndicatedStatus = told

\* A status that was never reported is not indicated, as long as the lower
\* miniport stays at D0 and handlers do not overlap: LatestUnIndicateStatus is
\* not used before it was written.
ToldWasReported == scenario = {} => {LastIndicatedStatus, told} \subseteq Links

\* Both: what is recorded was told, and what was told was reported.
RecordCorrect == RecordIsTold /\ ToldWasReported

\* The media status that was suppressed while the miniport edge was off is made
\* good for: with both edges on and the handlers left, the protocols above know
\* the state of the link, as long as the lower miniport stays at D0.
UpperKnowsLink == (Quiet /\ BothOn /\ scenario = {}) => told = link

\* The same where the lower miniport sleeps: once both edges are on again "the
\* latest suppressed media status" (passthru.h) is indicated.  The code does not
\* keep this: PtPnPNetEventSetPower indicates nothing, so a status that came while
\* the lower miniport slept stays untold (README).
KnowsLinkAfterSleep == (Quiet /\ BothOn /\ ~MayOverlap) => told = link
==============================================================================
