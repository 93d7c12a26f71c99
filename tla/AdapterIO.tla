------------------------------ MODULE AdapterIO ------------------------------
(***************************************************************************)
(* One bound and initialised adapter of the driver: the requests that NDIS  *)
(* sends through its miniport edge (miniport.c), the packets it forwards,   *)
(* and the power events and the unbinding that reach its protocol edge      *)
(* (protocol.c).                                                            *)
(*                                                                          *)
(* Three threads run the request code: "miniport" (MPQueryInformation and   *)
(* MPSetInformation; NDIS serialises the requests to one miniport, and a    *)
(* request ends when it is answered), "lower" (the lower miniport calling   *)
(* PtRequestComplete) and "pnp" (PtPnPNetEventSetPower and PtUnbindAdapter, *)
(* which NDIS never runs together for one binding).  Every packet in        *)
(* flight has a thread of its own.  What runs under pAdapt->Lock is one     *)
(* step, and so is each access made without it.                             *)
(*                                                                          *)
(* A device state is D0 or some low power state: the code only ever         *)
(* compares with NdisDeviceStateD0.                                         *)
(***************************************************************************)
EXTENDS Naturals, FiniteSets

CONSTANTS Packets,     \* the packets the upper protocols may send
          PoolSize,    \* packets in the send pool, NUM_PKTS_IN_POOL
          Oids         \* the kinds of request that NDIS issues

\* OID_PNP_CAPABILITIES is a query of its own kind: its completion writes the
\* device states.
ASSUME PacketsFinite == IsFiniteSet(Packets)
ASSUME PoolSizeNat == PoolSize \in Nat
ASSUME OidsKnown == Oids \subseteq {"query", "set", "capabilities"}

VARIABLES
    MPDeviceState, PTDeviceState,    \* the power states of the two edges
    StandingBy, UnbindingInProcess,
    QueuedRequest,        \* TRUE iff a request is queued here
    OutstandingRequests,  \* TRUE iff one is pending at the miniport below
    OutstandingSends,     \* packets counted as in flight
    request,     \* external: the request NDIS holds open with us, or "none"
    below,       \* external: the lower miniport holds pAdapt->Request
    lower,       \* external: the power state of the lower miniport
    pc,          \* where the three request threads stand
    event,       \* what the pnp thread handles
    prev,        \* its PrevDeviceState, read before the lock
    target,      \* the state a set-power request asks for
    snd,         \* where the thread of each packet stands
    own          \* those for which a packet of SendPacketPoolHandle is taken

power == <<MPDeviceState, PTDeviceState, StandingBy, UnbindingInProcess, lower>>
requests == <<QueuedRequest, OutstandingRequests, request, below>>
threads == <<pc, event, prev, target>>
sends == <<OutstandingSends, snd, own>>
vars == <<power, requests, threads, sends>>

Threads == {"miniport", "lower", "pnp"}
States  == {"D0", "low"}

Places == {"idle",
           "deciding",      \* checked once, about to take the lock
           "setpower",      \* StandingBy is written, MPDeviceState not yet
           "calling",       \* about to call NdisRequest
           "completing",    \* on entry to PtRequestComplete
           "processing",    \* about to run MPQueryPNPCapabilities
           "answering",     \* about to call NdisM...InformationComplete
           "locking",       \* PrevDeviceState is read
           "drainSends", "drainRequests",    \* the two waiting loops
           "flushing",      \* about to take the lock and look at the queue
           "asserting",     \* past the flush, at the ASSERTs
           "unbound"}       \* PtUnbindAdapter is past its request handling

SendPlaces == {"idle",
               "checked",     \* the miniport edge was at D0
               "counted",     \* OutstandingSends includes it
               "ready",       \* about to call NdisSend
               "below",       \* pending at the lower miniport
               "freeing", "completing", "leaving",              \* PtSendComplete
               "freeingSync", "leavingSync", "completingSync"}  \* NdisSend returned

Init ==
    /\ MPDeviceState = "D0" /\ PTDeviceState = "D0" /\ lower = "D0"
    /\ StandingBy = FALSE /\ UnbindingInProcess = FALSE
    /\ QueuedRequest = FALSE /\ OutstandingRequests = FALSE
    /\ request = "none" /\ below = FALSE
    /\ OutstandingSends = 0
    /\ pc = [t \in Threads |-> "idle"]
    /\ event = "D0" /\ prev = "D0" /\ target = "D0"
    /\ snd = [p \in Packets |-> "idle"]
    /\ own = {}

Go(t, place) == pc' = [pc EXCEPT ![t] = place]
GoSend(p, place) == snd' = [snd EXCEPT ![p] = place]

------------------------------------------------------------------------------
(* Requests from above: MPQueryInformation and MPSetInformation.            *)

\* The first checks and the filling in of pAdapt->Request.  Only requests
\* change MPDeviceState and they are serialised, so that its unlocked read
\* and the first look at UnbindingInProcess are one step.  A request that
\* fails here is answered by the return code and leaves no trace.
BeginRequest(oid) ==
    /\ request = "none" /\ pc["miniport"] = "idle"
    /\ ~UnbindingInProcess /\ MPDeviceState = "D0"
    /\ request' = oid
    /\ Go("miniport", "deciding")
    /\ UNCHANGED <<power, QueuedRequest, OutstandingRequests, below,
                   event, prev, target, sends>>

\* Mutant of MustQueue: the unbinding that began meanwhile is not seen.
MustQueue_Unbinding == PTDeviceState = "low" /\ ~StandingBy

\* The request waits for the protocol edge to be back at D0.
MustQueue == ~UnbindingInProcess /\ PTDeviceState = "low" /\ ~StandingBy

QueueRequest ==
    /\ pc["miniport"] = "deciding"
    /\ MustQueue
    /\ QueuedRequest' = TRUE
    /\ Go("miniport", "idle")
    /\ UNCHANGED <<power, OutstandingRequests, request, below,
                   event, prev, target, sends>>

\* Unbinding or powering down: the request is failed by the return code.
FailRequest ==
    /\ pc["miniport"] = "deciding"
    /\ UnbindingInProcess \/ StandingBy
    /\ request' = "none"
    /\ Go("miniport", "idle")
    /\ UNCHANGED <<power, QueuedRequest, OutstandingRequests, below,
                   event, prev, target, sends>>

\* Mutant of MayForward: the protocol edge's power state is not looked at.
MayForward_Low == ~UnbindingInProcess /\ ~StandingBy

MayForward == ~UnbindingInProcess /\ PTDeviceState = "D0" /\ ~StandingBy

ForwardRequest ==
    /\ pc["miniport"] = "deciding"
    /\ MayForward
    /\ OutstandingRequests' = TRUE
    /\ Go("miniport", "calling")
    /\ UNCHANGED <<power, QueuedRequest, request, below,
                   event, prev, target, sends>>

\* NdisRequest, called by MPQueryInformation, MPSetInformation or, for a
\* request that was queued, by PtPnPNetEventSetPower: the lower miniport
\* pends it.
After(t) == IF t = "pnp" /\ event = "low" THEN "asserting"
            ELSE IF t = "pnp" /\ event = "unbind" THEN "unbound"
            ELSE "idle"

NdisRequestPends(t) ==
    /\ pc[t] = "calling"
    /\ below' = TRUE
    /\ Go(t, "idle")
    /\ UNCHANGED <<power, QueuedRequest, OutstandingRequests, request,
                   event, prev, target, sends>>

\* NdisRequest returns a final status; PtRequestComplete is called for it.
NdisRequestReturns(t) ==
    /\ pc[t] = "calling"
    /\ t = "pnp" \/ request # "set"
    /\ Go(t, "completing")
    /\ UNCHANGED <<power, requests, event, prev, target, sends>>

\* MPSetInformation answers by its return code and clears the flag itself.
SetReturns ==
    /\ pc["miniport"] = "calling" /\ request = "set"
    /\ OutstandingRequests' = FALSE
    /\ request' = "none"
    /\ Go("miniport", "idle")
    /\ UNCHANGED <<power, QueuedRequest, below, event, prev, target, sends>>

\* The lower miniport completes the request that it holds.
LowerCompletes ==
    /\ below /\ pc["lower"] = "idle"
    /\ below' = FALSE
    /\ Go("lower", "completing")
    /\ UNCHANGED <<power, QueuedRequest, OutstandingRequests, request,
                   event, prev, target, sends>>

------------------------------------------------------------------------------
(* PtRequestComplete.                                                       *)

\* A flush of the queue passes a failure.
Flushing(t) == t = "pnp" /\ event # "D0"

\* The flag is cleared first; a capabilities query that succeeded is
\* processed after that.
ClearOutstanding(t) ==
    /\ pc[t] = "completing"
    /\ OutstandingRequests' = FALSE
    /\ \/ Go(t, "answering")
       \/ request = "capabilities" /\ ~Flushing(t) /\ Go(t, "processing")
    /\ UNCHANGED <<power, QueuedRequest, request, below,
                   event, prev, target, sends>>

\* MPQueryPNPCapabilities with a buffer that is long enough.
MPQueryPNPCapabilities(t) ==
    /\ pc[t] = "processing"
    /\ MPDeviceState' = "D0" /\ PTDeviceState' = "D0"
    /\ Go(t, "answering")
    /\ UNCHANGED <<StandingBy, UnbindingInProcess, lower, requests,
                   event, prev, target, sends>>

\* NdisMQueryInformationComplete or NdisMSetInformationComplete.
Answer(t) ==
    /\ pc[t] = "answering"
    /\ request' = "none"
    /\ Go(t, After(t))
    /\ UNCHANGED <<power, QueuedRequest, OutstandingRequests, below,
                   event, prev, target, sends>>

------------------------------------------------------------------------------
(* OID_PNP_SET_POWER: MPProcessSetPowerOid, without any lock.               *)

\* StandingBy first.  From a low state only D0 is accepted.
BeginSetPower(state) ==
    /\ request = "none" /\ pc["miniport"] = "idle"
    /\ ~(MPDeviceState = "low" /\ state = "low")
    /\ request' = "setpower"
    /\ target' = state
    /\ StandingBy' = IF MPDeviceState = state THEN StandingBy ELSE state = "low"
    /\ Go("miniport", "setpower")
    /\ UNCHANGED <<MPDeviceState, PTDeviceState, UnbindingInProcess, lower,
                   QueuedRequest, OutstandingRequests, below, event, prev, sends>>

\* Then the state, and the request is answered by the return code.
EndSetPower ==
    /\ pc["miniport"] = "setpower"
    /\ MPDeviceState' = target
    /\ request' = "none"
    /\ Go("miniport", "idle")
    /\ UNCHANGED <<PTDeviceState, StandingBy, UnbindingInProcess, lower,
                   QueuedRequest, OutstandingRequests, below,
                   event, prev, target, sends>>

------------------------------------------------------------------------------
(* Power events of the lower miniport: PtPnPNetEventSetPower.               *)

\* On entry PrevDeviceState is read without the lock.  NDIS tells of D0 when
\* the lower miniport is on again.
BeginPowerEvent(state) ==
    /\ pc["pnp"] = "idle"
    /\ event' = state
    /\ prev' = PTDeviceState
    /\ lower' = IF state = "D0" THEN "D0" ELSE lower
    /\ Go("pnp", "locking")
    /\ UNCHANGED <<MPDeviceState, PTDeviceState, StandingBy, UnbindingInProcess,
                   requests, target, sends>>

\* Mutant of PowerDown: the new state is not recorded before the wait.
PowerDown_Unblocked ==
    /\ pc["pnp"] = "locking" /\ event = "low"
    /\ StandingBy' = (StandingBy \/ prev = "D0")
    /\ Go("pnp", "drainSends")
    /\ UNCHANGED <<MPDeviceState, PTDeviceState, UnbindingInProcess, lower,
                   requests, event, prev, target, sends>>

\* The lower miniport goes to a low state: from here on new sends and
\* requests are turned away.
PowerDown ==
    /\ pc["pnp"] = "locking" /\ event = "low"
    /\ PTDeviceState' = "low"
    /\ StandingBy' = (StandingBy \/ prev = "D0")
    /\ Go("pnp", "drainSends")
    /\ UNCHANGED <<MPDeviceState, UnbindingInProcess, lower,
                   requests, event, prev, target, sends>>

\* The loop on OutstandingSends is left.
SendsDrained ==
    /\ pc["pnp"] = "drainSends" /\ OutstandingSends = 0
    /\ Go("pnp", "drainRequests")
    /\ UNCHANGED <<power, requests, event, prev, target, sends>>

\* The loop on OutstandingRequests is left.
RequestsDrained ==
    /\ pc["pnp"] = "drainRequests" /\ ~OutstandingRequests
    /\ Go("pnp", "flushing")
    /\ UNCHANGED <<power, requests, event, prev, target, sends>>

\* A queued request is taken out and failed, by way of PtRequestComplete.
FlushQueue ==
    /\ pc["pnp"] = "flushing"
    /\ QueuedRequest' = FALSE
    /\ Go("pnp", IF QueuedRequest THEN "completing" ELSE "asserting")
    /\ UNCHANGED <<power, OutstandingRequests, request, below,
                   event, prev, target, sends>>

\* The handler returns and NDIS lets the lower miniport power down.
EndPowerDown ==
    /\ pc["pnp"] = "asserting"
    /\ lower' = "low"
    /\ Go("pnp", "idle")
    /\ UNCHANGED <<MPDeviceState, PTDeviceState, StandingBy, UnbindingInProcess,
                   requests, event, prev, target, sends>>

\* Mutant of StandingByAfterUp: the flag is not cleared.
StandingByAfterUp_Kept == StandingBy

\* The flag is cleared when the previous state was low.
StandingByAfterUp == StandingBy /\ prev = "D0"

\* Mutant of PowerUp: the queued request is sent, not marked as outstanding.
PowerUp_NotOutstanding ==
    /\ pc["pnp"] = "locking" /\ event = "D0"
    /\ PTDeviceState' = "D0"
    /\ StandingBy' = StandingByAfterUp
    /\ QueuedRequest' = FALSE
    /\ Go("pnp", IF QueuedRequest THEN "calling" ELSE "idle")
    /\ UNCHANGED <<MPDeviceState, UnbindingInProcess, lower, OutstandingRequests,
                   request, below, event, prev, target, sends>>

\* The lower miniport is on again: a queued request is sent down.
PowerUp ==
    /\ pc["pnp"] = "locking" /\ event = "D0"
    /\ PTDeviceState' = "D0"
    /\ StandingBy' = StandingByAfterUp
    /\ QueuedRequest' = FALSE
    /\ OutstandingRequests' = (OutstandingRequests \/ QueuedRequest)
    /\ Go("pnp", IF QueuedRequest THEN "calling" ELSE "idle")
    /\ UNCHANGED <<MPDeviceState, UnbindingInProcess, lower,
                   request, below, event, prev, target, sends>>

\* Mutant of Unbind: the queued request is forgotten.
Unbind_Drop ==
    /\ pc["pnp"] = "idle"
    /\ event' = "unbind"
    /\ UnbindingInProcess' = TRUE
    /\ QueuedRequest' = FALSE
    /\ Go("pnp", "unbound")
    /\ UNCHANGED <<MPDeviceState, PTDeviceState, StandingBy, lower,
                   OutstandingRequests, request, below, prev, target, sends>>

\* PtUnbindAdapter, up to the end of its request handling.
Unbind ==
    /\ pc["pnp"] = "idle"
    /\ event' = "unbind"
    /\ UnbindingInProcess' = TRUE
    /\ QueuedRequest' = FALSE
    /\ Go("pnp", IF QueuedRequest THEN "completing" ELSE "unbound")
    /\ UNCHANGED <<MPDeviceState, PTDeviceState, StandingBy, lower,
                   OutstandingRequests, request, below, prev, target, sends>>

------------------------------------------------------------------------------
(* Sends: MPSendPackets and PtSendComplete, one packet at a time.           *)

\* The unlocked look at MPDeviceState; a packet that fails it is completed
\* at once.
BeginSend(p) ==
    /\ snd[p] = "idle" /\ MPDeviceState = "D0"
    /\ GoSend(p, "checked")
    /\ UNCHANGED <<power, requests, threads, OutstandingSends, own>>

\* Mutant of CountSend: the counter is not incremented under the lock.
CountSend_Uncounted(p) ==
    /\ snd[p] = "checked" /\ PTDeviceState = "D0"
    /\ (GoSend(p, "ready") \/ GoSend(p, "counted"))
    /\ UNCHANGED <<power, requests, threads, OutstandingSends, own>>

\* Under the lock: the protocol edge is on.  NdisIMGetCurrentPacketStack has
\* decided whether the packet itself goes down or one of our pool instead.
CountSend(p) ==
    /\ snd[p] = "checked" /\ PTDeviceState = "D0"
    /\ OutstandingSends' = OutstandingSends + 1
    /\ (GoSend(p, "ready") \/ GoSend(p, "counted"))
    /\ UNCHANGED <<power, requests, threads, own>>

\* Under the lock: it is not, and the packet is completed with a failure.
RefuseSend(p) ==
    /\ snd[p] = "checked" /\ PTDeviceState = "low"
    /\ GoSend(p, "idle")
    /\ UNCHANGED <<power, requests, threads, OutstandingSends, own>>

\* NdisAllocatePacket.
AllocatePacket(p) ==
    /\ snd[p] = "counted" /\ Cardinality(own) < PoolSize
    /\ own' = own \cup {p}
    /\ GoSend(p, "ready")
    /\ UNCHANGED <<power, requests, threads, OutstandingSends>>

\* NdisAllocatePacket fails, with an exhausted pool or for want of resources.
AllocateFails(p) ==
    /\ snd[p] = "counted"
    /\ GoSend(p, "leavingSync")
    /\ UNCHANGED <<power, requests, threads, OutstandingSends, own>>

NdisSendPends(p) ==
    /\ snd[p] = "ready"
    /\ GoSend(p, "below")
    /\ UNCHANGED <<power, requests, threads, OutstandingSends, own>>

\* NdisSend returns a final status.
NdisSendReturns(p) ==
    /\ snd[p] = "ready"
    /\ GoSend(p, IF p \in own THEN "freeingSync" ELSE "completing")
    /\ UNCHANGED <<power, requests, threads, OutstandingSends, own>>

\* The lower miniport completes the send: PtSendComplete.
PtSendComplete(p) ==
    /\ snd[p] = "below"
    /\ GoSend(p, IF p \in own THEN "freeing" ELSE "completing")
    /\ UNCHANGED <<power, requests, threads, OutstandingSends, own>>

\* Mutant of FreePacket: our packet does not go back to the pool.
FreePacket_Kept(p) ==
    /\ snd[p] \in {"freeing", "freeingSync"}
    /\ GoSend(p, IF snd[p] = "freeing" THEN "completing" ELSE "leavingSync")
    /\ UNCHANGED <<power, requests, threads, OutstandingSends, own>>

\* NdisDprFreePacket or NdisFreePacket.
FreePacket(p) ==
    /\ snd[p] \in {"freeing", "freeingSync"}
    /\ own' = own \ {p}
    /\ GoSend(p, IF snd[p] = "freeing" THEN "completing" ELSE "leavingSync")
    /\ UNCHANGED <<power, requests, threads, OutstandingSends>>

\* NdisMSendComplete: the upper protocol has its packet back.
CompletePacket(p) ==
    /\ snd[p] \in {"completing", "completingSync"}
    /\ GoSend(p, IF snd[p] = "completing" THEN "leaving" ELSE "idle")
    /\ UNCHANGED <<power, requests, threads, OutstandingSends, own>>

\* Mutant of LeaveSend: a send that could not be allocated stays counted.
LeaveSend_Counted(p) ==
    /\ snd[p] \in {"leaving", "leavingSync"}
    /\ OutstandingSends' = OutstandingSends - (IF snd[p] = "leaving" THEN 1 ELSE 0)
    /\ GoSend(p, IF snd[p] = "leaving" THEN "idle" ELSE "completingSync")
    /\ UNCHANGED <<power, requests, threads, own>>

\* ADAPT_DECR_PENDING_SENDS.
LeaveSend(p) ==
    /\ snd[p] \in {"leaving", "leavingSync"}
    /\ OutstandingSends' = OutstandingSends - 1
    /\ GoSend(p, IF snd[p] = "leaving" THEN "idle" ELSE "completingSync")
    /\ UNCHANGED <<power, requests, threads, own>>

------------------------------------------------------------------------------
\* What a thread does once it is inside the driver, and the lower miniport
\* once it holds something.
CompletionStep(t) == \/ NdisRequestPends(t) \/ NdisRequestReturns(t)
                     \/ ClearOutstanding(t) \/ MPQueryPNPCapabilities(t)
                     \/ Answer(t)

MiniportStep == \/ QueueRequest \/ FailRequest \/ ForwardRequest
                \/ SetReturns \/ EndSetPower
                \/ CompletionStep("miniport")

LowerStep == LowerCompletes \/ CompletionStep("lower")

PnpStep == \/ PowerDown \/ SendsDrained \/ RequestsDrained
           \/ FlushQueue \/ EndPowerDown \/ PowerUp
           \/ CompletionStep("pnp")

SendStep(p) == \/ CountSend(p) \/ RefuseSend(p)
               \/ AllocatePacket(p) \/ AllocateFails(p)
               \/ NdisSendPends(p) \/ NdisSendReturns(p) \/ PtSendComplete(p)
               \/ FreePacket(p) \/ CompletePacket(p) \/ LeaveSend(p)

Next == \/ \E oid \in Oids : BeginRequest(oid)
        \/ \E state \in States : BeginSetPower(state) \/ BeginPowerEvent(state)
        \/ Unbind
        \/ MiniportStep \/ LowerStep \/ PnpStep
        \/ \E p \in Packets : BeginSend(p) \/ SendStep(p)

\* A thread inside the driver keeps running and the lower miniport completes
\* what it holds; nobody is bound to send, to ask or to change a power state.
Fairness == /\ WF_vars(MiniportStep) /\ WF_vars(LowerStep) /\ WF_vars(PnpStep)
            /\ \A p \in Packets : WF_vars(SendStep(p))

Spec == Init /\ [][Next]_vars /\ Fairness

------------------------------------------------------------------------------
\* Every variable stays in its type.
TypeOK ==
    /\ {MPDeviceState, PTDeviceState, lower, prev, target} \subseteq States
    /\ {StandingBy, UnbindingInProcess, QueuedRequest,
        OutstandingRequests, below} \subseteq BOOLEAN
    /\ OutstandingSends \in Nat
    /\ request \in {"none", "query", "set", "capabilities", "setpower"}
    /\ pc \in [Threads -> Places]
    /\ event \in {"D0", "low", "unbind"}
    /\ snd \in [Packets -> SendPlaces]
    /\ own \subseteq Packets

\* Who has the request now: a thread inside the driver, the queue or the lower
\* miniport.
Answering == {"deciding", "setpower", "calling", "completing", "processing", "answering"}
Holders == {t \in Threads : pc[t] \in Answering}
           \cup (IF QueuedRequest THEN {"queue"} ELSE {})
           \cup (IF below THEN {"below"} ELSE {})

\* A request that NDIS holds open is in exactly one pair of hands, and an
\* answered one in none: no request is answered twice, none is forgotten.
OneHolder == /\ \A h, g \in Holders : h = g
             /\ request = "none" <=> Holders = {}

\* OutstandingRequests is TRUE exactly from the decision to forward a request
\* to the first statement of its completion.
OutstandingMeans ==
    OutstandingRequests <=> \/ below
                            \/ \E t \in Threads :
                                  \/ pc[t] = "calling"
                                  \/ pc[t] = "completing" /\ ~Flushing(t)

\* A request is queued only while something is to come that takes it out: the
\* protocol edge is low and the binding is not being removed.
QueueIsServed == QueuedRequest => PTDeviceState = "low" /\ ~UnbindingInProcess

\* All three: a request is in one pair of hands, OutstandingRequests tells of it,
\* and the queue is served.
RequestsCorrect == OneHolder /\ OutstandingMeans /\ QueueIsServed

\* How far the open request is: the refinement mapping.
Stage == CASE request = "none" -> "free"
           [] QueuedRequest -> "waiting"
           [] below -> "below"
           [] \E t \in Threads : pc[t] = "calling" -> "sent"
           [] \E t \in Threads : pc[t] \in {"deciding", "setpower"} -> "asked"
           [] OTHER -> "done"

Service == INSTANCE RequestService
               WITH stage <- Stage, on <- PTDeviceState = "D0", removed <- UnbindingInProcess

\* A request goes down at most once, while the protocol edge is on and the
\* binding stays, and is answered once, after the miniport below is done with it,
\* whichever of the three threads handles it (miniport.c 334-760, protocol.c
\* 466-555, 1439-1530).
ImplementsRequests == Service!Spec

\* The counter is the number of packets between its two updates.
Counted == {p \in Packets : snd[p] \in
              {"counted", "ready", "below", "freeing", "completing", "leaving",
               "freeingSync", "leavingSync"}}
SendsAreCounted == OutstandingSends = Cardinality(Counted)

\* The ASSERTs at the end of a power-down: no packet of the pool is in use and
\* no request is at the miniport below.
DrainAsserts == pc["pnp"] = "asserting" => own = {} /\ ~OutstandingRequests

\* While the lower miniport is in a low state nothing is handed to it.
QuietWhenLow == lower = "low" => /\ \A p \in Packets : snd[p] \notin {"ready", "below"}
                                /\ ~below
                                /\ \A t \in Threads : pc[t] # "calling"

\* StandingBy is cleared after a transition to D0: with both edges told of D0
\* it is not left set, which would fail every request to come.
StandingByCleared ==
    (lower = "D0" /\ MPDeviceState = "D0" /\ pc["pnp"] = "idle"
        /\ pc["miniport"] # "setpower") => ~StandingBy

\* The ASSERT of PtRequestComplete.
CompletionAssert == \A t \in Threads : pc[t] = "completing" => OutstandingRequests

\* Every request is answered, or it is in the queue.
RequestAnswered == request # "none" ~> (request = "none" \/ QueuedRequest)

\* A power event is always handled to its end: the waits are over some time.
EventEnds == pc["pnp"] = "locking" ~> pc["pnp"] = "idle"
==============================================================================
