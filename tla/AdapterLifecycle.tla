--------------------------- MODULE AdapterLifecycle ---------------------------
(***************************************************************************)
(* The life of the ADAPT structures: PtBindAdapter and PtUnbindAdapter      *)
(* (protocol.c), MPInitialize and MPHalt (miniport.c), their reference      *)
(* count and the control device they share.                                 *)
(*                                                                          *)
(* A member of Adapters is one ADAPT structure, from its allocation to its  *)
(* release.  Two threads work on it: the one NDIS binds and unbinds with    *)
(* (bnd) and the one it initialises and halts the miniport with (mini).     *)
(* NDIS runs MPInitialize inside NdisIMInitializeDeviceInstanceEx or after  *)
(* it, halts only what it initialised, and does not halt an instance on its *)
(* own account while the binding below it is being removed, or the reverse. *)
(***************************************************************************)
EXTENDS Naturals, FiniteSets

CONSTANT Adapters    \* the ADAPT structures

ASSUME AdaptersFinite == IsFiniteSet(Adapters)

VARIABLES
    RefCount, MiniportInitPending, MiniportIsHalted,
    MiniportHandle, BindingHandle,    \* TRUE iff the handle is not NULL
    MiniportInitEvent,    \* TRUE iff signalled
    listed,               \* the adapter is on pAdaptList
    memory,               \* of the structure: "none", "allocated" or "freed"
    open,                 \* external: NDIS holds the binding open
    instance,             \* external: the IM device instance
    bnd, mini,            \* where the two threads stand
    MiniportCount, ControlDeviceState, NdisDeviceHandle, device, pc

Device == INSTANCE ControlDevice

fields == <<RefCount, MiniportInitPending, MiniportIsHalted, MiniportHandle,
            BindingHandle, MiniportInitEvent, listed, memory>>
deviceVars == <<MiniportCount, ControlDeviceState, NdisDeviceHandle, device, pc>>
life == <<fields, open, instance, bnd, mini>>
vars == <<life, deviceVars>>

Instances == {"none",       \* not asked for
              "pending",    \* asked for; MPInitialize is still to be called
              "cancelled",  \* MPInitialize will never be called
              "starting",   \* MPInitialize runs
              "failed", "up", "halting", "halted"}

BindPlaces == {"idle", "opening", "referencing", "initing",
               "dereferencing",         \* the instance was asked for
               "failing",               \* it was refused
               "closing", "closed",     \* PtBindAdapter cleans up
               "bound",
               "unbinding", "cancelling", "waiting", "deciding",
               "deinit",                \* in NdisIMDeInitializeDeviceInstance
               "closeBelow", "freeing", \* PtUnbindAdapter does the work itself
               "leaked", "done"}

MiniPlaces == {"idle", "init", "registering", "clearing", "signalling", "counting",
               "deregistering", "closing", "closed", "leaving"}

All(v) == [a \in Adapters |-> v]

Init ==
    /\ RefCount = All(0)
    /\ MiniportInitPending = All(FALSE) /\ MiniportIsHalted = All(FALSE)
    /\ MiniportHandle = All(FALSE) /\ BindingHandle = All(FALSE)
    /\ MiniportInitEvent = All(FALSE)
    /\ listed = All(FALSE)
    /\ memory = All("none")
    /\ open = All(FALSE)
    /\ instance = All("none")
    /\ bnd = All("idle") /\ mini = All("idle")
    /\ Device!Init

GoBind(a, place) == bnd' = [bnd EXCEPT ![a] = place]
GoMini(a, place) == mini' = [mini EXCEPT ![a] = place]
GoInstance(a, state) == instance' = [instance EXCEPT ![a] = state]

PtReferenceAdapt(a, n) == RefCount' = [RefCount EXCEPT ![a] = @ + n]

\* Mutant of PtDereferenceAdapt: the structure is kept for ever.
PtDereferenceAdapt_Kept(a) ==
    /\ RefCount' = [RefCount EXCEPT ![a] = @ - 1]
    /\ memory' = memory

\* The last reference takes the pools, the lock and the structure with it.
PtDereferenceAdapt(a) ==
    /\ RefCount' = [RefCount EXCEPT ![a] = @ - 1]
    /\ memory' = [memory EXCEPT ![a] = IF RefCount[a] = 1 THEN "freed" ELSE @]

------------------------------------------------------------------------------
(* PtBindAdapter.                                                           *)

\* The structure is allocated and zeroed.
BindStart(a) ==
    /\ bnd[a] = "idle"
    /\ memory' = [memory EXCEPT ![a] = "allocated"]
    /\ GoBind(a, "opening")
    /\ UNCHANGED <<RefCount, MiniportInitPending, MiniportIsHalted, MiniportHandle,
                   BindingHandle, MiniportInitEvent, listed, open, instance, mini,
                   deviceVars>>

\* A pool cannot be allocated or the adapter below cannot be opened: the
\* clean-up does nothing without a BindingHandle.
OpenFails(a) ==
    /\ bnd[a] = "opening"
    /\ GoBind(a, "leaked")
    /\ UNCHANGED <<fields, open, instance, mini, deviceVars>>

\* NdisOpenAdapter succeeds, at once or by way of PtOpenAdapterComplete.
OpenAdapter(a) ==
    /\ bnd[a] = "opening"
    /\ BindingHandle' = [BindingHandle EXCEPT ![a] = TRUE]
    /\ open' = [open EXCEPT ![a] = TRUE]
    /\ GoBind(a, "referencing")
    /\ UNCHANGED <<RefCount, MiniportInitPending, MiniportIsHalted, MiniportHandle,
                   MiniportInitEvent, listed, memory, instance, mini, deviceVars>>

\* One reference for the binding, one for the call that follows.
AskForInstance(a) ==
    /\ bnd[a] = "referencing"
    /\ PtReferenceAdapt(a, 2)
    /\ MiniportInitPending' = [MiniportInitPending EXCEPT ![a] = TRUE]
    /\ MiniportInitEvent' = [MiniportInitEvent EXCEPT ![a] = FALSE]
    /\ GoInstance(a, "pending")
    /\ GoBind(a, "initing")
    /\ UNCHANGED <<MiniportIsHalted, MiniportHandle, BindingHandle, listed, memory,
                   open, mini, deviceVars>>

\* NdisIMInitializeDeviceInstanceEx returns with success: MPInitialize has
\* run, runs or will run.
InstanceGranted(a) ==
    /\ bnd[a] = "initing"
    /\ GoBind(a, "dereferencing")
    /\ UNCHANGED <<fields, open, instance, mini, deviceVars>>

\* It returns with a failure: NDIS never called MPInitialize, or that failed,
\* or the instance is halted again.
InstanceRefused(a) ==
    /\ bnd[a] = "initing"
    /\ instance[a] \in {"pending", "failed", "halted"}
    /\ GoInstance(a, IF instance[a] = "pending" THEN "cancelled" ELSE instance[a])
    /\ GoBind(a, "failing")
    /\ UNCHANGED <<fields, open, mini, deviceVars>>

BindEnds(a) ==
    /\ bnd[a] = "dereferencing"
    /\ PtDereferenceAdapt(a)
    /\ GoBind(a, "bound")
    /\ UNCHANGED <<MiniportInitPending, MiniportIsHalted, MiniportHandle,
                   BindingHandle, MiniportInitEvent, listed, open, instance, mini,
                   deviceVars>>

\* Mutant of NoCleanUpNeeded: what MPHalt cleaned up is cleaned up again.
NoCleanUpNeeded_Never(a) == FALSE

\* MPHalt has closed the binding and dropped its reference.
NoCleanUpNeeded(a) == MiniportIsHalted[a]

BindFails(a) ==
    /\ bnd[a] = "failing"
    /\ PtDereferenceAdapt(a)
    /\ GoBind(a, IF NoCleanUpNeeded(a) THEN "done" ELSE "closing")
    /\ UNCHANGED <<MiniportInitPending, MiniportIsHalted, MiniportHandle,
                   BindingHandle, MiniportInitEvent, listed, open, instance, mini,
                   deviceVars>>

\* The clean-up of PtBindAdapter: NdisCloseAdapter, then the reference.
BindCloses(a) ==
    /\ bnd[a] = "closing"
    /\ open' = [open EXCEPT ![a] = FALSE]
    /\ BindingHandle' = [BindingHandle EXCEPT ![a] = FALSE]
    /\ GoBind(a, "closed")
    /\ UNCHANGED <<RefCount, MiniportInitPending, MiniportIsHalted, MiniportHandle,
                   MiniportInitEvent, listed, memory, instance, mini, deviceVars>>

BindReleases(a) ==
    /\ bnd[a] = "closed"
    /\ PtDereferenceAdapt(a)
    /\ GoBind(a, "done")
    /\ UNCHANGED <<MiniportInitPending, MiniportIsHalted, MiniportHandle,
                   BindingHandle, MiniportInitEvent, listed, open, instance, mini,
                   deviceVars>>

------------------------------------------------------------------------------
(* MPInitialize.                                                            *)

InitializeStart(a) ==
    /\ instance[a] = "pending" /\ mini[a] = "idle"
    /\ GoInstance(a, "starting")
    /\ MiniportIsHalted' = [MiniportIsHalted EXCEPT ![a] = FALSE]
    /\ GoMini(a, "init")
    /\ UNCHANGED <<RefCount, MiniportInitPending, MiniportHandle, BindingHandle,
                   MiniportInitEvent, listed, memory, open, bnd, deviceVars>>

\* Mutant of MediumUnsupported: the failure path takes back a registration
\* that was never made.
MediumUnsupported_Deregisters(a) ==
    /\ mini[a] = "init"
    /\ MiniportCount' = MiniportCount - 1
    /\ GoMini(a, "clearing")
    /\ UNCHANGED <<fields, open, instance, bnd, ControlDeviceState,
                   NdisDeviceHandle, device, pc>>

\* The medium is not among those NDIS offers.
MediumUnsupported(a) ==
    /\ mini[a] = "init"
    /\ GoMini(a, "clearing")
    /\ UNCHANGED <<fields, open, instance, bnd, deviceVars>>

\* The handle is set and the adapter is put on the list.
SetUpMiniport(a) ==
    /\ mini[a] = "init"
    /\ MiniportHandle' = [MiniportHandle EXCEPT ![a] = TRUE]
    /\ listed' = [listed EXCEPT ![a] = TRUE]
    /\ GoMini(a, "registering")
    /\ UNCHANGED <<RefCount, MiniportInitPending, MiniportIsHalted, BindingHandle,
                   MiniportInitEvent, memory, open, instance, bnd, deviceVars>>

\* The steps of PtRegisterDevice, called from here.
RegisterDevice(a) ==
    /\ mini[a] = "registering"
    /\ \/ Device!RegisterAnother(a) \/ Device!RegisterFirst(a)
       \/ Device!RegisterMustWait(a) \/ Device!StopWaiting(a)
       \/ Device!NdisMRegisterDevice(a) \/ Device!EndRegister(a)
    /\ GoMini(a, IF pc'[a] = "registered" THEN "clearing" ELSE "registering")
    /\ UNCHANGED <<fields, open, instance, bnd>>

\* Mutant of ClearPending: the flag stays TRUE.
ClearPending_Kept(a) ==
    /\ mini[a] = "clearing"
    /\ GoMini(a, "signalling")
    /\ UNCHANGED <<fields, open, instance, bnd, deviceVars>>

ClearPending(a) ==
    /\ mini[a] = "clearing"
    /\ MiniportInitPending' = [MiniportInitPending EXCEPT ![a] = FALSE]
    /\ GoMini(a, "signalling")
    /\ UNCHANGED <<RefCount, MiniportIsHalted, MiniportHandle, BindingHandle,
                   MiniportInitEvent, listed, memory, open, instance, bnd,
                   deviceVars>>

\* Mutant of SignalInitEvent: the event is signalled on success only.
SignalInitEvent_OnSuccess(a) ==
    /\ mini[a] = "signalling"
    /\ MiniportInitEvent' = [MiniportInitEvent EXCEPT ![a] = MiniportHandle[a]]
    /\ IF MiniportHandle[a]
         THEN GoMini(a, "counting") /\ instance' = instance
         ELSE GoMini(a, "idle") /\ GoInstance(a, "failed")
    /\ UNCHANGED <<RefCount, MiniportInitPending, MiniportIsHalted, MiniportHandle,
                   BindingHandle, listed, memory, open, bnd, deviceVars>>

\* NdisSetEvent; a failed MPInitialize returns after it.
SignalInitEvent(a) ==
    /\ mini[a] = "signalling"
    /\ MiniportInitEvent' = [MiniportInitEvent EXCEPT ![a] = TRUE]
    /\ IF MiniportHandle[a]
         THEN GoMini(a, "counting") /\ instance' = instance
         ELSE GoMini(a, "idle") /\ GoInstance(a, "failed")
    /\ UNCHANGED <<RefCount, MiniportInitPending, MiniportIsHalted, MiniportHandle,
                   BindingHandle, listed, memory, open, bnd, deviceVars>>

\* Mutant of InitializeEnds: the miniport takes no reference of its own.
InitializeEnds_Uncounted(a) ==
    /\ mini[a] = "counting"
    /\ GoInstance(a, "up")
    /\ GoMini(a, "idle")
    /\ UNCHANGED <<fields, open, bnd, deviceVars>>

\* The miniport's own reference, and the return.
InitializeEnds(a) ==
    /\ mini[a] = "counting"
    /\ PtReferenceAdapt(a, 1)
    /\ GoInstance(a, "up")
    /\ GoMini(a, "idle")
    /\ UNCHANGED <<MiniportInitPending, MiniportIsHalted, MiniportHandle,
                   BindingHandle, MiniportInitEvent, listed, memory, open, bnd,
                   deviceVars>>

------------------------------------------------------------------------------
(* MPHalt.                                                                  *)

\* On entry the handle is cleared, the flag set, the adapter taken off the list.
HaltStart(a) ==
    /\ instance[a] = "up" /\ mini[a] = "idle"
    /\ GoInstance(a, "halting")
    /\ MiniportHandle' = [MiniportHandle EXCEPT ![a] = FALSE]
    /\ MiniportIsHalted' = [MiniportIsHalted EXCEPT ![a] = TRUE]
    /\ listed' = [listed EXCEPT ![a] = FALSE]
    /\ GoMini(a, "deregistering")
    /\ UNCHANGED <<RefCount, MiniportInitPending, BindingHandle, MiniportInitEvent,
                   memory, open, bnd, deviceVars>>

\* PtUnbindAdapter asked for it.
HaltForUnbind(a) == bnd[a] = "deinit" /\ HaltStart(a)

\* NDIS gives the instance up, be it inside NdisIMInitializeDeviceInstanceEx.
HaltByNdis(a) == bnd[a] \in {"initing", "dereferencing", "bound"} /\ HaltStart(a)

\* The steps of PtDeregisterDevice, called from here.
DeregisterDevice(a) ==
    /\ mini[a] = "deregistering"
    /\ \/ Device!DeregisterOne(a) \/ Device!DeregisterLast(a)
       \/ Device!ReadHandle(a) \/ Device!NdisMDeregisterDevice(a)
       \/ Device!ClearHandle(a) \/ Device!EndDeregister(a)
    /\ GoMini(a, IF pc'[a] = "idle" THEN "closing" ELSE "deregistering")
    /\ UNCHANGED <<fields, open, instance, bnd>>

\* NdisCloseAdapter and the wait for PtCloseAdapterComplete.
HaltCloses(a) ==
    /\ mini[a] = "closing"
    /\ IF BindingHandle[a]
         THEN open' = [open EXCEPT ![a] = FALSE] /\ GoMini(a, "closed")
         ELSE open' = open /\ GoMini(a, "leaving")
    /\ UNCHANGED <<fields, instance, bnd, deviceVars>>

\* The binding's reference goes with the handle.
HaltUnbinds(a) ==
    /\ mini[a] = "closed"
    /\ BindingHandle' = [BindingHandle EXCEPT ![a] = FALSE]
    /\ PtDereferenceAdapt(a)
    /\ GoMini(a, "leaving")
    /\ UNCHANGED <<MiniportInitPending, MiniportIsHalted, MiniportHandle,
                   MiniportInitEvent, listed, open, instance, bnd, deviceVars>>

HaltEnds(a) ==
    /\ mini[a] = "leaving"
    /\ PtDereferenceAdapt(a)
    /\ GoInstance(a, "halted")
    /\ GoMini(a, "idle")
    /\ UNCHANGED <<MiniportInitPending, MiniportIsHalted, MiniportHandle,
                   BindingHandle, MiniportInitEvent, listed, open, bnd, deviceVars>>

------------------------------------------------------------------------------
(* PtUnbindAdapter.                                                         *)

\* NDIS removes a binding that is open and not already on its way out.
UnbindStart(a) ==
    /\ bnd[a] = "bound" /\ open[a] /\ instance[a] \notin {"halting", "halted"}
    /\ GoBind(a, "unbinding")
    /\ UNCHANGED <<fields, open, instance, mini, deviceVars>>

\* The unlocked look at MiniportInitPending.
ReadPending(a) ==
    /\ bnd[a] = "unbinding"
    /\ GoBind(a, IF MiniportInitPending[a] THEN "cancelling" ELSE "deciding")
    /\ UNCHANGED <<fields, open, instance, mini, deviceVars>>

\* NdisIMCancelInitializeDeviceInstance: MPInitialize will not be called.
CancelSucceeds(a) ==
    /\ bnd[a] = "cancelling" /\ instance[a] = "pending"
    /\ GoInstance(a, "cancelled")
    /\ MiniportInitPending' = [MiniportInitPending EXCEPT ![a] = FALSE]
    /\ GoBind(a, "deciding")
    /\ UNCHANGED <<RefCount, MiniportIsHalted, MiniportHandle, BindingHandle,
                   MiniportInitEvent, listed, memory, open, mini, deviceVars>>

\* Mutant of AfterFailedCancel: the unbinding does not wait for MPInitialize.
AfterFailedCancel_NoWait == "deciding"

\* What is next when MPInitialize runs or has run.
AfterFailedCancel == "waiting"

CancelFails(a) ==
    /\ bnd[a] = "cancelling" /\ instance[a] # "pending"
    /\ GoBind(a, AfterFailedCancel)
    /\ UNCHANGED <<fields, open, instance, mini, deviceVars>>

\* NdisWaitEvent on MiniportInitEvent.
InitEventSeen(a) ==
    /\ bnd[a] = "waiting" /\ MiniportInitEvent[a]
    /\ GoBind(a, "deciding")
    /\ UNCHANGED <<fields, open, instance, mini, deviceVars>>

\* The unlocked look at MiniportHandle: MPHalt does the work, or we do.
ReadMiniportHandle(a) ==
    /\ bnd[a] = "deciding"
    /\ GoBind(a, IF MiniportHandle[a] THEN "deinit" ELSE "closeBelow")
    /\ UNCHANGED <<fields, open, instance, mini, deviceVars>>

\* NdisIMDeInitializeDeviceInstance returns when the instance is halted.
DeinitReturns(a) ==
    /\ bnd[a] = "deinit" /\ instance[a] = "halted"
    /\ GoBind(a, "done")
    /\ UNCHANGED <<fields, open, instance, mini, deviceVars>>

UnbindCloses(a) ==
    /\ bnd[a] = "closeBelow"
    /\ open' = [open EXCEPT ![a] = FALSE]
    /\ BindingHandle' = [BindingHandle EXCEPT ![a] = FALSE]
    /\ GoBind(a, "freeing")
    /\ UNCHANGED <<RefCount, MiniportInitPending, MiniportIsHalted, MiniportHandle,
                   MiniportInitEvent, listed, memory, instance, mini, deviceVars>>

\* Mutant of UnbindFrees: the structure is not freed.
UnbindFrees_Kept(a) ==
    /\ bnd[a] = "freeing"
    /\ GoBind(a, "done")
    /\ UNCHANGED <<fields, open, instance, mini, deviceVars>>

\* The structure is freed here, whatever the reference count says.
UnbindFrees(a) ==
    /\ bnd[a] = "freeing"
    /\ memory' = [memory EXCEPT ![a] = "freed"]
    /\ GoBind(a, "done")
    /\ UNCHANGED <<RefCount, MiniportInitPending, MiniportIsHalted, MiniportHandle,
                   BindingHandle, MiniportInitEvent, listed, open, instance, mini,
                   deviceVars>>

------------------------------------------------------------------------------
BindStep(a) == \/ OpenFails(a) \/ OpenAdapter(a) \/ AskForInstance(a)
               \/ InstanceGranted(a) \/ InstanceRefused(a)
               \/ BindEnds(a) \/ BindFails(a) \/ BindCloses(a) \/ BindReleases(a)

UnbindStep(a) == \/ ReadPending(a) \/ CancelSucceeds(a) \/ CancelFails(a)
                 \/ InitEventSeen(a) \/ ReadMiniportHandle(a)
                 \/ DeinitReturns(a) \/ UnbindCloses(a) \/ UnbindFrees(a)

MiniStep(a) == \/ MediumUnsupported(a) \/ SetUpMiniport(a) \/ RegisterDevice(a)
               \/ ClearPending(a) \/ SignalInitEvent(a) \/ InitializeEnds(a)
               \/ HaltForUnbind(a) \/ DeregisterDevice(a)
               \/ HaltCloses(a) \/ HaltUnbinds(a) \/ HaltEnds(a)

Next == \E a \in Adapters :
           \/ BindStart(a) \/ InitializeStart(a) \/ HaltByNdis(a) \/ UnbindStart(a)
           \/ BindStep(a) \/ UnbindStep(a) \/ MiniStep(a)

\* Code that runs keeps running, and NdisIMDeInitializeDeviceInstance has the
\* instance halted; NDIS need not bind, initialise, halt or unbind anything.
Fairness == \A a \in Adapters : /\ WF_vars(BindStep(a))
                                /\ WF_vars(UnbindStep(a))
                                /\ WF_vars(MiniStep(a))

Spec == Init /\ [][Next]_vars /\ Fairness

------------------------------------------------------------------------------
\* Every variable stays in its type.
TypeOK ==
    /\ RefCount \in [Adapters -> Nat]
    /\ {MiniportInitPending, MiniportIsHalted, MiniportHandle, BindingHandle,
        MiniportInitEvent, listed, open} \subseteq [Adapters -> BOOLEAN]
    /\ memory \in [Adapters -> {"none", "allocated", "freed"}]
    /\ instance \in [Adapters -> Instances]
    /\ bnd \in [Adapters -> BindPlaces] /\ mini \in [Adapters -> MiniPlaces]
    /\ Device!TypeOK

\* The three holders of references: the binding, the call of
\* NdisIMInitializeDeviceInstanceEx and the miniport.
BindingRef(a) == \/ BindingHandle[a] /\ bnd[a] # "referencing"
                 \/ bnd[a] \in {"closed", "freeing"}
CallRef(a) == bnd[a] \in {"initing", "dereferencing", "failing"}
MiniportRef(a) == instance[a] \in {"up", "halting"}
One(p) == IF p THEN 1 ELSE 0

\* The reference count is the number of its holders as long as the structure
\* lives: it is not freed under one of them and does not outlive them.
RefCountIsExact ==
    \A a \in Adapters : memory[a] = "allocated" =>
        RefCount[a] = One(BindingRef(a)) + One(CallRef(a)) + One(MiniportRef(a))

\* The places from which a thread's next step reads or writes the structure.
Touching(a) ==
    \/ bnd[a] \in BindPlaces \ {"idle", "bound", "initing", "deinit", "leaked", "done"}
    \/ mini[a] \in MiniPlaces \ {"idle", "registering", "deregistering"}

\* MPInitialize is about to signal the event of an adapter it could not set up:
\* it has cleared MiniportInitPending and holds no reference.
SignallingFailure(a) == mini[a] = "signalling" /\ ~MiniportHandle[a]

\* No thread uses or frees the structure once it is freed, a MPInitialize that
\* failed and is about to signal its event excepted.
NoUseAfterFree ==
    \A a \in Adapters :
        Touching(a) /\ ~SignallingFailure(a) => memory[a] = "allocated"

\* PtUnbindAdapter "would have blocked" until MPInitialize is over, so that the
\* event it is about to signal is still there, also when it failed.
EventOutlivesInit ==
    \A a \in Adapters : SignallingFailure(a) => memory[a] = "allocated"

\* The binding is closed once: whoever is about to call NdisCloseAdapter finds
\* it open, and PtUnbindAdapter and MPHalt are never both about to.
ClosedOnce ==
    \A a \in Adapters :
        /\ bnd[a] \in {"closing", "closeBelow"} => open[a] /\ BindingHandle[a]
        /\ (mini[a] = "closing" /\ BindingHandle[a]) => open[a]
        /\ mini[a] \in {"closing", "closed"} => bnd[a] \notin {"closing", "closeBelow"}

\* The ASSERTs: MPInitialize finds the initialisation pending, the wait for it
\* ends with the flag cleared, a cancelled instance has no handle, and a
\* dereference finds a reference.
LifecycleAsserts ==
    \A a \in Adapters :
        /\ mini[a] = "clearing" => MiniportInitPending[a]
        /\ (bnd[a] = "waiting" /\ MiniportInitEvent[a]) => ~MiniportInitPending[a]
        /\ instance[a] = "cancelled" => ~MiniportHandle[a]
        /\ (bnd[a] \in {"dereferencing", "failing", "closed"} \/ mini[a] \in {"closed", "leaving"})
              => RefCount[a] > 0

\* A binding that was removed, an instance that was halted or a bind that was
\* refused leaves nothing behind: neither the structure, nor the open binding,
\* nor a place on the list.  (A bind that failed before the adapter below was
\* open does leave the structure behind, at the place "leaked".)
NothingLeftBehind ==
    \A a \in Adapters :
        (bnd[a] = "done" \/ (bnd[a] = "bound" /\ instance[a] = "halted"))
            => memory[a] = "freed" /\ ~open[a] /\ ~listed[a]

\* All three: the binding is closed once, the ASSERTs hold on the way, and in the
\* end nothing is left of it.
BindingCorrect == ClosedOnce /\ LifecycleAsserts /\ NothingLeftBehind

\* An unbinding always ends, whether it cancels the initialisation, waits for
\* it, has the miniport halted or closes the binding itself.
UnbindEnds == \A a \in Adapters : bnd[a] = "unbinding" ~> bnd[a] = "done"

\* MPInitialize and MPHalt use the control device as ControlDevice says, and
\* so do not break what was shown of it there.
UsesControlDevice == Device!Spec

==============================================================================
