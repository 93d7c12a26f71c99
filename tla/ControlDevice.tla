---------------------------- MODULE ControlDevice ----------------------------
(***************************************************************************)
(* PtRegisterDevice and PtDeregisterDevice (driver/passthru.c): the global  *)
(* control device shared by all miniport instances.  Each adapter has a     *)
(* thread of its own: MPInitialize registers, MPHalt deregisters, and NDIS  *)
(* runs the two of different adapters concurrently.                         *)
(*                                                                          *)
(* What runs under GlobalLock is one step.  The lock is released around     *)
(* NdisMRegisterDevice, NdisMDeregisterDevice and NdisMSleep, so these are  *)
(* steps of their own: ControlDeviceState, not the lock, protects           *)
(* NdisDeviceHandle there.                                                  *)
(***************************************************************************)
EXTENDS Naturals, FiniteSets

CONSTANT Adapters    \* the miniport instances

ASSUME AdaptersFinite == IsFiniteSet(Adapters)

VARIABLES
    MiniportCount,        \* the reference count of the device
    ControlDeviceState,   \* who may create or delete: READY, CREATING, DELETING
    NdisDeviceHandle,     \* TRUE iff the global handle is not NULL
    device,               \* TRUE iff NDIS holds the named device object
    pc                    \* where each adapter's thread stands

vars == <<MiniportCount, ControlDeviceState, NdisDeviceHandle, device, pc>>

Places == {"idle",           \* not initialised, or halted
           "waiting",        \* counted, polling for the READY state
           "creating",       \* about to call NdisMRegisterDevice
           "created",        \* that call has returned
           "registered",     \* MPInitialize is past PtRegisterDevice
           "deleting",       \* about to read NdisDeviceHandle
           "deregistering",  \* read as not NULL, about to delete the object
           "clearing",       \* object deleted, the handle still set
           "deleted"}        \* about to take the lock again

Init == /\ MiniportCount = 0
        /\ ControlDeviceState = "READY"
        /\ NdisDeviceHandle = FALSE
        /\ device = FALSE
        /\ pc = [a \in Adapters |-> "idle"]

Move(a, place) == pc' = [pc EXCEPT ![a] = place]

------------------------------------------------------------------------------
\* Mutant of Ready: the loop is left whatever the state.
Ready_Unchecked == TRUE

\* The condition that ends the loop of PtRegisterDevice.
Ready == ControlDeviceState = "READY"

\* The test "1 == MiniportCount" on the incremented counter.
IsFirst == MiniportCount = 0

\* Mutant of RegisterAnother: only the first instance is counted.
RegisterAnother_Uncounted(a) ==
    /\ pc[a] = "idle" /\ ~IsFirst
    /\ Move(a, "registered")
    /\ UNCHANGED <<MiniportCount, ControlDeviceState, NdisDeviceHandle, device>>

\* Not the first instance: counted, and done at once, even while the first
\* one is still creating the device.
RegisterAnother(a) ==
    /\ pc[a] = "idle" /\ ~IsFirst
    /\ MiniportCount' = MiniportCount + 1
    /\ Move(a, "registered")
    /\ UNCHANGED <<ControlDeviceState, NdisDeviceHandle, device>>

\* The first instance, with no deletion in the way.
RegisterFirst(a) ==
    /\ pc[a] = "idle" /\ IsFirst /\ Ready
    /\ MiniportCount' = MiniportCount + 1
    /\ ControlDeviceState' = "CREATING"
    /\ Move(a, "creating")
    /\ UNCHANGED <<NdisDeviceHandle, device>>

\* The first instance, while another thread is in PtDeregisterDevice.
RegisterMustWait(a) ==
    /\ pc[a] = "idle" /\ IsFirst /\ ~Ready
    /\ MiniportCount' = MiniportCount + 1
    /\ Move(a, "waiting")
    /\ UNCHANGED <<ControlDeviceState, NdisDeviceHandle, device>>

\* The loop's test after NdisMSleep, and what follows it under the lock.
StopWaiting(a) ==
    /\ pc[a] = "waiting" /\ Ready
    /\ ControlDeviceState' = "CREATING"
    /\ Move(a, "creating")
    /\ UNCHANGED <<MiniportCount, NdisDeviceHandle, device>>

\* NdisMRegisterDevice: creates the named object and stores its handle, or
\* fails and leaves both alone.  It cannot create a name that exists.
NdisMRegisterDevice(a) ==
    /\ pc[a] = "creating"
    /\ \/ /\ ~device
          /\ device' = TRUE /\ NdisDeviceHandle' = TRUE
       \/ UNCHANGED <<device, NdisDeviceHandle>>
    /\ Move(a, "created")
    /\ UNCHANGED <<MiniportCount, ControlDeviceState>>

\* Mutant of EndRegister: the state is left CREATING.
EndRegister_Stuck(a) ==
    /\ pc[a] = "created"
    /\ Move(a, "registered")
    /\ UNCHANGED <<MiniportCount, ControlDeviceState, NdisDeviceHandle, device>>

\* The lock is taken again and the device is ready, created or not: the
\* caller, MPInitialize, ignores the status.
EndRegister(a) ==
    /\ pc[a] = "created"
    /\ ControlDeviceState' = "READY"
    /\ Move(a, "registered")
    /\ UNCHANGED <<MiniportCount, NdisDeviceHandle, device>>

------------------------------------------------------------------------------
\* The test "0 == MiniportCount" on the decremented counter.
IsLast == MiniportCount = 1

\* PtDeregisterDevice while other instances remain.
DeregisterOne(a) ==
    /\ pc[a] = "registered" /\ ~IsLast
    /\ MiniportCount' = MiniportCount - 1
    /\ Move(a, "idle")
    /\ UNCHANGED <<ControlDeviceState, NdisDeviceHandle, device>>

\* Mutant of DeregisterLast: the state that blocks PtRegisterDevice is not set.
DeregisterLast_Unblocked(a) ==
    /\ pc[a] = "registered" /\ IsLast
    /\ MiniportCount' = MiniportCount - 1
    /\ Move(a, "deleting")
    /\ UNCHANGED <<ControlDeviceState, NdisDeviceHandle, device>>

\* PtDeregisterDevice of the last instance, up to the release of the lock.
DeregisterLast(a) ==
    /\ pc[a] = "registered" /\ IsLast
    /\ MiniportCount' = MiniportCount - 1
    /\ ControlDeviceState' = "DELETING"
    /\ Move(a, "deleting")
    /\ UNCHANGED <<NdisDeviceHandle, device>>

\* The test of NdisDeviceHandle, without the lock.
ReadHandle(a) ==
    /\ pc[a] = "deleting"
    /\ Move(a, IF NdisDeviceHandle THEN "deregistering" ELSE "deleted")
    /\ UNCHANGED <<MiniportCount, ControlDeviceState, NdisDeviceHandle, device>>

\* NdisMDeregisterDevice deletes the object the handle names.
NdisMDeregisterDevice(a) ==
    /\ pc[a] = "deregistering"
    /\ device' = FALSE
    /\ Move(a, "clearing")
    /\ UNCHANGED <<MiniportCount, ControlDeviceState, NdisDeviceHandle>>

\* Mutant of ClearHandle: the handle is left dangling.
ClearHandle_Kept(a) ==
    /\ pc[a] = "clearing"
    /\ Move(a, "deleted")
    /\ UNCHANGED <<MiniportCount, ControlDeviceState, NdisDeviceHandle, device>>

\* The assignment of NULL, still without the lock.
ClearHandle(a) ==
    /\ pc[a] = "clearing"
    /\ NdisDeviceHandle' = FALSE
    /\ Move(a, "deleted")
    /\ UNCHANGED <<MiniportCount, ControlDeviceState, device>>

\* The lock is taken again and registrations are let in.
EndDeregister(a) ==
    /\ pc[a] = "deleted"
    /\ ControlDeviceState' = "READY"
    /\ Move(a, "idle")
    /\ UNCHANGED <<MiniportCount, NdisDeviceHandle, device>>

------------------------------------------------------------------------------
\* What a thread does once it is inside one of the two routines.
Continue(a) == \/ StopWaiting(a) \/ NdisMRegisterDevice(a) \/ EndRegister(a)
               \/ ReadHandle(a) \/ NdisMDeregisterDevice(a)
               \/ ClearHandle(a) \/ EndDeregister(a)

Next == \E a \in Adapters :
           \/ RegisterAnother(a) \/ RegisterFirst(a) \/ RegisterMustWait(a)
           \/ DeregisterOne(a) \/ DeregisterLast(a)
           \/ Continue(a)

\* A thread in the routines keeps running: it never blocks on anything but the
\* spin lock, and its wait is a timed poll.  Nothing says that an adapter is
\* ever initialised or halted.
Spec == Init /\ [][Next]_vars /\ \A a \in Adapters : WF_vars(Continue(a))

------------------------------------------------------------------------------
Counted  == {a \in Adapters : pc[a] \in {"waiting", "creating", "created", "registered"}}
Creators == {a \in Adapters : pc[a] \in {"creating", "created"}}
Deleters == {a \in Adapters :
                pc[a] \in {"deleting", "deregistering", "clearing", "deleted"}}
Waiters  == {a \in Adapters : pc[a] = "waiting"}

\* Every variable stays in its type.
TypeOK == /\ MiniportCount \in Nat
          /\ ControlDeviceState \in {"READY", "CREATING", "DELETING"}
          /\ NdisDeviceHandle \in BOOLEAN
          /\ device \in BOOLEAN
          /\ pc \in [Adapters -> Places]

\* The counter is the number of instances between the increment of
\* PtRegisterDevice and the decrement of PtDeregisterDevice.
CountIsExact == MiniportCount = Cardinality(Counted)

\* At most one thread is between the two places that set ControlDeviceState,
\* and the state says which of the two routines it is in.
OneThreadInside ==
    /\ \A a, b \in Creators \cup Deleters : a = b
    /\ ControlDeviceState = "CREATING" <=> Creators # {}
    /\ ControlDeviceState = "DELETING" <=> Deleters # {}

\* The two ASSERTs on ControlDeviceState: a first registrant never finds a
\* creation in progress, a last one never leaves before the state is READY.
StateAsserts ==
    /\ MiniportCount = 0 => ControlDeviceState # "CREATING"
    /\ (MiniportCount = 1 /\ \E a \in Adapters : pc[a] = "registered")
          => ControlDeviceState = "READY"

\* The handle names an existing object except while the thread that deletes it
\* is about to clear it, and no object exists without a handle: none leaks.
HandleNamesDevice ==
    NdisDeviceHandle = device \/ \E a \in Deleters : pc[a] = "clearing" /\ ~device

\* NdisMRegisterDevice is never called while the object of the same name, or
\* its handle, is still there.
CreateOnlyWhenAbsent ==
    \A a \in Adapters : pc[a] = "creating" => ~device /\ ~NdisDeviceHandle

\* Once every instance is halted and the routines are left, no object remains:
\* the driver can be unloaded.
NothingLeftBehind ==
    (\A a \in Adapters : pc[a] = "idle") => ~device /\ ~NdisDeviceHandle

\* All of them: the counter is exact, the two routines exclude each other, their
\* ASSERTs hold, and the device is created once, named by the handle and gone in
\* the end.
DeviceCorrect ==
    /\ CountIsExact /\ OneThreadInside /\ StateAsserts
    /\ HandleNamesDevice /\ CreateOnlyWhenAbsent /\ NothingLeftBehind

------------------------------------------------------------------------------
\* The routines implement the life cycle of one device.
phaseOf == CASE ControlDeviceState = "CREATING" -> "creating"
             [] ControlDeviceState = "DELETING" -> "deleting"
             [] OTHER -> IF Counted = {} \/ Waiters # {} THEN "absent"
                         ELSE IF device THEN "present" ELSE "failed"

Lifecycle == INSTANCE DeviceLifecycle WITH users <- Counted, phase <- phaseOf

\* Every step of the routines is a step of the abstract life cycle or none;
\* creation and deletion always come to an end, and a registrant that waits for
\* a deletion gets its turn to create.
ImplementsLifecycle == Lifecycle!Spec
==============================================================================
