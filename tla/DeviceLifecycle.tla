--------------------------- MODULE DeviceLifecycle ---------------------------
(***************************************************************************)
(* What PtRegisterDevice and PtDeregisterDevice of passthru.c promise to    *)
(* the adapters that call them, without their lock, their counter or their  *)
(* polling loop: one control device object, created for the first user of a *)
(* busy period and deleted when the last one leaves, the creation and the   *)
(* deletion never overlapping.                                              *)
(***************************************************************************)
CONSTANT Adapters    \* the miniport instances

VARIABLES users,     \* the adapters between registration and deregistration
          phase      \* the life of the control device

vars == <<users, phase>>

Phases == {"absent", "creating", "present", "failed", "deleting"}

Init == users = {} /\ phase = "absent"

\* A new user: it never touches a device that is already being handled.
Join(a) == /\ a \notin users
           /\ users' = users \cup {a}
           /\ phase' = phase

\* The first user joins an absent device and creates it in the same step.
JoinAndCreate(a) == /\ users = {} /\ phase = "absent"
                    /\ users' = {a}
                    /\ phase' = "creating"

\* A user leaves and others remain.
Leave(a) == /\ a \in users /\ users # {a}
            /\ users' = users \ {a}
            /\ phase' = phase

\* The last user leaves: only now may the device be deleted.
LeaveAndDelete(a) == /\ users = {a} /\ phase \in {"present", "failed"}
                     /\ users' = {}
                     /\ phase' = "deleting"

\* A user that found the deletion in progress creates the device anew.
BeginCreate == /\ phase = "absent" /\ users # {}
               /\ phase' = "creating"
               /\ users' = users

EndCreate == /\ phase = "creating"
             /\ phase' \in {"present", "failed"}
             /\ users' = users

EndDelete == /\ phase = "deleting"
             /\ phase' = "absent"
             /\ users' = users

Next == \/ \E a \in Adapters : \/ Join(a) \/ JoinAndCreate(a)
                               \/ Leave(a) \/ LeaveAndDelete(a)
        \/ BeginCreate
        \/ EndCreate
        \/ EndDelete

Progress == BeginCreate \/ EndCreate \/ EndDelete

Spec == Init /\ [][Next]_vars /\ WF_vars(Progress)
==============================================================================
