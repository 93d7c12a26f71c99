---------------------------- MODULE RequestService ----------------------------
(***************************************************************************)
(* What the two edges of the driver promise for the one request that NDIS   *)
(* holds open, without their threads, locks, flags and waiting loops.  A    *)
(* request goes down at most once, while the edge to the miniport below is  *)
(* on and the binding stays; it waits only while that edge is off, and goes *)
(* down with the step that turns it on; it is answered once, and one that   *)
(* went down not before the miniport below is done with it.                 *)
(***************************************************************************)
CONSTANT Oids        \* the kinds of request that go down

VARIABLES request,   \* the open request, or "none"
          stage,     \* how far it is
          on,        \* the edge to the miniport below is on
          removed    \* the binding is being removed

vars == <<request, stage, on, removed>>

Stages == {"free",      \* no request is open
           "asked",     \* the driver has yet to decide
           "waiting",   \* for the edge to be on again
           "sent",      \* on its way down
           "below",     \* the miniport below holds it
           "done"}      \* it is failed, or the miniport below is done with it

Init == request = "none" /\ stage = "free" /\ on = TRUE /\ removed = FALSE

Move(from, to) ==
    /\ stage = from /\ stage' = to
    /\ UNCHANGED <<request, on, removed>>

Finish(from) ==
    /\ stage = from /\ stage' = "free" /\ request' = "none"
    /\ UNCHANGED <<on, removed>>

\* A request to set a power state is for the driver alone.
Ask(kind) ==
    /\ stage = "free" /\ stage' = "asked" /\ request' = kind
    /\ kind \in Oids => ~removed
    /\ UNCHANGED <<on, removed>>

Wait == request \in Oids /\ ~on /\ ~removed /\ Move("asked", "waiting")
Send == request \in Oids /\ on /\ ~removed /\ Move("asked", "sent")
Refuse == Finish("asked")

\* The miniport below keeps it, or is done at once; a set request is answered
\* by what it returns.
Pend == Move("sent", "below")
Return == Move("sent", "done")
ReturnSet == request = "set" /\ Finish("sent")

Complete == Move("below", "done")
Answer == Finish("done")

\* A request that waits is failed when the miniport below goes to sleep.
Flush == ~on /\ Move("waiting", "done")

TurnOff == on' = FALSE /\ UNCHANGED <<request, stage, removed>>

TurnOn ==
    /\ on' = TRUE
    /\ stage' = IF stage = "waiting" THEN "sent" ELSE stage
    /\ UNCHANGED <<request, removed>>

Remove ==
    /\ removed' = TRUE
    /\ stage' = IF stage = "waiting" THEN "done" ELSE stage
    /\ UNCHANGED <<request, on>>

Next ==
    \/ \E kind \in Oids \cup {"setpower"} : Ask(kind)
    \/ Wait \/ Send \/ Refuse
    \/ Pend \/ Return \/ ReturnSet \/ Complete \/ Answer
    \/ Flush \/ TurnOff \/ TurnOn \/ Remove

Spec == Init /\ [][Next]_vars
==============================================================================
