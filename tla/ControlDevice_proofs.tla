------------------------- MODULE ControlDevice_proofs -------------------------
(***************************************************************************)
(* Theorems about ControlDevice, for any finite set of adapters.            *)
(*                                                                          *)
(* None of the invariants is inductive by itself.  That the counter never   *)
(* goes below zero needs it to be exact; that two threads are never inside  *)
(* together needs it to be zero when the first registrant comes, and the    *)
(* state to tell who is inside; and what is known of the handle depends on  *)
(* the place of the thread that is inside, and on a waiter never having     *)
(* company that creates.  IInv puts this together.                          *)
(***************************************************************************)
EXTENDS ControlDevice, FiniteSetTheorems, TLAPS

CountPlaces  == {"waiting", "creating", "created", "registered"}
CreatePlaces == {"creating", "created"}
DeletePlaces == {"deleting", "deregistering", "clearing", "deleted"}

\* One thread inside at most, and the state tells where it is.
Exclusion ==
    /\ \A a, b \in Adapters :
          pc[a] \in CreatePlaces \cup DeletePlaces
             /\ pc[b] \in CreatePlaces \cup DeletePlaces => a = b
    /\ \A a \in Adapters : /\ pc[a] \in CreatePlaces => ControlDeviceState = "CREATING"
                           /\ pc[a] \in DeletePlaces => ControlDeviceState = "DELETING"
    /\ ControlDeviceState = "CREATING" => \E a \in Adapters : pc[a] \in CreatePlaces
    /\ ControlDeviceState = "DELETING" => \E a \in Adapters : pc[a] \in DeletePlaces

\* One instance at most is the first of its busy period and still waiting or
\* creating; as long as a deletion goes on, the first one waits for it.
FirstOne ==
    /\ \A a, b \in Adapters :
          pc[a] \in {"waiting"} \cup CreatePlaces
             /\ pc[b] \in {"waiting"} \cup CreatePlaces => a = b
    /\ \A a, b \in Adapters :
          pc[a] = "registered" /\ pc[b] \in DeletePlaces
             => \E c \in Adapters : pc[c] = "waiting"

\* What the handle and the object are at each place of the thread inside, and
\* when no thread is inside.
Handles ==
    /\ \A a \in Adapters :
          /\ pc[a] = "creating" => ~NdisDeviceHandle /\ ~device
          /\ pc[a] \in {"created", "deleting"} => NdisDeviceHandle = device
          /\ pc[a] = "deregistering" => NdisDeviceHandle /\ device
          /\ pc[a] = "clearing" => NdisDeviceHandle /\ ~device
          /\ pc[a] = "deleted" => ~NdisDeviceHandle /\ ~device
    /\ ControlDeviceState = "READY" =>
          /\ NdisDeviceHandle = device
          /\ ((\E a \in Adapters : pc[a] = "waiting")
                \/ (\A a \in Adapters : pc[a] \notin CountPlaces)) => ~device

IInv == TypeOK /\ CountIsExact /\ Exclusion /\ FirstOne /\ Handles

------------------------------------------------------------------------------
\* What the exact counter says of the places: zero means that nobody is
\* counted, one that a counted instance is alone.
LEMMA CountFacts ==
  ASSUME TypeOK, CountIsExact
  PROVE  /\ IsFiniteSet(Counted)
         /\ MiniportCount = 0 => \A a \in Adapters : pc[a] \notin CountPlaces
         /\ MiniportCount # 0 => \E a \in Adapters : pc[a] \in CountPlaces
         /\ MiniportCount = 1 => \A a, b \in Adapters :
               pc[a] \in CountPlaces /\ pc[b] \in CountPlaces => a = b
         /\ \A a \in Adapters : pc[a] \in CountPlaces => MiniportCount >= 1
         /\ MiniportCount > 1 => \A a \in Adapters :
               \E b \in Adapters : b # a /\ pc[b] \in CountPlaces
<1>1. Counted = {a \in Adapters : pc[a] \in CountPlaces}
  BY DEF Counted, CountPlaces
<1>2. IsFiniteSet(Counted)
  BY <1>1, AdaptersFinite, FS_Subset
<1>3. MiniportCount = 0 <=> Counted = {}
  BY <1>2, FS_EmptySet DEF CountIsExact
<1>4. MiniportCount = 1 => \E x : Counted = {x}
  BY <1>2, FS_Singleton DEF CountIsExact
<1>5. \A a : Counted = {a} => MiniportCount = 1
  BY <1>2, FS_Singleton DEF CountIsExact
<1>6. QED
  BY <1>1, <1>2, <1>3, <1>4, <1>5 DEF TypeOK

\* The three ways in which a step moves one thread and changes the counter.
LEMMA CountUp ==
  ASSUME TypeOK, CountIsExact, NEW a \in Adapters, NEW place \in CountPlaces,
         pc[a] \notin CountPlaces, Move(a, place), MiniportCount' = MiniportCount + 1
  PROVE  CountIsExact'
<1>1. Counted' = Counted \cup {a} /\ a \notin Counted
  BY DEF Counted, CountPlaces, Move, TypeOK
<1>2. QED
  BY <1>1, CountFacts, FS_AddElement DEF CountIsExact

LEMMA CountDown ==
  ASSUME TypeOK, CountIsExact, NEW a \in Adapters, NEW place \in Places \ CountPlaces,
         pc[a] \in CountPlaces, Move(a, place), MiniportCount' = MiniportCount - 1
  PROVE  CountIsExact'
<1>1. Counted' = Counted \ {a} /\ a \in Counted
  BY DEF Counted, CountPlaces, Move, TypeOK
<1>2. QED
  BY <1>1, CountFacts, FS_RemoveElement DEF CountIsExact

LEMMA CountSame ==
  ASSUME TypeOK, CountIsExact, NEW a \in Adapters, NEW place \in Places,
         pc[a] \in CountPlaces <=> place \in CountPlaces,
         Move(a, place), UNCHANGED MiniportCount
  PROVE  CountIsExact'
<1>1. Counted' = Counted
  BY DEF Counted, CountPlaces, Move, TypeOK
<1>2. QED
  BY <1>1 DEF CountIsExact

------------------------------------------------------------------------------
\* The invariant holds at the start.
LEMMA InitIInv == Init => IInv
<1> SUFFICES ASSUME Init PROVE IInv
  OBVIOUS
<1>1. TypeOK
  BY DEF Init, TypeOK, Places
<1>2. CountIsExact
  <2>1. Counted = {}
    BY DEF Init, Counted
  <2>2. QED
    BY <2>1, FS_EmptySet DEF Init, CountIsExact
<1>3. Exclusion /\ FirstOne /\ Handles
  BY DEF Init, Exclusion, FirstOne, Handles, CreatePlaces, DeletePlaces, CountPlaces
<1>4. QED
  BY <1>1, <1>2, <1>3 DEF IInv

\* One step per action.  The definitions of the places are all any of them
\* needs beyond its own; CountFacts says what the tests of the counter mean.
LEMMA StepIInv == IInv /\ [Next]_vars => IInv'
<1> SUFFICES ASSUME IInv, [Next]_vars PROVE IInv'
  OBVIOUS
<1> USE DEF IInv
<1>1. ASSUME NEW a \in Adapters, RegisterAnother(a) PROVE IInv'
  <2>1. TypeOK'
    BY <1>1 DEF RegisterAnother, TypeOK, Move, Places
  <2>2. CountIsExact'
    BY <1>1, CountUp DEF RegisterAnother, CountPlaces, Places
  <2>3. Exclusion'
    BY <1>1, CountFacts DEF RegisterAnother, IsFirst, Move, TypeOK, Exclusion, CreatePlaces, DeletePlaces, CountPlaces
  <2>4. FirstOne'
    BY <1>1, CountFacts DEF RegisterAnother, IsFirst, Move, TypeOK, Exclusion, FirstOne, CreatePlaces, DeletePlaces, CountPlaces
  <2>5. Handles'
    BY <1>1, CountFacts DEF RegisterAnother, IsFirst, Move, TypeOK, Exclusion, FirstOne, Handles, CreatePlaces, DeletePlaces, CountPlaces
  <2>6. QED
    BY <2>1, <2>2, <2>3, <2>4, <2>5
<1>2. ASSUME NEW a \in Adapters, RegisterFirst(a) PROVE IInv'
  <2>1. TypeOK'
    BY <1>2 DEF RegisterFirst, TypeOK, Move, Places
  <2>2. CountIsExact'
    BY <1>2, CountUp DEF RegisterFirst, CountPlaces, Places
  <2>3. Exclusion'
    BY <1>2, CountFacts DEF RegisterFirst, IsFirst, Ready, Move, TypeOK, Exclusion, CreatePlaces, DeletePlaces, CountPlaces
  <2>4. FirstOne'
    BY <1>2, CountFacts DEF RegisterFirst, IsFirst, Ready, Move, TypeOK, Exclusion, FirstOne, CreatePlaces, DeletePlaces, CountPlaces
  <2>5. Handles'
    BY <1>2, CountFacts DEF RegisterFirst, IsFirst, Ready, Move, TypeOK, Exclusion, FirstOne, Handles, CreatePlaces, DeletePlaces, CountPlaces
  <2>6. QED
    BY <2>1, <2>2, <2>3, <2>4, <2>5
<1>3. ASSUME NEW a \in Adapters, RegisterMustWait(a) PROVE IInv'
  <2>1. TypeOK'
    BY <1>3 DEF RegisterMustWait, TypeOK, Move, Places
  <2>2. CountIsExact'
    BY <1>3, CountUp DEF RegisterMustWait, CountPlaces, Places
  <2>3. Exclusion'
    BY <1>3, CountFacts DEF RegisterMustWait, IsFirst, Ready, Move, TypeOK, Exclusion, CreatePlaces, DeletePlaces, CountPlaces
  <2>4. FirstOne'
    BY <1>3, CountFacts DEF RegisterMustWait, IsFirst, Ready, Move, TypeOK, Exclusion, FirstOne, CreatePlaces, DeletePlaces, CountPlaces
  <2>5. Handles'
    BY <1>3, CountFacts DEF RegisterMustWait, IsFirst, Ready, Move, TypeOK, Exclusion, FirstOne, Handles, CreatePlaces, DeletePlaces, CountPlaces
  <2>6. QED
    BY <2>1, <2>2, <2>3, <2>4, <2>5
<1>4. ASSUME NEW a \in Adapters, StopWaiting(a) PROVE IInv'
  <2>1. TypeOK'
    BY <1>4 DEF StopWaiting, TypeOK, Move, Places
  <2>2. CountIsExact'
    BY <1>4, CountSame DEF StopWaiting, CountPlaces, Places
  <2>3. Exclusion'
    BY <1>4 DEF StopWaiting, Ready, Move, TypeOK, Exclusion, CreatePlaces, DeletePlaces, CountPlaces
  <2>4. FirstOne'
    BY <1>4 DEF StopWaiting, Ready, Move, TypeOK, Exclusion, FirstOne, CreatePlaces, DeletePlaces, CountPlaces
  <2>5. Handles'
    BY <1>4 DEF StopWaiting, Ready, Move, TypeOK, Exclusion, FirstOne, Handles, CreatePlaces, DeletePlaces, CountPlaces
  <2>6. QED
    BY <2>1, <2>2, <2>3, <2>4, <2>5
<1>5. ASSUME NEW a \in Adapters, NdisMRegisterDevice(a) PROVE IInv'
  <2>1. TypeOK'
    BY <1>5 DEF NdisMRegisterDevice, TypeOK, Move, Places
  <2>2. CountIsExact'
    BY <1>5, CountSame DEF NdisMRegisterDevice, CountPlaces, Places
  <2>3. Exclusion'
    BY <1>5 DEF NdisMRegisterDevice, Move, TypeOK, Exclusion, CreatePlaces, DeletePlaces, CountPlaces
  <2>4. FirstOne'
    BY <1>5 DEF NdisMRegisterDevice, Move, TypeOK, Exclusion, FirstOne, CreatePlaces, DeletePlaces, CountPlaces
  <2>5. Handles'
    BY <1>5 DEF NdisMRegisterDevice, Move, TypeOK, Exclusion, FirstOne, Handles, CreatePlaces, DeletePlaces, CountPlaces
  <2>6. QED
    BY <2>1, <2>2, <2>3, <2>4, <2>5
<1>6. ASSUME NEW a \in Adapters, EndRegister(a) PROVE IInv'
  <2>1. TypeOK'
    BY <1>6 DEF EndRegister, TypeOK, Move, Places
  <2>2. CountIsExact'
    BY <1>6, CountSame DEF EndRegister, CountPlaces, Places
  <2>3. Exclusion'
    BY <1>6 DEF EndRegister, Move, TypeOK, Exclusion, CreatePlaces, DeletePlaces, CountPlaces
  <2>4. FirstOne'
    BY <1>6 DEF EndRegister, Move, TypeOK, Exclusion, FirstOne, CreatePlaces, DeletePlaces, CountPlaces
  <2>5. Handles'
    BY <1>6 DEF EndRegister, Move, TypeOK, Exclusion, FirstOne, Handles, CreatePlaces, DeletePlaces, CountPlaces
  <2>6. QED
    BY <2>1, <2>2, <2>3, <2>4, <2>5
<1>7. ASSUME NEW a \in Adapters, DeregisterOne(a) PROVE IInv'
  <2>1. TypeOK'
    BY <1>7, CountFacts DEF DeregisterOne, TypeOK, Move, Places, CountPlaces
  <2>2. CountIsExact'
    BY <1>7, CountDown DEF DeregisterOne, CountPlaces, Places
  <2>3. Exclusion'
    BY <1>7, CountFacts DEF DeregisterOne, IsLast, Move, TypeOK, Exclusion, CreatePlaces, DeletePlaces, CountPlaces
  <2>4. FirstOne'
    BY <1>7, CountFacts DEF DeregisterOne, IsLast, Move, TypeOK, Exclusion, FirstOne, CreatePlaces, DeletePlaces, CountPlaces
  <2>5. Handles'
    BY <1>7, CountFacts DEF DeregisterOne, IsLast, Move, TypeOK, Exclusion, FirstOne, Handles, CreatePlaces, DeletePlaces, CountPlaces
  <2>6. QED
    BY <2>1, <2>2, <2>3, <2>4, <2>5
<1>8. ASSUME NEW a \in Adapters, DeregisterLast(a) PROVE IInv'
  <2>1. TypeOK'
    BY <1>8, CountFacts DEF DeregisterLast, TypeOK, Move, Places, CountPlaces
  <2>2. CountIsExact'
    BY <1>8, CountDown DEF DeregisterLast, CountPlaces, Places
  <2>3. Exclusion'
    BY <1>8, CountFacts DEF DeregisterLast, IsLast, Move, TypeOK, Exclusion, FirstOne, CreatePlaces, DeletePlaces, CountPlaces
  <2>4. FirstOne'
    BY <1>8, CountFacts DEF DeregisterLast, IsLast, Move, TypeOK, Exclusion, FirstOne, CreatePlaces, DeletePlaces, CountPlaces
  <2>5. Handles'
    BY <1>8, CountFacts DEF DeregisterLast, IsLast, Move, TypeOK, Exclusion, FirstOne, Handles, CreatePlaces, DeletePlaces, CountPlaces
  <2>6. QED
    BY <2>1, <2>2, <2>3, <2>4, <2>5
<1>9. ASSUME NEW a \in Adapters, ReadHandle(a) PROVE IInv'
  <2>1. TypeOK'
    BY <1>9 DEF ReadHandle, TypeOK, Move, Places
  <2>2. CountIsExact'
    BY <1>9, CountSame DEF ReadHandle, CountPlaces, Places
  <2>3. Exclusion'
    BY <1>9 DEF ReadHandle, Move, TypeOK, Exclusion, CreatePlaces, DeletePlaces, CountPlaces
  <2>4. FirstOne'
    BY <1>9 DEF ReadHandle, Move, TypeOK, Exclusion, FirstOne, CreatePlaces, DeletePlaces, CountPlaces
  <2>5. Handles'
    BY <1>9 DEF ReadHandle, Move, TypeOK, Exclusion, FirstOne, Handles, CreatePlaces, DeletePlaces, CountPlaces
  <2>6. QED
    BY <2>1, <2>2, <2>3, <2>4, <2>5
<1>10. ASSUME NEW a \in Adapters, NdisMDeregisterDevice(a) PROVE IInv'
  <2>1. TypeOK'
    BY <1>10 DEF NdisMDeregisterDevice, TypeOK, Move, Places
  <2>2. CountIsExact'
    BY <1>10, CountSame DEF NdisMDeregisterDevice, CountPlaces, Places
  <2>3. Exclusion'
    BY <1>10 DEF NdisMDeregisterDevice, Move, TypeOK, Exclusion, CreatePlaces, DeletePlaces, CountPlaces
  <2>4. FirstOne'
    BY <1>10 DEF NdisMDeregisterDevice, Move, TypeOK, Exclusion, FirstOne, CreatePlaces, DeletePlaces, CountPlaces
  <2>5. Handles'
    BY <1>10 DEF NdisMDeregisterDevice, Move, TypeOK, Exclusion, FirstOne, Handles, CreatePlaces, DeletePlaces, CountPlaces
  <2>6. QED
    BY <2>1, <2>2, <2>3, <2>4, <2>5
<1>11. ASSUME NEW a \in Adapters, ClearHandle(a) PROVE IInv'
  <2>1. TypeOK'
    BY <1>11 DEF ClearHandle, TypeOK, Move, Places
  <2>2. CountIsExact'
    BY <1>11, CountSame DEF ClearHandle, CountPlaces, Places
  <2>3. Exclusion'
    BY <1>11 DEF ClearHandle, Move, TypeOK, Exclusion, CreatePlaces, DeletePlaces, CountPlaces
  <2>4. FirstOne'
    BY <1>11 DEF ClearHandle, Move, TypeOK, Exclusion, FirstOne, CreatePlaces, DeletePlaces, CountPlaces
  <2>5. Handles'
    BY <1>11 DEF ClearHandle, Move, TypeOK, Exclusion, FirstOne, Handles, CreatePlaces, DeletePlaces, CountPlaces
  <2>6. QED
    BY <2>1, <2>2, <2>3, <2>4, <2>5
<1>12. ASSUME NEW a \in Adapters, EndDeregister(a) PROVE IInv'
  <2>1. TypeOK'
    BY <1>12 DEF EndDeregister, TypeOK, Move, Places
  <2>2. CountIsExact'
    BY <1>12, CountSame DEF EndDeregister, CountPlaces, Places
  <2>3. Exclusion'
    BY <1>12 DEF EndDeregister, Move, TypeOK, Exclusion, CreatePlaces, DeletePlaces, CountPlaces
  <2>4. FirstOne'
    BY <1>12 DEF EndDeregister, Move, TypeOK, Exclusion, FirstOne, CreatePlaces, DeletePlaces, CountPlaces
  <2>5. Handles'
    BY <1>12 DEF EndDeregister, Move, TypeOK, Exclusion, FirstOne, Handles, CreatePlaces, DeletePlaces, CountPlaces
  <2>6. QED
    BY <2>1, <2>2, <2>3, <2>4, <2>5
<1>13. CASE UNCHANGED vars
  BY <1>13 DEF vars, TypeOK, CountIsExact, Counted, Exclusion, FirstOne, Handles
<1>14. QED
  BY <1>1, <1>2, <1>3, <1>4, <1>5, <1>6, <1>7, <1>8, <1>9, <1>10, <1>11, <1>12, <1>13 DEF Next, Continue

------------------------------------------------------------------------------
\* The inductive invariant holds throughout.
THEOREM Invariance == Spec => []IInv
<1>1. QED
  BY InitIInv, StepIInv, PTL DEF Spec

------------------------------------------------------------------------------
\* The counter is exact: it is the number of instances between PtRegisterDevice's
\* increment and PtDeregisterDevice's decrement, and never negative.
THEOREM CountCorrect == Spec => [](TypeOK /\ CountIsExact)
<1>1. QED
  BY Invariance, PTL DEF IInv

\* What follows from it: creation and deletion exclude each other, by the state.
LEMMA ExclusionFollows == IInv => OneThreadInside
  BY DEF IInv, Exclusion, OneThreadInside, Creators, Deleters, CreatePlaces, DeletePlaces

\* The ASSERTs on ControlDeviceState.
LEMMA AssertsFollow == IInv => StateAsserts
<1> SUFFICES ASSUME IInv PROVE StateAsserts
  OBVIOUS
<1>1. MiniportCount = 0 => ControlDeviceState # "CREATING"
  BY CountFacts DEF IInv, Exclusion, CreatePlaces, CountPlaces
<1>2. ASSUME MiniportCount = 1, NEW a \in Adapters, pc[a] = "registered"
      PROVE  ControlDeviceState = "READY"
  <2>1. \A b \in Adapters : pc[b] \in CountPlaces => b = a
    BY <1>2, CountFacts DEF IInv, CountPlaces
  <2>2. ControlDeviceState # "CREATING"
    BY <1>2, <2>1 DEF IInv, Exclusion, CreatePlaces, CountPlaces
  <2>3. ControlDeviceState # "DELETING"
    BY <1>2, <2>1 DEF IInv, Exclusion, FirstOne, DeletePlaces, CountPlaces
  <2>4. QED
    BY <2>2, <2>3 DEF IInv, TypeOK
<1>3. QED
  BY <1>1, <1>2 DEF StateAsserts

\* These two, and what the handle and the object are.
LEMMA CorrectFollows == IInv => DeviceCorrect
<1>1. IInv => CreateOnlyWhenAbsent
  BY DEF IInv, Handles, CreateOnlyWhenAbsent
<1>2. IInv => HandleNamesDevice
  BY DEF IInv, TypeOK, Exclusion, Handles, HandleNamesDevice, Deleters,
         CreatePlaces, DeletePlaces
<1>3. IInv => NothingLeftBehind
  BY DEF IInv, TypeOK, Exclusion, Handles, NothingLeftBehind,
         CreatePlaces, DeletePlaces, CountPlaces
<1>4. QED
  BY <1>1, <1>2, <1>3, ExclusionFollows, AssertsFollow DEF IInv, DeviceCorrect

\* Creation and deletion of the device exclude each other, by the state alone.
THEOREM MutualExclusion == Spec => []OneThreadInside
<1>1. QED
  BY ExclusionFollows, Invariance, PTL

\* The ASSERTs of the two routines on ControlDeviceState hold.
THEOREM AssertsHold == Spec => []StateAsserts
<1>1. QED
  BY AssertsFollow, Invariance, PTL

\* The three above; NdisMRegisterDevice never meets an object or a handle that is
\* still there; the handle and the object are there together, but for the moment
\* in which the deleting thread is about to clear the handle; and with every
\* instance halted both are gone.
THEOREM DeviceAlwaysCorrect == Spec => []DeviceCorrect
<1>1. QED
  BY CorrectFollows, Invariance, PTL

------------------------------------------------------------------------------
(* The routines implement DeviceLifecycle, but for its fairness.            *)

\* The phase when nobody is inside.
LEMMA PhaseFacts ==
  /\ ControlDeviceState = "CREATING" => phaseOf = "creating"
  /\ ControlDeviceState = "DELETING" => phaseOf = "deleting"
  /\ (ControlDeviceState = "READY" /\ (Counted = {} \/ Waiters # {}))
        => phaseOf = "absent"
  /\ (ControlDeviceState = "READY" /\ ~(Counted = {} \/ Waiters # {}))
        => phaseOf \in {"present", "failed"}
  BY DEF phaseOf

\* The routines start where the life cycle starts.
LEMMA InitLifecycle == Init => Lifecycle!Init
<1> SUFFICES ASSUME Init PROVE Lifecycle!Init
  OBVIOUS
<1>1. Counted = {}
  BY DEF Init, Counted
<1>2. QED
  BY <1>1 DEF Init, Lifecycle!Init, phaseOf

\* Every step is a step of the life cycle or changes nothing in it.
LEMMA StepLifecycle == IInv /\ [Next]_vars => [Lifecycle!Next]_(Lifecycle!vars)
<1> SUFFICES ASSUME IInv, [Next]_vars PROVE [Lifecycle!Next]_(Lifecycle!vars)
  OBVIOUS
<1> USE DEF Lifecycle!vars
<1>0. /\ pc \in [Adapters -> Places]
      /\ ControlDeviceState \in {"READY", "CREATING", "DELETING"}
  BY DEF IInv, TypeOK
<1>c. /\ MiniportCount = 0 => Counted = {}
      /\ MiniportCount # 0 => Counted # {}
      /\ \A a \in Counted : MiniportCount = 1 => Counted = {a}
      /\ \A a \in Counted : MiniportCount > 1 => Counted # {a}
      /\ MiniportCount \in Nat
  BY CountFacts DEF IInv, TypeOK, Counted, CountPlaces
<1>1. ASSUME NEW a \in Adapters, RegisterAnother(a) PROVE Lifecycle!Join(a)
  <2>1. Counted' = Counted \cup {a} /\ a \notin Counted /\ Counted # {}
    BY <1>0, <1>1, <1>c DEF RegisterAnother, IsFirst, Counted, Move
  <2>2. Waiters' = Waiters
    BY <1>0, <1>1 DEF RegisterAnother, Waiters, Move
  <2>3. phaseOf' = phaseOf
    BY <1>1, <2>1, <2>2 DEF RegisterAnother, phaseOf
  <2>4. QED
    BY <2>1, <2>3 DEF Lifecycle!Join
<1>2. ASSUME NEW a \in Adapters, RegisterFirst(a) PROVE Lifecycle!JoinAndCreate(a)
  <2>1. Counted = {} /\ Counted' = {a}
    BY <1>0, <1>2, <1>c DEF RegisterFirst, IsFirst, Counted, Move
  <2>2. phaseOf = "absent" /\ phaseOf' = "creating"
    BY <1>2, <2>1 DEF RegisterFirst, Ready, phaseOf
  <2>3. QED
    BY <2>1, <2>2 DEF Lifecycle!JoinAndCreate
<1>3. ASSUME NEW a \in Adapters, RegisterMustWait(a) PROVE Lifecycle!Join(a)
  <2>1. Counted = {} /\ Counted' = {a}
    BY <1>0, <1>3, <1>c DEF RegisterMustWait, IsFirst, Counted, Move
  <2>2. ControlDeviceState = "DELETING"
    BY <1>0, <1>3, <2>1 DEF RegisterMustWait, Ready, IInv, Exclusion, CreatePlaces, Counted
  <2>3. phaseOf' = phaseOf
    BY <1>3, <2>2 DEF RegisterMustWait, phaseOf
  <2>4. QED
    BY <2>1, <2>3 DEF Lifecycle!Join
<1>4. ASSUME NEW a \in Adapters, StopWaiting(a) PROVE Lifecycle!BeginCreate
  <2>1. Counted' = Counted /\ Counted # {} /\ Waiters # {}
    BY <1>0, <1>4 DEF StopWaiting, Counted, Waiters, Move
  <2>2. phaseOf = "absent" /\ phaseOf' = "creating"
    BY <1>4, <2>1 DEF StopWaiting, Ready, phaseOf
  <2>3. QED
    BY <2>1, <2>2 DEF Lifecycle!BeginCreate
<1>5. ASSUME NEW a \in Adapters, NdisMRegisterDevice(a) PROVE UNCHANGED Lifecycle!vars
  <2>1. Counted' = Counted
    BY <1>0, <1>5 DEF NdisMRegisterDevice, Counted, Move
  <2>2. ControlDeviceState = "CREATING"
    BY <1>5 DEF NdisMRegisterDevice, IInv, Exclusion, CreatePlaces
  <2>3. QED
    BY <1>5, <2>1, <2>2 DEF NdisMRegisterDevice, phaseOf
<1>6. ASSUME NEW a \in Adapters, EndRegister(a) PROVE Lifecycle!EndCreate
  <2>1. Counted' = Counted /\ Counted' # {}
    BY <1>0, <1>6 DEF EndRegister, Counted, Move
  <2>2. Waiters' = {}
    BY <1>0, <1>6 DEF EndRegister, Waiters, Move, IInv, FirstOne, CreatePlaces
  <2>3. phaseOf = "creating"
    BY <1>6, PhaseFacts DEF EndRegister, IInv, Exclusion, CreatePlaces
  <2>4. phaseOf' \in {"present", "failed"}
    BY <1>6, <2>1, <2>2 DEF EndRegister, phaseOf
  <2>5. QED
    BY <2>1, <2>3, <2>4 DEF Lifecycle!EndCreate
<1>7. ASSUME NEW a \in Adapters, DeregisterOne(a) PROVE Lifecycle!Leave(a)
  <2>1. a \in Counted /\ Counted' = Counted \ {a}
    BY <1>0, <1>7 DEF DeregisterOne, Counted, Move
  <2>2. Counted # {a}
    BY <1>7, <1>c, <2>1 DEF DeregisterOne, IsLast
  <2>3. Waiters' = Waiters
    BY <1>0, <1>7 DEF DeregisterOne, Waiters, Move
  <2>4. phaseOf' = phaseOf
    BY <1>7, <2>1, <2>2, <2>3 DEF DeregisterOne, phaseOf
  <2>5. QED
    BY <2>1, <2>2, <2>4 DEF Lifecycle!Leave
<1>8. ASSUME NEW a \in Adapters, DeregisterLast(a) PROVE Lifecycle!LeaveAndDelete(a)
  <2>1. Counted = {a}
    BY <1>0, <1>8, <1>c DEF DeregisterLast, IsLast, Counted
  <2>2. Counted' = {}
    BY <1>0, <1>8, <2>1 DEF DeregisterLast, Counted, Move
  <2>3. Waiters = {}
    BY <1>8, <2>1 DEF DeregisterLast, Waiters, Counted
  <2>4. ControlDeviceState = "READY"
    <3>1. ControlDeviceState # "CREATING"
      BY <1>8, <2>1 DEF DeregisterLast, IInv, Exclusion, CreatePlaces, Counted
    <3>2. ControlDeviceState # "DELETING"
      BY <1>8, <2>3 DEF DeregisterLast, IInv, Exclusion, FirstOne, DeletePlaces, Waiters
    <3>3. QED
      BY <1>0, <3>1, <3>2
  <2>5. phaseOf \in {"present", "failed"} /\ phaseOf' = "deleting"
    BY <1>8, <2>1, <2>3, <2>4 DEF DeregisterLast, phaseOf
  <2>6. QED
    BY <2>1, <2>2, <2>5 DEF Lifecycle!LeaveAndDelete
<1>9. ASSUME NEW a \in Adapters,
             ReadHandle(a) \/ NdisMDeregisterDevice(a) \/ ClearHandle(a)
      PROVE  UNCHANGED Lifecycle!vars
  <2>1. Counted' = Counted
    BY <1>0, <1>9 DEF ReadHandle, NdisMDeregisterDevice, ClearHandle, Counted, Move
  <2>2. ControlDeviceState = "DELETING" /\ ControlDeviceState' = ControlDeviceState
    BY <1>9 DEF ReadHandle, NdisMDeregisterDevice, ClearHandle, IInv, Exclusion, DeletePlaces
  <2>3. QED
    BY <2>1, <2>2 DEF phaseOf
<1>10. ASSUME NEW a \in Adapters, EndDeregister(a) PROVE Lifecycle!EndDelete
  <2>1. Counted' = Counted /\ Waiters' = Waiters
    BY <1>0, <1>10 DEF EndDeregister, Counted, Waiters, Move
  <2>2. ControlDeviceState = "DELETING"
    BY <1>10 DEF EndDeregister, IInv, Exclusion, DeletePlaces
  <2>3. Counted = {} \/ Waiters # {}
    <3>1. ASSUME NEW b \in Counted PROVE \E c \in Adapters : pc[c] = "waiting"
      <4>1. b \in Adapters /\ pc[b] \notin CreatePlaces
        BY <2>2 DEF IInv, Exclusion, Counted
      <4>2. CASE pc[b] = "registered"
        BY <1>10, <4>1, <4>2 DEF EndDeregister, IInv, FirstOne, DeletePlaces
      <4>3. QED
        BY <4>1, <4>2 DEF Counted, CreatePlaces
    <3>2. QED
      BY <3>1 DEF Waiters
  <2>4. phaseOf = "deleting" /\ phaseOf' = "absent"
    BY <1>10, <2>1, <2>2, <2>3 DEF EndDeregister, phaseOf
  <2>5. QED
    BY <2>1, <2>4 DEF Lifecycle!EndDelete
<1>11. CASE UNCHANGED vars
  BY <1>11 DEF vars, Counted, Waiters, phaseOf
<1>12. QED
  BY <1>1, <1>2, <1>3, <1>4, <1>5, <1>6, <1>7, <1>8, <1>9, <1>10, <1>11
     DEF Next, Continue, Lifecycle!Next

\* PtRegisterDevice and PtDeregisterDevice, with their lock, counter and state
\* word, behave like the abstract control device.
THEOREM RefinesLifecycle == Spec => Lifecycle!Init /\ [][Lifecycle!Next]_(Lifecycle!vars)
<1>1. QED
  BY InitLifecycle, StepLifecycle, Invariance, PTL DEF Spec
==============================================================================
