----------------------- MODULE AdapterLifecycle_proofs -----------------------
(***************************************************************************)
(* Theorems about AdapterLifecycle, for any finite set of adapters.         *)
(*                                                                          *)
(* What is shown of one adapter needs nothing of another, except where they *)
(* meet at the control device.  Consistent(a) says for every pair of places *)
(* its two threads may stand at what the fields of the ADAPT structure are; *)
(* of the control device the invariant of ControlDevice_proofs is used.     *)
(***************************************************************************)
EXTENDS AdapterLifecycle, TLAPS

DeviceProofs == INSTANCE ControlDevice_proofs

\* Where the thread of the miniport may be, given the instance.
MiniAgrees(a) ==
    /\ instance[a] = "starting" <=>
          mini[a] \in {"init", "registering", "clearing", "signalling", "counting"}
    /\ instance[a] = "halting" <=>
          mini[a] \in {"deregistering", "closing", "closed", "leaving"}

\* Where the thread of the binding may be, given the instance and its handle:
\* PtUnbindAdapter goes on only with an instance that is cancelled, has failed,
\* or has its handle to be seen.
Over == {"cancelled", "failed"}
BindAgrees(a) ==
    /\ instance[a] = "none" <=> bnd[a] \in {"idle", "leaked", "opening", "referencing"}
    /\ bnd[a] \in {"initing", "dereferencing", "bound"} => instance[a] # "cancelled"
    /\ bnd[a] = "failing" => instance[a] \in Over \cup {"halted"}
    /\ bnd[a] \in {"closing", "closed"} => instance[a] \in Over
    /\ bnd[a] \in {"unbinding", "cancelling", "waiting"} =>
          instance[a] \notin {"cancelled", "halting", "halted"}
    /\ bnd[a] = "waiting" => instance[a] # "pending"
    /\ bnd[a] = "deciding" =>
          instance[a] \in Over \cup {"up"} \/ mini[a] \in {"signalling", "counting"}
    /\ bnd[a] = "deinit" =>
          \/ instance[a] \in {"up", "halting", "halted"}
          \/ mini[a] \in {"signalling", "counting"} /\ MiniportHandle[a]
    /\ bnd[a] \in {"closeBelow", "freeing"} => instance[a] \in Over \/ SignallingFailure(a)
    /\ bnd[a] = "done" => instance[a] \in Over \cup {"halted"} \/ SignallingFailure(a)

\* What MPInitialize and MPHalt have written.
FlagsAgree(a) ==
    /\ instance[a] = "up" \/ mini[a] \in {"registering", "counting"} => MiniportHandle[a]
    /\ MiniportHandle[a] => instance[a] = "up" \/ mini[a] \in
          {"registering", "clearing", "signalling", "counting"}
    /\ listed[a] <=> MiniportHandle[a]
    /\ instance[a] = "pending" \/ mini[a] \in {"init", "registering", "clearing"}
          => MiniportInitPending[a]
    /\ instance[a] \in {"up", "failed"} \/ mini[a] \in {"signalling", "counting"}
          => ~MiniportInitPending[a]
    /\ MiniportInitEvent[a] <=> (instance[a] \in {"failed", "up", "halting", "halted"}
                                  \/ mini[a] = "counting")
    /\ MiniportIsHalted[a] <=> (instance[a] \in {"halting", "halted"})

\* The binding below is open as long as nobody has closed it.
BindingAgrees(a) ==
    /\ BindingHandle[a] <=>
          /\ bnd[a] \notin {"idle", "leaked", "opening", "closed", "freeing", "done"}
          /\ instance[a] # "halted" /\ mini[a] # "leaving"
    /\ open[a] <=> (BindingHandle[a] /\ mini[a] # "closed")

\* The structure is there from PtBindAdapter until the last reference.
MemoryAgrees(a) ==
    memory[a] = IF bnd[a] = "idle" THEN "none"
                ELSE IF bnd[a] = "done" \/ (bnd[a] \in {"bound", "deinit"} /\ instance[a] = "halted")
                     THEN "freed" ELSE "allocated"

CountAgrees(a) ==
    memory[a] # "freed" =>
        RefCount[a] = One(BindingRef(a)) + One(CallRef(a)) + One(MiniportRef(a))

Consistent(a) == /\ MiniAgrees(a) /\ BindAgrees(a) /\ FlagsAgree(a)
                 /\ BindingAgrees(a) /\ MemoryAgrees(a) /\ CountAgrees(a)

FieldTypes ==
    /\ RefCount \in [Adapters -> Nat]
    /\ MiniportInitPending \in [Adapters -> BOOLEAN]
    /\ MiniportIsHalted \in [Adapters -> BOOLEAN]
    /\ MiniportHandle \in [Adapters -> BOOLEAN]
    /\ BindingHandle \in [Adapters -> BOOLEAN]
    /\ MiniportInitEvent \in [Adapters -> BOOLEAN]
    /\ listed \in [Adapters -> BOOLEAN]
    /\ open \in [Adapters -> BOOLEAN]
    /\ memory \in [Adapters -> {"none", "allocated", "freed"}]
    /\ instance \in [Adapters -> Instances]
    /\ bnd \in [Adapters -> BindPlaces]
    /\ mini \in [Adapters -> MiniPlaces]

LifeInv == FieldTypes /\ \A a \in Adapters : Consistent(a)

IInv == LifeInv /\ DeviceProofs!IInv

------------------------------------------------------------------------------
Same(a) ==
    /\ RefCount'[a] = RefCount[a] /\ MiniportInitPending'[a] = MiniportInitPending[a]
    /\ MiniportIsHalted'[a] = MiniportIsHalted[a] /\ MiniportHandle'[a] = MiniportHandle[a]
    /\ BindingHandle'[a] = BindingHandle[a] /\ MiniportInitEvent'[a] = MiniportInitEvent[a]
    /\ listed'[a] = listed[a] /\ open'[a] = open[a] /\ memory'[a] = memory[a]
    /\ instance'[a] = instance[a] /\ bnd'[a] = bnd[a] /\ mini'[a] = mini[a]

\* A step for a changes nothing of another adapter and keeps the types.
OnlyFor(a) == FieldTypes' /\ \A b \in Adapters \ {a} : Same(b)

\* An adapter nothing of which changes stays consistent.
LEMMA SameStays ==
  ASSUME NEW a \in Adapters, Consistent(a), Same(a)
  PROVE  Consistent(a)'
  BY DEF Consistent, MiniAgrees, BindAgrees, FlagsAgree, BindingAgrees, MemoryAgrees,
     CountAgrees, BindingRef, CallRef, MiniportRef, One, SignallingFailure, Over, Same

\* It is enough to look at the adapter that a step is for.
LEMMA OneAdapter ==
  ASSUME LifeInv, NEW a \in Adapters, OnlyFor(a), Consistent(a)'
  PROVE  LifeInv'
  BY SameStays DEF LifeInv, OnlyFor

\* PtBindAdapter.
LEMMA BindHolds ==
  ASSUME LifeInv, NEW a \in Adapters,
         \/ BindStart(a) \/ OpenFails(a) \/ OpenAdapter(a) \/ AskForInstance(a)
         \/ InstanceGranted(a) \/ InstanceRefused(a) \/ BindEnds(a) \/ BindFails(a)
         \/ BindCloses(a) \/ BindReleases(a)
  PROVE  LifeInv'
  <1> USE DEF fields, GoBind, GoMini, GoInstance, PtReferenceAdapt, PtDereferenceAdapt
  <1> SUFFICES OnlyFor(a) /\ Consistent(a)'
    BY OneAdapter
  <1>0. FieldTypes /\ Consistent(a)
    BY DEF LifeInv
  <1>1. CASE BindStart(a)
    <2>1. OnlyFor(a)
      BY <1>0, <1>1 DEF BindStart, OnlyFor, Same,
       FieldTypes, Instances, BindPlaces, MiniPlaces
    <2>2. Consistent(a)'
      BY <1>0, <1>1 DEF BindStart, FieldTypes,
       Consistent, MiniAgrees, BindAgrees, FlagsAgree, BindingAgrees, MemoryAgrees, CountAgrees,
       BindingRef, CallRef, MiniportRef, One, SignallingFailure, Over
    <2> QED
      BY <2>1, <2>2
  <1>2. CASE OpenFails(a)
    <2>1. OnlyFor(a)
      BY <1>0, <1>2 DEF OpenFails, OnlyFor, Same,
       FieldTypes, Instances, BindPlaces, MiniPlaces
    <2>2. Consistent(a)'
      BY <1>0, <1>2 DEF OpenFails, FieldTypes,
       Consistent, MiniAgrees, BindAgrees, FlagsAgree, BindingAgrees, MemoryAgrees, CountAgrees,
       BindingRef, CallRef, MiniportRef, One, SignallingFailure, Over
    <2> QED
      BY <2>1, <2>2
  <1>3. CASE OpenAdapter(a)
    <2>1. OnlyFor(a)
      BY <1>0, <1>3 DEF OpenAdapter, OnlyFor, Same,
       FieldTypes, Instances, BindPlaces, MiniPlaces
    <2>2. Consistent(a)'
      BY <1>0, <1>3 DEF OpenAdapter, FieldTypes,
       Consistent, MiniAgrees, BindAgrees, FlagsAgree, BindingAgrees, MemoryAgrees, CountAgrees,
       BindingRef, CallRef, MiniportRef, One, SignallingFailure, Over
    <2> QED
      BY <2>1, <2>2
  <1>4. CASE AskForInstance(a)
    <2>1. OnlyFor(a)
      BY <1>0, <1>4 DEF AskForInstance, OnlyFor, Same,
       FieldTypes, Instances, BindPlaces, MiniPlaces
    <2>2. Consistent(a)'
      BY <1>0, <1>4 DEF AskForInstance, FieldTypes,
       Consistent, MiniAgrees, BindAgrees, FlagsAgree, BindingAgrees, MemoryAgrees, CountAgrees,
       BindingRef, CallRef, MiniportRef, One, SignallingFailure, Over
    <2> QED
      BY <2>1, <2>2
  <1>5. CASE InstanceGranted(a)
    <2>1. OnlyFor(a)
      BY <1>0, <1>5 DEF InstanceGranted, OnlyFor, Same,
       FieldTypes, Instances, BindPlaces, MiniPlaces
    <2>2. Consistent(a)'
      BY <1>0, <1>5 DEF InstanceGranted, FieldTypes,
       Consistent, MiniAgrees, BindAgrees, FlagsAgree, BindingAgrees, MemoryAgrees, CountAgrees,
       BindingRef, CallRef, MiniportRef, One, SignallingFailure, Over
    <2> QED
      BY <2>1, <2>2
  <1>6. CASE InstanceRefused(a)
    <2>1. OnlyFor(a)
      BY <1>0, <1>6 DEF InstanceRefused, OnlyFor, Same,
       FieldTypes, Instances, BindPlaces, MiniPlaces
    <2>2. Consistent(a)'
      BY <1>0, <1>6 DEF InstanceRefused, FieldTypes,
       Consistent, MiniAgrees, BindAgrees, FlagsAgree, BindingAgrees, MemoryAgrees, CountAgrees,
       BindingRef, CallRef, MiniportRef, One, SignallingFailure, Over
    <2> QED
      BY <2>1, <2>2
  <1>7. CASE BindEnds(a)
    <2>0. RefCount[a] > 0
      BY <1>0, <1>7 DEF BindEnds, FieldTypes,
       Consistent, MiniAgrees, BindAgrees, FlagsAgree, BindingAgrees, MemoryAgrees, CountAgrees,
       BindingRef, CallRef, MiniportRef, One, SignallingFailure, Over
    <2>1. OnlyFor(a)
      BY <1>0, <1>7, <2>0 DEF BindEnds, OnlyFor, Same,
       FieldTypes, Instances, BindPlaces, MiniPlaces
    <2>2. Consistent(a)'
      BY <1>0, <1>7 DEF BindEnds, FieldTypes,
       Consistent, MiniAgrees, BindAgrees, FlagsAgree, BindingAgrees, MemoryAgrees, CountAgrees,
       BindingRef, CallRef, MiniportRef, One, SignallingFailure, Over
    <2> QED
      BY <2>1, <2>2
  <1>8. CASE BindFails(a)
    <2>0. RefCount[a] > 0
      BY <1>0, <1>8 DEF BindFails, FieldTypes,
       Consistent, MiniAgrees, BindAgrees, FlagsAgree, BindingAgrees, MemoryAgrees, CountAgrees,
       BindingRef, CallRef, MiniportRef, One, SignallingFailure, Over
    <2>1. OnlyFor(a)
      BY <1>0, <1>8, <2>0 DEF BindFails, NoCleanUpNeeded, OnlyFor, Same,
       FieldTypes, Instances, BindPlaces, MiniPlaces
    <2>2. Consistent(a)'
      BY <1>0, <1>8 DEF BindFails, NoCleanUpNeeded, FieldTypes,
       Consistent, MiniAgrees, BindAgrees, FlagsAgree, BindingAgrees, MemoryAgrees, CountAgrees,
       BindingRef, CallRef, MiniportRef, One, SignallingFailure, Over
    <2> QED
      BY <2>1, <2>2
  <1>9. CASE BindCloses(a)
    <2>1. OnlyFor(a)
      BY <1>0, <1>9 DEF BindCloses, OnlyFor, Same,
       FieldTypes, Instances, BindPlaces, MiniPlaces
    <2>2. Consistent(a)'
      BY <1>0, <1>9 DEF BindCloses, FieldTypes,
       Consistent, MiniAgrees, BindAgrees, FlagsAgree, BindingAgrees, MemoryAgrees, CountAgrees,
       BindingRef, CallRef, MiniportRef, One, SignallingFailure, Over
    <2> QED
      BY <2>1, <2>2
  <1>10. CASE BindReleases(a)
    <2>0. RefCount[a] > 0
      BY <1>0, <1>10 DEF BindReleases, FieldTypes,
       Consistent, MiniAgrees, BindAgrees, FlagsAgree, BindingAgrees, MemoryAgrees, CountAgrees,
       BindingRef, CallRef, MiniportRef, One, SignallingFailure, Over
    <2>1. OnlyFor(a)
      BY <1>0, <1>10, <2>0 DEF BindReleases, OnlyFor, Same,
       FieldTypes, Instances, BindPlaces, MiniPlaces
    <2>2. Consistent(a)'
      BY <1>0, <1>10 DEF BindReleases, FieldTypes,
       Consistent, MiniAgrees, BindAgrees, FlagsAgree, BindingAgrees, MemoryAgrees, CountAgrees,
       BindingRef, CallRef, MiniportRef, One, SignallingFailure, Over
    <2> QED
      BY <2>1, <2>2
  <1> QED
    BY <1>1, <1>2, <1>3, <1>4, <1>5, <1>6, <1>7, <1>8, <1>9, <1>10

\* PtUnbindAdapter.
LEMMA UnbindHolds ==
  ASSUME LifeInv, NEW a \in Adapters,
         \/ UnbindStart(a) \/ ReadPending(a) \/ CancelSucceeds(a) \/ CancelFails(a)
         \/ InitEventSeen(a) \/ ReadMiniportHandle(a) \/ DeinitReturns(a) \/ UnbindCloses(a)
         \/ UnbindFrees(a)
  PROVE  LifeInv'
  <1> USE DEF fields, GoBind, GoMini, GoInstance, PtReferenceAdapt, PtDereferenceAdapt
  <1> SUFFICES OnlyFor(a) /\ Consistent(a)'
    BY OneAdapter
  <1>0. FieldTypes /\ Consistent(a)
    BY DEF LifeInv
  <1>1. CASE UnbindStart(a)
    <2>1. OnlyFor(a)
      BY <1>0, <1>1 DEF UnbindStart, OnlyFor, Same,
       FieldTypes, Instances, BindPlaces, MiniPlaces
    <2>2. Consistent(a)'
      BY <1>0, <1>1 DEF UnbindStart, FieldTypes,
       Consistent, MiniAgrees, BindAgrees, FlagsAgree, BindingAgrees, MemoryAgrees, CountAgrees,
       BindingRef, CallRef, MiniportRef, One, SignallingFailure, Over
    <2> QED
      BY <2>1, <2>2
  <1>2. CASE ReadPending(a)
    <2>1. OnlyFor(a)
      BY <1>0, <1>2 DEF ReadPending, OnlyFor, Same,
       FieldTypes, Instances, BindPlaces, MiniPlaces
    <2>2. Consistent(a)'
      <3> USE <1>0, <1>2 DEF ReadPending, FieldTypes, Consistent
      <3>1. MiniAgrees(a)'
        BY DEF MiniAgrees, BindAgrees
      <3>2. BindAgrees(a)'
        <4>1. CASE MiniportInitPending[a]
          BY <4>1 DEF MiniAgrees, BindAgrees, FlagsAgree, SignallingFailure, Over
        <4>2. CASE ~MiniportInitPending[a]
          BY <4>2 DEF MiniAgrees, BindAgrees, FlagsAgree, SignallingFailure, Over, Instances,
             MiniPlaces
        <4> QED
          BY <4>1, <4>2
      <3>3. FlagsAgree(a)'
        BY DEF MiniAgrees, FlagsAgree, BindAgrees
      <3>4. BindingAgrees(a)'
        BY DEF MiniAgrees, BindAgrees, BindingAgrees
      <3>5. MemoryAgrees(a)'
        BY DEF MiniAgrees, BindAgrees, MemoryAgrees, CountAgrees,
         BindingAgrees, BindingRef, CallRef, MiniportRef, One
      <3>6. CountAgrees(a)'
        BY DEF MiniAgrees, BindAgrees, BindingAgrees, MemoryAgrees, CountAgrees,
         BindingRef, CallRef, MiniportRef, One
      <3> QED
        BY <3>1, <3>2, <3>3, <3>4, <3>5, <3>6
    <2> QED
      BY <2>1, <2>2
  <1>3. CASE CancelSucceeds(a)
    <2>1. OnlyFor(a)
      BY <1>0, <1>3 DEF CancelSucceeds, OnlyFor, Same,
       FieldTypes, Instances, BindPlaces, MiniPlaces
    <2>2. Consistent(a)'
      BY <1>0, <1>3 DEF CancelSucceeds, FieldTypes,
       Consistent, MiniAgrees, BindAgrees, FlagsAgree, BindingAgrees, MemoryAgrees, CountAgrees,
       BindingRef, CallRef, MiniportRef, One, SignallingFailure, Over
    <2> QED
      BY <2>1, <2>2
  <1>4. CASE CancelFails(a)
    <2>1. OnlyFor(a)
      BY <1>0, <1>4 DEF CancelFails, AfterFailedCancel, OnlyFor, Same,
       FieldTypes, Instances, BindPlaces, MiniPlaces
    <2>2. Consistent(a)'
      BY <1>0, <1>4 DEF CancelFails, AfterFailedCancel, FieldTypes,
       Consistent, MiniAgrees, BindAgrees, FlagsAgree, BindingAgrees, MemoryAgrees, CountAgrees,
       BindingRef, CallRef, MiniportRef, One, SignallingFailure, Over
    <2> QED
      BY <2>1, <2>2
  <1>5. CASE InitEventSeen(a)
    <2>1. OnlyFor(a)
      BY <1>0, <1>5 DEF InitEventSeen, OnlyFor, Same,
       FieldTypes, Instances, BindPlaces, MiniPlaces
    <2>2. Consistent(a)'
      BY <1>0, <1>5 DEF InitEventSeen, FieldTypes,
       Consistent, MiniAgrees, BindAgrees, FlagsAgree, BindingAgrees, MemoryAgrees, CountAgrees,
       BindingRef, CallRef, MiniportRef, One, SignallingFailure, Over
    <2> QED
      BY <2>1, <2>2
  <1>6. CASE ReadMiniportHandle(a)
    <2>1. OnlyFor(a)
      BY <1>0, <1>6 DEF ReadMiniportHandle, OnlyFor, Same,
       FieldTypes, Instances, BindPlaces, MiniPlaces
    <2>2. Consistent(a)'
      BY <1>0, <1>6 DEF ReadMiniportHandle, FieldTypes,
       Consistent, MiniAgrees, BindAgrees, FlagsAgree, BindingAgrees, MemoryAgrees, CountAgrees,
       BindingRef, CallRef, MiniportRef, One, SignallingFailure, Over
    <2> QED
      BY <2>1, <2>2
  <1>7. CASE DeinitReturns(a)
    <2>1. OnlyFor(a)
      BY <1>0, <1>7 DEF DeinitReturns, OnlyFor, Same,
       FieldTypes, Instances, BindPlaces, MiniPlaces
    <2>2. Consistent(a)'
      BY <1>0, <1>7 DEF DeinitReturns, FieldTypes,
       Consistent, MiniAgrees, BindAgrees, FlagsAgree, BindingAgrees, MemoryAgrees, CountAgrees,
       BindingRef, CallRef, MiniportRef, One, SignallingFailure, Over
    <2> QED
      BY <2>1, <2>2
  <1>8. CASE UnbindCloses(a)
    <2>1. OnlyFor(a)
      BY <1>0, <1>8 DEF UnbindCloses, OnlyFor, Same,
       FieldTypes, Instances, BindPlaces, MiniPlaces
    <2>2. Consistent(a)'
      BY <1>0, <1>8 DEF UnbindCloses, FieldTypes,
       Consistent, MiniAgrees, BindAgrees, FlagsAgree, BindingAgrees, MemoryAgrees, CountAgrees,
       BindingRef, CallRef, MiniportRef, One, SignallingFailure, Over
    <2> QED
      BY <2>1, <2>2
  <1>9. CASE UnbindFrees(a)
    <2>1. OnlyFor(a)
      BY <1>0, <1>9 DEF UnbindFrees, OnlyFor, Same,
       FieldTypes, Instances, BindPlaces, MiniPlaces
    <2>2. Consistent(a)'
      BY <1>0, <1>9 DEF UnbindFrees, FieldTypes,
       Consistent, MiniAgrees, BindAgrees, FlagsAgree, BindingAgrees, MemoryAgrees, CountAgrees,
       BindingRef, CallRef, MiniportRef, One, SignallingFailure, Over
    <2> QED
      BY <2>1, <2>2
  <1> QED
    BY <1>1, <1>2, <1>3, <1>4, <1>5, <1>6, <1>7, <1>8, <1>9

\* MPInitialize.
LEMMA InitializeHolds ==
  ASSUME LifeInv, NEW a \in Adapters,
         \/ InitializeStart(a) \/ MediumUnsupported(a) \/ SetUpMiniport(a) \/ RegisterDevice(a)
         \/ ClearPending(a) \/ SignalInitEvent(a) \/ InitializeEnds(a)
  PROVE  LifeInv'
  <1> USE DEF fields, GoBind, GoMini, GoInstance, PtReferenceAdapt, PtDereferenceAdapt
  <1> SUFFICES OnlyFor(a) /\ Consistent(a)'
    BY OneAdapter
  <1>0. FieldTypes /\ Consistent(a)
    BY DEF LifeInv
  <1>1. CASE InitializeStart(a)
    <2>1. OnlyFor(a)
      BY <1>0, <1>1 DEF InitializeStart, OnlyFor, Same,
       FieldTypes, Instances, BindPlaces, MiniPlaces
    <2>2. Consistent(a)'
      BY <1>0, <1>1 DEF InitializeStart, FieldTypes,
       Consistent, MiniAgrees, BindAgrees, FlagsAgree, BindingAgrees, MemoryAgrees, CountAgrees,
       BindingRef, CallRef, MiniportRef, One, SignallingFailure, Over
    <2> QED
      BY <2>1, <2>2
  <1>2. CASE MediumUnsupported(a)
    <2>1. OnlyFor(a)
      BY <1>0, <1>2 DEF MediumUnsupported, OnlyFor, Same,
       FieldTypes, Instances, BindPlaces, MiniPlaces
    <2>2. Consistent(a)'
      BY <1>0, <1>2 DEF MediumUnsupported, FieldTypes,
       Consistent, MiniAgrees, BindAgrees, FlagsAgree, BindingAgrees, MemoryAgrees, CountAgrees,
       BindingRef, CallRef, MiniportRef, One, SignallingFailure, Over
    <2> QED
      BY <2>1, <2>2
  <1>3. CASE SetUpMiniport(a)
    <2>1. OnlyFor(a)
      BY <1>0, <1>3 DEF SetUpMiniport, OnlyFor, Same,
       FieldTypes, Instances, BindPlaces, MiniPlaces
    <2>2. Consistent(a)'
      BY <1>0, <1>3 DEF SetUpMiniport, FieldTypes,
       Consistent, MiniAgrees, BindAgrees, FlagsAgree, BindingAgrees, MemoryAgrees, CountAgrees,
       BindingRef, CallRef, MiniportRef, One, SignallingFailure, Over
    <2> QED
      BY <2>1, <2>2
  <1>4. CASE RegisterDevice(a)
    <2>1. OnlyFor(a)
      BY <1>0, <1>4 DEF RegisterDevice, OnlyFor, Same,
       FieldTypes, Instances, BindPlaces, MiniPlaces
    <2>2. Consistent(a)'
      BY <1>0, <1>4 DEF RegisterDevice, FieldTypes,
       Consistent, MiniAgrees, BindAgrees, FlagsAgree, BindingAgrees, MemoryAgrees, CountAgrees,
       BindingRef, CallRef, MiniportRef, One, SignallingFailure, Over
    <2> QED
      BY <2>1, <2>2
  <1>5. CASE ClearPending(a)
    <2>1. OnlyFor(a)
      BY <1>0, <1>5 DEF ClearPending, OnlyFor, Same,
       FieldTypes, Instances, BindPlaces, MiniPlaces
    <2>2. Consistent(a)'
      BY <1>0, <1>5 DEF ClearPending, FieldTypes,
       Consistent, MiniAgrees, BindAgrees, FlagsAgree, BindingAgrees, MemoryAgrees, CountAgrees,
       BindingRef, CallRef, MiniportRef, One, SignallingFailure, Over
    <2> QED
      BY <2>1, <2>2
  <1>6. CASE SignalInitEvent(a)
    <2>1. OnlyFor(a)
      BY <1>0, <1>6 DEF SignalInitEvent, OnlyFor, Same,
       FieldTypes, Instances, BindPlaces, MiniPlaces
    <2>2. Consistent(a)'
      BY <1>0, <1>6 DEF SignalInitEvent, FieldTypes,
       Consistent, MiniAgrees, BindAgrees, FlagsAgree, BindingAgrees, MemoryAgrees, CountAgrees,
       BindingRef, CallRef, MiniportRef, One, SignallingFailure, Over
    <2> QED
      BY <2>1, <2>2
  <1>7. CASE InitializeEnds(a)
    <2>1. OnlyFor(a)
      BY <1>0, <1>7 DEF InitializeEnds, OnlyFor, Same,
       FieldTypes, Instances, BindPlaces, MiniPlaces
    <2>2. Consistent(a)'
      BY <1>0, <1>7 DEF InitializeEnds, FieldTypes,
       Consistent, MiniAgrees, BindAgrees, FlagsAgree, BindingAgrees, MemoryAgrees, CountAgrees,
       BindingRef, CallRef, MiniportRef, One, SignallingFailure, Over
    <2> QED
      BY <2>1, <2>2
  <1> QED
    BY <1>1, <1>2, <1>3, <1>4, <1>5, <1>6, <1>7

\* MPHalt.
LEMMA HaltHolds ==
  ASSUME LifeInv, NEW a \in Adapters,
         \/ HaltForUnbind(a) \/ HaltByNdis(a) \/ DeregisterDevice(a) \/ HaltCloses(a)
         \/ HaltUnbinds(a) \/ HaltEnds(a)
  PROVE  LifeInv'
  <1> USE DEF fields, GoBind, GoMini, GoInstance, PtReferenceAdapt, PtDereferenceAdapt
  <1> SUFFICES OnlyFor(a) /\ Consistent(a)'
    BY OneAdapter
  <1>0. FieldTypes /\ Consistent(a)
    BY DEF LifeInv
  <1>1. CASE HaltForUnbind(a)
    <2>1. OnlyFor(a)
      BY <1>0, <1>1 DEF HaltForUnbind, HaltStart, OnlyFor, Same,
       FieldTypes, Instances, BindPlaces, MiniPlaces
    <2>2. Consistent(a)'
      BY <1>0, <1>1 DEF HaltForUnbind, HaltStart, FieldTypes,
       Consistent, MiniAgrees, BindAgrees, FlagsAgree, BindingAgrees, MemoryAgrees, CountAgrees,
       BindingRef, CallRef, MiniportRef, One, SignallingFailure, Over
    <2> QED
      BY <2>1, <2>2
  <1>2. CASE HaltByNdis(a)
    <2>1. OnlyFor(a)
      BY <1>0, <1>2 DEF HaltByNdis, HaltStart, OnlyFor, Same,
       FieldTypes, Instances, BindPlaces, MiniPlaces
    <2>2. Consistent(a)'
      BY <1>0, <1>2 DEF HaltByNdis, HaltStart, FieldTypes,
       Consistent, MiniAgrees, BindAgrees, FlagsAgree, BindingAgrees, MemoryAgrees, CountAgrees,
       BindingRef, CallRef, MiniportRef, One, SignallingFailure, Over
    <2> QED
      BY <2>1, <2>2
  <1>3. CASE DeregisterDevice(a)
    <2>1. OnlyFor(a)
      BY <1>0, <1>3 DEF DeregisterDevice, OnlyFor, Same,
       FieldTypes, Instances, BindPlaces, MiniPlaces
    <2>2. Consistent(a)'
      BY <1>0, <1>3 DEF DeregisterDevice, FieldTypes,
       Consistent, MiniAgrees, BindAgrees, FlagsAgree, BindingAgrees, MemoryAgrees, CountAgrees,
       BindingRef, CallRef, MiniportRef, One, SignallingFailure, Over
    <2> QED
      BY <2>1, <2>2
  <1>4. CASE HaltCloses(a)
    <2>1. OnlyFor(a)
      BY <1>0, <1>4 DEF HaltCloses, OnlyFor, Same,
       FieldTypes, Instances, BindPlaces, MiniPlaces
    <2>2. Consistent(a)'
      BY <1>0, <1>4 DEF HaltCloses, FieldTypes,
       Consistent, MiniAgrees, BindAgrees, FlagsAgree, BindingAgrees, MemoryAgrees, CountAgrees,
       BindingRef, CallRef, MiniportRef, One, SignallingFailure, Over
    <2> QED
      BY <2>1, <2>2
  <1>5. CASE HaltUnbinds(a)
    <2>0. RefCount[a] > 0
      BY <1>0, <1>5 DEF HaltUnbinds, FieldTypes,
       Consistent, MiniAgrees, BindAgrees, FlagsAgree, BindingAgrees, MemoryAgrees, CountAgrees,
       BindingRef, CallRef, MiniportRef, One, SignallingFailure, Over
    <2>1. OnlyFor(a)
      BY <1>0, <1>5, <2>0 DEF HaltUnbinds, OnlyFor, Same,
       FieldTypes, Instances, BindPlaces, MiniPlaces
    <2>2. Consistent(a)'
      BY <1>0, <1>5 DEF HaltUnbinds, FieldTypes,
       Consistent, MiniAgrees, BindAgrees, FlagsAgree, BindingAgrees, MemoryAgrees, CountAgrees,
       BindingRef, CallRef, MiniportRef, One, SignallingFailure, Over
    <2> QED
      BY <2>1, <2>2
  <1>6. CASE HaltEnds(a)
    <2>0. RefCount[a] > 0
      BY <1>0, <1>6 DEF HaltEnds, FieldTypes,
       Consistent, MiniAgrees, BindAgrees, FlagsAgree, BindingAgrees, MemoryAgrees, CountAgrees,
       BindingRef, CallRef, MiniportRef, One, SignallingFailure, Over
    <2>1. OnlyFor(a)
      BY <1>0, <1>6, <2>0 DEF HaltEnds, OnlyFor, Same,
       FieldTypes, Instances, BindPlaces, MiniPlaces
    <2>2. Consistent(a)'
      <3> USE <1>0, <1>6 DEF HaltEnds, FieldTypes, Consistent
      <3>1. MiniAgrees(a)'
        BY DEF MiniAgrees, BindAgrees
      <3>2. BindAgrees(a)'
        BY DEF MiniAgrees, BindAgrees, FlagsAgree, SignallingFailure, Over
      <3>3. FlagsAgree(a)'
        BY DEF MiniAgrees, FlagsAgree, BindAgrees
      <3>4. BindingAgrees(a)'
        BY DEF MiniAgrees, BindAgrees, BindingAgrees
      <3>5. MemoryAgrees(a)'
        <4>1. bnd[a] \in {"initing", "dereferencing", "bound", "deinit"}
          BY DEF MiniAgrees, BindAgrees, SignallingFailure, Over, BindPlaces
        <4>2. memory[a] = "allocated" /\ MiniportRef(a) /\ ~BindingRef(a)
          BY <4>1 DEF MemoryAgrees, MiniportRef, MiniAgrees, BindingRef, BindingAgrees
        <4>3. RefCount[a] = IF bnd[a] \in {"initing", "dereferencing"} THEN 2 ELSE 1
          BY <4>1, <4>2 DEF CountAgrees, CallRef, One
        <4> QED
          BY <4>1, <4>2, <4>3 DEF MemoryAgrees, MiniAgrees
      <3>6. CountAgrees(a)'
        BY DEF MiniAgrees, BindAgrees, BindingAgrees, MemoryAgrees, CountAgrees,
         BindingRef, CallRef, MiniportRef, One
      <3> QED
        BY <3>1, <3>2, <3>3, <3>4, <3>5, <3>6
    <2> QED
      BY <2>1, <2>2
  <1> QED
    BY <1>1, <1>2, <1>3, <1>4, <1>5, <1>6

------------------------------------------------------------------------------
\* The life begins with no structure at all.
LEMMA InitHolds == Init => LifeInv
  <1> SUFFICES ASSUME Init PROVE LifeInv
    OBVIOUS
  <1> USE DEF Init, All
  <1>1. FieldTypes
    BY DEF FieldTypes, Instances, BindPlaces, MiniPlaces
  <1>2. ASSUME NEW a \in Adapters PROVE Consistent(a)
    BY DEF Consistent, MiniAgrees, BindAgrees, FlagsAgree, BindingAgrees, MemoryAgrees,
       CountAgrees, BindingRef, CallRef, MiniportRef, One, SignallingFailure, Over
  <1> QED
    BY <1>1, <1>2 DEF LifeInv

\* Every step of the four routines keeps each adapter consistent.
LEMMA NextHolds == LifeInv /\ [Next]_vars => LifeInv'
  <1> SUFFICES ASSUME LifeInv, [Next]_vars PROVE LifeInv'
    OBVIOUS
  <1>1. CASE UNCHANGED vars
    <2>1. \A a \in Adapters : Same(a)
      BY <1>1 DEF vars, life, fields, Same
    <2>2. FieldTypes'
      BY <1>1 DEF vars, life, fields, LifeInv, FieldTypes
    <2> QED
      BY <2>1, <2>2, SameStays DEF LifeInv
  <1>2. ASSUME NEW a \in Adapters, BindStart(a) \/ BindStep(a) PROVE LifeInv'
    BY <1>2, BindHolds DEF BindStep
  <1>3. ASSUME NEW a \in Adapters, UnbindStart(a) \/ UnbindStep(a) PROVE LifeInv'
    BY <1>3, UnbindHolds DEF UnbindStep
  <1>4. ASSUME NEW a \in Adapters, InitializeStart(a) \/ HaltByNdis(a) \/ MiniStep(a)
        PROVE LifeInv'
    BY <1>4, InitializeHolds, HaltHolds DEF MiniStep
  <1> QED
    BY <1>1, <1>2, <1>3, <1>4 DEF Next

\* A step of MPInitialize or MPHalt is a step of PtRegisterDevice or
\* PtDeregisterDevice, or leaves the control device alone; no other touches it.
LEMMA DeviceStep == [Next]_vars => [Device!Next]_(Device!vars)
  <1> SUFFICES ASSUME [Next]_vars PROVE [Device!Next]_(Device!vars)
    OBVIOUS
  <1> USE DEF Device!vars, deviceVars
  <1>1. CASE UNCHANGED vars
    BY <1>1 DEF vars
  <1>2. ASSUME NEW a \in Adapters, RegisterDevice(a) \/ DeregisterDevice(a)
        PROVE Device!Next
    BY <1>2 DEF RegisterDevice, DeregisterDevice, Device!Next, Device!Continue
  <1>3. ASSUME NEW a \in Adapters, BindStart(a) \/ BindStep(a) PROVE UNCHANGED Device!vars
    BY <1>3 DEF BindStep, BindStart, OpenFails, OpenAdapter, AskForInstance, InstanceGranted,
       InstanceRefused, BindEnds, BindFails, BindCloses, BindReleases
  <1>4. ASSUME NEW a \in Adapters, UnbindStart(a) \/ UnbindStep(a)
        PROVE UNCHANGED Device!vars
    BY <1>4 DEF UnbindStep, UnbindStart, ReadPending, CancelSucceeds, CancelFails,
       InitEventSeen, ReadMiniportHandle, DeinitReturns, UnbindCloses, UnbindFrees
  <1>5. ASSUME NEW a \in Adapters, InitializeStart(a) \/ HaltByNdis(a) \/ MiniStep(a),
               ~RegisterDevice(a), ~DeregisterDevice(a)
        PROVE UNCHANGED Device!vars
    BY <1>5 DEF MiniStep, InitializeStart, HaltByNdis, HaltForUnbind, HaltStart,
       MediumUnsupported, SetUpMiniport, ClearPending, SignalInitEvent, InitializeEnds,
       HaltCloses, HaltUnbinds, HaltEnds
  <1> QED
    BY <1>1, <1>2, <1>3, <1>4, <1>5 DEF Next

\* MPInitialize and MPHalt use the control device as ControlDevice says (safety).
THEOREM UsesDevice == Spec => Device!Init /\ [][Device!Next]_(Device!vars)
  <1>1. Init => Device!Init
    BY DEF Init
  <1> QED
    BY <1>1, DeviceStep, PTL DEF Spec

\* ControlDevice_proofs has an IsFiniteSet of its own.
LEMMA Finite == DeviceProofs!IsFiniteSet(Adapters)
  BY AdaptersFinite DEF IsFiniteSet, DeviceProofs!IsFiniteSet

\* And its own names for the same steps.
LEMMA SameNext == [Device!Next]_(Device!vars) => [DeviceProofs!Next]_(DeviceProofs!vars)
  <1> SUFFICES ASSUME NEW a \in Adapters,
                      \/ Device!RegisterAnother(a) \/ Device!RegisterFirst(a)
                      \/ Device!RegisterMustWait(a) \/ Device!DeregisterOne(a)
                      \/ Device!DeregisterLast(a) \/ Device!Continue(a)
               PROVE  DeviceProofs!Next
    BY DEF Device!Next, Device!vars, DeviceProofs!vars
  <1> USE DEF DeviceProofs!Next, DeviceProofs!Continue, Device!Move, DeviceProofs!Move
  <1>1. CASE Device!RegisterAnother(a) \/ Device!RegisterFirst(a) \/ Device!RegisterMustWait(a)
    BY <1>1 DEF Device!RegisterAnother, DeviceProofs!RegisterAnother, Device!RegisterFirst, DeviceProofs!RegisterFirst, Device!RegisterMustWait, DeviceProofs!RegisterMustWait, Device!IsFirst, DeviceProofs!IsFirst, Device!Ready, DeviceProofs!Ready
  <1>2. CASE Device!DeregisterOne(a) \/ Device!DeregisterLast(a)
    BY <1>2 DEF Device!DeregisterOne, DeviceProofs!DeregisterOne, Device!DeregisterLast, DeviceProofs!DeregisterLast, Device!IsLast, DeviceProofs!IsLast
  <1>3. CASE Device!StopWaiting(a)
    BY <1>3 DEF Device!StopWaiting, DeviceProofs!StopWaiting, Device!Ready, DeviceProofs!Ready
  <1>4. CASE Device!NdisMRegisterDevice(a)
    BY <1>4 DEF Device!NdisMRegisterDevice, DeviceProofs!NdisMRegisterDevice
  <1>5. CASE Device!EndRegister(a)
    BY <1>5 DEF Device!EndRegister, DeviceProofs!EndRegister
  <1>6. CASE Device!ReadHandle(a)
    BY <1>6 DEF Device!ReadHandle, DeviceProofs!ReadHandle
  <1>7. CASE Device!NdisMDeregisterDevice(a)
    BY <1>7 DEF Device!NdisMDeregisterDevice, DeviceProofs!NdisMDeregisterDevice
  <1>8. CASE Device!ClearHandle(a)
    BY <1>8 DEF Device!ClearHandle, DeviceProofs!ClearHandle
  <1>9. CASE Device!EndDeregister(a)
    BY <1>9 DEF Device!EndDeregister, DeviceProofs!EndDeregister
  <1> QED
    BY <1>1, <1>2, <1>3, <1>4, <1>5, <1>6, <1>7, <1>8, <1>9 DEF Device!Continue

\* The inductive invariant: every adapter is consistent, and so is the device.
THEOREM Invariance == Spec => []IInv
  <1>1. Init => IInv
    <2>1. Init => DeviceProofs!Init
      BY DEF Init, Device!Init, DeviceProofs!Init
    <2>2. DeviceProofs!Init => DeviceProofs!IInv
      BY Finite, DeviceProofs!InitIInv
    <2> QED
      BY <2>1, <2>2, InitHolds DEF IInv
  <1>2. IInv /\ [Next]_vars => IInv'
    <2>1. DeviceProofs!IInv /\ [DeviceProofs!Next]_(DeviceProofs!vars) => DeviceProofs!IInv'
      BY Finite, DeviceProofs!StepIInv
    <2> QED
      BY <2>1, NextHolds, DeviceStep, SameNext DEF IInv
  <1> QED
    BY <1>1, <1>2, PTL DEF Spec

\* Every variable keeps its type, those of the control device too.
THEOREM TypeCorrect == Spec => []TypeOK
  <1>1. LifeInv => FieldTypes
    BY DEF LifeInv
  <1>2. DeviceProofs!IInv => Device!TypeOK
    BY DEF DeviceProofs!IInv, DeviceProofs!TypeOK, Device!TypeOK, DeviceProofs!Places,
       Device!Places
  <1>3. IInv => TypeOK
    BY <1>1, <1>2 DEF IInv, FieldTypes, TypeOK
  <1> QED
    BY Invariance, <1>3, PTL

\* The reference count is the number of its holders (PtReferenceAdapt,
\* PtDereferenceAdapt).
THEOREM RefCountAlwaysExact == Spec => []RefCountIsExact
  <1>1. IInv => RefCountIsExact
    BY DEF IInv, LifeInv, Consistent, CountAgrees, RefCountIsExact
  <1> QED
    BY Invariance, <1>1, PTL

\* The structure is used only while it is allocated, one place excepted.
THEOREM NeverUsedAfterFree == Spec => []NoUseAfterFree
  <1>1. ASSUME LifeInv, NEW a \in Adapters, Touching(a), ~SignallingFailure(a)
        PROVE  memory[a] = "allocated"
    BY <1>1 DEF LifeInv, FieldTypes, Consistent, MiniAgrees, BindAgrees, MemoryAgrees,
       Touching, SignallingFailure, Over, BindPlaces, MiniPlaces, Instances
  <1>2. IInv => NoUseAfterFree
    BY <1>1 DEF IInv, NoUseAfterFree
  <1> QED
    BY Invariance, <1>2, PTL

\* The binding is closed once, the ASSERTs hold and nothing is left behind
\* (PtBindAdapter, PtUnbindAdapter, MPInitialize, MPHalt).
THEOREM BindingAlwaysCorrect == Spec => []BindingCorrect
  <1> USE DEF LifeInv, FieldTypes, Consistent, MiniAgrees, BindAgrees, Over, SignallingFailure
  <1>1. LifeInv => ClosedOnce
    BY DEF ClosedOnce, BindingAgrees
  <1>2. LifeInv => LifecycleAsserts
    <2>1. ASSUME LifeInv, NEW a \in Adapters,
                 bnd[a] \in {"dereferencing", "failing", "closed"} \/ mini[a] \in {"closed", "leaving"}
          PROVE  RefCount[a] > 0
      BY <2>1 DEF MemoryAgrees, CountAgrees, BindingRef, CallRef, MiniportRef, One
    <2> QED
      BY <2>1 DEF LifecycleAsserts, FlagsAgree
  <1>3. LifeInv => NothingLeftBehind
    BY DEF NothingLeftBehind, FlagsAgree, BindingAgrees, MemoryAgrees
  <1> QED
    BY <1>1, <1>2, <1>3, Invariance, PTL DEF IInv, BindingCorrect

\* Used by MPInitialize and MPHalt the control device stays correct, and so what
\* ControlDevice_proofs shows of it alone holds of the whole.
THEOREM DeviceCorrectInLife == Spec => []DeviceProofs!DeviceCorrect
  <1>1. DeviceProofs!IInv => DeviceProofs!DeviceCorrect
    BY Finite, DeviceProofs!CorrectFollows
  <1> QED
    BY <1>1, Invariance, PTL DEF IInv
==============================================================================
