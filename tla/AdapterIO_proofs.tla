--------------------------- MODULE AdapterIO_proofs ---------------------------
(***************************************************************************)
(* Theorems about AdapterIO, for any finite set of packets, any size of the *)
(* pool and any kinds of request.                                           *)
(*                                                                          *)
(* Core holds whatever NDIS asks for.  That a request is in one pair of     *)
(* hands is inductive with the places the threads can be at; it carries the *)
(* meaning of OutstandingRequests, since the completion that clears the     *)
(* flag is then the only one, and the promise that a queued request is      *)
(* taken out.  The packets are counted apart from that.                     *)
(*                                                                          *)
(* Quiet needs that NDIS never asks for OID_PNP_CAPABILITIES, whose         *)
(* completion declares both edges to be on (the README says what happens    *)
(* otherwise).  It says that the protocol edge stays low from the           *)
(* power-down to the next power-up, so that what was waited for stays away. *)
(***************************************************************************)
EXTENDS AdapterIO, FiniteSetTheorems, TLAPS

\* One pair of hands at most holds the request, some pair does iff it is open.
Alone ==
    /\ \A t, u \in Threads : pc[t] \in Answering /\ pc[u] \in Answering => t = u
    /\ \A t \in Threads : pc[t] \in Answering => ~QueuedRequest /\ ~below
    /\ ~(QueuedRequest /\ below)
    /\ request = "none" <=> /\ \A t \in Threads : pc[t] \notin Answering
                            /\ ~QueuedRequest /\ ~below

\* The places each thread can be at, and what the pnp thread handles there.
WhereThreadsAre ==
    /\ pc["lower"] \in {"idle", "completing", "processing", "answering"}
    /\ pc["miniport"] \in {"idle", "deciding", "setpower", "calling",
                           "completing", "processing", "answering"}
    /\ pc["pnp"] \notin {"deciding", "setpower"}
    /\ pc["pnp"] \in {"calling", "processing"} => event = "D0"
    /\ pc["pnp"] = "locking" => event \in {"D0", "low"}
    /\ pc["pnp"] \in {"drainSends", "drainRequests", "flushing", "asserting"} => event = "low"
    /\ UnbindingInProcess <=> event = "unbind"
    /\ event = "unbind" => pc["pnp"] \in {"completing", "answering", "unbound"}

Core == TypeOK /\ Alone /\ WhereThreadsAre /\ OutstandingMeans /\ QueueIsServed

------------------------------------------------------------------------------
(* The requests.                                                            *)

\* The initial state is idle throughout.
LEMMA InitCore == Init => Core
<1> SUFFICES ASSUME Init PROVE Core
  OBVIOUS
<1>1. TypeOK
  BY DEF Init, TypeOK, Threads, States, Places, SendPlaces
<1>2. Alone /\ WhereThreadsAre
  BY DEF Init, Alone, WhereThreadsAre, Threads, Answering
<1>3. OutstandingMeans /\ QueueIsServed
  BY DEF Init, OutstandingMeans, QueueIsServed, Threads
<1>4. QED
  BY <1>1, <1>2, <1>3 DEF Core

\* Every step of the request threads preserves Core: one step per action,
\* and under it one per conjunct.
LEMMA RequestsKeepCore ==
  ASSUME Core, UNCHANGED sends,
         \/ \E oid \in Oids : BeginRequest(oid)
         \/ \E state \in States : BeginSetPower(state) \/ BeginPowerEvent(state)
         \/ Unbind
         \/ MiniportStep \/ LowerStep \/ PnpStep
  PROVE  Core'
<1> USE DEF Core, power, requests, threads
<1>1. ASSUME NEW oid \in Oids, BeginRequest(oid) PROVE Core'
  <2>1. TypeOK'
    BY <1>1, OidsKnown DEF BeginRequest, TypeOK, Go, Places, Threads, States, sends
  <2>2. Alone'
    BY <1>1, OidsKnown DEF BeginRequest, Alone, TypeOK, Go, Threads, Answering,
       WhereThreadsAre
  <2>3. WhereThreadsAre'
    BY <1>1 DEF BeginRequest, WhereThreadsAre, TypeOK, Go, Threads, States
  <2>4. OutstandingMeans'
    BY <1>1 DEF BeginRequest, OutstandingMeans, Alone, WhereThreadsAre, TypeOK, Go,
       Threads, Answering, Flushing
  <2>5. QueueIsServed'
    BY <1>1 DEF BeginRequest, QueueIsServed, Alone, WhereThreadsAre, TypeOK, Go,
       Threads, Answering
  <2>6. QED
    BY <2>1, <2>2, <2>3, <2>4, <2>5
<1>2. ASSUME QueueRequest PROVE Core'
  <2>1. TypeOK'
    BY <1>2, OidsKnown DEF QueueRequest, MustQueue, TypeOK, Go, Places, Threads,
       States, sends
  <2>2. Alone'
    BY <1>2, OidsKnown DEF QueueRequest, MustQueue, Alone, TypeOK, Go, Threads,
       Answering, WhereThreadsAre
  <2>3. WhereThreadsAre'
    BY <1>2 DEF QueueRequest, MustQueue, WhereThreadsAre, TypeOK, Go, Threads, States
  <2>4. OutstandingMeans'
    BY <1>2 DEF QueueRequest, MustQueue, OutstandingMeans, Alone, WhereThreadsAre,
       TypeOK, Go, Threads, Answering, Flushing
  <2>5. QueueIsServed'
    BY <1>2 DEF QueueRequest, MustQueue, QueueIsServed, Alone, WhereThreadsAre,
       TypeOK, Go, Threads, Answering
  <2>6. QED
    BY <2>1, <2>2, <2>3, <2>4, <2>5
<1>3. ASSUME FailRequest PROVE Core'
  <2>1. TypeOK'
    BY <1>3, OidsKnown DEF FailRequest, TypeOK, Go, Places, Threads, States, sends
  <2>2. Alone'
    BY <1>3, OidsKnown DEF FailRequest, Alone, TypeOK, Go, Threads, Answering,
       WhereThreadsAre
  <2>3. WhereThreadsAre'
    BY <1>3 DEF FailRequest, WhereThreadsAre, TypeOK, Go, Threads, States
  <2>4. OutstandingMeans'
    BY <1>3 DEF FailRequest, OutstandingMeans, Alone, WhereThreadsAre, TypeOK, Go,
       Threads, Answering, Flushing
  <2>5. QueueIsServed'
    BY <1>3 DEF FailRequest, QueueIsServed, Alone, WhereThreadsAre, TypeOK, Go,
       Threads, Answering
  <2>6. QED
    BY <2>1, <2>2, <2>3, <2>4, <2>5
<1>4. ASSUME ForwardRequest PROVE Core'
  <2>1. TypeOK'
    BY <1>4, OidsKnown DEF ForwardRequest, MayForward, TypeOK, Go, Places, Threads,
       States, sends
  <2>2. Alone'
    BY <1>4, OidsKnown DEF ForwardRequest, MayForward, Alone, TypeOK, Go, Threads,
       Answering, WhereThreadsAre
  <2>3. WhereThreadsAre'
    BY <1>4 DEF ForwardRequest, MayForward, WhereThreadsAre, TypeOK, Go, Threads,
       States
  <2>4. OutstandingMeans'
    BY <1>4 DEF ForwardRequest, MayForward, OutstandingMeans, Alone, WhereThreadsAre,
       TypeOK, Go, Threads, Answering, Flushing
  <2>5. QueueIsServed'
    BY <1>4 DEF ForwardRequest, MayForward, QueueIsServed, Alone, WhereThreadsAre,
       TypeOK, Go, Threads, Answering
  <2>6. QED
    BY <2>1, <2>2, <2>3, <2>4, <2>5
<1>5. ASSUME NEW t \in Threads, NdisRequestPends(t) PROVE Core'
  <2>1. TypeOK'
    BY <1>5, OidsKnown DEF NdisRequestPends, TypeOK, Go, Places, Threads, States,
       sends
  <2>2. Alone'
    BY <1>5, OidsKnown DEF NdisRequestPends, Alone, TypeOK, Go, Threads, Answering,
       WhereThreadsAre
  <2>3. WhereThreadsAre'
    BY <1>5 DEF NdisRequestPends, WhereThreadsAre, TypeOK, Go, Threads, States
  <2>4. OutstandingMeans'
    BY <1>5 DEF NdisRequestPends, OutstandingMeans, Alone, WhereThreadsAre, TypeOK,
       Go, Threads, Answering, Flushing
  <2>5. QueueIsServed'
    BY <1>5 DEF NdisRequestPends, QueueIsServed, Alone, WhereThreadsAre, TypeOK, Go,
       Threads, Answering
  <2>6. QED
    BY <2>1, <2>2, <2>3, <2>4, <2>5
<1>6. ASSUME NEW t \in Threads, NdisRequestReturns(t) PROVE Core'
  <2>1. TypeOK'
    BY <1>6, OidsKnown DEF NdisRequestReturns, Flushing, TypeOK, Go, Places, Threads,
       States, sends
  <2>2. Alone'
    BY <1>6, OidsKnown DEF NdisRequestReturns, Flushing, Alone, TypeOK, Go, Threads,
       Answering, WhereThreadsAre
  <2>3. WhereThreadsAre'
    BY <1>6 DEF NdisRequestReturns, Flushing, WhereThreadsAre, TypeOK, Go, Threads,
       States
  <2>4. OutstandingMeans'
    BY <1>6 DEF NdisRequestReturns, Flushing, OutstandingMeans, Alone,
       WhereThreadsAre, TypeOK, Go, Threads, Answering
  <2>5. QueueIsServed'
    BY <1>6 DEF NdisRequestReturns, Flushing, QueueIsServed, Alone, WhereThreadsAre,
       TypeOK, Go, Threads, Answering
  <2>6. QED
    BY <2>1, <2>2, <2>3, <2>4, <2>5
<1>7. ASSUME SetReturns PROVE Core'
  <2>1. TypeOK'
    BY <1>7, OidsKnown DEF SetReturns, TypeOK, Go, Places, Threads, States, sends
  <2>2. Alone'
    BY <1>7, OidsKnown DEF SetReturns, Alone, TypeOK, Go, Threads, Answering,
       WhereThreadsAre
  <2>3. WhereThreadsAre'
    BY <1>7 DEF SetReturns, WhereThreadsAre, TypeOK, Go, Threads, States
  <2>4. OutstandingMeans'
    BY <1>7 DEF SetReturns, OutstandingMeans, Alone, WhereThreadsAre, TypeOK, Go,
       Threads, Answering, Flushing
  <2>5. QueueIsServed'
    BY <1>7 DEF SetReturns, QueueIsServed, Alone, WhereThreadsAre, TypeOK, Go,
       Threads, Answering
  <2>6. QED
    BY <2>1, <2>2, <2>3, <2>4, <2>5
<1>8. ASSUME LowerCompletes PROVE Core'
  <2>1. TypeOK'
    BY <1>8, OidsKnown DEF LowerCompletes, TypeOK, Go, Places, Threads, States, sends
  <2>2. Alone'
    BY <1>8, OidsKnown DEF LowerCompletes, Alone, TypeOK, Go, Threads, Answering,
       WhereThreadsAre
  <2>3. WhereThreadsAre'
    BY <1>8 DEF LowerCompletes, WhereThreadsAre, TypeOK, Go, Threads, States
  <2>4. OutstandingMeans'
    BY <1>8 DEF LowerCompletes, OutstandingMeans, Alone, WhereThreadsAre, TypeOK, Go,
       Threads, Answering, Flushing
  <2>5. QueueIsServed'
    BY <1>8 DEF LowerCompletes, QueueIsServed, Alone, WhereThreadsAre, TypeOK, Go,
       Threads, Answering
  <2>6. QED
    BY <2>1, <2>2, <2>3, <2>4, <2>5
<1>9. ASSUME NEW t \in Threads, ClearOutstanding(t) PROVE Core'
  <2>1. TypeOK'
    BY <1>9, OidsKnown DEF ClearOutstanding, Flushing, TypeOK, Go, Places, Threads,
       States, sends
  <2>2. Alone'
    BY <1>9, OidsKnown DEF ClearOutstanding, Flushing, Alone, TypeOK, Go, Threads,
       Answering, WhereThreadsAre
  <2>3. WhereThreadsAre'
    BY <1>9 DEF ClearOutstanding, Flushing, WhereThreadsAre, TypeOK, Go, Threads,
       States
  <2>4. OutstandingMeans'
    BY <1>9 DEF ClearOutstanding, Flushing, OutstandingMeans, Alone, WhereThreadsAre,
       TypeOK, Go, Threads, Answering
  <2>5. QueueIsServed'
    BY <1>9 DEF ClearOutstanding, Flushing, QueueIsServed, Alone, WhereThreadsAre,
       TypeOK, Go, Threads, Answering
  <2>6. QED
    BY <2>1, <2>2, <2>3, <2>4, <2>5
<1>10. ASSUME NEW t \in Threads, MPQueryPNPCapabilities(t) PROVE Core'
  <2>1. TypeOK'
    BY <1>10, OidsKnown DEF MPQueryPNPCapabilities, TypeOK, Go, Places, Threads,
       States, sends
  <2>2. Alone'
    BY <1>10, OidsKnown DEF MPQueryPNPCapabilities, Alone, TypeOK, Go, Threads,
       Answering, WhereThreadsAre
  <2>3. WhereThreadsAre'
    BY <1>10 DEF MPQueryPNPCapabilities, WhereThreadsAre, TypeOK, Go, Threads, States
  <2>4. OutstandingMeans'
    BY <1>10 DEF MPQueryPNPCapabilities, OutstandingMeans, Alone, WhereThreadsAre,
       TypeOK, Go, Threads, Answering, Flushing
  <2>5. QueueIsServed'
    BY <1>10 DEF MPQueryPNPCapabilities, QueueIsServed, Alone, WhereThreadsAre,
       TypeOK, Go, Threads, Answering
  <2>6. QED
    BY <2>1, <2>2, <2>3, <2>4, <2>5
<1>11. ASSUME NEW t \in Threads, Answer(t) PROVE Core'
  <2>1. TypeOK'
    BY <1>11, OidsKnown DEF Answer, After, TypeOK, Go, Places, Threads, States, sends
  <2>2. Alone'
    BY <1>11, OidsKnown DEF Answer, After, Alone, TypeOK, Go, Threads, Answering,
       WhereThreadsAre
  <2>3. WhereThreadsAre'
    BY <1>11 DEF Answer, After, WhereThreadsAre, TypeOK, Go, Threads, States
  <2>4. OutstandingMeans'
    BY <1>11 DEF Answer, After, OutstandingMeans, Alone, WhereThreadsAre, TypeOK, Go,
       Threads, Answering, Flushing
  <2>5. QueueIsServed'
    BY <1>11 DEF Answer, After, QueueIsServed, Alone, WhereThreadsAre, TypeOK, Go,
       Threads, Answering
  <2>6. QED
    BY <2>1, <2>2, <2>3, <2>4, <2>5
<1>12. ASSUME NEW state \in States, BeginSetPower(state) PROVE Core'
  <2>1. TypeOK'
    BY <1>12, OidsKnown DEF BeginSetPower, TypeOK, Go, Places, Threads, States, sends
  <2>2. Alone'
    BY <1>12, OidsKnown DEF BeginSetPower, Alone, TypeOK, Go, Threads, Answering,
       WhereThreadsAre
  <2>3. WhereThreadsAre'
    BY <1>12 DEF BeginSetPower, WhereThreadsAre, TypeOK, Go, Threads, States
  <2>4. OutstandingMeans'
    BY <1>12 DEF BeginSetPower, OutstandingMeans, Alone, WhereThreadsAre, TypeOK, Go,
       Threads, Answering, Flushing
  <2>5. QueueIsServed'
    BY <1>12 DEF BeginSetPower, QueueIsServed, Alone, WhereThreadsAre, TypeOK, Go,
       Threads, Answering
  <2>6. QED
    BY <2>1, <2>2, <2>3, <2>4, <2>5
<1>13. ASSUME EndSetPower PROVE Core'
  <2>1. TypeOK'
    BY <1>13, OidsKnown DEF EndSetPower, TypeOK, Go, Places, Threads, States, sends
  <2>2. Alone'
    BY <1>13, OidsKnown DEF EndSetPower, Alone, TypeOK, Go, Threads, Answering,
       WhereThreadsAre
  <2>3. WhereThreadsAre'
    BY <1>13 DEF EndSetPower, WhereThreadsAre, TypeOK, Go, Threads, States
  <2>4. OutstandingMeans'
    BY <1>13 DEF EndSetPower, OutstandingMeans, Alone, WhereThreadsAre, TypeOK, Go,
       Threads, Answering, Flushing
  <2>5. QueueIsServed'
    BY <1>13 DEF EndSetPower, QueueIsServed, Alone, WhereThreadsAre, TypeOK, Go,
       Threads, Answering
  <2>6. QED
    BY <2>1, <2>2, <2>3, <2>4, <2>5
<1>14. ASSUME NEW state \in States, BeginPowerEvent(state) PROVE Core'
  <2>1. TypeOK'
    BY <1>14, OidsKnown DEF BeginPowerEvent, TypeOK, Go, Places, Threads, States,
       sends
  <2>2. Alone'
    BY <1>14, OidsKnown DEF BeginPowerEvent, Alone, TypeOK, Go, Threads, Answering,
       WhereThreadsAre
  <2>3. WhereThreadsAre'
    BY <1>14 DEF BeginPowerEvent, WhereThreadsAre, TypeOK, Go, Threads, States
  <2>4. OutstandingMeans'
    BY <1>14 DEF BeginPowerEvent, OutstandingMeans, Alone, WhereThreadsAre, TypeOK,
       Go, Threads, Answering, Flushing
  <2>5. QueueIsServed'
    BY <1>14 DEF BeginPowerEvent, QueueIsServed, Alone, WhereThreadsAre, TypeOK, Go,
       Threads, Answering
  <2>6. QED
    BY <2>1, <2>2, <2>3, <2>4, <2>5
<1>15. ASSUME PowerDown PROVE Core'
  <2>1. TypeOK'
    BY <1>15, OidsKnown DEF PowerDown, TypeOK, Go, Places, Threads, States, sends
  <2>2. Alone'
    BY <1>15, OidsKnown DEF PowerDown, Alone, TypeOK, Go, Threads, Answering,
       WhereThreadsAre
  <2>3. WhereThreadsAre'
    BY <1>15 DEF PowerDown, WhereThreadsAre, TypeOK, Go, Threads, States
  <2>4. OutstandingMeans'
    BY <1>15 DEF PowerDown, OutstandingMeans, Alone, WhereThreadsAre, TypeOK, Go,
       Threads, Answering, Flushing
  <2>5. QueueIsServed'
    BY <1>15 DEF PowerDown, QueueIsServed, Alone, WhereThreadsAre, TypeOK, Go,
       Threads, Answering
  <2>6. QED
    BY <2>1, <2>2, <2>3, <2>4, <2>5
<1>16. ASSUME SendsDrained PROVE Core'
  <2>1. TypeOK'
    BY <1>16, OidsKnown DEF SendsDrained, TypeOK, Go, Places, Threads, States, sends
  <2>2. Alone'
    BY <1>16, OidsKnown DEF SendsDrained, Alone, TypeOK, Go, Threads, Answering,
       WhereThreadsAre
  <2>3. WhereThreadsAre'
    BY <1>16 DEF SendsDrained, WhereThreadsAre, TypeOK, Go, Threads, States
  <2>4. OutstandingMeans'
    BY <1>16 DEF SendsDrained, OutstandingMeans, Alone, WhereThreadsAre, TypeOK, Go,
       Threads, Answering, Flushing
  <2>5. QueueIsServed'
    BY <1>16 DEF SendsDrained, QueueIsServed, Alone, WhereThreadsAre, TypeOK, Go,
       Threads, Answering
  <2>6. QED
    BY <2>1, <2>2, <2>3, <2>4, <2>5
<1>17. ASSUME RequestsDrained PROVE Core'
  <2>1. TypeOK'
    BY <1>17, OidsKnown DEF RequestsDrained, TypeOK, Go, Places, Threads, States,
       sends
  <2>2. Alone'
    BY <1>17, OidsKnown DEF RequestsDrained, Alone, TypeOK, Go, Threads, Answering,
       WhereThreadsAre
  <2>3. WhereThreadsAre'
    BY <1>17 DEF RequestsDrained, WhereThreadsAre, TypeOK, Go, Threads, States
  <2>4. OutstandingMeans'
    BY <1>17 DEF RequestsDrained, OutstandingMeans, Alone, WhereThreadsAre, TypeOK,
       Go, Threads, Answering, Flushing
  <2>5. QueueIsServed'
    BY <1>17 DEF RequestsDrained, QueueIsServed, Alone, WhereThreadsAre, TypeOK, Go,
       Threads, Answering
  <2>6. QED
    BY <2>1, <2>2, <2>3, <2>4, <2>5
<1>18. ASSUME FlushQueue PROVE Core'
  <2>1. TypeOK'
    BY <1>18, OidsKnown DEF FlushQueue, TypeOK, Go, Places, Threads, States, sends
  <2>2. Alone'
    BY <1>18, OidsKnown DEF FlushQueue, Alone, TypeOK, Go, Threads, Answering,
       WhereThreadsAre
  <2>3. WhereThreadsAre'
    BY <1>18 DEF FlushQueue, WhereThreadsAre, TypeOK, Go, Threads, States
  <2>4. OutstandingMeans'
    BY <1>18 DEF FlushQueue, OutstandingMeans, Alone, WhereThreadsAre, TypeOK, Go,
       Threads, Answering, Flushing
  <2>5. QueueIsServed'
    BY <1>18 DEF FlushQueue, QueueIsServed, Alone, WhereThreadsAre, TypeOK, Go,
       Threads, Answering
  <2>6. QED
    BY <2>1, <2>2, <2>3, <2>4, <2>5
<1>19. ASSUME EndPowerDown PROVE Core'
  <2>1. TypeOK'
    BY <1>19, OidsKnown DEF EndPowerDown, TypeOK, Go, Places, Threads, States, sends
  <2>2. Alone'
    BY <1>19, OidsKnown DEF EndPowerDown, Alone, TypeOK, Go, Threads, Answering,
       WhereThreadsAre
  <2>3. WhereThreadsAre'
    BY <1>19 DEF EndPowerDown, WhereThreadsAre, TypeOK, Go, Threads, States
  <2>4. OutstandingMeans'
    BY <1>19 DEF EndPowerDown, OutstandingMeans, Alone, WhereThreadsAre, TypeOK, Go,
       Threads, Answering, Flushing
  <2>5. QueueIsServed'
    BY <1>19 DEF EndPowerDown, QueueIsServed, Alone, WhereThreadsAre, TypeOK, Go,
       Threads, Answering
  <2>6. QED
    BY <2>1, <2>2, <2>3, <2>4, <2>5
<1>20. ASSUME PowerUp PROVE Core'
  <2>1. TypeOK'
    BY <1>20, OidsKnown DEF PowerUp, StandingByAfterUp, TypeOK, Go, Places, Threads,
       States, sends
  <2>2. Alone'
    BY <1>20, OidsKnown DEF PowerUp, StandingByAfterUp, Alone, TypeOK, Go, Threads,
       Answering, WhereThreadsAre
  <2>3. WhereThreadsAre'
    BY <1>20 DEF PowerUp, StandingByAfterUp, WhereThreadsAre, TypeOK, Go, Threads,
       States
  <2>4. OutstandingMeans'
    BY <1>20 DEF PowerUp, StandingByAfterUp, OutstandingMeans, Alone,
       WhereThreadsAre, TypeOK, Go, Threads, Answering, Flushing
  <2>5. QueueIsServed'
    BY <1>20 DEF PowerUp, StandingByAfterUp, QueueIsServed, Alone, WhereThreadsAre,
       TypeOK, Go, Threads, Answering
  <2>6. QED
    BY <2>1, <2>2, <2>3, <2>4, <2>5
<1>21. ASSUME Unbind PROVE Core'
  <2>1. TypeOK'
    BY <1>21, OidsKnown DEF Unbind, TypeOK, Go, Places, Threads, States, sends
  <2>2. Alone'
    BY <1>21, OidsKnown DEF Unbind, Alone, TypeOK, Go, Threads, Answering,
       WhereThreadsAre
  <2>3. WhereThreadsAre'
    BY <1>21 DEF Unbind, WhereThreadsAre, TypeOK, Go, Threads, States
  <2>4. OutstandingMeans'
    BY <1>21 DEF Unbind, OutstandingMeans, Alone, WhereThreadsAre, TypeOK, Go,
       Threads, Answering, Flushing
  <2>5. QueueIsServed'
    BY <1>21 DEF Unbind, QueueIsServed, Alone, WhereThreadsAre, TypeOK, Go, Threads,
       Answering
  <2>6. QED
    BY <2>1, <2>2, <2>3, <2>4, <2>5
<1>22. QED
  BY <1>1, <1>2, <1>3, <1>4, <1>5, <1>6, <1>7, <1>8, <1>9, <1>10, <1>11, <1>12,
     <1>13, <1>14, <1>15, <1>16, <1>17, <1>18, <1>19, <1>20, <1>21 DEF MiniportStep,
     LowerStep, PnpStep, CompletionStep, Threads

\* The request threads leave the packets alone.
LEMMA RequestsLeaveSends ==
  ASSUME \/ \E oid \in Oids : BeginRequest(oid)
         \/ \E state \in States : BeginSetPower(state) \/ BeginPowerEvent(state)
         \/ Unbind
         \/ MiniportStep \/ LowerStep \/ PnpStep
  PROVE  UNCHANGED sends
BY DEF BeginRequest, QueueRequest, FailRequest, ForwardRequest, NdisRequestPends,
   NdisRequestReturns, SetReturns, LowerCompletes, ClearOutstanding,
   MPQueryPNPCapabilities, Answer, BeginSetPower, EndSetPower, BeginPowerEvent,
   PowerDown, SendsDrained, RequestsDrained, FlushQueue, EndPowerDown, PowerUp,
   Unbind, MiniportStep, LowerStep, PnpStep, CompletionStep

------------------------------------------------------------------------------
(* The packets.                                                             *)

\* The packets in flight are finitely many, and the counter is positive while
\* there is one.
LEMMA CountedFacts ==
  ASSUME TypeOK, SendsAreCounted
  PROVE  /\ IsFiniteSet(Counted)
         /\ \A p \in Counted : OutstandingSends >= 1
         /\ OutstandingSends = 0 => Counted = {}
<1>1. IsFiniteSet(Counted)
  BY PacketsFinite, FS_Subset DEF Counted
<1>2. OutstandingSends = 0 <=> Counted = {}
  BY <1>1, FS_EmptySet DEF SendsAreCounted
<1>3. QED
  BY <1>1, <1>2 DEF TypeOK

\* Every step of a packet's thread preserves Core and the count.
LEMMA SendsKeepCount ==
  ASSUME Core, SendsAreCounted, NEW p \in Packets, BeginSend(p) \/ SendStep(p)
  PROVE  Core' /\ SendsAreCounted'
<1> USE DEF Core, power, requests, threads
<1> DEFINE Rest == <<MPDeviceState, PTDeviceState, StandingBy, UnbindingInProcess, lower,
                     QueuedRequest, OutstandingRequests, request, below,
                     pc, event, prev, target>>
<1>1. UNCHANGED Rest /\ TypeOK' => Core'
  BY DEF Alone, WhereThreadsAre, OutstandingMeans, QueueIsServed, Flushing
<1>2. CASE BeginSend(p)
  <2>1. Counted' = Counted
    BY <1>2 DEF BeginSend, Counted, TypeOK, GoSend
  <2>2. SendsAreCounted'
    BY <1>2, <2>1, CountedFacts DEF BeginSend, SendsAreCounted
  <2>3. TypeOK'
    BY <1>2 DEF BeginSend, TypeOK, GoSend, SendPlaces
  <2>4. QED
    BY <1>2, <1>1, <2>2, <2>3 DEF BeginSend
<1>3. CASE CountSend(p)
  <2>1. Counted' = Counted \cup {p} /\ p \notin Counted
    BY <1>3 DEF CountSend, Counted, TypeOK, GoSend
  <2>2. SendsAreCounted'
    BY <1>3, <2>1, CountedFacts, FS_AddElement DEF CountSend, SendsAreCounted
  <2>3. TypeOK'
    BY <1>3 DEF CountSend, TypeOK, GoSend, SendPlaces
  <2>4. QED
    BY <1>3, <1>1, <2>2, <2>3 DEF CountSend
<1>4. CASE RefuseSend(p)
  <2>1. Counted' = Counted
    BY <1>4 DEF RefuseSend, Counted, TypeOK, GoSend
  <2>2. SendsAreCounted'
    BY <1>4, <2>1, CountedFacts DEF RefuseSend, SendsAreCounted
  <2>3. TypeOK'
    BY <1>4 DEF RefuseSend, TypeOK, GoSend, SendPlaces
  <2>4. QED
    BY <1>4, <1>1, <2>2, <2>3 DEF RefuseSend
<1>5. CASE AllocatePacket(p)
  <2>1. Counted' = Counted
    BY <1>5 DEF AllocatePacket, Counted, TypeOK, GoSend
  <2>2. SendsAreCounted'
    BY <1>5, <2>1, CountedFacts DEF AllocatePacket, SendsAreCounted
  <2>3. TypeOK'
    BY <1>5 DEF AllocatePacket, TypeOK, GoSend, SendPlaces
  <2>4. QED
    BY <1>5, <1>1, <2>2, <2>3 DEF AllocatePacket
<1>6. CASE AllocateFails(p)
  <2>1. Counted' = Counted
    BY <1>6 DEF AllocateFails, Counted, TypeOK, GoSend
  <2>2. SendsAreCounted'
    BY <1>6, <2>1, CountedFacts DEF AllocateFails, SendsAreCounted
  <2>3. TypeOK'
    BY <1>6 DEF AllocateFails, TypeOK, GoSend, SendPlaces
  <2>4. QED
    BY <1>6, <1>1, <2>2, <2>3 DEF AllocateFails
<1>7. CASE NdisSendPends(p)
  <2>1. Counted' = Counted
    BY <1>7 DEF NdisSendPends, Counted, TypeOK, GoSend
  <2>2. SendsAreCounted'
    BY <1>7, <2>1, CountedFacts DEF NdisSendPends, SendsAreCounted
  <2>3. TypeOK'
    BY <1>7 DEF NdisSendPends, TypeOK, GoSend, SendPlaces
  <2>4. QED
    BY <1>7, <1>1, <2>2, <2>3 DEF NdisSendPends
<1>8. CASE NdisSendReturns(p)
  <2>1. Counted' = Counted
    BY <1>8 DEF NdisSendReturns, Counted, TypeOK, GoSend
  <2>2. SendsAreCounted'
    BY <1>8, <2>1, CountedFacts DEF NdisSendReturns, SendsAreCounted
  <2>3. TypeOK'
    BY <1>8 DEF NdisSendReturns, TypeOK, GoSend, SendPlaces
  <2>4. QED
    BY <1>8, <1>1, <2>2, <2>3 DEF NdisSendReturns
<1>9. CASE PtSendComplete(p)
  <2>1. Counted' = Counted
    BY <1>9 DEF PtSendComplete, Counted, TypeOK, GoSend
  <2>2. SendsAreCounted'
    BY <1>9, <2>1, CountedFacts DEF PtSendComplete, SendsAreCounted
  <2>3. TypeOK'
    BY <1>9 DEF PtSendComplete, TypeOK, GoSend, SendPlaces
  <2>4. QED
    BY <1>9, <1>1, <2>2, <2>3 DEF PtSendComplete
<1>10. CASE FreePacket(p)
  <2>1. Counted' = Counted
    BY <1>10 DEF FreePacket, Counted, TypeOK, GoSend
  <2>2. SendsAreCounted'
    BY <1>10, <2>1, CountedFacts DEF FreePacket, SendsAreCounted
  <2>3. TypeOK'
    BY <1>10 DEF FreePacket, TypeOK, GoSend, SendPlaces
  <2>4. QED
    BY <1>10, <1>1, <2>2, <2>3 DEF FreePacket
<1>11. CASE CompletePacket(p)
  <2>1. Counted' = Counted
    BY <1>11 DEF CompletePacket, Counted, TypeOK, GoSend
  <2>2. SendsAreCounted'
    BY <1>11, <2>1, CountedFacts DEF CompletePacket, SendsAreCounted
  <2>3. TypeOK'
    BY <1>11 DEF CompletePacket, TypeOK, GoSend, SendPlaces
  <2>4. QED
    BY <1>11, <1>1, <2>2, <2>3 DEF CompletePacket
<1>12. CASE LeaveSend(p)
  <2>1. Counted' = Counted \ {p} /\ p \in Counted
    BY <1>12 DEF LeaveSend, Counted, TypeOK, GoSend
  <2>2. SendsAreCounted'
    BY <1>12, <2>1, CountedFacts, FS_RemoveElement DEF LeaveSend, SendsAreCounted
  <2>3. TypeOK'
    BY <1>12, <2>1, CountedFacts DEF LeaveSend, TypeOK, GoSend, SendPlaces
  <2>4. QED
    BY <1>12, <1>1, <2>2, <2>3 DEF LeaveSend
<1>13. QED
  BY <1>2, <1>3, <1>4, <1>5, <1>6, <1>7, <1>8, <1>9, <1>10, <1>11, <1>12 DEF SendStep

------------------------------------------------------------------------------
\* Core and the count hold throughout.
THEOREM Invariance == Spec => [](Core /\ SendsAreCounted)
<1>1. Init => Core /\ SendsAreCounted
  <2>1. Init => Counted = {}
    BY DEF Init, Counted
  <2>2. QED
    BY <2>1, InitCore, FS_EmptySet DEF Init, SendsAreCounted
<1>2. Core /\ SendsAreCounted /\ [Next]_vars => (Core /\ SendsAreCounted)'
  <2> SUFFICES ASSUME Core, SendsAreCounted, [Next]_vars
               PROVE  Core' /\ SendsAreCounted'
    OBVIOUS
  <2>1. CASE /\ UNCHANGED sends
             /\ \/ \E oid \in Oids : BeginRequest(oid)
                \/ \E state \in States : BeginSetPower(state) \/ BeginPowerEvent(state)
                \/ Unbind
                \/ MiniportStep \/ LowerStep \/ PnpStep
    BY <2>1, RequestsKeepCore DEF SendsAreCounted, Counted, sends
  <2>2. ASSUME NEW p \in Packets, BeginSend(p) \/ SendStep(p)
        PROVE  Core' /\ SendsAreCounted'
    BY <2>2, SendsKeepCount
  <2>3. CASE UNCHANGED vars
    BY <2>3 DEF vars, power, requests, threads, sends, Core, TypeOK, Alone,
       WhereThreadsAre, OutstandingMeans, QueueIsServed, Flushing, SendsAreCounted,
       Counted
  <2>4. QED
    BY <2>1, <2>2, <2>3, RequestsLeaveSends DEF Next
<1>3. QED
  BY <1>1, <1>2, PTL DEF Spec

\* Type correctness.
THEOREM TypeCorrect == Spec => []TypeOK
<1>1. QED
  BY Invariance, PTL DEF Core

\* No request is answered twice and none is forgotten.
THEOREM OneHolderAlways == Spec => []OneHolder
<1>1. TypeOK /\ Alone => OneHolder
  <2> SUFFICES ASSUME TypeOK, Alone PROVE OneHolder
    OBVIOUS
  <2>1. /\ "queue" \notin Threads /\ "below" \notin Threads
        /\ QueuedRequest \in BOOLEAN /\ below \in BOOLEAN
    BY DEF Threads, TypeOK
  <2>2. QED
    BY <2>1 DEF Alone, OneHolder, Holders
<1>2. QED
  BY <1>1, Invariance, PTL DEF Core

\* OutstandingRequests is TRUE from the forwarding of a request to the start
\* of its completion and at no other time.
THEOREM OutstandingCorrect == Spec => []OutstandingMeans
<1>1. QED
  BY Invariance, PTL DEF Core

\* A queued request is never stranded.
THEOREM QueueServed == Spec => []QueueIsServed
<1>1. QED
  BY Invariance, PTL DEF Core

\* The three together.
THEOREM RequestsAlwaysCorrect == Spec => []RequestsCorrect
<1>1. OneHolder /\ OutstandingMeans /\ QueueIsServed => RequestsCorrect
  BY DEF RequestsCorrect
<1>2. QED
  BY <1>1, OneHolderAlways, OutstandingCorrect, QueueServed, PTL

\* OutstandingSends counts the packets in flight.
THEOREM SendsCorrect == Spec => []SendsAreCounted
<1>1. QED
  BY Invariance, PTL

------------------------------------------------------------------------------
(* AdapterIO implements RequestService.                                     *)

\* A request that is looked at under the lock is one that goes down.
Decided == pc["miniport"] = "deciding" => request \in Oids

\* Only the steps that take an answer back or begin a request write it.
LEMMA StepDecided == Core /\ Decided /\ [Next]_vars => Decided'
<1> SUFFICES ASSUME Core, Decided, [Next]_vars, pc'["miniport"] = "deciding"
             PROVE  request' \in Oids
  BY DEF Decided
<1> USE DEF Core, Decided, Go, Threads
<1>1. ASSUME NEW oid \in Oids, BeginRequest(oid) PROVE request' \in Oids
  BY <1>1 DEF BeginRequest
<1>2. ASSUME NEW state \in States, BeginSetPower(state) \/ BeginPowerEvent(state)
      PROVE  request' \in Oids
  BY <1>2 DEF BeginSetPower, BeginPowerEvent, TypeOK, requests
<1>3. CASE Unbind
  BY <1>3 DEF Unbind, TypeOK
<1>4. CASE QueueRequest \/ FailRequest \/ ForwardRequest \/ SetReturns \/ EndSetPower
  BY <1>4 DEF QueueRequest, FailRequest, ForwardRequest, SetReturns, EndSetPower, TypeOK
<1>5. ASSUME NEW t \in Threads, CompletionStep(t) PROVE request' \in Oids
  <2>1. CASE Answer(t)
    <3>1. t # "miniport" => pc["miniport"] = "deciding"
      BY <2>1 DEF Answer, TypeOK
    <3>2. pc[t] \in Answering
      BY <2>1 DEF Answer, Answering
    <3>3. t = "miniport"
      BY <3>1, <3>2 DEF Alone, Answering
    <3>4. pc'["miniport"] = "idle"
      BY <2>1, <3>3 DEF Answer, After, TypeOK
    <3> QED
      BY <3>4
  <2>2. CASE \/ NdisRequestPends(t) \/ NdisRequestReturns(t) \/ ClearOutstanding(t)
             \/ MPQueryPNPCapabilities(t)
    BY <2>2 DEF NdisRequestPends, NdisRequestReturns, ClearOutstanding,
       MPQueryPNPCapabilities, TypeOK, requests
  <2> QED
    BY <1>5, <2>1, <2>2 DEF CompletionStep
<1>6. CASE LowerCompletes
  BY <1>6 DEF LowerCompletes, TypeOK
<1>7. CASE PowerDown \/ SendsDrained \/ RequestsDrained \/ FlushQueue \/ EndPowerDown \/ PowerUp
  BY <1>7 DEF PowerDown, SendsDrained, RequestsDrained, FlushQueue, EndPowerDown, PowerUp,
     TypeOK, requests
<1>8. ASSUME NEW p \in Packets, BeginSend(p) \/ SendStep(p) PROVE request' \in Oids
  BY <1>8 DEF BeginSend, SendStep, CountSend, RefuseSend, AllocatePacket, AllocateFails,
     NdisSendPends, NdisSendReturns, PtSendComplete, FreePacket, CompletePacket, LeaveSend,
     requests, threads
<1>9. CASE UNCHANGED vars
  BY <1>9 DEF vars, requests, threads
<1> QED
  BY <1>1, <1>2, <1>3, <1>4, <1>5, <1>6, <1>7, <1>8, <1>9
     DEF Next, MiniportStep, LowerStep, PnpStep

\* What Stage is where the hands are known.
StageFits ==
    /\ Stage = "free" <=> request = "none"
    /\ QueuedRequest => Stage = "waiting"
    /\ below => Stage = "below"
    /\ \A t \in Threads :
          /\ pc[t] = "calling" => Stage = "sent"
          /\ pc[t] \in {"deciding", "setpower"} => Stage = "asked"
          /\ pc[t] \in {"completing", "processing", "answering"} => Stage = "done"

LEMMA StageIs == Core => StageFits
<1> SUFFICES ASSUME Core PROVE StageFits
  OBVIOUS
<1> USE DEF Core, Alone, Answering, Stage
<1>1. (Stage = "free" <=> request = "none") /\ (QueuedRequest => Stage = "waiting")
  OBVIOUS
<1>2. below => Stage = "below"
  OBVIOUS
<1>3. ASSUME NEW t \in Threads
      PROVE  /\ pc[t] = "calling" => Stage = "sent"
             /\ pc[t] \in {"deciding", "setpower"} => Stage = "asked"
             /\ pc[t] \in {"completing", "processing", "answering"} => Stage = "done"
  OBVIOUS
<1> QED
  BY <1>1, <1>2, <1>3 DEF StageFits

LEMMA StageWillBe == Core' => StageFits'
<1> SUFFICES ASSUME Core' PROVE StageFits'
  OBVIOUS
<1> USE DEF Core, Alone, Answering, Stage
<1>1. (Stage = "free" <=> request = "none")' /\ (QueuedRequest => Stage = "waiting")'
  OBVIOUS
<1>2. (below => Stage = "below")'
  OBVIOUS
<1>3. ASSUME NEW t \in Threads
      PROVE  /\ pc'[t] = "calling" => Stage' = "sent"
             /\ pc'[t] \in {"deciding", "setpower"} => Stage' = "asked"
             /\ pc'[t] \in {"completing", "processing", "answering"} => Stage' = "done"
  OBVIOUS
<1> QED
  BY <1>1, <1>2, <1>3 DEF StageFits

\* A step that leaves the request in the hands that have it leaves its stage.
LEMMA SameHands ==
    ASSUME Core, Core', UNCHANGED requests,
           \A t \in Threads : pc'[t] = pc[t] \/ (pc[t] \notin Answering /\ pc'[t] \notin Answering)
    PROVE  Stage' = Stage
<1> USE DEF requests
<1>1. StageFits /\ StageFits'
  BY StageIs, StageWillBe
<1>2. CASE request = "none"
  BY <1>1, <1>2 DEF StageFits
<1>3. CASE QueuedRequest \/ below
  BY <1>1, <1>3 DEF StageFits
<1>4. CASE \E t \in Threads : pc[t] \in Answering
  BY <1>1, <1>4 DEF StageFits, Answering
<1> QED
  BY <1>2, <1>3, <1>4 DEF Core, Alone

\* The requests from above.
LEMMA MiniportRefines ==
    ASSUME Core, Core', Decided,
           \/ \E oid \in Oids : BeginRequest(oid)
           \/ \E state \in States : BeginSetPower(state)
           \/ QueueRequest \/ FailRequest \/ ForwardRequest \/ SetReturns \/ EndSetPower
    PROVE  [Service!Next]_(Service!vars)
<1> USE DEF Core, power, requests, Go, Threads, Service!Next
<1>0. StageFits /\ StageFits'
  BY StageIs, StageWillBe
<1>t. pc \in [Threads -> Places] /\ PTDeviceState \in States /\ UnbindingInProcess \in BOOLEAN
  BY DEF TypeOK
<1>1. ASSUME NEW oid \in Oids, BeginRequest(oid) PROVE Service!Ask(oid)
  <2>1. Stage = "free" /\ Stage' = "asked"
    BY <1>0, <1>t, <1>1 DEF BeginRequest, StageFits
  <2> QED
    BY <1>1, <2>1 DEF BeginRequest, Service!Ask
<1>2. ASSUME NEW state \in States, BeginSetPower(state) PROVE Service!Ask("setpower")
  <2>1. Stage = "free" /\ Stage' = "asked"
    BY <1>0, <1>t, <1>2 DEF BeginSetPower, StageFits
  <2>2. "setpower" \notin Oids
    BY OidsKnown
  <2> QED
    BY <1>2, <2>1, <2>2 DEF BeginSetPower, Service!Ask
<1>3. CASE QueueRequest
  <2>1. Stage = "asked" /\ Stage' = "waiting"
    BY <1>0, <1>3 DEF QueueRequest, StageFits
  <2>2. Service!Wait
    BY <1>3, <2>1 DEF QueueRequest, MustQueue, Decided, Service!Wait, Service!Move
  <2> QED
    BY <2>2
<1>4. CASE FailRequest
  <2>1. Stage = "asked" /\ Stage' = "free"
    BY <1>0, <1>4 DEF FailRequest, StageFits
  <2>2. Service!Refuse
    BY <1>4, <2>1 DEF FailRequest, Service!Refuse, Service!Finish
  <2> QED
    BY <2>2
<1>5. CASE ForwardRequest
  <2>1. Stage = "asked" /\ Stage' = "sent"
    BY <1>0, <1>t, <1>5 DEF ForwardRequest, StageFits
  <2>2. Service!Send
    BY <1>5, <2>1 DEF ForwardRequest, MayForward, Decided, Service!Send, Service!Move
  <2> QED
    BY <2>2
<1>6. CASE SetReturns
  <2>1. Stage = "sent" /\ Stage' = "free"
    BY <1>0, <1>6 DEF SetReturns, StageFits
  <2>2. Service!ReturnSet
    BY <1>6, <2>1 DEF SetReturns, Service!ReturnSet, Service!Finish
  <2> QED
    BY <2>2
<1>7. CASE EndSetPower
  <2>1. Stage = "asked" /\ Stage' = "free"
    BY <1>0, <1>7 DEF EndSetPower, StageFits
  <2>2. Service!Refuse
    BY <1>7, <2>1 DEF EndSetPower, Service!Refuse, Service!Finish
  <2> QED
    BY <2>2
<1> QED
  BY <1>1, <1>2, <1>3, <1>4, <1>5, <1>6, <1>7

\* The way down and PtRequestComplete, whichever thread runs them.
LEMMA CompletionRefines ==
    ASSUME Core, Core', (\E t \in Threads : CompletionStep(t)) \/ LowerCompletes
    PROVE  [Service!Next]_(Service!vars)
<1> USE DEF Core, power, requests, Go, Service!Next
<1>0. StageFits /\ StageFits'
  BY StageIs, StageWillBe
<1>t. pc \in [Threads -> Places]
  BY DEF TypeOK
<1>1. ASSUME NEW t \in Threads, NdisRequestPends(t) PROVE Service!Pend
  <2>1. Stage = "sent" /\ Stage' = "below"
    BY <1>0, <1>1 DEF NdisRequestPends, StageFits
  <2> QED
    BY <1>1, <2>1 DEF NdisRequestPends, Service!Pend, Service!Move
<1>2. ASSUME NEW t \in Threads, NdisRequestReturns(t) PROVE Service!Return
  <2>1. Stage = "sent" /\ Stage' = "done"
    BY <1>0, <1>t, <1>2 DEF NdisRequestReturns, StageFits
  <2> QED
    BY <1>2, <2>1 DEF NdisRequestReturns, Service!Return, Service!Move
<1>3. ASSUME NEW t \in Threads, ClearOutstanding(t) PROVE UNCHANGED Service!vars
  <2>1. Stage = "done" /\ Stage' = "done"
    BY <1>0, <1>t, <1>3 DEF ClearOutstanding, StageFits
  <2> QED
    BY <1>3, <2>1 DEF ClearOutstanding, Service!vars
<1>4. ASSUME NEW t \in Threads, MPQueryPNPCapabilities(t) PROVE Service!TurnOn
  <2>1. Stage = "done" /\ Stage' = "done"
    BY <1>0, <1>t, <1>4 DEF MPQueryPNPCapabilities, StageFits
  <2> QED
    BY <1>4, <2>1 DEF MPQueryPNPCapabilities, Service!TurnOn
<1>5. ASSUME NEW t \in Threads, Answer(t) PROVE Service!Answer
  <2>1. Stage = "done" /\ Stage' = "free"
    BY <1>0, <1>5 DEF Answer, StageFits
  <2> QED
    BY <1>5, <2>1 DEF Answer, Service!Answer, Service!Finish
<1>6. CASE LowerCompletes
  <2>1. Stage = "below" /\ Stage' = "done"
    BY <1>0, <1>t, <1>6 DEF LowerCompletes, StageFits, Threads
  <2>2. Service!Complete
    BY <1>6, <2>1 DEF LowerCompletes, Service!Complete, Service!Move
  <2> QED
    BY <2>2
<1> QED
  BY <1>1, <1>2, <1>3, <1>4, <1>5, <1>6 DEF CompletionStep

\* The power events and the unbinding.
LEMMA PnpRefines ==
    ASSUME Core, Core',
           \/ \E state \in States : BeginPowerEvent(state)
           \/ PowerDown \/ SendsDrained \/ RequestsDrained
           \/ FlushQueue \/ EndPowerDown \/ PowerUp \/ Unbind
    PROVE  [Service!Next]_(Service!vars)
<1> USE DEF Core, power, requests, Go, Threads, Answering, Service!Next
<1>0. StageFits /\ StageFits'
  BY StageIs, StageWillBe
<1>t. /\ pc \in [Threads -> Places]
      /\ QueuedRequest \in BOOLEAN /\ OutstandingRequests \in BOOLEAN
  BY DEF TypeOK
<1>1. CASE (\E state \in States : BeginPowerEvent(state)) \/ SendsDrained \/ RequestsDrained
           \/ EndPowerDown
  <2>1. Stage' = Stage
    BY <1>1, <1>t, SameHands DEF BeginPowerEvent, SendsDrained, RequestsDrained, EndPowerDown
  <2> QED
    BY <1>1, <2>1 DEF BeginPowerEvent, SendsDrained, RequestsDrained, EndPowerDown, Service!vars
<1>2. CASE PowerDown
  <2>1. Stage' = Stage
    BY <1>2, <1>t, SameHands DEF PowerDown
  <2>2. Service!TurnOff
    BY <1>2, <2>1 DEF PowerDown, Service!TurnOff
  <2> QED
    BY <2>2
<1>3. CASE FlushQueue
  <2>1. CASE QueuedRequest
    <3>1. Stage = "waiting" /\ Stage' = "done"
      BY <1>0, <1>t, <1>3, <2>1 DEF FlushQueue, StageFits
    <3>2. PTDeviceState = "low"
      BY <2>1 DEF QueueIsServed
    <3>3. Service!Flush
      BY <1>3, <3>1, <3>2 DEF FlushQueue, Service!Flush, Service!Move
    <3> QED
      BY <3>3
  <2>2. CASE ~QueuedRequest
    <3>1. Stage' = Stage
      BY <1>3, <1>t, <2>2, SameHands DEF FlushQueue
    <3> QED
      BY <1>3, <3>1 DEF FlushQueue, Service!vars
  <2> QED
    BY <2>1, <2>2
<1>4. CASE PowerUp
  <2>1. Stage' = IF Stage = "waiting" THEN "sent" ELSE Stage
    <3>1. CASE QueuedRequest
      <4>1. Stage = "waiting" /\ Stage' = "sent"
        BY <1>0, <1>t, <1>4, <3>1 DEF PowerUp, StageFits
      <4> QED
        BY <4>1
    <3>2. CASE ~QueuedRequest
      <4>1. Stage' = Stage
        BY <1>4, <1>t, <3>2, SameHands DEF PowerUp
      <4>2. Stage # "waiting"
        BY <1>0, <3>2 DEF StageFits, Alone
      <4> QED
        BY <4>1, <4>2
    <3> QED
      BY <3>1, <3>2
  <2>2. Service!TurnOn
    BY <1>4, <2>1 DEF PowerUp, Service!TurnOn
  <2> QED
    BY <2>2
<1>5. CASE Unbind
  <2>1. Stage' = IF Stage = "waiting" THEN "done" ELSE Stage
    <3>1. CASE QueuedRequest
      <4>1. Stage = "waiting" /\ Stage' = "done"
        BY <1>0, <1>t, <1>5, <3>1 DEF Unbind, StageFits
      <4> QED
        BY <4>1
    <3>2. CASE ~QueuedRequest
      <4>1. Stage' = Stage
        BY <1>5, <1>t, <3>2, SameHands DEF Unbind
      <4>2. Stage # "waiting"
        BY <1>0, <3>2 DEF StageFits, Alone
      <4> QED
        BY <4>1, <4>2
    <3> QED
      BY <3>1, <3>2
  <2>2. Service!Remove
    BY <1>5, <2>1 DEF Unbind, Service!Remove
  <2> QED
    BY <2>2
<1> QED
  BY <1>1, <1>2, <1>3, <1>4, <1>5

\* The sends have nothing to do with it.
LEMMA SendsStutter ==
    ASSUME Core, Core', \/ \E p \in Packets : BeginSend(p) \/ SendStep(p)
                        \/ UNCHANGED vars
    PROVE  UNCHANGED Service!vars
<1>1. UNCHANGED <<power, requests, threads>>
  BY DEF BeginSend, SendStep, CountSend, RefuseSend, AllocatePacket, AllocateFails,
     NdisSendPends, NdisSendReturns, PtSendComplete, FreePacket, CompletePacket, LeaveSend,
     vars
<1>2. Stage' = Stage
  BY <1>1, SameHands DEF threads
<1> QED
  BY <1>1, <1>2 DEF power, requests, Service!vars

\* Every request is served as RequestService promises: sent down at most once,
\* while the protocol edge is on and the binding stays, and answered once.
THEOREM RefinesRequests == Spec => ImplementsRequests
<1>1. Init => Service!Init /\ Decided
  BY DEF Init, Service!Init, Stage, Decided, Threads
<1>2. Core /\ Core' /\ Decided /\ [Next]_vars => [Service!Next]_(Service!vars)
  BY MiniportRefines, CompletionRefines, PnpRefines, SendsStutter
     DEF Next, MiniportStep, LowerStep, PnpStep, Threads
<1>3. Spec => []Core
  BY Invariance, PTL
<1>4. Spec => Service!Init /\ [][Service!Next]_(Service!vars)
  BY <1>1, <1>2, <1>3, StepDecided, PTL DEF Spec
<1> QED
  BY <1>4 DEF ImplementsRequests, Service!Spec

------------------------------------------------------------------------------
(* Power, when no request is OID_PNP_CAPABILITIES.                          *)

\* The pnp thread is past its first wait, past both, or has flushed.
Lowered  == pc["pnp"] \in {"drainSends", "drainRequests", "flushing", "asserting"}
               \/ (pc["pnp"] \in {"completing", "answering"} /\ event = "low")
NoSends  == Lowered /\ pc["pnp"] # "drainSends"
NoAsking == NoSends /\ pc["pnp"] # "drainRequests"

\* Nothing processes capabilities, and the protocol edge is as the last event
\* left it: low during a power-down and while the lower miniport is low, at D0
\* otherwise.
EdgeFollows ==
    /\ request # "capabilities" /\ \A t \in Threads : pc[t] # "processing"
    /\ Lowered => PTDeviceState = "low"
    /\ lower = "low" => PTDeviceState = "low"
    /\ lower = "D0" /\ pc["pnp"] = "idle" => PTDeviceState = "D0"
    /\ event = "D0" /\ pc["pnp"] \in {"calling", "completing", "answering"}
          => PTDeviceState = "D0"
    /\ pc["pnp"] = "locking" => prev = PTDeviceState
    /\ pc["pnp"] = "locking" /\ event = "D0" => lower = "D0"

\* What was waited for does not come back.
StaysDrained ==
    /\ NoSends \/ lower = "low" => OutstandingSends = 0
    /\ NoAsking \/ lower = "low" => ~OutstandingRequests

\* A packet of the pool is held only by a send that is counted.
OwnIsCounted == \A p \in own : snd[p] \in {"ready", "below", "freeing", "freeingSync"}

\* StandingBy is set only with one of the edges low or going low.
StandingMeans ==
    /\ StandingBy => \/ MPDeviceState = "low" \/ PTDeviceState = "low"
                     \/ (pc["miniport"] = "setpower" /\ target = "low")
    /\ (StandingBy /\ pc["miniport"] = "setpower" /\ target = "D0")
          => PTDeviceState = "low"

Quiet == EdgeFollows /\ StaysDrained /\ OwnIsCounted /\ StandingMeans

\* Every step of the request threads preserves Quiet.
LEMMA RequestsKeepQuiet ==
  ASSUME "capabilities" \notin Oids, Core, Quiet, UNCHANGED sends,
         \/ \E oid \in Oids : BeginRequest(oid)
         \/ \E state \in States : BeginSetPower(state) \/ BeginPowerEvent(state)
         \/ Unbind
         \/ MiniportStep \/ LowerStep \/ PnpStep
  PROVE  Quiet'
<1> USE DEF Core, Quiet, power, requests, threads, sends
<1>0. OwnIsCounted'
  BY DEF OwnIsCounted
<1>1. ASSUME NEW oid \in Oids, BeginRequest(oid) PROVE Quiet'
  <2>1. EdgeFollows'
    BY <1>1, OidsKnown DEF BeginRequest, EdgeFollows, Lowered, Go, Threads, States,
       TypeOK, WhereThreadsAre
  <2>2. StaysDrained'
    BY <1>1 DEF BeginRequest, StaysDrained, EdgeFollows, Lowered, NoSends, NoAsking,
       Go, Threads, States, TypeOK, WhereThreadsAre
  <2>3. StandingMeans'
    BY <1>1 DEF BeginRequest, StandingMeans, EdgeFollows, Lowered, Go, Threads,
       States, TypeOK, WhereThreadsAre
  <2>4. QED
    BY <2>1, <2>2, <2>3, <1>0
<1>2. ASSUME QueueRequest PROVE Quiet'
  <2>1. EdgeFollows'
    BY <1>2, OidsKnown DEF QueueRequest, MustQueue, EdgeFollows, Lowered, Go,
       Threads, States, TypeOK, WhereThreadsAre
  <2>2. StaysDrained'
    BY <1>2 DEF QueueRequest, MustQueue, StaysDrained, EdgeFollows, Lowered, NoSends,
       NoAsking, Go, Threads, States, TypeOK, WhereThreadsAre
  <2>3. StandingMeans'
    BY <1>2 DEF QueueRequest, MustQueue, StandingMeans, EdgeFollows, Lowered, Go,
       Threads, States, TypeOK, WhereThreadsAre
  <2>4. QED
    BY <2>1, <2>2, <2>3, <1>0
<1>3. ASSUME FailRequest PROVE Quiet'
  <2>1. EdgeFollows'
    BY <1>3, OidsKnown DEF FailRequest, EdgeFollows, Lowered, Go, Threads, States,
       TypeOK, WhereThreadsAre
  <2>2. StaysDrained'
    BY <1>3 DEF FailRequest, StaysDrained, EdgeFollows, Lowered, NoSends, NoAsking,
       Go, Threads, States, TypeOK, WhereThreadsAre
  <2>3. StandingMeans'
    BY <1>3 DEF FailRequest, StandingMeans, EdgeFollows, Lowered, Go, Threads,
       States, TypeOK, WhereThreadsAre
  <2>4. QED
    BY <2>1, <2>2, <2>3, <1>0
<1>4. ASSUME ForwardRequest PROVE Quiet'
  <2>1. EdgeFollows'
    BY <1>4, OidsKnown DEF ForwardRequest, MayForward, EdgeFollows, Lowered, Go,
       Threads, States, TypeOK, WhereThreadsAre
  <2>2. StaysDrained'
    BY <1>4 DEF ForwardRequest, MayForward, StaysDrained, EdgeFollows, Lowered,
       NoSends, NoAsking, Go, Threads, States, TypeOK, WhereThreadsAre
  <2>3. StandingMeans'
    BY <1>4 DEF ForwardRequest, MayForward, StandingMeans, EdgeFollows, Lowered, Go,
       Threads, States, TypeOK, WhereThreadsAre
  <2>4. QED
    BY <2>1, <2>2, <2>3, <1>0
<1>5. ASSUME NEW t \in Threads, NdisRequestPends(t) PROVE Quiet'
  <2>1. EdgeFollows'
    BY <1>5, OidsKnown DEF NdisRequestPends, EdgeFollows, Lowered, Go, Threads,
       States, TypeOK, WhereThreadsAre
  <2>2. StaysDrained'
    BY <1>5 DEF NdisRequestPends, StaysDrained, EdgeFollows, Lowered, NoSends,
       NoAsking, Go, Threads, States, TypeOK, WhereThreadsAre
  <2>3. StandingMeans'
    BY <1>5 DEF NdisRequestPends, StandingMeans, EdgeFollows, Lowered, Go, Threads,
       States, TypeOK, WhereThreadsAre
  <2>4. QED
    BY <2>1, <2>2, <2>3, <1>0
<1>6. ASSUME NEW t \in Threads, NdisRequestReturns(t) PROVE Quiet'
  <2>1. EdgeFollows'
    BY <1>6, OidsKnown DEF NdisRequestReturns, Flushing, EdgeFollows, Lowered, Go,
       Threads, States, TypeOK, WhereThreadsAre
  <2>2. StaysDrained'
    BY <1>6 DEF NdisRequestReturns, Flushing, StaysDrained, EdgeFollows, Lowered,
       NoSends, NoAsking, Go, Threads, States, TypeOK, WhereThreadsAre
  <2>3. StandingMeans'
    BY <1>6 DEF NdisRequestReturns, Flushing, StandingMeans, EdgeFollows, Lowered,
       Go, Threads, States, TypeOK, WhereThreadsAre
  <2>4. QED
    BY <2>1, <2>2, <2>3, <1>0
<1>7. ASSUME SetReturns PROVE Quiet'
  <2>1. EdgeFollows'
    BY <1>7, OidsKnown DEF SetReturns, EdgeFollows, Lowered, Go, Threads, States,
       TypeOK, WhereThreadsAre
  <2>2. StaysDrained'
    BY <1>7 DEF SetReturns, StaysDrained, EdgeFollows, Lowered, NoSends, NoAsking,
       Go, Threads, States, TypeOK, WhereThreadsAre
  <2>3. StandingMeans'
    BY <1>7 DEF SetReturns, StandingMeans, EdgeFollows, Lowered, Go, Threads, States,
       TypeOK, WhereThreadsAre
  <2>4. QED
    BY <2>1, <2>2, <2>3, <1>0
<1>8. ASSUME LowerCompletes PROVE Quiet'
  <2>1. EdgeFollows'
    BY <1>8, OidsKnown DEF LowerCompletes, EdgeFollows, Lowered, Go, Threads, States,
       TypeOK, WhereThreadsAre
  <2>2. StaysDrained'
    BY <1>8 DEF LowerCompletes, StaysDrained, EdgeFollows, Lowered, NoSends,
       NoAsking, Go, Threads, States, TypeOK, WhereThreadsAre
  <2>3. StandingMeans'
    BY <1>8 DEF LowerCompletes, StandingMeans, EdgeFollows, Lowered, Go, Threads,
       States, TypeOK, WhereThreadsAre
  <2>4. QED
    BY <2>1, <2>2, <2>3, <1>0
<1>9. ASSUME NEW t \in Threads, ClearOutstanding(t) PROVE Quiet'
  <2>1. EdgeFollows'
    BY <1>9, OidsKnown DEF ClearOutstanding, Flushing, EdgeFollows, Lowered, Go,
       Threads, States, TypeOK, WhereThreadsAre
  <2>2. StaysDrained'
    BY <1>9 DEF ClearOutstanding, Flushing, StaysDrained, EdgeFollows, Lowered,
       NoSends, NoAsking, Go, Threads, States, TypeOK, WhereThreadsAre
  <2>3. StandingMeans'
    BY <1>9 DEF ClearOutstanding, Flushing, StandingMeans, EdgeFollows, Lowered, Go,
       Threads, States, TypeOK, WhereThreadsAre
  <2>4. QED
    BY <2>1, <2>2, <2>3, <1>0
<1>10. ASSUME NEW t \in Threads, MPQueryPNPCapabilities(t) PROVE Quiet'
  <2>1. EdgeFollows'
    BY <1>10, OidsKnown DEF MPQueryPNPCapabilities, EdgeFollows, Lowered, Go,
       Threads, States, TypeOK, WhereThreadsAre
  <2>2. StaysDrained'
    BY <1>10 DEF MPQueryPNPCapabilities, StaysDrained, EdgeFollows, Lowered, NoSends,
       NoAsking, Go, Threads, States, TypeOK, WhereThreadsAre
  <2>3. StandingMeans'
    BY <1>10 DEF MPQueryPNPCapabilities, StandingMeans, EdgeFollows, Lowered, Go,
       Threads, States, TypeOK, WhereThreadsAre
  <2>4. QED
    BY <2>1, <2>2, <2>3, <1>0
<1>11. ASSUME NEW t \in Threads, Answer(t) PROVE Quiet'
  <2>1. EdgeFollows'
    BY <1>11, OidsKnown DEF Answer, After, EdgeFollows, Lowered, Go, Threads, States,
       TypeOK, WhereThreadsAre
  <2>2. StaysDrained'
    BY <1>11 DEF Answer, After, StaysDrained, EdgeFollows, Lowered, NoSends,
       NoAsking, Go, Threads, States, TypeOK, WhereThreadsAre
  <2>3. StandingMeans'
    BY <1>11 DEF Answer, After, StandingMeans, EdgeFollows, Lowered, Go, Threads,
       States, TypeOK, WhereThreadsAre
  <2>4. QED
    BY <2>1, <2>2, <2>3, <1>0
<1>12. ASSUME NEW state \in States, BeginSetPower(state) PROVE Quiet'
  <2>1. EdgeFollows'
    BY <1>12, OidsKnown DEF BeginSetPower, EdgeFollows, Lowered, Go, Threads, States,
       TypeOK, WhereThreadsAre
  <2>2. StaysDrained'
    BY <1>12 DEF BeginSetPower, StaysDrained, EdgeFollows, Lowered, NoSends,
       NoAsking, Go, Threads, States, TypeOK, WhereThreadsAre
  <2>3. StandingMeans'
    BY <1>12 DEF BeginSetPower, StandingMeans, EdgeFollows, Lowered, Go, Threads,
       States, TypeOK, WhereThreadsAre
  <2>4. QED
    BY <2>1, <2>2, <2>3, <1>0
<1>13. ASSUME EndSetPower PROVE Quiet'
  <2>1. EdgeFollows'
    BY <1>13, OidsKnown DEF EndSetPower, EdgeFollows, Lowered, Go, Threads, States,
       TypeOK, WhereThreadsAre
  <2>2. StaysDrained'
    BY <1>13 DEF EndSetPower, StaysDrained, EdgeFollows, Lowered, NoSends, NoAsking,
       Go, Threads, States, TypeOK, WhereThreadsAre
  <2>3. StandingMeans'
    BY <1>13 DEF EndSetPower, StandingMeans, EdgeFollows, Lowered, Go, Threads,
       States, TypeOK, WhereThreadsAre
  <2>4. QED
    BY <2>1, <2>2, <2>3, <1>0
<1>14. ASSUME NEW state \in States, BeginPowerEvent(state) PROVE Quiet'
  <2>1. EdgeFollows'
    BY <1>14, OidsKnown DEF BeginPowerEvent, EdgeFollows, Lowered, Go, Threads,
       States, TypeOK, WhereThreadsAre
  <2>2. StaysDrained'
    BY <1>14 DEF BeginPowerEvent, StaysDrained, EdgeFollows, Lowered, NoSends,
       NoAsking, Go, Threads, States, TypeOK, WhereThreadsAre
  <2>3. StandingMeans'
    BY <1>14 DEF BeginPowerEvent, StandingMeans, EdgeFollows, Lowered, Go, Threads,
       States, TypeOK, WhereThreadsAre
  <2>4. QED
    BY <2>1, <2>2, <2>3, <1>0
<1>15. ASSUME PowerDown PROVE Quiet'
  <2>1. EdgeFollows'
    BY <1>15, OidsKnown DEF PowerDown, EdgeFollows, Lowered, Go, Threads, States,
       TypeOK, WhereThreadsAre
  <2>2. StaysDrained'
    BY <1>15 DEF PowerDown, StaysDrained, EdgeFollows, Lowered, NoSends, NoAsking,
       Go, Threads, States, TypeOK, WhereThreadsAre
  <2>3. StandingMeans'
    BY <1>15 DEF PowerDown, StandingMeans, EdgeFollows, Lowered, Go, Threads, States,
       TypeOK, WhereThreadsAre
  <2>4. QED
    BY <2>1, <2>2, <2>3, <1>0
<1>16. ASSUME SendsDrained PROVE Quiet'
  <2>1. EdgeFollows'
    BY <1>16, OidsKnown DEF SendsDrained, EdgeFollows, Lowered, Go, Threads, States,
       TypeOK, WhereThreadsAre
  <2>2. StaysDrained'
    BY <1>16 DEF SendsDrained, StaysDrained, EdgeFollows, Lowered, NoSends, NoAsking,
       Go, Threads, States, TypeOK, WhereThreadsAre
  <2>3. StandingMeans'
    BY <1>16 DEF SendsDrained, StandingMeans, EdgeFollows, Lowered, Go, Threads,
       States, TypeOK, WhereThreadsAre
  <2>4. QED
    BY <2>1, <2>2, <2>3, <1>0
<1>17. ASSUME RequestsDrained PROVE Quiet'
  <2>1. EdgeFollows'
    BY <1>17, OidsKnown DEF RequestsDrained, EdgeFollows, Lowered, Go, Threads,
       States, TypeOK, WhereThreadsAre
  <2>2. StaysDrained'
    BY <1>17 DEF RequestsDrained, StaysDrained, EdgeFollows, Lowered, NoSends,
       NoAsking, Go, Threads, States, TypeOK, WhereThreadsAre
  <2>3. StandingMeans'
    BY <1>17 DEF RequestsDrained, StandingMeans, EdgeFollows, Lowered, Go, Threads,
       States, TypeOK, WhereThreadsAre
  <2>4. QED
    BY <2>1, <2>2, <2>3, <1>0
<1>18. ASSUME FlushQueue PROVE Quiet'
  <2>1. EdgeFollows'
    BY <1>18, OidsKnown DEF FlushQueue, EdgeFollows, Lowered, Go, Threads, States,
       TypeOK, WhereThreadsAre
  <2>2. StaysDrained'
    BY <1>18 DEF FlushQueue, StaysDrained, EdgeFollows, Lowered, NoSends, NoAsking,
       Go, Threads, States, TypeOK, WhereThreadsAre
  <2>3. StandingMeans'
    BY <1>18 DEF FlushQueue, StandingMeans, EdgeFollows, Lowered, Go, Threads,
       States, TypeOK, WhereThreadsAre
  <2>4. QED
    BY <2>1, <2>2, <2>3, <1>0
<1>19. ASSUME EndPowerDown PROVE Quiet'
  <2>1. EdgeFollows'
    BY <1>19, OidsKnown DEF EndPowerDown, EdgeFollows, Lowered, Go, Threads, States,
       TypeOK, WhereThreadsAre
  <2>2. StaysDrained'
    BY <1>19 DEF EndPowerDown, StaysDrained, EdgeFollows, Lowered, NoSends, NoAsking,
       Go, Threads, States, TypeOK, WhereThreadsAre
  <2>3. StandingMeans'
    BY <1>19 DEF EndPowerDown, StandingMeans, EdgeFollows, Lowered, Go, Threads,
       States, TypeOK, WhereThreadsAre
  <2>4. QED
    BY <2>1, <2>2, <2>3, <1>0
<1>20. ASSUME PowerUp PROVE Quiet'
  <2>1. EdgeFollows'
    BY <1>20, OidsKnown DEF PowerUp, StandingByAfterUp, EdgeFollows, Lowered, Go,
       Threads, States, TypeOK, WhereThreadsAre
  <2>2. StaysDrained'
    BY <1>20 DEF PowerUp, StandingByAfterUp, StaysDrained, EdgeFollows, Lowered,
       NoSends, NoAsking, Go, Threads, States, TypeOK, WhereThreadsAre
  <2>3. StandingMeans'
    BY <1>20 DEF PowerUp, StandingByAfterUp, StandingMeans, EdgeFollows, Lowered, Go,
       Threads, States, TypeOK, WhereThreadsAre
  <2>4. QED
    BY <2>1, <2>2, <2>3, <1>0
<1>21. ASSUME Unbind PROVE Quiet'
  <2>1. EdgeFollows'
    BY <1>21, OidsKnown DEF Unbind, EdgeFollows, Lowered, Go, Threads, States,
       TypeOK, WhereThreadsAre
  <2>2. StaysDrained'
    BY <1>21 DEF Unbind, StaysDrained, EdgeFollows, Lowered, NoSends, NoAsking, Go,
       Threads, States, TypeOK, WhereThreadsAre
  <2>3. StandingMeans'
    BY <1>21 DEF Unbind, StandingMeans, EdgeFollows, Lowered, Go, Threads, States,
       TypeOK, WhereThreadsAre
  <2>4. QED
    BY <2>1, <2>2, <2>3, <1>0
<1>22. QED
  BY <1>1, <1>2, <1>3, <1>4, <1>5, <1>6, <1>7, <1>8, <1>9, <1>10, <1>11, <1>12,
     <1>13, <1>14, <1>15, <1>16, <1>17, <1>18, <1>19, <1>20, <1>21 DEF MiniportStep,
     LowerStep, PnpStep, CompletionStep, Threads

\* Every step of a packet's thread preserves Quiet: with the protocol edge low
\* no packet is counted anew.
LEMMA SendsKeepQuiet ==
  ASSUME Core, SendsAreCounted, Quiet, NEW p \in Packets, BeginSend(p) \/ SendStep(p)
  PROVE  Quiet'
<1> USE DEF Core, Quiet, power, requests, threads
<1>1. EdgeFollows' /\ StandingMeans'
  BY DEF BeginSend, CountSend, RefuseSend, AllocatePacket, AllocateFails,
     NdisSendPends, NdisSendReturns, PtSendComplete, FreePacket, CompletePacket,
     LeaveSend, SendStep, EdgeFollows, Lowered, StandingMeans
<1>2. CASE BeginSend(p)
  <2>1. StaysDrained'
    BY <1>2 DEF BeginSend, StaysDrained, EdgeFollows, Lowered, NoSends, NoAsking
  <2>2. OwnIsCounted'
    BY <1>2 DEF BeginSend, OwnIsCounted, GoSend, TypeOK
  <2>3. QED
    BY <1>1, <2>1, <2>2
<1>3. CASE CountSend(p)
  <2>1. StaysDrained'
    BY <1>3 DEF CountSend, StaysDrained, EdgeFollows, Lowered, NoSends, NoAsking
  <2>2. OwnIsCounted'
    BY <1>3 DEF CountSend, OwnIsCounted, GoSend, TypeOK
  <2>3. QED
    BY <1>1, <2>1, <2>2
<1>4. CASE RefuseSend(p)
  <2>1. StaysDrained'
    BY <1>4 DEF RefuseSend, StaysDrained, EdgeFollows, Lowered, NoSends, NoAsking
  <2>2. OwnIsCounted'
    BY <1>4 DEF RefuseSend, OwnIsCounted, GoSend, TypeOK
  <2>3. QED
    BY <1>1, <2>1, <2>2
<1>5. CASE AllocatePacket(p)
  <2>1. StaysDrained'
    BY <1>5 DEF AllocatePacket, StaysDrained, EdgeFollows, Lowered, NoSends, NoAsking
  <2>2. OwnIsCounted'
    BY <1>5 DEF AllocatePacket, OwnIsCounted, GoSend, TypeOK
  <2>3. QED
    BY <1>1, <2>1, <2>2
<1>6. CASE AllocateFails(p)
  <2>1. StaysDrained'
    BY <1>6 DEF AllocateFails, StaysDrained, EdgeFollows, Lowered, NoSends, NoAsking
  <2>2. OwnIsCounted'
    BY <1>6 DEF AllocateFails, OwnIsCounted, GoSend, TypeOK
  <2>3. QED
    BY <1>1, <2>1, <2>2
<1>7. CASE NdisSendPends(p)
  <2>1. StaysDrained'
    BY <1>7 DEF NdisSendPends, StaysDrained, EdgeFollows, Lowered, NoSends, NoAsking
  <2>2. OwnIsCounted'
    BY <1>7 DEF NdisSendPends, OwnIsCounted, GoSend, TypeOK
  <2>3. QED
    BY <1>1, <2>1, <2>2
<1>8. CASE NdisSendReturns(p)
  <2>1. StaysDrained'
    BY <1>8 DEF NdisSendReturns, StaysDrained, EdgeFollows, Lowered, NoSends,
       NoAsking
  <2>2. OwnIsCounted'
    BY <1>8 DEF NdisSendReturns, OwnIsCounted, GoSend, TypeOK
  <2>3. QED
    BY <1>1, <2>1, <2>2
<1>9. CASE PtSendComplete(p)
  <2>1. StaysDrained'
    BY <1>9 DEF PtSendComplete, StaysDrained, EdgeFollows, Lowered, NoSends, NoAsking
  <2>2. OwnIsCounted'
    BY <1>9 DEF PtSendComplete, OwnIsCounted, GoSend, TypeOK
  <2>3. QED
    BY <1>1, <2>1, <2>2
<1>10. CASE FreePacket(p)
  <2>1. StaysDrained'
    BY <1>10 DEF FreePacket, StaysDrained, EdgeFollows, Lowered, NoSends, NoAsking
  <2>2. OwnIsCounted'
    BY <1>10 DEF FreePacket, OwnIsCounted, GoSend, TypeOK
  <2>3. QED
    BY <1>1, <2>1, <2>2
<1>11. CASE CompletePacket(p)
  <2>1. StaysDrained'
    BY <1>11 DEF CompletePacket, StaysDrained, EdgeFollows, Lowered, NoSends,
       NoAsking
  <2>2. OwnIsCounted'
    BY <1>11 DEF CompletePacket, OwnIsCounted, GoSend, TypeOK
  <2>3. QED
    BY <1>1, <2>1, <2>2
<1>12. CASE LeaveSend(p)
  <2>1. StaysDrained'
    BY <1>12, CountedFacts DEF LeaveSend, StaysDrained, EdgeFollows, Lowered,
       NoSends, NoAsking, Counted
  <2>2. OwnIsCounted'
    BY <1>12 DEF LeaveSend, OwnIsCounted, GoSend, TypeOK
  <2>3. QED
    BY <1>1, <2>1, <2>2
<1>13. QED
  BY <1>2, <1>3, <1>4, <1>5, <1>6, <1>7, <1>8, <1>9, <1>10, <1>11, <1>12 DEF SendStep

\* With no request for the capabilities, Quiet holds throughout.
THEOREM QuietInvariance ==
  ASSUME "capabilities" \notin Oids
  PROVE  Spec => []Quiet
<1>1. Init => Quiet
  BY DEF Init, Quiet, EdgeFollows, StaysDrained, OwnIsCounted, StandingMeans,
     Lowered, NoSends, NoAsking, Threads
<1>2. Core /\ SendsAreCounted /\ Quiet /\ [Next]_vars => Quiet'
  <2> SUFFICES ASSUME Core, SendsAreCounted, Quiet, [Next]_vars
               PROVE  Quiet'
    OBVIOUS
  <2>1. CASE /\ UNCHANGED sends
             /\ \/ \E oid \in Oids : BeginRequest(oid)
                \/ \E state \in States : BeginSetPower(state) \/ BeginPowerEvent(state)
                \/ Unbind
                \/ MiniportStep \/ LowerStep \/ PnpStep
    BY <2>1, RequestsKeepQuiet
  <2>2. ASSUME NEW p \in Packets, BeginSend(p) \/ SendStep(p)
        PROVE  Quiet'
    BY <2>2, SendsKeepQuiet
  <2>3. CASE UNCHANGED vars
    BY <2>3 DEF vars, power, requests, threads, sends, Quiet, EdgeFollows,
       StaysDrained, OwnIsCounted, StandingMeans, Lowered, NoSends, NoAsking
  <2>4. QED
    BY <2>1, <2>2, <2>3, RequestsLeaveSends DEF Next
<1>3. QED
  BY <1>1, <1>2, Invariance, PTL DEF Spec

\* The ASSERTs at the end of a power-down hold.
THEOREM DrainAssertsHold ==
  ASSUME "capabilities" \notin Oids
  PROVE  Spec => []DrainAsserts
<1>1. Core /\ SendsAreCounted /\ Quiet => DrainAsserts
  <2> SUFFICES ASSUME Core, SendsAreCounted, Quiet, pc["pnp"] = "asserting"
               PROVE  own = {} /\ ~OutstandingRequests
    BY DEF DrainAsserts
  <2>1. OutstandingSends = 0 /\ ~OutstandingRequests
    BY DEF Quiet, StaysDrained, NoSends, NoAsking, Lowered
  <2>2. own = {}
    BY <2>1, CountedFacts DEF Quiet, OwnIsCounted, Counted, Core, TypeOK
  <2>3. QED
    BY <2>1, <2>2
<1>2. QED
  BY <1>1, Invariance, QuietInvariance, PTL

\* Nothing is handed to a lower miniport that is in a low state.
THEOREM QuietWhenLowHolds ==
  ASSUME "capabilities" \notin Oids
  PROVE  Spec => []QuietWhenLow
<1>1. Core /\ SendsAreCounted /\ Quiet => QuietWhenLow
  <2> SUFFICES ASSUME Core, SendsAreCounted, Quiet, lower = "low"
               PROVE  /\ \A p \in Packets : snd[p] \notin {"ready", "below"}
                      /\ ~below /\ \A t \in Threads : pc[t] # "calling"
    BY DEF QuietWhenLow
  <2>1. OutstandingSends = 0 /\ ~OutstandingRequests
    BY DEF Quiet, StaysDrained
  <2>2. \A p \in Packets : snd[p] \notin {"ready", "below"}
    BY <2>1, CountedFacts DEF Counted, Core
  <2>3. ~below /\ \A t \in Threads : pc[t] # "calling"
    BY <2>1 DEF Core, OutstandingMeans
  <2>4. QED
    BY <2>2, <2>3
<1>2. QED
  BY <1>1, Invariance, QuietInvariance, PTL

\* StandingBy does not outlive the transition to D0.
THEOREM StandingByIsCleared ==
  ASSUME "capabilities" \notin Oids
  PROVE  Spec => []StandingByCleared
<1>1. Quiet => StandingByCleared
  BY DEF Quiet, EdgeFollows, StandingMeans, StandingByCleared
<1>2. QED
  BY <1>1, QuietInvariance, PTL
==============================================================================
