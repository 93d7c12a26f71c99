----------------------------- MODULE ReceivePath -----------------------------
(***************************************************************************)
(* Who owns a received packet: PtReceivePacket and PtReceive (protocol.c)   *)
(* get it from the lower miniport, PacketAnalysis may take it over, and     *)
(* MPReturnPacket (miniport.c) gets it back from the protocols above.       *)
(*                                                                          *)
(* Packets are the descriptors of the lower miniport; the driver indicates  *)
(* the same descriptor or one of its pool (the member of mine) in its place.*)
(* An indication runs on a thread of its own.  What the analysis decides is *)
(* TcpReceive's; here it is any of its outcomes: the caller is to pass the  *)
(* packet up, app_receive did, or it went to a queue.                       *)
(***************************************************************************)
EXTENDS Integers, FiniteSets

CONSTANTS Packets, PoolSize,
          NotAccepted    \* NDIS_STATUS_NOT_ACCEPTED read as a count, 65539

ASSUME PacketsFinite == IsFiniteSet(Packets)
ASSUME PoolSizeNat == PoolSize \in Nat
ASSUME NotAcceptedMany == NotAccepted \in Nat /\ NotAccepted > 1

VARIABLES
    MiniportHandle,    \* TRUE iff not NULL
    MPDeviceState,
    at,      \* where the indication of each packet stands
    entry,   \* which handler it came by
    lent,    \* its status is NDIS_STATUS_RESOURCES: ours for the call only
    mine,    \* the packets with a descriptor of RecvPacketPoolHandle
    held,    \* the packets in a queue of the analysis
    above,   \* external: the packets the upper protocols are to return
    owed     \* external: the returns NDIS awaits, by the handlers' results

adapter == <<MiniportHandle, MPDeviceState>>
vars == <<adapter, at, entry, lent, mine, held, above, owed>>

Places == {"lower", "checked", "analysing", "indicating", "leaving", "crashed"}

Init ==
    /\ MiniportHandle = TRUE /\ MPDeviceState = "D0"
    /\ at = [p \in Packets |-> "lower"]
    /\ entry = [p \in Packets |-> "PtReceivePacket"]
    /\ lent = [p \in Packets |-> FALSE]
    /\ mine = {} /\ held = {} /\ above = {}
    /\ owed = [p \in Packets |-> 0]

Go(p, place) == at' = [at EXCEPT ![p] = place]

------------------------------------------------------------------------------
\* The miniport edge is there and on; otherwise the packet is dropped.
Start(p, handler, status) ==
    /\ at[p] = "lower" /\ owed[p] = 0 /\ p \notin above \cup held
    /\ MiniportHandle /\ MPDeviceState = "D0"
    /\ entry' = [entry EXCEPT ![p] = handler]
    /\ lent' = [lent EXCEPT ![p] = status]
    /\ Go(p, "checked")
    /\ UNCHANGED <<adapter, mine, held, above, owed>>

\* The descriptor has room on its stack: it is used again.  Only PtReceivePacket.
ReusePacket(p) ==
    /\ at[p] = "checked" /\ entry[p] = "PtReceivePacket"
    /\ Go(p, "analysing")
    /\ UNCHANGED <<adapter, entry, lent, mine, held, above, owed>>

AllocatePacket(p) ==
    /\ at[p] = "checked" /\ Cardinality(mine) < PoolSize
    /\ mine' = mine \cup {p}
    /\ Go(p, "analysing")
    /\ UNCHANGED <<adapter, entry, lent, held, above, owed>>

\* No packet: PtReceivePacket drops it, PtReceive indicates the bytes instead.
AllocateFails(p) ==
    /\ at[p] = "checked"
    /\ Go(p, "lower")
    /\ UNCHANGED <<adapter, entry, lent, mine, held, above, owed>>

\* Mutant of HandUp: the status of a descriptor of ours does not say it is lent.
HandUp_Unmarked(p) ==
    above' = IF lent[p] /\ p \notin mine THEN above ELSE above \cup {p}

\* NdisMIndicateReceivePacket: the upper protocols keep what is not lent.
HandUp(p) == above' = IF lent[p] THEN above ELSE above \cup {p}

AnalysisPasses(p) ==
    /\ at[p] = "analysing"
    /\ Go(p, "indicating")
    /\ UNCHANGED <<adapter, entry, lent, mine, held, above, owed>>

\* app_receive has passed it up, with whatever MiniportHandle it found.
AnalysisKeeps(p) ==
    /\ at[p] = "analysing"
    /\ IF MiniportHandle
         THEN HandUp(p) /\ Go(p, "leaving")
         ELSE above' = above /\ Go(p, "crashed")
    /\ UNCHANGED <<adapter, entry, lent, mine, held, owed>>

\* The packet stays in ooseq.  PtReceivePacket's result is taken as a count.
AnalysisStores(p) ==
    /\ at[p] = "analysing"
    /\ held' = held \cup {p}
    /\ owed' = [owed EXCEPT ![p] = @ + (IF entry[p] = "PtReceivePacket"
                                        THEN NotAccepted ELSE 0)]
    /\ Go(p, "lower")
    /\ UNCHANGED <<adapter, entry, lent, mine, above>>

\* MiniportHandle is looked at again, except for a descriptor used again.
Indicate(p) ==
    /\ at[p] = "indicating"
    /\ IF MiniportHandle
         THEN HandUp(p) /\ Go(p, "leaving")
         ELSE above' = above /\ Go(p, IF p \in mine THEN "leaving" ELSE "crashed")
    /\ UNCHANGED <<adapter, entry, lent, mine, held, owed>>

\* Mutant of Result: every packet is said to be kept.
Result_One(p) == 1

Result(p) == IF lent[p] THEN 0 ELSE 1

\* Mutant of Leave: a descriptor of ours is not reclaimed.
Leave_NotReclaimed(p) ==
    /\ at[p] = "leaving"
    /\ owed' = [owed EXCEPT ![p] = @ + Result(p)]
    /\ Go(p, "lower")
    /\ UNCHANGED <<adapter, entry, lent, mine, held, above>>

\* The handler returns; what was lent is reclaimed, for no one will return it.
Leave(p) ==
    /\ at[p] = "leaving"
    /\ mine' = IF lent[p] THEN mine \ {p} ELSE mine
    /\ owed' = [owed EXCEPT ![p] = @ + Result(p)]
    /\ Go(p, "lower")
    /\ UNCHANGED <<adapter, entry, lent, held, above>>

------------------------------------------------------------------------------
\* Mutant of MPReturnPacket: only packets that were used again are returned
\* to the miniport below.
MPReturnPacket_Own(p) ==
    /\ p \in above
    /\ above' = above \ {p}
    /\ mine' = mine \ {p}
    /\ owed' = [owed EXCEPT ![p] = @ - (IF p \in mine THEN 0 ELSE 1)]
    /\ UNCHANGED <<adapter, at, entry, lent, held>>

\* Mutant of MPReturnPacket: our descriptor is returned below as well.
MPReturnPacket_Both(p) ==
    /\ p \in above
    /\ above' = above \ {p}
    /\ mine' = mine \ {p}
    /\ owed' = [owed EXCEPT ![p] = @ - (IF p \in mine THEN 2 ELSE 1)]
    /\ UNCHANGED <<adapter, at, entry, lent, held>>

\* The upper protocols are done with it, be it before the handler returns: our
\* own descriptor is freed, and the lower miniport's is returned.
MPReturnPacket(p) ==
    /\ p \in above
    /\ above' = above \ {p}
    /\ mine' = mine \ {p}
    /\ owed' = [owed EXCEPT ![p] = @ - 1]
    /\ UNCHANGED <<adapter, at, entry, lent, held>>

\* MPHalt, up to the place where it clears the handle.
Halt ==
    /\ MiniportHandle
    /\ MiniportHandle' = FALSE
    /\ UNCHANGED <<MPDeviceState, at, entry, lent, mine, held, above, owed>>

\* MPProcessSetPowerOid.
SetPower(state) ==
    /\ MPDeviceState # state
    /\ MPDeviceState' = state
    /\ UNCHANGED <<MiniportHandle, at, entry, lent, mine, held, above, owed>>

------------------------------------------------------------------------------
Step(p) == \/ ReusePacket(p) \/ AllocatePacket(p) \/ AllocateFails(p)
           \/ AnalysisPasses(p) \/ AnalysisKeeps(p) \/ AnalysisStores(p)
           \/ Indicate(p) \/ Leave(p)

Next == \/ \E p \in Packets :
              \/ \E status \in BOOLEAN : Start(p, "PtReceivePacket", status)
              \/ Start(p, "PtReceive", TRUE)
              \/ Step(p) \/ MPReturnPacket(p)
        \/ Halt
        \/ \E state \in {"D0", "low"} : SetPower(state)

\* A handler runs to its end, and the upper protocols return what they keep.
Spec == /\ Init /\ [][Next]_vars
        /\ \A p \in Packets : WF_vars(Step(p)) /\ WF_vars(MPReturnPacket(p))

------------------------------------------------------------------------------
\* Every variable stays in its type.
TypeOK ==
    /\ MiniportHandle \in BOOLEAN /\ MPDeviceState \in {"D0", "low"}
    /\ at \in [Packets -> Places]
    /\ entry \in [Packets -> {"PtReceivePacket", "PtReceive"}]
    /\ lent \in [Packets -> BOOLEAN]
    /\ mine \subseteq Packets /\ held \subseteq Packets /\ above \subseteq Packets
    /\ owed \in [Packets -> {-1, 0, 1, NotAccepted}]

\* PtReceivePacket's result is the number of times the packet will be returned
\* to the lower miniport: what NDIS still awaits is what is still above.  This
\* leaves out what the analysis queued and the time after a halt.
OwedHasHolder ==
    \A p \in Packets \ held :
        (at[p] = "lower" /\ MiniportHandle) =>
            owed[p] = (IF p \in above THEN 1 ELSE 0)

\* A descriptor of the receive pool is in the hands of a handler, in a queue or
\* above: none leaks, and none is freed while the protocols above have it.
PoolIsExact ==
    \A p \in mine :
        \/ at[p] \in {"analysing", "indicating", "leaving"}
        \/ p \in held \cup above
        \/ ~MiniportHandle

\* After the call the protocols above hold nothing that was only lent.
LentNotAbove == \A p \in above : at[p] = "lower" => ~lent[p]

\* Both: no descriptor and no packet is where nobody takes it back.
DescriptorsCorrect == PoolIsExact /\ LentNotAbove

\* Everything the lower miniport gave away comes back, unless it is queued or the
\* miniport is halted.
PacketComesBack ==
    \A p \in Packets :
        at[p] = "checked" ~> \/ at[p] = "lower" /\ owed[p] = 0 /\ p \notin mine
                            \/ p \in held
                            \/ ~MiniportHandle

\* A packet in a queue is to be returned as often as PtReceivePacket said: once,
\* or not at all when it was lent.  The code does not keep this: what it returns
\* for a packet it cannot queue is a status, not a count (README).
HeldIsCounted == \A p \in held : owed[p] \in {0, 1}
==============================================================================
