------------------------------ MODULE TcpReceive ------------------------------
(***************************************************************************)
(* The receive path of one TCP connection: a packet that the lower miniport *)
(* indicates goes through PacketAnalysis and EthAnalysis (Function.c) and   *)
(* ip_receive (ipv4.c) to tcp_recevie (tcp.c), which tells the caller,      *)
(* PtReceive or PtReceivePacket (protocol.c), to pass it up, or keeps it in *)
(* the queue ooseq until the bytes before it are there, or hands it to      *)
(* app_receive (app.c), which passes it up itself.                          *)
(*                                                                          *)
(* The peer, the network and the upper protocol are external.  The peer     *)
(* sends a stream of StreamLength bytes in Segments [from, len]; faults     *)
(* says what else may go wrong.  The lower miniport indicates one packet of *)
(* the connection at a time.  A sequence number is counted mod SeqSpace, a  *)
(* power of two (2^32 in the code).                                         *)
(***************************************************************************)
EXTENDS Integers, SequencesExt

CONSTANTS StreamLength, Segments, SeqSpace, Window,
          Isns,         \* the initial sequence numbers the peer may choose
          Scenarios     \* the sets of faults a behaviour may meet

\* "repeat": bytes may arrive again; "straddle": in one segment with new ones;
\* "reorder": a segment may arrive before another that precedes it;
\* "reconnect": a new connection follows with the same ports; "noSyn": the
\* connection may be older than the driver; "noAck": others may come before the
\* last packet of the handshake; "alloc": memory may be short.
ASSUME FaultsKnown ==
    Scenarios \subseteq SUBSET {"repeat", "straddle", "reorder", "reconnect",
                               "noSyn", "noAck", "alloc"}
ASSUME SegmentsOfStream ==
    /\ StreamLength \in Nat
    /\ Segments \subseteq {s \in [from : 0 .. StreamLength, len : 0 .. StreamLength] :
                              s.from + s.len <= StreamLength}
ASSUME SequenceNumbers == /\ SeqSpace \in Nat \ {0} /\ SeqSpace % 2 = 0
                          /\ Isns \subseteq 0 .. SeqSpace - 1
                          /\ Window \in 1 .. SeqSpace \div 2

VARIABLES
    faults,     \* those this behaviour may meet; never changes
    isn,        \* the number of the SYN; never changes
    status,     \* of the TCP_PCB; CLOSED also before there is one
    rcv_nxt,
    ooseq,      \* the segments whose packets are in the queue
    pc,         \* where the indication stands, "idle" between two
    cur,        \* pPacket, the segment being received
    freed,      \* its NDIS_PACKET_TCP was freed by PMDeleteAppPacket
    verdict,    \* the local status: "pass" (0) or "kept" (RECEIVE_STORAGE_PACKET)
    taken,      \* TempPacket, the segment taken off the queue
    ups,        \* how often the packet of cur was passed up
    hs,         \* external: the peer's side of the connection
    arrived,    \* external: the bytes that reached the driver
    got         \* external: the bytes that reached the upper protocol

pcb == <<status, rcv_nxt, ooseq>>
locals == <<pc, cur, freed, verdict, taken, ups>>
peer == <<hs, arrived>>
given == <<faults, isn>>
vars == <<given, pcb, locals, peer, got>>

Bytes(s) == s.from .. (s.from + s.len - 1)
Stream == 0 .. (StreamLength - 1)

Plus(a, b) == (a + b) % SeqSpace
SeqNo(s) == Plus(isn, 1 + s.from)

\* TCP_SEQ_LT and TCP_SEQ_LEQ: the sign of the difference as an s32_t.
SeqLT(a, b) == (a - b) % SeqSpace >= SeqSpace \div 2
SeqLEQ(a, b) == a = b \/ SeqLT(a, b)
SeqBetween(a, b, c) == SeqLEQ(b, a) /\ SeqLEQ(a, c)

Nothing == [from |-> 0, len |-> 0]

Init ==
    /\ faults \in Scenarios /\ isn \in Isns
    /\ status = "CLOSED" /\ rcv_nxt = 0 /\ ooseq = <<>>
    /\ pc = "idle" /\ cur = Nothing /\ taken = Nothing
    /\ freed = FALSE /\ verdict = "pass" /\ ups = 0
    /\ hs \in {"none"} \cup (IF "noSyn" \in faults THEN {"open"} ELSE {})
    /\ arrived = {} /\ got = {}

------------------------------------------------------------------------------
(* The handshake and the end, tcp.c 110-149: these packets are passed up.   *)

\* The peer opens a connection: SYN from a client, SYN with ACK from a server.
OpenFrom(side) ==
    /\ hs = "none" \/ (hs = "fin" /\ "reconnect" \in faults)
    /\ pc = "idle"
    /\ hs' = side
    /\ arrived' = {} /\ got' = {}

\* Mutant of AfterSyn: the SYN itself is not counted.
AfterSyn_OffByOne == isn

AfterSyn == Plus(isn, 1)

OnSyn ==
    /\ OpenFrom("syn")
    /\ rcv_nxt' = AfterSyn
    /\ status' = "SYN_RCVD"
    /\ UNCHANGED <<given, ooseq, locals>>

OnSynAck ==
    /\ OpenFrom("open")
    /\ rcv_nxt' = AfterSyn
    /\ status' = "ESTABLISHED"
    /\ UNCHANGED <<given, ooseq, locals>>

OnFinAck ==
    /\ pc = "idle" /\ hs = "open"
    /\ "reorder" \in faults \/ arrived = Stream
    /\ hs' = "fin"
    /\ status' = "LAST_ACK"
    /\ UNCHANGED <<given, rcv_nxt, ooseq, locals, arrived, got>>

\* A segment without SYN or FIN reaches the driver.
Arrives(s) ==
    /\ pc = "idle"
    /\ \/ hs = "open"
       \/ hs = "syn" /\ (s = Nothing \/ "noAck" \in faults)
       \/ hs = "fin" /\ (s.len = 0 \/ "repeat" \in faults)
    /\ "reorder" \in faults \/ 0 .. (s.from - 1) \subseteq arrived
    /\ "repeat" \in faults \/ s.len = 0 \/ ~(Bytes(s) \subseteq arrived)
    /\ \/ "straddle" \in faults
       \/ Bytes(s) \subseteq arrived \/ Bytes(s) \cap arrived = {}
    /\ arrived' = arrived \cup Bytes(s)
    /\ hs' = IF hs = "syn" THEN "open" ELSE hs

\* The caller passes it up and is done.
PassUp(s) == got' = got \cup Bytes(s)

OnLastAck(s) ==
    /\ Arrives(s) /\ status = "LAST_ACK"
    /\ status' = "CLOSED"
    /\ PassUp(s)
    /\ UNCHANGED <<given, rcv_nxt, ooseq, locals>>

OnSynRcvd(s) ==
    /\ Arrives(s) /\ status = "SYN_RCVD"
    /\ rcv_nxt' = SeqNo(s)
    /\ status' = "ESTABLISHED"
    /\ PassUp(s)
    /\ UNCHANGED <<given, ooseq, locals>>

\* No memory for the copy or for the TCP_PCB that is made for every packet.
OnShortage(s) ==
    /\ Arrives(s) /\ "alloc" \in faults
    /\ PassUp(s)
    /\ UNCHANGED <<given, pcb, locals>>

------------------------------------------------------------------------------
(* A data segment, tcp.c 152-290.                                           *)

\* Mutant of InWindow: the window is taken to be the segment's length.
InWindow_Narrow(s) == SeqBetween(SeqNo(s), rcv_nxt, Plus(rcv_nxt, s.len - 1))

InWindow(s) == SeqBetween(SeqNo(s), rcv_nxt, Plus(rcv_nxt, Window - 1))

\* No connection, no data, before rcv_nxt (an overlap with what follows is
\* noticed and logged) or beyond the window.
OnOther(s) ==
    /\ Arrives(s)
    /\ \/ status = "CLOSED"
       \/ status = "ESTABLISHED" /\ (s.len = 0 \/ ~InWindow(s))
    /\ PassUp(s)
    /\ UNCHANGED <<given, pcb, locals>>

\* Mutant of Before: a queue in order of arrival.
Before_Never(s, q) == FALSE

\* The comparison of the search for a place in the queue: not modular.
Before(s, q) == SeqNo(s) < SeqNo(q)

\* Kept, in front of the first packet with a greater number.
Store(s) ==
    /\ Arrives(s)
    /\ status = "ESTABLISHED" /\ s.len > 0
    /\ InWindow(s) /\ SeqNo(s) # rcv_nxt
    /\ \E n \in 0 .. Len(ooseq) :
          /\ \A i \in 1 .. n : ~Before(s, ooseq[i])
          /\ n < Len(ooseq) => Before(s, ooseq[n + 1])
          /\ ooseq' = InsertAt(ooseq, n + 1, s)
    /\ UNCHANGED <<given, status, rcv_nxt, locals, got>>

\* The next one: on to its delivery.
InOrder(s) ==
    /\ Arrives(s)
    /\ status = "ESTABLISHED" /\ s.len > 0 /\ SeqNo(s) = rcv_nxt
    /\ cur' = s /\ freed' = FALSE /\ verdict' = "pass" /\ ups' = 0
    /\ pc' = "inserting"
    /\ UNCHANGED <<given, pcb, taken, got>>

InsertHead ==
    /\ pc = "inserting"
    /\ ooseq' = Cons(cur, ooseq)
    /\ pc' = "delivering"
    /\ UNCHANGED <<given, status, rcv_nxt, cur, freed, verdict, taken, ups, peer, got>>

HeadIsNext == ooseq # <<>> /\ SeqNo(Head(ooseq)) = rcv_nxt

\* Mutant of Advance: rcv_nxt stays where it is.
Advance_Kept(s) == rcv_nxt

Advance(s) == Plus(SeqNo(s), s.len)

\* The first packet of the queue is the next one: it is taken off, and rcv_nxt
\* goes past it.
DeliverHead ==
    /\ pc = "delivering" /\ HeadIsNext
    /\ taken' = Head(ooseq)
    /\ ooseq' = Tail(ooseq)
    /\ rcv_nxt' = Advance(Head(ooseq))
    /\ pc' = "submitting"
    /\ UNCHANGED <<given, status, cur, freed, verdict, ups, peer, got>>

\* Mutant of AppReceive: its result is not handed on, and the caller passes
\* the packet up again.
AppReceive_Unsaid ==
    /\ pc = "submitting" /\ ~freed
    /\ got' = got \cup Bytes(cur)
    /\ ups' = ups + 1
    /\ freed' = TRUE
    /\ pc' = "delivering"
    /\ UNCHANGED <<given, pcb, cur, verdict, taken, peer>>

\* app_receive, with an AppPacket whose data is pPacket: its packet is passed
\* up and its structures are freed.
AppReceive ==
    /\ pc = "submitting" /\ ~freed
    /\ got' = got \cup Bytes(cur)
    /\ ups' = ups + 1
    /\ freed' = TRUE
    /\ verdict' = "kept"
    /\ pc' = "delivering"
    /\ UNCHANGED <<given, pcb, cur, taken, peer>>

\* The second turn of the loop, with the structure the first one freed: the
\* system stops, or the memory still holds an empty list and is freed again.
AppReceiveFreed ==
    /\ pc = "submitting" /\ freed
    /\ \/ pc' = "stopped" /\ verdict' = verdict
       \/ pc' = "delivering" /\ verdict' = "pass"
    /\ UNCHANGED <<given, pcb, cur, freed, taken, ups, peer, got>>

\* No memory for the APP_FICTION_PROCESS.
AppReceiveFails ==
    /\ pc = "submitting" /\ ~freed /\ "alloc" \in faults
    /\ verdict' = "pass"
    /\ pc' = "delivering"
    /\ UNCHANGED <<given, pcb, cur, freed, taken, ups, peer, got>>

\* Mutant of DeliverEnds: the loop ends after any turn.
DeliverEnds_Early ==
    /\ pc = "delivering"
    /\ IF verdict = "pass"
         THEN PassUp(cur) /\ ups' = ups + 1
         ELSE UNCHANGED <<given, got, ups>>
    /\ pc' = "idle"
    /\ UNCHANGED <<given, pcb, cur, freed, verdict, taken, peer>>

\* Mutant of DeliverEnds: the caller takes every packet for delivered.
DeliverEnds_Silent ==
    /\ pc = "delivering"
    /\ ~HeadIsNext \/ "alloc" \in faults
    /\ pc' = "idle"
    /\ UNCHANGED <<given, pcb, cur, freed, verdict, taken, ups, peer, got>>

\* The loop ends with the first packet that is not the next, or for want of
\* memory for the AppPacket; the caller passes up what app_receive did not.
DeliverEnds ==
    /\ pc = "delivering"
    /\ ~HeadIsNext \/ "alloc" \in faults
    /\ IF verdict = "pass"
         THEN PassUp(cur) /\ ups' = ups + 1
         ELSE UNCHANGED <<given, got, ups>>
    /\ pc' = "idle"
    /\ UNCHANGED <<given, pcb, cur, freed, verdict, taken, peer>>

------------------------------------------------------------------------------
Deliver == \/ InsertHead \/ DeliverHead \/ DeliverEnds
           \/ AppReceive \/ AppReceiveFreed \/ AppReceiveFails

Receive(s) == \/ OnLastAck(s) \/ OnSynRcvd(s) \/ OnShortage(s) \/ OnOther(s)
              \/ Store(s) \/ InOrder(s)

Next == \/ OnSyn \/ OnSynAck \/ OnFinAck
        \/ \E s \in Segments : Receive(s)
        \/ Deliver

\* A segment with something new: the peer repeats it until it arrives.
ReceiveNew == \E s \in Segments : ~(Bytes(s) \subseteq arrived) /\ Receive(s)

\* An indication comes to its end, and what the peer repeats arrives some time.
Spec == Init /\ [][Next]_vars /\ WF_vars(Deliver) /\ SF_vars(ReceiveNew)

------------------------------------------------------------------------------
\* The first byte the upper protocol does not have.
NextByte == CHOOSE n \in 0 .. StreamLength :
               0 .. (n - 1) \subseteq got /\ n \notin got
Tracking == pc = "idle" /\ status = "ESTABLISHED"

\* What arrives, arrives in order; it may arrive again.
InSequence == faults \subseteq {"repeat", "reconnect", "noSyn"}

\* No byte reaches the driver twice but in a segment with others, and there is
\* one connection.
Unrepeated == {"repeat", "reconnect"} \cap faults = {}

\* The numbers of the stream do not wrap round.
NoWrap == isn + StreamLength < SeqSpace

\* Every variable stays in its type.
TypeOK ==
    /\ status \in {"CLOSED", "SYN_RCVD", "ESTABLISHED", "LAST_ACK"}
    /\ rcv_nxt \in 0 .. SeqSpace - 1
    /\ ooseq \in Seq(Segments)
    /\ pc \in {"idle", "inserting", "delivering", "submitting", "stopped"}
    /\ {cur, taken} \subseteq Segments \cup {Nothing}
    /\ freed \in BOOLEAN /\ verdict \in {"pass", "kept"} /\ ups \in Nat
    /\ hs \in {"none", "syn", "open", "fin"}
    /\ arrived \subseteq Stream /\ got \subseteq Stream

\* rcv_nxt is "the next byte expected" (tcp.h): of an established connection,
\* the one after those the upper protocol has.  A rcv_nxt that lags behind
\* keeps every later segment in the queue for ever.
RcvNxtTracks == (Tracking /\ InSequence) => rcv_nxt = Plus(isn, 1 + NextByte)

\* What rcv_nxt has gone past reached the upper protocol, whichever allocation
\* failed: the driver does not lose what it does not keep.  (What it does keep,
\* behind a hole that is filled later, is lost: SubmitsTaken.)
NothingLost ==
    (Tracking /\ "reorder" \notin faults /\ (InSequence \/ Unrepeated)) =>
        \A n \in Stream : SeqLT(Plus(isn, 1 + n), rcv_nxt) => n \in got

\* The packet of an indication is passed up once, by app_receive or by the
\* caller, not by both.
IndicatedOnce ==
    InSequence => ups <= 1 /\ (pc = "idle" /\ freed => ups = 1)

\* The queue is sorted and its packets do not overlap, unless the peer repeats
\* itself, when what is queued is queued again, or a new connection finds the
\* queue of the one before.
QueueSorted ==
    (NoWrap /\ Unrepeated /\ "straddle" \notin faults) => \A i \in 1 .. Len(ooseq) - 1 :
        SeqLEQ(Plus(SeqNo(ooseq[i]), ooseq[i].len), SeqNo(ooseq[i + 1]))

\* No packet that has become the next one is left in the queue, in whatever
\* order the segments came.  (A segment that was queued twice stays in front of
\* those behind it for ever.)
NothingReadyHeld ==
    (Tracking /\ NoWrap /\ Unrepeated /\ {"straddle", "alloc"} \cap faults = {}) =>
        \A i \in 1 .. Len(ooseq) : SeqNo(ooseq[i]) # rcv_nxt

\* What the queue is for: no byte beyond a hole goes up before the hole is
\* filled.
NothingAhead ==
    (Tracking /\ faults = {"reorder"}) =>
        \A n \in got : SeqLT(Plus(isn, 1 + n), rcv_nxt)

\* All three: the queue is sorted, lets nothing past a hole and keeps nothing that
\* is not behind one.
QueueCorrect == QueueSorted /\ NothingReadyHeld /\ NothingAhead

\* The stream of an open connection that loses nothing on its way reaches the
\* upper protocol to its end.
StreamArrives == (hs = "open" /\ InSequence) ~> got = Stream

\* The packet the loop takes off the queue is the one it hands to app_receive.
SubmitsTaken == pc = "submitting" => taken = cur
==============================================================================
