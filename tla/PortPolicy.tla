------------------------------ MODULE PortPolicy ------------------------------
(***************************************************************************)
(* The lists of forbidden ports (PolicyList.c), the requests with which a   *)
(* program sets them over the control device (NdisDevice.c), and the look   *)
(* of UDPAnalysis (Function.c) into the list of the UDP ports, on another   *)
(* thread and without a lock.                                               *)
(*                                                                          *)
(* One program with one request at a time is external.  In this build no    *)
(* code sets up the lists (passthru.c 213) and none calls UDPAnalysis.      *)
(***************************************************************************)
EXTENDS Integers, FiniteSets

CONSTANTS PortNumbers,
          MaxForbidPorts,   \* MAX_FORBID_PORT_NUM, 512 in the code
          SetUps            \* whether InitEnvironment is called

ASSUME PortsArePositive == PortNumbers \subseteq Nat \ {0}
ASSUME RoomForPorts == MaxForbidPorts \in Nat
ASSUME SetUpsAreBooleans == SetUps \subseteq BOOLEAN

BadPort == -1           \* BAD_PROT
Protocols == {"tcp", "udp"}
Places == 0 .. (MaxForbidPorts - 1)

VARIABLES
    setUp,      \* InitEnvironment was called; never changes
    num,        \* of gForbidTcpPortList and gForbidUdpPortList
    slots,      \* TcpPortList and UdpPortList
    monitor,    \* gNdisMonitor
    handle,     \* external: the program's handle: "closed", "open" or "cleaned"
    code,       \* the control code of the open request, "none" between two
    left,       \* the ports of its message that are not dealt with
    place,      \* iBadPortLacal, MaxForbidPorts while no port is being added
    adding,     \* the port being added
    look,       \* the packet whose port is looked for: [port, count, i]
    sawIn, sawOut,  \* history: its port was, or was not, in the list meanwhile
    high        \* history: num of the UDP list when its last port was in place

lists == <<num, slots>>
request == <<monitor, handle, code, left, place, adding>>
reader == <<look, sawIn, sawOut>>
policyVars == <<setUp, lists, request, reader, high>>

NoPlace == MaxForbidPorts
Codes == {"forbidTcp", "allowTcp", "forbidUdp", "allowUdp"}
NoLook == [port |-> BadPort, count |-> 0, i |-> 0]

\* A port below num that is in the list of l.
Listed(l) == {slots[l][i] : i \in {j \in Places : j < num[l]}} \ {BadPort}

PolicyInit ==
    /\ setUp \in SetUps
    /\ num = [l \in Protocols |-> 0]
    /\ slots = [l \in Protocols |-> [i \in Places |-> IF setUp THEN BadPort ELSE 0]]
    /\ monitor = FALSE /\ handle = "closed"
    /\ code = "none" /\ left = {} /\ place = NoPlace /\ adding = BadPort
    /\ look = NoLook /\ sawIn = FALSE /\ sawOut = FALSE /\ high = 0

------------------------------------------------------------------------------
(* NdisDevice.c: the program's requests.                                    *)

HandleGoes(from, to) ==
    /\ handle = from /\ code = "none"
    /\ handle' = to
    /\ UNCHANGED <<setUp, lists, monitor, code, left, place, adding, reader, high>>

DevOpen == HandleGoes("closed", "open")
DevCleanup == HandleGoes("open", "cleaned")
DevClose == HandleGoes("cleaned", "closed")

\* IOCTL_START_MONITOR and IOCTL_STOP_MONITOR.
Monitor(on) ==
    /\ handle = "open" /\ code = "none"
    /\ monitor' = on
    /\ UNCHANGED <<setUp, lists, handle, code, left, place, adding, reader, high>>

DevIoControl(c, ports) ==
    /\ handle = "open" /\ code = "none"
    /\ code' = c /\ left' = ports
    /\ UNCHANGED <<setUp, lists, monitor, handle, place, adding, reader, high>>

\* Mutant of ListOf: the request to allow UDP ports deletes from the other list.
ListOf_Swapped(c) == IF c \in {"forbidTcp", "allowTcp", "allowUdp"} THEN "tcp" ELSE "udp"

ListOf(c) == IF c \in {"forbidTcp", "allowTcp"} THEN "tcp" ELSE "udp"

\* As the code has it: IOCTL_ALLOW_TCP_PORT_BY_PID calls AddForbidTcpPort.
Adds(c) == c \in {"forbidTcp", "allowTcp", "forbidUdp"}

\* The loop over the ports of the message.
Turn(p) == code # "none" /\ place = NoPlace /\ p \in left

IsBad(l, i) == slots[l][i] = BadPort

\* Mutant of Refuses: a port that is in the list is added again.
Refuses_Repeats(l, p) ==
    num[l] >= MaxForbidPorts \/ \A i \in Places : ~IsBad(l, i)

\* AddForbidTcpPort and AddForbidUdpPort return at once.
Refuses(l, p) ==
    \/ num[l] >= MaxForbidPorts
    \/ p \in Listed(l)
    \/ \A i \in Places : ~IsBad(l, i)

AddNothing(p) ==
    /\ Turn(p) /\ Adds(code) /\ Refuses(ListOf(code), p)
    /\ left' = left \ {p}
    /\ UNCHANGED <<setUp, lists, monitor, handle, code, place, adding, reader, high>>

Counts(l, i) == i >= num[l]

\* SearchBadUdpPortLocal finds the first free slot; num grows before the port
\* is there.
AddPlace(p) ==
    /\ Turn(p) /\ Adds(code) /\ ~Refuses(ListOf(code), p)
    /\ \E i \in Places :
          /\ IsBad(ListOf(code), i) /\ \A j \in 0 .. (i - 1) : ~IsBad(ListOf(code), j)
          /\ place' = i
          /\ num' = [num EXCEPT ![ListOf(code)] =
                        IF Counts(ListOf(code), i) THEN @ + 1 ELSE @]
    /\ adding' = p
    /\ UNCHANGED <<setUp, slots, monitor, handle, code, left, reader, high>>

\* History for the look of UDPAnalysis.
Sees ==
    /\ sawIn' = (sawIn \/ look.port \in Listed("udp")')
    /\ sawOut' = (sawOut \/ look.port \notin Listed("udp")')

AddPort ==
    /\ place # NoPlace
    /\ slots' = [slots EXCEPT ![ListOf(code)][place] = adding]
    /\ left' = left \ {adding}
    /\ place' = NoPlace /\ adding' = BadPort
    /\ high' = num["udp"]
    /\ UNCHANGED <<setUp, num, monitor, handle, code, look>>
    /\ Sees

Holds(l, i, p) == i < num[l] /\ slots[l][i] = p

\* Mutant of Freed: the last port of the list moves into the slot.
Freed_Compact(l, p) ==
    [i \in Places |-> IF i = num[l] - 1 /\ p \in Listed(l) THEN BadPort
                      ELSE IF Holds(l, i, p) THEN slots[l][num[l] - 1] ELSE slots[l][i]]

Freed(l, p) == [i \in Places |-> IF Holds(l, i, p) THEN BadPort ELSE slots[l][i]]

\* DeleteForbidUdpPort: the slot is free again, num stays.
DeletePort(p) ==
    /\ Turn(p) /\ ~Adds(code)
    /\ slots' = [slots EXCEPT ![ListOf(code)] = Freed(ListOf(code), p)]
    /\ left' = left \ {p}
    /\ UNCHANGED <<setUp, num, monitor, handle, code, place, adding, look, high>>
    /\ Sees

\* IoCompleteRequest.
CompleteRequest ==
    /\ code # "none" /\ left = {}
    /\ code' = "none"
    /\ UNCHANGED <<setUp, lists, monitor, handle, left, place, adding, reader, high>>

------------------------------------------------------------------------------
(* IsForbidUdpPort, called by UDPAnalysis for a packet.                     *)

\* The loop counts from the number of ports at its beginning.
LookBegins(p) ==
    /\ look = NoLook
    /\ look' = [port |-> p, count |-> num["udp"], i |-> 0]
    /\ sawIn' = (p \in Listed("udp")) /\ sawOut' = (p \notin Listed("udp"))
    /\ UNCHANGED <<setUp, lists, request, high>>

Hit == look.i < look.count /\ slots["udp"][look.i] = look.port

LookOn ==
    /\ look # NoLook /\ look.i < look.count /\ ~Hit
    /\ look' = [look EXCEPT !.i = @ + 1]
    /\ UNCHANGED <<setUp, lists, request, sawIn, sawOut, high>>

LookEnds ==
    /\ look # NoLook
    /\ look.i = look.count \/ Hit
    /\ look' = NoLook /\ sawIn' = FALSE /\ sawOut' = FALSE
    /\ UNCHANGED <<setUp, lists, request, high>>

PolicyNext ==
    \/ DevOpen \/ DevCleanup \/ DevClose
    \/ \E on \in BOOLEAN : Monitor(on)
    \/ \E c \in Codes, ports \in SUBSET PortNumbers : DevIoControl(c, ports)
    \/ \E p \in PortNumbers : AddNothing(p) \/ AddPlace(p) \/ DeletePort(p)
    \/ AddPort \/ CompleteRequest
    \/ \E p \in PortNumbers : LookBegins(p)
    \/ LookOn \/ LookEnds

PolicySpec == PolicyInit /\ [][PolicyNext]_policyVars

------------------------------------------------------------------------------
PolicyTypeOK ==
    /\ setUp \in BOOLEAN
    /\ num \in [Protocols -> 0 .. MaxForbidPorts]
    /\ slots \in [Protocols -> [Places -> PortNumbers \cup {BadPort, 0}]]
    /\ monitor \in BOOLEAN /\ handle \in {"closed", "open", "cleaned"}
    /\ code \in Codes \cup {"none"} /\ left \subseteq PortNumbers
    /\ place \in Places \cup {NoPlace} /\ adding \in PortNumbers \cup {BadPort}
    /\ look \in [port : PortNumbers \cup {BadPort}, count : 0 .. MaxForbidPorts,
                 i : 0 .. MaxForbidPorts]
    /\ sawIn \in BOOLEAN /\ sawOut \in BOOLEAN /\ high \in 0 .. MaxForbidPorts

\* The tables stay fit for the searches: a port is in one slot at most, so that
\* one deletion frees it, and no slot from num on holds one, where IsForbidUdpPort
\* would not look for it (PolicyList.c 24-35, 38-51).
SlotsCorrect ==
    \A l \in Protocols, i, j \in Places :
        slots[l][i] \in PortNumbers =>
            /\ i < num[l]
            /\ slots[l][j] = slots[l][i] => i = j

\* The walk without a lock sees the list as it was at some moment of the walk: a
\* packet is refused only if its port was forbidden then, and passes only if it
\* was not (PolicyList.c 126-147).
LookIsTimely ==
    look # NoLook =>
        /\ Hit => sawIn
        /\ look.i = look.count => sawOut

\* What the open request wants of the UDP list.
wishOf == CASE code = "forbidUdp" -> "forbid"
            [] code = "allowUdp" -> "allow"
            [] OTHER -> "none"
portsOf == IF wishOf = "none" THEN {} ELSE left

UdpPorts == INSTANCE PortSet WITH
    Room <- MaxForbidPorts, forbidden <- Listed("udp"), most <- high,
    usable <- setUp, wish <- wishOf, ports <- portsOf

\* The UDP list implements the set of ports a program was promised, although a
\* port is added in two steps and its slot is looked for.
ImplementsPortSet == UdpPorts!SetSpec
==============================================================================
