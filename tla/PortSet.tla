------------------------------- MODULE PortSet -------------------------------
(***************************************************************************)
(* What a list of forbidden ports promises the program that sets it: the    *)
(* ports of a request are forbidden, or allowed, one by one, before it is   *)
(* answered, and nothing else changes the set.  A request to forbid may be  *)
(* refused once Room ports have been forbidden at a time: the place of one  *)
(* that was allowed since does not count.  A list that was never set up     *)
(* refuses always.                                                          *)
(***************************************************************************)
EXTENDS Naturals, FiniteSets

CONSTANTS PortNumbers, Room

VARIABLES
    forbidden,  \* the set
    most,       \* how many ports it has had at a time
    usable,     \* whether the list was set up; never changes
    wish,       \* what the open request is for: "forbid", "allow" or "none"
    ports       \* its ports that are not dealt with

setVars == <<forbidden, most, usable, wish, ports>>

SetInit ==
    /\ forbidden = {} /\ most = 0 /\ usable \in BOOLEAN
    /\ wish = "none" /\ ports = {}

Ask(what, which) ==
    /\ wish = "none"
    /\ wish' = what /\ ports' = which
    /\ UNCHANGED <<forbidden, most, usable>>

Forbid(p) ==
    /\ wish = "forbid" /\ p \in ports
    /\ forbidden' = forbidden \cup {p}
    /\ most' = IF Cardinality(forbidden') > most THEN Cardinality(forbidden') ELSE most
    /\ ports' = ports \ {p}
    /\ UNCHANGED <<usable, wish>>

Refuse(p) ==
    /\ wish = "forbid" /\ p \in ports
    /\ ~usable \/ most = Room
    /\ ports' = ports \ {p}
    /\ UNCHANGED <<forbidden, most, usable, wish>>

Allow(p) ==
    /\ wish = "allow" /\ p \in ports
    /\ forbidden' = forbidden \ {p}
    /\ ports' = ports \ {p}
    /\ UNCHANGED <<most, usable, wish>>

Answer ==
    /\ ports = {}
    /\ wish' = "none"
    /\ UNCHANGED <<forbidden, most, usable, ports>>

SetNext ==
    \/ \E what \in {"forbid", "allow"}, which \in SUBSET PortNumbers : Ask(what, which)
    \/ \E p \in PortNumbers : Forbid(p) \/ Refuse(p) \/ Allow(p)
    \/ Answer

SetSpec == SetInit /\ [][SetNext]_setVars
==============================================================================
