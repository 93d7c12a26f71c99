------------------------------- MODULE IpReass -------------------------------
(***************************************************************************)
(* Reassembly of IP datagrams: IPAnalysis (Function.c) keeps the fragments  *)
(* of a received datagram in a list that ip_reass (ipv4.c) sorts, and with  *)
(* the last fragment it passes all of them up.  No code of this build calls *)
(* IPAnalysis (Function.c 262); it is modelled as it stands.                *)
(*                                                                          *)
(* The network is external: a datagram is cut into LastOf(d) + 1 fragments, *)
(* which are named [datagram, offset].  One packet is analysed at a time.    *)
(* The result of IPAnalysis is 0 for a packet that is not a fragment, and    *)
(* the caller passes it up; for a fragment it says that IPAnalysis keeps it. *)
(***************************************************************************)
EXTENDS Integers, FiniteSets, SequencesExt

CONSTANTS Datagrams,        \* by addresses and identification
          LastOf(_),        \* the offset of the last fragment; 0: not cut
          MaxCopies,        \* bound: how often a fragment arrives
          NetScenarios      \* the sets of faults a behaviour may meet

\* "reorder": a fragment may overtake another; "repeat": it may arrive again;
\* "options": some headers carry IP options; "alloc": memory may be short;
\* "halt": there is no miniport instance to indicate to.
ASSUME NetScenariosKnown ==
    NetScenarios \subseteq SUBSET {"reorder", "repeat", "options", "alloc", "halt"}
ASSUME FragmentCounts == \A d \in Datagrams : LastOf(d) \in Nat
ASSUME CopiesBound == MaxCopies \in Nat \ {0}

VARIABLES
    netFaults,  \* those this behaviour may meet; never changes
    ipq,        \* the chains of g_reassdatagrams: datagram -> its fragments
    came,       \* external: how often each fragment arrived
    passed,     \* how often each fragment was passed up
    burst,      \* the fragments indicated by the last completion
    lost        \* packets that nobody has: neither kept nor passed up

reassVars == <<netFaults, ipq, came, passed, burst, lost>>

FragmentsOf(d) == {[datagram |-> d, offset |-> o] : o \in 0 .. LastOf(d)}
AllFragments == UNION {FragmentsOf(d) : d \in Datagrams}
MoreFragments(f) == f.offset < LastOf(f.datagram)

ReassInit ==
    /\ netFaults \in NetScenarios
    /\ ipq = << >>
    /\ came = [f \in AllFragments |-> 0]
    /\ passed = [f \in AllFragments |-> 0]
    /\ burst = <<>> /\ lost = 0

\* External: what the network may bring now.
MayCome(f) ==
    /\ came[f] < MaxCopies
    /\ "repeat" \in netFaults \/ came[f] = 0
    /\ "reorder" \in netFaults
       \/ \A g \in FragmentsOf(f.datagram) : g.offset < f.offset => came[g] > 0

Arrive(f) ==
    /\ MayCome(f)
    /\ came' = [came EXCEPT ![f] = @ + 1]
    /\ UNCHANGED netFaults

IsMultipleFragments(f) == f.offset # 0 \/ MoreFragments(f)

\* Not a fragment: the caller passes the packet up.
NotCut(f) ==
    /\ Arrive(f) /\ ~IsMultipleFragments(f)
    /\ passed' = [passed EXCEPT ![f] = @ + 1]
    /\ UNCHANGED <<ipq, burst, lost>>

\* Mutant of GoesBefore: the order of arrival.
GoesBefore_Never(f, g) == FALSE

\* The comparison of the search for a place in the chain.
GoesBefore(f, g) == f.offset < g.offset

\* ip_reass_chain_frag_into_datagram_and_validate: in front of the first
\* fragment with a greater offset, or at the end.
Chained(chain, f) ==
    LET beyond == {i \in 1 .. Len(chain) : GoesBefore(f, chain[i])}
        place == IF beyond = {} THEN Len(chain) + 1
                 ELSE CHOOSE i \in beyond : \A j \in beyond : i <= j
    IN  InsertAt(chain, place, f)

HasChain(d) == d \in DOMAIN ipq

\* The chain a fragment is put into: that of its datagram, or a new one.
ChainOf(d) == IF HasChain(d) THEN ipq[d] ELSE <<>>

With(d, chain) == [e \in DOMAIN ipq \cup {d} |-> IF e = d THEN chain ELSE ipq[e]]

\* Mutant of Without: the chain stays in the list when its packets are gone.
Without_Kept(d) == ipq

Without(d) == [e \in DOMAIN ipq \ {d} |-> ipq[e]]

\* IP_REASS_FLAG_LASTFRAG: what was not received by then is not waited for.
Completes(f) == ~MoreFragments(f)

Store(f) ==
    /\ Arrive(f) /\ IsMultipleFragments(f) /\ ~Completes(f)
    /\ ipq' = With(f.datagram, Chained(ChainOf(f.datagram), f))
    /\ UNCHANGED <<passed, burst, lost>>

\* How often a fragment is in a chain.
Copies(chain, f) == Cardinality({i \in DOMAIN chain : chain[i] = f})

\* The chain leaves the list and its packets are indicated from its head.
CompleteDatagram(f) ==
    /\ Arrive(f) /\ IsMultipleFragments(f) /\ Completes(f)
    /\ "halt" \notin netFaults
    /\ LET chain == Chained(ChainOf(f.datagram), f)
       IN  /\ burst' = chain
           /\ passed' = [g \in AllFragments |->
                            passed[g] + Copies(chain, g)]
    /\ ipq' = Without(f.datagram)
    /\ UNCHANGED lost

\* With no MiniportHandle the chain is forgotten with its packets.
CompleteHalted(f) ==
    /\ Arrive(f) /\ IsMultipleFragments(f) /\ Completes(f)
    /\ "halt" \in netFaults
    /\ lost' = lost + Len(ChainOf(f.datagram)) + 1
    /\ ipq' = Without(f.datagram)
    /\ UNCHANGED <<passed, burst>>

\* ip_reass gives up: a header with options, or no memory for a new chain.
\* IPAnalysis has set its result before and does not look why.
GiveUp(f) ==
    /\ Arrive(f) /\ IsMultipleFragments(f)
    /\ "options" \in netFaults \/ ("alloc" \in netFaults /\ ~HasChain(f.datagram))
    /\ lost' = lost + 1
    /\ UNCHANGED <<ipq, passed, burst>>

\* No memory for the fragment: a new chain stays, empty.
GiveUpFragment(f) ==
    /\ Arrive(f) /\ IsMultipleFragments(f) /\ "alloc" \in netFaults
    /\ ipq' = With(f.datagram, ChainOf(f.datagram))
    /\ lost' = lost + 1
    /\ UNCHANGED <<passed, burst>>

ReassNext ==
    \E f \in AllFragments :
        NotCut(f) \/ Store(f) \/ CompleteDatagram(f) \/ CompleteHalted(f)
        \/ GiveUp(f) \/ GiveUpFragment(f)

ReassTypeOK ==
    /\ netFaults \in NetScenarios
    /\ DOMAIN ipq \subseteq Datagrams
    /\ \A d \in DOMAIN ipq : ipq[d] \in Seq(FragmentsOf(d))
    /\ came \in [AllFragments -> 0 .. MaxCopies] /\ passed \in [AllFragments -> Nat]
    /\ burst \in Seq(AllFragments) /\ lost \in Nat

ReassSpec == ReassInit /\ [][ReassNext]_reassVars

------------------------------------------------------------------------------
\* However the fragments arrived, a datagram goes up sorted by offset, and the
\* fragments of no other one with it (ipv4.c 57-83, 124-134, Function.c 360-371).
GoesUpSorted ==
    \A i, j \in 1 .. Len(burst) :
        i < j => burst[i].datagram = burst[j].datagram /\ burst[i].offset <= burst[j].offset

\* A packet that IPAnalysis keeps is in the chain of its datagram until it goes
\* up, whatever came before it: none is forgotten, none goes up twice, unless
\* IPAnalysis gave up (Function.c 346-385).
KeptIsHeld ==
    lost = 0 => \A f \in AllFragments :
                    came[f] = passed[f] + Copies(ChainOf(f.datagram), f)

\* Fragments that arrive in order make up their datagram: with the last one all
\* have gone up, and nothing waits but what is repeated (ipv4.c 158-164).
DatagramComes ==
    \A d \in Datagrams :
        /\ lost = 0 /\ "reorder" \notin netFaults
        /\ came[[datagram |-> d, offset |-> LastOf(d)]] > 0
        => /\ \A f \in FragmentsOf(d) : passed[f] > 0
           /\ "repeat" \in netFaults \/ ~HasChain(d)

\* What goes up is a datagram, in order and whole where the network allows it.
DatagramsCorrect == GoesUpSorted /\ DatagramComes
==============================================================================
