--------------------------- MODULE ConnectionTable ---------------------------
(***************************************************************************)
(* What the lists of TCP_PCBs and of APP_FICTION_PROCESSes promise the      *)
(* threads that indicate packets, without walks, Flinks, locks and memory   *)
(* that is allocated too early: a thread finds the structure of its         *)
(* connection, or enters one where there is none, in a single step, and no  *)
(* structure ever leaves a list.                                            *)
(***************************************************************************)
CONSTANTS Threads, Connections, Lists, Nodes, Nobody,
          None,       \* no node
          Shared      \* connections that several threads work on at once: these may
                      \* be entered again

VARIABLES known,      \* known[l]: the structures in list l, [at, of]
          place,      \* what a thread is at: "outside", "looking" or "has"
          list,       \* the list it looks in
          conn,       \* the connection of its packet
          has         \* the node of the structure it found or entered

vars == <<known, place, list, conn, has>>

Init ==
    /\ known = [l \in Lists |-> {}]
    /\ place = [t \in Threads |-> "outside"]
    /\ list = [t \in Threads |-> "pcb"]
    /\ conn = [t \in Threads |-> Nobody]
    /\ has = [t \in Threads |-> None]

\* A packet of connection c arrives.
Come(t, c) ==
    /\ place[t] = "outside"
    /\ c \in Shared \/ \A u \in Threads : conn[u] # c
    /\ place' = [place EXCEPT ![t] = "looking"]
    /\ conn' = [conn EXCEPT ![t] = c]
    /\ UNCHANGED <<known, list, has>>

Take(t, n) ==
    /\ place[t] = "looking"
    /\ place' = [place EXCEPT ![t] = "has"]
    /\ has' = [has EXCEPT ![t] = n]
    /\ UNCHANGED <<list, conn>>

Find(t, n) ==
    /\ [at |-> n, of |-> conn[t]] \in known[list[t]]
    /\ Take(t, n)
    /\ UNCHANGED known

Enter(t, n) ==
    /\ \A e \in known[list[t]] : e.at # n
    /\ conn[t] \in Shared \/ \A e \in known[list[t]] : e.of # conn[t]
    /\ Take(t, n)
    /\ known' = [known EXCEPT ![list[t]] = @ \cup {[at |-> n, of |-> conn[t]]}]

\* On with the same packet, from the first list to the second.
GoOn(t) ==
    /\ place[t] = "has" /\ list[t] = "pcb"
    /\ place' = [place EXCEPT ![t] = "looking"]
    /\ list' = [list EXCEPT ![t] = "process"]
    /\ has' = [has EXCEPT ![t] = None]
    /\ UNCHANGED <<known, conn>>

\* Done with the packet, or without memory for its process.
Leave(t) ==
    /\ place[t] = "has" \/ (place[t] = "looking" /\ list[t] = "process")
    /\ place' = [place EXCEPT ![t] = "outside"]
    /\ list' = [list EXCEPT ![t] = "pcb"]
    /\ conn' = [conn EXCEPT ![t] = Nobody]
    /\ has' = [has EXCEPT ![t] = None]
    /\ UNCHANGED known

Next ==
    \E t \in Threads : \/ \E c \in Connections : Come(t, c)
                       \/ \E n \in Nodes : Find(t, n) \/ Enter(t, n)
                       \/ GoOn(t) \/ Leave(t)

Spec == Init /\ [][Next]_vars
==============================================================================
