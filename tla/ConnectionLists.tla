--------------------------- MODULE ConnectionLists ---------------------------
(***************************************************************************)
(* How the threads that indicate packets find the structures of a           *)
(* connection: the TCP_PCB in g_tcp_pcb (tcp.c) and the APP_FICTION_PROCESS *)
(* in g_app_fiction_process (app.c), each made for the first packet.  Both  *)
(* lists are walked without the spin lock under which an entry is inserted  *)
(* at the head.  Then the packet goes through the receiveList of the        *)
(* process, which every thread that delivers empties.                       *)
(*                                                                          *)
(* What is indicated, and by which thread, is external.  The packets of a   *)
(* connection outside Shared are indicated one at a time; those of the      *)
(* others may be in the hands of several threads at once.                   *)
(***************************************************************************)
EXTENDS Integers

CONSTANTS Threads, Connections,
          Shared,       \* connections that several threads work on at once
          MaxNodes      \* bound: the structures of each list that memory holds

ASSUME SharedConnections == Shared \subseteq Connections
ASSUME NodeBound == MaxNodes \in Nat

Lists == {"pcb", "process"}
Nodes == 1 .. MaxNodes
ListHead == 0           \* the LIST_ENTRY of the list itself
Nobody == "nobody"
ASSUME Strangers == Nobody \notin Threads /\ Nobody \notin Connections

VARIABLES
    next,       \* next[l][n] is the Flink of node n, or of the list head
    owner,      \* the connection a node was filled in for; Nobody: not allocated
    lock,       \* who holds g_tcp_pcb_SpinLock and g_app_process_SpinLock
    pc,         \* where thread t stands, "idle" outside the driver
    list,       \* the list it is at
    conn,       \* the connection of its packet
    at,         \* TempNode, pProcNode
    mine,       \* pcb, pProcess; ListHead when it has none
    waiting,    \* how many packets are in the receiveList of a process
    stopped     \* a NULL entry was used: the system stops

shared == <<next, owner, lock, waiting>>
locals == <<pc, list, conn, at, mine>>
vars == <<shared, locals, stopped>>

TypeOK ==
    /\ next \in [Lists -> [Nodes \cup {ListHead} -> Nodes \cup {ListHead}]]
    /\ owner \in [Lists -> [Nodes -> Connections \cup {Nobody}]]
    /\ lock \in [Lists -> Threads \cup {Nobody}]
    /\ pc \in [Threads -> {"idle", "walk", "insert", "publish", "found", "test", "take"}]
    /\ list \in [Threads -> Lists]
    /\ conn \in [Threads -> Connections \cup {Nobody}]
    /\ at \in [Threads -> Nodes \cup {ListHead}]
    /\ mine \in [Threads -> Nodes \cup {ListHead}]
    /\ waiting \in [Nodes -> Nat]
    /\ stopped \in BOOLEAN

Init ==
    /\ next = [l \in Lists |-> [n \in Nodes \cup {ListHead} |-> ListHead]]
    /\ owner = [l \in Lists |-> [n \in Nodes |-> Nobody]]
    /\ lock = [l \in Lists |-> Nobody]
    /\ pc = [t \in Threads |-> "idle"]
    /\ list = [t \in Threads |-> "pcb"]
    /\ conn = [t \in Threads |-> Nobody]
    /\ at = [t \in Threads |-> ListHead]
    /\ mine = [t \in Threads |-> ListHead]
    /\ waiting = [n \in Nodes |-> 0]
    /\ stopped = FALSE

------------------------------------------------------------------------------
\* NdisAllocateMemoryWithTag: a node no one has, filled in for c, its entry
\* linked to itself by InitializeListHead.
Allocate(l, c, n) ==
    /\ owner[l][n] = Nobody
    /\ \A m \in 1 .. (n - 1) : owner[l][m] # Nobody
    /\ owner' = [owner EXCEPT ![l][n] = c]
    /\ next' = [next EXCEPT ![l][n] = n]

Leave(t) ==
    /\ pc' = [pc EXCEPT ![t] = "idle"]
    /\ conn' = [conn EXCEPT ![t] = Nobody]
    /\ at' = [at EXCEPT ![t] = ListHead]
    /\ mine' = [mine EXCEPT ![t] = ListHead]
    /\ list' = [list EXCEPT ![t] = "pcb"]

\* External: the lower miniport.
MayIndicate(c) == c \in Shared \/ \A t \in Threads : conn[t] # c

\* A TCP packet arrives; a TCP_PCB is allocated for it, and the walk begins.
\* Without memory the packet is passed up and nothing changes.
Indicate(t, c) ==
    /\ pc[t] = "idle" /\ MayIndicate(c)
    /\ \E n \in Nodes :
          /\ Allocate("pcb", c, n)
          /\ mine' = [mine EXCEPT ![t] = n]
    /\ conn' = [conn EXCEPT ![t] = c]
    /\ at' = [at EXCEPT ![t] = next["pcb"][ListHead]]
    /\ pc' = [pc EXCEPT ![t] = "walk"]
    /\ UNCHANGED <<lock, list, waiting, stopped>>

Matches(t) == at[t] # ListHead /\ owner[list[t]][at[t]] = conn[t]

\* Not this one: on along the Flink as it is now.
Walk(t) ==
    /\ pc[t] = "walk" /\ at[t] # ListHead /\ ~Matches(t)
    /\ at' = [at EXCEPT ![t] = next[list[t]][@]]
    /\ UNCHANGED <<shared, pc, list, conn, mine, stopped>>

TakeFound(t) ==
    /\ pc[t] = "walk" /\ Matches(t)
    /\ mine' = [mine EXCEPT ![t] = at[t]]
    /\ at' = [at EXCEPT ![t] = ListHead]
    /\ pc' = [pc EXCEPT ![t] = "found"]
    /\ UNCHANGED <<lock, list, conn, waiting, stopped>>

\* Mutant of FoundPcb: the TCP_PCB that was found is freed.
FoundPcb_FreesFound(t) ==
    /\ list[t] = "pcb"
    /\ TakeFound(t)
    /\ owner' = [owner EXCEPT !["pcb"][at[t]] = Nobody]
    /\ next' = [next EXCEPT !["pcb"][at[t]] = ListHead]

\* The TCP_PCB that was allocated for the packet is freed.
FoundPcb(t) ==
    /\ list[t] = "pcb"
    /\ TakeFound(t)
    /\ owner' = [owner EXCEPT !["pcb"][mine[t]] = Nobody]
    /\ next' = [next EXCEPT !["pcb"][mine[t]] = ListHead]

FoundProcess(t) ==
    /\ list[t] = "process"
    /\ TakeFound(t)
    /\ UNCHANGED <<owner, next>>

NoPcb(t) ==
    /\ pc[t] = "walk" /\ at[t] = ListHead /\ list[t] = "pcb"
    /\ pc' = [pc EXCEPT ![t] = "insert"]
    /\ UNCHANGED <<shared, list, conn, at, mine, stopped>>

NoProcess(t) ==
    /\ pc[t] = "walk" /\ at[t] = ListHead /\ list[t] = "process"
    /\ \E n \in Nodes :
          /\ Allocate("process", conn[t], n)
          /\ mine' = [mine EXCEPT ![t] = n]
    /\ pc' = [pc EXCEPT ![t] = "insert"]
    /\ UNCHANGED <<lock, list, conn, at, waiting, stopped>>

\* No memory for the process: the caller passes the packet up.
NoMemory(t) ==
    /\ pc[t] = "walk" /\ at[t] = ListHead /\ list[t] = "process"
    /\ Leave(t)
    /\ UNCHANGED <<shared, stopped>>

\* Mutant of LockFree: NdisInterlockedInsertHeadList takes no lock.
LockFree_Always(l) == l \in Lists

LockFree(l) == lock[l] = Nobody

\* Mutant of FlinkOf: the entry is published before it is linked.
FlinkOf_Unlinked(l, n) == n

\* What the new entry n is linked to: the first one of the list.
FlinkOf(l, n) == next[l][ListHead]

\* NdisInterlockedInsertHeadList: the entry is linked, then the head.  Both
\* under the lock; a walk sees what is between.
Link(t) ==
    /\ pc[t] = "insert" /\ LockFree(list[t])
    /\ lock' = [lock EXCEPT ![list[t]] = t]
    /\ next' = [next EXCEPT ![list[t]][mine[t]] = FlinkOf(list[t], mine[t])]
    /\ pc' = [pc EXCEPT ![t] = "publish"]
    /\ UNCHANGED <<owner, waiting, list, conn, at, mine, stopped>>

Publish(t) ==
    /\ pc[t] = "publish"
    /\ next' = [next EXCEPT ![list[t]][ListHead] = mine[t]]
    /\ lock' = [lock EXCEPT ![list[t]] = Nobody]
    /\ pc' = [pc EXCEPT ![t] = "found"]
    /\ UNCHANGED <<owner, waiting, list, conn, at, mine, stopped>>

\* With its TCP_PCB the packet may be passed up, or stored (TcpReceive).
ReturnFromTcp(t) ==
    /\ pc[t] = "found" /\ list[t] = "pcb"
    /\ Leave(t)
    /\ UNCHANGED <<shared, stopped>>

\* Or it is the next one of its connection, and goes on to app_receive.
ToApp(t) ==
    /\ pc[t] = "found" /\ list[t] = "pcb"
    /\ list' = [list EXCEPT ![t] = "process"]
    /\ at' = [at EXCEPT ![t] = next["process"][ListHead]]
    /\ mine' = [mine EXCEPT ![t] = ListHead]
    /\ pc' = [pc EXCEPT ![t] = "walk"]
    /\ UNCHANGED <<shared, conn, stopped>>

------------------------------------------------------------------------------
(* The receiveList, app.c 72-98.                                            *)

Enqueue(t) ==
    /\ pc[t] = "found" /\ list[t] = "process"
    /\ waiting' = [waiting EXCEPT ![mine[t]] = @ + 1]
    /\ pc' = [pc EXCEPT ![t] = "test"]
    /\ UNCHANGED <<next, owner, lock, list, conn, at, mine, stopped>>

\* Mutant of NotEmpty: what was put in must still be there.
NotEmpty_NoTest(n) == n \in Nodes

NotEmpty(n) == waiting[n] > 0

TestNotEmpty(t) ==
    /\ pc[t] = "test" /\ NotEmpty(mine[t])
    /\ pc' = [pc EXCEPT ![t] = "take"]
    /\ UNCHANGED <<shared, list, conn, at, mine, stopped>>

\* Mutant of MayLeave: one packet is taken, then the routine returns.
MayLeave_AfterOne(t) == pc[t] = "test"

MayLeave(t) == pc[t] = "test" /\ waiting[mine[t]] = 0

TestEmpty(t) ==
    /\ MayLeave(t)
    /\ Leave(t)
    /\ UNCHANGED <<shared, stopped>>

\* The first one is taken off and passed up, and the loop tests again.
Take(t) ==
    /\ pc[t] = "take" /\ waiting[mine[t]] > 0
    /\ waiting' = [waiting EXCEPT ![mine[t]] = @ - 1]
    /\ pc' = [pc EXCEPT ![t] = "test"]
    /\ UNCHANGED <<next, owner, lock, list, conn, at, mine, stopped>>

\* Another thread emptied the list since the test: the entry is NULL.
TakeNothing(t) ==
    /\ pc[t] = "take" /\ waiting[mine[t]] = 0
    /\ stopped' = TRUE
    /\ UNCHANGED <<shared, locals>>

Inside(t) ==
    \/ Walk(t) \/ FoundPcb(t) \/ FoundProcess(t) \/ NoPcb(t) \/ NoProcess(t) \/ NoMemory(t)
    \/ Link(t) \/ Publish(t) \/ ReturnFromTcp(t) \/ ToApp(t)
    \/ Enqueue(t) \/ TestNotEmpty(t) \/ TestEmpty(t) \/ Take(t) \/ TakeNothing(t)

Next ==
    /\ ~stopped
    /\ \/ \E t \in Threads, c \in Connections : Indicate(t, c)
       \/ \E t \in Threads : Inside(t)

\* A thread inside the driver goes on: it spins on a lock, and waits for nothing.
Spec == Init /\ [][Next]_vars /\ \A t \in Threads : WF_vars(~stopped /\ Inside(t))

------------------------------------------------------------------------------
\* The nodes a thread has allocated and not yet put into the list.
Private(l, n) ==
    \E t \in Threads : /\ list[t] = l /\ mine[t] = n
                       /\ pc[t] \in {"walk", "insert", "publish"}

Published(l) == {n \in Nodes : owner[l][n] # Nobody /\ ~Private(l, n)}

\* The nodes a walk that begins now will meet.
Reachable(l) ==
    LET after[k \in 0 .. MaxNodes] == next[l][IF k = 0 THEN ListHead ELSE after[k - 1]]
    IN  {after[k] : k \in 0 .. MaxNodes} \ {ListHead}

\* A connection has one TCP_PCB and one process, though nobody holds the lock
\* while it looks for them: what others insert meanwhile is not its own, and
\* lies behind it (tcp.c 76-104, app.c 35-69).
OnePerConnection ==
    \A l \in Lists : \A n, m \in Published(l) :
        n = m \/ owner[l][n] # owner[l][m] \/ owner[l][n] \in Shared

\* Nothing that was inserted drops out of a list, and nothing else is in it.
InsertedIsReachable == \A l \in Lists : Reachable(l) = Published(l)

\* A thread works on the structures of its own connection, and they are listed.
FoundIsOwn ==
    \A t \in Threads :
        pc[t] \in {"found", "test", "take"} =>
            mine[t] \in Published(list[t]) /\ owner[list[t]][mine[t]] = conn[t]

\* What the lists and the threads are at: the refinement mapping.
Known == [l \in Lists |-> {[at |-> n, of |-> owner[l][n]] : n \in Published(l)}]
Place == [t \in Threads |-> IF pc[t] = "idle" THEN "outside"
                            ELSE IF pc[t] \in {"walk", "insert", "publish"} THEN "looking"
                            ELSE "has"]
Has == [t \in Threads |-> IF pc[t] \in {"found", "test", "take"} THEN mine[t] ELSE ListHead]

Table == INSTANCE ConnectionTable
             WITH None <- ListHead, known <- Known, place <- Place, has <- Has

\* A look-up and the insertion that may follow, of many steps and mostly without
\* the lock, take effect in one: a thread finds what is listed at that moment, or
\* enters what is not, and nothing is ever taken out (tcp.c 76-104, app.c 35-69).
ImplementsTable == Table!Spec

\* A packet in a receiveList is in the care of a thread that has yet to test
\* whether the list is empty: none is left behind (app.c 72-98).
WaitingIsServed ==
    \A n \in Nodes : waiting[n] > 0 =>
        \E t \in Threads : list[t] = "process" /\ mine[t] = n /\ pc[t] \in {"test", "take"}

\* Between the test and the removal nobody takes the packet away (app.c 77-79).
TakesWhatItTested ==
    \A t \in Threads : pc[t] = "take" /\ conn[t] \notin Shared => waiting[mine[t]] > 0

\* Every indication comes back from the driver: no walk goes round for ever, and
\* no lock is waited for in vain.  A thread that shares its connection may go on
\* delivering what others queue.
IndicationEnds ==
    \A t \in Threads :
        pc[t] # "idle" /\ conn[t] \notin Shared ~> pc[t] = "idle" \/ stopped
==============================================================================
