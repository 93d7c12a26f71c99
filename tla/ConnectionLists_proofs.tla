------------------------ MODULE ConnectionLists_proofs ------------------------
(***************************************************************************)
(* Theorems about ConnectionLists, for any threads, connections and number  *)
(* of nodes.                                                                *)
(*                                                                          *)
(* Nobody holds the lock of a list while it looks for its connection, so    *)
(* that the look is right must come from the lists alone: entries are put   *)
(* in at the head only, and never taken out.  Sorted says so by a rank that *)
(* falls by one along every Flink.  A walk that stands at a node has seen   *)
(* what ranks above, and what is inserted meanwhile is of connections that  *)
(* are not its own, unless several threads share the connection.            *)
(* And a walk from the head meets all that was inserted: there are no more  *)
(* ranks than nodes, and it meets the entries rank by rank.                 *)
(***************************************************************************)
EXTENDS ConnectionLists, FiniteSetTheorems, WellFoundedInduction, TLAPS

\* Thread t has a node that is not in the list.
Holds(t) == pc[t] \in {"walk", "insert", "publish"} /\ mine[t] # ListHead

\* What the locals of a thread are at each place.
PlacesAgree(t) ==
    /\ pc[t] = "idle" <=> conn[t] = Nobody
    /\ pc[t] = "idle" => mine[t] = ListHead /\ list[t] = "pcb"
    /\ pc[t] \in {"test", "take"} => list[t] = "process"
    /\ pc[t] = "walk" => (mine[t] = ListHead <=> list[t] = "process")
    /\ pc[t] \in {"insert", "publish", "found", "test", "take"} => mine[t] # ListHead
    /\ mine[t] # ListHead => owner[list[t]][mine[t]] = conn[t]

\* Only the connections of Shared are in several hands.
Alone ==
    \A t, u \in Threads : t # u /\ conn[t] = conn[u] => conn[t] \in Shared \cup {Nobody}

\* What a thread has allocated no other has.
Distinct ==
    \A t, u \in Threads : t # u /\ Holds(t) /\ list[t] = list[u] => mine[t] # mine[u]

\* The lock is held between Link and Publish.
Locked == \A t \in Threads, l \in Lists : lock[l] = t <=> pc[t] = "publish" /\ list[t] = l

\* Where a Flink of the list may lead.
Entries(l) == Published(l) \cup {ListHead}

\* The rank falls by one along the Flinks, from the first entry to the head.
Falls(l, rank) ==
    /\ rank \in [Nodes \cup {ListHead} -> Nat] /\ rank[ListHead] = 0
    /\ next[l][ListHead] \in Entries(l)
    /\ \A n \in Published(l) : /\ next[l][n] \in Entries(l)
                               /\ rank[n] = rank[next[l][n]] + 1
                               /\ rank[n] <= rank[next[l][ListHead]]
    /\ \A n, m \in Published(l) : rank[n] = rank[m] => n = m

\* What a walk has still to meet ranks no higher than the node it stands at.
SeenBy(t, l, rank) ==
    /\ pc[t] = "walk" => at[t] \in Entries(l)
    /\ pc[t] \in {"walk", "insert", "publish"} /\ conn[t] \notin Shared =>
          \A n \in Published(l) : owner[l][n] = conn[t] =>
              pc[t] = "walk" /\ rank[n] <= rank[at[t]]
    /\ pc[t] = "publish" => next[l][mine[t]] = next[l][ListHead]

Seen(l, rank) == \A t \in Threads : list[t] = l => SeenBy(t, l, rank)

Sorted(l) == \E rank \in [Nodes \cup {ListHead} -> Nat] : Falls(l, rank) /\ Seen(l, rank)

IInv == /\ TypeOK /\ Alone /\ Distinct /\ Locked
        /\ \A t \in Threads : PlacesAgree(t)
        /\ \A l \in Lists : Sorted(l)
        /\ OnePerConnection /\ FoundIsOwn /\ WaitingIsServed /\ TakesWhatItTested

------------------------------------------------------------------------------
\* The list head is no entry.
LEMMA HeadIsNoNode == ListHead \notin Nodes
  BY DEF ListHead, Nodes

\* A walk stands at an entry of its list.
LEMMA AtEntry ==
  ASSUME NEW t \in Threads, list[t] \in Lists, Sorted(list[t]), pc[t] = "walk"
  PROVE  at[t] \in Entries(list[t])
  BY DEF Sorted, Seen, SeenBy

\* What is held is not in the list.
LEMMA HeldIsPrivate ==
  ASSUME NEW t \in Threads, Holds(t)
  PROVE  mine[t] \notin Published(list[t])
  BY DEF Holds, Published, Private

\* And it is not the node of another thread.
LEMMA HeldIsOwn ==
  ASSUME NEW t \in Threads, Holds(t), NEW u \in Threads, u # t, list[u] = list[t],
         mine[u] # ListHead, PlacesAgree(u),
         pc[u] \in {"idle", "walk", "insert", "publish", "found", "test", "take"},
         Distinct, FoundIsOwn
  PROVE  mine[u] # mine[t]
  <1>1. CASE Holds(u)
    BY <1>1 DEF Distinct
  <1>2. CASE ~Holds(u)
    BY <1>2, HeldIsPrivate DEF Holds, PlacesAgree, FoundIsOwn
  <1> QED
    BY <1>1, <1>2

\* Every step keeps the types.
LEMMA Typed ==
  ASSUME TypeOK, \A u \in Threads : PlacesAgree(u), [Next]_vars
  PROVE  TypeOK'
  <1> USE NodeBound, Strangers, HeadIsNoNode DEF TypeOK, Lists
  <1>0. CASE UNCHANGED vars
    BY <1>0 DEF vars, shared, locals
  <1>1. ASSUME NEW t \in Threads, NEW c \in Connections, Indicate(t, c) PROVE TypeOK'
    BY <1>1 DEF Indicate, Allocate, shared, locals
  <1>2. ASSUME NEW t \in Threads, Walk(t) PROVE TypeOK'
    BY <1>2 DEF Walk, Matches, shared, locals
  <1>3. ASSUME NEW t \in Threads, FoundPcb(t) PROVE TypeOK'
    BY <1>3 DEF FoundPcb, TakeFound, Matches, shared, locals
  <1>4. ASSUME NEW t \in Threads, FoundProcess(t) \/ NoPcb(t) PROVE TypeOK'
    BY <1>4 DEF FoundProcess, TakeFound, Matches, NoPcb, shared, locals
  <1>5. ASSUME NEW t \in Threads, NoProcess(t) PROVE TypeOK'
    BY <1>5 DEF NoProcess, Allocate, shared, locals
  <1>6. ASSUME NEW t \in Threads, Link(t) PROVE TypeOK'
    BY <1>6 DEF Link, LockFree, FlinkOf, shared, locals
  <1>7. ASSUME NEW t \in Threads, Publish(t) PROVE TypeOK'
    BY <1>7 DEF Publish, shared, locals
  <1>8. ASSUME NEW t \in Threads, NoMemory(t) \/ ReturnFromTcp(t) \/ ToApp(t) PROVE TypeOK'
    BY <1>8 DEF NoMemory, Leave, ReturnFromTcp, ToApp, shared, locals
  <1>9. ASSUME NEW t \in Threads, Enqueue(t) PROVE TypeOK'
    <2>1. mine[t] \in Nodes
      BY <1>9 DEF Enqueue, PlacesAgree
    <2> QED
      BY <1>9, <2>1 DEF Enqueue, shared, locals
  <1>10. ASSUME NEW t \in Threads, TestNotEmpty(t) PROVE TypeOK'
    BY <1>10 DEF TestNotEmpty, NotEmpty, shared, locals
  <1>11. ASSUME NEW t \in Threads, TestEmpty(t) PROVE TypeOK'
    BY <1>11 DEF TestEmpty, MayLeave, Leave, shared, locals
  <1>12. ASSUME NEW t \in Threads, Take(t) PROVE TypeOK'
    <2>1. mine[t] \in Nodes
      BY <1>12 DEF Take, PlacesAgree
    <2> QED
      BY <1>12, <2>1 DEF Take, shared, locals
  <1>13. ASSUME NEW t \in Threads, TakeNothing(t) PROVE TypeOK'
    BY <1>13 DEF TakeNothing, shared, locals
  <1> QED
    BY <1>0, <1>1, <1>2, <1>3, <1>4, <1>5, <1>6, <1>7, <1>8, <1>9, <1>10, <1>11, <1>12,
       <1>13 DEF Next, Inside

\* Every thread keeps its locals as its place says: its node stays its own.
LEMMA PlacesStay ==
  ASSUME TypeOK, \A u \in Threads : PlacesAgree(u), \A l \in Lists : Sorted(l), Distinct,
         FoundIsOwn, [Next]_vars
  PROVE  \A u \in Threads : PlacesAgree(u)'
  <1> USE NodeBound, Strangers, HeadIsNoNode DEF TypeOK, Lists, PlacesAgree
  <1>0. CASE UNCHANGED vars
    BY <1>0 DEF vars, shared, locals
  <1>1. ASSUME NEW t \in Threads, NEW c \in Connections, Indicate(t, c)
         PROVE  \A u \in Threads : PlacesAgree(u)'
    <2> SUFFICES ASSUME NEW u \in Threads PROVE PlacesAgree(u)'
      OBVIOUS
    <2>3. PICK n \in Nodes : Allocate("pcb", c, n) /\ mine' = [mine EXCEPT ![t] = n]
      BY <1>1 DEF Indicate
    <2>1. CASE u = t
      BY <1>1, <2>1, <2>3 DEF Indicate, Allocate, shared, locals
    <2>2. CASE u # t
      BY <1>1, <2>2, <2>3 DEF Indicate, Allocate, shared, locals
    <2> QED
      BY <2>1, <2>2
  <1>2. ASSUME NEW t \in Threads, Walk(t) PROVE \A u \in Threads : PlacesAgree(u)'
    BY <1>2 DEF Walk, Matches, shared, locals
  <1>3. ASSUME NEW t \in Threads, FoundPcb(t) PROVE \A u \in Threads : PlacesAgree(u)'
    <2> SUFFICES ASSUME NEW u \in Threads PROVE PlacesAgree(u)'
      OBVIOUS
    <2>1. CASE u = t
      BY <1>3, <2>1, AtEntry, HeldIsPrivate DEF FoundPcb, TakeFound, Matches, Entries,
         Published, Holds, shared, locals
    <2>2. CASE u # t
      BY <1>3, <2>2, HeldIsOwn DEF FoundPcb, TakeFound, Matches, Holds, shared, locals
    <2> QED
      BY <2>1, <2>2
  <1>4. ASSUME NEW t \in Threads, FoundProcess(t) \/ NoPcb(t)
         PROVE  \A u \in Threads : PlacesAgree(u)'
    BY <1>4 DEF FoundProcess, TakeFound, Matches, NoPcb, shared, locals
  <1>5. ASSUME NEW t \in Threads, NoProcess(t) PROVE \A u \in Threads : PlacesAgree(u)'
    BY <1>5 DEF NoProcess, Allocate, shared, locals
  <1>6. ASSUME NEW t \in Threads, Link(t) PROVE \A u \in Threads : PlacesAgree(u)'
    BY <1>6 DEF Link, LockFree, FlinkOf, shared, locals
  <1>7. ASSUME NEW t \in Threads, Publish(t) PROVE \A u \in Threads : PlacesAgree(u)'
    BY <1>7 DEF Publish, shared, locals
  <1>8. ASSUME NEW t \in Threads, NoMemory(t) \/ ReturnFromTcp(t) \/ ToApp(t)
         PROVE  \A u \in Threads : PlacesAgree(u)'
    BY <1>8 DEF NoMemory, Leave, ReturnFromTcp, ToApp, shared, locals
  <1>9. ASSUME NEW t \in Threads, Enqueue(t) \/ TestNotEmpty(t) \/ TestEmpty(t)
         PROVE  \A u \in Threads : PlacesAgree(u)'
    BY <1>9 DEF Enqueue, TestNotEmpty, NotEmpty, TestEmpty, MayLeave, Leave, shared, locals
  <1>10. ASSUME NEW t \in Threads, Take(t) \/ TakeNothing(t)
         PROVE  \A u \in Threads : PlacesAgree(u)'
    BY <1>10 DEF Take, TakeNothing, shared, locals
  <1> QED
    BY <1>0, <1>1, <1>2, <1>3, <1>4, <1>5, <1>6, <1>7, <1>8, <1>9, <1>10 DEF Next, Inside

\* The lower miniport gives the packets of an unshared connection to one thread.
LEMMA AloneStays ==
  ASSUME TypeOK, Alone, [Next]_vars
  PROVE  Alone'
  <1> USE NodeBound, Strangers, HeadIsNoNode DEF TypeOK, Lists, Alone, MayIndicate
  <1>0. CASE UNCHANGED vars
    BY <1>0 DEF vars, shared, locals
  <1>1. ASSUME NEW t \in Threads, NEW c \in Connections, Indicate(t, c) PROVE Alone'
    BY <1>1 DEF Indicate, Allocate, shared, locals
  <1>2. ASSUME NEW t \in Threads, Walk(t) PROVE Alone'
    BY <1>2 DEF Walk, Matches, shared, locals
  <1>3. ASSUME NEW t \in Threads, FoundPcb(t) PROVE Alone'
    BY <1>3 DEF FoundPcb, TakeFound, Matches, shared, locals
  <1>4. ASSUME NEW t \in Threads, FoundProcess(t) \/ NoPcb(t) PROVE Alone'
    BY <1>4 DEF FoundProcess, TakeFound, Matches, NoPcb, shared, locals
  <1>5. ASSUME NEW t \in Threads, NoProcess(t) PROVE Alone'
    BY <1>5 DEF NoProcess, Allocate, shared, locals
  <1>6. ASSUME NEW t \in Threads, Link(t) PROVE Alone'
    BY <1>6 DEF Link, LockFree, FlinkOf, shared, locals
  <1>7. ASSUME NEW t \in Threads, Publish(t) PROVE Alone'
    BY <1>7 DEF Publish, shared, locals
  <1>8. ASSUME NEW t \in Threads, NoMemory(t) \/ ReturnFromTcp(t) \/ ToApp(t) PROVE Alone'
    BY <1>8 DEF NoMemory, Leave, ReturnFromTcp, ToApp, shared, locals
  <1>9. ASSUME NEW t \in Threads, Enqueue(t) \/ TestNotEmpty(t) \/ TestEmpty(t) PROVE Alone'
    BY <1>9 DEF Enqueue, TestNotEmpty, NotEmpty, TestEmpty, MayLeave, Leave, shared, locals
  <1>10. ASSUME NEW t \in Threads, Take(t) \/ TakeNothing(t) PROVE Alone'
    BY <1>10 DEF Take, TakeNothing, shared, locals
  <1> QED
    BY <1>0, <1>1, <1>2, <1>3, <1>4, <1>5, <1>6, <1>7, <1>8, <1>9, <1>10 DEF Next, Inside

\* The lock is held between Link and Publish, and only there.
LEMMA LockedStays ==
  ASSUME TypeOK, Locked, [Next]_vars
  PROVE  Locked'
  <1> USE NodeBound, Strangers, HeadIsNoNode DEF TypeOK, Lists, Locked
  <1>0. CASE UNCHANGED vars
    BY <1>0 DEF vars, shared, locals
  <1>1. ASSUME NEW t \in Threads, NEW c \in Connections, Indicate(t, c) PROVE Locked'
    BY <1>1 DEF Indicate, Allocate, shared, locals
  <1>2. ASSUME NEW t \in Threads, Walk(t) PROVE Locked'
    BY <1>2 DEF Walk, Matches, shared, locals
  <1>3. ASSUME NEW t \in Threads, FoundPcb(t) PROVE Locked'
    BY <1>3 DEF FoundPcb, TakeFound, Matches, shared, locals
  <1>4. ASSUME NEW t \in Threads, FoundProcess(t) \/ NoPcb(t) PROVE Locked'
    BY <1>4 DEF FoundProcess, TakeFound, Matches, NoPcb, shared, locals
  <1>5. ASSUME NEW t \in Threads, NoProcess(t) PROVE Locked'
    BY <1>5 DEF NoProcess, Allocate, shared, locals
  <1>6. ASSUME NEW t \in Threads, Link(t) PROVE Locked'
    BY <1>6 DEF Link, LockFree, FlinkOf, shared, locals
  <1>7. ASSUME NEW t \in Threads, Publish(t) PROVE Locked'
    BY <1>7 DEF Publish, shared, locals
  <1>8. ASSUME NEW t \in Threads, NoMemory(t) \/ ReturnFromTcp(t) \/ ToApp(t) PROVE Locked'
    BY <1>8 DEF NoMemory, Leave, ReturnFromTcp, ToApp, shared, locals
  <1>9. ASSUME NEW t \in Threads,
               Enqueue(t) \/ TestNotEmpty(t) \/ TestEmpty(t) PROVE Locked'
    BY <1>9 DEF Enqueue, TestNotEmpty, NotEmpty, TestEmpty, MayLeave, Leave, shared, locals
  <1>10. ASSUME NEW t \in Threads, Take(t) \/ TakeNothing(t) PROVE Locked'
    BY <1>10 DEF Take, TakeNothing, shared, locals
  <1> QED
    BY <1>0, <1>1, <1>2, <1>3, <1>4, <1>5, <1>6, <1>7, <1>8, <1>9, <1>10 DEF Next, Inside

\* What is allocated is nobody else's, and what is found is in the list.
LEMMA DistinctStays ==
  ASSUME TypeOK, Distinct, \A u \in Threads : PlacesAgree(u), \A l \in Lists : Sorted(l),
         [Next]_vars
  PROVE  Distinct'
  <1> USE NodeBound, Strangers, HeadIsNoNode DEF TypeOK, Lists, Distinct, Holds, PlacesAgree
  <1>0. CASE UNCHANGED vars
    BY <1>0 DEF vars, shared, locals
  <1>1. ASSUME NEW t \in Threads, NEW c \in Connections, Indicate(t, c) PROVE Distinct'
    <2> SUFFICES ASSUME NEW u \in Threads, NEW v \in Threads, u # v, Holds(u)', list'[u] = list'[v]
                 PROVE  mine'[u] # mine'[v]
      BY DEF Distinct
    <2>3. PICK n \in Nodes : Allocate("pcb", c, n) /\ mine' = [mine EXCEPT ![t] = n]
      BY <1>1 DEF Indicate
    <2>0. \A w \in Threads : list[w] = "pcb" /\ mine[w] # ListHead => owner["pcb"][mine[w]] # Nobody
      BY Strangers DEF PlacesAgree, TypeOK
    <2>1. CASE u = t
      BY <1>1, <2>0, <2>3, <2>1 DEF Indicate, Allocate, Distinct, Holds, shared, locals
    <2>2. CASE v = t
      BY <1>1, <2>0, <2>3, <2>2 DEF Indicate, Allocate, Distinct, Holds, shared, locals
    <2>4. CASE u # t /\ v # t
      BY <1>1, <2>4 DEF Indicate, Allocate, Distinct, Holds, shared, locals
    <2> QED
      BY <2>1, <2>2, <2>4
  <1>2. ASSUME NEW t \in Threads, Walk(t) PROVE Distinct'
    BY <1>2 DEF Walk, Matches, shared, locals
  <1>3. ASSUME NEW t \in Threads, FoundPcb(t) PROVE Distinct'
    <2> SUFFICES ASSUME NEW u \in Threads, NEW v \in Threads, u # v, Holds(u)', list'[u] = list'[v]
                 PROVE  mine'[u] # mine'[v]
      BY DEF Distinct
    <2>0. ~(Holds(u) /\ list[u] = list[t] /\ mine[u] = at[t])
      BY <1>3, AtEntry, HeldIsPrivate DEF FoundPcb, TakeFound, Matches, TypeOK, Lists,
         Entries, Published
    <2>1. CASE u = t
      BY <1>3, <2>0, <2>1 DEF FoundPcb, TakeFound, Matches, Distinct, Holds, shared, locals
    <2>2. CASE v = t
      BY <1>3, <2>0, <2>2 DEF FoundPcb, TakeFound, Matches, Distinct, Holds, shared, locals
    <2>4. CASE u # t /\ v # t
      BY <1>3, <2>4 DEF FoundPcb, TakeFound, Matches, Distinct, Holds, shared, locals
    <2> QED
      BY <2>1, <2>2, <2>4
  <1>4. ASSUME NEW t \in Threads, FoundProcess(t) PROVE Distinct'
    <2> SUFFICES ASSUME NEW u \in Threads, NEW v \in Threads, u # v, Holds(u)', list'[u] = list'[v]
                 PROVE  mine'[u] # mine'[v]
      BY DEF Distinct
    <2>0. ~(Holds(u) /\ list[u] = list[t] /\ mine[u] = at[t])
      BY <1>4, AtEntry, HeldIsPrivate DEF FoundProcess, TakeFound, Matches, TypeOK, Lists,
         Entries, Published
    <2>1. CASE u = t
      BY <1>4, <2>0, <2>1 DEF FoundProcess, TakeFound, Matches, Distinct, Holds, shared,
         locals
    <2>2. CASE v = t
      BY <1>4, <2>0, <2>2 DEF FoundProcess, TakeFound, Matches, Distinct, Holds, shared,
         locals
    <2>4. CASE u # t /\ v # t
      BY <1>4, <2>4 DEF FoundProcess, TakeFound, Matches, Distinct, Holds, shared, locals
    <2> QED
      BY <2>1, <2>2, <2>4
  <1>5. ASSUME NEW t \in Threads, NoPcb(t) PROVE Distinct'
    BY <1>5 DEF NoPcb, shared, locals
  <1>6. ASSUME NEW t \in Threads, NoProcess(t) PROVE Distinct'
    BY <1>6 DEF NoProcess, Allocate, shared, locals
  <1>7. ASSUME NEW t \in Threads, Link(t) PROVE Distinct'
    BY <1>7 DEF Link, LockFree, FlinkOf, shared, locals
  <1>8. ASSUME NEW t \in Threads, Publish(t) PROVE Distinct'
    BY <1>8 DEF Publish, shared, locals
  <1>9. ASSUME NEW t \in Threads,
               NoMemory(t) \/ ReturnFromTcp(t) \/ ToApp(t) PROVE Distinct'
    BY <1>9 DEF NoMemory, Leave, ReturnFromTcp, ToApp, shared, locals
  <1>10. ASSUME NEW t \in Threads, Enqueue(t) \/ TestNotEmpty(t) \/ TestEmpty(t)
         PROVE  Distinct'
    BY <1>10 DEF Enqueue, TestNotEmpty, NotEmpty, TestEmpty, MayLeave, Leave, shared, locals
  <1>11. ASSUME NEW t \in Threads, Take(t) \/ TakeNothing(t) PROVE Distinct'
    BY <1>11 DEF Take, TakeNothing, shared, locals
  <1> QED
    BY <1>0, <1>1, <1>2, <1>3, <1>4, <1>5, <1>6, <1>7, <1>8, <1>9, <1>10, <1>11 DEF Next,
       Inside

\* But for Publish, no step puts a node into the list or takes one out.
LEMMA PublishedStays ==
  ASSUME TypeOK, \A u \in Threads : PlacesAgree(u), \A k \in Lists : Sorted(k), Distinct,
         FoundIsOwn, [Next]_vars,
         NEW l \in Lists, ~ \E t \in Threads : Publish(t) /\ list[t] = l
  PROVE  Published(l)' = Published(l)
  <1> SUFFICES ASSUME NEW n \in Nodes PROVE n \in Published(l)' <=> n \in Published(l)
    BY DEF Published
  <1> USE NodeBound, Strangers, HeadIsNoNode DEF TypeOK, Lists, PlacesAgree, Published,
          Private
  <1>0. CASE UNCHANGED vars
    BY <1>0 DEF vars, shared, locals
  <1>1. ASSUME NEW t \in Threads, NEW c \in Connections, Indicate(t, c)
         PROVE  n \in Published(l)' <=> n \in Published(l)
    BY <1>1 DEF Indicate, Allocate, shared, locals
  <1>2. ASSUME NEW t \in Threads, Walk(t) PROVE n \in Published(l)' <=> n \in Published(l)
    BY <1>2 DEF Walk, Matches, shared, locals
  <1>3. ASSUME NEW t \in Threads,
               FoundPcb(t) PROVE n \in Published(l)' <=> n \in Published(l)
    BY <1>3 DEF FoundPcb, TakeFound, Matches, shared, locals
  <1>4. ASSUME NEW t \in Threads, FoundProcess(t) \/ NoPcb(t)
         PROVE  n \in Published(l)' <=> n \in Published(l)
    BY <1>4 DEF FoundProcess, TakeFound, Matches, NoPcb, shared, locals
  <1>5. ASSUME NEW t \in Threads, NoProcess(t)
         PROVE  n \in Published(l)' <=> n \in Published(l)
    BY <1>5 DEF NoProcess, Allocate, shared, locals
  <1>6. ASSUME NEW t \in Threads, Link(t) PROVE n \in Published(l)' <=> n \in Published(l)
    BY <1>6 DEF Link, LockFree, FlinkOf, shared, locals
  <1>7. ASSUME NEW t \in Threads,
               Publish(t) PROVE n \in Published(l)' <=> n \in Published(l)
    BY <1>7 DEF Publish, shared, locals
  <1>8. ASSUME NEW t \in Threads, NoMemory(t) \/ ReturnFromTcp(t) \/ ToApp(t)
         PROVE  n \in Published(l)' <=> n \in Published(l)
    BY <1>8 DEF NoMemory, Leave, ReturnFromTcp, ToApp, shared, locals
  <1>9. ASSUME NEW t \in Threads, Enqueue(t) \/ TestNotEmpty(t) \/ TestEmpty(t)
         PROVE  n \in Published(l)' <=> n \in Published(l)
    BY <1>9 DEF Enqueue, TestNotEmpty, NotEmpty, TestEmpty, MayLeave, Leave, shared, locals
  <1>10. ASSUME NEW t \in Threads, Take(t) \/ TakeNothing(t)
         PROVE  n \in Published(l)' <=> n \in Published(l)
    BY <1>10 DEF Take, TakeNothing, shared, locals
  <1> QED
    BY <1>0, <1>1, <1>2, <1>3, <1>4, <1>5, <1>6, <1>7, <1>8, <1>9, <1>10 DEF Next, Inside

\* A list that only changes at nodes that are not in it keeps its order.
LEMMA FallsStays ==
  ASSUME NEW l \in Lists, NEW rank, Falls(l, rank), Published(l)' = Published(l),
         \A n \in Entries(l) : next'[l][n] = next[l][n]
  PROVE  Falls(l, rank)'
  BY DEF Falls, Entries

\* Nor does it change a Flink of the list.
LEMMA LinksStay ==
  ASSUME TypeOK, \A u \in Threads : PlacesAgree(u), \A k \in Lists : Sorted(k), Distinct,
         FoundIsOwn, [Next]_vars,
         NEW l \in Lists, ~ \E t \in Threads : Publish(t) /\ list[t] = l
  PROVE  \A n \in Entries(l) : next'[l][n] = next[l][n]
  <1> USE NodeBound, Strangers, HeadIsNoNode DEF TypeOK, Lists, PlacesAgree, Entries,
          Published, Private
  <1>0. CASE UNCHANGED vars
    BY <1>0 DEF vars, shared, locals
  <1>1. ASSUME NEW t \in Threads, NEW c \in Connections, Indicate(t, c)
         PROVE  \A n \in Entries(l) : next'[l][n] = next[l][n]
    BY <1>1 DEF Indicate, Allocate, shared, locals
  <1>2. ASSUME NEW t \in Threads,
               Walk(t) PROVE \A n \in Entries(l) : next'[l][n] = next[l][n]
    BY <1>2 DEF Walk, Matches, shared, locals
  <1>3. ASSUME NEW t \in Threads, FoundPcb(t)
         PROVE  \A n \in Entries(l) : next'[l][n] = next[l][n]
    BY <1>3 DEF FoundPcb, TakeFound, Matches, shared, locals
  <1>4. ASSUME NEW t \in Threads, FoundProcess(t) \/ NoPcb(t)
         PROVE  \A n \in Entries(l) : next'[l][n] = next[l][n]
    BY <1>4 DEF FoundProcess, TakeFound, Matches, NoPcb, shared, locals
  <1>5. ASSUME NEW t \in Threads, NoProcess(t)
         PROVE  \A n \in Entries(l) : next'[l][n] = next[l][n]
    BY <1>5 DEF NoProcess, Allocate, shared, locals
  <1>6. ASSUME NEW t \in Threads,
               Link(t) PROVE \A n \in Entries(l) : next'[l][n] = next[l][n]
    BY <1>6 DEF Link, LockFree, FlinkOf, shared, locals
  <1>7. ASSUME NEW t \in Threads, Publish(t)
         PROVE  \A n \in Entries(l) : next'[l][n] = next[l][n]
    BY <1>7 DEF Publish, shared, locals
  <1>8. ASSUME NEW t \in Threads, NoMemory(t) \/ ReturnFromTcp(t) \/ ToApp(t)
         PROVE  \A n \in Entries(l) : next'[l][n] = next[l][n]
    BY <1>8 DEF NoMemory, Leave, ReturnFromTcp, ToApp, shared, locals
  <1>9. ASSUME NEW t \in Threads, Enqueue(t) \/ TestNotEmpty(t) \/ TestEmpty(t)
         PROVE  \A n \in Entries(l) : next'[l][n] = next[l][n]
    BY <1>9 DEF Enqueue, TestNotEmpty, NotEmpty, TestEmpty, MayLeave, Leave, shared, locals
  <1>10. ASSUME NEW t \in Threads, Take(t) \/ TakeNothing(t)
         PROVE  \A n \in Entries(l) : next'[l][n] = next[l][n]
    BY <1>10 DEF Take, TakeNothing, shared, locals
  <1> QED
    BY <1>0, <1>1, <1>2, <1>3, <1>4, <1>5, <1>6, <1>7, <1>8, <1>9, <1>10 DEF Next, Inside

\* A node of the list stays the one of its connection.
LEMMA OwnersStay ==
  ASSUME TypeOK, \A u \in Threads : PlacesAgree(u), \A k \in Lists : Sorted(k), Distinct,
         FoundIsOwn, [Next]_vars,
         NEW l \in Lists
  PROVE  \A n \in Published(l) : owner'[l][n] = owner[l][n]
  <1> USE NodeBound, Strangers, HeadIsNoNode DEF TypeOK, Lists, PlacesAgree, Published,
          Private
  <1>0. CASE UNCHANGED vars
    BY <1>0 DEF vars, shared, locals
  <1>1. ASSUME NEW t \in Threads, NEW c \in Connections, Indicate(t, c)
         PROVE  \A n \in Published(l) : owner'[l][n] = owner[l][n]
    BY <1>1 DEF Indicate, Allocate, shared, locals
  <1>2. ASSUME NEW t \in Threads, Walk(t)
         PROVE  \A n \in Published(l) : owner'[l][n] = owner[l][n]
    BY <1>2 DEF Walk, Matches, shared, locals
  <1>3. ASSUME NEW t \in Threads, FoundPcb(t)
         PROVE  \A n \in Published(l) : owner'[l][n] = owner[l][n]
    BY <1>3 DEF FoundPcb, TakeFound, Matches, shared, locals
  <1>4. ASSUME NEW t \in Threads, FoundProcess(t) \/ NoPcb(t)
         PROVE  \A n \in Published(l) : owner'[l][n] = owner[l][n]
    BY <1>4 DEF FoundProcess, TakeFound, Matches, NoPcb, shared, locals
  <1>5. ASSUME NEW t \in Threads, NoProcess(t)
         PROVE  \A n \in Published(l) : owner'[l][n] = owner[l][n]
    BY <1>5 DEF NoProcess, Allocate, shared, locals
  <1>6. ASSUME NEW t \in Threads, Link(t)
         PROVE  \A n \in Published(l) : owner'[l][n] = owner[l][n]
    BY <1>6 DEF Link, LockFree, FlinkOf, shared, locals
  <1>7. ASSUME NEW t \in Threads, Publish(t)
         PROVE  \A n \in Published(l) : owner'[l][n] = owner[l][n]
    BY <1>7 DEF Publish, shared, locals
  <1>8. ASSUME NEW t \in Threads, NoMemory(t) \/ ReturnFromTcp(t) \/ ToApp(t)
         PROVE  \A n \in Published(l) : owner'[l][n] = owner[l][n]
    BY <1>8 DEF NoMemory, Leave, ReturnFromTcp, ToApp, shared, locals
  <1>9. ASSUME NEW t \in Threads, Enqueue(t) \/ TestNotEmpty(t) \/ TestEmpty(t)
         PROVE  \A n \in Published(l) : owner'[l][n] = owner[l][n]
    BY <1>9 DEF Enqueue, TestNotEmpty, NotEmpty, TestEmpty, MayLeave, Leave, shared, locals
  <1>10. ASSUME NEW t \in Threads, Take(t) \/ TakeNothing(t)
         PROVE  \A n \in Published(l) : owner'[l][n] = owner[l][n]
    BY <1>10 DEF Take, TakeNothing, shared, locals
  <1> QED
    BY <1>0, <1>1, <1>2, <1>3, <1>4, <1>5, <1>6, <1>7, <1>8, <1>9, <1>10 DEF Next, Inside

\* A step of t, and one in which t stands still with what it works on.
Moves(t) == Inside(t) \/ \E c \in Connections : Indicate(t, c)

Stands(t) ==
    /\ pc'[t] = pc[t] /\ list'[t] = list[t] /\ conn'[t] = conn[t]
    /\ at'[t] = at[t] /\ mine'[t] = mine[t]
    /\ pc[t] = "publish" => next'[list[t]][mine[t]] = next[list[t]][mine[t]]

\* What a thread has seen stays seen when others move.
LEMMA SeenByOther ==
  ASSUME NEW l \in Lists, NEW rank, NEW u \in Threads, SeenBy(u, l, rank),
         Published(l)' = Published(l), \A n \in Entries(l) : next'[l][n] = next[l][n],
         \A n \in Published(l) : owner'[l][n] = owner[l][n],
         list[u] = l, Stands(u)
  PROVE  SeenBy(u, l, rank)'
  BY DEF SeenBy, Entries, Stands

\* Every entry ranks above the head of the list.
LEMMA EntryRanks ==
  ASSUME NEW l \in Lists, NEW rank, Falls(l, rank), NEW n \in Published(l)
  PROVE  ~(rank[n] <= rank[ListHead])
  <1>1. rank[ListHead] = 0 /\ rank[n] = rank[next[l][n]] + 1
    BY DEF Falls
  <1>2. rank[next[l][n]] \in Nat
    BY DEF Falls, Entries, Published
  <1> QED
    BY <1>1, <1>2

\* A step of one thread leaves what another works with alone.
LEMMA OthersStand ==
  ASSUME TypeOK, \A u \in Threads : PlacesAgree(u), \A k \in Lists : Sorted(k), Distinct,
         FoundIsOwn, Locked,
         NEW u \in Threads,
         NEW t \in Threads, Moves(t)
  PROVE  u # t => Stands(u)
  <1> HAVE u # t
  <1> USE NodeBound, Strangers, HeadIsNoNode DEF TypeOK, Lists, PlacesAgree, Locked, Stands
  <1>1. CASE \E c \in Connections : Indicate(t, c)
    BY <1>1 DEF Indicate, Allocate, shared, locals
  <1>2. CASE Walk(t)
    BY <1>2 DEF Walk, Matches, shared, locals
  <1>3. CASE FoundPcb(t)
    BY <1>3, HeldIsOwn DEF FoundPcb, TakeFound, Matches, Holds, shared, locals
  <1>4. CASE FoundProcess(t) \/ NoPcb(t)
    BY <1>4 DEF FoundProcess, TakeFound, Matches, NoPcb, shared, locals
  <1>5. CASE NoProcess(t)
    BY <1>5 DEF NoProcess, Allocate, shared, locals
  <1>6. CASE Link(t)
    BY <1>6 DEF Link, LockFree, FlinkOf, shared, locals
  <1>7. CASE Publish(t)
    BY <1>7 DEF Publish, shared, locals
  <1>8. CASE NoMemory(t) \/ ReturnFromTcp(t) \/ ToApp(t)
    BY <1>8 DEF NoMemory, Leave, ReturnFromTcp, ToApp, shared, locals
  <1>9. CASE Enqueue(t) \/ TestNotEmpty(t) \/ TestEmpty(t)
    BY <1>9 DEF Enqueue, TestNotEmpty, NotEmpty, TestEmpty, MayLeave, Leave, shared, locals
  <1>10. CASE Take(t) \/ TakeNothing(t)
    BY <1>10 DEF Take, TakeNothing, shared, locals
  <1> QED
    BY <1>1, <1>2, <1>3, <1>4, <1>5, <1>6, <1>7, <1>8, <1>9, <1>10 DEF Inside, Moves

\* A walk has seen what ranks above the node it stands at.
LEMMA MoverHasSeen ==
  ASSUME TypeOK, \A u \in Threads : PlacesAgree(u), \A k \in Lists : Sorted(k), Distinct,
         FoundIsOwn, NEW l \in Lists,
         Published(l)' = Published(l), \A n \in Entries(l) : next'[l][n] = next[l][n],
         \A n \in Published(l) : owner'[l][n] = owner[l][n],
         NEW rank, Falls(l, rank), Seen(l, rank),
         NEW t \in Threads, Moves(t)
  PROVE  ~Publish(t) /\ list'[t] = l => SeenBy(t, l, rank)'
  <1> SUFFICES ASSUME ~Publish(t), list'[t] = l PROVE SeenBy(t, l, rank)'
    OBVIOUS
  <1> USE NodeBound, Strangers, HeadIsNoNode DEF TypeOK, Lists, PlacesAgree, Seen, SeenBy,
          Falls, Entries
  <1>1. CASE \E c \in Connections : Indicate(t, c)
    BY <1>1 DEF Indicate, Allocate, shared, locals
  <1>2. CASE Walk(t)
    <2>1. /\ at[t] \in Published(l) /\ owner[l][at[t]] # conn[t]
          /\ pc[t] = "walk" /\ pc'[t] = "walk" /\ at'[t] = next[l][at[t]]
          /\ UNCHANGED <<next, owner, conn, mine, list>>
      BY <1>2 DEF Walk, Matches, shared, locals
    <2>2. next[l][at[t]] \in Entries(l) /\ rank[at[t]] = rank[next[l][at[t]]] + 1
      BY <2>1 DEF Falls
    <2>3. ASSUME NEW n \in Published(l), rank[n] <= rank[at[t]], n # at[t]
          PROVE  rank[n] <= rank[next[l][at[t]]]
      <3>1. rank[n] # rank[at[t]]
        BY <2>1, <2>3 DEF Falls
      <3>2. rank[n] \in Nat /\ rank[at[t]] \in Nat /\ rank[next[l][at[t]]] \in Nat
        BY <2>1, <2>2 DEF Falls, Published, Entries
      <3> QED
        BY <2>2, <2>3, <3>1, <3>2
    <2> QED
      BY <2>1, <2>2, <2>3
  <1>3. CASE FoundPcb(t)
    BY <1>3 DEF FoundPcb, TakeFound, Matches, shared, locals
  <1>4. CASE FoundProcess(t)
    BY <1>4 DEF FoundProcess, TakeFound, Matches, shared, locals
  <1>5. CASE NoPcb(t)
    <2>1. \A n \in Published(l) : ~(rank[n] <= rank[at[t]])
      BY <1>5, EntryRanks DEF NoPcb
    <2> QED
      BY <1>5, <2>1 DEF NoPcb, shared, locals
  <1>6. CASE NoProcess(t)
    <2>1. \A n \in Published(l) : ~(rank[n] <= rank[at[t]])
      BY <1>6, EntryRanks DEF NoProcess
    <2> QED
      BY <1>6, <2>1 DEF NoProcess, Allocate, shared, locals
  <1>7. CASE Link(t)
    BY <1>7 DEF Link, LockFree, FlinkOf, shared, locals
  <1>8. CASE Publish(t)
    BY <1>8 DEF Publish, shared, locals
  <1>9. CASE NoMemory(t) \/ ReturnFromTcp(t) \/ ToApp(t)
    BY <1>9 DEF NoMemory, Leave, ReturnFromTcp, ToApp, shared, locals
  <1>10. CASE Enqueue(t) \/ TestNotEmpty(t) \/ TestEmpty(t)
    BY <1>10 DEF Enqueue, TestNotEmpty, NotEmpty, TestEmpty, MayLeave, Leave, shared, locals
  <1>11. CASE Take(t) \/ TakeNothing(t)
    BY <1>11 DEF Take, TakeNothing, shared, locals
  <1> QED
    BY <1>1, <1>2, <1>3, <1>4, <1>5, <1>6, <1>7, <1>8, <1>9, <1>10, <1>11 DEF Inside, Moves

\* So Seen is kept by every step that publishes nothing in the list.
LEMMA SeenStays ==
  ASSUME TypeOK, \A u \in Threads : PlacesAgree(u), \A k \in Lists : Sorted(k), Distinct,
         FoundIsOwn, Locked, [Next]_vars,
         NEW l \in Lists, ~ \E t \in Threads : Publish(t) /\ list[t] = l,
         Published(l)' = Published(l), \A n \in Entries(l) : next'[l][n] = next[l][n],
         \A n \in Published(l) : owner'[l][n] = owner[l][n],
         NEW rank, Falls(l, rank), Seen(l, rank)
  PROVE  Seen(l, rank)'
  <1> SUFFICES ASSUME NEW u \in Threads, list'[u] = l PROVE SeenBy(u, l, rank)'
    BY DEF Seen
  <1>1. CASE UNCHANGED vars
    BY <1>1, SeenByOther DEF vars, shared, locals, Seen, Stands
  <1>2. ASSUME NEW t \in Threads, Moves(t) PROVE SeenBy(u, l, rank)'
    <2>1. CASE u = t
      <3>1. ~Publish(t)
        BY <2>1 DEF Publish
      <3> QED
        BY <1>2, <2>1, <3>1, MoverHasSeen
    <2>2. CASE u # t
      <3>1. Stands(u)
        BY <1>2, <2>2, OthersStand
      <3>2. list[u] = l
        BY <3>1 DEF Stands
      <3> QED
        BY <3>1, <3>2, SeenByOther DEF Seen
    <2> QED
      BY <2>1, <2>2
  <1> QED
    BY <1>1, <1>2 DEF Next, Moves

\* Publish makes the node that is held the first entry.
LEMMA PublishedGrows ==
  ASSUME TypeOK, \A u \in Threads : PlacesAgree(u), \A k \in Lists : Sorted(k), Distinct,
         FoundIsOwn, NEW t \in Threads, Publish(t),
         NEW l \in Lists, l = list[t]
  PROVE  /\ Published(l)' = Published(l) \cup {mine[t]}
         /\ mine[t] \in Nodes \ Published(l)
         /\ owner[l][mine[t]] = conn[t]
  <1> USE NodeBound, Strangers, HeadIsNoNode DEF TypeOK, Lists, PlacesAgree, Publish
  <1>1. mine[t] \in Nodes /\ owner[l][mine[t]] = conn[t] /\ conn[t] # Nobody
    OBVIOUS
  <1>2. mine[t] \notin Published(l)
    BY HeldIsPrivate, <1>1 DEF Holds
  <1>3. \A u \in Threads : u # t /\ list[u] = l /\ mine[u] # ListHead => mine[u] # mine[t]
    BY HeldIsOwn DEF Holds
  <1>4. \A n \in Nodes : n # mine[t] => (n \in Published(l)' <=> n \in Published(l))
    BY DEF Published, Private
  <1>5. mine[t] \in Published(l)'
    BY <1>1, <1>3 DEF Published, Private
  <1>6. Published(l) \subseteq Nodes /\ Published(l)' \subseteq Nodes
    BY DEF Published
  <1> QED
    BY <1>1, <1>2, <1>4, <1>5, <1>6

\* It ranks above all others, and the look of no other thread misses it.
LEMMA PublishSorts ==
  ASSUME TypeOK, \A u \in Threads : PlacesAgree(u), \A k \in Lists : Sorted(k), Distinct,
         FoundIsOwn, Locked, Alone, NEW t \in Threads, Publish(t),
         NEW l \in Lists, l = list[t]
  PROVE  Sorted(l)'
  <1> DEFINE first == next[l][ListHead]
  <1>1. PICK rank \in [Nodes \cup {ListHead} -> Nat] : Falls(l, rank) /\ Seen(l, rank)
    BY DEF Sorted
  <1>6. PICK higher : higher = [rank EXCEPT ![mine[t]] = rank[first] + 1]
    OBVIOUS
  <1>2. /\ Published(l)' = Published(l) \cup {mine[t]}
        /\ mine[t] \in Nodes \ Published(l) /\ owner[l][mine[t]] = conn[t]
    BY PublishedGrows
  <1>3. /\ l \in Lists /\ list' = list /\ owner' = owner /\ conn' = conn /\ at' = at /\ mine' = mine
        /\ next'[l] = [next[l] EXCEPT ![ListHead] = mine[t]]
        /\ next[l] \in [Nodes \cup {ListHead} -> Nodes \cup {ListHead}]
        /\ next[l][mine[t]] = first /\ first \in Entries(l)
    BY <1>1 DEF Publish, TypeOK, Seen, SeenBy, Falls
  <1>4. Falls(l, higher)'
    <2>1. higher \in [Nodes \cup {ListHead} -> Nat] /\ higher[ListHead] = 0
      BY <1>1, <1>2, <1>3, <1>6, HeadIsNoNode DEF Falls, Entries, Published
    <2>2. higher[mine[t]] = rank[first] + 1 /\ \A n \in Entries(l) : higher[n] = rank[n]
      BY <1>1, <1>2, <1>6, HeadIsNoNode DEF Entries, Published
    <2>3. next'[l][ListHead] = mine[t] /\ \A n \in Nodes : next'[l][n] = next[l][n]
      BY <1>3, HeadIsNoNode
    <2>4. \A n \in Entries(l) : rank[n] \in Nat /\ rank[n] <= rank[first]
      <3>1. rank[ListHead] = 0 /\ \A n \in Published(l) : rank[n] <= rank[first]
        BY <1>1 DEF Falls
      <3> QED
        BY <1>1, <1>3, <3>1 DEF Entries, Published
    <2>5. ASSUME NEW n \in Published(l)'
          PROVE  /\ next'[l][n] \in Entries(l)' /\ higher[n] = higher[next'[l][n]] + 1
                 /\ higher[n] <= higher[mine[t]]
      <3>1. CASE n = mine[t]
        BY <1>2, <1>3, <2>2, <2>3, <2>4, <3>1 DEF Entries
      <3>2. CASE n \in Published(l)
        <4>1. next[l][n] \in Entries(l) /\ rank[n] = rank[next[l][n]] + 1 /\ n \in Nodes
          BY <1>1, <3>2 DEF Falls, Published
        <4> QED
          BY <1>2, <1>3, <2>2, <2>3, <2>4, <3>2, <4>1 DEF Entries
      <3> QED
        BY <1>2, <3>1, <3>2
    <2>6. ASSUME NEW n \in Published(l)', NEW m \in Published(l)', higher[n] = higher[m]
          PROVE  n = m
      <3>1. \A k \in Published(l) : higher[k] # higher[mine[t]]
        BY <1>3, <2>2, <2>4 DEF Entries
      <3>2. CASE n \in Published(l) /\ m \in Published(l)
        BY <1>1, <2>2, <2>6, <3>2 DEF Falls, Entries
      <3> QED
        BY <1>2, <2>6, <3>1, <3>2
    <2>7. mine[t] \in Entries(l)'
      BY <1>2 DEF Entries
    <2> QED
      BY <2>1, <2>3, <2>5, <2>6, <2>7 DEF Falls
  <1>5. ASSUME NEW u \in Threads, list[u] = l PROVE SeenBy(u, l, higher)'
    <2>1. CASE u = t
      BY <2>1 DEF SeenBy, Publish, TypeOK
    <2>2. CASE u # t
      <3>1. pc'[u] = pc[u] /\ pc[u] # "publish" /\ SeenBy(u, l, rank)
        BY <1>1, <1>3, <1>5, <2>2 DEF Publish, Locked, Seen, TypeOK
      <3>2. \A n \in Entries(l) : higher[n] = rank[n]
        BY <1>1, <1>2, <1>6, HeadIsNoNode DEF Entries, Published
      <3>3. pc[u] # "idle" /\ conn[u] \notin Shared => owner[l][mine[t]] # conn[u]
        BY <1>2, <2>2 DEF Alone, PlacesAgree
      <3> QED
        BY <1>2, <1>3, <3>1, <3>2, <3>3 DEF SeenBy, Entries
    <2> QED
      BY <2>1, <2>2
  <1> QED
    BY <1>3, <1>4, <1>5 DEF Sorted, Seen, Falls

\* So the order is kept by every step.
LEMMA SortedStays ==
  ASSUME TypeOK, \A u \in Threads : PlacesAgree(u), \A k \in Lists : Sorted(k), Distinct,
         FoundIsOwn, Locked, Alone, [Next]_vars, NEW l \in Lists
  PROVE  Sorted(l)'
  <1>1. CASE \E t \in Threads : Publish(t) /\ list[t] = l
    BY <1>1, PublishSorts
  <1>2. CASE ~ \E t \in Threads : Publish(t) /\ list[t] = l
    <2>1. PICK rank \in [Nodes \cup {ListHead} -> Nat] : Falls(l, rank) /\ Seen(l, rank)
      BY DEF Sorted
    <2>2. /\ Published(l)' = Published(l) /\ \A n \in Entries(l) : next'[l][n] = next[l][n]
          /\ \A n \in Published(l) : owner'[l][n] = owner[l][n]
      BY <1>2, PublishedStays, LinksStay, OwnersStay
    <2>3. Falls(l, rank)' /\ Seen(l, rank)'
      BY <1>2, <2>1, <2>2, FallsStays, SeenStays
    <2> QED
      BY <2>3 DEF Sorted
  <1> QED
    BY <1>1, <1>2

\* Nothing leaves a list.
LEMMA NothingLeaves ==
  ASSUME TypeOK, \A u \in Threads : PlacesAgree(u), \A k \in Lists : Sorted(k), Distinct,
         FoundIsOwn, [Next]_vars, NEW l \in Lists
  PROVE  Published(l) \subseteq Published(l)'
  BY PublishedStays, PublishedGrows

\* What is published next is of a connection that has nothing in the list.
LEMMA OneStays ==
  ASSUME TypeOK, \A u \in Threads : PlacesAgree(u), \A k \in Lists : Sorted(k), Distinct,
         FoundIsOwn, OnePerConnection, [Next]_vars
  PROVE  OnePerConnection'
  <1> SUFFICES ASSUME NEW l \in Lists, NEW n \in Published(l)', NEW m \in Published(l)', n # m
               PROVE  owner'[l][n] # owner'[l][m] \/ owner'[l][n] \in Shared
    BY DEF OnePerConnection
  <1>1. ASSUME NEW t \in Threads, Publish(t), list[t] = l
        PROVE  owner'[l][n] # owner'[l][m] \/ owner'[l][n] \in Shared
    <2>1. \A k \in Published(l) : owner[l][k] = conn[t] => conn[t] \in Shared
      BY <1>1 DEF Sorted, Seen, SeenBy, Publish
    <2>2. owner' = owner
      BY <1>1 DEF Publish
    <2> QED
      BY <1>1, <2>1, <2>2, PublishedGrows DEF OnePerConnection
  <1>2. CASE ~ \E t \in Threads : Publish(t) /\ list[t] = l
    BY <1>2, PublishedStays, OwnersStay DEF OnePerConnection
  <1> QED
    BY <1>1, <1>2

\* A thread keeps the structures of its own connection.
LEMMA FoundStays ==
  ASSUME TypeOK, \A u \in Threads : PlacesAgree(u), \A k \in Lists : Sorted(k), Distinct,
         FoundIsOwn, [Next]_vars
  PROVE  FoundIsOwn'
  <1>17. \A l \in Lists : /\ Published(l) \subseteq Published(l)'
                          /\ \A n \in Published(l) : owner'[l][n] = owner[l][n]
    BY NothingLeaves, OwnersStay
  <1> USE <1>17, NodeBound, Strangers, HeadIsNoNode DEF TypeOK, Lists, PlacesAgree,
          FoundIsOwn
  <1>0. CASE UNCHANGED vars
    BY <1>0 DEF vars, shared, locals
  <1>1. ASSUME NEW t \in Threads, NEW c \in Connections, Indicate(t, c) PROVE FoundIsOwn'
    BY <1>1 DEF Indicate, Allocate, shared, locals
  <1>2. ASSUME NEW t \in Threads, Walk(t) PROVE FoundIsOwn'
    BY <1>2 DEF Walk, Matches, shared, locals
  <1>3. ASSUME NEW t \in Threads, FoundPcb(t) PROVE FoundIsOwn'
    <2>1. at[t] \in Published(list[t])
      BY <1>3, AtEntry DEF FoundPcb, TakeFound, Matches, Entries
    <2> QED
      BY <1>3, <1>17, <2>1 DEF FoundPcb, TakeFound, Matches, shared, locals
  <1>4. ASSUME NEW t \in Threads, FoundProcess(t) PROVE FoundIsOwn'
    <2>1. at[t] \in Published(list[t])
      BY <1>4, AtEntry DEF FoundProcess, TakeFound, Matches, Entries
    <2> QED
      BY <1>4, <1>17, <2>1 DEF FoundProcess, TakeFound, Matches, shared, locals
  <1>5. ASSUME NEW t \in Threads, NoPcb(t) PROVE FoundIsOwn'
    BY <1>5 DEF NoPcb, shared, locals
  <1>6. ASSUME NEW t \in Threads, NoProcess(t) PROVE FoundIsOwn'
    BY <1>6 DEF NoProcess, Allocate, shared, locals
  <1>7. ASSUME NEW t \in Threads, Link(t) PROVE FoundIsOwn'
    BY <1>7 DEF Link, LockFree, FlinkOf, shared, locals
  <1>8. ASSUME NEW t \in Threads, Publish(t) PROVE FoundIsOwn'
    <2>1. PICK l \in Lists : l = list[t]
      OBVIOUS
    <2>2. mine[t] \in Published(l)' /\ owner[l][mine[t]] = conn[t]
      BY <1>8, <2>1, PublishedGrows
    <2> QED
      BY <1>8, <2>1, <2>2 DEF Publish
  <1>9. ASSUME NEW t \in Threads, NoMemory(t) \/ ReturnFromTcp(t) \/ ToApp(t)
         PROVE  FoundIsOwn'
    BY <1>9 DEF NoMemory, Leave, ReturnFromTcp, ToApp, shared, locals
  <1>10. ASSUME NEW t \in Threads, Enqueue(t) \/ TestNotEmpty(t) \/ TestEmpty(t)
         PROVE  FoundIsOwn'
    BY <1>10 DEF Enqueue, TestNotEmpty, NotEmpty, TestEmpty, MayLeave, Leave, shared, locals
  <1>11. ASSUME NEW t \in Threads, Take(t) \/ TakeNothing(t) PROVE FoundIsOwn'
    BY <1>11 DEF Take, TakeNothing, shared, locals
  <1> QED
    BY <1>0, <1>1, <1>2, <1>3, <1>4, <1>5, <1>6, <1>7, <1>8, <1>9, <1>10, <1>11 DEF Next,
       Inside

\* Who puts a packet into a receiveList tests the list afterwards.
LEMMA ServedStays ==
  ASSUME TypeOK, \A u \in Threads : PlacesAgree(u), WaitingIsServed, [Next]_vars
  PROVE  WaitingIsServed'
  <1> USE NodeBound, Strangers, HeadIsNoNode DEF TypeOK, Lists, PlacesAgree, WaitingIsServed
  <1>0. CASE UNCHANGED vars
    BY <1>0 DEF vars, shared, locals
  <1>1. ASSUME NEW t \in Threads, NEW c \in Connections, Indicate(t,
               c) PROVE WaitingIsServed'
    BY <1>1 DEF Indicate, Allocate, shared, locals
  <1>2. ASSUME NEW t \in Threads, Walk(t) PROVE WaitingIsServed'
    BY <1>2 DEF Walk, Matches, shared, locals
  <1>3. ASSUME NEW t \in Threads, FoundPcb(t) PROVE WaitingIsServed'
    BY <1>3 DEF FoundPcb, TakeFound, Matches, shared, locals
  <1>4. ASSUME NEW t \in Threads, FoundProcess(t) \/ NoPcb(t) PROVE WaitingIsServed'
    BY <1>4 DEF FoundProcess, TakeFound, Matches, NoPcb, shared, locals
  <1>5. ASSUME NEW t \in Threads, NoProcess(t) PROVE WaitingIsServed'
    BY <1>5 DEF NoProcess, Allocate, shared, locals
  <1>6. ASSUME NEW t \in Threads, Link(t) PROVE WaitingIsServed'
    BY <1>6 DEF Link, LockFree, FlinkOf, shared, locals
  <1>7. ASSUME NEW t \in Threads, Publish(t) PROVE WaitingIsServed'
    BY <1>7 DEF Publish, shared, locals
  <1>8. ASSUME NEW t \in Threads, NoMemory(t) \/ ReturnFromTcp(t) \/ ToApp(t)
         PROVE  WaitingIsServed'
    BY <1>8 DEF NoMemory, Leave, ReturnFromTcp, ToApp, shared, locals
  <1>9. ASSUME NEW t \in Threads, Enqueue(t) \/ TestNotEmpty(t) \/ TestEmpty(t)
         PROVE  WaitingIsServed'
    BY <1>9 DEF Enqueue, TestNotEmpty, NotEmpty, TestEmpty, MayLeave, Leave, shared, locals
  <1>10. ASSUME NEW t \in Threads, Take(t) \/ TakeNothing(t) PROVE WaitingIsServed'
    BY <1>10 DEF Take, TakeNothing, shared, locals
  <1> QED
    BY <1>0, <1>1, <1>2, <1>3, <1>4, <1>5, <1>6, <1>7, <1>8, <1>9, <1>10 DEF Next, Inside

\* No other thread works on the same receiveList.
LEMMA TestedStays ==
  ASSUME TypeOK, \A u \in Threads : PlacesAgree(u), \A k \in Lists : Sorted(k), Distinct,
         FoundIsOwn, Alone, TakesWhatItTested, [Next]_vars
  PROVE  TakesWhatItTested'
  <1> USE NodeBound, Strangers, HeadIsNoNode DEF TypeOK, Lists, PlacesAgree,
          TakesWhatItTested, Alone
  <1>0. CASE UNCHANGED vars
    BY <1>0 DEF vars, shared, locals
  <1>1. ASSUME NEW t \in Threads, NEW c \in Connections, Indicate(t, c)
         PROVE  TakesWhatItTested'
    BY <1>1 DEF Indicate, Allocate, shared, locals
  <1>2. ASSUME NEW t \in Threads, Walk(t) PROVE TakesWhatItTested'
    BY <1>2 DEF Walk, Matches, shared, locals
  <1>3. ASSUME NEW t \in Threads, FoundPcb(t) PROVE TakesWhatItTested'
    BY <1>3 DEF FoundPcb, TakeFound, Matches, shared, locals
  <1>4. ASSUME NEW t \in Threads, FoundProcess(t) \/ NoPcb(t) PROVE TakesWhatItTested'
    BY <1>4 DEF FoundProcess, TakeFound, Matches, NoPcb, shared, locals
  <1>5. ASSUME NEW t \in Threads, NoProcess(t) PROVE TakesWhatItTested'
    BY <1>5 DEF NoProcess, Allocate, shared, locals
  <1>6. ASSUME NEW t \in Threads, Link(t) PROVE TakesWhatItTested'
    BY <1>6 DEF Link, LockFree, FlinkOf, shared, locals
  <1>7. ASSUME NEW t \in Threads, Publish(t) PROVE TakesWhatItTested'
    BY <1>7 DEF Publish, shared, locals
  <1>8. ASSUME NEW t \in Threads, NoMemory(t) \/ ReturnFromTcp(t) \/ ToApp(t)
         PROVE  TakesWhatItTested'
    BY <1>8 DEF NoMemory, Leave, ReturnFromTcp, ToApp, shared, locals
  <1>9. ASSUME NEW t \in Threads, Enqueue(t) \/ TestNotEmpty(t) \/ TestEmpty(t)
         PROVE  TakesWhatItTested'
    BY <1>9 DEF Enqueue, TestNotEmpty, NotEmpty, TestEmpty, MayLeave, Leave, shared, locals
  <1>10. ASSUME NEW t \in Threads, Take(t) \/ TakeNothing(t) PROVE TakesWhatItTested'
    BY <1>10 DEF Take, TakeNothing, shared, locals
  <1> QED
    BY <1>0, <1>1, <1>2, <1>3, <1>4, <1>5, <1>6, <1>7, <1>8, <1>9, <1>10 DEF Next, Inside

------------------------------------------------------------------------------
(* Induction, on sets of numbers.                                           *)

\* A set of natural numbers that is not empty has a least element.
LEMMA LeastElement ==
  ASSUME NEW S \in SUBSET Nat, S # {}
  PROVE  \E x \in S : \A y \in S : x <= y
  <1> DEFINE R == {ss \in Nat \X Nat : ss[1] < ss[2]}
  <1>1. IsWellFoundedOn(R, Nat)
    BY NatLessThanWellFounded DEF OpToRel
  <1>2. \A x, y \in Nat : <<y, x>> \in R <=> y < x
    OBVIOUS
  <1> HIDE DEF R
  <1>3. PICK x \in S : \A y \in S : ~ (<<y, x>> \in R)
    BY <1>1, WFMin
  <1>4. ASSUME NEW y \in S PROVE x <= y
    <2>1. x \in Nat /\ y \in Nat /\ ~ (<<y, x>> \in R)
      BY <1>3
    <2>2. ~ (y < x)
      BY <1>2, <2>1
    <2> QED
      BY <2>1, <2>2
  <1> QED
    BY <1>4

\* A set with 0, and with the successor of each of its elements, has all numbers.
LEMMA SetInduction ==
  ASSUME NEW S \in SUBSET Nat, 0 \in S, \A n \in S : n + 1 \in S
  PROVE  S = Nat
  <1> SUFFICES ASSUME Nat \ S # {} PROVE FALSE
    OBVIOUS
  <1>1. PICK x \in Nat \ S : \A y \in Nat \ S : x <= y
    BY LeastElement
  <1>2. x - 1 \in Nat /\ x - 1 \in S
    BY <1>1
  <1>3. (x - 1) + 1 \in S
    BY <1>2
  <1> QED
    BY <1>1, <1>3

------------------------------------------------------------------------------
(* A walk from the head of a list.                                          *)

\* The entries a walk meets one after the other.
Walked(l) ==
    CHOOSE after : after = [k \in 0 .. MaxNodes |->
                               next[l][IF k = 0 THEN ListHead ELSE after[k - 1]]]

\* Along a function, a walk of any length exists.
LEMMA WalkExists ==
  ASSUME NEW F, NEW N \in Nat
  PROVE  \E after : after = [k \in 0 .. N |-> F[IF k = 0 THEN ListHead ELSE after[k - 1]]]
  <1> DEFINE IsWalk(n, g) == g = [k \in 0 .. n |-> F[IF k = 0 THEN ListHead ELSE g[k - 1]]]
             S == {n \in Nat : \E g : IsWalk(n, g)}
  <1>1. 0 \in S
    <2>1. IsWalk(0, [k \in 0 .. 0 |-> F[ListHead]])
      OBVIOUS
    <2> QED
      BY <2>1
  <1>2. ASSUME NEW n \in S PROVE n + 1 \in S
    <2>1. PICK g : IsWalk(n, g)
      OBVIOUS
    <2> DEFINE h == [k \in 0 .. n + 1 |-> IF k = n + 1 THEN F[g[n]] ELSE g[k]]
    <2>2. \A k \in 0 .. n + 1 : h[k] = F[IF k = 0 THEN ListHead ELSE h[k - 1]]
      <3> TAKE k \in 0 .. n + 1
      <3>1. CASE k = 0
        BY <2>1, <3>1
      <3>2. CASE k # 0 /\ k # n + 1
        <4>1. k \in 0 .. n /\ k - 1 \in 0 .. n /\ k - 1 # n + 1
          BY <3>2
        <4> QED
          BY <2>1, <3>2, <4>1
      <3>3. CASE k = n + 1
        <4>1. k - 1 = n /\ n \in 0 .. n + 1 /\ n # n + 1 /\ k # 0
          BY <3>3
        <4> QED
          BY <3>3, <4>1
      <3> QED
        BY <3>1, <3>2, <3>3
    <2>3. IsWalk(n + 1, h)
      <3> HIDE DEF IsWalk
      <3>1. h = [k \in 0 .. n + 1 |-> h[k]]
        OBVIOUS
      <3> QED
        BY <2>2, <3>1 DEF IsWalk
    <2>4. n + 1 \in Nat /\ \E k : IsWalk(n + 1, k)
      <3> HIDE DEF IsWalk
      <3> QED
        BY <2>3
    <2> QED
      BY <2>4
  <1>3. S = Nat
    <2> HIDE DEF S
    <2>1. S \subseteq Nat
      BY DEF S
    <2> QED
      BY <1>1, <1>2, <2>1, SetInduction
  <1> QED
    BY <1>3

LEMMA WalkedIs ==
  ASSUME NEW l \in Lists
  PROVE  /\ Walked(l)[0] = next[l][ListHead]
         /\ \A k \in 1 .. MaxNodes : Walked(l)[k] = next[l][Walked(l)[k - 1]]
         /\ Reachable(l) = {Walked(l)[k] : k \in 0 .. MaxNodes} \ {ListHead}
  <1>1. \E after : after = [k \in 0 .. MaxNodes |->
                               next[l][IF k = 0 THEN ListHead ELSE after[k - 1]]]
    BY WalkExists, NodeBound
  <1>2. Walked(l) = [k \in 0 .. MaxNodes |->
                        next[l][IF k = 0 THEN ListHead ELSE Walked(l)[k - 1]]]
    BY <1>1 DEF Walked
  <1>3. Reachable(l) = {Walked(l)[k] : k \in 0 .. MaxNodes} \ {ListHead}
    BY DEF Reachable, Walked
  <1> QED
    BY <1>2, <1>3, NodeBound

\* The entries of a list rank from one to the rank of the first.
LEMMA RanksAreTaken ==
  ASSUME TypeOK, NEW l \in Lists, NEW rank \in [Nodes \cup {ListHead} -> Nat], Falls(l, rank)
  PROVE  \A r \in 1 .. rank[next[l][ListHead]] : \E n \in Published(l) : rank[n] = r
  <1> DEFINE top == rank[next[l][ListHead]]
             Taken(r) == \E n \in Published(l) : rank[n] = r
             S == {k \in Nat : k < top => Taken(top - k)}
  <1>1. top \in Nat /\ next[l][ListHead] \in Entries(l) /\ rank[ListHead] = 0
    BY DEF Falls, Entries, Published
  <1>2. 0 \in S
    BY <1>1 DEF Entries
  <1>3. ASSUME NEW k \in S PROVE k + 1 \in S
    <2>1. SUFFICES ASSUME k + 1 < top PROVE Taken(top - (k + 1))
      OBVIOUS
    <2>2. PICK n \in Published(l) : rank[n] = top - k
      BY <1>1, <2>1
    <2>3. next[l][n] \in Entries(l) /\ rank[n] = rank[next[l][n]] + 1
      BY DEF Falls
    <2>4. rank[next[l][n]] \in Nat
      BY <2>3 DEF Entries, Published
    <2>5. rank[next[l][n]] = top - (k + 1) /\ next[l][n] # ListHead
      BY <1>1, <2>1, <2>2, <2>3, <2>4
    <2> QED
      BY <2>3, <2>5 DEF Entries
  <1>4. S = Nat
    <2> HIDE DEF S
    <2>1. S \subseteq Nat
      BY DEF S
    <2> QED
      BY <1>2, <1>3, <2>1, SetInduction
  <1>5. ASSUME NEW r \in 1 .. top PROVE Taken(r)
    <2>1. top - r \in Nat /\ top - r < top /\ top - (top - r) = r
      BY <1>1
    <2>2. top - r \in S
      BY <1>4, <2>1
    <2> QED
      BY <2>1, <2>2
  <1> QED
    BY <1>5

\* So no entry ranks higher than there are nodes.
LEMMA RanksAreFew ==
  ASSUME TypeOK, NEW l \in Lists, NEW rank \in [Nodes \cup {ListHead} -> Nat], Falls(l, rank)
  PROVE  rank[next[l][ListHead]] <= MaxNodes
  <1> DEFINE top == rank[next[l][ListHead]]
  <1>1. top \in Nat
    BY DEF Falls, Entries, Published
  <1> SUFFICES ASSUME MaxNodes < top PROVE FALSE
    BY <1>1, NodeBound
  <1>2. \A r \in 1 .. top : \E n \in Published(l) : rank[n] = r
    BY RanksAreTaken
  <1>3. PICK f : f = [r \in 1 .. top |-> CHOOSE n \in Published(l) : rank[n] = r]
    OBVIOUS
  <1>4. \A r \in 1 .. top : f[r] \in Nodes /\ rank[f[r]] = r
    BY <1>2, <1>3 DEF Published
  <1>5. f \in [1 .. top -> Nodes]
    BY <1>3, <1>4
  <1>6. /\ IsFiniteSet(1 .. top) /\ Cardinality(1 .. top) = top
        /\ IsFiniteSet(Nodes) /\ Cardinality(Nodes) = MaxNodes
    <2> HIDE DEF top
    <2>1. 0 \in Int /\ 1 \in Int /\ top \in Int /\ MaxNodes \in Int
      BY <1>1, NodeBound
    <2>2. /\ IsFiniteSet(1 .. top) /\ Cardinality(1 .. top) = IF 1 > top THEN 0 ELSE top - 1 + 1
          /\ IsFiniteSet(1 .. MaxNodes)
          /\ Cardinality(1 .. MaxNodes) = IF 1 > MaxNodes THEN 0 ELSE MaxNodes - 1 + 1
      BY <2>1, FS_Interval
    <2> QED
      BY <1>1, <2>2, NodeBound DEF Nodes
  <1>7. \E r, s \in 1 .. top : r # s /\ f[r] = f[s]
    <2> HIDE DEF top
    <2> QED
      BY <1>5, <1>6, FS_PigeonHole
  <1> QED
    BY <1>4, <1>7

\* A walk meets the entries in the order of their ranks, and nothing else.
LEMMA WalkDescends ==
  ASSUME TypeOK, NEW l \in Lists, NEW rank \in [Nodes \cup {ListHead} -> Nat], Falls(l, rank)
  PROVE  \A k \in 0 .. MaxNodes :
            /\ Walked(l)[k] \in Entries(l)
            /\ k <= rank[next[l][ListHead]] =>
                  rank[Walked(l)[k]] = rank[next[l][ListHead]] - k
  <1> DEFINE top == rank[next[l][ListHead]]
             walked == Walked(l)
             Meets(k) == /\ walked[k] \in Entries(l)
                         /\ k <= top => rank[walked[k]] = top - k
             S == {k \in Nat : k <= MaxNodes => Meets(k)}
  <1>1. /\ top \in Nat /\ next[l][ListHead] \in Entries(l) /\ rank[ListHead] = 0
        /\ walked[0] = next[l][ListHead]
        /\ \A k \in 1 .. MaxNodes : walked[k] = next[l][walked[k - 1]]
    BY WalkedIs DEF Falls, Entries, Published
  <1> HIDE DEF walked
  <1>2. 0 \in S
    BY <1>1
  <1>3. ASSUME NEW k \in S PROVE k + 1 \in S
    <2>1. SUFFICES ASSUME k + 1 <= MaxNodes PROVE Meets(k + 1)
      OBVIOUS
    <2>2. k \in Nat /\ Meets(k) /\ k + 1 \in 1 .. MaxNodes /\ (k + 1) - 1 = k
      BY <2>1, NodeBound
    <2>3. walked[k + 1] = next[l][walked[k]]
      BY <1>1, <2>2
    <2>4. CASE walked[k] = ListHead
      BY <1>1, <2>2, <2>3, <2>4
    <2>5. CASE walked[k] # ListHead
      <3>1. walked[k] \in Published(l)
        BY <2>2, <2>5 DEF Entries
      <3>2. next[l][walked[k]] \in Entries(l) /\ rank[walked[k]] = rank[next[l][walked[k]]] + 1
        BY <3>1 DEF Falls
      <3>3. rank[next[l][walked[k]]] \in Nat
        BY <3>2 DEF Entries, Published
      <3> QED
        BY <1>1, <2>2, <2>3, <3>2, <3>3
    <2> QED
      BY <2>4, <2>5
  <1>4. S = Nat
    <2> HIDE DEF S
    <2>1. S \subseteq Nat
      BY DEF S
    <2> QED
      BY <1>2, <1>3, <2>1, SetInduction
  <1>5. ASSUME NEW k \in 0 .. MaxNodes PROVE Meets(k)
    <2>1. k \in S /\ k <= MaxNodes
      BY <1>4, NodeBound
    <2> QED
      BY <2>1
  <1> QED
    BY <1>5 DEF walked

\* In a sorted list a walk meets what is in the list.
LEMMA WalkMeetsAll ==
  ASSUME TypeOK, NEW l \in Lists, Sorted(l)
  PROVE  Reachable(l) = Published(l)
  <1>1. PICK rank \in [Nodes \cup {ListHead} -> Nat] : Falls(l, rank)
    BY DEF Sorted
  <1> DEFINE top == rank[next[l][ListHead]]
  <1>2. Reachable(l) = {Walked(l)[k] : k \in 0 .. MaxNodes} \ {ListHead}
    BY WalkedIs
  <1>3. \A k \in 0 .. MaxNodes : /\ Walked(l)[k] \in Entries(l)
                                 /\ k <= top => rank[Walked(l)[k]] = top - k
    BY <1>1, WalkDescends
  <1>4. Reachable(l) \subseteq Published(l)
    BY <1>2, <1>3 DEF Entries
  <1>5. ASSUME NEW n \in Published(l) PROVE n \in Reachable(l)
    <2>1. /\ n \in Nodes /\ n # ListHead /\ rank[n] \in Nat /\ top \in Nat
          /\ rank[n] >= 1 /\ rank[n] <= top /\ top <= MaxNodes /\ rank[ListHead] = 0
      <3>1. next[l][n] \in Entries(l) /\ rank[n] = rank[next[l][n]] + 1 /\ rank[n] <= top
        BY <1>1 DEF Falls
      <3>2. rank[next[l][n]] \in Nat /\ top \in Nat
        BY <1>1, <3>1 DEF Falls, Entries, Published
      <3>3. rank[ListHead] = 0 /\ top <= MaxNodes
        BY <1>1, RanksAreFew DEF Falls
      <3> QED
        BY <3>1, <3>2, <3>3, HeadIsNoNode DEF Published
    <2>2. PICK k \in 0 .. MaxNodes : k = top - rank[n] /\ k <= top
      BY <2>1, NodeBound
    <2>3. Walked(l)[k] \in Entries(l) /\ rank[Walked(l)[k]] = rank[n]
      BY <1>3, <2>1, <2>2
    <2>4. Walked(l)[k] \in Published(l)
      BY <2>1, <2>3 DEF Entries
    <2>5. Walked(l)[k] = n
      BY <1>1, <2>3, <2>4 DEF Falls
    <2> QED
      BY <1>2, <2>1, <2>5
  <1> QED
    BY <1>4, <1>5

------------------------------------------------------------------------------
\* The lists are empty at first.
LEMMA InitHolds == Init => IInv
  <1> SUFFICES ASSUME Init PROVE IInv
    OBVIOUS
  <1> USE HeadIsNoNode, NodeBound, Strangers DEF Init, Lists
  <1>1. TypeOK
    BY DEF TypeOK
  <1>2. \A l \in Lists : Published(l) = {}
    BY DEF Published
  <1>3. Alone /\ Distinct /\ Locked /\ \A t \in Threads : PlacesAgree(t)
    BY DEF Alone, Distinct, Holds, Locked, PlacesAgree
  <1>4. ASSUME NEW l \in Lists PROVE Sorted(l)
    <2>1. PICK rank \in [Nodes \cup {ListHead} -> Nat] :
             rank = [n \in Nodes \cup {ListHead} |-> 0]
      OBVIOUS
    <2>2. Falls(l, rank) /\ Seen(l, rank)
      BY <1>2, <2>1 DEF Falls, Seen, SeenBy, Entries
    <2> QED
      BY <2>2 DEF Sorted
  <1>5. OnePerConnection /\ FoundIsOwn /\ WaitingIsServed /\ TakesWhatItTested
    BY <1>2 DEF OnePerConnection, FoundIsOwn, WaitingIsServed, TakesWhatItTested
  <1> QED
    BY <1>1, <1>3, <1>4, <1>5 DEF IInv

\* And every step keeps what is said of them.
LEMMA NextHolds == IInv /\ [Next]_vars => IInv'
  <1> SUFFICES ASSUME IInv, [Next]_vars PROVE IInv'
    OBVIOUS
  <1> USE DEF IInv
  <1>1. TypeOK' /\ Alone' /\ Locked'
    BY Typed, AloneStays, LockedStays
  <1>2. (\A t \in Threads : PlacesAgree(t)') /\ Distinct'
    BY PlacesStay, DistinctStays
  <1>3. \A l \in Lists : Sorted(l)'
    BY SortedStays
  <1>4. OnePerConnection' /\ FoundIsOwn'
    BY OneStays, FoundStays
  <1>5. WaitingIsServed' /\ TakesWhatItTested'
    BY ServedStays, TestedStays
  <1> QED
    BY <1>1, <1>2, <1>3, <1>4, <1>5 DEF Lists

\* The inductive invariant of the connection lists.
THEOREM Invariance == Spec => []IInv
  BY InitHolds, NextHolds, PTL DEF Spec

\* Every variable keeps its type (tcp_receive, app_receive).
THEOREM TypeCorrect == Spec => []TypeOK
  <1>1. IInv => TypeOK
    BY DEF IInv
  <1> QED
    BY Invariance, <1>1, PTL

\* A connection has one TCP_PCB and one process, though the look-up takes no lock
\* (tcp.c 76-104, app.c 35-69).
THEOREM AlwaysOnePerConnection == Spec => []OnePerConnection
  <1>1. IInv => OnePerConnection
    BY DEF IInv
  <1> QED
    BY Invariance, <1>1, PTL

\* Nothing that was inserted drops out of a list, and a walk meets nothing else
\* (NdisInterlockedInsertHeadList in tcp.c 88 and app.c 65).
THEOREM AlwaysReachable == Spec => []InsertedIsReachable
  <1>1. IInv => InsertedIsReachable
    BY WalkMeetsAll DEF IInv, InsertedIsReachable
  <1> QED
    BY Invariance, <1>1, PTL

\* A thread works on structures that are listed, of its own connection.
THEOREM AlwaysOwn == Spec => []FoundIsOwn
  <1>1. IInv => FoundIsOwn
    BY DEF IInv
  <1> QED
    BY Invariance, <1>1, PTL

\* A packet in a receiveList is in the care of a thread (app.c 72-98).
THEOREM AlwaysServed == Spec => []WaitingIsServed
  <1>1. IInv => WaitingIsServed
    BY DEF IInv
  <1> QED
    BY Invariance, <1>1, PTL

\* A thread alone on its connection finds the packet it tested for (app.c 77-79).
THEOREM AlwaysTakesWhatItTested == Spec => []TakesWhatItTested
  <1>1. IInv => TakesWhatItTested
    BY DEF IInv
  <1> QED
    BY Invariance, <1>1, PTL
------------------------------------------------------------------------------
(* ConnectionLists implements ConnectionTable.                              *)

\* A list that gains nothing and loses nothing, with the same owners, is the same.
LEMMA KnownStays ==
  ASSUME IInv, [Next]_vars, ~ \E t \in Threads : Publish(t)
  PROVE  Known' = Known
  <1> SUFFICES ASSUME NEW l \in Lists
               PROVE  {[at |-> n, of |-> owner'[l][n]] : n \in Published(l)'}
                         = {[at |-> n, of |-> owner[l][n]] : n \in Published(l)}
    BY DEF Known
  <1>1. Published(l)' = Published(l)
    BY PublishedStays DEF IInv
  <1>2. \A n \in Published(l) : owner'[l][n] = owner[l][n]
    BY OwnersStay DEF IInv
  <1> QED
    BY <1>1, <1>2

\* A step that leaves every thread where it was, for the table, is none.
LEMMA TableStutters ==
  ASSUME IInv, [Next]_vars, ~ \E t \in Threads : Publish(t),
         UNCHANGED <<list, conn>>, Place' = Place, Has' = Has
  PROVE  UNCHANGED Table!vars
  BY KnownStays DEF Table!vars

\* The node a thread finds is listed, with its connection.
LEMMA FindsKnown ==
  ASSUME IInv, NEW t \in Threads, pc[t] = "walk", Matches(t)
  PROVE  /\ at[t] \in Nodes /\ list[t] \in Lists
         /\ [at |-> at[t], of |-> conn[t]] \in Known[list[t]]
  <1>1. list[t] \in Lists
    BY DEF IInv, TypeOK
  <1>2. at[t] \in Published(list[t])
    BY <1>1, AtEntry DEF IInv, Entries, Matches
  <1>3. owner[list[t]][at[t]] = conn[t]
    BY DEF Matches
  <1> QED
    BY <1>1, <1>2, <1>3 DEF Known, Published

\* Finding: what was listed before this step is taken.
LEMMA TakeFoundFinds ==
  ASSUME IInv, [Next]_vars, ~ \E u \in Threads : Publish(u),
         NEW t \in Threads, FoundPcb(t) \/ FoundProcess(t)
  PROVE  Table!Find(t, at[t])
  <1>1. TakeFound(t)
    BY DEF FoundPcb, FoundProcess
  <1>t. /\ pc \in [Threads -> {"idle", "walk", "insert", "publish", "found", "test", "take"}]
        /\ mine \in [Threads -> Nodes \cup {ListHead}]
    BY DEF IInv, TypeOK
  <1>2. [at |-> at[t], of |-> conn[t]] \in Known[list[t]]
    BY <1>1, FindsKnown DEF TakeFound
  <1>4. Known' = Known
    BY KnownStays
  <1>5. Place[t] = "looking" /\ Place' = [Place EXCEPT ![t] = "has"]
    BY <1>1, <1>t DEF TakeFound, Place
  <1>6. Has' = [Has EXCEPT ![t] = at[t]]
    BY <1>1, <1>t DEF TakeFound, Has
  <1> QED
    BY <1>1, <1>2, <1>4, <1>5, <1>6 DEF TakeFound, Table!Find, Table!Take

\* Entering: the step that publishes.  What the walk did not meet is not listed
\* now either.
LEMMA PublishEnters ==
  ASSUME IInv, [Next]_vars, NEW t \in Threads, Publish(t)
  PROVE  mine[t] \in Nodes /\ Table!Enter(t, mine[t])
  <1> SUFFICES ASSUME NEW l \in Lists, l = list[t], NEW n, n = mine[t]
               PROVE  n \in Nodes /\ Table!Enter(t, n)
    BY DEF IInv, TypeOK
  <1>t. /\ pc \in [Threads -> {"idle", "walk", "insert", "publish", "found", "test", "take"}]
        /\ mine \in [Threads -> Nodes \cup {ListHead}]
    BY DEF IInv, TypeOK
  <1>1. /\ Published(l)' = Published(l) \cup {n}
        /\ n \in Nodes \ Published(l)
        /\ owner[l][n] = conn[t]
    BY <1>t, PublishedGrows DEF IInv
  <1>2. owner' = owner
    BY DEF Publish
  <1>3. \A k \in Lists : k # l => Published(k)' = Published(k)
    <2> SUFFICES ASSUME NEW k \in Lists, k # l PROVE Published(k)' = Published(k)
      OBVIOUS
    <2>1. ~ \E u \in Threads : Publish(u) /\ list[u] = k
      BY <1>t DEF Publish
    <2> QED
      BY <2>1, PublishedStays DEF IInv
  <1>4. Known' = [Known EXCEPT ![l] = @ \cup {[at |-> n, of |-> conn[t]]}]
    <2>1. Known = [k \in Lists |-> Known[k]] /\ Known' = [k \in Lists |-> Known'[k]]
      BY DEF Known
    <2>2. \A k \in Lists : Known[k] = {[at |-> m, of |-> owner[k][m]] : m \in Published(k)}
      BY DEF Known
    <2>3. \A k \in Lists : Known'[k] = {[at |-> m, of |-> owner[k][m]] : m \in Published(k)'}
      BY <1>2 DEF Known
    <2>4. Known'[l] = Known[l] \cup {[at |-> n, of |-> conn[t]]}
      BY <1>1, <2>2, <2>3
    <2>5. \A k \in Lists : k # l => Known'[k] = Known[k]
      BY <1>3, <2>2, <2>3
    <2> QED
      BY <2>1, <2>4, <2>5
  <1>5. \A e \in Known[l] : e.at # n
    BY <1>1, <1>t DEF Known
  <1>6. conn[t] \in Shared \/ \A e \in Known[l] : e.of # conn[t]
    <2> SUFFICES ASSUME conn[t] \notin Shared, NEW m \in Published(l), owner[l][m] = conn[t]
                 PROVE  FALSE
      BY <1>t DEF Known
    <2>1. PICK rank \in [Nodes \cup {ListHead} -> Nat] : Falls(l, rank) /\ Seen(l, rank)
      BY <1>t DEF IInv, Sorted
    <2> QED
      BY <2>1 DEF Seen, SeenBy, Publish
  <1>7. Place[t] = "looking" /\ Place' = [Place EXCEPT ![t] = "has"]
    BY <1>t DEF Publish, Place
  <1>8. Has' = [Has EXCEPT ![t] = n]
    BY <1>t DEF Publish, Has
  <1> QED
    BY <1>1, <1>4, <1>5, <1>6, <1>7, <1>8 DEF Publish, Table!Enter, Table!Take

\* A walk goes on, or its entry is linked: still looking.
LEMMA LookingStays ==
  ASSUME IInv, [Next]_vars, ~ \E u \in Threads : Publish(u), NEW t \in Threads,
         Walk(t) \/ NoPcb(t) \/ NoProcess(t) \/ Link(t)
  PROVE  UNCHANGED Table!vars
  <1>t. /\ pc \in [Threads -> {"idle", "walk", "insert", "publish", "found", "test", "take"}]
        /\ mine \in [Threads -> Nodes \cup {ListHead}]
    BY DEF IInv, TypeOK
  <1>1. CASE Walk(t)
    BY <1>1, TableStutters DEF Walk, Place, Has
  <1>2. CASE NoPcb(t)
    BY <1>2, <1>t, TableStutters DEF NoPcb, Place, Has
  <1>3. CASE NoProcess(t)
    <2>1. PICK n \in Nodes : mine' = [mine EXCEPT ![t] = n]
      BY <1>3 DEF NoProcess
    <2>2. Place' = Place /\ Has' = Has /\ UNCHANGED <<list, conn>>
      BY <1>3, <1>t, <2>1 DEF NoProcess, Place, Has
    <2> QED
      BY <2>2, TableStutters
  <1>4. CASE Link(t)
    BY <1>4, <1>t, TableStutters DEF Link, Place, Has
  <1> QED
    BY <1>1, <1>2, <1>3, <1>4

\* The receiveList is not of the table.
LEMMA DeliveringStays ==
  ASSUME IInv, [Next]_vars, ~ \E u \in Threads : Publish(u), NEW t \in Threads,
         Enqueue(t) \/ TestNotEmpty(t) \/ Take(t) \/ TakeNothing(t)
  PROVE  UNCHANGED Table!vars
  <1>t. /\ pc \in [Threads -> {"idle", "walk", "insert", "publish", "found", "test", "take"}]
        /\ mine \in [Threads -> Nodes \cup {ListHead}]
    BY DEF IInv, TypeOK
  <1>1. CASE Enqueue(t)
    BY <1>1, <1>t, TableStutters DEF Enqueue, Place, Has
  <1>2. CASE TestNotEmpty(t)
    BY <1>2, <1>t, TableStutters DEF TestNotEmpty, Place, Has
  <1>3. CASE Take(t)
    BY <1>3, <1>t, TableStutters DEF Take, Place, Has
  <1>4. CASE TakeNothing(t)
    BY <1>4, TableStutters DEF TakeNothing, locals, Place, Has
  <1> QED
    BY <1>1, <1>2, <1>3, <1>4

\* Whoever returns leaves the table as it is.
LEMMA LeavingLeaves ==
  ASSUME IInv, [Next]_vars, ~ \E u \in Threads : Publish(u), NEW t \in Threads,
         NoMemory(t) \/ ReturnFromTcp(t) \/ TestEmpty(t)
  PROVE  Table!Leave(t)
  <1>t. /\ pc \in [Threads -> {"idle", "walk", "insert", "publish", "found", "test", "take"}]
        /\ mine \in [Threads -> Nodes \cup {ListHead}]
    BY DEF IInv, TypeOK
  <1>1. Known' = Known
    BY KnownStays
  <1>2. Place[t] = "has" \/ (Place[t] = "looking" /\ list[t] = "process")
    BY DEF NoMemory, ReturnFromTcp, TestEmpty, MayLeave, Place
  <1>3. Leave(t)
    BY DEF NoMemory, ReturnFromTcp, TestEmpty
  <1>4. Place' = [Place EXCEPT ![t] = "outside"]
    BY <1>3, <1>t DEF Leave, Place
  <1>5. Has' = [Has EXCEPT ![t] = ListHead]
    BY <1>3, <1>t DEF Leave, Has
  <1> QED
    BY <1>1, <1>2, <1>3, <1>4, <1>5 DEF Leave, Table!Leave

\* On to app_receive.
LEMMA ToAppGoesOn ==
  ASSUME IInv, [Next]_vars, ~ \E u \in Threads : Publish(u), NEW t \in Threads, ToApp(t)
  PROVE  Table!GoOn(t)
  <1>t. /\ pc \in [Threads -> {"idle", "walk", "insert", "publish", "found", "test", "take"}]
        /\ mine \in [Threads -> Nodes \cup {ListHead}]
    BY DEF IInv, TypeOK
  <1>1. Known' = Known
    BY KnownStays
  <1>2. Place[t] = "has"
    BY DEF ToApp, Place
  <1>3. Place' = [Place EXCEPT ![t] = "looking"]
    BY <1>t DEF ToApp, Place
  <1>4. Has' = [Has EXCEPT ![t] = ListHead]
    BY <1>t DEF ToApp, Has
  <1> QED
    BY <1>1, <1>2, <1>3, <1>4 DEF ToApp, Table!GoOn

\* A packet arrives, and a node is allocated that is not listed yet.
LEMMA IndicateComes ==
  ASSUME IInv, [Next]_vars, ~ \E u \in Threads : Publish(u),
         NEW t \in Threads, NEW c \in Connections, Indicate(t, c)
  PROVE  Table!Come(t, c)
  <1>t. /\ pc \in [Threads -> {"idle", "walk", "insert", "publish", "found", "test", "take"}]
        /\ mine \in [Threads -> Nodes \cup {ListHead}]
    BY DEF IInv, TypeOK
  <1>2. Known' = Known
    BY KnownStays
  <1>3. Place[t] = "outside" /\ Place' = [Place EXCEPT ![t] = "looking"]
    BY <1>t DEF Indicate, Place
  <1>4. Has' = Has
    <2>1. PICK n \in Nodes : mine' = [mine EXCEPT ![t] = n]
      BY DEF Indicate
    <2> QED
      BY <1>t, <2>1 DEF Indicate, Has
  <1> QED
    BY <1>2, <1>3, <1>4 DEF Indicate, MayIndicate, Table!Come

\* The lists, walked and filled step by step, are a table in which a thread finds
\* its connection, or enters it, at once.
THEOREM ListsImplementTable == Spec => ImplementsTable
  <1>1. Init => Table!Init
    <2> SUFFICES ASSUME Init PROVE Table!Init
      OBVIOUS
    <2>1. \A l \in Lists : Published(l) = {}
      BY DEF Init, Published
    <2>2. Known = [l \in Lists |-> {}]
      BY <2>1 DEF Known
    <2> QED
      BY <2>2 DEF Init, Place, Has, Table!Init
  <1>2. IInv /\ [Next]_vars => [Table!Next]_(Table!vars)
    <2> SUFFICES ASSUME IInv, [Next]_vars PROVE [Table!Next]_(Table!vars)
      OBVIOUS
    <2>1. ASSUME NEW t \in Threads, Publish(t) PROVE Table!Next
      BY <2>1, PublishEnters DEF Table!Next
    <2>2. ASSUME ~ \E u \in Threads : Publish(u), NEW t \in Threads, NEW c \in Connections,
                 Indicate(t, c)
          PROVE  Table!Next
      BY <2>2, IndicateComes DEF Table!Next
    <2>3. ASSUME ~ \E u \in Threads : Publish(u), NEW t \in Threads,
                 FoundPcb(t) \/ FoundProcess(t)
          PROVE  Table!Next
      <3>1. at[t] \in Nodes
        BY <2>3, FindsKnown DEF FoundPcb, FoundProcess, TakeFound
      <3> QED
        BY <2>3, <3>1, TakeFoundFinds DEF Table!Next
    <2>4. ASSUME ~ \E u \in Threads : Publish(u), NEW t \in Threads, Inside(t),
                 ~ (FoundPcb(t) \/ FoundProcess(t))
          PROVE  [Table!Next]_(Table!vars)
      <3>1. CASE Walk(t) \/ NoPcb(t) \/ NoProcess(t) \/ Link(t)
        BY <2>4, <3>1, LookingStays
      <3>2. CASE Enqueue(t) \/ TestNotEmpty(t) \/ Take(t) \/ TakeNothing(t)
        BY <2>4, <3>2, DeliveringStays
      <3>3. CASE NoMemory(t) \/ ReturnFromTcp(t) \/ TestEmpty(t)
        BY <2>4, <3>3, LeavingLeaves DEF Table!Next
      <3>4. CASE ToApp(t)
        BY <2>4, <3>4, ToAppGoesOn DEF Table!Next
      <3> QED
        BY <2>4, <3>1, <3>2, <3>3, <3>4 DEF Inside
    <2>5. CASE UNCHANGED vars
      <3>1. \A l \in Lists : Published(l)' = Published(l)
        BY <2>5 DEF vars, shared, locals, Published, Private
      <3>2. Known' = Known /\ Place' = Place /\ Has' = Has
        BY <2>5, <3>1 DEF vars, shared, locals, Known, Place, Has
      <3> QED
        BY <2>5, <3>2 DEF vars, locals, Table!vars
    <2> QED
      BY <2>1, <2>2, <2>3, <2>4, <2>5 DEF Next
  <1>3. Spec => Table!Init /\ [][Table!Next]_(Table!vars)
    BY <1>1, <1>2, Invariance, PTL DEF Spec
  <1> QED
    BY <1>3 DEF ImplementsTable, Table!Spec
===============================================================================
