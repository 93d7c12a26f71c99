--------------------------- MODULE TcpReceive_proofs ---------------------------
(***************************************************************************)
(* Theorems about TcpReceive, for streams, segments, windows and initial    *)
(* numbers of any size, with or without numbers that wrap round.  The       *)
(* hypothesis of most, NumbersSuffice, is that a stream has fewer bytes than*)
(* half the sequence numbers (2^31 in the code), so that a number that is   *)
(* repeated is not taken for one to come; QueueAlwaysCorrect asks that it   *)
(* fits into the window.                                                    *)
(*                                                                          *)
(* What rcv_nxt, the queue and the upper protocol have to do with each      *)
(* other depends on the faults.  InStep is for a stream that arrives in     *)
(* sequence, Lagging for one in sequence without repetitions but with bytes *)
(* the driver never counted, Ordered for one that arrives in any order, and *)
(* Patient for one of which no more can be said than that it is reordered.  *)
(***************************************************************************)
EXTENDS TcpReceive, SequenceTheorems, TLAPS

NumbersSuffice == StreamLength < SeqSpace \div 2

\* The sequence number of byte n of the stream.
At(n) == Plus(isn, 1 + n)

------------------------------------------------------------------------------
(* Numbers.                                                                 *)

\* A number below twice the space, or not below minus the space, is brought into it.
LEMMA Wrapped ==
    ASSUME NEW S \in Nat \ {0}, NEW x \in -S .. 2 * S - 1
    PROVE  /\ x % S \in 0 .. S - 1
           /\ x % S = IF x < 0 THEN x + S ELSE IF x < S THEN x ELSE x - S
  <1>1. CASE x < 0
    BY <1>1, SMT
  <1>2. CASE x >= 0 /\ x < S
    BY <1>2, SMT
  <1>3. CASE x >= S
    BY <1>3, SMT
  <1> QED
    BY <1>1, <1>2, <1>3, SMT

\* The space is twice its half.
LEMMA Halves == SeqSpace \in Nat \ {0} /\ SeqSpace = 2 * (SeqSpace \div 2)
                /\ SeqSpace \div 2 \in Nat \ {0}
  BY SequenceNumbers

\* The numbers of the bytes of a stream compare as the bytes do.
LEMMA NumbersAgree ==
    ASSUME NumbersSuffice, isn \in Isns,
           NEW a \in 0 .. StreamLength, NEW b \in 0 .. StreamLength
    PROVE  /\ At(a) \in 0 .. SeqSpace - 1
           /\ At(a) = At(b) <=> a = b
           /\ SeqLT(At(a), At(b)) <=> a < b
           /\ SeqLEQ(At(a), At(b)) <=> a <= b
  <1> DEFINE S == SeqSpace
             x == isn + (1 + a)
             y == isn + (1 + b)
             d == At(a) - At(b)
  <1>1. S \in Nat \ {0} /\ S = 2 * (S \div 2) /\ isn \in 0 .. S - 1
        /\ StreamLength \in Nat /\ StreamLength < S \div 2 /\ S \div 2 \in Nat
    BY Halves, SequenceNumbers, SegmentsOfStream DEF NumbersSuffice
  <1>2. x \in -S .. 2 * S - 1 /\ y \in -S .. 2 * S - 1 /\ x >= 0 /\ y >= 0
        /\ x - y = a - b
    BY <1>1
  <1>3. At(a) = x % S /\ At(b) = y % S
    BY DEF At, Plus
  <1> HIDE DEF S, x, y
  <1>4. At(a) = (IF x < S THEN x ELSE x - S) /\ At(a) \in 0 .. S - 1
    <2>1. x % S = IF x < 0 THEN x + S ELSE IF x < S THEN x ELSE x - S
      BY <1>1, <1>2, Wrapped
    <2>2. x % S \in 0 .. S - 1
      BY <1>1, <1>2, Wrapped
    <2> QED
      BY <1>1, <1>2, <1>3, <2>1, <2>2
  <1>5. At(b) = (IF y < S THEN y ELSE y - S) /\ At(b) \in 0 .. S - 1
    <2>1. y % S = IF y < 0 THEN y + S ELSE IF y < S THEN y ELSE y - S
      BY <1>1, <1>2, Wrapped
    <2>2. y % S \in 0 .. S - 1
      BY <1>1, <1>2, Wrapped
    <2> QED
      BY <1>1, <1>2, <1>3, <2>1, <2>2
  <1>6. At(a) = At(b) <=> a = b
    BY <1>1, <1>2, <1>4, <1>5
  <1>7. d \in -S .. 2 * S - 1
    BY <1>1, <1>4, <1>5
  <1>8. \/ a >= b /\ d \in {a - b, a - b - S}
        \/ a < b /\ d \in {a - b, a - b + S}
    BY <1>1, <1>2, <1>4, <1>5
  <1>9. SeqLT(At(a), At(b)) <=> (d % S >= S \div 2)
    BY DEF SeqLT, S
  <1> HIDE DEF d
  <1>10. d % S = IF d < 0 THEN d + S ELSE IF d < S THEN d ELSE d - S
    BY <1>1, <1>7, Wrapped
  <1>11. SeqLT(At(a), At(b)) <=> a < b
    BY <1>1, <1>7, <1>8, <1>9, <1>10
  <1>12. SeqLEQ(At(a), At(b)) <=> a <= b
    BY <1>6, <1>11 DEF SeqLEQ
  <1> QED
    BY <1>4, <1>6, <1>11, <1>12 DEF S

\* The first number of a window is in it.
LEMMA WindowBegins ==
    ASSUME NEW x \in 0 .. SeqSpace - 1
    PROVE  SeqLEQ(x, Plus(x, Window - 1))
  <1> DEFINE S == SeqSpace
             y == x + (Window - 1)
             d == x - (y % S)
  <1>1. S \in Nat \ {0} /\ S = 2 * (S \div 2) /\ S \div 2 \in Nat
        /\ Window \in 1 .. S \div 2 /\ x \in 0 .. S - 1
    BY Halves, SequenceNumbers
  <1>2. y \in -S .. 2 * S - 1 /\ y = x + (Window - 1) /\ d = x - (y % S)
    BY <1>1
  <1>3. Plus(x, Window - 1) = y % S
        /\ (SeqLEQ(x, Plus(x, Window - 1)) <=> x = y % S \/ d % S >= S \div 2)
    <2>1. Plus(x, Window - 1) = y % S
      BY DEF Plus
    <2>2. SeqLT(x, y % S) <=> d % S >= S \div 2
      BY DEF SeqLT
    <2> HIDE DEF S, y, d
    <2>3. SeqLEQ(x, y % S) <=> x = y % S \/ d % S >= S \div 2
      BY <2>2 DEF SeqLEQ
    <2> QED
      BY <2>1, <2>3
  <1> HIDE DEF S, y, d
  <1>4. y % S = IF y < 0 THEN y + S ELSE IF y < S THEN y ELSE y - S
    BY <1>1, <1>2, Wrapped
  <1>5. d \in -S .. 2 * S - 1
    BY <1>1, <1>2, <1>4
  <1>6. d % S = IF d < 0 THEN d + S ELSE IF d < S THEN d ELSE d - S
    BY <1>1, <1>5, Wrapped
  <1> QED
    BY <1>1, <1>2, <1>3, <1>4, <1>6

\* What a segment's number and the number behind it are.
LEMMA Numbered ==
    ASSUME NEW s \in Segments, isn \in Isns
    PROVE  /\ s.from \in 0 .. StreamLength /\ s.len \in 0 .. StreamLength
           /\ s.from + s.len \in 0 .. StreamLength
           /\ SeqNo(s) = At(s.from)
           /\ NumbersSuffice => Advance(s) = At(s.from + s.len)
  <1> DEFINE S == SeqSpace
             x == isn + (1 + s.from)
             y == isn + (1 + (s.from + s.len))
  <1>1. s.from \in 0 .. StreamLength /\ s.len \in 0 .. StreamLength
        /\ s.from + s.len <= StreamLength
    BY SegmentsOfStream
  <1>2. SeqNo(s) = At(s.from)
    BY DEF SeqNo, At
  <1>3. ASSUME NumbersSuffice PROVE Advance(s) = At(s.from + s.len)
    <2> DEFINE z == (x % S) + s.len
    <2>1. S \in Nat \ {0} /\ S = 2 * (S \div 2) /\ isn \in 0 .. S - 1
          /\ StreamLength \in Nat /\ StreamLength < S \div 2 /\ S \div 2 \in Nat
      BY <1>3, Halves, SequenceNumbers, SegmentsOfStream DEF NumbersSuffice
    <2>2. x \in -S .. 2 * S - 1 /\ y \in -S .. 2 * S - 1 /\ x >= 0 /\ y = x + s.len
          /\ z = (x % S) + s.len
      BY <1>1, <2>1
    <2>3. Advance(s) = z % S /\ At(s.from + s.len) = y % S
      BY DEF Advance, SeqNo, Plus, At
    <2> HIDE DEF S, x, y, z
    <2>4. x % S = (IF x < 0 THEN x + S ELSE IF x < S THEN x ELSE x - S)
          /\ y % S = (IF y < 0 THEN y + S ELSE IF y < S THEN y ELSE y - S)
      BY <2>1, <2>2, Wrapped
    <2>5. z \in -S .. 2 * S - 1
      BY <1>1, <2>1, <2>2, <2>4
    <2>6. z % S = IF z < 0 THEN z + S ELSE IF z < S THEN z ELSE z - S
      BY <2>1, <2>5, Wrapped
    <2>7. z % S = y % S
      <3>1. CASE x < S
        BY <1>1, <2>1, <2>2, <2>4, <2>6, <3>1
      <3>2. CASE x >= S
        <4>1. x % S = x - S /\ y % S = y - S
          BY <1>1, <2>1, <2>2, <2>4, <3>2
        <4>2. S \in Int /\ x \in Int /\ s.len \in Int
          BY <1>1, <2>1, <2>2
        <4>3. z = y - S
          BY <2>2, <4>1, <4>2
        <4> QED
          BY <2>1, <2>2, <2>6, <3>2, <4>1, <4>3
      <3> QED
        BY <2>1, <2>2, <3>1, <3>2
    <2> QED
      BY <2>3, <2>7
  <1> QED
    BY <1>1, <1>2, <1>3, SegmentsOfStream

------------------------------------------------------------------------------
(* The queue.                                                               *)

\* Insertion in front, behind n elements, and removal of the first.
LEMMA Inserted ==
    ASSUME NEW T, NEW q \in Seq(T), NEW e \in T, NEW n \in 0 .. Len(q)
    PROVE  /\ InsertAt(q, n + 1, e) \in Seq(T)
           /\ Len(InsertAt(q, n + 1, e)) = Len(q) + 1
           /\ \A i \in 1 .. Len(q) + 1 : InsertAt(q, n + 1, e)[i] =
                 IF i <= n THEN q[i] ELSE IF i = n + 1 THEN e ELSE q[i - 1]
  <1> DEFINE a == SubSeq(q, 1, n)
             b == <<e>>
             c == SubSeq(q, n + 1, Len(q))
  <1>0. Len(q) \in Nat /\ n \in Nat
    BY LenProperties
  <1>1. a \in Seq(T) /\ Len(a) = n /\ \A i \in 1 .. n : a[i] = q[i]
    BY <1>0, SubSeqProperties
  <1>2. b \in Seq(T) /\ Len(b) = 1 /\ b[1] = e
    OBVIOUS
  <1>3. c \in Seq(T) /\ Len(c) = Len(q) - n
        /\ \A i \in 1 .. Len(q) - n : c[i] = q[n + i]
    BY <1>0, SubSeqProperties
  <1>4. InsertAt(q, n + 1, e) = (a \o b) \o c
    <2>1. (n + 1) - 1 = n
      BY <1>0
    <2> QED
      BY <2>1 DEF InsertAt
  <1> HIDE DEF a, b, c
  <1> DEFINE ab == a \o b
             abc == ab \o c
  <1>5. ab \in Seq(T) /\ Len(ab) = n + 1
        /\ \A i \in 1 .. n + 1 : ab[i] = IF i <= n THEN q[i] ELSE e
    <2>1. ab \in Seq(T) /\ Len(ab) = Len(a) + Len(b)
          /\ \A i \in 1 .. Len(a) + Len(b) :
                ab[i] = IF i <= Len(a) THEN a[i] ELSE b[i - Len(a)]
      BY <1>1, <1>2, ConcatProperties
    <2> HIDE DEF ab
    <2> QED
      BY <1>0, <1>1, <1>2, <2>1
  <1> HIDE DEF ab
  <1>6. abc \in Seq(T) /\ Len(abc) = Len(ab) + Len(c)
        /\ \A i \in 1 .. Len(ab) + Len(c) :
              abc[i] = IF i <= Len(ab) THEN ab[i] ELSE c[i - Len(ab)]
    BY <1>3, <1>5, ConcatProperties
  <1> HIDE DEF abc
  <1>7. Len(abc) = Len(q) + 1
    BY <1>0, <1>3, <1>5, <1>6
  <1>8. ASSUME NEW i \in 1 .. Len(q) + 1
        PROVE  abc[i] = IF i <= n THEN q[i] ELSE IF i = n + 1 THEN e ELSE q[i - 1]
    <2>1. ASSUME i <= n PROVE abc[i] = q[i]
      <3>1. i \in 1 .. n + 1 /\ i <= Len(ab) /\ i \in 1 .. Len(ab) + Len(c)
        BY <1>0, <1>3, <1>5, <2>1
      <3> QED
        BY <1>5, <1>6, <2>1, <3>1
    <2>2. ASSUME i = n + 1 PROVE abc[i] = e
      <3>1. i \in 1 .. n + 1 /\ i <= Len(ab) /\ i \in 1 .. Len(ab) + Len(c) /\ ~(i <= n)
        BY <1>0, <1>3, <1>5, <2>2
      <3> QED
        BY <1>5, <1>6, <3>1
    <2>3. ASSUME i > n + 1 PROVE abc[i] = q[i - 1]
      <3>1. i - (n + 1) \in 1 .. Len(q) - n /\ n + (i - (n + 1)) = i - 1
            /\ i \in 1 .. Len(ab) + Len(c) /\ ~(i <= Len(ab))
        BY <1>0, <1>3, <1>5, <2>3
      <3>2. abc[i] = c[i - (n + 1)]
        BY <1>5, <1>6, <3>1
      <3> QED
        BY <1>3, <3>1, <3>2
    <2>4. i <= n \/ i = n + 1 \/ (i > n + 1 /\ ~(i <= n) /\ i # n + 1)
      BY <1>0
    <2> QED
      BY <1>0, <2>1, <2>2, <2>3, <2>4
  <1>9. InsertAt(q, n + 1, e) = abc
    BY <1>4 DEF ab, abc
  <1> QED
    BY <1>6, <1>7, <1>8, <1>9

LEMMA InsertedFirst ==
    ASSUME NEW T, NEW q \in Seq(T), NEW e \in T
    PROVE  /\ Cons(e, q) \in Seq(T) /\ Len(Cons(e, q)) = Len(q) + 1
           /\ Cons(e, q) # <<>> /\ Head(Cons(e, q)) = e /\ Tail(Cons(e, q)) = q
           /\ \A i \in 1 .. Len(q) + 1 :
                 Cons(e, q)[i] = IF i = 1 THEN e ELSE q[i - 1]
  <1>0. Len(q) \in Nat
    BY LenProperties
  <1>1. <<e>> \in Seq(T) /\ Len(<<e>>) = 1 /\ <<e>>[1] = e
    OBVIOUS
  <1>2. Cons(e, q) = <<e>> \o q
    BY DEF Cons
  <1>3. Cons(e, q) \in Seq(T) /\ Len(Cons(e, q)) = Len(q) + 1
        /\ \A i \in 1 .. Len(q) + 1 : Cons(e, q)[i] = IF i = 1 THEN e ELSE q[i - 1]
    BY <1>0, <1>1, <1>2, ConcatProperties
  <1> DEFINE c == Cons(e, q)
  <1> HIDE DEF c
  <1>4. c \in Seq(T) /\ Len(c) = Len(q) + 1
        /\ \A i \in 1 .. Len(q) + 1 : c[i] = IF i = 1 THEN e ELSE q[i - 1]
    BY <1>3 DEF c
  <1>5. c # <<>> /\ Head(c) = e /\ Tail(c) \in Seq(T) /\ Len(Tail(c)) = Len(q)
        /\ \A i \in 1 .. Len(q) : Tail(c)[i] = c[i + 1]
    BY <1>0, <1>4, HeadTailProperties
  <1>6. \A i \in 1 .. Len(q) : Tail(c)[i] = q[i]
    BY <1>0, <1>4, <1>5
  <1>7. Tail(c) = q
    BY <1>5, <1>6, SeqEqual
  <1> QED
    BY <1>3, <1>5, <1>7 DEF c

LEMMA Removed ==
    ASSUME NEW T, NEW q \in Seq(T), q # <<>>
    PROVE  /\ Head(q) \in T /\ Tail(q) \in Seq(T)
           /\ Len(q) \in Nat \ {0} /\ Len(Tail(q)) = Len(q) - 1
           /\ Head(q) = q[1]
           /\ \A i \in 1 .. Len(q) - 1 : Tail(q)[i] = q[i + 1]
  BY HeadTailProperties, LenProperties, EmptySeq, ElementOfSeq

------------------------------------------------------------------------------
(* Types, and where an indication of a segment can stand.                   *)

Inside == pc # "idle" => status = "ESTABLISHED" /\ cur \in Segments /\ cur.len > 0

Base == TypeOK /\ faults \in Scenarios /\ isn \in Isns /\ Inside

\* A sum is a number; the bytes of a segment are in the stream.
LEMMA SumTyped ==
    ASSUME NEW x \in Int, NEW y \in Int
    PROVE  Plus(x, y) \in 0 .. SeqSpace - 1
  <1> DEFINE z == x + y
             S == SeqSpace
  <1>1. z \in Int /\ S \in Nat \ {0}
    BY SequenceNumbers
  <1>2. Plus(x, y) = z % S
    BY DEF Plus
  <1> HIDE DEF z, S
  <1>3. z % S \in 0 .. S - 1
    BY <1>1
  <1> QED
    BY <1>2, <1>3 DEF S

LEMMA SegmentTyped ==
    ASSUME NEW s \in Segments \cup {Nothing}
    PROVE  /\ s.from \in Nat /\ s.len \in Nat
           /\ Bytes(s) \subseteq Stream /\ Bytes(s) = s.from .. (s.from + s.len - 1)
  <1>1. s.from \in 0 .. StreamLength /\ s.len \in 0 .. StreamLength
        /\ s.from + s.len <= StreamLength /\ StreamLength \in Nat
    BY SegmentsOfStream DEF Nothing
  <1> QED
    BY <1>1 DEF Bytes, Stream

LEMMA InitBase == Init => Base
  <1> SUFFICES ASSUME Init PROVE Base
    OBVIOUS
  <1>1. rcv_nxt \in 0 .. SeqSpace - 1
    BY SequenceNumbers DEF Init
  <1>2. ooseq \in Seq(Segments)
    BY EmptySeq DEF Init
  <1>3. hs \in {"none", "syn", "open", "fin"}
    BY DEF Init
  <1> QED
    BY <1>1, <1>2, <1>3 DEF Init, Base, TypeOK, Inside

\* What Arrives brings: a segment, with the indication idle.
LEMMA ArrivesTyped ==
    ASSUME NEW s \in Segments, TypeOK, Arrives(s)
    PROVE  /\ arrived' \subseteq Stream /\ hs' \in {"none", "syn", "open", "fin"}
           /\ pc = "idle" /\ got \cup Bytes(s) \subseteq Stream
           /\ s \in Segments \cup {Nothing}
  BY SegmentTyped DEF TypeOK, Arrives

\* The faults and the first number are chosen once.
LEMMA NeverChanges == [Next]_vars => faults' = faults /\ isn' = isn
  BY DEF Next, vars, given, OnSyn, OnSynAck, OnFinAck, Receive, Deliver, OnLastAck,
     OnSynRcvd, OnShortage, OnOther, Store, InOrder, InsertHead, DeliverHead,
     DeliverEnds, AppReceive, AppReceiveFreed, AppReceiveFails

\* Every handler keeps the types and the places.
LEMMA NextBase == Base /\ [Next]_vars => Base'
  <1> SUFFICES ASSUME Base, [Next]_vars PROVE Base'
    OBVIOUS
  <1> USE DEF Base
  <1>0. faults' = faults /\ isn' = isn
    BY NeverChanges
  <1>1. isn \in Int /\ 1 \in Int /\ AfterSyn \in 0 .. SeqSpace - 1
        /\ \A s \in Segments : SeqNo(s) \in 0 .. SeqSpace - 1
                               /\ Advance(s) \in 0 .. SeqSpace - 1
    <2>0. isn \in Int
      BY SequenceNumbers
    <2>1. AfterSyn \in 0 .. SeqSpace - 1
      BY <2>0, SumTyped DEF AfterSyn
    <2>2. ASSUME NEW s \in Segments
          PROVE  SeqNo(s) \in 0 .. SeqSpace - 1 /\ Advance(s) \in 0 .. SeqSpace - 1
      <3>1. 1 + s.from \in Int /\ s.len \in Int
        BY SegmentsOfStream
      <3>2. SeqNo(s) \in 0 .. SeqSpace - 1
        BY <2>0, <3>1, SumTyped DEF SeqNo
      <3>3. SeqNo(s) \in Int
        BY <3>2, SequenceNumbers
      <3> QED
        BY <3>1, <3>2, <3>3, SumTyped DEF Advance
    <2> QED
      BY <2>0, <2>1, <2>2
  <1>2. CASE UNCHANGED vars
    BY <1>0, <1>2 DEF vars, given, pcb, locals, peer, TypeOK, Inside
  <1>3. CASE OnSyn \/ OnSynAck
    BY <1>0, <1>1, <1>3 DEF OnSyn, OnSynAck, OpenFrom, locals, TypeOK, Inside
  <1>4. CASE OnFinAck
    BY <1>0, <1>4 DEF OnFinAck, locals, TypeOK, Inside
  <1>5. ASSUME NEW s \in Segments, Receive(s) PROVE Base'
    <2>1. Arrives(s)
      BY <1>5 DEF Receive, OnLastAck, OnSynRcvd, OnShortage, OnOther, Store, InOrder
    <2>2. /\ arrived' \subseteq Stream /\ hs' \in {"none", "syn", "open", "fin"}
          /\ pc = "idle" /\ got \cup Bytes(s) \subseteq Stream
      BY <2>1, ArrivesTyped
    <2>3. CASE OnLastAck(s) \/ OnSynRcvd(s)
      BY <1>0, <1>1, <2>2, <2>3 DEF OnLastAck, OnSynRcvd, PassUp, locals, TypeOK, Inside
    <2>4. CASE OnShortage(s) \/ OnOther(s)
      BY <1>0, <2>2, <2>4 DEF OnShortage, OnOther, PassUp, pcb, locals, TypeOK, Inside
    <2>5. CASE Store(s)
      <3>1. PICK n \in 0 .. Len(ooseq) : ooseq' = InsertAt(ooseq, n + 1, s)
        BY <2>5 DEF Store
      <3>2. ooseq' \in Seq(Segments)
        BY <3>1, Inserted DEF TypeOK
      <3> QED
        BY <1>0, <2>2, <2>5, <3>2 DEF Store, locals, TypeOK, Inside
    <2>6. CASE InOrder(s)
      BY <1>0, <2>2, <2>6 DEF InOrder, pcb, TypeOK, Inside
    <2> QED
      BY <1>5, <2>3, <2>4, <2>5, <2>6 DEF Receive
  <1>6. CASE InsertHead
    <2>1. Cons(cur, ooseq) \in Seq(Segments)
      BY <1>6, InsertedFirst DEF InsertHead, TypeOK, Inside
    <2> QED
      BY <1>0, <1>6, <2>1 DEF InsertHead, peer, TypeOK, Inside
  <1>7. CASE DeliverHead
    <2>1. Head(ooseq) \in Segments /\ Tail(ooseq) \in Seq(Segments)
      BY <1>7, Removed DEF DeliverHead, HeadIsNext, TypeOK
    <2> QED
      BY <1>0, <1>1, <1>7, <2>1 DEF DeliverHead, peer, TypeOK, Inside
  <1>8. CASE AppReceive \/ DeliverEnds
    <2>0. cur \in Segments \cup {Nothing} /\ got \subseteq Stream /\ ups \in Nat
      BY DEF TypeOK
    <2>1. got \cup Bytes(cur) \subseteq Stream /\ ups + 1 \in Nat
      BY <2>0, SegmentTyped
    <2> QED
      BY <1>0, <1>8, <2>1 DEF AppReceive, DeliverEnds, PassUp, pcb, peer, given, TypeOK, Inside
  <1>9. CASE AppReceiveFreed \/ AppReceiveFails
    BY <1>0, <1>9 DEF AppReceiveFreed, AppReceiveFails, pcb, peer, TypeOK, Inside
  <1> QED
    BY <1>2, <1>3, <1>4, <1>5, <1>6, <1>7, <1>8, <1>9 DEF Next, Deliver

\* Every variable keeps its type (tcp_recevie, app_receive).
THEOREM TypeCorrect == Spec => []TypeOK
  <1>1. Base => TypeOK
    BY DEF Base
  <1> QED
    BY InitBase, NextBase, <1>1, PTL DEF Spec

------------------------------------------------------------------------------
(* A stream in sequence, which may be repeated and follow another one.  The *)
(* first k bytes arrived.  Between two indications they are above, nothing  *)
(* is queued and rcv_nxt is at k; during one, the segment that ends at k is *)
(* first queued, then taken off again and submitted, and the loop ends.     *)

Settled(k) ==
    /\ got = arrived /\ ooseq = <<>>
    /\ status = "ESTABLISHED" => rcv_nxt = At(k)
    /\ ups <= 1 /\ (freed => ups = 1)

Untouched == ~freed /\ ups = 0 /\ verdict = "pass" /\ got = 0 .. (cur.from - 1)

Delivering(k) ==
    /\ cur.from + cur.len = k
    /\ \/ /\ pc = "inserting" /\ Untouched
          /\ ooseq = <<>> /\ rcv_nxt = At(cur.from)
       \/ /\ pc = "delivering" /\ Untouched
          /\ ooseq # <<>> /\ Head(ooseq) = cur /\ Tail(ooseq) = <<>>
          /\ rcv_nxt = At(cur.from)
       \/ /\ pc = "submitting" /\ Untouched
          /\ ooseq = <<>> /\ rcv_nxt = At(k)
       \/ /\ pc = "delivering" /\ ooseq = <<>> /\ rcv_nxt = At(k)
          /\ freed /\ ups = 1 /\ verdict = "kept" /\ got = arrived

Handshake(k) ==
    /\ arrived = 0 .. (k - 1)
    /\ hs = "syn" => k = 0 /\ status = "SYN_RCVD"
    /\ status = "SYN_RCVD" => hs = "syn"

InStep ==
    InSequence =>
        \E k \in 0 .. StreamLength :
            /\ Handshake(k)
            /\ pc = "idle" => Settled(k)
            /\ pc # "idle" => Delivering(k)

LEMMA InitInStep == Init => InStep
  <1> SUFFICES ASSUME Init PROVE InStep
    OBVIOUS
  <1>1. 0 \in 0 .. StreamLength /\ 0 .. (0 - 1) = {}
    BY SegmentsOfStream
  <1>2. Handshake(0) /\ Settled(0) /\ pc = "idle"
    BY <1>1 DEF Init, Handshake, Settled
  <1> QED
    BY <1>1, <1>2 DEF InStep

\* What arrives in sequence is old, or begins where what arrived ends.
LEMMA ArrivesInStep ==
    ASSUME InSequence, NEW s \in Segments, Arrives(s),
           NEW k \in 0 .. StreamLength, arrived = 0 .. (k - 1)
    PROVE  \/ /\ arrived' = arrived
              /\ s.len > 0 => s.from < k
           \/ /\ s.len > 0 /\ s.from = k /\ k + s.len \in 0 .. StreamLength
              /\ arrived' = 0 .. (k + s.len - 1)
  <1> DEFINE f == s.from
             n == s.len
  <1>1. f \in Nat /\ n \in Nat /\ f + n \in 0 .. StreamLength /\ StreamLength \in Nat
        /\ Bytes(s) = f .. (f + n - 1)
    BY SegmentsOfStream DEF Bytes
  <1>2. /\ 0 .. (f - 1) \subseteq arrived
        /\ Bytes(s) \subseteq arrived \/ Bytes(s) \cap arrived = {}
        /\ arrived' = arrived \cup Bytes(s)
    BY DEF Arrives, InSequence
  <1> HIDE DEF f, n
  <1>3. CASE n = 0
    <2>1. Bytes(s) = {}
      BY <1>1, <1>3
    <2> QED
      BY <1>2, <1>3, <2>1 DEF n
  <1>4. CASE n > 0 /\ Bytes(s) \subseteq arrived
    <2>1. f \in Bytes(s)
      BY <1>1, <1>4
    <2>2. f < k
      BY <1>1, <1>4, <2>1
    <2> QED
      BY <1>2, <1>4, <2>2 DEF f
  <1>5. CASE n > 0 /\ Bytes(s) \cap arrived = {}
    <2>1. f \in Bytes(s) /\ f \notin arrived
      BY <1>1, <1>5
    <2>2. f >= k
      BY <1>1, <2>1
    <2>3. f <= k
      <3>1. CASE f > 0
        <4>1. f - 1 \in arrived
          BY <1>1, <1>2, <3>1
        <4> QED
          BY <1>1, <4>1
      <3> QED
        BY <1>1, <3>1
    <2>4. f = k
      BY <1>1, <2>2, <2>3
    <2>5. arrived' = 0 .. (k + n - 1)
      BY <1>1, <1>2, <1>5, <2>4
    <2> QED
      BY <1>1, <1>5, <2>4, <2>5 DEF f, n
  <1>6. n = 0 \/ n > 0
    BY <1>1
  <1> QED
    BY <1>2, <1>3, <1>4, <1>5, <1>6

\* Where a number is within the window or not, in a stream short enough.
LEMMA InWindowAgrees ==
    ASSUME NumbersSuffice, isn \in Isns, NEW s \in Segments,
           NEW r \in 0 .. StreamLength, rcv_nxt = At(r)
    PROVE  /\ SeqNo(s) = rcv_nxt <=> s.from = r
           /\ s.from = r => InWindow(s)
           /\ s.from < r => ~InWindow(s)
           /\ InWindow(s) /\ SeqNo(s) # rcv_nxt => s.from > r
  <1>1. s.from \in 0 .. StreamLength /\ SeqNo(s) = At(s.from)
    BY Numbered
  <1>2. rcv_nxt \in 0 .. SeqSpace - 1 /\ (At(s.from) = At(r) <=> s.from = r)
        /\ (SeqLEQ(At(r), At(s.from)) <=> r <= s.from)
    BY <1>1, NumbersAgree
  <1>3. s.from = r => InWindow(s)
    BY <1>1, <1>2, WindowBegins DEF InWindow, SeqBetween
  <1>4. InWindow(s) => r <= s.from
    BY <1>1, <1>2 DEF InWindow, SeqBetween
  <1> QED
    BY <1>1, <1>2, <1>3, <1>4, SegmentsOfStream

LEMMA NextInStep ==
    ASSUME NumbersSuffice, Base, InStep, [Next]_vars PROVE InStep'
  <1> SUFFICES ASSUME InSequence'
               PROVE  \E k \in 0 .. StreamLength :
                         /\ Handshake(k)'
                         /\ pc' = "idle" => Settled(k)'
                         /\ pc' # "idle" => Delivering(k)'
    BY DEF InStep
  <1>0. faults' = faults /\ isn' = isn
    BY NeverChanges
  <1>1. InSequence
    BY <1>0 DEF InSequence
  <1>2. PICK k \in 0 .. StreamLength :
                /\ Handshake(k)
                /\ pc = "idle" => Settled(k)
                /\ pc # "idle" => Delivering(k)
    BY <1>1 DEF InStep
  <1>3. isn \in Isns /\ StreamLength \in Nat /\ k \in Nat /\ ooseq \in Seq(Segments)
        /\ At(0) = AfterSyn
    <2>1. 1 + 0 = 1
      OBVIOUS
    <2> QED
      BY <2>1, SegmentsOfStream DEF Base, TypeOK, At, AfterSyn
  <1>4. \A n \in 0 .. StreamLength : At(n)' = At(n)
    BY <1>0 DEF At, Plus
  <1>5. CASE UNCHANGED vars
    <2>1. At(k)' = At(k) /\ At(cur.from)' = At(cur.from)
      BY <1>0, <1>5 DEF vars, locals, At, Plus
    <2>2. Handshake(k)' /\ (pc' = "idle" => Settled(k)') /\ (pc' # "idle" => Delivering(k)')
      BY <1>2, <1>5, <2>1 DEF vars, pcb, locals, peer, given, Handshake, Settled, Delivering,
         Untouched
    <2> QED
      BY <2>2
  <1>6. CASE OnSyn \/ OnSynAck
    <2>1. 0 \in 0 .. StreamLength /\ 0 .. (0 - 1) = {} /\ At(0)' = At(0)
      BY <1>3, <1>4
    <2>2. Handshake(0)' /\ Settled(0)' /\ pc' = "idle"
      BY <1>2, <1>3, <1>6, <2>1
      DEF OnSyn, OnSynAck, OpenFrom, locals, given, Handshake, Settled
    <2> QED
      BY <2>1, <2>2
  <1>7. CASE OnFinAck
    <2>1. Handshake(k)' /\ Settled(k)' /\ pc' = "idle"
      BY <1>2, <1>4, <1>7 DEF OnFinAck, locals, Handshake, Settled
    <2> QED
      BY <2>1
  <1>8. ASSUME NEW s \in Segments, Receive(s)
        PROVE  \E j \in 0 .. StreamLength :
                  /\ Handshake(j)'
                  /\ pc' = "idle" => Settled(j)'
                  /\ pc' # "idle" => Delivering(j)'
    <2>1. Arrives(s) /\ pc = "idle" /\ Settled(k) /\ Handshake(k)
      BY <1>2, <1>8 DEF Receive, OnLastAck, OnSynRcvd, OnShortage, OnOther, Store, InOrder,
         Arrives
    <2>2. PICK j \in 0 .. StreamLength :
             /\ arrived' = 0 .. (j - 1)
             /\ \/ j = k /\ (s.len > 0 => s.from < k)
                \/ s.len > 0 /\ s.from = k /\ j = k + s.len
      <3>1. arrived = 0 .. (k - 1)
        BY <2>1 DEF Handshake
      <3>2. CASE arrived' = arrived /\ (s.len > 0 => s.from < k)
        BY <3>1, <3>2
      <3>3. CASE /\ s.len > 0 /\ s.from = k /\ k + s.len \in 0 .. StreamLength
                 /\ arrived' = 0 .. (k + s.len - 1)
        <4>1. k + s.len \in 0 .. StreamLength /\ arrived' = 0 .. ((k + s.len) - 1)
          BY <1>3, <3>3, SegmentsOfStream
        <4> QED
          BY <3>3, <4>1
      <3> QED
        BY <1>1, <2>1, <3>1, <3>2, <3>3, ArrivesInStep
    <2>3. s.from \in 0 .. StreamLength /\ s.len \in 0 .. StreamLength
          /\ arrived' = arrived \cup Bytes(s)
      BY <2>1, SegmentsOfStream DEF Arrives
    <2>4. hs' # "syn" /\ (hs = "syn" => s = Nothing)
      BY <1>1, <2>1 DEF Arrives, InSequence
    <2>5. status = "ESTABLISHED" =>
             /\ SeqNo(s) = rcv_nxt <=> s.from = k
             /\ s.from = k => InWindow(s)
             /\ s.from < k => ~InWindow(s)
      BY <1>3, <2>1, InWindowAgrees DEF Settled
    <2>6. At(j)' = At(j) /\ At(k)' = At(k)
      BY <1>4
    <2>7. CASE OnLastAck(s)
      <3>1. Handshake(j)' /\ Settled(j)' /\ pc' = "idle"
        BY <2>1, <2>2, <2>3, <2>4, <2>7 DEF OnLastAck, PassUp, locals, Handshake, Settled
      <3> QED
        BY <3>1
    <2>8. CASE OnSynRcvd(s)
      <3>1. k = 0 /\ s.from = 0 /\ s.len = 0
        BY <2>1, <2>4, <2>8 DEF OnSynRcvd, Handshake, Nothing
      <3>2. j = 0 /\ SeqNo(s) = At(0)
        BY <1>3, <2>2, <3>1, Numbered
      <3>3. Handshake(j)' /\ Settled(j)' /\ pc' = "idle"
        BY <2>1, <2>2, <2>3, <2>4, <2>6, <2>8, <3>1, <3>2
        DEF OnSynRcvd, PassUp, locals, Handshake, Settled
      <3> QED
        BY <3>3
    <2>9. CASE OnOther(s)
      <3>1. status # "SYN_RCVD" /\ (status = "ESTABLISHED" => j = k)
        BY <2>2, <2>3, <2>5, <2>9 DEF OnOther
      <3>2. Handshake(j)' /\ Settled(j)' /\ pc' = "idle"
        BY <2>1, <2>2, <2>3, <2>4, <2>6, <2>9, <3>1
        DEF OnOther, PassUp, pcb, locals, Handshake, Settled
      <3> QED
        BY <3>2
    <2>10. CASE InOrder(s)
      <3>1. s.from = k /\ j = k + s.len
        BY <2>2, <2>3, <2>5, <2>10 DEF InOrder
      <3>2. SeqNo(s) = At(s.from) /\ At(s.from)' = At(s.from)
        BY <1>3, <1>4, <2>3, Numbered
      <3>3. Handshake(j)' /\ Delivering(j)' /\ pc' # "idle"
        BY <1>3, <2>1, <2>2, <2>4, <2>10, <3>1, <3>2
        DEF InOrder, pcb, Handshake, Settled, Delivering, Untouched
      <3> QED
        BY <3>3
    <2>11. ~OnShortage(s) /\ ~Store(s)
      BY <1>1, <2>2, <2>3, <2>5 DEF OnShortage, Store, InSequence
    <2> QED
      BY <1>8, <2>7, <2>8, <2>9, <2>10, <2>11 DEF Receive
  <1>9. CASE Deliver
    <2>1. pc # "idle" /\ Delivering(k)
      BY <1>2, <1>9 DEF Deliver, InsertHead, DeliverHead, DeliverEnds, AppReceive,
         AppReceiveFreed, AppReceiveFails
    <2>2. cur \in Segments /\ cur.len > 0 /\ cur.from + cur.len = k /\ SeqNo(cur) = At(cur.from)
          /\ Advance(cur) = At(k) /\ cur.from \in 0 .. StreamLength
          /\ cur.len \in 0 .. StreamLength /\ k \in 0 .. StreamLength
      BY <1>3, <2>1, Numbered DEF Base, Inside, Delivering
    <2>3. cur' = cur /\ At(k)' = At(k) /\ At(cur.from)' = At(cur.from)
      <3>1. cur' = cur
        BY <1>9 DEF Deliver, InsertHead, DeliverHead, DeliverEnds, AppReceive,
           AppReceiveFreed, AppReceiveFails
      <3>2. At(k)' = At(k) /\ At(cur.from)' = At(cur.from)
        BY <1>0, <3>1 DEF At, Plus
      <3> QED
        BY <3>1, <3>2
    <2>4. HeadIsNext <=> ooseq # <<>> 
      BY <2>1, <2>2 DEF HeadIsNext, Delivering
    <2>5. CASE InsertHead
      <3>1. Cons(cur, ooseq) # <<>> /\ Head(Cons(cur, ooseq)) = cur
            /\ Tail(Cons(cur, ooseq)) = ooseq
        BY <1>3, <2>2, InsertedFirst
      <3>2. Handshake(k)' /\ Delivering(k)' /\ pc' # "idle"
        BY <1>2, <2>1, <2>3, <2>5, <3>1 DEF InsertHead, peer, Handshake, Delivering, Untouched
      <3> QED
        BY <3>2
    <2>6. CASE DeliverHead
      <3>1. Handshake(k)' /\ Delivering(k)' /\ pc' # "idle"
        BY <1>2, <2>1, <2>2, <2>3, <2>6 DEF DeliverHead, HeadIsNext, peer, Handshake,
           Delivering, Untouched
      <3> QED
        BY <3>1
    <2>7. CASE AppReceive
      <3>1. got' = arrived
        <4>1. got = 0 .. (cur.from - 1) /\ got' = got \cup Bytes(cur)
              /\ arrived = 0 .. (k - 1)
          BY <1>2, <2>1, <2>7 DEF AppReceive, Delivering, Untouched, Handshake
        <4> QED
          BY <1>3, <2>2, <4>1 DEF Bytes
      <3>2. Handshake(k)' /\ Delivering(k)' /\ pc' # "idle"
        BY <1>2, <2>1, <2>3, <2>7, <3>1 DEF AppReceive, pcb, peer, Handshake, Delivering,
           Untouched
      <3> QED
        BY <3>2
    <2>8. CASE DeliverEnds
      <3>1. ooseq = <<>> /\ freed /\ ups = 1 /\ verdict = "kept" /\ got = arrived
            /\ rcv_nxt = At(k)
        BY <1>1, <2>1, <2>4, <2>8 DEF DeliverEnds, Delivering, InSequence
      <3>2. Handshake(k)' /\ Settled(k)' /\ pc' = "idle"
        BY <1>2, <2>3, <2>8, <3>1 DEF DeliverEnds, given, pcb, peer, Handshake, Settled
      <3> QED
        BY <3>2
    <2>9. ~AppReceiveFreed /\ ~AppReceiveFails
      BY <1>1, <2>1 DEF AppReceiveFreed, AppReceiveFails, Delivering, Untouched, InSequence
    <2> QED
      BY <1>9, <2>5, <2>6, <2>7, <2>8, <2>9 DEF Deliver
  <1> QED
    BY <1>5, <1>6, <1>7, <1>8, <1>9 DEF Next

------------------------------------------------------------------------------
(* A stream in sequence, without repetition, with anything else: rcv_nxt is *)
(* at r, the first k bytes arrived, and r stays behind k for good once a    *)
(* byte was not counted.  Whatever is queued begins before k, and while the *)
(* loop is past its first turn r is at k: it takes nothing more.            *)

InTurn == "reorder" \notin faults /\ Unrepeated

FirstTurn(k, r) ==
    /\ cur.from = r /\ cur.from + cur.len = k
    /\ 0 .. (r - 1) \subseteq got /\ ~freed /\ verdict = "pass"

LaterTurn(k, r) ==
    /\ r = k
    /\ \/ verdict = "kept" /\ 0 .. (k - 1) \subseteq got
       \/ /\ verdict = "pass" /\ cur.from + cur.len = k
          /\ 0 .. (cur.from - 1) \subseteq got

Gone(k, r) ==
    /\ arrived = 0 .. (k - 1) /\ r <= k
    /\ \A i \in 1 .. Len(ooseq) : ooseq[i].from < k
    /\ hs = "none" => ooseq = <<>> /\ status = "CLOSED"
    /\ status = "SYN_RCVD" => got = arrived
    /\ status = "ESTABLISHED" => rcv_nxt = At(r)
    /\ pc = "idle" /\ status = "ESTABLISHED" => 0 .. (r - 1) \subseteq got
    /\ pc = "inserting" => FirstTurn(k, r)
    /\ pc = "delivering" =>
          \/ FirstTurn(k, r) /\ ooseq # <<>> /\ Head(ooseq) = cur
          \/ LaterTurn(k, r)
    /\ pc = "submitting" => LaterTurn(k, r) /\ ~freed /\ verdict = "pass"
    /\ pc # "stopped"

Lagging == InTurn => \E k, r \in 0 .. StreamLength : Gone(k, r)

LEMMA InitLagging == Init => Lagging
  <1> SUFFICES ASSUME Init PROVE Lagging
    OBVIOUS
  <1>1. 0 \in 0 .. StreamLength /\ 0 .. (0 - 1) = {} /\ Len(ooseq) = 0 /\ 1 .. 0 = {}
    BY SegmentsOfStream, EmptySeq DEF Init
  <1>2. Gone(0, 0)
    BY <1>1 DEF Init, Gone
  <1> QED
    BY <1>1, <1>2 DEF Lagging

\* Without reordering or repetition, what arrives is empty or brings new bytes at the end.
LEMMA ArrivesInTurn ==
    ASSUME InTurn, NEW s \in Segments, Arrives(s),
           NEW k \in 0 .. StreamLength, arrived = 0 .. (k - 1)
    PROVE  /\ s.from <= k
           /\ \/ s.len = 0 /\ arrived' = arrived
              \/ /\ s.len > 0 /\ s.from + s.len > k
                 /\ arrived' = 0 .. (s.from + s.len - 1)
  <1> DEFINE f == s.from
             n == s.len
  <1>1. f \in Nat /\ n \in Nat /\ f + n \in 0 .. StreamLength /\ StreamLength \in Nat
        /\ Bytes(s) = f .. (f + n - 1)
    BY SegmentsOfStream DEF Bytes
  <1>2. /\ 0 .. (f - 1) \subseteq arrived
        /\ n = 0 \/ ~(Bytes(s) \subseteq arrived)
        /\ arrived' = arrived \cup Bytes(s)
    BY DEF Arrives, InTurn, Unrepeated
  <1> HIDE DEF f, n
  <1>3. f <= k
    <2>1. CASE f > 0
      <3>1. f - 1 \in arrived
        BY <1>1, <1>2, <2>1
      <3> QED
        BY <1>1, <3>1
    <2> QED
      BY <1>1, <2>1
  <1>4. CASE n = 0
    <2>1. Bytes(s) = {}
      BY <1>1, <1>4
    <2> QED
      BY <1>2, <1>3, <1>4, <2>1 DEF f, n
  <1>5. CASE n > 0
    <2>0. ~(Bytes(s) \subseteq arrived)
      BY <1>2, <1>5
    <2>1. PICK b \in Bytes(s) : b \notin arrived
      BY <2>0
    <2>2. f + n > k
      BY <1>1, <2>1
    <2>3. arrived' = 0 .. (f + n - 1)
      BY <1>1, <1>2, <1>3, <1>5, <2>2
    <2> QED
      BY <1>3, <1>5, <2>2, <2>3 DEF f, n
  <1>6. n = 0 \/ n > 0
    BY <1>1
  <1> QED
    BY <1>4, <1>5, <1>6

LEMMA NextLagging ==
    ASSUME NumbersSuffice, Base, Lagging, [Next]_vars PROVE Lagging'
  <1> SUFFICES ASSUME InTurn' PROVE \E k, r \in 0 .. StreamLength : Gone(k, r)'
    BY DEF Lagging
  <1>0. faults' = faults /\ isn' = isn
    BY NeverChanges
  <1>1. InTurn
    BY <1>0 DEF InTurn, Unrepeated
  <1>2. PICK k \in 0 .. StreamLength, r \in 0 .. StreamLength : Gone(k, r)
    BY <1>1 DEF Lagging
  <1>3. isn \in Isns /\ StreamLength \in Nat /\ k \in Nat /\ r \in Nat
        /\ ooseq \in Seq(Segments) /\ At(0) = AfterSyn /\ Len(ooseq) \in Nat
        /\ \A i \in 1 .. Len(ooseq) : ooseq[i] \in Segments
    <2>1. 1 + 0 = 1
      OBVIOUS
    <2> QED
      BY <2>1, SegmentsOfStream, LenProperties, ElementOfSeq DEF Base, TypeOK, At, AfterSyn
  <1>4. \A n \in 0 .. StreamLength : At(n)' = At(n)
    BY <1>0 DEF At, Plus
  <1>5. CASE UNCHANGED vars
    <2>1. Gone(k, r)'
      BY <1>2, <1>4, <1>5 DEF vars, pcb, locals, peer, given, Gone, FirstTurn, LaterTurn
    <2> QED
      BY <2>1
  <1>6. CASE OnSyn \/ OnSynAck
    <2>1. 0 \in 0 .. StreamLength /\ 0 .. (0 - 1) = {} /\ At(0)' = At(0)
          /\ Len(<<>>) = 0 /\ 1 .. 0 = {}
      BY <1>3, <1>4, EmptySeq
    <2>2. hs = "none" /\ ooseq = <<>>
      BY <1>1, <1>2, <1>6 DEF OnSyn, OnSynAck, OpenFrom, InTurn, Unrepeated, Gone
    <2>3. /\ hs' # "none" /\ pc' = "idle" /\ ooseq' = <<>>
          /\ arrived' = {} /\ got' = {} /\ rcv_nxt' = At(0)
      BY <1>3, <1>6, <2>2 DEF OnSyn, OnSynAck, OpenFrom, locals
    <2>4. Gone(0, 0)'
      BY <2>1, <2>3 DEF Gone
    <2> QED
      BY <2>1, <2>4
  <1>7. CASE OnFinAck
    <2>1. Gone(k, r)'
      BY <1>2, <1>4, <1>7 DEF OnFinAck, locals, Gone
    <2> QED
      BY <2>1
  <1>8. ASSUME NEW s \in Segments, Receive(s)
        PROVE  \E j, q \in 0 .. StreamLength : Gone(j, q)'
    <2>1. Arrives(s) /\ pc = "idle" /\ arrived = 0 .. (k - 1) /\ hs # "none" /\ hs' # "none"
      BY <1>2, <1>8 DEF Gone, Receive, OnLastAck, OnSynRcvd, OnShortage, OnOther, Store,
         InOrder, Arrives
    <2>2. s.from \in 0 .. StreamLength /\ s.len \in 0 .. StreamLength
          /\ s.from + s.len \in 0 .. StreamLength
          /\ arrived' = arrived \cup Bytes(s)
      BY <2>1, SegmentsOfStream DEF Arrives
    <2>3. s.from <= k /\ \/ s.len = 0 /\ arrived' = arrived
                         \/ /\ s.len > 0 /\ s.from + s.len > k
                            /\ arrived' = 0 .. (s.from + s.len - 1)
      BY <1>1, <2>1, ArrivesInTurn
    <2>4. PICK j \in 0 .. StreamLength :
             /\ arrived' = 0 .. (j - 1) /\ k <= j /\ s.from <= j
             /\ s.len > 0 => j = s.from + s.len /\ s.from < j
      <3>1. CASE s.len = 0
        BY <1>3, <2>1, <2>2, <2>3, <3>1
      <3>2. CASE s.len > 0
        <4>1. arrived' = 0 .. ((s.from + s.len) - 1) /\ s.from < s.from + s.len
              /\ k <= s.from + s.len
          BY <1>3, <2>2, <2>3, <3>2
        <4> QED
          BY <1>3, <2>2, <2>3, <3>2, <4>1
      <3> QED
        BY <2>2, <3>1, <3>2
    <2>5. SeqNo(s) = At(s.from) /\ At(r)' = At(r) /\ At(s.from)' = At(s.from)
      BY <1>3, <1>4, <2>2, Numbered
    <2>6. r <= j /\ \A i \in 1 .. Len(ooseq) : ooseq[i].from < j
      <3>1. r <= k /\ \A i \in 1 .. Len(ooseq) : ooseq[i].from < k
        BY <1>2 DEF Gone
      <3>2. \A i \in 1 .. Len(ooseq) : ooseq[i].from \in Int
        BY <1>3, SegmentsOfStream
      <3> QED
        BY <1>3, <2>4, <3>1, <3>2
    <2>7. CASE OnLastAck(s) \/ OnShortage(s) \/ OnOther(s)
      <3>1. Gone(j, r)'
        BY <1>2, <2>1, <2>2, <2>4, <2>5, <2>6, <2>7
        DEF OnLastAck, OnShortage, OnOther, PassUp, pcb, locals, Gone
      <3> QED
        BY <3>1
    <2>8. CASE OnSynRcvd(s)
      <3>1. got' = arrived'
        BY <1>2, <2>2, <2>8 DEF OnSynRcvd, PassUp, Gone
      <3>2. 0 .. (s.from - 1) \subseteq got'
        BY <1>3, <2>2, <2>4, <3>1
      <3>3. Gone(j, s.from)'
        BY <1>2, <2>1, <2>2, <2>4, <2>5, <2>6, <2>8, <3>2
        DEF OnSynRcvd, locals, Gone
      <3> QED
        BY <2>2, <3>3
    <2>9. CASE Store(s)
      <3>1. PICK n \in 0 .. Len(ooseq) : ooseq' = InsertAt(ooseq, n + 1, s)
        BY <2>9 DEF Store
      <3>2. \A i \in 1 .. Len(ooseq') : ooseq'[i].from < j
        <4>0. Len(InsertAt(ooseq, n + 1, s)) = Len(ooseq) + 1
              /\ \A i \in 1 .. Len(ooseq) + 1 : InsertAt(ooseq, n + 1, s)[i] =
                   IF i <= n THEN ooseq[i] ELSE IF i = n + 1 THEN s ELSE ooseq[i - 1]
          BY <1>3, Inserted
        <4>1. Len(ooseq') = Len(ooseq) + 1
              /\ \A i \in 1 .. Len(ooseq) + 1 : ooseq'[i] =
                   IF i <= n THEN ooseq[i] ELSE IF i = n + 1 THEN s ELSE ooseq[i - 1]
          BY <3>1, <4>0
        <4>2. s.from < j
          BY <2>4, <2>9 DEF Store
        <4> TAKE i \in 1 .. Len(ooseq')
        <4>3. i \in 1 .. Len(ooseq) + 1
          BY <4>1
        <4>4. CASE i <= n
          <5>1. ooseq'[i] = ooseq[i] /\ i \in 1 .. Len(ooseq)
            BY <1>3, <4>1, <4>3, <4>4
          <5> QED
            BY <2>6, <5>1
        <4>5. CASE i = n + 1
          <5>1. ooseq'[i] = s
            BY <1>3, <4>1, <4>3, <4>5
          <5> QED
            BY <4>2, <5>1
        <4>6. CASE i > n + 1
          <5>1. ooseq'[i] = ooseq[i - 1] /\ i - 1 \in 1 .. Len(ooseq)
            BY <1>3, <4>1, <4>3, <4>6
          <5> QED
            BY <2>6, <5>1
        <4> QED
          BY <1>3, <4>3, <4>4, <4>5, <4>6
      <3>3. Gone(j, r)'
        BY <1>2, <2>1, <2>4, <2>5, <2>6, <2>9, <3>2 DEF Store, locals, Gone
      <3> QED
        BY <3>3
    <2>10. CASE InOrder(s)
      <3>1. s.from = r /\ s.len > 0 /\ status = "ESTABLISHED" /\ j = s.from + s.len
        BY <1>2, <1>3, <2>4, <2>10, InWindowAgrees DEF InOrder, Gone
      <3>2. Gone(j, r)'
        BY <1>2, <2>1, <2>4, <2>5, <2>6, <2>10, <3>1
        DEF InOrder, pcb, Gone, FirstTurn
      <3> QED
        BY <3>2
    <2> QED
      BY <1>8, <2>7, <2>8, <2>9, <2>10 DEF Receive
  <1>9. CASE Deliver
    <2>1. pc # "idle" /\ cur' = cur /\ arrived' = arrived /\ hs' = hs /\ status' = status
          /\ status = "ESTABLISHED" /\ rcv_nxt = At(r) /\ At(r)' = At(r) /\ At(k)' = At(k)
      BY <1>2, <1>4, <1>9 DEF Deliver, InsertHead, DeliverHead, DeliverEnds, AppReceive,
         AppReceiveFreed, AppReceiveFails, Base, Inside, Gone, pcb, peer
    <2>2. cur \in Segments /\ cur.len > 0 /\ SeqNo(cur) = At(cur.from)
          /\ Advance(cur) = At(cur.from + cur.len) /\ cur.from \in 0 .. StreamLength
          /\ cur.len \in 0 .. StreamLength /\ Bytes(cur) = cur.from .. (cur.from + cur.len - 1)
      BY <1>3, <2>1, Numbered DEF Base, Inside, Bytes
    <2>3. ASSUME ooseq # <<>>
          PROVE  /\ Head(ooseq) \in Segments /\ Head(ooseq).from < k
                 /\ HeadIsNext <=> Head(ooseq).from = r
                 /\ Head(ooseq) = ooseq[1] /\ Len(ooseq) > 0
      <3>1. Head(ooseq) \in Segments /\ Head(ooseq) = ooseq[1] /\ Len(ooseq) \in Nat \ {0}
        BY <1>3, <2>3, Removed
      <3>2. Head(ooseq).from < k
        BY <1>2, <3>1 DEF Gone
      <3>3. SeqNo(Head(ooseq)) = At(r) <=> Head(ooseq).from = r
        BY <1>3, <2>1, <3>1, InWindowAgrees
      <3> QED
        BY <2>1, <2>3, <3>1, <3>2, <3>3 DEF HeadIsNext
    <2>4. CASE InsertHead
      <3>1. FirstTurn(k, r) /\ pc = "inserting"
        BY <1>2, <2>4 DEF InsertHead, Gone
      <3>2. Cons(cur, ooseq) # <<>> /\ Head(Cons(cur, ooseq)) = cur
            /\ Len(Cons(cur, ooseq)) = Len(ooseq) + 1
            /\ \A i \in 1 .. Len(ooseq) + 1 :
                 Cons(cur, ooseq)[i] = IF i = 1 THEN cur ELSE ooseq[i - 1]
        BY <1>3, <2>2, InsertedFirst
      <3>3. ASSUME NEW i \in 1 .. Len(ooseq) + 1
            PROVE  Cons(cur, ooseq)[i].from < k
        <4>1. CASE i = 1
          BY <1>3, <2>2, <3>1, <3>2, <4>1 DEF FirstTurn
        <4>2. CASE i # 1
          <5>1. Cons(cur, ooseq)[i] = ooseq[i - 1] /\ i - 1 \in 1 .. Len(ooseq)
            BY <1>3, <3>2, <4>2
          <5> QED
            BY <1>2, <5>1 DEF Gone
        <4> QED
          BY <4>1, <4>2
      <3>4. ooseq' # <<>> /\ Head(ooseq') = cur'
            /\ \A i \in 1 .. Len(ooseq') : ooseq'[i].from < k
        <4>1. ooseq' = Cons(cur, ooseq)
          BY <2>4 DEF InsertHead
        <4> QED
          BY <2>1, <3>2, <3>3, <4>1
      <3>5. FirstTurn(k, r)'
        BY <2>4, <3>1 DEF InsertHead, FirstTurn
      <3>6. Gone(k, r)'
        BY <1>2, <2>1, <2>4, <3>4, <3>5 DEF InsertHead, peer, Gone
      <3> QED
        BY <3>6
    <2>5. CASE DeliverHead
      <3>1. pc = "delivering" /\ ooseq # <<>> /\ Head(ooseq).from = r
        BY <2>3, <2>5 DEF DeliverHead, HeadIsNext
      <3>2. ~LaterTurn(k, r)
        BY <1>3, <2>3, <3>1 DEF LaterTurn
      <3>3. FirstTurn(k, r) /\ Head(ooseq) = cur
        BY <1>2, <3>1, <3>2 DEF Gone
      <3>4. rcv_nxt' = At(k)'
        BY <2>1, <2>2, <2>5, <3>3 DEF DeliverHead, FirstTurn
      <3>5. Len(Tail(ooseq)) = Len(ooseq) - 1
            /\ \A i \in 1 .. Len(ooseq) - 1 : Tail(ooseq)[i] = ooseq[i + 1]
        BY <1>3, <3>1, Removed
      <3>6. ASSUME NEW i \in 1 .. Len(ooseq) - 1 PROVE Tail(ooseq)[i].from < k
        <4>1. Tail(ooseq)[i] = ooseq[i + 1] /\ i + 1 \in 1 .. Len(ooseq)
          BY <1>3, <3>5
        <4> QED
          BY <1>2, <4>1 DEF Gone
      <3>7. Gone(k, k)'
        BY <1>2, <1>3, <2>1, <2>5, <3>3, <3>4, <3>5, <3>6
        DEF DeliverHead, peer, Gone, FirstTurn, LaterTurn
      <3> QED
        BY <3>7
    <2>6. CASE AppReceive
      <3>1. LaterTurn(k, r) /\ ~freed /\ verdict = "pass" /\ got' = got \cup Bytes(cur)
        BY <1>2, <2>6 DEF AppReceive, Gone
      <3>2. 0 .. (k - 1) \subseteq got'
        BY <1>3, <2>2, <3>1 DEF LaterTurn
      <3>3. Gone(k, r)'
        BY <1>2, <2>1, <2>6, <3>1, <3>2 DEF AppReceive, pcb, peer, Gone, LaterTurn
      <3> QED
        BY <3>3
    <2>7. CASE AppReceiveFails
      <3>1. Gone(k, r)'
        BY <1>2, <2>1, <2>7 DEF AppReceiveFails, pcb, peer, Gone, LaterTurn
      <3> QED
        BY <3>1
    <2>8. CASE DeliverEnds
      <3>1. FirstTurn(k, r) \/ LaterTurn(k, r)
        BY <1>2, <2>8 DEF DeliverEnds, Gone
      <3>2. 0 .. (r - 1) \subseteq got'
        <4>1. CASE verdict = "pass"
          <5>1. got' = got \cup Bytes(cur)
            BY <2>8, <4>1 DEF DeliverEnds, PassUp
          <5>2. CASE FirstTurn(k, r)
            BY <5>1, <5>2 DEF FirstTurn
          <5>3. CASE LaterTurn(k, r)
            <6>1. cur.from + cur.len = k /\ 0 .. (cur.from - 1) \subseteq got /\ r = k
              BY <4>1, <5>3 DEF LaterTurn
            <6> QED
              BY <1>3, <2>2, <5>1, <6>1
          <5> QED
            BY <3>1, <5>2, <5>3
        <4>2. CASE verdict # "pass"
          BY <2>8, <3>1, <4>2 DEF DeliverEnds, FirstTurn, LaterTurn
        <4> QED
          BY <4>1, <4>2
      <3>3. Gone(k, r)'
        BY <1>2, <2>1, <2>8, <3>2 DEF DeliverEnds, given, pcb, peer, Gone
      <3> QED
        BY <3>3
    <2>9. ~AppReceiveFreed
      BY <1>2 DEF AppReceiveFreed, Gone
    <2> QED
      BY <1>9, <2>4, <2>5, <2>6, <2>7, <2>8, <2>9 DEF Deliver
  <1> QED
    BY <1>5, <1>6, <1>7, <1>8, <1>9 DEF Next

------------------------------------------------------------------------------
(* Segments that do not overlap, in any order, numbered without a wrap: the *)
(* queue is sorted, and nothing in it is before rcv_nxt, which is at r.     *)

Apart == Unrepeated /\ "straddle" \notin faults /\ NoWrap

Ascending(q) ==
    \A i, j \in 1 .. Len(q) : i < j => q[i].from + q[i].len <= q[j].from

Waiting(r) ==
    \A i \in 1 .. Len(ooseq) :
        ooseq[i].len > 0 /\ ooseq[i].from >= r /\ Bytes(ooseq[i]) \subseteq arrived

Queue(r) ==
    /\ hs = "none" => ooseq = <<>> /\ status = "CLOSED"
    /\ status = "SYN_RCVD" => ooseq = <<>>
    /\ status = "ESTABLISHED" => rcv_nxt = At(r)
    /\ Ascending(ooseq) /\ Waiting(r)
    /\ pc = "idle" /\ "alloc" \notin faults => \A i \in 1 .. Len(ooseq) : ooseq[i].from > r
    /\ pc = "inserting" =>
          /\ cur.from = r /\ Bytes(cur) \subseteq arrived
          /\ \A i \in 1 .. Len(ooseq) : cur.from + cur.len <= ooseq[i].from

Ordered == Apart => \E r \in 0 .. StreamLength : Queue(r)

\* An insertion where it fits keeps the order, and adds one element.
LEMMA InsertedInOrder ==
    ASSUME NEW q \in Seq(Segments), NEW s \in Segments, NEW n \in 0 .. Len(q),
           Ascending(q),
           \A i \in 1 .. n : q[i].from + q[i].len <= s.from,
           \A i \in n + 1 .. Len(q) : s.from + s.len <= q[i].from
    PROVE  /\ Ascending(InsertAt(q, n + 1, s))
           /\ \A i \in 1 .. Len(InsertAt(q, n + 1, s)) :
                 \/ InsertAt(q, n + 1, s)[i] = s
                 \/ \E j \in 1 .. Len(q) : InsertAt(q, n + 1, s)[i] = q[j]
  <1> DEFINE p == InsertAt(q, n + 1, s)
  <1>1. Len(p) = Len(q) + 1 /\ Len(q) \in Nat /\ n \in Nat
        /\ \A i \in 1 .. Len(q) + 1 :
             p[i] = IF i <= n THEN q[i] ELSE IF i = n + 1 THEN s ELSE q[i - 1]
    BY Inserted, LenProperties
  <1> HIDE DEF p
  <1>2. ASSUME NEW i \in 1 .. Len(p)
        PROVE  \/ i <= n /\ i \in 1 .. Len(q) /\ p[i] = q[i]
               \/ i = n + 1 /\ p[i] = s
               \/ i > n + 1 /\ i - 1 \in n + 1 .. Len(q) /\ i - 1 \in 1 .. Len(q)
                  /\ p[i] = q[i - 1]
    <2>1. CASE i <= n
      BY <1>1, <2>1
    <2>2. CASE i = n + 1
      BY <1>1, <2>2
    <2>3. CASE i > n + 1
      BY <1>1, <2>3
    <2> QED
      BY <1>1, <2>1, <2>2, <2>3
  <1>3. ASSUME NEW i \in 1 .. Len(p), NEW j \in 1 .. Len(p), i < j
        PROVE  p[i].from + p[i].len <= p[j].from
    <2>1. CASE i <= n
      <3>1. p[i] = q[i] /\ i \in 1 .. Len(q) /\ i \in 1 .. n
        BY <1>1, <1>2, <2>1
      <3>2. CASE j <= n
        <4>1. p[j] = q[j] /\ j \in 1 .. Len(q)
          BY <1>1, <1>2, <3>2
        <4> QED
          BY <1>3, <3>1, <4>1 DEF Ascending
      <3>3. CASE j = n + 1
        <4>1. p[j] = s
          BY <1>1, <1>2, <3>3
        <4> QED
          BY <3>1, <4>1
      <3>4. CASE j > n + 1
        <4>1. p[j] = q[j - 1] /\ j - 1 \in 1 .. Len(q) /\ i < j - 1
          BY <1>1, <1>2, <2>1, <3>4
        <4> QED
          BY <3>1, <4>1 DEF Ascending
      <3> QED
        BY <1>1, <3>2, <3>3, <3>4
    <2>2. CASE i = n + 1
      <3>1. p[i] = s
        BY <1>1, <1>2, <2>2
      <3>2. p[j] = q[j - 1] /\ j - 1 \in n + 1 .. Len(q)
        BY <1>1, <1>2, <1>3, <2>2
      <3> QED
        BY <3>1, <3>2
    <2>3. CASE i > n + 1
      <3>1. p[i] = q[i - 1] /\ i - 1 \in 1 .. Len(q)
        BY <1>1, <1>2, <2>3
      <3>2. p[j] = q[j - 1] /\ j - 1 \in 1 .. Len(q) /\ i - 1 < j - 1
        BY <1>1, <1>2, <1>3, <2>3
      <3> QED
        BY <3>1, <3>2 DEF Ascending
    <2> QED
      BY <1>1, <2>1, <2>2, <2>3
  <1> QED
    BY <1>2, <1>3 DEF Ascending, p

\* The same for an insertion in front and for a removal.
LEMMA InsertedFirstInOrder ==
    ASSUME NEW q \in Seq(Segments), NEW s \in Segments, Ascending(q),
           \A i \in 1 .. Len(q) : s.from + s.len <= q[i].from
    PROVE  /\ Ascending(Cons(s, q))
           /\ \A i \in 1 .. Len(Cons(s, q)) :
                 \/ Cons(s, q)[i] = s
                 \/ \E j \in 1 .. Len(q) : Cons(s, q)[i] = q[j]
  <1> DEFINE p == Cons(s, q)
  <1>1. Len(p) = Len(q) + 1 /\ Len(q) \in Nat
        /\ \A i \in 1 .. Len(q) + 1 : p[i] = IF i = 1 THEN s ELSE q[i - 1]
    BY InsertedFirst, LenProperties
  <1> HIDE DEF p
  <1>2. ASSUME NEW i \in 1 .. Len(p)
        PROVE  \/ i = 1 /\ p[i] = s
               \/ i > 1 /\ i - 1 \in 1 .. Len(q) /\ p[i] = q[i - 1]
    <2>1. CASE i = 1
      BY <1>1, <2>1
    <2>2. CASE i > 1
      BY <1>1, <2>2
    <2> QED
      BY <1>1, <2>1, <2>2
  <1>3. ASSUME NEW i \in 1 .. Len(p), NEW j \in 1 .. Len(p), i < j
        PROVE  p[i].from + p[i].len <= p[j].from
    <2>1. p[j] = q[j - 1] /\ j - 1 \in 1 .. Len(q)
      BY <1>1, <1>2, <1>3
    <2>2. CASE i = 1
      BY <1>1, <1>2, <2>1, <2>2
    <2>3. CASE i > 1
      <3>1. p[i] = q[i - 1] /\ i - 1 \in 1 .. Len(q) /\ i - 1 < j - 1
        BY <1>1, <1>2, <1>3, <2>3
      <3> QED
        BY <2>1, <3>1 DEF Ascending
    <2> QED
      BY <1>1, <2>2, <2>3
  <1> QED
    BY <1>2, <1>3 DEF Ascending, p

LEMMA RemovedInOrder ==
    ASSUME NEW q \in Seq(Segments), q # <<>>, Ascending(q)
    PROVE  /\ Ascending(Tail(q))
           /\ \A i \in 1 .. Len(Tail(q)) :
                 /\ \E j \in 1 .. Len(q) : Tail(q)[i] = q[j]
                 /\ Head(q).from + Head(q).len <= Tail(q)[i].from
  <1> DEFINE p == Tail(q)
  <1>1. Len(q) \in Nat \ {0} /\ Len(p) = Len(q) - 1 /\ Head(q) = q[1]
        /\ \A i \in 1 .. Len(q) - 1 : p[i] = q[i + 1]
    BY Removed
  <1> HIDE DEF p
  <1>2. \A i \in 1 .. Len(p) : p[i] = q[i + 1] /\ i + 1 \in 1 .. Len(q) /\ 1 < i + 1
    BY <1>1
  <1>3. 1 \in 1 .. Len(q)
    BY <1>1
  <1>4. \A i, j \in 1 .. Len(p) : i < j => i + 1 < j + 1
    BY <1>1
  <1> QED
    BY <1>1, <1>2, <1>3, <1>4 DEF Ascending, p

LEMMA InitOrdered == Init => Ordered
  <1> SUFFICES ASSUME Init PROVE Ordered
    OBVIOUS
  <1>1. 0 \in 0 .. StreamLength /\ Len(ooseq) = 0 /\ 1 .. 0 = {}
    BY SegmentsOfStream, EmptySeq DEF Init
  <1>2. Queue(0)
    BY <1>1 DEF Init, Queue, Ascending, Waiting
  <1> QED
    BY <1>1, <1>2 DEF Ordered

\* A segment that shares no byte with another lies before or behind it.
LEMMA BesideEachOther ==
    ASSUME NEW s \in Segments, NEW q \in Segments, s.len > 0, q.len > 0,
           Bytes(s) \cap Bytes(q) = {}
    PROVE  /\ s.from < q.from => s.from + s.len <= q.from
           /\ ~(s.from < q.from) => q.from + q.len <= s.from
  <1>1. s.from \in Nat /\ s.len \in Nat /\ q.from \in Nat /\ q.len \in Nat
        /\ Bytes(s) = s.from .. (s.from + s.len - 1)
        /\ Bytes(q) = q.from .. (q.from + q.len - 1)
    BY SegmentsOfStream DEF Bytes
  <1>2. ASSUME s.from < q.from PROVE s.from + s.len <= q.from
    <2>1. q.from \in Bytes(q)
      BY <1>1
    <2>2. q.from \notin Bytes(s)
      BY <2>1
    <2> QED
      BY <1>1, <1>2, <2>2
  <1>3. ASSUME ~(s.from < q.from) PROVE q.from + q.len <= s.from
    <2>1. s.from \in Bytes(s)
      BY <1>1
    <2>2. s.from \notin Bytes(q)
      BY <2>1
    <2> QED
      BY <1>1, <1>3, <2>2
  <1> QED
    BY <1>2, <1>3

\* Without a wrap the search of the queue compares the bytes.
LEMMA BeforeAgrees ==
    ASSUME NoWrap, isn \in Isns, NEW s \in Segments, NEW q \in Segments,
           s.len > 0, q.len > 0
    PROVE  Before(s, q) <=> s.from < q.from
  <1>1. ASSUME NEW t \in Segments, t.len > 0 PROVE SeqNo(t) = isn + 1 + t.from
    <2> DEFINE S == SeqSpace
               x == isn + (1 + t.from)
    <2>1. S \in Nat \ {0} /\ x \in -S .. 2 * S - 1 /\ 0 <= x /\ x < S
          /\ x = isn + 1 + t.from
      BY <1>1, SegmentsOfStream, SequenceNumbers DEF NoWrap
    <2>2. SeqNo(t) = x % S
      BY DEF SeqNo, Plus
    <2> HIDE DEF x, S
    <2>3. x % S = x
      BY <2>1, Wrapped
    <2> QED
      BY <2>1, <2>2, <2>3
  <1>2. SeqNo(s) = isn + 1 + s.from /\ SeqNo(q) = isn + 1 + q.from
    BY <1>1
  <1> QED
    BY <1>2, SegmentsOfStream, SequenceNumbers DEF Before

LEMMA NextOrdered ==
    ASSUME NumbersSuffice, Base, Ordered, [Next]_vars PROVE Ordered'
  <1> SUFFICES ASSUME Apart' PROVE \E r \in 0 .. StreamLength : Queue(r)'
    BY DEF Ordered
  <1>0. faults' = faults /\ isn' = isn
    BY NeverChanges
  <1>1. Apart
    BY <1>0 DEF Apart, Unrepeated, NoWrap
  <1>2. PICK r \in 0 .. StreamLength : Queue(r)
    BY <1>1 DEF Ordered
  <1>3. isn \in Isns /\ StreamLength \in Nat /\ r \in Nat
        /\ ooseq \in Seq(Segments) /\ At(0) = AfterSyn /\ Len(ooseq) \in Nat
        /\ \A i \in 1 .. Len(ooseq) : ooseq[i] \in Segments
    <2>1. 1 + 0 = 1
      OBVIOUS
    <2> QED
      BY <2>1, SegmentsOfStream, LenProperties, ElementOfSeq DEF Base, TypeOK, At, AfterSyn
  <1>4. \A n \in 0 .. StreamLength : At(n)' = At(n)
    BY <1>0 DEF At, Plus
  <1>5. CASE UNCHANGED vars
    <2>1. Queue(r)'
      BY <1>2, <1>4, <1>5 DEF vars, pcb, locals, peer, given, Queue, Ascending, Waiting
    <2> QED
      BY <2>1
  <1>6. CASE OnSyn \/ OnSynAck
    <2>1. 0 \in 0 .. StreamLength /\ At(0)' = At(0) /\ Len(<<>>) = 0 /\ 1 .. 0 = {}
      BY <1>3, <1>4, EmptySeq
    <2>2. hs = "none" /\ ooseq = <<>>
      BY <1>1, <1>2, <1>6 DEF OnSyn, OnSynAck, OpenFrom, Apart, Unrepeated, Queue
    <2>3. hs' # "none" /\ pc' = "idle" /\ ooseq' = <<>> /\ rcv_nxt' = At(0)
      BY <1>3, <1>6, <2>2 DEF OnSyn, OnSynAck, OpenFrom, locals
    <2>4. Queue(0)'
      BY <2>1, <2>3 DEF Queue, Ascending, Waiting
    <2> QED
      BY <2>1, <2>4
  <1>7. CASE OnFinAck
    <2>1. /\ hs' = "fin" /\ pc' = "idle" /\ pc = "idle" /\ status' = "LAST_ACK"
          /\ ooseq' = ooseq /\ arrived' = arrived
      BY <1>7 DEF OnFinAck, locals
    <2>2. Waiting(r) /\ Ascending(ooseq)
      BY <1>2 DEF Queue
    <2>3. Waiting(r)' /\ Ascending(ooseq)'
      BY <2>1, <2>2 DEF Waiting, Ascending
    <2>4. "alloc" \notin faults' => \A i \in 1 .. Len(ooseq') : ooseq'[i].from > r
      BY <1>0, <1>2, <2>1 DEF Queue
    <2>5. Queue(r)'
      BY <2>1, <2>3, <2>4 DEF Queue
    <2> QED
      BY <2>5
  <1>8. ASSUME NEW s \in Segments, Receive(s)
        PROVE  \E q \in 0 .. StreamLength : Queue(q)'
    <2>1. Arrives(s) /\ pc = "idle" /\ hs # "none" /\ hs' # "none"
      BY <1>8 DEF Receive, OnLastAck, OnSynRcvd, OnShortage, OnOther, Store, InOrder, Arrives
    <2>2. s.from \in 0 .. StreamLength /\ s.len \in 0 .. StreamLength
          /\ arrived' = arrived \cup Bytes(s)
      BY <2>1, SegmentsOfStream DEF Arrives
    <2>3. s.len > 0 => Bytes(s) \cap arrived = {}
      BY <1>1, <2>1, <2>2 DEF Arrives, Apart, Unrepeated
    <2>4. SeqNo(s) = At(s.from) /\ At(r)' = At(r) /\ At(s.from)' = At(s.from)
      BY <1>3, <1>4, <2>2, Numbered
    <2>5. ASSUME ooseq' = ooseq PROVE Ascending(ooseq)' /\ Waiting(r)'
      BY <1>2, <2>2, <2>5 DEF Queue, Ascending, Waiting
    <2>6. \A i \in 1 .. Len(ooseq) : s.len > 0 =>
             /\ s.from < ooseq[i].from => s.from + s.len <= ooseq[i].from
             /\ ~(s.from < ooseq[i].from) => ooseq[i].from + ooseq[i].len <= s.from
             /\ Before(s, ooseq[i]) <=> s.from < ooseq[i].from
      <3> TAKE i \in 1 .. Len(ooseq)
      <3> HAVE s.len > 0
      <3>1. ooseq[i] \in Segments /\ ooseq[i].len > 0 /\ Bytes(ooseq[i]) \subseteq arrived
        BY <1>2, <1>3 DEF Queue, Waiting
      <3>2. Bytes(s) \cap Bytes(ooseq[i]) = {}
        BY <2>3, <3>1
      <3>3. Before(s, ooseq[i]) <=> s.from < ooseq[i].from
        BY <1>1, <1>3, <3>1, BeforeAgrees DEF Apart
      <3> QED
        BY <3>1, <3>2, <3>3, BesideEachOther
    <2>7. CASE OnLastAck(s) \/ OnShortage(s) \/ OnOther(s)
      <3>1. ooseq' = ooseq
        BY <2>7 DEF OnLastAck, OnShortage, OnOther, pcb
      <3>2. Queue(r)'
        BY <1>0, <1>2, <2>1, <2>4, <2>5, <2>7, <3>1
        DEF OnLastAck, OnShortage, OnOther, pcb, locals, Queue
      <3> QED
        BY <3>2
    <2>8. CASE OnSynRcvd(s)
      <3>1. ooseq = <<>> /\ ooseq' = <<>> /\ rcv_nxt' = At(s.from)' /\ pc' = "idle"
            /\ Len(<<>>) = 0 /\ 1 .. 0 = {}
        BY <1>2, <2>1, <2>4, <2>8, EmptySeq DEF OnSynRcvd, locals, Queue
      <3>2. Queue(s.from)'
        BY <2>1, <3>1 DEF Queue, Ascending, Waiting
      <3> QED
        BY <2>2, <3>2
    <2>9. CASE Store(s)
      <3>1. PICK n \in 0 .. Len(ooseq) :
               /\ \A i \in 1 .. n : ~Before(s, ooseq[i])
               /\ n < Len(ooseq) => Before(s, ooseq[n + 1])
               /\ ooseq' = InsertAt(ooseq, n + 1, s)
        BY <2>9 DEF Store
      <3>2. s.len > 0 /\ status = "ESTABLISHED" /\ s.from > r
        BY <1>2, <1>3, <2>9, InWindowAgrees DEF Store, Queue
      <3>3. \A i \in 1 .. n : ooseq[i].from + ooseq[i].len <= s.from
        BY <1>3, <2>6, <3>1, <3>2
      <3>4. ASSUME NEW i \in n + 1 .. Len(ooseq) PROVE s.from + s.len <= ooseq[i].from
        <4>1. n + 1 \in 1 .. Len(ooseq) /\ i \in 1 .. Len(ooseq) /\ n < Len(ooseq)
          BY <1>3
        <4>2. s.from + s.len <= ooseq[n + 1].from
          BY <2>6, <3>1, <3>2, <4>1
        <4>3. CASE i = n + 1
          BY <4>2, <4>3
        <4>4. CASE i > n + 1
          <5>1. ooseq[n + 1].from + ooseq[n + 1].len <= ooseq[i].from
            BY <1>2, <4>1, <4>4 DEF Queue, Ascending
          <5>2. ooseq[n + 1] \in Segments /\ ooseq[i] \in Segments
            BY <1>3, <4>1
          <5> QED
            BY <2>2, <4>2, <5>1, <5>2, SegmentsOfStream
        <4> QED
          BY <1>3, <4>3, <4>4
      <3>5. /\ Ascending(ooseq')
            /\ \A i \in 1 .. Len(ooseq') :
                 ooseq'[i] = s \/ \E j \in 1 .. Len(ooseq) : ooseq'[i] = ooseq[j]
        <4>1. Ascending(ooseq)
          BY <1>2 DEF Queue
        <4>2. /\ Ascending(InsertAt(ooseq, n + 1, s))
              /\ \A i \in 1 .. Len(InsertAt(ooseq, n + 1, s)) :
                    \/ InsertAt(ooseq, n + 1, s)[i] = s
                    \/ \E j \in 1 .. Len(ooseq) : InsertAt(ooseq, n + 1, s)[i] = ooseq[j]
          BY <1>3, <3>3, <3>4, <4>1, InsertedInOrder
        <4> QED
          BY <3>1, <4>2
      <3>6. ASSUME NEW i \in 1 .. Len(ooseq')
            PROVE  /\ ooseq'[i].len > 0 /\ ooseq'[i].from >= r
                   /\ Bytes(ooseq'[i]) \subseteq arrived'
                   /\ "alloc" \notin faults => ooseq'[i].from > r
        <4>1. CASE ooseq'[i] = s
          BY <1>3, <2>2, <3>2, <4>1
        <4>2. ASSUME NEW j \in 1 .. Len(ooseq), ooseq'[i] = ooseq[j]
              PROVE  /\ ooseq'[i].len > 0 /\ ooseq'[i].from >= r
                     /\ Bytes(ooseq'[i]) \subseteq arrived'
                     /\ "alloc" \notin faults => ooseq'[i].from > r
          BY <1>2, <2>1, <2>2, <4>2 DEF Queue, Waiting
        <4> QED
          BY <3>5, <4>1, <4>2
      <3>7. Ascending(ooseq)' /\ Waiting(r)'
        <4>1. Ascending(ooseq)'
          BY <3>5 DEF Ascending
        <4>2. Waiting(r)'
          BY <3>6 DEF Waiting, Bytes
        <4> QED
          BY <4>1, <4>2
      <3>8. Queue(r)'
        BY <1>0, <1>2, <2>1, <2>4, <2>9, <3>2, <3>6, <3>7 DEF Store, locals, Queue
      <3> QED
        BY <3>8
    <2>10. CASE InOrder(s)
      <3>1. s.from = r /\ s.len > 0 /\ status = "ESTABLISHED"
        BY <1>2, <1>3, <2>10, InWindowAgrees DEF InOrder, Queue
      <3>2. ASSUME NEW i \in 1 .. Len(ooseq) PROVE s.from + s.len <= ooseq[i].from
        <4>1. ooseq[i] \in Segments /\ ooseq[i].len > 0 /\ ooseq[i].from >= r
          BY <1>2, <1>3 DEF Queue, Waiting
        <4>2. s.from < ooseq[i].from \/ ooseq[i].from + ooseq[i].len <= s.from
          BY <2>6, <3>1
        <4> QED
          BY <1>3, <2>6, <3>1, <4>1, <4>2, SegmentsOfStream
      <3>3. ooseq' = ooseq /\ cur' = s /\ pc' = "inserting" /\ status' = status
            /\ rcv_nxt' = rcv_nxt /\ Bytes(cur)' = Bytes(s)
        BY <2>10 DEF InOrder, pcb, Bytes
      <3>4. Queue(r)'
        BY <1>2, <2>1, <2>2, <2>4, <2>5, <3>1, <3>2, <3>3 DEF Queue
      <3> QED
        BY <3>4
    <2> QED
      BY <1>8, <2>7, <2>8, <2>9, <2>10 DEF Receive
  <1>9. CASE Deliver
    <2>1. pc # "idle" /\ cur' = cur /\ arrived' = arrived /\ hs' = hs /\ status' = status
          /\ status = "ESTABLISHED" /\ rcv_nxt = At(r) /\ At(r)' = At(r) /\ hs # "none"
          /\ pc' # "inserting"
      BY <1>2, <1>4, <1>9 DEF Deliver, InsertHead, DeliverHead, DeliverEnds, AppReceive,
         AppReceiveFreed, AppReceiveFails, Base, Inside, Queue, pcb, peer
    <2>2. cur \in Segments /\ cur.len > 0
      BY <2>1 DEF Base, Inside
    <2>3. ASSUME ooseq # <<>>
          PROVE  /\ Head(ooseq) \in Segments /\ Head(ooseq) = ooseq[1] /\ Len(ooseq) \in Nat \ {0}
                 /\ HeadIsNext <=> Head(ooseq).from = r
      <3>1. Head(ooseq) \in Segments /\ Head(ooseq) = ooseq[1] /\ Len(ooseq) \in Nat \ {0}
        BY <1>3, <2>3, Removed
      <3>2. SeqNo(Head(ooseq)) = At(r) <=> Head(ooseq).from = r
        BY <1>3, <2>1, <3>1, InWindowAgrees
      <3> QED
        BY <2>1, <2>3, <3>1, <3>2 DEF HeadIsNext
    <2>4. CASE InsertHead
      <3>1. /\ cur.from = r /\ Bytes(cur) \subseteq arrived /\ Ascending(ooseq)
            /\ \A i \in 1 .. Len(ooseq) : cur.from + cur.len <= ooseq[i].from
        BY <1>2, <2>4 DEF InsertHead, Queue
      <3>2. /\ Ascending(Cons(cur, ooseq))
            /\ \A i \in 1 .. Len(Cons(cur, ooseq)) :
                 \/ Cons(cur, ooseq)[i] = cur
                 \/ \E j \in 1 .. Len(ooseq) : Cons(cur, ooseq)[i] = ooseq[j]
        BY <1>3, <2>2, <3>1, InsertedFirstInOrder
      <3>3. ooseq' = Cons(cur, ooseq) /\ pc' = "delivering" /\ rcv_nxt' = rcv_nxt
        BY <2>4 DEF InsertHead
      <3>4. Ascending(ooseq)'
        BY <3>2, <3>3 DEF Ascending
      <3>5. ASSUME NEW i \in 1 .. Len(ooseq')
            PROVE  /\ ooseq'[i].len > 0 /\ ooseq'[i].from >= r
                   /\ Bytes(ooseq'[i]) \subseteq arrived'
        <4>1. CASE ooseq'[i] = cur
          BY <1>3, <2>1, <2>2, <3>1, <4>1
        <4>2. ASSUME NEW j \in 1 .. Len(ooseq), ooseq'[i] = ooseq[j]
              PROVE  /\ ooseq'[i].len > 0 /\ ooseq'[i].from >= r
                     /\ Bytes(ooseq'[i]) \subseteq arrived'
          BY <1>2, <2>1, <4>2 DEF Queue, Waiting
        <4> QED
          BY <3>2, <3>3, <4>1, <4>2
      <3>6. Waiting(r)'
        BY <3>5 DEF Waiting, Bytes
      <3>7. Queue(r)'
        BY <2>1, <3>3, <3>4, <3>6 DEF Queue
      <3> QED
        BY <3>7
    <2>5. CASE DeliverHead
      <3>1. ooseq # <<>> /\ Head(ooseq).from = r /\ Ascending(ooseq)
        BY <1>2, <2>3, <2>5 DEF DeliverHead, HeadIsNext, Queue
      <3>2. PICK e \in 0 .. StreamLength : e = Head(ooseq).from + Head(ooseq).len
        BY <2>3, <3>1, SegmentsOfStream
      <3>3. rcv_nxt' = At(e)'
        <4>1. rcv_nxt' = At(e)
          BY <1>3, <2>3, <2>5, <3>1, <3>2, Numbered DEF DeliverHead
        <4> QED
          BY <1>4, <4>1
      <3>4. /\ Ascending(Tail(ooseq))
            /\ \A i \in 1 .. Len(Tail(ooseq)) :
                 /\ \E j \in 1 .. Len(ooseq) : Tail(ooseq)[i] = ooseq[j]
                 /\ e <= Tail(ooseq)[i].from
        BY <1>3, <3>1, <3>2, RemovedInOrder
      <3>5. ooseq' = Tail(ooseq) /\ pc' = "submitting"
        BY <2>5 DEF DeliverHead
      <3>6. Ascending(ooseq)'
        BY <3>4, <3>5 DEF Ascending
      <3>7. ASSUME NEW i \in 1 .. Len(ooseq')
            PROVE  /\ ooseq'[i].len > 0 /\ ooseq'[i].from >= e
                   /\ Bytes(ooseq'[i]) \subseteq arrived'
        <4>1. PICK j \in 1 .. Len(ooseq) : ooseq'[i] = ooseq[j]
          BY <3>4, <3>5
        <4>2. ooseq[j] \in Segments /\ ooseq[j].len > 0 /\ Bytes(ooseq[j]) \subseteq arrived
          BY <1>2, <1>3 DEF Queue, Waiting
        <4>3. e <= ooseq'[i].from
          BY <3>4, <3>5
        <4> QED
          BY <2>1, <4>1, <4>2, <4>3, SegmentsOfStream
      <3>8. Waiting(e)'
        BY <3>7 DEF Waiting, Bytes
      <3>9. Queue(e)'
        BY <2>1, <3>3, <3>5, <3>6, <3>8 DEF Queue
      <3> QED
        BY <3>9
    <2>6. CASE AppReceive \/ AppReceiveFreed \/ AppReceiveFails
      <3>1. Queue(r)'
        BY <1>2, <2>1, <2>6
        DEF AppReceive, AppReceiveFreed, AppReceiveFails, pcb, peer, Queue, Ascending, Waiting
      <3> QED
        BY <3>1
    <2>7. CASE DeliverEnds
      <3>1. ASSUME "alloc" \notin faults, NEW i \in 1 .. Len(ooseq) PROVE ooseq[i].from > r
        <4>1. ooseq # <<>>
          BY <3>1, EmptySeq
        <4>2. Head(ooseq) = ooseq[1] /\ 1 \in 1 .. Len(ooseq) /\ ooseq[1].from # r
              /\ ooseq[1] \in Segments /\ ooseq[i] \in Segments
          BY <1>3, <2>3, <2>7, <3>1, <4>1 DEF DeliverEnds
        <4>3. ooseq[1].from >= r /\ ooseq[1].len > 0
              /\ (1 < i => ooseq[1].from + ooseq[1].len <= ooseq[i].from)
          BY <1>2, <4>2 DEF Queue, Waiting, Ascending
        <4>4. i = 1 \/ 1 < i
          BY <1>3
        <4> QED
          BY <1>3, <4>2, <4>3, <4>4, SegmentsOfStream
      <3>2. ooseq' = ooseq /\ rcv_nxt' = rcv_nxt /\ faults' = faults
        BY <1>0, <2>7 DEF DeliverEnds, pcb
      <3>3. Ascending(ooseq)' /\ Waiting(r)'
        BY <1>2, <2>1, <3>2 DEF Queue, Ascending, Waiting
      <3>4. Queue(r)'
        BY <2>1, <3>1, <3>2, <3>3 DEF Queue
      <3> QED
        BY <3>4
    <2> QED
      BY <1>9, <2>4, <2>5, <2>6, <2>7 DEF Deliver
  <1> QED
    BY <1>5, <1>6, <1>7, <1>8, <1>9 DEF Next
------------------------------------------------------------------------------
(* What the invariants say of the properties.                               *)

Inductive == Base /\ InStep /\ Lagging /\ Ordered

\* The invariants hold together.
THEOREM AllInductive == ASSUME NumbersSuffice PROVE Spec => []Inductive
  <1>1. Init => Inductive
    BY InitBase, InitInStep, InitLagging, InitOrdered DEF Inductive
  <1>2. Inductive /\ [Next]_vars => Inductive'
    BY NextBase, NextInStep, NextLagging, NextOrdered DEF Inductive
  <1> QED
    BY <1>1, <1>2, PTL DEF Spec

\* Of an established connection with packets that come in order, rcv_nxt is
\* the number of the first byte the upper protocol does not have.
LEMMA InStepTracks ==
    ASSUME Base, InStep PROVE RcvNxtTracks
  <1> SUFFICES ASSUME Tracking, InSequence PROVE rcv_nxt = Plus(isn, 1 + NextByte)
    BY DEF RcvNxtTracks
  <1>1. PICK k \in 0 .. StreamLength : Handshake(k) /\ Settled(k)
    BY DEF InStep, Tracking
  <1>2. got = 0 .. (k - 1) /\ rcv_nxt = At(k)
    BY <1>1 DEF Handshake, Settled, Tracking
  <1>3. \A n \in 0 .. StreamLength :
           (0 .. (n - 1) \subseteq got /\ n \notin got) <=> n = k
    <2> SUFFICES ASSUME NEW n \in 0 .. StreamLength
                 PROVE  (0 .. (n - 1) \subseteq 0 .. (k - 1) /\ n \notin 0 .. (k - 1)) <=> n = k
      BY <1>2
    <2>1. CASE n < k
      BY <2>1, SegmentsOfStream
    <2>2. CASE n = k
      BY <2>2, SegmentsOfStream
    <2>3. CASE n > k
      <3>1. k \in 0 .. (n - 1) /\ k \notin 0 .. (k - 1)
        BY <2>3, SegmentsOfStream
      <3> QED
        BY <3>1, <2>3, SegmentsOfStream
    <2> QED
      BY <2>1, <2>2, <2>3, SegmentsOfStream
  <1>4. NextByte = k
    <2>1. NextByte = CHOOSE n \in 0 .. StreamLength : n = k
      BY <1>3 DEF NextByte
    <2> QED
      BY <2>1
  <1> QED
    BY <1>2, <1>4 DEF At

\* One delivery of a packet to the upper protocol in a whole indication.
LEMMA InStepOnce ==
    ASSUME Base, InStep PROVE IndicatedOnce
  <1> SUFFICES ASSUME InSequence PROVE ups <= 1 /\ (pc = "idle" /\ freed => ups = 1)
    BY DEF IndicatedOnce
  <1>1. PICK k \in 0 .. StreamLength :
           (pc = "idle" => Settled(k)) /\ (pc # "idle" => Delivering(k))
    BY DEF InStep
  <1>2. CASE pc = "idle"
    BY <1>1, <1>2 DEF Settled
  <1>3. CASE pc # "idle"
    BY <1>1, <1>3 DEF Delivering, Untouched
  <1> QED
    BY <1>2, <1>3

\* What is before rcv_nxt went up.
LEMMA NothingIsLost ==
    ASSUME NumbersSuffice, Base, InStep, Lagging PROVE NothingLost
  <1> SUFFICES ASSUME Tracking, "reorder" \notin faults, InSequence \/ Unrepeated,
                      NEW n \in Stream, SeqLT(Plus(isn, 1 + n), rcv_nxt)
               PROVE  n \in got
    BY DEF NothingLost
  <1>1. PICK r \in 0 .. StreamLength : rcv_nxt = At(r) /\ 0 .. (r - 1) \subseteq got
    <2>1. CASE InSequence
      BY <2>1 DEF InStep, Handshake, Settled, Tracking
    <2>2. CASE Unrepeated
      BY <2>2 DEF Lagging, InTurn, Gone, Tracking
    <2> QED
      BY <2>1, <2>2
  <1>2. isn \in Isns /\ n \in 0 .. StreamLength
    BY SegmentsOfStream DEF Base, Stream
  <1>3. SeqLT(At(n), At(r))
    BY <1>1 DEF At
  <1>4. n < r
    BY <1>2, <1>3, NumbersAgree
  <1> QED
    BY <1>1, <1>2, <1>4, SegmentsOfStream

\* The order of the queue is the order of its numbers.
LEMMA OrderedIsSorted ==
    ASSUME NumbersSuffice, Base, Ordered PROVE QueueSorted
  <1> SUFFICES ASSUME NoWrap, Unrepeated, "straddle" \notin faults,
                      NEW i \in 1 .. Len(ooseq) - 1
               PROVE  SeqLEQ(Plus(SeqNo(ooseq[i]), ooseq[i].len), SeqNo(ooseq[i + 1]))
    BY DEF QueueSorted
  <1> DEFINE s == ooseq[i]
             q == ooseq[i + 1]
  <1>1. /\ isn \in Isns /\ ooseq \in Seq(Segments) /\ Len(ooseq) \in Nat
        /\ i \in 1 .. Len(ooseq) /\ i + 1 \in 1 .. Len(ooseq) /\ i < i + 1
    BY LenProperties DEF Base, TypeOK
  <1>2. s \in Segments /\ q \in Segments
    BY <1>1, ElementOfSeq
  <1>3. s.from + s.len <= q.from
    BY <1>1 DEF Ordered, Apart, Queue, Ascending
  <1> HIDE DEF s, q
  <1>4. /\ SeqNo(q) = At(q.from) /\ q.from \in 0 .. StreamLength
        /\ Advance(s) = At(s.from + s.len) /\ s.from + s.len \in 0 .. StreamLength
    BY <1>1, <1>2, Numbered
  <1>5. SeqLEQ(Advance(s), SeqNo(q))
    BY <1>1, <1>3, <1>4, NumbersAgree
  <1> QED
    BY <1>5 DEF Advance, s, q

\* Nothing in the queue of an established connection begins at rcv_nxt.
LEMMA OrderedHoldsNothingReady ==
    ASSUME NumbersSuffice, Base, Ordered PROVE NothingReadyHeld
  <1> SUFFICES ASSUME Tracking, NoWrap, Unrepeated, {"straddle", "alloc"} \cap faults = {},
                      NEW i \in 1 .. Len(ooseq)
               PROVE  SeqNo(ooseq[i]) # rcv_nxt
    BY DEF NothingReadyHeld
  <1>1. PICK r \in 0 .. StreamLength : Queue(r)
    BY DEF Ordered, Apart
  <1>2. rcv_nxt = At(r) /\ ooseq[i].from > r
    BY <1>1 DEF Queue, Tracking
  <1>3. isn \in Isns /\ ooseq[i] \in Segments
    BY ElementOfSeq DEF Base, TypeOK
  <1>4. ooseq[i].from \in 0 .. StreamLength /\ SeqNo(ooseq[i]) = At(ooseq[i].from)
    BY <1>3, Numbered
  <1>5. r # ooseq[i].from
    BY <1>2, <1>4, SegmentsOfStream
  <1> QED
    BY <1>2, <1>3, <1>4, <1>5, NumbersAgree
------------------------------------------------------------------------------
(* One connection whose segments may only change their order, with a stream  *)
(* that fits into the window: none is beyond it, so none goes up before its  *)
(* turn.  rcv_nxt is at byte r; the bytes before r arrived, and of the others*)
(* the upper protocol has none.                                             *)

WindowSuffices == StreamLength < Window

LEMMA WindowCovers ==
    ASSUME WindowSuffices, isn \in Isns, NEW s \in Segments,
           NEW r \in 0 .. StreamLength, rcv_nxt = At(r), r <= s.from
    PROVE  NumbersSuffice /\ InWindow(s)
  <1> DEFINE S == SeqSpace
             H == SeqSpace \div 2
             a == s.from
             x == isn + (1 + a)
             y == isn + (1 + r)
             z == (y % S) + (Window - 1)
             d == (x % S) - (z % S)
  <1>1. /\ S \in Nat \ {0} /\ S = 2 * H /\ H \in Nat /\ isn \in 0 .. S - 1
        /\ Window \in 1 .. H /\ StreamLength \in Nat /\ StreamLength < Window
        /\ a \in 0 .. StreamLength /\ r \in 0 .. StreamLength /\ r <= a
    BY Halves, SequenceNumbers, SegmentsOfStream DEF WindowSuffices
  <1>2. NumbersSuffice
    BY <1>1 DEF NumbersSuffice
  <1>3. SeqNo(s) = At(a) /\ SeqLEQ(At(r), At(a)) /\ At(a) = x % S /\ At(r) = y % S
    <2>1. SeqNo(s) = At(a)
      BY Numbered
    <2>2. SeqLEQ(At(r), At(a))
      BY <1>1, <1>2, NumbersAgree
    <2> QED
      BY <2>1, <2>2 DEF At, Plus
  <1>4. Plus(rcv_nxt, Window - 1) = z % S
    BY <1>3 DEF Plus
  <1>5. SeqLEQ(x % S, z % S) <=> x % S = z % S \/ d % S >= H
    <2>1. SeqLT(x % S, z % S) <=> d % S >= H
      BY DEF SeqLT
    <2> HIDE DEF S, x, z, d
    <2> QED
      BY <2>1 DEF SeqLEQ
  <1>6. /\ x \in -S .. 2 * S - 1 /\ y \in -S .. 2 * S - 1 /\ y >= 0 /\ x = y + (a - r)
        /\ z = (y % S) + (Window - 1) /\ d = (x % S) - (z % S)
    BY <1>1
  <1> HIDE DEF S, H, a, x, y, z, d
  <1>7. /\ y % S = (IF y < 0 THEN y + S ELSE IF y < S THEN y ELSE y - S)
        /\ x % S = (IF x < 0 THEN x + S ELSE IF x < S THEN x ELSE x - S)
    BY <1>1, <1>6, Wrapped
  <1>8. z \in -S .. 2 * S - 1
    BY <1>1, <1>6, <1>7
  <1>9. z % S = (IF z < 0 THEN z + S ELSE IF z < S THEN z ELSE z - S)
    BY <1>1, <1>8, Wrapped
  <1>10. d \in -S .. 2 * S - 1
    BY <1>1, <1>6, <1>7, <1>8, <1>9
  <1>11. d % S = (IF d < 0 THEN d + S ELSE IF d < S THEN d ELSE d - S)
    BY <1>1, <1>10, Wrapped
  <1>12. x % S = z % S \/ d % S >= H
    <2>1. CASE y < S
      <3>1. y % S = y /\ z = y + (Window - 1) /\ y \in 0 .. S - 1
        BY <1>1, <1>6, <1>7, <2>1
      <3> DEFINE u == (a - r) - (Window - 1)
      <3>2. u \in Int /\ u <= 0 /\ u > -H /\ u = x - z /\ d \in Int
        <4>1. a \in Int /\ r \in Int /\ Window \in Int /\ H \in Int /\ S \in Int
              /\ 0 <= a - r /\ a - r < Window /\ Window <= H
          BY <1>1
        <4>2. u \in Int /\ u <= 0 /\ u > -H
          BY <4>1
        <4>3. d \in Int
          BY <1>10, <4>1
        <4>4. u = x - z
          BY <1>6, <3>1, <4>1
        <4> QED
          BY <4>2, <4>3, <4>4
      <3> HIDE DEF u
      <3>3. CASE u = 0
        <4>1. x = z
          BY <1>1, <1>6, <1>8, <3>2, <3>3
        <4> QED
          BY <4>1
      <3>4. CASE u < 0 /\ x < S /\ z < S
        <4>1. x % S = x /\ z % S = z /\ d = u
          BY <1>1, <1>6, <1>7, <1>8, <1>9, <3>1, <3>2, <3>4
        <4>2. d % S = d + S
          BY <1>11, <3>2, <3>4, <4>1
        <4> QED
          BY <1>1, <3>2, <4>1, <4>2
      <3>5. CASE u < 0 /\ x < S /\ z >= S
        <4>1. x % S = x /\ z % S = z - S /\ d = u + S
          BY <1>1, <1>6, <1>7, <1>8, <1>9, <3>1, <3>2, <3>5
        <4>2. d >= 0 /\ d < S
          BY <1>1, <3>2, <3>5, <4>1
        <4>3. d % S = d
          BY <1>11, <3>2, <4>2
        <4> QED
          BY <1>1, <3>2, <4>1, <4>3
      <3>6. CASE u < 0 /\ x >= S
        <4>1. z >= S
          BY <1>1, <1>6, <1>8, <3>2, <3>6
        <4>2. x % S = x - S /\ z % S = z - S /\ d = u
          BY <1>1, <1>6, <1>7, <1>8, <1>9, <3>1, <3>2, <3>6, <4>1
        <4>3. d % S = d + S
          BY <1>11, <3>2, <3>6, <4>2
        <4> QED
          BY <1>1, <3>2, <4>2, <4>3
      <3> QED
        BY <1>1, <1>6, <1>8, <3>2, <3>3, <3>4, <3>5, <3>6
    <2>2. CASE y >= S
      BY <1>1, <1>6, <1>7, <1>8, <1>9, <1>11, <2>2
    <2> QED
      BY <1>1, <1>6, <2>1, <2>2
  <1>13. SeqLEQ(SeqNo(s), Plus(rcv_nxt, Window - 1))
    BY <1>3, <1>4, <1>5, <1>12
  <1>14. SeqLEQ(rcv_nxt, SeqNo(s))
    BY <1>3
  <1> QED
    BY <1>2, <1>13, <1>14 DEF InWindow, SeqBetween

Sole == faults = {"reorder"}

UpTo(r) == rcv_nxt = At(r) /\ 0 .. (r - 1) \subseteq arrived /\ got \subseteq 0 .. (r - 1)

Arrived == \A i \in 1 .. Len(ooseq) : Bytes(ooseq[i]) \subseteq arrived

InTime(r) ==
    /\ pc = "inserting" => cur.from = r /\ Bytes(cur) \subseteq arrived
    /\ pc = "delivering" =>
          \/ cur.from = r /\ ooseq # <<>> /\ Head(ooseq) = cur
          \/ cur.from + cur.len <= r
    /\ pc = "submitting" => cur.from + cur.len <= r

Opening ==
    /\ hs = "none" => status = "CLOSED" /\ ooseq = <<>>
    /\ hs = "syn" => status = "SYN_RCVD" /\ arrived = {}
    /\ status = "SYN_RCVD" => hs = "syn" /\ ooseq = <<>> /\ got = {}

Patient ==
    Sole => /\ Opening /\ Arrived
            /\ \E r \in 0 .. StreamLength :
                  status = "ESTABLISHED" => UpTo(r) /\ InTime(r)

LEMMA InitPatient == Init => Patient
  <1> SUFFICES ASSUME Init, Sole PROVE Patient
    BY DEF Patient
  <1>1. 0 \in 0 .. StreamLength /\ Len(<<>>) = 0 /\ 1 .. 0 = {}
    BY SegmentsOfStream, EmptySeq
  <1>2. hs = "none"
    BY DEF Init, Sole
  <1>3. Opening /\ Arrived
    BY <1>1, <1>2 DEF Init, Opening, Arrived
  <1>4. status # "ESTABLISHED"
    BY DEF Init
  <1> QED
    BY <1>1, <1>3, <1>4 DEF Patient

LEMMA NextPatient ==
    ASSUME WindowSuffices, Base, Patient, [Next]_vars PROVE Patient'
  <1> SUFFICES ASSUME Sole'
               PROVE  /\ Opening' /\ Arrived'
                      /\ \E r \in 0 .. StreamLength :
                            status' = "ESTABLISHED" => UpTo(r)' /\ InTime(r)'
    BY DEF Patient
  <1>0. faults' = faults /\ isn' = isn
    BY NeverChanges
  <1>1. faults = {"reorder"} /\ Opening /\ Arrived
    BY <1>0 DEF Sole, Patient
  <1>2. PICK r \in 0 .. StreamLength : status = "ESTABLISHED" => UpTo(r) /\ InTime(r)
    BY <1>0 DEF Sole, Patient
  <1>3. isn \in Isns /\ StreamLength \in Nat /\ r \in Nat
        /\ ooseq \in Seq(Segments) /\ At(0) = AfterSyn /\ Len(ooseq) \in Nat
        /\ \A i \in 1 .. Len(ooseq) : ooseq[i] \in Segments
    <2>1. 1 + 0 = 1
      OBVIOUS
    <2> QED
      BY <2>1, SegmentsOfStream, LenProperties, ElementOfSeq DEF Base, TypeOK, At, AfterSyn
  <1>4. \A n \in 0 .. StreamLength : At(n)' = At(n)
    BY <1>0 DEF At, Plus
  <1>5. /\ 0 \in 0 .. StreamLength /\ At(0)' = At(0) /\ 0 .. (0 - 1) = {}
        /\ Len(<<>>) = 0 /\ 1 .. 0 = {}
    BY <1>3, <1>4, EmptySeq
  <1>6. CASE UNCHANGED vars
    <2>1. /\ hs' = hs /\ status' = status /\ arrived' = arrived /\ got' = got
          /\ ooseq' = ooseq /\ pc' = pc /\ cur' = cur /\ rcv_nxt' = rcv_nxt
      BY <1>6 DEF vars, pcb, locals, peer
    <2>2. Opening' /\ Arrived'
      BY <1>1, <2>1 DEF Opening, Arrived
    <2>3. status' = "ESTABLISHED" => UpTo(r)' /\ InTime(r)'
      BY <1>2, <1>4, <2>1 DEF UpTo, InTime, Bytes
    <2> QED
      BY <2>2, <2>3
  <1>7. CASE OnSyn \/ OnSynAck
    <2>1. hs = "none"
      BY <1>1, <1>7 DEF OnSyn, OnSynAck, OpenFrom
    <2>2. ooseq' = <<>> /\ pc' = "idle" /\ arrived' = {} /\ got' = {} /\ rcv_nxt' = At(0)
          /\ \/ hs' = "syn" /\ status' = "SYN_RCVD"
             \/ hs' = "open" /\ status' = "ESTABLISHED"
      BY <1>1, <1>3, <1>7, <2>1 DEF OnSyn, OnSynAck, OpenFrom, Opening, locals
    <2>3. Opening' /\ Arrived'
      BY <1>5, <2>2 DEF Opening, Arrived
    <2>4. UpTo(0)' /\ InTime(0)'
      BY <1>5, <2>2 DEF UpTo, InTime
    <2> QED
      BY <1>5, <2>3, <2>4
  <1>8. CASE OnFinAck
    <2>1. hs' = "fin" /\ status' = "LAST_ACK" /\ ooseq' = ooseq /\ arrived' = arrived
      BY <1>8 DEF OnFinAck
    <2> QED
      BY <1>1, <2>1 DEF Opening, Arrived
  <1>9. ASSUME NEW s \in Segments, Receive(s)
        PROVE  /\ Opening' /\ Arrived'
               /\ \E q \in 0 .. StreamLength :
                     status' = "ESTABLISHED" => UpTo(q)' /\ InTime(q)'
    <2>1. Arrives(s) /\ pc = "idle" /\ hs # "none" /\ hs' \notin {"none", "syn"}
      BY <1>9 DEF Receive, OnLastAck, OnSynRcvd, OnShortage, OnOther, Store, InOrder, Arrives
    <2>2. s.from \in 0 .. StreamLength /\ s.len \in 0 .. StreamLength
          /\ arrived' = arrived \cup Bytes(s)
      BY <2>1, SegmentsOfStream DEF Arrives
    <2>3. s.len > 0 => Bytes(s) \cap arrived = {}
      BY <1>1, <2>1, <2>2 DEF Arrives
    <2>4. SeqNo(s) = At(s.from) /\ At(r)' = At(r) /\ At(s.from)' = At(s.from)
      BY <1>3, <1>4, <2>2, Numbered
    <2>5. ASSUME ooseq' = ooseq PROVE Arrived'
      BY <1>1, <2>2, <2>5 DEF Arrived
    <2>6. CASE OnLastAck(s)
      BY <2>1, <2>5, <2>6 DEF OnLastAck, Opening
    <2>7. CASE OnShortage(s)
      BY <1>1, <2>7 DEF OnShortage
    <2>8. CASE OnSynRcvd(s)
      <3>1. s = Nothing /\ got = {}
        BY <1>1, <2>1, <2>8 DEF OnSynRcvd, Arrives, Opening
      <3>2. s.from = 0 /\ Bytes(s) = {}
        BY <3>1 DEF Nothing, Bytes
      <3>3. rcv_nxt' = At(0)' /\ got' = {} /\ pc' = "idle" /\ ooseq' = ooseq
            /\ status' = "ESTABLISHED"
        BY <1>5, <2>1, <2>4, <2>8, <3>1, <3>2 DEF OnSynRcvd, PassUp, locals
      <3>4. UpTo(0)' /\ InTime(0)'
        BY <1>5, <3>3 DEF UpTo, InTime
      <3>5. Opening' /\ Arrived'
        BY <2>1, <2>5, <3>3 DEF Opening
      <3> QED
        BY <1>5, <3>4, <3>5
    <2>9. CASE OnOther(s)
      <3>1. ooseq' = ooseq /\ status' = status /\ pc' = "idle" /\ rcv_nxt' = rcv_nxt
        BY <2>1, <2>9 DEF OnOther, pcb, locals
      <3>2. Opening' /\ Arrived'
        BY <1>1, <2>1, <2>5, <2>9, <3>1 DEF Opening, OnOther
      <3>3. ASSUME status = "ESTABLISHED" PROVE UpTo(r)' /\ InTime(r)'
        <4>1. UpTo(r)
          BY <1>2, <3>3
        <4>2. Bytes(s) = {}
          <5>1. CASE s.len = 0
            BY <2>2, <5>1 DEF Bytes
          <5>2. CASE s.len > 0
            <6>1. ~InWindow(s)
              BY <2>9, <3>3, <5>2 DEF OnOther
            <6>2. s.from < r
              BY <1>3, <2>2, <4>1, <6>1, WindowCovers DEF UpTo
            <6>3. s.from \in Bytes(s) /\ s.from \in 0 .. (r - 1)
              BY <1>3, <2>2, <5>2, <6>2 DEF Bytes
            <6> QED
              BY <2>3, <4>1, <5>2, <6>3 DEF UpTo
          <5> QED
            BY <2>2, <5>1, <5>2
        <4>3. got' = got /\ arrived' = arrived
          BY <2>2, <2>9, <4>2 DEF OnOther, PassUp
        <4> QED
          BY <2>4, <3>1, <4>1, <4>3 DEF UpTo, InTime
      <3> QED
        BY <3>1, <3>2, <3>3
    <2>10. CASE Store(s)
      <3>1. PICK n \in 0 .. Len(ooseq) : ooseq' = InsertAt(ooseq, n + 1, s)
        BY <2>10 DEF Store
      <3>2. status' = status /\ status = "ESTABLISHED" /\ pc' = "idle"
            /\ rcv_nxt' = rcv_nxt /\ got' = got
        BY <2>1, <2>10 DEF Store, locals
      <3>3. /\ Len(InsertAt(ooseq, n + 1, s)) = Len(ooseq) + 1
            /\ \A i \in 1 .. Len(ooseq) + 1 : InsertAt(ooseq, n + 1, s)[i] =
                  IF i <= n THEN ooseq[i] ELSE IF i = n + 1 THEN s ELSE ooseq[i - 1]
        <4>1. ooseq \in Seq(Segments) /\ s \in Segments /\ n \in 0 .. Len(ooseq)
          BY <1>3
        <4> QED
          BY <4>1, Inserted
      <3>4. ASSUME NEW i \in 1 .. Len(ooseq') PROVE Bytes(ooseq'[i]) \subseteq arrived'
        <4>1. i \in 1 .. Len(ooseq) + 1 /\ ooseq'[i] =
                  IF i <= n THEN ooseq[i] ELSE IF i = n + 1 THEN s ELSE ooseq[i - 1]
          BY <3>1, <3>3
        <4>2. CASE i <= n
          <5>1. ooseq'[i] = ooseq[i] /\ i \in 1 .. Len(ooseq)
            BY <1>3, <4>1, <4>2
          <5> QED
            BY <1>1, <2>2, <5>1 DEF Arrived
        <4>3. CASE i = n + 1
          <5>1. ooseq'[i] = s
            BY <1>3, <4>1, <4>3
          <5> QED
            BY <2>2, <5>1
        <4>4. CASE i > n + 1
          <5>1. ooseq'[i] = ooseq[i - 1] /\ i - 1 \in 1 .. Len(ooseq)
            BY <1>3, <4>1, <4>4
          <5> QED
            BY <1>1, <2>2, <5>1 DEF Arrived
        <4> QED
          BY <1>3, <4>1, <4>2, <4>3, <4>4
      <3>5. Opening' /\ Arrived'
        <4>1. Arrived'
          BY <3>4 DEF Arrived, Bytes
        <4>2. Opening'
          BY <2>1, <3>2 DEF Opening
        <4> QED
          BY <4>1, <4>2
      <3>6. UpTo(r)' /\ InTime(r)'
        BY <1>2, <2>2, <2>4, <3>2 DEF UpTo, InTime
      <3> QED
        BY <3>5, <3>6
    <2>11. CASE InOrder(s)
      <3>1. ooseq' = ooseq /\ cur' = s /\ pc' = "inserting" /\ status' = status
            /\ status = "ESTABLISHED" /\ rcv_nxt' = rcv_nxt /\ Bytes(cur)' = Bytes(s)
            /\ got' = got /\ s.len > 0 /\ SeqNo(s) = rcv_nxt
        BY <2>11 DEF InOrder, pcb, Bytes
      <3>2. s.from = r
        <4>1. rcv_nxt = At(r)
          BY <1>2, <3>1 DEF UpTo
        <4>2. NumbersSuffice
          BY SequenceNumbers, SegmentsOfStream DEF WindowSuffices, NumbersSuffice
        <4> QED
          BY <1>3, <3>1, <4>1, <4>2, InWindowAgrees
      <3>3. Opening' /\ Arrived'
        BY <2>1, <2>5, <3>1 DEF Opening
      <3>4. UpTo(r)'
        BY <1>2, <2>2, <2>4, <3>1 DEF UpTo
      <3>5. InTime(r)'
        BY <2>2, <3>1, <3>2 DEF InTime
      <3> QED
        BY <3>3, <3>4, <3>5
    <2> QED
      BY <1>9, <2>6, <2>7, <2>8, <2>9, <2>10, <2>11 DEF Receive
  <1>10. CASE Deliver
    <2>1. /\ pc # "idle" /\ cur' = cur /\ arrived' = arrived /\ hs' = hs /\ status' = status
          /\ status = "ESTABLISHED" /\ UpTo(r) /\ InTime(r) /\ At(r)' = At(r)
          /\ hs \notin {"none", "syn"}
      <3>1. /\ pc # "idle" /\ cur' = cur /\ arrived' = arrived /\ hs' = hs /\ status' = status
        BY <1>10 DEF Deliver, InsertHead, DeliverHead, DeliverEnds, AppReceive,
           AppReceiveFreed, AppReceiveFails, pcb, peer
      <3>2. status = "ESTABLISHED"
        BY <3>1 DEF Base, Inside
      <3> QED
        BY <1>1, <1>2, <1>4, <3>1, <3>2 DEF Opening
    <2>2. /\ cur \in Segments /\ cur.len > 0 /\ Opening'
          /\ cur.from \in 0 .. StreamLength /\ cur.len \in 0 .. StreamLength
      BY <2>1, SegmentsOfStream DEF Base, Inside, Opening
    <2>3. ASSUME ooseq # <<>>
          PROVE  /\ Head(ooseq) \in Segments /\ Head(ooseq) = ooseq[1] /\ 1 \in 1 .. Len(ooseq)
                 /\ HeadIsNext <=> Head(ooseq).from = r
      <3>1. Head(ooseq) \in Segments /\ Head(ooseq) = ooseq[1] /\ Len(ooseq) \in Nat \ {0}
        BY <1>3, <2>3, Removed
      <3>2. NumbersSuffice
        BY SequenceNumbers, SegmentsOfStream DEF WindowSuffices, NumbersSuffice
      <3>3. SeqNo(Head(ooseq)) = At(r) <=> Head(ooseq).from = r
        BY <1>3, <2>1, <3>1, <3>2, InWindowAgrees DEF UpTo
      <3> QED
        BY <2>1, <2>3, <3>1, <3>3 DEF HeadIsNext, UpTo
    <2>4. CASE InsertHead
      <3>1. /\ pc = "inserting" /\ pc' = "delivering" /\ rcv_nxt' = rcv_nxt /\ got' = got
            /\ ooseq' = Cons(cur, ooseq)
        BY <2>4 DEF InsertHead
      <3>2. cur.from = r /\ Bytes(cur) \subseteq arrived
        BY <2>1, <3>1 DEF InTime
      <3>3. /\ Cons(cur, ooseq) # <<>> /\ Head(Cons(cur, ooseq)) = cur
            /\ Len(Cons(cur, ooseq)) = Len(ooseq) + 1
            /\ \A i \in 1 .. Len(ooseq) + 1 :
                  Cons(cur, ooseq)[i] = IF i = 1 THEN cur ELSE ooseq[i - 1]
        BY <1>3, <2>2, InsertedFirst
      <3>4. ASSUME NEW i \in 1 .. Len(ooseq') PROVE Bytes(ooseq'[i]) \subseteq arrived'
        <4>1. i \in 1 .. Len(ooseq) + 1
              /\ ooseq'[i] = IF i = 1 THEN cur ELSE ooseq[i - 1]
          BY <3>1, <3>3
        <4>2. CASE i = 1
          <5>1. ooseq'[i] = cur
            BY <4>1, <4>2
          <5> QED
            BY <2>1, <3>2, <5>1
        <4>3. CASE i # 1
          <5>1. ooseq'[i] = ooseq[i - 1] /\ i - 1 \in 1 .. Len(ooseq)
            BY <1>3, <4>1, <4>3
          <5> QED
            BY <1>1, <2>1, <5>1 DEF Arrived
        <4> QED
          BY <4>2, <4>3
      <3>5. Arrived'
        BY <3>4 DEF Arrived, Bytes
      <3>6. UpTo(r)'
        BY <2>1, <3>1 DEF UpTo
      <3>7. ooseq' # <<>> /\ Head(ooseq') = cur
        BY <3>1, <3>3
      <3>8. InTime(r)'
        BY <2>1, <3>1, <3>2, <3>7 DEF InTime
      <3> QED
        BY <2>2, <3>5, <3>6, <3>8
    <2>5. CASE DeliverHead
      <3>1. /\ pc = "delivering" /\ HeadIsNext /\ ooseq' = Tail(ooseq)
            /\ rcv_nxt' = Advance(Head(ooseq)) /\ pc' = "submitting" /\ got' = got
        BY <2>5 DEF DeliverHead
      <3>2. ooseq # <<>> /\ Head(ooseq).from = r
        BY <2>3, <3>1 DEF HeadIsNext
      <3>3. PICK e \in 0 .. StreamLength :
               e = Head(ooseq).from + Head(ooseq).len /\ r <= e
        BY <1>3, <2>3, <3>2, SegmentsOfStream
      <3>4. rcv_nxt' = At(e)'
        <4>1. NumbersSuffice
          BY SequenceNumbers, SegmentsOfStream DEF WindowSuffices, NumbersSuffice
        <4>2. rcv_nxt' = At(e)
          BY <1>3, <2>3, <3>1, <3>2, <3>3, <4>1, Numbered
        <4> QED
          BY <1>4, <4>2
      <3>5. Bytes(Head(ooseq)) = r .. (e - 1) /\ Bytes(Head(ooseq)) \subseteq arrived
        <4> DEFINE h == Head(ooseq)
        <4>1. h.from = r /\ h.from + h.len - 1 = e - 1 /\ h = ooseq[1] /\ 1 \in 1 .. Len(ooseq)
          BY <1>3, <2>3, <3>2, <3>3, SegmentsOfStream
        <4>2. Bytes(h) = r .. (e - 1)
          BY <4>1 DEF Bytes
        <4> QED
          BY <1>1, <4>1, <4>2 DEF Arrived
      <3>6. 0 .. (e - 1) \subseteq arrived' /\ got' \subseteq 0 .. (e - 1)
        BY <1>3, <2>1, <3>1, <3>3, <3>5 DEF UpTo
      <3>7. cur.from + cur.len <= e
        <4>1. CASE Head(ooseq) = cur
          BY <3>3, <4>1, <2>2
        <4>2. CASE cur.from + cur.len <= r
          BY <1>3, <2>2, <3>3, <4>2
        <4> QED
          BY <2>1, <3>1, <4>1, <4>2 DEF InTime
      <3>8. UpTo(e)' /\ InTime(e)'
        BY <2>1, <3>1, <3>4, <3>6, <3>7 DEF UpTo, InTime
      <3>9. Arrived'
        <4>1. Len(Tail(ooseq)) = Len(ooseq) - 1
              /\ \A i \in 1 .. Len(ooseq) - 1 : Tail(ooseq)[i] = ooseq[i + 1]
          BY <1>3, <3>2, Removed
        <4>2. ASSUME NEW i \in 1 .. Len(ooseq') PROVE Bytes(ooseq'[i]) \subseteq arrived'
          <5>1. i + 1 \in 1 .. Len(ooseq) /\ ooseq'[i] = ooseq[i + 1]
            BY <1>3, <3>1, <4>1
          <5> QED
            BY <1>1, <2>1, <5>1 DEF Arrived
        <4> QED
          BY <4>2 DEF Arrived, Bytes
      <3> QED
        BY <2>2, <3>8, <3>9
    <2>6. CASE AppReceive \/ AppReceiveFreed \/ AppReceiveFails
      <3>1. pc = "submitting" /\ pc' \in {"delivering", "stopped"} /\ ooseq' = ooseq
            /\ rcv_nxt' = rcv_nxt /\ (got' = got \/ got' = got \cup Bytes(cur))
        BY <2>6 DEF AppReceive, AppReceiveFreed, AppReceiveFails, pcb
      <3>2. cur.from + cur.len <= r
        BY <2>1, <3>1 DEF InTime
      <3>3. Bytes(cur) \subseteq 0 .. (r - 1)
        BY <1>3, <2>2, <3>2 DEF Bytes
      <3>4. UpTo(r)' /\ InTime(r)'
        BY <2>1, <3>1, <3>2, <3>3 DEF UpTo, InTime
      <3>5. Arrived'
        BY <1>1, <2>1, <3>1 DEF Arrived
      <3> QED
        BY <2>2, <3>4, <3>5
    <2>7. CASE DeliverEnds
      <3>1. pc = "delivering" /\ pc' = "idle" /\ ooseq' = ooseq /\ rcv_nxt' = rcv_nxt
            /\ ~HeadIsNext /\ (got' = got \/ got' = got \cup Bytes(cur))
        BY <1>1, <2>7 DEF DeliverEnds, PassUp, pcb
      <3>2. cur.from + cur.len <= r
        BY <2>1, <2>3, <3>1 DEF InTime
      <3>3. Bytes(cur) \subseteq 0 .. (r - 1)
        BY <1>3, <2>2, <3>2 DEF Bytes
      <3>4. UpTo(r)' /\ InTime(r)'
        BY <2>1, <3>1, <3>3 DEF UpTo, InTime
      <3>5. Arrived'
        BY <1>1, <2>1, <3>1 DEF Arrived
      <3> QED
        BY <2>2, <3>4, <3>5
    <2> QED
      BY <1>10, <2>4, <2>5, <2>6, <2>7 DEF Deliver
  <1> QED
    BY <1>6, <1>7, <1>8, <1>9, <1>10 DEF Next

\* Nothing went up that rcv_nxt has not gone past.
LEMMA PatientIsBehind ==
    ASSUME WindowSuffices, Base, Patient PROVE NothingAhead
  <1> SUFFICES ASSUME Tracking, faults = {"reorder"}, NEW n \in got
               PROVE  SeqLT(Plus(isn, 1 + n), rcv_nxt)
    BY DEF NothingAhead
  <1>1. PICK r \in 0 .. StreamLength : UpTo(r)
    BY DEF Patient, Sole, Tracking
  <1>2. n \in 0 .. StreamLength /\ n < r /\ isn \in Isns
    BY <1>1, SegmentsOfStream DEF UpTo, Base, TypeOK, Stream
  <1>3. NumbersSuffice
    BY SequenceNumbers, SegmentsOfStream DEF WindowSuffices, NumbersSuffice
  <1>4. SeqLT(At(n), At(r))
    BY <1>2, <1>3, NumbersAgree
  <1> QED
    BY <1>1, <1>4 DEF At, UpTo

------------------------------------------------------------------------------
\* "The next byte expected" (tcp.h) is the first one the upper protocol does not
\* have, when the packets come in order, repeated or not.
THEOREM RcvNxtAlwaysTracks ==
    ASSUME NumbersSuffice PROVE Spec => []RcvNxtTracks
  <1>1. Inductive => RcvNxtTracks
    BY InStepTracks DEF Inductive
  <1> QED
    BY <1>1, AllInductive, PTL

\* A packet goes up by app_receive or by the caller, not by both.
THEOREM AlwaysIndicatedOnce ==
    ASSUME NumbersSuffice PROVE Spec => []IndicatedOnce
  <1>1. Inductive => IndicatedOnce
    BY InStepOnce DEF Inductive
  <1> QED
    BY <1>1, AllInductive, PTL

\* What rcv_nxt has gone past went up, whichever allocation failed.
THEOREM NothingEverLost ==
    ASSUME NumbersSuffice PROVE Spec => []NothingLost
  <1>1. Inductive => NothingLost
    BY NothingIsLost DEF Inductive
  <1> QED
    BY <1>1, AllInductive, PTL

\* The queue is sorted, holds nothing that could go up and lets nothing past a
\* hole: in each of its three parts under the faults that part allows.
THEOREM QueueAlwaysCorrect ==
    ASSUME WindowSuffices PROVE Spec => []QueueCorrect
  <1>1. NumbersSuffice
    BY SequenceNumbers, SegmentsOfStream DEF WindowSuffices, NumbersSuffice
  <1>2. Init => Patient
    BY InitPatient
  <1>3. Inductive /\ Patient /\ [Next]_vars => Patient'
    BY NextPatient DEF Inductive
  <1>4. Inductive /\ Patient => QueueCorrect
    BY <1>1, OrderedIsSorted, OrderedHoldsNothingReady, PatientIsBehind
    DEF Inductive, QueueCorrect
  <1> QED
    BY <1>1, <1>2, <1>3, <1>4, AllInductive, PTL DEF Spec
==============================================================================
