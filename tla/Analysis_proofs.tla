-------------------------- MODULE Analysis_proofs ----------------------------
(***************************************************************************)
(* Theorems about the parts of the packet analysis that do not call one     *)
(* another, and at the end about the parts together.                        *)
(*                                                                          *)
(* IpReass, for any datagrams, network and number of copies: a chain is in  *)
(* the order of the offsets and waits for its last fragment, which is what  *)
(* makes the datagram that goes up whole and sorted.  That a fragment is    *)
(* put in its place is a fact about sequences, and that it is then there    *)
(* once more a count of places.                                             *)
(*                                                                          *)
(* PortPolicy, for any ports, size of the lists and packets looked for: the *)
(* order in which a port is added matters, as the slot is found and num     *)
(* grows before the port is there.  Adding says what is true in between,    *)
(* Counted what num has become.  The look is right because a port that      *)
(* stays in the list stays in its slot: Ahead.                              *)
(*                                                                          *)
(* Checksum, for any Base that is a square, any words and any length: in    *)
(* cksum is the sum of the words that were passed, and the carries change   *)
(* a sum by multiples of Base - 1 only, among which the byte order is kept. *)
(*                                                                          *)
(* HttpUpload, for any uploads that read as their heads and forms should,   *)
(* any number of files, uploads and segments, and no faults.  After says in *)
(* what state n turns of MiMeParseFile's loop leave it: After n + m turns   *)
(* is After m turns from where n turns ended.  So what the loop finds in a  *)
(* form is put together of what it finds in the name of a part (Followed),  *)
(* in a file (InContent) and in the delimiter behind it (Found), and does   *)
(* not depend on where the segments end; Reading is what is so between two  *)
(* of them.  With faults the variables still have their types: each loop    *)
(* stays among the values it starts from, turn by turn (TurnsExist).        *)
(***************************************************************************)
EXTENDS Analysis, FunctionTheorems,
        FiniteSetTheorems, SequenceTheorems, WellFoundedInduction, TLAPS

------------------------------------------------------------------------------
(* Induction, for sets of numbers.                                          *)

\* A set of natural numbers that is not empty has a least element.
LEMMA LeastElement ==
  ASSUME NEW S \in SUBSET Nat, S # {}
  PROVE  \E x \in S : \A y \in S : x <= y
  <1> DEFINE R == {ss \in Nat \X Nat : ss[1] < ss[2]}
  <1>1. IsWellFoundedOn(R, Nat)
    BY NatLessThanWellFounded DEF OpToRel
  <1>2. \A x, y \in Nat : <<y, x>> \in R <=> y < x
    OBVIOUS
  <1> HIDE DEF R
  <1>3. PICK x \in S : \A y \in S : ~ (<<y, x>> \in R)
    BY <1>1, WFMin
  <1>4. ASSUME NEW y \in S PROVE x <= y
    <2>1. x \in Nat /\ y \in Nat /\ ~ (<<y, x>> \in R)
      BY <1>3
    <2>2. ~ (y < x)
      BY <1>2, <2>1
    <2> QED
      BY <2>1, <2>2
  <1> QED
    BY <1>4

\* A set with 0, and with the successor of each of its elements, has all numbers.
LEMMA SetInduction ==
  ASSUME NEW S \in SUBSET Nat, 0 \in S, \A n \in S : n + 1 \in S
  PROVE  S = Nat
  <1> SUFFICES ASSUME Nat \ S # {} PROVE FALSE
    OBVIOUS
  <1>1. PICK x \in Nat \ S : \A y \in Nat \ S : x <= y
    BY LeastElement
  <1>2. x - 1 \in Nat /\ x - 1 \in S
    BY <1>1
  <1>3. (x - 1) + 1 \in S
    BY <1>2
  <1> QED
    BY <1>1, <1>3

------------------------------------------------------------------------------
(* Reassembly: sequences.                                                   *)

\* Insertion behind n elements.
IsInsertion(T, q, n, e) ==
    /\ InsertAt(q, n + 1, e) \in Seq(T)
    /\ Len(InsertAt(q, n + 1, e)) = Len(q) + 1
    /\ \A i \in 1 .. Len(q) + 1 : InsertAt(q, n + 1, e)[i] =
          IF i <= n THEN q[i] ELSE IF i = n + 1 THEN e ELSE q[i - 1]

LEMMA Inserted ==
    ASSUME NEW T, NEW q \in Seq(T), NEW e \in T, NEW n \in 0 .. Len(q)
    PROVE  IsInsertion(T, q, n, e)
  <1> USE DEF IsInsertion
  <1> DEFINE a == SubSeq(q, 1, n)
             b == <<e>>
             c == SubSeq(q, n + 1, Len(q))
  <1>0. Len(q) \in Nat /\ n \in Nat
    BY LenProperties
  <1>1. a \in Seq(T) /\ Len(a) = n /\ \A i \in 1 .. n : a[i] = q[i]
    BY <1>0, SubSeqProperties
  <1>2. b \in Seq(T) /\ Len(b) = 1 /\ b[1] = e
    OBVIOUS
  <1>3. c \in Seq(T) /\ Len(c) = Len(q) - n
        /\ \A i \in 1 .. Len(q) - n : c[i] = q[n + i]
    BY <1>0, SubSeqProperties
  <1>4. InsertAt(q, n + 1, e) = (a \o b) \o c
    <2>1. (n + 1) - 1 = n
      BY <1>0
    <2> QED
      BY <2>1 DEF InsertAt
  <1> HIDE DEF a, b, c
  <1> DEFINE ab == a \o b
             abc == ab \o c
  <1>5. ab \in Seq(T) /\ Len(ab) = n + 1
        /\ \A i \in 1 .. n + 1 : ab[i] = IF i <= n THEN q[i] ELSE e
    <2>1. ab \in Seq(T) /\ Len(ab) = Len(a) + Len(b)
          /\ \A i \in 1 .. Len(a) + Len(b) :
                ab[i] = IF i <= Len(a) THEN a[i] ELSE b[i - Len(a)]
      BY <1>1, <1>2, ConcatProperties
    <2> HIDE DEF ab
    <2> QED
      BY <1>0, <1>1, <1>2, <2>1
  <1> HIDE DEF ab
  <1>6. abc \in Seq(T) /\ Len(abc) = Len(ab) + Len(c)
        /\ \A i \in 1 .. Len(ab) + Len(c) :
              abc[i] = IF i <= Len(ab) THEN ab[i] ELSE c[i - Len(ab)]
    BY <1>3, <1>5, ConcatProperties
  <1> HIDE DEF abc
  <1>7. Len(abc) = Len(q) + 1
    BY <1>0, <1>3, <1>5, <1>6
  <1>8. ASSUME NEW i \in 1 .. Len(q) + 1
        PROVE  abc[i] = IF i <= n THEN q[i] ELSE IF i = n + 1 THEN e ELSE q[i - 1]
    <2>1. ASSUME i <= n PROVE abc[i] = q[i]
      <3>1. i \in 1 .. n + 1 /\ i <= Len(ab) /\ i \in 1 .. Len(ab) + Len(c)
        BY <1>0, <1>3, <1>5, <2>1
      <3> QED
        BY <1>5, <1>6, <2>1, <3>1
    <2>2. ASSUME i = n + 1 PROVE abc[i] = e
      <3>1. i \in 1 .. n + 1 /\ i <= Len(ab) /\ i \in 1 .. Len(ab) + Len(c) /\ ~(i <= n)
        BY <1>0, <1>3, <1>5, <2>2
      <3> QED
        BY <1>5, <1>6, <3>1
    <2>3. ASSUME i > n + 1 PROVE abc[i] = q[i - 1]
      <3>1. i - (n + 1) \in 1 .. Len(q) - n /\ n + (i - (n + 1)) = i - 1
            /\ i \in 1 .. Len(ab) + Len(c) /\ ~(i <= Len(ab))
        BY <1>0, <1>3, <1>5, <2>3
      <3>2. abc[i] = c[i - (n + 1)]
        BY <1>5, <1>6, <3>1
      <3> QED
        BY <1>3, <3>1, <3>2
    <2>4. i <= n \/ i = n + 1 \/ (i > n + 1 /\ ~(i <= n) /\ i # n + 1)
      BY <1>0
    <2> QED
      BY <1>0, <2>1, <2>2, <2>3, <2>4
  <1>9. InsertAt(q, n + 1, e) = abc
    BY <1>4 DEF ab, abc
  <1> QED
    BY <1>6, <1>7, <1>8, <1>9

------------------------------------------------------------------------------
(* Reassembly: the chains.                                                  *)

\* The fragments of a chain wait in the order of their offsets, and the last one
\* of the datagram is not among them.
InOrder(chain) ==
    \A i, j \in 1 .. Len(chain) : i < j => chain[i].offset <= chain[j].offset

ChainsInOrder == \A d \in Datagrams : InOrder(ChainOf(d))

ChainsWait ==
    \A d \in Datagrams : /\ \A i \in 1 .. Len(ChainOf(d)) : MoreFragments(ChainOf(d)[i])
                         /\ HasChain(d) => LastOf(d) > 0

\* Without repetition a fragment comes once.
CameOnce == "repeat" \in netFaults \/ \A f \in AllFragments : came[f] <= 1

ReassIInv ==
    /\ ReassTypeOK /\ ChainsInOrder /\ ChainsWait /\ CameOnce
    /\ KeptIsHeld /\ GoesUpSorted /\ DatagramComes

LEMMA Fragment ==
    ASSUME NEW f \in AllFragments
    PROVE  /\ f.datagram \in Datagrams /\ f \in FragmentsOf(f.datagram)
           /\ f.offset \in Nat /\ f.offset <= LastOf(f.datagram)
           /\ f = [datagram |-> f.datagram, offset |-> f.offset]
           /\ LastOf(f.datagram) \in Nat
    BY FragmentCounts DEF AllFragments, FragmentsOf

LEMMA FragmentOf ==
    ASSUME NEW d \in Datagrams, NEW f \in FragmentsOf(d)
    PROVE  f \in AllFragments /\ f.datagram = d
    BY DEF AllFragments, FragmentsOf

LEMMA LastFragment ==
    ASSUME NEW d \in Datagrams
    PROVE  /\ [datagram |-> d, offset |-> LastOf(d)] \in FragmentsOf(d)
           /\ \A f \in FragmentsOf(d) : ~MoreFragments(f) =>
                 f = [datagram |-> d, offset |-> LastOf(d)]
  <1>1. LastOf(d) \in Nat
    BY FragmentCounts
  <1> QED
    BY <1>1 DEF FragmentsOf, MoreFragments

\* Where a fragment is put into a chain.
LEMMA PlaceFound ==
    ASSUME NEW d \in Datagrams, NEW chain \in Seq(FragmentsOf(d)), NEW f \in FragmentsOf(d)
    PROVE  \E n \in 0 .. Len(chain) :
              /\ Chained(chain, f) = InsertAt(chain, n + 1, f)
              /\ n < Len(chain) => f.offset < chain[n + 1].offset
              /\ \A i \in 1 .. n : chain[i].offset <= f.offset
  <1> DEFINE beyond == {i \in 1 .. Len(chain) : GoesBefore(f, chain[i])}
  <1>1. Len(chain) \in Nat /\ beyond \in SUBSET Nat
        /\ \A i \in 1 .. Len(chain) : chain[i] \in FragmentsOf(d)
    BY LenProperties, ElementOfSeq
  <1>2. f.offset \in Int /\ \A i \in 1 .. Len(chain) : chain[i].offset \in Int
    BY <1>1, FragmentOf, Fragment
  <1>3. CASE beyond = {}
    <2>1. Chained(chain, f) = InsertAt(chain, Len(chain) + 1, f)
      BY <1>3 DEF Chained
    <2>2. \A i \in 1 .. Len(chain) : chain[i].offset <= f.offset
      BY <1>2, <1>3 DEF GoesBefore
    <2> QED
      BY <1>1, <2>1, <2>2
  <1>4. CASE beyond # {}
    <2> DEFINE first == CHOOSE i \in beyond : \A j \in beyond : i <= j
    <2>1. \E i \in beyond : \A j \in beyond : i <= j
      <3> HIDE DEF beyond
      <3> QED
        BY <1>1, <1>4, LeastElement
    <2>2. first \in beyond /\ \A j \in beyond : first <= j
      <3> HIDE DEF beyond
      <3> QED
        BY <2>1
    <2>3. Chained(chain, f) = InsertAt(chain, first, f)
      BY <1>4 DEF Chained
    <2> HIDE DEF first
    <2>4. first \in 1 .. Len(chain) /\ f.offset < chain[first].offset
      BY <2>2 DEF GoesBefore
    <2>5. PICK n \in 0 .. Len(chain) : n + 1 = first
      BY <1>1, <2>4
    <2>6. ASSUME NEW i \in 1 .. n PROVE chain[i].offset <= f.offset
      <3>1. i \in 1 .. Len(chain) /\ ~(first <= i)
        BY <1>1, <2>5
      <3>2. ~(f.offset < chain[i].offset)
        BY <2>2, <3>1 DEF GoesBefore
      <3> QED
        BY <1>2, <3>1, <3>2
    <2> QED
      BY <2>3, <2>4, <2>5, <2>6
  <1> QED
    BY <1>3, <1>4

\* Putting a fragment into a chain keeps its order, its datagram and the rest.
LEMMA ChainedInOrder ==
    ASSUME NEW d \in Datagrams, NEW chain \in Seq(FragmentsOf(d)), NEW f \in FragmentsOf(d),
           InOrder(chain)
    PROVE  /\ Chained(chain, f) \in Seq(FragmentsOf(d)) /\ InOrder(Chained(chain, f))
           /\ Len(Chained(chain, f)) = Len(chain) + 1
           /\ \A i \in 1 .. Len(Chained(chain, f)) :
                 Chained(chain, f)[i] = f \/ \E j \in 1 .. Len(chain) : Chained(chain, f)[i] = chain[j]
  <1>1. PICK n \in 0 .. Len(chain) :
              /\ Chained(chain, f) = InsertAt(chain, n + 1, f)
              /\ n < Len(chain) => f.offset < chain[n + 1].offset
              /\ \A i \in 1 .. n : chain[i].offset <= f.offset
    BY PlaceFound
  <1> DEFINE new == Chained(chain, f)
  <1>2. /\ new \in Seq(FragmentsOf(d)) /\ Len(new) = Len(chain) + 1
        /\ \A i \in 1 .. Len(chain) + 1 :
              new[i] = IF i <= n THEN chain[i] ELSE IF i = n + 1 THEN f ELSE chain[i - 1]
    <2>1. /\ InsertAt(chain, n + 1, f) \in Seq(FragmentsOf(d))
          /\ Len(InsertAt(chain, n + 1, f)) = Len(chain) + 1
          /\ \A i \in 1 .. Len(chain) + 1 : InsertAt(chain, n + 1, f)[i] =
                IF i <= n THEN chain[i] ELSE IF i = n + 1 THEN f ELSE chain[i - 1]
      <3>1. IsInsertion(FragmentsOf(d), chain, n, f)
        BY Inserted
      <3> QED
        BY <3>1 DEF IsInsertion
    <2> QED
      BY <1>1, <2>1
  <1> HIDE DEF new
  <1>3. Len(chain) \in Nat /\ n \in Nat /\ n <= Len(chain)
        /\ f.offset \in Int /\ \A i \in 1 .. Len(chain) : chain[i].offset \in Int
    BY LenProperties, ElementOfSeq, FragmentOf, Fragment
  <1>4. ASSUME NEW i \in 1 .. Len(new) PROVE new[i] = f \/ \E j \in 1 .. Len(chain) : new[i] = chain[j]
    <2>1. CASE i <= n
      BY <1>2, <1>3, <2>1
    <2>2. CASE i = n + 1
      BY <1>2, <1>3, <2>2
    <2>3. CASE i > n + 1
      <3>1. i - 1 \in 1 .. Len(chain) /\ new[i] = chain[i - 1]
        BY <1>2, <1>3, <2>3
      <3> QED
        BY <3>1
    <2> QED
      BY <1>2, <1>3, <2>1, <2>2, <2>3
  <1>5. ASSUME NEW i \in 1 .. Len(new), NEW j \in 1 .. Len(new), i < j
        PROVE  new[i].offset <= new[j].offset
    <2>0. i \in 1 .. Len(chain) + 1 /\ j \in 1 .. Len(chain) + 1
      BY <1>2
    <2>1. \A k \in 1 .. Len(chain) : k > n => f.offset < chain[k].offset
      <3> TAKE k \in 1 .. Len(chain)
      <3> HAVE k > n
      <3>1. n + 1 \in 1 .. Len(chain) /\ f.offset < chain[n + 1].offset
        BY <1>1, <1>3
      <3>2. k = n + 1 \/ chain[n + 1].offset <= chain[k].offset
        BY <1>3, <3>1 DEF InOrder
      <3> QED
        BY <1>3, <3>1, <3>2
    <2>2. CASE j <= n
      <3>1. /\ i \in 1 .. Len(chain) /\ j \in 1 .. Len(chain) /\ i <= n
            /\ new[i] = chain[i] /\ new[j] = chain[j]
        BY <1>2, <1>3, <1>5, <2>0, <2>2
      <3> QED
        BY <1>5, <3>1 DEF InOrder
    <2>3. CASE j = n + 1
      <3>1. i \in 1 .. n /\ new[i] = chain[i] /\ new[j] = f
        BY <1>2, <1>3, <1>5, <2>0, <2>3
      <3> QED
        BY <1>1, <3>1
    <2>4. CASE j > n + 1
      <3>1. j - 1 \in 1 .. Len(chain) /\ j - 1 > n /\ new[j] = chain[j - 1]
        BY <1>2, <1>3, <2>0, <2>4
      <3>2. CASE i <= n
        <4>1. i \in 1 .. Len(chain) /\ i < j - 1 /\ new[i] = chain[i]
          BY <1>2, <1>3, <2>0, <2>4, <3>2
        <4> QED
          BY <3>1, <4>1 DEF InOrder
      <3>3. CASE i = n + 1
        <4>1. new[i] = f /\ f.offset < chain[j - 1].offset
          BY <1>2, <1>3, <2>0, <2>1, <3>1, <3>3
        <4> QED
          BY <1>3, <3>1, <4>1
      <3>4. CASE i > n + 1
        <4>1. i - 1 \in 1 .. Len(chain) /\ i - 1 < j - 1 /\ new[i] = chain[i - 1]
          BY <1>2, <1>3, <1>5, <2>0, <3>4
        <4> QED
          BY <3>1, <4>1 DEF InOrder
      <3> QED
        BY <1>3, <2>0, <3>2, <3>3, <3>4
    <2> QED
      BY <1>3, <2>0, <2>2, <2>3, <2>4
  <1>6. /\ new \in Seq(FragmentsOf(d)) /\ InOrder(new) /\ Len(new) = Len(chain) + 1
        /\ \A i \in 1 .. Len(new) : new[i] = f \/ \E j \in 1 .. Len(chain) : new[i] = chain[j]
    BY <1>2, <1>4, <1>5 DEF InOrder
  <1> QED
    BY <1>6 DEF new

\* A fragment that is put into a chain is there once more, and no other is.
LEMMA ChainedCopies ==
    ASSUME NEW d \in Datagrams, NEW chain \in Seq(FragmentsOf(d)), NEW f \in FragmentsOf(d),
           NEW g
    PROVE  /\ Copies(chain, g) \in Nat
           /\ Copies(Chained(chain, f), g) = Copies(chain, g) + (IF g = f THEN 1 ELSE 0)
  <1>1. PICK n \in 0 .. Len(chain) : Chained(chain, f) = InsertAt(chain, n + 1, f)
    BY PlaceFound
  <1> DEFINE new == Chained(chain, f)
             old == {i \in DOMAIN chain : chain[i] = g}
             all == {i \in DOMAIN new : new[i] = g}
             rest == all \ {n + 1}
             move == [i \in old |-> IF i <= n THEN i ELSE i + 1]
  <1>2. /\ Len(chain) \in Nat /\ DOMAIN chain = 1 .. Len(chain)
        /\ DOMAIN new = 1 .. Len(chain) + 1
        /\ \A i \in 1 .. Len(chain) + 1 :
              new[i] = IF i <= n THEN chain[i] ELSE IF i = n + 1 THEN f ELSE chain[i - 1]
    <2>1. /\ InsertAt(chain, n + 1, f) \in Seq(FragmentsOf(d))
          /\ Len(InsertAt(chain, n + 1, f)) = Len(chain) + 1
          /\ \A i \in 1 .. Len(chain) + 1 : InsertAt(chain, n + 1, f)[i] =
                IF i <= n THEN chain[i] ELSE IF i = n + 1 THEN f ELSE chain[i - 1]
      <3>1. IsInsertion(FragmentsOf(d), chain, n, f)
        BY Inserted
      <3> QED
        BY <3>1 DEF IsInsertion
    <2>2. /\ DOMAIN chain = 1 .. Len(chain)
          /\ DOMAIN InsertAt(chain, n + 1, f) = 1 .. Len(InsertAt(chain, n + 1, f))
      BY <2>1, LenProperties
    <2> QED
      BY <1>1, <2>1, <2>2, LenProperties
  <1> HIDE DEF new
  <1>3. n \in Nat /\ n <= Len(chain)
    BY <1>2
  <1>4. IsFiniteSet(old) /\ Cardinality(old) \in Nat
    <2>1. IsFiniteSet(1 .. Len(chain))
      BY <1>2, FS_Interval
    <2>2. old \in SUBSET (1 .. Len(chain))
      BY <1>2
    <2>3. IsFiniteSet(old)
      <3> HIDE DEF old
      <3> QED
        BY <2>1, <2>2, FS_Subset
    <2> QED
      BY <2>3, FS_CardinalityType
  <1>5. move \in Bijection(old, rest)
    <2>1. \A i \in old : i \in 1 .. Len(chain) /\ chain[i] = g
      BY <1>2
    <2>2. ASSUME NEW i \in old PROVE move[i] \in rest
      <3>1. CASE i <= n
        <4>1. i \in 1 .. Len(chain) + 1 /\ new[i] = chain[i] /\ move[i] = i /\ i # n + 1
          BY <1>2, <1>3, <2>1, <3>1
        <4> QED
          BY <1>2, <2>1, <4>1
      <3>2. CASE ~(i <= n)
        <4>1. i \in Nat /\ i + 1 \in 1 .. Len(chain) + 1 /\ ~(i + 1 <= n) /\ i + 1 # n + 1
              /\ (i + 1) - 1 = i /\ move[i] = i + 1
          BY <1>2, <1>3, <2>1, <3>2
        <4>2. new[i + 1] = chain[i]
          BY <1>2, <4>1
        <4> QED
          BY <1>2, <2>1, <4>1, <4>2
      <3> QED
        BY <3>1, <3>2
    <2>3. move \in [old -> rest]
      BY <2>2
    <2>4. ASSUME NEW i \in old, NEW j \in old, move[i] = move[j] PROVE i = j
      BY <1>2, <1>3, <2>1, <2>4
    <2>5. ASSUME NEW k \in rest PROVE \E i \in old : move[i] = k
      <3>1. k \in 1 .. Len(chain) + 1 /\ k # n + 1 /\ new[k] = g
        BY <1>2
      <3>2. CASE k <= n
        <4>1. k \in 1 .. Len(chain) /\ chain[k] = g
          BY <1>2, <1>3, <3>1, <3>2
        <4> QED
          BY <1>2, <3>2, <4>1
      <3>3. CASE ~(k <= n)
        <4>1. k - 1 \in 1 .. Len(chain) /\ chain[k - 1] = g /\ ~(k - 1 <= n) /\ (k - 1) + 1 = k
          BY <1>2, <1>3, <3>1, <3>3
        <4>2. k - 1 \in old
          BY <1>2, <4>1
        <4> QED
          BY <4>1, <4>2
      <3> QED
        BY <3>2, <3>3
    <2> HIDE DEF move, old, rest
    <2> QED
      BY <2>3, <2>4, <2>5, Fun_IsBij
  <1>6. IsFiniteSet(rest) /\ Cardinality(rest) = Cardinality(old)
    <2> HIDE DEF move, old, rest
    <2>1. ExistsBijection(old, rest)
      BY <1>5 DEF ExistsBijection
    <2> QED
      BY <1>4, <2>1, FS_Bijection
  <1>7. n + 1 \in all <=> g = f
    BY <1>2, <1>3
  <1>8. Cardinality(all) = Cardinality(old) + (IF g = f THEN 1 ELSE 0)
    <2>1. CASE g = f
      <3>1. all = rest \cup {n + 1} /\ n + 1 \notin rest
        BY <1>7, <2>1
      <3>2. Cardinality(rest \cup {n + 1}) = Cardinality(rest) + 1
        <4> HIDE DEF rest, all
        <4> QED
          BY <1>6, <3>1, FS_AddElement
      <3> QED
        BY <1>6, <2>1, <3>1, <3>2
    <2>2. CASE g # f
      <3>1. all = rest
        BY <1>7, <2>2
      <3> HIDE DEF old, all, rest
      <3> QED
        BY <1>4, <1>6, <2>2, <3>1
    <2> QED
      BY <2>1, <2>2
  <1> QED
    BY <1>4, <1>8 DEF Copies, new

\* The chain of a datagram, before and after a fragment is put into it.
LEMMA ChainIs ==
    ASSUME ReassTypeOK, NEW d \in Datagrams
    PROVE  ChainOf(d) \in Seq(FragmentsOf(d))
    BY DEF ReassTypeOK, ChainOf, HasChain

LEMMA NoCopies ==
    ASSUME NEW d \in Datagrams, NEW chain \in Seq(FragmentsOf(d)), NEW g, g.datagram # d
    PROVE  Copies(chain, g) = 0
  <1>1. {i \in DOMAIN chain : chain[i] = g} = {}
    BY FragmentOf, ElementOfSeq, LenProperties
  <1> QED
    BY <1>1, FS_EmptySet DEF Copies

LEMMA EmptyCopies == \A g : Copies(<<>>, g) = 0
  <1> TAKE g
  <1>1. {i \in DOMAIN <<>> : <<>>[i] = g} = {}
    OBVIOUS
  <1> QED
    BY <1>1, FS_EmptySet DEF Copies

LEMMA ChainsWith ==
    ASSUME NEW d \in Datagrams, NEW chain, ipq' = With(d, chain)
    PROVE  /\ DOMAIN ipq' = DOMAIN ipq \cup {d}
           /\ \A e \in Datagrams : ChainOf(e)' = IF e = d THEN chain ELSE ChainOf(e)
           /\ \A e \in Datagrams : e # d => (HasChain(e)' <=> HasChain(e))
    BY DEF With, ChainOf, HasChain

LEMMA ChainsWithout ==
    ASSUME NEW d \in Datagrams, ipq' = Without(d)
    PROVE  /\ DOMAIN ipq' = DOMAIN ipq \ {d}
           /\ \A e \in Datagrams : ChainOf(e)' = IF e = d THEN <<>> ELSE ChainOf(e)
           /\ \A e \in Datagrams : HasChain(e)' <=> HasChain(e) /\ e # d
    BY DEF Without, ChainOf, HasChain

LEMMA CutDatagram ==
    ASSUME NEW f \in AllFragments, IsMultipleFragments(f)
    PROVE  LastOf(f.datagram) > 0
    BY Fragment DEF IsMultipleFragments, MoreFragments

\* What an action does to the chains, case by case.
LEMMA ReassStep ==
    ASSUME ReassTypeOK, NEW f \in AllFragments,
           NotCut(f) \/ Store(f) \/ CompleteDatagram(f) \/ CompleteHalted(f)
           \/ GiveUp(f) \/ GiveUpFragment(f)
    PROVE  /\ Arrive(f) /\ lost' \in Nat /\ lost <= lost' /\ (lost' = 0 => lost = 0)
           /\ \/ NotCut(f)
              \/ Store(f)
              \/ CompleteDatagram(f)
              \/ lost' > 0 /\ UNCHANGED <<passed, burst>> /\ IsMultipleFragments(f)
                 /\ \/ ipq' = ipq
                    \/ ipq' = Without(f.datagram)
                    \/ ipq' = With(f.datagram, ChainOf(f.datagram))
  <1> USE DEF ReassTypeOK
  <1>1. CASE NotCut(f)
    BY <1>1 DEF NotCut
  <1>2. CASE Store(f)
    BY <1>2 DEF Store
  <1>3. CASE CompleteDatagram(f)
    BY <1>3 DEF CompleteDatagram
  <1>4. CASE CompleteHalted(f)
    <2>1. Len(ChainOf(f.datagram)) \in Nat
      BY ChainIs, Fragment, LenProperties
    <2> QED
      BY <1>4, <2>1 DEF CompleteHalted
  <1>5. CASE GiveUp(f)
    BY <1>5 DEF GiveUp
  <1>6. CASE GiveUpFragment(f)
    BY <1>6 DEF GiveUpFragment
  <1> QED
    BY <1>1, <1>2, <1>3, <1>4, <1>5, <1>6

LEMMA ChainsStay ==
    ASSUME ReassTypeOK, ChainsInOrder, ChainsWait, NEW f \in AllFragments,
           NotCut(f) \/ Store(f) \/ CompleteDatagram(f) \/ CompleteHalted(f)
           \/ GiveUp(f) \/ GiveUpFragment(f)
    PROVE  /\ DOMAIN ipq' \subseteq Datagrams
           /\ \A e \in Datagrams :
                 /\ ChainOf(e)' \in Seq(FragmentsOf(e)) /\ InOrder(ChainOf(e)')
                 /\ \A i \in 1 .. Len(ChainOf(e)') : MoreFragments(ChainOf(e)'[i])
                 /\ HasChain(e)' => LastOf(e) > 0
  <1>1. PICK d \in Datagrams : d = f.datagram /\ f \in FragmentsOf(d)
    BY Fragment
  <1>2. /\ DOMAIN ipq \subseteq Datagrams
        /\ \A e \in Datagrams :
              /\ ChainOf(e) \in Seq(FragmentsOf(e)) /\ InOrder(ChainOf(e))
              /\ \A i \in 1 .. Len(ChainOf(e)) : MoreFragments(ChainOf(e)[i])
              /\ HasChain(e) => LastOf(e) > 0
    BY ChainIs DEF ReassTypeOK, ChainsInOrder, ChainsWait
  <1>3. CASE ipq' = ipq
    <2>1. \A e \in Datagrams : ChainOf(e)' = ChainOf(e) /\ (HasChain(e)' <=> HasChain(e))
      BY <1>3 DEF ChainOf, HasChain
    <2> QED
      BY <1>2, <1>3, <2>1
  <1>4. CASE ipq' = Without(d)
    <2>1. /\ <<>> \in Seq(FragmentsOf(d)) /\ InOrder(<<>>)
          /\ \A i \in 1 .. Len(<<>>) : MoreFragments(<<>>[i])
      BY EmptySeq DEF InOrder
    <2>2. /\ DOMAIN ipq' \subseteq Datagrams
          /\ \A e \in Datagrams : ChainOf(e)' = IF e = d THEN <<>> ELSE ChainOf(e)
          /\ \A e \in Datagrams : HasChain(e)' => HasChain(e)
      BY <1>2, <1>4, ChainsWithout
    <2> QED
      BY <1>2, <2>1, <2>2
  <1>5. ASSUME NEW chain \in Seq(FragmentsOf(d)), ipq' = With(d, chain), InOrder(chain),
               \A i \in 1 .. Len(chain) : MoreFragments(chain[i]), LastOf(d) > 0
        PROVE  /\ DOMAIN ipq' \subseteq Datagrams
               /\ \A e \in Datagrams :
                     /\ ChainOf(e)' \in Seq(FragmentsOf(e)) /\ InOrder(ChainOf(e)')
                     /\ \A i \in 1 .. Len(ChainOf(e)') : MoreFragments(ChainOf(e)'[i])
                     /\ HasChain(e)' => LastOf(e) > 0
    BY <1>2, <1>5, ChainsWith
  <1>6. CASE Store(f)
    <2> DEFINE chain == Chained(ChainOf(d), f)
    <2>1. /\ chain \in Seq(FragmentsOf(d)) /\ InOrder(chain)
          /\ \A i \in 1 .. Len(chain) :
                chain[i] = f \/ \E j \in 1 .. Len(ChainOf(d)) : chain[i] = ChainOf(d)[j]
      BY <1>1, <1>2, ChainedInOrder
    <2>2. ipq' = With(d, chain) /\ MoreFragments(f) /\ LastOf(d) > 0
      BY <1>1, <1>6, CutDatagram DEF Store, Completes
    <2> HIDE DEF chain
    <2>3. \A i \in 1 .. Len(chain) : MoreFragments(chain[i])
      BY <1>2, <2>1, <2>2
    <2> QED
      BY <1>5, <2>1, <2>2, <2>3
  <1>7. CASE ipq' = With(d, ChainOf(d)) /\ IsMultipleFragments(f)
    <2>1. LastOf(d) > 0
      BY <1>1, <1>7, CutDatagram
    <2> QED
      BY <1>2, <1>5, <1>7, <2>1
  <1> QED
    BY <1>1, <1>3, <1>4, <1>6, <1>7, ReassStep DEF NotCut, CompleteDatagram

LEMMA ArriveCounts ==
    ASSUME ReassTypeOK, NEW f \in AllFragments, Arrive(f)
    PROVE  /\ netFaults' = netFaults /\ came[f] < MaxCopies
           /\ came' \in [AllFragments -> 0 .. MaxCopies]
           /\ \A g \in AllFragments : /\ came[g] \in Nat
                                      /\ came'[g] = came[g] + (IF g = f THEN 1 ELSE 0)
    BY CopiesBound DEF ReassTypeOK, Arrive, MayCome

\* What goes up, in numbers.
LEMMA PassedStays ==
    ASSUME ReassTypeOK, ChainsInOrder, ChainsWait, NEW f \in AllFragments,
           NotCut(f) \/ Store(f) \/ CompleteDatagram(f) \/ CompleteHalted(f)
           \/ GiveUp(f) \/ GiveUpFragment(f)
    PROVE  /\ passed' \in [AllFragments -> Nat]
           /\ \A g \in AllFragments : passed[g] <= passed'[g]
           /\ burst' \in Seq(AllFragments)
           /\ burst' = burst \/ \E d \in Datagrams : burst' \in Seq(FragmentsOf(d)) /\ InOrder(burst')
  <1>1. CASE UNCHANGED <<passed, burst>>
    BY <1>1 DEF ReassTypeOK
  <1>2. CASE NotCut(f)
    BY <1>2 DEF NotCut, ReassTypeOK
  <1>3. CASE CompleteDatagram(f)
    <2>1. PICK d \in Datagrams : d = f.datagram /\ f \in FragmentsOf(d)
      BY Fragment
    <2>2. PICK chain : chain = ChainOf(d)
      OBVIOUS
    <2>3. chain \in Seq(FragmentsOf(d)) /\ InOrder(chain)
      BY <2>2, ChainIs DEF ChainsInOrder
    <2>4. Chained(chain, f) \in Seq(FragmentsOf(d)) /\ InOrder(Chained(chain, f))
      BY <2>1, <2>3, ChainedInOrder
    <2>5. \A g \in AllFragments : Copies(Chained(chain, f), g) \in Nat
      <3> TAKE g \in AllFragments
      <3>1. /\ Copies(chain, g) \in Nat
            /\ Copies(Chained(chain, f), g) = Copies(chain, g) + (IF g = f THEN 1 ELSE 0)
        BY <2>1, <2>3, ChainedCopies
      <3> QED
        BY <3>1
    <2>6. /\ burst' = Chained(chain, f)
          /\ passed' = [g \in AllFragments |-> passed[g] + Copies(Chained(chain, f), g)]
      BY <1>3, <2>1, <2>2 DEF CompleteDatagram
    <2>7. FragmentsOf(d) \subseteq AllFragments
      BY FragmentOf
    <2>8. burst' \in Seq(AllFragments)
      <3>1. /\ Len(burst') \in Nat /\ burst' = [i \in 1 .. Len(burst') |-> burst'[i]]
            /\ \A i \in 1 .. Len(burst') : burst'[i] \in AllFragments
        BY <2>4, <2>6, <2>7, LenProperties, ElementOfSeq, SeqDef
      <3> QED
        BY <3>1, IsASeq
    <2> QED
      BY <2>4, <2>5, <2>6, <2>8 DEF ReassTypeOK
  <1> QED
    BY <1>1, <1>2, <1>3, ReassStep DEF Store

LEMMA KeptStays ==
    ASSUME ReassTypeOK, ChainsInOrder, ChainsWait, KeptIsHeld, NEW f \in AllFragments,
           NotCut(f) \/ Store(f) \/ CompleteDatagram(f) \/ CompleteHalted(f)
           \/ GiveUp(f) \/ GiveUpFragment(f)
    PROVE  KeptIsHeld'
  <1>1. PICK d \in Datagrams : d = f.datagram /\ f \in FragmentsOf(d)
    BY Fragment
  <1>2. PICK chain \in Seq(FragmentsOf(d)) : chain = ChainOf(d)
    BY ChainIs
  <1> SUFFICES ASSUME lost' = 0, NEW g \in AllFragments
               PROVE  came'[g] = passed'[g] + Copies(ChainOf(g.datagram)', g)
    BY DEF KeptIsHeld
  <1>3. lost = 0 /\ came[g] = passed[g] + Copies(ChainOf(g.datagram), g)
    BY ReassStep DEF KeptIsHeld
  <1>4. came'[g] = came[g] + (IF g = f THEN 1 ELSE 0) /\ came[g] \in Nat /\ passed[g] \in Nat
    BY ReassStep, ArriveCounts DEF ReassTypeOK
  <1>5. g.datagram \in Datagrams
    BY Fragment
  <1>6. /\ Copies(chain, g) \in Nat
        /\ Copies(Chained(chain, f), g) = Copies(chain, g) + (IF g = f THEN 1 ELSE 0)
    BY <1>1, <1>2, ChainedCopies
  <1>7. Copies(ChainOf(g.datagram), g) \in Nat
    <2>1. ChainOf(g.datagram) \in Seq(FragmentsOf(g.datagram)) /\ g \in FragmentsOf(g.datagram)
      BY <1>5, ChainIs, Fragment
    <2> QED
      BY <1>5, <2>1, ChainedCopies
  <1>8. CASE NotCut(f)
    <2>1. ChainOf(g.datagram)' = ChainOf(g.datagram)
      BY <1>8 DEF NotCut, ChainOf, HasChain
    <2>2. passed'[g] = passed[g] + (IF g = f THEN 1 ELSE 0)
      BY <1>8 DEF NotCut, ReassTypeOK
    <2> QED
      BY <1>3, <1>4, <1>7, <2>1, <2>2
  <1>9. CASE Store(f)
    <2>1. ipq' = With(d, Chained(chain, f)) /\ passed' = passed
      BY <1>1, <1>2, <1>9 DEF Store
    <2>2. ChainOf(g.datagram)' = IF g.datagram = d THEN Chained(chain, f) ELSE ChainOf(g.datagram)
      BY <1>5, <2>1, ChainsWith
    <2>3. CASE g.datagram = d
      BY <1>2, <1>3, <1>4, <1>6, <2>1, <2>2, <2>3
    <2>4. CASE g.datagram # d
      BY <1>1, <1>3, <1>4, <1>7, <2>1, <2>2, <2>4
    <2> QED
      BY <2>3, <2>4
  <1>10. CASE CompleteDatagram(f)
    <2>1. ipq' = Without(d) /\ passed'[g] = passed[g] + Copies(Chained(chain, f), g)
      BY <1>1, <1>2, <1>10 DEF CompleteDatagram
    <2>2. ChainOf(g.datagram)' = IF g.datagram = d THEN <<>> ELSE ChainOf(g.datagram)
      BY <1>5, <2>1, ChainsWithout
    <2>3. CASE g.datagram = d
      BY <1>2, <1>3, <1>4, <1>6, <2>1, <2>2, <2>3, EmptyCopies
    <2>4. CASE g.datagram # d
      <3>1. Copies(chain, g) = 0 /\ g # f
        BY <1>1, <2>4, NoCopies
      <3> QED
        BY <1>3, <1>4, <1>6, <1>7, <2>1, <2>2, <2>4, <3>1
    <2> QED
      BY <2>3, <2>4
  <1> QED
    BY <1>8, <1>9, <1>10, ReassStep

\* With the last fragment of a datagram its other ones have come.
LEMMA DatagramStays ==
    ASSUME ReassTypeOK, ChainsInOrder, ChainsWait, CameOnce, KeptIsHeld, KeptIsHeld',
           DatagramComes, NEW f \in AllFragments,
           NotCut(f) \/ Store(f) \/ CompleteDatagram(f) \/ CompleteHalted(f)
           \/ GiveUp(f) \/ GiveUpFragment(f)
    PROVE  DatagramComes'
  <1> SUFFICES ASSUME NEW d \in Datagrams, lost' = 0, "reorder" \notin netFaults',
                      came'[[datagram |-> d, offset |-> LastOf(d)]] > 0
               PROVE  /\ \A g \in FragmentsOf(d) : passed'[g] > 0
                      /\ "repeat" \in netFaults' \/ ~HasChain(d)'
    BY DEF DatagramComes
  <1>1. PICK last \in FragmentsOf(d) : last = [datagram |-> d, offset |-> LastOf(d)]
    BY LastFragment
  <1>2. /\ lost = 0 /\ netFaults' = netFaults /\ Arrive(f)
        /\ \A g \in AllFragments : /\ came[g] \in Nat /\ passed[g] \in Nat
                                   /\ passed'[g] \in Nat /\ passed[g] <= passed'[g]
                                   /\ came'[g] = came[g] + (IF g = f THEN 1 ELSE 0)
    BY ReassStep, ArriveCounts, PassedStays DEF ReassTypeOK
  <1>3. FragmentsOf(d) \subseteq AllFragments /\ \A g \in FragmentsOf(d) : g.datagram = d
    BY FragmentOf
  <1>4. \A g \in AllFragments : Copies(ChainOf(g.datagram), g) \in Nat
    <2> TAKE g \in AllFragments
    <2>1. g.datagram \in Datagrams /\ g \in FragmentsOf(g.datagram)
      BY Fragment
    <2>2. ChainOf(g.datagram) \in Seq(FragmentsOf(g.datagram))
      BY <2>1, ChainIs
    <2> QED
      BY <2>1, <2>2, ChainedCopies
  <1>5. CASE came[last] > 0
    <2>1. /\ \A g \in FragmentsOf(d) : passed[g] > 0
          /\ "repeat" \in netFaults \/ ~HasChain(d)
      BY <1>1, <1>2, <1>5 DEF DatagramComes
    <2>2. \A g \in FragmentsOf(d) : passed'[g] > 0
      BY <1>2, <1>3, <2>1
    <2>3. ASSUME "repeat" \notin netFaults PROVE ~HasChain(d)'
      <3>1. \A g \in FragmentsOf(d) : came[g] # 0
        BY <1>2, <1>3, <1>4, <2>1 DEF KeptIsHeld
      <3>2. f.datagram # d
        <4>1. came[f] = 0 /\ f \in FragmentsOf(f.datagram)
          BY <1>2, <2>3, Fragment DEF Arrive, MayCome
        <4> QED
          BY <3>1, <4>1
      <3>3. f.datagram \in Datagrams /\ ~HasChain(d)
        BY <2>1, <2>3, Fragment
      <3>4. CASE ipq' = ipq
        BY <3>3, <3>4 DEF HasChain
      <3>5. CASE Store(f)
        BY <3>2, <3>3, <3>5, ChainsWith DEF Store
      <3>6. CASE CompleteDatagram(f)
        BY <3>2, <3>3, <3>6, ChainsWithout DEF CompleteDatagram
      <3> QED
        BY <3>4, <3>5, <3>6, ReassStep DEF NotCut
    <2> QED
      BY <1>2, <2>2, <2>3
  <1>6. CASE ~(came[last] > 0)
    <2>1. f = last /\ f.datagram = d /\ ~MoreFragments(f)
      <3>1. last \in AllFragments /\ came'[last] > 0
        BY <1>1, <1>3
      <3>2. f = last
        BY <1>2, <1>6, <3>1
      <3> QED
        BY <1>1, <3>2, FragmentCounts DEF MoreFragments
    <2>2. CASE NotCut(f)
      <3>1. ~IsMultipleFragments(f) /\ passed'[f] = passed[f] + 1 /\ ipq' = ipq
        BY <1>2, <2>2 DEF NotCut, ReassTypeOK
      <3>2. LastOf(d) = 0
        BY <1>1, <2>1, <3>1 DEF IsMultipleFragments
      <3>3. \A g \in FragmentsOf(d) : g = f
        BY <1>1, <2>1, <3>2 DEF FragmentsOf
      <3>4. ~HasChain(d)'
        BY <3>1, <3>2 DEF ChainsWait, HasChain
      <3> QED
        BY <1>2, <3>1, <3>3, <3>4
    <2>3. CASE CompleteDatagram(f)
      <3>1. ipq' = Without(d)
        BY <2>1, <2>3 DEF CompleteDatagram
      <3>2. ChainOf(d)' = <<>> /\ ~HasChain(d)'
        BY <3>1, ChainsWithout
      <3>3. ASSUME NEW g \in FragmentsOf(d) PROVE passed'[g] > 0
        <4>1. came'[g] > 0
          <5>1. CASE g = f
            BY <1>2, <5>1
          <5>2. CASE g # f
            <6>1. g.offset < f.offset
              BY <1>1, <2>1, <5>2, FragmentCounts DEF FragmentsOf
            <6>2. came[g] > 0
              BY <1>2, <2>1, <6>1 DEF Arrive, MayCome
            <6> QED
              BY <1>2, <1>3, <6>2
          <5> QED
            BY <5>1, <5>2
        <4>2. came'[g] = passed'[g] + Copies(ChainOf(g.datagram)', g)
          BY <1>3 DEF KeptIsHeld
        <4>3. Copies(ChainOf(g.datagram)', g) = 0
          BY <1>3, <3>2, EmptyCopies
        <4> QED
          BY <1>2, <1>3, <4>1, <4>2, <4>3
      <3> QED
        BY <3>2, <3>3
    <2>4. ~Store(f)
      BY <2>1 DEF Store, Completes
    <2> QED
      BY <2>2, <2>3, <2>4, ReassStep
  <1> QED
    BY <1>5, <1>6

\* Nothing has come at first, and every packet keeps what is said of the chains.
LEMMA ReassInitHolds == ReassInit => ReassIInv
  <1> SUFFICES ASSUME ReassInit PROVE ReassIInv
    OBVIOUS
  <1>1. ReassTypeOK
    BY CopiesBound, EmptySeq DEF ReassInit, ReassTypeOK
  <1>2. \A d \in Datagrams : ChainOf(d) = <<>> /\ ~HasChain(d)
    BY DEF ReassInit, ChainOf, HasChain
  <1>3. ChainsInOrder /\ ChainsWait /\ CameOnce /\ GoesUpSorted
    BY <1>2 DEF ReassInit, ChainsInOrder, ChainsWait, InOrder, CameOnce, GoesUpSorted
  <1>4. KeptIsHeld
    BY <1>2, EmptyCopies, Fragment DEF ReassInit, KeptIsHeld
  <1>5. DatagramComes
    BY LastFragment, FragmentOf DEF ReassInit, DatagramComes
  <1> QED
    BY <1>1, <1>3, <1>4, <1>5 DEF ReassIInv

LEMMA ReassNextHolds == ReassIInv /\ [ReassNext]_reassVars => ReassIInv'
  <1> SUFFICES ASSUME ReassIInv, [ReassNext]_reassVars PROVE ReassIInv'
    OBVIOUS
  <1> USE DEF ReassIInv
  <1>1. CASE UNCHANGED reassVars
    BY <1>1 DEF reassVars, ReassTypeOK, ChainsInOrder, ChainsWait, CameOnce, KeptIsHeld,
       GoesUpSorted, DatagramComes, ChainOf, HasChain
  <1>2. ASSUME NEW f \in AllFragments,
               NotCut(f) \/ Store(f) \/ CompleteDatagram(f) \/ CompleteHalted(f)
               \/ GiveUp(f) \/ GiveUpFragment(f)
        PROVE  ReassIInv'
    <2>1. /\ netFaults' = netFaults /\ came' \in [AllFragments -> 0 .. MaxCopies] /\ lost' \in Nat
          /\ \A g \in AllFragments : /\ came[g] \in Nat
                                     /\ came'[g] = came[g] + (IF g = f THEN 1 ELSE 0)
      BY <1>2, ReassStep, ArriveCounts
    <2>2. /\ DOMAIN ipq' \subseteq Datagrams
          /\ \A e \in Datagrams :
                /\ ChainOf(e)' \in Seq(FragmentsOf(e)) /\ InOrder(ChainOf(e)')
                /\ \A i \in 1 .. Len(ChainOf(e)') : MoreFragments(ChainOf(e)'[i])
                /\ HasChain(e)' => LastOf(e) > 0
      BY <1>2, ChainsStay
    <2>3. /\ passed' \in [AllFragments -> Nat] /\ burst' \in Seq(AllFragments)
          /\ \/ burst' = burst
             \/ \E d \in Datagrams : burst' \in Seq(FragmentsOf(d)) /\ InOrder(burst')
      BY <1>2, PassedStays
    <2>4. ReassTypeOK'
      BY <2>1, <2>2, <2>3 DEF ReassTypeOK, ChainOf, HasChain
    <2>5. ChainsInOrder' /\ ChainsWait'
      BY <2>2 DEF ChainsInOrder, ChainsWait, InOrder
    <2>6. CameOnce'
      <3>1. "repeat" \notin netFaults => came[f] = 0
        BY <1>2, ReassStep DEF Arrive, MayCome
      <3> QED
        BY <2>1, <3>1 DEF CameOnce
    <2>7. KeptIsHeld'
      BY <1>2, KeptStays
    <2>8. GoesUpSorted'
      <3>1. CASE burst' = burst
        BY <3>1 DEF GoesUpSorted
      <3>2. ASSUME NEW d \in Datagrams, burst' \in Seq(FragmentsOf(d)), InOrder(burst')
            PROVE  GoesUpSorted'
        BY <3>2, ElementOfSeq, FragmentOf DEF GoesUpSorted, InOrder
      <3> QED
        BY <2>3, <3>1, <3>2
    <2>9. DatagramComes'
      BY <1>2, <2>7, DatagramStays
    <2> QED
      BY <2>4, <2>5, <2>6, <2>7, <2>8, <2>9
  <1> QED
    BY <1>1, <1>2 DEF ReassNext

\* The inductive invariant of the reassembly.
THEOREM ReassInvariance == ReassSpec => []ReassIInv
  BY ReassInitHolds, ReassNextHolds, PTL DEF ReassSpec

\* Every variable of the reassembly keeps its type (ip_reass, IPAnalysis).
THEOREM ReassTypeCorrect == ReassSpec => []ReassTypeOK
  <1>1. ReassIInv => ReassTypeOK
    BY DEF ReassIInv
  <1> QED
    BY ReassInvariance, <1>1, PTL

\* What goes up is one datagram in order, and whole where the network allows it
\* (ipv4.c 57-83, 124-134, Function.c 360-371).
THEOREM DatagramsAlwaysCorrect == ReassSpec => []DatagramsCorrect
  <1>1. ReassIInv => DatagramsCorrect
    BY DEF ReassIInv, DatagramsCorrect
  <1> QED
    BY ReassInvariance, <1>1, PTL

\* A packet that IPAnalysis keeps is in a chain until it goes up, once
\* (Function.c 346-385).
THEOREM KeptAlwaysHeld == ReassSpec => []KeptIsHeld
  <1>1. ReassIInv => KeptIsHeld
    BY DEF ReassIInv
  <1> QED
    BY ReassInvariance, <1>1, PTL

------------------------------------------------------------------------------
(* The lists of forbidden ports.                                            *)

\* A list that was set up holds ports below num and free slots, one that was
\* not holds nothing.
SetUpSays ==
    /\ setUp => \A l \in Protocols, i \in Places :
                    /\ slots[l][i] \in PortNumbers \cup {BadPort}
                    /\ i >= num[l] => slots[l][i] = BadPort
    /\ ~setUp => \A l \in Protocols, i \in Places : slots[l][i] = 0

\* A port is being added: its slot is the first one that is free.
Adding ==
    place # NoPlace =>
        /\ code # "none" /\ Adds(code) /\ adding \in left
        /\ place < num[ListOf(code)]
        /\ slots[ListOf(code)][place] = BadPort
        /\ \A j \in Places : j < place => slots[ListOf(code)][j] # BadPort
        /\ \A j \in Places : slots[ListOf(code)][j] # adding

NoRequest == code = "none" => left = {}

\* high is num, but for the time in which num has grown and the port is not there.
Counted ==
    \/ num["udp"] = high
    \/ place # NoPlace /\ ListOf(code) = "udp" /\ place = high /\ num["udp"] = high + 1

\* Either the port was missing at some time, or it is in a slot the loop will
\* reach.
Ahead ==
    look # NoLook =>
        /\ look.port \in PortNumbers
        /\ look.count <= num["udp"]
        /\ look.i <= look.count
        /\ look.port \in Listed("udp") => sawIn
        /\ ~sawOut => \E i \in Places : i >= look.i /\ i < look.count
                                        /\ slots["udp"][i] = look.port

PolicyIInv == PolicyTypeOK /\ SetUpSays /\ SlotsCorrect /\ Adding /\ NoRequest /\ Counted /\ Ahead

------------------------------------------------------------------------------
LEMMA Constants ==
  /\ \A p \in PortNumbers : p \in Nat /\ p # 0 /\ p # BadPort
  /\ MaxForbidPorts \in Nat /\ NoPlace \notin Places
  /\ \A i \in Places : i \in Nat /\ i < MaxForbidPorts
  /\ \A c : ListOf(c) \in Protocols
  /\ 0 # BadPort /\ "none" \notin Codes
  BY PortsArePositive, RoomForPorts
  DEF BadPort, NoPlace, Places, Protocols, ListOf, Codes

\* What Listed holds, element by element.
LEMMA ListedMeans ==
  ASSUME NEW l \in Protocols, NEW p
  PROVE  p \in Listed(l) <=> p # BadPort /\ \E i \in Places : i < num[l] /\ slots[l][i] = p
  BY DEF Listed

Looks == [port : PortNumbers \cup {BadPort}, count : 0 .. MaxForbidPorts,
          i : 0 .. MaxForbidPorts]

LEMMA NoLookIsOne == NoLook \in Looks
<1>1. 0 \in 0 .. MaxForbidPorts
  BY Constants
<1>2. QED
  BY <1>1 DEF NoLook, Looks

LEMMA PolicyInitIInv == PolicyInit => PolicyIInv
<1> SUFFICES ASSUME PolicyInit PROVE PolicyIInv
  OBVIOUS
<1> USE DEF PolicyInit
<1>1. PolicyTypeOK
  <2>1. 0 \in 0 .. MaxForbidPorts /\ setUp \in BOOLEAN
    BY Constants, SetUpsAreBooleans
  <2>2. /\ num \in [Protocols -> 0 .. MaxForbidPorts]
        /\ slots \in [Protocols -> [Places -> PortNumbers \cup {BadPort, 0}]]
    BY <2>1
  <2>3. QED
    BY <2>1, <2>2, NoLookIsOne DEF PolicyTypeOK, Looks
<1>2. SetUpSays /\ SlotsCorrect
  BY Constants DEF SetUpSays, SlotsCorrect, Protocols
<1>3. Adding /\ NoRequest /\ Counted /\ Ahead
  BY DEF Adding, NoRequest, Counted, Ahead, Protocols
<1>4. QED
  BY <1>1, <1>2, <1>3 DEF PolicyIInv

\* The program's steps between two changes of a list.
LEMMA ProgramKeepsIInv ==
  ASSUME PolicyIInv,
         \/ DevOpen \/ DevCleanup \/ DevClose
         \/ \E on \in BOOLEAN : Monitor(on)
         \/ \E c \in Codes, ports \in SUBSET PortNumbers : DevIoControl(c, ports)
         \/ \E p \in PortNumbers : AddNothing(p)
         \/ CompleteRequest
  PROVE  PolicyIInv'
<1>1. UNCHANGED <<setUp, lists, place, adding, reader, high>>
  BY DEF DevOpen, DevCleanup, DevClose, HandleGoes, Monitor, DevIoControl, AddNothing,
         CompleteRequest, lists, reader
<1>2. /\ monitor' \in BOOLEAN /\ handle' \in {"closed", "open", "cleaned"}
      /\ code' \in Codes \cup {"none"} /\ left' \subseteq PortNumbers
  BY DEF PolicyIInv, PolicyTypeOK, DevOpen, DevCleanup, DevClose, HandleGoes, Monitor, DevIoControl,
         AddNothing, CompleteRequest
<1>3. place # NoPlace => code' = code /\ adding \in left'
  BY DEF PolicyIInv, Adding, DevOpen, DevCleanup, DevClose, HandleGoes, Monitor,
         DevIoControl, AddNothing, Turn, CompleteRequest
<1>4. code' = "none" => left' = {}
  BY DEF PolicyIInv, NoRequest, DevOpen, DevCleanup, DevClose, HandleGoes, Monitor,
         DevIoControl, AddNothing, Turn, CompleteRequest, Codes
<1>5. PolicyTypeOK'
  BY <1>1, <1>2 DEF PolicyIInv, PolicyTypeOK, lists, reader
<1>6. SetUpSays' /\ SlotsCorrect'
  BY <1>1 DEF PolicyIInv, SetUpSays, SlotsCorrect, lists
<1>7. Adding' /\ NoRequest' /\ Counted'
  BY <1>1, <1>3, <1>4 DEF PolicyIInv, Adding, NoRequest, Counted, lists, ListOf, Adds
<1>8. Ahead'
  BY <1>1 DEF PolicyIInv, Ahead, lists, reader, Listed
<1>9. QED
  BY <1>5, <1>6, <1>7, <1>8 DEF PolicyIInv

\* The loop of IsForbidUdpPort.
LEMMA LookKeepsIInv ==
  ASSUME PolicyIInv, (\E p \in PortNumbers : LookBegins(p)) \/ LookOn \/ LookEnds
  PROVE  PolicyIInv'
<1>1. UNCHANGED <<setUp, lists, request, high>>
  BY DEF LookBegins, LookOn, LookEnds
<1>n. ASSUME LookOn
      PROVE  look' = [port |-> look.port, count |-> look.count, i |-> look.i + 1]
  BY <1>n DEF PolicyIInv, PolicyTypeOK, LookOn
<1>2. PolicyTypeOK'
  <2>1. look' \in Looks /\ sawIn' \in BOOLEAN /\ sawOut' \in BOOLEAN
    <3>1. CASE LookEnds
      BY <3>1, NoLookIsOne DEF LookEnds
    <3>2. CASE LookOn
      <4>1. /\ look.port \in PortNumbers \cup {BadPort}
            /\ look.count \in 0 .. MaxForbidPorts /\ look.i \in 0 .. MaxForbidPorts
            /\ look.i < look.count /\ sawIn' = sawIn /\ sawOut' = sawOut
            /\ sawIn \in BOOLEAN /\ sawOut \in BOOLEAN
        BY <3>2 DEF PolicyIInv, PolicyTypeOK, LookOn
      <4>2. look.i + 1 \in 0 .. MaxForbidPorts
        BY <4>1, Constants
      <4>3. QED
        BY <3>2, <4>1, <4>2, <1>n DEF Looks
    <3>3. ASSUME NEW p \in PortNumbers, LookBegins(p)
          PROVE  look' \in Looks /\ sawIn' \in BOOLEAN /\ sawOut' \in BOOLEAN
      <4>1. num["udp"] \in 0 .. MaxForbidPorts
        BY DEF PolicyIInv, PolicyTypeOK, Protocols
      <4>2. QED
        BY <3>3, <4>1, Constants DEF LookBegins, Looks
    <3>4. QED
      BY <3>1, <3>2, <3>3
  <2>2. QED
    BY <1>1, <2>1 DEF PolicyIInv, PolicyTypeOK, lists, request, Looks
<1>3. /\ SetUpSays' /\ SlotsCorrect' /\ Adding' /\ NoRequest' /\ Counted'
  BY <1>1 DEF PolicyIInv, SetUpSays, SlotsCorrect, Adding, NoRequest, Counted, lists, request,
         ListOf, Adds
<1>4. Ahead'
  <2>1. CASE LookEnds
    BY <2>1 DEF LookEnds, Ahead
  <2>2. CASE LookOn
    <3>1. /\ look.i \in Nat /\ look.count \in Nat
          /\ look.i < look.count /\ ~Hit /\ look # NoLook
          /\ UNCHANGED <<lists, sawIn, sawOut>>
          /\ look'.port = look.port /\ look'.count = look.count /\ look'.i = look.i + 1
      BY <2>2, <1>n, Constants DEF PolicyIInv, PolicyTypeOK, LookOn
    <3>2. Listed("udp")' = Listed("udp")
      BY <3>1 DEF Listed, lists
    <3>3. \A i \in Places : i >= look.i /\ slots["udp"][i] = look.port => i >= look.i + 1
      BY <3>1, Constants DEF Hit
    <3>4. QED
      BY <3>1, <3>2, <3>3 DEF PolicyIInv, Ahead, lists
  <2>3. ASSUME NEW p \in PortNumbers, LookBegins(p) PROVE Ahead'
    <3>1. /\ look' = [port |-> p, count |-> num["udp"], i |-> 0]
          /\ sawIn' = (p \in Listed("udp")) /\ sawOut' = (p \notin Listed("udp"))
          /\ slots' = slots /\ num' = num
      BY <2>3, <1>1 DEF LookBegins, lists
    <3>2. p \in Listed("udp") => \E i \in Places : i >= 0 /\ i < num["udp"] /\ slots["udp"][i] = p
      BY ListedMeans, Constants DEF Protocols
    <3>3. num["udp"] \in Nat
      BY DEF PolicyIInv, PolicyTypeOK, Protocols
    <3>4. Listed("udp")' = Listed("udp")
      BY <3>1 DEF Listed
    <3>a. look'.count = num["udp"] /\ look'.i = 0 /\ look'.port = p
      BY <3>1
    <3>b. look'.count <= num'["udp"] /\ look'.i <= look'.count
      BY <3>a, <3>1, <3>3
    <3>c. look'.port \in Listed("udp")' => sawIn'
      BY <3>a, <3>1, <3>4
    <3>5. /\ look'.count <= num'["udp"] /\ look'.i <= look'.count
          /\ look'.port \in Listed("udp")' => sawIn'
      BY <3>b, <3>c
    <3>6. ~sawOut' => \E i \in Places : i >= look'.i /\ i < look'.count
                                         /\ slots'["udp"][i] = look'.port
      BY <3>1, <3>2
    <3>7. QED
      BY <3>5, <3>6, <3>a DEF Ahead
  <2>4. QED
    BY <2>1, <2>2, <2>3
<1>5. QED
  BY <1>2, <1>3, <1>4 DEF PolicyIInv

\* The search for a place: num covers it, and nothing is listed by that.
LEMMA AddPlaceKeepsIInv ==
  ASSUME PolicyIInv, NEW p \in PortNumbers, AddPlace(p)
  PROVE  PolicyIInv'
<1> DEFINE l == ListOf(code)
<1>1. /\ l \in Protocols /\ code # "none" /\ place = NoPlace /\ p \in left /\ Adds(code)
      /\ num[l] < MaxForbidPorts /\ p \notin Listed(l)
      /\ UNCHANGED <<setUp, slots, monitor, handle, code, left, reader, high>> /\ adding' = p
  BY Constants DEF PolicyIInv, PolicyTypeOK, AddPlace, Turn, Refuses
<1>2. PICK i \in Places : /\ slots[l][i] = BadPort
                          /\ \A j \in 0 .. (i - 1) : slots[l][j] # BadPort
                          /\ place' = i
                          /\ num' = [num EXCEPT ![l] = IF i >= num[l] THEN num[l] + 1 ELSE num[l]]
  BY DEF AddPlace, IsBad, Counts
<1>3. \A m \in Protocols : num[m] \in Nat /\ num[m] <= MaxForbidPorts
  BY Constants DEF PolicyIInv, PolicyTypeOK
<1>4. setUp /\ num[l] \in Places
  BY <1>1, <1>2, <1>3, Constants DEF PolicyIInv, SetUpSays, Places, PolicyTypeOK
<1>5. i <= num[l]
  BY <1>1, <1>2, <1>3, <1>4, Constants DEF PolicyIInv, SetUpSays
<1>6. /\ num' \in [Protocols -> 0 .. MaxForbidPorts]
      /\ \A m \in Protocols : num'[m] = IF m = l /\ i >= num[l] THEN num[l] + 1 ELSE num[m]
  <2>1. num \in [Protocols -> 0 .. MaxForbidPorts]
    BY DEF PolicyIInv, PolicyTypeOK
  <2>2. (IF i >= num[l] THEN num[l] + 1 ELSE num[l]) \in 0 .. MaxForbidPorts
    BY <1>1, <1>3, Constants
  <2>3. QED
    BY <1>1, <1>2, <2>1, <2>2
<1>7. PolicyTypeOK'
  BY <1>1, <1>2, <1>6 DEF PolicyIInv, PolicyTypeOK, reader
<1>8. SetUpSays' /\ SlotsCorrect'
  BY <1>1, <1>3, <1>6, Constants DEF PolicyIInv, SetUpSays, SlotsCorrect
<1>9. Adding'
  <2>1. place' < num'[l]
    BY <1>1, <1>2, <1>3, <1>5, <1>6, Constants
  <2>2. \A j \in Places : j < place' => slots[l][j] # BadPort
    BY <1>2, Constants
  <2>3. \A j \in Places : slots[l][j] # p
    BY <1>1, <1>3, <1>4, ListedMeans, Constants DEF PolicyIInv, SetUpSays
  <2>4. QED
    BY <1>1, <1>2, <2>1, <2>2, <2>3 DEF Adding, ListOf, Adds
<1>10. NoRequest' /\ Counted'
  <2>1. num["udp"] = high
    BY <1>1 DEF PolicyIInv, Counted
  <2>2. QED
    BY <1>1, <1>2, <1>3, <1>5, <1>6, <2>1, Constants DEF PolicyIInv, NoRequest, Counted, ListOf, Protocols
<1>11. Ahead'
  <2>1. "udp" \in Protocols /\ num["udp"] <= num'["udp"]
    BY <1>1, <1>3, <1>6 DEF Protocols
  <2>2. \A j \in Places : j >= num["udp"] /\ j < num'["udp"] => slots["udp"][j] = BadPort
    BY <1>2, <1>3, <1>5, <1>6, <2>1, Constants
  <2>3. look.port \in Listed("udp")' => look.port \in Listed("udp")
    BY <1>1, <1>3, <2>1, <2>2, Constants DEF Listed
  <2>4. QED
    BY <1>1, <1>3, <1>6, <2>1, <2>3, Constants DEF PolicyIInv, PolicyTypeOK, Ahead, reader
<1>12. QED
  BY <1>7, <1>8, <1>9, <1>10, <1>11 DEF PolicyIInv

\* The port is put into its slot: the list has it from now on.
LEMMA AddPortFacts ==
  ASSUME PolicyIInv, AddPort
  PROVE  /\ place \in Places /\ code # "none" /\ adding \in left /\ adding \in PortNumbers
         /\ Adds(code) /\ place < num[ListOf(code)]
         /\ slots' \in [Protocols -> [Places -> PortNumbers \cup {BadPort, 0}]]
         /\ \A m \in Protocols, j \in Places :
               slots'[m][j] = IF m = ListOf(code) /\ j = place THEN adding ELSE slots[m][j]
         /\ UNCHANGED <<setUp, num, monitor, handle, code, look>>
         /\ left' = left \ {adding} /\ place' = NoPlace /\ adding' = BadPort
         /\ high' = num["udp"]
<1>1. /\ place \in Places /\ code # "none" /\ adding \in left /\ adding \in PortNumbers
      /\ Adds(code) /\ place < num[ListOf(code)] /\ ListOf(code) \in Protocols
  BY Constants DEF PolicyIInv, PolicyTypeOK, Adding, AddPort
<1>2. slots \in [Protocols -> [Places -> PortNumbers \cup {BadPort, 0}]]
  BY DEF PolicyIInv, PolicyTypeOK
<1>3. slots' = [slots EXCEPT ![ListOf(code)][place] = adding]
  BY DEF AddPort
<1>4. QED
  BY <1>1, <1>2, <1>3 DEF AddPort

LEMMA AddPortKeepsIInv ==
  ASSUME PolicyIInv, AddPort
  PROVE  PolicyIInv'
<1>1. \A m \in Protocols : num[m] \in Nat
  BY Constants DEF PolicyIInv, PolicyTypeOK
<1>2. PolicyTypeOK'
  <2>1. sawIn' \in BOOLEAN /\ sawOut' \in BOOLEAN
    BY DEF AddPort, Sees
  <2>2. high' \in 0 .. MaxForbidPorts
    BY AddPortFacts DEF PolicyIInv, PolicyTypeOK, Protocols
  <2>3. QED
    BY <2>1, <2>2, AddPortFacts DEF PolicyIInv, PolicyTypeOK
<1>3. SetUpSays'
  <2>1. setUp
    BY AddPortFacts, Constants DEF PolicyIInv, Adding, SetUpSays
  <2>2. ASSUME NEW m \in Protocols, NEW j \in Places
        PROVE  /\ slots'[m][j] \in PortNumbers \cup {BadPort}
               /\ j >= num[m] => slots'[m][j] = BadPort
    <3>1. /\ slots[m][j] \in PortNumbers \cup {BadPort}
          /\ j >= num[m] => slots[m][j] = BadPort
      BY <2>1 DEF PolicyIInv, SetUpSays
    <3>2. m = ListOf(code) /\ j = place => ~(j >= num[m])
      BY <1>1, AddPortFacts, Constants
    <3>3. QED
      BY <3>1, <3>2, AddPortFacts
  <2>3. QED
    BY <2>1, <2>2, AddPortFacts DEF SetUpSays
<1>4. SlotsCorrect'
  BY <1>1, AddPortFacts, Constants DEF PolicyIInv, Adding, SlotsCorrect
<1>5. Adding' /\ NoRequest' /\ Counted'
  BY AddPortFacts DEF Adding, NoRequest, Counted
<1>6. Ahead'
  <2> SUFFICES ASSUME look # NoLook PROVE Ahead'
    BY AddPortFacts DEF Ahead
  <2>1. /\ look.port \in PortNumbers /\ look.count <= num["udp"] /\ look.i <= look.count
        /\ ~sawOut => \E i \in Places : i >= look.i /\ i < look.count /\ slots["udp"][i] = look.port
    BY DEF PolicyIInv, Ahead
  <2>2. /\ look.port \in Listed("udp")' => sawIn'
        /\ ~sawOut' => ~sawOut
    BY AddPortFacts DEF AddPort, Sees
  <2>3. ASSUME NEW i \in Places, slots["udp"][i] = look.port
        PROVE  slots'["udp"][i] = look.port
    BY <2>1, <2>3, AddPortFacts, Constants DEF PolicyIInv, Adding, Protocols
  <2>4. QED
    BY <2>1, <2>2, <2>3, AddPortFacts DEF Ahead
<1>7. QED
  BY <1>2, <1>3, <1>4, <1>5, <1>6 DEF PolicyIInv

\* A port leaves its slot: the list does not have it from now on.
LEMMA DeletePortFacts ==
  ASSUME PolicyIInv, NEW p \in PortNumbers, DeletePort(p)
  PROVE  /\ place = NoPlace /\ code # "none" /\ ~Adds(code)
         /\ slots' \in [Protocols -> [Places -> PortNumbers \cup {BadPort, 0}]]
         /\ \A m \in Protocols, j \in Places :
               slots'[m][j] = IF m = ListOf(code) /\ Holds(m, j, p) THEN BadPort ELSE slots[m][j]
         /\ UNCHANGED <<setUp, num, monitor, handle, code, place, adding, look, high>>
         /\ left' = left \ {p}
<1>1. /\ place = NoPlace /\ code # "none" /\ ~Adds(code) /\ left' = left \ {p}
      /\ slots' = [slots EXCEPT ![ListOf(code)] = Freed(ListOf(code), p)]
      /\ UNCHANGED <<setUp, num, monitor, handle, code, place, adding, look, high>>
  BY DEF DeletePort, Turn
<1>2. slots \in [Protocols -> [Places -> PortNumbers \cup {BadPort, 0}]]
  BY DEF PolicyIInv, PolicyTypeOK
<1>3. ListOf(code) \in Protocols
  BY Constants
<1>4. Freed(ListOf(code), p) \in [Places -> PortNumbers \cup {BadPort, 0}]
  BY <1>2, <1>3 DEF Freed
<1>5. \A j \in Places : Freed(ListOf(code), p)[j] =
          IF Holds(ListOf(code), j, p) THEN BadPort ELSE slots[ListOf(code)][j]
  BY DEF Freed
<1>6. QED
  BY <1>1, <1>2, <1>3, <1>4, <1>5

LEMMA DeletePortKeepsIInv ==
  ASSUME PolicyIInv, NEW p \in PortNumbers, DeletePort(p)
  PROVE  PolicyIInv'
<1>1. \A m \in Protocols : num[m] \in Nat
  BY Constants DEF PolicyIInv, PolicyTypeOK
<1>2. PolicyTypeOK'
  <2>1. sawIn' \in BOOLEAN /\ sawOut' \in BOOLEAN
    BY DEF DeletePort, Sees
  <2>2. QED
    BY <2>1, DeletePortFacts DEF PolicyIInv, PolicyTypeOK
<1>3. SetUpSays'
  BY <1>1, DeletePortFacts, Constants DEF PolicyIInv, SetUpSays, Holds
<1>4. SlotsCorrect'
  BY <1>1, DeletePortFacts, Constants DEF PolicyIInv, SlotsCorrect
<1>5. Adding' /\ NoRequest' /\ Counted'
  BY DeletePortFacts DEF PolicyIInv, Adding, NoRequest, Counted
<1>6. Ahead'
  <2> SUFFICES ASSUME look # NoLook PROVE Ahead'
    BY DeletePortFacts DEF Ahead
  <2>1. /\ look.port \in PortNumbers /\ look.count <= num["udp"] /\ look.i <= look.count
        /\ ~sawOut => \E i \in Places : i >= look.i /\ i < look.count /\ slots["udp"][i] = look.port
    BY DEF PolicyIInv, Ahead
  <2>2. /\ look.port \in Listed("udp")' => sawIn'
        /\ ~sawOut' => ~sawOut /\ look.port \in Listed("udp")'
    BY DeletePortFacts DEF DeletePort, Sees
  <2>3. look.port \in Listed("udp")' => \E i \in Places : slots'["udp"][i] = look.port
    BY <2>1, Constants, DeletePortFacts DEF Listed
  <2>4. ASSUME NEW i \in Places, slots'["udp"][i] = look.port
        PROVE  \A j \in Places : slots["udp"][j] = look.port => slots'["udp"][j] = look.port
    <3>1. slots["udp"][i] = look.port
      BY <2>1, <2>4, DeletePortFacts, Constants DEF Protocols
    <3>2. \A j \in Places : slots["udp"][j] = look.port => i = j
      BY <2>1, <3>1 DEF PolicyIInv, SlotsCorrect, Protocols
    <3>3. QED
      BY <2>4, <3>2
  <2>5. QED
    BY <2>1, <2>2, <2>3, <2>4, DeletePortFacts DEF Ahead
<1>7. QED
  BY <1>2, <1>3, <1>4, <1>5, <1>6 DEF PolicyIInv

\* The inductive invariant.
THEOREM PolicyInvariance == PolicySpec => []PolicyIInv
<1>1. PolicyIInv /\ UNCHANGED policyVars => PolicyIInv'
  BY DEF PolicyIInv, PolicyTypeOK, SetUpSays, SlotsCorrect, Adding, NoRequest, Counted, Ahead,
         Listed, Adds, ListOf, policyVars, lists, request, reader
<1>2. PolicyIInv /\ PolicyNext => PolicyIInv'
  BY ProgramKeepsIInv, LookKeepsIInv, AddPlaceKeepsIInv, AddPortKeepsIInv, DeletePortKeepsIInv
  DEF PolicyNext
<1>3. QED
  BY <1>1, <1>2, PolicyInitIInv, PTL DEF PolicySpec

\* Type correctness.
THEOREM PolicyTypeCorrect == PolicySpec => []PolicyTypeOK
<1>1. QED
  BY PolicyInvariance, PTL DEF PolicyIInv

\* A port is in one slot at most, below num, whatever was added and deleted.
THEOREM SlotsAlwaysCorrect == PolicySpec => []SlotsCorrect
<1>1. QED
  BY PolicyInvariance, PTL DEF PolicyIInv

\* The walk without a lock answers for some moment of the walk.
THEOREM LookAlwaysTimely == PolicySpec => []LookIsTimely
<1>1. PolicyIInv => LookIsTimely
  <2> SUFFICES ASSUME PolicyIInv, look # NoLook
               PROVE  (Hit => sawIn) /\ (look.i = look.count => sawOut)
    BY DEF LookIsTimely
  <2>1. /\ look.i \in Nat /\ look.count \in Nat /\ look.port \in PortNumbers
        /\ look.count <= num["udp"] /\ num["udp"] \in 0 .. MaxForbidPorts
    BY Constants DEF PolicyIInv, PolicyTypeOK, Ahead, Protocols
  <2>2. ASSUME Hit PROVE sawIn
    <3>1. look.i \in Places /\ look.i < num["udp"] /\ slots["udp"][look.i] = look.port
      BY <2>1, <2>2, Constants DEF Hit, Places
    <3>2. look.port \in Listed("udp")
      BY <2>1, <3>1, Constants DEF Listed
    <3>3. QED
      BY <3>2 DEF PolicyIInv, Ahead
  <2>3. ASSUME look.i = look.count PROVE sawOut
    BY <2>1, <2>3, Constants DEF PolicyIInv, Ahead
  <2>4. QED
    BY <2>2, <2>3
<1>2. QED
  BY <1>1, PolicyInvariance, PTL

------------------------------------------------------------------------------
(* The UDP list implements PortSet.                                         *)

LEMMA WishIs ==
  /\ code = "forbidUdp" => wishOf = "forbid"
  /\ code = "allowUdp" => wishOf = "allow"
  /\ code \notin {"forbidUdp", "allowUdp"} => wishOf = "none"
<1>1. "forbidUdp" # "allowUdp"
  OBVIOUS
<1>2. QED
  BY <1>1, Zenon DEF wishOf

LEMMA WishWillBe ==
  /\ code' = "forbidUdp" => wishOf' = "forbid"
  /\ code' = "allowUdp" => wishOf' = "allow"
  /\ code' \notin {"forbidUdp", "allowUdp"} => wishOf' = "none"
<1>1. "forbidUdp" # "allowUdp"
  OBVIOUS
<1>2. QED
  BY <1>1, Zenon DEF wishOf

\* The members of S are found in the first n places; those hold nothing else, and
\* no member twice.
FoundBelow(S, n, f) == \A x \in S : \E i \in 0 .. (n - 1) : f[i] = x
FilledBelow(S, n, f) == /\ \A i \in 0 .. (n - 1) : f[i] \in S
                        /\ \A i, j \in 0 .. (n - 1) : f[i] = f[j] => i = j

LEMMA PlacesBound ==
  ASSUME NEW S, NEW n \in Nat, NEW f, FoundBelow(S, n, f)
  PROVE  /\ IsFiniteSet(S) /\ Cardinality(S) <= n
         /\ FilledBelow(S, n, f) => Cardinality(S) = n
<1> DEFINE T == 0 .. (n - 1)
           g == [x \in S |-> CHOOSE i \in T : f[i] = x]
<1>1. IsFiniteSet(T) /\ Cardinality(T) = n
  BY FS_Interval
<1>2. g \in [S -> T] /\ \A x \in S : f[g[x]] = x
  BY DEF FoundBelow
<1>3. g \in Injection(S, T)
  BY <1>2 DEF Injection, IsInjective
<1>4. ASSUME FilledBelow(S, n, f) PROVE g \in Surjection(S, T)
  <2>1. \A i \in T : g[f[i]] = i
    BY <1>2, <1>4 DEF FilledBelow
  <2>2. QED
    BY <1>2, <1>4, <2>1 DEF Surjection, FilledBelow
<1> HIDE DEF g, T
<1>5. /\ IsFiniteSet(S) /\ Cardinality(S) <= Cardinality(T)
      /\ Cardinality(S) = Cardinality(T) <=> g \in Surjection(S, T)
  BY <1>1, <1>3, FS_Injection
<1>6. QED
  BY <1>1, <1>4, <1>5 DEF T

LEMMA InitPortSet == PolicyInit => UdpPorts!SetInit
<1> SUFFICES ASSUME PolicyInit PROVE UdpPorts!SetInit
  OBVIOUS
<1>1. Listed("udp") = {}
  BY Constants DEF PolicyInit, Listed, Protocols
<1>2. QED
  BY <1>1, WishIs, SetUpsAreBooleans DEF PolicyInit, UdpPorts!SetInit, portsOf

\* The set is not seen to change while a place is looked for.
LEMMA AddPlaceListsNothing ==
  ASSUME PolicyIInv, NEW p \in PortNumbers, AddPlace(p)
  PROVE  Listed("udp")' = Listed("udp")
<1>1. PolicyIInv'
  BY AddPlaceKeepsIInv
<1>2. slots' = slots /\ \A m \in Protocols : num[m] \in Nat /\ num'[m] \in Nat
  BY <1>1, Constants DEF PolicyIInv, PolicyTypeOK, AddPlace
<1>3. \A j \in Places : j >= num["udp"] => slots["udp"][j] \notin PortNumbers
  BY <1>2, Constants DEF PolicyIInv, SlotsCorrect, Protocols
<1>4. \A j \in Places : j < num["udp"] => j < num'["udp"]
  <2>1. num \in [Protocols -> 0 .. MaxForbidPorts] /\ ListOf(code) \in Protocols
    BY Constants DEF PolicyIInv, PolicyTypeOK
  <2>2. PICK i \in Places : num' = [num EXCEPT ![ListOf(code)] =
                                       IF Counts(ListOf(code), i) THEN @ + 1 ELSE @]
    BY DEF AddPlace
  <2>3. num["udp"] <= num'["udp"]
    BY <1>2, <2>1, <2>2 DEF Protocols
  <2>4. QED
    BY <1>2, <2>3, Constants DEF Protocols
<1>5. \A j \in Places : slots["udp"][j] \in PortNumbers \cup {BadPort}
  <2>1. setUp
    BY Constants DEF AddPlace, IsBad, PolicyIInv, SetUpSays
  <2>2. QED
    BY <2>1 DEF PolicyIInv, SetUpSays, Protocols
<1>6. QED
  BY <1>2, <1>3, <1>4, <1>5, Constants DEF Listed, Protocols

\* A step that leaves the set alone.
LEMMA StutterPortSet ==
  ASSUME Listed("udp")' = Listed("udp"),
         wishOf' = wishOf, portsOf' = portsOf, UNCHANGED <<high, setUp>>
  PROVE  UNCHANGED UdpPorts!setVars
  BY DEF UdpPorts!setVars

\* PortSet counts as this module does.
LEMMA SameCardinality ==
  ASSUME NEW S
  PROVE  UdpPorts!Cardinality(S) = Cardinality(S)
  BY DEF UdpPorts!Cardinality, Cardinality

\* The place found before is filled.
LEMMA AddPortForbids ==
  ASSUME PolicyIInv, AddPort
  PROVE  [UdpPorts!SetNext]_(UdpPorts!setVars)
<1>1. \A m \in Protocols : num[m] \in Nat /\ num[m] <= MaxForbidPorts
  BY Constants DEF PolicyIInv, PolicyTypeOK
<1>2. /\ place \in Places /\ adding \in PortNumbers /\ place < num[ListOf(code)]
      /\ \A j \in Places : slots[ListOf(code)][j] # adding
      /\ \A j \in Places : j < place => slots[ListOf(code)][j] # BadPort
      /\ slots[ListOf(code)][place] = BadPort
  BY AddPortFacts DEF PolicyIInv, Adding, AddPort
<1>3. CASE code # "forbidUdp"
  <2>1. ListOf(code) = "tcp" /\ code \notin {"forbidUdp", "allowUdp"}
    BY <1>3, AddPortFacts DEF ListOf, Adds
  <2>2. Listed("udp")' = Listed("udp")
    BY <2>1, AddPortFacts DEF Listed, Protocols
  <2>3. wishOf' = wishOf /\ portsOf' = portsOf
    BY <2>1, AddPortFacts, WishIs, WishWillBe DEF portsOf
  <2>4. high' = high
    BY <2>1, AddPortFacts DEF PolicyIInv, Counted
  <2>5. QED
    BY <2>2, <2>3, <2>4, AddPortFacts, StutterPortSet
<1>4. CASE code = "forbidUdp"
  <2>1. ListOf(code) = "udp" /\ "udp" \in Protocols
    BY <1>4 DEF ListOf, Protocols
  <2>2. Listed("udp")' = Listed("udp") \cup {adding}
    <3>1. num' = num /\ adding # BadPort
      BY <1>2, AddPortFacts, Constants
    <3>2. \A x : x \in Listed("udp")' <=> x # BadPort /\ \E i \in Places : i < num["udp"] /\ slots'["udp"][i] = x
      BY <3>1 DEF Listed
    <3>3. \A x : x \in Listed("udp") <=> x # BadPort /\ \E i \in Places : i < num["udp"] /\ slots["udp"][i] = x
      BY DEF Listed
    <3>4. \A j \in Places : slots'["udp"][j] = IF j = place THEN adding ELSE slots["udp"][j]
      BY <2>1, AddPortFacts
    <3>5. QED
      BY <1>2, <2>1, <3>1, <3>2, <3>3, <3>4
  <2>3. wishOf = "forbid" /\ wishOf' = "forbid" /\ adding \in portsOf /\ portsOf' = portsOf \ {adding}
    BY <1>4, AddPortFacts, WishIs, WishWillBe DEF portsOf
  <2>4. high' = IF Cardinality(Listed("udp")') > high THEN Cardinality(Listed("udp")') ELSE high
    <3> DEFINE n == num["udp"]
               S == Listed("udp")'
               f == slots'["udp"]
    <3>1. PolicyIInv' /\ n \in Nat /\ num' = num /\ high' = n /\ high \in Nat
      BY <1>1, <2>1, AddPortKeepsIInv, AddPortFacts, Constants DEF PolicyIInv, PolicyTypeOK
    <3>2. n <= MaxForbidPorts /\ \A i \in 0 .. (n - 1) : i \in Places
      BY <1>1, <2>1, <3>1, Constants DEF Places
    <3>3. FoundBelow(S, n, f)
      BY <3>1, Constants DEF Listed, FoundBelow
    <3> HIDE DEF S, f, n
    <3>h. /\ IsFiniteSet(S) /\ Cardinality(S) <= n
          /\ FilledBelow(S, n, f) => Cardinality(S) = n
      BY <3>1, <3>3, PlacesBound
    <3>4. Cardinality(S) <= n /\ Cardinality(S) \in Nat
      BY <3>h, FS_CardinalityType
    <3> USE DEF S, f, n
    <3>5. CASE n = high
      BY <3>1, <3>4, <3>5
    <3>6. CASE place = high /\ n = high + 1
      <4>1. \A i \in 0 .. (n - 1) : slots'["udp"][i] \in Listed("udp")' \ {BadPort}
        <5>1. setUp
          BY <1>2, <2>1, Constants DEF PolicyIInv, SetUpSays
        <5>2. SUFFICES ASSUME NEW i \in 0 .. (n - 1) PROVE slots'["udp"][i] # BadPort
          BY <3>1, <3>2 DEF Listed
        <5>3. i \in Places /\ (i < place \/ i = place)
          BY <1>2, <3>1, <3>2, <3>6, Constants
        <5>4. QED
          BY <1>2, <2>1, <5>3, AddPortFacts, Constants
      <4>2. \A i \in 0 .. (n - 1) : slots'["udp"][i] \in PortNumbers
        <5>1. setUp'
          BY <1>2, <2>1, AddPortFacts, Constants DEF PolicyIInv, SetUpSays
        <5>2. QED
          BY <2>1, <3>1, <3>2, <4>1, <5>1 DEF PolicyIInv, SetUpSays
      <4>3. \A i, j \in 0 .. (n - 1) : slots'["udp"][i] = slots'["udp"][j] => i = j
        BY <2>1, <3>1, <3>2, <4>2 DEF PolicyIInv, SlotsCorrect
      <4>4. Cardinality(Listed("udp")') = n
        BY <3>h, <4>1, <4>3 DEF FilledBelow
      <4>5. QED
        BY <3>1, <3>6, <4>4
    <3>7. QED
      BY <2>1, <3>5, <3>6 DEF PolicyIInv, Counted
  <2>5. UdpPorts!Forbid(adding)
    <3>1. /\ wishOf = "forbid" /\ adding \in portsOf
          /\ UNCHANGED <<setUp, wishOf>>
      BY <2>3, AddPortFacts
    <3>2. QED
      BY <2>2, <2>3, <2>4, <3>1, SameCardinality DEF UdpPorts!Forbid
  <2>6. QED
    BY <1>2, <2>5 DEF UdpPorts!SetNext
<1>5. QED
  BY <1>3, <1>4

\* A port that is not added was in the set, or the list is full or was not set up.
LEMMA AddNothingRefuses ==
  ASSUME PolicyIInv, NEW p \in PortNumbers, AddNothing(p)
  PROVE  [UdpPorts!SetNext]_(UdpPorts!setVars)
<1>1. /\ place = NoPlace /\ p \in left /\ Adds(code) /\ Refuses(ListOf(code), p)
      /\ left' = left \ {p} /\ UNCHANGED <<setUp, num, slots, code, high>>
  BY DEF AddNothing, Turn, lists
<1>2. Listed("udp")' = Listed("udp")
  BY <1>1 DEF Listed
<1>3. CASE code # "forbidUdp"
  <2>1. code \notin {"forbidUdp", "allowUdp"}
    BY <1>1, <1>3 DEF Adds
  <2>2. QED
    BY <1>1, <1>2, <2>1, WishIs, WishWillBe, StutterPortSet DEF portsOf
<1>4. CASE code = "forbidUdp"
  <2>1. /\ wishOf = "forbid" /\ wishOf' = "forbid" /\ p \in portsOf /\ portsOf' = portsOf \ {p}
        /\ ListOf(code) = "udp" /\ "udp" \in Protocols
    BY <1>1, <1>4, WishIs, WishWillBe DEF portsOf, ListOf, Protocols
  <2>2. num["udp"] = high /\ high \in Nat /\ high <= MaxForbidPorts
    BY <1>1, <2>1, Constants DEF PolicyIInv, Counted, PolicyTypeOK
  <2>3. CASE p \in Listed("udp")
    <3> DEFINE S == Listed("udp")
               f == slots["udp"]
    <3>1. FoundBelow(S, high, f)
      BY <2>2, Constants DEF Listed, FoundBelow
    <3> HIDE DEF S, f
    <3>2. IsFiniteSet(S) /\ Cardinality(S) <= high
      BY <2>2, <3>1, PlacesBound
    <3>3. Cardinality(S) \in Nat
      BY <3>2, FS_CardinalityType
    <3>4. S' = S /\ S = S \cup {p} /\ ~(UdpPorts!Cardinality(S) > high)
      BY <1>2, <2>2, <2>3, <3>2, <3>3, SameCardinality DEF S
    <3>5. UdpPorts!Forbid(p)
      BY <1>1, <2>1, <3>4 DEF UdpPorts!Forbid, S
    <3>6. QED
      BY <3>5 DEF UdpPorts!SetNext
  <2>4. CASE p \notin Listed("udp")
    <3>1. ~setUp \/ high = MaxForbidPorts
      <4>1. CASE num["udp"] >= MaxForbidPorts
        BY <2>2, <4>1, Constants
      <4>2. CASE \A i \in Places : slots["udp"][i] # BadPort
        BY <2>1, <2>2, <4>2, Constants DEF PolicyIInv, SetUpSays, Places
      <4>3. QED
        BY <1>1, <2>1, <2>4, <4>1, <4>2 DEF Refuses, IsBad
    <3>2. UdpPorts!Refuse(p)
      BY <1>1, <1>2, <2>1, <3>1 DEF UdpPorts!Refuse
    <3>3. QED
      BY <3>2 DEF UdpPorts!SetNext
  <2>5. QED
    BY <2>3, <2>4
<1>5. QED
  BY <1>3, <1>4

LEMMA DeletePortAllows ==
  ASSUME PolicyIInv, NEW p \in PortNumbers, DeletePort(p)
  PROVE  [UdpPorts!SetNext]_(UdpPorts!setVars)
<1>1. code = "allowUdp" /\ code' = code /\ p \in left
  <2>1. code \in Codes
    BY DeletePortFacts DEF PolicyIInv, PolicyTypeOK
  <2>2. QED
    BY <2>1, DeletePortFacts DEF Codes, Adds, DeletePort, Turn
<1>2. /\ wishOf = "allow" /\ wishOf' = "allow" /\ p \in portsOf /\ portsOf' = portsOf \ {p}
  BY <1>1, DeletePortFacts, WishIs, WishWillBe DEF portsOf
<1>3. Listed("udp")' = Listed("udp") \ {p}
  <2>1. \A j \in Places : slots'["udp"][j] = IF j < num["udp"] /\ slots["udp"][j] = p THEN BadPort
                                            ELSE slots["udp"][j]
    BY <1>1, DeletePortFacts DEF ListOf, Protocols, Holds
  <2>2. num' = num
    BY DeletePortFacts
  <2>3. \A x : x \in Listed("udp")' <=> x # BadPort /\ \E i \in Places : i < num["udp"] /\ slots'["udp"][i] = x
    BY <2>2 DEF Listed
  <2>4. \A x : x \in Listed("udp") <=> x # BadPort /\ \E i \in Places : i < num["udp"] /\ slots["udp"][i] = x
    BY DEF Listed
  <2>5. \A x : x \in Listed("udp")' <=> x \in Listed("udp") /\ x # p
    BY <2>1, <2>3, <2>4
  <2>6. QED
    BY <2>5
<1>4. UdpPorts!Allow(p)
  BY <1>2, <1>3, DeletePortFacts DEF UdpPorts!Allow
<1>5. QED
  BY <1>4 DEF UdpPorts!SetNext

\* What begins and ends a request.
LEMMA RequestAsks ==
  ASSUME PolicyIInv, CompleteRequest \/ \E c \in Codes, ports \in SUBSET PortNumbers : DevIoControl(c, ports)
  PROVE  [UdpPorts!SetNext]_(UdpPorts!setVars)
<1>1. Listed("udp")' = Listed("udp") /\ UNCHANGED <<high, setUp>>
  BY DEF CompleteRequest, DevIoControl, lists, Listed
<1>2. CASE CompleteRequest
  <2>1. left = {} /\ left' = {} /\ code' = "none"
    BY <1>2 DEF CompleteRequest
  <2>2. portsOf = {} /\ portsOf' = {} /\ wishOf' = "none"
    BY <2>1, WishWillBe DEF portsOf
  <2>3. UdpPorts!Answer
    BY <1>1, <2>2 DEF UdpPorts!Answer
  <2>4. QED
    BY <2>3 DEF UdpPorts!SetNext
<1>3. ASSUME NEW c \in Codes, NEW which \in SUBSET PortNumbers, DevIoControl(c, which)
      PROVE  [UdpPorts!SetNext]_(UdpPorts!setVars)
  <2>1. code = "none" /\ code' = c /\ left' = which /\ wishOf = "none"
    BY <1>3, WishIs DEF DevIoControl
  <2>2. CASE c \in {"forbidUdp", "allowUdp"}
    <3>1. wishOf' \in {"forbid", "allow"} /\ portsOf' = which
      BY <2>1, <2>2, WishWillBe DEF portsOf
    <3>2. UdpPorts!Ask(wishOf', which)
      BY <1>1, <2>1, <3>1 DEF UdpPorts!Ask
    <3>3. QED
      BY <3>1, <3>2 DEF UdpPorts!SetNext
  <2>3. CASE c \notin {"forbidUdp", "allowUdp"}
    BY <1>1, <2>1, <2>3, WishWillBe, StutterPortSet DEF portsOf
  <2>4. QED
    BY <2>2, <2>3
<1>4. QED
  BY <1>2, <1>3

\* The other steps do not touch the list or the request.
LEMMA OthersStutter ==
  ASSUME PolicyIInv,
         \/ DevOpen \/ DevCleanup \/ DevClose
         \/ \E on \in BOOLEAN : Monitor(on)
         \/ (\E p \in PortNumbers : LookBegins(p)) \/ LookOn \/ LookEnds
         \/ \E p \in PortNumbers : AddPlace(p)
         \/ UNCHANGED policyVars
  PROVE  UNCHANGED UdpPorts!setVars
<1>1. UNCHANGED <<setUp, slots, code, left, high>>
  BY DEF DevOpen, DevCleanup, DevClose, HandleGoes, Monitor, LookBegins, LookOn, LookEnds,
         AddPlace, lists, request, policyVars
<1>2. Listed("udp")' = Listed("udp")
  <2>1. CASE num' = num
    BY <1>1, <2>1 DEF Listed
  <2>2. CASE \E p \in PortNumbers : AddPlace(p)
    BY <2>2, AddPlaceListsNothing
  <2>3. QED
    BY <2>1, <2>2 DEF DevOpen, DevCleanup, DevClose, HandleGoes, Monitor, LookBegins, LookOn,
         LookEnds, lists, policyVars
<1>3. wishOf' = wishOf /\ portsOf' = portsOf
  BY <1>1, WishIs, WishWillBe DEF portsOf
<1>4. QED
  BY <1>1, <1>2, <1>3, StutterPortSet

\* The list of UDP ports implements the set, for any number of ports and places.
THEOREM ListImplementsSet == PolicySpec => ImplementsPortSet
<1>1. PolicyIInv /\ [PolicyNext]_policyVars => [UdpPorts!SetNext]_(UdpPorts!setVars)
  BY AddNothingRefuses, AddPortForbids, DeletePortAllows, RequestAsks, OthersStutter
  DEF PolicyNext
<1>2. PolicySpec => UdpPorts!SetInit /\ [][UdpPorts!SetNext]_(UdpPorts!setVars)
  BY <1>1, InitPortSet, PolicyInvariance, PTL DEF PolicySpec
<1>3. QED
  BY <1>2 DEF ImplementsPortSet, UdpPorts!SetSpec

------------------------------------------------------------------------------
(* Checksum: sums.                                                          *)

\* A sum, step by step.
Totals(s, f, i, n) == s = [k \in 0 .. n |-> IF k = 0 THEN 0 ELSE s[k - 1] + f[i + (k - 1)]]

LEMMA SumsExist ==
    ASSUME NEW f, NEW i, NEW n \in Nat
    PROVE  \E s : Totals(s, f, i, n)
  <1> DEFINE IsSums(m, s) == Totals(s, f, i, m)
             S == {m \in Nat : \E s : IsSums(m, s)}
  <1> USE DEF Totals
  <1>1. 0 \in S
    <2>1. IsSums(0, [k \in 0 .. 0 |-> 0])
      OBVIOUS
    <2> QED
      BY <2>1
  <1>2. ASSUME NEW m \in S PROVE m + 1 \in S
    <2>1. PICK s : IsSums(m, s)
      OBVIOUS
    <2> DEFINE t == [k \in 0 .. m + 1 |-> IF k = m + 1 THEN s[m] + f[i + ((m + 1) - 1)] ELSE s[k]]
    <2>2. \A k \in 0 .. m + 1 : t[k] = IF k = 0 THEN 0 ELSE t[k - 1] + f[i + (k - 1)]
      <3> TAKE k \in 0 .. m + 1
      <3>1. CASE k = 0
        BY <2>1, <3>1
      <3>2. CASE k # 0 /\ k # m + 1
        <4>1. k \in 0 .. m /\ k - 1 \in 0 .. m /\ k - 1 # m + 1
          BY <3>2
        <4> QED
          BY <2>1, <3>2, <4>1
      <3>3. CASE k = m + 1
        <4>1. k - 1 = m /\ m \in 0 .. m + 1 /\ m # m + 1 /\ k # 0
          BY <3>3
        <4> QED
          BY <3>3, <4>1
      <3> QED
        BY <3>1, <3>2, <3>3
    <2>3. IsSums(m + 1, t)
      <3> HIDE DEF IsSums
      <3>1. t = [k \in 0 .. m + 1 |-> t[k]]
        OBVIOUS
      <3> QED
        BY <2>2, <3>1 DEF IsSums
    <2>4. m + 1 \in Nat /\ \E s1 : IsSums(m + 1, s1)
      <3> HIDE DEF IsSums
      <3> QED
        BY <2>3
    <2> QED
      BY <2>4
  <1> HIDE DEF Totals
  <1>3. S = Nat
    <2> HIDE DEF S
    <2>1. S \subseteq Nat
      BY DEF S
    <2> QED
      BY <1>1, <1>2, <2>1, SetInduction
  <1> QED
    BY <1>3

Sums(f, i, n) == CHOOSE s : Totals(s, f, i, n)

LEMMA SumsAre ==
    ASSUME NEW f, NEW i, NEW n \in Nat
    PROVE  /\ SumOver(f, i, n) = Sums(f, i, n)[n]
           /\ Sums(f, i, n)[0] = 0
           /\ \A k \in 1 .. n : Sums(f, i, n)[k] = Sums(f, i, n)[k - 1] + f[i + (k - 1)]
  <1>1. Sums(f, i, n) =
           [k \in 0 .. n |-> IF k = 0 THEN 0 ELSE Sums(f, i, n)[k - 1] + f[i + (k - 1)]]
    <2>1. Totals(Sums(f, i, n), f, i, n)
      BY SumsExist DEF Sums
    <2> QED
      BY <2>1 DEF Totals
  <1>2. SumOver(f, i, n) = Sums(f, i, n)[n]
    BY DEF SumOver, Sums, Totals
  <1> HIDE DEF Sums
  <1>3. ASSUME NEW k \in 1 .. n PROVE Sums(f, i, n)[k] = Sums(f, i, n)[k - 1] + f[i + (k - 1)]
    <2>1. k \in 0 .. n /\ k # 0
      OBVIOUS
    <2> QED
      BY <1>1, <2>1
  <1> QED
    BY <1>1, <1>2, <1>3

\* The sum of one number more.
LEMMA SumGrows ==
    ASSUME NEW f, NEW i, NEW n \in Nat
    PROVE  SumOver(f, i, 0) = 0 /\ SumOver(f, i, n + 1) = SumOver(f, i, n) + f[i + n]
  <1> DEFINE S == {k \in Nat : k <= n => Sums(f, i, n + 1)[k] = Sums(f, i, n)[k]}
  <1>0. n + 1 \in Nat
    OBVIOUS
  <1>1. 0 \in S
    BY <1>0, SumsAre
  <1>2. ASSUME NEW k \in S PROVE k + 1 \in S
    <2>1. SUFFICES ASSUME k + 1 <= n PROVE Sums(f, i, n + 1)[k + 1] = Sums(f, i, n)[k + 1]
      OBVIOUS
    <2>2. /\ Sums(f, i, n + 1)[k] = Sums(f, i, n)[k]
          /\ k + 1 \in 1 .. n /\ k + 1 \in 1 .. n + 1 /\ (k + 1) - 1 = k
      BY <2>1
    <2>3. /\ Sums(f, i, n)[k + 1] = Sums(f, i, n)[(k + 1) - 1] + f[i + ((k + 1) - 1)]
          /\ Sums(f, i, n + 1)[k + 1] = Sums(f, i, n + 1)[(k + 1) - 1] + f[i + ((k + 1) - 1)]
      BY <1>0, <2>2, SumsAre
    <2> QED
      BY <2>2, <2>3
  <1>3. S = Nat
    <2> HIDE DEF S
    <2>1. S \subseteq Nat
      BY DEF S
    <2> QED
      BY <1>1, <1>2, <2>1, SetInduction
  <1>4. Sums(f, i, n + 1)[n] = Sums(f, i, n)[n]
    BY <1>3
  <1>5. Sums(f, i, n + 1)[n + 1] = Sums(f, i, n + 1)[n] + f[i + ((n + 1) - 1)]
    <2>1. n + 1 \in 1 .. n + 1 /\ (n + 1) - 1 = n
      OBVIOUS
    <2> QED
      BY <1>0, <2>1, SumsAre
  <1> QED
    BY <1>0, <1>4, <1>5, SumsAre

\* Sums of whole numbers are whole numbers, and one continues another.
SumsTo(f, g, m, n) == \A k \in 0 .. (m + n - 1) : f[k] \in Nat /\ (k >= m => g[k] = f[k])

LEMMA SumContinues ==
    ASSUME NEW f, NEW g, NEW m \in Nat, NEW n \in Nat, SumsTo(f, g, m, n)
    PROVE  /\ SumOver(f, 0, m + n) = SumOver(f, 0, m) + SumOver(g, m, n)
           /\ SumOver(f, 0, m) \in Nat /\ SumOver(g, m, n) \in Nat
  <1> DEFINE N == {k \in Nat : k <= m + n => SumOver(f, 0, k) \in Nat}
             S == {k \in Nat : k <= n =>
                     /\ SumOver(g, m, k) \in Nat
                     /\ SumOver(f, 0, m + k) = SumOver(f, 0, m) + SumOver(g, m, k)}
  <1>0. /\ \A k \in 0 .. (m + n - 1) : f[k] \in Nat
        /\ \A k \in m .. (m + n - 1) : g[k] = f[k]
    BY DEF SumsTo
  <1>1. 0 \in N
    BY SumGrows
  <1>2. ASSUME NEW k \in N PROVE k + 1 \in N
    <2>1. SUFFICES ASSUME k + 1 <= m + n PROVE SumOver(f, 0, k + 1) \in Nat
      OBVIOUS
    <2>2. SumOver(f, 0, k) \in Nat /\ k \in 0 .. (m + n - 1) /\ 0 + k = k
      BY <2>1
    <2>3. SumOver(f, 0, k + 1) = SumOver(f, 0, k) + f[0 + k]
      BY SumGrows
    <2> QED
      BY <1>0, <2>2, <2>3
  <1>3. N = Nat
    <2> HIDE DEF N
    <2>1. N \subseteq Nat
      BY DEF N
    <2> QED
      BY <1>1, <1>2, <2>1, SetInduction
  <1>4. \A k \in 0 .. m + n : SumOver(f, 0, k) \in Nat
    BY <1>3
  <1>5. 0 \in S
    <2>1. SumOver(g, m, 0) = 0 /\ m + 0 = m /\ SumOver(f, 0, m) \in Nat
      BY <1>4, SumGrows
    <2> QED
      BY <2>1
  <1>6. ASSUME NEW k \in S PROVE k + 1 \in S
    <2>1. SUFFICES ASSUME k + 1 <= n
                   PROVE  /\ SumOver(g, m, k + 1) \in Nat
                          /\ SumOver(f, 0, m + (k + 1)) = SumOver(f, 0, m) + SumOver(g, m, k + 1)
      OBVIOUS
    <2>2. /\ SumOver(g, m, k) \in Nat /\ k \in Nat /\ m + k \in Nat
          /\ SumOver(f, 0, m + k) = SumOver(f, 0, m) + SumOver(g, m, k)
      BY <2>1
    <2>3. SumOver(g, m, k + 1) = SumOver(g, m, k) + g[m + k]
      BY <2>2, SumGrows
    <2>4. SumOver(f, 0, (m + k) + 1) = SumOver(f, 0, m + k) + f[0 + (m + k)]
      BY <2>2, SumGrows
    <2>5. /\ m + k \in 0 .. (m + n - 1) /\ m + k \in m .. (m + n - 1)
          /\ 0 + (m + k) = m + k /\ (m + k) + 1 = m + (k + 1)
      BY <2>1, <2>2
    <2>6. f[m + k] \in Nat /\ g[m + k] = f[m + k]
      BY <1>0, <2>5
    <2>7. SumOver(f, 0, m) \in Nat
      BY <1>4
    <2> QED
      BY <2>2, <2>3, <2>4, <2>5, <2>6, <2>7
  <1>7. S = Nat
    <2> HIDE DEF S
    <2>1. S \subseteq Nat
      BY DEF S
    <2> QED
      BY <1>5, <1>6, <2>1, SetInduction
  <1>8. n \in S
    BY <1>7
  <1> QED
    BY <1>4, <1>8

\* A sum of numbers below Base; of others that are congruent to a multiple of them.
LEMMA SumBound ==
    ASSUME NEW f, NEW n \in Nat, \A k \in 0 .. (n - 1) : f[k] \in 0 .. (Base - 1)
    PROVE  SumOver(f, 0, n) \in Nat /\ SumOver(f, 0, n) <= n * (Base - 1)
  <1> DEFINE S == {k \in Nat : k <= n => SumOver(f, 0, k) \in Nat
                                         /\ SumOver(f, 0, k) <= k * (Base - 1)}
  <1>0. Base \in Nat
    BY BaseIsSquare
  <1>1. 0 \in S
    BY <1>0, SumGrows
  <1>2. ASSUME NEW k \in S PROVE k + 1 \in S
    <2>1. SUFFICES ASSUME k + 1 <= n
                   PROVE  SumOver(f, 0, k + 1) \in Nat /\ SumOver(f, 0, k + 1) <= (k + 1) * (Base - 1)
      OBVIOUS
    <2>2. /\ SumOver(f, 0, k) \in Nat /\ SumOver(f, 0, k) <= k * (Base - 1) /\ k \in Nat
          /\ k \in 0 .. (n - 1) /\ 0 + k = k
      BY <2>1
    <2>3. SumOver(f, 0, k + 1) = SumOver(f, 0, k) + f[0 + k]
      BY SumGrows
    <2>4. f[k] \in Nat /\ f[k] <= Base - 1
      BY <1>0, <2>2
    <2>5. (k + 1) * (Base - 1) = k * (Base - 1) + (Base - 1)
      BY <1>0, <2>2
    <2> QED
      BY <1>0, <2>2, <2>3, <2>4, <2>5
  <1>3. S = Nat
    <2> HIDE DEF S
    <2>1. S \subseteq Nat
      BY DEF S
    <2> QED
      BY <1>1, <1>2, <2>1, SetInduction
  <1>4. n \in S
    BY <1>3
  <1> QED
    BY <1>4

------------------------------------------------------------------------------
(* Checksum: carries.                                                       *)

\* The numbers that ones' complement arithmetic takes for minus zero.
Zeros == {x \in Nat : x > 0 /\ \E m \in Nat : x = m * (Base - 1)}

LEMMA Bases ==
    /\ Base \in Nat /\ Base >= 4
    /\ HalfBase \in Nat /\ HalfBase >= 2 /\ HalfBase < Base /\ HalfBase * HalfBase = Base
  <1>1. PICK h \in 2 .. Base : h * h = Base
    BY BaseIsSquare
  <1>2. Base \in Nat /\ h >= 2
    BY BaseIsSquare
  <1>3. Base >= 4
    <2>1. h * h >= 2 * h
      BY <1>1, <1>2
    <2> QED
      BY <1>1, <1>2, <2>1
  <1>4. HalfBase \in 1 .. Base /\ HalfBase * HalfBase = Base
    <2>1. \E k \in 1 .. Base : k * k = Base
      <3>1. h \in 1 .. Base
        BY <1>1, <1>2
      <3> QED
        BY <1>1, <3>1
    <2> QED
      BY <2>1, Zenon DEF HalfBase
  <1>5. HalfBase >= 2
    BY <1>2, <1>3, <1>4
  <1>6. HalfBase < Base
    <2>1. HalfBase * HalfBase >= 2 * HalfBase
      BY <1>2, <1>4, <1>5
    <2> QED
      BY <1>2, <1>4, <1>5, <2>1
  <1> QED
    BY <1>2, <1>3, <1>4, <1>5, <1>6

LEMMA Divided ==
    ASSUME NEW c \in Nat, NEW b \in Nat, b > 0
    PROVE  /\ c \div b \in Nat /\ c % b \in 0 .. (b - 1)
           /\ c = (c \div b) * b + (c % b)
  OBVIOUS

\* Adding the carry changes a number by a multiple of Base - 1.
LEMMA FoldOnceIs ==
    ASSUME NEW c \in Nat
    PROVE  /\ FoldOnce(c) \in Nat
           /\ FoldOnce(c) = c - ((c \div Base) * (Base - 1))
           /\ c >= Base => FoldOnce(c) < c
           /\ c > 0 => FoldOnce(c) > 0
  <1>1. Base \in Nat /\ Base >= 4
    BY Bases
  <1>2. PICK q \in Nat : q = c \div Base
    BY <1>1, Divided
  <1>3. PICK r \in 0 .. (Base - 1) : r = c % Base
    BY <1>1, Divided
  <1>4. c = q * Base + r /\ FoldOnce(c) = q + r
    BY <1>1, <1>2, <1>3, Divided DEF FoldOnce
  <1>5. q * Base = q * (Base - 1) + q
    BY <1>1
  <1>6. q * (Base - 1) \in Nat /\ (q >= 1 => q * (Base - 1) >= 1)
    <2>1. Base - 1 \in Nat /\ Base - 1 >= 1
      BY <1>1
    <2> QED
      BY <2>1
  <1>7. c >= Base => q >= 1
    BY <1>1, <1>3, <1>4
  <1>8. c > 0 => q + r > 0
    BY <1>1, <1>3, <1>4
  <1>9. q + r = c - (q * (Base - 1))
    BY <1>1, <1>3, <1>4, <1>5, <1>6
  <1>10. q + r \in Nat /\ (c >= Base => q + r < c)
    BY <1>1, <1>3, <1>6, <1>7, <1>9
  <1> QED
    BY <1>2, <1>4, <1>8, <1>9, <1>10

LEMMA FoldOnceKeepsZeros ==
    ASSUME NEW c \in Zeros
    PROVE  FoldOnce(c) \in Zeros
  <1>1. Base \in Nat /\ Base >= 4
    BY Bases
  <1>2. PICK m \in Nat : c = m * (Base - 1)
    BY DEF Zeros
  <1>3. c \in Nat /\ c > 0
    BY DEF Zeros
  <1>4. PICK q \in Nat : q = c \div Base
    BY <1>1, <1>3, Divided
  <1>5. /\ FoldOnce(c) \in Nat /\ FoldOnce(c) = c - (q * (Base - 1)) /\ FoldOnce(c) > 0
    BY <1>3, <1>4, FoldOnceIs
  <1>6. FoldOnce(c) = (m - q) * (Base - 1)
    BY <1>1, <1>2, <1>5
  <1>7. m - q \in Nat
    <2> SUFFICES ASSUME m < q PROVE FALSE
      OBVIOUS
    <2>1. q * (Base - 1) = m * (Base - 1) + (q - m) * (Base - 1)
      BY <1>1
    <2>2. (q - m) * (Base - 1) >= 0
      BY <1>1
    <2> QED
      BY <1>1, <1>2, <1>3, <1>5, <2>1, <2>2
  <1> QED
    BY <1>5, <1>6, <1>7 DEF Zeros

LEMMA SmallZero ==
    ASSUME NEW c \in Zeros, c < Base
    PROVE  c = Base - 1
  <1>1. Base \in Nat /\ Base >= 4
    BY Bases
  <1>2. PICK m \in Nat : c = m * (Base - 1)
    BY DEF Zeros
  <1>3. m # 0
    BY <1>1, <1>2 DEF Zeros
  <1>4. ~(m >= 2)
    <2> SUFFICES ASSUME m >= 2 PROVE FALSE
      OBVIOUS
    <2>1. m * (Base - 1) = 2 * (Base - 1) + (m - 2) * (Base - 1)
      BY <1>1
    <2>2. (m - 2) * (Base - 1) >= 0
      BY <1>1
    <2> QED
      BY <1>1, <1>2, <2>1, <2>2
  <1> QED
    BY <1>1, <1>2, <1>3, <1>4

\* The loop of checksum ends.
Folds(c) == CHOOSE a : a = [n \in 0 .. c |-> IF n < Base THEN n ELSE a[FoldOnce(n)]]

LEMMA FoldsExist ==
    ASSUME NEW c \in Nat
    PROVE  \E a : a = [n \in 0 .. c |-> IF n < Base THEN n ELSE a[FoldOnce(n)]]
  <1> DEFINE IsFolds(m, a) == a = [n \in 0 .. m |-> IF n < Base THEN n ELSE a[FoldOnce(n)]]
             S == {m \in Nat : \E a : IsFolds(m, a)}
  <1>0. Base \in Nat /\ Base >= 4
    BY Bases
  <1>1. 0 \in S
    <2>1. IsFolds(0, [n \in 0 .. 0 |-> n])
      BY <1>0
    <2> QED
      BY <2>1
  <1>2. ASSUME NEW m \in S PROVE m + 1 \in S
    <2>1. PICK a : IsFolds(m, a)
      OBVIOUS
    <2> DEFINE t == [n \in 0 .. m + 1 |->
                        IF n = m + 1 THEN (IF n < Base THEN n ELSE a[FoldOnce(n)]) ELSE a[n]]
    <2>2. \A n \in 0 .. m + 1 : t[n] = IF n < Base THEN n ELSE t[FoldOnce(n)]
      <3> TAKE n \in 0 .. m + 1
      <3>0. n >= Base => FoldOnce(n) \in 0 .. m /\ FoldOnce(n) # m + 1 /\ FoldOnce(n) \in 0 .. m + 1
        <4>1. n \in Nat /\ (n >= Base => FoldOnce(n) \in Nat /\ FoldOnce(n) < n)
          BY FoldOnceIs
        <4> QED
          BY <1>0, <4>1
      <3>1. CASE n < Base
        <4>1. n \in 0 .. m => a[n] = n
          BY <2>1, <3>1
        <4> QED
          BY <3>1, <4>1
      <3>2. CASE n >= Base
        <4>1. t[FoldOnce(n)] = a[FoldOnce(n)] /\ ~(n < Base)
          BY <1>0, <3>0, <3>2
        <4>2. CASE n = m + 1
          BY <4>1, <4>2
        <4>3. CASE n # m + 1
          <5>1. n \in 0 .. m /\ t[n] = a[n]
            BY <4>3
          <5>2. a[n] = a[FoldOnce(n)]
            BY <2>1, <4>1, <5>1
          <5> QED
            BY <4>1, <5>1, <5>2
        <4> QED
          BY <4>2, <4>3
      <3> QED
        BY <1>0, <3>1, <3>2
    <2>3. IsFolds(m + 1, t)
      <3> HIDE DEF IsFolds
      <3>1. t = [n \in 0 .. m + 1 |-> t[n]]
        OBVIOUS
      <3> QED
        BY <2>2, <3>1 DEF IsFolds
    <2>4. m + 1 \in Nat /\ \E b : IsFolds(m + 1, b)
      <3> HIDE DEF IsFolds
      <3> QED
        BY <2>3
    <2> QED
      BY <2>4
  <1>3. S = Nat
    <2> HIDE DEF S
    <2>1. S \subseteq Nat
      BY DEF S
    <2> QED
      BY <1>1, <1>2, <2>1, SetInduction
  <1> QED
    BY <1>3

\* It turns minus zero into all ones.
LEMMA ZerosFold ==
    ASSUME NEW c \in Zeros
    PROVE  FoldAll(c) = Base - 1
  <1>0. c \in Nat /\ Base \in Nat
    BY Bases DEF Zeros
  <1>1. Folds(c) = [n \in 0 .. c |-> IF n < Base THEN n ELSE Folds(c)[FoldOnce(n)]]
    BY <1>0, FoldsExist DEF Folds
  <1>2. FoldAll(c) = Folds(c)[c]
    BY DEF FoldAll, Folds
  <1> HIDE DEF Folds
  <1>4. \A n \in 0 .. c : Folds(c)[n] = IF n < Base THEN n ELSE Folds(c)[FoldOnce(n)]
    BY <1>1
  <1> DEFINE Wrong == {n \in 0 .. c : n \in Zeros /\ Folds(c)[n] # Base - 1}
  <1>3. Wrong = {}
    <2> SUFFICES ASSUME Wrong # {} PROVE FALSE
      OBVIOUS
    <2>1. PICK n \in Wrong : \A k \in Wrong : n <= k
      <3>1. Wrong \in SUBSET Nat
        OBVIOUS
      <3> HIDE DEF Wrong
      <3> QED
        BY <3>1, LeastElement
    <2>2. n \in 0 .. c /\ n \in Zeros /\ Folds(c)[n] # Base - 1
      OBVIOUS
    <2>3. n >= Base /\ ~(n < Base)
      <3>1. n < Base => Folds(c)[n] = n /\ n = Base - 1
        BY <1>4, <2>2, SmallZero
      <3> QED
        BY <1>0, <2>2, <3>1
    <2>4. Folds(c)[n] = Folds(c)[FoldOnce(n)]
      BY <1>4, <2>2, <2>3
    <2>5. FoldOnce(n) \in Zeros /\ FoldOnce(n) < n /\ FoldOnce(n) \in Nat
      BY <2>2, <2>3, FoldOnceKeepsZeros, FoldOnceIs
    <2>6. FoldOnce(n) \in Wrong
      BY <1>0, <2>2, <2>4, <2>5
    <2> HIDE DEF Wrong
    <2> QED
      BY <1>0, <2>1, <2>2, <2>5, <2>6
  <1> QED
    BY <1>0, <1>2, <1>3

LEMMA ZeroIf ==
    ASSUME NEW x \in Nat, x > 0, NEW k \in Int, x = k * (Base - 1)
    PROVE  x \in Zeros
  <1>1. Base \in Nat /\ Base >= 4
    BY Bases
  <1>2. k >= 0
    <2> SUFFICES ASSUME k < 0 PROVE FALSE
      OBVIOUS
    <2>1. (0 - k) * (Base - 1) >= 0 /\ x = 0 - ((0 - k) * (Base - 1))
      BY <1>1
    <2> QED
      BY <1>1, <2>1
  <1> QED
    BY <1>2 DEF Zeros

\* Two folds are enough: what is written makes the sum minus zero.
LEMMA ComplementIs ==
    ASSUME NEW c \in Nat, c < Base * Base
    PROVE  /\ Complement(FoldTwice(c)) \in 0 .. (Base - 1)
           /\ c + Complement(FoldTwice(c)) \in Zeros
  <1>1. Base \in Nat /\ Base >= 4 /\ Base > 0
    BY Bases
  <1>2. PICK q \in Nat : q = c \div Base
    BY <1>1, Divided
  <1>3. PICK r \in 0 .. (Base - 1) : r = c % Base
    BY <1>1, Divided
  <1>4. c = q * Base + r
    BY <1>1, <1>2, <1>3, Divided
  <1>5. q < Base
    <2> SUFFICES ASSUME q >= Base PROVE FALSE
      BY <1>1
    <2>1. q * Base = Base * Base + (q - Base) * Base /\ (q - Base) * Base >= 0
      BY <1>1
    <2> QED
      BY <1>1, <1>3, <1>4, <2>1
  <1>6. PICK u \in Nat : u = FoldOnce(c)
    BY FoldOnceIs
  <1>7. u = q + r /\ u = c - (q * (Base - 1)) /\ u <= 2 * Base - 2
    BY <1>1, <1>2, <1>3, <1>5, <1>6, FoldOnceIs DEF FoldOnce
  <1>8. CASE u < Base
    <2>1. u \div Base = 0 /\ u % Base = u /\ u + 0 = u
      BY <1>1, <1>8
    <2>2. Complement(FoldTwice(c)) = Base - 1 - u
      BY <1>6, <2>1 DEF Complement, FoldTwice
    <2>3. Complement(FoldTwice(c)) \in 0 .. (Base - 1)
      BY <1>1, <1>8, <2>2
    <2>4. c + Complement(FoldTwice(c)) = (q + 1) * (Base - 1)
      <3>1. (q + 1) * (Base - 1) = q * (Base - 1) + (Base - 1)
        BY <1>1
      <3> QED
        BY <1>1, <1>7, <2>2, <3>1
    <2>5. c + Complement(FoldTwice(c)) > 0
      <3>1. (q + 1) * (Base - 1) = q * (Base - 1) + (Base - 1) /\ q * (Base - 1) >= 0
        BY <1>1
      <3> QED
        BY <1>1, <2>4, <3>1
    <2> QED
      BY <2>3, <2>4, <2>5, ZeroIf
  <1>9. CASE u >= Base
    <2>1. u \div Base = 1
      BY <1>1, <1>7, <1>9
    <2>2. (u + 1) % Base = u + 1 - Base
      BY <1>1, <1>7, <1>9
    <2>3. Complement(FoldTwice(c)) = 2 * (Base - 1) - u
      BY <1>1, <1>6, <2>1, <2>2 DEF Complement, FoldTwice
    <2>4. Complement(FoldTwice(c)) \in 0 .. (Base - 1)
      BY <1>1, <1>7, <1>9, <2>3
    <2>5. c + Complement(FoldTwice(c)) = (q + 2) * (Base - 1)
      <3>1. (q + 2) * (Base - 1) = q * (Base - 1) + 2 * (Base - 1)
        BY <1>1
      <3> QED
        BY <1>1, <1>7, <2>3, <3>1
    <2>6. c + Complement(FoldTwice(c)) > 0
      <3>1. (q + 2) * (Base - 1) = q * (Base - 1) + 2 * (Base - 1) /\ q * (Base - 1) >= 0
        BY <1>1
      <3> QED
        BY <1>1, <2>5, <3>1
    <2> QED
      BY <2>4, <2>5, <2>6, ZeroIf
  <1> QED
    BY <1>1, <1>8, <1>9

------------------------------------------------------------------------------
(* Checksum: the other byte order.                                          *)

\* Swapping the bytes of a word multiplies it by HalfBase, but for a multiple of
\* Base - 1.
LEMMA SwapIs ==
    ASSUME NEW w \in 0 .. (Base - 1)
    PROVE  \E q \in Nat : /\ BigLittleSwap16(w) = (w * HalfBase) - (q * (Base - 1))
                          /\ BigLittleSwap16(w) \in Nat
                          /\ w > 0 => BigLittleSwap16(w) > 0
  <1>1. /\ Base \in Nat /\ Base >= 4 /\ HalfBase \in Nat /\ HalfBase > 0 /\ HalfBase >= 2
        /\ HalfBase * HalfBase = Base /\ w \in Nat
    BY Bases
  <1>2. PICK q \in Nat : q = w \div HalfBase
    BY <1>1, Divided
  <1>3. PICK r \in 0 .. (HalfBase - 1) : r = w % HalfBase
    BY <1>1, Divided
  <1>4. w = q * HalfBase + r
    BY <1>1, <1>2, <1>3, Divided
  <1>5. BigLittleSwap16(w) = r * HalfBase + q
    BY <1>2, <1>3 DEF BigLittleSwap16
  <1>6. w * HalfBase = (q * Base) + (r * HalfBase)
    <2>1. w * HalfBase = (q * (HalfBase * HalfBase)) + (r * HalfBase)
      BY <1>1, <1>4
    <2> QED
      BY <1>1, <2>1
  <1>7. BigLittleSwap16(w) = (w * HalfBase) - (q * (Base - 1))
    BY <1>1, <1>5, <1>6
  <1>8. r * HalfBase \in Nat /\ (r > 0 => r * HalfBase > 0)
    BY <1>1
  <1>9. w > 0 => q > 0 \/ r > 0
    BY <1>1, <1>4
  <1> QED
    BY <1>1, <1>5, <1>7, <1>8, <1>9

\* So it does to a sum.
LEMMA SwappedSum ==
    ASSUME NEW f, NEW g, NEW n \in Nat,
           \A k \in 0 .. (n - 1) : f[k] \in 0 .. (Base - 1) /\ g[k] = BigLittleSwap16(f[k])
    PROVE  \E q \in Nat :
              /\ SumOver(f, 0, n) \in Nat /\ SumOver(g, 0, n) \in Nat
              /\ SumOver(g, 0, n) = (SumOver(f, 0, n) * HalfBase) - (q * (Base - 1))
              /\ SumOver(f, 0, n) > 0 => SumOver(g, 0, n) > 0
  <1> DEFINE Swaps(k) ==
                \E q \in Nat :
                   /\ SumOver(f, 0, k) \in Nat /\ SumOver(g, 0, k) \in Nat
                   /\ SumOver(g, 0, k) = (SumOver(f, 0, k) * HalfBase) - (q * (Base - 1))
                   /\ SumOver(f, 0, k) > 0 => SumOver(g, 0, k) > 0
             S == {k \in Nat : k <= n => Swaps(k)}
  <1>1. Base \in Nat /\ Base >= 4 /\ HalfBase \in Nat
    BY Bases
  <1>2. 0 \in S
    <2>1. SumOver(f, 0, 0) = 0 /\ SumOver(g, 0, 0) = 0
      BY SumGrows
    <2>2. 0 = (0 * HalfBase) - (0 * (Base - 1))
      BY <1>1
    <2> QED
      BY <2>1, <2>2
  <1>3. ASSUME NEW k \in S PROVE k + 1 \in S
    <2>1. SUFFICES ASSUME k + 1 <= n PROVE Swaps(k + 1)
      OBVIOUS
    <2>2. k \in Nat /\ k \in 0 .. (n - 1) /\ 0 + k = k
      BY <2>1
    <2>3. PICK q \in Nat :
             /\ SumOver(f, 0, k) \in Nat /\ SumOver(g, 0, k) \in Nat
             /\ SumOver(g, 0, k) = (SumOver(f, 0, k) * HalfBase) - (q * (Base - 1))
             /\ SumOver(f, 0, k) > 0 => SumOver(g, 0, k) > 0
      BY <2>1
    <2>4. f[k] \in 0 .. (Base - 1) /\ g[k] = BigLittleSwap16(f[k])
      BY <2>2
    <2>5. PICK p \in Nat : /\ g[k] = (f[k] * HalfBase) - (p * (Base - 1))
                           /\ g[k] \in Nat /\ (f[k] > 0 => g[k] > 0)
      BY <2>4, SwapIs
    <2>6. /\ SumOver(f, 0, k + 1) = SumOver(f, 0, k) + f[k]
          /\ SumOver(g, 0, k + 1) = SumOver(g, 0, k) + g[k]
      BY <2>2, SumGrows
    <2>7. f[k] \in Nat /\ q + p \in Nat
      BY <1>1, <2>4
    <2> DEFINE a == SumOver(f, 0, k)
               b == SumOver(g, 0, k)
    <2>8. (b + g[k]) = ((a + f[k]) * HalfBase) - ((q + p) * (Base - 1))
      <3>1. b = (a * HalfBase) - (q * (Base - 1)) /\ a \in Nat /\ b \in Nat
        BY <2>3
      <3> HIDE DEF a, b
      <3>2. (a + f[k]) * HalfBase = a * HalfBase + f[k] * HalfBase
        BY <1>1, <2>7, <3>1
      <3>3. (q + p) * (Base - 1) = q * (Base - 1) + p * (Base - 1)
        BY <1>1
      <3> QED
        BY <1>1, <2>5, <2>7, <3>1, <3>2, <3>3
    <2>9. a + f[k] > 0 => b + g[k] > 0
      BY <2>3, <2>5, <2>7
    <2> QED
      BY <2>3, <2>5, <2>6, <2>7, <2>8, <2>9
  <1>4. S = Nat
    <2> HIDE DEF S
    <2>1. S \subseteq Nat
      BY DEF S
    <2> QED
      BY <1>2, <1>3, <2>1, SetInduction
  <1>5. Swaps(n)
    BY <1>4
  <1> QED
    BY <1>5

\* What is minus zero for one byte order is so for the other.
LEMMA SwappedZeros ==
    ASSUME NEW f, NEW g, NEW n \in Nat, NEW a \in 0 .. (Base - 1),
           \A k \in 0 .. (n - 1) : f[k] \in 0 .. (Base - 1) /\ g[k] = BigLittleSwap16(f[k]),
           SumOver(f, 0, n) + a \in Zeros
    PROVE  SumOver(g, 0, n) + BigLittleSwap16(a) \in Zeros
  <1>1. Base \in Nat /\ Base >= 4 /\ HalfBase \in Nat /\ a \in Nat
    BY Bases
  <1>2. PICK q \in Nat :
           /\ SumOver(f, 0, n) \in Nat /\ SumOver(g, 0, n) \in Nat
           /\ SumOver(g, 0, n) = (SumOver(f, 0, n) * HalfBase) - (q * (Base - 1))
           /\ SumOver(f, 0, n) > 0 => SumOver(g, 0, n) > 0
    BY SwappedSum
  <1>3. PICK p \in Nat : /\ BigLittleSwap16(a) = (a * HalfBase) - (p * (Base - 1))
                         /\ BigLittleSwap16(a) \in Nat /\ (a > 0 => BigLittleSwap16(a) > 0)
    BY SwapIs
  <1>4. PICK m \in Nat : SumOver(f, 0, n) + a = m * (Base - 1)
    BY DEF Zeros
  <1>5. SumOver(f, 0, n) + a > 0
    BY DEF Zeros
  <1> DEFINE s == SumOver(f, 0, n)
             t == SumOver(g, 0, n)
             z == BigLittleSwap16(a)
  <1>6. /\ s \in Nat /\ t \in Nat /\ z \in Nat /\ t + z > 0
        /\ t = (s * HalfBase) - (q * (Base - 1))
        /\ z = (a * HalfBase) - (p * (Base - 1)) /\ s + a = m * (Base - 1)
    BY <1>1, <1>2, <1>3, <1>4, <1>5
  <1> HIDE DEF s, t, z
  <1>7. t + z = ((m * HalfBase) - (q + p)) * (Base - 1)
    <2>1. (s + a) * HalfBase = (s * HalfBase) + (a * HalfBase)
      BY <1>1, <1>6
    <2>2. (m * (Base - 1)) * HalfBase = (m * HalfBase) * (Base - 1)
      BY <1>1
    <2>3. ((m * HalfBase) - (q + p)) * (Base - 1)
             = ((m * HalfBase) * (Base - 1)) - ((q * (Base - 1)) + (p * (Base - 1)))
      BY <1>1
    <2> QED
      BY <1>1, <1>6, <2>1, <2>2, <2>3
  <1>8. (m * HalfBase) - (q + p) \in Int /\ t + z \in Nat
    BY <1>1, <1>6
  <1>9. t + z \in Zeros
    BY <1>6, <1>7, <1>8, ZeroIf
  <1> QED
    BY <1>9 DEF t, z

------------------------------------------------------------------------------
(* Checksum: the three loops.                                               *)

\* The words of a segment, and the sum of the first n.
Words == [i \in 0 .. (Base - 1) |-> Word(i)]
Total(n) == SumOver(Words, 0, n)

\* What is in cksum is the sum of the words that were passed; dlen says how many
\* bytes are left.
SumProgress ==
    /\ added = 0 => dlen = segmentLength /\ cksum = 0 /\ answer = -1
    /\ added > 0 =>
          \/ dlen = segmentLength - 2 * (added - PseudoWords) /\ cksum = Total(added)
          \/ /\ dlen = 0 /\ segmentLength % 2 = 1 /\ added = PseudoWords + (segmentLength \div 2)
             /\ cksum = Total(added) + LastByte(added)
    /\ answer # -1 => dlen = 0 /\ added > 0 /\ answer = Complement(FoldTwice(cksum))

SumIInv == SumTypeOK /\ SumProgress

\* The words of a segment fit.
LEMMA SegmentFits ==
    ASSUME SumTypeOK
    PROVE  /\ segmentLength \in Nat /\ segmentLength >= 20 /\ Base \in Nat /\ Base >= 17
           /\ segmentLength \div 2 \in Nat /\ segmentLength % 2 \in {0, 1}
           /\ segmentLength = 2 * (segmentLength \div 2) + (segmentLength % 2)
           /\ ReceivedWords = PseudoWords + (segmentLength \div 2) + (segmentLength % 2)
           /\ ReceivedWords \in Nat /\ ReceivedWords < Base
           /\ \A i \in 0 .. (Base - 1) : Words[i] = Word(i) /\ Word(i) \in 0 .. (Base - 1)
           /\ \A i \in 0 .. (Base - 1) : LastByte(i) \in 0 .. (Base - 1)
  <1>1. /\ segmentLength \in Nat /\ segmentLength >= 20
        /\ 6 + ((segmentLength + 1) \div 2) < Base
    BY SegmentsHaveHeaders, WordsFit DEF SumTypeOK
  <1>2. Base \in Nat /\ HalfBase \in Nat /\ HalfBase > 0 /\ HalfBase < Base
    BY Bases
  <1>3. /\ segmentLength \div 2 \in Nat /\ segmentLength % 2 \in {0, 1}
        /\ segmentLength = 2 * (segmentLength \div 2) + (segmentLength % 2)
        /\ (segmentLength + 1) \div 2 = (segmentLength \div 2) + (segmentLength % 2)
    BY <1>1
  <1>4. /\ Base >= 17
        /\ ReceivedWords = PseudoWords + (segmentLength \div 2) + (segmentLength % 2)
        /\ ReceivedWords \in Nat /\ ReceivedWords < Base
    BY <1>1, <1>2, <1>3 DEF ReceivedWords, PseudoWords
  <1>5. \A i \in 0 .. (Base - 1) : Words[i] = Word(i) /\ Word(i) \in 0 .. (Base - 1)
    BY WordsAreWords DEF SumTypeOK, Words, Word
  <1>6. ASSUME NEW i \in 0 .. (Base - 1) PROVE LastByte(i) \in 0 .. (Base - 1)
    <2>1. Word(i) \in Nat
      BY <1>2, <1>5
    <2>2. Word(i) % HalfBase \in 0 .. (HalfBase - 1)
      BY <1>2, <2>1, Divided
    <2> QED
      BY <1>2, <2>2 DEF LastByte
  <1> QED
    BY <1>1, <1>2, <1>3, <1>4, <1>5, <1>6

\* Adding n words goes on with the sum, which stays within 32 bits.
LEMMA WordsAdded ==
    ASSUME SumTypeOK, NEW m \in Nat, NEW n \in Nat, m + n <= ReceivedWords
    PROVE  /\ Total(m) + WordSum(m, n) = Total(m + n) /\ Total(0) = 0
           /\ Total(m + n) \in Nat /\ Total(m + n) <= (m + n) * (Base - 1)
  <1> DEFINE g == [k \in m .. (m + n - 1) |-> Word(k)]
  <1>1. m + n \in Nat /\ m + n <= Base /\ Base \in Nat
    BY SegmentFits
  <1>2. /\ \A k \in 0 .. (m + n - 1) : Words[k] \in 0 .. (Base - 1)
        /\ \A k \in 0 .. (m + n - 1) : Words[k] \in Nat
        /\ \A k \in m .. (m + n - 1) : g[k] = Words[k]
    BY <1>1, SegmentFits
  <1> HIDE DEF g
  <1>3. SumOver(Words, 0, m + n) = SumOver(Words, 0, m) + SumOver(g, m, n)
    <2>1. SumsTo(Words, g, m, n)
      BY <1>2 DEF SumsTo
    <2> QED
      BY <2>1, SumContinues
  <1>4. SumOver(Words, 0, m + n) \in Nat /\ SumOver(Words, 0, m + n) <= (m + n) * (Base - 1)
    BY <1>1, <1>2, SumBound
  <1>5. SumOver(Words, 0, 0) = 0
    BY SumGrows
  <1> QED
    BY <1>3, <1>4, <1>5 DEF Total, WordSum, g

LEMMA SumStays ==
    ASSUME UNCHANGED filling, NEW n
    PROVE  Total(n)' = Total(n) /\ LastByte(n)' = LastByte(n)
  <1>1. Words' = Words
    BY DEF Words, Word
  <1> QED
    BY <1>1 DEF Total, LastByte, Word

LEMMA Below32Bits ==
    ASSUME SumTypeOK, NEW n \in Nat, n < Base, NEW s \in Nat, s <= n * (Base - 1)
    PROVE  s \in 0 .. Base * Base - 1
  <1>1. Base \in Nat /\ Base >= 17
    BY SegmentFits
  <1>2. Base * (Base - 1) = n * (Base - 1) + (Base - n) * (Base - 1)
        /\ (Base - n) * (Base - 1) >= 0 /\ Base * (Base - 1) = Base * Base - Base
    BY <1>1
  <1> QED
    BY <1>1, <1>2

LEMMA SumInitHolds == SumInit => SumIInv
  <1> SUFFICES ASSUME SumInit PROVE SumIInv
    OBVIOUS
  <1>1. Base \in Nat /\ Base >= 4 /\ Base * Base >= 1
    BY Bases
  <1>2. segmentLength \in Nat
    BY SegmentsHaveHeaders DEF SumInit
  <1> QED
    BY <1>1, <1>2 DEF SumInit, SumIInv, SumTypeOK, SumProgress

LEMMA SumNextHolds == SumIInv /\ [SumNext]_sumVars => SumIInv'
  <1> SUFFICES ASSUME SumIInv, [SumNext]_sumVars PROVE SumIInv'
    OBVIOUS
  <1> USE DEF SumIInv
  <1>1. /\ segmentLength \in Nat /\ segmentLength >= 20 /\ Base \in Nat /\ Base >= 17
        /\ segmentLength \div 2 \in Nat /\ segmentLength % 2 \in {0, 1}
        /\ segmentLength = 2 * (segmentLength \div 2) + (segmentLength % 2)
        /\ ReceivedWords = PseudoWords + (segmentLength \div 2) + (segmentLength % 2)
        /\ ReceivedWords \in Nat /\ ReceivedWords < Base
        /\ \A i \in 0 .. (Base - 1) : LastByte(i) \in 0 .. (Base - 1)
    BY SegmentFits
  <1>2. /\ filling \in Fillings /\ segmentLength \in SegmentLengths /\ added \in Nat
        /\ dlen \in 0 .. segmentLength /\ cksum \in 0 .. Base * Base - 1
        /\ answer \in -1 .. Base - 1
    BY DEF SumTypeOK
  <1>3. CASE UNCHANGED sumVars
    <2>1. Total(added)' = Total(added) /\ LastByte(added)' = LastByte(added)
      BY <1>3, SumStays DEF sumVars
    <2> QED
      BY <1>3, <2>1 DEF sumVars, SumTypeOK, SumProgress
  <1>4. CASE AddHeaders
    <2>1. /\ cksum = 0 /\ dlen = segmentLength /\ answer = -1 /\ added = 0
          /\ cksum' = cksum + WordSum(0, 16) /\ added' = 16 /\ dlen' = dlen - 20
          /\ UNCHANGED <<filling, segmentLength, answer>>
      BY <1>4 DEF AddHeaders, AddWords, SumProgress, PseudoWords, HeaderWords
    <2>2. 0 + 16 = 16 /\ 16 <= ReceivedWords
      BY <1>1 DEF PseudoWords
    <2>3. /\ Total(0) + WordSum(0, 16) = Total(16) /\ Total(0) = 0
          /\ Total(16) \in Nat /\ Total(16) <= 16 * (Base - 1)
      BY <2>2, WordsAdded
    <2>4. cksum' = Total(16) /\ Total(16)' = Total(16)
      <3>1. Total(16)' = Total(16)
        BY <2>1, SumStays
      <3>2. 0 + WordSum(0, 16) = Total(16)
        BY <2>3
      <3> QED
        BY <2>1, <3>1, <3>2
    <2>5. cksum' \in 0 .. Base * Base - 1
      BY <1>1, <2>3, <2>4, Below32Bits
    <2>6. SumTypeOK'
      BY <1>1, <1>2, <2>1, <2>5 DEF SumTypeOK
    <2>7. dlen' = segmentLength - 2 * (16 - PseudoWords)
      BY <1>1, <2>1 DEF PseudoWords
    <2>8. SumProgress'
      BY <2>1, <2>4, <2>7 DEF SumProgress
    <2> QED
      BY <2>6, <2>8
  <1>5. CASE AddBlock
    <2>1. PICK n \in Nat : n = BlockWords /\ n > 0 /\ 2 * n <= dlen
      BY <1>2, <1>5, <1>1 DEF AddBlock, BlockWords
    <2>2. /\ cksum' = cksum + WordSum(added, n) /\ added' = added + n /\ dlen' = dlen - 2 * n
          /\ added > 0 /\ UNCHANGED <<filling, segmentLength, answer>>
      BY <1>5, <2>1 DEF AddBlock, AddWords
    <2>3. dlen = segmentLength - 2 * (added - PseudoWords) /\ cksum = Total(added) /\ answer = -1
      BY <1>2, <1>1, <2>1, <2>2 DEF SumProgress
    <2>4. added + n <= ReceivedWords
      BY <1>1, <1>2, <2>1, <2>3 DEF PseudoWords
    <2>5. /\ Total(added) + WordSum(added, n) = Total(added + n)
          /\ Total(added + n) \in Nat /\ Total(added + n) <= (added + n) * (Base - 1)
      BY <1>2, <2>4, WordsAdded
    <2>6. cksum' = Total(added') /\ added' \in Nat
      <3>1. cksum' = Total(added + n)
        BY <2>2, <2>3, <2>5
      <3> QED
        BY <1>2, <2>2, <3>1
    <2>7. cksum' \in 0 .. Base * Base - 1
      <3>1. added + n < Base /\ added + n \in Nat
        BY <1>1, <1>2, <2>4
      <3>2. Total(added + n) \in 0 .. Base * Base - 1
        BY <2>5, <3>1, Below32Bits
      <3> QED
        BY <2>2, <2>3, <2>5, <3>2
    <2>8. dlen' = segmentLength - 2 * (added' - PseudoWords) /\ dlen' \in 0 .. segmentLength
          /\ added' > 0
      BY <1>1, <1>2, <2>1, <2>2, <2>3 DEF PseudoWords
    <2>9. SumTypeOK'
      BY <1>1, <1>2, <2>2, <2>6, <2>7, <2>8 DEF SumTypeOK
    <2>10. SumProgress'
      <3>1. cksum' = Total(added)'
        <4>1. Total(added)' = Total(added')
          BY <2>2 DEF Total, Words, Word
        <4> QED
          BY <2>6, <4>1
      <3> QED
        BY <2>2, <2>3, <2>8, <3>1 DEF SumProgress
    <2> QED
      BY <2>9, <2>10
  <1>6. CASE AddLastByte
    <2>1. /\ added > 0 /\ dlen = 1 /\ cksum' = cksum + LastByte(added) /\ dlen' = 0
          /\ UNCHANGED <<filling, segmentLength, added, answer>>
      BY <1>6 DEF AddLastByte
    <2>2. /\ dlen = segmentLength - 2 * (added - PseudoWords) /\ cksum = Total(added)
          /\ answer = -1
      BY <2>1 DEF SumProgress
    <2>3. segmentLength % 2 = 1 /\ added = PseudoWords + (segmentLength \div 2)
          /\ added + 1 = ReceivedWords
      BY <1>1, <1>2, <2>1, <2>2 DEF PseudoWords
    <2>4. Total(added)' = Total(added) /\ LastByte(added)' = LastByte(added)
      <3>1. \A k : Total(k)' = Total(k) /\ LastByte(k)' = LastByte(k)
        BY <2>1, SumStays
      <3>2. Total(added)' = Total(added) /\ LastByte(added)' = LastByte(added)
        BY <2>1 DEF Total, Words, Word, LastByte
      <3> QED
        BY <3>2
    <2>5. cksum' \in 0 .. Base * Base - 1
      <3>1. Total(added + 0) \in Nat /\ Total(added + 0) <= (added + 0) * (Base - 1)
            /\ added + 0 = added
        <4>1. 0 \in Nat /\ added + 0 = added /\ added + 0 <= ReceivedWords
          BY <1>1, <1>2, <2>3
        <4>2. added \in Nat /\ SumTypeOK
          BY <1>2
        <4> QED
          BY <4>1, <4>2, WordsAdded
      <3>2. LastByte(added) \in 0 .. (Base - 1)
        BY <1>1, <1>2, <2>3
      <3>3. (added + 1) * (Base - 1) = added * (Base - 1) + (Base - 1)
        BY <1>1, <1>2
      <3>4. cksum' \in Nat /\ cksum' <= (added + 1) * (Base - 1)
        BY <1>1, <1>2, <2>1, <2>2, <3>1, <3>2, <3>3
      <3>5. added + 1 \in Nat /\ added + 1 < Base
        BY <1>1, <1>2, <2>3
      <3> QED
        BY <3>4, <3>5, Below32Bits
    <2>6. SumTypeOK'
      BY <1>1, <1>2, <2>1, <2>5 DEF SumTypeOK
    <2>7. SumProgress'
      BY <2>1, <2>2, <2>3, <2>4 DEF SumProgress
    <2> QED
      BY <2>6, <2>7
  <1>7. CASE GiveSum
    <2>1. /\ added > 0 /\ answer' = Complement(FoldTwice(cksum))
          /\ UNCHANGED <<filling, segmentLength, added, dlen, cksum>>
      BY <1>7 DEF GiveSum
    <2>2. dlen = 0
      BY <1>1, <1>2, <1>7 DEF GiveSum, BlockWords
    <2>3. answer' \in 0 .. (Base - 1)
      <3>1. cksum \in Nat /\ cksum < Base * Base
        BY <1>1, <1>2
      <3> QED
        BY <2>1, <3>1, ComplementIs
    <2>4. Total(added)' = Total(added) /\ LastByte(added)' = LastByte(added)
      BY <2>1 DEF Total, Words, Word, LastByte
    <2>5. SumTypeOK'
      BY <1>1, <1>2, <2>1, <2>3 DEF SumTypeOK
    <2>6. SumProgress'
      BY <1>2, <2>1, <2>2, <2>4 DEF SumProgress
    <2> QED
      BY <2>5, <2>6
  <1> QED
    BY <1>3, <1>4, <1>5, <1>6, <1>7 DEF SumNext

\* The sum that was complemented is the one a receiver finds in the words.
LEMMA SumIsReceived ==
    ASSUME SumIInv, answer # -1
    PROVE  /\ SumOf(WordsReceived) = cksum
           /\ \A i \in 0 .. (ReceivedWords - 1) : WordsReceived[i] \in 0 .. (Base - 1)
  <1>1. /\ segmentLength \in Nat /\ segmentLength >= 20 /\ Base \in Nat /\ Base >= 17
        /\ segmentLength \div 2 \in Nat /\ segmentLength % 2 \in {0, 1}
        /\ segmentLength = 2 * (segmentLength \div 2) + (segmentLength % 2)
        /\ ReceivedWords = PseudoWords + (segmentLength \div 2) + (segmentLength % 2)
        /\ ReceivedWords \in Nat /\ ReceivedWords < Base
        /\ \A i \in 0 .. (Base - 1) : Words[i] = Word(i) /\ Word(i) \in 0 .. (Base - 1)
        /\ \A i \in 0 .. (Base - 1) : LastByte(i) \in 0 .. (Base - 1)
    BY SegmentFits DEF SumIInv
  <1>2. added \in Nat /\ added > 0 /\ dlen = 0
    BY DEF SumIInv, SumProgress, SumTypeOK
  <1>3. \A i \in 0 .. (ReceivedWords - 1) : WordsReceived[i] =
           IF segmentLength % 2 = 1 /\ i = PseudoWords + (segmentLength \div 2)
           THEN LastByte(i) ELSE Word(i)
    BY DEF WordsReceived
  <1>4. ASSUME NEW i \in 0 .. (ReceivedWords - 1) PROVE WordsReceived[i] \in 0 .. (Base - 1)
    <2>1. i \in 0 .. (Base - 1)
      BY <1>1
    <2> QED
      BY <1>1, <1>3, <2>1
  <1>5. ASSUME NEW m \in Nat, m <= ReceivedWords, \A i \in 0 .. (m - 1) : WordsReceived[i] = Word(i)
        PROVE  SumOver(WordsReceived, 0, m) = Total(m)
    <2>1. SumsTo(Words, WordsReceived, 0, m)
      BY <1>1, <1>5 DEF SumsTo
    <2>2. SumOver(Words, 0, 0 + m) = SumOver(Words, 0, 0) + SumOver(WordsReceived, 0, m)
      <3>1. 0 \in Nat
        OBVIOUS
      <3> QED
        BY <2>1, <3>1, SumContinues
    <2>3. SumOver(Words, 0, 0) = 0 /\ SumOver(WordsReceived, 0, m) \in Nat
      <3>1. \A k \in 0 .. (m - 1) : WordsReceived[k] \in 0 .. (Base - 1)
        BY <1>1, <1>4, <1>5
      <3> QED
        BY <3>1, SumGrows, SumBound
    <2>4. 0 + m = m
      OBVIOUS
    <2> QED
      BY <2>2, <2>3, <2>4 DEF Total
  <1>6. CASE segmentLength % 2 = 0
    <2>1. added = ReceivedWords /\ cksum = Total(added)
      BY <1>1, <1>2, <1>6 DEF SumIInv, SumProgress, PseudoWords
    <2>2. \A i \in 0 .. (ReceivedWords - 1) : WordsReceived[i] = Word(i)
      BY <1>3, <1>6
    <2> QED
      BY <1>1, <1>4, <1>5, <2>1, <2>2 DEF SumOf
  <1>7. CASE segmentLength % 2 = 1
    <2>1. /\ added = PseudoWords + (segmentLength \div 2) /\ added + 1 = ReceivedWords
          /\ cksum = Total(added) + LastByte(added)
      BY <1>1, <1>2, <1>7 DEF SumIInv, SumProgress, PseudoWords
    <2>2. /\ \A i \in 0 .. (added - 1) : WordsReceived[i] = Word(i)
          /\ WordsReceived[added] = LastByte(added)
      BY <1>1, <1>2, <1>3, <1>7, <2>1
    <2>3. SumOver(WordsReceived, 0, added) = Total(added)
      BY <1>1, <1>2, <1>5, <2>1, <2>2
    <2>4. SumOver(WordsReceived, 0, added + 1) = SumOver(WordsReceived, 0, added) + WordsReceived[0 + added]
      BY <1>2, SumGrows
    <2>5. 0 + added = added
      BY <1>2
    <2> QED
      BY <1>4, <2>1, <2>2, <2>3, <2>4, <2>5 DEF SumOf
  <1> QED
    BY <1>1, <1>6, <1>7, <1>4

LEMMA SumVerifies == SumIInv => ChecksumVerifies
  <1> SUFFICES ASSUME SumIInv, answer # -1
               PROVE  LET swapped == [i \in DOMAIN WordsReceived |->
                                         BigLittleSwap16(WordsReceived[i])]
                      IN  /\ FoldAll(SumOf(WordsReceived) + answer) = Base - 1
                          /\ FoldAll(SumOf(swapped) + BigLittleSwap16(answer)) = Base - 1
    BY DEF ChecksumVerifies
  <1> DEFINE swapped == [i \in DOMAIN WordsReceived |-> BigLittleSwap16(WordsReceived[i])]
  <1>1. /\ SumOf(WordsReceived) = cksum
        /\ \A i \in 0 .. (ReceivedWords - 1) : WordsReceived[i] \in 0 .. (Base - 1)
    BY SumIsReceived
  <1>2. cksum \in Nat /\ cksum < Base * Base /\ answer = Complement(FoldTwice(cksum))
    <2>1. Base \in Nat
      BY Bases
    <2> QED
      BY <2>1 DEF SumIInv, SumTypeOK, SumProgress
  <1>3. answer \in 0 .. (Base - 1) /\ SumOf(WordsReceived) + answer \in Zeros
    BY <1>1, <1>2, ComplementIs
  <1>4. \A i \in 0 .. (ReceivedWords - 1) : swapped[i] = BigLittleSwap16(WordsReceived[i])
    BY DEF WordsReceived
  <1>5. ReceivedWords \in Nat
    BY SegmentFits DEF SumIInv
  <1> HIDE DEF swapped
  <1>6. SumOf(swapped) + BigLittleSwap16(answer) \in Zeros
    BY <1>1, <1>3, <1>4, <1>5, SwappedZeros DEF SumOf
  <1>7. /\ FoldAll(SumOf(WordsReceived) + answer) = Base - 1
        /\ FoldAll(SumOf(swapped) + BigLittleSwap16(answer)) = Base - 1
    BY <1>3, <1>6, ZerosFold
  <1> QED
    BY <1>7 DEF swapped

\* The inductive invariant of the checksum.
THEOREM SumInvariance == SumSpec => []SumIInv
  BY SumInitHolds, SumNextHolds, PTL DEF SumSpec

\* Every variable keeps its type; cksum does not overflow (checkup.c 61-143).
THEOREM SumTypeCorrect == SumSpec => []SumTypeOK
  <1>1. SumIInv => SumTypeOK
    BY DEF SumIInv
  <1> QED
    BY SumInvariance, <1>1, PTL

\* A receiver of either byte order finds all ones, whatever the words and the length
\* of the segment (checkup.c 61-143, nh.c 75-106).
THEOREM ChecksumAlwaysVerifies == SumSpec => []ChecksumVerifies
  BY SumInvariance, SumVerifies, PTL

------------------------------------------------------------------------------
(* Uploads: texts.                                                          *)

\* The provers do not know that these three are strings.
Chars == STRING \cup {"CR", "LF", "-"}
Parts == [header : Seq(STRING), file : Seq(STRING)]

LEMMA UploadIs ==
    ASSUME NEW u \in Uploads
    PROVE  /\ u.head \in Seq(Chars) /\ u.boundary \in Seq(Chars) /\ u.rest \in Seq(Chars)
           /\ u.parts \in Seq(Parts) /\ u.head # <<>>
           /\ Len(u.parts) \in Nat /\ u.parts = <<>> <=> Len(u.parts) = 0
           /\ \A k \in 1 .. Len(u.parts) : /\ u.parts[k].header \in Seq(Chars)
                                           /\ u.parts[k].file \in Seq(Chars)
  <1>1. /\ u \in [head : Seq(STRING), boundary : Seq(STRING), rest : Seq(STRING), parts : Seq(Parts)]
        /\ u.head # <<>>
    BY UploadsAreTexts DEF Parts
  <1>2. u.parts \in Seq(Parts)
    BY <1>1
  <1>5. \A s \in Seq(STRING) : s \in Seq(Chars)
    BY SeqMonotonic DEF Chars
  <1>3. Len(u.parts) \in Nat /\ (u.parts = <<>> <=> Len(u.parts) = 0)
    BY <1>2, EmptySeq, LenProperties
  <1>4. ASSUME NEW k \in 1 .. Len(u.parts)
        PROVE  u.parts[k].header \in Seq(Chars) /\ u.parts[k].file \in Seq(Chars)
    <2>1. u.parts[k] \in Parts
      BY <1>2, ElementOfSeq
    <2> QED
      BY <1>5, <2>1 DEF Parts
  <1>6. u.head \in Seq(Chars) /\ u.boundary \in Seq(Chars) /\ u.rest \in Seq(Chars)
    BY <1>1, <1>5
  <1> QED
    BY <1>1, <1>2, <1>3, <1>4, <1>6

\* What a concatenation holds.
Joined(T, r, s, t) ==
    /\ t \in Seq(T) /\ Len(t) = Len(r) + Len(s)
    /\ \A i \in 1 .. Len(r) : t[i] = r[i]
    /\ \A i \in 1 .. Len(s) : t[Len(r) + i] = s[i]

LEMMA Joins ==
    ASSUME NEW T, NEW r \in Seq(T), NEW s \in Seq(T)
    PROVE  Joined(T, r, s, r \o s) /\ r \o s \in Seq(T)
  <1>1. Len(r) \in Nat /\ Len(s) \in Nat
    BY LenProperties
  <1>2. /\ r \o s \in Seq(T) /\ Len(r \o s) = Len(r) + Len(s)
        /\ \A i \in 1 .. Len(r) + Len(s) : (r \o s)[i] = IF i <= Len(r) THEN r[i] ELSE s[i - Len(r)]
    BY ConcatProperties
  <1>3. ASSUME NEW i \in 1 .. Len(s) PROVE (r \o s)[Len(r) + i] = s[i]
    <2>1. Len(r) + i \in 1 .. Len(r) + Len(s) /\ ~(Len(r) + i <= Len(r))
              /\ (Len(r) + i) - Len(r) = i
      BY <1>1
    <2> QED
      BY <1>2, <2>1
  <1> QED
    BY <1>1, <1>2, <1>3 DEF Joined

LEMMA Signs ==
    /\ Crlf \in Seq(Chars) /\ Len(Crlf) = 2 /\ Crlf[1] = "CR" /\ Crlf[2] = "LF"
    /\ Dashes \in Seq(Chars) /\ Len(Dashes) = 2 /\ Dashes[1] = "-" /\ Dashes[2] = "-"
  <1>1. "CR" \in Chars /\ "LF" \in Chars /\ "-" \in Chars
    BY DEF Chars
  <1>2. Crlf \in Seq(Chars) /\ Dashes \in Seq(Chars)
    BY <1>1 DEF Crlf, Dashes
  <1>3. Len(Crlf) = 2 /\ Crlf[1] = "CR" /\ Crlf[2] = "LF"
    BY DEF Crlf
  <1>4. Len(Dashes) = 2 /\ Dashes[1] = "-" /\ Dashes[2] = "-"
    BY DEF Dashes
  <1> QED
    BY <1>2, <1>3, <1>4

LEMMA DelimiterIs ==
    ASSUME NEW u \in Uploads
    PROVE  /\ Joined(Chars, Dashes, u.boundary, Delimiter(u))
           /\ Len(Delimiter(u)) = Len(u.boundary) + 2 /\ Len(u.boundary) \in Nat
  <1>1. u.boundary \in Seq(Chars) /\ Len(u.boundary) \in Nat
    BY UploadIs, LenProperties
  <1>2. Joined(Chars, Dashes, u.boundary, Delimiter(u))
    BY <1>1, Signs, Joins DEF Delimiter
  <1> QED
    BY <1>1, <1>2, Signs DEF Joined

\* A part: delimiter, line end, header, file, line end.
Lead(u, k) == Len(u.boundary) + 4 + Len(u.parts[k].header)

LEMMA PartTextIs ==
    ASSUME NEW u \in Uploads, NEW k \in 1 .. Len(u.parts)
    PROVE  LET part == u.parts[k]
               text == PartText(u, part)
           IN  /\ text \in Seq(Chars) /\ Lead(u, k) \in Nat /\ Len(part.file) \in Nat
               /\ Len(part.header) \in Nat
               /\ Len(text) = Lead(u, k) + Len(part.file) + 2
               /\ Len(Delimiter(u) \o Crlf \o part.header) = Lead(u, k)
               /\ \A i \in 1 .. Len(Delimiter(u)) : text[i] = Delimiter(u)[i]
               /\ text[Len(u.boundary) + 3] = "CR" /\ text[Len(u.boundary) + 4] = "LF"
               /\ \A i \in 1 .. Len(part.header) : text[(Len(u.boundary) + 4) + i] = part.header[i]
               /\ \A i \in 1 .. Len(part.file) : text[Lead(u, k) + i] = part.file[i]
               /\ text[Lead(u, k) + Len(part.file) + 1] = "CR"
               /\ text[Lead(u, k) + Len(part.file) + 2] = "LF"
  <1> DEFINE part == u.parts[k]
             d == Delimiter(u)
             h == part.header
             f == part.file
             x == d \o Crlf
             y == x \o h
             z == y \o f
             w == z \o Crlf
             b == Len(u.boundary)
  <1>0. h \in Seq(Chars) /\ f \in Seq(Chars) /\ Len(h) \in Nat /\ Len(f) \in Nat
    BY UploadIs, LenProperties
  <1>1. d \in Seq(Chars) /\ Len(d) = b + 2 /\ b \in Nat
    BY DelimiterIs DEF Joined
  <1>2. Crlf \in Seq(Chars) /\ Len(Crlf) = 2 /\ Crlf[1] = "CR" /\ Crlf[2] = "LF"
    BY Signs
  <1>3. PartText(u, part) = w /\ Lead(u, k) = b + 4 + Len(h)
    BY DEF PartText, Lead
  <1> HIDE DEF d, b
  <1> HIDE DEF h, f
  <1>4. Joined(Chars, d, Crlf, x) /\ x \in Seq(Chars)
    BY <1>1, <1>2, Joins
  <1> HIDE DEF x
  <1>5. Joined(Chars, x, h, y) /\ y \in Seq(Chars)
    BY <1>0, <1>4, Joins
  <1> HIDE DEF y
  <1>6. Joined(Chars, y, f, z) /\ z \in Seq(Chars)
    BY <1>0, <1>5, Joins
  <1> HIDE DEF z
  <1>7. Joined(Chars, z, Crlf, w)
    BY <1>2, <1>6, Joins
  <1> HIDE DEF w
  <1>8. /\ Len(x) = b + 4 /\ Len(y) = b + 4 + Len(h) /\ Len(z) = b + 4 + Len(h) + Len(f)
        /\ Len(w) = b + 4 + Len(h) + Len(f) + 2 /\ w \in Seq(Chars)
    BY <1>1, <1>2, <1>4, <1>5, <1>6, <1>7 DEF Joined
  <1>9. /\ \A i \in 1 .. b + 4 : w[i] = x[i]
        /\ \A i \in 1 .. b + 4 + Len(h) : w[i] = y[i]
        /\ \A i \in 1 .. b + 4 + Len(h) + Len(f) : w[i] = z[i]
    <2>1. /\ \A i \in 1 .. b + 4 : y[i] = x[i]
          /\ \A i \in 1 .. b + 4 + Len(h) : z[i] = y[i]
          /\ \A i \in 1 .. b + 4 + Len(h) + Len(f) : w[i] = z[i]
      BY <1>5, <1>6, <1>7, <1>8 DEF Joined
    <2>2. \A i \in 1 .. b + 4 : i \in 1 .. b + 4 + Len(h)
      BY <1>0, <1>1
    <2>3. \A i \in 1 .. b + 4 + Len(h) : i \in 1 .. b + 4 + Len(h) + Len(f)
      BY <1>0, <1>1
    <2> QED
      BY <2>1, <2>2, <2>3
  <1>10. \A i \in 1 .. Len(d) : w[i] = d[i]
    BY <1>1, <1>4, <1>9 DEF Joined
  <1>11. w[b + 3] = "CR" /\ w[b + 4] = "LF"
    <2>1. /\ x[Len(d) + 1] = "CR" /\ x[Len(d) + 2] = "LF"
      BY <1>2, <1>4 DEF Joined
    <2>2. Len(d) + 1 = b + 3 /\ Len(d) + 2 = b + 4 /\ b + 3 \in 1 .. b + 4 /\ b + 4 \in 1 .. b + 4
      BY <1>1
    <2> QED
      BY <1>9, <2>1, <2>2
  <1>12. \A i \in 1 .. Len(h) : w[(b + 4) + i] = h[i]
    <2> TAKE i \in 1 .. Len(h)
    <2>1. y[(b + 4) + i] = h[i]
      BY <1>5, <1>8 DEF Joined
    <2>2. (b + 4) + i \in 1 .. b + 4 + Len(h)
      BY <1>0, <1>1
    <2> QED
      BY <1>9, <2>1, <2>2
  <1>13. \A i \in 1 .. Len(f) : w[(b + 4 + Len(h)) + i] = f[i]
    <2> TAKE i \in 1 .. Len(f)
    <2>1. z[(b + 4 + Len(h)) + i] = f[i]
      BY <1>6, <1>8 DEF Joined
    <2>2. (b + 4 + Len(h)) + i \in 1 .. b + 4 + Len(h) + Len(f)
      BY <1>0, <1>1
    <2> QED
      BY <1>9, <2>1, <2>2
  <1>14. /\ w[(b + 4 + Len(h) + Len(f)) + 1] = "CR"
         /\ w[(b + 4 + Len(h) + Len(f)) + 2] = "LF"
    BY <1>2, <1>7, <1>8 DEF Joined
  <1>15. Len(d \o Crlf \o h) = b + 4 + Len(h)
    BY <1>8 DEF x, y
  <1>16. b + 4 + Len(h) \in Nat
    BY <1>0, <1>1
  <1> HIDE DEF Lead
  <1>17. /\ PartText(u, part) \in Seq(Chars) /\ Lead(u, k) \in Nat /\ Len(f) \in Nat
            /\ Len(h) \in Nat
         /\ Len(PartText(u, part)) = Lead(u, k) + Len(f) + 2
         /\ Len(d \o Crlf \o h) = Lead(u, k)
         /\ \A i \in 1 .. Len(d) : PartText(u, part)[i] = d[i]
         /\ PartText(u, part)[b + 3] = "CR" /\ PartText(u, part)[b + 4] = "LF"
         /\ \A i \in 1 .. Len(h) : PartText(u, part)[(b + 4) + i] = h[i]
         /\ \A i \in 1 .. Len(f) : PartText(u, part)[Lead(u, k) + i] = f[i]
         /\ PartText(u, part)[Lead(u, k) + Len(f) + 1] = "CR"
         /\ PartText(u, part)[Lead(u, k) + Len(f) + 2] = "LF"
    BY <1>0, <1>3, <1>8, <1>10, <1>11, <1>12, <1>13, <1>14, <1>15, <1>16
  <1> QED
    BY <1>17 DEF h, f, d, b, part
------------------------------------------------------------------------------
(* Recursion: what is defined from one number to the next.                  *)

Grows(g, x, f, m) == f[0] = x /\ \A n \in 0 .. m - 1 : f[n + 1] = g[<<n, f[n]>>]

LEMMA SameGrowth ==
    ASSUME NEW g, NEW x, NEW e, NEW f, NEW m \in Nat, Grows(g, x, e, m), Grows(g, x, f, m)
    PROVE  \A n \in 0 .. m : e[n] = f[n]
  <1> DEFINE S == {n \in Nat : n <= m => e[n] = f[n]}
  <1>1. 0 \in S
    BY DEF Grows
  <1>2. ASSUME NEW n \in S PROVE n + 1 \in S
    <2>1. SUFFICES ASSUME n + 1 <= m PROVE e[n + 1] = f[n + 1]
      OBVIOUS
    <2>2. n \in 0 .. m - 1 /\ e[n] = f[n]
      BY <2>1
    <2> QED
      BY <2>2 DEF Grows
  <1>3. S = Nat
    <2> HIDE DEF S
    <2>1. S \subseteq Nat
      BY DEF S
    <2> QED
      BY <1>1, <1>2, <2>1, SetInduction
  <1> QED
    BY <1>3

LEMMA GrowthExists ==
    ASSUME NEW T, NEW x \in T, NEW g \in [Nat \X T -> T], NEW m \in Nat
    PROVE  \E f \in [0 .. m -> T] : Grows(g, x, f, m)
  <1> DEFINE S == {n \in Nat : \E f \in [0 .. n -> T] : Grows(g, x, f, n)}
  <1>1. 0 \in S
    <2>1. [n \in 0 .. 0 |-> x] \in [0 .. 0 -> T] /\ Grows(g, x, [n \in 0 .. 0 |-> x], 0)
      BY DEF Grows
    <2> QED
      BY <2>1
  <1>2. ASSUME NEW n \in S PROVE n + 1 \in S
    <2>1. PICK f \in [0 .. n -> T] : Grows(g, x, f, n)
      OBVIOUS
    <2> DEFINE h == [k \in 0 .. n + 1 |-> IF k = n + 1 THEN g[<<n, f[n]>>] ELSE f[k]]
    <2>0. f[n] \in T /\ <<n, f[n]>> \in Nat \X T /\ g[<<n, f[n]>>] \in T
      OBVIOUS
    <2>2. h \in [0 .. n + 1 -> T]
      BY <2>0
    <2>3. h[0] = x
      BY <2>1 DEF Grows
    <2>4. ASSUME NEW k \in 0 .. (n + 1) - 1 PROVE h[k + 1] = g[<<k, h[k]>>]
      <3>1. h[k] = f[k] /\ k + 1 \in 0 .. n + 1
        OBVIOUS
      <3>2. CASE k = n
        BY <3>1, <3>2
      <3>3. CASE k # n
        <4>1. k \in 0 .. n - 1 /\ h[k + 1] = f[k + 1]
          BY <3>3
        <4> QED
          BY <2>1, <3>1, <4>1 DEF Grows
      <3> QED
        BY <3>2, <3>3
    <2> HIDE DEF h
    <2>5. Grows(g, x, h, n + 1) /\ n + 1 \in Nat
      BY <2>3, <2>4 DEF Grows
    <2> QED
      BY <2>2, <2>5
  <1>3. S = Nat
    <2> HIDE DEF S
    <2>1. S \subseteq Nat
      BY DEF S
    <2> QED
      BY <1>1, <1>2, <2>1, SetInduction
  <1> QED
    BY <1>3

\* One that goes on for ever.
LEMMA Recursion ==
    ASSUME NEW T, NEW x \in T, NEW g \in [Nat \X T -> T]
    PROVE  \E f \in [Nat -> T] : \A m \in Nat : Grows(g, x, f, m)
  <1> DEFINE upTo(m) == CHOOSE f \in [0 .. m -> T] : Grows(g, x, f, m)
             f == [n \in Nat |-> upTo(n)[n]]
  <1>1. ASSUME NEW m \in Nat PROVE upTo(m) \in [0 .. m -> T] /\ Grows(g, x, upTo(m), m)
    BY GrowthExists
  <1> HIDE DEF upTo
  <1>2. f \in [Nat -> T]
    <2>1. ASSUME NEW n \in Nat PROVE upTo(n)[n] \in T
      BY <1>1
    <2> QED
      BY <2>1
  <1>3. upTo(0)[0] = x /\ f[0] = x
    BY <1>1 DEF Grows
  <1>4. ASSUME NEW n \in Nat PROVE f[n + 1] = g[<<n, f[n]>>]
    <2>1. Grows(g, x, upTo(n), n) /\ Grows(g, x, upTo(n + 1), n + 1) /\ n + 1 \in Nat
      BY <1>1
    <2>2. Grows(g, x, upTo(n + 1), n) /\ upTo(n + 1)[n + 1] = g[<<n, upTo(n + 1)[n]>>]
      BY <2>1 DEF Grows
    <2>3. upTo(n + 1)[n] = upTo(n)[n]
      BY <2>1, <2>2, SameGrowth
    <2> QED
      BY <2>2, <2>3
  <1> HIDE DEF f
  <1>5. \A m \in Nat : Grows(g, x, f, m)
    BY <1>3, <1>4 DEF Grows
  <1> QED
    BY <1>2, <1>5
LEMMA PartsTextIs ==
    ASSUME NEW u \in Uploads
    PROVE  /\ PartsText(u, 0) = <<>>
           /\ \A k \in 0 .. Len(u.parts) : PartsText(u, k) \in Seq(Chars)
           /\ \A k \in 1 .. Len(u.parts) :
                 PartsText(u, k) = PartsText(u, k - 1) \o PartText(u, u.parts[k])
  <1> DEFINE K == Len(u.parts)
             T == Seq(Chars)
             t(k) == PartText(u, u.parts[k])
             g == [p \in Nat \X T |-> IF p[1] + 1 \in 1 .. K THEN p[2] \o t(p[1] + 1) ELSE p[2]]
  <1>1. K \in Nat /\ \A k \in 1 .. K : t(k) \in T
    <2>1. K \in Nat
      BY UploadIs
    <2>2. ASSUME NEW k \in 1 .. K PROVE t(k) \in T
      BY PartTextIs
    <2> QED
      BY <2>1, <2>2
  <1>2. \A y, z \in T : y \o z \in T
    BY ConcatProperties
  <1>3. <<>> \in T
    BY EmptySeq
  <1>4. PartsText(u, 0) = (CHOOSE s : s = [n \in 0 .. 0 |-> IF n = 0 THEN <<>> ELSE s[n - 1] \o t(n)])[0]
    BY DEF PartsText
  <1>5. \A k : PartsText(u, k) = (CHOOSE s : s = [n \in 0 .. k |-> IF n = 0 THEN <<>> ELSE s[n - 1] \o t(n)])[k]
    BY DEF PartsText
  <1> HIDE DEF K, T, t
  <1>6. g \in [Nat \X T -> T]
    <2>1. ASSUME NEW p \in Nat \X T
          PROVE  (IF p[1] + 1 \in 1 .. K THEN p[2] \o t(p[1] + 1) ELSE p[2]) \in T
      BY <1>1, <1>2
    <2> QED
      BY <2>1
  <1>7. \A n \in Nat, y \in T : g[<<n, y>>] = IF n + 1 \in 1 .. K THEN y \o t(n + 1) ELSE y
    OBVIOUS
  <1> HIDE DEF g
  <1>8. PICK f \in [Nat -> T] : \A m \in Nat : Grows(g, <<>>, f, m)
    BY <1>3, <1>6, Recursion
  <1>9. f[0] = <<>>
    BY <1>8 DEF Grows
  <1>10. ASSUME NEW n \in Nat, n + 1 \in 1 .. K PROVE f[n + 1] = f[n] \o t(n + 1)
    <2>1. f[n + 1] = g[<<n, f[n]>>] /\ f[n] \in T
      BY <1>8 DEF Grows
    <2> QED
      BY <1>7, <1>10, <2>1
  <1>11. ASSUME NEW k \in 0 .. K PROVE PartsText(u, k) = f[k]
    <2> DEFINE Is(s) == s = [n \in 0 .. k |-> IF n = 0 THEN <<>> ELSE s[n - 1] \o t(n)]
               s0 == CHOOSE s : Is(s)
               h == [n \in 0 .. k |-> f[n]]
               S == {n \in Nat : n <= k => s0[n] = f[n]}
    <2>0. k \in Nat /\ k <= K
      BY <1>1
    <2>1. Is(h)
      <3>1. ASSUME NEW n \in 0 .. k PROVE h[n] = IF n = 0 THEN <<>> ELSE h[n - 1] \o t(n)
        <4>1. CASE n = 0
          BY <1>9, <4>1
        <4>2. CASE n # 0
          <5>1. n - 1 \in Nat /\ (n - 1) + 1 = n /\ n \in 1 .. K /\ n - 1 \in 0 .. k
            BY <1>1, <2>0, <4>2
          <5>2. f[n] = f[n - 1] \o t(n)
            BY <1>10, <5>1
          <5> QED
            BY <4>2, <5>1, <5>2
        <4> QED
          BY <4>1, <4>2
      <3>2. h = [n \in 0 .. k |-> h[n]]
        OBVIOUS
      <3> QED
        BY <3>1, <3>2
    <2>2. Is(s0)
      <3> HIDE DEF Is
      <3> QED
        BY <2>1
    <2>3. PartsText(u, k) = s0[k]
      BY <1>5
    <2> HIDE DEF s0
    <2>4. 0 \in S
      BY <1>9, <2>0, <2>2
    <2>5. ASSUME NEW n \in S PROVE n + 1 \in S
      <3>1. SUFFICES ASSUME n + 1 <= k PROVE s0[n + 1] = f[n + 1]
        OBVIOUS
      <3>2. s0[n] = f[n] /\ n + 1 \in 0 .. k /\ n + 1 # 0 /\ (n + 1) - 1 = n /\ n + 1 \in 1 .. K
                /\ n \in Nat
        BY <1>1, <2>0, <3>1
      <3>3. s0[n + 1] = s0[n] \o t(n + 1)
        BY <2>2, <3>2
      <3>4. f[n + 1] = f[n] \o t(n + 1)
        BY <1>10, <3>2
      <3> QED
        BY <3>2, <3>3, <3>4
    <2>6. S = Nat
      <3> HIDE DEF S
      <3>1. S \subseteq Nat
        BY DEF S
      <3> QED
        BY <2>4, <2>5, <3>1, SetInduction
    <2> QED
      BY <2>0, <2>3, <2>6
  <1>12. ASSUME NEW k \in 1 .. K PROVE PartsText(u, k) = PartsText(u, k - 1) \o t(k)
    <2>1. k - 1 \in Nat /\ (k - 1) + 1 = k /\ k - 1 \in 0 .. K /\ k \in 0 .. K
      BY <1>1
    <2> QED
      BY <1>10, <1>11, <2>1
  <1>13. \A k \in 0 .. K : PartsText(u, k) \in T
    <2>1. \A k \in 0 .. K : k \in Nat
      BY <1>1
    <2> QED
      BY <1>11, <2>1
  <1>14. PartsText(u, 0) = <<>>
    BY <1>1, <1>9, <1>11
  <1> QED
    BY <1>12, <1>13, <1>14 DEF K, T, t

------------------------------------------------------------------------------
(* The states of MiMeParseFile.                                             *)

LEMMA WordStep ==
    ASSUME NEW s \in 0 .. MinusSign, NEW ch, NEW delimiter \in BOOLEAN, s < Quotation
    PROVE  NextState(s, ch, delimiter) =
             IF ch = FilenameWord[s + 1] THEN s + 1 ELSE IF s = 6 /\ ch = "e" THEN 8 ELSE 0
  <1>1. s # 9 /\ s # 10 /\ s # 11 /\ s # 12 /\ s # 13 /\ s # 14 /\ s < 9
    BY DEF Quotation, MinusSign
  <1> QED
    BY <1>1, Zenon DEF NextState, Quotation, FileName, Enter, BlankLine, FileContent, MinusSign

\* What one byte can do; r0 is the state where no delimiter follows.
StateFits(s, ch, r, r0) ==
    /\ r \in 0 .. MinusSign
    /\ s < FileContent => r = r0 /\ r <= FileContent
    /\ s < FileContent /\ r = FileContent => s = BlankLine /\ ch = "LF"
    /\ s < FileName => r < FileName \/ (s = Quotation /\ r = FileName)
    /\ FileName <= s /\ s < FileContent => r >= FileName

LEMMA NextStateIs ==
    ASSUME NEW s \in 0 .. MinusSign, NEW ch, NEW delimiter \in BOOLEAN
    PROVE  StateFits(s, ch, NextState(s, ch, delimiter), NextState(s, ch, FALSE))
  <1> DEFINE r == NextState(s, ch, delimiter)
             r0 == NextState(s, ch, FALSE)
  <1> USE DEF Quotation, FileName, Enter, BlankLine, FileContent, MinusSign
  <1>1. CASE s < 9
    <2>1. FALSE \in BOOLEAN
      OBVIOUS
    <2>2. r = IF ch = FilenameWord[s + 1] THEN s + 1 ELSE IF s = 6 /\ ch = "e" THEN 8 ELSE 0
      BY <1>1, WordStep
    <2>3. r0 = IF ch = FilenameWord[s + 1] THEN s + 1 ELSE IF s = 6 /\ ch = "e" THEN 8 ELSE 0
      BY <1>1, <2>1, WordStep
    <2> HIDE DEF r, r0
    <2>4. r = r0 /\ (r = s + 1 \/ r = 8 \/ r = 0)
      BY <2>2, <2>3
    <2>5. StateFits(s, ch, r, r0)
      BY <1>1, <2>4 DEF StateFits
    <2> QED
      BY <2>5 DEF r, r0
  <1>2. CASE s = 9
    BY <1>2 DEF NextState, StateFits
  <1>3. CASE s = 10
    BY <1>3 DEF NextState, StateFits
  <1>4. CASE s = 11
    BY <1>4 DEF NextState, StateFits
  <1>5. CASE s = 12
    BY <1>5 DEF NextState, StateFits
  <1>6. CASE s = 13
    BY <1>6 DEF NextState, StateFits
  <1>7. CASE s = 14
    BY <1>7 DEF NextState, StateFits
  <1>8. s < 9 \/ s = 9 \/ s = 10 \/ s = 11 \/ s = 12 \/ s = 13 \/ s = 14
    OBVIOUS
  <1> QED
    BY <1>1, <1>2, <1>3, <1>4, <1>5, <1>6, <1>7, <1>8, Zenon

LEMMA DashStep ==
    ASSUME NEW s \in 0 .. MinusSign, NEW delimiter \in BOOLEAN, s < FileName
    PROVE  NextState(s, "-", delimiter) = 0
  <1> USE DEF Quotation, FileName, Enter, BlankLine, FileContent, MinusSign
  <1>1. CASE s < 9
    <2>1. s + 1 \in 1 .. 9
      BY <1>1
    <2>2. FilenameWord[s + 1] # "-"
      BY <2>1 DEF FilenameWord
    <2> QED
      BY <1>1, <2>2, WordStep
  <1>2. CASE s = 9
    BY <1>2 DEF NextState
  <1> QED
    BY <1>1, <1>2

LEMMA ContentStep ==
    ASSUME NEW ch, NEW delimiter \in BOOLEAN
    PROVE  /\ NextState(FileContent, ch, delimiter) = IF ch = "-" THEN MinusSign ELSE FileContent
           /\ NextState(MinusSign, ch, delimiter) =
                IF ch # "-" THEN FileContent ELSE IF delimiter THEN 0 ELSE MinusSign
  <1> USE DEF Quotation, FileName, Enter, BlankLine, FileContent, MinusSign
  <1>1. NextState(FileContent, ch, delimiter) = IF ch = "-" THEN MinusSign ELSE FileContent
    BY DEF NextState
  <1>2. NextState(MinusSign, ch, delimiter) =
                IF ch # "-" THEN FileContent ELSE IF delimiter THEN 0 ELSE MinusSign
    BY DEF NextState
  <1> QED
    BY <1>1, <1>2

LEMMA NameStatesAre ==
    ASSUME NEW text \in Seq(Chars)
    PROVE  /\ NameStates(text)[0] = 0
           /\ \A n \in 0 .. Len(text) : NameStates(text)[n] \in 0 .. MinusSign
           /\ \A n \in 1 .. Len(text) :
                 NameStates(text)[n] = NextState(NameStates(text)[n - 1], text[n], FALSE)
  <1> DEFINE T == 0 .. MinusSign
             N == Len(text)
             g == [p \in Nat \X T |-> NextState(p[2], text[p[1] + 1], FALSE)]
             Is(s) == s = [n \in 0 .. N |-> IF n = 0 THEN 0 ELSE NextState(s[n - 1], text[n], FALSE)]
             s0 == CHOOSE s : Is(s)
  <1>1. N \in Nat /\ 0 \in T
    BY LenProperties DEF MinusSign
  <1>2. NameStates(text) = s0
    BY DEF NameStates
  <1>3. \A s \in T : \A ch : NextState(s, ch, FALSE) \in T
    BY NextStateIs DEF StateFits
  <1> HIDE DEF T, N
  <1>4. g \in [Nat \X T -> T]
    <2>1. ASSUME NEW p \in Nat \X T PROVE NextState(p[2], text[p[1] + 1], FALSE) \in T
      BY <1>3
    <2> QED
      BY <2>1
  <1>5. \A n \in Nat, s \in T : g[<<n, s>>] = NextState(s, text[n + 1], FALSE)
    OBVIOUS
  <1> HIDE DEF g
  <1>6. PICK f \in [0 .. N -> T] : Grows(g, 0, f, N)
    BY <1>1, <1>4, GrowthExists
  <1>7. Is(f)
    <2>1. ASSUME NEW n \in 0 .. N
          PROVE  f[n] = IF n = 0 THEN 0 ELSE NextState(f[n - 1], text[n], FALSE)
      <3>1. CASE n = 0
        BY <1>6, <3>1 DEF Grows
      <3>2. CASE n # 0
        <4>1. n - 1 \in 0 .. N - 1 /\ n - 1 \in 0 .. N /\ (n - 1) + 1 = n /\ n - 1 \in Nat
          BY <1>1, <3>2
        <4>2. f[n] = g[<<n - 1, f[n - 1]>>] /\ f[n - 1] \in T
          BY <1>6, <4>1 DEF Grows
        <4> QED
          BY <1>5, <3>2, <4>1, <4>2
      <3> QED
        BY <3>1, <3>2
    <2>2. f = [n \in 0 .. N |-> f[n]]
      OBVIOUS
    <2> QED
      BY <2>1, <2>2
  <1>8. Is(s0)
    <2> HIDE DEF Is
    <2> QED
      BY <1>7
  <1> HIDE DEF s0
  <1>9. s0[0] = 0 /\ \A n \in 1 .. N : s0[n] = NextState(s0[n - 1], text[n], FALSE)
    <2>1. 0 \in 0 .. N /\ \A n \in 1 .. N : n \in 0 .. N /\ n # 0
      BY <1>1
    <2> QED
      BY <1>8, <2>1
  <1>10. \A n \in 0 .. N : s0[n] \in T
    <2> DEFINE S == {n \in Nat : n <= N => s0[n] \in T}
    <2>1. 0 \in S
      BY <1>1, <1>9
    <2>2. ASSUME NEW n \in S PROVE n + 1 \in S
      <3>1. SUFFICES ASSUME n + 1 <= N PROVE s0[n + 1] \in T
        OBVIOUS
      <3>2. s0[n] \in T /\ n + 1 \in 1 .. N /\ (n + 1) - 1 = n
        BY <3>1, <1>1
      <3> QED
        BY <1>3, <1>9, <3>2
    <2>3. S = Nat
      <3> HIDE DEF S
      <3>1. S \subseteq Nat
        BY DEF S
      <3> QED
        BY <2>1, <2>2, <3>1, SetInduction
    <2> QED
      BY <1>1, <2>3
  <1> QED
    BY <1>2, <1>9, <1>10 DEF T, N
------------------------------------------------------------------------------
(* The loop of MiMeParseFile is taken turn by turn.                         *)

LEMMA MimeStepIs ==
    ASSUME NEW text, NEW f \in Finders, NEW p \in Nat, NEW bound
    PROVE  MimeStep(text, f, p, bound) \in Finders
  <1> DEFINE d == IsPrefix(bound, SubSeq(text, p + 1, Len(text)))
             s == NextState(f.state, text[p], d)
             fs == IF f.state = BlankLine /\ s = FileContent
                   THEN [f.files EXCEPT ![f.number].buf = Begins(p)]
                   ELSE IF f.state \in {FileContent, MinusSign} /\ text[p] = "-"
                   THEN [f.files EXCEPT ![f.number].end = IF s = 0 THEN p - 3 ELSE p - 2]
                   ELSE f.files
             Pieces == [1 .. MaxFiles -> [buf : Int, end : Int]]
  <1>1. f.state \in 0 .. MinusSign /\ f.number \in Nat /\ f.files \in Pieces
    BY DEF Finders
  <1>2. d \in BOOLEAN
    BY DEF IsPrefix
  <1> HIDE DEF d
  <1>3. s \in 0 .. MinusSign
    BY <1>1, <1>2, NextStateIs DEF StateFits
  <1>4. MimeStep(text, f, p, bound) =
           [state |-> s,
            number |-> IF f.state = Quotation /\ s = FileName THEN f.number + 1 ELSE f.number,
            files |-> fs]
    BY DEF MimeStep, d
  <1> HIDE DEF s
  <1>5. fs \in Pieces
    <2>1. ASSUME NEW x \in Int PROVE [f.files EXCEPT ![f.number].buf = x] \in Pieces
      BY <1>1
    <2>2. ASSUME NEW x \in Int PROVE [f.files EXCEPT ![f.number].end = x] \in Pieces
      BY <1>1
    <2>3. Begins(p) \in Int /\ p - 3 \in Int /\ p - 2 \in Int
      BY DEF Begins
    <2> QED
      BY <1>1, <2>1, <2>2, <2>3
  <1> HIDE DEF fs
  <1>6. (IF f.state = Quotation /\ s = FileName THEN f.number + 1 ELSE f.number) \in Nat
    BY <1>1
  <1> QED
    BY <1>3, <1>4, <1>5, <1>6 DEF Finders

\* One turn after the other, from position i on.
ByteTurn(text, bound, i) == [p \in Nat \X Finders |-> MimeStep(text, p[2], i + p[1], bound)]

LEMMA TurnIs ==
    ASSUME NEW text, NEW bound, NEW i \in Nat
    PROVE  /\ ByteTurn(text, bound, i) \in [Nat \X Finders -> Finders]
           /\ \A k \in Nat, f \in Finders :
                 ByteTurn(text, bound, i)[<<k, f>>] = MimeStep(text, f, i + k, bound)
  <1>1. ASSUME NEW p \in Nat \X Finders PROVE MimeStep(text, p[2], i + p[1], bound) \in Finders
    BY MimeStepIs
  <1> QED
    BY <1>1 DEF ByteTurn

\* The state after n turns.
After(text, bound, i, n, f) ==
    (CHOOSE t \in [0 .. n -> Finders] : Grows(ByteTurn(text, bound, i), f, t, n))[n]

LEMMA AfterIs ==
    ASSUME NEW text, NEW bound, NEW i \in Nat, NEW n \in Nat, NEW f \in Finders
    PROVE  /\ After(text, bound, i, n, f) \in Finders
           /\ \A t : Grows(ByteTurn(text, bound, i), f, t, n) => t[n] = After(text, bound, i, n, f)
           /\ \E t \in [0 .. n -> Finders] : Grows(ByteTurn(text, bound, i), f, t, n)
  <1> DEFINE g == ByteTurn(text, bound, i)
             c == CHOOSE t \in [0 .. n -> Finders] : Grows(g, f, t, n)
  <1>1. g \in [Nat \X Finders -> Finders]
    BY TurnIs
  <1>2. After(text, bound, i, n, f) = c[n]
    BY DEF After
  <1> HIDE DEF g
  <1>3. \E t \in [0 .. n -> Finders] : Grows(g, f, t, n)
    BY <1>1, GrowthExists
  <1>4. c \in [0 .. n -> Finders] /\ Grows(g, f, c, n)
    BY <1>3
  <1> HIDE DEF c
  <1>5. ASSUME NEW t, Grows(g, f, t, n) PROVE t[n] = c[n]
    <2>1. \A k \in 0 .. n : t[k] = c[k]
      BY <1>4, <1>5, SameGrowth
    <2> QED
      BY <2>1
  <1>6. c[n] \in Finders
    BY <1>4
  <1> QED
    BY <1>2, <1>3, <1>5, <1>6 DEF g

LEMMA AfterGoesOn ==
    ASSUME NEW text, NEW bound, NEW i \in Nat, NEW n \in Nat, NEW h \in 0 .. n, NEW f \in Finders
    PROVE  After(text, bound, i, n, f) =
             After(text, bound, i + h, n - h, After(text, bound, i, h, f))
  <1> DEFINE g == ByteTurn(text, bound, i)
             g1 == ByteTurn(text, bound, i + h)
  <1>0. h \in Nat /\ n - h \in Nat /\ i + h \in Nat
    OBVIOUS
  <1>1. PICK t \in [0 .. n -> Finders] : Grows(g, f, t, n)
    BY AfterIs
  <1>2. /\ \A k \in Nat, e \in Finders : g[<<k, e>>] = MimeStep(text, e, i + k, bound)
        /\ \A k \in Nat, e \in Finders : g1[<<k, e>>] = MimeStep(text, e, (i + h) + k, bound)
    BY <1>0, TurnIs
  <1> HIDE DEF g, g1
  <1> DEFINE t1 == [k \in 0 .. n - h |-> t[h + k]]
  <1>3. Grows(g, f, t, h)
    BY <1>1 DEF Grows
  <1>4. t[h] = After(text, bound, i, h, f) /\ t[n] = After(text, bound, i, n, f)
    BY <1>0, <1>1, <1>3, AfterIs DEF g
  <1>5. Grows(g1, t[h], t1, n - h)
    <2>1. t1[0] = t[h]
      BY <1>0
    <2>2. ASSUME NEW k \in 0 .. (n - h) - 1 PROVE t1[k + 1] = g1[<<k, t1[k]>>]
      <3>1. /\ k \in 0 .. n - h /\ k + 1 \in 0 .. n - h /\ h + k \in 0 .. n - 1 /\ k \in Nat
                /\ h + k \in Nat
            /\ h + (k + 1) = (h + k) + 1 /\ i + (h + k) = (i + h) + k /\ h + k \in 0 .. n
        BY <1>0
      <3>2. t[(h + k) + 1] = g[<<h + k, t[h + k]>>] /\ t[h + k] \in Finders
        BY <1>1, <3>1 DEF Grows
      <3>3. t1[k + 1] = t[(h + k) + 1] /\ t1[k] = t[h + k]
        BY <3>1
      <3> QED
        BY <1>2, <3>1, <3>2, <3>3
    <2> HIDE DEF t1
    <2> QED
      BY <2>1, <2>2 DEF Grows
  <1>6. t1[n - h] = t[n]
    <2>1. n - h \in 0 .. n - h /\ h + (n - h) = n
      BY <1>0
    <2> QED
      BY <2>1
  <1>7. t[h] \in Finders
    BY <1>1
  <1> HIDE DEF t1
  <1>8. t1[n - h] = After(text, bound, i + h, n - h, t[h])
    BY <1>0, <1>5, <1>7, AfterIs DEF g1
  <1> QED
    BY <1>4, <1>6, <1>8

LEMMA AfterFew ==
    ASSUME NEW text, NEW bound, NEW i \in Nat, NEW f \in Finders
    PROVE  /\ After(text, bound, i, 0, f) = f
           /\ After(text, bound, i, 1, f) = MimeStep(text, f, i, bound)
  <1>0. 0 \in Nat /\ 1 \in Nat
    OBVIOUS
  <1>1. PICK t \in [0 .. 1 -> Finders] : Grows(ByteTurn(text, bound, i), f, t, 1)
    BY <1>0, AfterIs
  <1>2. PICK t0 \in [0 .. 0 -> Finders] : Grows(ByteTurn(text, bound, i), f, t0, 0)
    BY <1>0, AfterIs
  <1>3. t[1] = After(text, bound, i, 1, f) /\ t0[0] = After(text, bound, i, 0, f)
    BY <1>0, <1>1, <1>2, AfterIs
  <1>4. t0[0] = f /\ t[0] = f
    BY <1>1, <1>2 DEF Grows
  <1>5. t[0 + 1] = ByteTurn(text, bound, i)[<<0, t[0]>>]
    <2>1. 0 \in 0 .. 1 - 1
      OBVIOUS
    <2> QED
      BY <1>1, <2>1 DEF Grows
  <1>6. ByteTurn(text, bound, i)[<<0, f>>] = MimeStep(text, f, i + 0, bound) /\ i + 0 = i
    BY <1>0, TurnIs
  <1> QED
    BY <1>3, <1>4, <1>5, <1>6

\* The same, with names for the sums.
LEMMA AfterJoins ==
    ASSUME NEW text, NEW bound, NEW i \in Nat, NEW h \in Nat, NEW m \in Nat, NEW f \in Finders
    PROVE  \A j, n : i + h = j /\ h + m = n =>
             After(text, bound, i, n, f) = After(text, bound, j, m, After(text, bound, i, h, f))
  <1> DEFINE n == h + m
             j == i + h
             k == n - h
  <1>1. n \in Nat /\ h \in 0 .. n
    OBVIOUS
  <1>2. k = m
    OBVIOUS
  <1> HIDE DEF n
  <1>3. After(text, bound, i, n, f) = After(text, bound, j, k, After(text, bound, i, h, f))
    BY <1>1, AfterGoesOn
  <1> HIDE DEF j, k
  <1>4. After(text, bound, i, n, f) = After(text, bound, j, m, After(text, bound, i, h, f))
    BY <1>2, <1>3
  <1> QED
    BY <1>4 DEF n, j

LEMMA AfterOneMore ==
    ASSUME NEW text, NEW bound, NEW i \in Nat, NEW n \in Nat, NEW f \in Finders
    PROVE  After(text, bound, i, n + 1, f) =
             MimeStep(text, After(text, bound, i, n, f), i + n, bound)
  <1> DEFINE e == After(text, bound, i, n, f)
  <1>1. n + 1 \in Nat /\ i + n \in Nat /\ 1 \in Nat
    OBVIOUS
  <1>2. e \in Finders
    BY AfterIs
  <1> DEFINE j == i + n
             k == n + 1
  <1>3. j = i + n /\ k = n + 1 /\ k \in Nat
    OBVIOUS
  <1> HIDE DEF j, k
  <1>5. After(text, bound, i, k, f) = After(text, bound, j, 1, After(text, bound, i, n, f))
    BY <1>1, <1>3, AfterJoins
  <1> HIDE DEF e
  <1>4. After(text, bound, i + n, 1, e) = MimeStep(text, e, i + n, bound)
    BY <1>1, <1>2, AfterFew
  <1> QED
    BY <1>3, <1>4, <1>5 DEF e

LEMMA MimeFileIs ==
    ASSUME NEW text \in Seq(Chars), NEW from \in 1 .. Len(text) + 1, NEW bound,
           [state |-> mime, number |-> fileNumber, files |-> OpenFiles(text, from)] \in Finders
    PROVE  MimeFile(text, from, bound) =
             After(text, bound, from, Len(text) + 1 - from,
                   [state |-> mime, number |-> fileNumber, files |-> OpenFiles(text, from)])
  <1> DEFINE start == [state |-> mime, number |-> fileNumber, files |-> OpenFiles(text, from)]
             A(i, n, f) == After(text, bound, i, n, f)
             M(f, i) == MimeStep(text, f, i, bound)
             value(r, n, i, f) == IF n = 0 THEN f ELSE IF n = 1 THEN M(f, i)
                                  ELSE r[n - n \div 2][i + n \div 2][r[n \div 2][i][f]]
             Is(r) == r = [n \in Nat |-> [i \in Nat |-> [f \in Finders |-> value(r, n, i, f)]]]
             all == [n \in Nat |-> [i \in Nat |-> [f \in Finders |-> A(i, n, f)]]]
             run == CHOOSE r : Is(r)
             N == Len(text) + 1 - from
  <1>0. N \in Nat /\ from \in Nat
    BY LenProperties
  <1>1. MimeFile(text, from, bound) = run[N][from][start]
    BY DEF MimeFile
  <1>2. \A i, n \in Nat, f \in Finders : A(i, n, f) \in Finders
    BY AfterIs
  <1>3. \A i \in Nat, f \in Finders : A(i, 0, f) = f /\ A(i, 1, f) = M(f, i)
    BY AfterFew
  <1>4. \A i, n \in Nat, f \in Finders : \A h \in 0 .. n : A(i, n, f) = A(i + h, n - h, A(i, h, f))
    BY AfterGoesOn
  <1>5. start \in Finders
    OBVIOUS
  <1> HIDE DEF A, M, start, N
  <1>h. ASSUME NEW n \in Nat, n # 0, n # 1
        PROVE  /\ n \div 2 \in Nat /\ n - n \div 2 \in Nat /\ n \div 2 \in 0 .. n
               /\ n \div 2 < n /\ n - n \div 2 < n
    BY <1>h
  <1>6. Is(all)
    <2>1. ASSUME NEW i \in Nat, NEW n \in Nat, NEW f \in Finders
          PROVE  A(i, n, f) = value(all, n, i, f)
      <3>1. CASE n = 0 \/ n = 1
        BY <1>3, <3>1
      <3>2. CASE n # 0 /\ n # 1
        <4> DEFINE h == n \div 2
        <4>1. h \in Nat /\ n - h \in Nat /\ h \in 0 .. n
          BY <1>h, <3>2
        <4> HIDE DEF h
        <4>2. all[h][i][f] = A(i, h, f) /\ A(i, h, f) \in Finders /\ i + h \in Nat
          BY <1>2, <4>1
        <4>3. all[n - h][i + h][A(i, h, f)] = A(i + h, n - h, A(i, h, f))
          BY <4>1, <4>2
        <4>4. A(i, n, f) = all[n - h][i + h][all[h][i][f]]
          BY <1>4, <4>1, <4>2, <4>3
        <4> QED
          BY <3>2, <4>4 DEF h
      <3> QED
        BY <3>1, <3>2
    <2> HIDE DEF value
    <2>2. ASSUME NEW n \in Nat, NEW i \in Nat
          PROVE  [f \in Finders |-> A(i, n, f)] = [f \in Finders |-> value(all, n, i, f)]
      BY <2>1
    <2>3. ASSUME NEW n \in Nat
          PROVE  [i \in Nat |-> [f \in Finders |-> A(i, n, f)]]
                   = [i \in Nat |-> [f \in Finders |-> value(all, n, i, f)]]
      BY <2>2, Zenon
    <2> QED
      BY <2>3, Zenon
  <1>7. Is(run)
    <2> HIDE DEF Is
    <2> QED
      BY <1>6
  <1> HIDE DEF run, all
  <1> DEFINE S == {n \in Nat : \A m \in 0 .. n : \A i \in Nat, f \in Finders : run[m][i][f] = A(i, m, f)}
  <1>v. ASSUME NEW n \in Nat, NEW i \in Nat, NEW f \in Finders
        PROVE  run[n][i][f] = value(run, n, i, f)
    <2> HIDE DEF value
    <2>1. run[n] = [j \in Nat |-> [e \in Finders |-> value(run, n, j, e)]]
      BY <1>7
    <2>2. run[n][i] = [e \in Finders |-> value(run, n, i, e)]
      BY <2>1
    <2> QED
      BY <2>2
  <1>8. \A i \in Nat, f \in Finders : run[0][i][f] = A(i, 0, f) /\ run[1][i][f] = A(i, 1, f)
    BY <1>3, <1>v
  <1>9. 0 \in S
    BY <1>8
  <1>10. ASSUME NEW n \in S PROVE n + 1 \in S
    <2>1. ASSUME NEW m \in 0 .. n + 1, NEW i \in Nat, NEW f \in Finders
              PROVE run[m][i][f] = A(i, m, f)
      <3>1. CASE m = 0 \/ m = 1
        BY <1>8, <3>1
      <3>2. CASE m # 0 /\ m # 1
        <4> DEFINE h == m \div 2
        <4>0. m \in Nat /\ n \in Nat
          OBVIOUS
        <4>1. h \in Nat /\ m - h \in Nat /\ h \in 0 .. m /\ h \in 0 .. n /\ m - h \in 0 .. n
          BY <1>h, <3>2, <4>0
        <4>2. run[m][i][f] = run[m - h][i + h][run[h][i][f]]
          <5>1. run[m][i][f] = value(run, m, i, f)
            <6> HIDE DEF value, h
            <6> QED
              BY <1>v, <4>0
          <5> QED
            BY <3>2, <5>1
        <4> HIDE DEF h
        <4>3. \A k \in 0 .. n : \A j \in Nat, e \in Finders : run[k][j][e] = A(j, k, e)
          OBVIOUS
        <4>4. run[h][i][f] = A(i, h, f) /\ A(i, h, f) \in Finders /\ i + h \in Nat
          BY <1>2, <4>1, <4>3
        <4>5. run[m - h][i + h][A(i, h, f)] = A(i + h, m - h, A(i, h, f))
          BY <4>1, <4>3, <4>4
        <4> QED
          BY <1>4, <4>0, <4>1, <4>2, <4>4, <4>5
      <3> QED
        BY <3>1, <3>2
    <2> QED
      BY <2>1
  <1>11. S = Nat
    <2> HIDE DEF S
    <2>1. S \subseteq Nat
      BY DEF S
    <2> QED
      BY <1>9, <1>10, <2>1, SetInduction
  <1>12. run[N][from][start] = A(from, N, start)
    BY <1>0, <1>5, <1>11
  <1> QED
    BY <1>1, <1>12 DEF A, start, N
------------------------------------------------------------------------------
(* Where things are in an upload.                                           *)

Begin(u, k) == Len(u.head) + Len(PartsText(u, k))     \* part k + 1 begins behind it
NameOf(u, k) == u.boundary \o Crlf \o u.parts[k].header

\* The first parts are the beginning of all of them.
LEMMA FirstParts ==
    ASSUME NEW u \in Uploads, NEW k \in 0 .. Len(u.parts)
    PROVE  \A m \in k .. Len(u.parts) :
              /\ Len(PartsText(u, k)) <= Len(PartsText(u, m))
              /\ \A i \in 1 .. Len(PartsText(u, k)) : PartsText(u, m)[i] = PartsText(u, k)[i]
  <1> DEFINE K == Len(u.parts)
             t(n) == PartsText(u, n)
             S == {n \in Nat : k + n <= K =>
                      /\ Len(t(k)) <= Len(t(k + n))
                      /\ \A i \in 1 .. Len(t(k)) : t(k + n)[i] = t(k)[i]}
  <1>0. K \in Nat /\ k \in Nat /\ k <= K
    BY UploadIs
  <1>1. \A n \in 0 .. K : t(n) \in Seq(Chars) /\ Len(t(n)) \in Nat
    BY PartsTextIs, LenProperties
  <1>2. ASSUME NEW n \in 1 .. K
        PROVE  Joined(Chars, t(n - 1), PartText(u, u.parts[n]), t(n))
    <2>1. t(n) = t(n - 1) \o PartText(u, u.parts[n]) /\ n - 1 \in 0 .. K
      BY <1>0, PartsTextIs
    <2>2. t(n - 1) \in Seq(Chars) /\ PartText(u, u.parts[n]) \in Seq(Chars)
      BY <1>1, <2>1, PartTextIs
    <2> QED
      BY <2>1, <2>2, Joins
  <1>3. ASSUME NEW n \in 1 .. K
        PROVE  /\ Len(t(n - 1)) <= Len(t(n))
               /\ \A i \in 1 .. Len(t(n - 1)) : t(n)[i] = t(n - 1)[i]
    <2>1. Len(PartText(u, u.parts[n])) \in Nat /\ Len(t(n - 1)) \in Nat
      <3>1. n - 1 \in 0 .. K
        BY <1>0
      <3>2. PartText(u, u.parts[n]) \in Seq(Chars)
        BY PartTextIs
      <3> QED
        BY <1>1, <3>1, <3>2, LenProperties
    <2> QED
      BY <1>2, <2>1 DEF Joined
  <1> HIDE DEF t, K
  <1>4. 0 \in S
    <2>1. k + 0 = k /\ k \in 0 .. K
      BY <1>0
    <2> QED
      BY <1>1, <2>1
  <1>5. ASSUME NEW n \in S PROVE n + 1 \in S
    <2>1. SUFFICES ASSUME k + (n + 1) <= K
                   PROVE  /\ Len(t(k)) <= Len(t(k + (n + 1)))
                          /\ \A i \in 1 .. Len(t(k)) : t(k + (n + 1))[i] = t(k)[i]
      OBVIOUS
    <2>2. /\ k + n <= K /\ (k + (n + 1)) - 1 = k + n /\ k + (n + 1) \in 1 .. K
          /\ k + n \in 0 .. K /\ k \in 0 .. K /\ k + (n + 1) \in 0 .. K
      BY <1>0, <2>1
    <2>3. /\ Len(t(k)) <= Len(t(k + n))
          /\ \A i \in 1 .. Len(t(k)) : t(k + n)[i] = t(k)[i]
      BY <2>2
    <2>4. /\ Len(t(k + n)) <= Len(t(k + (n + 1)))
          /\ \A i \in 1 .. Len(t(k + n)) : t(k + (n + 1))[i] = t(k + n)[i]
      BY <1>3, <2>2
    <2>5. Len(t(k)) \in Nat /\ Len(t(k + n)) \in Nat /\ Len(t(k + (n + 1))) \in Nat
      BY <1>1, <2>2
    <2> QED
      BY <2>3, <2>4, <2>5
  <1>6. S = Nat
    <2> HIDE DEF S
    <2>1. S \subseteq Nat
      BY DEF S
    <2> QED
      BY <1>4, <1>5, <2>1, SetInduction
  <1>7. ASSUME NEW m \in k .. K
        PROVE  /\ Len(t(k)) <= Len(t(m))
               /\ \A i \in 1 .. Len(t(k)) : t(m)[i] = t(k)[i]
    <2>1. m - k \in Nat /\ k + (m - k) = m /\ m <= K
      BY <1>0
    <2>2. m - k \in S
      <3> HIDE DEF S
      <3> QED
        BY <1>6, <2>1
    <2> QED
      BY <2>1, <2>2
  <1> QED
    BY <1>7 DEF t, K

LEMMA TextIs ==
    ASSUME NEW u \in Uploads
    PROVE  LET t == PartsText(u, Len(u.parts))
               e == Begin(u, Len(u.parts))
           IN  /\ Text(u) \in Seq(Chars) /\ Len(Text(u)) \in Nat /\ e \in Nat
               /\ Len(Text(u)) = e + (Len(u.boundary) + 4) + Len(u.rest)
               /\ Len(u.head) \in Nat /\ Len(u.boundary) \in Nat /\ Len(u.rest) \in Nat
               /\ \A i \in 1 .. Len(t) : Text(u)[Len(u.head) + i] = t[i]
               /\ \A i \in 1 .. Len(u.boundary) + 2 :
                     /\ Text(u)[e + i] = Delimiter(u)[i]
                     /\ Text(u)[(e + 2) + i] = (u.boundary \o Dashes)[i]
  <1> DEFINE h == u.head
             r == u.rest
             t == PartsText(u, Len(u.parts))
             b == Len(u.boundary)
             d == Delimiter(u)
             x == t \o d
             y == x \o Dashes
             z == y \o r
             w == h \o z
             c == u.boundary \o Dashes
  <1>1. h \in Seq(Chars) /\ u.boundary \in Seq(Chars) /\ r \in Seq(Chars)
    BY UploadIs
  <1>2. Len(h) \in Nat /\ b \in Nat /\ Len(r) \in Nat
    BY <1>1, LenProperties
  <1>3. t \in Seq(Chars) /\ Len(t) \in Nat
    <2>1. Len(u.parts) \in 0 .. Len(u.parts)
      BY UploadIs
    <2>2. t \in Seq(Chars)
      BY <2>1, PartsTextIs
    <2> QED
      BY <2>2, LenProperties
  <1>4. Joined(Chars, Dashes, u.boundary, d) /\ Len(d) = b + 2 /\ d \in Seq(Chars)
    BY DelimiterIs DEF Joined
  <1>5. Text(u) = w
    BY DEF Text, Body
  <1>6. Joined(Chars, u.boundary, Dashes, c)
    BY <1>1, Signs, Joins
  <1>d. Dashes \in Seq(Chars) /\ Len(Dashes) = 2 /\ Dashes[1] = "-" /\ Dashes[2] = "-"
    BY Signs
  <1> DEFINE e == Begin(u, Len(u.parts))
  <1>e. e = Len(h) + Len(t)
    BY DEF Begin
  <1> HIDE DEF t, b, d, c, e, h, r
  <1>n. e \in Nat
    BY <1>2, <1>3, <1>e
  <1>7. Joined(Chars, t, d, x) /\ x \in Seq(Chars)
    BY <1>3, <1>4, Joins
  <1> HIDE DEF x
  <1>8. Joined(Chars, x, Dashes, y) /\ y \in Seq(Chars)
    BY <1>7, <1>d, Joins
  <1> HIDE DEF y
  <1>9. Joined(Chars, y, r, z) /\ z \in Seq(Chars)
    BY <1>1, <1>8, Joins
  <1> HIDE DEF z
  <1>10. Joined(Chars, h, z, w) /\ w \in Seq(Chars)
    BY <1>1, <1>9, Joins
  <1> HIDE DEF w
  <1>11. /\ Len(x) = Len(t) + b + 2 /\ Len(y) = Len(t) + b + 4
         /\ Len(z) = Len(t) + b + 4 + Len(r) /\ Len(w) = Len(h) + Len(z)
    <2>1. Len(x) = Len(t) + Len(d)
      BY <1>7 DEF Joined
    <2>2. Len(y) = Len(x) + Len(Dashes)
      BY <1>8 DEF Joined
    <2>3. Len(z) = Len(y) + Len(r)
      BY <1>9 DEF Joined
    <2>4. Len(w) = Len(h) + Len(z)
      BY <1>10 DEF Joined
    <2> QED
      BY <1>2, <1>3, <1>4, <1>d, <2>1, <2>2, <2>3, <2>4
  <1>12. \A i \in 1 .. Len(t) + b + 4 : w[Len(h) + i] = y[i]
    <2> TAKE i \in 1 .. Len(t) + b + 4
    <2>1. z[i] = y[i]
      BY <1>9, <1>11 DEF Joined
    <2>2. i \in 1 .. Len(z)
      BY <1>2, <1>3, <1>11
    <2> QED
      BY <1>10, <2>1, <2>2 DEF Joined
  <1>13. \A i \in 1 .. Len(t) + b + 2 : w[Len(h) + i] = x[i]
    <2> TAKE i \in 1 .. Len(t) + b + 2
    <2>1. y[i] = x[i]
      BY <1>8, <1>11 DEF Joined
    <2>2. i \in 1 .. Len(t) + b + 4
      BY <1>2, <1>3
    <2> QED
      BY <1>12, <2>1, <2>2
  <1>14. \A i \in 1 .. Len(t) : w[Len(h) + i] = t[i]
    <2> TAKE i \in 1 .. Len(t)
    <2>1. x[i] = t[i]
      BY <1>7 DEF Joined
    <2>2. i \in 1 .. Len(t) + b + 2
      BY <1>2, <1>3
    <2> QED
      BY <1>13, <2>1, <2>2
  <1>15. \A i \in 1 .. b + 2 : w[e + i] = d[i]
    <2> TAKE i \in 1 .. b + 2
    <2>1. x[Len(t) + i] = d[i]
      BY <1>4, <1>7 DEF Joined
    <2>2. Len(t) + i \in 1 .. Len(t) + b + 2 /\ e + i = Len(h) + (Len(t) + i)
      BY <1>2, <1>3, <1>e
    <2> QED
      BY <1>13, <2>1, <2>2
  <1>16. \A i \in 1 .. b + 2 : w[(e + 2) + i] = c[i]
    <2> TAKE i \in 1 .. b + 2
    <2>1. CASE i <= b
      <3>1. i + 2 \in 1 .. b + 2 /\ (e + 2) + i = e + (i + 2) /\ 2 + i = i + 2 /\ i \in 1 .. b
        BY <1>2, <1>n, <2>1
      <3>2. d[2 + i] = u.boundary[i] /\ c[i] = u.boundary[i]
        BY <1>4, <1>6, <1>d, <3>1 DEF Joined, b
      <3> QED
        BY <1>15, <3>1, <3>2
    <2>2. CASE i > b
      <3>1. i = b + (i - b) /\ i - b \in 1 .. 2 /\ i - b \in {1, 2}
        BY <1>2, <2>2
      <3>2. c[i] = Dashes[i - b]
        BY <1>6, <1>d, <3>1 DEF Joined, b
      <3>3. /\ (e + 2) + i = Len(h) + (Len(x) + (i - b)) /\ i - b \in 1 .. Len(Dashes)
            /\ Len(x) + (i - b) \in 1 .. Len(t) + b + 4
        BY <1>2, <1>3, <1>11, <1>d, <1>e, <3>1
      <3>4. y[Len(x) + (i - b)] = Dashes[i - b]
        BY <1>8, <3>3 DEF Joined
      <3> QED
        BY <1>12, <3>2, <3>3, <3>4
    <2> QED
      BY <1>2, <2>1, <2>2
  <1>17. Len(w) = e + (b + 4) + Len(r) /\ Len(w) \in Nat
    BY <1>2, <1>3, <1>11, <1>e
  <1> QED
    BY <1>2, <1>5, <1>10, <1>14, <1>15, <1>16, <1>17, <1>n DEF t, b, d, c, e, h, r

\* Where its part number k is.
LEMMA PartAt ==
    ASSUME NEW u \in Uploads, NEW k \in 1 .. Len(u.parts)
    PROVE  LET p == Begin(u, k - 1)
               file == u.parts[k].file
               a == p + Lead(u, k)
               z == a + Len(file)
           IN  /\ p \in Nat /\ Lead(u, k) \in Nat /\ Len(file) \in Nat /\ Len(u.head) <= p
               /\ Lead(u, k) >= Len(u.boundary) + 4
               /\ Begin(u, k) = z + 2 /\ z + 2 <= Begin(u, Len(u.parts))
               /\ FileAt(u, k) = (a + 1) .. z
               /\ Text(u)[z + 1] = "CR" /\ Text(u)[z + 2] = "LF"
               /\ \A i \in 1 .. Len(file) : Text(u)[a + i] = file[i]
               /\ \A i \in 1 .. Len(u.boundary) + 2 : Text(u)[p + i] = Delimiter(u)[i]
               /\ NameOf(u, k) \in Seq(Chars) /\ Len(NameOf(u, k)) = Lead(u, k) - 2
               /\ \A i \in 1 .. Lead(u, k) - 2 : Text(u)[(p + 2) + i] = NameOf(u, k)[i]
  <1> DEFINE K == Len(u.parts)
             p == Begin(u, k - 1)
             file == u.parts[k].file
             header == u.parts[k].header
             b == Len(u.boundary)
             l == Lead(u, k)
             text == PartText(u, u.parts[k])
             t(n) == PartsText(u, n)
             h == Len(u.head)
             bd == u.boundary
             T == Text(u)
             d == Delimiter(u)
             name == NameOf(u, k)
  <1>0. k \in Nat /\ k - 1 \in 0 .. K /\ k \in 0 .. K /\ K \in k .. K /\ K \in Nat
    BY UploadIs
  <1>1. /\ text \in Seq(Chars) /\ l \in Nat /\ Len(file) \in Nat /\ Len(header) \in Nat
        /\ Len(text) = l + Len(file) + 2
        /\ Len(d \o Crlf \o header) = l
        /\ \A i \in 1 .. Len(d) : text[i] = d[i]
        /\ text[b + 3] = "CR" /\ text[b + 4] = "LF"
        /\ \A i \in 1 .. Len(header) : text[(b + 4) + i] = header[i]
        /\ \A i \in 1 .. Len(file) : text[l + i] = file[i]
        /\ text[l + Len(file) + 1] = "CR" /\ text[l + Len(file) + 2] = "LF"
    BY PartTextIs
  <1>2. t(k - 1) \in Seq(Chars) /\ t(k) \in Seq(Chars) /\ t(k) = t(k - 1) \o text
    BY <1>0, PartsTextIs
  <1>3. Len(t(k - 1)) \in Nat /\ Len(t(k)) \in Nat
    BY <1>2, LenProperties
  <1>4. Joined(Chars, t(k - 1), text, t(k))
    BY <1>1, <1>2, Joins
  <1>5. /\ Len(t(k)) <= Len(t(K)) /\ \A i \in 1 .. Len(t(k)) : t(K)[i] = t(k)[i]
    BY <1>0, FirstParts
  <1>6. /\ h \in Nat /\ b \in Nat /\ \A i \in 1 .. Len(t(K)) : T[h + i] = t(K)[i]
    BY TextIs
  <1>k. Len(t(K)) \in Nat
    <2>1. K \in 0 .. K
      BY <1>0
    <2>2. t(K) \in Seq(Chars)
      BY <2>1, PartsTextIs
    <2> QED
      BY <2>2, LenProperties
  <1>7. p = h + Len(t(k - 1)) /\ Begin(u, k) = h + Len(t(k)) /\ Begin(u, K) = h + Len(t(K))
    BY DEF Begin
  <1>8. l = b + 4 + Len(header)
    BY DEF Lead
  <1>9. FileAt(u, k) = ((h + Len(t(k - 1)) + l) + 1) .. ((h + Len(t(k - 1)) + l) + Len(file))
    BY <1>1 DEF FileAt
  <1>10. /\ Len(d) = b + 2 /\ Joined(Chars, Dashes, bd, d)
    BY DelimiterIs
  <1>11. bd \in Seq(Chars) /\ header \in Seq(Chars) /\ name = bd \o Crlf \o header
    BY UploadIs DEF NameOf
  <1>12. Crlf \in Seq(Chars) /\ Len(Crlf) = 2 /\ Crlf[1] = "CR" /\ Crlf[2] = "LF" /\ Len(Dashes) = 2
    BY Signs
  <1>b. b = Len(bd)
    OBVIOUS
  <1> HIDE DEF file, header, text, h, bd, T, d, name, l, p, b, t, K
  <1>13. Len(t(k)) = Len(t(k - 1)) + l + Len(file) + 2
    BY <1>1, <1>4 DEF Joined
  <1>14. ASSUME NEW i \in 1 .. Len(text) PROVE T[p + i] = text[i]
    <2>1. t(k)[Len(t(k - 1)) + i] = text[i]
      BY <1>4 DEF Joined
    <2>2. Len(t(k - 1)) + i \in 1 .. Len(t(k)) /\ Len(t(k - 1)) + i \in 1 .. Len(t(K))
      <3> DEFINE x == Len(t(k - 1))
                 y == Len(t(k))
                 e == Len(t(K))
                 r == Len(text)
      <3>1. x \in Nat /\ y \in Nat /\ e \in Nat /\ y <= e /\ y = x + r /\ r \in Nat /\ i \in 1 .. r
        BY <1>1, <1>3, <1>4, <1>5, <1>k, LenProperties DEF Joined
      <3> HIDE DEF x, y, e, r
      <3>2. x + i \in 1 .. y /\ x + i \in 1 .. e
        BY <3>1
      <3> QED
        BY <3>2 DEF x, y, e
    <2>3. p + i = h + (Len(t(k - 1)) + i)
      BY <1>3, <1>6, <1>7
    <2> QED
      BY <1>5, <1>6, <2>1, <2>2, <2>3
  <1>15. p \in Nat /\ h <= p /\ Begin(u, k) = (p + l) + Len(file) + 2 /\ Begin(u, k) <= Begin(u, K)
    <2> DEFINE x == Len(t(k - 1))
               y == Len(t(k))
               fl == Len(file)
               e == Len(t(K))
    <2>1. x \in Nat /\ y \in Nat /\ y <= e /\ h \in Nat /\ e \in Nat /\ y = x + l + fl + 2
          /\ p = h + x /\ Begin(u, k) = h + y /\ Begin(u, K) = h + e /\ fl \in Nat /\ l \in Nat
      BY <1>1, <1>3, <1>5, <1>6, <1>7, <1>13, <1>k
    <2> HIDE DEF x, y, fl, e
    <2>2. /\ p \in Nat /\ h <= p /\ Begin(u, k) = (p + l) + fl + 2 /\ Begin(u, k) <= Begin(u, K)
      BY <2>1
    <2> QED
      BY <2>2 DEF fl
  <1>16. T[(p + l + Len(file)) + 1] = "CR" /\ T[(p + l + Len(file)) + 2] = "LF"
    <2>1. /\ l + Len(file) + 1 \in 1 .. Len(text) /\ l + Len(file) + 2 \in 1 .. Len(text)
          /\ (p + l + Len(file)) + 1 = p + (l + Len(file) + 1)
          /\ (p + l + Len(file)) + 2 = p + (l + Len(file) + 2)
      BY <1>1, <1>15
    <2> QED
      BY <1>1, <1>14, <2>1
  <1>17. ASSUME NEW i \in 1 .. Len(file) PROVE T[(p + l) + i] = file[i]
    <2>1. l + i \in 1 .. Len(text) /\ (p + l) + i = p + (l + i)
      BY <1>1, <1>15
    <2> QED
      BY <1>1, <1>14, <2>1
  <1>18. ASSUME NEW i \in 1 .. b + 2 PROVE T[p + i] = d[i]
    <2>1. i \in 1 .. Len(text) /\ i \in 1 .. Len(d)
      BY <1>1, <1>6, <1>8, <1>10
    <2> QED
      BY <1>1, <1>14, <2>1
  <1> DEFINE x == bd \o Crlf
  <1>19. Joined(Chars, bd, Crlf, x) /\ x \in Seq(Chars)
    BY <1>11, <1>12, Joins
  <1>20. Joined(Chars, x, header, x \o header) /\ x \o header \in Seq(Chars)
    BY <1>11, <1>19, Joins
  <1>21. name = x \o header
    BY <1>11
  <1> HIDE DEF x
  <1>22. Len(x) = b + 2
    BY <1>12, <1>19, <1>b DEF Joined
  <1>23. Len(name) = l - 2 /\ name \in Seq(Chars)
    <2>1. Len(name) = Len(x) + Len(header) /\ name \in Seq(Chars)
      BY <1>20, <1>21 DEF Joined
    <2> QED
      BY <1>1, <1>6, <1>8, <1>22, <2>1
  <1>24. ASSUME NEW i \in 1 .. l - 2 PROVE T[(p + 2) + i] = name[i]
    <2>0. i + 2 \in 1 .. Len(text) /\ (p + 2) + i = p + (i + 2) /\ T[p + (i + 2)] = text[i + 2]
      <3>1. i + 2 \in 1 .. Len(text) /\ (p + 2) + i = p + (i + 2)
        BY <1>1, <1>15
      <3> QED
        BY <1>14, <3>1
    <2>1. CASE i <= b
      <3>1. i + 2 \in 1 .. Len(d) /\ 2 + i = i + 2 /\ i \in 1 .. Len(bd) /\ i \in 1 .. Len(x)
        BY <1>6, <1>10, <1>22, <1>b, <2>1
      <3>2. d[2 + i] = bd[i]
        BY <1>10, <1>12, <3>1 DEF Joined
      <3>3. x[i] = bd[i] /\ name[i] = x[i]
        BY <1>19, <1>20, <1>21, <3>1 DEF Joined
      <3> QED
        BY <1>1, <2>0, <3>1, <3>2, <3>3
    <2>2. CASE i > b /\ i <= b + 2
      <3>1. i \in 1 .. Len(x) /\ i - b \in {1, 2} /\ i - b \in 1 .. Len(Crlf)
                /\ i = Len(bd) + (i - b)
        BY <1>6, <1>12, <1>22, <1>b, <2>2
      <3>2. x[i] = Crlf[i - b] /\ name[i] = x[i]
        BY <1>19, <1>20, <1>21, <3>1 DEF Joined
      <3>3. text[i + 2] = Crlf[i - b]
        <4>1. CASE i - b = 1
          <5>1. i + 2 = b + 3
            BY <1>6, <4>1
          <5> QED
            BY <1>1, <1>12, <4>1, <5>1
        <4>2. CASE i - b = 2
          <5>1. i + 2 = b + 4
            BY <1>6, <4>2
          <5> QED
            BY <1>1, <1>12, <4>2, <5>1
        <4> QED
          BY <3>1, <4>1, <4>2
      <3> QED
        BY <2>0, <3>2, <3>3
    <2>3. CASE i > b + 2
      <3>1. i - (b + 2) \in 1 .. Len(header) /\ i = Len(x) + (i - (b + 2))
                /\ i + 2 = (b + 4) + (i - (b + 2))
        BY <1>1, <1>6, <1>8, <1>22, <2>3
      <3>2. name[i] = header[i - (b + 2)]
        BY <1>20, <1>21, <3>1 DEF Joined
      <3>3. text[i + 2] = header[i - (b + 2)]
        BY <1>1, <3>1
      <3> QED
        BY <2>0, <3>2, <3>3
    <2> QED
      BY <1>6, <2>1, <2>2, <2>3
  <1>25. FileAt(u, k) = ((p + l) + 1) .. ((p + l) + Len(file))
    BY <1>7, <1>9
  <1>26. l >= b + 4
    BY <1>1, <1>6, <1>8
  <1> QED
    BY <1>1, <1>15, <1>16, <1>17, <1>18, <1>23, <1>24, <1>25, <1>26
       DEF file, header, text, h, bd, T, d, name, l, p, b, t, K

\* The delimiters between the parts, and the last one.
LEMMA DelimiterAt ==
    ASSUME NEW u \in Uploads, NEW k \in 0 .. Len(u.parts)
    PROVE  /\ Begin(u, k) \in Nat /\ Begin(u, k) <= Begin(u, Len(u.parts))
           /\ \A i \in 1 .. Len(u.boundary) + 2 : Text(u)[Begin(u, k) + i] = Delimiter(u)[i]
  <1>1. CASE k = Len(u.parts)
    BY <1>1, TextIs
  <1>2. CASE k # Len(u.parts)
    <2>1. k + 1 \in 1 .. Len(u.parts) /\ (k + 1) - 1 = k
      BY <1>2, UploadIs
    <2>2. /\ Begin(u, (k + 1) - 1) \in Nat /\ Lead(u, k + 1) \in Nat
              /\ Len(u.parts[k + 1].file) \in Nat
          /\ (Begin(u, (k + 1) - 1) + Lead(u, k + 1)) + Len(u.parts[k + 1].file) + 2 <= Begin(u, Len(u.parts))
          /\ \A i \in 1 .. Len(u.boundary) + 2 : Text(u)[Begin(u, (k + 1) - 1) + i] = Delimiter(u)[i]
      BY <2>1, PartAt
    <2>3. Begin(u, Len(u.parts)) \in Nat
      BY TextIs
    <2> QED
      BY <2>1, <2>2, <2>3
  <1> QED
    BY <1>1, <1>2

LEMMA FirstBegin ==
    ASSUME NEW u \in Uploads
    PROVE  Begin(u, 0) = Len(u.head)
  <1>1. PartsText(u, 0) = <<>> /\ Len(u.head) \in Nat
    BY PartsTextIs, TextIs
  <1>2. Len(<<>>) = 0
    BY EmptySeq
  <1> QED
    BY <1>1, <1>2 DEF Begin
Follows(bound, text, p) == IsPrefix(bound, SubSeq(text, p + 1, Len(text)))

\* What the turn at position p does, which leads to state s.
TurnFits(e, g, s, ch, p) ==
    /\ g.state = s
    /\ g.number = (IF e.state = Quotation /\ s = FileName THEN e.number + 1 ELSE e.number)
    /\ g.files = (IF e.state = BlankLine /\ s = FileContent
                  THEN [e.files EXCEPT ![e.number].buf = Begins(p)]
                  ELSE IF e.state \in {FileContent, MinusSign} /\ ch = "-"
                  THEN [e.files EXCEPT ![e.number].end = IF s = 0 THEN p - 3 ELSE p - 2]
                  ELSE e.files)

LEMMA Turned ==
    ASSUME NEW text, NEW bound, NEW i \in Nat, NEW n \in Nat, NEW f \in Finders
    PROVE  LET e == After(text, bound, i, n, f)
               g == After(text, bound, i, n + 1, f)
               d == Follows(bound, text, i + n)
           IN  /\ e \in Finders /\ g \in Finders /\ d \in BOOLEAN
               /\ TurnFits(e, g, NextState(e.state, text[i + n], d), text[i + n], i + n)
  <1> DEFINE e == After(text, bound, i, n, f)
             g == After(text, bound, i, n + 1, f)
  <1>1. e \in Finders
    BY AfterIs
  <1>2. n + 1 \in Nat
    OBVIOUS
  <1>3. g \in Finders
    BY <1>2, AfterIs
  <1>4. g = MimeStep(text, e, i + n, bound)
    BY AfterOneMore
  <1>5. Follows(bound, text, i + n) \in BOOLEAN
    BY DEF Follows, IsPrefix
  <1> DEFINE d == Follows(bound, text, i + n)
             s == NextState(e.state, text[i + n], d)
             nb == IF e.state = Quotation /\ s = FileName THEN e.number + 1 ELSE e.number
             fs == IF e.state = BlankLine /\ s = FileContent
                   THEN [e.files EXCEPT ![e.number].buf = Begins(i + n)]
                   ELSE IF e.state \in {FileContent, MinusSign} /\ text[i + n] = "-"
                   THEN [e.files EXCEPT ![e.number].end = IF s = 0 THEN (i + n) - 3 ELSE (i + n) - 2]
                   ELSE e.files
  <1> HIDE DEF e, g
  <1>6. g = [state |-> s, number |-> nb, files |-> fs]
    BY <1>4 DEF MimeStep, Follows
  <1> HIDE DEF s, nb, fs
  <1>7. g.state = s /\ g.number = nb /\ g.files = fs
    BY <1>6
  <1> HIDE DEF d
  <1> QED
    BY <1>1, <1>3, <1>5, <1>7, Zenon DEF e, g, s, nb, fs, d, TurnFits

\* The finder e follows f: in state s, a file may begin at x.
Followed(e, f, s, x) ==
    /\ e.state = s
    /\ e.number = (IF s < FileName THEN f.number ELSE f.number + 1)
    /\ e.files = (IF s = FileContent THEN [f.files EXCEPT ![f.number + 1].buf = x] ELSE f.files)

\* A text w from position q on, in which a file begins at the earliest behind its
\* end: the finder f goes through the states of w.
LEMMA FollowName ==
    ASSUME NEW text, NEW bound, NEW q \in Nat, NEW w \in Seq(Chars), NEW f \in Finders, f.state = 0,
           \A j \in 1 .. Len(w) : text[q + j] = w[j],
           \A j \in 0 .. Len(w) - 1 : NameStates(w)[j] < FileContent
    PROVE  \A j \in 0 .. Len(w) :
              Followed(After(text, bound, q + 1, j, f), f, NameStates(w)[j], (q + j) + 1)
  <1> DEFINE E(j) == After(text, bound, q + 1, j, f)
             st(j) == NameStates(w)[j]
             nb(s) == IF s < FileName THEN f.number ELSE f.number + 1
             fs(s, j) == IF s = FileContent THEN [f.files EXCEPT ![f.number + 1].buf = (q + j) + 1]
                         ELSE f.files
             Good(j) == E(j).state = st(j) /\ E(j).number = nb(st(j)) /\ E(j).files = fs(st(j), j)
             L == Len(w)
             S == {j \in Nat : j <= L => Good(j)}
  <1>0. L \in Nat /\ q + 1 \in Nat /\ f.number \in Nat
    BY LenProperties DEF Finders
  <1>1. /\ st(0) = 0 /\ \A j \in 0 .. L : st(j) \in 0 .. MinusSign
        /\ \A j \in 1 .. L : st(j) = NextState(st(j - 1), w[j], FALSE)
    BY NameStatesAre
  <1>2. /\ \A j \in 1 .. L : text[q + j] = w[j]
        /\ \A j \in 0 .. L - 1 : st(j) < FileContent
    OBVIOUS
  <1>3. E(0) = f
    BY <1>0, AfterFew
  <1>4. ASSUME NEW j \in Nat
        PROVE  LET d == Follows(bound, text, (q + 1) + j)
               IN  /\ d \in BOOLEAN
                   /\ TurnFits(E(j), E(j + 1), NextState(E(j).state, text[(q + 1) + j], d),
                               text[(q + 1) + j], (q + 1) + j)
    BY <1>0, Turned
  <1> HIDE DEF E, st, L
  <1>5. 0 \in S
    <2>1. nb(0) = f.number /\ fs(0, 0) = f.files
      BY DEF FileName, FileContent
    <2> QED
      BY <1>1, <1>3, <2>1
  <1>6. ASSUME NEW j \in S PROVE j + 1 \in S
    <2>1. SUFFICES ASSUME j + 1 <= L PROVE Good(j + 1)
      OBVIOUS
    <2>0. j \in Nat /\ (j <= L => Good(j))
      BY DEF S
    <2> HIDE DEF S, Good, fs, nb
    <2>2. /\ j \in Nat /\ j \in 0 .. L - 1 /\ j \in 0 .. L /\ j + 1 \in 1 .. L /\ j + 1 \in 0 .. L
          /\ (j + 1) - 1 = j /\ (q + 1) + j = q + (j + 1)
      BY <1>0, <2>0, <2>1
    <2>3. E(j).state = st(j) /\ E(j).number = nb(st(j)) /\ E(j).files = fs(st(j), j)
      BY <2>0, <2>2 DEF Good
    <2> DEFINE d == Follows(bound, text, (q + 1) + j)
               s == st(j)
               r == NextState(s, w[j + 1], d)
    <2>4. s \in 0 .. MinusSign /\ s < FileContent /\ text[(q + 1) + j] = w[j + 1] /\ d \in BOOLEAN
      BY <1>1, <1>2, <1>4, <2>2
    <2>5. StateFits(s, w[j + 1], r, NextState(s, w[j + 1], FALSE))
      BY <2>4, NextStateIs
    <2>6. /\ r = st(j + 1)
          /\ r \in 0 .. MinusSign
          /\ r = FileContent => s = BlankLine
          /\ s < FileName => r < FileName \/ (s = Quotation /\ r = FileName)
          /\ FileName <= s => r >= FileName
      BY <1>1, <2>2, <2>4, <2>5 DEF StateFits
    <2>7. /\ E(j + 1).state = r
          /\ E(j + 1).number = (IF s = Quotation /\ r = FileName THEN nb(s) + 1 ELSE nb(s))
          /\ E(j + 1).files = (IF s = BlankLine /\ r = FileContent
                               THEN [fs(s, j) EXCEPT ![nb(s)].buf = Begins((q + 1) + j)]
                               ELSE IF s \in {FileContent, MinusSign} /\ text[(q + 1) + j] = "-"
                               THEN [fs(s, j) EXCEPT ![nb(s)].end =
                                        IF r = 0 THEN ((q + 1) + j) - 3 ELSE ((q + 1) + j) - 2]
                               ELSE fs(s, j))
      <3>1. TurnFits(E(j), E(j + 1), NextState(E(j).state, text[(q + 1) + j], d), text[(q + 1) + j], (q + 1) + j)
        BY <1>4, <2>2
      <3>2. TurnFits(E(j), E(j + 1), r, w[j + 1], (q + 1) + j)
        BY <2>3, <2>4, <3>1
      <3> HIDE DEF r, d
      <3> QED
        BY <2>3, <2>4, <3>2 DEF TurnFits
    <2> HIDE DEF s, r, d
    <2>8. s \notin {FileContent, MinusSign} /\ fs(s, j) = f.files
      BY <2>4 DEF FileContent, MinusSign, fs
    <2>9. E(j + 1).number = nb(r)
      <3>1. CASE s < FileName /\ r < FileName
        BY <1>0, <2>4, <2>7, <3>1 DEF nb, Quotation, FileName
      <3>2. CASE s = Quotation /\ r = FileName
        BY <1>0, <2>7, <3>2 DEF nb, Quotation, FileName
      <3>3. CASE FileName <= s /\ FileName <= r
        <4>1. ~(s < FileName) /\ ~(r < FileName) /\ ~(s = Quotation /\ r = FileName)
          BY <2>4, <2>6, <3>3 DEF Quotation, FileName, MinusSign
        <4>2. E(j + 1).number = nb(s)
          BY <2>7, <4>1
        <4> QED
          BY <4>1, <4>2 DEF nb
      <3> QED
        BY <2>4, <2>6, <3>1, <3>2, <3>3 DEF FileName, MinusSign
    <2>10. E(j + 1).files = fs(r, j + 1)
      <3>1. Begins((q + 1) + j) = (q + (j + 1)) + 1
        BY <2>2 DEF Begins
      <3>2. s = BlankLine => nb(s) = f.number + 1
        BY DEF BlankLine, FileName, nb
      <3>3. CASE r = FileContent
        BY <2>6, <2>7, <2>8, <3>1, <3>2, <3>3 DEF fs
      <3>4. CASE r # FileContent
        BY <2>7, <2>8, <3>4 DEF fs
      <3> QED
        BY <3>3, <3>4
    <2> QED
      BY <2>6, <2>7, <2>9, <2>10 DEF Good
  <1>7. S = Nat
    <2> HIDE DEF S
    <2>1. S \subseteq Nat
      BY DEF S
    <2> QED
      BY <1>5, <1>6, <2>1, SetInduction
  <1>8. \A j \in 0 .. L : Good(j)
    <2>1. \A j \in 0 .. L : j \in Nat /\ j <= L
      BY <1>0
    <2> HIDE DEF Good
    <2> QED
      BY <1>7, <2>1
  <1> QED
    BY <1>8, Zenon DEF E, st, L, Followed

------------------------------------------------------------------------------
(* Files and delimiters.                                                    *)

Before(u, k) == Begin(u, k - 1) + Lead(u, k)     \* file number k is behind it
Until(u, k) == Before(u, k) + Len(u.parts[k].file)

LEMMA FileIs ==
    ASSUME NEW u \in Uploads, NEW k \in 1 .. Len(u.parts)
    PROVE  LET a == Before(u, k)
               z == Until(u, k)
               b == Len(u.boundary)
           IN  /\ a \in Nat /\ z \in Nat /\ a <= z /\ b \in Nat
               /\ Len(u.head) \in Nat /\ Len(u.head) + b + 4 <= a
               /\ Begin(u, k) = z + 2 /\ z + 2 <= Begin(u, Len(u.parts))
               /\ z + 2 + b + 4 <= Len(Text(u)) /\ Len(Text(u)) \in Nat
               /\ FileAt(u, k) = (a + 1) .. z
               /\ Text(u)[z + 1] = "CR" /\ Text(u)[z + 2] = "LF"
  <1>1. /\ Begin(u, k - 1) \in Nat /\ Lead(u, k) \in Nat /\ Len(u.parts[k].file) \in Nat
        /\ Len(u.head) <= Begin(u, k - 1) /\ Lead(u, k) >= Len(u.boundary) + 4
        /\ Begin(u, k) = (Begin(u, k - 1) + Lead(u, k)) + Len(u.parts[k].file) + 2
        /\ (Begin(u, k - 1) + Lead(u, k)) + Len(u.parts[k].file) + 2 <= Begin(u, Len(u.parts))
        /\ FileAt(u, k) = ((Begin(u, k - 1) + Lead(u, k)) + 1) ..
                             ((Begin(u, k - 1) + Lead(u, k)) + Len(u.parts[k].file))
        /\ Text(u)[((Begin(u, k - 1) + Lead(u, k)) + Len(u.parts[k].file)) + 1] = "CR"
        /\ Text(u)[((Begin(u, k - 1) + Lead(u, k)) + Len(u.parts[k].file)) + 2] = "LF"
    BY PartAt, SMTT(20)
  <1>2. /\ Len(Text(u)) = Begin(u, Len(u.parts)) + (Len(u.boundary) + 4) + Len(u.rest)
        /\ Len(u.head) \in Nat /\ Len(u.boundary) \in Nat /\ Len(u.rest) \in Nat
        /\ Begin(u, Len(u.parts)) \in Nat
    BY TextIs
  <1> DEFINE h == Len(u.head)
             b == Len(u.boundary)
             r == Len(u.rest)
             N == Len(Text(u))
             fl == Len(u.parts[k].file)
             l == Lead(u, k)
             p == Begin(u, k - 1)
             c == Begin(u, k)
             e == Begin(u, Len(u.parts))
             a == Before(u, k)
             z == Until(u, k)
  <1>3. a = p + l /\ z = a + fl
    BY DEF Before, Until
  <1> HIDE DEF h, b, r, N, fl, l, p, c, e, a, z
  <1>4. p \in Nat /\ l \in Nat /\ fl \in Nat /\ h <= p /\ l >= b + 4 /\ c = (p + l) + fl + 2
            /\ (p + l) + fl + 2 <= e
    BY <1>1 DEF h, b, fl, l, p, c, e
  <1>5. N = e + (b + 4) + r /\ h \in Nat /\ b \in Nat /\ r \in Nat /\ e \in Nat
    BY <1>2 DEF h, b, r, N, e
  <1>6. /\ a \in Nat /\ z \in Nat /\ a <= z /\ b \in Nat /\ h \in Nat /\ h + b + 4 <= a
        /\ c = z + 2 /\ z + 2 <= e /\ z + 2 + b + 4 <= N /\ N \in Nat
    BY <1>3, <1>4, <1>5
  <1>7. /\ FileAt(u, k) = ((p + l) + 1) .. ((p + l) + fl)
        /\ Text(u)[((p + l) + fl) + 1] = "CR" /\ Text(u)[((p + l) + fl) + 2] = "LF"
    BY <1>1 DEF fl, l, p
  <1>8. /\ FileAt(u, k) = (a + 1) .. z
        /\ Text(u)[z + 1] = "CR" /\ Text(u)[z + 2] = "LF"
    BY <1>3, <1>7
  <1> QED
    BY <1>6, <1>8 DEF h, b, r, N, fl, l, p, c, e, a, z

\* What it is to be a prefix of a part of a text.
LEMMA PrefixMeans ==
    ASSUME NEW s \in Seq(Chars), NEW t \in Seq(Chars), NEW m \in 1 .. Len(t) + 1
    PROVE  IsPrefix(s, SubSeq(t, m, Len(t))) <=>
              /\ Len(s) <= Len(t) + 1 - m
              /\ \A i \in 1 .. Len(s) : t[(m - 1) + i] = s[i]
  <1> DEFINE v == SubSeq(t, m, Len(t))
             L == Len(s)
             N == Len(t)
             w == SubSeq(v, 1, L)
  <1>1. L \in Nat /\ N \in Nat /\ m \in Int /\ \A i \in 1 .. N : t[i] \in Chars
    BY LenProperties, ElementOfSeq
  <1>2. /\ v \in Seq(Chars) /\ Len(v) = N + 1 - m /\ \A i \in 1 .. N + 1 - m : v[i] = t[(m - 1) + i]
    <2>1. \A i \in m .. N : t[i] \in Chars
      BY <1>1
    <2>2. /\ v \in Seq(Chars) /\ Len(v) = IF m <= N THEN N - m + 1 ELSE 0
          /\ \A i \in 1 .. N - m + 1 : v[i] = t[m + i - 1]
      BY <1>1, <2>1, SubSeqProperties
    <2>3. \A i \in 1 .. N + 1 - m : i \in 1 .. N - m + 1 /\ m + i - 1 = (m - 1) + i
      BY <1>1
    <2>4. (IF m <= N THEN N - m + 1 ELSE 0) = N + 1 - m
      BY <1>1
    <2> HIDE DEF v, N
    <2> QED
      BY <2>2, <2>3, <2>4
  <1>3. IsPrefix(s, v) <=> L <= Len(v) /\ s = w
    BY SubSeqFull DEF IsPrefix
  <1> HIDE DEF v
  <1>4. ASSUME L <= Len(v)
        PROVE  s = w <=> \A i \in 1 .. L : v[i] = s[i]
    <2>1. \A i \in 1 .. L : v[i] \in Chars
      BY <1>1, <1>2, <1>4, ElementOfSeq
    <2>2. /\ w \in Seq(Chars) /\ Len(w) = IF 1 <= L THEN L - 1 + 1 ELSE 0
          /\ \A i \in 1 .. L - 1 + 1 : w[i] = v[1 + i - 1]
      BY <1>1, <2>1, SubSeqProperties
    <2>3. \A i \in 1 .. L : i \in 1 .. L - 1 + 1 /\ 1 + i - 1 = i
      BY <1>1
    <2>4. (IF 1 <= L THEN L - 1 + 1 ELSE 0) = L
      BY <1>1
    <2> HIDE DEF w
    <2>5. Len(w) = L /\ \A i \in 1 .. L : w[i] = v[i]
      BY <2>2, <2>3, <2>4
    <2>6. (\A i \in 1 .. L : v[i] = s[i]) => s = w
      BY <2>2, <2>5, SeqEqual
    <2> QED
      BY <2>5, <2>6
  <1>5. L <= N + 1 - m => (\A i \in 1 .. L : v[i] = s[i])
            <=> (\A i \in 1 .. L : t[(m - 1) + i] = s[i])
    <2>1. ASSUME L <= N + 1 - m, NEW i \in 1 .. L PROVE v[i] = t[(m - 1) + i]
      <3>1. i \in 1 .. N + 1 - m
        BY <1>1, <2>1
      <3> QED
        BY <1>2, <3>1
    <2> QED
      BY <2>1
  <1> HIDE DEF L, N, w
  <1>6. IsPrefix(s, v) <=> L <= N + 1 - m /\ \A i \in 1 .. L : t[(m - 1) + i] = s[i]
    BY <1>2, <1>3, <1>4, <1>5
  <1> QED
    BY <1>6 DEF v, L, N

\* No delimiter begins in a file.
LEMMA NoDelimiter ==
    ASSUME NEW u \in Uploads, NEW k \in 1 .. Len(u.parts),
           NEW p \in Before(u, k) .. Until(u, k) - 1,
           \A i \in 1 .. Len(Delimiter(u)) : Text(u)[p + i] = Delimiter(u)[i]
    PROVE  FALSE
  <1> DEFINE a == Before(u, k)
             z == Until(u, k)
             b == Len(u.boundary)
             d == Delimiter(u)
             file == u.parts[k].file
             T == Text(u)
             bd == u.boundary
             fl == Len(file)
  <1>1. a \in Nat /\ z \in Nat /\ b \in Nat /\ T[z + 1] = "CR"
    BY FileIs
  <1>2. fl \in Nat /\ z = a + fl /\ \A i \in 1 .. fl : T[a + i] = file[i]
    <2>1. /\ Len(u.parts[k].file) \in Nat
          /\ \A i \in 1 .. Len(u.parts[k].file) :
                T[(Begin(u, k - 1) + Lead(u, k)) + i] = u.parts[k].file[i]
      BY PartAt
    <2> QED
      BY <2>1 DEF Before, Until
  <1>3. Len(d) = b + 2 /\ Joined(Chars, Dashes, bd, d) /\ d \in Seq(Chars)
    BY DelimiterIs DEF Joined
  <1>4. file \in Seq(Chars)
    BY UploadIs
  <1>5. \A i \in 1 .. b : bd[i] \notin {"CR", "LF"}
    BY FormsAreRead
  <1>6. \A i \in 1 .. fl : ~IsPrefix(d, SubSeq(file, i, Len(file)))
    BY FormsAreRead
  <1>7. Len(Dashes) = 2 /\ Dashes[1] = "-" /\ Dashes[2] = "-"
    BY Signs
  <1>8. p \in a .. z - 1 /\ \A i \in 1 .. Len(d) : T[p + i] = d[i]
    OBVIOUS
  <1>9. b = Len(bd) /\ fl = Len(file)
    OBVIOUS
  <1> HIDE DEF a, z, b, d, file, T, bd, fl
  <1>10. CASE p + (b + 2) <= z
    <2> DEFINE m == (p - a) + 1
    <2>1. m \in 1 .. fl /\ m \in 1 .. fl + 1
      BY <1>1, <1>2, <1>8
    <2>2. Len(d) <= fl + 1 - m
      BY <1>1, <1>2, <1>3, <1>8, <1>10
    <2>3. ASSUME NEW i \in 1 .. Len(d) PROVE file[(m - 1) + i] = d[i]
      <3>1. (m - 1) + i \in 1 .. fl /\ a + ((m - 1) + i) = p + i
        BY <1>1, <1>2, <1>3, <1>8, <1>10
      <3> QED
        BY <1>2, <1>8, <3>1
    <2> HIDE DEF m
    <2>4. IsPrefix(d, SubSeq(file, m, Len(file)))
      BY <1>3, <1>4, <1>9, <2>1, <2>2, <2>3, PrefixMeans
    <2> QED
      BY <1>6, <2>1, <2>4
  <1>11. CASE p + (b + 2) > z
    <2> DEFINE i == (z + 1) - p
    <2>1. i \in 1 .. Len(d) /\ p + i = z + 1
      BY <1>1, <1>3, <1>8, <1>11
    <2>2. d[i] = "CR"
      BY <1>1, <1>8, <2>1
    <2>3. i >= 2
      BY <1>1, <1>8
    <2> HIDE DEF i
    <2>4. CASE i = 2
      <3>1. d[2] = "-"
        BY <1>3, <1>7 DEF Joined
      <3> QED
        BY <2>2, <2>4, <3>1
    <2>5. CASE i > 2
      <3>1. i - 2 \in 1 .. Len(bd) /\ 2 + (i - 2) = i
        BY <1>1, <1>3, <1>9, <2>1, <2>5
      <3>2. d[i] = bd[i - 2]
        BY <1>3, <1>7, <3>1 DEF Joined
      <3> QED
        BY <1>5, <1>9, <2>2, <3>1, <3>2
    <2> QED
      BY <2>1, <2>3, <2>4, <2>5
  <1> QED
    BY <1>1, <1>8, <1>10, <1>11

\* A text that is sent up to its token n.
Cut(u, n) == SubSeq(Text(u), 1, n)

LEMMA CutIs ==
    ASSUME NEW u \in Uploads, NEW n \in 0 .. Len(Text(u))
    PROVE  /\ Cut(u, n) \in Seq(Chars) /\ Len(Cut(u, n)) = n /\ n \in Nat
           /\ \A i \in 1 .. n : Cut(u, n)[i] = Text(u)[i]
           /\ n = Len(Text(u)) => Cut(u, n) = Text(u)
  <1>1. Text(u) \in Seq(Chars) /\ Len(Text(u)) \in Nat
    BY TextIs
  <1>2. \A i \in 1 .. n : Text(u)[i] \in Chars
    BY <1>1, ElementOfSeq
  <1> DEFINE T == Text(u)
  <1> HIDE DEF T
  <1>3. /\ SubSeq(T, 1, n) \in Seq(Chars)
        /\ Len(SubSeq(T, 1, n)) = IF 1 <= n THEN n - 1 + 1 ELSE 0
        /\ \A i \in 1 .. n - 1 + 1 : SubSeq(T, 1, n)[i] = T[1 + i - 1]
    BY <1>2, SubSeqProperties DEF T
  <1>4. n \in Nat /\ n - 1 + 1 = n /\ \A i \in 1 .. n : 1 + i - 1 = i
    BY <1>1
  <1>5. (IF 1 <= n THEN n - 1 + 1 ELSE 0) = n
    BY <1>4
  <1>6. n = Len(T) => SubSeq(T, 1, n) = T
    BY <1>1, SubSeqFull DEF T
  <1>7. \A i \in 1 .. n : SubSeq(T, 1, n)[i] = T[i]
    BY <1>3, <1>4
  <1> QED
    BY <1>3, <1>4, <1>5, <1>6, <1>7 DEF Cut, T

LEMMA FollowsMeans ==
    ASSUME NEW u \in Uploads, NEW n \in 0 .. Len(Text(u)), NEW x \in 0 .. n
    PROVE  Follows(u.boundary, Cut(u, n), x) <=>
              /\ Len(u.boundary) <= n - x
              /\ \A i \in 1 .. Len(u.boundary) : Text(u)[x + i] = u.boundary[i]
  <1> DEFINE t == Cut(u, n)
             bd == u.boundary
             T == Text(u)
             b == Len(bd)
  <1>1. t \in Seq(Chars) /\ Len(t) = n /\ n \in Nat /\ \A i \in 1 .. n : t[i] = T[i]
    BY CutIs
  <1>2. bd \in Seq(Chars) /\ b \in Nat
    BY UploadIs, LenProperties
  <1> HIDE DEF t, bd, T
  <1>3. x + 1 \in 1 .. Len(t) + 1 /\ (x + 1) - 1 = x /\ Len(t) + 1 - (x + 1) = n - x /\ x \in Nat
    BY <1>1
  <1>4. IsPrefix(bd, SubSeq(t, x + 1, Len(t))) <=>
           /\ b <= Len(t) + 1 - (x + 1)
           /\ \A i \in 1 .. b : t[((x + 1) - 1) + i] = bd[i]
    BY <1>1, <1>2, <1>3, PrefixMeans
  <1> HIDE DEF b
  <1>5. b <= n - x => \A i \in 1 .. b : t[x + i] = T[x + i]
    <2> SUFFICES ASSUME b <= n - x, NEW i \in 1 .. b PROVE t[x + i] = T[x + i]
      OBVIOUS
    <2>1. x + i \in 1 .. n
      BY <1>1, <1>2, <1>3
    <2> QED
      BY <1>1, <2>1
  <1>6. Follows(bd, t, x) <=> b <= n - x /\ \A i \in 1 .. b : T[x + i] = bd[i]
    BY <1>3, <1>4, <1>5 DEF Follows
  <1> QED
    BY <1>6 DEF t, bd, T, b

\* A byte of the content of a file, or behind it.
LEMMA ContentTurn ==
    ASSUME NEW e \in Finders, NEW g \in Finders, NEW s, NEW ch, NEW p \in Nat,
           e.state \in {FileContent, MinusSign}, e.number \in 1 .. MaxFiles,
           s \in {0, FileContent, MinusSign}, TurnFits(e, g, s, ch, p)
    PROVE  /\ g.state = s /\ g.number = e.number
           /\ \A i \in 1 .. MaxFiles : i # e.number => g.files[i] = e.files[i]
           /\ g.files[e.number].buf = e.files[e.number].buf
           /\ ch = "-" => g.files[e.number].end = IF s = 0 THEN p - 3 ELSE p - 2
           /\ ch # "-" => g.files = e.files
  <1> USE DEF Quotation, FileName, Enter, BlankLine, FileContent, MinusSign
  <1> DEFINE k == e.number
             fs == e.files
             y == IF s = 0 THEN p - 3 ELSE p - 2
  <1>1. g.state = s /\ g.number = e.number
    BY DEF TurnFits
  <1>2. g.files = IF ch = "-" THEN [fs EXCEPT ![k].end = y] ELSE fs
    BY DEF TurnFits
  <1>3. fs \in [1 .. MaxFiles -> [buf : Int, end : Int]] /\ k \in 1 .. MaxFiles
    BY DEF Finders
  <1> DEFINE gs == g.files
  <1>4. y \in Int
    OBVIOUS
  <1> HIDE DEF fs, k, y
  <1>5. ch = "-" => /\ \A i \in 1 .. MaxFiles : i # k => gs[i] = fs[i]
                    /\ gs[k].buf = fs[k].buf
                    /\ gs[k].end = y
    BY <1>2, <1>3, <1>4
  <1>6. ch # "-" => gs = fs
    BY <1>2
  <1> HIDE DEF gs
  <1>7. /\ \A i \in 1 .. MaxFiles : i # k => gs[i] = fs[i]
        /\ gs[k].buf = fs[k].buf
    BY <1>5, <1>6
  <1> QED
    BY <1>1, <1>5, <1>6, <1>7 DEF fs, k, gs, y

\* The finder e, at position p in the file number k or in front of it.
InContent(u, k, e, p) ==
    /\ e \in Finders /\ e.state \in {FileContent, MinusSign} /\ e.number = k
    /\ p \in Before(u, k) .. Until(u, k)
    /\ e.state = MinusSign => p > Before(u, k) /\ Text(u)[p] = "-"

SameButEnd(k, e, g) ==
    /\ \A i \in 1 .. MaxFiles : i # k => g.files[i] = e.files[i]
    /\ g.files[k].buf = e.files[k].buf

LEMMA FileStep ==
    ASSUME NEW u \in Uploads, NEW k \in 1 .. Len(u.parts), NEW n \in 0 .. Len(Text(u)),
           NEW e, NEW g \in Finders, NEW p, p < Until(u, k), p < n, InContent(u, k, e, p),
           LET d == Follows(u.boundary, Cut(u, n), p + 1)
           IN  TurnFits(e, g, NextState(e.state, Cut(u, n)[p + 1], d), Cut(u, n)[p + 1], p + 1)
    PROVE  InContent(u, k, g, p + 1) /\ SameButEnd(k, e, g)
  <1> DEFINE d == Follows(u.boundary, Cut(u, n), p + 1)
             t == Cut(u, n)
             T == Text(u)
             a == Before(u, k)
             z == Until(u, k)
             ch == T[p + 1]
             s == NextState(e.state, ch, d)
             b == Len(u.boundary)
  <1>1. a \in Nat /\ z \in Nat /\ b \in Nat /\ n \in Nat /\ p \in a .. z - 1 /\ p \in Nat
    <2>1. a \in Nat /\ z \in Nat /\ b \in Nat
      BY FileIs
    <2>2. n \in Nat
      BY CutIs
    <2>3. p \in a .. z
      BY DEF InContent
    <2> QED
      BY <2>1, <2>2, <2>3
  <1>2. p + 1 \in 1 .. n /\ p + 1 \in 0 .. n /\ p + 1 \in Nat
    BY <1>1
  <1>3. t[p + 1] = ch
    BY <1>2, CutIs
  <1>4. k \in 1 .. MaxFiles /\ e \in Finders /\ e.state \in {FileContent, MinusSign} /\ e.number = k
    <2>1. Len(u.parts) <= MaxFiles
      BY FormsAreRead
    <2>2. Len(u.parts) \in Nat /\ MaxFiles \in Nat
      BY UploadIs, UploadBounds
    <2> QED
      BY <2>1, <2>2 DEF InContent
  <1>5. d \in BOOLEAN
    BY DEF Follows, IsPrefix
  <1>6. ASSUME e.state = MinusSign, ch = "-", d PROVE FALSE
    <2>1. p > a /\ T[p] = "-"
      BY <1>6 DEF InContent
    <2>2. \A i \in 1 .. b : T[(p + 1) + i] = u.boundary[i]
      BY <1>2, <1>6, FollowsMeans
    <2>3. p - 1 \in a .. z - 1
      BY <1>1, <2>1
    <2>4. Len(Delimiter(u)) = b + 2 /\ Joined(Chars, Dashes, u.boundary, Delimiter(u))
      BY DelimiterIs
    <2>5. Len(Dashes) = 2 /\ Dashes[1] = "-" /\ Dashes[2] = "-"
      BY Signs
    <2>6. ASSUME NEW i \in 1 .. Len(Delimiter(u)) PROVE T[(p - 1) + i] = Delimiter(u)[i]
      <3>1. CASE i = 1
        <4>1. (p - 1) + i = p /\ Delimiter(u)[i] = "-"
          BY <1>1, <2>4, <2>5, <3>1 DEF Joined
        <4> QED
          BY <2>1, <4>1
      <3>2. CASE i = 2
        <4>1. (p - 1) + i = p + 1 /\ Delimiter(u)[i] = "-"
          BY <1>1, <2>4, <2>5, <3>2 DEF Joined
        <4> QED
          BY <1>6, <4>1
      <3>3. CASE i > 2
        <4> HIDE DEF b
        <4>1. i - 2 \in 1 .. b /\ (p - 1) + i = (p + 1) + (i - 2) /\ i = 2 + (i - 2)
          BY <1>1, <2>4, <3>3
        <4>2. i - 2 \in 1 .. Len(u.boundary)
          BY <4>1 DEF b
        <4>3. Delimiter(u)[2 + (i - 2)] = u.boundary[i - 2]
          BY <2>4, <2>5, <4>2 DEF Joined
        <4> QED
          BY <2>2, <4>1, <4>3
      <3> QED
        BY <1>1, <2>4, <3>1, <3>2, <3>3
    <2> HIDE DEF a, z
    <2> QED
      BY <2>3, <2>6, NoDelimiter DEF a, z
  <1>7. /\ NextState(FileContent, ch, d) = IF ch = "-" THEN MinusSign ELSE FileContent
        /\ NextState(MinusSign, ch, d) = IF ch # "-" THEN FileContent ELSE IF d THEN 0 ELSE MinusSign
    BY <1>5, ContentStep
  <1>8. s = IF ch = "-" THEN MinusSign ELSE FileContent
    BY <1>4, <1>6, <1>7
  <1>9. TurnFits(e, g, s, ch, p + 1)
    BY <1>3
  <1> HIDE DEF s, ch, d
  <1>10. /\ g.state = s /\ g.number = e.number
         /\ \A i \in 1 .. MaxFiles : i # e.number => g.files[i] = e.files[i]
         /\ g.files[e.number].buf = e.files[e.number].buf
    <2>1. s \in {0, FileContent, MinusSign}
      BY <1>8
    <2> QED
      BY <1>2, <1>4, <1>9, <2>1, ContentTurn
  <1>11. SameButEnd(k, e, g)
    BY <1>4, <1>10 DEF SameButEnd
  <1>12. p + 1 \in a .. z /\ p + 1 > a
    BY <1>1
  <1>13. MinusSign # FileContent
    BY DEF MinusSign, FileContent
  <1>14. InContent(u, k, g, p + 1)
    BY <1>4, <1>8, <1>10, <1>12, <1>13 DEF InContent, ch
  <1> QED
    BY <1>11, <1>14

LEMMA FileGoesOn ==
    ASSUME NEW u \in Uploads, NEW k \in 1 .. Len(u.parts), NEW n \in 0 .. Len(Text(u)),
           NEW f, NEW p, InContent(u, k, f, p),
           NEW m \in Nat, p + m <= Until(u, k), p + m <= n
    PROVE  /\ InContent(u, k, After(Cut(u, n), u.boundary, p + 1, m, f), p + m)
           /\ SameButEnd(k, f, After(Cut(u, n), u.boundary, p + 1, m, f))
  <1> DEFINE E(j) == After(Cut(u, n), u.boundary, p + 1, j, f)
             z == Until(u, k)
             S == {j \in Nat : j <= m => InContent(u, k, E(j), p + j) /\ SameButEnd(k, f, E(j))}
  <1>1. Before(u, k) \in Nat /\ z \in Nat /\ n \in Nat
    <2>1. Before(u, k) \in Nat /\ z \in Nat
      BY FileIs
    <2>2. n \in Nat
      BY CutIs
    <2> QED
      BY <2>1, <2>2
  <1>2. p \in Before(u, k) .. z /\ f \in Finders
    BY DEF InContent
  <1>3. p \in Nat /\ p + 1 \in Nat
    BY <1>1, <1>2
  <1>4. E(0) = f
    BY <1>2, <1>3, AfterFew
  <1>5. p + m <= z /\ p + m <= n
    OBVIOUS
  <1>6. ASSUME NEW j \in Nat
        PROVE  LET d == Follows(u.boundary, Cut(u, n), (p + 1) + j)
               IN  /\ E(j) \in Finders /\ E(j + 1) \in Finders
                   /\ TurnFits(E(j), E(j + 1), NextState(E(j).state, Cut(u, n)[(p + 1) + j], d),
                               Cut(u, n)[(p + 1) + j], (p + 1) + j)
    BY <1>2, <1>3, Turned
  <1> HIDE DEF E, z
  <1>7. 0 \in S
    <2>1. InContent(u, k, f, p + 0) /\ SameButEnd(k, f, f)
      <3>1. p + 0 = p
        BY <1>3
      <3> QED
        BY <3>1 DEF SameButEnd
    <2> QED
      BY <1>4, <2>1
  <1>8. ASSUME NEW j \in S PROVE j + 1 \in S
    <2>0. j \in Nat
      OBVIOUS
    <2>1. SUFFICES ASSUME j + 1 <= m
                   PROVE  InContent(u, k, E(j + 1), p + (j + 1)) /\ SameButEnd(k, f, E(j + 1))
      BY <2>0
    <2>2. InContent(u, k, E(j), p + j) /\ SameButEnd(k, f, E(j))
      BY <2>0, <2>1
    <2>3. p + j < z /\ p + j < n /\ (p + 1) + j = (p + j) + 1 /\ p + (j + 1) = (p + j) + 1
      BY <1>1, <1>3, <1>5, <2>0, <2>1
    <2>4. LET d == Follows(u.boundary, Cut(u, n), (p + j) + 1)
          IN  TurnFits(E(j), E(j + 1), NextState(E(j).state, Cut(u, n)[(p + j) + 1], d),
                       Cut(u, n)[(p + j) + 1], (p + j) + 1)
      BY <1>6, <2>0, <2>3
    <2>5. E(j + 1) \in Finders
      BY <1>6, <2>0
    <2>6. InContent(u, k, E(j + 1), (p + j) + 1) /\ SameButEnd(k, E(j), E(j + 1))
      BY <2>2, <2>3, <2>4, <2>5, FileStep DEF z
    <2>7. SameButEnd(k, f, E(j + 1))
      BY <2>2, <2>6 DEF SameButEnd
    <2> QED
      BY <2>3, <2>6, <2>7
  <1>9. S = Nat
    <2> HIDE DEF S
    <2>1. S \subseteq Nat
      BY DEF S
    <2> QED
      BY <1>7, <1>8, <2>1, SetInduction
  <1>10. InContent(u, k, E(m), p + m) /\ SameButEnd(k, f, E(m))
    BY <1>9
  <1> QED
    BY <1>10 DEF E

LEMMA PartsFit ==
    ASSUME NEW u \in Uploads, NEW k \in 1 .. Len(u.parts)
    PROVE  k \in 1 .. MaxFiles /\ k \in Nat /\ MaxFiles \in Nat
  <1>1. Len(u.parts) <= MaxFiles
    BY FormsAreRead
  <1>2. Len(u.parts) \in Nat /\ MaxFiles \in Nat
    BY UploadIs, UploadBounds
  <1> QED
    BY <1>1, <1>2

\* The delimiter that follows a file ends it.
LEMMA FileEnds ==
    ASSUME NEW u \in Uploads, NEW k \in 1 .. Len(u.parts),
           NEW f, NEW p, InContent(u, k, f, p)
    PROVE  LET z == Until(u, k)
               g == After(Text(u), u.boundary, p + 1, (z + 4) - p, f)
           IN  /\ g \in Finders /\ g.state = 0 /\ g.number = k
               /\ SameButEnd(k, f, g) /\ g.files[k].end = z + 1
  <1> DEFINE T == Text(u)
             N == Len(T)
             bd == u.boundary
             b == Len(bd)
             z == Until(u, k)
             E(x) == After(T, bd, p + 1, (z - p) + x, f)
  <1>1. /\ Before(u, k) \in Nat /\ z \in Nat /\ b \in Nat /\ N \in Nat /\ z + 2 + b + 4 <= N
        /\ Begin(u, k) = z + 2 /\ T[z + 1] = "CR" /\ T[z + 2] = "LF"
    BY FileIs
  <1>2. p \in Before(u, k) .. z /\ f \in Finders
    BY DEF InContent
  <1>3. p \in Nat /\ p + 1 \in Nat /\ z - p \in Nat
    BY <1>1, <1>2
  <1>4. N \in 0 .. N /\ Cut(u, N) = T
    <2>1. N \in 0 .. N
      BY <1>1
    <2> QED
      BY <2>1, CutIs
  <1>5. \A i \in 1 .. b + 2 : T[(z + 2) + i] = Delimiter(u)[i]
    <2>1. k \in 0 .. Len(u.parts)
      BY UploadIs
    <2> QED
      BY <1>1, <2>1, DelimiterAt
  <1>6. Joined(Chars, Dashes, bd, Delimiter(u)) /\ Len(Dashes) = 2 /\ Dashes[1] = "-"
            /\ Dashes[2] = "-"
    BY DelimiterIs, Signs
  <1>7. T[z + 3] = "-" /\ T[z + 4] = "-"
    <2>1. Delimiter(u)[1] = "-" /\ Delimiter(u)[2] = "-"
      BY <1>6 DEF Joined
    <2>2. 1 \in 1 .. b + 2 /\ 2 \in 1 .. b + 2 /\ (z + 2) + 1 = z + 3 /\ (z + 2) + 2 = z + 4
      <3> HIDE DEF z, b, N, T, bd
      <3> QED
        BY <1>1
    <2> QED
      BY <1>5, <2>1, <2>2
  <1>8. Follows(bd, T, z + 4)
    <2>1. ASSUME NEW i \in 1 .. b PROVE T[(z + 4) + i] = bd[i]
      <3>1. 2 + i \in 1 .. b + 2 /\ (z + 2) + (2 + i) = (z + 4) + i
        <4> HIDE DEF z, b, N, T, bd
        <4> QED
          BY <1>1
      <3>2. Delimiter(u)[2 + i] = bd[i]
        BY <1>6 DEF Joined
      <3> QED
        BY <1>5, <3>1, <3>2
    <2>2. z + 4 \in 0 .. N /\ b <= N - (z + 4)
      <3> HIDE DEF z, b, N, T, bd
      <3> QED
        BY <1>1
    <2> QED
      BY <1>4, <2>1, <2>2, FollowsMeans
  <1>9. InContent(u, k, E(0), z) /\ SameButEnd(k, f, E(0))
    <2>1. z - p \in Nat /\ p + (z - p) <= z /\ p + (z - p) <= N /\ (z - p) + 0 = z - p
              /\ p + (z - p) = z
      <3> HIDE DEF z, b, N, T, bd
      <3> QED
        BY <1>1, <1>3
    <2> QED
      BY <1>4, <2>1, FileGoesOn
  <1>10. ASSUME NEW x \in 0 .. 3
         PROVE  LET d == Follows(bd, T, (z + 1) + x)
                IN  /\ E(x) \in Finders /\ E(x + 1) \in Finders /\ d \in BOOLEAN
                    /\ TurnFits(E(x), E(x + 1), NextState(E(x).state, T[(z + 1) + x], d),
                                T[(z + 1) + x], (z + 1) + x)
    <2>1. (z - p) + x \in Nat /\ ((z - p) + x) + 1 = (z - p) + (x + 1)
              /\ (p + 1) + ((z - p) + x) = (z + 1) + x
      <3> HIDE DEF z, b, N, T, bd
      <3> QED
        BY <1>1, <1>3
    <2>2. LET d == Follows(bd, T, (p + 1) + ((z - p) + x))
                IN  /\ E(x) \in Finders /\ After(T, bd, p + 1, ((z - p) + x) + 1, f) \in Finders
                          /\ d \in BOOLEAN
                    /\ TurnFits(E(x), After(T, bd, p + 1, ((z - p) + x) + 1, f),
                                NextState(E(x).state, T[(p + 1) + ((z - p) + x)], d),
                                T[(p + 1) + ((z - p) + x)], (p + 1) + ((z - p) + x))
      BY <1>2, <1>3, <2>1, Turned
    <2> QED
      BY <2>1, <2>2
  <1>k. k \in 1 .. MaxFiles
    BY PartsFit
  <1> HIDE DEF E
  <1>n. \A d \in BOOLEAN : \A ch :
            /\ NextState(FileContent, ch, d) = IF ch = "-" THEN MinusSign ELSE FileContent
            /\ NextState(MinusSign, ch, d) =
                 IF ch # "-" THEN FileContent ELSE IF d THEN 0 ELSE MinusSign
    BY ContentStep
  <1>11. /\ E(0) \in Finders /\ E(0).state \in {FileContent, MinusSign} /\ E(0).number = k
         /\ SameButEnd(k, f, E(0))
    BY <1>9 DEF InContent
  <1> HIDE DEF z, T, bd, b, N
  <1>t. ASSUME NEW e \in Finders, NEW g \in Finders, NEW s \in {0, FileContent, MinusSign},
            NEW ch, NEW x \in Nat,
               e.state \in {FileContent, MinusSign}, e.number = k, SameButEnd(k, f, e),
               TurnFits(e, g, s, ch, x)
        PROVE  /\ g.state = s /\ g.number = k /\ SameButEnd(k, f, g)
               /\ ch = "-" => g.files[k].end = IF s = 0 THEN x - 3 ELSE x - 2
    <2>1. /\ g.state = s /\ g.number = e.number
          /\ \A i \in 1 .. MaxFiles : i # e.number => g.files[i] = e.files[i]
          /\ g.files[e.number].buf = e.files[e.number].buf
          /\ ch = "-" => g.files[e.number].end = IF s = 0 THEN x - 3 ELSE x - 2
      BY <1>k, <1>t, ContentTurn
    <2> QED
      BY <1>t, <2>1 DEF SameButEnd
  <1>12. E(1) \in Finders /\ E(1).state = FileContent /\ E(1).number = k /\ SameButEnd(k, f, E(1))
    <2>1. 0 \in 0 .. 3 /\ 0 + 1 = 1 /\ (z + 1) + 0 = z + 1 /\ z + 1 \in Nat
      BY <1>1
    <2> DEFINE d == Follows(bd, T, z + 1)
    <2>2. d \in BOOLEAN /\ E(1) \in Finders
              /\ TurnFits(E(0), E(1), NextState(E(0).state, T[z + 1], d), T[z + 1], z + 1)
      BY <1>10, <2>1
    <2> HIDE DEF d
    <2>3. NextState(E(0).state, T[z + 1], d) = FileContent
      BY <1>1, <1>11, <1>n, <2>2
    <2> QED
      BY <1>11, <1>t, <2>1, <2>2, <2>3
  <1>13. E(2) \in Finders /\ E(2).state = FileContent /\ E(2).number = k /\ SameButEnd(k, f, E(2))
    <2>1. 1 \in 0 .. 3 /\ 1 + 1 = 2 /\ (z + 1) + 1 = z + 2 /\ z + 2 \in Nat
      BY <1>1
    <2> DEFINE d == Follows(bd, T, z + 2)
    <2>2. d \in BOOLEAN /\ E(2) \in Finders
              /\ TurnFits(E(1), E(2), NextState(E(1).state, T[z + 2], d), T[z + 2], z + 2)
      BY <1>10, <2>1
    <2> HIDE DEF d
    <2>3. NextState(E(1).state, T[z + 2], d) = FileContent
      BY <1>1, <1>12, <1>n, <2>2
    <2> QED
      BY <1>12, <1>t, <2>1, <2>2, <2>3
  <1>14. E(3) \in Finders /\ E(3).state = MinusSign /\ E(3).number = k /\ SameButEnd(k, f, E(3))
    <2>1. 2 \in 0 .. 3 /\ 2 + 1 = 3 /\ (z + 1) + 2 = z + 3 /\ z + 3 \in Nat
      BY <1>1
    <2> DEFINE d == Follows(bd, T, z + 3)
    <2>2. d \in BOOLEAN /\ E(3) \in Finders
              /\ TurnFits(E(2), E(3), NextState(E(2).state, T[z + 3], d), T[z + 3], z + 3)
      BY <1>10, <2>1
    <2> HIDE DEF d
    <2>3. NextState(E(2).state, T[z + 3], d) = MinusSign
      BY <1>7, <1>13, <1>n, <2>2
    <2> QED
      BY <1>13, <1>t, <2>1, <2>2, <2>3
  <1>15. E(4) \in Finders /\ E(4).state = 0 /\ E(4).number = k /\ SameButEnd(k, f, E(4))
            /\ E(4).files[k].end = z + 1
    <2>1. 3 \in 0 .. 3 /\ 3 + 1 = 4 /\ (z + 1) + 3 = z + 4 /\ z + 4 \in Nat /\ (z + 4) - 3 = z + 1
      BY <1>1
    <2> DEFINE d == Follows(bd, T, z + 4)
    <2>2. d \in BOOLEAN /\ E(4) \in Finders
              /\ TurnFits(E(3), E(4), NextState(E(3).state, T[z + 4], d), T[z + 4], z + 4)
      BY <1>10, <2>1
    <2>d. d
      BY <1>8
    <2> HIDE DEF d
    <2>3. NextState(E(3).state, T[z + 4], d) = 0
      BY <1>7, <1>14, <1>n, <2>2, <2>d
    <2>4. TurnFits(E(3), E(4), 0, "-", z + 4)
      BY <1>7, <2>2, <2>3
    <2> QED
      BY <1>14, <1>t, <2>1, <2>2, <2>4
  <1>16. (z - p) + 4 = (z + 4) - p
    BY <1>1, <1>3
  <1> QED
    BY <1>15, <1>16 DEF E, z, T, bd, b, N

\* Where a name ends: behind a blank line.
LEMMA NameIs ==
    ASSUME NEW u \in Uploads, NEW k \in 1 .. Len(u.parts)
    PROVE  LET q == Begin(u, k - 1) + 2
               w == NameOf(u, k)
           IN  /\ q \in Nat /\ w \in Seq(Chars) /\ Len(w) = Before(u, k) - q /\ Len(w) \in Nat \ {0}
               /\ \A j \in 1 .. Len(w) : Text(u)[q + j] = w[j]
               /\ NameStates(w)[Len(w)] = FileContent
               /\ \A j \in 0 .. Len(w) - 1 : NameStates(w)[j] < FileContent
               /\ Text(u)[Before(u, k)] = "LF"
  <1> DEFINE p == Begin(u, k - 1)
             q == p + 2
             w == NameOf(u, k)
             l == Lead(u, k)
             a == Before(u, k)
             T == Text(u)
             L == Len(w)
             b == Len(u.boundary)
  <1>1. /\ p \in Nat /\ l \in Nat /\ l >= b + 4
        /\ w \in Seq(Chars) /\ L = l - 2 /\ \A i \in 1 .. l - 2 : T[(p + 2) + i] = w[i]
    BY PartAt
  <1>2. b \in Nat /\ a = p + l
    BY FileIs DEF Before
  <1>3. NameStates(w)[L] = FileContent /\ \A j \in 0 .. L - 1 : NameStates(w)[j] < FileContent
    BY FormsAreRead DEF NameOf
  <1> HIDE DEF p, w, l, a, T, b
  <1>4. q \in Nat /\ L = a - q /\ L \in Nat \ {0} /\ q + L = a
    BY <1>1, <1>2
  <1>5. \A j \in 1 .. L : T[q + j] = w[j]
    BY <1>1
  <1>6. T[a] = "LF"
    <2>1. L \in 1 .. L /\ L \in 0 .. L /\ L - 1 \in 0 .. L - 1 /\ L - 1 \in 0 .. L
              /\ FALSE \in BOOLEAN
      BY <1>4
    <2>2. /\ NameStates(w)[L] = NextState(NameStates(w)[L - 1], w[L], FALSE)
          /\ NameStates(w)[L - 1] \in 0 .. MinusSign /\ NameStates(w)[L - 1] < FileContent
      BY <1>1, <1>3, <2>1, NameStatesAre
    <2>3. w[L] = "LF"
      BY <1>3, <2>1, <2>2, NextStateIs DEF StateFits
    <2> QED
      BY <1>4, <1>5, <2>1, <2>3
  <1> QED
    BY <1>1, <1>3, <1>4, <1>5, <1>6 DEF p, w, a, T

\* The header of a part begins a file.
LEMMA NameRead ==
    ASSUME NEW u \in Uploads, NEW k \in 1 .. Len(u.parts), NEW n \in 0 .. Len(Text(u)),
           Before(u, k) <= n, NEW f \in Finders, f.state = 0, f.number = k - 1
    PROVE  LET q == Begin(u, k - 1) + 2
               a == Before(u, k)
               g == After(Cut(u, n), u.boundary, q + 1, a - q, f)
           IN  /\ InContent(u, k, g, a) /\ g.files[k].buf = a + 1
               /\ \A i \in 1 .. MaxFiles : i # k => g.files[i] = f.files[i]
  <1> DEFINE q == Begin(u, k - 1) + 2
             a == Before(u, k)
             w == NameOf(u, k)
             T == Text(u)
             t == Cut(u, n)
             bd == u.boundary
             g == After(t, bd, q + 1, a - q, f)
             L == Len(w)
  <1>1. /\ q \in Nat /\ w \in Seq(Chars) /\ L = a - q /\ L \in Nat \ {0}
        /\ \A j \in 1 .. L : T[q + j] = w[j]
        /\ NameStates(w)[L] = FileContent
        /\ \A j \in 0 .. L - 1 : NameStates(w)[j] < FileContent
    BY NameIs
  <1>2. a \in Nat /\ Until(u, k) \in Nat /\ a <= Until(u, k) /\ a <= n
    BY FileIs
  <1>3. n \in Nat /\ \A i \in 1 .. n : t[i] = T[i]
    BY CutIs
  <1>4. f.state = 0 /\ f.number + 1 = k /\ k \in 1 .. MaxFiles
    <2>1. k \in 1 .. MaxFiles /\ f.number = k - 1
      BY PartsFit
    <2>2. k \in Int
      BY <2>1
    <2> QED
      BY <2>1, <2>2
  <1> HIDE DEF q, w, T, t, bd, a
  <1>5. ASSUME NEW j \in 1 .. L PROVE t[q + j] = w[j]
    <2>1. q + j \in 1 .. n
      BY <1>1, <1>2, <1>3
    <2> QED
      BY <1>1, <1>3, <2>1
  <1>6. L \in 0 .. L
    BY <1>1
  <1>7. Followed(g, f, FileContent, (q + L) + 1)
    <2>1. Followed(After(t, bd, q + 1, L, f), f, NameStates(w)[L], (q + L) + 1)
      BY <1>1, <1>4, <1>5, <1>6, FollowName
    <2> QED
      BY <1>1, <2>1
  <1>8. g.number = k /\ g.files = [f.files EXCEPT ![k].buf = a + 1]
    <2>1. ~(FileContent < FileName) /\ q + L = a
      BY <1>1, <1>2 DEF FileContent, FileName
    <2> HIDE DEF g
    <2> QED
      BY <1>4, <1>7, <2>1 DEF Followed
  <1>9. f.files \in [1 .. MaxFiles -> [buf : Int, end : Int]] /\ a + 1 \in Int
    BY <1>2 DEF Finders
  <1>10. g \in Finders
    <2>1. q + 1 \in Nat /\ a - q \in Nat
      BY <1>1
    <2> QED
      BY <2>1, AfterIs
  <1> HIDE DEF g
  <1>11. g.files[k].buf = a + 1 /\ \A i \in 1 .. MaxFiles : i # k => g.files[i] = f.files[i]
    <2> DEFINE fs == f.files
               gs == g.files
               y == a + 1
    <2>1. fs \in [1 .. MaxFiles -> [buf : Int, end : Int]] /\ y \in Int
              /\ gs = [fs EXCEPT ![k].buf = y]
      BY <1>8, <1>9
    <2> HIDE DEF fs, gs, y
    <2>2. gs[k].buf = y /\ \A i \in 1 .. MaxFiles : i # k => gs[i] = fs[i]
      BY <1>4, <2>1
    <2> QED
      BY <2>2 DEF fs, gs, y
  <1>12. InContent(u, k, g, a)
    <2>1. a \in Before(u, k) .. Until(u, k) /\ FileContent # MinusSign
      BY <1>2 DEF a, FileContent, MinusSign
    <2> QED
      BY <1>7, <1>8, <1>10, <2>1 DEF InContent, Followed
  <1> QED
    BY <1>11, <1>12 DEF q, a, T, t, bd, g

\* The finder e has found the first k files, and where they end.
Found(u, k, from, e) ==
    /\ e \in Finders /\ e.state = 0 /\ e.number = k
    /\ \A i \in 1 .. k : /\ e.files[i].end = Until(u, i) + 1
                         /\ e.files[i].buf > Before(u, i) /\ e.files[i].buf >= from

LEMMA PartRead ==
    ASSUME NEW u \in Uploads, NEW k \in 1 .. Len(u.parts), NEW from \in Nat,
              from <= Begin(u, k - 1) + 3,
           NEW f, Found(u, k - 1, from, f)
    PROVE  Found(u, k, from,
                 After(Text(u), u.boundary, Begin(u, k - 1) + 3, Begin(u, k) - Begin(u, k - 1), f))
  <1> DEFINE p == Begin(u, k - 1)
             a == Before(u, k)
             z == Until(u, k)
             T == Text(u)
             N == Len(T)
             bd == u.boundary
             e == After(T, bd, p + 3, a - (p + 2), f)
             g == After(T, bd, a + 1, (z + 4) - a, e)
             l == Len(bd)
  <1>1. /\ a \in Nat /\ z \in Nat /\ a <= z /\ l \in Nat /\ Begin(u, k) = z + 2
        /\ z + 2 + l + 4 <= N /\ N \in Nat
    BY FileIs
  <1>2. /\ p + 2 \in Nat /\ Len(NameOf(u, k)) = a - (p + 2) /\ Len(NameOf(u, k)) \in Nat \ {0}
    BY NameIs
  <1>p. p \in Nat
    BY PartAt
  <1>3. N \in 0 .. N /\ Cut(u, N) = T
    <2>1. N \in 0 .. N
      BY <1>1
    <2> QED
      BY <2>1, CutIs
  <1>4. f \in Finders /\ f.state = 0 /\ f.number = k - 1
    BY DEF Found
  <1>k. k \in 1 .. MaxFiles /\ k \in Nat /\ MaxFiles \in Nat
    BY PartsFit
  <1>f. from \in Nat /\ from <= p + 3
    OBVIOUS
  <1> HIDE DEF p, a, z, T, N, bd, l
  <1>5. (p + 2) + 1 = p + 3 /\ a - (p + 2) \in Nat /\ a <= N /\ (p + 3) + (a - (p + 2)) = a + 1
        /\ (z + 4) - (p + 2) \in Nat /\ a - (p + 2) \in 0 .. (z + 4) - (p + 2)
        /\ ((z + 4) - (p + 2)) - (a - (p + 2)) = (z + 4) - a /\ p + 3 \in Nat
        /\ a + 1 > a /\ p + 3 <= a
    BY <1>1, <1>2, <1>p
  <1>6. /\ InContent(u, k, e, a) /\ e.files[k].buf = a + 1
        /\ \A i \in 1 .. MaxFiles : i # k => e.files[i] = f.files[i]
    <2>1. N \in 0 .. Len(Text(u)) /\ Before(u, k) <= N
      BY <1>3, <1>5 DEF a, N, T
    <2>2. e = After(Cut(u, N), u.boundary, (Begin(u, k - 1) + 2) + 1, Before(u, k) - (Begin(u, k - 1) + 2), f)
      BY <1>3, <1>5 DEF p, a, bd
    <2> HIDE DEF e
    <2> QED
      BY <1>4, <2>1, <2>2, NameRead DEF a
  <1>7. g \in Finders /\ g.state = 0 /\ g.number = k /\ SameButEnd(k, e, g)
            /\ g.files[k].end = z + 1
    <2> HIDE DEF e
    <2> QED
      BY <1>6, FileEnds DEF a, z, T, bd
  <1>8. g = After(T, bd, p + 3, (z + 4) - (p + 2), f)
    BY <1>4, <1>5, AfterGoesOn
  <1> HIDE DEF e, g
  <1>9. Found(u, k, from, g)
    <2>1. ASSUME NEW i \in 1 .. k
          PROVE  /\ g.files[i].end = Until(u, i) + 1
                 /\ g.files[i].buf > Before(u, i) /\ g.files[i].buf >= from
      <3>1. CASE i = k
        <4>1. g.files[k].buf = a + 1 /\ g.files[k].end = z + 1
          BY <1>6, <1>7 DEF SameButEnd
        <4>2. a + 1 > a /\ a + 1 >= from
          BY <1>1, <1>5, <1>f, <1>p
        <4> QED
          BY <3>1, <4>1, <4>2 DEF a, z
      <3>2. CASE i # k
        <4>1. i \in 1 .. k - 1 /\ i \in 1 .. MaxFiles
          BY <1>k, <3>2
        <4>2. g.files[i] = f.files[i]
          BY <1>6, <1>7, <3>2, <4>1 DEF SameButEnd
        <4> QED
          BY <4>1, <4>2 DEF Found
      <3> QED
        BY <3>1, <3>2
    <2> QED
      BY <1>7, <2>1 DEF Found
  <1>10. Begin(u, k) - p = (z + 4) - (p + 2)
    BY <1>1, <1>p
  <1> QED
    BY <1>8, <1>9, <1>10 DEF p, T, bd

\* The parts that are left.
LEMMA PartsRead ==
    ASSUME NEW u \in Uploads, NEW k0 \in 0 .. Len(u.parts), NEW from \in Nat,
              from <= Begin(u, k0) + 3,
           NEW f, Found(u, k0, from, f)
    PROVE  Found(u, Len(u.parts), from,
                 After(Text(u), u.boundary, Begin(u, k0) + 3, Begin(u, Len(u.parts)) - Begin(u, k0), f))
  <1> DEFINE K == Len(u.parts)
             T == Text(u)
             bd == u.boundary
             p == Begin(u, k0)
             E(k) == After(T, bd, p + 3, Begin(u, k) - p, f)
             S == {m \in Nat : k0 + m <= K => /\ Found(u, k0 + m, from, E(k0 + m))
                                              /\ p <= Begin(u, k0 + m)}
  <1>1. K \in Nat /\ k0 \in Nat /\ k0 <= K
    BY UploadIs
  <1>2. \A k \in 0 .. K : Begin(u, k) \in Nat
    BY DelimiterAt
  <1>3. p \in Nat
    BY <1>1, <1>2
  <1>4. ASSUME NEW k \in 1 .. K PROVE Begin(u, k - 1) <= Begin(u, k) /\ k - 1 \in 0 .. K
            /\ k \in 0 .. K
    <2>1. /\ Begin(u, k - 1) \in Nat /\ Lead(u, k) \in Nat /\ Len(u.parts[k].file) \in Nat
          /\ Begin(u, k) = (Begin(u, k - 1) + Lead(u, k)) + Len(u.parts[k].file) + 2
      BY PartAt
    <2>2. k - 1 \in 0 .. K /\ k \in 0 .. K
      BY <1>1
    <2> DEFINE x == Begin(u, k - 1)
               y == Begin(u, k)
               l == Lead(u, k)
               fl == Len(u.parts[k].file)
    <2>3. x <= y
      <3>1. x \in Nat /\ l \in Nat /\ fl \in Nat /\ y = (x + l) + fl + 2
        BY <2>1
      <3> HIDE DEF x, y, l, fl
      <3> QED
        BY <3>1
    <2> HIDE DEF K
    <2> QED
      BY <2>2, <2>3
  <1>5. f \in Finders /\ Found(u, k0, from, f) /\ from <= p + 3
    BY DEF Found
  <1>6. ASSUME NEW k \in 1 .. K, from <= Begin(u, k - 1) + 3, NEW e, Found(u, k - 1, from, e)
        PROVE  Found(u, k, from, After(T, bd, Begin(u, k - 1) + 3, Begin(u, k) - Begin(u, k - 1), e))
    BY <1>6, PartRead
  <1> HIDE DEF K, T, bd, p
  <1>7. 0 \in S
    <2>1. k0 + 0 = k0 /\ Begin(u, k0) - p = 0 /\ Begin(u, k0) = p /\ p + 3 \in Nat
      BY <1>1, <1>3 DEF p
    <2>2. E(k0) = f
      BY <1>5, <2>1, AfterFew
    <2>3. p <= Begin(u, k0)
      BY <1>3, <2>1
    <2> QED
      BY <1>5, <2>1, <2>2, <2>3
  <1>8. ASSUME NEW m \in S PROVE m + 1 \in S
    <2>0. m \in Nat /\ m + 1 \in Nat
      OBVIOUS
    <2> DEFINE k == k0 + (m + 1)
    <2>1. SUFFICES ASSUME k <= K PROVE Found(u, k, from, E(k)) /\ p <= Begin(u, k)
      BY <2>0
    <2>2. k - 1 = k0 + m /\ k \in 1 .. K /\ k0 + m <= K
      BY <1>1, <2>0, <2>1
    <2>3. Found(u, k0 + m, from, E(k0 + m)) /\ p <= Begin(u, k0 + m)
      BY <2>0, <2>2
    <2> HIDE DEF E, S, k
    <2>4. Found(u, k - 1, from, E(k - 1)) /\ p <= Begin(u, k - 1)
      BY <2>2, <2>3
    <2>5. Begin(u, k - 1) <= Begin(u, k) /\ Begin(u, k - 1) \in Nat /\ Begin(u, k) \in Nat
      BY <1>2, <1>4, <2>2
    <2> DEFINE x == Begin(u, k - 1)
               y == Begin(u, k)
    <2>6. from <= x + 3
      BY <1>3, <1>5, <2>4, <2>5
    <2>7. Found(u, k, from, After(T, bd, x + 3, y - x, E(k - 1)))
      BY <1>6, <2>2, <2>4, <2>6
    <2>8. E(k - 1) = After(T, bd, p + 3, x - p, f) /\ E(k) = After(T, bd, p + 3, y - p, f)
      BY DEF E
    <2> HIDE DEF x, y
    <2>9. x \in Nat /\ y \in Nat /\ p <= x /\ x <= y
      BY <2>4, <2>5 DEF x, y
    <2>10. p + 3 \in Nat /\ y - p \in Nat /\ x - p \in 0 .. y - p /\ (p + 3) + (x - p) = x + 3
              /\ (y - p) - (x - p) = y - x
      BY <1>3, <2>9
    <2>11. E(k) = After(T, bd, x + 3, y - x, E(k - 1))
      <3> DEFINE n == y - p
                 w == x - p
                 v == y - x
                 i == p + 3
                 j == x + 3
      <3>1. n \in Nat /\ w \in Nat /\ v \in Nat /\ i \in Nat /\ i + w = j /\ w + v = n
        BY <1>3, <2>9
      <3> HIDE DEF n, w, v, i, j
      <3>2. After(T, bd, i, n, f) = After(T, bd, j, v, After(T, bd, i, w, f))
        <4>1. f \in Finders
          BY <1>5
        <4>2. \A a1 \in Nat, a2 \in Nat, a3 \in Nat, a4 \in Finders :
                \A to, all : a1 + a2 = to /\ a2 + a3 = all =>
                  After(T, bd, a1, all, a4) = After(T, bd, to, a3, After(T, bd, a1, a2, a4))
          BY AfterJoins
        <4>3. \A to, all : i + w = to /\ w + v = all =>
                After(T, bd, i, all, f) = After(T, bd, to, v, After(T, bd, i, w, f))
          BY <3>1, <4>1, <4>2
        <4> QED
          BY <3>1, <4>3
      <3> QED
        BY <2>8, <3>2 DEF n, w, v, i, j
    <2>12. p <= y
      BY <1>3, <2>9
    <2> QED
      BY <2>7, <2>11, <2>12 DEF y
  <1>9. S = Nat
    <2> HIDE DEF S
    <2>1. S \subseteq Nat
      BY DEF S
    <2> QED
      BY <1>7, <1>8, <2>1, SetInduction
  <1>10. Found(u, K, from, E(K))
    <2>1. K - k0 \in Nat /\ k0 + (K - k0) = K
      BY <1>1
    <2>2. K - k0 \in S
      BY <1>9, <2>1
    <2> QED
      BY <2>1, <2>2
  <1> QED
    BY <1>10 DEF K, T, bd, p

\* What follows the last part begins no file.
LEMMA RestRead ==
    ASSUME NEW u \in Uploads, u.rest = <<>>, NEW from, NEW f, Found(u, Len(u.parts), from, f)
    PROVE  /\ Found(u, Len(u.parts), from,
                    After(Text(u), u.boundary, Begin(u, Len(u.parts)) + 3, Len(u.boundary) + 2, f))
           /\ Len(Text(u)) = Begin(u, Len(u.parts)) + (Len(u.boundary) + 4)
           /\ Len(u.boundary) \in Nat /\ Begin(u, Len(u.parts)) \in Nat
  <1> DEFINE K == Len(u.parts)
             T == Text(u)
             bd == u.boundary
             b == Len(bd)
             p == Begin(u, K)
             w == bd \o Dashes
             g == After(T, bd, p + 3, b + 2, f)
  <1>1. /\ p \in Nat /\ b \in Nat /\ Len(T) = p + (b + 4) + Len(u.rest)
        /\ \A i \in 1 .. b + 2 : T[(p + 2) + i] = w[i]
    BY TextIs
  <1>2. Len(u.rest) = 0
    BY EmptySeq
  <1>3. Joined(Chars, bd, Dashes, w) /\ w \in Seq(Chars)
    BY UploadIs, Signs, Joins
  <1>4. Len(Dashes) = 2 /\ Dashes[1] = "-" /\ Dashes[2] = "-"
    BY Signs
  <1>5. \A n \in 0 .. Len(w) : NameStates(w)[n] < FileName
    BY FormsAreRead
  <1>6. f \in Finders /\ f.state = 0 /\ f.number = K
    BY DEF Found
  <1>b. b = Len(bd)
    OBVIOUS
  <1> HIDE DEF K, T, bd, b, p, w
  <1>7. Len(w) = b + 2 /\ w[b + 2] = "-"
    <2>1. Len(w) = b + 2 /\ b + 2 = Len(bd) + 2
      BY <1>3, <1>4, <1>b DEF Joined
    <2>2. w[Len(bd) + 2] = Dashes[2]
      BY <1>3, <1>4 DEF Joined
    <2> QED
      BY <1>4, <2>1, <2>2
  <1>8. ASSUME NEW j \in 0 .. Len(w)
        PROVE  NameStates(w)[j] < FileName /\ NameStates(w)[j] < FileContent
                  /\ NameStates(w)[j] \in 0 .. MinusSign
    <2>1. NameStates(w)[j] < FileName /\ NameStates(w)[j] \in 0 .. MinusSign
      BY <1>3, <1>5, NameStatesAre
    <2> QED
      BY <2>1 DEF FileName, FileContent, MinusSign
  <1>9. NameStates(w)[b + 2] = 0
    <2>1. b + 2 \in 1 .. Len(w) /\ (b + 2) - 1 \in 0 .. Len(w) /\ FALSE \in BOOLEAN
      BY <1>1, <1>7
    <2>2. NameStates(w)[b + 2] = NextState(NameStates(w)[(b + 2) - 1], w[b + 2], FALSE)
      BY <1>3, <2>1, NameStatesAre
    <2> QED
      BY <1>7, <1>8, <2>1, <2>2, DashStep
  <1>10. Followed(g, f, 0, ((p + 2) + (b + 2)) + 1)
    <2>1. \A j \in 1 .. Len(w) : T[(p + 2) + j] = w[j]
      BY <1>1, <1>7
    <2>2. \A j \in 0 .. Len(w) - 1 : NameStates(w)[j] < FileContent
      <3>1. \A j \in 0 .. Len(w) - 1 : j \in 0 .. Len(w)
        BY <1>1, <1>7
      <3> QED
        BY <1>8, <3>1
    <2>3. p + 2 \in Nat /\ b + 2 \in 0 .. Len(w) /\ (p + 2) + 1 = p + 3
      BY <1>1, <1>7
    <2>4. Followed(After(T, bd, (p + 2) + 1, b + 2, f), f, NameStates(w)[b + 2], ((p + 2) + (b + 2)) + 1)
      BY <1>3, <1>6, <2>1, <2>2, <2>3, FollowName
    <2> QED
      BY <1>9, <2>3, <2>4
  <1>11. g \in Finders
    <2>1. p + 3 \in Nat /\ b + 2 \in Nat
      BY <1>1
    <2> QED
      BY <1>6, <2>1, AfterIs
  <1> HIDE DEF g
  <1>12. g.state = 0 /\ g.number = f.number /\ g.files = f.files
    BY <1>10 DEF Followed, FileName, FileContent
  <1>13. Found(u, K, from, g)
    BY <1>6, <1>11, <1>12 DEF Found, K
  <1>14. Len(T) = p + (b + 4)
    BY <1>1, <1>2
  <1> QED
    BY <1>1, <1>13, <1>14 DEF K, T, bd, b, p, g

\* From the delimiter that opens part k0 + 1 to the end.
LEMMA ReadToEnd ==
    ASSUME NEW u \in Uploads, u.rest = <<>>, NEW k0 \in 0 .. Len(u.parts),
           NEW from \in Nat, from <= Begin(u, k0) + 3, NEW f, Found(u, k0, from, f)
    PROVE  /\ Begin(u, k0) + 2 \in 0 .. Len(Text(u))
           /\ Found(u, Len(u.parts), from,
                    After(Text(u), u.boundary, Begin(u, k0) + 3, Len(Text(u)) - (Begin(u, k0) + 2), f))
  <1> DEFINE K == Len(u.parts)
             T == Text(u)
             N == Len(T)
             bd == u.boundary
             b == Len(bd)
             p == Begin(u, k0)
             q == Begin(u, K)
             e == After(T, bd, p + 3, q - p, f)
             g == After(T, bd, q + 3, b + 2, e)
  <1>1. Found(u, K, from, e)
    BY PartsRead
  <1>2. Found(u, K, from, g) /\ N = q + (b + 4) /\ b \in Nat /\ q \in Nat
    <2> HIDE DEF e
    <2> QED
      BY <1>1, RestRead
  <1>3. p \in Nat /\ p <= q /\ f \in Finders
    <2>1. p \in Nat /\ p <= q
      BY DelimiterAt
    <2> QED
      BY <2>1 DEF Found
  <1> HIDE DEF K, T, N, bd, b, p, q
  <1>4. /\ p + 3 \in Nat /\ N - (p + 2) \in Nat /\ q - p \in 0 .. N - (p + 2)
        /\ (p + 3) + (q - p) = q + 3 /\ (N - (p + 2)) - (q - p) = b + 2 /\ p + 2 \in 0 .. N
    BY <1>2, <1>3
  <1>5. After(T, bd, p + 3, N - (p + 2), f) = g
    <2> DEFINE n == N - (p + 2)
               h == q - p
               m == b + 2
               i == p + 3
               j == q + 3
    <2>1. n \in Nat /\ h \in Nat /\ m \in Nat /\ i \in Nat /\ i + h = j /\ h + m = n
      BY <1>2, <1>3, <1>4
    <2>2. g = After(T, bd, j, m, After(T, bd, i, h, f))
      OBVIOUS
    <2> HIDE DEF n, h, m, i, j, g
    <2>3. After(T, bd, i, n, f) = After(T, bd, j, m, After(T, bd, i, h, f))
      <3>1. f \in Finders
        BY <1>3
      <3>2. \A a1 \in Nat, a2 \in Nat, a3 \in Nat, a4 \in Finders :
              \A to, all : a1 + a2 = to /\ a2 + a3 = all =>
                After(T, bd, a1, all, a4) = After(T, bd, to, a3, After(T, bd, a1, a2, a4))
        BY AfterJoins
      <3>3. \A to, all : i + h = to /\ h + m = all =>
              After(T, bd, i, all, f) = After(T, bd, to, m, After(T, bd, i, h, f))
        BY <2>1, <3>1, <3>2
      <3> QED
        BY <2>1, <3>3
    <2> QED
      BY <2>2, <2>3 DEF n, i
  <1> HIDE DEF e, g
  <1>6. Found(u, K, from, After(T, bd, p + 3, N - (p + 2), f))
    BY <1>2, <1>5
  <1> QED
    BY <1>4, <1>6 DEF K, T, N, bd, p

\* The dashes of the first delimiter.
LEMMA DashesRead ==
    ASSUME NEW u \in Uploads, NEW n \in 0 .. Len(Text(u)), Len(u.head) + 2 <= n,
           NEW f \in Finders, f.state = 0
    PROVE  LET g == After(Cut(u, n), u.boundary, Len(u.head) + 1, 2, f)
           IN  g \in Finders /\ g.state = 0 /\ g.number = f.number /\ g.files = f.files
  <1> DEFINE q == Len(u.head)
             t == Cut(u, n)
             bd == u.boundary
             g == After(t, bd, q + 1, 2, f)
  <1>1. q \in Nat /\ \A i \in 1 .. 2 : Text(u)[q + i] = Dashes[i]
    <2>1. q = Begin(u, 0) /\ 0 \in 0 .. Len(u.parts)
      BY FirstBegin, UploadIs
    <2>2. /\ Begin(u, 0) \in Nat
          /\ \A i \in 1 .. Len(u.boundary) + 2 : Text(u)[Begin(u, 0) + i] = Delimiter(u)[i]
      BY <2>1, DelimiterAt
    <2>3. Joined(Chars, Dashes, u.boundary, Delimiter(u)) /\ Len(u.boundary) \in Nat
      BY DelimiterIs
    <2>4. \A i \in 1 .. 2 : i \in 1 .. Len(u.boundary) + 2
      BY <2>3
    <2>5. \A i \in 1 .. 2 : Delimiter(u)[i] = Dashes[i]
      BY <2>3, Signs DEF Joined
    <2> HIDE DEF q
    <2> QED
      BY <2>1, <2>2, <2>4, <2>5
  <1>2. n \in Nat /\ \A i \in 1 .. n : t[i] = Text(u)[i]
    BY CutIs
  <1>3. q + 2 <= n
    OBVIOUS
  <1>4. Dashes \in Seq(Chars) /\ Len(Dashes) = 2 /\ Dashes[1] = "-" /\ Dashes[2] = "-"
    BY Signs
  <1> HIDE DEF q, t, bd
  <1>5. \A i \in 1 .. 2 : t[q + i] = Dashes[i]
    <2>1. \A i \in 1 .. 2 : q + i \in 1 .. n
      BY <1>1, <1>2, <1>3
    <2> QED
      BY <1>1, <1>2, <2>1
  <1>6. NameStates(Dashes)[0] = 0 /\ NameStates(Dashes)[1] = 0 /\ NameStates(Dashes)[2] = 0
    <2>0. FALSE \in BOOLEAN /\ 0 \in 0 .. MinusSign /\ 0 < FileName
      BY DEF MinusSign, FileName
    <2>1. /\ NameStates(Dashes)[0] = 0
          /\ \A i \in 1 .. 2 : NameStates(Dashes)[i] = NextState(NameStates(Dashes)[i - 1], Dashes[i], FALSE)
      BY <1>4, NameStatesAre
    <2>2. NameStates(Dashes)[1] = NextState(NameStates(Dashes)[0], "-", FALSE)
      <3>1. 1 \in 1 .. 2 /\ 1 - 1 = 0
        OBVIOUS
      <3> QED
        BY <1>4, <2>1, <3>1
    <2>3. NextState(0, "-", FALSE) = 0
      BY <2>0, DashStep
    <2>4. NameStates(Dashes)[2] = NextState(NameStates(Dashes)[1], "-", FALSE)
      <3>1. 2 \in 1 .. 2 /\ 2 - 1 = 1
        OBVIOUS
      <3> QED
        BY <1>4, <2>1, <3>1
    <2> QED
      BY <2>1, <2>2, <2>3, <2>4
  <1>7. Followed(g, f, 0, (q + 2) + 1)
    <2>1. \A j \in 0 .. Len(Dashes) - 1 : NameStates(Dashes)[j] < FileContent
      BY <1>4, <1>6 DEF FileContent
    <2>2. 2 \in 0 .. Len(Dashes)
      BY <1>4
    <2>3. Followed(After(t, bd, q + 1, 2, f), f, NameStates(Dashes)[2], (q + 2) + 1)
      BY <1>1, <1>4, <1>5, <2>1, <2>2, FollowName
    <2> QED
      BY <1>6, <2>3
  <1>8. g \in Finders
    <2>1. q + 1 \in Nat /\ 2 \in Nat
      BY <1>1
    <2> QED
      BY <2>1, AfterIs
  <1> HIDE DEF g
  <1>9. g.state = 0 /\ g.number = f.number /\ g.files = f.files
    BY <1>7 DEF Followed, FileName, FileContent
  <1> QED
    BY <1>8, <1>9 DEF g, q, t, bd

\* The body is in one segment.
LEMMA WholeRead ==
    ASSUME NEW u \in Uploads, u.rest = <<>>, NEW f \in Finders, f.state = 0, f.number = 0
    PROVE  /\ Len(u.head) \in Nat /\ Len(Text(u)) - Len(u.head) \in Nat
           /\ Found(u, Len(u.parts), Len(u.head) + 1,
                    After(Text(u), u.boundary, Len(u.head) + 1, Len(Text(u)) - Len(u.head), f))
  <1> DEFINE q == Len(u.head)
             T == Text(u)
             N == Len(T)
             bd == u.boundary
             K == Len(u.parts)
             g == After(T, bd, q + 1, 2, f)
  <1>1. q = Begin(u, 0) /\ K \in Nat /\ 0 \in 0 .. K
    BY FirstBegin, UploadIs
  <1>2. /\ N \in Nat /\ N = Begin(u, K) + (Len(bd) + 4) + Len(u.rest)
        /\ Len(bd) \in Nat /\ Len(u.rest) \in Nat /\ q \in Nat
    BY TextIs
  <1>3. q <= Begin(u, K) /\ Begin(u, K) \in Nat
    <2>1. K \in 0 .. K
      BY <1>1
    <2> QED
      BY <1>1, <2>1, DelimiterAt
  <1> DEFINE b == Len(bd)
             r == Len(u.rest)
             e == Begin(u, K)
  <1>4. q + 2 <= N /\ N - q \in Nat /\ N \in 0 .. N /\ 2 \in 0 .. N - q /\ (q + 1) + 2 = q + 3
        /\ (N - q) - 2 = N - (q + 2) /\ q + 1 \in Nat /\ q + 1 <= q + 3
    <2> HIDE DEF q, T, N, bd, b, r, e
    <2>1. N = e + (b + 4) + r /\ b \in Nat /\ r \in Nat /\ e \in Nat /\ q <= e /\ q \in Nat
              /\ N \in Nat
      BY <1>2, <1>3 DEF b, r, e
    <2> QED
      BY <2>1
  <1>5. Cut(u, N) = T
    BY <1>4, CutIs
  <1>6. g \in Finders /\ g.state = 0 /\ g.number = f.number /\ g.files = f.files
    <2>1. N \in 0 .. Len(Text(u)) /\ Len(u.head) + 2 <= N /\ f.state = 0
      BY <1>4
    <2>2. g = After(Cut(u, N), u.boundary, Len(u.head) + 1, 2, f)
      BY <1>5
    <2> HIDE DEF g, N
    <2> QED
      BY <2>1, <2>2, DashesRead
  <1> HIDE DEF g
  <1>7. Found(u, 0, q + 1, g)
    BY <1>6 DEF Found
  <1>8. Found(u, K, q + 1, After(T, bd, q + 3, N - (q + 2), g))
    BY <1>1, <1>4, <1>7, ReadToEnd
  <1> HIDE DEF q, T, N, bd, K
  <1>9. After(T, bd, q + 1, N - q, f) = After(T, bd, q + 3, N - (q + 2), g)
    <2> DEFINE n == N - q
               m == N - (q + 2)
               i == q + 1
               j == q + 3
    <2>1. n \in Nat /\ 2 \in Nat /\ m \in Nat /\ i \in Nat /\ i + 2 = j /\ 2 + m = n
      BY <1>2, <1>4
    <2> HIDE DEF n, m, i, j
    <2>2. After(T, bd, i, n, f) = After(T, bd, j, m, After(T, bd, i, 2, f))
      BY <2>1, AfterJoins
    <2> QED
      BY <2>2 DEF n, m, i, j, g
  <1> QED
    BY <1>2, <1>4, <1>8, <1>9 DEF q, T, N, bd, K

\* The body goes on in the first file.
LEMMA ResumedRead ==
    ASSUME NEW u \in Uploads, u.rest = <<>>, u.parts # <<>>, NEW f, NEW p,
           InContent(u, 1, f, p), f.files[1].buf = p + 1
    PROVE  Found(u, Len(u.parts), p + 1,
                 After(Text(u), u.boundary, p + 1, Len(Text(u)) - p, f))
  <1> DEFINE T == Text(u)
             N == Len(T)
             bd == u.boundary
             b == Len(bd)
             K == Len(u.parts)
             a == Before(u, 1)
             z == Until(u, 1)
             c == Begin(u, 1)
             g == After(T, bd, p + 1, (z + 4) - p, f)
  <1>1. K \in Nat /\ 1 \in 1 .. K /\ 1 \in 0 .. K
    BY UploadIs
  <1>2. /\ a \in Nat /\ z \in Nat /\ b \in Nat /\ N \in Nat /\ c = z + 2 /\ z + 2 + b + 4 <= N
    BY <1>1, FileIs
  <1>3. p \in a .. z /\ f \in Finders
    BY DEF InContent
  <1>4. g \in Finders /\ g.state = 0 /\ g.number = 1 /\ SameButEnd(1, f, g)
            /\ g.files[1].end = z + 1
    BY <1>1, FileEnds
  <1> HIDE DEF T, N, bd, b, K, a, z, c, g
  <1>5. /\ p \in Nat /\ p + 1 \in Nat /\ p + 1 > a /\ p + 1 >= p + 1 /\ p + 1 <= c + 3
        /\ N - p \in Nat /\ (z + 4) - p \in 0 .. N - p /\ (p + 1) + ((z + 4) - p) = c + 3
        /\ (N - p) - ((z + 4) - p) = N - (c + 2)
    <2>1. p \in Nat /\ z - p \in Nat /\ p >= a
      BY <1>2, <1>3
    <2>2. p + 1 \in Nat /\ p + 1 > a /\ p + 1 >= p + 1 /\ p + 1 <= c + 3
      BY <1>2, <2>1
    <2>3. N - p \in Nat /\ (z + 4) - p \in 0 .. N - p
      BY <1>2, <2>1
    <2>4. (p + 1) + ((z + 4) - p) = c + 3 /\ (N - p) - ((z + 4) - p) = N - (c + 2)
      BY <1>2, <2>1
    <2> QED
      BY <2>1, <2>2, <2>3, <2>4
  <1>6. Found(u, 1, p + 1, g)
    <2>1. g.files[1].buf = p + 1
      BY <1>4 DEF SameButEnd
    <2>2. \A i \in 1 .. 1 : i = 1
      OBVIOUS
    <2> QED
      BY <1>4, <1>5, <2>1, <2>2 DEF Found, a, z
  <1>7. Found(u, K, p + 1, After(T, bd, c + 3, N - (c + 2), g))
    <2>1. p + 1 <= Begin(u, 1) + 3 /\ 1 \in 0 .. Len(u.parts)
      BY <1>1, <1>5 DEF c, K
    <2> QED
      BY <1>5, <1>6, <2>1, ReadToEnd DEF K, T, N, bd, c
  <1>8. After(T, bd, p + 1, N - p, f) = After(T, bd, c + 3, N - (c + 2), g)
    <2> DEFINE n == N - p
               h == (z + 4) - p
               m == N - (c + 2)
               i == p + 1
               j == c + 3
    <2>1. n \in Nat /\ h \in Nat /\ m \in Nat /\ i \in Nat /\ i + h = j /\ h + m = n
      BY <1>2, <1>5
    <2>2. g = After(T, bd, i, h, f)
      BY DEF g
    <2> HIDE DEF n, h, m, i, j
    <2>3. After(T, bd, i, n, f) = After(T, bd, j, m, After(T, bd, i, h, f))
      <3>1. f \in Finders
        BY <1>3
      <3>2. \A a1 \in Nat, a2 \in Nat, a3 \in Nat, a4 \in Finders :
              \A to, all : a1 + a2 = to /\ a2 + a3 = all =>
                After(T, bd, a1, all, a4) = After(T, bd, to, a3, After(T, bd, a1, a2, a4))
        BY AfterJoins
      <3>3. \A to, all : i + h = to /\ h + m = all =>
              After(T, bd, i, all, f) = After(T, bd, to, m, After(T, bd, i, h, f))
        BY <2>1, <3>1, <3>2
      <3> QED
        BY <2>1, <3>3
    <2> QED
      BY <2>2, <2>3 DEF n, m, i, j
  <1> QED
    BY <1>7, <1>8 DEF T, N, bd, K

\* The segment ends in the first file.
LEMMA FileBegun ==
    ASSUME NEW u \in Uploads, u.parts # <<>>, NEW n, {n, n + 1} \subseteq FileAt(u, 1),
           NEW f \in Finders, f.state = 0, f.number = 0
    PROVE  LET g == After(Cut(u, n), u.boundary, Len(u.head) + 1, n - Len(u.head), f)
           IN  InContent(u, 1, g, n) /\ g.files[1].buf = Before(u, 1) + 1
  <1> DEFINE q == Len(u.head)
             t == Cut(u, n)
             bd == u.boundary
             b == Len(bd)
             N == Len(Text(u))
             a == Before(u, 1)
             z == Until(u, 1)
             d == After(t, bd, q + 1, 2, f)
             e == After(t, bd, q + 3, a - (q + 2), d)
             g == After(t, bd, a + 1, n - a, e)
  <1>1. 1 \in 1 .. Len(u.parts) /\ q = Begin(u, 0) /\ 1 - 1 = 0
    BY UploadIs, FirstBegin
  <1>2. /\ a \in Nat /\ z \in Nat /\ b \in Nat /\ N \in Nat /\ q \in Nat /\ q + b + 4 <= a
        /\ z + 2 + b + 4 <= N /\ FileAt(u, 1) = (a + 1) .. z
    BY <1>1, FileIs
  <1>3. n \in (a + 1) .. z /\ n + 1 \in (a + 1) .. z
    BY <1>2
  <1>4. f.state = 0 /\ f.number = 0
    OBVIOUS
  <1>5. /\ n \in 0 .. N /\ n \in Nat /\ a <= n /\ q + 2 <= n /\ n <= z /\ n - a \in Nat
            /\ a + (n - a) = n
        /\ a - (q + 2) \in Nat /\ (q + 2) + 1 = q + 3 /\ q + 3 \in Nat /\ q + 1 \in Nat
        /\ n - q \in Nat /\ 2 \in 0 .. n - q /\ (q + 1) + 2 = q + 3 /\ (n - q) - 2 = n - (q + 2)
        /\ n - (q + 2) \in Nat /\ a - (q + 2) \in 0 .. n - (q + 2)
        /\ (q + 3) + (a - (q + 2)) = a + 1 /\ (n - (q + 2)) - (a - (q + 2)) = n - a
    <2> HIDE DEF q, bd, b, N, a, z
    <2> QED
      BY <1>2, <1>3
  <1>6. d \in Finders /\ d.state = 0 /\ d.number = f.number
    BY <1>4, <1>5, DashesRead
  <1> HIDE DEF d
  <1>7. InContent(u, 1, e, a) /\ e.files[1].buf = a + 1
    <2>1. d.number = 1 - 1
      BY <1>1, <1>4, <1>6
    <2>2. e = After(Cut(u, n), u.boundary, (Begin(u, 1 - 1) + 2) + 1, Before(u, 1) - (Begin(u, 1 - 1) + 2), d)
      BY <1>1, <1>5
    <2> HIDE DEF e
    <2> QED
      BY <1>1, <1>5, <1>6, <2>1, <2>2, NameRead
  <1> HIDE DEF e
  <1>8. InContent(u, 1, g, n) /\ SameButEnd(1, e, g)
    <2> DEFINE m == n - a
    <2>1. m \in Nat /\ a + m = n /\ a + m <= n /\ a + m <= Until(u, 1) /\ n \in 0 .. Len(Text(u))
      BY <1>5
    <2> HIDE DEF m
    <2>2. /\ InContent(u, 1, After(Cut(u, n), u.boundary, a + 1, m, e), a + m)
          /\ SameButEnd(1, e, After(Cut(u, n), u.boundary, a + 1, m, e))
      <3> HIDE DEF a
      <3> QED
        BY <1>1, <1>7, <2>1, FileGoesOn
    <2> QED
      BY <2>1, <2>2 DEF m
  <1> HIDE DEF q, t, bd, a, g
  <1>9. After(t, bd, q + 1, n - q, f) = After(t, bd, q + 3, n - (q + 2), d)
    <2> DEFINE k == n - q
               m == n - (q + 2)
               i == q + 1
               j == q + 3
    <2>1. k \in Nat /\ 2 \in Nat /\ m \in Nat /\ i \in Nat /\ i + 2 = j /\ 2 + m = k
      <3> HIDE DEF b, N, z
      <3> QED
        BY <1>2, <1>5
    <2> HIDE DEF k, m, i, j
    <2>2. After(t, bd, i, k, f) = After(t, bd, j, m, After(t, bd, i, 2, f))
      <3>1. \A a1 \in Nat, a2 \in Nat, a3 \in Nat, a4 \in Finders :
              \A to, all : a1 + a2 = to /\ a2 + a3 = all =>
                After(t, bd, a1, all, a4) = After(t, bd, to, a3, After(t, bd, a1, a2, a4))
        BY AfterJoins
      <3>2. \A to, all : i + 2 = to /\ 2 + m = all =>
              After(t, bd, i, all, f) = After(t, bd, to, m, After(t, bd, i, 2, f))
        BY <2>1, <3>1
      <3> QED
        BY <2>1, <3>2
    <2> QED
      BY <2>2 DEF k, m, i, j, d
  <1>10. After(t, bd, q + 3, n - (q + 2), d) = g
    <2> DEFINE m == n - (q + 2)
               h == a - (q + 2)
               k == n - a
               i == q + 3
               j == a + 1
    <2>1. m \in Nat /\ h \in Nat /\ k \in Nat /\ i \in Nat /\ i + h = j /\ h + k = m
      <3> HIDE DEF b, N, z
      <3> QED
        BY <1>2, <1>5
    <2>2. e = After(t, bd, i, h, d)
      BY DEF e
    <2> HIDE DEF m, h, k, i, j
    <2>3. After(t, bd, i, m, d) = After(t, bd, j, k, After(t, bd, i, h, d))
      <3>1. d \in Finders
        BY <1>6
      <3>2. \A a1 \in Nat, a2 \in Nat, a3 \in Nat, a4 \in Finders :
              \A to, all : a1 + a2 = to /\ a2 + a3 = all =>
                After(t, bd, a1, all, a4) = After(t, bd, to, a3, After(t, bd, a1, a2, a4))
        BY AfterJoins
      <3>3. \A to, all : i + h = to /\ h + k = all =>
              After(t, bd, i, all, d) = After(t, bd, to, k, After(t, bd, i, h, d))
        BY <2>1, <3>1, <3>2
      <3> QED
        BY <2>1, <3>3
    <2> QED
      BY <2>2, <2>3 DEF m, i, k, j, g
  <1>11. g.files[1].buf = a + 1
    BY <1>7, <1>8 DEF SameButEnd
  <1> QED
    BY <1>8, <1>9, <1>10, <1>11 DEF q, t, bd, a

------------------------------------------------------------------------------
(* Uploads: the end of a body.                                              *)

LEMMA EndingIs ==
    ASSUME NEW s \in Seq(Chars), NEW m \in 0 .. Len(s)
    PROVE  /\ Ending(s, m) \in Seq(Chars) /\ Len(Ending(s, m)) = m
           /\ \A i \in 1 .. m : Ending(s, m)[i] = s[(Len(s) - m) + i]
  <1> DEFINE N == Len(s)
             x == N - m + 1
  <1>1. N \in Nat /\ x \in 1 .. N + 1 /\ m \in Nat
    BY LenProperties
  <1>2. \A i \in x .. N : s[i] \in Chars
    <2>1. \A i \in x .. N : i \in 1 .. Len(s)
      BY <1>1
    <2> QED
      BY <2>1, ElementOfSeq
  <1> DEFINE v == SubSeq(s, x, N)
  <1>3. /\ v \in Seq(Chars) /\ Len(v) = IF x <= N THEN N - x + 1 ELSE 0
        /\ \A i \in 1 .. N - x + 1 : v[i] = s[x + i - 1]
    <2> HIDE DEF x, N
    <2> QED
      BY <1>1, <1>2, SubSeqProperties
  <1> HIDE DEF v
  <1>4. (IF x <= N THEN N - x + 1 ELSE 0) = m /\ \A i \in 1 .. m : i \in 1 .. N - x + 1
            /\ x + i - 1 = (N - m) + i
    BY <1>1
  <1>5. /\ v \in Seq(Chars) /\ Len(v) = m
        /\ \A i \in 1 .. m : v[i] = s[(N - m) + i]
    <2> HIDE DEF x, N
    <2> QED
      BY <1>3, <1>4
  <1> QED
    BY <1>5 DEF v, Ending

\* The text s is what the first n bytes of the upload end with.
EndsWith(s, u, n) ==
    /\ s \in Seq(Chars) /\ Len(s) \in Nat /\ Len(s) <= n
    /\ \A i \in 1 .. Len(s) : s[i] = Text(u)[(n - Len(s)) + i]

LEMMA EndingEnds ==
    ASSUME NEW u \in Uploads, NEW n \in Nat, NEW s, EndsWith(s, u, n), NEW m \in 0 .. Len(s)
    PROVE  EndsWith(Ending(s, m), u, n) /\ Len(Ending(s, m)) = m
  <1> DEFINE N == Len(s)
             v == Ending(s, m)
  <1>1. s \in Seq(Chars) /\ N \in Nat /\ N <= n /\ \A i \in 1 .. N : s[i] = Text(u)[(n - N) + i]
    BY DEF EndsWith
  <1>2. v \in Seq(Chars) /\ Len(v) = m /\ \A i \in 1 .. m : v[i] = s[(N - m) + i]
    BY <1>1, EndingIs
  <1> HIDE DEF v
  <1>3. m \in Nat /\ m <= n /\ m \in 0 .. N
    BY <1>1
  <1>4. ASSUME NEW i \in 1 .. m PROVE v[i] = Text(u)[(n - m) + i]
    <2> HIDE DEF N
    <2>1. (N - m) + i \in 1 .. N /\ (n - N) + ((N - m) + i) = (n - m) + i
      BY <1>1, <1>3
    <2> QED
      BY <1>1, <1>2, <2>1
  <1> QED
    BY <1>2, <1>3, <1>4 DEF EndsWith, v

\* The segment that follows the first x bytes.
LEMMA BodyIs ==
    ASSUME NEW u \in Uploads, NEW n \in 0 .. Len(Text(u)), NEW x \in 0 .. n
    PROVE  LET body == SubSeq(Cut(u, n), x + 1, Len(Cut(u, n)))
           IN  EndsWith(body, u, n) /\ Len(body) = n - x
  <1> DEFINE t == Cut(u, n)
  <1>1. t \in Seq(Chars) /\ Len(t) = n /\ n \in Nat /\ \A i \in 1 .. n : t[i] = Text(u)[i]
    BY CutIs
  <1>x. x \in 0 .. n
    OBVIOUS
  <1> DEFINE v == SubSeq(t, x + 1, n)
  <1> HIDE DEF t
  <1>2. \A i \in x + 1 .. n : t[i] \in Chars
    <2>1. \A i \in x + 1 .. n : i \in 1 .. Len(t)
      BY <1>1, <1>x
    <2> QED
      BY <1>1, <2>1, ElementOfSeq
  <1>3. /\ v \in Seq(Chars) /\ Len(v) = IF x + 1 <= n THEN n - (x + 1) + 1 ELSE 0
        /\ \A i \in 1 .. n - (x + 1) + 1 : v[i] = t[(x + 1) + i - 1]
    <2> DEFINE y == x + 1
    <2>1. y \in Nat /\ \A i \in y .. n : t[i] \in Chars
      BY <1>1, <1>2, <1>x
    <2> HIDE DEF y
    <2>2. /\ SubSeq(t, y, n) \in Seq(Chars)
              /\ Len(SubSeq(t, y, n)) = IF y <= n THEN n - y + 1 ELSE 0
          /\ \A i \in 1 .. n - y + 1 : SubSeq(t, y, n)[i] = t[y + i - 1]
      BY <1>1, <2>1, SubSeqProperties
    <2> QED
      BY <2>2 DEF y
  <1> HIDE DEF v
  <1>4. /\ (IF x + 1 <= n THEN n - (x + 1) + 1 ELSE 0) = n - x /\ n - x \in Nat /\ n - x <= n
        /\ \A i \in 1 .. n - x : /\ i \in 1 .. n - (x + 1) + 1
                                 /\ (x + 1) + i - 1 = (n - (n - x)) + i
                                           /\ (n - (n - x)) + i \in 1 .. n
    BY <1>1, <1>x
  <1>5. Len(v) = n - x
    BY <1>3, <1>4
  <1>6. EndsWith(v, u, n)
    <2> DEFINE l == n - x
    <2>1. v \in Seq(Chars) /\ Len(v) = l /\ l \in Nat /\ l <= n
      BY <1>3, <1>4, <1>5
    <2>2. \A i \in 1 .. l : v[i] = Text(u)[(n - l) + i]
      BY <1>1, <1>3, <1>4
    <2> HIDE DEF l
    <2> QED
      BY <2>1, <2>2 DEF EndsWith
  <1> QED
    BY <1>1, <1>5, <1>6 DEF v, t

\* What was kept, and the segment that follows it.
LEMMA KeptEnds ==
    ASSUME NEW u \in Uploads, NEW n \in Nat, NEW x \in 0 .. n,
           NEW s, EndsWith(s, u, x), NEW body, EndsWith(body, u, n), Len(body) = n - x
    PROVE  EndsWith(s \o body, u, n) /\ Len(s \o body) = Len(s) + (n - x)
  <1> DEFINE k == s \o body
             T == Text(u)
             l == Len(s)
             h == n - x
  <1>1. s \in Seq(Chars) /\ l \in Nat /\ l <= x /\ \A i \in 1 .. l : s[i] = T[(x - l) + i]
    BY DEF EndsWith
  <1>2. body \in Seq(Chars) /\ h \in Nat /\ \A i \in 1 .. h : body[i] = T[(n - h) + i]
    BY DEF EndsWith
  <1>3. Len(body) = h
    OBVIOUS
  <1>4. k \in Seq(Chars) /\ Joined(Chars, s, body, k)
    BY <1>1, <1>2, Joins
  <1>5. x \in 0 .. n
    OBVIOUS
  <1>6. l = Len(s)
    OBVIOUS
  <1> HIDE DEF k, T, l, h
  <1>7. Len(k) = l + h /\ (\A i \in 1 .. l : k[i] = s[i]) /\ \A i \in 1 .. h : k[l + i] = body[i]
    BY <1>3, <1>4, <1>6 DEF Joined
  <1>8. h = n - x
    BY DEF h
  <1>9. ASSUME NEW i \in 1 .. l + h PROVE k[i] = T[(n - (l + h)) + i]
    <2>1. CASE i <= l
      <3>1. i \in 1 .. l /\ (x - l) + i = (n - (l + h)) + i
        BY <1>1, <1>2, <1>5, <1>8, <2>1
      <3> QED
        BY <1>1, <1>7, <3>1
    <2>2. CASE i > l
      <3>1. i - l \in 1 .. h /\ l + (i - l) = i /\ (n - h) + (i - l) = (n - (l + h)) + i
        BY <1>1, <1>2, <1>5, <1>8, <2>2
      <3>2. k[l + (i - l)] = body[i - l]
        BY <1>7, <3>1
      <3>3. body[i - l] = T[(n - h) + (i - l)]
        BY <1>2, <3>1
      <3> QED
        BY <3>1, <3>2, <3>3
    <2> QED
      BY <1>1, <2>1, <2>2
  <1>10. l + h \in Nat /\ l + h <= n
    BY <1>1, <1>2, <1>5, <1>8
  <1>11. EndsWith(k, u, n)
    <2> DEFINE m == l + h
    <2>1. k \in Seq(Chars) /\ Len(k) = m /\ m \in Nat /\ m <= n
              /\ \A i \in 1 .. m : k[i] = T[(n - m) + i]
      BY <1>4, <1>7, <1>9, <1>10
    <2> HIDE DEF m
    <2> QED
      BY <2>1 DEF EndsWith, T
  <1> QED
    BY <1>7, <1>8, <1>11 DEF k, l

\* The delimiter that closes the body.
Closing(u) == Delimiter(u) \o Dashes

LEMMA ClosingIs ==
    ASSUME NEW u \in Uploads
    PROVE  /\ Closing(u) \in Seq(Chars) /\ Len(Closing(u)) = Len(u.boundary) + 4
           /\ Len(u.boundary) \in Nat
           /\ \A i \in 1 .. Len(u.boundary) + 4 : Closing(u)[i] \notin {"CR", "LF"}
           /\ \A i \in 1 .. Len(u.boundary) + 2 : Closing(u)[i] = Delimiter(u)[i]
           /\ \A i \in 1 .. Len(u.boundary) : Closing(u)[2 + i] = u.boundary[i]
           /\ \A i \in 1 .. 2 : /\ Closing(u)[i] = Dashes[i]
                                /\ Closing(u)[(Len(u.boundary) + 2) + i] = Dashes[i]
  <1> DEFINE d == Delimiter(u)
             c == Closing(u)
             b == Len(u.boundary)
             bd == u.boundary
  <1>1. Joined(Chars, Dashes, bd, d) /\ Len(d) = b + 2 /\ b \in Nat
    BY DelimiterIs
  <1>2. Dashes \in Seq(Chars) /\ Len(Dashes) = 2 /\ Dashes[1] = "-" /\ Dashes[2] = "-"
    BY Signs
  <1>3. c \in Seq(Chars) /\ Joined(Chars, d, Dashes, c)
    <2>1. d \in Seq(Chars)
      BY <1>1 DEF Joined
    <2>2. c = d \o Dashes
      BY DEF Closing
    <2> HIDE DEF d, c
    <2> QED
      BY <1>2, <2>1, <2>2, Joins
  <1>4. \A i \in 1 .. b : bd[i] \notin {"CR", "LF"}
    BY FormsAreRead
  <1>5. b = Len(bd)
    OBVIOUS
  <1> HIDE DEF d, c, b, bd
  <1>6. /\ \A i \in 1 .. 2 : d[i] = Dashes[i]
        /\ \A i \in 1 .. b : d[2 + i] = bd[i]
    BY <1>1, <1>2, <1>5 DEF Joined
  <1>7. /\ Len(c) = (b + 2) + 2
        /\ \A i \in 1 .. b + 2 : c[i] = d[i]
        /\ \A i \in 1 .. 2 : c[(b + 2) + i] = Dashes[i]
    BY <1>1, <1>2, <1>3 DEF Joined
  <1>8. (b + 2) + 2 = b + 4
    BY <1>1
  <1>9. \A i \in 1 .. b : c[2 + i] = bd[i]
    <2>1. \A i \in 1 .. b : 2 + i \in 1 .. b + 2
      BY <1>1
    <2> QED
      BY <1>6, <1>7, <2>1
  <1>10. \A i \in 1 .. 2 : c[i] = Dashes[i]
    <2>1. \A i \in 1 .. 2 : i \in 1 .. b + 2
      BY <1>1
    <2> QED
      BY <1>6, <1>7, <2>1
  <1>11. \A i \in 1 .. 2 : Dashes[i] = "-"
    BY <1>2
  <1>12. ASSUME NEW i \in 1 .. b + 4 PROVE c[i] \notin {"CR", "LF"}
    <2>1. CASE i <= 2
      <3>1. i \in 1 .. 2
        BY <2>1
      <3> QED
        BY <1>10, <1>11, <3>1
    <2>2. CASE i > 2 /\ i <= b + 2
      <3>1. i - 2 \in 1 .. b /\ 2 + (i - 2) = i
        BY <1>1, <2>2
      <3>2. c[2 + (i - 2)] = bd[i - 2]
        BY <1>9, <3>1
      <3> QED
        BY <1>4, <3>1, <3>2
    <2>3. CASE i > b + 2
      <3>1. i - (b + 2) \in 1 .. 2 /\ (b + 2) + (i - (b + 2)) = i
        BY <1>1, <2>3
      <3>2. c[(b + 2) + (i - (b + 2))] = "-"
        BY <1>7, <1>11, <3>1
      <3> QED
        BY <3>1, <3>2
    <2> QED
      BY <1>1, <2>1, <2>2, <2>3
  <1> QED
    BY <1>1, <1>3, <1>7, <1>8, <1>9, <1>10, <1>12 DEF d, c, b, bd

\* It does not stand where a file is, or where one begins.
LEMMA NoClosing ==
    ASSUME NEW u \in Uploads, NEW k \in 1 .. Len(u.parts), NEW p \in Nat,
           p < Until(u, k), p + (Len(u.boundary) + 4) >= Before(u, k),
           \A i \in 1 .. Len(Closing(u)) : Text(u)[p + i] = Closing(u)[i]
    PROVE  FALSE
  <1> DEFINE a == Before(u, k)
             z == Until(u, k)
             b == Len(u.boundary)
             c == Closing(u)
             T == Text(u)
  <1>1. a \in Nat /\ z \in Nat /\ b \in Nat
    BY FileIs
  <1>2. Len(c) = b + 4 /\ (\A i \in 1 .. b + 4 : c[i] \notin {"CR", "LF"})
        /\ \A i \in 1 .. b + 2 : c[i] = Delimiter(u)[i]
    BY ClosingIs
  <1>3. T[a] = "LF"
    BY NameIs
  <1>4. p < z /\ p + (b + 4) >= a
    OBVIOUS
  <1>5. \A i \in 1 .. b + 4 : T[p + i] = c[i]
    BY <1>2
  <1>6. Len(Delimiter(u)) = b + 2
    BY DelimiterIs
  <1> HIDE DEF a, z, b, c, T
  <1>7. CASE p < a
    <2>1. a - p \in 1 .. b + 4 /\ p + (a - p) = a
      BY <1>1, <1>4, <1>7
    <2>2. T[p + (a - p)] = c[a - p]
      BY <1>5, <2>1
    <2> QED
      BY <1>2, <1>3, <2>1, <2>2
  <1>8. CASE p >= a
    <2>1. p \in a .. z - 1
      BY <1>1, <1>4, <1>8
    <2>2. \A i \in 1 .. b + 2 : i \in 1 .. b + 4
      BY <1>1
    <2>3. \A i \in 1 .. b + 2 : T[p + i] = Delimiter(u)[i]
      BY <1>2, <1>5, <2>2
    <2> QED
      BY <1>6, <2>1, <2>3, NoDelimiter DEF a, z, T
  <1> QED
    BY <1>1, <1>7, <1>8

LEMMA BodyTailIs ==
    ASSUME NEW u \in Uploads, boundary = u.boundary, NEW body
    PROVE  /\ Len(Closing(u)) <= Len(body) =>
                BodyTail(body) = IF Ending(body, Len(Closing(u))) = Closing(u)
                                 THEN [found |-> TRUE, tail |-> <<>>]
                                 ELSE [found |-> FALSE, tail |-> Ending(body, Len(Closing(u)))]
           /\ ~(Len(Closing(u)) <= Len(body)) =>
                BodyTail(body) = IF IsPrefix(Closing(u), tail \o body)
                                 THEN [found |-> TRUE, tail |-> <<>>]
                                 ELSE [found |-> FALSE,
                                       tail |-> IF Len(tail \o body) <= Len(Closing(u)) THEN tail \o body
                                                ELSE Ending(tail \o body, Len(Closing(u)))]
  <1>1. Dashes \o boundary \o Dashes = Closing(u)
    BY DEF Closing, Delimiter
  <1> QED
    BY <1>1, Zenon DEF BodyTail

\* A segment that ends in the first file does not end the body.
LEMMA TailInFile ==
    ASSUME NEW u \in Uploads, u.parts # <<>>, boundary = u.boundary,
           NEW n, {n, n + 1} \subseteq FileAt(u, 1), NEW x \in 0 .. n,
           x = Len(u.head) \/ (x \in FileAt(u, 1) /\ EndsWith(tail, u, x)
                               /\ Len(tail) <= Len(Closing(u)))
    PROVE  LET t == BodyTail(SubSeq(Cut(u, n), x + 1, Len(Cut(u, n))))
           IN  t.found = FALSE /\ EndsWith(t.tail, u, n) /\ Len(t.tail) <= Len(Closing(u))
  <1> DEFINE a == Before(u, 1)
             z == Until(u, 1)
             b == Len(u.boundary)
             q == Len(u.head)
             N == Len(Text(u))
             c == Closing(u)
             L == Len(c)
             body == SubSeq(Cut(u, n), x + 1, Len(Cut(u, n)))
             h == Len(body)
             t == BodyTail(body)
             T == Text(u)
  <1>1. 1 \in 1 .. Len(u.parts)
    BY UploadIs
  <1>2. /\ a \in Nat /\ z \in Nat /\ b \in Nat /\ N \in Nat /\ q \in Nat /\ q + b + 4 <= a
        /\ z + 2 + b + 4 <= N /\ FileAt(u, 1) = (a + 1) .. z
    BY <1>1, FileIs
  <1>3. n \in (a + 1) .. z /\ n + 1 \in (a + 1) .. z /\ x \in 0 .. n
    BY <1>2
  <1>4. x = q \/ (x \in (a + 1) .. z /\ EndsWith(tail, u, x) /\ Len(tail) <= L)
    BY <1>2
  <1>5. c \in Seq(Chars) /\ L = b + 4
    BY ClosingIs
  <1>6. EndsWith(body, u, n) /\ h = n - x
    <2>1. n \in 0 .. N
      <3> HIDE DEF a, z, b, q, N
      <3> QED
        BY <1>2, <1>3
    <2> HIDE DEF body
    <2> QED
      BY <2>1, BodyIs DEF body, N, h
  <1>7. ASSUME NEW p \in Nat, p < z, p + L >= a, \A i \in 1 .. L : T[p + i] = c[i]
        PROVE  FALSE
    BY <1>1, <1>5, <1>7, NoClosing
  <1>8. /\ L <= h => t = IF Ending(body, L) = c THEN [found |-> TRUE, tail |-> <<>>]
                         ELSE [found |-> FALSE, tail |-> Ending(body, L)]
        /\ ~(L <= h) => t = IF IsPrefix(c, tail \o body) THEN [found |-> TRUE, tail |-> <<>>]
                            ELSE [found |-> FALSE, tail |-> IF Len(tail \o body) <= L THEN tail \o body
                                                            ELSE Ending(tail \o body, L)]
    <2> HIDE DEF body
    <2> QED
      BY BodyTailIs
  <1>L. L = Len(c) /\ h = Len(body)
    OBVIOUS
  <1> HIDE DEF a, z, b, q, N, c, body, t, T, L, h
  <1>9. n \in Nat /\ L \in Nat /\ h \in Nat
    BY <1>2, <1>3, <1>5, <1>6
  <1>10. CASE L <= h
    <2> DEFINE v == Ending(body, L)
    <2>1. L \in 0 .. Len(body)
      BY <1>9, <1>10, <1>L
    <2>2. EndsWith(v, u, n) /\ Len(v) = L
      <3>1. EndsWith(Ending(body, L), u, n) /\ Len(Ending(body, L)) = L
        BY <1>6, <1>9, <2>1, EndingEnds
      <3> QED
        BY <3>1
    <2> HIDE DEF v
    <2>3. v # c
      <3> SUFFICES ASSUME v = c PROVE FALSE
        OBVIOUS
      <3> DEFINE p == n - L
      <3>1. \A i \in 1 .. L : T[p + i] = c[i]
        BY <2>2 DEF EndsWith, T
      <3>2. p \in Nat /\ p < z /\ p + L >= a
        <4>1. L <= n
          BY <2>2 DEF EndsWith
        <4>2. L > 0
          BY <1>2, <1>5
        <4> QED
          BY <1>2, <1>3, <1>9, <4>1, <4>2
      <3> HIDE DEF p
      <3> QED
        BY <1>7, <3>1, <3>2
    <2>4. t = [found |-> FALSE, tail |-> v]
      BY <1>8, <1>10, <2>3 DEF v
    <2>5. L <= L
      BY <1>9
    <2> QED
      BY <2>2, <2>4, <2>5 DEF t, body, L, c
  <1>11. CASE ~(L <= h)
    <2>1. x \in (a + 1) .. z /\ EndsWith(tail, u, x) /\ Len(tail) <= L
      <3>1. x # q
        BY <1>2, <1>3, <1>5, <1>6, <1>9, <1>11
      <3> QED
        BY <1>4, <3>1
    <2> DEFINE k == tail \o body
               m == Len(k)
               l == Len(tail)
    <2>2. EndsWith(k, u, n) /\ m = l + (n - x)
      <3>1. Len(body) = n - x
        BY <1>6, <1>L
      <3> QED
        BY <1>3, <1>6, <1>9, <2>1, <3>1, KeptEnds
    <2>3. l \in Nat /\ l <= x /\ l <= L
      BY <2>1 DEF EndsWith
    <2>m. m = Len(k)
      OBVIOUS
    <2>4. k \in Seq(Chars) /\ m \in Nat /\ m <= n /\ \A i \in 1 .. m : k[i] = T[(n - m) + i]
      BY <2>2 DEF EndsWith, T
    <2> HIDE DEF k, l, m
    <2>5. ~IsPrefix(c, k)
      <3> SUFFICES ASSUME IsPrefix(c, k) PROVE FALSE
        OBVIOUS
      <3>1. SubSeq(k, 1, Len(k)) = k /\ 1 \in 1 .. Len(k) + 1
        BY <2>4, <2>m, SubSeqFull
      <3>2. /\ Len(c) <= Len(k) + 1 - 1
            /\ \A i \in 1 .. Len(c) : k[(1 - 1) + i] = c[i]
        BY <1>5, <2>4, <3>1, PrefixMeans
      <3>3. L <= m
        BY <1>L, <2>4, <2>m, <3>2
      <3>4. \A i \in 1 .. L : i \in 1 .. m /\ (1 - 1) + i = i
        BY <1>9, <2>4, <3>3
      <3> DEFINE p == n - m
      <3>5. \A i \in 1 .. L : T[p + i] = c[i]
        BY <1>L, <2>4, <3>2, <3>4
      <3>6. p \in Nat /\ p < z /\ p + L >= a
        BY <1>2, <1>3, <1>9, <2>1, <2>2, <2>3, <2>4
      <3> HIDE DEF p
      <3> QED
        BY <1>7, <3>5, <3>6
    <2>6. t = [found |-> FALSE, tail |-> IF m <= L THEN k ELSE Ending(k, L)]
      BY <1>8, <1>11, <2>5 DEF k, m
    <2>7. CASE m <= L
      BY <2>2, <2>6, <2>7, <2>m DEF t, body, L, c
    <2>8. CASE ~(m <= L)
      <3>1. L \in 0 .. Len(k)
        BY <1>9, <2>4, <2>8, <2>m
      <3>2. EndsWith(Ending(k, L), u, n) /\ Len(Ending(k, L)) = L
        BY <1>9, <2>2, <3>1, EndingEnds
      <3>3. L <= L
        BY <1>9
      <3>4. t = [found |-> FALSE, tail |-> Ending(k, L)]
        BY <2>6, <2>8
      <3> QED
        BY <3>2, <3>3, <3>4 DEF t, body, L, c
    <2> QED
      BY <2>7, <2>8
  <1> QED
    BY <1>10, <1>11

\* The last segment does.
LEMMA TailAtEnd ==
    ASSUME NEW u \in Uploads, u.parts # <<>>, u.rest = <<>>, boundary = u.boundary,
           NEW x, x = Len(u.head) \/ x \in FileAt(u, 1)
    PROVE  BodyTail(SubSeq(Text(u), x + 1, Len(Text(u)))) = [found |-> TRUE, tail |-> <<>>]
  <1> DEFINE a == Before(u, 1)
             z == Until(u, 1)
             b == Len(u.boundary)
             q == Len(u.head)
             T == Text(u)
             N == Len(T)
             c == Closing(u)
             L == Len(c)
             e == Begin(u, Len(u.parts))
             r == Len(u.rest)
             body == SubSeq(T, x + 1, N)
             v == Ending(body, L)
  <1>1. 1 \in 1 .. Len(u.parts)
    BY UploadIs
  <1>2. /\ a \in Nat /\ z \in Nat /\ b \in Nat /\ N \in Nat /\ q \in Nat /\ q + b + 4 <= a /\ a <= z
        /\ z + 2 + b + 4 <= N /\ FileAt(u, 1) = (a + 1) .. z
    BY <1>1, FileIs
  <1>3. x = q \/ x \in (a + 1) .. z
    BY <1>2
  <1>4. c \in Seq(Chars) /\ L = b + 4
    BY ClosingIs
  <1>5. x \in 0 .. N /\ N - x \in Nat /\ L <= N - x /\ N \in 0 .. N /\ L \in 0 .. N - x
    <2> HIDE DEF a, z, b, q, N, L
    <2> QED
      BY <1>2, <1>3, <1>4
  <1>6. EndsWith(body, u, N) /\ Len(body) = N - x
    <2>1. Cut(u, N) = T /\ Len(Cut(u, N)) = N
      BY <1>5, CutIs
    <2>2. /\ EndsWith(SubSeq(Cut(u, N), x + 1, Len(Cut(u, N))), u, N)
          /\ Len(SubSeq(Cut(u, N), x + 1, Len(Cut(u, N)))) = N - x
      <3> HIDE DEF N
      <3> QED
        BY <1>5, BodyIs DEF N
    <2> QED
      BY <2>1, <2>2
  <1>7. EndsWith(v, u, N) /\ Len(v) = L
    <2> HIDE DEF body, N, L
    <2>1. L \in 0 .. Len(body) /\ N \in Nat
      BY <1>2, <1>5, <1>6
    <2> QED
      BY <1>6, <2>1, EndingEnds DEF v
  <1>8. /\ N = e + (b + 4) + r /\ e \in Nat
        /\ \A i \in 1 .. b + 2 : T[e + i] = Delimiter(u)[i]
                  /\ T[(e + 2) + i] = (u.boundary \o Dashes)[i]
    BY TextIs
  <1>9. r = 0
    BY EmptySeq
  <1>10. /\ \A i \in 1 .. b + 2 : c[i] = Delimiter(u)[i]
         /\ \A i \in 1 .. 2 : c[(b + 2) + i] = Dashes[i]
    BY ClosingIs
  <1>11. Joined(Chars, u.boundary, Dashes, u.boundary \o Dashes) /\ Len(Dashes) = 2
    <2>1. u.boundary \in Seq(Chars) /\ Dashes \in Seq(Chars) /\ Len(Dashes) = 2
      BY UploadIs, Signs
    <2> QED
      BY <2>1, Joins
  <1>12. \A i \in 1 .. 2 : (u.boundary \o Dashes)[b + i] = Dashes[i]
    BY <1>11 DEF Joined
  <1>e. /\ v \in Seq(Chars) /\ Len(v) = L /\ \A i \in 1 .. L : v[i] = T[(N - L) + i]
    <2> HIDE DEF v, L, N
    <2> QED
      BY <1>7 DEF EndsWith
  <1>13. v = c
    <2>c. Len(c) = L
      OBVIOUS
    <2> HIDE DEF a, z, b, q, T, N, c, L, e, r, v
    <2>1. ASSUME NEW i \in 1 .. L PROVE v[i] = c[i]
      <3>1. (N - L) + i = e + i
        BY <1>2, <1>4, <1>8, <1>9
      <3>2. CASE i <= b + 2
        <4>1. i \in 1 .. b + 2
          BY <1>2, <1>4, <3>2
        <4> QED
          BY <1>8, <1>10, <1>e, <3>1, <4>1
      <3>3. CASE i > b + 2
        <4> DEFINE j == i - (b + 2)
        <4>1. j \in 1 .. 2 /\ (b + 2) + j = i /\ b + j \in 1 .. b + 2 /\ (e + 2) + (b + j) = e + i
          BY <1>2, <1>4, <1>8, <3>3
        <4> HIDE DEF j
        <4>2. T[(e + 2) + (b + j)] = (u.boundary \o Dashes)[b + j]
          BY <1>8, <4>1
        <4>3. c[(b + 2) + j] = Dashes[j]
          BY <1>10, <4>1
        <4>4. (u.boundary \o Dashes)[b + j] = Dashes[j]
          BY <1>12, <4>1
        <4> QED
          BY <1>e, <3>1, <4>1, <4>2, <4>3, <4>4
      <3> QED
        BY <1>2, <1>4, <3>2, <3>3
    <2> QED
      BY <1>4, <1>e, <2>1, <2>c, SeqEqual
  <1>14. L <= Len(body)
    BY <1>5, <1>6
  <1> HIDE DEF body
  <1>15. BodyTail(body) = IF v = c THEN [found |-> TRUE, tail |-> <<>>] ELSE [found |-> FALSE, tail |-> v]
    BY <1>14, BodyTailIs
  <1> QED
    BY <1>13, <1>15 DEF body

------------------------------------------------------------------------------
(* Uploads: the invariant.                                                  *)

Pieces == [1 .. MaxFiles -> [buf : Int, end : Int]]

\* Nothing is open: a request line is next.
Idle == step = 0 /\ mime = 0 /\ fileNumber = 0

\* A segment ended inside the first file.
InFile ==
    /\ {sent, sent + 1} \subseteq FileAt(upload, 1)
    /\ fileNumber = 1 /\ mime \in {FileContent, MinusSign}
    /\ mime = MinusSign => Text(upload)[sent] = "-"
    /\ EndsWith(tail, upload, sent) /\ Len(tail) <= Len(Closing(upload))

\* The body of a form is being read.
Reading ==
    /\ upload.parts # <<>> /\ step = 3 /\ fileType = 2 /\ boundary = upload.boundary
    /\ \/ sent = Len(upload.head) /\ mime = 0 /\ fileNumber = 0
       \/ InFile

UploadTypeOK ==
    /\ upload \in Uploads /\ sent \in 0 .. Len(Text(upload)) /\ segments \in 0 .. MaxSegments
    /\ uploads \in 1 .. MaxUploads /\ fileType \in 0 .. 2 /\ files \in Pieces
    /\ boundary \in {<<>>} \cup {w.boundary : w \in Uploads}
    /\ Len(boundary) <= Len(upload.boundary)

UploadIInv ==
    uploadFaults = {} =>
        /\ UploadTypeOK
        /\ IF sent \in 1 .. (Len(Text(upload)) - 1) THEN Reading ELSE Idle
        /\ wrote \subseteq Content(upload) /\ stray = FALSE

LEMMA FindersAre ==
    ASSUME NEW s \in 0 .. MinusSign, NEW n \in Nat, NEW fs \in Pieces
    PROVE  [state |-> s, number |-> n, files |-> fs] \in Finders
  BY DEF Finders, Pieces

LEMMA FilesAge ==
    ASSUME files \in Pieces
    PROVE  AgedFiles \in Pieces
  <1>1. ASSUME NEW i \in 1 .. MaxFiles
        PROVE  [buf |-> Aged(files[i].buf), end |-> Aged(files[i].end)] \in [buf : Int, end : Int]
    BY DEF Pieces, Aged, Null, Earlier
  <1>2. DOMAIN files = 1 .. MaxFiles
    BY DEF Pieces
  <1> QED
    BY <1>1, <1>2 DEF AgedFiles, Pieces

LEMMA FilesOpen ==
    ASSUME files \in Pieces, NEW text, Len(text) \in Int, NEW from \in Int
    PROVE  /\ OpenFiles(text, from) \in Pieces
           /\ fileNumber \in 1 .. MaxFiles => OpenFiles(text, from)[fileNumber].buf = from
  <1>1. AgedFiles \in Pieces
    BY FilesAge
  <1>2. [buf |-> from, end |-> Len(text) + 1] \in [buf : Int, end : Int]
    OBVIOUS
  <1> HIDE DEF AgedFiles
  <1>3. CASE fileNumber = 0
    <2>1. OpenFiles(text, from) = AgedFiles /\ fileNumber \notin 1 .. MaxFiles
      BY <1>3 DEF OpenFiles
    <2> QED
      BY <1>1, <2>1
  <1>4. CASE fileNumber # 0
    <2>1. OpenFiles(text, from) = [AgedFiles EXCEPT ![fileNumber] = [buf |-> from, end |-> Len(text) + 1]]
      BY <1>4 DEF OpenFiles
    <2> DEFINE r == [buf |-> from, end |-> Len(text) + 1]
               fs == AgedFiles
               gs == OpenFiles(text, from)
    <2>2. r \in [buf : Int, end : Int] /\ r.buf = from
      BY <1>2
    <2>3. gs = [fs EXCEPT ![fileNumber] = r] /\ fs \in [1 .. MaxFiles -> [buf : Int, end : Int]]
      BY <1>1, <2>1 DEF Pieces
    <2> HIDE DEF r, fs, gs
    <2>4. gs \in [1 .. MaxFiles -> [buf : Int, end : Int]]
              /\ (fileNumber \in 1 .. MaxFiles => gs[fileNumber] = r)
      BY <2>2, <2>3
    <2> QED
      BY <2>2, <2>4 DEF gs, Pieces
  <1> QED
    BY <1>3, <1>4

\* A file's bytes.
LEMMA ContentIs ==
    ASSUME NEW u \in Uploads, NEW k \in 1 .. Len(u.parts)
    PROVE  FileAt(u, k) \subseteq Content(u)
  <1>1. u.parts \in Seq(Parts)
    BY UploadIs
  <1>2. DOMAIN u.parts = 1 .. Len(u.parts)
    BY <1>1, LenProperties
  <1> QED
    BY <1>2 DEF Content

\* The segment ends the form: all its files were found.
LEMMA FoundRewritten ==
    ASSUME NEW u \in Uploads, NEW from \in Nat \ {0}, NEW f, Found(u, Len(u.parts), from, f),
           wrote \subseteq Content(u), stray = FALSE, Rewrite(f, 2, from .. Len(Text(u)))
    PROVE  /\ mime' = 0 /\ fileNumber' = 0 /\ files' \in Pieces
           /\ wrote' \subseteq Content(u) /\ stray' = FALSE
  <1> DEFINE own == from .. Len(Text(u))
             K == Len(u.parts)
  <1>1. f \in Finders /\ f.state = 0 /\ f.number = K
    BY DEF Found
  <1>2. mime' = 0 /\ fileNumber' = 0 /\ files' = f.files
    BY <1>1 DEF Rewrite
  <1>3. PICK hit \in SUBSET (1 .. K) :
           /\ \A i \in 1 .. K : (i \in hit) \in Less(f.files[i].buf, f.files[i].end)
           /\ wrote' = wrote \cup ({f.files[i].buf : i \in hit} \cap own)
           /\ stray' = (stray \/ ~({f.files[i].buf : i \in hit} \subseteq own))
    BY <1>1 DEF Rewrite
  <1>4. ASSUME NEW i \in hit
        PROVE  f.files[i].buf \in Content(u) /\ f.files[i].buf \in own
    <2>0. i \in 1 .. K
      OBVIOUS
    <2> DEFINE p == f.files[i].buf
               e == f.files[i].end
               a == Before(u, i)
               z == Until(u, i)
               b == Len(u.boundary)
               N == Len(Text(u))
    <2>1. /\ a \in Nat /\ z \in Nat /\ b \in Nat /\ N \in Nat /\ z + 2 + b + 4 <= N
          /\ FileAt(u, i) = (a + 1) .. z
      BY <2>0, FileIs
    <2>2. e = z + 1 /\ p > a /\ p >= from
      BY <2>0 DEF Found
    <2>3. TRUE \in Less(p, e)
      BY <1>3, <2>0
    <2>p. p \in Int
      <3>1. i \in 1 .. MaxFiles
        BY <2>0, PartsFit
      <3> QED
        BY <1>1, <3>1 DEF Finders
    <2> HIDE DEF p, e, a, z, b, N, K, own
    <2>4. p < e
      <3>1. p # Earlier /\ e # Earlier
        BY <2>1, <2>2, <2>p DEF Earlier
      <3>2. Less(p, e) = {p < e}
        BY <3>1 DEF Less
      <3> QED
        BY <2>3, <3>2
    <2>5. p \in (a + 1) .. z /\ p \in from .. N
      BY <2>1, <2>2, <2>4, <2>p
    <2>6. p \in Content(u)
      <3>1. FileAt(u, i) \subseteq Content(u)
        BY <2>0, ContentIs DEF K
      <3> QED
        BY <2>1, <2>5, <3>1
    <2> QED
      BY <2>5, <2>6 DEF p, own, N
  <1>5. {f.files[i].buf : i \in hit} \subseteq Content(u)
            /\ {f.files[i].buf : i \in hit} \subseteq own
    BY <1>4
  <1>6. f.files \in Pieces
    BY <1>1 DEF Finders, Pieces
  <1> QED
    BY <1>2, <1>3, <1>5, <1>6

\* The segment ends in the first file.
LEMMA ContentRewritten ==
    ASSUME NEW u \in Uploads, NEW n, NEW f, InContent(u, 1, f, n), NEW own,
           f.files[1].buf \in FileAt(u, 1) \cap own, u.parts # <<>>,
           wrote \subseteq Content(u), stray = FALSE, Rewrite(f, 2, own)
    PROVE  /\ mime' = f.state /\ fileNumber' = 1 /\ files' \in Pieces
           /\ wrote' \subseteq Content(u) /\ stray' = FALSE
  <1>1. f \in Finders /\ f.state \in {FileContent, MinusSign} /\ f.number = 1
    BY DEF InContent
  <1>2. f.state # 0
    BY <1>1 DEF FileContent, MinusSign
  <1>3. mime' = f.state /\ fileNumber' = 1 /\ files' = f.files
    BY <1>1, <1>2 DEF Rewrite
  <1>4. PICK hit \in SUBSET (1 .. 1) :
           /\ wrote' = wrote \cup ({f.files[i].buf : i \in hit} \cap own)
           /\ stray' = (stray \/ ~({f.files[i].buf : i \in hit} \subseteq own))
    BY <1>1 DEF Rewrite
  <1>5. \A i \in hit : i = 1
    <2>1. 1 .. 1 = {1}
      OBVIOUS
    <2> QED
      BY <2>1
  <1>6. FileAt(u, 1) \subseteq Content(u)
    <2>1. 1 \in 1 .. Len(u.parts)
      BY UploadIs
    <2> QED
      BY <2>1, ContentIs
  <1>7. {f.files[i].buf : i \in hit} \subseteq Content(u)
            /\ {f.files[i].buf : i \in hit} \subseteq own
    BY <1>5, <1>6
  <1>8. f.files \in Pieces
    BY <1>1 DEF Finders, Pieces
  <1> QED
    BY <1>3, <1>4, <1>7, <1>8

\* Nothing is found.
LEMMA NothingRewritten ==
    ASSUME NEW type, NEW own, files \in Pieces, mime = 0, fileNumber = 0, stray = FALSE,
           Rewrite(AsItWas, type, own)
    PROVE  mime' = 0 /\ fileNumber' = 0 /\ files' \in Pieces /\ wrote' = wrote /\ stray' = FALSE
  <1>1. AgedFiles \in Pieces
    BY FilesAge
  <1>2. AsItWas.state = 0 /\ AsItWas.number = 0 /\ AsItWas.files = AgedFiles
    BY DEF AsItWas
  <1> HIDE DEF AsItWas
  <1>3. mime' = 0 /\ fileNumber' = 0 /\ files' = AgedFiles
    BY <1>2 DEF Rewrite
  <1>4. PICK hit \in SUBSET (1 .. 0) :
           /\ wrote' = wrote \cup ({AsItWas.files[i].buf : i \in hit} \cap own)
           /\ stray' = (stray \/ ~({AsItWas.files[i].buf : i \in hit} \subseteq own))
    BY <1>2 DEF Rewrite
  <1>5. hit = {}
    OBVIOUS
  <1>6. {AsItWas.files[i].buf : i \in hit} = {}
    BY <1>5
  <1> QED
    BY <1>1, <1>3, <1>4, <1>6

\* The head of an upload.
LEMMA HeadRead ==
    ASSUME NEW u \in Uploads, NEW n \in {Len(u.head), Len(Text(u))},
           boundary \in {<<>>} \cup {w.boundary : w \in Uploads}, Len(boundary) <= Len(u.boundary)
    PROVE  LET line == RequestLine(SubSeq(Cut(u, n), 1, Len(Cut(u, n))))
               h == Header(Cut(u, n), 1 + line, boundary)
           IN  IF u.parts = <<>> THEN (line = 0 \/ h.type \in {0, 1}) /\ h.boundary = boundary
               ELSE /\ line > 0 /\ h.s # "bad" /\ h.type = 2
                    /\ h.boundary = u.boundary /\ h.at = Len(u.head) + 1
  <1> DEFINE line == RequestLine(SubSeq(Cut(u, n), 1, Len(Cut(u, n))))
             h == Header(Cut(u, n), 1 + line, boundary)
  <1>1. IF u.parts = <<>> THEN (line = 0 \/ h.type \in {0, 1}) /\ h.boundary = boundary
        ELSE Len(boundary) <= Len(u.boundary) =>
                /\ line > 0 /\ h.s # "bad" /\ h.type = 2
                /\ h.boundary = u.boundary /\ h.at = Len(u.head) + 1
    BY HeadsAreRead, Zenon DEF Cut
  <1> HIDE DEF line, h
  <1> QED
    BY <1>1 DEF line, h

\* Where a segment may end.
LEMMA MayCutIs ==
    ASSUME NEW u \in Uploads, uploadFaults = {}, NEW n, MayCut(u, n)
    PROVE  \/ n = Len(Text(u))
           \/ n = Len(u.head) /\ u.parts # <<>>
           \/ sent >= Len(u.head) /\ u.parts # <<>> /\ {n, n + 1} \subseteq FileAt(u, 1)
  BY DEF MayCut

LEMMA SegmentTypes ==
    ASSUME uploadFaults = {}, UploadTypeOK, NEW n \in 1 .. Len(Text(upload)), Segment(n),
           files' \in Pieces, fileType' \in 0 .. 2, Len(boundary') <= Len(upload.boundary),
           boundary' \in {<<>>} \cup {w.boundary : w \in Uploads}
    PROVE  /\ UploadTypeOK' /\ uploadFaults' = {} /\ upload' = upload /\ sent' = n
  <1>1. /\ uploadFaults' = {} /\ upload' = upload /\ uploads' = uploads
        /\ sent' = n /\ segments' = segments + 1
    BY DEF Segment
  <1>2. segments < MaxSegments
    BY DEF Segment, SegmentsOf
  <1>3. /\ upload \in Uploads /\ segments \in 0 .. MaxSegments /\ uploads \in 1 .. MaxUploads
        /\ MaxSegments \in Nat
    BY UploadBounds DEF UploadTypeOK
  <1>4. segments + 1 \in 0 .. MaxSegments
    BY <1>2, <1>3
  <1>5. n \in 0 .. Len(Text(upload))
    <2>1. Len(Text(upload)) \in Nat
      BY <1>3, TextIs
    <2> HIDE DEF Text
    <2> QED
      BY <2>1
  <1> QED
    BY <1>1, <1>3, <1>4, <1>5 DEF UploadTypeOK

LEMMA TextHas ==
    ASSUME NEW u \in Uploads
    PROVE  /\ Len(Text(u)) \in Nat /\ Len(u.head) \in Nat \ {0} /\ Len(u.head) < Len(Text(u))
           /\ u.parts # <<>> => u.rest = <<>>
  <1> DEFINE q == Len(u.head)
             N == Len(Text(u))
             b == Len(u.boundary)
             r == Len(u.rest)
             e == Begin(u, Len(u.parts))
  <1>1. N = e + (b + 4) + r /\ N \in Nat /\ q \in Nat /\ b \in Nat /\ r \in Nat /\ e \in Nat
    BY TextIs
  <1>2. q <= e
    <2>1. Len(u.parts) \in Nat /\ 0 \in 0 .. Len(u.parts)
      BY UploadIs
    <2>2. Begin(u, 0) <= e /\ Begin(u, 0) = q
      BY <2>1, DelimiterAt, FirstBegin
    <2> QED
      BY <2>2
  <1>3. q # 0
    <2>1. u.head \in Seq(Chars) /\ u.head # <<>>
      BY UploadIs
    <2> QED
      BY <2>1, EmptySeq
  <1>4. u.parts # <<>> => u.rest = <<>>
    BY FormsAreRead
  <1> HIDE DEF q, N, b, r, e
  <1>5. N \in Nat /\ q \in Nat \ {0} /\ q < N
    BY <1>1, <1>2, <1>3
  <1> QED
    BY <1>4, <1>5 DEF q, N

\* The first segment of an upload.
LEMMA IdleSegment ==
    ASSUME uploadFaults = {}, UploadTypeOK, Idle, sent = 0, wrote \subseteq Content(upload),
           stray = FALSE, NEW n \in 1 .. Len(Text(upload)), Segment(n)
    PROVE  UploadIInv'
  <1> DEFINE u == upload
             T == Text(u)
             N == Len(T)
             q == Len(u.head)
             t == Cut(u, n)
             line == RequestLine(SubSeq(t, 1, Len(t)))
             h == Header(t, 1 + line, boundary)
  <1>1. /\ u \in Uploads /\ files \in Pieces /\ fileType \in 0 .. 2
        /\ boundary \in {<<>>} \cup {w.boundary : w \in Uploads} /\ Len(boundary) <= Len(u.boundary)
    BY DEF UploadTypeOK
  <1>2. N \in Nat /\ q \in Nat \ {0} /\ q < N /\ (u.parts # <<>> => u.rest = <<>>)
    BY <1>1, TextHas
  <1>3. step = 0 /\ mime = 0 /\ fileNumber = 0
    BY DEF Idle
  <1>4. MayCut(u, n) /\ HttpAnalysis(t, 1, 1 .. n)
    <2>1. sent + 1 = 1
      OBVIOUS
    <2> QED
      BY <2>1, Zenon DEF Segment, Cut
  <1>5. n = N \/ (n = q /\ u.parts # <<>>)
    <2>1. ~(0 >= q)
      BY <1>2
    <2> QED
      BY <1>1, <1>4, <2>1, MayCutIs
  <1>6. IF u.parts = <<>> THEN (line = 0 \/ h.type \in {0, 1}) /\ h.boundary = boundary
        ELSE /\ line > 0 /\ h.s # "bad" /\ h.type = 2
             /\ h.boundary = u.boundary /\ h.at = q + 1
    <2>1. n \in {q, N}
      BY <1>5
    <2> HIDE DEF u
    <2> QED
      BY <1>1, <2>1, HeadRead
  <1>7. n \in 0 .. N
    BY <1>2
  <1>8. Len(t) = n /\ t \in Seq(Chars) /\ (n = N => t = T)
    BY <1>1, <1>7, CutIs
  <1>9. ~Rest(t, 1, 1 .. n)
    BY <1>3 DEF Rest
  <1> HIDE DEF line, h
  <1>10. CASE u.parts = <<>>
    <2>1. ~Form(t, 1, 1 .. n)
      <3>1. line = 0 \/ h.type # 2
        BY <1>6, <1>10
      <3>2. ~(0 > 0)
        OBVIOUS
      <3> QED
        BY <3>1, <3>2 DEF Form, line, h
    <2>2. NotForm(t, 1, 1 .. n)
      BY <1>4, <1>9, <2>1 DEF HttpAnalysis
    <2>3. /\ fileType' = (IF line = 0 THEN 0 ELSE h.type)
          /\ boundary' = (IF line = 0 THEN boundary ELSE h.boundary)
          /\ Rewrite(AsItWas, fileType', 1 .. n) /\ step' = step
      BY <2>2 DEF NotForm, line, h
    <2>4. fileType' \in 0 .. 2 /\ boundary' = boundary
      BY <1>6, <1>10, <2>3
    <2>5. mime' = 0 /\ fileNumber' = 0 /\ files' \in Pieces /\ wrote' = wrote /\ stray' = FALSE
      BY <1>1, <1>3, <2>3, NothingRewritten
    <2>6. UploadTypeOK' /\ uploadFaults' = {} /\ upload' = upload /\ sent' = n
      <3> HIDE DEF u, t, T, N
      <3> QED
        BY <1>1, <2>4, <2>5, SegmentTypes DEF u
    <2>7. n = N /\ ~(N \in 1 .. N - 1)
      BY <1>2, <1>5, <1>10
    <2>8. Idle'
      BY <1>3, <2>3, <2>5 DEF Idle
    <2>9. ~(sent' \in 1 .. (Len(Text(upload')) - 1))
      BY <2>6, <2>7
    <2>10. wrote' \subseteq Content(upload')
      BY <2>5, <2>6
    <2> QED
      BY <2>5, <2>6, <2>8, <2>9, <2>10 DEF UploadIInv
  <1>11. CASE u.parts # <<>>
    <2>1. ~NotForm(t, 1, 1 .. n)
      <3>1. ~(line = 0 \/ h.s = "bad" \/ h.type # 2)
        BY <1>6, <1>11
      <3> QED
        BY <3>1 DEF NotForm, line, h
    <2>2. Form(t, 1, 1 .. n)
      BY <1>4, <1>9, <2>1 DEF HttpAnalysis
    <2>3. /\ fileType' = 2 /\ boundary' = u.boundary /\ tail' = tail
          /\ step' = IF q + 1 <= n THEN 0 ELSE 3
          /\ Rewrite(IF q + 1 <= n THEN MimeFile(t, q + 1, u.boundary) ELSE AsItWas, 2, 1 .. n)
      <3>1. h.boundary = u.boundary /\ h.at = q + 1
        BY <1>6, <1>11
      <3>2. /\ fileType' = 2 /\ boundary' = h.boundary /\ tail' = tail
            /\ step' = IF h.at <= Len(t) THEN 0 ELSE 3
            /\ Rewrite(IF h.at <= Len(t) THEN MimeFile(t, h.at, h.boundary) ELSE AsItWas, 2, 1 .. n)
        BY <2>2, Zenon DEF Form, line, h
      <3> QED
        BY <1>8, <3>1, <3>2
    <2>4. fileType' \in 0 .. 2 /\ boundary' \in {<<>>} \cup {w.boundary : w \in Uploads}
          /\ Len(boundary') <= Len(u.boundary)
      <3>1. Len(u.boundary) \in Nat
        BY <1>1, ClosingIs
      <3> QED
        BY <1>1, <2>3, <3>1
    <2>5. CASE n = N
      <3> DEFINE f == [state |-> mime, number |-> fileNumber, files |-> OpenFiles(t, q + 1)]
                 g == MimeFile(t, q + 1, u.boundary)
      <3>1. q + 1 <= n /\ q + 1 \in 1 .. Len(t) + 1 /\ (Len(t) + 1) - (q + 1) = N - q
        <4> HIDE DEF T, N, q, t
        <4> QED
          BY <1>2, <1>8, <2>5
      <3>2. f \in Finders /\ f.state = 0 /\ f.number = 0
        <4>1. OpenFiles(t, q + 1) \in Pieces
          <5>1. Len(t) \in Int /\ q + 1 \in Int
            BY <1>2, <1>8, <2>5
          <5> QED
            BY <1>1, <5>1, FilesOpen
        <4>2. mime \in 0 .. MinusSign /\ fileNumber \in Nat
          BY <1>3 DEF MinusSign
        <4> QED
          BY <1>3, <4>1, <4>2, FindersAre
      <3>3. g = After(t, u.boundary, q + 1, Len(t) + 1 - (q + 1), f)
        BY <1>8, <3>1, <3>2, MimeFileIs
      <3>4. g = After(T, u.boundary, q + 1, N - q, f)
        BY <1>8, <2>5, <3>1, <3>3
      <3>5. Found(u, Len(u.parts), q + 1, g)
        <4> HIDE DEF f, g, u
        <4> QED
          BY <1>1, <1>2, <1>11, <3>2, <3>4, WholeRead DEF u
      <3>6. Rewrite(g, 2, 1 .. N) /\ step' = 0
        BY <2>3, <2>5, <3>1
      <3>7. Found(u, Len(u.parts), 1, g)
        <4>1. q + 1 >= 1
          BY <1>2
        <4> HIDE DEF g
        <4>2. ASSUME NEW i \in 1 .. Len(u.parts), g.files[i].buf \in Int, g.files[i].buf >= q + 1
                  PROVE g.files[i].buf >= 1
          BY <1>2, <4>2
        <4>3. \A i \in 1 .. Len(u.parts) : g.files[i].buf \in Int
          <5>1. \A i \in 1 .. Len(u.parts) : i \in 1 .. MaxFiles
            BY <1>1, PartsFit
          <5> QED
            BY <3>5, <5>1 DEF Found, Finders
        <4> QED
          BY <3>5, <4>2, <4>3 DEF Found
      <3> HIDE DEF f, g
      <3>8. mime' = 0 /\ fileNumber' = 0 /\ files' \in Pieces /\ wrote' \subseteq Content(u)
                /\ stray' = FALSE
        <4>1. 1 \in Nat \ {0}
          OBVIOUS
        <4> HIDE DEF u
        <4>2. wrote \subseteq Content(u)
          BY DEF u
        <4> QED
          BY <1>1, <3>6, <3>7, <4>1, <4>2, FoundRewritten
      <3>9. UploadTypeOK' /\ uploadFaults' = {} /\ upload' = upload /\ sent' = n
        <4> HIDE DEF u, t, T, N
        <4> QED
          BY <1>1, <2>4, <3>8, SegmentTypes DEF u
      <3>10. Idle'
        BY <3>6, <3>8 DEF Idle
      <3>11. ~(sent' \in 1 .. (Len(Text(upload')) - 1))
        BY <1>2, <2>5, <3>9
      <3> QED
        BY <3>8, <3>9, <3>10, <3>11 DEF UploadIInv
    <2>6. CASE n = q
      <3>1. ~(q + 1 <= n) /\ q \in 1 .. N - 1
        BY <1>2, <2>6
      <3>2. Rewrite(AsItWas, 2, 1 .. n) /\ step' = 3
        BY <2>3, <3>1
      <3>3. mime' = 0 /\ fileNumber' = 0 /\ files' \in Pieces /\ wrote' = wrote /\ stray' = FALSE
        BY <1>1, <1>3, <3>2, NothingRewritten
      <3>4. UploadTypeOK' /\ uploadFaults' = {} /\ upload' = upload /\ sent' = n
        <4> HIDE DEF u, t, T, N
        <4> QED
          BY <1>1, <2>4, <3>3, SegmentTypes DEF u
      <3>5. Reading'
        BY <1>11, <2>3, <2>6, <3>2, <3>3, <3>4 DEF Reading
      <3>6. wrote' \subseteq Content(upload')
        BY <3>3, <3>4
      <3>7. sent' \in 1 .. (Len(Text(upload')) - 1)
        BY <2>6, <3>1, <3>4
      <3> QED
        BY <3>3, <3>4, <3>5, <3>6, <3>7 DEF UploadIInv
    <2> QED
      BY <1>5, <2>5, <2>6
  <1> QED
    BY <1>10, <1>11

\* A segment of the body of a form.
LEMMA ReadingSegment ==
    ASSUME uploadFaults = {}, UploadTypeOK, Reading, sent \in 1 .. (Len(Text(upload)) - 1),
           wrote \subseteq Content(upload), stray = FALSE,
           NEW n \in 1 .. Len(Text(upload)), Segment(n)
    PROVE  UploadIInv'
  <1> DEFINE u == upload
             x == sent
             T == Text(u)
             N == Len(T)
             q == Len(u.head)
             t == Cut(u, n)
             bd == u.boundary
             tl == BodyTail(SubSeq(t, x + 1, Len(t)))
             f == [state |-> mime, number |-> fileNumber, files |-> OpenFiles(t, x + 1)]
             g == MimeFile(t, x + 1, bd)
             own == (x + 1) .. n
             a == Before(u, 1)
             z == Until(u, 1)
  <1>1. /\ u \in Uploads /\ files \in Pieces
        /\ boundary \in {<<>>} \cup {w.boundary : w \in Uploads} /\ Len(boundary) <= Len(u.boundary)
    BY DEF UploadTypeOK
  <1>2. /\ u.parts # <<>> /\ step = 3 /\ fileType = 2 /\ boundary = bd
        /\ (x = q /\ mime = 0 /\ fileNumber = 0) \/ InFile
    BY DEF Reading
  <1>3. N \in Nat /\ q \in Nat \ {0} /\ q < N /\ u.rest = <<>>
    BY <1>1, <1>2, TextHas
  <1>4. 1 \in 1 .. Len(u.parts)
    BY <1>1, <1>2, UploadIs
  <1>5. /\ a \in Nat /\ z \in Nat /\ a <= z /\ z < N /\ q < a /\ FileAt(u, 1) = (a + 1) .. z
    <2> DEFINE b == Len(u.boundary)
    <2>1. /\ a \in Nat /\ z \in Nat /\ a <= z /\ b \in Nat /\ q \in Nat /\ q + b + 4 <= a
          /\ z + 2 + b + 4 <= N /\ N \in Nat /\ FileAt(u, 1) = (a + 1) .. z
      BY <1>1, <1>4, FileIs
    <2> HIDE DEF a, z, b, q, N
    <2> QED
      BY <2>1
  <1>6. /\ n > x /\ MayCut(u, n) /\ HttpAnalysis(t, x + 1, own)
    BY Zenon DEF Segment, Cut
  <1>7. x \in 1 .. N - 1 /\ n \in 1 .. N
    OBVIOUS
  <1>8. Rest(t, x + 1, own)
    <2>1. ~(3 = 0)
      OBVIOUS
    <2>2. ~NotForm(t, x + 1, own) /\ ~Form(t, x + 1, own)
      BY <1>2, <2>1 DEF NotForm, Form
    <2> QED
      BY <1>6, <2>2 DEF HttpAnalysis
  <1>9. /\ Rewrite(g, 2, own) /\ step' = (IF tl.found THEN 0 ELSE 3) /\ tail' = tl.tail
        /\ fileType' = 2 /\ boundary' = bd
    BY <1>2, <1>8 DEF Rest
  <1>10. x = q \/ x \in FileAt(u, 1)
    BY <1>2 DEF InFile
  <1>11. n = N \/ {n, n + 1} \subseteq FileAt(u, 1)
    <2>1. n = N \/ n = q \/ {n, n + 1} \subseteq FileAt(u, 1)
      BY <1>1, <1>6, MayCutIs
    <2>2. n # q
      <3> HIDE DEF a, z, q, N, u, x
      <3> QED
        BY <1>3, <1>5, <1>6, <1>7, <1>10
    <2> QED
      BY <2>1, <2>2
  <1>12. /\ n \in 0 .. N /\ n \in Nat /\ x \in 0 .. n /\ x \in Nat /\ x + 1 \in Nat \ {0}
         /\ x + 1 \in 1 .. n + 1 /\ (n + 1) - (x + 1) = n - x /\ n - x \in Nat /\ x + 1 \in own
    <2> HIDE DEF x, N
    <2> QED
      BY <1>3, <1>6, <1>7
  <1>13. Len(t) = n /\ t \in Seq(Chars) /\ (n = N => t = T)
    BY <1>1, <1>12, CutIs
  <1>14. f \in Finders /\ (fileNumber = 1 => f.files[1].buf = x + 1)
    <2>1. 1 \in 1 .. MaxFiles
      BY <1>1, <1>4, PartsFit
    <2>2. Len(t) \in Int /\ x + 1 \in Int
      BY <1>12, <1>13
    <2>3. OpenFiles(t, x + 1) \in Pieces /\ (fileNumber = 1 => OpenFiles(t, x + 1)[1].buf = x + 1)
      BY <1>1, <2>1, <2>2, FilesOpen
    <2>4. mime \in 0 .. MinusSign /\ fileNumber \in Nat
      BY <1>2 DEF InFile, MinusSign, FileContent
    <2> HIDE DEF t, x
    <2> QED
      BY <2>3, <2>4, FindersAre
  <1>15. g = After(t, bd, x + 1, n - x, f)
    <2>1. x + 1 \in 1 .. Len(t) + 1
      BY <1>12, <1>13
    <2>2. f = [state |-> mime, number |-> fileNumber, files |-> OpenFiles(t, x + 1)]
      OBVIOUS
    <2> HIDE DEF t, bd, f
    <2>3. g = After(t, bd, x + 1, Len(t) + 1 - (x + 1), f)
      BY <1>13, <1>14, <2>1, <2>2, MimeFileIs
    <2> QED
      BY <1>12, <1>13, <2>3
  <1>16. f.state = mime /\ f.number = fileNumber
    OBVIOUS
  <1> HIDE DEF f, g, tl
  <1>17. InFile => InContent(u, 1, f, x) /\ f.files[1].buf = x + 1
    <2> SUFFICES ASSUME InFile PROVE InContent(u, 1, f, x) /\ f.files[1].buf = x + 1
      OBVIOUS
    <2>1. /\ x \in (a + 1) .. z /\ fileNumber = 1 /\ mime \in {FileContent, MinusSign}
          /\ mime = MinusSign => T[x] = "-"
      BY <1>5 DEF InFile
    <2>2. x \in a .. z /\ x > a
      <3> HIDE DEF a, z, x
      <3> QED
        BY <1>5, <2>1
    <2> QED
      BY <1>14, <1>16, <2>1, <2>2 DEF InContent
  <1>18. fileType' \in 0 .. 2 /\ boundary' \in {<<>>} \cup {w.boundary : w \in Uploads}
         /\ Len(boundary') <= Len(u.boundary)
    <2>1. Len(u.boundary) \in Nat
      BY <1>1, ClosingIs
    <2> QED
      BY <1>1, <1>9, <2>1
  <1>19. CASE n = N
    <2>1. tl = [found |-> TRUE, tail |-> <<>>]
      <3>1. BodyTail(SubSeq(Text(u), x + 1, Len(Text(u)))) = [found |-> TRUE, tail |-> <<>>]
        <4> HIDE DEF u, x
        <4> QED
          BY <1>1, <1>2, <1>3, <1>10, TailAtEnd DEF bd, q
      <3> QED
        BY <1>13, <1>19, <3>1 DEF tl
    <2>2. Found(u, Len(u.parts), x + 1, g)
      <3>1. g = After(T, bd, x + 1, N - x, f)
        BY <1>13, <1>15, <1>19
      <3>2. CASE x = q /\ mime = 0 /\ fileNumber = 0
        <4>1. Found(u, Len(u.parts), q + 1, After(T, bd, q + 1, N - q, f))
          BY <1>1, <1>3, <1>14, <1>16, <3>2, WholeRead
        <4> QED
          BY <3>1, <3>2, <4>1
      <3>3. CASE InFile
        BY <1>1, <1>2, <1>3, <1>17, <3>1, <3>3, ResumedRead
      <3> QED
        BY <1>2, <3>2, <3>3
    <2>3. mime' = 0 /\ fileNumber' = 0 /\ files' \in Pieces /\ wrote' \subseteq Content(u)
              /\ stray' = FALSE
      <3>1. wrote \subseteq Content(u) /\ Rewrite(g, 2, (x + 1) .. Len(Text(u)))
        BY <1>9, <1>19
      <3> HIDE DEF u, x
      <3> QED
        BY <1>1, <1>12, <2>2, <3>1, FoundRewritten
    <2>4. UploadTypeOK' /\ uploadFaults' = {} /\ upload' = upload /\ sent' = n
      <3> HIDE DEF u, t, T, N, x
      <3> QED
        BY <1>1, <1>18, <2>3, SegmentTypes DEF u
    <2>5. Idle'
      BY <1>9, <2>1, <2>3 DEF Idle
    <2>6. ~(sent' \in 1 .. (Len(Text(upload')) - 1))
      <3>1. ~(N \in 1 .. N - 1)
        BY <1>3
      <3> QED
        BY <1>19, <2>4, <3>1
    <2> QED
      BY <2>3, <2>4, <2>5, <2>6 DEF UploadIInv
  <1>20. CASE {n, n + 1} \subseteq FileAt(u, 1)
    <2>1. tl.found = FALSE /\ EndsWith(tl.tail, u, n) /\ Len(tl.tail) <= Len(Closing(u))
      <3>1. x = Len(u.head)
                \/ (x \in FileAt(u, 1) /\ EndsWith(tail, u, x) /\ Len(tail) <= Len(Closing(u)))
        BY <1>2 DEF InFile
      <3>2. boundary = u.boundary /\ tl = BodyTail(SubSeq(Cut(u, n), x + 1, Len(Cut(u, n))))
        BY <1>2 DEF tl
      <3> HIDE DEF u, x
      <3> QED
        BY <1>1, <1>2, <1>12, <1>20, <3>1, <3>2, TailInFile
    <2>2. n \in (a + 1) .. z /\ n + 1 \in (a + 1) .. z
      BY <1>5, <1>20
    <2>3. InContent(u, 1, g, n) /\ g.files[1].buf \in FileAt(u, 1) \cap own
      <3>1. CASE x = q /\ mime = 0 /\ fileNumber = 0
        <4>1. g = After(t, bd, q + 1, n - q, f)
          BY <1>15, <3>1
        <4> HIDE DEF g
        <4>2. /\ InContent(u, 1, After(t, bd, q + 1, n - q, f), n)
              /\ After(t, bd, q + 1, n - q, f).files[1].buf = Before(u, 1) + 1
          BY <1>1, <1>2, <1>14, <1>16, <1>20, <3>1, FileBegun
        <4>3. a + 1 \in (a + 1) .. z /\ a + 1 \in (q + 1) .. n
          <5> HIDE DEF a, z, q
          <5> QED
            BY <1>3, <1>5, <2>2
        <4> QED
          BY <1>5, <3>1, <4>1, <4>2, <4>3
      <3>2. CASE InFile
        <4> DEFINE m == n - x
        <4>1. x \in (a + 1) .. z /\ x + 1 \in (a + 1) .. z
          BY <1>5, <3>2 DEF InFile
        <4>2. m \in Nat /\ x + m = n /\ x + m <= z /\ x + m <= n
          <5> HIDE DEF a, z, x
          <5> QED
            BY <1>5, <1>12, <2>2
        <4> HIDE DEF m
        <4>3. InContent(u, 1, f, x) /\ f.files[1].buf = x + 1
          BY <1>17, <3>2
        <4>4. /\ InContent(u, 1, After(t, bd, x + 1, m, f), x + m)
              /\ SameButEnd(1, f, After(t, bd, x + 1, m, f))
          <5>1. n \in 0 .. Len(Text(u)) /\ x + m <= Until(u, 1)
            BY <1>12, <4>2
          <5> HIDE DEF u, x
          <5> QED
            BY <1>1, <1>4, <4>2, <4>3, <5>1, FileGoesOn DEF t, bd
        <4>5. g = After(t, bd, x + 1, m, f)
          BY <1>15 DEF m
        <4>6. g.files[1].buf = x + 1
          BY <4>3, <4>4, <4>5 DEF SameButEnd
        <4> QED
          BY <1>5, <1>12, <4>1, <4>2, <4>4, <4>5, <4>6
      <3> QED
        BY <1>2, <3>1, <3>2
    <2>4. mime' = g.state /\ fileNumber' = 1 /\ files' \in Pieces /\ wrote' \subseteq Content(u)
              /\ stray' = FALSE
      <3>1. wrote \subseteq Content(u) /\ Rewrite(g, 2, own)
        BY <1>9
      <3> HIDE DEF u, own
      <3> QED
        BY <1>1, <1>2, <2>3, <3>1, ContentRewritten
    <2>5. UploadTypeOK' /\ uploadFaults' = {} /\ upload' = upload /\ sent' = n
      <3> HIDE DEF u, t, T, N, x
      <3> QED
        BY <1>1, <1>18, <2>4, SegmentTypes DEF u
    <2>6. InFile'
      <3>1. g.state \in {FileContent, MinusSign} /\ (g.state = MinusSign => Text(u)[n] = "-")
        BY <2>3 DEF InContent
      <3> QED
        BY <1>9, <1>20, <2>1, <2>4, <2>5, <3>1 DEF InFile
    <2>7. Reading'
      BY <1>2, <1>9, <2>1, <2>5, <2>6 DEF Reading
    <2>8. sent' \in 1 .. (Len(Text(upload')) - 1)
      <3>1. n \in 1 .. N - 1
        <4> HIDE DEF a, z, q, N
        <4> QED
          BY <1>3, <1>5, <2>2
      <3> QED
        BY <2>5, <3>1
    <2> QED
      BY <2>4, <2>5, <2>7, <2>8 DEF UploadIInv
  <1> QED
    BY <1>11, <1>19, <1>20

\* The next upload.
LEMMA NextUploadKeeps ==
    ASSUME uploadFaults = {}, UploadTypeOK, stray = FALSE, Idle, NEW u \in Uploads, NextUpload(u)
    PROVE  UploadIInv'
  <1>1. /\ upload' = u /\ sent' = 0 /\ segments' = 0 /\ uploads' = uploads + 1 /\ wrote' = {}
        /\ uploadFaults' = uploadFaults /\ stray' = stray
        /\ step' = step /\ mime' = mime /\ fileNumber' = fileNumber /\ files' = files
        /\ fileType' = fileType /\ boundary' = boundary
    BY DEF NextUpload, httpre
  <1>2. uploads < MaxUploads
    BY DEF NextUpload, UploadsOf
  <1>3. Len(u.boundary) >= Len(boundary)
    BY DEF NextUpload, MaySend
  <1>4. Len(boundary) <= Len(u.boundary)
    <2>1. Len(u.boundary) \in Nat
      BY ClosingIs
    <2>2. Len(boundary) \in Nat
      <3>1. CASE boundary = <<>>
        BY <3>1
      <3>2. CASE boundary \in {w.boundary : w \in Uploads}
        <4>1. PICK w \in Uploads : boundary = w.boundary
          BY <3>2
        <4>2. Len(w.boundary) \in Nat
          BY ClosingIs
        <4> QED
          BY <4>1, <4>2
      <3> QED
        BY <3>1, <3>2 DEF UploadTypeOK
    <2> QED
      BY <1>3, <2>1, <2>2
  <1>5. uploads + 1 \in 1 .. MaxUploads /\ 0 \in 0 .. MaxSegments
    BY <1>2, UploadBounds DEF UploadTypeOK
  <1>6. 0 \in 0 .. Len(Text(u))
    BY TextHas
  <1>7. UploadTypeOK'
    BY <1>1, <1>4, <1>5, <1>6 DEF UploadTypeOK
  <1>8. Idle'
    BY <1>1 DEF Idle
  <1>9. ~(0 \in 1 .. (Len(Text(u)) - 1))
    OBVIOUS
  <1>10. {} \subseteq Content(u)
    OBVIOUS
  <1> QED
    BY <1>1, <1>7, <1>8, <1>9, <1>10, Zenon DEF UploadIInv

\* One turn of the parser, or of those who send.
LEMMA UploadStep ==
    ASSUME UploadIInv, [HttpNext]_httpVars
    PROVE  UploadIInv'
  <1>1. CASE UNCHANGED httpVars
    BY <1>1 DEF httpVars, httpre, client, UploadIInv, UploadTypeOK, Idle, Reading, InFile
  <1>2. CASE HttpNext
    <2>1. CASE uploadFaults # {}
      <3>1. uploadFaults' = uploadFaults
        BY <1>2 DEF HttpNext, Segment, OtherSegment, NextUpload
      <3> QED
        BY <2>1, <3>1 DEF UploadIInv
    <2>2. CASE uploadFaults = {}
      <3>1. /\ UploadTypeOK /\ wrote \subseteq Content(upload) /\ stray = FALSE
            /\ IF sent \in 1 .. (Len(Text(upload)) - 1) THEN Reading ELSE Idle
        BY <2>2 DEF UploadIInv
      <3>2. upload \in Uploads /\ sent \in 0 .. Len(Text(upload)) /\ Len(Text(upload)) \in Nat
        <4>1. upload \in Uploads /\ sent \in 0 .. Len(Text(upload))
          BY <3>1 DEF UploadTypeOK
        <4> QED
          BY <4>1, TextHas
      <3>3. CASE \E n \in 1 .. Len(Text(upload)) : Segment(n)
        <4>1. PICK n \in 1 .. Len(Text(upload)) : Segment(n)
          BY <3>3
        <4>2. CASE sent \in 1 .. (Len(Text(upload)) - 1)
          BY <2>2, <3>1, <4>1, <4>2, ReadingSegment
        <4>3. CASE ~(sent \in 1 .. (Len(Text(upload)) - 1))
          <5>1. n > sent
            BY <4>1 DEF Segment
          <5>2. sent = 0
            BY <3>2, <4>3, <5>1
          <5> QED
            BY <2>2, <3>1, <4>1, <4>3, <5>2, IdleSegment
        <4> QED
          BY <4>2, <4>3
      <3>4. CASE \E text \in OtherSegments : OtherSegment(text)
        BY <2>2, <3>4 DEF OtherSegment
      <3>5. CASE \E u \in Uploads : NextUpload(u)
        <4>1. PICK u \in Uploads : NextUpload(u)
          BY <3>5
        <4>2. sent = Len(Text(upload))
          BY <4>1 DEF NextUpload
        <4>3. Idle
          BY <3>1, <3>2, <4>2
        <4> QED
          BY <2>2, <3>1, <4>1, <4>3, NextUploadKeeps
      <3> QED
        BY <1>2, <3>3, <3>4, <3>5 DEF HttpNext
    <2> QED
      BY <2>1, <2>2
  <1> QED
    BY <1>1, <1>2

LEMMA UploadBegins ==
    ASSUME HttpInit
    PROVE  UploadIInv
  <1>1. /\ step = 0 /\ fileType = 0 /\ boundary = <<>> /\ mime = 0 /\ fileNumber = 0
        /\ files = [i \in 1 .. MaxFiles |-> [buf |-> Null, end |-> Null]]
        /\ upload \in Uploads /\ sent = 0 /\ segments = 0 /\ uploads = 1
        /\ wrote = {} /\ stray = FALSE
    BY DEF HttpInit
  <1>2. files \in Pieces
    <2>1. [buf |-> Null, end |-> Null] \in [buf : Int, end : Int]
      BY DEF Null
    <2> QED
      BY <1>1, <2>1 DEF Pieces
  <1>3. Len(boundary) <= Len(upload.boundary)
    <2>1. Len(upload.boundary) \in Nat
      BY <1>1, ClosingIs
    <2>2. Len(boundary) = 0
      BY <1>1
    <2> QED
      BY <2>1, <2>2
  <1>4. 0 \in 0 .. Len(Text(upload)) /\ ~(0 \in 1 .. (Len(Text(upload)) - 1))
    BY <1>1, TextHas
  <1>5. 0 \in 0 .. MaxSegments /\ 1 \in 1 .. MaxUploads
    BY UploadBounds
  <1>6. UploadTypeOK
    BY <1>1, <1>2, <1>3, <1>4, <1>5 DEF UploadTypeOK
  <1> QED
    BY <1>1, <1>4, <1>6 DEF UploadIInv, Idle

\* The invariant of the parser of uploads, where no faults occur (Http.c 75-230).
THEOREM UploadInvariance == HttpSpec => []UploadIInv
  <1>1. HttpInit => UploadIInv
    BY UploadBegins
  <1>2. UploadIInv /\ [HttpNext]_httpVars => UploadIInv'
    BY UploadStep
  <1> QED
    BY <1>1, <1>2, PTL DEF HttpSpec

\* What a segment of an upload makes the parser overwrite is in a file, wherever
\* the segments of the form ended (Http.c 172-227).
THEOREM OnlyFilesAlwaysWritten == HttpSpec => []OnlyFilesAreWritten
  <1>1. UploadIInv => OnlyFilesAreWritten
    BY DEF UploadIInv, OnlyFilesAreWritten
  <1> QED
    BY <1>1, UploadInvariance, PTL

\* When a form has been sent, the parser waits for a request line and holds no file
\* (Http.c 75-160, 218-223).
THEOREM AlwaysReadyForNext == HttpSpec => []ReadyForNext
  <1>1. UploadIInv => ReadyForNext
    <2> SUFFICES ASSUME UploadIInv, uploadFaults = {}, sent = Len(Text(upload))
                 PROVE  step = 0 /\ mime = 0 /\ fileNumber = 0
      BY DEF ReadyForNext
    <2>1. upload \in Uploads /\ IF sent \in 1 .. (Len(Text(upload)) - 1) THEN Reading ELSE Idle
      BY DEF UploadIInv, UploadTypeOK
    <2>2. Len(Text(upload)) \in Nat
      BY <2>1, TextHas
    <2>3. ~(sent \in 1 .. (Len(Text(upload)) - 1))
      BY <2>2
    <2> QED
      BY <2>1, <2>3 DEF Idle
  <1> QED
    BY <1>1, UploadInvariance, PTL

------------------------------------------------------------------------------
(* HttpUpload: the types, under all faults.                                 *)

\* A loop over N characters, as a function of the turns taken.
Loops(f, x, g, N) == f = [n \in 0 .. N |-> IF n = 0 THEN x ELSE g[<<n - 1, f[n - 1]>>]]

\* A loop that stays among the values it takes can be run (Http.c 296-545, 699-870).
LEMMA TurnsExist ==
    ASSUME NEW T, NEW x \in T, NEW N \in Nat, NEW g \in [Nat \X T -> T]
    PROVE  \E f \in [0 .. N -> T] : Loops(f, x, g, N)
  <1>1. PICK f \in [0 .. N -> T] : Grows(g, x, f, N)
    BY GrowthExists
  <1>2. ASSUME NEW n \in 0 .. N PROVE f[n] = IF n = 0 THEN x ELSE g[<<n - 1, f[n - 1]>>]
    <2>1. CASE n = 0
      BY <1>1, <2>1 DEF Grows
    <2>2. CASE n # 0
      <3>1. n - 1 \in 0 .. N - 1 /\ (n - 1) + 1 = n
        BY <2>2
      <3> QED
        BY <1>1, <2>2, <3>1 DEF Grows
    <2> QED
      BY <2>1, <2>2
  <1> QED
    BY <1>2 DEF Loops

\* What each turn of a loop keeps, its last turn leaves.
LEMMA TurnsStay ==
    ASSUME NEW T, NEW N \in Nat, NEW r, r[0] \in T,
           \A n \in 1 .. N : r[n - 1] \in T => r[n] \in T
    PROVE  r[N] \in T
  <1> DEFINE S == {n \in Nat : n <= N => r[n] \in T}
  <1>1. 0 \in S
    OBVIOUS
  <1>2. ASSUME NEW n \in S PROVE n + 1 \in S
    <2>1. SUFFICES ASSUME n + 1 <= N PROVE r[n + 1] \in T
      OBVIOUS
    <2>2. n + 1 \in 1 .. N /\ (n + 1) - 1 = n /\ r[n] \in T
      BY <2>1
    <2> QED
      BY <2>2
  <1>3. S = Nat
    <2> HIDE DEF S
    <2>1. S \subseteq Nat
      BY DEF S
    <2> QED
      BY <1>1, <1>2, <2>1, SetInduction
  <1> QED
    BY <1>3

\* The states of HttpParseRequestLine (Http.c 262-290).
LineStates ==
    {"start", "method", "before_uri", "uri", "skip", "http_H", "http_HT", "http_HTT",
     "http_HTTP", "first_major", "major", "first_minor", "minor", "after_digit", "almost",
     "done", "bad"}

\* A turn of the loop over the request line leaves a state of that loop.
LEMMA LineStepIs ==
    ASSUME NEW s \in LineStates, NEW ch
    PROVE  LineStep(s, ch) \in LineStates
  BY Zenon DEF LineStep, LineStates, Upper, Digits

\* The length of the request line is a number, however the text ends.
LEMMA RequestLineIs ==
    ASSUME NEW text, Len(text) \in Nat
    PROVE  RequestLine(text) \in Nat
  <1> DEFINE Lines == [s : LineStates, n : Nat]
             ReadsOn(l, ch) == IF l.s = "done" THEN l ELSE [s |-> LineStep(l.s, ch), n |-> l.n + 1]
             x == [s |-> "start", n |-> 0]
             N == Len(text)
             Is(r) == r = [n \in 0 .. N |-> IF n = 0 THEN x ELSE ReadsOn(r[n - 1], text[n])]
             run == CHOOSE r : Is(r)
             g == [p \in Nat \X Lines |-> ReadsOn(p[2], text[p[1] + 1])]
  <1>1. RequestLine(text) = IF run[N].s = "done" THEN run[N].n ELSE 0
    BY DEF RequestLine, Loop
  <1>2. x \in Lines
    BY DEF LineStates
  <1>3. ASSUME NEW l \in Lines, NEW ch PROVE ReadsOn(l, ch) \in Lines
    <2>1. LineStep(l.s, ch) \in LineStates
      BY LineStepIs
    <2> QED
      BY <2>1
  <1> HIDE DEF Lines, ReadsOn, x
  <1>4. g \in [Nat \X Lines -> Lines]
    BY <1>3
  <1>5. \A n \in Nat, l \in Lines : g[<<n, l>>] = ReadsOn(l, text[n + 1])
    OBVIOUS
  <1> HIDE DEF g
  <1>6. PICK f \in [0 .. N -> Lines] : Loops(f, x, g, N)
    BY <1>2, <1>4, TurnsExist
  <1>7. Is(f)
    <2>1. ASSUME NEW n \in 0 .. N, n # 0
          PROVE  g[<<n - 1, f[n - 1]>>] = ReadsOn(f[n - 1], text[n])
      <3>1. n - 1 \in Nat /\ n - 1 \in 0 .. N /\ (n - 1) + 1 = n
        BY <2>1
      <3> QED
        BY <1>5, <3>1
    <2> QED
      BY <1>6, <2>1 DEF Loops
  <1>8. Is(run)
    <2> HIDE DEF Is
    <2> QED
      BY <1>7
  <1> HIDE DEF run
  <1>9. run[N] \in Lines
    <2>1. run[0] \in Lines
      BY <1>2, <1>8
    <2>2. ASSUME NEW n \in 1 .. N, run[n - 1] \in Lines PROVE run[n] \in Lines
      <3>1. n \in 0 .. N /\ n # 0
        OBVIOUS
      <3>2. run[n] = ReadsOn(run[n - 1], text[n])
        BY <1>8, <3>1
      <3> QED
        BY <1>3, <2>2, <3>2
    <2> HIDE DEF Is
    <2> QED
      BY <2>1, <2>2, TurnsStay
  <1> QED
    BY <1>1, <1>9 DEF Lines

\* The states of httpParseHeaderLine, and what it has read: a token of the segment,
\* or the one byte beyond it.
HeaderStates ==
    {"start", "name", "before", "value", "after", "ignore", "almost", "header_almost", "done", "bad"}
Glyphs == Chars \cup {"x"}
Headers == [s : HeaderStates, name : Seq(Glyphs), value : Seq(Glyphs), type : 0 .. 2,
            boundary : Seq(Glyphs), at : Nat \ {0}]

\* A piece of a text of glyphs is one.
LEMMA SubSeqIs ==
    ASSUME NEW T, NEW s \in Seq(T), NEW m \in Nat \ {0}
    PROVE  SubSeq(s, m, Len(s)) \in Seq(T)
  <1>1. Len(s) \in Int
    BY LenProperties
  <1>2. \A i \in m .. Len(s) : s[i] \in T
    BY <1>1, ElementOfSeq
  <1> QED
    BY <1>1, <1>2, SubSeqProperties

\* The boundary that is taken from a header is a text of glyphs.
LEMMA NewBoundaryIs ==
    ASSUME NEW value \in Seq(Glyphs), NEW old \in Seq(Glyphs)
    PROVE  Overwrite(old, NewBoundary(value)) \in Seq(Glyphs)
  <1> DEFINE signs == {i \in 1 .. Len(value) : value[i] = "="}
             first == CHOOSE i \in signs : \A j \in signs : i <= j
             b == NewBoundary(value)
  <1>1. Len(value) \in Nat
    BY LenProperties
  <1>2. b = IF signs = {} THEN <<>> ELSE SubSeq(value, first + 1, Len(value))
    BY DEF NewBoundary
  <1>3. b \in Seq(Glyphs)
    <2>1. CASE signs = {}
      BY <1>2, <2>1, EmptySeq
    <2>2. CASE signs # {}
      <3>1. signs \in SUBSET Nat
        BY <1>1
      <3> HIDE DEF signs
      <3>0. \E i \in signs : \A j \in signs : i <= j
        BY <2>2, <3>1, LeastElement
      <3>2. first \in signs
        BY <3>0
      <3> HIDE DEF first
      <3>3. first + 1 \in Nat \ {0}
        BY <3>1, <3>2
      <3> QED
        BY <1>2, <2>2, <3>3, SubSeqIs
    <2> QED
      BY <2>1, <2>2
  <1> HIDE DEF b
  <1>4. Len(b) + 1 \in Nat \ {0}
    BY <1>3, LenProperties
  <1>5. SubSeq(old, Len(b) + 1, Len(old)) \in Seq(Glyphs)
    BY <1>4, SubSeqIs
  <1>6. b \o SubSeq(old, Len(b) + 1, Len(old)) \in Seq(Glyphs)
    BY <1>3, <1>5, ConcatProperties
  <1> QED
    BY <1>6 DEF Overwrite, b

\* A state of the header's loop with other fields of the same types is one too.
LEMMA HeaderWith ==
    ASSUME NEW h \in Headers
    PROVE  /\ \A s \in HeaderStates : [h EXCEPT !.s = s] \in Headers
           /\ \A v \in Seq(Glyphs) : [h EXCEPT !.name = v] \in Headers
           /\ \A v \in Seq(Glyphs) : [h EXCEPT !.value = v] \in Headers
           /\ \A n \in 0 .. 2 : [h EXCEPT !.type = n] \in Headers
           /\ \A v \in Seq(Glyphs) : [h EXCEPT !.boundary = v] \in Headers
           /\ \A n \in Nat \ {0} : [h EXCEPT !.at = n] \in Headers
  <1> DEFINE G == Seq(Glyphs)
             P == Nat \ {0}
             K == 0 .. 2
  <1> HIDE DEF G, P, K
  <1>1. Headers = [s : HeaderStates, name : G, value : G, type : K, boundary : G, at : P]
    BY DEF Headers, G, P, K
  <1>2. /\ \A s \in HeaderStates : [h EXCEPT !.s = s] \in Headers
        /\ \A v \in G : [h EXCEPT !.name = v] \in Headers
        /\ \A v \in G : [h EXCEPT !.value = v] \in Headers
    BY <1>1
  <1>3. /\ \A n \in K : [h EXCEPT !.type = n] \in Headers
        /\ \A v \in G : [h EXCEPT !.boundary = v] \in Headers
        /\ \A n \in P : [h EXCEPT !.at = n] \in Headers
    BY <1>1
  <1> QED
    BY <1>2, <1>3 DEF G, P, K

\* On with the next character.
LEMMA GoesOn ==
    ASSUME NEW h \in Headers, NEW s \in HeaderStates
    PROVE  /\ [h EXCEPT !.s = s, !.at = @ + 1] \in Headers
           /\ [h EXCEPT !.s = s, !.at = @ + 1].name = h.name
           /\ [h EXCEPT !.s = s, !.at = @ + 1].value = h.value
  <1> DEFINE k == [h EXCEPT !.s = s]
             n == h.at + 1
  <1>1. k \in Headers
    BY HeaderWith
  <1>2. n \in Nat \ {0}
    BY DEF Headers
  <1>3. k.name = h.name /\ k.value = h.value
    BY DEF Headers
  <1> HIDE DEF k, n
  <1>4. [k EXCEPT !.at = n] \in Headers
    BY <1>1, <1>2, HeaderWith
  <1>5. [k EXCEPT !.at = n].name = k.name /\ [k EXCEPT !.at = n].value = k.value
    BY <1>1 DEF Headers
  <1> QED
    BY <1>3, <1>4, <1>5, Zenon DEF k, n

\* A property of the header leaves the parser's state one of its states.
LEMMA PropertyIs ==
    ASSUME NEW h \in Headers
    PROVE  Property(h) \in Headers
  <1> DEFINE b == Overwrite(h.boundary, NewBoundary(h.value))
  <1>1. h.value \in Seq(Glyphs) /\ h.boundary \in Seq(Glyphs)
    BY DEF Headers
  <1>2. b \in Seq(Glyphs)
    BY <1>1, NewBoundaryIs
  <1>3. [h EXCEPT !.type = 1] \in Headers /\ [h EXCEPT !.type = 2] \in Headers
    <2>1. \A n \in 0 .. 2 : [h EXCEPT !.type = n] \in Headers
      BY HeaderWith
    <2>2. 1 \in 0 .. 2 /\ 2 \in 0 .. 2
      OBVIOUS
    <2> QED
      BY <2>1, <2>2, Zenon
  <1> HIDE DEF b
  <1>4. [h EXCEPT !.type = 2, !.boundary = b] \in Headers
    <2> DEFINE k == [h EXCEPT !.type = 2]
    <2> HIDE DEF k
    <2>1. [k EXCEPT !.boundary = b] \in Headers
      BY <1>2, <1>3, HeaderWith DEF k
    <2> QED
      BY <2>1, Zenon DEF k
  <1>5. \/ Property(h) = [h EXCEPT !.type = 1]
        \/ Property(h) = [h EXCEPT !.type = 2, !.boundary = b]
        \/ Property(h) = h
    BY Zenon DEF Property, b
  <1> QED
    BY <1>3, <1>4, <1>5

\* A turn of the loop over the header leaves a state of that loop.
LEMMA HeaderStepIs ==
    ASSUME NEW h \in Headers, NEW ch \in Glyphs
    PROVE  HeaderStep(h, ch) \in Headers
  <1> DEFINE go(s) == [h EXCEPT !.s = s, !.at = @ + 1]
  <1>1. /\ h.s \in HeaderStates /\ h.name \in Seq(Glyphs) /\ h.value \in Seq(Glyphs)
        /\ h.at \in Nat \ {0}
    BY DEF Headers
  <1>2. \A s \in HeaderStates :
           go(s) \in Headers /\ go(s).name = h.name /\ go(s).value = h.value
    BY GoesOn, Zenon
  <1>3. \A s \in HeaderStates : [h EXCEPT !.s = s] \in Headers
    BY HeaderWith
  <1>4. <<ch>> \in Seq(Glyphs) /\ <<>> \in Seq(Glyphs)
    OBVIOUS
  <1>5. Append(h.name, ch) \in Seq(Glyphs) /\ Append(h.value, ch) \in Seq(Glyphs)
    BY <1>1, AppendProperties
  <1> HIDE DEF go
  <1>8. [go("name") EXCEPT !.name = <<ch>>, !.value = <<>>] \in Headers
    <2> DEFINE k == [go("name") EXCEPT !.name = <<ch>>]
    <2>1. go("name") \in Headers
      BY <1>2 DEF HeaderStates
    <2>2. k \in Headers
      BY <1>4, <2>1, HeaderWith
    <2> HIDE DEF k
    <2>3. [k EXCEPT !.value = <<>>] \in Headers
      BY <1>4, <2>2, HeaderWith
    <2> QED
      BY <2>3, Zenon DEF k
  <1>9. Property(go("start")) \in Headers
    BY <1>2, PropertyIs DEF HeaderStates
  <1> DEFINE start == CASE ch = "CR" -> go("header_almost")
                        [] ch = "LF" -> [h EXCEPT !.s = "done"]
                        [] ch = "/"  -> go("ignore")
                        [] OTHER     -> [go("name") EXCEPT !.name = <<ch>>, !.value = <<>>]
             name == IF ch = ":" THEN go("before")
                     ELSE [go("name") EXCEPT !.name = Append(@, ch)]
             before == IF ch = " " THEN go("before") ELSE [go("value") EXCEPT !.value = <<ch>>]
             value == [go(IF ch = " " THEN "after" ELSE "value") EXCEPT !.value = Append(@, ch)]
             almost == IF ch \in {"LF", "CR"} THEN Property(go("start")) ELSE [h EXCEPT !.s = "bad"]
             last == IF ch = "LF" THEN go("done") ELSE [h EXCEPT !.s = "bad"]
             ignore == IF ch = "LF" THEN go("start") ELSE go("ignore")
  <1>10. start \in Headers
    <2>1. go("header_almost") \in Headers /\ go("ignore") \in Headers
      BY <1>2 DEF HeaderStates
    <2>2. [h EXCEPT !.s = "done"] \in Headers
      BY <1>3 DEF HeaderStates
    <2> QED
      BY <1>8, <2>1, <2>2, Zenon
  <1>11. name \in Headers
    <2>1. go("before") \in Headers /\ go("name") \in Headers /\ go("name").name = h.name
      BY <1>2 DEF HeaderStates
    <2>2. [go("name") EXCEPT !.name = Append(h.name, ch)] \in Headers
      BY <1>5, <2>1, HeaderWith
    <2> QED
      BY <2>1, <2>2, Zenon
  <1>12. before \in Headers
    <2>1. go("before") \in Headers /\ go("value") \in Headers
      BY <1>2 DEF HeaderStates
    <2>2. [go("value") EXCEPT !.value = <<ch>>] \in Headers
      BY <1>4, <2>1, HeaderWith
    <2> QED
      BY <2>1, <2>2, Zenon
  <1>13. value \in Headers
    <2>1. \E s \in HeaderStates : value = [go(s) EXCEPT !.value = Append(@, ch)]
      BY Zenon DEF HeaderStates
    <2>2. PICK s \in HeaderStates : value = [go(s) EXCEPT !.value = Append(@, ch)]
      BY <2>1, Zenon
    <2>3. go(s) \in Headers /\ go(s).value = h.value
      BY <1>2
    <2>4. [go(s) EXCEPT !.value = Append(h.value, ch)] \in Headers
      BY <1>5, <2>3, HeaderWith
    <2> QED
      BY <2>2, <2>3, <2>4, Zenon
  <1>14. almost \in Headers /\ last \in Headers /\ ignore \in Headers
    BY <1>2, <1>3, <1>9 DEF HeaderStates
  <1>15. go("done") \in Headers /\ go("almost") \in Headers /\ [h EXCEPT !.s = "done"] \in Headers
    BY <1>2, <1>3 DEF HeaderStates
  <1>16. HeaderStep(h, ch) =
           CASE h.s \in {"done", "bad"} -> h
             [] h.s = "start" -> start
             [] h.s = "ignore" -> ignore
             [] h.s \in {"name", "before", "value", "after"} /\ ch = "LF" -> [h EXCEPT !.s = "done"]
             [] h.s \in {"name", "before", "value", "after"} /\ ch = "CR" -> go("almost")
             [] h.s = "name" -> name
             [] h.s = "before" -> before
             [] h.s \in {"value", "after"} -> value
             [] h.s = "almost" -> almost
             [] h.s = "header_almost" -> last
    BY DEF HeaderStep, go
  <1> HIDE DEF start, name, before, value, almost, last, ignore
  <1> QED
    BY <1>1, <1>10, <1>11, <1>12, <1>13, <1>14, <1>15, <1>16, Zenon DEF HeaderStates

\* What the loop over the lines of a header leaves.
LEMMA HeaderIs ==
    ASSUME NEW text \in Seq(Chars), NEW from \in Nat \ {0}, NEW old \in Seq(Glyphs)
    PROVE  Header(text, from, old) \in Headers
  <1> DEFINE seen == Append(SubSeq(text, from, Len(text)), "x")
             x == [s |-> "start", name |-> <<>>, value |-> <<>>, type |-> 0,
                   boundary |-> old, at |-> from]
             N == Len(seen)
             Is(r) == r = [n \in 0 .. N |-> IF n = 0 THEN x ELSE HeaderStep(r[n - 1], seen[n])]
             run == CHOOSE r : Is(r)
             turn(n, h) == IF n < N THEN HeaderStep(h, seen[n + 1]) ELSE h
             g == [p \in Nat \X Headers |-> turn(p[1], p[2])]
  <1>1. Header(text, from, old) = run[N]
    BY DEF Header, Loop
  <1>2. seen \in Seq(Glyphs) /\ N \in Nat
    <2>1. SubSeq(text, from, Len(text)) \in Seq(Chars)
      BY SubSeqIs
    <2>2. SubSeq(text, from, Len(text)) \in Seq(Glyphs) /\ "x" \in Glyphs
      BY <2>1, SeqMonotonic DEF Glyphs
    <2>3. seen \in Seq(Glyphs)
      BY <2>2, AppendProperties
    <2> HIDE DEF seen
    <2> QED
      BY <2>3, LenProperties
  <1> HIDE DEF seen
  <1>3. x \in Headers
    <2>1. <<>> \in Seq(Glyphs) /\ "start" \in HeaderStates /\ 0 \in 0 .. 2
      BY DEF HeaderStates
    <2> QED
      BY <2>1 DEF Headers
  <1>4. ASSUME NEW n \in 1 .. N, NEW h \in Headers PROVE HeaderStep(h, seen[n]) \in Headers
    <2>1. seen[n] \in Glyphs
      BY <1>2, ElementOfSeq
    <2> QED
      BY <2>1, HeaderStepIs
  <1> HIDE DEF x, N
  <1>5. \A n \in Nat, h \in Headers : turn(n, h) \in Headers
    <2> SUFFICES ASSUME NEW n \in Nat, NEW h \in Headers, n < N
                 PROVE  HeaderStep(h, seen[n + 1]) \in Headers
      OBVIOUS
    <2>1. n + 1 \in 1 .. N
      BY <1>2
    <2> QED
      BY <1>4, <2>1
  <1>6. g \in [Nat \X Headers -> Headers]
    <2> HIDE DEF turn
    <2> QED
      BY <1>5
  <1>7. \A n \in Nat, h \in Headers : g[<<n, h>>] = turn(n, h)
    OBVIOUS
  <1> HIDE DEF g
  <1>8. PICK f \in [0 .. N -> Headers] : Loops(f, x, g, N)
    BY <1>2, <1>3, <1>6, TurnsExist
  <1>9. Is(f)
    <2>1. ASSUME NEW n \in 0 .. N, n # 0
          PROVE  g[<<n - 1, f[n - 1]>>] = HeaderStep(f[n - 1], seen[n])
      <3>1. n - 1 \in Nat /\ n - 1 \in 0 .. N /\ (n - 1) + 1 = n /\ n - 1 < N
        BY <1>2, <2>1
      <3> QED
        BY <1>7, <3>1
    <2> QED
      BY <1>8, <2>1 DEF Loops
  <1>10. Is(run)
    <2> HIDE DEF Is
    <2> QED
      BY <1>9
  <1> HIDE DEF run
  <1>11. run[0] \in Headers
    BY <1>2, <1>3, <1>10
  <1>12. ASSUME NEW n \in 1 .. N, run[n - 1] \in Headers PROVE run[n] \in Headers
    <2>1. n \in 0 .. N /\ n # 0
      BY <1>2
    <2>2. run[n] = HeaderStep(run[n - 1], seen[n])
      BY <1>10, <2>1
    <2> QED
      BY <1>4, <1>12, <2>2
  <1> HIDE DEF Is
  <1>13. run[N] \in Headers
    BY <1>2, <1>11, <1>12, TurnsStay
  <1> QED
    BY <1>1, <1>13

\* The types of what the parser keeps, whatever the segments are.
UploadTypes ==
    /\ uploadFaults \in UploadScenarios /\ upload \in Uploads
    /\ step \in {0, 3} /\ fileType \in 0 .. 2 /\ mime \in 0 .. MinusSign /\ fileNumber \in Nat
    /\ files \in Pieces /\ boundary \in Seq(Glyphs)
    /\ sent \in 0 .. Len(Text(upload)) /\ segments \in 0 .. SegmentsOf(uploadFaults)
    /\ uploads \in 1 .. UploadsOf(uploadFaults) /\ stray \in BOOLEAN

\* What is written over a file does not change where the files are.
LEMMA RewriteTypes ==
    ASSUME NEW f \in Finders, NEW type, NEW own, stray \in BOOLEAN, Rewrite(f, type, own)
    PROVE  /\ mime' \in 0 .. MinusSign /\ fileNumber' \in Nat /\ files' \in Pieces
           /\ stray' \in BOOLEAN
  <1>1. /\ mime' = f.state /\ files' = f.files
        /\ fileNumber' = IF type = 2 /\ f.state = 0 THEN 0 ELSE f.number
    BY DEF Rewrite
  <1>2. f.state \in 0 .. MinusSign /\ f.number \in Nat /\ f.files \in Pieces
    BY DEF Finders, Pieces
  <1>3. \E hit : stray' = (stray \/ ~({f.files[i].buf : i \in hit} \subseteq own))
    BY DEF Rewrite
  <1> QED
    BY <1>1, <1>2, <1>3

\* The parser's state between two segments is one.
LEMMA AsItWasIs ==
    ASSUME UploadTypes
    PROVE  AsItWas \in Finders
  <1>1. AgedFiles \in Pieces
    BY FilesAge DEF UploadTypes
  <1> QED
    BY <1>1, FindersAre DEF UploadTypes, AsItWas

\* MiMeParseFile leaves the parser's state one of its states, whatever it is given.
LEMMA MimeFileTypes ==
    ASSUME UploadTypes, NEW text \in Seq(Chars), NEW from \in 1 .. Len(text) + 1, NEW bound
    PROVE  MimeFile(text, from, bound) \in Finders
  <1> DEFINE start == [state |-> mime, number |-> fileNumber, files |-> OpenFiles(text, from)]
             n == Len(text) + 1 - from
  <1>1. Len(text) \in Nat /\ from \in Nat /\ n \in Nat
    BY LenProperties
  <1>2. OpenFiles(text, from) \in Pieces
    BY <1>1, FilesOpen DEF UploadTypes
  <1>3. start \in Finders
    BY <1>2, FindersAre DEF UploadTypes
  <1>4. MimeFile(text, from, bound) = After(text, bound, from, n, start)
    BY <1>3, MimeFileIs
  <1> HIDE DEF start, n
  <1>5. After(text, bound, from, n, start) \in Finders
    BY <1>1, <1>3, AfterIs
  <1> QED
    BY <1>4, <1>5

\* A segment is parsed.
LEMMA ParsedTypes ==
    ASSUME UploadTypes, NEW text \in Seq(Chars), NEW from \in 1 .. Len(text) + 1, NEW own,
           HttpAnalysis(text, from, own)
    PROVE  /\ step' \in {0, 3} /\ fileType' \in 0 .. 2 /\ mime' \in 0 .. MinusSign
           /\ fileNumber' \in Nat /\ files' \in Pieces /\ boundary' \in Seq(Glyphs)
           /\ stray' \in BOOLEAN
  <1> DEFINE line == RequestLine(SubSeq(text, from, Len(text)))
             h == Header(text, from + line, boundary)
  <1>1. /\ step \in {0, 3} /\ fileType \in 0 .. 2 /\ boundary \in Seq(Glyphs)
        /\ stray \in BOOLEAN /\ Len(text) \in Nat /\ from \in Nat \ {0}
    BY LenProperties DEF UploadTypes
  <1>2. line \in Nat
    <2>1. SubSeq(text, from, Len(text)) \in Seq(Chars)
      BY <1>1, SubSeqIs
    <2>2. Len(SubSeq(text, from, Len(text))) \in Nat
      BY <2>1, LenProperties
    <2> QED
      BY <2>2, RequestLineIs
  <1> HIDE DEF line
  <1>3. from + line \in Nat \ {0}
    BY <1>1, <1>2
  <1>4. h \in Headers
    BY <1>1, <1>3, HeaderIs
  <1> HIDE DEF h
  <1>5. h.type \in 0 .. 2 /\ h.boundary \in Seq(Glyphs) /\ h.at \in Nat \ {0}
    BY <1>4 DEF Headers
  <1>6. CASE NotForm(text, from, own)
    <2>1. /\ fileType' = IF line = 0 THEN 0 ELSE h.type
          /\ boundary' = IF line = 0 THEN boundary ELSE h.boundary
          /\ Rewrite(AsItWas, fileType', own)
          /\ step' = step
      BY <1>6 DEF NotForm, line, h
    <2>2. AsItWas \in Finders
      BY AsItWasIs
    <2>3. /\ mime' \in 0 .. MinusSign /\ fileNumber' \in Nat /\ files' \in Pieces
          /\ stray' \in BOOLEAN
      BY <1>1, <2>1, <2>2, RewriteTypes
    <2> QED
      BY <1>1, <1>5, <2>1, <2>3
  <1>7. CASE Form(text, from, own)
    <2> DEFINE body == h.at <= Len(text)
               f == IF body THEN MimeFile(text, h.at, h.boundary) ELSE AsItWas
    <2>1. /\ fileType' = 2 /\ boundary' = h.boundary
          /\ step' = IF body THEN 0 ELSE 3
          /\ Rewrite(f, 2, own)
      BY <1>7 DEF Form, line, h
    <2>2. f \in Finders
      <3>1. ASSUME body PROVE MimeFile(text, h.at, h.boundary) \in Finders
        <4>1. h.at \in 1 .. Len(text) + 1
          BY <1>1, <1>5, <3>1
        <4> QED
          BY <4>1, MimeFileTypes
      <3> QED
        BY <3>1, AsItWasIs
    <2> HIDE DEF f
    <2>3. /\ mime' \in 0 .. MinusSign /\ fileNumber' \in Nat /\ files' \in Pieces
          /\ stray' \in BOOLEAN
      BY <1>1, <2>1, <2>2, RewriteTypes
    <2> HIDE DEF body
    <2> QED
      BY <1>5, <2>1, <2>3
  <1>8. CASE Rest(text, from, own)
    <2>1. PICK found :
             /\ Rewrite(MimeFile(text, from, boundary), fileType, own)
             /\ step' = IF found THEN 0 ELSE 3
             /\ fileType' = fileType /\ boundary' = boundary
      BY <1>8 DEF Rest
    <2>2. MimeFile(text, from, boundary) \in Finders
      BY MimeFileTypes
    <2>3. /\ mime' \in 0 .. MinusSign /\ fileNumber' \in Nat /\ files' \in Pieces
          /\ stray' \in BOOLEAN
      BY <1>1, <2>1, <2>2, RewriteTypes
    <2> QED
      BY <1>1, <2>1, <2>3
  <1> QED
    BY <1>6, <1>7, <1>8 DEF HttpAnalysis

\* The parser's variables have their types to begin with.
LEMMA UploadTypesBegin == HttpInit => UploadTypes
  <1> SUFFICES ASSUME HttpInit PROVE UploadTypes
    OBVIOUS
  <1>1. /\ uploadFaults \in UploadScenarios /\ step = 0 /\ fileType = 0 /\ boundary = <<>>
        /\ mime = 0 /\ fileNumber = 0 /\ upload \in Uploads /\ sent = 0 /\ segments = 0
        /\ uploads = 1 /\ stray = FALSE
        /\ files = [i \in 1 .. MaxFiles |-> [buf |-> Null, end |-> Null]]
    BY DEF HttpInit
  <1>2. files \in Pieces
    <2>1. [buf |-> Null, end |-> Null] \in [buf : Int, end : Int]
      BY DEF Null
    <2> QED
      BY <1>1, <2>1 DEF Pieces
  <1>3. boundary \in Seq(Glyphs)
    BY <1>1, EmptySeq
  <1>4. 0 \in 0 .. Len(Text(upload))
    BY <1>1, TextHas
  <1>5. 0 \in 0 .. SegmentsOf(uploadFaults) /\ 1 \in 1 .. UploadsOf(uploadFaults)
    BY UploadBounds DEF SegmentsOf, UploadsOf
  <1>6. 0 \in 0 .. MinusSign /\ 0 \in Nat /\ 0 \in {0, 3} /\ 0 \in 0 .. 2
    BY DEF MinusSign
  <1> QED
    BY <1>1, <1>2, <1>3, <1>4, <1>5, <1>6 DEF UploadTypes

\* Every segment, whatever faults it meets, leaves the variables their types.
LEMMA UploadTypesStay == UploadTypes /\ [HttpNext]_httpVars => UploadTypes'
  <1> SUFFICES ASSUME UploadTypes, [HttpNext]_httpVars PROVE UploadTypes'
    OBVIOUS
  <1>1. /\ upload \in Uploads /\ sent \in 0 .. Len(Text(upload)) /\ Len(Text(upload)) \in Nat
        /\ segments \in 0 .. SegmentsOf(uploadFaults) /\ uploads \in 1 .. UploadsOf(uploadFaults)
    BY TextHas DEF UploadTypes
  <1>2. SegmentsOf(uploadFaults) \in Nat /\ UploadsOf(uploadFaults) \in Nat
    BY UploadBounds DEF SegmentsOf, UploadsOf
  <1>3. ASSUME NEW n \in 1 .. Len(Text(upload)), Segment(n) PROVE UploadTypes'
    <2>1. /\ n > sent /\ segments < SegmentsOf(uploadFaults)
          /\ HttpAnalysis(Cut(upload, n), sent + 1, (sent + 1) .. n)
          /\ sent' = n /\ segments' = segments + 1
          /\ uploadFaults' = uploadFaults /\ upload' = upload /\ uploads' = uploads
      BY <1>3 DEF Segment, Cut
    <2>2. n \in 0 .. Len(Text(upload))
      BY <1>1
    <2>3. Cut(upload, n) \in Seq(Chars) /\ Len(Cut(upload, n)) = n
      BY <1>1, <2>2, CutIs
    <2>4. sent + 1 \in 1 .. Len(Cut(upload, n)) + 1
      BY <1>1, <2>1, <2>3
    <2>5. /\ step' \in {0, 3} /\ fileType' \in 0 .. 2 /\ mime' \in 0 .. MinusSign
          /\ fileNumber' \in Nat /\ files' \in Pieces /\ boundary' \in Seq(Glyphs)
          /\ stray' \in BOOLEAN
      BY <2>1, <2>3, <2>4, ParsedTypes
    <2>6. segments + 1 \in 0 .. SegmentsOf(uploadFaults)
      BY <1>1, <1>2, <2>1
    <2> QED
      BY <2>1, <2>2, <2>5, <2>6 DEF UploadTypes
  <1>4. ASSUME NEW text \in OtherSegments, OtherSegment(text) PROVE UploadTypes'
    <2>1. /\ HttpAnalysis(text, 1, {}) /\ uploadFaults' = uploadFaults
          /\ upload' = upload /\ sent' = sent /\ segments' = segments /\ uploads' = uploads
      BY <1>4 DEF OtherSegment, client
    <2>2. text \in Seq(Chars)
      <3>1. text \in Seq(STRING)
        BY OtherSegmentsAreTexts
      <3> QED
        BY <3>1, SeqMonotonic DEF Chars
    <2>3. 1 \in 1 .. Len(text) + 1
      BY <2>2, LenProperties
    <2>5. /\ step' \in {0, 3} /\ fileType' \in 0 .. 2 /\ mime' \in 0 .. MinusSign
          /\ fileNumber' \in Nat /\ files' \in Pieces /\ boundary' \in Seq(Glyphs)
          /\ stray' \in BOOLEAN
      BY <2>1, <2>2, <2>3, ParsedTypes
    <2> QED
      BY <2>1, <2>5 DEF UploadTypes
  <1>5. ASSUME NEW u \in Uploads, NextUpload(u) PROVE UploadTypes'
    <2>1. /\ upload' = u /\ sent' = 0 /\ segments' = 0 /\ uploads' = uploads + 1
          /\ uploads < UploadsOf(uploadFaults)
          /\ uploadFaults' = uploadFaults /\ stray' = stray
          /\ step' = step /\ mime' = mime /\ fileNumber' = fileNumber /\ files' = files
          /\ fileType' = fileType /\ boundary' = boundary
      BY <1>5 DEF NextUpload, httpre
    <2>2. 0 \in 0 .. Len(Text(u))
      BY TextHas
    <2>3. 0 \in 0 .. SegmentsOf(uploadFaults) /\ uploads + 1 \in 1 .. UploadsOf(uploadFaults)
      BY <1>1, <1>2, <2>1
    <2> QED
      BY <2>1, <2>2, <2>3 DEF UploadTypes
  <1>6. CASE UNCHANGED httpVars
    BY <1>6 DEF httpVars, httpre, client, UploadTypes
  <1> QED
    BY <1>3, <1>4, <1>5, <1>6 DEF HttpNext

\* Each variable of the parser has its type, whatever faults the segments meet.
THEOREM UploadsTypeCorrect == HttpSpec => []HttpTypeOK
  <1>1. HttpSpec => []UploadTypes
    BY UploadTypesBegin, UploadTypesStay, PTL DEF HttpSpec
  <1>2. UploadTypes /\ UploadIInv => HttpTypeOK
    <2> SUFFICES ASSUME UploadTypes, UploadIInv PROVE HttpTypeOK
      OBVIOUS
    <2>1. ASSUME uploadFaults = {} PROVE fileNumber <= MaxFiles
      <3>1. upload \in Uploads /\ MaxFiles \in Nat
                /\ IF sent \in 1 .. (Len(Text(upload)) - 1) THEN Reading ELSE Idle
        BY <2>1, UploadBounds DEF UploadIInv, UploadTypes
      <3>2. CASE Idle
        BY <3>1, <3>2 DEF Idle
      <3>3. CASE Reading
        <4>1. 1 \in 1 .. Len(upload.parts)
          BY <3>1, <3>3, UploadIs DEF Reading
        <4>2. 1 \in 1 .. MaxFiles
          BY <3>1, <4>1, PartsFit
        <4> QED
          BY <3>1, <3>3, <4>2 DEF Reading, InFile
      <3> QED
        BY <3>1, <3>2, <3>3
    <2> QED
      BY <2>1 DEF UploadTypes, HttpTypeOK, Pieces
  <1> QED
    BY <1>1, <1>2, UploadInvariance, PTL

------------------------------------------------------------------------------
(* The parts together.                                                      *)

\* Each part of the packet analysis goes its own way, whatever the others do: they
\* share no variable (ipv4.c, PolicyList.c, checkup.c, Http.c).
THEOREM PartsStayApart == AnalysisSpec => ReassSpec /\ PolicySpec /\ SumSpec /\ HttpSpec
  <1>1. AnalysisInit => ReassInit /\ PolicyInit /\ SumInit /\ HttpInit
    BY DEF AnalysisInit
  <1>2. UNCHANGED analysisVars =>
           UNCHANGED reassVars /\ UNCHANGED policyVars /\ UNCHANGED sumVars /\ UNCHANGED httpVars
    BY DEF analysisVars
  <1>3. /\ Reassembles => ReassNext /\ UNCHANGED policyVars /\ UNCHANGED sumVars /\ UNCHANGED httpVars
        /\ LooksForPorts => PolicyNext /\ UNCHANGED reassVars /\ UNCHANGED sumVars /\ UNCHANGED httpVars
        /\ AddsUp => SumNext /\ UNCHANGED reassVars /\ UNCHANGED policyVars /\ UNCHANGED httpVars
        /\ ParsesUploads => HttpNext /\ UNCHANGED reassVars /\ UNCHANGED policyVars /\ UNCHANGED sumVars
    BY DEF Reassembles, LooksForPorts, AddsUp, ParsesUploads
  <1>4. [AnalysisNext]_analysisVars => [ReassNext]_reassVars
    BY <1>2, <1>3 DEF AnalysisNext
  <1>5. [AnalysisNext]_analysisVars => [PolicyNext]_policyVars
    BY <1>2, <1>3 DEF AnalysisNext
  <1>6. [AnalysisNext]_analysisVars => [SumNext]_sumVars
    BY <1>2, <1>3 DEF AnalysisNext
  <1>7. [AnalysisNext]_analysisVars => [HttpNext]_httpVars
    BY <1>2, <1>3 DEF AnalysisNext
  <1> QED
    BY <1>1, <1>4, <1>5, <1>6, <1>7, PTL
    DEF AnalysisSpec, ReassSpec, PolicySpec, SumSpec, HttpSpec

\* Each variable of the analysis has its type.
THEOREM AnalysisTypeCorrect == AnalysisSpec => []AnalysisTypeOK
  <1>1. AnalysisSpec => [](ReassTypeOK /\ PolicyTypeOK /\ SumTypeOK /\ HttpTypeOK)
    BY PartsStayApart, ReassTypeCorrect, PolicyTypeCorrect, SumTypeCorrect, UploadsTypeCorrect,
       PTL
  <1>2. (ReassTypeOK /\ PolicyTypeOK /\ SumTypeOK /\ HttpTypeOK) => AnalysisTypeOK
    BY DEF AnalysisTypeOK
  <1> QED
    BY <1>1, <1>2, PTL

\* What is proved of the parts is so when they are put together: datagrams go up
\* whole (ipv4.c 60-219), the ports that are forbidden are found (PolicyList.c), files
\* alone are overwritten (Http.c 211-240), and a checksum is the one its receiver
\* computes (checkup.c 65-165).
THEOREM AnalysisCorrect ==
    AnalysisSpec =>
        /\ [](DatagramsCorrect /\ KeptIsHeld)
        /\ [](SlotsCorrect /\ LookIsTimely) /\ ImplementsPortSet
        /\ []ChecksumVerifies
        /\ [](OnlyFilesAreWritten /\ ReadyForNext)
  BY PartsStayApart, DatagramsAlwaysCorrect, KeptAlwaysHeld, SlotsAlwaysCorrect,
     LookAlwaysTimely, ListImplementsSet, ChecksumAlwaysVerifies, OnlyFilesAlwaysWritten,
     AlwaysReadyForNext, PTL
====
