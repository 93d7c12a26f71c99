------------------------------- MODULE Checksum -------------------------------
(***************************************************************************)
(* The checksum that TCPAnalysis (Function.c) writes into a segment it has  *)
(* changed: chksum_tcp (checkup.c) adds the words of the pseudo header and  *)
(* of the segment in unrolled loops and folds the carries in twice; checksum*)
(* folds until none is left.  And the byte order of nh.c, through which     *)
(* every number of a header is read.                                        *)
(*                                                                          *)
(* A word counts mod Base, 2^16 in the code; the sum is kept in 32 bits,    *)
(* which it does not fill: WordsFit.  The machine is little-endian.         *)
(***************************************************************************)
EXTENDS Integers

CONSTANTS Base,         \* 2^16 in the code, a square number
          SegmentLengths, \* the lengths of segments, in bytes
          Fillings,     \* what they may hold
          WordAt(_, _)  \* the word number i of pseudo header and filling f

HalfBase == CHOOSE h \in 1 .. Base : h * h = Base

ASSUME BaseIsSquare == Base \in Nat /\ \E h \in 2 .. Base : h * h = Base
ASSUME SegmentsHaveHeaders == SegmentLengths \subseteq {n \in Nat : n >= 20}
ASSUME WordsFit == \A n \in SegmentLengths : 6 + ((n + 1) \div 2) < Base
ASSUME WordsAreWords ==
    \A f \in Fillings : \A i \in 0 .. (Base - 1) : WordAt(f, i) \in 0 .. (Base - 1)

VARIABLES
    filling,    \* what the segment holds; never changes
    segmentLength,  \* its length in bytes; never changes
    added,      \* d, the number of words that were added
    dlen,       \* the bytes that are still to be added
    cksum,
    answer      \* the result, -1 before there is one

sumVars == <<filling, segmentLength, added, dlen, cksum, answer>>

PseudoWords == 6
HeaderWords == 10

\* The word number i of pseudo header and segment.  Of an odd last byte only
\* the lower half of the word is there.
Word(i) == WordAt(filling, i)
LastByte(i) == Word(i) % HalfBase

SumInit ==
    /\ filling \in Fillings /\ segmentLength \in SegmentLengths
    /\ added = 0 /\ dlen = segmentLength /\ cksum = 0 /\ answer = -1

\* The sum of f over n numbers from i on.
SumOver(f, i, n) ==
    LET upTo[k \in 0 .. n] == IF k = 0 THEN 0 ELSE upTo[k - 1] + f[i + (k - 1)]
    IN  upTo[n]

\* The sum of the n words from word i on.
WordSum(i, n) == SumOver([k \in i .. (i + n - 1) |-> Word(k)], i, n)

AddWords(n) ==
    /\ cksum' = cksum + WordSum(added, n)
    /\ added' = added + n
    /\ UNCHANGED <<filling, segmentLength, answer>>

\* The pseudo header and the 20 bytes of the TCP header.
AddHeaders ==
    /\ added = 0
    /\ AddWords(PseudoWords + HeaderWords)
    /\ dlen' = dlen - 2 * HeaderWords

\* Mutant of BlockWords: a step begins one byte early.
BlockWords_Early == IF dlen >= 31 THEN 16 ELSE IF dlen >= 8 THEN 4 ELSE IF dlen > 1 THEN 1 ELSE 0

\* How many words the next turn of the three loops adds.
BlockWords == IF dlen >= 32 THEN 16 ELSE IF dlen >= 8 THEN 4 ELSE IF dlen > 1 THEN 1 ELSE 0

AddBlock ==
    /\ added > 0 /\ BlockWords > 0
    /\ AddWords(BlockWords)
    /\ dlen' = dlen - 2 * BlockWords

AddLastByte ==
    /\ added > 0 /\ BlockWords = 0 /\ dlen = 1
    /\ cksum' = cksum + LastByte(added)
    /\ dlen' = 0
    /\ UNCHANGED <<filling, segmentLength, added, answer>>

FoldOnce(c) == (c \div Base) + (c % Base)

\* Mutant of FoldTwice: the carry of the first fold is forgotten.
FoldTwice_Once(c) == FoldOnce(c)

\* cksum = (cksum >> 16) + (cksum & 0xffff); cksum += (cksum >> 16)
FoldTwice(c) == FoldOnce(c) + (FoldOnce(c) \div Base)

\* (unsigned short)(~cksum)
Complement(c) == (Base - 1) - (c % Base)

GiveSum ==
    /\ added > 0 /\ BlockWords = 0 /\ dlen # 1 /\ answer = -1
    /\ answer' = Complement(FoldTwice(cksum))
    /\ UNCHANGED <<filling, segmentLength, added, dlen, cksum>>

SumNext == AddHeaders \/ AddBlock \/ AddLastByte \/ GiveSum

SumSpec == SumInit /\ [][SumNext]_sumVars

\* The loop of checksum: until there is no carry.
FoldAll(c) ==
    LET folded[n \in 0 .. c] == IF n < Base THEN n ELSE folded[FoldOnce(n)]
    IN  folded[c]

BigLittleSwap16(w) == (w % HalfBase) * HalfBase + (w \div HalfBase)

------------------------------------------------------------------------------
SumTypeOK ==
    /\ filling \in Fillings /\ segmentLength \in SegmentLengths
    /\ added \in Nat /\ dlen \in 0 .. segmentLength /\ cksum \in 0 .. Base * Base - 1
    /\ answer \in -1 .. Base - 1

\* What a receiver adds up: the words of the same headers and the same segment,
\* the last one filled up with a zero byte.
ReceivedWords == PseudoWords + ((segmentLength + 1) \div 2)
WordsReceived ==
    [i \in 0 .. (ReceivedWords - 1) |->
        IF segmentLength % 2 = 1 /\ i = PseudoWords + (segmentLength \div 2) THEN LastByte(i) ELSE Word(i)]

SumOf(f) == SumOver(f, 0, ReceivedWords)

\* With the checksum the receiver finds all ones: the unrolled loops leave no
\* word out and add none twice, whatever the length, and two folds are enough
\* (checkup.c 61-143).  A receiver of the other byte order finds the same, so
\* the words need not be swapped (nh.c 75-106).
ChecksumVerifies ==
    answer # -1 =>
        LET swapped == [i \in DOMAIN WordsReceived |-> BigLittleSwap16(WordsReceived[i])]
        IN  /\ FoldAll(SumOf(WordsReceived) + answer) = Base - 1
            /\ FoldAll(SumOf(swapped) + BigLittleSwap16(answer)) = Base - 1
==============================================================================
