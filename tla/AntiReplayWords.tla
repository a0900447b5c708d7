--------------------------- MODULE AntiReplayWords ---------------------------
(***************************************************************************)
(* The replay filter as pkg/crypto/replay.go stores it: WindowWords words  *)
(* of WordBits bits, shifted as a whole by moving words and then carrying  *)
(* bits from each word into the next.  A word is the set of its one bits.  *)
(*                                                                         *)
(* Words are related to the offsets of AntiReplayWindow by Abs, and the    *)
(* filter as a whole to AntiReplayFilter, which only remembers what was    *)
(* accepted.                                                               *)
(***************************************************************************)
EXTENDS AntiReplayWindow

CONSTANT MaxCounter \* bound: largest sequence counter

Counters == 0 .. MaxCounter
WindowWords == WindowSizeBits \div WordBits

ASSUME WordsAssumption ==
    /\ MaxCounter \in Nat
    /\ WindowSizeBits % WordBits = 0

WordIndex == 0 .. WindowWords - 1
BitIndex == 0 .. WordBits - 1
Words == [WordIndex -> SUBSET BitIndex]

VARIABLES
    maxSeq,
    words,      \* the bitmap field
    accepted    \* history: accepted[seq], times seq was accepted since Reset

wordsVars == <<maxSeq, words, accepted>>

NoneAccepted == [seq \in Counters |-> 0]
NoBits == [i \in WordIndex |-> {}]

\* Variant: the word grows instead of losing its high bits.
ShlGrowing(word, n) == {b + n : b \in word}

\* word << n and word >> n on WordBits-bit words.
Shl(word, n) == {b + n : b \in word} \cap BitIndex
Shr(word, n) == {b - n : b \in word} \cap BitIndex

\* Variant: one word too many is cleared.
MoveWordsClearing(bm, k) == [i \in WordIndex |-> IF i <= k THEN {} ELSE bm[i - k]]

\* The first loop of shiftRight: whole words move up, low words are cleared.
MoveWords(bm, k) == [i \in WordIndex |-> IF i < k THEN {} ELSE bm[i - k]]

\* Variant: the bits a word pushes out are lost.
CarryBitsLosing(bm, n) == [i \in WordIndex |-> Shl(bm[i], n)]

\* The second loop: each word takes the bits its lower neighbour pushes out.
CarryBits(bm, n) ==
    [i \in WordIndex |->
        Shl(bm[i], n) \cup (IF i = 0 THEN {} ELSE Shr(bm[i - 1], WordBits - n))]

ShiftWords(bm, n) ==
    LET wordShift == n \div WordBits
        bitShift == n % WordBits
        moved == MoveWords(bm, wordShift)
    IN IF wordShift >= WindowWords THEN NoBits
       ELSE IF bitShift = 0 THEN moved
       ELSE CarryBits(moved, bitShift)

\* Variant: bits counted from the other end of the word.
TestBitReversed(bm, d) ==
    (WordBits - 1) - (d % WordBits) \in bm[d \div WordBits]

TestBit(bm, d) == d % WordBits \in bm[d \div WordBits]
SetBit(bm, d) == [bm EXCEPT ![d \div WordBits] = @ \cup {d % WordBits}]

FirstPacket(max, bm) == max = 0 /\ bm[0] = {}

CheckWords(max, bm, seq) ==
    \/ FirstPacket(max, bm)
    \/ seq > max
    \/ /\ seq <= max
       /\ max - seq < WindowSizeBits
       /\ ~TestBit(bm, max - seq)

\* The bitmap CheckAndAdd leaves when it accepts seq.
AddWords(max, bm, seq) ==
    IF FirstPacket(max, bm) THEN SetBit(bm, 0)
    ELSE IF seq <= max THEN SetBit(bm, max - seq)
    ELSE SetBit(IF seq - max >= WindowSizeBits THEN NoBits
                ELSE ShiftWords(bm, seq - max), 0)

WordsInit ==
    /\ maxSeq = 0
    /\ words = NoBits
    /\ accepted = NoneAccepted

CheckAndAdd(seq) ==
    /\ CheckWords(maxSeq, words, seq)
    /\ maxSeq' = IF FirstPacket(maxSeq, words) \/ seq > maxSeq
                 THEN seq ELSE maxSeq
    /\ words' = AddWords(maxSeq, words, seq)
    /\ accepted' = [accepted EXCEPT ![seq] = @ + 1]

Reset ==
    /\ maxSeq' = 0
    /\ words' = NoBits
    /\ accepted' = NoneAccepted

WordsNext == Reset \/ \E seq \in Counters : CheckAndAdd(seq)

WordsSpec == WordsInit /\ [][WordsNext]_wordsVars
-----------------------------------------------------------------------------
WordsTypeOK ==
    /\ maxSeq \in Counters
    /\ words \in Words
    /\ accepted \in [Counters -> Nat]

\* The window of AntiReplayWindow that max and bm stand for.
Abs(max, bm) == [maxSeq |-> max, bitmap |-> {d \in Offsets : TestBit(bm, d)}]

\* Testing and shifting words does, on every reachable bitmap and for every
\* counter, what testing and shifting offsets does: bits cross the word
\* boundaries where they should and fall off the top only.
WordsImplementWindow ==
    \A seq \in Counters :
        LET w == Abs(maxSeq, words) IN
        /\ CheckWords(maxSeq, words, seq) <=> Check(w, seq)
        /\ Check(w, seq) =>
            Abs(Add(w, seq).maxSeq, AddWords(maxSeq, words, seq)) = Add(w, seq)

Filter == INSTANCE AntiReplayFilter WITH seen <- accepted, Seqs <- Counters

\* Since the last Reset no counter was accepted twice or from behind the window.
ImplementsFilter == Filter!Spec

\* The verdict is exactly the one a filter with unbounded memory gives: no
\* fresh counter inside the window is ever taken for a replay.
VerdictIsExact ==
    \A seq \in Counters :
        CheckWords(maxSeq, words, seq) <=> Filter!Acceptable(seq)
=============================================================================
