-------------------------- MODULE TransportProofs --------------------------
(***************************************************************************)
(* What is proved of the way of a packet, for every window size, word      *)
(* size, number of counters, threads, generations, keys and connections,   *)
(* from the bits up:                                                       *)
(*                                                                         *)
(* 1. one call on a window of AntiReplayWindow: a window that remembers    *)
(*    the counters acc remembers exactly those and the new one after       *)
(*    CheckAndAdd, and its verdict is that of unbounded memory;            *)
(* 2. AntiReplayWords: shifting the bitmap word by word with a carry moves *)
(*    every bit exactly n offsets up, the words answer and change as the   *)
(*    window does, and so the filter implements AntiReplayFilter;          *)
(* 3. SessionRatchet: each window remembers exactly the counters delivered *)
(*    under its generation (IInv), so that the session implements          *)
(*    AtMostOnceChannel; no key in use is wiped (KInv);                    *)
(* 4. DerpRelay: its types, that its router keeps no ghosts, that the      *)
(*    relay keeps the order of packets, and that it implements             *)
(*    PacketService.                                                       *)
(***************************************************************************)
EXTENDS SessionRatchet, AntiReplayWords, DerpRelay, SequenceTheorems, TLAPS

(* 1. One call on a window.                                                *)
\* The bitmap CheckAndAdd writes never reaches beyond the window.
LEMMA AddIsWindow ==
    ASSUME NEW w \in Window, NEW s \in Nat, Check(w, s)
    PROVE  Add(w, s) \in Window
<1>1. 0 \in Offsets
    BY WindowAssumption DEF Offsets
<1>2. CASE Untouched(w)
    BY <1>1, <1>2 DEF Add, Window
<1>3. CASE ~Untouched(w) /\ s > w.maxSeq
    BY <1>1, <1>3 DEF Add, Window, ShiftRight
<1>4. CASE ~Untouched(w) /\ ~(s > w.maxSeq)
  <2>1. w.maxSeq - s \in Offsets
    BY <1>4, WindowAssumption DEF Check, Offsets, Window
  <2>2. Add(w, s) = [maxSeq |-> w.maxSeq,
                     bitmap |-> w.bitmap \cup {w.maxSeq - s}]
    BY <1>4 DEF Add, Window
  <2> QED
    BY <2>1, <2>2 DEF Window
<1> QED
    BY <1>2, <1>3, <1>4

\* One window update: a counter that passes Check was not accepted before,
\* and the window after CheckAndAdd remembers it together with the others.
LEMMA AddRemembers ==
    ASSUME NEW w \in Window, NEW acc \in SUBSET Nat, NEW s \in Nat,
           Remembers(w, acc), Check(w, s)
    PROVE  /\ s \notin acc
           /\ Remembers(Add(w, s), acc \cup {s})
<1> USE WindowAssumption DEF Window, Offsets
<1>1. 0 \in Offsets
    OBVIOUS
<1>2. CASE acc = {}
  <2>1. w = NewAntiReplayWindow
    BY <1>2 DEF Remembers
  <2>2. Add(w, s) = [maxSeq |-> s, bitmap |-> {0}]
    BY <2>1 DEF NewAntiReplayWindow, Add, Untouched
  <2>3. {d \in Offsets : s - d \in {s}} = {0}
    BY <1>1
  <2> QED
    BY <1>1, <1>2, <2>2, <2>3 DEF Remembers
<1>3. CASE acc # {}
  <2>1. /\ w.maxSeq \in acc
        /\ \A x \in acc : x <= w.maxSeq
        /\ w.bitmap = {d \in Offsets : w.maxSeq - d \in acc}
    BY <1>3 DEF Remembers
  <2>2. 0 \in w.bitmap
    BY <1>1, <2>1
  <2>3. ~Untouched(w)
    BY <2>2 DEF Untouched
  <2>4. CASE s > w.maxSeq
    <3>1. Add(w, s) = [maxSeq |-> s,
                       bitmap |-> ShiftRight(w.bitmap, s - w.maxSeq) \cup {0}]
      BY <2>3, <2>4 DEF Add
    <3>2. s \notin acc
      BY <2>1, <2>4
    <3>3. ShiftRight(w.bitmap, s - w.maxSeq) \cup {0}
            = {d \in Offsets : s - d \in acc \cup {s}}
      <4>1. ASSUME NEW d \in ShiftRight(w.bitmap, s - w.maxSeq) \cup {0}
            PROVE  d \in Offsets /\ s - d \in acc \cup {s}
        <5>1. CASE d = 0
          BY <5>1, <1>1
        <5>2. CASE d # 0
          <6>1. PICK e \in w.bitmap : d = e + (s - w.maxSeq)
            BY <4>1, <5>2 DEF ShiftRight
          <6>2. s - d = w.maxSeq - e
            BY <6>1, <2>1
          <6> QED
            BY <4>1, <5>2, <6>1, <6>2, <2>1 DEF ShiftRight
        <5> QED
          BY <5>1, <5>2
      <4>2. ASSUME NEW d \in Offsets, s - d \in acc \cup {s}
            PROVE  d \in ShiftRight(w.bitmap, s - w.maxSeq) \cup {0}
        <5>1. CASE s - d = s
          BY <5>1
        <5>2. CASE s - d \in acc
          <6> DEFINE e == d - (s - w.maxSeq)
          <6>1. w.maxSeq - e = s - d /\ e + (s - w.maxSeq) = d
            BY <2>1
          <6>2. s - d <= w.maxSeq
            BY <5>2, <2>1
          <6>3. e \in Offsets
            BY <2>1, <2>4, <6>2
          <6>4. e \in w.bitmap
            BY <2>1, <5>2, <6>1, <6>3
          <6> QED
            BY <6>1, <6>4 DEF ShiftRight
        <5> QED
          BY <4>2, <5>1, <5>2
      <4> QED
        BY <4>1, <4>2
    <3>4. \A x \in acc \cup {s} : x <= s
      BY <2>1, <2>4
    <3> QED
      BY <3>1, <3>2, <3>3, <3>4 DEF Remembers
  <2>5. CASE ~(s > w.maxSeq)
    <3> DEFINE d0 == w.maxSeq - s
    <3>1. d0 \in Offsets /\ d0 \notin w.bitmap
      BY <2>3, <2>5 DEF Check
    <3>2. s \notin acc
      BY <3>1, <2>1
    <3>3. Add(w, s) = [maxSeq |-> w.maxSeq, bitmap |-> w.bitmap \cup {d0}]
      BY <2>3, <2>5 DEF Add
    <3>4. w.bitmap \cup {d0} = {d \in Offsets : w.maxSeq - d \in acc \cup {s}}
      BY <3>1, <2>1
    <3> QED
      BY <2>1, <2>5, <3>1, <3>2, <3>3, <3>4 DEF Remembers
  <2> QED
    BY <2>4, <2>5
<1> QED
    BY <1>2, <1>3

\* A window that remembers acc refuses only what is in acc or too old.
LEMMA RefusesOnlyReplays ==
    ASSUME NEW w \in Window, NEW acc \in SUBSET Nat, NEW s \in Nat,
           Remembers(w, acc), s \notin acc, s > w.maxSeq - WindowSizeBits
    PROVE  Check(w, s)
<1> USE WindowAssumption DEF Window
<1>1. CASE acc = {}
    BY <1>1 DEF Remembers, Check, Untouched, NewAntiReplayWindow
<1>2. CASE acc # {} /\ s <= w.maxSeq
  <2>1. w.bitmap = {d \in Offsets : w.maxSeq - d \in acc}
    BY <1>2 DEF Remembers
  <2>2. w.maxSeq - (w.maxSeq - s) = s
    OBVIOUS
  <2>3. w.maxSeq - s \notin w.bitmap
    BY <2>1, <2>2
  <2> QED
    BY <1>2, <2>3 DEF Check
<1>3. CASE s > w.maxSeq
    BY <1>3 DEF Check
<1> QED
    BY <1>1, <1>2, <1>3

\* The verdict on a counter depends on what was accepted, and on nothing else.
LEMMA CheckIsExact ==
    ASSUME NEW w \in Window, NEW acc \in SUBSET Nat, NEW s \in Nat,
           Remembers(w, acc)
    PROVE  Check(w, s) <=> /\ s \notin acc
                           /\ \A x \in acc : x - s < WindowSizeBits
<1> USE WindowAssumption DEF Window
<1>1. CASE acc = {}
    BY <1>1 DEF Remembers, Check, Untouched, NewAntiReplayWindow
<1>2. CASE acc # {}
  <2>1. w.maxSeq \in acc /\ \A x \in acc : x <= w.maxSeq
    BY <1>2 DEF Remembers
  <2>2. ASSUME Check(w, s)
        PROVE  s \notin acc /\ \A x \in acc : x - s < WindowSizeBits
    <3>1. s \notin acc
      BY <2>2, AddRemembers
    <3>2. 0 \in w.bitmap
      BY <1>2, <2>1 DEF Remembers, Offsets
    <3>3. w.maxSeq - s < WindowSizeBits
      BY <2>2, <3>2 DEF Check, Untouched
    <3> QED
      BY <2>1, <3>1, <3>3
  <2>3. ASSUME s \notin acc, \A x \in acc : x - s < WindowSizeBits
        PROVE  Check(w, s)
    <3>1. w.maxSeq - s < WindowSizeBits
      BY <2>1, <2>3
    <3> QED
      BY <2>3, <3>1, RefusesOnlyReplays
  <2> QED
    BY <2>2, <2>3
<1> QED
    BY <1>1, <1>2
-----------------------------------------------------------------------------
(* 2. The words of a window.                                               *)
\* Division with remainder by the word size.
LEMMA DivMod ==
    ASSUME NEW B \in Nat \ {0}, NEW d \in Nat
    PROVE  /\ d \div B \in Nat
           /\ d % B \in 0 .. B - 1
           /\ d = B * (d \div B) + (d % B)
OBVIOUS

\* Quotient and remainder are unique.
LEMMA DivModUnique ==
    ASSUME NEW B \in Nat \ {0}, NEW q \in Nat, NEW p \in Nat,
           NEW r \in 0 .. B - 1, NEW s \in 0 .. B - 1, B * q + r = B * p + s
    PROVE  q = p /\ r = s
<1>1. CASE q = p
    BY <1>1
<1>2. ASSUME NEW x \in Nat, NEW y \in Nat, x < y,
             NEW u \in 0 .. B - 1, NEW v \in 0 .. B - 1
      PROVE  B * x + u < B * y + v
  <2>1. B * y >= B * (x + 1)
    BY <1>2
  <2>2. B * (x + 1) = B * x + B
    OBVIOUS
  <2> QED
    BY <2>1, <2>2
<1>3. ~(q < p) /\ ~(p < q)
    BY <1>2
<1> QED
    BY <1>1, <1>3

\* Offset B * i + b is bit b of word i.
LEMMA Split ==
    ASSUME NEW B \in Nat \ {0}, NEW i \in Nat, NEW b \in 0 .. B - 1
    PROVE  (B * i + b) \div B = i /\ (B * i + b) % B = b
<1>1. B * i + b \in Nat
    OBVIOUS
<1> QED
    BY <1>1, DivMod, DivModUnique

\* The window is a whole number of words, at least one.
LEMMA WholeWords ==
    /\ WindowWords \in Nat \ {0}
    /\ WindowSizeBits = WordBits * WindowWords
<1>1. WindowSizeBits = WordBits * WindowWords
    BY DivMod, WindowAssumption, WordsAssumption DEF WindowWords
<1>2. WindowWords \in Nat
    BY DivMod, WindowAssumption DEF WindowWords
<1>3. WindowWords # 0
  <2> SUFFICES ASSUME WindowWords = 0 PROVE FALSE
    OBVIOUS
  <2>1. WindowSizeBits = WordBits * 0
    BY <1>1
  <2> QED
    BY <2>1, WindowAssumption
<1> QED
    BY <1>1, <1>2, <1>3

\* Every offset has a word and a bit, and every word and bit an offset.
LEMMA OffsetSplit ==
    ASSUME NEW d \in Offsets
    PROVE  /\ d \div WordBits \in WordIndex
           /\ d % WordBits \in BitIndex
           /\ d = WordBits * (d \div WordBits) + (d % WordBits)
<1> USE WindowAssumption, WholeWords
<1> DEFINE i == d \div WordBits
<1>1. /\ d \in Nat /\ d < WindowSizeBits
      /\ i \in Nat /\ d % WordBits \in BitIndex
      /\ d = WordBits * i + (d % WordBits)
  <2>1. d \in Nat /\ d < WindowSizeBits
    BY DEF Offsets
  <2>2. /\ d \div WordBits \in Nat /\ d % WordBits \in 0 .. WordBits - 1
        /\ d = WordBits * (d \div WordBits) + (d % WordBits)
    BY <2>1
  <2> QED
    BY <2>1, <2>2 DEF BitIndex
<1>2. i < WindowWords
  <2> SUFFICES ASSUME i >= WindowWords PROVE FALSE
    BY <1>1
  <2>1. WordBits * i >= WordBits * WindowWords
    BY <1>1
  <2> QED
    BY <1>1, <2>1 DEF BitIndex
<1> QED
    BY <1>1, <1>2 DEF WordIndex

\* A word and a bit of it make an offset.
LEMMA OffsetJoin ==
    ASSUME NEW i \in WordIndex, NEW b \in BitIndex, NEW bm
    PROVE  /\ WordBits * i + b \in Offsets
           /\ TestBit(bm, WordBits * i + b) <=> b \in bm[i]
<1> USE WindowAssumption, WholeWords DEF WordIndex, BitIndex
<1>1. WordBits * i + b \in Nat
    OBVIOUS
<1>2. WordBits * (i + 1) <= WordBits * WindowWords
    OBVIOUS
<1>3. WordBits * (i + 1) = WordBits * i + WordBits
    OBVIOUS
<1>4. WordBits * i + b \in Offsets
    BY <1>1, <1>2, <1>3 DEF Offsets
<1>5. (WordBits * i + b) \div WordBits = i /\ (WordBits * i + b) % WordBits = b
    BY Split
<1> QED
    BY <1>4, <1>5 DEF TestBit

-----------------------------------------------------------------------------
\* A shifted bitmap is a bitmap.
LEMMA ShiftWordsType ==
    ASSUME NEW bm \in Words, NEW n \in Nat
    PROVE  ShiftWords(bm, n) \in Words
<1> USE WindowAssumption, WholeWords
<1>1. NoBits \in Words
    BY DEF NoBits, Words
<1>2. ASSUME NEW k \in Nat PROVE MoveWords(bm, k) \in Words
    BY DEF MoveWords, Words, WordIndex
<1>3. ASSUME NEW m \in Words, NEW k \in Nat PROVE CarryBits(m, k) \in Words
  <2>1. \A i \in WordIndex : Shl(m[i], k) \in SUBSET BitIndex
    BY DEF Shl
  <2>2. \A i \in WordIndex : Shr(m[i - 1], WordBits - k) \in SUBSET BitIndex
    BY DEF Shr
  <2> QED
    BY <2>1, <2>2 DEF CarryBits, Words
<1>4. n \div WordBits \in Nat /\ n % WordBits \in Nat
    BY DivMod
<1> QED
    BY <1>1, <1>2, <1>3, <1>4 DEF ShiftWords

\* shiftRight moves every bit n offsets up and loses only what leaves the
\* window at the top.
LEMMA ShiftMovesBits ==
    ASSUME NEW bm \in Words, NEW n \in Offsets, NEW d \in Offsets
    PROVE  TestBit(ShiftWords(bm, n), d) <=> d >= n /\ TestBit(bm, d - n)
<1> USE WindowAssumption, WholeWords
<1> DEFINE k == n \div WordBits
           s == n % WordBits
           i == d \div WordBits
           b == d % WordBits
           m == MoveWords(bm, k)
<1>1. /\ k \in WordIndex /\ s \in BitIndex /\ n = WordBits * k + s
      /\ i \in WordIndex /\ b \in BitIndex /\ d = WordBits * i + b
    BY OffsetSplit
<1>2. k \in Nat /\ k < WindowWords /\ i \in Nat /\ i < WindowWords
      /\ s \in Nat /\ b \in Nat /\ s < WordBits /\ b < WordBits
    BY <1>1 DEF WordIndex, BitIndex
<1>3. \A j \in WordIndex : m[j] = IF j < k THEN {} ELSE bm[j - k]
    BY DEF MoveWords
<1> HIDE DEF k, s, i, b, m
<1>4. ASSUME i < k PROVE d < n
  <2>1. WordBits * (i + 1) <= WordBits * k
    BY <1>2, <1>4
  <2>2. WordBits * (i + 1) = WordBits * i + WordBits
    BY <1>2
  <2> QED
    BY <1>1, <1>2, <2>1, <2>2
<1>5. CASE s = 0
  <2>1. ShiftWords(bm, n) = m
    BY <1>2, <1>5 DEF ShiftWords, k, s, m
  <2>2. TestBit(ShiftWords(bm, n), d) <=> b \in m[i]
    BY <2>1 DEF TestBit, i, b
  <2>3. CASE i < k
    BY <1>1, <1>3, <1>4, <2>2, <2>3 DEF Offsets
  <2>4. CASE i >= k
    <3>1. WordBits * (i - k) = WordBits * i - WordBits * k
      BY <1>2
    <3>2. WordBits * (i - k) >= 0
      BY <1>2, <2>4
    <3>3. d - n = WordBits * (i - k) + b /\ d >= n
      BY <1>1, <1>2, <1>5, <3>1, <3>2
    <3>4. i - k \in WordIndex
      BY <1>2, <2>4 DEF WordIndex
    <3>5. TestBit(bm, d - n) <=> b \in bm[i - k]
      BY <1>1, <3>3, <3>4, OffsetJoin
    <3> QED
      BY <1>1, <1>2, <1>3, <2>2, <2>4, <3>3, <3>5
  <2> QED
    BY <1>2, <2>3, <2>4
<1>6. CASE s # 0
  <2>1. ShiftWords(bm, n) = CarryBits(m, s)
    BY <1>2, <1>6 DEF ShiftWords, k, s, m
  <2>2. TestBit(ShiftWords(bm, n), d) <=>
            \/ b \in Shl(m[i], s)
            \/ i # 0 /\ b \in Shr(m[i - 1], WordBits - s)
    BY <1>1, <2>1 DEF TestBit, i, b, CarryBits
  <2>3. m \in [WordIndex -> SUBSET BitIndex]
    BY <1>2 DEF m, MoveWords, Words, WordIndex
  <2>4. b \in Shl(m[i], s) <=> b >= s /\ b - s \in m[i]
    <3>1. ASSUME b >= s, b - s \in m[i] PROVE b \in Shl(m[i], s)
      <4>1. b = (b - s) + s
        BY <1>2
      <4> QED
        BY <1>1, <3>1, <4>1 DEF Shl
    <3>2. ASSUME b \in Shl(m[i], s) PROVE b >= s /\ b - s \in m[i]
      <4>1. PICK c \in m[i] : b = c + s
        BY <3>2 DEF Shl
      <4>2. c \in Nat
        BY <1>1, <2>3 DEF BitIndex
      <4>3. b - s = c /\ b >= s
        BY <1>2, <4>1, <4>2
      <4> QED
        BY <4>1, <4>3
    <3> QED
      BY <3>1, <3>2
  <2>5. ASSUME i # 0
        PROVE  b \in Shr(m[i - 1], WordBits - s)
                <=> b < s /\ b + (WordBits - s) \in m[i - 1]
    <3>1. i - 1 \in WordIndex
      BY <1>2, <2>5 DEF WordIndex
    <3>2. ASSUME b < s, b + (WordBits - s) \in m[i - 1]
          PROVE  b \in Shr(m[i - 1], WordBits - s)
      <4>1. b = (b + (WordBits - s)) - (WordBits - s)
        BY <1>2
      <4> QED
        BY <1>1, <3>2, <4>1 DEF Shr
    <3>3. ASSUME b \in Shr(m[i - 1], WordBits - s)
          PROVE  b < s /\ b + (WordBits - s) \in m[i - 1]
      <4>1. PICK c \in m[i - 1] : b = c - (WordBits - s)
        BY <3>3 DEF Shr
      <4>2. c \in Nat /\ c < WordBits
        BY <2>3, <3>1 DEF BitIndex
      <4>3. b + (WordBits - s) = c /\ b < s
        BY <1>2, <4>1, <4>2
      <4> QED
        BY <4>1, <4>3
    <3> QED
      BY <3>2, <3>3
  <2>6. CASE i < k
    <3>1. m[i] = {} /\ (i # 0 => m[i - 1] = {})
      BY <1>1, <1>2, <1>3, <2>6 DEF WordIndex
    <3> QED
      BY <1>1, <1>4, <2>2, <2>4, <2>5, <2>6, <3>1 DEF Offsets
  <2>7. CASE i >= k /\ b >= s
    <3>1. WordBits * (i - k) = WordBits * i - WordBits * k
      BY <1>2
    <3>2. WordBits * (i - k) >= 0
      BY <1>2, <2>7
    <3>3. d - n = WordBits * (i - k) + (b - s) /\ d >= n
      BY <1>1, <1>2, <2>7, <3>1, <3>2
    <3>4. i - k \in WordIndex /\ b - s \in BitIndex
      BY <1>2, <2>7 DEF WordIndex, BitIndex
    <3>5. TestBit(bm, d - n) <=> b - s \in bm[i - k]
      BY <3>3, <3>4, OffsetJoin
    <3>6. m[i] = bm[i - k]
      BY <1>1, <1>2, <1>3, <2>7
    <3>7. i # 0 => b \notin Shr(m[i - 1], WordBits - s)
      BY <1>2, <2>5, <2>7
    <3> QED
      BY <2>2, <2>4, <2>7, <3>3, <3>5, <3>6, <3>7
  <2>8. CASE i = k /\ b < s
    <3>1. d < n
      BY <1>1, <1>2, <2>8
    <3>2. i # 0 => m[i - 1] = {}
      BY <1>2, <1>3, <2>8 DEF WordIndex
    <3>3. ~(b >= s) /\ (i # 0 => b \notin Shr(m[i - 1], WordBits - s))
      BY <1>2, <2>5, <2>8, <3>2
    <3>4. ~(d >= n)
      BY <1>1, <1>2, <3>1
    <3> QED
      BY <2>2, <2>4, <3>3, <3>4
  <2>9. CASE i > k /\ b < s
    <3>1. WordBits * (i - 1 - k) = WordBits * i - WordBits - WordBits * k
      BY <1>2
    <3>2. WordBits * (i - 1 - k) >= 0
      BY <1>2, <2>9
    <3>3. d - n = WordBits * (i - 1 - k) + (b + (WordBits - s)) /\ d >= n
      BY <1>1, <1>2, <2>9, <3>1, <3>2
    <3>4. i - 1 - k \in WordIndex /\ b + (WordBits - s) \in BitIndex
      BY <1>2, <2>9 DEF WordIndex, BitIndex
    <3>5. TestBit(bm, d - n) <=> b + (WordBits - s) \in bm[i - 1 - k]
      BY <3>3, <3>4, OffsetJoin
    <3>6. m[i - 1] = bm[i - 1 - k]
      BY <1>2, <1>3, <2>9 DEF WordIndex
    <3>7. i # 0 /\ ~(b >= s)
      BY <1>2, <2>9
    <3> QED
      BY <2>2, <2>4, <2>5, <2>9, <3>3, <3>5, <3>6, <3>7
  <2> QED
    BY <1>2, <2>6, <2>7, <2>8, <2>9
<1> QED
    BY <1>5, <1>6
-----------------------------------------------------------------------------
\* SetBit sets one bit and no other.
LEMMA SetBitSets ==
    ASSUME NEW bm \in Words, NEW e \in Offsets
    PROVE  /\ SetBit(bm, e) \in Words
           /\ \A d \in Offsets :
                TestBit(SetBit(bm, e), d) <=> d = e \/ TestBit(bm, d)
<1>1. /\ e \div WordBits \in WordIndex /\ e % WordBits \in BitIndex
      /\ e = WordBits * (e \div WordBits) + (e % WordBits)
    BY OffsetSplit
<1>2. SetBit(bm, e) \in Words
    BY <1>1 DEF SetBit, Words
<1>3. ASSUME NEW d \in Offsets
      PROVE  TestBit(SetBit(bm, e), d) <=> d = e \/ TestBit(bm, d)
  <2>1. /\ d \div WordBits \in WordIndex /\ d % WordBits \in BitIndex
        /\ d = WordBits * (d \div WordBits) + (d % WordBits)
    BY OffsetSplit
  <2> DEFINE i == d \div WordBits
             b == d % WordBits
             j == e \div WordBits
             c == e % WordBits
  <2>2. d = e <=> i = j /\ b = c
    BY <1>1, <2>1
  <2>3. TestBit(bm, d) <=> b \in bm[i]
    BY DEF TestBit
  <2>4. TestBit(SetBit(bm, e), d)
            <=> b \in [bm EXCEPT ![j] = bm[j] \cup {c}][i]
    BY DEF TestBit, SetBit
  <2>5. i \in WordIndex /\ j \in WordIndex
    BY <1>1, <2>1
  <2> HIDE DEF i, b, j, c
  <2>6. [bm EXCEPT ![j] = bm[j] \cup {c}][i]
            = IF i = j THEN bm[i] \cup {c} ELSE bm[i]
    BY <2>5 DEF Words
  <2> QED
    BY <2>2, <2>3, <2>4, <2>6
<1> QED
    BY <1>2, <1>3

\* The empty bitmap has no bit set.
LEMMA NoBitsAreSet ==
    /\ NoBits \in Words
    /\ \A d \in Offsets : ~TestBit(NoBits, d)
<1>1. NoBits \in Words
    BY DEF NoBits, Words
<1>2. ASSUME NEW d \in Offsets PROVE ~TestBit(NoBits, d)
  <2>1. d \div WordBits \in WordIndex
    BY OffsetSplit
  <2> QED
    BY <2>1 DEF NoBits, TestBit
<1> QED
    BY <1>1, <1>2

\* The highest counter accepted has a bit.
LEMMA ZeroIsOffset == 0 \in Offsets
BY WindowAssumption DEF Offsets

\* "No packet yet" looks at the same bits on both levels.
LEMMA FirstPacketIsUntouched ==
    ASSUME NEW max \in Nat, NEW bm \in Words
    PROVE  FirstPacket(max, bm) <=> Untouched(Abs(max, bm))
<1>1. 0 \in WordIndex /\ BitIndex \subseteq Offsets
  <2>1. 0 \in WordIndex
    BY WholeWords DEF WordIndex
  <2>2. ASSUME NEW b \in BitIndex PROVE b \in Offsets
    <3>1. WordBits * 0 + b \in Offsets
      BY <2>1, OffsetJoin
    <3> QED
      BY <3>1, WindowAssumption DEF BitIndex
  <2> QED
    BY <2>1, <2>2
<1>2. ASSUME NEW b \in BitIndex PROVE TestBit(bm, b) <=> b \in bm[0]
  <2>1. TestBit(bm, WordBits * 0 + b) <=> b \in bm[0]
    BY <1>1, OffsetJoin
  <2>2. WordBits * 0 + b = b
    BY WindowAssumption DEF BitIndex
  <2> QED
    BY <2>1, <2>2
<1>3. bm[0] \subseteq BitIndex
    BY <1>1 DEF Words
<1>4. bm[0] = {} <=> \A b \in BitIndex : ~TestBit(bm, b)
    BY <1>2, <1>3
<1>5. {d \in Offsets : TestBit(bm, d)} \cap BitIndex = {}
        <=> \A b \in BitIndex : ~TestBit(bm, b)
    BY <1>1
<1> QED
    BY <1>4, <1>5 DEF FirstPacket, Untouched, Abs, BitIndex

\* One call of Check or CheckAndAdd on words is one on offsets.
LEMMA StepCommutes ==
    ASSUME NEW max \in Nat, NEW bm \in Words, NEW seq \in Nat
    PROVE  /\ CheckWords(max, bm, seq) <=> Check(Abs(max, bm), seq)
           /\ Check(Abs(max, bm), seq) =>
                /\ AddWords(max, bm, seq) \in Words
                /\ Abs(Add(Abs(max, bm), seq).maxSeq, AddWords(max, bm, seq))
                    = Add(Abs(max, bm), seq)
<1> USE WindowAssumption, ZeroIsOffset
<1> DEFINE w == Abs(max, bm)
<1>1. w.maxSeq = max /\ w.bitmap = {d \in Offsets : TestBit(bm, d)}
    BY DEF Abs
<1>2. FirstPacket(max, bm) <=> Untouched(w)
    BY FirstPacketIsUntouched
<1>a. w = [maxSeq |-> max, bitmap |-> w.bitmap]
    BY DEF Abs
<1> HIDE DEF w
<1>3. ASSUME seq <= max, max - seq < WindowSizeBits
      PROVE  max - seq \in Offsets
    BY <1>3 DEF Offsets
<1>4. CheckWords(max, bm, seq) <=> Check(w, seq)
    BY <1>1, <1>2, <1>3 DEF CheckWords, Check
<1>5. ASSUME NEW m \in Words, NEW e \in Offsets, NEW x \in Nat
      PROVE  /\ SetBit(m, e) \in Words
             /\ Abs(x, SetBit(m, e))
                  = [maxSeq |-> x,
                     bitmap |-> {d \in Offsets : TestBit(m, d)} \cup {e}]
  <2>1. \A d \in Offsets : TestBit(SetBit(m, e), d) <=> d = e \/ TestBit(m, d)
    BY SetBitSets
  <2>2. {d \in Offsets : TestBit(SetBit(m, e), d)}
            = {d \in Offsets : TestBit(m, d)} \cup {e}
    BY <2>1
  <2>3. Abs(x, SetBit(m, e))
          = [maxSeq |-> x, bitmap |-> {d \in Offsets : TestBit(SetBit(m, e), d)}]
    BY DEF Abs
  <2>4. SetBit(m, e) \in Words
    BY SetBitSets
  <2> QED
    BY <2>2, <2>3, <2>4
<1>6. ASSUME Check(w, seq)
      PROVE  /\ AddWords(max, bm, seq) \in Words
             /\ Abs(Add(w, seq).maxSeq, AddWords(max, bm, seq)) = Add(w, seq)
  <2>1. CASE Untouched(w)
    BY <1>1, <1>2, <1>5, <2>1 DEF AddWords, Add
  <2>2. CASE ~Untouched(w) /\ seq <= max
    <3>1. max - seq \in Offsets
      BY <1>1, <1>3, <1>6, <2>2 DEF Check
    <3>2. Add(w, seq) = [maxSeq |-> max, bitmap |-> w.bitmap \cup {max - seq}]
      BY <1>1, <1>a, <2>2 DEF Add
    <3>3. AddWords(max, bm, seq) = SetBit(bm, max - seq)
      BY <1>2, <2>2 DEF AddWords
    <3>4. Abs(max, SetBit(bm, max - seq))
            = [maxSeq |-> max, bitmap |-> w.bitmap \cup {max - seq}]
      BY <1>1, <1>5, <3>1
    <3>5. SetBit(bm, max - seq) \in Words
      BY <1>5, <3>1
    <3> QED
      BY <3>2, <3>3, <3>4, <3>5
  <2>3. CASE ~Untouched(w) /\ seq > max
    <3> DEFINE n == seq - max
               m == IF n >= WindowSizeBits THEN NoBits ELSE ShiftWords(bm, n)
    <3>1. AddWords(max, bm, seq) = SetBit(m, 0)
      BY <1>2, <2>3 DEF AddWords
    <3>2. Add(w, seq) = [maxSeq |-> seq, bitmap |-> ShiftRight(w.bitmap, n) \cup {0}]
      BY <1>1, <2>3 DEF Add
    <3>3. n \in Nat
      BY <2>3
    <3> HIDE DEF n
    <3>4. m \in Words
      BY <3>3, NoBitsAreSet, ShiftWordsType
    <3>5. {d \in Offsets : TestBit(m, d)} = ShiftRight(w.bitmap, n)
      <4>1. CASE n >= WindowSizeBits
        <5>1. ShiftRight(w.bitmap, n) = {}
          BY <1>1, <3>3, <4>1 DEF ShiftRight, Offsets
        <5> QED
          BY <4>1, <5>1, NoBitsAreSet
      <4>2. CASE n < WindowSizeBits
        <5>1. n \in Offsets /\ m = ShiftWords(bm, n)
          BY <3>3, <4>2 DEF Offsets
        <5>2. \A d \in Offsets : TestBit(m, d) <=> d >= n /\ TestBit(bm, d - n)
          BY <5>1, ShiftMovesBits
        <5>3. ASSUME NEW d \in Offsets
              PROVE  d \in ShiftRight(w.bitmap, n) <=> d >= n /\ TestBit(bm, d - n)
          <6>1. ASSUME d >= n, TestBit(bm, d - n)
                PROVE  d \in ShiftRight(w.bitmap, n)
            <7>1. d - n \in Offsets /\ (d - n) + n = d
              BY <3>3, <6>1 DEF Offsets
            <7>2. d - n \in w.bitmap
              BY <1>1, <6>1, <7>1
            <7> QED
              BY <7>1, <7>2 DEF ShiftRight
          <6>2. ASSUME d \in ShiftRight(w.bitmap, n)
                PROVE  d >= n /\ TestBit(bm, d - n)
            <7>1. PICK e \in w.bitmap : d = e + n
              BY <6>2 DEF ShiftRight
            <7>2. e \in Offsets /\ TestBit(bm, e)
              BY <1>1
            <7>3. e = d - n /\ d >= n
              BY <3>3, <7>1, <7>2 DEF Offsets
            <7> QED
              BY <7>2, <7>3
          <6> QED
            BY <6>1, <6>2
        <5>4. ShiftRight(w.bitmap, n) \subseteq Offsets
          BY DEF ShiftRight
        <5> QED
          BY <5>2, <5>3, <5>4
      <4> QED
        BY <3>3, <4>1, <4>2
    <3> HIDE DEF m
    <3> QED
      BY <1>5, <3>1, <3>2, <3>4, <3>5
  <2> QED
    BY <2>1, <2>2, <2>3
<1> QED
    BY <1>4, <1>6 DEF w

\* No call leaves the types.
LEMMA WordsTypeStep == WordsTypeOK /\ [WordsNext]_wordsVars => WordsTypeOK'
<1> SUFFICES ASSUME WordsTypeOK, [WordsNext]_wordsVars PROVE WordsTypeOK'
    OBVIOUS
<1> USE WordsAssumption DEF WordsTypeOK
<1>1. ASSUME NEW seq \in Counters, CheckAndAdd(seq) PROVE WordsTypeOK'
  <2>1. maxSeq \in Nat /\ seq \in Nat
    BY DEF Counters
  <2>2. words' \in Words
    BY <1>1, <2>1, StepCommutes DEF CheckAndAdd
  <2> QED
    BY <1>1, <2>2 DEF CheckAndAdd
<1>2. CASE Reset
    BY <1>2, NoBitsAreSet DEF Reset, Counters, NoneAccepted
<1>3. CASE UNCHANGED wordsVars
    BY <1>3 DEF wordsVars
<1> QED
    BY <1>1, <1>2, <1>3 DEF WordsNext

\* The filter's variables stay well-typed: maxSeq only ever holds a counter
\* that was tested, and no shift writes outside a word.
THEOREM WordsTypes == WordsSpec => []WordsTypeOK
<1>1. WordsInit => WordsTypeOK
    BY WordsAssumption, NoBitsAreSet DEF WordsInit, WordsTypeOK, Counters, NoneAccepted
<1> QED
    BY <1>1, WordsTypeStep, PTL DEF WordsSpec

\* The code's words and carries are a sliding window, for every word size,
\* number of words and counter.
THEOREM WordsAreAWindow == WordsSpec => []WordsImplementWindow
<1>1. WordsTypeOK => WordsImplementWindow
  <2> SUFFICES ASSUME WordsTypeOK, NEW seq \in Counters
               PROVE  LET w == Abs(maxSeq, words) IN
                      /\ CheckWords(maxSeq, words, seq) <=> Check(w, seq)
                      /\ Check(w, seq) =>
                          Abs(Add(w, seq).maxSeq, AddWords(maxSeq, words, seq))
                            = Add(w, seq)
    BY DEF WordsImplementWindow
  <2>1. maxSeq \in Nat /\ words \in Words /\ seq \in Nat
    BY WordsAssumption DEF WordsTypeOK, Counters
  <2> QED
    BY <2>1, StepCommutes
<1> QED
    BY <1>1, WordsTypes, PTL

\* The window that the words stand for remembers what was accepted.
Passed == {s \in Counters : accepted[s] > 0}
WordsRemember == Remembers(Abs(maxSeq, words), Passed)

\* A bitmap stands for a window.
LEMMA AbsIsWindow ==
    ASSUME WordsTypeOK
    PROVE  Abs(maxSeq, words) \in Window
BY WordsAssumption DEF WordsTypeOK, Abs, Window, Counters

\* CheckAndAdd accepts only what the filter with unbounded memory accepts, and
\* the words remember it.
LEMMA CheckAndAddIsAccept ==
    ASSUME WordsTypeOK, WordsRemember, NEW seq \in Counters, CheckAndAdd(seq)
    PROVE  WordsRemember' /\ Filter!Accept(seq)
<1> DEFINE w == Abs(maxSeq, words)
<1>1. maxSeq \in Nat /\ words \in Words /\ seq \in Nat /\ Passed \in SUBSET Nat
    BY WordsAssumption DEF WordsTypeOK, Counters, Passed
<1>2. w \in Window /\ w.maxSeq = maxSeq
    BY AbsIsWindow DEF Abs
<1>3. /\ Check(w, seq)
      /\ Abs(Add(w, seq).maxSeq, AddWords(maxSeq, words, seq)) = Add(w, seq)
    BY <1>1, StepCommutes DEF CheckAndAdd
<1>4. Add(w, seq).maxSeq = maxSeq'
  <2>1. FirstPacket(maxSeq, words) <=> Untouched(w)
    BY <1>1, FirstPacketIsUntouched
  <2> HIDE DEF w
  <2> QED
    BY <1>2, <2>1 DEF CheckAndAdd, Add, Window
<1>5. Abs(maxSeq', words') = Add(w, seq)
    BY <1>3, <1>4 DEF CheckAndAdd
<1>6. Remembers(w, Passed)
    BY DEF WordsRemember
<1> HIDE DEF w
<1>7. Remembers(Add(w, seq), Passed \cup {seq})
    BY <1>1, <1>2, <1>3, <1>6, AddRemembers
<1>8. Passed' = Passed \cup {seq}
    BY DEF Passed, CheckAndAdd, WordsTypeOK
<1>9. WordsRemember'
    BY <1>5, <1>7, <1>8 DEF WordsRemember
<1>10. seq \notin Passed /\ \A x \in Passed : x - seq < WindowSizeBits
    BY <1>1, <1>2, <1>3, <1>6, CheckIsExact
<1>11. accepted[seq] = 0 /\ Filter!Acceptable(seq)
    BY <1>10 DEF Filter!Acceptable, Passed, WordsTypeOK
<1>12. accepted' = [accepted EXCEPT ![seq] = 1]
    BY <1>11 DEF CheckAndAdd
<1> QED
    BY <1>9, <1>11, <1>12 DEF Filter!Accept

\* Reset, and the initial bitmap, remember nothing.
LEMMA EmptyRemembers == Remembers(Abs(0, NoBits), {})
BY NoBitsAreSet DEF Remembers, Abs, NewAntiReplayWindow

\* What the words remember is preserved by every step.
LEMMA RememberStep ==
    WordsTypeOK /\ WordsRemember /\ [WordsNext]_wordsVars => WordsRemember'
<1> SUFFICES ASSUME WordsTypeOK, WordsRemember, [WordsNext]_wordsVars PROVE WordsRemember'
    OBVIOUS
<1>1. ASSUME NEW seq \in Counters, CheckAndAdd(seq) PROVE WordsRemember'
    BY <1>1, CheckAndAddIsAccept
<1>2. CASE Reset
    BY <1>2, EmptyRemembers DEF Reset, WordsRemember, Passed, NoneAccepted
<1>3. CASE UNCHANGED wordsVars
    BY <1>3 DEF wordsVars, WordsRemember, Passed
<1> QED
    BY <1>1, <1>2, <1>3 DEF WordsNext

\* In every reachable state the words remember what was accepted.
THEOREM WordsInvariant == WordsSpec => [](WordsTypeOK /\ WordsRemember)
<1>1. WordsInit => WordsTypeOK /\ WordsRemember
  <2> SUFFICES ASSUME WordsInit PROVE WordsTypeOK /\ WordsRemember
    OBVIOUS
  <2>1. WordsTypeOK
    BY WordsAssumption, NoBitsAreSet DEF WordsInit, WordsTypeOK, Counters, NoneAccepted
  <2>2. Passed = {}
    BY DEF WordsInit, Passed, NoneAccepted
  <2> QED
    BY <2>1, <2>2, EmptyRemembers DEF WordsInit, WordsRemember
<1> QED
    BY <1>1, WordsTypeStep, RememberStep, PTL DEF WordsSpec

\* The verdict on every counter is the one that unbounded memory would give,
\* in every reachable state: nothing is accepted twice, and nothing fresh
\* inside the window is refused.
THEOREM WordsVerdictIsExact == WordsSpec => []VerdictIsExact
<1>1. WordsTypeOK /\ WordsRemember => VerdictIsExact
  <2> SUFFICES ASSUME WordsTypeOK, WordsRemember, NEW seq \in Counters
               PROVE  CheckWords(maxSeq, words, seq) <=> Filter!Acceptable(seq)
    BY DEF VerdictIsExact
  <2>1. maxSeq \in Nat /\ words \in Words /\ seq \in Nat
          /\ Passed \in SUBSET Nat
    BY WordsAssumption DEF WordsTypeOK, Counters, Passed
  <2>2. CheckWords(maxSeq, words, seq) <=> Check(Abs(maxSeq, words), seq)
    BY <2>1, StepCommutes
  <2> QED
    <3>1. CheckWords(maxSeq, words, seq)
            <=> seq \notin Passed /\ \A x \in Passed : x - seq < WindowSizeBits
      BY <2>1, <2>2, AbsIsWindow, CheckIsExact DEF WordsRemember
    <3> QED
      BY <3>1 DEF Filter!Acceptable, Passed, WordsTypeOK
<1> QED
    BY <1>1, WordsInvariant, PTL

\* The code's filter implements the one with unbounded memory.
THEOREM WordsImplementFilter == WordsSpec => ImplementsFilter
<1>1. WordsInit => Filter!Init
    BY DEF WordsInit, Filter!Init, NoneAccepted, Filter!NoneSeen
<1>2. WordsTypeOK /\ WordsRemember /\ [WordsNext]_wordsVars => [Filter!Next]_accepted
  <2> SUFFICES ASSUME WordsTypeOK, WordsRemember, [WordsNext]_wordsVars
               PROVE  [Filter!Next]_accepted
    OBVIOUS
  <2>1. ASSUME NEW seq \in Counters, CheckAndAdd(seq) PROVE Filter!Next
    BY <2>1, CheckAndAddIsAccept DEF Filter!Next
  <2>2. CASE Reset
    BY <2>2 DEF Reset, Filter!Next, Filter!Clear, NoneAccepted, Filter!NoneSeen
  <2>3. CASE UNCHANGED wordsVars
    BY <2>3 DEF wordsVars
  <2> QED
    BY <2>1, <2>2, <2>3 DEF WordsNext
<1> QED
    BY <1>1, <1>2, WordsInvariant, PTL DEF WordsSpec, Filter!Spec, ImplementsFilter
-----------------------------------------------------------------------------
(* 3. The session.                                                         *)
\* Frames in the network carry counters the sender has already passed, and a
\* frame that a thread holds intact is one of them.
NetworkIsPast ==
    /\ \A f \in net : f.seq < sendNonce[Other(f.to)][f.gen]
    /\ \A t \in Threads : decrypting[t] # None =>
        /\ decrypting[t].frame.to = Owner[t]
        /\ decrypting[t].intact => decrypting[t].frame \in net

\* A delivery happens once.
DeliveredOnce == \A f \in Frame : deliveries[f] \in {0, 1}

IInv == TypeOK /\ WindowMatchesDeliveries /\ NetworkIsPast /\ DeliveredOnce

\* The peers are each other's other.
LEMMA OtherIsPeer ==
    \A p \in Peers : Other(p) \in Peers /\ Other(Other(p)) = p /\ Other(p) # p
BY SessionAssumption DEF Other, Peers

\* The invariant holds before anything was sent.
LEMMA InitIInv == Init => IInv
<1> SUFFICES ASSUME Init PROVE IInv
    OBVIOUS
<1> USE SessionAssumption, NoneAssumption, WindowAssumption
<1>1. NewAntiReplayWindow \in Window
    BY DEF NewAntiReplayWindow, Window, Offsets
<1>2. TypeOK
    BY <1>1 DEF Init, TypeOK, MaybeGen, Peers, Gens, Seqs
<1>3. WindowMatchesDeliveries
  <2>1. \A p \in Peers, g \in Gens : Accepted(p, g) = {}
    BY DEF Init, Accepted, Frame
  <2>2. \A p \in Peers, g \in Gens : window[p][g] = NewAntiReplayWindow
    BY DEF Init
  <2> QED
    BY <2>1, <2>2 DEF WindowMatchesDeliveries, Remembers
<1>4. NetworkIsPast /\ DeliveredOnce
    BY DEF Init, NetworkIsPast, DeliveredOnce
<1> QED
    BY <1>2, <1>3, <1>4 DEF IInv

\* No action leaves the types.
LEMMA TypeStep == TypeOK /\ [Next]_vars => TypeOK'
<1> SUFFICES ASSUME TypeOK, [Next]_vars PROVE TypeOK'
    OBVIOUS
<1> USE SessionAssumption, NoneAssumption, OtherIsPeer
        DEF TypeOK, mgrVars, MaybeGen
<1>1. CASE Tick
    BY <1>1 DEF Tick
<1>2. ASSUME NEW p \in Peers, NEW g \in Gens, Handshake(p, g) PROVE TypeOK'
    BY <1>2 DEF Handshake
<1>3. ASSUME NEW p \in Peers, NEW g \in Gens, RotateKeys(p, g) PROVE TypeOK'
    BY <1>3 DEF RotateKeys
<1>4. ASSUME NEW p \in Senders, EncryptPacket(p) PROVE TypeOK'
  <2>1. p \in Peers /\ active[p] \in Gens
    BY <1>4 DEF EncryptPacket
  <2>2. sendNonce[p][active[p]] + 1 \in Seqs
    BY <1>4, <2>1 DEF EncryptPacket, Seqs
  <2>3. sendNonce' \in [Peers -> [Gens -> Seqs]]
    BY <1>4, <2>1, <2>2 DEF EncryptPacket
  <2>4. net' \subseteq Frame
    BY <1>4, <2>1 DEF EncryptPacket, Frame
  <2> QED
    BY <1>4, <2>3, <2>4 DEF EncryptPacket
<1>5. ASSUME NEW p \in Peers, Close(p) PROVE TypeOK'
    BY <1>5 DEF Close
<1>6. ASSUME NEW t \in Threads, Arrive(t) PROVE TypeOK'
  <2>1. PICK f \in Frame, intact \in BOOLEAN : BeginDecrypt(t, f, intact)
    BY <1>6 DEF Arrive, Frame
  <2> QED
    BY <2>1 DEF BeginDecrypt, Decryption
<1>7. ASSUME NEW t \in Threads, FinishDecrypt(t) PROVE TypeOK'
  <2> DEFINE f == decrypting[t].frame
             p == Owner[t]
  <2>1. f \in Frame /\ p \in Peers
    BY <1>7 DEF FinishDecrypt, Decryption
  <2>2. f.gen \in Gens /\ f.seq \in Nat
    BY <2>1 DEF Frame, Seqs
  <2>3. Add(window[p][f.gen], f.seq) \in Window
    BY <1>7, <2>1, <2>2, AddIsWindow DEF FinishDecrypt
  <2>4. window' \in [Peers -> [Gens -> Window]]
    BY <1>7, <2>1, <2>2, <2>3 DEF FinishDecrypt
  <2>5. deliveries' \in [Frame -> Nat]
    BY <1>7, <2>1 DEF FinishDecrypt
  <2>6. decrypting' \in [Threads -> Decryption \cup {None}]
    BY <1>7 DEF FinishDecrypt
  <2> QED
    BY <1>7, <2>4, <2>5, <2>6 DEF FinishDecrypt
<1>8. ASSUME NEW t \in Threads, RefuseDecrypt(t) PROVE TypeOK'
    BY <1>8 DEF RefuseDecrypt
<1>9. CASE UNCHANGED vars
    BY <1>9 DEF vars
<1> QED
    BY <1>1, <1>2, <1>3, <1>4, <1>5, <1>6, <1>7, <1>8, <1>9 DEF Next

\* A step that hands out no plaintext and moves no window keeps them matched.
LEMMA MatchStutters ==
    ASSUME WindowMatchesDeliveries, UNCHANGED <<window, deliveries>>
    PROVE  WindowMatchesDeliveries'
BY DEF WindowMatchesDeliveries, Accepted

\* The step that hands out a plaintext: it was not handed out before, and its
\* window learns its counter.
LEMMA FinishMatches ==
    ASSUME TypeOK, WindowMatchesDeliveries, NEW t \in Threads,
           FinishDecrypt(t), decrypting[t].frame.to = Owner[t]
    PROVE  /\ WindowMatchesDeliveries'
           /\ deliveries[decrypting[t].frame] = 0
<1> DEFINE f == decrypting[t].frame
           p == Owner[t]
           w == window[p][f.gen]
<1>1. /\ f \in Frame /\ p \in Peers /\ f.to = p
      /\ f.gen \in Gens /\ f.seq \in Seqs
    BY SessionAssumption DEF TypeOK, FinishDecrypt, Decryption, Frame
<1>2. w \in Window /\ Remembers(w, Accepted(p, f.gen)) /\ Check(w, f.seq)
    BY <1>1 DEF TypeOK, WindowMatchesDeliveries, FinishDecrypt
<1>3. Accepted(p, f.gen) \in SUBSET Nat /\ f.seq \in Nat
    BY <1>1 DEF Accepted, Seqs
<1>4. /\ f.seq \notin Accepted(p, f.gen)
      /\ Remembers(Add(w, f.seq), Accepted(p, f.gen) \cup {f.seq})
  <2> PICK v, acc, s : v = w /\ acc = Accepted(p, f.gen) /\ s = f.seq
    OBVIOUS
  <2>1. v \in Window /\ acc \in SUBSET Nat /\ s \in Nat /\ Remembers(v, acc) /\ Check(v, s)
    BY <1>2, <1>3
  <2>2. s \notin acc /\ Remembers(Add(v, s), acc \cup {s})
    BY <2>1, AddRemembers
  <2> QED
    BY <2>2
<1>5. f = [to |-> p, gen |-> f.gen, seq |-> f.seq]
    BY <1>1 DEF Frame
<1>6. deliveries[f] = 0
    BY <1>1, <1>4, <1>5 DEF Accepted, TypeOK
<1>7. ASSUME NEW q \in Peers, NEW g \in Gens
      PROVE  Remembers(window'[q][g], Accepted(q, g)')
  <2>1. CASE q = p /\ g = f.gen
    <3>1. window'[q][g] = Add(w, f.seq)
      BY <1>1, <2>1 DEF FinishDecrypt, TypeOK
    <3>2. Accepted(q, g)' = Accepted(q, g) \cup {f.seq}
      <4>1. ASSUME NEW s \in Seqs
            PROVE  deliveries'[[to |-> q, gen |-> g, seq |-> s]] > 0
                    <=> deliveries[[to |-> q, gen |-> g, seq |-> s]] > 0
                        \/ s = f.seq
        <5> DEFINE h == [to |-> q, gen |-> g, seq |-> s]
        <5>1. h \in Frame /\ (h = f <=> s = f.seq)
          BY <1>1, <1>5, <2>1 DEF Frame
        <5>2. deliveries'[h] = IF h = f THEN deliveries[f] + 1 ELSE deliveries[h]
          BY <1>1, <5>1 DEF FinishDecrypt, TypeOK
        <5> QED
          BY <1>6, <5>1, <5>2 DEF TypeOK
      <4> QED
        BY <1>1, <4>1 DEF Accepted
    <3> QED
      BY <1>4, <2>1, <3>1, <3>2
  <2>2. CASE ~(q = p /\ g = f.gen)
    <3>1. window'[q][g] = window[q][g]
      BY <1>1, <2>2 DEF FinishDecrypt, TypeOK
    <3>2. ASSUME NEW s \in Seqs
          PROVE  deliveries'[[to |-> q, gen |-> g, seq |-> s]]
                    = deliveries[[to |-> q, gen |-> g, seq |-> s]]
      <4>1. [to |-> q, gen |-> g, seq |-> s] # f
        BY <2>2, <1>1
      <4>2. [to |-> q, gen |-> g, seq |-> s] \in Frame
        BY DEF Frame
      <4> QED
        BY <4>1, <4>2, <1>1 DEF FinishDecrypt, TypeOK
    <3>3. Accepted(q, g)' = Accepted(q, g)
      BY <3>2 DEF Accepted
    <3> QED
      BY <3>1, <3>3 DEF WindowMatchesDeliveries
  <2> QED
    BY <2>1, <2>2
<1> QED
    BY <1>6, <1>7 DEF WindowMatchesDeliveries

\* Sealing, the only step that adds frames, advances the counter first.
LEMMA NetworkStep == TypeOK /\ NetworkIsPast /\ [Next]_vars => NetworkIsPast'
<1> SUFFICES ASSUME TypeOK, NetworkIsPast, [Next]_vars PROVE NetworkIsPast'
    OBVIOUS
<1> USE SessionAssumption, NoneAssumption DEF NetworkIsPast, mgrVars
<1>1. CASE Tick
    BY <1>1 DEF Tick
<1>2. ASSUME NEW p \in Peers, NEW g \in Gens, Handshake(p, g)
      PROVE  NetworkIsPast'
    BY <1>2 DEF Handshake
<1>3. ASSUME NEW p \in Peers, NEW g \in Gens, RotateKeys(p, g)
      PROVE  NetworkIsPast'
    BY <1>3 DEF RotateKeys
<1>4. ASSUME NEW p \in Senders, EncryptPacket(p) PROVE NetworkIsPast'
  <2>1. p \in Peers /\ active[p] \in Gens
    BY <1>4 DEF EncryptPacket, TypeOK, MaybeGen
  <2>2. sendNonce'[p][active[p]] = sendNonce[p][active[p]] + 1
    BY <1>4, <2>1 DEF EncryptPacket, TypeOK
  <2>3. ASSUME NEW q \in Peers, NEW g \in Gens
        PROVE  /\ sendNonce[q][g] \in Nat /\ sendNonce'[q][g] \in Nat
               /\ sendNonce'[q][g] >= sendNonce[q][g]
    BY <1>4, <2>1 DEF EncryptPacket, TypeOK, Seqs
  <2>4. ASSUME NEW f \in net PROVE f.seq < sendNonce'[Other(f.to)][f.gen]
    <3>1. Other(f.to) \in Peers /\ f.gen \in Gens /\ f.seq \in Nat
      BY OtherIsPeer DEF TypeOK, Frame, Seqs
    <3>2. f.seq < sendNonce[Other(f.to)][f.gen]
      OBVIOUS
    <3> HIDE DEF NetworkIsPast
    <3> QED
      BY <2>3, <3>1, <3>2
  <2>5. ASSUME NEW f \in net' PROVE f.seq < sendNonce'[Other(f.to)][f.gen]
    BY <1>4, <2>1, <2>2, <2>4, OtherIsPeer DEF EncryptPacket, TypeOK, Seqs
  <2> QED
    BY <1>4, <2>5 DEF EncryptPacket
<1>5. ASSUME NEW p \in Peers, Close(p) PROVE NetworkIsPast'
    BY <1>5 DEF Close
<1>6. ASSUME NEW t \in Threads, Arrive(t) PROVE NetworkIsPast'
  <2>1. CASE \E f \in net : BeginDecrypt(t, f, TRUE)
    BY <2>1 DEF BeginDecrypt, TypeOK
  <2>2. CASE \E f \in net, seq \in Seqs :
                BeginDecrypt(t, [f EXCEPT !.seq = seq], FALSE)
    BY <2>2 DEF BeginDecrypt, TypeOK
  <2> QED
    BY <1>6, <2>1, <2>2 DEF Arrive
<1>7. ASSUME NEW t \in Threads, FinishDecrypt(t) PROVE NetworkIsPast'
    BY <1>7 DEF FinishDecrypt, TypeOK
<1>8. ASSUME NEW t \in Threads, RefuseDecrypt(t) PROVE NetworkIsPast'
    BY <1>8 DEF RefuseDecrypt, TypeOK
<1>9. CASE UNCHANGED vars
    BY <1>9 DEF vars
<1> QED
    BY <1>1, <1>2, <1>3, <1>4, <1>5, <1>6, <1>7, <1>8, <1>9 DEF Next

\* Only FinishDecrypt moves a window or hands out a plaintext.
LEMMA OnlyFinishDelivers ==
    ASSUME [Next]_vars
    PROVE  \/ UNCHANGED <<window, deliveries>>
           \/ \E t \in Threads : FinishDecrypt(t)
BY DEF Next, vars, mgrVars, Tick, Handshake, RotateKeys, EncryptPacket, Close,
       Arrive, BeginDecrypt, RefuseDecrypt

\* The invariant is inductive.
LEMMA StepIInv == IInv /\ [Next]_vars => IInv'
<1> SUFFICES ASSUME IInv, [Next]_vars PROVE IInv'
    OBVIOUS
<1>1. TypeOK' /\ NetworkIsPast'
    BY TypeStep, NetworkStep DEF IInv
<1>2. CASE UNCHANGED <<window, deliveries>>
    BY <1>1, <1>2, MatchStutters DEF IInv, DeliveredOnce
<1>3. ASSUME NEW t \in Threads, FinishDecrypt(t) PROVE IInv'
  <2>1. decrypting[t].frame.to = Owner[t]
    BY <1>3 DEF IInv, NetworkIsPast, FinishDecrypt
  <2>2. WindowMatchesDeliveries' /\ deliveries[decrypting[t].frame] = 0
    BY <1>3, <2>1, FinishMatches DEF IInv
  <2>3. DeliveredOnce'
    BY <1>3, <2>2 DEF IInv, DeliveredOnce, FinishDecrypt, TypeOK
  <2> QED
    BY <1>1, <2>2, <2>3 DEF IInv
<1> QED
    BY <1>2, <1>3, OnlyFinishDelivers

\* In every reachable state the variables are well-typed, every window is the
\* memory of exactly the plaintexts handed out, and no frame was opened twice.
THEOREM SessionInvariant == Spec => []IInv
BY InitIInv, StepIInv, PTL DEF Spec

\* The session manager's fields keep their types: no window reaches past its
\* bitmap and no half is installed that was not negotiated.
THEOREM SessionTypes == Spec => []TypeOK
BY SessionInvariant, PTL DEF IInv

\* However DecryptPacket calls interleave with each other, with rotation and
\* with closing, each window remembers exactly what was delivered under it.
THEOREM WindowsMatch == Spec => []WindowMatchesDeliveries
BY SessionInvariant, PTL DEF IInv

\* No frame inside the window is dropped as a replay before it was delivered.
THEOREM FreshFramesPass == Spec => []NoFalseReplay
<1>1. IInv => NoFalseReplay
  <2> SUFFICES ASSUME IInv, NEW f \in net, deliveries[f] = 0,
                      f.seq > window[f.to][f.gen].maxSeq - WindowSizeBits
               PROVE  Check(window[f.to][f.gen], f.seq)
    BY DEF NoFalseReplay
  <2> DEFINE acc == Accepted(f.to, f.gen)
  <2>1. /\ f \in Frame /\ f.to \in Peers /\ f.gen \in Gens /\ f.seq \in Seqs
        /\ f = [to |-> f.to, gen |-> f.gen, seq |-> f.seq]
    BY DEF IInv, TypeOK, Frame
  <2>2. window[f.to][f.gen] \in Window /\ Remembers(window[f.to][f.gen], acc)
    BY <2>1 DEF IInv, TypeOK, WindowMatchesDeliveries
  <2>3. acc \in SUBSET Nat /\ f.seq \in Nat /\ f.seq \notin acc
    BY <2>1 DEF Accepted, Seqs
  <2> QED
    BY <2>2, <2>3, RefusesOnlyReplays
<1> QED
    BY <1>1, SessionInvariant, PTL

\* The initial state and every step of the session, seen as a channel.
LEMMA ChannelStep == IInv /\ [Next]_vars => [Channel!Next]_<<net, deliveries>>
<1> SUFFICES ASSUME IInv, [Next]_vars
             PROVE  [Channel!Next]_<<net, deliveries>>
    OBVIOUS
<1> USE SessionAssumption DEF IInv
<1>1. ASSUME NEW p \in Senders, EncryptPacket(p) PROVE Channel!Next
  <2> DEFINE f == [to |-> Other(p), gen |-> active[p],
                   seq |-> sendNonce[p][active[p]]]
  <2>1. p \in Peers /\ active[p] \in Gens
    BY <1>1 DEF EncryptPacket, TypeOK, MaybeGen
  <2>2. f \in Frame
    BY <2>1, OtherIsPeer DEF Frame, TypeOK
  <2>3. f \notin net
    <3>1. Other(f.to) = p
      BY <2>1, OtherIsPeer
    <3>2. sendNonce[p][active[p]] \in Nat
      BY <2>1 DEF TypeOK, Seqs
    <3> QED
      BY <3>1, <3>2 DEF NetworkIsPast
  <2>4. Channel!Send(f)
    BY <1>1, <2>3 DEF EncryptPacket, Channel!Send
  <2> QED
    BY <2>2, <2>4 DEF Channel!Next
<1>2. ASSUME NEW t \in Threads, FinishDecrypt(t) PROVE Channel!Next
  <2> DEFINE f == decrypting[t].frame
  <2>1. f \in net /\ f \in Frame /\ f.to = Owner[t]
    BY <1>2 DEF FinishDecrypt, Opens, NetworkIsPast, TypeOK
  <2>2. deliveries[f] = 0
    BY <1>2, <2>1, FinishMatches
  <2>3. Channel!Deliver(f)
    BY <1>2, <2>1, <2>2 DEF FinishDecrypt, Channel!Deliver
  <2> QED
    BY <2>1, <2>3 DEF Channel!Next
<1>3. \/ UNCHANGED <<net, deliveries>>
      \/ \E p \in Senders : EncryptPacket(p)
      \/ \E t \in Threads : FinishDecrypt(t)
    BY DEF Next, vars, mgrVars, Tick, Handshake, RotateKeys, Close,
           Arrive, BeginDecrypt, RefuseDecrypt
<1> QED
    BY <1>1, <1>2, <1>3

\* The session implements the at-most-once channel: a plaintext is handed out
\* only if the peer sealed its frame, and at most once, whatever the network
\* repeats, reorders, loses or damages.
THEOREM SessionImplementsChannel == Spec => ImplementsChannel
<1>1. Init => Channel!Init
    BY DEF Init, Channel!Init
<1>2. IInv /\ [Next]_vars => [Channel!Next]_<<net, deliveries>>
    BY ChannelStep
<1> QED
    BY <1>1, <1>2, SessionInvariant, PTL DEF Spec, Channel!Spec, ImplementsChannel

-----------------------------------------------------------------------------
\* A manager never has the same half twice, so retiring one wipes no other.
HalvesDiffer ==
    \A p \in Peers : active[p] # None => active[p] # previous[p]

KInv == TypeOK /\ KeysInUseIntact /\ HalvesDiffer

\* The invariant about keys is inductive.
LEMMA StepKInv == KInv /\ [Next]_vars => KInv'
<1> SUFFICES ASSUME KInv, [Next]_vars PROVE KInv'
    OBVIOUS
<1>0. TypeOK'
    BY TypeStep DEF KInv
<1> USE SessionAssumption, NoneAssumption
        DEF KInv, KeysInUseIntact, HalvesDiffer, mgrVars
<1>1. CASE Tick
    BY <1>0, <1>1 DEF Tick
<1>2. ASSUME NEW p \in Peers, NEW g \in Gens, Handshake(p, g) PROVE KInv'
    BY <1>0, <1>2 DEF Handshake
<1>3. ASSUME NEW p \in Peers, NEW g \in Gens, RotateKeys(p, g) PROVE KInv'
  <2>1. HalvesDiffer'
    BY <1>3 DEF RotateKeys, TypeOK
  <2>2. ASSUME NEW q \in Peers
        PROVE  {active'[q], previous'[q]} \cap wiped'[q] = {}
    <3>1. None \notin wiped[q]
      BY DEF TypeOK, Gens
    <3>2. CASE q = p
      BY <1>3, <3>1, <3>2 DEF RotateKeys, TypeOK
    <3>3. CASE q # p
      BY <1>3, <3>3 DEF RotateKeys, TypeOK
    <3> QED
      BY <3>2, <3>3
  <2>3. ASSUME NEW t \in Threads, decrypting'[t] # None
        PROVE  decrypting'[t].frame.gen \notin wiped'[Owner[t]]
    <3>1. decrypting[t] # None /\ Owner[t] # p
      BY <1>3, <2>3 DEF RotateKeys, Readers
    <3> QED
      BY <1>3, <3>1 DEF RotateKeys, TypeOK
  <2> QED
    BY <1>0, <2>1, <2>2, <2>3
<1>4. ASSUME NEW p \in Senders, EncryptPacket(p) PROVE KInv'
    BY <1>0, <1>4 DEF EncryptPacket
<1>5. ASSUME NEW p \in Peers, Close(p) PROVE KInv'
  <2>1. HalvesDiffer'
    BY <1>5 DEF Close, TypeOK
  <2>2. ASSUME NEW q \in Peers
        PROVE  {active'[q], previous'[q]} \cap wiped'[q] = {}
    <3>1. None \notin wiped[q]
      BY DEF TypeOK, Gens
    <3>2. CASE q = p
      BY <1>5, <3>1, <3>2 DEF Close, TypeOK
    <3>3. CASE q # p
      BY <1>5, <3>3 DEF Close, TypeOK
    <3> QED
      BY <3>2, <3>3
  <2>3. ASSUME NEW t \in Threads, decrypting'[t] # None
        PROVE  decrypting'[t].frame.gen \notin wiped'[Owner[t]]
    <3>1. decrypting[t] # None /\ Owner[t] # p
      BY <1>5, <2>3 DEF Close, Readers
    <3> QED
      BY <1>5, <3>1 DEF Close, TypeOK
  <2> QED
    BY <1>0, <2>1, <2>2, <2>3
<1>6. ASSUME NEW t \in Threads, Arrive(t) PROVE KInv'
  <2>1. PICK f \in Frame, intact \in BOOLEAN : BeginDecrypt(t, f, intact)
    BY <1>6 DEF Arrive, Frame, TypeOK
  <2>2. f.gen \notin wiped[Owner[t]]
    BY <2>1 DEF BeginDecrypt, Routes
  <2>3. \A u \in Threads : decrypting'[u] # None =>
            decrypting'[u].frame.gen \notin wiped[Owner[u]]
    BY <2>1, <2>2 DEF BeginDecrypt, TypeOK
  <2> QED
    BY <1>0, <2>1, <2>3 DEF BeginDecrypt
<1>7. ASSUME NEW t \in Threads, FinishDecrypt(t) PROVE KInv'
    BY <1>0, <1>7 DEF FinishDecrypt, TypeOK
<1>8. ASSUME NEW t \in Threads, RefuseDecrypt(t) PROVE KInv'
    BY <1>0, <1>8 DEF RefuseDecrypt, TypeOK
<1>9. CASE UNCHANGED vars
    BY <1>0, <1>9 DEF vars
<1> QED
    BY <1>1, <1>2, <1>3, <1>4, <1>5, <1>6, <1>7, <1>8, <1>9 DEF Next

\* RotateKeys and Close overwrite only keys that nobody holds any more.
THEOREM KeysIntact == Spec => []KeysInUseIntact
<1>1. Init => KInv
  <2> SUFFICES ASSUME Init PROVE KInv
    OBVIOUS
  <2>1. TypeOK
    BY InitIInv DEF IInv
  <2>2. 1 # None
    BY NoneAssumption
  <2> QED
    BY <2>1, <2>2 DEF Init, KInv, KeysInUseIntact, HalvesDiffer
<1>2. KInv => KeysInUseIntact
    BY DEF KInv
<1> QED
    BY <1>1, <1>2, StepKInv, PTL DEF Spec
-----------------------------------------------------------------------------
(* 4. The relay.                                                           *)
(*                                                                         *)
(* That a frame is of its type where it is used depends on where both ends *)
(* are: until the relay has read the registration there is nothing else on *)
(* the connection (Greeting), and nothing is routed to it (RoutesAreOpen,  *)
(* NoGhostSessions).                                                       *)
(*                                                                         *)
(* A packet passes from its sender's queue to the hands of RouteForward,   *)
(* to the receiver's queue and to the receiver's handler.  The invariant   *)
(* of the order is that at each of these places, and from each to the one  *)
(* before it, packets of one sender have rising numbers.  That a frame     *)
(* goes to the key it is meant for rests on NoGhostSessions.               *)
Greeted(c) == server[c] \notin {"idle", "upgraded"}
SendFrames == [type : {"send"}, payload : Packet]

Undialed == \A c \in Conns : link[c] = "none" => server[c] = "idle" /\ client[c] = "idle"
Greeting == \A c \in Conns :
  /\ ~Greeted(c) => client[c] # "up" /\ toClient[c] = <<>>
  /\ server[c] = "idle" => toServer[c] = <<>> /\ client[c] = "idle"
  /\ server[c] = "upgraded" => toServer[c] \in {<<>>, <<[type |-> "info"]>>}
  /\ Greeted(c) => toServer[c] \in Seq(SendFrames)
RoutesAreOpen == \A c \in Conns : routing[c] # NoRoute => Greeted(routing[c].dest)

RelayIInv == RelayTypeOK /\ Undialed /\ Greeting /\ RoutesAreOpen /\ NoGhostSessions
-----------------------------------------------------------------------------
\* What is left of a queue after a read, a write and a break.
LEMMA TailTypes ==
  ASSUME NEW S, NEW q \in Seq(S), q # <<>>
  PROVE  Head(q) \in S /\ Tail(q) \in Seq(S)
BY HeadTailProperties

LEMMA PrefixTypes ==
  ASSUME NEW S, NEW q \in Seq(S), NEW s \in Prefixes(q)
  PROVE  s \in Seq(S)
BY LenProperties, SubSeqProperties DEF Prefixes

LEMMA EmptyPrefix ==
  ASSUME NEW s \in Prefixes(<<>>)
  PROVE  s = <<>>
BY DEF Prefixes

LEMMA FrameTypes ==
  /\ SendFrames \subseteq RelayFrame /\ [type |-> "info"] \in RelayFrame /\ [type |-> "ack"] \in RelayFrame
  /\ \A c \in Conns, p \in Packet : RecvFrame(c, p) \in RelayFrame
BY DerpAssumption DEF SendFrames, RelayFrame, RecvFrame

\* What RouteForward has looked up is a connection and a frame for it.
LEMMA RoutedTypes ==
  ASSUME RelayTypeOK, NEW c \in Conns, routing[c] # NoRoute
  PROVE  routing[c].dest \in Conns /\ routing[c].frame \in RelayFrame
BY DEF RelayTypeOK

\* A write to a queue of frames, whatever comes of it.
LEMMA SendFrameTypes ==
  ASSUME RelayTypeOK, NEW d \in Conns, NEW f \in RelayFrame, NEW ok, SendFrame(d, f, ok)
  PROVE  /\ toClient' \in [Conns -> Seq(RelayFrame)]
         /\ \A e \in Conns : e # d => toClient'[e] = toClient[e]
<1>1. Append(toClient[d], f) \in Seq(RelayFrame) /\ toClient \in [Conns -> Seq(RelayFrame)]
  BY AppendProperties DEF RelayTypeOK
<1>2. UNCHANGED toClient \/ toClient' = [toClient EXCEPT ![d] = Append(toClient[d], f)]
  BY DEF SendFrame, Queue
<1> QED
  BY <1>1, <1>2

LEMMA InitRelay == RelayInit => RelayIInv
<1> SUFFICES ASSUME RelayInit PROVE RelayIInv
  OBVIOUS
<1>1. RelayTypeOK
  BY DerpAssumption, EmptySeq DEF RelayInit, RelayTypeOK
<1> QED
  BY <1>1, DerpAssumption DEF RelayInit, RelayIInv, Undialed, Greeting, RoutesAreOpen, NoGhostSessions, Greeted
-----------------------------------------------------------------------------

\* A connection is dialed: it had been idle.
LEMMA DialIInv ==
  ASSUME RelayIInv, NEW c \in Conns, Dial(c)
  PROVE  RelayIInv'
<1>1. RelayTypeOK'
  BY FrameTypes DEF RelayIInv, RelayTypeOK, Dial
<1>2. Undialed'
  BY DEF RelayIInv, RelayTypeOK, Undialed, Greeting, Greeted, Dial
<1>3. Greeting'
  BY FrameTypes DEF RelayIInv, RelayTypeOK, Undialed, Greeting, Greeted, Dial
<1>4. RoutesAreOpen'
  BY RoutedTypes DEF RelayIInv, RelayTypeOK, Undialed, RoutesAreOpen, Greeted, Dial
<1>5. NoGhostSessions'
  <2>1. \A k \in Keys : sessions[k] # NoConn => sessions[k] # c
    BY DEF RelayIInv, Undialed, NoGhostSessions, Dial
  <2> QED
    BY <2>1 DEF RelayIInv, RelayTypeOK, NoGhostSessions, Dial
<1> QED
  BY <1>1, <1>2, <1>3, <1>4, <1>5 DEF RelayIInv

\* Connect reads a first frame.
LEMMA ReadAckIInv ==
  ASSUME RelayIInv, NEW c \in Conns, ReadAck(c)
  PROVE  RelayIInv'
<1>1. RelayTypeOK'
  <2>1. Tail(toClient[c]) \in Seq(RelayFrame)
    BY TailTypes DEF RelayIInv, RelayTypeOK, ReadAck
  <2> QED
    BY <2>1 DEF RelayIInv, RelayTypeOK, ReadAck
<1>2. Undialed'
  BY DEF RelayIInv, RelayTypeOK, Undialed, Greeting, Greeted, ReadAck
<1>3. Greeting'
  BY FrameTypes, TailTypes DEF RelayIInv, RelayTypeOK, Undialed, Greeting, Greeted, ReadAck
<1>4. RoutesAreOpen' /\ NoGhostSessions'
  BY DEF RelayIInv, RelayTypeOK, Undialed, RoutesAreOpen, NoGhostSessions, Greeted, ReadAck
<1> QED
  BY <1>1, <1>2, <1>3, <1>4 DEF RelayIInv

\* readLoop reads a frame.
LEMMA ReceiveIInv ==
  ASSUME RelayIInv, NEW c \in Conns, Receive(c)
  PROVE  RelayIInv'
<1>1. RelayTypeOK'
  BY FrameTypes, TailTypes DEF RelayIInv, RelayTypeOK, Receive
<1>2. Undialed'
  BY DEF RelayIInv, RelayTypeOK, Undialed, Greeting, Greeted, Receive
<1>3. Greeting'
  BY FrameTypes, TailTypes DEF RelayIInv, RelayTypeOK, Undialed, Greeting, Greeted, Receive
<1>4. RoutesAreOpen' /\ NoGhostSessions'
  BY DEF RelayIInv, RelayTypeOK, Undialed, RoutesAreOpen, NoGhostSessions, Greeted, Receive
<1> QED
  BY <1>1, <1>2, <1>3, <1>4 DEF RelayIInv

\* A client that is connected has been registered, so what it sends is pumped.
LEMMA SendToIInv ==
  ASSUME RelayIInv, NEW c \in Conns, NEW k \in Keys, SendTo(c, k)
  PROVE  RelayIInv'
<1> DEFINE f == [type |-> "send", payload |-> [from |-> c, dest |-> k, id |-> sent + 1]]
<1>0. f \in SendFrames /\ Greeted(c)
  BY DerpAssumption DEF RelayIInv, RelayTypeOK, Greeting, SendTo, SendFrames, Packet
<1> HIDE DEF f
<1>1. RelayTypeOK'
  <2>1. Append(toServer[c], f) \in Seq(RelayFrame)
    BY <1>0, FrameTypes, AppendProperties DEF RelayIInv, RelayTypeOK
  <2> QED
    BY <2>1, DerpAssumption DEF RelayIInv, RelayTypeOK, SendTo, f
<1>2. Undialed'
  BY DEF RelayIInv, RelayTypeOK, Undialed, Greeting, Greeted, SendTo
<1>3. Greeting'
  <2>1. Append(toServer[c], f) \in Seq(SendFrames)
    BY <1>0, AppendProperties DEF RelayIInv, Greeting
  <2> QED
    BY <1>0, <2>1 DEF RelayIInv, RelayTypeOK, Greeting, Greeted, SendTo, f
<1>4. RoutesAreOpen' /\ NoGhostSessions'
  BY DEF RelayIInv, RelayTypeOK, Undialed, RoutesAreOpen, NoGhostSessions, Greeted, SendTo
<1> QED
  BY <1>1, <1>2, <1>3, <1>4 DEF RelayIInv

\* A client closes its connection.
LEMMA CloseIInv ==
  ASSUME RelayIInv, NEW c \in Conns, CloseClient(c)
  PROVE  RelayIInv'
<1>1. RelayTypeOK'
  BY FrameTypes DEF RelayIInv, RelayTypeOK, CloseClient
<1>2. Undialed'
  BY DEF RelayIInv, RelayTypeOK, Undialed, Greeting, Greeted, CloseClient
<1>3. Greeting'
  BY FrameTypes DEF RelayIInv, RelayTypeOK, Undialed, Greeting, Greeted, CloseClient
<1>4. RoutesAreOpen' /\ NoGhostSessions'
  BY DEF RelayIInv, RelayTypeOK, Undialed, RoutesAreOpen, NoGhostSessions, Greeted, CloseClient
<1> QED
  BY <1>1, <1>2, <1>3, <1>4 DEF RelayIInv

\* A client notices the break.
LEMMA ClientEndsIInv ==
  ASSUME RelayIInv, NEW c \in Conns, ClientEnds(c)
  PROVE  RelayIInv'
<1>1. RelayTypeOK'
  BY FrameTypes DEF RelayIInv, RelayTypeOK, ClientEnds
<1>2. Undialed'
  BY DEF RelayIInv, RelayTypeOK, Undialed, Greeting, Greeted, ClientEnds
<1>3. Greeting'
  BY FrameTypes DEF RelayIInv, RelayTypeOK, Undialed, Greeting, Greeted, ClientEnds
<1>4. RoutesAreOpen' /\ NoGhostSessions'
  BY DEF RelayIInv, RelayTypeOK, Undialed, RoutesAreOpen, NoGhostSessions, Greeted, ClientEnds
<1> QED
  BY <1>1, <1>2, <1>3, <1>4 DEF RelayIInv

\* A break leaves a prefix of each queue.
LEMMA BreakIInv ==
  ASSUME RelayIInv, NEW c \in Conns, Break(c)
  PROVE  RelayIInv'
<1>1. RelayTypeOK'
  BY FrameTypes, PrefixTypes, EmptyPrefix DEF RelayIInv, RelayTypeOK, Break
<1>2. Undialed'
  BY DEF RelayIInv, RelayTypeOK, Undialed, Greeting, Greeted, Break
<1>3. Greeting'
  <2>1. toServer[c] \in Seq(SendFrames) => toServer'[c] \in Seq(SendFrames)
    BY PrefixTypes DEF RelayIInv, RelayTypeOK, Break
  <2>2. toServer[c] = <<>> => toServer'[c] = <<>>
    BY EmptyPrefix DEF RelayIInv, RelayTypeOK, Break
  <2>3. toClient[c] = <<>> => toClient'[c] = <<>>
    BY EmptyPrefix DEF RelayIInv, RelayTypeOK, Break
  <2>4. toServer[c] = <<[type |-> "info"]>> => toServer'[c] \in {<<>>, <<[type |-> "info"]>>}
    BY DEF RelayIInv, RelayTypeOK, Break, Prefixes
  <2> QED
    BY <2>1, <2>2, <2>3, <2>4 DEF RelayIInv, RelayTypeOK, Greeting, Greeted, Break
<1>4. RoutesAreOpen' /\ NoGhostSessions'
  BY DEF RelayIInv, RelayTypeOK, Undialed, RoutesAreOpen, NoGhostSessions, Greeted, Break
<1> QED
  BY <1>1, <1>2, <1>3, <1>4 DEF RelayIInv

\* The registration is the only frame there is; the session it replaces stays valid.
LEMMA RegisterIInv ==
  ASSUME RelayIInv, NEW c \in Conns, Register(c)
  PROVE  RelayIInv'
<1>1. RelayTypeOK'
  BY FrameTypes, TailTypes DEF RelayIInv, RelayTypeOK, Register
<1>2. Undialed'
  BY DEF RelayIInv, RelayTypeOK, Undialed, Greeting, Greeted, Register
<1>3. Greeting'
  <2>1. Tail(toServer[c]) = <<>>
    <3>1. toServer[c] = <<[type |-> "info"]>>
      BY DEF RelayIInv, Greeting, Register
    <3> QED
      BY <3>1
  <2>2. <<>> \in Seq(SendFrames)
    BY EmptySeq
  <2> QED
    BY <2>1, <2>2 DEF RelayIInv, RelayTypeOK, Greeting, Greeted, Register
<1>4. RoutesAreOpen' /\ NoGhostSessions'
  BY DEF RelayIInv, RelayTypeOK, Undialed, RoutesAreOpen, NoGhostSessions, Greeted, Register
<1> QED
  BY <1>1, <1>2, <1>3, <1>4 DEF RelayIInv

\* The handler gives up: it had registered nothing.
LEMMA NeverRegistersIInv ==
  ASSUME RelayIInv, NEW c \in Conns, NeverRegisters(c)
  PROVE  RelayIInv'
<1>1. RelayTypeOK'
  BY FrameTypes DEF RelayIInv, RelayTypeOK, NeverRegisters
<1>2. Undialed'
  BY DEF RelayIInv, RelayTypeOK, Undialed, Greeting, Greeted, NeverRegisters
<1>3. Greeting'
  BY FrameTypes DEF RelayIInv, RelayTypeOK, Undialed, Greeting, Greeted, NeverRegisters
<1>4. RoutesAreOpen' /\ NoGhostSessions'
  BY DEF RelayIInv, RelayTypeOK, Undialed, RoutesAreOpen, NoGhostSessions, Greeted, NeverRegisters
<1> QED
  BY <1>1, <1>2, <1>3, <1>4 DEF RelayIInv

\* The acknowledgement is queued, or lost.
LEMMA SendAckIInv ==
  ASSUME RelayIInv, NEW c \in Conns, SendAck(c)
  PROVE  RelayIInv'
<1>1. RelayTypeOK'
  BY FrameTypes, SendFrameTypes DEF RelayIInv, RelayTypeOK, SendAck
<1>2. Undialed'
  BY DEF RelayIInv, RelayTypeOK, Undialed, Greeting, Greeted, SendAck
<1>3. Greeting'
  BY FrameTypes, SendFrameTypes DEF RelayIInv, RelayTypeOK, Greeting, Greeted, SendAck
<1>4. RoutesAreOpen' /\ NoGhostSessions'
  BY DEF RelayIInv, RelayTypeOK, Undialed, RoutesAreOpen, NoGhostSessions, Greeted, SendAck
<1> QED
  BY <1>1, <1>2, <1>3, <1>4 DEF RelayIInv

\* The session found is registered at this moment.
LEMMA LookUpIInv ==
  ASSUME RelayIInv, NEW c \in Conns, LookUp(c)
  PROVE  RelayIInv'
<1>0. /\ Head(toServer[c]) \in SendFrames
      /\ Tail(toServer[c]) \in Seq(RelayFrame) /\ Tail(toServer[c]) \in Seq(SendFrames)
  BY TailTypes DEF RelayIInv, RelayTypeOK, Greeting, Greeted, LookUp
<1>1. RelayTypeOK'
  <2>1. RecvFrame(c, Head(toServer[c]).payload) \in RelayFrame /\ Head(toServer[c]).payload.dest \in Keys
    BY <1>0, FrameTypes DEF SendFrames, Packet
  <2> QED
    BY <1>0, <2>1 DEF RelayIInv, RelayTypeOK, LookUp
<1>2. Undialed'
  BY DEF RelayIInv, RelayTypeOK, Undialed, Greeting, Greeted, LookUp
<1>3. Greeting'
  BY <1>0 DEF RelayIInv, RelayTypeOK, Greeting, Greeted, LookUp
<1>4. RoutesAreOpen'
  <2>1. Head(toServer[c]).payload.dest \in Keys
    BY <1>0 DEF SendFrames, Packet
  <2>2. \A k \in Keys : sessions[k] # NoConn => sessions[k] \in Conns /\ Greeted(sessions[k])
    BY DEF RelayIInv, RelayTypeOK, NoGhostSessions, Greeted
  <2>3. routing'[c] # NoRoute => Greeted(routing'[c].dest)
    BY <2>1, <2>2 DEF RelayIInv, RelayTypeOK, LookUp
  <2> QED
    BY <2>3, RoutedTypes DEF RelayIInv, RelayTypeOK, RoutesAreOpen, Greeted, LookUp
<1>5. NoGhostSessions'
  BY DerpAssumption DEF RelayIInv, RelayTypeOK, Undialed, NoGhostSessions, Greeted, LookUp
<1> QED
  BY <1>1, <1>2, <1>3, <1>4, <1>5 DEF RelayIInv

\* The frame is queued at the session found, or lost.
LEMMA ForwardIInv ==
  ASSUME RelayIInv, NEW c \in Conns, Forward(c)
  PROVE  RelayIInv'
<1>1. RelayTypeOK'
  BY RoutedTypes, SendFrameTypes DEF RelayIInv, RelayTypeOK, Forward
<1>2. Undialed'
  BY DEF RelayIInv, RelayTypeOK, Undialed, Greeting, Greeted, Forward
<1>3. Greeting'
  BY RoutedTypes, SendFrameTypes DEF RelayIInv, RelayTypeOK, Greeting, RoutesAreOpen, Greeted, Forward
<1>4. RoutesAreOpen' /\ NoGhostSessions'
  BY DEF RelayIInv, RelayTypeOK, Undialed, RoutesAreOpen, NoGhostSessions, Greeted, Forward
<1> QED
  BY <1>1, <1>2, <1>3, <1>4 DEF RelayIInv

\* The pump ends; the session is registered still.
LEMMA PumpEndsIInv ==
  ASSUME RelayIInv, NEW c \in Conns, PumpEnds(c)
  PROVE  RelayIInv'
<1>1. RelayTypeOK'
  BY FrameTypes DEF RelayIInv, RelayTypeOK, PumpEnds
<1>2. Undialed'
  BY DEF RelayIInv, RelayTypeOK, Undialed, Greeting, Greeted, PumpEnds
<1>3. Greeting'
  BY FrameTypes DEF RelayIInv, RelayTypeOK, Undialed, Greeting, Greeted, PumpEnds
<1>4. RoutesAreOpen' /\ NoGhostSessions'
  BY DEF RelayIInv, RelayTypeOK, Undialed, RoutesAreOpen, NoGhostSessions, Greeted, PumpEnds
<1> QED
  BY <1>1, <1>2, <1>3, <1>4 DEF RelayIInv

\* Whatever was registered under the key is gone, so the session that leaves is.
LEMMA UnregisterIInv ==
  ASSUME RelayIInv, NEW c \in Conns, Unregister(c)
  PROVE  RelayIInv'
<1>1. RelayTypeOK'
  BY DerpAssumption DEF RelayIInv, RelayTypeOK, Unregister, Without
<1>2. Undialed'
  BY DEF RelayIInv, RelayTypeOK, Undialed, Greeting, Greeted, Unregister
<1>3. Greeting'
  BY FrameTypes DEF RelayIInv, RelayTypeOK, Undialed, Greeting, Greeted, Unregister
<1>4. RoutesAreOpen'
  BY RoutedTypes DEF RelayIInv, RelayTypeOK, Undialed, RoutesAreOpen, Greeted, Unregister
<1>5. NoGhostSessions'
  BY DerpAssumption DEF RelayIInv, RelayTypeOK, Undialed, NoGhostSessions, Greeted, Unregister, Without
<1> QED
  BY <1>1, <1>2, <1>3, <1>4, <1>5 DEF RelayIInv

\* A session that is closed had been unregistered.
LEMMA CloseSessionIInv ==
  ASSUME RelayIInv, NEW c \in Conns, CloseSession(c)
  PROVE  RelayIInv'
<1>1. RelayTypeOK'
  BY FrameTypes DEF RelayIInv, RelayTypeOK, CloseSession
<1>2. Undialed'
  BY DEF RelayIInv, RelayTypeOK, Undialed, Greeting, Greeted, CloseSession
<1>3. Greeting'
  BY FrameTypes DEF RelayIInv, RelayTypeOK, Undialed, Greeting, Greeted, CloseSession
<1>4. RoutesAreOpen' /\ NoGhostSessions'
  BY DEF RelayIInv, RelayTypeOK, Undialed, RoutesAreOpen, NoGhostSessions, Greeted, CloseSession
<1> QED
  BY <1>1, <1>2, <1>3, <1>4 DEF RelayIInv

\* Every step keeps IInv.
LEMMA StepRelay == RelayIInv /\ [RelayNext]_relayVars => RelayIInv'
<1> SUFFICES ASSUME RelayIInv, [RelayNext]_relayVars PROVE RelayIInv'
  OBVIOUS
<1>1. CASE UNCHANGED relayVars
  BY <1>1 DEF relayVars, RelayIInv, RelayTypeOK, Undialed, Greeting, RoutesAreOpen, NoGhostSessions, Greeted
<1>2. ASSUME NEW c \in Conns,
             \/ Dial(c) \/ ReadAck(c) \/ Receive(c) \/ CloseClient(c) \/ ClientEnds(c)
             \/ \E k \in Keys : SendTo(c, k)
             \/ Break(c)
      PROVE  RelayIInv'
  BY <1>2, DialIInv, ReadAckIInv, ReceiveIInv, CloseIInv, ClientEndsIInv, SendToIInv, BreakIInv
<1>3. ASSUME NEW c \in Conns, Serve(c)
      PROVE  RelayIInv'
  BY <1>3, RegisterIInv, NeverRegistersIInv, SendAckIInv, LookUpIInv, ForwardIInv,
     PumpEndsIInv, UnregisterIInv, CloseSessionIInv DEF Serve
<1> QED
  BY <1>1, <1>2, <1>3 DEF RelayNext

LEMMA RelayInvariant == RelaySpec => []RelayIInv
BY InitRelay, StepRelay, PTL DEF RelaySpec

\* Every variable of the relay keeps its type: above all, what is read from a
\* connection is a frame of the kind its reader takes it for.
THEOREM RelayTypes == RelaySpec => []RelayTypeOK
<1>1. RelayIInv => RelayTypeOK
  BY DEF RelayIInv
<1> QED
  BY <1>1, RelayInvariant, PTL

\* The router holds no session whose handler is past its Unregister, whatever
\* connections of one key overlap (server.go:160).
THEOREM NoGhosts == RelaySpec => []NoGhostSessions
<1>1. RelayIInv => NoGhostSessions
  BY DEF RelayIInv
<1> QED
  BY <1>1, RelayInvariant, PTL
-----------------------------------------------------------------------------
(* The order of packets *)

Items(q) == {q[i] : i \in 1 .. Len(q)}

\* If f and g are packets of one sender, f was sent earlier.
Earlier(f, g) ==
  f.type = g.type /\ f.type \in {"send", "recv"} /\ f.payload.from = g.payload.from =>
    f.payload.id < g.payload.id
InOrder(q) == \A j \in 1 .. Len(q) : \A i \in 1 .. j - 1 : Earlier(q[i], q[j])

\* What c sends is its own, and numbered as it was sent.
Outgoing(c) == \A g \in Items(toServer[c]) :
  g.type = "send" => g.payload.from = c /\ g.payload.id <= sent

\* f is ahead of all its sender still has in its queue, and in hand.
AheadOfQueue(f, a) ==
  /\ f.payload.id <= sent
  /\ \A g \in Items(toServer[a]) : g.type = "send" => f.payload.id < g.payload.id
Ahead(f) ==
  /\ AheadOfQueue(f, f.payload.from)
  /\ routing[f.payload.from] # NoRoute =>
       f.payload.id < routing[f.payload.from].frame.payload.id

Genuine(c, f) == f.payload.dest = KeyOf[c] /\ f.src = KeyOf[f.payload.from]

InHand(c) == routing[c] # NoRoute =>
  LET f == routing[c].frame IN
  /\ f.type = "recv" /\ f.payload.from = c
  /\ Genuine(routing[c].dest, f) /\ AheadOfQueue(f, c)

Incoming(c) ==
  /\ \A f \in Items(toClient[c]) \cup Items(delivered[c]) :
       f.type = "recv" => Genuine(c, f) /\ Ahead(f)
  /\ \A f \in Items(delivered[c]) : f.type = "recv"
  /\ \A f \in Items(delivered[c]), g \in Items(toClient[c]) : Earlier(f, g)

Queues(c) == InOrder(toServer[c]) /\ InOrder(toClient[c]) /\ InOrder(delivered[c])

Ordered == \A c \in Conns : Queues(c) /\ Outgoing(c) /\ InHand(c) /\ Incoming(c)
-----------------------------------------------------------------------------
\* The items of a queue after a write, a read and a break, and their order.
LEMMA AppendItems ==
  ASSUME NEW S, NEW q \in Seq(S), NEW e \in S
  PROVE  /\ Items(Append(q, e)) = Items(q) \cup {e}
         /\ InOrder(q) /\ (\A f \in Items(q) : Earlier(f, e)) => InOrder(Append(q, e))
<1> DEFINE r == Append(q, e)
<1>1. /\ r \in Seq(S) /\ Len(r) = Len(q) + 1 /\ Len(q) \in Nat
      /\ \A i \in 1 .. Len(q) : r[i] = q[i]
      /\ r[Len(q) + 1] = e
  BY AppendProperties, LenProperties
<1> HIDE DEF r
<1>2. Items(r) = Items(q) \cup {e}
  <2>1. Items(r) \subseteq Items(q) \cup {e}
    <3> SUFFICES ASSUME NEW i \in 1 .. Len(r) PROVE r[i] \in Items(q) \cup {e}
      BY DEF Items
    <3>1. CASE i = Len(q) + 1
      BY <1>1, <3>1
    <3>2. CASE i \in 1 .. Len(q)
      BY <1>1, <3>2 DEF Items
    <3> QED
      BY <1>1, <3>1, <3>2
  <2>2. Items(q) \subseteq Items(r)
    BY <1>1 DEF Items
  <2>3. e \in Items(r)
    BY <1>1 DEF Items
  <2> QED
    BY <2>1, <2>2, <2>3
<1>3. ASSUME InOrder(q), \A f \in Items(q) : Earlier(f, e)
      PROVE  InOrder(r)
  <2> SUFFICES ASSUME NEW j \in 1 .. Len(r), NEW i \in 1 .. j - 1 PROVE Earlier(r[i], r[j])
    BY DEF InOrder
  <2>1. i \in 1 .. Len(q) /\ r[i] = q[i]
    BY <1>1
  <2>2. CASE j = Len(q) + 1
    BY <1>1, <1>3, <2>1, <2>2 DEF Items
  <2>3. CASE j \in 1 .. Len(q)
    <3>1. r[j] = q[j]
      BY <1>1, <2>3
    <3> QED
      BY <1>3, <2>1, <2>3, <3>1 DEF InOrder
  <2> QED
    BY <1>1, <2>2, <2>3
<1> QED
  BY <1>2, <1>3 DEF r

LEMMA TailItems ==
  ASSUME NEW S, NEW q \in Seq(S), q # <<>>
  PROVE  /\ Head(q) \in Items(q) /\ Items(Tail(q)) \subseteq Items(q)
         /\ InOrder(q) => InOrder(Tail(q)) /\ \A g \in Items(Tail(q)) : Earlier(Head(q), g)
<1>1. /\ Len(Tail(q)) = Len(q) - 1 /\ Len(q) \in Nat \ {0}
      /\ \A i \in 1 .. Len(Tail(q)) : Tail(q)[i] = q[i + 1]
      /\ Head(q) = q[1]
  BY HeadTailProperties, EmptySeq, LenProperties
<1>2. Head(q) \in Items(q) /\ Items(Tail(q)) \subseteq Items(q)
  BY <1>1 DEF Items
<1>3. ASSUME InOrder(q), NEW j \in 1 .. Len(Tail(q))
      PROVE  /\ Earlier(Head(q), Tail(q)[j])
             /\ \A i \in 1 .. j - 1 : Earlier(Tail(q)[i], Tail(q)[j])
  BY <1>1, <1>3 DEF InOrder
<1> QED
  BY <1>2, <1>3 DEF InOrder, Items

LEMMA PrefixItems ==
  ASSUME NEW S, NEW q \in Seq(S), NEW s \in Prefixes(q)
  PROVE  Items(s) \subseteq Items(q) /\ (InOrder(q) => InOrder(s))
<1>1. PICK n \in 0 .. Len(q) : s = SubSeq(q, 1, n)
  BY DEF Prefixes
<1>2. Len(q) \in Nat /\ \A i \in 1 .. n : q[i] \in S
  BY LenProperties
<1>3. Len(s) = n /\ \A i \in 1 .. n : s[i] = q[i]
  BY <1>1, <1>2, SubSeqProperties
<1> QED
  BY <1>2, <1>3 DEF Items, InOrder

LEMMA NoItems == Items(<<>>) = {} /\ InOrder(<<>>)
BY DEF Items, InOrder
-----------------------------------------------------------------------------
\* Whatever is under way or arrived is a frame, and a packet if it says so.
LEMMA ItemTypes ==
  ASSUME RelayTypeOK, NEW d \in Conns
  PROVE  /\ Items(toServer[d]) \cup Items(toClient[d]) \cup Items(delivered[d]) \subseteq RelayFrame
         /\ routing[d] # NoRoute => routing[d].dest \in Conns /\ routing[d].frame \in RelayFrame
<1>1. \A q \in Seq(RelayFrame) : Items(q) \subseteq RelayFrame
  BY ElementOfSeq DEF Items
<1> QED
  BY <1>1, RoutedTypes DEF RelayTypeOK

LEMMA PacketTypes ==
  ASSUME NEW f \in RelayFrame, f.type \in {"send", "recv"}
  PROVE  f.payload \in Packet /\ f.payload.from \in Conns /\ f.payload.id \in Int
BY DerpAssumption DEF RelayFrame, Packet

LEMMA InitOrdered == RelayInit => Ordered
BY NoItems DEF RelayInit, Ordered, Queues, Outgoing, InHand, Incoming

\* A step by which queues only lose packets keeps the order.
LEMMA FewerOrdered ==
  ASSUME RelayIInv, Ordered,
         \A d \in Conns :
           /\ \A g \in Items(toServer'[d]) : g \in Items(toServer[d]) \/ g.type = "info"
           /\ \A g \in Items(toClient'[d]) : g \in Items(toClient[d]) \/ g.type = "ack"
           /\ InOrder(toServer'[d]) /\ InOrder(toClient'[d]),
         UNCHANGED <<routing, sent, delivered>>
  PROVE  Ordered'
<1> SUFFICES ASSUME NEW d \in Conns
             PROVE  Queues(d)' /\ Outgoing(d)' /\ InHand(d)' /\ Incoming(d)'
  BY DEF Ordered
<1>1. Queues(d)'
  BY DEF Ordered, Queues
<1>2. Outgoing(d)'
  BY DEF Ordered, Outgoing
<1>3. InHand(d)'
  BY DEF Ordered, InHand, AheadOfQueue, Genuine
<1>4. Incoming(d)'
  <2>1. ASSUME NEW f \in Items(toClient'[d]) \cup Items(delivered'[d]), f.type = "recv"
        PROVE  Genuine(d, f)' /\ Ahead(f)'
    <3>1. f \in Items(toClient[d]) \cup Items(delivered[d])
      BY <2>1
    <3>2. Genuine(d, f) /\ Ahead(f) /\ f.payload.from \in Conns
      BY <2>1, <3>1, ItemTypes, PacketTypes DEF RelayIInv, Ordered, Incoming
    <3> QED
      BY <3>2 DEF Genuine, Ahead, AheadOfQueue
  <2>2. \A f \in Items(delivered'[d]) : f.type = "recv"
    BY DEF Ordered, Incoming
  <2>3. \A f \in Items(delivered'[d]), g \in Items(toClient'[d]) : Earlier(f, g)
    BY DEF Ordered, Incoming, Earlier
  <2> QED
    BY <2>1, <2>2, <2>3 DEF Incoming
<1> QED
  BY <1>1, <1>2, <1>3, <1>4

\* The network, registrations and acknowledgements deliver nothing out of turn.
LEMMA QuietOrdered ==
  ASSUME RelayIInv, Ordered, NEW c \in Conns,
         \/ CloseClient(c) \/ ClientEnds(c) \/ NeverRegisters(c) \/ PumpEnds(c)
         \/ Unregister(c) \/ CloseSession(c)
  PROVE  Ordered'
<1>1. UNCHANGED <<toServer, toClient, routing, sent, delivered>>
  BY DEF CloseClient, ClientEnds, NeverRegisters, PumpEnds, Unregister, CloseSession
<1> QED
  BY <1>1, FewerOrdered DEF Ordered, Queues

LEMMA DialOrdered ==
  ASSUME RelayIInv, Ordered, NEW c \in Conns, Dial(c)
  PROVE  Ordered'
<1> DEFINE q == <<[type |-> "info"]>>
<1>1. InOrder(q) /\ \A g \in Items(q) : g.type = "info"
  BY DEF InOrder, Items
<1> HIDE DEF q
<1>2. \A d \in Conns : toServer'[d] = IF d = c THEN q ELSE toServer[d]
  BY DEF Dial, q, RelayIInv, RelayTypeOK
<1> QED
  BY <1>1, <1>2, FewerOrdered DEF Dial, Ordered, Queues

LEMMA BreakOrdered ==
  ASSUME RelayIInv, Ordered, NEW c \in Conns, Break(c)
  PROVE  Ordered'
<1>1. ASSUME NEW d \in Conns
      PROVE  /\ toServer'[d] = toServer[d] \/ toServer'[d] \in Prefixes(toServer[d])
             /\ toClient'[d] = toClient[d] \/ toClient'[d] \in Prefixes(toClient[d])
  BY DEF Break, RelayIInv, RelayTypeOK
<1>2. ASSUME NEW d \in Conns
      PROVE  /\ Items(toServer'[d]) \subseteq Items(toServer[d]) /\ InOrder(toServer'[d])
             /\ Items(toClient'[d]) \subseteq Items(toClient[d]) /\ InOrder(toClient'[d])
  BY <1>1, PrefixItems DEF RelayIInv, RelayTypeOK, Ordered, Queues
<1> QED
  BY <1>2, FewerOrdered DEF Break

LEMMA ReadAckOrdered ==
  ASSUME RelayIInv, Ordered, NEW c \in Conns, ReadAck(c)
  PROVE  Ordered'
<1>1. \A d \in Conns : toClient'[d] = IF d = c THEN Tail(toClient[c]) ELSE toClient[d]
  BY DEF ReadAck, RelayIInv, RelayTypeOK
<1>2. Items(Tail(toClient[c])) \subseteq Items(toClient[c]) /\ InOrder(Tail(toClient[c]))
  BY TailItems DEF ReadAck, RelayIInv, RelayTypeOK, Ordered, Queues
<1> QED
  BY <1>1, <1>2, FewerOrdered DEF ReadAck, Ordered, Queues

LEMMA RegisterOrdered ==
  ASSUME RelayIInv, Ordered, NEW c \in Conns, Register(c)
  PROVE  Ordered'
<1>1. \A d \in Conns : toServer'[d] = IF d = c THEN Tail(toServer[c]) ELSE toServer[d]
  BY DEF Register, RelayIInv, RelayTypeOK
<1>2. Items(Tail(toServer[c])) \subseteq Items(toServer[c]) /\ InOrder(Tail(toServer[c]))
  BY TailItems DEF Register, RelayIInv, RelayTypeOK, Ordered, Queues
<1> QED
  BY <1>1, <1>2, FewerOrdered DEF Register, Ordered, Queues

LEMMA SendAckOrdered ==
  ASSUME RelayIInv, Ordered, NEW c \in Conns, SendAck(c)
  PROVE  Ordered'
<1> DEFINE f == [type |-> "ack"]
<1>1. f \in RelayFrame /\ \A g : Earlier(g, f)
  BY FrameTypes DEF Earlier
<1>2. \A d \in Conns :
        toClient'[d] = toClient[d] \/ (d = c /\ toClient'[d] = Append(toClient[c], f))
  BY DEF SendAck, SendFrame, Queue, RelayIInv, RelayTypeOK
<1> HIDE DEF f
<1>3. Items(Append(toClient[c], f)) = Items(toClient[c]) \cup {f} /\ InOrder(Append(toClient[c], f))
  BY <1>1, AppendItems DEF RelayIInv, RelayTypeOK, Ordered, Queues
<1>4. f.type = "ack"
  BY DEF f
<1>5. ASSUME NEW d \in Conns
      PROVE  /\ \A g \in Items(toClient'[d]) : g \in Items(toClient[d]) \/ g.type = "ack"
             /\ InOrder(toClient'[d])
  BY <1>2, <1>3, <1>4 DEF Ordered, Queues
<1> QED
  BY <1>5, FewerOrdered DEF SendAck, Ordered, Queues

\* A packet that is sent has the highest number yet, and goes behind the others.
LEMMA SendToOrdered ==
  ASSUME RelayIInv, Ordered, NEW c \in Conns, NEW k \in Keys, SendTo(c, k)
  PROVE  Ordered'
<1> DEFINE e == [type |-> "send", payload |-> [from |-> c, dest |-> k, id |-> sent + 1]]
<1>1. /\ e \in RelayFrame /\ e.type = "send" /\ e.payload.from = c /\ e.payload.id = sent + 1
      /\ sent \in Int /\ sent' = sent + 1
      /\ UNCHANGED <<toClient, delivered, routing>>
  BY DerpAssumption DEF RelayIInv, RelayTypeOK, SendTo, RelayFrame, Packet
<1>2. \A d \in Conns : toServer'[d] = IF d = c THEN Append(toServer[c], e) ELSE toServer[d]
  BY DEF SendTo, RelayIInv, RelayTypeOK
<1> HIDE DEF e
<1>3. \A f \in Items(toServer[c]) : f.type = "send" => f.payload.id < sent + 1
  BY <1>1, ItemTypes, PacketTypes DEF RelayIInv, Ordered, Outgoing
<1>4. /\ Items(Append(toServer[c], e)) = Items(toServer[c]) \cup {e}
      /\ InOrder(Append(toServer[c], e))
  <2>1. \A f \in Items(toServer[c]) : Earlier(f, e)
    BY <1>1, <1>3 DEF Earlier
  <2> QED
    BY <1>1, <2>1, AppendItems DEF RelayIInv, RelayTypeOK, Ordered, Queues
<1>5. ASSUME NEW f \in RelayFrame, f.type \in {"send", "recv"}, NEW a \in Conns, AheadOfQueue(f, a)
      PROVE  AheadOfQueue(f, a)'
  <2>1. f.payload.id <= sent'
    BY <1>1, <1>5, PacketTypes DEF AheadOfQueue
  <2>2. \A g \in Items(toServer'[a]) : g \in Items(toServer[a]) \/ g = e
    BY <1>2, <1>4
  <2>3. f.payload.id < e.payload.id
    BY <1>1, <1>5, PacketTypes DEF AheadOfQueue
  <2> QED
    BY <1>5, <2>1, <2>2, <2>3 DEF AheadOfQueue
<1> SUFFICES ASSUME NEW d \in Conns
             PROVE  Queues(d)' /\ Outgoing(d)' /\ InHand(d)' /\ Incoming(d)'
  BY DEF Ordered
<1>6. Queues(d)'
  BY <1>1, <1>2, <1>4 DEF Ordered, Queues
<1>7. Outgoing(d)'
  <2>1. \A g \in Items(toServer'[d]) : g \in Items(toServer[d]) \/ (d = c /\ g = e)
    BY <1>2, <1>4
  <2>2. \A g \in Items(toServer[d]) : g.type = "send" => g.payload.from = d /\ g.payload.id <= sent'
    BY <1>1, ItemTypes, PacketTypes DEF RelayIInv, Ordered, Outgoing
  <2> QED
    BY <1>1, <2>1, <2>2 DEF Outgoing
<1>8. InHand(d)'
  BY <1>1, <1>5, ItemTypes DEF RelayIInv, Ordered, InHand, Genuine
<1>9. Incoming(d)'
  <2>1. ASSUME NEW f \in Items(toClient[d]) \cup Items(delivered[d]), f.type = "recv"
        PROVE  Genuine(d, f)' /\ Ahead(f)'
    <3>1. f \in RelayFrame /\ Genuine(d, f) /\ Ahead(f) /\ f.payload.from \in Conns
      BY <2>1, ItemTypes, PacketTypes DEF RelayIInv, Ordered, Incoming
    <3> QED
      BY <1>1, <1>5, <2>1, <3>1 DEF Genuine, Ahead
  <2> QED
    BY <1>1, <2>1 DEF Ordered, Incoming
<1> QED
  BY <1>6, <1>7, <1>8, <1>9

\* What a client reads was behind all it had read.
LEMMA ReceiveOrdered ==
  ASSUME RelayIInv, Ordered, NEW c \in Conns, Receive(c)
  PROVE  Ordered'
<1>0. PICK h : h = Head(toClient[c])
  OBVIOUS
<1>1. /\ h \in RelayFrame /\ h \in Items(toClient[c])
      /\ Items(Tail(toClient[c])) \subseteq Items(toClient[c]) /\ InOrder(Tail(toClient[c]))
      /\ \A g \in Items(Tail(toClient[c])) : Earlier(h, g)
  BY <1>0, TailTypes, TailItems DEF Receive, RelayIInv, RelayTypeOK, Ordered, Queues
<1>2. /\ \A d \in Conns : toClient'[d] = IF d = c THEN Tail(toClient[c]) ELSE toClient[d]
      /\ \A d \in Conns : \/ delivered'[d] = delivered[d]
                          \/ d = c /\ h.type = "recv" /\ delivered'[d] = Append(delivered[c], h)
      /\ UNCHANGED <<toServer, routing, sent>>
  <2>1. \A d \in Conns : toClient'[d] = IF d = c THEN Tail(toClient[c]) ELSE toClient[d]
    BY DEF Receive, RelayIInv, RelayTypeOK
  <2>2. delivered' = IF h.type = "recv"
                       THEN [delivered EXCEPT ![c] = Append(delivered[c], h)]
                       ELSE [delivered EXCEPT ![c] = delivered[c]]
    BY <1>0 DEF Receive, RelayIInv, RelayTypeOK
  <2>3. \A d \in Conns : \/ delivered'[d] = delivered[d]
                         \/ d = c /\ h.type = "recv" /\ delivered'[d] = Append(delivered[c], h)
    BY <2>2 DEF RelayIInv, RelayTypeOK
  <2>4. UNCHANGED <<toServer, routing, sent>>
    BY DEF Receive
  <2> QED
    BY <2>1, <2>3, <2>4
<1>3. Items(Append(delivered[c], h)) = Items(delivered[c]) \cup {h} /\ InOrder(Append(delivered[c], h))
  BY <1>1, AppendItems DEF RelayIInv, RelayTypeOK, Ordered, Queues, Incoming
<1> SUFFICES ASSUME NEW d \in Conns
             PROVE  Queues(d)' /\ Outgoing(d)' /\ InHand(d)' /\ Incoming(d)'
  BY DEF Ordered
<1>4. Queues(d)'
  BY <1>1, <1>2, <1>3 DEF Ordered, Queues
<1>5. Outgoing(d)' /\ InHand(d)'
  BY <1>2 DEF Ordered, Outgoing, InHand, AheadOfQueue, Genuine
<1>6. Incoming(d)'
  <2>1. Items(toClient'[d]) \subseteq Items(toClient[d])
    BY <1>1, <1>2
  <2>2. \/ Items(delivered'[d]) = Items(delivered[d])
        \/ d = c /\ h.type = "recv" /\ Items(delivered'[d]) = Items(delivered[d]) \cup {h}
    BY <1>2, <1>3
  <2>3. ASSUME NEW f \in Items(toClient'[d]) \cup Items(delivered'[d]), f.type = "recv"
        PROVE  Genuine(d, f)' /\ Ahead(f)'
    <3>1. f \in Items(toClient[d]) \cup Items(delivered[d])
      BY <1>1, <2>1, <2>2, <2>3
    <3>2. Genuine(d, f) /\ Ahead(f)
      BY <2>3, <3>1 DEF Ordered, Incoming
    <3> QED
      BY <1>2, <3>2 DEF Genuine, Ahead, AheadOfQueue
  <2>4. \A f \in Items(delivered'[d]) : f.type = "recv"
    BY <2>2 DEF Ordered, Incoming
  <2>5. \A f \in Items(delivered'[d]), g \in Items(toClient'[d]) : Earlier(f, g)
    BY <1>1, <1>2, <2>1, <2>2 DEF Ordered, Incoming
  <2> QED
    BY <2>3, <2>4, <2>5 DEF Incoming
<1> QED
  BY <1>4, <1>5, <1>6

\* What RouteForward takes in hand leaves its sender's queue first.
LEMMA LookUpOrdered ==
  ASSUME RelayIInv, Ordered, NEW c \in Conns, LookUp(c)
  PROVE  Ordered'
<1>0. PICK h, p, f : h = Head(toServer[c]) /\ p = h.payload /\ f = RecvFrame(c, p)
  OBVIOUS
<1>1. /\ h \in SendFrames /\ h \in Items(toServer[c])
      /\ Items(Tail(toServer[c])) \subseteq Items(toServer[c]) /\ InOrder(Tail(toServer[c]))
      /\ \A g \in Items(Tail(toServer[c])) : Earlier(h, g)
  BY <1>0, TailTypes, TailItems DEF LookUp, RelayIInv, RelayTypeOK, Greeting, Greeted, Ordered, Queues
<1>2. /\ h.type = "send" /\ p \in Packet /\ p.from = c /\ p.id <= sent /\ p.id \in Int
  <2>1. h.type = "send" /\ p \in Packet /\ p.id \in Int
    BY <1>0, <1>1 DEF SendFrames, Packet
  <2> QED
    BY <1>0, <1>1, <2>1 DEF Ordered, Outgoing
<1>3. f.type = "recv" /\ f.payload = p /\ f.src = KeyOf[c] /\ f \in RelayFrame
  BY <1>0, <1>2, FrameTypes DEF RecvFrame
<1>4. \A d \in Conns : toServer'[d] = IF d = c THEN Tail(toServer[c]) ELSE toServer[d]
  BY DEF LookUp, RelayIInv, RelayTypeOK
<1>5. /\ \A d \in Conns : \/ routing'[d] = routing[d]
                          \/ /\ d = c /\ sessions[p.dest] # NoConn
                             /\ routing'[d] = [dest |-> sessions[p.dest], frame |-> f]
      /\ routing[c] = NoRoute /\ UNCHANGED <<toClient, sent, delivered>>
  BY <1>0 DEF LookUp, RelayIInv, RelayTypeOK
<1>6. \A d \in Conns : Items(toServer'[d]) \subseteq Items(toServer[d]) /\ InOrder(toServer'[d])
  BY <1>1, <1>4 DEF Ordered, Queues
<1>7. AheadOfQueue(f, c)'
  <2>1. ASSUME NEW g \in Items(Tail(toServer[c])), g.type = "send"
        PROVE  p.id < g.payload.id
    <3>1. g.payload.from = c
      BY <1>1, <2>1 DEF Ordered, Outgoing
    <3> QED
      BY <1>0, <1>1, <1>2, <2>1, <3>1 DEF Earlier
  <2> QED
    BY <1>2, <1>3, <1>4, <1>5, <2>1 DEF AheadOfQueue
<1>8. \A g, a : a \in Conns /\ AheadOfQueue(g, a) => AheadOfQueue(g, a)'
  BY <1>5, <1>6 DEF AheadOfQueue
<1> SUFFICES ASSUME NEW d \in Conns
             PROVE  Queues(d)' /\ Outgoing(d)' /\ InHand(d)' /\ Incoming(d)'
  BY DEF Ordered
<1>9. Queues(d)' /\ Outgoing(d)'
  BY <1>5, <1>6 DEF Ordered, Queues, Outgoing
<1>10. InHand(d)'
  <2>1. CASE routing'[d] = routing[d]
    BY <1>8, <2>1 DEF Ordered, InHand, Genuine
  <2>2. CASE /\ d = c /\ sessions[p.dest] # NoConn
             /\ routing'[d] = [dest |-> sessions[p.dest], frame |-> f]
    <3>1. KeyOf[sessions[p.dest]] = p.dest
      BY <1>2, <2>2 DEF RelayIInv, NoGhostSessions, Packet
    <3>2. routing'[d].dest = sessions[p.dest] /\ routing'[d].frame = f
      BY <2>2
    <3> QED
      BY <1>2, <1>3, <1>7, <2>2, <3>1, <3>2 DEF InHand, Genuine
  <2> QED
    BY <1>5, <2>1, <2>2
<1>11. Incoming(d)'
  <2>1. ASSUME NEW g \in Items(toClient[d]) \cup Items(delivered[d]), g.type = "recv"
        PROVE  Genuine(d, g)' /\ Ahead(g)'
    <3>1. Genuine(d, g) /\ Ahead(g) /\ g.payload.from \in Conns
      BY <2>1, ItemTypes, PacketTypes DEF RelayIInv, Ordered, Incoming
    <3>2. g.payload.from = c => g.payload.id < p.id
      BY <1>0, <1>1, <1>2, <3>1 DEF Ahead, AheadOfQueue
    <3>3. AheadOfQueue(g, g.payload.from)'
      BY <1>8, <3>1 DEF Ahead
    <3>4. routing'[g.payload.from] # NoRoute =>
            g.payload.id < routing'[g.payload.from].frame.payload.id
      BY <1>3, <1>5, <3>1, <3>2 DEF Ahead
    <3> QED
      BY <3>1, <3>3, <3>4 DEF Genuine, Ahead
  <2> QED
    BY <1>5, <2>1 DEF Ordered, Incoming
<1> QED
  BY <1>9, <1>10, <1>11

\* What RouteForward writes to a connection is behind all its sender had there.
LEMMA ForwardOrdered ==
  ASSUME RelayIInv, Ordered, NEW c \in Conns, Forward(c)
  PROVE  Ordered'
<1>0. PICK e, f : e = routing[c].dest /\ f = routing[c].frame
  OBVIOUS
<1>1. e \in Conns /\ f \in RelayFrame /\ routing[c] # NoRoute
  BY <1>0, ItemTypes DEF RelayIInv, Forward
<1>2. /\ f.type = "recv" /\ f.payload.from = c /\ Genuine(e, f) /\ AheadOfQueue(f, c)
  BY <1>0, <1>1 DEF Ordered, InHand
<1>3. /\ \A d \in Conns : \/ toClient'[d] = toClient[d]
                          \/ d = e /\ toClient'[d] = Append(toClient[e], f)
      /\ \A d \in Conns : routing'[d] = IF d = c THEN NoRoute ELSE routing[d]
      /\ UNCHANGED <<toServer, sent, delivered>>
  <2>1. toClient' = toClient \/ toClient' = [toClient EXCEPT ![e] = Append(toClient[e], f)]
    BY <1>0 DEF Forward, SendFrame, Queue
  <2>2. \A d \in Conns : \/ toClient'[d] = toClient[d]
                         \/ d = e /\ toClient'[d] = Append(toClient[e], f)
    BY <2>1 DEF RelayIInv, RelayTypeOK
  <2>3. \A d \in Conns : routing'[d] = IF d = c THEN NoRoute ELSE routing[d]
    BY DEF Forward, RelayIInv, RelayTypeOK
  <2>4. UNCHANGED <<toServer, sent, delivered>>
    BY DEF Forward
  <2> QED
    BY <2>2, <2>3, <2>4
<1>4. \A g \in Items(toClient[e]) \cup Items(delivered[e]) : Earlier(g, f)
  <2> SUFFICES ASSUME NEW g \in Items(toClient[e]) \cup Items(delivered[e]),
                      g.type = "recv", g.payload.from = c
               PROVE  g.payload.id < f.payload.id
    BY <1>2 DEF Earlier
  <2>1. Ahead(g)
    BY <1>1 DEF Ordered, Incoming
  <2> QED
    BY <1>0, <1>1, <2>1 DEF Ahead
<1>5. /\ Items(Append(toClient[e], f)) = Items(toClient[e]) \cup {f}
      /\ InOrder(Append(toClient[e], f))
  BY <1>1, <1>4, AppendItems DEF RelayIInv, RelayTypeOK, Ordered, Queues
<1> SUFFICES ASSUME NEW d \in Conns
             PROVE  Queues(d)' /\ Outgoing(d)' /\ InHand(d)' /\ Incoming(d)'
  BY DEF Ordered
<1>6. Queues(d)' /\ Outgoing(d)'
  BY <1>1, <1>3, <1>5 DEF Ordered, Queues, Outgoing
<1>7. InHand(d)'
  BY <1>3 DEF Ordered, InHand, Genuine, AheadOfQueue
<1>8. Incoming(d)'
  <2>1. \/ Items(toClient'[d]) = Items(toClient[d])
        \/ d = e /\ Items(toClient'[d]) = Items(toClient[d]) \cup {f}
    BY <1>3, <1>5
  <2>2. Genuine(e, f)' /\ Ahead(f)'
    BY <1>1, <1>2, <1>3 DEF Genuine, Ahead, AheadOfQueue
  <2>3. ASSUME NEW g \in Items(toClient[d]) \cup Items(delivered[d]), g.type = "recv"
        PROVE  Genuine(d, g)' /\ Ahead(g)'
    <3>1. Genuine(d, g) /\ Ahead(g) /\ g.payload.from \in Conns
      BY <2>3, ItemTypes, PacketTypes DEF RelayIInv, Ordered, Incoming
    <3> QED
      BY <1>3, <3>1 DEF Genuine, Ahead, AheadOfQueue
  <2>4. \A g \in Items(delivered'[d]), i \in Items(toClient'[d]) : Earlier(g, i)
    BY <1>3, <1>4, <2>1 DEF Ordered, Incoming
  <2>5. \A g \in Items(delivered'[d]) : g.type = "recv"
    BY <1>3 DEF Ordered, Incoming
  <2> QED
    BY <1>3, <2>1, <2>2, <2>3, <2>4, <2>5 DEF Incoming
<1> QED
  BY <1>6, <1>7, <1>8
-----------------------------------------------------------------------------
LEMMA StepOrdered == RelayIInv /\ Ordered /\ [RelayNext]_relayVars => Ordered'
<1> SUFFICES ASSUME RelayIInv, Ordered, [RelayNext]_relayVars PROVE Ordered'
  OBVIOUS
<1>1. CASE UNCHANGED relayVars
  BY <1>1, FewerOrdered DEF relayVars, Ordered, Queues
<1>2. ASSUME NEW c \in Conns,
             \/ Dial(c) \/ ReadAck(c) \/ Receive(c) \/ CloseClient(c) \/ ClientEnds(c)
             \/ \E k \in Keys : SendTo(c, k)
             \/ Break(c)
      PROVE  Ordered'
  BY <1>2, DialOrdered, ReadAckOrdered, ReceiveOrdered, QuietOrdered, SendToOrdered, BreakOrdered
<1>3. ASSUME NEW c \in Conns, Serve(c)
      PROVE  Ordered'
  BY <1>3, RegisterOrdered, SendAckOrdered, LookUpOrdered, ForwardOrdered, QuietOrdered DEF Serve
<1> QED
  BY <1>1, <1>2, <1>3 DEF RelayNext

LEMMA OrderedIsOrder == Ordered => RelayKeepsOrder
<1> SUFFICES ASSUME Ordered, NEW c \in Conns, NEW i \in 1 .. Len(delivered[c])
             PROVE  LET f == delivered[c][i] IN
                    /\ f.payload.dest = KeyOf[c]
                    /\ f.src = KeyOf[f.payload.from]
                    /\ \A j \in 1 .. i - 1 :
                        delivered[c][j].payload.from = f.payload.from
                            => delivered[c][j].payload.id < f.payload.id
  BY DEF RelayKeepsOrder
<1>1. delivered[c][i].type = "recv" /\ Genuine(c, delivered[c][i])
  BY DEF Ordered, Incoming, Items
<1>2. ASSUME NEW j \in 1 .. i - 1
      PROVE  delivered[c][j].type = "recv" /\ Earlier(delivered[c][j], delivered[c][i])
  <2>1. j \in 1 .. Len(delivered[c])
    BY <1>2
  <2> QED
    BY <2>1 DEF Ordered, Incoming, Items, Queues, InOrder
<1> QED
  BY <1>1, <1>2 DEF Genuine, Earlier

\* What a handler is called with was sent to its key by the peer it names,
\* never twice, and in the order of sending on each connection, whoever
\* connects, reconnects and breaks off meanwhile (router.go: RouteForward).
THEOREM RelayOrder == RelaySpec => []RelayKeepsOrder
<1>1. RelayInit => RelayIInv /\ Ordered
  BY InitRelay, InitOrdered
<1>2. RelayIInv /\ Ordered /\ [RelayNext]_relayVars => (RelayIInv /\ Ordered)'
  BY StepRelay, StepOrdered
<1> QED
  BY <1>1, <1>2, OrderedIsOrder, PTL DEF RelaySpec
-----------------------------------------------------------------------------
(* A datagram service                                                      *)
(*                                                                         *)
(* A delivery takes the packet off the way if it was nowhere else: not at  *)
(* its sender or in hand, because it is ahead of what is there (Ordered),  *)
(* and on no other connection (Apart).                                     *)

\* No packet is on two connections to clients.
Apart == \A c, d \in Conns : c # d =>
  \A f \in Items(toClient[c]), g \in Items(toClient[d]) :
    f.type = "recv" /\ g.type = "recv" => f.payload # g.payload

\* A packet is on its way if it is on a connection or in hand.
InSomePlace(p) == \E c \in Conns :
  \/ \E f \in Items(toServer[c]) : f.type = "send" /\ p = f.payload
  \/ \E f \in Items(toClient[c]) : f.type = "recv" /\ p = f.payload
  \/ routing[c] # NoRoute /\ p = routing[c].frame.payload
Places == \A p : p \in UnderWay <=> InSomePlace(p)

LEMMA UnderWayIs == Places
<1> SUFFICES ASSUME NEW p PROVE p \in UnderWay <=> InSomePlace(p)
  BY DEF Places
<1>1. ASSUME NEW c \in Conns
      PROVE  p \in PacketsIn(toServer[c], "send") \cup PacketsIn(toClient[c], "recv") <=>
               \/ \E f \in Items(toServer[c]) : f.type = "send" /\ p = f.payload
               \/ \E f \in Items(toClient[c]) : f.type = "recv" /\ p = f.payload
  <2>1. ASSUME NEW q, NEW type
        PROVE  p \in PacketsIn(q, type) <=> \E f \in Items(q) : f.type = type /\ p = f.payload
    BY DEF PacketsIn, Items
  <2> QED
    BY <2>1
<1>2. p \in UnderWay <=> \E c \in Conns :
        \/ p \in PacketsIn(toServer[c], "send") \cup PacketsIn(toClient[c], "recv")
        \/ routing[c] # NoRoute /\ p = routing[c].frame.payload
  <2> DEFINE A == UNION {PacketsIn(toServer[c], "send") \cup PacketsIn(toClient[c], "recv") : c \in Conns}
             B == {routing[c].frame.payload : c \in {d \in Conns : routing[d] # NoRoute}}
  <2>1. p \in A <=>
          \E c \in Conns : p \in PacketsIn(toServer[c], "send") \cup PacketsIn(toClient[c], "recv")
    OBVIOUS
  <2>2. p \in B <=> \E c \in Conns : routing[c] # NoRoute /\ p = routing[c].frame.payload
    OBVIOUS
  <2>3. p \in UnderWay <=> p \in A \/ p \in B
    BY DEF UnderWay
  <2> HIDE DEF A, B
  <2> QED
    BY <2>1, <2>2, <2>3, Zenon
<1> QED
  BY <1>1, <1>2 DEF InSomePlace

LEMMA UnderWayLater == Places'
BY UnderWayIs, PTL

\* A step by which the clients' queues only lose packets.
LEMMA FewerApart ==
  ASSUME Apart, \A d \in Conns : \A g \in Items(toClient'[d]) : g \in Items(toClient[d]) \/ g.type # "recv"
  PROVE  Apart'
BY DEF Apart

\* What is routed is behind all its sender's packets on any connection.
LEMMA ForwardApart ==
  ASSUME RelayIInv, Ordered, Apart, NEW c \in Conns, Forward(c)
  PROVE  Apart'
<1>0. PICK e, f : e = routing[c].dest /\ f = routing[c].frame
  OBVIOUS
<1>1. e \in Conns /\ f \in RelayFrame /\ routing[c] # NoRoute
  BY <1>0, ItemTypes DEF RelayIInv, Forward
<1>2. f.type = "recv" /\ f.payload.from = c
  BY <1>0, <1>1 DEF Ordered, InHand
<1>3. toClient' = toClient \/ toClient' = [toClient EXCEPT ![e] = Append(toClient[e], f)]
  BY <1>0 DEF Forward, SendFrame, Queue
<1>4. Items(Append(toClient[e], f)) = Items(toClient[e]) \cup {f}
  BY <1>1, AppendItems DEF RelayIInv, RelayTypeOK
<1>5. ASSUME NEW d \in Conns
      PROVE  Items(toClient'[d]) \subseteq Items(toClient[d]) \cup (IF d = e THEN {f} ELSE {})
  BY <1>1, <1>3, <1>4 DEF RelayIInv, RelayTypeOK
<1>6. ASSUME NEW d \in Conns, NEW g \in Items(toClient[d]), g.type = "recv"
      PROVE  g.payload # f.payload
  <2>1. Ahead(g) /\ g.payload.id \in Int
    BY <1>6, ItemTypes, PacketTypes DEF RelayIInv, Ordered, Incoming
  <2> QED
    BY <1>0, <1>1, <1>2, <2>1 DEF Ahead
<1> QED
  BY <1>5, <1>6 DEF Apart

LEMMA StepApart ==
  ASSUME RelayIInv, Ordered, Apart, [RelayNext]_relayVars
  PROVE  Apart'
<1> DEFINE Less == \A d \in Conns :
                     \A g \in Items(toClient'[d]) : g \in Items(toClient[d]) \/ g.type # "recv"
<1>1. ASSUME UNCHANGED toClient PROVE Less
  BY <1>1
<1>2. ASSUME NEW c \in Conns, toClient' = [toClient EXCEPT ![c] = Tail(@)], toClient[c] # <<>>
      PROVE  Less
  <2>1. Items(Tail(toClient[c])) \subseteq Items(toClient[c])
    BY <1>2, TailItems DEF RelayIInv, RelayTypeOK
  <2>2. \A d \in Conns : toClient'[d] = IF d = c THEN Tail(toClient[c]) ELSE toClient[d]
    BY <1>2 DEF RelayIInv, RelayTypeOK
  <2> QED
    BY <2>1, <2>2
<1>3. ASSUME NEW c \in Conns, Break(c) PROVE Less
  <2>1. PICK s \in Prefixes(toClient[c]) : toClient' = [toClient EXCEPT ![c] = s]
    BY <1>3 DEF Break
  <2>2. Items(s) \subseteq Items(toClient[c])
    BY PrefixItems DEF RelayIInv, RelayTypeOK
  <2>3. \A d \in Conns : toClient'[d] = IF d = c THEN s ELSE toClient[d]
    BY <2>1 DEF RelayIInv, RelayTypeOK
  <2> QED
    BY <2>2, <2>3
<1>4. ASSUME NEW c \in Conns, SendAck(c) PROVE Less
  <2>1. PICK f : f = [type |-> "ack"] /\ f \in RelayFrame
    BY FrameTypes
  <2>2. toClient' = toClient \/ toClient' = [toClient EXCEPT ![c] = Append(toClient[c], f)]
    BY <1>4, <2>1 DEF SendAck, SendFrame, Queue
  <2>3. Items(Append(toClient[c], f)) = Items(toClient[c]) \cup {f}
    BY <2>1, AppendItems DEF RelayIInv, RelayTypeOK
  <2>4. \A d \in Conns : toClient'[d] = toClient[d] \/ (d = c /\ toClient'[d] = Append(toClient[c], f))
    BY <2>2 DEF RelayIInv, RelayTypeOK
  <2>5. f.type # "recv"
    BY <2>1
  <2> QED
    BY <2>3, <2>4, <2>5
<1>5. Less => Apart'
  BY FewerApart
<1> HIDE DEF Less
<1>6. ASSUME NEW c \in Conns,
             \/ Dial(c) \/ CloseClient(c) \/ ClientEnds(c) \/ \E k \in Keys : SendTo(c, k)
             \/ Register(c) \/ NeverRegisters(c) \/ LookUp(c) \/ PumpEnds(c)
             \/ Unregister(c) \/ CloseSession(c)
      PROVE  Apart'
  BY <1>1, <1>5, <1>6 DEF Dial, CloseClient, ClientEnds, SendTo, Register, NeverRegisters,
     LookUp, PumpEnds, Unregister, CloseSession
<1>7. ASSUME NEW c \in Conns, ReadAck(c) \/ Receive(c) PROVE Apart'
  BY <1>2, <1>5, <1>7 DEF ReadAck, Receive
<1>8. CASE UNCHANGED relayVars
  BY <1>1, <1>5, <1>8 DEF relayVars
<1> QED
  BY <1>3, <1>4, <1>5, <1>6, <1>7, <1>8, ForwardApart DEF RelayNext, Serve

\* A step that delivers and sends nothing loses packets, if anything.
LEMMA LosingStep ==
  ASSUME UNCHANGED <<sent, delivered>>, \A p \in UnderWay' : p \in UnderWay
  PROVE  Service!Lose
BY DEF Service!Lose

\* The queues after a step that is not a send, a routing or a delivery.
LEMMA QueuesShrink ==
  ASSUME UNCHANGED <<sent, delivered, routing>>,
         \A d \in Conns :
           /\ \A g \in Items(toServer'[d]) : g \in Items(toServer[d]) \/ g.type = "info"
           /\ \A g \in Items(toClient'[d]) : g \in Items(toClient[d]) \/ g.type = "ack"
  PROVE  Service!Lose
<1>1. ASSUME NEW p \in UnderWay' PROVE p \in UnderWay
  <2>1. InSomePlace(p)'
    BY <1>1, UnderWayLater DEF Places
  <2>2. InSomePlace(p)
    BY <2>1 DEF InSomePlace
  <2> QED
    BY <2>2, UnderWayIs DEF Places
<1> QED
  BY <1>1, LosingStep

\* A packet that is routed changes its place, or is lost.
LEMMA LookUpLoses ==
  ASSUME RelayIInv, Ordered, NEW c \in Conns, LookUp(c)
  PROVE  Service!Lose
<1>0. PICK h, f : h = Head(toServer[c]) /\ f = RecvFrame(c, h.payload)
  OBVIOUS
<1>1. h \in SendFrames /\ h \in Items(toServer[c]) /\ Items(Tail(toServer[c])) \subseteq Items(toServer[c])
  BY <1>0, TailTypes, TailItems DEF LookUp, RelayIInv, RelayTypeOK, Greeting, Greeted
<1>2. h.type = "send" /\ f.payload = h.payload
  BY <1>0, <1>1 DEF SendFrames, RecvFrame
<1>3. /\ \A d \in Conns : Items(toServer'[d]) \subseteq Items(toServer[d])
      /\ \A d \in Conns : routing'[d] # routing[d] => d = c /\ routing'[d].frame = f
      /\ UNCHANGED <<sent, delivered, toClient>>
  BY <1>0, <1>1 DEF LookUp, RelayIInv, RelayTypeOK
<1>4. ASSUME NEW p \in UnderWay' PROVE p \in UnderWay
  <2>1. PICK d \in Conns :
          \/ \E g \in Items(toServer'[d]) : g.type = "send" /\ p = g.payload
          \/ \E g \in Items(toClient'[d]) : g.type = "recv" /\ p = g.payload
          \/ routing'[d] # NoRoute /\ p = routing'[d].frame.payload
    BY <1>4, UnderWayLater DEF Places, InSomePlace
  <2>2. CASE routing'[d] # routing[d] /\ p = routing'[d].frame.payload
    BY <1>1, <1>2, <1>3, <2>2, UnderWayIs DEF Places, InSomePlace
  <2>3. CASE ~(routing'[d] # routing[d] /\ p = routing'[d].frame.payload)
    BY <1>3, <2>1, <2>3, UnderWayIs DEF Places, InSomePlace
  <2> QED
    BY <2>2, <2>3
<1> QED
  BY <1>3, <1>4, LosingStep

LEMMA ForwardLoses ==
  ASSUME RelayIInv, Ordered, NEW c \in Conns, Forward(c)
  PROVE  Service!Lose
<1>0. PICK e, f : e = routing[c].dest /\ f = routing[c].frame
  OBVIOUS
<1>1. e \in Conns /\ f \in RelayFrame /\ routing[c] # NoRoute
  BY <1>0, ItemTypes DEF RelayIInv, Forward
<1>2. toClient' = toClient \/ toClient' = [toClient EXCEPT ![e] = Append(toClient[e], f)]
  BY <1>0 DEF Forward, SendFrame, Queue
<1>3. Items(Append(toClient[e], f)) = Items(toClient[e]) \cup {f}
  BY <1>1, AppendItems DEF RelayIInv, RelayTypeOK
<1>4. /\ \A d \in Conns : \A g \in Items(toClient'[d]) : g \in Items(toClient[d]) \/ g = f
      /\ \A d \in Conns : routing'[d] # NoRoute => routing'[d] = routing[d]
      /\ UNCHANGED <<sent, delivered, toServer>>
  <2>1. \A d \in Conns : toClient'[d] = toClient[d] \/ (d = e /\ toClient'[d] = Append(toClient[e], f))
    BY <1>2 DEF RelayIInv, RelayTypeOK
  <2>2. \A d \in Conns : routing'[d] = IF d = c THEN NoRoute ELSE routing[d]
    BY DEF Forward, RelayIInv, RelayTypeOK
  <2>3. UNCHANGED <<sent, delivered, toServer>>
    BY DEF Forward
  <2> QED
    BY <1>3, <2>1, <2>2, <2>3
<1>5. ASSUME NEW p \in UnderWay' PROVE p \in UnderWay
  <2>1. PICK d \in Conns :
          \/ \E g \in Items(toServer'[d]) : g.type = "send" /\ p = g.payload
          \/ \E g \in Items(toClient'[d]) : g.type = "recv" /\ p = g.payload
          \/ routing'[d] # NoRoute /\ p = routing'[d].frame.payload
    BY <1>5, UnderWayLater DEF Places, InSomePlace
  <2>2. InSomePlace(p)
    BY <1>0, <1>1, <1>4, <2>1 DEF InSomePlace
  <2> QED
    BY <2>2, UnderWayIs DEF Places
<1> QED
  BY <1>4, <1>5, LosingStep

LEMMA FirstItem ==
  ASSUME NEW S, NEW q \in Seq(S), q # <<>>
  PROVE  Items(q) = {Head(q)} \cup Items(Tail(q))
<1>1. /\ Len(Tail(q)) = Len(q) - 1 /\ Len(q) \in Nat \ {0}
      /\ \A i \in 1 .. Len(Tail(q)) : Tail(q)[i] = q[i + 1]
      /\ Head(q) = q[1]
  BY HeadTailProperties, EmptySeq, LenProperties
<1>2. ASSUME NEW i \in 1 .. Len(q), i # 1 PROVE q[i] \in Items(Tail(q))
  <2>1. i - 1 \in 1 .. Len(Tail(q)) /\ Tail(q)[i - 1] = q[i]
    BY <1>1, <1>2
  <2> QED
    BY <2>1 DEF Items
<1>3. Items(q) \subseteq {Head(q)} \cup Items(Tail(q))
  BY <1>1, <1>2 DEF Items
<1> QED
  BY <1>3, TailItems

\* A packet that is sent, and one that is read, is one of the service.
LEMMA SendToSends ==
  ASSUME RelayIInv, NEW c \in Conns, NEW k \in Keys, SendTo(c, k)
  PROVE  Service!Send(c, k)
<1> DEFINE p == [from |-> c, dest |-> k, id |-> sent + 1]
           e == [type |-> "send", payload |-> p]
<1>1. /\ e \in RelayFrame /\ e.type = "send" /\ e.payload = p
      /\ sent' = sent + 1 /\ UNCHANGED <<toClient, delivered, routing>>
  BY DerpAssumption DEF RelayIInv, RelayTypeOK, SendTo, RelayFrame, Packet
<1>2. \A d \in Conns : toServer'[d] = IF d = c THEN Append(toServer[c], e) ELSE toServer[d]
  BY DEF SendTo, RelayIInv, RelayTypeOK
<1> HIDE DEF e
<1>3. Items(Append(toServer[c], e)) = Items(toServer[c]) \cup {e}
  BY <1>1, AppendItems DEF RelayIInv, RelayTypeOK
<1> HIDE DEF p
<1>4. ASSUME NEW q PROVE InSomePlace(q)' <=> InSomePlace(q) \/ q = p
  BY <1>1, <1>2, <1>3 DEF InSomePlace
<1>5. UnderWay' = UnderWay \cup {p}
  BY <1>4, UnderWayIs, UnderWayLater DEF Places
<1> QED
  BY <1>1, <1>5 DEF Service!Send, p

LEMMA ReceiveDelivers ==
  ASSUME RelayIInv, Ordered, Apart, NEW c \in Conns, Receive(c), Head(toClient[c]).type = "recv"
  PROVE  \E p \in UnderWay : Service!Deliver(c, p)
<1>0. PICK h, p : h = Head(toClient[c]) /\ p = h.payload
  OBVIOUS
<1>1. /\ h \in RelayFrame /\ h \in Items(toClient[c]) /\ h.type = "recv"
      /\ Items(Tail(toClient[c])) \subseteq Items(toClient[c])
      /\ \A g \in Items(Tail(toClient[c])) : Earlier(h, g)
  BY <1>0, TailTypes, TailItems DEF Receive, RelayIInv, RelayTypeOK, Ordered, Queues
<1>2. p \in Packet /\ p.from \in Conns /\ p.id \in Int /\ Genuine(c, h) /\ Ahead(h)
  BY <1>0, <1>1, PacketTypes DEF Ordered, Incoming
<1>3. /\ \A d \in Conns : toClient'[d] = IF d = c THEN Tail(toClient[c]) ELSE toClient[d]
      /\ delivered' = [delivered EXCEPT ![c] = Append(@, h)]
      /\ UNCHANGED <<toServer, routing, sent>>
  BY <1>0, <1>1 DEF Receive, RelayIInv, RelayTypeOK
<1>4. h = [type |-> "recv", src |-> KeyOf[p.from], payload |-> p] /\ p.dest = KeyOf[c]
  <2>1. h.src = KeyOf[p.from] /\ h.payload = p /\ h.type = "recv"
    BY <1>0, <1>1, <1>2 DEF Genuine
  <2>2. h = [type |-> h.type, src |-> h.src, payload |-> h.payload]
    BY <1>1 DEF RelayFrame
  <2> QED
    BY <1>0, <1>2, <2>1, <2>2 DEF Genuine
<1>5. ASSUME NEW i \in 1 .. Len(delivered[c]), delivered[c][i].payload.from = p.from
      PROVE  delivered[c][i].payload.id < p.id
  BY <1>0, <1>1, <1>5 DEF Ordered, Incoming, Items, Earlier
<1>6. p \in UnderWay
  BY <1>0, <1>1, UnderWayIs DEF Places, InSomePlace
<1>7. ~InSomePlace(p)'
  <2>1. ASSUME NEW d \in Conns, NEW f \in Items(toServer'[d]), f.type = "send"
        PROVE  f.payload # p
    <3>1. f \in Items(toServer[d])
      BY <1>3, <2>1
    <3>2. f.payload.from = d
      BY <2>1, <3>1 DEF Ordered, Outgoing
    <3>3. d = p.from => p.id < f.payload.id
      BY <1>0, <1>2, <2>1, <3>1 DEF Ahead, AheadOfQueue
    <3> QED
      BY <1>2, <3>2, <3>3
  <2>2. ASSUME NEW d \in Conns, NEW f \in Items(toClient'[d]), f.type = "recv"
        PROVE  f.payload # p
    <3>0. /\ f \in Items(IF d = c THEN Tail(toClient[c]) ELSE toClient[d])
          /\ f \in Items(toClient[d])
      BY <1>1, <1>3, <2>2
    <3>1. CASE d = c
      <4>1. Earlier(h, f)
        BY <1>1, <3>0, <3>1
      <4> QED
        BY <1>0, <1>1, <1>2, <2>2, <4>1 DEF Earlier
    <3>2. CASE d # c
      BY <1>0, <1>1, <3>0, <2>2, <3>2 DEF Apart
    <3> QED
      BY <3>1, <3>2
  <2>3. ASSUME NEW d \in Conns, routing'[d] # NoRoute
        PROVE  routing'[d].frame.payload # p
    BY <1>0, <1>2, <1>3, <2>3 DEF Ahead, Ordered, InHand
  <2> QED
    BY <2>1, <2>2, <2>3 DEF InSomePlace
<1>8. ASSUME NEW q, q # p PROVE InSomePlace(q)' <=> InSomePlace(q)
  <2>1. ASSUME NEW f \in Items(toClient[c]), q = f.payload PROVE f \in Items(Tail(toClient[c]))
    <3>1. f # h
      BY <1>0, <1>8, <2>1
    <3>2. Items(toClient[c]) = {h} \cup Items(Tail(toClient[c]))
      BY <1>0, FirstItem DEF Receive, RelayIInv, RelayTypeOK
    <3> QED
      BY <2>1, <3>1, <3>2
  <2> QED
    BY <1>1, <1>3, <2>1 DEF InSomePlace
<1>9. UnderWay' = UnderWay \ {p}
  BY <1>6, <1>7, <1>8, UnderWayIs, UnderWayLater DEF Places
<1>10. Service!Deliver(c, p)
  BY <1>3, <1>4, <1>5, <1>6, <1>9 DEF Service!Deliver
<1> QED
  BY <1>6, <1>10

\* Each step of the relay is a step of the service.
LEMMA ServiceStep ==
  ASSUME RelayIInv, Ordered, Apart, [RelayNext]_relayVars
  PROVE  [Service!Next]_<<sent, UnderWay, delivered>>
<1>1. ASSUME NEW c \in Conns,
             \/ Dial(c) \/ ReadAck(c) \/ (Receive(c) /\ Head(toClient[c]).type # "recv")
             \/ CloseClient(c) \/ ClientEnds(c) \/ Break(c) \/ Register(c) \/ NeverRegisters(c)
             \/ SendAck(c) \/ PumpEnds(c) \/ Unregister(c) \/ CloseSession(c)
      PROVE  Service!Lose
  <2>1. UNCHANGED <<sent, delivered, routing>>
    BY <1>1 DEF Dial, ReadAck, Receive, CloseClient, ClientEnds, Break, Register, NeverRegisters,
       SendAck, PumpEnds, Unregister, CloseSession, RelayIInv, RelayTypeOK
  <2>2. ASSUME NEW d \in Conns
        PROVE  \A g \in Items(toServer'[d]) : g \in Items(toServer[d]) \/ g.type = "info"
    <3>1. CASE Dial(c)
      <4>1. \A g \in Items(<<[type |-> "info"]>>) : g.type = "info"
        BY DEF Items
      <4> QED
        BY <3>1, <4>1 DEF Dial, RelayIInv, RelayTypeOK
    <3>2. CASE Break(c)
      <4>1. toServer'[d] = toServer[d] \/ toServer'[d] \in Prefixes(toServer[d])
        BY <3>2 DEF Break, RelayIInv, RelayTypeOK
      <4> QED
        BY <4>1, PrefixItems DEF RelayIInv, RelayTypeOK
    <3>3. CASE Register(c)
      <4>1. \/ toServer'[d] = toServer[d]
            \/ toServer[d] # <<>> /\ toServer'[d] = Tail(toServer[d])
        BY <3>3 DEF Register, RelayIInv, RelayTypeOK
      <4> QED
        BY <4>1, TailItems DEF RelayIInv, RelayTypeOK
    <3>4. CASE UNCHANGED toServer
      BY <3>4
    <3> QED
      BY <1>1, <3>1, <3>2, <3>3, <3>4 DEF ReadAck, Receive, CloseClient, ClientEnds, NeverRegisters,
         SendAck, PumpEnds, Unregister, CloseSession
  <2>3. ASSUME NEW d \in Conns
        PROVE  \A g \in Items(toClient'[d]) : g \in Items(toClient[d]) \/ g.type = "ack"
    <3>1. CASE ReadAck(c) \/ Receive(c)
      <4>1. \/ toClient'[d] = toClient[d]
            \/ toClient[d] # <<>> /\ toClient'[d] = Tail(toClient[d])
        BY <3>1 DEF ReadAck, Receive, RelayIInv, RelayTypeOK
      <4> QED
        BY <4>1, TailItems DEF RelayIInv, RelayTypeOK
    <3>2. CASE Break(c)
      <4>1. toClient'[d] = toClient[d] \/ toClient'[d] \in Prefixes(toClient[d])
        BY <3>2 DEF Break, RelayIInv, RelayTypeOK
      <4> QED
        BY <4>1, PrefixItems DEF RelayIInv, RelayTypeOK
    <3>3. CASE SendAck(c)
      <4>1. PICK f : f = [type |-> "ack"] /\ f \in RelayFrame
        BY FrameTypes
      <4>2. toClient' = toClient \/ toClient' = [toClient EXCEPT ![c] = Append(toClient[c], f)]
        BY <3>3, <4>1 DEF SendAck, SendFrame, Queue
      <4>3. toClient'[d] = toClient[d] \/ toClient'[d] = Append(toClient[d], f)
        BY <4>2 DEF RelayIInv, RelayTypeOK
      <4>4. Items(Append(toClient[d], f)) = Items(toClient[d]) \cup {f}
        BY <4>1, AppendItems DEF RelayIInv, RelayTypeOK
      <4>5. f.type = "ack"
        BY <4>1
      <4> QED
        BY <4>3, <4>4, <4>5
    <3>4. CASE UNCHANGED toClient
      BY <3>4
    <3> QED
      BY <1>1, <3>1, <3>2, <3>3, <3>4 DEF Dial, CloseClient, ClientEnds, Register, NeverRegisters,
         PumpEnds, Unregister, CloseSession
  <2> QED
    BY <2>1, <2>2, <2>3, QueuesShrink
<1>2. ASSUME NEW c \in Conns, NEW k \in Keys, SendTo(c, k) PROVE Service!Next
    BY <1>2, SendToSends DEF Service!Next
<1>3. ASSUME NEW c \in Conns, Receive(c) PROVE Service!Next
    BY <1>1, <1>3, ReceiveDelivers DEF Service!Next
<1>4. ASSUME NEW c \in Conns, LookUp(c) \/ Forward(c) PROVE Service!Next
    BY <1>4, LookUpLoses, ForwardLoses DEF Service!Next
<1>5. CASE UNCHANGED relayVars
    BY <1>5 DEF relayVars, UnderWay, PacketsIn
<1> QED
    BY <1>1, <1>2, <1>3, <1>4, <1>5 DEF RelayNext, Serve, Service!Next

\* The relay is a datagram service: whatever connections of one key come, go and
\* overlap, and wherever they break, each packet reaches one connection at most,
\* once, as it was sent, and overtakes none of its sender (router.go, server.go).
THEOREM RelayIsService == RelaySpec => ImplementsService
<1>1. RelayInit => RelayIInv /\ Ordered /\ Apart
  <2>1. RelayInit => Apart
    BY NoItems DEF RelayInit, Apart
  <2> QED
    BY <2>1, InitRelay, InitOrdered
<1>2. (RelayIInv /\ Ordered /\ Apart) /\ [RelayNext]_relayVars => (RelayIInv /\ Ordered /\ Apart)'
  BY StepRelay, StepOrdered, StepApart
<1>3. RelayInit => Service!Init
  <2> SUFFICES ASSUME RelayInit PROVE Service!Init
    OBVIOUS
  <2>1. \A c \in Conns : toServer[c] = <<>> /\ toClient[c] = <<>> /\ routing[c] = NoRoute
    BY DEF RelayInit
  <2>2. UnderWay = {}
    BY <2>1, UnderWayIs, NoItems DEF Places, InSomePlace
  <2> QED
    BY <2>2 DEF RelayInit, Service!Init
<1>4. RelayIInv /\ Ordered /\ Apart /\ [RelayNext]_relayVars
        => [Service!Next]_<<sent, UnderWay, delivered>>
  BY ServiceStep
<1> QED
  BY <1>1, <1>2, <1>3, <1>4, PTL DEF RelaySpec, Service!Spec, ImplementsService
=============================================================================
