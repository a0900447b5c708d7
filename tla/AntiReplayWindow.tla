-------------------------- MODULE AntiReplayWindow --------------------------
(***************************************************************************)
(* The sliding replay filter of pkg/crypto/replay.go, at the level of its  *)
(* bits: a window is the highest sequence counter accepted so far and the  *)
(* set of offsets below it whose bit is set.  Offset d stands for bit      *)
(* d % 64 of word d / 64 of the Go bitmap; module AntiReplayWords keeps    *)
(* the words and shows that they behave as the sets of this module.        *)
(*                                                                         *)
(* Every method of AntiReplayWindow runs under the window's own mutex, so  *)
(* each is one operator here: Check is its answer, Add the new window.     *)
(***************************************************************************)
EXTENDS Integers

CONSTANTS
    WindowSizeBits,     \* 1024 in the code
    WordBits            \* 64 in the code

ASSUME WindowAssumption ==
    /\ WindowSizeBits \in Nat \ {0}
    /\ WordBits \in Nat \ {0}

\* Bit positions of the bitmap.
Offsets == 0 .. WindowSizeBits - 1

Window == [maxSeq : Nat, bitmap : SUBSET Offsets]

NewAntiReplayWindow == [maxSeq |-> 0, bitmap |-> {}]

\* The test for "no packet yet": it looks at word 0 only, not at the bitmap.
Untouched(w) == w.maxSeq = 0 /\ w.bitmap \cap (0 .. WordBits - 1) = {}

\* Variant: a window one counter too short.
CheckShort(w, seq) ==
    \/ Untouched(w)
    \/ seq > w.maxSeq
    \/ /\ seq <= w.maxSeq
       /\ w.maxSeq - seq < WindowSizeBits - 1
       /\ w.maxSeq - seq \notin w.bitmap

\* Variant: the bit of the counter is not looked at.
CheckAgeOnly(w, seq) ==
    Untouched(w) \/ seq > w.maxSeq \/ w.maxSeq - seq < WindowSizeBits

\* The verdict of Check and of CheckAndAdd on a sequence counter.
Check(w, seq) ==
    \/ Untouched(w)
    \/ seq > w.maxSeq
    \/ /\ seq <= w.maxSeq
       /\ w.maxSeq - seq < WindowSizeBits
       /\ w.maxSeq - seq \notin w.bitmap

\* Variants: nothing leaves the window; a shift by one bit too few.
ShiftRightKeeping(bitmap, n) == {d + n : d \in bitmap}
ShiftRightShort(bitmap, n) == {d + n - 1 : d \in bitmap} \cap Offsets

\* Ages every recorded counter by n; what leaves the window is forgotten.
\* The code's separate branch for n >= WindowSizeBits clears the bitmap,
\* which is what this does too.
ShiftRight(bitmap, n) == {d + n : d \in bitmap} \cap Offsets

\* The window CheckAndAdd leaves behind when it answers true.
Add(w, seq) ==
    IF Untouched(w)
    THEN [maxSeq |-> seq, bitmap |-> w.bitmap \cup {0}]
    ELSE IF seq > w.maxSeq
         THEN [maxSeq |-> seq,
               bitmap |-> ShiftRight(w.bitmap, seq - w.maxSeq) \cup {0}]
         ELSE [w EXCEPT !.bitmap = @ \cup {w.maxSeq - seq}]

\* w is the window of a receiver that accepted exactly the counters acc.
Remembers(w, acc) ==
    /\ acc = {} => w = NewAntiReplayWindow
    /\ acc # {} =>
        /\ w.maxSeq \in acc
        /\ \A s \in acc : s <= w.maxSeq
        /\ w.bitmap = {d \in Offsets : w.maxSeq - d \in acc}
=============================================================================
