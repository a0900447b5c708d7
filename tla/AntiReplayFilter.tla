-------------------------- MODULE AntiReplayFilter --------------------------
(***************************************************************************)
(* What an anti-replay filter promises, stated with unbounded memory: it   *)
(* accepts a counter that it has not accepted before and that lies less    *)
(* than WindowSizeBits behind the highest accepted one.                    *)
(***************************************************************************)
EXTENDS Integers

CONSTANTS WindowSizeBits, Seqs

VARIABLE seen   \* seen[seq]: how often seq was accepted since the last Clear

Acceptable(seq) ==
    /\ seen[seq] = 0
    /\ \A s \in Seqs : seen[s] > 0 => s - seq < WindowSizeBits

NoneSeen == [seq \in Seqs |-> 0]

Init == seen = NoneSeen

Accept(seq) == Acceptable(seq) /\ seen' = [seen EXCEPT ![seq] = 1]

Clear == seen' = NoneSeen

Next == Clear \/ \E seq \in Seqs : Accept(seq)

Spec == Init /\ [][Next]_seen
=============================================================================
