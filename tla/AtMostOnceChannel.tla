-------------------------- MODULE AtMostOnceChannel --------------------------
(***************************************************************************)
(* What a session promises to the code above it: a plaintext comes out of  *)
(* the channel only if the peer put it in, and then at most once, whatever *)
(* the network does to the frames.                                         *)
(***************************************************************************)
EXTENDS Naturals

CONSTANT Message

VARIABLES
    sent,       \* the messages the senders sealed
    received    \* received[m]: how often m was handed to its receiver

Init ==
    /\ sent = {}
    /\ received = [m \in Message |-> 0]

Send(m) ==
    /\ m \notin sent
    /\ sent' = sent \cup {m}
    /\ UNCHANGED received

Deliver(m) ==
    /\ m \in sent
    /\ received[m] = 0
    /\ received' = [received EXCEPT ![m] = 1]
    /\ UNCHANGED sent

Next == \E m \in Message : Send(m) \/ Deliver(m)

Spec == Init /\ [][Next]_<<sent, received>>
=============================================================================
