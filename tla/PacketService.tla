---------------------------- MODULE PacketService ----------------------------
(***************************************************************************)
(* What the relay promises to its clients: a datagram service.  A packet   *)
(* may be lost, at any time and for no reason.  One that is not reaches    *)
(* one connection of the key it is for, once, as it was sent and with the  *)
(* sender's key, and overtakes no packet of its sender that came before    *)
(* it.                                                                     *)
(***************************************************************************)
EXTENDS Naturals, Sequences

CONSTANTS Keys, Conns, KeyOf

VARIABLES
    sent,       \* number of packets the clients sent
    underWay,   \* the packets that may still arrive
    delivered   \* delivered[c]: what c was handed

Init ==
    /\ sent = 0
    /\ underWay = {}
    /\ delivered = [c \in Conns |-> <<>>]

Send(c, k) ==
    /\ sent' = sent + 1
    /\ underWay' = underWay \cup {[from |-> c, dest |-> k, id |-> sent + 1]}
    /\ UNCHANGED delivered

Lose ==
    /\ underWay' \in SUBSET underWay
    /\ UNCHANGED <<sent, delivered>>

Deliver(c, p) ==
    /\ p \in underWay
    /\ p.dest = KeyOf[c]
    /\ \A i \in 1 .. Len(delivered[c]) :
        LET q == delivered[c][i].payload IN q.from = p.from => q.id < p.id
    /\ underWay' = underWay \ {p}
    /\ delivered' = [delivered EXCEPT ![c] =
                        Append(@, [type |-> "recv", src |-> KeyOf[p.from], payload |-> p])]
    /\ UNCHANGED sent

Next ==
    \/ \E c \in Conns, k \in Keys : Send(c, k)
    \/ Lose
    \/ \E c \in Conns : \E p \in underWay : Deliver(c, p)

Spec == Init /\ [][Next]_<<sent, underWay, delivered>>
=============================================================================
