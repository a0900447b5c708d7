-------------------------- MODULE MCSessionRatchet --------------------------
(***************************************************************************)
(* One direction of a session: the initiator sends, two threads of the     *)
(* responder decrypt.  Three generations let a half go from active over    *)
(* previous to wiped while frames of it are still in the network.          *)
(***************************************************************************)
EXTENDS SessionRatchet, TLC

CONSTANTS a, b, t1, t2

MCOwner == t1 :> b @@ t2 :> b
Symmetry == Permutations({t1, t2})
=============================================================================
