--------------------------- MODULE MCControlPlane ---------------------------
(***************************************************************************)
(* Three nodes, the fewest a circuit needs: an exit bridge whose host      *)
(* fails the one check there is, a hybrid and a relay.  Two requests are   *)
(* served at the same time.                                                *)
(***************************************************************************)
EXTENDS ControlPlane, TLC

CONSTANTS bridge, hybrid, relay, disk, h1, h2

MCFails == bridge :> {disk} @@ hybrid :> {} @@ relay :> {}
MCFails2 == bridge :> {disk} @@ hybrid :> {}
Symmetry == Permutations({h1, h2})
=============================================================================
