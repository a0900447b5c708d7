---------------------------- MODULE MCDerpRelay ----------------------------
(***************************************************************************)
(* Alice on one connection; Bob on one that breaks and on one he dials     *)
(* again, before or after the relay notices the break.                     *)
(***************************************************************************)
EXTENDS DerpRelay, TLC

CONSTANTS alice, bob, a1, b1, b2

MCKeyOf == a1 :> alice @@ b1 :> bob @@ b2 :> bob
=============================================================================
