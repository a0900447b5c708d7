---------------------------- MODULE MCPolicySync ----------------------------
(***************************************************************************)
(* A client and an exit bridge.  One rule lets every node open connections *)
(* to the exit bridges, the other works in both directions.                *)
(***************************************************************************)
EXTENDS PolicySync, TLC

CONSTANTS client, bridge, all, exits

MCRoleGroups == client :> <<all>> @@ bridge :> <<all, exits>>
MCPolicyRules ==
    {[src |-> {all}, dst |-> {exits}, bidi |-> FALSE],
     [src |-> {exits}, dst |-> {all}, bidi |-> TRUE]}
=============================================================================
