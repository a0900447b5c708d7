-------------------------- MODULE MCConsoleFleet ---------------------------
(***************************************************************************)
(* A node of a user and one of the admin.  An agent reports while an       *)
(* operator works on the first node.  There are two scenes.  Either the    *)
(* second node is not there yet and no request is about it, then the owner *)
(* of the first may watch and the account be deleted; or nobody watches,   *)
(* accounts stay, and requests are those that addresses hang on.           *)
(***************************************************************************)
EXTENDS ConsoleFleet

CONSTANTS root, ann, n1, n2, agent, operator

MCOwnerOf == [n \in {n1, n2} |-> IF n = n1 THEN ann ELSE root]
MCKeyOf == [n \in {n1, n2} |-> n]
MCCalls ==
  [r \in {agent, operator} |->
     IF r = agent
       THEN {<<"telemetry", n1>>, <<"telemetry", n2>>, <<"create", n2>>}
       ELSE {"generate", "update", "delete", "quarantine", "lift", "attest", "telemetry"} \X {n1}]

OneNode == n2 \notin used /\ \A r \in Requests : Busy(r) => req[r].node = n1
Addresses == {"create", "generate", "delete", "attest", "telemetry"}
TwoNodes ==
  /\ sockets[ann].at = "away" /\ vanished = {} /\ accounts = Users
  /\ \A r \in Requests : req[r].op \in Addresses \cup {"read"}
Scene == root \in accounts /\ (OneNode \/ TwoNodes)
=============================================================================
