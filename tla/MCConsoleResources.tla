------------------------ MODULE MCConsoleResources -------------------------
(* An administrator and a user with a node; every account may be deleted.  *)
EXTENDS ConsoleResources

CONSTANTS root, ann, n1, n2

MCOwnerOf == [n \in {n1, n2} |-> IF n = n1 THEN ann ELSE root]
=============================================================================
