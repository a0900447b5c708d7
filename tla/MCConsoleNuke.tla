--------------------------- MODULE MCConsoleNuke ---------------------------
(***************************************************************************)
(* An administrator with two nodes, a user with an app, one who registers, *)
(* and one who sets and cancels schedules.  Who is signed in to the panel  *)
(* makes the scene.  Beside the panels of root and ann one request at a    *)
(* time wipes, sweeps, unlocks or asks for the canary, while things are     *)
(* created; beside the panel of cal one request sweeps while another       *)
(* schedules and cancels, and nothing else happens.                        *)
(***************************************************************************)
EXTENDS ConsoleNuke, TLC

CONSTANTS root, ann, bea, cal, n1, n2, app, panelSlot, other, another

MCOwnerOf == [x \in {n1, n2, app} |-> IF x = app THEN ann ELSE root]
MCSymmetry == Permutations({n1, n2})
MCOffered ==
  [u \in {root, ann, cal} |-> [r \in {panelSlot, other, another} |->
     CASE r = other /\ u # cal -> {"wipe", "canary", "unlock", "sweep"}
       [] r = other /\ u = cal -> {"sweep"}
       [] r = another /\ u = cal -> {"schedule", "cancel"}
       [] OTHER -> {}]]

Scene == panel.me = cal => things = {} /\ unused = Newcomers
=============================================================================
