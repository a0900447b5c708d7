-------------------------- MODULE MCConsoleBrowser --------------------------
(* A small browser and console: an administrator the seed creates, and an  *)
(* account that is registered.                                             *)
EXTENDS ConsoleBrowser, TLC

CONSTANTS root, ann, t1, main, side, p1, p2

MCMain == [i \in {t1} |-> main]
MCSide == [i \in {t1} |-> side]
MCSymmetry == Permutations(Replicas)
=============================================================================
