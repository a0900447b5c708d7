--------------------------- MODULE PolicyRegister ---------------------------
(***************************************************************************)
(* What the distribution of policy promises: each node reads a register    *)
(* that holds what the policy opens for it, whenever it likes, and uses    *)
(* what it read some time later or not at all.  A read looks the peers up  *)
(* one at a time, but is of one moment: what was looked up is all that the *)
(* policy opens at that moment, and its number is the policy's.  A peer is *)
(* left out only if it had no record when it was looked up.  The number    *)
(* rises with every change of the policy, and no node goes back to an      *)
(* older one.                                                              *)
(***************************************************************************)
EXTENDS Naturals

CONSTANT Nodes

Entry == {"out", "in"} \X Nodes
NoTable == [epoch |-> 0, open |-> {}]

VARIABLES
    registered, \* nodes with a record
    epoch,      \* number of the policy
    opens,      \* opens[n]: what the policy opens for n
    found,      \* found[n], missed[n]: what n's read has looked up so far,
    missed,     \* with and without a record
    ready,      \* ready[n]: what n has read and not yet used, or NoTable
    installed   \* installed[n]: what n uses

vars == <<registered, epoch, opens, found, missed, ready, installed>>

Init ==
    /\ registered = {}
    /\ epoch = 1
    /\ opens = [n \in Nodes |-> {}]
    /\ found = [n \in Nodes |-> {}]
    /\ missed = [n \in Nodes |-> {}]
    /\ ready = [n \in Nodes |-> NoTable]
    /\ installed = [n \in Nodes |-> NoTable]

Enter(n) ==
    /\ registered' = registered \cup {n}
    /\ UNCHANGED <<epoch, opens, found, missed, ready, installed>>

Leave(n) ==
    /\ registered' = registered \ {n}
    /\ UNCHANGED <<epoch, opens, found, missed, ready, installed>>

Change ==
    /\ epoch' = epoch + 1
    /\ opens' \in [Nodes -> SUBSET Entry]
    /\ UNCHANGED <<registered, found, missed, ready, installed>>

LookUp(n, e) ==
    /\ e \in opens[n] \ (found[n] \cup missed[n])
    /\ \/ /\ e[2] \in registered
          /\ found' = [found EXCEPT ![n] = @ \cup {e}]
          /\ UNCHANGED missed
       \/ /\ e[2] \notin registered
          /\ missed' = [missed EXCEPT ![n] = @ \cup {e}]
          /\ UNCHANGED found
    /\ UNCHANGED <<registered, epoch, opens, ready, installed>>

Read(n) ==
    /\ opens[n] = found[n] \cup missed[n]
    /\ ready' = [ready EXCEPT ![n] = [epoch |-> epoch, open |-> found[n]]]
    /\ found' = [found EXCEPT ![n] = {}]
    /\ missed' = [missed EXCEPT ![n] = {}]
    /\ UNCHANGED <<registered, epoch, opens, installed>>

Install(n) ==
    /\ ready[n] # NoTable
    /\ ready[n].epoch >= installed[n].epoch
    /\ installed' = [installed EXCEPT ![n] = ready[n]]
    /\ ready' = [ready EXCEPT ![n] = NoTable]
    /\ UNCHANGED <<registered, epoch, opens, found, missed>>

Forget(n) ==
    /\ ready' = [ready EXCEPT ![n] = NoTable]
    /\ UNCHANGED <<registered, epoch, opens, found, missed, installed>>

Next ==
    \/ Change
    \/ \E n \in Nodes :
        \/ Enter(n) \/ Leave(n)
        \/ \E e \in Entry : LookUp(n, e)
        \/ Read(n) \/ Install(n) \/ Forget(n)

Spec == Init /\ [][Next]_vars
=============================================================================
