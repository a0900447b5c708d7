-------------------------- MODULE MCSecurityDaemon --------------------------
(***************************************************************************)
(* x and the whitelisted w share a subnet.  The threshold is just above    *)
(* one probe: two in a tick cross it.  A tick is three half-lives, so what *)
(* is left of a probe still takes one in the next tick over the threshold, *)
(* and may have been tidied away another tick later.  A ban ends within    *)
(* the tick, an alert silences the rest of it, the queue holds one.        *)
(***************************************************************************)
EXTENDS SecurityDaemon

MCSubnetOf == [ip \in IPs |-> "net"]
=============================================================================
