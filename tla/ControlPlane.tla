---------------------------- MODULE ControlPlane ----------------------------
(***************************************************************************)
(* The control plane server of pkg/control: the registry of nodes, their   *)
(* overlay addresses (vip.go), their health and quarantine (pkg/posture)   *)
(* and the candidates of the routing engine (pkg/routing).                 *)
(*                                                                         *)
(* Every HTTP request runs in a goroutine of its own, here a handler, and  *)
(* takes the lock of one subsystem after the other; between two locks the  *)
(* steps of other handlers fall.  One action is one critical section.      *)
(*                                                                         *)
(* A posture policy is the check it makes, a host the checks it fails;     *)
(* target groups, scores and endpoints are left out.                       *)
(***************************************************************************)
EXTENDS Integers, FiniteSets, Sequences, SequencesExt

CONSTANTS
    Nodes,
    Handlers,           \* bound: requests served at the same time
    Exits, Relays,      \* the nodes whose role lets them be an exit, an entry
    Checks,             \* what posture policies may demand
    Fails,              \* Fails[n]: the checks the host of n does not meet
    BaseIPv4, MaxIPv4,  \* the first and the last overlay address
    MaxRegistrations,   \* bound: registrations
    MaxPolicyChanges,   \* bound: posture policies written or deleted
    None

ASSUME ControlPlaneAssumption ==
    /\ IsFiniteSet(Nodes) /\ Exits \subseteq Nodes /\ Relays \subseteq Nodes
    /\ Fails \in [Nodes -> SUBSET Checks]
    /\ BaseIPv4 \in Nat /\ MaxIPv4 \in Nat
    /\ MaxRegistrations \in Nat /\ MaxPolicyChanges \in Nat
    /\ None \notin Nodes

VARIABLES
    \* VIPAllocator
    nextOffset,
    allocated,      \* allocated[n]: overlay IPv4 of n, or -1
    \* Registry: a node has a record iff its record number is positive
    regs,           \* registrations so far; numbers the records
    record,         \* record[n]: number of n's record, 0 if it has none
    address,        \* address[n]: overlay addresses in n's latest record
    healthy,        \* healthy[n]: IsHealthy in n's latest record
    \* RoutingEngine, PostureEngine, PeerQuarantineManager
    candidates,
    policies, policyChanges,
    quarantined,
    \* handlers
    pc,             \* pc[h]: the critical section h enters next
    node,           \* node[h]: the node h serves
    addr,           \* addr[h]: handleRegister's v4 and v6
    snapshot,       \* snapshot[h]: policies EvaluateAttestation copied
    held,           \* held[h]: number of the record GetNode returned to h
    todo,           \* todo[h]: bridges or hops still to be looked at
    answer,         \* answer[h]: bridges or hops of the reply so far
    \* history
    answered,       \* answered[n]: the addresses n was ever told are its own
    barred,         \* barred[h]: quarantined ever since h's request came
    absent          \* absent[h]: without a record ever since h's request came

vipVars == <<nextOffset, allocated>>
registryVars == <<regs, record, address, healthy>>
postureVars == <<policies, policyChanges>>
localVars == <<node, addr, snapshot, held, todo, answer>>
vars == <<vipVars, registryVars, candidates, postureVars, quarantined,
          pc, localVars, answered, barred, absent>>

Registered == {n \in Nodes : record[n] # 0}

NoAddress == [v4 |-> -1, v6 |-> -1]

Init ==
    /\ nextOffset = 0
    /\ allocated = [n \in Nodes |-> -1]
    /\ regs = 0
    /\ record = [n \in Nodes |-> 0]
    /\ address = [n \in Nodes |-> NoAddress]
    /\ healthy = [n \in Nodes |-> FALSE]
    /\ candidates = {}
    /\ policies = {}
    /\ policyChanges = 0
    /\ quarantined = {}
    /\ pc = [h \in Handlers |-> "idle"]
    /\ node = [h \in Handlers |-> None]
    /\ addr = [h \in Handlers |-> NoAddress]
    /\ snapshot = [h \in Handlers |-> {}]
    /\ held = [h \in Handlers |-> 0]
    /\ todo = [h \in Handlers |-> <<>>]
    /\ answer = [h \in Handlers |-> {}]
    /\ answered = [n \in Nodes |-> {}]
    /\ barred = [h \in Handlers |-> {}]
    /\ absent = [h \in Handlers |-> {}]

\* h has sent its reply; its locals are gone.
Reply(h) ==
    /\ pc' = [pc EXCEPT ![h] = "idle"]
    /\ node' = [node EXCEPT ![h] = None]
    /\ addr' = [addr EXCEPT ![h] = NoAddress]
    /\ snapshot' = [snapshot EXCEPT ![h] = {}]
    /\ held' = [held EXCEPT ![h] = 0]
    /\ todo' = [todo EXCEPT ![h] = <<>>]
    /\ answer' = [answer EXCEPT ![h] = {}]

GoTo(h, section) == pc' = [pc EXCEPT ![h] = section]
-----------------------------------------------------------------------------
(* handleRegister *)

\* Variant: the IPv6 suffix off by one.
KnownBefore(n) == [v4 |-> allocated[n], v6 |-> allocated[n] - BaseIPv4 + 1]

\* Allocate: a known node gets its address back, a new one the next offset.
\* An exhausted pool is answered with an error and changes nothing.
Known(n) == [v4 |-> allocated[n], v6 |-> allocated[n] - BaseIPv4 + 2]

\* Variant: the IPv4 address is taken after the counter was advanced, too.
FreshLate == [v4 |-> BaseIPv4 + (nextOffset + 1), v6 |-> (nextOffset + 1) + 1]

\* The IPv6 suffix is taken after the counter was advanced.
Fresh == [v4 |-> BaseIPv4 + nextOffset, v6 |-> (nextOffset + 1) + 1]

Allocate(h, n) ==
    /\ pc[h] = "idle"
    /\ regs + Cardinality({g \in Handlers : pc[g] = "RegisterNode"})
            < MaxRegistrations
    /\ \/ /\ allocated[n] # -1
          /\ addr' = [addr EXCEPT ![h] = Known(n)]
          /\ UNCHANGED vipVars
       \/ /\ allocated[n] = -1
          /\ BaseIPv4 + nextOffset <= MaxIPv4
          /\ nextOffset' = nextOffset + 1
          /\ allocated' = [allocated EXCEPT ![n] = BaseIPv4 + nextOffset]
          /\ addr' = [addr EXCEPT ![h] = Fresh]
    /\ node' = [node EXCEPT ![h] = n]
    /\ GoTo(h, "RegisterNode")
    /\ UNCHANGED <<registryVars, candidates, postureVars, quarantined,
                   snapshot, held, todo, answer, answered, barred, absent>>

RegisterNode(h) ==
    LET n == node[h] IN
    /\ pc[h] = "RegisterNode"
    /\ regs' = regs + 1
    /\ record' = [record EXCEPT ![n] = regs + 1]
    /\ address' = [address EXCEPT ![n] = addr[h]]
    /\ healthy' = [healthy EXCEPT ![n] = TRUE]
    /\ absent' = [g \in Handlers |-> absent[g] \ {n}]
    /\ GoTo(h, "AddCandidate")
    /\ UNCHANGED <<vipVars, candidates, postureVars, quarantined, localVars,
                   answered, barred>>

\* AddCandidate, and the reply that tells the node its addresses.
AddCandidate(h) ==
    LET n == node[h] IN
    /\ pc[h] = "AddCandidate"
    /\ candidates' = candidates \cup {n}
    /\ answered' = [answered EXCEPT ![n] = @ \cup {addr[h]}]
    /\ Reply(h)
    /\ UNCHANGED <<vipVars, registryVars, postureVars, quarantined,
                   barred, absent>>
-----------------------------------------------------------------------------
(* handleHeartbeat.  An attestation names the node it is about, and that   *)
(* node is evaluated (server.go:409); here it is the node that reports, as *)
(* in every heartbeat of cmd/sovereign-node.                               *)

Heartbeat(h, n, withPosture) ==
    /\ pc[h] = "idle"
    /\ n \in Registered
    /\ healthy' = [healthy EXCEPT ![n] = TRUE]
    /\ IF withPosture
       THEN /\ node' = [node EXCEPT ![h] = n]
            /\ GoTo(h, "CopyPolicies")
       ELSE UNCHANGED <<node, pc>>
    /\ UNCHANGED <<vipVars, regs, record, address, candidates, postureVars,
                   quarantined, addr, snapshot, held, todo, answer,
                   answered, barred, absent>>

\* EvaluateAttestation up to its RUnlock.
CopyPolicies(h) ==
    /\ pc[h] = "CopyPolicies"
    /\ snapshot' = [snapshot EXCEPT ![h] = policies]
    /\ GoTo(h, "Verdict")
    /\ UNCHANGED <<vipVars, registryVars, candidates, postureVars, quarantined,
                   node, addr, held, todo, answer, answered, barred, absent>>

Compliant(n, demanded) == Fails[n] \cap demanded = {}

\* Variant: nobody leaves quarantine.
SentenceForLife(n, ok) == IF ok THEN quarantined ELSE quarantined \cup {n}

\* QuarantinePeer or UnquarantinePeer.
Sentence(n, ok) == IF ok THEN quarantined \ {n} ELSE quarantined \cup {n}

\* EvaluateAttestation from its RUnlock on: it judges the copied policies and
\* moves the node into or out of quarantine.
Verdict(h) ==
    LET ok == Compliant(node[h], snapshot[h]) IN
    /\ pc[h] = "Verdict"
    /\ quarantined' = Sentence(node[h], ok)
    /\ \/ ok /\ Reply(h)
       \/ ~ok /\ GoTo(h, "GetNode") /\ UNCHANGED localVars
    /\ barred' = [g \in Handlers |-> barred[g] \cap quarantined']
    /\ UNCHANGED <<vipVars, registryVars, candidates, postureVars,
                   answered, absent>>

\* The handler of a violating node looks up its record ...
GetNode(h) ==
    /\ pc[h] = "GetNode"
    /\ IF node[h] \in Registered
       THEN /\ held' = [held EXCEPT ![h] = record[node[h]]]
            /\ GoTo(h, "MarkUnhealthy")
            /\ UNCHANGED <<node, addr, snapshot, todo, answer>>
       ELSE Reply(h)
    /\ UNCHANGED <<vipVars, registryVars, candidates, postureVars, quarantined,
                   answered, barred, absent>>

\* ... and writes IsHealthy in it without a lock.  By then the record may
\* have been replaced or deleted: the write is lost with it.
MarkUnhealthy(h) ==
    LET n == node[h] IN
    /\ pc[h] = "MarkUnhealthy"
    /\ healthy' = IF record[n] = held[h] THEN [healthy EXCEPT ![n] = FALSE]
                                         ELSE healthy
    /\ Reply(h)
    /\ UNCHANGED <<vipVars, regs, record, address, candidates, postureVars,
                   quarantined, answered, barred, absent>>
-----------------------------------------------------------------------------
(* handleDiscover and handleCircuit *)

\* Variant: a quarantined node that reported since is let pass.
IsQuarantinedAndSilent(n) == n \in quarantined /\ ~healthy[n]

IsQuarantined(n) == n \in quarantined

\* The request arrives: from here on the history records what stayed true.
Arrive(h) ==
    /\ pc[h] = "idle"
    /\ barred' = [barred EXCEPT ![h] = quarantined]
    /\ absent' = [absent EXCEPT ![h] = Nodes \ Registered]

\* With the reply the history of the request ends.
Forget(h) ==
    /\ barred' = [barred EXCEPT ![h] = {}]
    /\ absent' = [absent EXCEPT ![h] = {}]

\* DiscoverBridges visits a map, in any order.
Discover(h) ==
    /\ Arrive(h)
    /\ \E order \in SetToSeqs({n \in Registered \cap Exits : healthy[n]}) :
            todo' = [todo EXCEPT ![h] = order]
    /\ GoTo(h, "FilterBridge")
    /\ UNCHANGED <<vipVars, registryVars, candidates, postureVars, quarantined,
                   node, addr, snapshot, held, answer, answered>>

\* One round of handleDiscover's loop, or the reply after the last one.
FilterBridge(h) ==
    /\ pc[h] = "FilterBridge"
    /\ IF todo[h] = <<>>
       THEN Reply(h) /\ Forget(h)
       ELSE /\ todo' = [todo EXCEPT ![h] = Tail(@)]
            /\ answer' = [answer EXCEPT ![h] =
                            @ \cup {n \in {Head(todo[h])} : ~IsQuarantined(n)}]
            /\ UNCHANGED <<pc, node, addr, snapshot, held, barred, absent>>
    /\ UNCHANGED <<vipVars, registryVars, candidates, postureVars, quarantined,
                   answered>>

\* The circuits BuildOnionCircuit may come up with, entry first.
Circuits ==
    {hops \in Relays \X Nodes \X Exits :
        /\ {hops[1], hops[2], hops[3]} \subseteq candidates
        /\ hops[1] # hops[3]
        /\ hops[2] \notin {hops[1], hops[3]}}

BuildOnionCircuit(h) ==
    /\ Arrive(h)
    /\ \E hops \in Circuits : todo' = [todo EXCEPT ![h] = hops]
    /\ GoTo(h, "CheckHop")
    /\ UNCHANGED <<vipVars, registryVars, candidates, postureVars, quarantined,
                   node, addr, snapshot, held, answer, answered>>

\* One round of handleCircuit's loop; a quarantined hop ends the request.
CheckHop(h) ==
    /\ pc[h] = "CheckHop"
    /\ IF todo[h] = <<>> \/ IsQuarantined(Head(todo[h]))
       THEN Reply(h) /\ Forget(h)
       ELSE /\ todo' = [todo EXCEPT ![h] = Tail(@)]
            /\ answer' = [answer EXCEPT ![h] = @ \cup {Head(todo[h])}]
            /\ UNCHANGED <<pc, node, addr, snapshot, held, barred, absent>>
    /\ UNCHANGED <<vipVars, registryVars, candidates, postureVars, quarantined,
                   answered>>
-----------------------------------------------------------------------------
(* The management API (pkg/management/server.go) *)

\* DELETE /api/v4/peers/<n>: only the registry forgets the node.
DeleteNode(n) ==
    /\ n \in Registered
    /\ record' = [record EXCEPT ![n] = 0]
    /\ UNCHANGED <<vipVars, regs, address, healthy, candidates, postureVars,
                   quarantined, pc, localVars, answered, barred, absent>>

\* POST, PUT and DELETE /api/v4/posture-checks.
ChangePolicy(c) ==
    /\ policyChanges < MaxPolicyChanges
    /\ policyChanges' = policyChanges + 1
    /\ \/ policies' = policies \cup {c}
       \/ c \in policies /\ policies' = policies \ {c}
    /\ UNCHANGED <<vipVars, registryVars, candidates, quarantined, pc,
                   localVars, answered, barred, absent>>
-----------------------------------------------------------------------------
\* A handler goes on with the request it serves.
Proceed(h) ==
    \/ RegisterNode(h) \/ AddCandidate(h)
    \/ CopyPolicies(h) \/ Verdict(h) \/ GetNode(h) \/ MarkUnhealthy(h)
    \/ FilterBridge(h) \/ CheckHop(h)

Next ==
    \/ \E h \in Handlers :
        \/ Discover(h) \/ BuildOnionCircuit(h)
        \/ Proceed(h)
        \/ \E n \in Nodes :
            Allocate(h, n) \/ \E wp \in BOOLEAN : Heartbeat(h, n, wp)
    \/ \E n \in Nodes : DeleteNode(n)
    \/ \E c \in Checks : ChangePolicy(c)

\* Goroutines run, and a registered node reports every 15 seconds.  The
\* server starts a goroutine for each request, so other requests cannot keep
\* a heartbeat out: the bound on handlers asks for strong fairness.
Fairness ==
    /\ \A h \in Handlers : WF_vars(Proceed(h))
    /\ \A n \in Nodes : SF_vars(\E h \in Handlers : Heartbeat(h, n, TRUE))

Spec == Init /\ [][Next]_vars
FairSpec == Spec /\ Fairness
-----------------------------------------------------------------------------
AddressRecord == [v4 : Int, v6 : Int]

Sections == {"idle", "RegisterNode", "AddCandidate", "CopyPolicies", "Verdict",
             "GetNode", "MarkUnhealthy", "FilterBridge", "CheckHop"}

TypeOK ==
    /\ nextOffset \in Nat
    /\ allocated \in [Nodes -> Int]
    /\ regs \in Nat
    /\ record \in [Nodes -> Nat]
    /\ address \in [Nodes -> AddressRecord]
    /\ healthy \in [Nodes -> BOOLEAN]
    /\ candidates \subseteq Nodes
    /\ policies \subseteq Checks
    /\ policyChanges \in Nat
    /\ quarantined \subseteq Nodes
    /\ pc \in [Handlers -> Sections]
    /\ node \in [Handlers -> Nodes \cup {None}]
    /\ addr \in [Handlers -> AddressRecord]
    /\ snapshot \in [Handlers -> SUBSET Checks]
    /\ held \in [Handlers -> Nat]
    /\ todo \in [Handlers -> Seq(Nodes)]
    /\ answer \in [Handlers -> SUBSET Nodes]
    /\ answered \in [Nodes -> SUBSET AddressRecord]
    /\ barred \in [Handlers -> SUBSET Nodes]
    /\ absent \in [Handlers -> SUBSET Nodes]

\* An overlay address is an identity: over all registrations a node is told
\* the same pair of addresses, and no two nodes ever share one of them, not
\* even with a node that was deleted since.
AddressesAreIdentities ==
    \A n, m \in Nodes : \A a \in answered[n], b \in answered[m] :
        IF n = m THEN a = b ELSE a.v4 # b.v4 /\ a.v6 # b.v6

\* The record a lookup finds carries the addresses its node was told,
\* however registrations of one node and of others interleave.
RecordsCarryTheirAddress ==
    \A n \in Registered :
        /\ address[n].v4 = allocated[n]
        /\ \A a \in answered[n] : address[n] = a

\* A node that is in quarantine from the moment a request arrives is in no
\* bridge list and in no circuit that request is answered with, and a bridge
\* list has no node that was deleted before the request either.
OffersAreFit ==
    \A h \in Handlers :
        /\ answer[h] \cap barred[h] = {}
        /\ pc[h] = "FilterBridge" => answer[h] \cap absent[h] = {}

Discoverable(n) == n \in Registered /\ healthy[n] /\ n \notin quarantined

\* Whatever verdicts on outdated policies were under way: once the policies
\* stay as they are, a node that keeps reporting is discoverable for good if
\* it meets them, and never again if it does not.
DiscoverySettles ==
    \A n \in Nodes :
        <>[](n \in Registered) =>
            \/ <>[](Compliant(n, policies) /\ Discoverable(n))
            \/ <>[](~Compliant(n, policies) /\ ~Discoverable(n))
=============================================================================
