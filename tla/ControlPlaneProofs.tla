------------------------- MODULE ControlPlaneProofs -------------------------
(***************************************************************************)
(* The types of ControlPlane, that an overlay address is an identity, that *)
(* records carry it, and that a reply offers no node that was unfit all    *)
(* through the request, for any nodes, roles, posture checks and pool, and *)
(* any number of requests served at the same time.                         *)
(*                                                                         *)
(* What is told to a node, written in its record or still on its way in a  *)
(* handler is always the address the pool holds for it (Pool, Promised,    *)
(* Told, Recorded), and the pool gives no offset twice.  An offer is built *)
(* from a list read when the request came (Looked, Listed); the history of *)
(* what stayed unfit since then can only shrink (Barred).                  *)
(***************************************************************************)
EXTENDS ControlPlane, FiniteSetTheorems, SequenceTheorems, TLAPS

Registering(h) == pc[h] \in {"RegisterNode", "AddCandidate"}
Reporting(h) == pc[h] \in {"CopyPolicies", "Verdict", "GetNode", "MarkUnhealthy"}
Offering(h) == pc[h] \in {"FilterBridge", "CheckHop"}

\* A handler that registers a node or takes its report has the node in hand.
Serving == \A h \in Handlers : Registering(h) \/ Reporting(h) => node[h] \in Nodes

\* The pool has given each node an offset of its own, once.
Pool ==
    /\ \A n \in Nodes : allocated[n] # -1 => allocated[n] - BaseIPv4 \in 0 .. nextOffset - 1
    /\ \A n, m \in Nodes : n # m /\ allocated[n] # -1 => allocated[n] # allocated[m]

Owns(n, a) == allocated[n] # -1 /\ a = Known(n)

Promised == \A h \in Handlers : Registering(h) => Owns(node[h], addr[h])
Told == \A n \in Nodes : \A a \in answered[n] : Owns(n, a)
Recorded == \A n \in Registered : Owns(n, address[n])

Barred == \A h \in Handlers : barred[h] \subseteq quarantined
Looked == \A h \in Handlers :
    /\ ~Offering(h) => answer[h] = {}
    /\ Offering(h) => answer[h] \cap barred[h] = {}
Listed == \A h \in Handlers : pc[h] = "FilterBridge" =>
    /\ \A i \in 1 .. Len(todo[h]) : todo[h][i] \notin absent[h]
    /\ answer[h] \cap absent[h] = {}

Addresses == Pool /\ Promised /\ Told /\ Recorded
Offers == Barred /\ Looked /\ Listed
IInv == TypeOK /\ Serving /\ Addresses /\ Offers
-----------------------------------------------------------------------------
\* Every listing of a set of nodes is a sequence of nodes of that set.
LEMMA ListingIsSeq ==
    ASSUME NEW S \in SUBSET Nodes, NEW order \in SetToSeqs(S)
    PROVE  order \in Seq(Nodes) /\ \A i \in 1 .. Len(order) : order[i] \in S
<1>1. Cardinality(S) \in Nat
    BY ControlPlaneAssumption, FS_Subset, FS_CardinalityType
<1>2. order \in [1 .. Cardinality(S) -> S]
    BY DEF SetToSeqs
<1>3. order \in Seq(S) /\ Len(order) = Cardinality(S)
    BY <1>1, <1>2
<1>4. order \in Seq(Nodes)
    BY <1>3, SeqMonotonic
<1> QED
    BY <1>2, <1>3, <1>4

\* A circuit is a sequence of nodes.
LEMMA CircuitIsSeq == ASSUME NEW hops \in Circuits PROVE hops \in Seq(Nodes)
<1>1. PICK e \in Relays, i \in Nodes, x \in Exits : hops = <<e, i, x>>
    BY DEF Circuits
<1> QED
    BY <1>1, ControlPlaneAssumption

\* What one round of a handler's loop leaves of its list.
LEMMA TailIsSeq ==
    ASSUME NEW q \in Seq(Nodes), q # <<>>
    PROVE  /\ Head(q) \in Nodes /\ Head(q) = q[1] /\ Tail(q) \in Seq(Nodes)
           /\ Len(q) \in Nat \ {0} /\ Len(Tail(q)) = Len(q) - 1
           /\ \A i \in 1 .. Len(Tail(q)) : Tail(q)[i] = q[i + 1] /\ i + 1 \in 1 .. Len(q)
BY HeadTailProperties, LenProperties

LEMMA InitIInv == Init => IInv
<1> SUFFICES ASSUME Init PROVE IInv
    OBVIOUS
<1>1. TypeOK
    BY EmptySeq DEF Init, TypeOK, AddressRecord, NoAddress, Sections
<1>2. Serving /\ Addresses
    BY DEF Init, Serving, Registering, Reporting, Addresses, Pool, Promised, Told, Recorded,
           Registered
<1>3. Offers
    BY DEF Init, Offers, Barred, Looked, Listed, Offering
<1> QED
    BY <1>1, <1>2, <1>3 DEF IInv
-----------------------------------------------------------------------------
\* A reply leaves the other handlers alone.
LEMMA ReplyIsOwn ==
    ASSUME TypeOK, NEW h \in Handlers, Reply(h)
    PROVE  /\ pc'[h] = "idle" /\ answer'[h] = {}
           /\ \A g \in Handlers \ {h} :
                /\ pc'[g] = pc[g] /\ node'[g] = node[g] /\ addr'[g] = addr[g]
                /\ todo'[g] = todo[g] /\ answer'[g] = answer[g]
BY DEF TypeOK, Reply

LEMMA ReplyTypes ==
    ASSUME TypeOK, NEW h \in Handlers, Reply(h)
    PROVE  /\ pc' \in [Handlers -> Sections]
           /\ node' \in [Handlers -> Nodes \cup {None}]
           /\ addr' \in [Handlers -> AddressRecord]
           /\ snapshot' \in [Handlers -> SUBSET Checks]
           /\ held' \in [Handlers -> Nat]
           /\ todo' \in [Handlers -> Seq(Nodes)]
           /\ answer' \in [Handlers -> SUBSET Nodes]
BY EmptySeq DEF TypeOK, Reply, Sections, AddressRecord, NoAddress

\* What keeps every address where it is: nothing new is promised or recorded.
LEMMA AddressesKept ==
    ASSUME Addresses, UNCHANGED <<vipVars, address, answered>>, Registered' \subseteq Registered,
           \A g \in Handlers : Registering(g)' =>
                Registering(g) /\ node'[g] = node[g] /\ addr'[g] = addr[g]
    PROVE  Addresses'
<1>1. \A m \in Nodes : \A a : Owns(m, a)' = Owns(m, a)
    BY DEF Owns, Known, vipVars
<1>2. Pool'
    BY DEF Addresses, Pool, vipVars
<1>3. Promised'
    BY DEF Addresses, Promised, Owns, Known, vipVars
<1>4. Told' /\ Recorded'
    BY <1>1 DEF Addresses, Told, Recorded, Registered
<1> QED
    BY <1>2, <1>3, <1>4 DEF Addresses

\* What keeps every offer fit: lists and offers stay as they are or end, and
\* nobody leaves quarantine or the registry meanwhile.
LEMMA OffersKept ==
    ASSUME Offers, UNCHANGED quarantined, UNCHANGED barred,
           \A g \in Handlers : absent'[g] \subseteq absent[g],
           \A g \in Handlers :
                \/ ~Offering(g)' /\ answer'[g] = {}
                \/ pc'[g] = pc[g] /\ todo'[g] = todo[g] /\ answer'[g] = answer[g]
    PROVE  Offers'
<1>1. Barred'
    BY DEF Offers, Barred
<1>2. Looked'
    BY DEF Offers, Looked, Offering
<1>3. Listed'
    BY DEF Offers, Listed, Offering
<1> QED
    BY <1>1, <1>2, <1>3 DEF Offers

LEMMA AllocateIInv ==
    ASSUME IInv, NEW h \in Handlers, NEW n \in Nodes, Allocate(h, n)
    PROVE  IInv'
<1> USE ControlPlaneAssumption DEF IInv
<1>0. Known(n) \in AddressRecord /\ Fresh \in AddressRecord
    BY DEF TypeOK, Known, Fresh, AddressRecord
<1>1. TypeOK'
  <2>1. nextOffset' \in Nat /\ allocated' \in [Nodes -> Int]
    BY DEF TypeOK, Allocate, vipVars
  <2>2. addr' \in [Handlers -> AddressRecord]
    <3>1. addr' = [addr EXCEPT ![h] = Known(n)] \/ addr' = [addr EXCEPT ![h] = Fresh]
      BY DEF Allocate
    <3> QED
      BY <1>0, <3>1 DEF TypeOK
  <2>3. pc' \in [Handlers -> Sections] /\ node' \in [Handlers -> Nodes \cup {None}]
    BY DEF TypeOK, Allocate, GoTo, Sections
  <2> QED
    BY <2>1, <2>2, <2>3 DEF TypeOK, Allocate, registryVars, postureVars
<1>2. Serving'
    BY DEF TypeOK, Serving, Registering, Reporting, Allocate, GoTo
<1>3. Pool'
  <2>1. CASE UNCHANGED vipVars
    BY <2>1 DEF Addresses, Pool, vipVars
  <2>2. CASE /\ allocated[n] = -1 /\ nextOffset' = nextOffset + 1
             /\ allocated' = [allocated EXCEPT ![n] = BaseIPv4 + nextOffset]
    <3>1. allocated'[n] = BaseIPv4 + nextOffset /\ nextOffset \in Nat
      BY <2>2 DEF TypeOK
    <3>2. \A m \in Nodes \ {n} : allocated'[m] = allocated[m] /\ allocated[m] \in Int
      BY <2>2 DEF TypeOK
    <3>3. \A m \in Nodes : allocated[m] # -1 => allocated[m] - BaseIPv4 < nextOffset
      BY <3>1 DEF Addresses, Pool
    <3> QED
      BY <2>2, <3>1, <3>2, <3>3 DEF Addresses, Pool
  <2> QED
    BY <2>1, <2>2 DEF Allocate
<1>4. /\ \A m \in Nodes : \A a : Owns(m, a) => Owns(m, a)'
      /\ Owns(n, addr[h])'
  <2>0. allocated \in [Nodes -> Int] /\ addr \in [Handlers -> AddressRecord]
    BY DEF TypeOK
  <2>1. CASE UNCHANGED vipVars /\ allocated[n] # -1 /\ addr' = [addr EXCEPT ![h] = Known(n)]
    <3>1. allocated' = allocated /\ addr'[h] = Known(n)
      BY <2>0, <2>1 DEF vipVars
    <3> QED
      BY <2>1, <3>1 DEF Owns, Known
  <2>2. CASE /\ allocated[n] = -1 /\ addr' = [addr EXCEPT ![h] = Fresh]
             /\ allocated' = [allocated EXCEPT ![n] = BaseIPv4 + nextOffset]
    <3>1. /\ addr'[h] = Fresh /\ allocated'[n] = BaseIPv4 + nextOffset
          /\ \A m \in Nodes \ {n} : allocated'[m] = allocated[m]
      BY <2>0, <2>2
    <3>2. BaseIPv4 + nextOffset # -1 /\ nextOffset \in Nat
      BY DEF TypeOK
    <3>3. Owns(n, addr[h])'
      BY <3>1, <3>2 DEF Owns, Known, Fresh
    <3>4. ASSUME NEW m \in Nodes, NEW a, Owns(m, a) PROVE Owns(m, a)'
      BY <2>2, <3>1, <3>4 DEF Owns, Known
    <3> QED
      BY <3>3, <3>4
  <2> QED
    BY <2>1, <2>2 DEF Allocate
<1>5. Addresses'
    BY <1>3, <1>4 DEF TypeOK, Addresses, Promised, Told, Recorded, Registered, Registering,
           Serving, Allocate, GoTo, registryVars
<1>6. Offers'
    BY DEF TypeOK, Offers, Barred, Looked, Listed, Offering, Allocate, GoTo
<1> QED
    BY <1>1, <1>2, <1>5, <1>6

LEMMA RegisterNodeIInv ==
    ASSUME IInv, NEW h \in Handlers, RegisterNode(h)
    PROVE  IInv'
<1> USE ControlPlaneAssumption DEF IInv
<1>0. node[h] \in Nodes
    BY DEF Serving, Registering, RegisterNode
<1>1. TypeOK'
    BY <1>0 DEF TypeOK, RegisterNode, GoTo, Sections, vipVars, localVars, postureVars
<1>2. Serving'
    BY DEF TypeOK, Serving, Registering, Reporting, RegisterNode, GoTo, localVars
<1>3. \A m \in Nodes : \A a : Owns(m, a)' = Owns(m, a)
    BY DEF Owns, Known, RegisterNode, vipVars
<1>4. Owns(node[h], addr[h])
    BY DEF Addresses, Promised, Registering, RegisterNode
<1>5. Pool' /\ Promised' /\ Told'
  <2>1. Pool'
    BY DEF Addresses, Pool, RegisterNode, vipVars
  <2>2. Told'
    BY <1>3 DEF Addresses, Told, RegisterNode
  <2>3. Promised'
    <3>1. \A g \in Handlers : Registering(g)' => Registering(g)
      BY DEF TypeOK, Registering, RegisterNode, GoTo
    <3> SUFFICES ASSUME NEW g \in Handlers, Registering(g)' PROVE Owns(node[g], addr[g])'
      BY DEF Promised
    <3> QED
      BY <3>1 DEF Addresses, Promised, Owns, Known, RegisterNode, localVars, vipVars
  <2> QED
    BY <2>1, <2>2, <2>3
<1>6. Recorded'
  <2> SUFFICES ASSUME NEW m \in Registered' PROVE Owns(m, address'[m])
    BY <1>3 DEF Recorded, Registered
  <2>1. CASE m = node[h]
    BY <1>0, <1>4, <2>1 DEF TypeOK, RegisterNode
  <2>2. CASE m # node[h]
    BY <1>0, <2>2 DEF TypeOK, Addresses, Recorded, Registered, RegisterNode
  <2> QED
    BY <2>1, <2>2
<1>7. Offers'
    BY DEF TypeOK, Offers, Barred, Looked, Listed, Offering, RegisterNode, GoTo, localVars
<1> QED
    BY <1>1, <1>2, <1>5, <1>6, <1>7 DEF Addresses

LEMMA AddCandidateIInv ==
    ASSUME IInv, NEW h \in Handlers, AddCandidate(h)
    PROVE  IInv'
<1> USE DEF IInv
<1>0. node[h] \in Nodes /\ Owns(node[h], addr[h]) /\ addr[h] \in AddressRecord
    BY DEF TypeOK, Serving, Addresses, Promised, Registering, AddCandidate
<1>1. TypeOK'
    BY <1>0, ReplyTypes DEF TypeOK, AddCandidate, vipVars, registryVars, postureVars
<1>2. Serving'
    BY ReplyIsOwn DEF Serving, Registering, Reporting, AddCandidate
<1>3. \A m \in Nodes : \A a : Owns(m, a)' = Owns(m, a)
    BY DEF Owns, Known, AddCandidate, vipVars
<1>4. Told'
    BY <1>0, <1>3 DEF TypeOK, Addresses, Told, AddCandidate
<1>5. Promised'
    BY ReplyIsOwn DEF Addresses, Promised, Registering, AddCandidate, Owns, Known, vipVars
<1>6. Pool' /\ Recorded'
    BY <1>3 DEF Addresses, Pool, Recorded, Registered, AddCandidate, vipVars, registryVars
<1>7. Offers'
    BY ReplyIsOwn, OffersKept DEF Offering, AddCandidate
<1> QED
    BY <1>1, <1>2, <1>4, <1>5, <1>6, <1>7 DEF Addresses

LEMMA HeartbeatIInv ==
    ASSUME IInv, NEW h \in Handlers, NEW n \in Nodes, NEW wp \in BOOLEAN, Heartbeat(h, n, wp)
    PROVE  IInv'
<1> USE DEF IInv
<1>1. TypeOK'
    BY DEF TypeOK, Heartbeat, GoTo, Sections, vipVars, postureVars
<1>2. Serving'
    BY DEF TypeOK, Serving, Registering, Reporting, Heartbeat, GoTo
<1>3. \A g \in Handlers : Registering(g)' => Registering(g) /\ node'[g] = node[g]
    BY DEF TypeOK, Registering, Heartbeat, GoTo
<1>4. Addresses'
    BY <1>3, AddressesKept DEF Registered, Heartbeat
<1>5. Offers'
    BY OffersKept DEF TypeOK, Offers, Looked, Offering, Heartbeat, GoTo
<1> QED
    BY <1>1, <1>2, <1>4, <1>5

LEMMA CopyPoliciesIInv ==
    ASSUME IInv, NEW h \in Handlers, CopyPolicies(h)
    PROVE  IInv'
<1> USE DEF IInv
<1>1. TypeOK'
    BY DEF TypeOK, CopyPolicies, GoTo, Sections, vipVars, registryVars, postureVars
<1>2. Serving'
    BY DEF TypeOK, Serving, Registering, Reporting, CopyPolicies, GoTo
<1>3. \A g \in Handlers : Registering(g)' => Registering(g)
    BY DEF TypeOK, Registering, CopyPolicies, GoTo
<1>4. Addresses'
    BY <1>3, AddressesKept DEF Registered, CopyPolicies, registryVars
<1>5. Offers'
    BY OffersKept DEF TypeOK, Offers, Looked, Offering, CopyPolicies, GoTo
<1> QED
    BY <1>1, <1>2, <1>4, <1>5

LEMMA VerdictIInv ==
    ASSUME IInv, NEW h \in Handlers, Verdict(h)
    PROVE  IInv'
<1> USE DEF IInv
<1>0. node[h] \in Nodes
    BY DEF Serving, Reporting, Verdict
<1>1. quarantined' \subseteq Nodes /\ barred' \in [Handlers -> SUBSET Nodes]
    BY <1>0 DEF TypeOK, Verdict, Sentence
<1>2. CASE Reply(h)
  <2>1. TypeOK'
    BY <1>1, <1>2, ReplyTypes DEF TypeOK, Verdict, vipVars, registryVars, postureVars
  <2>2. Serving'
    BY <1>2, ReplyIsOwn DEF Serving, Registering, Reporting, Verdict
  <2>3. Addresses'
    BY <1>2, ReplyIsOwn, AddressesKept DEF Registering, Registered, Verdict, registryVars
  <2>4. Barred' /\ Looked'
    BY <1>2, ReplyIsOwn DEF Offers, Barred, Looked, Offering, Verdict
  <2>5. Listed'
    BY <1>2, ReplyIsOwn DEF Offers, Listed, Verdict
  <2> QED
    BY <2>1, <2>2, <2>3, <2>4, <2>5 DEF Offers
<1>3. CASE GoTo(h, "GetNode") /\ UNCHANGED localVars
  <2>1. TypeOK'
    BY <1>1, <1>3 DEF TypeOK, Verdict, GoTo, Sections, vipVars, registryVars, postureVars, localVars
  <2>2. Serving'
    BY <1>3 DEF TypeOK, Serving, Registering, Reporting, Verdict, GoTo, localVars
  <2>3. \A g \in Handlers : Registering(g)' => Registering(g)
    BY <1>3 DEF TypeOK, Registering, Verdict, GoTo
  <2>4. Addresses'
    BY <1>3, <2>3, AddressesKept DEF Registered, Verdict, registryVars, localVars
  <2>5. \A g \in Handlers : (Offering(g)' <=> Offering(g))
                              /\ (pc'[g] = "FilterBridge" => pc[g] = "FilterBridge")
    BY <1>3 DEF TypeOK, Offering, Verdict, GoTo
  <2>6. Barred' /\ Looked'
    BY <1>3, <2>5 DEF Offers, Barred, Looked, Verdict, localVars
  <2>7. Listed'
    BY <1>3, <2>5 DEF Offers, Listed, Verdict, localVars
  <2> QED
    BY <2>1, <2>2, <2>4, <2>6, <2>7 DEF Offers
<1> QED
    BY <1>2, <1>3 DEF Verdict

LEMMA GetNodeIInv ==
    ASSUME IInv, NEW h \in Handlers, GetNode(h)
    PROVE  IInv'
<1> USE DEF IInv
<1>1. CASE Reply(h)
  <2>1. TypeOK'
    BY <1>1, ReplyTypes DEF TypeOK, GetNode, vipVars, registryVars, postureVars
  <2>2. Serving'
    BY <1>1, ReplyIsOwn DEF Serving, Registering, Reporting, GetNode
  <2>3. Addresses'
    BY <1>1, ReplyIsOwn, AddressesKept DEF Registering, Registered, GetNode, registryVars
  <2>4. Offers'
    BY <1>1, ReplyIsOwn, OffersKept DEF Offering, GetNode
  <2> QED
    BY <2>1, <2>2, <2>3, <2>4
<1>2. CASE /\ node[h] \in Registered /\ held' = [held EXCEPT ![h] = record[node[h]]]
           /\ GoTo(h, "MarkUnhealthy") /\ UNCHANGED <<node, addr, snapshot, todo, answer>>
  <2>1. TypeOK'
    BY <1>2 DEF TypeOK, Registered, GetNode, GoTo, Sections, vipVars, registryVars, postureVars
  <2>2. Serving'
    BY <1>2 DEF TypeOK, Serving, Registering, Reporting, GetNode, GoTo
  <2>3. \A g \in Handlers : Registering(g)' => Registering(g)
    BY <1>2 DEF TypeOK, Registering, GetNode, GoTo
  <2>4. Addresses'
    BY <1>2, <2>3, AddressesKept DEF Registered, GetNode, registryVars
  <2>5. Offers'
    BY <1>2, OffersKept DEF TypeOK, Offers, Looked, Offering, GetNode, GoTo
  <2> QED
    BY <2>1, <2>2, <2>4, <2>5
<1> QED
    BY <1>1, <1>2 DEF GetNode

LEMMA MarkUnhealthyIInv ==
    ASSUME IInv, NEW h \in Handlers, MarkUnhealthy(h)
    PROVE  IInv'
<1> USE DEF IInv
<1>1. TypeOK'
    BY ReplyTypes DEF TypeOK, MarkUnhealthy, vipVars, postureVars
<1>2. Serving'
    BY ReplyIsOwn DEF Serving, Registering, Reporting, MarkUnhealthy
<1>3. Addresses'
    BY ReplyIsOwn, AddressesKept DEF Registering, Registered, MarkUnhealthy
<1>4. Offers'
    BY ReplyIsOwn, OffersKept DEF Offering, MarkUnhealthy
<1> QED
    BY <1>1, <1>2, <1>3, <1>4

\* When a request arrives, what is unfit then is all that can stay unfit.
LEMMA ArriveOffers ==
    ASSUME IInv, NEW h \in Handlers, Arrive(h), UNCHANGED <<quarantined, answer>>,
           \/ GoTo(h, "CheckHop")
           \/ /\ GoTo(h, "FilterBridge")
              /\ \A i \in 1 .. Len(todo'[h]) : todo'[h][i] \in Registered,
           \A g \in Handlers \ {h} : todo'[g] = todo[g]
    PROVE  Offers'
<1> USE DEF IInv
<1>1. /\ answer'[h] = {} /\ barred'[h] = quarantined /\ absent'[h] = Nodes \ Registered
      /\ Offering(h)'
    BY DEF TypeOK, Offers, Looked, Offering, Arrive, GoTo
<1>2. \A g \in Handlers \ {h} :
        /\ pc'[g] = pc[g] /\ answer'[g] = answer[g]
        /\ barred'[g] = barred[g] /\ absent'[g] = absent[g]
    BY DEF TypeOK, Arrive, GoTo
<1>3. Barred'
    BY <1>1, <1>2 DEF Offers, Barred
<1>4. Looked'
    BY <1>1, <1>2 DEF Offers, Looked, Offering
<1>5. pc'[h] = "FilterBridge" => \A i \in 1 .. Len(todo'[h]) : todo'[h][i] \in Registered
    BY DEF TypeOK, GoTo
<1>6. Listed'
    BY <1>1, <1>2, <1>5 DEF Offers, Listed
<1> QED
    BY <1>3, <1>4, <1>6 DEF Offers

LEMMA DiscoverIInv ==
    ASSUME IInv, NEW h \in Handlers, Discover(h)
    PROVE  IInv'
<1> USE DEF IInv
<1> DEFINE Seen == {n \in Registered \cap Exits : healthy[n]}
<1>1. PICK order \in SetToSeqs(Seen) : todo' = [todo EXCEPT ![h] = order]
    BY DEF Discover
<1>2. order \in Seq(Nodes) /\ \A i \in 1 .. Len(order) : order[i] \in Seen
  <2>1. Seen \in SUBSET Nodes
    BY DEF Registered
  <2> HIDE DEF Seen
  <2> QED
    BY <2>1, ListingIsSeq
<1>3. todo'[h] = order /\ \A g \in Handlers \ {h} : todo'[g] = todo[g]
    BY <1>1 DEF TypeOK
<1>4. TypeOK'
  <2>1. todo' \in [Handlers -> Seq(Nodes)]
    BY <1>1, <1>2 DEF TypeOK
  <2>2. barred' \in [Handlers -> SUBSET Nodes] /\ absent' \in [Handlers -> SUBSET Nodes]
    BY DEF TypeOK, Discover, Arrive
  <2> QED
    BY <2>1, <2>2 DEF TypeOK, Discover, GoTo, Sections, vipVars, registryVars, postureVars
<1>5. Serving'
    BY DEF TypeOK, Serving, Registering, Reporting, Discover, GoTo
<1>6. \A g \in Handlers : Registering(g)' => Registering(g)
    BY DEF TypeOK, Registering, Discover, GoTo
<1>7. Addresses'
    BY <1>6, AddressesKept DEF Registered, Discover, registryVars
<1>8. Offers'
    BY <1>2, <1>3, ArriveOffers DEF Discover
<1> QED
    BY <1>4, <1>5, <1>7, <1>8

LEMMA BuildOnionCircuitIInv ==
    ASSUME IInv, NEW h \in Handlers, BuildOnionCircuit(h)
    PROVE  IInv'
<1> USE DEF IInv
<1>1. PICK hops \in Circuits : todo' = [todo EXCEPT ![h] = hops]
    BY DEF BuildOnionCircuit
<1>2. hops \in Seq(Nodes)
    BY CircuitIsSeq
<1>3. TypeOK'
  <2>1. todo' \in [Handlers -> Seq(Nodes)]
    BY <1>1, <1>2 DEF TypeOK
  <2>2. barred' \in [Handlers -> SUBSET Nodes] /\ absent' \in [Handlers -> SUBSET Nodes]
    BY DEF TypeOK, BuildOnionCircuit, Arrive
  <2> QED
    BY <2>1, <2>2
       DEF TypeOK, BuildOnionCircuit, GoTo, Sections, vipVars, registryVars, postureVars
<1>4. Serving'
    BY DEF TypeOK, Serving, Registering, Reporting, BuildOnionCircuit, GoTo
<1>5. \A g \in Handlers : Registering(g)' => Registering(g)
    BY DEF TypeOK, Registering, BuildOnionCircuit, GoTo
<1>6. Addresses'
    BY <1>5, AddressesKept DEF Registered, BuildOnionCircuit, registryVars
<1>7. \A g \in Handlers \ {h} : todo'[g] = todo[g]
    BY <1>1 DEF TypeOK
<1>8. Offers'
    BY <1>7, ArriveOffers DEF BuildOnionCircuit
<1> QED
    BY <1>3, <1>4, <1>6, <1>8

\* A reply ends the offer and its history.
LEMMA ForgetOffers ==
    ASSUME IInv, NEW h \in Handlers, Reply(h), Forget(h), UNCHANGED quarantined
    PROVE  Offers'
<1> USE DEF IInv
<1>1. \A g \in Handlers \ {h} : barred'[g] = barred[g] /\ absent'[g] = absent[g]
    BY DEF TypeOK, Forget
<1>2. barred'[h] = {} /\ absent'[h] = {}
    BY DEF TypeOK, Forget
<1>3. Barred' /\ Looked'
    BY <1>1, <1>2, ReplyIsOwn DEF Offers, Barred, Looked, Offering
<1>4. Listed'
    BY <1>1, <1>2, ReplyIsOwn DEF Offers, Listed
<1> QED
    BY <1>3, <1>4 DEF Offers

\* A round of the loop offers the head of the list at most, and only when it
\* is not in quarantine.
LEMMA RoundOffers ==
    ASSUME IInv, NEW h \in Handlers, Offering(h), todo[h] # <<>>,
           NEW S \in SUBSET {Head(todo[h])}, S \cap quarantined = {},
           todo' = [todo EXCEPT ![h] = Tail(@)], answer' = [answer EXCEPT ![h] = @ \cup S],
           UNCHANGED <<vipVars, registryVars, candidates, postureVars, quarantined, pc, node,
                       addr, snapshot, held, answered, barred, absent>>
    PROVE  TypeOK' /\ Offers'
<1> USE DEF IInv
<1>1. todo[h] \in Seq(Nodes)
    BY DEF TypeOK
<1>2. /\ Head(todo[h]) \in Nodes /\ Head(todo[h]) = todo[h][1] /\ Tail(todo[h]) \in Seq(Nodes)
      /\ 1 \in 1 .. Len(todo[h])
      /\ \A i \in 1 .. Len(Tail(todo[h])) :
            Tail(todo[h])[i] = todo[h][i + 1] /\ i + 1 \in 1 .. Len(todo[h])
    BY <1>1, TailIsSeq
<1>3. todo'[h] = Tail(todo[h]) /\ answer'[h] = answer[h] \cup S
    BY DEF TypeOK
<1>4. \A g \in Handlers \ {h} : todo'[g] = todo[g] /\ answer'[g] = answer[g]
    BY DEF TypeOK
<1>5. TypeOK'
  <2>1. todo' \in [Handlers -> Seq(Nodes)]
    BY <1>2 DEF TypeOK
  <2>2. answer' \in [Handlers -> SUBSET Nodes]
    BY <1>2 DEF TypeOK
  <2> QED
    BY <2>1, <2>2 DEF TypeOK, vipVars, registryVars, postureVars
<1>6. Barred'
    BY DEF Offers, Barred
<1>7. Looked'
  <2>1. S \cap barred[h] = {}
    BY DEF Offers, Barred
  <2> QED
    BY <1>3, <1>4, <2>1 DEF Offers, Looked, Offering
<1>8. Listed'
  <2>1. CASE pc[h] = "FilterBridge"
    <3>1. /\ \A i \in 1 .. Len(todo[h]) : todo[h][i] \notin absent[h]
          /\ answer[h] \cap absent[h] = {}
      BY <2>1 DEF Offers, Listed
    <3>2. \A i \in 1 .. Len(todo'[h]) : todo'[h][i] \notin absent[h]
      BY <1>2, <1>3, <3>1
    <3>3. answer'[h] \cap absent[h] = {}
      BY <1>2, <1>3, <3>1
    <3> QED
      BY <1>4, <3>2, <3>3 DEF Offers, Listed
  <2>2. CASE pc[h] # "FilterBridge"
    BY <1>4, <2>2 DEF Offers, Listed
  <2> QED
    BY <2>1, <2>2
<1> QED
    BY <1>5, <1>6, <1>7, <1>8 DEF Offers

LEMMA FilterBridgeIInv ==
    ASSUME IInv, NEW h \in Handlers, FilterBridge(h)
    PROVE  IInv'
<1> USE DEF IInv
<1>1. CASE Reply(h) /\ Forget(h)
  <2>1. TypeOK'
    BY <1>1, ReplyTypes DEF TypeOK, FilterBridge, Forget, vipVars, registryVars, postureVars
  <2>2. Serving'
    BY <1>1, ReplyIsOwn DEF Serving, Registering, Reporting, FilterBridge
  <2>3. Addresses'
    BY <1>1, ReplyIsOwn, AddressesKept DEF Registering, Registered, FilterBridge, registryVars
  <2>4. Offers'
    BY <1>1, ForgetOffers DEF FilterBridge
  <2> QED
    BY <2>1, <2>2, <2>3, <2>4
<1>2. CASE /\ todo[h] # <<>> /\ todo' = [todo EXCEPT ![h] = Tail(@)]
           /\ answer' = [answer EXCEPT ![h] =
                    @ \cup {n \in {Head(todo[h])} : ~IsQuarantined(n)}]
           /\ UNCHANGED <<pc, node, addr, snapshot, held, barred, absent>>
  <2>1. TypeOK' /\ Offers'
    <3>1. PICK S : /\ S \in SUBSET {Head(todo[h])} /\ S \cap quarantined = {}
                   /\ answer' = [answer EXCEPT ![h] = @ \cup S]
      <4> WITNESS {n \in {Head(todo[h])} : ~IsQuarantined(n)}
      <4> QED
        BY <1>2 DEF IsQuarantined
    <3>2. UNCHANGED <<vipVars, registryVars, candidates, postureVars, quarantined, answered>>
      BY DEF FilterBridge
    <3>3. Offering(h)
      BY DEF FilterBridge, Offering
    <3> QED
      BY <1>2, <3>1, <3>2, <3>3, RoundOffers
  <2>2. Serving'
    BY <1>2 DEF Serving, Registering, Reporting
  <2>3. Addresses'
    BY <1>2, AddressesKept DEF Registering, Registered, FilterBridge, registryVars
  <2> QED
    BY <2>1, <2>2, <2>3
<1> QED
    BY <1>1, <1>2 DEF FilterBridge

LEMMA CheckHopIInv ==
    ASSUME IInv, NEW h \in Handlers, CheckHop(h)
    PROVE  IInv'
<1> USE DEF IInv
<1>1. CASE Reply(h) /\ Forget(h)
  <2>1. TypeOK'
    BY <1>1, ReplyTypes DEF TypeOK, CheckHop, Forget, vipVars, registryVars, postureVars
  <2>2. Serving'
    BY <1>1, ReplyIsOwn DEF Serving, Registering, Reporting, CheckHop
  <2>3. Addresses'
    BY <1>1, ReplyIsOwn, AddressesKept DEF Registering, Registered, CheckHop, registryVars
  <2>4. Offers'
    BY <1>1, ForgetOffers DEF CheckHop
  <2> QED
    BY <2>1, <2>2, <2>3, <2>4
<1>2. CASE /\ todo[h] # <<>> /\ todo' = [todo EXCEPT ![h] = Tail(@)]
           /\ ~IsQuarantined(Head(todo[h])) /\ answer' = [answer EXCEPT ![h] = @ \cup {Head(todo[h])}]
           /\ UNCHANGED <<pc, node, addr, snapshot, held, barred, absent>>
  <2>1. TypeOK' /\ Offers'
    <3>1. PICK S : /\ S \in SUBSET {Head(todo[h])} /\ S \cap quarantined = {}
                   /\ answer' = [answer EXCEPT ![h] = @ \cup S]
      <4> WITNESS {Head(todo[h])}
      <4> QED
        BY <1>2 DEF IsQuarantined
    <3>2. UNCHANGED <<vipVars, registryVars, candidates, postureVars, quarantined, answered>>
      BY DEF CheckHop
    <3>3. Offering(h)
      BY DEF CheckHop, Offering
    <3> QED
      BY <1>2, <3>1, <3>2, <3>3, RoundOffers
  <2>2. Serving'
    BY <1>2 DEF Serving, Registering, Reporting
  <2>3. Addresses'
    BY <1>2, AddressesKept DEF Registering, Registered, CheckHop, registryVars
  <2> QED
    BY <2>1, <2>2, <2>3
<1> QED
    BY <1>1, <1>2 DEF CheckHop

LEMMA DeleteNodeIInv ==
    ASSUME IInv, NEW n \in Nodes, DeleteNode(n)
    PROVE  IInv'
<1> USE DEF IInv
<1>1. TypeOK'
    BY DEF TypeOK, DeleteNode, vipVars, postureVars, localVars
<1>2. Serving'
    BY DEF Serving, Registering, Reporting, DeleteNode, localVars
<1>3. Registered' \subseteq Registered
    BY DEF TypeOK, Registered, DeleteNode
<1>4. Addresses'
    BY <1>3, AddressesKept DEF Registering, DeleteNode, localVars
<1>5. Offers'
    BY OffersKept DEF DeleteNode, localVars
<1> QED
    BY <1>1, <1>2, <1>4, <1>5

\* What no step of the handlers or of the nodes touches stays as it is.
LEMMA OthersIInv ==
    ASSUME IInv, UNCHANGED <<vipVars, registryVars, candidates, quarantined, pc, localVars,
                             answered, barred, absent>>,
           policies' \subseteq Checks, policyChanges' \in Nat
    PROVE  IInv'
<1> USE DEF IInv
<1>1. TypeOK'
    BY DEF TypeOK, vipVars, registryVars, localVars
<1>2. Serving'
    BY DEF Serving, Registering, Reporting, localVars
<1>3. Addresses'
    BY AddressesKept DEF Registering, Registered, registryVars, localVars
<1>4. Offers'
    BY OffersKept DEF localVars
<1> QED
    BY <1>1, <1>2, <1>3, <1>4

LEMMA StepIInv ==
    ASSUME IInv, [Next]_vars
    PROVE  IInv'
<1>1. ASSUME NEW h \in Handlers, Proceed(h) PROVE IInv'
    BY <1>1, RegisterNodeIInv, AddCandidateIInv, CopyPoliciesIInv, VerdictIInv, GetNodeIInv,
       MarkUnhealthyIInv, FilterBridgeIInv, CheckHopIInv DEF Proceed
<1>2. ASSUME NEW h \in Handlers, NEW n \in Nodes,
             Allocate(h, n) \/ \E wp \in BOOLEAN : Heartbeat(h, n, wp)
      PROVE  IInv'
    BY <1>2, AllocateIInv, HeartbeatIInv
<1>3. ASSUME NEW c \in Checks, ChangePolicy(c) PROVE IInv'
  <2>1. policies' \subseteq Checks /\ policyChanges' \in Nat
    BY <1>3 DEF IInv, TypeOK, ChangePolicy
  <2> QED
    BY <1>3, <2>1, OthersIInv DEF ChangePolicy
<1>4. CASE UNCHANGED vars
  <2>1. policies' \subseteq Checks /\ policyChanges' \in Nat
    BY <1>4 DEF IInv, TypeOK, vars, postureVars
  <2> QED
    BY <1>4, <2>1, OthersIInv DEF vars
<1> QED
    BY <1>1, <1>2, <1>3, <1>4, DiscoverIInv, BuildOnionCircuitIInv, DeleteNodeIInv DEF Next
-----------------------------------------------------------------------------
\* In every reachable state a node's addresses are the ones the pool holds for
\* it, wherever they are kept, and every offer is fit so far.
THEOREM ControlPlaneInvariant == Spec => []IInv
<1>1. IInv /\ [Next]_vars => IInv'
    BY StepIInv
<1> QED
    BY <1>1, InitIInv, PTL DEF Spec

\* The registry, the pool, the engines and the handlers hold what their types
\* say: no reply and no list has anything but nodes in it.
THEOREM ControlPlaneTypes == Spec => []TypeOK
<1>1. IInv => TypeOK
    BY DEF IInv
<1> QED
    BY <1>1, ControlPlaneInvariant, PTL

\* handleRegister and Allocate: over all registrations a node is told one pair
\* of addresses, and no other node is ever told one of the two, even after the
\* first was deleted.
THEOREM AddressesIdentify == Spec => []AddressesAreIdentities
<1>1. ASSUME IInv PROVE AddressesAreIdentities
  <2> USE <1>1, ControlPlaneAssumption DEF IInv
  <2>1. \A n \in Nodes : \A a \in answered[n] : Owns(n, a)
    BY DEF Addresses, Told
  <2>2. \A n, m \in Nodes : n # m /\ allocated[n] # -1 => allocated[n] # allocated[m]
    BY DEF Addresses, Pool
  <2>3. \A n \in Nodes : allocated[n] \in Int
    BY DEF TypeOK
  <2> QED
    BY <2>1, <2>2, <2>3 DEF AddressesAreIdentities, Owns, Known
<1> QED
    BY <1>1, ControlPlaneInvariant, PTL

\* RegisterNode under concurrent registrations: the record a lookup finds has
\* the addresses the node was told.
THEOREM RecordsCarry == Spec => []RecordsCarryTheirAddress
<1>1. ASSUME IInv PROVE RecordsCarryTheirAddress
  <2>1. \A n \in Registered : Owns(n, address[n]) /\ \A a \in answered[n] : Owns(n, a)
    BY <1>1 DEF IInv, Addresses, Told, Recorded, Registered
  <2>2. \A n \in Nodes : Known(n).v4 = allocated[n]
    BY DEF Known
  <2> QED
    BY <2>1, <2>2 DEF RecordsCarryTheirAddress, Owns, Registered
<1> QED
    BY <1>1, ControlPlaneInvariant, PTL

\* handleDiscover and handleCircuit: no reply offers a node that was in
\* quarantine, and no bridge list one without a record, all through the request.
THEOREM OffersFit == Spec => []OffersAreFit
<1>1. ASSUME IInv PROVE OffersAreFit
    BY <1>1 DEF IInv, Offers, Looked, Listed, OffersAreFit
<1> QED
    BY <1>1, ControlPlaneInvariant, PTL
=============================================================================
