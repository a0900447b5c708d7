----------------------------- MODULE PolicySync -----------------------------
(***************************************************************************)
(* How access policy reaches the nodes: the policy engine of pkg/acl with  *)
(* its RWMutex, the registration and sync handlers of pkg/control that     *)
(* call it, and the loop of cmd/sovereign-node that asks for a new table   *)
(* when a heartbeat shows that the policy epoch advanced.                  *)
(*                                                                         *)
(* A compiled table is the set of directions and peers it opens; ports,    *)
(* protocols and DROP rules are left out.  A deleted group is a group      *)
(* without peers, a disabled policy one that is not there.                 *)
(***************************************************************************)
EXTENDS Integers, Sequences, FiniteSets

CONSTANTS
    Nodes,
    Groups, All,        \* All is group:all, to which every node belongs
    RoleGroups,         \* RoleGroups[n]: the groups handleRegister assigns n to
    PolicyRules,        \* the rules an administrator may write
    Followed,           \* bound: the nodes whose syncs are followed
    MaxEpoch,           \* bound: policy epoch
    Admin,              \* the management API, as a caller that writes
    None

ASSUME PolicyAssumption ==
    /\ Admin \notin Nodes /\ None \notin Nodes \cup {Admin}
    /\ All \in Groups
    /\ RoleGroups \in [Nodes -> Seq(Groups)]
    /\ \A p \in PolicyRules :
        p.src \subseteq Groups /\ p.dst \subseteq Groups /\ p.bidi \in BOOLEAN
    /\ MaxEpoch \in Nat

Entry == {"out", "in"} \X Nodes
Table == [epoch : Nat, open : SUBSET Entry]
NoTable == [epoch |-> 0, open |-> {}]

\* What the management API may ask the policy engine to do.
Write ==
    [kind : {"group"}, group : Groups, peers : SUBSET Nodes]
        \cup [kind : {"upsert", "delete"}, policy : PolicyRules]

VARIABLES
    registered,     \* nodes with a record in the registry
    members,        \* members[g]: Peers of group g
    policies,       \* the enabled policies
    epoch,          \* the policy engine's epoch
    writer,         \* who waits for the engine's write lock, or None
    pc,             \* pc[n]: where n's client, or the handler it waits for, is
    joining,        \* joining[n]: groups handleRegister still has to assign
    initial,        \* initial[n]: the sync is the one before the loop
    todo,           \* todo[n]: entries whose peer is still to be looked up
    compiled,       \* compiled[n]: the table as far as it is compiled
    installed,      \* installed[n]: the policy in n's NetstackFilter
    policyEpoch     \* policyEpoch[n]: the loop's policyEpoch

engineVars == <<members, policies, epoch, writer>>
syncVars == <<todo, compiled>>
nodeVars == <<joining, initial, installed, policyEpoch>>
vars == <<registered, engineVars, pc, syncVars, nodeVars>>

Init ==
    /\ registered = {}
    /\ members = [g \in Groups |-> {}]
    /\ policies = {}
    /\ epoch = 1
    /\ writer = None
    /\ pc = [n \in Nodes |-> "off"]
    /\ joining = [n \in Nodes |-> <<>>]
    /\ initial = [n \in Nodes |-> FALSE]
    /\ todo = [n \in Nodes |-> {}]
    /\ compiled = [n \in Nodes |-> NoTable]
    /\ installed = [n \in Nodes |-> NoTable]
    /\ policyEpoch = [n \in Nodes |-> 0]

GoTo(n, place) == pc' = [pc EXCEPT ![n] = place]
-----------------------------------------------------------------------------
(* sync.RWMutex: a waiting writer keeps new readers out, and waits for the *)
(* readers that are in.                                                    *)

Compiling(n) == pc[n] \in {"lookupTarget", "lookupPeers"}

\* Variant: a lock that knows nothing of readers.
CanLockAlways == writer # None

CanRLock == writer = None
CanLock == writer # None /\ \A n \in Nodes : ~Compiling(n)

WaitForLock(caller) ==
    /\ writer = None
    /\ epoch < MaxEpoch
    /\ writer' = caller
-----------------------------------------------------------------------------
(* The calls of the policy engine that write *)

\* Variant: the epoch counts what there is instead of what was changed.
EpochByCount == Cardinality(policies) + 2

NextEpoch == epoch + 1

\* UpsertGroup and DeleteGroup, UpsertPolicy, DeletePolicy.  A system group
\* cannot be deleted, but an upsert may take its peers away as well.
AdminWrites(w) ==
    \/ /\ w.kind = "group"
       /\ members' = [members EXCEPT ![w.group] = w.peers]
       /\ epoch' = NextEpoch
       /\ UNCHANGED policies
    \/ /\ w.kind = "upsert"
       /\ policies' = policies \cup {w.policy}
       /\ epoch' = NextEpoch
       /\ UNCHANGED members
    \/ /\ w.kind = "delete"
       /\ w.policy \in policies
       /\ policies' = policies \ {w.policy}
       /\ epoch' = NextEpoch
       /\ UNCHANGED members

AdminWaits ==
    /\ WaitForLock(Admin)
    /\ UNCHANGED <<registered, members, policies, epoch, pc, syncVars, nodeVars>>

AdminRuns ==
    /\ writer = Admin
    /\ CanLock
    /\ \E w \in Write : AdminWrites(w)
    /\ writer' = None
    /\ UNCHANGED <<registered, pc, syncVars, nodeVars>>

\* handleRegister calls AssignPeerToGroup for the next group of the node.
AssignWaits(n) ==
    /\ pc[n] = "joining"
    /\ joining[n] # <<>>
    /\ WaitForLock(n)
    /\ UNCHANGED <<registered, members, policies, epoch, pc, syncVars, nodeVars>>

\* Variant: an assignment is no change of the policy.
AssignQuietly(n) ==
    LET g == Head(joining[n]) IN
    /\ writer = n
    /\ CanLock
    /\ members' = [members EXCEPT ![g] = @ \cup {n}]
    /\ writer' = None
    /\ joining' = [joining EXCEPT ![n] = Tail(@)]
    /\ UNCHANGED <<registered, policies, epoch, pc, syncVars, initial, installed,
                   policyEpoch>>

AssignPeerToGroup(n) ==
    LET g == Head(joining[n]) IN
    /\ writer = n
    /\ CanLock
    /\ members' = [members EXCEPT ![g] = @ \cup {n}]
    /\ epoch' = IF n \in members[g] THEN epoch ELSE epoch + 1
    /\ writer' = None
    /\ joining' = [joining EXCEPT ![n] = Tail(@)]
    /\ UNCHANGED <<registered, policies, pc, syncVars, initial, installed,
                   policyEpoch>>
-----------------------------------------------------------------------------
(* Registration *)

RegisterNode(n) ==
    /\ pc[n] = "off"
    /\ registered' = registered \cup {n}
    /\ joining' = [joining EXCEPT ![n] = RoleGroups[n]]
    /\ GoTo(n, "joining")
    /\ UNCHANGED <<engineVars, syncVars, initial, installed, policyEpoch>>

\* The reply carries the epoch; the node goes on with its first sync.
Registered(n) ==
    /\ pc[n] = "joining"
    /\ joining[n] = <<>>
    /\ CanRLock
    /\ policyEpoch' = [policyEpoch EXCEPT ![n] = epoch]
    /\ initial' = [initial EXCEPT ![n] = TRUE]
    /\ GoTo(n, "sync")
    /\ UNCHANGED <<registered, engineVars, syncVars, joining, installed>>

\* DELETE /api/v4/peers/<n>.
DeleteNode(n) ==
    /\ n \in registered
    /\ registered' = registered \ {n}
    /\ UNCHANGED <<engineVars, pc, syncVars, nodeVars>>
-----------------------------------------------------------------------------
(* CompilePolicyForPeer *)

\* GetPeerGroups.
PeerGroups(n) == {All} \cup {g \in Groups : n \in members[g]}

\* The peers that policies bring into n's table in one direction: from being
\* on one side of a rule, or on the other side of a bidirectional one.
Opens(n, here, there) ==
    IF here \cap PeerGroups(n) # {} THEN UNION {members[g] : g \in there} ELSE {}

OutPeers(n) ==
    (UNION {Opens(n, p.src, p.dst) : p \in policies})
      \cup (UNION {Opens(n, p.dst, p.src) : p \in {q \in policies : q.bidi}})

\* Variant: bidirectional rules are forgotten for what comes in.
InPeersOneWay(n) == UNION {Opens(n, p.dst, p.src) : p \in policies}

InPeers(n) ==
    (UNION {Opens(n, p.dst, p.src) : p \in policies})
      \cup (UNION {Opens(n, p.src, p.dst) : p \in {q \in policies : q.bidi}})

Entries(n) ==
    ({"out"} \X (OutPeers(n) \ {n})) \cup ({"in"} \X (InPeers(n) \ {n}))

\* The handler takes the read lock for the whole compilation.
BeginCompile(n) ==
    /\ n \in Followed
    /\ pc[n] = "sync"
    /\ CanRLock
    /\ GoTo(n, "lookupTarget")
    /\ UNCHANGED <<registered, engineVars, syncVars, nodeVars>>

\* The closure looks the node up; for a registered one it calls GetPeerGroups,
\* which takes the read lock a second time.
LookupTarget(n) ==
    /\ pc[n] = "lookupTarget"
    /\ \/ /\ n \notin registered
          /\ GoTo(n, "running")
          /\ UNCHANGED syncVars
       \/ /\ n \in registered
          /\ CanRLock
          /\ todo' = [todo EXCEPT ![n] = Entries(n)]
          /\ compiled' = [compiled EXCEPT ![n] = [epoch |-> epoch, open |-> {}]]
          /\ GoTo(n, "lookupPeers")
    /\ UNCHANGED <<registered, engineVars, nodeVars>>

\* The same for the peer of one entry: peers without a record are skipped.
LookupPeer(n) ==
    /\ pc[n] = "lookupPeers"
    /\ \E e \in todo[n] :
        /\ e[2] \in registered => CanRLock
        /\ todo' = [todo EXCEPT ![n] = @ \ {e}]
        /\ compiled' = IF e[2] \in registered
                       THEN [compiled EXCEPT ![n].open = @ \cup {e}]
                       ELSE compiled
    /\ UNCHANGED <<registered, engineVars, pc, nodeVars>>

EndCompile(n) ==
    /\ pc[n] = "lookupPeers"
    /\ todo[n] = {}
    /\ GoTo(n, "readEpoch")
    /\ UNCHANGED <<registered, engineVars, syncVars, nodeVars>>

\* handleSyncACLs reads the epoch for its reply; the node installs the table.
\* The first sync leaves the loop's epoch at what registration returned.
Install(n) ==
    /\ pc[n] = "readEpoch"
    /\ CanRLock
    /\ installed' = [installed EXCEPT ![n] = compiled[n]]
    /\ policyEpoch' = IF initial[n] THEN policyEpoch
                      ELSE [policyEpoch EXCEPT ![n] = epoch]
    /\ initial' = [initial EXCEPT ![n] = FALSE]
    /\ compiled' = [compiled EXCEPT ![n] = NoTable]
    /\ GoTo(n, "running")
    /\ UNCHANGED <<registered, engineVars, todo, joining>>

\* The reply is lost or late: the node keeps what it has.
LoseReply(n) ==
    /\ pc[n] = "readEpoch"
    /\ initial' = [initial EXCEPT ![n] = FALSE]
    /\ compiled' = [compiled EXCEPT ![n] = NoTable]
    /\ GoTo(n, "running")
    /\ UNCHANGED <<registered, engineVars, todo, joining, installed, policyEpoch>>

\* A heartbeat brings the epoch; without a record it is answered with an error.
Heartbeat(n) ==
    /\ pc[n] = "running"
    /\ n \in registered
    /\ CanRLock
    /\ epoch > policyEpoch[n]
    /\ GoTo(n, "sync")
    /\ UNCHANGED <<registered, engineVars, syncVars, nodeVars>>
-----------------------------------------------------------------------------
Sync(n) ==
    \/ BeginCompile(n) \/ LookupTarget(n) \/ LookupPeer(n) \/ EndCompile(n)
    \/ Install(n) \/ LoseReply(n) \/ Heartbeat(n)

Next ==
    \/ AdminWaits \/ AdminRuns
    \/ \E n \in Nodes :
        \/ RegisterNode(n) \/ AssignWaits(n) \/ AssignPeerToGroup(n)
        \/ Registered(n)
        \/ DeleteNode(n)
        \/ Sync(n)

Spec == Init /\ [][Next]_vars
-----------------------------------------------------------------------------
Places == {"off", "joining", "sync", "lookupTarget",
           "lookupPeers", "readEpoch", "running"}

TypeOK ==
    /\ registered \subseteq Nodes
    /\ members \in [Groups -> SUBSET Nodes]
    /\ policies \subseteq PolicyRules
    /\ epoch \in Nat
    /\ writer \in Nodes \cup {Admin, None}
    /\ pc \in [Nodes -> Places]
    /\ joining \in [Nodes -> Seq(Groups)]
    /\ initial \in [Nodes -> BOOLEAN]
    /\ todo \in [Nodes -> SUBSET Entry]
    /\ compiled \in [Nodes -> Table]
    /\ installed \in [Nodes -> Table]
    /\ policyEpoch \in [Nodes -> Nat]

\* A compilation sees one state of the engine, however many lookups it makes
\* and whoever waits to write: what it has collected and what it still has to
\* look up belong to the policies and groups of the epoch it will report.
CompileSeesOneState ==
    \A n \in Nodes : pc[n] = "lookupPeers" =>
        /\ compiled[n].epoch = epoch
        /\ compiled[n].open \cup todo[n] \subseteq Entries(n)

\* A node's table never goes back to an older epoch.
InstalledNeverRegresses ==
    [][\A n \in Nodes : installed'[n].epoch >= installed[n].epoch]_vars

\* However many steps a compilation takes, and whoever registers, leaves or
\* writes meanwhile, a node's table is what the policy of one moment opens, its
\* epoch is that of this policy, and every change of the policy has an epoch of
\* its own, by which the nodes notice it (PolicyRegister).
Register == INSTANCE PolicyRegister WITH
    opens <- [n \in Nodes |-> Entries(n)],
    found <- [n \in Nodes |-> IF pc[n] = "lookupPeers" THEN compiled[n].open ELSE {}],
    missed <- [n \in Nodes |-> IF pc[n] = "lookupPeers"
                               THEN Entries(n) \ (todo[n] \cup compiled[n].open) ELSE {}],
    ready <- [n \in Nodes |-> IF pc[n] = "readEpoch" THEN compiled[n] ELSE NoTable]

ImplementsRegister == Register!Spec

\* The two ends of a connection agree: one node may open it exactly if the
\* other lets it in, for every mix of directional and bidirectional rules.
TablesAgree ==
    \A a, b \in members[All] :
        <<"out", b>> \in Entries(a) <=> <<"in", a>> \in Entries(b)
=============================================================================
