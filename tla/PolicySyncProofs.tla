-------------------------- MODULE PolicySyncProofs --------------------------
(***************************************************************************)
(* The types of PolicySync, that a compilation sees one state of the       *)
(* policy engine, that a node's table never goes back, and that the tables *)
(* of two nodes agree, for any nodes, groups, rules and callers.           *)
(*                                                                         *)
(* The lock does the work: a writer runs when nobody compiles, so what a   *)
(* compilation has collected (Collected) was computed from the engine as   *)
(* it still is.  Only a node that still has groups to be assigned to waits *)
(* for the lock (Waiting).  A table that is on its way is no older than    *)
(* the installed one and no newer than the engine (Ages).                  *)
(*                                                                         *)
(* The last part shows that all this implements PolicyRegister.  Beyond    *)
(* the above, that needs that an entry which was found is not looked up    *)
(* again, and that no policy has the number of a node's first, empty table *)
(* (Fresh).                                                                *)
(***************************************************************************)
EXTENDS PolicySync, SequenceTheorems, TLAPS

Waiting == \A n \in Nodes : writer = n => pc[n] = "joining" /\ joining[n] # <<>>

\* What a node has collected while it compiles.
Collected == CompileSeesOneState

Ages == \A n \in Nodes :
    /\ installed[n].epoch <= epoch
    /\ pc[n] \in {"lookupPeers", "readEpoch"} =>
        installed[n].epoch <= compiled[n].epoch /\ compiled[n].epoch <= epoch

IInv == TypeOK /\ Waiting /\ Collected /\ Ages
-----------------------------------------------------------------------------
\* A rule brings a peer in from being on one side of it, or on the other side
\* of a bidirectional one.
LEMMA PeersOfRules ==
    ASSUME NEW n, NEW x
    PROVE  /\ x \in OutPeers(n) <=> \E p \in policies :
                \/ x \in Opens(n, p.src, p.dst)
                \/ p.bidi /\ x \in Opens(n, p.dst, p.src)
           /\ x \in InPeers(n) <=> \E p \in policies :
                \/ x \in Opens(n, p.dst, p.src)
                \/ p.bidi /\ x \in Opens(n, p.src, p.dst)
<1> DEFINE Out == UNION {Opens(n, p.src, p.dst) : p \in policies}
           In == UNION {Opens(n, p.dst, p.src) : p \in policies}
           OutBack == UNION {Opens(n, p.dst, p.src) : p \in {q \in policies : q.bidi}}
           InBack == UNION {Opens(n, p.src, p.dst) : p \in {q \in policies : q.bidi}}
<1>1. x \in Out <=> \E p \in policies : x \in Opens(n, p.src, p.dst)
    OBVIOUS
<1>2. x \in In <=> \E p \in policies : x \in Opens(n, p.dst, p.src)
    OBVIOUS
<1>3. x \in OutBack <=> \E p \in policies : p.bidi /\ x \in Opens(n, p.dst, p.src)
    OBVIOUS
<1>4. x \in InBack <=> \E p \in policies : p.bidi /\ x \in Opens(n, p.src, p.dst)
    OBVIOUS
<1>5. OutPeers(n) = Out \cup OutBack
    BY DEF OutPeers
<1>6. InPeers(n) = In \cup InBack
    BY DEF InPeers
<1> HIDE DEF Out, In, OutBack, InBack
<1> QED
    BY <1>1, <1>2, <1>3, <1>4, <1>5, <1>6

\* Whatever the groups and policies are, a table opens entries of nodes.
LEMMA EntriesType ==
    ASSUME TypeOK, NEW n \in Nodes
    PROVE  Entries(n) \in SUBSET Entry
<1>1. \A g \in Groups : members[g] \subseteq Nodes
    BY DEF TypeOK
<1>2. \A p \in policies : p.src \subseteq Groups /\ p.dst \subseteq Groups
    BY PolicyAssumption DEF TypeOK
<1>3. \A p \in policies : /\ Opens(n, p.src, p.dst) \subseteq Nodes
                          /\ Opens(n, p.dst, p.src) \subseteq Nodes
    BY <1>1, <1>2 DEF Opens
<1>4. OutPeers(n) \subseteq Nodes /\ InPeers(n) \subseteq Nodes
    BY <1>3, PeersOfRules
<1> QED
    BY <1>4 DEF Entries, Entry

LEMMA InitIInv == Init => IInv
<1> SUFFICES ASSUME Init PROVE IInv
    OBVIOUS
<1>1. NoTable \in Table /\ NoTable.epoch = 0
    BY DEF NoTable, Table
<1>2. <<>> \in Seq(Groups)
    OBVIOUS
<1>3. TypeOK
    BY <1>1, <1>2 DEF Init, TypeOK, Places
<1>4. Waiting /\ Collected /\ Ages
    BY <1>1, PolicyAssumption DEF Init, Waiting, Collected, CompileSeesOneState, Ages
<1> QED
    BY <1>3, <1>4 DEF IInv

\* The compilation of a node that goes on as before.
LEMMA EngineKept ==
    ASSUME UNCHANGED <<members, policies>>
    PROVE  \A n : Entries(n)' = Entries(n)
BY DEF Entries, OutPeers, InPeers, Opens, PeerGroups
-----------------------------------------------------------------------------
(* The steps that write or wait to.                                        *)

LEMMA AdminWaitsIInv ==
    ASSUME IInv, AdminWaits
    PROVE  IInv'
<1>1. /\ writer' = Admin
      /\ UNCHANGED <<registered, members, policies, epoch, pc, syncVars, nodeVars>>
    BY DEF AdminWaits, WaitForLock
<1>2. TypeOK'
    BY <1>1 DEF IInv, TypeOK, syncVars, nodeVars
<1>3. Waiting'
    BY <1>1, PolicyAssumption DEF Waiting
<1>4. Collected' /\ Ages'
    BY <1>1, EngineKept DEF IInv, Collected, CompileSeesOneState, Ages, syncVars, nodeVars
<1> QED
    BY <1>2, <1>3, <1>4 DEF IInv

LEMMA AssignWaitsIInv ==
    ASSUME IInv, NEW n \in Nodes, AssignWaits(n)
    PROVE  IInv'
<1>1. /\ writer' = n /\ pc[n] = "joining" /\ joining[n] # <<>>
      /\ UNCHANGED <<registered, members, policies, epoch, pc, syncVars, nodeVars>>
    BY DEF AssignWaits, WaitForLock
<1>2. TypeOK'
    BY <1>1 DEF IInv, TypeOK, syncVars, nodeVars
<1>3. Waiting'
    BY <1>1 DEF Waiting, nodeVars
<1>4. Collected' /\ Ages'
    BY <1>1, EngineKept DEF IInv, Collected, CompileSeesOneState, Ages, syncVars, nodeVars
<1> QED
    BY <1>2, <1>3, <1>4 DEF IInv

\* A writer that has the lock finds nobody compiling.
LEMMA WriteIInv ==
    ASSUME IInv, CanLock, writer' = None, epoch' \in Nat, epoch' >= epoch,
           members' \in [Groups -> SUBSET Nodes], policies' \subseteq PolicyRules,
           joining' \in [Nodes -> Seq(Groups)],
           UNCHANGED <<registered, pc, syncVars, initial, installed, policyEpoch>>
    PROVE  IInv'
<1>1. TypeOK'
    BY DEF IInv, TypeOK, syncVars
<1>2. Waiting'
    BY PolicyAssumption DEF Waiting
<1>3. Collected'
    BY DEF Collected, CompileSeesOneState, CanLock, Compiling
<1>4. Ages'
  <2>1. \A n \in Nodes : installed[n].epoch \in Nat /\ compiled[n].epoch \in Nat
    BY DEF IInv, TypeOK, Table
  <2>2. epoch \in Nat
    BY DEF IInv, TypeOK
  <2> QED
    BY <2>1, <2>2 DEF IInv, Ages, syncVars
<1> QED
    BY <1>1, <1>2, <1>3, <1>4 DEF IInv

LEMMA AdminRunsIInv ==
    ASSUME IInv, AdminRuns
    PROVE  IInv'
<1>1. PICK w \in Write : AdminWrites(w)
    BY DEF AdminRuns
<1>2. /\ epoch \in Nat /\ members \in [Groups -> SUBSET Nodes]
      /\ policies \subseteq PolicyRules /\ joining \in [Nodes -> Seq(Groups)]
    BY DEF IInv, TypeOK
<1>3. epoch' = epoch + 1
    BY <1>1 DEF AdminWrites, NextEpoch
<1>4. members' \in [Groups -> SUBSET Nodes] /\ policies' \subseteq PolicyRules
  <2>1. w.kind = "group" => w.peers \subseteq Nodes
    BY DEF Write
  <2>2. w.kind = "upsert" => w.policy \in PolicyRules
    BY DEF Write
  <2> QED
    BY <1>1, <1>2, <2>1, <2>2 DEF AdminWrites
<1> QED
    BY <1>2, <1>3, <1>4, WriteIInv DEF AdminRuns, nodeVars

LEMMA AssignPeerToGroupIInv ==
    ASSUME IInv, NEW n \in Nodes, AssignPeerToGroup(n)
    PROVE  IInv'
<1>1. /\ epoch \in Nat /\ members \in [Groups -> SUBSET Nodes]
      /\ policies \subseteq PolicyRules /\ joining \in [Nodes -> Seq(Groups)]
    BY DEF IInv, TypeOK
<1>2. joining[n] \in Seq(Groups) /\ joining[n] # <<>>
    BY <1>1 DEF IInv, Waiting, AssignPeerToGroup
<1>3. Head(joining[n]) \in Groups /\ Tail(joining[n]) \in Seq(Groups)
    BY <1>2, HeadTailProperties
<1>4. members' \in [Groups -> SUBSET Nodes] /\ joining' \in [Nodes -> Seq(Groups)]
    BY <1>1, <1>3 DEF AssignPeerToGroup
<1>5. epoch' \in Nat /\ epoch' >= epoch
    BY <1>1 DEF AssignPeerToGroup
<1> QED
    BY <1>1, <1>4, <1>5, WriteIInv DEF AssignPeerToGroup
-----------------------------------------------------------------------------
(* The steps of one node.                                                  *)

\* The engine and its lock stay; n's client or handler goes on.
LEMMA NodeIInv ==
    ASSUME IInv, NEW n \in Nodes, UNCHANGED engineVars, writer # n,
           TypeOK',
           \A m \in Nodes \ {n} :
             /\ pc'[m] = pc[m] /\ joining'[m] = joining[m] /\ todo'[m] = todo[m]
             /\ compiled'[m] = compiled[m] /\ installed'[m] = installed[m],
           pc'[n] = "lookupPeers" =>
             compiled'[n].epoch = epoch /\ compiled'[n].open \cup todo'[n] \subseteq Entries(n),
           installed'[n].epoch <= epoch,
           pc'[n] \in {"lookupPeers", "readEpoch"} =>
             installed'[n].epoch <= compiled'[n].epoch /\ compiled'[n].epoch <= epoch
    PROVE  IInv'
<1>1. \A m : Entries(m)' = Entries(m)
    BY EngineKept DEF engineVars
<1>2. epoch' = epoch /\ writer' = writer
    BY DEF engineVars
<1>3. Waiting'
    BY <1>2 DEF IInv, Waiting
<1>4. Collected'
    BY <1>1, <1>2 DEF IInv, Collected, CompileSeesOneState
<1>5. Ages'
    BY <1>2 DEF IInv, Ages
<1> QED
    BY <1>3, <1>4, <1>5 DEF IInv

LEMMA RegisterNodeIInv ==
    ASSUME IInv, NEW n \in Nodes, RegisterNode(n)
    PROVE  IInv'
<1>1. TypeOK'
    BY PolicyAssumption DEF IInv, TypeOK, RegisterNode, GoTo, Places, engineVars, syncVars
<1> QED
    BY <1>1, NodeIInv DEF IInv, TypeOK, Waiting, Ages, RegisterNode, GoTo, syncVars

LEMMA RegisteredIInv ==
    ASSUME IInv, NEW n \in Nodes, Registered(n)
    PROVE  IInv'
<1>1. TypeOK'
    BY DEF IInv, TypeOK, Registered, GoTo, Places, engineVars, syncVars
<1> QED
    BY <1>1, NodeIInv DEF IInv, TypeOK, Waiting, Ages, Registered, GoTo, syncVars

LEMMA DeleteNodeIInv ==
    ASSUME IInv, NEW n \in Nodes, DeleteNode(n)
    PROVE  IInv'
<1>1. UNCHANGED <<engineVars, pc, syncVars, nodeVars>>
    BY DEF DeleteNode
<1>2. TypeOK'
    BY <1>1 DEF IInv, TypeOK, DeleteNode, engineVars, syncVars, nodeVars
<1>3. Waiting' /\ Ages'
    BY <1>1 DEF IInv, Waiting, Ages, engineVars, syncVars, nodeVars
<1>4. Collected'
    BY <1>1, EngineKept DEF IInv, Collected, CompileSeesOneState, engineVars, syncVars
<1> QED
    BY <1>2, <1>3, <1>4 DEF IInv

LEMMA BeginCompileIInv ==
    ASSUME IInv, NEW n \in Nodes, BeginCompile(n) \/ Heartbeat(n)
    PROVE  IInv'
<1>1. PICK place \in {"lookupTarget", "sync"} :
        /\ pc' = [pc EXCEPT ![n] = place]
        /\ pc[n] \in {"sync", "running"}
        /\ UNCHANGED <<registered, engineVars, syncVars, nodeVars>>
    BY DEF BeginCompile, Heartbeat, GoTo
<1>2. TypeOK'
    BY <1>1 DEF IInv, TypeOK, Places, engineVars, syncVars, nodeVars
<1> QED
    BY <1>1, <1>2, NodeIInv DEF IInv, TypeOK, Waiting, Ages, syncVars, nodeVars

LEMMA LookupTargetIInv ==
    ASSUME IInv, NEW n \in Nodes, LookupTarget(n)
    PROVE  IInv'
<1>1. pc[n] = "lookupTarget" /\ writer # n /\ epoch \in Nat
    BY DEF IInv, TypeOK, Waiting, LookupTarget
<1>2. UNCHANGED <<registered, engineVars, nodeVars>>
    BY DEF LookupTarget
<1>3. CASE pc' = [pc EXCEPT ![n] = "running"] /\ UNCHANGED syncVars
  <2>1. TypeOK'
    BY <1>2, <1>3 DEF IInv, TypeOK, Places, engineVars, syncVars, nodeVars
  <2> QED
    BY <1>1, <1>2, <1>3, <2>1, NodeIInv DEF IInv, TypeOK, Ages, syncVars, nodeVars
<1>4. CASE /\ todo' = [todo EXCEPT ![n] = Entries(n)]
           /\ compiled' = [compiled EXCEPT ![n] = [epoch |-> epoch, open |-> {}]]
           /\ pc' = [pc EXCEPT ![n] = "lookupPeers"]
  <2>1. Entries(n) \in SUBSET Entry
    BY EntriesType DEF IInv
  <2>2. [epoch |-> epoch, open |-> {}] \in Table
    BY <1>1 DEF Table
  <2>3. TypeOK'
    BY <1>2, <1>4, <2>1, <2>2 DEF IInv, TypeOK, Places, engineVars, nodeVars
  <2>4. /\ pc'[n] = "lookupPeers" /\ todo'[n] = Entries(n)
        /\ compiled'[n].epoch = epoch /\ compiled'[n].open = {}
        /\ \A m \in Nodes \ {n} :
             pc'[m] = pc[m] /\ todo'[m] = todo[m] /\ compiled'[m] = compiled[m]
    BY <1>4 DEF IInv, TypeOK
  <2>5. installed[n].epoch <= epoch /\ epoch <= epoch
    BY <1>1 DEF IInv, Ages
  <2> QED
    BY <1>1, <1>2, <2>3, <2>4, <2>5, NodeIInv DEF nodeVars
<1> QED
    BY <1>3, <1>4 DEF LookupTarget, GoTo

LEMMA LookupPeerIInv ==
    ASSUME IInv, NEW n \in Nodes, LookupPeer(n)
    PROVE  IInv'
<1>1. PICK e \in todo[n] :
        /\ todo' = [todo EXCEPT ![n] = @ \ {e}]
        /\ compiled' = IF e[2] \in registered
                       THEN [compiled EXCEPT ![n].open = @ \cup {e}]
                       ELSE compiled
    BY DEF LookupPeer
<1>2. pc[n] = "lookupPeers" /\ writer # n /\ UNCHANGED <<registered, engineVars, pc, nodeVars>>
    BY DEF IInv, Waiting, LookupPeer
<1>3. /\ todo \in [Nodes -> SUBSET Entry] /\ compiled \in [Nodes -> Table] /\ e \in Entry
    BY DEF IInv, TypeOK
<1>4. /\ compiled' \in [Nodes -> Table]
      /\ compiled'[n].epoch = compiled[n].epoch
      /\ compiled'[n].open \subseteq compiled[n].open \cup {e}
      /\ \A m \in Nodes \ {n} : compiled'[m] = compiled[m]
    BY <1>1, <1>3 DEF Table
<1>5. todo' \in [Nodes -> SUBSET Entry]
    BY <1>1, <1>3
<1>6. TypeOK'
    BY <1>2, <1>4, <1>5 DEF IInv, TypeOK, engineVars, nodeVars
<1>7. /\ compiled[n].epoch = epoch
      /\ compiled[n].open \cup todo[n] \subseteq Entries(n)
    BY <1>2 DEF IInv, Collected, CompileSeesOneState
<1>8. compiled'[n].open \cup todo'[n] \subseteq Entries(n)
    BY <1>1, <1>3, <1>4, <1>7
<1>9. installed[n].epoch <= compiled[n].epoch /\ compiled[n].epoch <= epoch
      /\ installed[n].epoch <= epoch
    BY <1>2 DEF IInv, Ages
<1>10. \A m \in Nodes \ {n} : todo'[m] = todo[m]
    BY <1>1, <1>3
<1> QED
    BY <1>2, <1>4, <1>6, <1>7, <1>8, <1>9, <1>10, NodeIInv DEF nodeVars

LEMMA EndCompileIInv ==
    ASSUME IInv, NEW n \in Nodes, EndCompile(n)
    PROVE  IInv'
<1>1. TypeOK'
    BY DEF IInv, TypeOK, EndCompile, GoTo, Places, engineVars, syncVars, nodeVars
<1> QED
    BY <1>1, NodeIInv DEF IInv, TypeOK, Waiting, Ages, EndCompile, GoTo, syncVars, nodeVars

LEMMA InstallIInv ==
    ASSUME IInv, NEW n \in Nodes, Install(n) \/ LoseReply(n)
    PROVE  IInv' /\ \A m \in Nodes : installed'[m].epoch >= installed[m].epoch
<1>1. /\ pc[n] = "readEpoch" /\ writer # n
      /\ pc' = [pc EXCEPT ![n] = "running"]
      /\ compiled' = [compiled EXCEPT ![n] = NoTable]
      /\ installed' = [installed EXCEPT ![n] = compiled[n]] \/ installed' = installed
      /\ UNCHANGED <<registered, engineVars, todo, joining>>
    BY DEF IInv, Waiting, Install, LoseReply, GoTo
<1>2. /\ pc \in [Nodes -> Places] /\ compiled \in [Nodes -> Table]
      /\ installed \in [Nodes -> Table] /\ NoTable \in Table /\ epoch \in Nat
    BY DEF IInv, TypeOK, NoTable, Table
<1>3. initial' \in [Nodes -> BOOLEAN] /\ policyEpoch' \in [Nodes -> Nat]
    BY DEF IInv, TypeOK, Install, LoseReply
<1>4. TypeOK'
    BY <1>1, <1>2, <1>3 DEF IInv, TypeOK, Places, engineVars
<1>5. /\ installed[n].epoch <= compiled[n].epoch /\ compiled[n].epoch <= epoch
      /\ installed[n].epoch <= epoch
    BY <1>1 DEF IInv, Ages
<1>6. installed'[n].epoch \in {installed[n].epoch, compiled[n].epoch}
    BY <1>1, <1>2
<1>7. /\ pc'[n] = "running"
      /\ \A m \in Nodes \ {n} : /\ pc'[m] = pc[m] /\ compiled'[m] = compiled[m]
                                /\ installed'[m] = installed[m]
    BY <1>1, <1>2
<1>8. IInv'
    BY <1>1, <1>4, <1>5, <1>6, <1>7, NodeIInv
<1>9. \A m \in Nodes : installed[m].epoch \in Nat /\ compiled[m].epoch \in Nat
    BY <1>2 DEF Table
<1> QED
    BY <1>5, <1>6, <1>7, <1>8, <1>9
-----------------------------------------------------------------------------
LEMMA StepIInv ==
    ASSUME IInv, [Next]_vars
    PROVE  IInv' /\ \A m \in Nodes : installed'[m].epoch >= installed[m].epoch
<1>1. \A m \in Nodes : installed[m].epoch \in Nat
    BY DEF IInv, TypeOK, Table
<1>2. ASSUME IInv', installed' = installed
      PROVE  IInv' /\ \A m \in Nodes : installed'[m].epoch >= installed[m].epoch
    BY <1>1, <1>2
<1>3. CASE AdminWaits \/ AdminRuns
    BY <1>2, <1>3, AdminWaitsIInv, AdminRunsIInv DEF AdminWaits, AdminRuns, nodeVars
<1>4. ASSUME NEW n \in Nodes,
             \/ RegisterNode(n) \/ AssignWaits(n) \/ AssignPeerToGroup(n)
             \/ Registered(n) \/ DeleteNode(n)
      PROVE  IInv' /\ installed' = installed
    BY <1>4, RegisterNodeIInv, AssignWaitsIInv, AssignPeerToGroupIInv, RegisteredIInv, DeleteNodeIInv
       DEF RegisterNode, AssignWaits, AssignPeerToGroup, Registered, DeleteNode, nodeVars
<1>5. ASSUME NEW n \in Nodes,
             BeginCompile(n) \/ LookupTarget(n) \/ LookupPeer(n) \/ EndCompile(n) \/ Heartbeat(n)
      PROVE  IInv' /\ installed' = installed
    BY <1>5, BeginCompileIInv, LookupTargetIInv, LookupPeerIInv, EndCompileIInv
       DEF BeginCompile, LookupTarget, LookupPeer, EndCompile, Heartbeat, nodeVars
<1>6. ASSUME NEW n \in Nodes, Install(n) \/ LoseReply(n)
      PROVE  IInv' /\ \A m \in Nodes : installed'[m].epoch >= installed[m].epoch
    BY <1>6, InstallIInv
<1>7. CASE UNCHANGED vars
  <2>1. TypeOK'
    BY <1>7 DEF IInv, TypeOK, vars, engineVars, syncVars, nodeVars
  <2>2. Waiting' /\ Ages'
    BY <1>7 DEF IInv, Waiting, Ages, vars, engineVars, syncVars, nodeVars
  <2>3. Collected'
    BY <1>7, EngineKept DEF IInv, Collected, CompileSeesOneState, vars, engineVars, syncVars
  <2> QED
    BY <1>2, <1>7, <2>1, <2>2, <2>3 DEF IInv, vars, nodeVars
<1> QED
    BY <1>2, <1>3, <1>4, <1>5, <1>6, <1>7 DEF Next, Sync
-----------------------------------------------------------------------------
\* In every reachable state a compilation and the table it is for belong to the
\* engine as it is, and nobody waits for the lock who has nothing to write.
THEOREM PolicyInvariant == Spec => []IInv
<1>1. IInv /\ [Next]_vars => IInv'
    BY StepIInv
<1> QED
    BY <1>1, InitIInv, PTL DEF Spec

\* The engine, the lock, the handlers and the nodes hold what their types say.
THEOREM PolicyTypes == Spec => []TypeOK
<1>1. IInv => TypeOK
    BY DEF IInv
<1> QED
    BY <1>1, PolicyInvariant, PTL

\* CompilePolicyForPeer under the read lock: what it collects, and the epoch it
\* reports, are those of one state of the engine, however many lookups it makes.
THEOREM CompilationsAreConsistent == Spec => []CompileSeesOneState
<1>1. IInv => CompileSeesOneState
    BY DEF IInv, Collected
<1> QED
    BY <1>1, PolicyInvariant, PTL

\* No sync, lost reply or new registration ever gives a node an older table.
THEOREM TablesMoveOn == Spec => InstalledNeverRegresses
<1>1. IInv /\ [Next]_vars
        => [\A n \in Nodes : installed'[n].epoch >= installed[n].epoch]_vars
    BY StepIInv
<1> QED
    BY <1>1, PolicyInvariant, PTL DEF Spec, InstalledNeverRegresses

\* PeerGroups, and the four cases of a rule: a node lets in exactly who may
\* open a connection to it, for every mix of rules and every grouping of nodes.
THEOREM TwoEndsAgree == Spec => []TablesAgree
<1>1. ASSUME TypeOK PROVE TablesAgree
  <2> SUFFICES ASSUME NEW a \in members[All], NEW b \in members[All]
               PROVE  <<"out", b>> \in Entries(a) <=> <<"in", a>> \in Entries(b)
    BY DEF TablesAgree
  <2>1. \A n \in members[All] : \A g \in Groups : g \in PeerGroups(n) <=> n \in members[g]
    BY PolicyAssumption DEF PeerGroups
  <2>2. \A p \in policies : p.src \subseteq Groups /\ p.dst \subseteq Groups
    BY <1>1, PolicyAssumption DEF TypeOK
  <2>3. ASSUME NEW here \in SUBSET Groups, NEW there \in SUBSET Groups
        PROVE  b \in Opens(a, here, there) <=> a \in Opens(b, there, here)
    BY <2>1, <2>3 DEF Opens
  <2>4. b \in OutPeers(a) <=> a \in InPeers(b)
    BY <2>2, <2>3, PeersOfRules
  <2>5. <<"out", b>> \in Entries(a) <=> b \in OutPeers(a) \ {a}
    BY DEF Entries
  <2>6. <<"in", a>> \in Entries(b) <=> a \in InPeers(b) \ {b}
    BY DEF Entries
  <2> QED
    BY <2>4, <2>5, <2>6
<1> QED
    BY <1>1, PolicyTypes, PTL
-----------------------------------------------------------------------------
(* The register that the nodes read late.                                  *)

\* A compilation looks up each entry once, and no policy has number 0.
Fresh ==
    /\ epoch >= 1
    /\ \A n \in Nodes :
        /\ pc[n] = "lookupPeers" => todo[n] \cap compiled[n].open = {}
        /\ pc[n] \in {"lookupPeers", "readEpoch"} => compiled[n].epoch >= 1

LEMMA InitFresh == Init => Fresh
BY DEF Init, Fresh

LEMMA StepFresh ==
    ASSUME IInv, Fresh, [Next]_vars
    PROVE  Fresh'
<1>0. /\ pc \in [Nodes -> Places] /\ epoch \in Nat
      /\ todo \in [Nodes -> SUBSET Entry] /\ compiled \in [Nodes -> Table]
    BY DEF IInv, TypeOK
<1>1. CASE UNCHANGED vars
    BY <1>1 DEF Fresh, vars, engineVars, syncVars
<1>2. CASE AdminWaits
    BY <1>2 DEF Fresh, AdminWaits, syncVars
<1>3. CASE AdminRuns
  <2>1. epoch' = epoch + 1 /\ UNCHANGED <<pc, syncVars>>
    BY <1>3 DEF AdminRuns, AdminWrites, NextEpoch
  <2> QED
    BY <1>0, <2>1 DEF Fresh, syncVars
<1>4. ASSUME NEW n \in Nodes, AssignPeerToGroup(n) PROVE Fresh'
  <2>1. epoch' >= 1 /\ UNCHANGED <<pc, syncVars>>
    BY <1>0, <1>4 DEF AssignPeerToGroup, Fresh
  <2> QED
    BY <2>1 DEF Fresh, syncVars
<1>5. ASSUME NEW n \in Nodes, UNCHANGED <<epoch, syncVars>>,
             \/ UNCHANGED pc
             \/ \E place \in Places \ {"lookupPeers"} :
                    /\ pc' = [pc EXCEPT ![n] = place]
                    /\ place = "readEpoch" => pc[n] = "lookupPeers"
      PROVE  Fresh'
    BY <1>0, <1>5 DEF Fresh, syncVars
<1>6. ASSUME NEW n \in Nodes,
             \/ RegisterNode(n) \/ AssignWaits(n) \/ Registered(n) \/ DeleteNode(n)
             \/ BeginCompile(n) \/ EndCompile(n) \/ Heartbeat(n)
      PROVE  Fresh'
    BY <1>5, <1>6 DEF RegisterNode, AssignWaits, Registered, DeleteNode, BeginCompile,
       EndCompile, Heartbeat, GoTo, Places, engineVars
<1>7. ASSUME NEW n \in Nodes, LookupTarget(n) PROVE Fresh'
  <2>1. CASE /\ todo' = [todo EXCEPT ![n] = Entries(n)]
             /\ compiled' = [compiled EXCEPT ![n] = [epoch |-> epoch, open |-> {}]]
             /\ pc' = [pc EXCEPT ![n] = "lookupPeers"]
             /\ epoch' = epoch
    BY <1>0, <2>1 DEF Fresh
  <2>2. CASE pc' = [pc EXCEPT ![n] = "running"] /\ UNCHANGED <<epoch, syncVars>>
    <3>1. \E place \in Places \ {"lookupPeers"} :
            pc' = [pc EXCEPT ![n] = place] /\ (place = "readEpoch" => pc[n] = "lookupPeers")
      <4>1. "running" \in Places \ {"lookupPeers"} /\ "running" # "readEpoch"
        BY DEF Places
      <4> QED
        BY <2>2, <4>1
    <3> QED
      BY <1>5, <2>2, <3>1
  <2> QED
    BY <1>7, <2>1, <2>2 DEF LookupTarget, GoTo, engineVars
<1>8. ASSUME NEW n \in Nodes, LookupPeer(n) PROVE Fresh'
  <2>1. PICK e \in todo[n] :
          /\ todo' = [todo EXCEPT ![n] = @ \ {e}]
          /\ compiled' = IF e[2] \in registered
                         THEN [compiled EXCEPT ![n].open = @ \cup {e}]
                         ELSE compiled
    BY <1>8 DEF LookupPeer
  <2>2. /\ pc[n] = "lookupPeers" /\ UNCHANGED <<pc, epoch>>
    BY <1>8 DEF LookupPeer, engineVars
  <2>3. /\ compiled'[n].epoch = compiled[n].epoch
        /\ compiled'[n].open \subseteq compiled[n].open \cup {e}
        /\ todo'[n] = todo[n] \ {e}
        /\ \A m \in Nodes \ {n} : compiled'[m] = compiled[m] /\ todo'[m] = todo[m]
    BY <1>0, <2>1 DEF Table
  <2> QED
    BY <2>2, <2>3 DEF Fresh
<1>9. ASSUME NEW n \in Nodes, Install(n) \/ LoseReply(n) PROVE Fresh'
  <2>1. /\ pc' = [pc EXCEPT ![n] = "running"] /\ UNCHANGED <<epoch, todo>>
        /\ compiled' = [compiled EXCEPT ![n] = NoTable]
    BY <1>9 DEF Install, LoseReply, GoTo, engineVars
  <2> QED
    BY <1>0, <2>1 DEF Fresh
<1> QED
    BY <1>1, <1>2, <1>3, <1>4, <1>6, <1>7, <1>8, <1>9 DEF Next, Sync
-----------------------------------------------------------------------------
(* The state of the register that a state of the system stands for.         *)

Found(n) == IF pc[n] = "lookupPeers" THEN compiled[n].open ELSE {}
Missed(n) == IF pc[n] = "lookupPeers"
             THEN Entries(n) \ (todo[n] \cup compiled[n].open) ELSE {}
Ready(n) == IF pc[n] = "readEpoch" THEN compiled[n] ELSE NoTable

OpensOf == [n \in Nodes |-> Entries(n)]
FoundOf == [n \in Nodes |-> Found(n)]
MissedOf == [n \in Nodes |-> Missed(n)]
ReadyOf == [n \in Nodes |-> Ready(n)]

\* A step of one node that leaves the engine alone changes what the register
\* holds for this node, if anything.
LEMMA OthersReadOn ==
    ASSUME IInv, NEW n \in Nodes, UNCHANGED <<members, policies>>,
           \A m \in Nodes \ {n} :
               pc'[m] = pc[m] /\ todo'[m] = todo[m] /\ compiled'[m] = compiled[m]
    PROVE  /\ OpensOf' = OpensOf
           /\ FoundOf' = [FoundOf EXCEPT ![n] = Found(n)']
           /\ MissedOf' = [MissedOf EXCEPT ![n] = Missed(n)']
           /\ ReadyOf' = [ReadyOf EXCEPT ![n] = Ready(n)']
<1>1. \A m : Entries(m)' = Entries(m)
    BY EngineKept
<1>2. \A m \in Nodes \ {n} :
        Found(m)' = Found(m) /\ Missed(m)' = Missed(m) /\ Ready(m)' = Ready(m)
    BY <1>1 DEF Found, Missed, Ready
<1>3. OpensOf' = OpensOf
    BY <1>1 DEF OpensOf
<1>4. FoundOf' = [FoundOf EXCEPT ![n] = Found(n)']
    BY <1>2 DEF FoundOf
<1>5. MissedOf' = [MissedOf EXCEPT ![n] = Missed(n)']
    BY <1>2 DEF MissedOf
<1>6. ReadyOf' = [ReadyOf EXCEPT ![n] = Ready(n)']
    BY <1>2 DEF ReadyOf
<1> QED
    BY <1>3, <1>4, <1>5, <1>6

\* A write happens when nobody compiles.
LEMMA WriteMaps ==
    ASSUME CanLock, UNCHANGED <<pc, compiled>>
    PROVE  FoundOf' = FoundOf /\ MissedOf' = MissedOf /\ ReadyOf' = ReadyOf
<1>1. \A n \in Nodes : pc[n] # "lookupPeers"
    BY DEF CanLock, Compiling
<1>2. \A n \in Nodes : Found(n)' = Found(n) /\ Missed(n)' = Missed(n) /\ Ready(n)' = Ready(n)
    BY <1>1 DEF Found, Missed, Ready
<1>3. FoundOf' = FoundOf
    BY <1>2 DEF FoundOf
<1>4. MissedOf' = MissedOf
    BY <1>2 DEF MissedOf
<1>5. ReadyOf' = ReadyOf
    BY <1>2 DEF ReadyOf
<1> QED
    BY <1>3, <1>4, <1>5

LEMMA EntriesTypeLater == (TypeOK => \A n \in Nodes : Entries(n) \in SUBSET Entry)'
<1>1. TypeOK => \A n \in Nodes : Entries(n) \in SUBSET Entry
    BY EntriesType
<1> QED
    BY <1>1, PTL

LEMMA ChangeMaps ==
    ASSUME IInv, IInv', CanLock, epoch' = epoch + 1,
           UNCHANGED <<registered, pc, compiled, installed>>
    PROVE  Register!Change
<1>1. \A n \in Nodes : Entries(n)' \in SUBSET Entry
    BY EntriesTypeLater DEF IInv
<1>2. OpensOf' \in [Nodes -> SUBSET Entry]
    BY <1>1 DEF OpensOf
<1>3. FoundOf' = FoundOf /\ MissedOf' = MissedOf /\ ReadyOf' = ReadyOf
    BY WriteMaps
<1> QED
    BY <1>2, <1>3 DEF Register!Change, OpensOf, FoundOf, MissedOf, ReadyOf,
       Found, Missed, Ready, Register!Entry, Entry, Register!NoTable

LEMMA AdminRunsMaps ==
    ASSUME IInv, IInv', AdminRuns
    PROVE  Register!Change
<1>1. epoch' = epoch + 1
    BY DEF AdminRuns, AdminWrites, NextEpoch
<1> QED
    BY <1>1, ChangeMaps DEF AdminRuns, syncVars, nodeVars

\* Only an assignment that adds the node is a change.
LEMMA AssignMaps ==
    ASSUME IInv, IInv', NEW n \in Nodes, AssignPeerToGroup(n)
    PROVE  [Register!Next]_Register!vars
<1>1. PICK g : g = Head(joining[n])
    OBVIOUS
<1>2. g \in Groups /\ members \in [Groups -> SUBSET Nodes]
  <2>1. joining[n] \in Seq(Groups) /\ joining[n] # <<>>
    BY DEF IInv, TypeOK, Waiting, AssignPeerToGroup
  <2> QED
    BY <1>1, <2>1, HeadTailProperties DEF IInv, TypeOK
<1>3. CASE n \in members[g]
  <2>1. members' = members /\ epoch' = epoch
    BY <1>1, <1>2, <1>3 DEF AssignPeerToGroup
  <2>2. OpensOf' = OpensOf
    BY <2>1, EngineKept DEF AssignPeerToGroup, OpensOf
  <2>3. FoundOf' = FoundOf /\ MissedOf' = MissedOf /\ ReadyOf' = ReadyOf
    BY WriteMaps DEF AssignPeerToGroup, syncVars
  <2>4. UNCHANGED <<registered, installed>>
    BY DEF AssignPeerToGroup
  <2> QED
    BY <2>1, <2>2, <2>3, <2>4 DEF Register!vars, OpensOf, FoundOf, MissedOf, ReadyOf,
       Found, Missed, Ready, Register!NoTable, NoTable
<1>4. CASE n \notin members[g]
  <2>1. epoch' = epoch + 1
    BY <1>1, <1>4 DEF AssignPeerToGroup
  <2>2. Register!Change
    BY <2>1, ChangeMaps DEF AssignPeerToGroup, syncVars
  <2> QED
    BY <2>2 DEF Register!Next
<1> QED
    BY <1>3, <1>4

\* A step of one node that looks nothing up.
LEMMA ReadsStay ==
    ASSUME IInv, NEW n \in Nodes, UNCHANGED engineVars,
           \A m \in Nodes \ {n} :
               pc'[m] = pc[m] /\ todo'[m] = todo[m] /\ compiled'[m] = compiled[m],
           Found(n)' = Found(n), Missed(n)' = Missed(n), Ready(n)' = Ready(n)
    PROVE  OpensOf' = OpensOf /\ FoundOf' = FoundOf /\ MissedOf' = MissedOf /\ ReadyOf' = ReadyOf
<1>1. OpensOf' = OpensOf
    BY OthersReadOn DEF engineVars
<1>2. FoundOf' = FoundOf
    BY OthersReadOn DEF engineVars, FoundOf
<1>3. MissedOf' = MissedOf
    BY OthersReadOn DEF engineVars, MissedOf
<1>4. ReadyOf' = ReadyOf
    BY OthersReadOn DEF engineVars, ReadyOf
<1> QED
    BY <1>1, <1>2, <1>3, <1>4

LEMMA EngineMaps ==
    ASSUME IInv, UNCHANGED <<epoch, members, policies, pc, syncVars, installed>>
    PROVE  /\ OpensOf' = OpensOf /\ FoundOf' = FoundOf /\ MissedOf' = MissedOf
           /\ ReadyOf' = ReadyOf
<1>1. \A m : Entries(m)' = Entries(m)
    BY EngineKept
<1>2. \A m : Found(m)' = Found(m) /\ Missed(m)' = Missed(m) /\ Ready(m)' = Ready(m)
    BY <1>1 DEF Found, Missed, Ready, syncVars
<1>3. OpensOf' = OpensOf
    BY <1>1 DEF OpensOf
<1>4. FoundOf' = FoundOf
    BY <1>2 DEF FoundOf
<1>5. MissedOf' = MissedOf
    BY <1>2 DEF MissedOf
<1>6. ReadyOf' = ReadyOf
    BY <1>2 DEF ReadyOf
<1> QED
    BY <1>3, <1>4, <1>5, <1>6

LEMMA WaitMaps ==
    ASSUME IInv, AdminWaits \/ \E n \in Nodes : AssignWaits(n)
    PROVE  UNCHANGED Register!vars
<1>1. UNCHANGED <<registered, epoch, members, policies, pc, syncVars, nodeVars>>
    BY DEF AdminWaits, AssignWaits
<1> QED
    BY <1>1, EngineMaps DEF Register!vars, OpensOf, FoundOf, MissedOf, ReadyOf,
       Found, Missed, Ready, Register!NoTable, NoTable, nodeVars

LEMMA DeleteMaps ==
    ASSUME IInv, NEW n \in Nodes, DeleteNode(n)
    PROVE  Register!Leave(n)
<1>1. /\ registered' = registered \ {n}
      /\ UNCHANGED <<engineVars, pc, syncVars, nodeVars>>
    BY DEF DeleteNode
<1> QED
    BY <1>1, EngineMaps DEF Register!Leave, OpensOf, FoundOf, MissedOf, ReadyOf,
       Found, Missed, Ready, Register!NoTable, NoTable, engineVars, nodeVars

LEMMA EnterMaps ==
    ASSUME IInv, NEW n \in Nodes, RegisterNode(n)
    PROVE  Register!Enter(n)
<1>1. /\ registered' = registered \cup {n}
      /\ pc[n] = "off" /\ pc'[n] = "joining"
      /\ \A m \in Nodes \ {n} :
           pc'[m] = pc[m] /\ todo'[m] = todo[m] /\ compiled'[m] = compiled[m]
      /\ UNCHANGED <<engineVars, installed>>
    BY DEF IInv, TypeOK, RegisterNode, GoTo, syncVars
<1>2. /\ Found(n) = {} /\ Missed(n) = {} /\ Ready(n) = NoTable
      /\ Found(n)' = {} /\ Missed(n)' = {} /\ Ready(n)' = NoTable
    BY <1>1 DEF Found, Missed, Ready, NoTable
<1>3. OpensOf' = OpensOf /\ FoundOf' = FoundOf /\ MissedOf' = MissedOf /\ ReadyOf' = ReadyOf
    BY <1>1, <1>2, ReadsStay
<1> QED
    BY <1>1, <1>3 DEF Register!Enter, OpensOf, FoundOf, MissedOf, ReadyOf,
       Found, Missed, Ready, Register!NoTable, NoTable, engineVars

LEMMA WayMaps ==
    ASSUME IInv, NEW n \in Nodes,
           \/ Registered(n) \/ BeginCompile(n) \/ LookupTarget(n) \/ Heartbeat(n)
    PROVE  UNCHANGED Register!vars
<1>0. /\ pc \in [Nodes -> Places] /\ todo \in [Nodes -> SUBSET Entry]
      /\ compiled \in [Nodes -> Table]
    BY DEF IInv, TypeOK
<1>1. PICK place \in {"sync", "lookupTarget", "running", "lookupPeers"} :
        /\ pc' = [pc EXCEPT ![n] = place]
        /\ place = "lookupPeers" =>
             /\ todo' = [todo EXCEPT ![n] = Entries(n)]
             /\ compiled' = [compiled EXCEPT ![n] = [epoch |-> epoch, open |-> {}]]
        /\ place # "lookupPeers" => UNCHANGED syncVars
        /\ pc[n] \in {"joining", "sync", "lookupTarget", "running"}
        /\ UNCHANGED <<registered, engineVars, installed>>
    BY DEF Registered, BeginCompile, LookupTarget, Heartbeat, GoTo, nodeVars
<1>2. \A m \in Nodes \ {n} :
        pc'[m] = pc[m] /\ todo'[m] = todo[m] /\ compiled'[m] = compiled[m]
    BY <1>0, <1>1 DEF syncVars
<1>3. /\ pc'[n] = place /\ pc[n] \notin {"lookupPeers", "readEpoch"}
      /\ place = "lookupPeers" => todo'[n] = Entries(n) /\ compiled'[n].open = {}
    BY <1>0, <1>1
<1>4. Entries(n)' = Entries(n)
    BY <1>1, EngineKept DEF engineVars
<1>5. /\ Found(n) = {} /\ Missed(n) = {} /\ Ready(n) = NoTable
      /\ Found(n)' = {} /\ Missed(n)' = {} /\ Ready(n)' = NoTable
    BY <1>1, <1>3, <1>4 DEF Found, Missed, Ready, NoTable
<1> QED
    BY <1>1, <1>2, <1>5, ReadsStay DEF Register!vars, OpensOf, FoundOf, MissedOf, ReadyOf,
       Found, Missed, Ready, Register!NoTable, NoTable, engineVars

LEMMA LookUpMaps ==
    ASSUME IInv, Fresh, NEW n \in Nodes, LookupPeer(n)
    PROVE  \E e \in Entry : Register!LookUp(n, e)
<1>0. /\ todo \in [Nodes -> SUBSET Entry] /\ compiled \in [Nodes -> Table]
    BY DEF IInv, TypeOK
<1>1. PICK e \in todo[n] :
        /\ todo' = [todo EXCEPT ![n] = @ \ {e}]
        /\ compiled' = IF e[2] \in registered
                       THEN [compiled EXCEPT ![n].open = @ \cup {e}]
                       ELSE compiled
    BY DEF LookupPeer
<1>2. /\ pc[n] = "lookupPeers" /\ pc' = pc
      /\ UNCHANGED <<registered, engineVars, installed>>
    BY DEF LookupPeer, nodeVars
<1>3. /\ e \in Entry /\ e \notin compiled[n].open /\ e \in Entries(n)
      /\ compiled[n].open \cup todo[n] \subseteq Entries(n)
    BY <1>0, <1>1, <1>2 DEF Fresh, IInv, Collected, CompileSeesOneState
<1>4. /\ todo'[n] = todo[n] \ {e}
      /\ compiled'[n].open = IF e[2] \in registered THEN compiled[n].open \cup {e}
                             ELSE compiled[n].open
      /\ \A m \in Nodes \ {n} :
           pc'[m] = pc[m] /\ todo'[m] = todo[m] /\ compiled'[m] = compiled[m]
    BY <1>0, <1>1, <1>2 DEF Table
<1>5. Entries(n)' = Entries(n)
    BY <1>2, EngineKept DEF engineVars
<1>6. /\ Found(n)' = IF e[2] \in registered THEN Found(n) \cup {e} ELSE Found(n)
      /\ e \notin Found(n) \cup Missed(n)
    BY <1>1, <1>2, <1>3, <1>4 DEF Found, Missed
<1>7. Missed(n)' = IF e[2] \in registered THEN Missed(n) ELSE Missed(n) \cup {e}
    BY <1>1, <1>2, <1>3, <1>4, <1>5 DEF Missed
<1>8. Ready(n)' = Ready(n)
    BY <1>2 DEF Ready
<1>9. /\ OpensOf' = OpensOf
      /\ FoundOf' = [FoundOf EXCEPT ![n] = Found(n)']
      /\ MissedOf' = [MissedOf EXCEPT ![n] = Missed(n)']
      /\ ReadyOf' = [ReadyOf EXCEPT ![n] = Ready(n)']
    BY <1>2, <1>4, OthersReadOn DEF engineVars
<1>10. /\ e \in OpensOf[n] \ (FoundOf[n] \cup MissedOf[n])
       /\ \/ e[2] \in registered /\ FoundOf' = [FoundOf EXCEPT ![n] = @ \cup {e}] /\ MissedOf' = MissedOf
          \/ e[2] \notin registered /\ MissedOf' = [MissedOf EXCEPT ![n] = @ \cup {e}] /\ FoundOf' = FoundOf
       /\ UNCHANGED <<registered, epoch, OpensOf, ReadyOf, installed>>
  <2>1. /\ e \in OpensOf[n] \ (FoundOf[n] \cup MissedOf[n])
        /\ FoundOf[n] = Found(n) /\ MissedOf[n] = Missed(n)
    BY <1>3, <1>6 DEF OpensOf, FoundOf, MissedOf
  <2>2. ReadyOf' = ReadyOf
    BY <1>8, <1>9 DEF ReadyOf
  <2>3. CASE e[2] \in registered
    <3>1. MissedOf' = MissedOf
      BY <1>7, <1>9, <2>3 DEF MissedOf
    <3>2. FoundOf' = [FoundOf EXCEPT ![n] = @ \cup {e}]
      BY <1>6, <1>9, <2>1, <2>3
    <3> QED
      BY <1>2, <1>9, <2>1, <2>2, <2>3, <3>1, <3>2 DEF engineVars
  <2>4. CASE e[2] \notin registered
    <3>1. FoundOf' = FoundOf
      BY <1>6, <1>9, <2>4 DEF FoundOf
    <3>2. MissedOf' = [MissedOf EXCEPT ![n] = @ \cup {e}]
      BY <1>7, <1>9, <2>1, <2>4
    <3> QED
      BY <1>2, <1>9, <2>1, <2>2, <2>4, <3>1, <3>2 DEF engineVars
  <2> QED
    BY <2>3, <2>4
<1>11. Register!LookUp(n, e)
    BY <1>10 DEF Register!LookUp, OpensOf, FoundOf, MissedOf, ReadyOf,
       Found, Missed, Ready, Register!NoTable, NoTable
<1> QED
    BY <1>3, <1>11

\* Everything was looked up: what was found is what the policy opens.
LEMMA ReadMaps ==
    ASSUME IInv, NEW n \in Nodes, EndCompile(n)
    PROVE  Register!Read(n)
<1>1. /\ pc[n] = "lookupPeers" /\ pc'[n] = "readEpoch" /\ todo[n] = {}
      /\ \A m \in Nodes \ {n} :
           pc'[m] = pc[m] /\ todo'[m] = todo[m] /\ compiled'[m] = compiled[m]
      /\ UNCHANGED <<registered, engineVars, syncVars, installed>>
    BY DEF IInv, TypeOK, EndCompile, GoTo, syncVars, nodeVars
<1>2. compiled[n] \in Table /\ compiled[n].epoch = epoch /\ compiled[n].open \subseteq Entries(n)
    BY <1>1 DEF IInv, TypeOK, Collected, CompileSeesOneState
<1>3. compiled[n] = [epoch |-> epoch, open |-> compiled[n].open]
    BY <1>2 DEF Table
<1>4. /\ Entries(n) = Found(n) \cup Missed(n) /\ Found(n) = compiled[n].open
      /\ Found(n)' = {} /\ Missed(n)' = {} /\ Ready(n)' = compiled[n]
    BY <1>1, <1>2 DEF Found, Missed, Ready, syncVars
<1>5. /\ OpensOf' = OpensOf
      /\ FoundOf' = [FoundOf EXCEPT ![n] = {}]
      /\ MissedOf' = [MissedOf EXCEPT ![n] = {}]
      /\ ReadyOf' = [ReadyOf EXCEPT ![n] = [epoch |-> epoch, open |-> Found(n)]]
    BY <1>1, <1>3, <1>4, OthersReadOn DEF engineVars
<1>6. OpensOf[n] = FoundOf[n] \cup MissedOf[n] /\ FoundOf[n] = Found(n)
    BY <1>4 DEF OpensOf, FoundOf, MissedOf
<1>7. ReadyOf' = [ReadyOf EXCEPT ![n] = [epoch |-> epoch, open |-> FoundOf[n]]]
    BY <1>5, <1>6
<1> QED
    BY <1>1, <1>5, <1>6, <1>7 DEF Register!Read, OpensOf, FoundOf, MissedOf, ReadyOf,
       Found, Missed, Ready, Register!NoTable, NoTable, engineVars

\* What was read is used or thrown away; it is no older than what is in use.
LEMMA UseMaps ==
    ASSUME IInv, Fresh, NEW n \in Nodes, Install(n) \/ LoseReply(n)
    PROVE  Register!Install(n) \/ Register!Forget(n)
<1>1. /\ pc[n] = "readEpoch" /\ pc'[n] = "running"
      /\ \A m \in Nodes \ {n} :
           pc'[m] = pc[m] /\ todo'[m] = todo[m] /\ compiled'[m] = compiled[m]
      /\ installed' = [installed EXCEPT ![n] = compiled[n]] \/ installed' = installed
      /\ UNCHANGED <<registered, engineVars>>
    BY DEF IInv, TypeOK, Install, LoseReply, GoTo
<1>2. /\ compiled[n].epoch >= 1 /\ compiled[n].epoch >= installed[n].epoch
  <2>1. compiled[n].epoch \in Nat /\ installed[n].epoch \in Nat
    BY DEF IInv, TypeOK, Table
  <2> QED
    BY <1>1, <2>1 DEF IInv, Ages, Fresh
<1>3. compiled[n] # NoTable
    BY <1>2 DEF NoTable
<1>4. /\ Found(n) = {} /\ Missed(n) = {} /\ Ready(n) = compiled[n]
      /\ Found(n)' = {} /\ Missed(n)' = {} /\ Ready(n)' = NoTable
    BY <1>1 DEF Found, Missed, Ready, NoTable
<1>5. /\ OpensOf' = OpensOf /\ FoundOf' = FoundOf /\ MissedOf' = MissedOf
      /\ ReadyOf' = [ReadyOf EXCEPT ![n] = NoTable]
  <2>1. OpensOf' = OpensOf
    BY <1>1, OthersReadOn DEF engineVars
  <2>2. FoundOf' = FoundOf
    BY <1>1, <1>4, OthersReadOn DEF engineVars, FoundOf
  <2>3. MissedOf' = MissedOf
    BY <1>1, <1>4, OthersReadOn DEF engineVars, MissedOf
  <2>4. ReadyOf' = [ReadyOf EXCEPT ![n] = NoTable]
    BY <1>1, <1>4, OthersReadOn DEF engineVars
  <2> QED
    BY <2>1, <2>2, <2>3, <2>4
<1>6. ReadyOf[n] = compiled[n]
    BY <1>4 DEF ReadyOf
<1>7. CASE installed' = installed
    BY <1>1, <1>5, <1>7 DEF Register!Forget, OpensOf, FoundOf, MissedOf, ReadyOf,
       Found, Missed, Ready, Register!NoTable, NoTable, engineVars
<1>8. CASE installed' = [installed EXCEPT ![n] = ReadyOf[n]]
    <2>1. ReadyOf[n] # NoTable /\ ReadyOf[n].epoch >= installed[n].epoch
      BY <1>2, <1>3, <1>6
    <2> QED
      BY <1>1, <1>5, <1>8, <2>1 DEF Register!Install, OpensOf, FoundOf, MissedOf, ReadyOf,
         Found, Missed, Ready, Register!NoTable, NoTable, engineVars
<1> QED
    BY <1>1, <1>6, <1>7, <1>8

LEMMA RegisterStep ==
    ASSUME IInv, IInv', Fresh, [Next]_vars
    PROVE  [Register!Next]_Register!vars
<1>1. CASE UNCHANGED vars
  <2>1. UNCHANGED <<registered, epoch, members, policies, pc, syncVars, installed>>
    BY <1>1 DEF vars, engineVars, nodeVars
  <2> QED
    BY <2>1, EngineMaps DEF Register!vars, OpensOf, FoundOf, MissedOf, ReadyOf,
       Found, Missed, Ready, Register!NoTable, NoTable
<1>2. CASE AdminWaits \/ \E n \in Nodes : AssignWaits(n)
    BY <1>2, WaitMaps
<1>3. CASE AdminRuns
    BY <1>3, AdminRunsMaps DEF Register!Next
<1>4. ASSUME NEW n \in Nodes, AssignPeerToGroup(n)
      PROVE  [Register!Next]_Register!vars
    BY <1>4, AssignMaps
<1>5. ASSUME NEW n \in Nodes, RegisterNode(n) \/ DeleteNode(n) \/ EndCompile(n)
      PROVE  Register!Next
    BY <1>5, EnterMaps, DeleteMaps, ReadMaps DEF Register!Next
<1>6. ASSUME NEW n \in Nodes, Registered(n) \/ BeginCompile(n) \/ LookupTarget(n) \/ Heartbeat(n)
      PROVE  UNCHANGED Register!vars
    BY <1>6, WayMaps
<1>7. ASSUME NEW n \in Nodes, LookupPeer(n)
      PROVE  Register!Next
    BY <1>7, LookUpMaps DEF Register!Next, Register!Entry, Entry
<1>8. ASSUME NEW n \in Nodes, Install(n) \/ LoseReply(n)
      PROVE  Register!Next
    BY <1>8, UseMaps DEF Register!Next
<1> QED
    BY <1>1, <1>2, <1>3, <1>4, <1>5, <1>6, <1>7, <1>8 DEF Next, Sync

LEMMA InitRegister == Init => Register!Init
<1> SUFFICES ASSUME Init PROVE Register!Init
    OBVIOUS
<1>1. \A n \in Nodes : Entries(n) = {}
    BY DEF Init, Entries, OutPeers, InPeers
<1>2. \A n \in Nodes : Found(n) = {} /\ Missed(n) = {} /\ Ready(n) = NoTable
    BY DEF Init, Found, Missed, Ready, NoTable
<1>3. /\ OpensOf = [n \in Nodes |-> {}] /\ FoundOf = [n \in Nodes |-> {}]
      /\ MissedOf = [n \in Nodes |-> {}] /\ ReadyOf = [n \in Nodes |-> NoTable]
    BY <1>1, <1>2 DEF OpensOf, FoundOf, MissedOf, ReadyOf
<1> QED
    BY <1>3 DEF Init, Register!Init, OpensOf, FoundOf, MissedOf, ReadyOf,
       Found, Missed, Ready, Register!NoTable, NoTable

\* CompilePolicyForPeer, handleSyncACLs and the loop of the node are reads of a
\* register that is written by the management API and by handleRegister: every
\* table is what the policy of one moment opens, under the number of that
\* policy, and every change of the policy gets a number of its own.
THEOREM SyncIsRegister == Spec => ImplementsRegister
<1>1. IInv /\ Fresh /\ [Next]_vars => Fresh'
    BY StepFresh
<1>2. IInv /\ IInv' /\ Fresh /\ [Next]_vars => [Register!Next]_Register!vars
    BY RegisterStep
<1> QED
    BY <1>1, <1>2, InitFresh, InitRegister, PolicyInvariant, PTL
       DEF Spec, ImplementsRegister, Register!Spec
=============================================================================
