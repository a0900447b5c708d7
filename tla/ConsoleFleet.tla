---------------------------- MODULE ConsoleFleet ----------------------------
(***************************************************************************)
(* The nodes of the console over PostgreSQL: enrolment and its addresses   *)
(* (routes/nodes.js, routes/configs.js, utils/crypto.js), the actions of   *)
(* operators, telemetry with its risk score and automatic quarantine       *)
(* (services/RiskEngine.js, routes/risk.js), the heartbeats of Go nodes    *)
(* (server.js) and the stream of topology events (TopologySync.js,         *)
(* ws/topologyServer.js) of one console process, and the accounts that are *)
(* deleted with their nodes (routes/users.js, services/NukeEngine.js).     *)
(* The registration of Go nodes (server.js:45) never succeeds: it names a  *)
(* column that the table does not have.                                    *)
(*                                                                         *)
(* A handler is a sequence of queries and every query ends a step: what it *)
(* has read may be old by the time it writes.  An address is an offset of  *)
(* the overlay range; both addresses of a row stem from one offset, until  *)
(* a quarantine moves the IPv4 one.  Attributes that only describe a node  *)
(* (name, role, onion hops, kill switch, load) are left out.               *)
(***************************************************************************)
EXTENDS Integers, FiniteSets

CONSTANTS
  Nodes,            \* ids of nodes
  Users, Admin,
  OwnerOf, KeyOf,   \* who enrols a node, and the public key it comes with
  Quota,            \* users.max_nodes
  Pool, Isolated,   \* how many addresses the range and the quarantine subnet hold
  Noise,            \* what round trip and jitter add to a risk score
  Requests, Calls,  \* slots for requests; what clients call in each, for which node
  Viewers           \* accounts that hold a WebSocket open

Writes == {"create", "generate", "update", "delete", "set", "quarantine", "lift", "attest",
           "telemetry"}
AllOps == Writes \cup {"read", "heartbeat"}

ASSUME FleetAssumption ==
  /\ Admin \in Users /\ Viewers \subseteq Users /\ Nodes # {}
  /\ OwnerOf \in [Nodes -> Users] /\ DOMAIN KeyOf = Nodes
  /\ Pool \in Nat \ {0} /\ Isolated \in Nat \ {0}
  /\ Noise \subseteq {0, 15, 25, 40}
  /\ Calls \in [Requests -> SUBSET (AllOps \X Nodes)]

VARIABLES
  rows,             \* the table nodes
  tracked,          \* nodes with rows in node_telemetry_history
  req,
  sockets,          \* WebSockets: state, isAlive, and what their clients know of every node
  accounts,         \* the accounts of Users that are still there
  used,             \* ids that were enrolled: a node that is deleted does not come back
  \* History: changes that overlapped another of the same node, nodes that such changes
  \* left viewers in doubt about, and nodes that went with their account.
  overlapped, muddled, vanished

history == <<overlapped, muddled, vanished>>
rest == <<accounts, used, history>>
vars == <<rows, tracked, req, sockets, rest>>

Overlay == 1..Pool
Subnet == (Pool + 1)..(Pool + Isolated)

absent == [there |-> FALSE, v4 |-> 0, v6 |-> 0, quarantined |-> FALSE, healthy |-> FALSE,
           risk |-> 0]
Fresh(v4, v6) == [absent EXCEPT !.there = TRUE, !.v4 = v4, !.v6 = v6, !.healthy = TRUE]
Enrolled == {n \in Nodes : rows[n].there}
idle == [pc |-> "idle", op |-> "read", node |-> CHOOSE n \in Nodes : TRUE, seen |-> absent,
         arg |-> "none", bump |-> 0, v4 |-> 0]
Busy(r) == req[r].pc # "idle"
away == [at |-> "away", alive |-> FALSE, told |-> [n \in Nodes |-> "unheard"]]

Row == [there : BOOLEAN, v4 : 0..(Pool + Isolated), v6 : 0..Pool, quarantined : BOOLEAN,
        healthy : BOOLEAN, risk : 0..100]
Request == [pc : {"idle", "count", "key", "vips", "insert", "find", "again", "write", "delete",
                  "reread", "latest", "judge", "record", "score", "announce"},
            op : AllOps, node : Nodes, seen : Row,
            arg : {"none", "quarantined", "active", "other"}, bump : 0..90,
            v4 : 0..(Pool + Isolated)]

TypeOK ==
  /\ rows \in [Nodes -> Row] /\ req \in [Requests -> Request]
  /\ \A n \in Nodes : /\ rows[n].there <=> rows[n].v4 # 0
                      /\ rows[n].there <=> rows[n].v6 # 0
  /\ tracked \subseteq Enrolled
  /\ sockets \in [Viewers -> [at : {"away", "asked", "open"}, alive : BOOLEAN,
                              told : [Nodes -> {"unheard", "gone", "up", "held"}]]]
  /\ accounts \subseteq Users /\ used \subseteq Nodes /\ Enrolled \subseteq used
  /\ overlapped \subseteq Requests
  /\ muddled \subseteq Nodes /\ vanished \subseteq Nodes

Init ==
  /\ rows = [n \in Nodes |-> absent] /\ tracked = {}
  /\ req = [r \in Requests |-> idle]
  /\ sockets = [v \in Viewers |-> away]
  /\ accounts = Users /\ used = {} /\ overlapped = {} /\ muddled = {} /\ vanished = {}

Goto(r, pc) == req' = [req EXCEPT ![r].pc = pc]
Done(r, pc) == req' = [req EXCEPT ![r] = [idle EXCEPT !.pc = pc, !.op = req[r].op,
                                                      !.node = req[r].node]]
Answer(r) == req' = [req EXCEPT ![r] = idle]
-----------------------------------------------------------------------------
(* An INSERT or UPDATE that breaks UNIQUE fails and the handler answers    *)
(* 500.                                                                    *)
\* Variant: overlay_ipv6 is not UNIQUE.
UniqueIPv4(table) ==
  \A n, m \in Nodes :
    n # m /\ table[n].there /\ table[m].there => table[n].v4 # table[m].v4 /\ KeyOf[n] # KeyOf[m]

Unique(table) ==
  \A n, m \in Nodes :
    n # m /\ table[n].there /\ table[m].there =>
      table[n].v4 # table[m].v4 /\ table[n].v6 # table[m].v6 /\ KeyOf[n] # KeyOf[m]

First(S) == {a \in S : \A b \in S : a <= b}

(* allocateVipFromRows: the first offset neither of whose addresses is     *)
(* taken.  The range does not run out, and enrolment does not get as far   *)
(* as the quarantine subnet, which begins 64000 addresses into it.         *)
FreeOffset ==
  {o \in Overlay : \A n \in Enrolled : rows[n].v4 # o /\ rows[n].v6 # o}

(* allocateQuarantineIp: the first free address of the subnet, or a random *)
(* one when none is left.                                                  *)
QuarantineIps ==
  LET free == {a \in Subnet : \A n \in Enrolled : rows[n].v4 # a}
  IN  IF free = {} THEN Subnet ELSE First(free)

(* A viewer's picture of a node.                                           *)
Picture(row) == IF ~row.there THEN "gone" ELSE IF row.quarantined THEN "held" ELSE "up"

(* broadcastNodeEvent, publishTopologyEvent, broadcastTopologyMessage: an  *)
(* event reaches the sockets open now, unless it is about a node of        *)
(* someone else.  Events of actions name no owner and reach everybody.     *)
Hears(v, n, named) ==
  sockets[v].at = "open" /\ (v = Admin \/ ~named \/ OwnerOf[n] = v)

Announce(n, picture, named) ==
  sockets' = [v \in Viewers |-> IF Hears(v, n, named)
                THEN [sockets[v] EXCEPT !.told[n] = picture] ELSE sockets[v]]
-----------------------------------------------------------------------------
Begin(op) == CASE op \in {"create", "generate"} -> "count"
               [] OTHER -> "find"

Writing(r) == Busy(r) /\ req[r].op \in Writes

(* A client calls.                                                         *)
Send(r, op, n, arg) ==
  LET others == IF op \in Writes THEN {s \in Requests : Writing(s) /\ req[s].node = n} ELSE {} IN
  /\ req[r].pc = "idle"
  /\ op \in {"create", "generate"} =>
       n \notin used /\ \A s \in Requests : req[s].node = n => ~Busy(s)
  /\ req' = [req EXCEPT ![r] = [idle EXCEPT !.pc = Begin(op), !.op = op, !.node = n, !.arg = arg]]
  /\ overlapped' = IF others = {} THEN overlapped \ {r} ELSE overlapped \cup others \cup {r}
  /\ muddled' = IF others = {} THEN muddled ELSE muddled \cup {n}
  /\ UNCHANGED <<rows, tracked, sockets, accounts, used, vanished>>

Arguments(op) == IF op = "update" THEN {"quarantined", "active", "other"} ELSE {"none"}

(* POST /nodes and POST /configs/generate: the quota, which is no part of  *)
(* the INSERT that follows.  An account that is gone has no nodes.         *)
CountNodes(r) ==
  LET u == OwnerOf[req[r].node] IN
  /\ req[r].pc = "count"
  /\ IF u # Admin /\ Cardinality({n \in Enrolled : OwnerOf[n] = u}) >= Quota
       THEN Answer(r)
       ELSE Goto(r, IF req[r].op = "create" THEN "key" ELSE "vips")
  /\ UNCHANGED <<rows, tracked, sockets, rest>>

CheckKey(r) ==
  /\ req[r].pc = "key"
  /\ IF \E m \in Enrolled : KeyOf[m] = KeyOf[req[r].node] THEN Answer(r) ELSE Goto(r, "vips")
  /\ UNCHANGED <<rows, tracked, sockets, rest>>

ReadVips(r) ==
  /\ req[r].pc = "vips"
  /\ \E o \in First(FreeOffset) : req' = [req EXCEPT ![r].pc = "insert", ![r].v4 = o]
  /\ UNCHANGED <<rows, tracked, sockets, rest>>

(* create reads the row back; generate has handed the addresses out.  The  *)
(* foreign key wants the account.                                          *)
Inserting(r) == [rows EXCEPT ![req[r].node] = Fresh(req[r].v4, req[r].v4)]
Insert(r, pc) ==
  /\ IF Unique(Inserting(r)) /\ OwnerOf[req[r].node] \in accounts
       THEN rows' = Inserting(r) /\ used' = used \cup {req[r].node} /\ Done(r, pc)
       ELSE UNCHANGED <<rows, used>> /\ Answer(r)
  /\ UNCHANGED <<tracked, sockets, accounts, history>>

InsertNode(r) == req[r].pc = "insert" /\ req[r].op = "create" /\ Insert(r, "reread")
InsertConfig(r) == req[r].pc = "insert" /\ req[r].op = "generate" /\ Insert(r, "announce")
-----------------------------------------------------------------------------
(* The SELECT every other handler begins with; a read ends there.          *)
AfterFind == [read |-> "idle", heartbeat |-> "write", update |-> "write", set |-> "write",
              quarantine |-> "write", lift |-> "write", attest |-> "again",
              delete |-> "delete", telemetry |-> "latest"]

FindNode(r) ==
  LET row == rows[req[r].node] IN
  /\ req[r].pc = "find"
  /\ IF row.there /\ req[r].op # "read"
       THEN req' = [req EXCEPT ![r].pc = AfterFind[req[r].op],
                               ![r].seen = IF req[r].op # "telemetry" THEN absent ELSE
                                 [row EXCEPT !.v6 = 0, !.healthy = FALSE]]
       ELSE Answer(r)
  /\ UNCHANGED <<rows, tracked, sockets, rest>>

(* attestNode looks the node up again.                                     *)
FindAgain(r) ==
  /\ req[r].pc = "again"
  /\ IF rows[req[r].node].there THEN Goto(r, "write") ELSE Answer(r)
  /\ UNCHANGED <<rows, tracked, sockets, rest>>

(* What the UPDATEs write.  A quarantine by hand moves no address and a    *)
(* lift gives none back; the exit role and the onion path are left out.    *)
Held(row) == [row EXCEPT !.quarantined = TRUE, !.healthy = FALSE]
Lifted(row) == [row EXCEPT !.quarantined = FALSE, !.healthy = TRUE]
Beaten(row) == [row EXCEPT !.healthy = TRUE]
Attested(row) == [Lifted(row) EXCEPT !.risk = 0]
Relabelled(row) == row
Edited(r, row) == CASE req[r].arg = "quarantined" -> Held(row)
                    [] req[r].arg = "active" -> Lifted(row)
                    [] OTHER -> row

Changed(r, row) ==
  CASE req[r].op = "quarantine" -> Held(row) [] req[r].op = "lift" -> Lifted(row)
    [] req[r].op = "attest" -> Attested(row) [] req[r].op = "heartbeat" -> Beaten(row)
    [] req[r].op = "set" -> Relabelled(row)  [] req[r].op = "update" -> Edited(r, row)

UpdateNode(r) ==
  LET n == req[r].node IN
  /\ req[r].pc = "write"
  /\ rows' = IF rows[n].there THEN [rows EXCEPT ![n] = Changed(r, rows[n])] ELSE rows
  /\ IF req[r].op = "heartbeat" THEN Answer(r)
       ELSE Done(r, IF req[r].op = "update" THEN "reread" ELSE "announce")
  /\ UNCHANGED <<tracked, sockets, rest>>

\* Variant: no event about a node that is gone.
DeleteQuietly(r) ==
  LET n == req[r].node IN
  /\ req[r].pc = "delete"
  /\ rows' = [rows EXCEPT ![n] = absent] /\ tracked' = tracked \ {n}
  /\ Answer(r)
  /\ UNCHANGED <<sockets, rest>>

DeleteNode(r) ==
  LET n == req[r].node IN
  /\ req[r].pc = "delete"
  /\ rows' = [rows EXCEPT ![n] = absent] /\ tracked' = tracked \ {n}
  /\ Goto(r, "announce")
  /\ UNCHANGED <<sockets, rest>>

Reread(r) ==
  /\ req[r].pc = "reread"
  /\ req' = [req EXCEPT ![r].pc = "announce", ![r].seen =
       [rows[req[r].node] EXCEPT !.v4 = 0, !.v6 = 0, !.healthy = FALSE, !.risk = 0]]
  /\ UNCHANGED <<rows, tracked, sockets, rest>>

(* The event, and the answer.  An edit announces the row it has read back, *)
(* without a node when that is gone; set_exit names the new role only.     *)
(* After the event of a change that overlapped no other, viewers know.     *)
AnnounceChange(r) ==
  LET n == req[r].node
      o == req[r].op
  IN  /\ req[r].pc = "announce"
      /\ \/ o = "generate" /\ Announce(n, "up", TRUE)
         \/ o = "delete" /\ Announce(n, "gone", TRUE)
         \/ o \in {"create", "update"} /\ req[r].seen.there
            /\ Announce(n, Picture(req[r].seen), TRUE)
         \/ o \in {"create", "update", "set"} /\ ~req[r].seen.there /\ UNCHANGED sockets
         \/ o = "quarantine" /\ Announce(n, "held", FALSE)
         \/ o \in {"lift", "attest"} /\ Announce(n, "up", FALSE)
         \/ o = "telemetry" /\ Announce(n, "held", TRUE)
      /\ Answer(r)
      /\ muddled' = IF r \in overlapped \/ o = "set" THEN muddled ELSE muddled \ {n}
      /\ UNCHANGED <<rows, tracked, accounts, used, overlapped, vanished>>
-----------------------------------------------------------------------------
(* ingestTelemetry.  Only a node that reported before can have travelled   *)
(* too fast.  The score and the quarantine are worked out from the row as  *)
(* it was read, and written back whole.                                    *)
\* Variant: no cap.
RiskUncapped(r) == req[r].seen.risk + req[r].bump
Risk(r) == LET sum == req[r].seen.risk + req[r].bump IN IF sum > 100 THEN 100 ELSE sum
ShouldQuarantine(r) == Risk(r) > 75

ReadLatest(r) ==
  /\ req[r].pc = "latest"
  /\ \E fast \in BOOLEAN, noise \in Noise :
       /\ fast => req[r].node \in tracked
       /\ req' = [req EXCEPT ![r].pc = "judge", ![r].v4 = req[r].seen.v4,
                             ![r].bump = noise + IF fast THEN 50 ELSE 0]
  /\ UNCHANGED <<rows, tracked, sockets, rest>>

(* With an address from the quarantine subnet when it has to leave.        *)
Isolate(r) ==
  /\ req[r].pc = "judge" /\ ShouldQuarantine(r) /\ ~req[r].seen.quarantined
  /\ \E a \in QuarantineIps : req' = [req EXCEPT ![r].pc = "record", ![r].v4 = a]
  /\ UNCHANGED <<rows, tracked, sockets, rest>>

(* INSERT INTO node_telemetry_history, whose foreign key wants the node.   *)
RecordTelemetry(r) ==
  LET n == req[r].node IN
  /\ \/ req[r].pc = "record"
     \/ req[r].pc = "judge" /\ ~(ShouldQuarantine(r) /\ ~req[r].seen.quarantined)
  /\ IF rows[n].there
       THEN tracked' = tracked \cup {n} /\ Goto(r, "score")
       ELSE UNCHANGED tracked /\ Answer(r)
  /\ UNCHANGED <<rows, sockets, rest>>

(* The UPDATE of the node, and whether there is anything to announce.      *)
Scored(r, row) ==
  [row EXCEPT !.risk = Risk(r), !.v4 = req[r].v4,
              !.quarantined = req[r].seen.quarantined \/ ShouldQuarantine(r)]

ScoreNode(r) ==
  LET n == req[r].node
      table == [rows EXCEPT ![n] = IF rows[n].there THEN Scored(r, rows[n]) ELSE absent]
  IN  /\ req[r].pc = "score"
      /\ IF Unique(table)
           THEN /\ rows' = table
                /\ IF ShouldQuarantine(r) /\ ~req[r].seen.quarantined
                     THEN Done(r, "announce") ELSE Answer(r)
           ELSE UNCHANGED rows /\ Answer(r)
      /\ UNCHANGED <<tracked, sockets, rest>>
-----------------------------------------------------------------------------
(* POST /v4/control/heartbeat, for Go nodes: any id, and no event.         *)
GoHeartbeat(n) ==
  /\ rows[n].there /\ rows' = [rows EXCEPT ![n].healthy = TRUE]
  /\ UNCHANGED <<tracked, req, sockets, rest>>
-----------------------------------------------------------------------------
(* The rows of nodes that go without an event.  DELETE /users/:id takes an *)
(* account with its nodes (ON DELETE CASCADE).  A nuke deletes the nodes   *)
(* of one account and then the account, the wipe of the owner's dead man's *)
(* switch the telemetry, all nodes and all accounts, each table by a query *)
(* of its own, whose failure the wipe ignores.                             *)
NodesGo(U) ==
  LET gone == {n \in Enrolled : OwnerOf[n] \in U}
      late == {r \in Requests : Writing(r) /\ req[r].node \in gone}
  IN  /\ rows' = [n \in Nodes |-> IF n \in gone THEN absent ELSE rows[n]]
      /\ tracked' = tracked \ gone
      /\ vanished' = vanished \cup gone
      /\ overlapped' = overlapped \cup late
      /\ muddled' = muddled \cup {req[r].node : r \in late}
      /\ UNCHANGED <<req, sockets, used>>

WipeTelemetry == tracked' = {} /\ UNCHANGED <<rows, req, sockets, rest>>
DestroyNodes(U) == NodesGo(U) /\ UNCHANGED accounts
DeleteAccounts(U) == NodesGo(U) /\ accounts' = accounts \ U

Deletions == {{u} : u \in Users} \cup {Users}
-----------------------------------------------------------------------------
(* A WebSocket: the token is verified, looked up among the revoked ones,   *)
(* and the socket is opened, with a greeting that names no node.           *)
Upgrade(v) ==
  /\ sockets[v].at = "away"
  /\ sockets' = [sockets EXCEPT ![v].at = "asked"]
  /\ UNCHANGED <<rows, tracked, req, rest>>

Admit(v) ==
  /\ sockets[v].at = "asked"
  /\ \E revoked \in BOOLEAN :
       sockets' = [sockets EXCEPT ![v] =
                     IF revoked THEN away ELSE [away EXCEPT !.at = "open", !.alive = TRUE]]
  /\ UNCHANGED <<rows, tracked, req, rest>>

(* Its client asks GET /nodes at some time afterwards: all nodes for the   *)
(* admin, their own for others.  What the stream says, before or after the *)
(* list was read, stands before what the list says.                        *)
ReadNodes(v) ==
  /\ sockets[v].at = "open"
  /\ sockets' = [sockets EXCEPT ![v].told =
       [n \in Nodes |-> IF sockets[v].told[n] = "unheard" /\ v \in {Admin, OwnerOf[n]}
                          THEN Picture(rows[n]) ELSE sockets[v].told[n]]]
  /\ UNCHANGED <<rows, tracked, req, rest>>

(* Every 30 s: a socket that has not answered the last ping goes.          *)
PingRound ==
  /\ sockets' = [v \in Viewers |-> IF sockets[v].at # "open" THEN sockets[v]
                   ELSE IF sockets[v].alive THEN [sockets[v] EXCEPT !.alive = FALSE] ELSE away]
  /\ UNCHANGED <<rows, tracked, req, rest>>

Pong(v) ==
  /\ sockets[v].at = "open" /\ sockets' = [sockets EXCEPT ![v].alive = TRUE]
  /\ UNCHANGED <<rows, tracked, req, rest>>

Close(v) ==
  /\ sockets[v].at = "open" /\ sockets' = [sockets EXCEPT ![v] = away]
  /\ UNCHANGED <<rows, tracked, req, rest>>

Serve(r) ==
  \/ CountNodes(r) \/ CheckKey(r) \/ ReadVips(r) \/ InsertNode(r) \/ InsertConfig(r)
  \/ FindNode(r) \/ FindAgain(r) \/ UpdateNode(r) \/ DeleteNode(r) \/ Reread(r)
  \/ AnnounceChange(r) \/ ReadLatest(r) \/ Isolate(r) \/ RecordTelemetry(r) \/ ScoreNode(r)

Next ==
  \/ \E r \in Requests : Serve(r)
  \/ \E r \in Requests : \E call \in Calls[r] :
       \E arg \in Arguments(call[1]) : Send(r, call[1], call[2], arg)
  \/ \E n \in Nodes : GoHeartbeat(n)
  \/ WipeTelemetry \/ \E U \in Deletions : DestroyNodes(U) \/ DeleteAccounts(U)
  \/ \E v \in Viewers : Upgrade(v) \/ Admit(v) \/ ReadNodes(v) \/ Pong(v) \/ Close(v)
  \/ PingRound

Spec == Init /\ [][Next]_vars
-----------------------------------------------------------------------------
(* The address in the configuration that was handed out with a node stays  *)
(* reserved for it while the node exists, also when a quarantine has moved *)
(* its row elsewhere: the next enrolment checks both addresses of every    *)
(* row (utils/crypto.js:204), and one that had checked before the other's  *)
(* row came is refused.                                                    *)
FirstAddressIsReserved ==
  \A n, m \in Enrolled : n # m => rows[m].v4 # rows[n].v6

Settled(n) == \A r \in Requests : Writing(r) => req[r].node # n
Current(v, n) ==
  sockets[v].at = "open" /\ v \in {Admin, OwnerOf[n]} /\ Settled(n)
    => sockets[v].told[n] \in {"unheard", Picture(rows[n])}

(* What the admin and the owner of a node know of it is the node as it is, *)
(* once no change of it is under way (routes/nodes.js:229, 398, 446).      *)
(* Overlapping changes of one node may be announced in another order than  *)
(* they were made; what viewers are left with is right again after the     *)
(* next change of the node that is announced and that overlapped no other. *)
(* Nodes that went with their account vanish from the table unannounced.   *)
ViewersAreCurrent == \A v \in Viewers, n \in Nodes \ (muddled \cup vanished) : Current(v, n)
=============================================================================
