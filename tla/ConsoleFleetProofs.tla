------------------------- MODULE ConsoleFleetProofs -------------------------
(***************************************************************************)
(* The types of ConsoleFleet, that the address a node was enrolled with    *)
(* stays its own, and that viewers end with the nodes as they are, for any *)
(* nodes, users and requests under way, and any size of the address range  *)
(* and of the quarantine subnet.                                           *)
(*                                                                         *)
(* UNIQUE keeps the IPv6 offsets apart.  What has to be shown is that an   *)
(* IPv4 address is always its row's offset or one of the quarantine        *)
(* subnet (AtHome), although telemetry writes back an address it read long *)
(* before (Stale): the row may be gone by then, but not replaced, because  *)
(* nobody else works on a node that is being enrolled (Exclusive).         *)
(*                                                                         *)
(* A change that overlapped no other of the same node is the only one of   *)
(* it under way (Alone).  It knows the row as it is (Informed), and where a *)
(* viewer knows something else, it has yet to tell (Told), unless changes  *)
(* that overlapped left the node in doubt (Mixed).                         *)
(***************************************************************************)
EXTENDS ConsoleFleet, TLAPS

USE DEF rest, history

Creating(r) ==
  /\ req[r].op \in {"create", "generate"}
  /\ req[r].pc \in {"count", "key", "vips", "insert"}

Steps == \A r \in Requests :
  /\ req[r].pc \in {"count", "key", "vips", "insert"} => Creating(r)
  /\ req[r].pc = "find" => req[r].op \notin {"create", "generate"}
  /\ req[r].pc = "again" => req[r].op = "attest"
  /\ req[r].pc = "write" =>
       req[r].op \in {"heartbeat", "update", "set", "quarantine", "lift", "attest"}
  /\ req[r].pc = "insert" => req[r].v4 \in Overlay
OwnOffsets == \A n, m \in Enrolled : n # m => rows[n].v6 # rows[m].v6
AtHome == \A n \in Enrolled : rows[n].v4 \in {rows[n].v6} \cup Subnet
Exclusive == \A r \in Requests : Creating(r) =>
  /\ ~rows[req[r].node].there
  /\ \A s \in Requests \ {r} : Busy(s) /\ req[s].node = req[r].node => req[s].pc = "find"
Stale == \A r \in Requests : rows[req[r].node].there =>
  /\ req[r].pc = "latest" => req[r].seen.v4 \in {rows[req[r].node].v6} \cup Subnet
  /\ req[r].pc \in {"judge", "record", "score"} =>
       req[r].v4 \in {rows[req[r].node].v6} \cup Subnet

Kept == Steps /\ OwnOffsets /\ AtHome /\ Exclusive /\ Stale
IInv == TypeOK /\ Kept
-----------------------------------------------------------------------------
LEMMA BasicTypes ==
  /\ absent \in Row /\ idle \in Request /\ idle.pc = "idle"
  /\ Overlay \subseteq 1..(Pool + Isolated) /\ Subnet \subseteq 1..(Pool + Isolated)
  /\ Overlay \cap Subnet = {}
  /\ \A row \in Row : Picture(row) \in {"gone", "up", "held"}
<1>1. absent \in Row
  BY FleetAssumption DEF absent, Row
<1>2. idle \in Request /\ idle.pc = "idle"
  BY <1>1, FleetAssumption DEF idle, Request, AllOps, Writes
<1> QED
  BY <1>1, <1>2, FleetAssumption DEF Overlay, Subnet, Picture

\* What a handler keeps of a row it has read is a row.
LEMMA RowsRead ==
  ASSUME NEW row \in Row
  PROVE  /\ [row EXCEPT !.v6 = 0, !.healthy = FALSE] \in Row
         /\ [row EXCEPT !.v6 = 0, !.healthy = FALSE].v4 = row.v4
         /\ [row EXCEPT !.v4 = 0, !.v6 = 0, !.healthy = FALSE, !.risk = 0] \in Row
<1>1. 0 \in 0..Pool /\ 0 \in 0..(Pool + Isolated) /\ 0 \in 0..100
  BY FleetAssumption
<1>2. [row EXCEPT !.v6 = 0, !.healthy = FALSE] \in Row
  BY <1>1 DEF Row
<1>3. [row EXCEPT !.v4 = 0, !.v6 = 0, !.healthy = FALSE, !.risk = 0] \in Row
  BY <1>1 DEF Row
<1> QED
  BY <1>2, <1>3 DEF Row

Sockets == [Viewers -> [at : {"away", "asked", "open"}, alive : BOOLEAN,
                        told : [Nodes -> {"unheard", "gone", "up", "held"}]]]

\* An event leaves every socket with pictures of nodes.
LEMMA AnnounceTypes ==
  ASSUME TypeOK, NEW n \in Nodes, NEW picture \in {"gone", "up", "held"}, NEW named,
         Announce(n, picture, named)
  PROVE  sockets' \in Sockets
BY DEF TypeOK, Announce, Sockets

LEMMA InitIInv == Init => IInv
<1> SUFFICES ASSUME Init PROVE IInv
  OBVIOUS
<1>1. away \in [at : {"away", "asked", "open"}, alive : BOOLEAN,
                told : [Nodes -> {"unheard", "gone", "up", "held"}]]
  BY DEF away
<1>2. TypeOK
  BY <1>1, BasicTypes DEF Init, TypeOK, Enrolled, absent
<1>3. Enrolled = {} /\ \A r \in Requests : req[r].pc = "idle"
  BY BasicTypes DEF Init, Enrolled, absent
<1>4. Kept
  BY <1>3, BasicTypes DEF Init, Kept, Steps, OwnOffsets, AtHome, Exclusive, Stale, Creating, absent
<1> QED
  BY <1>2, <1>4 DEF IInv

\* A step leaves the rows that stay at home.
Tame == \A n \in Nodes : rows'[n].there =>
  rows[n].there /\ rows'[n].v6 = rows[n].v6 /\ rows'[n].v4 \in {rows'[n].v6} \cup Subnet

\* A request that works on r's node goes on as q, without enrolling anything.
GoesOn(r, q) ==
  /\ Busy(r) /\ req' = [req EXCEPT ![r] = q] /\ q \in Request
  /\ q.pc # "idle" => q.node = req[r].node /\ q.op = req[r].op
  /\ req[r].pc = "find" /\ ~rows[req[r].node].there => q.pc = "idle"
  /\ q.pc \in {"count", "key", "vips", "insert"} => Creating(r)
  /\ q.pc # "find"
  /\ q.pc = "again" => q.op = "attest"
  /\ q.pc = "write" => q.op \in {"heartbeat", "update", "set", "quarantine", "lift", "attest"}
  /\ q.pc = "insert" => q.v4 \in Overlay
  /\ rows[q.node].there =>
       /\ q.pc = "latest" => q.seen.v4 \in {rows[q.node].v6} \cup Subnet
       /\ q.pc \in {"judge", "record", "score"} => q.v4 \in {rows[q.node].v6} \cup Subnet

LEMMA TameKept ==
  ASSUME IInv, Tame, UNCHANGED req
  PROVE  Kept'
<1>1. rows \in [Nodes -> Row] /\ req \in [Requests -> Request]
  BY DEF IInv, TypeOK
<1>2. \A r \in Requests : req[r].node \in Nodes
  BY <1>1 DEF Request
<1>3. Steps'
  BY DEF IInv, Kept, Steps, Creating
<1>4. OwnOffsets' /\ AtHome'
  BY DEF IInv, Kept, OwnOffsets, AtHome, Enrolled, Tame
<1>5. Exclusive'
  BY <1>2 DEF IInv, Kept, Exclusive, Creating, Busy, Tame
<1>6. Stale'
  BY <1>2 DEF IInv, Kept, Stale, Tame
<1> QED
  BY <1>3, <1>4, <1>5, <1>6 DEF Kept

LEMMA GoesOnKept ==
  ASSUME IInv, Tame, NEW r \in Requests, NEW q, GoesOn(r, q)
  PROVE  Kept' /\ req' \in [Requests -> Request]
<1>1. rows \in [Nodes -> Row] /\ req \in [Requests -> Request]
  BY DEF IInv, TypeOK
<1>2. /\ \A s \in Requests : req[s].node \in Nodes
      /\ \A s \in Requests : req'[s] = IF s = r THEN q ELSE req[s]
      /\ q \in Request /\ q.node \in Nodes
  BY <1>1 DEF Request, GoesOn
<1>3. Steps'
  BY <1>2 DEF IInv, Kept, Steps, Creating, GoesOn
<1>4. OwnOffsets' /\ AtHome'
  BY DEF IInv, Kept, OwnOffsets, AtHome, Enrolled, Tame
<1>5. Exclusive'
  BY <1>2 DEF IInv, Kept, Exclusive, Creating, Busy, Tame, GoesOn
<1>6. Stale'
  BY <1>2 DEF IInv, Kept, Stale, Tame, GoesOn
<1>7. req' \in [Requests -> Request]
  BY <1>1, <1>2 DEF GoesOn
<1> QED
  BY <1>3, <1>4, <1>5, <1>6, <1>7 DEF Kept

\* The steps of a request that change no row.
LEMMA RequestIInv ==
  ASSUME IInv, NEW r \in Requests, NEW q, GoesOn(r, q), UNCHANGED rows,
         tracked' \subseteq Enrolled, sockets' \in Sockets,
         muddled' \subseteq muddled, UNCHANGED <<accounts, used, overlapped, vanished>>
  PROVE  IInv'
<1>1. Tame
  BY DEF IInv, Kept, AtHome, Enrolled, Tame
<1>2. Kept' /\ req' \in [Requests -> Request]
  BY <1>1, GoesOnKept
<1>3. TypeOK'
  BY <1>2 DEF IInv, TypeOK, Enrolled, Sockets
<1> QED
  BY <1>2, <1>3 DEF IInv

LEMMA AnswerGoesOn ==
  ASSUME NEW r \in Requests, Busy(r), Answer(r)
  PROVE  GoesOn(r, idle)
BY BasicTypes DEF GoesOn, Answer

LEMMA GotoGoesOn ==
  ASSUME IInv, NEW r \in Requests, Busy(r), req[r].pc # "find",
         NEW pc \in {"key", "vips", "delete", "again", "write", "record", "score", "announce"},
         pc \in {"key", "vips"} => Creating(r),
         pc = "again" => req[r].op = "attest",
         pc = "write" =>
           req[r].op \in {"heartbeat", "update", "set", "quarantine", "lift", "attest"},
         pc \in {"record", "score"} => req[r].pc \in {"judge", "record"},
         Goto(r, pc)
  PROVE  GoesOn(r, [req[r] EXCEPT !.pc = pc])
<1> DEFINE q == [req[r] EXCEPT !.pc = pc]
<1>1. req[r] \in Request
  BY DEF IInv, TypeOK
<1>2. q \in Request /\ q.pc = pc /\ q.node = req[r].node /\ q.op = req[r].op /\ q.v4 = req[r].v4
  BY <1>1 DEF Request
<1>3. req' = [req EXCEPT ![r] = q]
  BY DEF Goto
<1> HIDE DEF q
<1>4. pc \in {"record", "score"} /\ rows[q.node].there => q.v4 \in {rows[q.node].v6} \cup Subnet
  BY <1>2 DEF IInv, Kept, Stale
<1>5. GoesOn(r, q)
  BY <1>2, <1>3, <1>4 DEF GoesOn
<1> QED
  BY <1>5 DEF q
-----------------------------------------------------------------------------
\* Enrolment, up to the addresses it picks.
LEMMA CountNodesIInv ==
  ASSUME IInv, NEW r \in Requests, CountNodes(r)
  PROVE  IInv'
<1>1. Busy(r) /\ Creating(r) /\ req[r].pc # "find"
  BY DEF IInv, Kept, Steps, CountNodes, Busy
<1>2. UNCHANGED <<rows, tracked, sockets, rest>> /\ tracked \subseteq Enrolled /\ sockets \in Sockets
  BY DEF IInv, TypeOK, Sockets, CountNodes
<1>3. CASE Answer(r)
  BY <1>1, <1>2, <1>3, AnswerGoesOn, RequestIInv
<1>4. ASSUME NEW pc \in {"key", "vips"}, Goto(r, pc) PROVE IInv'
  BY <1>1, <1>2, <1>4, GotoGoesOn, RequestIInv
<1> QED
  BY <1>3, <1>4 DEF CountNodes

LEMMA CheckKeyIInv ==
  ASSUME IInv, NEW r \in Requests, CheckKey(r)
  PROVE  IInv'
<1>1. Busy(r) /\ Creating(r) /\ req[r].pc # "find"
  BY DEF IInv, Kept, Steps, CheckKey, Busy
<1>2. UNCHANGED <<rows, tracked, sockets, rest>> /\ tracked \subseteq Enrolled /\ sockets \in Sockets
  BY DEF IInv, TypeOK, Sockets, CheckKey
<1>3. CASE Answer(r)
  BY <1>1, <1>2, <1>3, AnswerGoesOn, RequestIInv
<1>4. CASE Goto(r, "vips")
  BY <1>1, <1>2, <1>4, GotoGoesOn, RequestIInv
<1> QED
  BY <1>3, <1>4 DEF CheckKey

LEMMA ReadVipsIInv ==
  ASSUME IInv, NEW r \in Requests, ReadVips(r)
  PROVE  IInv'
<1>1. PICK o \in FreeOffset : req' = [req EXCEPT ![r].pc = "insert", ![r].v4 = o]
  BY DEF ReadVips, First
<1> DEFINE q == [req[r] EXCEPT !.pc = "insert", !.v4 = o]
<1>2. req[r] \in Request /\ o \in Overlay /\ o \in 0..(Pool + Isolated)
  BY FleetAssumption DEF IInv, TypeOK, FreeOffset, Overlay
<1>3. q \in Request /\ q.pc = "insert" /\ q.v4 = o /\ q.node = req[r].node /\ q.op = req[r].op
  BY <1>2 DEF Request
<1>4. req' = [req EXCEPT ![r] = q]
  BY <1>1, <1>2 DEF IInv, TypeOK
<1> HIDE DEF q
<1>5. GoesOn(r, q)
  BY <1>2, <1>3, <1>4 DEF IInv, Kept, Steps, GoesOn, Busy, ReadVips
<1> QED
  BY <1>5, RequestIInv DEF IInv, TypeOK, Sockets, ReadVips

\* The row that is read, and that is read again.
LEMMA FindNodeIInv ==
  ASSUME IInv, NEW r \in Requests, FindNode(r)
  PROVE  IInv'
<1> DEFINE row == rows[req[r].node]
           seen == IF req[r].op # "telemetry" THEN absent ELSE [row EXCEPT !.v6 = 0, !.healthy = FALSE]
           q == [req[r] EXCEPT !.pc = AfterFind[req[r].op], !.seen = seen]
<1>1. Busy(r)
  BY DEF FindNode, Busy
<1>2. CASE Answer(r)
  BY <1>1, <1>2, AnswerGoesOn, RequestIInv DEF IInv, TypeOK, Sockets, FindNode
<1>3. CASE ~Answer(r)
  <2>1. /\ row.there /\ req[r].op # "read"
        /\ req' = [req EXCEPT ![r].pc = AfterFind[req[r].op], ![r].seen = seen]
    BY <1>3 DEF FindNode
  <2>2. req[r] \in Request /\ row \in Row /\ req \in [Requests -> Request]
    BY DEF IInv, TypeOK, Request
  <2>3. /\ seen \in Row /\ (req[r].op = "telemetry" => seen.v4 = row.v4)
    BY <2>2, BasicTypes, RowsRead
  <2>4. req[r].op \in AllOps \ {"create", "generate", "read"}
    BY <2>1, <2>2 DEF IInv, Kept, Steps, FindNode, Request
  <2>5. /\ AfterFind[req[r].op] \in {"write", "again", "delete", "latest"}
        /\ AfterFind[req[r].op] = "latest" => req[r].op = "telemetry"
        /\ AfterFind[req[r].op] = "again" => req[r].op = "attest"
        /\ AfterFind[req[r].op] = "write" =>
             req[r].op \in {"heartbeat", "update", "set", "quarantine", "lift", "attest"}
    BY <2>4 DEF AfterFind, AllOps, Writes
  <2>6. row.v4 \in {row.v6} \cup Subnet
    BY <2>1, <2>2 DEF IInv, Kept, AtHome, Enrolled, Request
  <2> HIDE DEF seen
  <2>7. /\ q \in Request /\ q.pc = AfterFind[req[r].op] /\ q.seen = seen
        /\ q.node = req[r].node /\ q.op = req[r].op
    BY <2>2, <2>3, <2>5 DEF Request
  <2>8. req' = [req EXCEPT ![r] = q]
    BY <2>1, <2>2
  <2> HIDE DEF q
  <2>9. GoesOn(r, q)
    BY <1>1, <2>1, <2>3, <2>5, <2>6, <2>7, <2>8 DEF GoesOn
  <2> QED
    BY <2>9, RequestIInv DEF IInv, TypeOK, Sockets, FindNode
<1> QED
  BY <1>2, <1>3

LEMMA FindAgainIInv ==
  ASSUME IInv, NEW r \in Requests, FindAgain(r)
  PROVE  IInv'
<1>1. Busy(r) /\ req[r].pc # "find" /\ req[r].op = "attest"
  BY DEF IInv, Kept, Steps, FindAgain, Busy
<1>2. UNCHANGED <<rows, tracked, sockets, rest>> /\ tracked \subseteq Enrolled /\ sockets \in Sockets
  BY DEF IInv, TypeOK, Sockets, FindAgain
<1>3. CASE Answer(r)
  BY <1>1, <1>2, <1>3, AnswerGoesOn, RequestIInv
<1>4. CASE Goto(r, "write")
  BY <1>1, <1>2, <1>4, GotoGoesOn, RequestIInv
<1> QED
  BY <1>3, <1>4 DEF FindAgain

LEMMA RereadIInv ==
  ASSUME IInv, NEW r \in Requests, Reread(r)
  PROVE  IInv'
<1> DEFINE seen == [rows[req[r].node] EXCEPT !.v4 = 0, !.v6 = 0, !.healthy = FALSE, !.risk = 0]
           q == [req[r] EXCEPT !.pc = "announce", !.seen = seen]
<1>1. req[r] \in Request /\ rows[req[r].node] \in Row /\ req \in [Requests -> Request]
  BY DEF IInv, TypeOK, Request
<1>2. seen \in Row
  BY <1>1, RowsRead
<1>3. req' = [req EXCEPT ![r] = q]
  BY <1>1 DEF Reread
<1> HIDE DEF seen
<1>4. q \in Request /\ q.pc = "announce" /\ q.node = req[r].node /\ q.op = req[r].op
  BY <1>1, <1>2 DEF Request
<1> HIDE DEF q
<1>5. GoesOn(r, q)
  BY <1>3, <1>4 DEF GoesOn, Reread, Busy
<1> QED
  BY <1>5, RequestIInv DEF IInv, TypeOK, Sockets, Reread
-----------------------------------------------------------------------------
\* Telemetry, up to the score.
LEMMA ReadLatestIInv ==
  ASSUME IInv, NEW r \in Requests, ReadLatest(r)
  PROVE  IInv'
<1>1. PICK fast \in BOOLEAN, noise \in Noise :
        req' = [req EXCEPT ![r].pc = "judge", ![r].v4 = req[r].seen.v4,
                           ![r].bump = noise + IF fast THEN 50 ELSE 0]
  BY DEF ReadLatest
<1>2. PICK bump \in 0..90 : bump = noise + IF fast THEN 50 ELSE 0
  BY FleetAssumption
<1> DEFINE q == [req[r] EXCEPT !.pc = "judge", !.v4 = req[r].seen.v4, !.bump = bump]
<1>3. req[r] \in Request /\ req \in [Requests -> Request]
  BY DEF IInv, TypeOK
<1>4. /\ q \in Request /\ q.pc = "judge" /\ q.v4 = req[r].seen.v4
      /\ q.node = req[r].node /\ q.op = req[r].op
  BY <1>3 DEF Request, Row
<1>5. req' = [req EXCEPT ![r] = q]
  BY <1>1, <1>2, <1>3
<1> HIDE DEF q
<1>6. GoesOn(r, q)
  BY <1>4, <1>5 DEF IInv, Kept, Stale, GoesOn, Busy, ReadLatest
<1> QED
  BY <1>6, RequestIInv DEF IInv, TypeOK, Sockets, ReadLatest

LEMMA IsolateIInv ==
  ASSUME IInv, NEW r \in Requests, Isolate(r)
  PROVE  IInv'
<1>1. PICK a \in QuarantineIps : req' = [req EXCEPT ![r].pc = "record", ![r].v4 = a]
  BY DEF Isolate
<1> DEFINE q == [req[r] EXCEPT !.pc = "record", !.v4 = a]
<1>2. req[r] \in Request /\ req \in [Requests -> Request]
  BY DEF IInv, TypeOK
<1>3. a \in Subnet /\ a \in 0..(Pool + Isolated)
  BY FleetAssumption DEF QuarantineIps, First, Subnet
<1>4. /\ q \in Request /\ q.pc = "record" /\ q.v4 = a
      /\ q.node = req[r].node /\ q.op = req[r].op
  BY <1>2, <1>3 DEF Request
<1>5. req' = [req EXCEPT ![r] = q]
  BY <1>1, <1>2
<1> HIDE DEF q
<1>6. GoesOn(r, q)
  BY <1>3, <1>4, <1>5 DEF GoesOn, Busy, Isolate
<1> QED
  BY <1>6, RequestIInv DEF IInv, TypeOK, Sockets, Isolate

LEMMA RecordTelemetryIInv ==
  ASSUME IInv, NEW r \in Requests, RecordTelemetry(r)
  PROVE  IInv'
<1>1. Busy(r) /\ req[r].pc \in {"judge", "record"} /\ req[r].node \in Nodes
  BY DEF IInv, TypeOK, Request, RecordTelemetry, Busy
<1>2. UNCHANGED <<rows, sockets, rest>> /\ sockets \in Sockets /\ tracked \subseteq Enrolled
  BY DEF IInv, TypeOK, Sockets, RecordTelemetry
<1>3. CASE rows[req[r].node].there
  <2>1. tracked' \subseteq Enrolled /\ Goto(r, "score")
    BY <1>1, <1>2, <1>3 DEF RecordTelemetry, Enrolled
  <2> QED
    BY <1>1, <1>2, <2>1, GotoGoesOn, RequestIInv
<1>4. CASE ~rows[req[r].node].there
  <2>1. tracked' = tracked /\ Answer(r)
    BY <1>4 DEF RecordTelemetry
  <2> QED
    BY <1>1, <1>2, <2>1, AnswerGoesOn, RequestIInv
<1> QED
  BY <1>3, <1>4

LEMMA AnnounceChangeIInv ==
  ASSUME IInv, NEW r \in Requests, AnnounceChange(r)
  PROVE  IInv'
<1>1. Busy(r) /\ Answer(r) /\ req[r].node \in Nodes /\ req[r].seen \in Row
  BY DEF IInv, TypeOK, Request, AnnounceChange, Busy
<1>2. /\ UNCHANGED <<rows, tracked, accounts, used, overlapped, vanished>>
      /\ muddled' \subseteq muddled
      /\ sockets \in Sockets /\ tracked \subseteq Enrolled /\ TypeOK
  BY DEF IInv, TypeOK, Sockets, AnnounceChange
<1>3. Picture(req[r].seen) \in {"gone", "up", "held"}
  BY <1>1, BasicTypes
<1>4. \/ sockets' = sockets
      \/ \E picture \in {"gone", "up", "held"}, named \in BOOLEAN :
           Announce(req[r].node, picture, named)
  BY <1>3 DEF AnnounceChange
<1>5. sockets' \in Sockets
  BY <1>1, <1>2, <1>4, AnnounceTypes
<1> QED
  BY <1>1, <1>2, <1>5, AnswerGoesOn, RequestIInv
-----------------------------------------------------------------------------
\* The steps that write rows.
LEMMA RowsIInv ==
  ASSUME IInv, Tame, NEW r \in Requests, NEW q, GoesOn(r, q), rows' \in [Nodes -> Row],
         \A n \in Nodes : /\ rows'[n].there <=> rows'[n].v4 # 0
                          /\ rows'[n].there <=> rows'[n].v6 # 0,
         tracked' \subseteq Enrolled', UNCHANGED <<sockets, rest>>
  PROVE  IInv'
<1>1. Kept' /\ req' \in [Requests -> Request]
  BY GoesOnKept
<1>2. TypeOK'
  BY <1>1 DEF IInv, TypeOK, Enrolled, Tame
<1> QED
  BY <1>1, <1>2 DEF IInv

LEMMA DoneGoesOn ==
  ASSUME IInv, NEW r \in Requests, Busy(r), req[r].pc # "find",
         NEW pc \in {"reread", "announce"}, Done(r, pc)
  PROVE  GoesOn(r, [idle EXCEPT !.pc = pc, !.op = req[r].op, !.node = req[r].node])
<1> DEFINE q == [idle EXCEPT !.pc = pc, !.op = req[r].op, !.node = req[r].node]
<1>1. req[r] \in Request
  BY DEF IInv, TypeOK
<1>2. q \in Request /\ q.pc = pc /\ q.node = req[r].node /\ q.op = req[r].op
  BY <1>1, BasicTypes DEF Request
<1>3. req' = [req EXCEPT ![r] = q]
  BY DEF Done
<1> HIDE DEF q
<1>4. GoesOn(r, q)
  BY <1>2, <1>3 DEF GoesOn
<1> QED
  BY <1>4 DEF q

LEMMA ChangedTypes ==
  ASSUME NEW r, NEW row \in Row,
         req[r].op \in {"heartbeat", "update", "set", "quarantine", "lift", "attest"}
  PROVE  /\ Changed(r, row) \in Row
         /\ Changed(r, row).there = row.there
         /\ Changed(r, row).v4 = row.v4 /\ Changed(r, row).v6 = row.v6
<1> DEFINE Same(new) ==
      new \in Row /\ new.there = row.there /\ new.v4 = row.v4 /\ new.v6 = row.v6
<1>1. Same(row) /\ Same(Held(row)) /\ Same(Beaten(row))
  BY DEF Held, Beaten, Row
<1>2. Same(Lifted(row))
  BY DEF Lifted, Row
<1>3. Same(Attested(row))
  BY <1>2 DEF Attested, Row
<1>4. Changed(r, row) \in {Held(row), Lifted(row), Attested(row), Beaten(row), row}
  BY DEF Changed, Edited, Relabelled
<1> QED
  BY <1>1, <1>2, <1>3, <1>4

LEMMA UpdateNodeIInv ==
  ASSUME IInv, NEW r \in Requests, UpdateNode(r)
  PROVE  IInv'
<1>1. PICK n \in Nodes : n = req[r].node
  BY DEF IInv, TypeOK, Request
<1>2. /\ req[r].op \in {"heartbeat", "update", "set", "quarantine", "lift", "attest"}
      /\ Busy(r) /\ req[r].pc # "find"
  BY DEF IInv, Kept, Steps, UpdateNode, Busy
<1>3. rows' = IF rows[n].there THEN [rows EXCEPT ![n] = Changed(r, rows[n])] ELSE rows
  BY <1>1 DEF UpdateNode
<1>4. /\ Changed(r, rows[n]) \in Row /\ Changed(r, rows[n]).there = rows[n].there
      /\ Changed(r, rows[n]).v4 = rows[n].v4 /\ Changed(r, rows[n]).v6 = rows[n].v6
  BY <1>2, ChangedTypes DEF IInv, TypeOK
<1>5. /\ rows \in [Nodes -> Row] /\ tracked \subseteq Enrolled
      /\ \A m \in Nodes : /\ rows[m].there <=> rows[m].v4 # 0
                          /\ rows[m].there <=> rows[m].v6 # 0
  BY DEF IInv, TypeOK
<1>6. /\ rows' \in [Nodes -> Row]
      /\ \A m \in Nodes : /\ rows'[m].there = rows[m].there
                          /\ rows'[m].v4 = rows[m].v4 /\ rows'[m].v6 = rows[m].v6
  BY <1>3, <1>4, <1>5
<1>7. Tame
  BY <1>6 DEF IInv, Kept, AtHome, Enrolled, Tame
<1>8. tracked' \subseteq Enrolled' /\ UNCHANGED <<sockets, rest>>
  BY <1>5, <1>6 DEF UpdateNode, Enrolled
<1>9. \E q : GoesOn(r, q)
  <2>1. CASE Answer(r)
    BY <1>2, <2>1, AnswerGoesOn
  <2>2. ASSUME NEW pc \in {"reread", "announce"}, Done(r, pc)
        PROVE  \E q : GoesOn(r, q)
    BY <1>2, <2>2, DoneGoesOn
  <2> QED
    BY <2>1, <2>2 DEF UpdateNode
<1> QED
  BY <1>5, <1>6, <1>7, <1>8, <1>9, RowsIInv

LEMMA DeleteNodeIInv ==
  ASSUME IInv, NEW r \in Requests, DeleteNode(r)
  PROVE  IInv'
<1>1. PICK n \in Nodes : n = req[r].node
  BY DEF IInv, TypeOK, Request
<1>2. Busy(r) /\ req[r].pc # "find"
  BY DEF DeleteNode, Busy
<1>3. /\ rows \in [Nodes -> Row] /\ tracked \subseteq Enrolled
      /\ \A m \in Nodes : /\ rows[m].there <=> rows[m].v4 # 0
                          /\ rows[m].there <=> rows[m].v6 # 0
  BY DEF IInv, TypeOK
<1>4. /\ rows' = [rows EXCEPT ![n] = absent] /\ tracked' = tracked \ {n}
      /\ Goto(r, "announce") /\ UNCHANGED <<sockets, rest>>
  BY <1>1 DEF DeleteNode
<1>5. /\ rows' \in [Nodes -> Row] /\ \A m \in Nodes \ {n} : rows'[m] = rows[m]
      /\ ~rows'[n].there /\ rows'[n].v4 = 0 /\ rows'[n].v6 = 0
  BY <1>3, <1>4, BasicTypes DEF absent
<1>6. Tame
  BY <1>5 DEF IInv, Kept, AtHome, Enrolled, Tame
<1>7. tracked' \subseteq Enrolled'
  BY <1>3, <1>4, <1>5 DEF Enrolled
<1>8. GoesOn(r, [req[r] EXCEPT !.pc = "announce"])
  BY <1>2, <1>4, GotoGoesOn
<1> QED
  BY <1>3, <1>4, <1>5, <1>6, <1>7, <1>8, RowsIInv

LEMMA ScoreNodeIInv ==
  ASSUME IInv, NEW r \in Requests, ScoreNode(r)
  PROVE  IInv'
<1>1. PICK n \in Nodes : n = req[r].node
  BY DEF IInv, TypeOK, Request
<1>2. Busy(r) /\ req[r].pc # "find" /\ req[r] \in Request
  BY DEF IInv, TypeOK, ScoreNode, Busy
<1>3. /\ rows \in [Nodes -> Row] /\ tracked \subseteq Enrolled /\ sockets \in Sockets
      /\ \A m \in Nodes : /\ rows[m].there <=> rows[m].v4 # 0
                          /\ rows[m].there <=> rows[m].v6 # 0
  BY DEF IInv, TypeOK, Sockets
<1>4. UNCHANGED <<tracked, sockets, rest>>
  BY DEF ScoreNode
<1>5. \E q : GoesOn(r, q)
  <2>1. CASE Answer(r)
    BY <1>2, <2>1, AnswerGoesOn
  <2>2. CASE Done(r, "announce")
    BY <1>2, <2>2, DoneGoesOn
  <2> QED
    BY <2>1, <2>2 DEF ScoreNode
<1>6. CASE UNCHANGED rows
  BY <1>3, <1>4, <1>5, <1>6, RequestIInv
<1>7. CASE rows' = [rows EXCEPT ![n] = IF rows[n].there THEN Scored(r, rows[n]) ELSE absent]
  <2>1. CASE ~rows[n].there
    <3>1. /\ rows' \in [Nodes -> Row] /\ \A m \in Nodes \ {n} : rows'[m] = rows[m]
          /\ ~rows'[n].there /\ rows'[n].v4 = 0 /\ rows'[n].v6 = 0
      BY <1>3, <1>7, <2>1, BasicTypes DEF absent
    <3>2. Tame
      BY <3>1 DEF IInv, Kept, AtHome, Enrolled, Tame
    <3>3. tracked' \subseteq Enrolled'
      BY <1>3, <1>4, <2>1, <3>1 DEF Enrolled
    <3> QED
      BY <1>3, <1>4, <1>5, <3>1, <3>2, <3>3, RowsIInv
  <2>2. CASE rows[n].there
    <3>1. req[r].v4 \in {rows[n].v6} \cup Subnet
      BY <1>1, <2>2 DEF IInv, Kept, Stale, ScoreNode
    <3>2. Risk(r) \in 0..100
      BY SMTT(30), <1>2 DEF Risk, Request, Row
    <3>3. ShouldQuarantine(r) \in BOOLEAN
      BY DEF ShouldQuarantine
    <3>4. /\ Scored(r, rows[n]) \in Row /\ Scored(r, rows[n]).there
          /\ Scored(r, rows[n]).v6 = rows[n].v6 /\ Scored(r, rows[n]).v4 = req[r].v4
      BY ZenonT(60), <1>2, <1>3, <2>2, <3>2, <3>3 DEF Scored, Row, Request
    <3>5. /\ rows' \in [Nodes -> Row] /\ \A m \in Nodes \ {n} : rows'[m] = rows[m]
          /\ rows'[n].there /\ rows'[n].v6 = rows[n].v6 /\ rows'[n].v4 = req[r].v4
      BY <1>3, <1>7, <2>2, <3>4
    <3>6. Tame
      BY <2>2, <3>1, <3>5 DEF IInv, Kept, AtHome, Enrolled, Tame
    <3>7. rows'[n].v4 # 0 /\ rows'[n].v6 # 0
      BY <1>3, <2>2, <3>1, <3>5, FleetAssumption DEF Subnet
    <3>8. tracked' \subseteq Enrolled'
      BY <1>3, <1>4, <2>2, <3>5 DEF Enrolled
    <3> QED
      BY <1>3, <1>4, <1>5, <3>5, <3>6, <3>7, <3>8, RowsIInv
  <2> QED
    BY <2>1, <2>2
<1> QED
  BY <1>1, <1>6, <1>7 DEF ScoreNode

\* A row that is enrolled has the two addresses of one offset, and nobody who
\* works on its node has read it before it came.
LEMMA InsertIInv ==
  ASSUME IInv, NEW r \in Requests, req[r].pc = "insert", NEW pc \in {"reread", "announce"},
         Insert(r, pc)
  PROVE  IInv'
<1>1. PICK n \in Nodes : n = req[r].node
  BY DEF IInv, TypeOK, Request
<1>2. /\ Creating(r) /\ req[r].v4 \in Overlay /\ Busy(r) /\ req[r].pc # "find"
      /\ req[r] \in Request
  BY DEF IInv, TypeOK, Kept, Steps, Busy
<1>3. /\ rows \in [Nodes -> Row] /\ tracked \subseteq Enrolled /\ sockets \in Sockets
      /\ req \in [Requests -> Request] /\ used \subseteq Nodes /\ Enrolled \subseteq used
      /\ accounts \subseteq Users /\ overlapped \subseteq Requests
      /\ muddled \subseteq Nodes /\ vanished \subseteq Nodes
      /\ \A m \in Nodes : /\ rows[m].there <=> rows[m].v4 # 0
                          /\ rows[m].there <=> rows[m].v6 # 0
  BY DEF IInv, TypeOK, Sockets
<1>4. UNCHANGED <<tracked, sockets, accounts, overlapped, muddled, vanished>>
  BY DEF Insert
<1>5. CASE UNCHANGED <<rows, used>> /\ Answer(r)
  BY <1>2, <1>3, <1>4, <1>5, AnswerGoesOn, RequestIInv
<1>6. CASE /\ Unique(Inserting(r)) /\ rows' = Inserting(r)
           /\ used' = used \cup {n} /\ Done(r, pc)
  <2>1. PICK o \in Overlay : o = req[r].v4
    BY <1>2
  <2>2. o \in 1..Pool /\ o \in 1..(Pool + Isolated)
    BY <2>1, FleetAssumption DEF Overlay
  <2>3. /\ Fresh(o, o) \in Row /\ Fresh(o, o).there
        /\ Fresh(o, o).v4 = o /\ Fresh(o, o).v6 = o
    <3>1. o \in 0..Pool /\ o \in 0..(Pool + Isolated) /\ absent \in Row
      BY <2>2, BasicTypes
    <3>2. Fresh(o, o) = [absent EXCEPT !.there = TRUE, !.v4 = o, !.v6 = o, !.healthy = TRUE]
      BY DEF Fresh
    <3> QED
      BY ZenonT(60), <3>1, <3>2 DEF Row
  <2>4. rows' = [rows EXCEPT ![n] = Fresh(o, o)]
    BY <1>1, <1>6, <2>1 DEF Inserting
  <2>5. /\ rows' \in [Nodes -> Row] /\ \A m \in Nodes \ {n} : rows'[m] = rows[m]
        /\ rows'[n].there /\ rows'[n].v6 = o /\ rows'[n].v4 = o
    BY <1>3, <2>3, <2>4
  <2>6. PICK q : q = [idle EXCEPT !.pc = pc, !.op = req[r].op, !.node = req[r].node]
    OBVIOUS
  <2>7. q \in Request /\ q.pc = pc /\ q.node = n /\ q.op = req[r].op
    BY <1>1, <1>2, <2>6, BasicTypes DEF Request
  <2>8. req' = [req EXCEPT ![r] = q]
    BY <1>6, <2>6 DEF Done
  <2>9. req' \in [Requests -> Request] /\ \A s \in Requests : req'[s] = IF s = r THEN q ELSE req[s]
    BY <1>3, <2>7, <2>8
  <2>10. \A s \in Requests \ {r} : req[s].node = n => req[s].pc \in {"idle", "find"}
    BY <1>1, <1>2 DEF IInv, Kept, Exclusive, Busy
  <2>11. \A s \in Requests : req[s].node \in Nodes
    BY <1>3 DEF Request
  <2>12. TypeOK'
    <3>1. /\ used' \subseteq Nodes /\ Enrolled' \subseteq used' /\ tracked' \subseteq Enrolled'
          /\ UNCHANGED <<tracked, sockets, accounts, overlapped, muddled, vanished>>
      BY <1>3, <1>4, <1>6, <2>5 DEF Enrolled
    <3>2. \A m \in Nodes : /\ rows'[m].there <=> rows'[m].v4 # 0
                           /\ rows'[m].there <=> rows'[m].v6 # 0
      BY <1>3, <2>2, <2>5
    <3> QED
      BY <1>3, <2>5, <2>9, <3>1, <3>2 DEF TypeOK, Sockets
  <2>13. Steps'
    BY <2>7, <2>9 DEF IInv, Kept, Steps, Creating
  <2>14. OwnOffsets'
    BY <1>6 DEF OwnOffsets, Unique, Enrolled
  <2>15. AtHome'
    BY <2>5 DEF IInv, Kept, AtHome, Enrolled
  <2>16. Exclusive'
    BY <1>1, <2>5, <2>7, <2>9, <2>10, <2>11 DEF IInv, Kept, Exclusive, Creating, Busy
  <2>17. Stale'
    BY <1>1, <2>5, <2>7, <2>9, <2>10, <2>11 DEF IInv, Kept, Stale
  <2> QED
    BY <2>12, <2>13, <2>14, <2>15, <2>16, <2>17 DEF IInv, Kept
<1> QED
  BY <1>1, <1>5, <1>6 DEF Insert
-----------------------------------------------------------------------------
\* A new call starts at the beginning of its handler, alone if it enrols.
LEMMA SendIInv ==
  ASSUME IInv, NEW r \in Requests, NEW call \in Calls[r], NEW arg \in Arguments(call[1]),
         Send(r, call[1], call[2], arg)
  PROVE  IInv'
<1>1. PICK op \in AllOps, n \in Nodes : op = call[1] /\ n = call[2]
  BY FleetAssumption
<1>2. PICK q : q = [idle EXCEPT !.pc = Begin(op), !.op = op, !.node = n, !.arg = arg]
  OBVIOUS
<1>3. arg \in {"none", "quarantined", "active", "other"}
  BY DEF Arguments
<1>4. Begin(op) = IF op \in {"create", "generate"} THEN "count" ELSE "find"
  BY DEF Begin
<1>5. q \in Request /\ q.pc = Begin(op) /\ q.node = n /\ q.op = op
  BY <1>2, <1>3, <1>4, BasicTypes DEF Request
<1>6. /\ req' = [req EXCEPT ![r] = q] /\ req[r].pc = "idle" /\ UNCHANGED <<rows, tracked, sockets>>
      /\ UNCHANGED <<accounts, used, vanished>>
  BY <1>1, <1>2 DEF Send
<1>7. /\ rows \in [Nodes -> Row] /\ req \in [Requests -> Request]
      /\ muddled \subseteq Nodes
  BY DEF IInv, TypeOK
<1>8. req' \in [Requests -> Request] /\ \A s \in Requests : req'[s] = IF s = r THEN q ELSE req[s]
  BY <1>5, <1>6, <1>7
<1>9. muddled' \subseteq Nodes /\ overlapped' \subseteq Requests
  BY <1>1, <1>7 DEF Send, IInv, TypeOK
<1>10. TypeOK'
  BY <1>6, <1>8, <1>9 DEF IInv, TypeOK, Enrolled
<1>11. Steps'
  BY <1>4, <1>5, <1>8 DEF IInv, Kept, Steps, Creating
<1>12. OwnOffsets' /\ AtHome'
  BY <1>6 DEF IInv, Kept, OwnOffsets, AtHome, Enrolled
<1>13. op \in {"create", "generate"} =>
         ~rows[n].there /\ \A s \in Requests : req[s].node = n => ~Busy(s)
  BY <1>1 DEF Send, IInv, TypeOK, Enrolled
<1>14. Exclusive'
  <2>1. ASSUME NEW s \in Requests, Creating(s)', s = r
        PROVE  ~rows'[req'[s].node].there /\ op \in {"create", "generate"} /\ req'[s].node = n
    BY <1>4, <1>5, <1>6, <1>8, <1>13, <2>1 DEF Creating
  <2>2. ASSUME NEW s \in Requests, Creating(s)', s # r
        PROVE  /\ ~rows'[req'[s].node].there /\ req'[s].node = req[s].node
               /\ n = req[s].node => op \notin {"create", "generate"} /\ q.pc = "find"
               /\ \A t \in Requests \ {s} : Busy(t) /\ req[t].node = req[s].node =>
                                              req[t].pc = "find"
    <3>1. Creating(s) /\ Busy(s) /\ req'[s] = req[s]
      BY <1>8, <2>2 DEF Creating, Busy
    <3> QED
      BY <1>4, <1>5, <1>6, <1>13, <3>1 DEF IInv, Kept, Exclusive
  <2> QED
    BY <1>4, <1>5, <1>8, <1>13, <2>1, <2>2 DEF Exclusive, Busy
<1>15. Stale'
  BY <1>4, <1>5, <1>6, <1>8 DEF IInv, Kept, Stale
<1> QED
  BY <1>10, <1>11, <1>12, <1>14, <1>15 DEF IInv, Kept

LEMMA GoHeartbeatIInv ==
  ASSUME IInv, NEW n \in Nodes, GoHeartbeat(n)
  PROVE  IInv'
<1>1. rows \in [Nodes -> Row]
  BY DEF IInv, TypeOK
<1>2. /\ rows' \in [Nodes -> Row]
      /\ \A m \in Nodes : /\ rows'[m].there = rows[m].there
                          /\ rows'[m].v4 = rows[m].v4 /\ rows'[m].v6 = rows[m].v6
  <2> PICK k : k = [rows[n] EXCEPT !.healthy = TRUE]
    OBVIOUS
  <2>1. k \in Row /\ k.there = rows[n].there /\ k.v4 = rows[n].v4 /\ k.v6 = rows[n].v6
    <3> PICK j : j = rows[n]
      OBVIOUS
    <3>1. j \in Row /\ k = [j EXCEPT !.healthy = TRUE]
      BY <1>1
    <3> QED
      BY <3>1 DEF Row
  <2>2. rows' = rows \/ rows' = [rows EXCEPT ![n] = k]
    BY <1>1 DEF GoHeartbeat
  <2> QED
    BY <1>1, <2>1, <2>2
<1>3. Tame
  BY <1>2 DEF IInv, Kept, AtHome, Enrolled, Tame
<1>4. TypeOK'
  BY <1>2 DEF IInv, TypeOK, Enrolled, GoHeartbeat
<1> QED
  BY <1>3, <1>4, TameKept DEF IInv, GoHeartbeat

\* Rows go with their accounts.
LEMMA NodesGoIInv ==
  ASSUME IInv, NEW U, NodesGo(U), accounts' \subseteq accounts
  PROVE  IInv'
<1> DEFINE gone == {n \in Enrolled : OwnerOf[n] \in U}
<1>1. rows \in [Nodes -> Row] /\ absent \in Row /\ \A r \in Requests : req[r].node \in Nodes
  BY BasicTypes DEF IInv, TypeOK, Request
<1>2. rows' = [n \in Nodes |-> IF n \in gone THEN absent ELSE rows[n]]
  BY DEF NodesGo
<1>3. rows' \in [Nodes -> Row] /\ \A n \in Nodes \ gone : rows'[n] = rows[n]
  BY <1>1, <1>2
<1>4. \A n \in gone : ~rows'[n].there /\ rows'[n].v4 = 0 /\ rows'[n].v6 = 0
  BY <1>2 DEF absent, Enrolled
<1> HIDE DEF gone
<1>5. Tame
  BY <1>3, <1>4 DEF IInv, Kept, AtHome, Enrolled, Tame
<1>6. tracked' \subseteq Enrolled' /\ Enrolled' \subseteq Enrolled
  BY <1>3, <1>4 DEF IInv, TypeOK, NodesGo, Enrolled, gone
<1>7. vanished' \subseteq Nodes /\ overlapped' \subseteq Requests /\ muddled' \subseteq Nodes
  BY <1>1 DEF IInv, TypeOK, NodesGo, Enrolled
<1>8. \A n \in Nodes : /\ rows'[n].there <=> rows'[n].v4 # 0
                       /\ rows'[n].there <=> rows'[n].v6 # 0
  BY <1>3, <1>4 DEF IInv, TypeOK
<1>9. UNCHANGED <<req, sockets, used>>
  BY DEF NodesGo
<1>10. Enrolled' \subseteq used /\ accounts' \subseteq Users /\ used \subseteq Nodes
  BY <1>6 DEF IInv, TypeOK
<1>11. TypeOK'
  <2>1. req \in [Requests -> Request] /\ sockets \in Sockets
    BY DEF IInv, TypeOK, Sockets
  <2> QED
    BY <1>3, <1>6, <1>7, <1>8, <1>9, <1>10, <2>1 DEF TypeOK, Sockets
<1> QED
  BY <1>5, <1>9, <1>11, TameKept DEF IInv

LEMMA DeletionIInv ==
  ASSUME IInv, WipeTelemetry \/ \E U \in Deletions : DestroyNodes(U) \/ DeleteAccounts(U)
  PROVE  IInv'
<1>1. CASE WipeTelemetry
  <2>1. Tame
    BY <1>1 DEF IInv, Kept, AtHome, Enrolled, Tame, WipeTelemetry
  <2>2. TypeOK'
    BY <1>1 DEF IInv, TypeOK, Enrolled, WipeTelemetry
  <2> QED
    BY <1>1, <2>1, <2>2, TameKept DEF IInv, WipeTelemetry
<1>2. ASSUME NEW U, DestroyNodes(U) \/ DeleteAccounts(U) PROVE IInv'
  BY <1>2, NodesGoIInv DEF DestroyNodes, DeleteAccounts
<1> QED
  BY <1>1, <1>2

\* A WebSocket comes, answers or goes.
LEMMA SocketIInv ==
  ASSUME IInv,
         \/ \E v \in Viewers : Upgrade(v) \/ Admit(v) \/ ReadNodes(v) \/ Pong(v) \/ Close(v)
         \/ PingRound
  PROVE  IInv'
<1>1. UNCHANGED <<rows, tracked, req, rest>>
  BY DEF Upgrade, Admit, ReadNodes, Pong, Close, PingRound
<1> DEFINE Socket == [at : {"away", "asked", "open"}, alive : BOOLEAN,
                      told : [Nodes -> {"unheard", "gone", "up", "held"}]]
<1>2. sockets \in [Viewers -> Socket] /\ Sockets = [Viewers -> Socket]
  BY DEF IInv, TypeOK, Sockets
<1>3. /\ away \in Socket /\ [away EXCEPT !.at = "open", !.alive = TRUE] \in Socket
      /\ \A s \in Socket : /\ [s EXCEPT !.at = "asked"] \in Socket
                           /\ [s EXCEPT !.alive = FALSE] \in Socket
                           /\ [s EXCEPT !.alive = TRUE] \in Socket
  BY DEF away
<1>4. ASSUME NEW v \in Viewers, ReadNodes(v) PROVE sockets' \in [Viewers -> Socket]
  <2>1. \A n \in Nodes : Picture(rows[n]) \in {"unheard", "gone", "up", "held"}
    BY DEF Picture
  <2> DEFINE told == [n \in Nodes |-> IF sockets[v].told[n] = "unheard" /\ v \in {Admin, OwnerOf[n]}
                                       THEN Picture(rows[n]) ELSE sockets[v].told[n]]
  <2>2. sockets[v].told \in [Nodes -> {"unheard", "gone", "up", "held"}]
    BY <1>2
  <2>3. told \in [Nodes -> {"unheard", "gone", "up", "held"}]
    BY <2>1, <2>2
  <2>4. sockets' = [sockets EXCEPT ![v].told = told]
    BY <1>4 DEF ReadNodes
  <2> HIDE DEF told
  <2>5. [sockets[v] EXCEPT !.told = told] \in Socket
    BY <1>2, <2>3
  <2> QED
    BY <1>2, <2>4, <2>5
<1> HIDE DEF Socket
<1>5. ASSUME NEW v \in Viewers, Upgrade(v) \/ Admit(v) \/ Pong(v) \/ Close(v)
      PROVE  sockets' \in [Viewers -> Socket]
  <2>1. sockets[v] \in Socket
    BY <1>2
  <2>2. PICK s \in Socket : sockets' = [sockets EXCEPT ![v] = s]
    BY <1>2, <1>3, <1>5, <2>1 DEF Upgrade, Admit, Pong, Close
  <2> QED
    BY <1>2, <2>2
<1>6. ASSUME PingRound PROVE sockets' \in [Viewers -> Socket]
  BY <1>2, <1>3, <1>6 DEF PingRound
<1>7. sockets' \in Sockets
  BY <1>2, <1>4, <1>5, <1>6
<1>8. Tame
  BY <1>1 DEF IInv, Kept, AtHome, Enrolled, Tame
<1>9. TypeOK'
  BY <1>1, <1>7 DEF IInv, TypeOK, Enrolled, Sockets
<1> QED
  BY <1>1, <1>8, <1>9, TameKept DEF IInv
-----------------------------------------------------------------------------
LEMMA StepIInv == IInv /\ [Next]_vars => IInv'
<1> SUFFICES ASSUME IInv, [Next]_vars PROVE IInv'
  OBVIOUS
<1>1. ASSUME NEW r \in Requests, Serve(r) PROVE IInv'
  <2>1. CASE CountNodes(r) \/ CheckKey(r) \/ ReadVips(r) \/ FindNode(r) \/ FindAgain(r) \/ Reread(r)
    BY <2>1, CountNodesIInv, CheckKeyIInv, ReadVipsIInv, FindNodeIInv, FindAgainIInv, RereadIInv
  <2>2. CASE InsertNode(r) \/ InsertConfig(r)
    BY <2>2, InsertIInv DEF InsertNode, InsertConfig
  <2>3. CASE UpdateNode(r) \/ DeleteNode(r) \/ AnnounceChange(r)
    BY <2>3, UpdateNodeIInv, DeleteNodeIInv, AnnounceChangeIInv
  <2>4. CASE ReadLatest(r) \/ Isolate(r) \/ RecordTelemetry(r) \/ ScoreNode(r)
    BY <2>4, ReadLatestIInv, IsolateIInv, RecordTelemetryIInv, ScoreNodeIInv
  <2> QED
    BY <1>1, <2>1, <2>2, <2>3, <2>4 DEF Serve
<1>2. ASSUME NEW r \in Requests, NEW call \in Calls[r], NEW arg \in Arguments(call[1]),
             Send(r, call[1], call[2], arg)
      PROVE  IInv'
  BY <1>2, SendIInv
<1>3. ASSUME NEW n \in Nodes, GoHeartbeat(n) PROVE IInv'
  BY <1>3, GoHeartbeatIInv
<1>4. CASE \/ \E v \in Viewers : Upgrade(v) \/ Admit(v) \/ ReadNodes(v) \/ Pong(v) \/ Close(v)
           \/ PingRound
  BY <1>4, SocketIInv
<1>6. CASE WipeTelemetry \/ \E U \in Deletions : DestroyNodes(U) \/ DeleteAccounts(U)
  BY <1>6, DeletionIInv
<1>5. CASE UNCHANGED vars
  <2>1. Tame
    BY <1>5 DEF IInv, Kept, AtHome, Enrolled, Tame, vars
  <2>2. TypeOK'
    BY <1>5 DEF IInv, TypeOK, Enrolled, vars
  <2> QED
    BY <1>5, <2>1, <2>2, TameKept DEF IInv, vars
<1> QED
  BY <1>1, <1>2, <1>3, <1>4, <1>5, <1>6 DEF Next

THEOREM FleetInvariant == Spec => []IInv
BY InitIInv, StepIInv, PTL DEF Spec

(* Every variable of the fleet keeps its type, and a row has both of its   *)
(* addresses exactly while it is there.                                    *)
THEOREM FleetTypes == Spec => []TypeOK
BY FleetInvariant, PTL DEF IInv

(* The addresses in the configuration handed out with a node stay its own  *)
(* while it exists: no other row ever takes either of them, however many   *)
(* enrolments, quarantines and deletions go on at once.                    *)
THEOREM FirstAddressStaysReserved == Spec => []FirstAddressIsReserved
<1>1. IInv => FirstAddressIsReserved
  <2> SUFFICES ASSUME IInv, NEW n \in Enrolled, NEW m \in Enrolled, n # m
               PROVE  rows[m].v4 # rows[n].v6
    BY DEF FirstAddressIsReserved
  <2>1. rows[n] \in Row /\ rows[m].v6 # rows[n].v6 /\ rows[m].v4 \in {rows[m].v6} \cup Subnet
    BY DEF IInv, TypeOK, Kept, OwnOffsets, AtHome, Enrolled
  <2>2. rows[n].v6 \notin Subnet
    BY <2>1, FleetAssumption DEF Row, Subnet
  <2> QED
    BY <2>1, <2>2
<1> QED
  BY <1>1, FleetInvariant, PTL
-----------------------------------------------------------------------------
(* What viewers are told.  A handler that works on a node alone knows      *)
(* whether it exists and is held (Informed), and between its query and its *)
(* event it owes the viewers what it did (Told).                           *)
\* A request that may change whether a node exists or is quarantined.
Changing(q) == q.pc # "idle" /\ q.op \in Writes

\* Which handlers come to which step.
Phase(q) ==
  /\ q.pc = "delete" => q.op = "delete"
  /\ q.pc \in {"latest", "judge", "record", "score"} => q.op = "telemetry"
  /\ q.pc = "reread" => q.op \in {"create", "update"}
  /\ q.pc = "announce" => q.op \in Writes

\* The event a handler is about to send, of what it did or read back.
Says(q) == CASE q.op \in {"generate", "lift", "attest"} -> "up"
             [] q.op \in {"quarantine", "telemetry"} -> "held"
             [] q.op = "delete" -> "gone"
             [] OTHER -> Picture(q.seen)

\* What a handler that works on a node alone knows of its row.
Knows(q, row) ==
  /\ q.pc \in {"write", "again", "delete", "latest", "judge", "record", "score", "reread"} =>
       row.there
  /\ q.pc \in {"latest", "judge", "record", "score"} => q.seen.quarantined = row.quarantined
  /\ q.pc = "announce" /\ q.op # "set" => Says(q) = Picture(row)
  /\ q.pc = "announce" /\ q.op \in {"create", "update"} => q.seen.there

\* It has still to announce what it did.
Owes(q) == q.pc \in {"reread", "announce"} /\ q.op # "set"

Alone == \A r, s \in Requests :
  Changing(req[r]) /\ Changing(req[s]) /\ req[r].node = req[s].node /\ r \notin overlapped
    => r = s
Mixed == \A r \in Requests :
  Changing(req[r]) /\ r \in overlapped => req[r].node \in muddled \cup vanished
Phases == \A r \in Requests : Phase(req[r])
Informed == \A r \in Requests :
  Changing(req[r]) /\ r \notin overlapped => Knows(req[r], rows[req[r].node])

\* A viewer is up to date about a node.
Right(v, n) == sockets[v].told[n] \in {"unheard", Picture(rows[n])}
Concerned(v, n) == sockets[v].at = "open" /\ v \in {Admin, OwnerOf[n]}
Told == \A v \in Viewers, n \in Nodes \ (muddled \cup vanished) :
  Concerned(v, n) => Right(v, n) \/ \E r \in Requests : req[r].node = n /\ Owes(req[r])

Views == Alone /\ Mixed /\ Phases /\ Informed /\ Told

\* The node of a request keeps what viewers see of it.
SameNode(n) ==
  rows'[n].there = rows[n].there /\ rows'[n].quarantined = rows[n].quarantined

\* A request that works on r's node goes on as q, and tells viewers of it alone.
\* What it says ends all doubt if it was alone on the node.
Tells(r, q, n) ==
  /\ Busy(r) /\ n = req[r].node /\ req' = [req EXCEPT ![r] = q]
  /\ UNCHANGED <<overlapped, vanished>>
  /\ \/ muddled' = muddled
     \/ muddled' = muddled \ {n} /\ r \notin overlapped /\ Changing(req[r]) /\ ~Changing(q)
  /\ q.pc # "idle" => q.node = n /\ q.op = req[r].op
  /\ Phase(q)
  /\ \A m \in Nodes \ {n} : rows'[m] = rows[m]
  /\ ~Changing(req[r]) => SameNode(n)
  /\ r \notin overlapped /\ Changing(q) => Knows(q, rows'[n])
  /\ \A v \in Viewers : /\ sockets'[v].at = sockets[v].at
                         /\ \A m \in Nodes \ {n} : sockets'[v].told[m] = sockets[v].told[m]
  /\ n \notin muddled' \cup vanished => \A v \in Viewers : Concerned(v, n) =>
       \/ sockets'[v].told[n] = Picture(rows'[n])
       \/ Owes(q)
       \/ /\ n \notin muddled /\ ~Owes(req[r]) /\ sockets'[v].told[n] = sockets[v].told[n]
          /\ Picture(rows'[n]) = Picture(rows[n])

LEMMA TellsViews ==
  ASSUME IInv, Views, NEW r \in Requests, NEW q, NEW n \in Nodes, Tells(r, q, n)
  PROVE  Views'
<1>1. \A s \in Requests : req'[s] = IF s = r THEN q ELSE req[s]
  BY DEF IInv, TypeOK, Tells
<1>2. Changing(q) => Changing(req[r]) /\ q.node = req[r].node
  BY DEF Changing, Tells, Busy
<1>3. Alone'
  BY <1>1, <1>2 DEF Views, Alone, Changing, Tells
<1>4. Phases'
  BY <1>1 DEF Views, Phases, Tells
<1>5. Informed'
  <2> SUFFICES ASSUME NEW s \in Requests, Changing(req'[s]), s \notin overlapped
               PROVE  Knows(req'[s], rows'[req'[s].node])
    BY DEF Informed, Tells, Changing, Knows, Says, Picture
  <2>1. CASE s = r
    BY <1>1, <2>1 DEF Tells, Changing
  <2>2. CASE s # r
    <3>1. req'[s] = req[s] /\ req[s].node \in Nodes /\ Knows(req[s], rows[req[s].node])
      BY <1>1, <2>2 DEF Views, Informed, IInv, TypeOK, Request
    <3>2. CASE req[s].node # n
      BY <3>1, <3>2 DEF Tells
    <3>3. CASE req[s].node = n
      <4>1. ~Changing(req[r])
        BY <2>2, <3>1, <3>3 DEF Views, Alone, Tells
      <4>2. SameNode(n)
        BY <4>1 DEF Tells
      <4> QED
        BY <3>1, <3>3, <4>2 DEF SameNode, Knows, Picture
    <3> QED
      BY <3>2, <3>3
  <2> QED
    BY <2>1, <2>2
<1>6. Told'
  <2> SUFFICES ASSUME NEW v \in Viewers, NEW m \in Nodes, m \notin muddled' \cup vanished,
                      sockets[v].at = "open", v \in {Admin, OwnerOf[m]}
               PROVE  \/ sockets'[v].told[m] \in {"unheard", Picture(rows'[m])}
                      \/ \E s \in Requests : req'[s].node = m /\ Owes(req'[s])
    BY DEF Told, Tells, Owes, Picture, Right, Concerned
  <2>1. m \notin muddled => \/ sockets[v].told[m] \in {"unheard", Picture(rows[m])}
                            \/ \E s \in Requests : req[s].node = m /\ Owes(req[s])
    BY DEF Views, Told, Right, Concerned
  <2>2. CASE m # n
    BY <1>1, <2>1, <2>2 DEF Tells
  <2>3. CASE m = n
    <3>1. Owes(q) => req'[r].node = n /\ Owes(req'[r])
      BY <1>1 DEF Owes, Tells
    <3>2. ~Owes(req[r]) /\ (\E s \in Requests : req[s].node = m /\ Owes(req[s]))
             => \E s \in Requests : req'[s].node = m /\ Owes(req'[s])
      BY <1>1
    <3> QED
      BY <2>1, <2>3, <3>1, <3>2 DEF Tells, Concerned
  <2> QED
    BY <2>2, <2>3
<1>7. Mixed'
  <2> SUFFICES ASSUME NEW s \in Requests, Changing(req'[s]), s \in overlapped
               PROVE  req'[s].node \in muddled' \cup vanished
    BY DEF Mixed, Tells, Changing
  <2>1. Changing(req[s]) /\ req'[s].node = req[s].node
    BY <1>1, <1>2
  <2>2. req[s].node \in muddled \cup vanished
    BY <2>1 DEF Views, Mixed
  <2>3. muddled' # muddled => s # r /\ req[s].node # n
    BY <1>1, <2>1 DEF Views, Alone, Tells
  <2> QED
    BY <2>1, <2>2, <2>3 DEF Tells
<1> QED
  BY <1>3, <1>4, <1>5, <1>6, <1>7 DEF Views

LEMMA InitViews == Init => Views
<1> SUFFICES ASSUME Init PROVE Views
  OBVIOUS
<1>1. \A r \in Requests : req[r] = idle
  BY DEF Init
<1>2. ~Changing(idle) /\ Phase(idle)
  BY BasicTypes DEF Changing, Phase
<1>3. \A v \in Viewers : sockets[v].at = "away"
  BY DEF Init, away
<1> QED
  BY <1>1, <1>2, <1>3 DEF Views, Alone, Mixed, Phases, Informed, Told, Concerned

\* The steps of a request that only look.
LEMMA LooksViews ==
  ASSUME IInv, Views, NEW r \in Requests, NEW q, NEW n \in Nodes, n = req[r].node,
         Busy(r), req' = [req EXCEPT ![r] = q],
         q.pc # "idle" => q.node = n /\ q.op = req[r].op,
         Phase(q), r \notin overlapped /\ Changing(q) => Knows(q, rows[n]),
         Owes(req[r]) => Owes(q),
         UNCHANGED <<rows, sockets, history>>
  PROVE  Views'
<1>1. Tells(r, q, n)
  <2> QED
    BY DEF Tells, SameNode
<1> QED
  BY <1>1, TellsViews

LEMMA AnswerLooks ==
  ASSUME IInv, Views, NEW r \in Requests, Busy(r), ~Owes(req[r]), Answer(r),
         UNCHANGED <<rows, sockets, history>>
  PROVE  Views'
<1>1. req[r].node \in Nodes
  BY DEF IInv, TypeOK, Request
<1>2. Phase(idle) /\ ~Changing(idle) /\ req' = [req EXCEPT ![r] = idle]
  BY BasicTypes DEF Phase, Changing, Answer
<1> QED
  BY <1>1, <1>2, BasicTypes, LooksViews

\* A request that goes on with what it knew.
LEMMA GotoLooks ==
  ASSUME IInv, Views, NEW r \in Requests, Busy(r), ~Owes(req[r]),
         NEW pc \in {"key", "vips", "write", "score"}, Goto(r, pc),
         pc = "write" => req[r].pc = "again",
         pc = "score" => req[r].pc \in {"judge", "record"},
         UNCHANGED <<rows, sockets, history>>
  PROVE  Views'
<1> DEFINE q == [req[r] EXCEPT !.pc = pc]
<1>1. req[r] \in Request /\ req[r].node \in Nodes
  BY DEF IInv, TypeOK, Request
<1>2. /\ q.pc = pc /\ q.node = req[r].node /\ q.op = req[r].op /\ q.seen = req[r].seen
      /\ req' = [req EXCEPT ![r] = q]
  BY <1>1 DEF Request, Goto
<1> HIDE DEF q
<1>3. Phase(req[r]) /\ (Changing(q) <=> Changing(req[r]))
  BY <1>2 DEF Views, Phases, Changing, Busy
<1>4. Phase(q)
  BY <1>2, <1>3 DEF Phase
<1>5. r \notin overlapped /\ Changing(q) => Knows(q, rows[req[r].node])
  BY <1>2, <1>3 DEF Views, Informed, Knows
<1> QED
  BY <1>1, <1>2, <1>4, <1>5, LooksViews

\* The steps that decide whether to go on.
LEMMA ProceedViews ==
  ASSUME IInv, Views, NEW r \in Requests,
         CountNodes(r) \/ CheckKey(r) \/ FindAgain(r) \/ RecordTelemetry(r)
  PROVE  Views'
<1>1. Busy(r) /\ ~Owes(req[r]) /\ UNCHANGED <<rows, sockets, history>>
  BY DEF CountNodes, CheckKey, FindAgain, RecordTelemetry, Busy, Owes
<1>2. CASE Answer(r)
  BY <1>1, <1>2, AnswerLooks
<1>3. CASE Goto(r, "key") \/ Goto(r, "vips")
  BY <1>1, <1>3, GotoLooks
<1>4. CASE FindAgain(r) /\ Goto(r, "write")
  BY <1>1, <1>4, GotoLooks DEF FindAgain
<1>5. CASE RecordTelemetry(r) /\ Goto(r, "score")
  BY <1>1, <1>5, GotoLooks DEF RecordTelemetry
<1> QED
  BY <1>2, <1>3, <1>4, <1>5 DEF CountNodes, CheckKey, FindAgain, RecordTelemetry

LEMMA ReadVipsViews ==
  ASSUME IInv, Views, NEW r \in Requests, ReadVips(r)
  PROVE  Views'
<1>1. PICK o \in FreeOffset : req' = [req EXCEPT ![r].pc = "insert", ![r].v4 = o]
  BY DEF ReadVips, First
<1> DEFINE q == [req[r] EXCEPT !.pc = "insert", !.v4 = o]
<1>2. req[r] \in Request /\ req[r].node \in Nodes /\ req \in [Requests -> Request]
  BY DEF IInv, TypeOK, Request
<1>3. /\ q.pc = "insert" /\ q.node = req[r].node /\ q.op = req[r].op
      /\ req' = [req EXCEPT ![r] = q]
  BY <1>1, <1>2 DEF Request
<1> HIDE DEF q
<1>4. Phase(q) /\ Knows(q, rows[req[r].node])
  BY <1>3 DEF Phase, Knows
<1> QED
  BY <1>2, <1>3, <1>4, LooksViews DEF ReadVips, Busy, Owes

\* The row is there when a change of it begins, and telemetry sees if it is held.
LEMMA FindNodeViews ==
  ASSUME IInv, Views, NEW r \in Requests, FindNode(r)
  PROVE  Views'
<1> DEFINE row == rows[req[r].node]
           seen == IF req[r].op # "telemetry" THEN absent ELSE [row EXCEPT !.v6 = 0, !.healthy = FALSE]
           q == [req[r] EXCEPT !.pc = AfterFind[req[r].op], !.seen = seen]
<1>1. Busy(r) /\ ~Owes(req[r]) /\ UNCHANGED <<rows, sockets, history>>
  BY DEF FindNode, Busy, Owes
<1>2. CASE Answer(r)
  BY <1>1, <1>2, AnswerLooks
<1>3. CASE ~Answer(r)
  <2>1. /\ row.there /\ req[r].op # "read"
        /\ req' = [req EXCEPT ![r].pc = AfterFind[req[r].op], ![r].seen = seen]
    BY <1>3 DEF FindNode
  <2>2. /\ req[r] \in Request /\ row \in Row /\ req \in [Requests -> Request]
        /\ req[r].node \in Nodes
    BY DEF IInv, TypeOK, Request
  <2>3. req[r].op \in AllOps \ {"create", "generate", "read"}
    BY <2>1, <2>2 DEF IInv, Kept, Steps, FindNode, Request
  <2>4. /\ AfterFind[req[r].op] \in {"write", "again", "delete", "latest"}
        /\ AfterFind[req[r].op] = "latest" => req[r].op = "telemetry"
        /\ AfterFind[req[r].op] = "delete" => req[r].op = "delete"
    BY <2>3 DEF AfterFind, AllOps, Writes
  <2>5. req[r].op = "telemetry" => seen.quarantined = row.quarantined
    BY <2>2 DEF Row
  <2> HIDE DEF seen
  <2>6. /\ q.pc = AfterFind[req[r].op] /\ q.seen = seen
        /\ q.node = req[r].node /\ q.op = req[r].op
    BY <2>2 DEF Request
  <2>7. req' = [req EXCEPT ![r] = q]
    BY <2>1, <2>2
  <2> HIDE DEF q
  <2>8. Phase(q) /\ Knows(q, row)
    BY <2>1, <2>4, <2>5, <2>6 DEF Phase, Knows
  <2> QED
    BY <1>1, <2>2, <2>6, <2>7, <2>8, LooksViews
<1> QED
  BY <1>2, <1>3

LEMMA RereadViews ==
  ASSUME IInv, Views, NEW r \in Requests, Reread(r)
  PROVE  Views'
<1> DEFINE n == req[r].node
           seen == [rows[n] EXCEPT !.v4 = 0, !.v6 = 0, !.healthy = FALSE, !.risk = 0]
           q == [req[r] EXCEPT !.pc = "announce", !.seen = seen]
<1>1. req[r] \in Request /\ rows[n] \in Row /\ req \in [Requests -> Request] /\ n \in Nodes
  BY DEF IInv, TypeOK, Request
<1>2. seen.there = rows[n].there /\ seen.quarantined = rows[n].quarantined
  BY <1>1 DEF Row
<1>3. req' = [req EXCEPT ![r] = q]
  BY <1>1 DEF Reread
<1> HIDE DEF seen
<1>4. q.pc = "announce" /\ q.node = n /\ q.op = req[r].op /\ q.seen = seen
  BY <1>1 DEF Request
<1> HIDE DEF q
<1>5. req[r].op \in {"create", "update"} /\ Busy(r) /\ Changing(req[r])
  BY DEF Views, Phases, Phase, Reread, Busy, Changing, Writes
<1>6. r \notin overlapped => rows[n].there
  BY <1>5 DEF Views, Informed, Knows, Reread
<1>7. Phase(q) /\ (r \notin overlapped => Knows(q, rows[n])) /\ Owes(q)
  BY <1>2, <1>4, <1>5, <1>6 DEF Phase, Knows, Says, Picture, Owes, Writes
<1> QED
  BY <1>1, <1>3, <1>4, <1>5, <1>7, LooksViews DEF Reread

\* Telemetry keeps in mind whether the row was held.
LEMMA ReadLatestViews ==
  ASSUME IInv, Views, NEW r \in Requests, ReadLatest(r)
  PROVE  Views'
<1>1. PICK fast \in BOOLEAN, noise \in Noise :
        req' = [req EXCEPT ![r].pc = "judge", ![r].v4 = req[r].seen.v4,
                           ![r].bump = noise + IF fast THEN 50 ELSE 0]
  BY DEF ReadLatest
<1> DEFINE q == [req[r] EXCEPT !.pc = "judge", !.v4 = req[r].seen.v4,
                               !.bump = noise + IF fast THEN 50 ELSE 0]
<1>2. req[r] \in Request /\ req[r].node \in Nodes /\ req \in [Requests -> Request]
  BY DEF IInv, TypeOK, Request
<1>3. /\ q.pc = "judge" /\ q.node = req[r].node /\ q.op = req[r].op /\ q.seen = req[r].seen
      /\ req' = [req EXCEPT ![r] = q]
  BY <1>1, <1>2 DEF Request
<1> HIDE DEF q
<1>4. Phase(q) /\ Changing(req[r])
  BY <1>3 DEF Views, Phases, Phase, ReadLatest, Changing, Writes
<1>5. r \notin overlapped => Knows(q, rows[req[r].node])
  BY <1>3, <1>4 DEF Views, Informed, Knows, ReadLatest
<1> QED
  BY <1>2, <1>3, <1>4, <1>5, LooksViews DEF ReadLatest, Busy, Owes

LEMMA IsolateViews ==
  ASSUME IInv, Views, NEW r \in Requests, Isolate(r)
  PROVE  Views'
<1>1. PICK a \in QuarantineIps : req' = [req EXCEPT ![r].pc = "record", ![r].v4 = a]
  BY DEF Isolate
<1> DEFINE q == [req[r] EXCEPT !.pc = "record", !.v4 = a]
<1>2. req[r] \in Request /\ req[r].node \in Nodes /\ req \in [Requests -> Request]
  BY DEF IInv, TypeOK, Request
<1>3. /\ q.pc = "record" /\ q.node = req[r].node /\ q.op = req[r].op /\ q.seen = req[r].seen
      /\ req' = [req EXCEPT ![r] = q]
  BY <1>1, <1>2 DEF Request
<1> HIDE DEF q
<1>4. Phase(q) /\ Changing(req[r])
  BY <1>3 DEF Views, Phases, Phase, Isolate, Changing, Writes
<1>5. r \notin overlapped => Knows(q, rows[req[r].node])
  BY <1>3, <1>4 DEF Views, Informed, Knows, Isolate
<1> QED
  BY <1>2, <1>3, <1>4, <1>5, LooksViews DEF Isolate, Busy, Owes

\* A change of a row is announced, unless viewers see none.
LEMMA WritesViews ==
  ASSUME IInv, Views, NEW r \in Requests, NEW q, NEW n \in Nodes, n = req[r].node,
         Busy(r), ~Owes(req[r]), req' = [req EXCEPT ![r] = q],
         q.pc # "idle" => q.node = n /\ q.op = req[r].op,
         Phase(q), r \notin overlapped /\ Changing(q) => Knows(q, rows'[n]),
         \A m \in Nodes \ {n} : rows'[m] = rows[m],
         ~Changing(req[r]) => SameNode(n),
         r \notin overlapped => Owes(q) \/ Picture(rows'[n]) = Picture(rows[n]),
         UNCHANGED <<sockets, history>>
  PROVE  Views'
<1>1. Tells(r, q, n)
  <2>1. ~Changing(req[r]) => Picture(rows'[n]) = Picture(rows[n])
    BY DEF SameNode, Picture
  <2>2. n \notin muddled \cup vanished /\ Changing(req[r]) => r \notin overlapped
    BY DEF Views, Mixed
  <2> QED
    BY <2>1, <2>2 DEF Tells
<1> QED
  BY <1>1, TellsViews

\* What a request keeps of its record when its query is done.
LEMMA DoneRequest ==
  ASSUME IInv, NEW r \in Requests, NEW pc \in {"reread", "announce"}, Done(r, pc)
  PROVE  \E q : /\ q.pc = pc /\ q.node = req[r].node /\ q.op = req[r].op /\ ~q.seen.there
                /\ req' = [req EXCEPT ![r] = q]
<1>1. req[r] \in Request
  BY DEF IInv, TypeOK
<1> DEFINE q == [idle EXCEPT !.pc = pc, !.op = req[r].op, !.node = req[r].node]
<1>2. q.pc = pc /\ q.node = req[r].node /\ q.op = req[r].op /\ ~q.seen.there
  BY <1>1, BasicTypes DEF Request, idle, absent
<1>3. req' = [req EXCEPT ![r] = q]
  BY DEF Done
<1> QED
  BY <1>2, <1>3

LEMMA DeleteNodeViews ==
  ASSUME IInv, Views, NEW r \in Requests, DeleteNode(r)
  PROVE  Views'
<1> DEFINE n == req[r].node
           q == [req[r] EXCEPT !.pc = "announce"]
<1>1. req[r] \in Request /\ n \in Nodes /\ rows \in [Nodes -> Row]
  BY DEF IInv, TypeOK, Request
<1>2. /\ q.pc = "announce" /\ q.node = n /\ q.op = req[r].op
      /\ req' = [req EXCEPT ![r] = q]
  BY <1>1 DEF Request, DeleteNode, Goto
<1> HIDE DEF q
<1>3. req[r].op = "delete" /\ Changing(req[r]) /\ Busy(r) /\ ~Owes(req[r])
  BY DEF Views, Phases, Phase, DeleteNode, Changing, Writes, Busy, Owes
<1>4. /\ \A m \in Nodes \ {n} : rows'[m] = rows[m]
      /\ Picture(rows'[n]) = "gone" /\ UNCHANGED <<sockets, history>>
  BY <1>1 DEF DeleteNode, Picture, absent
<1>5. Phase(q) /\ Knows(q, rows'[n]) /\ Owes(q)
  BY <1>2, <1>3, <1>4 DEF Phase, Knows, Says, Owes, Writes
<1> QED
  BY <1>1, <1>2, <1>3, <1>4, <1>5, WritesViews

LEMMA UpdateNodeViews ==
  ASSUME IInv, Views, NEW r \in Requests, UpdateNode(r)
  PROVE  Views'
<1> DEFINE n == req[r].node
           op == req[r].op
<1>1. req[r] \in Request /\ n \in Nodes /\ rows \in [Nodes -> Row] /\ rows[n] \in Row
  BY DEF IInv, TypeOK, Request
<1>2. /\ op \in {"heartbeat", "update", "set", "quarantine", "lift", "attest"}
      /\ Busy(r) /\ ~Owes(req[r])
  BY DEF IInv, Kept, Steps, UpdateNode, Busy, Owes
<1>3. /\ rows' = IF rows[n].there THEN [rows EXCEPT ![n] = Changed(r, rows[n])] ELSE rows
      /\ UNCHANGED <<sockets, history>>
  BY DEF UpdateNode
<1>4. /\ \A m \in Nodes \ {n} : rows'[m] = rows[m]
      /\ rows[n].there => rows'[n] = Changed(r, rows[n])
      /\ ~rows[n].there => rows'[n] = rows[n]
  BY <1>1, <1>3
<1>5. /\ op = "heartbeat" => SameNode(n)
      /\ op = "set" => rows'[n] = rows[n]
  <2>1. op = "heartbeat" => Changed(r, rows[n]) = Beaten(rows[n])
    BY DEF Changed
  <2>2. op = "set" => Changed(r, rows[n]) = rows[n]
    BY DEF Changed, Relabelled
  <2>3. /\ Beaten(rows[n]).there = rows[n].there
        /\ Beaten(rows[n]).quarantined = rows[n].quarantined
    BY <1>1 DEF Beaten, Row
  <2> QED
    BY <1>4, <2>1, <2>2, <2>3 DEF SameNode
<1>6. CASE op = "heartbeat"
  <2>1. Answer(r) /\ Picture(rows'[n]) = Picture(rows[n])
    BY <1>5, <1>6 DEF UpdateNode, SameNode, Picture
  <2>2. Phase(idle) /\ ~Changing(idle) /\ req' = [req EXCEPT ![r] = idle]
    BY <2>1, BasicTypes DEF Phase, Changing, Answer
  <2> QED
    BY <1>1, <1>2, <1>3, <1>4, <1>5, <1>6, <2>1, <2>2, BasicTypes, WritesViews
<1>7. CASE op # "heartbeat"
  <2>1. Changing(req[r]) /\ op \in Writes
    BY <1>2, <1>7 DEF Changing, Busy, Writes
  <2>2. r \notin overlapped => rows[n].there
    BY <2>1 DEF Views, Informed, Knows, UpdateNode
  <2>3. Changed(r, rows[n]).there = rows[n].there
    BY <1>1, <1>2, ChangedTypes
  <2>4. rows[n].there =>
          /\ op = "quarantine" => Picture(Changed(r, rows[n])) = "held"
          /\ op \in {"lift", "attest"} => Picture(Changed(r, rows[n])) = "up"
    <3>1. op = "quarantine" => Changed(r, rows[n]) = Held(rows[n])
      BY DEF Changed
    <3>2. op = "lift" => Changed(r, rows[n]) = Lifted(rows[n])
      BY DEF Changed
    <3>3. op = "attest" => Changed(r, rows[n]) = Attested(rows[n])
      BY DEF Changed
    <3>4. Held(rows[n]).quarantined /\ ~Lifted(rows[n]).quarantined
      BY <1>1 DEF Held, Lifted, Row
    <3>5. ~Attested(rows[n]).quarantined
      BY <1>1 DEF Attested, Lifted, Row
    <3> QED
      BY <2>3, <3>1, <3>2, <3>3, <3>4, <3>5 DEF Picture
  <2>5. CASE op = "update"
    <3>1. PICK q : /\ q.pc = "reread" /\ q.node = n /\ q.op = op
                   /\ req' = [req EXCEPT ![r] = q]
      BY <2>5, DoneRequest DEF UpdateNode
    <3>2. Phase(q) /\ Owes(q) /\ (r \notin overlapped => Knows(q, rows'[n]))
      BY <1>4, <2>2, <2>3, <2>5, <3>1 DEF Phase, Owes, Knows, Writes
    <3> QED
      BY <1>1, <1>2, <1>3, <1>4, <2>1, <3>1, <3>2, WritesViews
  <2>6. CASE op # "update"
    <3>1. PICK q : /\ q.pc = "announce" /\ q.node = n /\ q.op = op
                   /\ req' = [req EXCEPT ![r] = q]
      BY <1>7, <2>6, DoneRequest DEF UpdateNode
    <3>2. Phase(q)
      BY <2>1, <3>1 DEF Phase
    <3>3. r \notin overlapped => Knows(q, rows'[n])
      BY <1>2, <1>4, <1>7, <2>2, <2>4, <2>6, <3>1 DEF Knows, Says
    <3>4. Owes(q) \/ Picture(rows'[n]) = Picture(rows[n])
      BY <1>5, <3>1 DEF Owes
    <3> QED
      BY <1>1, <1>2, <1>3, <1>4, <2>1, <3>1, <3>2, <3>3, <3>4, WritesViews
  <2> QED
    BY <2>5, <2>6
<1> QED
  BY <1>6, <1>7

LEMMA InsertViews ==
  ASSUME IInv, Views, NEW r \in Requests, InsertNode(r) \/ InsertConfig(r)
  PROVE  Views'
<1> DEFINE n == req[r].node
<1>1. req[r] \in Request /\ n \in Nodes /\ rows \in [Nodes -> Row] /\ Busy(r) /\ ~Owes(req[r])
  BY DEF IInv, TypeOK, Request, InsertNode, InsertConfig, Busy, Owes
<1>2. PICK pc \in {"reread", "announce"} :
        /\ Insert(r, pc)
        /\ pc = "reread" => req[r].op = "create"
        /\ pc = "announce" => req[r].op = "generate"
  BY DEF InsertNode, InsertConfig
<1>3. UNCHANGED <<sockets, history>>
  BY <1>2 DEF Insert
<1>4. CASE UNCHANGED <<rows, used>> /\ Answer(r)
  BY <1>1, <1>3, <1>4, AnswerLooks
<1>5. CASE rows' = Inserting(r) /\ Done(r, pc)
  <2>1. PICK q : q.pc = pc /\ q.node = n /\ q.op = req[r].op /\ req' = [req EXCEPT ![r] = q]
    BY <1>5, DoneRequest
  <2>2. rows'[n] = Fresh(req[r].v4, req[r].v4) /\ \A m \in Nodes \ {n} : rows'[m] = rows[m]
    BY <1>1, <1>5 DEF Inserting
  <2>3. rows'[n].there /\ Picture(rows'[n]) = "up"
    BY <2>2 DEF Fresh, absent, Picture
  <2>4. Changing(req[r])
    BY <1>1, <1>2 DEF Changing, Busy, Writes
  <2>5. Phase(q) /\ Knows(q, rows'[n]) /\ Owes(q)
    BY <1>2, <2>1, <2>3 DEF Phase, Knows, Says, Owes, Writes
  <2> QED
    BY <1>1, <1>3, <2>1, <2>2, <2>4, <2>5, WritesViews
<1> QED
  BY <1>2, <1>4, <1>5 DEF Insert

\* The row is held afterwards if it was when it was read or has to be now, and
\* only the second is news.
LEMMA ScoreNodeViews ==
  ASSUME IInv, Views, NEW r \in Requests, ScoreNode(r)
  PROVE  Views'
<1> DEFINE n == req[r].node
           news == ShouldQuarantine(r) /\ ~req[r].seen.quarantined
<1>1. /\ req[r] \in Request /\ n \in Nodes /\ rows \in [Nodes -> Row] /\ rows[n] \in Row
      /\ req[r].seen \in Row /\ Busy(r) /\ ~Owes(req[r])
  BY DEF IInv, TypeOK, Request, ScoreNode, Busy, Owes
<1>2. Changing(req[r]) /\ req[r].op = "telemetry"
  BY DEF Views, Phases, Phase, ScoreNode, Changing, Writes
<1>3. r \notin overlapped => rows[n].there /\ req[r].seen.quarantined = rows[n].quarantined
  BY <1>2 DEF Views, Informed, Knows, ScoreNode
<1>4. UNCHANGED <<sockets, history>>
  BY DEF ScoreNode
<1>5. CASE UNCHANGED rows /\ Answer(r)
  BY <1>1, <1>4, <1>5, AnswerLooks
<1>6. CASE /\ rows' = [rows EXCEPT ![n] = IF rows[n].there THEN Scored(r, rows[n]) ELSE absent]
           /\ IF news THEN Done(r, "announce") ELSE Answer(r)
  <2>1. \A m \in Nodes \ {n} : rows'[m] = rows[m]
    BY <1>1, <1>6
  <2>2. r \notin overlapped => rows'[n] = Scored(r, rows[n])
    BY <1>1, <1>3, <1>6
  <2>3. /\ Scored(r, rows[n]).there = rows[n].there
        /\ Scored(r, rows[n]).quarantined <=> req[r].seen.quarantined \/ ShouldQuarantine(r)
    BY <1>1 DEF Scored, Row
  <2>4. CASE news /\ Done(r, "announce")
    <3>1. PICK q : /\ q.pc = "announce" /\ q.node = n /\ q.op = req[r].op
                   /\ req' = [req EXCEPT ![r] = q]
      BY <2>4, DoneRequest
    <3>2. r \notin overlapped => Picture(rows'[n]) = "held"
      BY <1>3, <2>2, <2>3, <2>4 DEF Picture
    <3>3. Phase(q) /\ Owes(q) /\ (r \notin overlapped => Knows(q, rows'[n]))
      BY <1>2, <3>1, <3>2 DEF Phase, Knows, Says, Owes, Writes
    <3> QED
      BY <1>1, <1>2, <1>4, <2>1, <3>1, <3>3, WritesViews
  <2>5. CASE ~news /\ Answer(r)
    <3>1. r \notin overlapped => Picture(rows'[n]) = Picture(rows[n])
      BY <1>3, <2>2, <2>3, <2>5 DEF Picture
    <3>2. Phase(idle) /\ ~Changing(idle) /\ req' = [req EXCEPT ![r] = idle]
      BY <2>5, BasicTypes DEF Phase, Changing, Answer
    <3> QED
      BY <1>1, <1>2, <1>4, <2>1, <3>1, <3>2, BasicTypes, WritesViews
  <2> QED
    BY <1>6, <2>4, <2>5
<1> QED
  BY <1>5, <1>6 DEF ScoreNode

\* The event says what the row is, and reaches whom it concerns.
LEMMA AnnounceChangeViews ==
  ASSUME IInv, Views, NEW r \in Requests, AnnounceChange(r)
  PROVE  Views'
<1> DEFINE n == req[r].node
<1>1. /\ req[r] \in Request /\ n \in Nodes /\ Busy(r) /\ Answer(r)
      /\ sockets \in Sockets /\ UNCHANGED <<rows, overlapped, vanished>>
  BY DEF IInv, TypeOK, Sockets, Request, AnnounceChange, Busy
<1>2. Changing(req[r])
  BY DEF Views, Phases, Phase, AnnounceChange, Changing
<1>3. r \notin overlapped =>
        /\ req[r].op # "set" => Says(req[r]) = Picture(rows[n])
        /\ req[r].op \in {"create", "update"} => req[r].seen.there
  BY <1>2 DEF Views, Informed, Knows, AnnounceChange
<1>4. \/ sockets' = sockets
      \/ \E picture \in {"gone", "up", "held"}, named \in BOOLEAN : Announce(n, picture, named)
  BY <1>1, BasicTypes DEF AnnounceChange, Request
<1>5. \A v \in Viewers : /\ sockets'[v].at = sockets[v].at
                         /\ \A m \in Nodes \ {n} : sockets'[v].told[m] = sockets[v].told[m]
  BY <1>1, <1>4 DEF Announce, Sockets
<1>6. r \notin overlapped =>
        \/ req[r].op = "set" /\ sockets' = sockets
        \/ \E named \in BOOLEAN : Announce(n, Picture(rows[n]), named)
  BY <1>3 DEF AnnounceChange, Says
<1>7. ASSUME r \notin overlapped, NEW v \in Viewers, Concerned(v, n)
      PROVE  \/ sockets'[v].told[n] = Picture(rows[n])
             \/ /\ muddled' = muddled /\ ~Owes(req[r])
                /\ sockets'[v].told[n] = sockets[v].told[n]
  <2>1. CASE req[r].op = "set" /\ sockets' = sockets
    BY <2>1 DEF Owes, AnnounceChange
  <2>2. ASSUME NEW named \in BOOLEAN, Announce(n, Picture(rows[n]), named)
        PROVE  sockets'[v].told[n] = Picture(rows[n])
    BY <1>1, <1>7, <2>2 DEF Announce, Hears, Sockets, Concerned
  <2> QED
    BY <1>6, <1>7, <2>1, <2>2
<1>8. Phase(idle) /\ ~Changing(idle) /\ req' = [req EXCEPT ![r] = idle]
  BY <1>1, BasicTypes DEF Phase, Changing, Answer
<1>9. n \notin muddled' \cup vanished => r \notin overlapped
  BY <1>2 DEF Views, Mixed, AnnounceChange
<1>10. /\ muddled' = muddled \/ (muddled' = muddled \ {n} /\ r \notin overlapped)
       /\ n \notin muddled' /\ muddled' = muddled => n \notin muddled
  BY DEF AnnounceChange
<1>11. Tells(r, idle, n)
  BY <1>1, <1>2, <1>5, <1>7, <1>8, <1>9, <1>10, BasicTypes DEF Tells
<1> QED
  BY <1>1, <1>11, TellsViews

\* A second change of a node that is being changed makes it a muddled one.
LEMMA SendViews ==
  ASSUME IInv, Views, NEW r \in Requests, NEW call \in Calls[r], NEW arg,
         Send(r, call[1], call[2], arg)
  PROVE  Views'
<1>1. PICK op \in AllOps, n \in Nodes : op = call[1] /\ n = call[2]
  BY FleetAssumption
<1> DEFINE q == [idle EXCEPT !.pc = Begin(op), !.op = op, !.node = n, !.arg = arg]
<1>2. q.pc \in {"count", "find"} /\ q.node = n /\ q.op = op
  BY DEF idle, Begin
<1>3. req[r].pc = "idle" /\ req' = [req EXCEPT ![r] = q] /\ UNCHANGED <<rows, sockets>>
  BY <1>1 DEF Send
<1> HIDE DEF q
<1>4. \A s \in Requests : req'[s] = IF s = r THEN q ELSE req[s]
  BY <1>3 DEF IInv, TypeOK
<1> DEFINE others == {t \in Requests : Changing(req[t]) /\ req[t].node = n}
<1>5. \/ /\ overlapped' = overlapped \ {r} /\ UNCHANGED <<muddled, vanished>>
         /\ op \in Writes => others = {}
      \/ /\ overlapped' = overlapped \cup others \cup {r} /\ UNCHANGED vanished
         /\ muddled' = muddled \cup {n}
  BY <1>1 DEF Send, Changing, Writing, Busy
<1>6. /\ r \notin others
      /\ \A s \in Requests : s \in others <=> Changing(req[s]) /\ req[s].node = n
  BY <1>3 DEF Changing
<1> HIDE DEF others
<1>7. Phase(q) /\ ~Owes(q) /\ ~Owes(req[r]) /\ \A row : Knows(q, row)
  BY <1>2, <1>3 DEF Phase, Owes, Knows
<1>8. /\ \A s \in Requests \ {r} : req'[s] = req[s] /\ (s \notin overlapped' => s \notin overlapped)
      /\ muddled \subseteq muddled' /\ UNCHANGED <<rows, sockets, vanished>>
  BY <1>3, <1>4, <1>5
<1>9. Alone'
  <2> SUFFICES ASSUME NEW s \in Requests, NEW t \in Requests, s # t, s \notin overlapped',
                      Changing(req'[s]), Changing(req'[t]), req'[s].node = req'[t].node
               PROVE  FALSE
    BY DEF Alone, Changing
  <2>1. CASE s # r /\ t # r
    BY <1>8, <2>1 DEF Views, Alone
  <2>2. CASE s = r
    <3>1. op \in Writes /\ t \in others
      BY <1>2, <1>4, <1>6, <2>2 DEF Changing
    <3> QED
      BY <1>5, <2>2, <3>1
  <2>3. CASE t = r
    <3>1. op \in Writes /\ s \in others
      BY <1>2, <1>4, <1>6, <2>3 DEF Changing
    <3> QED
      BY <1>5, <3>1
  <2> QED
    BY <2>1, <2>2, <2>3
<1>10. Mixed'
  <2> SUFFICES ASSUME NEW s \in Requests, Changing(req'[s]), s \in overlapped'
               PROVE  req'[s].node \in muddled' \cup vanished'
    BY DEF Mixed, Changing
  <2>1. CASE s = r
    BY <1>2, <1>4, <1>5, <2>1
  <2>2. CASE s # r /\ s \in overlapped
    BY <1>8, <2>2 DEF Views, Mixed
  <2>3. CASE s # r /\ s \notin overlapped
    BY <1>5, <1>6, <1>8, <2>3
  <2> QED
    BY <2>1, <2>2, <2>3
<1>11. Phases'
  BY <1>4, <1>7 DEF Views, Phases
<1>12. Informed'
  BY <1>4, <1>7, <1>8 DEF Views, Informed
<1>13. Told'
  BY <1>4, <1>7, <1>8 DEF Views, Told, Right, Concerned
<1> QED
  BY <1>9, <1>10, <1>11, <1>12, <1>13 DEF Views

LEMMA GoHeartbeatViews ==
  ASSUME IInv, Views, NEW n \in Nodes, GoHeartbeat(n)
  PROVE  Views'
<1>1. rows \in [Nodes -> Row] /\ UNCHANGED <<req, sockets, history>>
  BY DEF IInv, TypeOK, GoHeartbeat
<1>2. \A m \in Nodes : SameNode(m)
  BY <1>1 DEF GoHeartbeat, SameNode, Row
<1>3. /\ \A m \in Nodes : Picture(rows'[m]) = Picture(rows[m])
      /\ \A m \in Nodes : \A q : Knows(q, rows[m]) => Knows(q, rows'[m])
  BY <1>2 DEF SameNode, Picture, Knows
<1>4. \A r \in Requests : req[r].node \in Nodes
  BY DEF IInv, TypeOK, Request
<1>5. Alone' /\ Mixed' /\ Phases'
  BY <1>1 DEF Views, Alone, Mixed, Phases
<1>6. Informed'
  BY <1>1, <1>3, <1>4 DEF Views, Informed
<1>7. Told'
  BY <1>1, <1>3 DEF Views, Told, Right, Concerned
<1> QED
  BY <1>5, <1>6, <1>7 DEF Views

\* Nodes that go with their account are in doubt from then on, as is every
\* change of them.
LEMMA NodesGoViews ==
  ASSUME IInv, Views, NEW U, NodesGo(U)
  PROVE  Views'
<1> DEFINE gone == {n \in Enrolled : OwnerOf[n] \in U}
           late == {r \in Requests : Changing(req[r]) /\ req[r].node \in gone}
<1>1. /\ rows' = [n \in Nodes |-> IF n \in gone THEN absent ELSE rows[n]]
      /\ vanished' = vanished \cup gone /\ UNCHANGED <<req, sockets>>
      /\ overlapped' = overlapped \cup late /\ muddled \subseteq muddled'
  BY DEF NodesGo, Changing, Writing, Busy
<1>2. \A r \in Requests : req[r].node \in Nodes
  BY DEF IInv, TypeOK, Request
<1>3. \A n \in Nodes \ gone : rows'[n] = rows[n]
  BY <1>1
<1> HIDE DEF gone
<1>4. Alone' /\ Phases'
  BY <1>1 DEF Views, Alone, Phases
<1>5. Mixed'
  BY <1>1 DEF Views, Mixed
<1>6. Informed'
  BY <1>1, <1>2, <1>3 DEF Views, Informed
<1>7. Told'
  BY <1>1, <1>3 DEF Views, Told, Right, Concerned
<1> QED
  BY <1>4, <1>5, <1>6, <1>7 DEF Views

\* A list that is read says how the nodes are; a socket that comes in has
\* heard nothing, and none is told anything that it does not hear.
LEMMA SocketViews ==
  ASSUME IInv, Views,
         \/ \E v \in Viewers : Upgrade(v) \/ Admit(v) \/ ReadNodes(v) \/ Pong(v) \/ Close(v)
         \/ PingRound
  PROVE  Views'
<1>1. UNCHANGED <<rows, req, history>> /\ sockets \in Sockets
  BY DEF IInv, TypeOK, Sockets, Upgrade, Admit, ReadNodes, Pong, Close, PingRound
<1> DEFINE Keeps(v) == sockets[v].at = "open" /\ sockets'[v].told = sockets[v].told
           Reads(v) == /\ sockets[v].at = "open"
                       /\ \A n \in Nodes : sockets'[v].told[n] \in
                                              {sockets[v].told[n], Picture(rows[n])}
           Enters(v) == \A n \in Nodes : sockets'[v].told[n] = "unheard"
<1>2. \A v \in Viewers : sockets'[v].at = "open" => Keeps(v) \/ Reads(v) \/ Enters(v)
  <2>1. ASSUME NEW w \in Viewers, Admit(w)
        PROVE  \A v \in Viewers : sockets'[v].at = "open" => Keeps(v) \/ Enters(v)
    BY <1>1, <2>1 DEF Admit, away, Sockets
  <2>2. ASSUME NEW w \in Viewers, ReadNodes(w)
        PROVE  \A v \in Viewers : sockets'[v].at = "open" => Keeps(v) \/ Reads(v)
    BY <1>1, <2>2 DEF ReadNodes, Sockets
  <2>3. ASSUME NEW w \in Viewers, Upgrade(w) \/ Pong(w) \/ Close(w)
        PROVE  \A v \in Viewers : sockets'[v].at = "open" => Keeps(v)
    BY <1>1, <2>3 DEF Upgrade, Pong, Close, away, Sockets
  <2>4. ASSUME PingRound
        PROVE  \A v \in Viewers : sockets'[v].at = "open" => Keeps(v)
    BY <1>1, <2>4 DEF PingRound, away, Sockets
  <2> QED
    BY <2>1, <2>2, <2>3, <2>4
<1>3. Alone' /\ Mixed' /\ Phases' /\ Informed'
  BY <1>1 DEF Views, Alone, Mixed, Phases, Informed
<1>4. Told'
  BY <1>1, <1>2 DEF Views, Told, Right, Concerned
<1> QED
  BY <1>3, <1>4 DEF Views
-----------------------------------------------------------------------------
LEMMA StepViews == IInv /\ Views /\ [Next]_vars => Views'
<1> SUFFICES ASSUME IInv, Views, [Next]_vars PROVE Views'
  OBVIOUS
<1>1. ASSUME NEW r \in Requests, Serve(r) PROVE Views'
  BY <1>1, ProceedViews, ReadVipsViews, FindNodeViews, RereadViews, ReadLatestViews, IsolateViews,
     InsertViews, UpdateNodeViews, DeleteNodeViews, ScoreNodeViews, AnnounceChangeViews DEF Serve
<1>2. ASSUME NEW r \in Requests, NEW call \in Calls[r], NEW arg \in Arguments(call[1]),
             Send(r, call[1], call[2], arg)
      PROVE  Views'
  BY <1>2, SendViews
<1>3. ASSUME NEW n \in Nodes, GoHeartbeat(n) PROVE Views'
  BY <1>3, GoHeartbeatViews
<1>4. CASE \/ \E v \in Viewers : Upgrade(v) \/ Admit(v) \/ ReadNodes(v) \/ Pong(v) \/ Close(v)
           \/ PingRound
  BY <1>4, SocketViews
<1>5. CASE WipeTelemetry \/ \E U \in Deletions : DestroyNodes(U) \/ DeleteAccounts(U)
  <2>1. CASE WipeTelemetry
    BY <2>1 DEF WipeTelemetry, Views, Alone, Mixed, Phases, Informed, Told, Right, Concerned
  <2>2. ASSUME NEW U, DestroyNodes(U) \/ DeleteAccounts(U) PROVE Views'
    BY <2>2, NodesGoViews DEF DestroyNodes, DeleteAccounts
  <2> QED
    BY <1>5, <2>1, <2>2
<1>6. CASE UNCHANGED vars
  BY <1>6 DEF vars, Views, Alone, Mixed, Phases, Informed, Told, Right, Concerned
<1> QED
  BY <1>1, <1>2, <1>3, <1>4, <1>5, <1>6 DEF Next

\* In every reachable state a handler that works on a node alone knows it, and
\* viewers were told of it or will be.
THEOREM ViewsInvariant == Spec => []Views
BY InitIInv, StepIInv, InitViews, StepViews, PTL DEF Spec

(* What the admin and the owner of a node know of it is the node as it is, *)
(* once no change of it is under way, if the last change that was          *)
(* announced overlapped no other and the node did not go with its account: *)
(* every handler announces what it did.                                    *)
THEOREM StreamIsCurrent == Spec => []ViewersAreCurrent
<1>1. Views => ViewersAreCurrent
  <2> SUFFICES ASSUME Views, NEW v \in Viewers, NEW n \in Nodes \ (muddled \cup vanished),
                      Concerned(v, n), Settled(n)
               PROVE  Right(v, n)
    BY DEF ViewersAreCurrent, Current, Concerned, Right
  <2>1. ASSUME NEW r \in Requests, Owes(req[r]) PROVE req[r].node # n
    BY <2>1 DEF Views, Phases, Phase, Owes, Settled, Writing, Busy, Writes
  <2> QED
    BY <2>1 DEF Views, Told
<1> QED
  BY <1>1, ViewsInvariant, PTL
=============================================================================
