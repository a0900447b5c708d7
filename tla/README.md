# A TLA+ model of the sovereign mesh

The repository is a mesh VPN and proxy: Go packages under `pkg/` and binaries
under `cmd/`, and a Node.js console under `console/`.  This directory holds
TLA+ modules of its stateful core, TLC configurations that check them on small
instances, and TLAPS proofs about the parts everything else rests on.

    tlc -workers 2 -config MCSessionRatchet.cfg MCSessionRatchet
    tlapm TransportProofs.tla

`PROJECT.json` lists the runs, the source lines every definition stands for,
the hazards the properties are aimed at, a mutation of the code that breaks
each property, and the theorems.

## 1. The system

| Component | State | Operations | What is hard about it |
|---|---|---|---|
| Transport session, `pkg/crypto` | send and receive keys of the active and the previous handshake, send counter, replay window per half, closed flag | EncryptPacket, DecryptPacket, RotateKeys, Close | threads decrypt under a shared read lock and test the window twice with the AEAD in between; late frames of the previous keys; word-wise shift of a 1024 bit bitmap |
| Control plane, `pkg/control` | node records, address pool, epochs | register, heartbeat, discover, circuit, sync | a handler takes one lock after the other, other handlers run in between; records are shared by pointer |
| Posture engine, `pkg/posture` | posture policies, quarantine | EvaluateAttestation, UpsertPolicy, DeletePolicy | verdicts on copied policies |
| Routing engine, `pkg/routing` | candidates | AddCandidate, BuildOnionCircuit | candidates outlive registrations |
| Access policy, `pkg/acl` and the loop of `cmd/sovereign-node` | groups, policies, epoch; per node its table, the loop's epoch, connection tracking | writes of the management API, AssignPeerToGroup, CompilePolicyForPeer, UpdatePolicy | compilation calls back into the registry and, re-entrantly, into the policy engine; the epoch is read apart from the table |
| DERP relay, `pkg/derp` | table of sessions by public key | Connect, SendTo, handleWebSocket, RouteForward | connections break unnoticed and are replaced; look-up and send are separate; a full connection blocks its writers |
| Security daemon, `cmd/sovereign-security-daemon` | token buckets, scores, bans, alerts, worker pool | handleConnection, tidying, Stop | goroutines outlive the wait group; alerts race with the closing of their queue |
| Management API, `pkg/management` | event ring | CRUD on all of the above | every request is a goroutine |
| Subnet routes, `pkg/routes` | routes, epoch | upsert, failover, longest prefix match | failover between routing peers |
| Multipath, `pkg/routing/multipath.go` | path metrics and health | probe results, selection | hysteresis |
| NAT traversal, `pkg/nat` | candidate pairs, STUN transactions | gather, check, nominate | timeouts, retries, role conflicts |
| Configuration, `pkg/config` | current and previous configuration | load, apply, roll back | a failure half way through |
| eBPF, `pkg/ebpf`; bridge, `pkg/bridge` | simulated maps; egress accounting | packet paths | little shared state |
| Console accounts, `routes/auth.js`, `users.js`, `middleware/auth.js`, `db/valkey.js` | users, signed tokens, a map of revoked tokens per replica, the revoked tokens of Valkey | register, login, refresh, me, logout, passwords, CRUD on accounts | a handler awaits bcrypt, queries and Valkey between what it reads and what it does; replicas restart and lose Valkey |
| Console nuke engine and canary, `services/NukeEngine.js`, `CanaryService.js` | schedules, dead man's switches, maps of the process, canaries | destruction, schedules, switches, heartbeats, the global wipe, the sweep | deletes table after table without a transaction, writes its maps after awaits |
| Console nodes, `routes/nodes.js`, `configs.js`, `RiskEngine.js`, `ws/` | nodes, telemetry, WebSockets | enrolment, actions, deletion, telemetry, attestation, the topology stream | addresses are picked from rows read before; events follow the change they announce |
| Console resources, `routes/apps.js`, `nerodrop.js`, `PeeringEngine.js`, `WebRtcSignalingEngine.js`, `PolicyEngine.js` | apps and links, transfers, agreements, cloud PCs and domains, country policies | CRUD, sharing, verification, acceptance | cascades of deletions; look-up and write in separate queries |
| Console frontend: session, `AuthContext.jsx` | token in localStorage, token and user per tab | verify, login, logout, refreshUser | answers come after the state they were asked in is over |
| Console frontend: pages, `services/api.js` and components | arrays of the browser, what a page shows | list, add, change, remove | each method falls back to the browser's arrays when the server gives no answer; handlers overlap |
| Console statistics and health, mock data, rendering; website, Terraform, Kubernetes, Helm, scripts | none that changes | | not modelled |

How they interact: a node registers with the control plane over HTTP; the
handler calls the address pool, the registry, the policy engine and the routing
engine in turn.  Every 15 seconds the node's loop sends a heartbeat with a
posture attestation, and fetches a new ACL table when the answer shows a newer
epoch.  The management API changes the same engines.  Nodes exchange sealed
frames directly or through the DERP relay; sessions neither know nor trust the
path.  The security daemon stands alone.

The console is a world of its own: a React client calls the routes of one or
several Express processes, those share a PostgreSQL (or SQLite) database and a
Valkey, and push topology events to WebSockets.  Node.js runs one callback at a
time, so a handler is atomic between two awaits, and every await of a query, of
Valkey or of bcrypt is where other requests run.  No handler opens a
transaction.  The client keeps its token in localStorage, which the tabs of a
browser share, and its lists in React state.

What makes each component correct:

* **Session**: a plaintext comes out at most once and only if the peer sealed
  it; no frame inside the window is dropped as a replay; no key that is in use
  is wiped.
* **Control plane**: an address is an identity for good; records carry the
  address their node was told; replies offer no node that was unfit throughout
  the request; discovery settles on the compliant nodes.
* **Access policy**: a table is one state of the engine; the two ends of a
  connection agree; a node does not go back to an older table.
* **Relay**: no dead session stays registered; packets keep their order and are
  never duplicated; connecting returns; the relay drains.
* **Security daemon**: admissions keep the rate of both buckets; verdicts
  follow the decayed score; a crossing is punished; alerts are rationed; Stop
  returns.
* **Console accounts**: a logout that was stored holds at every replica that can
  ask; who is barred signs in no more; a tab that has logged out stays so.
* **Nuke engine**: a destruction that was answered leaves nothing behind, a
  cancelled schedule destroys nobody.
* **Console nodes**: the address a node was enrolled with is nobody else's while
  the node is there; the stream leaves its viewers with the nodes as they are.
* **Console resources**: links keep their limits whatever is deleted around
  them; no row outlives what it refers to; an answered policy applies.
* **Pages**: once nothing is under way, a page shows the rows of the store it
  was filled from.

Where the code falls short of one of these, section 3 says so under *What the
code does not do*.

## 2. The modules

| Module | Stands for |
|---|---|
| `AntiReplayFilter` | abstract: a filter with unbounded memory |
| `AntiReplayWindow` | `replay.go` as a highest counter and a set of offsets |
| `AntiReplayWords` | `replay.go` as words and bits; implements `AntiReplayFilter` |
| `AtMostOnceChannel` | abstract: what a session promises the code above it |
| `SessionRatchet` | `ratchet.go` on both peers, the network; uses `AntiReplayWindow`, implements `AtMostOnceChannel` |
| `ControlPlane` | `pkg/control` with `pkg/posture` and `pkg/routing` |
| `PolicyRegister` | abstract: what a node is promised about the policy it reads |
| `PolicySync` | `pkg/acl/engine.go`, the handlers that call it, the node's loop; implements `PolicyRegister` |
| `PacketService` | abstract: the datagram service the relay is to its clients |
| `DerpRelay` | `pkg/derp`, clients and server; implements `PacketService` |
| `SecurityDaemon` | `cmd/sovereign-security-daemon` |
| `ConsoleAuth` | accounts, tokens and revocation of the console, several replicas |
| `ConsoleBrowser` | the tabs of a browser and other clients, over `ConsoleAuth` |
| `ConsoleNuke` | nuke engine over PostgreSQL, canary and the panel that drives them |
| `ConsoleFleet` | nodes, addresses, risk, attestation, deletions of accounts, the topology stream |
| `ConsoleResources` | apps, links, transfers, peering, cloud PCs, country policies over SQLite, with the nuke engine's deletions there |
| `ConsoleClient` | the pages of the frontend over the server or the browser's own arrays, which some of them hold |
| `TransportProofs` (window, words, session, relay), `ControlPlaneProofs`, `PolicySyncProofs`, `SecurityDaemonProofs`, `ConsoleBrowserProofs` (with `ConsoleAuth`), `ConsoleNukeProofs`, `ConsoleFleetProofs`, `ConsoleRowsProofs` (`ConsoleClient` and `ConsoleResources`) | the proofs |
| `MC*` | instances for TLC |

State variables keep the names of the fields they model, actions those of the
functions (in the console, those of the functions or of the queries in them).
An action is one critical section of the code, or what a goroutine or a handler
does between two of them, or between two awaits; where a function takes several
locks in turn it is several actions joined by a `pc` (in `ControlPlane`,
`PolicySync`), by a place (`DerpRelay`'s `server` and `routing`,
`SecurityDaemon`'s `conn[c].at`, the `req[r].pc` of the console modules) or by
what a thread holds (`decrypting` in `SessionRatchet`).  Operators marked
*Variant* are mistakes one could make in the code; no specification uses them,
each exists to see that the property it is paired with in `PROJECT.json` notices
it.

**Session.**  A generation is a pair of halves from one handshake; the
handshake itself is reduced to its outcome, with the responder ahead of the
initiator and possibly alone.  `net` holds every frame ever sealed, so the
network repeats, reorders and loses; `Arrive` also damages, which may change
the counter.  `BeginDecrypt` is DecryptPacket up to the AEAD, `FinishDecrypt`
and `RefuseDecrypt` the rest; the thread holds the read lock in between, so
EncryptPacket, RotateKeys and Close wait for `Readers(p) = {}`.  A half is
installed once, as the callers do it.  The AEAD is an assumption: it opens what the
peer sealed, under a key not yet wiped, and nothing else.

**Words.**  A word is the set of its one bits, so `<<` and `>>` are images of
sets cut to the word.  `WordsImplementWindow` states that a shift word by word with
carries is the shift of offsets that `SessionRatchet` uses.

**Control plane.**  A node is known by its key.  The attestation in a heartbeat
names a node of its own (`server.go:409`); it is taken to be the node that
reports, as in every heartbeat of `cmd/sovereign-node`.  Roles are the sets `Exits` and
`Relays`, a posture policy is the check it demands, `Fails` says which checks a
host does not meet.  `record[n]` numbers the record so that a write through an
old pointer can be told from one to the current record.  RevokeKey,
IsKeyRevoked, CheckStaleNodes, RemoveCandidate, RemovePeerFromGroup and Release
are called by no component and are no actions.

**Policy.**  The RWMutex is modelled with Go's rule that a waiting writer keeps
new readers out.  A table is the set of directions and peers it opens.
`PolicyRegister` knows neither the lock nor the handlers: nodes read what the
policy opens for them, peer by peer, and use it later or not at all.  A state of
`PolicySync` stands for the register's with `opens[n]` the entries the engine
would compile now, `found[n]` and `missed[n]` what a compilation of `n` has
collected and left out, `ready[n]` the table in the reply.

**Relay.**  A connection is two bounded queues; a break cuts both at any point
and each side learns of it later.  A write blocks on a full queue, fails on a
closed session, and on a broken connection fails or is lost.  `PacketService` has
no connections, queues or sessions, only the set of packets under way; for it
`UnderWay` gathers what is in the queues of either direction and in the hand of
a handler that routes.

**Security daemon.**  Time is in ticks; refill and decay are whole numbers of
tokens and of half-lives per tick, so the floating point of the code is exact
in the model.  The firewall is the in-memory driver, the default.

**Console accounts.**  A token is its number; `memory[p]` and `valkey` give the
time until which it is revoked.  A request carries what its handler has read
(`row`) from one step to the next.  `late` marks a request sent after the event
a property is about.  Two branches of the code are dead under the schema it
runs on and are left out: the row that logout writes into `refresh_tokens` does
not fit its column, and no column holds the root, stealth and nuclear passwords.
`ConsoleBrowser` adds the tabs: two request slots each, one for the session and
one for whatever else the tab calls, and one storage they share.

**Nuke engine.**  The engine has a branch for each database.  `ConsoleNuke` is
the one over PostgreSQL: every query is awaited, and the schema cascades from an
account to what it owns.  (The SQLite branch deletes in one go and with the
foreign keys off; it is in `ConsoleResources`.)  `personal` and `owner` are the
rows of `dead_man_switch`, `memSwitch` and `memOwner` the maps beside them, for
one process: with several, each has maps of its own.  People register
(`Register`) and nodes are enrolled between any two queries of a destruction or a
wipe; a registration draws a new id, so `unused` only shrinks.  `LookupCanary` and
`PublishCanary` end at their awaits and `CacheCanary` is what follows them, so a
canary may be cached as active that a wipe has retired since.  With two nodes
the update that overwrites their keys breaks UNIQUE, the rest of the
destruction is skipped and the answer is success all the same; the model does
that too, and `WipeLeavesNothing` speaks of the answers that are not of this
kind.  What it says of a global wipe is about the accounts the wipe found in the
table of users: who registers after that query stays.  The panel calls four
routes that the server does not have, and its methods report success: such a
cancellation is a step of the panel alone.  `CancelledMeansSpared` is about
cancellations that reach the engine before a sweep has found the account.

**Nodes.**  An address is an offset; both addresses of a row stem from one
offset until a quarantine moves the IPv4 one.  The address of a node that was
deleted is handed out again.  The registration of Go nodes always fails (it
names a column that is not there), so the Go plane is left with its heartbeats.
A viewer opens the socket (`Upgrade`, `Admit`), which tells it of no node, and
reads the list (`ReadNodes`) at any moment after that; what the stream has said
of a node stands before what the list says.  `muddled` collects the nodes two
requests changed at the same time: events are built from rows read in between,
and for those nodes the last event may not be the last state, until one changes
the node alone.  `vanished` collects the nodes that went with their account,
by `DELETE /users/:id`, a nuke or a wipe, none of which sends an event about a
node.  An event reaches the sockets of the process that published it: that
RiskEngine.js:314 and 444 also publish with a channel name in the place of the
event changes nothing, as `broadcastNodeEvent` follows.  The shipped frontend
opens no socket; the viewers are clients that do.

**Resources.**  The SQLite calls are synchronous, so most handlers are one step.
The five areas share accounts and nodes only; a behaviour works in one of them,
chosen in `Init`, beside the deletions that reach into all: of a node, of an
account (`DeleteAccount`, with cascades), the destruction of an account by the
nuke engine (`DestroyAccount`) and the global wipe (`WipeAll`), both with the
foreign keys off.  A destruction deletes from a list of tables; what it leaves
behind refers to accounts, nodes and apps in `adrift`, and `RowsOK` names which
rows these may be.  With two nodes it does nothing, for the same reason as on
PostgreSQL.  All accounts of an instance are there from the start.

**Pages.**  A behaviour is about one page, opened again whenever nothing is
under way.  A handler is a call with its steps: the server acts, the answer
arrives or is lost, the method settles on the server's rows or on the browser's,
the page is set, the list is asked for again.  The tables `Offered` and `Routes`
say what each page can do and which of its requests the server has a route for.
Several lists are the browser's own array and not a copy (`Aliased`): then the
page's state is that array (`held`), a change made to it is in the page at once,
and React draws the page (`shown`) only for another array, for a handler that
also sets something else (`Closes`), or when anything else has it drawn
(`Render`).  Removing a row makes a new array, and whoever holds the old one
keeps it (`Parts`).  The list of nodes is that of `NodeMatrix.jsx`, which loads
on mount and on a change of the role only; the drawer and the modal that change
nodes are over it and do not reload it.  Left out: rows that two arrays share,
the rows a role does not see, and handlers that end after their page was closed.

## 3. The runs

| Run | States | Shows |
|---|---|---|
| `session` | 0.6 M | every frame opened at most once, no false replay, windows that remember exactly the deliveries, no key in use wiped; refinement of `AtMostOnceChannel` |
| `words` | small | word shifts, exact verdicts; refinement of `AntiReplayFilter` |
| `control` | 1.2 M | addresses, records, fit offers under two interleaved requests |
| `control_live` | 0.2 M | discovery settles |
| `policy` | 0.4 M | one state per table, agreeing ends, no regress; refinement of `PolicyRegister` |
| `relay` | 0.1 M | no ghosts, order, Connect returns, the relay drains; refinement of `PacketService` |
| `daemon` | 0.3 M | rate, verdicts that follow the decayed probes, also when one was tidied away, punishment, alerts, Stop returns |
| `browser` | 1.9 M | revoked tokens and barred accounts are refused, a logout is final |
| `nuke` | 1.8 M | destruction and wipe are complete while others register, enrol, arm and sweep; a schedule cancelled in time is void, with sweeps and cancellations at once |
| `fleet` | 1.0 M | the address of enrolment stays reserved; a stream that is current |
| `resources` | 0.9 M | foreign keys hold but for what a destruction leaves, links keep their limits, answers apply |
| `client` | 1.6 M | pages show their store, but for two named differences |

The types of `SessionRatchet`, `AntiReplayWords`, `ControlPlane`, `PolicySync`,
`ConsoleClient` and `DerpRelay` are proved for all instances and so not run.

**What the code does not do.**  In five places a document or a comment says more
than the code does.  The models do what the code does, and the properties are
stated so that they hold of it:

* "Executes immediate, irreversible destruction of a single user account and all
  owned assets" (NukeEngine.js:145).  All nodes of the account get one public key
  (line 162), which is UNIQUE: with two nodes the statement fails, the deletions
  are skipped, the answer is success.  `OverwriteNodes` in `ConsoleNuke` has this,
  and `WipeLeavesNothing` is about the other answers.
* The same comment, on SQLite: with the foreign keys off (line 188) the custom
  domains and the peering agreements of the account stay, because they are in no
  DELETE of the branch.  `DestroyAccount` in `ConsoleResources` has this, `RowsOK`
  says which rows may be left so.
* "If the DMS triggers, canary updates cease immediately"
  (docs/CONSOLE_ARCHITECTURE.md:137).  The wipe retires all canaries, and the next
  request for one has a fresh one signed and published (CanaryService.js:245):
  `RecallCanary` goes on to `PublishCanary`.
* "When an administrative action or automated engine alters mesh state [...] all
  connected web browsers and client applications [...] must receive immediate
  notification" (docs/HA_ARCHITECTURE.md:71).  Nodes that go with their account go
  silently (users.js:291, NukeEngine.js:183): `NodesGo` in `ConsoleFleet`.
  `ViewersAreCurrent` leaves them out (`vanished`).
* "The React frontend receives the WebSocket message and instantly updates the 3D
  topology graph, node matrix, and dashboard gauges" (docs/HA_ARCHITECTURE.md:78).
  The frontend opens no socket, and the node matrix loads on mount and on a change
  of the role (NodeMatrix.jsx:51).  In `ConsoleClient` a change of a node has no
  list after it, and `PagesShowTheirStore` asks nothing of the page until the next.

In other places the properties do not speak of, the models follow the code as
well: a node's loop can believe its table newer than it is; a compilation can
block on a writer that waits for it; a reconnected peer can lose its session to
its old connection; used rate-limit buckets are never tidied away; an alert can
meet the closed queue; nobody calls the sweep of expired switches; a canary that
was retired can be cached as active; a page shows a transfer twice and an
accepted agreement as pending.  They are listed among the hazards with what the
properties do cover there.

**Bounds.**  `session`: three generations are what a half needs to go from
active over previous to wiped while its frames are under way, two threads are a
race, window of two with words of one exercises duplicates, gaps and falling
out of the window; only one direction is followed, the other is symmetric.  One
tick with a grace period of zero makes both sides of the grace period happen.
`words`: three words of three bits, counters to 14: every length of shift,
including more than a window.  `control`: three nodes are the smallest circuit,
two handlers a race, three registrations allow a node to come back after its
deletion; the pool has an address for each node.  `control_live` drops the
relay node and allows two policy changes, so that a verdict can be outdated and the last
one be strict or lenient, and shrinks the pool to two.
`policy`: two nodes, two groups, one directional and one bidirectional rule,
epochs to 5, which is every assignment of the two nodes and a write of an
administrator, or more writes before a node registers.  The syncs of one node
are followed: nodes share nothing but the lock, and further readers add nothing
to a writer and a reader.  `relay`: one
peer on a stable connection, the other on one that breaks and on its successor;
two packets show order and duplication; connections hold two frames, so writers
do block.  `daemon`: an address that probes and a whitelisted one of its
subnet, three connections in three ticks over buckets of two
tokens (an address's gets one back in a tick, the shared subnet's more than it
holds, so its capacity cuts the refill), a threshold just above one probe, a queue of one.
A tick is three half-lives: what is left of a probe still takes one in the next
tick over the threshold, and may have been tidied away a tick later.
`browser`: two replicas are the least that can disagree about a token, four
tokens are two logins, or a login and its refreshes; the tab, the background
call and one request of another client are three parties; one restart or lost
connection to Valkey, and one tick, after which an access token and its
revocation end.  Replicas are symmetric.
`nuke`: the panel belongs to an administrator with two nodes, to a user with an app, or to one who only schedules and cancels, and that makes the scene (`Offered`, by
panel and slot).  Beside the first two panels one request at a time wipes, sweeps,
unlocks or asks for the canary, with a newcomer and the things of all; beside the
third there are two, so that a sweep that has found an account due runs against a
cancellation and a new schedule of it, and nothing else is there (`Scene`).  Two ticks, so
that a switch set at first is overdue at the end.  `fleet`: two nodes, three
addresses, so that an enrolment can skip one that is taken and one that was left; a
quarantine subnet of one, so that it runs out; an agent and an operator, each on
calls of its own.  Its `Scene` has either one node, whose owner may watch while two
requests change it and its account is deleted, or both nodes, nobody who watches,
and the requests that addresses hang on (enrolment, telemetry, attestation, deletion):
what a viewer knows is kept for each node separately, and administrators hear what
owners hear.  The role that `set_exit` gives is no part of the model and the
operation is not called here, nor are the requests that only read or beat; the
proofs have them.
`resources`: two accounts, one of them administrator, ids enough for two of
what is limited by the other, two handlers on one country, which race.  `client`:
all eight pages, two rows, two handlers and one change by others.

**Fairness.**  Goroutines that can run do run (weak fairness).  Beyond that:
`control_live` assumes that a registered node keeps sending heartbeats with an
attestation, as the loop in `cmd/sovereign-node` does.  The server starts a
goroutine per request and never turns one away, while the model has a fixed
number of handlers; strong fairness of the heartbeat undoes what that bound
would take away.  `relay` assumes that clients read; nothing makes a broken
connection be noticed, because the relay sets no read deadline, so no fairness
is assumed of that.  `daemon` assumes that a request to the webhook ends, which the
client's timeout and the pool's context give.

The console's properties are about safety, and no fairness is assumed of it.

Deadlock is not checked where a run may end: all sessions closed, all connections
gone, the daemon stopped, the bounds used up.

## 4. The proofs

Everything below is proved for every value of the constants that satisfies the
named `ASSUME`s of the modules.  They ask for: a window and a word of at least
one bit, a window of whole words, two different peers (`WindowAssumption`,
`WordsAssumption`, `SessionAssumption`, `NoneAssumption`); finitely many nodes,
roles that are sets of them, a pool of some size (`ControlPlaneAssumption`);
rules over the groups there are (`PolicyAssumption`); rates, capacities and delays
that are natural numbers (`SecurityDaemonAssumption`); a revocation that is kept
no shorter than an access token lives, as `signToken` and logout's TTL have it
(`TimesAssumption`), the CHECK of the status column (`StatusAssumption`), request
slots that tabs do not share (`SlotsAssumption`), a finite number of slots and a longest
heartbeat interval (`NukeAssumption`), finitely many countries and handlers and more ids
than these use up (`ResourcesAssumption`); and that sizes are numbers and
names that stand for nothing name nothing (the rest).  The numbers of threads,
handlers, connections, requests, nodes, accounts, rows and tokens are arbitrary.

* `TransportProofs`, in four parts.  *One call on a window.*  `AddRemembers`: if
  `w` remembers exactly the counters `acc` and accepts `s`, then `s` is new and the
  window after CheckAndAdd remembers exactly `acc` and `s`.  `CheckIsExact`: the
  verdict is a function of `acc` alone.  *The words.*  `ShiftMovesBits`, from the
  uniqueness of quotient and remainder: moving words and then carrying bits takes
  bit `d` to `d + n` and drops it at the top.  From it `StepCommutes` (a call on
  words is a call on offsets), `WordsTypes`, `WordsAreAWindow`; with the first part
  `WordsInvariant`, and from that `WordsVerdictIsExact` and `WordsImplementFilter`.
  *The session.*  The properties are not inductive alone: that a delivery is the
  first of its frame needs `WindowMatchesDeliveries` (a counter the window lets
  through was not delivered), that only sealed frames come out needs
  `NetworkIsPast` (what a thread holds intact is in the network, and network
  counters lie behind the sender's, which is also why sealing makes a new frame).
  `IInv` is their conjunction with the types and `DeliveredOnce`.  From
  `SessionInvariant` follow `SessionTypes`, `WindowsMatch`, `FreshFramesPass` and
  `SessionImplementsChannel`.  `KeysIntact` has its own invariant `KInv`, which
  adds that a manager never holds the same half twice.  *The relay*: `RelayTypes`
  and `NoGhosts`.  Every session in the table belongs to a handler that has yet to
  unregister it, because only that handler puts it there, and it or a successor
  takes it out.  The types need more: what a connection holds before it was
  registered (`Undialed`, `Greeting`), and that nothing is routed to one that was
  not (`RoutesAreOpen`).  `RelayOrder`: the packets of one sender that are on their
  way are split by where they are: with the client, in its queue, in the hand of
  the handler that routes, in the queue of the receiver, delivered.  `Ordered`
  says that each part is ascending and lies before the next (`Queues`,
  `Outgoing`, `InHand`, `Incoming`).  `FewerOrdered`: losing packets at a break
  keeps it.  `RelayIsService`: every step of the relay sends one packet, hands one
  over, loses some, or changes nothing for the clients.  That a packet which was
  handed over is not under way a second time needs `Apart`: what is in the queue
  of one receiver is in no other's, though a key has several connections in turn.
* `ControlPlaneProofs` — `ControlPlaneInvariant`, and from it `ControlPlaneTypes`,
  `AddressesIdentify`, `RecordsCarry` and `OffersFit`.  An address is handed from
  the pool to a handler, from there to the node and into its record, with other
  handlers in between.  `Pool`: each offset is given to one node, below
  `nextOffset`.  `Promised`, `Told`, `Recorded`: at each of the three places it
  is still what the pool holds for that node.  `OffersFit`
  is about a handler that looks at one node after the other: `Barred` (what was
  unfit since the request came is in quarantine still), `Looked` and `Listed` (what
  it has answered so far, and what is left of its list, is not of these).
* `PolicySyncProofs` — `PolicyInvariant`, and from it `PolicyTypes`,
  `CompilationsAreConsistent`, `TablesMoveOn`, `TwoEndsAgree` and
  `SyncIsRegister`.  `Waiting` and the lock: who changes groups or rules does it when nobody compiles, so that
  what a compilation has collected (`Collected`) is still a function of the state
  it was collected in.  `Ages`: a table on its way is no older than the installed
  one and no newer than the engine.  `TwoEndsAgree` needs no history: it follows, for every
  grouping of nodes and every mix of rules, from what a rule opens at its two
  ends (`PeersOfRules`).  `SyncIsRegister`: a lookup of a peer is a `LookUp`, the end
  of a compilation a `Read` of one moment, because `Collected` holds until then;
  an assignment is a `Change` or, for a node that is in the group, nothing.
  `Fresh` is what the step to `Install` needs besides `Ages`.
* `SecurityDaemonProofs` — `DaemonInvariant`, and from it `DaemonTypes`,
  `LimiterKeepsRate`, `VerdictsFollow`, `CrossingsPunished` and
  `AlertsKeepTheWindow`.  The property
  of the limiter is about every span of time, a bucket knows only its last
  refill.  `Spent` is what connects them: what was let through since any
  moment, plus what the bucket holds, is at most the capacity plus the refill from
  that moment to the last one.  It survives a refill that the capacity cuts, and
  a bucket that tidying removed counts as one filled now.  `Journeys` says what a
  connection has behind it at each place.  `VerdictsFollow` compares a running score
  with a sum over probes that decay by a closed form, seen from each probe's tick.
  Both are counted in what a point of the first tick is worth (`Worth`), so that
  time changes neither: `Tally` says that a score is no more than the mass of the
  probes of its address and, as tidying gives up less than one point and that
  point had decayed by half before the next one can be given up, less than two
  points short of it; `Verdict` keeps what that meant when a probe was recorded.
  `WeightIsMass` is about the fold itself.  Induction over data is out of the provers' reach
  in the library's usual form, but not by a smallest counterexample: the subsets
  of a finite set are well-founded under inclusion, so if the fold were wrong
  there would be a smallest set for which it is (`SmallestSubset`).  The laws of
  powers come from counting subsets (`PowerIsCount`, `PowerOfSum`).
* `ConsoleBrowserProofs`, with `ConsoleAuth` — `BrowserInvariant`, and from it
  `ConsoleTypes`, `RevokedTokensRefused`, `BarredAccountsStayOut` and `LogoutHolds`.
  The properties speak of the answer to a request that came late, some steps
  before.  `Lateness`: such a request is on a way that ends in a refusal: it has
  yet to ask Valkey, or was let through with a token that has expired, or holds a
  row that bars it.  The second case needs `Revocations` (a revocation in Valkey
  outlives its token), that in turn `Lifetimes` and, in `Fits`, that a logout has
  passed the middleware with an access token.  `Owned` and `Away` carry this over
  to the tabs: the answers a tab acts on are to what it asked, and who has logged
  out waits for none.
* `ConsoleFleetProofs` — `FleetInvariant`, and from it `FleetTypes` and
  `FirstAddressStaysReserved`.  The property alone is not inductive, because
  telemetry writes an IPv4 address it read some queries earlier.  `OwnOffsets`:
  the UNIQUE column keeps IPv6 offsets apart.  `AtHome`: an IPv4 address is its
  row's own offset or of the quarantine subnet.  `Stale`: what telemetry holds
  is such an address of the row it is about, which may vanish meanwhile but not
  be replaced by another.  `Exclusive`, why not: nobody else works on a node
  that is being enrolled.  `Steps` says what a request carries at each step.
  `ViewsInvariant`, and from it `StreamIsCurrent`: a node that requests did not
  change at the same time has one handler at most that writes it (`Alone`), which
  knows its row as it is (`Informed`), and what a viewer was told of it last is
  its row, or that handler has yet to tell (`Told`).  A deletion of accounts puts
  the nodes it takes among `vanished`, and among `muddled` those a handler works
  on; the list a viewer reads is the rows of that moment.
* `ConsoleNukeProofs` — `NukeInvariant`, and from it `NukeTypes`,
  `WipesLeaveNothing` and `SparedForGood`.  A destruction runs query by query and
  people register, nodes are enrolled, apps created and switches armed in between;
  that nothing of the account is left when it is answered does not follow from the
  deletions before the last one, but from `Keys`: what there is has an account, so
  that what appeared meanwhile falls with the account.  `End`: a request past the
  query that deletes accounts knows them gone, and they do not come back, because
  who registers has an id nobody had (`Alive` only shrinks).
  `Safe`: no request under way threatens who was spared; it is no schedule for
  that account and no sweep that has found it due (`Threatens`), which is what a
  cancellation in time saw (`InTime`), and who has no date is found by no sweep.
  `Canaries`: what is active and what is about to be published are at most the
  requests there are.  One lemma per query, then `ServeKeeps`, `PanelKeeps`,
  `OtherClientKeeps` and `NukeStep`.
* `ConsoleRowsProofs`, in two parts.  *The pages*: `PagesShow`, with any number of
  handlers on any page.  The property speaks of a page at rest; the invariant
  `Sound` says what each handler under way still owes it.  `OneAtATime`: without
  `overlapped`, at most one handler is busy.  `Settling`: what a handler carries
  fits its operation.  `LiveByRoute`: a live answer came over a route there is.
  `RowsHeld`: the rows a handler carries are its store's now, as long as no other
  handler can have changed them.  `HeldArray`: when the page's state is the
  browser's array, and that one row at most is there twice.  `Drawn`: what is
  drawn is that state, but for rows changed in place.  `LocalPending` and
  `LivePending`: the page is current, or a handler that will make it so is under
  way.  *The resources*: `ResourcesInvariant`, and from it `KeysHold`, `LinksEnd` and
  `LastAnswersApply`.  `AppRows`: the uses of a link are all its openings, and one
  that is over stays shut, also when its app went and it did not.  `CascadeKeeps`:
  a deletion takes along what refers to what it deletes.  `Adrift`: what a
  destruction leaves behind refers to what is gone for good.
  `Overlaps`: the policy a handler found is the country's still,
  unless a deletion overlapped its request.  `AnIdIsFree`: fewer ids are in use
  than there are, by counting, so that a new policy never takes the id of another.

Only model-checked: liveness (`DiscoverySettles`, `ConnectReturns`, `RelayDrains`,
`StopReturns`), which under fairness, and with it ENABLED, is out of the provers'
reach.

## 5. Not modelled

The primitives of `pkg/crypto` and its wire format (pure functions and library
calls), TLS and decoy pages, parsing and validation of configuration, eBPF maps
(simulated and unconnected), command lines, rendering and mock data of the
frontend, the website and deployment.  Of the console: statistics and health
checks, which only read; chunk lists and hashes of transfers; signatures, hashing
and encryption, which are taken to do what they are for; signalling messages,
which are relayed and kept nowhere; the audit log.  Not yet modelled, see the
plan: connection tracking, subnet routes, the ICE agent, the configuration
manager.  `PROJECT.json` names the reason for each.

## 6. Plan

1. *Done*: the modules and proofs above.
2. *Extend*, in this order: connection tracking (`pkg/acl/netfilter.go`, the
   tracked connections against policy updates and expiry, composed with the
   table of `PolicySync`); subnet routes (`pkg/routes`: longest prefix match
   against a reference definition, failover); the configuration manager (apply
   and roll back, an abstract specification of an atomic register); the ICE agent
   (`pkg/nat`: candidate pairs, retries, nomination); multipath health (no
   flapping within the hold time).
3. *Prove*: every safety property, every action property and every refinement
   that the runs check is proved; what is only model-checked is the liveness
   (`DiscoverySettles`, `ConnectReturns`, `RelayDrains`, `StopReturns`).  What is left
   are the properties of the modules still to be written.
