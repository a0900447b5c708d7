---------------------------- MODULE ConsoleNuke ----------------------------
(***************************************************************************)
(* Self-destruction, dead man's switches, the global wipe and the warrant  *)
(* canary: console/backend/services/NukeEngine.js, CanaryService.js and    *)
(* routes/nuke.js, with the panel of the web client that drives them       *)
(* (NeroNukePanel.jsx, App.jsx, api.nuke of services/api.js).              *)
(*                                                                         *)
(* This is the console over PostgreSQL, whose schema cascades from an      *)
(* account to what it owns.  The SQLite branch of the engine deletes with  *)
(* the foreign keys off and in one go: that deletion, and the rows it      *)
(* leaves behind, are in ConsoleResources.                                 *)
(*                                                                         *)
(* Every query ends a step, and so does the await after it: what the       *)
(* engine then puts into its maps may follow what another request wrote.   *)
(* The maps are those of one console process.  Tokens are those of         *)
(* ConsoleAuth: one that is still valid reaches a handler although its     *)
(* account is gone.                                                        *)
(***************************************************************************)
EXTENDS Integers, FiniteSets

CONSTANTS
  Users, Admin,     \* accounts; the super-admin who owns the global switch
  Newcomers,        \* the accounts that register while the console runs
  Panellists,       \* the accounts a panel is signed in as
  Nodes, Others,    \* nodes, and the other things that accounts own
  OwnerOf,          \* whose they are
  Requests, Mine,   \* slots for requests; the one the panel uses
  Callers,          \* the accounts that call those of an account
  Offered,          \* what is called beside whose panel, in which slot: a bound of a run
  Intervals,        \* heartbeat intervals
  MaxTime

Things == Nodes \cup Others
Ops == {"destroy", "schedule", "cancel", "setup", "heartbeat", "unlock", "ownerSetup",
        "ownerHeartbeat", "wipe", "canary", "sweep"}
ASSUME NukeAssumption ==
  /\ Newcomers \subseteq Users /\ Admin \in Users \ Newcomers /\ Callers \subseteq Users
  /\ Panellists \subseteq Users \ Newcomers /\ Mine \in Requests
  /\ Offered \in [Panellists -> [Requests -> SUBSET Ops]]
  /\ Nodes \cap Others = {} /\ OwnerOf \in [Things -> Users] /\ IsFiniteSet(Requests)
  /\ Intervals \subseteq Nat \ {0} /\ MaxTime \in Nat
  /\ \E i \in Intervals : \A j \in Intervals : i >= j

VARIABLES
  accounts,         \* the ids in users
  unused,           \* ids nobody has had yet: a registration draws a new one
  sched,            \* users.scheduled_deletion_at, 0 for NULL
  things,           \* rows of nodes, app_bundles, cloud_pcs, ...
  personal,         \* dead_man_switch, tier personal_user
  owner,            \* dead_man_switch, tier owner_global
  active,           \* how many rows of warrant_canaries are active
  memSwitch,        \* the intervals in inMemoryDms, 0 for no entry
  memOwner,         \* the interval in inMemoryOwnerDms, 0 before a passphrase is set
  cached,           \* does cachedLatestCanary hold a canary
  req, panel, now,
  spared,           \* history: accounts whose schedule was cancelled in time
  fellTo            \* history: the accounts that fell to their schedule

tables == <<accounts, unused, sched, things, personal, owner, active>>
maps == <<memSwitch, memOwner, cached>>
history == <<spared, fellTo>>
vars == <<tables, maps, req, panel, now, history>>

Latest == MaxTime + CHOOSE i \in Intervals : \A j \in Intervals : i >= j
Switch == [on : BOOLEAN, every : Intervals \cup {0}, due : 0..Latest]
off == [on |-> FALSE, every |-> 0, due |-> 0]

(* Where the handler of an operation meets its first query.                *)
First == [destroy |-> "overwriteNodes", schedule |-> "update", cancel |-> "cancel",
          setup |-> "insert", heartbeat |-> "find", unlock |-> "find",
          ownerSetup |-> "insert", ownerHeartbeat |-> "find", wipe |-> "ping",
          canary |-> "lookup", sweep |-> "owner"]

idle == [pc |-> "idle", op |-> "unlock", user |-> Admin, arg |-> 0, due |-> 0, list |-> {},
         phase |-> "none", answer |-> "none"]
Busy(r) == req[r].pc \notin {"idle", "done"}

TypeOK ==
  /\ accounts \subseteq Users /\ unused \subseteq Users \ accounts
  /\ sched \in [Users -> 0..Latest] /\ things \subseteq Things
  /\ personal \in [Users -> Switch] /\ owner \in Switch /\ active \in 0..Cardinality(Requests)
  /\ memSwitch \in [Users -> Intervals \cup {0}] /\ memOwner \in Intervals \cup {0}
  /\ cached \in BOOLEAN /\ now \in 0..MaxTime
  /\ \A r \in Requests : /\ req[r].op \in Ops /\ req[r].user \in Users
                         /\ req[r].due \in 0..Latest /\ req[r].list \subseteq Users
  /\ panel \in [me : Panellists, pinned : BOOLEAN,
               waits : {"none", "schedule", "destroy", "switch"}, out : BOOLEAN]
  /\ spared \subseteq Users /\ fellTo \subseteq Users

Init ==
  /\ accounts = Users \ Newcomers /\ unused = Newcomers
  /\ sched = [u \in Users |-> 0] /\ things = {}
  /\ personal = [u \in Users |-> off] /\ owner = off
  /\ active = 1 /\ cached = TRUE          \* initCanaryService
  /\ memSwitch = [u \in Users |-> 0] /\ memOwner = 0
  /\ req = [r \in Requests |-> idle] /\ now = 0
  /\ \E u \in Panellists :
       panel = [me |-> u, pinned |-> FALSE, waits |-> "none", out |-> FALSE]
  /\ spared = {} /\ fellTo = {}

Goto(r, pc) == req' = [req EXCEPT ![r].pc = pc]

(* The answers somebody looks at: the panel, and WipeLeavesNothing.        *)
Watched(r) == req[r].op \in {"destroy", "wipe"} \/ (r = Mine /\ panel.waits # "none")
Answer(r, a) ==
  req' = [req EXCEPT ![r] = IF Watched(r)
            THEN [idle EXCEPT !.pc = "done", !.op = req[r].op, !.user = req[r].user,
                              !.list = req[r].list, !.answer = a] ELSE idle]
Owned(u) == {x \in things : OwnerOf[x] = u}

(* Deleting an account takes what it owns along (ON DELETE CASCADE).       *)
DeleteAccounts(gone, why) ==
  /\ accounts' = accounts \ gone
  /\ things' = {x \in things : OwnerOf[x] \notin gone}
  /\ personal' = [u \in Users |-> IF u \in gone THEN off ELSE personal[u]]
  /\ owner' = IF Admin \in gone THEN off ELSE owner
  /\ sched' = [u \in Users |-> IF u \in gone THEN 0 ELSE sched[u]]
  /\ fellTo' = fellTo \cup {u \in gone \cap accounts : why = "schedule"}
-----------------------------------------------------------------------------
(* The routes: what a request must bring, and what it waits for next.      *)
Received(r, op, u, v, due) ==
  /\ req[r].pc = "idle"
  /\ req' = [req EXCEPT ![r] = [idle EXCEPT !.pc = First[op], !.op = op, !.user = u,
                                            !.arg = v, !.due = due]]
  /\ UNCHANGED <<tables, maps, now, fellTo>>
Plain(r, op, u) == Received(r, op, u, 0, 0) /\ UNCHANGED spared

SelfDestruct(r, u) == Plain(r, "destroy", u)
Schedule(r, u) ==               \* the date must lie ahead
  \E t \in (now + 1)..MaxTime : Received(r, "schedule", u, t, t) /\ spared' = spared \ {u}
CancelScheduled(r, u) == Plain(r, "cancel", u)
PersonalSetup(r, u) ==          \* intervals are positive
  \E i \in Intervals : Received(r, "setup", u, i, now + i) /\ UNCHANGED spared
PersonalUnlock(r, u) == Plain(r, "unlock", u)
PersonalHeartbeat(r, u) == Plain(r, "heartbeat", u)
OwnerSetup(r) ==
  \E i \in Intervals : Received(r, "ownerSetup", Admin, i, now + i) /\ UNCHANGED spared
OwnerHeartbeat(r) == Plain(r, "ownerHeartbeat", Admin)
OwnerTrigger(r) == Plain(r, "wipe", Admin)
CanaryText(r) == Plain(r, "canary", Admin)

(* A cancellation is in time when nothing else is about to set a date and  *)
(* no sweep has found the account due.                                     *)
InTime(r) ==
  \A s \in Requests \ {r} : Busy(s) /\ req[s].op \in {"schedule", "sweep"} =>
    req[r].user \notin {req[s].user} \cup req[s].list

(* scheduleUserDestruction.  The map of scheduled kills is left out: only  *)
(* getUserNukeStatus reads it.                                             *)
UpdateSchedule(r) ==
  LET u == req[r].user IN
  /\ req[r].pc = "update"
  /\ sched' = IF u \in accounts THEN [sched EXCEPT ![u] = req[r].due] ELSE sched
  /\ Answer(r, "ok")
  /\ UNCHANGED <<accounts, unused, things, personal, owner, active, maps, panel, now, history>>

\* Variant: forgets the map of scheduled kills only.
ForgetSchedule(r) ==
  LET u == req[r].user IN
  /\ req[r].pc = "cancel"
  /\ spared' = IF u \in accounts /\ InTime(r) THEN spared \cup {u} ELSE spared
  /\ Answer(r, "ok")
  /\ UNCHANGED <<tables, maps, panel, now, fellTo>>

(* cancelScheduledUserDestruction.                                         *)
CancelSchedule(r) ==
  LET u == req[r].user IN
  /\ req[r].pc = "cancel"
  /\ sched' = [sched EXCEPT ![u] = 0]
  /\ spared' = IF u \in accounts /\ InTime(r) THEN spared \cup {u} ELSE spared
  /\ Answer(r, "ok")
  /\ UNCHANGED <<accounts, unused, things, personal, owner, active, maps, panel, now, fellTo>>

(* setupPersonalDMS, setupOwnerDMS: an upsert; without the account its     *)
(* foreign key refuses it, and that error is dropped.                      *)
Armed(r) == [on |-> TRUE, every |-> req[r].arg, due |-> req[r].due]
Stored(r) == req' = [req EXCEPT ![r].pc = "remember", ![r].due = 0]

\* Variant: the table has no foreign key to the accounts.
InsertAnyway(r) ==
  /\ req[r].pc = "insert" /\ req[r].op = "setup"
  /\ personal' = [personal EXCEPT ![req[r].user] = Armed(r)] /\ Stored(r)
  /\ UNCHANGED <<accounts, unused, sched, things, owner, active, maps, panel, now, history>>

InsertPersonal(r) ==
  LET u == req[r].user IN
  /\ req[r].pc = "insert" /\ req[r].op = "setup"
  /\ personal' = IF u \in accounts THEN [personal EXCEPT ![u] = Armed(r)] ELSE personal
  /\ Stored(r)
  /\ UNCHANGED <<accounts, unused, sched, things, owner, active, maps, panel, now, history>>

InsertOwner(r) ==
  /\ req[r].pc = "insert" /\ req[r].op = "ownerSetup"
  /\ owner' = IF Admin \in accounts THEN Armed(r) ELSE owner
  /\ Stored(r)
  /\ UNCHANGED <<accounts, unused, sched, things, personal, active, maps, panel, now, history>>

(* heartbeatPersonalDMS and unlockPersonalDMS look into the map first;     *)
(* heartbeatOwnerDMS looks into the table first.  The owner's passphrase   *)
(* stays in its map after a wipe.                                          *)
KnownPersonal(u) == IF memSwitch[u] # 0 THEN memSwitch[u] ELSE personal[u].every
KnownOwner == IF owner.on THEN owner.every ELSE memOwner
Beat(r, every) ==
  IF every = 0 THEN Answer(r, "refused")
               ELSE req' = [req EXCEPT ![r].pc = "beat", ![r].due = now + every]

FindPersonal(r) ==
  /\ req[r].pc = "find" /\ req[r].op = "heartbeat"
  /\ Beat(r, KnownPersonal(req[r].user))
  /\ UNCHANGED <<tables, maps, panel, now, history>>

FindOwner(r) ==
  /\ req[r].pc = "find" /\ req[r].op = "ownerHeartbeat"
  /\ Beat(r, KnownOwner)
  /\ UNCHANGED <<tables, maps, panel, now, history>>

(* The unlocking of the panel, which arms and disarms nothing.             *)
UnlockSwitch(r) ==
  /\ req[r].pc = "find" /\ req[r].op = "unlock"
  /\ Answer(r, IF KnownPersonal(req[r].user) = 0 THEN "refused" ELSE "ok")
  /\ UNCHANGED <<tables, maps, panel, now, history>>

BeatPersonal(r) ==
  LET u == req[r].user IN
  /\ req[r].pc = "beat" /\ req[r].op = "heartbeat"
  /\ personal' = IF personal[u].on THEN [personal EXCEPT ![u].due = req[r].due] ELSE personal
  /\ Answer(r, "ok")
  /\ UNCHANGED <<accounts, unused, sched, things, owner, active, maps, panel, now, history>>

BeatOwner(r) ==
  /\ req[r].pc = "beat" /\ req[r].op = "ownerHeartbeat"
  /\ owner' = IF owner.on THEN [owner EXCEPT !.due = req[r].due] ELSE owner
  /\ req' = [req EXCEPT ![r].pc = "retire", ![r].due = 0]
  /\ UNCHANGED <<accounts, unused, sched, things, personal, active, maps, panel, now, history>>

(* What the maps keep; the owner's operations then publish a canary.       *)
RememberSwitch(r) ==
  LET u == req[r].user IN
  /\ req[r].pc = "remember"
  /\ IF req[r].op = "setup"
       THEN /\ memSwitch' = [memSwitch EXCEPT ![u] = req[r].arg] /\ UNCHANGED memOwner
            /\ Answer(r, "ok")
       ELSE /\ memOwner' = req[r].arg /\ UNCHANGED memSwitch /\ Goto(r, "retire")
  /\ UNCHANGED <<tables, cached, panel, now, history>>
-----------------------------------------------------------------------------
(* CanaryService: getLatestCanary, generateCanary.  What a query found is  *)
(* kept in memory only after its await: a canary that was retired or       *)
(* deleted meanwhile is then cached as an active one.                      *)
LookupCanary(r) ==
  /\ req[r].pc = "lookup"
  /\ Goto(r, IF active > 0 THEN "keep" ELSE "recall")
  /\ UNCHANGED <<tables, maps, panel, now, history>>

CacheCanary(r) ==
  /\ req[r].pc \in {"keep", "published"}
  /\ cached' = TRUE /\ Answer(r, "ok")
  /\ UNCHANGED <<tables, memSwitch, memOwner, panel, now, history>>

RecallCanary(r) ==
  /\ req[r].pc = "recall"
  /\ IF cached THEN Answer(r, "ok") ELSE Goto(r, "retire")
  /\ UNCHANGED <<tables, maps, panel, now, history>>

\* Variant: the older canaries stay active.
RetireNone(r) ==
  /\ req[r].pc = "retire" /\ Goto(r, "publish")
  /\ UNCHANGED <<tables, maps, panel, now, history>>

RetireCanaries(r) ==
  /\ req[r].pc = "retire"
  /\ active' = 0 /\ Goto(r, "publish")
  /\ UNCHANGED <<accounts, unused, sched, things, personal, owner, maps, panel, now, history>>

PublishCanary(r) ==
  /\ req[r].pc = "publish"
  /\ active' = active + 1 /\ Goto(r, "published")
  /\ UNCHANGED <<accounts, unused, sched, things, personal, owner, maps, panel, now, history>>
-----------------------------------------------------------------------------
(* executeInstantUserDestruction, query by query.  All the nodes of the    *)
(* account get one new public key, which is UNIQUE: with two nodes the     *)
(* update fails, the rest is skipped, and the caller is told of success.   *)
Reason(r) == CASE req[r].op = "destroy" -> "request"
               [] req[r].phase = "personal" -> "switch"
               [] OTHER -> "schedule"

OverwriteNodes(r) ==
  /\ req[r].pc = "overwriteNodes"
  /\ req' = IF Cardinality(Owned(req[r].user) \cap Nodes) > 1
              THEN [req EXCEPT ![r].pc = "clear", ![r].answer = "failed"]
              ELSE [req EXCEPT ![r].pc = "deleteSwitches", ![r].answer = "ok"]
  /\ UNCHANGED <<tables, maps, panel, now, history>>

DeleteSwitches(r) ==
  /\ req[r].pc = "deleteSwitches"
  /\ personal' = [personal EXCEPT ![req[r].user] = off]
  /\ owner' = IF req[r].user = Admin THEN off ELSE owner
  /\ Goto(r, "deleteThings")
  /\ UNCHANGED <<accounts, unused, sched, things, active, maps, panel, now, history>>

(* refresh_tokens, share links, sessions, apps, cloud PCs: then nodes.     *)
DeleteThings(r) ==
  /\ req[r].pc = "deleteThings"
  /\ things' = things \ (Owned(req[r].user) \cap Others) /\ Goto(r, "deleteNodes")
  /\ UNCHANGED <<accounts, unused, sched, personal, owner, active, maps, panel, now, history>>

DeleteNodes(r) ==
  /\ req[r].pc = "deleteNodes"
  /\ things' = things \ (Owned(req[r].user) \cap Nodes) /\ Goto(r, "deleteUser")
  /\ UNCHANGED <<accounts, unused, sched, personal, owner, active, maps, panel, now, history>>

DeleteUser(r) ==
  /\ req[r].pc = "deleteUser"
  /\ DeleteAccounts({req[r].user}, Reason(r)) /\ Goto(r, "clear")
  /\ UNCHANGED <<unused, active, maps, panel, now, spared>>

(* The end of a destruction; a sweep goes on with the next account.        *)
ClearMaps(r) ==
  /\ req[r].pc = "clear"
  /\ memSwitch' = [memSwitch EXCEPT ![req[r].user] = 0]
  /\ IF req[r].op = "destroy"
       THEN Answer(r, req[r].answer)
       ELSE req' = [req EXCEPT ![r] = [idle EXCEPT !.pc = "next", !.op = "sweep",
                      !.phase = req[r].phase, !.list = req[r].list \ {req[r].user}]]
  /\ UNCHANGED <<tables, memOwner, cached, panel, now, history>>
-----------------------------------------------------------------------------
(* executeOwnerGlobalCascadingWipe: the ping, then table by table.         *)
NextTable == [ping |-> "wipeThings", wipeThings |-> "wipeSwitches", wipeSwitches |-> "wipeNodes",
              wipeNodes |-> "wipeCanaries", wipeCanaries |-> "wipeUsers", wipeUsers |-> "flush"]

WipeTable(r) ==
  /\ req[r].pc \in DOMAIN NextTable \ {"wipeUsers"}
  /\ things' = CASE req[r].pc = "wipeThings" -> things \ Others
                 [] req[r].pc = "wipeNodes" -> things \ Nodes
                 [] OTHER -> things
  /\ IF req[r].pc = "wipeSwitches"
       THEN personal' = [u \in Users |-> off] /\ owner' = off
       ELSE UNCHANGED <<personal, owner>>
  /\ active' = IF req[r].pc = "wipeCanaries" THEN 0 ELSE active
  /\ Goto(r, NextTable[req[r].pc])
  /\ UNCHANGED <<accounts, unused, sched, maps, panel, now, history>>

WipeUsers(r) ==                 \* its list is kept for WipeLeavesNothing
  /\ req[r].pc = "wipeUsers"
  /\ DeleteAccounts(Users, "wipe")
  /\ req' = [req EXCEPT ![r].pc = NextTable["wipeUsers"], ![r].list = accounts]
  /\ UNCHANGED <<unused, active, maps, panel, now, spared>>

FlushMaps(r) ==
  /\ req[r].pc = "flush"
  /\ memSwitch' = [u \in Users |-> 0] /\ Goto(r, "invalidate")
  /\ UNCHANGED <<tables, memOwner, cached, panel, now, history>>

InvalidateCanary(r) ==
  /\ req[r].pc = "invalidate"
  /\ cached' = FALSE /\ Goto(r, "retireAll")
  /\ UNCHANGED <<tables, memSwitch, memOwner, panel, now, history>>

(* Whoever asked for the canary since the line above may cache it again.   *)
RetireAll(r) ==
  /\ req[r].pc = "retireAll"
  /\ active' = 0 /\ Answer(r, "ok")
  /\ UNCHANGED <<accounts, unused, sched, things, personal, owner, maps, panel, now, history>>
-----------------------------------------------------------------------------
(* checkExpiredDeadManSwitches, which the program exports and never calls: *)
(* whoever runs it is one more client here.                                *)
SweepOwner(r) ==
  /\ req[r].pc = "owner"
  /\ req' = IF owner.on /\ owner.due < now
              THEN [req EXCEPT ![r].pc = "ping"]
              ELSE [req EXCEPT ![r].pc = "next", ![r].phase = "owner"]
  /\ UNCHANGED <<tables, maps, panel, now, history>>

Due(phase) == IF phase = "personal" THEN {u \in accounts : personal[u].on /\ personal[u].due < now}
                                    ELSE {u \in accounts : sched[u] # 0 /\ sched[u] <= now}
NextPhase == [owner |-> "personal", personal |-> "scheduled"]

SweepNext(r) ==
  /\ req[r].pc = "next"
  /\ \/ \E u \in req[r].list :
          req' = [req EXCEPT ![r].pc = "overwriteNodes", ![r].user = u]
     \/ /\ req[r].list = {} /\ req[r].phase \in DOMAIN NextPhase
        /\ req' = [req EXCEPT ![r].phase = NextPhase[@], ![r].list = Due(NextPhase[req[r].phase])]
     \/ req[r].list = {} /\ req[r].phase = "scheduled" /\ Answer(r, "ok")
  /\ UNCHANGED <<tables, maps, panel, now, history>>

Serve(r) ==
  \/ UpdateSchedule(r) \/ CancelSchedule(r) \/ InsertPersonal(r) \/ InsertOwner(r)
  \/ FindPersonal(r) \/ FindOwner(r) \/ UnlockSwitch(r) \/ BeatPersonal(r) \/ BeatOwner(r)
  \/ RememberSwitch(r) \/ LookupCanary(r) \/ CacheCanary(r) \/ RecallCanary(r)
  \/ RetireCanaries(r) \/ PublishCanary(r)
  \/ OverwriteNodes(r) \/ DeleteSwitches(r) \/ DeleteThings(r) \/ DeleteNodes(r) \/ DeleteUser(r)
  \/ ClearMaps(r) \/ WipeTable(r) \/ WipeUsers(r) \/ FlushMaps(r) \/ InvalidateCanary(r)
  \/ RetireAll(r) \/ SweepOwner(r) \/ SweepNext(r)
-----------------------------------------------------------------------------
(* The panel: the red button, the pages that arm switches, the modal that  *)
(* resets one; one call at a time.  request turns a refusal, a missing     *)
(* route and a lost connection into null, and the methods of api.nuke then *)
(* answer success from a table of their own: the panel goes on all the     *)
(* same.  The routes for the state (/nuke/state), for cancelling           *)
(* (/nuke/user/schedule/cancel), for unlocking (/nuke/personal-dms/auth)   *)
(* and for the wipe (/nuke/owner-dms/trigger-wipe) are not the server's.   *)
userSelfDestruct == SelfDestruct(Mine, panel.me)
scheduleSelfDestruct == Schedule(Mine, panel.me)
cancelScheduledDestruct == UNCHANGED <<tables, maps, req, now, history>>
setupPersonalDms == PersonalSetup(Mine, panel.me)
resetPersonalDmsHeartbeat == PersonalHeartbeat(Mine, panel.me)
setupOwnerDms == panel.me = Admin /\ OwnerSetup(Mine)
resetOwnerDmsHeartbeat == panel.me = Admin /\ OwnerHeartbeat(Mine)

PanelFree == panel.waits = "none" /\ ~panel.out
Waiting(what) == panel' = [panel EXCEPT !.waits = what]

(* Armed for an instant kill, nothing is told to the server.               *)
PanelArm ==
  /\ PanelFree /\ ~panel.pinned
  /\ \/ /\ panel' = [panel EXCEPT !.pinned = TRUE]
        /\ UNCHANGED <<tables, maps, req, now, history>>
     \/ scheduleSelfDestruct /\ Waiting("schedule")

PanelCancel ==
  /\ PanelFree /\ panel.pinned
  /\ panel' = [panel EXCEPT !.pinned = FALSE]
  /\ cancelScheduledDestruct

PanelDestroy ==
  /\ PanelFree /\ panel.pinned
  /\ userSelfDestruct /\ Waiting("destroy")

PanelSetup == PanelFree /\ setupPersonalDms /\ Waiting("switch")
PanelReset == PanelFree /\ resetPersonalDmsHeartbeat /\ Waiting("switch")
PanelOwnerSetup == PanelFree /\ setupOwnerDms /\ Waiting("switch")
PanelOwnerReset == PanelFree /\ resetOwnerDmsHeartbeat /\ Waiting("switch")

PanelAnswered ==
  /\ panel.waits # "none" /\ req[Mine].pc = "done"
  /\ req' = [req EXCEPT ![Mine] = idle]
  /\ panel' = [panel EXCEPT !.waits = "none", !.out = (panel.waits = "destroy"),
                            !.pinned = (panel.waits = "schedule" \/ (@ /\ panel.waits = "switch"))]
  /\ UNCHANGED <<tables, maps, now, history>>

(* The other clients, beside the panel, and whoever runs the sweep.        *)
OtherClient(r) ==
  LET offered == Offered[panel.me][r] IN
  /\ r # Mine
  /\ \/ \E u \in Callers \ unused : \/ "schedule" \in offered /\ Schedule(r, u)
                                    \/ "cancel" \in offered /\ CancelScheduled(r, u)
                                    \/ "unlock" \in offered /\ PersonalUnlock(r, u)
     \/ "wipe" \in offered /\ OwnerTrigger(r)
     \/ "canary" \in offered /\ CanaryText(r)
     \/ "sweep" \in offered /\ Plain(r, "sweep", Admin)
     \/ /\ req[r].pc = "done" /\ req' = [req EXCEPT ![r] = idle]
        /\ UNCHANGED <<tables, maps, now, history>>
  /\ UNCHANGED panel

(* Beside all this people register (routes/auth.js; PostgreSQL takes one   *)
(* account of a name, so the look-up before the insert decides nothing),   *)
(* nodes are enrolled and apps are created.                                *)
Register(u) ==
  /\ u \in unused /\ unused' = unused \ {u} /\ accounts' = accounts \cup {u}
  /\ UNCHANGED <<sched, things, personal, owner, active, maps, req, panel, now, history>>

Enroll(x) ==
  /\ OwnerOf[x] \in accounts /\ x \notin things /\ things' = things \cup {x}
  /\ UNCHANGED <<accounts, unused, sched, personal, owner, active, maps, req, panel, now, history>>

Tick ==
  /\ now < MaxTime /\ now' = now + 1
  /\ UNCHANGED <<tables, maps, req, panel, history>>

Next ==
  \/ \E r \in Requests : Serve(r) \/ OtherClient(r)
  \/ PanelArm \/ PanelCancel \/ PanelDestroy \/ PanelAnswered
  \/ PanelSetup \/ PanelReset \/ PanelOwnerSetup \/ PanelOwnerReset
  \/ \E u \in Users : Register(u)
  \/ \E x \in Things : Enroll(x)
  \/ Tick

Spec == Init /\ [][Next]_vars
-----------------------------------------------------------------------------
Gone(u) ==
  /\ u \notin accounts /\ Owned(u) = {} /\ ~personal[u].on
  /\ u = Admin => ~owner.on

(* When a destruction has been answered, the account and everything it     *)
(* owned are gone for good, whatever was enrolled or armed meanwhile; an   *)
(* account with two nodes escapes (NukeEngine.js:162).  After a global     *)
(* wipe that holds of everybody who had an account when the wipe came to   *)
(* the table of users (line 867); who registers later stays.  PostgreSQL   *)
(* only: the SQLite branch leaves rows behind (ConsoleResources).          *)
WipeLeavesNothing ==
  \A r \in Requests : req[r].pc = "done" =>
    /\ req[r].op = "destroy" /\ req[r].answer = "ok" => Gone(req[r].user)
    /\ req[r].op = "wipe" => \A u \in req[r].list : Gone(u)

(* An account whose schedule was cancelled before a sweep found it due     *)
(* never falls to that schedule (NukeEngine.js:295).                       *)
CancelledMeansSpared == spared \cap fellTo = {}
=============================================================================
