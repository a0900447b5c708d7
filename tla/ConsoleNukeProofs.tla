------------------------- MODULE ConsoleNukeProofs -------------------------
(***************************************************************************)
(* The types of ConsoleNuke, that a destruction or a wipe that was         *)
(* answered leaves nothing behind of those it was for, and that an account *)
(* whose schedule was cancelled in time is spared, for any accounts,       *)
(* newcomers, things and requests under way.                               *)
(*                                                                         *)
(* An account that is gone does not come back under its id (Alive only     *)
(* shrinks), and nothing is enrolled or armed without one (Keys), so what  *)
(* is gone with an account stays gone; a request past the query that       *)
(* deletes it knows that (End).  Who is spared has no date, and no request *)
(* is about to set one or has found it due (Safe).                         *)
(***************************************************************************)
EXTENDS ConsoleNuke, FiniteSetTheorems, TLAPS

Places == {"idle", "done", "update", "cancel", "insert", "find", "beat", "remember", "lookup",
           "keep", "recall", "retire", "publish", "published",
           "overwriteNodes", "deleteSwitches", "deleteThings",
           "deleteNodes", "deleteUser", "clear", "ping", "wipeThings", "wipeSwitches",
           "wipeNodes", "wipeCanaries", "wipeUsers", "flush", "invalidate", "retireAll",
           "owner", "next"}
Destroying == {"overwriteNodes", "deleteSwitches", "deleteThings", "deleteNodes", "deleteUser",
               "clear"}
Wiping == {"ping", "wipeThings", "wipeSwitches", "wipeNodes", "wipeCanaries", "wipeUsers",
           "flush", "invalidate", "retireAll"}
\* Past the deletion of the users.
Wiped == {"flush", "invalidate", "retireAll", "done"}
Call == [pc : Places, op : Ops, user : Users, arg : Nat, due : 0..Latest, list : SUBSET Users,
         phase : {"none", "owner", "personal", "scheduled"},
         answer : {"none", "ok", "refused", "failed"}]

\* What a request is doing at each of its steps.
Way(q) ==
  /\ q.pc = "update" => q.op = "schedule"
  /\ q.pc = "cancel" => q.op = "cancel"
  /\ q.pc = "insert" => q.op \in {"setup", "ownerSetup"} /\ q.arg \in Intervals
  /\ q.pc = "remember" => q.op \in {"setup", "ownerSetup"} /\ q.arg \in Intervals
  /\ q.pc = "find" => q.op \in {"heartbeat", "unlock", "ownerHeartbeat"}
  /\ q.pc = "beat" => q.op \in {"heartbeat", "ownerHeartbeat"}
  /\ q.pc \in {"lookup", "keep", "recall", "retire", "publish", "published"} =>
       q.op \in {"canary", "ownerSetup", "ownerHeartbeat"}
  /\ q.pc \in Destroying => q.op \in {"destroy", "sweep"}
  /\ q.pc \in Wiping => q.op \in {"wipe", "sweep"}
  /\ q.pc \in Wiping \cup {"owner", "done"} => q.phase = "none"
  /\ q.pc \in {"owner", "next"} => q.op = "sweep"
  /\ q.op = "destroy" => q.user \notin Newcomers
  /\ q.op = "sweep" /\ q.pc \in Destroying => q.user \in q.list
  /\ q.list # {} => \/ /\ q.op = "sweep" /\ q.phase \in {"personal", "scheduled"}
                       /\ q.pc \in Destroying \cup {"next"}
                    \/ q.pc \in Wiped

\* Who has an account or may yet register one.
Alive == accounts \cup unused

\* Past the query that deletes them, accounts are gone.
End(q, there) ==
  /\ q.op = "destroy" /\ q.pc \in {"clear", "done"} /\ q.answer = "ok" => q.user \notin there
  /\ q.op = "wipe" /\ q.pc \in Wiped => q.list \cap there = {}

\* It may yet make an account fall to a schedule.
Threatens(q, u) ==
  \/ q.op = "schedule" /\ q.pc \notin {"idle", "done"} /\ q.user = u
  \/ q.op = "sweep" /\ q.phase = "scheduled" /\ u \in q.list
Safe(q, us) == \A u \in us : ~Threatens(q, u)

Calls == /\ req \in [Requests -> Call]
         /\ \A r \in Requests : Way(req[r]) /\ End(req[r], Alive) /\ Safe(req[r], spared)

Tables ==
  /\ accounts \subseteq Users /\ unused \subseteq Newcomers /\ accounts \cap unused = {}
  /\ sched \in [Users -> 0..Latest] /\ things \subseteq Things
  /\ personal \in [Users -> Switch] /\ owner \in Switch /\ now \in 0..MaxTime
  /\ spared \subseteq Users /\ fellTo \subseteq Users

\* What there is belongs to an account, and nobody falls twice.
Keys ==
  /\ \A x \in things : OwnerOf[x] \in accounts
  /\ \A u \in Users : personal[u].on => u \in accounts
  /\ owner.on => Admin \in accounts
  /\ fellTo \cap Alive = {}
  /\ \A u \in spared : sched[u] = 0 /\ u \notin fellTo

Maps == memSwitch \in [Users -> Intervals \cup {0}] /\ memOwner \in Intervals \cup {0}

\* Each active canary beyond the last one retired was published by a request.
Publishers == {r \in Requests : req[r].pc = "publish"}
Canaries ==
  /\ active \in Nat /\ active + Cardinality(Publishers) <= Cardinality(Requests)
  /\ cached \in BOOLEAN

Panels == panel \in [me : Panellists, pinned : BOOLEAN,
                     waits : {"none", "schedule", "destroy", "switch"}, out : BOOLEAN]

NukeInv == Tables /\ Keys /\ Calls /\ Maps /\ Canaries /\ Panels
-----------------------------------------------------------------------------
\* Dates lie within the range there is.
LEMMA LatestBounds ==
  /\ Latest \in Nat /\ 0..MaxTime \subseteq 0..Latest
  /\ \A t \in 0..MaxTime, i \in Intervals : t + i \in 0..Latest
<1> DEFINE longest == CHOOSE i \in Intervals : \A j \in Intervals : i >= j
<1>1. longest \in Intervals /\ \A j \in Intervals : longest >= j
  BY NukeAssumption
<1>2. Latest = MaxTime + longest
  BY DEF Latest
<1> HIDE DEF longest
<1> QED
  BY <1>1, <1>2, NukeAssumption

LEMMA IdleCall ==
  /\ off \in Switch /\ ~off.on /\ off.due = 0 /\ off.every = 0
  /\ idle \in Call /\ idle.pc = "idle" /\ idle.op = "unlock" /\ idle.list = {}
  /\ idle.user = Admin /\ idle.due = 0 /\ idle.answer = "none" /\ idle.phase = "none"
  /\ Way(idle) /\ \A there : End(idle, there)
  /\ \A us : Safe(idle, us)
BY NukeAssumption, LatestBounds
   DEF off, Switch, idle, Call, Places, Ops, Way, End, Safe, Threatens, Destroying, Wiping, Wiped

LEMMA PublisherCount ==
  /\ IsFiniteSet(Requests) /\ Cardinality(Requests) \in Nat /\ Cardinality(Requests) >= 1
  /\ IsFiniteSet(Publishers) /\ Cardinality(Publishers) \in Nat
  /\ Cardinality(Publishers) <= Cardinality(Requests)
<1>1. IsFiniteSet(Requests) /\ Mine \in Requests
  BY NukeAssumption
<1>2. Publishers \subseteq Requests
  BY DEF Publishers
<1>3. {Mine} \subseteq Requests /\ Cardinality({Mine}) = 1
  BY <1>1, FS_Singleton
<1> QED
  BY <1>1, <1>2, <1>3, FS_Subset, FS_CardinalityType

LEMMA InitNuke == Init => NukeInv
<1> SUFFICES ASSUME Init PROVE NukeInv
  OBVIOUS
<1>1. Tables
  BY IdleCall, LatestBounds, NukeAssumption DEF Init, Tables
<1>2. Keys
  BY IdleCall, NukeAssumption DEF Init, Keys, Alive
<1>3. Calls
  BY IdleCall DEF Init, Calls
<1>4. Maps
  BY DEF Init, Maps
<1>5. Canaries
  <2>1. Publishers = {}
    BY IdleCall DEF Init, Publishers
  <2>2. Cardinality({}) = 0
    BY FS_EmptySet
  <2>3. active + Cardinality(Publishers) <= Cardinality(Requests)
    BY <2>1, <2>2, PublisherCount DEF Init
  <2> QED
    BY <2>3 DEF Init, Canaries
<1>6. Panels
  BY DEF Init, Panels
<1> QED
  BY <1>1, <1>2, <1>3, <1>4, <1>5, <1>6 DEF NukeInv
-----------------------------------------------------------------------------
\* One request moves, and those who have an account or may become no more.
LEMMA CallMoves ==
  ASSUME Calls, NEW r \in Requests, NEW q \in Call, req' = [req EXCEPT ![r] = q],
         Way(q), End(q, Alive'), Safe(q, spared'), Alive' \subseteq Alive,
         \A s \in Requests \ {r} : Safe(req[s], spared')
  PROVE  Calls'
<1>1. req' \in [Requests -> Call] /\ \A s \in Requests : req'[s] = IF s = r THEN q ELSE req[s]
  BY DEF Calls
<1>2. ASSUME NEW s \in Requests PROVE Way(req'[s]) /\ End(req'[s], Alive')
  BY <1>1 DEF Calls, End
<1>3. ASSUME NEW s \in Requests PROVE Safe(req'[s], spared')
  BY <1>1
<1> QED
  BY <1>1, <1>2, <1>3 DEF Calls

\* A request that does not go on to publish leaves no more publishers.
LEMMA FewerPublishers ==
  ASSUME req \in [Requests -> Call], NEW r \in Requests, NEW q \in Call, q.pc # "publish",
         req' = [req EXCEPT ![r] = q]
  PROVE  /\ Cardinality(Publishers') <= Cardinality(Publishers)
         /\ Cardinality(Publishers') \in Nat /\ Cardinality(Publishers) \in Nat
<1>1. Publishers' \subseteq Publishers
  BY DEF Publishers
<1> QED
  BY <1>1, PublisherCount, FS_Subset, FS_CardinalityType

LEMMA CountKept ==
  ASSUME NukeInv, NEW r \in Requests, NEW q \in Call, q.pc # "publish",
         req' = [req EXCEPT ![r] = q], active' \in Nat, active' <= active
  PROVE  active' + Cardinality(Publishers') <= Cardinality(Requests)
<1>1. Cardinality(Publishers') <= Cardinality(Publishers)
      /\ Cardinality(Publishers') \in Nat /\ Cardinality(Publishers) \in Nat
  BY FewerPublishers DEF NukeInv, Calls
<1>2. active \in Nat /\ Cardinality(Requests) \in Nat
      /\ active + Cardinality(Publishers) <= Cardinality(Requests)
  BY PublisherCount DEF NukeInv, Canaries
<1> QED
  BY <1>1, <1>2

LEMMA CanariesCounted ==
  ASSUME NukeInv, NEW r \in Requests, NEW q \in Call, q.pc # "publish",
         req' = [req EXCEPT ![r] = q], UNCHANGED active, cached' \in BOOLEAN
  PROVE  Canaries'
<1>1. active' \in Nat /\ active' <= active
  BY DEF NukeInv, Canaries
<1>2. active' + Cardinality(Publishers') <= Cardinality(Requests)
  BY <1>1, CountKept
<1> QED
  BY <1>1, <1>2 DEF Canaries

LEMMA CanariesKept ==
  ASSUME NukeInv, NEW r \in Requests, NEW q \in Call, q.pc # "publish",
         req' = [req EXCEPT ![r] = q], UNCHANGED <<active, cached>>
  PROVE  Canaries'
<1>1. UNCHANGED active /\ cached' \in BOOLEAN
  BY DEF NukeInv, Canaries
<1> QED
  BY <1>1, CanariesCounted

\* A step of a request that leaves the panel and the pardons alone.
LEMMA Moves ==
  ASSUME NukeInv, NEW r \in Requests, NEW q \in Call, req' = [req EXCEPT ![r] = q],
         Way(q), End(q, Alive'), Safe(q, spared),
         Alive' \subseteq Alive, UNCHANGED <<spared, panel>>,
         Tables', Keys', Maps', Canaries'
  PROVE  NukeInv'
<1>1. Calls'
  BY CallMoves DEF NukeInv, Calls
<1>2. Panels'
  BY DEF NukeInv, Panels
<1> QED
  BY <1>1, <1>2 DEF NukeInv

\* ... and everybody's account.
LEMMA Stays ==
  ASSUME NukeInv, NEW r \in Requests, NEW q \in Call, req' = [req EXCEPT ![r] = q],
         Way(q), End(q, Alive), Safe(q, spared),
         UNCHANGED <<accounts, unused, spared, panel>>, Tables', Keys', Maps', Canaries'
  PROVE  NukeInv'
<1>1. Alive' = Alive
  BY DEF Alive
<1> QED
  BY <1>1, Moves

\* ... and the canaries as well.
LEMMA Proceeds ==
  ASSUME NukeInv, NEW r \in Requests, NEW q \in Call, req' = [req EXCEPT ![r] = q],
         q.pc # "publish", Way(q), End(q, Alive), Safe(q, spared),
         UNCHANGED <<accounts, unused, spared, active, cached, panel>>,
         Tables', Keys', Maps'
  PROVE  NukeInv'
<1>1. Canaries'
  BY CanariesKept
<1> QED
  BY <1>1, Stays

\* A step that only moves the request.
LEMMA Passes ==
  ASSUME NukeInv, NEW r \in Requests, NEW q \in Call, req' = [req EXCEPT ![r] = q],
         q.pc # "publish", Way(q), End(q, Alive), Safe(q, spared),
         UNCHANGED <<tables, maps, panel, now, history>>
  PROVE  NukeInv'
<1>1. Tables' /\ Keys' /\ Maps'
  BY DEF NukeInv, Tables, Keys, Alive, Maps, Alive, tables, maps, history
<1> QED
  BY <1>1, Proceeds DEF tables, maps, history

\* The end of a request, with an answer that is true.
LEMMA AnswerMoves ==
  ASSUME NukeInv, NEW r \in Requests, NEW a \in {"none", "ok", "refused", "failed"}, Answer(r, a),
         NEW there, req[r].op = "destroy" /\ a = "ok" => req[r].user \notin there,
         req[r].op = "wipe" => req[r].list \cap there = {}
  PROVE  \E q \in Call : /\ req' = [req EXCEPT ![r] = q] /\ q.pc \in {"idle", "done"}
                         /\ Way(q) /\ End(q, there) /\ \A us : Safe(q, us)
<1> PICK c : c = req[r]
  OBVIOUS
<1>1. c \in Call /\ Way(c)
  BY DEF NukeInv, Calls
<1>2. CASE Watched(r)
  <2> PICK q : q = [idle EXCEPT !.pc = "done", !.op = c.op, !.user = c.user, !.list = c.list,
                                !.answer = a]
    OBVIOUS
  <2>1. q \in Call /\ q.pc = "done" /\ q.op = c.op /\ q.user = c.user /\ q.answer = a
        /\ q.list = c.list /\ q.phase = "none"
    <3>1. "done" \in Places
      BY DEF Places
    <3>2. c.op \in Ops /\ c.user \in Users /\ c.list \in SUBSET Users
      BY <1>1 DEF Call
    <3> QED
      BY <3>1, <3>2, IdleCall DEF Call
  <2>2. Way(q) /\ End(q, there) /\ \A us : Safe(q, us)
    BY <1>1, <2>1 DEF Way, End, Safe, Threatens, Destroying, Wiping, Wiped
  <2>3. req' = [req EXCEPT ![r] = q]
    BY <1>2 DEF Answer
  <2> QED
    BY <2>1, <2>2, <2>3
<1>3. CASE ~Watched(r)
  BY <1>3, IdleCall DEF Answer
<1> QED
  BY <1>2, <1>3

LEMMA AnswersPass ==
  ASSUME NukeInv, NEW r \in Requests, NEW a \in {"ok", "refused", "failed"}, Answer(r, a),
         req[r].op \notin {"destroy", "wipe"}, UNCHANGED <<tables, maps, panel, now, history>>
  PROVE  NukeInv'
<1>1. PICK q \in Call : /\ req' = [req EXCEPT ![r] = q] /\ q.pc \in {"idle", "done"}
                        /\ Way(q) /\ End(q, Alive) /\ \A us : Safe(q, us)
  BY AnswerMoves
<1> QED
  BY <1>1, Passes

\* A request on its way to the next query is as safe as it was.
LEMMA GotoMoves ==
  ASSUME NukeInv, NEW r \in Requests, NEW pc \in Places, req[r].pc \notin {"idle", "done"},
         NEW q, q = [req[r] EXCEPT !.pc = pc]
  PROVE  /\ q \in Call /\ q.pc = pc /\ Safe(q, spared)
         /\ q.op = req[r].op /\ q.user = req[r].user /\ q.arg = req[r].arg
         /\ q.list = req[r].list /\ q.phase = req[r].phase /\ q.answer = req[r].answer
<1>1. req[r] \in Call /\ Safe(req[r], spared)
  BY DEF NukeInv, Calls
<1>2. /\ q \in Call /\ q.pc = pc
      /\ q.op = req[r].op /\ q.user = req[r].user /\ q.arg = req[r].arg
      /\ q.list = req[r].list /\ q.phase = req[r].phase /\ q.answer = req[r].answer
  BY <1>1 DEF Call
<1>3. Safe(q, spared)
  BY <1>1, <1>2 DEF Safe, Threatens
<1> QED
  BY <1>2, <1>3

At(c, pc, due) == [c EXCEPT !.pc = pc, !.due = due]
LEMMA GotoDated ==
  ASSUME NukeInv, NEW r \in Requests, NEW pc \in Places, req[r].pc \notin {"idle", "done"},
         NEW due \in 0..Latest, NEW q, q = At(req[r], pc, due)
  PROVE  /\ q \in Call /\ q.pc = pc /\ Safe(q, spared)
         /\ q.op = req[r].op /\ q.user = req[r].user /\ q.arg = req[r].arg
         /\ q.list = req[r].list /\ q.phase = req[r].phase /\ q.answer = req[r].answer
<1>1. req[r] \in Call /\ Safe(req[r], spared)
  BY DEF NukeInv, Calls
<1>2. /\ q \in Call /\ q.pc = pc
      /\ q.op = req[r].op /\ q.user = req[r].user /\ q.arg = req[r].arg
      /\ q.list = req[r].list /\ q.phase = req[r].phase /\ q.answer = req[r].answer
  BY <1>1 DEF Call, At
<1>3. Safe(q, spared)
  BY <1>1, <1>2 DEF Safe, Threatens
<1> QED
  BY <1>2, <1>3
-----------------------------------------------------------------------------
\* A request is received: nothing is changed but the pardon of who sets a date.
LEMMA FirstPlaces == \A op \in Ops :
  /\ First[op] \in Places \ {"idle", "done", "publish"}
  /\ First[op] \in Destroying => op = "destroy"
  /\ First[op] \in Wiping => First[op] = "ping" /\ op = "wipe"
  /\ First[op] = "update" => op = "schedule"
  /\ First[op] = "cancel" => op = "cancel"
  /\ First[op] = "insert" => op \in {"setup", "ownerSetup"}
  /\ First[op] = "find" => op \in {"heartbeat", "unlock", "ownerHeartbeat"}
  /\ First[op] \in {"lookup", "keep", "recall", "retire", "publish", "published"} => op = "canary"
  /\ First[op] \in {"owner", "next"} => op = "sweep"
  /\ First[op] \notin {"beat", "remember", "clear"} \cup Wiped
BY DEF First, Ops, Places, Destroying, Wiping, Wiped

LEMMA Receives ==
  ASSUME NukeInv, NEW r \in Requests, NEW op \in Ops, NEW u \in Users, NEW v \in Nat,
         NEW due \in 0..Latest, Received(r, op, u, v, due), spared' \subseteq spared,
         op \in {"setup", "ownerSetup"} => v \in Intervals,
         op = "schedule" => u \notin spared', op = "destroy" => u \notin Newcomers
  PROVE  Tables' /\ Keys' /\ Calls' /\ Maps' /\ Canaries'
<1> PICK pc : pc = First[op]
  OBVIOUS
<1> PICK q : q = [idle EXCEPT !.pc = pc, !.op = op, !.user = u, !.arg = v, !.due = due]
  OBVIOUS
<1>1. pc \in Places \ {"idle", "done", "publish"}
  BY FirstPlaces
<1>2. /\ q \in Call /\ q.pc = pc /\ q.op = op /\ q.user = u /\ q.arg = v /\ q.list = {}
      /\ q.answer = "none" /\ q.phase = "none"
  BY <1>1, IdleCall DEF Call
<1>3. /\ req' = [req EXCEPT ![r] = q]
      /\ UNCHANGED <<tables, maps, now, fellTo>>
  BY DEF Received
<1>4. Way(q)
  BY <1>2, FirstPlaces DEF Way
<1>5. End(q, Alive')
  BY <1>2, FirstPlaces DEF End
<1>6. Safe(q, spared')
  BY <1>2 DEF Safe, Threatens
<1>7. Calls'
  <2>1. Alive' \subseteq Alive /\ \A s \in Requests \ {r} : Safe(req[s], spared')
    BY <1>3 DEF tables, NukeInv, Calls, Safe, Alive
  <2> QED
    BY <1>2, <1>3, <1>4, <1>5, <1>6, <2>1, CallMoves DEF NukeInv
<1>8. Canaries'
  BY <1>1, <1>2, <1>3, CanariesKept DEF tables, maps
<1> QED
  BY <1>3, <1>7, <1>8 DEF NukeInv, Tables, Keys, Alive, Maps, tables, maps
-----------------------------------------------------------------------------
\* Schedules.
LEMMA UpdateScheduleKeeps ==
  ASSUME NukeInv, NEW r \in Requests, UpdateSchedule(r)
  PROVE  NukeInv'
<1> PICK u, due : u = req[r].user /\ due = req[r].due
  OBVIOUS
<1>1. u \in Users /\ due \in 0..Latest /\ req[r].op = "schedule" /\ u \notin spared
  BY DEF UpdateSchedule, NukeInv, Calls, Call, Way, Safe, Threatens
<1>2. /\ sched' = IF u \in accounts THEN [sched EXCEPT ![u] = due] ELSE sched
      /\ Answer(r, "ok")
      /\ UNCHANGED <<accounts, unused, things, personal, owner, active, maps, panel, now, history>>
  BY DEF UpdateSchedule
<1>3. PICK q \in Call : /\ req' = [req EXCEPT ![r] = q] /\ q.pc \in {"idle", "done"}
                        /\ Way(q) /\ End(q, Alive) /\ \A us : Safe(q, us)
  BY <1>1, <1>2, AnswerMoves
<1>4. sched' \in [Users -> 0..Latest] /\ \A w \in spared : sched'[w] = sched[w]
  BY <1>1, <1>2 DEF NukeInv, Tables
<1>5. Tables' /\ Keys' /\ Maps'
  BY <1>2, <1>4 DEF NukeInv, Tables, Keys, Alive, Maps, maps, history
<1> QED
  BY <1>2, <1>3, <1>5, Proceeds DEF maps, history

\* A pardon: no date, and nobody else is about to set one or has found it due.
LEMMA CancelScheduleKeeps ==
  ASSUME NukeInv, NEW r \in Requests, CancelSchedule(r)
  PROVE  NukeInv'
<1> PICK u : u = req[r].user
  OBVIOUS
<1>1. u \in Users /\ req[r].op = "cancel"
  BY DEF CancelSchedule, NukeInv, Calls, Call, Way
<1>2. /\ sched' = [sched EXCEPT ![u] = 0] /\ Answer(r, "ok")
      /\ spared' = IF u \in accounts /\ InTime(r) THEN spared \cup {u} ELSE spared
      /\ UNCHANGED <<accounts, unused, things, personal, owner, active, maps, panel, now, fellTo>>
  BY DEF CancelSchedule
<1>3. PICK q \in Call : /\ req' = [req EXCEPT ![r] = q] /\ q.pc \in {"idle", "done"}
                        /\ Way(q) /\ End(q, Alive) /\ \A us : Safe(q, us)
  BY <1>1, <1>2, AnswerMoves
<1>4. sched' \in [Users -> 0..Latest] /\ sched'[u] = 0
      /\ \A w \in Users : sched'[w] = sched[w] \/ sched'[w] = 0
  BY <1>1, <1>2, LatestBounds DEF NukeInv, Tables
<1>5. Tables' /\ Keys' /\ Maps'
  BY <1>1, <1>2, <1>4 DEF NukeInv, Tables, Keys, Alive, Maps, maps
<1>6. ASSUME NEW s \in Requests \ {r} PROVE Safe(req[s], spared')
  <2>1. Safe(req[s], spared)
    BY DEF NukeInv, Calls
  <2>2. InTime(r) => ~Threatens(req[s], u)
    <3>1. req[s].list # {} /\ req[s].phase = "scheduled" => Busy(s)
      BY DEF NukeInv, Calls, Way, Destroying, Wiping, Wiped, Busy
    <3> QED
      BY <3>1 DEF InTime, Threatens, Busy
  <2> QED
    BY <1>2, <2>1, <2>2 DEF Safe
<1>7. Calls'
  <2>1. Alive' = Alive
    BY <1>2 DEF Alive
  <2> QED
    BY <1>2, <1>3, <1>6, <2>1, CallMoves DEF NukeInv
<1>8. Canaries'
  BY <1>2, <1>3, CanariesKept DEF maps
<1> QED
  BY <1>2, <1>5, <1>7, <1>8 DEF NukeInv, Panels
-----------------------------------------------------------------------------
\* Switches.
LEMMA InsertKeeps ==
  ASSUME NukeInv, NEW r \in Requests, InsertPersonal(r) \/ InsertOwner(r)
  PROVE  NukeInv'
<1> PICK u, k : u = req[r].user /\ k = Armed(r)
  OBVIOUS
<1> PICK pc, zero : pc = "remember" /\ zero = 0
  OBVIOUS
<1> PICK q : q = At(req[r], pc, zero)
  OBVIOUS
<1>1. /\ req[r] \in Call /\ Way(req[r]) /\ req[r].pc = "insert"
      /\ req[r].op \in {"setup", "ownerSetup"} /\ req[r].arg \in Intervals /\ u \in Users
  BY DEF InsertPersonal, InsertOwner, NukeInv, Calls, Way, Call
<1>2. k \in Switch
  BY <1>1 DEF Armed, Switch, Call
<1>3. /\ q \in Call /\ q.pc = "remember" /\ Safe(q, spared) /\ q.op = req[r].op
      /\ q.arg = req[r].arg /\ q.list = req[r].list
  <2>1. pc \in Places /\ zero \in 0..Latest
    BY LatestBounds DEF Places
  <2> QED
    BY <1>1, <2>1, GotoDated
<1>4. Way(q) /\ End(q, Alive)
  BY <1>1, <1>3 DEF Way, End, Destroying, Wiping, Wiped
<1>5. req' = [req EXCEPT ![r] = q]
  BY DEF InsertPersonal, InsertOwner, Stored, At
<1>6. /\ UNCHANGED <<accounts, unused, sched, things, active, maps, panel, now, history>>
      /\ \/ UNCHANGED <<personal, owner>>
         \/ u \in accounts /\ personal' = [personal EXCEPT ![u] = k] /\ UNCHANGED owner
         \/ Admin \in accounts /\ owner' = k /\ UNCHANGED personal
  BY DEF InsertPersonal, InsertOwner
<1>7. Tables' /\ Keys' /\ Maps'
  <2>1. personal' \in [Users -> Switch] /\ owner' \in Switch
    BY <1>2, <1>6 DEF NukeInv, Tables
  <2>2. /\ \A w \in Users : personal'[w].on => w \in accounts
        /\ owner'.on => Admin \in accounts
    BY <1>6 DEF NukeInv, Tables, Keys
  <2> QED
    BY <1>6, <2>1, <2>2 DEF NukeInv, Tables, Keys, Alive, Maps, maps, history
<1> QED
  BY <1>3, <1>4, <1>5, <1>6, <1>7, Proceeds DEF maps, history

LEMMA FindKeeps ==
  ASSUME NukeInv, NEW r \in Requests, FindPersonal(r) \/ FindOwner(r) \/ UnlockSwitch(r)
  PROVE  NukeInv'
<1>1. /\ req[r] \in Call /\ Way(req[r]) /\ req[r].pc = "find" /\ req[r].user \in Users
      /\ req[r].op \in {"heartbeat", "unlock", "ownerHeartbeat"}
      /\ UNCHANGED <<tables, maps, panel, now, history>>
  BY DEF FindPersonal, FindOwner, UnlockSwitch, NukeInv, Calls, Way, Call
<1>2. CASE UnlockSwitch(r)
  BY <1>1, <1>2, AnswersPass DEF UnlockSwitch
<1>3. ASSUME NEW every \in Intervals \cup {0}, Beat(r, every),
             req[r].op \in {"heartbeat", "ownerHeartbeat"}
      PROVE  NukeInv'
  <2>1. CASE every = 0
    BY <1>1, <1>3, <2>1, AnswersPass DEF Beat
  <2>2. CASE every # 0
    <3> PICK pc, due : pc = "beat" /\ due = now + every
      OBVIOUS
    <3> PICK q : q = At(req[r], pc, due)
      OBVIOUS
    <3>1. due \in 0..Latest
      BY <2>2, LatestBounds DEF NukeInv, Tables
    <3>2. req' = [req EXCEPT ![r] = q]
      BY <1>3, <2>2 DEF Beat, At
    <3>3. /\ q \in Call /\ q.pc = "beat" /\ Safe(q, spared) /\ q.op = req[r].op
          /\ q.list = req[r].list
      <4>1. pc \in Places
        BY DEF Places
      <4> QED
        BY <1>1, <3>1, <4>1, GotoDated
    <3>4. Way(q) /\ End(q, Alive)
      BY <1>1, <1>3, <3>3 DEF Way, End, Destroying, Wiping, Wiped
    <3> QED
      BY <1>1, <3>2, <3>3, <3>4, Passes
  <2> QED
    BY <2>1, <2>2
<1>4. KnownPersonal(req[r].user) \in Intervals \cup {0} /\ KnownOwner \in Intervals \cup {0}
  BY <1>1 DEF KnownPersonal, KnownOwner, NukeInv, Tables, Maps, Switch
<1> QED
  BY <1>2, <1>3, <1>4 DEF FindPersonal, FindOwner

LEMMA BeatKeeps ==
  ASSUME NukeInv, NEW r \in Requests, BeatPersonal(r) \/ BeatOwner(r)
  PROVE  NukeInv'
<1> PICK c : c = req[r]
  OBVIOUS
<1>1. c \in Call /\ Way(c) /\ c.pc = "beat" /\ c.user \in Users /\ c.due \in 0..Latest
      /\ c.op \in {"heartbeat", "ownerHeartbeat"}
  BY DEF BeatPersonal, BeatOwner, NukeInv, Calls, Way, Call
<1>2. PICK q \in Call : /\ req' = [req EXCEPT ![r] = q] /\ q.pc # "publish"
                        /\ Way(q) /\ End(q, Alive) /\ Safe(q, spared)
  <2>1. CASE BeatPersonal(r)
    <3>1. Answer(r, "ok")
      BY <2>1 DEF BeatPersonal
    <3>2. PICK q \in Call : /\ req' = [req EXCEPT ![r] = q] /\ q.pc \in {"idle", "done"}
                            /\ Way(q) /\ End(q, Alive) /\ \A us : Safe(q, us)
      BY <1>1, <3>1, AnswerMoves
    <3> QED
      BY <3>2
  <2>2. CASE BeatOwner(r)
    <3> PICK pc, zero : pc = "retire" /\ zero = 0
      OBVIOUS
    <3> PICK q : q = At(req[r], pc, zero)
      OBVIOUS
    <3>1. req' = [req EXCEPT ![r] = q] /\ c.op = "ownerHeartbeat"
      BY <2>2 DEF BeatOwner, At
    <3>2. /\ q \in Call /\ q.pc = "retire" /\ Safe(q, spared) /\ q.op = c.op
          /\ q.list = c.list
      <4>1. pc \in Places /\ zero \in 0..Latest /\ c.pc \notin {"idle", "done"}
        BY <1>1, LatestBounds DEF Places
      <4> QED
        BY <4>1, GotoDated
    <3>3. Way(q) /\ End(q, Alive)
      BY <1>1, <3>1, <3>2 DEF Way, End, Destroying, Wiping, Wiped
    <3> QED
      BY <3>1, <3>2, <3>3
  <2> QED
    BY <2>1, <2>2
<1>3. /\ UNCHANGED <<accounts, unused, sched, things, active, maps, panel, now, history>>
      /\ \/ UNCHANGED <<personal, owner>>
         \/ personal' = [personal EXCEPT ![c.user].due = c.due] /\ UNCHANGED owner
         \/ owner' = [owner EXCEPT !.due = c.due] /\ UNCHANGED personal
  BY DEF BeatPersonal, BeatOwner
<1>4. personal' \in [Users -> Switch] /\ owner' \in Switch
      /\ owner'.on = owner.on /\ \A w \in Users : personal'[w].on = personal[w].on
  <2>1. personal \in [Users -> Switch] /\ owner \in Switch
    BY DEF NukeInv, Tables
  <2> PICK k, o : k = [personal[c.user] EXCEPT !.due = c.due] /\ o = [owner EXCEPT !.due = c.due]
    OBVIOUS
  <2>2. k \in Switch /\ k.on = personal[c.user].on /\ o \in Switch /\ o.on = owner.on
    BY <1>1, <2>1 DEF Switch
  <2>3. \/ UNCHANGED <<personal, owner>>
        \/ personal' = [personal EXCEPT ![c.user] = k] /\ UNCHANGED owner
        \/ owner' = o /\ UNCHANGED personal
    BY <1>3
  <2>4. CASE UNCHANGED <<personal, owner>>
    BY <2>1, <2>4
  <2>5. CASE personal' = [personal EXCEPT ![c.user] = k] /\ UNCHANGED owner
    BY <2>1, <2>2, <2>5
  <2>6. CASE owner' = o /\ UNCHANGED personal
    BY <2>1, <2>2, <2>6
  <2> QED
    BY <2>3, <2>4, <2>5, <2>6
<1>5. Tables' /\ Keys' /\ Maps'
  BY <1>3, <1>4 DEF NukeInv, Tables, Keys, Alive, Maps, maps, history
<1> QED
  BY <1>2, <1>3, <1>5, Proceeds DEF maps, history

LEMMA RememberSwitchKeeps ==
  ASSUME NukeInv, NEW r \in Requests, RememberSwitch(r)
  PROVE  NukeInv'
<1> PICK c : c = req[r]
  OBVIOUS
<1>1. c \in Call /\ Way(c) /\ c.pc = "remember" /\ c.user \in Users
      /\ c.op \in {"setup", "ownerSetup"} /\ c.arg \in Intervals
      /\ UNCHANGED <<tables, cached, panel, now, history>>
  BY DEF RememberSwitch, NukeInv, Calls, Way, Call
<1>2. Tables' /\ Keys'
  BY <1>1 DEF NukeInv, Tables, Keys, Alive, tables, history
<1>3. CASE c.op = "setup"
  <2>1. memSwitch' = [memSwitch EXCEPT ![c.user] = c.arg] /\ UNCHANGED memOwner
        /\ Answer(r, "ok")
    BY <1>3 DEF RememberSwitch
  <2>2. Maps'
    BY <1>1, <2>1 DEF NukeInv, Maps
  <2>3. PICK q \in Call : /\ req' = [req EXCEPT ![r] = q] /\ q.pc \in {"idle", "done"}
                          /\ Way(q) /\ End(q, Alive) /\ \A us : Safe(q, us)
    BY <1>1, <2>1, AnswerMoves
  <2> QED
    BY <1>1, <1>2, <2>2, <2>3, Proceeds DEF tables, history
<1>4. CASE c.op # "setup"
  <2> PICK q : q = [req[r] EXCEPT !.pc = "retire"]
    OBVIOUS
  <2>1. memOwner' = c.arg /\ UNCHANGED memSwitch /\ req' = [req EXCEPT ![r] = q]
    BY <1>4 DEF RememberSwitch, Goto
  <2>2. Maps'
    BY <1>1, <2>1 DEF NukeInv, Maps
  <2>3. /\ q \in Call /\ q.pc = "retire" /\ Safe(q, spared) /\ q.op = c.op
        /\ q.list = c.list
    <3>1. "retire" \in Places /\ c.pc \notin {"idle", "done"}
      BY <1>1 DEF Places
    <3> QED
      BY <3>1, GotoMoves
  <2>4. Way(q) /\ End(q, Alive)
    BY <1>1, <1>4, <2>3 DEF Way, End, Destroying, Wiping, Wiped
  <2> QED
    BY <1>1, <1>2, <2>1, <2>2, <2>3, <2>4, Proceeds DEF tables, history
<1> QED
  BY <1>3, <1>4
-----------------------------------------------------------------------------
\* Canaries.
LEMMA CanaryGoes ==
  ASSUME NukeInv, NEW r \in Requests, req[r].pc \in {"lookup", "recall"},
         NEW pc \in {"keep", "recall", "retire"}, Goto(r, pc),
         UNCHANGED <<tables, maps, panel, now, history>>
  PROVE  NukeInv'
<1> PICK c : c = req[r]
  OBVIOUS
<1> PICK q : q = [req[r] EXCEPT !.pc = pc]
  OBVIOUS
<1>1. pc \in Places /\ c.pc \notin {"idle", "done"} /\ Way(c)
  BY DEF Places, NukeInv, Calls
<1>2. /\ q \in Call /\ q.pc = pc /\ Safe(q, spared) /\ q.op = c.op /\ q.list = c.list
      /\ req' = [req EXCEPT ![r] = q]
  BY <1>1, GotoMoves DEF Goto
<1>3. Way(q) /\ End(q, Alive)
  BY <1>1, <1>2 DEF Way, End, Destroying, Wiping, Wiped
<1> QED
  BY <1>2, <1>3, Passes

LEMMA LookupCanaryKeeps ==
  ASSUME NukeInv, NEW r \in Requests, LookupCanary(r)
  PROVE  NukeInv'
<1> PICK pc : pc \in {"keep", "recall"} /\ Goto(r, pc)
  BY DEF LookupCanary
<1>1. /\ Way(req[r]) /\ req[r].pc = "lookup" /\ pc \in Places /\ pc \notin Wiped
      /\ UNCHANGED <<tables, maps, panel, now, history>>
  BY DEF LookupCanary, NukeInv, Calls, Places, Wiped
<1> QED
  BY <1>1, CanaryGoes

LEMMA CacheCanaryKeeps ==
  ASSUME NukeInv, NEW r \in Requests, CacheCanary(r)
  PROVE  NukeInv'
<1>1. /\ Way(req[r]) /\ req[r].op \notin {"destroy", "wipe", "sweep"}
      /\ cached' /\ cached' \in BOOLEAN
      /\ Answer(r, "ok") /\ UNCHANGED <<tables, memSwitch, memOwner, panel, now, history>>
  BY DEF CacheCanary, NukeInv, Calls, Way
<1>2. PICK q \in Call : /\ req' = [req EXCEPT ![r] = q] /\ q.pc \in {"idle", "done"}
                        /\ Way(q) /\ End(q, Alive) /\ \A us : Safe(q, us)
  BY <1>1, AnswerMoves
<1>3. Tables' /\ Keys' /\ Maps'
  BY <1>1 DEF NukeInv, Tables, Keys, Alive, Maps, tables, history
<1>4. Canaries'
  BY <1>1, <1>2, CanariesCounted DEF tables
<1> QED
  BY <1>1, <1>2, <1>3, <1>4, Stays DEF tables, history

LEMMA RecallCanaryKeeps ==
  ASSUME NukeInv, NEW r \in Requests, RecallCanary(r)
  PROVE  NukeInv'
<1>1. /\ Way(req[r]) /\ req[r].pc = "recall" /\ req[r].op \notin {"destroy", "wipe"}
      /\ UNCHANGED <<tables, maps, panel, now, history>>
  BY DEF RecallCanary, NukeInv, Calls, Way
<1>2. CASE Answer(r, "ok")
  BY <1>1, <1>2, AnswersPass
<1>3. CASE Goto(r, "retire")
  BY <1>1, <1>3, CanaryGoes
<1> QED
  BY <1>2, <1>3 DEF RecallCanary

LEMMA RetireCanariesKeeps ==
  ASSUME NukeInv, NEW r \in Requests, RetireCanaries(r)
  PROVE  NukeInv'
<1> PICK c, pc : c = req[r] /\ pc = "publish"
  OBVIOUS
<1> PICK q : q = [req[r] EXCEPT !.pc = pc]
  OBVIOUS
<1>1. /\ c \in Call /\ Way(c) /\ c.pc = "retire" /\ req' = [req EXCEPT ![r] = q]
      /\ active' = 0
      /\ UNCHANGED <<accounts, unused, sched, things, personal, owner, maps, panel, now, history>>
  BY DEF RetireCanaries, Goto, NukeInv, Calls
<1>2. pc \in Places /\ c.pc \notin {"idle", "done"}
  BY <1>1 DEF Places
<1>3. /\ q \in Call /\ q.pc = "publish" /\ Safe(q, spared) /\ q.op = c.op
      /\ q.list = c.list
  BY <1>2, GotoMoves
<1>4. Way(q) /\ End(q, Alive)
  BY <1>1, <1>3 DEF Way, End, Destroying, Wiping, Wiped
<1>5. Tables' /\ Keys' /\ Maps'
  BY <1>1 DEF NukeInv, Tables, Keys, Alive, Maps, maps, history
<1>6. Canaries'
  <2>1. Publishers' \subseteq Requests
    BY DEF Publishers
  <2>2. Cardinality(Publishers') \in Nat /\ Cardinality(Publishers') <= Cardinality(Requests)
    BY <2>1, PublisherCount, FS_Subset, FS_CardinalityType
  <2>3. active' + Cardinality(Publishers') <= Cardinality(Requests)
    BY <1>1, <2>2, PublisherCount
  <2> QED
    BY <1>1, <2>3 DEF NukeInv, Canaries, maps
<1> QED
  BY <1>1, <1>3, <1>4, <1>5, <1>6, Stays DEF history

LEMMA PublishCanaryKeeps ==
  ASSUME NukeInv, NEW r \in Requests, PublishCanary(r)
  PROVE  NukeInv'
<1> PICK c, pc : c = req[r] /\ pc = "published"
  OBVIOUS
<1> PICK q : q = [req[r] EXCEPT !.pc = pc]
  OBVIOUS
<1>1. /\ c \in Call /\ Way(c) /\ c.pc = "publish" /\ active' = active + 1
      /\ req' = [req EXCEPT ![r] = q]
      /\ UNCHANGED <<accounts, unused, sched, things, personal, owner, maps, panel, now, history>>
  BY DEF PublishCanary, NukeInv, Calls, Goto
<1>2. pc \in Places /\ c.pc \notin {"idle", "done"}
  BY <1>1 DEF Places
<1>3. /\ q \in Call /\ q.pc = "published" /\ Safe(q, spared) /\ q.op = c.op /\ q.list = c.list
  BY <1>2, GotoMoves
<1>4. Way(q) /\ End(q, Alive)
  BY <1>1, <1>3 DEF Way, End, Destroying, Wiping, Wiped
<1>5. Tables' /\ Keys' /\ Maps'
  BY <1>1 DEF NukeInv, Tables, Keys, Alive, Maps, maps, history
<1>6. Canaries'
  <2>1. r \in Publishers /\ Publishers' = Publishers \ {r}
    BY <1>1, <1>3 DEF Publishers, NukeInv, Calls
  <2>2. Cardinality(Publishers') = Cardinality(Publishers) - 1
    BY <2>1, PublisherCount, FS_RemoveElement
  <2>3. active \in Nat /\ active + Cardinality(Publishers) <= Cardinality(Requests)
    BY DEF NukeInv, Canaries
  <2>4. active' + Cardinality(Publishers') <= Cardinality(Requests)
    BY <1>1, <2>2, <2>3, PublisherCount
  <2> QED
    BY <1>1, <2>3, <2>4 DEF NukeInv, Canaries, maps
<1> QED
  BY <1>1, <1>3, <1>4, <1>5, <1>6, Stays DEF history
-----------------------------------------------------------------------------
\* The destruction of an account.
LEMMA OverwriteNodesKeeps ==
  ASSUME NukeInv, NEW r \in Requests, OverwriteNodes(r)
  PROVE  NukeInv'
<1> PICK c : c = req[r]
  OBVIOUS
<1>1. /\ c \in Call /\ Way(c) /\ Safe(c, spared) /\ c.pc = "overwriteNodes"
      /\ UNCHANGED <<tables, maps, panel, now, history>>
  BY DEF OverwriteNodes, NukeInv, Calls
<1>2. PICK pc, a : /\ \/ pc = "clear" /\ a = "failed"
                      \/ pc = "deleteSwitches" /\ a = "ok"
                   /\ req' = [req EXCEPT ![r] = [c EXCEPT !.pc = pc, !.answer = a]]
  <2>1. CASE Cardinality(Owned(req[r].user) \cap Nodes) > 1
    BY <2>1 DEF OverwriteNodes
  <2>2. CASE ~(Cardinality(Owned(req[r].user) \cap Nodes) > 1)
    BY <2>2 DEF OverwriteNodes
  <2> QED
    BY <2>1, <2>2
<1>3. pc \in Places /\ a \in {"none", "ok", "refused", "failed"}
      /\ pc \in {"clear", "deleteSwitches"} /\ (pc = "clear" => a # "ok")
  BY <1>2 DEF Places
<1> PICK q : q = [c EXCEPT !.pc = pc, !.answer = a]
  OBVIOUS
<1>4. /\ q \in Call /\ q.pc = pc /\ q.answer = a /\ q.op = c.op /\ q.user = c.user
      /\ q.list = c.list /\ q.phase = c.phase
  BY <1>1, <1>3 DEF Call
<1>5. Way(q) /\ End(q, Alive) /\ Safe(q, spared)
  BY <1>1, <1>3, <1>4 DEF Way, End, Safe, Threatens, Destroying, Wiping, Wiped
<1>6. req' = [req EXCEPT ![r] = q]
  BY <1>2
<1>7. q.pc # "publish"
  BY <1>3, <1>4
<1> QED
  BY <1>1, <1>4, <1>5, <1>6, <1>7, Passes

\* The account goes on to the next query of its destruction.
LEMMA Destroys ==
  ASSUME NukeInv, NEW r \in Requests, NEW pc \in {"deleteThings", "deleteNodes", "deleteUser"},
         req[r].pc \in Destroying, Goto(r, pc),
         UNCHANGED <<accounts, unused, sched, active, maps, panel, now, history>>,
         things' \subseteq things, personal' \in [Users -> Switch], owner' \in Switch,
         \A u \in Users : personal'[u].on => personal[u].on,
         owner'.on => owner.on
  PROVE  NukeInv'
<1> PICK q : q = [req[r] EXCEPT !.pc = pc]
  OBVIOUS
<1>1. pc \in Places /\ req[r].pc \notin {"idle", "done"}
  BY DEF Places, Destroying
<1>2. /\ q \in Call /\ q.pc = pc /\ Safe(q, spared) /\ q.op = req[r].op
      /\ q.user = req[r].user /\ q.list = req[r].list /\ q.phase = req[r].phase
  BY <1>1, GotoMoves
<1>3. req[r].op \in {"destroy", "sweep"} /\ Way(req[r])
  BY DEF NukeInv, Calls, Way
<1>4. Way(q) /\ End(q, Alive)
  BY <1>2, <1>3 DEF Way, End, Destroying, Wiping, Wiped
<1>5. Tables' /\ Keys' /\ Maps'
  BY DEF NukeInv, Tables, Keys, Alive, Maps, maps, history
<1>6. q.pc # "publish" /\ req' = [req EXCEPT ![r] = q]
  BY <1>2 DEF Goto
<1> QED
  BY <1>2, <1>4, <1>5, <1>6, Proceeds DEF maps, history

LEMMA DestroyingKeeps ==
  ASSUME NukeInv, NEW r \in Requests, DeleteSwitches(r) \/ DeleteThings(r) \/ DeleteNodes(r)
  PROVE  NukeInv'
<1>1. /\ req[r].pc \in Destroying
      /\ UNCHANGED <<accounts, unused, sched, active, maps, panel, now, history>>
  BY DEF DeleteSwitches, DeleteThings, DeleteNodes, Destroying
<1>2. \E pc \in {"deleteThings", "deleteNodes", "deleteUser"} : Goto(r, pc)
  BY DEF DeleteSwitches, DeleteThings, DeleteNodes
<1>3. /\ things' \subseteq things /\ personal' \in [Users -> Switch] /\ owner' \in Switch
      /\ \A u \in Users : personal'[u].on => personal[u].on
      /\ owner'.on => owner.on
  <2>1. personal \in [Users -> Switch] /\ owner \in Switch /\ off \in Switch /\ ~off.on
    BY IdleCall DEF NukeInv, Tables
  <2>2. CASE DeleteSwitches(r)
    BY <2>1, <2>2 DEF DeleteSwitches
  <2>3. CASE DeleteThings(r) \/ DeleteNodes(r)
    BY <2>1, <2>3 DEF DeleteThings, DeleteNodes
  <2> QED
    BY <2>2, <2>3
<1> QED
  BY <1>1, <1>2, <1>3, Destroys

\* With an account goes what it owns; by its schedule only who was not spared.
LEMMA Deletes ==
  ASSUME NukeInv, NEW gone \in SUBSET Users, NEW why, DeleteAccounts(gone, why),
         UNCHANGED <<unused, now, spared>>, why = "schedule" => gone \cap spared = {}
  PROVE  Tables' /\ Keys' /\ accounts' = accounts \ gone /\ Alive' \subseteq Alive
<1>1. /\ accounts' = accounts \ gone
      /\ things' = {x \in things : OwnerOf[x] \notin gone}
      /\ personal' = [u \in Users |-> IF u \in gone THEN off ELSE personal[u]]
      /\ owner' = IF Admin \in gone THEN off ELSE owner
      /\ sched' = [u \in Users |-> IF u \in gone THEN 0 ELSE sched[u]]
      /\ fellTo' = fellTo \cup {u \in gone \cap accounts : why = "schedule"}
  BY DEF DeleteAccounts
<1>2. off \in Switch /\ ~off.on /\ 0 \in 0..Latest
  BY IdleCall, LatestBounds
<1>3. Tables'
  BY <1>1, <1>2 DEF NukeInv, Tables
<1>4. Keys'
  <2>1. \A x \in things' : OwnerOf[x] \in accounts'
    BY <1>1 DEF NukeInv, Keys
  <2>2. \A u \in Users : personal'[u].on => u \in accounts'
    BY <1>1, <1>2 DEF NukeInv, Keys
  <2>3. owner'.on => Admin \in accounts'
    BY <1>1, <1>2 DEF NukeInv, Keys
  <2>4. fellTo' \cap Alive' = {}
    BY <1>1 DEF NukeInv, Keys, Alive, Tables
  <2>5. \A u \in spared' : sched'[u] = 0 /\ u \notin fellTo'
    BY <1>1 DEF NukeInv, Keys, Tables
  <2> QED
    BY <2>1, <2>2, <2>3, <2>4, <2>5 DEF Keys
<1>5. Alive' \subseteq Alive
  BY <1>1 DEF Alive
<1> QED
  BY <1>1, <1>3, <1>4, <1>5

LEMMA DeleteUserKeeps ==
  ASSUME NukeInv, NEW r \in Requests, DeleteUser(r)
  PROVE  NukeInv'
<1> PICK c, pc : c = req[r] /\ pc = "clear"
  OBVIOUS
<1> PICK q : q = [req[r] EXCEPT !.pc = pc]
  OBVIOUS
<1>1. /\ c \in Call /\ Way(c) /\ Safe(c, spared) /\ c.pc = "deleteUser" /\ c.user \in Users
      /\ req' = [req EXCEPT ![r] = q]
      /\ DeleteAccounts({c.user}, Reason(r))
      /\ UNCHANGED <<unused, active, maps, panel, now, spared>>
  BY DEF DeleteUser, Goto, NukeInv, Calls, Call
<1>2. pc \in Places /\ c.pc \notin {"idle", "done"} /\ c.op \in {"destroy", "sweep"}
  BY <1>1 DEF Places, Way, Destroying
<1>3. /\ q \in Call /\ q.pc = "clear" /\ Safe(q, spared) /\ q.op = c.op /\ q.user = c.user
      /\ q.list = c.list /\ q.phase = c.phase
  BY <1>2, GotoMoves
<1>4. Reason(r) = "schedule" => c.user \notin spared
  <2>1. SUFFICES ASSUME Reason(r) = "schedule" PROVE Threatens(c, c.user)
    BY <1>1 DEF Safe
  <2>2. c.op # "destroy" /\ c.phase # "personal"
    BY <2>1 DEF Reason
  <2>3. c.op = "sweep" /\ c.user \in c.list
    BY <1>1, <1>2, <2>2 DEF Way, Destroying
  <2>4. c.phase = "scheduled"
    BY <1>1, <2>2, <2>3 DEF Way, Wiped, Destroying
  <2> QED
    BY <2>3, <2>4 DEF Threatens
<1>5. Tables' /\ Keys' /\ accounts' = accounts \ {c.user} /\ Alive' \subseteq Alive
  <2>1. {c.user} \in SUBSET Users
    BY <1>1
  <2> QED
    BY <1>1, <1>4, <2>1, Deletes
<1>6. Way(q) /\ End(q, Alive')
  <2>1. Way(q)
    BY <1>1, <1>2, <1>3 DEF Way, Destroying, Wiping, Wiped
  <2>2. c.op = "destroy" => c.user \notin Alive'
    BY <1>1, <1>5 DEF Way, Alive, NukeInv, Tables
  <2> QED
    BY <1>2, <1>3, <2>1, <2>2 DEF End
<1>7. Maps' /\ Canaries'
  BY <1>1, <1>3, CanariesKept DEF NukeInv, Maps, Canaries, maps
<1> QED
  BY <1>1, <1>3, <1>5, <1>6, <1>7, Moves

LEMMA ClearMapsKeeps ==
  ASSUME NukeInv, NEW r \in Requests, ClearMaps(r)
  PROVE  NukeInv'
<1> PICK c : c = req[r]
  OBVIOUS
<1>1. /\ c \in Call /\ Way(c) /\ End(c, Alive) /\ Safe(c, spared) /\ c.pc = "clear"
      /\ c.op \in {"destroy", "sweep"} /\ c.user \in Users
      /\ memSwitch' = [memSwitch EXCEPT ![c.user] = 0]
      /\ UNCHANGED <<tables, memOwner, cached, panel, now, history>>
  BY DEF ClearMaps, NukeInv, Calls, Call, Way, Destroying
<1>2. PICK q \in Call : /\ req' = [req EXCEPT ![r] = q] /\ q.pc # "publish"
                        /\ Way(q) /\ End(q, Alive) /\ Safe(q, spared)
  <2>1. CASE c.op = "destroy"
    <3> PICK a : a = c.answer
      OBVIOUS
    <3>1. Answer(r, a) /\ a \in {"none", "ok", "refused", "failed"}
      BY <1>1, <2>1 DEF ClearMaps, Call
    <3>2. c.op = "destroy" /\ a = "ok" => c.user \notin Alive
      BY <1>1 DEF End
    <3>3. PICK q \in Call : /\ req' = [req EXCEPT ![r] = q] /\ q.pc \in {"idle", "done"}
                            /\ Way(q) /\ End(q, Alive) /\ \A us : Safe(q, us)
      BY <2>1, <3>1, <3>2, AnswerMoves
    <3> QED
      BY <3>3
  <2>2. CASE c.op # "destroy"
    <3> PICK pc, op, list : pc = "next" /\ op = "sweep" /\ list = c.list \ {c.user}
      OBVIOUS
    <3> PICK q : q = [idle EXCEPT !.pc = pc, !.op = op, !.phase = c.phase, !.list = list]
      OBVIOUS
    <3>1. req' = [req EXCEPT ![r] = q]
      BY <2>2 DEF ClearMaps
    <3>2. /\ pc \in Places /\ op \in Ops /\ list \in SUBSET Users
          /\ c.phase \in {"none", "owner", "personal", "scheduled"}
      BY <1>1 DEF Call, Places, Ops
    <3>3. /\ q \in Call /\ q.pc = "next" /\ q.op = "sweep" /\ q.list = c.list \ {c.user}
          /\ q.phase = c.phase
      BY <3>2, IdleCall DEF Call
    <3>4. Way(q) /\ End(q, Alive)
      BY <1>1, <3>3 DEF Way, End, Destroying, Wiping, Wiped
    <3>5. Safe(q, spared)
      BY <1>1, <2>2, <3>3 DEF Safe, Threatens
    <3> QED
      BY <3>1, <3>3, <3>4, <3>5
  <2> QED
    BY <2>1, <2>2
<1>3. Tables' /\ Keys'
  BY <1>1 DEF NukeInv, Tables, Keys, Alive, tables, history
<1>4. Maps'
  BY <1>1 DEF NukeInv, Maps
<1> QED
  BY <1>1, <1>2, <1>3, <1>4, Proceeds DEF tables, history
-----------------------------------------------------------------------------
\* The global wipe.
LEMMA WipingPlaces == \A pc \in DOMAIN NextTable :
  /\ pc \in Wiping /\ NextTable[pc] \in Places /\ NextTable[pc] \in Wiping
  /\ pc # "wipeUsers" => pc \notin Wiped /\ NextTable[pc] \notin Wiped
  /\ "wipeUsers" \in DOMAIN NextTable /\ NextTable["wipeUsers"] = "flush"
BY DEF NextTable, Wiping, Places, Wiped

\* The next query of the wipe, which has a list only past the deletion of the users.
LEMMA Wipes ==
  ASSUME NukeInv, NEW r \in Requests, req[r].pc \in Wiping, NEW pc \in Places \cap Wiping,
         Goto(r, pc), req[r].pc \in Wiped <=> pc \in Wiped
  PROVE  \E q \in Call : /\ req' = [req EXCEPT ![r] = q] /\ q.pc = pc /\ q.pc # "publish"
                         /\ Way(q) /\ End(q, Alive) /\ Safe(q, spared)
<1> PICK q : q = [req[r] EXCEPT !.pc = pc]
  OBVIOUS
<1>1. req[r].pc \notin {"idle", "done"} /\ req[r].pc \notin Destroying \cup {"next"}
      /\ pc \notin {"done", "clear", "publish"}
  BY DEF Wiping, Destroying
<1>2. /\ q \in Call /\ q.pc = pc /\ Safe(q, spared) /\ q.op = req[r].op /\ q.user = req[r].user
      /\ q.list = req[r].list /\ q.phase = req[r].phase
  BY <1>1, GotoMoves
<1>3. /\ req[r].op \in {"wipe", "sweep"} /\ (pc \notin Wiped => req[r].list = {})
      /\ req[r].phase = "none" /\ End(req[r], Alive)
  BY <1>1 DEF NukeInv, Calls, Way
<1>4. Way(q)
  BY <1>2, <1>3 DEF Way, Destroying, Wiping, Wiped
<1>5. End(q, Alive)
  BY <1>1, <1>2, <1>3 DEF End
<1> QED
  BY <1>1, <1>2, <1>4, <1>5 DEF Goto

LEMMA WipeTableKeeps ==
  ASSUME NukeInv, NEW r \in Requests, WipeTable(r)
  PROVE  NukeInv'
<1> PICK pc : pc = NextTable[req[r].pc]
  OBVIOUS
<1>1. /\ req[r].pc \in DOMAIN NextTable /\ req[r].pc # "wipeUsers" /\ Goto(r, pc)
      /\ UNCHANGED <<accounts, unused, sched, maps, panel, now, history>>
  BY DEF WipeTable
<1>2. req[r].pc \in Wiping /\ pc \in Places \cap Wiping
      /\ req[r].pc \notin Wiped /\ pc \notin Wiped
  BY <1>1, WipingPlaces
<1>3. PICK q \in Call : /\ req' = [req EXCEPT ![r] = q] /\ q.pc # "publish"
                        /\ Way(q) /\ End(q, Alive) /\ Safe(q, spared)
  BY <1>1, <1>2, Wipes
<1>4. things' \subseteq things
  BY DEF WipeTable
<1>5. \/ UNCHANGED <<personal, owner>>
      \/ personal' = [u \in Users |-> off] /\ owner' = off
  BY DEF WipeTable
<1>6. /\ personal' \in [Users -> Switch] /\ owner' \in Switch
      /\ \A u \in Users : personal'[u].on => personal[u].on
      /\ owner'.on => owner.on
  BY <1>5, IdleCall DEF NukeInv, Tables
<1>7. Tables' /\ Keys' /\ Maps'
  BY <1>1, <1>4, <1>6 DEF NukeInv, Tables, Keys, Alive, Maps, maps, history
<1>8. Canaries'
  <2>1. active' \in Nat /\ active' <= active /\ (active' = active \/ active' = 0)
    BY DEF WipeTable, NukeInv, Canaries
  <2>2. active' + Cardinality(Publishers') <= Cardinality(Requests)
    BY <1>3, <2>1, CountKept
  <2> QED
    BY <1>1, <2>1, <2>2 DEF NukeInv, Canaries, maps, history
<1> QED
  BY <1>1, <1>3, <1>7, <1>8, Stays DEF history

LEMMA WipeUsersKeeps ==
  ASSUME NukeInv, NEW r \in Requests, WipeUsers(r)
  PROVE  NukeInv'
<1> PICK c, pc, list : c = req[r] /\ pc = "flush" /\ list = accounts
  OBVIOUS
<1> PICK q : q = [c EXCEPT !.pc = pc, !.list = list]
  OBVIOUS
<1>1. /\ c \in Call /\ Way(c) /\ c.pc = "wipeUsers" /\ DeleteAccounts(Users, "wipe")
      /\ req' = [req EXCEPT ![r] = q]
      /\ UNCHANGED <<unused, active, maps, panel, now, spared>>
  BY DEF WipeUsers, NextTable, NukeInv, Calls
<1>2. pc \in Places /\ list \in SUBSET Users
  BY DEF Places, NukeInv, Tables
<1>3. /\ q \in Call /\ q.pc = "flush" /\ q.op = c.op /\ q.list = accounts
      /\ q.phase = c.phase /\ q.user = c.user
  BY <1>1, <1>2 DEF Call
<1>4. Tables' /\ Keys' /\ accounts' = accounts \ Users /\ Alive' \subseteq Alive
  <2>1. Users \in SUBSET Users
    OBVIOUS
  <2> QED
    BY <1>1, <2>1, Deletes
<1>5. accounts \cap Alive' = {}
  BY <1>1, <1>4 DEF NukeInv, Tables, Alive
<1>6. c.op \in {"wipe", "sweep"} /\ c.phase = "none"
  BY <1>1 DEF Way, Wiping
<1>7. Way(q) /\ End(q, Alive') /\ Safe(q, spared)
  BY <1>3, <1>5, <1>6 DEF Way, End, Safe, Threatens, Destroying, Wiping, Wiped
<1>8. Maps' /\ Canaries'
  BY <1>1, <1>3, CanariesKept DEF NukeInv, Maps, Canaries, maps
<1> QED
  BY <1>1, <1>3, <1>4, <1>7, <1>8, Moves

LEMMA FlushMapsKeeps ==
  ASSUME NukeInv, NEW r \in Requests, FlushMaps(r)
  PROVE  NukeInv'
<1> PICK pc : pc = "invalidate"
  OBVIOUS
<1>1. /\ req[r].pc = "flush" /\ Goto(r, pc) /\ memSwitch' = [u \in Users |-> 0]
      /\ UNCHANGED <<tables, memOwner, cached, panel, now, history>>
  BY DEF FlushMaps
<1>2. req[r].pc \in Wiping /\ pc \in Places \cap Wiping
  BY <1>1 DEF Wiping, Places
<1>3. req[r].pc \in Wiped /\ pc \in Wiped
  BY <1>1 DEF Wiped
<1>4. PICK q \in Call : /\ req' = [req EXCEPT ![r] = q] /\ q.pc # "publish"
                        /\ Way(q) /\ End(q, Alive) /\ Safe(q, spared)
  BY <1>1, <1>2, <1>3, Wipes
<1>5. Tables' /\ Keys' /\ Maps'
  BY <1>1 DEF NukeInv, Tables, Keys, Alive, Maps, tables, history
<1> QED
  BY <1>1, <1>4, <1>5, Proceeds DEF tables, history

LEMMA InvalidateCanaryKeeps ==
  ASSUME NukeInv, NEW r \in Requests, InvalidateCanary(r)
  PROVE  NukeInv'
<1> PICK pc : pc = "retireAll"
  OBVIOUS
<1>1. /\ req[r].pc = "invalidate" /\ Goto(r, pc) /\ ~cached' /\ cached' \in BOOLEAN
      /\ UNCHANGED <<tables, memSwitch, memOwner, panel, now, history>>
  BY DEF InvalidateCanary
<1>2. req[r].pc \in Wiping /\ pc \in Places \cap Wiping
  BY <1>1 DEF Wiping, Places
<1>3. req[r].pc \in Wiped /\ pc \in Wiped
  BY <1>1 DEF Wiped
<1>4. PICK q \in Call : /\ req' = [req EXCEPT ![r] = q] /\ q.pc # "publish"
                        /\ Way(q) /\ End(q, Alive) /\ Safe(q, spared)
  BY <1>1, <1>2, <1>3, Wipes
<1>5. Tables' /\ Keys' /\ Maps'
  BY <1>1 DEF NukeInv, Tables, Keys, Alive, Maps, tables, history
<1>6. Canaries'
  <2>1. active' \in Nat /\ active' <= active /\ active' = active
    BY <1>1 DEF NukeInv, Canaries, tables, history
  <2>2. active' + Cardinality(Publishers') <= Cardinality(Requests)
    BY <1>4, <2>1, CountKept
  <2> QED
    BY <1>1, <2>1, <2>2 DEF NukeInv, Canaries
<1> QED
  BY <1>1, <1>4, <1>5, <1>6, Stays DEF tables, history

LEMMA RetireAllKeeps ==
  ASSUME NukeInv, NEW r \in Requests, RetireAll(r)
  PROVE  NukeInv'
<1>1. /\ req[r].pc = "retireAll" /\ Answer(r, "ok") /\ active' = 0
      /\ UNCHANGED <<accounts, unused, sched, things, personal, owner, maps, panel, now, history>>
  BY DEF RetireAll
<1>2. req[r].op # "destroy" /\ (req[r].op = "wipe" => req[r].list \cap Alive = {})
  BY <1>1 DEF NukeInv, Calls, End, Way, Wiping, Wiped
<1>3. PICK q \in Call : /\ req' = [req EXCEPT ![r] = q] /\ q.pc \in {"idle", "done"}
                        /\ Way(q) /\ End(q, Alive) /\ \A us : Safe(q, us)
  BY <1>1, <1>2, AnswerMoves
<1>4. Tables' /\ Keys' /\ Maps'
  BY <1>1 DEF NukeInv, Tables, Keys, Alive, Maps, maps, history
<1>5. Canaries'
  <2>1. active' \in Nat /\ active' <= active
    BY <1>1 DEF NukeInv, Canaries
  <2>2. active' + Cardinality(Publishers') <= Cardinality(Requests)
    BY <1>3, <2>1, CountKept
  <2> QED
    BY <1>1, <2>1, <2>2 DEF NukeInv, Canaries, maps
<1> QED
  BY <1>1, <1>3, <1>4, <1>5, Stays DEF history
-----------------------------------------------------------------------------
\* The sweep finds nobody due by a schedule who was spared.
LEMMA SweepOwnerKeeps ==
  ASSUME NukeInv, NEW r \in Requests, SweepOwner(r)
  PROVE  NukeInv'
<1> PICK c : c = req[r]
  OBVIOUS
<1>1. /\ c \in Call /\ Way(c) /\ Safe(c, spared) /\ c.pc = "owner" /\ c.op = "sweep"
      /\ c.list = {} /\ c.phase = "none" /\ UNCHANGED <<tables, maps, panel, now, history>>
  BY DEF SweepOwner, NukeInv, Calls, Way, Destroying, Wiped
<1>2. PICK q \in Call : /\ req' = [req EXCEPT ![r] = q] /\ q.op = "sweep" /\ q.list = {}
                        /\ q.pc \in {"ping", "next"} /\ (q.pc = "ping" => q.phase = "none")
  <2> PICK ping, next, phase : ping = "ping" /\ next = "next" /\ phase = "owner"
    OBVIOUS
  <2>1. /\ ping \in Places /\ next \in Places
        /\ phase \in {"none", "owner", "personal", "scheduled"}
    BY DEF Places
  <2>2. CASE owner.on /\ owner.due < now
    <3> PICK q : q = [c EXCEPT !.pc = ping]
      OBVIOUS
    <3>1. q \in Call /\ q.op = "sweep" /\ q.list = {} /\ q.pc = ping /\ q.phase = "none"
      BY <1>1, <2>1 DEF Call
    <3>2. req' = [req EXCEPT ![r] = q]
      BY <2>2 DEF SweepOwner
    <3> QED
      BY <3>1, <3>2
  <2>3. CASE ~(owner.on /\ owner.due < now)
    <3> PICK q : q = [c EXCEPT !.pc = next, !.phase = phase]
      OBVIOUS
    <3>1. q \in Call /\ q.op = "sweep" /\ q.list = {} /\ q.pc = next
      BY <1>1, <2>1 DEF Call
    <3>2. req' = [req EXCEPT ![r] = q]
      BY <2>3 DEF SweepOwner
    <3> QED
      BY <3>1, <3>2
  <2> QED
    BY <2>2, <2>3
<1>3. Way(q) /\ End(q, Alive) /\ Safe(q, spared)
  BY <1>2 DEF Way, End, Safe, Threatens, Destroying, Wiping, Wiped
<1> QED
  BY <1>1, <1>2, <1>3, Passes

LEMMA SweepNextKeeps ==
  ASSUME NukeInv, NEW r \in Requests, SweepNext(r)
  PROVE  NukeInv'
<1> PICK c : c = req[r]
  OBVIOUS
<1>1. /\ c \in Call /\ Way(c) /\ Safe(c, spared) /\ c.pc = "next" /\ c.op = "sweep"
      /\ UNCHANGED <<tables, maps, panel, now, history>>
  BY DEF SweepNext, NukeInv, Calls, Way
<1>2. ASSUME NEW u \in c.list, req' = [req EXCEPT ![r].pc = "overwriteNodes", ![r].user = u]
      PROVE  NukeInv'
  <2> PICK pc : pc = "overwriteNodes"
    OBVIOUS
  <2> PICK q : q = [c EXCEPT !.pc = pc, !.user = u]
    OBVIOUS
  <2>1. pc \in Places /\ u \in Users
    BY <1>1 DEF Places, Call
  <2>2. /\ q \in Call /\ q.pc = pc /\ q.user = u /\ q.op = "sweep" /\ q.list = c.list
        /\ q.phase = c.phase
    BY <1>1, <2>1 DEF Call
  <2>3. Way(q) /\ End(q, Alive) /\ Safe(q, spared)
    BY <1>1, <2>2 DEF Way, End, Safe, Threatens, Destroying, Wiping, Wiped
  <2>4. req' = [req EXCEPT ![r] = q] /\ q.pc # "publish"
    BY <1>2, <2>2
  <2> QED
    BY <1>1, <2>2, <2>3, <2>4, Passes
<1>3. ASSUME c.list = {}, c.phase \in DOMAIN NextPhase,
             req' = [req EXCEPT ![r].phase = NextPhase[@],
                                ![r].list = Due(NextPhase[req[r].phase])]
      PROVE  NukeInv'
  <2> PICK phase, list : phase = NextPhase[c.phase] /\ list = Due(phase)
    OBVIOUS
  <2> PICK q : q = [c EXCEPT !.phase = phase, !.list = list]
    OBVIOUS
  <2>1. phase \in {"personal", "scheduled"}
    BY <1>3 DEF NextPhase
  <2>2. list \in SUBSET Users
    BY DEF Due, NukeInv, Tables
  <2>3. phase = "scheduled" => \A u \in spared : u \notin list
    BY DEF Due, NukeInv, Keys
  <2>4. /\ q \in Call /\ q.pc = "next" /\ q.op = "sweep" /\ q.list = list /\ q.phase = phase
    BY <1>1, <2>1, <2>2 DEF Call
  <2>5. Way(q) /\ End(q, Alive)
    BY <2>1, <2>4 DEF Way, End, Destroying, Wiping, Wiped
  <2>6. Safe(q, spared)
    BY <2>3, <2>4 DEF Safe, Threatens
  <2>7. req' = [req EXCEPT ![r] = q]
    BY <1>3
  <2> QED
    BY <1>1, <2>4, <2>5, <2>6, <2>7, Passes
<1>4. ASSUME Answer(r, "ok") PROVE NukeInv'
  BY <1>1, <1>4, AnswersPass
<1> QED
  BY <1>2, <1>3, <1>4 DEF SweepNext
-----------------------------------------------------------------------------
\* The panel and the other clients.
LEMMA WaitingTyped ==
  ASSUME NukeInv, NEW what \in {"schedule", "destroy", "switch"}, Waiting(what)
  PROVE  Panels'
BY DEF NukeInv, Panels, Waiting

\* A request that sets or moves no date of a schedule.
LEMMA PlainReceived ==
  ASSUME NukeInv, NEW r \in Requests, NEW op \in Ops \ {"schedule", "setup", "ownerSetup"},
         NEW u \in Users, Plain(r, op, u), op = "destroy" => u \notin Newcomers
  PROVE  Tables' /\ Keys' /\ Calls' /\ Maps' /\ Canaries'
<1>1. 0 \in Nat /\ 0 \in 0..Latest
  BY LatestBounds
<1> QED
  BY <1>1, Receives DEF Plain

LEMMA ScheduleReceived ==
  ASSUME NukeInv, NEW r \in Requests, NEW u \in Users, Schedule(r, u)
  PROVE  Tables' /\ Keys' /\ Calls' /\ Maps' /\ Canaries'
<1>1. PICK t \in (now + 1)..MaxTime : Received(r, "schedule", u, t, t) /\ spared' = spared \ {u}
  BY DEF Schedule
<1>2. t \in 0..MaxTime
  BY NukeAssumption DEF NukeInv, Tables
<1>3. t \in Nat /\ t \in 0..Latest /\ "schedule" \in Ops
  BY <1>2, LatestBounds, NukeAssumption DEF Ops
<1> QED
  BY <1>1, <1>3, Receives

LEMMA SetupReceived ==
  ASSUME NukeInv, NEW r \in Requests, NEW u \in Users, NEW op \in {"setup", "ownerSetup"},
         NEW i \in Intervals, Received(r, op, u, i, now + i), UNCHANGED spared
  PROVE  Tables' /\ Keys' /\ Calls' /\ Maps' /\ Canaries'
<1>1. i \in Nat /\ now + i \in 0..Latest /\ op \in Ops /\ op # "schedule"
  BY LatestBounds, NukeAssumption DEF NukeInv, Tables, Ops
<1> QED
  BY <1>1, Receives

LEMMA PanelKeeps ==
  ASSUME NukeInv, \/ PanelArm \/ PanelCancel \/ PanelDestroy
                  \/ PanelSetup \/ PanelReset \/ PanelOwnerSetup \/ PanelOwnerReset
  PROVE  NukeInv'
<1>1. Mine \in Requests /\ panel.me \in Users \ Newcomers /\ Admin \in Users
  BY NukeAssumption DEF NukeInv, Panels
<1>2. CASE UNCHANGED <<tables, maps, req, now, history>>
           /\ \E b \in BOOLEAN : panel' = [panel EXCEPT !.pinned = b]
  <2>1. Panels'
    <3>1. PICK b \in BOOLEAN : panel' = [panel EXCEPT !.pinned = b]
      BY <1>2
    <3> QED
      BY <3>1 DEF NukeInv, Panels
  <2>2. Publishers' = Publishers
    BY <1>2 DEF Publishers
  <2> QED
    BY <1>2, <2>1, <2>2
       DEF NukeInv, Tables, Keys, Alive, Calls, Maps, Canaries, tables, maps, history
<1>3. CASE Schedule(Mine, panel.me) /\ Waiting("schedule")
  BY <1>1, <1>3, WaitingTyped, ScheduleReceived DEF NukeInv
<1>4. CASE SelfDestruct(Mine, panel.me) /\ Waiting("destroy")
  <2>1. "destroy" \in Ops \ {"schedule", "setup", "ownerSetup"}
    BY DEF Ops
  <2> QED
    BY <1>1, <1>4, <2>1, WaitingTyped, PlainReceived DEF NukeInv, SelfDestruct
<1>5. CASE PersonalSetup(Mine, panel.me) /\ Waiting("switch")
  <2>1. PICK i \in Intervals :
          Received(Mine, "setup", panel.me, i, now + i) /\ UNCHANGED spared
    BY <1>5 DEF PersonalSetup
  <2> QED
    BY <1>1, <1>5, <2>1, WaitingTyped, SetupReceived DEF NukeInv
<1>6. CASE OwnerSetup(Mine) /\ Waiting("switch")
  <2>1. PICK i \in Intervals :
          Received(Mine, "ownerSetup", Admin, i, now + i) /\ UNCHANGED spared
    BY <1>6 DEF OwnerSetup
  <2> QED
    BY <1>1, <1>6, <2>1, WaitingTyped, SetupReceived DEF NukeInv
<1>7. CASE (PersonalHeartbeat(Mine, panel.me) \/ OwnerHeartbeat(Mine)) /\ Waiting("switch")
  <2>1. {"heartbeat", "ownerHeartbeat"} \subseteq Ops \ {"schedule", "setup", "ownerSetup"}
    BY DEF Ops
  <2> QED
    BY <1>1, <1>7, <2>1, WaitingTyped, PlainReceived
       DEF NukeInv, PersonalHeartbeat, OwnerHeartbeat
<1> QED
  BY <1>2, <1>3, <1>4, <1>5, <1>6, <1>7
     DEF PanelArm, PanelCancel, PanelDestroy, PanelSetup, PanelReset, PanelOwnerSetup,
         PanelOwnerReset, scheduleSelfDestruct, cancelScheduledDestruct, userSelfDestruct,
         setupPersonalDms, resetPersonalDmsHeartbeat, setupOwnerDms, resetOwnerDmsHeartbeat

\* The answer is read and the slot is free again.
LEMMA SlotFreed ==
  ASSUME NukeInv, NEW r \in Requests, req' = [req EXCEPT ![r] = idle],
         UNCHANGED <<tables, maps, now, history>>, Panels'
  PROVE  NukeInv'
<1> PICK q : q = idle
  OBVIOUS
<1>1. /\ q \in Call /\ q.pc # "publish" /\ Way(q) /\ End(q, Alive') /\ Safe(q, spared')
      /\ req' = [req EXCEPT ![r] = q]
  BY IdleCall
<1>2. Canaries'
  BY <1>1, CanariesKept DEF tables, maps, history
<1>3. Calls'
  <2>1. Alive' \subseteq Alive /\ \A s \in Requests \ {r} : Safe(req[s], spared')
    BY DEF NukeInv, Calls, tables, history, Alive
  <2> QED
    BY <1>1, <2>1, CallMoves DEF NukeInv
<1> QED
  BY <1>2, <1>3 DEF NukeInv, Tables, Keys, Alive, Maps, tables, maps, history

LEMMA PanelAnsweredKeeps ==
  ASSUME NukeInv, PanelAnswered
  PROVE  NukeInv'
<1> PICK out, pinned : /\ out = (panel.waits = "destroy")
                       /\ pinned = (panel.waits = "schedule"
                                    \/ (panel.pinned /\ panel.waits = "switch"))
  OBVIOUS
<1>1. out \in BOOLEAN /\ pinned \in BOOLEAN
  OBVIOUS
<1>2. panel' = [panel EXCEPT !.waits = "none", !.out = out, !.pinned = pinned]
  BY DEF PanelAnswered
<1>3. Panels'
  BY <1>1, <1>2 DEF NukeInv, Panels
<1> QED
  BY <1>3, SlotFreed, NukeAssumption DEF PanelAnswered

LEMMA OtherClientKeeps ==
  ASSUME NukeInv, NEW r \in Requests, OtherClient(r)
  PROVE  NukeInv'
<1>1. Panels' /\ Admin \in Users /\ Callers \subseteq Users
  BY NukeAssumption DEF OtherClient, NukeInv, Panels
<1>2. {"cancel", "unlock", "wipe", "canary", "sweep"}
        \subseteq Ops \ {"schedule", "setup", "ownerSetup"}
  BY DEF Ops
<1>3. ASSUME NEW op \in {"cancel", "unlock", "wipe", "canary", "sweep"}, NEW u \in Users,
             Plain(r, op, u)
      PROVE  NukeInv'
  BY <1>1, <1>2, <1>3, PlainReceived DEF NukeInv
<1>4. ASSUME NEW u \in Callers, Schedule(r, u) PROVE NukeInv'
  BY <1>1, <1>4, ScheduleReceived DEF NukeInv
<1>5. CASE req' = [req EXCEPT ![r] = idle] /\ UNCHANGED <<tables, maps, now, history>>
  BY <1>1, <1>5, SlotFreed
<1> QED
  BY <1>1, <1>3, <1>4, <1>5
     DEF OtherClient, CancelScheduled, PersonalUnlock, OwnerTrigger, CanaryText

LEMMA WorldKeeps ==
  ASSUME NukeInv, (\E x \in Things : Enroll(x)) \/ Tick \/ UNCHANGED vars
  PROVE  NukeInv'
<1>1. /\ UNCHANGED <<accounts, unused, sched, personal, owner, active, maps, req, panel, history>>
      /\ \/ UNCHANGED things
         \/ \E x \in Things : OwnerOf[x] \in accounts /\ things' = things \cup {x}
  BY DEF Enroll, Tick, vars, tables
<1>2. now' \in 0..MaxTime
  BY NukeAssumption DEF Enroll, Tick, vars, NukeInv, Tables
<1>3. Tables' /\ Keys'
  BY <1>1, <1>2 DEF NukeInv, Tables, Keys, Alive, history
<1>4. Calls' /\ Maps' /\ Panels'
  BY <1>1 DEF NukeInv, Calls, Maps, Panels, maps, history, Alive
<1>5. Publishers' = Publishers
  BY <1>1 DEF Publishers
<1>6. Canaries'
  BY <1>1, <1>5 DEF NukeInv, Canaries, maps, history
<1> QED
  BY <1>3, <1>4, <1>6 DEF NukeInv

\* Who registers was to come: nobody comes back.
LEMMA RegisterKeeps ==
  ASSUME NukeInv, NEW u \in Users, Register(u)
  PROVE  NukeInv'
<1>1. /\ u \in unused /\ unused' = unused \ {u} /\ accounts' = accounts \cup {u}
      /\ UNCHANGED <<sched, things, personal, owner, active, maps, req, panel, now, history>>
  BY DEF Register
<1>2. Alive' = Alive
  BY <1>1 DEF Alive
<1>3. Tables' /\ Keys'
  BY <1>1, <1>2 DEF NukeInv, Tables, Keys, history
<1>4. Calls' /\ Maps' /\ Panels'
  BY <1>1, <1>2 DEF NukeInv, Calls, Maps, Panels, maps, history
<1>5. Publishers' = Publishers
  BY <1>1 DEF Publishers
<1>6. Canaries'
  BY <1>1, <1>5 DEF NukeInv, Canaries, maps
<1> QED
  BY <1>3, <1>4, <1>6 DEF NukeInv
-----------------------------------------------------------------------------
LEMMA ServeKeeps ==
  ASSUME NukeInv, NEW r \in Requests, Serve(r)
  PROVE  NukeInv'
BY UpdateScheduleKeeps, CancelScheduleKeeps, InsertKeeps, FindKeeps, BeatKeeps,
   RememberSwitchKeeps, LookupCanaryKeeps, CacheCanaryKeeps, RecallCanaryKeeps,
   RetireCanariesKeeps, PublishCanaryKeeps,
   OverwriteNodesKeeps, DestroyingKeeps, DeleteUserKeeps, ClearMapsKeeps, WipeTableKeeps,
   WipeUsersKeeps, FlushMapsKeeps, InvalidateCanaryKeeps, RetireAllKeeps, SweepOwnerKeeps,
   SweepNextKeeps DEF Serve

LEMMA NukeStep == NukeInv /\ [Next]_vars => NukeInv'
BY ServeKeeps, PanelKeeps, PanelAnsweredKeeps, OtherClientKeeps, RegisterKeeps, WorldKeeps
   DEF Next

\* What the tables, the maps and the requests under way keep of each other.
THEOREM NukeInvariant == Spec => []NukeInv
BY InitNuke, NukeStep, PTL DEF Spec

\* The tables, the maps and the panel hold what they may: what an account has goes
\* with it, and no more canaries are active than requests published
\* (NukeEngine.js, CanaryService.js:120).
THEOREM NukeTypes == Spec => []TypeOK
<1>1. NukeInv => TypeOK
  <2> SUFFICES ASSUME NukeInv PROVE TypeOK
    OBVIOUS
  <2>1. active \in 0..Cardinality(Requests)
    BY PublisherCount DEF NukeInv, Canaries
  <2>2. \A r \in Requests : /\ req[r].op \in Ops /\ req[r].user \in Users
                            /\ req[r].due \in 0..Latest /\ req[r].list \subseteq Users
    BY DEF NukeInv, Calls, Call
  <2>3. unused \subseteq Users \ accounts
    BY NukeAssumption DEF NukeInv, Tables
  <2> QED
    BY <2>1, <2>2, <2>3 DEF NukeInv, Tables, Maps, Canaries, Panels, TypeOK
<1> QED
  BY <1>1, NukeInvariant, PTL

\* An answered destruction, and an answered wipe, have left nothing of those they
\* deleted, whoever registered and whatever was enrolled, armed or published
\* meanwhile (NukeEngine.js:145, NukeEngine.js:820).
THEOREM WipesLeaveNothing == Spec => []WipeLeavesNothing
<1>1. NukeInv => WipeLeavesNothing
  <2> SUFFICES ASSUME NukeInv PROVE WipeLeavesNothing
    OBVIOUS
  <2>1. ASSUME NEW u \in Users, u \notin Alive
        PROVE  Gone(u)
    BY <2>1 DEF NukeInv, Keys, Gone, Owned, Alive
  <2>2. ASSUME NEW r \in Requests, req[r].pc = "done", req[r].op = "destroy",
               req[r].answer = "ok"
        PROVE  req[r].user \in Users /\ req[r].user \notin Alive
    BY <2>2 DEF NukeInv, Calls, End, Call
  <2>3. ASSUME NEW r \in Requests, req[r].pc = "done", req[r].op = "wipe",
               NEW u \in req[r].list
        PROVE  u \in Users /\ u \notin Alive
    BY <2>3 DEF NukeInv, Calls, End, Call, Wiped
  <2> QED
    BY <2>1, <2>2, <2>3 DEF WipeLeavesNothing
<1> QED
  BY <1>1, NukeInvariant, PTL

\* A cancellation in time holds: the account never falls to the schedule it
\* cancelled (NukeEngine.js:295).
THEOREM SparedForGood == Spec => []CancelledMeansSpared
<1>1. NukeInv => CancelledMeansSpared
  BY DEF NukeInv, Keys, CancelledMeansSpared
<1> QED
  BY <1>1, NukeInvariant, PTL
=============================================================================
