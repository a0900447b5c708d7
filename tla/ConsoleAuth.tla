---------------------------- MODULE ConsoleAuth ----------------------------
(***************************************************************************)
(* The console's accounts and tokens: console/backend/routes/auth.js,      *)
(* routes/users.js, middleware/auth.js and the revocation list of          *)
(* db/valkey.js, run by several replicas over one PostgreSQL database and  *)
(* one Valkey (docs/HA_ARCHITECTURE.md, section 2.2).                      *)
(*                                                                         *)
(* A request is served by one replica.  Every await of a query, of Valkey  *)
(* or of bcrypt ends a step; what the handler read before it is kept in    *)
(* the request's record and may be stale when it is used.  Tokens are      *)
(* numbered in the order they are signed.                                  *)
(*                                                                         *)
(* Two things the handlers try never happen with the schema they run on.   *)
(* The row that a logout inserts into refresh_tokens is refused: its       *)
(* token_hash column (db/migrations/001_initial_pg_schema.sql:154) is      *)
(* narrower than any token, and the error is dropped (routes/auth.js:338). *)
(* And no migration gives users the columns of the root, stealth and       *)
(* nuclear passwords: storing one fails and no login ever matches one, so  *)
(* what a login does after such a match (routes/auth.js:150-183) is dead.  *)
(***************************************************************************)
EXTENDS Integers, Sequences, FiniteSets

CONSTANTS
  Roles,          \* the roles new accounts are given: user, super-admin
  Users,          \* accounts, each with a username of its own
  FirstUsers,     \* the accounts the seed creates
  Requests,       \* slots for requests in flight
  Replicas,       \* processes of the console
  Statuses,       \* the statuses an administrator sets
  AccessTTL,      \* JWT_EXPIRES_IN, 15 minutes
  BlacklistTTL,   \* the 900 seconds of blacklistToken
  MaxTokens, MaxTime,
  MaxFaults       \* restarts, and connections to Valkey that are lost

ASSUME TimesAssumption ==
  /\ AccessTTL \in Nat \ {0} /\ BlacklistTTL \in Nat /\ BlacklistTTL >= AccessTTL
  /\ MaxTokens \in Nat /\ MaxTime \in Nat /\ MaxFaults \in Nat
ASSUME SeedAssumption == FirstUsers \subseteq Users
\* The CHECK of the column status (001_initial_pg_schema.sql:27).
ASSUME StatusAssumption == Statuses \subseteq {"active", "suspended", "revoked"}

VARIABLES
  users,          \* the table: Users -> a row, or absent
  born,           \* ids that have been used
  tokens,         \* the tokens signed so far
  memory,         \* inMemoryBlacklist of each replica: token -> expiry
  valkey,         \* the keys blacklist:token:*: token -> expiry
  linked,         \* isConnected of each replica
  req,            \* the requests in flight
  out,            \* history: tokens whose logout is answered and known to Valkey
  now, faults

authVars == <<users, born, tokens, memory, valkey, linked, req, out, now, faults>>

absent == [status |-> "absent", role |-> "user"]
Row == [status : {"absent", "active", "suspended", "revoked"}, role : {"user", "super-admin"}]
Exists(u) == users[u].status # "absent"

PublicOps == {"register", "login", "refresh"}
AuthedOps == {"me", "logout", "setup", "create", "status", "delete"}
AdminOps == {"create", "delete"}

none == "none"
idle == [pc |-> "idle", op |-> none, at |-> none, tok |-> 0, arg |-> none, val |-> none,
         row |-> absent, late |-> FALSE, answer |-> 0, got |-> 0]

(* A request leaves the server with an HTTP status; 0 is a connection that *)
(* broke.  Of a refusal only the status matters.                           *)
Answered(r, code, newTok) ==
  IF code \in {200, 201}
    THEN [req[r] EXCEPT !.pc = "done", !.answer = code, !.got = newTok, !.row = absent,
                        !.at = none, !.val = none,
                        !.arg = IF req[r].op = "login" THEN @ ELSE none,
                        !.tok = IF req[r].op = "me" THEN @ ELSE 0]
    ELSE [idle EXCEPT !.pc = "done", !.answer = code]
Answer(r, code, newTok) == req' = [req EXCEPT ![r] = Answered(r, code, newTok)]
Goto(r, pc) == req' = [req EXCEPT ![r].pc = pc]

(* verifyToken / verifyRefreshToken: the signature and the expiry.         *)
Live(t) == t \in 1..Len(tokens) /\ now < tokens[t].exp
VerifyAccess(t) == Live(t) /\ tokens[t].kind = "access"

(* signToken and signRefreshToken copy the claims they are given.          *)
Signed(kind, user, role) ==
  [kind |-> kind, user |-> user, role |-> role,
   exp |-> IF kind = "access" THEN now + AccessTTL ELSE MaxTime + AccessTTL + 1]

TokenType == [kind : {"access", "refresh"}, user : Users, role : {"user", "super-admin"},
              exp : 1..(MaxTime + AccessTTL + 1)]

AuthTypeOK ==
  /\ users \in [Users -> Row] /\ born \subseteq Users
  /\ tokens \in Seq(TokenType) /\ Len(tokens) <= MaxTokens
  /\ memory \in [Replicas -> [1..MaxTokens -> 0..(MaxTime + BlacklistTTL)]]
  /\ valkey \in [1..MaxTokens -> 0..(MaxTime + BlacklistTTL)]
  /\ linked \in [Replicas -> BOOLEAN]
  /\ out \subseteq 1..MaxTokens
  /\ \A r \in Requests :
       /\ req[r].pc \in {"idle", "valkey", "select", "handle", "insert", "compare",
                         "persist", "write", "done"}
       /\ req[r].op \in PublicOps \cup AuthedOps \cup {none} /\ req[r].at \in Replicas \cup {none}
       /\ req[r].tok \in 0..MaxTokens /\ req[r].got \in 0..MaxTokens
       /\ req[r].arg \in Users \cup {none} /\ req[r].row \in Row /\ req[r].late \in BOOLEAN
  /\ now \in 0..MaxTime /\ faults \in 0..MaxFaults

(* The accounts there are at first: db/seed.js fills a SQLite database     *)
(* with them, PostgreSQL is filled by hand.                                *)
AuthInit ==
  /\ users = [u \in Users |-> IF u \in FirstUsers
                               THEN [status |-> "active", role |-> "super-admin"]
                               ELSE absent]
  /\ born = FirstUsers
  /\ tokens = <<>> /\ out = {}
  /\ memory = [p \in Replicas |-> [t \in 1..MaxTokens |-> 0]]
  /\ valkey = [t \in 1..MaxTokens |-> 0]
  /\ linked = [p \in Replicas |-> TRUE]
  /\ req = [r \in Requests |-> idle]
  /\ now = 0 /\ faults = 0

db == <<users, born>>
lists == <<memory, valkey, linked>>
world == <<out, now, faults>>
-----------------------------------------------------------------------------
(* WHO: a client.  WHAT: a request reaches a replica.  A bearer token is   *)
(* looked up in the replica's own map first (isTokenBlacklisted).  The     *)
(* passwords a request carries are chosen where they are looked at.        *)
Bearer(op) == op \in AuthedOps \cup {"refresh"}
InMemory(p, t) == now < memory[p][t]

Arguments(op) ==
  CASE op \in {"register", "create"} -> (Users \ FirstUsers) \X Roles
    [] op = "login"  -> Users \X {none}
    [] op = "status" -> Users \X Statuses
    [] op = "delete" -> Users \X {none}
    [] OTHER         -> {<<none, none>>}

(* A request is late when what it relies on had ended, and somebody had    *)
(* been told so, before it was sent: the session of its token, or the good *)
(* standing of the account that signs in.                                  *)
Barred(u) == u \in born /\ users[u].status # "active"

Send(r, op, p, t) ==
  /\ req[r].pc = "idle"
  /\ Bearer(op) <=> t \in 1..Len(tokens)
  /\ \/ Bearer(op) /\ InMemory(p, t) /\ req' = [req EXCEPT ![r] = Answered(r, 401, 0)]
     \/ /\ Bearer(op) => ~InMemory(p, t)
        /\ \E a \in Arguments(op) : req' = [req EXCEPT ![r] =
             [idle EXCEPT !.op = op, !.at = p, !.tok = t, !.arg = a[1], !.val = a[2],
                !.late = IF op = "login" THEN Barred(a[1]) ELSE t \in out,
                !.pc = IF Bearer(op) THEN "valkey" ELSE "handle"]]
  /\ UNCHANGED <<db, lists, world, tokens>>

(* The answer of Valkey, if the replica is connected to it; if it is not,  *)
(* the request passes and nothing was promised of it.                      *)
\* Variant: asks its own map twice.
RevokedHere(r) == linked[req[r].at] /\ InMemory(req[r].at, req[r].tok)
Revoked(r) == linked[req[r].at] /\ now < valkey[req[r].tok]

CheckValkey(r) ==
  /\ req[r].pc = "valkey"
  /\ \/ Revoked(r) /\ Answer(r, 401, 0)
     \/ ~Revoked(r) /\ req' = [req EXCEPT
          ![r].pc = IF req[r].op = "refresh" THEN "handle" ELSE "select",
          ![r].late = @ /\ linked[req[r].at]]
  /\ UNCHANGED <<db, lists, world, tokens>>

(* authenticateToken, second half: the query for a revoked row (none is    *)
(* ever there), the signature, then requireRole.  The account itself is    *)
(* not looked up.                                                          *)
Claims(r) == tokens[req[r].tok]
Forbidden(r) == req[r].op \in AdminOps /\ Claims(r).role # "super-admin"

CheckRow(r) ==
  /\ req[r].pc = "select"
  /\ \/ ~VerifyAccess(req[r].tok) /\ Answer(r, 401, 0)
     \/ /\ VerifyAccess(req[r].tok)
        /\ IF Forbidden(r) THEN Answer(r, 403, 0) ELSE Goto(r, "handle")
  /\ UNCHANGED <<db, lists, world, tokens>>
-----------------------------------------------------------------------------
(* POST /auth/register and POST /users: look the name up, then insert a    *)
(* row; UNIQUE(username) is the database's.  A username is registered once *)
(* here, since a new row would have a new id.                              *)
FindName(r) ==
  /\ req[r].pc = "handle" /\ req[r].op \in {"register", "create"}
  /\ req[r].arg \in born => Exists(req[r].arg)
  /\ IF Exists(req[r].arg) THEN Answer(r, 409, 0) ELSE Goto(r, "insert")
  /\ UNCHANGED <<db, lists, world, tokens>>

NewRow(u, role) ==
  /\ users' = [users EXCEPT ![u] = [absent EXCEPT !.status = "active", !.role = role]]
  /\ born' = born \cup {u}

(* A registration asks for any role, and is given user unless it asked for *)
(* super-admin; it signs in at once.  When the row is there by now, the    *)
(* database refuses the second one.                                        *)
RoleAsked(r) == IF req[r].val = "super-admin" THEN "super-admin" ELSE "user"
Duplicate(r) == Answer(r, 500, 0) /\ UNCHANGED <<db, tokens>>

Register(r) ==
  LET u == req[r].arg
      n == Len(tokens)
  IN  /\ req[r].pc = "insert" /\ req[r].op = "register"
      /\ IF u \in born THEN Duplicate(r)
           ELSE /\ n + 2 <= MaxTokens
                /\ NewRow(u, RoleAsked(r))
                /\ tokens' = tokens \o <<Signed("access", u, RoleAsked(r)),
                                         Signed("refresh", u, RoleAsked(r))>>
                /\ Answer(r, 201, n + 1)
      /\ UNCHANGED <<lists, world>>

InsertUser(r) ==
  /\ req[r].pc = "insert" /\ req[r].op = "create"
  /\ IF req[r].arg \in born THEN Duplicate(r)
       ELSE NewRow(req[r].arg, RoleAsked(r)) /\ Answer(r, 201, 0) /\ UNCHANGED tokens
  /\ UNCHANGED <<lists, world>>

(* POST /auth/login: the row is read, bcrypt compares, and the row read    *)
(* first decides.                                                          *)
ReadAccount(r) ==
  /\ req[r].pc = "handle" /\ req[r].op = "login"
  /\ IF Exists(req[r].arg)
       THEN req' = [req EXCEPT ![r].pc = "compare", ![r].row = users[req[r].arg]]
       ELSE Answer(r, 401, 0)
  /\ UNCHANGED <<db, lists, world, tokens>>

\* Variant: whatever the status.
SignInAnyone(r, row) ==
  LET n == Len(tokens) IN
  /\ n + 2 <= MaxTokens
  /\ tokens' = tokens \o <<Signed("access", req[r].arg, row.role),
                           Signed("refresh", req[r].arg, row.role)>>
  /\ Answer(r, 200, n + 1)

SignIn(r, row) ==
  LET n == Len(tokens) IN
  IF row.status \in {"suspended", "revoked"}
    THEN Answer(r, 403, 0) /\ UNCHANGED tokens
    ELSE /\ n + 2 <= MaxTokens
         /\ tokens' = tokens \o <<Signed("access", req[r].arg, row.role),
                                  Signed("refresh", req[r].arg, row.role)>>
         /\ Answer(r, 200, n + 1)

Login(r) ==
  /\ req[r].pc = "compare"
  /\ \/ Answer(r, 401, 0) /\ UNCHANGED tokens      \* the password is wrong
     \/ SignIn(r, req[r].row)
  /\ UNCHANGED <<db, lists, world>>

(* POST /auth/refresh: either kind of token, and only its claims.          *)
Refresh(r) ==
  LET t == req[r].tok
      n == Len(tokens)
  IN  /\ req[r].pc = "handle" /\ req[r].op = "refresh"
      /\ IF Live(t)
           THEN /\ n < MaxTokens
                /\ tokens' = Append(tokens, Signed("access", tokens[t].user, tokens[t].role))
                /\ Answer(r, 200, n + 1)
           ELSE Answer(r, 401, 0) /\ UNCHANGED tokens
      /\ UNCHANGED <<db, lists, world>>
-----------------------------------------------------------------------------
(* GET /auth/me, and the reads of /users: 404 when the account is gone.    *)
Me(r) ==
  /\ req[r].pc = "handle" /\ req[r].op = "me"
  /\ Answer(r, IF Exists(Claims(r).user) THEN 200 ELSE 404, 0)
  /\ UNCHANGED <<db, lists, world, tokens>>

(* POST /auth/logout: the replica's map at once, then Valkey, then a row.  *)
Logout(r) ==
  /\ req[r].pc = "handle" /\ req[r].op = "logout"
  /\ memory' = [memory EXCEPT ![req[r].at][req[r].tok] = now + BlacklistTTL]
  /\ Goto(r, "persist")
  /\ UNCHANGED <<db, valkey, linked, world, tokens>>

StoreRevocation(r) ==
  /\ req[r].pc = "persist"
  /\ valkey' = IF linked[req[r].at]
                 THEN [valkey EXCEPT ![req[r].tok] = now + BlacklistTTL] ELSE valkey
  /\ Goto(r, "write")
  /\ UNCHANGED <<db, memory, linked, world, tokens>>

(* The insert into refresh_tokens fails; the answer is the same.           *)
AnswerLogout(r) ==
  /\ req[r].pc = "write" /\ req[r].op = "logout"
  /\ out' = IF valkey[req[r].tok] > 0 THEN out \cup {req[r].tok} ELSE out
  /\ Answer(r, 200, 0)
  /\ UNCHANGED <<db, lists, now, faults, tokens>>

(* POST /auth/setup-passwords: hashing awaits, then one UPDATE, which      *)
(* names a column that is not there if a tier is among the passwords.  The *)
(* standard password it stores is not modelled.                            *)
SetupPasswords(r) ==
  /\ req[r].pc = "handle" /\ req[r].op = "setup"
  /\ \/ Answer(r, 200, 0)      \* the standard password alone
     \/ Answer(r, 500, 0)      \* a tier is among them
     \/ Answer(r, 400, 0)      \* there is none
  /\ UNCHANGED <<db, lists, world, tokens>>

(* PUT and DELETE /users/:id: look the row up, then change it.  Only an    *)
(* administrator's token moves the status.                                 *)
SelfOrAdmin(r) == Claims(r).role = "super-admin" \/ Claims(r).user = req[r].arg

FindUser(r) ==
  /\ req[r].pc = "handle" /\ req[r].op \in {"status", "delete"}
  /\ \/ req[r].op = "status" /\ ~SelfOrAdmin(r) /\ Answer(r, 403, 0)
     \/ /\ req[r].op = "status" => SelfOrAdmin(r)
        /\ IF Exists(req[r].arg) THEN Goto(r, "write") ELSE Answer(r, 404, 0)
  /\ UNCHANGED <<db, lists, world, tokens>>

(* Who is set active again is not late any more.                           *)
UpdateUser(r) ==
  LET u == req[r].arg
      moves == Claims(r).role = "super-admin" /\ Exists(u)
  IN  /\ req[r].pc = "write" /\ req[r].op = "status"
      /\ users' = IF moves THEN [users EXCEPT ![u].status = req[r].val] ELSE users
      /\ req' = [s \in Requests |->
           IF s = r THEN Answered(r, 200, 0)
             ELSE [req[s] EXCEPT !.late = @ /\ ~(moves /\ req[s].op = "login" /\ req[s].arg = u
                                                /\ req[r].val = "active")]]
      /\ UNCHANGED <<born, lists, world, tokens>>

\* Variant: the row is kept, marked.
DeleteUserSoftly(r) ==
  /\ req[r].pc = "write" /\ req[r].op = "delete"
  /\ users' = [users EXCEPT ![req[r].arg].status = "deleted"]
  /\ Answer(r, 200, 0)
  /\ UNCHANGED <<born, lists, world, tokens>>

DeleteUser(r) ==
  /\ req[r].pc = "write" /\ req[r].op = "delete"
  /\ users' = [users EXCEPT ![req[r].arg] = absent]
  /\ Answer(r, 200, 0)
  /\ UNCHANGED <<born, lists, world, tokens>>
-----------------------------------------------------------------------------
(* A replica stops and starts: its map is gone, its requests are cut off.  *)
Restart(p) ==
  /\ faults < MaxFaults /\ faults' = faults + 1
  /\ memory' = [memory EXCEPT ![p] = [t \in 1..MaxTokens |-> 0]]
  /\ req' = [r \in Requests |->
               IF req[r].at = p /\ req[r].pc \notin {"idle", "done"}
                 THEN Answered(r, 0, 0) ELSE req[r]]
  /\ linked' = [linked EXCEPT ![p] = TRUE]
  /\ UNCHANGED <<db, valkey, out, now, tokens>>

(* ioredis reports an error, or connects again.                            *)
ValkeyLink(p) ==
  /\ linked' = [linked EXCEPT ![p] = ~@]
  /\ linked[p] => faults < MaxFaults
  /\ faults' = IF linked[p] THEN faults + 1 ELSE faults
  /\ UNCHANGED <<db, memory, valkey, out, now, tokens, req>>

Tick ==
  /\ now < MaxTime /\ now' = now + 1
  /\ UNCHANGED <<db, lists, tokens, req, out, faults>>

Serve(r) ==
  \/ CheckValkey(r) \/ CheckRow(r) \/ FindName(r) \/ Register(r) \/ InsertUser(r)
  \/ ReadAccount(r) \/ Login(r) \/ Refresh(r) \/ Me(r) \/ Logout(r)
  \/ StoreRevocation(r) \/ AnswerLogout(r) \/ SetupPasswords(r) \/ FindUser(r)
  \/ UpdateUser(r) \/ DeleteUser(r)

Environment == (\E p \in Replicas : Restart(p) \/ ValkeyLink(p)) \/ Tick
-----------------------------------------------------------------------------
(* A request that arrives, at any replica, after the logout of its token   *)
(* was answered is not served: neither by a handler behind                 *)
(* authenticateToken nor by a refresh (docs/HA_ARCHITECTURE.md:98).  It    *)
(* holds as far as Valkey carries it: the logout was stored there and the  *)
(* replica that checks is connected.                                       *)
Accepted(r) ==
  \/ req[r].pc \in {"insert", "persist", "write"}
  \/ req[r].pc = "handle" /\ req[r].op \in AuthedOps
  \/ req[r].pc = "done" /\ req[r].answer \in {200, 201}
LoggedOutStaysOut ==
  \A r \in Requests : req[r].late /\ Bearer(req[r].op) => ~Accepted(r)

(* An account that is suspended, revoked or deleted signs in no more: of   *)
(* the logins, only one that had been sent before may still succeed with   *)
(* the row it has read (routes/auth.js:113).                               *)
BarredStaysOut ==
  \A r \in Requests : req[r].late /\ req[r].op = "login" => req[r].got = 0
=============================================================================
