------------------------ MODULE ConsoleBrowserProofs ------------------------
(***************************************************************************)
(* The types of ConsoleAuth and ConsoleBrowser, and what they promise: a   *)
(* revoked token opens nothing, a barred account signs in no more, a tab   *)
(* that has logged out stays so.  For any accounts, replicas, tabs and     *)
(* requests under way, and any life of a token not longer than the life of *)
(* its revocation.                                                         *)
(*                                                                         *)
(* A request that is late is on a way that ends in a refusal (Lateness):   *)
(* it has yet to ask Valkey, or it was let through with a token that has   *)
(* expired, or the row it has read bars it.  That it has expired needs     *)
(* that a revocation in Valkey outlives its token (Revocations), which     *)
(* holds because the token was an access token when the logout passed the  *)
(* middleware (Fits), and those live for AccessTTL (Lifetimes).            *)
(***************************************************************************)
EXTENDS ConsoleBrowser, TLAPS

Pending(q) == q.pc \notin {"idle", "done"}
Codes == {0, 200, 201, 400, 401, 403, 404, 409, 500}
Request ==
  [pc : {"idle", "valkey", "select", "handle", "insert", "compare", "persist", "write", "done"},
   op : PublicOps \cup AuthedOps \cup {none}, at : Replicas \cup {none},
   tok : 0..MaxTokens, arg : Users \cup {none}, val : Roles \cup Statuses \cup {none},
   row : Row, late : BOOLEAN, answer : Codes, got : 0..MaxTokens]

\* What a request carries at each of its steps.
Fits(q) ==
  /\ q.pc = "valkey" => Bearer(q.op)
  /\ q.pc = "select" => q.op \in AuthedOps
  /\ q.pc = "handle" => q.op # none
  /\ q.pc = "insert" => q.op \in {"register", "create"}
  /\ q.pc = "compare" => q.op = "login"
  /\ q.pc = "persist" => q.op = "logout"
  /\ q.pc = "write" => q.op \in {"logout", "status", "delete"}
  /\ Pending(q) => /\ q.at \in Replicas
                   /\ Bearer(q.op) => q.tok \in 1..Len(tokens)
                   /\ q.op \in {"register", "create", "login", "status", "delete"} =>
                        q.arg \in Users
                   /\ q.op = "status" => q.val \in Statuses
                   /\ q.op = "logout" /\ q.pc \notin {"valkey", "select"} =>
                        tokens[q.tok].kind = "access"
  /\ q.got # 0 => q.pc = "done"
  /\ q.answer \in {200, 201} =>
       /\ q.pc = "done" /\ q.op # none
       /\ q.op = "me" => q.tok \in 1..Len(tokens)
       /\ q.op = "login" => q.arg \in Users

\* Where a late request can be.
Lateness(q) == q.late =>
  \/ q.pc = "valkey" /\ q.tok \in out
  \/ q.pc = "select" /\ now >= tokens[q.tok].exp
  \/ q.pc = "handle" /\ q.op = "refresh" /\ now >= tokens[q.tok].exp
  \/ q.pc = "handle" /\ q.op = "login" /\ Barred(q.arg)
  \/ q.pc = "compare" /\ q.row.status \in {"suspended", "revoked"}

Handlers == /\ req \in [Requests -> Request]
            /\ \A r \in Requests : Fits(req[r]) /\ Lateness(req[r])

Lifetimes == \A t \in 1..Len(tokens) : tokens[t].kind = "access" => tokens[t].exp <= now + AccessTTL
Revocations == \A t \in 1..MaxTokens :
  /\ t \in out => valkey[t] > 0
  /\ valkey[t] > 0 => /\ t <= Len(tokens) /\ tokens[t].kind = "access"
                      /\ tokens[t].exp <= valkey[t]

\* The answers a tab waits for are answers to what it asked.
Owned == \A i \in Tabs :
  /\ tab[i].doing = "verify" => req[Main[i]].op \in {"me", none}
  /\ tab[i].doing = "login" => req[Main[i]].op \in {"login", none}
  /\ tab[i].aside => req[Side[i]].op \in {"me", none}
Away == \A i \in Tabs : left[i] => tab[i].token = 0 /\ tab[i].doing = "nothing"

AuthInv == AuthTypeOK /\ Handlers /\ Lifetimes /\ Revocations
IInv == TypeOK /\ AuthInv /\ Owned /\ Away
-----------------------------------------------------------------------------
LEMMA BasicTypes ==
  /\ absent \in Row /\ idle \in Request /\ Fits(idle) /\ Lateness(idle)
  /\ idle.pc = "idle" /\ idle.op = none /\ idle.late = FALSE
<1>1. absent \in Row
  BY DEF absent, Row
<1>2. 0 \in 0..MaxTokens
  BY TimesAssumption
<1>3. idle \in Request
  BY <1>1, <1>2 DEF idle, Request, Codes, PublicOps, AuthedOps
<1> QED
  BY <1>1, <1>3 DEF idle, Fits, Lateness, Pending

\* The tokens of before are there, unchanged.
Grows == /\ Len(tokens) <= Len(tokens')
         /\ \A t \in 1..Len(tokens) : tokens'[t] = tokens[t]

\* Nothing a request relies on is taken back.
Onward == /\ Grows /\ now <= now' /\ out \subseteq out'
          /\ \A u \in Users : Barred(u) => Barred(u)'

KeepsOps == \A s \in Requests : req'[s].op \in {req[s].op, none}

\* What is said of a request stays true while the world goes on around it.
LEMMA Carried ==
  ASSUME AuthInv, Onward, now' \in Nat, tokens' \in Seq(TokenType),
         NEW q \in Request, Fits(q), Lateness(q)
  PROVE  Fits(q)' /\ Lateness(q)'
<1>0. /\ now \in Nat /\ Len(tokens) \in Nat /\ Len(tokens') \in Nat
      /\ \A t \in 1..Len(tokens) : tokens[t] \in TokenType
      /\ q.tok \in Nat
  BY TimesAssumption DEF AuthInv, AuthTypeOK, Request
<1>1. q.tok \in 1..Len(tokens) => q.tok \in 1..Len(tokens') /\ tokens'[q.tok] = tokens[q.tok]
  BY <1>0 DEF Onward, Grows
<1>2. Fits(q)'
  BY <1>1 DEF Fits, Pending, Bearer, AuthedOps
<1>3. ASSUME q.late PROVE Lateness(q)'
  <2>1. CASE q.pc = "valkey" /\ q.tok \in out
    BY <2>1 DEF Onward, Lateness
  <2>2. CASE q.pc = "select" /\ now >= tokens[q.tok].exp
    <3>1. q.tok \in 1..Len(tokens)
      BY <2>2 DEF Fits, Pending, Bearer
    <3>2. tokens[q.tok].exp \in Int
      BY <1>0, <3>1 DEF TokenType
    <3> QED
      BY <1>0, <1>1, <2>2, <3>1, <3>2 DEF Onward, Lateness
  <2>3. CASE q.pc = "handle" /\ q.op = "refresh" /\ now >= tokens[q.tok].exp
    <3>1. q.tok \in 1..Len(tokens)
      BY <2>3 DEF Fits, Pending, Bearer
    <3>2. tokens[q.tok].exp \in Int
      BY <1>0, <3>1 DEF TokenType
    <3> QED
      BY <1>0, <1>1, <2>3, <3>1, <3>2 DEF Onward, Lateness
  <2>4. CASE q.pc = "handle" /\ q.op = "login" /\ Barred(q.arg)
    <3>1. q.arg \in Users
      BY <2>4 DEF Fits, Pending
    <3> QED
      BY <2>4, <3>1 DEF Onward, Lateness
  <2>5. CASE q.pc = "compare" /\ q.row.status \in {"suspended", "revoked"}
    BY <2>5 DEF Lateness
  <2> QED
    BY <1>3, <2>1, <2>2, <2>3, <2>4, <2>5 DEF Lateness
<1> QED
  BY <1>2, <1>3 DEF Lateness

\* One request moves, the others wait.
LEMMA OneMoves ==
  ASSUME AuthInv, Onward, now' \in Nat, tokens' \in Seq(TokenType),
         NEW r \in Requests, NEW q \in Request, Fits(q), Lateness(q),
         req' = [req EXCEPT ![r] = q]
  PROVE  /\ Handlers'
         /\ q.op \in {req[r].op, none} => KeepsOps
<1>1. req \in [Requests -> Request] /\ \A s \in Requests : Fits(req[s]) /\ Lateness(req[s])
  BY DEF AuthInv, Handlers
<1>2. req' \in [Requests -> Request]
  BY <1>1
<1>3. ASSUME NEW s \in Requests PROVE Fits(req[s])' /\ Lateness(req[s])'
  <2>1. PICK p \in Request : p = req'[s] /\ Fits(p) /\ Lateness(p)
    BY <1>1, <1>3
  <2>2. Fits(p)' /\ Lateness(p)'
    BY <2>1, Carried
  <2> QED
    BY <2>1, <2>2 DEF Fits, Lateness
<1>4. q.op \in {req[r].op, none} => KeepsOps
  BY <1>1 DEF KeepsOps
<1> QED
  BY <1>2, <1>3, <1>4 DEF Handlers

\* A step that changes its own request only.
LEMMA QuietStep ==
  ASSUME AuthInv, UNCHANGED <<db, lists, world, tokens>>,
         NEW r \in Requests, NEW q \in Request, Fits(q), Lateness(q),
         req' = [req EXCEPT ![r] = q]
  PROVE  /\ AuthInv'
         /\ q.op \in {req[r].op, none} => KeepsOps
<1>1. Onward /\ now' \in Nat /\ tokens' \in Seq(TokenType)
  BY TimesAssumption DEF AuthInv, AuthTypeOK, Onward, Grows, db, lists, world, Barred
<1>2. Handlers' /\ (q.op \in {req[r].op, none} => KeepsOps)
  BY <1>1, OneMoves
<1>3. AuthTypeOK'
  BY <1>2 DEF AuthInv, AuthTypeOK, Handlers, Request, db, lists, world
<1>4. Lifetimes' /\ Revocations'
  BY DEF AuthInv, Lifetimes, Revocations, db, lists, world
<1> QED
  BY <1>2, <1>3, <1>4 DEF AuthInv
-----------------------------------------------------------------------------
LEMMA RequestFacts ==
  ASSUME AuthInv, NEW r \in Requests
  PROVE  /\ req[r] \in Request /\ Fits(req[r]) /\ Lateness(req[r])
         /\ Pending(req[r]) => req[r].op # none
         /\ 0 \in 0..MaxTokens /\ req[r].answer \in Codes
         /\ req[r].pc \in {"valkey", "select", "handle", "insert", "compare", "persist", "write"}
              => Pending(req[r])
<1>1. req[r] \in Request /\ Fits(req[r]) /\ Lateness(req[r])
  BY DEF AuthInv, Handlers
<1>2. Pending(req[r]) => req[r].op # none
  BY <1>1 DEF Request, Fits, Pending, Bearer, AuthedOps, PublicOps, none
<1> QED
  BY <1>1, <1>2, TimesAssumption DEF Pending, Request

LEMMA Times ==
  ASSUME AuthInv
  PROVE  /\ now \in Nat /\ Len(tokens) \in Nat
         /\ \A t \in 1..Len(tokens) : tokens[t] \in TokenType /\ tokens[t].exp \in Nat
         /\ \A t \in 1..MaxTokens : valkey[t] \in Nat
<1>1. now \in Nat /\ tokens \in Seq(TokenType) /\ Len(tokens) \in Nat
  BY TimesAssumption DEF AuthInv, AuthTypeOK
<1>2. \A t \in 1..Len(tokens) : tokens[t] \in TokenType
  BY <1>1
<1>3. \A k \in TokenType : k.exp \in Nat
  BY TimesAssumption DEF TokenType
<1>4. \A t \in 1..MaxTokens : valkey[t] \in Nat
  BY TimesAssumption DEF AuthInv, AuthTypeOK
<1> QED
  BY <1>1, <1>2, <1>3, <1>4

LEMMA AnswerFits ==
  ASSUME AuthInv, NEW r \in Requests, Pending(req[r]), NEW code \in Codes,
         NEW n \in 0..MaxTokens, code \in {200, 201} => ~req[r].late
  PROVE  LET q == Answered(r, code, n)
         IN  /\ q \in Request /\ Fits(q) /\ Lateness(q)
             /\ q.op \in {req[r].op, none} /\ ~q.late
<1>1. CASE code \in {200, 201}
  <2>1. PICK a \in Users \cup {none}, t \in 0..MaxTokens :
          /\ a = IF req[r].op = "login" THEN req[r].arg ELSE none
          /\ t = IF req[r].op = "me" THEN req[r].tok ELSE 0
    BY RequestFacts DEF Request
  <2> DEFINE q == [req[r] EXCEPT !.pc = "done", !.answer = code, !.got = n, !.row = absent,
                     !.at = none, !.val = none, !.arg = a, !.tok = t]
  <2>2. q \in Request
    <3>1. req[r] \in Request
      BY RequestFacts
    <3>2. absent \in Row
      BY BasicTypes
    <3> QED
      BY <3>1, <3>2 DEF Request
  <2>3. Answered(r, code, n) = q
    BY <1>1, <2>1, RequestFacts DEF Answered, Request
  <2>4. /\ q.pc = "done" /\ q.late = FALSE /\ q.op = req[r].op /\ q.answer = code
        /\ q.op = "login" => q.arg = req[r].arg
        /\ q.op = "me" => q.tok = req[r].tok
    BY <1>1, <2>1, RequestFacts DEF Request
  <2>5. Fits(q) /\ Lateness(q)
    <3> HIDE DEF q
    <3> QED
      BY <2>2, <2>4, RequestFacts DEF Fits, Lateness, Pending, Bearer, AuthedOps
  <2> QED
    BY <2>2, <2>3, <2>4, <2>5
<1>2. CASE code \notin {200, 201}
  <2> DEFINE q == [idle EXCEPT !.pc = "done", !.answer = code]
  <2>1. q \in Request /\ q.pc = "done" /\ q.late = FALSE /\ q.op = none /\ q.answer = code
        /\ q.got = 0
    BY BasicTypes DEF Request, idle
  <2>2. Fits(q) /\ Lateness(q)
    <3> HIDE DEF q
    <3> QED
      BY <1>2, <2>1 DEF Fits, Lateness, Pending
  <2> QED
    BY <1>2, <2>1, <2>2 DEF Answered
<1> QED
  BY <1>1, <1>2

LEMMA AnswerStep ==
  ASSUME AuthInv, UNCHANGED <<db, lists, world, tokens>>, NEW r \in Requests,
         Pending(req[r]), NEW code \in Codes, code \in {200, 201} => ~req[r].late,
         Answer(r, code, 0)
  PROVE  AuthInv' /\ KeepsOps
<1>1. PICK q : q = Answered(r, code, 0)
  OBVIOUS
<1>2. q \in Request /\ Fits(q) /\ Lateness(q) /\ q.op \in {req[r].op, none}
  BY <1>1, AnswerFits, RequestFacts
<1>3. req' = [req EXCEPT ![r] = q]
  BY <1>1 DEF Answer
<1> QED
  BY <1>2, <1>3, QuietStep

LEMMA GotoFits ==
  ASSUME AuthInv, NEW r \in Requests, Pending(req[r]), ~req[r].late,
         NEW pc \in {"handle", "insert", "persist", "write"},
         pc = "insert" => req[r].op \in {"register", "create"},
         pc = "persist" => req[r].op = "logout",
         pc = "write" => req[r].op \in {"logout", "status", "delete"},
         req[r].op = "logout" => tokens[req[r].tok].kind = "access"
  PROVE  LET q == [req[r] EXCEPT !.pc = pc]
         IN  q \in Request /\ Fits(q) /\ Lateness(q) /\ q.op = req[r].op
<1> DEFINE q == [req[r] EXCEPT !.pc = pc]
<1>1. /\ q \in Request /\ q.pc = pc /\ q.late = FALSE /\ q.op = req[r].op /\ q.tok = req[r].tok
      /\ q.arg = req[r].arg /\ q.val = req[r].val /\ q.at = req[r].at /\ q.got = req[r].got
      /\ q.answer = req[r].answer
  BY RequestFacts DEF Request
<1>2. Fits(q) /\ Lateness(q)
  <2> HIDE DEF q
  <2> QED
    BY <1>1, RequestFacts DEF Fits, Lateness, Pending
<1> QED
  BY <1>1, <1>2

LEMMA GotoStep ==
  ASSUME AuthInv, UNCHANGED <<db, lists, world, tokens>>, NEW r \in Requests,
         Pending(req[r]), ~req[r].late,
         NEW pc \in {"handle", "insert", "persist", "write"}, Goto(r, pc),
         pc = "insert" => req[r].op \in {"register", "create"},
         pc = "persist" => req[r].op = "logout",
         pc = "write" => req[r].op \in {"logout", "status", "delete"},
         req[r].op = "logout" => tokens[req[r].tok].kind = "access"
  PROVE  AuthInv' /\ KeepsOps
<1>1. PICK q : q = [req[r] EXCEPT !.pc = pc]
  OBVIOUS
<1>2. q \in Request /\ Fits(q) /\ Lateness(q) /\ q.op = req[r].op
  BY <1>1, GotoFits
<1>3. req' = [req EXCEPT ![r] = q]
  BY <1>1 DEF Goto
<1> QED
  BY <1>2, <1>3, QuietStep
-----------------------------------------------------------------------------
\* Who passes Valkey late passes it with a token that has expired.
LEMMA CheckValkeyStep ==
  ASSUME AuthInv, NEW r \in Requests, CheckValkey(r)
  PROVE  AuthInv' /\ KeepsOps
<1>0. /\ req[r].pc = "valkey" /\ Pending(req[r]) /\ UNCHANGED <<db, lists, world, tokens>>
      /\ Bearer(req[r].op) /\ req[r].tok \in 1..Len(tokens)
  BY RequestFacts DEF CheckValkey, Fits
<1>1. CASE Revoked(r) /\ Answer(r, 401, 0)
  BY <1>0, <1>1, AnswerStep DEF Codes
<1>2. ASSUME ~Revoked(r),
             req' = [req EXCEPT
               ![r].pc = IF req[r].op = "refresh" THEN "handle" ELSE "select",
               ![r].late = @ /\ linked[req[r].at]]
      PROVE  AuthInv' /\ KeepsOps
  <2>0. PICK old, pc, b : /\ old = req[r]
                          /\ pc = (IF req[r].op = "refresh" THEN "handle" ELSE "select")
                          /\ b = (req[r].late /\ linked[req[r].at])
    OBVIOUS
  <2>1. PICK q : q = [old EXCEPT !.pc = pc, !.late = b]
    OBVIOUS
  <2>2. req[r].at \in Replicas /\ linked[req[r].at] \in BOOLEAN
    BY <1>0, RequestFacts DEF Fits, AuthInv, AuthTypeOK
  <2>3. /\ q \in Request /\ q.op = req[r].op /\ q.tok = req[r].tok
        /\ q.pc = (IF req[r].op = "refresh" THEN "handle" ELSE "select")
        /\ q.late = (req[r].late /\ linked[req[r].at])
        /\ q.arg = req[r].arg /\ q.val = req[r].val /\ q.at = req[r].at /\ q.got = req[r].got
        /\ q.answer = req[r].answer
    <3>1. old \in Request
      BY <2>0, RequestFacts
    <3>2. b \in BOOLEAN /\ pc \in {"handle", "select"}
      BY <2>0, <2>2, <3>1 DEF Request
    <3>3. /\ q \in Request /\ q.op = old.op /\ q.tok = old.tok /\ q.pc = pc /\ q.late = b
          /\ q.arg = old.arg /\ q.val = old.val /\ q.at = old.at /\ q.got = old.got
          /\ q.answer = old.answer
      BY <2>1, <3>1, <3>2 DEF Request
    <3> QED
      BY <2>0, <3>3
  <2>4. Fits(q)
    BY <1>0, <2>3, RequestFacts DEF Fits, Pending, Bearer, AuthedOps, none
  <2>5. q.late => now >= tokens[q.tok].exp
    <3> SUFFICES ASSUME q.late PROVE now >= tokens[q.tok].exp
      OBVIOUS
    <3>1. q.tok \in out /\ q.tok \in 1..MaxTokens /\ q.tok \in 1..Len(tokens)
      BY <1>0, <2>3, RequestFacts DEF Lateness, AuthInv, AuthTypeOK
    <3>2. valkey[q.tok] <= now
      <4>1. linked[req[r].at] /\ q.tok = req[r].tok
        BY <2>3
      <4>2. ~(now < valkey[q.tok])
        BY <1>2, <4>1 DEF Revoked
      <4>3. now \in Nat /\ valkey[q.tok] \in Nat
        BY <3>1, Times
      <4> QED
        BY <4>2, <4>3
    <3>3. tokens[q.tok].exp <= valkey[q.tok]
      BY <3>1 DEF AuthInv, Revocations
    <3> QED
      BY <3>1, <3>2, <3>3, Times
  <2>6. Lateness(q)
    BY <2>3, <2>5 DEF Lateness
  <2>7. req' = [req EXCEPT ![r] = q]
    <3>1. req' = [req EXCEPT ![r].pc = pc, ![r].late = b]
      BY <1>2, <2>0, RequestFacts DEF AuthInv, Handlers
    <3> QED
      BY <2>0, <2>1, <3>1, RequestFacts DEF AuthInv, Handlers
  <2> QED
    BY <1>0, <2>3, <2>4, <2>6, <2>7, QuietStep
<1> QED
  BY <1>1, <1>2 DEF CheckValkey

LEMMA CheckRowStep ==
  ASSUME AuthInv, NEW r \in Requests, CheckRow(r)
  PROVE  AuthInv' /\ KeepsOps
<1>0. /\ req[r].pc = "select" /\ Pending(req[r]) /\ UNCHANGED <<db, lists, world, tokens>>
      /\ req[r].tok \in 1..Len(tokens)
  BY RequestFacts DEF CheckRow, Fits, Bearer
<1>1. ASSUME VerifyAccess(req[r].tok)
      PROVE  ~req[r].late /\ tokens[req[r].tok].kind = "access"
  <2>1. now < tokens[req[r].tok].exp /\ now \in Int /\ tokens[req[r].tok].exp \in Int
    BY <1>0, <1>1, Times DEF VerifyAccess, Live
  <2> QED
    BY <1>0, <1>1, <2>1, RequestFacts DEF Lateness, VerifyAccess
<1>2. CASE ~VerifyAccess(req[r].tok) /\ Answer(r, 401, 0)
  BY <1>0, <1>2, AnswerStep DEF Codes
<1>3. CASE VerifyAccess(req[r].tok) /\ Answer(r, 403, 0)
  BY <1>0, <1>3, AnswerStep DEF Codes
<1>4. CASE VerifyAccess(req[r].tok) /\ Goto(r, "handle")
  BY <1>0, <1>1, <1>4, GotoStep
<1> QED
  BY <1>2, <1>3, <1>4 DEF CheckRow

LEMMA FindNameStep ==
  ASSUME AuthInv, NEW r \in Requests, FindName(r)
  PROVE  AuthInv' /\ KeepsOps
<1>0. /\ Pending(req[r]) /\ UNCHANGED <<db, lists, world, tokens>>
      /\ req[r].op \in {"register", "create"} /\ ~req[r].late
  BY RequestFacts DEF FindName, Lateness
<1>1. CASE Answer(r, 409, 0)
  BY <1>0, <1>1, AnswerStep DEF Codes
<1>2. CASE Goto(r, "insert")
  BY <1>0, <1>2, GotoStep
<1> QED
  BY <1>1, <1>2 DEF FindName

\* Who is barred when the row is read is refused by that row.
LEMMA ReadAccountStep ==
  ASSUME AuthInv, NEW r \in Requests, ReadAccount(r)
  PROVE  AuthInv' /\ KeepsOps
<1>0. /\ req[r].pc = "handle" /\ req[r].op = "login" /\ Pending(req[r])
      /\ UNCHANGED <<db, lists, world, tokens>> /\ req[r].arg \in Users
  BY RequestFacts DEF ReadAccount, Fits
<1>1. CASE ~Exists(req[r].arg) /\ Answer(r, 401, 0)
  BY <1>0, <1>1, AnswerStep DEF Codes
<1>2. ASSUME Exists(req[r].arg),
             req' = [req EXCEPT ![r].pc = "compare", ![r].row = users[req[r].arg]]
      PROVE  AuthInv' /\ KeepsOps
  <2>1. PICK q : q = [req[r] EXCEPT !.pc = "compare", !.row = users[req[r].arg]]
    OBVIOUS
  <2>2. users[req[r].arg] \in Row
    BY <1>0 DEF AuthInv, AuthTypeOK
  <2>3. /\ q \in Request /\ q.op = "login" /\ q.pc = "compare" /\ q.arg = req[r].arg
        /\ q.late = req[r].late /\ q.row = users[req[r].arg] /\ q.at = req[r].at
        /\ q.got = req[r].got /\ q.answer = req[r].answer
    BY <1>0, <2>1, <2>2, RequestFacts DEF Request
  <2>4. Fits(q)
    BY <1>0, <2>3, RequestFacts DEF Fits, Pending, Bearer, AuthedOps
  <2>5. Lateness(q)
    BY <1>0, <1>2, <2>2, <2>3, RequestFacts DEF Lateness, Barred, Exists, Row
  <2>6. req' = [req EXCEPT ![r] = q]
    BY <1>2, <2>1, RequestFacts DEF AuthInv, Handlers
  <2> QED
    BY <1>0, <2>3, <2>4, <2>5, <2>6, QuietStep
<1> QED
  BY <1>1, <1>2 DEF ReadAccount

LEMMA MeStep ==
  ASSUME AuthInv, NEW r \in Requests, Me(r)
  PROVE  AuthInv' /\ KeepsOps
<1>0. /\ Pending(req[r]) /\ UNCHANGED <<db, lists, world, tokens>> /\ ~req[r].late
  BY RequestFacts DEF Me, Lateness
<1>1. PICK code \in {200, 404} : Answer(r, code, 0)
  BY DEF Me
<1> QED
  BY <1>0, <1>1, AnswerStep DEF Codes

LEMMA SetupPasswordsStep ==
  ASSUME AuthInv, NEW r \in Requests, SetupPasswords(r)
  PROVE  AuthInv' /\ KeepsOps
<1>0. /\ Pending(req[r]) /\ UNCHANGED <<db, lists, world, tokens>> /\ ~req[r].late
  BY RequestFacts DEF SetupPasswords, Lateness
<1>1. PICK code \in {200, 400, 500} : Answer(r, code, 0)
  BY DEF SetupPasswords
<1> QED
  BY <1>0, <1>1, AnswerStep DEF Codes

LEMMA FindUserStep ==
  ASSUME AuthInv, NEW r \in Requests, FindUser(r)
  PROVE  AuthInv' /\ KeepsOps
<1>0. /\ Pending(req[r]) /\ UNCHANGED <<db, lists, world, tokens>> /\ ~req[r].late
      /\ req[r].op \in {"status", "delete"}
  BY RequestFacts DEF FindUser, Lateness
<1>1. CASE \E code \in {403, 404} : Answer(r, code, 0)
  BY <1>0, <1>1, AnswerStep DEF Codes
<1>2. CASE Goto(r, "write")
  BY <1>0, <1>2, GotoStep
<1> QED
  BY <1>1, <1>2 DEF FindUser
-----------------------------------------------------------------------------
Recent == \A t \in (Len(tokens) + 1)..Len(tokens') :
            tokens'[t].kind = "access" => tokens'[t].exp <= now + AccessTTL

\* A request that ends well leaves rows and tokens behind.
LEMMA IssueStep ==
  ASSUME AuthInv, UNCHANGED <<lists, world>>,
         users' \in [Users -> Row], born' \subseteq Users,
         \A u \in Users : Barred(u) => Barred(u)',
         tokens' \in Seq(TokenType), Len(tokens') <= MaxTokens, Grows, Recent,
         NEW r \in Requests, Pending(req[r]), NEW code \in Codes, NEW n \in 0..MaxTokens,
         code \in {200, 201} => ~req[r].late,
         Answer(r, code, n)
  PROVE  AuthInv' /\ KeepsOps
<1>1. Onward /\ now' \in Nat
  BY TimesAssumption DEF AuthInv, AuthTypeOK, Onward, world
<1>2. PICK q : q = Answered(r, code, n)
  OBVIOUS
<1>3. q \in Request /\ Fits(q) /\ Lateness(q) /\ q.op \in {req[r].op, none}
  BY <1>2, AnswerFits
<1>4. req' = [req EXCEPT ![r] = q]
  BY <1>2 DEF Answer
<1>5. Handlers' /\ KeepsOps
  BY <1>1, <1>3, <1>4, OneMoves
<1>6. AuthTypeOK'
  BY <1>5 DEF AuthInv, AuthTypeOK, Handlers, Request, lists, world
<1>7. Lifetimes'
  BY Times DEF AuthInv, Lifetimes, Grows, Recent, world
<1>8. Revocations'
  <2> SUFFICES ASSUME NEW t \in 1..MaxTokens
               PROVE  /\ t \in out' => valkey'[t] > 0
                      /\ valkey'[t] > 0 => /\ t <= Len(tokens') /\ tokens'[t].kind = "access"
                                           /\ tokens'[t].exp <= valkey'[t]
    BY DEF Revocations
  <2>1. valkey' = valkey /\ out' = out
    BY DEF lists, world
  <2>2. t \in 1..Len(tokens) => t <= Len(tokens') /\ tokens'[t] = tokens[t]
    BY Times DEF Grows
  <2> QED
    BY <2>1, <2>2, Times DEF AuthInv, Revocations
<1> QED
  BY <1>5, <1>6, <1>7, <1>8 DEF AuthInv

LEMMA SameTokens ==
  ASSUME AuthInv, UNCHANGED tokens
  PROVE  /\ tokens' \in Seq(TokenType) /\ Len(tokens') <= MaxTokens
         /\ Grows /\ Recent
BY Times DEF AuthInv, AuthTypeOK, Grows, Recent

LEMMA SignedTypes ==
  ASSUME AuthInv, NEW kind \in {"access", "refresh"}, NEW u \in Users,
         NEW role \in {"user", "super-admin"}
  PROVE  /\ Signed(kind, u, role) \in TokenType
         /\ Signed(kind, u, role).kind = "access" =>
              Signed(kind, u, role).exp <= now + AccessTTL
BY TimesAssumption DEF AuthInv, AuthTypeOK, Signed, TokenType

LEMMA OneToken ==
  ASSUME AuthInv, NEW a \in TokenType, a.kind = "access" => a.exp <= now + AccessTTL,
         Len(tokens) + 1 <= MaxTokens, tokens' = Append(tokens, a)
  PROVE  /\ tokens' \in Seq(TokenType) /\ Len(tokens') <= MaxTokens
         /\ Grows /\ Recent
<1>1. tokens \in Seq(TokenType)
  BY DEF AuthInv, AuthTypeOK
<1>2. tokens' \in Seq(TokenType) /\ Len(tokens') = Len(tokens) + 1
  BY <1>1
<1>3. tokens'[Len(tokens) + 1] = a /\ \A t \in 1..Len(tokens) : tokens'[t] = tokens[t]
  BY <1>1
<1> QED
  BY <1>2, <1>3, Times DEF Grows, Recent

LEMMA TwoTokens ==
  ASSUME AuthInv, NEW a \in TokenType, a.kind = "access" => a.exp <= now + AccessTTL,
         NEW b \in TokenType, b.kind = "access" => b.exp <= now + AccessTTL,
         Len(tokens) + 2 <= MaxTokens, tokens' = tokens \o <<a, b>>
  PROVE  /\ tokens' \in Seq(TokenType) /\ Len(tokens') <= MaxTokens
         /\ Grows /\ Recent
<1>1. tokens \in Seq(TokenType) /\ <<a, b>> \in Seq(TokenType)
  BY DEF AuthInv, AuthTypeOK
<1>2. tokens' \in Seq(TokenType) /\ Len(tokens') = Len(tokens) + 2
  BY <1>1
<1>3. /\ tokens'[Len(tokens) + 1] = a /\ tokens'[Len(tokens) + 2] = b
      /\ \A t \in 1..Len(tokens) : tokens'[t] = tokens[t]
  BY <1>1
<1>4. \A t \in (Len(tokens) + 1)..Len(tokens') : tokens'[t] \in {a, b}
  BY <1>2, <1>3, Times
<1> QED
  BY <1>2, <1>3, <1>4, Times DEF Grows, Recent

\* A new row bars nobody, and is nobody's who was barred.
LEMMA NewRowKeeps ==
  ASSUME AuthInv, NEW u \in Users, u \notin born, NEW role \in {"user", "super-admin"},
         NewRow(u, role)
  PROVE  /\ users' \in [Users -> Row] /\ born' \subseteq Users
         /\ \A v \in Users : Barred(v) => Barred(v)'
<1>1. [absent EXCEPT !.status = "active", !.role = role] \in Row
  BY DEF absent, Row
<1>2. users \in [Users -> Row] /\ born \subseteq Users
  BY DEF AuthInv, AuthTypeOK
<1> QED
  BY <1>1, <1>2 DEF NewRow, Barred

LEMMA RegisterStep ==
  ASSUME AuthInv, NEW r \in Requests, Register(r)
  PROVE  AuthInv' /\ KeepsOps
<1>0. /\ Pending(req[r]) /\ UNCHANGED <<lists, world>> /\ ~req[r].late
      /\ req[r].arg \in Users /\ RoleAsked(r) \in {"user", "super-admin"}
  BY RequestFacts DEF Register, Lateness, Fits, RoleAsked
<1>1. ASSUME req[r].arg \in born, Answer(r, 500, 0), UNCHANGED <<db, tokens>>
      PROVE  AuthInv' /\ KeepsOps
  BY <1>0, <1>1, AnswerStep DEF Codes, db, lists, world
<1>2. ASSUME req[r].arg \notin born, Len(tokens) + 2 <= MaxTokens,
             NewRow(req[r].arg, RoleAsked(r)),
             tokens' = tokens \o <<Signed("access", req[r].arg, RoleAsked(r)),
                                   Signed("refresh", req[r].arg, RoleAsked(r))>>,
             Answer(r, 201, Len(tokens) + 1)
      PROVE  AuthInv' /\ KeepsOps
  <2>1. /\ tokens' \in Seq(TokenType) /\ Len(tokens') <= MaxTokens
        /\ Grows /\ Recent
    BY <1>0, <1>2, SignedTypes, TwoTokens
  <2>2. /\ users' \in [Users -> Row] /\ born' \subseteq Users
        /\ \A v \in Users : Barred(v) => Barred(v)'
    BY <1>0, <1>2, NewRowKeeps
  <2>3. Len(tokens) + 1 \in 0..MaxTokens
    BY <1>2, Times, TimesAssumption
  <2> QED
    BY <1>0, <1>2, <2>1, <2>2, <2>3, IssueStep DEF Codes
<1> QED
  BY <1>1, <1>2 DEF Register, Duplicate

LEMMA InsertUserStep ==
  ASSUME AuthInv, NEW r \in Requests, InsertUser(r)
  PROVE  AuthInv' /\ KeepsOps
<1>0. /\ Pending(req[r]) /\ UNCHANGED <<lists, world>> /\ ~req[r].late
      /\ req[r].arg \in Users /\ RoleAsked(r) \in {"user", "super-admin"}
  BY RequestFacts DEF InsertUser, Lateness, Fits, RoleAsked
<1>1. ASSUME Answer(r, 500, 0), UNCHANGED <<db, tokens>>
      PROVE  AuthInv' /\ KeepsOps
  BY <1>0, <1>1, AnswerStep DEF Codes, db, lists, world
<1>2. ASSUME req[r].arg \notin born, NewRow(req[r].arg, RoleAsked(r)), UNCHANGED tokens,
             Answer(r, 201, 0)
      PROVE  AuthInv' /\ KeepsOps
  <2>2. /\ users' \in [Users -> Row] /\ born' \subseteq Users
        /\ \A v \in Users : Barred(v) => Barred(v)'
    BY <1>0, <1>2, NewRowKeeps
  <2> QED
    BY <1>0, <1>2, <2>2, SameTokens, RequestFacts, IssueStep DEF Codes
<1> QED
  BY <1>1, <1>2 DEF InsertUser, Duplicate

LEMMA LoginStep ==
  ASSUME AuthInv, NEW r \in Requests, Login(r)
  PROVE  AuthInv' /\ KeepsOps
<1>0. /\ req[r].pc = "compare" /\ Pending(req[r]) /\ UNCHANGED <<db, lists, world>>
      /\ req[r].arg \in Users /\ req[r].row \in Row
  BY RequestFacts DEF Login, Fits, Request
<1>1. CASE UNCHANGED tokens /\ \E code \in {401, 403} : Answer(r, code, 0)
  BY <1>0, <1>1, AnswerStep DEF Codes, db, lists, world
<1>2. ASSUME req[r].row.status \notin {"suspended", "revoked"}, Len(tokens) + 2 <= MaxTokens,
             tokens' = tokens \o <<Signed("access", req[r].arg, req[r].row.role),
                                   Signed("refresh", req[r].arg, req[r].row.role)>>,
             Answer(r, 200, Len(tokens) + 1)
      PROVE  AuthInv' /\ KeepsOps
  <2>1. /\ tokens' \in Seq(TokenType) /\ Len(tokens') <= MaxTokens
        /\ Grows /\ Recent
    BY <1>0, <1>2, SignedTypes, TwoTokens DEF Row
  <2>2. /\ users' \in [Users -> Row] /\ born' \subseteq Users
        /\ \A v \in Users : Barred(v) => Barred(v)'
    BY <1>0 DEF AuthInv, AuthTypeOK, db, Barred
  <2>3. Len(tokens) + 1 \in 0..MaxTokens
    BY <1>2, Times, TimesAssumption
  <2>4. ~req[r].late
    BY <1>0, <1>2, RequestFacts DEF Lateness
  <2> QED
    BY <1>0, <1>2, <2>1, <2>2, <2>3, <2>4, IssueStep DEF Codes
<1> QED
  BY <1>1, <1>2 DEF Login, SignIn

LEMMA RefreshStep ==
  ASSUME AuthInv, NEW r \in Requests, Refresh(r)
  PROVE  AuthInv' /\ KeepsOps
<1>0. /\ req[r].pc = "handle" /\ req[r].op = "refresh" /\ Pending(req[r])
      /\ UNCHANGED <<db, lists, world>> /\ req[r].tok \in 1..Len(tokens)
  BY RequestFacts DEF Refresh, Fits, Bearer
<1>1. CASE UNCHANGED tokens /\ Answer(r, 401, 0)
  BY <1>0, <1>1, AnswerStep DEF Codes, db, lists, world
<1>2. ASSUME Live(req[r].tok), Len(tokens) < MaxTokens,
             tokens' = Append(tokens, Signed("access", tokens[req[r].tok].user,
                                             tokens[req[r].tok].role)),
             Answer(r, 200, Len(tokens) + 1)
      PROVE  AuthInv' /\ KeepsOps
  <2>1. tokens[req[r].tok].user \in Users /\ tokens[req[r].tok].role \in {"user", "super-admin"}
    BY <1>0, Times DEF TokenType
  <2>2. /\ Len(tokens) + 1 \in 0..MaxTokens /\ Len(tokens) + 1 <= MaxTokens
    BY <1>2, Times, TimesAssumption
  <2>3. /\ tokens' \in Seq(TokenType) /\ Len(tokens') <= MaxTokens
        /\ Grows /\ Recent
    BY <1>2, <2>1, <2>2, SignedTypes, OneToken
  <2>4. /\ users' \in [Users -> Row] /\ born' \subseteq Users
        /\ \A v \in Users : Barred(v) => Barred(v)'
    BY <1>0 DEF AuthInv, AuthTypeOK, db, Barred
  <2>5. ~req[r].late
    BY <1>0, <1>2, RequestFacts, Times DEF Lateness, Live
  <2> QED
    BY <1>0, <1>2, <2>2, <2>3, <2>4, <2>5, IssueStep DEF Codes
<1> QED
  BY <1>1, <1>2 DEF Refresh
-----------------------------------------------------------------------------
LEMMA LogoutStep ==
  ASSUME AuthInv, NEW r \in Requests, Logout(r)
  PROVE  AuthInv' /\ KeepsOps
<1>0. /\ req[r].pc = "handle" /\ req[r].op = "logout" /\ Pending(req[r]) /\ ~req[r].late
      /\ req[r].at \in Replicas /\ req[r].tok \in 1..Len(tokens)
      /\ tokens[req[r].tok].kind = "access"
  BY RequestFacts DEF Logout, Lateness, Fits, Bearer, AuthedOps
<1>1. PICK q : q = [req[r] EXCEPT !.pc = "persist"]
  OBVIOUS
<1>2. q \in Request /\ Fits(q) /\ Lateness(q) /\ q.op = req[r].op
  BY <1>0, <1>1, GotoFits
<1>3. req' = [req EXCEPT ![r] = q]
  BY <1>1 DEF Logout, Goto
<1>4. Onward /\ now' \in Nat /\ tokens' \in Seq(TokenType)
  BY TimesAssumption DEF AuthInv, AuthTypeOK, Onward, Grows, Logout, db, world, Barred
<1>5. Handlers' /\ KeepsOps
  BY <1>2, <1>3, <1>4, OneMoves
<1>6. memory' \in [Replicas -> [1..MaxTokens -> 0..(MaxTime + BlacklistTTL)]]
  <2>1. now + BlacklistTTL \in 0..(MaxTime + BlacklistTTL)
    BY TimesAssumption DEF AuthInv, AuthTypeOK
  <2> QED
    BY <1>0, <2>1 DEF Logout, AuthInv, AuthTypeOK
<1>7. AuthTypeOK'
  BY <1>5, <1>6 DEF AuthInv, AuthTypeOK, Handlers, Request, Logout, db, world
<1>8. Lifetimes' /\ Revocations'
  BY DEF AuthInv, Lifetimes, Revocations, Logout, db, world
<1> QED
  BY <1>5, <1>7, <1>8 DEF AuthInv

\* The entry outlives the token.
LEMMA StoreRevocationStep ==
  ASSUME AuthInv, NEW r \in Requests, StoreRevocation(r)
  PROVE  AuthInv' /\ KeepsOps
<1>0. /\ req[r].pc = "persist" /\ req[r].op = "logout" /\ Pending(req[r]) /\ ~req[r].late
      /\ req[r].at \in Replicas /\ req[r].tok \in 1..Len(tokens)
      /\ tokens[req[r].tok].kind = "access"
  BY RequestFacts DEF StoreRevocation, Lateness, Fits, Bearer, AuthedOps
<1>1. PICK q : q = [req[r] EXCEPT !.pc = "write"]
  OBVIOUS
<1>2. q \in Request /\ Fits(q) /\ Lateness(q) /\ q.op = req[r].op
  BY <1>0, <1>1, GotoFits
<1>3. req' = [req EXCEPT ![r] = q]
  BY <1>1 DEF StoreRevocation, Goto
<1>4. Onward /\ now' \in Nat /\ tokens' \in Seq(TokenType)
  BY TimesAssumption
  DEF AuthInv, AuthTypeOK, Onward, Grows, StoreRevocation, db, world, Barred
<1>5. Handlers' /\ KeepsOps
  BY <1>2, <1>3, <1>4, OneMoves
<1>6. /\ valkey' \in [1..MaxTokens -> 0..(MaxTime + BlacklistTTL)]
      /\ \A t \in 1..MaxTokens : \/ valkey'[t] = valkey[t]
                                 \/ t = req[r].tok /\ valkey'[t] = now + BlacklistTTL
  <2>1. now + BlacklistTTL \in 0..(MaxTime + BlacklistTTL)
    BY TimesAssumption DEF AuthInv, AuthTypeOK
  <2> QED
    BY <2>1 DEF StoreRevocation, AuthInv, AuthTypeOK
<1>7. AuthTypeOK'
  BY <1>5, <1>6 DEF AuthInv, AuthTypeOK, Handlers, Request, StoreRevocation, db, world
<1>8. Lifetimes'
  BY DEF AuthInv, Lifetimes, StoreRevocation, db, world
<1>9. Revocations'
  <2> SUFFICES ASSUME NEW t \in 1..MaxTokens
               PROVE  /\ t \in out => valkey'[t] > 0
                      /\ valkey'[t] > 0 => /\ t <= Len(tokens) /\ tokens[t].kind = "access"
                                           /\ tokens[t].exp <= valkey'[t]
    BY DEF Revocations, StoreRevocation, world
  <2>1. CASE valkey'[t] = valkey[t]
    BY <2>1 DEF AuthInv, Revocations
  <2>2. CASE t = req[r].tok /\ valkey'[t] = now + BlacklistTTL
    <3>1. tokens[t].exp <= now + AccessTTL
      BY <1>0, <2>2 DEF AuthInv, Lifetimes
    <3>2. now \in Nat /\ t \in 1..Len(tokens) /\ t <= Len(tokens) /\ tokens[t].kind = "access"
      BY <1>0, <2>2, Times
    <3>3. tokens[t].exp \in Nat
      BY <3>2, Times
    <3>4. now + BlacklistTTL > 0 /\ tokens[t].exp <= now + BlacklistTTL
      BY <3>1, <3>2, <3>3, TimesAssumption
    <3> QED
      BY <2>2, <3>2, <3>4
  <2> QED
    BY <1>6, <2>1, <2>2
<1> QED
  BY <1>5, <1>7, <1>8, <1>9 DEF AuthInv

LEMMA AnswerLogoutStep ==
  ASSUME AuthInv, NEW r \in Requests, AnswerLogout(r)
  PROVE  AuthInv' /\ KeepsOps
<1>0. /\ req[r].pc = "write" /\ req[r].op = "logout" /\ Pending(req[r]) /\ ~req[r].late
      /\ req[r].tok \in 1..Len(tokens) /\ UNCHANGED <<db, lists, now, faults, tokens>>
  BY RequestFacts DEF AnswerLogout, Lateness, Fits, Bearer, AuthedOps
<1>1. PICK q : q = Answered(r, 200, 0)
  OBVIOUS
<1>2. q \in Request /\ Fits(q) /\ Lateness(q) /\ q.op \in {req[r].op, none}
  BY <1>0, <1>1, AnswerFits, RequestFacts DEF Codes
<1>3. req' = [req EXCEPT ![r] = q]
  BY <1>1 DEF AnswerLogout, Answer
<1>4. /\ out \subseteq out' /\ out' \subseteq 1..MaxTokens
      /\ \A t \in out' \ out : valkey[t] > 0
  <2>1. Len(tokens) <= MaxTokens
    BY DEF AuthInv, AuthTypeOK
  <2>2. req[r].tok \in 1..MaxTokens
    BY <1>0, <2>1, Times, TimesAssumption
  <2> QED
    BY <2>2 DEF AnswerLogout, AuthInv, AuthTypeOK
<1>5. Onward /\ now' \in Nat /\ tokens' \in Seq(TokenType)
  BY <1>0, <1>4, TimesAssumption DEF AuthInv, AuthTypeOK, Onward, Grows, db, Barred
<1>6. Handlers' /\ KeepsOps
  BY <1>2, <1>3, <1>5, OneMoves
<1>7. AuthTypeOK'
  BY <1>0, <1>4, <1>6 DEF AuthInv, AuthTypeOK, Handlers, Request, db, lists
<1>8. Lifetimes' /\ Revocations'
  BY <1>0, <1>4 DEF AuthInv, Lifetimes, Revocations, lists
<1> QED
  BY <1>6, <1>7, <1>8 DEF AuthInv

\* Setting an account active takes the lateness from the logins of that
\* account; nobody else is concerned.
LEMMA UpdateUserStep ==
  ASSUME AuthInv, NEW r \in Requests, UpdateUser(r)
  PROVE  AuthInv' /\ KeepsOps
<1> DEFINE u == req[r].arg
           moves == Claims(r).role = "super-admin" /\ Exists(u)
           lifted == moves /\ req[r].val = "active"
<1>0. /\ Pending(req[r]) /\ req[r].op = "status" /\ ~req[r].late /\ u \in Users
      /\ req[r].val \in {"active", "suspended", "revoked"}
      /\ UNCHANGED <<born, lists, world, tokens>>
      /\ users' = IF moves THEN [users EXCEPT ![u].status = req[r].val] ELSE users
      /\ req' = [s \in Requests |->
           IF s = r THEN Answered(r, 200, 0)
             ELSE [req[s] EXCEPT !.late = @ /\ ~(moves /\ req[s].op = "login" /\ req[s].arg = u
                                                /\ req[r].val = "active")]]
  BY RequestFacts, StatusAssumption DEF UpdateUser, Lateness, Fits
<1>1. users \in [Users -> Row] /\ now \in Nat /\ tokens \in Seq(TokenType)
  BY Times DEF AuthInv, AuthTypeOK
<1>2. users' \in [Users -> Row]
  BY <1>0, <1>1 DEF Row
<1>3. \A v \in Users : Barred(v) => Barred(v)' \/ (lifted /\ v = u)
  BY <1>0, <1>1 DEF Barred, Exists
<1>4. ASSUME NEW s \in Requests
      PROVE  req'[s] \in Request /\ Fits(req[s])' /\ Lateness(req[s])'
                                 /\ req'[s].op \in {req[s].op, none}
  <2>1. CASE s = r
    <3>1. PICK q : q = Answered(r, 200, 0)
      OBVIOUS
    <3>2. q \in Request /\ Fits(q) /\ ~q.late /\ q.op \in {req[r].op, none}
      BY <1>0, <3>1, AnswerFits, RequestFacts DEF Codes
    <3>3. req'[s] = q
      BY <1>0, <2>1, <3>1
    <3> QED
      BY <1>0, <2>1, <3>2, <3>3 DEF Fits, Lateness
  <2>2. CASE s # r
    <3>1. req[s] \in Request /\ Fits(req[s]) /\ Lateness(req[s])
      BY RequestFacts
    <3>2. PICK b \in BOOLEAN :
            b = (req[s].late /\ ~(lifted /\ req[s].op = "login" /\ req[s].arg = u))
      BY <3>1 DEF Request
    <3>3. PICK q : q = [req[s] EXCEPT !.late = b]
      OBVIOUS
    <3>4. req'[s] = q
      BY <1>0, <2>2, <3>2, <3>3
    <3>5. /\ q \in Request /\ q.late = b /\ q.pc = req[s].pc /\ q.op = req[s].op
          /\ q.at = req[s].at /\ q.tok = req[s].tok /\ q.arg = req[s].arg
          /\ q.val = req[s].val /\ q.row = req[s].row /\ q.answer = req[s].answer
          /\ q.got = req[s].got
      BY <3>1, <3>3 DEF Request
    <3>6. Fits(q)
      BY <3>1, <3>5 DEF Fits, Pending
    <3>7. b => req[s].late /\ ~(lifted /\ req[s].op = "login" /\ req[s].arg = u)
      BY <3>2
    <3>8. Fits(req[s])'
      <4>1. tokens' = tokens
        BY <1>0
      <4> HIDE DEF lifted
      <4> QED
        BY <3>4, <3>6, <4>1 DEF Fits, Pending, Bearer
    <3>9. Lateness(req[s])'
      <4> SUFFICES ASSUME q.late PROVE Lateness(req[s])'
        BY <3>4 DEF Lateness
      <4>1. Barred(q.arg) /\ q.pc = "handle" /\ q.op = "login" => Barred(q.arg)'
        <5>1. q.pc = "handle" /\ q.op = "login" => q.arg \in Users
          BY <3>6 DEF Fits, Pending
        <5>2. q.op = "login" => ~(lifted /\ q.arg = u)
          BY <3>5, <3>7
        <5> HIDE DEF lifted
        <5> QED
          BY <1>3, <5>1, <5>2
      <4>2. out' = out /\ now' = now /\ tokens' = tokens
        <5>1. UNCHANGED <<world, tokens>>
          BY <1>0
        <5> QED
          BY <5>1 DEF world
      <4>3. Lateness(q)
        BY <3>1, <3>5, <3>7 DEF Lateness
      <4> QED
        BY <3>4, <4>1, <4>2, <4>3 DEF Lateness
    <3> QED
      BY <3>4, <3>5, <3>8, <3>9
  <2> QED
    BY <2>1, <2>2
<1>5. Handlers' /\ KeepsOps
  <2>1. req' \in [Requests -> Request]
    BY <1>0, <1>4
  <2> QED
    BY <1>4, <2>1 DEF Handlers, KeepsOps
<1>6. AuthTypeOK'
  BY <1>0, <1>2, <1>5 DEF AuthInv, AuthTypeOK, Handlers, Request, lists, world
<1>7. Lifetimes' /\ Revocations'
  BY <1>0 DEF AuthInv, Lifetimes, Revocations, lists, world
<1> QED
  BY <1>5, <1>6, <1>7 DEF AuthInv

LEMMA DeleteUserStep ==
  ASSUME AuthInv, NEW r \in Requests, DeleteUser(r)
  PROVE  AuthInv' /\ KeepsOps
<1>0. /\ Pending(req[r]) /\ req[r].op = "delete" /\ ~req[r].late /\ req[r].arg \in Users
      /\ UNCHANGED <<lists, world>> /\ UNCHANGED tokens /\ UNCHANGED born
      /\ Answer(r, 200, 0)
  BY RequestFacts DEF DeleteUser, Lateness, Fits
<1>1. users' = [users EXCEPT ![req[r].arg] = absent] /\ users \in [Users -> Row]
  BY DEF DeleteUser, AuthInv, AuthTypeOK
<1>2. users' \in [Users -> Row] /\ born' \subseteq Users
  BY <1>0, <1>1, BasicTypes DEF AuthInv, AuthTypeOK
<1>3. \A v \in Users : Barred(v) => Barred(v)'
  BY <1>0, <1>1 DEF Barred, absent
<1> QED
  BY <1>0, <1>2, <1>3, SameTokens, RequestFacts, IssueStep DEF Codes

LEMMA ServeStep ==
  ASSUME AuthInv, NEW r \in Requests, Serve(r)
  PROVE  AuthInv' /\ KeepsOps
BY CheckValkeyStep, CheckRowStep, FindNameStep, RegisterStep, InsertUserStep,
   ReadAccountStep, LoginStep, RefreshStep, MeStep, LogoutStep, StoreRevocationStep,
   AnswerLogoutStep, SetupPasswordsStep, FindUserStep, UpdateUserStep, DeleteUserStep
DEF Serve
-----------------------------------------------------------------------------
LEMMA RestartStep ==
  ASSUME AuthInv, NEW p \in Replicas, Restart(p)
  PROVE  AuthInv' /\ KeepsOps
<1>0. UNCHANGED <<db, valkey, out, now, tokens>>
  BY DEF Restart
<1>1. Onward /\ now' \in Nat /\ tokens' \in Seq(TokenType)
  BY <1>0, TimesAssumption DEF AuthInv, AuthTypeOK, Onward, Grows, db, Barred
<1>2. ASSUME NEW s \in Requests
      PROVE  req'[s] \in Request /\ Fits(req[s])' /\ Lateness(req[s])'
                                 /\ req'[s].op \in {req[s].op, none}
  <2>1. PICK q \in Request : /\ q = req'[s] /\ Fits(q) /\ Lateness(q)
                             /\ q.op \in {req[s].op, none}
    <3>1. CASE req[s].at = p /\ req[s].pc \notin {"idle", "done"}
      <4>1. req'[s] = Answered(s, 0, 0) /\ Pending(req[s])
        BY <3>1 DEF Restart, Pending
      <4> QED
        BY <4>1, AnswerFits, RequestFacts DEF Codes
    <3>2. CASE ~(req[s].at = p /\ req[s].pc \notin {"idle", "done"})
      BY <3>2, RequestFacts DEF Restart
    <3> QED
      BY <3>1, <3>2
  <2>2. Fits(q)' /\ Lateness(q)'
    BY <1>1, <2>1, Carried
  <2> QED
    BY <2>1, <2>2 DEF Fits, Lateness
<1>3. Handlers' /\ KeepsOps
  <2>1. req' \in [Requests -> Request]
    BY <1>2 DEF Restart
  <2> QED
    BY <1>2, <2>1 DEF Handlers, KeepsOps
<1>4. /\ memory' \in [Replicas -> [1..MaxTokens -> 0..(MaxTime + BlacklistTTL)]]
      /\ linked' \in [Replicas -> BOOLEAN] /\ faults' \in 0..MaxFaults
  BY TimesAssumption DEF Restart, AuthInv, AuthTypeOK
<1>5. AuthTypeOK'
  BY <1>0, <1>3, <1>4 DEF AuthInv, AuthTypeOK, Handlers, Request, db
<1>6. Lifetimes' /\ Revocations'
  BY <1>0 DEF AuthInv, Lifetimes, Revocations
<1> QED
  BY <1>3, <1>5, <1>6 DEF AuthInv

LEMMA ValkeyLinkStep ==
  ASSUME AuthInv, NEW p \in Replicas, ValkeyLink(p)
  PROVE  AuthInv' /\ KeepsOps
<1>0. UNCHANGED <<db, memory, valkey, out, now, tokens, req>>
  BY DEF ValkeyLink
<1>1. Handlers' /\ KeepsOps
  BY <1>0 DEF AuthInv, Handlers, KeepsOps, Fits, Lateness, Barred, db
<1>2. linked' \in [Replicas -> BOOLEAN] /\ faults' \in 0..MaxFaults
  BY TimesAssumption DEF ValkeyLink, AuthInv, AuthTypeOK
<1>3. AuthTypeOK'
  BY <1>0, <1>2 DEF AuthInv, AuthTypeOK, db
<1>4. Lifetimes' /\ Revocations'
  BY <1>0 DEF AuthInv, Lifetimes, Revocations
<1> QED
  BY <1>1, <1>3, <1>4 DEF AuthInv

LEMMA TickStep ==
  ASSUME AuthInv, Tick
  PROVE  AuthInv' /\ KeepsOps
<1>0. UNCHANGED <<db, lists, tokens, req, out, faults>> /\ now' = now + 1 /\ now < MaxTime
  BY DEF Tick
<1>1. Onward /\ now' \in Nat /\ tokens' \in Seq(TokenType)
  BY <1>0, Times DEF AuthInv, AuthTypeOK, Onward, Grows, db, Barred
<1>2. ASSUME NEW s \in Requests PROVE Fits(req[s])' /\ Lateness(req[s])'
  <2>1. PICK q \in Request : q = req[s] /\ Fits(q) /\ Lateness(q)
    BY RequestFacts
  <2>2. Fits(q)' /\ Lateness(q)'
    BY <1>1, <2>1, Carried
  <2> QED
    BY <1>0, <2>1, <2>2 DEF Fits, Lateness
<1>3. Handlers' /\ KeepsOps
  BY <1>0, <1>2 DEF AuthInv, Handlers, KeepsOps
<1>4. AuthTypeOK'
  <2>1. now' \in 0..MaxTime
    BY <1>0, Times, TimesAssumption
  <2> QED
    BY <1>0, <2>1 DEF AuthInv, AuthTypeOK, db, lists
<1>5. Lifetimes'
  <2>1. \A t \in 1..Len(tokens) : tokens[t].exp <= now + AccessTTL => tokens[t].exp <= now' + AccessTTL
    BY <1>0, Times, TimesAssumption
  <2> QED
    BY <1>0, <2>1 DEF AuthInv, Lifetimes
<1>6. Revocations'
  BY <1>0 DEF AuthInv, Revocations, lists
<1> QED
  BY <1>3, <1>4, <1>5, <1>6 DEF AuthInv

LEMMA EnvironmentStep ==
  ASSUME AuthInv, Environment
  PROVE  AuthInv' /\ KeepsOps
BY RestartStep, ValkeyLinkStep, TickStep DEF Environment
-----------------------------------------------------------------------------
LEMMA ArgumentTypes ==
  ASSUME NEW op \in PublicOps \cup AuthedOps, NEW a \in Arguments(op)
  PROVE  /\ a[1] \in Users \cup {none} /\ a[2] \in Roles \cup Statuses \cup {none}
         /\ op \in {"register", "create", "login", "status", "delete"} => a[1] \in Users
         /\ op = "status" => a[2] \in Statuses
<1>1. CASE op \in {"register", "create"}
  BY <1>1 DEF Arguments
<1>2. CASE op \in {"login", "delete"}
  BY <1>2 DEF Arguments
<1>3. CASE op = "status"
  BY <1>3 DEF Arguments
<1>4. CASE op \notin {"register", "create", "login", "delete", "status"}
  <2>1. Arguments(op) = {<<none, none>>}
    BY <1>4 DEF Arguments
  <2> QED
    BY <1>4, <2>1
<1> QED
  BY <1>1, <1>2, <1>3, <1>4

\* A request is late from the start, or with a session that is over.
LEMMA SendStep ==
  ASSUME AuthInv, NEW r \in Requests, NEW op \in PublicOps \cup AuthedOps,
         NEW p \in Replicas, NEW t \in 0..MaxTokens, Send(r, op, p, t)
  PROVE  /\ AuthInv' /\ UNCHANGED tokens
         /\ req'[r].op \in {op, none}
         /\ \A s \in Requests : s # r => req'[s] = req[s]
<1>0. /\ UNCHANGED <<db, lists, world, tokens>> /\ req \in [Requests -> Request]
      /\ Bearer(op) <=> t \in 1..Len(tokens)
  BY DEF Send, AuthInv, Handlers
<1>1. ASSUME NEW q \in Request, Fits(q), Lateness(q), q.op \in {op, none},
             req' = [req EXCEPT ![r] = q]
      PROVE  /\ AuthInv' /\ UNCHANGED tokens
             /\ req'[r].op \in {op, none}
             /\ \A s \in Requests : s # r => req'[s] = req[s]
  BY <1>0, <1>1, QuietStep
<1>2. CASE req' = [req EXCEPT ![r] = Answered(r, 401, 0)]
  <2>1. PICK q : q = [idle EXCEPT !.pc = "done", !.answer = 401]
    OBVIOUS
  <2>2. /\ q \in Request /\ q.pc = "done" /\ ~q.late /\ q.op = none /\ q.answer = 401
        /\ q.got = 0
    <3>1. PICK code \in Codes : code = 401
      BY DEF Codes
    <3>2. idle \in Request
      BY BasicTypes
    <3>3. q \in Request
      <4>1. q = [idle EXCEPT !.pc = "done", !.answer = code]
        BY <2>1, <3>1
      <4> QED
        BY <3>2, <4>1 DEF Request
    <3> QED
      BY <2>1, <3>3 DEF idle
  <2>3. Fits(q) /\ Lateness(q)
    BY <2>2 DEF Fits, Lateness, Pending
  <2>4. req' = [req EXCEPT ![r] = q]
    BY <1>2, <2>1 DEF Answered
  <2> QED
    BY <1>1, <2>2, <2>3, <2>4
<1>3. ASSUME NEW a \in Arguments(op),
             req' = [req EXCEPT ![r] =
               [idle EXCEPT !.op = op, !.at = p, !.tok = t, !.arg = a[1], !.val = a[2],
                  !.late = IF op = "login" THEN Barred(a[1]) ELSE t \in out,
                  !.pc = IF Bearer(op) THEN "valkey" ELSE "handle"]]
      PROVE  /\ AuthInv' /\ UNCHANGED tokens
             /\ req'[r].op \in {op, none}
             /\ \A s \in Requests : s # r => req'[s] = req[s]
  <2>1. PICK b \in BOOLEAN : b = IF op = "login" THEN Barred(a[1]) ELSE t \in out
    <3>1. CASE op = "login"
      <4>1. Barred(a[1]) \in BOOLEAN
        BY DEF Barred
      <4> QED
        BY <3>1, <4>1
    <3>2. CASE op # "login"
      <4>1. (t \in out) \in BOOLEAN
        OBVIOUS
      <4> QED
        BY <3>2, <4>1
    <3> QED
      BY <3>1, <3>2
  <2>2. PICK pc \in {"valkey", "handle"} : pc = IF Bearer(op) THEN "valkey" ELSE "handle"
    OBVIOUS
  <2>3. PICK u \in Users \cup {none}, v \in Roles \cup Statuses \cup {none} :
          u = a[1] /\ v = a[2]
    BY ArgumentTypes
  <2>4. PICK q : q = [idle EXCEPT !.op = op, !.at = p, !.tok = t, !.arg = u, !.val = v,
                                  !.late = b, !.pc = pc]
    OBVIOUS
  <2>5. /\ q \in Request /\ q.op = op /\ q.at = p /\ q.tok = t /\ q.arg = u /\ q.val = v
        /\ q.late = b /\ q.pc = pc /\ q.got = 0 /\ q.answer = 0
    BY <2>4, BasicTypes DEF Request, idle
  <2>6. req' = [req EXCEPT ![r] = q]
    BY <1>3, <2>1, <2>2, <2>3, <2>4
  <2>7. op # none
    BY DEF PublicOps, AuthedOps, none
  <2>8. /\ op \in {"register", "create", "login", "status", "delete"} => u \in Users
        /\ op = "status" => v \in Statuses
    BY <2>3, ArgumentTypes
  <2>9. Fits(q)
    <3>1. pc = "handle" => op # "logout"
      BY <2>2 DEF Bearer, AuthedOps
    <3> QED
      BY <1>0, <2>2, <2>5, <2>7, <2>8, <3>1 DEF Fits, Pending
  <2>10. Lateness(q)
    <3> SUFFICES ASSUME q.late PROVE Lateness(q)
      BY DEF Lateness
    <3>1. CASE op = "login"
      <4>1. ~Bearer(op)
        BY <3>1 DEF Bearer, AuthedOps
      <4> QED
        BY <2>1, <2>2, <2>3, <2>5, <3>1, <4>1 DEF Lateness
    <3>2. CASE op # "login"
      <4>1. t \in out
        BY <2>1, <2>5, <3>2
      <4>2. t \in 1..MaxTokens
        BY <4>1 DEF AuthInv, AuthTypeOK
      <4>3. t \in 1..Len(tokens)
        BY <4>1, <4>2, Times DEF AuthInv, Revocations
      <4> QED
        BY <1>0, <2>2, <2>5, <4>1, <4>3 DEF Lateness
    <3> QED
      BY <3>1, <3>2
  <2> QED
    BY <1>1, <2>5, <2>6, <2>9, <2>10
<1> QED
  BY <1>2, <1>3 DEF Send
-----------------------------------------------------------------------------
\* Nothing of the server moves when an answer is taken.
LEMMA TakeStep ==
  ASSUME AuthInv, NEW r \in Requests, Take(r), UNCHANGED serverRest
  PROVE  /\ AuthInv' /\ UNCHANGED tokens /\ req'[r].op = none
         /\ \A s \in Requests : s # r => req'[s] = req[s]
<1>1. PICK q : q = idle
  OBVIOUS
<1>2. q \in Request /\ Fits(q) /\ Lateness(q) /\ q.op = none
  BY <1>1, BasicTypes
<1>3. req' = [req EXCEPT ![r] = q] /\ req \in [Requests -> Request]
  BY <1>1 DEF Take, AuthInv, Handlers
<1>4. UNCHANGED <<db, lists, world, tokens>>
  BY DEF serverRest
<1> QED
  BY <1>2, <1>3, <1>4, QuietStep

LEMMA SameServer ==
  ASSUME AuthInv, UNCHANGED authVars
  PROVE  AuthInv' /\ UNCHANGED <<tokens, req>>
BY DEF AuthInv, authVars, AuthTypeOK, Handlers, Fits, Lateness, Pending, Barred, Lifetimes,
       Revocations

TabType == [token : 0..MaxTokens, user : Users \cup {nobody}, loading : BOOLEAN,
            doing : {"nothing", "verify", "login", "logout"}, aside : BOOLEAN]
BrowserTypes == /\ storage \in 0..MaxTokens /\ tab \in [Tabs -> TabType]
                /\ left \in [Tabs -> BOOLEAN] /\ scripted \in 0..MaxScripted
BrowserInv == BrowserTypes /\ Owned /\ Away

LEMMA IInvParts == IInv <=> AuthInv /\ BrowserInv
BY DEF IInv, TypeOK, AuthInv, BrowserInv, BrowserTypes, TabType

LEMMA IInvAfter ==
  ASSUME AuthInv', BrowserInv'
  PROVE  IInv'
BY DEF IInv, TypeOK, AuthInv, BrowserInv, BrowserTypes, TabType

LEMMA Slots ==
  ASSUME NEW i \in Tabs, NEW j \in Tabs
  PROVE  /\ Main[i] \in Requests /\ Side[i] \in Requests /\ Main[i] # Side[j]
         /\ i # j => Main[i] # Main[j] /\ Side[i] # Side[j]
<1>1. Main \in [Tabs -> Requests] /\ Side \in [Tabs -> Requests]
  BY SlotsAssumption
<1>2. /\ Main[i] # Side[j]
      /\ i # j => Main[i] # Main[j] /\ Side[i] # Side[j]
  BY SlotsAssumption
<1> QED
  BY <1>1, <1>2

LEMMA FreshTypes ==
  /\ fresh \in TabType
  /\ fresh.token = 0 /\ fresh.doing = "nothing" /\ fresh.aside = FALSE
<1>1. 0 \in 0..MaxTokens
  BY TimesAssumption
<1> QED
  BY <1>1 DEF fresh, TabType

\* What a tab finds in an answer to a call of its own.
LEMMA Answers ==
  ASSUME AuthInv, NEW r \in Requests, req[r].answer = 200
  PROVE  /\ req[r].op # none /\ req[r].got \in 0..MaxTokens /\ req[r].tok \in 0..MaxTokens
         /\ req[r].op = "me" => tokens[req[r].tok].user \in Users
         /\ req[r].op = "login" => req[r].arg \in Users
BY RequestFacts, Times DEF Fits, Request, TokenType

\* A step of the server leaves the tabs with the calls they made.
LEMMA OwnedKept ==
  ASSUME Owned, KeepsOps, UNCHANGED tab
  PROVE  Owned'
BY SlotsAssumption DEF Owned, KeepsOps

LEMMA ServerStep ==
  ASSUME IInv, UNCHANGED browserVars,
         Environment \/ \E r \in Requests : Serve(r)
  PROVE  IInv'
<1>1. AuthInv' /\ KeepsOps
  BY ServeStep, EnvironmentStep, IInvParts
<1>2. BrowserInv'
  BY <1>1, IInvParts, OwnedKept DEF BrowserInv, browserVars, BrowserTypes, Away
<1> QED
  BY <1>1, <1>2, IInvAfter

\* Other clients keep off the slots that tabs are using.
LEMMA OtherClientStep ==
  ASSUME IInv, NEW r \in Requests, OtherClient(r)
  PROVE  IInv'
<1>0. AuthInv /\ BrowserInv /\ r \notin TabSlots /\ UNCHANGED <<storage, tab, left>>
  BY IInvParts DEF OtherClient
<1>1. AuthInv' /\ \A s \in Requests : s # r => req'[s] = req[s]
  <2>1. CASE Take(r) /\ UNCHANGED serverRest
    BY <1>0, <2>1, TakeStep
  <2>2. ASSUME NEW op \in PublicOps \cup AuthedOps, NEW p \in Replicas,
               NEW t \in 0..Len(tokens), Send(r, op, p, t)
        PROVE  AuthInv' /\ \A s \in Requests : s # r => req'[s] = req[s]
    <3>1. Len(tokens) <= MaxTokens
      BY <1>0 DEF AuthInv, AuthTypeOK
    <3>2. t \in 0..MaxTokens
      BY <1>0, <3>1, Times, TimesAssumption
    <3> QED
      BY <1>0, <2>2, <3>2, SendStep
  <2> QED
    BY <2>1, <2>2 DEF OtherClient
<1>2. Owned'
  BY <1>0, <1>1, SlotsAssumption DEF BrowserInv, Owned, TabSlots, BrowserTypes, TabType
<1>3. BrowserTypes' /\ Away'
  BY <1>0, ScriptsAssumption DEF BrowserInv, BrowserTypes, Away, OtherClient
<1> QED
  BY <1>1, <1>2, <1>3, IInvAfter DEF BrowserInv
-----------------------------------------------------------------------------
\* A tab that works on its own slot leaves the other tabs alone.
LEMMA OwnTab ==
  ASSUME BrowserInv, NEW i \in Tabs, NEW k \in TabType, tab' = [tab EXCEPT ![i] = k],
         NEW r \in {Main[i], Side[i]}, \A s \in Requests : s # r => req'[s] = req[s],
         k.doing = "verify" => req'[Main[i]].op \in {"me", none},
         k.doing = "login" => req'[Main[i]].op \in {"login", none},
         k.aside => req'[Side[i]].op \in {"me", none},
         storage' \in 0..MaxTokens, left' = [left EXCEPT ![i] = left'[i]],
         left'[i] \in BOOLEAN, left'[i] => k.token = 0 /\ k.doing = "nothing",
         UNCHANGED scripted
  PROVE  BrowserInv'
<1>1. tab \in [Tabs -> TabType] /\ left \in [Tabs -> BOOLEAN]
  BY DEF BrowserInv, BrowserTypes
<1>2. ASSUME NEW j \in Tabs, j # i
      PROVE  tab'[j] = tab[j] /\ left'[j] = left[j]
             /\ req'[Main[j]] = req[Main[j]] /\ req'[Side[j]] = req[Side[j]]
  <2>1. /\ Main[j] \in Requests /\ Side[j] \in Requests
        /\ Main[j] # r /\ Side[j] # r
    BY <1>2, Slots
  <2> QED
    BY <1>1, <1>2, <2>1
<1>3. tab'[i] = k
  BY <1>1
<1>4. BrowserTypes'
  BY <1>1 DEF BrowserInv, BrowserTypes
<1>5. Owned'
  BY <1>2, <1>3 DEF BrowserInv, Owned
<1>6. Away'
  BY <1>2, <1>3 DEF BrowserInv, Away
<1> QED
  BY <1>4, <1>5, <1>6 DEF BrowserInv

LEMMA LoadPageStep ==
  ASSUME IInv, NEW i \in Tabs, LoadPage(i)
  PROVE  IInv'
<1>0. /\ AuthInv /\ BrowserInv /\ tab \in [Tabs -> TabType] /\ left \in [Tabs -> BOOLEAN]
      /\ Main[i] \in Requests /\ storage \in 0..MaxTokens
  BY IInvParts, SlotsAssumption DEF BrowserInv, BrowserTypes
<1>1. /\ left' = [left EXCEPT ![i] = left'[i]] /\ left'[i] = FALSE
      /\ storage' \in 0..MaxTokens /\ UNCHANGED scripted
  BY <1>0 DEF LoadPage
<1>2. CASE tab' = [tab EXCEPT ![i] = fresh] /\ UNCHANGED authVars
  <2>1. AuthInv' /\ UNCHANGED req
    BY <1>0, <1>2, SameServer
  <2>2. BrowserInv'
    BY <1>0, <1>1, <1>2, <2>1, FreshTypes, OwnTab
  <2> QED
    BY <2>1, <2>2, IInvAfter
<1>3. ASSUME NEW p \in Replicas, Send(Main[i], "me", p, storage),
             tab' = [tab EXCEPT ![i] = [fresh EXCEPT !.token = storage, !.loading = TRUE,
                                                     !.doing = "verify"]]
      PROVE  IInv'
  <2>1. PICK k : k = [fresh EXCEPT !.token = storage, !.loading = TRUE, !.doing = "verify"]
    OBVIOUS
  <2>2. k \in TabType /\ k.doing = "verify" /\ ~k.aside
    BY <1>0, <2>1, FreshTypes DEF TabType
  <2>3. /\ AuthInv' /\ req'[Main[i]].op \in {"me", none}
        /\ \A s \in Requests : s # Main[i] => req'[s] = req[s]
    BY <1>0, <1>3, SendStep DEF PublicOps, AuthedOps
  <2>4. BrowserInv'
    BY <1>0, <1>1, <1>3, <2>1, <2>2, <2>3, OwnTab
  <2> QED
    BY <2>3, <2>4, IInvAfter
<1> QED
  BY <1>2, <1>3 DEF LoadPage

LEMMA VerifySessionStep ==
  ASSUME IInv, NEW i \in Tabs, VerifySession(i)
  PROVE  IInv'
<1>0. /\ AuthInv /\ BrowserInv /\ tab \in [Tabs -> TabType] /\ left \in [Tabs -> BOOLEAN]
      /\ Main[i] \in Requests /\ storage \in 0..MaxTokens
      /\ tab[i].doing = "verify" /\ UNCHANGED <<left, scripted>>
  BY IInvParts, SlotsAssumption DEF BrowserInv, BrowserTypes, VerifySession
<1>1. /\ AuthInv' /\ req'[Main[i]].op = none
      /\ \A s \in Requests : s # Main[i] => req'[s] = req[s]
  BY <1>0, TakeStep DEF VerifySession
<1>2. /\ left' = [left EXCEPT ![i] = left'[i]] /\ left'[i] = FALSE /\ left'[i] \in BOOLEAN
  BY <1>0 DEF BrowserInv, Away
<1>3. tab[i].aside => req'[Side[i]].op \in {"me", none}
  BY <1>0, <1>1, Slots DEF BrowserInv, Owned
<1>4. PICK k \in TabType : /\ tab' = [tab EXCEPT ![i] = k]
                           /\ k.doing = "nothing" /\ k.aside = tab[i].aside
                           /\ storage' \in 0..MaxTokens
  <2>1. CASE req[Main[i]].answer = 200
    <3>1. req[Main[i]].op \in {"me", none}
      BY <1>0 DEF BrowserInv, Owned
    <3>2. req[Main[i]].tok \in 0..MaxTokens /\ tokens[req[Main[i]].tok].user \in Users
      BY <1>0, <2>1, <3>1, Answers
    <3>3. PICK k : k = [fresh EXCEPT !.token = req[Main[i]].tok, !.aside = tab[i].aside,
                                     !.user = tokens[req[Main[i]].tok].user]
      OBVIOUS
    <3>4. k \in TabType /\ k.doing = "nothing" /\ k.aside = tab[i].aside
      BY <1>0, <3>2, <3>3, FreshTypes DEF TabType
    <3> QED
      BY <1>0, <2>1, <3>3, <3>4 DEF VerifySession
  <2>2. CASE req[Main[i]].answer # 200
    <3>1. PICK k : k = [fresh EXCEPT !.aside = tab[i].aside]
      OBVIOUS
    <3>2. k \in TabType /\ k.doing = "nothing" /\ k.aside = tab[i].aside
      BY <1>0, <3>1, FreshTypes DEF TabType
    <3>3. tab' = [tab EXCEPT ![i] = k]
      BY <2>2, <3>1 DEF VerifySession
    <3>4. storage' = 0 /\ 0 \in 0..MaxTokens
      BY <2>2, TimesAssumption DEF VerifySession
    <3> QED
      BY <3>2, <3>3, <3>4
  <2> QED
    BY <2>1, <2>2
<1>5. BrowserInv'
  BY <1>0, <1>1, <1>2, <1>3, <1>4, OwnTab
<1> QED
  BY <1>1, <1>5, IInvAfter

LEMMA StartLoginStep ==
  ASSUME IInv, NEW i \in Tabs, StartLogin(i)
  PROVE  IInv'
<1>0. /\ AuthInv /\ BrowserInv /\ tab \in [Tabs -> TabType] /\ left \in [Tabs -> BOOLEAN]
      /\ Main[i] \in Requests /\ storage' \in 0..MaxTokens /\ UNCHANGED scripted
  BY IInvParts, SlotsAssumption DEF BrowserInv, BrowserTypes, StartLogin
<1>1. /\ AuthInv' /\ req'[Main[i]].op \in {"login", none}
      /\ \A s \in Requests : s # Main[i] => req'[s] = req[s]
  <2>1. 0 \in 0..MaxTokens /\ "login" \in PublicOps \cup AuthedOps
    BY TimesAssumption DEF PublicOps
  <2> QED
    BY <1>0, <2>1, SendStep DEF StartLogin
<1>2. left' = [left EXCEPT ![i] = left'[i]] /\ left'[i] = FALSE /\ left'[i] \in BOOLEAN
  BY <1>0 DEF StartLogin
<1>3. tab[i].aside => req'[Side[i]].op \in {"me", none}
  BY <1>0, <1>1, Slots DEF BrowserInv, Owned
<1>4. PICK k : k = [tab[i] EXCEPT !.doing = "login"]
  OBVIOUS
<1>5. /\ k \in TabType /\ k.doing = "login" /\ k.aside = tab[i].aside
      /\ tab' = [tab EXCEPT ![i] = k]
  BY <1>0, <1>4 DEF TabType, StartLogin
<1>6. BrowserInv'
  BY <1>0, <1>1, <1>2, <1>3, <1>5, OwnTab
<1> QED
  BY <1>1, <1>6, IInvAfter

LEMMA FinishLoginStep ==
  ASSUME IInv, NEW i \in Tabs, FinishLogin(i)
  PROVE  IInv'
<1>0. /\ AuthInv /\ BrowserInv /\ tab \in [Tabs -> TabType] /\ left \in [Tabs -> BOOLEAN]
      /\ Main[i] \in Requests /\ storage \in 0..MaxTokens
      /\ tab[i].doing = "login" /\ UNCHANGED <<left, scripted>>
  BY IInvParts, SlotsAssumption DEF BrowserInv, BrowserTypes, FinishLogin
<1>1. /\ AuthInv' /\ req'[Main[i]].op = none
      /\ \A s \in Requests : s # Main[i] => req'[s] = req[s]
  BY <1>0, TakeStep DEF FinishLogin
<1>2. /\ left' = [left EXCEPT ![i] = left'[i]] /\ left'[i] = FALSE /\ left'[i] \in BOOLEAN
  BY <1>0 DEF BrowserInv, Away
<1>3. tab[i].aside => req'[Side[i]].op \in {"me", none}
  BY <1>0, <1>1, Slots DEF BrowserInv, Owned
<1>4. PICK k \in TabType : /\ tab' = [tab EXCEPT ![i] = k]
                           /\ k.doing = "nothing" /\ k.aside = tab[i].aside
                           /\ storage' \in 0..MaxTokens
  <2>1. CASE req[Main[i]].answer = 200
    <3>1. req[Main[i]].op \in {"login", none}
      BY <1>0 DEF BrowserInv, Owned
    <3>2. req[Main[i]].got \in 0..MaxTokens /\ req[Main[i]].arg \in Users
      BY <1>0, <2>1, <3>1, Answers
    <3>3. PICK k : k = [tab[i] EXCEPT !.doing = "nothing", !.token = req[Main[i]].got,
                                      !.user = req[Main[i]].arg]
      OBVIOUS
    <3>4. k \in TabType /\ k.doing = "nothing" /\ k.aside = tab[i].aside
      BY <1>0, <3>2, <3>3 DEF TabType
    <3>5. tab' = [tab EXCEPT ![i] = k]
      BY <1>0, <2>1, <3>3 DEF FinishLogin
    <3> QED
      BY <2>1, <3>2, <3>4, <3>5 DEF FinishLogin
  <2>2. CASE req[Main[i]].answer # 200
    <3>1. PICK k : k = [tab[i] EXCEPT !.doing = "nothing"]
      OBVIOUS
    <3>2. k \in TabType /\ k.doing = "nothing" /\ k.aside = tab[i].aside
      BY <1>0, <3>1 DEF TabType
    <3>3. tab' = [tab EXCEPT ![i] = k] /\ storage' \in 0..MaxTokens
      BY <1>0, <2>2, <3>1, TimesAssumption DEF FinishLogin
    <3> QED
      BY <3>2, <3>3
  <2> QED
    BY <2>1, <2>2
<1>5. BrowserInv'
  BY <1>0, <1>1, <1>2, <1>3, <1>4, OwnTab
<1> QED
  BY <1>1, <1>5, IInvAfter

LEMMA StartLogoutStep ==
  ASSUME IInv, NEW i \in Tabs, StartLogout(i)
  PROVE  IInv'
<1>0. /\ AuthInv /\ BrowserInv /\ tab \in [Tabs -> TabType] /\ left \in [Tabs -> BOOLEAN]
      /\ Main[i] \in Requests /\ storage \in 0..MaxTokens /\ UNCHANGED <<storage, scripted>>
      /\ tab[i].token # 0 /\ tab[i].doing = "nothing"
  BY IInvParts, SlotsAssumption DEF BrowserInv, BrowserTypes, StartLogout, SignedIn
<1>1. ASSUME NEW p \in Replicas, Send(Main[i], "logout", p, storage), UNCHANGED left,
             tab' = [tab EXCEPT ![i].doing = "logout"]
      PROVE  IInv'
  <2>1. /\ AuthInv' /\ \A s \in Requests : s # Main[i] => req'[s] = req[s]
    BY <1>0, <1>1, SendStep DEF AuthedOps
  <2>2. left' = [left EXCEPT ![i] = left'[i]] /\ left'[i] = FALSE /\ left'[i] \in BOOLEAN
    BY <1>0, <1>1 DEF BrowserInv, Away
  <2>3. tab[i].aside => req'[Side[i]].op \in {"me", none}
    BY <1>0, <2>1, Slots DEF BrowserInv, Owned
  <2>4. PICK k : k = [tab[i] EXCEPT !.doing = "logout"]
    OBVIOUS
  <2>5. /\ k \in TabType /\ k.doing = "logout" /\ k.aside = tab[i].aside
        /\ tab' = [tab EXCEPT ![i] = k]
    BY <1>0, <1>1, <2>4 DEF TabType
  <2>6. BrowserInv'
    BY <1>0, <2>1, <2>2, <2>3, <2>5, OwnTab
  <2> QED
    BY <2>1, <2>6, IInvAfter
<1>2. ASSUME UNCHANGED authVars, tab' = [tab EXCEPT ![i].token = 0, ![i].user = nobody],
             left' = [left EXCEPT ![i] = TRUE]
      PROVE  IInv'
  <2>1. AuthInv' /\ UNCHANGED req
    BY <1>0, <1>2, SameServer
  <2>2. left' = [left EXCEPT ![i] = left'[i]] /\ left'[i] \in BOOLEAN
    BY <1>0, <1>2
  <2>3. tab[i].aside => req'[Side[i]].op \in {"me", none}
    BY <1>0, <2>1 DEF BrowserInv, Owned
  <2>4. PICK k : k = [tab[i] EXCEPT !.token = 0, !.user = nobody]
    OBVIOUS
  <2>5. k \in TabType /\ k.doing = "nothing" /\ k.aside = tab[i].aside /\ k.token = 0
    <3>1. 0 \in 0..MaxTokens
      BY TimesAssumption
    <3> QED
      BY <1>0, <2>4, <3>1 DEF TabType
  <2>6. tab' = [tab EXCEPT ![i] = k]
    BY <1>0, <1>2, <2>4
  <2>7. BrowserInv'
    BY <1>0, <2>1, <2>2, <2>3, <2>5, <2>6, OwnTab
  <2> QED
    BY <2>1, <2>7, IInvAfter
<1> QED
  BY <1>1, <1>2 DEF StartLogout

LEMMA FinishLogoutStep ==
  ASSUME IInv, NEW i \in Tabs, FinishLogout(i)
  PROVE  IInv'
<1>0. /\ AuthInv /\ BrowserInv /\ tab \in [Tabs -> TabType] /\ left \in [Tabs -> BOOLEAN]
      /\ Main[i] \in Requests /\ storage' \in 0..MaxTokens /\ UNCHANGED scripted
  BY IInvParts, SlotsAssumption, TimesAssumption DEF BrowserInv, BrowserTypes, FinishLogout
<1>1. /\ AuthInv' /\ req'[Main[i]].op = none
      /\ \A s \in Requests : s # Main[i] => req'[s] = req[s]
  BY <1>0, TakeStep DEF FinishLogout
<1>2. left' = [left EXCEPT ![i] = left'[i]] /\ left'[i] \in BOOLEAN
  BY <1>0 DEF FinishLogout
<1>3. tab[i].aside => req'[Side[i]].op \in {"me", none}
  BY <1>0, <1>1, Slots DEF BrowserInv, Owned
<1>4. PICK k : k = [tab[i] EXCEPT !.doing = "nothing", !.token = 0, !.user = nobody]
  OBVIOUS
<1>5. /\ k \in TabType /\ k.doing = "nothing" /\ k.aside = tab[i].aside /\ k.token = 0
      /\ tab' = [tab EXCEPT ![i] = k]
  BY <1>0, <1>4, TimesAssumption DEF TabType, FinishLogout
<1>6. BrowserInv'
  BY <1>0, <1>1, <1>2, <1>3, <1>5, OwnTab
<1> QED
  BY <1>1, <1>6, IInvAfter

LEMMA StartAsideStep ==
  ASSUME IInv, NEW i \in Tabs, StartAside(i)
  PROVE  IInv'
<1>0. /\ AuthInv /\ BrowserInv /\ tab \in [Tabs -> TabType] /\ left \in [Tabs -> BOOLEAN]
      /\ Side[i] \in Requests /\ storage \in 0..MaxTokens
      /\ UNCHANGED <<storage, left, scripted>>
  BY IInvParts, SlotsAssumption DEF BrowserInv, BrowserTypes, StartAside
<1>1. /\ AuthInv' /\ req'[Side[i]].op \in {"me", none}
      /\ \A s \in Requests : s # Side[i] => req'[s] = req[s]
  BY <1>0, SendStep DEF StartAside, AuthedOps
<1>2. /\ left' = [left EXCEPT ![i] = left'[i]] /\ left'[i] \in BOOLEAN
      /\ left'[i] => tab[i].token = 0 /\ tab[i].doing = "nothing"
  BY <1>0 DEF BrowserInv, Away
<1>3. req'[Main[i]] = req[Main[i]]
  BY <1>1, Slots
<1>4. PICK k : k = [tab[i] EXCEPT !.aside = TRUE]
  OBVIOUS
<1>5. /\ k \in TabType /\ k.doing = tab[i].doing /\ k.token = tab[i].token
      /\ tab' = [tab EXCEPT ![i] = k]
  BY <1>0, <1>4 DEF TabType, StartAside
<1>6. BrowserInv'
  <2>1. /\ k.doing = "verify" => req'[Main[i]].op \in {"me", none}
        /\ k.doing = "login" => req'[Main[i]].op \in {"login", none}
    BY <1>0, <1>3, <1>5 DEF BrowserInv, Owned
  <2>2. storage' \in 0..MaxTokens /\ UNCHANGED scripted
    BY <1>0
  <2>3. left'[i] => k.token = 0 /\ k.doing = "nothing"
    BY <1>2, <1>5
  <2>4. PICK r \in {Main[i], Side[i]} : r = Side[i]
    OBVIOUS
  <2>5. \A s \in Requests : s # r => req'[s] = req[s]
    BY <1>1, <2>4
  <2> QED
    BY <1>0, <1>1, <1>2, <1>5, <2>1, <2>2, <2>3, <2>5, OwnTab
<1> QED
  BY <1>1, <1>6, IInvAfter

\* An answer on the side names a user, and restores no token.
LEMMA FinishAsideStep ==
  ASSUME IInv, NEW i \in Tabs, FinishAside(i)
  PROVE  IInv'
<1>0. /\ AuthInv /\ BrowserInv /\ tab \in [Tabs -> TabType] /\ left \in [Tabs -> BOOLEAN]
      /\ Side[i] \in Requests /\ storage' \in 0..MaxTokens
      /\ tab[i].aside /\ UNCHANGED <<left, scripted>>
  BY IInvParts, SlotsAssumption, TimesAssumption DEF BrowserInv, BrowserTypes, FinishAside
<1>1. /\ AuthInv' /\ req'[Side[i]].op = none
      /\ \A s \in Requests : s # Side[i] => req'[s] = req[s]
  BY <1>0, TakeStep DEF FinishAside
<1>2. /\ left' = [left EXCEPT ![i] = left'[i]] /\ left'[i] \in BOOLEAN
      /\ left'[i] => tab[i].token = 0 /\ tab[i].doing = "nothing"
  BY <1>0 DEF BrowserInv, Away
<1>3. req'[Main[i]] = req[Main[i]]
  BY <1>1, Slots
<1>4. PICK k \in TabType : /\ tab' = [tab EXCEPT ![i] = k] /\ k.aside = FALSE
                           /\ k.doing = tab[i].doing /\ k.token = tab[i].token
  <2>1. CASE tab' = [tab EXCEPT ![i].aside = FALSE]
    <3>1. PICK k : k = [tab[i] EXCEPT !.aside = FALSE]
      OBVIOUS
    <3>2. /\ k \in TabType /\ k.aside = FALSE
          /\ k.doing = tab[i].doing /\ k.token = tab[i].token
          /\ tab' = [tab EXCEPT ![i] = k]
      BY <1>0, <2>1, <3>1 DEF TabType
    <3> QED
      BY <3>2
  <2>2. ASSUME req[Side[i]].answer = 200,
               tab' = [tab EXCEPT ![i].aside = FALSE,
                                  ![i].user = tokens[req[Side[i]].tok].user]
        PROVE  \E k \in TabType : /\ tab' = [tab EXCEPT ![i] = k] /\ k.aside = FALSE
                                  /\ k.doing = tab[i].doing /\ k.token = tab[i].token
    <3>1. PICK u \in Users : u = tokens[req[Side[i]].tok].user
      BY <1>0, <2>2, Answers DEF BrowserInv, Owned
    <3>2. tab' = [tab EXCEPT ![i].aside = FALSE, ![i].user = u]
      BY <2>2, <3>1
    <3>3. PICK k : k = [tab[i] EXCEPT !.aside = FALSE, !.user = u]
      OBVIOUS
    <3>4. k \in TabType /\ k.aside = FALSE /\ k.doing = tab[i].doing /\ k.token = tab[i].token
      BY <1>0, <3>1, <3>3 DEF TabType
    <3>5. tab' = [tab EXCEPT ![i] = k]
      BY <1>0, <3>2, <3>3
    <3> QED
      BY <3>4, <3>5
  <2> QED
    BY <2>1, <2>2 DEF FinishAside
<1>5. BrowserInv'
  <2>1. /\ k.doing = "verify" => req'[Main[i]].op \in {"me", none}
        /\ k.doing = "login" => req'[Main[i]].op \in {"login", none}
    BY <1>0, <1>3, <1>4 DEF BrowserInv, Owned
  <2>2. storage' \in 0..MaxTokens /\ UNCHANGED scripted
    BY <1>0
  <2>3. left'[i] => k.token = 0 /\ k.doing = "nothing"
    BY <1>2, <1>4
  <2>4. PICK r \in {Main[i], Side[i]} : r = Side[i]
    OBVIOUS
  <2>5. \A s \in Requests : s # r => req'[s] = req[s]
    BY <1>1, <2>4
  <2> QED
    BY <1>0, <1>1, <1>2, <1>4, <2>1, <2>2, <2>3, <2>5, OwnTab
<1> QED
  BY <1>1, <1>5, IInvAfter
-----------------------------------------------------------------------------
LEMMA InitIInv == Init => IInv
<1> SUFFICES ASSUME Init PROVE IInv
  OBVIOUS
<1>0. 0 \in 0..MaxTokens /\ 0 \in 0..(MaxTime + BlacklistTTL) /\ 0 \in 0..MaxTime
      /\ 0 \in 0..MaxFaults /\ 0 \in 0..MaxScripted /\ Len(<<>>) = 0 /\ 0 <= MaxTokens
      /\ <<>> \in Seq(TokenType)
  BY TimesAssumption, ScriptsAssumption
<1>1. users \in [Users -> Row] /\ born \subseteq Users
  BY SeedAssumption, BasicTypes DEF Init, AuthInit, Row
<1>2. Handlers
  BY BasicTypes DEF Init, AuthInit, Handlers
<1>3. AuthTypeOK
  BY <1>0, <1>1, <1>2 DEF Init, AuthInit, AuthTypeOK, Handlers, Request
<1>4. Lifetimes /\ Revocations
  BY <1>0 DEF Init, AuthInit, Lifetimes, Revocations
<1>5. BrowserInv
  BY <1>0, FreshTypes DEF Init, BrowserInv, BrowserTypes, Owned, Away
<1> QED
  BY <1>2, <1>3, <1>4, <1>5, IInvParts DEF AuthInv

LEMMA StepIInv ==
  ASSUME IInv, [Next]_vars
  PROVE  IInv'
<1>1. CASE UNCHANGED vars
  <2>1. UNCHANGED authVars /\ UNCHANGED browserVars
    BY <1>1 DEF vars
  <2>2. AuthInv' /\ UNCHANGED req
    BY <2>1, SameServer, IInvParts
  <2>3. BrowserInv'
    BY <2>1, <2>2, IInvParts DEF BrowserInv, browserVars, BrowserTypes, Owned, Away
  <2> QED
    BY <2>2, <2>3, IInvAfter
<1>2. CASE \E r \in Requests : OtherClient(r)
  BY <1>2, OtherClientStep
<1>3. CASE (\E r \in Requests : Serve(r) /\ UNCHANGED browserVars)
              \/ (Environment /\ UNCHANGED browserVars)
  BY <1>3, ServerStep
<1>4. ASSUME NEW i \in Tabs,
             \/ LoadPage(i) \/ VerifySession(i) \/ StartLogin(i) \/ FinishLogin(i)
             \/ StartLogout(i) \/ FinishLogout(i) \/ StartAside(i) \/ FinishAside(i)
      PROVE  IInv'
  BY <1>4, LoadPageStep, VerifySessionStep, StartLoginStep, FinishLoginStep,
     StartLogoutStep, FinishLogoutStep, StartAsideStep, FinishAsideStep
<1> QED
  BY <1>1, <1>2, <1>3, <1>4 DEF Next

(* The inductive invariant: every request carries what its step needs,     *)
(* whoever is late is on a way that ends in a refusal, and the revocation  *)
(* of a token outlives it (auth.js, middleware/auth.js, valkey.js,         *)
(* AuthContext.jsx).                                                       *)
THEOREM BrowserInvariant == Spec => []IInv
<1>1. Init => IInv
  BY InitIInv
<1>2. IInv /\ [Next]_vars => IInv'
  BY StepIInv
<1> QED
  BY <1>1, <1>2, PTL DEF Spec

(* Accounts, tokens, revocations, requests and tabs keep their types, for  *)
(* any accounts, replicas, requests and tabs.                              *)
THEOREM ConsoleTypes == Spec => []TypeOK
<1>1. IInv => TypeOK
  BY DEF IInv
<1> QED
  BY <1>1, BrowserInvariant, PTL

(* A token whose logout was answered and stored in Valkey opens nothing    *)
(* any more at a replica that can ask, neither a handler nor a refresh     *)
(* (docs/HA_ARCHITECTURE.md:98).                                           *)
THEOREM RevokedTokensRefused == Spec => []LoggedOutStaysOut
<1>1. IInv => LoggedOutStaysOut
  <2> SUFFICES ASSUME IInv, NEW r \in Requests, req[r].late, Bearer(req[r].op)
               PROVE  ~Accepted(r)
    BY DEF LoggedOutStaysOut
  <2>1. Lateness(req[r])
    BY RequestFacts, IInvParts
  <2>2. req[r].op # "login" /\ "refresh" \notin AuthedOps
    BY DEF Bearer, AuthedOps
  <2>3. req[r].pc \in {"valkey", "select", "handle", "compare"}
    BY <2>1 DEF Lateness
  <2>4. req[r].pc = "handle" => req[r].op \notin AuthedOps
    BY <2>1, <2>2 DEF Lateness
  <2> QED
    BY <2>3, <2>4 DEF Accepted
<1> QED
  BY <1>1, BrowserInvariant, PTL

(* A login sent after its account was suspended, revoked or deleted is     *)
(* given no token, although the row is read before the password is         *)
(* compared and the row read first decides (routes/auth.js:113).           *)
THEOREM BarredAccountsStayOut == Spec => []BarredStaysOut
<1>1. IInv => BarredStaysOut
  <2> SUFFICES ASSUME IInv, NEW r \in Requests, req[r].late
               PROVE  req[r].got = 0
    BY DEF BarredStaysOut
  <2>1. Lateness(req[r]) /\ Fits(req[r])
    BY RequestFacts, IInvParts
  <2> QED
    BY <2>1 DEF Lateness, Fits
<1> QED
  BY <1>1, BrowserInvariant, PTL

(* A tab that has logged out is not signed in again by the answers that    *)
(* were on their way to it (AuthContext.jsx).                              *)
THEOREM LogoutHolds == Spec => []LogoutIsFinal
<1>1. IInv => LogoutIsFinal
  BY DEF IInv, Away, LogoutIsFinal, SignedIn
<1> QED
  BY <1>1, BrowserInvariant, PTL
=============================================================================
