--------------------------- MODULE ConsoleBrowser ---------------------------
(***************************************************************************)
(* A browser at the console: console/frontend/src/context/AuthContext.jsx  *)
(* and the request function of services/api.js, over the accounts and      *)
(* tokens of ConsoleAuth.  The tabs of a browser share localStorage; each  *)
(* keeps its own token and user in React state, and sends whatever token   *)
(* localStorage holds at that moment.  Other clients of the API (scripts,  *)
(* agents) use the slots Scripts while no tab does.                        *)
(***************************************************************************)
EXTENDS ConsoleAuth

CONSTANTS
  Tabs,
  Main, Side,     \* the request slots of a tab: session work, background work
  Scripts,        \* slots that the other clients use
  MaxScripted     \* how many requests they send

\* Every tab has two slots of its own.
ASSUME SlotsAssumption ==
  /\ Main \in [Tabs -> Requests] /\ Side \in [Tabs -> Requests]
  /\ \A i, j \in Tabs : Main[i] # Side[j]
  /\ \A i, j \in Tabs : i # j => Main[i] # Main[j] /\ Side[i] # Side[j]
ASSUME ScriptsAssumption == MaxScripted \in Nat

VARIABLES
  storage,        \* localStorage.neronet_jwt_token, 0 when it is not set
  tab,            \* the state of AuthProvider in each tab
  left,           \* history: the tab has logged out and not come back since
  scripted        \* requests sent by other clients

browserVars == <<storage, tab, left, scripted>>
vars == <<authVars, browserVars>>

nobody == "nobody"
SignedIn(i) == tab[i].token # 0 /\ tab[i].user # nobody
TabSlots == {Main[i] : i \in {j \in Tabs : tab[j].doing # "nothing"}}
              \cup {Side[i] : i \in {j \in Tabs : tab[j].aside}}

TypeOK ==
  /\ AuthTypeOK
  /\ storage \in 0..MaxTokens
  /\ tab \in [Tabs -> [token : 0..MaxTokens, user : Users \cup {nobody}, loading : BOOLEAN,
                       doing : {"nothing", "verify", "login", "logout"},
                       aside : BOOLEAN]]
  /\ left \in [Tabs -> BOOLEAN] /\ scripted \in 0..MaxScripted

fresh == [token |-> 0, user |-> nobody, loading |-> FALSE, doing |-> "nothing", aside |-> FALSE]

Init ==
  /\ AuthInit
  /\ storage = 0 /\ tab = [i \in Tabs |-> fresh] /\ left = [i \in Tabs |-> FALSE]
  /\ scripted = 0

Take(r) == req' = [req EXCEPT ![r] = idle]
serverRest == <<db, lists, world, tokens>>
Done(r) == req[r].pc = "done"

(* The page is loaded: verifySession asks /auth/me, unless nothing is      *)
(* stored.                                                                 *)
LoadPage(i) ==
  /\ tab[i].doing = "nothing" /\ ~tab[i].aside
  /\ left' = [left EXCEPT ![i] = FALSE]
  /\ \/ /\ storage = 0
        /\ tab' = [tab EXCEPT ![i] = fresh] /\ UNCHANGED authVars
     \/ /\ storage # 0
        /\ tab' = [tab EXCEPT ![i] = [fresh EXCEPT !.token = storage, !.loading = TRUE,
                                                   !.doing = "verify"]]
        /\ \E p \in Replicas : Send(Main[i], "me", p, storage)
  /\ UNCHANGED <<storage, scripted>>

(* Anything but a user in the answer, a broken connection too, clears the  *)
(* session of the browser (clearAuth).                                     *)
VerifySession(i) ==
  LET r == Main[i] IN
  /\ tab[i].doing = "verify" /\ Done(r) /\ Take(r)
  /\ \/ /\ req[r].answer = 200
        /\ tab' = [tab EXCEPT ![i] = [fresh EXCEPT !.token = req[r].tok, !.aside = tab[i].aside,
                                                   !.user = tokens[req[r].tok].user]]
        /\ UNCHANGED storage
     \/ /\ req[r].answer # 200
        /\ tab' = [tab EXCEPT ![i] = [fresh EXCEPT !.aside = tab[i].aside]]
        /\ storage' = 0
  /\ UNCHANGED <<serverRest, left, scripted>>

(* LoginPage is shown when the tab is not signed in.                       *)
StartLogin(i) ==
  /\ tab[i].doing = "nothing" /\ ~tab[i].loading /\ ~SignedIn(i)
  /\ \E p \in Replicas : Send(Main[i], "login", p, 0)
  /\ tab' = [tab EXCEPT ![i].doing = "login"]
  /\ left' = [left EXCEPT ![i] = FALSE]
  /\ UNCHANGED <<storage, scripted>>

(* request drops the stored token on every 401, a wrong password included. *)
FinishLogin(i) ==
  LET r == Main[i] IN
  /\ tab[i].doing = "login" /\ Done(r) /\ Take(r)
  /\ IF req[r].answer = 200
       THEN /\ storage' = req[r].got
            /\ tab' = [tab EXCEPT ![i].doing = "nothing", ![i].token = req[r].got,
                                  ![i].user = req[r].arg]
       ELSE /\ storage' = IF req[r].answer = 401 THEN 0 ELSE storage
            /\ tab' = [tab EXCEPT ![i].doing = "nothing"]
  /\ UNCHANGED <<serverRest, left, scripted>>

(* Without a stored token the request is refused at once.                  *)
StartLogout(i) ==
  /\ tab[i].doing = "nothing" /\ SignedIn(i)
  /\ \/ /\ storage # 0 /\ tab' = [tab EXCEPT ![i].doing = "logout"]
        /\ \E p \in Replicas : Send(Main[i], "logout", p, storage)
        /\ UNCHANGED <<storage, left>>
     \/ /\ storage = 0 /\ tab' = [tab EXCEPT ![i].token = 0, ![i].user = nobody]
        /\ left' = [left EXCEPT ![i] = TRUE]
        /\ UNCHANGED <<authVars, storage>>
  /\ UNCHANGED scripted

(* Whatever the server answered, the browser forgets the session.          *)
FinishLogout(i) ==
  /\ tab[i].doing = "logout" /\ Done(Main[i]) /\ Take(Main[i])
  /\ storage' = 0
  /\ tab' = [tab EXCEPT ![i].doing = "nothing", ![i].token = 0, ![i].user = nobody]
  /\ left' = [left EXCEPT ![i] = TRUE]
  /\ UNCHANGED <<serverRest, scripted>>

(* refreshUser, or any other call of the API, beside what the tab does.    *)
StartAside(i) ==
  /\ ~tab[i].aside /\ SignedIn(i) /\ storage # 0
  /\ \E p \in Replicas : Send(Side[i], "me", p, storage)
  /\ tab' = [tab EXCEPT ![i].aside = TRUE]
  /\ UNCHANGED <<storage, left, scripted>>

\* Variant: the answer restores the token with the user.
FinishAsideSigningIn(i) ==
  LET r == Side[i] IN
  /\ tab[i].aside /\ Done(r) /\ Take(r)
  /\ storage' = IF req[r].answer = 401 THEN 0 ELSE storage
  /\ tab' = IF req[r].answer = 200
              THEN [tab EXCEPT ![i].aside = FALSE, ![i].token = req[r].tok,
                               ![i].user = tokens[req[r].tok].user]
              ELSE [tab EXCEPT ![i].aside = FALSE]
  /\ UNCHANGED <<serverRest, left, scripted>>

FinishAside(i) ==
  LET r == Side[i] IN
  /\ tab[i].aside /\ Done(r) /\ Take(r)
  /\ storage' = IF req[r].answer = 401 THEN 0 ELSE storage
  /\ \/ tab' = [tab EXCEPT ![i].aside = FALSE]
     \/ /\ req[r].answer = 200
        /\ tab' = [tab EXCEPT ![i].aside = FALSE, ![i].user = tokens[req[r].tok].user]
  /\ UNCHANGED <<serverRest, left, scripted>>

(* The other clients: any operation, any token that was ever signed.       *)
OtherClient(r) ==
  /\ r \in Scripts \ TabSlots
  /\ \/ Done(r) /\ Take(r) /\ UNCHANGED <<serverRest, scripted>>
     \/ /\ scripted < MaxScripted /\ scripted' = scripted + 1
        /\ \E op \in PublicOps \cup AuthedOps, p \in Replicas, t \in 0..Len(tokens) :
             Send(r, op, p, t)
  /\ UNCHANGED <<storage, tab, left>>

Next ==
  \/ \E i \in Tabs : \/ LoadPage(i) \/ VerifySession(i) \/ StartLogin(i) \/ FinishLogin(i)
                     \/ StartLogout(i) \/ FinishLogout(i) \/ StartAside(i) \/ FinishAside(i)
  \/ \E r \in Requests : OtherClient(r) \/ (Serve(r) /\ UNCHANGED browserVars)
  \/ Environment /\ UNCHANGED browserVars

Spec == Init /\ [][Next]_vars
-----------------------------------------------------------------------------
(* A tab that has logged out stays signed out until somebody signs in or   *)
(* loads the page again, whatever answers are still on their way to it     *)
(* (AuthContext.jsx: logout, refreshUser, verifySession).                  *)
LogoutIsFinal == \A i \in Tabs : left[i] => ~SignedIn(i)
=============================================================================
