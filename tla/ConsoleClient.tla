--------------------------- MODULE ConsoleClient ---------------------------
(***************************************************************************)
(* The pages of the web console that list something and change it: the     *)
(* methods of console/frontend/src/services/api.js, which fall back to a   *)
(* store of their own, and the handlers of the components that call them.  *)
(*                                                                         *)
(* A method asks the server first.  Whatever is not an answer with a body  *)
(* (no connection, a refusal, an error, a route the server does not have)  *)
(* becomes null, and the method then works on the arrays inMemory* of the  *)
(* browser and reports success.  Clicks do not wait for each other: every  *)
(* handler is a call of its own, suspended at each await.                  *)
(*                                                                         *)
(* Some lists are the browser's own array, not a copy: what a method does  *)
(* to that array is in the page's state at once, and the page is not drawn *)
(* again for it, not even when it loads the same array again.              *)
(*                                                                         *)
(* A behaviour is about one page, opened again and again when nothing is   *)
(* under way.  A row is there, gone or changed; what it holds, which rows  *)
(* a role does not see, and methods no component calls, are left out.  So  *)
(* are rows that two arrays share: a domain verified or a node quarantined *)
(* is changed in the arrays that were the browser's before, too.           *)
(***************************************************************************)
EXTENDS Integers

CONSTANTS
  Pages,        \* the pages of this instance
  Ids, Seeds,   \* ids of rows; those the mock data begins with
  Calls,        \* slots for handlers under way
  MaxOthers     \* how many changes other clients make

AllPages == {"nodes", "users", "domains", "peers", "policies", "rules", "risk", "drops"}
ASSUME ClientAssumption ==
  /\ Pages \subseteq AllPages /\ Ids # {} /\ Seeds \subseteq Ids /\ MaxOthers \in Nat

VARIABLES
  page,         \* the page that is open
  server,       \* the server's rows of the page's table
  local,        \* inMemoryUsers, inMemoryCustomDomains, ... of the browser
  held,         \* the React state of the page is the browser's own array
  kept,         \* the React state otherwise
  shown,        \* the rows as last drawn
  call,         \* the handlers under way
  source,       \* history: which store the page was last set from
  overlapped,   \* history: two handlers were under way since the last list on its own
  touched,      \* history: the table changed since then and the page was not told
  others

state == <<held, kept, shown>>
vars == <<page, server, local, state, call, source, overlapped, touched, others>>
history == <<source, overlapped, touched>>

Store == [Ids -> {"gone", "there", "changed"}]
State == [Ids -> {"gone", "there", "changed", "twice"}]
Nothing == [x \in Ids |-> "gone"]
idle == [at |-> "idle", op |-> "list", id |-> CHOOSE x \in Ids : TRUE, live |-> FALSE,
         ref |-> FALSE, rows |-> Nothing]
Busy(s) == call[s].at # "idle"
Alone(s) == \A t \in Calls \ {s} : ~Busy(t)
View == IF held THEN local ELSE kept

TypeOK ==
  /\ page \in Pages /\ server \in Store /\ local \in Store
  /\ held \in BOOLEAN /\ kept \in State /\ shown \in State
  /\ call \in [Calls -> [at : {"idle", "fetch", "back", "settle"},
                         op : {"list", "add", "change", "remove", "bulk"}, id : Ids,
                         live : BOOLEAN, ref : BOOLEAN, rows : State]]
  /\ source \in {"none", "live", "local", "both", "empty"}
  /\ overlapped \in BOOLEAN /\ touched \in BOOLEAN /\ others \in 0..MaxOthers

Init ==
  /\ page \in Pages
  /\ server \in [Ids -> {"gone", "there"}]
  /\ local = [x \in Ids |-> IF x \in Seeds THEN "there" ELSE "gone"]
  /\ held = FALSE /\ kept = Nothing /\ shown = Nothing /\ call = [s \in Calls |-> idle]
  /\ source = "none" /\ overlapped = FALSE /\ touched = FALSE /\ others = 0
-----------------------------------------------------------------------------
(* What the handlers of each page call, beside the list.  Nodes are        *)
(* changed from the drawer and the modal that App.jsx opens over the page. *)
EnrolModal == {"add"}
NodesPage == {"change", "remove"} \cup EnrolModal      \* the drawer, and the modal
UsersPage == {"add", "remove", "change"}      \* change: updateSplitTunneling
DomainsPage == {"add", "remove", "change"}    \* change: verifyCustomDomain
PeersPage == {"add", "change"}                \* change: accept, revoke
PoliciesPage == {"change", "bulk"}
RulesPage == {"add", "remove"}
RiskPage == {"change"}                        \* quarantine, clearRisk
DropsPage == {"add"}                          \* a transfer, for the history
Offered == [nodes |-> NodesPage, users |-> UsersPage, domains |-> DomainsPage,
            peers |-> PeersPage, policies |-> PoliciesPage, rules |-> RulesPage,
            risk |-> RiskPage, drops |-> DropsPage]

(* The requests of these methods that the server has a route for.  Of the  *)
(* risk page, only quarantine reaches one, and it changes no list there;   *)
(* the session of a transfer is in no list either.                         *)
Routes == {<<"nodes", "list">>, <<"nodes", "add">>, <<"nodes", "change">>,
           <<"users", "list">>, <<"users", "add">>, <<"users", "remove">>,
           <<"domains", "list">>, <<"domains", "add">>, <<"peers", "list">>,
           <<"policies", "list">>, <<"risk", "change">>, <<"drops", "add">>}

(* Rules are kept in the browser only; nothing is fetched.                 *)
Fetches == page # "rules"

(* These pages wait for several lists at once (Promise.all).               *)
Joined == page \in {"domains", "risk"}

(* The lists these pages get from the browser are its own arrays.          *)
Aliased == page \in {"users", "domains", "peers", "rules", "drops"}

(* After these changes the handler clears a field or closes a modal, and   *)
(* the page is drawn; after the others only a new list draws it.           *)
Closes(op) == \/ op = "add" /\ page \in {"users", "domains", "peers", "rules"}
              \/ op = "change" /\ page = "users"
-----------------------------------------------------------------------------
(* What a method does to the browser's rows when the server did not answer *)
(* (or was not asked), page by page.                                       *)
Put(rows, x, v) == [rows EXCEPT ![x] = v]
Touch(rows, x) == IF rows[x] = "gone" THEN rows ELSE Put(rows, x, "changed")

EnrolOffline(x) == Put(local, x, "there")
NodesOffline(op, x) == CASE op = "add" -> EnrolOffline(x)
                         [] op = "remove" -> Put(local, x, "gone")
                         [] OTHER -> Touch(local, x)
UsersOffline(op, x) == CASE op = "add" -> Put(local, x, "there")
                         [] op = "remove" -> Put(local, x, "gone")
                         [] OTHER -> Touch(local, x)
DomainsOffline(op, x) == CASE op = "add" -> Put(local, x, "there")
                           [] op = "remove" -> Put(local, x, "gone")
                           [] OTHER -> Touch(local, x)
PeersOffline(op, x) == IF op = "add" THEN Put(local, x, "there") ELSE Touch(local, x)
PoliciesOffline(op, x, rows) ==
  IF op = "change" THEN Put(local, x, "changed")
    ELSE [y \in Ids |-> IF rows[y] # "gone" THEN "changed" ELSE local[y]]
RulesOffline(op, x) == Put(local, x, IF op = "add" THEN "there" ELSE "gone")
RiskOffline(op, x) == Touch(local, x)

Offline(op, x, rows) ==
  CASE page = "nodes" -> NodesOffline(op, x)
    [] page = "users" -> UsersOffline(op, x) [] page = "domains" -> DomainsOffline(op, x)
    [] page = "peers" -> PeersOffline(op, x) [] page = "policies" -> PoliciesOffline(op, x, rows)
    [] page = "rules" -> RulesOffline(op, x) [] OTHER -> RiskOffline(op, x)

(* quarantine changes the browser's own row even when the server answered. *)
Also(x) == IF page = "risk" THEN Touch(local, x) ELSE local

(* A list: the server's when it answered with any row, else the browser's; *)
(* the nodes are never those of the browser.                               *)
Answered(s) == call[s].live /\ (page = "nodes" \/ call[s].rows # Nothing)
Listed(s) == IF Answered(s) THEN call[s].rows
               ELSE IF page = "nodes" THEN Nothing ELSE local
-----------------------------------------------------------------------------
(* The page is mounted, the role changes, or somebody clicks.  Rows are    *)
(* changed and removed from where they are shown; handleBulkSet takes the  *)
(* rows it sees along.  A transfer is started when none is running.        *)
Started(s, op, x, rows) == [call EXCEPT ![s] =
  [idle EXCEPT !.at = IF Fetches THEN "fetch" ELSE "back", !.op = op, !.id = x, !.rows = rows]]
Begin(s, op, x) ==
  /\ call[s].at = "idle"
  /\ call' = Started(s, op, x, IF op = "bulk" THEN View ELSE Nothing)
  /\ overlapped' = (overlapped \/ ~Alone(s))
  /\ UNCHANGED <<page, server, local, state, source, touched, others>>

Mount(s) ==
  /\ \A t \in Calls : ~Busy(t)
  /\ held' = FALSE /\ kept' = Nothing /\ shown' = Nothing /\ source' = "none"
  /\ call' = Started(s, "list", idle.id, Nothing)
  /\ UNCHANGED <<page, server, local, overlapped, touched, others>>

ChangeRole(s) == page \in {"nodes", "drops"} /\ source # "none" /\ Begin(s, "list", idle.id)

Click(s, op, x) ==
  /\ source # "none" /\ op \in Offered[page]
  /\ op = "add" <=> shown[x] = "gone"
  /\ op = "bulk" => x = idle.id
  /\ page = "drops" => \A t \in Calls : ~(Busy(t) /\ call[t].op = "add")
  /\ Begin(s, op, x)

(* Something else the page holds has changed, or App.jsx is drawn again.   *)
Render ==
  /\ shown # View /\ shown' = View
  /\ UNCHANGED <<page, server, local, held, kept, call, history, others>>

(* The server does what it is asked.                                       *)
Serve(op, x) ==
  CASE op = "add" /\ page # "drops" -> Put(server, x, "there")
    [] op = "remove" -> Put(server, x, "gone")
    [] op = "change" /\ page = "nodes" -> Touch(server, x)
    [] OTHER -> server

(* request: an answer with a body, or null, though the server may have     *)
(* acted all the same.                                                     *)
Fetch(s) ==
  LET op == call[s].op
      alone == op = "list" /\ Alone(s)
  IN  /\ call[s].at = "fetch"
      /\ \/ /\ <<page, op>> \in Routes
            /\ server' = Serve(op, call[s].id)
            /\ \E lost \in BOOLEAN : call' = [call EXCEPT ![s].at = "back", ![s].live = ~lost,
                 ![s].rows = IF op = "list" /\ ~lost THEN server ELSE Nothing]
         \/ call' = [call EXCEPT ![s].at = "back"] /\ UNCHANGED server
      /\ overlapped' = (overlapped /\ ~alone)
      /\ touched' = ((touched /\ ~alone) \/ (page = "nodes" /\ op # "list"))
      /\ UNCHANGED <<page, local, state, source, others>>

(* The method returns a list, and the page takes it, at once or when the   *)
(* other lists of the page are there too.  The array it has already does   *)
(* not draw it again.                                                      *)
Show(s, rows, live, ref) ==
  /\ held' = ref /\ kept' = IF ref THEN Nothing ELSE rows
  /\ shown' = IF held /\ ref THEN shown ELSE rows
  /\ source' = IF live THEN "live" ELSE IF page = "nodes" THEN "empty" ELSE "local"
  /\ call' = [call EXCEPT ![s] = idle]

ReturnList(s) ==
  LET live == Answered(s)
      ref == Aliased /\ ~live
  IN  /\ call[s].at = "back" /\ call[s].op = "list"
      /\ IF Joined
           THEN /\ call' = [call EXCEPT ![s].at = "settle", ![s].live = live, ![s].ref = ref,
                                        ![s].rows = IF ref THEN Nothing ELSE Listed(s)]
                /\ UNCHANGED <<state, source>>
           ELSE Show(s, Listed(s), live, ref)
      /\ UNCHANGED <<page, server, local, overlapped, touched, others>>

Settle(s) ==
  /\ call[s].at = "settle"
  /\ Show(s, IF call[s].ref THEN local ELSE call[s].rows, call[s].live, call[s].ref)
  /\ UNCHANGED <<page, server, local, overlapped, touched, others>>

(* A change returns, from the server or from the browser, and the handler  *)
(* loads the list again; not so the drawer and the modal, which have       *)
(* App.jsx count the nodes anew but leave NodeMatrix alone.  On a row the  *)
(* browser does not know updateSplitTunneling throws, and the handler      *)
(* stops there.  To remove a row is to make a new array: whoever has the   *)
(* old one keeps that.                                                     *)
Unknown(s) == /\ page = "users" /\ call[s].op = "change" /\ ~call[s].live
              /\ local[call[s].id] = "gone"
Replaces(s) == page = "policies" /\ call[s].op = "change"
Records(s) == page = "drops" /\ call[s].op = "add"
Parts(s) == Aliased /\ call[s].op = "remove" /\ ~call[s].live

\* Variant: no handler loads the list again.
ReloadNever(s, t) == IF t = s THEN idle ELSE call[t]
Reload(s, t) ==
  IF t = s THEN IF Unknown(s) \/ page = "nodes" THEN idle
                  ELSE [idle EXCEPT !.at = IF Fetches THEN "fetch" ELSE "back"]
    ELSE IF Parts(s) /\ call[t].ref THEN [call[t] EXCEPT !.ref = FALSE, !.rows = local]
    ELSE call[t]

ReturnChange(s) ==
  /\ call[s].at = "back" /\ call[s].op # "list" /\ ~Replaces(s) /\ ~Records(s)
  /\ local' = IF call[s].live THEN Also(call[s].id)
                ELSE Offline(call[s].op, call[s].id, call[s].rows)
  /\ held' = (held /\ ~Parts(s)) /\ kept' = IF Parts(s) THEN View ELSE kept
  /\ shown' = IF Closes(call[s].op) THEN View' ELSE shown
  /\ call' = [t \in Calls |-> Reload(s, t)]
  /\ UNCHANGED <<page, server, history, others>>

(* handleUpdatePolicy puts the returned row in the place of the old one.   *)
ReplaceRow(s) ==
  LET x == call[s].id IN
  /\ call[s].at = "back" /\ Replaces(s)
  /\ local' = Offline("change", x, Nothing)
  /\ kept' = Touch(kept, x) /\ shown' = kept' /\ UNCHANGED held
  /\ source' = IF source = "local" THEN "local" ELSE "both"
  /\ call' = [call EXCEPT ![s] = idle]
  /\ UNCHANGED <<page, server, overlapped, touched, others>>

(* startTransfer, with a session of the server or without: recordTransfer  *)
(* puts the transfer before the others in the browser's array, and the     *)
(* page puts it before those it has: which is that array, until it has     *)
(* made one of its own this way.                                           *)
RecordTransfer(s) ==
  LET x == call[s].id IN
  /\ call[s].at = "back" /\ Records(s)
  /\ local' = Put(local, x, "there")
  /\ kept' = Put(View, x, IF held THEN "twice" ELSE "there")
  /\ held' = FALSE /\ shown' = kept'
  /\ call' = [call EXCEPT ![s] = idle]
  /\ UNCHANGED <<page, server, history, others>>

(* Other clients change the table at the server.                           *)
OtherClient ==
  /\ others < MaxOthers /\ others' = others + 1
  /\ \E x \in Ids, v \in {"gone", "there"} : server' = Put(server, x, v)
  /\ touched' = TRUE
  /\ UNCHANGED <<page, local, state, call, source, overlapped>>

Next ==
  \/ \E s \in Calls : \/ Mount(s) \/ ChangeRole(s) \/ Fetch(s) \/ ReturnList(s) \/ Settle(s)
                      \/ ReturnChange(s) \/ ReplaceRow(s) \/ RecordTransfer(s)
                      \/ \E op \in Offered[page], x \in Ids : Click(s, op, x)
  \/ Render \/ OtherClient

Spec == Init /\ [][Next]_vars
-----------------------------------------------------------------------------
(* When no handler is under way, the page shows the rows of the store it   *)
(* was last filled from, with every change that was made there since.      *)
(* From the browser's store this holds in whatever order the handlers      *)
(* ended, but for pages that wait for several lists (AppBundles.jsx:59),   *)
(* where an older list may settle last, and for the policies, where a      *)
(* change is not followed by a list (GeoFencingMap.jsx:143).  Two          *)
(* differences remain: an agreement accepted or revoked                    *)
(* (PeeringManagement.jsx:89) and a domain verified may be shown as before *)
(* until the page is drawn for another reason, and one transfer since the  *)
(* list was loaded is shown twice (NeroDrop.jsx:132).  From the server it  *)
(* holds when handlers did not overlap, nobody else changed the table, and *)
(* no node was changed from this page: it does not ask for them again.     *)
InAnyOrder == ~Joined /\ page # "policies"
ShownBefore(x) == page \in {"peers", "domains"} /\ shown[x] = "there" /\ local[x] = "changed"
ShownTwice(x) == page = "drops" /\ shown[x] = "twice" /\ local[x] = "there"

PagesShowTheirStore ==
  (\A s \in Calls : ~Busy(s)) =>
    /\ source = "local" /\ (InAnyOrder \/ ~overlapped) =>
         \A x \in Ids : shown[x] = local[x] \/ ShownBefore(x) \/ ShownTwice(x)
    /\ source = "live" /\ ~overlapped /\ ~touched => shown = server
    /\ \A x, y \in Ids : shown[x] = "twice" /\ shown[y] = "twice" => x = y
=============================================================================
