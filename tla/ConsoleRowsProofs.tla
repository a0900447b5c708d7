------------------------- MODULE ConsoleRowsProofs -------------------------
(***************************************************************************)
(* What is proved of the rows of the console, for any number of them and   *)
(* of handlers under way:                                                  *)
(*                                                                         *)
(* 1. ConsoleClient: types, and that pages show the store they were filled *)
(*    from.  The property speaks of the moments when nothing is under way. *)
(*    Between them a difference between page and store is accounted for by *)
(*    a handler that will load the list (Pending); while handlers do not   *)
(*    overlap there is one at most, so nobody interferes with what it      *)
(*    holds (Calm).  What is drawn lags behind the page's state only where *)
(*    rows are changed in place (Drawn).                                   *)
(* 2. ConsoleResources: the foreign keys hold, public links keep their     *)
(*    limits, the last answer on a country applies.  A link's uses are all *)
(*    its openings and a link that is over stays shut (AppRows); the       *)
(*    policy a handler has found is the country's still, unless a deletion *)
(*    overlapped (Overlaps).                                               *)
(***************************************************************************)
EXTENDS ConsoleClient, ConsoleResources, FiniteSetTheorems, TLAPS

(***************************************************************************)
(* 1. Pages.                                                               *)
(***************************************************************************)
Listing(s) == Busy(s) /\ call[s].op = "list"
Acted(s) == call[s].at = "back" /\ call[s].op \in {"add", "remove"} /\ page # "nodes"

OneAtATime == ~overlapped => \A s, t \in Calls : Busy(s) /\ Busy(t) => s = t
Settling == \A s \in Calls :
  /\ call[s].at = "settle" => Joined /\ call[s].op = "list"
  /\ call[s].at = "fetch" => ~call[s].live
  /\ call[s].ref => call[s].at = "settle" /\ ~call[s].live /\ Aliased
  /\ call[s].rows \in Store
  /\ Busy(s) /\ call[s].op # "list" => call[s].op \in Offered[page]
  /\ page = "nodes" /\ call[s].at = "back" /\ call[s].op # "list" => touched
LiveByRoute == /\ \A s \in Calls : call[s].live => <<page, call[s].op>> \in Routes
               /\ source = "live" => <<page, "list">> \in Routes
RowsHeld == ~overlapped => \A s \in Calls :
  /\ call[s].at = "settle" /\ ~call[s].live => call[s].ref \/ call[s].rows = local
  /\ page = "policies" /\ Busy(s) /\ call[s].op = "change" => kept[call[s].id] # "gone"
  /\ Listing(s) /\ call[s].live /\ ~touched => call[s].rows = server
HeldArray ==
  /\ held => Aliased /\ source = "local" /\ kept = Nothing
  /\ source = "live" => shown = kept
  /\ page = "nodes" => source # "local"
  /\ \A x \in Ids : kept[x] = "twice" => page = "drops"
  /\ \A x, y \in Ids : kept[x] = "twice" /\ kept[y] = "twice" => x = y
Lagging(x) == page \in {"peers", "domains"} /\ shown[x] = "there" /\ View[x] = "changed"
Drawn == \A x \in Ids : shown[x] = View[x] \/ Lagging(x)
Agrees(x) == View[x] = local[x] \/ (page = "drops" /\ View[x] = "twice" /\ local[x] = "there")
LocalPending == source = "local" /\ (InAnyOrder \/ ~overlapped) =>
                  (\A x \in Ids : Agrees(x)) \/ \E s \in Calls : Listing(s)
LivePending == source = "live" /\ ~overlapped /\ ~touched =>
                 shown = server \/ \E s \in Calls : Listing(s) \/ Acted(s)

Calm == OneAtATime /\ Settling /\ LiveByRoute /\ RowsHeld
Sound == Calm /\ HeldArray /\ Drawn /\ LocalPending /\ LivePending
-----------------------------------------------------------------------------
Slot == [at : {"idle", "fetch", "back", "settle"},
         op : {"list", "add", "change", "remove", "bulk"}, id : Ids,
         live : BOOLEAN, ref : BOOLEAN, rows : State]

\* An empty slot, the empty table and the rows a method writes are of their types.
LEMMA IdleTypes ==
  /\ idle \in Slot /\ Nothing \in Store /\ Store \subseteq State
  /\ idle.at = "idle" /\ idle.op = "list" /\ ~idle.live /\ ~idle.ref /\ idle.rows = Nothing
BY ClientAssumption DEF idle, Nothing, Slot, Store, State

LEMMA PutTypes ==
  ASSUME NEW rows \in Store, NEW x \in Ids, NEW v \in {"gone", "there", "changed"}
  PROVE  Put(rows, x, v) \in Store /\ Touch(rows, x) \in Store
BY DEF Put, Touch, Store

LEMMA PutState ==
  ASSUME NEW rows \in State, NEW x \in Ids, NEW v \in {"gone", "there", "changed", "twice"}
  PROVE  Put(rows, x, v) \in State /\ Touch(rows, x) \in State
BY DEF Put, Touch, State

LEMMA OfflineTypes ==
  ASSUME local \in Store, NEW rows \in State, NEW x \in Ids, NEW op
  PROVE  Offline(op, x, rows) \in Store /\ Also(x) \in Store
<1>1. \A v \in {"gone", "there", "changed"} :
        Put(local, x, v) \in Store /\ Touch(local, x) \in Store
  BY PutTypes
<1>2. [y \in Ids |-> IF rows[y] # "gone" THEN "changed" ELSE local[y]] \in Store
  BY DEF Store
<1>3. Also(x) \in Store
  BY <1>1 DEF Also
<1>4. /\ NodesOffline(op, x) \in Store /\ UsersOffline(op, x) \in Store
      /\ DomainsOffline(op, x) \in Store /\ PeersOffline(op, x) \in Store
      /\ RulesOffline(op, x) \in Store /\ RiskOffline(op, x) \in Store
  BY <1>1 DEF NodesOffline, EnrolOffline, UsersOffline, DomainsOffline, PeersOffline,
              RulesOffline, RiskOffline
<1>5. PoliciesOffline(op, x, rows) \in Store
  BY <1>1, <1>2 DEF PoliciesOffline
<1>6. Offline(op, x, rows) \in Store
  BY <1>4, <1>5 DEF Offline
<1> QED
  BY <1>3, <1>6

\* What a handler is listed with, and what the server makes of a request.
LEMMA ListedTypes ==
  ASSUME TypeOK, NEW s \in Calls
  PROVE  Listed(s) \in State /\ View \in State /\ Answered(s) \in BOOLEAN
BY IdleTypes DEF TypeOK, Listed, Slot, View, Answered

LEMMA ServeTypes ==
  ASSUME server \in Store, NEW x \in Ids, NEW op
  PROVE  Serve(op, x) \in Store
<1>1. \A v \in {"gone", "there", "changed"} :
        Put(server, x, v) \in Store /\ Touch(server, x) \in Store
  BY PutTypes
<1> QED
  BY <1>1 DEF Serve
-----------------------------------------------------------------------------
(* Types, action by action.                                                *)
LEMMA InitTypes == Init => TypeOK
<1> SUFFICES ASSUME Init PROVE TypeOK
  OBVIOUS
<1>1. server \in Store
  BY DEF Init, Store
<1>2. local \in Store /\ kept \in State /\ shown \in State /\ held \in BOOLEAN
  BY IdleTypes DEF Init, Store
<1>3. call \in [Calls -> Slot]
  BY IdleTypes DEF Init
<1>4. page \in Pages /\ others \in 0..MaxOthers
  BY ClientAssumption DEF Init
<1>5. source \in {"none", "live", "local", "both", "empty"} /\ overlapped \in BOOLEAN
      /\ touched \in BOOLEAN
  BY DEF Init
<1> QED
  BY <1>1, <1>2, <1>3, <1>4, <1>5 DEF TypeOK, Slot

\* A handler that starts, in its slot and beside the others.
LEMMA StartedSlot ==
  ASSUME call \in [Calls -> Slot], NEW s \in Calls,
         NEW op \in {"list", "add", "change", "remove", "bulk"}, NEW x \in Ids,
         NEW rows \in State, call' = Started(s, op, x, rows)
  PROVE  /\ call' \in [Calls -> Slot]
         /\ \A t \in Calls \ {s} : call'[t] = call[t]
         /\ call'[s].at \in {"fetch", "back"} /\ (Fetches => call'[s].at = "fetch")
         /\ call'[s].op = op /\ call'[s].id = x /\ call'[s].rows = rows
         /\ ~call'[s].live /\ ~call'[s].ref
<1> DEFINE q == [idle EXCEPT !.at = IF Fetches THEN "fetch" ELSE "back", !.op = op, !.id = x,
                             !.rows = rows]
<1>1. /\ q \in Slot /\ q.op = op /\ q.id = x /\ q.rows = rows /\ q.live = idle.live
      /\ q.ref = idle.ref /\ q.at = IF Fetches THEN "fetch" ELSE "back"
  BY IdleTypes DEF Slot
<1>2. call' = [call EXCEPT ![s] = q]
  BY DEF Started
<1> HIDE DEF q
<1>3. call'[s] = q
  BY <1>2
<1> QED
  BY <1>1, <1>2, <1>3, IdleTypes

LEMMA BeginTypes ==
  ASSUME TypeOK, NEW s \in Calls, NEW op \in {"list", "add", "change", "remove", "bulk"},
         NEW x \in Ids, Begin(s, op, x)
  PROVE  TypeOK'
<1>1. (IF op = "bulk" THEN View ELSE Nothing) \in State
  BY IdleTypes, ListedTypes
<1>2. call' \in [Calls -> Slot]
  BY <1>1, StartedSlot DEF Begin, TypeOK, Slot
<1> QED
  BY <1>2 DEF Begin, TypeOK, Slot, Alone, Busy, state

LEMMA OfferedOps ==
  ASSUME page \in AllPages
  PROVE  Offered[page] \subseteq {"add", "change", "remove", "bulk"}
BY DEF AllPages, Offered, NodesPage, EnrolModal, UsersPage, DomainsPage, PeersPage,
       PoliciesPage, RulesPage, RiskPage, DropsPage

\* The slots after a list or a change has returned.
LEMMA ShowTypes ==
  ASSUME TypeOK, NEW s \in Calls, NEW rows \in State, NEW live \in BOOLEAN,
         NEW ref \in BOOLEAN, Show(s, rows, live, ref)
  PROVE  /\ held' \in BOOLEAN /\ kept' \in State /\ shown' \in State
         /\ source' \in {"none", "live", "local", "both", "empty"}
         /\ call' \in [Calls -> Slot]
         /\ \A t \in Calls : call'[t] = IF t = s THEN idle ELSE call[t]
<1>1. kept' \in State /\ shown' \in State
  BY IdleTypes DEF Show, TypeOK
<1>2. call' = [call EXCEPT ![s] = idle] /\ call \in [Calls -> Slot]
  BY DEF Show, TypeOK, Slot
<1> QED
  BY <1>1, <1>2, IdleTypes DEF Show

LEMMA ReloadSlot ==
  ASSUME TypeOK, NEW s \in Calls, NEW t \in Calls
  PROVE  /\ Reload(s, t) \in Slot
         /\ t # s => /\ Reload(s, t).at = call[t].at /\ Reload(s, t).op = call[t].op
                     /\ Reload(s, t).id = call[t].id /\ Reload(s, t).live = call[t].live
                     /\ ~Reload(s, t).ref => Reload(s, t).rows = local
                                             \/ Reload(s, t) = call[t]
                     /\ Reload(s, t).ref => Reload(s, t) = call[t] /\ ~Parts(s)
                     /\ ~call[t].ref => Reload(s, t) = call[t]
         /\ t = s => /\ Reload(s, t).at \in {"idle", "fetch", "back"} /\ Reload(s, t).op = "list"
                     /\ ~Reload(s, t).live /\ ~Reload(s, t).ref /\ Reload(s, t).rows = Nothing
                     /\ ~Unknown(s) /\ page # "nodes" => Reload(s, t).at # "idle"
<1>1. call[t] \in Slot /\ local \in State
  BY IdleTypes DEF TypeOK, Slot
<1>2. CASE t = s
  BY <1>2, IdleTypes DEF Reload, Slot
<1>3. CASE t # s
  <2>1. CASE Parts(s) /\ call[t].ref
    <3> DEFINE q == [call[t] EXCEPT !.ref = FALSE, !.rows = local]
    <3>1. Reload(s, t) = q
      BY <1>3, <2>1 DEF Reload
    <3>2. /\ q \in Slot /\ q.at = call[t].at /\ q.op = call[t].op /\ q.id = call[t].id
          /\ q.live = call[t].live /\ ~q.ref /\ q.rows = local
      BY <1>1 DEF Slot
    <3> HIDE DEF q
    <3> QED
      BY <1>3, <2>1, <3>1, <3>2
  <2>2. CASE ~(Parts(s) /\ call[t].ref)
    BY <1>1, <1>3, <2>2 DEF Reload
  <2> QED
    BY <2>1, <2>2
<1> QED
  BY <1>2, <1>3

LEMMA TypeStep == TypeOK /\ [Next]_vars => TypeOK'
<1> SUFFICES ASSUME TypeOK, [Next]_vars PROVE TypeOK'
  OBVIOUS
<1> USE IdleTypes
<1>0. page \in AllPages /\ idle.id \in Ids /\ call \in [Calls -> Slot]
  BY ClientAssumption, IdleTypes DEF TypeOK, Slot
<1>1. ASSUME NEW s \in Calls, Mount(s) PROVE TypeOK'
  <2>1. call' \in [Calls -> Slot]
    BY <1>0, <1>1, StartedSlot DEF Mount
  <2> QED
    BY <1>1, <2>1 DEF Mount, TypeOK, Slot
<1>11. ASSUME NEW s \in Calls, ChangeRole(s) PROVE TypeOK'
  BY <1>0, <1>11, BeginTypes DEF ChangeRole
<1>2. ASSUME NEW s \in Calls, NEW op \in Offered[page], NEW x \in Ids, Click(s, op, x)
      PROVE TypeOK'
  BY <1>0, <1>2, OfferedOps, BeginTypes DEF Click
<1>3. ASSUME NEW s \in Calls, Fetch(s) PROVE TypeOK'
  <2>1. Serve(call[s].op, call[s].id) \in Store
    BY ServeTypes DEF TypeOK
  <2>2. server' \in Store
    BY <1>3, <2>1 DEF Fetch, TypeOK
  <2>3. call' \in [Calls -> Slot]
    <3>1. CASE call' = [call EXCEPT ![s].at = "back"]
      BY <3>1 DEF TypeOK, Slot
    <3>2. ASSUME NEW lost \in BOOLEAN,
                 call' = [call EXCEPT ![s].at = "back", ![s].live = ~lost,
                   ![s].rows = IF call[s].op = "list" /\ ~lost THEN server ELSE Nothing]
          PROVE  call' \in [Calls -> Slot]
      <4>1. (IF call[s].op = "list" /\ ~lost THEN server ELSE Nothing) \in State
        BY DEF TypeOK
      <4>2. PICK r \in State, b \in BOOLEAN :
              call' = [call EXCEPT ![s].at = "back", ![s].live = b, ![s].rows = r]
        BY <3>2, <4>1
      <4>3. PICK q : q = [call[s] EXCEPT !.at = "back", !.live = b, !.rows = r]
        OBVIOUS
      <4>4. q \in Slot /\ call \in [Calls -> Slot]
        BY <4>3 DEF TypeOK, Slot
      <4>5. call' = [call EXCEPT ![s] = q]
        BY <4>2, <4>3, <4>4
      <4> QED
        BY <4>4, <4>5
    <3> QED
      BY <1>3, <3>1, <3>2 DEF Fetch
  <2>4. overlapped' \in BOOLEAN /\ touched' \in BOOLEAN
    BY <1>3 DEF Fetch, TypeOK
  <2> QED
    BY <1>3, <2>2, <2>3, <2>4 DEF Fetch, TypeOK, Slot, state
<1>4. ASSUME NEW s \in Calls, ReturnList(s) PROVE TypeOK'
  <2>1. Listed(s) \in State /\ Answered(s) \in BOOLEAN
    BY ListedTypes
  <2>2. (Aliased /\ ~Answered(s)) \in BOOLEAN
    BY DEF Aliased
  <2>3. CASE Joined
    <3>1. PICK r \in State, b \in BOOLEAN, l \in BOOLEAN :
            call' = [call EXCEPT ![s].at = "settle", ![s].live = l, ![s].ref = b, ![s].rows = r]
      BY <1>4, <2>1, <2>2, <2>3 DEF ReturnList
    <3>2. PICK q : q = [call[s] EXCEPT !.at = "settle", !.live = l, !.ref = b, !.rows = r]
      OBVIOUS
    <3>3. q \in Slot /\ call' = [call EXCEPT ![s] = q]
      BY <1>0, <3>1, <3>2 DEF Slot
    <3>4. call' \in [Calls -> Slot]
      BY <1>0, <3>3
    <3> QED
      BY <1>4, <2>3, <3>4 DEF ReturnList, TypeOK, Slot, state
  <2>4. CASE ~Joined
    <3>1. PICK ref \in BOOLEAN : ref = (Aliased /\ ~Answered(s))
      BY <2>2
    <3>2. Show(s, Listed(s), Answered(s), ref)
      BY <1>4, <2>4, <3>1 DEF ReturnList
    <3>3. /\ held' \in BOOLEAN /\ kept' \in State /\ shown' \in State
          /\ source' \in {"none", "live", "local", "both", "empty"}
          /\ call' \in [Calls -> Slot]
      BY <2>1, <3>2, ShowTypes
    <3> QED
      BY <1>4, <3>3 DEF ReturnList, TypeOK, Slot
  <2> QED
    BY <2>3, <2>4
<1>5. ASSUME NEW s \in Calls, Settle(s) PROVE TypeOK'
  <2>1. /\ (IF call[s].ref THEN local ELSE call[s].rows) \in State
        /\ call[s].live \in BOOLEAN /\ call[s].ref \in BOOLEAN
    BY <1>0 DEF TypeOK, Slot
  <2> QED
    BY <1>5, <2>1, ShowTypes DEF Settle, TypeOK, Slot
<1>6. ASSUME NEW s \in Calls, ReturnChange(s) PROVE TypeOK'
  <2>1. local' \in Store
    BY <1>6, OfflineTypes DEF ReturnChange, TypeOK
  <2>2. call' \in [Calls -> Slot]
    BY <1>6, ReloadSlot DEF ReturnChange
  <2>3. held' \in BOOLEAN /\ kept' \in State
    BY <1>6, ListedTypes DEF ReturnChange, TypeOK
  <2>4. View' \in State
    BY <2>1, <2>3 DEF View
  <2>5. shown' \in State
    BY <1>6, <2>4 DEF ReturnChange, TypeOK
  <2> QED
    BY <1>6, <2>1, <2>2, <2>3, <2>5 DEF ReturnChange, TypeOK, Slot, history
<1>7. ASSUME NEW s \in Calls, ReplaceRow(s) PROVE TypeOK'
  <2>1. Offline("change", call[s].id, Nothing) \in Store
    BY OfflineTypes DEF TypeOK
  <2>2. Touch(kept, call[s].id) \in State
    BY PutState DEF TypeOK
  <2> QED
    BY <1>7, <2>1, <2>2 DEF ReplaceRow, TypeOK, Slot
<1>8. ASSUME NEW s \in Calls, RecordTransfer(s) PROVE TypeOK'
  <2>1. Put(local, call[s].id, "there") \in Store
    BY PutTypes DEF TypeOK
  <2>2. Put(View, call[s].id, IF held THEN "twice" ELSE "there") \in State
    BY PutState, ListedTypes DEF TypeOK
  <2> QED
    BY <1>8, <2>1, <2>2 DEF RecordTransfer, TypeOK, Slot, history
<1>9. CASE OtherClient
  <2>1. server' \in Store
    BY <1>9, PutTypes DEF OtherClient, TypeOK
  <2> QED
    BY <1>9, <2>1, ClientAssumption DEF OtherClient, TypeOK, state
<1>12. CASE Render
  <2>1. View \in State
    BY DEF View, TypeOK
  <2> QED
    BY <1>12, <2>1 DEF Render, TypeOK, history
<1>10. CASE UNCHANGED vars
  BY <1>10 DEF vars, state, TypeOK
<1> QED
  BY <1>1, <1>2, <1>3, <1>4, <1>5, <1>6, <1>7, <1>8, <1>9, <1>10, <1>11, <1>12 DEF Next

(* The variables of the client keep their types, on every page and for any *)
(* number of rows and handlers (services/api.js and the pages).            *)
THEOREM ClientTypes == Spec => []TypeOK
<1>1. Init => TypeOK
  BY InitTypes
<1> QED
  BY <1>1, TypeStep, PTL DEF Spec
-----------------------------------------------------------------------------
(* What the page shows.  The slots a step leaves alone keep their share of *)
(* the invariant unless the step changes what they hold.                   *)
LEMMA InitSound == Init => Sound
<1> SUFFICES ASSUME Init PROVE Sound
  OBVIOUS
<1>1. /\ \A s \in Calls : call[s] = idle
      /\ source = "none" /\ ~overlapped /\ ~touched /\ ~held /\ kept = Nothing /\ shown = Nothing
  BY DEF Init
<1>2. Calm
  BY <1>1, IdleTypes DEF Calm, Busy, Listing, OneAtATime, Settling, LiveByRoute, RowsHeld
<1>3. HeldArray /\ Drawn
  BY <1>1 DEF HeldArray, Drawn, View, Nothing
<1>4. LocalPending /\ LivePending
  BY <1>1 DEF LocalPending, LivePending
<1> QED
  BY <1>2, <1>3, <1>4 DEF Sound

\* What the page's state says of the table when no step touches it.
LEMMA SameState ==
  ASSUME HeldArray, Drawn, UNCHANGED <<page, local, state, source>>
  PROVE  HeldArray' /\ Drawn' /\ View' = View /\ \A x \in Ids : Agrees(x)' = Agrees(x)
BY DEF HeldArray, Drawn, Lagging, View, Agrees, Aliased, state

LEMMA StartSound ==
  ASSUME TypeOK, Sound, NEW s \in Calls, NEW op \in {"list", "add", "change", "remove", "bulk"},
         NEW x \in Ids, op = "list" \/ op \in Offered[page],
         op = "change" => shown[x] # "gone",
         call[s].at = "idle", ~overlapped' => ~overlapped /\ Alone(s),
         call' = Started(s, op, x, IF op = "bulk" THEN View ELSE Nothing),
         UNCHANGED <<page, server, local, touched>>,
         UNCHANGED <<state, source>>
           \/ (op = "list" /\ source' = "none" /\ kept' = Nothing)
  PROVE  Calm' /\ \A t \in Calls : (Listing(t) => Listing(t)') /\ (Acted(t) => Acted(t)')
<1> DEFINE rows == IF op = "bulk" THEN View ELSE Nothing
<1>1. rows \in Store /\ rows \in State
  <2>1. page \in AllPages
    BY ClientAssumption DEF TypeOK
  <2>2. op = "bulk" => page = "policies"
    BY <2>1 DEF AllPages, Offered, NodesPage, EnrolModal, UsersPage, DomainsPage, PeersPage,
                PoliciesPage, RulesPage, RiskPage, DropsPage
  <2>3. page = "policies" => View \in Store
    BY DEF Sound, HeldArray, View, TypeOK, Store, State
  <2> QED
    BY <2>2, <2>3, IdleTypes
<1>2. /\ \A t \in Calls \ {s} : call'[t] = call[t]
      /\ call'[s].at \in {"fetch", "back"} /\ (Fetches => call'[s].at = "fetch")
      /\ call'[s].op = op /\ call'[s].id = x /\ call'[s].rows = rows
      /\ ~call'[s].live /\ ~call'[s].ref
  BY <1>1, StartedSlot DEF TypeOK, Slot
<1> HIDE DEF rows
<1>3. ~overlapped' => \A t \in Calls \ {s} : ~Busy(t)
  BY DEF Alone
<1>4. OneAtATime' /\ LiveByRoute'
  BY <1>2, <1>3 DEF Sound, Calm, OneAtATime, LiveByRoute, Busy
<1>5. Settling'
  <2> SUFFICES ASSUME NEW t \in Calls
               PROVE  /\ call'[t].at = "settle" => Joined' /\ call'[t].op = "list"
                      /\ call'[t].at = "fetch" => ~call'[t].live
                      /\ call'[t].ref => call'[t].at = "settle" /\ ~call'[t].live /\ Aliased'
                      /\ call'[t].rows \in Store
                      /\ Busy(t)' /\ call'[t].op # "list" => call'[t].op \in Offered'[page']
                      /\ page' = "nodes" /\ call'[t].at = "back" /\ call'[t].op # "list"
                           => touched'
    BY DEF Settling
  <2>1. CASE t = s
    BY <1>1, <1>2, <2>1 DEF Fetches, Offered
  <2>2. CASE t # s
    BY <1>2, <2>2 DEF Sound, Calm, Settling, Joined, Aliased, Busy, Offered
  <2> QED
    BY <2>1, <2>2
<1>6. RowsHeld'
  <2> SUFFICES ASSUME ~overlapped', NEW t \in Calls, Busy(t)'
               PROVE  /\ call'[t].at = "settle" /\ ~call'[t].live
                           => call'[t].ref \/ call'[t].rows = local'
                      /\ page' = "policies" /\ call'[t].op = "change"
                           => kept'[call'[t].id] # "gone"
                      /\ call'[t].op = "list" /\ call'[t].live /\ ~touched'
                           => call'[t].rows = server'
    BY DEF RowsHeld, Busy, Listing
  <2>1. t = s
    BY <1>2, <1>3 DEF Busy
  <2>2. page = "policies" /\ op = "change" => kept[x] # "gone" /\ kept' = kept
    BY DEF Sound, HeldArray, Drawn, Lagging, View, Aliased, state
  <2> QED
    BY <1>2, <2>1, <2>2
<1>7. \A t \in Calls : (Listing(t) => Listing(t)') /\ (Acted(t) => Acted(t)')
  BY <1>2 DEF Listing, Acted, Busy
<1> QED
  BY <1>4, <1>5, <1>6, <1>7 DEF Calm

LEMMA BeginSound ==
  ASSUME TypeOK, Sound, NEW s \in Calls, NEW op \in {"list", "add", "change", "remove", "bulk"},
         NEW x \in Ids, op = "list" \/ op \in Offered[page],
         op = "change" => shown[x] # "gone", Begin(s, op, x)
  PROVE  Sound'
<1>1. /\ UNCHANGED <<page, server, local, touched>> /\ UNCHANGED <<state, source>>
      /\ ~overlapped' => ~overlapped /\ Alone(s)
  BY DEF Begin
<1>2. Calm' /\ \A t \in Calls : (Listing(t) => Listing(t)') /\ (Acted(t) => Acted(t)')
  BY <1>1, StartSound DEF Begin
<1>3. HeldArray' /\ Drawn' /\ \A y \in Ids : Agrees(y)' = Agrees(y)
  BY <1>1, SameState DEF Sound
<1>4. LocalPending' /\ LivePending'
  BY <1>1, <1>2, <1>3 DEF Sound, LocalPending, LivePending, InAnyOrder, Joined, state
<1> QED
  BY <1>2, <1>3, <1>4 DEF Sound

LEMMA MountSound ==
  ASSUME TypeOK, Sound, NEW s \in Calls, Mount(s)
  PROVE  Sound'
<1>1. /\ UNCHANGED <<page, server, local, touched, overlapped>> /\ Alone(s)
      /\ call[s].at = "idle" /\ ~held' /\ kept' = Nothing /\ shown' = Nothing /\ source' = "none"
  BY DEF Mount, Alone, Busy
<1>4. Calm'
  <2>1. call' = Started(s, "list", idle.id, IF "list" = "bulk" THEN View ELSE Nothing)
    BY DEF Mount
  <2>2. idle.id \in Ids
    BY IdleTypes DEF Slot
  <2>3. ~overlapped' => ~overlapped /\ Alone(s)
    BY <1>1
  <2> QED
    BY <1>1, <2>1, <2>2, <2>3, StartSound
<1>5. HeldArray' /\ Drawn'
  BY <1>1 DEF HeldArray, Drawn, View, Nothing
<1>6. LocalPending' /\ LivePending'
  BY <1>1 DEF LocalPending, LivePending
<1> QED
  BY <1>4, <1>5, <1>6 DEF Sound

LEMMA FetchSound ==
  ASSUME TypeOK, Sound, NEW s \in Calls, Fetch(s)
  PROVE  Sound'
<1> DEFINE alone == call[s].op = "list" /\ Alone(s)
<1>0. \/ /\ <<page, call[s].op>> \in Routes
         /\ server' = Serve(call[s].op, call[s].id)
         /\ \E b \in BOOLEAN, r \in Store :
              /\ call' = [call EXCEPT ![s].at = "back", ![s].live = b, ![s].rows = r]
              /\ call[s].op = "list" /\ b => r = server
      \/ call' = [call EXCEPT ![s].at = "back"] /\ UNCHANGED server
  <2>1. ASSUME NEW lost \in BOOLEAN
        PROVE  \E b \in BOOLEAN, r \in Store :
                 /\ b = ~lost /\ r = IF call[s].op = "list" /\ ~lost THEN server ELSE Nothing
                 /\ call[s].op = "list" /\ b => r = server
    BY IdleTypes DEF TypeOK
  <2> QED
    BY <2>1 DEF Fetch
<1>1. /\ \A t \in Calls \ {s} : call'[t] = call[t]
      /\ call[s].at = "fetch" /\ call'[s].at = "back"
      /\ call'[s].op = call[s].op /\ call'[s].id = call[s].id /\ ~call'[s].ref
      /\ call'[s].rows \in Store
      /\ call'[s].live => /\ <<page, call[s].op>> \in Routes
                          /\ call[s].op = "list" => call'[s].rows = server /\ server' = server
  <2>1. call[s].at = "fetch" /\ ~call[s].live /\ ~call[s].ref /\ call[s].rows \in Store
    BY DEF Fetch, Sound, Calm, Settling
  <2>2. call \in [Calls -> Slot]
    BY DEF TypeOK, Slot
  <2>3. CASE call' = [call EXCEPT ![s].at = "back"]
    BY <2>1, <2>2, <2>3 DEF Slot
  <2>4. CASE ~(call' = [call EXCEPT ![s].at = "back"])
    <3>1. PICK b \in BOOLEAN, r \in Store :
            /\ call' = [call EXCEPT ![s].at = "back", ![s].live = b, ![s].rows = r]
            /\ call[s].op = "list" /\ b => r = server
      BY <1>0, <2>4
    <3>2. <<page, call[s].op>> \in Routes /\ server' = Serve(call[s].op, call[s].id)
      BY <1>0, <2>4
    <3>3. call[s].op = "list" => server' = server
      BY <3>2 DEF Serve
    <3>4. PICK q : q = [call[s] EXCEPT !.at = "back", !.live = b, !.rows = r]
      OBVIOUS
    <3>5. /\ q.at = "back" /\ q.live = b /\ q.rows = r /\ q.op = call[s].op /\ q.id = call[s].id
          /\ q.ref = call[s].ref
      BY <2>2, <3>4 DEF Slot
    <3>6. call' = [call EXCEPT ![s] = q]
      BY <2>2, <3>1, <3>4
    <3>7. call'[s] = q /\ \A t \in Calls \ {s} : call'[t] = call[t]
      BY <2>2, <3>6
    <3> QED
      BY <2>1, <3>1, <3>2, <3>3, <3>5, <3>7
  <2> QED
    BY <2>3, <2>4
<1>2. /\ UNCHANGED <<page, local, state, source>>
      /\ overlapped' = (overlapped /\ ~alone)
      /\ touched' = ((touched /\ ~alone) \/ (page = "nodes" /\ call[s].op # "list"))
  BY DEF Fetch
<1>3. server' = server \/ Acted(s)' \/ touched'
  BY <1>1, <1>2 DEF Fetch, Serve, Acted
<1>4. \A t \in Calls : Busy(t)' = Busy(t)
  BY <1>1 DEF Busy
<1>5. OneAtATime'
  <2>1. CASE ~overlapped
    BY <1>4, <2>1 DEF Sound, Calm, OneAtATime
  <2>2. CASE alone
    BY <1>4, <2>2 DEF OneAtATime, Alone
  <2> QED
    BY <1>2, <2>1, <2>2 DEF OneAtATime
<1>6. Settling'
  <2> SUFFICES ASSUME NEW t \in Calls
               PROVE  /\ call'[t].at = "settle" => Joined' /\ call'[t].op = "list"
                      /\ call'[t].at = "fetch" => ~call'[t].live
                      /\ call'[t].ref => call'[t].at = "settle" /\ ~call'[t].live /\ Aliased'
                      /\ call'[t].rows \in Store
                      /\ Busy(t)' /\ call'[t].op # "list" => call'[t].op \in Offered'[page']
                      /\ page' = "nodes" /\ call'[t].at = "back" /\ call'[t].op # "list"
                           => touched'
    BY DEF Settling
  <2>1. CASE t = s
    <3>1. call[s].op # "list" => call[s].op \in Offered[page]
      BY <1>1 DEF Sound, Calm, Settling, Busy
    <3> QED
      BY <1>1, <1>2, <2>1, <3>1 DEF Offered
  <2>2. CASE t # s
    <3>1. call'[t] = call[t] /\ UNCHANGED page
      BY <1>1, <1>2, <2>2
    <3>2. call[t].at = "back" /\ touched => touched'
      BY <1>2, <2>2 DEF Alone, Busy
    <3> QED
      BY <3>1, <3>2 DEF Sound, Calm, Settling, Joined, Aliased, Offered, Busy
  <2> QED
    BY <2>1, <2>2
<1>7. LiveByRoute'
  BY <1>1, <1>2 DEF Sound, Calm, LiveByRoute, Routes
<1>8. RowsHeld'
  <2> SUFFICES ASSUME ~overlapped', NEW t \in Calls, Busy(t)'
               PROVE  /\ call'[t].at = "settle" /\ ~call'[t].live
                           => call'[t].ref \/ call'[t].rows = local'
                      /\ page' = "policies" /\ call'[t].op = "change"
                           => kept'[call'[t].id] # "gone"
                      /\ call'[t].op = "list" /\ call'[t].live /\ ~touched'
                           => call'[t].rows = server'
    BY DEF RowsHeld, Busy, Listing
  <2>1. t = s
    BY <1>1, <1>4, <1>5 DEF OneAtATime, Busy
  <2>2. page = "policies" /\ call[s].op = "change" => kept[call[s].id] # "gone"
    <3>1. CASE ~overlapped
      BY <1>1, <3>1 DEF Sound, Calm, RowsHeld, Busy
    <3>2. CASE alone
      BY <3>2
    <3> QED
      BY <1>2, <3>1, <3>2
  <2> QED
    BY <1>1, <1>2, <2>1, <2>2 DEF state
<1>9. \A t \in Calls : (Listing(t) => Listing(t)') /\ (Acted(t) => Acted(t)')
  BY <1>1, <1>2 DEF Listing, Acted, Busy
<1>10. alone => Listing(s)'
  BY <1>1 DEF Listing, Busy
<1>11. HeldArray' /\ Drawn' /\ \A y \in Ids : Agrees(y)' = Agrees(y)
  BY <1>2, SameState DEF Sound
<1>12. LocalPending'
  BY <1>2, <1>9, <1>10, <1>11 DEF Sound, LocalPending, InAnyOrder, Joined
<1>13. LivePending'
  BY <1>2, <1>3, <1>9, <1>10 DEF Sound, LivePending, state
<1> QED
  BY <1>5, <1>6, <1>7, <1>8, <1>11, <1>12, <1>13 DEF Sound, Calm

\* The slots when one has become empty and no other has changed.
LEMMA EndCalm ==
  ASSUME Calm, NEW s \in Calls, Busy(s),
         \A t \in Calls : call'[t] = IF t = s THEN idle ELSE call[t],
         UNCHANGED <<page, server, overlapped, touched>>,
         source' = "live" => <<page, "list">> \in Routes
  PROVE  Calm' /\ (~overlapped => \A t \in Calls : ~Busy(t)')
<1>1. OneAtATime' /\ (~overlapped => \A t \in Calls : ~Busy(t)')
  BY IdleTypes DEF Calm, OneAtATime, Busy
<1>2. Settling'
  <2> SUFFICES ASSUME NEW t \in Calls
               PROVE  /\ call'[t].at = "settle" => Joined' /\ call'[t].op = "list"
                      /\ call'[t].at = "fetch" => ~call'[t].live
                      /\ call'[t].ref => call'[t].at = "settle" /\ ~call'[t].live /\ Aliased'
                      /\ call'[t].rows \in Store
                      /\ Busy(t)' /\ call'[t].op # "list" => call'[t].op \in Offered'[page']
                      /\ page' = "nodes" /\ call'[t].at = "back" /\ call'[t].op # "list"
                           => touched'
    BY DEF Settling
  <2>1. CASE t = s
    BY <2>1, IdleTypes
  <2>2. CASE t # s
    BY <2>2 DEF Calm, Settling, Joined, Aliased, Busy, Offered
  <2> QED
    BY <2>1, <2>2
<1>3. LiveByRoute'
  BY IdleTypes DEF Calm, LiveByRoute, Routes
<1>4. RowsHeld'
  <2>1. ~overlapped => \A t \in Calls : call'[t].at = "idle"
    BY <1>1 DEF Busy
  <2> QED
    BY <2>1 DEF RowsHeld, Busy, Listing
<1> QED
  BY <1>1, <1>2, <1>3, <1>4 DEF Calm

\* A list of the server, or of the browser, becomes the page's state.
LEMMA ShowSound ==
  ASSUME TypeOK, Sound, NEW s \in Calls, Busy(s), NEW rows \in Store, NEW live \in BOOLEAN,
         NEW ref \in BOOLEAN, Show(s, rows, live, ref),
         UNCHANGED <<page, server, local, overlapped, touched>>,
         live => <<page, "list">> \in Routes /\ ~ref,
         ref => Aliased /\ rows = local,
         page # "nodes" /\ ~live /\ (InAnyOrder \/ ~overlapped) => rows = local,
         live /\ ~overlapped /\ ~touched => rows = server
  PROVE  Sound'
<1>1. /\ held' = ref /\ kept' = IF ref THEN Nothing ELSE rows
      /\ shown' = IF held /\ ref THEN shown ELSE rows
      /\ source' = IF live THEN "live" ELSE IF page = "nodes" THEN "empty" ELSE "local"
      /\ \A t \in Calls : call'[t] = IF t = s THEN idle ELSE call[t]
  BY ShowTypes, IdleTypes DEF Show
<1>2. Calm'
  BY <1>1, EndCalm DEF Sound
<1>3. View' = rows
  BY <1>1 DEF View
<1>4. HeldArray'
  <2>1. \A x \in Ids : kept'[x] # "twice"
    BY <1>1, IdleTypes DEF Store
  <2>2. page = "nodes" => ~Aliased
    BY DEF Aliased
  <2>3. ref => ~live
    OBVIOUS
  <2> QED
    BY <1>1, <2>1, <2>2, <2>3 DEF HeldArray, Aliased
<1>5. Drawn'
  <2>1. CASE held /\ ref
    <3>1. View = local /\ View' = View /\ shown' = shown
      BY <1>1, <1>3, <2>1 DEF View
    <3> QED
      BY <3>1 DEF Sound, Drawn, Lagging
  <2>2. CASE ~(held /\ ref)
    BY <1>1, <1>3, <2>2 DEF Drawn
  <2> QED
    BY <2>1, <2>2
<1>6. LocalPending'
  BY <1>1, <1>3 DEF LocalPending, Agrees, InAnyOrder, Joined
<1>7. LivePending'
  BY <1>1 DEF LivePending
<1> QED
  BY <1>2, <1>4, <1>5, <1>6, <1>7 DEF Sound

LEMMA ReturnListSound ==
  ASSUME TypeOK, Sound, NEW s \in Calls, ReturnList(s)
  PROVE  Sound'
<1>1. PICK live \in BOOLEAN : live = Answered(s)
  BY ListedTypes
<1>2. PICK ref \in BOOLEAN : ref = (Aliased /\ ~live)
  BY DEF Aliased
<1>3. /\ call[s].at = "back" /\ call[s].op = "list" /\ Listing(s) /\ Busy(s)
      /\ UNCHANGED <<page, server, local, overlapped, touched>>
  BY DEF ReturnList, Listing, Busy
<1>4. /\ Listed(s) \in Store
      /\ live => call[s].live /\ <<page, "list">> \in Routes /\ Listed(s) = call[s].rows
      /\ ~live /\ page # "nodes" => Listed(s) = local
      /\ live /\ ~overlapped /\ ~touched => Listed(s) = server
  <2>1. call[s].rows \in Store /\ local \in Store /\ Nothing \in Store
    BY IdleTypes DEF Sound, Calm, Settling, TypeOK
  <2>2. live => call[s].live /\ <<page, "list">> \in Routes
    BY <1>1, <1>3 DEF Answered, Sound, Calm, LiveByRoute
  <2>3. call[s].live /\ ~overlapped /\ ~touched => call[s].rows = server
    BY <1>3 DEF Sound, Calm, RowsHeld
  <2> QED
    BY <1>1, <2>1, <2>2, <2>3 DEF Listed
<1>5. CASE Joined
  <2>1. PICK r \in Store : r = IF ref THEN Nothing ELSE Listed(s)
    BY <1>4, IdleTypes
  <2>2. call' = [call EXCEPT ![s].at = "settle", ![s].live = live, ![s].ref = ref, ![s].rows = r]
    BY <1>1, <1>2, <1>5, <2>1 DEF ReturnList
  <2>3. UNCHANGED <<state, source>> /\ page # "nodes"
    BY <1>5 DEF ReturnList, Joined
  <2>4. PICK q : q = [call[s] EXCEPT !.at = "settle", !.live = live, !.ref = ref, !.rows = r]
    OBVIOUS
  <2>5. /\ q.at = "settle" /\ q.live = live /\ q.ref = ref /\ q.rows = r
        /\ q.op = call[s].op /\ q.id = call[s].id
    BY <2>4 DEF TypeOK
  <2>6. call'[s] = q /\ \A t \in Calls \ {s} : call'[t] = call[t]
    BY <2>2, <2>4 DEF TypeOK
  <2>7. \A t \in Calls : Busy(t)' = Busy(t)
    BY <1>3, <2>5, <2>6 DEF Busy
  <2>8. OneAtATime'
    BY <1>3, <2>7 DEF Sound, Calm, OneAtATime
  <2>9. Settling'
    <3> SUFFICES ASSUME NEW t \in Calls
                 PROVE  /\ call'[t].at = "settle" => Joined' /\ call'[t].op = "list"
                        /\ call'[t].at = "fetch" => ~call'[t].live
                        /\ call'[t].ref => call'[t].at = "settle" /\ ~call'[t].live /\ Aliased'
                        /\ call'[t].rows \in Store
                        /\ Busy(t)' /\ call'[t].op # "list" => call'[t].op \in Offered'[page']
                        /\ page' = "nodes" /\ call'[t].at = "back" /\ call'[t].op # "list"
                             => touched'
      BY DEF Settling
    <3>1. CASE t = s
      BY <1>2, <1>3, <1>5, <2>5, <2>6, <3>1 DEF Joined, Aliased
    <3>2. CASE t # s
      BY <1>3, <2>6, <2>7, <3>2 DEF Sound, Calm, Settling, Joined, Aliased, Offered
    <3> QED
      BY <3>1, <3>2
  <2>10. LiveByRoute'
    BY <1>3, <1>4, <2>3, <2>5, <2>6 DEF Sound, Calm, LiveByRoute, Routes
  <2>11. RowsHeld'
    <3> SUFFICES ASSUME ~overlapped', NEW t \in Calls, Busy(t)'
                 PROVE  /\ call'[t].at = "settle" /\ ~call'[t].live
                             => call'[t].ref \/ call'[t].rows = local'
                        /\ page' = "policies" /\ call'[t].op = "change"
                             => kept'[call'[t].id] # "gone"
                        /\ call'[t].op = "list" /\ call'[t].live /\ ~touched'
                             => call'[t].rows = server'
      BY DEF RowsHeld, Busy, Listing
    <3>1. t = s
      BY <1>3, <2>7, <2>8 DEF OneAtATime
    <3> QED
      BY <1>2, <1>3, <1>4, <2>1, <2>3, <2>5, <2>6, <3>1
  <2>12. \A t \in Calls : (Listing(t) => Listing(t)') /\ (Acted(t) => Acted(t)')
    BY <1>3, <2>5, <2>6 DEF Listing, Acted, Busy
  <2>13. HeldArray' /\ Drawn' /\ \A y \in Ids : Agrees(y)' = Agrees(y)
    BY <1>3, <2>3, SameState DEF Sound
  <2>14. LocalPending' /\ LivePending'
    BY <1>3, <2>3, <2>12, <2>13
      DEF Sound, LocalPending, LivePending, InAnyOrder, Joined, state
  <2> QED
    BY <2>8, <2>9, <2>10, <2>11, <2>13, <2>14 DEF Sound, Calm
<1>6. CASE ~Joined
  <2>1. Show(s, Listed(s), live, ref)
    BY <1>1, <1>2, <1>6 DEF ReturnList
  <2>2. ref => Aliased /\ ~live /\ page # "nodes"
    BY <1>2 DEF Aliased
  <2> QED
    BY <1>2, <1>3, <1>4, <2>1, <2>2, ShowSound
<1> QED
  BY <1>5, <1>6

LEMMA SettleSound ==
  ASSUME TypeOK, Sound, NEW s \in Calls, Settle(s)
  PROVE  Sound'
<1> DEFINE rows == IF call[s].ref THEN local ELSE call[s].rows
<1>1. /\ call[s].at = "settle" /\ call[s].op = "list" /\ Joined /\ Busy(s) /\ Listing(s)
      /\ call[s].live \in BOOLEAN /\ call[s].ref \in BOOLEAN
      /\ call[s].ref => ~call[s].live /\ Aliased
      /\ Show(s, rows, call[s].live, call[s].ref)
      /\ UNCHANGED <<page, server, local, overlapped, touched>>
  BY DEF Sound, Calm, Settling, Settle, TypeOK, Busy, Listing
<1>2. rows \in Store
  BY DEF Sound, Calm, Settling, TypeOK
<1>3. /\ ~call[s].live /\ ~overlapped => rows = local
      /\ call[s].live /\ ~overlapped /\ ~touched => rows = server
  BY <1>1 DEF Sound, Calm, RowsHeld
<1>4. call[s].live => <<page, "list">> \in Routes
  BY <1>1 DEF Sound, Calm, LiveByRoute
<1>5. ~InAnyOrder /\ (call[s].ref => rows = local)
  BY <1>1 DEF InAnyOrder
<1> HIDE DEF rows
<1> QED
  BY <1>1, <1>2, <1>3, <1>4, <1>5, ShowSound

LEMMA ReturnChangeSound ==
  ASSUME TypeOK, Sound, NEW s \in Calls, ReturnChange(s)
  PROVE  Sound'
<1> DEFINE x == call[s].id
<1>1. /\ call[s].at = "back" /\ call[s].op # "list" /\ Busy(s)
      /\ call[s].op \in Offered[page] /\ ~Replaces(s) /\ ~Records(s)
      /\ UNCHANGED <<page, server, source, overlapped, touched, others>>
      /\ page \in AllPages
  BY ClientAssumption DEF ReturnChange, history, Sound, Calm, Settling, Busy, TypeOK
<1>2. /\ \A t \in Calls : call'[t] = Reload(s, t)
      /\ held' = (held /\ ~Parts(s)) /\ kept' = IF Parts(s) THEN View ELSE kept
      /\ shown' = IF Closes(call[s].op) THEN View' ELSE shown
      /\ local' = IF call[s].live THEN Also(x) ELSE Offline(call[s].op, x, call[s].rows)
  BY DEF ReturnChange
<1>3. ~overlapped => \A t \in Calls \ {s} : ~Busy(t) /\ ~Busy(t)'
  BY <1>1, <1>2, ReloadSlot DEF Sound, Calm, OneAtATime, Busy
<1>4. OneAtATime'
  BY <1>1, <1>3 DEF OneAtATime
<1>5. Settling'
  <2> SUFFICES ASSUME NEW t \in Calls
               PROVE  /\ call'[t].at = "settle" => Joined' /\ call'[t].op = "list"
                      /\ call'[t].at = "fetch" => ~call'[t].live
                      /\ call'[t].ref => call'[t].at = "settle" /\ ~call'[t].live /\ Aliased'
                      /\ call'[t].rows \in Store
                      /\ Busy(t)' /\ call'[t].op # "list" => call'[t].op \in Offered'[page']
                      /\ page' = "nodes" /\ call'[t].at = "back" /\ call'[t].op # "list"
                           => touched'
    BY DEF Settling
  <2>1. CASE t = s
    BY <1>2, <2>1, ReloadSlot, IdleTypes
  <2>2. CASE t # s
    <3>1. /\ call'[t].at = call[t].at /\ call'[t].op = call[t].op
          /\ call'[t].live = call[t].live
          /\ call'[t].ref => call[t].ref
          /\ call'[t].rows = call[t].rows \/ call'[t].rows = local
      BY <1>2, <2>2, ReloadSlot
    <3>2. local \in Store
      BY DEF TypeOK
    <3> QED
      BY <1>1, <3>1, <3>2 DEF Sound, Calm, Settling, Joined, Aliased, Busy, Offered
  <2> QED
    BY <2>1, <2>2
<1>6. LiveByRoute'
  <2>1. \A t \in Calls : call'[t].live => call[t].live /\ call'[t].op = call[t].op
    BY <1>2, ReloadSlot
  <2> QED
    BY <1>1, <2>1 DEF Sound, Calm, LiveByRoute, Routes
<1>7. RowsHeld'
  <2>1. call'[s].at # "settle" /\ call'[s].op = "list" /\ ~call'[s].live
    BY <1>2, ReloadSlot
  <2> QED
    BY <1>1, <1>3, <2>1 DEF RowsHeld, Busy, Listing
<1>8. ~Unknown(s) /\ page # "nodes" => Listing(s)'
  BY <1>2, ReloadSlot DEF Listing, Busy
<1>9. HeldArray'
  <2>1. /\ held' => held /\ kept' = kept
        /\ ~held => kept' = kept /\ ~held' /\ View' = kept' /\ View = kept
    BY <1>2 DEF View
  <2>2. \A y \in Ids : kept'[y] = "twice" => kept[y] = "twice"
    BY <1>2 DEF View, TypeOK, Store
  <2>3. source = "live" => ~held /\ shown = kept
    BY DEF Sound, HeldArray
  <2>4. source' = "live" => shown' = kept'
    BY <1>1, <1>2, <2>1, <2>3
  <2> QED
    BY <1>1, <2>1, <2>2, <2>4 DEF Sound, HeldArray, Aliased
<1>10. Drawn'
  <2>1. CASE Closes(call[s].op)
    BY <1>2, <2>1 DEF Drawn
  <2>2. CASE ~Closes(call[s].op) /\ (~held \/ Parts(s))
    <3>1. View' = View /\ shown' = shown
      BY <1>2, <2>2 DEF View
    <3> QED
      BY <1>1, <3>1 DEF Sound, Drawn, Lagging
  <2>3. CASE ~Closes(call[s].op) /\ held /\ ~Parts(s)
    <3>1. Aliased /\ View = local /\ View' = local' /\ shown' = shown
      BY <1>2, <2>3 DEF View, Sound, HeldArray
    <3>2. \/ call[s].live
          \/ page \in {"peers", "domains"} /\ call[s].op = "change" /\ ~call[s].live
      BY <1>1, <2>3, <3>1
        DEF Aliased, Parts, Closes, Records, Offered, UsersPage, DomainsPage, PeersPage,
            RulesPage, DropsPage, NodesPage, EnrolModal, PoliciesPage, RiskPage
    <3>3. CASE call[s].live
      <4>1. local' = local
        BY <1>2, <3>1, <3>3 DEF Also, Aliased
      <4> QED
        BY <1>1, <3>1, <4>1 DEF Sound, Drawn, Lagging
    <3>4. CASE page \in {"peers", "domains"} /\ call[s].op = "change" /\ ~call[s].live
      <4>1. local' = Touch(local, x)
        BY <1>2, <3>4 DEF Offline, PeersOffline, DomainsOffline
      <4>2. \A y \in Ids : local'[y] = local[y] \/ (local[y] # "gone" /\ local'[y] = "changed")
        BY <4>1 DEF Touch, Put, TypeOK, Store
      <4>3. \A y \in Ids : local[y] \in {"gone", "there", "changed"}
        BY DEF TypeOK, Store
      <4> QED
        BY <1>1, <3>1, <3>4, <4>2, <4>3 DEF Sound, Drawn, Lagging
    <3> QED
      BY <3>2, <3>3, <3>4
  <2> QED
    BY <2>1, <2>2, <2>3
<1>11. CASE Unknown(s)
  <2>0. page = "users" /\ call[s].op = "change" /\ ~call[s].live /\ local[x] = "gone"
    BY <1>11 DEF Unknown
  <2>1. /\ page = "users" /\ ~Parts(s) /\ call[s].op = "change" /\ Closes(call[s].op)
        /\ local' = local
    <3>1. ~Parts(s) /\ Closes(call[s].op)
      BY <2>0 DEF Parts, Closes
    <3>2. Offline("change", x, call[s].rows) = UsersOffline("change", x)
      BY <2>0 DEF Offline
    <3>3. UsersOffline("change", x) = Touch(local, x) /\ Touch(local, x) = local
      BY <2>0 DEF UsersOffline, Touch
    <3> QED
      BY <1>2, <2>0, <3>1, <3>2, <3>3
  <2>2. View' = View /\ shown' = View /\ held' = held /\ kept' = kept
    <3>1. held \in BOOLEAN
      BY DEF TypeOK
    <3>2. held' = held /\ kept' = kept
      BY <1>2, <2>1, <3>1
    <3>3. View' = View
      BY <2>1, <3>2 DEF View
    <3> QED
      BY <1>2, <2>1, <3>2, <3>3
  <2>3. \A t \in Calls : (Listing(t) => Listing(t)') /\ (Acted(t) => Acted(t)')
    BY <1>1, <1>2, <2>1, ReloadSlot DEF Listing, Acted, Busy
  <2>4. LocalPending'
    BY <1>1, <2>1, <2>2, <2>3 DEF Sound, LocalPending, Agrees, InAnyOrder, Joined
  <2>5. source = "live" => shown' = shown
    BY <2>2 DEF Sound, HeldArray, View
  <2>6. LivePending'
    BY <1>1, <2>3, <2>5 DEF Sound, LivePending
  <2> QED
    BY <1>4, <1>5, <1>6, <1>7, <1>9, <1>10, <2>4, <2>6 DEF Sound, Calm
<1>12. CASE page = "nodes"
  <2>1. touched /\ source # "local"
    BY <1>1, <1>12 DEF Sound, Calm, Settling, HeldArray
  <2> QED
    BY <1>1, <1>4, <1>5, <1>6, <1>7, <1>9, <1>10, <2>1
      DEF Sound, Calm, LocalPending, LivePending
<1>13. CASE ~Unknown(s) /\ page # "nodes"
  BY <1>4, <1>5, <1>6, <1>7, <1>8, <1>9, <1>10, <1>13 DEF Sound, Calm, LocalPending, LivePending
<1> QED
  BY <1>11, <1>12, <1>13

LEMMA ReplaceRowSound ==
  ASSUME TypeOK, Sound, NEW s \in Calls, ReplaceRow(s)
  PROVE  Sound'
<1> DEFINE x == call[s].id
<1>1. /\ call[s].at = "back" /\ call[s].op = "change" /\ page = "policies" /\ Busy(s)
      /\ \A t \in Calls : call'[t] = IF t = s THEN idle ELSE call[t]
      /\ local' = Put(local, x, "changed") /\ kept' = Touch(kept, x) /\ shown' = kept'
      /\ held' = held
      /\ source' = IF source = "local" THEN "local" ELSE "both"
      /\ UNCHANGED <<page, server, overlapped, touched>>
  BY DEF ReplaceRow, Replaces, Offline, PoliciesOffline, TypeOK, Busy
<1>2. ~held /\ View = kept /\ View' = kept'
  BY <1>1 DEF Sound, HeldArray, Aliased, View
<1>3. Calm'
  BY <1>1, EndCalm DEF Sound
<1>4. HeldArray'
  <2>1. \A y \in Ids : kept[y] # "twice"
    BY <1>1 DEF Sound, HeldArray
  <2>2. \A y \in Ids : kept'[y] # "twice"
    BY <1>1, <2>1 DEF Touch, Put, TypeOK, State
  <2> QED
    BY <1>1, <1>2, <2>2 DEF HeldArray
<1>5. Drawn' /\ LivePending'
  BY <1>1, <1>2 DEF Drawn, LivePending
<1>6. LocalPending'
  <2> SUFFICES ASSUME source' = "local", ~overlapped
               PROVE  kept' = local'
    BY <1>1, <1>2 DEF LocalPending, InAnyOrder, Agrees
  <2>1. source = "local" /\ kept[x] # "gone" /\ \A t \in Calls : ~Listing(t)
    BY <1>1 DEF Sound, Calm, RowsHeld, OneAtATime, Listing
  <2>2. \A y \in Ids : kept[y] = local[y]
    BY <1>1, <1>2, <2>1 DEF Sound, LocalPending, Agrees
  <2>3. kept = local
    BY <2>2 DEF TypeOK, State, Store
  <2> QED
    BY <1>1, <2>1, <2>3 DEF Touch
<1> QED
  BY <1>3, <1>4, <1>5, <1>6 DEF Sound

LEMMA RecordTransferSound ==
  ASSUME TypeOK, Sound, NEW s \in Calls, RecordTransfer(s)
  PROVE  Sound'
<1> DEFINE x == call[s].id
<1>1. /\ call[s].at = "back" /\ call[s].op = "add" /\ page = "drops" /\ Busy(s) /\ x \in Ids
      /\ \A t \in Calls : call'[t] = IF t = s THEN idle ELSE call[t]
      /\ local' = Put(local, x, "there")
      /\ kept' = Put(View, x, IF held THEN "twice" ELSE "there")
      /\ ~held' /\ shown' = kept'
      /\ UNCHANGED <<page, server, source, overlapped, touched>>
  BY DEF RecordTransfer, Records, history, TypeOK, Busy
<1>2. source # "live"
  BY <1>1 DEF Sound, Calm, LiveByRoute, Routes
<1>3. Calm'
  BY <1>1, <1>2, EndCalm DEF Sound
<1>4. View' = kept' /\ View \in State
  BY <1>1, ListedTypes DEF View
<1>5. \A y \in Ids : /\ kept'[y] = IF y = x THEN IF held THEN "twice" ELSE "there" ELSE View[y]
                     /\ local'[y] = IF y = x THEN "there" ELSE local[y]
  BY <1>1, <1>4 DEF Put, TypeOK, State, Store
<1>6. HeldArray'
  <2>1. ASSUME NEW y \in Ids, NEW z \in Ids, kept'[y] = "twice", kept'[z] = "twice"
        PROVE  y = z
    <3>1. CASE held
      <4>1. \A w \in Ids : View[w] # "twice"
        BY <3>1 DEF View, TypeOK, Store
      <4> QED
        BY <1>5, <2>1, <4>1
    <3>2. CASE ~held
      BY <1>5, <2>1, <3>2 DEF Sound, HeldArray, View
    <3> QED
      BY <3>1, <3>2
  <2> QED
    BY <1>1, <1>2, <2>1 DEF HeldArray
<1>7. Drawn' /\ LivePending'
  BY <1>1, <1>2, <1>4 DEF Drawn, LivePending
<1>8. LocalPending'
  <2>1. \A t \in Calls : Listing(t) => Listing(t)'
    BY <1>1 DEF Listing, Busy
  <2>2. \A y \in Ids : Agrees(y) => Agrees(y)'
    BY <1>1, <1>4, <1>5 DEF Agrees
  <2> QED
    BY <1>1, <2>1, <2>2 DEF Sound, LocalPending, InAnyOrder, Joined
<1> QED
  BY <1>3, <1>6, <1>7, <1>8 DEF Sound

LEMMA RenderSound ==
  ASSUME TypeOK, Sound, Render
  PROVE  Sound'
<1>1. /\ shown' = View /\ UNCHANGED <<page, server, local, held, kept, call>>
      /\ UNCHANGED <<source, overlapped, touched>>
  BY DEF Render, history
<1>2. View' = View /\ (source = "live" => shown' = shown)
  BY <1>1 DEF View, Sound, HeldArray
<1>3. Calm'
  BY <1>1 DEF Sound, Calm, OneAtATime, Settling, LiveByRoute, RowsHeld, Busy, Listing, Joined,
              Aliased, Routes, Offered
<1>4. HeldArray' /\ Drawn'
  BY <1>1, <1>2 DEF Sound, HeldArray, Drawn, Aliased
<1>5. LocalPending' /\ LivePending'
  BY <1>1, <1>2 DEF Sound, LocalPending, LivePending, Agrees, Listing, Acted, Busy, InAnyOrder,
                    Joined
<1> QED
  BY <1>3, <1>4, <1>5 DEF Sound

LEMMA SoundStep == TypeOK /\ Sound /\ [Next]_vars => Sound'
<1> SUFFICES ASSUME TypeOK, Sound, [Next]_vars PROVE Sound'
  OBVIOUS
<1>0. idle.id \in Ids /\ page \in AllPages
  BY IdleTypes, ClientAssumption DEF Slot, TypeOK
<1>1. ASSUME NEW s \in Calls, Mount(s) PROVE Sound'
  BY <1>1, MountSound
<1>2. ASSUME NEW s \in Calls, ChangeRole(s) PROVE Sound'
  BY <1>0, <1>2, BeginSound DEF ChangeRole
<1>3. ASSUME NEW s \in Calls, NEW op \in Offered[page], NEW x \in Ids, Click(s, op, x)
      PROVE Sound'
  <2>1. op = "change" => shown[x] # "gone"
    BY <1>3 DEF Click
  <2>2. op \in {"list", "add", "change", "remove", "bulk"}
    BY <1>0, <1>3, OfferedOps
  <2> QED
    BY <1>3, <2>1, <2>2, BeginSound DEF Click
<1>4. ASSUME NEW s \in Calls, Fetch(s) PROVE Sound'
  BY <1>4, FetchSound
<1>5. ASSUME NEW s \in Calls, ReturnList(s) PROVE Sound'
  BY <1>5, ReturnListSound
<1>6. ASSUME NEW s \in Calls, Settle(s) PROVE Sound'
  BY <1>6, SettleSound
<1>7. ASSUME NEW s \in Calls, ReturnChange(s) PROVE Sound'
  BY <1>7, ReturnChangeSound
<1>8. ASSUME NEW s \in Calls, ReplaceRow(s) PROVE Sound'
  BY <1>8, ReplaceRowSound
<1>9. ASSUME NEW s \in Calls, RecordTransfer(s) PROVE Sound'
  BY <1>9, RecordTransferSound
<1>10. CASE Render
  BY <1>10, RenderSound
<1>11. CASE OtherClient
  <2>1. touched' /\ UNCHANGED <<page, local, state, call, source, overlapped>>
    BY <1>11 DEF OtherClient
  <2>2. Calm'
    BY <2>1 DEF Sound, Calm, OneAtATime, Settling, LiveByRoute, RowsHeld, Busy, Listing, Joined,
                Aliased, Routes, Offered, state
  <2>3. HeldArray' /\ Drawn' /\ \A y \in Ids : Agrees(y)' = Agrees(y)
    BY <2>1, SameState DEF Sound
  <2> QED
    BY <2>1, <2>2, <2>3 DEF Sound, LocalPending, LivePending, Listing, Busy, Joined, InAnyOrder
<1>12. CASE UNCHANGED vars
  <2>1. UNCHANGED <<page, server, local, state, call, source, overlapped, touched>>
    BY <1>12 DEF vars
  <2>2. Calm'
    BY <2>1 DEF Sound, Calm, OneAtATime, Settling, LiveByRoute, RowsHeld, Busy, Listing, Joined,
                Aliased, Routes, Offered, state
  <2>3. HeldArray' /\ Drawn' /\ \A y \in Ids : Agrees(y)' = Agrees(y)
    BY <2>1, SameState DEF Sound
  <2> QED
    BY <2>1, <2>2, <2>3 DEF Sound, LocalPending, LivePending, Listing, Acted, Busy, Joined,
                            InAnyOrder, state
<1> QED
  BY <1>1, <1>2, <1>3, <1>4, <1>5, <1>6, <1>7, <1>8, <1>9, <1>10, <1>11, <1>12 DEF Next

(* With nothing under way a page shows the store it was filled from, with  *)
(* every change made there since, but for the differences the property     *)
(* names, for any number of rows and of handlers (the handlers of the      *)
(* pages and the methods of services/api.js).                              *)
THEOREM PagesShow == Spec => []PagesShowTheirStore
<1>1. Init => TypeOK /\ Sound
  BY InitTypes, InitSound
<1>2. TypeOK /\ Sound /\ [Next]_vars => (TypeOK /\ Sound)'
  BY TypeStep, SoundStep
<1>3. TypeOK /\ Sound => PagesShowTheirStore
  <2> SUFFICES ASSUME TypeOK, Sound, \A s \in Calls : ~Busy(s)
               PROVE  /\ source = "local" /\ (InAnyOrder \/ ~overlapped) =>
                           \A x \in Ids : shown[x] = local[x] \/ ShownBefore(x) \/ ShownTwice(x)
                      /\ source = "live" /\ ~overlapped /\ ~touched => shown = server
                      /\ \A x, y \in Ids : shown[x] = "twice" /\ shown[y] = "twice" => x = y
    BY DEF PagesShowTheirStore
  <2>1. \A s \in Calls : ~Listing(s) /\ ~Acted(s)
    BY DEF Listing, Acted, Busy
  <2>2. \A x \in Ids : shown[x] = View[x] \/ Lagging(x)
    BY DEF Sound, Drawn
  <2>3. ASSUME source = "local", InAnyOrder \/ ~overlapped, NEW x \in Ids
        PROVE  shown[x] = local[x] \/ ShownBefore(x) \/ ShownTwice(x)
    <3>1. Agrees(x)
      BY <2>1, <2>3 DEF Sound, LocalPending
    <3> QED
      BY <2>2, <3>1 DEF Agrees, Lagging, ShownBefore, ShownTwice
  <2>4. source = "live" /\ ~overlapped /\ ~touched => shown = server
    BY <2>1 DEF Sound, LivePending
  <2>5. \A x \in Ids : shown[x] = "twice" => kept[x] = "twice"
    <3>1. \A x \in Ids : local[x] # "twice"
      BY DEF TypeOK, Store
    <3> QED
      BY <2>2, <3>1 DEF Lagging, View
  <2>6. \A x, y \in Ids : shown[x] = "twice" /\ shown[y] = "twice" => x = y
    BY <2>5 DEF Sound, HeldArray
  <2> QED
    BY <2>3, <2>4, <2>6
<1> QED
  BY <1>1, <1>2, <1>3, PTL DEF Spec
-----------------------------------------------------------------------------
(***************************************************************************)
(* 2. Resources.                                                           *)
(***************************************************************************)
People == Users \cup {none}
App == [there : BOOLEAN, user : People, status : {"stopped", "running", "hibernated"}]
Link == [there : BOOLEAN, app : Apps \cup {none}, user : People, expires : Nat, max : Nat,
         uses : Nat, revoked : BOOLEAN]
Drop == [there : BOOLEAN, user : People, ends : SUBSET Nodes,
         status : {"ready", "transferring", "completed", "failed", "cancelled"}]
Peer == [status : {"none", "pending", "active"}, user : People]
PC == [there : BOOLEAN, user : People]
Domain == [there : BOOLEAN, user : People, pc : PCs \cup {none}]
Lookup == [pc : {"idle", "write"}, op : {none, "upsert", "delete", "domain"},
           key : Countries \cup Domains \cup {none}, arg : Verdicts \cup PCs \cup {none},
           user : People, id : 0..MaxIds]

\* What a handler that awaits has looked up.
Sought(q) == q.pc = "write" =>
  /\ q.op \in {"upsert", "delete", "domain"}
  /\ q.op = "upsert" => q.key \in Countries /\ q.arg \in Verdicts
  /\ q.op = "delete" => q.key \in Countries /\ q.id # 0
  /\ q.op = "domain" => q.key \in Domains /\ q.arg \in PCs /\ q.user \in Users

Owners == /\ area \in Areas /\ accounts \subseteq Users /\ now \in 0..MaxTime
          /\ nodes \subseteq {n \in Nodes : OwnerOf[n] \in accounts}

\* A destruction leaves behind what refers to ends that are gone for good.
Adrift == adrift \subseteq (Users \ accounts) \cup (Nodes \ nodes)
                             \cup {a \in Apps : ~apps[a].there}

\* A link that is over is revoked, or gone, or its app is; its uses count all its
\* openings.
AppRows ==
  /\ apps \in [Apps -> App] /\ links \in [Links -> Link]
  /\ opened \in [Links -> 0..MaxOpened] /\ ended \subseteq Links
  /\ \A a \in Apps : apps[a].there => apps[a].user \in accounts
  /\ \A l \in Links : links[l].there =>
       /\ links[l].user \in accounts /\ links[l].app \in Apps
       /\ apps[links[l].app].there \/ links[l].app \in adrift
  /\ \A l \in Links : /\ links[l].there => opened[l] <= links[l].uses
                      /\ links[l].there /\ l \in ended =>
                           links[l].revoked \/ ~apps[links[l].app].there
                      /\ ~links[l].there /\ l \notin ended => opened[l] = 0

DropRows == /\ drops \in [Drops -> Drop]
            /\ \A d \in Drops : drops[d].there =>
                 drops[d].user \in accounts /\ drops[d].ends \subseteq nodes \cup adrift

PeerRows == /\ peers \in [Peers -> Peer] /\ tokens \in [Peers -> -1..(MaxTime + 1)]
            /\ \A p \in Peers :
                 peers[p].status # "none" => peers[p].user \in accounts \cup adrift

PCRows == /\ pcs \in [PCs -> PC] /\ domains \in [Domains -> Domain]
          /\ \A c \in PCs : pcs[c].there => pcs[c].user \in accounts
          /\ \A x \in Domains : domains[x].there => domains[x].user \in accounts \cup adrift

Lookups == req \in [Requests -> Lookup] /\ \A r \in Requests : Sought(req[r])

\* A handler of a country policy between its look-up and its write.
Changes(q, c) == q.pc = "write" /\ q.op \in {"upsert", "delete"} /\ q.key = c

\* Nobody else is at work where a policy is deleted, and the policy a handler
\* has found is still the country's, or a deletion overlapped.
Overlaps == \A c \in Countries \ muddled :
  /\ \A r, s \in Requests : Changes(req[r], c) /\ Changes(req[s], c) /\ req[r].op = "delete"
       => r = s
  /\ \A r \in Requests : Changes(req[r], c) /\ req[r].id # 0 => policies[c].id = req[r].id

PolicyRows == /\ policies \in [Countries -> [id : 0..MaxIds, action : Verdicts]]
              /\ said \in [Countries -> Verdicts] /\ muddled \subseteq Countries
              /\ Overlaps /\ AnswersApply

ResourcesInv == /\ Owners /\ Adrift /\ AppRows /\ DropRows /\ PeerRows /\ PCRows
                /\ Lookups /\ PolicyRows
-----------------------------------------------------------------------------
LEMMA EmptyRows ==
  /\ noApp \in App /\ noLink \in Link /\ noDrop \in Drop /\ noPeer \in Peer /\ noPC \in PC
  /\ noDomain \in Domain /\ noRequest \in Lookup /\ Sought(noRequest)
  /\ ~noApp.there /\ ~noLink.there /\ ~noDrop.there /\ noPeer.status = "none" /\ ~noPC.there
  /\ ~noDomain.there /\ noRequest.pc = "idle"
BY ResourcesAssumption DEF noApp, noLink, noDrop, noPeer, noPC, noDomain, noRequest, App, Link,
   Drop, Peer, PC, Domain, Lookup, Sought, People

LEMMA InitResources == ResourcesInit => ResourcesInv
<1> SUFFICES ASSUME ResourcesInit PROVE ResourcesInv
  OBVIOUS
<1>1. Owners /\ Adrift
  BY ResourcesAssumption DEF ResourcesInit, Owners, Adrift
<1>2. AppRows
  BY EmptyRows, ResourcesAssumption DEF ResourcesInit, AppRows
<1>3. DropRows
  BY EmptyRows DEF ResourcesInit, DropRows
<1>4. PeerRows
  BY EmptyRows, ResourcesAssumption DEF ResourcesInit, PeerRows
<1>5. PCRows
  BY EmptyRows DEF ResourcesInit, PCRows
<1>6. Lookups
  BY EmptyRows DEF ResourcesInit, Lookups
<1>7. PolicyRows
  BY EmptyRows, ResourcesAssumption
     DEF ResourcesInit, PolicyRows, Overlaps, Changes, AnswersApply, Evaluate, Verdicts
<1> QED
  BY <1>1, <1>2, <1>3, <1>4, <1>5, <1>6, <1>7 DEF ResourcesInv

\* The ids in use are fewer than the ids there are.
LEMMA AnIdIsFree ==
  ASSUME PolicyRows, Lookups
  PROVE  FreshId \in 1..MaxIds
<1> DEFINE OfPolicies == [c \in Countries |-> policies[c].id]
           OfRequests == [r \in Requests |-> req[r].id]
           Held == {policies[c].id : c \in Countries}
           Sent == {req[r].id : r \in Requests}
<1>1. IsFiniteSet(Countries) /\ IsFiniteSet(Requests) /\ MaxIds \in Nat
      /\ MaxIds > Cardinality(Countries) + Cardinality(Requests)
  BY ResourcesAssumption
<1>2. OfPolicies \in Surjection(Countries, Held) /\ OfRequests \in Surjection(Requests, Sent)
  BY DEF Surjection
<1>3. /\ IsFiniteSet(Held) /\ Cardinality(Held) <= Cardinality(Countries)
      /\ IsFiniteSet(Sent) /\ Cardinality(Sent) <= Cardinality(Requests)
  <2> HIDE DEF OfPolicies, OfRequests, Held, Sent
  <2> QED
    BY <1>1, <1>2, FS_Surjection
<1>4. IsFiniteSet(Held \cup Sent) /\ Cardinality(Held \cup Sent) < MaxIds
  <2> HIDE DEF Held, Sent
  <2>1. Cardinality(Held \cup Sent) = Cardinality(Held) + Cardinality(Sent)
                                      - Cardinality(Held \cap Sent)
    BY <1>3, FS_Union
  <2>2. IsFiniteSet(Held \cap Sent) /\ Held \cap Sent \subseteq Held
    BY <1>3, FS_Intersection
  <2>3. /\ Cardinality(Held) \in Nat /\ Cardinality(Sent) \in Nat
        /\ Cardinality(Held \cap Sent) \in Nat
        /\ Cardinality(Countries) \in Nat /\ Cardinality(Requests) \in Nat
    BY <1>1, <1>3, <2>2, FS_CardinalityType
  <2> QED
    BY <1>1, <1>3, <2>1, <2>3, FS_Union
<1>5. IsFiniteSet(1..MaxIds) /\ Cardinality(1..MaxIds) = MaxIds
  BY <1>1, FS_Interval
<1>6. ~(1..MaxIds \subseteq Held \cup Sent)
  <2> HIDE DEF Held, Sent
  <2>1. Cardinality(Held \cup Sent) \in Nat
    BY <1>4, FS_CardinalityType
  <2> QED
    BY <1>1, <1>4, <1>5, <2>1, FS_Subset
<1>7. \E i \in 1..MaxIds : /\ \A c \in Countries : policies[c].id # i
                           /\ \A r \in Requests : req[r].id # i
  BY <1>6
<1> QED
  BY <1>7 DEF FreshId
-----------------------------------------------------------------------------
\* Deleted apps take their links along, or leave them adrift, and the account
\* that made a link is there as long as the link.
LEMMA CascadeKeeps ==
  ASSUME AppRows, NEW lost \in SUBSET Apps, NEW gone \in SUBSET Links,
         apps' = [a \in Apps |-> IF a \in lost THEN noApp ELSE apps[a]],
         links' = Cascade(gone), UNCHANGED opened,
         ended \subseteq ended', gone \subseteq ended', ended' \subseteq Links,
         adrift \subseteq adrift',
         \A a \in Apps \ lost : apps[a].there => apps[a].user \in accounts',
         \A l \in Links \ gone : links[l].there =>
           /\ links[l].user \in accounts'
           /\ links[l].app \in lost => links[l].app \in adrift'
           /\ l \in ended' \ ended => links[l].app \in lost
  PROVE  AppRows'
<1>1. links' = [l \in Links |-> IF l \in gone THEN noLink ELSE links[l]]
  BY DEF Cascade
<1>2. /\ apps' \in [Apps -> App] /\ links' \in [Links -> Link]
      /\ opened' \in [Links -> 0..MaxOpened] /\ ended' \subseteq Links
  BY <1>1, EmptyRows DEF AppRows
<1>3. \A a \in Apps : apps'[a].there => a \notin lost /\ apps'[a] = apps[a]
  BY EmptyRows
<1>4. \A a \in Apps \ lost : apps'[a] = apps[a]
  OBVIOUS
<1>5. \A l \in Links : links'[l].there => l \notin gone /\ links'[l] = links[l]
  BY <1>1, EmptyRows
<1>6. \A l \in Links : l \notin ended' => l \notin ended /\ links'[l] = links[l]
  BY <1>1
<1>7. \A a \in Apps : apps'[a].there => apps'[a].user \in accounts'
  BY <1>3
<1>8. \A l \in Links : links'[l].there =>
        /\ links'[l].user \in accounts' /\ links'[l].app \in Apps
        /\ apps'[links'[l].app].there \/ links'[l].app \in adrift'
  <2> SUFFICES ASSUME NEW l \in Links, links'[l].there
               PROVE  /\ links[l].user \in accounts' /\ links[l].app \in Apps
                      /\ apps'[links[l].app].there \/ links[l].app \in adrift'
    BY <1>5
  <2>1. l \notin gone /\ links[l].there
    BY <1>5
  <2>2. links[l].app \in Apps /\ (apps[links[l].app].there \/ links[l].app \in adrift)
    BY <2>1 DEF AppRows
  <2>3. links[l].user \in accounts' /\ (links[l].app \in lost => links[l].app \in adrift')
    BY <2>1
  <2> QED
    BY <1>4, <2>2, <2>3
<1>9. ASSUME NEW l \in Links, links'[l].there, l \in ended'
      PROVE  links'[l].revoked \/ ~apps'[links'[l].app].there
  BY <1>3, <1>5, <1>8, <1>9 DEF AppRows
<1>10. \A l \in Links : /\ links'[l].there => opened'[l] <= links'[l].uses
                        /\ ~links'[l].there /\ l \notin ended' => opened'[l] = 0
  BY <1>5, <1>6 DEF AppRows
<1> QED
  BY <1>2, <1>7, <1>8, <1>9, <1>10 DEF AppRows

\* Apps and links.
LEMMA AppRowsStep ==
  ASSUME Owners, AppRows, AppSteps, UNCHANGED owners
  PROVE  AppRows'
<1> USE DEF AppRows
<1>0. /\ accounts' = accounts /\ adrift' = adrift
      /\ now \in Nat /\ MaxUses \subseteq Nat /\ MaxOpened \in Nat
  BY ResourcesAssumption DEF owners, Owners
<1>1. ASSUME NEW l \in Links, VerifyLink(l) PROVE AppRows'
  <2> PICK k : k = links[l]
    OBVIOUS
  <2>1. /\ k \in Link /\ k.there /\ opened[l] \in Nat /\ opened[l] <= k.uses
        /\ k.uses < MaxOpened
    BY <1>1 DEF VerifyLink, LetsIn
  <2>2. /\ links' = [links EXCEPT ![l] = [k EXCEPT !.uses = k.uses + 1]]
        /\ UNCHANGED <<apps, ended>>
        /\ opened' = opened \/ opened' = [opened EXCEPT ![l] = opened[l] + 1]
    BY <1>1 DEF VerifyLink, LetsIn
  <2> PICK j : j = [k EXCEPT !.uses = k.uses + 1]
    OBVIOUS
  <2>3. /\ j \in Link /\ j.uses = k.uses + 1 /\ k.uses \in Nat
        /\ j.there /\ j.app = k.app /\ j.user = k.user /\ j.revoked = k.revoked
    BY <2>1 DEF Link
  <2>4. opened' \in [Links -> 0..MaxOpened] /\ opened'[l] <= j.uses
        /\ \A m \in Links \ {l} : opened'[m] = opened[m]
    BY <1>0, <2>1, <2>2, <2>3
  <2>5. links' \in [Links -> Link] /\ \A m \in Links : links'[m] = IF m = l THEN j ELSE links[m]
    BY <2>2, <2>3
  <2>6. \A m \in Links :
          /\ links'[m].there = links[m].there /\ links'[m].app = links[m].app
          /\ links'[m].user = links[m].user /\ links'[m].revoked = links[m].revoked
          /\ links'[m].there => opened'[m] <= links'[m].uses
    <3> SUFFICES ASSUME NEW m \in Links
                 PROVE  /\ links'[m].there = links[m].there /\ links'[m].app = links[m].app
                        /\ links'[m].user = links[m].user /\ links'[m].revoked = links[m].revoked
                        /\ links'[m].there => opened'[m] <= links'[m].uses
      OBVIOUS
    <3>1. CASE m = l
      <4>1. links'[m] = j /\ links[m] = k
        BY <2>5, <3>1
      <4> QED
        BY <2>1, <2>3, <2>4, <3>1, <4>1
    <3>2. CASE m # l
      <4>1. links'[m] = links[m] /\ opened'[m] = opened[m]
        BY <2>4, <2>5, <3>2
      <4> QED
        BY <4>1
    <3> QED
      BY <3>1, <3>2
  <2>7. \A m \in Links : ~links'[m].there /\ m \notin ended' => opened'[m] = 0
    BY <2>1, <2>2, <2>4, <2>6
  <2> QED
    BY <1>0, <2>2, <2>4, <2>5, <2>6, <2>7
<1>2. ASSUME NEW u \in Users, NEW a \in Apps, CreateApp(u, a) PROVE AppRows'
  <2>1. [noApp EXCEPT !.there = TRUE, !.user = u] \in App
    BY EmptyRows DEF App, People
  <2> QED
    BY <1>0, <1>2, <2>1 DEF CreateApp, App, noApp
<1>3. ASSUME NEW u \in Users, NEW a \in Apps, NEW s \in {"stopped", "running", "hibernated"},
             MoveApp(u, a, s)
      PROVE  AppRows'
  <2>1. [apps[a] EXCEPT !.status = s] \in App
    BY DEF App
  <2> QED
    BY <1>0, <1>3, <2>1 DEF MoveApp, App
<1>4. ASSUME NEW u \in Users, NEW a \in Apps, DeleteApp(u, a) PROVE AppRows'
  <2> PICK gone : gone = LinksOf({a}, {})
    OBVIOUS
  <2>1. /\ apps' = [b \in Apps |-> IF b \in {a} THEN noApp ELSE apps[b]]
        /\ links' = Cascade(gone) /\ ended' = ended \cup gone /\ UNCHANGED opened
    BY <1>4 DEF DeleteApp
  <2>2. gone = {l \in Links : links[l].there /\ links[l].app = a}
    BY DEF LinksOf
  <2>3. \A l \in Links \ gone : links[l].there => links[l].user \in accounts'
                                               /\ links[l].app \notin {a}
    BY <1>0, <2>2
  <2>4. gone \in SUBSET Links /\ ended' \subseteq Links /\ {a} \in SUBSET Apps
    BY <2>1, <2>2
  <2>5. \A b \in Apps \ {a} : apps[b].there => apps[b].user \in accounts'
    BY <1>0
  <2> QED
    BY <1>0, <2>1, <2>3, <2>4, <2>5, CascadeKeeps
<1>5. ASSUME NEW u \in Users, NEW a \in Apps, NEW l \in Links, NEW max \in MaxUses,
             NEW e \in {now, now + 1}, ShareApp(u, a, l, e, max)
      PROVE  AppRows'
  <2> PICK k : k = [noLink EXCEPT !.there = TRUE, !.app = a, !.user = u, !.expires = e,
                                  !.max = max]
    OBVIOUS
  <2>0. e \in Nat /\ max \in Nat /\ u \in People
    BY <1>0 DEF People
  <2>1. k \in Link /\ k.there /\ k.app = a /\ k.user = u /\ k.uses = 0
    BY <2>0, EmptyRows DEF Link, noLink
  <2>2. links' = [links EXCEPT ![l] = k] /\ UNCHANGED <<apps, opened, ended>>
        /\ ~links[l].there /\ l \notin ended /\ u \in accounts /\ apps[a].there
    BY <1>5 DEF ShareApp
  <2> QED
    BY <1>0, <2>1, <2>2
<1>6. ASSUME NEW u \in Users, NEW l \in Links, RevokeLink(u, l) PROVE AppRows'
  <2> PICK j, k : j = links[l] /\ k = [j EXCEPT !.revoked = TRUE]
    OBVIOUS
  <2>1. j \in Link
    BY <1>0
  <2>2. k \in Link /\ k.there = j.there /\ k.app = j.app /\ k.user = j.user /\ k.uses = j.uses
        /\ k.max = j.max /\ k.expires = j.expires /\ k.revoked
    BY <2>1 DEF Link
  <2>3. links' = [links EXCEPT ![l] = k]
    BY <1>6 DEF RevokeLink
  <2> QED
    BY <1>0, <1>6, <2>2, <2>3 DEF RevokeLink
<1> QED
  BY <1>1, <1>2, <1>3, <1>4, <1>5, <1>6 DEF AppSteps, StartApp, StopApp, ScaleToZero

\* Transfers.
LEMMA DropRowsStep ==
  ASSUME Owners, DropRows, DropSteps, UNCHANGED owners
  PROVE  DropRows'
<1> USE DEF DropRows
<1>0. UNCHANGED <<accounts, nodes, adrift>> /\ nodes \subseteq Nodes
  BY DEF owners, Owners
<1>1. ASSUME NEW u \in Users, NEW d \in Drops, NEW to \in Nodes, CreateDrop(u, d, to)
      PROVE  DropRows'
  <2>1. PICK from \in Source(u, to) : drops' = [drops EXCEPT ![d] =
          [noDrop EXCEPT !.there = TRUE, !.user = u, !.ends = {from, to}]]
    BY <1>1 DEF CreateDrop
  <2>2. from \in nodes /\ to \in nodes /\ u \in accounts
    BY <1>1, <2>1 DEF CreateDrop, Source
  <2> PICK k : k = [noDrop EXCEPT !.there = TRUE, !.user = u, !.ends = {from, to}]
    OBVIOUS
  <2>3. k \in Drop /\ k.user = u /\ k.ends = {from, to}
    BY <1>0, <2>2, EmptyRows DEF Drop, People, noDrop
  <2> QED
    BY <1>0, <2>1, <2>2, <2>3
<1>2. ASSUME NEW u \in Users, NEW d \in Drops,
             NEW s \in {"transferring", "completed", "failed", "cancelled"},
             drops' = [drops EXCEPT ![d].status = s]
      PROVE  DropRows'
  <2>1. [drops[d] EXCEPT !.status = s] \in Drop
    BY DEF Drop
  <2> QED
    BY <1>0, <1>2, <2>1 DEF Drop
<1> QED
  BY <1>1, <1>2 DEF DropSteps, UpdateProgress, CancelDrop

\* Peering agreements.
LEMMA PeerRowsStep ==
  ASSUME Owners, PeerRows, PeerSteps, UNCHANGED owners
  PROVE  PeerRows'
<1> USE DEF PeerRows
<1>0. UNCHANGED <<accounts, adrift>> /\ now + 1 \in -1..(MaxTime + 1)
  BY ResourcesAssumption DEF owners, Owners
<1>1. ASSUME NEW u \in Admins, NEW p \in Peers, RequestPeering(u, p) PROVE PeerRows'
  <2>1. [status |-> "pending", user |-> u] \in Peer
    BY ResourcesAssumption DEF Peer, People
  <2> QED
    BY <1>0, <1>1, <2>1 DEF RequestPeering
<1>2. ASSUME NEW p \in Peers, PartnerToken(p) PROVE PeerRows'
  BY <1>0, <1>2 DEF PartnerToken
<1>3. ASSUME NEW u \in Admins, NEW p \in Peers, AcceptPeering(u, p) PROVE PeerRows'
  <2> PICK v : v = IF peers[p].status = "none" THEN u ELSE peers[p].user
    OBVIOUS
  <2>1. v \in accounts \cup adrift /\ v \in People
    BY <1>3, ResourcesAssumption DEF AcceptPeering, Peer, People
  <2>2. [status |-> "active", user |-> v] \in Peer
    BY <2>1 DEF Peer
  <2>3. peers' = [peers EXCEPT ![p] = [status |-> "active", user |-> v]] /\ tokens' = tokens
    BY <1>3 DEF AcceptPeering
  <2> QED
    BY <1>0, <2>1, <2>2, <2>3
<1>4. ASSUME NEW p \in Peers, RevokePeering(p) PROVE PeerRows'
  BY <1>0, <1>4, EmptyRows DEF RevokePeering
<1> QED
  BY <1>1, <1>2, <1>3, <1>4 DEF PeerSteps

\* Cloud PCs and domains.
LEMMA SeedKeepsRows ==
  ASSUME Owners, PCRows, NEW admin \in FirstAdmin
  PROVE  /\ EnsureSeed(admin).pcs \in [PCs -> PC]
         /\ EnsureSeed(admin).domains \in [Domains -> Domain]
         /\ \A c \in PCs : EnsureSeed(admin).pcs[c].there =>
              EnsureSeed(admin).pcs[c].user \in accounts
         /\ \A x \in Domains : EnsureSeed(admin).domains[x].there =>
              EnsureSeed(admin).domains[x].user \in accounts \cup adrift
<1>1. CASE \E c \in PCs : pcs[c].there
  BY <1>1 DEF EnsureSeed, PCRows
<1>2. CASE ~ \E c \in PCs : pcs[c].there
  <2>1. admin \in accounts /\ admin \in People /\ SeedPC \in PCs /\ SeedDomain \in Domains
    BY <1>2, ResourcesAssumption DEF FirstAdmin, People
  <2> PICK p, d : p = [there |-> TRUE, user |-> admin]
                  /\ d = [there |-> TRUE, user |-> admin, pc |-> SeedPC]
    OBVIOUS
  <2>2. p \in PC /\ p.user = admin /\ d \in Domain /\ d.user = admin
    BY <2>1 DEF PC, Domain
  <2>3. EnsureSeed(admin) =
          [pcs |-> [pcs EXCEPT ![SeedPC] = p],
           domains |-> IF domains[SeedDomain].there THEN domains
                         ELSE [domains EXCEPT ![SeedDomain] = d]]
    BY <1>2 DEF EnsureSeed
  <2> PICK q, e : q = EnsureSeed(admin).pcs /\ e = EnsureSeed(admin).domains
    OBVIOUS
  <2>4. q = [pcs EXCEPT ![SeedPC] = p]
    BY <2>3
  <2>5. e = domains \/ e = [domains EXCEPT ![SeedDomain] = d]
    BY <2>3
  <2>6. q \in [PCs -> PC] /\ \A c \in PCs : q[c].there => q[c].user \in accounts
    <3>1. pcs \in [PCs -> PC] /\ \A c \in PCs : pcs[c].there => pcs[c].user \in accounts
      BY DEF PCRows
    <3> QED
      BY <2>1, <2>2, <2>4, <3>1
  <2>7. /\ e \in [Domains -> Domain]
        /\ \A x \in Domains : e[x].there => e[x].user \in accounts \cup adrift
    <3>1. /\ domains \in [Domains -> Domain]
          /\ \A x \in Domains : domains[x].there => domains[x].user \in accounts \cup adrift
      BY DEF PCRows
    <3> QED
      BY <2>1, <2>2, <2>5, <3>1
  <2> QED
    BY <2>6, <2>7
<1> QED
  BY <1>1, <1>2

\* Handlers that end, and writes that leave the ids that others hold.
LEMMA FewerOverlaps ==
  ASSUME Overlaps, UNCHANGED muddled,
         \A s \in Requests : \A c : Changes(req'[s], c) =>
           Changes(req[s], c) /\ req'[s] = req[s],
         \A c \in Countries \ muddled : \A s \in Requests :
           Changes(req'[s], c) /\ req'[s].id # 0 => policies'[c].id = policies[c].id
  PROVE  Overlaps'
<1> SUFFICES ASSUME NEW c \in Countries \ muddled
             PROVE  /\ \A r, s \in Requests :
                         Changes(req'[r], c) /\ Changes(req'[s], c) /\ req'[r].op = "delete"
                           => r = s
                    /\ \A r \in Requests :
                         Changes(req'[r], c) /\ req'[r].id # 0 => policies'[c].id = req'[r].id
  BY DEF Overlaps
<1>1. ASSUME NEW r \in Requests, NEW s \in Requests, Changes(req'[r], c),
             Changes(req'[s], c), req'[r].op = "delete"
      PROVE  r = s
  BY <1>1 DEF Overlaps
<1>2. ASSUME NEW r \in Requests, Changes(req'[r], c), req'[r].id # 0
      PROVE  policies'[c].id = req'[r].id
  <2>1. Changes(req[r], c) /\ req'[r] = req[r]
    BY <1>2
  <2>2. policies'[c].id = policies[c].id
    BY <1>2
  <2>3. policies[c].id = req[r].id
    BY <1>2, <2>1 DEF Overlaps
  <2> QED
    BY <2>1, <2>2, <2>3
<1> QED
  BY <1>1, <1>2

LEMMA PCStepsKeep ==
  ASSUME Owners, PCRows, Lookups, PolicyRows, PCSteps, UNCHANGED <<owners, policyVars>>
  PROVE  PCRows' /\ Lookups' /\ PolicyRows'
<1>0. UNCHANGED <<accounts, adrift>>
  BY DEF owners
<1>1. ASSUME NEW admin \in FirstAdmin, pcs' = EnsureSeed(admin).pcs,
             domains' = EnsureSeed(admin).domains
      PROVE  PCRows'
  BY <1>0, <1>1, SeedKeepsRows DEF PCRows
<1>2. ASSUME UNCHANGED req PROVE Lookups' /\ PolicyRows'
  BY <1>2 DEF Lookups, PolicyRows, policyVars, Overlaps, Changes, AnswersApply, Evaluate
<1>3. ASSUME NEW r \in Requests, NEW q \in Lookup, Sought(q), q.op \notin {"upsert", "delete"},
             req' = [req EXCEPT ![r] = q]
      PROVE  Lookups' /\ PolicyRows'
  <2>1. Lookups'
    BY <1>3 DEF Lookups
  <2>2. \A s \in Requests : \A c :
          Changes(req'[s], c) => Changes(req[s], c) /\ req'[s] = req[s]
    BY <1>3 DEF Changes, Lookups
  <2>3. Overlaps'
    BY <2>2, FewerOverlaps DEF PolicyRows, policyVars
  <2> QED
    BY <2>1, <2>3 DEF PolicyRows, policyVars, AnswersApply, Evaluate
<1>4. ASSUME NEW u \in Users, NEW c \in PCs, ProvisionPC(u, c)
      PROVE  PCRows' /\ Lookups' /\ PolicyRows'
  <2>1. PICK admin \in FirstAdmin :
          /\ pcs' = [EnsureSeed(admin).pcs EXCEPT ![c] = [there |-> TRUE, user |-> u]]
          /\ domains' = EnsureSeed(admin).domains
    BY <1>4 DEF ProvisionPC
  <2>2. u \in accounts /\ UNCHANGED req
    BY <1>4 DEF ProvisionPC
  <2> PICK p : p = [there |-> TRUE, user |-> u]
    OBVIOUS
  <2>3. p \in PC /\ p.user = u
    BY DEF PC, People
  <2> PICK q, e : q = EnsureSeed(admin).pcs /\ e = EnsureSeed(admin).domains
    OBVIOUS
  <2>4. PCRows'
    BY <1>0, <2>1, <2>2, <2>3, SeedKeepsRows DEF PCRows
  <2> QED
    BY <1>2, <2>2, <2>4
<1>5. ASSUME NEW r \in Requests, NEW u \in Users, NEW x \in Domains, NEW c \in PCs,
             FindDomain(r, u, x, c)
      PROVE  PCRows' /\ Lookups' /\ PolicyRows'
  <2> PICK q : q = [noRequest EXCEPT !.pc = "write", !.op = "domain", !.key = x, !.arg = c,
                                     !.user = u]
    OBVIOUS
  <2>1. q \in Lookup /\ Sought(q) /\ q.op = "domain"
    BY EmptyRows DEF Lookup, noRequest, Sought, People
  <2>2. req' = [req EXCEPT ![r] = q]
    BY <1>5 DEF FindDomain
  <2> QED
    BY <1>1, <1>3, <1>5, <2>1, <2>2 DEF FindDomain
<1>6. ASSUME NEW r \in Requests, InsertDomain(r)
      PROVE  PCRows' /\ Lookups' /\ PolicyRows'
  <2>1. req' = [req EXCEPT ![r] = noRequest] /\ req[r].pc = "write" /\ req[r].op = "domain"
    BY <1>6 DEF InsertDomain
  <2>2. Lookups' /\ PolicyRows'
    BY <1>3, <2>1, EmptyRows DEF noRequest, none
  <2>3. CASE FirstAdmin = {}
    <3>1. UNCHANGED pcVars
      BY <1>6, <2>3 DEF InsertDomain
    <3> QED
      BY <1>0, <2>2, <3>1 DEF PCRows, pcVars
  <2>4. CASE FirstAdmin # {}
    <3> PICK x, u, c : x = req[r].key /\ u = req[r].user /\ c = req[r].arg
      OBVIOUS
    <3>1. x \in Domains /\ u \in Users /\ c \in PCs
      BY <2>1 DEF Lookups, Sought
    <3>2. PICK admin \in FirstAdmin :
            /\ pcs' = EnsureSeed(admin).pcs
            /\ \/ domains' = EnsureSeed(admin).domains
               \/ u \in accounts /\ domains' =
                    [EnsureSeed(admin).domains EXCEPT ![x] =
                       [there |-> TRUE, user |-> u, pc |-> c]]
      BY <1>6, <2>4 DEF InsertDomain
    <3> PICK d : d = [there |-> TRUE, user |-> u, pc |-> c]
      OBVIOUS
    <3>3. d \in Domain /\ d.user = u
      BY <3>1 DEF Domain, People
    <3>4. PCRows'
      BY <1>0, <3>1, <3>2, <3>3, SeedKeepsRows DEF PCRows
    <3> QED
      BY <2>2, <3>4
  <2> QED
    BY <2>2, <2>3, <2>4
<1> QED
  BY <1>1, <1>2, <1>4, <1>5, <1>6 DEF PCSteps, ReadPCs

-----------------------------------------------------------------------------
\* Country policies.
LEMMA PolicyStepsKeep ==
  ASSUME Owners, Lookups, PolicyRows, PCRows, PolicySteps, UNCHANGED <<owners, pcVars>>
  PROVE  PCRows' /\ Lookups' /\ PolicyRows'
<1>1. PCRows'
  BY DEF PCRows, owners, pcVars
<1>2. ASSUME NEW r \in Requests, NEW op \in {"upsert", "delete"}, NEW c \in Countries,
             NEW action \in Verdicts \cup {none}, op = "upsert" => action \in Verdicts,
             FindPolicy(r, op, c, action)
      PROVE  Lookups' /\ PolicyRows'
  <2> PICK q : q = [noRequest EXCEPT !.pc = "write", !.op = op, !.key = c, !.arg = action,
                                     !.id = policies[c].id]
    OBVIOUS
  <2>1. /\ req' = [req EXCEPT ![r] = q] /\ UNCHANGED <<policies, said>>
        /\ op = "delete" => policies[c].id # 0
        /\ req[r].pc = "idle"
    BY <1>2 DEF FindPolicy
  <2>2. q \in Lookup /\ q.pc = "write" /\ q.op = op /\ q.key = c /\ q.id = policies[c].id
        /\ q.arg = action
    BY EmptyRows DEF Lookup, noRequest, PolicyRows
  <2>3. Sought(q)
    BY <1>2, <2>1, <2>2 DEF Sought
  <2>4. Lookups'
    BY <2>1, <2>2, <2>3 DEF Lookups
  <2>5. muddled \subseteq muddled' /\ muddled' \subseteq Countries
    BY <1>2 DEF FindPolicy, PolicyRows
  <2>6. c \notin muddled' => \A s \in Requests : Changes(req[s], c) =>
          op # "delete" /\ req[s].op # "delete"
    BY <1>2, <2>1 DEF FindPolicy, Writing, Changes
  <2>7. \A k : Changes(q, k) <=> k = c
    BY <2>2 DEF Changes
  <2>8. \A s \in Requests : req'[s] = IF s = r THEN q ELSE req[s]
    BY <2>1 DEF Lookups
  <2>10. ASSUME NEW k \in Countries \ muddled', NEW s \in Requests, NEW t \in Requests,
                Changes(req'[s], k), Changes(req'[t], k), req'[s].op = "delete"
         PROVE  s = t
    BY <2>2, <2>5, <2>6, <2>7, <2>8, <2>10 DEF PolicyRows, Overlaps
  <2>11. ASSUME NEW k \in Countries \ muddled', NEW s \in Requests, Changes(req'[s], k),
                req'[s].id # 0
         PROVE  policies'[k].id = req'[s].id
    BY <2>1, <2>2, <2>5, <2>7, <2>8, <2>11 DEF PolicyRows, Overlaps
  <2>12. Overlaps'
    BY <2>10, <2>11 DEF Overlaps
  <2> QED
    BY <2>1, <2>4, <2>5, <2>12 DEF PolicyRows, AnswersApply, Evaluate
\* A write frees its slot; others are left with what they found.
<1>3. ASSUME NEW r \in Requests, req' = [req EXCEPT ![r] = noRequest]
      PROVE  /\ Lookups' /\ req'[r].pc = "idle"
             /\ \A s \in Requests : \A k :
                  Changes(req'[s], k) => s # r /\ Changes(req[s], k)
             /\ \A s \in Requests : s # r => req'[s] = req[s]
  BY <1>3, EmptyRows DEF Lookups, Changes
<1>4. ASSUME NEW r \in Requests, WritePolicy(r) PROVE Lookups' /\ PolicyRows'
  <2> PICK q, c, old : q = req[r] /\ c = req[r].key /\ old = policies[c]
    OBVIOUS
  <2>1. /\ c \in Countries /\ q \in Lookup /\ q.arg \in Verdicts /\ q.op = "upsert"
        /\ old \in [id : 0..MaxIds, action : Verdicts] /\ Changes(req[r], c)
    BY <1>4 DEF WritePolicy, Lookups, Sought, PolicyRows, Changes
  <2>2. /\ policies' = [policies EXCEPT ![c] = Stored(old, r)]
        /\ said' = IF q.id = 0 /\ old.id # 0 THEN said ELSE [said EXCEPT ![c] = q.arg]
        /\ req' = [req EXCEPT ![r] = noRequest] /\ UNCHANGED muddled
    BY <1>4 DEF WritePolicy
  <2>3. FreshId \in 1..MaxIds /\ FreshId # 0
    BY AnIdIsFree
  <2>4. /\ Stored(old, r) \in [id : 0..MaxIds, action : Verdicts]
        /\ old.id # 0 => Stored(old, r).id = old.id
    BY <2>1, <2>3 DEF Stored, Lookup
  <2>5. c \notin muddled /\ q.id # 0 => old.id = q.id
    BY <2>1 DEF PolicyRows, Overlaps
  <2>6. /\ q.id = 0 /\ old.id # 0 => Stored(old, r) = old
        /\ c \notin muddled /\ ~(q.id = 0 /\ old.id # 0) =>
             Stored(old, r).id # 0 /\ Stored(old, r).action = q.arg
    BY <2>1, <2>3, <2>5 DEF Stored, Lookup
  <2>7. Overlaps'
    <3>1. \A k \in Countries : policies[k].id # 0 => policies'[k].id = policies[k].id
      BY <2>1, <2>2, <2>4 DEF PolicyRows
    <3>2. \A k \in Countries \ muddled : \A s \in Requests :
            Changes(req'[s], k) /\ req'[s].id # 0 => policies[k].id # 0
      <4> SUFFICES ASSUME NEW k \in Countries \ muddled, NEW s \in Requests, s # r,
                          Changes(req[s], k), req[s].id # 0
                   PROVE  policies[k].id # 0
        BY <1>3, <2>2
      <4> QED
        BY DEF PolicyRows, Overlaps
    <3> QED
      BY <1>3, <2>2, <3>1, <3>2, FewerOverlaps DEF PolicyRows
  <2>8. AnswersApply'
    BY <2>1, <2>2, <2>6 DEF PolicyRows, AnswersApply, Evaluate
  <2>9. said' \in [Countries -> Verdicts]
    BY <2>1, <2>2 DEF PolicyRows
  <2> QED
    BY <1>3, <2>1, <2>2, <2>4, <2>7, <2>8, <2>9 DEF PolicyRows
<1>5. ASSUME NEW r \in Requests, DeletePolicy(r) PROVE Lookups' /\ PolicyRows'
  <2> PICK q, c, none0 : q = req[r] /\ c = req[r].key /\ none0 = [id |-> 0, action |-> "ALLOW"]
    OBVIOUS
  <2>1. /\ c \in Countries /\ q \in Lookup /\ q.op = "delete" /\ q.id # 0 /\ Changes(req[r], c)
        /\ none0 \in [id : 0..MaxIds, action : Verdicts] /\ "ALLOW" \in Verdicts
    BY <1>5, ResourcesAssumption
       DEF DeletePolicy, Lookups, Sought, PolicyRows, Changes, Verdicts
  <2>2. /\ policies' = [policies EXCEPT ![c] = IF policies[c].id = q.id THEN none0 ELSE policies[c]]
        /\ said' = [said EXCEPT ![c] = "ALLOW"]
        /\ req' = [req EXCEPT ![r] = noRequest] /\ UNCHANGED muddled
    BY <1>5 DEF DeletePolicy
  <2>3. c \notin muddled => policies[c].id = q.id
    BY <2>1 DEF PolicyRows, Overlaps
  <2>4. ASSUME c \notin muddled, NEW s \in Requests, Changes(req'[s], c) PROVE FALSE
    <3>1. s # r /\ Changes(req[s], c)
      BY <1>3, <2>2, <2>4
    <3> QED
      BY <2>1, <2>4, <3>1 DEF PolicyRows, Overlaps
  <2>5. Overlaps'
    <3>1. \A k \in Countries \ muddled : \A s \in Requests :
            Changes(req'[s], k) => policies'[k].id = policies[k].id
      BY <2>1, <2>2, <2>4 DEF PolicyRows
    <3> QED
      BY <1>3, <2>2, <3>1, FewerOverlaps DEF PolicyRows
  <2>6. AnswersApply'
    BY <2>1, <2>2, <2>3 DEF PolicyRows, AnswersApply, Evaluate
  <2> QED
    BY <1>3, <2>1, <2>2, <2>5, <2>6 DEF PolicyRows
<1> QED
  BY <1>1, <1>2, <1>4, <1>5 DEF PolicySteps
-----------------------------------------------------------------------------
\* Deleting an account takes all its rows along.
LEMMA DeleteAccountKeeps ==
  ASSUME ResourcesInv, NEW u \in Users, DeleteAccount(u)
  PROVE  ResourcesInv'
<1> PICK mine, left, gone : mine = AppsOf(u) /\ left = NodesOf(u) /\ gone = LinksOf(mine, {u})
  OBVIOUS
<1>0. /\ mine = {a \in Apps : apps[a].there /\ apps[a].user = u}
      /\ left = {n \in nodes : OwnerOf[n] = u}
      /\ gone = {l \in Links : links[l].there /\ (links[l].app \in mine \/ links[l].user = u)}
  BY DEF AppsOf, NodesOf, LinksOf
<1>1. /\ accounts' = accounts \ {u} /\ nodes' = nodes \ left
      /\ apps' = [a \in Apps |-> IF a \in mine THEN noApp ELSE apps[a]]
      /\ links' = Cascade(gone) /\ ended' = ended \cup gone
      /\ drops' = [d \in Drops |-> IF drops[d].user = u \/ drops[d].ends \cap left # {}
                                     THEN noDrop ELSE drops[d]]
      /\ peers' = [p \in Peers |-> IF peers[p].user = u THEN noPeer ELSE peers[p]]
      /\ pcs' = [c \in PCs |-> IF pcs[c].user = u THEN noPC ELSE pcs[c]]
      /\ domains' = [x \in Domains |-> IF domains[x].user = u THEN noDomain ELSE domains[x]]
      /\ UNCHANGED <<area, now, opened, tokens, policyVars, req, adrift>>
  BY DEF DeleteAccount
<1>2. Owners' /\ Adrift'
  BY <1>0, <1>1, EmptyRows DEF ResourcesInv, Owners, Adrift
<1>3. AppRows'
  BY <1>0, <1>1, CascadeKeeps DEF ResourcesInv, AppRows
<1>4. DropRows'
  BY <1>1, EmptyRows DEF ResourcesInv, DropRows
<1>5. PeerRows'
  BY <1>1, EmptyRows DEF ResourcesInv, PeerRows
<1>6. PCRows'
  BY <1>1, EmptyRows DEF ResourcesInv, PCRows
<1>7. Lookups' /\ PolicyRows'
  BY <1>1 DEF ResourcesInv, Lookups, PolicyRows, policyVars, Overlaps, Changes, AnswersApply,
              Evaluate
<1> QED
  BY <1>2, <1>3, <1>4, <1>5, <1>6, <1>7 DEF ResourcesInv

\* Destroying one leaves some rows, whose ends are adrift from then on.
LEMMA DestroyAccountKeeps ==
  ASSUME ResourcesInv, NEW u \in Users, DestroyAccount(u)
  PROVE  ResourcesInv'
<1> PICK mine, left, gone, over : /\ mine = AppsOf(u) /\ left = NodesOf(u)
                                 /\ gone = LinksOf({}, {u}) /\ over = LinksOf(mine, {u})
  OBVIOUS
<1>0. /\ mine = {a \in Apps : apps[a].there /\ apps[a].user = u}
      /\ left = {n \in nodes : OwnerOf[n] = u}
      /\ gone = {l \in Links : links[l].there /\ links[l].user = u}
      /\ over = {l \in Links : links[l].there /\ (links[l].app \in mine \/ links[l].user = u)}
  BY DEF AppsOf, NodesOf, LinksOf
<1>1. /\ accounts' = accounts \ {u} /\ nodes' = nodes \ left
      /\ apps' = [a \in Apps |-> IF a \in mine THEN noApp ELSE apps[a]]
      /\ links' = Cascade(gone) /\ ended' = ended \cup over
      /\ drops' = [d \in Drops |-> IF drops[d].user = u THEN noDrop ELSE drops[d]]
      /\ pcs' = [c \in PCs |-> IF pcs[c].user = u THEN noPC ELSE pcs[c]]
      /\ adrift' = adrift \cup {u} \cup left \cup mine
      /\ UNCHANGED <<area, now, opened, peerVars, domains, policyVars, req>>
  BY DEF DestroyAccount
<1>2. Owners' /\ Adrift'
  <2>1. Owners'
    BY <1>0, <1>1 DEF ResourcesInv, Owners
  <2>2. left \subseteq Nodes \ nodes' /\ u \in Users \ accounts'
    BY <1>0, <1>1 DEF ResourcesInv, Owners
  <2>3. mine \subseteq {a \in Apps : ~apps'[a].there}
        /\ {a \in Apps : ~apps[a].there} \subseteq {a \in Apps : ~apps'[a].there}
    BY <1>0, <1>1, EmptyRows
  <2>4. Adrift'
    BY <1>1, <2>2, <2>3 DEF ResourcesInv, Adrift
  <2> QED
    BY <2>1, <2>4
<1>3. AppRows'
  BY <1>0, <1>1, CascadeKeeps DEF ResourcesInv, AppRows
<1>4. DropRows'
  BY <1>0, <1>1, EmptyRows DEF ResourcesInv, DropRows
<1>5. PeerRows'
  BY <1>1 DEF ResourcesInv, PeerRows, peerVars
<1>6. PCRows'
  BY <1>1, EmptyRows DEF ResourcesInv, PCRows
<1>7. Lookups' /\ PolicyRows'
  BY <1>1 DEF ResourcesInv, Lookups, PolicyRows, policyVars, Overlaps, Changes, AnswersApply,
              Evaluate
<1> QED
  BY <1>2, <1>3, <1>4, <1>5, <1>6, <1>7 DEF ResourcesInv

\* The global wipe leaves no row, and overlaps every request on a country.
LEMMA WipeAllKeeps ==
  ASSUME ResourcesInv, WipeAll
  PROVE  ResourcesInv'
<1> USE EmptyRows
<1>1. Owners' /\ Adrift'
  BY DEF ResourcesInv, WipeAll, Owners, Adrift
<1>2. AppRows'
  <2>1. links' = [l \in Links |-> noLink]
    BY DEF WipeAll, Cascade
  <2> QED
    BY <2>1 DEF ResourcesInv, WipeAll, AppRows
<1>3. DropRows' /\ PeerRows' /\ PCRows'
  BY DEF ResourcesInv, WipeAll, DropRows, PeerRows, PCRows
<1>4. Lookups'
  BY DEF ResourcesInv, WipeAll, Lookups
<1>5. PolicyRows'
  <2>1. "ALLOW" \in Verdicts /\ 0 \in 0..MaxIds
    BY ResourcesAssumption DEF Verdicts
  <2>2. \A c \in Countries \ muddled' : \A r \in Requests : ~Changes(req'[r], c)
    BY DEF WipeAll, Writing, Changes
  <2> QED
    BY <2>1, <2>2 DEF ResourcesInv, WipeAll, PolicyRows, Overlaps, AnswersApply, Evaluate
<1> QED
  BY <1>1, <1>2, <1>3, <1>4, <1>5 DEF ResourcesInv

LEMMA ResourcesStep == ResourcesInv /\ [ResourcesNext]_resourceVars => ResourcesInv'
<1> SUFFICES ASSUME ResourcesInv, [ResourcesNext]_resourceVars PROVE ResourcesInv'
  OBVIOUS
<1> USE DEF ResourcesInv
\* What a step leaves alone stays as it was.
<1>1. ASSUME UNCHANGED owners PROVE Owners' /\ (UNCHANGED appVars => Adrift')
  BY <1>1 DEF Owners, Adrift, owners, appVars
<1>2. ASSUME UNCHANGED <<owners, appVars>> PROVE AppRows'
  BY <1>2 DEF AppRows, owners, appVars
<1>3. ASSUME UNCHANGED <<owners, drops>> PROVE DropRows'
  BY <1>3 DEF DropRows, owners
<1>4. ASSUME UNCHANGED <<owners, peerVars>> PROVE PeerRows'
  BY <1>4 DEF PeerRows, owners, peerVars
<1>5. ASSUME UNCHANGED <<owners, pcVars>> PROVE PCRows'
  BY <1>5 DEF PCRows, owners, pcVars
<1>6. ASSUME UNCHANGED <<policyVars, req>> PROVE Lookups' /\ PolicyRows'
  BY <1>6 DEF Lookups, PolicyRows, policyVars, Overlaps, AnswersApply, Evaluate
<1>7. CASE AppSteps /\ UNCHANGED <<owners, drops, peerVars, pcVars, policyVars, req>>
  <2>1. Adrift'
    <3>1. UNCHANGED <<accounts, nodes, adrift>>
      BY <1>7 DEF owners
    <3>2. \A a \in Apps \cap adrift : ~apps[a].there => ~apps'[a].there
      BY <1>7, EmptyRows
         DEF AppSteps, VerifyLink, CreateApp, StartApp, StopApp, ScaleToZero, MoveApp, DeleteApp,
             ShareApp, RevokeLink, AppRows
    <3> QED
      BY <3>1, <3>2 DEF Adrift
  <2> QED
    BY <1>1, <1>3, <1>4, <1>5, <1>6, <1>7, <2>1, AppRowsStep
<1>8. CASE DropSteps /\ UNCHANGED <<owners, appVars, peerVars, pcVars, policyVars, req>>
  BY <1>1, <1>2, <1>4, <1>5, <1>6, <1>8, DropRowsStep
<1>9. CASE PeerSteps /\ UNCHANGED <<owners, appVars, drops, pcVars, policyVars, req>>
  BY <1>1, <1>2, <1>3, <1>5, <1>6, <1>9, PeerRowsStep
<1>10. CASE PCSteps /\ UNCHANGED <<owners, appVars, drops, peerVars, policyVars>>
  BY <1>1, <1>2, <1>3, <1>4, <1>10, PCStepsKeep
<1>11. CASE PolicySteps /\ UNCHANGED <<owners, appVars, drops, peerVars, pcVars>>
  BY <1>1, <1>2, <1>3, <1>4, <1>11, PolicyStepsKeep
<1>12. ASSUME NEW u \in Users, DeleteAccount(u) \/ DestroyAccount(u) PROVE ResourcesInv'
  BY <1>12, DeleteAccountKeeps, DestroyAccountKeeps
<1>13. ASSUME NEW n \in Nodes, DeleteNode(n) PROVE ResourcesInv'
  <2>1. /\ nodes' = nodes \ {n}
        /\ drops' = [d \in Drops |-> IF n \in drops[d].ends THEN noDrop ELSE drops[d]]
        /\ UNCHANGED <<area, accounts, adrift, now, appVars, peerVars, pcVars, policyVars, req>>
    BY <1>13 DEF DeleteNode
  <2>2. DropRows'
    BY <2>1, EmptyRows DEF DropRows
  <2>3. Owners' /\ Adrift' /\ AppRows' /\ PeerRows' /\ PCRows'
    BY <2>1 DEF Owners, Adrift, AppRows, PeerRows, PCRows, appVars, peerVars, pcVars
  <2> QED
    BY <1>6, <2>1, <2>2, <2>3
<1>14. CASE Tick
  <2>1. now' \in 0..MaxTime /\ UNCHANGED <<policyVars, req>>
        /\ UNCHANGED <<area, accounts, nodes, adrift, appVars, drops, peerVars, pcVars>>
    BY <1>14, ResourcesAssumption DEF Tick, Owners
  <2>2. Owners' /\ Adrift' /\ AppRows' /\ DropRows' /\ PeerRows' /\ PCRows'
    BY <2>1 DEF Owners, Adrift, AppRows, DropRows, PeerRows, PCRows, appVars, peerVars, pcVars
  <2> QED
    BY <1>6, <2>1, <2>2
<1>15. CASE UNCHANGED resourceVars
  BY <1>1, <1>2, <1>3, <1>4, <1>5, <1>6, <1>15
     DEF resourceVars, owners, appVars, peerVars, pcVars, policyVars
<1>16. CASE WipeAll
  BY <1>16, WipeAllKeeps
<1> QED
  BY <1>7, <1>8, <1>9, <1>10, <1>11, <1>12, <1>13, <1>14, <1>15, <1>16 DEF ResourcesNext
-----------------------------------------------------------------------------
\* In every reachable state rows are of their types, a link that is over stays
\* closed, and a handler's policy is the country's unless a deletion overlapped.
THEOREM ResourcesInvariant == ResourcesSpec => []ResourcesInv
<1> QED
  BY InitResources, ResourcesStep, PTL DEF ResourcesSpec

\* The foreign keys of the console's tables hold in whatever order rows are deleted,
\* beside the handlers that look up and write in separate queries; what a destruction
\* leaves refers only to what it deleted: the app of a link, the nodes of a transfer,
\* the account of an agreement or of a domain.
THEOREM KeysHold == ResourcesSpec => []RowsOK
<1>1. ResourcesInv => RowsOK
  BY DEF ResourcesInv, RowsOK, Owners, Adrift, AppRows, App, DropRows, PeerRows, PCRows, PolicyRows
<1> QED
  BY <1>1, ResourcesInvariant, PTL

\* A public link that was revoked, or lost its app or its maker, or has expired or
\* is used up, lets nobody in.
THEOREM LinksEnd == ResourcesSpec => LinksKeepTheirLimits
<1>1. ASSUME ResourcesInv, [ResourcesNext]_resourceVars, NEW l \in Links,
             opened'[l] # opened[l]
      PROVE  /\ l \notin ended /\ now <= links[l].expires
             /\ links[l].max > 0 => opened'[l] <= links[l].max
  <2>1. PICK k \in Links : VerifyLink(k)
    BY <1>1 DEF ResourcesNext, AppSteps, CreateApp, StartApp, StopApp, ScaleToZero, MoveApp,
       DeleteApp, ShareApp, RevokeLink, DeleteAccount, DestroyAccount, WipeAll, DeleteNode, Tick,
       resourceVars, appVars
  <2>2. LetsIn(k) /\ apps[links[k].app].there /\ opened' = [opened EXCEPT ![k] = opened[k] + 1]
    BY <1>1, <2>1 DEF VerifyLink
  <2>3. opened \in [Links -> 0..MaxOpened] /\ links[l] \in Link
    BY <1>1 DEF ResourcesInv, AppRows
  <2>4. k = l /\ opened'[l] = opened[l] + 1
    BY <1>1, <2>2, <2>3
  <2>5. opened[l] <= links[l].uses /\ l \notin ended
    BY <1>1, <2>2, <2>4 DEF ResourcesInv, AppRows, LetsIn
  <2> QED
    BY <2>2, <2>3, <2>4, <2>5, ResourcesAssumption DEF LetsIn, Link
<1>2. ResourcesInv /\ [ResourcesNext]_resourceVars =>
        [\A l \in Links : opened'[l] # opened[l] =>
           l \notin ended /\ now <= links[l].expires
           /\ (links[l].max > 0 => opened'[l] <= links[l].max)]_resourceVars
  BY <1>1
<1> QED
  BY <1>2, ResourcesInvariant, PTL DEF ResourcesSpec, LinksKeepTheirLimits

\* The answer to the last request on a country is what evaluateCountry says of it,
\* for any number of requests that overlap, none of them a deletion.
THEOREM LastAnswersApply == ResourcesSpec => []AnswersApply
<1>1. ResourcesInv => AnswersApply
  BY DEF ResourcesInv, PolicyRows
<1> QED
  BY <1>1, ResourcesInvariant, PTL
=============================================================================
