-------------------------- MODULE ConsoleResources --------------------------
(***************************************************************************)
(* What accounts own and share on the console, over its SQLite database:   *)
(* app bundles and their public links (routes/apps.js), transfers          *)
(* (routes/nerodrop.js), peering agreements (services/PeeringEngine.js),   *)
(* cloud PCs and their domains (services/WebRtcSignalingEngine.js) and the *)
(* country policies (services/PolicyEngine.js), with the cascades of       *)
(* deleting an account, a node or an app (db/migrator.js), and what the    *)
(* nuke deletes with the foreign keys off (services/NukeEngine.js).        *)
(*                                                                         *)
(* A handler that never awaits is one step.  Country policies and domains  *)
(* are looked up in one step and written in another.  A caller is whoever  *)
(* a token names; the account may be gone by then.  Names, sizes, chunks,  *)
(* signatures and addresses are left out.                                  *)
(***************************************************************************)
EXTENDS Integers, FiniteSets

CONSTANTS
  Users, Admins,         \* accounts; the super-admins
  Nodes, OwnerOf,        \* nodes and their owners
  Apps, Links, Drops, Peers, PCs, Domains,      \* ids that may be used, once each
  SeedPC, SeedDomain,    \* cpc-0001, cdom-0001
  Countries,
  Requests,              \* slots for the handlers that await
  Areas,                 \* the parts of the console; the tables of two share no row
  MaxUses,               \* the limits that links are given; 0 is none
  MaxTime, MaxOpened,
  MaxIds                 \* ids of policies

ASSUME ResourcesAssumption ==
  /\ Admins \subseteq Users /\ OwnerOf \in [Nodes -> Users]
  /\ SeedPC \in PCs /\ SeedDomain \in Domains
  /\ MaxUses \subseteq Nat /\ MaxTime \in Nat /\ MaxOpened \in Nat
  /\ IsFiniteSet(Countries) /\ IsFiniteSet(Requests)
  /\ MaxIds \in Nat /\ MaxIds > Cardinality(Countries) + Cardinality(Requests)
  /\ Areas \subseteq {"apps", "drops", "peering", "pcs", "policies"}

VARIABLES
  area,             \* where the clients of this behaviour work
  accounts, nodes,
  apps, links,      \* app_bundles, app_share_links
  drops,            \* nerodrop_sessions
  peers, tokens,    \* peering_agreements; the tokens in circulation and their expiry
  pcs, domains,     \* cloud_pcs, custom_domains
  policies,         \* geofencing_policies, by country
  req,
  opened, ended,    \* history: how often a link let somebody in; links nobody should open
  adrift,           \* history: what a destruction deleted while no key was in force
  said, muddled,    \* history: the last answer on a country; a deletion overlapped there
  now

resourceVars == <<area, accounts, nodes, apps, links, drops, peers, tokens, pcs, domains,
                  policies, req, opened, ended, adrift, said, muddled, now>>
owners == <<area, accounts, nodes, adrift, now>>
appVars == <<apps, links, opened, ended>>
pcVars == <<pcs, domains>>
peerVars == <<peers, tokens>>
policyVars == <<policies, said, muddled>>

none == "none"
noApp == [there |-> FALSE, user |-> none, status |-> "stopped"]
noLink == [there |-> FALSE, app |-> none, user |-> none, expires |-> 0, max |-> 0, uses |-> 0,
           revoked |-> FALSE]
noDrop == [there |-> FALSE, user |-> none, ends |-> {}, status |-> "ready"]
noPeer == [status |-> "none", user |-> none]
noPC == [there |-> FALSE, user |-> none]
noDomain == [there |-> FALSE, user |-> none, pc |-> none]
noRequest == [pc |-> "idle", op |-> none, key |-> none, arg |-> none, user |-> none, id |-> 0]

Verdicts == {"ALLOW", "BLOCK", "QUARANTINE"}

(* Rows are of their types and the ends of every foreign key are there.    *)
(* Only a destruction leaves ends that are gone: the app of a link, the    *)
(* nodes of a transfer, and the account of an agreement or of a domain;    *)
(* whoever made a link or a transfer, or owns an app or a PC, is there.    *)
RowsOK ==
  /\ area \in Areas /\ accounts \subseteq Users /\ now \in 0..MaxTime
  /\ nodes \subseteq {n \in Nodes : OwnerOf[n] \in accounts}
  /\ \A a \in Apps : apps[a].there => apps[a].user \in accounts
                                      /\ apps[a].status \in {"stopped", "running", "hibernated"}
  /\ \A l \in Links : links[l].there =>
       links[l].user \in accounts /\ (apps[links[l].app].there \/ links[l].app \in adrift)
  /\ \A d \in Drops : drops[d].there => /\ drops[d].user \in accounts
                                         /\ drops[d].ends \subseteq nodes \cup adrift
  /\ \A p \in Peers : peers[p].status # "none" => peers[p].user \in accounts \cup adrift
  /\ tokens \in [Peers -> -1..(MaxTime + 1)]
  /\ \A c \in PCs : pcs[c].there => pcs[c].user \in accounts
  /\ \A x \in Domains : domains[x].there => domains[x].user \in accounts \cup adrift
  /\ adrift \subseteq (Users \ accounts) \cup (Nodes \ nodes) \cup {a \in Apps : ~apps[a].there}
  /\ policies \in [Countries -> [id : 0..MaxIds, action : Verdicts]]
  /\ opened \in [Links -> 0..MaxOpened] /\ ended \subseteq Links
  /\ said \in [Countries -> Verdicts] /\ muddled \subseteq Countries

ResourcesInit ==
  /\ area \in Areas /\ accounts = Users /\ nodes = Nodes /\ now = 0
  /\ apps = [a \in Apps |-> noApp] /\ links = [l \in Links |-> noLink]
  /\ drops = [d \in Drops |-> noDrop]
  /\ peers = [p \in Peers |-> noPeer] /\ tokens = [p \in Peers |-> -1]
  /\ pcs = [c \in PCs |-> noPC] /\ domains = [x \in Domains |-> noDomain]
  /\ policies = [c \in Countries |-> [id |-> 0, action |-> "ALLOW"]]
  /\ req = [r \in Requests |-> noRequest]
  /\ opened = [l \in Links |-> 0] /\ ended = {} /\ adrift = {}
  /\ said = [c \in Countries |-> "ALLOW"] /\ muddled = {}

(* A handler answers 403 unless the row is one's own or one is the admin.  *)
May(u, owner) == u \in Admins \/ u = owner
-----------------------------------------------------------------------------
(* POST /apps; the row is refused when the account is gone.  Its id is     *)
(* new: no row is left that refers to it.                                  *)
CreateApp(u, a) ==
  /\ ~apps[a].there /\ a \notin adrift /\ u \in accounts
  /\ apps' = [apps EXCEPT ![a] = [noApp EXCEPT !.there = TRUE, !.user = u]]
  /\ UNCHANGED <<links, opened, ended>>

(* start, launch, stop and scale-to-zero.                                  *)
MoveApp(u, a, status) ==
  /\ apps[a].there /\ May(u, apps[a].user)
  /\ apps' = [apps EXCEPT ![a].status = status]
  /\ UNCHANGED <<links, opened, ended>>
StartApp(u, a) == MoveApp(u, a, "running")
StopApp(u, a) == MoveApp(u, a, "stopped")
ScaleToZero(u, a) == MoveApp(u, a, "hibernated")

(* The links of a set of apps, and those a set of accounts made, go with   *)
(* them (ON DELETE CASCADE).                                               *)
Cascade(gone) == [l \in Links |-> IF l \in gone THEN noLink ELSE links[l]]
\* Variant: no key to users.
LinksOfApps(as, us) == {l \in Links : links[l].there /\ links[l].app \in as}
LinksOf(as, us) == {l \in Links : links[l].there /\ (links[l].app \in as \/ links[l].user \in us)}

DeleteApp(u, a) ==
  /\ apps[a].there /\ May(u, apps[a].user)
  /\ apps' = [apps EXCEPT ![a] = noApp]
  /\ links' = Cascade(LinksOf({a}, {}))
  /\ ended' = ended \cup LinksOf({a}, {})
  /\ UNCHANGED opened

(* POST /apps/:id/share: whoever may use the app is who made the link.     *)
ShareApp(u, a, l, expires, max) ==
  /\ apps[a].there /\ May(u, apps[a].user)
  /\ ~links[l].there /\ l \notin ended /\ u \in accounts
  /\ links' = [links EXCEPT ![l] = [noLink EXCEPT !.there = TRUE, !.app = a, !.user = u,
                                                  !.expires = expires, !.max = max]]
  /\ UNCHANGED <<apps, opened, ended>>

(* DELETE and POST .../revoke: only who made the link, or an admin.        *)
RevokeLink(u, l) ==
  /\ links[l].there /\ May(u, links[l].user)
  /\ links' = [links EXCEPT ![l].revoked = TRUE]
  /\ ended' = ended \cup {l}
  /\ UNCHANGED <<apps, opened>>

(* GET /apps/public/verify/:token, with no account at all.                 *)
\* Variant: one visit too many.
LetsInOnceMore(l) ==
  /\ links[l].there /\ ~links[l].revoked /\ now <= links[l].expires
  /\ links[l].max > 0 => links[l].uses <= links[l].max

LetsIn(l) ==
  /\ links[l].there /\ ~links[l].revoked /\ now <= links[l].expires
  /\ links[l].max > 0 => links[l].uses < links[l].max

(* The use is counted before the app is looked up, which may be gone.      *)
VerifyLink(l) ==
  /\ LetsIn(l) /\ links[l].uses < MaxOpened
  /\ links' = [links EXCEPT ![l].uses = @ + 1]
  /\ opened' = IF apps[links[l].app].there THEN [opened EXCEPT ![l] = @ + 1] ELSE opened
  /\ UNCHANGED <<apps, ended>>

AppSteps ==
  \/ \E l \in Links : VerifyLink(l)
  \/ \E u \in Users : \/ \E a \in Apps : \/ CreateApp(u, a) \/ StartApp(u, a) \/ StopApp(u, a)
                                         \/ ScaleToZero(u, a) \/ DeleteApp(u, a)
                      \/ \E a \in Apps, l \in Links, max \in MaxUses, e \in {now, now + 1} :
                           ShareApp(u, a, l, e, max)
                      \/ \E l \in Links : RevokeLink(u, l)
-----------------------------------------------------------------------------
(* POST /nerodrop/session: the target must exist; the source is given, or  *)
(* a node of the caller, or the target itself.                             *)
Source(u, to) ==
  LET own == {n \in nodes : OwnerOf[n] = u} IN nodes \cup (IF own = {} THEN {to} ELSE own)

CreateDrop(u, d, to) ==
  /\ ~drops[d].there /\ to \in nodes /\ u \in accounts
  /\ \E from \in Source(u, to) : drops' = [drops EXCEPT ![d] =
       [noDrop EXCEPT !.there = TRUE, !.user = u, !.ends = {from, to}]]

(* Progress is what the sender reports; the status is whatever it says, or *)
(* follows from the chunks.  A session that is over is not refused.        *)
UpdateProgress(u, d, status) ==
  /\ drops[d].there /\ May(u, drops[d].user)
  /\ drops' = [drops EXCEPT ![d].status = status]

CancelDrop(u, d) ==
  /\ drops[d].there /\ May(u, drops[d].user)
  /\ drops' = [drops EXCEPT ![d].status = "cancelled"]

DropSteps ==
  \E u \in Users, d \in Drops :
    \/ \E n \in Nodes : CreateDrop(u, d, n)
    \/ \E status \in {"transferring", "completed", "failed"} : UpdateProgress(u, d, status)
    \/ CancelDrop(u, d)
-----------------------------------------------------------------------------
(* POST /peering/request: a signed token, and a pending row.               *)
RequestPeering(u, p) ==
  /\ peers[p].status = "none" /\ tokens[p] = -1 /\ u \in accounts
  /\ tokens' = [tokens EXCEPT ![p] = now + 1]
  /\ peers' = [peers EXCEPT ![p] = [status |-> "pending", user |-> u]]

(* Another mesh signs a token of its own.                                  *)
PartnerToken(p) ==
  /\ tokens[p] = -1 /\ tokens' = [tokens EXCEPT ![p] = now + 1] /\ UNCHANGED peers

(* POST /peering/accept: a token that has not expired makes its agreement  *)
(* active, also one that was revoked; a new row is the acceptor's.         *)
AcceptPeering(u, p) ==
  /\ tokens[p] # -1 /\ now <= tokens[p]
  /\ peers[p].status = "none" => u \in accounts
  /\ peers' = [peers EXCEPT ![p] = [status |-> "active",
                                    user |-> IF @.status = "none" THEN u ELSE @.user]]
  /\ UNCHANGED tokens

(* DELETE /peering/:id.                                                    *)
RevokePeering(p) ==
  /\ peers[p].status # "none" /\ peers' = [peers EXCEPT ![p] = noPeer] /\ UNCHANGED tokens

PeerSteps ==
  \E p \in Peers : \/ PartnerToken(p) \/ RevokePeering(p)
                   \/ \E u \in Admins : RequestPeering(u, p) \/ AcceptPeering(u, p)
-----------------------------------------------------------------------------
(* Every function on cloud PCs first fills an empty table with the PC of   *)
(* some administrator and its domain, and fails when there is none.        *)
FirstAdmin == IF \E c \in PCs : pcs[c].there THEN {none} ELSE Admins \cap accounts
EnsureSeed(admin) ==
  IF \E c \in PCs : pcs[c].there THEN [pcs |-> pcs, domains |-> domains] ELSE
    [pcs |-> [pcs EXCEPT ![SeedPC] = [there |-> TRUE, user |-> admin]],
     domains |-> IF domains[SeedDomain].there THEN domains ELSE
       [domains EXCEPT ![SeedDomain] = [there |-> TRUE, user |-> admin, pc |-> SeedPC]]]

(* The lists, project, teardown and the gateway change nothing else.       *)
ReadPCs ==
  /\ \E admin \in FirstAdmin : pcs' = EnsureSeed(admin).pcs /\ domains' = EnsureSeed(admin).domains
  /\ UNCHANGED req

(* POST /cloud-pc, on any device name; the account must be there.          *)
ProvisionPC(u, c) ==
  /\ ~pcs[c].there /\ c # SeedPC /\ u \in accounts
  /\ \E admin \in FirstAdmin :
       /\ pcs' = [EnsureSeed(admin).pcs EXCEPT ![c] = [there |-> TRUE, user |-> u]]
       /\ domains' = EnsureSeed(admin).domains
  /\ UNCHANGED req

(* POST /cloud-pc/custom-domains: look the name up, then insert; the name  *)
(* is UNIQUE, and whether there is such a PC nobody asks.                  *)
FindDomain(r, u, x, c) ==
  /\ req[r].pc = "idle"
  /\ \E admin \in FirstAdmin :
       /\ pcs' = EnsureSeed(admin).pcs /\ domains' = EnsureSeed(admin).domains
       /\ ~domains'[x].there
  /\ req' = [req EXCEPT ![r] = [noRequest EXCEPT !.pc = "write", !.op = "domain",
                                                 !.key = x, !.arg = c, !.user = u]]

InsertDomain(r) ==
  LET x == req[r].key
      Inserted(table) ==
        IF table[x].there \/ req[r].user \notin accounts THEN table
          ELSE [table EXCEPT ![x] = [there |-> TRUE, user |-> req[r].user, pc |-> req[r].arg]]
  IN  /\ req[r].pc = "write" /\ req[r].op = "domain"
      /\ IF FirstAdmin = {} THEN UNCHANGED pcVars ELSE
           \E admin \in FirstAdmin : /\ pcs' = EnsureSeed(admin).pcs
                                     /\ domains' = Inserted(EnsureSeed(admin).domains)
      /\ req' = [req EXCEPT ![r] = noRequest]

PCSteps ==
  \/ ReadPCs
  \/ \E u \in Users, c \in PCs : ProvisionPC(u, c)
  \/ \E r \in Requests : InsertDomain(r) \/ \E u \in Users, x \in Domains, c \in PCs :
                                              FindDomain(r, u, x, c)
-----------------------------------------------------------------------------
(* evaluateCountry: the policy of the country, or ALLOW.                   *)
Evaluate(c) == IF policies[c].id # 0 THEN policies[c].action ELSE "ALLOW"

(* A request on a country begins: getPolicyByCountryCode, getPolicyById.   *)
Writing(c) == {r \in Requests : req[r].pc = "write" /\ req[r].key = c}
FindPolicy(r, op, c, action) ==
  /\ req[r].pc = "idle"
  /\ op = "delete" => policies[c].id # 0
  /\ req' = [req EXCEPT ![r] = [noRequest EXCEPT !.pc = "write", !.op = op, !.key = c,
                                                 !.arg = action, !.id = policies[c].id]]
  /\ muddled' = IF \E s \in Writing(c) : "delete" \in {op, req[s].op}
                  THEN muddled \cup {c} ELSE muddled
  /\ UNCHANGED <<policies, said>>

(* Ids are random: a new one is no other's, and nobody is holding it.      *)
FreshId == CHOOSE i \in 1..MaxIds : /\ \A c \in Countries : policies[c].id # i
                                    /\ \A r \in Requests : req[r].id # i

(* The UPDATE by id, which may find nothing any more, or the INSERT, which *)
(* fails when another policy of the country came first.                    *)
Stored(old, r) ==
  IF req[r].id # 0 THEN IF old.id = req[r].id THEN [old EXCEPT !.action = req[r].arg] ELSE old
    ELSE IF old.id # 0 THEN old
    ELSE [id |-> FreshId, action |-> req[r].arg]

\* Variant: INSERT OR IGNORE, answered all the same.
WriteOrIgnore(r) ==
  LET c == req[r].key IN
  /\ req[r].pc = "write" /\ req[r].op = "upsert"
  /\ policies' = [policies EXCEPT ![c] = Stored(@, r)]
  /\ said' = [said EXCEPT ![c] = req[r].arg]
  /\ req' = [req EXCEPT ![r] = noRequest]
  /\ UNCHANGED muddled

WritePolicy(r) ==
  LET c == req[r].key IN
  /\ req[r].pc = "write" /\ req[r].op = "upsert"
  /\ policies' = [policies EXCEPT ![c] = Stored(@, r)]
  /\ said' = IF req[r].id = 0 /\ policies[c].id # 0 THEN said
               ELSE [said EXCEPT ![c] = req[r].arg]
  /\ req' = [req EXCEPT ![r] = noRequest]
  /\ UNCHANGED muddled

(* deletePolicy, by the id it found.                                       *)
DeletePolicy(r) ==
  LET c == req[r].key IN
  /\ req[r].pc = "write" /\ req[r].op = "delete"
  /\ policies' = [policies EXCEPT ![c] =
       IF @.id = req[r].id THEN [id |-> 0, action |-> "ALLOW"] ELSE @]
  /\ said' = [said EXCEPT ![c] = "ALLOW"]
  /\ req' = [req EXCEPT ![r] = noRequest]
  /\ UNCHANGED muddled

PolicySteps ==
  \E r \in Requests :
    \/ WritePolicy(r) \/ DeletePolicy(r)
    \/ \E c \in Countries : \/ FindPolicy(r, "delete", c, none)
                            \/ \E action \in Verdicts : FindPolicy(r, "upsert", c, action)
-----------------------------------------------------------------------------
(* DELETE /users/:id and DELETE /nodes/:id, with all that cascades.        *)
AppsOf(u) == {a \in Apps : apps[a].there /\ apps[a].user = u}
NodesOf(u) == {n \in nodes : OwnerOf[n] = u}

DeleteAccount(u) ==
  LET gone == LinksOf(AppsOf(u), {u})
  IN  /\ u \in accounts /\ accounts' = accounts \ {u} /\ nodes' = nodes \ NodesOf(u)
      /\ apps' = [a \in Apps |-> IF a \in AppsOf(u) THEN noApp ELSE apps[a]]
      /\ links' = Cascade(gone) /\ ended' = ended \cup gone
      /\ drops' = [d \in Drops |-> IF drops[d].user = u \/ drops[d].ends \cap NodesOf(u) # {}
                                     THEN noDrop ELSE drops[d]]
      /\ peers' = [p \in Peers |-> IF peers[p].user = u THEN noPeer ELSE peers[p]]
      /\ pcs' = [c \in PCs |-> IF pcs[c].user = u THEN noPC ELSE pcs[c]]
      /\ domains' = [x \in Domains |-> IF domains[x].user = u THEN noDomain ELSE domains[x]]
      /\ UNCHANGED <<area, now, opened, tokens, policyVars, req, adrift>>

(* executeInstantUserDestruction: a list of tables, with the foreign keys  *)
(* off.  Domains and agreements are not in it, nor are the links and the   *)
(* transfers of others.  Two nodes would get one key, which is UNIQUE: the *)
(* first statement fails and nothing is deleted.                           *)
DestroyAccount(u) ==
  /\ u \in accounts /\ Cardinality(NodesOf(u)) <= 1
  /\ accounts' = accounts \ {u} /\ nodes' = nodes \ NodesOf(u)
  /\ apps' = [a \in Apps |-> IF a \in AppsOf(u) THEN noApp ELSE apps[a]]
  /\ links' = Cascade(LinksOf({}, {u})) /\ ended' = ended \cup LinksOf(AppsOf(u), {u})
  /\ drops' = [d \in Drops |-> IF drops[d].user = u THEN noDrop ELSE drops[d]]
  /\ pcs' = [c \in PCs |-> IF pcs[c].user = u THEN noPC ELSE pcs[c]]
  /\ adrift' = adrift \cup {u} \cup NodesOf(u) \cup AppsOf(u)
  /\ UNCHANGED <<area, now, opened, peerVars, domains, policyVars, req>>

(* executeOwnerGlobalCascadingWipe: every row of every table.  A request   *)
(* on a country that is under way is overlapped by a deletion.             *)
WipeAll ==
  /\ accounts # {} /\ accounts' = {} /\ nodes' = {}
  /\ apps' = [a \in Apps |-> noApp] /\ links' = Cascade(Links)
  /\ ended' = ended \cup {l \in Links : links[l].there}
  /\ drops' = [d \in Drops |-> noDrop] /\ peers' = [p \in Peers |-> noPeer]
  /\ pcs' = [c \in PCs |-> noPC] /\ domains' = [x \in Domains |-> noDomain]
  /\ policies' = [c \in Countries |-> [id |-> 0, action |-> "ALLOW"]]
  /\ said' = [c \in Countries |-> "ALLOW"]
  /\ muddled' = muddled \cup {c \in Countries : Writing(c) # {}}
  /\ UNCHANGED <<area, now, opened, tokens, req, adrift>>

DeleteNode(n) ==
  /\ n \in nodes /\ nodes' = nodes \ {n}
  /\ drops' = [d \in Drops |-> IF n \in drops[d].ends THEN noDrop ELSE drops[d]]
  /\ UNCHANGED <<area, accounts, adrift, now, appVars, peerVars, pcVars, policyVars, req>>

Tick ==
  /\ now < MaxTime /\ now' = now + 1
  /\ UNCHANGED <<area, accounts, nodes, adrift, appVars, drops, peerVars, pcVars, policyVars, req>>

ResourcesNext ==
  \/ area = "apps" /\ AppSteps /\ UNCHANGED <<owners, drops, peerVars, pcVars, policyVars, req>>
  \/ area = "drops" /\ DropSteps /\ UNCHANGED <<owners, appVars, peerVars, pcVars, policyVars, req>>
  \/ area = "peering" /\ PeerSteps
     /\ UNCHANGED <<owners, appVars, drops, pcVars, policyVars, req>>
  \/ area = "pcs" /\ PCSteps /\ UNCHANGED <<owners, appVars, drops, peerVars, policyVars>>
  \/ area = "policies" /\ PolicySteps /\ UNCHANGED <<owners, appVars, drops, peerVars, pcVars>>
  \/ \E u \in Users : DeleteAccount(u) \/ DestroyAccount(u)
  \/ WipeAll
  \/ \E n \in Nodes : DeleteNode(n)
  \/ Tick

ResourcesSpec == ResourcesInit /\ [][ResourcesNext]_resourceVars
-----------------------------------------------------------------------------
(* A link lets nobody in once it was revoked, or its app or the account    *)
(* that made it was deleted, by a cascade or by a destruction that leaves  *)
(* the link behind, nor after it expired, nor more often than it was made  *)
(* for, whoever asks in whatever order (routes/apps.js:42).                *)
LinksKeepTheirLimits ==
  [][\A l \in Links : opened'[l] # opened[l] =>
       l \notin ended /\ now <= links[l].expires
       /\ (links[l].max > 0 => opened'[l] <= links[l].max)]_resourceVars

(* The last answer on a country is what evaluateCountry says of it, also   *)
(* after changes that overlapped, if no deletion overlapped another change *)
(* (services/PolicyEngine.js:102): of two insertions one is refused, and   *)
(* no answered change is lost.                                             *)
AnswersApply == \A c \in Countries \ muddled : Evaluate(c) = said[c]
=============================================================================
