---------------------------- MODULE AdminConsole ----------------------------
(***************************************************************************)
(* The admin console (assets/admin): one page, eight views, one container. *)
(* navigate() changes state.currentView and calls the view's renderer; a   *)
(* renderer clears the container, waits for the admin API (admin-keys.js,  *)
(* admin-sessions.js) and then paints whatever is current when the answer  *)
(* arrives.  Nothing ties an answer to the view that is shown, so renders  *)
(* and calls in flight interleave with each other and with the clicks.     *)
(*                                                                         *)
(* Rows, cards and charts are reduced to which keys, groups or sessions    *)
(* they list and whose inspector panel they show; limits to set / not set. *)
(***************************************************************************)
EXTENDS Naturals, Sequences, SequencesExt, TLC

CONSTANTS
  Keys, Groups, Sessions,   \* identifiers the server can hand out
  FirstKeys, FirstGroups, FirstMembers,  \* what exists when the operator signs in
  None,                     \* null
  Menus,                    \* the sets of views an operator visits in one sitting
  MaxClicks,                \* clicks of the operator
  MaxTicks,                 \* 30 s ticks (or returns to the tab) of the metrics poll
  MaxFlight                 \* requests in flight when a click is made

VARIABLES
  keys, groups, member, live,  \* the server: api_keys, api_key_groups, api_key_group_members, sessions
  menu,                        \* the menu of this behaviour
  current,                     \* state.currentView
  sel,                         \* state.selectedKeyId, .selectedGroupId, .selectedSessionId
  filter,                      \* state.keyFilterStatus
  got,                         \* state.keys and state.groups, as last fetched
  page,                        \* the blocks painted in #view-container, top to bottom
  flight,                      \* requests awaiting their answer, oldest first
  modal,                       \* the dialog shown, or NoModal
  mount,                       \* number of the mounted metrics instance; 0 before the first
  last,                        \* the last change sent: what for, and whose panel was clicked
  clicks, ticks

server == <<keys, groups, member, live>>
console == <<keys, groups, member, live, menu, current, sel, filter, got, page,
             flight, modal, mount, last, clicks, ticks>>

NoModal == [op |-> "none", item |-> None, painted |-> None, arg |-> None]

-----------------------------------------------------------------------------
(* The server *)

\* Keys and groups that exist.
KeysHere(ks)   == {k \in Keys : ks[k].status \in {"active", "inactive"}}
GroupsHere(gs) == {g \in Groups : gs[g] = "here"}
GroupsOf(k)    == {g \in Groups : <<g, k>> \in member}

ListApiKeys == [k \in KeysHere(keys) |-> keys[k] @@ [groups |-> GroupsOf(k)]]
  @@ [k \in Keys \ KeysHere(keys) |-> [status |-> "gone", perms |-> {}, limit |-> None, groups |-> {}]]
ListKeyGroups == GroupsHere(groups)

\* PUT /keys/:id, DELETE /keys/:id, the limits and permissions of a key.
UpdateKey(k, attr, value) ==
  /\ k \in KeysHere(keys)
  /\ keys' = [keys EXCEPT ![k] = [@ EXCEPT ![attr] = value]]
  /\ UNCHANGED <<groups, member, live>>
DeleteApiKey(k) ==
  /\ k \in KeysHere(keys)
  /\ keys' = [keys EXCEPT ![k].status = "gone"]
  /\ member' = {m \in member : m[2] # k}
  /\ UNCHANGED <<groups, live>>
CreateApiKey(perms) ==
  /\ \E k \in Keys : /\ keys[k].status = "new"
                     /\ keys' = [keys EXCEPT ![k] = [status |-> "active", perms |-> perms, limit |-> None]]
  /\ UNCHANGED <<groups, member, live>>

CreateKeyGroup ==
  /\ \E g \in Groups : groups[g] = "new" /\ groups' = [groups EXCEPT ![g] = "here"]
  /\ UNCHANGED <<keys, member, live>>
DeleteKeyGroup(g) ==
  /\ g \in GroupsHere(groups)
  /\ groups' = [groups EXCEPT ![g] = "gone"]
  /\ member' = {m \in member : m[1] # g}
  /\ UNCHANGED <<keys, live>>
AddKeyToGroup(k, g) ==
  /\ k \in KeysHere(keys) /\ g \in GroupsHere(groups)
  /\ member' = member \union {<<g, k>>}
  /\ UNCHANGED <<keys, groups, live>>
RemoveKeyFromGroup(k, g) ==
  /\ member' = member \ {<<g, k>>}
  /\ UNCHANGED <<keys, groups, live>>

CloseSession(s) ==
  /\ s \in live
  /\ live' = live \ {s}
  /\ UNCHANGED <<keys, groups, member>>
CleanupSessions ==
  /\ \E gone \in SUBSET live : live' = live \ gone
  /\ UNCHANGED <<keys, groups, member>>

\* The change a request asks for; a request that fails changes nothing.
Served(c) ==
  \/ c.op = "status"      /\ UpdateKey(c.item, "status", c.arg)
  \/ c.op = "limit"       /\ UpdateKey(c.item, "limit", c.arg)
  \/ c.op = "perms"       /\ UpdateKey(c.item, "perms", c.arg)
  \/ c.op = "deleteKey"   /\ DeleteApiKey(c.item)
  \/ c.op = "createKey"   /\ CreateApiKey(c.arg)
  \/ c.op = "createGroup" /\ CreateKeyGroup
  \/ c.op = "deleteGroup" /\ DeleteKeyGroup(c.item)
  \/ c.op \in {"join", "assign"} /\ AddKeyToGroup(c.item, c.arg)
  \/ c.op = "leave"       /\ RemoveKeyFromGroup(c.item, c.arg)
  \/ c.op = "addMember"   /\ AddKeyToGroup(c.arg, c.item)
  \/ c.op = "dropMember"  /\ RemoveKeyFromGroup(c.arg, c.item)
  \/ c.op = "terminate"   /\ CloseSession(c.item)
  \/ c.op = "cleanup"     /\ CleanupSessions
  \/ c.op \in {"reflect", "reflectAll"} /\ UNCHANGED server

-----------------------------------------------------------------------------
(* The page *)

\* What a renderer puts into the container.  panel is the item whose inspector
\* is shown (its buttons carry that id), seen the key as it was fetched.
Block(view, rows, panel, seen) ==
  [view |-> view, rows |-> rows, panel |-> panel, seen |-> seen]
LoadingHtml == Block("loading", {}, None, {})

KeyTable(ks) ==
  {k \in KeysHere(ks) : filter \in {"", ks[k].status}}
KeyInspector(k, ks) == IF k = None THEN {} ELSE ks[k].perms
RenderedKeys(ks) ==
  LET k == IF sel.keys \in KeysHere(ks) THEN sel.keys ELSE None
  IN <<Block("keys", KeyTable(ks), k, KeyInspector(k, ks))>>

GroupInspector(g) == {k \in Keys : <<g, k>> \in member}
RenderedGroups(g) ==
  <<Block("groups", got.groups, g, IF g = None THEN {} ELSE GroupInspector(g))>>

SessionInspector(s) == IF s \in live THEN s ELSE None

\* The block whose buttons were bound: querySelector takes the first.
Bound(view) ==
  {page[i] : i \in {j \in DOMAIN page : /\ page[j].view = view /\ page[j].panel # None
                                        /\ \A h \in 1..(j - 1) : page[h].view # view \/ page[h].panel = None}}
Rows(view) == UNION {page[i].rows : i \in {j \in DOMAIN page : page[j].view = view}}

Request(view, stage, op, item, arg) ==
  [view |-> view, stage |-> stage, op |-> op, item |-> item, arg |-> arg]

\* A renderer called with the container: clear, show the spinner, ask the API.
\* The metrics view mounts a new instance in place of the mounted one.
Render(view, waiting) ==
  IF view = "metrics"
  THEN /\ mount' = mount + 1
       /\ page' = <<Block("metrics", {}, None, {})>>
       /\ flight' = Append(waiting, Request(view, "list", "refresh", None, mount + 1))
  ELSE /\ page' = <<LoadingHtml>>
       /\ flight' = Append(waiting, Request(view, "list", "render", None, None))
       /\ UNCHANGED mount

\* The operator clicks: nothing but the dialog can be clicked while it is open.
Click == clicks < MaxClicks /\ Len(flight) < MaxFlight /\ clicks' = clicks + 1
OnPage == Click /\ modal = NoModal

-----------------------------------------------------------------------------
(* Navigation, selection, filters *)

Navigate(view) ==
  /\ OnPage
  /\ current' = view
  /\ Render(view, flight)
  /\ UNCHANGED <<server, menu, sel, filter, got, modal, last, ticks>>

Refresh ==
  /\ OnPage
  /\ Render(current, flight)
  /\ UNCHANGED <<server, menu, current, sel, filter, got, modal, last, ticks>>

RowClick(view, i) ==
  /\ OnPage
  /\ i \in Rows(view)
  /\ sel' = [sel EXCEPT ![view] = i]
  /\ Render(view, flight)
  /\ UNCHANGED <<server, menu, current, filter, got, modal, last, ticks>>

\* The close button of the key inspector only forgets the selection.
CloseInspector(view) ==
  /\ OnPage
  /\ Bound(view) # {}
  /\ sel' = [sel EXCEPT ![view] = None]
  /\ IF view = "keys" THEN UNCHANGED <<page, flight, mount>> ELSE Render(view, flight)
  /\ UNCHANGED <<server, menu, current, filter, got, modal, last, ticks>>

FilterKeys(status) ==
  /\ OnPage
  /\ \E i \in DOMAIN page : page[i].view = "keys"
  /\ filter' = status
  /\ Render("keys", flight)
  /\ UNCHANGED <<server, menu, current, sel, got, modal, last, ticks>>

-----------------------------------------------------------------------------
(* Changes: a direct button calls the API, the others open a dialog *)

Send(view, op, item, arg, painted) ==
  /\ flight' = Append(flight, Request(view, "call", op, item, arg))
  /\ last' = [view |-> view, sent |-> item, painted |-> painted]

Direct(view, op, item, arg, painted) ==
  /\ OnPage
  /\ Send(view, op, item, arg, painted)
  /\ UNCHANGED <<server, menu, current, sel, filter, got, page, modal, mount, ticks>>

ShowModal(op, item, painted, arg) ==
  /\ OnPage
  /\ modal' = [op |-> op, item |-> item, painted |-> painted, arg |-> arg]
  /\ UNCHANGED <<server, menu, current, sel, filter, got, page, flight, mount, last, ticks>>

SetFragmentLimit == \E b \in Bound("keys") : Direct("keys", "limit", b.panel, "set", b.panel)

\* The toggle works on the permissions that were fetched with the panel.
TogglePermission(p) ==
  \E b \in Bound("keys") :
    LET perms == IF p \in b.seen THEN b.seen \ {p} ELSE b.seen \union {p}
    IN perms # {} /\ Direct("keys", "perms", b.panel, perms, b.panel)

RemoveFromGroup(g) ==
  \E b \in Bound("keys") :
    g \in got.keys[b.panel].groups /\ Direct("keys", "leave", b.panel, g, b.panel)
\* From the directory of all groups, and ADD GROUP among those the key is not in.
AssignGroup(g) ==
  \E b \in Bound("keys") :
    g \in got.groups /\ Direct("keys", "join", b.panel, g, b.panel)
AddGroup(g) ==
  \E b \in Bound("keys") :
    g \in got.groups \ got.keys[b.panel].groups /\ ShowModal("assign", b.panel, b.panel, g)

ToggleStatus ==
  \E b \in Bound("keys") :
    ShowModal("status", b.panel, b.panel,
              IF got.keys[b.panel].status = "active" THEN "inactive" ELSE "active")
DeleteKey == \E b \in Bound("keys") : ShowModal("deleteKey", b.panel, b.panel, None)
CreateKey(perms) ==
  /\ \E i \in DOMAIN page : page[i].view = "keys"
  /\ ShowModal("createKey", None, None, perms)

AddMember(k) ==
  /\ k \in KeysHere(got.keys)
  /\ \E b \in Bound("groups") : ShowModal("addMember", b.panel, b.panel, k)
RemoveMember(k) ==
  \E b \in Bound("groups") :
    k \in b.seen /\ Direct("groups", "dropMember", sel.groups, k, b.panel)
DeleteGroup == \E b \in Bound("groups") : ShowModal("deleteGroup", b.panel, b.panel, None)
CreateGroup ==
  /\ \E i \in DOMAIN page : page[i].view = "groups"
  /\ ShowModal("createGroup", None, None, None)

ReflectSession == \E b \in Bound("sessions") : Direct("sessions", "reflect", b.panel, None, b.panel)
TerminateSession == \E b \in Bound("sessions") : ShowModal("terminate", b.panel, b.panel, None)
OnAllSessions(op) ==
  /\ \E i \in DOMAIN page : page[i].view = "sessions"
  /\ Direct("sessions", op, None, None, None)

ViewOf(op) ==
  CASE op \in {"status", "deleteKey", "createKey", "assign"} -> "keys"
    [] op \in {"addMember", "deleteGroup", "createGroup"} -> "groups"
    [] op = "terminate" -> "sessions"

\* Mutant: every dialog acts on the selection at the time of the confirmation.
Target_Mutant(m) == IF m.item = None THEN None ELSE sel[ViewOf(m.op)]

\* The id a dialog sends: key and session dialogs keep the id of the button
\* that opened them, group dialogs read state.selectedGroupId when confirmed.
Target(m) ==
  IF ViewOf(m.op) = "groups" /\ m.op # "createGroup" THEN sel.groups ELSE m.item

\* The dialog stays open until the answer: it may be confirmed again.
Confirm ==
  /\ Click
  /\ modal.op \notin {"none", "credential"}
  /\ Send(ViewOf(modal.op), modal.op, Target(modal), modal.arg, modal.painted)
  /\ UNCHANGED <<server, menu, current, sel, filter, got, page, modal, mount, ticks>>

\* CANCEL, and the DONE button under a new key's secret.
CloseModal ==
  /\ Click
  /\ modal # NoModal
  /\ modal' = NoModal
  /\ IF modal.op = "credential" THEN \/ Render("keys", flight)
                                     \/ UNCHANGED <<page, flight, mount>>
                                ELSE UNCHANGED <<page, flight, mount>>
  /\ UNCHANGED <<server, menu, current, sel, filter, got, last, ticks>>

-----------------------------------------------------------------------------
(* Answers *)

InDialog == {"status", "deleteKey", "createKey", "assign",
             "addMember", "deleteGroup", "createGroup", "terminate"}

\* What the handler of a call does with the answer.
Answered(i, ok) ==
  LET c == flight[i]
      waiting == RemoveAt(flight, i)
  IN /\ c.stage = "call"
     /\ IF ok THEN Served(c) ELSE UNCHANGED server
     /\ modal' = IF c.op = "createKey" /\ ok
                 THEN [NoModal EXCEPT !.op = "credential"]
                 ELSE IF c.op \in InDialog THEN NoModal ELSE modal
     /\ sel' = IF c.op \in {"deleteKey", "deleteGroup", "terminate"}
               THEN [sel EXCEPT ![c.view] = None] ELSE sel
     /\ IF \/ c.op = "createKey" /\ ok
           \/ c.op \in {"limit", "perms", "createGroup"} /\ ~ok
        THEN flight' = waiting /\ UNCHANGED <<page, mount>>
        ELSE Render(c.view, waiting)
     /\ UNCHANGED <<menu, current, filter, got, last, clicks, ticks>>

\* renderKeys resolves the selection when the list has arrived.
PaintKeys(i) ==
  LET ks == ListApiKeys
  IN /\ flight[i].view = "keys" /\ flight[i].stage = "list"
     /\ got' = [keys |-> ks, groups |-> ListKeyGroups]
     /\ page' = RenderedKeys(ks)
     /\ flight' = RemoveAt(flight, i)
     /\ UNCHANGED <<server, menu, current, sel, filter, modal, mount, last, clicks, ticks>>

\* renderGroups resolves it with the list, then waits for the members.
ListGroups(i) ==
  /\ flight[i].view = "groups" /\ flight[i].stage = "list"
  /\ got' = [keys |-> ListApiKeys, groups |-> ListKeyGroups]
  /\ flight' = IF sel.groups \in ListKeyGroups
               THEN Append(RemoveAt(flight, i), Request("groups", "detail", "render", sel.groups, None))
               ELSE RemoveAt(flight, i)
  /\ page' = IF sel.groups \in ListKeyGroups THEN page
             ELSE <<Block("groups", ListKeyGroups, None, {})>>
  /\ UNCHANGED <<server, menu, current, sel, filter, modal, mount, last, clicks, ticks>>
PaintGroups(i) ==
  /\ flight[i].view = "groups" /\ flight[i].stage = "detail"
  /\ page' = RenderedGroups(flight[i].item)
  /\ flight' = RemoveAt(flight, i)
  /\ UNCHANGED <<server, menu, current, sel, filter, got, modal, mount, last, clicks, ticks>>

\* renderSessions paints its header, then appends table and inspector to
\* whatever the container holds when the detail arrives.
ListSessions(i) ==
  /\ flight[i].view = "sessions" /\ flight[i].stage = "list"
  /\ IF sel.sessions = None
     THEN /\ page' = <<Block("sessions", live, None, {})>>
          /\ flight' = RemoveAt(flight, i)
     ELSE /\ page' = <<Block("sessions", {}, None, {})>>
          /\ flight' = Append(RemoveAt(flight, i), Request("sessions", "detail", "render", sel.sessions, live))
  /\ UNCHANGED <<server, menu, current, sel, filter, got, modal, mount, last, clicks, ticks>>
AppendSessions(i) ==
  /\ flight[i].view = "sessions" /\ flight[i].stage = "detail"
  /\ page' = Append(page, Block("sessions", flight[i].arg, SessionInspector(flight[i].item), {}))
  /\ flight' = RemoveAt(flight, i)
  /\ UNCHANGED <<server, menu, current, sel, filter, got, modal, mount, last, clicks, ticks>>

\* The other views have no selection; logs asks for the chosen file after the list.
PaintView(i) ==
  /\ \/ flight[i].view \in {"overview", "graph", "memory"}
     \/ flight[i].view = "logs" /\ flight[i].stage = "detail"
  /\ page' = <<Block(flight[i].view, {}, None, {})>>
  /\ flight' = RemoveAt(flight, i)
  /\ UNCHANGED <<server, menu, current, sel, filter, got, modal, mount, last, clicks, ticks>>
ListLogs(i) ==
  /\ flight[i].view = "logs" /\ flight[i].stage = "list"
  /\ flight' = Append(RemoveAt(flight, i), Request("logs", "detail", "render", None, None))
  /\ UNCHANGED <<server, menu, current, sel, filter, got, page, modal, mount, last, clicks, ticks>>

\* An instance that was replaced drops its answer; the mounted one paints.
PaintMetrics(i) ==
  /\ flight[i].view = "metrics"
  /\ page' = IF flight[i].arg = mount THEN <<Block("metrics", {}, None, {})>> ELSE page
  /\ flight' = RemoveAt(flight, i)
  /\ UNCHANGED <<server, menu, current, sel, filter, got, modal, mount, last, clicks, ticks>>

\* The poll of the mounted instance: leaving the view does not unmount it.
PollMetrics ==
  /\ mount > 0 /\ ticks < MaxTicks /\ Len(flight) < MaxFlight
  /\ ticks' = ticks + 1
  /\ page' = IF \E i \in DOMAIN page : page[i].view = "metrics" THEN page
             ELSE <<Block("metrics", {}, None, {})>>
  /\ flight' = Append(flight, Request("metrics", "list", "refresh", None, mount))
  /\ UNCHANGED <<server, menu, current, sel, filter, got, modal, mount, last, clicks>>

\* attemptLogin succeeded: navigate("overview").
Init ==
  /\ keys = [k \in Keys |-> [status |-> IF k \in FirstKeys THEN "active" ELSE "new",
                             perms |-> {"read", "write"}, limit |-> None]]
  /\ groups = [g \in Groups |-> IF g \in FirstGroups THEN "here" ELSE "new"]
  /\ member = FirstMembers /\ live = Sessions
  /\ menu \in Menus
  /\ current = "overview"
  /\ sel = [keys |-> None, groups |-> None, sessions |-> None]
  /\ filter = ""
  /\ got = [keys |-> [k \in Keys |-> [status |-> "gone", perms |-> {}, limit |-> None, groups |-> {}]],
            groups |-> {}]
  /\ page = <<LoadingHtml>>
  /\ flight = <<Request("overview", "list", "render", None, None)>>
  /\ modal = NoModal /\ mount = 0
  /\ last = [view |-> "none", sent |-> None, painted |-> None]
  /\ clicks = 0 /\ ticks = 0

Operate ==
  \/ \E v \in menu : Navigate(v)
  \/ Refresh
  \/ \E k \in Keys : RowClick("keys", k)
  \/ \E g \in Groups : RowClick("groups", g)
  \/ \E s \in Sessions : RowClick("sessions", s)
  \/ \E v \in {"keys", "groups", "sessions"} : CloseInspector(v)
  \/ \E f \in {"", "active", "inactive"} : FilterKeys(f)

ChangeKeys ==
  \/ SetFragmentLimit \/ ToggleStatus \/ DeleteKey
  \/ \E p \in {"read", "write"} : TogglePermission(p)
  \/ \E g \in Groups : RemoveFromGroup(g) \/ AssignGroup(g) \/ AddGroup(g)
  \/ \E perms \in SUBSET {"read", "write"} : CreateKey(perms)
ChangeGroups ==
  \/ \E k \in Keys : AddMember(k) \/ RemoveMember(k)
  \/ DeleteGroup \/ CreateGroup
ChangeSessions ==
  \/ ReflectSession \/ TerminateSession
  \/ \E op \in {"cleanup", "reflectAll"} : OnAllSessions(op)

Arrive ==
  \E i \in DOMAIN flight :
    \/ \E ok \in BOOLEAN : Answered(i, ok)
    \/ PaintKeys(i) \/ ListGroups(i) \/ PaintGroups(i)
    \/ ListSessions(i) \/ AppendSessions(i)
    \/ PaintView(i) \/ ListLogs(i) \/ PaintMetrics(i)

Next ==
  \/ Operate \/ ChangeKeys \/ ChangeGroups \/ ChangeSessions
  \/ Confirm \/ CloseModal \/ Arrive \/ PollMetrics

Spec == Init /\ [][Next]_console

-----------------------------------------------------------------------------
(* Properties *)

\* A change of a key or of a session goes to the one whose panel was clicked,
\* whatever was selected, rendered or deleted between the click, the dialog and
\* the confirmation (keys.js and sessions.js keep the id with the button).
ActsOnShown ==
  last.view \in {"keys", "sessions"} => last.sent = last.painted
=============================================================================
