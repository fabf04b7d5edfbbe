----------------------------- MODULE Dashboard -----------------------------
(***************************************************************************)
(* A page of the dashboard (dashboard/app.js) in one browser tab, and of   *)
(* the registry what the page asks of it.                                  *)
(*                                                                         *)
(* Handlers run alone up to their await of fetch; what follows it runs     *)
(* when the answer comes, in whatever order answers come, or after 20 s.   *)
(* No request is cancelled, and none is told from a later one like it.     *)
(*                                                                         *)
(* The page knows of no user: /auth/me tells the one of the token, but     *)
(* verifyToken (auth.js:64) does not read it, so currentUser stays null.   *)
(* Hence isAdmin is whether there is a token, the button to sign out is    *)
(* never there, and "My agents only" loads all agents as other clicks do.  *)
(*                                                                         *)
(* The code of the agents' table and its form is that of the MCP servers'  *)
(* table and its form but for what Table tells apart.  Of a row we keep    *)
(* its status, which both the form and the toggle write, and its buttons.  *)
(***************************************************************************)
EXTENDS Naturals, FiniteSets

CONSTANTS
  Table,     \* "agents" or "mcp"
  Items,     \* ids of the rows
  Tokens,    \* tokens that a user may enter or be given by a login
  ScopeOf,   \* the scope of each
  Slots,     \* how many requests may be under way: one id each
  MaxClicks, \* bound on what the user does, and others do, before the page rests
  Failures,  \* whether a request may fail or time out
  Others,    \* whether other clients write rows and revoke tokens
  None       \* no token, no item

ASSUME TableAssumption == Table \in {"agents", "mcp"}
ASSUME ScopesAssumption == ScopeOf \in [Tokens -> {"read", "write", "admin"}]
ASSUME NoneAssumption == None \notin Items /\ None \notin Tokens /\ "not found" \notin Items
ASSUME BoundsAssumption == MaxClicks \in Nat
ASSUME SwitchAssumption == Failures \in BOOLEAN /\ Others \in BOOLEAN

VARIABLES
  status, \* of each row, in the registry
  live,   \* tokens the registry accepts
  token,  \* localStorage: survives the page
  req,    \* requests under way, with what the registry answered
  table,  \* what the table shows
  form,   \* the modal in which a row is edited or added
  detail, \* the modal of an agent: whose data each part shows
  chat,   \* the panel of the connect agent
  clicks

server == <<status, live>>
vars == <<status, live, token, req, table, form, detail, chat, clicks>>

Statuses == {"active", "inactive"}
Kinds == {"idle", "config", "me", "list", "search", "edit", "save", "toggle", "detail", "chat"}
SomeRows == UNION {[D -> Statuses] : D \in SUBSET Items}
NoRows == [i \in {} |-> "none"]
Requests ==
  [kind : Kinds, tok : Tokens \union {None}, item : Items \union {None}, of : Items \union {None},
   status : Statuses \union {"none"}, all : BOOLEAN, session : Nat, served : BOOLEAN, ok : BOOLEAN,
   rows : SomeRows, made : SUBSET Items, offers : SUBSET Items]
NoRequest ==
  [kind |-> "idle", tok |-> None, item |-> None, of |-> None, status |-> "none", all |-> FALSE,
   session |-> 0, served |-> FALSE, ok |-> FALSE, rows |-> NoRows, made |-> {}, offers |-> {}]
Tables == [state : {"blank", "loading", "shown", "error"}, rows : SomeRows, offers : SUBSET Items]
Forms == [open : BOOLEAN, id : Items \union {None}, of : Items \union {None},
          status : Statuses \union {"none"}]
Shows(state) == [state |-> state, rows |-> NoRows, offers |-> {}]
NoForm == [open |-> FALSE, id |-> None, of |-> None, status |-> "none"]
AnItem == Items \union {None}
Details ==
  [name : AnItem \union {"not found"}, meta : AnItem, metrics : AnItem, spark : AnItem]
NoDetail == [name |-> None, meta |-> None, metrics |-> None, spark |-> None]

TypeOK ==
  /\ status \in [Items -> Statuses]
  /\ live \subseteq Tokens
  /\ token \in Tokens \union {None}
  /\ req \in [Slots -> Requests]
  /\ table \in Tables
  /\ form \in Forms
  /\ detail \in Details
  /\ chat \in [session : Nat, greeted : BOOLEAN, replies : SUBSET Nat]
  /\ clicks \in 0..MaxClicks

\* Without a user the page takes any token for an admin's.
IsAdmin(t) == t # None
CanMutate == IsAdmin(token)

\* What the registry decides, by the token it is sent: without a user a change of
\* a row takes admin scope, a new row takes write scope.
MayChange(t) == t \in live /\ ScopeOf[t] = "admin"
MayAdd(t) == t \in live /\ ScopeOf[t] # "read"

-----------------------------------------------------------------------------
(* Requests                                                                *)

Free(r) == req[r] = NoRequest
Ask(kind, t) == [NoRequest EXCEPT !.kind = kind, !.tok = t]
Send(r, request) == req' = [req EXCEPT ![r] = request]
Done(r) == Send(r, NoRequest)
Click == clicks < MaxClicks /\ clicks' = clicks + 1

\* A page that was just opened: init awaits /auth/config first.
Opened(r) == [q \in Slots |-> IF q = r THEN Ask("config", None) ELSE NoRequest]

Init ==
  /\ status \in [Items -> Statuses]
  /\ live \in SUBSET Tokens
  /\ token \in Tokens \union {None}
  /\ \E r \in Slots : req = Opened(r)
  /\ table = Shows("blank")
  /\ form = NoForm
  /\ detail = NoDetail
  /\ chat = [session |-> 1, greeted |-> FALSE, replies |-> {}]
  /\ clicks = 0

\* loadAgents and loadMcp: the table is cleared; the token there is by now decides
\* the query.
Load(r, t) ==
  /\ Send(r, [Ask("list", t) EXCEPT !.all = (Table = "agents" \/ IsAdmin(t))])
  /\ table' = Shows("loading")

\* refreshAuth, and the loads that its callers go on to.
RefreshAuth(r, t) ==
  IF t = None THEN Load(r, t) ELSE Send(r, Ask("me", t)) /\ UNCHANGED table

\* setToken
SetToken(r, t) == token' = t /\ RefreshAuth(r, t)

-----------------------------------------------------------------------------
(* The page's identity                                                     *)

\* The page is loaded again: what it knew and what it waits for is gone, the
\* token and the chat's session id are not.
Reload(r) ==
  /\ Click
  /\ req' = Opened(r)
  /\ table' = Shows("blank")
  /\ form' = NoForm
  /\ detail' = NoDetail
  /\ chat' = [chat EXCEPT !.greeted = FALSE, !.replies = {}]
  /\ UNCHANGED <<server, token>>

\* /auth/config is answered, or fails, which is tolerated.
EndConfig(r) ==
  /\ req[r].kind = "config"
  /\ RefreshAuth(r, token)
  /\ UNCHANGED <<server, token, form, detail, chat, clicks>>

\* A token is pasted or cleared, or a login is answered with one.
SaveToken(r, t) ==
  /\ Click /\ Free(r)
  /\ SetToken(r, t)
  /\ UNCHANGED <<server, form, detail, chat>>

\* Wrong on purpose: what fails is not caught, and nothing is loaded.
EndMeThrowing(r) ==
  /\ req[r].kind = "me"
  /\ \/ req[r].served /\ req[r].ok /\ Load(r, token) /\ UNCHANGED token
     \/ (Failures \/ (req[r].served /\ ~req[r].ok)) /\ token' = None /\ Done(r) /\ UNCHANGED table
  /\ UNCHANGED <<server, form, detail, chat, clicks>>

\* /auth/me told that the token is live; any failure, a timeout too, removes the
\* token, whichever is there by now.
EndMe(r) ==
  /\ req[r].kind = "me"
  /\ \/ req[r].served /\ req[r].ok /\ UNCHANGED token
     \/ (Failures \/ (req[r].served /\ ~req[r].ok)) /\ token' = None
  /\ Load(r, token')
  /\ UNCHANGED <<server, form, detail, chat, clicks>>

-----------------------------------------------------------------------------
(* The table                                                               *)

\* A tab is opened, the search is cleared, or "My agents only" is clicked.
OpenTab(r) ==
  /\ Click /\ Free(r)
  /\ Load(r, token)
  /\ UNCHANGED <<server, token, form, detail, chat>>

\* searchAgents writes the same table.
Search(r) ==
  /\ Click /\ Free(r)
  /\ Table = "agents"
  /\ Send(r, Ask("search", token))
  /\ table' = Shows("loading")
  /\ UNCHANGED <<server, token, form, detail, chat>>

\* A row of agents is made when its own figures arrive, or fail to; its buttons
\* are for the token that is there at that time.
MakeRow(r, i) ==
  /\ req[r].kind = "list" /\ req[r].served
  /\ i \in DOMAIN req[r].rows \ req[r].made
  /\ Send(r, [req[r] EXCEPT !.made = @ \union {i},
                            !.offers = IF CanMutate THEN @ \union {i} ELSE @])
  /\ UNCHANGED <<server, token, table, form, detail, chat, clicks>>

\* The rows are shown together; those of a search have no buttons.
EndList(r) ==
  /\ req[r].kind \in {"list", "search"} /\ req[r].served
  /\ req[r].kind = "list" => req[r].made = DOMAIN req[r].rows
  /\ table' = [state |-> "shown", rows |-> req[r].rows, offers |-> req[r].offers]
  /\ Done(r)
  /\ UNCHANGED <<server, token, form, detail, chat, clicks>>

EndListFailed(r) ==
  /\ req[r].kind \in {"list", "search"} /\ req[r].made = {} /\ Failures
  /\ table' = Shows("error")
  /\ Done(r)
  /\ UNCHANGED <<server, token, form, detail, chat, clicks>>

\* The button sets the status that the row did not have when it was rendered.
Toggle(r, i) ==
  /\ Click /\ Free(r)
  /\ i \in table.offers
  /\ \E s \in Statuses \ {table.rows[i]} :
       Send(r, [Ask("toggle", token) EXCEPT !.item = i, !.status = s])
  /\ UNCHANGED <<server, token, table, form, detail, chat>>

\* The tables are loaded again if the registry did it; else an alert is shown.
EndToggle(r) ==
  /\ req[r].kind = "toggle"
  /\ \/ req[r].served /\ req[r].ok /\ Load(r, token)
     \/ (Failures \/ (req[r].served /\ ~req[r].ok)) /\ Done(r) /\ UNCHANGED table
  /\ UNCHANGED <<server, token, form, detail, chat, clicks>>

-----------------------------------------------------------------------------
(* The form                                                                *)

\* The row is read again; the form opens when the answer comes.
Edit(r, i) ==
  /\ Click /\ Free(r)
  /\ i \in table.offers
  /\ Send(r, [Ask("edit", token) EXCEPT !.item = i])
  /\ UNCHANGED <<server, token, table, form, detail, chat>>

EndEdit(r) ==
  /\ req[r].kind = "edit"
  /\ \/ req[r].served
        /\ form' = [open |-> TRUE, id |-> req[r].item, of |-> req[r].item, status |-> req[r].status]
     \/ Failures /\ UNCHANGED form
  /\ Done(r)
  /\ UNCHANGED <<server, token, table, detail, chat, clicks>>

\* Wrong on purpose: the hidden field, which form.reset() leaves alone, keeps the
\* id of the row that was edited last.
AddKeepingId ==
  /\ Click
  /\ token # None
  /\ form' = [NoForm EXCEPT !.open = TRUE, !.id = form.id]
  /\ UNCHANGED <<server, token, req, table, detail, chat>>

\* The form opens empty.
Add ==
  /\ Click
  /\ token # None
  /\ form' = [NoForm EXCEPT !.open = TRUE]
  /\ UNCHANGED <<server, token, req, table, detail, chat>>

Cancel ==
  /\ form.open
  /\ form' = [form EXCEPT !.open = FALSE]
  /\ UNCHANGED <<server, token, req, table, detail, chat, clicks>>

\* All fields are sent: a PUT if the form has an id, else a POST.
Submit(r) ==
  /\ Click /\ Free(r)
  /\ form.open
  /\ Send(r, [Ask("save", token) EXCEPT !.item = form.id, !.of = form.of, !.status = form.status])
  /\ UNCHANGED <<server, token, table, form, detail, chat>>

\* Saved: whatever form is open is hidden and reset, its hidden id apart.
EndSave(r) ==
  /\ req[r].kind = "save"
  /\ \/ /\ req[r].served /\ req[r].ok
        /\ form' = [NoForm EXCEPT !.id = form.id]
        /\ Load(r, token)
     \/ (Failures \/ (req[r].served /\ ~req[r].ok)) /\ Done(r) /\ UNCHANGED <<form, table>>
  /\ UNCHANGED <<server, token, detail, chat, clicks>>

-----------------------------------------------------------------------------
(* The modal of an agent                                                   *)

\* All parts are cleared, and four requests are sent.
OpenDetail(r, i) ==
  /\ Click /\ Free(r)
  /\ table.state = "shown" /\ i \in DOMAIN table.rows
  /\ detail' = [NoDetail EXCEPT !.meta = i]
  /\ Send(r, [Ask("detail", token) EXCEPT !.item = i])
  /\ UNCHANGED <<server, token, table, form, chat>>

\* Wrong on purpose: a part whose own request failed keeps what it shows.
EndDetailKeeping(r, found, figures) ==
  /\ req[r].kind = "detail"
  /\ detail' = LET i == req[r].item IN
               IF ~found THEN [detail EXCEPT !.name = "not found"]
               ELSE IF figures THEN [name |-> i, meta |-> i, metrics |-> i, spark |-> i]
               ELSE [detail EXCEPT !.name = i, !.meta = i]
  /\ Done(r)
  /\ UNCHANGED <<server, token, table, form, chat, clicks>>

\* The four are settled.  Without the agent only the name is written; without
\* figures the part for them says that there are none, and the sparkline above
\* it is left as it is.
EndDetail(r, found, figures) ==
  /\ req[r].kind = "detail"
  /\ Failures \/ (found /\ figures)
  /\ detail' = LET i == req[r].item IN
               IF ~found THEN [detail EXCEPT !.name = "not found"]
               ELSE IF figures THEN [name |-> i, meta |-> i, metrics |-> i, spark |-> i]
               ELSE [detail EXCEPT !.name = i, !.meta = i, !.metrics = None]
  /\ Done(r)
  /\ UNCHANGED <<server, token, table, form, chat, clicks>>

-----------------------------------------------------------------------------
(* The chat                                                                *)

\* The panel opens; if it has no lines, an empty message makes the agent greet.
OpenChat(r) ==
  /\ Click /\ Free(r)
  /\ ~chat.greeted
  /\ chat' = [chat EXCEPT !.greeted = TRUE]
  /\ Send(r, [Ask("chat", token) EXCEPT !.session = chat.session])
  /\ UNCHANGED <<server, token, table, form, detail>>

Say(r) ==
  /\ Click /\ Free(r)
  /\ chat.greeted
  /\ Send(r, [Ask("chat", token) EXCEPT !.session = chat.session])
  /\ UNCHANGED <<server, token, table, form, detail, chat>>

\* The lines are removed, and the panel opens with a new session id.
NewSession(r) ==
  /\ Click /\ Free(r)
  /\ chat.greeted
  /\ chat' = [session |-> chat.session + 1, greeted |-> TRUE, replies |-> {}]
  /\ Send(r, [Ask("chat", token) EXCEPT !.session = chat.session + 1])
  /\ UNCHANGED <<server, token, table, form, detail>>

\* The reply, or the error, is appended to the lines that are there.
EndChat(r) ==
  /\ req[r].kind = "chat"
  /\ chat' \in {chat, [chat EXCEPT !.replies = @ \union {req[r].session}]}
  /\ Failures \/ chat' # chat \/ req[r].session \in chat.replies
  /\ Done(r)
  /\ UNCHANGED <<server, token, table, form, detail, clicks>>

-----------------------------------------------------------------------------
(* The registry                                                            *)

\* GET /agents tells all rows, GET /mcp the active ones unless all are asked for,
\* GET /auth/me whether the token is live.
ServeRead(r) ==
  /\ ~req[r].served
  /\ \/ /\ req[r].kind \in {"list", "search"}
        /\ LET told == {i \in Items : req[r].kind = "search" \/ req[r].all \/ status[i] = "active"}
           IN  Send(r, [req[r] EXCEPT !.served = TRUE, !.rows = [i \in told |-> status[i]]])
     \/ /\ req[r].kind = "edit"
        /\ Send(r, [req[r] EXCEPT !.served = TRUE, !.status = status[req[r].item]])
     \/ /\ req[r].kind = "me"
        /\ Send(r, [req[r] EXCEPT !.served = TRUE, !.ok = (req[r].tok \in live)])
  /\ UNCHANGED <<server, token, table, form, detail, chat, clicks>>

\* PUT writes the columns it is given, if the token may; a row that POST makes is
\* none of Items.
ServeWrite(r) ==
  LET i == req[r].item
      ok == IF i = None THEN MayAdd(req[r].tok) ELSE MayChange(req[r].tok)
  IN  /\ req[r].kind \in {"save", "toggle"} /\ ~req[r].served
      /\ Send(r, [req[r] EXCEPT !.served = TRUE, !.ok = ok])
      /\ status' = IF ok /\ i # None THEN [status EXCEPT ![i] = req[r].status] ELSE status
      /\ UNCHANGED <<live, token, table, form, detail, chat, clicks>>

\* Another client changes a row.
Elsewhere(i) ==
  /\ Others /\ Click
  /\ \E s \in Statuses \ {status[i]} : status' = [status EXCEPT ![i] = s]
  /\ UNCHANGED <<live, token, req, table, form, detail, chat>>

\* Another client revokes a token.
Revoke(t) ==
  /\ Others /\ Click
  /\ t \in live /\ live' = live \ {t}
  /\ UNCHANGED <<status, token, req, table, form, detail, chat>>

-----------------------------------------------------------------------------

\* What the page does when an answer comes, or when none came in 20 s.
Settle(r) ==
  \/ EndConfig(r) \/ EndMe(r) \/ EndList(r) \/ EndListFailed(r)
  \/ EndToggle(r) \/ EndEdit(r) \/ EndSave(r) \/ EndChat(r)
  \/ \E found, figures \in BOOLEAN : EndDetail(r, found, figures)
  \/ \E i \in Items : MakeRow(r, i)

Next ==
  \/ \E r \in Slots :
       \/ Settle(r) \/ ServeRead(r) \/ ServeWrite(r)
       \/ Reload(r) \/ OpenTab(r) \/ Search(r) \/ Submit(r)
       \/ OpenChat(r) \/ Say(r) \/ NewSession(r)
       \/ \E t \in Tokens \union {None} : SaveToken(r, t)
       \/ \E i \in Items : Toggle(r, i) \/ Edit(r, i) \/ OpenDetail(r, i)
  \/ Add \/ Cancel
  \/ \E i \in Items : Elsewhere(i)
  \/ \E t \in Tokens : Revoke(t)

Spec == Init /\ [][Next]_vars

\* fetch settles within 20 s (30 s in the chat), and its handler runs.  The
\* registry need not answer.
Fairness == \A r \in Slots : WF_vars(Settle(r))
FairSpec == Spec /\ Fairness
-----------------------------------------------------------------------------
(* Properties                                                              *)

\* What is saved under the id of a row came from that row (app.js:900): the form
\* takes its fields and its hidden id from one answer, however the answers that
\* open, hide and reset it are ordered, and adding never overwrites.
SavesWhatWasShown ==
  \A r \in Slots : req[r].kind = "save" => req[r].of = req[r].item

\* Whatever agents are opened one after the other and in whatever order their
\* answers come (app.js:750), the name, the id and the parts that every answer
\* writes are never those of two agents.  (The sparkline may be: SparklineAgrees.)
DetailAgrees ==
  LET shown == {detail.name, detail.meta, detail.metrics} \intersect Items
  IN  \A i, j \in shown : i = j

\* The table is not left blank or at "Loading" (app.js:265): it comes to show rows
\* or an error, although loads overlap and the registry may never answer.
PageSettles == []<>(table.state \in {"shown", "error"})

-----------------------------------------------------------------------------
(* What the code does not promise                                          *)

Quiet == \A r \in Slots : Free(r)

\* "Refresh currentUser before re-rendering tables so row-level canMutate()
\* decisions reflect the new identity" (app.js:44).
OffersReflectIdentity == Quiet /\ table.offers # {} => MayChange(token)

\* Once nothing is under way, the table shows the rows as they are.
ShownIsCurrent == Quiet => \A i \in DOMAIN table.rows : table.rows[i] = status[i]

\* The modal shows one agent, or that there is none.
DetailIsWhole == detail.name = "not found" => detail.metrics = None /\ detail.spark = None

\* The sparkline is of the agent whose figures are shown.
SparklineAgrees == detail.spark \in {None, detail.metrics}

\* A save leaves a status that it was not filled with alone.
SavesUndoNothing ==
  [][\A r \in Slots :
       req[r].kind = "save" /\ req[r].item # None /\ ServeWrite(r) => status' = status]_vars

\* The lines of the chat are those of its session.
RepliesOfSession == chat.replies \subseteq {chat.session}
=============================================================================
