---------------------------- MODULE McpDirectory ----------------------------
(***************************************************************************)
(* The directory of MCP servers (src/routes/mcp.js): its rows, the audit   *)
(* rows about them, and a client that walks the pages of the listing.      *)
(*                                                                         *)
(* PUT reads the row, decides ownership, then awaits its body; everything  *)
(* after the await runs in one go.  Of the columns a body may give, "name" *)
(* stands for all that only PUT writes; category and transport, which only *)
(* narrow the listing, are among them.  Rows are never removed.            *)
(***************************************************************************)
EXTENDS Integers, Sequences, FiniteSets, SequencesExt

CONSTANTS
  Servers,           \* ids of MCP servers, each used at most once
  Users,             \* ids of users
  Texts,             \* values of the columns that are not a status
  Requests,          \* how many PUTs may await their bodies: one id each
  PageSize,          \* limit
  StatementsMayFail  \* whether a statement after the first may throw

Admin == "admin"     \* any caller for whom isAdmin holds
SYSTEM == "system"   \* SYSTEM_USER_ID, owner of what a token without user posts

ASSUME NamesAssumption ==
  /\ Admin \notin Users /\ SYSTEM \notin Users
  /\ "none" \notin Texts /\ "unknown" \notin Texts
ASSUME PageSizeAssumption == PageSize \in Nat \ {0}
ASSUME SwitchAssumption == StatementsMayFail \in BOOLEAN

VARIABLES
  row,     \* the columns of each server
  owner,   \* owner_user_id
  listing, \* the servers by created_at, newest first
  logged,  \* the columns as the audit rows, read in order, tell them (history)
  req,     \* PUTs that await their bodies, with what each read
  walk     \* a client's walk over the pages

vars == <<row, owner, listing, logged, req, walk>>

Statuses == {"active", "inactive"}
Absent == [name |-> "none", status |-> "none"]
Rows == [name : Texts, status : Statuses]
Idle == [op |-> "idle"]
PutJobs == [op : {"put"}, server : Servers, caller : Users \union {Admin}, before : Rows]
NoWalk == [page |-> 0, start |-> {}, seen |-> {}, departed |-> FALSE, done |-> FALSE]

\* What McpUpdateSchema lets through: any of the columns, or none.
Bodies == UNION {[D -> Texts \union Statuses] : D \in SUBSET {"name", "status"}}
Accepted ==
  {b \in Bodies : /\ "name" \in DOMAIN b => b["name"] \in Texts
                  /\ "status" \in DOMAIN b => b["status"] \in Statuses}

\* The columns of given are written over those of old.
Written(given, old) == [c \in DOMAIN old |-> IF c \in DOMAIN given THEN given[c] ELSE old[c]]

There(s) == row[s] # Absent
Listed == {s \in Servers : row[s].status = "active"}

TypeOK ==
  /\ row \in [Servers -> Rows \union {Absent}]
  /\ owner \in [Servers -> Users \union {SYSTEM, "none"}]
  /\ logged \in [Servers -> [name : Texts \union {"none", "unknown"},
                             status : Statuses \union {"none", "unknown"}]]
  /\ req \in [Requests -> PutJobs \union {Idle}]
  /\ ToSet(listing) = {s \in Servers : There(s)} /\ IsInjective(listing)
  /\ walk.page \in Nat /\ walk.start \subseteq Servers /\ walk.seen \subseteq Servers

Init ==
  /\ row = [s \in Servers |-> Absent]
  /\ owner = [s \in Servers |-> "none"]
  /\ listing = <<>>
  /\ logged = [s \in Servers |-> Absent]
  /\ req = [r \in Requests |-> Idle]
  /\ walk = NoWalk

-----------------------------------------------------------------------------
(* Writers                                                                 *)

\* The walk takes note of servers that leave the list under it (history).
Departures ==
  walk' = [walk EXCEPT !.departed = @ \/ \E s \in Servers : row[s].status = "active"
                                                           /\ row'[s].status = "inactive"]

\* The audit row about s, if its insert does not throw, tells the columns of
\* after.
Audit(s, after) ==
  \/ logged' = [logged EXCEPT ![s] = Written(after, @)]
  \/ /\ StatementsMayFail
     /\ logged' = [logged EXCEPT ![s] = Written([c \in DOMAIN after |-> "unknown"], @)]

\* The new row comes first, or behind any number of others of the same second.
Inserted(s) == {InsertAt(listing, i, s) : i \in 1..(Len(listing) + 1)}

\* The audit row of a POST leaves out the status, which the schema makes active.
PostServer(s, poster, n) ==
  /\ ~There(s)
  /\ row' = [row EXCEPT ![s] = [name |-> n, status |-> "active"]]
  /\ owner' = [owner EXCEPT ![s] = poster]
  /\ listing' \in Inserted(s)
  /\ Audit(s, row'[s])
  /\ UNCHANGED <<req, walk>>

\* requireOwnerOrAdmin
Permitted(caller, s) == caller = Admin \/ caller = owner[s]

\* PUT reads the row and checks the caller, then awaits the body.
StartPut(r, s, caller) ==
  /\ req[r] = Idle
  /\ There(s)
  /\ Permitted(caller, s)
  /\ req' = [req EXCEPT ![r] = [op |-> "put", server |-> s, caller |-> caller, before |-> row[s]]]
  /\ UNCHANGED <<row, owner, listing, logged, walk>>

\* Wrong on purpose: the whole row is written, from the row that was read.
EndPutWholeRow(r, body) ==
  LET s == req[r].server IN
  /\ req[r].op = "put"
  /\ req' = [req EXCEPT ![r] = Idle]
  /\ row' = [row EXCEPT ![s] = Written(body, req[r].before)]
  /\ Audit(s, row'[s])
  /\ Departures
  /\ UNCHANGED <<owner, listing>>

\* Wrong on purpose: the audit row tells the row that was read, and the body.
EndPutAuditingBody(r, body) ==
  LET s == req[r].server IN
  /\ req[r].op = "put"
  /\ req' = [req EXCEPT ![r] = Idle]
  /\ row' = [row EXCEPT ![s] = Written(body, @)]
  /\ Audit(s, Written(body, req[r].before))
  /\ Departures
  /\ UNCHANGED <<owner, listing>>

\* The columns of the body are written, the row is read again for the audit
\* row.  The UPDATE may throw, and nothing is written; or the SELECT after it,
\* and the change is not audited.  A body that is refused writes nothing.
EndPut(r, body) ==
  LET s == req[r].server IN
  /\ req[r].op = "put"
  /\ req' = [req EXCEPT ![r] = Idle]
  /\ \/ /\ row' = [row EXCEPT ![s] = Written(body, @)]
        /\ Audit(s, row'[s])
     \/ UNCHANGED <<row, logged>>
     \/ /\ StatementsMayFail
        /\ row' = [row EXCEPT ![s] = Written(body, @)]
        /\ logged' = [logged EXCEPT ![s] = Written([c \in DOMAIN body |-> "unknown"], @)]
  /\ Departures
  /\ UNCHANGED <<owner, listing>>

\* DELETE marks the row; its audit row tells the status only.
DeleteServer(s, caller) ==
  /\ There(s) /\ Permitted(caller, s)
  /\ row' = [row EXCEPT ![s].status = "inactive"]
  /\ Audit(s, [status |-> "inactive"])
  /\ Departures
  /\ UNCHANGED <<owner, listing, req>>

-----------------------------------------------------------------------------
(* A walk over GET /mcp?page=1, 2, ...                                     *)

\* The rows that an OFFSET skips to come to s: the listed ones before it.
Before(t, s) == \E i, j \in DOMAIN listing : i < j /\ listing[i] = t /\ listing[j] = s
Offset(s) == Cardinality({t \in Listed : Before(t, s)})

\* Wrong on purpose: pages are counted from 0.
PageFromZero(n) == {s \in Listed : Offset(s) \in (n * PageSize)..((n + 1) * PageSize - 1)}

\* The rows at OFFSET (page - 1) * limit, counted when the page is asked for.
Page(n) == {s \in Listed : Offset(s) \in ((n - 1) * PageSize)..(n * PageSize - 1)}

\* The client asks for pages until it has been told as many rows as total.
ReadPage ==
  /\ ~walk.done
  /\ walk' = [page |-> walk.page + 1,
              start |-> IF walk.page = 0 THEN Listed ELSE walk.start,
              seen |-> walk.seen \union Page(walk.page + 1),
              departed |-> walk.departed /\ walk.page > 0,
              done |-> (walk.page + 1) * PageSize >= Cardinality(Listed)]
  /\ UNCHANGED <<row, owner, listing, logged, req>>

EndWalk ==
  /\ walk.done
  /\ walk' = NoWalk
  /\ UNCHANGED <<row, owner, listing, logged, req>>

\* PUTs that await their bodies are lost.
Restart ==
  /\ req' = [r \in Requests |-> Idle]
  /\ UNCHANGED <<row, owner, listing, logged, walk>>

Next ==
  \/ \E s \in Servers :
       \/ \E p \in Users \union {SYSTEM}, n \in Texts : PostServer(s, p, n)
       \/ \E caller \in Users \union {Admin} :
            \/ \E r \in Requests : StartPut(r, s, caller)
            \/ DeleteServer(s, caller)
  \/ \E r \in Requests, body \in Accepted : EndPut(r, body)
  \/ ReadPage
  \/ EndWalk
  \/ Restart

Spec == Init /\ [][Next]_vars
-----------------------------------------------------------------------------
(* Properties                                                              *)

\* Whoever reads the audit rows of a server in order knows its name and its
\* status (mcp.js:206 and 239), however PUTs and DELETEs overlap: each row tells
\* the columns as they are once the change is made.  Only a throwing statement
\* leaves a column unknown.
LogTellsState ==
  \A s \in Servers, c \in {"name", "status"} : logged[s][c] \in {row[s][c], "unknown"}

\* A PUT that waits for its body was admitted on a row read earlier (mcp.js:168);
\* its caller is still one who may change that row when the body comes.
AdmittedStillMay == \A r \in Requests : req[r] = Idle \/ Permitted(req[r].caller, req[r].server)

\* A deleted server stays away unless a body says it is active: a PUT that was
\* on its way when the server was deleted and gives other columns only (mcp.js:188)
\* leaves it deleted.
RevivedOnRequest ==
  [][\A s \in Servers :
       row[s].status = "inactive" /\ row'[s].status # "inactive" =>
         \E r \in Requests :
           /\ req[r] # Idle /\ req[r].server = s
           /\ \E b \in Accepted : EndPut(r, b)
           /\ \A b \in Accepted : EndPut(r, b) => "status" \in DOMAIN b]_vars

\* A client that walks the pages (mcp.js:75) is told every server that was
\* listed when it began, whatever is registered, renamed or revived meanwhile,
\* as long as none leaves the list under it.
WalkIsComplete == walk.done /\ ~walk.departed => walk.start \subseteq walk.seen

-----------------------------------------------------------------------------
(* What the code does not promise                                          *)

\* Each audit row of a PUT tells as before what the row before it told as after.
BeforeIsLastAfter ==
  [][\A r \in Requests, b \in Accepted :
       EndPut(r, b) /\ req[r] # Idle => req[r].before = logged[req[r].server]]_vars

\* A walk is complete whatever leaves the list meanwhile.
WalkNeverSkips ==
  walk.done => \A s \in walk.start : row[s].status = "active" => s \in walk.seen
=============================================================================
