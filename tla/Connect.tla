------------------------------- MODULE Connect -------------------------------
(***************************************************************************)
(* The built-in onboarding agent (src/connect-agent.js): conversations     *)
(* that collect the fields of an agent and register it.                    *)
(*                                                                         *)
(* A turn loads the session's row, asks the language model when there is   *)
(* one (an await), falls back on the state machine, registers the agent    *)
(* when told to (an await, for the embedding) and saves the whole row it   *)
(* loaded.  Turns of one session may overlap.                              *)
(*                                                                         *)
(* A message is what the state it meets makes of it, a field how well it   *)
(* is filled; the intent, the wording and the "agent:" prefix of the state *)
(* names are left out.  An absent row is a session at its start.  The      *)
(* model is asked to keep prior values; nothing makes it: what it returns  *)
(* is spread over the fields, the blank ones included.                     *)
(***************************************************************************)
EXTENDS Naturals, Sequences

CONSTANTS
  Sessions,          \* session ids
  Requests,          \* how many turns may be suspended: one id each
  HasLLM,            \* PROVIDER_HAS_LLM()
  StatementsMayFail, \* whether a statement after the embedding may throw
  ProcessMayStop,    \* whether the process may be restarted
  MaxAgents          \* bound on the agents one session registers

ASSUME SwitchesAssumption ==
  HasLLM \in BOOLEAN /\ StatementsMayFail \in BOOLEAN /\ ProcessMayStop \in BOOLEAN
ASSUME MaxAgentsAssumption == MaxAgents \in Nat \ {0}

VARIABLES
  session, \* connect_sessions: state and collected
  created, \* how many agents each session registered (history)
  told,    \* how each session was told that it ended (history)
  req      \* turns suspended at an await, with the row each loaded

vars == <<session, created, told, req>>

AgentFields == <<"name", "description", "provider", "endpoint_url", "capabilities">>
Fields == {AgentFields[i] : i \in 1..5}
States == Fields \union {"start", "mcp_not_implemented", "review", "done"}

\* A field is not there or blank, filled, or filled in a way that POST /agents
\* would refuse: a description under 20 characters, an endpoint that is no URL.
Quality == {"unset", "weak", "good"}
Rows == [state : States, collected : [Fields -> Quality]]
NewRow == [state |-> "start", collected |-> [f \in Fields |-> "unset"]]

Messages ==
  {"empty", "agent", "mcp", "yes", "no", "none", "url", "loose url", "long", "other"}

Idle == [op |-> "idle"]
AskingJobs == [op : {"ask model"}, session : Sessions, message : Messages, row : Rows]
SubmitJobs == [op : {"submit"}, session : Sessions, row : Rows, ok : BOOLEAN]

TypeOK ==
  /\ session \in [Sessions -> Rows]
  /\ created \in [Sessions -> 0..MaxAgents]
  /\ told \in [Sessions -> SUBSET {"registered", "cancelled"}]
  /\ req \in [Requests -> AskingJobs \union SubmitJobs \union {Idle}]

Init ==
  /\ session = [s \in Sessions |-> NewRow]
  /\ created = [s \in Sessions |-> 0]
  /\ told = [s \in Sessions |-> {}]
  /\ req = [r \in Requests |-> Idle]

-----------------------------------------------------------------------------
(* Steps: what a turn decides, and the row it goes on with                 *)

At(row, st) == [row EXCEPT !.state = st]
Ask(row) == [action |-> "ask", row |-> row]

\* Wrong on purpose: a cancelled session is also emptied.
CancelEmptying(row) == [action |-> "cancel", row |-> At(NewRow, "done")]
Cancel(row) == [action |-> "cancel", row |-> At(row, "done")]

Submit(row) == [action |-> "submit", row |-> row]

\* The messages each field's validator accepts, and what is stored of them.
Accepted ==
  [name |-> Messages \ {"empty"}, description |-> {"long"},
   provider |-> Messages \ {"empty"}, endpoint_url |-> {"none", "url", "loose url"},
   capabilities |-> Messages]

\* Wrong on purpose: "none" is stored as it was typed.
StoredAsTyped(f, m) == IF f = "endpoint_url" THEN m ELSE "good"

Stored(f, m) ==
  IF f # "endpoint_url" THEN "good"
  ELSE IF m = "none" THEN "unset" ELSE IF m = "url" THEN "good" ELSE "weak"

NextState ==
  [name |-> "description", description |-> "provider", provider |-> "endpoint_url",
   endpoint_url |-> "capabilities", capabilities |-> "review"]

\* Wrong on purpose: an invalid answer moves on to the next field as well.
FillAnyway(row, m) ==
  IF m \in Accepted[row.state]
  THEN Ask([state |-> NextState[row.state],
            collected |-> [row.collected EXCEPT ![row.state] = Stored(row.state, m)]])
  ELSE Ask(At(row, NextState[row.state]))

Fill(row, m) ==
  IF m \in Accepted[row.state]
  THEN Ask([state |-> NextState[row.state],
            collected |-> [row.collected EXCEPT ![row.state] = Stored(row.state, m)]])
  ELSE Ask(row)

Confirm(row, m) ==
  IF m = "yes" THEN Submit(row) ELSE IF m = "no" THEN Cancel(row) ELSE Ask(row)

\* The start, and what the state machine falls back to.
Begin(row, m) ==
  Ask(At(row, IF m = "mcp" THEN "mcp_not_implemented"
              ELSE IF m = "agent" THEN "name" ELSE "start"))

\* Wrong on purpose: a session that is done starts again.
ReopeningMachine(row, m) ==
  CASE row.state \in Fields   -> Fill(row, m)
    [] row.state = "review"   -> Confirm(row, m)
    [] OTHER                  -> Begin(row, m)

StateMachine(row, m) ==
  CASE row.state \in Fields   -> Fill(row, m)
    [] row.state = "review"   -> Confirm(row, m)
    [] row.state = "done"     -> Ask(row)
    [] OTHER                  -> Begin(row, m)

\* The first field without a value; the first of all when there is none.
Missing(c) == {i \in 1..5 : c[AgentFields[i]] = "unset"}
NextMissing(c) ==
  IF Missing(c) = {} THEN "name"
  ELSE AgentFields[CHOOSE i \in Missing(c) : \A j \in Missing(c) : i <= j]

\* What the model may make of a turn: it sets, changes or blanks any field, with
\* no validator in between, and picks a next state.
ModelSteps ==
  UNION {{Submit([state |-> "review", collected |-> c]),
          Ask([state |-> "review", collected |-> c]),
          Ask([state |-> "done", collected |-> c]),
          Ask([state |-> NextMissing(c), collected |-> c])} : c \in [Fields -> Quality]}

-----------------------------------------------------------------------------
(* Turns                                                                   *)

Free(r) == req[r] = Idle
Answer(r) == req' = [req EXCEPT ![r] = Idle]
Save(s, row) == session' = [session EXCEPT ![s] = row]

\* The checks of performSubmission.
Submittable(c) == c["name"] # "unset" /\ c["description"] = "good" /\ c["provider"] # "unset"

\* Wrong on purpose: the session is saved as done before the agent is there.
SaveDoneFirst(r, s, row) ==
  /\ created[s] < MaxAgents
  /\ Save(s, At(row, "done"))
  /\ req' = [req EXCEPT ![r] = [op |-> "submit", session |-> s, row |-> row,
                                ok |-> Submittable(row.collected)]]
  /\ UNCHANGED <<created, told>>

\* Wrong on purpose: the checks' errors are swallowed.
SwallowErrors(r, s, row) ==
  /\ created[s] < MaxAgents
  /\ created' = [created EXCEPT ![s] = @ + (IF Submittable(row.collected) THEN 1 ELSE 0)]
  /\ req' = [req EXCEPT ![r] = [op |-> "submit", session |-> s, row |-> row, ok |-> TRUE]]
  /\ UNCHANGED <<session, told>>

\* performSubmission inserts the agent and awaits the embedding, or throws.
StartSubmission(r, s, row) ==
  /\ created[s] < MaxAgents
  /\ created' = [created EXCEPT ![s] = @ + (IF Submittable(row.collected) THEN 1 ELSE 0)]
  /\ req' = [req EXCEPT ![r] = [op |-> "submit", session |-> s, row |-> row,
                                ok |-> Submittable(row.collected)]]
  /\ UNCHANGED <<session, told>>

\* The rest of handle, once the turn is decided.
Carry(r, s, step) ==
  IF step.action = "submit" THEN StartSubmission(r, s, step.row)
  ELSE /\ Save(s, step.row)
       /\ told' = IF step.action = "cancel"
                  THEN [told EXCEPT ![s] = @ \union {"cancelled"}] ELSE told
       /\ Answer(r)
       /\ UNCHANGED created

\* A turn without a model: one step up to the submission.
Turn(r, s, m) ==
  /\ ~HasLLM
  /\ Free(r)
  /\ Carry(r, s, StateMachine(session[s], m))

\* With one: the row is loaded and the model is asked.
AskModel(r, s, m) ==
  /\ HasLLM
  /\ Free(r)
  /\ req' = [req EXCEPT ![r] = [op |-> "ask model", session |-> s, message |-> m,
                                row |-> session[s]]]
  /\ UNCHANGED <<session, created, told>>

ModelAnswers(r) ==
  /\ req[r].op = "ask model"
  /\ \E step \in ModelSteps : Carry(r, req[r].session, step)

ModelFails(r) ==
  /\ req[r].op = "ask model"
  /\ Carry(r, req[r].session, StateMachine(req[r].row, req[r].message))

\* The submission ends: card and audit row are written, or a statement throws
\* and the session bounces back to its review.
EndSubmission(r, fails) ==
  LET j == req[r]
      ok == j.ok /\ ~fails IN
  /\ j.op = "submit"
  /\ fails => StatementsMayFail
  /\ Save(j.session, At(j.row, IF ok THEN "done" ELSE "review"))
  /\ told' = IF ok THEN [told EXCEPT ![j.session] = @ \union {"registered"}] ELSE told
  /\ Answer(r)
  /\ UNCHANGED created

\* Suspended turns are lost; the rows stay.
Restart ==
  /\ ProcessMayStop
  /\ req' = [r \in Requests |-> Idle]
  /\ UNCHANGED <<session, created, told>>

Next ==
  \/ \E r \in Requests :
       \/ \E s \in Sessions, m \in Messages : Turn(r, s, m) \/ AskModel(r, s, m)
       \/ ModelAnswers(r)
       \/ ModelFails(r)
       \/ \E fails \in BOOLEAN : EndSubmission(r, fails)
  \/ Restart

Spec == Init /\ [][Next]_vars
-----------------------------------------------------------------------------
(* Safety                                                                  *)

\* runStateMachine only lets a session with every required field reach its
\* review, and performSubmission's checks never fail on what it hands over,
\* however the turns of the session overlap and whenever the process stops.
ReviewIsComplete ==
  /\ \A s \in Sessions :
       session[s].state = "review" => Submittable(session[s].collected)
  /\ \A r \in Requests : req[r].op = "submit" => req[r].ok

\* A session that is done stays done: no turn that loaded it earlier saves an
\* older state over it (saveSession replaces the whole row).
DoneIsFinal ==
  [][\A s \in Sessions : session[s].state = "done" => session'[s].state = "done"]_vars

\* A session is done because its agent was registered or because its user was
\* told that it is cancelled.
DoneIsExplained ==
  \A s \in Sessions :
    session[s].state = "done" => created[s] > 0 \/ "cancelled" \in told[s]

\* A submission saves the whole row it was given before it awaited the
\* embedding; whatever other turns did to its session meanwhile, no field of the
\* session has changed, so that nothing is lost by it.
SubmissionsAreCurrent ==
  \A r \in Requests :
    req[r].op = "submit" => session[req[r].session].collected = req[r].row.collected

\* A turn answered "completed", with the id of the agent, did register one.
ToldIsRegistered ==
  \A s \in Sessions : "registered" \in told[s] => created[s] > 0

\* connect-agent.js:277, "Start a new session (pass a new session_id) to
\* register another": a session registers at most one agent.
RegisteredOnce == \A s \in Sessions : created[s] <= 1

\* connect-agent.js:268, "Cancelled. Nothing was created.": when a session is
\* told so it has registered no agent.
NothingCreated ==
  [][\A s \in Sessions :
       "cancelled" \in told'[s] \ told[s] => created[s] = 0]_vars

-----------------------------------------------------------------------------
(* What a comment says and the code does not do                            *)

\* connect-agent.js:396, "Final validation through the same gates the route
\* uses": an agent is registered only if POST /agents would accept it.
SameGates ==
  [][\A r \in Requests, s \in Sessions :
       created'[s] > created[s] /\ req'[r] # req[r] =>
         req'[r].row.collected["endpoint_url"] # "weak"]_vars

\* migrations/007_connect_agent.sql:11, "collected is a JSON blob of the fields
\* the user has provided so far": a saved row has every field saved before (the
\* endpoint aside, which the user may take back).
FieldsAccumulate ==
  [][\A s \in Sessions, f \in Fields \ {"endpoint_url"} :
       session[s].collected[f] # "unset" => session'[s].collected[f] # "unset"]_vars
=============================================================================
