--------------------------- MODULE Connect_proofs ---------------------------
(***************************************************************************)
(* Proofs about Connect, for every set of sessions and requests: with a    *)
(* model or without one its variables keep their types and who is told of  *)
(* a registration has one.  Without one, turns may overlap, statements     *)
(* throw and the process stop: no field is lost, and submissions are       *)
(* current.  If no statement throws, reviews are complete, and done        *)
(* sessions stay done and are explained.  If nothing else goes wrong       *)
(* either, conversations whose turns do not overlap register one agent.    *)
(***************************************************************************)
EXTENDS Connect, TLAPS

Jobs == AskingJobs \union SubmitJobs \union {Idle}

LEMMA FieldNames ==
  /\ Fields = {"name", "description", "provider", "endpoint_url", "capabilities"}
  /\ \A i \in 1..5 : AgentFields[i] \in Fields
<1>1. 1..5 = {1, 2, 3, 4, 5}
    OBVIOUS
<1> QED BY <1>1 DEF Fields, AgentFields

\* What a step decides is an action and a row.
IsStep(step) == step.action \in {"ask", "cancel", "submit"} /\ step.row \in Rows

LEMMA FillType ==
  ASSUME NEW row \in Rows, NEW m \in Messages, row.state \in Fields
  PROVE  IsStep(Fill(row, m))
<1>1. NextState[row.state] \in States
    BY FieldNames DEF NextState, States
<1>2. Stored(row.state, m) \in Quality
    BY DEF Stored, Quality
<1>3. [row.collected EXCEPT ![row.state] = Stored(row.state, m)] \in [Fields -> Quality]
    BY <1>2 DEF Rows
<1> QED BY <1>1, <1>3 DEF IsStep, Fill, Ask, Rows

LEMMA MachineType ==
  ASSUME NEW row \in Rows, NEW m \in Messages
  PROVE  IsStep(StateMachine(row, m))
<1>1. CASE row.state \in Fields
    BY <1>1, FillType, FieldNames DEF StateMachine
<1>2. CASE row.state = "review"
  <2>1. row.state \notin Fields
      BY <1>2, FieldNames
  <2>2. IsStep(Confirm(row, m))
      BY DEF Confirm, Submit, Cancel, Ask, At, IsStep, Rows, States
  <2> QED BY <1>2, <2>1, <2>2 DEF StateMachine
<1>3. CASE row.state = "done"
  <2>1. row.state \notin Fields
      BY <1>3, FieldNames
  <2> QED BY <1>3, <2>1 DEF StateMachine, Ask, IsStep
<1>4. CASE row.state \notin Fields \union {"review", "done"}
  <2>1. IsStep(Begin(row, m))
      BY FieldNames DEF Begin, Ask, At, IsStep, Rows, States
  <2> QED BY <1>4, <2>1 DEF StateMachine
<1> QED BY <1>1, <1>2, <1>3, <1>4

LEMMA ModelType ==
  ASSUME NEW step \in ModelSteps
  PROVE  IsStep(step)
<1>1. PICK c \in [Fields -> Quality] :
        step \in {Submit([state |-> "review", collected |-> c]),
                  Ask([state |-> "review", collected |-> c]),
                  Ask([state |-> "done", collected |-> c]),
                  Ask([state |-> NextMissing(c), collected |-> c])}
    BY DEF ModelSteps
<1>2. NextMissing(c) \in Fields
  <2>1. CASE Missing(c) = {}
      BY <2>1, FieldNames DEF NextMissing
  <2>2. CASE Missing(c) # {}
    <3>1. \E i \in Missing(c) : \A j \in Missing(c) : i <= j
      <4>1. 1 \in Missing(c) \/ 2 \in Missing(c) \/ 3 \in Missing(c)
              \/ 4 \in Missing(c) \/ 5 \in Missing(c)
          BY <2>2 DEF Missing
      <4>2. \A j \in Missing(c) : j \in Nat /\ j >= 1
          BY DEF Missing
      <4> QED BY <4>1, <4>2
    <3>2. (CHOOSE i \in Missing(c) : \A j \in Missing(c) : i <= j) \in 1..5
        BY <3>1 DEF Missing
    <3> QED BY <2>2, <3>2, FieldNames DEF NextMissing
  <2> QED BY <2>1, <2>2
<1>3. /\ [state |-> "review", collected |-> c] \in Rows
      /\ [state |-> "done", collected |-> c] \in Rows
      /\ [state |-> NextMissing(c), collected |-> c] \in Rows
    BY <1>2 DEF Rows, States
<1> QED BY <1>1, <1>3 DEF Submit, Ask, IsStep

\* A suspended turn knows its session and the row it loaded.
LEMMA Suspended ==
  ASSUME TypeOK, NEW r \in Requests
  PROVE  /\ req[r].op = "ask model" => req[r] \in AskingJobs
         /\ req[r].op = "submit" => req[r] \in SubmitJobs
<1>1. req[r] \in AskingJobs \union SubmitJobs \union {Idle}
    BY DEF TypeOK
<1>2. \A j \in AskingJobs : j.op = "ask model"
    BY DEF AskingJobs
<1>3. \A j \in SubmitJobs : j.op = "submit"
    BY DEF SubmitJobs
<1>4. Idle.op = "idle"
    BY DEF Idle
<1> QED BY <1>1, <1>2, <1>3, <1>4

LEMMA InFlight ==
  ASSUME TypeOK, NEW r \in Requests, req[r].op \in {"ask model", "submit"}
  PROVE  req[r] # Idle /\ req[r].session \in Sessions /\ req[r].row \in Rows
<1>1. Idle.op = "idle"
    BY DEF Idle
<1> QED BY <1>1, Suspended DEF AskingJobs, SubmitJobs

LEMMA CarryType ==
  ASSUME TypeOK, NEW r \in Requests, NEW s \in Sessions, NEW step, IsStep(step),
         Carry(r, s, step)
  PROVE  TypeOK'
<1>1. CASE step.action = "submit"
  <2> DEFINE ok == Submittable(step.row.collected)
             j == [op |-> "submit", session |-> s, row |-> step.row, ok |-> ok]
  <2>1. /\ created[s] < MaxAgents
        /\ created' = [created EXCEPT ![s] = @ + (IF ok THEN 1 ELSE 0)]
        /\ req' = [req EXCEPT ![r] = j]
        /\ session' = session /\ told' = told
      BY <1>1 DEF Carry, StartSubmission
  <2>2. ok \in BOOLEAN
      BY DEF Submittable
  <2>3. j \in SubmitJobs
      BY <2>2 DEF SubmitJobs, IsStep
  <2>4. created' \in [Sessions -> 0..MaxAgents]
      BY <2>1, MaxAgentsAssumption DEF TypeOK
  <2> HIDE DEF j, ok
  <2>5. req' \in [Requests -> AskingJobs \union SubmitJobs \union {Idle}]
      BY <2>1, <2>3 DEF TypeOK
  <2> QED BY <2>1, <2>4, <2>5 DEF TypeOK
<1>2. CASE step.action # "submit"
    BY <1>2 DEF Carry, Save, Answer, TypeOK, IsStep
<1> QED BY <1>1, <1>2

LEMMA StepTypeOK == TypeOK /\ [Next]_vars => TypeOK'
<1> SUFFICES ASSUME TypeOK, [Next]_vars PROVE TypeOK'
    OBVIOUS
<1>1. ASSUME NEW r \in Requests, NEW s \in Sessions, NEW m \in Messages, Turn(r, s, m)
      PROVE  TypeOK'
  <2>1. session[s] \in Rows
      BY DEF TypeOK
  <2> QED BY <1>1, <2>1, MachineType, CarryType DEF Turn
<1>2. ASSUME NEW r \in Requests, NEW s \in Sessions, NEW m \in Messages, AskModel(r, s, m)
      PROVE  TypeOK'
  <2> DEFINE j == [op |-> "ask model", session |-> s, message |-> m, row |-> session[s]]
  <2>1. j \in AskingJobs
      BY DEF TypeOK, AskingJobs
  <2>2. req' = [req EXCEPT ![r] = j]
      BY <1>2 DEF AskModel
  <2> HIDE DEF j
  <2> QED BY <1>2, <2>1, <2>2 DEF AskModel, TypeOK
<1>3. ASSUME NEW r \in Requests, ModelAnswers(r) PROVE TypeOK'
  <2>1. req[r].session \in Sessions /\ req[r].row \in Rows
      BY <1>3, Suspended DEF ModelAnswers, AskingJobs
  <2> QED BY <1>3, <2>1, ModelType, CarryType DEF ModelAnswers
<1>4. ASSUME NEW r \in Requests, ModelFails(r) PROVE TypeOK'
  <2>1. req[r].session \in Sessions /\ req[r].row \in Rows /\ req[r].message \in Messages
      BY <1>4, Suspended DEF ModelFails, AskingJobs
  <2> QED BY <1>4, <2>1, MachineType, CarryType DEF ModelFails
<1>5. ASSUME NEW r \in Requests, NEW fails \in BOOLEAN, EndSubmission(r, fails) PROVE TypeOK'
  <2>1. req[r].session \in Sessions /\ req[r].row \in Rows
      BY <1>5, Suspended DEF EndSubmission, SubmitJobs
  <2>2. At(req[r].row, "done") \in Rows /\ At(req[r].row, "review") \in Rows
      BY <2>1 DEF At, Rows, States
  <2>3. session' \in [Sessions -> Rows]
      BY <1>5, <2>1, <2>2 DEF EndSubmission, Save, TypeOK
  <2> QED BY <1>5, <2>1, <2>3 DEF EndSubmission, Answer, TypeOK
<1>6. CASE Restart
    BY <1>6 DEF Restart, TypeOK
<1>7. CASE UNCHANGED vars
    BY <1>7 DEF vars, TypeOK
<1> QED BY <1>1, <1>2, <1>3, <1>4, <1>5, <1>6, <1>7 DEF Next

LEMMA InitTypeOK == Init => TypeOK
<1>1. NewRow \in Rows
    BY DEF NewRow, Rows, States, Quality
<1> QED BY <1>1, MaxAgentsAssumption DEF Init, TypeOK

\* Sessions, answers and suspended turns keep their types, with a model or
\* without one.
THEOREM TypeCorrect == Spec => []TypeOK
BY InitTypeOK, StepTypeOK, PTL DEF Spec

-----------------------------------------------------------------------------
(* Without a model                                                         *)

\* The required fields that a row in each state has gone through.
Passed ==
  [start |-> {}, mcp_not_implemented |-> {}, name |-> {}, description |-> {"name"},
   provider |-> {"name", "description"},
   endpoint_url |-> {"name", "description", "provider"},
   capabilities |-> {"name", "description", "provider"},
   review |-> {"name", "description", "provider"},
   done |-> {"name", "description", "provider"}]

OnTrack(row) == \A f \in Passed[row.state] : row.collected[f] = "good"

\* Every row is on track, the ones that suspended submissions will save
\* included; these have inserted their agent, and nobody asks a model.
IInv ==
  /\ TypeOK
  /\ \A s \in Sessions : OnTrack(session[s])
  /\ \A r \in Requests :
       /\ req[r].op # "ask model"
       /\ req[r].op = "submit" =>
            /\ req[r].ok /\ req[r].row.state = "review" /\ OnTrack(req[r].row)
            /\ created[req[r].session] > 0
  /\ DoneIsExplained

\* A review on track can be submitted.
LEMMA ReviewSubmittable ==
  ASSUME NEW row \in Rows, OnTrack(row), row.state \in {"review", "done"}
  PROVE  Submittable(row.collected)
<1>1. Passed[row.state] = {"name", "description", "provider"}
    BY DEF Passed
<1> QED BY <1>1 DEF OnTrack, Submittable

\* Filling a field keeps a row on track: the state moves past a required field
\* only when its validator has accepted a value.
LEMMA FillOnTrack ==
  ASSUME NEW row \in Rows, NEW m \in Messages, row.state \in Fields, OnTrack(row)
  PROVE  /\ OnTrack(Fill(row, m).row)
         /\ Fill(row, m).action = "ask" /\ Fill(row, m).row.state # "done"
<1> DEFINE d == [row.collected EXCEPT ![row.state] = Stored(row.state, m)]
<1>1. CASE m \notin Accepted[row.state]
  <2>1. Fill(row, m) = Ask(row)
      BY <1>1 DEF Fill
  <2> QED BY <2>1, FieldNames DEF Ask
<1>2. CASE m \in Accepted[row.state]
  <2>1. Fill(row, m) = Ask([state |-> NextState[row.state], collected |-> d])
      BY <1>2 DEF Fill
  <2>2. \A f \in Fields : d[f] = IF f = row.state THEN Stored(row.state, m)
                                                  ELSE row.collected[f]
      BY DEF Rows
  <2>3. row.state # "endpoint_url" => Stored(row.state, m) = "good"
      BY DEF Stored
  <2>4. /\ Passed[NextState[row.state]] \subseteq Passed[row.state] \union {row.state}
        /\ Passed[NextState[row.state]] \subseteq Fields \ {"endpoint_url"}
        /\ NextState[row.state] # "done"
    <3>1. row.state \in {"name", "description", "provider", "endpoint_url", "capabilities"}
        BY FieldNames
    <3> QED BY <3>1, FieldNames DEF Passed, NextState
  <2>5. \A f \in Passed[NextState[row.state]] : d[f] = "good"
      BY <2>2, <2>3, <2>4 DEF OnTrack
  <2> HIDE DEF d
  <2> QED BY <2>1, <2>4, <2>5 DEF Ask, OnTrack
<1> QED BY <1>1, <1>2

\* One step of the state machine keeps a row on track, submits and cancels
\* from a review only, and leaves a done row alone.
LEMMA MachineOnTrack ==
  ASSUME NEW row \in Rows, NEW m \in Messages, OnTrack(row)
  PROVE  LET step == StateMachine(row, m) IN
         /\ OnTrack(step.row)
         /\ step.action = "submit" => step.row = row /\ row.state = "review"
         /\ row.state = "done" => step.action = "ask" /\ step.row = row
         /\ step.row.state = "done" => row.state = "done" \/ step.action = "cancel"
<1>1. CASE row.state \in Fields
  <2>1. StateMachine(row, m) = Fill(row, m)
      BY <1>1, FieldNames DEF StateMachine
  <2> QED BY <1>1, <2>1, FillOnTrack, FieldNames
<1>2. CASE row.state = "review"
  <2>1. StateMachine(row, m) = Confirm(row, m)
      BY <1>2, FieldNames DEF StateMachine
  <2>2. OnTrack(At(row, "done"))
      BY <1>2 DEF OnTrack, At, Passed, Rows
  <2> QED BY <1>2, <2>1, <2>2 DEF Confirm, Submit, Cancel, Ask, At, Rows
<1>3. CASE row.state = "done"
  <2>1. StateMachine(row, m) = Ask(row)
      BY <1>3, FieldNames DEF StateMachine
  <2> QED BY <1>3, <2>1 DEF Ask
<1>4. CASE row.state \notin Fields \union {"review", "done"}
  <2>1. StateMachine(row, m) = Begin(row, m)
      BY <1>4 DEF StateMachine
  <2>2. ASSUME NEW st \in {"start", "mcp_not_implemented", "name"}
        PROVE  OnTrack(At(row, st)) /\ At(row, st).state = st
      BY DEF OnTrack, At, Passed, Rows
  <2> QED BY <1>4, <2>1, <2>2 DEF Begin, Ask
<1> QED BY <1>1, <1>2, <1>3, <1>4

LEMMA InitIInv == Init => IInv
<1> SUFFICES ASSUME Init PROVE IInv
    OBVIOUS
<1>1. \A s \in Sessions : OnTrack(session[s]) /\ session[s].state # "done"
    BY DEF Init, NewRow, OnTrack, Passed
<1>2. \A r \in Requests : req[r].op = "idle"
    BY DEF Init, Idle
<1> QED BY <1>1, <1>2, InitTypeOK DEF IInv, DoneIsExplained

\* What a step does to sessions that are done, and to the invariant.
Settled == \A s \in Sessions : session[s].state = "done" => session'[s].state = "done"

LEMMA TurnKeepsIInv ==
  ASSUME IInv, NEW r \in Requests, NEW s \in Sessions, NEW m \in Messages, Turn(r, s, m)
  PROVE  IInv' /\ Settled
<1> DEFINE row == session[s]
           step == StateMachine(row, m)
<1>1. row \in Rows /\ OnTrack(row)
    BY DEF IInv, TypeOK
<1>2. /\ OnTrack(step.row)
      /\ step.action = "submit" => step.row = row /\ row.state = "review"
      /\ row.state = "done" => step.action = "ask" /\ step.row = row
      /\ step.row.state = "done" => row.state = "done" \/ step.action = "cancel"
    BY <1>1, MachineOnTrack
<1>3. TypeOK'
    BY StepTypeOK DEF IInv, Next
<1>4. Carry(r, s, step)
    BY DEF Turn
<1> HIDE DEF step
<1>5. CASE step.action = "submit"
  <2>1. Submittable(row.collected)
      BY <1>1, <1>2, <1>5, ReviewSubmittable
  <2> DEFINE j == [op |-> "submit", session |-> s, row |-> row, ok |-> Submittable(row.collected)]
  <2>2. /\ created' = [created EXCEPT ![s] = @ + 1]
        /\ req' = [req EXCEPT ![r] = j]
        /\ session' = session /\ told' = told
      BY <1>2, <1>4, <1>5, <2>1 DEF Carry, StartSubmission
  <2>3. /\ created'[s] > 0
        /\ \A t \in Sessions : created[t] > 0 => created'[t] > 0
    <3>1. created \in [Sessions -> 0..MaxAgents]
        BY DEF IInv, TypeOK
    <3>2. \A t \in Sessions : created[t] \in Nat
        BY <3>1, MaxAgentsAssumption
    <3>3. \A t \in Sessions : created'[t] = IF t = s THEN created[t] + 1 ELSE created[t]
        BY <2>2, <3>1
    <3> QED BY <3>2, <3>3
  <2>4. /\ j.op = "submit" /\ j.session = s /\ j.ok /\ j.row = row
      BY <2>1
  <2>5. \A q \in Requests \ {r} : req'[q] = req[q]
      BY <2>2 DEF IInv, TypeOK
  <2>6. req'[r] = j
      BY <2>2 DEF IInv, TypeOK
  <2>7. \A q \in Requests :
          /\ req'[q].op # "ask model"
          /\ req'[q].op = "submit" =>
               /\ req'[q].ok /\ req'[q].row.state = "review" /\ OnTrack(req'[q].row)
               /\ created'[req'[q].session] > 0
    <3> TAKE q \in Requests
    <3> HIDE DEF j
    <3>1. CASE q = r
        BY <1>1, <1>2, <1>5, <2>3, <2>4, <2>6, <3>1
    <3>2. CASE q # r
      <4>1. req[q].op = "submit" => req[q].session \in Sessions
          BY Suspended DEF IInv, SubmitJobs
      <4>2. /\ req[q].op # "ask model"
            /\ req[q].op = "submit" =>
                 /\ req[q].ok /\ req[q].row.state = "review" /\ OnTrack(req[q].row)
                 /\ created[req[q].session] > 0
          BY DEF IInv
      <4>3. req'[q] = req[q]
          BY <2>5, <3>2
      <4> QED BY <2>3, <4>1, <4>2, <4>3
    <3> QED BY <3>1, <3>2
  <2>8. DoneIsExplained'
    <3>1. DoneIsExplained
        BY DEF IInv
    <3> QED BY <2>2, <2>3, <3>1 DEF DoneIsExplained
  <2>9. \A t \in Sessions : OnTrack(session'[t])
      BY <2>2 DEF IInv
  <2> QED BY <1>3, <2>2, <2>7, <2>8, <2>9 DEF IInv, Settled, OnTrack
<1>6. CASE step.action # "submit"
  <2>1. /\ session' = [session EXCEPT ![s] = step.row]
        /\ told' = IF step.action = "cancel"
                   THEN [told EXCEPT ![s] = @ \union {"cancelled"}] ELSE told
        /\ req' = [req EXCEPT ![r] = Idle]
        /\ created' = created
      BY <1>4, <1>6 DEF Carry, Save, Answer
  <2>2. \A t \in Sessions : session'[t] = IF t = s THEN step.row ELSE session[t]
      BY <2>1 DEF IInv, TypeOK
  <2>3. \A t \in Sessions : OnTrack(session'[t])
      BY <1>2, <2>2 DEF IInv
  <2>4. \A q \in Requests :
          /\ req'[q].op # "ask model"
          /\ req'[q].op = "submit" =>
               /\ req'[q].ok /\ req'[q].row.state = "review" /\ OnTrack(req'[q].row)
               /\ created'[req'[q].session] > 0
      BY <2>1 DEF IInv, TypeOK, Idle
  <2>5. \A t \in Sessions :
          /\ told[t] \subseteq told'[t]
          /\ t = s /\ step.action = "cancel" => "cancelled" \in told'[t]
      BY <2>1 DEF IInv, TypeOK
  <2>6. DoneIsExplained'
      BY <1>2, <2>1, <2>2, <2>5 DEF IInv, DoneIsExplained
  <2>7. Settled
      BY <1>2, <2>2 DEF Settled
  <2> QED BY <1>3, <2>3, <2>4, <2>6, <2>7 DEF IInv, OnTrack
<1> QED BY <1>5, <1>6

LEMMA EndKeepsIInv ==
  ASSUME ~StatementsMayFail, IInv, NEW r \in Requests, NEW fails \in BOOLEAN,
         EndSubmission(r, fails)
  PROVE  IInv' /\ Settled
<1> DEFINE j == req[r]
<1>1. j.op = "submit" /\ j.ok /\ ~fails
    BY DEF EndSubmission, IInv
<1>2. /\ j.session \in Sessions /\ j.row \in Rows
      /\ j.row.state = "review" /\ OnTrack(j.row) /\ created[j.session] > 0
    BY <1>1, Suspended DEF IInv, SubmitJobs
<1>3. TypeOK'
    BY StepTypeOK DEF IInv, Next
<1>4. /\ session' = [session EXCEPT ![j.session] = At(j.row, "done")]
      /\ told' = [told EXCEPT ![j.session] = @ \union {"registered"}]
      /\ req' = [req EXCEPT ![r] = Idle]
      /\ created' = created
    BY <1>1 DEF EndSubmission, Save, Answer
<1>5. At(j.row, "done").state = "done" /\ OnTrack(At(j.row, "done"))
    BY <1>2 DEF At, OnTrack, Passed, Rows
<1> HIDE DEF j
<1>6. \A t \in Sessions :
        session'[t] = IF t = j.session THEN At(j.row, "done") ELSE session[t]
    BY <1>4 DEF IInv, TypeOK
<1>7. \A t \in Sessions : OnTrack(session'[t])
    BY <1>5, <1>6 DEF IInv
<1>8. Settled
    BY <1>5, <1>6 DEF Settled
<1>9. \A q \in Requests :
        /\ req'[q].op # "ask model"
        /\ req'[q].op = "submit" =>
             /\ req'[q].ok /\ req'[q].row.state = "review" /\ OnTrack(req'[q].row)
             /\ created'[req'[q].session] > 0
    BY <1>4 DEF IInv, TypeOK, Idle
<1>10. \A t \in Sessions : told[t] \subseteq told'[t]
    BY <1>4 DEF IInv, TypeOK
<1>11. DoneIsExplained'
    BY <1>2, <1>4, <1>6, <1>10 DEF IInv, DoneIsExplained
<1> QED BY <1>3, <1>7, <1>8, <1>9, <1>11 DEF IInv, OnTrack

LEMMA StepIInv ==
  ASSUME ~HasLLM, ~StatementsMayFail
  PROVE  IInv /\ [Next]_vars => IInv' /\ Settled
<1> SUFFICES ASSUME IInv, [Next]_vars PROVE IInv' /\ Settled
    OBVIOUS
<1>1. ASSUME NEW r \in Requests,
             \/ \E s \in Sessions, m \in Messages : AskModel(r, s, m)
             \/ ModelAnswers(r)
             \/ ModelFails(r)
      PROVE  FALSE
    BY <1>1 DEF AskModel, ModelAnswers, ModelFails, IInv
<1>2. CASE Restart
  <2>1. TypeOK'
      BY <1>2, StepTypeOK DEF IInv, Next
  <2>2. \A r \in Requests : req'[r].op = "idle"
      BY <1>2 DEF Restart, Idle
  <2> QED BY <1>2, <2>1, <2>2 DEF Restart, IInv, Settled, DoneIsExplained, OnTrack
<1>3. CASE UNCHANGED vars
  <2>1. TypeOK'
      BY <1>3, StepTypeOK DEF IInv
  <2> QED BY <1>3, <2>1 DEF vars, IInv, Settled, DoneIsExplained, OnTrack
<1> QED BY <1>1, <1>2, <1>3, TurnKeepsIInv, EndKeepsIInv DEF Next

LEMMA AlwaysIInv ==
  ASSUME ~HasLLM, ~StatementsMayFail
  PROVE  Spec => []IInv
<1>1. IInv /\ [Next]_vars => IInv'
    BY StepIInv
<1> QED BY <1>1, InitIInv, PTL DEF Spec

\* Without a model, a session under review has every required field, and what
\* it hands to performSubmission passes its checks, however turns overlap and
\* whenever the process stops (src/connect-agent.js:202 and :394).
THEOREM ReviewsAreComplete ==
  ASSUME ~HasLLM, ~StatementsMayFail
  PROVE  Spec => []ReviewIsComplete
<1>1. IInv => ReviewIsComplete
  <2> SUFFICES ASSUME IInv, NEW s \in Sessions, session[s].state = "review"
               PROVE  Submittable(session[s].collected)
      BY DEF IInv, ReviewIsComplete
  <2>1. session[s] \in Rows /\ OnTrack(session[s])
      BY DEF IInv, TypeOK
  <2> QED BY <2>1, ReviewSubmittable
<1> QED BY <1>1, AlwaysIInv, PTL

\* Without a model, a session that is done stays done, although a turn saves
\* the whole row it loaded before its submission (src/connect-agent.js:164).
THEOREM DoneStaysDone ==
  ASSUME ~HasLLM, ~StatementsMayFail
  PROVE  Spec => DoneIsFinal
<1>1. IInv /\ [Next]_vars =>
        [\A s \in Sessions : session[s].state = "done" => session'[s].state = "done"]_vars
    BY StepIInv DEF Settled
<1> QED BY <1>1, AlwaysIInv, PTL DEF Spec, DoneIsFinal

\* Without a model, a session is done because it registered its agent or
\* because its user was told that it is cancelled.
THEOREM DoneExplained ==
  ASSUME ~HasLLM, ~StatementsMayFail
  PROVE  Spec => []DoneIsExplained
<1>1. IInv => DoneIsExplained
    BY DEF IInv
<1> QED BY <1>1, AlwaysIInv, PTL

-----------------------------------------------------------------------------
(* What a session is told, with a model or without one                     *)

\* A submission that will be reported as completed has inserted its agent, and
\* so has one that was.
Reported ==
  /\ ToldIsRegistered
  /\ \A r \in Requests :
       req[r].op = "submit" /\ req[r].ok => created[req[r].session] > 0

LEMMA CarryReported ==
  ASSUME TypeOK, Reported, NEW r \in Requests, NEW s \in Sessions, NEW step,
         Carry(r, s, step)
  PROVE  Reported'
<1>1. \A t \in Sessions : created[t] \in Nat
    BY MaxAgentsAssumption DEF TypeOK
<1>2. CASE step.action = "submit"
  <2> DEFINE ok == Submittable(step.row.collected)
  <2>1. /\ created' = [created EXCEPT ![s] = @ + (IF ok THEN 1 ELSE 0)]
        /\ req' = [req EXCEPT ![r] = [op |-> "submit", session |-> s,
                                      row |-> step.row, ok |-> ok]]
        /\ told' = told
      BY <1>2 DEF Carry, StartSubmission
  <2>2. /\ \A t \in Sessions : created[t] > 0 => created'[t] > 0
        /\ ok => created'[s] > 0
      BY <1>1, <2>1 DEF TypeOK
  <2>3. \A q \in Requests : req[q].op = "submit" => req[q].session \in Sessions
      BY Suspended DEF SubmitJobs
  <2> HIDE DEF ok
  <2>4. \A q \in Requests :
          req'[q].op = "submit" /\ req'[q].ok => created'[req'[q].session] > 0
      BY <2>1, <2>2, <2>3 DEF TypeOK, Reported
  <2> QED BY <2>1, <2>2, <2>4 DEF Reported, ToldIsRegistered
<1>3. CASE step.action # "submit"
  <2>1. /\ req' = [req EXCEPT ![r] = Idle] /\ created' = created
        /\ told' = IF step.action = "cancel"
                   THEN [told EXCEPT ![s] = @ \union {"cancelled"}] ELSE told
      BY <1>3 DEF Carry, Answer
  <2>2. \A t \in Sessions : "registered" \in told'[t] => "registered" \in told[t]
      BY <2>1 DEF TypeOK
  <2>3. \A q \in Requests : req'[q].op = "submit" => req'[q] = req[q]
      BY <2>1 DEF TypeOK, Idle
  <2> QED BY <2>1, <2>2, <2>3 DEF Reported, ToldIsRegistered
<1> QED BY <1>2, <1>3

LEMMA EndReported ==
  ASSUME TypeOK, Reported, NEW r \in Requests, NEW fails \in BOOLEAN,
         EndSubmission(r, fails)
  PROVE  Reported'
<1> DEFINE s == req[r].session
           ok == req[r].ok /\ ~fails
<1>1. /\ req' = [req EXCEPT ![r] = Idle] /\ created' = created
      /\ told' = IF ok THEN [told EXCEPT ![s] = @ \union {"registered"}] ELSE told
      /\ s \in Sessions
    BY Suspended DEF EndSubmission, Answer, SubmitJobs
<1>2. ok => created[s] > 0
    BY DEF EndSubmission, Reported
<1> HIDE DEF s, ok
<1>3. \A t \in Sessions : "registered" \in told'[t] =>
        "registered" \in told[t] \/ (ok /\ t = s)
    BY <1>1 DEF TypeOK
<1>4. \A q \in Requests : req'[q].op = "submit" => req'[q] = req[q]
    BY <1>1 DEF TypeOK, Idle
<1> QED BY <1>1, <1>2, <1>3, <1>4 DEF Reported, ToldIsRegistered

\* Whoever is answered "completed" has a registered agent: for any turns that
\* overlap, with a model that answers or fails, statements that throw and
\* restarts (src/connect-agent.js:211 and :394).
THEOREM ToldWhenRegistered == Spec => []ToldIsRegistered
<1>1. Init => Reported
    BY DEF Init, Reported, ToldIsRegistered, Idle
<1>2. ASSUME TypeOK, Reported, [Next]_vars PROVE Reported'
  <2>1. ASSUME NEW r \in Requests, NEW s \in Sessions, NEW m \in Messages, Turn(r, s, m)
        PROVE  Reported'
      BY <1>2, <2>1, CarryReported DEF Turn
  <2>2. ASSUME NEW r \in Requests, NEW s \in Sessions, NEW m \in Messages, AskModel(r, s, m)
        PROVE  Reported'
    <3>1. UNCHANGED <<created, told>>
          /\ \A q \in Requests : req'[q].op = "submit" => req'[q] = req[q]
        BY <1>2, <2>2 DEF AskModel, TypeOK
    <3> QED BY <1>2, <3>1 DEF Reported, ToldIsRegistered
  <2>3. ASSUME NEW r \in Requests, ModelAnswers(r) \/ ModelFails(r) PROVE Reported'
    <3>1. req[r].session \in Sessions
        BY <1>2, <2>3, Suspended DEF ModelAnswers, ModelFails, AskingJobs
    <3> QED BY <1>2, <2>3, <3>1, CarryReported DEF ModelAnswers, ModelFails
  <2>4. ASSUME NEW r \in Requests, NEW fails \in BOOLEAN, EndSubmission(r, fails)
        PROVE  Reported'
      BY <1>2, <2>4, EndReported
  <2>5. CASE Restart
      BY <1>2, <2>5 DEF Restart, Idle, Reported, ToldIsRegistered
  <2>6. CASE UNCHANGED vars
      BY <1>2, <2>6 DEF vars, Reported, ToldIsRegistered
  <2> QED BY <1>2, <2>1, <2>2, <2>3, <2>4, <2>5, <2>6 DEF Next
<1>3. Reported => ToldIsRegistered
    BY DEF Reported
<1> QED BY <1>1, <1>2, <1>3, TypeCorrect, PTL DEF Spec

-----------------------------------------------------------------------------
(* What was collected, without a model: any overlap, throw and restart     *)

\* What was provided in c is provided in d, the endpoint aside.
Grows(c, d) == \A f \in Fields \ {"endpoint_url"} : c[f] # "unset" => d[f] # "unset"
Growing == \A s \in Sessions : Grows(session[s].collected, session'[s].collected)

\* Nobody asks a model, and a session with a suspended submission is past its
\* questions, with the fields the submission will save.
Current ==
  \A r \in Requests :
    /\ req[r].op # "ask model"
    /\ req[r].op = "submit" =>
         /\ session[req[r].session].state \in {"review", "done"}
         /\ session[req[r].session].collected = req[r].row.collected

\* The state machine adds fields, submits the row of a review, and neither
\* leaves nor edits a row that is past its questions.
LEMMA MachineGrows ==
  ASSUME NEW row \in Rows, NEW m \in Messages
  PROVE  LET step == StateMachine(row, m) IN
         /\ Grows(row.collected, step.row.collected)
         /\ step.action = "submit" => step.row = row /\ row.state = "review"
         /\ row.state \in {"review", "done"} =>
              step.row.collected = row.collected /\ step.row.state \in {"review", "done"}
<1>1. CASE row.state \in Fields
  <2>1. StateMachine(row, m) = Fill(row, m)
      BY <1>1, FieldNames DEF StateMachine
  <2>2. \A f \in Fields \ {"endpoint_url"} :
          [row.collected EXCEPT ![row.state] = Stored(row.state, m)][f]
            \in {row.collected[f], "good"}
      BY <1>1 DEF Rows, Stored
  <2>3. row.state \notin {"review", "done"}
      BY <1>1, FieldNames
  <2> QED BY <2>1, <2>2, <2>3 DEF Fill, Ask, Grows
<1>2. CASE row.state \notin Fields
  <2>1. \A st : At(row, st).collected = row.collected /\ At(row, st).state = st
      BY DEF At, Rows
  <2>2. CASE row.state = "review"
    <3>1. StateMachine(row, m) = Confirm(row, m)
        BY <1>2, <2>2 DEF StateMachine
    <3> QED BY <2>1, <2>2, <3>1 DEF Confirm, Submit, Cancel, Ask, Grows
  <2>3. CASE row.state # "review"
    <3>1. StateMachine(row, m) = IF row.state = "done" THEN Ask(row) ELSE Begin(row, m)
        BY <1>2, <2>3 DEF StateMachine
    <3> QED BY <2>1, <2>3, <3>1 DEF Begin, Ask, Grows
  <2> QED BY <2>2, <2>3
<1> QED BY <1>1, <1>2

LEMMA TurnGrows ==
  ASSUME TypeOK, Current, NEW r \in Requests, NEW s \in Sessions, NEW m \in Messages,
         Turn(r, s, m)
  PROVE  Current' /\ Growing
<1> DEFINE step == StateMachine(session[s], m)
<1>1. /\ Grows(session[s].collected, step.row.collected)
      /\ step.action = "submit" => step.row = session[s] /\ session[s].state = "review"
      /\ session[s].state \in {"review", "done"} =>
           /\ step.row.collected = session[s].collected
           /\ step.row.state \in {"review", "done"}
    BY MachineGrows DEF TypeOK
<1>2. Carry(r, s, step)
    BY DEF Turn
<1> HIDE DEF step
<1>3. \A q \in Requests \ {r} : req'[q] = req[q]
    BY <1>2 DEF Carry, StartSubmission, Answer, TypeOK
<1>4. CASE step.action = "submit"
  <2>1. /\ session' = session
        /\ req'[r].op = "submit" /\ req'[r].session = s /\ req'[r].row = step.row
      BY <1>2, <1>4 DEF Carry, StartSubmission, TypeOK
  <2>2. Current'
      BY <1>1, <1>3, <1>4, <2>1 DEF Current
  <2>3. Growing
      BY <2>1 DEF Growing, Grows
  <2> QED BY <2>2, <2>3
<1>5. CASE step.action # "submit"
  <2>1. session' = [session EXCEPT ![s] = step.row] /\ req'[r] = Idle
      BY <1>2, <1>5 DEF Carry, Save, Answer, TypeOK
  <2>2. \A t \in Sessions : session'[t] = IF t = s THEN step.row ELSE session[t]
      BY <2>1 DEF TypeOK
  <2>3. Growing
      BY <1>1, <2>2 DEF Growing, Grows
  <2>4. Current'
    <3> SUFFICES ASSUME NEW q \in Requests
                 PROVE  /\ req'[q].op # "ask model"
                        /\ req'[q].op = "submit" =>
                             /\ session'[req'[q].session].state \in {"review", "done"}
                             /\ session'[req'[q].session].collected = req'[q].row.collected
        BY DEF Current
    <3>1. CASE q = r
      <4>1. req'[q].op = "idle"
          BY <2>1, <3>1 DEF Idle
      <4> QED BY <4>1
    <3>2. CASE q # r
      <4>1. req[q].op = "submit" => req[q].session \in Sessions
          BY InFlight
      <4>2. req'[q] = req[q]
          BY <1>3, <3>2
      <4>3. /\ req[q].op # "ask model"
            /\ req[q].op = "submit" =>
                 /\ session[req[q].session].state \in {"review", "done"}
                 /\ session[req[q].session].collected = req[q].row.collected
          BY DEF Current
      <4>4. \A t \in Sessions :
              session[t].state \in {"review", "done"} =>
                /\ session'[t].state \in {"review", "done"}
                /\ session'[t].collected = session[t].collected
          BY <1>1, <2>2
      <4> QED BY <4>1, <4>2, <4>3, <4>4
    <3> QED BY <3>1, <3>2
  <2> QED BY <2>3, <2>4
<1> QED BY <1>4, <1>5

LEMMA EndGrows ==
  ASSUME TypeOK, Current, NEW r \in Requests, NEW fails \in BOOLEAN,
         EndSubmission(r, fails)
  PROVE  Current' /\ Growing
<1> DEFINE s == req[r].session
<1>1. s \in Sessions /\ req[r].row \in Rows
    BY InFlight DEF EndSubmission
<1>2. PICK st \in {"review", "done"} : session' = [session EXCEPT ![s] = At(req[r].row, st)]
    BY DEF EndSubmission, Save
<1>3. /\ At(req[r].row, st).collected = session[s].collected
      /\ At(req[r].row, st).state = st
    BY <1>1 DEF At, Rows, Current, EndSubmission
<1>4. req'[r] = Idle /\ \A q \in Requests \ {r} : req'[q] = req[q]
    BY DEF EndSubmission, Answer, TypeOK
<1> HIDE DEF s
<1>5. \A t \in Sessions :
        /\ session'[t].collected = session[t].collected
        /\ session[t].state \in {"review", "done"} => session'[t].state \in {"review", "done"}
    BY <1>1, <1>2, <1>3 DEF TypeOK
<1>6. Growing
    BY <1>5 DEF Growing, Grows
<1>7. Current'
  <2> SUFFICES ASSUME NEW q \in Requests
               PROVE  /\ req'[q].op # "ask model"
                      /\ req'[q].op = "submit" =>
                           /\ session'[req'[q].session].state \in {"review", "done"}
                           /\ session'[req'[q].session].collected = req'[q].row.collected
      BY DEF Current
  <2>1. CASE q = r
    <3>1. req'[q].op = "idle"
        BY <1>4, <2>1 DEF Idle
    <3> QED BY <3>1
  <2>2. CASE q # r
    <3>1. req[q].op = "submit" => req[q].session \in Sessions
        BY InFlight
    <3>2. req'[q] = req[q]
        BY <1>4, <2>2
    <3>3. /\ req[q].op # "ask model"
          /\ req[q].op = "submit" =>
               /\ session[req[q].session].state \in {"review", "done"}
               /\ session[req[q].session].collected = req[q].row.collected
        BY DEF Current
    <3> QED BY <1>5, <3>1, <3>2, <3>3
  <2> QED BY <2>1, <2>2
<1> QED BY <1>6, <1>7

LEMMA StepGrows ==
  ASSUME ~HasLLM, TypeOK, Current, [Next]_vars
  PROVE  Current' /\ Growing
<1>1. ASSUME NEW r \in Requests,
             \/ \E s \in Sessions, m \in Messages : AskModel(r, s, m)
             \/ ModelAnswers(r)
             \/ ModelFails(r)
      PROVE  FALSE
    BY <1>1 DEF AskModel, ModelAnswers, ModelFails, Current
<1>2. CASE Restart
    BY <1>2 DEF Restart, Idle, Current, Growing, Grows
<1>3. CASE UNCHANGED vars
    BY <1>3 DEF vars, Current, Growing, Grows
<1> QED BY <1>1, <1>2, <1>3, TurnGrows, EndGrows DEF Next

LEMMA InitCurrent == Init => Current
<1>1. Init => \A r \in Requests : req[r].op = "idle"
    BY DEF Init, Idle
<1> QED BY <1>1 DEF Current

\* Without a model a submission saves the fields its session still has: nothing
\* is lost by the whole-row save, however turns overlap, whatever throws and
\* whenever the process stops (src/connect-agent.js:164).
THEOREM SubmissionsStayCurrent ==
  ASSUME ~HasLLM
  PROVE  Spec => []SubmissionsAreCurrent
<1>1. TypeOK /\ Current /\ [Next]_vars => Current'
    BY StepGrows
<1>2. Current => SubmissionsAreCurrent
    BY DEF Current, SubmissionsAreCurrent
<1> QED BY <1>1, <1>2, InitCurrent, TypeCorrect, PTL DEF Spec

\* Without a model a saved row has every field saved before, the endpoint aside,
\* in the same circumstances.  A model may blank any field in one turn
\* (src/connect-agent.js:370): no such theorem holds of it.
THEOREM FieldsStay ==
  ASSUME ~HasLLM
  PROVE  Spec => FieldsAccumulate
<1>1. TypeOK /\ Current /\ [Next]_vars =>
        Current' /\
        [\A s \in Sessions, f \in Fields \ {"endpoint_url"} :
           session[s].collected[f] # "unset" => session'[s].collected[f] # "unset"]_vars
    BY StepGrows DEF Growing, Grows
<1> QED BY <1>1, InitCurrent, TypeCorrect, PTL DEF Spec, FieldsAccumulate

-----------------------------------------------------------------------------
(* Conversations whose turns do not overlap                                *)

\* A user sends the next message once the last one was answered, or lost with
\* the process: no turn starts while another of its session is suspended.
StartsAlone ==
  \A r \in Requests, s \in Sessions, m \in Messages :
    Turn(r, s, m) \/ AskModel(r, s, m) =>
      \A q \in Requests : req[q] # Idle => req[q].session # s
Serial == [][StartsAlone]_vars

\* Without a model, what is in flight for a session is its only registration,
\* and so is the one of a session that is done.
Once ==
  \A s \in Sessions :
    /\ created[s] <= 1
    /\ created[s] > 0 =>
         \/ session[s].state = "done"
         \/ \E r \in Requests : req[r].op = "submit" /\ req[r].session = s

LEMMA StepOnce ==
  ASSUME ~HasLLM, ~StatementsMayFail, ~ProcessMayStop,
         IInv, Once, [Next]_vars, [StartsAlone]_vars
  PROVE  /\ Once'
         /\ \A s \in Sessions : "cancelled" \in told'[s] \ told[s] => created[s] = 0
<1>0. /\ TypeOK
      /\ \A t \in Sessions : created[t] \in Nat /\ session[t] \in Rows /\ OnTrack(session[t])
      /\ \A q \in Requests : req[q].op = "submit" => req[q].ok /\ req[q] # Idle
  <2>1. TypeOK
      BY DEF IInv
  <2>2. \A t \in Sessions : created[t] \in Nat
      BY <2>1, MaxAgentsAssumption DEF TypeOK
  <2>3. \A t \in Sessions : session[t] \in Rows /\ OnTrack(session[t])
      BY DEF IInv, TypeOK
  <2>4. \A q \in Requests : req[q].op = "submit" => req[q].ok /\ req[q] # Idle
      BY <2>1, InFlight DEF IInv
  <2> QED BY <2>1, <2>2, <2>3, <2>4
<1>1. ASSUME NEW r \in Requests, NEW s \in Sessions, NEW m \in Messages, Turn(r, s, m),
             StartsAlone
      PROVE  /\ Once'
             /\ \A t \in Sessions : "cancelled" \in told'[t] \ told[t] => created[t] = 0
  <2> DEFINE row == session[s]
             step == StateMachine(row, m)
  <2>1. \A q \in Requests : req[q] # Idle => req[q].session # s
      BY <1>1 DEF StartsAlone
  <2>2. \A q \in Requests : req[q].op = "submit" => req[q].session # s
      BY <1>0, <2>1
  <2>3. created[s] > 0 => row.state = "done"
      BY <2>2 DEF Once
  <2>4. /\ step.action = "submit" => row.state = "review"
        /\ row.state = "done" => step.action = "ask" /\ step.row = row
      BY <1>0, MachineOnTrack
  <2>5. Carry(r, s, step) /\ Free(r)
      BY <1>1 DEF Turn
  <2> HIDE DEF step, row
  <2>6. CASE step.action = "submit"
    <3>1. created[s] = 0
        BY <1>0, <2>3, <2>4, <2>6
    <3>2. /\ created'[s] \in {0, 1} /\ told' = told /\ session' = session
          /\ req'[r].op = "submit" /\ req'[r].session = s
          /\ \A t \in Sessions \ {s} : created'[t] = created[t]
          /\ \A q \in Requests \ {r} : req'[q] = req[q]
        BY <1>0, <2>5, <2>6, <3>1 DEF Carry, StartSubmission, TypeOK
    <3>3. req[r].op # "submit"
        BY <1>0, <2>5 DEF Free
    <3>4. Once'
      <4> SUFFICES ASSUME NEW t \in Sessions
                   PROVE  /\ created'[t] <= 1
                          /\ created'[t] > 0 =>
                               \/ session'[t].state = "done"
                               \/ \E q \in Requests : req'[q].op = "submit" /\ req'[q].session = t
          BY DEF Once
      <4>1. CASE t = s
          BY <3>2, <4>1
      <4>2. CASE t # s
          BY <3>2, <3>3, <4>2 DEF Once
      <4> QED BY <4>1, <4>2
    <3> QED BY <3>2, <3>4
  <2>7. CASE step.action # "submit"
    <3>1. /\ session' = [session EXCEPT ![s] = step.row] /\ created' = created
          /\ told' = IF step.action = "cancel"
                     THEN [told EXCEPT ![s] = @ \union {"cancelled"}] ELSE told
          /\ req' = [req EXCEPT ![r] = Idle]
        BY <2>5, <2>7 DEF Carry, Save, Answer
    <3>2. \A t \in Sessions : "cancelled" \in told'[t] \ told[t] =>
            t = s /\ step.action = "cancel"
        BY <1>0, <3>1 DEF TypeOK
    <3>3. \A t \in Sessions : session[t].state = "done" => session'[t].state = "done"
        BY <1>0, <2>4, <3>1 DEF TypeOK, row
    <3>4. \A q \in Requests : req[q].op = "submit" => req'[q] = req[q]
        BY <1>0, <2>5, <3>1 DEF Free, TypeOK
    <3>5. Once'
        BY <3>1, <3>3, <3>4 DEF Once
    <3>6. step.action = "cancel" => created[s] = 0
        BY <1>0, <2>3, <2>4
    <3> QED BY <3>2, <3>5, <3>6
  <2> QED BY <2>6, <2>7
<1>2. ASSUME NEW r \in Requests, NEW fails \in BOOLEAN, EndSubmission(r, fails)
      PROVE  /\ Once'
             /\ \A t \in Sessions : "cancelled" \in told'[t] \ told[t] => created[t] = 0
  <2> DEFINE s == req[r].session
  <2>1. /\ s \in Sessions /\ req[r].row \in Rows /\ req[r].ok /\ ~fails
      BY <1>0, <1>2, InFlight DEF EndSubmission, IInv
  <2>2. /\ session' = [session EXCEPT ![s] = At(req[r].row, "done")]
        /\ told' = [told EXCEPT ![s] = @ \union {"registered"}]
        /\ req' = [req EXCEPT ![r] = Idle]
        /\ created' = created
      BY <1>2, <2>1 DEF EndSubmission, Save, Answer
  <2>3. At(req[r].row, "done").state = "done"
      BY <2>1 DEF At, Rows
  <2> HIDE DEF s
  <2>4. \A t \in Sessions : t = s \/ session[t].state = "done" => session'[t].state = "done"
      BY <1>0, <2>2, <2>3 DEF TypeOK
  <2>5. \A t \in Sessions : "cancelled" \in told'[t] => "cancelled" \in told[t]
      BY <1>0, <2>1, <2>2 DEF TypeOK
  <2>6. \A q \in Requests : q = r \/ req'[q] = req[q]
      BY <1>0, <2>2 DEF TypeOK
  <2>7. Once'
      BY <2>2, <2>4, <2>6 DEF Once, s
  <2> QED BY <2>5, <2>7
<1>3. ASSUME NEW r \in Requests,
             \/ \E s \in Sessions, m \in Messages : AskModel(r, s, m)
             \/ ModelAnswers(r)
             \/ ModelFails(r)
      PROVE  FALSE
    BY <1>3 DEF AskModel, ModelAnswers, ModelFails, IInv
<1>4. ~Restart
    BY DEF Restart
<1>5. CASE UNCHANGED vars
    BY <1>5 DEF vars, Once
<1> QED BY <1>1, <1>2, <1>3, <1>4, <1>5 DEF Next

LEMMA AlwaysOnce ==
  ASSUME ~HasLLM, ~StatementsMayFail, ~ProcessMayStop
  PROVE  Spec /\ Serial => []Once /\ NothingCreated
<1>1. Init => Once
  <2> SUFFICES ASSUME Init, NEW s \in Sessions PROVE created[s] <= 1 /\ ~(created[s] > 0)
      BY DEF Once
  <2>1. created[s] = 0
      BY DEF Init
  <2> QED BY <2>1
<1>2. IInv /\ Once /\ [Next]_vars /\ [StartsAlone]_vars =>
        Once' /\
        [\A s \in Sessions : "cancelled" \in told'[s] \ told[s] => created[s] = 0]_vars
    BY StepOnce
<1>3. Spec => []IInv
    BY AlwaysIInv
<1> QED BY <1>1, <1>2, <1>3, PTL DEF Spec, Serial, NothingCreated

\* Without a model, statements that throw and restarts, a conversation whose
\* turns do not overlap registers one agent at most: each of the three, and an
\* overlap, would let a second "yes" register it again.
THEOREM OneAgentPerSession ==
  ASSUME ~HasLLM, ~StatementsMayFail, ~ProcessMayStop
  PROVE  Spec /\ Serial => []RegisteredOnce
<1>1. Once => RegisteredOnce
    BY DEF Once, RegisteredOnce
<1> QED BY <1>1, AlwaysOnce, PTL

\* Under the same conditions "Cancelled. Nothing was created." is true.
THEOREM CancelledCreatedNothing ==
  ASSUME ~HasLLM, ~StatementsMayFail, ~ProcessMayStop
  PROVE  Spec /\ Serial => NothingCreated
BY AlwaysOnce, PTL
=============================================================================
