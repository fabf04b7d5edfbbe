------------------------- MODULE AgentRegistry_proofs -------------------------
(***************************************************************************)
(* Proofs about AgentRegistry, for every set of agents, endpoints, texts,  *)
(* requests and sweeps: its variables keep their types, an inactive agent  *)
(* returns only in the ways listed, a retired one never does where         *)
(* administrators only deactivate, the registry implements the abstract    *)
(* status machine, cards and vectors belong to registered agents, and      *)
(* search answers from current texts where writes do not overlap.          *)
(***************************************************************************)
EXTENDS AgentRegistry, FiniteSetTheorems, TLAPS

\* The values the steps write are of their types.
LEMMA StatusTypes ==
  /\ Live \subseteq Statuses
  /\ "active" \in Statuses /\ "inactive" \in Statuses
  /\ "absent" \notin Statuses
  /\ \A h \in {"up", "slow", "down"} :
       Verdict(h) \in Verdicts /\ StatusFor(Verdict(h)) \in Statuses
BY DEF Live, Statuses, Verdict, StatusFor, Verdicts

\* The initial state is well typed.
LEMMA InitTypeOK == Init => TypeOK
<1> SUFFICES ASSUME Init PROVE TypeOK
    OBVIOUS
<1>1. status \in [Agents -> Statuses \union {"absent"}]
    BY StatusTypes DEF Init
<1>2. /\ endpoint \in [Agents -> Endpoints \union {NoEndpoint}]
      /\ text \in [Agents -> Texts \union {NoText}]
      /\ card \in [Agents -> Texts \union {NoText}]
      /\ vector \in [Agents -> Texts \union {NoText}]
    BY DEF Init
<1>3. /\ lastCheck \in [Agents -> Verdicts \union {"none"}]
      /\ lastCall \in [Agents -> Outcomes \union {"none"}]
      /\ unaudited \in [Agents -> Nat]
    BY DEF Init
<1>4. /\ req \in [Requests -> WriteJobs \union CallJobs \union {Idle}]
      /\ checks \in [Sweeps -> SUBSET Probes]
      /\ mapped \in SUBSET Agents
    BY DEF Init
<1>5. health \in [Endpoints -> {"up", "slow", "down"}] /\ restarts \in 0..MaxRestarts
    BY MaxRestartsAssumption DEF Init
<1> QED BY <1>1, <1>2, <1>3, <1>4, <1>5 DEF TypeOK


\* Every write in flight names an agent and a text.
LEMMA WriteInFlight ==
  ASSUME TypeOK, NEW r \in Requests, req[r].op \in {"post", "put", "connect"}
  PROVE  req[r] \in WriteJobs
BY DEF TypeOK, WriteJobs, CallJobs, Idle

\* Every call in flight names an agent, a URL and the status it saw.
LEMMA CallInFlight ==
  ASSUME TypeOK, NEW r \in Requests, req[r].op = "call"
  PROVE  req[r] \in CallJobs
BY DEF TypeOK, WriteJobs, CallJobs, Idle

\* The writers of an agent are finitely many.
LEMMA WritersFinite ==
  ASSUME NEW a \in Agents
  PROVE  IsFiniteSet(Writers(a)) /\ Cardinality(Writers(a)) \in Nat
BY RequestsAssumption, FS_Subset, FS_CardinalityType DEF Writers

\* A write that starts joins the writers of its agent, and only those.
LEMMA WriteStarts ==
  ASSUME TypeOK, NEW r \in Requests, NEW a \in Agents, Free(r),
         NEW j \in WriteJobs, j.agent = a, req' = [req EXCEPT ![r] = j]
  PROVE  \A b \in Agents :
           Cardinality(Writers(b)') =
             Cardinality(Writers(b)) + (IF b = a THEN 1 ELSE 0)
<1> TAKE b \in Agents
<1>1. CASE b = a
  <2>1. r \notin Writers(a) /\ Writers(a)' = Writers(a) \union {r}
    BY DEF TypeOK, Writers, Writing, Free, Idle, WriteJobs
  <2> QED BY <1>1, <2>1, WritersFinite, FS_AddElement
<1>2. CASE b # a
  <2>1. Writers(b)' = Writers(b)
    BY <1>2 DEF TypeOK, Writers, Writing, Free, Idle, WriteJobs
  <2> QED BY <1>2, <2>1, WritersFinite
<1> QED BY <1>1, <1>2

\* A write that ends leaves the writers of its agent, and only those.
LEMMA WriteEnds ==
  ASSUME TypeOK, NEW r \in Requests, req[r] \in WriteJobs,
         req' = [req EXCEPT ![r] = Idle]
  PROVE  \A b \in Agents :
           Cardinality(Writers(b)) =
             Cardinality(Writers(b)') + (IF b = req[r].agent THEN 1 ELSE 0)
<1> TAKE b \in Agents
<1>1. CASE b = req[r].agent
  <2>1. r \in Writers(b) /\ Writers(b)' = Writers(b) \ {r}
    BY <1>1 DEF TypeOK, Writers, Writing, Idle, WriteJobs
  <2>2. /\ Cardinality(Writers(b)') = Cardinality(Writers(b)) - 1
        /\ Cardinality(Writers(b)) \in Nat
    BY <2>1, WritersFinite, FS_RemoveElement
  <2> QED BY <1>1, <2>2
<1>2. CASE b # req[r].agent
  <2>1. Writers(b)' = Writers(b)
    BY <1>2 DEF TypeOK, Writers, Writing, Idle, WriteJobs
  <2> QED BY <1>2, <2>1, WritersFinite
<1> QED BY <1>1, <1>2

\* A request that starts or ends without writing leaves the writers alone.
LEMMA WritersUnchanged ==
  ASSUME TypeOK, NEW r \in Requests, req[r] \notin WriteJobs,
         NEW j \in CallJobs \union {Idle}, req' = [req EXCEPT ![r] = j]
  PROVE  \A b \in Agents : Writers(b)' = Writers(b)
BY DEF TypeOK, Writers, Writing, Idle, WriteJobs, CallJobs

\* An agent owes at least one audit row for each of its writes in flight, and
\* exactly that many until the process is restarted.  This is what keeps
\* unaudited a natural number when a write ends.
Owed ==
  \A a \in Agents :
    /\ Cardinality(Writers(a)) <= unaudited[a]
    /\ restarts = 0 => unaudited[a] = Cardinality(Writers(a))

IInv == TypeOK /\ Owed

LEMMA InitIInv == Init => IInv
<1> SUFFICES ASSUME Init PROVE Owed
    BY InitTypeOK DEF IInv
<1>1. \A a \in Agents : Writers(a) = {}
    BY DEF Init, Writers, Writing, Idle
<1>2. \A a \in Agents : Cardinality(Writers(a)) = 0
    BY <1>1, FS_EmptySet
<1> QED BY <1>2 DEF Init, Owed

\* Inserting an agent's row keeps the invariant.
LEMMA InsertKeepsIInv ==
  ASSUME IInv, NEW r \in Requests, NEW a \in Agents, NEW t \in Texts,
         NEW e \in Endpoints \union {NoEndpoint}, NEW op \in {"post", "connect"},
         InsertAgent(r, a, t, e, op)
  PROVE  IInv'
<1> DEFINE j == [op |-> op, agent |-> a, text |-> t]
<1>1. j \in WriteJobs /\ j.agent = a
    BY DEF WriteJobs
<1>2. \A b \in Agents :
        Cardinality(Writers(b)') =
          Cardinality(Writers(b)) + (IF b = a THEN 1 ELSE 0)
    BY <1>1, WriteStarts DEF InsertAgent, IInv
<1>3. /\ req' \in [Requests -> WriteJobs \union CallJobs \union {Idle}]
      /\ unaudited' \in [Agents -> Nat]
    BY <1>1 DEF IInv, TypeOK, InsertAgent
<1>4. status' \in [Agents -> Statuses \union {"absent"}]
    BY StatusTypes DEF IInv, TypeOK, InsertAgent
<1>5. TypeOK'
    BY <1>3, <1>4 DEF IInv, TypeOK, InsertAgent, index, history, world
<1>6. Owed'
    BY <1>2, WritersFinite DEF IInv, TypeOK, Owed, InsertAgent, world
<1> QED BY <1>5, <1>6 DEF IInv

\* The fields of a PUT body are of the columns' types.
LEMMA ApplyBodyTypes ==
  ASSUME TypeOK, NEW a \in Agents, NEW b \in Bodies, ApplyBody(a, b)
  PROVE  /\ status' \in [Agents -> Statuses \union {"absent"}]
         /\ endpoint' \in [Agents -> Endpoints \union {NoEndpoint}]
         /\ text' \in [Agents -> Texts \union {NoText}]
BY AdminStatusesAssumption DEF TypeOK, Bodies, ApplyBody

LEMMA PutTextKeepsIInv ==
  ASSUME IInv, NEW r \in Requests, NEW a \in Agents, NEW b \in Bodies, PutText(r, a, b)
  PROVE  IInv'
<1> DEFINE j == [op |-> "put", agent |-> a, text |-> b.text]
<1>1. j \in WriteJobs /\ j.agent = a
    BY DEF WriteJobs, PutText, Bodies
<1>2. \A c \in Agents :
        Cardinality(Writers(c)') =
          Cardinality(Writers(c)) + (IF c = a THEN 1 ELSE 0)
    BY <1>1, WriteStarts DEF PutText, IInv
<1>3. /\ req' \in [Requests -> WriteJobs \union CallJobs \union {Idle}]
      /\ unaudited' \in [Agents -> Nat]
    BY <1>1 DEF IInv, TypeOK, PutText
<1>4. TypeOK /\ ApplyBody(a, b)
    BY DEF IInv, PutText
<1>5. /\ status' \in [Agents -> Statuses \union {"absent"}]
      /\ endpoint' \in [Agents -> Endpoints \union {NoEndpoint}]
      /\ text' \in [Agents -> Texts \union {NoText}]
    BY <1>4, ApplyBodyTypes
<1>6. TypeOK'
    BY <1>3, <1>4, <1>5 DEF TypeOK, ApplyBody, index, history, world
<1>7. Owed'
    BY <1>2, WritersFinite DEF IInv, TypeOK, Owed, PutText, ApplyBody, world
<1> QED BY <1>6, <1>7 DEF IInv

LEMMA PutInPlaceKeepsIInv ==
  ASSUME IInv, NEW a \in Agents, NEW b \in Bodies, PutInPlace(a, b)
  PROVE  IInv'
<1>1. TypeOK'
    BY ApplyBodyTypes DEF IInv, TypeOK, PutInPlace, ApplyBody, index, history, world
<1>2. Owed'
    BY DEF IInv, Owed, Writers, Writing, PutInPlace, ApplyBody, world
<1> QED BY <1>1, <1>2 DEF IInv

\* A write that ends pays the audit row it owes.
LEMMA FinishKeepsIInv ==
  ASSUME IInv, NEW r \in Requests, req[r].op \in {"post", "put", "connect"},
         mapped' \in SUBSET Agents, vector' \in [Agents -> Texts \union {NoText}],
         FinishWrite(r)
  PROVE  IInv'
<1> DEFINE a == req[r].agent
<1>1. req[r] \in WriteJobs /\ a \in Agents
    BY WriteInFlight DEF IInv, WriteJobs
<1>2. \A b \in Agents :
        Cardinality(Writers(b)) =
          Cardinality(Writers(b)') + (IF b = a THEN 1 ELSE 0)
    BY <1>1, WriteEnds DEF FinishWrite, IInv
<1>3. \A b \in Agents : Cardinality(Writers(b)') \in Nat
    <2>1. \A b \in Agents : Writers(b)' \in SUBSET Requests
      BY DEF Writers
    <2> QED BY <2>1, RequestsAssumption, FS_Subset, FS_CardinalityType
<1>4. unaudited' \in [Agents -> Nat] /\ Owed'
    BY <1>1, <1>2, <1>3 DEF IInv, TypeOK, Owed, FinishWrite, world
<1>5. TypeOK'
    BY <1>1, <1>4 DEF IInv, TypeOK, FinishWrite, history, world
<1> QED BY <1>4, <1>5 DEF IInv

LEMMA DeleteKeepsIInv ==
  ASSUME IInv, NEW a \in Agents, DeleteAgent(a)
  PROVE  IInv'
<1>1. TypeOK'
    BY StatusTypes DEF IInv, TypeOK, DeleteAgent, index, history, world
<1>2. Owed'
    BY DEF IInv, Owed, Writers, Writing, DeleteAgent, world
<1> QED BY <1>1, <1>2 DEF IInv

LEMMA StoreKeepsIInv ==
  ASSUME IInv, NEW r \in Requests, StoreEmbedding(r) \/ EmbeddingFails(r)
  PROVE  IInv'
<1>1. req[r].op \in {"post", "put", "connect"} /\ FinishWrite(r)
    BY DEF StoreEmbedding, EmbeddingFails
<1>2. req[r].agent \in Agents /\ req[r].text \in Texts
    BY <1>1, WriteInFlight DEF IInv, WriteJobs
<1>3. mapped' \in SUBSET Agents /\ vector' \in [Agents -> Texts \union {NoText}]
    BY <1>2 DEF IInv, TypeOK, StoreEmbedding, EmbeddingFails
<1> QED BY <1>1, <1>3, FinishKeepsIInv

LEMMA StartCallKeepsIInv ==
  ASSUME IInv, NEW r \in Requests, NEW a \in Agents, StartCall(r, a)
  PROVE  IInv'
<1> DEFINE j == [op |-> "call", agent |-> a, url |-> endpoint[a], seen |-> status[a]]
<1>1. j \in CallJobs /\ req[r] \notin WriteJobs
    BY DEF IInv, TypeOK, StartCall, CallJobs, Free, Idle, WriteJobs
<1>2. \A b \in Agents : Writers(b)' = Writers(b)
    BY <1>1, WritersUnchanged DEF IInv, StartCall
<1>3. req' \in [Requests -> WriteJobs \union CallJobs \union {Idle}]
    BY <1>1 DEF IInv, TypeOK, StartCall
<1>4. TypeOK'
    BY <1>3 DEF IInv, TypeOK, StartCall, rows, index, history, world
<1>5. Owed'
    BY <1>2 DEF IInv, Owed, StartCall, world
<1> QED BY <1>4, <1>5 DEF IInv

LEMMA EndCallKeepsIInv ==
  ASSUME IInv, NEW r \in Requests, EndCall(r) \/ AbandonCall(r)
  PROVE  IInv'
<1>1. req[r] \in CallJobs /\ req[r].agent \in Agents /\ req[r] \notin WriteJobs
    BY CallInFlight DEF IInv, EndCall, AbandonCall, CallJobs, WriteJobs
<1>2. req' = [req EXCEPT ![r] = Idle]
    BY DEF EndCall, AbandonCall
<1>3. \A b \in Agents : Writers(b)' = Writers(b)
    BY <1>1, <1>2, WritersUnchanged DEF IInv
<1>4. /\ status' \in [Agents -> Statuses \union {"absent"}]
      /\ lastCall' \in [Agents -> Outcomes \union {"none"}]
    BY <1>1, StatusTypes
    DEF IInv, TypeOK, EndCall, AbandonCall, CallOutcomes, rows, history
<1>5. TypeOK'
    BY <1>2, <1>4 DEF IInv, TypeOK, EndCall, AbandonCall, rows, index, history, world
<1>6. Owed'
    BY <1>3 DEF IInv, Owed, EndCall, AbandonCall, world
<1> QED BY <1>5, <1>6 DEF IInv

LEMMA ReportKeepsIInv ==
  ASSUME IInv, NEW a \in Agents,
         (\E o \in Outcomes : Report(a, o)) \/ BuiltinTask(a)
  PROVE  IInv'
<1>1. lastCall' \in [Agents -> Outcomes \union {"none"}]
    BY DEF IInv, TypeOK, Report, BuiltinTask, Outcomes
<1>2. TypeOK'
    BY <1>1 DEF IInv, TypeOK, Report, BuiltinTask, rows, index, world
<1>3. Owed'
    BY DEF IInv, Owed, Writers, Writing, Report, BuiltinTask, world
<1> QED BY <1>2, <1>3 DEF IInv

LEMMA SweepKeepsIInv ==
  ASSUME IInv, NEW s \in Sweeps,
         StartSweep(s) \/ (\E p \in Probes : EndCheck(s, p))
  PROVE  IInv'
<1>1. CASE StartSweep(s)
  <2>1. checks' \in [Sweeps -> SUBSET Probes]
    BY <1>1 DEF IInv, TypeOK, StartSweep, Eligible
  <2>2. TypeOK'
    BY <1>1, <2>1 DEF IInv, TypeOK, StartSweep, rows, index, history, world
  <2>3. Owed'
    BY <1>1 DEF IInv, Owed, Writers, Writing, StartSweep, world
  <2> QED BY <2>2, <2>3 DEF IInv
<1>2. ASSUME NEW p \in Probes, EndCheck(s, p) PROVE IInv'
  <2> DEFINE v == Verdict(health[p.url])
  <2>1. p.agent \in Agents /\ v \in Verdicts /\ StatusFor(v) \in Statuses
    BY StatusTypes DEF Probes, IInv, TypeOK
  <2>2. /\ status' \in [Agents -> Statuses \union {"absent"}]
        /\ lastCheck' \in [Agents -> Verdicts \union {"none"}]
        /\ checks' \in [Sweeps -> SUBSET Probes]
    <3> HIDE DEF v
    <3>1. /\ lastCheck' = [lastCheck EXCEPT ![p.agent] = v]
          /\ status' = [status EXCEPT ![p.agent] =
                          IF @ = "inactive" THEN @ ELSE StatusFor(v)]
          /\ checks' = [checks EXCEPT ![s] = @ \ {p}]
      BY <1>2 DEF EndCheck, v
    <3> QED BY <2>1, <3>1 DEF IInv, TypeOK
  <2>3. TypeOK'
    BY <1>2, <2>2 DEF IInv, TypeOK, EndCheck, index, world
  <2>4. Owed'
    BY <1>2 DEF IInv, Owed, Writers, Writing, EndCheck, world
  <2> QED BY <2>3, <2>4 DEF IInv
<1> QED BY <1>1, <1>2

LEMMA WorldKeepsIInv ==
  ASSUME IInv,
         \/ Restart
         \/ \E e \in Endpoints, h \in {"up", "slow", "down"} : EndpointTurns(e, h)
         \/ UNCHANGED vars
  PROVE  IInv'
<1>1. CASE Restart
  <2>1. \A a \in Agents : Writers(a)' = {}
    BY <1>1 DEF Restart, Writers, Writing, Idle
  <2>2. Owed'
    <3>1. \A a \in Agents : Cardinality(Writers(a)') = 0
      BY <2>1, FS_EmptySet
    <3>2. restarts' # 0
      BY <1>1, MaxRestartsAssumption DEF IInv, TypeOK, Restart
    <3>3. \A a \in Agents : unaudited'[a] \in Nat
      BY <1>1 DEF IInv, TypeOK, Restart
    <3> QED BY <3>1, <3>2, <3>3 DEF Owed
  <2>3. /\ status' \in [Agents -> Statuses \union {"absent"}]
        /\ req' \in [Requests -> WriteJobs \union CallJobs \union {Idle}]
        /\ checks' \in [Sweeps -> SUBSET Probes]
        /\ restarts' \in 0..MaxRestarts
    BY <1>1, StatusTypes, MaxRestartsAssumption DEF IInv, TypeOK, Restart
  <2>4. TypeOK'
    BY <1>1, <2>3 DEF IInv, TypeOK, Restart, index, history
  <2> QED BY <2>2, <2>4 DEF IInv
<1>2. CASE \E e \in Endpoints, h \in {"up", "slow", "down"} : EndpointTurns(e, h)
  <2>1. TypeOK'
    BY <1>2 DEF IInv, TypeOK, EndpointTurns, rows, index, history
  <2>2. Owed'
    BY <1>2 DEF IInv, Owed, Writers, Writing, EndpointTurns
  <2> QED BY <2>1, <2>2 DEF IInv
<1>3. CASE UNCHANGED vars
  <2>1. TypeOK'
    BY <1>3 DEF IInv, TypeOK, vars, rows, index, history, world
  <2>2. Owed'
    BY <1>3 DEF IInv, Owed, Writers, Writing, vars, world
  <2> QED BY <2>1, <2>2 DEF IInv
<1> QED BY <1>1, <1>2, <1>3

\* Every step keeps the inductive invariant.
LEMMA NextKeepsIInv == IInv /\ [Next]_vars => IInv'
<1> SUFFICES ASSUME IInv, [Next]_vars PROVE IInv'
    OBVIOUS
<1>1. ASSUME NEW r \in Requests, NEW a \in Agents, NEW t \in Texts,
             NEW e \in Endpoints \union {NoEndpoint},
             PostAgent(r, a, t, e) \/ ConnectAgent(r, a, t, e)
      PROVE  IInv'
    BY <1>1, InsertKeepsIInv DEF PostAgent, ConnectAgent
<1>2. ASSUME NEW r \in Requests, NEW a \in Agents, NEW b \in Bodies, PutText(r, a, b)
      PROVE  IInv'
    BY <1>2, PutTextKeepsIInv
<1>3. ASSUME NEW r \in Requests, NEW a \in Agents, StartCall(r, a)
      PROVE  IInv'
    BY <1>3, StartCallKeepsIInv
<1>4. ASSUME NEW r \in Requests, StoreEmbedding(r) \/ EmbeddingFails(r)
      PROVE  IInv'
    BY <1>4, StoreKeepsIInv
<1>5. ASSUME NEW r \in Requests, EndCall(r) \/ AbandonCall(r)
      PROVE  IInv'
    BY <1>5, EndCallKeepsIInv
<1>6. ASSUME NEW a \in Agents, NEW b \in Bodies, PutInPlace(a, b)
      PROVE  IInv'
    BY <1>6, PutInPlaceKeepsIInv
<1>7. ASSUME NEW a \in Agents, DeleteAgent(a)
      PROVE  IInv'
    BY <1>7, DeleteKeepsIInv
<1>8. ASSUME NEW a \in Agents, (\E o \in Outcomes : Report(a, o)) \/ BuiltinTask(a)
      PROVE  IInv'
    BY <1>8, ReportKeepsIInv
<1>9. ASSUME NEW s \in Sweeps, StartSweep(s) \/ (\E p \in Probes : EndCheck(s, p))
      PROVE  IInv'
    BY <1>9, SweepKeepsIInv
<1>10. ASSUME \/ Restart
              \/ \E e \in Endpoints, h \in {"up", "slow", "down"} : EndpointTurns(e, h)
              \/ UNCHANGED vars
       PROVE  IInv'
    BY <1>10, WorldKeepsIInv
<1> QED BY <1>1, <1>2, <1>3, <1>4, <1>5, <1>6, <1>7, <1>8, <1>9, <1>10 DEF Next

LEMMA Invariance == Spec => []IInv
BY InitIInv, NextKeepsIInv, PTL DEF Spec

\* The variables of the registry keep their types: in particular the count of
\* owed audit rows never drops below zero.
THEOREM TypeCorrect == Spec => []TypeOK
BY Invariance, PTL DEF IInv

\* While the process has not been restarted, the audit rows owed for an agent
\* are exactly those of the writes suspended at their embedding (the audit
\* call that ends each handler of routes/agents.js and connect-agent.js).
THEOREM AuditComplete == Spec => []AuditOwedOnlyInFlight
<1>1. IInv => AuditOwedOnlyInFlight
    BY DEF IInv, Owed, AuditOwedOnlyInFlight
<1> QED BY <1>1, Invariance, PTL

-----------------------------------------------------------------------------
(* Rows are never removed, and sweeps only hold agents that have one.      *)

LEMMA StaysRegistered ==
  ASSUME TypeOK, [Next]_vars
  PROVE  \A a \in Agents : Registered(a) => Registered(a)'
<1>1. CASE UNCHANGED vars
    BY <1>1 DEF Registered, vars, rows
<1>2. ASSUME NEW r \in Requests, NEW a \in Agents, NEW t \in Texts,
             NEW e \in Endpoints \union {NoEndpoint},
             PostAgent(r, a, t, e) \/ ConnectAgent(r, a, t, e)
      PROVE  \A c \in Agents : Registered(c) => Registered(c)'
    BY <1>2 DEF PostAgent, ConnectAgent, InsertAgent, Registered, TypeOK
<1>3. ASSUME NEW a \in Agents, NEW b \in Bodies, ApplyBody(a, b)
      PROVE  \A c \in Agents : Registered(c) => Registered(c)'
    BY <1>3, AdminStatusesAssumption, StatusTypes DEF ApplyBody, Bodies, Registered, TypeOK
<1>4. ASSUME NEW r \in Requests, EndCall(r)
      PROVE  \A c \in Agents : Registered(c) => Registered(c)'
    BY <1>4 DEF EndCall, Registered, TypeOK
<1>5. ASSUME NEW s \in Sweeps, NEW p \in Probes, EndCheck(s, p)
      PROVE  \A c \in Agents : Registered(c) => Registered(c)'
  <2>1. StatusFor(Verdict(health[p.url])) \in Statuses
    BY StatusTypes DEF Probes, TypeOK
  <2> QED BY <1>5, <2>1, StatusTypes DEF EndCheck, Registered, TypeOK
<1>6. ASSUME NEW a \in Agents, DeleteAgent(a)
      PROVE  \A c \in Agents : Registered(c) => Registered(c)'
    BY <1>6 DEF DeleteAgent, Registered, TypeOK
<1>7. CASE Restart
    BY <1>7 DEF Restart, Registered, TypeOK
<1>8. ASSUME status' = status
      PROVE  \A c \in Agents : Registered(c) => Registered(c)'
    BY <1>8 DEF Registered
<1> QED
    BY <1>1, <1>2, <1>3, <1>4, <1>5, <1>6, <1>7, <1>8
    DEF Next, PutText, PutInPlace, StartCall, StoreEmbedding, EmbeddingFails,
        FinishWrite, AbandonCall, Report, BuiltinTask, StartSweep, EndpointTurns, rows

ProbesKnown == \A s \in Sweeps : \A p \in checks[s] : Registered(p.agent)

LEMMA ProbesKnownInvariance == Spec => []ProbesKnown
<1>1. Init => ProbesKnown
    BY DEF Init, ProbesKnown
<1>2. ASSUME TypeOK, ProbesKnown, [Next]_vars
      PROVE  ProbesKnown'
  <2>1. \A a \in Agents : Registered(a) => Registered(a)'
    BY <1>2, StaysRegistered
  <2>2. ASSUME NEW s \in Sweeps, NEW p \in checks'[s]
        PROVE  p \in Probes /\ Registered(p.agent)
    <3>1. CASE p \in checks[s]
      BY <1>2, <3>1 DEF TypeOK, ProbesKnown
    <3>2. CASE p \notin checks[s]
      <4>1. p \in Eligible
        BY <1>2, <2>2, <3>2
        DEF Next, vars, PostAgent, ConnectAgent, InsertAgent, PutText, PutInPlace,
            ApplyBody, DeleteAgent, StoreEmbedding, EmbeddingFails, FinishWrite,
            StartCall, EndCall, AbandonCall, Report, BuiltinTask, StartSweep,
            EndCheck, Restart, EndpointTurns, TypeOK
      <4> QED BY <4>1 DEF Eligible, Registered, Live
    <3> QED BY <3>1, <3>2
  <2> QED BY <2>1, <2>2 DEF ProbesKnown, Probes
<1> QED BY <1>1, <1>2, TypeCorrect, PTL DEF Spec

-----------------------------------------------------------------------------
(* What search joins, and the cards                                        *)

\* Requests in flight are about registered agents, registered agents have a text
\* (the built-in ones aside, whose text no route writes first), vectors have
\* their map rows, and while the process has not been restarted an agent without
\* a card is still being created.
RequestsKnown == \A r \in Requests : req[r] # Idle => Registered(req[r].agent)
TextsKnown == \A a \in Agents \ Builtin : Registered(a) => text[a] \in Texts
Catalogued == RequestsKnown /\ TextsKnown /\ IndexJoins /\ CardStored

LEMMA InitCatalogued == Init => Catalogued
<1> SUFFICES ASSUME Init PROVE Catalogued
    OBVIOUS
<1>1. RequestsKnown
    BY DEF Init, RequestsKnown
<1>2. TextsKnown /\ CardStored
    BY DEF Init, TextsKnown, CardStored, Registered
<1>3. IndexJoins
    BY DEF Init, IndexJoins
<1> QED BY <1>1, <1>2, <1>3 DEF Catalogued

\* A request that starts: the row it is about is there.
LEMMA StartKeepsKnown ==
  ASSUME TypeOK, RequestsKnown, NEW r \in Requests, NEW j, req' = [req EXCEPT ![r] = j],
         \A a \in Agents : Registered(a) => Registered(a)',
         j # Idle => Registered(j.agent)',
         \A q \in Requests : req[q] # Idle => req[q].agent \in Agents
  PROVE  RequestsKnown'
BY DEF RequestsKnown, TypeOK

\* What a request in flight is about is an agent.
LEMMA JobsName ==
  ASSUME TypeOK
  PROVE  \A q \in Requests : req[q] # Idle => req[q].agent \in Agents
BY DEF TypeOK, WriteJobs, CallJobs

LEMMA InsertKeepsCatalogued ==
  ASSUME TypeOK, Catalogued, NEW r \in Requests, NEW a \in Agents, NEW t \in Texts,
         NEW e \in Endpoints \union {NoEndpoint}, NEW op \in {"post", "connect"},
         InsertAgent(r, a, t, e, op)
  PROVE  Catalogued'
<1> DEFINE j == [op |-> op, agent |-> a, text |-> t]
<1>1. req' = [req EXCEPT ![r] = j] /\ j.agent = a /\ j.op = op
    BY DEF InsertAgent
<1>2. status' = [status EXCEPT ![a] = "active"] /\ text' = [text EXCEPT ![a] = t]
    BY DEF InsertAgent
<1>3. /\ \A c \in Agents : Registered(c) => Registered(c)'
      /\ Registered(a)' /\ ~Registered(a)
    BY <1>2 DEF InsertAgent, Registered, TypeOK
<1>4. req[r] = Idle /\ card' = card /\ mapped' = mapped /\ vector' = vector
      /\ restarts' = restarts
    BY DEF InsertAgent, Free, index, world
<1> HIDE DEF j
<1>5. RequestsKnown'
    BY <1>1, <1>3, StartKeepsKnown, JobsName DEF Catalogued
<1>6. TextsKnown'
    BY <1>2 DEF Catalogued, TextsKnown, Registered, TypeOK
<1>7. IndexJoins'
    BY <1>3, <1>4 DEF Catalogued, IndexJoins
<1>8. CardStored'
  <2> SUFFICES ASSUME restarts' = 0, NEW c \in Agents \ Builtin,
                      Registered(c)', card'[c] = NoText
               PROVE  \E q \in Requests : Creating(q, c)'
      BY DEF CardStored
  <2>1. CASE c = a
      BY <1>1, <2>1 DEF Creating, TypeOK
  <2>2. CASE c # a
    <3>1. Registered(c) /\ card[c] = NoText
        BY <1>2, <1>4, <2>2 DEF Registered, TypeOK
    <3>2. PICK q \in Requests : Creating(q, c)
        BY <1>4, <3>1 DEF Catalogued, CardStored
    <3>3. q # r
        BY <1>4, <3>2 DEF Creating, Idle
    <3> QED BY <1>1, <3>2, <3>3 DEF Creating, TypeOK
  <2> QED BY <2>1, <2>2
<1> QED BY <1>5, <1>6, <1>7, <1>8 DEF Catalogued

\* A PUT changes neither cards, nor vectors, nor who is being created.
LEMMA PutKeepsCatalogued ==
  ASSUME TypeOK, Catalogued, NEW a \in Agents, NEW b \in Bodies,
         \/ PutInPlace(a, b)
         \/ \E r \in Requests : PutText(r, a, b)
  PROVE  Catalogued'
<1>1. ApplyBody(a, b) /\ Registered(a)
    BY DEF PutInPlace, PutText, ApplyBody
<1>2. \A c \in Agents : Registered(c)' <=> Registered(c)
    BY <1>1, AdminStatusesAssumption, StatusTypes
    DEF ApplyBody, Bodies, Registered, TypeOK
<1>3. \A c \in Agents \ Builtin : text[c] \in Texts => text'[c] \in Texts
    BY <1>1 DEF ApplyBody, Bodies, TypeOK
<1>4. card' = card /\ mapped' = mapped /\ vector' = vector /\ restarts' = restarts
    BY <1>1 DEF ApplyBody, index, world
<1>5. TextsKnown' /\ IndexJoins'
    BY <1>2, <1>3, <1>4 DEF Catalogued, TextsKnown, IndexJoins
<1>6. CASE PutInPlace(a, b)
  <2>1. req' = req
      BY <1>6 DEF PutInPlace
  <2>2. RequestsKnown' /\ CardStored'
      BY <1>2, <1>4, <2>1, JobsName DEF Catalogued, RequestsKnown, CardStored, Creating
  <2> QED BY <1>5, <2>2 DEF Catalogued
<1>7. ASSUME NEW r \in Requests, PutText(r, a, b) PROVE Catalogued'
  <2> DEFINE j == [op |-> "put", agent |-> a, text |-> b.text]
  <2>1. req' = [req EXCEPT ![r] = j] /\ j.agent = a /\ j.op = "put" /\ req[r] = Idle
      BY <1>7 DEF PutText, Free
  <2> HIDE DEF j
  <2>2. RequestsKnown'
      BY <1>1, <1>2, <2>1, StartKeepsKnown, JobsName DEF Catalogued
  <2>3. \A q \in Requests, c \in Agents : Creating(q, c) => Creating(q, c)'
      BY <2>1 DEF Creating, Idle, TypeOK
  <2>4. CardStored'
      BY <1>2, <1>4, <2>3 DEF Catalogued, CardStored
  <2> QED BY <1>5, <2>2, <2>4 DEF Catalogued
<1> QED BY <1>6, <1>7

\* A write that ends stores a card when it created the agent, and whatever it
\* puts in the index is about a registered agent.
LEMMA StoreKeepsCatalogued ==
  ASSUME TypeOK, Catalogued, NEW r \in Requests, StoreEmbedding(r) \/ EmbeddingFails(r)
  PROVE  Catalogued'
<1> DEFINE a == req[r].agent
<1>1. FinishWrite(r) /\ req[r].op \in {"post", "put", "connect"}
    BY DEF StoreEmbedding, EmbeddingFails
<1>2. req[r] \in WriteJobs /\ a \in Agents /\ req[r] # Idle
    BY <1>1, WriteInFlight DEF WriteJobs, Idle
<1>3. Registered(a)
    BY <1>2 DEF Catalogued, RequestsKnown
<1>4. /\ req' = [req EXCEPT ![r] = Idle] /\ status' = status /\ text' = text
      /\ restarts' = restarts
      /\ card' = [card EXCEPT ![a] = IF Creating(r, a) THEN text[a] ELSE @]
    BY <1>1 DEF FinishWrite, world
<1>5. \A c \in Agents : Registered(c)' <=> Registered(c)
    BY <1>4 DEF Registered
<1>6. RequestsKnown' /\ TextsKnown'
    BY <1>4, <1>5, JobsName DEF Catalogued, RequestsKnown, TextsKnown, TypeOK
<1>7. IndexJoins'
  <2>1. /\ mapped' \in {mapped, mapped \union {a}}
        /\ \/ vector' = vector
           \/ mapped' = mapped \union {a} /\ vector' = [vector EXCEPT ![a] = req[r].text]
      BY DEF StoreEmbedding, EmbeddingFails
  <2> HIDE DEF a
  <2> QED BY <1>2, <1>3, <1>5, <2>1 DEF Catalogued, IndexJoins, TypeOK
<1>8. CardStored'
  <2> SUFFICES ASSUME restarts' = 0, NEW c \in Agents \ Builtin,
                      Registered(c)', card'[c] = NoText
               PROVE  \E q \in Requests : Creating(q, c)'
      BY DEF CardStored
  <2>1. Registered(c) /\ text[c] # NoText
      BY <1>5, NoTextAssumption DEF Catalogued, TextsKnown
  <2>2. ~Creating(r, c)
    <3>1. Creating(r, c) => c = a
        BY DEF Creating
    <3> QED BY <1>2, <1>4, <2>1, <3>1 DEF TypeOK
  <2>3. card[c] = NoText
    <3>1. CASE c = a
        BY <1>2, <1>4, <2>2, <3>1 DEF TypeOK
    <3>2. CASE c # a
        BY <1>4, <3>2 DEF TypeOK
    <3> QED BY <3>1, <3>2
  <2>4. PICK q \in Requests : Creating(q, c)
      BY <1>4, <2>1, <2>3 DEF Catalogued, CardStored
  <2>5. q # r
      BY <2>2, <2>4
  <2> QED BY <1>4, <2>4, <2>5 DEF Creating, TypeOK
<1> QED BY <1>6, <1>7, <1>8 DEF Catalogued


\* A step that registers nobody and writes neither texts, cards nor the index.
LEMMA OtherKeepsCatalogued ==
  ASSUME Catalogued, RequestsKnown',
         \A a \in Agents : Registered(a)' <=> Registered(a),
         UNCHANGED <<text, card, mapped, vector>>,
         restarts' = 0 =>
           restarts = 0 /\ \A r \in Requests, a \in Agents : Creating(r, a) => Creating(r, a)'
  PROVE  Catalogued'
<1>1. TextsKnown' /\ IndexJoins'
    BY DEF Catalogued, TextsKnown, IndexJoins
<1>2. CardStored'
    BY DEF Catalogued, CardStored
<1> QED BY <1>1, <1>2 DEF Catalogued

\* Calls write a status only.
LEMMA CallKeepsCatalogued ==
  ASSUME TypeOK, Catalogued, NEW r \in Requests,
         (\E a \in Agents : StartCall(r, a)) \/ EndCall(r) \/ AbandonCall(r)
  PROVE  Catalogued'
<1>1. /\ UNCHANGED <<text, card, mapped, vector, restarts>>
      /\ \A q \in Requests, a \in Agents : Creating(q, a) => Creating(q, a)'
    BY DEF StartCall, EndCall, AbandonCall, rows, index, world, Creating, Free, Idle, TypeOK
<1>2. ASSUME NEW a \in Agents, StartCall(r, a) PROVE Catalogued'
  <2> DEFINE j == [op |-> "call", agent |-> a, url |-> endpoint[a], seen |-> status[a]]
  <2>1. req' = [req EXCEPT ![r] = j] /\ j.agent = a /\ status' = status
      BY <1>2 DEF StartCall, rows
  <2>2. Registered(a)' /\ \A c \in Agents : Registered(c)' <=> Registered(c)
      BY <1>2, <2>1 DEF StartCall, Registered, Live
  <2> HIDE DEF j
  <2>3. RequestsKnown'
      BY <2>1, <2>2, StartKeepsKnown, JobsName DEF Catalogued
  <2> QED BY <1>1, <2>2, <2>3, OtherKeepsCatalogued
<1>3. CASE EndCall(r) \/ AbandonCall(r)
  <2>1. req[r] # Idle /\ req' = [req EXCEPT ![r] = Idle]
      BY <1>3 DEF EndCall, AbandonCall, Idle
  <2>2. Registered(req[r].agent) /\ req[r].agent \in Agents
      BY <2>1, JobsName DEF Catalogued, RequestsKnown
  <2>3. \A c \in Agents : Registered(c)' <=> Registered(c)
      BY <1>3, <2>2 DEF EndCall, AbandonCall, rows, Registered, TypeOK
  <2>4. RequestsKnown'
      BY <2>1, <2>3, StartKeepsKnown, JobsName DEF Catalogued
  <2> QED BY <1>1, <2>3, <2>4, OtherKeepsCatalogued
<1> QED BY <1>2, <1>3

\* Nor do health checks, reports, deletions and the network.
LEMMA RestKeepsCatalogued ==
  ASSUME TypeOK, ProbesKnown, Catalogued,
         \/ \E a \in Agents : DeleteAgent(a) \/ BuiltinTask(a)
                                \/ \E o \in Outcomes : Report(a, o)
         \/ \E s \in Sweeps : StartSweep(s) \/ \E p \in Probes : EndCheck(s, p)
         \/ \E e \in Endpoints, h \in {"up", "slow", "down"} : EndpointTurns(e, h)
         \/ UNCHANGED vars
  PROVE  Catalogued'
<1>1. UNCHANGED <<text, card, mapped, vector, restarts, req>>
    BY DEF DeleteAgent, BuiltinTask, Report, StartSweep, EndCheck, EndpointTurns, vars,
           rows, index, history, world
<1>2. \A c \in Agents : Registered(c)' <=> Registered(c)
  <2>1. ASSUME NEW s \in Sweeps, NEW p \in Probes, EndCheck(s, p)
        PROVE  \A c \in Agents : Registered(c)' <=> Registered(c)
    <3>1. StatusFor(Verdict(health[p.url])) # "absent" /\ Registered(p.agent)
        BY <2>1, StatusTypes DEF EndCheck, Probes, ProbesKnown, TypeOK
    <3> QED BY <2>1, <3>1 DEF EndCheck, Registered, TypeOK
  <2>2. ASSUME NEW a \in Agents, DeleteAgent(a)
        PROVE  \A c \in Agents : Registered(c)' <=> Registered(c)
      BY <2>2 DEF DeleteAgent, Registered, TypeOK
  <2>3. ASSUME status' = status
        PROVE  \A c \in Agents : Registered(c)' <=> Registered(c)
      BY <2>3 DEF Registered
  <2> QED
      BY <2>1, <2>2, <2>3 DEF BuiltinTask, Report, StartSweep, EndpointTurns, vars, rows
<1>3. RequestsKnown'
    BY <1>1, <1>2, JobsName DEF Catalogued, RequestsKnown
<1> QED BY <1>1, <1>2, <1>3, OtherKeepsCatalogued DEF Creating

LEMMA RestartKeepsCatalogued ==
  ASSUME TypeOK, Catalogued, Restart, \A a \in Builtin : Registered(a)
  PROVE  Catalogued'
<1>1. RequestsKnown'
    BY DEF Restart, RequestsKnown
<1>2. \A c \in Agents : Registered(c)' <=> Registered(c)
    BY BuiltinAssumption DEF Restart, Registered, TypeOK
<1>3. restarts' # 0
    BY MaxRestartsAssumption DEF TypeOK, Restart
<1> QED
    BY <1>1, <1>2, <1>3, OtherKeepsCatalogued DEF Restart, index

\* The built-in agents' rows are there from the first boot on.
LEMMA BuiltinsKnown == Spec => [](\A a \in Builtin : Registered(a))
<1>1. Init => \A a \in Builtin : Registered(a)
    BY BuiltinAssumption DEF Init, Registered
<1>2. TypeOK /\ (\A a \in Builtin : Registered(a)) /\ [Next]_vars
        => (\A a \in Builtin : Registered(a))'
    BY StaysRegistered, BuiltinAssumption
<1> QED BY <1>1, <1>2, TypeCorrect, PTL DEF Spec

LEMMA CataloguedInvariance == Spec => []Catalogued
<1>1. ASSUME TypeOK, ProbesKnown, Catalogued, \A a \in Builtin : Registered(a), [Next]_vars
      PROVE  Catalogued'
  <2>1. ASSUME NEW r \in Requests, NEW a \in Agents, NEW t \in Texts,
               NEW e \in Endpoints \union {NoEndpoint},
               PostAgent(r, a, t, e) \/ ConnectAgent(r, a, t, e)
        PROVE  Catalogued'
      BY <1>1, <2>1, InsertKeepsCatalogued DEF PostAgent, ConnectAgent
  <2>2. ASSUME NEW a \in Agents, NEW b \in Bodies,
               PutInPlace(a, b) \/ \E r \in Requests : PutText(r, a, b)
        PROVE  Catalogued'
      BY <1>1, <2>2, PutKeepsCatalogued
  <2>3. ASSUME NEW r \in Requests, StoreEmbedding(r) \/ EmbeddingFails(r)
        PROVE  Catalogued'
      BY <1>1, <2>3, StoreKeepsCatalogued
  <2>4. ASSUME NEW r \in Requests,
               (\E a \in Agents : StartCall(r, a)) \/ EndCall(r) \/ AbandonCall(r)
        PROVE  Catalogued'
      BY <1>1, <2>4, CallKeepsCatalogued
  <2>5. CASE Restart
      BY <1>1, <2>5, RestartKeepsCatalogued
  <2> QED BY <1>1, <2>1, <2>2, <2>3, <2>4, <2>5, RestKeepsCatalogued DEF Next
<1> QED
    BY <1>1, InitCatalogued, TypeCorrect, ProbesKnownInvariance, BuiltinsKnown, PTL DEF Spec

\* A vector that search finds always joins to a registered agent through its
\* map row, whichever of the two writers of the index (storeEmbedding of
\* routes/agents.js, the INSERT of connect-agent.js) was there first, which of
\* them failed and when the process stopped.
THEOREM IndexAlwaysJoins == Spec => []IndexJoins
<1>1. Catalogued => IndexJoins
    BY DEF Catalogued
<1> QED BY <1>1, CataloguedInvariance, PTL

\* Every agent that POST /agents or Connect has answered for has its card, for
\* any number of overlapping writes, as long as the process is not restarted.
THEOREM CardsAreStored == Spec => []CardStored
<1>1. Catalogued => CardStored
    BY DEF Catalogued
<1> QED BY <1>1, CataloguedInvariance, PTL

-----------------------------------------------------------------------------
(* Search answers from current texts where writes do not overlap           *)

\* No two writes of one agent are in flight, and none was cut off.
NoOverlap ==
  /\ restarts = 0
  /\ \A a \in Agents : \A q, r \in Writers(a) : q = r

\* The text a write will embed is the agent's, and an agent Connect registers
\* has no map row yet, so that its INSERT there will succeed.
WritesCurrent == \A r \in Requests, a \in Agents : Writing(r, a) => req[r].text = text[a]
NewUnmapped ==
  \A r \in Requests, a \in Agents :
    Writing(r, a) /\ req[r].op = "connect" => a \notin mapped

Indexed == IndexFresh /\ WritesCurrent /\ NewUnmapped

LEMMA InitIndexed == Init => Indexed
<1> SUFFICES ASSUME Init PROVE Indexed
    OBVIOUS
<1>1. IndexFresh
    BY DEF Init, IndexFresh
<1>2. WritesCurrent /\ NewUnmapped
    BY DEF Init, WritesCurrent, NewUnmapped, Writing, Idle
<1> QED BY <1>1, <1>2 DEF Indexed

\* A write of one agent that starts, once none other is left in flight.
LEMMA WriteStartsIndexed ==
  ASSUME TypeOK, Indexed, NoOverlap', NEW r \in Requests, NEW a \in Agents, Free(r),
         NEW t \in Texts, NEW op \in {"post", "put", "connect"},
         op = "connect" => a \notin mapped,
         req' = [req EXCEPT ![r] = [op |-> op, agent |-> a, text |-> t]],
         text' = [text EXCEPT ![a] = t], vector' = vector, mapped' = mapped
  PROVE  Indexed'
<1>1. /\ Writing(r, a)' /\ r \in Writers(a)'
      /\ req'[r].op = op /\ req'[r].text = text'[a]
    BY DEF Writing, Writers, TypeOK
<1>2. \A q \in Requests \ {r} :
        req'[q] = req[q] /\ \A c \in Agents : Writing(q, c)' <=> Writing(q, c)
    BY DEF Writing, TypeOK
<1>3. \A q \in Requests \ {r} : ~Writing(q, a)'
    BY <1>1 DEF NoOverlap, Writers
<1>4. \A c \in Agents \ {a} : ~Writing(r, c)' /\ ~Writing(r, c)
    BY DEF Writing, TypeOK, Free, Idle
<1>5. WritesCurrent' /\ NewUnmapped'
  <2> SUFFICES ASSUME NEW q \in Requests, NEW c \in Agents, Writing(q, c)'
               PROVE  /\ req'[q].text = text'[c]
                      /\ req'[q].op = "connect" => c \notin mapped'
      BY DEF WritesCurrent, NewUnmapped
  <2>1. CASE q = r
      BY <1>1, <1>4, <2>1
  <2>2. CASE q # r
    <3>1. c # a /\ Writing(q, c) /\ req'[q] = req[q] /\ text'[c] = text[c]
        BY <1>2, <1>3, <2>2 DEF TypeOK
    <3> QED BY <3>1 DEF Indexed, WritesCurrent, NewUnmapped
  <2> QED BY <2>1, <2>2
<1>6. IndexFresh'
  <2> SUFFICES ASSUME NEW c \in Agents, vector'[c] # text'[c]
               PROVE  Writers(c)' # {}
      BY DEF IndexFresh
  <2>1. CASE c = a
      BY <1>1, <2>1
  <2>2. CASE c # a
    <3>1. PICK q \in Requests : Writing(q, c)
        BY <2>2 DEF Indexed, IndexFresh, Writers
    <3>2. q # r
        BY <1>4, <2>2, <3>1
    <3>3. Writing(q, c)'
        BY <1>2, <3>1, <3>2
    <3> QED BY <3>3 DEF Writers
  <2> QED BY <2>1, <2>2
<1> QED BY <1>5, <1>6 DEF Indexed

\* A creation starts: its agent has no row, so it has no map row either.
LEMMA InsertKeepsIndexed ==
  ASSUME TypeOK, Catalogued, Indexed, NoOverlap', NEW r \in Requests, NEW a \in Agents,
         NEW t \in Texts, NEW e \in Endpoints \union {NoEndpoint},
         NEW op \in {"post", "connect"}, InsertAgent(r, a, t, e, op)
  PROVE  Indexed'
<1>1. /\ Free(r) /\ req' = [req EXCEPT ![r] = [op |-> op, agent |-> a, text |-> t]]
      /\ vector' = vector /\ mapped' = mapped
      /\ text' = [text EXCEPT ![a] = t]
    BY DEF InsertAgent, index
<1>2. a \notin mapped
    BY DEF InsertAgent, Catalogued, IndexJoins
<1> QED BY <1>1, <1>2, WriteStartsIndexed

\* A PUT either starts a write or leaves the texts alone.
LEMMA PutKeepsIndexed ==
  ASSUME TypeOK, Indexed, NoOverlap', NEW a \in Agents, NEW b \in Bodies,
         \/ PutInPlace(a, b)
         \/ \E r \in Requests : PutText(r, a, b)
  PROVE  Indexed'
<1>1. CASE PutInPlace(a, b)
  <2>1. UNCHANGED <<req, text, vector, mapped>>
      BY <1>1 DEF PutInPlace, ApplyBody, index, TypeOK
  <2> QED
      BY <2>1 DEF Indexed, IndexFresh, WritesCurrent, NewUnmapped, Writers, Writing
<1>2. ASSUME NEW r \in Requests, PutText(r, a, b) PROVE Indexed'
  <2>1. /\ Free(r)
        /\ req' = [req EXCEPT ![r] = [op |-> "put", agent |-> a, text |-> b.text]]
        /\ vector' = vector /\ mapped' = mapped
        /\ text' = [text EXCEPT ![a] = b.text]
      BY <1>2 DEF PutText, ApplyBody, index
  <2>2. b.text \in Texts
      BY <1>2 DEF PutText, Bodies
  <2> QED BY <2>1, <2>2, WriteStartsIndexed
<1> QED BY <1>1, <1>2

\* The vector that arrives is that of the agent's text.
LEMMA StoreKeepsIndexed ==
  ASSUME TypeOK, Indexed, NoOverlap, NEW r \in Requests, StoreEmbedding(r)
  PROVE  Indexed'
<1> DEFINE a == req[r].agent
<1>1. /\ a \in Agents /\ Writing(r, a)
    BY WriteInFlight DEF StoreEmbedding, WriteJobs, Writing
<1>2. /\ req' = [req EXCEPT ![r] = Idle] /\ text' = text
      /\ mapped' = mapped \union {a}
      /\ (req[r].op = "connect" /\ a \in mapped) \/ vector' = [vector EXCEPT ![a] = req[r].text]
    BY DEF StoreEmbedding, FinishWrite
<1>3. vector' = [vector EXCEPT ![a] = text[a]]
    BY <1>1, <1>2 DEF Indexed, WritesCurrent, NewUnmapped
<1> HIDE DEF a
<1>4. \A q \in Requests, c \in Agents :
        Writing(q, c)' <=> (q # r /\ Writing(q, c))
    BY <1>2 DEF Writing, Idle, TypeOK
<1>5. \A q \in Requests \ {r} : req'[q] = req[q] /\ ~Writing(q, a)
    BY <1>1, <1>2 DEF NoOverlap, Writers, TypeOK
<1>6. WritesCurrent' /\ NewUnmapped'
  <2> SUFFICES ASSUME NEW q \in Requests, NEW c \in Agents, Writing(q, c)'
               PROVE  /\ req'[q].text = text'[c]
                      /\ req'[q].op = "connect" => c \notin mapped'
      BY DEF WritesCurrent, NewUnmapped
  <2>1. q # r /\ Writing(q, c) /\ req'[q] = req[q] /\ c # a
      BY <1>4, <1>5
  <2> QED BY <1>2, <2>1 DEF Indexed, WritesCurrent, NewUnmapped
<1>7. IndexFresh'
  <2> SUFFICES ASSUME NEW c \in Agents, vector'[c] # text'[c]
               PROVE  Writers(c)' # {}
      BY DEF IndexFresh
  <2>1. c # a /\ vector[c] # text[c]
      BY <1>1, <1>2, <1>3 DEF TypeOK
  <2>2. PICK q \in Requests : Writing(q, c)
      BY <2>1 DEF Indexed, IndexFresh, Writers
  <2>3. q # r
      BY <1>1, <2>1, <2>2 DEF Writing
  <2> QED BY <1>4, <2>2, <2>3 DEF Writers
<1> QED BY <1>6, <1>7 DEF Indexed

\* Every other step leaves texts, index and writes alone.
LEMMA OtherKeepsIndexed ==
  ASSUME Indexed, UNCHANGED <<text, vector, mapped>>,
         \A q \in Requests, c \in Agents : Writing(q, c)' <=> Writing(q, c),
         \A q \in Requests, c \in Agents : Writing(q, c) => req'[q] = req[q]
  PROVE  Indexed'
<1>1. IndexFresh'
    BY DEF Indexed, IndexFresh, Writers
<1>2. WritesCurrent' /\ NewUnmapped'
    BY DEF Indexed, WritesCurrent, NewUnmapped
<1> QED BY <1>1, <1>2 DEF Indexed

\* Where the embedding provider answers, writes of one agent do not overlap and
\* the process is not restarted, search answers from the current name,
\* description and capabilities: an agent's vector is that of its text unless
\* its embedding is under way.  Outside these hypotheses storeEmbedding's
\* order of arrival decides (agents.js:399).
THEOREM IndexIsFresh ==
  ASSUME ~EmbedMayFail
  PROVE  Spec /\ []NoOverlap => []IndexFresh
<1>1. ASSUME TypeOK, Catalogued, Indexed, NoOverlap, NoOverlap', [Next]_vars
      PROVE  Indexed'
  <2>1. ASSUME NEW r \in Requests, NEW a \in Agents, NEW t \in Texts,
               NEW e \in Endpoints \union {NoEndpoint},
               PostAgent(r, a, t, e) \/ ConnectAgent(r, a, t, e)
        PROVE  Indexed'
      BY <1>1, <2>1, InsertKeepsIndexed DEF PostAgent, ConnectAgent
  <2>2. ASSUME NEW a \in Agents, NEW b \in Bodies,
               PutInPlace(a, b) \/ \E r \in Requests : PutText(r, a, b)
        PROVE  Indexed'
      BY <1>1, <2>2, PutKeepsIndexed
  <2>3. ASSUME NEW r \in Requests, StoreEmbedding(r)
        PROVE  Indexed'
      BY <1>1, <2>3, StoreKeepsIndexed
  <2>4. ASSUME NEW r \in Requests,
               (\E a \in Agents : StartCall(r, a)) \/ EndCall(r) \/ AbandonCall(r)
        PROVE  Indexed'
    <3>1. UNCHANGED <<text, vector, mapped>>
        BY <2>4 DEF StartCall, EndCall, AbandonCall, rows, index
    <3>2. \A q \in Requests, c \in Agents :
             /\ Writing(q, c)' <=> Writing(q, c)
             /\ Writing(q, c) => req'[q] = req[q]
        BY <1>1, <2>4
        DEF StartCall, EndCall, AbandonCall, Writing, Free, Idle, TypeOK
    <3> QED BY <1>1, <3>1, <3>2, OtherKeepsIndexed
  <2>5. ASSUME UNCHANGED <<text, vector, mapped, req>>
        PROVE  Indexed'
      BY <1>1, <2>5, OtherKeepsIndexed DEF Writing
  <2>6. ~Restart
      BY <1>1, MaxRestartsAssumption DEF NoOverlap, Restart
  <2>7. ASSUME NEW r \in Requests PROVE ~EmbeddingFails(r)
      BY DEF EmbeddingFails
  <2> QED
      BY <1>1, <2>1, <2>2, <2>3, <2>4, <2>5, <2>6, <2>7
      DEF Next, DeleteAgent, Report, BuiltinTask, StartSweep, EndCheck, EndpointTurns,
          vars, rows, index
<1>2. Indexed => IndexFresh
    BY DEF Indexed
<1> QED BY <1>1, <1>2, InitIndexed, TypeCorrect, CataloguedInvariance, PTL DEF Spec

-----------------------------------------------------------------------------
(* Who may bring an inactive agent back                                    *)

\* Each way the status of an agent changes, by the step that changes it.
LEMMA StatusChanges ==
  ASSUME TypeOK, ProbesKnown, [Next]_vars, NEW a \in Agents, status'[a] # status[a]
  PROVE  \/ status[a] = "absent" /\ status'[a] = "active"
         \/ Registered(a) /\ status'[a] \in AdminStatuses
         \/ status[a] \in Live /\ status'[a] \in Statuses
         \/ /\ status'[a] = "active"
            /\ lastCall'[a] = "success"
            /\ \E r \in Requests : LateCall(r, a) /\ req'[r] = Idle
         \/ a \in Builtin /\ restarts' # restarts
<1>1. ASSUME NEW r \in Requests, NEW c \in Agents, NEW t \in Texts,
             NEW e \in Endpoints \union {NoEndpoint},
             PostAgent(r, c, t, e) \/ ConnectAgent(r, c, t, e)
      PROVE  status[a] = "absent" /\ status'[a] = "active"
    BY <1>1 DEF PostAgent, ConnectAgent, InsertAgent, Registered, TypeOK
<1>2. ASSUME NEW c \in Agents, NEW b \in Bodies, ApplyBody(c, b)
      PROVE  Registered(a) /\ status'[a] \in AdminStatuses
    BY <1>2 DEF ApplyBody, Bodies, TypeOK
<1>3. ASSUME NEW c \in Agents, DeleteAgent(c)
      PROVE  Registered(a) /\ status'[a] \in AdminStatuses
    BY <1>3 DEF DeleteAgent, TypeOK
<1>4. ASSUME NEW s \in Sweeps, NEW p \in Probes, EndCheck(s, p)
      PROVE  status[a] \in Live /\ status'[a] \in Statuses
  <2>1. p.agent = a /\ status[a] # "inactive" /\ status'[a] = StatusFor(Verdict(health[p.url]))
    BY <1>4 DEF EndCheck, TypeOK, Probes
  <2>2. Registered(a)
    BY <1>4, <2>1 DEF EndCheck, ProbesKnown
  <2>3. status'[a] \in Statuses
    BY <2>1, StatusTypes DEF TypeOK, Probes
  <2> QED BY <2>1, <2>2, <2>3 DEF Registered, TypeOK, Statuses
<1>5. ASSUME NEW r \in Requests, EndCall(r)
      PROVE  /\ status'[a] = "active"
             /\ lastCall'[a] = "success"
             /\ LateCall(r, a) /\ req'[r] = Idle
    BY <1>5, CallInFlight DEF EndCall, LateCall, TypeOK, CallJobs
<1>6. CASE Restart
  <2>1. a \in Builtin
    BY <1>6 DEF Restart, TypeOK
  <2>2. restarts' # restarts
    BY <1>6, MaxRestartsAssumption DEF Restart, TypeOK
  <2> QED BY <2>1, <2>2
<1> QED
    BY <1>1, <1>2, <1>3, <1>4, <1>5, <1>6
    DEF Next, PutText, PutInPlace, StartCall, StoreEmbedding, EmbeddingFails,
        FinishWrite, AbandonCall, Report, BuiltinTask, StartSweep, EndpointTurns,
        vars, rows

\* An inactive agent comes back only by a PUT (routes/agents.js), by a proxied
\* call that saw it degraded and succeeded (routes/invoke.js), or at boot when
\* it is built in (connect-agent.js); never by a health check.
THEOREM InactiveReturns == Spec => NoSilentReturn
<1>1. ASSUME TypeOK, ProbesKnown, [Next]_vars
      PROVE  [\A a \in Agents :
               status[a] = "inactive" /\ status'[a] # "inactive" =>
                 \/ status'[a] \in AdminStatuses
                 \/ lastCall'[a] = "success" /\ \E r \in Requests :
                                                  LateCall(r, a) /\ req'[r] = Idle
                 \/ a \in Builtin /\ restarts' # restarts]_vars
    BY <1>1, StatusChanges DEF Live
<1> QED BY <1>1, TypeCorrect, ProbesKnownInvariance, PTL DEF Spec, NoSilentReturn

\* A call that will heal an agent can only start while the agent is degraded.
LEMMA LateCallsStart ==
  ASSUME TypeOK, [Next]_vars, NEW a \in Agents, NEW r \in Requests,
         LateCall(r, a)', ~LateCall(r, a)
  PROVE  status[a] = "degraded" /\ status' = status /\ StartCall(r, a)
BY DEF Next, vars, rows, PostAgent, ConnectAgent, InsertAgent, PutText, PutInPlace,
       ApplyBody, DeleteAgent, StoreEmbedding, EmbeddingFails, FinishWrite,
       StartCall, EndCall, AbandonCall, Report, BuiltinTask, StartSweep,
       EndCheck, Restart, EndpointTurns, TypeOK, LateCall, Idle

\* Where administrators only deactivate, an agent that is inactive with no
\* late call in flight is inactive for good: probes answered late, reports,
\* new calls and restarts cannot reach it.
THEOREM RetirementIsFinal == Spec => RetiredForGood
<1>1. ASSUME AdminStatuses \subseteq {"inactive"}, NEW a \in Agents \ Builtin
      PROVE  Spec => [](Retired(a) => []Retired(a))
  <2>1. ASSUME TypeOK, ProbesKnown, [Next]_vars, Retired(a)
        PROVE  Retired(a)'
    <3>1. status'[a] = "inactive"
      BY <1>1, <2>1, StatusChanges DEF Retired, Live
    <3>2. \A r \in Requests : ~LateCall(r, a)'
      BY <2>1, LateCallsStart DEF Retired
    <3> QED BY <3>1, <3>2 DEF Retired
  <2> QED BY <2>1, TypeCorrect, ProbesKnownInvariance, PTL DEF Spec
<1> QED BY <1>1 DEF RetiredForGood

-----------------------------------------------------------------------------
(* The registry implements the abstract status machine                     *)

\* Where no call that saw an agent degraded starts or ends, none appears.
LEMMA LateCallsKept ==
  ASSUME \A a \in Agents, r \in Requests : LateCall(r, a)' <=> LateCall(r, a)
  PROVE  LateCalls' = LateCalls
BY DEF LateCalls

LEMMA LateCallsOfOne ==
  ASSUME NEW a \in Agents,
         \A c \in Agents \ {a}, r \in Requests : LateCall(r, c)' <=> LateCall(r, c)
  PROVE  \E b \in BOOLEAN : LateCalls' = [LateCalls EXCEPT ![a] = b]
<1> DEFINE b == \E r \in Requests : LateCall(r, a)'
<1>1. b \in BOOLEAN
    OBVIOUS
<1>2. \A c \in Agents \ {a} : LateCalls'[c] = LateCalls[c]
    BY DEF LateCalls
<1>3. LateCalls'[a] = b
    BY DEF LateCalls
<1>4. LateCalls' = [c \in Agents |-> LateCalls'[c]]
    BY DEF LateCalls
<1>5. LateCalls = [c \in Agents |-> LateCalls[c]]
    BY DEF LateCalls
<1> HIDE DEF b, LateCalls
<1>6. LateCalls' = [LateCalls EXCEPT ![a] = b]
    BY <1>2, <1>3, <1>4, <1>5
<1> QED BY <1>1, <1>6

LEMMA InitMaps == Init => Abs!Init
<1> SUFFICES ASSUME Init PROVE Abs!Init
    OBVIOUS
<1>1. \A a \in Agents, r \in Requests : ~LateCall(r, a)
    BY DEF Init, LateCall, Idle
<1>2. LateCalls = [a \in Agents |-> FALSE]
    BY <1>1 DEF LateCalls
<1> QED BY <1>2 DEF Init, Abs!Init

\* A step of a request that neither was nor becomes a call keeps LateCalls.
LEMMA NoCallNoChange ==
  ASSUME NEW r \in Requests, NEW j, TypeOK, req' = [req EXCEPT ![r] = j],
         req[r].op # "call", j.op # "call"
  PROVE  LateCalls' = LateCalls
<1>1. \A a \in Agents, q \in Requests : LateCall(q, a)' <=> LateCall(q, a)
    BY DEF LateCall, TypeOK
<1> QED BY <1>1, LateCallsKept

LEMMA SameReqSameCalls ==
  ASSUME req' = req PROVE LateCalls' = LateCalls
BY LateCallsKept DEF LateCall

LEMMA StepMaps ==
  ASSUME TypeOK, ProbesKnown, [Next]_vars
  PROVE  [Abs!Next]_(Abs!vars)
<1>1. ASSUME status' = status, LateCalls' = LateCalls
      PROVE  [Abs!Next]_(Abs!vars)
    BY <1>1 DEF Abs!vars
<1>2. ASSUME NEW r \in Requests, NEW a \in Agents, NEW t \in Texts,
             NEW e \in Endpoints \union {NoEndpoint},
             PostAgent(r, a, t, e) \/ ConnectAgent(r, a, t, e)
      PROVE  [Abs!Next]_(Abs!vars)
  <2>1. PICK op \in {"post", "connect"} : InsertAgent(r, a, t, e, op)
    BY <1>2 DEF PostAgent, ConnectAgent
  <2>2. LateCalls' = LateCalls
    <3> DEFINE j == [op |-> op, agent |-> a, text |-> t]
    <3>1. req' = [req EXCEPT ![r] = j] /\ j.op # "call" /\ req[r].op # "call"
      BY <2>1 DEF InsertAgent, Free, Idle
    <3> HIDE DEF j
    <3> QED BY <3>1, NoCallNoChange
  <2>3. Abs!Publish(a)
    BY <2>1, <2>2 DEF InsertAgent, Registered, Abs!Publish
  <2> QED BY <2>3 DEF Abs!Next
<1>3. ASSUME NEW a \in Agents, NEW b \in Bodies, ApplyBody(a, b),
             LateCalls' = LateCalls
      PROVE  [Abs!Next]_(Abs!vars)
  <2>1. CASE b.status = Keep
    <3>1. status' = status
      BY <1>3, <2>1 DEF ApplyBody, TypeOK
    <3> QED BY <1>1, <1>3, <3>1
  <2>2. CASE b.status # Keep
    <3>1. b.status \in AdminStatuses /\ b.status \in Abs!Statuses
      BY <2>2, AdminStatusesAssumption
      DEF Bodies, Statuses, Live, Abs!Statuses, Abs!Live
    <3>2. Abs!Decide(a, b.status)
      BY <1>3, <2>2, <3>1 DEF ApplyBody, Registered, Abs!Decide
    <3> QED BY <3>1, <3>2 DEF Abs!Next
  <2> QED BY <2>1, <2>2
<1>4. ASSUME NEW r \in Requests, NEW a \in Agents, NEW b \in Bodies, PutText(r, a, b)
      PROVE  [Abs!Next]_(Abs!vars)
  <2>1. LateCalls' = LateCalls
    <3> DEFINE j == [op |-> "put", agent |-> a, text |-> b.text]
    <3>1. req' = [req EXCEPT ![r] = j] /\ j.op # "call" /\ req[r].op # "call"
      BY <1>4 DEF PutText, Free, Idle
    <3> HIDE DEF j
    <3> QED BY <3>1, NoCallNoChange
  <2> QED BY <1>3, <1>4, <2>1 DEF PutText
<1>5. ASSUME NEW a \in Agents, NEW b \in Bodies, PutInPlace(a, b)
      PROVE  [Abs!Next]_(Abs!vars)
    BY <1>3, <1>5, SameReqSameCalls DEF PutInPlace
<1>6. ASSUME NEW a \in Agents, DeleteAgent(a)
      PROVE  [Abs!Next]_(Abs!vars)
  <2>1. Abs!Decide(a, "inactive")
    BY <1>6, SameReqSameCalls DEF DeleteAgent, Registered, Abs!Decide
  <2> QED BY <2>1 DEF Abs!Next, Abs!Statuses
<1>7. ASSUME NEW r \in Requests, StoreEmbedding(r) \/ EmbeddingFails(r)
      PROVE  [Abs!Next]_(Abs!vars)
  <2>1. status' = status /\ req' = [req EXCEPT ![r] = Idle]
    BY <1>7 DEF StoreEmbedding, EmbeddingFails, FinishWrite
  <2>2. req[r].op # "call" /\ Idle.op # "call"
    BY <1>7 DEF StoreEmbedding, EmbeddingFails, Idle
  <2>3. LateCalls' = LateCalls
    BY <2>1, <2>2, NoCallNoChange
  <2> QED BY <1>1, <2>1, <2>3
<1>8. ASSUME NEW r \in Requests, NEW a \in Agents, StartCall(r, a)
      PROVE  [Abs!Next]_(Abs!vars)
  <2>1. status' = status
    BY <1>8 DEF StartCall, rows
  <2>2. \A c \in Agents \ {a}, q \in Requests : LateCall(q, c)' <=> LateCall(q, c)
    BY <1>8 DEF StartCall, LateCall, TypeOK, Free, Idle
  <2>3. CASE status[a] = "degraded"
    <3>1. LateCall(r, a)'
      BY <1>8, <2>3 DEF StartCall, LateCall, TypeOK
    <3>2. LateCalls'[a] = TRUE
      BY <3>1 DEF LateCalls
    <3>3. PICK b \in BOOLEAN : LateCalls' = [LateCalls EXCEPT ![a] = b]
      BY <2>2, LateCallsOfOne
    <3>4. b = TRUE
      BY <3>2, <3>3 DEF LateCalls
    <3>5. Abs!CallDegraded(a)
      BY <2>1, <2>3, <3>3, <3>4 DEF Abs!CallDegraded
    <3> QED BY <3>5 DEF Abs!Next
  <2>4. CASE status[a] # "degraded"
    <3>1. \A c \in Agents, q \in Requests : LateCall(q, c)' <=> LateCall(q, c)
      BY <1>8, <2>4 DEF StartCall, LateCall, TypeOK, Free, Idle
    <3> QED BY <1>1, <2>1, <3>1, LateCallsKept
  <2> QED BY <2>3, <2>4
<1>9. ASSUME NEW r \in Requests, EndCall(r) \/ AbandonCall(r)
      PROVE  [Abs!Next]_(Abs!vars)
  <2> DEFINE a == req[r].agent
  <2>1. req[r] \in CallJobs /\ a \in Agents /\ req' = [req EXCEPT ![r] = Idle]
    BY <1>9, CallInFlight DEF EndCall, AbandonCall, CallJobs
  <2>2. CASE req[r].seen = "degraded"
    <3>1. LateCalls[a] = TRUE
      BY <2>1, <2>2 DEF LateCalls, LateCall, CallJobs
    <3>2. \A c \in Agents \ {a}, q \in Requests : LateCall(q, c)' <=> LateCall(q, c)
      BY <2>1 DEF LateCall, TypeOK, Idle
    <3>3. \E b \in BOOLEAN : LateCalls' = [LateCalls EXCEPT ![a] = b]
      BY <2>1, <3>2, LateCallsOfOne
    <3>4. status' \in {status, [status EXCEPT ![a] = "active"]}
      BY <1>9 DEF EndCall, AbandonCall, rows
    <3>5. Abs!EndCall(a)
      BY <3>1, <3>3, <3>4 DEF Abs!EndCall
    <3> QED BY <2>1, <3>5 DEF Abs!Next
  <2>3. CASE req[r].seen # "degraded"
    <3>1. status' = status
      BY <1>9, <2>3 DEF EndCall, AbandonCall, rows
    <3>2. \A c \in Agents, q \in Requests : LateCall(q, c)' <=> LateCall(q, c)
      BY <2>1, <2>3 DEF LateCall, TypeOK, Idle
    <3> QED BY <1>1, <3>1, <3>2, LateCallsKept
  <2> QED BY <2>2, <2>3
<1>10. ASSUME NEW s \in Sweeps, NEW p \in Probes, EndCheck(s, p)
       PROVE  [Abs!Next]_(Abs!vars)
  <2> DEFINE v == StatusFor(Verdict(health[p.url]))
  <2>1. p.agent \in Agents /\ v \in Statuses /\ Registered(p.agent)
    BY <1>10, StatusTypes DEF EndCheck, ProbesKnown, Probes, TypeOK
  <2>2. LateCalls' = LateCalls
    BY <1>10, SameReqSameCalls DEF EndCheck
  <2>3. status' = [status EXCEPT ![p.agent] = IF @ = "inactive" THEN @ ELSE v]
    BY <1>10 DEF EndCheck
  <2> HIDE DEF v
  <2>4. CASE status[p.agent] = "inactive"
    <3>1. status' = status
      BY <2>1, <2>3, <2>4 DEF TypeOK
    <3> QED BY <1>1, <2>2, <3>1
  <2>5. CASE status[p.agent] # "inactive"
    <3>1. status[p.agent] \in Abs!Live /\ v \in Abs!Statuses
      BY <2>1, <2>5 DEF TypeOK, Registered, Statuses, Live, Abs!Live, Abs!Statuses
    <3>2. Abs!Observe(p.agent, v)
      BY <2>2, <2>3, <2>5, <3>1 DEF Abs!Observe
    <3> QED BY <2>1, <3>1, <3>2 DEF Abs!Next
  <2> QED BY <2>4, <2>5
<1>11. CASE Restart
  <2>1. \A a \in Agents, r \in Requests : ~LateCall(r, a)'
    BY <1>11 DEF Restart, LateCall, Idle
  <2>2. LateCalls' = [a \in Agents |-> FALSE]
    BY <2>1 DEF LateCalls
  <2>3. Abs!Restart
    BY <1>11, <2>2 DEF Restart, Abs!Restart
  <2> QED BY <2>3 DEF Abs!Next
<1>12. ASSUME req' = req, status' = status
       PROVE  [Abs!Next]_(Abs!vars)
    BY <1>1, <1>12, SameReqSameCalls
<1> QED
    BY <1>2, <1>4, <1>5, <1>6, <1>7, <1>8, <1>9, <1>10, <1>11, <1>12
    DEF Next, Report, BuiltinTask, StartSweep, EndpointTurns, vars, rows

\* The routes, the sweeps and the proxy together implement the abstract
\* status machine of AgentStatus, for any number of requests and sweeps.
THEOREM Refinement == Spec => StatusImplements
BY InitMaps, StepMaps, TypeCorrect, ProbesKnownInvariance, PTL
DEF Spec, StatusImplements, Abs!Spec
=============================================================================
