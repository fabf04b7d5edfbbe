---------------------------- MODULE AgentRegistry ----------------------------
(***************************************************************************)
(* The agents table and everything that writes it: the /agents routes      *)
(* (src/routes/agents.js), registrations made by the Connect agent         *)
(* (src/connect-agent.js), the background health checks (src/health.js)    *)
(* and the invocation routes (src/routes/invoke.js).                       *)
(*                                                                         *)
(* The server is one Node process over synchronous SQLite, so the code     *)
(* between two awaits is one atomic step.  A handler that awaits (an       *)
(* embedding, a proxied call, a health probe) is split there, and what it  *)
(* read before the await is kept in its record until it is used after it.  *)
(* Requests that fail authentication, validation or ownership change       *)
(* nothing here; module Access models who passes.                          *)
(***************************************************************************)
EXTENDS Naturals, FiniteSets

CONSTANTS
  Agents,          \* agent ids the registry can hand out
  Builtin,         \* agents whose row is inserted at boot (is_builtin = 1)
  Proxyable,       \* agents whose row has proxy_enabled = 1 (no route sets it)
  Endpoints,       \* endpoint URLs
  Texts,           \* values of (name, description, capabilities)
  Requests,        \* how many requests may be in flight: one id each
  Sweeps,          \* how many health sweeps may overlap: one id each
  AdminStatuses,   \* statuses administrators write; "inactive" allows DELETE
  EmbedMayFail,    \* whether the embedding provider may fail
  MaxRestarts,     \* bound on the number of process restarts
  NoEndpoint,      \* endpoint_url is NULL
  NoText,          \* nothing stored: no card, no vector
  Keep             \* a field a PUT body does not carry

Live == {"active", "degraded"}
Statuses == Live \union {"inactive"}

ASSUME BuiltinAssumption == Builtin \subseteq Agents
ASSUME ProxyableAssumption == Proxyable \subseteq Agents
ASSUME RequestsAssumption == IsFiniteSet(Requests)
ASSUME AdminStatusesAssumption == AdminStatuses \subseteq Statuses
ASSUME EmbedMayFailAssumption == EmbedMayFail \in BOOLEAN
ASSUME MaxRestartsAssumption == MaxRestarts \in Nat
ASSUME NoEndpointAssumption == NoEndpoint \notin Endpoints
ASSUME NoTextAssumption == NoText \notin Texts
ASSUME KeepAssumption ==
  /\ Keep \notin Texts
  /\ Keep \notin Endpoints \union {NoEndpoint}
  /\ Keep \notin Statuses

VARIABLES
  status,     \* agents.status; "absent" while the row does not exist
  endpoint,   \* agents.endpoint_url
  text,       \* agents.name, agents.description and the capabilities rows
  card,       \* the text the stored agents.agent_card was made from
  mapped,     \* agents with an agent_embedding_map row
  vector,     \* the text the agent_embeddings row was computed from
  lastCheck,  \* the newest health_checks row of the agent
  lastCall,   \* the newest invocations row of the agent
  unaudited,  \* committed changes of the agent that have no audit_log row
  req,        \* the requests in flight, suspended at their await
  checks,     \* the probes a sweep's snapshot still holds
  health,     \* what the network answers for each endpoint
  restarts    \* process restarts so far

rows == <<status, endpoint, text, card>>
index == <<mapped, vector>>
history == <<lastCheck, lastCall>>
world == <<health, restarts>>
vars == <<rows, index, history, unaudited, req, checks, world>>

\* What a request keeps across its await.
Idle == [op |-> "idle"]
WriteJobs == [op : {"post", "put", "connect"}, agent : Agents, text : Texts]
CallJobs == [op : {"call"}, agent : Agents, url : Endpoints, seen : Live]
Probes == [agent : Agents, url : Endpoints]

\* A PUT body: each field is a new value or left out.
Bodies ==
  [text : Texts \union {Keep},
   endpoint : Endpoints \union {NoEndpoint, Keep},
   status : AdminStatuses \union {Keep}]

Outcomes == {"success", "error", "timeout"}
Verdicts == {"up", "degraded", "down"}

Registered(a) == status[a] # "absent"
Free(r) == req[r] = Idle
Writing(r, a) == req[r].op \in {"post", "put", "connect"} /\ req[r].agent = a
Writers(a) == {r \in Requests : Writing(r, a)}
Creating(r, a) == req[r].op \in {"post", "connect"} /\ req[r].agent = a
\* A proxied call whose snapshot will heal the agent if it succeeds.
LateCall(r, a) ==
  req[r].op = "call" /\ req[r].agent = a /\ req[r].seen = "degraded"

TypeOK ==
  /\ status \in [Agents -> Statuses \union {"absent"}]
  /\ endpoint \in [Agents -> Endpoints \union {NoEndpoint}]
  /\ text \in [Agents -> Texts \union {NoText}]
  /\ card \in [Agents -> Texts \union {NoText}]
  /\ mapped \in SUBSET Agents
  /\ vector \in [Agents -> Texts \union {NoText}]
  /\ lastCheck \in [Agents -> Verdicts \union {"none"}]
  /\ lastCall \in [Agents -> Outcomes \union {"none"}]
  /\ unaudited \in [Agents -> Nat]
  /\ req \in [Requests -> WriteJobs \union CallJobs \union {Idle}]
  /\ checks \in [Sweeps -> SUBSET Probes]
  /\ health \in [Endpoints -> {"up", "slow", "down"}]
  /\ restarts \in 0..MaxRestarts

\* First boot on an empty database; bootstrapConnectAgent has run.
Init ==
  /\ status = [a \in Agents |-> IF a \in Builtin THEN "active" ELSE "absent"]
  /\ endpoint = [a \in Agents |-> NoEndpoint]
  /\ text = [a \in Agents |-> NoText]
  /\ card = [a \in Agents |-> NoText]
  /\ mapped = {}
  /\ vector = [a \in Agents |-> NoText]
  /\ lastCheck = [a \in Agents |-> "none"]
  /\ lastCall = [a \in Agents |-> "none"]
  /\ unaudited = [a \in Agents |-> 0]
  /\ req = [r \in Requests |-> Idle]
  /\ checks = [s \in Sweeps |-> {}]
  /\ health = [e \in Endpoints |-> "up"]
  /\ restarts = 0

-----------------------------------------------------------------------------
(* The catalogue: POST, PUT and DELETE /agents, and Connect's registration *)

\* INSERT INTO agents and its capabilities, then await the embedding.
InsertAgent(r, a, t, e, op) ==
  /\ Free(r)
  /\ ~Registered(a)
  /\ status' = [status EXCEPT ![a] = "active"]
  /\ endpoint' = [endpoint EXCEPT ![a] = e]
  /\ text' = [text EXCEPT ![a] = t]
  /\ unaudited' = [unaudited EXCEPT ![a] = @ + 1]
  /\ req' = [req EXCEPT ![r] = [op |-> op, agent |-> a, text |-> t]]
  /\ UNCHANGED <<card, index, history, checks, world>>

\* POST /agents up to its await.
PostAgent(r, a, t, e) == InsertAgent(r, a, t, e, "post")

\* Connect's performSubmission up to its await.
ConnectAgent(r, a, t, e) == InsertAgent(r, a, t, e, "connect")

\* The UPDATE of a PUT body's fields.
ApplyBody(a, b) ==
  /\ Registered(a)
  /\ status' = [status EXCEPT ![a] = IF b.status = Keep THEN @ ELSE b.status]
  /\ endpoint' =
       [endpoint EXCEPT ![a] = IF b.endpoint = Keep THEN @ ELSE b.endpoint]
  /\ text' = [text EXCEPT ![a] = IF b.text = Keep THEN @ ELSE b.text]
  /\ UNCHANGED <<card, index, history, checks, world>>

\* A PUT that leaves name, description and capabilities alone re-embeds
\* nothing: it updates, audits and answers in one step.
PutInPlace(a, b) ==
  /\ b.text = Keep
  /\ ApplyBody(a, b)
  /\ UNCHANGED <<unaudited, req>>

\* Wrong on purpose: the new text is never embedded again.
PutTextUnembedded(r, a, b) ==
  /\ Free(r)
  /\ b.text # Keep
  /\ ApplyBody(a, b)
  /\ UNCHANGED <<unaudited, req>>

\* A PUT that changes them updates, then awaits the embedding of the row.
PutText(r, a, b) ==
  /\ Free(r)
  /\ b.text # Keep
  /\ ApplyBody(a, b)
  /\ unaudited' = [unaudited EXCEPT ![a] = @ + 1]
  /\ req' = [req EXCEPT ![r] = [op |-> "put", agent |-> a, text |-> b.text]]

\* DELETE /agents/:id, a soft delete audited in the same step.
DeleteAgent(a) ==
  /\ "inactive" \in AdminStatuses
  /\ Registered(a)
  /\ status' = [status EXCEPT ![a] = "inactive"]
  /\ UNCHANGED <<endpoint, text, card, index, history, unaudited, req, checks, world>>

\* Wrong on purpose: the audit call is skipped once the embedding is awaited.
FinishUnaudited(r) ==
  LET a == req[r].agent IN
  /\ card' = [card EXCEPT ![a] = IF Creating(r, a) THEN text[a] ELSE @]
  /\ req' = [req EXCEPT ![r] = Idle]
  /\ UNCHANGED <<status, endpoint, text, history, unaudited, checks, world>>

\* Wrong on purpose: only POST /agents stores a card, Connect does not.
FinishCardless(r) ==
  LET a == req[r].agent IN
  /\ card' = [card EXCEPT ![a] = IF req[r].op = "post" THEN text[a] ELSE @]
  /\ unaudited' = [unaudited EXCEPT ![a] = @ - 1]
  /\ req' = [req EXCEPT ![r] = Idle]
  /\ UNCHANGED <<status, endpoint, text, history, checks, world>>

\* After the embedding: a creation stores the card of the row as it is now;
\* every write is audited and answered.
FinishWrite(r) ==
  LET a == req[r].agent IN
  /\ card' = [card EXCEPT ![a] = IF Creating(r, a) THEN text[a] ELSE @]
  /\ unaudited' = [unaudited EXCEPT ![a] = @ - 1]
  /\ req' = [req EXCEPT ![r] = Idle]
  /\ UNCHANGED <<status, endpoint, text, history, checks, world>>

\* Wrong on purpose: only creations insert the map row.
StoreUnmapped(r) ==
  LET a == req[r].agent IN
  /\ req[r].op \in {"post", "put", "connect"}
  /\ mapped' = IF Creating(r, a) THEN mapped \union {a} ELSE mapped
  /\ vector' = [vector EXCEPT ![a] = req[r].text]
  /\ FinishWrite(r)

\* The embedding arrives and its vector is stored under the agent's map row,
\* which is inserted when missing.  Connect inserts the map row without
\* looking: where a PUT was faster the insert fails and its vector is dropped.
StoreEmbedding(r) ==
  LET a == req[r].agent IN
  /\ req[r].op \in {"post", "put", "connect"}
  /\ mapped' = mapped \union {a}
  /\ vector' = IF req[r].op = "connect" /\ a \in mapped
               THEN vector
               ELSE [vector EXCEPT ![a] = req[r].text]
  /\ FinishWrite(r)

\* The provider fails or answers a vector of the wrong size, which is
\* noticed before or after the map row is inserted; the error is swallowed.
EmbeddingFails(r) ==
  /\ EmbedMayFail
  /\ req[r].op \in {"post", "put", "connect"}
  /\ mapped' \in {mapped, mapped \union {req[r].agent}}
  /\ UNCHANGED vector
  /\ FinishWrite(r)

-----------------------------------------------------------------------------
(* Invocations: POST /agents/:id/tasks and /agents/:id/report              *)

\* The proxy snapshots the row and awaits the body, then the agent.
StartCall(r, a) ==
  /\ Free(r)
  /\ a \in Proxyable \ Builtin
  /\ status[a] \in Live
  /\ endpoint[a] # NoEndpoint
  /\ req' = [req EXCEPT ![r] = [op |-> "call", agent |-> a,
                                url |-> endpoint[a], seen |-> status[a]]]
  /\ UNCHANGED <<rows, index, history, unaudited, checks, world>>

\* An endpoint that is down cannot answer with success.
CallOutcomes(e) ==
  IF health[e] = "down" THEN Outcomes \ {"success"} ELSE Outcomes

\* Wrong on purpose: any success makes the agent active.
EndCallAlwaysHeals(r) ==
  /\ req[r].op = "call"
  /\ \E o \in CallOutcomes(req[r].url) :
       /\ lastCall' = [lastCall EXCEPT ![req[r].agent] = o]
       /\ status' = IF o = "success"
                    THEN [status EXCEPT ![req[r].agent] = "active"]
                    ELSE status
  /\ req' = [req EXCEPT ![r] = Idle]
  /\ UNCHANGED <<endpoint, text, card, index, lastCheck, unaudited, checks, world>>

\* The call ends: it is logged, and a success flips the agent to active when
\* the snapshot, not the row, says degraded.
EndCall(r) ==
  /\ req[r].op = "call"
  /\ \E o \in CallOutcomes(req[r].url) :
       /\ lastCall' = [lastCall EXCEPT ![req[r].agent] = o]
       /\ status' = IF o = "success" /\ req[r].seen = "degraded"
                    THEN [status EXCEPT ![req[r].agent] = "active"]
                    ELSE status
  /\ req' = [req EXCEPT ![r] = Idle]
  /\ UNCHANGED <<endpoint, text, card, index, lastCheck, unaudited, checks, world>>

\* The body is not JSON: 400, nothing is logged.
AbandonCall(r) ==
  /\ req[r].op = "call"
  /\ req' = [req EXCEPT ![r] = Idle]
  /\ UNCHANGED <<rows, index, history, unaudited, checks, world>>

\* A caller reports an invocation it made itself, whatever the status is.
Report(a, o) ==
  /\ Registered(a)
  /\ lastCall' = [lastCall EXCEPT ![a] = o]
  /\ UNCHANGED <<rows, index, lastCheck, unaudited, req, checks, world>>

\* A task sent to a built-in agent runs in process and is logged as success.
BuiltinTask(a) ==
  /\ a \in Builtin
  /\ lastCall' = [lastCall EXCEPT ![a] = "success"]
  /\ UNCHANGED <<rows, index, lastCheck, unaudited, req, checks, world>>

-----------------------------------------------------------------------------
(* Health checks                                                           *)

\* Wrong on purpose: degraded agents are not probed any more.
EligibleActive ==
  {p \in Probes : /\ p.agent \notin Builtin
                  /\ status[p.agent] = "active"
                  /\ p.url = endpoint[p.agent]}

\* The agents a sweep probes, with the URL it read for each.
Eligible ==
  {p \in Probes : /\ p.agent \notin Builtin
                  /\ status[p.agent] \in Live
                  /\ p.url = endpoint[p.agent]}

\* A tick of the interval; earlier sweeps may still be running.
StartSweep(s) ==
  /\ checks[s] = {}
  /\ checks' = [checks EXCEPT ![s] = Eligible]
  /\ UNCHANGED <<rows, index, history, unaudited, req, world>>

\* What a probe concludes from the answer.
Verdict(h) == [up |-> "up", slow |-> "degraded", down |-> "down"][h]

\* Wrong on purpose: the verdict itself is stored as the status.
StatusForVerdict(v) == v

\* The status that follows from a verdict.
StatusFor(v) == [up |-> "active", degraded |-> "degraded", down |-> "inactive"][v]

\* Wrong on purpose: the verdict is applied without reading the status again.
EndCheckBlind(s, p) ==
  /\ p \in checks[s]
  /\ checks' = [checks EXCEPT ![s] = @ \ {p}]
  /\ LET v == Verdict(health[p.url]) IN
       /\ lastCheck' = [lastCheck EXCEPT ![p.agent] = v]
       /\ status' = [status EXCEPT ![p.agent] = StatusFor(v)]
  /\ UNCHANGED <<endpoint, text, card, index, lastCall, unaudited, req, world>>

\* Wrong on purpose: only active agents are moved.
EndCheckFromActive(s, p) ==
  /\ p \in checks[s]
  /\ checks' = [checks EXCEPT ![s] = @ \ {p}]
  /\ LET v == Verdict(health[p.url]) IN
       /\ lastCheck' = [lastCheck EXCEPT ![p.agent] = v]
       /\ status' = [status EXCEPT ![p.agent] =
                       IF @ # "active" THEN @ ELSE StatusFor(v)]
  /\ UNCHANGED <<endpoint, text, card, index, lastCall, unaudited, req, world>>

\* A probe is answered: its row is inserted, the status is read again and
\* moved, unless it is inactive by now.  The sweep probes in table order,
\* which the query leaves open.
EndCheck(s, p) ==
  /\ p \in checks[s]
  /\ checks' = [checks EXCEPT ![s] = @ \ {p}]
  /\ LET v == Verdict(health[p.url]) IN
       /\ lastCheck' = [lastCheck EXCEPT ![p.agent] = v]
       /\ status' = [status EXCEPT ![p.agent] =
                       IF @ = "inactive" THEN @ ELSE StatusFor(v)]
  /\ UNCHANGED <<endpoint, text, card, index, lastCall, unaudited, req, world>>

-----------------------------------------------------------------------------
(* The process and the network                                             *)

\* The process dies or is forced to exit with requests in flight, and boots:
\* everything in memory is lost and built-in agents are set active.
Restart ==
  /\ restarts < MaxRestarts
  /\ restarts' = restarts + 1
  /\ status' = [a \in Agents |-> IF a \in Builtin THEN "active" ELSE status[a]]
  /\ req' = [r \in Requests |-> Idle]
  /\ checks' = [s \in Sweeps |-> {}]
  /\ UNCHANGED <<endpoint, text, card, index, history, unaudited, health>>

\* An endpoint comes up, slows down (more than 5 s) or goes down.
EndpointTurns(e, h) ==
  /\ health' = [health EXCEPT ![e] = h]
  /\ UNCHANGED <<rows, index, history, unaudited, req, checks, restarts>>

Next ==
  \/ \E r \in Requests :
       \/ \E a \in Agents :
            \/ \E t \in Texts, e \in Endpoints \union {NoEndpoint} :
                 PostAgent(r, a, t, e) \/ ConnectAgent(r, a, t, e)
            \/ \E b \in Bodies : PutText(r, a, b)
            \/ StartCall(r, a)
       \/ StoreEmbedding(r)
       \/ EmbeddingFails(r)
       \/ EndCall(r)
       \/ AbandonCall(r)
  \/ \E a \in Agents :
       \/ \E b \in Bodies : PutInPlace(a, b)
       \/ DeleteAgent(a)
       \/ \E o \in Outcomes : Report(a, o)
       \/ BuiltinTask(a)
  \/ \E s \in Sweeps :
       \/ StartSweep(s)
       \/ \E p \in Probes : EndCheck(s, p)
  \/ \E e \in Endpoints, h \in {"up", "slow", "down"} : EndpointTurns(e, h)
  \/ Restart

Spec == Init /\ [][Next]_vars

\* The interval keeps ticking, and fetch is given up after its timeout, so a
\* probe that was started ends.
Fairness ==
  \A s \in Sweeps :
    /\ WF_vars(StartSweep(s))
    /\ \A p \in Probes : WF_vars(EndCheck(s, p))

FairSpec == Spec /\ Fairness
-----------------------------------------------------------------------------
(* Safety                                                                  *)

\* Every change a POST, PUT or DELETE commits gets its audit_log row: while
\* the process has not been restarted, the rows still owed for an agent are
\* exactly those of the writes suspended at their embedding.
AuditOwedOnlyInFlight ==
  restarts = 0 =>
    \A a \in Agents :
      unaudited[a] = Cardinality(Writers(a))

\* Search joins vectors to agents through the map: a vector always has its
\* map row, whichever of the two embedding writers (routes/agents.js,
\* connect-agent.js) inserted it, and only registered agents are mapped.
IndexJoins ==
  \A a \in Agents :
    /\ vector[a] # NoText => a \in mapped
    /\ a \in mapped => Registered(a)

\* Search answers from vectors: an agent's vector is that of its current
\* name, description and capabilities, unless an embedding is under way.
IndexFresh ==
  \A a \in Agents :
    vector[a] # text[a] => Writers(a) # {}

\* An agent with no card is still being created, or its creation was cut off
\* by a restart.
CardStored ==
  restarts = 0 =>
    \A a \in Agents \ Builtin :
      Registered(a) /\ card[a] = NoText => \E r \in Requests : Creating(r, a)

\* An inactive agent comes back only by an administrator's PUT, by a proxied
\* call that began while it was degraded and is now logged as a success, or,
\* when built in, by a boot.  Health checks never bring it back, although
\* their snapshot may be older than the deletion.
NoSilentReturn ==
  [][\A a \in Agents :
       status[a] = "inactive" /\ status'[a] # "inactive" =>
         \/ status'[a] \in AdminStatuses
         \/ lastCall'[a] = "success" /\ \E r \in Requests :
                                          LateCall(r, a) /\ req'[r] = Idle
         \/ a \in Builtin /\ restarts' # restarts]_vars

\* No probe, sweep snapshot, report or call can reach a retired agent.
Retired(a) ==
  status[a] = "inactive" /\ \A r \in Requests : ~LateCall(r, a)

\* Where administrators only deactivate, an agent that is inactive with no
\* late call in flight is inactive for good.
RetiredForGood ==
  AdminStatuses \subseteq {"inactive"} =>
    \A a \in Agents \ Builtin : [](Retired(a) => []Retired(a))

\* The registry implements the abstract status machine; a late call there is
\* one in flight here that saw the agent degraded.
LateCalls == [a \in Agents |-> \E r \in Requests : LateCall(r, a)]

Abs == INSTANCE AgentStatus WITH late <- LateCalls

StatusImplements == Abs!Spec

-----------------------------------------------------------------------------
(* Liveness, under FairSpec                                                *)

\* An agent whose endpoint stays down is seen inactive again and again,
\* however often administrators, callers and older sweeps touch it.
DownIsNoticed ==
  \A a \in Agents \ Builtin, e \in Endpoints :
    <>[](endpoint[a] = e /\ health[e] = "down") => []<>(status[a] = "inactive")

\* An agent whose endpoint stays fast does not stay degraded.
DegradedHeals ==
  \A a \in Agents \ Builtin, e \in Endpoints :
    <>[](endpoint[a] = e /\ health[e] = "up") => []<>(status[a] # "degraded")

-----------------------------------------------------------------------------
(* What the documentation says and the code does not do                    *)

\* README.md:324, "Soft-delete (status=inactive)": with nobody writing
\* another status, an inactive agent stays inactive.
DeletedStaysDeleted ==
  [][\A a \in Agents \ Builtin :
       status[a] = "inactive" => status'[a] = "inactive"]_vars

\* README.md:23, "status auto-flips between active, degraded, inactive": an
\* agent whose endpoint is up for good is active in the end.
RecoversWhenUp ==
  \A a \in Agents \ Builtin, e \in Endpoints :
    <>[](endpoint[a] = e /\ health[e] = "up") => <>[](status[a] = "active")

\* SECURITY.md:65, "An audit log row is written for every successful
\* mutation": once no write of an agent is in flight it owes no row.
AuditEveryMutation ==
  \A a \in Agents :
    Writers(a) = {} => unaudited[a] = 0
=============================================================================
