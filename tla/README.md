# Agennect registry: TLA+ models and proofs

Agennect is a self-hosted registry of A2A agents and MCP servers: one Node.js
process (Hono) over one SQLite file. This directory holds TLA+ models of its
core logic, TLC configurations that check them on small instances, and TLAPS
proofs of the properties that matter most, for every value of the constants.

## 1. How the program runs, and what that means for the models

* `better-sqlite3` is synchronous and every statement commits on its own; the
  code uses no transactions. Between two `await`s a handler runs alone, so the
  code between two awaits is one atomic step, and everything a handler read
  before an await may be stale after it.
* The awaits are the request body (`c.req.json()`), the embedding provider
  (`embed`), the LLM (`structuredChat`), an identity provider, and `fetch`:
  health probes, proxied calls and webhook deliveries.
* A process that stops loses every suspended handler; what was committed
  before its last await stays. `server.js` forces an exit 15 s after a signal,
  so this needs no crash: a proxied call may take 30 s.

## 2. Inventory

| Part | Source | State | Operations | Hard behaviour |
|---|---|---|---|---|
| Agents registry | `routes/agents.js`, `a2a.js` | `agents`, `capabilities`, `agent_card` | POST, PUT, DELETE (soft), GET list, card, health, search | reads before the body await, update then await embedding, card and audit after it |
| Search index | `embeddings.js`, `routes/agents.js` | `agent_embedding_map`, `agent_embeddings` | storeEmbedding, search | overlapping embeddings, failing provider |
| Health checks | `health.js` | `health_checks`, `agents.status` | interval sweep, probe | overlapping sweeps, stale snapshots |
| Invocations | `routes/invoke.js` | `invocations`, `agents.status` | proxy a task, report, list | snapshot used after a long call |
| Connect agent | `connect-agent.js`, `chat.js` | `connect_sessions`, `agents` | conversation turns (state machine or LLM), submission | concurrent turns of one session, submission awaits |
| Tokens and scopes | `auth.js`, `server.js` | `tokens` | verify, bootstrap, require scope | revocation against requests in flight |
| Users and login | `users.js`, `routes/auth.js`, `auth-providers/` | `users`, session tokens | login, me, logout | role of the session against role of the user |
| Administration | `routes/admin.js` | `tokens`, `users`, `webhooks` | mint, revoke, change users, webhooks CRUD, test | reads before the body await, two writes without a transaction |
| Webhooks | `webhooks.js` | `webhooks` | select subscribers, deliver, count | deliveries in flight across pause and delete |
| Audit | `audit.js` | `audit_log` | append, dispatch the event | failed insert is swallowed, event is sent anyway |
| MCP directory | `routes/mcp.js` | `mcp_servers` | POST, PUT, DELETE (soft), list | reads before the body await |
| Metrics | `routes/metrics.js` | none (reads) | registry, agent and time-series figures | percentiles and empty ranges |
| Reporter SDK | `sdk/reporter.js`, `sdk/reporter.py` | none | invoke, report | reporting is best effort |
| Server | `server.js`, `logger.js`, `load-env.js`, `routes/meta.js` | process | boot, shutdown | forced exit |
| Database | `db.js`, `migrations/` | schema | migrate at boot | migrations re-run at every boot |
| Dashboard | `dashboard/app.js` | token, current user, tables, modals, chat, requests under way | tabs, forms, toggles, search, signing in, chat | answers in any order, a token that changes under them |

What makes each part correct:

* **Agents registry.** Every committed change gets its audit row; every agent
  gets its card; a deleted agent stays deleted.
* **Search index.** A vector joins to a registered agent through its map row
  and is that of the agent's current text once nothing is under way.
* **Health checks and invocations.** Only administrators, health verdicts about
  live agents and successful calls move a status; a dead endpoint is noticed; a
  live one recovers.
* **Connect agent.** A conversation registers at most one agent, only when its
  required fields are there, says truthfully what it did, and its submission
  saves the fields the session still has.
* **Tokens, users, login, administration.** A session has the scope of its
  user's role; a disabled user has none; revocation is final; admin scope comes
  from admins; users may change what they created; the log explains all of it.
* **Webhooks.** Each event reaches each active subscriber of it once, paused
  and deleted ones are left alone, every delivery is counted once, and the
  answer of a route tells the state it leaves.
* **Audit.** A change and its row go together; an event is dispatched once.
* **MCP directory.** As the agents registry; a deleted server stays deleted.
* **Metrics.** Figures agree with the rows they count; a percentile is one of
  the samples and percentiles are ordered.
* **Reporter SDK.** An invocation is reported at most once per call, and as its
  caller saw it.
* **Server and database.** A stop between any two statements leaves a database
  that the next boot accepts; migrations are idempotent; exit 0 leaves nobody
  without an answer.
* **Dashboard.** What is saved under a row came from that row, the name and the
  figures in the agent modal are of one agent, and no table stays at "Loading".

## 3. Modules

| Module | Models | State and actions |
|---|---|---|
| `AgentStatus` | what the registry promises about an agent's status | `status`, `late`; publish, decide, observe, call, restart |
| `AgentRegistry` | `routes/agents.js` (POST, PUT, DELETE), the registration of `connect-agent.js`, `health.js`, `routes/invoke.js` | the columns of `agents` that matter, the map and vector rows, last check and call, owed audit rows, suspended requests, the snapshots of sweeps, the endpoints |
| `Access` | `auth.js`, the middleware of `server.js`, `users.js`, `routes/auth.js`, tokens and users in `routes/admin.js` | `tokens`, `users`, owners of resources, the audit log, suspended requests |
| `Connect` | `handle` and all it calls in `connect-agent.js`, `chat.js` as it is used there | `connect_sessions`, agents registered and answers given (history), suspended turns |
| `Webhooks` | `webhooks.js`, the event of `audit.js`, the webhook routes of `routes/admin.js` | `webhooks`, deliveries started, on their way and lost, what the log says, suspended PUTs |
| `McpDirectory` | `routes/mcp.js`: POST, PUT with its await, DELETE, the pages of the listing | `mcp_servers`, its order, suspended PUTs, a client's walk over the pages |
| `Migrations` | the 40 statements of `migrations/` in the order of `db.js` | none (a constant sequence) |
| `Lifecycle` | `server.js` and `db.js`: boot, `npm run migrate`, bootstraps, serving, shutdown | the schema of the file, owners of its rows, the next statement of each process, phase, exit, connections |
| `Metrics` | `routes/metrics.js`: totals, rates, averages, percentiles, series | none (functions of the rows) |
| `Reporter` | `sdk/reporter.js`, `sdk/reporter.py`, `POST /agents/:id/report` | calls, what each caller was told, reports on their way, `invocations` |
| `Dashboard` | `dashboard/app.js`: identity, the two tables, their forms, the agent modal, the chat | the page's variables, its requests under way, what the registry holds |
| `MC*` | values and symmetry sets for TLC | |
| `*_proofs` | TLAPS proofs about the eight with a specification | |

**Shape of the models.** A handler with no await after its first read is one
action (`DeleteAgent`, `Revoke`, `DeleteWebhook`). One that awaits is split
there: the first action stores in `req` what the handler has read (`StartCall`
keeps the row's status and URL, `StartPutUser` the user, `StartPut` the
webhook), the second one uses it, however old it is. Where a body is awaited
and nothing was read before it, the await is left out: it cannot be observed.
A `Restart` empties `req` and boots. Statements that may throw are a switch
(`StatementsMayFail`, `EmbedMayFail`), so that one model serves the runs and
theorems with and without them.

**How they fit together.** `AgentRegistry` is shown to implement `AgentStatus`
(`Abs == INSTANCE AgentStatus WITH late <- LateCalls`). `Connect`'s submissions
are `AgentRegistry`'s `ConnectAgent` and `StoreEmbedding`: the former models
the conversation and counts its agents, the latter the agents' rows. `Access`
decides which requests reach a handler; the others model the requests that do.
Audit rows are owed in `AgentRegistry`, a log in `Access`, and events in
`Webhooks`, whose `OtherChange` is any audited change of another route.
`Lifecycle` takes the statements of `Migrations` as its constant `Script`, and
its answers and kills are the `Restart` of the others seen from the process:
what a handler does between two awaits is there, whether it gets to its end is
here. `Reporter` extends `Metrics`: its `invocations` are the rows on which the
figures are checked. `Dashboard` has the registry as two small pieces of state
(`status`, `live`) with a request for each route that it calls.

**History variables.** No action reads them; they let a property speak of what
happened. `Access` keeps the sessions that a PUT failed to revoke (`torn`) and
who created a resource (`author`); `Connect` how many agents a session
registered (`created`) and what it was told (`told`); `Webhooks` the deliveries
started (`attempts`), those a fault lost (`lost`) and what the log says
(`logged`); `McpDirectory` what the audit rows tell (`logged`) and what a client
has seen (`walk`); `Dashboard` the row that a form and a save came from (`of`).
With `torn` and `lost` the properties hold *with* faults and say
exactly what a fault costs, instead of assuming there is none.

**Wrong on purpose.** Definitions with this comment are plausible bugs of the
definition they precede or follow. No specification uses them; with one put in
place of its original TLC must find the property it is aimed at violated.

**Abstractions.**

* `AgentRegistry`: name, description and capabilities are one value (`Texts`);
  statements on the agents' tables succeed, only embeddings fail; a vector's
  `INSERT OR REPLACE` replaces; the built-in agent has no text of interest.
  An agent may be registered once per id (ids are random).
* `Access`: users have distinct emails, `ADMIN_TOKEN` is set, the audit insert
  succeeds, and its rows about the bootstrap token are left out. The rank of
  scopes and the roles are the code's.
* `Connect`: a message is what the state that meets it makes of it (`Messages`);
  a field is unset, good, or accepted here and refused by `POST /agents`. The
  model may answer anything its schema allows: it may set, change or blank any
  field and pick any next state. Its prompt asks it to keep what it was told;
  nothing in the code makes it.
* `Webhooks`: deliveries of one webhook are a number; payload, signature and
  `last_status` are left out. A webhook's filter is any list POST accepts,
  which excludes wildcards such as `agent.*` although `subscriptionMatches`
  knows them.
* `McpDirectory`: the columns that only a PUT writes are one (`name`), filters
  of the listing are left out; `created_at` orders the list, servers
  of one second in either order.
* `Lifecycle`: a statement is what it makes and needs; rows of a table share an
  owner. A connection asks one thing at a time (HTTP/1.1 keep-alive). Statements
  of two processes do not overlap: SQLite locks the file.
* `Metrics`, `Reporter`: time counts in ticks, two an hour; a report's latency is
  one of `Delays`. Every report of a call is a row of its own, as in the code.
* `Dashboard`: of a row its status, which the form and the toggle both write;
  the agents' table stands for the MCP servers' too (`Table` tells them apart).
  The page never knows a user: `/auth/me` tells the user of a session's token,
  which the token lookup does not read (`OwnersMayEdit`, section 6). So any token
  makes it an admin's page, while the registry goes by the token's scope
  (`MayChange`, `MayAdd`). What the page has for a user is unreachable and left
  out: the sign-out button, and the rows of one owner. The four requests of the agent
  modal settle together and are one; of its parts those are kept that the code
  writes at different times: name, id, figures and sparkline.
  The overview, health, users and webhooks tabs load in the same way and are
  left out, as are rendering and style.

## 4. Runs

Bounds are constants or named in the guards: `MaxRestarts`, `MaxAgents`
(submissions of one session), `MaxAttempts` (deliveries to one webhook),
`MaxTries` (reports of one call), `MaxTime` (the clock), `MaxClicks` (what the
user and others do), the sizes of `Requests` and `Slots` (requests under way)
and of `Sweeps` (sweeps that overlap).
Every hazard here needs at most two requests on one row, which is what the
runs have; a third request on the row only repeats what the second may do.
The theorems hold for any number.

| Run | Instance | Distinct states | Checks |
|---|---|---|---|
| `registry_status` | 1 agent, 2 endpoints, 2 requests, 2 sweeps, PUT may deactivate or degrade, 1 restart | 774,732 | `TypeOK`, `NoSilentReturn`, `StatusImplements`: every interleaving of probes, calls, PUT and DELETE is a behaviour of `AgentStatus` |
| `registry_catalogue` | 1 agent and the built-in one, 2 texts, 2 requests, embedding may fail | 238,584 | `AuditOwedOnlyInFlight`, `IndexJoins`, `CardStored`: concurrent POST, PUT, DELETE and Connect registrations account for their rows |
| `registry_health` | 1 agent, 2 endpoints, 1 request, 2 sweeps, fair sweeps | 81,657 | `DownIsNoticed`, `DegradedHeals` |
| `access` | 1 user (listed as admin), 2 tokens beside the bootstrap one, 1 resource, 2 requests, statements may throw | 1,309,748 | `TypeOK`, `SessionsMirrorUsers`, `AuditExplainsTokens`, `RevocationIsFinal`, `AdminScopeFromAdmins` |
| `connect_overlap` | 2 sessions, 2 turns, no model, restarts, 3 agents | 3,036 | `TypeOK`, `ReviewIsComplete`, `DoneIsExplained`, `SubmissionsAreCurrent`, `DoneIsFinal` |
| `connect_model` | 1 session, 1 turn, a model, throwing statements, restarts, 2 agents | 1,410,670 | `ToldIsRegistered` |
| `webhooks` | 2 webhooks, 3 filters, 2 PUTs, throwing statements, restarts, 2 deliveries each | 1,067,779 | `TypeOK`, `NothingCountedTwice`, `AttemptsAccounted`, `LogTellsState`, `PausedIsQuiet`, `DeletedForGood` |
| `webhooks_counted` | 1 webhook, the same faults, 3 deliveries, fair deliveries | 8,065 | `EveryAttemptCounted` |
| `mcp` | 2 servers, 2 texts, 1 user and an admin, 2 PUTs, pages of 1, throwing statements, restarts | 320,102 | `LogTellsState`, `WalkIsComplete`, `RevivedOnRequest` |
| `lifecycle` | all 40 statements on the file of every release, 2 processes that migrate, 2 connections | 187,544 | `MigrationsNeverFail`, `ServesWholeSchema`, `CleanExitAnswersAll`, `ShutdownEnds` |
| `reporter` | 3 callers (JavaScript, Python, by hand with 2 reports), 2 agents, 2 latencies, 2 ticks, a window of one hour | 1,073,043 | `RowsTellOutcomes`, `PercentilesAreQuantiles`, `SeriesAddsUp` |
| `dashboard` | 2 agents, 1 token, 2 requests, 3 clicks, failures, other clients | 693,536 | `SavesWhatWasShown`, `DetailAgrees`, `PageSettles` |

TLC finds no error in any of them. Why these sizes are enough:

* *One agent in `registry_status`.* Statuses of different agents never meet:
  each probe, call and PUT concerns one row. Two sweeps and two requests give
  every pair of overlapping writers of that row, two endpoints a PUT that moves
  an agent while it is probed. `registry_catalogue` has the built-in agent too.
* *One user in `access`.* A PUT and a login concern one user; two requests give
  a PUT against a PUT, a login or a mint, and two tokens an old session beside
  a new one. Tokens are never reused, so runs are short.
* *`connect_model` has one turn at a time*: what a model may make of the five
  fields is many states, and `ToldWhenRegistered` proves the same for any number
  of turns. `connect_overlap` has no throwing statement: with one, a
  session that another turn has cancelled may bounce back to its review.
* *Two servers and pages of one in `mcp`* let a server move from a page not yet
  read to one that was read, and two PUTs overlap on one row or on two.
* *`lifecycle`* has nothing to choose but the connections: two suffice for one
  that drains while the other stays open or asks again.
* *Three callers in `reporter`*: JavaScript, Python over `urllib` (over `httpx`
  the same failures have fewer names) and one that reports by hand. Four rows at
  most give percentiles of none to four samples; two ticks put rows before, in
  and at the edge of the window.
* *Two requests and three clicks in `dashboard`*: every order of two answers
  with a click before, between and after them, such as two rows that are opened
  for editing, answered in either order, and a save. The page's first load takes
  no click.
* *Two deliveries per webhook* suffice for one that is counted and one on its
  way, and for a test, which sends two.

`registry_one_writer.cfg` (`IndexFresh` when writes do not overlap),
`registry_retired.cfg` (`RetiredForGood`) and `connect_serial.cfg`
(`RegisteredOnce` and `NothingCreated` when turns do not overlap) hold too; they
are kept to be run by hand, as are those of section 6
(`tlc -config X.cfg MC...`).

Symmetry (`Interchangeable`) permutes ids the modules only compare for
equality; it is used with invariants and action properties, never with
liveness or leads-to: `registry_retired`, `registry_health`,
`registry_recovery`, `webhooks_counted`, `lifecycle` and `dashboard` run without
it, as does `reporter`, whose calls differ. Deadlock is checked in every run but `dashboard`, where a page
rests once its clicks are used up and its answers have come; there
`PageSettles` says what it may rest at.

**Fairness.** It is assumed only for what the code itself drives to an end:

* `registry_health`, `registry_recovery`: a sweep starts again and again since
  `setInterval` (health.js:9) is never cleared before shutdown, and each probe
  ends since its fetch has a timeout (10 s, health.js:39): `WF` on `StartSweep` and `EndCheck`.
* `webhooks_counted`: a delivery ends since its fetch has a timeout
  (webhooks.js:101): `WF` on `EndDelivery`, per webhook.
* `lifecycle`: a server that runs executes its next statement, and draining ends
  or its timer fires (server.js:184): `WF` on the server's steps and on
  `Drained \/ ForceExit`. No handler is assumed to answer.
* `dashboard`: a fetch settles within 20 s (app.js:135), 30 s in the chat
  (app.js:1194), and its handler runs: `WF` on `Settle`, per request.

`reporter` has no fairness, and nothing is claimed about callers being answered:
only the JavaScript SDK bounds a whole call (reporter.js:67). The timeouts of the
Python one (reporter.py:96, reporter.py:112) bound each socket operation, so an
agent that sends its answer slowly keeps `invoke` waiting.

Nobody is assumed to call a route, to repair an endpoint, to click or to restart
the process.

## 5. Proofs

The proofs are for all values of the constants under the modules' `ASSUME`s,
which TLC evaluates in each run. Every invariant and every action property that
a run checks is stated by a theorem, but for the liveness properties.

Some theorems have a hypothesis on the behaviour, `Spec /\ []H => ...` or
`Spec /\ [][H]_vars => ...`. They are about what section 6 shows to fail
otherwise: H rules out an interference, such as a PUT that another request
overtakes, and nothing else, so that the theorem and the counterexample together
say that this interference is the only cause.

* **`AgentRegistry_proofs`.** The inductive invariant is `TypeOK /\ Owed`.
  `Owed` is needed because `unaudited` is decremented: that it stays a natural
  follows only from each suspended write owing a row of its own, which is
  counted with the cardinality of `Writers(a)`. `TypeCorrect` and
  `AuditComplete` follow. `ProbesKnown` (sweeps hold registered agents, which
  are not built in) is a second invariant; with it `InactiveReturns` proves
  `NoSilentReturn` action by action, `RetirementIsFinal` that an agent without
  late calls, once inactive, stays so where administrators only deactivate, and
  `Refinement` that every step maps to a step of `AgentStatus` or a stutter.
  `Catalogued` is the invariant of the catalogue: suspended requests are about
  registered agents, which have texts, and so `IndexAlwaysJoins` and
  `CardsAreStored`, for both writers of the index in either order. `IndexIsFresh`
  is under `NoOverlap` (no restart, one writer per agent) and embeddings that do
  not fail; its invariant `Indexed` adds that a write embeds the agent's current
  text and that an agent Connect registers has no map row yet.
* **`Access_proofs`.** `RevokedForGood` and `TokensExplained` rest on one lemma
  about how rows of `tokens` change (`RowChanges`). `AdminsMakeAdmins` needs
  `MintersAreAdmins`: a suspended mint was admitted with an admin token, whose
  scope never changes. `SessionsAreCurrent`, the least obvious, is by the
  invariant that holders of sessions exist and sessions mirror users; a PUT that
  decides on a stale user is harmless to it since it revokes whenever it writes.
  A PUT whose revocation throws breaks the mirror for the sessions live at that
  moment, which are `torn`; the invariant shows that it breaks it for no other.
  `DisablesTakeEffect` and, where no statement throws, `DisablesEndSessions` are
  under `Undisturbed`: nobody else changes the user while a PUT awaits its body,
  so that what it has read is still so (`ReadIsUser`).
* **`Connect_proofs`.** Without a model, the invariant is that every row is on
  track: its state tells which required fields are filled, also in the rows that
  suspended submissions will save, which have inserted their agents. It gives
  `ReviewsAreComplete`, `DoneStaysDone` and `DoneExplained`, for any overlap
  and any restart, as long as no statement throws (`~StatementsMayFail`).
  `ToldWhenRegistered` needs none of this: by `Reported`, a submission that will
  say it is completed has inserted its agent, with a model or without, whatever
  throws and stops. `FieldsStay` and `SubmissionsStayCurrent` are without a
  model, but for any overlap, throw and restart: a turn only adds fields to the
  row it replaces (`Grows`), and only a session in its review is submitted, whose
  fields the state machine no longer writes (`Current`). `OneAgentPerSession` and
  `CancelledCreatedNothing` are under `Serial` (no turn starts while another of
  its session is suspended) and exclude a model, throws and restarts, each of
  which lets a second "yes" register again; their invariant `Once` says that a
  session's only agent is in flight or the session done.
* **`Webhooks_proofs`.** The invariant is `TypeOK /\ NothingCountedTwice`: the
  counters keep their bounds only because what is counted, on its way or lost
  was started. One lemma (`DispatchStarts`) says what a dispatch may start, and
  gives `PausedAreLeftAlone`, `DeletedAreGone` and, with `UnregisteredIsQuiet`,
  `DeliveriesAccounted`. `LogIsRight` is inductive on its own. All hold whatever
  throws and stops; so does `PutsTakeEffect`, under `Undisturbed`.
* **`McpDirectory_proofs`.** The invariant is `LogTellsState`, `AdmittedStillMay`
  and the types of rows and suspended PUTs (`IInv`). A PUT that awaits its body
  holds a row that may be stale; `Written` says the columns its body gives and
  leaves those of the row *now*, so that the audit row and the row agree.
  `AdmittedMay` holds since `owner_user_id` is written only by POST.
  `RevivedByBody` follows: a column that no body gives keeps its value.
  `WalkComplete` is by what is still ahead of a walk: whatever was listed when it
  began and was not told yet is at an offset its next pages cover
  (`AheadOfWalk`). It is inductive since, as long as nothing leaves, a server's
  offset (the listed ones before it in `listing`) never falls, wherever others
  are inserted; this is counted with cardinalities. `WalksSkipNothing` has the
  hypothesis `NoneLeaves` instead of the walk's own record of departures.
  `BeforesAreLastAfters` is under `Undisturbed` and `~StatementsMayFail`.
* **`Lifecycle_proofs`.** For *any* script that needs only what it has made
  before and whose ALTERs are tolerated (`ScriptAssumption`, which TLC evaluates
  for the repository's), the invariant is: each process that migrates finds what
  the statements before its next one make (`MadeSoFar`), no table they filled
  has a row without owner (`FilledSoFar`), and a server that is up has been through
  all (`WholeOnceUp`). It is inductive since the schema only grows
  (`StillMade`). Later migrations that keep the assumption are covered.
* **`Reporter_proofs`.** The invariant tells a call before its end, when nothing
  of it can be on its way, from one after it, whose single report and rows have
  the status of what its caller was told (`BeforeEnd`, `AfterEnd`). `IndexBounds`
  places the index of a percentile in its sequence, and `PercentileIsQuantile`
  counts the samples on both sides of it: for every ascending sequence of any
  length and every p, what `percentile` returns is a p-quantile.
  `PercentilesAscend` follows from the index alone. For the figures of the rows,
  `TInv` adds that the rows are a table (`IsTable`): finitely many, each with a
  status, a latency and an instant that has been. `Latencies` gives the samples
  as order statistics, and `LatenciesAscend` shows that they ascend and are
  the rows'; `PercentilesHold` follows. `SeriesHolds` needs the sums of
  `GROUP BY`: `SumIs` shows that a function of the subsets of a set which grows by
  f[x] with each element x is the sum of f, and `GroupsAddUp` that the groups of
  a finite set add up to it. Both are inductions over a set's size, done by
  contradiction at the least size that fails (`NatLeast`), since the library's
  induction theorems cannot be instantiated here.
* **`Dashboard_proofs`.** `IInv` is `TypeOK` with what a form (`FormWhole`) and
  every request under way (`Kept`) have of their row. It is split by the part of
  the page a step concerns (`IdentityKeeps`, `TableKeeps`, `FormKeeps`,
  `PanelsKeep`, `RegistryKeeps`). `DetailIsOne` needs no history: name, id and figures
  are set together or cleared. The last part is about a user who waits for
  each answer (`[]OneAtATime`). Its invariant `Ordered` says what holds of the
  page about the only request under way (`About`): the page's token is live unless
  that is just being asked, there are buttons only with such a token, rows
  are as they are unless a change to one was just accepted, and a reply is for
  the session that is shown. `LinesAreOfSession` follows whatever fails and
  whatever others do, `OffersAreRight` if others revoke no token and all tokens
  are of admin scope, `TableIsCurrent` if nothing fails and nobody else writes.
  `NotFoundIsEmpty` and `SparklineIsOfAgent` are under the same hypothesis, by
  `Cleared`: while an agent is being opened the modal has no figures and no
  sparkline.

**Only model-checked.** The liveness properties, which this prover does not do:
`DownIsNoticed`, `DegradedHeals`, `EveryAttemptCounted`, `ShutdownEnds`,
`PageSettles`.

## 6. Where the code and what is said of it disagree

Each has a configuration to be run by hand (`tlc -config X.cfg MC...`), in which
TLC finds the property violated. Where the property's comment quotes a line of
the repository, the table does. Configurations with several properties stop at
the first; leave one in to see its own counterexample.

| Configuration | Property | What is said | What happens |
|---|---|---|---|
| `registry_disagree` | `DeletedStaysDeleted` | README.md:324 | A proxied call that began while its agent was degraded sets it active when it ends, deleted or not. |
| `registry_disagree` | `AuditEveryMutation` | SECURITY.md:65 | A stop during an embedding leaves a committed change without its audit row. |
| `registry_recovery` | `RecoversWhenUp` | README.md:23 | One failed probe makes an agent inactive, and inactive agents are never probed again. |
| `registry_reembed` | `IndexFresh` | | Of two overlapping embeddings the slower one stays, also if its text is the older one. |
| `access_owners` | `OwnersMayEdit` | README.md:169 | The token lookup does not read `user_id`: sessions are tied to no user, and users may not change what they created. |
| `access_disagree` | `NoSelfLockout` | routes/admin.js:214 | For the same reason, the guard against locking oneself out never applies. |
| `access_disagree` | `DisableTakesEffect` | README.md:338 | Of two overlapping PUTs of a user, one that asks to disable is answered 200 and does nothing. |
| `access_retry` | `DisableEndsSessions` | README.md:203 | A PUT whose second statement throws disables the user and leaves the sessions; its retry does too. |
| `connect_disagree` | `RegisteredOnce` | connect-agent.js:277 | Two overlapping confirmations register two agents. |
| `connect_disagree` | `NothingCreated` | connect-agent.js:268 | A cancellation during a submission answers "Nothing was created". |
| `connect_disagree` | `SameGates` | connect-agent.js:396 | Connect registers endpoints that `POST /agents` refuses. |
| `connect_lost` | `FieldsAccumulate` | 007_connect_agent.sql:11 | What the model returns is spread over the fields (connect-agent.js:370), blank values included: one turn may lose what the user said. |
| `webhooks_disagree` | `TestFiresOnce` | integration.js:605 | Testing a webhook sends two events, to all who subscribe to them. |
| `webhooks_disagree` | `PutTakesEffect` | README.md:341 | Of two overlapping PUTs of a webhook, one is answered with a state the webhook is not in. |
| `mcp_disagree` | `WalkNeverSkips` | | A deletion moves a server from the next page to the one just read. |
| `mcp_disagree` | `BeforeIsLastAfter` | | Of two overlapping PUTs the second is audited with a `before` that is no longer true. |
| `lifecycle_builtin` | `BuiltinIsWhole` | | The connect agent's row without its capabilities is taken for whole by every later boot. |
| `reporter_disagree` | `ManualCountedOnce` | | A report whose answer is lost and that its caller repeats is two rows. |
| `reporter_disagree` | `TimeoutsReported` | | The status is guessed from the text of the error: timeouts that name themselves otherwise are reported as errors. |
| `dashboard_races` | `OffersReflectIdentity` | app.js:44 | Any token gets buttons on all rows, one of write scope too, which the registry then refuses; and rows that were made before an overlapping change of token keep theirs. |
| `dashboard_races` | `ShownIsCurrent` | | Of two overlapping loads the slower one is shown, also if it is the older one. |
| `dashboard_races` | `RepliesOfSession` | | The reply to a session's last message lands in the panel of the next session. |
| `dashboard_races` | `SavesUndoNothing` | | The form writes every field: it undoes a status changed since it was filled. |
| `dashboard_races` | `DetailIsWhole` | | With `Failures = TRUE`: an opening that fails leaves the earlier agent's figures under "Agent not found". |
| `dashboard_races` | `SparklineAgrees` | | With `Failures = TRUE`: of two overlapping openings one whose figures fail leaves the other agent's sparkline (app.js:803) under its own name. |

Proved to need the interference that its counterexample shows (section 5):
`IndexFresh` (`IndexIsFresh`), `DisableTakesEffect` and `DisableEndsSessions`
(`DisablesTakeEffect`, `DisablesEndSessions`), `RegisteredOnce` and
`NothingCreated` (`OneAgentPerSession`, `CancelledCreatedNothing`),
`FieldsAccumulate` (`FieldsStay`: without a model), `PutTakesEffect` (`PutsTakeEffect`),
`WalkNeverSkips` (`WalksSkipNothing`), `BeforeIsLastAfter`
(`BeforesAreLastAfters`), `OffersReflectIdentity`, `ShownIsCurrent` and
`RepliesOfSession` (`OffersAreRight`, `TableIsCurrent`, `LinesAreOfSession`), and
`DetailIsWhole` and `SparklineAgrees` (`NotFoundIsEmpty`, `SparklineIsOfAgent`).
`OffersReflectIdentity` has three causes, any of which suffices: a token of lower
scope, a token that someone else revokes, and requests that overlap.

## 7. What is not modelled

Reads that change nothing (listings of agents, tokens, users, webhooks and the
audit log; search ranking; cards), the counts of agents and servers in the
metrics, cryptography (token hashes, HMAC, identity tokens), the wire formats of
the embedding, chat and identity providers, the strings that validation tells
apart, environment, logging and meta routes (no state anything depends on), the
dashboard's overview, health, users and webhooks tabs, the seed script, tests
and packaging. SQLite is taken to do what its
statements say and to commit each; two server processes on one file are not
considered, the program is not made for them.

## 8. Plan

Done, in this order: `AgentStatus` and `AgentRegistry` (the core: what is in the
directory and what its status means), `Access`, `Connect`, `Webhooks`,
`McpDirectory`, `Lifecycle` with `Migrations`, `Reporter` with `Metrics`,
`Dashboard`, with their proofs. Left:

1. `Search`: the two paths of `POST /agents/search` over the state of
   `AgentRegistry`: only registered, active agents, and the fallback.
2. A composition of `Connect` with the registration of `AgentRegistry`, and of
   `Access` with the owners of agents and servers (who may change what).
3. `SavesUndoNothing` of `Dashboard` under the hypothesis that nobody changes a
   row while its form is open, as for the others of section 6.
