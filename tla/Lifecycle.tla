----------------------------- MODULE Lifecycle -----------------------------
(***************************************************************************)
(* The life of the server's process (src/server.js): migrations at every   *)
(* boot (src/db.js), the bootstraps, serving, and the graceful shutdown,   *)
(* with the database file that outlives it.                                *)
(*                                                                         *)
(* A process may be killed between any two statements, and `npm run        *)
(* migrate` may run the same script on the same file at any time.  Script  *)
(* is a constant so that what is proved holds for the migrations to come.  *)
(*                                                                         *)
(* Of the rows we keep whether those of each owned table have an owner; of *)
(* requests, which connections wait for an answer.  What runs without a    *)
(* connection (probes, deliveries) is modelled with its own component.     *)
(***************************************************************************)
EXTENDS Naturals, Sequences

CONSTANTS
  Script,   \* the statements of migrate(), see Migrations
  Releases, \* how many of them the releases before this one had
  Owned,    \* the tables with a column owner_user_id
  Conns     \* connections to the HTTP server

Made(n) == {Script[i].name : i \in {j \in 1..n : Script[j].kind # "backfill"}}
Objects == Made(Len(Script))
Backfilled(n) == {Script[i].name : i \in {j \in 1..n : Script[j].kind = "backfill"}}

ASSUME ScriptAssumption ==
  /\ Script \in Seq([kind : {"create", "alter", "backfill"}, name : STRING,
                     needs : SUBSET STRING, tolerant : BOOLEAN])
  /\ \A i \in 1..Len(Script) : Script[i].needs \subseteq Made(i - 1)
  /\ \A i \in 1..Len(Script) : Script[i].kind = "alter" => Script[i].tolerant
ASSUME ReleasesAssumption == Releases \subseteq 0..Len(Script)
ASSUME OwnedAssumption == Owned = Backfilled(Len(Script))

VARIABLES
  schema,  \* the tables, columns and indexes of the file
  owner,   \* who owns the rows of each owned table
  builtin, \* the connect agent: its row, and whether its capabilities are there
  pc,      \* the next statement of each process that migrates
  phase,   \* what the server's process does
  exit,    \* how it ended last
  conn     \* "closed", "idle" (kept alive) or "busy" (waiting for an answer)

vars == <<schema, owner, builtin, pc, phase, exit, conn>>

Processes == {"server", "migrate"}
Owners == {"none", "null", "user", "system"}   \* "none": the table has no rows

TypeOK ==
  /\ schema \subseteq Objects
  /\ owner \in [Owned -> Owners]
  /\ builtin \in {"absent", "bare", "whole"}
  /\ pc \in [Processes -> 0..Len(Script) + 1]
  /\ phase \in {"off", "migrating", "bootstrapping", "serving", "draining"}
  /\ exit \in {"none", "clean", "forced", "killed", "failed"}
  /\ conn \in [Conns -> {"closed", "idle", "busy"}]

\* A file that no release, or an earlier one, left behind.  Its rows have no
\* owner unless it is as recent as the column.
Init ==
  /\ \E n \in Releases :
       /\ schema = Made(n)
       /\ owner \in [Owned -> IF n = 0 THEN {"none"} ELSE Owners]
       /\ \A t \in Owned : owner[t] \in {"user", "system"} => t \in Backfilled(n)
       /\ \A t \in Owned : owner[t] = "null" => t \notin Backfilled(n)
  /\ builtin = "absent"
  /\ pc = [p \in Processes |-> 0]
  /\ phase = "off"
  /\ exit = "none"
  /\ conn = [c \in Conns |-> "closed"]

-----------------------------------------------------------------------------
(* Migrations                                                              *)

\* node starts and imports db.js, which migrates; the script npm calls does the
\* same, twice in a row.
StartServer ==
  /\ phase = "off"
  /\ phase' = "migrating"
  /\ exit' = "none"
  /\ pc' = [pc EXCEPT !["server"] = 1]
  /\ UNCHANGED <<schema, owner, builtin, conn>>

StartMigrate ==
  /\ pc["migrate"] = 0
  /\ pc' = [pc EXCEPT !["migrate"] = 1]
  /\ UNCHANGED <<schema, owner, builtin, phase, exit, conn>>

\* Wrong on purpose: a column that is there is an error in every file.
ThrowsOnDuplicate(s) == ~(s.needs \subseteq schema) \/ (s.kind = "alter" /\ s.name \in schema)

\* A statement throws if what it is about is missing, and ALTER if the column is
\* there, which the runner swallows in the files it is told to tolerate.
Throws(s) ==
  \/ ~(s.needs \subseteq schema)
  \/ s.kind = "alter" /\ s.name \in schema /\ ~s.tolerant

\* UPDATE ... SET owner_user_id = 'system' WHERE owner_user_id IS NULL
BackfillOwner(t) == owner' = [owner EXCEPT ![t] = IF @ = "null" THEN "system" ELSE @]

Execute(s) ==
  IF s.kind = "backfill"
  THEN BackfillOwner(s.name) /\ UNCHANGED schema
  ELSE schema' = schema \union {s.name} /\ UNCHANGED owner

\* The next statement of p is executed, or throws, which ends the process.
Step(p) ==
  LET s == Script[pc[p]] IN
  /\ pc[p] \in 1..Len(Script)
  /\ IF Throws(s)
     THEN /\ pc' = [pc EXCEPT ![p] = 0]
          /\ phase' = IF p = "server" THEN "off" ELSE phase
          /\ exit' = "failed"
          /\ UNCHANGED <<schema, owner>>
     ELSE /\ Execute(s)
          /\ pc' = [pc EXCEPT ![p] = @ + 1]
          /\ UNCHANGED <<phase, exit>>
  /\ UNCHANGED <<builtin, conn>>

EndMigrate ==
  /\ pc["migrate"] > Len(Script)
  /\ pc' = [pc EXCEPT !["migrate"] = 0]
  /\ UNCHANGED <<schema, owner, builtin, phase, exit, conn>>

-----------------------------------------------------------------------------
(* Bootstraps                                                              *)

\* bootstrapEnvToken, then the connect agent: its row if it is missing, ...
InsertBuiltin ==
  /\ phase = "migrating" /\ pc["server"] > Len(Script)
  /\ phase' = "bootstrapping"
  /\ pc' = [pc EXCEPT !["server"] = 0]
  /\ builtin' = IF builtin = "absent" THEN "bare" ELSE builtin
  /\ UNCHANGED <<schema, owner, exit, conn>>

\* Wrong on purpose: the server listens before the migrations are through.
ListenEarly ==
  /\ phase \in {"migrating", "bootstrapping"}
  /\ phase' = "serving"
  /\ pc' = [pc EXCEPT !["server"] = 0]
  /\ UNCHANGED <<schema, owner, builtin, exit, conn>>

\* ... then, in the boot that inserted it, its capabilities.  The server listens.
Listen ==
  /\ phase = "bootstrapping"
  /\ phase' = "serving"
  /\ builtin' \in {builtin} \union (IF builtin = "bare" THEN {"whole"} ELSE {})
  /\ UNCHANGED <<schema, owner, pc, exit, conn>>

-----------------------------------------------------------------------------
(* Serving                                                                 *)

\* A request on a new connection, or on one kept alive: also once the server is
\* closing, which only refuses new ones.
Request(c) ==
  /\ \/ phase = "serving" /\ conn[c] \in {"closed", "idle"}
     \/ phase = "draining" /\ conn[c] = "idle"
  /\ conn' = [conn EXCEPT ![c] = "busy"]
  /\ UNCHANGED <<schema, owner, builtin, pc, phase, exit>>

\* The request is answered; if it registered something, with an owner.
Answer(c) ==
  /\ phase \in {"serving", "draining"} /\ conn[c] = "busy"
  /\ conn' \in {[conn EXCEPT ![c] = kept] : kept \in {"idle", "closed"}}
  /\ \/ UNCHANGED owner
     \/ \E t \in Owned, o \in {"user", "system"} :
          owner[t] = "none" /\ owner' = [owner EXCEPT ![t] = o]
  /\ UNCHANGED <<schema, builtin, pc, phase, exit>>

\* A connection that is kept alive times out, or its client leaves.
Close(c) ==
  /\ conn[c] = "idle"
  /\ conn' = [conn EXCEPT ![c] = "closed"]
  /\ UNCHANGED <<schema, owner, builtin, pc, phase, exit>>

-----------------------------------------------------------------------------
(* Shutdown                                                                *)

Stop(how) ==
  /\ phase' = "off"
  /\ exit' = how
  /\ conn' = [c \in Conns |-> "closed"]

Open == {c \in Conns : conn[c] # "closed"}

\* Wrong on purpose: a second signal closes the server again, which calls back
\* at once with an error.
SignalTwice ==
  /\ UNCHANGED <<schema, owner, builtin, pc>>
  /\ \/ /\ phase = "serving"
        /\ phase' = "draining"
        /\ conn' = [c \in Conns |-> IF conn[c] = "idle" THEN "closed" ELSE conn[c]]
        /\ UNCHANGED exit
     \/ phase = "draining" /\ Stop("clean")

\* SIGTERM or SIGINT: server.close refuses new connections and closes those that
\* are idle.  A second signal finds shuttingDown set.
Signal ==
  /\ phase = "serving"
  /\ phase' = "draining"
  /\ conn' = [c \in Conns |-> IF conn[c] = "idle" THEN "closed" ELSE conn[c]]
  /\ UNCHANGED <<schema, owner, builtin, pc, exit>>

\* The last connection is closed: checkpoint, db.close, exit(0).
Drained ==
  /\ phase = "draining" /\ Open = {}
  /\ Stop("clean")
  /\ UNCHANGED <<schema, owner, builtin, pc>>

\* Wrong on purpose: the timer is not set.
NoForceExit == FALSE /\ UNCHANGED vars

\* 15 s are over: exit(1).
ForceExit ==
  /\ phase = "draining" /\ Open # {}
  /\ Stop("forced")
  /\ UNCHANGED <<schema, owner, builtin, pc>>

\* The process is killed, by a signal before its handlers are there or by the
\* machine; statements that were committed stay.
Kill ==
  /\ phase # "off"
  /\ Stop("killed")
  /\ pc' = [pc EXCEPT !["server"] = 0]
  /\ UNCHANGED <<schema, owner, builtin>>

KillMigrate ==
  /\ pc["migrate"] # 0
  /\ pc' = [pc EXCEPT !["migrate"] = 0]
  /\ UNCHANGED <<schema, owner, builtin, phase, exit, conn>>

Next ==
  \/ StartServer \/ StartMigrate \/ EndMigrate
  \/ \E p \in Processes : Step(p)
  \/ InsertBuiltin \/ Listen
  \/ \E c \in Conns : Request(c) \/ Answer(c) \/ Close(c)
  \/ Signal \/ Drained \/ ForceExit
  \/ Kill \/ KillMigrate

Spec == Init /\ [][Next]_vars

\* A process that runs executes its next statement; the timer fires.  Handlers
\* need not answer, nobody need start or stop the process.
Fairness ==
  /\ WF_vars(Step("server")) /\ WF_vars(InsertBuiltin) /\ WF_vars(Listen)
  /\ WF_vars(Drained \/ ForceExit)
FairSpec == Spec /\ Fairness
-----------------------------------------------------------------------------
(* Properties                                                              *)

\* No statement throws (db.js:51), whichever release left the file, wherever an
\* earlier run was killed, and whatever another process migrates meanwhile.
MigrationsNeverFail == exit # "failed"

\* A server that answers has every table, column and index, and every row of an
\* owned table has an owner (005_users.sql:48), although the run that added the
\* column may have been killed before it filled it.
ServesWholeSchema ==
  phase \in {"serving", "draining"} =>
    schema = Objects /\ \A t \in Owned : owner[t] # "null"

\* The backfill runs at every boot and takes no row from its owner.
OwnersKept ==
  [][\A t \in Owned : owner[t] \in {"user", "system"} => owner'[t] = owner[t]]_vars

\* The process exits with 0 (server.js:201) only if every request it took was
\* answered, however many signals it was sent.
CleanExitAnswersAll ==
  [][phase = "draining" /\ phase' = "off" /\ exit' = "clean" =>
       \A c \in Conns : conn[c] # "busy"]_vars

\* A shutdown ends (server.js:183), even if a handler never answers.
ShutdownEnds == phase = "draining" ~> phase = "off"

-----------------------------------------------------------------------------
(* What the code does not promise                                          *)

\* The built-in agent has its capabilities once the server listens.
BuiltinIsWhole == phase = "serving" => builtin = "whole"
=============================================================================
