-------------------------- MODULE Lifecycle_proofs --------------------------
(***************************************************************************)
(* Proofs about Lifecycle for every script that satisfies                  *)
(* ScriptAssumption: whatever was migrated by earlier releases, by runs    *)
(* that were killed and by another process at the same time, no statement  *)
(* throws, and a server that answers has the whole schema.                 *)
(*                                                                         *)
(* The invariant says of each process that migrates that all it is past of *)
(* is there: statements only add, so another process never takes away.     *)
(***************************************************************************)
EXTENDS Lifecycle, TLAPS

NoThrow == exit # "failed"
MadeSoFar == \A p \in Processes : pc[p] # 0 => Made(pc[p] - 1) \subseteq schema
FilledSoFar ==
  \A p \in Processes : pc[p] # 0 => \A t \in Backfilled(pc[p] - 1) : owner[t] # "null"
WholeOnceUp ==
  phase \in {"bootstrapping", "serving", "draining"} =>
    schema = Objects /\ \A t \in Owned : owner[t] # "null"
IInv == TypeOK /\ NoThrow /\ MadeSoFar /\ FilledSoFar /\ WholeOnceUp

-----------------------------------------------------------------------------
(* The script                                                              *)

\* The statements and what they have to find.
LEMMA ScriptFacts ==
  /\ Len(Script) \in Nat
  /\ \A i \in 1..Len(Script) :
       /\ Script[i] \in [kind : {"create", "alter", "backfill"}, name : STRING,
                         needs : SUBSET STRING, tolerant : BOOLEAN]
       /\ Script[i].needs \subseteq Made(i - 1)
       /\ Script[i].kind = "alter" => Script[i].tolerant
<1>. DEFINE S == [kind : {"create", "alter", "backfill"}, name : STRING,
                  needs : SUBSET STRING, tolerant : BOOLEAN]
<1>1. Script \in Seq(S)
  BY ScriptAssumption
<1>. HIDE DEF S
<1>2. Len(Script) \in Nat /\ \A i \in 1..Len(Script) : Script[i] \in S
  BY <1>1
<1>. QED
  BY <1>2, ScriptAssumption DEF S

\* What the first n statements make is part of the schema; all of it for n = Len.
LEMMA MadeIsPart == ASSUME NEW n \in 0..Len(Script) PROVE Made(n) \subseteq Objects
BY ScriptFacts DEF Made, Objects

\* What a statement makes or fills comes on top of what those before it did.
LEMMA MadeGrows ==
  ASSUME NEW n \in 1..Len(Script)
  PROVE  /\ Script[n].kind # "backfill" => /\ Made(n) = Made(n - 1) \union {Script[n].name}
                                          /\ Backfilled(n) = Backfilled(n - 1)
         /\ Script[n].kind = "backfill" => /\ Made(n) = Made(n - 1)
                                          /\ Backfilled(n) = Backfilled(n - 1) \union {Script[n].name}
<1>1. \A j \in 1..n : j = n \/ j \in 1..(n - 1)
  BY ScriptFacts
<1>2. \A j \in 1..(n - 1) : j \in 1..n
  BY ScriptFacts
<1>3. n \in 1..n
  BY ScriptFacts
<1>. QED
  BY <1>1, <1>2, <1>3 DEF Made, Backfilled

\* Nothing is made or filled before the first statement.
LEMMA MadeNone == Made(0) = {} /\ Backfilled(0) = {}
BY DEF Made, Backfilled

\* Only owned tables are filled.
LEMMA FilledIsOwned == ASSUME NEW n \in 0..Len(Script) PROVE Backfilled(n) \subseteq Owned
BY ScriptFacts, OwnedAssumption DEF Backfilled

-----------------------------------------------------------------------------
(* The steps                                                               *)

\* A step that only adds to the schema and owners, and does not bring a process
\* further, keeps what those that migrate rely on.
LEMMA StillMade ==
  ASSUME IInv, schema \subseteq schema',
         \A t \in Owned : owner[t] # "null" => owner'[t] # "null",
         NEW p \in Processes, pc'[p] = pc[p] \/ pc'[p] \in {0, 1}
  PROVE  pc'[p] # 0 => /\ Made(pc'[p] - 1) \subseteq schema'
                       /\ \A t \in Backfilled(pc'[p] - 1) : owner'[t] # "null"
<1>1. CASE pc'[p] = 1
  BY <1>1, MadeNone
<1>2. CASE pc'[p] = pc[p] /\ pc[p] # 0
  <2>1. pc[p] \in 1..Len(Script) + 1
    BY <1>2 DEF IInv, TypeOK
  <2>2. pc[p] - 1 \in 0..Len(Script)
    BY <2>1, ScriptFacts
  <2>3. Made(pc[p] - 1) \subseteq schema /\ \A t \in Backfilled(pc[p] - 1) : owner[t] # "null"
    BY <1>2 DEF IInv, MadeSoFar, FilledSoFar
  <2>. QED
    BY <1>2, <2>2, <2>3, FilledIsOwned
<1>. QED
  BY <1>1, <1>2

\* No statement that is next throws: all it needs is there.
LEMMA NoneThrows ==
  ASSUME IInv, NEW p \in Processes, pc[p] \in 1..Len(Script)
  PROVE  ~Throws(Script[pc[p]])
<1>1. Made(pc[p] - 1) \subseteq schema
  BY DEF IInv, MadeSoFar
<1>. QED
  BY <1>1, ScriptFacts DEF Throws

\* A statement keeps the invariant, whatever the other process is at.
LEMMA StepKeeps ==
  ASSUME IInv, NEW p \in Processes, Step(p)
  PROVE  IInv'
<1>. DEFINE k == pc[p]
            s == Script[k]
<1>1. k \in 1..Len(Script) /\ ~Throws(s)
  BY NoneThrows DEF Step
<1>2. /\ Execute(s)
      /\ pc' = [pc EXCEPT ![p] = k + 1]
      /\ UNCHANGED <<phase, exit, builtin, conn>>
  BY <1>1 DEF Step
<1>3. /\ schema \subseteq schema' /\ schema' \subseteq Objects
      /\ owner' \in [Owned -> Owners]
      /\ \A t \in Owned : owner[t] # "null" => owner'[t] # "null"
  <2>1. CASE s.kind = "backfill"
    <3>1. schema' = schema
          /\ owner' = [owner EXCEPT ![s.name] = IF @ = "null" THEN "system" ELSE @]
      BY <1>2, <2>1 DEF Execute, BackfillOwner
    <3>. QED
      BY <3>1 DEF IInv, TypeOK, Owners
  <2>2. CASE s.kind # "backfill"
    <3>1. schema' = schema \union {s.name} /\ owner' = owner
      BY <1>2, <2>2 DEF Execute
    <3>2. s.name \in Objects
      BY <1>1, <2>2, MadeGrows, MadeIsPart, ScriptFacts
    <3>. QED
      BY <3>1, <3>2 DEF IInv, TypeOK
  <2>. QED
    BY <2>1, <2>2
<1>4. Made(k) \subseteq schema' /\ \A t \in Backfilled(k) : owner'[t] # "null"
  <2>0. /\ Made(k - 1) \subseteq schema /\ \A t \in Backfilled(k - 1) : owner[t] # "null"
        /\ Backfilled(k - 1) \subseteq Owned /\ Backfilled(k) \subseteq Owned
    BY <1>1, ScriptFacts, FilledIsOwned DEF IInv, MadeSoFar, FilledSoFar
  <2>1. CASE s.kind = "backfill"
    <3>1. owner' = [owner EXCEPT ![s.name] = IF @ = "null" THEN "system" ELSE @]
      BY <1>2, <2>1 DEF Execute, BackfillOwner
    <3>2. Made(k) = Made(k - 1) /\ Backfilled(k) = Backfilled(k - 1) \union {s.name}
      BY <1>1, <2>1, MadeGrows
    <3>3. s.name \in Owned
      BY <2>0, <3>2
    <3>4. owner'[s.name] # "null"
      BY <3>1, <3>3 DEF IInv, TypeOK
    <3>. QED
      BY <1>3, <2>0, <3>2, <3>4
  <2>2. CASE s.kind # "backfill"
    <3>1. schema' = schema \union {s.name}
      BY <1>2, <2>2 DEF Execute
    <3>. QED
      BY <1>1, <1>3, <2>0, <2>2, <3>1, MadeGrows
  <2>. QED
    BY <2>1, <2>2
<1>5. pc' \in [Processes -> 0..Len(Script) + 1] /\ pc'[p] = k + 1
      /\ \A q \in Processes \ {p} : pc'[q] = pc[q]
  BY <1>1, <1>2, ScriptFacts DEF IInv, TypeOK
<1>6. \A q \in Processes :
        pc'[q] # 0 => /\ Made(pc'[q] - 1) \subseteq schema'
                      /\ \A t \in Backfilled(pc'[q] - 1) : owner'[t] # "null"
  <2>1. \A q \in Processes \ {p} :
          pc'[q] # 0 => /\ Made(pc'[q] - 1) \subseteq schema'
                        /\ \A t \in Backfilled(pc'[q] - 1) : owner'[t] # "null"
    BY <1>3, <1>5, StillMade
  <2>2. pc'[p] - 1 = k
    BY <1>1, <1>5, ScriptFacts
  <2>. QED
    BY <1>4, <2>1, <2>2
<1>7. TypeOK'
  BY <1>2, <1>3, <1>5 DEF IInv, TypeOK
<1>8. WholeOnceUp'
  BY <1>2, <1>3 DEF IInv, WholeOnceUp
<1>. QED
  BY <1>2, <1>6, <1>7, <1>8 DEF IInv, NoThrow, MadeSoFar, FilledSoFar

\* So does every other step.
LEMMA RestKeeps ==
  ASSUME IInv, [Next]_vars, ~\E p \in Processes : Step(p)
  PROVE  IInv'
<1>1. /\ schema' = schema
      /\ \A t \in Owned : owner[t] # "null" => owner'[t] # "null"
      /\ owner' \in [Owned -> Owners]
      /\ builtin' \in {"absent", "bare", "whole"}
      /\ phase' \in {"off", "migrating", "bootstrapping", "serving", "draining"}
      /\ exit' \in {"none", "clean", "forced", "killed", "failed"} /\ exit' # "failed"
  BY DEF Next, IInv, NoThrow, TypeOK, Owners, vars, StartServer, StartMigrate, EndMigrate,
         InsertBuiltin, Listen, Request, Answer, Close, Signal, Drained, ForceExit, Kill,
         KillMigrate, Stop
<1>2. conn' \in [Conns -> {"closed", "idle", "busy"}]
  BY DEF Next, IInv, TypeOK, vars, StartServer, StartMigrate, EndMigrate, InsertBuiltin, Listen,
         Request, Answer, Close, Signal, Drained, ForceExit, Kill, KillMigrate, Stop
<1>3. pc' \in [Processes -> 0..Len(Script) + 1]
      /\ \A p \in Processes : pc'[p] = pc[p] \/ pc'[p] \in {0, 1}
  BY ScriptFacts
  DEF Next, IInv, TypeOK, Processes, vars, StartServer, StartMigrate, EndMigrate, InsertBuiltin,
      Listen, Request, Answer, Close, Signal, Drained, ForceExit, Kill, KillMigrate, Stop
<1>4. TypeOK'
  BY <1>1, <1>2, <1>3 DEF IInv, TypeOK
<1>5. MadeSoFar' /\ FilledSoFar'
  BY <1>1, <1>3, StillMade DEF MadeSoFar, FilledSoFar
<1>6. WholeOnceUp'
  <2>1. CASE InsertBuiltin
    <3>1. pc["server"] = Len(Script) + 1
      BY <2>1, ScriptFacts DEF InsertBuiltin, IInv, TypeOK, Processes
    <3>2. pc["server"] - 1 = Len(Script) /\ pc["server"] # 0
      BY <3>1, ScriptFacts
    <3>3. Objects \subseteq schema /\ \A t \in Owned : owner[t] # "null"
      BY <3>2, OwnedAssumption DEF IInv, MadeSoFar, FilledSoFar, Processes, Objects
    <3>. QED
      BY <2>1, <3>3 DEF InsertBuiltin, WholeOnceUp, IInv, TypeOK
  <2>2. CASE ~InsertBuiltin
    <3>1. phase' \in {"bootstrapping", "serving", "draining"} =>
            phase \in {"bootstrapping", "serving", "draining"}
      BY <2>2 DEF Next, vars, StartServer, StartMigrate, EndMigrate, Listen, Request, Answer,
                  Close, Signal, Drained, ForceExit, Kill, KillMigrate, Stop
    <3>. QED
      BY <1>1, <3>1 DEF IInv, WholeOnceUp
  <2>. QED
    BY <2>1, <2>2
<1>. QED
  BY <1>1, <1>4, <1>5, <1>6 DEF IInv, NoThrow

\* A file that an earlier release left behind satisfies the invariant.
LEMMA InitHolds == Init => IInv
<1>. SUFFICES ASSUME Init PROVE IInv
  OBVIOUS
<1>1. PICK n \in Releases : schema = Made(n)
  BY DEF Init
<1>2. n \in 0..Len(Script) /\ schema \subseteq Objects
  BY <1>1, ReleasesAssumption, MadeIsPart
<1>3. owner \in [Owned -> Owners]
  BY DEF Init, Owners
<1>4. TypeOK
  BY <1>2, <1>3, ScriptFacts DEF Init, TypeOK
<1>. QED
  BY <1>4 DEF Init, IInv, NoThrow, MadeSoFar, FilledSoFar, WholeOnceUp

\* Every step keeps it.
LEMMA NextHolds == IInv /\ [Next]_vars => IInv'
BY StepKeeps, RestKeeps

-----------------------------------------------------------------------------
(* The theorems                                                            *)

\* Every variable keeps its type.
THEOREM TypeCorrect == Spec => []TypeOK
<1>1. IInv => TypeOK
  BY DEF IInv
<1>. QED
  BY <1>1, InitHolds, NextHolds, PTL DEF Spec

\* No statement ever throws (db.js:51): not with any number of statements, of
\* releases, of runs that were killed, or with two processes in turn.
THEOREM MigrationsSucceed == Spec => []MigrationsNeverFail
<1>1. IInv => MigrationsNeverFail
  BY DEF IInv, NoThrow, MigrationsNeverFail
<1>. QED
  BY <1>1, InitHolds, NextHolds, PTL DEF Spec

\* A server that answers has the whole schema, and rows of nobody were given an
\* owner (005_users.sql:48).
THEOREM SchemaIsWhole == Spec => []ServesWholeSchema
<1>1. IInv => ServesWholeSchema
  BY DEF IInv, WholeOnceUp, ServesWholeSchema
<1>. QED
  BY <1>1, InitHolds, NextHolds, PTL DEF Spec

\* No boot takes a row from its owner, although the backfills run at each.
THEOREM OwnersAreKept == Spec => OwnersKept
<1>1. IInv /\ [Next]_vars =>
        [\A t \in Owned : owner[t] \in {"user", "system"} => owner'[t] = owner[t]]_vars
  <2>. SUFFICES ASSUME IInv, [Next]_vars, NEW t \in Owned, owner[t] \in {"user", "system"}
                PROVE  owner'[t] = owner[t]
    OBVIOUS
  <2>1. ASSUME NEW p \in Processes, Step(p) PROVE owner'[t] = owner[t]
    BY <2>1, NoneThrows DEF Step, Execute, BackfillOwner, IInv, TypeOK
  <2>. QED
    BY <2>1 DEF Next, vars, IInv, TypeOK, StartServer, StartMigrate, EndMigrate, InsertBuiltin,
                Listen, Request, Answer, Close, Signal, Drained, ForceExit, Kill, KillMigrate, Stop
<1>. QED
  BY <1>1, InitHolds, NextHolds, PTL DEF Spec, OwnersKept

\* The process ends well only when nobody waits for an answer (server.js:201).
THEOREM CleanExits == Spec => CleanExitAnswersAll
<1>1. IInv /\ [Next]_vars =>
        [phase = "draining" /\ phase' = "off" /\ exit' = "clean" =>
           \A c \in Conns : conn[c] # "busy"]_vars
  <2>. SUFFICES ASSUME IInv, [Next]_vars, phase = "draining", phase' = "off", exit' = "clean"
                PROVE  Open = {}
    BY DEF Open
  <2>1. ASSUME NEW p \in Processes PROVE ~Step(p)
    <3>. SUFFICES ASSUME Step(p) PROVE FALSE
      OBVIOUS
    <3>1. phase' = phase
      BY NoneThrows DEF Step
    <3>. QED
      BY <3>1
  <2>. QED
    BY <2>1 DEF Next, vars, StartServer, StartMigrate, EndMigrate, InsertBuiltin, Listen,
                Request, Answer, Close, Signal, Drained, ForceExit, Kill, KillMigrate, Stop
<1>. QED
  BY <1>1, InitHolds, NextHolds, PTL DEF Spec, CleanExitAnswersAll
=============================================================================
