--------------------------- MODULE Webhooks_proofs ---------------------------
(***************************************************************************)
(* Proofs about Webhooks, for every set of webhooks, PUTs and filters: its *)
(* variables keep their types and nothing is counted twice, paused         *)
(* webhooks are left alone and deleted ones stay so, the audit log tells   *)
(* the state of each webhook and every delivery is accounted for, and a    *)
(* PUT that is not overtaken takes effect, whatever throws and stops.      *)
(***************************************************************************)
EXTENDS Webhooks, TLAPS

\* The counters keep their bounds only because nothing is counted twice.
IInv == TypeOK /\ NothingCountedTwice

\* What a dispatch does: deliveries start to subscribers only, and each one
\* that starts waits for an answer.
LEMMA DispatchStarts ==
  ASSUME IInv, NEW n \in Nat, NEW event, Dispatch(event, n)
  PROVE  /\ attempts' \in [Hooks -> 0..MaxAttempts]
         /\ flying' \in [Hooks -> 0..MaxAttempts]
         /\ \A h \in Hooks :
              /\ attempts'[h] + flying[h] = attempts[h] + flying'[h]
              /\ attempts'[h] >= attempts[h]
              /\ delivered[h] + flying'[h] + lost[h] <= attempts'[h]
              /\ h \notin Subscribers(event) => attempts'[h] = attempts[h]
<1>1. PICK started \in [Hooks -> 0..n] :
        /\ \A h \in Hooks : h \notin Subscribers(event) => started[h] = 0
        /\ \A h \in Hooks : attempts[h] + started[h] <= MaxAttempts
        /\ attempts' = [h \in Hooks |-> attempts[h] + started[h]]
        /\ flying' = [h \in Hooks |-> flying[h] + started[h]]
    BY DEF Dispatch
<1>2. \A h \in Hooks :
        /\ attempts[h] \in Nat /\ flying[h] \in Nat /\ delivered[h] \in Nat
        /\ lost[h] \in Nat /\ started[h] \in Nat
        /\ delivered[h] + flying[h] + lost[h] <= attempts[h]
    BY <1>1, MaxAttemptsAssumption DEF IInv, TypeOK, NothingCountedTwice
<1>3. \A h \in Hooks :
        /\ attempts'[h] = attempts[h] + started[h]
        /\ flying'[h] = flying[h] + started[h]
    BY <1>1
<1>4. \A h \in Hooks : attempts'[h] \in 0..MaxAttempts /\ flying'[h] \in 0..MaxAttempts
    BY <1>1, <1>2, <1>3, MaxAttemptsAssumption
<1>5. /\ attempts' \in [Hooks -> 0..MaxAttempts]
      /\ flying' \in [Hooks -> 0..MaxAttempts]
  <2>1. attempts' = [h \in Hooks |-> attempts'[h]] /\ flying' = [h \in Hooks |-> flying'[h]]
      BY <1>1
  <2> QED BY <1>4, <2>1
<1>6. \A h \in Hooks :
        /\ attempts'[h] + flying[h] = attempts[h] + flying'[h]
        /\ attempts'[h] >= attempts[h]
        /\ delivered[h] + flying'[h] + lost[h] <= attempts'[h]
    BY <1>2, <1>3
<1>7. \A h \in Hooks : h \notin Subscribers(event) => attempts'[h] = attempts[h]
    BY <1>1, <1>2, <1>3
<1> QED BY <1>5, <1>6, <1>7

\* A handler that writes no counter and dispatches keeps the invariant, if
\* what else it writes has its type.
LEMMA DispatchKeepsIInv ==
  ASSUME IInv, NEW n \in Nat, NEW event, Dispatch(event, n), UNCHANGED counts,
         row' \in [Hooks -> States], filter' \in [Hooks -> SUBSET Names],
         logged' \in [Hooks -> States \union {"unknown"}],
         req' \in [Requests -> PutJobs \union {Idle}]
  PROVE  IInv'
<1>1. /\ attempts' \in [Hooks -> 0..MaxAttempts]
      /\ flying' \in [Hooks -> 0..MaxAttempts]
      /\ \A h \in Hooks : delivered[h] + flying'[h] + lost[h] <= attempts'[h]
    BY DispatchStarts
<1> QED BY <1>1 DEF IInv, TypeOK, NothingCountedTwice, counts

\* An audit row keeps its type.
LEMMA LoggedType ==
  ASSUME TypeOK, NEW h \in Hooks, NEW event, NEW state \in States, Audit(h, event, state)
  PROVE  logged' \in [Hooks -> States \union {"unknown"}] /\ Dispatch(event, 1)
BY DEF Audit, TypeOK

\* A suspended PUT knows a webhook and the state it read.
LEMMA Suspended ==
  ASSUME TypeOK, NEW r \in Requests, req[r].op = "put"
  PROVE  req[r].hook \in Hooks /\ req[r].existing \in Live
BY DEF TypeOK, PutJobs, Idle

LEMMA EndDeliveryKeepsIInv ==
  ASSUME IInv, NEW h \in Hooks, NEW ok \in BOOLEAN, EndDelivery(h, ok)
  PROVE  IInv'
<1>1. /\ flying' = [flying EXCEPT ![h] = @ - 1] /\ attempts' = attempts
      /\ \/ /\ delivered' = [delivered EXCEPT ![h] = @ + 1]
            /\ failed' = [failed EXCEPT ![h] = IF ok THEN @ ELSE @ + 1]
            /\ lost' = lost
         \/ delivered' = delivered /\ failed' = failed /\ lost' = [lost EXCEPT ![h] = @ + 1]
         \/ delivered' = delivered /\ failed' = failed /\ lost' = lost
      /\ flying[h] > 0
    BY DEF EndDelivery, counts
<1>2. /\ delivered \in [Hooks -> 0..MaxAttempts] /\ failed \in [Hooks -> 0..MaxAttempts]
      /\ attempts \in [Hooks -> 0..MaxAttempts] /\ flying \in [Hooks -> 0..MaxAttempts]
      /\ lost \in [Hooks -> 0..MaxAttempts]
    BY DEF IInv, TypeOK
<1>3. /\ delivered[h] + flying[h] + lost[h] <= attempts[h] /\ failed[h] <= delivered[h]
      /\ delivered[h] \in Nat /\ failed[h] \in Nat /\ flying[h] \in Nat
      /\ lost[h] \in Nat /\ attempts[h] \in Nat /\ attempts[h] <= MaxAttempts
    BY <1>2, MaxAttemptsAssumption DEF IInv, NothingCountedTwice
<1>4. /\ delivered[h] + 1 \in 0..MaxAttempts
      /\ failed[h] + 1 \in 0..MaxAttempts
      /\ lost[h] + 1 \in 0..MaxAttempts
      /\ flying[h] - 1 \in 0..MaxAttempts
    BY <1>1, <1>3, MaxAttemptsAssumption
<1>5. /\ delivered' \in [Hooks -> 0..MaxAttempts] /\ failed' \in [Hooks -> 0..MaxAttempts]
      /\ flying' \in [Hooks -> 0..MaxAttempts] /\ lost' \in [Hooks -> 0..MaxAttempts]
    BY <1>1, <1>2, <1>4
<1>6. TypeOK'
    BY <1>1, <1>2, <1>5 DEF EndDelivery, IInv, TypeOK
<1>7. NothingCountedTwice'
  <2> SUFFICES ASSUME NEW g \in Hooks
               PROVE  /\ delivered'[g] + flying'[g] + lost'[g] <= attempts'[g]
                      /\ failed'[g] <= delivered'[g]
      BY DEF NothingCountedTwice
  <2>1. CASE g # h
    <3>1. /\ delivered'[g] = delivered[g] /\ failed'[g] = failed[g]
          /\ flying'[g] = flying[g] /\ lost'[g] = lost[g]
        BY <1>1, <1>2, <2>1
    <3> QED BY <1>1, <3>1 DEF IInv, NothingCountedTwice
  <2>2. CASE g = h
    <3>1. flying'[h] = flying[h] - 1
        BY <1>1, <1>2
    <3>2. \/ /\ delivered'[h] = delivered[h] + 1 /\ lost'[h] = lost[h]
             /\ failed'[h] = failed[h] \/ failed'[h] = failed[h] + 1
          \/ /\ delivered'[h] = delivered[h] /\ failed'[h] = failed[h]
             /\ lost'[h] = lost[h] \/ lost'[h] = lost[h] + 1
        BY <1>1, <1>2
    <3> QED BY <1>1, <1>3, <2>2, <3>1, <3>2
  <2> QED BY <2>1, <2>2
<1> QED BY <1>6, <1>7 DEF IInv

\* A restart loses what is on its way, which keeps the sum.
LEMMA RestartKeepsIInv ==
  ASSUME IInv, Restart
  PROVE  IInv'
<1>1. ASSUME NEW h \in Hooks
      PROVE  /\ delivered[h] \in Nat /\ flying[h] \in Nat /\ lost[h] \in Nat
             /\ delivered[h] + flying[h] + lost[h] <= attempts[h]
             /\ lost[h] + flying[h] \in 0..MaxAttempts
  <2>1. /\ delivered[h] \in 0..MaxAttempts /\ flying[h] \in 0..MaxAttempts
        /\ lost[h] \in 0..MaxAttempts /\ attempts[h] \in 0..MaxAttempts
      BY DEF IInv, TypeOK
  <2>2. delivered[h] + flying[h] + lost[h] <= attempts[h]
      BY DEF IInv, NothingCountedTwice
  <2> QED BY <2>1, <2>2, MaxAttemptsAssumption
<1>2. \A h \in Hooks : flying'[h] = 0 /\ lost'[h] = lost[h] + flying[h]
    BY DEF Restart
<1>3. /\ lost' \in [Hooks -> 0..MaxAttempts] /\ flying' \in [Hooks -> 0..MaxAttempts]
    BY <1>1, MaxAttemptsAssumption DEF Restart
<1>4. TypeOK'
    BY <1>3 DEF Restart, IInv, TypeOK
<1>5. NothingCountedTwice'
    BY <1>1, <1>2 DEF Restart, IInv, NothingCountedTwice
<1> QED BY <1>4, <1>5 DEF IInv

LEMMA StepIInv == IInv /\ [Next]_vars => IInv'
<1> SUFFICES ASSUME IInv, [Next]_vars PROVE IInv'
    OBVIOUS
<1>1. CASE OtherChange
    BY <1>1, DispatchKeepsIInv DEF OtherChange, counts, IInv, TypeOK
<1>2. ASSUME NEW h \in Hooks, NEW ok \in BOOLEAN, EndDelivery(h, ok) PROVE IInv'
    BY <1>2, EndDeliveryKeepsIInv
<1>3. ASSUME NEW h \in Hooks, NEW f \in Filters, PostWebhook(h, f) PROVE IInv'
  <2>1. row' \in [Hooks -> States] /\ filter' \in [Hooks -> SUBSET Names]
      BY <1>3, FiltersAssumption DEF PostWebhook, IInv, TypeOK, States
  <2>2. logged' \in [Hooks -> States \union {"unknown"}] /\ Dispatch("webhook.create", 1)
      BY <1>3, LoggedType DEF PostWebhook, IInv, States
  <2> QED BY <1>3, <2>1, <2>2, DispatchKeepsIInv DEF PostWebhook, IInv, TypeOK
<1>4. ASSUME NEW h \in Hooks, TestWebhook(h) PROVE IInv'
    BY <1>4, DispatchKeepsIInv DEF TestWebhook, IInv, TypeOK
<1>5. ASSUME NEW h \in Hooks, DeleteWebhook(h) PROVE IInv'
  <2>1. row' \in [Hooks -> States]
      BY <1>5 DEF DeleteWebhook, IInv, TypeOK, States
  <2>2. logged' \in [Hooks -> States \union {"unknown"}] /\ Dispatch("webhook.delete", 1)
      BY <1>5, LoggedType DEF DeleteWebhook, IInv, States
  <2> QED BY <1>5, <2>1, <2>2, DispatchKeepsIInv DEF DeleteWebhook, IInv, TypeOK
<1>6. ASSUME NEW h \in Hooks, NEW r \in Requests, StartPut(r, h) PROVE IInv'
  <2> DEFINE j == [op |-> "put", hook |-> h, existing |-> row[h]]
  <2>1. j \in PutJobs /\ req' = [req EXCEPT ![r] = j]
      BY <1>6 DEF StartPut, PutJobs
  <2> HIDE DEF j
  <2>2. req' \in [Requests -> PutJobs \union {Idle}]
      BY <2>1 DEF IInv, TypeOK
  <2> QED BY <1>6, <2>2 DEF StartPut, IInv, TypeOK, NothingCountedTwice, counts
<1>7. ASSUME NEW r \in Requests, NEW want \in Live, EndPut(r, want) PROVE IInv'
  <2>1. req[r].hook \in Hooks
      BY <1>7, Suspended DEF EndPut, IInv
  <2>2. req' \in [Requests -> PutJobs \union {Idle}] /\ filter' = filter /\ UNCHANGED counts
      BY <1>7 DEF EndPut, IInv, TypeOK
  <2>3. CASE want = req[r].existing
      BY <1>7, <2>2, <2>3 DEF EndPut, IInv, TypeOK, NothingCountedTwice, counts
  <2>4. CASE want # req[r].existing
    <3>1. row' \in [Hooks -> States] /\ want \in States
        BY <1>7, <2>4 DEF EndPut, IInv, TypeOK, Live, States
    <3>2. logged' \in [Hooks -> States \union {"unknown"}] /\ Dispatch(EventOf(want), 1)
        BY <1>7, <2>1, <2>4, <3>1, LoggedType DEF EndPut, IInv
    <3> QED BY <2>2, <3>1, <3>2, DispatchKeepsIInv DEF IInv, TypeOK
  <2> QED BY <2>3, <2>4
<1>8. CASE Restart
    BY <1>8, RestartKeepsIInv
<1>9. CASE UNCHANGED vars
    BY <1>9 DEF vars, IInv, TypeOK, NothingCountedTwice, counts
<1> QED BY <1>1, <1>2, <1>3, <1>4, <1>5, <1>6, <1>7, <1>8, <1>9 DEF Next

LEMMA InitIInv == Init => IInv
BY MaxAttemptsAssumption DEF Init, IInv, TypeOK, NothingCountedTwice, States

LEMMA AlwaysIInv == Spec => []IInv
BY InitIInv, StepIInv, PTL DEF Spec

\* Rows, counters, audit rows and suspended PUTs keep their types.
THEOREM TypeCorrect == Spec => []TypeOK
<1>1. IInv => TypeOK
    BY DEF IInv
<1> QED BY <1>1, AlwaysIInv, PTL

\* No delivery is counted that was not started, and none twice
\* (src/webhooks.js:113, the count that ends a delivery).
THEOREM CountedOnce == Spec => []NothingCountedTwice
<1>1. IInv => NothingCountedTwice
    BY DEF IInv
<1> QED BY <1>1, AlwaysIInv, PTL

-----------------------------------------------------------------------------
(* What a step may do to a webhook                                         *)

\* The steps that start deliveries are those that dispatch an event.
Dispatches == \E event \in Events, n \in 1..2 : Dispatch(event, n)

LEMMA OnlyDispatchStarts ==
  ASSUME IInv, [Next]_vars
  PROVE  Dispatches \/ attempts' = attempts
<1>1. ASSUME NEW h \in Hooks, NEW event \in Events, NEW state, Audit(h, event, state)
      PROVE  Dispatches
    BY <1>1 DEF Audit, Dispatches
<1>2. CASE OtherChange
    BY <1>2 DEF OtherChange, Dispatches, Events
<1>3. ASSUME NEW h \in Hooks, TestWebhook(h) PROVE Dispatches
    BY <1>3 DEF TestWebhook, Dispatches, Events
<1>4. ASSUME NEW h \in Hooks,
             DeleteWebhook(h) \/ \E f \in Filters : PostWebhook(h, f)
      PROVE  Dispatches
  <2>1. {"webhook.create", "webhook.delete"} \subseteq Events
      BY DEF Events
  <2> QED BY <1>1, <1>4, <2>1 DEF DeleteWebhook, PostWebhook
<1>5. ASSUME NEW r \in Requests, NEW want \in Live, EndPut(r, want)
      PROVE  Dispatches \/ attempts' = attempts
  <2>1. req[r].hook \in Hooks /\ EventOf(want) \in Events
      BY <1>5, Suspended DEF EndPut, IInv, EventOf, Events
  <2> QED BY <1>1, <1>5, <2>1 DEF EndPut
<1>6. ASSUME \/ \E h \in Hooks, ok \in BOOLEAN : EndDelivery(h, ok)
             \/ \E h \in Hooks, r \in Requests : StartPut(r, h)
             \/ Restart
             \/ UNCHANGED vars
      PROVE  attempts' = attempts
    BY <1>6 DEF EndDelivery, StartPut, Restart, vars
<1> QED BY <1>2, <1>3, <1>4, <1>5, <1>6 DEF Next

LEMMA OnlyActiveAreSent ==
  ASSUME IInv, [Next]_vars, NEW h \in Hooks, row'[h] # "active"
  PROVE  attempts'[h] = attempts[h]
<1>1. CASE Dispatches
  <2>1. PICK event \in Events, n \in 1..2 : Dispatch(event, n)
      BY <1>1 DEF Dispatches
  <2>2. n \in Nat
      OBVIOUS
  <2>3. h \notin Subscribers(event)
      BY DEF Subscribers
  <2> QED BY <2>1, <2>2, <2>3, DispatchStarts
<1> QED BY <1>1, OnlyDispatchStarts

\* Deleted webhooks stay deleted, and registered ones were never unregistered.
LEMMA RowSteps ==
  ASSUME IInv, [Next]_vars, NEW h \in Hooks
  PROVE  /\ row[h] = "deleted" => row'[h] = "deleted"
         /\ row'[h] = "none" => row[h] = "none"
<1> DEFINE Goal == /\ row[h] = "deleted" => row'[h] = "deleted"
                   /\ row'[h] = "none" => row[h] = "none"
<1>1. ASSUME NEW g \in Hooks, NEW f \in Filters, PostWebhook(g, f) PROVE Goal
    BY <1>1 DEF PostWebhook, IInv, TypeOK
<1>2. ASSUME NEW g \in Hooks, DeleteWebhook(g) PROVE Goal
    BY <1>2 DEF DeleteWebhook, IInv, TypeOK
<1>3. ASSUME NEW r \in Requests, NEW want \in Live, EndPut(r, want) PROVE Goal
  <2>1. "deleted" \notin Live /\ want # "none"
      BY DEF Live
  <2> QED BY <1>3, <2>1 DEF EndPut, IInv, TypeOK
<1>4. ASSUME \/ OtherChange
             \/ \E g \in Hooks, ok \in BOOLEAN : EndDelivery(g, ok)
             \/ \E g \in Hooks : TestWebhook(g)
             \/ \E g \in Hooks, r \in Requests : StartPut(r, g)
             \/ Restart
             \/ UNCHANGED vars
      PROVE  row' = row
    BY <1>4 DEF OtherChange, EndDelivery, TestWebhook, StartPut, Restart, vars
<1> QED BY <1>1, <1>2, <1>3, <1>4 DEF Next

\* No delivery starts to a webhook that is paused, not even the event of the
\* change that pauses it (src/webhooks.js:43, the lookup of dispatchEvent).
THEOREM PausedAreLeftAlone == Spec => PausedIsQuiet
<1>1. IInv /\ [Next]_vars =>
        [\A h \in Hooks : row'[h] = "paused" => attempts'[h] = attempts[h]]_vars
    BY OnlyActiveAreSent
<1> QED BY <1>1, AlwaysIInv, PTL DEF Spec, PausedIsQuiet

\* A deleted webhook is gone for good, whatever PUTs read its row before
\* (src/routes/admin.js:397, the UPDATE that finds no row).
THEOREM DeletedAreGone == Spec => DeletedForGood
<1>1. IInv /\ [Next]_vars =>
        [\A h \in Hooks :
           row[h] = "deleted" => row'[h] = "deleted" /\ attempts'[h] = attempts[h]]_vars
    BY RowSteps, OnlyActiveAreSent
<1> QED BY <1>1, AlwaysIInv, PTL DEF Spec, DeletedForGood

-----------------------------------------------------------------------------
(* What the log tells                                                      *)

LEMMA StepLogTells == IInv /\ LogTellsState /\ [Next]_vars => LogTellsState'
<1> SUFFICES ASSUME IInv, LogTellsState, [Next]_vars, NEW h \in Hooks, row'[h] \in Live
             PROVE  logged'[h] \in {row'[h], "unknown"}
    BY DEF LogTellsState
<1>1. row[h] \in Live => logged[h] \in {row[h], "unknown"}
    BY DEF LogTellsState
<1>2. row \in [Hooks -> States] /\ logged \in [Hooks -> States \union {"unknown"}]
    BY DEF IInv, TypeOK
<1>3. ASSUME NEW g \in Hooks, NEW f \in Filters, PostWebhook(g, f)
      PROVE  logged'[h] \in {row'[h], "unknown"}
  <2>1. /\ row' = [row EXCEPT ![g] = "active"]
        /\ \/ logged' = [logged EXCEPT ![g] = "active"]
           \/ logged' = [logged EXCEPT ![g] = "unknown"]
      BY <1>3 DEF PostWebhook, Audit
  <2> QED BY <1>1, <1>2, <2>1
<1>4. ASSUME NEW g \in Hooks, DeleteWebhook(g)
      PROVE  logged'[h] \in {row'[h], "unknown"}
  <2>1. /\ row' = [row EXCEPT ![g] = "deleted"]
        /\ \/ logged' = [logged EXCEPT ![g] = "deleted"]
           \/ logged' = [logged EXCEPT ![g] = "unknown"]
      BY <1>4 DEF DeleteWebhook, Audit
  <2> QED BY <1>1, <1>2, <2>1
<1>5. ASSUME NEW r \in Requests, NEW want \in Live, EndPut(r, want)
      PROVE  logged'[h] \in {row'[h], "unknown"}
  <2> DEFINE g == req[r].hook
  <2>1. g \in Hooks
      BY <1>5, Suspended DEF EndPut, IInv
  <2>2. CASE want = req[r].existing
      BY <1>1, <1>5, <2>2 DEF EndPut
  <2>3. CASE want # req[r].existing
    <3>1. /\ row' = IF row[g] \in Live THEN [row EXCEPT ![g] = want] ELSE row
          /\ \/ logged' = [logged EXCEPT ![g] = want]
             \/ logged' = [logged EXCEPT ![g] = "unknown"]
        BY <1>5, <2>3 DEF EndPut, Audit
    <3> HIDE DEF g
    <3> QED BY <1>1, <1>2, <2>1, <3>1
  <2> QED BY <2>2, <2>3
<1>6. ASSUME \/ OtherChange
             \/ \E g \in Hooks, ok \in BOOLEAN : EndDelivery(g, ok)
             \/ \E g \in Hooks : TestWebhook(g)
             \/ \E g \in Hooks, r \in Requests : StartPut(r, g)
             \/ Restart
             \/ UNCHANGED vars
      PROVE  row' = row /\ logged' = logged
    BY <1>6 DEF OtherChange, EndDelivery, TestWebhook, StartPut, Restart, vars
<1> QED BY <1>1, <1>3, <1>4, <1>5, <1>6 DEF Next

\* The last audit row about a webhook, if it was written, tells its state,
\* although PUTs decide on a row they read before an await
\* (src/routes/admin.js:375).
THEOREM LogIsRight == Spec => []LogTellsState
<1>1. Init => LogTellsState
    BY DEF Init, LogTellsState, Live
<1>2. IInv /\ LogTellsState /\ [Next]_vars => LogTellsState'
    BY StepLogTells
<1> QED BY <1>1, <1>2, AlwaysIInv, PTL DEF Spec

-----------------------------------------------------------------------------
(* No delivery goes astray                                                 *)

\* Nothing is sent to a webhook before it is registered.
UnregisteredIsQuiet == \A h \in Hooks : row[h] = "none" => attempts[h] = 0

LEMMA StepUnregistered == IInv /\ UnregisteredIsQuiet /\ [Next]_vars => UnregisteredIsQuiet'
<1> SUFFICES ASSUME IInv, UnregisteredIsQuiet, [Next]_vars, NEW h \in Hooks, row'[h] = "none"
             PROVE  attempts'[h] = 0
    BY DEF UnregisteredIsQuiet
<1>1. row[h] = "none"
    BY RowSteps
<1>2. attempts'[h] = attempts[h]
    BY OnlyActiveAreSent
<1> QED BY <1>1, <1>2 DEF UnregisteredIsQuiet

LEMMA StepAccounted ==
  IInv /\ UnregisteredIsQuiet /\ AttemptsAccounted /\ [Next]_vars => AttemptsAccounted'
<1> SUFFICES ASSUME IInv, UnregisteredIsQuiet, AttemptsAccounted, [Next]_vars,
                    NEW h \in Hooks, row'[h] # "deleted"
             PROVE  delivered'[h] + flying'[h] + lost'[h] = attempts'[h]
    BY DEF AttemptsAccounted
<1>1. row[h] # "deleted"
    BY RowSteps
<1>2. /\ delivered[h] \in Nat /\ flying[h] \in Nat /\ lost[h] \in Nat /\ attempts[h] \in Nat
      /\ delivered[h] + flying[h] + lost[h] = attempts[h]
    BY <1>1, MaxAttemptsAssumption DEF IInv, TypeOK, AttemptsAccounted
<1>3. ASSUME NEW event, NEW n \in Nat, Dispatch(event, n), UNCHANGED counts
      PROVE  delivered'[h] + flying'[h] + lost'[h] = attempts'[h]
  <2>1. /\ attempts'[h] + flying[h] = attempts[h] + flying'[h]
        /\ attempts'[h] \in Nat /\ flying'[h] \in Nat
      BY <1>3, DispatchStarts, MaxAttemptsAssumption
  <2> QED BY <1>2, <1>3, <2>1 DEF counts
<1>4. ASSUME UNCHANGED <<delivered, attempts, flying, lost>>
      PROVE  delivered'[h] + flying'[h] + lost'[h] = attempts'[h]
    BY <1>2, <1>4
<1>5. ASSUME NEW g \in Hooks, NEW ok \in BOOLEAN, EndDelivery(g, ok)
      PROVE  delivered'[h] + flying'[h] + lost'[h] = attempts'[h]
  <2>1. CASE g # h
    <3>1. /\ delivered'[h] = delivered[h] /\ flying'[h] = flying[h]
          /\ lost'[h] = lost[h] /\ attempts' = attempts
        BY <1>5, <2>1 DEF EndDelivery, counts, IInv, TypeOK
    <3> QED BY <1>2, <3>1
  <2>2. CASE g = h
    <3>1. row[h] # "none"
        BY <1>2, <1>5, <2>2 DEF EndDelivery, UnregisteredIsQuiet
    <3>2. row[h] \in Live
        BY <1>1, <3>1 DEF IInv, TypeOK, States, Live
    <3>3. /\ flying'[h] = flying[h] - 1 /\ attempts' = attempts
          /\ \/ delivered'[h] = delivered[h] + 1 /\ lost'[h] = lost[h]
             \/ delivered'[h] = delivered[h] /\ lost'[h] = lost[h] + 1
        BY <1>5, <2>2, <3>2 DEF EndDelivery, IInv, TypeOK
    <3> QED BY <1>2, <3>3
  <2> QED BY <2>1, <2>2
<1>6. ASSUME NEW r \in Requests, NEW want \in Live, EndPut(r, want)
      PROVE  delivered'[h] + flying'[h] + lost'[h] = attempts'[h]
    BY <1>3, <1>4, <1>6 DEF EndPut, Audit, counts
<1>7. ASSUME NEW g \in Hooks, DeleteWebhook(g) \/ \E f \in Filters : PostWebhook(g, f)
      PROVE  delivered'[h] + flying'[h] + lost'[h] = attempts'[h]
    BY <1>3, <1>7 DEF DeleteWebhook, PostWebhook, Audit
<1>8. ASSUME OtherChange \/ \E g \in Hooks : TestWebhook(g)
      PROVE  delivered'[h] + flying'[h] + lost'[h] = attempts'[h]
    BY <1>3, <1>8 DEF OtherChange, TestWebhook
<1>9. ASSUME \/ \E g \in Hooks, r \in Requests : StartPut(r, g)
             \/ UNCHANGED vars
      PROVE  delivered'[h] + flying'[h] + lost'[h] = attempts'[h]
    BY <1>4, <1>9 DEF StartPut, vars, counts
<1>10. ASSUME Restart
       PROVE  delivered'[h] + flying'[h] + lost'[h] = attempts'[h]
    BY <1>2, <1>10 DEF Restart
<1> QED BY <1>5, <1>6, <1>7, <1>8, <1>9, <1>10 DEF Next

\* Until its webhook is deleted, each delivery is counted, answered well or
\* not, or waits for its answer; only a throwing UPDATE or a restart loses any
\* (src/webhooks.js:113).
THEOREM DeliveriesAccounted == Spec => []AttemptsAccounted
<1>1. Init => UnregisteredIsQuiet /\ AttemptsAccounted
    BY DEF Init, UnregisteredIsQuiet, AttemptsAccounted
<1>2. IInv /\ UnregisteredIsQuiet /\ AttemptsAccounted /\ [Next]_vars =>
        UnregisteredIsQuiet' /\ AttemptsAccounted'
    BY StepUnregistered, StepAccounted
<1> QED BY <1>1, <1>2, AlwaysIInv, PTL DEF Spec

-----------------------------------------------------------------------------
(* A PUT that is not overtaken                                             *)

\* While a PUT awaits its body no other request changes its webhook.
LeftAlone ==
  \A r \in Requests :
    req[r].op = "put" /\ req'[r] = req[r] => row'[req[r].hook] = row[req[r].hook]
Undisturbed == [][LeftAlone]_vars

\* What a PUT has read is still so.
ReadIsRow == \A r \in Requests : req[r].op = "put" => req[r].existing = row[req[r].hook]

LEMMA StepReadIsRow == IInv /\ ReadIsRow /\ [Next]_vars /\ [LeftAlone]_vars => ReadIsRow'
<1>. SUFFICES ASSUME IInv, ReadIsRow, [Next]_vars, [LeftAlone]_vars,
                     NEW q \in Requests, req'[q].op = "put"
              PROVE  req'[q].existing = row'[req'[q].hook]
  BY DEF ReadIsRow
<1>1. ASSUME req'[q] = req[q] PROVE req'[q].existing = row'[req'[q].hook]
  <2>1. CASE LeftAlone
    BY <1>1, <2>1 DEF LeftAlone, ReadIsRow
  <2>2. CASE UNCHANGED vars
    BY <1>1, <2>2 DEF vars, ReadIsRow
  <2>. QED
    BY <2>1, <2>2
<1>2. Idle.op # "put"
  BY DEF Idle
<1>3. ASSUME NEW r \in Requests, NEW h \in Hooks, StartPut(r, h)
      PROVE  req'[q].existing = row'[req'[q].hook]
  <2>1. CASE q = r
    BY <1>3, <2>1 DEF StartPut, IInv, TypeOK
  <2>2. CASE q # r
    BY <1>1, <1>3, <2>2 DEF StartPut, IInv, TypeOK
  <2>. QED
    BY <2>1, <2>2
<1>4. ASSUME NEW r \in Requests, NEW want \in Live, EndPut(r, want)
      PROVE  req'[q] = req[q]
  BY <1>2, <1>4 DEF EndPut, IInv, TypeOK
<1>5. CASE Restart
  BY <1>2, <1>5 DEF Restart
<1>6. ASSUME \/ OtherChange
             \/ \E h \in Hooks : \/ \E ok \in BOOLEAN : EndDelivery(h, ok)
                                 \/ \E f \in Filters : PostWebhook(h, f)
                                 \/ TestWebhook(h)
                                 \/ DeleteWebhook(h)
             \/ UNCHANGED vars
      PROVE  req' = req
  BY <1>6 DEF OtherChange, EndDelivery, PostWebhook, TestWebhook, DeleteWebhook, vars
<1>. QED
  BY <1>1, <1>3, <1>4, <1>5, <1>6 DEF Next

\* README.md:341 again, "Pause or resume delivery": a PUT during whose body nobody
\* else changes the webhook leaves it as its body asks, whatever throws and stops.
\* That another PUT or a DELETE came between is all that PutTakesEffect fails for.
THEOREM PutsTakeEffect == Spec /\ Undisturbed => PutTakesEffect
<1>1. Init => ReadIsRow
  BY DEF Init, ReadIsRow, Idle
<1>2. IInv /\ ReadIsRow /\ [Next]_vars =>
        [\A r \in Requests, want \in Live :
           EndPut(r, want) /\ row[req[r].hook] \in Live => row'[req[r].hook] = want]_vars
  <2>. SUFFICES ASSUME IInv, ReadIsRow, NEW r \in Requests, NEW want \in Live,
                       EndPut(r, want), row[req[r].hook] \in Live
                PROVE  row'[req[r].hook] = want
    OBVIOUS
  <2>1. req[r].op = "put" /\ req[r].hook \in Hooks
    BY Suspended DEF EndPut, IInv
  <2>2. CASE want = req[r].existing
    BY <2>1, <2>2 DEF EndPut, ReadIsRow
  <2>3. CASE want # req[r].existing
    BY <2>1, <2>3 DEF EndPut, IInv, TypeOK
  <2>. QED
    BY <2>2, <2>3
<1>. QED
  BY <1>1, <1>2, StepReadIsRow, AlwaysIInv, PTL DEF Spec, Undisturbed, PutTakesEffect
=============================================================================
