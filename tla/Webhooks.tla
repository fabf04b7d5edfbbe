------------------------------ MODULE Webhooks ------------------------------
(***************************************************************************)
(* Outbound webhooks (src/webhooks.js), the admin routes that keep them    *)
(* (src/routes/admin.js) and the events that audited changes dispatch to   *)
(* them (src/audit.js).                                                    *)
(*                                                                         *)
(* A handler writes its row, then its audit row, then starts one delivery  *)
(* per matching webhook, all without an await; each delivery counts itself *)
(* on its webhook's row when its receiver has answered or 5 s are over.    *)
(*                                                                         *)
(* Deliveries of a webhook are told apart by nothing but their number:     *)
(* payload, signature and last_status are left out.  "other" stands for    *)
(* the audited actions of the other routes.  POST refuses wildcards but    *)
(* "*", which is all a filter matches besides names.                       *)
(***************************************************************************)
EXTENDS Naturals

CONSTANTS
  Hooks,             \* ids of webhooks, each used at most once
  Requests,          \* how many PUTs may await their bodies: one id each
  Filters,           \* the lists of events that webhooks are registered with
  StatementsMayFail, \* whether a statement after the first may throw
  ProcessMayStop,    \* whether the process may be restarted
  MaxAttempts        \* bound on the deliveries to one webhook

Events ==
  {"other", "webhook.create", "webhook.delete", "webhook.pause", "webhook.resume",
   "webhook.test"}
Names == Events \union {"*"}

ASSUME FiltersAssumption == Filters \subseteq SUBSET Names
ASSUME SwitchesAssumption == StatementsMayFail \in BOOLEAN /\ ProcessMayStop \in BOOLEAN
ASSUME MaxAttemptsAssumption == MaxAttempts \in Nat

VARIABLES
  row,       \* whether each webhook is there, and paused_at
  filter,    \* events
  delivered, \* delivery_count
  failed,    \* failure_count
  attempts,  \* deliveries started to each webhook (history)
  flying,    \* how many of them wait for an answer
  lost,      \* how many a throwing UPDATE or a restart lost (history)
  logged,    \* the state of each webhook as its last audit row tells it,
             \* "unknown" if that row was not written
  req        \* PUTs that await their bodies, with the row each read

counts == <<delivered, failed, lost>>
vars == <<row, filter, delivered, failed, attempts, flying, lost, logged, req>>

States == {"none", "active", "paused", "deleted"}
Live == {"active", "paused"}
Idle == [op |-> "idle"]
PutJobs == [op : {"put"}, hook : Hooks, existing : Live]

TypeOK ==
  /\ row \in [Hooks -> States]
  /\ filter \in [Hooks -> SUBSET Names]
  /\ delivered \in [Hooks -> 0..MaxAttempts]
  /\ failed \in [Hooks -> 0..MaxAttempts]
  /\ attempts \in [Hooks -> 0..MaxAttempts]
  /\ flying \in [Hooks -> 0..MaxAttempts]
  /\ lost \in [Hooks -> 0..MaxAttempts]
  /\ logged \in [Hooks -> States \union {"unknown"}]
  /\ req \in [Requests -> PutJobs \union {Idle}]

Init ==
  /\ row = [h \in Hooks |-> "none"]
  /\ filter = [h \in Hooks |-> {}]
  /\ delivered = [h \in Hooks |-> 0]
  /\ failed = [h \in Hooks |-> 0]
  /\ attempts = [h \in Hooks |-> 0]
  /\ flying = [h \in Hooks |-> 0]
  /\ lost = [h \in Hooks |-> 0]
  /\ logged = [h \in Hooks |-> "none"]
  /\ req = [r \in Requests |-> Idle]

-----------------------------------------------------------------------------
(* Events                                                                  *)

Covers(f, event) == "*" \in f \/ event \in f

\* Wrong on purpose: paused webhooks are selected as well.
AllSubscribers(event) == {h \in Hooks : row'[h] \in Live /\ Covers(filter'[h], event)}

\* The webhooks that dispatchEvent selects, once the handler has written.
Subscribers(event) == {h \in Hooks : row'[h] = "active" /\ Covers(filter'[h], event)}

\* n events of one name are dispatched.  A statement that throws is caught: the
\* deliveries after a lookup, or the one that misses its key, do not start.
Dispatch(event, n) ==
  \E started \in [Hooks -> 0..n] :
    /\ \A h \in Hooks : IF h \in Subscribers(event)
                        THEN started[h] = n \/ StatementsMayFail
                        ELSE started[h] = 0
    /\ \A h \in Hooks : attempts[h] + started[h] <= MaxAttempts
    /\ attempts' = [h \in Hooks |-> attempts[h] + started[h]]
    /\ flying' = [h \in Hooks |-> flying[h] + started[h]]

\* logAudit: the row is inserted, or its failure is swallowed, and the event
\* is dispatched in both cases.
Audit(h, event, state) ==
  /\ \/ logged' = [logged EXCEPT ![h] = state]
     \/ StatementsMayFail /\ logged' = [logged EXCEPT ![h] = "unknown"]
  /\ Dispatch(event, 1)

\* A change that is audited by another route.
OtherChange ==
  /\ UNCHANGED <<row, filter, counts, logged, req>>
  /\ Dispatch("other", 1)

-----------------------------------------------------------------------------
(* Deliveries                                                              *)

\* Wrong on purpose: a delivery that failed stays pending, to be tried again.
EndDeliveryRetrying(h, ok) ==
  /\ flying[h] > 0
  /\ flying' = IF ok THEN [flying EXCEPT ![h] = @ - 1] ELSE flying
  /\ delivered' = [delivered EXCEPT ![h] = @ + 1]
  /\ failed' = [failed EXCEPT ![h] = IF ok THEN @ ELSE @ + 1]
  /\ UNCHANGED <<row, filter, attempts, lost, logged, req>>

\* Wrong on purpose: only deliveries that were answered well are counted.
EndDeliveryIfOk(h, ok) ==
  /\ flying[h] > 0
  /\ flying' = [flying EXCEPT ![h] = @ - 1]
  /\ delivered' = IF ok THEN [delivered EXCEPT ![h] = @ + 1] ELSE delivered
  /\ UNCHANGED <<row, filter, failed, attempts, lost, logged, req>>

\* Wrong on purpose: the count is kept on rows that are not paused only.
EndDeliveryUnpaused(h, ok) ==
  /\ flying[h] > 0
  /\ flying' = [flying EXCEPT ![h] = @ - 1]
  /\ IF row[h] = "active"
     THEN /\ delivered' = [delivered EXCEPT ![h] = @ + 1]
          /\ failed' = [failed EXCEPT ![h] = IF ok THEN @ ELSE @ + 1]
          /\ UNCHANGED lost
     ELSE UNCHANGED counts
  /\ UNCHANGED <<row, filter, attempts, logged, req>>

\* The receiver answers, or the delivery fails, and the row, if it is still
\* there, counts it; an UPDATE that throws is swallowed.
EndDelivery(h, ok) ==
  /\ flying[h] > 0
  /\ flying' = [flying EXCEPT ![h] = @ - 1]
  /\ \/ /\ row[h] \in Live
        /\ delivered' = [delivered EXCEPT ![h] = @ + 1]
        /\ failed' = [failed EXCEPT ![h] = IF ok THEN @ ELSE @ + 1]
        /\ UNCHANGED lost
     \/ /\ row[h] \in Live /\ StatementsMayFail
        /\ lost' = [lost EXCEPT ![h] = @ + 1]
        /\ UNCHANGED <<delivered, failed>>
     \/ row[h] \notin Live /\ UNCHANGED counts
  /\ UNCHANGED <<row, filter, attempts, logged, req>>

-----------------------------------------------------------------------------
(* Routes                                                                  *)

PostWebhook(h, f) ==
  /\ row[h] = "none"
  /\ row' = [row EXCEPT ![h] = "active"]
  /\ filter' = [filter EXCEPT ![h] = f]
  /\ Audit(h, "webhook.create", "active")
  /\ UNCHANGED <<counts, req>>

\* PUT reads the row, then awaits the body.
StartPut(r, h) ==
  /\ req[r] = Idle
  /\ row[h] \in Live
  /\ req' = [req EXCEPT ![r] = [op |-> "put", hook |-> h, existing |-> row[h]]]
  /\ UNCHANGED <<row, filter, counts, attempts, flying, logged>>

EventOf(want) == IF want = "paused" THEN "webhook.pause" ELSE "webhook.resume"

\* Wrong on purpose: a body that changes nothing is audited as well.
EndPutAuditingAll(r, want) ==
  LET h == req[r].hook IN
  /\ req[r].op = "put"
  /\ req' = [req EXCEPT ![r] = Idle]
  /\ row' = IF row[h] \in Live /\ want # req[r].existing
            THEN [row EXCEPT ![h] = want] ELSE row
  /\ UNCHANGED <<filter, counts>>
  /\ Audit(h, EventOf(want), want)

\* Wrong on purpose: the row is inserted again if it is gone.
EndPutInserting(r, want) ==
  LET h == req[r].hook IN
  /\ req[r].op = "put"
  /\ req' = [req EXCEPT ![r] = Idle]
  /\ UNCHANGED <<filter, counts>>
  /\ IF want = req[r].existing
     THEN UNCHANGED <<row, attempts, flying, logged>>
     ELSE /\ row' = [row EXCEPT ![h] = want]
          /\ Audit(h, EventOf(want), want)

\* The body asks for what the row was when it was read, and nothing is written,
\* as for a body that is refused; or the row, if it is still there, is written
\* and the change audited.
EndPut(r, want) ==
  LET h == req[r].hook IN
  /\ req[r].op = "put"
  /\ req' = [req EXCEPT ![r] = Idle]
  /\ UNCHANGED <<filter, counts>>
  /\ IF want = req[r].existing
     THEN UNCHANGED <<row, attempts, flying, logged>>
     ELSE /\ row' = IF row[h] \in Live THEN [row EXCEPT ![h] = want] ELSE row
          /\ Audit(h, EventOf(want), want)

\* The synthetic event is dispatched by the route, then by its audit row.
TestWebhook(h) ==
  /\ row[h] = "active"
  /\ UNCHANGED <<row, filter, counts, logged, req>>
  /\ Dispatch("webhook.test", 2)

DeleteWebhook(h) ==
  /\ row[h] \in Live
  /\ row' = [row EXCEPT ![h] = "deleted"]
  /\ UNCHANGED <<filter, counts, req>>
  /\ Audit(h, "webhook.delete", "deleted")

\* Deliveries that wait for an answer and suspended PUTs are lost.
Restart ==
  /\ ProcessMayStop
  /\ flying' = [h \in Hooks |-> 0]
  /\ req' = [r \in Requests |-> Idle]
  /\ lost' = [h \in Hooks |-> lost[h] + flying[h]]
  /\ UNCHANGED <<row, filter, delivered, failed, attempts, logged>>

Next ==
  \/ OtherChange
  \/ \E h \in Hooks :
       \/ \E ok \in BOOLEAN : EndDelivery(h, ok)
       \/ \E f \in Filters : PostWebhook(h, f)
       \/ TestWebhook(h)
       \/ DeleteWebhook(h)
       \/ \E r \in Requests : StartPut(r, h)
  \/ \E r \in Requests, want \in Live : EndPut(r, want)
  \/ Restart

Spec == Init /\ [][Next]_vars

\* Every delivery ends: fetch has a timeout.  Nobody has to call a route.
Fairness == \A h \in Hooks : WF_vars(\E ok \in BOOLEAN : EndDelivery(h, ok))
FairSpec == Spec /\ Fairness
-----------------------------------------------------------------------------
(* Safety                                                                  *)

\* No delivery is counted that was not started, and none twice, whatever is
\* paused or deleted meanwhile, throws or stops (webhooks.js:113, the UPDATE).
NothingCountedTwice ==
  \A h \in Hooks :
    /\ delivered[h] + flying[h] + lost[h] <= attempts[h]
    /\ failed[h] <= delivered[h]

\* README.md:143, "Errors are recorded on the webhook row": as long as a
\* webhook is registered, each delivery started to it, answered well or not and
\* whether it was paused meanwhile or not, is counted on its row or still waits
\* for its answer.  Only a throwing UPDATE or a restart loses any.
AttemptsAccounted ==
  \A h \in Hooks :
    row[h] # "deleted" => delivered[h] + flying[h] + lost[h] = attempts[h]

\* The last audit row about a webhook, if it was written, tells the state it is
\* in, although PUTs decide on a row they read before they awaited their bodies.
LogTellsState == \A h \in Hooks : row[h] \in Live => logged[h] \in {row[h], "unknown"}

\* README.md:213, "Paused webhooks skip delivery entirely until resumed": no
\* delivery starts to a webhook from the change that pauses it to the one that
\* resumes it.
PausedIsQuiet ==
  [][\A h \in Hooks : row'[h] = "paused" => attempts'[h] = attempts[h]]_vars

\* A deleted webhook is gone for good and nothing is sent to it, although PUTs
\* that read its row may still be on their way.
DeletedForGood ==
  [][\A h \in Hooks :
       row[h] = "deleted" => row'[h] = "deleted" /\ attempts'[h] = attempts[h]]_vars

-----------------------------------------------------------------------------
(* Liveness                                                                *)

\* Each delivery that was started is counted some day, unless a throw or a
\* restart loses it or its webhook is deleted: pausing does not lose it.
EveryAttemptCounted ==
  \A h \in Hooks, n \in 1..MaxAttempts :
    attempts[h] = n ~> (delivered[h] + lost[h] >= n \/ row[h] = "deleted")

-----------------------------------------------------------------------------
(* What the documentation says and the code does not do                    *)

\* README.md:342, "Fire a synthetic `webhook.test` event to this subscriber",
\* tests/integration.js:605, "receiver got 1 delivery after test fire": a test
\* starts one delivery, to the webhook that is tested.
TestFiresOnce ==
  [][\A h \in Hooks :
       TestWebhook(h) /\ Covers(filter[h], "webhook.test") =>
         \A o \in Hooks : attempts'[o] = attempts[o] + (IF o = h THEN 1 ELSE 0)]_vars

\* README.md:341, "Pause or resume delivery": a PUT that is answered leaves the
\* webhook, if it is still there, as its body asks.
PutTakesEffect ==
  [][\A r \in Requests, want \in Live :
       EndPut(r, want) /\ row[req[r].hook] \in Live => row'[req[r].hook] = want]_vars
=============================================================================
