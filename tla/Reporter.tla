------------------------------ MODULE Reporter ------------------------------
(***************************************************************************)
(* The reporter SDKs (src/sdk/reporter.js and reporter.py) in the process  *)
(* of a caller, the registry's POST /agents/:id/report, and what its       *)
(* metrics then say.                                                       *)
(*                                                                         *)
(* invoke calls the agent, starts a report without waiting for it, and     *)
(* returns or throws.  report sends one for a call the caller made itself  *)
(* and waits; a caller may repeat it.  A request that its sender gave up   *)
(* may still reach the registry.                                           *)
(***************************************************************************)
EXTENDS Metrics

CONSTANTS
  Calls,    \* calls of invoke and of report, each once
  Sdk,      \* which SDK each uses: "js", "httpx", "urllib", or "manual"
  AgentOf,  \* the agent each calls
  Delays,   \* latency_ms
  MaxTries, \* bound on the times a caller sends a report of its own
  MaxTime   \* bound on the clock

ASSUME CallsAssumption ==
  /\ Sdk \in [Calls -> {"js", "httpx", "urllib", "manual"}]
  /\ Delays \subseteq Nat
  /\ MaxTries \in Nat \ {0} /\ MaxTime \in Nat

VARIABLES
  phase,   \* "idle", "calling" the agent, "reporting" by hand, "told", "gone"
  told,    \* what the caller was told: "result", "error"
  metrics, \* what the report says
  tries,   \* how many reports of the call were sent
  flying,  \* reports on their way: call and number
  rows,    \* the table invocations, by call and number
  now

vars == <<phase, told, metrics, tries, flying, rows, now>>

Reports == Calls \X (1..MaxTries)
NoMetrics == [status |-> "none", latency |-> 0]
Metric == [status : Statuses, latency : Delays]
Row == [agent : {AgentOf[c] : c \in Calls}, status : Statuses, latency : Delays, at : 0..MaxTime]

TypeOK ==
  /\ phase \in [Calls -> {"idle", "calling", "reporting", "told", "gone"}]
  /\ told \in [Calls -> {"nothing", "result", "error"}]
  /\ metrics \in [Calls -> Metric \union {NoMetrics}]
  /\ tries \in [Calls -> 0..MaxTries]
  /\ flying \subseteq Reports
  /\ DOMAIN rows \subseteq Reports /\ \A i \in DOMAIN rows : rows[i] \in Row
  /\ now \in 0..MaxTime

Init ==
  /\ phase = [c \in Calls |-> "idle"]
  /\ told = [c \in Calls |-> "nothing"]
  /\ metrics = [c \in Calls |-> NoMetrics]
  /\ tries = [c \in Calls |-> 0]
  /\ flying = {}
  /\ rows = <<>>
  /\ now = 0

-----------------------------------------------------------------------------
(* The caller's process                                                    *)

\* How a call of the agent may end; "late" is a status such as 504, whose text
\* has the word timeout in it.
Ends == {"ok", "refused", "late", "timeout", "unreachable"}

\* reporter.js tells a timeout by the error's name.
StatusJs(end) == CASE end = "ok" -> "success" [] end = "timeout" -> "timeout" [] OTHER -> "error"

\* reporter.py tells it by the word in the error's text, which is "timed out" when
\* httpx or urllib give up; urllib raises an error for a status, httpx does not.
StatusPy(lib, end) ==
  CASE end = "ok" -> "success"
    [] end = "late" /\ lib = "urllib" -> "timeout"
    [] OTHER -> "error"

StatusOf(c, end) == IF Sdk[c] = "js" THEN StatusJs(end) ELSE StatusPy(Sdk[c], end)

StartCall(c) ==
  /\ phase[c] = "idle" /\ Sdk[c] # "manual"
  /\ phase' = [phase EXCEPT ![c] = "calling"]
  /\ UNCHANGED <<told, metrics, tries, flying, rows, now>>

Send(c) ==
  /\ tries' = [tries EXCEPT ![c] = @ + 1]
  /\ flying' = flying \union {<<c, tries[c] + 1>>}

\* Wrong on purpose: the caller is told an error whenever the status of the
\* answer is bad, but the report says success for any answer.
EndCallAnswered(c, end, latency) ==
  /\ phase[c] = "calling"
  /\ phase' = [phase EXCEPT ![c] = "told"]
  /\ metrics' = [metrics EXCEPT ![c] = [
       status |-> IF end \in {"refused", "late"} THEN "success" ELSE StatusOf(c, end),
       latency |-> latency]]
  /\ told' = [told EXCEPT ![c] = IF end = "ok" THEN "result" ELSE "error"]
  /\ Send(c)
  /\ UNCHANGED <<rows, now>>

\* The agent answers, or the call fails: the report is started, in the background
\* or on a thread of its own, and the caller gets the result or the error.
EndCall(c, end, latency) ==
  /\ phase[c] = "calling"
  /\ phase' = [phase EXCEPT ![c] = "told"]
  /\ metrics' = [metrics EXCEPT ![c] = [status |-> StatusOf(c, end), latency |-> latency]]
  /\ told' = [told EXCEPT ![c] = IF StatusOf(c, end) = "success" THEN "result" ELSE "error"]
  /\ Send(c)
  /\ UNCHANGED <<rows, now>>

\* report: the metrics are the caller's.
StartReport(c, m) ==
  /\ phase[c] = "idle" /\ Sdk[c] = "manual"
  /\ phase' = [phase EXCEPT ![c] = "reporting"]
  /\ metrics' = [metrics EXCEPT ![c] = m]
  /\ Send(c)
  /\ UNCHANGED <<told, rows, now>>

\* The registry's answer arrives, or the report fails: 5 s are over, or the
\* registry is away, or refuses it.
EndReport(c) ==
  /\ phase[c] = "reporting"
  /\ \/ /\ <<c, tries[c]>> \in DOMAIN rows
        /\ told' = [told EXCEPT ![c] = "result"]
     \/ told' = [told EXCEPT ![c] = "error"]
  /\ phase' = [phase EXCEPT ![c] = "told"]
  /\ UNCHANGED <<metrics, tries, flying, rows, now>>

\* A caller that was told of an error sends its report again.
Repeat(c) ==
  /\ Sdk[c] = "manual" /\ phase[c] = "told" /\ told[c] = "error"
  /\ tries[c] < MaxTries
  /\ phase' = [phase EXCEPT ![c] = "reporting"]
  /\ told' = [told EXCEPT ![c] = "nothing"]
  /\ Send(c)
  /\ UNCHANGED <<metrics, rows, now>>

\* The caller's process ends; reports may have left it or not.
ProcessEnds ==
  /\ phase' = [c \in Calls |-> IF phase[c] = "told" THEN "told" ELSE "gone"]
  /\ UNCHANGED <<told, metrics, tries, flying, rows, now>>

-----------------------------------------------------------------------------
(* The network and the registry                                            *)

\* POST /agents/:id/report inserts its row.
Arrive(c, n) ==
  /\ <<c, n>> \in flying
  /\ flying' = flying \ {<<c, n>>}
  /\ rows' = [i \in DOMAIN rows \union {<<c, n>>} |->
                IF i \in DOMAIN rows THEN rows[i]
                ELSE [agent |-> AgentOf[c], status |-> metrics[c].status,
                      latency |-> metrics[c].latency, at |-> now]]
  /\ UNCHANGED <<phase, told, metrics, tries, now>>

\* The registry is away, does not know the agent, fails to insert, or the
\* sender's process ended before the request left it.
Lose(c, n) ==
  /\ <<c, n>> \in flying
  /\ flying' = flying \ {<<c, n>>}
  /\ UNCHANGED <<phase, told, metrics, tries, rows, now>>

Tick ==
  /\ now < MaxTime
  /\ now' = now + 1
  /\ UNCHANGED <<phase, told, metrics, tries, flying, rows>>

Next ==
  \/ \E c \in Calls :
       \/ StartCall(c)
       \/ \E end \in Ends, latency \in Delays : EndCall(c, end, latency)
       \/ \E m \in Metric : StartReport(c, m)
       \/ EndReport(c)
       \/ Repeat(c)
       \/ \E n \in 1..MaxTries : Arrive(c, n) \/ Lose(c, n)
  \/ ProcessEnds
  \/ Tick

Spec == Init /\ [][Next]_vars
-----------------------------------------------------------------------------
(* Properties of the reports                                               *)

\* A call of invoke is counted once at most, although its report is sent by
\* whoever does not wait for it (reporter.js:90), and as a success if and only if
\* its caller got the agent's result (reporter.js:100, reporter.py:133).
RowsTellOutcomes ==
  \A i \in DOMAIN rows :
    Sdk[i[1]] # "manual" =>
      /\ \A j \in DOMAIN rows : i[1] = j[1] => i = j
      /\ rows[i].status = "success" <=> told[i[1]] = "result"

-----------------------------------------------------------------------------
(* Properties of the figures                                               *)

\* Each percentile that metrics.js:8 picks is a quantile of the latencies it is
\* given, at one sample, at many, and there is none only if there is no sample.
PercentilesAreQuantiles ==
  LET sorted == Latencies(rows, Recent(rows, now, Day)) IN
  \A p \in {50, 95, 99} :
    IF sorted = <<>> THEN Percentile(sorted, p) = Null
    ELSE IsQuantile(Percentile(sorted, p), sorted, p)

\* The hourly series adds up to the summary of the same window (metrics.js:149
\* and 263), for every agent and for all, and has one hour more than the window
\* at most, although its first and its last hour are cut off.
SeriesAddsUp ==
  \A table \in {rows} \union {Of(rows, AgentOf[c]) : c \in Calls} :
    LET series == Series(table, now, Day)
        totals == Summary(table, now).totals
    IN  /\ totals.total = totals.successes + totals.errors + totals.timeouts
        /\ totals.total = SumFunction([h \in DOMAIN series |-> series[h].total])
        /\ totals.successes = SumFunction([h \in DOMAIN series |-> series[h].successes])
        /\ Cardinality(DOMAIN series) <= Day + 1

-----------------------------------------------------------------------------
(* What the code does not promise                                          *)

\* A report that the caller repeats after an error is counted once.
ManualCountedOnce ==
  \A c \in Calls : Cardinality({n \in 1..MaxTries : <<c, n>> \in DOMAIN rows}) <= 1

\* A call that its timeout ended is reported as one, and no other is.
TimeoutsReported ==
  [][\A c \in Calls, end \in Ends, latency \in Delays :
       EndCall(c, end, latency) => (metrics'[c].status = "timeout" <=> end = "timeout")]_vars
=============================================================================
