------------------------------ MODULE Metrics ------------------------------
(***************************************************************************)
(* The figures of src/routes/metrics.js as functions of the rows of        *)
(* invocations: totals, rates, percentiles, averages and hourly series.    *)
(*                                                                         *)
(* rows is a function whose values are [agent, status, latency, at].  Time *)
(* counts in ticks, Hour of which are an hour; a request reads everything  *)
(* at one instant, now.  Null is JSON's null.                              *)
(***************************************************************************)
EXTENDS Integers, Sequences, FiniteSets, SequencesExt, FiniteSetsExt

CONSTANTS
  Hour, \* ticks per hour
  Day,  \* hours of the summaries' window, 24 in the program
  Null

ASSUME TimeAssumption == Hour \in Nat \ {0} /\ Day \in Nat \ {0}

Statuses == {"success", "error", "timeout"}

\* Wrong on purpose: one sample too far, as if arrays began at 1.
PercentileUp(sorted, p) ==
  IF sorted = <<>> THEN Null
  ELSE sorted[Min({Len(sorted), (Len(sorted) * p) \div 100 + 2})]

\* percentile(sorted, p / 100): arrays begin at 0.  Len * 0.95 and the like are
\* exact in doubles wherever they are whole, so that floor is \div.
Percentile(sorted, p) ==
  IF sorted = <<>> THEN Null
  ELSE sorted[Min({Len(sorted) - 1, (Len(sorted) * p) \div 100}) + 1]

\* WHERE created_at > datetime('now', '-h hours'), and agent_id = ?
Recent(rows, now, hours) == {i \in DOMAIN rows : rows[i].at > now - hours * Hour}
Of(rows, agent) == [i \in {j \in DOMAIN rows : rows[j].agent = agent} |-> rows[i]]

With(rows, ids, status) == {i \in ids : rows[i].status = status}

\* ORDER BY latency_ms over the successful ones: the n-th is the least latency
\* that n of them do not exceed.
Latencies(rows, ids) ==
  LET ok == With(rows, ids, "success")
      UpTo(v) == {i \in ok : rows[i].latency <= v}
  IN  [n \in 1..Cardinality(ok) |->
         Min({v \in {rows[i].latency : i \in ok} : Cardinality(UpTo(v)) >= n})]

\* Math.round(successes / total * 1000), in tenths of a percent.
Rate(successes, total) ==
  IF total > 0 THEN (2000 * successes + total) \div (2 * total) ELSE Null

\* ROUND(AVG(latency_ms)), of all rows, the failed ones included.
Average(rows, ids) ==
  IF ids = {} THEN Null
  ELSE (2 * MapThenSumSet(LAMBDA i : rows[i].latency, ids) + Cardinality(ids))
         \div (2 * Cardinality(ids))

OrNull(n) == IF n = 0 THEN Null ELSE n

Totals(rows, ids) ==
  [total |-> Cardinality(ids),
   successes |-> Cardinality(With(rows, ids, "success")),
   errors |-> Cardinality(With(rows, ids, "error")),
   timeouts |-> Cardinality(With(rows, ids, "timeout")),
   average |-> Average(rows, ids)]

\* GET /metrics/agents/:id, and the part of GET /metrics about invocations.
Summary(rows, now) ==
  LET day == Recent(rows, now, Day)
      all == Totals(rows, day)
      sorted == Latencies(rows, day)
  IN  [totals |-> all,
       week |-> Cardinality(Recent(rows, now, 7 * Day)),
       month |-> Cardinality(Recent(rows, now, 30 * Day)),
       rate |-> Rate(all.successes, all.total),
       average |-> OrNull(all.average),
       p50 |-> Percentile(sorted, 50), p95 |-> Percentile(sorted, 95),
       p99 |-> Percentile(sorted, 99)]

AgentSummary(rows, now, agent) == Summary(Of(rows, agent), now)

\* Math.min(Math.max(hours, 1), 720)
Clamped(hours) == IF hours < 1 THEN 1 ELSE IF hours > 30 * Day THEN 30 * Day ELSE hours

\* Wrong on purpose: only hours that are over entirely are shown.
SeriesOfWholeHours(rows, now, hours) ==
  LET ids == {i \in Recent(rows, now, Clamped(hours)) : rows[i].at \div Hour # now \div Hour}
  IN  [h \in {rows[i].at \div Hour : i \in ids} |->
         Totals(rows, {i \in ids : rows[i].at \div Hour = h})]

\* GET /metrics/timeseries: GROUP BY hour, from the full hour on the clock.
Series(rows, now, hours) ==
  LET ids == Recent(rows, now, Clamped(hours))
  IN  [h \in {rows[i].at \div Hour : i \in ids} |->
         Totals(rows, {i \in ids : rows[i].at \div Hour = h})]
-----------------------------------------------------------------------------
(* What the figures mean                                                   *)

\* v is a quantile of the latencies: at least p percent of them are not above
\* it, and at least the other percents not below it.
IsQuantile(v, sorted, p) ==
  /\ 100 * Cardinality({n \in DOMAIN sorted : sorted[n] <= v}) >= p * Len(sorted)
  /\ 100 * Cardinality({n \in DOMAIN sorted : sorted[n] >= v}) >= (100 - p) * Len(sorted)
=============================================================================
