-------------------------- MODULE Reporter_proofs --------------------------
(***************************************************************************)
(* Proofs about Reporter and Metrics, for any number of calls: each call   *)
(* of invoke is counted once at most and as its caller saw it; the         *)
(* percentiles are quantiles of the rows' latencies; and the hourly series *)
(* adds up to the summary.  TInv says that there are finitely many rows,   *)
(* each with a status, a latency and an instant that has been; the figures *)
(* are facts about any such table (IsTable).                               *)
(***************************************************************************)
EXTENDS Reporter, FiniteSetTheorems, WellFoundedInduction, TLAPS

Invokes == {c \in Calls : Sdk[c] # "manual"}

Shape ==
  /\ DOMAIN phase = Calls /\ DOMAIN told = Calls /\ DOMAIN metrics = Calls
  /\ tries \in [Calls -> Nat]
  /\ flying \subseteq Calls \X Nat /\ DOMAIN rows \subseteq Calls \X Nat

\* No report of a call that has not ended; the one report of a call that has.
BeforeEnd ==
  \A c \in Invokes :
    /\ phase[c] \in {"idle", "calling", "told", "gone"}
    /\ phase[c] \in {"idle", "calling"} => tries[c] = 0
    /\ tries[c] = 0 => \A n \in Nat : <<c, n>> \notin flying \union DOMAIN rows
AfterEnd ==
  \A c \in Invokes :
    /\ \A n \in Nat : <<c, n>> \in flying \union DOMAIN rows => n = 1
    /\ tries[c] # 0 => (metrics[c].status = "success" <=> told[c] = "result")
    /\ \A n \in Nat : <<c, n>> \in DOMAIN rows => rows[<<c, n>>].status = metrics[c].status
IInv == Shape /\ BeforeEnd /\ AfterEnd

-----------------------------------------------------------------------------
(* The steps                                                               *)

\* A step that leaves the reports, and what was told of calls that ended, alone.
LEMMA OtherKeeps ==
  ASSUME IInv, DOMAIN phase' = Calls, DOMAIN told' = Calls, DOMAIN metrics' = Calls,
         UNCHANGED <<tries, rows>>, flying' \subseteq flying,
         \A c \in Invokes : /\ phase'[c] \in {"idle", "calling", "told", "gone"}
                            /\ phase'[c] \in {"idle", "calling"} => phase[c] \in {"idle", "calling"}
                            /\ told'[c] = told[c] /\ metrics'[c] = metrics[c]
  PROVE  IInv'
BY DEF IInv, Shape, BeforeEnd, AfterEnd, Invokes

\* A step that sends a report of c.
LEMMA SendKeeps ==
  ASSUME IInv, NEW c \in Calls, Send(c), rows' = rows,
         DOMAIN phase' = Calls, DOMAIN told' = Calls, DOMAIN metrics' = Calls,
         c \in Invokes => /\ phase[c] = "calling" /\ phase'[c] = "told"
                          /\ metrics'[c].status = "success" <=> told'[c] = "result",
         \A d \in Calls \ {c} : /\ phase'[d] = phase[d] /\ told'[d] = told[d]
                                /\ metrics'[d] = metrics[d]
  PROVE  IInv'
<1>1. /\ tries' \in [Calls -> Nat] /\ tries'[c] = tries[c] + 1
      /\ \A d \in Calls \ {c} : tries'[d] = tries[d]
  BY DEF Send, IInv, Shape
<1>2. flying' = flying \union {<<c, tries[c] + 1>>} /\ tries[c] + 1 \in Nat
  BY DEF Send, IInv, Shape
<1>3. Shape'
  BY <1>1, <1>2 DEF IInv, Shape
<1>4. ASSUME NEW d \in Invokes, d # c
      PROVE  \A n \in Nat : <<d, n>> \in flying' <=> <<d, n>> \in flying
  BY <1>2, <1>4
<1>5. c \in Invokes => tries[c] = 0
  BY DEF IInv, BeforeEnd
<1>6. c \in Invokes => tries'[c] = 1 /\ \A n \in Nat : <<c, n>> \in flying' \union DOMAIN rows => n = 1
  BY <1>1, <1>2, <1>5 DEF IInv, BeforeEnd
<1>7. c \in Invokes => \A n \in Nat : <<c, n>> \notin DOMAIN rows
  BY <1>5 DEF IInv, BeforeEnd
<1>8. BeforeEnd'
  BY <1>1, <1>4, <1>6 DEF IInv, BeforeEnd, Invokes
<1>9. AfterEnd'
  BY <1>1, <1>4, <1>6, <1>7 DEF IInv, AfterEnd, Invokes
<1>. QED
  BY <1>3, <1>8, <1>9 DEF IInv

\* The registry inserts the row of a report.
LEMMA ArriveKeeps ==
  ASSUME IInv, NEW c \in Calls, NEW n \in Nat, Arrive(c, n)
  PROVE  IInv'
<1>1. /\ <<c, n>> \in flying /\ flying' = flying \ {<<c, n>>}
      /\ DOMAIN rows' = DOMAIN rows \union {<<c, n>>}
      /\ \A i \in DOMAIN rows : rows'[i] = rows[i]
      /\ <<c, n>> \notin DOMAIN rows => rows'[<<c, n>>].status = metrics[c].status
      /\ UNCHANGED <<phase, told, metrics, tries>>
  BY DEF Arrive
<1>2. flying' \union DOMAIN rows' \subseteq flying \union DOMAIN rows
  BY <1>1
<1>3. Shape'
  BY <1>1, <1>2 DEF IInv, Shape
<1>4. BeforeEnd'
  BY <1>1, <1>2 DEF IInv, BeforeEnd
<1>5. ASSUME NEW d \in Invokes, NEW k \in Nat, <<d, k>> \in DOMAIN rows'
      PROVE  rows'[<<d, k>>].status = metrics[d].status
  <2>1. CASE <<d, k>> \in DOMAIN rows
    BY <1>1, <2>1 DEF IInv, AfterEnd
  <2>2. CASE <<d, k>> \notin DOMAIN rows
    <3>1. d = c /\ k = n
      BY <1>1, <1>5, <2>2
    <3>. QED
      BY <1>1, <2>2, <3>1
  <2>. QED
    BY <2>1, <2>2
<1>6. AfterEnd'
  BY <1>1, <1>2, <1>5 DEF IInv, AfterEnd
<1>. QED
  BY <1>3, <1>4, <1>6 DEF IInv

\* Callers that did nothing yet satisfy the invariant.
LEMMA InitHolds == Init => IInv
<1>. SUFFICES ASSUME Init PROVE IInv
  OBVIOUS
<1>1. DOMAIN rows = {}
  BY DEF Init
<1>. QED
  BY <1>1 DEF Init, IInv, Shape, BeforeEnd, AfterEnd, Invokes

\* Every step keeps it.
LEMMA StepHolds == IInv /\ [Next]_vars => IInv'
<1>. SUFFICES ASSUME IInv, [Next]_vars PROVE IInv'
  OBVIOUS
<1>1. ASSUME NEW c \in Calls, StartCall(c) PROVE IInv'
  BY <1>1, OtherKeeps DEF StartCall, IInv, Shape, BeforeEnd, Invokes
<1>2. ASSUME NEW c \in Calls, NEW end \in Ends, NEW latency \in Delays, EndCall(c, end, latency)
      PROVE  IInv'
  <2>1. /\ phase[c] = "calling" /\ phase'[c] = "told" /\ Send(c) /\ rows' = rows
        /\ metrics'[c].status = "success" <=> told'[c] = "result"
    BY <1>2 DEF EndCall, IInv, Shape
  <2>2. /\ DOMAIN phase' = Calls /\ DOMAIN told' = Calls /\ DOMAIN metrics' = Calls
        /\ \A d \in Calls \ {c} : /\ phase'[d] = phase[d] /\ told'[d] = told[d]
                                  /\ metrics'[d] = metrics[d]
    BY <1>2 DEF EndCall, IInv, Shape
  <2>. QED
    BY <2>1, <2>2, SendKeeps
<1>3. ASSUME NEW c \in Calls, NEW m \in Metric, StartReport(c, m) PROVE IInv'
  <2>1. c \notin Invokes /\ Send(c) /\ rows' = rows
    BY <1>3 DEF StartReport, Invokes
  <2>2. /\ DOMAIN phase' = Calls /\ DOMAIN told' = Calls /\ DOMAIN metrics' = Calls
        /\ \A d \in Calls \ {c} : /\ phase'[d] = phase[d] /\ told'[d] = told[d]
                                  /\ metrics'[d] = metrics[d]
    BY <1>3 DEF StartReport, IInv, Shape
  <2>. QED
    BY <2>1, <2>2, SendKeeps
<1>4. ASSUME NEW c \in Calls, EndReport(c) PROVE IInv'
  <2>1. c \notin Invokes
    BY <1>4 DEF EndReport, IInv, BeforeEnd
  <2>. QED
    BY <1>4, <2>1, OtherKeeps DEF EndReport, IInv, Shape, BeforeEnd, Invokes
<1>5. ASSUME NEW c \in Calls, Repeat(c) PROVE IInv'
  <2>1. c \notin Invokes /\ Send(c) /\ rows' = rows
    BY <1>5 DEF Repeat, Invokes
  <2>2. /\ DOMAIN phase' = Calls /\ DOMAIN told' = Calls /\ DOMAIN metrics' = Calls
        /\ \A d \in Calls \ {c} : /\ phase'[d] = phase[d] /\ told'[d] = told[d]
                                  /\ metrics'[d] = metrics[d]
    BY <1>5 DEF Repeat, IInv, Shape
  <2>. QED
    BY <2>1, <2>2, SendKeeps
<1>6. ASSUME NEW c \in Calls, NEW n \in 1..MaxTries, Arrive(c, n) PROVE IInv'
  BY <1>6, CallsAssumption, ArriveKeeps
<1>7. ASSUME NEW c \in Calls, NEW n \in 1..MaxTries, Lose(c, n) PROVE IInv'
  BY <1>7, OtherKeeps DEF Lose, IInv, Shape, BeforeEnd
<1>8. CASE ProcessEnds
  BY <1>8, OtherKeeps DEF ProcessEnds, IInv, Shape, BeforeEnd, Invokes
<1>9. CASE Tick \/ UNCHANGED vars
  BY <1>9, OtherKeeps DEF Tick, vars, IInv, Shape, BeforeEnd
<1>. QED
  BY <1>1, <1>2, <1>3, <1>4, <1>5, <1>6, <1>7, <1>8, <1>9 DEF Next

\* A call of invoke is counted once at most (reporter.js:90), and as a success if
\* and only if its caller got the result: for any number of calls and callers.
THEOREM RowsTell == Spec => []RowsTellOutcomes
<1>1. IInv => RowsTellOutcomes
  <2>. SUFFICES ASSUME IInv, NEW i \in DOMAIN rows, Sdk[i[1]] # "manual"
                PROVE  /\ \A j \in DOMAIN rows : i[1] = j[1] => i = j
                       /\ rows[i].status = "success" <=> told[i[1]] = "result"
    BY DEF RowsTellOutcomes
  <2>1. \A j \in DOMAIN rows : /\ j[1] \in Calls /\ j[2] \in Nat
                               /\ j = <<j[1], j[2]>>
    BY DEF IInv, Shape
  <2>2. i[1] \in Invokes
    BY <2>1 DEF Invokes
  <2>3. \A j \in DOMAIN rows : i[1] = j[1] => j[2] = 1
    BY <2>1, <2>2 DEF IInv, AfterEnd
  <2>4. tries[i[1]] # 0
    BY <2>1, <2>2 DEF IInv, BeforeEnd
  <2>5. rows[i].status = metrics[i[1]].status
    BY <2>1, <2>2 DEF IInv, AfterEnd
  <2>6. metrics[i[1]].status = "success" <=> told[i[1]] = "result"
    BY <2>2, <2>4 DEF IInv, AfterEnd
  <2>. QED
    BY <2>1, <2>3, <2>5, <2>6
<1>. QED
  BY <1>1, InitHolds, StepHolds, PTL DEF Spec

-----------------------------------------------------------------------------
(* The rows                                                                *)

\* A table of rows inserted up to now.
IsTable(t, until) ==
  /\ IsFiniteSet(DOMAIN t) /\ until \in Nat
  /\ \A i \in DOMAIN t : /\ t[i].status \in Statuses /\ t[i].latency \in Nat
                         /\ t[i].at \in 0..until

\* The reports on their way say something, and so do the rows.
Kept ==
  /\ \A c \in Calls : phase[c] \in {"reporting", "told"} => metrics[c] \in Metric
  /\ \A f \in flying : metrics[f[1]] \in Metric
  /\ IsTable(rows, now)
TInv == IInv /\ Kept

\* A step that sends a report of c, whose metrics are in their place.
LEMMA SendKeepsTable ==
  ASSUME TInv, NEW c \in Calls, Send(c), metrics'[c] \in Metric, UNCHANGED <<rows, now>>,
         \A d \in Calls \ {c} : phase'[d] = phase[d] /\ metrics'[d] = metrics[d]
  PROVE  Kept'
<1>1. flying' = flying \union {<<c, tries[c] + 1>>}
  BY DEF Send
<1>2. \A f \in flying : f[1] \in Calls
  BY DEF TInv, IInv, Shape
<1>3. \A f \in flying' : metrics'[f[1]] \in Metric
  BY <1>1, <1>2 DEF TInv, Kept
<1>4. \A d \in Calls : phase'[d] \in {"reporting", "told"} => metrics'[d] \in Metric
  BY DEF TInv, Kept
<1>. QED
  BY <1>3, <1>4 DEF TInv, Kept, IsTable

\* The row of a report says what its metrics say, at this instant.
LEMMA ArriveKeepsTable ==
  ASSUME TInv, NEW c \in Calls, NEW n \in Nat, Arrive(c, n)
  PROVE  Kept'
<1>1. /\ <<c, n>> \in flying /\ flying' \subseteq flying
      /\ DOMAIN rows' = DOMAIN rows \union {<<c, n>>}
      /\ \A i \in DOMAIN rows : rows'[i] = rows[i]
      /\ <<c, n>> \notin DOMAIN rows =>
           rows'[<<c, n>>] = [agent |-> AgentOf[c], status |-> metrics[c].status,
                              latency |-> metrics[c].latency, at |-> now]
      /\ UNCHANGED <<phase, metrics, now>>
  BY DEF Arrive
<1>2. metrics[c].status \in Statuses /\ metrics[c].latency \in Nat
  <2>1. metrics[c] \in Metric
    BY <1>1 DEF TInv, Kept
  <2>. QED
    BY <2>1, CallsAssumption DEF Metric
<1>3. now \in Nat /\ now \in 0..now
  BY DEF TInv, Kept, IsTable
<1>4. IsFiniteSet(DOMAIN rows')
  BY <1>1, FS_AddElement DEF TInv, Kept, IsTable
<1>5. ASSUME NEW i \in DOMAIN rows'
      PROVE  rows'[i].status \in Statuses /\ rows'[i].latency \in Nat /\ rows'[i].at \in 0..now
  <2>1. CASE i \in DOMAIN rows
    BY <1>1, <2>1 DEF TInv, Kept, IsTable
  <2>2. CASE i \notin DOMAIN rows
    BY <1>1, <1>2, <1>3, <2>2
  <2>. QED
    BY <2>1, <2>2
<1>6. IsTable(rows, now)'
  BY <1>1, <1>3, <1>4, <1>5 DEF IsTable
<1>. QED
  BY <1>1, <1>6 DEF TInv, Kept

\* A table of the past is a table of the present.
LEMMA TickKeepsTable ==
  ASSUME TInv, Tick PROVE Kept'
<1>1. now \in Nat /\ now' = now + 1 /\ rows' = rows /\ UNCHANGED <<phase, metrics, flying>>
  BY DEF TInv, Kept, IsTable, Tick
<1>2. IsTable(rows, now)'
  BY <1>1 DEF TInv, Kept, IsTable
<1>. QED
  BY <1>1, <1>2 DEF TInv, Kept

\* Before any call there is no row and no report.
LEMMA TableInit == Init => TInv
<1>. SUFFICES ASSUME Init PROVE Kept
  BY InitHolds DEF TInv
<1>1. DOMAIN rows = {} /\ now = 0
  BY DEF Init
<1>. QED
  BY <1>1, FS_EmptySet DEF Init, Kept, IsTable

\* Every step keeps the rows a table of the past.
LEMMA TableStep == TInv /\ [Next]_vars => TInv'
<1>. SUFFICES ASSUME TInv, [Next]_vars PROVE Kept'
  BY StepHolds DEF TInv
<1>. USE DEF TInv, IInv, Shape
<1>1. ASSUME NEW c \in Calls, StartCall(c) PROVE Kept'
  BY <1>1 DEF StartCall, Kept
<1>2. ASSUME NEW c \in Calls, NEW end \in Ends, NEW latency \in Delays, EndCall(c, end, latency)
      PROVE  Kept'
  <2>1. StatusOf(c, end) \in Statuses
    BY DEF StatusOf, StatusJs, StatusPy, Statuses
  <2>2. metrics'[c] = [status |-> StatusOf(c, end), latency |-> latency]
    BY <1>2 DEF EndCall
  <2>3. metrics'[c] \in Metric
    BY <2>1, <2>2 DEF Metric
  <2>4. Send(c) /\ UNCHANGED <<rows, now>>
        /\ \A d \in Calls \ {c} : phase'[d] = phase[d] /\ metrics'[d] = metrics[d]
    BY <1>2 DEF EndCall
  <2>. QED
    BY <2>3, <2>4, SendKeepsTable
<1>3. ASSUME NEW c \in Calls, NEW m \in Metric, StartReport(c, m) PROVE Kept'
  BY <1>3, SendKeepsTable DEF StartReport
<1>4. ASSUME NEW c \in Calls, EndReport(c) PROVE Kept'
  BY <1>4 DEF EndReport, Kept
<1>5. ASSUME NEW c \in Calls, Repeat(c) PROVE Kept'
  <2>1. metrics'[c] \in Metric
    BY <1>5 DEF Repeat, Kept
  <2>. QED
    BY <1>5, <2>1, SendKeepsTable DEF Repeat
<1>6. ASSUME NEW c \in Calls, NEW n \in 1..MaxTries, Arrive(c, n) PROVE Kept'
  BY <1>6, CallsAssumption, ArriveKeepsTable
<1>7. ASSUME NEW c \in Calls, NEW n \in 1..MaxTries, Lose(c, n) PROVE Kept'
  BY <1>7 DEF Lose, Kept
<1>8. CASE ProcessEnds
  BY <1>8 DEF ProcessEnds, Kept
<1>9. CASE Tick
  BY <1>9, TickKeepsTable
<1>10. CASE UNCHANGED vars
  BY <1>10 DEF vars, Kept, IsTable
<1>. QED
  BY <1>1, <1>2, <1>3, <1>4, <1>5, <1>6, <1>7, <1>8, <1>9, <1>10 DEF Next

-----------------------------------------------------------------------------
(* Percentiles                                                             *)

\* Every set of naturals that is not empty has a least element.
LEMMA NatLeast ==
  ASSUME NEW T \in SUBSET Nat, T # {}
  PROVE  \E x \in T : \A y \in T : x <= y
<1>. DEFINE R == OpToRel(<, Nat)
<1>1. IsWellFoundedOn(R, Nat)
  BY NatLessThanWellFounded
<1>2. \A x, y \in Nat : x < y => <<x, y>> \in R
  BY DEF OpToRel
<1>. HIDE DEF R
<1>3. \E x \in T : \A y \in T : ~ (<<y, x>> \in R)
  BY <1>1, WFMin
<1>4. PICK x \in T : \A y \in T : ~ (<<y, x>> \in R)
  BY <1>3, Zenon
<1>5. ASSUME NEW y \in T PROVE x <= y
  <2>1. x \in Nat /\ y \in Nat
    OBVIOUS
  <2>2. ~ (y < x)
    BY <1>4, <1>2, <2>1, Zenon
  <2>. QED
    BY <2>1, <2>2
<1>. QED
  BY <1>5

\* The least element of a set of naturals is its Min.
LEMMA MinIsLeast ==
  ASSUME NEW T \in SUBSET Nat, T # {}
  PROVE  Min(T) \in T /\ \A y \in T : Min(T) <= y
<1>1. \E x \in T : \A y \in T : x <= y
  BY NatLeast
<1>. QED
  BY <1>1, Zenon DEF Min

Ascending(sorted) == \A m, n \in 1..Len(sorted) : m <= n => sorted[m] <= sorted[n]

\* The index that percentile computes (metrics.js:8) is one of the array, and no
\* further from p percent of it than one sample.
LEMMA IndexBounds ==
  ASSUME NEW len \in Nat \ {0}, NEW p \in 0..100
  PROVE  LET k == Min({len - 1, (len * p) \div 100})
         IN  k \in 0..(len - 1) /\ 100 * k <= len * p /\ 100 * (k + 1) >= len * p
<1>. DEFINE q == (len * p) \div 100
            S == {len - 1, q}
            k == Min(S)
<1>1. len * p \in Nat /\ len * p <= len * 100
  <2>1. p \in Nat /\ 100 - p \in Nat
    OBVIOUS
  <2>2. len * p \in Nat /\ len * (100 - p) \in Nat
    BY <2>1
  <2>3. len * (100 - p) = len * 100 - len * p
    BY <2>1
  <2>. QED
    BY <2>2, <2>3
<1>2. q \in Nat /\ 100 * q <= len * p /\ len * p < 100 * q + 100
  BY <1>1
<1>3. \E x \in S : \A y \in S : x <= y
  BY <1>2
<1>4. k \in S /\ \A y \in S : k <= y
  BY <1>3, Zenon DEF Min
<1>. HIDE DEF q
<1>5. k \in {len - 1, q} /\ k <= len - 1 /\ k <= q
  BY <1>4
<1>. HIDE DEF k
<1>6. k \in 0..(len - 1) /\ 100 * k <= len * p /\ 100 * (k + 1) >= len * p
  BY <1>1, <1>2, <1>5
<1>. QED
  BY <1>6 DEF k, q

\* No sample, no figure (metrics.js:7).
THEOREM PercentileOfNone == \A p \in 0..100 : Percentile(<<>>, p) = Null
BY DEF Percentile

\* Of any sorted samples, at least p percent are not above the one that
\* percentile picks, and at least the other percents not below it.
THEOREM PercentileIsQuantile ==
  ASSUME NEW sorted \in Seq(Int), sorted # <<>>, Ascending(sorted), NEW p \in 0..100
  PROVE  IsQuantile(Percentile(sorted, p), sorted, p)
<1>. DEFINE len == Len(sorted)
            k == Min({len - 1, (len * p) \div 100})
            v == sorted[k + 1]
            below == {n \in DOMAIN sorted : sorted[n] <= v}
            above == {n \in DOMAIN sorted : sorted[n] >= v}
<1>1. len \in Nat \ {0} /\ DOMAIN sorted = 1..len
  OBVIOUS
<1>2. k \in 0..(len - 1) /\ 100 * k <= len * p /\ 100 * (k + 1) >= len * p
  BY <1>1, IndexBounds
<1>3. Percentile(sorted, p) = v
  BY DEF Percentile
<1>. HIDE DEF k
<1>4. 1..(k + 1) \subseteq below
  BY <1>1, <1>2 DEF Ascending
<1>5. (k + 1)..len \subseteq above
  BY <1>1, <1>2 DEF Ascending
<1>6. IsFiniteSet(below) /\ IsFiniteSet(above)
  <2>1. IsFiniteSet(1..len)
    BY <1>1, FS_Interval
  <2>. QED
    BY <1>1, <2>1, FS_Subset
<1>7. Cardinality(1..(k + 1)) = k + 1 /\ Cardinality((k + 1)..len) = len - k
  BY <1>1, <1>2, FS_Interval
<1>8. /\ Cardinality(below) \in Nat /\ Cardinality(above) \in Nat
      /\ Cardinality(below) >= k + 1 /\ Cardinality(above) >= len - k
  <2>. HIDE DEF below, above
  <2>1. Cardinality(below) \in Nat /\ Cardinality(above) \in Nat
    BY <1>6, FS_CardinalityType
  <2>2. Cardinality(1..(k + 1)) <= Cardinality(below)
    BY <1>4, <1>6, FS_Subset
  <2>3. Cardinality((k + 1)..len) <= Cardinality(above)
    BY <1>5, <1>6, FS_Subset
  <2>. QED
    BY <1>7, <2>1, <2>2, <2>3
<1>. HIDE DEF len, v, below, above
<1>9. 100 * Cardinality(below) >= p * len /\ 100 * Cardinality(above) >= (100 - p) * len
  <2>1. p * len = len * p /\ (100 - p) * len = 100 * len - len * p /\ len * p \in Int
    BY <1>1
  <2>. QED
    BY <1>1, <1>2, <1>8, <2>1
<1>. QED
  BY <1>3, <1>9 DEF IsQuantile, len, v, below, above

\* Order statistics of finitely many samples are samples, in ascending order.
LEMMA LatenciesAscend ==
  ASSUME NEW t, NEW ids, IsFiniteSet(ids), \A i \in ids : t[i].latency \in Nat
  PROVE  Latencies(t, ids) \in Seq(Int) /\ Ascending(Latencies(t, ids))
<1>. DEFINE ok == With(t, ids, "success")
            UpTo(v) == {i \in ok : t[i].latency <= v}
            L == {t[i].latency : i \in ok}
            Q(n) == {v \in L : Cardinality(UpTo(v)) >= n}
            N == Cardinality(ok)
<1>1. IsFiniteSet(ok) /\ \A i \in ok : t[i].latency \in Nat
  BY FS_Subset DEF With
<1>2. N \in Nat
  BY <1>1, FS_CardinalityType
<1>3. Latencies(t, ids) = [n \in 1..N |-> Min(Q(n))]
  BY DEF Latencies
<1>. HIDE DEF ok
<1>4. ASSUME NEW v
      PROVE  /\ IsFiniteSet(UpTo(v)) /\ Cardinality(UpTo(v)) \in Nat
             /\ Cardinality(UpTo(v)) <= N
             /\ \A S \in SUBSET UpTo(v) : Cardinality(S) = Cardinality(UpTo(v)) => S = UpTo(v)
             /\ \A S \in SUBSET UpTo(v) : Cardinality(S) <= Cardinality(UpTo(v))
  <2>1. UpTo(v) \in SUBSET ok
    OBVIOUS
  <2>. HIDE DEF UpTo
  <2>2. IsFiniteSet(UpTo(v)) /\ Cardinality(UpTo(v)) <= N
    BY <1>1, <2>1, FS_Subset
  <2>3. Cardinality(UpTo(v)) \in Nat
    BY <2>2, FS_CardinalityType
  <2>. QED
    BY <2>2, <2>3, FS_Subset
<1>. HIDE DEF UpTo
<1>5. \A v \in L : v \in Nat
  BY <1>1
<1>6. N > 0 => \E v \in L : UpTo(v) = ok
  <2>. SUFFICES ASSUME N > 0 PROVE \E v \in L : UpTo(v) = ok
    OBVIOUS
  <2>. DEFINE C == {N - Cardinality(UpTo(v)) : v \in L}
  <2>1. C \in SUBSET Nat
    <3>1. ASSUME NEW v \in L PROVE N - Cardinality(UpTo(v)) \in Nat
      <4>1. Cardinality(UpTo(v)) \in Nat /\ Cardinality(UpTo(v)) <= N
        BY <1>4
      <4>. QED
        BY <1>2, <4>1
    <3>. QED
      BY <3>1
  <2>2. ok # {}
    BY <1>2, FS_EmptySet
  <2>3. C # {}
    BY <2>2
  <2>4. PICK x \in C : \A y \in C : x <= y
    BY <2>1, <2>3, NatLeast
  <2>5. PICK v \in L : x = N - Cardinality(UpTo(v))
    BY <2>4
  <2>6. ASSUME NEW i \in ok, ~ (t[i].latency <= v) PROVE FALSE
    <3>. DEFINE w == t[i].latency
    <3>1. w \in L /\ w \in Nat /\ v \in Nat
      BY <1>1, <1>5
    <3>2. UpTo(v) \subseteq UpTo(w) /\ i \in UpTo(w) /\ i \notin UpTo(v)
      BY <1>1, <2>6, <3>1 DEF UpTo
    <3>. HIDE DEF w
    <3>3. Cardinality(UpTo(v)) # Cardinality(UpTo(w))
      BY <1>4, <3>2
    <3>4. Cardinality(UpTo(v)) <= Cardinality(UpTo(w))
      BY <1>4, <3>2
    <3>5. N - Cardinality(UpTo(w)) \in C
      BY <3>1
    <3>6. x <= N - Cardinality(UpTo(w))
      BY <2>4, <3>5
    <3>7. Cardinality(UpTo(v)) \in Nat /\ Cardinality(UpTo(w)) \in Nat
      BY <1>4
    <3>. QED
      BY <1>2, <2>5, <3>3, <3>4, <3>6, <3>7
  <2>7. UpTo(v) = ok
    BY <2>6 DEF UpTo
  <2>. QED
    BY <2>7
<1>7. ASSUME NEW n \in 1..N
      PROVE  Q(n) \in SUBSET Nat /\ Min(Q(n)) \in Q(n) /\ \A y \in Q(n) : Min(Q(n)) <= y
  <2>1. PICK v \in L : UpTo(v) = ok
    BY <1>2, <1>6
  <2>2. v \in Q(n)
    <3>1. Cardinality(UpTo(v)) >= n
      BY <1>2, <2>1
    <3>. QED
      BY <3>1
  <2>3. Q(n) \in SUBSET Nat
    BY <1>5
  <2>. HIDE DEF Q
  <2>. QED
    BY <2>2, <2>3, MinIsLeast
<1>8. ASSUME NEW m \in 1..N, NEW n \in 1..N, m <= n PROVE Min(Q(m)) <= Min(Q(n))
  <2>1. Q(n) \subseteq Q(m)
    <3>. SUFFICES ASSUME NEW v \in L, Cardinality(UpTo(v)) >= n
                  PROVE  Cardinality(UpTo(v)) >= m
      OBVIOUS
    <3>1. Cardinality(UpTo(v)) \in Nat
      BY <1>4
    <3>. QED
      BY <1>2, <1>8, <3>1
  <2>. HIDE DEF Q
  <2>. QED
    BY <1>7, <2>1
<1>. HIDE DEF Q, N
<1>9. \A n \in 1..N : Min(Q(n)) \in Int
  BY <1>7
<1>10. Latencies(t, ids) \in Seq(Int) /\ Len(Latencies(t, ids)) = N
  BY <1>2, <1>3, <1>9
<1>11. Ascending(Latencies(t, ids))
  BY <1>3, <1>8, <1>10 DEF Ascending
<1>. QED
  BY <1>10, <1>11

\* The percentiles of the last day are quantiles of its latencies (metrics.js:51-60),
\* in every state: for any calls, delays and lengths of an hour and a day.
THEOREM PercentilesHold == Spec => []PercentilesAreQuantiles
<1>1. TInv => PercentilesAreQuantiles
  <2>. DEFINE day == Recent(rows, now, Day)
              sorted == Latencies(rows, day)
  <2>. SUFFICES ASSUME TInv, NEW p \in {50, 95, 99}
                PROVE  IF sorted = <<>> THEN Percentile(sorted, p) = Null
                       ELSE IsQuantile(Percentile(sorted, p), sorted, p)
    BY DEF PercentilesAreQuantiles
  <2>1. IsFiniteSet(day) /\ \A i \in day : rows[i].latency \in Nat
    BY FS_Subset DEF TInv, Kept, IsTable, Recent
  <2>2. sorted \in Seq(Int) /\ Ascending(sorted)
    BY <2>1, LatenciesAscend
  <2>3. p \in 0..100
    OBVIOUS
  <2>. HIDE DEF sorted
  <2>4. CASE sorted = <<>>
    BY <2>3, <2>4, PercentileOfNone
  <2>5. CASE sorted # <<>>
    BY <2>2, <2>3, <2>5, PercentileIsQuantile
  <2>. QED
    BY <2>4, <2>5
<1>. QED
  BY <1>1, TableInit, TableStep, PTL DEF Spec

\* A higher percentile of the same samples is not lower: p50, p95, p99.
THEOREM PercentilesAscend ==
  ASSUME NEW sorted \in Seq(Int), sorted # <<>>, Ascending(sorted),
         NEW p \in 0..100, NEW q \in 0..100, p <= q
  PROVE  Percentile(sorted, p) <= Percentile(sorted, q)
<1>. DEFINE len == Len(sorted)
            P == (len * p) \div 100
            Q == (len * q) \div 100
            i == Min({len - 1, P})
            j == Min({len - 1, Q})
<1>1. len \in Nat \ {0}
  OBVIOUS
<1>2. i \in 0..(len - 1) /\ j \in 0..(len - 1)
  BY <1>1, IndexBounds
<1>3. P \in Nat /\ Q \in Nat /\ P <= Q
  <2>1. len * p \in Nat /\ len * q \in Nat
    BY <1>1
  <2>2. len * (q - p) = len * q - len * p /\ len * (q - p) \in Nat
    <3>1. q - p \in Nat
      OBVIOUS
    <3>. QED
      BY <1>1, <3>1
  <2>. QED
    BY <2>1, <2>2
<1>. HIDE DEF len, P, Q
<1>4. \A x, y \in Int : Min({x, y}) = IF x <= y THEN x ELSE y
  <2>. TAKE x, y \in Int
  <2>1. \E z \in {x, y} : \A w \in {x, y} : z <= w
    OBVIOUS
  <2>2. Min({x, y}) \in {x, y} /\ \A w \in {x, y} : Min({x, y}) <= w
    BY <2>1, Zenon DEF Min
  <2>. QED
    BY <2>2
<1>5. i = (IF len - 1 <= P THEN len - 1 ELSE P) /\ j = (IF len - 1 <= Q THEN len - 1 ELSE Q)
  BY <1>1, <1>3, <1>4
<1>. HIDE DEF i, j
<1>6. i <= j
  BY <1>1, <1>3, <1>5
<1>7. sorted[i + 1] <= sorted[j + 1]
  BY <1>2, <1>6 DEF Ascending, len
<1>. QED
  BY <1>7 DEF Percentile, i, j, P, Q, len

-----------------------------------------------------------------------------
(* The series                                                              *)

\* Sets without a common element add up.
LEMMA DisjointUnion ==
  ASSUME NEW A, IsFiniteSet(A), NEW B, IsFiniteSet(B), A \cap B = {}
  PROVE  IsFiniteSet(A \union B) /\ Cardinality(A \union B) = Cardinality(A) + Cardinality(B)
<1>1. /\ IsFiniteSet(A \union B)
      /\ Cardinality(A \union B) = Cardinality(A) + Cardinality(B) - Cardinality(A \cap B)
  BY FS_Union
<1>2. Cardinality(A) \in Nat /\ Cardinality(B) \in Nat /\ Cardinality(A \cap B) = 0
  BY FS_CardinalityType, FS_EmptySet
<1>. QED
  BY <1>1, <1>2

\* What the library's sums unfold to: one element after the other is taken away.
Summing(f, S) ==
  CHOOSE g : g = [s \in SUBSET S |->
                    IF s = {} THEN 0
                    ELSE f[CHOOSE x \in s : TRUE] + g[s \ {CHOOSE x \in s : TRUE}]]

\* The sum over a set is that function at the whole set.
LEMMA SumUnfolds == \A f, S : SumFunctionOnSet(f, S) = Summing(f, S)[S]
BY DEF SumFunctionOnSet, FoldFunctionOnSet, MapThenFoldSet, Summing

\* A function of the subsets of S that grows by f[x] with each element x is the sum.
LEMMA SumIs ==
  ASSUME NEW S, IsFiniteSet(S), NEW f \in [S -> Nat], NEW c \in [SUBSET S -> Nat],
         c[{}] = 0, \A T \in SUBSET S : \A x \in T : c[T] = f[x] + c[T \ {x}]
  PROVE  SumFunctionOnSet(f, S) = c[S]
<1>. DEFINE pick(s) == CHOOSE x \in s : TRUE
            g == Summing(f, S)
<1>1. \A s : s # {} => pick(s) \in s
  <2>. TAKE s
  <2>. HAVE s # {}
  <2>1. \E x \in s : TRUE
    OBVIOUS
  <2>. QED
    BY <2>1, Zenon
<1>2. c = [s \in SUBSET S |-> IF s = {} THEN 0 ELSE f[pick(s)] + c[s \ {pick(s)}]]
  <2>1. ASSUME NEW s \in SUBSET S
        PROVE  c[s] = IF s = {} THEN 0 ELSE f[pick(s)] + c[s \ {pick(s)}]
    <3>1. CASE s = {}
      BY <3>1
    <3>2. CASE s # {}
      <4>1. pick(s) \in s
        BY <1>1, <3>2
      <4>. HIDE DEF pick
      <4>. QED
        BY <3>2, <4>1
    <3>. QED
      BY <3>1, <3>2
  <2>. HIDE DEF pick
  <2>. QED
    BY <2>1
<1>3. g = [s \in SUBSET S |-> IF s = {} THEN 0 ELSE f[pick(s)] + g[s \ {pick(s)}]]
  <2>1. \E e : e = [s \in SUBSET S |-> IF s = {} THEN 0 ELSE f[pick(s)] + e[s \ {pick(s)}]]
    BY <1>2
  <2>2. g = CHOOSE e : e = [s \in SUBSET S |-> IF s = {} THEN 0 ELSE f[pick(s)] + e[s \ {pick(s)}]]
    BY DEF Summing
  <2>. HIDE DEF g, pick
  <2>. QED
    BY <2>1, <2>2, Zenon
<1>. HIDE DEF g, pick
<1>4. \A s \in SUBSET S : g[s] = IF s = {} THEN 0 ELSE f[pick(s)] + g[s \ {pick(s)}]
  BY <1>3, Zenon
<1>. DEFINE Bad == {s \in SUBSET S : g[s] # c[s]}
            Sizes == {Cardinality(s) : s \in Bad}
<1>5. \A s \in SUBSET S : IsFiniteSet(s) /\ Cardinality(s) \in Nat
  BY FS_Subset, FS_CardinalityType
<1>6. ASSUME Bad # {} PROVE FALSE
  <2>1. Sizes \in SUBSET Nat /\ Sizes # {}
    BY <1>5, <1>6
  <2>2. PICK n \in Sizes : \A m \in Sizes : n <= m
    BY <2>1, NatLeast
  <2>3. PICK s \in Bad : n = Cardinality(s)
    BY <2>2
  <2>4. s # {}
    BY <1>4, <2>3
  <2>. DEFINE r == s \ {pick(s)}
  <2>5. pick(s) \in s /\ r \in SUBSET S
    BY <1>1, <2>4
  <2>6. Cardinality(r) = Cardinality(s) - 1 /\ Cardinality(r) \in Nat
    BY <1>5, <2>5, FS_RemoveElement
  <2>. HIDE DEF r
  <2>7. r \notin Bad
    <3>1. n \in Nat
      BY <1>5, <2>3
    <3>. HIDE DEF Sizes
    <3>2. Cardinality(r) \notin Sizes
      BY <2>2, <2>3, <2>6, <3>1
    <3>. QED
      BY <3>2 DEF Sizes
  <2>8. g[r] = c[r]
    BY <2>5, <2>7
  <2>9. c[s] = f[pick(s)] + c[r]
    BY <2>5 DEF r
  <2>10. g[s] = f[pick(s)] + g[r]
    BY <1>4, <2>4 DEF r
  <2>. QED
    BY <2>3, <2>8, <2>9, <2>10
<1>7. g[S] = c[S]
  BY <1>6
<1>. QED
  BY <1>7, SumUnfolds DEF g

\* The sizes of the groups of a finite set add up to its size.
LEMMA GroupsAddUp ==
  ASSUME NEW A, IsFiniteSet(A), NEW key, NEW H, IsFiniteSet(H), \A i \in A : key[i] \in H
  PROVE  SumFunction([h \in H |-> Cardinality({i \in A : key[i] = h})]) = Cardinality(A)
<1>. DEFINE In(T) == {i \in A : key[i] \in T}
            One(h) == {i \in A : key[i] = h}
            f == [h \in H |-> Cardinality(One(h))]
            c == [T \in SUBSET H |-> Cardinality(In(T))]
<1>1. \A T \in SUBSET A : IsFiniteSet(T) /\ Cardinality(T) \in Nat
  BY FS_Subset, FS_CardinalityType
<1>2. f \in [H -> Nat]
  BY <1>1
<1>3. c \in [SUBSET H -> Nat]
  BY <1>1
<1>4. c[{}] = 0
  <2>1. In({}) = {}
    OBVIOUS
  <2>. QED
    BY <2>1, FS_EmptySet
<1>5. ASSUME NEW T \in SUBSET H, NEW x \in T PROVE c[T] = f[x] + c[T \ {x}]
  <2>1. In(T) = One(x) \union In(T \ {x}) /\ One(x) \cap In(T \ {x}) = {}
    OBVIOUS
  <2>2. One(x) \in SUBSET A /\ In(T \ {x}) \in SUBSET A
    OBVIOUS
  <2>3. f[x] = Cardinality(One(x)) /\ c[T] = Cardinality(In(T)) /\ c[T \ {x}] = Cardinality(In(T \ {x}))
    OBVIOUS
  <2>. HIDE DEF In, One, f, c
  <2>4. Cardinality(One(x) \union In(T \ {x})) = Cardinality(One(x)) + Cardinality(In(T \ {x}))
    BY <1>1, <2>1, <2>2, DisjointUnion
  <2>. QED
    BY <2>1, <2>3, <2>4
<1>6. In(H) = A /\ c[H] = Cardinality(In(H)) /\ DOMAIN f = H
  OBVIOUS
<1>. HIDE DEF f, c, In
<1>7. SumFunctionOnSet(f, H) = c[H]
  BY <1>2, <1>3, <1>4, <1>5, SumIs
<1>8. SumFunction(f) = Cardinality(A)
  BY <1>6, <1>7 DEF SumFunction
<1>. QED
  BY <1>8 DEF f

\* The hour of a row in the window is one of its Day + 1 last ones.
LEMMA HoursInWindow ==
  ASSUME NEW x \in Nat, NEW y \in Nat, x <= y, x > y - Day * Hour
  PROVE  x \div Hour \in ((y \div Hour) - Day)..(y \div Hour)
<1>. DEFINE a == x \div Hour
            b == y \div Hour
<1>1. Hour \in Nat \ {0} /\ Day \in Nat
  BY TimeAssumption
<1>2. a \in Nat /\ Hour * a <= x /\ x < Hour * a + Hour
  BY <1>1
<1>3. b \in Nat /\ Hour * b <= y /\ y < Hour * b + Hour
  BY <1>1
<1>. HIDE DEF a, b
<1>4. \A m, n \in Int : m < n => Hour * m + Hour <= Hour * n
  <2>. TAKE m, n \in Int
  <2>. HAVE m < n
  <2>1. n - m - 1 \in Nat
    OBVIOUS
  <2>2. Hour * (n - m - 1) \in Nat
    BY <1>1, <2>1
  <2>3. Hour * (n - m - 1) = Hour * n - Hour * m - Hour
    BY <1>1
  <2>. QED
    BY <1>1, <2>2, <2>3
<1>5. ~ (b < a)
  <2>1. Hour * b + Hour <= Hour * a => x > y
    BY <1>1, <1>2, <1>3
  <2>. QED
    BY <1>2, <1>3, <1>4, <2>1
<1>6. ~ (a < b - Day)
  <2>1. b - Day \in Int /\ Hour * (b - Day) = Hour * b - Day * Hour
    BY <1>1, <1>3
  <2>2. Hour * a + Hour <= Hour * (b - Day) => x <= y - Day * Hour
    <3>1. Hour * a \in Int /\ Hour * b \in Int /\ Day * Hour \in Int
      BY <1>1, <1>2, <1>3
    <3>. QED
      BY <1>1, <1>2, <1>3, <2>1, <3>1
  <2>3. Day * Hour \in Int
    BY <1>1
  <2>. QED
    BY <1>2, <1>4, <2>1, <2>2, <2>3
<1>7. a \in (b - Day)..b
  BY <1>1, <1>2, <1>3, <1>5, <1>6
<1>. QED
  BY <1>7 DEF a, b

\* The rows of a table are its successes, its errors and its timeouts.
LEMMA StatusesAddUp ==
  ASSUME NEW t, NEW ids, IsFiniteSet(ids), \A i \in ids : t[i].status \in Statuses
  PROVE  Cardinality(ids) = Cardinality(With(t, ids, "success"))
           + Cardinality(With(t, ids, "error")) + Cardinality(With(t, ids, "timeout"))
<1>. DEFINE S == With(t, ids, "success")
            E == With(t, ids, "error")
            O == With(t, ids, "timeout")
<1>1. /\ S \in SUBSET ids /\ E \in SUBSET ids /\ O \in SUBSET ids
      /\ ids = (S \union E) \union O /\ S \cap E = {} /\ (S \union E) \cap O = {}
  BY DEF With, Statuses
<1>. HIDE DEF S, E, O
<1>2. /\ IsFiniteSet(S) /\ IsFiniteSet(E) /\ IsFiniteSet(O)
      /\ Cardinality(S) \in Nat /\ Cardinality(E) \in Nat /\ Cardinality(O) \in Nat
  BY <1>1, FS_Subset, FS_CardinalityType
<1>3. IsFiniteSet(S \union E) /\ Cardinality(S \union E) = Cardinality(S) + Cardinality(E)
  BY <1>1, <1>2, DisjointUnion
<1>4. Cardinality((S \union E) \union O) = Cardinality(S \union E) + Cardinality(O)
  BY <1>1, <1>2, <1>3, DisjointUnion
<1>5. Cardinality(ids) = Cardinality(S) + Cardinality(E) + Cardinality(O)
  BY <1>1, <1>3, <1>4
<1>. QED
  BY <1>5 DEF S, E, O

\* The hourly series of any table adds up to its summary.
LEMMA SeriesOfTable ==
  ASSUME NEW t, NEW y, IsTable(t, y)
  PROVE  LET series == Series(t, y, Day)
             totals == Summary(t, y).totals
         IN  /\ totals.total = totals.successes + totals.errors + totals.timeouts
             /\ totals.total = SumFunction([h \in DOMAIN series |-> series[h].total])
             /\ totals.successes = SumFunction([h \in DOMAIN series |-> series[h].successes])
             /\ Cardinality(DOMAIN series) <= Day + 1
<1>. DEFINE ids == Recent(t, y, Day)
            key == [i \in ids |-> t[i].at \div Hour]
            H == {t[i].at \div Hour : i \in ids}
            At(h) == {i \in ids : t[i].at \div Hour = h}
            ok == With(t, ids, "success")
            series == Series(t, y, Day)
            totals == Summary(t, y).totals
<1>1. Clamped(Day) = Day
  BY TimeAssumption DEF Clamped
<1>2. series = [h \in H |-> Totals(t, At(h))]
  BY <1>1 DEF Series
<1>3. totals = Totals(t, ids)
  BY DEF Summary
<1>4. ids \in SUBSET DOMAIN t /\ IsFiniteSet(ids)
  BY FS_Subset DEF IsTable, Recent
<1>5. ok \in SUBSET ids /\ IsFiniteSet(ok)
  <2>1. ok \in SUBSET ids
    BY DEF With
  <2>. QED
    BY <1>4, <2>1, FS_Subset
<1>6. H \in SUBSET (((y \div Hour) - Day)..(y \div Hour))
  <2>1. ASSUME NEW i \in ids PROVE t[i].at \div Hour \in ((y \div Hour) - Day)..(y \div Hour)
    <3>1. y \in Nat /\ t[i].at \in Nat /\ t[i].at <= y /\ t[i].at > y - Day * Hour
      BY <1>4 DEF IsTable, Recent
    <3>. QED
      BY <3>1, HoursInWindow
  <2>. QED
    BY <2>1
<1>7. IsFiniteSet(H) /\ Cardinality(H) <= Day + 1
  <2>. DEFINE b == y \div Hour
  <2>1. b \in Int /\ Day \in Nat
    BY TimeAssumption DEF IsTable
  <2>. HIDE DEF b
  <2>2. IsFiniteSet((b - Day)..b) /\ Cardinality((b - Day)..b) = Day + 1
    BY <2>1, FS_Interval
  <2>3. H \in SUBSET ((b - Day)..b)
    BY <1>6 DEF b
  <2>. HIDE DEF H
  <2>. QED
    BY <2>2, <2>3, FS_Subset
<1>8. \A i \in ids : key[i] \in H
  OBVIOUS
<1>9. \A h \in H : /\ At(h) = {i \in ids : key[i] = h}
                   /\ With(t, At(h), "success") = {i \in ok : key[i] = h}
  BY DEF With
<1>10. /\ DOMAIN series = H
       /\ \A h \in H : /\ series[h].total = Cardinality({i \in ids : key[i] = h})
                       /\ series[h].successes = Cardinality({i \in ok : key[i] = h})
  <2>1. \A s : /\ Totals(t, s).total = Cardinality(s)
               /\ Totals(t, s).successes = Cardinality(With(t, s, "success"))
    BY DEF Totals
  <2>. HIDE DEF series, ids, key, ok, H, At
  <2>. QED
    BY <1>2, <1>9, <2>1
<1>11. totals.total = Cardinality(ids) /\ totals.successes = Cardinality(ok)
       /\ totals.errors = Cardinality(With(t, ids, "error"))
       /\ totals.timeouts = Cardinality(With(t, ids, "timeout"))
  BY <1>3 DEF Totals
<1>12. totals.total = totals.successes + totals.errors + totals.timeouts
  <2>1. \A i \in ids : t[i].status \in Statuses
    BY <1>4 DEF IsTable
  <2>. QED
    BY <1>4, <1>11, <2>1, StatusesAddUp
<1>. HIDE DEF series, totals, ids, key, H, ok
<1>13. totals.total = SumFunction([h \in DOMAIN series |-> series[h].total])
  <2>1. [h \in DOMAIN series |-> series[h].total]
          = [h \in H |-> Cardinality({i \in ids : key[i] = h})]
    BY <1>10
  <2>2. SumFunction([h \in H |-> Cardinality({i \in ids : key[i] = h})]) = Cardinality(ids)
    BY <1>4, <1>7, <1>8, GroupsAddUp
  <2>. QED
    BY <1>11, <2>1, <2>2
<1>14. totals.successes = SumFunction([h \in DOMAIN series |-> series[h].successes])
  <2>1. [h \in DOMAIN series |-> series[h].successes]
          = [h \in H |-> Cardinality({i \in ok : key[i] = h})]
    BY <1>10
  <2>2. \A i \in ok : key[i] \in H
    BY <1>5, <1>8
  <2>3. SumFunction([h \in H |-> Cardinality({i \in ok : key[i] = h})]) = Cardinality(ok)
    BY <1>5, <1>7, <2>2, GroupsAddUp
  <2>. QED
    BY <1>11, <2>1, <2>3
<1>15. Cardinality(DOMAIN series) <= Day + 1
  BY <1>7, <1>10
<1>. QED
  BY <1>12, <1>13, <1>14, <1>15 DEF series, totals

\* The hourly series of the whole table, and of each agent's rows, adds up to the
\* summary of the same window and is no longer than its hours and one (metrics.js:149,
\* 263), in every state.
THEOREM SeriesHolds == Spec => []SeriesAddsUp
<1>1. TInv => SeriesAddsUp
  <2>. SUFFICES ASSUME TInv,
                       NEW table \in {rows} \union {Of(rows, AgentOf[c]) : c \in Calls}
                PROVE  IsTable(table, now)
    BY SeriesOfTable, Zenon DEF SeriesAddsUp
  <2>1. IsTable(rows, now)
    BY DEF TInv, Kept
  <2>2. ASSUME NEW c \in Calls PROVE IsTable(Of(rows, AgentOf[c]), now)
    <3>1. {j \in DOMAIN rows : rows[j].agent = AgentOf[c]} \in SUBSET DOMAIN rows
      OBVIOUS
    <3>2. IsFiniteSet({j \in DOMAIN rows : rows[j].agent = AgentOf[c]})
      BY <2>1, <3>1, FS_Subset DEF IsTable
    <3>. QED
      BY <2>1, <3>2 DEF IsTable, Of
  <2>. QED
    BY <2>1, <2>2
<1>. QED
  BY <1>1, TableInit, TableStep, PTL DEF Spec
=============================================================================
