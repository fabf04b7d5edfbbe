------------------------ MODULE McpDirectory_proofs ------------------------
(***************************************************************************)
(* Proofs about McpDirectory, for any servers, users, texts and number of  *)
(* PUTs that await their bodies: the audit rows tell what is stored, who   *)
(* was admitted still may, only a body that says so revives a server, and  *)
(* a walk over the pages of the listing tells all that was listed when it  *)
(* began.  A PUT that is not overtaken is audited with the row it changes. *)
(***************************************************************************)
EXTENDS McpDirectory, FiniteSetTheorems, TLAPS

Columns == {"name", "status"}

\* Rows and audit rows have their columns; the row of a PUT is there.
RowsOK == row \in [Servers -> Rows \union {Absent}] /\ DOMAIN owner = Servers
LogOK == DOMAIN logged = Servers /\ \A s \in Servers : DOMAIN logged[s] = Columns
JobsOK ==
  /\ DOMAIN req = Requests
  /\ \A r \in Requests : req[r] = Idle \/ (req[r] \in PutJobs /\ There(req[r].server))
IInv == RowsOK /\ LogOK /\ JobsOK /\ LogTellsState /\ AdmittedStillMay

-----------------------------------------------------------------------------
(* Rows and bodies                                                         *)

\* A body has no other columns, and gives texts and statuses.
LEMMA BodyFacts ==
  ASSUME NEW b \in Accepted
  PROVE  /\ DOMAIN b \subseteq Columns
         /\ "name" \in DOMAIN b => b["name"] \in Texts
         /\ "status" \in DOMAIN b => b["status"] \in Statuses
BY DEF Accepted, Bodies, Columns

\* A function of the two columns is a row.
LEMMA RowIsFunction ==
  /\ \A x : x \in Rows => DOMAIN x = Columns /\ x["name"] \in Texts /\ x["status"] \in Statuses
                          /\ x.status = x["status"]
  /\ DOMAIN Absent = Columns /\ Absent.status = "none"
BY DEF Rows, Absent, Columns

\* What writing a body to a row gives.
LEMMA WrittenIsRow ==
  ASSUME NEW b \in Accepted, NEW old \in Rows
  PROVE  /\ Written(b, old) \in Rows
         /\ Written(b, old).status = IF "status" \in DOMAIN b THEN b["status"] ELSE old.status
<1>1. Written(b, old) = [name |-> IF "name" \in DOMAIN b THEN b["name"] ELSE old["name"],
                         status |-> IF "status" \in DOMAIN b THEN b["status"] ELSE old["status"]]
  BY RowIsFunction DEF Written, Columns
<1>. QED
  BY <1>1, BodyFacts, RowIsFunction DEF Rows

-----------------------------------------------------------------------------
(* The steps                                                               *)

\* Audit rows that tell each column they have, or leave it unknown, go on telling
\* the row if the columns they leave out did not change.
LEMMA LogKeeps ==
  ASSUME LogOK, LogTellsState, NEW s \in Servers, NEW given,
         DOMAIN logged' = Servers,
         \A t \in Servers \ {s} : row'[t] = row[t] /\ logged'[t] = logged[t],
         logged'[s] = Written(given, logged[s]),
         \A c \in Columns : /\ c \in DOMAIN given => given[c] \in {row'[s][c], "unknown"}
                            /\ c \notin DOMAIN given => row'[s][c] = row[s][c]
  PROVE  LogOK' /\ LogTellsState'
<1>1. logged'[s] = [c \in Columns |-> IF c \in DOMAIN given THEN given[c] ELSE logged[s][c]]
  BY DEF Written, LogOK
<1>2. LogOK'
  BY <1>1 DEF LogOK
<1>3. \A c \in Columns : logged[s][c] \in {row[s][c], "unknown"}
  BY DEF LogTellsState, Columns
<1>4. \A c \in Columns : logged'[s][c] \in {row'[s][c], "unknown"}
  BY <1>1, <1>3
<1>. QED
  BY <1>2, <1>4 DEF LogTellsState, Columns

\* An audit row of the columns of after, where the row takes them over.
LEMMA AuditKeeps ==
  ASSUME LogOK, LogTellsState, NEW s \in Servers, NEW after,
         \A t \in Servers \ {s} : row'[t] = row[t],
         Audit(s, after),
         \A c \in Columns : /\ c \in DOMAIN after => after[c] = row'[s][c]
                            /\ c \notin DOMAIN after => row'[s][c] = row[s][c]
  PROVE  LogOK' /\ LogTellsState'
<1>. DEFINE unknown == [c \in DOMAIN after |-> "unknown"]
<1>1. DOMAIN unknown = DOMAIN after /\ \A c \in DOMAIN unknown : unknown[c] = "unknown"
  OBVIOUS
<1>2. \/ logged' = [logged EXCEPT ![s] = Written(after, logged[s])]
      \/ logged' = [logged EXCEPT ![s] = Written(unknown, logged[s])]
  BY DEF Audit
<1>. HIDE DEF unknown
<1>3. DOMAIN logged' = Servers /\ \A t \in Servers \ {s} : logged'[t] = logged[t]
  BY <1>2 DEF LogOK
<1>4. logged'[s] = Written(after, logged[s]) \/ logged'[s] = Written(unknown, logged[s])
  BY <1>2 DEF LogOK
<1>5. CASE logged'[s] = Written(after, logged[s])
  BY <1>3, <1>5, LogKeeps
<1>6. CASE logged'[s] = Written(unknown, logged[s])
  BY <1>1, <1>3, <1>6, LogKeeps
<1>. QED
  BY <1>4, <1>5, <1>6

\* Rows that are there stay, and with their owners.
LEMMA JobsKeep ==
  ASSUME IInv,
         \A s \in Servers : There(s) => There(s)' /\ owner'[s] = owner[s],
         DOMAIN req' = Requests,
         \A r \in Requests : req'[r] = Idle \/ req'[r] = req[r]
  PROVE  JobsOK' /\ AdmittedStillMay'
<1>1. ASSUME NEW r \in Requests, req'[r] # Idle
      PROVE  /\ req'[r] \in PutJobs /\ row'[req'[r].server] # Absent
             /\ req'[r].caller = Admin \/ req'[r].caller = owner'[req'[r].server]
  <2>1. req'[r] = req[r] /\ req[r] \in PutJobs /\ There(req[r].server)
        /\ Permitted(req[r].caller, req[r].server) /\ req[r].server \in Servers
    BY <1>1 DEF IInv, JobsOK, AdmittedStillMay, PutJobs
  <2>. QED
    BY <2>1 DEF Permitted, There
<1>. QED
  BY <1>1 DEF JobsOK, AdmittedStillMay, There, Permitted

LEMMA PostKeeps ==
  ASSUME IInv, NEW s \in Servers, NEW poster, NEW n \in Texts, PostServer(s, poster, n)
  PROVE  IInv'
<1>. DEFINE new == [name |-> n, status |-> "active"]
<1>1. row' = [row EXCEPT ![s] = new] /\ row'[s] = new
  BY DEF PostServer, IInv, RowsOK
<1>2. new \in Rows /\ DOMAIN new = Columns
  BY DEF Rows, Statuses, Columns
<1>3. Audit(s, new) /\ \A t \in Servers \ {s} : row'[t] = row[t]
  BY <1>1 DEF PostServer, IInv, RowsOK
<1>4. DOMAIN owner' = Servers /\ \A t \in Servers \ {s} : owner'[t] = owner[t]
  BY DEF PostServer, IInv, RowsOK
<1>. HIDE DEF new
<1>5. LogOK' /\ LogTellsState'
  BY <1>1, <1>2, <1>3, AuditKeeps DEF IInv
<1>6. RowsOK'
  BY <1>1, <1>2, <1>4 DEF IInv, RowsOK
<1>7. JobsOK' /\ AdmittedStillMay'
  <2>1. \A t \in Servers : There(t) => There(t)' /\ owner'[t] = owner[t]
    BY <1>1, <1>4 DEF PostServer, There, IInv, RowsOK
  <2>. QED
    BY <2>1, JobsKeep DEF PostServer, IInv, JobsOK
<1>. QED
  BY <1>5, <1>6, <1>7 DEF IInv

LEMMA DeleteKeeps ==
  ASSUME IInv, NEW s \in Servers, NEW caller, DeleteServer(s, caller)
  PROVE  IInv'
<1>. DEFINE new == [row[s] EXCEPT !.status = "inactive"]
            after == [status |-> "inactive"]
<1>1. row' = [row EXCEPT ![s] = new] /\ owner' = owner /\ req' = req /\ Audit(s, after)
  BY DEF DeleteServer
<1>2. row[s] \in Rows
  BY DEF DeleteServer, There, IInv, RowsOK
<1>3. new \in Rows
  BY <1>2 DEF Rows, Statuses
<1>4. new # Absent
  BY NamesAssumption DEF Absent
<1>5. \A c \in Columns : /\ c \in DOMAIN after => after[c] = new[c]
                         /\ c \notin DOMAIN after => new[c] = row[s][c]
  BY <1>2 DEF Rows, Columns
<1>. HIDE DEF new, after
<1>6. LogOK' /\ LogTellsState'
  <2>1. row'[s] = new /\ \A t \in Servers \ {s} : row'[t] = row[t]
    BY <1>1 DEF IInv, RowsOK
  <2>. QED
    BY <1>1, <1>5, <2>1, AuditKeeps DEF IInv
<1>7. RowsOK'
  BY <1>1, <1>3 DEF IInv, RowsOK
<1>8. \A t \in Servers : There(t) => There(t)'
  BY <1>1, <1>3, <1>4 DEF There, IInv, RowsOK
<1>9. JobsOK' /\ AdmittedStillMay'
  BY <1>1, <1>8, JobsKeep DEF IInv, JobsOK
<1>. QED
  BY <1>6, <1>7, <1>9 DEF IInv

LEMMA StartPutKeeps ==
  ASSUME IInv, NEW r \in Requests, NEW s \in Servers, NEW caller \in Users \union {Admin},
         StartPut(r, s, caller)
  PROVE  IInv'
<1>. DEFINE job == [op |-> "put", server |-> s, caller |-> caller, before |-> row[s]]
<1>1. req' = [req EXCEPT ![r] = job] /\ UNCHANGED <<row, owner, logged>>
  BY DEF StartPut
<1>2. row[s] \in Rows
  BY DEF StartPut, There, IInv, RowsOK
<1>3. job \in PutJobs /\ job.server = s /\ job.caller = caller
  BY <1>2 DEF PutJobs
<1>. HIDE DEF job
<1>4. row'[s] # Absent /\ (caller = Admin \/ caller = owner'[s])
  BY <1>1 DEF StartPut, There, Permitted
<1>5. ASSUME NEW q \in Requests, req'[q] # Idle
      PROVE  /\ req'[q] \in PutJobs /\ row'[req'[q].server] # Absent
             /\ req'[q].caller = Admin \/ req'[q].caller = owner'[req'[q].server]
  <2>1. CASE q = r
    BY <1>1, <1>3, <1>4, <2>1 DEF IInv, JobsOK
  <2>2. CASE q # r
    <3>1. req'[q] = req[q]
      BY <1>1, <2>2 DEF IInv, JobsOK
    <3>. QED
      BY <1>1, <1>5, <3>1 DEF IInv, JobsOK, AdmittedStillMay, There, Permitted
  <2>. QED
    BY <2>1, <2>2
<1>6. JobsOK' /\ AdmittedStillMay'
  BY <1>1, <1>5 DEF IInv, JobsOK, AdmittedStillMay, There, Permitted
<1>7. RowsOK' /\ LogOK' /\ LogTellsState'
  BY <1>1 DEF IInv, RowsOK, LogOK, LogTellsState
<1>. QED
  BY <1>6, <1>7 DEF IInv

\* The row that a PUT is about, and what writing the body makes of it.
LEMMA PutFacts ==
  ASSUME IInv, NEW r \in Requests, NEW body \in Accepted, EndPut(r, body)
  PROVE  /\ req[r] # Idle /\ req[r].server \in Servers
         /\ row[req[r].server] \in Rows
         /\ Written(body, row[req[r].server]) \in Rows
         /\ Written(body, row[req[r].server]) # Absent
<1>1. req[r] # Idle
  BY DEF EndPut, Idle
<1>2. req[r].server \in Servers /\ row[req[r].server] \in Rows
  BY <1>1 DEF IInv, JobsOK, PutJobs, There, RowsOK
<1>3. Written(body, row[req[r].server]) \in Rows
  BY <1>2, WrittenIsRow
<1>4. Absent \notin Rows
  BY DEF Absent, Rows, Statuses
<1>. QED
  BY <1>1, <1>2, <1>3, <1>4

LEMMA EndPutKeeps ==
  ASSUME IInv, NEW r \in Requests, NEW body \in Accepted, EndPut(r, body)
  PROVE  IInv'
<1>. DEFINE s == req[r].server
            new == Written(body, row[s])
            unknown == [c \in DOMAIN body |-> "unknown"]
<1>1. s \in Servers /\ row[s] \in Rows /\ new \in Rows /\ new # Absent
  BY PutFacts
<1>2. /\ req' = [req EXCEPT ![r] = Idle] /\ owner' = owner
      /\ \/ row' = [row EXCEPT ![s] = new] /\ Audit(s, row'[s])
         \/ UNCHANGED <<row, logged>>
         \/ /\ row' = [row EXCEPT ![s] = new]
            /\ logged' = [logged EXCEPT ![s] = Written(unknown, logged[s])]
  BY DEF EndPut
<1>3. \A c \in Columns : c \notin DOMAIN body => new[c] = row[s][c]
  BY <1>1, RowIsFunction DEF Written
<1>4. DOMAIN new = Columns
  BY <1>1, RowIsFunction
<1>. HIDE DEF new
<1>5. LogOK' /\ LogTellsState'
  <2>1. CASE row' = [row EXCEPT ![s] = new] /\ Audit(s, row'[s])
    <3>1. row'[s] = new /\ Audit(s, new) /\ \A t \in Servers \ {s} : row'[t] = row[t]
      BY <1>1, <2>1 DEF IInv, RowsOK
    <3>. QED
      BY <1>1, <1>4, <3>1, AuditKeeps DEF IInv
  <2>2. CASE UNCHANGED <<row, logged>>
    BY <2>2 DEF IInv, LogOK, LogTellsState
  <2>3. CASE /\ row' = [row EXCEPT ![s] = new]
             /\ logged' = [logged EXCEPT ![s] = Written(unknown, logged[s])]
    <3>1. \A c \in Columns : /\ c \in DOMAIN unknown => unknown[c] \in {new[c], "unknown"}
                             /\ c \notin DOMAIN unknown => new[c] = row[s][c]
      BY <1>3
    <3>. HIDE DEF unknown
    <3>2. /\ row'[s] = new /\ logged'[s] = Written(unknown, logged[s])
          /\ DOMAIN logged' = Servers
          /\ \A t \in Servers \ {s} : row'[t] = row[t] /\ logged'[t] = logged[t]
      BY <1>1, <2>3 DEF IInv, RowsOK, LogOK
    <3>. QED
      BY <1>1, <3>1, <3>2, LogKeeps DEF IInv
  <2>. QED
    BY <1>2, <2>1, <2>2, <2>3
<1>6. RowsOK'
  BY <1>1, <1>2 DEF IInv, RowsOK
<1>7. \A t \in Servers : There(t) => There(t)'
  BY <1>1, <1>2 DEF There, IInv, RowsOK
<1>8. JobsOK' /\ AdmittedStillMay'
  BY <1>2, <1>7, JobsKeep DEF IInv, JobsOK
<1>. QED
  BY <1>5, <1>6, <1>8 DEF IInv

-----------------------------------------------------------------------------
(* The theorems                                                            *)

\* An empty directory satisfies the invariant.
LEMMA InitHolds == Init => IInv
<1>1. DOMAIN Absent = Columns
  BY RowIsFunction
<1>. QED
  BY <1>1 DEF Init, IInv, RowsOK, LogOK, JobsOK, LogTellsState, AdmittedStillMay

\* Every step keeps it.
LEMMA StepHolds == IInv /\ [Next]_vars => IInv'
<1>. SUFFICES ASSUME IInv, [Next]_vars PROVE IInv'
  OBVIOUS
<1>1. CASE Restart
  <2>1. UNCHANGED <<row, owner, logged>> /\ req' = [r \in Requests |-> Idle]
    BY <1>1 DEF Restart
  <2>2. RowsOK' /\ LogOK' /\ LogTellsState'
    BY <2>1 DEF IInv, RowsOK, LogOK, LogTellsState
  <2>3. JobsOK' /\ AdmittedStillMay'
    BY <2>1 DEF JobsOK, AdmittedStillMay
  <2>. QED
    BY <2>2, <2>3 DEF IInv
<1>2. CASE UNCHANGED <<row, owner, logged, req>>
  BY <1>2 DEF IInv, RowsOK, LogOK, JobsOK, LogTellsState, AdmittedStillMay, There, Permitted
<1>3. ReadPage \/ EndWalk \/ UNCHANGED vars => UNCHANGED <<row, owner, logged, req>>
  BY DEF ReadPage, EndWalk, vars
<1>. QED
  BY <1>1, <1>2, <1>3, PostKeeps, DeleteKeeps, StartPutKeeps, EndPutKeeps DEF Next

\* The audit rows tell what is stored (mcp.js:206, 239), however many PUTs overlap.
THEOREM LogTells == Spec => []LogTellsState
<1>1. IInv => LogTellsState
  BY DEF IInv
<1>. QED
  BY <1>1, InitHolds, StepHolds, PTL DEF Spec

\* A PUT is decided on a row that was read before its body came (mcp.js:168); who
\* was admitted by it still may change the row: owners never change.
THEOREM AdmittedMay == Spec => []AdmittedStillMay
<1>1. IInv => AdmittedStillMay
  BY DEF IInv
<1>. QED
  BY <1>1, InitHolds, StepHolds, PTL DEF Spec

\* A deleted server comes back only by a PUT that says so (mcp.js:188).
THEOREM RevivedByBody == Spec => RevivedOnRequest
<1>1. IInv /\ [Next]_vars =>
        [\A s \in Servers :
           row[s].status = "inactive" /\ row'[s].status # "inactive" =>
             \E r \in Requests :
               /\ req[r] # Idle /\ req[r].server = s
               /\ \E b \in Accepted : EndPut(r, b)
               /\ \A b \in Accepted : EndPut(r, b) => "status" \in DOMAIN b]_vars
  <2>. SUFFICES ASSUME IInv, [Next]_vars, NEW s \in Servers,
                       row[s].status = "inactive", row'[s].status # "inactive"
                PROVE  \E r \in Requests :
                         /\ req[r] # Idle /\ req[r].server = s
                         /\ \E b \in Accepted : EndPut(r, b)
                         /\ \A b \in Accepted : EndPut(r, b) => "status" \in DOMAIN b
    OBVIOUS
  <2>0. row' # row /\ row[s] \in Rows
    BY RowIsFunction DEF IInv, RowsOK
  <2>1. ASSUME NEW t \in Servers, NEW p, NEW n, PostServer(t, p, n) PROVE FALSE
    BY <2>0, <2>1, RowIsFunction DEF PostServer, There, IInv, RowsOK
  <2>2. ASSUME NEW t \in Servers, NEW caller, DeleteServer(t, caller) PROVE FALSE
    BY <2>0, <2>2 DEF DeleteServer, IInv, RowsOK, Rows
  <2>3. ASSUME NEW r \in Requests, NEW b \in Accepted, EndPut(r, b)
        PROVE  req[r] # Idle /\ req[r].server = s /\ "status" \in DOMAIN b
    <3>1. row' = [row EXCEPT ![req[r].server] = Written(b, row[req[r].server])]
      BY <2>0, <2>3 DEF EndPut
    <3>2. req[r] # Idle /\ req[r].server = s
      BY <2>0, <2>3, <3>1, PutFacts DEF IInv, RowsOK
    <3>3. row'[s] = Written(b, row[s])
      BY <3>1, <3>2 DEF IInv, RowsOK
    <3>. QED
      BY <2>0, <3>2, <3>3, WrittenIsRow
  <2>4. PICK r \in Requests : \E b \in Accepted : EndPut(r, b)
    BY <2>0, <2>1, <2>2 DEF Next, vars, StartPut, ReadPage, EndWalk, Restart
  <2>. QED
    BY <2>3, <2>4
<1>. QED
  BY <1>1, InitHolds, StepHolds, PTL DEF Spec, RevivedOnRequest

-----------------------------------------------------------------------------
(* Walks over the pages                                                    *)

\* The listing orders the servers that are there.
ListingOK ==
  /\ listing \in Seq(Servers)
  /\ \A i, j \in DOMAIN listing : listing[i] = listing[j] => i = j
  /\ \A s \in Servers : There(s) <=> \E i \in DOMAIN listing : listing[i] = s

\* What a walk that nobody left under has not been told yet is on a later page;
\* once it is done nothing is left.
AheadOfWalk ==
  ~walk.departed =>
    /\ \A s \in walk.start \ walk.seen :
         s \in Listed /\ Offset(s) >= walk.page * PageSize
    /\ walk.done => walk.start \subseteq walk.seen
Walks ==
  [page : Nat, start : SUBSET Servers, seen : SUBSET Servers,
   departed : BOOLEAN, done : BOOLEAN]
WalkOK == walk \in Walks /\ AheadOfWalk

\* What a sequence followed by another holds.
LEMMA ConcatFacts ==
  ASSUME NEW S, NEW front \in Seq(S), NEW tail \in Seq(S)
  PROVE  /\ front \o tail \in Seq(S) /\ Len(front \o tail) = Len(front) + Len(tail)
         /\ \A i \in 1..Len(front) : (front \o tail)[i] = front[i]
         /\ \A i \in 1..Len(tail) : (front \o tail)[Len(front) + i] = tail[i]
OBVIOUS

\* Where InsertAt puts the new element, and where it moves the others.
LEMMA InsertFacts ==
  ASSUME NEW l \in Seq(Servers), NEW x \in Servers, NEW k \in 1..(Len(l) + 1)
  PROVE  /\ InsertAt(l, k, x) \in Seq(Servers)
         /\ Len(InsertAt(l, k, x)) = Len(l) + 1
         /\ InsertAt(l, k, x)[k] = x
         /\ \A i \in 1..Len(l) : InsertAt(l, k, x)[IF i < k THEN i ELSE i + 1] = l[i]
<1>. DEFINE head == SubSeq(l, 1, k - 1)
            tail == SubSeq(l, k, Len(l))
            front == head \o <<x>>
            n == front \o tail
<1>1. /\ head \in Seq(Servers) /\ Len(head) = k - 1
      /\ \A i \in 1..(k - 1) : head[i] = l[i]
  OBVIOUS
<1>2. /\ tail \in Seq(Servers) /\ Len(tail) = Len(l) - k + 1
      /\ \A i \in 1..(Len(l) - k + 1) : tail[i] = l[k + i - 1]
  OBVIOUS
<1>3. InsertAt(l, k, x) = n
  BY DEF InsertAt
<1>. HIDE DEF head, tail
<1>4. /\ front \in Seq(Servers) /\ Len(front) = k /\ front[k] = x
      /\ \A i \in 1..(k - 1) : front[i] = l[i]
  BY <1>1
<1>. HIDE DEF front
<1>5. /\ n \in Seq(Servers) /\ Len(n) = Len(l) + 1
      /\ \A i \in 1..k : n[i] = front[i]
      /\ \A i \in 1..Len(tail) : n[k + i] = tail[i]
  BY <1>2, <1>4, ConcatFacts
<1>. HIDE DEF n
<1>6. ASSUME NEW i \in k..Len(l) PROVE n[i + 1] = l[i]
  <2>1. i - k + 1 \in 1..Len(tail) /\ k + (i - k + 1) = i + 1 /\ k + (i - k + 1) - 1 = i
    BY <1>2
  <2>. QED
    BY <1>2, <1>5, <2>1
<1>7. n[k] = x /\ \A i \in 1..(k - 1) : n[i] = l[i]
  BY <1>4, <1>5
<1>8. \A i \in 1..Len(l) : n[IF i < k THEN i ELSE i + 1] = l[i]
  BY <1>6, <1>7
<1>. QED
  BY <1>3, <1>5, <1>7, <1>8

\* A sequence has finitely many elements.
LEMMA FiniteRange ==
  ASSUME NEW S, NEW l \in Seq(S)
  PROVE  IsFiniteSet({l[i] : i \in DOMAIN l})
<1>. DEFINE n == Len(l)
            names == {l[i] : i \in 1..n}
            place == [i \in 1..n |-> l[i]]
<1>1. n \in Nat /\ DOMAIN l = 1..n
  OBVIOUS
<1>2. place \in Surjection(1..n, names)
  BY DEF Surjection
<1>3. IsFiniteSet(1..n)
  BY <1>1, FS_Interval
<1>. QED
  BY <1>1, <1>2, <1>3, FS_Surjection

\* The listed servers are finitely many, now and after a step.
LEMMA ListedFinite ==
  /\ ListingOK /\ RowsOK => IsFiniteSet(Listed)
  /\ ListingOK' /\ RowsOK' => IsFiniteSet(Listed')
<1>1. ASSUME ListingOK, RowsOK PROVE IsFiniteSet(Listed)
  <2>. DEFINE names == {listing[i] : i \in DOMAIN listing}
  <2>1. Listed \in SUBSET names
    BY <1>1, RowIsFunction DEF Listed, There, ListingOK
  <2>2. IsFiniteSet(names)
    BY <1>1, FiniteRange DEF ListingOK
  <2>. QED
    BY <2>1, <2>2, FS_Subset
<1>2. ASSUME ListingOK', RowsOK' PROVE IsFiniteSet(Listed')
  <2>. DEFINE names == {listing'[i] : i \in DOMAIN listing'}
  <2>1. Listed' \in SUBSET names
    BY <1>2, RowIsFunction DEF Listed, There, ListingOK
  <2>2. IsFiniteSet(names)
    BY <1>2, FiniteRange DEF ListingOK
  <2>. QED
    BY <2>1, <2>2, FS_Subset
<1>. QED
  BY <1>1, <1>2

\* Each listed server has fewer before it than there are.
LEMMA OffsetFacts ==
  ASSUME ListingOK, RowsOK
  PROVE  /\ Cardinality(Listed) \in Nat
         /\ \A s \in Listed : Offset(s) \in Nat /\ Offset(s) < Cardinality(Listed)
<1>1. IsFiniteSet(Listed) /\ Cardinality(Listed) \in Nat
  BY ListedFinite, FS_CardinalityType
<1>2. ASSUME NEW s \in Listed
      PROVE  Offset(s) \in Nat /\ Offset(s) < Cardinality(Listed)
  <2>. DEFINE before == {t \in Listed : Before(t, s)}
  <2>1. s \notin before
    BY DEF Before, ListingOK
  <2>2. before \in SUBSET Listed /\ before # Listed
    BY <2>1
  <2>3. /\ IsFiniteSet(before) /\ Cardinality(before) <= Cardinality(Listed)
        /\ Cardinality(before) # Cardinality(Listed)
    BY <1>1, <2>2, FS_Subset
  <2>4. Cardinality(before) \in Nat
    BY <2>3, FS_CardinalityType
  <2>. QED
    BY <1>1, <2>3, <2>4 DEF Offset
<1>. QED
  BY <1>1, <1>2

\* Where nobody leaves and the order stays, no offset shrinks.
LEMMA OffsetsGrow ==
  ASSUME ListingOK, ListingOK', RowsOK, RowsOK', Listed \subseteq Listed',
         \A s, t \in Servers : Before(t, s) => Before(t, s)'
  PROVE  \A s \in Listed :
           Offset(s)' >= Offset(s) /\ Offset(s) \in Nat /\ Offset(s)' \in Nat
<1>. SUFFICES ASSUME NEW s \in Listed
              PROVE  Offset(s)' >= Offset(s) /\ Offset(s) \in Nat /\ Offset(s)' \in Nat
  OBVIOUS
<1>. DEFINE before == {t \in Listed : Before(t, s)}
            after == {t \in Listed' : Before(t, s)'}
<1>1. before \in SUBSET after
  BY DEF Listed
<1>2. IsFiniteSet(Listed')
  BY ListedFinite
<1>3. after \in SUBSET Listed'
  OBVIOUS
<1>4. IsFiniteSet(after)
  BY <1>2, <1>3, FS_Subset
<1>5. Cardinality(before) <= Cardinality(after)
  BY <1>1, <1>4, FS_Subset
<1>6. Cardinality(before) \in Nat /\ Cardinality(after) \in Nat
  BY <1>1, <1>4, FS_Subset, FS_CardinalityType
<1>. QED
  BY <1>5, <1>6 DEF Offset

\* A walk stays complete under writers that register and revive servers.
LEMMA WriterKeepsWalk ==
  ASSUME ListingOK, ListingOK', RowsOK, RowsOK', WalkOK,
         NEW d \in BOOLEAN, walk' = [walk EXCEPT !.departed = d],
         ~d => ~walk.departed /\ Listed \subseteq Listed',
         \A s, t \in Servers : Before(t, s) => Before(t, s)'
  PROVE  WalkOK'
<1>1. /\ walk'.page = walk.page /\ walk'.start = walk.start
      /\ walk'.seen = walk.seen /\ walk'.done = walk.done /\ walk'.departed = d
      /\ walk' \in Walks
  BY DEF WalkOK, Walks
<1>2. ASSUME ~d, NEW s \in walk.start \ walk.seen
      PROVE  s \in Listed' /\ Offset(s)' >= walk.page * PageSize
  <2>1. s \in Listed /\ s \in Listed' /\ Offset(s) >= walk.page * PageSize
    BY <1>2 DEF WalkOK, AheadOfWalk
  <2>2. Offset(s)' >= Offset(s) /\ Offset(s) \in Nat /\ Offset(s)' \in Nat
    BY <1>2, <2>1, OffsetsGrow
  <2>3. walk.page * PageSize \in Nat
    BY PageSizeAssumption DEF WalkOK, Walks
  <2>. QED
    BY <2>1, <2>2, <2>3
<1>. QED
  BY <1>1, <1>2 DEF WalkOK, AheadOfWalk

\* Reading a page tells every server that is not on a later one.
LEMMA ReadKeepsWalk ==
  ASSUME ListingOK, RowsOK, WalkOK, ReadPage
  PROVE  WalkOK'
<1>. DEFINE p == walk.page
<1>1. /\ p \in Nat /\ walk.seen \subseteq Servers /\ walk.start \subseteq Servers
      /\ walk.departed \in BOOLEAN
  BY DEF WalkOK, Walks
<1>2. /\ walk'.page = p + 1
      /\ walk'.start = IF p = 0 THEN Listed ELSE walk.start
      /\ walk'.seen = walk.seen \union Page(p + 1)
      /\ walk'.departed = (walk.departed /\ p > 0)
      /\ walk'.done = ((p + 1) * PageSize >= Cardinality(Listed))
  BY DEF ReadPage
<1>3. walk' \in Walks
  <2>1. Page(p + 1) \subseteq Servers /\ Listed \subseteq Servers
    BY DEF Page, Listed
  <2>2. ((p + 1) * PageSize >= Cardinality(Listed)) \in BOOLEAN
    BY <1>1
  <2>3. (walk.departed /\ p > 0) \in BOOLEAN
    OBVIOUS
  <2>. QED
    BY <1>1, <2>1, <2>2, <2>3 DEF ReadPage, Walks
<1>. DEFINE low == p * PageSize
            high == (p + 1) * PageSize
<1>4. low \in Nat /\ high \in Nat
  BY <1>1, PageSizeAssumption
<1>5. Page(p + 1) = {s \in Listed : Offset(s) \in low..(high - 1)}
  BY <1>1 DEF Page
<1>6. ASSUME ~walk'.departed, NEW s \in walk'.start \ walk'.seen
      PROVE  s \in Listed /\ Offset(s) >= low
  <2>1. CASE p = 0
    <3>1. s \in Listed /\ low = 0
      BY <1>2, <1>6, <2>1, PageSizeAssumption
    <3>. QED
      BY <3>1, OffsetFacts
  <2>2. CASE p # 0
    BY <1>1, <1>2, <1>6, <2>2 DEF WalkOK, AheadOfWalk
  <2>. QED
    BY <2>1, <2>2
<1>. HIDE DEF low, high
<1>7. ASSUME ~walk'.departed, NEW s \in walk'.start \ walk'.seen
      PROVE  s \in Listed /\ Offset(s) >= high
  <2>1. s \in Listed /\ Offset(s) >= low /\ Offset(s) \in Nat /\ s \notin Page(p + 1)
    BY <1>2, <1>6, <1>7, OffsetFacts
  <2>. QED
    BY <1>4, <1>5, <2>1
<1>8. ASSUME ~walk'.departed, walk'.done, NEW s \in walk'.start \ walk'.seen
      PROVE  FALSE
  <2>1. Offset(s) >= high /\ Offset(s) < Cardinality(Listed) /\ Offset(s) \in Nat
        /\ Cardinality(Listed) \in Nat
    BY <1>7, <1>8, OffsetFacts
  <2>2. high >= Cardinality(Listed)
    BY <1>2, <1>8 DEF high
  <2>. QED
    BY <1>4, <2>1, <2>2
<1>9. UNCHANGED <<row, listing>>
  BY DEF ReadPage
<1>10. \A s : s \in Listed' <=> s \in Listed
  BY <1>9 DEF Listed
<1>11. \A s \in Servers : Offset(s)' = Offset(s)
  BY <1>9 DEF Offset, Listed, Before
<1>12. ASSUME ~walk'.departed, NEW s \in walk'.start \ walk'.seen
       PROVE  s \in Listed' /\ Offset(s)' >= walk'.page * PageSize
  <2>1. s \in Servers
    BY <1>7, <1>12 DEF Listed
  <2>. QED
    BY <1>2, <1>7, <1>10, <1>11, <1>12, <2>1 DEF high
<1>. QED
  BY <1>3, <1>8, <1>12 DEF WalkOK, AheadOfWalk

\* A registration keeps the others in their order.
LEMMA PostKeepsListing ==
  ASSUME RowsOK, ListingOK, NEW s \in Servers, NEW poster, NEW n \in Texts,
         PostServer(s, poster, n)
  PROVE  /\ ListingOK'
         /\ Listed \subseteq Listed'
         /\ \A u, t \in Servers : Before(t, u) => Before(t, u)'
<1>1. PICK k \in 1..(Len(listing) + 1) : listing' = InsertAt(listing, k, s)
  BY DEF PostServer, Inserted
<1>2. listing \in Seq(Servers) /\ Len(listing) \in Nat /\ DOMAIN listing = 1..Len(listing)
  BY DEF ListingOK
<1>3. /\ listing' \in Seq(Servers) /\ Len(listing') = Len(listing) + 1
      /\ listing'[k] = s
      /\ \A i \in 1..Len(listing) : listing'[IF i < k THEN i ELSE i + 1] = listing[i]
  <2>. DEFINE l == listing
              new == InsertAt(l, k, s)
  <2>1. l \in Seq(Servers) /\ k \in 1..(Len(l) + 1)
    BY <1>2
  <2>. HIDE DEF l
  <2>2. /\ new \in Seq(Servers) /\ Len(new) = Len(l) + 1
        /\ new[k] = s
        /\ \A i \in 1..Len(l) : new[IF i < k THEN i ELSE i + 1] = l[i]
    BY <2>1, InsertFacts, Zenon
  <2>. HIDE DEF new
  <2>3. listing' = new
    BY <1>1 DEF new, l
  <2>. QED
    BY <2>2, <2>3 DEF l
<1>4. DOMAIN listing' = 1..(Len(listing) + 1)
  BY <1>3
<1>. DEFINE to(i) == IF i < k THEN i ELSE i + 1
            from(j) == IF j < k THEN j ELSE j - 1
<1>5. \A i \in DOMAIN listing : to(i) \in DOMAIN listing' /\ listing'[to(i)] = listing[i]
  BY <1>2, <1>3, <1>4
<1>6. \A j \in DOMAIN listing' :
        j = k \/ (from(j) \in DOMAIN listing /\ listing'[j] = listing[from(j)] /\ to(from(j)) = j)
  <2>1. \A j \in DOMAIN listing' : j # k => from(j) \in DOMAIN listing /\ to(from(j)) = j
    BY <1>2, <1>4
  <2>. QED
    BY <1>5, <2>1
<1>7. \A i, j \in DOMAIN listing : i < j => to(i) < to(j)
  BY <1>2
<1>. HIDE DEF to, from
<1>8. /\ row' = [row EXCEPT ![s] = [name |-> n, status |-> "active"]] /\ ~There(s)
      /\ row'[s].status = "active"
  BY DEF PostServer, RowsOK
<1>9. /\ There(s)' /\ \A t \in Servers \ {s} : There(t)' <=> There(t)
  BY <1>8, RowIsFunction DEF There, RowsOK
<1>10. \A i \in DOMAIN listing : listing[i] \in Servers /\ There(listing[i]) /\ listing[i] # s
  BY <1>2, <1>8 DEF ListingOK
<1>11. ListingOK'
  <2>1. \A i, j \in DOMAIN listing' : listing'[i] = listing'[j] => i = j
    BY <1>3, <1>6, <1>10 DEF ListingOK
  <2>2. \A t \in Servers : There(t)' <=> \E i \in DOMAIN listing' : listing'[i] = t
    <3>1. k \in DOMAIN listing'
      BY <1>2, <1>4
    <3>2. ASSUME NEW t \in Servers \ {s}
          PROVE  There(t) <=> \E i \in DOMAIN listing' : listing'[i] = t
      BY <1>3, <1>5, <1>6 DEF ListingOK
    <3>. QED
      BY <1>3, <1>9, <3>1, <3>2
  <2>. QED
    BY <1>3, <2>1, <2>2 DEF ListingOK
<1>12. Listed \subseteq Listed'
  <2>1. \A t \in Servers \ {s} : row'[t] = row[t]
    BY <1>8 DEF RowsOK
  <2>. QED
    BY <1>8, <2>1 DEF Listed
<1>13. \A u, t \in Servers : Before(t, u) => Before(t, u)'
  BY <1>5, <1>7 DEF Before
<1>. QED
  BY <1>11, <1>12, <1>13

\* So does a change of rows that are there, unless one leaves the list.
LEMMA ChangeKeepsListing ==
  ASSUME RowsOK, RowsOK', ListingOK, listing' = listing, Departures, WalkOK,
         \A s \in Servers : There(s)' <=> There(s)
  PROVE  WalkOK' /\ ListingOK'
<1>1. ListingOK'
  BY DEF ListingOK
<1>2. \A s, t \in Servers : Before(t, s) => Before(t, s)'
  BY DEF Before
<1>. DEFINE d == walk.departed \/ \E s \in Servers : row[s].status = "active"
                                                    /\ row'[s].status = "inactive"
<1>3. walk' = [walk EXCEPT !.departed = d]
  BY DEF Departures
<1>4. d \in BOOLEAN
  BY DEF WalkOK, Walks
<1>5. ASSUME ~d PROVE ~walk.departed /\ Listed \subseteq Listed'
  <2>1. ASSUME NEW s \in Listed PROVE row'[s].status = "active"
    <3>1. s \in Servers /\ row[s].status = "active" /\ There(s)
      BY RowIsFunction DEF Listed, There
    <3>2. row'[s] \in Rows
      BY <3>1 DEF RowsOK, There
    <3>. QED
      BY <1>5, <3>1, <3>2 DEF Rows, Statuses
  <2>. QED
    BY <1>5, <2>1 DEF Listed
<1>. HIDE DEF d
<1>. QED
  BY <1>1, <1>2, <1>3, <1>4, <1>5, WriterKeepsWalk

WInv == IInv /\ ListingOK /\ WalkOK

LEMMA InitWalk == Init => WInv
<1>. SUFFICES ASSUME Init PROVE WInv
  OBVIOUS
<1>1. ListingOK
  BY DEF Init, ListingOK, There
<1>2. WalkOK
  BY DEF Init, NoWalk, WalkOK, Walks, AheadOfWalk
<1>. QED
  BY <1>1, <1>2, InitHolds DEF WInv

LEMMA StepWalk == WInv /\ [Next]_vars => WInv'
<1>. SUFFICES ASSUME WInv, [Next]_vars PROVE WInv'
  OBVIOUS
<1>1. IInv /\ IInv' /\ RowsOK /\ RowsOK' /\ ListingOK /\ WalkOK
  BY StepHolds DEF WInv, IInv
<1>2. ASSUME NEW s \in Servers, NEW poster, NEW n \in Texts, PostServer(s, poster, n)
      PROVE  ListingOK' /\ WalkOK'
  <2>1. walk' = [walk EXCEPT !.departed = walk.departed] /\ walk.departed \in BOOLEAN
    BY <1>1, <1>2 DEF PostServer, WalkOK, Walks
  <2>. QED
    BY <1>1, <1>2, <2>1, PostKeepsListing, WriterKeepsWalk
<1>3. ASSUME NEW s \in Servers, NEW caller, DeleteServer(s, caller)
      PROVE  ListingOK' /\ WalkOK'
  <2>1. row[s] \in Rows /\ row' = [row EXCEPT ![s].status = "inactive"]
    BY <1>1, <1>3 DEF DeleteServer, There, RowsOK
  <2>2. [row[s] EXCEPT !.status = "inactive"] # Absent
    BY <2>1, NamesAssumption, RowIsFunction DEF Rows, Absent
  <2>3. \A t \in Servers : There(t)' <=> There(t)
    BY <1>1, <1>3, <2>1, <2>2 DEF DeleteServer, There, RowsOK
  <2>. QED
    BY <1>1, <1>3, <2>3, ChangeKeepsListing DEF DeleteServer
<1>4. ASSUME NEW r \in Requests, NEW body \in Accepted, EndPut(r, body)
      PROVE  ListingOK' /\ WalkOK'
  <2>1. /\ req[r].server \in Servers /\ row[req[r].server] # Absent
        /\ Written(body, row[req[r].server]) # Absent
        /\ row' = row \/ row' = [row EXCEPT ![req[r].server] = Written(body, @)]
        /\ listing' = listing /\ Departures
    <3>1. Absent \notin Rows
      BY DEF Absent, Rows, Statuses
    <3>. QED
      BY <1>1, <1>4, <3>1, PutFacts DEF EndPut
  <2>2. \A t \in Servers : There(t)' <=> There(t)
    BY <1>1, <2>1 DEF There, RowsOK
  <2>. QED
    BY <1>1, <2>1, <2>2, ChangeKeepsListing
<1>5. CASE ReadPage
  <2>1. WalkOK'
    BY <1>1, <1>5, ReadKeepsWalk
  <2>2. ListingOK'
    BY <1>1, <1>5 DEF ReadPage, ListingOK, There
  <2>. QED
    BY <1>1, <2>1, <2>2 DEF WInv
<1>6. CASE EndWalk
  <2>1. walk' = NoWalk /\ UNCHANGED <<row, listing>>
    BY <1>6 DEF EndWalk
  <2>2. WalkOK'
    BY <2>1 DEF NoWalk, WalkOK, Walks, AheadOfWalk
  <2>3. ListingOK'
    BY <1>1, <2>1 DEF ListingOK, There
  <2>. QED
    BY <1>1, <2>2, <2>3 DEF WInv
<1>7. ASSUME UNCHANGED <<row, listing, walk>> PROVE ListingOK' /\ WalkOK'
  <2>1. \A s, t \in Servers : Before(t, s) => Before(t, s)'
    BY <1>7 DEF Before
  <2>2. /\ walk' = [walk EXCEPT !.departed = walk.departed] /\ walk.departed \in BOOLEAN
        /\ Listed \subseteq Listed'
    BY <1>1, <1>7 DEF WalkOK, Walks, Listed
  <2>3. ListingOK'
    BY <1>1, <1>7 DEF ListingOK, There
  <2>. QED
    BY <1>1, <2>1, <2>2, <2>3, WriterKeepsWalk
<1>8. ASSUME NEW r \in Requests, NEW s \in Servers, NEW caller, StartPut(r, s, caller)
      PROVE  UNCHANGED <<row, listing, walk>>
  BY <1>8 DEF StartPut
<1>9. Restart \/ UNCHANGED vars => UNCHANGED <<row, listing, walk>>
  BY DEF Restart, vars
<1>. QED
  BY <1>1, <1>2, <1>3, <1>4, <1>5, <1>6, <1>7, <1>8, <1>9 DEF Next, WInv

\* A client that walks the pages is told every server that was listed when it
\* began, for any page size and any number of registrations, renamings and
\* revivals between its requests, as long as none leaves the list: an offset
\* only grows then, and a page tells all offsets that later ones do not (mcp.js:75).
THEOREM WalkComplete == Spec => []WalkIsComplete
<1>1. WInv => WalkIsComplete
  BY DEF WInv, WalkOK, AheadOfWalk, WalkIsComplete
<1>. QED
  BY <1>1, InitWalk, StepWalk, PTL DEF Spec

\* No step takes a server from the listing; none was taken since the walk began.
NoneLeaves == \A s \in Servers : row[s].status = "active" => row'[s].status = "active"
NoneLeft == ~walk.departed

\* As long as no server leaves the listing at all, a walk tells all of them: that
\* one leaves is all that WalkNeverSkips fails for (mcp.js:75).
THEOREM WalksSkipNothing == Spec /\ [][NoneLeaves]_vars => []WalkNeverSkips
<1>1. Init => NoneLeft
  BY DEF Init, NoWalk, NoneLeft
<1>2. WInv /\ NoneLeft /\ [Next]_vars /\ [NoneLeaves]_vars => NoneLeft'
  <2>. SUFFICES ASSUME WInv, ~walk.departed, [Next]_vars, [NoneLeaves]_vars
                PROVE  ~walk'.departed
    BY DEF NoneLeft
  <2>1. walk \in Walks
    BY DEF WInv, WalkOK
  <2>2. CASE Departures
    <3>1. NoneLeaves \/ row' = row
      BY DEF vars
    <3>2. ~ \E s \in Servers : row[s].status = "active" /\ row'[s].status = "inactive"
      BY <3>1 DEF NoneLeaves
    <3>. QED
      BY <2>1, <2>2, <3>2 DEF Departures, Walks
  <2>3. CASE ReadPage
    BY <2>3 DEF ReadPage
  <2>4. CASE EndWalk
    BY <2>4 DEF EndWalk, NoWalk
  <2>5. CASE UNCHANGED walk
    BY <2>5
  <2>. QED
    BY <2>2, <2>3, <2>4, <2>5 DEF Next, vars, PostServer, StartPut, DeleteServer, EndPut, Restart
<1>3. WInv /\ NoneLeft => WalkNeverSkips
  BY DEF NoneLeft, WInv, WalkOK, AheadOfWalk, WalkNeverSkips
<1>. QED
  BY <1>1, <1>2, <1>3, InitWalk, StepWalk, PTL DEF Spec

-----------------------------------------------------------------------------
(* A PUT that is not overtaken                                             *)

\* While a PUT awaits its body no other request changes its server.
LeftAlone ==
  \A r \in Requests :
    req[r].op = "put" /\ req'[r] = req[r] => row'[req[r].server] = row[req[r].server]
Undisturbed == [][LeftAlone]_vars

\* The audit rows tell all columns, and what a PUT has read is still so.
LogIsRow == \A s \in Servers : logged[s] = row[s]
ReadIsRow == \A r \in Requests : req[r].op = "put" => req[r].before = row[req[r].server]

\* Writing the columns of new that differ from old gives new.
LEMMA WritesRow ==
  ASSUME NEW given, NEW old, NEW new \in Rows, DOMAIN old = Columns,
         \A c \in Columns : /\ c \in DOMAIN given => given[c] = new[c]
                            /\ c \notin DOMAIN given => old[c] = new[c]
  PROVE  Written(given, old) = new
<1>1. Written(given, old) = [name |-> IF "name" \in DOMAIN given THEN given["name"] ELSE old["name"],
                             status |-> IF "status" \in DOMAIN given THEN given["status"] ELSE old["status"]]
  BY DEF Written, Columns
<1>. QED
  BY <1>1 DEF Rows, Columns

\* An audit row that is written tells the columns that changed.
LEMMA AuditIsRow ==
  ASSUME ~StatementsMayFail, IInv, LogIsRow, NEW s \in Servers, NEW after, Audit(s, after),
         row'[s] \in Rows, \A t \in Servers \ {s} : row'[t] = row[t],
         \A c \in Columns : /\ c \in DOMAIN after => after[c] = row'[s][c]
                            /\ c \notin DOMAIN after => row[s][c] = row'[s][c]
  PROVE  LogIsRow'
<1>1. logged' = [logged EXCEPT ![s] = Written(after, logged[s])]
  BY DEF Audit
<1>2. DOMAIN logged = Servers /\ DOMAIN logged[s] = Columns /\ logged[s] = row[s]
  BY DEF IInv, LogOK, LogIsRow
<1>3. Written(after, logged[s]) = row'[s]
  BY <1>2, WritesRow
<1>. QED
  BY <1>1, <1>2, <1>3 DEF LogIsRow

LEMMA StepLogIsRow ==
  ASSUME ~StatementsMayFail, IInv, LogIsRow, [Next]_vars PROVE LogIsRow'
<1>1. ASSUME NEW s \in Servers, NEW p, NEW n \in Texts, PostServer(s, p, n) PROVE LogIsRow'
  <2>1. row'[s] = [name |-> n, status |-> "active"] /\ Audit(s, row'[s])
        /\ \A t \in Servers \ {s} : row'[t] = row[t]
    BY <1>1 DEF PostServer, IInv, RowsOK
  <2>2. row'[s] \in Rows /\ DOMAIN row'[s] = Columns
    BY <2>1 DEF Rows, Statuses, Columns
  <2>. QED
    BY <2>1, <2>2, AuditIsRow
<1>2. ASSUME NEW s \in Servers, NEW caller, DeleteServer(s, caller) PROVE LogIsRow'
  <2>. DEFINE after == [status |-> "inactive"]
              new == [row[s] EXCEPT !.status = "inactive"]
  <2>1. row[s] \in Rows
    BY <1>2 DEF DeleteServer, There, IInv, RowsOK
  <2>2. row'[s] = new /\ Audit(s, after) /\ \A t \in Servers \ {s} : row'[t] = row[t]
    BY <1>2 DEF DeleteServer, IInv, RowsOK
  <2>3. new \in Rows /\ \A c \in Columns : /\ c \in DOMAIN after => after[c] = new[c]
                                           /\ c \notin DOMAIN after => row[s][c] = new[c]
    BY <2>1 DEF Rows, Statuses, Columns
  <2>. HIDE DEF after, new
  <2>. QED
    BY <2>2, <2>3, AuditIsRow
<1>3. ASSUME NEW r \in Requests, NEW b \in Accepted, EndPut(r, b) PROVE LogIsRow'
  <2>. DEFINE s == req[r].server
              new == Written(b, row[s])
  <2>1. s \in Servers /\ row[s] \in Rows /\ new \in Rows
    BY <1>3, PutFacts
  <2>2. CASE UNCHANGED <<row, logged>>
    BY <2>2 DEF LogIsRow
  <2>3. CASE row' = [row EXCEPT ![s] = new] /\ Audit(s, row'[s])
    <3>1. row'[s] = new /\ Audit(s, new) /\ \A t \in Servers \ {s} : row'[t] = row[t]
      BY <2>1, <2>3 DEF IInv, RowsOK
    <3>2. DOMAIN new = Columns
      BY <2>1, RowIsFunction
    <3>. HIDE DEF new, s
    <3>. QED
      BY <2>1, <3>1, <3>2, AuditIsRow
  <2>. QED
    BY <1>3, <2>2, <2>3 DEF EndPut
<1>4. CASE UNCHANGED <<row, logged>>
  BY <1>4 DEF LogIsRow
<1>. QED
  BY <1>1, <1>2, <1>3, <1>4 DEF Next, vars, StartPut, ReadPage, EndWalk, Restart

LEMMA StepReadIsRow == IInv /\ ReadIsRow /\ [Next]_vars /\ [LeftAlone]_vars => ReadIsRow'
<1>. SUFFICES ASSUME IInv, ReadIsRow, [Next]_vars, [LeftAlone]_vars,
                     NEW q \in Requests, req'[q].op = "put"
              PROVE  req'[q].before = row'[req'[q].server]
  BY DEF ReadIsRow
<1>1. ASSUME req'[q] = req[q] PROVE req'[q].before = row'[req'[q].server]
  <2>1. CASE LeftAlone
    BY <1>1, <2>1 DEF LeftAlone, ReadIsRow
  <2>2. CASE UNCHANGED vars
    BY <1>1, <2>2 DEF vars, ReadIsRow
  <2>. QED
    BY <2>1, <2>2
<1>2. Idle.op # "put"
  BY DEF Idle
<1>3. ASSUME NEW r \in Requests, NEW s \in Servers, NEW caller, StartPut(r, s, caller)
      PROVE  req'[q].before = row'[req'[q].server]
  <2>1. CASE q = r
    BY <1>3, <2>1 DEF StartPut, IInv, JobsOK
  <2>2. CASE q # r
    BY <1>1, <1>3, <2>2 DEF StartPut, IInv, JobsOK
  <2>. QED
    BY <2>1, <2>2
<1>4. ASSUME NEW r \in Requests, NEW b \in Accepted, EndPut(r, b) PROVE req'[q] = req[q]
  BY <1>2, <1>4 DEF EndPut, IInv, JobsOK
<1>5. CASE Restart
  BY <1>2, <1>5 DEF Restart
<1>6. CASE UNCHANGED req
  BY <1>1, <1>6
<1>. QED
  BY <1>1, <1>3, <1>4, <1>5, <1>6 DEF Next, vars, PostServer, DeleteServer, ReadPage, EndWalk

\* The audit row of a PUT during whose body nobody else changes the server tells as
\* before what the audit row before it told as after (mcp.js:168 and 206), as long
\* as no statement throws: that another PUT or a DELETE came between, or a throw
\* left out an audit row, is all that BeforeIsLastAfter fails for.
THEOREM BeforesAreLastAfters ==
  ASSUME ~StatementsMayFail
  PROVE  Spec /\ Undisturbed => BeforeIsLastAfter
<1>1. Init => LogIsRow /\ ReadIsRow
  BY DEF Init, LogIsRow, ReadIsRow, Idle
<1>2. IInv /\ LogIsRow /\ [Next]_vars => LogIsRow'
  BY StepLogIsRow
<1>3. IInv /\ LogIsRow /\ ReadIsRow =>
        [\A r \in Requests, b \in Accepted :
           EndPut(r, b) /\ req[r] # Idle => req[r].before = logged[req[r].server]]_vars
  BY PutFacts DEF LogIsRow, ReadIsRow, EndPut
<1>. QED
  BY <1>1, <1>2, <1>3, InitHolds, StepHolds, StepReadIsRow, PTL
     DEF Spec, Undisturbed, BeforeIsLastAfter
=============================================================================
