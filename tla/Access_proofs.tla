---------------------------- MODULE Access_proofs ----------------------------
(***************************************************************************)
(* Proofs about Access, for every set of users, tokens, resources and      *)
(* requests: its variables keep their types, the audit log explains the    *)
(* tokens table, revocation is final, admin scope comes from admins, and   *)
(* live sessions mirror their users, but for those that a handler which    *)
(* failed half way has not revoked.  A PUT that is not overtaken disables  *)
(* the user it says, and ends the user's sessions if nothing throws.       *)
(***************************************************************************)
EXTENDS Access, TLAPS

Jobs == MintJobs \union LoginJobs \union UserJobs \union {Idle}

\* A suspended request holds what its handler read before the await.
LEMMA Suspended ==
  ASSUME TypeOK, NEW r \in Requests
  PROVE  /\ req[r].op = "mint" => req[r].by \in Tokens
         /\ req[r].op = "login" => req[r].user \in Users
         /\ req[r].op = "user" => req[r].by \in Tokens /\ req[r].user \in Users
BY DEF TypeOK, MintJobs, LoginJobs, UserJobs, Idle

\* The scope a session gets is a scope, and admin for admins only.
LEMMA ScopeForRole ==
  /\ \A x : ScopeFor(x) \in Scopes
  /\ \A x : ScopeFor(x) = "admin" => x = "admin"
BY DEF ScopeFor, Scopes

\* A login finds or gives a role.
LEMMA LoginRole ==
  ASSUME TypeOK, NEW u \in Users
  PROVE  /\ RoleAtLogin(u) \in Roles
         /\ role[u] # "none" => RoleAtLogin(u) = role[u]
BY DEF TypeOK, RoleAtLogin, Roles

\* Suspending and answering keep the types of the requests.
LEMMA SuspendType ==
  ASSUME TypeOK, NEW r \in Requests, NEW j \in Jobs, Suspend(r, j)
  PROVE  req' \in [Requests -> Jobs]
BY DEF TypeOK, Suspend, Jobs

LEMMA AnswerType ==
  ASSUME TypeOK, NEW r \in Requests, Answer(r)
  PROVE  req' \in [Requests -> Jobs]
BY DEF TypeOK, Answer, Jobs

\* A new row has one of the scopes, and the holder it is given.
LEMMA InsertType ==
  ASSUME TypeOK, NEW n \in Tokens, NEW s \in Scopes,
         NEW u \in Users \union {NoUser}, Insert(n, s, u)
  PROVE  /\ token' \in [Tokens -> {"absent", "live", "revoked"}]
         /\ scope' \in [Tokens -> Scopes]
         /\ holder' \in [Tokens -> Users \union {NoUser}]
BY DEF TypeOK, Insert

\* What a PUT may write of a user.
LEMMA WriteUserType ==
  ASSUME TypeOK, NEW j \in UserJobs, NEW b \in UserBodies, WriteUser(j, b)
  PROVE  /\ role' \in [Users -> Roles \union {"none"}]
         /\ disabled' \in SUBSET Users
<1>1. j.user \in Users /\ b.role \in Roles \union {"keep"}
    BY DEF UserJobs, UserBodies
<1>2. role' \in [Users -> Roles \union {"none"}]
    BY <1>1 DEF TypeOK, WriteUser, RoleChanged
<1>3. disabled' \in SUBSET Users
    BY <1>1 DEF TypeOK, WriteUser
<1> QED BY <1>2, <1>3

\* Revoking sessions keeps the type of the rows.
LEMMA RevokeType ==
  ASSUME TypeOK, NEW u \in Users, RevokeSessions(u)
  PROVE  token' \in [Tokens -> {"absent", "live", "revoked"}]
BY DEF TypeOK, RevokeSessions

\* A suspended PUT is a PUT.
LEMMA UserJob ==
  ASSUME TypeOK, NEW r \in Requests, req[r].op = "user"
  PROVE  req[r] \in UserJobs
BY DEF TypeOK, MintJobs, LoginJobs, UserJobs, Idle

\* The audit rows that are recorded.
LEMMA RowType ==
  /\ \A t \in Tokens \ {Boot} :
       /\ Row("token.create", t) \in Rows /\ Row("user.login", t) \in Rows
       /\ Row("token.revoke", t) \in Rows /\ Row("user.logout", t) \in Rows
  /\ \A u \in Users : Row("user.update", u) \in Rows
BY DEF Row, Rows

-----------------------------------------------------------------------------
(* Types                                                                   *)

\* One step of each action keeps the types.
LEMMA StepTypeOK == TypeOK /\ [Next]_vars => TypeOK'
<1> SUFFICES ASSUME TypeOK, [Next]_vars PROVE TypeOK'
    OBVIOUS
<1> USE DEF Jobs, rest
<1>1. ASSUME NEW r \in Requests, NEW t \in Tokens, StartMint(r, t)
      PROVE  TypeOK'
  <2>1. [op |-> "mint", by |-> t] \in Jobs
      BY DEF MintJobs
  <2>2. req' \in [Requests -> Jobs]
      BY <1>1, <2>1, SuspendType DEF StartMint
  <2> QED BY <1>1, <2>2 DEF StartMint, TypeOK
<1>2. ASSUME NEW r \in Requests, NEW n \in Tokens, NEW s \in Scopes, EndMint(r, n, s)
      PROVE  TypeOK'
  <2>1. req' \in [Requests -> Jobs] /\ audit' \in SUBSET Rows
      BY <1>2, AnswerType, RowType DEF EndMint, Record, TypeOK
  <2>2. /\ token' \in [Tokens -> {"absent", "live", "revoked"}]
        /\ scope' \in [Tokens -> Scopes]
        /\ holder' \in [Tokens -> Users \union {NoUser}]
      BY <1>2, InsertType DEF EndMint
  <2> QED BY <1>2, <2>1, <2>2 DEF EndMint, TypeOK
<1>3. ASSUME NEW r \in Requests, NEW u \in Users, StartLogin(r, u)
      PROVE  TypeOK'
  <2>1. [op |-> "login", user |-> u] \in Jobs
      BY DEF LoginJobs
  <2>2. req' \in [Requests -> Jobs]
      BY <1>3, <2>1, SuspendType DEF StartLogin
  <2> QED BY <1>3, <2>2 DEF StartLogin, TypeOK
<1>4. ASSUME NEW r \in Requests, NEW n \in Tokens, EndLogin(r, n)
      PROVE  TypeOK'
  <2> DEFINE u == req[r].user
  <2>1. u \in Users
      BY <1>4, Suspended DEF EndLogin
  <2>2. req' \in [Requests -> Jobs] /\ audit' \in SUBSET Rows
      BY <1>4, AnswerType, RowType DEF EndLogin, Record, TypeOK
  <2>3. role' \in [Users -> Roles \union {"none"}]
      BY <1>4, <2>1, LoginRole DEF EndLogin, TypeOK
  <2>4. /\ token' \in [Tokens -> {"absent", "live", "revoked"}]
        /\ scope' \in [Tokens -> Scopes]
        /\ holder' \in [Tokens -> Users \union {NoUser}]
      BY <1>4, <2>1, InsertType, ScopeForRole DEF EndLogin
  <2> QED BY <1>4, <2>2, <2>3, <2>4 DEF EndLogin, TypeOK
<1>5. ASSUME NEW r \in Requests, LoginFails(r)
      PROVE  TypeOK'
  <2>1. req[r].user \in Users
      BY <1>5, Suspended DEF LoginFails
  <2>2. role' \in [Users -> Roles \union {"none"}]
      BY <1>5, <2>1, LoginRole DEF LoginFails, TypeOK
  <2>3. req' \in [Requests -> Jobs]
      BY <1>5, AnswerType DEF LoginFails
  <2> QED BY <1>5, <2>2, <2>3 DEF LoginFails, TypeOK
<1>6. ASSUME NEW r \in Requests, NEW t \in Tokens, NEW u \in Users, StartPutUser(r, t, u)
      PROVE  TypeOK'
  <2> DEFINE j == [op |-> "user", by |-> t, user |-> u, role |-> role[u],
                   disabled |-> u \in disabled]
  <2>1. role[u] \in Roles /\ (u \in disabled) \in BOOLEAN
      BY <1>6 DEF StartPutUser, TypeOK
  <2>2. j \in Jobs
      BY <2>1 DEF UserJobs
  <2>3. req' \in [Requests -> Jobs]
      BY <1>6, <2>2, SuspendType DEF StartPutUser
  <2> QED BY <1>6, <2>3 DEF StartPutUser, TypeOK
<1>7. ASSUME NEW r \in Requests, NEW b \in UserBodies, EndPutUser(r, b)
      PROVE  TypeOK'
  <2>1. req[r] \in UserJobs /\ req[r].user \in Users
      BY <1>7, UserJob, Suspended DEF EndPutUser
  <2>2. role' \in [Users -> Roles \union {"none"}] /\ disabled' \in SUBSET Users
      BY <1>7, <2>1, WriteUserType DEF EndPutUser
  <2>3. token' \in [Tokens -> {"absent", "live", "revoked"}]
      BY <1>7, <2>1, RevokeType DEF EndPutUser, TypeOK
  <2>4. req' \in [Requests -> Jobs] /\ audit' \in SUBSET Rows
      BY <1>7, <2>1, AnswerType, RowType DEF EndPutUser, Record, TypeOK
  <2> QED BY <1>7, <2>2, <2>3, <2>4 DEF EndPutUser, TypeOK
<1>8. ASSUME NEW r \in Requests, NEW b \in UserBodies, PutUserFails(r, b)
      PROVE  TypeOK'
  <2>1. req[r] \in UserJobs
      BY <1>8, UserJob DEF PutUserFails
  <2>2. role' \in [Users -> Roles \union {"none"}] /\ disabled' \in SUBSET Users
      BY <1>8, <2>1, WriteUserType DEF PutUserFails
  <2>3. req' \in [Requests -> Jobs]
      BY <1>8, AnswerType DEF PutUserFails
  <2> QED BY <1>8, <2>2, <2>3 DEF PutUserFails, TypeOK
<1>9. ASSUME NEW r \in Requests, Refuse(r) PROVE TypeOK'
    BY <1>9, AnswerType DEF Refuse, TypeOK
<1>10. ASSUME NEW t \in Tokens, NEW n \in Tokens, Revoke(t, n) PROVE TypeOK'
    BY <1>10, RowType DEF Revoke, Record, TypeOK
<1>11. ASSUME NEW t \in Tokens, Logout(t) \/ LogoutFails(t) PROVE TypeOK'
    BY <1>11, RowType DEF Logout, LogoutFails, Record, TypeOK
<1>12. ASSUME NEW t \in Tokens, NEW x \in Resources, Create(t, x) PROVE TypeOK'
  <2>1. owner' \in [Resources -> Users \union {NoUser, System}]
      BY <1>12 DEF Create, ResolvedUser, TypeOK
  <2>2. author' \in [Resources -> Users \union {NoUser}]
      BY <1>12 DEF Create, TypeOK
  <2> QED BY <1>12, <2>1, <2>2 DEF Create, TypeOK
<1>13. CASE Restart
    BY <1>13, BootAssumption DEF Restart, TypeOK
<1>14. CASE UNCHANGED vars
    BY <1>14 DEF vars, TypeOK
<1> QED
  BY <1>1, <1>2, <1>3, <1>4, <1>5, <1>6, <1>7, <1>8, <1>9, <1>10, <1>11, <1>12,
     <1>13, <1>14 DEF Next

LEMMA InitTypeOK == Init => TypeOK
<1> SUFFICES ASSUME Init PROVE TypeOK
    OBVIOUS
<1>1. /\ role \in [Users -> Roles \union {"none"}]
      /\ disabled \in SUBSET Users
      /\ torn \in SUBSET Tokens
      /\ audit \in SUBSET Rows
    BY DEF Init
<1>2. /\ token \in [Tokens -> {"absent", "live", "revoked"}]
      /\ scope \in [Tokens -> Scopes]
      /\ holder \in [Tokens -> Users \union {NoUser}]
    BY DEF Init, Scopes
<1>3. /\ owner \in [Resources -> Users \union {NoUser, System}]
      /\ author \in [Resources -> Users \union {NoUser}]
      /\ req \in [Requests -> Jobs]
    BY DEF Init, Jobs
<1> QED BY <1>1, <1>2, <1>3 DEF TypeOK, Jobs

\* The rows, the users, the resources and the suspended requests keep their
\* types, whatever a suspended handler read before its await.
THEOREM TypeCorrect == Spec => []TypeOK
BY InitTypeOK, StepTypeOK, PTL DEF Spec

-----------------------------------------------------------------------------
(* The tokens table                                                        *)

\* How a step may change a token's row: it does not, it inserts the row, or
\* it revokes it.  Boot is the exception.
Untouched(t) == token'[t] = token[t] /\ scope'[t] = scope[t] /\ holder'[t] = holder[t]
Inserted(t) == token[t] = "absent" /\ token'[t] = "live"
Ended(t) ==
  token[t] # "absent" /\ token'[t] = "revoked" /\ scope'[t] = scope[t] /\ holder'[t] = holder[t]

\* Why each row changes, with the audit rows kept and added.
LEMMA RowChanges ==
  ASSUME TypeOK, [Next]_vars, NEW t \in Tokens \ {Boot}
  PROVE  /\ audit \subseteq audit'
         /\ \/ Untouched(t)
            \/ /\ Inserted(t)
               /\ \E r \in Requests : \E s \in Scopes :
                    EndMint(r, t, s) \/ EndLogin(r, t)
            \/ /\ Ended(t)
               /\ \/ Row("token.revoke", t) \in audit'
                  \/ Row("user.logout", t) \in audit'
                  \/ holder[t] # NoUser /\ Row("user.update", holder[t]) \in audit'
<1> USE DEF Untouched, Inserted, Ended, TypeOK
<1>1. ASSUME NEW r \in Requests, NEW n \in Tokens, NEW s \in Scopes, EndMint(r, n, s)
      PROVE  /\ audit \subseteq audit'
             /\ Untouched(t) \/ (Inserted(t) /\ t = n)
    BY <1>1 DEF EndMint, Insert, Record
<1>2. ASSUME NEW r \in Requests, NEW n \in Tokens, EndLogin(r, n)
      PROVE  /\ audit \subseteq audit'
             /\ Untouched(t) \/ (Inserted(t) /\ t = n)
    BY <1>2 DEF EndLogin, Insert, Record
<1>3. ASSUME NEW r \in Requests, NEW b \in UserBodies, EndPutUser(r, b)
      PROVE  /\ audit \subseteq audit'
             /\ \/ Untouched(t)
                \/ /\ Ended(t)
                   /\ holder[t] # NoUser /\ Row("user.update", holder[t]) \in audit'
  <2>1. req[r].user \in Users /\ req[r].user # NoUser
      BY <1>3, Suspended, NoUserAssumption DEF EndPutUser
  <2>2. CASE Changes(req[r], b)
      BY <1>3, <2>1, <2>2, RowType DEF EndPutUser, RevokeSessions, Record
  <2>3. CASE ~Changes(req[r], b)
      BY <1>3, <2>3 DEF EndPutUser, Record
  <2> QED BY <2>2, <2>3
<1>4. ASSUME NEW u \in Tokens, NEW n \in Tokens, Revoke(u, n)
      PROVE  /\ audit \subseteq audit'
             /\ \/ Untouched(t)
                \/ Ended(t) /\ Row("token.revoke", t) \in audit'
    BY <1>4, RowType DEF Revoke, Record
<1>5. ASSUME NEW u \in Tokens, Logout(u) \/ LogoutFails(u)
      PROVE  /\ audit \subseteq audit'
             /\ \/ Untouched(t)
                \/ Ended(t) /\ Row("user.logout", t) \in audit'
    BY <1>5, RowType DEF Logout, LogoutFails, Record, Authenticated
<1>6. ASSUME \/ \E r \in Requests :
                  \/ \E u \in Tokens : StartMint(r, u)
                  \/ \E u \in Users : StartLogin(r, u)
                  \/ LoginFails(r)
                  \/ \E u \in Tokens, v \in Users : StartPutUser(r, u, v)
                  \/ \E b \in UserBodies : PutUserFails(r, b)
                  \/ Refuse(r)
             \/ \E u \in Tokens, x \in Resources : Create(u, x)
             \/ Restart
             \/ UNCHANGED vars
      PROVE  audit \subseteq audit' /\ Untouched(t)
    BY <1>6 DEF StartMint, StartLogin, LoginFails, StartPutUser, PutUserFails,
                Refuse, Create, Restart, vars
<1>7. \/ \E r \in Requests, n \in Tokens, s \in Scopes : EndMint(r, n, s)
      \/ \E r \in Requests, n \in Tokens : EndLogin(r, n)
      \/ \E r \in Requests, b \in UserBodies : EndPutUser(r, b)
      \/ \E u \in Tokens, n \in Tokens : Revoke(u, n)
      \/ \E u \in Tokens : Logout(u) \/ LogoutFails(u)
      \/ \E r \in Requests :
           \/ \E u \in Tokens : StartMint(r, u)
           \/ \E u \in Users : StartLogin(r, u)
           \/ LoginFails(r)
           \/ \E u \in Tokens, v \in Users : StartPutUser(r, u, v)
           \/ \E b \in UserBodies : PutUserFails(r, b)
           \/ Refuse(r)
      \/ \E u \in Tokens, x \in Resources : Create(u, x)
      \/ Restart
      \/ UNCHANGED vars
    BY DEF Next
<1>8. "read" \in Scopes
    BY DEF Scopes
<1> HIDE DEF Untouched, Inserted, Ended, TypeOK
<1> QED BY <1>1, <1>2, <1>3, <1>4, <1>5, <1>6, <1>7, <1>8

\* A revoked token stays revoked, and no token changes its scope or its user:
\* verifyToken may trust the row, whatever is in flight (src/auth.js:60).
THEOREM RevokedForGood == Spec => RevocationIsFinal
<1>1. TypeOK /\ [Next]_vars =>
        [\A t \in Tokens \ {Boot} :
           /\ token[t] = "revoked" => token'[t] = "revoked"
           /\ token[t] # "absent" => scope'[t] = scope[t] /\ holder'[t] = holder[t]]_vars
    BY RowChanges DEF Untouched, Inserted, Ended
<1> QED BY <1>1, TypeCorrect, PTL DEF Spec, RevocationIsFinal

\* Every token is explained by the audit log: how it came to be, and why it
\* is revoked (the audit calls of src/routes/auth.js and src/routes/admin.js).
THEOREM TokensExplained == Spec => []AuditExplainsTokens
<1>1. Init => AuditExplainsTokens
    BY DEF Init, AuditExplainsTokens
<1>2. TypeOK /\ AuditExplainsTokens /\ [Next]_vars => AuditExplainsTokens'
  <2> SUFFICES ASSUME TypeOK, AuditExplainsTokens, [Next]_vars,
                      NEW t \in Tokens \ {Boot}
               PROVE  /\ token'[t] # "absent" =>
                           \/ Row("token.create", t) \in audit'
                           \/ Row("user.login", t) \in audit'
                      /\ token'[t] = "revoked" =>
                           \/ Row("token.revoke", t) \in audit'
                           \/ Row("user.logout", t) \in audit'
                           \/ holder'[t] # NoUser /\ Row("user.update", holder'[t]) \in audit'
      BY DEF AuditExplainsTokens
  <2>1. CASE Untouched(t)
      BY <2>1, RowChanges DEF AuditExplainsTokens, Untouched
  <2>2. ASSUME Inserted(t), NEW r \in Requests, NEW s \in Scopes,
               EndMint(r, t, s) \/ EndLogin(r, t)
        PROVE  token'[t] = "live" /\
               (Row("token.create", t) \in audit' \/ Row("user.login", t) \in audit')
      BY <2>2, RowType DEF Inserted, EndMint, EndLogin, Record
  <2>3. CASE Ended(t) /\ \/ Row("token.revoke", t) \in audit'
                         \/ Row("user.logout", t) \in audit'
                         \/ holder[t] # NoUser /\ Row("user.update", holder[t]) \in audit'
      BY <2>3, RowChanges DEF AuditExplainsTokens, Ended
  <2> QED BY <2>1, <2>2, <2>3, RowChanges
<1> QED BY <1>1, <1>2, TypeCorrect, PTL DEF Spec

\* The bootstrap row is there, and a request waiting to mint was admitted with
\* an admin token.
MintersAreAdmins ==
  /\ token[Boot] # "absent"
  /\ \A r \in Requests :
       req[r].op = "mint" => scope[req[r].by] = "admin" /\ token[req[r].by] # "absent"

\* A row in use keeps its scope, the bootstrap one included.
LEMMA ScopeKept ==
  ASSUME TypeOK, [Next]_vars, NEW t \in Tokens, token[t] # "absent"
  PROVE  scope'[t] = scope[t] /\ token'[t] # "absent"
<1>1. CASE t # Boot
    BY <1>1, RowChanges DEF Untouched, Inserted, Ended
<1>2. CASE t = Boot
    BY <1>2 DEF Next, vars, TypeOK, StartMint, EndMint, StartLogin, EndLogin, LoginFails,
                StartPutUser, EndPutUser, PutUserFails, Refuse, Revoke, Logout,
                LogoutFails, Create, Restart, Insert, RevokeSessions
<1> QED BY <1>1, <1>2

\* Which requests wait to mint after a step: those that did, or one that has
\* just been admitted.
LEMMA MintersAfter ==
  ASSUME TypeOK, [Next]_vars, NEW q \in Requests, req'[q].op = "mint"
  PROVE  \/ req'[q] = req[q]
         \/ \E t \in Tokens : StartMint(q, t) /\ req'[q].by = t
<1>1. \A r \in Requests : Answer(r) => req'[q] = Idle \/ req'[q] = req[q]
    BY DEF Answer, TypeOK
<1>2. Idle.op # "mint"
    BY DEF Idle
<1>3. ASSUME NEW r \in Requests, NEW t \in Tokens, StartMint(r, t)
      PROVE  req'[q] = req[q] \/ (StartMint(q, t) /\ req'[q].by = t)
    BY <1>3 DEF StartMint, Suspend, TypeOK
<1>4. ASSUME NEW r \in Requests, NEW u \in Users, StartLogin(r, u)
      PROVE  req'[q] = req[q]
  <2>1. q = r => req'[q].op = "login"
      BY <1>4 DEF StartLogin, Suspend, TypeOK
  <2>2. q # r => req'[q] = req[q]
      BY <1>4 DEF StartLogin, Suspend, TypeOK
  <2> QED BY <2>1, <2>2
<1>5. ASSUME NEW r \in Requests, NEW t \in Tokens, NEW u \in Users, StartPutUser(r, t, u)
      PROVE  req'[q] = req[q]
  <2>1. q = r => req'[q].op = "user"
      BY <1>5 DEF StartPutUser, Suspend, TypeOK
  <2>2. q # r => req'[q] = req[q]
      BY <1>5 DEF StartPutUser, Suspend, TypeOK
  <2> QED BY <2>1, <2>2
<1>6. ASSUME Restart PROVE req'[q] = Idle
    BY <1>6 DEF Restart
<1>7. ASSUME NEW r \in Requests,
             \/ \E n \in Tokens, s \in Scopes : EndMint(r, n, s)
             \/ \E n \in Tokens : EndLogin(r, n)
             \/ LoginFails(r)
             \/ \E b \in UserBodies : EndPutUser(r, b) \/ PutUserFails(r, b)
             \/ Refuse(r)
      PROVE  Answer(r)
    BY <1>7 DEF EndMint, EndLogin, LoginFails, EndPutUser, PutUserFails, Refuse
<1>8. ASSUME \/ \E t, n \in Tokens : Revoke(t, n)
             \/ \E t \in Tokens : Logout(t) \/ LogoutFails(t)
             \/ \E t \in Tokens, x \in Resources : Create(t, x)
             \/ UNCHANGED vars
      PROVE  req' = req
    BY <1>8 DEF Revoke, Logout, LogoutFails, Create, vars
<1> QED
  BY <1>1, <1>2, <1>3, <1>4, <1>5, <1>6, <1>7, <1>8 DEF Next

LEMMA StepMintersAreAdmins ==
  TypeOK /\ MintersAreAdmins /\ [Next]_vars => MintersAreAdmins'
<1> SUFFICES ASSUME TypeOK, MintersAreAdmins, [Next]_vars,
                    NEW q \in Requests, req'[q].op = "mint"
             PROVE  scope'[req'[q].by] = "admin" /\ token'[req'[q].by] # "absent"
    BY ScopeKept, BootAssumption DEF MintersAreAdmins
<1>1. CASE req'[q] = req[q]
    BY <1>1, ScopeKept, Suspended DEF MintersAreAdmins
<1>2. ASSUME NEW t \in Tokens, StartMint(q, t), req'[q].by = t
      PROVE  scope'[req'[q].by] = "admin" /\ token'[req'[q].by] # "absent"
  <2>1. scope[t] \in Scopes /\ Rank[scope[t]] >= Rank["admin"] /\ token[t] = "live"
      BY <1>2 DEF StartMint, Passes, Authenticated, TypeOK
  <2>2. scope[t] = "admin"
      BY <2>1 DEF Scopes, Rank
  <2> QED BY <1>2, <2>1, <2>2, ScopeKept
<1> QED BY <1>1, <1>2, MintersAfter

\* Nobody reaches admin scope but through an admin: the minter of a new admin
\* token was admitted with one, however long its body took to arrive and
\* whatever was revoked since (src/routes/admin.js:18), or its user is an
\* admin (src/routes/auth.js:77).
THEOREM AdminsMakeAdmins == Spec => AdminScopeFromAdmins
<1>1. Init => MintersAreAdmins
    BY BootAssumption DEF Init, MintersAreAdmins, Idle
<1>2. TypeOK /\ MintersAreAdmins /\ [Next]_vars =>
        [\A t \in Tokens :
           token[t] = "absent" /\ token'[t] = "live" /\ scope'[t] = "admin" =>
             \/ \E r \in Requests : req[r].op = "mint" /\ scope[req[r].by] = "admin"
             \/ holder'[t] # NoUser /\ role'[holder'[t]] = "admin"]_vars
  <2> SUFFICES ASSUME TypeOK, MintersAreAdmins, [Next]_vars, NEW t \in Tokens,
                      token[t] = "absent", token'[t] = "live", scope'[t] = "admin"
               PROVE  \/ \E r \in Requests : req[r].op = "mint" /\ scope[req[r].by] = "admin"
                      \/ holder'[t] # NoUser /\ role'[holder'[t]] = "admin"
      OBVIOUS
  <2>1. CASE t # Boot
    <3>1. PICK r \in Requests, s \in Scopes : EndMint(r, t, s) \/ EndLogin(r, t)
        BY <2>1, RowChanges DEF Untouched, Ended
    <3>2. CASE EndMint(r, t, s)
        BY <3>2 DEF EndMint, MintersAreAdmins
    <3>3. CASE EndLogin(r, t)
      <4> DEFINE u == req[r].user
      <4>1. u \in Users /\ u # NoUser
          BY <3>3, Suspended, NoUserAssumption DEF EndLogin
      <4>2. holder'[t] = u /\ scope'[t] = ScopeFor(RoleAtLogin(u)) /\ role'[u] = RoleAtLogin(u)
          BY <3>3, <4>1 DEF EndLogin, Insert, TypeOK
      <4> QED BY <4>1, <4>2, ScopeForRole
    <3> QED BY <3>1, <3>2, <3>3
  <2>2. CASE t = Boot
      BY <2>2 DEF MintersAreAdmins
  <2> QED BY <2>1, <2>2
<1> QED BY <1>1, <1>2, StepMintersAreAdmins, TypeCorrect, PTL DEF Spec, AdminScopeFromAdmins

-----------------------------------------------------------------------------
(* Sessions                                                                *)

\* The user of a session has a row: without it a login could give a role to a
\* user whose sessions were minted under none.  The row that boot makes live
\* again belongs to no user.
HoldersExist ==
  /\ holder[Boot] = NoUser
  /\ \A t \in Tokens : holder[t] # NoUser => role[holder[t]] # "none"

SessionInv == HoldersExist /\ SessionsMirrorUsers

\* A PUT that changes nothing writes nothing.
LEMMA NothingWritten ==
  ASSUME NEW j, NEW b, WriteUser(j, b), ~Changes(j, b)
  PROVE  role' = role /\ disabled' = disabled
BY DEF WriteUser, Changes

\* A PUT writes the row of one user, and leaves it a row.
LEMMA OneUserWritten ==
  ASSUME TypeOK, NEW j \in UserJobs, NEW b \in UserBodies, WriteUser(j, b)
  PROVE  /\ \A u \in Users \ {j.user} :
              role'[u] = role[u] /\ (u \in disabled' <=> u \in disabled)
         /\ \A u \in Users : role[u] # "none" => role'[u] # "none"
<1>1. j.user \in Users /\ b.role \in Roles \union {"keep"}
    BY DEF UserJobs, UserBodies
<1>2. \A u \in Users \ {j.user} : role'[u] = role[u]
    BY <1>1 DEF WriteUser, TypeOK
<1>3. \A u \in Users \ {j.user} : u \in disabled' <=> u \in disabled
    BY <1>1 DEF WriteUser
<1>4. \A u \in Users : role[u] # "none" => role'[u] # "none"
    BY <1>1 DEF WriteUser, RoleChanged, Roles, TypeOK
<1> QED BY <1>2, <1>3, <1>4

\* Ending a login keeps the invariant: the role a new session is minted for
\* is the one the user has.
LEMMA LoginKeepsSessions ==
  ASSUME TypeOK, SessionInv, NEW r \in Requests, NEW n \in Tokens, EndLogin(r, n)
  PROVE  SessionInv'
<1> DEFINE u == req[r].user
<1>1. /\ u \in Users /\ u # NoUser /\ u \notin disabled
      /\ disabled' = disabled /\ torn' = torn
    BY Suspended, NoUserAssumption DEF EndLogin, rest
<1>2. /\ role'[u] = RoleAtLogin(u) /\ RoleAtLogin(u) # "none"
      /\ \A v \in Users : role[v] # "none" => role'[v] = role[v]
    BY <1>1, LoginRole DEF EndLogin, TypeOK, Roles
<1>3. ASSUME NEW t \in Tokens \ {n}
      PROVE  token'[t] = token[t] /\ scope'[t] = scope[t] /\ holder'[t] = holder[t]
    BY DEF EndLogin, Insert, TypeOK
<1>4. holder'[n] = u /\ scope'[n] = ScopeFor(RoleAtLogin(u))
    BY DEF EndLogin, Insert, TypeOK
<1>5. ASSUME NEW t \in Tokens, holder'[t] # NoUser
      PROVE  /\ role'[holder'[t]] # "none"
             /\ Live(t)' /\ t \notin torn' =>
                            /\ holder'[t] \notin disabled'
                            /\ scope'[t] = ScopeFor(role'[holder'[t]])
  <2>1. CASE t = n
      BY <1>1, <1>2, <1>4, <2>1
  <2>2. CASE t # n
    <3>1. holder[t] \in Users /\ role[holder[t]] # "none"
        BY <1>3, <1>5, <2>2 DEF TypeOK, SessionInv, HoldersExist
    <3> QED BY <1>1, <1>2, <1>3, <1>5, <2>2, <3>1 DEF SessionInv, SessionsMirrorUsers, Live
  <2> QED BY <2>1, <2>2
<1>6. holder'[Boot] = NoUser
    BY <1>3, BootAssumption DEF EndLogin, Insert, SessionInv, HoldersExist
<1> QED BY <1>5, <1>6 DEF SessionInv, HoldersExist, SessionsMirrorUsers, ScopeFor, Live

\* Ending a PUT keeps it, although the body is compared with a user read
\* before the await: what is written is written together with a revocation of
\* every session, and a comparison that finds nothing to write changes nothing.
LEMMA PutKeepsSessions ==
  ASSUME TypeOK, SessionInv, NEW r \in Requests, NEW b \in UserBodies, EndPutUser(r, b)
  PROVE  SessionInv'
<1> DEFINE j == req[r]
<1>1. j \in UserJobs /\ j.user \in Users /\ WriteUser(j, b)
    BY UserJob, Suspended DEF EndPutUser
<1>2. /\ \A u \in Users \ {j.user} :
           role'[u] = role[u] /\ (u \in disabled' <=> u \in disabled)
      /\ \A u \in Users : role[u] # "none" => role'[u] # "none"
    BY <1>1, OneUserWritten
<1>3. holder' = holder /\ scope' = scope
    BY DEF EndPutUser
<1>4. HoldersExist'
    BY <1>2, <1>3 DEF SessionInv, HoldersExist, TypeOK
<1>5. CASE ~Changes(j, b)
  <2>1. role' = role /\ disabled' = disabled /\ token' = token /\ torn' = torn
      BY <1>1, <1>5, NothingWritten DEF EndPutUser, rest
  <2> QED BY <1>3, <1>4, <2>1 DEF SessionInv, SessionsMirrorUsers, ScopeFor, Live
<1>6. CASE Changes(j, b)
  <2>1. RevokeSessions(j.user) /\ torn' = torn
      BY <1>6 DEF EndPutUser, rest
  <2>2. ASSUME NEW t \in Tokens \ torn', Live(t)', holder'[t] # NoUser
        PROVE  holder'[t] \notin disabled' /\ scope'[t] = ScopeFor(role'[holder'[t]])
    <3>1. Live(t) /\ holder[t] # j.user /\ holder[t] \in Users
        BY <1>3, <2>1, <2>2 DEF RevokeSessions, Live, TypeOK
    <3> QED BY <1>2, <1>3, <2>1, <2>2, <3>1 DEF SessionInv, SessionsMirrorUsers
  <2> QED BY <1>4, <2>2 DEF SessionInv, SessionsMirrorUsers, ScopeFor, Live
<1> QED BY <1>5, <1>6

\* A login whose insert throws may have given a user a row; nobody held a
\* session of that user.
LEMMA FailedLoginKeepsSessions ==
  ASSUME TypeOK, SessionInv, NEW r \in Requests, LoginFails(r)
  PROVE  SessionInv'
<1> DEFINE u == req[r].user
<1>1. u \in Users
    BY Suspended DEF LoginFails
<1>2. /\ disabled' = disabled /\ token' = token /\ scope' = scope
      /\ holder' = holder /\ torn' = torn
    BY DEF LoginFails, rest
<1>3. \A v \in Users : role[v] # "none" => role'[v] = role[v]
    BY <1>1 DEF LoginFails, RoleAtLogin, TypeOK
<1>4. \A t \in Tokens : holder[t] # NoUser => holder[t] \in Users /\ role[holder[t]] # "none"
    BY DEF TypeOK, SessionInv, HoldersExist
<1> QED BY <1>2, <1>3, <1>4 DEF SessionInv, HoldersExist, SessionsMirrorUsers, ScopeFor, Live

\* A PUT whose revocation throws writes one user, and tears the sessions that
\* were live of that user.
LEMMA FailedPutKeepsSessions ==
  ASSUME TypeOK, SessionInv, NEW r \in Requests, NEW b \in UserBodies, PutUserFails(r, b)
  PROVE  SessionInv'
<1> DEFINE j == req[r]
<1>1. j \in UserJobs /\ j.user \in Users /\ WriteUser(j, b)
    BY UserJob, Suspended DEF PutUserFails
<1>2. /\ \A u \in Users \ {j.user} :
           role'[u] = role[u] /\ (u \in disabled' <=> u \in disabled)
      /\ \A u \in Users : role[u] # "none" => role'[u] # "none"
    BY <1>1, OneUserWritten
<1>3. /\ holder' = holder /\ scope' = scope /\ token' = token
      /\ torn' = torn \union {t \in Tokens : holder[t] = j.user /\ token[t] = "live"}
    BY DEF PutUserFails
<1>4. HoldersExist'
    BY <1>2, <1>3 DEF SessionInv, HoldersExist, TypeOK
<1>5. ASSUME NEW t \in Tokens \ torn', Live(t)', holder'[t] # NoUser
      PROVE  holder'[t] \notin disabled' /\ scope'[t] = ScopeFor(role'[holder'[t]])
  <2>1. Live(t) /\ t \notin torn /\ holder[t] # j.user /\ holder[t] \in Users
      BY <1>3, <1>5 DEF Live, TypeOK
  <2> QED BY <1>2, <1>3, <1>5, <2>1 DEF SessionInv, SessionsMirrorUsers
<1> QED BY <1>4, <1>5 DEF SessionInv, SessionsMirrorUsers, ScopeFor, Live

LEMMA StepSessions == TypeOK /\ SessionInv /\ [Next]_vars => SessionInv'
<1> SUFFICES ASSUME TypeOK, SessionInv, [Next]_vars PROVE SessionInv'
    OBVIOUS
<1>1. ASSUME NEW r \in Requests, NEW n \in Tokens, NEW s \in Scopes, EndMint(r, n, s)
      PROVE  SessionInv'
    BY <1>1 DEF EndMint, Insert, rest, SessionInv, HoldersExist, SessionsMirrorUsers,
                ScopeFor, Live, TypeOK
<1>2. ASSUME NEW t \in Tokens, \/ \E n \in Tokens : Revoke(t, n)
                               \/ Logout(t)
      PROVE  SessionInv'
    BY <1>2 DEF Revoke, Logout, rest, SessionInv, HoldersExist, SessionsMirrorUsers,
                ScopeFor, Live, TypeOK
<1>3. CASE Restart
  <2>1. holder' = holder /\ role' = role /\ scope' = scope /\ disabled' = disabled
        /\ torn' = torn
      BY <1>3 DEF Restart, rest
  <2> QED BY <1>3, <2>1 DEF Restart, SessionInv, HoldersExist, SessionsMirrorUsers,
                ScopeFor, Live, TypeOK
<1>4. ASSUME \/ \E r \in Requests :
                  \/ \E t \in Tokens : StartMint(r, t)
                  \/ \E u \in Users : StartLogin(r, u)
                  \/ \E t \in Tokens, u \in Users : StartPutUser(r, t, u)
                  \/ Refuse(r)
             \/ \E t \in Tokens : LogoutFails(t)
             \/ \E t \in Tokens, x \in Resources : Create(t, x)
             \/ UNCHANGED vars
      PROVE  /\ role' = role /\ disabled' = disabled /\ token' = token
             /\ scope' = scope /\ holder' = holder /\ torn' = torn
    BY <1>4 DEF StartMint, StartLogin, StartPutUser, Refuse, LogoutFails, Create, vars, rest
<1>5. ASSUME /\ role' = role /\ disabled' = disabled /\ token' = token
             /\ scope' = scope /\ holder' = holder /\ torn' = torn
      PROVE  SessionInv'
    BY <1>5 DEF SessionInv, HoldersExist, SessionsMirrorUsers, ScopeFor, Live
<1> QED
  BY <1>1, <1>2, <1>3, <1>4, <1>5, LoginKeepsSessions, PutKeepsSessions,
     FailedLoginKeepsSessions, FailedPutKeepsSessions DEF Next

\* Every live session has the scope of the role its user has now and no
\* disabled user has one, but for the sessions a PUT failed to revoke half way,
\* whatever PUTs and logins overlap (src/routes/auth.js, src/routes/admin.js):
\* the middleware need not look at the user to know the scope is current.
THEOREM SessionsAreCurrent == Spec => []SessionsMirrorUsers
<1>1. Init => SessionInv
    BY BootAssumption DEF Init, SessionInv, HoldersExist, SessionsMirrorUsers
<1>2. TypeOK /\ SessionInv /\ [Next]_vars => SessionInv'
    BY StepSessions
<1>3. SessionInv => SessionsMirrorUsers
    BY DEF SessionInv
<1> QED BY <1>1, <1>2, <1>3, TypeCorrect, PTL DEF Spec

-----------------------------------------------------------------------------
(* A PUT that is not overtaken                                             *)

\* While a PUT of a user awaits its body no other request changes that user.
LeftAlone ==
  \A r \in Requests :
    req[r].op = "user" /\ req'[r] = req[r] =>
      /\ role'[req[r].user] = role[req[r].user]
      /\ req[r].user \in disabled' <=> req[r].user \in disabled
Undisturbed == [][LeftAlone]_vars

\* What a PUT has read is still so.
ReadIsUser ==
  \A r \in Requests :
    req[r].op = "user" =>
      /\ req[r].role = role[req[r].user]
      /\ req[r].disabled = (req[r].user \in disabled)

LEMMA StepReadIsUser == TypeOK /\ ReadIsUser /\ [Next]_vars /\ [LeftAlone]_vars => ReadIsUser'
<1>. SUFFICES ASSUME TypeOK, ReadIsUser, [Next]_vars, [LeftAlone]_vars,
                     NEW q \in Requests, req'[q].op = "user"
              PROVE  /\ req'[q].role = role'[req'[q].user]
                     /\ req'[q].disabled = (req'[q].user \in disabled')
  BY DEF ReadIsUser
<1>. DEFINE Goal == /\ req'[q].role = role'[req'[q].user]
                    /\ req'[q].disabled = (req'[q].user \in disabled')
<1>1. ASSUME req'[q] = req[q] PROVE Goal
  <2>1. CASE LeftAlone
    BY <1>1, <2>1 DEF LeftAlone, ReadIsUser
  <2>2. CASE UNCHANGED vars
    BY <1>1, <2>2 DEF vars, ReadIsUser
  <2>. QED
    BY <2>1, <2>2
<1>2. Idle.op # "user"
  BY DEF Idle
<1>3. ASSUME NEW r \in Requests, Answer(r) PROVE req'[q] = req[q]
  BY <1>2, <1>3 DEF Answer, TypeOK
<1>4. ASSUME NEW r \in Requests, NEW t \in Tokens, StartMint(r, t) PROVE req'[q] = req[q]
  <2>1. q = r => req'[q].op = "mint"
    BY <1>4 DEF StartMint, Suspend, TypeOK
  <2>. QED
    BY <1>4, <2>1 DEF StartMint, Suspend, TypeOK
<1>5. ASSUME NEW r \in Requests, NEW u \in Users, StartLogin(r, u) PROVE req'[q] = req[q]
  <2>1. q = r => req'[q].op = "login"
    BY <1>5 DEF StartLogin, Suspend, TypeOK
  <2>. QED
    BY <1>5, <2>1 DEF StartLogin, Suspend, TypeOK
<1>6. ASSUME NEW r \in Requests, NEW t \in Tokens, NEW u \in Users, StartPutUser(r, t, u)
      PROVE  Goal
  <2>1. CASE q = r
    <3>1. req'[q] = [op |-> "user", by |-> t, user |-> u, role |-> role[u],
                     disabled |-> u \in disabled]
      BY <1>6, <2>1 DEF StartPutUser, Suspend, TypeOK
    <3>2. role' = role /\ disabled' = disabled
      BY <1>6 DEF StartPutUser
    <3>. QED
      BY <3>1, <3>2
  <2>2. CASE q # r
    <3>1. req'[q] = req[q]
      BY <1>6, <2>2 DEF StartPutUser, Suspend, TypeOK
    <3>. QED
      BY <1>1, <3>1
  <2>. QED
    BY <2>1, <2>2
<1>7. CASE Restart
  BY <1>2, <1>7 DEF Restart
<1>8. CASE UNCHANGED req
  BY <1>1, <1>8
<1>9. ASSUME NEW r \in Requests,
             \/ \E n \in Tokens, s \in Scopes : EndMint(r, n, s)
             \/ \E n \in Tokens : EndLogin(r, n)
             \/ LoginFails(r)
             \/ \E b \in UserBodies : EndPutUser(r, b) \/ PutUserFails(r, b)
             \/ Refuse(r)
      PROVE  Answer(r)
  BY <1>9 DEF EndMint, EndLogin, LoginFails, EndPutUser, PutUserFails, Refuse
<1>10. ASSUME \/ \E t, n \in Tokens : Revoke(t, n)
              \/ \E t \in Tokens : Logout(t) \/ LogoutFails(t)
              \/ \E t \in Tokens, x \in Resources : Create(t, x)
              \/ UNCHANGED vars
       PROVE  UNCHANGED req
  BY <1>10 DEF Revoke, Logout, LogoutFails, Create, vars
<1>11. \/ \E r \in Requests : Answer(r)
       \/ \E r \in Requests, t \in Tokens : StartMint(r, t)
       \/ \E r \in Requests, u \in Users : StartLogin(r, u)
       \/ \E r \in Requests, t \in Tokens, u \in Users : StartPutUser(r, t, u)
       \/ Restart
       \/ UNCHANGED req
  BY <1>9, <1>10 DEF Next
<1>. QED
  BY <1>1, <1>3, <1>4, <1>5, <1>6, <1>7, <1>8, <1>11

\* What a PUT that asks to disable a user does, if the user is as it was read.
LEMMA DisableFacts ==
  ASSUME TypeOK, ReadIsUser, NEW r \in Requests, NEW b \in UserBodies,
         EndPutUser(r, b), b.disabled = "yes"
  PROVE  /\ req[r].user \in Users /\ req[r].user \in disabled'
         /\ \/ RevokeSessions(req[r].user)
            \/ req[r].user \in disabled /\ token' = token
<1>1. /\ req[r].op = "user" /\ WriteUser(req[r], b)
      /\ IF Changes(req[r], b) THEN RevokeSessions(req[r].user) ELSE UNCHANGED token
  BY DEF EndPutUser
<1>2. req[r].user \in Users /\ req[r].disabled = (req[r].user \in disabled)
  BY <1>1, Suspended DEF ReadIsUser
<1>3. DisabledChanged(req[r], b) <=> req[r].user \notin disabled
  BY <1>2 DEF DisabledChanged
<1>4. req[r].user \in disabled'
  BY <1>1, <1>3 DEF WriteUser
<1>5. CASE req[r].user \in disabled
  BY <1>1, <1>2, <1>4, <1>5
<1>6. CASE req[r].user \notin disabled
  BY <1>1, <1>2, <1>3, <1>4, <1>6 DEF Changes
<1>. QED
  BY <1>5, <1>6

LEMMA AlwaysReadIsUser == Spec /\ Undisturbed => [](TypeOK /\ ReadIsUser)
<1>1. Init => ReadIsUser
  BY DEF Init, ReadIsUser, Idle
<1>. QED
  BY <1>1, InitTypeOK, StepTypeOK, StepReadIsUser, PTL DEF Spec, Undisturbed

\* README.md:338 again, "disable/enable": a PUT during whose body nobody else
\* changes the user leaves the user disabled if it says so, whatever throws.  That
\* another PUT came between is all that DisableTakesEffect fails for.
THEOREM DisablesTakeEffect == Spec /\ Undisturbed => DisableTakesEffect
<1>1. TypeOK /\ ReadIsUser =>
        [\A r \in Requests, b \in UserBodies :
           EndPutUser(r, b) /\ b.disabled = "yes" => req[r].user \in disabled']_vars
  BY DisableFacts
<1>. QED
  BY <1>1, AlwaysReadIsUser, PTL DEF Spec, DisableTakesEffect

\* Where no statement throws, no session is torn.
NoneTorn == torn = {}

\* README.md:203 again, "Both actions immediately revoke that user's open session
\* tokens": where no statement throws, such a PUT leaves the user no live session,
\* were the user disabled already.
THEOREM DisablesEndSessions ==
  ASSUME ~StatementsMayFail
  PROVE  Spec /\ Undisturbed => DisableEndsSessions
<1>1. Init => NoneTorn
  BY DEF Init, NoneTorn
<1>2. NoneTorn /\ [Next]_vars => NoneTorn'
  BY DEF NoneTorn, Next, vars, rest, StartMint, EndMint, StartLogin, EndLogin, LoginFails,
         StartPutUser, EndPutUser, PutUserFails, Refuse, Revoke, Logout, LogoutFails,
         Create, Restart
<1>3. ASSUME TypeOK, ReadIsUser, SessionsMirrorUsers, NoneTorn,
             NEW r \in Requests, NEW b \in UserBodies, NEW t \in Tokens,
             EndPutUser(r, b), b.disabled = "yes", holder[t] = req[r].user
      PROVE  token'[t] # "live"
  <2>1. req[r].user \in Users /\ req[r].user # NoUser
    BY <1>3, DisableFacts, NoUserAssumption
  <2>2. CASE RevokeSessions(req[r].user)
    BY <1>3, <2>2 DEF RevokeSessions
  <2>3. CASE req[r].user \in disabled /\ token' = token
    BY <1>3, <2>1, <2>3 DEF SessionsMirrorUsers, NoneTorn, Live
  <2>. QED
    BY <1>3, <2>2, <2>3, DisableFacts
<1>4. TypeOK /\ ReadIsUser /\ SessionsMirrorUsers /\ NoneTorn =>
        [\A r \in Requests, b \in UserBodies, t \in Tokens :
           EndPutUser(r, b) /\ b.disabled = "yes" /\ holder[t] = req[r].user =>
             token'[t] # "live"]_vars
  BY <1>3
<1>. QED
  BY <1>1, <1>2, <1>4, AlwaysReadIsUser, SessionsAreCurrent, PTL
     DEF Spec, DisableEndsSessions
=============================================================================
