------------------------------- MODULE Access -------------------------------
(***************************************************************************)
(* Who may do what: tokens and their scopes (src/auth.js), the             *)
(* authentication middleware (src/server.js), users (src/users.js), login  *)
(* and logout (src/routes/auth.js) and the token and user administration   *)
(* (src/routes/admin.js), with the audit rows they write.                  *)
(*                                                                         *)
(* A request is authorised when it arrives.  Minting a token and changing  *)
(* a user then await the request body, a login awaits the identity         *)
(* provider, and all three finish on what they read before.  ADMIN_TOKEN   *)
(* is not blank, distinct users have distinct emails, and logAudit, which  *)
(* swallows its own failure, inserts its row.                              *)
(***************************************************************************)
EXTENDS Naturals

CONSTANTS
  Users,             \* identities the provider can vouch for
  AdminEmails,       \* those listed in ADMIN_EMAILS
  Tokens,            \* token rows the table can hold
  Boot,              \* the env-bootstrap row
  Resources,         \* agents and MCP servers
  Requests,          \* how many requests may be suspended: one id each
  StatementsMayFail, \* whether a later statement of a handler may throw
  NoUser,            \* user_id is NULL, or no user is resolved
  System             \* SYSTEM_USER_ID

ASSUME AdminEmailsAssumption == AdminEmails \subseteq Users
ASSUME BootAssumption == Boot \in Tokens
ASSUME StatementsMayFailAssumption == StatementsMayFail \in BOOLEAN
ASSUME NoUserAssumption == NoUser \notin Users /\ System \notin Users /\ NoUser # System

VARIABLES
  role,      \* users.role; "none" while the row does not exist
  disabled,  \* users with disabled_at set
  token,     \* whether the row is "absent", "live" or "revoked"
  scope,     \* tokens.scope
  holder,    \* tokens.user_id
  owner,     \* owner_user_id of a resource; NoUser while it does not exist
  author,    \* the user whose session created the resource (history)
  torn,      \* sessions that a PUT failed to revoke half way (history)
  audit,     \* audit_log: the actions recorded, each with the row it is about
  req        \* requests suspended at their await

vars == <<role, disabled, token, scope, holder, owner, author, torn, audit, req>>
rest == <<owner, author, torn>>

Scopes == {"read", "write", "admin"}
Rank == [read |-> 1, write |-> 2, admin |-> 3]
Roles == {"user", "admin"}
\* Wrong on purpose: the scope of a session is the name of the role.
ScopeIsRole(r) == r

\* The scope of a session mirrors the role.
ScopeFor(r) == IF r = "admin" THEN "admin" ELSE "write"

Idle == [op |-> "idle"]
MintJobs == [op : {"mint"}, by : Tokens]
LoginJobs == [op : {"login"}, user : Users]
UserJobs ==
  [op : {"user"}, by : Tokens, user : Users, role : Roles, disabled : BOOLEAN]

\* PUT /admin/users bodies; "keep" is a field left out.
UserBodies == [role : Roles \union {"keep"}, disabled : {"yes", "no", "keep"}]

\* A login's row names its new token as the actor, the others as the target.
\* Rows about the bootstrap token are left out: no property is about them.
Rows ==
  [action : {"token.create", "user.login", "token.revoke", "user.logout"},
   about : Tokens \ {Boot}]
    \union [action : {"user.update"}, about : Users]
Row(a, x) == [action |-> a, about |-> x]

TypeOK ==
  /\ role \in [Users -> Roles \union {"none"}]
  /\ disabled \in SUBSET Users
  /\ token \in [Tokens -> {"absent", "live", "revoked"}]
  /\ scope \in [Tokens -> Scopes]
  /\ holder \in [Tokens -> Users \union {NoUser}]
  /\ owner \in [Resources -> Users \union {NoUser, System}]
  /\ author \in [Resources -> Users \union {NoUser}]
  /\ torn \in SUBSET Tokens
  /\ audit \in SUBSET Rows
  /\ req \in [Requests -> MintJobs \union LoginJobs \union UserJobs \union {Idle}]

\* First boot: bootstrapEnvToken has inserted its row.
Init ==
  /\ role = [u \in Users |-> "none"]
  /\ disabled = {}
  /\ token = [t \in Tokens |-> IF t = Boot THEN "live" ELSE "absent"]
  /\ scope = [t \in Tokens |-> IF t = Boot THEN "admin" ELSE "read"]
  /\ holder = [t \in Tokens |-> NoUser]
  /\ owner = [x \in Resources |-> NoUser]
  /\ author = [x \in Resources |-> NoUser]
  /\ torn = {}
  /\ audit = {}
  /\ req = [r \in Requests |-> Idle]

-----------------------------------------------------------------------------
(* The middleware                                                          *)

\* The user of a request.  verifyToken selects id, name, scope and
\* revoked_at but not user_id, so the middleware never finds one.
ResolvedUser(t) == NoUser

\* verifyToken finds a live row, and its user, if resolved, is not disabled.
Authenticated(t) == token[t] = "live" /\ ResolvedUser(t) \notin disabled

\* requireScope(c, s).
Passes(t, s) == Authenticated(t) /\ Rank[scope[t]] >= Rank[s]

IsAdmin(t) ==
  IF ResolvedUser(t) = NoUser THEN scope[t] = "admin"
                              ELSE role[ResolvedUser(t)] = "admin"

\* requireOwnerOrAdmin: who may change or delete a resource.
MayMutate(t, x) ==
  /\ Passes(t, "write")
  /\ IsAdmin(t) \/ (ResolvedUser(t) # NoUser /\ ResolvedUser(t) = owner[x])

-----------------------------------------------------------------------------
(* Requests                                                                *)

Free(r) == req[r] = Idle
Suspend(r, job) == Free(r) /\ req' = [req EXCEPT ![r] = job]
Answer(r) == req' = [req EXCEPT ![r] = Idle]
\* Wrong on purpose: the row of a revoked token is used again.
InsertOrReuse(n, s, u) ==
  /\ n # Boot
  /\ token[n] # "live"
  /\ token' = [token EXCEPT ![n] = "live"]
  /\ scope' = [scope EXCEPT ![n] = s]
  /\ holder' = [holder EXCEPT ![n] = u]

Insert(n, s, u) ==
  /\ n # Boot
  /\ token[n] = "absent"
  /\ token' = [token EXCEPT ![n] = "live"]
  /\ scope' = [scope EXCEPT ![n] = s]
  /\ holder' = [holder EXCEPT ![n] = u]
Record(row) == audit' = audit \union ({row} \intersect Rows)

\* A suspended request is refused: bad body, failed verification, disabled
\* user, self-lockout guard.
Refuse(r) ==
  /\ ~Free(r)
  /\ Answer(r)
  /\ UNCHANGED <<role, disabled, token, scope, holder, rest, audit>>

\* Wrong on purpose: minting asks for write scope only.
StartMintWithWrite(r, t) ==
  /\ Passes(t, "write")
  /\ Suspend(r, [op |-> "mint", by |-> t])
  /\ UNCHANGED <<role, disabled, token, scope, holder, rest, audit>>

\* POST /admin/tokens.
StartMint(r, t) ==
  /\ Passes(t, "admin")
  /\ Suspend(r, [op |-> "mint", by |-> t])
  /\ UNCHANGED <<role, disabled, token, scope, holder, rest, audit>>

EndMint(r, n, s) ==
  /\ req[r].op = "mint"
  /\ Insert(n, s, NoUser)
  /\ Record(Row("token.create", n))
  /\ Answer(r)
  /\ UNCHANGED <<role, disabled, rest>>

\* DELETE /admin/tokens/:id, refused for the caller's own token.
Revoke(t, n) ==
  /\ Passes(t, "admin")
  /\ token[n] # "absent"
  /\ t # n
  /\ token' = [token EXCEPT ![n] = "revoked"]
  /\ Record(Row("token.revoke", n))
  /\ UNCHANGED <<role, disabled, scope, holder, rest, req>>

\* POST /auth/login: the provider's answer is awaited, then the user is
\* inserted if new and a session token minted whose scope mirrors the role.
StartLogin(r, u) ==
  /\ Suspend(r, [op |-> "login", user |-> u])
  /\ UNCHANGED <<role, disabled, token, scope, holder, rest, audit>>

RoleAtLogin(u) ==
  IF role[u] # "none" THEN role[u]
  ELSE IF u \in AdminEmails THEN "admin" ELSE "user"

EndLogin(r, n) ==
  LET u == req[r].user IN
  /\ req[r].op = "login"
  /\ u \notin disabled
  /\ role' = [role EXCEPT ![u] = RoleAtLogin(u)]
  /\ Insert(n, ScopeFor(RoleAtLogin(u)), u)
  /\ Record(Row("user.login", n))
  /\ Answer(r)
  /\ UNCHANGED <<disabled, rest>>

\* The user row is written and the token's insert throws.
LoginFails(r) ==
  LET u == req[r].user IN
  /\ StatementsMayFail
  /\ req[r].op = "login"
  /\ role' = [role EXCEPT ![u] = RoleAtLogin(u)]
  /\ Answer(r)
  /\ UNCHANGED <<disabled, token, scope, holder, rest, audit>>

\* POST /auth/logout.
Logout(t) ==
  /\ Authenticated(t)
  /\ token' = [token EXCEPT ![t] = "revoked"]
  /\ Record(Row("user.logout", t))
  /\ UNCHANGED <<role, disabled, scope, holder, rest, req>>

\* The UPDATE throws: it is logged, and the logout audited and answered.
LogoutFails(t) ==
  /\ StatementsMayFail
  /\ Authenticated(t)
  /\ Record(Row("user.logout", t))
  /\ UNCHANGED <<role, disabled, token, scope, holder, rest, req>>

\* PUT /admin/users/:id reads the user, then awaits the body.
StartPutUser(r, t, u) ==
  /\ Passes(t, "admin")
  /\ role[u] # "none"
  /\ Suspend(r, [op |-> "user", by |-> t, user |-> u, role |-> role[u],
                 disabled |-> u \in disabled])
  /\ UNCHANGED <<role, disabled, token, scope, holder, rest, audit>>

\* What a body changes, compared with the user read before the await.
RoleChanged(j, b) == b.role # "keep" /\ b.role # j.role
DisabledChanged(j, b) == b.disabled # "keep" /\ (b.disabled = "yes") # j.disabled
Changes(j, b) == RoleChanged(j, b) \/ DisabledChanged(j, b)

\* The guards that would keep callers from locking themselves out.
LocksOutCaller(j, b) ==
  ResolvedUser(j.by) = j.user /\ (b.role = "user" \/ b.disabled = "yes")

WriteUser(j, b) ==
  /\ role' = IF RoleChanged(j, b) THEN [role EXCEPT ![j.user] = b.role] ELSE role
  /\ disabled' = IF DisabledChanged(j, b)
                 THEN IF b.disabled = "yes" THEN disabled \union {j.user}
                                            ELSE disabled \ {j.user}
                 ELSE disabled

\* Wrong on purpose: only admin sessions are revoked.
RevokeWriteSessions(u) ==
  token' = [t \in Tokens |->
              IF holder[t] = u /\ token[t] = "live" /\ scope[t] = "admin"
              THEN "revoked" ELSE token[t]]

\* UPDATE tokens: every live session of the user is revoked.
RevokeSessions(u) ==
  token' = [t \in Tokens |->
              IF holder[t] = u /\ token[t] = "live" THEN "revoked" ELSE token[t]]

\* Wrong on purpose: a body that changes something is not audited.
PutUserUnaudited(r, b) ==
  LET j == req[r] IN
  /\ j.op = "user"
  /\ ~LocksOutCaller(j, b)
  /\ WriteUser(j, b)
  /\ IF Changes(j, b) THEN RevokeSessions(j.user) ELSE UNCHANGED token
  /\ Answer(r)
  /\ UNCHANGED <<scope, holder, rest, audit>>

\* The user is written, the sessions revoked if anything changed, the change
\* audited.
EndPutUser(r, b) ==
  LET j == req[r] IN
  /\ j.op = "user"
  /\ ~LocksOutCaller(j, b)
  /\ WriteUser(j, b)
  /\ IF Changes(j, b) THEN RevokeSessions(j.user) ELSE UNCHANGED token
  /\ Record(Row("user.update", j.user))
  /\ Answer(r)
  /\ UNCHANGED <<scope, holder, rest>>

\* The second UPDATE throws: the user is changed, no session is revoked,
\* nothing is audited and the caller is answered 500.
PutUserFails(r, b) ==
  LET j == req[r] IN
  /\ StatementsMayFail
  /\ j.op = "user"
  /\ ~LocksOutCaller(j, b)
  /\ Changes(j, b)
  /\ WriteUser(j, b)
  /\ torn' = torn \union {t \in Tokens : holder[t] = j.user /\ token[t] = "live"}
  /\ Answer(r)
  /\ UNCHANGED <<token, scope, holder, owner, author, audit>>

\* POST /agents or /mcp stamps the resolved user, or the system user.  What
\* it reads of the token cannot change while it awaits its body.
Create(t, x) ==
  /\ Passes(t, "write")
  /\ owner[x] = NoUser
  /\ owner' = [owner EXCEPT ![x] =
                 IF ResolvedUser(t) = NoUser THEN System ELSE ResolvedUser(t)]
  /\ author' = [author EXCEPT ![x] = holder[t]]
  /\ UNCHANGED <<role, disabled, token, scope, holder, torn, audit, req>>

\* Boot after a stop: suspended requests are gone, bootstrapEnvToken makes
\* the env-bootstrap token live again.
Restart ==
  /\ token' = [token EXCEPT ![Boot] = "live"]
  /\ req' = [r \in Requests |-> Idle]
  /\ UNCHANGED <<role, disabled, scope, holder, rest, audit>>

Next ==
  \/ \E r \in Requests :
       \/ \E t \in Tokens : StartMint(r, t)
       \/ \E n \in Tokens, s \in Scopes : EndMint(r, n, s)
       \/ \E u \in Users : StartLogin(r, u)
       \/ \E n \in Tokens : EndLogin(r, n)
       \/ LoginFails(r)
       \/ \E t \in Tokens, u \in Users : StartPutUser(r, t, u)
       \/ \E b \in UserBodies : EndPutUser(r, b) \/ PutUserFails(r, b)
       \/ Refuse(r)
  \/ \E t \in Tokens :
       \/ \E n \in Tokens : Revoke(t, n)
       \/ Logout(t)
       \/ LogoutFails(t)
       \/ \E x \in Resources : Create(t, x)
  \/ Restart

Spec == Init /\ [][Next]_vars
-----------------------------------------------------------------------------
(* Safety                                                                  *)

Live(t) == token[t] = "live"

\* What auth.js, routes/auth.js and routes/admin.js keep between them: the
\* scope of every live session mirrors the role its user has now, and no
\* disabled user has a live session, although PUT /admin/users compares the
\* body with a user it read before awaiting it.  Only sessions that a PUT has
\* failed to revoke half way are out of step, not those minted afterwards.
SessionsMirrorUsers ==
  \A t \in Tokens \ torn :
    Live(t) /\ holder[t] # NoUser =>
      /\ holder[t] \notin disabled
      /\ scope[t] = ScopeFor(role[holder[t]])

\* The audit log explains the tokens table: every row but the bootstrap one
\* was minted or logged in, and every revoked one was revoked, logged out or
\* belongs to a user that was changed (src/audit.js callers).
AuditExplainsTokens ==
  \A t \in Tokens \ {Boot} :
    /\ token[t] # "absent" =>
         Row("token.create", t) \in audit \/ Row("user.login", t) \in audit
    /\ token[t] = "revoked" =>
         \/ Row("token.revoke", t) \in audit
         \/ Row("user.logout", t) \in audit
         \/ holder[t] # NoUser /\ Row("user.update", holder[t]) \in audit

\* A revoked token never authenticates again; the bootstrap one may, at boot.
\* A token keeps the scope and the user it was inserted with.
RevocationIsFinal ==
  [][\A t \in Tokens \ {Boot} :
       /\ token[t] = "revoked" => token'[t] = "revoked"
       /\ token[t] # "absent" => scope'[t] = scope[t] /\ holder'[t] = holder[t]]_vars

\* Admin scope comes from admins: a token that appears with it was minted by
\* a request admitted with an admin token, or by the login of an admin.
AdminScopeFromAdmins ==
  [][\A t \in Tokens :
       token[t] = "absent" /\ token'[t] = "live" /\ scope'[t] = "admin" =>
         \/ \E r \in Requests : req[r].op = "mint" /\ scope[req[r].by] = "admin"
         \/ holder'[t] # NoUser /\ role'[holder'[t]] = "admin"]_vars

-----------------------------------------------------------------------------
(* What the documentation says and the code does not do                    *)

\* README.md:169, role user: "mutate own": the session of a user may change
\* what it created.
OwnersMayEdit ==
  \A t \in Tokens, x \in Resources :
    Live(t) /\ holder[t] # NoUser /\ author[x] = holder[t] => MayMutate(t, x)

\* routes/admin.js:214, "Refuse to lock the caller out of admin access": a
\* signed-in admin cannot demote or disable the user of the session in use.
NoSelfLockout ==
  [][\A r \in Requests, b \in UserBodies :
       EndPutUser(r, b) /\ holder[req[r].by] = req[r].user =>
         b.role # "user" /\ b.disabled # "yes"]_vars

\* README.md:338, "disable/enable": a PUT that asks to disable a user and is
\* answered leaves the user disabled.
DisableTakesEffect ==
  [][\A r \in Requests, b \in UserBodies :
       EndPutUser(r, b) /\ b.disabled = "yes" => req[r].user \in disabled']_vars

\* README.md:203, "Both actions immediately revoke that user's open session
\* tokens": an answered PUT that asks to disable a user, were it a retry of
\* one that failed half way, leaves the user no live session.
DisableEndsSessions ==
  [][\A r \in Requests, b \in UserBodies, t \in Tokens :
       EndPutUser(r, b) /\ b.disabled = "yes" /\ holder[t] = req[r].user =>
         token'[t] # "live"]_vars
=============================================================================
