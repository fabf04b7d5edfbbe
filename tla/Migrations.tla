----------------------------- MODULE Migrations -----------------------------
(***************************************************************************)
(* The statements of migrations/001_init.sql to 007_connect_agent.sql, in  *)
(* the order in which migrate (src/db.js) executes them.  Each commits on  *)
(* its own: better-sqlite3's exec opens no transaction.                    *)
(*                                                                         *)
(* Of a statement we keep what it makes, what has to be there for it not   *)
(* to throw, and whether its file is run with tolerateDuplicateColumn.     *)
(* Columns that a table is created with come with the table.               *)
(***************************************************************************)
EXTENDS Naturals, Sequences, SequencesExt

\* CREATE ... IF NOT EXISTS and INSERT OR IGNORE make name unless it is there;
\* ALTER TABLE ... ADD COLUMN throws if it is there; a backfill makes nothing.
Stmt(kind, name, needs, tolerant) ==
  [kind |-> kind, name |-> name, needs |-> needs, tolerant |-> tolerant]

Create(name, needs) == Stmt("create", name, needs, FALSE)
Alter(table, column) == Stmt("alter", column, {table}, FALSE)
Backfill(table, needs) == Stmt("backfill", table, needs, FALSE)

\* runMigrationFile with tolerateDuplicateColumn: statement by statement.
Tolerant(file) == [i \in DOMAIN file |-> [file[i] EXCEPT !.tolerant = TRUE]]

Init001 == <<
  Create("agents", {}), Create("capabilities", {}), Create("agent_embedding_map", {}),
  Create("mcp_servers", {}), Create("invocations", {}), Create("health_checks", {}),
  Create("idx_invocations_agent", {"invocations"}),
  Create("idx_invocations_created", {"invocations"}),
  Create("idx_health_agent", {"health_checks"}), Create("idx_agents_status", {"agents"}) >>

AgentEmbeddings == << Create("agent_embeddings", {}) >>

Proxy002 == <<
  Alter("agents", "proxy_enabled"), Alter("agents", "proxy_timeout_ms"),
  Alter("invocations", "response_size"), Alter("invocations", "mode"),
  Alter("invocations", "caller_agent_id"),
  Create("idx_inv_agent_time", {"invocations"}), Create("idx_inv_created", {"invocations"}) >>

AuthAudit003 == <<
  Create("tokens", {}), Create("idx_tokens_hash", {"tokens"}), Create("audit_log", {}),
  Create("idx_audit_created", {"audit_log"}), Create("idx_audit_target", {"audit_log"}) >>

Webhooks004 == << Create("webhooks", {}), Create("idx_webhooks_created", {"webhooks"}) >>

\* A backfill names the system user, whom its foreign key wants to be there.
Users005 == <<
  Create("users", {}), Create("idx_users_email", {"users"}), Create("system user", {"users"}),
  Alter("tokens", "tokens.user_id"), Create("idx_tokens_user", {"tokens.user_id"}),
  Alter("agents", "agents.owner_user_id"), Alter("mcp_servers", "mcp_servers.owner_user_id"),
  Backfill("agents", {"agents.owner_user_id", "system user"}),
  Backfill("mcp_servers", {"mcp_servers.owner_user_id", "system user"}),
  Create("idx_agents_owner", {"agents.owner_user_id"}),
  Create("idx_mcp_owner", {"mcp_servers.owner_user_id"}) >>

WebhookPause006 == << Alter("webhooks", "paused_at") >>

ConnectAgent007 == <<
  Alter("agents", "is_builtin"), Create("connect_sessions", {}),
  Create("idx_connect_sessions_user", {"connect_sessions"}) >>

\* The files, the virtual table and the options, as migrate has them.
MigrateFiles == << Init001, AgentEmbeddings, Tolerant(Proxy002), AuthAudit003, Webhooks004,
                   Tolerant(Users005), Tolerant(WebhookPause006), Tolerant(ConnectAgent007) >>

MigrateScript == FlattenSeq(MigrateFiles)

\* The releases end with a whole file: how many statements each had.
ReleaseEnds == {Len(FlattenSeq(SubSeq(MigrateFiles, 1, k))) : k \in {0, 2, 3, 4, 5, 6, 7, 8}}
=============================================================================
