---------------------------- MODULE MCLifecycle ----------------------------
(* Lifecycle with the migrations of the repository.                        *)
EXTENDS Lifecycle

M == INSTANCE Migrations
Migrate == M!MigrateScript
Ends == M!ReleaseEnds
=============================================================================
