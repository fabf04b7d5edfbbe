SPECIFICATION FairSpec
CONSTANTS
  Script <- Migrate
  Releases <- Ends
  Owned = {"agents", "mcp_servers"}
  Conns = {c1, c2}
  c1 = c1
  c2 = c2
INVARIANTS
  MigrationsNeverFail
  ServesWholeSchema
PROPERTIES
  CleanExitAnswersAll
  ShutdownEnds
