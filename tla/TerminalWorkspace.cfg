SPECIFICATION WorkspaceFairSpec
CONSTANTS
  Hosts = {h1}
  Local = local
  MaxTabs = 3
  MaxAttempts = 3
INVARIANTS WorkspaceInv NoSessionLeaks
PROPERTIES LastAttemptWins NothingLingers
