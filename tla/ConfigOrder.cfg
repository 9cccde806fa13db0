SPECIFICATION Spec
CONSTANTS
  Components = {"config"}
  Calls = {i1}
  MaxAttempts = 2
  MaxDocs = 3
  MaxRuns = 2
  Targets = {1, 2}
  Holdings <- MCHoldings
  Sizes = {0, 1, 5, 6}
  Ids = {"id1", "id2"}
  AgentKeys = {"k1", "k2"}
  Blank = "blank"
  Scopes = {"acme", "beta", "Beta!"}
  BadScopes = {"Beta!"}
  Singles <- MCSingles
  AccountTables <- MCTables
  Absent = Absent
  Namespaces = {"n1", "n2"}
  Accounts = {"a", "b"}
  Keys = {"k1", "k2"}
  Invalid = {}
  BadKeys = {}
  Handlers <- MCHandlers
  Gone = Gone
  None = None
  MaxTries = 2
  MaxChanges = 2
  Configs <- MCConfigs
  Took = {1000, 60000}
  Unset = Unset
  Infinite = Infinite
  NoError = NoError
INVARIANT ReportedInOrder
CHECK_DEADLOCK FALSE
