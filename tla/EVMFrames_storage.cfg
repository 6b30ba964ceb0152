SPECIFICATION Spec
CONSTANTS
  a = a
  b = b
  e = e
  Address = {a, b}
  Contract = {a, b}
  Sender = {a}
  Key = {"k"}
  TransientKey = {"t"}
  Balance = "balance"
  WordMod = 2
  Absent = Absent
  Genesis <- MCStorageGenesis
  Supply = 0
  CallKinds = {"delegatecall", "staticcall"}
  Amounts = {0}
  StoredValues = {0, 1}
  Queried = {}
  ProviderMayFail = FALSE
  MaxDepth = 3
  MaxTransactions = 2
INVARIANTS CachesNest StaticFramesOnlyCache
PROPERTIES ImplementsNestedState OutcomesDecide SuspendedTransientStable
CHECK_DEADLOCK FALSE
