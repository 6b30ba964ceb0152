SPECIFICATION Spec
CONSTANTS
  a = a
  b = b
  e = e
  Address = {a, b}
  Contract = {a, b}
  Sender = {a}
  Key = {}
  TransientKey = {"t"}
  Balance = "balance"
  WordMod = 2
  Absent = Absent
  Genesis <- MCStorageGenesis
  Supply = 0
  CallKinds = {"call", "delegatecall", "staticcall"}
  Amounts = {0}
  StoredValues = {0, 1}
  Queried = {}
  ProviderMayFail = FALSE
  MaxDepth = 3
  MaxTransactions = 1
INVARIANT TransientIsPerAccount
CHECK_DEADLOCK FALSE
