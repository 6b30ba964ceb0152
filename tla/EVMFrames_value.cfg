SPECIFICATION Spec
CONSTANTS
  a = a
  b = b
  e = e
  Address = {a, b, e}
  Contract = {a, b}
  Sender = {a, e}
  Key = {}
  TransientKey = {}
  Balance = "balance"
  WordMod = 4
  Absent = Absent
  Genesis <- MCValueGenesis
  Supply = 2
  CallKinds = {"call", "staticcall"}
  Amounts = {0, 2, 3}
  StoredValues = {}
  Queried = {b}
  ProviderMayFail = FALSE
  MaxDepth = 3
  MaxTransactions = 1
INVARIANTS TypeOK SupplyConserved
PROPERTY ImplementsNestedState
CHECK_DEADLOCK FALSE
