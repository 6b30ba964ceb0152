SPECIFICATION Spec
CONSTANTS
  a = a
  b = b
  e = e
  Address = {a, b, e}
  Contract = {a, b}
  Delegate <- MCDelegate
  Sender = e
  UintMod = 64
  ShareNum = 1
  ShareDen = 2
  AccessCost = 2
  ColdCost = 2
  JumpCost = 1
  BaseCosts = {1}
  PrecompileCosts = {2}
  WordBytes = 2
  LinearCost = 1
  QuadDivisor = 2
  MaxMemory = 4
  InitialGas = 1
  GasLimits = {7}
  GasArguments = {9}
  MemoryEnds = {1, 4, 5}
  CodeLength = 2
  CallKinds = {"call", "callcode", "delegatecall", "staticcall"}
  MaxDepth = 2
INVARIANTS TypeOK MemoryPaidOnce AccessListsNest
PROPERTIES GasIsNeverForgotten EndsIfLimitsShrink
