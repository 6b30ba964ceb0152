SPECIFICATION Spec
CONSTANTS
  th1 = th1
  th2 = th2
  bytes1 = bytes1
  bytes2 = bytes2
  bytes3 = bytes3
  tx1 = tx1
  tx2 = tx2
  Thread = {th1, th2}
  Handle = {bytes1, bytes2, bytes3, tx1, tx2}
  Shared = Shared
  Transaction = {tx1, tx2}
  Block = {1, 2, 3, 4}
  TransactionBlock = {3, 4}
  Null = Null
  Free = Free
  RefMod = 5
  MaxMoves = 2
SYMMETRY Symmetry
INVARIANTS TypeOK NeverUsedAfterFree BytesCountHandles TransactionsCountEnough
