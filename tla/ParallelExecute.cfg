SPECIFICATION FairSpec
CONSTANTS
  account1 = account1
  slot1 = slot1
  t1 = t1
  t2 = t2
  Thread = {t1, t2}
  Nobody = Nobody
  Cell = {account1, slot1}
  Value = {0, 1}
  None = None
  AccountPieces <- MCAccountPieces
  StoragePieces <- MCStoragePieces
INVARIANT ParallelTypeOK
PROPERTIES SerialButForConflicts EveryCallReturns
