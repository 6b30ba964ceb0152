SPECIFICATION MCSpec
CONSTANTS
  Priority = {1, 2}
  Node = {1, 2, 3, 4, 5}
  Null = Null
  Requests <- MCRequests
  Signatures <- MCSignatures
INVARIANTS TypeOK Forest BinomialTrees ArrayNeverOverrun
INVARIANTS SignedIsTheRequest ExportIsTheTransaction
PROPERTY IsPriorityQueue
