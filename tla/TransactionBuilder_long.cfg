INIT MCInit
NEXT MCNext
CONSTANTS
  Priority = {1, 2}
  Node = {1, 2}
  Null = Null
  Requests <- MCRequests
  Signatures <- MCSignatures
INVARIANT EveryExportIsTheTransaction
