SPECIFICATION Spec
CONSTANTS
  LG_mem_len = 40
  Word = 128
  Requests <- MCRequests
INVARIANTS
  TypeOK
  FreeListMerged
  NoOverlap
  RequestCovered
  NothingLost
  LeftExact
PROPERTY ImplementsHeap
