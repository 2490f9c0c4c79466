SPECIFICATION HuftSpec
CONSTANTS
  BMax = 7
  Inputs <- MCInputs
  Allocs <- MCAllocs
CHECK_DEADLOCK FALSE
INVARIANTS TablesDecode NoTableLost
