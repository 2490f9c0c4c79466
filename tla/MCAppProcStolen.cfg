SPECIFICATION Spec
CONSTANTS
  m1 = m1
  m2 = m2
  NoMark = NoMark
  Marks <- MCMarks
  MAX_PROC_COUNT = 2
  MaxConns = 2
PROPERTY WaitingKilled
