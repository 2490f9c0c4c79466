SPECIFICATION PlainSpec
CONSTANTS
  AppCalls <- MCAllCalls
  MaxTimers = 2
  MaxPosted = 2
INVARIANTS
  TypeOK
  TimerPending
  OneArena
  RestartPending
  TimerKept
  ExitCloses
  PlainIsPaused
PROPERTIES
  StoppedStays
  FinishEnds
  RestartHappens
