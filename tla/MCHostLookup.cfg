SPECIFICATION FairSpec
CONSTANTS
  MaxLookup = 3
  Apps = {"patient", "hasty"}
CHECK_DEADLOCK FALSE
INVARIANTS AnswerIsMine OneAnswer
PROPERTIES Answered CloseReturns
