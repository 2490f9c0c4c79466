SPECIFICATION Spec
CONSTANTS
  Section = 5
  NumLen = 2
  MsgSlots = 2
  Numbers <- MCNumbers
  MsgPlaces = {0}
  Vals = {1}
  Default <- MCDefault
  MaxChunks = 1
  MaxChanges = 2
  DsmPath <- MCDsmPath
  Initial <- MCInitial
  Requests <- MCRequests
  Asked <- MCAsked
  Faults = {"open", "write"}
INVARIANT NothingUnaccounted
INVARIANT PathComesBack
PROPERTY ImplementsStore
