SPECIFICATION PlainSpec
CONSTANTS
  AppCalls <- MCAllCalls
  MaxTimers = 2
  MaxPosted = 3
PROPERTY TimerOnExpiry
