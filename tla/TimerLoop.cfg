SPECIFICATION TimerLiveSpec
CONSTANTS
  MaxStarts = 3
  Overtaking = FALSE
INVARIANTS TimerIInv StoppedIsQuiet StartIsHeard
PROPERTY TerminateReturns
