\* Fourteen commands, two pipes of two lines each, cancellation and deadline at any time.
SPECIFICATION VerdictFairSpec
CONSTANTS
  Scripts <- MCScripts
  PipeSize = 2
  MaxLines = 2
INVARIANTS
  NoFalseGreen
  TrueVerdict
PROPERTIES
  EveryRunReports
CHECK_DEADLOCK FALSE
