\* Two processes, two starts between them, two requests.
SPECIFICATION FairSpec
CONSTANTS
  Procs = {"p1", "p2"}
  Requests = {"q1", "q2"}
  Binaries <- MCBinaries
  MaxStarts = 2
INVARIANTS
  SchemaIsWhole
PROPERTIES
  CleanExit
  StopsWithoutTimer
CHECK_DEADLOCK FALSE
