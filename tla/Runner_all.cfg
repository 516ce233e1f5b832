\* Two runs compete for one slot; every fault may happen.
SPECIFICATION FairSpec
CONSTANTS
  r1 = r1
  r2 = r2
  r3 = r3
  Runs = {r1, r2}
  MaxParallel = 1
  Harness = {"workspace", "start", "panic"}
INVARIANTS
  ParallelismBounded
  FinishedIsClean
  VerdictIsTruthful
  LiveRunsAddressable
PROPERTIES
  ImplementsLife
  ShutdownCompletes
CHECK_DEADLOCK FALSE
