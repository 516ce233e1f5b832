\* No harness fault can happen: is there still an "error" verdict?
SPECIFICATION Spec
CONSTANTS
  r1 = r1
  r2 = r2
  r3 = r3
  Runs = {r1}
  MaxParallel = 1
  Harness = {}
INVARIANTS
  ErrorMeansHarnessBroke
CHECK_DEADLOCK FALSE
