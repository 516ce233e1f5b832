\* Two browsers, a buffer of two events, up to four lines, one lost connection.
SPECIFICATION FairSpec
CONSTANTS
  c1 = c1
  c2 = c2
  Clients = {c1, c2}
  MaxEvents = 2
  MaxLines = 4
  MaxDrops = 1
INVARIANTS
  ReceivedExactly
  KeepsTheTail
PROPERTIES
  VerdictArrives
  LateBrowserGetsVerdict
CHECK_DEADLOCK FALSE
