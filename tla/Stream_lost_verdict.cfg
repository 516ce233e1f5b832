\* A live browser under truncation: does the verdict reach it?
SPECIFICATION FairSpec
CONSTANTS
  c1 = c1
  c2 = c2
  Clients = {c1}
  MaxEvents = 2
  MaxLines = 3
  MaxDrops = 0
PROPERTIES
  VerdictDelivered
CHECK_DEADLOCK FALSE
