\* One screen, one keystroke, nothing fails.
SPECIFICATION Spec
CONSTANTS
  s1 = s1
  s2 = s2
  Screens = {s1}
  NoScreen = NoScreen
  MaxEdits = 1
  MaxTicks = 1
  MaxBeat = 1
  MaxFlight = 1
  MaxTrouble = 1
INVARIANT LeavingKeepsDraft
CHECK_DEADLOCK FALSE
