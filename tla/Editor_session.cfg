\* Two screens, a keystroke, two ticks, a heartbeat carries one; two attempts, or one and a failed request.
SPECIFICATION Spec
CONSTANTS
  s1 = s1
  s2 = s2
  Screens = {s1, s2}
  NoScreen = NoScreen
  MaxEdits = 1
  MaxTicks = 2
  MaxBeat = 1
  MaxFlight = 2
  MaxTrouble = 2
SYMMETRY Interchangeable
INVARIANTS
  TicksAreConserved
  DraftIsSaved
  ButtonComesBack
CHECK_DEADLOCK FALSE
