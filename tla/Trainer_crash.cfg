\* Two runs, restarts, one crash at any point, impatient recorders.
SPECIFICATION FairSpec
CONSTANTS
  t1 = t1
  f1 = f1
  f2 = f2
  r1 = r1
  r2 = r2
  NoFiles = NoFiles
  NoAttempt = NoAttempt
  Tasks = {t1}
  Files = {f1}
  Times = {1}
  DayLength = 4
  ResumeWindow = 2
  Beats = {1}
  MaxAttempts = 2
  MaxRuns = 2
  MaxActive = 1
  Runs = {r1, r2}
  MaxCrashes = 1
  Impatient = TRUE
INVARIANTS
  SolvedByItsRun
  RunsCountedOnce
PROPERTIES
  ImplementsStore
  GreenIsBooked
