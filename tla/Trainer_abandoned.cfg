\* A run still going when its attempt is abandoned.
SPECIFICATION Spec
CONSTANTS
  t1 = t1
  f1 = f1
  f2 = f2
  r1 = r1
  r2 = r2
  NoFiles = NoFiles
  NoAttempt = NoAttempt
  Tasks = {t1}
  Files = {f1}
  Times = {1}
  DayLength = 4
  ResumeWindow = 2
  Beats = {}
  MaxAttempts = 1
  MaxRuns = 2
  MaxActive = 1
  Runs = {r1, r2}
  MaxCrashes = 0
  Impatient = FALSE
PROPERTIES
  AbandonedIsFinal
