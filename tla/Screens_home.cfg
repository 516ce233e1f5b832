\* Three tasks of two topics, two attempts, a midnight, a task that vanishes.
SPECIFICATION JournalSpec
CONSTANTS
  f1 = f1
  f2 = f2
  NoFiles = NoFiles
  Tasks = {1, 2, 3}
  Topic <- MCTopic
  Difficulty <- MCDifficulty
  Vanishing = {1}
  Files = {f1}
  Times <- MCMidnight
  DayLength = 4
  ResumeWindow = 2
  Beats = {1}
  MaxAttempts = 2
  MaxRuns = 1
  MaxActive = 1
  ActivityWindow = 0
  MaxNotes = 1
INVARIANTS
  TypeOK
  OneOpenAttempt
  ReviewCountsSolves
  SnapshotIffSolved
  SolvedTasksRest
  ScreensAgree
PROPERTIES
  SolveIsFrozen
  PickIsStable
