\* One task, up to four solves, three days.
SPECIFICATION JournalSpec
CONSTANTS
  f1 = f1
  f2 = f2
  NoFiles = NoFiles
  Tasks = {1}
  Topic <- MCTopicAlone
  Difficulty <- MCDifficultyAlone
  Vanishing = {}
  Files = {f1}
  Times <- MCThreeDays
  DayLength = 4
  ResumeWindow = 2
  Beats = {}
  MaxAttempts = 4
  MaxRuns = 0
  MaxActive = 0
  ActivityWindow = 0
  MaxNotes = 0
INVARIANTS
  ScheduleFollowsLadder
  StreakIsLongest
PROPERTIES
  ImplementsPractice
