\* Two directories, two edits at any point, one reload, one failed scan.
SPECIFICATION FairSpec
CONSTANTS
  v1 = v1
  v2 = v2
  c1 = c1
  Broken = Broken
  Absent = Absent
  Bodies = {v1, v2}
  Clients = {c1}
  Dirs = {1, 2}
  MaxEdits = 2
  MaxReloads = 1
  MaxFailures = 1
INVARIANTS
  ReloadSeesTheEdits
  MirrorMatches
PROPERTIES
  NeverOlder
  FingerprintCatchesUp
CHECK_DEADLOCK FALSE
