\* One edit, no failure: does the catalog end up with what is on the disk?
SPECIFICATION FairSpec
CONSTANTS
  v1 = v1
  v2 = v2
  c1 = c1
  Broken = Broken
  Absent = Absent
  Bodies = {v1, v2}
  Clients = {c1}
  Dirs = {1}
  MaxEdits = 1
  MaxReloads = 0
  MaxFailures = 0
PROPERTIES
  CatalogCatchesUp
CHECK_DEADLOCK FALSE
