\* Every pair of texts of up to six symbols; six lines are too many to align.
SPECIFICATION DiffSpec
CONSTANTS
  Texts <- MCTexts
  Newline = "n"
  MaxLines = 5
  MaxLength = 6
INVARIANTS
  BothSidesShown
  FewestChanges
CHECK_DEADLOCK FALSE
