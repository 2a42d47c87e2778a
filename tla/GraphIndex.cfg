CONSTANTS
  h = h
  r = r
  f1 = f1
  f2 = f2
  f3 = f3
  i1 = i1
  i2 = i2
  Absent = Absent
  NoFile = NoFile
  Top = Top
  Names <- MCNames
  Files <- TwoFiles
  Contents <- TwoContents
  Indexers <- Pair
  MaxEdits = 1
  MaxKills = 1
  MaxRuns = 3
SYMMETRY Sessions
SPECIFICATION Spec
INVARIANTS RecordTellsGraph NoCallSurvives SettledIsResolved
CHECK_DEADLOCK FALSE
