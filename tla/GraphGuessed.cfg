CONSTANTS
  h = h
  r = r
  f1 = f1
  f2 = f2
  f3 = f3
  i1 = i1
  i2 = i2
  Absent = Absent
  NoFile = NoFile
  Top = Top
  Names <- MCNames
  Files <- ThreeFiles
  Contents <- TwoContents
  Indexers <- Alone
  MaxEdits = 1
  MaxKills = 0
  MaxRuns = 2
SPECIFICATION Spec
INVARIANTS NothingIsGuessed
CHECK_DEADLOCK FALSE
