CONSTANTS
  MaxVer = 2
  Inode = {i1, i2, i3, i4, i5}
  NoFile = NoFile
  Faults = {"kill"}
SPECIFICATION Spec
INVARIANTS
  SavedSurvives
  NewsrcComplete
  BackupSurvives
