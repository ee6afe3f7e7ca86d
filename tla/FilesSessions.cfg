CONSTANTS
  MaxVer = 3
  Inode = {i1, i2, i3, i4, i5}
  NoFile = NoFile
  Faults = {}
SPECIFICATION Spec
INVARIANTS
  SavedIsNewsrc
  AbandonRestores
PROPERTY ImplementsStore
