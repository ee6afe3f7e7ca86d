CONSTANTS
  MaxVer = 1
  Inode = {i1, i2, i3, i4, i5}
  NoFile = NoFile
  Faults = {"signal", "fail", "idlex", "again"}
SPECIFICATION FairSpec
PROPERTY SignalledEnds
