CONSTANTS
  p1 = p1
  p2 = p2
  p3 = p3
  f1 = f1
  f2 = f2
  NoProc = NoProc
  Proc = {p1, p2, p3}
  HostOf <- TwoHosts
  File = {f1, f2}
  Entries = 2
  FileOf <- TwoFiles
  Env = {}
SPECIFICATION Spec
INVARIANTS
  LockIsLive
  LockInv
  MutualExclusion
