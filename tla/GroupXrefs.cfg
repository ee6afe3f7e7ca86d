CONSTANTS
  g = g
  h = h
  rc1 = rc1
  Group = {g, h}
  NoGroup = NoGroup
  Posts <- MCTwoPosts
  Rc = {rc1}
  RcOf <- MCOneRc
  Env = {"key"}
SPECIFICATION Spec
INVARIANTS
  ChangesAreFlagged
PROPERTIES
  XrefsChased
SYMMETRY MCSymmetry
