CONSTANTS
  g = g
  h = h
  rc1 = rc1
  Group = {g}
  NoGroup = NoGroup
  Posts <- MCThreePosts
  Rc = {rc1}
  RcOf <- MCOneRc
  Env = {"expire", "unmark", "hangup", "remove", "unsubscribe"}
SPECIFICATION Spec
INVARIANTS
  LineInOrder
  CountsKept
PROPERTIES
  BitsFitLine
  
  ReturnedStay
