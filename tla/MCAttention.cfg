CONSTANTS
  s1 = s1
  s2 = s2
  s3 = s3
  s4 = s4
  c = c
  p = p
  Spaces = {s1, s2, s3, s4}
  GroupIds = {"g1", "g2"}
  Partners = {"p1", "p2"}
  MaxToasts = 4
  Threads = {c, p}
  MaxMessages = 2
  MaxUpsets = 1
  MaxMarks = 1
  MaxWire = 2
SPECIFICATION AttentionSpec
SYMMETRY Interchangeable
CHECK_DEADLOCK FALSE
INVARIANTS
  ToneFollowsCall
  
  LayoutIsWhole
