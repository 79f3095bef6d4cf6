SPECIFICATION DatabaseSpec
CONSTANTS
  ann = ann
  ben = ben
  cid = cid
  t1 = t1
  t2 = t2
  Accounts = {ann, ben, cid}
  Tokens = {t1, t2}
  Blocks = {}
  UseLimits = {2}
  MaxInvites = 2
  MaxNames = 1
  NoAccount = NoAccount
  NoInvite = NoInvite
  NoLimit = NoLimit
  NoDialog = NoDialog
  NoWire = NoWire
  Users = {ann, ben, cid}
  Connections = {k1, k2, k3}
  CallLimit = 2
  NoFriend = NoFriend
  Accepted = Accepted
  NoUser = NoUser
  NoConnection = NoConnection
  NoCall = NoCall
  People = {p1, p2, p3}
  Unknown = {p3}
  DatabaseOwner = DatabaseOwner
  MaxSince = 2
  Spaces = {space}
  Sections = {s1, s2}
  DefaultSection = s1
  Messages = {m}
  None = None
  MaxId = 3
  MaxPosition = 1
  MaxPins = 1
  Mixed = FALSE
SYMMETRY MCSymmetry
CONSTRAINT Bounded
CHECK_DEADLOCK FALSE
INVARIANTS
  OneOwner
  BannedStayOut
  OffersAreGranted
  BlockedAreStrangers
  DataIsKept
  NextIdIsUnused
