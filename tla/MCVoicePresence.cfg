SPECIFICATION VSpec
CONSTANTS
  ann = ann
  ben = ben
  lounge = lounge
  stage = stage
  k1 = k1
  k2 = k2
  Accounts = {ann, ben}
  Channels = {lounge, stage}
  Connections = {k1, k2}
  VoiceLimit = 1
  Tokens = {}
  Blocks = {}
  UseLimits = {}
  MaxInvites = 0
  MaxNames = 0
  NoAccount = NoAccount
  NoInvite = NoInvite
  NoLimit = NoLimit
  NoRow = NoRow
  NoConnection = NoConnection
SYMMETRY MCSymmetry
CONSTRAINT OneOutcast
INVARIANTS
  VoiceIsForMembers
  NoGhosts
