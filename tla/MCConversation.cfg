SPECIFICATION ConversationSpec
CONSTANTS
  Accounts = {a1, a2}
  Nobody = Nobody
  Files = {f1, f2}
  Large = {f1}
  Parts = {1, 2}
  MaxParallel = 2
  Uploads = {u1, u2}
  None = None
  MaxTasks = 2
  MaxLogins = 2
  Window = 1
  PageSize = 2
  MaxSent = 6
  MaxChanged = 2
  MaxShared = 1
SYMMETRY MCSymmetry
CONSTRAINT Few
CHECK_DEADLOCK FALSE
INVARIANTS
  FetchedIsContiguous
  SentIsStored
  SentByItsWriter
