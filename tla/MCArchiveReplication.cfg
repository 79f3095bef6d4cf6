SPECIFICATION ReplicationSpec
CONSTANTS
  Keys = {k1, k2}
  Values = {v1, v2}
  NoRow = NoRow
  MaxIdentities = 2
  MaxInbox = 1
  MaxQueue = 3
SYMMETRY MCSymmetry
CONSTRAINT ShortQueue
CHECK_DEADLOCK FALSE
INVARIANTS
  KnownRowsAreArchived
  
  WaitingWorkerIsRegistered
