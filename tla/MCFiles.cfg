SPECIFICATION FilesSpec
CONSTANTS
  alice = alice
  bob = bob
  u1 = u1
  u2 = u2
  u3 = u3
  w1 = w1
  w2 = w2
  NoUpload = none
  Users <- MCUsers
  Uploads <- MCUploads
  Owner <- MCOwner
  Size <- MCSize
  VideoSize = 1
  LegacyRows <- MCLegacy
  MaxDay = 2
  Limits <- MCLimits
  Workers <- MCWorkers
  v1 = v1
  NoVideo = none
  Videos <- MCVideos
  MaxAttempts = 3
  k1 = k1
  Keys = {k1}
  Rows = {"message", "reply"}
  Accounts = {"a", "b"}
  FirstAccount = "a"
  NoOne = "no one"
  Life = 3
  EarlyRefresh = 2
  RequestTimeout = 1
  ResolveTimeout = 1
  Recheck = 1
  Ids = {1, 2}
  MaxAsks = 2
  MaxUpsets = 1
  LinksEnd = 3
  Clips = {"v1", "v2"}
  Floats = "floats"
  Length = 1
  MaxKept = 1
  MaxLoads = 2
SYMMETRY Symmetry
CHECK_DEADLOCK FALSE
INVARIANTS
  ChargedOnce
  NoCircularWait
  SegmentsAreCharged
  
  SpinnerHasRequest
  PlayerHasAPlace
