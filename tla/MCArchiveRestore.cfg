SPECIFICATION RestoreSpec
CONSTANTS
  m1 = m1
  d1 = d1
  s1 = s1
  c1 = c1
  p1 = p1
  k1 = k1
  k2 = k2
  Messages <- MCMessages
  DirectMessages <- MCDirectMessages
  Accounts = {}
  Spaces <- MCSpaces
  Channels <- MCChannels
  Keys <- MCKeys
  PlainRows <- MCPlainRows
  ChannelOf <- MCChannelOf
  SpaceOf <- MCSpaceOf
  Scope <- MCScope
  RestoresInTime = TRUE
  FilesPredateWipe = TRUE
INVARIANTS
  ArchiveIntactDuringRestore
PROPERTIES
  RebuildRestoresEverything
