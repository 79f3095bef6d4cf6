SPECIFICATION LifecycleSpec
CONSTANTS
  m1 = m1
  s1 = s1
  c1 = c1
  k1 = k1
  k2 = k2
  Messages <- MCMessages
  DirectMessages = {}
  Accounts = {}
  Spaces <- MCSpaces
  Channels <- MCChannels
  Keys <- MCKeys
  ChannelOf <- MCChannelOf
  SpaceOf <- MCSpaceOf
  Scope <- MCScope
  BatchSize = 1
INVARIANTS
  AttachedIsStored
  OldObjectsKept
  TrustedReferencesExact
PROPERTIES
  ImplementsStore
