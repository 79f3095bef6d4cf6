SPECIFICATION CallsSpec
CONSTANTS
  lounge = lounge
  ben = ben
  Targets = {lounge, ben}
  MaxCalls = 2
  MaxSockets = 2
  NoTarget = NoTarget
  Devices = {d1, d2}
  DefaultDevice = d1
  OutputSwitchable = TRUE
  MaxClicks = 3
  MaxHandlers = 2
  MaxFaults = 1
  Tracks = {t1, t2}
  NoTrack = NoTrack
  Models = {rnnoise, deepfilternet}
  DefaultModel = rnnoise
  Sinks = {s1, s2}
  MaxEvents = 6
  MaxMounts = 4
SYMMETRY MCSymmetry
CONSTRAINT FewAtOnce
CHECK_DEADLOCK FALSE
INVARIANTS
  OnlyTheCallIsOnAir
  HungUpIsSilent
  FilterFollowsSettings
PROPERTIES
  NewerCallKeepsPresence
