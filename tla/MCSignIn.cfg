CONSTANTS
  Accounts = {a, b}
  Nobody = Nobody
  Anonymous = Anonymous
  MaxFlows = 2
  Tabs = {t1, t2}
  Pause = 2
  InitialPause = 1
  LastMoment = 5
  MaxWaiting = 2
  h1 = h1
  h2 = h2
  e1 = e1
  e2 = e2
  e3 = e3
  Hosts = {h1, h2}
  Ends = {e1, e2, e3}
  Nowhere = Nowhere
  Loopback = {e2, e3}
  Configs <- MCConfigs
SPECIFICATION EntrySpec
CHECK_DEADLOCK FALSE
INVARIANTS
  OneAccount
  SessionStaysHome
