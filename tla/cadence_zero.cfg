SPECIFICATION Spec
CONSTANTS
  c1 = c1
  c2 = c2
  c3 = c3
  net = net
  conn = conn
  Client <- TwoClients
  Monitor <- OnlyNet
  Fallible <- OnlyNet
  Unreported <- Nobody
  Request <- FewRequests
  UIntMod = 16
  MaxHints = 2
  ActiveInterval = 3
  Slow1Interval = 4
  Slow2Interval = 5
  MinInterval = 2
  ActiveWindow = 3
  Slow1Window = 5
  Slow2Window = 7
  IdleTimeout = 0
  HintTtl = 3
  TickPeriod = 2
  MaxLag = 1
  DefaultPoll = 3
  ElapsedCap = 7
  InboxBound = 3
INVARIANT
  ZeroTimeoutNeverPauses
