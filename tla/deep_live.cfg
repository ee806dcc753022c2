SPECIFICATION FairSpec
CONSTANTS
  f1 = f1
  f2 = f2
  p1 = p1
  p2 = p2
  box = box
  NoProc = NoProc
  NoCont = NoCont
  Flow <- TwoFlows
  Proc <- TwoProcs
  Cont <- OneBox
  ContainerOf <- Containers
  Loud <- TwoLevels
  MaxInput = 2
  MaxConnections = 1
  QueueMax = 1
  MaxAttempts = 3
  BatchSizes <- OneOrTwo

  
PROPERTY
  RequestsAgeOut
