SPECIFICATION FairSpec
CONSTANTS
  f1 = f1
  f2 = f2
  p1 = p1
  p2 = p2
  box = box
  NoProc = NoProc
  NoCont = NoCont
  Flow <- OneFlow
  Proc <- TwoProcs
  Cont <- OneBox
  ContainerOf <- Containers
  Loud <- OneLevel
  MaxInput = 1
  MaxConnections = 2
  QueueMax = 1
  MaxAttempts = 2
  BatchSizes <- OneOrTwo
PROPERTY
  OwnerlessLeftAlone
