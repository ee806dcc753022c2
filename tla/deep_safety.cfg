SPECIFICATION Spec
CONSTANTS
  f1 = f1
  f2 = f2
  p1 = p1
  p2 = p2
  box = box
  NoProc = NoProc
  NoCont = NoCont
  Flow <- TwoFlows
  Proc <- TwoProcs
  Cont <- OneBox
  ContainerOf <- Containers
  Loud <- TwoLevels
  MaxInput = 2
  MaxConnections = 2
  QueueMax = 2
  MaxAttempts = 2
  BatchSizes <- OneOrTwo
SYMMETRY FlowSymmetry
INVARIANT
  TypeOK
  WorkIsScheduled
  MirrorInStep
  
  ReasonMatchesProcess
PROPERTY
  RefinementsOnlyAdd
