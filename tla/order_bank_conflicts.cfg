SPECIFICATION DataFairSpec
CONSTANTS
  l1 = l1
  l2 = l2
  r1 = r1
  r2 = r2
  a = a
  b = b
  c1 = c1
  None = None
  Lanes <- TwoLanes
  Registers <- TwoRegisters
  Arrays <- TwoArrays
  PrivateArrays <- PrivateArray
  CTAs <- OneCTASet
  WarpCount = 1
  CtaOf <- OneCTA
  LaunchMask <- FullMask
  Programs <- ConflictKernels
  Policies = {"RoundRobin"}
  PipelineCount <- OnePipeline
  MaxOutstanding = 3
  L1HitLatency = 2
  L1MissLatency = 2
  SharedMemoryLatency = 4
  MaxBankConflicts = 2
  MaxCycles = 40
INVARIANT
  RegistersInOrder
CHECK_DEADLOCK FALSE
