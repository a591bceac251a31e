SPECIFICATION HistorySpec
CONSTANTS
  l1 = l1
  l2 = l2
  r1 = r1
  a = a
  c1 = c1
  c2 = c2
  None = None
  Lanes <- TwoLanes
  Registers <- OneRegister
  Arrays <- OneArray
  CTAs <- TwoCTAs
  WarpCount = 4
  CtaOf <- ThreeAndOne
  LaunchMask <- FullMask
  Programs <- BarrierKernels
  Policies = {"RoundRobin", "GreedyThenOldest"}
  PipelineCount <- NoSfu
  MaxOutstanding = 2
  L1HitLatency = 1
  L1MissLatency = 3
  SharedMemoryLatency = 2
  MaxBankConflicts = 0
  MaxCycles = 18
INVARIANTS
  BarrierRegistered
  NoOvertaking
  BarrierCountsExactly
  StuckIsExplained
CHECK_DEADLOCK FALSE
