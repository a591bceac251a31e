SPECIFICATION FairSpec
CONSTANTS
  l1 = l1
  l2 = l2
  r1 = r1
  r2 = r2
  a = a
  c1 = c1
  c2 = c2
  None = None
  Lanes <- TwoLanes
  Registers <- TwoRegisters
  Arrays <- OneArray
  CTAs <- TwoCTAs
  WarpCount = 3
  CtaOf <- SplitCTAs
  LaunchMask <- TailMask
  Programs <- Kernels
  Policies = {"RoundRobin", "GreedyThenOldest", "OldestReady", "TwoLevel"}
  PipelineCount <- TwoIntAlus
  MaxOutstanding = 2
  L1HitLatency = 1
  L1MissLatency = 3
  SharedMemoryLatency = 2
  MaxBankConflicts = 1
  MaxCycles = 80
INVARIANTS
  TypeOK
  ScoreboardExact
  LoadHoldsWarp
  InstructionsAccounted
  PredicatesSettled
  PipelinesFree
  DoneWaitsForNothing
  EndsClean
PROPERTIES
  WarpsAreSimt
  RunCompletes
CHECK_DEADLOCK FALSE
