SPECIFICATION CommandLineSpec
CONSTANTS
  A = A
  B = B
  None = None
  EmptyLabel = EmptyLabel
  Labels <- TwoLabels
  Registers <- SomeRegisters
  Arrays <- NoArrays
  Sources <- AllTexts
  Configs <- AllConfigs
  MaxRegs <- SmallRegs
  Inputs <- KernelsAndMachines
INVARIANTS
  TypeOK
  AcceptedIfWellFormed
  BranchesGoToLabels
  RegistersAgree
  ThreadsLaunchedOnce
  WarpsNumbered
  SparesNotCompared
  OccupancyIsMost
  OccupancyLimitBinds
CHECK_DEADLOCK FALSE
