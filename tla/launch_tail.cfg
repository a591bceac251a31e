SPECIFICATION CommandLineSpec
CONSTANTS
  A = A
  B = B
  None = None
  EmptyLabel = EmptyLabel
  Labels <- TwoLabels
  Registers <- SomeRegisters
  Arrays <- NoArrays
  Sources <- AllTexts
  Configs <- AllConfigs
  MaxRegs <- SmallRegs
  Inputs <- TailInput
INVARIANT
  ComparedLanesRan
CHECK_DEADLOCK FALSE
