SPECIFICATION FairSpec
CONSTANTS
  l1 = l1
  l2 = l2
  l3 = l3
  Lanes <- ThreeLanes
  LaunchMasks <- FullMask
  Programs <- NestedPrograms
  Registers = {r1}
  Arrays <- NoArrays
  None = None
  Exited = Exited
PROPERTY
  ThreadsSpec
CHECK_DEADLOCK FALSE
