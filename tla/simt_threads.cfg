SPECIFICATION FairSpec
CONSTANTS
  l1 = l1
  l2 = l2
  l3 = l3
  Lanes <- ThreeLanes
  LaunchMasks <- TwoMasks
  Programs <- ThreadPrograms
  Registers = {r1}
  Arrays <- NoArrays
  None = None
  Exited = Exited
PROPERTIES
  ThreadsSpec
  ForwardFinishes
CHECK_DEADLOCK FALSE
