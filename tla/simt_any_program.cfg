SPECIFICATION Spec
CONSTANTS
  l1 = l1
  l2 = l2
  l3 = l3
  Lanes <- ThreeLanes
  LaunchMasks <- TwoMasks
  Programs <- AllPrograms
  Registers = {r1}
  Arrays <- NoArrays
  None = None
  Exited = Exited
SYMMETRY LaneSymmetry
INVARIANTS
  TypeOK
  LanesOnOnePath
  ActiveUntilDone
  StackBounded
PROPERTY
  OnlyHaltMisplaces
CHECK_DEADLOCK FALSE
