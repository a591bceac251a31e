SPECIFICATION Spec
CONSTANTS
  WarpCount = 3
  MaxCycles = 9
  Policies = {"RoundRobin", "GreedyThenOldest", "OldestReady", "TwoLevel"}
INVARIANT
  BoundedWaiting
CHECK_DEADLOCK FALSE
