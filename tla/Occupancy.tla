------------------------------- MODULE Occupancy -------------------------------
(***************************************************************************)
(* How many CTAs of a kernel an SM could hold at once, as --occupancy      *)
(* reports it (occupancy.cpp), for a configuration c and the largest       *)
(* register number maxReg the kernel names.  It only informs: the launch   *)
(* does not look at it.                                                    *)
(***************************************************************************)
EXTENDS Integers, FiniteSetsExt

(* The dimensions of a launch, which gpu.cpp, reference_gpu.cpp and        *)
(* occupancy.cpp compute alike: 0 stands for a default.                    *)
gridDimFor(c) == IF c.gridDim = 0 THEN c.smCount ELSE c.gridDim

blockDimFor(c) == IF c.blockDim = 0 THEN c.warpsPerSM * c.lanesPerWarp ELSE c.blockDim

(* Wrong variant: rounded down. *)
fullWarpsPerCTA(c) == Max({1, blockDimFor(c) \div c.lanesPerWarp})

warpsPerCTAFor(c) == (blockDimFor(c) + c.lanesPerWarp - 1) \div c.lanesPerWarp

regsPerWarp(c, maxReg) == Max({1, (maxReg + 1) * c.lanesPerWarp})

byRegisters(c, maxReg) == c.registerFileEntriesPerSM \div regsPerWarp(c, maxReg)

ctasByShared(c) ==
  IF c.maxSharedMemoryPerCTA = 0 THEN c.warpsPerSM
  ELSE c.sharedMemoryBytesPerSM \div c.maxSharedMemoryPerCTA

byShared(c) == ctasByShared(c) * warpsPerCTAFor(c)

(* Wrong variant: a limit of CTAs is taken for a limit of warps. *)
activeWarpsByCTAs(c, maxReg) == Min({c.warpsPerSM, byRegisters(c, maxReg), ctasByShared(c)})

activeWarps(c, maxReg) == Min({c.warpsPerSM, byRegisters(c, maxReg), byShared(c)})

activeCTAs(c, maxReg) == activeWarps(c, maxReg) \div warpsPerCTAFor(c)

(* Wrong variant: the limits are compared with the number of warp slots    *)
(* only.                                                                   *)
limitBySlots(c, maxReg) ==
  IF byRegisters(c, maxReg) <= c.warpsPerSM THEN "registers"
  ELSE IF byShared(c) <= c.warpsPerSM THEN "shared memory" ELSE "warp slots"

limitingFactor(c, maxReg) ==
  IF activeWarps(c, maxReg) = byRegisters(c, maxReg) THEN "registers"
  ELSE IF activeWarps(c, maxReg) = byShared(c) THEN "shared memory"
  ELSE "warp slots"

-----------------------------------------------------------------------------
(* What n resident CTAs, and n resident warps, take. *)
CTAsFit(c, maxReg, n) ==
  /\ n * warpsPerCTAFor(c) <= c.warpsPerSM
  /\ n * warpsPerCTAFor(c) * regsPerWarp(c, maxReg) <= c.registerFileEntriesPerSM
  /\ n * c.maxSharedMemoryPerCTA <= c.sharedMemoryBytesPerSM

WarpsTake(c, maxReg, n) ==
  [slots     |-> n,
   registers |-> n * regsPerWarp(c, maxReg),
   ctas      |-> (n + warpsPerCTAFor(c) - 1) \div warpsPerCTAFor(c)]

(* The reported number of CTAs fits in an SM, and one more would not: the  *)
(* rounding of warps to CTAs, registers to warps and shared memory to CTAs *)
(* loses nothing.                                                          *)
CTAsAreMost(c, maxReg) ==
  /\ CTAsFit(c, maxReg, activeCTAs(c, maxReg))
  /\ ~ CTAsFit(c, maxReg, activeCTAs(c, maxReg) + 1)

(* The resource that the report names is used up: one warp more than the   *)
(* reported number would exceed it.                                        *)
LimitBinds(c, maxReg) ==
  LET more == WarpsTake(c, maxReg, activeWarps(c, maxReg) + 1)
  IN  CASE limitingFactor(c, maxReg) = "registers"
             -> more.registers > c.registerFileEntriesPerSM
        [] limitingFactor(c, maxReg) = "shared memory" -> more.ctas > ctasByShared(c)
        [] limitingFactor(c, maxReg) = "warp slots"    -> more.slots > c.warpsPerSM
=============================================================================
