-------------------------------- MODULE Launch --------------------------------
(***************************************************************************)
(* GPU::configureLaunchWarps (gpu.cpp): the CTAs of the grid are cut into  *)
(* warps and dealt to the SMs in turn, one warp after the other, and an SM *)
(* that got none is given a spare warp.  The properties hold the result    *)
(* against the threads of ReferenceGPU and the comparison that             *)
(* runGpuDifferentialTest makes.                                           *)
(***************************************************************************)
EXTENDS Occupancy, Sequences

CONSTANTS
  Configs,     \* the configurations, as far as the launch and the report look
  MaxRegs      \* the largest registers that kernels name

Configurations ==
  [smCount : Nat \ {0}, warpsPerSM : Nat \ {0}, lanesPerWarp : Nat \ {0},
   gridDim : Nat, blockDim : Nat, registerFileEntriesPerSM : Nat,
   sharedMemoryBytesPerSM : Nat, maxSharedMemoryPerCTA : Nat]

ASSUME ConfigsAssumption == Configs \subseteq Configurations /\ MaxRegs \subseteq Nat

VARIABLES
  config,
  smWarps,           \* per SM, its warps
  globalWarpId,      \* the number of the next warp
  cta, blockWarp,    \* the loop counters: the warp to be placed next,
  sm                 \* and the SM to be given its warps next

launchVars == <<config, smWarps, globalWarpId, cta, blockWarp, sm>>

gridDim == gridDimFor(config)
blockDim == blockDimFor(config)
warpsPerCTA == warpsPerCTAFor(config)

SMs == 0..(config.smCount - 1)
LaneIds == 0..(config.lanesPerWarp - 1)

LaunchedWarps ==
  [id : Nat, ctaId : Nat, blockWarpId : Nat, activeMask : SUBSET LaneIds]

TypeOK ==
  /\ config \in Configs
  /\ smWarps \in [SMs -> Seq(LaunchedWarps)]
  /\ globalWarpId \in Nat
  /\ cta \in 0..gridDim /\ blockWarp \in 0..(warpsPerCTA - 1)
  /\ sm \in 0..config.smCount

Init ==
  /\ config \in Configs
  /\ smWarps = [s \in SMs |-> << >>]
  /\ globalWarpId = 0 /\ cta = 0 /\ blockWarp = 0 /\ sm = 0

-----------------------------------------------------------------------------
(* Wrong variant: the last warp of a CTA has a lane too many. *)
lanesUpTo(bw) == {lane \in LaneIds : bw * config.lanesPerWarp + lane <= blockDim}

(* The lanes of a CTA's warp that stand for a thread. *)
lanesOf(bw) == {lane \in LaneIds : bw * config.lanesPerWarp + lane < blockDim}

(* Wrong variant: warps are numbered by SM. *)
placedBySM ==
  [id |-> Len(smWarps[cta % config.smCount]), ctaId |-> cta, blockWarpId |-> blockWarp,
   activeMask |-> lanesOf(blockWarp)]

placedWarp ==
  [id |-> globalWarpId, ctaId |-> cta, blockWarpId |-> blockWarp,
   activeMask |-> lanesOf(blockWarp)]

(* The body of the two nested loops. *)
PlaceWarp ==
  /\ cta < gridDim
  /\ smWarps' = [smWarps EXCEPT ![cta % config.smCount] = Append(@, placedWarp)]
  /\ globalWarpId' = globalWarpId + 1
  /\ IF blockWarp + 1 < warpsPerCTA
     THEN blockWarp' = blockWarp + 1 /\ cta' = cta
     ELSE blockWarp' = 0 /\ cta' = cta + 1
  /\ UNCHANGED <<config, sm>>

(* Wrong variant: the spare warp has a lane too many. *)
spareTooWide ==
  [id |-> globalWarpId, ctaId |-> sm, blockWarpId |-> 0, activeMask |-> 0..config.lanesPerWarp]

(* A spare warp has all its lanes on. *)
spareWarp == [id |-> globalWarpId, ctaId |-> sm, blockWarpId |-> 0, activeMask |-> LaneIds]

(* The last loop: setWarps. *)
SetWarps ==
  /\ cta = gridDim /\ sm < config.smCount
  /\ IF smWarps[sm] = << >>
     THEN /\ smWarps' = [smWarps EXCEPT ![sm] = Append(@, spareWarp)]
          /\ globalWarpId' = globalWarpId + 1
     ELSE UNCHANGED <<smWarps, globalWarpId>>
  /\ sm' = sm + 1
  /\ UNCHANGED <<config, cta, blockWarp>>

Next == PlaceWarp \/ SetWarps

Spec == Init /\ [][Next]_launchVars

Launched == sm = config.smCount

-----------------------------------------------------------------------------
(* MOV.TID and MOV.GTID of a lane. *)
threadId(warp, lane) == warp.blockWarpId * config.lanesPerWarp + lane
globalThreadId(warp, lane) == warp.ctaId * blockDim + threadId(warp, lane)

(* The places of warps, and of the lanes that run. *)
Places == UNION {{s} \X DOMAIN smWarps[s] : s \in SMs}
warpAt(p) == smWarps[p[1]][p[2]]
RunningLanes == {x \in Places \X LaneIds : x[2] \in warpAt(x[1]).activeMask}

(* The lanes that run thread t of CTA c. *)
Runners(c, t) ==
  {x \in RunningLanes : warpAt(x[1]).ctaId = c /\ threadId(warpAt(x[1]), x[2]) = t}

(* Wrong variant: one CTA for each SM. *)
ThreadCountOfSMs == config.smCount * blockDim

(* The threads of the reference, and the lanes whose registers are         *)
(* compared with those of a thread.                                        *)
ThreadCount == gridDim * blockDim
Compared(warp, lane) == globalThreadId(warp, lane) < ThreadCount

-----------------------------------------------------------------------------
(* Every thread of the grid is run by exactly one lane, on the SM its CTA  *)
(* is dealt to, and any other lane that runs belongs to the spare warp of  *)
(* an SM that no CTA is dealt to.                                          *)
ThreadsLaunchedOnce ==
  Launched =>
    /\ \A c \in 0..(gridDim - 1), t \in 0..(blockDim - 1) :
         \E x \in RunningLanes : Runners(c, t) = {x} /\ x[1][1] = c % config.smCount
    /\ \A x \in RunningLanes :
         \/ warpAt(x[1]).ctaId < gridDim /\ threadId(warpAt(x[1]), x[2]) < blockDim
         \/ x[1][1] >= gridDim /\ Len(smWarps[x[1][1]]) = 1

(* No two warps have one number, and the warps of the grid have those that *)
(* MOV.WARPID gives in the reference (reference_gpu.cpp:115).              *)
WarpsNumbered ==
  /\ \A p, q \in Places : warpAt(p).id = warpAt(q).id => p = q
  /\ \A p \in Places :
       warpAt(p).ctaId < gridDim =>
         warpAt(p).id = warpAt(p).ctaId * warpsPerCTA + warpAt(p).blockWarpId

(* The registers of spare warps are not taken for those of a thread: the   *)
(* comparison skips the lanes of a warp outside the grid.                  *)
SparesNotCompared ==
  \A p \in Places, lane \in LaneIds :
    Compared(warpAt(p), lane) => warpAt(p).ctaId < gridDim

(* A lane that the comparison holds against a thread has run that thread.  *)
ComparedLanesRan ==
  \A p \in Places, lane \in LaneIds :
    Compared(warpAt(p), lane) => lane \in warpAt(p).activeMask

(* The occupancy report, for the configurations of the launches. *)
OccupancyIsMost == \A maxReg \in MaxRegs : CTAsAreMost(config, maxReg)
OccupancyLimitBinds == \A maxReg \in MaxRegs : LimitBinds(config, maxReg)
=============================================================================
