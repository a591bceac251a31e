------------------------------- MODULE Relaunch -------------------------------
(***************************************************************************)
(* An SM that is given one kernel after another: GPU::loadProgram may be   *)
(* called again after GPU::run has returned, or has thrown at its cycle    *)
(* limit with instructions in flight.  setWarps brings new warps and       *)
(* clears the two queues and the barriers (sm.cpp:59); the scheduler and   *)
(* the pipelines stay as the last run left them, though GPU::run counts    *)
(* cycles from 0 again.                                                    *)
(***************************************************************************)
EXTENDS ProgramOrder

CONSTANTS
  MaxLaunches,    \* the bound on the number of kernels
  Limits          \* the cycle limits of the runs

ASSUME LimitsAssumption == MaxLaunches \in Nat /\ Limits \subseteq Nat

VARIABLES
  launches,       \* the number of kernels launched
  longestRun      \* history: the cycles of the longest run so far

relaunchVars == <<vars, dataVars, launches, longestRun>>

RelaunchInit == DataInit /\ launches = 1 /\ longestRun = 0

(* Wrong variant: what was in flight lands in the next run. *)
queuesKept == UNCHANGED <<pendingWrites, memoryRequests, barriers>>

(* setWarps, besides the warps. *)
queuesCleared ==
  /\ pendingWrites' = {} /\ memoryRequests' = {}
  /\ barriers' = [c \in CTAs |-> NoBarrier]

(* GPU::loadProgram and the start of GPU::run.  Values are numbered by the *)
(* instructions of one run: what memory holds is the initial value of the  *)
(* next.                                                                   *)
loadProgram ==
  /\ phase = "writeback" /\ launches < MaxLaunches
  /\ Active => cycle \in Limits
  /\ launches' = launches + 1
  /\ longestRun' = IF cycle < longestRun THEN longestRun ELSE cycle
  /\ program' \in Programs
  /\ warps' = [w \in Warps |-> NewWarp(LaunchMask[w])]
  /\ waitingOnGlobalMemory' = {} /\ waitingOnBarrier' = {}
  /\ scoreboard' = [w \in Warps |-> [r \in Registers |-> 0]]
  /\ lastIssueCycle' = [w \in Warps |-> 0]
  /\ queuesCleared
  /\ UNCHANGED <<scheduler, busyUntil, phase>>
  /\ cycle' = 0 /\ issued' = 0 /\ retired' = 0
  /\ registers' = [w \in Warps |-> [l \in Lanes |-> [r \in Registers |-> 0]]]
  /\ expectedRegisters' = registers'
  /\ memory' = [row \in Arrays \X Warps |-> [l \in Lanes |-> 0]]
  /\ expectedMemory' = memory'

RelaunchNext == loadProgram \/ (DataNext /\ UNCHANGED <<launches, longestRun>>)

RelaunchSpec == RelaunchInit /\ [][RelaunchNext]_relaunchVars

-----------------------------------------------------------------------------
(* What a pipeline's busyUntil keeps from an earlier run delays the next   *)
(* ones no longer than that run took: a unit whose pipelines are all busy  *)
(* is free again before the count of cycles reaches the end of the longest *)
(* run so far.  (The end of the last run would not do: a short run leaves  *)
(* the mark of a longer one before it standing.)                           *)
BusyFromEarlierRuns ==
  phase = "issue" =>
    \A u \in Units : PipelineCount[u] > 0 /\ ~ functionUnitReady(u) => cycle < longestRun
=============================================================================
