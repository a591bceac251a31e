-------------------------- MODULE SchedulerFairness --------------------------
(***************************************************************************)
(* The scheduler alone, against any pattern of readiness: in every cycle   *)
(* some warps are ready, and the one selected issues (sm.cpp then sets its *)
(* lastIssueCycle).  The history variable passedOver counts, per warp, the *)
(* turns it has lost in a row while ready.  A turn is a selection, except  *)
(* that GreedyThenOldest staying with its greedy warp prolongs that warp's *)
(* turn.                                                                   *)
(***************************************************************************)
EXTENDS WarpScheduler, FiniteSets

CONSTANTS
  WarpCount,    \* the number of warps
  Policies,     \* the policies to examine
  MaxCycles     \* the bound on the cycle count

ASSUME FairnessAssumption ==
  /\ WarpCount \in Nat \ {0} /\ MaxCycles \in Nat
  /\ Policies \subseteq SchedulerPolicies

Warps == 0..(WarpCount - 1)

VARIABLES scheduler, lastIssueCycle, cycle, passedOver

vars == <<scheduler, lastIssueCycle, cycle, passedOver>>

Init ==
  /\ \E policy \in Policies : scheduler = NewScheduler(policy)
  /\ lastIssueCycle = [w \in Warps |-> 0]
  /\ cycle = 0
  /\ passedOver = [w \in Warps |-> 0]

Prolongs(selected) ==
  scheduler.policy = "GreedyThenOldest" /\ selected = scheduler.greedyWarp

Select(ready) ==
  LET selected == select(scheduler, ready, lastIssueCycle, WarpCount)
  IN  /\ scheduler' = afterSelect(scheduler, selected, WarpCount)
      /\ lastIssueCycle' = [lastIssueCycle EXCEPT ![selected] = cycle + 1]
      /\ passedOver' = [w \in Warps |->
           IF w \notin ready \ {selected} THEN 0
           ELSE IF Prolongs(selected) THEN passedOver[w]
           ELSE passedOver[w] + 1]

(* The SM calls the scheduler only with a nonempty set of ready warps. *)
Tick ==
  /\ cycle < MaxCycles
  /\ cycle' = cycle + 1
  /\ \E ready \in (SUBSET Warps) \ {{}} : Select(ready)

NothingReady ==
  /\ cycle < MaxCycles
  /\ cycle' = cycle + 1
  /\ passedOver' = [w \in Warps |-> 0]
  /\ UNCHANGED <<scheduler, lastIssueCycle>>

Next == Tick \/ NothingReady

Spec == Init /\ [][Next]_vars

-----------------------------------------------------------------------------
(* A warp that stays ready gets its turn before any other warp has two: it *)
(* loses at most WarpCount - 1 in a row.  So RoundRobin, OldestReady and   *)
(* TwoLevel starve no warp; GreedyThenOldest may, by an endless turn of    *)
(* its greedy warp only.                                                   *)
BoundedWaiting == \A w \in Warps : passedOver[w] < WarpCount
=============================================================================
