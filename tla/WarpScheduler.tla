---------------------------- MODULE WarpScheduler ----------------------------
(***************************************************************************)
(* The choice of the warp that issues (warp_scheduler.cpp).  The state of  *)
(* the scheduler is its policy, the round-robin cursor and the warp that   *)
(* GreedyThenOldest keeps issuing from.  Warps are 0 .. n-1, as in the     *)
(* code; ready is a nonempty set of them.                                  *)
(***************************************************************************)
EXTENDS Integers

SchedulerPolicies == {"RoundRobin", "GreedyThenOldest", "OldestReady", "TwoLevel"}

NoWarp == -1

NewScheduler(policy) == [policy |-> policy, roundRobinCursor |-> 0, greedyWarp |-> NoWarp]

(* The warp that issued longest ago, the lowest numbered of those. *)
OldestOf(ready, lastIssue) ==
  CHOOSE w \in ready :
    \A v \in ready : \/ lastIssue[w] < lastIssue[v]
                     \/ lastIssue[w] = lastIssue[v] /\ w <= v

(* The first ready warp from the cursor on, around the ring of n warps. *)
NextInRing(cursor, ready, n) ==
  CHOOSE w \in ready : \A v \in ready : (w + n - cursor) % n <= (v + n - cursor) % n

select(s, ready, lastIssue, n) ==
  IF s.policy = "GreedyThenOldest" /\ s.greedyWarp \in ready THEN s.greedyWarp
  ELSE IF s.policy = "RoundRobin" THEN NextInRing(s.roundRobinCursor, ready, n)
  ELSE OldestOf(ready, lastIssue)

(* Wrong variant: round-robin starts again at the warp it has selected. *)
afterSelectStays(s, selected, n) ==
  [s EXCEPT !.greedyWarp = selected,
            !.roundRobinCursor = IF s.policy = "RoundRobin" THEN selected ELSE @]

(* What select leaves behind: the selected warp is the greedy one (it      *)
(* already is when GreedyThenOldest stays with it), and round-robin moves  *)
(* its cursor past it.                                                     *)
afterSelect(s, selected, n) ==
  [s EXCEPT !.greedyWarp = selected,
            !.roundRobinCursor = IF s.policy = "RoundRobin" THEN (selected + 1) % n ELSE @]
=============================================================================
