--------------------------- MODULE MCBarrierOrder ---------------------------
(***************************************************************************)
(* Kernels for model checking BarrierOrder.                                *)
(***************************************************************************)
EXTENDS BarrierOrder

CONSTANTS l1, l2, r1, a, c1, c2

TwoLanes == {l1, l2}
OneRegister == {r1}
OneArray == {a}
TwoCTAs == {c1, c2}
FullMask == [w \in Warps |-> TwoLanes]
NoSfu == [u \in Units |-> IF u = "Sfu" THEN 0 ELSE 1]

(* Three warps in one CTA and one in another. *)
ThreeAndOne == [w \in Warps |-> IF w = 3 THEN c2 ELSE c1]

-----------------------------------------------------------------------------
TwoBarriers == << LDGLOBAL(r1, a), BARSYNC, ALU(r1, {r1}), BARSYNC, HALT >>

(* Lanes of a warp may arrive at different times, some warps arrive once   *)
(* for each half and some once for both.                                   *)
SplitArrival == << BRAP(3), BARSYNC, HALT, NOP, BARSYNC, BARSYNC, HALT >>

(* Some warps end without arriving. *)
EarlyExit == << BRAP(3), BARSYNC, BARSYNC, HALT >>

(* The barrier is in a loop. *)
BarrierLoop == << BARSYNC, BRAP(0), HALT >>

(* Some warps run past the end, or need a unit there is none of. *)
RunsOff == << BRAP(3), BARSYNC, HALT >>
NeedsSfu == << BRAP(3), BARSYNC, HALT, MUL(r1, {}), HALT >>

BarrierKernels == {TwoBarriers, SplitArrival, EarlyExit, BarrierLoop, RunsOff, NeedsSfu}
=============================================================================
