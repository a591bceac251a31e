---------------------- MODULE MCStreamingMultiprocessor ----------------------
(***************************************************************************)
(* Kernels and launches for model checking StreamingMultiprocessor and     *)
(* InvariantChecker.                                                       *)
(***************************************************************************)
EXTENDS InvariantChecker, TLC

CONSTANTS l1, l2, r1, r2, a, c1, c2

TwoLanes == {l1, l2}
TwoRegisters == {r1, r2}
OneArray == {a}
TwoCTAs == {c1, c2}

(* A CTA of two warps and one of one warp. *)
SplitCTAs == [w \in Warps |-> IF w = 2 THEN c2 ELSE c1]

(* The last warp has a lane past blockDim. *)
TailMask == [w \in Warps |-> IF w = WarpCount - 1 THEN {l1} ELSE TwoLanes]

TwoIntAlus == [u \in Units |-> IF u = "IntAlu" THEN 2 ELSE 1]

-----------------------------------------------------------------------------
(* A kernel with every kind of instruction: a load whose result is used, a *)
(* slow multiplication, a shared load, a divergent branch that rejoins, a  *)
(* barrier and a store. *)
EveryKind ==
  << LDGLOBAL(r1, a), MUL(r2, {r1}), SETP({r1}),
     BRAP(6), NOP, BRA(7), BRA(7),
     STSHARED(a, r1), BARSYNC, LDSHARED(r1, a), ALU(r2, {r1, r2}),
     STGLOBAL(a, r2), HALT >>

(* Several results on their way to one register. *)
Overlapping ==
  << MUL(r1, {}), LDSHARED(r1, a), ALU(r1, {}), LDGLOBAL(r1, a), ALU(r2, {r1}), HALT >>

(* More memory instructions than the queue has room for. *)
MemoryBound ==
  << STGLOBAL(a, r1), LDGLOBAL(r1, a), STGLOBAL(a, r1), STGLOBAL(a, r2), HALT >>

(* Two barriers with work of different length between them. *)
TwoBarriers ==
  << LDGLOBAL(r1, a), BARSYNC, MUL(r2, {r1}), ALU(r1, {r2}), BARSYNC, STGLOBAL(a, r1), HALT >>

Kernels == {EveryKind, Overlapping, MemoryBound, TwoBarriers}
=============================================================================
