--------------------------- MODULE MCProgramOrder ---------------------------
(***************************************************************************)
(* Kernels for model checking ProgramOrder.                                *)
(***************************************************************************)
EXTENDS ProgramOrder

CONSTANTS l1, l2, r1, r2, a, b, c1

TwoLanes == {l1, l2}
TwoRegisters == {r1, r2}
TwoArrays == {a, b}
PrivateArray == {a}
OneCTASet == {c1}
OneCTA == [w \in Warps |-> c1]
FullMask == [w \in Warps |-> TwoLanes]
OnePipeline == [u \in Units |-> 1]

-----------------------------------------------------------------------------
(* Slow results are used before their register is written again; each warp *)
(* stores and reloads its own row; results of one arm land while the other *)
(* runs, and both arms write one register, each for its lanes.             *)
UseBeforeOverwrite ==
  << MUL(r1, {}), ALU(r2, {r1}), LDSHARED(r1, a), STGLOBAL(a, r1), MUL(r1, {r1, r2}),
     LDGLOBAL(r2, a), STGLOBAL(a, r1), LDGLOBAL(r1, a), ALU(r1, {r1, r2}), HALT >>

ArmsOverwrite ==
  << SETP({}), BRAP(5), LDSHARED(r1, a), ALU(r2, {}), BRA(8),
     STGLOBAL(a, r2), MUL(r1, {}), BRA(8), ALU(r2, {r1}), STGLOBAL(a, r2), HALT >>

SameCycle ==
  << MUL(r1, {}), NOP, NOP, ALU(r1, {}), ALU(r2, {r1}), ALU(r1, {r2}), HALT >>

OrderedKernels == {UseBeforeOverwrite, ArmsOverwrite, SameCycle}

(* A shared load and, in the next cycle, a slower product to the same      *)
(* register: in order as long as the load has no bank conflict.            *)
LoadThenProduct == << LDSHARED(r1, a), MUL(r1, {}), ALU(r2, {r1}), HALT >>

(* A store and a load of the same words. *)
StoreThenLoad == << STGLOBAL(a, r1), LDGLOBAL(r2, a), ALU(r1, {r2}), HALT >>

(* Two stores to the same words. *)
StoreThenStore == << STGLOBAL(a, r1), STGLOBAL(a, r2), HALT >>

ConflictKernels == {LoadThenProduct}
ReloadKernels == {StoreThenLoad}
RestoreKernels == {StoreThenStore}
=============================================================================
