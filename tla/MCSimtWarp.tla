----------------------------- MODULE MCSimtWarp -----------------------------
(***************************************************************************)
(* Program families for model checking SimtWarp.                           *)
(***************************************************************************)
EXTENDS SimtWarp, TLC

CONSTANTS l1, l2, l3

ThreeLanes == {l1, l2, l3}

(* A full warp, and a last warp of a CTA with a lane past blockDim. *)
TwoMasks == {ThreeLanes, {l1, l2}}
FullMask == {ThreeLanes}

LaneSymmetry == Permutations(ThreeLanes)

(* Every program of length n without BRA: all control flow is BRA.P and HALT *)
BraFree(n) == [1..n -> {NOP, HALT} \cup {BRAP(t) : t \in 0..n}]

(* Every program of length n, whatever its jumps. *)
AnyControl(n) == [1..n -> {NOP, HALT} \cup {BRA(t) : t \in 0..n} \cup {BRAP(t) : t \in 0..n}]

BraFreePrograms == UNION {BraFree(n) : n \in 1..4}
AllPrograms == UNION {AnyControl(n) : n \in 1..3}

-----------------------------------------------------------------------------
(* The layout of an if/else whose two arms join: the taken arm comes last  *)
(* and both arms end with BRA join.                                        *)
IfElse(at, thenBody, elseBody) ==
  LET thenAt == at + 1 + Len(elseBody) + 1
      joinAt == thenAt + Len(thenBody) + 1
  IN  <<BRAP(thenAt)>> \o elseBody \o <<BRA(joinAt)>> \o thenBody \o <<BRA(joinAt)>>

(* Two if/elses in a row; one in the deferred arm of another, with an      *)
(* instruction between the two joins; a loop that lanes leave one by one.  *)
TwoInARow ==
  LET first == IfElse(0, <<NOP>>, << >>)
  IN  first \o IfElse(Len(first), << >>, <<NOP>>) \o <<HALT>>

InDeferredArm ==
  LET inner(at) == IfElse(at, << >>, <<NOP>>) \o <<NOP>>
  IN  IfElse(0, <<NOP>>, inner(1)) \o <<HALT>>

LoopWithExit == <<NOP, BRAP(0), NOP, HALT>>

(* All the structured programs of length 4, an if/else within a deferred   *)
(* arm among them.                                                         *)
SmallStructured == {p \in AnyControl(4) : Structured(p)}

LaidOutPrograms == {TwoInARow, InDeferredArm, LoopWithExit}

ThreadPrograms == BraFreePrograms \cup SmallStructured \cup LaidOutPrograms

(* if a then (if b then .. else ..) else ..: the inner if/else is in the   *)
(* outer one's taken arm.                                                  *)
InTakenArm ==
  LET inner(at) == IfElse(at, <<NOP>>, << >>) \o <<NOP>>
  IN  IfElse(0, inner(3), <<NOP>>) \o <<HALT>>

(* if a .. else if b .. else ..: the inner if/else is the whole of the     *)
(* outer one's deferred arm, and all arms join at the same label.          *)
ElseIfChain ==
  LET inner == <<BRAP(4), NOP, BRA(8), NOP, BRA(8)>>
  IN  <<BRAP(6)>> \o inner \o <<NOP, BRA(8), NOP, HALT>>

(* if a then {BRA join} else return; .. join: *)
ReturnInElse == <<BRAP(2), HALT, BRA(3), NOP, HALT>>

NestedPrograms == {InTakenArm}
ElseIfPrograms == {ElseIfChain}
ReturnPrograms == {ReturnInElse}

NoArrays == {}
=============================================================================
