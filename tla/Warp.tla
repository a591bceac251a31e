-------------------------------- MODULE Warp --------------------------------
(***************************************************************************)
(* The control state of one warp (warp.hpp, divergence_stack.hpp) and the  *)
(* operations on it: a program counter, the mask of lanes that execute at  *)
(* it, and a stack of the paths those lanes have left behind.              *)
(*                                                                         *)
(* An entry is pushed when BRA.P splits the active lanes.  Until its taken *)
(* path reaches a BRA, the entry is unresolved: its deferred lanes wait at *)
(* deferredPc.  The BRA resolves it: the taken lanes become completedMask  *)
(* and wait at reconvergePc while the deferred lanes run.  A stack is a    *)
(* sequence whose head is the top.                                         *)
(***************************************************************************)
EXTENDS Integers, Sequences

(* hasReconvergePc = false is a reconvergePc of NoPc. *)
NoPc == -1

Entries(Lanes) == [deferredPc : Nat, deferredMask : SUBSET Lanes,
                   reconvergePc : Nat \cup {NoPc}, completedMask : SUBSET Lanes]

WarpStates(Lanes) == [pc : Nat, halted : BOOLEAN, activeMask : SUBSET Lanes,
                      stack : Seq(Entries(Lanes))]

(* A warp as it is launched, with the lanes below blockDim active. *)
NewWarp(mask) == [pc |-> 0, halted |-> FALSE, activeMask |-> mask, stack |-> << >>]

Done(wp) == wp.halted /\ wp.stack = << >>

hasReconvergePc(entry) == entry.reconvergePc # NoPc

advancePc(wp) == [wp EXCEPT !.pc = @ + 1]

-----------------------------------------------------------------------------
(* At the top entry's reconvergence point the completed lanes rejoin.  One *)
(* call pops one entry.                                                    *)
AtReconvergencePoint(wp) ==
  /\ wp.stack # << >>
  /\ Head(wp.stack).reconvergePc = wp.pc

(* Wrong variant: the entry stays on the stack. *)
reconvergeWithoutPop(wp) ==
  IF AtReconvergencePoint(wp)
  THEN [wp EXCEPT !.activeMask = @ \cup Head(wp.stack).completedMask]
  ELSE wp

(* Wrong variant: the rejoining lanes take the place of the running ones.  *)
reconvergeReplacesMask(wp) ==
  IF AtReconvergencePoint(wp)
  THEN [wp EXCEPT !.activeMask = Head(wp.stack).completedMask, !.stack = Tail(@)]
  ELSE wp

tryReconvergeAtCurrentPc(wp) ==
  IF AtReconvergencePoint(wp)
  THEN [wp EXCEPT !.activeMask = @ \cup Head(wp.stack).completedMask,
                  !.stack = Tail(@)]
  ELSE wp

Halts(wp) == [wp EXCEPT !.halted = TRUE, !.activeMask = {}]

(* Wrong variants of HALT with a deferred path: it resumes at the entry's  *)
(* reconvergePc, with the mask of the lanes that exit, or leaves the entry.*)

haltResumesAtReconvergePc(wp) ==
  IF wp.stack = << >> THEN Halts(wp)
  ELSE [wp EXCEPT !.pc = Head(wp.stack).reconvergePc,
                  !.activeMask = Head(wp.stack).deferredMask,
                  !.stack = Tail(@)]

haltKeepsMask(wp) ==
  IF wp.stack = << >> THEN Halts(wp)
  ELSE [wp EXCEPT !.pc = Head(wp.stack).deferredPc, !.stack = Tail(@)]

haltWithoutPop(wp) ==
  IF wp.stack = << >> THEN Halts(wp)
  ELSE [wp EXCEPT !.pc = Head(wp.stack).deferredPc,
                  !.activeMask = Head(wp.stack).deferredMask]

(* HALT: the active lanes exit and the top entry's deferred lanes resume,  *)
(* or the warp halts.                                                      *)
haltOrDeferToDivergenceStack(wp) ==
  IF wp.stack = << >> THEN Halts(wp)
  ELSE [wp EXCEPT !.pc = Head(wp.stack).deferredPc,
                  !.activeMask = Head(wp.stack).deferredMask,
                  !.stack = Tail(@)]

(* Wrong variant of BRA on an unresolved entry: the deferred lanes start   *)
(* at the reconvergence point the entry does not have yet.                 *)
branchSwapsPcs(wp, target) ==
  IF wp.stack # << >> /\ ~ hasReconvergePc(Head(wp.stack))
  THEN LET entry == Head(wp.stack)
       IN  [wp EXCEPT !.pc = entry.reconvergePc,
                      !.activeMask = entry.deferredMask,
                      !.stack = <<[entry EXCEPT !.reconvergePc = target,
                                                !.completedMask = wp.activeMask]>>
                                  \o Tail(@)]
  ELSE [wp EXCEPT !.pc = target]

(* BRA: ends the taken path of an unresolved entry, or jumps. *)
branch(wp, target) ==
  IF wp.stack # << >> /\ ~ hasReconvergePc(Head(wp.stack))
  THEN LET entry == Head(wp.stack)
       IN  [wp EXCEPT !.pc = entry.deferredPc,
                      !.activeMask = entry.deferredMask,
                      !.stack = <<[entry EXCEPT !.reconvergePc = target,
                                                !.completedMask = wp.activeMask]>>
                                  \o Tail(@)]
  ELSE [wp EXCEPT !.pc = target]

(* Wrong variants of BRA.P: the taken path runs with all the lanes; an     *)
(* entry is pushed even when no lane falls through.                        *)
branchKeepsMask(wp, target, takeMask) ==
  LET fallMask == wp.activeMask \ takeMask
  IN  IF takeMask = {} THEN advancePc(wp)
      ELSE IF fallMask = {} THEN [wp EXCEPT !.pc = target]
      ELSE [wp EXCEPT !.pc = target,
                      !.stack = <<[deferredPc |-> wp.pc + 1, deferredMask |-> fallMask,
                                   reconvergePc |-> NoPc, completedMask |-> {}]>> \o @]

branchAlwaysPushes(wp, target, takeMask) ==
  IF takeMask = {} THEN advancePc(wp)
  ELSE [wp EXCEPT !.pc = target,
                  !.activeMask = takeMask,
                  !.stack = <<[deferredPc |-> wp.pc + 1,
                               deferredMask |-> wp.activeMask \ takeMask,
                               reconvergePc |-> NoPc, completedMask |-> {}]>> \o @]

(* BRA.P, taken by the lanes of takeMask (their predicate is true). *)
branchOnPredicate(wp, target, takeMask) ==
  LET fallMask == wp.activeMask \ takeMask
  IN  CASE takeMask # {} /\ fallMask # {} ->
             [wp EXCEPT !.pc = target,
                        !.activeMask = takeMask,
                        !.stack = <<[deferredPc |-> wp.pc + 1,
                                     deferredMask |-> fallMask,
                                     reconvergePc |-> NoPc,
                                     completedMask |-> {}]>> \o @]
        [] takeMask # {} /\ fallMask = {} -> [wp EXCEPT !.pc = target]
        [] OTHER -> advancePc(wp)
=============================================================================
