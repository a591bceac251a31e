------------------------------ MODULE WarpLemmas ------------------------------
(***************************************************************************)
(* Lemmas about the operations on a warp record.                           *)
(***************************************************************************)
EXTENDS Warp, TLAPS

-----------------------------------------------------------------------------
(* The operations on a warp keep its type. *)

LEMMA ReconvergeType ==
  ASSUME NEW L, NEW wp \in WarpStates(L)
  PROVE  tryReconvergeAtCurrentPc(wp) \in WarpStates(L)
<1>1. CASE AtReconvergencePoint(wp)
  <2>1. wp.stack \in Seq(Entries(L)) /\ wp.stack # << >>
    BY <1>1 DEF AtReconvergencePoint, WarpStates
  <2>2. Head(wp.stack) \in Entries(L) /\ Tail(wp.stack) \in Seq(Entries(L))
    BY <2>1
  <2>3. Head(wp.stack).completedMask \in SUBSET L
    BY <2>2 DEF Entries
  <2> QED BY <1>1, <2>2, <2>3 DEF tryReconvergeAtCurrentPc, WarpStates
<1>2. CASE ~ AtReconvergencePoint(wp)
  BY <1>2 DEF tryReconvergeAtCurrentPc
<1> QED BY <1>1, <1>2

LEMMA HaltType ==
  ASSUME NEW L, NEW wp \in WarpStates(L)
  PROVE  haltOrDeferToDivergenceStack(wp) \in WarpStates(L)
<1>1. CASE wp.stack = << >>
  BY <1>1 DEF haltOrDeferToDivergenceStack, Halts, WarpStates
<1>2. CASE wp.stack # << >>
  <2>1. Head(wp.stack) \in Entries(L) /\ Tail(wp.stack) \in Seq(Entries(L))
    BY <1>2 DEF WarpStates
  <2> QED BY <1>2, <2>1 DEF haltOrDeferToDivergenceStack, Halts, WarpStates, Entries
<1> QED BY <1>1, <1>2

LEMMA BranchType ==
  ASSUME NEW L, NEW wp \in WarpStates(L), NEW target \in Nat
  PROVE  branch(wp, target) \in WarpStates(L)
<1>1. CASE wp.stack # << >> /\ ~ hasReconvergePc(Head(wp.stack))
  <2>1. Head(wp.stack) \in Entries(L) /\ Tail(wp.stack) \in Seq(Entries(L))
    BY <1>1 DEF WarpStates
  <2> DEFINE resolved == [Head(wp.stack) EXCEPT !.reconvergePc = target,
                                                !.completedMask = wp.activeMask]
  <2>2. resolved \in Entries(L)
    BY <2>1 DEF Entries, WarpStates
  <2>3. <<resolved>> \o Tail(wp.stack) \in Seq(Entries(L))
    BY <2>1, <2>2
  <2> HIDE DEF resolved
  <2>4. branch(wp, target) =
          [wp EXCEPT !.pc = Head(wp.stack).deferredPc,
                     !.activeMask = Head(wp.stack).deferredMask,
                     !.stack = <<resolved>> \o Tail(wp.stack)]
    BY <1>1 DEF branch, resolved, WarpStates
  <2>5. Head(wp.stack).deferredPc \in Nat /\ Head(wp.stack).deferredMask \in SUBSET L
    BY <2>1 DEF Entries
  <2> QED BY <2>3, <2>4, <2>5 DEF WarpStates
<1>2. CASE ~ (wp.stack # << >> /\ ~ hasReconvergePc(Head(wp.stack)))
  <2>1. branch(wp, target) = [wp EXCEPT !.pc = target]
    BY <1>2 DEF branch
  <2> QED BY <2>1 DEF WarpStates
<1> QED BY <1>1, <1>2

LEMMA BranchOnPredicateType ==
  ASSUME NEW L, NEW wp \in WarpStates(L), NEW target \in Nat,
         NEW takeMask \in SUBSET wp.activeMask
  PROVE  branchOnPredicate(wp, target, takeMask) \in WarpStates(L)
<1> DEFINE fallMask == wp.activeMask \ takeMask
           entry == [deferredPc |-> wp.pc + 1, deferredMask |-> fallMask,
                     reconvergePc |-> NoPc, completedMask |-> {}]
<1>1. CASE takeMask # {} /\ fallMask # {}
  <2>1. entry \in Entries(L)
    BY DEF WarpStates, Entries
  <2>2. <<entry>> \o wp.stack \in Seq(Entries(L))
    BY <2>1 DEF WarpStates
  <2> HIDE DEF entry
  <2>3. branchOnPredicate(wp, target, takeMask) =
          [wp EXCEPT !.pc = target, !.activeMask = takeMask,
                     !.stack = <<entry>> \o wp.stack]
    BY <1>1 DEF branchOnPredicate, entry, WarpStates
  <2> QED BY <2>2, <2>3 DEF WarpStates
<1>2. CASE takeMask # {} /\ fallMask = {}
  BY <1>2 DEF branchOnPredicate, WarpStates
<1>3. CASE takeMask = {}
  BY <1>3 DEF branchOnPredicate, advancePc, WarpStates
<1> QED BY <1>1, <1>2, <1>3

LEMMA AdvanceType ==
  ASSUME NEW L, NEW wp \in WarpStates(L)
  PROVE  advancePc(wp) \in WarpStates(L)
BY DEF advancePc, WarpStates
=============================================================================
