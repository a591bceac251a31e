--------------------------- MODULE SimtWarpProofs ---------------------------
(***************************************************************************)
(* Theorems about SimtWarp, for every program and every set of lanes.      *)
(***************************************************************************)
EXTENDS SimtWarp, WarpLemmas, FiniteSetTheorems, TLAPS

-----------------------------------------------------------------------------
LEMMA TargetType ==
  ASSUME TypeOK, warp.pc < Len(program)
  PROVE  Target \in Nat
<1>1. warp.pc + 1 \in 1..Len(program) /\ program \in Seq(Instructions)
  BY ProgramAssumption DEF TypeOK, WarpStates
<1>2. program[warp.pc + 1] \in Instructions
  BY <1>1
<1> QED BY <1>2 DEF Target, Instructions

-----------------------------------------------------------------------------
(* The state of a warp is well typed, whatever its program and whatever    *)
(* paths its lanes take: every mask stays within the warp's lanes, every   *)
(* stacked pc is one (the pops of divergence_stack.cpp never throw).       *)
THEOREM SimtWarpTypeCorrect == Spec => []TypeOK
<1>1. Init => TypeOK
  <2> SUFFICES ASSUME Init PROVE TypeOK
    OBVIOUS
  <2>1. PICK mask \in LaunchMasks : warp = NewWarp(mask)
    BY DEF Init
  <2>2. mask \in SUBSET Lanes
    BY LaunchAssumption
  <2> QED BY <2>1, <2>2 DEF Init, TypeOK, NewWarp, WarpStates
<1>2. TypeOK /\ [Next]_vars => TypeOK'
  <2> SUFFICES ASSUME TypeOK, [Next]_vars PROVE TypeOK'
    OBVIOUS
  <2>1. CASE Reconverge
    BY <2>1, ReconvergeType DEF Reconverge, TypeOK
  <2>2. CASE Stall
    BY <2>2 DEF Stall, TypeOK
  <2>3. CASE Halt
    BY <2>3, HaltType DEF Halt, Issues, TypeOK
  <2>4. CASE Bra
    BY <2>4, TargetType, BranchType DEF Bra, Issues, TypeOK
  <2>5. CASE BraPred
    BY <2>5, TargetType, BranchOnPredicateType DEF BraPred, Issues, TypeOK
  <2>6. CASE Sequential
    BY <2>6, AdvanceType DEF Sequential, Issues, TypeOK
  <2>7. CASE UNCHANGED vars
    BY <2>7 DEF vars, TypeOK
  <2> QED BY <2>1, <2>2, <2>3, <2>4, <2>5, <2>6, <2>7 DEF Next, Issue
<1> QED BY <1>1, <1>2, PTL DEF Spec

-----------------------------------------------------------------------------
(* Lanes on one path.  A warp record in which they are, and in which the   *)
(* lanes to resume exist.                                                  *)

DeferredNonEmpty(wp) ==
  \A i \in DOMAIN wp.stack :
    wp.stack[i].deferredMask # {} /\ Held(wp.stack[i]) # {}

Sound(wp) ==
  /\ ActiveApart(wp)
  /\ EntriesApart(wp)
  /\ DeferredNonEmpty(wp)
  /\ IF wp.halted THEN wp.activeMask = {} /\ wp.stack = << >>
                  ELSE wp.activeMask # {}

LEMMA TailElements ==
  ASSUME NEW S, NEW s \in Seq(S), s # << >>
  PROVE  /\ Tail(s) \in Seq(S)
         /\ Len(Tail(s)) = Len(s) - 1
         /\ 1 \in DOMAIN s /\ Head(s) = s[1] /\ Head(s) \in S
         /\ \A i \in DOMAIN Tail(s) : i + 1 \in DOMAIN s /\ Tail(s)[i] = s[i + 1]
OBVIOUS

LEMMA PushElements ==
  ASSUME NEW S, NEW s \in Seq(S), NEW e \in S
  PROVE  /\ <<e>> \o s \in Seq(S)
         /\ Len(<<e>> \o s) = Len(s) + 1
         /\ (<<e>> \o s)[1] = e
         /\ \A i \in DOMAIN (<<e>> \o s) :
              i = 1 \/ (i > 1 /\ i - 1 \in DOMAIN s /\ (<<e>> \o s)[i] = s[i - 1])
OBVIOUS

(* What is left after a pop is still apart, from the popped entry too. *)
LEMMA PopApart ==
  ASSUME NEW L, NEW wp \in WarpStates(L), Sound(wp), wp.stack # << >>,
         NEW new, new.stack = Tail(wp.stack)
  PROVE  /\ EntriesApart(new)
         /\ DeferredNonEmpty(new)
         /\ 1 \in DOMAIN wp.stack
         /\ Head(wp.stack) = wp.stack[1]
         /\ \A i \in DOMAIN new.stack :
              /\ Claimed(wp.stack[1]) \cap Held(new.stack[i]) = {}
              /\ wp.activeMask \cap Held(new.stack[i]) = {}
<1>1. wp.stack \in Seq(Entries(L))
  BY DEF WarpStates
<1>2. 1 \in DOMAIN wp.stack /\ Head(wp.stack) = wp.stack[1]
  BY <1>1, TailElements
<1>3. ASSUME NEW i \in DOMAIN new.stack
      PROVE  /\ i \in Nat /\ 1 < i + 1
             /\ i + 1 \in DOMAIN wp.stack
             /\ new.stack[i] = wp.stack[i + 1]
  BY <1>1, TailElements
<1>4. EntriesApart(new)
  <2> SUFFICES ASSUME NEW i \in DOMAIN new.stack, NEW j \in DOMAIN new.stack, i < j
               PROVE  Claimed(new.stack[i]) \cap Held(new.stack[j]) = {}
    BY DEF EntriesApart
  <2>1. i + 1 < j + 1
    BY <1>3
  <2>2. i + 1 \in DOMAIN wp.stack /\ new.stack[i] = wp.stack[i + 1]
    BY <1>3
  <2>3. j + 1 \in DOMAIN wp.stack /\ new.stack[j] = wp.stack[j + 1]
    BY <1>3
  <2>4. Claimed(wp.stack[i + 1]) \cap Held(wp.stack[j + 1]) = {}
    BY <2>1, <2>2, <2>3 DEF Sound, EntriesApart
  <2> QED BY <2>2, <2>3, <2>4
<1>5. DeferredNonEmpty(new)
  BY <1>3 DEF DeferredNonEmpty, Sound
<1>6. ASSUME NEW i \in DOMAIN new.stack
      PROVE  /\ Claimed(wp.stack[1]) \cap Held(new.stack[i]) = {}
             /\ wp.activeMask \cap Held(new.stack[i]) = {}
  <2>1. Claimed(wp.stack[1]) \cap Held(wp.stack[i + 1]) = {}
    BY <1>2, <1>3 DEF Sound, EntriesApart
  <2>2. wp.activeMask \cap Held(wp.stack[i + 1]) = {}
    BY <1>3 DEF Sound, ActiveApart
  <2> QED BY <1>3, <2>1, <2>2
<1> QED BY <1>2, <1>4, <1>5, <1>6

LEMMA ReconvergeSound ==
  ASSUME NEW L, NEW wp \in WarpStates(L), Sound(wp)
  PROVE  Sound(tryReconvergeAtCurrentPc(wp))
<1> DEFINE new == tryReconvergeAtCurrentPc(wp)
<1>1. CASE AtReconvergencePoint(wp)
  <2>1. wp.stack # << >>
    BY <1>1 DEF AtReconvergencePoint
  <2>2. /\ new.stack = Tail(wp.stack)
        /\ new.activeMask = wp.activeMask \cup Head(wp.stack).completedMask
        /\ new.halted = wp.halted
    BY <1>1 DEF tryReconvergeAtCurrentPc, WarpStates
  <2> HIDE DEF new
  <2>3. ActiveApart(new)
    BY <2>1, <2>2, PopApart DEF ActiveApart, Claimed
  <2>4. EntriesApart(new) /\ DeferredNonEmpty(new)
    BY <2>1, <2>2, PopApart
  <2>5. ~ wp.halted /\ wp.activeMask # {}
    BY <2>1 DEF Sound
  <2>6. ~ new.halted /\ new.activeMask # {}
    BY <2>2, <2>5
  <2>7. Sound(new)
    BY <2>3, <2>4, <2>6 DEF Sound
  <2> QED BY <2>7 DEF new
<1>2. CASE ~ AtReconvergencePoint(wp)
  BY <1>2 DEF tryReconvergeAtCurrentPc
<1> QED BY <1>1, <1>2

LEMMA HaltSound ==
  ASSUME NEW L, NEW wp \in WarpStates(L), Sound(wp), ~ wp.halted
  PROVE  Sound(haltOrDeferToDivergenceStack(wp))
<1> DEFINE new == haltOrDeferToDivergenceStack(wp)
<1>1. CASE wp.stack = << >>
  BY <1>1 DEF haltOrDeferToDivergenceStack, Halts, WarpStates, Sound, ActiveApart, EntriesApart,
              DeferredNonEmpty
<1>2. CASE wp.stack # << >>
  <2>1. /\ new.stack = Tail(wp.stack)
        /\ new.activeMask = Head(wp.stack).deferredMask
        /\ new.halted = wp.halted
    BY <1>2 DEF haltOrDeferToDivergenceStack, Halts, WarpStates
  <2> HIDE DEF new
  <2>2. ActiveApart(new)
    <3>1. /\ Head(wp.stack) = wp.stack[1]
          /\ \A i \in DOMAIN new.stack : Claimed(wp.stack[1]) \cap Held(new.stack[i]) = {}
      BY <1>2, <2>1, PopApart
    <3> QED BY <2>1, <3>1 DEF ActiveApart, Claimed
  <2>3. EntriesApart(new) /\ DeferredNonEmpty(new)
    BY <1>2, <2>1, PopApart
  <2>4. Head(wp.stack).deferredMask # {}
    BY <1>2, <2>1, PopApart DEF Sound, DeferredNonEmpty
  <2>5. ~ new.halted /\ new.activeMask # {}
    BY <2>1, <2>4
  <2>6. Sound(new)
    BY <2>2, <2>3, <2>5 DEF Sound
  <2> QED BY <2>6 DEF new
<1> QED BY <1>1, <1>2

(* An entry put on top of a stack stays apart from it if what it claims does. *)
Below(mask, old) == \A i \in DOMAIN old : mask \cap Held(old[i]) = {}

StackApart(old) ==
  /\ \A i, j \in DOMAIN old : i < j => Claimed(old[i]) \cap Held(old[j]) = {}
  /\ \A i \in DOMAIN old : old[i].deferredMask # {} /\ Held(old[i]) # {}

LEMMA PushApart ==
  ASSUME NEW L, NEW old \in Seq(Entries(L)), NEW entry \in Entries(L),
         NEW new, new.stack = <<entry>> \o old,
         StackApart(old), Below(Claimed(entry), old), Below(new.activeMask, old),
         entry.deferredMask # {}, Held(entry) # {},
         new.activeMask \cap Held(entry) = {}
  PROVE  ActiveApart(new) /\ EntriesApart(new) /\ DeferredNonEmpty(new)
<1>1. ASSUME NEW i \in DOMAIN new.stack
      PROVE  /\ i \in Nat
             /\ \/ i = 1 /\ new.stack[i] = entry
                \/ i > 1 /\ i - 1 \in DOMAIN old /\ new.stack[i] = old[i - 1]
  BY PushElements
<1>2. ActiveApart(new)
  BY <1>1 DEF ActiveApart, Below
<1>3. DeferredNonEmpty(new)
  BY <1>1 DEF DeferredNonEmpty, StackApart
<1>4. EntriesApart(new)
  <2> SUFFICES ASSUME NEW i \in DOMAIN new.stack, NEW j \in DOMAIN new.stack, i < j
               PROVE  Claimed(new.stack[i]) \cap Held(new.stack[j]) = {}
    BY DEF EntriesApart
  <2>1. j - 1 \in DOMAIN old /\ new.stack[j] = old[j - 1]
    BY <1>1
  <2>2. CASE i = 1 /\ new.stack[i] = entry
    BY <2>1, <2>2 DEF Below
  <2>3. CASE i > 1 /\ i - 1 \in DOMAIN old /\ new.stack[i] = old[i - 1]
    <3>1. i - 1 < j - 1
      BY <1>1
    <3>2. Claimed(old[i - 1]) \cap Held(old[j - 1]) = {}
      BY <2>1, <2>3, <3>1 DEF StackApart
    <3> QED BY <2>1, <2>3, <3>2
  <2> QED BY <1>1, <2>2, <2>3
<1> QED BY <1>2, <1>3, <1>4

LEMMA BranchSound ==
  ASSUME NEW L, NEW wp \in WarpStates(L), Sound(wp), ~ wp.halted, NEW target \in Nat
  PROVE  Sound(branch(wp, target))
<1> DEFINE new == branch(wp, target)
<1>1. CASE wp.stack # << >> /\ ~ hasReconvergePc(Head(wp.stack))
  <2> DEFINE entry == Head(wp.stack)
             resolved == [entry EXCEPT !.reconvergePc = target,
                                       !.completedMask = wp.activeMask]
             old == Tail(wp.stack)
             rest == [wp EXCEPT !.stack = old]
  <2>1. /\ entry \in Entries(L) /\ entry = wp.stack[1] /\ 1 \in DOMAIN wp.stack
        /\ old \in Seq(Entries(L))
    BY <1>1, TailElements DEF WarpStates
  <2>2. resolved \in Entries(L)
    BY <2>1 DEF Entries, WarpStates
  <2>15. /\ Held(resolved) = wp.activeMask
         /\ Claimed(resolved) = entry.deferredMask \cup wp.activeMask
         /\ resolved.deferredMask = entry.deferredMask
    <3> HIDE DEF entry
    <3>1. /\ resolved.reconvergePc = target
          /\ resolved.completedMask = wp.activeMask
          /\ resolved.deferredMask = entry.deferredMask
      BY <2>1 DEF Entries
    <3> HIDE DEF resolved
    <3> QED BY <3>1 DEF Held, Claimed, hasReconvergePc, NoPc
  <2>3. Held(entry) = entry.deferredMask
    BY <1>1 DEF Held
  <2>4. rest.stack = Tail(wp.stack)
    BY DEF WarpStates
  <2>5. /\ EntriesApart(rest) /\ DeferredNonEmpty(rest)
        /\ \A i \in DOMAIN old : /\ Claimed(entry) \cap Held(old[i]) = {}
                                 /\ wp.activeMask \cap Held(old[i]) = {}
    <3> HIDE DEF rest
    <3> QED BY <1>1, <2>1, <2>4, PopApart
  <2>6. StackApart(old)
    BY <2>4, <2>5 DEF EntriesApart, DeferredNonEmpty, StackApart
  <2>7. wp.activeMask \cap entry.deferredMask = {}
    BY <2>1, <2>3 DEF Sound, ActiveApart
  <2>8. entry.deferredMask # {} /\ wp.activeMask # {}
    BY <2>1 DEF Sound, DeferredNonEmpty
  <2> HIDE DEF rest, old, resolved
  <2>9. new = [wp EXCEPT !.pc = entry.deferredPc,
                         !.activeMask = entry.deferredMask,
                         !.stack = <<resolved>> \o old]
    BY <1>1 DEF branch, resolved, old, WarpStates
  <2>10. /\ new.stack = <<resolved>> \o old
         /\ new.activeMask = entry.deferredMask
         /\ ~ new.halted
    BY <2>9 DEF WarpStates
  <2> HIDE DEF new, entry
  <2>11. Below(new.activeMask, old)
    BY <2>5, <2>10 DEF Claimed, Below
  <2>12. Below(Claimed(resolved), old)
    BY <2>5, <2>15 DEF Claimed, Below
  <2>13. ActiveApart(new) /\ EntriesApart(new) /\ DeferredNonEmpty(new)
    BY <2>1, <2>2, <2>6, <2>7, <2>8, <2>10, <2>11, <2>12, <2>15, PushApart
  <2>14. Sound(new)
    BY <2>8, <2>10, <2>13 DEF Sound
  <2> QED BY <2>14 DEF new
<1>2. CASE ~ (wp.stack # << >> /\ ~ hasReconvergePc(Head(wp.stack)))
  <2>1. branch(wp, target) = [wp EXCEPT !.pc = target]
    BY <1>2 DEF branch
  <2> QED BY <2>1 DEF WarpStates, Sound, ActiveApart, EntriesApart, DeferredNonEmpty
<1> QED BY <1>1, <1>2

LEMMA AdvanceSound ==
  ASSUME NEW L, NEW wp \in WarpStates(L), Sound(wp)
  PROVE  Sound(advancePc(wp))
BY DEF advancePc, WarpStates, Sound, ActiveApart, EntriesApart, DeferredNonEmpty

LEMMA BranchOnPredicateSound ==
  ASSUME NEW L, NEW wp \in WarpStates(L), Sound(wp), ~ wp.halted, NEW target \in Nat,
         NEW takeMask \in SUBSET wp.activeMask
  PROVE  Sound(branchOnPredicate(wp, target, takeMask))
<1> DEFINE new == branchOnPredicate(wp, target, takeMask)
           fallMask == wp.activeMask \ takeMask
           entry == [deferredPc |-> wp.pc + 1, deferredMask |-> fallMask,
                     reconvergePc |-> NoPc, completedMask |-> {}]
<1>1. CASE takeMask # {} /\ fallMask # {}
  <2>1. /\ entry \in Entries(L)
        /\ Held(entry) = fallMask /\ Claimed(entry) = fallMask
        /\ entry.deferredMask = fallMask
    BY DEF WarpStates, Entries, Held, Claimed, hasReconvergePc, NoPc
  <2>2. wp.stack \in Seq(Entries(L))
    BY DEF WarpStates
  <2> HIDE DEF entry
  <2>3. new = [wp EXCEPT !.pc = target, !.activeMask = takeMask,
                         !.stack = <<entry>> \o wp.stack]
    BY <1>1 DEF branchOnPredicate, entry, WarpStates
  <2>4. new.stack = <<entry>> \o wp.stack /\ new.activeMask = takeMask /\ ~ new.halted
    BY <2>3 DEF WarpStates
  <2> HIDE DEF new
  <2>5. Below(fallMask, wp.stack) /\ Below(takeMask, wp.stack)
    BY DEF Sound, ActiveApart, Below
  <2>6. StackApart(wp.stack)
    BY DEF Sound, EntriesApart, DeferredNonEmpty, StackApart
  <2>7. takeMask \cap fallMask = {}
    OBVIOUS
  <2>8. ActiveApart(new) /\ EntriesApart(new) /\ DeferredNonEmpty(new)
    BY <1>1, <2>1, <2>2, <2>4, <2>5, <2>6, <2>7, PushApart
  <2>9. Sound(new)
    BY <1>1, <2>4, <2>8 DEF Sound
  <2> QED BY <2>9 DEF new
<1>2. CASE takeMask # {} /\ fallMask = {}
  <2>1. new = [wp EXCEPT !.pc = target]
    BY <1>2 DEF branchOnPredicate
  <2> QED BY <2>1 DEF WarpStates, Sound, ActiveApart, EntriesApart, DeferredNonEmpty
<1>3. CASE takeMask = {}
  <2>1. new = advancePc(wp)
    BY <1>3 DEF branchOnPredicate
  <2> QED BY <2>1, AdvanceSound
<1> QED BY <1>1, <1>2, <1>3

-----------------------------------------------------------------------------
(* The inductive invariant: Sound.  It needs Claimed, not just Held: a     *)
(* HALT may resume the deferred lanes of an entry that is resolved.        *)
LEMMA AlwaysSound == Spec => [](TypeOK /\ Sound(warp))
<1>1. Init => Sound(warp)
  <2> SUFFICES ASSUME Init PROVE Sound(warp)
    OBVIOUS
  <2>1. PICK mask \in LaunchMasks : warp = NewWarp(mask)
    BY DEF Init
  <2>2. mask # {}
    BY LaunchAssumption
  <2> QED BY <2>1, <2>2 DEF NewWarp, Sound, ActiveApart, EntriesApart, DeferredNonEmpty
<1>2. TypeOK /\ Sound(warp) /\ [Next]_vars => Sound(warp)'
  <2> SUFFICES ASSUME TypeOK, Sound(warp), [Next]_vars PROVE Sound(warp)'
    OBVIOUS
  <2>1. warp \in WarpStates(Lanes)
    BY DEF TypeOK
  <2>2. ~ Done(warp) => ~ warp.halted
    BY DEF Done, Sound
  <2>3. CASE Reconverge
    BY <2>1, <2>3, ReconvergeSound DEF Reconverge
  <2>4. CASE Stall
    BY <2>4 DEF Stall
  <2>5. CASE Halt
    BY <2>1, <2>2, <2>5, HaltSound DEF Halt, Issues
  <2>6. CASE Bra
    BY <2>1, <2>2, <2>6, TargetType, BranchSound DEF Bra, Issues
  <2>7. CASE BraPred
    BY <2>1, <2>2, <2>7, TargetType, BranchOnPredicateSound DEF BraPred, Issues
  <2>8. CASE Sequential
    BY <2>1, <2>8, AdvanceSound DEF Sequential
  <2>9. CASE UNCHANGED vars
    BY <2>9 DEF vars, Sound, ActiveApart, EntriesApart, DeferredNonEmpty
  <2> QED BY <2>3, <2>4, <2>5, <2>6, <2>7, <2>8, <2>9 DEF Next, Issue
<1> QED BY <1>1, <1>2, SimtWarpTypeCorrect, PTL DEF Spec

(* Whatever the program, no lane is on two paths at once: the masks that   *)
(* handleBranch, tryReconvergeAtCurrentPc and haltOrDefer.. split, swap    *)
(* and restore never overlap.                                              *)
THEOREM LanesStayOnOnePath == Spec => []LanesOnOnePath
<1>1. Sound(warp) => LanesOnOnePath
  BY DEF Sound, LanesOnOnePath
<1> QED BY <1>1, AlwaysSound, PTL

(* Whatever the program, a warp that has not halted has a lane to execute, *)
(* and a stacked path has lanes to resume.                                 *)
THEOREM ActiveLanesUntilDone == Spec => []ActiveUntilDone
<1>1. Sound(warp) => ActiveUntilDone
  BY DEF Sound, ActiveUntilDone, DeferredNonEmpty
<1> QED BY <1>1, AlwaysSound, PTL

(* Whatever the program, the divergence stack has fewer entries than the   *)
(* warp has lanes: the active mask and the entries hold disjoint, nonempty *)
(* sets of lanes, so choosing one lane of each is an injection.            *)
THEOREM DivergenceStackBounded == Spec => []StackBounded
<1>1. TypeOK /\ Sound(warp) => StackBounded
  <2> SUFFICES ASSUME TypeOK, Sound(warp) PROVE StackBounded
    OBVIOUS
  <2> DEFINE depth == Len(warp.stack)
             LanesAt(i) == IF i = 0 THEN warp.activeMask ELSE Held(warp.stack[i])
             chosen == [i \in 0..depth |-> CHOOSE lane \in Lanes : lane \in LanesAt(i)]
  <2>1. /\ warp.stack \in Seq(Entries(Lanes)) /\ depth \in Nat
        /\ DOMAIN warp.stack = 1..depth
        /\ warp.activeMask \in SUBSET Lanes
    BY DEF TypeOK, WarpStates
  <2>2. Cardinality(Lanes) \in Nat /\ Cardinality(Lanes) # 0
    BY LanesAssumption, FS_CardinalityType, FS_EmptySet
  <2>3. CASE warp.halted
    BY <2>2, <2>3 DEF Sound, StackBounded
  <2>4. CASE ~ warp.halted
    <3>1. ASSUME NEW i \in 0..depth
          PROVE  LanesAt(i) \subseteq Lanes /\ LanesAt(i) # {}
      <4>1. CASE i = 0
        BY <2>1, <2>4, <4>1 DEF Sound
      <4>2. CASE i # 0
        <5>1. i \in DOMAIN warp.stack
          BY <2>1, <4>2
        <5>2. warp.stack[i] \in Entries(Lanes)
          BY <2>1, <5>1
        <5>3. Held(warp.stack[i]) \subseteq Lanes
          BY <5>2 DEF Entries, Held
        <5> QED BY <4>2, <5>1, <5>3 DEF Sound, DeferredNonEmpty
      <4> QED BY <4>1, <4>2
    <3>2. ASSUME NEW i \in 0..depth, NEW j \in 0..depth, i < j
          PROVE  LanesAt(i) \cap LanesAt(j) = {}
      <4>1. j \in DOMAIN warp.stack /\ j # 0
        BY <2>1, <3>2
      <4>2. CASE i = 0
        BY <4>1, <4>2 DEF Sound, ActiveApart
      <4>3. CASE i # 0
        <5>1. i \in DOMAIN warp.stack
          BY <2>1, <4>3
        <5>2. Claimed(warp.stack[i]) \cap Held(warp.stack[j]) = {}
          BY <3>2, <4>1, <5>1 DEF Sound, EntriesApart
        <5> QED BY <4>1, <4>3, <5>2 DEF Claimed, Held
      <4> QED BY <4>2, <4>3
    <3> HIDE DEF LanesAt
    <3>3. \A i \in 0..depth : chosen[i] \in Lanes /\ chosen[i] \in LanesAt(i)
      BY <3>1
    <3> HIDE DEF chosen
    <3>4. \A i, j \in 0..depth : i < j => chosen[i] # chosen[j]
      BY <3>2, <3>3
    <3>5. \A i, j \in 0..depth : i # j => i < j \/ j < i
      BY <2>1
    <3>6. \A i, j \in 0..depth : chosen[i] = chosen[j] => i = j
      BY <3>4, <3>5
    <3>7. chosen \in Injection(0..depth, Lanes)
      <4>1. chosen \in [0..depth -> Lanes]
        BY <3>3 DEF chosen
      <4> QED BY <3>6, <4>1 DEF Injection, IsInjective
    <3>8. Cardinality(0..depth) = depth + 1 /\ IsFiniteSet(0..depth)
      BY <2>1, FS_Interval
    <3>9. Cardinality(0..depth) <= Cardinality(Lanes)
      BY <3>7, LanesAssumption, FS_Injection
    <3> QED BY <2>1, <2>2, <3>8, <3>9 DEF StackBounded
  <2> QED BY <2>3, <2>4
<1> QED BY <1>1, AlwaysSound, PTL

-----------------------------------------------------------------------------
(* SimtWarp implements ScalarThreads but for one step, the HALT of         *)
(* HaltsBeforeJoin (run simt_nested shows it).  Every operation on the     *)
(* stack is faithful to each lane by itself, whatever the rest of the      *)
(* stack and the program; a kernel that never takes that step is therefore *)
(* executed as its threads would be.                                       *)

(* Where the lanes an entry holds back are. *)
Spot(entry) == IF hasReconvergePc(entry) THEN entry.reconvergePc ELSE entry.deferredPc

(* LanePc, of any warp record. *)
At(wp, lane) ==
  IF lane \in wp.activeMask THEN wp.pc
  ELSE IF \E i \in DOMAIN wp.stack : lane \in Held(wp.stack[i])
       THEN Spot(wp.stack[CHOOSE i \in DOMAIN wp.stack : lane \in Held(wp.stack[i])])
       ELSE Exited

LEMMA LanePcIsAt == \A lane : LanePc(lane) = At(warp, lane)
BY DEF LanePc, At, Waits, Spot

LEMMA NextLanePcIsAt == \A lane : LanePc(lane)' = At(warp', lane)
BY DEF LanePc, At, Waits, Spot

(* Where a lane is, without CHOOSE: it is held by one entry at most. *)
LEMMA Place ==
  ASSUME NEW L, NEW wp \in WarpStates(L), Sound(wp), NEW lane
  PROVE  /\ lane \in wp.activeMask => At(wp, lane) = wp.pc
         /\ \A i \in DOMAIN wp.stack :
              lane \in Held(wp.stack[i]) =>
                lane \notin wp.activeMask /\ At(wp, lane) = Spot(wp.stack[i])
         /\ lane \notin wp.activeMask
              /\ (\A i \in DOMAIN wp.stack : lane \notin Held(wp.stack[i]))
            => At(wp, lane) = Exited
<1>1. lane \in wp.activeMask => At(wp, lane) = wp.pc
  BY DEF At
<1>2. ASSUME NEW i \in DOMAIN wp.stack, lane \in Held(wp.stack[i])
      PROVE  lane \notin wp.activeMask /\ At(wp, lane) = Spot(wp.stack[i])
  <2>1. lane \notin wp.activeMask
    BY <1>2 DEF Sound, ActiveApart
  <2>2. ASSUME NEW j \in DOMAIN wp.stack, lane \in Held(wp.stack[j])
        PROVE  j = i
    <3>1. i \in Nat /\ j \in Nat
      BY DEF WarpStates
    <3>2. ~ i < j /\ ~ j < i
      BY <1>2, <2>2 DEF Sound, EntriesApart, Claimed, Held
    <3> QED BY <3>1, <3>2
  <2>3. (CHOOSE j \in DOMAIN wp.stack : lane \in Held(wp.stack[j])) = i
    BY <1>2, <2>2
  <2> QED BY <1>2, <2>1, <2>3 DEF At
<1>3. ASSUME lane \notin wp.activeMask, \A i \in DOMAIN wp.stack : lane \notin Held(wp.stack[i])
      PROVE  At(wp, lane) = Exited
  BY <1>3 DEF At
<1> QED BY <1>1, <1>2, <1>3

(* The entries below the top one are those that a pop leaves.              *)
LEMMA TailOfStack ==
  ASSUME NEW L, NEW wp \in WarpStates(L), wp.stack # << >>
  PROVE  /\ 1 \in DOMAIN wp.stack /\ Head(wp.stack) = wp.stack[1]
         /\ wp.stack[1] \in Entries(L)
         /\ \A i \in DOMAIN Tail(wp.stack) :
              i + 1 \in DOMAIN wp.stack /\ Tail(wp.stack)[i] = wp.stack[i + 1]
         /\ \A i \in DOMAIN wp.stack :
              i = 1 \/ (i - 1 \in DOMAIN Tail(wp.stack) /\ Tail(wp.stack)[i - 1] = wp.stack[i])
<1>1. wp.stack \in Seq(Entries(L)) /\ DOMAIN wp.stack = 1..Len(wp.stack)
  BY DEF WarpStates
<1>2. \A i \in DOMAIN Tail(wp.stack) :
        i + 1 \in DOMAIN wp.stack /\ Tail(wp.stack)[i] = wp.stack[i + 1]
  BY <1>1, TailElements
<1>3. \A i \in DOMAIN wp.stack :
        i = 1 \/ (i - 1 \in DOMAIN Tail(wp.stack) /\ Tail(wp.stack)[i - 1] = wp.stack[i])
  BY <1>1
<1> QED BY <1>1, <1>2, <1>3, TailElements

(* After a pop, a lane the popped entry did not hold is where it was if it *)
(* was not active and is not.                                              *)
LEMMA PopKeepsPlace ==
  ASSUME NEW L, NEW wp \in WarpStates(L), Sound(wp), wp.stack # << >>,
         NEW new \in WarpStates(L), Sound(new), new.stack = Tail(wp.stack),
         NEW lane, lane \notin wp.activeMask, lane \notin new.activeMask,
         lane \notin Held(wp.stack[1])
  PROVE  At(new, lane) = At(wp, lane)
<1>1. CASE \E i \in DOMAIN new.stack : lane \in Held(new.stack[i])
  <2>1. PICK i \in DOMAIN new.stack : lane \in Held(new.stack[i])
    BY <1>1
  <2>2. i + 1 \in DOMAIN wp.stack /\ new.stack[i] = wp.stack[i + 1]
    BY TailOfStack
  <2>3. At(new, lane) = Spot(new.stack[i])
    BY <2>1, Place
  <2>4. At(wp, lane) = Spot(wp.stack[i + 1])
    BY <2>1, <2>2, Place
  <2> QED BY <2>2, <2>3, <2>4
<1>2. CASE \A i \in DOMAIN new.stack : lane \notin Held(new.stack[i])
  <2>1. \A i \in DOMAIN wp.stack : lane \notin Held(wp.stack[i])
    BY <1>2, TailOfStack
  <2>2. At(wp, lane) = Exited
    BY <2>1, Place
  <2>3. At(new, lane) = Exited
    BY <1>2, Place
  <2> QED BY <2>2, <2>3
<1> QED BY <1>1, <1>2

(* The same when an entry that does not hold it is put on top of a stack.  *)
LEMMA PushKeepsPlace ==
  ASSUME NEW L, NEW wp \in WarpStates(L), Sound(wp), NEW entry \in Entries(L),
         NEW new \in WarpStates(L), Sound(new), new.stack = <<entry>> \o wp.stack,
         NEW lane, lane \notin wp.activeMask, lane \notin new.activeMask,
         lane \notin Held(entry)
  PROVE  At(new, lane) = At(wp, lane)
<1>1. /\ \A i \in DOMAIN new.stack :
           \/ i = 1 /\ new.stack[i] = entry
           \/ i - 1 \in DOMAIN wp.stack /\ new.stack[i] = wp.stack[i - 1]
      /\ \A i \in DOMAIN wp.stack :
           i + 1 \in DOMAIN new.stack /\ new.stack[i + 1] = wp.stack[i]
  <2>1. wp.stack \in Seq(Entries(L))
    BY DEF WarpStates
  <2> QED BY <2>1
<1>2. CASE \E i \in DOMAIN wp.stack : lane \in Held(wp.stack[i])
  <2>1. PICK i \in DOMAIN wp.stack : lane \in Held(wp.stack[i])
    BY <1>2
  <2>2. At(wp, lane) = Spot(wp.stack[i])
    BY <2>1, Place
  <2>3. At(new, lane) = Spot(new.stack[i + 1])
    BY <1>1, <2>1, Place
  <2> QED BY <1>1, <2>2, <2>3
<1>3. CASE \A i \in DOMAIN wp.stack : lane \notin Held(wp.stack[i])
  <2>1. At(wp, lane) = Exited
    BY <1>3, Place
  <2>2. \A i \in DOMAIN new.stack : lane \notin Held(new.stack[i])
    BY <1>1, <1>3
  <2>3. At(new, lane) = Exited
    BY <2>2, Place
  <2> QED BY <2>1, <2>3
<1> QED BY <1>2, <1>3

-----------------------------------------------------------------------------
(* What each operation does to the place of a lane: it moves the active    *)
(* lanes only.                                                             *)

LEMMA SetPcMoves ==
  ASSUME NEW L, NEW wp \in WarpStates(L), Sound(wp), NEW target \in Nat
  PROVE  LET new == [wp EXCEPT !.pc = target]
         IN  /\ \A lane \in wp.activeMask : At(new, lane) = target
             /\ \A lane : lane \notin wp.activeMask => At(new, lane) = At(wp, lane)
<1> DEFINE new == [wp EXCEPT !.pc = target]
<1>1. /\ new.pc = target /\ new.activeMask = wp.activeMask /\ new.stack = wp.stack
  BY DEF WarpStates
<1> HIDE DEF new
<1>2. \A lane \in wp.activeMask : At(new, lane) = target
  BY <1>1 DEF At
<1>3. \A lane : lane \notin wp.activeMask => At(new, lane) = At(wp, lane)
  BY <1>1 DEF At
<1> QED BY <1>2, <1>3 DEF new

(* Rejoining moves no lane: the completed ones are already at the warp's pc. *)
LEMMA ReconvergeMoves ==
  ASSUME NEW L, NEW wp \in WarpStates(L), Sound(wp)
  PROVE  \A lane : At(tryReconvergeAtCurrentPc(wp), lane) = At(wp, lane)
<1> DEFINE new == tryReconvergeAtCurrentPc(wp)
<1>1. new \in WarpStates(L) /\ Sound(new)
  BY ReconvergeType, ReconvergeSound
<1>2. CASE AtReconvergencePoint(wp)
  <2> SUFFICES ASSUME NEW lane PROVE At(new, lane) = At(wp, lane)
    OBVIOUS
  <2>1. wp.stack # << >> /\ Head(wp.stack).reconvergePc = wp.pc
    BY <1>2 DEF AtReconvergencePoint
  <2>2. /\ new.stack = Tail(wp.stack)
        /\ new.activeMask = wp.activeMask \cup Head(wp.stack).completedMask
        /\ new.pc = wp.pc
    BY <1>2 DEF tryReconvergeAtCurrentPc, WarpStates
  <2> HIDE DEF new
  <2>3. hasReconvergePc(wp.stack[1]) /\ Spot(wp.stack[1]) = wp.pc
    <3>1. wp.stack[1].reconvergePc = wp.pc /\ wp.pc \in Nat
      BY <2>1, TailOfStack DEF WarpStates
    <3> QED BY <3>1 DEF hasReconvergePc, NoPc, Spot
  <2>4. Held(wp.stack[1]) = Head(wp.stack).completedMask
    BY <2>1, <2>3, TailOfStack DEF Held
  <2>5. CASE lane \in wp.activeMask
    BY <2>2, <2>5 DEF At
  <2>6. CASE lane \in Held(wp.stack[1])
    <3>1. At(wp, lane) = wp.pc
      BY <2>1, <2>3, <2>6, Place, TailOfStack
    <3>2. At(new, lane) = new.pc
      BY <2>2, <2>4, <2>6 DEF At
    <3> QED BY <2>2, <3>1, <3>2
  <2>7. CASE lane \notin wp.activeMask /\ lane \notin Held(wp.stack[1])
    BY <1>1, <2>1, <2>2, <2>4, <2>7, PopKeepsPlace DEF new
  <2> QED BY <2>5, <2>6, <2>7
<1>3. CASE ~ AtReconvergencePoint(wp)
  BY <1>3 DEF tryReconvergeAtCurrentPc
<1> QED BY <1>2, <1>3

(* HALT, but for the case of HaltsBeforeJoin. *)
LEMMA HaltMoves ==
  ASSUME NEW L, NEW wp \in WarpStates(L), Sound(wp), ~ wp.halted,
         wp.stack # << >> => ~ hasReconvergePc(Head(wp.stack))
  PROVE  LET new == haltOrDeferToDivergenceStack(wp)
         IN  /\ \A lane \in wp.activeMask : At(new, lane) = Exited
             /\ \A lane : lane \notin wp.activeMask => At(new, lane) = At(wp, lane)
<1> DEFINE new == haltOrDeferToDivergenceStack(wp)
<1>1. new \in WarpStates(L) /\ Sound(new)
  BY HaltType, HaltSound
<1>2. CASE wp.stack = << >>
  <2>1. new.stack = << >> /\ new.activeMask = {}
    BY <1>2 DEF haltOrDeferToDivergenceStack, Halts, WarpStates
  <2> HIDE DEF new
  <2>2. DOMAIN new.stack = {} /\ DOMAIN wp.stack = {}
    BY <1>2, <2>1
  <2>3. \A lane : At(new, lane) = Exited
    BY <2>1, <2>2 DEF At
  <2>4. \A lane : lane \notin wp.activeMask => At(wp, lane) = Exited
    BY <2>2 DEF At
  <2> QED BY <2>3, <2>4 DEF new
<1>3. CASE wp.stack # << >>
  <2>1. /\ new.stack = Tail(wp.stack)
        /\ new.activeMask = Head(wp.stack).deferredMask
        /\ new.pc = Head(wp.stack).deferredPc
    BY <1>3 DEF haltOrDeferToDivergenceStack, Halts, WarpStates
  <2>2. new \in WarpStates(L) /\ Sound(new)
    BY <1>1
  <2> HIDE DEF new
  <2>3. /\ Held(wp.stack[1]) = new.activeMask /\ Spot(wp.stack[1]) = new.pc
        /\ 1 \in DOMAIN wp.stack
    BY <1>3, <2>1, TailOfStack DEF Held, Spot
  <2>4. ASSUME NEW lane \in wp.activeMask PROVE At(new, lane) = Exited
    <3>1. \A i \in DOMAIN wp.stack : lane \notin Held(wp.stack[i])
      BY Place
    <3>2. lane \notin new.activeMask
      BY <2>3, <3>1
    <3>3. \A i \in DOMAIN new.stack : lane \notin Held(new.stack[i])
      BY <1>3, <2>1, <3>1, TailOfStack
    <3> QED BY <2>2, <3>2, <3>3, Place
  <2>5. ASSUME NEW lane, lane \notin wp.activeMask PROVE At(new, lane) = At(wp, lane)
    <3>1. CASE lane \in Held(wp.stack[1])
      <4>1. At(wp, lane) = Spot(wp.stack[1])
        BY <2>3, <3>1, Place
      <4>2. At(new, lane) = new.pc
        BY <2>3, <3>1 DEF At
      <4> QED BY <2>3, <4>1, <4>2
    <3>2. CASE lane \notin Held(wp.stack[1])
      BY <1>3, <2>1, <2>2, <2>3, <2>5, <3>2, PopKeepsPlace
    <3> QED BY <3>1, <3>2
  <2> QED BY <2>4, <2>5 DEF new
<1> QED BY <1>2, <1>3

(* BRA while the top entry is unresolved: the active lanes wait at the     *)
(* target, the deferred ones are active where they were.                   *)
LEMMA ResolveMoves ==
  ASSUME NEW L, NEW wp \in WarpStates(L), Sound(wp), ~ wp.halted, NEW target \in Nat,
         wp.stack # << >>, ~ hasReconvergePc(Head(wp.stack))
  PROVE  LET new == branch(wp, target)
         IN  /\ \A lane \in wp.activeMask : At(new, lane) = target
             /\ \A lane : lane \notin wp.activeMask => At(new, lane) = At(wp, lane)
<1> DEFINE new == branch(wp, target)
           entry == Head(wp.stack)
           resolved == [entry EXCEPT !.reconvergePc = target, !.completedMask = wp.activeMask]
           rest == [wp EXCEPT !.stack = Tail(wp.stack)]
<1>1. new \in WarpStates(L) /\ Sound(new)
  BY BranchType, BranchSound
<1>2. /\ entry \in Entries(L) /\ entry = wp.stack[1] /\ 1 \in DOMAIN wp.stack
      /\ Tail(wp.stack) \in Seq(Entries(L))
  BY TailElements DEF WarpStates
<1>3. new = [wp EXCEPT !.pc = entry.deferredPc,
                       !.activeMask = entry.deferredMask,
                       !.stack = <<resolved>> \o Tail(wp.stack)]
  BY DEF branch, WarpStates
<1>4. /\ resolved \in Entries(L)
      /\ resolved.reconvergePc = target /\ resolved.completedMask = wp.activeMask
  BY <1>2 DEF Entries, WarpStates
<1>5. /\ rest \in WarpStates(L) /\ rest.stack = Tail(wp.stack)
      /\ rest.activeMask = wp.activeMask /\ rest.halted = wp.halted
  BY <1>2 DEF WarpStates
<1> HIDE DEF resolved, rest
<1>6. /\ new.stack = <<resolved>> \o rest.stack
      /\ new.activeMask = entry.deferredMask /\ new.pc = entry.deferredPc
  BY <1>3, <1>5 DEF WarpStates
<1>7. Held(resolved) = wp.activeMask /\ Spot(resolved) = target
  BY <1>4 DEF Held, Spot, hasReconvergePc, NoPc
<1>8. Held(wp.stack[1]) = new.activeMask /\ Spot(wp.stack[1]) = new.pc
  BY <1>2, <1>6 DEF Held, Spot
<1>9. Sound(rest)
  <2>1. EntriesApart(rest) /\ DeferredNonEmpty(rest)
    BY <1>5, PopApart
  <2>2. ActiveApart(rest)
    BY <1>5, PopApart DEF ActiveApart
  <2>3. wp.activeMask # {}
    BY DEF Sound
  <2> QED BY <1>5, <2>1, <2>2, <2>3 DEF Sound
<1> HIDE DEF new, entry
<1>10. new \in WarpStates(L) /\ Sound(new)
  BY <1>1 DEF new
<1>11. ASSUME NEW lane \in wp.activeMask PROVE At(new, lane) = target
  <2>1. 1 \in DOMAIN new.stack /\ new.stack[1] = resolved
    BY <1>4, <1>5, <1>6 DEF WarpStates
  <2> QED BY <1>7, <1>10, <2>1, Place
<1>12. ASSUME NEW lane, lane \notin wp.activeMask PROVE At(new, lane) = At(wp, lane)
  <2>1. CASE lane \in Held(wp.stack[1])
    <3>1. At(wp, lane) = Spot(wp.stack[1])
      BY <1>2, <2>1, Place
    <3>2. At(new, lane) = new.pc
      BY <1>8, <2>1 DEF At
    <3> QED BY <1>8, <3>1, <3>2
  <2>2. CASE lane \notin Held(wp.stack[1])
    <3>1. At(rest, lane) = At(wp, lane)
      BY <1>5, <1>9, <1>12, <2>2, PopKeepsPlace
    <3>2. lane \notin rest.activeMask /\ lane \notin new.activeMask /\ lane \notin Held(resolved)
      BY <1>5, <1>7, <1>8, <1>12, <2>2
    <3>3. /\ rest \in WarpStates(L) /\ Sound(rest) /\ resolved \in Entries(L)
          /\ new \in WarpStates(L) /\ Sound(new)
          /\ new.stack = <<resolved>> \o rest.stack
      BY <1>4, <1>5, <1>6, <1>9, <1>10
    <3>4. At(new, lane) = At(rest, lane)
      BY <3>2, <3>3, PushKeepsPlace
    <3> QED BY <3>1, <3>4
  <2> QED BY <2>1, <2>2
<1> QED BY <1>11, <1>12 DEF new

LEMMA BranchMoves ==
  ASSUME NEW L, NEW wp \in WarpStates(L), Sound(wp), ~ wp.halted, NEW target \in Nat
  PROVE  LET new == branch(wp, target)
         IN  /\ \A lane \in wp.activeMask : At(new, lane) = target
             /\ \A lane : lane \notin wp.activeMask => At(new, lane) = At(wp, lane)
<1>1. CASE wp.stack # << >> /\ ~ hasReconvergePc(Head(wp.stack))
  BY <1>1, ResolveMoves
<1>2. CASE ~ (wp.stack # << >> /\ ~ hasReconvergePc(Head(wp.stack)))
  <2>1. branch(wp, target) = [wp EXCEPT !.pc = target]
    BY <1>2 DEF branch
  <2> QED BY <2>1, SetPcMoves
<1> QED BY <1>1, <1>2

LEMMA BranchOnPredicateMoves ==
  ASSUME NEW L, NEW wp \in WarpStates(L), Sound(wp), ~ wp.halted,
         NEW target \in Nat, NEW takeMask \in SUBSET wp.activeMask
  PROVE  LET new == branchOnPredicate(wp, target, takeMask)
         IN  /\ \A lane \in wp.activeMask : At(new, lane) \in {target, wp.pc + 1}
             /\ \A lane : lane \notin wp.activeMask => At(new, lane) = At(wp, lane)
<1> DEFINE new == branchOnPredicate(wp, target, takeMask)
           fallMask == wp.activeMask \ takeMask
           entry == [deferredPc |-> wp.pc + 1, deferredMask |-> fallMask,
                     reconvergePc |-> NoPc, completedMask |-> {}]
<1>1. new \in WarpStates(L) /\ Sound(new)
  BY BranchOnPredicateType, BranchOnPredicateSound
<1>2. CASE takeMask # {} /\ fallMask # {}
  <2>1. /\ entry \in Entries(L)
        /\ Held(entry) = fallMask /\ Spot(entry) = wp.pc + 1
    BY DEF WarpStates, Entries, hasReconvergePc, Held, Spot
  <2> HIDE DEF entry
  <2>2. new = [wp EXCEPT !.pc = target, !.activeMask = takeMask,
                         !.stack = <<entry>> \o wp.stack]
    BY <1>2 DEF branchOnPredicate, entry, WarpStates
  <2>3. new.stack = <<entry>> \o wp.stack /\ new.activeMask = takeMask /\ new.pc = target
    BY <2>2 DEF WarpStates
  <2> HIDE DEF new
  <2>4. new \in WarpStates(L) /\ Sound(new)
    BY <1>1 DEF new
  <2>5. 1 \in DOMAIN new.stack /\ new.stack[1] = entry
    BY <2>1, <2>3 DEF WarpStates
  <2>6. ASSUME NEW lane \in wp.activeMask PROVE At(new, lane) \in {target, wp.pc + 1}
    <3>1. CASE lane \in takeMask
      BY <2>3, <3>1 DEF At
    <3>2. CASE lane \notin takeMask
      BY <2>1, <2>4, <2>5, <3>2, Place
    <3> QED BY <3>1, <3>2
  <2>7. ASSUME NEW lane, lane \notin wp.activeMask PROVE At(new, lane) = At(wp, lane)
    BY <2>1, <2>3, <2>4, <2>7, PushKeepsPlace
  <2> QED BY <2>6, <2>7 DEF new
<1>3. CASE takeMask # {} /\ fallMask = {}
  <2>1. new = [wp EXCEPT !.pc = target]
    BY <1>3 DEF branchOnPredicate
  <2> QED BY <2>1, SetPcMoves
<1>4. CASE takeMask = {}
  <2>1. new = [wp EXCEPT !.pc = wp.pc + 1] /\ wp.pc + 1 \in Nat
    BY <1>4 DEF branchOnPredicate, advancePc, WarpStates
  <2> QED BY <2>1, SetPcMoves
<1> QED BY <1>2, <1>3, <1>4

-----------------------------------------------------------------------------
(* One step of the warp, with what it means for the thread of each lane.   *)
Follows(lane) ==
  At(warp', lane) \in Threads!Successors(At(warp, lane)) \cup {At(warp, lane)}

LEMMA IssueFollows ==
  ASSUME TypeOK, warp.pc < Len(program), NEW op, program[warp.pc + 1].op = op
  PROVE  Threads!Successors(warp.pc) =
           CASE op = "HALT"  -> {Exited}
             [] op = "BRA"   -> {Target}
             [] op = "BRA.P" -> {Target, warp.pc + 1}
             [] OTHER        -> {warp.pc + 1}
<1>1. warp.pc # Exited /\ ~ warp.pc >= Len(program)
  <2>1. warp.pc \in Nat /\ Len(program) \in Nat
    BY ProgramAssumption DEF TypeOK, WarpStates
  <2> QED BY <2>1, ExitedAssumption
<1> QED BY <1>1 DEF Threads!Successors, Target

LEMMA StepFollows ==
  ASSUME TypeOK, Sound(warp), [Next]_vars, ~ HaltsBeforeJoin
  PROVE  \A lane : Follows(lane)
<1>1. warp \in WarpStates(Lanes) /\ warp.pc + 1 \in Nat
  BY DEF TypeOK, WarpStates
<1>2. ~ Done(warp) => ~ warp.halted
  BY DEF Done, Sound
<1>3. \A lane \in warp.activeMask : At(warp, lane) = warp.pc
  BY DEF At
<1>4. CASE Reconverge
  BY <1>1, <1>4, ReconvergeMoves DEF Reconverge, Follows
<1>5. CASE Stall \/ UNCHANGED vars
  BY <1>5 DEF Stall, vars, Follows
<1>6. CASE Halt
  <2>1. warp' = haltOrDeferToDivergenceStack(warp)
    BY <1>6 DEF Halt
  <2>2. Threads!Successors(warp.pc) = {Exited}
    BY <1>6, IssueFollows DEF Halt, Issues
  <2>3. warp.stack # << >> => ~ hasReconvergePc(Head(warp.stack))
    BY <1>6 DEF HaltsBeforeJoin
  <2>4. /\ \A lane \in warp.activeMask : At(warp', lane) = Exited
        /\ \A lane : lane \notin warp.activeMask => At(warp', lane) = At(warp, lane)
    BY <1>1, <1>2, <1>6, <2>1, <2>3, HaltMoves DEF Halt, Issues
  <2> QED BY <1>3, <2>2, <2>4 DEF Follows
<1>7. CASE Bra
  <2>1. Threads!Successors(warp.pc) = {Target}
    BY <1>7, IssueFollows DEF Bra, Issues
  <2>2. Target \in Nat
    BY <1>7, TargetType DEF Bra, Issues
  <2>3. /\ \A lane \in warp.activeMask : At(warp', lane) = Target
        /\ \A lane : lane \notin warp.activeMask => At(warp', lane) = At(warp, lane)
    BY <1>1, <1>2, <1>7, <2>2, BranchMoves DEF Bra, Issues
  <2> QED BY <1>3, <2>1, <2>3 DEF Follows
<1>8. CASE BraPred
  <2>1. PICK takeMask \in SUBSET warp.activeMask :
          warp' = branchOnPredicate(warp, Target, takeMask)
    BY <1>8 DEF BraPred
  <2>2. Threads!Successors(warp.pc) = {Target, warp.pc + 1}
    BY <1>8, IssueFollows DEF BraPred, Issues
  <2>3. Target \in Nat
    BY <1>8, TargetType DEF BraPred, Issues
  <2>4. /\ \A lane \in warp.activeMask : At(warp', lane) \in {Target, warp.pc + 1}
        /\ \A lane : lane \notin warp.activeMask => At(warp', lane) = At(warp, lane)
    BY <1>1, <1>2, <1>8, <2>1, <2>3, BranchOnPredicateMoves DEF BraPred, Issues
  <2> QED BY <1>3, <2>2, <2>4 DEF Follows
<1>9. CASE Sequential
  <2>1. PICK op \in Opcodes \ {"HALT", "BRA", "BRA.P"} :
          Issues(op) /\ warp' = advancePc(warp)
    BY <1>9 DEF Sequential
  <2>2. Threads!Successors(warp.pc) = {warp.pc + 1}
    BY <2>1, IssueFollows DEF Issues
  <2>3. warp' = [warp EXCEPT !.pc = warp.pc + 1]
    BY <2>1 DEF advancePc
  <2>4. /\ \A lane \in warp.activeMask : At(warp', lane) = warp.pc + 1
        /\ \A lane : lane \notin warp.activeMask => At(warp', lane) = At(warp, lane)
    BY <1>1, <2>3, SetPcMoves
  <2> QED BY <1>3, <2>2, <2>4 DEF Follows
<1> QED BY <1>4, <1>5, <1>6, <1>7, <1>8, <1>9 DEF Next, Issue

(* Whatever the program and however its lanes diverge, a HALT issued by    *)
(* the deferred path while the taken path waits at its join is the only    *)
(* step of the warp that puts a lane where its own thread would not be:    *)
(* the splits, swaps and pops of handleBranch and of                       *)
(* tryReconvergeAtCurrentPc never do.                                      *)
THEOREM HaltAloneMisplaces == Spec => OnlyHaltMisplaces
<1>1. TypeOK /\ Sound(warp) /\ [Next]_vars => [HaltsBeforeJoin \/ Threads!Next]_vars
  <2> SUFFICES ASSUME TypeOK, Sound(warp), [Next]_vars, ~ HaltsBeforeJoin PROVE Threads!Next
    OBVIOUS
  <2>1. \A lane : Follows(lane)
    BY StepFollows
  <2>2. UNCHANGED program
    BY DEF Next, Reconverge, Stall, Issue, Halt, Bra, BraPred, Sequential, Issues, vars
  <2> QED BY <2>1, <2>2, LanePcIsAt, NextLanePcIsAt DEF Threads!Next, Follows
<1> QED BY <1>1, AlwaysSound, PTL DEF Spec, OnlyHaltMisplaces

LEMMA ThreadsStart == Init => Threads!Init
<1> SUFFICES ASSUME Init PROVE Threads!Init
  OBVIOUS
<1>1. PICK mask \in LaunchMasks : warp = NewWarp(mask)
  BY DEF Init
<1>2. DOMAIN warp.stack = {} /\ warp.pc = 0
  BY <1>1 DEF NewWarp
<1>3. \A lane \in Lanes : At(warp, lane) \in {0, Exited}
  BY <1>2 DEF At
<1> QED BY <1>3, LanePcIsAt DEF Threads!Init

(* SIMT execution is invisible to the threads of a kernel that does not    *)
(* take that step: the divergence stack never moves, drops or reruns a     *)
(* lane.                                                                   *)
THEOREM ThreadsFollow == Spec /\ [][~ HaltsBeforeJoin]_vars => ThreadsSpec
<1>1. [HaltsBeforeJoin \/ Threads!Next]_vars /\ [~ HaltsBeforeJoin]_vars
        => [Threads!Next]_(Threads!vars)
  <2> SUFFICES ASSUME vars' = vars PROVE (Threads!vars)' = Threads!vars
    OBVIOUS
  <2>1. \A lane : LanePc(lane)' = LanePc(lane)
    BY LanePcIsAt, NextLanePcIsAt DEF vars
  <2> QED BY <2>1 DEF Threads!vars, vars
<1> QED BY <1>1, ThreadsStart, HaltAloneMisplaces, PTL
        DEF Spec, OnlyHaltMisplaces, ThreadsSpec, Threads!Spec

-----------------------------------------------------------------------------
(* What that step does.  The lanes that completed the taken path are not   *)
(* among those that were deferred.                                         *)
MasksApart(wp) ==
  \A i \in DOMAIN wp.stack : wp.stack[i].completedMask \cap wp.stack[i].deferredMask = {}

LEMMA PopMasksApart ==
  ASSUME NEW L, NEW wp \in WarpStates(L), MasksApart(wp), NEW new,
         new.stack = wp.stack \/ (wp.stack # << >> /\ new.stack = Tail(wp.stack))
  PROVE  MasksApart(new)
<1>1. CASE new.stack = wp.stack
  BY <1>1 DEF MasksApart
<1>2. CASE wp.stack # << >> /\ new.stack = Tail(wp.stack)
  BY <1>2, TailOfStack DEF MasksApart
<1> QED BY <1>1, <1>2

LEMMA PushMasksApart ==
  ASSUME NEW L, NEW old \in Seq(Entries(L)), NEW entry \in Entries(L),
         \A i \in DOMAIN old : old[i].completedMask \cap old[i].deferredMask = {},
         entry.completedMask \cap entry.deferredMask = {},
         NEW new, new.stack = <<entry>> \o old
  PROVE  MasksApart(new)
BY PushElements DEF MasksApart

LEMMA BranchMasksApart ==
  ASSUME NEW L, NEW wp \in WarpStates(L), Sound(wp), MasksApart(wp), NEW target \in Nat
  PROVE  MasksApart(branch(wp, target))
<1> DEFINE new == branch(wp, target)
<1>1. CASE wp.stack # << >> /\ ~ hasReconvergePc(Head(wp.stack))
  <2> DEFINE entry == Head(wp.stack)
             resolved == [entry EXCEPT !.reconvergePc = target,
                                       !.completedMask = wp.activeMask]
             old == Tail(wp.stack)
  <2>1. /\ entry \in Entries(L) /\ entry = wp.stack[1] /\ 1 \in DOMAIN wp.stack
        /\ old \in Seq(Entries(L))
    BY <1>1, TailElements DEF WarpStates
  <2>2. /\ resolved \in Entries(L)
        /\ resolved.completedMask = wp.activeMask
        /\ resolved.deferredMask = entry.deferredMask
    BY <2>1 DEF Entries, WarpStates
  <2>3. wp.activeMask \cap entry.deferredMask = {}
    BY <1>1, <2>1 DEF Sound, ActiveApart, Held
  <2>4. new.stack = <<resolved>> \o old
    BY <1>1 DEF branch, WarpStates
  <2>5. \A i \in DOMAIN old : old[i].completedMask \cap old[i].deferredMask = {}
    BY <1>1, TailOfStack DEF MasksApart
  <2> HIDE DEF new, entry, resolved, old
  <2>6. MasksApart(new)
    BY <2>1, <2>2, <2>3, <2>4, <2>5, PushMasksApart
  <2> QED BY <2>6 DEF new
<1>2. CASE ~ (wp.stack # << >> /\ ~ hasReconvergePc(Head(wp.stack)))
  <2>1. new.stack = wp.stack
    BY <1>2 DEF branch, WarpStates
  <2> QED BY <2>1, PopMasksApart
<1> QED BY <1>1, <1>2

LEMMA BranchOnPredicateMasksApart ==
  ASSUME NEW L, NEW wp \in WarpStates(L), MasksApart(wp), NEW target \in Nat,
         NEW takeMask \in SUBSET wp.activeMask
  PROVE  MasksApart(branchOnPredicate(wp, target, takeMask))
<1> DEFINE new == branchOnPredicate(wp, target, takeMask)
           fallMask == wp.activeMask \ takeMask
           entry == [deferredPc |-> wp.pc + 1, deferredMask |-> fallMask,
                     reconvergePc |-> NoPc, completedMask |-> {}]
<1>1. CASE takeMask # {} /\ fallMask # {}
  <2>1. /\ entry \in Entries(L) /\ entry.completedMask = {}
        /\ wp.stack \in Seq(Entries(L))
    BY DEF WarpStates, Entries
  <2>2. new.stack = <<entry>> \o wp.stack
    BY <1>1 DEF branchOnPredicate, WarpStates
  <2> HIDE DEF new, entry
  <2>3. MasksApart(new)
    BY <2>1, <2>2, PushMasksApart DEF MasksApart
  <2> QED BY <2>3 DEF new
<1>2. CASE ~ (takeMask # {} /\ fallMask # {})
  <2>1. new.stack = wp.stack
    BY <1>2 DEF branchOnPredicate, advancePc, WarpStates
  <2> QED BY <2>1, PopMasksApart
<1> QED BY <1>1, <1>2

LEMMA AlwaysMasksApart == Spec => []MasksApart(warp)
<1>1. Init => MasksApart(warp)
  BY DEF Init, NewWarp, MasksApart
<1>2. TypeOK /\ Sound(warp) /\ MasksApart(warp) /\ [Next]_vars => MasksApart(warp)'
  <2> SUFFICES ASSUME TypeOK, Sound(warp), MasksApart(warp), [Next]_vars
               PROVE  MasksApart(warp')
    BY DEF MasksApart
  <2>1. warp \in WarpStates(Lanes)
    BY DEF TypeOK
  <2>2. CASE Reconverge
    <3>1. \/ warp'.stack = warp.stack
          \/ warp.stack # << >> /\ warp'.stack = Tail(warp.stack)
      BY <2>1, <2>2 DEF Reconverge, tryReconvergeAtCurrentPc, AtReconvergencePoint, WarpStates
    <3> QED BY <2>1, <3>1, PopMasksApart
  <2>3. CASE Halt
    <3>1. \/ warp'.stack = warp.stack
          \/ warp.stack # << >> /\ warp'.stack = Tail(warp.stack)
      BY <2>1, <2>3 DEF Halt, haltOrDeferToDivergenceStack, Halts, WarpStates
    <3> QED BY <2>1, <3>1, PopMasksApart
  <2>4. CASE Bra
    BY <2>1, <2>4, TargetType, BranchMasksApart DEF Bra, Issues
  <2>5. CASE BraPred
    BY <2>1, <2>5, TargetType, BranchOnPredicateMasksApart DEF BraPred, Issues
  <2>6. CASE Sequential \/ Stall \/ UNCHANGED vars
    <3>1. warp'.stack = warp.stack
      BY <2>1, <2>6 DEF Sequential, advancePc, Stall, vars, WarpStates
    <3> QED BY <2>1, <3>1, PopMasksApart
  <2> QED BY <2>2, <2>3, <2>4, <2>5, <2>6 DEF Next, Issue
<1> QED BY <1>1, <1>2, AlwaysSound, PTL DEF Spec

(* The join of the entry at the top of the stack is an exit, too. *)
JoinIsHalt ==
  LET join == Head(warp.stack).reconvergePc
  IN  join < Len(program) /\ program[join + 1].op = "HALT"

(* That HALT always does misplace lanes: those that completed the taken    *)
(* path, and there are some, exit from the join they wait at without       *)
(* executing what is there, and the lanes that were deferred are put back  *)
(* to where they once began.  Unless what is at the join is a HALT as      *)
(* well, no thread can follow.                                             *)
THEOREM HaltBeforeJoinLosesLanes ==
  Spec => [][HaltsBeforeJoin =>
    LET entry == Head(warp.stack)
    IN  /\ entry.completedMask # {}
        /\ \A lane \in entry.completedMask :
             LanePc(lane) = entry.reconvergePc /\ LanePc(lane)' = Exited
        /\ \A lane \in entry.deferredMask : LanePc(lane)' = entry.deferredPc
        /\ ~ JoinIsHalt => ~ Threads!Next]_vars
<1> DEFINE entry == Head(warp.stack)
<1>1. ASSUME TypeOK, Sound(warp), MasksApart(warp), HaltsBeforeJoin
      PROVE  /\ entry.completedMask # {}
             /\ \A lane \in entry.completedMask :
                  LanePc(lane) = entry.reconvergePc /\ LanePc(lane)' = Exited
             /\ \A lane \in entry.deferredMask : LanePc(lane)' = entry.deferredPc
             /\ ~ JoinIsHalt => ~ Threads!Next
  <2>1. /\ warp \in WarpStates(Lanes) /\ warp.stack # << >> /\ ~ warp.halted
        /\ warp' = haltOrDeferToDivergenceStack(warp)
    BY <1>1 DEF HaltsBeforeJoin, Halt, Issues, Done, Sound, TypeOK
  <2>2. /\ 1 \in DOMAIN warp.stack /\ entry = warp.stack[1] /\ entry \in Entries(Lanes)
        /\ hasReconvergePc(entry)
    BY <1>1, <2>1, TailOfStack DEF HaltsBeforeJoin
  <2>3. warp' \in WarpStates(Lanes) /\ Sound(warp')
    BY <1>1, <2>1, HaltType, HaltSound
  <2>4. /\ warp'.stack = Tail(warp.stack)
        /\ warp'.activeMask = entry.deferredMask /\ warp'.pc = entry.deferredPc
    BY <2>1 DEF haltOrDeferToDivergenceStack, WarpStates
  <2> HIDE DEF entry
  <2>5. Held(entry) = entry.completedMask /\ Spot(entry) = entry.reconvergePc
    BY <2>2 DEF Held, Spot
  <2>6. entry.completedMask # {}
    BY <1>1, <2>2, <2>5 DEF Sound, DeferredNonEmpty
  <2>7. ASSUME NEW lane \in entry.completedMask
        PROVE  LanePc(lane) = entry.reconvergePc /\ LanePc(lane)' = Exited
    <3>1. At(warp, lane) = entry.reconvergePc
      BY <1>1, <2>1, <2>2, <2>5, Place
    <3>2. lane \notin warp'.activeMask
      BY <1>1, <2>2, <2>4 DEF MasksApart
    <3>3. \A i \in DOMAIN warp'.stack : lane \notin Held(warp'.stack[i])
      <4>1. \A i \in DOMAIN warp'.stack : Claimed(warp.stack[1]) \cap Held(warp'.stack[i]) = {}
        BY <1>1, <2>1, <2>4, PopApart
      <4> QED BY <2>2, <4>1 DEF Claimed
    <3>4. At(warp', lane) = Exited
      BY <2>3, <3>2, <3>3, Place
    <3> QED BY <3>1, <3>4, LanePcIsAt, NextLanePcIsAt
  <2>8. ASSUME NEW lane \in entry.deferredMask PROVE LanePc(lane)' = entry.deferredPc
    <3>1. At(warp', lane) = entry.deferredPc
      BY <2>4 DEF At
    <3> QED BY <3>1, NextLanePcIsAt
  <2>9. ASSUME ~ JoinIsHalt, Threads!Next PROVE FALSE
    <3>1. PICK lane : lane \in entry.completedMask
      BY <2>6
    <3>2. lane \in Lanes /\ entry.reconvergePc \in Nat
      BY <2>2, <3>1 DEF Entries, hasReconvergePc, NoPc
    <3>3. Exited \in Threads!Successors(entry.reconvergePc) \cup {entry.reconvergePc}
      BY <2>7, <2>9, <3>1, <3>2 DEF Threads!Next
    <3>4. Exited \in Threads!Successors(entry.reconvergePc)
      BY <3>2, <3>3, ExitedAssumption
    <3>5. program \in Seq(Instructions) /\ ~ entry.reconvergePc >= Len(program)
      BY <1>1, <3>4, ProgramAssumption DEF Threads!Successors, TypeOK
    <3>6. /\ entry.reconvergePc < Len(program)
          /\ program[entry.reconvergePc + 1] \in Instructions
      BY <3>2, <3>5
    <3>7. program[entry.reconvergePc + 1].target \in Nat
      BY <3>6 DEF Instructions
    <3>8. program[entry.reconvergePc + 1].op # "HALT"
      BY <2>9, <3>6 DEF JoinIsHalt, entry
    <3> QED BY <3>2, <3>4, <3>5, <3>7, <3>8, ExitedAssumption DEF Threads!Successors
  <2> QED BY <2>6, <2>7, <2>8, <2>9
<1> QED BY <1>1, AlwaysSound, AlwaysMasksApart, PTL DEF Spec

-----------------------------------------------------------------------------
(* Kernels that never take the step.  First those that issue BRA only      *)
(* while their lanes are together.                                         *)

(* No entry has been resolved by a BRA. *)
Unresolved(wp) == \A i \in DOMAIN wp.stack : ~ hasReconvergePc(wp.stack[i])

(* The warp issues no BRA while its lanes are split. *)
BraWhenTogether ==
  /\ phase = "issue" /\ ~ Done(warp)
  /\ warp.pc < Len(program) /\ program[warp.pc + 1].op = "BRA"
  => warp.stack = << >>

(* While no entry is resolved there is nothing to reconverge. *)
LEMMA NothingReconverges ==
  ASSUME NEW L, NEW wp \in WarpStates(L), Unresolved(wp)
  PROVE  tryReconvergeAtCurrentPc(wp) = wp
<1>1. ~ AtReconvergencePoint(wp)
  <2> SUFFICES ASSUME wp.stack # << >>, Head(wp.stack).reconvergePc = wp.pc PROVE FALSE
    BY DEF AtReconvergencePoint
  <2>1. 1 \in DOMAIN wp.stack /\ Head(wp.stack) = wp.stack[1]
    BY TailElements DEF WarpStates
  <2>2. wp.stack[1].reconvergePc = NoPc
    BY <2>1 DEF Unresolved, hasReconvergePc
  <2> QED BY <2>1, <2>2 DEF WarpStates, NoPc
<1> QED BY <1>1 DEF tryReconvergeAtCurrentPc

LEMMA StaysUnresolved ==
  ASSUME TypeOK, Unresolved(warp), BraWhenTogether, [Next]_vars
  PROVE  Unresolved(warp')
<1>1. /\ warp \in WarpStates(Lanes)
      /\ warp.stack \in Seq(Entries(Lanes)) /\ DOMAIN warp.stack = 1..Len(warp.stack)
  BY DEF TypeOK, WarpStates
<1>2. CASE warp'.stack = warp.stack
  BY <1>2 DEF Unresolved
<1>3. CASE Reconverge
  <2>1. warp' = warp
    BY <1>1, <1>3, NothingReconverges DEF Reconverge
  <2> QED BY <1>2, <2>1
<1>4. CASE Stall \/ UNCHANGED vars
  BY <1>2, <1>4 DEF Stall, vars
<1>5. CASE Halt
  <2>1. CASE warp.stack = << >>
    BY <1>1, <1>2, <1>5, <2>1 DEF Halt, haltOrDeferToDivergenceStack, Halts, WarpStates
  <2>2. CASE warp.stack # << >>
    <3>1. warp'.stack = Tail(warp.stack)
      BY <1>1, <1>5, <2>2 DEF Halt, haltOrDeferToDivergenceStack, WarpStates
    <3> QED BY <1>1, <2>2, <3>1, TailElements DEF Unresolved
  <2> QED BY <2>1, <2>2
<1>6. CASE Bra
  <2>1. warp.stack = << >>
    BY <1>6 DEF Bra, Issues, BraWhenTogether
  <2>2. warp' = [warp EXCEPT !.pc = Target]
    BY <1>6, <2>1 DEF Bra, branch
  <2> QED BY <1>1, <1>2, <2>2 DEF WarpStates
<1>7. CASE BraPred
  <2>1. PICK takeMask \in SUBSET warp.activeMask :
          warp' = branchOnPredicate(warp, Target, takeMask)
    BY <1>7 DEF BraPred
  <2> DEFINE fallMask == warp.activeMask \ takeMask
             entry == [deferredPc |-> warp.pc + 1, deferredMask |-> fallMask,
                       reconvergePc |-> NoPc, completedMask |-> {}]
  <2>2. CASE takeMask # {} /\ fallMask # {}
    <3>1. entry \in Entries(Lanes) /\ ~ hasReconvergePc(entry)
      BY <1>1 DEF WarpStates, Entries, hasReconvergePc
    <3> HIDE DEF entry
    <3>2. warp' = [warp EXCEPT !.pc = Target, !.activeMask = takeMask,
                               !.stack = <<entry>> \o warp.stack]
      BY <1>1, <2>1, <2>2 DEF branchOnPredicate, entry, WarpStates
    <3>3. warp'.stack = <<entry>> \o warp.stack
      BY <1>1, <3>2 DEF WarpStates
    <3>4. ASSUME NEW i \in DOMAIN warp'.stack PROVE ~ hasReconvergePc(warp'.stack[i])
      <4>1. \/ i = 1 /\ warp'.stack[i] = entry
            \/ i - 1 \in DOMAIN warp.stack /\ warp'.stack[i] = warp.stack[i - 1]
        BY <1>1, <3>1, <3>3, PushElements
      <4> QED BY <3>1, <4>1 DEF Unresolved
    <3> QED BY <3>4 DEF Unresolved
  <2>3. CASE takeMask # {} /\ fallMask = {}
    BY <1>1, <1>2, <2>1, <2>3 DEF branchOnPredicate, WarpStates
  <2>4. CASE takeMask = {}
    BY <1>1, <1>2, <2>1, <2>4 DEF branchOnPredicate, advancePc, WarpStates
  <2> QED BY <2>2, <2>3, <2>4
<1>8. CASE Sequential
  BY <1>1, <1>2, <1>8 DEF Sequential, advancePc, WarpStates
<1> QED BY <1>3, <1>4, <1>5, <1>6, <1>7, <1>8 DEF Next, Issue

(* The threads of a kernel that issues BRA only while its lanes are        *)
(* together are executed as the reference interpreter executes them, for   *)
(* any number of lanes and any nesting of BRA.P and HALT.                  *)
THEOREM ThreadsFollowTogether == Spec /\ []BraWhenTogether => ThreadsSpec
<1>1. Init => Unresolved(warp)
  <2> SUFFICES ASSUME Init PROVE Unresolved(warp)
    OBVIOUS
  <2>1. PICK mask \in LaunchMasks : warp = NewWarp(mask)
    BY DEF Init
  <2> QED BY <2>1 DEF NewWarp, Unresolved
<1>2. TypeOK /\ Unresolved(warp) /\ BraWhenTogether /\ [Next]_vars => Unresolved(warp)'
  BY StaysUnresolved DEF Unresolved
<1>3. TypeOK /\ Unresolved(warp) => [~ HaltsBeforeJoin]_vars
  <2> SUFFICES ASSUME TypeOK, Unresolved(warp), HaltsBeforeJoin PROVE FALSE
    OBVIOUS
  <2>1. 1 \in DOMAIN warp.stack /\ Head(warp.stack) = warp.stack[1]
    BY TailElements DEF HaltsBeforeJoin, TypeOK, WarpStates
  <2> QED BY <2>1 DEF HaltsBeforeJoin, Unresolved
<1> QED BY <1>1, <1>2, <1>3, SimtWarpTypeCorrect, ThreadsFollow, PTL DEF Spec

(* In particular those of a kernel without BRA, as all the kernels of      *)
(* examples/ and benchmarks/ are.                                          *)
THEOREM BranchFreeThreadsFollow ==
  ASSUME \A p \in Programs : \A i \in DOMAIN p : p[i].op # "BRA"
  PROVE  Spec => ThreadsSpec
<1>1. TypeOK => BraWhenTogether
  <2> SUFFICES ASSUME TypeOK, warp.pc < Len(program), program[warp.pc + 1].op = "BRA"
               PROVE  FALSE
    BY DEF BraWhenTogether
  <2>1. warp.pc + 1 \in DOMAIN program /\ program \in Programs
    BY ProgramAssumption DEF TypeOK, WarpStates
  <2> QED BY <2>1
<1> QED BY <1>1, SimtWarpTypeCorrect, ThreadsFollowTogether, PTL

-----------------------------------------------------------------------------
(* Second, the structured kernels.  Only the top entry of their stack can  *)
(* be unresolved; the entries are those of if/elses each inside the        *)
(* deferred arm of the next, and the pc is in the arm of the top one that  *)
(* is being run.                                                           *)

BranchOf(entry) == entry.deferredPc - 1

EntryPlaced(p, stack, i) ==
  /\ BranchOf(stack[i]) \in Branches(p)
  /\ i > 1 => hasReconvergePc(stack[i])
  /\ hasReconvergePc(stack[i]) => stack[i].reconvergePc = Join(p, BranchOf(stack[i]))
  /\ i + 1 \in DOMAIN stack =>
       /\ BranchOf(stack[i + 1]) < BranchOf(stack[i])
       /\ BranchOf(stack[i]) < Join(p, BranchOf(stack[i + 1]))

StackPlaced(p, stack) == \A i \in DOMAIN stack : EntryPlaced(p, stack, i)

(* The arm of an entry's if/else that is run while the entry is on top. *)
InArm(p, entry, pc) ==
  LET b == BranchOf(entry)
  IN  IF hasReconvergePc(entry) THEN b < pc /\ pc <= Join(p, b)
                                ELSE p[b + 1].target <= pc /\ pc <= ArmEnd(p, b)

PcPlaced(p, wp) == wp.stack # << >> => InArm(p, wp.stack[1], wp.pc)

Placed ==
  /\ StackPlaced(program, warp.stack)
  /\ PcPlaced(program, warp)
  /\ phase = "issue" => ~ AtReconvergencePoint(warp)

LEMMA ArmFacts ==
  ASSUME NEW p \in Seq(Instructions), Structured(p), NEW b \in Branches(p)
  PROVE  /\ b \in Nat /\ p[b + 1].target \in Nat
         /\ ArmEnd(p, b) \in Nat /\ Join(p, b) \in Nat
         /\ b < p[b + 1].target /\ p[b + 1].target <= ArmEnd(p, b)
         /\ ArmEnd(p, b) < Join(p, b)
         /\ p[ArmEnd(p, b) + 1].op = "BRA"
         /\ \A pc \in Nat : p[b + 1].target <= pc /\ pc < ArmEnd(p, b)
                              => p[pc + 1].op \notin {"HALT", "BRA", "BRA.P"}
         /\ \A pc \in Nat : b < pc /\ pc < Join(p, b) =>
              /\ p[pc + 1].op # "HALT"
              /\ p[pc + 1].op = "BRA" =>
                   b < p[pc + 1].target /\ p[pc + 1].target <= Join(p, b)
<1>1. ClosedIfElse(p, b)
  BY DEF Structured
<1>2. b \in 0..(Len(p) - 1) /\ Len(p) \in Nat
  BY DEF Branches
<1>3. p[b + 1] \in Instructions
  BY <1>2
<1>4. p[b + 1].target \in Nat
  BY <1>3 DEF Instructions
<1>5. EndsArm(p, b, ArmEnd(p, b)) /\ ArmEnd(p, b) \in 0..(Len(p) - 1)
  BY <1>1 DEF ClosedIfElse, ArmEnd
<1>6. p[ArmEnd(p, b) + 1] \in Instructions
  BY <1>2, <1>5
<1>7. Join(p, b) \in Nat
  BY <1>6 DEF Instructions, Join
<1> HIDE DEF ArmEnd, Join
<1>8. /\ b < p[b + 1].target /\ ArmEnd(p, b) < Join(p, b)
      /\ \A pc \in (b + 1)..(Join(p, b) - 1) :
           /\ p[pc + 1].op # "HALT"
           /\ p[pc + 1].op = "BRA" => p[pc + 1].target \in (b + 1)..Join(p, b)
  BY <1>1 DEF ClosedIfElse
<1>9. /\ ArmEnd(p, b) \in p[b + 1].target..(Len(p) - 1)
      /\ p[ArmEnd(p, b) + 1].op = "BRA"
      /\ \A pc \in p[b + 1].target..(ArmEnd(p, b) - 1) :
           p[pc + 1].op \notin {"HALT", "BRA", "BRA.P"}
  BY <1>5 DEF EndsArm
<1>10. ASSUME NEW pc \in Nat, p[b + 1].target <= pc, pc < ArmEnd(p, b)
       PROVE  p[pc + 1].op \notin {"HALT", "BRA", "BRA.P"}
  <2>1. pc \in p[b + 1].target..(ArmEnd(p, b) - 1)
    BY <1>4, <1>5, <1>10
  <2> QED BY <1>9, <2>1
<1>11. ASSUME NEW pc \in Nat, b < pc, pc < Join(p, b)
       PROVE  /\ p[pc + 1].op # "HALT"
              /\ p[pc + 1].op = "BRA" =>
                   b < p[pc + 1].target /\ p[pc + 1].target <= Join(p, b)
  <2>1. pc \in (b + 1)..(Join(p, b) - 1)
    BY <1>2, <1>7, <1>11
  <2>2. ASSUME p[pc + 1].op = "BRA"
        PROVE  b < p[pc + 1].target /\ p[pc + 1].target <= Join(p, b)
    <3>1. p[pc + 1].target \in (b + 1)..Join(p, b)
      BY <1>8, <2>1, <2>2
    <3> QED BY <1>2, <1>7, <3>1
  <2> QED BY <1>8, <2>1, <2>2
<1> QED BY <1>2, <1>4, <1>5, <1>7, <1>8, <1>9, <1>10, <1>11

(* The if/elses on the stack close before the one below them does. *)
LEMMA InnerJoins ==
  ASSUME NEW p \in Seq(Instructions), Structured(p), NEW b \in Branches(p), NEW c \in Branches(p),
         c < b, b < Join(p, c)
  PROVE  Join(p, b) < Join(p, c)
<1>1. b \in Nat /\ c \in Nat /\ Join(p, c) \in Nat
  BY ArmFacts
<1>2. b \in (c + 1)..(Join(p, c) - 1)
  BY <1>1
<1> QED BY <1>2 DEF Structured

LEMMA TailPlaced ==
  ASSUME NEW L, NEW s \in Seq(Entries(L)), s # << >>, NEW p, StackPlaced(p, s)
  PROVE  /\ StackPlaced(p, Tail(s))
         /\ Tail(s) # << >> => /\ 2 \in DOMAIN s /\ Tail(s)[1] = s[2]
                               /\ hasReconvergePc(s[2])
<1>1. \A i \in DOMAIN Tail(s) : i \in Nat /\ i >= 1 /\ i + 1 \in DOMAIN s /\ Tail(s)[i] = s[i + 1]
  BY TailElements
<1>2. ASSUME NEW i \in DOMAIN Tail(s) PROVE EntryPlaced(p, Tail(s), i)
  <2>1. EntryPlaced(p, s, i + 1) /\ i + 1 > 1
    BY <1>1 DEF StackPlaced
  <2>2. Tail(s)[i] = s[i + 1]
    BY <1>1
  <2>3. i + 1 \in DOMAIN Tail(s) => (i + 1) + 1 \in DOMAIN s /\ Tail(s)[i + 1] = s[(i + 1) + 1]
    BY <1>1
  <2> QED BY <2>1, <2>2, <2>3 DEF EntryPlaced
<1>3. ASSUME Tail(s) # << >>
      PROVE  2 \in DOMAIN s /\ Tail(s)[1] = s[2] /\ hasReconvergePc(s[2])
  <2>1. 1 \in DOMAIN Tail(s)
    BY <1>3, TailElements
  <2>2. 1 + 1 \in DOMAIN s /\ Tail(s)[1] = s[1 + 1]
    BY <1>1, <2>1
  <2>3. 2 \in DOMAIN s /\ Tail(s)[1] = s[2]
    BY <2>2
  <2> QED BY <2>3 DEF StackPlaced, EntryPlaced
<1> QED BY <1>2, <1>3 DEF StackPlaced

LEMMA PushPlaced ==
  ASSUME NEW L, NEW s \in Seq(Entries(L)), NEW entry \in Entries(L), NEW p, StackPlaced(p, s),
         BranchOf(entry) \in Branches(p),
         hasReconvergePc(entry) => entry.reconvergePc = Join(p, BranchOf(entry)),
         s # << >> => /\ hasReconvergePc(s[1])
                      /\ BranchOf(s[1]) < BranchOf(entry)
                      /\ BranchOf(entry) < Join(p, BranchOf(s[1]))
  PROVE  StackPlaced(p, <<entry>> \o s)
<1> DEFINE new == <<entry>> \o s
<1>1. \A i \in DOMAIN new :
        /\ i \in Nat
        /\ \/ i = 1 /\ new[i] = entry
           \/ i > 1 /\ i - 1 \in DOMAIN s /\ new[i] = s[i - 1]
  BY PushElements
<1>2. s # << >> => 1 \in DOMAIN s
  BY TailElements
<1> HIDE DEF new
<1>3. ASSUME NEW i \in DOMAIN new PROVE EntryPlaced(p, new, i)
  <2>1. CASE i = 1 /\ new[i] = entry
    <3>1. ASSUME 2 \in DOMAIN new
          PROVE  new[2] = s[1] /\ s # << >>
      BY <1>1, <3>1
    <3> QED BY <2>1, <3>1 DEF EntryPlaced
  <2>2. CASE i > 1 /\ i - 1 \in DOMAIN s /\ new[i] = s[i - 1]
    <3>1. EntryPlaced(p, s, i - 1)
      BY <2>2 DEF StackPlaced
    <3>2. hasReconvergePc(s[i - 1])
      <4>1. CASE i - 1 = 1
        <5>1. s # << >>
          BY <2>2
        <5> QED BY <4>1, <5>1
      <4>2. CASE i - 1 # 1
        <5>1. i - 1 > 1
          BY <1>1, <2>2, <4>2
        <5> QED BY <3>1, <5>1 DEF EntryPlaced
      <4> QED BY <4>1, <4>2
    <3>3. i + 1 \in DOMAIN new => (i - 1) + 1 \in DOMAIN s /\ new[i + 1] = s[(i - 1) + 1]
      BY <1>1, <2>2
    <3> QED BY <2>2, <3>1, <3>2, <3>3 DEF EntryPlaced
  <2> QED BY <1>1, <2>1, <2>2
<1> QED BY <1>3 DEF StackPlaced, new

-----------------------------------------------------------------------------
(* Placed is inductive for a structured kernel.                            *)

LEMMA TopOfStack ==
  ASSUME TypeOK, Placed, warp.stack # << >>
  PROVE  /\ program \in Seq(Instructions) /\ warp.pc \in Nat
         /\ warp.stack \in Seq(Entries(Lanes)) /\ 1 \in DOMAIN warp.stack
         /\ Head(warp.stack) = warp.stack[1]
         /\ warp.stack[1] \in Entries(Lanes)
         /\ BranchOf(warp.stack[1]) \in Branches(program)
         /\ BranchOf(warp.stack[1]) + 1 = warp.stack[1].deferredPc
         /\ InArm(program, warp.stack[1], warp.pc)
<1>1. program \in Seq(Instructions) /\ warp.pc \in Nat /\ warp.stack \in Seq(Entries(Lanes))
  BY ProgramAssumption DEF TypeOK, WarpStates
<1>2. 1 \in DOMAIN warp.stack /\ Head(warp.stack) = warp.stack[1] /\ Head(warp.stack) \in Entries(Lanes)
  BY <1>1, TailElements
<1>3. BranchOf(warp.stack[1]) \in Branches(program)
  BY <1>2 DEF Placed, StackPlaced, EntryPlaced
<1>4. BranchOf(warp.stack[1]) + 1 = warp.stack[1].deferredPc
  <2>1. warp.stack[1].deferredPc \in Nat
    BY <1>2 DEF Entries
  <2> QED BY <2>1 DEF BranchOf
<1>5. InArm(program, warp.stack[1], warp.pc)
  BY DEF Placed, PcPlaced
<1> QED BY <1>1, <1>2, <1>3, <1>4, <1>5

(* An instruction is issued before the join of the top entry's if/else. *)
LEMMA IssuedInArm ==
  ASSUME TypeOK, Structured(program), Placed, phase = "issue", warp.stack # << >>
  PROVE  LET b == BranchOf(warp.stack[1])
             inst == program[warp.pc + 1]
         IN  /\ inst.op # "HALT"
             /\ IF hasReconvergePc(warp.stack[1])
                THEN /\ b < warp.pc /\ warp.pc < Join(program, b)
                     /\ inst.op = "BRA" => b < inst.target /\ inst.target <= Join(program, b)
                ELSE IF inst.op \in {"BRA", "BRA.P"}
                     THEN inst.op = "BRA" /\ inst.target = Join(program, b)
                     ELSE program[b + 1].target <= warp.pc /\ warp.pc < ArmEnd(program, b)
<1> DEFINE b == BranchOf(warp.stack[1])
<1>1. /\ program \in Seq(Instructions) /\ warp.pc \in Nat /\ b \in Branches(program)
      /\ InArm(program, warp.stack[1], warp.pc) /\ Head(warp.stack) = warp.stack[1]
  BY TopOfStack
<1>2. CASE hasReconvergePc(warp.stack[1])
  <2>1. b < warp.pc /\ warp.pc <= Join(program, b)
    BY <1>1, <1>2 DEF InArm
  <2>2. warp.pc # Join(program, b)
    <3>1. warp.stack[1].reconvergePc = Join(program, b)
      BY <1>2, TopOfStack DEF Placed, StackPlaced, EntryPlaced
    <3> QED BY <1>1, <3>1 DEF Placed, AtReconvergencePoint
  <2>3. Join(program, b) \in Nat
    BY <1>1, ArmFacts
  <2>4. warp.pc < Join(program, b)
    BY <1>1, <2>1, <2>2, <2>3
  <2> HIDE DEF b
  <2>5. /\ program[warp.pc + 1].op # "HALT"
        /\ program[warp.pc + 1].op = "BRA" =>
             b < program[warp.pc + 1].target /\ program[warp.pc + 1].target <= Join(program, b)
    BY <1>1, <2>1, <2>4, ArmFacts
  <2> QED BY <1>2, <2>1, <2>4, <2>5 DEF b
<1>3. CASE ~ hasReconvergePc(warp.stack[1])
  <2>1. program[b + 1].target <= warp.pc /\ warp.pc <= ArmEnd(program, b)
    BY <1>1, <1>3 DEF InArm
  <2> HIDE DEF b
  <2>2. ArmEnd(program, b) \in Nat
    BY <1>1, ArmFacts
  <2>3. CASE warp.pc = ArmEnd(program, b)
    <3>1. program[warp.pc + 1].op = "BRA" /\ program[warp.pc + 1].target = Join(program, b)
      BY <1>1, <2>3, ArmFacts DEF Join
    <3> QED BY <1>3, <3>1 DEF b
  <2>4. CASE warp.pc # ArmEnd(program, b)
    <3>1. warp.pc < ArmEnd(program, b)
      BY <1>1, <2>1, <2>2, <2>4
    <3>2. program[warp.pc + 1].op \notin {"HALT", "BRA", "BRA.P"}
      BY <1>1, <2>1, <3>1, ArmFacts
    <3> QED BY <1>3, <2>1, <3>1, <3>2 DEF b
  <2> QED BY <2>3, <2>4
<1> QED BY <1>2, <1>3

LEMMA ReconvergePlaced ==
  ASSUME TypeOK, Structured(program), Placed, Reconverge
  PROVE  Placed'
<1>1. /\ warp \in WarpStates(Lanes) /\ program' = program /\ phase' = "issue"
      /\ warp.stack \in Seq(Entries(Lanes))
  BY DEF TypeOK, WarpStates, Reconverge
<1>2. CASE ~ Done(warp) /\ AtReconvergencePoint(warp)
  <2> DEFINE b == BranchOf(warp.stack[1])
             c == BranchOf(warp.stack[2])
             rest == Tail(warp.stack)
  <2>1. warp.stack # << >> /\ Head(warp.stack).reconvergePc = warp.pc
    BY <1>2 DEF AtReconvergencePoint
  <2>2. warp'.stack = rest /\ warp'.pc = warp.pc
    BY <1>1, <1>2 DEF Reconverge, tryReconvergeAtCurrentPc, WarpStates
  <2>3. /\ StackPlaced(program, rest)
        /\ rest # << >> => /\ 2 \in DOMAIN warp.stack /\ rest[1] = warp.stack[2]
                           /\ hasReconvergePc(warp.stack[2])
    BY <1>1, <2>1, TailPlaced DEF Placed
  <2>4. /\ program \in Seq(Instructions) /\ warp.pc \in Nat /\ b \in Branches(program)
        /\ warp.stack[1].reconvergePc = warp.pc /\ 1 \in DOMAIN warp.stack
    BY <2>1, TopOfStack
  <2>5. hasReconvergePc(warp.stack[1])
    BY <2>4 DEF hasReconvergePc, NoPc
  <2>6. warp.pc = Join(program, b)
    BY <2>4, <2>5 DEF Placed, StackPlaced, EntryPlaced
  <2> HIDE DEF rest
  <2>7. ASSUME rest # << >>
        PROVE  /\ c < warp.pc /\ warp.pc < Join(program, c)
               /\ hasReconvergePc(rest[1]) /\ rest[1].reconvergePc = Join(program, c)
               /\ BranchOf(rest[1]) = c
    <3>1. 1 + 1 \in DOMAIN warp.stack /\ rest[1] = warp.stack[2] /\ hasReconvergePc(warp.stack[2])
      BY <2>3, <2>7
    <3>2. /\ c \in Branches(program)
          /\ warp.stack[2].reconvergePc = Join(program, c)
      BY <2>3, <2>7, <3>1 DEF Placed, StackPlaced, EntryPlaced
    <3>3. c < b /\ b < Join(program, c)
      BY <2>4, <3>1 DEF Placed, StackPlaced, EntryPlaced
    <3> HIDE DEF b, c
    <3>4. Join(program, b) < Join(program, c)
      BY <2>4, <3>2, <3>3, InnerJoins
    <3>5. b < Join(program, b) /\ c \in Nat /\ b \in Nat /\ Join(program, b) \in Nat
      <4>1. /\ b \in Nat /\ program[b + 1].target \in Nat
            /\ ArmEnd(program, b) \in Nat /\ Join(program, b) \in Nat
            /\ b < program[b + 1].target /\ program[b + 1].target <= ArmEnd(program, b)
            /\ ArmEnd(program, b) < Join(program, b)
        BY <2>4, ArmFacts
      <4>2. c \in Nat
        BY <2>4, <3>2, ArmFacts
      <4> QED BY <4>1, <4>2
    <3>6. c < warp.pc /\ warp.pc < Join(program, c)
      BY <2>6, <3>3, <3>4, <3>5
    <3> QED BY <3>1, <3>2, <3>6 DEF c
  <2>8. PcPlaced(program, warp')
    <3> SUFFICES ASSUME rest # << >> PROVE InArm(program, rest[1], warp.pc)
      BY <2>2 DEF PcPlaced
    <3>1. BranchOf(rest[1]) < warp.pc /\ warp.pc < Join(program, BranchOf(rest[1]))
      BY <2>7
    <3>2. warp.pc <= Join(program, BranchOf(rest[1]))
      <4>1. BranchOf(rest[1]) \in Branches(program)
        BY <2>3, <2>7, TailElements, <1>1, <2>1 DEF rest, StackPlaced, EntryPlaced
      <4>2. Join(program, BranchOf(rest[1])) \in Nat
        BY <2>4, <4>1, ArmFacts
      <4> QED BY <2>4, <3>1, <4>2
    <3> QED BY <2>7, <3>1, <3>2 DEF InArm
  <2>9. ~ AtReconvergencePoint(warp')
    <3> SUFFICES ASSUME rest # << >>, Head(rest).reconvergePc = warp.pc PROVE FALSE
      BY <2>2 DEF AtReconvergencePoint
    <3>1. Head(rest) = rest[1]
      OBVIOUS
    <3>2. warp.pc = Join(program, c) /\ warp.pc < Join(program, c)
      BY <2>7, <3>1
    <3> QED BY <2>4, <3>2
  <2> QED BY <1>1, <2>2, <2>3, <2>8, <2>9 DEF Placed
<1>3. CASE ~ (~ Done(warp) /\ AtReconvergencePoint(warp))
  <2>1. warp' = warp
    BY <1>3 DEF Reconverge, tryReconvergeAtCurrentPc
  <2>2. ~ AtReconvergencePoint(warp)
    BY <1>3 DEF Done, AtReconvergencePoint
  <2> QED BY <1>1, <2>1, <2>2 DEF Placed
<1> QED BY <1>2, <1>3

(* An issue that leaves the stack and moves the pc within the top entry's  *)
(* arm, or that finds the stack empty.                                     *)
LEMMA MovePlaced ==
  ASSUME Placed, program' = program, phase' = "writeback", warp'.stack = warp.stack,
         warp.stack # << >> => InArm(program, warp.stack[1], warp'.pc)
  PROVE  Placed'
<1>1. StackPlaced(program', warp'.stack)
  BY DEF Placed
<1>2. PcPlaced(program', warp')
  BY DEF PcPlaced
<1> QED BY <1>1, <1>2 DEF Placed

LEMMA BraPlaced ==
  ASSUME TypeOK, Structured(program), Placed, Bra
  PROVE  Placed'
<1>1. /\ warp \in WarpStates(Lanes) /\ warp.stack \in Seq(Entries(Lanes))
      /\ phase = "issue" /\ phase' = "writeback" /\ program' = program
      /\ program[warp.pc + 1].op = "BRA" /\ warp' = branch(warp, Target)
  BY DEF TypeOK, WarpStates, Bra, Issues
<1>2. CASE warp.stack = << >>
  <2>1. warp'.stack = warp.stack
    BY <1>1, <1>2 DEF branch, WarpStates
  <2> QED BY <1>1, <1>2, <2>1, MovePlaced
<1>3. CASE warp.stack # << >> /\ hasReconvergePc(warp.stack[1])
  <2>1. warp' = [warp EXCEPT !.pc = Target]
    BY <1>1, <1>3, TopOfStack DEF branch
  <2>2. warp'.stack = warp.stack /\ warp'.pc = Target
    BY <1>1, <2>1 DEF WarpStates
  <2>3. InArm(program, warp.stack[1], Target)
    BY <1>1, <1>3, IssuedInArm DEF InArm, Target
  <2> QED BY <1>1, <2>2, <2>3, MovePlaced
<1>4. CASE warp.stack # << >> /\ ~ hasReconvergePc(warp.stack[1])
  <2> DEFINE entry == warp.stack[1]
             resolved == [entry EXCEPT !.reconvergePc = Target, !.completedMask = warp.activeMask]
             rest == Tail(warp.stack)
             b == BranchOf(entry)
  <2>1. /\ entry \in Entries(Lanes) /\ Head(warp.stack) = entry /\ 1 \in DOMAIN warp.stack
        /\ b \in Branches(program) /\ b + 1 = entry.deferredPc
        /\ program \in Seq(Instructions)
    BY <1>4, TopOfStack
  <2>2. Target = Join(program, b)
    BY <1>1, <1>4, IssuedInArm DEF Target
  <2>3. /\ b \in Nat /\ Join(program, b) \in Nat /\ b < Join(program, b)
        /\ b + 1 <= Join(program, b)
    <3> HIDE DEF b
    <3>1. /\ b \in Nat /\ program[b + 1].target \in Nat
          /\ ArmEnd(program, b) \in Nat /\ Join(program, b) \in Nat
          /\ b < program[b + 1].target /\ program[b + 1].target <= ArmEnd(program, b)
          /\ ArmEnd(program, b) < Join(program, b)
      BY <2>1, ArmFacts
    <3> QED BY <3>1
  <2>4. warp' = [warp EXCEPT !.pc = entry.deferredPc,
                             !.activeMask = entry.deferredMask,
                             !.stack = <<resolved>> \o rest]
    BY <1>1, <1>4, <2>1 DEF branch, WarpStates
  <2>5. /\ resolved.deferredPc = entry.deferredPc /\ resolved.reconvergePc = Target
        /\ resolved \in Entries(Lanes)
    <3>1. warp.activeMask \in SUBSET Lanes
      BY <1>1 DEF WarpStates
    <3> HIDE DEF entry
    <3> QED BY <2>1, <2>2, <2>3, <3>1 DEF Entries
  <2>6. warp'.stack = <<resolved>> \o rest /\ warp'.pc = entry.deferredPc
    BY <1>1, <2>4 DEF WarpStates
  <2>7. /\ StackPlaced(program, rest)
        /\ rest # << >> => /\ 2 \in DOMAIN warp.stack /\ rest[1] = warp.stack[2]
                           /\ hasReconvergePc(warp.stack[2])
    BY <1>1, <1>4, TailPlaced DEF Placed
  <2>8. rest # << >> => /\ hasReconvergePc(rest[1])
                        /\ BranchOf(rest[1]) < b
                        /\ b < Join(program, BranchOf(rest[1]))
    <3> SUFFICES ASSUME rest # << >>
                 PROVE  /\ hasReconvergePc(rest[1])
                        /\ BranchOf(rest[1]) < b
                        /\ b < Join(program, BranchOf(rest[1]))
      OBVIOUS
    <3> HIDE DEF rest
    <3>1. 1 + 1 \in DOMAIN warp.stack /\ rest[1] = warp.stack[1 + 1] /\ hasReconvergePc(rest[1])
      BY <2>7
    <3> QED BY <2>1, <3>1 DEF Placed, StackPlaced, EntryPlaced
  <2>9. rest \in Seq(Entries(Lanes))
    BY <1>1, <1>4, TailElements
  <2>10. hasReconvergePc(resolved) /\ BranchOf(resolved) = b
    <3>1. resolved.reconvergePc = Join(program, b) /\ Join(program, b) # NoPc
      BY <2>2, <2>3, <2>5 DEF NoPc
    <3> QED BY <2>5, <3>1 DEF hasReconvergePc, BranchOf
  <2> HIDE DEF resolved, rest, b
  <2>11. StackPlaced(program, <<resolved>> \o rest)
    BY <2>1, <2>2, <2>5, <2>7, <2>8, <2>9, <2>10, PushPlaced
  <2>12. PcPlaced(program, warp')
    <3>1. warp'.stack[1] = resolved
      BY <2>5, <2>6, <2>9
    <3>2. b < entry.deferredPc /\ entry.deferredPc <= Join(program, b)
      BY <2>1, <2>3
    <3> QED BY <2>6, <2>10, <3>1, <3>2 DEF PcPlaced, InArm
  <2> QED BY <1>1, <2>6, <2>11, <2>12 DEF Placed
<1> QED BY <1>2, <1>3, <1>4

LEMMA BraPredPlaced ==
  ASSUME TypeOK, Structured(program), Placed, BraPred
  PROVE  Placed'
<1>1. /\ warp \in WarpStates(Lanes) /\ warp.stack \in Seq(Entries(Lanes)) /\ warp.pc \in Nat
      /\ program \in Seq(Instructions)
      /\ phase = "issue" /\ phase' = "writeback" /\ program' = program
      /\ warp.pc < Len(program) /\ program[warp.pc + 1].op = "BRA.P"
  BY ProgramAssumption DEF TypeOK, WarpStates, BraPred, Issues
<1>2. PICK takeMask \in SUBSET warp.activeMask :
        warp' = branchOnPredicate(warp, Target, takeMask)
  BY DEF BraPred
<1> DEFINE here == warp.pc
           b == BranchOf(warp.stack[1])
           fallMask == warp.activeMask \ takeMask
<1>3. here \in Branches(program)
  <2>1. Len(program) \in Nat
    BY <1>1
  <2> QED BY <1>1, <2>1 DEF Branches
<1>4. /\ Target \in Nat /\ ArmEnd(program, here) \in Nat /\ Join(program, here) \in Nat
      /\ here < Target /\ Target <= ArmEnd(program, here)
      /\ ArmEnd(program, here) < Join(program, here)
  <2> HIDE DEF here
  <2>1. /\ program[here + 1].target \in Nat
        /\ ArmEnd(program, here) \in Nat /\ Join(program, here) \in Nat
        /\ here < program[here + 1].target /\ program[here + 1].target <= ArmEnd(program, here)
        /\ ArmEnd(program, here) < Join(program, here)
    BY <1>1, <1>3, ArmFacts
  <2> QED BY <2>1 DEF Target, here
<1>5. ASSUME warp.stack # << >>
      PROVE  /\ hasReconvergePc(warp.stack[1]) /\ b \in Branches(program)
             /\ b < here /\ here < Join(program, b)
             /\ Join(program, here) < Join(program, b)
             /\ b \in Nat /\ Join(program, b) \in Nat
  <2>1. /\ hasReconvergePc(warp.stack[1])
        /\ b < here /\ here < Join(program, b)
    BY <1>1, <1>5, IssuedInArm
  <2>2. b \in Branches(program)
    BY <1>5, TopOfStack
  <2> HIDE DEF b, here
  <2>3. b \in Nat /\ Join(program, b) \in Nat
    BY <1>1, <2>2, ArmFacts
  <2> QED BY <1>1, <1>3, <2>1, <2>2, <2>3, InnerJoins
<1>6. CASE takeMask # {} /\ fallMask # {}
  <2> DEFINE entry == [deferredPc |-> warp.pc + 1, deferredMask |-> fallMask,
                       reconvergePc |-> NoPc, completedMask |-> {}]
  <2>1. /\ entry \in Entries(Lanes) /\ ~ hasReconvergePc(entry) /\ BranchOf(entry) = here
    BY <1>1 DEF WarpStates, Entries, hasReconvergePc, BranchOf
  <2> HIDE DEF entry
  <2>2. warp' = [warp EXCEPT !.pc = Target, !.activeMask = takeMask,
                             !.stack = <<entry>> \o warp.stack]
    BY <1>1, <1>2, <1>6 DEF branchOnPredicate, entry, WarpStates
  <2>3. warp'.stack = <<entry>> \o warp.stack /\ warp'.pc = Target
    BY <1>1, <2>2 DEF WarpStates
  <2> HIDE DEF b, here
  <2>4. StackPlaced(program, <<entry>> \o warp.stack)
    <3>1. StackPlaced(program, warp.stack)
      BY DEF Placed
    <3>2. warp.stack # << >> => /\ hasReconvergePc(warp.stack[1])
                                /\ BranchOf(warp.stack[1]) < BranchOf(entry)
                                /\ BranchOf(entry) < Join(program, BranchOf(warp.stack[1]))
      BY <1>5, <2>1 DEF b
    <3> QED BY <1>1, <1>3, <2>1, <3>1, <3>2, PushPlaced
  <2>5. PcPlaced(program, warp')
    <3>1. warp'.stack[1] = entry
      BY <1>1, <2>1, <2>3
    <3>2. program[here + 1].target <= Target /\ Target <= ArmEnd(program, here)
      BY <1>4 DEF Target, here
    <3> QED BY <2>1, <2>3, <3>1, <3>2 DEF PcPlaced, InArm
  <2> QED BY <1>1, <2>3, <2>4, <2>5 DEF Placed
<1>7. CASE takeMask # {} /\ fallMask = {}
  <2>1. warp'.stack = warp.stack /\ warp'.pc = Target
    BY <1>1, <1>2, <1>7 DEF branchOnPredicate, WarpStates
  <2> HIDE DEF here
  <2>2. warp.stack # << >> => b < Target /\ Target <= Join(program, b)
    <3> HIDE DEF b
    <3>1. here \in Nat
      BY <1>1 DEF here
    <3> QED BY <1>4, <1>5, <3>1
  <2>3. warp.stack # << >> => InArm(program, warp.stack[1], Target)
    BY <1>5, <2>2 DEF InArm
  <2> QED BY <1>1, <2>1, <2>3, MovePlaced
<1>8. CASE takeMask = {}
  <2>1. warp'.stack = warp.stack /\ warp'.pc = warp.pc + 1
    BY <1>1, <1>2, <1>8 DEF branchOnPredicate, advancePc, WarpStates
  <2>2. warp.stack # << >> => b < warp.pc + 1 /\ warp.pc + 1 <= Join(program, b)
    <3> HIDE DEF b
    <3> QED BY <1>1, <1>5
  <2>3. warp.stack # << >> => InArm(program, warp.stack[1], warp.pc + 1)
    BY <1>5, <2>2 DEF InArm
  <2> QED BY <1>1, <2>1, <2>3, MovePlaced
<1> QED BY <1>6, <1>7, <1>8

LEMMA SequentialPlaced ==
  ASSUME TypeOK, Structured(program), Placed, Sequential
  PROVE  Placed'
<1>1. /\ warp \in WarpStates(Lanes) /\ warp.pc \in Nat
      /\ program \in Seq(Instructions)
      /\ phase = "issue" /\ phase' = "writeback" /\ program' = program
      /\ program[warp.pc + 1].op \notin {"HALT", "BRA", "BRA.P"}
      /\ warp' = advancePc(warp)
  BY ProgramAssumption DEF TypeOK, WarpStates, Sequential, Issues
<1>2. warp'.stack = warp.stack /\ warp'.pc = warp.pc + 1
  BY <1>1 DEF advancePc, WarpStates
<1>3. ASSUME warp.stack # << >> PROVE InArm(program, warp.stack[1], warp.pc + 1)
  <2> DEFINE b == BranchOf(warp.stack[1])
  <2>1. b \in Branches(program)
    BY <1>3, TopOfStack
  <2>2. /\ b \in Nat /\ program[b + 1].target \in Nat
        /\ ArmEnd(program, b) \in Nat /\ Join(program, b) \in Nat
    <3> HIDE DEF b
    <3> QED BY <1>1, <2>1, ArmFacts
  <2>3. CASE hasReconvergePc(warp.stack[1])
    <3>1. b < warp.pc /\ warp.pc < Join(program, b)
      BY <1>1, <1>3, <2>3, IssuedInArm
    <3> HIDE DEF b
    <3>2. b < warp.pc + 1 /\ warp.pc + 1 <= Join(program, b)
      BY <1>1, <2>2, <3>1
    <3> QED BY <2>3, <3>2 DEF InArm, b
  <2>4. CASE ~ hasReconvergePc(warp.stack[1])
    <3>1. program[b + 1].target <= warp.pc /\ warp.pc < ArmEnd(program, b)
      BY <1>1, <1>3, <2>4, IssuedInArm
    <3> HIDE DEF b
    <3>2. program[b + 1].target <= warp.pc + 1 /\ warp.pc + 1 <= ArmEnd(program, b)
      BY <1>1, <2>2, <3>1
    <3> QED BY <2>4, <3>2 DEF InArm, b
  <2> QED BY <2>3, <2>4
<1> QED BY <1>1, <1>2, <1>3, MovePlaced

LEMMA HaltWhenTogether ==
  ASSUME TypeOK, Structured(program), Placed, Halt
  PROVE  warp.stack = << >>
<1>1. phase = "issue" /\ program[warp.pc + 1].op = "HALT"
  BY DEF Halt, Issues
<1> QED BY <1>1, IssuedInArm

LEMMA StepPlaced ==
  ASSUME TypeOK, Structured(program), Placed, [Next]_vars
  PROVE  Placed'
<1>1. CASE Reconverge
  BY <1>1, ReconvergePlaced
<1>2. CASE Stall
  BY <1>2 DEF Stall, Placed
<1>3. CASE Halt
  <2>1. warp.stack = << >>
    BY <1>3, HaltWhenTogether
  <2>2. warp'.stack = warp.stack
    BY <1>3, <2>1 DEF Halt, haltOrDeferToDivergenceStack, Halts, TypeOK, WarpStates
  <2>3. phase' = "writeback" /\ program' = program
    BY <1>3 DEF Halt, Issues
  <2> QED BY <2>1, <2>2, <2>3, MovePlaced
<1>4. CASE Bra
  BY <1>4, BraPlaced
<1>5. CASE BraPred
  BY <1>5, BraPredPlaced
<1>6. CASE Sequential
  BY <1>6, SequentialPlaced
<1>7. CASE UNCHANGED vars
  BY <1>7 DEF vars, Placed
<1> QED BY <1>1, <1>2, <1>3, <1>4, <1>5, <1>6, <1>7 DEF Next, Issue

(* The threads of a structured kernel are executed as the reference        *)
(* interpreter executes them, whichever lanes take which branch: its       *)
(* lanes rejoin at every join, one entry at a time, and are together       *)
(* again before any of them halts.                                         *)
THEOREM StructuredThreadsFollow ==
  ASSUME \A p \in Programs : Structured(p)
  PROVE  Spec => ThreadsSpec
<1>1. Init => Placed
  <2> SUFFICES ASSUME Init PROVE Placed
    OBVIOUS
  <2>1. PICK mask \in LaunchMasks : warp = NewWarp(mask)
    BY DEF Init
  <2>2. warp.stack = << >> /\ DOMAIN warp.stack = {}
    BY <2>1 DEF NewWarp
  <2> QED BY <2>2 DEF Placed, StackPlaced, PcPlaced, AtReconvergencePoint
<1>2. TypeOK => Structured(program)
  BY DEF TypeOK
<1>3. TypeOK /\ Placed /\ [Next]_vars => Placed'
  BY <1>2, StepPlaced
<1>4. TypeOK /\ Placed => [~ HaltsBeforeJoin]_vars
  <2> SUFFICES ASSUME TypeOK, Placed, HaltsBeforeJoin PROVE FALSE
    OBVIOUS
  <2> QED BY <1>2, HaltWhenTogether DEF HaltsBeforeJoin
<1> QED BY <1>1, <1>3, <1>4, SimtWarpTypeCorrect, ThreadsFollow, PTL DEF Spec
=============================================================================
