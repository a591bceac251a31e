----------------------------- MODULE BarrierProofs -----------------------------
(***************************************************************************)
(* Theorems about warps that wait, for every launch, kernel and            *)
(* configuration: who waits at a barrier, the count of instructions, that  *)
(* no warp runs ahead of another of its CTA by a barrier, why a run can    *)
(* get stuck, and what it leaves behind when it ends.                      *)
(***************************************************************************)
EXTENDS BarrierOrder, InvariantChecker, StreamingMultiprocessorProofs

-----------------------------------------------------------------------------
(* A warp that has halted is done: it halts with an empty stack only.      *)
HaltedIsDone == \A w \in Warps : warps[w].halted => warps[w].stack = << >>

LEMMA WarpOperationsRun ==
  ASSUME NEW wp \in WarpStates(Lanes), ~ wp.halted
  PROVE  /\ ~ tryReconvergeAtCurrentPc(wp).halted
         /\ ~ advancePc(wp).halted
         /\ \A target : ~ branch(wp, target).halted
         /\ \A target, takeMask : ~ branchOnPredicate(wp, target, takeMask).halted
         /\ haltOrDeferToDivergenceStack(wp).halted
              => haltOrDeferToDivergenceStack(wp).stack = << >>
<1>1. ~ tryReconvergeAtCurrentPc(wp).halted
  BY DEF tryReconvergeAtCurrentPc, WarpStates
<1>2. ~ advancePc(wp).halted
  BY DEF advancePc, WarpStates
<1>3. ASSUME NEW target PROVE ~ branch(wp, target).halted
  BY DEF branch, WarpStates
<1>4. ASSUME NEW target, NEW takeMask
      PROVE  ~ branchOnPredicate(wp, target, takeMask).halted
  <2>1. CASE takeMask # {} /\ wp.activeMask \ takeMask # {}
    BY <2>1 DEF branchOnPredicate, WarpStates
  <2>2. CASE takeMask # {} /\ wp.activeMask \ takeMask = {}
    BY <2>2 DEF branchOnPredicate, WarpStates
  <2>3. CASE takeMask = {}
    BY <2>3 DEF branchOnPredicate, advancePc, WarpStates
  <2> QED BY <2>1, <2>2, <2>3
<1>5. haltOrDeferToDivergenceStack(wp).halted
        => haltOrDeferToDivergenceStack(wp).stack = << >>
  BY DEF haltOrDeferToDivergenceStack, Halts, WarpStates
<1> QED BY <1>1, <1>2, <1>3, <1>4, <1>5

(* An issue moves the issuing warp only, and only a HALT ends it. *)
LEMMA IssueMovesOne ==
  ASSUME TypeOK, HaltedIsDone, NEW w \in Warps, Issue(w)
  PROVE  /\ \A v \in Warps \ {w} : warps'[v] = warps[v]
         /\ ~ Done(warps[w])
         /\ warps'[w].halted => warps'[w].stack = << >> /\ Halt(w)
<1>1. warps \in [Warps -> WarpStates(Lanes)] /\ warps[w] \in WarpStates(Lanes)
  BY DEF TypeOK
<1>2. ~ Done(warps[w])
  BY DEF Issue, Nop, Halt, Bra, BraPred, Arithmetic, Setp, LoadGlobal, StoreGlobal,
         LoadShared, StoreShared, BarSync, Issues, ReadyWarps, Ready
<1>3. ~ warps[w].halted
  BY <1>2 DEF HaltedIsDone, Done
<1>4. ASSUME NEW wp, Moves(w, wp)
      PROVE  warps'[w] = wp /\ \A v \in Warps \ {w} : warps'[v] = warps[v]
  BY <1>1, <1>4 DEF Moves
<1>5. CASE Halt(w)
  BY <1>1, <1>2, <1>3, <1>4, <1>5, WarpOperationsRun DEF Halt
<1>6. CASE Bra(w)
  BY <1>1, <1>2, <1>3, <1>4, <1>6, WarpOperationsRun DEF Bra
<1>7. CASE BraPred(w)
  BY <1>1, <1>2, <1>3, <1>4, <1>7, WarpOperationsRun DEF BraPred
<1>8. CASE NextPc(w)
  BY <1>1, <1>2, <1>3, <1>4, <1>8, WarpOperationsRun DEF NextPc
<1>9. NextPc(w) \/ Halt(w) \/ Bra(w) \/ BraPred(w)
  BY DEF Issue, Nop, Arithmetic, Setp, LoadGlobal, StoreGlobal, LoadShared, StoreShared,
         BarSync
<1> QED BY <1>5, <1>6, <1>7, <1>8, <1>9

LEMMA WritebackKeepsDone ==
  ASSUME TypeOK, HaltedIsDone, Writeback, NEW w \in Warps
  PROVE  /\ warps'[w].halted => warps'[w].stack = << >>
         /\ Done(warps'[w]) <=> Done(warps[w])
<1>1. warps[w] \in WarpStates(Lanes)
  BY DEF TypeOK
<1>2. warps'[w] = IF Done(warps[w]) THEN warps[w] ELSE tryReconvergeAtCurrentPc(warps[w])
  BY DEF Writeback
<1>3. CASE Done(warps[w])
  BY <1>2, <1>3 DEF Done
<1>4. CASE ~ Done(warps[w])
  <2>1. ~ warps[w].halted
    BY <1>4 DEF HaltedIsDone, Done
  <2> QED BY <1>1, <1>2, <1>4, <2>1, WarpOperationsRun DEF Done
<1> QED BY <1>3, <1>4

(* A warp that is done stays done, and only a HALT ends one. *)
LEMMA DoneStep ==
  ASSUME TypeOK, HaltedIsDone, [Next]_vars
  PROVE  /\ HaltedIsDone'
         /\ \A w \in Warps : Done(warps[w]) => Done(warps'[w])
         /\ \A w \in Warps : Done(warps'[w]) => Done(warps[w]) \/ Halt(w)
<1>1. CASE Writeback
  BY <1>1, WritebackKeepsDone DEF HaltedIsDone
<1>2. CASE UNCHANGED warps
  BY <1>2 DEF HaltedIsDone
<1>3. ASSUME NEW v \in Warps, Issue(v)
      PROVE  /\ HaltedIsDone'
             /\ \A w \in Warps : Done(warps[w]) => Done(warps'[w])
             /\ \A w \in Warps : Done(warps'[w]) => Done(warps[w]) \/ Halt(w)
  <2>1. /\ \A w \in Warps \ {v} : warps'[w] = warps[w]
        /\ ~ Done(warps[v])
        /\ warps'[v].halted => warps'[v].stack = << >> /\ Halt(v)
    BY <1>3, IssueMovesOne
  <2> QED BY <2>1 DEF HaltedIsDone, Done
<1> QED BY <1>1, <1>2, <1>3 DEF Next, Idle, vars

LEMMA HaltedInvariant == Spec => []HaltedIsDone
<1>1. Init => HaltedIsDone
  BY DEF Init, HaltedIsDone, NewWarp
<1>2. TypeOK /\ HaltedIsDone /\ [Next]_vars => HaltedIsDone'
  BY DoneStep
<1> QED BY <1>1, <1>2, SMTypeCorrect, PTL DEF Spec

-----------------------------------------------------------------------------
(* A warp that is done waits for nothing: a HALT issues only from a warp   *)
(* that is held neither by a load nor at a barrier, so readiness() can     *)
(* leave out the flags of warps that are done.                             *)
THEOREM DoneWarpsDoNotWait == Spec => []DoneWaitsForNothing
<1>1. Init => DoneWaitsForNothing
  BY DEF Init, DoneWaitsForNothing
<1>2. TypeOK /\ HaltedIsDone /\ DoneWaitsForNothing /\ [Next]_vars => DoneWaitsForNothing'
  <2> SUFFICES ASSUME TypeOK, HaltedIsDone, DoneWaitsForNothing, [Next]_vars,
                      NEW w \in Warps, Done(warps'[w])
               PROVE  w \notin waitingOnGlobalMemory' /\ w \notin waitingOnBarrier'
    BY DEF DoneWaitsForNothing
  <2>1. Done(warps[w]) \/ Halt(w)
    BY DoneStep
  <2>2. w \notin waitingOnGlobalMemory /\ w \notin waitingOnBarrier
    BY <2>1 DEF DoneWaitsForNothing, Halt, Issues, ReadyWarps, Ready
  <2>3. CASE Writeback \/ Idle \/ UNCHANGED vars
    BY <2>2, <2>3 DEF Writeback, Idle, vars
  <2>4. ASSUME NEW v \in Warps, Issue(v)
        PROVE  w \notin waitingOnGlobalMemory' /\ w \notin waitingOnBarrier'
    <3>1. CASE Nop(v) \/ Halt(v) \/ Bra(v) \/ BraPred(v) \/ Arithmetic(v) \/ Setp(v)
               \/ StoreGlobal(v) \/ LoadShared(v) \/ StoreShared(v)
      BY <2>2, <3>1 DEF Nop, Halt, Bra, BraPred, Arithmetic, Setp, StoreGlobal, LoadShared,
                        StoreShared, RetiresAtIssue
    <3>2. CASE LoadGlobal(v) \/ BarSync(v)
      <4>1. v # w
        <5>1. ~ Done(warps[v])
          BY <2>4, IssueMovesOne
        <5>2. ~ Halt(v)
          BY <3>2 DEF LoadGlobal, BarSync, Halt, Issues
        <5> QED BY <2>1, <5>1, <5>2
      <4>2. /\ waitingOnGlobalMemory' \subseteq waitingOnGlobalMemory \cup {v}
            /\ waitingOnBarrier' \subseteq waitingOnBarrier \cup {v}
        BY <3>2 DEF LoadGlobal, BarSync, Release, Wait
      <4> QED BY <2>2, <4>1, <4>2
    <3> QED BY <2>4, <3>1, <3>2 DEF Issue
  <2> QED BY <2>3, <2>4 DEF Next
<1> QED BY <1>1, <1>2, SMTypeCorrect, HaltedInvariant, PTL DEF Spec

(* The warps that wait at barriers are those that the barriers have        *)
(* registered, and a barrier whose warps have all arrived is not left      *)
(* standing: nobody waits for an arrival that has happened.                *)
THEOREM BarriersAreRegistered == Spec => []BarrierRegistered
<1>1. Init => BarrierRegistered
  BY DEF Init, BarrierRegistered, NoBarrier
<1>2. TypeOK /\ BarrierRegistered /\ [Next]_vars => BarrierRegistered'
  <2> SUFFICES ASSUME TypeOK, BarrierRegistered, [Next]_vars, NEW c \in CTAs
               PROVE  /\ barriers'[c].waitingWarps = {w \in waitingOnBarrier' : CtaOf[w] = c}
                      /\ barriers'[c] = NoBarrier \/ ~ Complete(barriers'[c])
    BY DEF BarrierRegistered, Complete
  <2>1. /\ barriers[c].waitingWarps = {w \in waitingOnBarrier : CtaOf[w] = c}
        /\ barriers[c] = NoBarrier \/ ~ Complete(barriers[c])
    BY DEF BarrierRegistered
  <2>2. CASE UNCHANGED <<barriers, waitingOnBarrier>>
    BY <2>1, <2>2
  <2>3. ASSUME NEW v \in Warps, BarSync(v)
        PROVE  /\ barriers'[c].waitingWarps = {w \in waitingOnBarrier' : CtaOf[w] = c}
               /\ barriers'[c] = NoBarrier \/ ~ Complete(barriers'[c])
    <3> DEFINE arrival == Arrival(v)
    <3>1. CtaOf[v] \in CTAs /\ DOMAIN barriers = CTAs
      BY LaunchAssumption DEF TypeOK
    <3>2. /\ arrival.waitingWarps = barriers[CtaOf[v]].waitingWarps \cup {v}
          /\ barriers[CtaOf[v]].waitingWarps = {w \in waitingOnBarrier : CtaOf[w] = CtaOf[v]}
      BY <3>1 DEF Arrival, BarrierRegistered
    <3>3. CASE Complete(arrival)
      <4>1. /\ waitingOnBarrier' = waitingOnBarrier \ arrival.waitingWarps
            /\ barriers' = [barriers EXCEPT ![CtaOf[v]] = NoBarrier]
        BY <2>3, <3>3 DEF BarSync, Release
      <4>2. NoBarrier.waitingWarps = {}
        BY DEF NoBarrier
      <4> HIDE DEF arrival
      <4> QED BY <2>1, <3>1, <3>2, <4>1, <4>2
    <3>4. CASE ~ Complete(arrival)
      <4>1. /\ waitingOnBarrier' = waitingOnBarrier \cup {v}
            /\ barriers' = [barriers EXCEPT ![CtaOf[v]] = arrival]
        BY <2>3, <3>4 DEF BarSync, Wait
      <4> HIDE DEF arrival
      <4> QED BY <2>1, <3>1, <3>2, <3>4, <4>1
    <3> QED BY <3>3, <3>4
  <2> QED BY <2>2, <2>3 DEF Next, Writeback, Idle, vars, Issue, Nop, Halt, Bra, BraPred,
             Arithmetic, Setp, LoadGlobal, StoreGlobal, LoadShared, StoreShared,
             RetiresAtIssue
<1> QED BY <1>1, <1>2, SMTypeCorrect, PTL DEF Spec

-----------------------------------------------------------------------------
(* An arrival at a barrier, as the theorems below use it. *)
LEMMA Arrives ==
  ASSUME TypeOK, BarrierRegistered, NEW v \in Warps, BarSync(v)
  PROVE  /\ CtaOf[v] \in CTAs
         /\ ~ Done(warps[v]) /\ v \notin waitingOnBarrier
         /\ currentInstruction(v).op = "BAR.SYNC"
         /\ Arrival(v).waitingWarps = {w \in waitingOnBarrier : CtaOf[w] = CtaOf[v]} \cup {v}
         /\ IF Complete(Arrival(v)) THEN Release(v) ELSE Wait(v)
<1>1. CtaOf[v] \in CTAs
  BY LaunchAssumption
<1>2. Arrival(v).waitingWarps = barriers[CtaOf[v]].waitingWarps \cup {v}
  BY DEF Arrival
<1>3. /\ ~ Done(warps[v]) /\ v \notin waitingOnBarrier
      /\ currentInstruction(v).op = "BAR.SYNC"
      /\ IF Complete(Arrival(v)) THEN Release(v) ELSE Wait(v)
  BY DEF BarSync, Issues, ReadyWarps, Ready
<1> QED BY <1>1, <1>2, <1>3 DEF BarrierRegistered

(* Every instruction issued is retired, outstanding or held at a barrier.  *)
(* Retirement is counted in four places of sm.cpp, and this is the sum     *)
(* they have to keep.                                                      *)
THEOREM InstructionsAreAccounted == Spec => []InstructionsAccounted
<1>1. Init => InstructionsAccounted
  BY FS_EmptySet DEF Init, InstructionsAccounted
<1>2. TypeOK /\ Numbered /\ BarrierRegistered /\ InstructionsAccounted /\ [Next]_vars
        => InstructionsAccounted'
  <2> SUFFICES ASSUME TypeOK, Numbered, BarrierRegistered, InstructionsAccounted, [Next]_vars
               PROVE  InstructionsAccounted'
    OBVIOUS
  <2> DEFINE writes == Cardinality(pendingWrites)
             requests == Cardinality(memoryRequests)
             waiting == Cardinality(waitingOnBarrier)
  <2>1. issued = retired + writes + requests + waiting
    BY DEF InstructionsAccounted
  <2>2. IsFiniteSet(pendingWrites) /\ IsFiniteSet(memoryRequests)
    BY DEF TypeOK
  <2>3. IsFiniteSet(waitingOnBarrier)
    BY WarpsFinite, FS_Subset DEF TypeOK
  <2>4. /\ issued \in Nat /\ retired \in Nat
        /\ writes \in Nat /\ requests \in Nat /\ waiting \in Nat
    BY <2>2, <2>3, FS_CardinalityType DEF TypeOK
  <2>5. CASE Writeback
    <3>1. ASSUME NEW S, NEW T, IsFiniteSet(S), T \subseteq S
          PROVE  Cardinality(S \ T) = Cardinality(S) - Cardinality(T)
      <4>1. S \cap T = T
        BY <3>1
      <4> QED BY <3>1, <4>1, FS_Difference
    <3>2. /\ Cardinality(pendingWrites') = writes - Cardinality(DueWrites)
          /\ Cardinality(memoryRequests') = requests - Cardinality(DueRequests)
      BY <2>2, <2>5, <3>1 DEF Writeback, DueWrites, DueRequests
    <3>3. Cardinality(DueWrites) \in Nat /\ Cardinality(DueRequests) \in Nat
      BY OutstandingFinite DEF DueWrites, DueRequests
    <3>4. /\ retired' = retired + Cardinality(DueWrites) + Cardinality(DueRequests)
          /\ UNCHANGED <<issued, waitingOnBarrier>>
      BY <2>5 DEF Writeback
    <3> HIDE DEF writes, requests, waiting
    <3>5. issued' = retired' + (writes - Cardinality(DueWrites))
                    + (requests - Cardinality(DueRequests)) + waiting
      BY <2>1, <2>4, <3>3, <3>4
    <3> QED BY <3>2, <3>4, <3>5 DEF InstructionsAccounted, waiting
  <2>6. CASE Idle \/ UNCHANGED vars
    BY <2>6 DEF Idle, vars, InstructionsAccounted
  <2>7. ASSUME NEW v \in Warps, Issue(v) PROVE InstructionsAccounted'
    <3>1. issued' = issued + 1
      BY <2>7, QueuesAfterIssue
    <3>2. CASE RetiresAtIssue
      <4> HIDE DEF writes, requests, waiting
      <4>1. issued' = (retired + 1) + writes + requests + waiting
        BY <2>1, <2>4, <3>1
      <4> QED BY <3>2, <4>1 DEF RetiresAtIssue, InstructionsAccounted, writes, requests, waiting
    <3>3. ASSUME NEW kind, NEW ready, queueWrite(v, kind, ready),
                 UNCHANGED <<memoryRequests, waitingOnBarrier, retired>>
          PROVE  InstructionsAccounted'
      <4>1. PICK write : pendingWrites' = pendingWrites \cup {write} /\ write.id = issued
        BY <3>3, WriteQueued
      <4>2. write \notin pendingWrites
        BY <4>1, <2>4 DEF Numbered
      <4>3. Cardinality(pendingWrites') = writes + 1
        BY <2>2, <4>1, <4>2, FS_AddElement
      <4> HIDE DEF writes, requests, waiting
      <4>4. issued' = retired + (writes + 1) + requests + waiting
        BY <2>1, <2>4, <3>1
      <4> QED BY <3>3, <4>3, <4>4 DEF InstructionsAccounted, requests, waiting
    <3>4. ASSUME NEW latency, queueRequest(v, latency),
                 UNCHANGED <<pendingWrites, waitingOnBarrier, retired>>
          PROVE  InstructionsAccounted'
      <4>1. PICK request : memoryRequests' = memoryRequests \cup {request}
                           /\ request.id = issued
        BY <3>4, RequestQueued
      <4>2. request \notin memoryRequests
        BY <4>1, <2>4 DEF Numbered
      <4>3. Cardinality(memoryRequests') = requests + 1
        BY <2>2, <4>1, <4>2, FS_AddElement
      <4> HIDE DEF writes, requests, waiting
      <4>4. issued' = retired + writes + (requests + 1) + waiting
        BY <2>1, <2>4, <3>1
      <4> QED BY <3>4, <4>3, <4>4 DEF InstructionsAccounted, writes, waiting
    <3>5. CASE BarSync(v)
      <4> DEFINE held == {w \in waitingOnBarrier : CtaOf[w] = CtaOf[v]}
      <4>1. /\ v \notin waitingOnBarrier
            /\ Arrival(v).waitingWarps = held \cup {v}
            /\ IF Complete(Arrival(v)) THEN Release(v) ELSE Wait(v)
        BY <3>5, Arrives
      <4>2. UNCHANGED <<pendingWrites, memoryRequests>>
        BY <3>5 DEF BarSync
      <4>3. IsFiniteSet(held) /\ Cardinality(held) \in Nat /\ v \notin held
        BY <2>3, <4>1, FS_Subset, FS_CardinalityType
      <4>4. CASE Complete(Arrival(v))
        <5>1. /\ waitingOnBarrier' = waitingOnBarrier \ (held \cup {v})
              /\ retired' = retired + Cardinality(held \cup {v})
          BY <4>1, <4>4 DEF Release
        <5>2. Cardinality(held \cup {v}) = Cardinality(held) + 1
          BY <4>3, FS_AddElement
        <5>3. waitingOnBarrier \cap (held \cup {v}) = held
          BY <4>1
        <5>4. Cardinality(waitingOnBarrier') = waiting - Cardinality(held)
          BY <2>3, <5>1, <5>3, FS_Difference
        <5> HIDE DEF held, writes, requests, waiting
        <5>5. issued' = (retired + (Cardinality(held) + 1)) + writes + requests
                        + (waiting - Cardinality(held))
          BY <2>1, <2>4, <3>1, <4>3
        <5> QED BY <4>2, <5>1, <5>2, <5>4, <5>5 DEF InstructionsAccounted, writes, requests
      <4>5. CASE ~ Complete(Arrival(v))
        <5>1. waitingOnBarrier' = waitingOnBarrier \cup {v} /\ retired' = retired
          BY <4>1, <4>5 DEF Wait
        <5>2. Cardinality(waitingOnBarrier') = waiting + 1
          BY <2>3, <4>1, <5>1, FS_AddElement
        <5> HIDE DEF writes, requests, waiting
        <5>3. issued' = retired + writes + requests + (waiting + 1)
          BY <2>1, <2>4, <3>1
        <5> QED BY <4>2, <5>1, <5>2, <5>3 DEF InstructionsAccounted, writes, requests
      <4> QED BY <4>4, <4>5
    <3>6. CASE Arithmetic(v) \/ Setp(v) \/ LoadShared(v)
      BY <3>3, <3>6 DEF Arithmetic, Setp, LoadShared
    <3>7. CASE LoadGlobal(v) \/ StoreGlobal(v)
      BY <3>4, <3>7 DEF LoadGlobal, StoreGlobal
    <3> QED BY <2>7, <3>2, <3>5, <3>6, <3>7
          DEF Issue, Nop, Halt, Bra, BraPred, StoreShared
  <2> QED BY <2>5, <2>6, <2>7 DEF Next
<1> QED BY <1>1, <1>2, SMTypeCorrect, NumberedInvariant, BarriersAreRegistered, PTL DEF Spec

-----------------------------------------------------------------------------
(* The history variables change nothing. *)
LEMMA HistoryIsSM == HistorySpec => Spec
<1>1. HistoryInit => Init
  BY DEF HistoryInit
<1>2. [HistoryNext]_<<vars, historyVars>> => [Next]_vars
  BY DEF HistoryNext, Next, vars
<1> QED BY <1>1, <1>2, PTL DEF HistorySpec, Spec

LEMMA WarpsOfFinite ==
  ASSUME NEW c
  PROVE  IsFiniteSet(warpsOf(c)) /\ Cardinality(warpsOf(c)) \in Nat
BY WarpsFinite, FS_Subset, FS_CardinalityType DEF warpsOf

(* What endedSince has: warps of the CTA that are done, and none while no  *)
(* barrier stands.                                                         *)
EndedAreDone ==
  /\ endedSince \in [CTAs -> SUBSET Warps]
  /\ \A c \in CTAs : \A w \in endedSince[c] : CtaOf[w] = c /\ Done(warps[w])
  /\ \A c \in CTAs : barriers[c] = NoBarrier => endedSince[c] = {}

EndingOf(c) == {w \in Warps : CtaOf[w] = c /\ EndsNow(w)}

(* A warp that ends leaves the running warps of its CTA. *)
LEMMA EndingLeaves ==
  ASSUME TypeOK, HaltedIsDone, EndedAreDone, [Next]_vars, NEW c \in CTAs
  PROVE  /\ warpsOf(c)' = warpsOf(c) \ EndingOf(c)
         /\ EndingOf(c) \subseteq warpsOf(c)
         /\ endedSince[c] \cap EndingOf(c) = {}
         /\ IsFiniteSet(EndingOf(c)) /\ IsFiniteSet(endedSince[c])
<1>1. \A w \in Warps : Done(warps[w]) => Done(warps'[w])
  BY DoneStep
<1>2. EndingOf(c) \subseteq warpsOf(c) /\ warpsOf(c)' = warpsOf(c) \ EndingOf(c)
  BY <1>1 DEF EndingOf, EndsNow, warpsOf
<1>3. endedSince[c] \cap EndingOf(c) = {}
  BY DEF EndedAreDone, EndingOf, EndsNow
<1>4. IsFiniteSet(EndingOf(c)) /\ IsFiniteSet(endedSince[c])
  BY WarpsFinite, FS_Subset DEF EndedAreDone, EndingOf
<1> QED BY <1>2, <1>3, <1>4

(* While a barrier stands, whoever ends only moves from one count to the   *)
(* other.                                                                  *)
LEMMA EndingKeepsSum ==
  ASSUME TypeOK, HaltedIsDone, EndedAreDone, [Next]_vars, NEW c \in CTAs
  PROVE  Cardinality(warpsOf(c)') + Cardinality(endedSince[c] \cup EndingOf(c))
           = Cardinality(warpsOf(c)) + Cardinality(endedSince[c])
<1> DEFINE running == warpsOf(c)
           ended == endedSince[c]
           ending == EndingOf(c)
<1>1. /\ warpsOf(c)' = running \ ending /\ ending \subseteq running
      /\ ended \cap ending = {} /\ IsFiniteSet(ending) /\ IsFiniteSet(ended)
      /\ IsFiniteSet(running)
  BY EndingLeaves, WarpsOfFinite
<1> HIDE DEF running, ended, ending
<1>2. Cardinality(running \ ending) = Cardinality(running) - Cardinality(ending)
  <2>1. running \cap ending = ending
    BY <1>1
  <2> QED BY <1>1, <2>1, FS_Difference
<1>3. Cardinality(ended \cup ending) = Cardinality(ended) + Cardinality(ending)
  <2>1. Cardinality(ended \cap ending) = 0
    BY <1>1, FS_EmptySet
  <2>2. Cardinality(ended \cup ending)
          = Cardinality(ended) + Cardinality(ending) - Cardinality(ended \cap ending)
    BY <1>1, FS_Union
  <2>3. Cardinality(ended) \in Nat /\ Cardinality(ending) \in Nat
    BY <1>1, FS_CardinalityType
  <2> QED BY <2>1, <2>2, <2>3
<1>4. /\ Cardinality(running) \in Nat
      /\ Cardinality(ended) \in Nat /\ Cardinality(ending) \in Nat
  BY <1>1, FS_CardinalityType
<1>5. Cardinality(running \ ending) + Cardinality(ended \cup ending)
        = Cardinality(running) + Cardinality(ended)
  BY <1>2, <1>3, <1>4
<1> QED BY <1>1, <1>5 DEF running, ended, ending

(* While a warp arrives at a barrier, none ends. *)
LEMMA NoneEndsAtArrival ==
  ASSUME TypeOK, HaltedIsDone, NEW v \in Warps, BarSync(v), [Next]_vars, NEW w \in Warps
  PROVE  ~ EndsNow(w)
<1> SUFFICES ASSUME EndsNow(w) PROVE FALSE
  OBVIOUS
<1>1. Halt(w)
  BY DoneStep DEF EndsNow
<1>2. w = select(scheduler, ReadyWarps, lastIssueCycle, WarpCount)
      /\ currentInstruction(w).op = "HALT"
  BY <1>1 DEF Halt, Issues
<1>3. v = select(scheduler, ReadyWarps, lastIssueCycle, WarpCount)
      /\ currentInstruction(v).op = "BAR.SYNC"
  BY DEF BarSync, Issues
<1> QED BY <1>2, <1>3

(* The number expected when v arrives is that of the running warps of its  *)
(* CTA and of those that have ended since the first arrival.               *)
LEMMA ArrivalCounts ==
  ASSUME TypeOK, BarrierRegistered, EndedAreDone, BarrierCountsExactly,
         NEW v \in Warps, BarSync(v)
  PROVE  Arrival(v).expectedWarps
           = Cardinality(warpsOf(CtaOf[v])) + Cardinality(endedSince[CtaOf[v]])
<1> DEFINE c == CtaOf[v]
<1>1. c \in CTAs /\ v \in warpsOf(c)
  BY Arrives DEF warpsOf
<1>2. Cardinality(warpsOf(c)) \in Nat \ {0}
  <2>1. IsFiniteSet(warpsOf(c)) /\ warpsOf(c) # {}
    BY <1>1, WarpsOfFinite
  <2> QED BY <2>1, FS_CardinalityType, FS_EmptySet
<1>3. IsFiniteSet(endedSince[c])
  BY <1>1, WarpsFinite, FS_Subset DEF EndedAreDone
<1>4. Cardinality(endedSince[c]) \in Nat
  BY <1>3, FS_CardinalityType
<1>5. Arrival(v).expectedWarps = IF barriers[c].expectedWarps = 0
                                 THEN activeWarpCountForCTA(c)
                                 ELSE barriers[c].expectedWarps
  BY DEF Arrival
<1>6. CASE barriers[c] = NoBarrier
  <2>1. barriers[c].expectedWarps = 0
    BY <1>6 DEF NoBarrier
  <2>2. activeWarpCountForCTA(c) = Cardinality(warpsOf(c))
    BY <1>2 DEF activeWarpCountForCTA
  <2>3. Cardinality(endedSince[c]) = 0
    BY <1>1, <1>6, FS_EmptySet DEF EndedAreDone
  <2> HIDE DEF c
  <2> QED BY <1>2, <1>5, <2>1, <2>2, <2>3 DEF c
<1>7. CASE barriers[c] # NoBarrier
  <2>1. barriers[c].expectedWarps = Cardinality(warpsOf(c)) + Cardinality(endedSince[c])
    BY <1>1, <1>7 DEF BarrierCountsExactly
  <2> HIDE DEF c
  <2>2. barriers[c].expectedWarps # 0
    BY <1>2, <1>4, <2>1
  <2> QED BY <1>5, <2>1, <2>2 DEF c
<1> QED BY <1>6, <1>7

LEMMA EndedInvariant == HistorySpec => []EndedAreDone
<1>1. HistoryInit => EndedAreDone
  BY DEF HistoryInit, EndedAreDone
<1>2. /\ TypeOK /\ HaltedIsDone /\ EndedAreDone /\ [HistoryNext]_<<vars, historyVars>>
      => EndedAreDone'
  <2> SUFFICES ASSUME TypeOK, HaltedIsDone, EndedAreDone,
                      [HistoryNext]_<<vars, historyVars>>
               PROVE  EndedAreDone'
    OBVIOUS
  <2>1. CASE HistoryNext
    <3>1. [Next]_vars
      BY <2>1 DEF HistoryNext, Next
    <3>2. \A w \in Warps : Done(warps[w]) => Done(warps'[w])
      BY <3>1, DoneStep
    <3>3. endedSince' = [c \in CTAs |->
            IF barriers'[c] = NoBarrier THEN {}
            ELSE endedSince[c] \cup {w \in Warps : CtaOf[w] = c /\ EndsNow(w)}]
      BY <2>1 DEF HistoryNext
    <3> QED BY <3>2, <3>3 DEF EndedAreDone, EndsNow
  <2>2. CASE UNCHANGED <<vars, historyVars>>
    BY <2>2 DEF vars, historyVars, EndedAreDone
  <2> QED BY <2>1, <2>2
<1> QED BY <1>1, <1>2, HistoryIsSM, SMTypeCorrect, HaltedInvariant, PTL DEF HistorySpec

(* The count that issueBarrier fixes at the first arrival is that of the   *)
(* warps of the CTA running then, and stays what it was: those still       *)
(* running and those that have ended since, for any launch and kernel.     *)
THEOREM BarriersCountExactly == HistorySpec => []BarrierCountsExactly
<1>1. HistoryInit => BarrierCountsExactly
  BY DEF HistoryInit, Init, BarrierCountsExactly
<1>2. /\ TypeOK /\ HaltedIsDone /\ BarrierRegistered /\ EndedAreDone
      /\ BarrierCountsExactly /\ [HistoryNext]_<<vars, historyVars>>
      => BarrierCountsExactly'
  <2> SUFFICES ASSUME TypeOK, HaltedIsDone, BarrierRegistered, EndedAreDone,
                      BarrierCountsExactly, [HistoryNext]_<<vars, historyVars>>,
                      NEW c \in CTAs, barriers'[c] # NoBarrier
               PROVE  barriers'[c].expectedWarps
                        = Cardinality(warpsOf(c)') + Cardinality(endedSince'[c])
    BY DEF BarrierCountsExactly
  <2>1. CASE UNCHANGED <<vars, historyVars>>
    BY <2>1 DEF vars, historyVars, BarrierCountsExactly, warpsOf
  <2>2. CASE HistoryNext
    <3>1. [Next]_vars
      BY <2>2 DEF HistoryNext, Next
    <3>2. endedSince'[c] = endedSince[c] \cup EndingOf(c)
      BY <2>2 DEF HistoryNext, EndingOf
    <3>3. CASE barriers'[c] = barriers[c]
      <4>1. barriers'[c].expectedWarps
              = Cardinality(warpsOf(c)) + Cardinality(endedSince[c])
        BY <3>3 DEF BarrierCountsExactly
      <4> QED BY <3>1, <3>2, <4>1, EndingKeepsSum
    <3>4. ASSUME NEW v \in Warps, BarSync(v)
          PROVE  barriers'[c].expectedWarps
                   = Cardinality(warpsOf(c)') + Cardinality(endedSince'[c])
      <4>1. IF Complete(Arrival(v)) THEN Release(v) ELSE Wait(v)
        BY <3>4, Arrives
      <4>2. DOMAIN barriers = CTAs
        BY DEF TypeOK
      <4>3. CASE c # CtaOf[v]
        BY <3>3, <4>1, <4>2, <4>3 DEF Release, Wait
      <4>4. CASE c = CtaOf[v]
        <5>1. barriers'[c] = Arrival(v)
          BY <4>1, <4>2, <4>4 DEF Release, Wait
        <5>2. EndingOf(c) = {}
          BY <3>1, <3>4, NoneEndsAtArrival DEF EndingOf
        <5>3. warpsOf(c)' = warpsOf(c)
          BY <3>1, <5>2, EndingLeaves
        <5>4. endedSince'[c] = endedSince[c]
          BY <3>2, <5>2
        <5>5. Arrival(v).expectedWarps
                = Cardinality(warpsOf(c)) + Cardinality(endedSince[c])
          BY <3>4, <4>4, ArrivalCounts
        <5> QED BY <5>1, <5>3, <5>4, <5>5
      <4> QED BY <4>3, <4>4
    <3> QED BY <3>1, <3>3, <3>4 DEF Next, Writeback, Idle, vars, Issue, Nop, Halt, Bra,
               BraPred, Arithmetic, Setp, LoadGlobal, StoreGlobal, LoadShared, StoreShared,
               RetiresAtIssue
  <2> QED BY <2>1, <2>2
<1> QED BY <1>1, <1>2, HistoryIsSM, SMTypeCorrect, HaltedInvariant, BarriersAreRegistered,
          EndedInvariant, PTL DEF HistorySpec

(* Who completes a barrier completes it for every running warp of the CTA. *)
LEMMA CompleteMeansAll ==
  ASSUME TypeOK, BarrierRegistered, EndedAreDone, BarrierCountsExactly, DoneWaitsForNothing,
         NEW v \in Warps, BarSync(v), Complete(Arrival(v))
  PROVE  Arrival(v).waitingWarps = warpsOf(CtaOf[v])
<1> DEFINE c == CtaOf[v]
<1>1. /\ c \in CTAs /\ ~ Done(warps[v])
      /\ Arrival(v).waitingWarps = {w \in waitingOnBarrier : CtaOf[w] = c} \cup {v}
  BY Arrives
<1>2. Arrival(v).waitingWarps \subseteq warpsOf(c)
  BY <1>1 DEF warpsOf, DoneWaitsForNothing, TypeOK
<1>3. IsFiniteSet(warpsOf(c)) /\ Cardinality(warpsOf(c)) \in Nat
  BY WarpsOfFinite
<1>4. Cardinality(endedSince[c]) \in Nat
  BY <1>1, WarpsFinite, FS_Subset, FS_CardinalityType DEF EndedAreDone
<1>5. Arrival(v).expectedWarps = Cardinality(warpsOf(c)) + Cardinality(endedSince[c])
  BY ArrivalCounts
<1>6. Cardinality(Arrival(v).waitingWarps) \in Nat
      /\ Cardinality(Arrival(v).waitingWarps) <= Cardinality(warpsOf(c))
  BY <1>2, <1>3, FS_Subset, FS_CardinalityType
<1>7. Cardinality(Arrival(v).waitingWarps) = Cardinality(warpsOf(c))
  BY <1>3, <1>4, <1>5, <1>6 DEF Complete
<1> QED BY <1>2, <1>3, <1>7, FS_Subset

(* No warp runs ahead of another of its CTA by a barrier, whatever the     *)
(* kernel: warps that diverge over a barrier, end without arriving, or     *)
(* meet again at a barrier in a loop.                                      *)
THEOREM NobodyOvertakes == HistorySpec => []NoOvertaking
<1> DEFINE Counted == arrivals \in [Warps -> Nat] /\ NoOvertaking
<1>1. HistoryInit => Counted
  BY DEF HistoryInit, Init, NoOvertaking, Passed
<1>2. /\ TypeOK /\ HaltedIsDone /\ BarrierRegistered /\ EndedAreDone
      /\ BarrierCountsExactly /\ DoneWaitsForNothing /\ Counted
      /\ [HistoryNext]_<<vars, historyVars>>
      => Counted'
  <2> SUFFICES ASSUME TypeOK, HaltedIsDone, BarrierRegistered, EndedAreDone,
                      BarrierCountsExactly, DoneWaitsForNothing, Counted,
                      [HistoryNext]_<<vars, historyVars>>
               PROVE  Counted'
    OBVIOUS
  <2>1. [Next]_vars
    BY DEF HistoryNext, Next, vars, historyVars
  <2>2. \A w \in Warps : Done(warps[w]) => Done(warps'[w])
    BY <2>1, DoneStep
  <2>3. arrivals' \in [Warps -> Nat]
    BY DEF HistoryNext, historyVars
  <2>4. ASSUME \A w \in Warps : Passed(w)' = Passed(w) PROVE NoOvertaking'
    BY <2>2, <2>4 DEF NoOvertaking
  <2>5. CASE UNCHANGED <<arrivals, waitingOnBarrier>>
    BY <2>4, <2>5 DEF Passed
  <2>6. ASSUME NEW v \in Warps, BarSync(v), arrivals' = [arrivals EXCEPT ![v] = @ + 1]
        PROVE  NoOvertaking'
    <3>1. v \notin waitingOnBarrier
      BY <2>6, Arrives
    <3>2. \A w \in Warps : arrivals[w] \in Nat
                           /\ arrivals'[w] = IF w = v THEN arrivals[w] + 1 ELSE arrivals[w]
      BY <2>6
    <3>3. CASE Complete(Arrival(v))
      <4>1. Arrival(v).waitingWarps = warpsOf(CtaOf[v])
        BY <2>6, <3>3, CompleteMeansAll
      <4>2. Arrival(v).waitingWarps
              = {w \in waitingOnBarrier : CtaOf[w] = CtaOf[v]} \cup {v}
        BY <2>6, Arrives
      <4>3. waitingOnBarrier' = waitingOnBarrier \ Arrival(v).waitingWarps
        BY <2>6, <3>3, Arrives DEF Release
      <4>4. ASSUME NEW w \in Warps, ~ Done(warps'[w])
            PROVE  Passed(w)' = IF CtaOf[w] = CtaOf[v] THEN Passed(w) + 1 ELSE Passed(w)
        <5>1. CASE CtaOf[w] = CtaOf[v]
          <6>1. w \in Arrival(v).waitingWarps
            BY <2>2, <4>1, <4>4, <5>1 DEF warpsOf
          <6>2. w \notin waitingOnBarrier' /\ (w = v \/ w \in waitingOnBarrier)
            BY <4>2, <4>3, <6>1
          <6> QED BY <3>1, <3>2, <5>1, <6>2 DEF Passed
        <5>2. CASE CtaOf[w] # CtaOf[v]
          <6>1. w # v /\ (w \in waitingOnBarrier' <=> w \in waitingOnBarrier)
            BY <4>2, <4>3, <5>2
          <6> QED BY <3>2, <5>2, <6>1 DEF Passed
        <5> QED BY <5>1, <5>2
      <4> QED BY <2>2, <4>4 DEF NoOvertaking
    <3>4. CASE ~ Complete(Arrival(v))
      <4>1. waitingOnBarrier' = waitingOnBarrier \cup {v}
        BY <2>6, <3>4, Arrives DEF Wait
      <4>2. \A w \in Warps : Passed(w)' = Passed(w)
        BY <3>1, <3>2, <4>1 DEF Passed
      <4> QED BY <2>4, <4>2
    <3> QED BY <3>3, <3>4
  <2>7. ASSUME NEW v \in Warps, Issue(v),
               arrivals' = IF currentInstruction(v).op = "BAR.SYNC"
                           THEN [arrivals EXCEPT ![v] = @ + 1] ELSE arrivals
        PROVE  NoOvertaking'
    <3>1. CASE BarSync(v)
      BY <2>6, <2>7, <3>1, Arrives
    <3>2. CASE ~ BarSync(v)
      <4>1. currentInstruction(v).op # "BAR.SYNC" /\ UNCHANGED waitingOnBarrier
        BY <2>7, <3>2 DEF Issue, Nop, Halt, Bra, BraPred, Arithmetic, Setp, LoadGlobal,
               StoreGlobal, LoadShared, StoreShared, RetiresAtIssue, Issues
      <4> QED BY <2>5, <2>7, <4>1
    <3> QED BY <3>1, <3>2
  <2>8. NoOvertaking'
    BY <2>5, <2>7 DEF HistoryNext, Writeback, Idle, vars, historyVars
  <2> QED BY <2>3, <2>8
<1> QED BY <1>1, <1>2, HistoryIsSM, SMTypeCorrect, HaltedInvariant, BarriersAreRegistered,
          EndedInvariant, BarriersCountExactly, DoneWarpsDoNotWait, PTL DEF HistorySpec

-----------------------------------------------------------------------------
(* With nothing under way, a running warp that is not at a barrier and not *)
(* ready is starved: no load or write-back is owed to it.                  *)
LEMMA NotReadyIsStarved ==
  ASSUME TypeOK, ScoreboardExact, LoadHoldsWarp, PipelinesFree, Stuck,
         NEW w \in Warps, ~ Done(warps[w]), w \notin waitingOnBarrier
  PROVE  Starved(w)
<1> DEFINE inst == currentInstruction(w)
<1>1. ~ Ready(w) /\ pendingWrites = {} /\ memoryRequests = {} /\ phase = "issue"
  BY DEF Stuck, ReadyWarps
<1>2. Cardinality({}) = 0
  BY FS_EmptySet
<1>3. w \notin waitingOnGlobalMemory
  <2>1. LoadsOf(w) = {}
    BY <1>1 DEF LoadsOf
  <2> QED BY <1>2, <2>1 DEF LoadHoldsWarp
<1>4. CASE warps[w].pc >= Len(program)
  BY <1>4 DEF Starved
<1>5. CASE ~ (warps[w].pc >= Len(program))
  <2>1. inst \in Instructions /\ warps[w].pc < Len(program)
    <3>1. program \in Seq(Instructions) /\ warps[w].pc \in Nat
      BY ProgramAssumption DEF TypeOK, WarpStates
    <3>2. warps[w].pc < Len(program) /\ warps[w].pc + 1 \in 1..Len(program)
      BY <1>5, <3>1
    <3> QED BY <3>1, <3>2 DEF currentInstruction
  <2>2. canRead(w, inst.srcs)
    <3>1. inst.srcs \subseteq Registers
      BY <2>1 DEF Instructions
    <3>2. ASSUME NEW r \in Registers PROVE scoreboard[w][r] = 0
      <4>1. RegisterWrites(w, r, pendingWrites) = {} /\ Loads(w, r, memoryRequests) = {}
        BY <1>1 DEF RegisterWrites, Loads
      <4>2. scoreboard[w][r] = Cardinality({}) + Cardinality({})
        BY <4>1 DEF ScoreboardExact
      <4> QED BY <1>2, <4>2
    <3> HIDE DEF inst
    <3> QED BY <3>1, <3>2 DEF canRead
  <2>3. CASE ~ functionUnitReady(unitType(inst))
    <3>1. unitType(inst) \in Units \cup {"None"}
      BY DEF unitType, Units
    <3>2. unitType(inst) # "None" /\ unitType(inst) \in Units
      BY <2>3, <3>1 DEF functionUnitReady
    <3>3. ~ (PipelineCount[unitType(inst)] > 0)
      BY <1>1, <2>3, <3>2 DEF PipelinesFree
    <3>4. PipelineCount[unitType(inst)] = 0
      BY <3>2, <3>3, ConfigAssumption
    <3> QED BY <3>2, <3>4 DEF Starved
  <2>4. CASE inst.op \in GlobalMemoryOps /\ MemoryQueueFull
    <3>1. MaxOutstanding = 0
      BY <1>1, <1>2, <2>4, ConfigAssumption DEF MemoryQueueFull
    <3> QED BY <2>4, <3>1 DEF Starved
  <2> QED BY <1>1, <1>3, <2>1, <2>2, <2>3, <2>4 DEF Ready
<1> QED BY <1>4, <1>5

(* A run that gets stuck has a warp past the end of its kernel, lacks a    *)
(* unit or a memory queue, or has a warp that ended while others of its    *)
(* CTA waited for it: the SM loses no wake-up, release or barrier.         *)
THEOREM StuckRunsAreExplained == HistorySpec => []StuckIsExplained
<1>1. /\ TypeOK /\ ScoreboardExact /\ LoadHoldsWarp /\ PipelinesFree
      /\ DoneWaitsForNothing /\ BarrierRegistered /\ BarrierCountsExactly
      => StuckIsExplained
  <2> SUFFICES ASSUME TypeOK, ScoreboardExact, LoadHoldsWarp, PipelinesFree,
                      DoneWaitsForNothing, BarrierRegistered, BarrierCountsExactly,
                      Stuck, NEW w \in Warps, w \in waitingOnBarrier,
                      endedSince[CtaOf[w]] = {}
               PROVE  \E v \in warpsOf(CtaOf[w]) : v \notin waitingOnBarrier /\ Starved(v)
    BY NotReadyIsStarved DEF StuckIsExplained
  <2> DEFINE c == CtaOf[w]
             held == barriers[c].waitingWarps
  <2>1. c \in CTAs
    BY LaunchAssumption
  <2>2. held = {v \in waitingOnBarrier : CtaOf[v] = c} /\ w \in held
    BY <2>1 DEF BarrierRegistered
  <2>3. barriers[c] # NoBarrier
    BY <2>2 DEF NoBarrier
  <2>4. held \subseteq warpsOf(c)
    BY <2>2 DEF warpsOf, DoneWaitsForNothing, TypeOK
  <2>5. IsFiniteSet(warpsOf(c)) /\ Cardinality(warpsOf(c)) \in Nat
    BY WarpsOfFinite
  <2>6. barriers[c].expectedWarps = Cardinality(warpsOf(c))
    <3>1. Cardinality(endedSince[c]) = 0
      BY FS_EmptySet
    <3>2. barriers[c].expectedWarps = Cardinality(warpsOf(c)) + Cardinality(endedSince[c])
      BY <2>1, <2>3 DEF BarrierCountsExactly
    <3> HIDE DEF c
    <3> QED BY <2>5, <3>1, <3>2
  <2>7. ~ (Cardinality(held) >= Cardinality(warpsOf(c)))
    BY <2>1, <2>3, <2>6 DEF BarrierRegistered, Complete
  <2>8. held # warpsOf(c)
    BY <2>5, <2>7
  <2>9. PICK v \in warpsOf(c) : v \notin held
    BY <2>4, <2>8
  <2>10. v \in Warps /\ ~ Done(warps[v]) /\ v \notin waitingOnBarrier
    BY <2>2, <2>9 DEF warpsOf
  <2>11. Starved(v)
    BY <2>10, NotReadyIsStarved
  <2> HIDE DEF c
  <2> QED BY <2>9, <2>10, <2>11 DEF c
<1> QED BY <1>1, HistoryIsSM, SMTypeCorrect, ScoreboardCountsExactly, LoadsHoldTheirWarp,
          PipelinesStayFree, DoneWarpsDoNotWait, BarriersAreRegistered,
          BarriersCountExactly, PTL

-----------------------------------------------------------------------------
(* A warp that has halted has no active lane. *)
HaltedMasks == \A w \in Warps : HaltedInactive(w)

LEMMA OperationsHaltInactive ==
  ASSUME NEW wp \in WarpStates(Lanes), ~ wp.halted
  PROVE  haltOrDeferToDivergenceStack(wp).halted
           => haltOrDeferToDivergenceStack(wp).activeMask = {}
BY DEF haltOrDeferToDivergenceStack, Halts, WarpStates

LEMMA HaltedMasksInvariant == Spec => []HaltedMasks
<1>1. Init => HaltedMasks
  BY DEF Init, HaltedMasks, HaltedInactive, NewWarp
<1>2. TypeOK /\ HaltedIsDone /\ HaltedMasks /\ [Next]_vars => HaltedMasks'
  <2> SUFFICES ASSUME TypeOK, HaltedIsDone, HaltedMasks, [Next]_vars, NEW w \in Warps,
                      warps'[w].halted
               PROVE  warps'[w].activeMask = {}
    BY DEF HaltedMasks, HaltedInactive
  <2>1. CASE warps'[w] = warps[w]
    BY <2>1 DEF HaltedMasks, HaltedInactive
  <2>2. CASE Writeback
    <3>1. CASE Done(warps[w])
      BY <2>1, <2>2, <3>1 DEF Writeback
    <3>2. CASE ~ Done(warps[w])
      <4>1. Done(warps'[w]) <=> Done(warps[w])
        BY <2>2, WritebackKeepsDone
      <4>2. warps'[w].stack = << >>
        BY <2>2, WritebackKeepsDone
      <4> QED BY <3>2, <4>1, <4>2 DEF Done
    <3> QED BY <3>1, <3>2
  <2>3. ASSUME NEW v \in Warps, Issue(v) PROVE warps'[w].activeMask = {}
    <3>1. CASE v # w
      BY <2>1, <2>3, <3>1, IssueMovesOne
    <3>2. CASE v = w
      <4>1. Halt(w) /\ ~ Done(warps[w])
        BY <2>3, <3>2, IssueMovesOne
      <4>2. warps[w] \in WarpStates(Lanes) /\ ~ warps[w].halted
        BY <4>1 DEF TypeOK, HaltedIsDone, Done
      <4>3. warps'[w] = haltOrDeferToDivergenceStack(warps[w])
        BY <4>1 DEF Halt, Moves, TypeOK
      <4> QED BY <4>2, <4>3, OperationsHaltInactive
    <3> QED BY <3>1, <3>2
  <2> QED BY <2>1, <2>2, <2>3 DEF Next, Idle, vars
<1> QED BY <1>1, <1>2, SMTypeCorrect, HaltedInvariant, PTL DEF Spec

(* A barrier that stands has a warp. *)
BarriersHeld == \A c \in CTAs : barriers[c] # NoBarrier => barriers[c].waitingWarps # {}

LEMMA BarriersHeldInvariant == Spec => []BarriersHeld
<1>1. Init => BarriersHeld
  BY DEF Init, BarriersHeld
<1>2. TypeOK /\ BarrierRegistered /\ BarriersHeld /\ [Next]_vars => BarriersHeld'
  <2> SUFFICES ASSUME TypeOK, BarrierRegistered, BarriersHeld, [Next]_vars, NEW c \in CTAs,
                      barriers'[c] # NoBarrier
               PROVE  barriers'[c].waitingWarps # {}
    BY DEF BarriersHeld
  <2>1. CASE barriers'[c] = barriers[c]
    BY <2>1 DEF BarriersHeld
  <2>2. ASSUME NEW v \in Warps, BarSync(v) PROVE barriers'[c].waitingWarps # {}
    <3>1. /\ IF Complete(Arrival(v)) THEN Release(v) ELSE Wait(v)
          /\ v \in Arrival(v).waitingWarps /\ DOMAIN barriers = CTAs
      BY <2>2, Arrives DEF TypeOK
    <3>2. \/ barriers' = [barriers EXCEPT ![CtaOf[v]] = NoBarrier]
          \/ barriers' = [barriers EXCEPT ![CtaOf[v]] = Arrival(v)]
      BY <3>1 DEF Release, Wait
    <3>3. CASE c # CtaOf[v]
      <4>1. barriers'[c] = barriers[c]
        BY <3>1, <3>2, <3>3
      <4> QED BY <2>1, <4>1
    <3>4. CASE c = CtaOf[v]
      <4>1. barriers'[c] = Arrival(v)
        BY <3>1, <3>2, <3>4
      <4> QED BY <3>1, <4>1
    <3> QED BY <3>3, <3>4
  <2> QED BY <2>1, <2>2 DEF Next, Writeback, Idle, vars, Issue, Nop, Halt, Bra,
             BraPred, Arithmetic, Setp, LoadGlobal, StoreGlobal, LoadShared, StoreShared,
             RetiresAtIssue
<1> QED BY <1>1, <1>2, SMTypeCorrect, BarriersAreRegistered, PTL DEF Spec

(* active() looks at the two queues and at done(), and that is enough: a   *)
(* run that ends leaves no register reserved, no warp waiting, no barrier, *)
(* no lane behind, and the invariant checker finds nothing.                *)
THEOREM RunsEndClean == Spec => []EndsClean
<1>1. /\ TypeOK /\ ScoreboardExact /\ LoadHoldsWarp /\ DoneWaitsForNothing
      /\ BarrierRegistered /\ BarriersHeld /\ HaltedMasks /\ InstructionsAccounted
      => EndsClean
  <2> SUFFICES ASSUME TypeOK, ScoreboardExact, LoadHoldsWarp, DoneWaitsForNothing,
                      BarrierRegistered, BarriersHeld, HaltedMasks, InstructionsAccounted,
                      ~ Active
               PROVE  EndsClean
    BY DEF EndsClean
  <2>1. /\ pendingWrites = {} /\ memoryRequests = {}
        /\ \A w \in Warps : Done(warps[w])
    BY DEF Active
  <2>2. Cardinality({}) = 0
    BY FS_EmptySet
  <2>3. waitingOnGlobalMemory = {} /\ waitingOnBarrier = {}
    BY <2>1 DEF DoneWaitsForNothing, TypeOK
  <2>4. ASSUME NEW w \in Warps, NEW r \in Registers PROVE scoreboard[w][r] = 0
    <3>1. RegisterWrites(w, r, pendingWrites) = {} /\ Loads(w, r, memoryRequests) = {}
      BY <2>1 DEF RegisterWrites, Loads
    <3>2. scoreboard[w][r] = Cardinality({}) + Cardinality({})
      BY <3>1 DEF ScoreboardExact
    <3> QED BY <2>2, <3>2
  <2>5. \A c \in CTAs : barriers[c] = NoBarrier
    BY <2>3 DEF BarrierRegistered, BarriersHeld
  <2>6. \A w \in Warps : /\ warps[w].halted
                        /\ warps[w].activeMask = {} /\ warps[w].stack = << >>
    BY <2>1 DEF HaltedMasks, HaltedInactive, Done
  <2>7. issued = retired
    <3>1. issued = retired + Cardinality({}) + Cardinality({}) + Cardinality({})
      BY <2>1, <2>3 DEF InstructionsAccounted
    <3> QED BY <2>2, <3>1 DEF TypeOK
  <2>8. check
    <3>1. {} \subseteq Lanes
      OBVIOUS
    <3>2. Len(<< >>) <= Len(program)
      <4>1. program \in Seq(Instructions)
        BY ProgramAssumption DEF TypeOK
      <4>2. Len(program) \in Nat /\ Len(<< >>) = 0
        BY <4>1
      <4> QED BY <4>2
    <3>3. ASSUME NEW w \in Warps, warps[w].pc < Len(program)
          PROVE  canRead(w, currentInstruction(w).srcs)
      <4>1. program \in Seq(Instructions) /\ warps[w].pc \in Nat
        BY ProgramAssumption DEF TypeOK, WarpStates
      <4>2. currentInstruction(w) \in Instructions
        BY <4>1, <3>3 DEF currentInstruction
      <4>3. currentInstruction(w).srcs \subseteq Registers
        BY <4>2 DEF Instructions
      <4> QED BY <4>3, <2>4 DEF canRead
    <3> QED BY <2>1, <2>3, <2>6, <3>1, <3>2, <3>3
            DEF check, RequestsOfWarps, MaskFits, HaltedInactive, WaitRegistered,
                PendingInRange, StackDepth
  <2> QED BY <2>3, <2>4, <2>5, <2>6, <2>7, <2>8 DEF EndsClean
<1> QED BY <1>1, SMTypeCorrect, ScoreboardCountsExactly, LoadsHoldTheirWarp,
          DoneWarpsDoNotWait, BarriersAreRegistered, BarriersHeldInvariant,
          HaltedMasksInvariant, InstructionsAreAccounted, PTL
=============================================================================
