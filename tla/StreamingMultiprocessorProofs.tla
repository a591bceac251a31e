-------------------- MODULE StreamingMultiprocessorProofs --------------------
(***************************************************************************)
(* Theorems about StreamingMultiprocessor, for every launch, kernel and    *)
(* configuration.                                                          *)
(***************************************************************************)
EXTENDS StreamingMultiprocessor, WarpLemmas, FiniteSetTheorems

CONSTANT TheWarp   \* any one warp of the SM

-----------------------------------------------------------------------------
(* The instruction that is issued. *)

LEMMA CurrentInstructionType ==
  ASSUME TypeOK, NEW w \in Warps, w \in ReadyWarps
  PROVE  /\ currentInstruction(w) \in Instructions
         /\ warps[w] \in WarpStates(Lanes)
<1>1. warps[w] \in WarpStates(Lanes) /\ program \in Seq(Instructions)
  BY ProgramAssumption DEF TypeOK
<1>2. warps[w].pc \in Nat /\ warps[w].pc < Len(program)
  BY <1>1 DEF ReadyWarps, Ready, WarpStates
<1>3. warps[w].pc + 1 \in 1..Len(program)
  BY <1>1, <1>2
<1> QED BY <1>1, <1>3 DEF currentInstruction

LEMMA WarpsFinite == IsFiniteSet(Warps)
<1>1. 0 \in Int /\ WarpCount - 1 \in Int
  BY ConfigAssumption
<1> QED BY <1>1, FS_Interval DEF Warps

LEMMA OutstandingFinite ==
  ASSUME TypeOK
  PROVE  /\ \A writes \in SUBSET pendingWrites :
              IsFiniteSet(writes) /\ Cardinality(writes) \in Nat
         /\ \A requests \in SUBSET memoryRequests :
              IsFiniteSet(requests) /\ Cardinality(requests) \in Nat
BY FS_Subset, FS_CardinalityType DEF TypeOK

(* What Issues leaves well typed. *)
LEMMA IssuesType ==
  ASSUME TypeOK, NEW w \in Warps, NEW ops, Issues(w, ops)
  PROVE  /\ program' \in Programs
         /\ scheduler' \in Schedulers
         /\ lastIssueCycle' \in [Warps -> Nat]
         /\ busyUntil' \in [Pipelines -> Nat]
         /\ issued' \in Nat /\ cycle' \in Nat /\ phase' \in {"writeback", "issue"}
         /\ currentInstruction(w) \in Instructions
         /\ currentInstruction(w).op \in ops
         /\ warps[w] \in WarpStates(Lanes)
<1>1. currentInstruction(w) \in Instructions /\ warps[w] \in WarpStates(Lanes)
  BY CurrentInstructionType DEF Issues
<1>2. scheduler' \in Schedulers
  <2>1. (w + 1) % WarpCount \in Nat
    BY ConfigAssumption DEF Warps
  <2> QED BY <2>1 DEF Issues, afterSelect, TypeOK, Schedulers
<1>3. busyUntil' \in [Pipelines -> Nat]
  <2> DEFINE free == FreePipelines(unitType(currentInstruction(w)))
  <2>1. cycle + 1 \in Nat /\ busyUntil \in [Pipelines -> Nat]
    BY DEF TypeOK
  <2>2. \E first : busyUntil' \in {busyUntil, [busyUntil EXCEPT ![first] = cycle + 1]}
    BY DEF Issues, Occupied
  <2> QED BY <2>1, <2>2
<1> QED BY <1>1, <1>2, <1>3 DEF Issues, EndTick, TypeOK

LEMMA NextPcType ==
  ASSUME TypeOK, NEW w \in Warps, warps[w] \in WarpStates(Lanes), NextPc(w)
  PROVE  warps' \in [Warps -> WarpStates(Lanes)]
BY AdvanceType DEF NextPc, Moves, TypeOK

LEMMA QueueWriteType ==
  ASSUME TypeOK, NEW w \in Warps, NEW ready \in Nat,
         NEW kind \in {"Register", "Predicate"},
         currentInstruction(w) \in Instructions, queueWrite(w, kind, ready)
  PROVE  pendingWrites' \in SUBSET PendingWrites /\ IsFiniteSet(pendingWrites')
<1>1. currentInstruction(w).dst \in Registers \cup {None}
  BY DEF Instructions
<1>2. warps[w].activeMask \in SUBSET Lanes
  BY DEF TypeOK, WarpStates
<1> DEFINE write == [id |-> issued, kind |-> kind, warpIndex |-> w,
                     dst |-> currentInstruction(w).dst, readyCycle |-> ready,
                     activeMask |-> warps[w].activeMask]
<1>3. write \in PendingWrites
  BY <1>1, <1>2 DEF TypeOK, PendingWrites
<1>4. pendingWrites' = pendingWrites \cup {write}
  BY DEF queueWrite
<1> HIDE DEF write
<1> QED BY <1>3, <1>4, FS_AddElement DEF TypeOK

LEMMA QueueRequestType ==
  ASSUME TypeOK, NEW w \in Warps, NEW latency \in GlobalLatencies,
         currentInstruction(w) \in Instructions, queueRequest(w, latency)
  PROVE  memoryRequests' \in SUBSET MemoryRequests /\ IsFiniteSet(memoryRequests')
<1>1. currentInstruction(w).dst \in Registers \cup {None}
      /\ currentInstruction(w).array \in Arrays \cup {None}
  BY DEF Instructions
<1>2. warps[w].activeMask \in SUBSET Lanes
  BY DEF TypeOK, WarpStates
<1>3. latency \in Nat
  BY ConfigAssumption DEF GlobalLatencies
<1> DEFINE inst == currentInstruction(w)
           request == [id |-> issued, isLoad |-> inst.op = "LD.GLOBAL", warpIndex |-> w,
                       dstReg |-> inst.dst, returnCycle |-> cycle + latency,
                       activeMask |-> warps[w].activeMask, array |-> inst.array]
<1>4. request \in MemoryRequests
  BY <1>1, <1>2, <1>3 DEF TypeOK, MemoryRequests
<1>5. memoryRequests' = memoryRequests \cup {request}
  BY DEF queueRequest
<1> HIDE DEF request
<1> QED BY <1>4, <1>5, FS_AddElement DEF TypeOK

LEMMA ReserveType ==
  ASSUME TypeOK, NEW w \in Warps, NEW r \in Registers, reserve(w, r)
  PROVE  scoreboard' \in [Warps -> [Registers -> Nat]]
BY DEF TypeOK, reserve

LEMMA ReadyCycleType ==
  ASSUME TypeOK, NEW u \in Units
  PROVE  ReadyCycle(u) \in Nat
BY DEF TypeOK, ReadyCycle, Latency, Units

LEMMA ArrivalType ==
  ASSUME TypeOK, NEW w \in Warps
  PROVE  Arrival(w) \in [waitingWarps : SUBSET Warps, expectedWarps : Nat]
<1>1. CtaOf[w] \in CTAs
  BY LaunchAssumption
<1>2. activeWarpCountForCTA(CtaOf[w]) \in Nat
  <2>1. IsFiniteSet(warpsOf(CtaOf[w]))
    BY WarpsFinite, FS_Subset DEF warpsOf
  <2>2. Cardinality(warpsOf(CtaOf[w])) \in Nat
    BY <2>1, FS_CardinalityType
  <2> QED BY <2>2 DEF activeWarpCountForCTA
<1>3. barriers[CtaOf[w]] \in [waitingWarps : SUBSET Warps, expectedWarps : Nat]
  BY <1>1 DEF TypeOK
<1> HIDE DEF activeWarpCountForCTA
<1> QED BY <1>2, <1>3 DEF Arrival

(* The cycle's write-backs keep the type. *)
LEMMA WritebackType ==
  ASSUME TypeOK, Writeback
  PROVE  TypeOK'
<1>1. pendingWrites' \in SUBSET PendingWrites /\ IsFiniteSet(pendingWrites')
  BY FS_Difference DEF Writeback, TypeOK
<1>2. memoryRequests' \in SUBSET MemoryRequests /\ IsFiniteSet(memoryRequests')
  BY FS_Difference DEF Writeback, TypeOK
<1>3. scoreboard' \in [Warps -> [Registers -> Nat]]
  <2>1. ASSUME NEW w \in Warps, NEW r \in Registers
        PROVE  release(scoreboard[w][r], Cardinality(RegisterWrites(w, r, DueWrites))
                                         + Cardinality(Loads(w, r, DueRequests))) \in Nat
    <3>1. Cardinality(RegisterWrites(w, r, DueWrites)) \in Nat
      BY OutstandingFinite DEF RegisterWrites, DueWrites
    <3>2. Cardinality(Loads(w, r, DueRequests)) \in Nat
      BY OutstandingFinite DEF Loads, DueRequests
    <3> QED BY <3>1, <3>2 DEF release, TypeOK
  <2> QED BY <2>1 DEF Writeback
<1>4. warps' \in [Warps -> WarpStates(Lanes)]
  <2>1. \A w \in Warps : tryReconvergeAtCurrentPc(warps[w]) \in WarpStates(Lanes)
    BY ReconvergeType DEF TypeOK
  <2> QED BY <2>1 DEF Writeback, TypeOK
<1>5. retired' \in Nat
  <2>1. Cardinality(DueWrites) \in Nat /\ Cardinality(DueRequests) \in Nat
    BY OutstandingFinite DEF DueWrites, DueRequests
  <2> QED BY <2>1 DEF Writeback, TypeOK
<1>6. /\ program' \in Programs /\ waitingOnGlobalMemory' \in SUBSET Warps
      /\ waitingOnBarrier' \in SUBSET Warps /\ lastIssueCycle' \in [Warps -> Nat]
      /\ barriers' \in [CTAs -> [waitingWarps : SUBSET Warps, expectedWarps : Nat]]
      /\ scheduler' \in Schedulers /\ busyUntil' \in [Pipelines -> Nat]
      /\ cycle' \in Nat /\ phase' \in {"writeback", "issue"} /\ issued' \in Nat
  BY DEF Writeback, TypeOK
<1> QED BY <1>1, <1>2, <1>3, <1>4, <1>5, <1>6 DEF TypeOK

LEMMA BarSyncType ==
  ASSUME TypeOK, NEW w \in Warps, BarSync(w)
  PROVE  /\ barriers' \in [CTAs -> [waitingWarps : SUBSET Warps, expectedWarps : Nat]]
         /\ waitingOnBarrier' \in SUBSET Warps
         /\ retired' \in Nat
<1>1. Arrival(w) \in [waitingWarps : SUBSET Warps, expectedWarps : Nat]
  BY ArrivalType
<1>2. NoBarrier \in [waitingWarps : SUBSET Warps, expectedWarps : Nat]
  BY DEF NoBarrier
<1>3. Cardinality(Arrival(w).waitingWarps) \in Nat
  BY <1>1, WarpsFinite, FS_Subset, FS_CardinalityType
<1>4. CtaOf[w] \in CTAs
  BY LaunchAssumption
<1>5. Arrival(w).waitingWarps \subseteq Warps
  BY <1>1
<1> DEFINE barrier == Arrival(w)
<1>6. CASE Complete(barrier)
  <2>1. /\ waitingOnBarrier' = waitingOnBarrier \ barrier.waitingWarps
        /\ retired' = retired + Cardinality(barrier.waitingWarps)
        /\ barriers' = [barriers EXCEPT ![CtaOf[w]] = NoBarrier]
    BY <1>6 DEF BarSync, Release
  <2> HIDE DEF barrier
  <2> QED BY <2>1, <1>2, <1>3, <1>4 DEF TypeOK, barrier
<1>7. CASE ~ Complete(barrier)
  <2>1. /\ waitingOnBarrier' = waitingOnBarrier \cup {w}
        /\ retired' = retired
        /\ barriers' = [barriers EXCEPT ![CtaOf[w]] = barrier]
    BY <1>7 DEF BarSync, Wait
  <2>2. barrier \in [waitingWarps : SUBSET Warps, expectedWarps : Nat]
    BY <1>1
  <2> HIDE DEF barrier
  <2> QED BY <2>1, <2>2, <1>4 DEF TypeOK
<1> QED BY <1>6, <1>7

-----------------------------------------------------------------------------
LEMMA InitType ==
  ASSUME Init
  PROVE  TypeOK
<1>1. warps \in [Warps -> WarpStates(Lanes)]
  BY LaunchAssumption DEF Init, NewWarp, WarpStates
<1>2. scheduler \in Schedulers
  BY DEF Init, NewScheduler, Schedulers
<1>3. barriers \in [CTAs -> [waitingWarps : SUBSET Warps, expectedWarps : Nat]]
  BY DEF Init, NoBarrier
<1>4. IsFiniteSet(pendingWrites) /\ IsFiniteSet(memoryRequests)
  BY FS_EmptySet DEF Init
<1> QED BY <1>1, <1>2, <1>3, <1>4 DEF Init, TypeOK

(* Every step keeps the state well typed. *)
LEMMA TypeStep ==
  ASSUME TypeOK, [Next]_vars
  PROVE  TypeOK'
<1>1. CASE Writeback
  BY <1>1, WritebackType
<1>2. CASE Idle
  BY <1>2 DEF Idle, EndTick, TypeOK
<1>3. CASE UNCHANGED vars
  BY <1>3 DEF vars, TypeOK
<1>4. ASSUME NEW w \in Warps, Issue(w) PROVE TypeOK'
  <2> DEFINE inst == currentInstruction(w)
  <2>1. ASSUME NEW ops, Issues(w, ops)
        PROVE  /\ program' \in Programs /\ scheduler' \in Schedulers
               /\ lastIssueCycle' \in [Warps -> Nat]
               /\ busyUntil' \in [Pipelines -> Nat]
               /\ issued' \in Nat /\ cycle' \in Nat /\ phase' \in {"writeback", "issue"}
               /\ inst \in Instructions /\ inst.op \in ops
               /\ warps[w] \in WarpStates(Lanes)
               /\ NextPc(w) => warps' \in [Warps -> WarpStates(Lanes)]
               /\ inst.target \in Nat
               /\ inst.op \in RegisterWriters => inst.dst \in Registers
    BY <2>1, IssuesType, NextPcType DEF Instructions
  <2> HIDE DEF inst
  <2>2. CASE Nop(w)
    BY <2>1, <2>2 DEF Nop, RetiresAtIssue, TypeOK
  <2>3. CASE Halt(w)
    <3>1. warps' \in [Warps -> WarpStates(Lanes)]
      BY <2>1, <2>3, HaltType DEF Halt, Moves, TypeOK
    <3> QED BY <2>1, <2>3, <3>1 DEF Halt, RetiresAtIssue, TypeOK
  <2>4. CASE Bra(w)
    <3>1. warps' \in [Warps -> WarpStates(Lanes)]
      BY <2>1, <2>4, BranchType DEF Bra, Moves, TypeOK, inst
    <3> QED BY <2>1, <2>4, <3>1 DEF Bra, RetiresAtIssue, TypeOK
  <2>5. CASE BraPred(w)
    <3>1. warps' \in [Warps -> WarpStates(Lanes)]
      BY <2>1, <2>5, BranchOnPredicateType DEF BraPred, Moves, TypeOK, inst
    <3> QED BY <2>1, <2>5, <3>1 DEF BraPred, RetiresAtIssue, TypeOK
  <2>6. CASE Arithmetic(w)
    <3>1. inst.dst \in Registers /\ unitType(inst) \in Units
      BY <2>1, <2>6 DEF Arithmetic, RegisterWriters, unitType, Units, GlobalMemoryOps,
                        SharedMemoryOps
    <3>2. scoreboard' \in [Warps -> [Registers -> Nat]]
      BY <2>6, <3>1, ReserveType DEF Arithmetic, inst
    <3>3. pendingWrites' \in SUBSET PendingWrites /\ IsFiniteSet(pendingWrites')
      BY <2>1, <2>6, <3>1, ReadyCycleType, QueueWriteType DEF Arithmetic, inst
    <3> QED BY <2>1, <2>6, <3>2, <3>3 DEF Arithmetic, TypeOK
  <2>7. CASE Setp(w)
    <3>1. unitType(inst) \in Units
      BY <2>1, <2>7 DEF Setp, unitType, Units, GlobalMemoryOps, SharedMemoryOps
    <3>2. pendingWrites' \in SUBSET PendingWrites /\ IsFiniteSet(pendingWrites')
      BY <2>1, <2>7, <3>1, ReadyCycleType, QueueWriteType DEF Setp, inst
    <3> QED BY <2>1, <2>7, <3>2 DEF Setp, TypeOK
  <2>8. CASE LoadGlobal(w)
    <3>1. inst.dst \in Registers
      BY <2>1, <2>8 DEF LoadGlobal, RegisterWriters
    <3>2. scoreboard' \in [Warps -> [Registers -> Nat]]
      BY <2>8, <3>1, ReserveType DEF LoadGlobal, inst
    <3>3. memoryRequests' \in SUBSET MemoryRequests /\ IsFiniteSet(memoryRequests')
      BY <2>1, <2>8, QueueRequestType DEF LoadGlobal, inst
    <3> QED BY <2>1, <2>8, <3>2, <3>3 DEF LoadGlobal, TypeOK
  <2>9. CASE StoreGlobal(w)
    <3>1. memoryRequests' \in SUBSET MemoryRequests /\ IsFiniteSet(memoryRequests')
      BY <2>1, <2>9, QueueRequestType DEF StoreGlobal, inst
    <3> QED BY <2>1, <2>9, <3>1 DEF StoreGlobal, TypeOK
  <2>10. CASE LoadShared(w)
    <3>1. inst.dst \in Registers
      BY <2>1, <2>10 DEF LoadShared, RegisterWriters
    <3>2. scoreboard' \in [Warps -> [Registers -> Nat]]
      BY <2>10, <3>1, ReserveType DEF LoadShared, inst
    <3>3. \A conflicts \in 0..MaxBankConflicts : cycle + SharedMemoryLatency + conflicts \in Nat
      BY ConfigAssumption DEF TypeOK
    <3>4. pendingWrites' \in SUBSET PendingWrites /\ IsFiniteSet(pendingWrites')
      BY <2>1, <2>10, <3>3, QueueWriteType DEF LoadShared, inst
    <3> QED BY <2>1, <2>10, <3>2, <3>4 DEF LoadShared, TypeOK
  <2>11. CASE StoreShared(w)
    BY <2>1, <2>11 DEF StoreShared, RetiresAtIssue, TypeOK
  <2>12. CASE BarSync(w)
    <3>1. /\ barriers' \in [CTAs -> [waitingWarps : SUBSET Warps, expectedWarps : Nat]]
          /\ waitingOnBarrier' \in SUBSET Warps
          /\ retired' \in Nat
      BY <2>12, BarSyncType
    <3> QED BY <2>1, <2>12, <3>1 DEF BarSync, TypeOK
  <2> QED BY <1>4, <2>2, <2>3, <2>4, <2>5, <2>6, <2>7, <2>8, <2>9, <2>10, <2>11, <2>12 DEF Issue
<1> QED BY <1>1, <1>2, <1>3, <1>4 DEF Next

(* The state of a streaming multiprocessor is well typed for every launch, *)
(* kernel and configuration: no counter goes below zero, every pc, mask    *)
(* and register index stays in range.                                      *)
THEOREM SMTypeCorrect == Spec => []TypeOK
<1>1. Init => TypeOK
  BY InitType
<1>2. TypeOK /\ [Next]_vars => TypeOK'
  BY TypeStep
<1> QED BY <1>1, <1>2, PTL DEF Spec

-----------------------------------------------------------------------------
(* The operations on a warp do not depend on the instance of SimtWarp. *)
LEMMA SameOperations ==
  ASSUME NEW w
  PROVE  /\ \A mask : Simt(w)!NewWarp(mask) = NewWarp(mask)
         /\ \A wp : Simt(w)!Done(wp) = Done(wp)
         /\ \A wp : Simt(w)!advancePc(wp) = advancePc(wp)
         /\ \A wp : Simt(w)!tryReconvergeAtCurrentPc(wp) = tryReconvergeAtCurrentPc(wp)
         /\ \A wp : Simt(w)!haltOrDeferToDivergenceStack(wp) = haltOrDeferToDivergenceStack(wp)
         /\ \A wp, target : Simt(w)!branch(wp, target) = branch(wp, target)
         /\ \A wp, target, takeMask :
              Simt(w)!branchOnPredicate(wp, target, takeMask)
                = branchOnPredicate(wp, target, takeMask)
         /\ Simt(w)!Opcodes = Opcodes
<1>1. \A mask : Simt(w)!NewWarp(mask) = NewWarp(mask)
  BY DEF NewWarp, Simt!NewWarp
<1>2. \A wp : Simt(w)!Done(wp) = Done(wp)
  BY DEF Done, Simt!Done
<1>3. \A wp : Simt(w)!advancePc(wp) = advancePc(wp)
  BY DEF advancePc, Simt!advancePc
<1>4. \A wp : Simt(w)!tryReconvergeAtCurrentPc(wp) = tryReconvergeAtCurrentPc(wp)
  BY DEF tryReconvergeAtCurrentPc, Simt!tryReconvergeAtCurrentPc, AtReconvergencePoint,
         Simt!AtReconvergencePoint
<1>5. \A wp : Simt(w)!haltOrDeferToDivergenceStack(wp) = haltOrDeferToDivergenceStack(wp)
  BY DEF haltOrDeferToDivergenceStack, Simt!haltOrDeferToDivergenceStack, Halts, Simt!Halts
<1>6. \A wp, target : Simt(w)!branch(wp, target) = branch(wp, target)
  BY DEF branch, Simt!branch, hasReconvergePc, Simt!hasReconvergePc, NoPc, Simt!NoPc
<1>7. \A wp, target, takeMask :
        Simt(w)!branchOnPredicate(wp, target, takeMask) = branchOnPredicate(wp, target, takeMask)
  BY <1>3 DEF branchOnPredicate, Simt!branchOnPredicate, NoPc, Simt!NoPc
<1>8. Simt(w)!Opcodes = Opcodes
  BY DEF Opcodes, Simt!Opcodes, RegisterWriters, Simt!RegisterWriters, GlobalMemoryOps,
         Simt!GlobalMemoryOps, SharedMemoryOps, Simt!SharedMemoryOps
<1> QED BY <1>1, <1>2, <1>3, <1>4, <1>5, <1>6, <1>7, <1>8

(* Each warp of the multiprocessor is a SimtWarp: whatever the scheduler,  *)
(* the barriers and the memory system do, it moves only as its own         *)
(* instructions, masks and stack say.  So what SimtWarpProofs shows of one *)
(* warp under any scheduler holds of all the warps of an SM.               *)
THEOREM WarpsAreSimtWarps == Spec => WarpsAreSimt
<1>1. Init => \A w \in Warps : Simt(w)!Init
  <2> SUFFICES ASSUME Init, NEW w \in Warps PROVE Simt(w)!Init
    OBVIOUS
  <2>1. warps[w] = NewWarp(LaunchMask[w])
    BY DEF Init
  <2> QED BY <2>1, SameOperations DEF Init, Simt!Init
<1>2. TypeOK /\ [Next]_vars => [\A w \in Warps : [Simt(w)!Next]_(Simt(w)!vars)]_vars
  <2> SUFFICES ASSUME TypeOK, [Next]_vars, NEW w \in Warps
               PROVE  [Simt(w)!Next]_(Simt(w)!vars)
    OBVIOUS
  <2>1. CASE Writeback
    <3>1. warps'[w] = IF Done(warps[w]) THEN warps[w] ELSE tryReconvergeAtCurrentPc(warps[w])
      BY <2>1 DEF Writeback
    <3>2. Simt(w)!Reconverge
      BY <2>1, <3>1, SameOperations DEF Writeback, Simt!Reconverge
    <3> QED BY <3>2 DEF Simt!Next
  <2>2. ASSUME phase = "issue", EndTick, UNCHANGED program, warps'[w] = warps[w]
        PROVE  Simt(w)!Next
    BY <2>2 DEF EndTick, Simt!Next, Simt!Stall
  <2>3. CASE Idle
    BY <2>2, <2>3 DEF Idle
  <2>4. CASE UNCHANGED vars
    BY <2>4 DEF vars, Simt!vars
  <2>5. ASSUME NEW v \in Warps, Issue(v) PROVE Simt(w)!Next
    <3>1. PICK ops : Issues(v, ops)
      BY <2>5 DEF Issue, Nop, Halt, Bra, BraPred, Arithmetic, Setp, LoadGlobal, StoreGlobal,
                  LoadShared, StoreShared, BarSync
    <3>2. PICK wp : Moves(v, wp)
      BY <2>5 DEF Issue, Nop, Halt, Bra, BraPred, Arithmetic, Setp, LoadGlobal, StoreGlobal,
                  LoadShared, StoreShared, BarSync, NextPc
    <3>3. CASE v # w
      <4>1. warps'[w] = warps[w]
        BY <3>2, <3>3 DEF Moves, TypeOK
      <4> QED BY <2>2, <3>1, <4>1 DEF Issues
    <3>4. CASE v = w
      <4>1. ASSUME NEW x, Moves(w, x) PROVE warps'[w] = x
        BY <4>1 DEF Moves, TypeOK
      <4>2. Simt(w)!Issues(currentInstruction(w).op)
        BY <3>1, <3>4, SameOperations
           DEF Issues, EndTick, ReadyWarps, Ready, currentInstruction, Simt!Issues
      <4>3. Simt(w)!Target = currentInstruction(w).target
        BY DEF Simt!Target, currentInstruction
      <4>4. CASE Halt(w)
        <5>1. Simt(w)!Halt
          BY <4>1, <4>2, <4>4, SameOperations DEF Halt, Issues, Simt!Halt
        <5> QED BY <5>1 DEF Simt!Next, Simt!Issue
      <4>5. CASE Bra(w)
        <5>1. Simt(w)!Bra
          BY <4>1, <4>2, <4>3, <4>5, SameOperations DEF Bra, Issues, Simt!Bra
        <5> QED BY <5>1 DEF Simt!Next, Simt!Issue
      <4>6. CASE BraPred(w)
        <5>1. Simt(w)!BraPred
          BY <4>1, <4>2, <4>3, <4>6, SameOperations DEF BraPred, Issues, Simt!BraPred
        <5> QED BY <5>1 DEF Simt!Next, Simt!Issue
      <4>7. CASE NextPc(w) /\ ~ (Halt(w) \/ Bra(w) \/ BraPred(w))
        <5>1. warps'[w] = advancePc(warps[w])
          BY <4>1, <4>7 DEF NextPc
        <5>2. currentInstruction(w).op \in Opcodes \ {"HALT", "BRA", "BRA.P"}
          BY <2>5, <3>4, <4>7 DEF Issue, Nop, Arithmetic, Setp, LoadGlobal, StoreGlobal,
             LoadShared, StoreShared, BarSync, Issues, Opcodes, RegisterWriters,
             GlobalMemoryOps, SharedMemoryOps
        <5>3. Simt(w)!Sequential
          BY <4>2, <5>1, <5>2, SameOperations DEF Simt!Sequential
        <5> QED BY <5>3 DEF Simt!Next, Simt!Issue
      <4> QED BY <2>5, <3>4, <4>4, <4>5, <4>6, <4>7 DEF Issue, Nop, Arithmetic, Setp,
                 LoadGlobal, StoreGlobal, LoadShared, StoreShared, BarSync
    <3> QED BY <3>3, <3>4
  <2> QED BY <2>1, <2>3, <2>4, <2>5 DEF Next
<1> QED BY <1>1, <1>2, SMTypeCorrect, PTL DEF Spec, WarpsAreSimt

-----------------------------------------------------------------------------
(* So all that SimtWarpProofs shows of one warp holds of each warp of the  *)
(* SM.                                                                     *)
One == INSTANCE SimtWarpProofs WITH
         warp <- warps[TheWarp], LaunchMasks <- {LaunchMask[TheWarp]}, Exited <- NoPc

LEMMA OneWarp ==
  /\ One!Init <=> Simt(TheWarp)!Init
  /\ [One!Next]_(One!vars) <=> [Simt(TheWarp)!Next]_(Simt(TheWarp)!vars)
<1> DEFINE w == TheWarp
<1>1. /\ \A mask : One!NewWarp(mask) = NewWarp(mask)
      /\ \A wp : One!Done(wp) = Done(wp)
      /\ \A wp : One!advancePc(wp) = advancePc(wp)
  BY DEF NewWarp, One!NewWarp, Done, One!Done, advancePc, One!advancePc
<1>2. \A wp : One!tryReconvergeAtCurrentPc(wp) = tryReconvergeAtCurrentPc(wp)
  BY DEF tryReconvergeAtCurrentPc, One!tryReconvergeAtCurrentPc, AtReconvergencePoint,
         One!AtReconvergencePoint
<1>3. \A wp : One!haltOrDeferToDivergenceStack(wp) = haltOrDeferToDivergenceStack(wp)
  BY DEF haltOrDeferToDivergenceStack, One!haltOrDeferToDivergenceStack, Halts, One!Halts
<1>4. \A wp, target : One!branch(wp, target) = branch(wp, target)
  BY DEF branch, One!branch, hasReconvergePc, One!hasReconvergePc, NoPc, One!NoPc
<1>5. \A wp, target, takeMask :
        One!branchOnPredicate(wp, target, takeMask) = branchOnPredicate(wp, target, takeMask)
  BY <1>1 DEF branchOnPredicate, One!branchOnPredicate, NoPc, One!NoPc
<1>6. One!Opcodes = Opcodes
  BY DEF Opcodes, One!Opcodes, RegisterWriters, One!RegisterWriters, GlobalMemoryOps,
         One!GlobalMemoryOps, SharedMemoryOps, One!SharedMemoryOps
<1>7. One!Init <=> Simt(w)!Init
  BY <1>1, SameOperations DEF One!Init, Simt!Init
<1>8. \A op : One!Issues(op) <=> Simt(w)!Issues(op)
  BY <1>1, SameOperations DEF One!Issues, Simt!Issues
<1>9. One!Target = Simt(w)!Target
  BY DEF One!Target, Simt!Target
<1>10. One!Reconverge <=> Simt(w)!Reconverge
  BY <1>1, <1>2, SameOperations DEF One!Reconverge, Simt!Reconverge
<1>11. One!Stall <=> Simt(w)!Stall
  BY DEF One!Stall, Simt!Stall
<1>12. One!Halt <=> Simt(w)!Halt
  BY <1>3, <1>8, SameOperations DEF One!Halt, Simt!Halt
<1>13. One!Bra <=> Simt(w)!Bra
  BY <1>4, <1>8, <1>9, SameOperations DEF One!Bra, Simt!Bra
<1>14. One!BraPred <=> Simt(w)!BraPred
  BY <1>5, <1>8, <1>9, SameOperations DEF One!BraPred, Simt!BraPred
<1>15. One!Sequential <=> Simt(w)!Sequential
  BY <1>1, <1>6, <1>8, SameOperations DEF One!Sequential, Simt!Sequential
<1>16. One!Next <=> Simt(w)!Next
  BY <1>10, <1>11, <1>12, <1>13, <1>14, <1>15 DEF One!Next, Simt!Next, One!Issue, Simt!Issue
<1>17. (One!vars)' = One!vars <=> (Simt(w)!vars)' = Simt(w)!vars
  BY DEF One!vars, Simt!vars
<1> QED BY <1>7, <1>16, <1>17

(* What SimtWarp assumes is so in the SM. *)
LEMMA OneAssumptions ==
  ASSUME TheWarp \in Warps
  PROVE  /\ One!IsFiniteSet(Lanes) /\ Lanes # {}
         /\ {LaunchMask[TheWarp]} \subseteq (SUBSET Lanes) \ {{}}
         /\ Programs \subseteq Seq(One!Instructions)
         /\ NoPc \notin Nat
         /\ None \notin Registers
<1>1. LaunchMask[TheWarp] \in (SUBSET Lanes) \ {{}} /\ IsFiniteSet(Lanes)
  BY LaunchAssumption
<1>2. One!IsFiniteSet(Lanes)
  BY <1>1 DEF IsFiniteSet, One!IsFiniteSet
<1>3. One!Instructions = Instructions
  BY DEF Instructions, One!Instructions, Opcodes, One!Opcodes, RegisterWriters,
         One!RegisterWriters, GlobalMemoryOps, One!GlobalMemoryOps, SharedMemoryOps,
         One!SharedMemoryOps
<1>4. NoPc \notin Nat
  BY DEF NoPc
<1> QED BY <1>1, <1>2, <1>3, <1>4, ProgramAssumption, NoneAssumption

LEMMA OneSpec ==
  ASSUME TheWarp \in Warps
  PROVE  Spec => One!Spec
<1>1. (\A w \in Warps : Simt(w)!Init) => One!Init
  BY OneWarp
<1>2. [\A w \in Warps : [Simt(w)!Next]_(Simt(w)!vars)]_vars => [One!Next]_(One!vars)
  <2>1. CASE UNCHANGED vars
    BY <2>1 DEF vars, One!vars
  <2>2. CASE \A w \in Warps : [Simt(w)!Next]_(Simt(w)!vars)
    BY <2>2, OneWarp
  <2> QED BY <2>1, <2>2
<1> QED BY <1>1, <1>2, WarpsAreSimtWarps, PTL DEF WarpsAreSimt, One!Spec

(* In every warp of an SM no lane is on two paths at once, a lane is       *)
(* active until the warp is done, the divergence stack is bounded, and     *)
(* only a HALT before a join misplaces a lane: the other warps, barriers   *)
(* and loads cannot disturb that.                                          *)
THEOREM EveryWarpIsSound ==
  ASSUME TheWarp \in Warps
  PROVE  Spec => /\ [](One!LanesOnOnePath /\ One!ActiveUntilDone /\ One!StackBounded)
                 /\ One!OnlyHaltMisplaces
<1>1. One!Spec => /\ []One!LanesOnOnePath /\ []One!ActiveUntilDone /\ []One!StackBounded
                  /\ One!OnlyHaltMisplaces
  BY OneAssumptions, One!LanesStayOnOnePath, One!ActiveLanesUntilDone,
     One!DivergenceStackBounded, One!HaltAloneMisplaces, PTL
<1> QED BY <1>1, OneSpec, PTL

(* If every kernel is structured, or none has a BRA (as none in the        *)
(* repository has), every lane of every warp of an SM follows the kernel   *)
(* as the reference interpreter's thread does, whatever the other warps,   *)
(* barriers and loads do.                                                  *)
THEOREM EveryThreadFollows ==
  ASSUME TheWarp \in Warps,
         \/ \A p \in Programs : One!Structured(p)
         \/ \A p \in Programs : \A i \in DOMAIN p : p[i].op # "BRA"
  PROVE  Spec => One!ThreadsSpec
<1>1. One!Spec => One!ThreadsSpec
  BY OneAssumptions, One!StructuredThreadsFollow, One!BranchFreeThreadsFollow
<1> QED BY <1>1, OneSpec, PTL

-----------------------------------------------------------------------------
(* What is outstanding carries the numbers of earlier instructions, so a   *)
(* record that is queued is never one that is there already.               *)
Numbered ==
  /\ \A p \in pendingWrites : p.id < issued
  /\ \A q \in memoryRequests : q.id < issued

(* The record that an issue adds to a queue. *)
LEMMA WriteQueued ==
  ASSUME NEW w, NEW kind, NEW ready, queueWrite(w, kind, ready)
  PROVE  \E write : /\ pendingWrites' = pendingWrites \cup {write}
                    /\ write.id = issued /\ write.kind = kind /\ write.warpIndex = w
                    /\ write.dst = currentInstruction(w).dst /\ write.readyCycle = ready
                    /\ write.activeMask = warps[w].activeMask
<1> DEFINE write == [id |-> issued, kind |-> kind, warpIndex |-> w,
                     dst |-> currentInstruction(w).dst, readyCycle |-> ready,
                     activeMask |-> warps[w].activeMask]
<1>1. pendingWrites' = pendingWrites \cup {write}
  BY DEF queueWrite
<1>2. /\ write.id = issued /\ write.kind = kind /\ write.warpIndex = w
      /\ write.dst = currentInstruction(w).dst /\ write.readyCycle = ready
      /\ write.activeMask = warps[w].activeMask
  OBVIOUS
<1> HIDE DEF write
<1> QED BY <1>1, <1>2

LEMMA RequestQueued ==
  ASSUME NEW w, NEW latency, queueRequest(w, latency)
  PROVE  \E request : /\ memoryRequests' = memoryRequests \cup {request}
                      /\ request.id = issued /\ request.warpIndex = w
                      /\ request.isLoad = (currentInstruction(w).op = "LD.GLOBAL")
                      /\ request.dstReg = currentInstruction(w).dst
                      /\ request.returnCycle = cycle + latency
                      /\ request.activeMask = warps[w].activeMask
                      /\ request.array = currentInstruction(w).array
<1> DEFINE request == [id |-> issued, isLoad |-> currentInstruction(w).op = "LD.GLOBAL",
                       warpIndex |-> w, dstReg |-> currentInstruction(w).dst,
                       returnCycle |-> cycle + latency,
                       activeMask |-> warps[w].activeMask,
                       array |-> currentInstruction(w).array]
<1>1. memoryRequests' = memoryRequests \cup {request}
  BY DEF queueRequest
<1>2. /\ request.id = issued /\ request.warpIndex = w
      /\ request.isLoad = (currentInstruction(w).op = "LD.GLOBAL")
      /\ request.dstReg = currentInstruction(w).dst
      /\ request.returnCycle = cycle + latency
      /\ request.activeMask = warps[w].activeMask
      /\ request.array = currentInstruction(w).array
  OBVIOUS
<1> HIDE DEF request
<1> QED BY <1>1, <1>2

LEMMA QueuesAfterIssue ==
  ASSUME TypeOK, NEW w \in Warps, Issue(w)
  PROVE  /\ issued' = issued + 1
         /\ \/ UNCHANGED pendingWrites
            \/ \E write : /\ pendingWrites' = pendingWrites \cup {write}
                         /\ write.id = issued
         /\ \/ UNCHANGED memoryRequests
            \/ \E request : /\ memoryRequests' = memoryRequests \cup {request}
                           /\ request.id = issued
<1>1. issued' = issued + 1
  BY DEF Issue, Issues, Nop, Halt, Bra, BraPred, Arithmetic, Setp, LoadGlobal, StoreGlobal,
         LoadShared, StoreShared, BarSync
<1>2. UNCHANGED pendingWrites \/ \E kind, ready : queueWrite(w, kind, ready)
  BY DEF Issue, Nop, Halt, Bra, BraPred, Arithmetic, Setp, LoadGlobal, StoreGlobal,
         LoadShared, StoreShared, BarSync, RetiresAtIssue
<1>3. UNCHANGED memoryRequests \/ \E latency : queueRequest(w, latency)
  BY DEF Issue, Nop, Halt, Bra, BraPred, Arithmetic, Setp, LoadGlobal, StoreGlobal,
         LoadShared, StoreShared, BarSync, RetiresAtIssue
<1> QED BY <1>1, <1>2, <1>3, WriteQueued, RequestQueued

LEMMA NumberedStep ==
  ASSUME TypeOK, Numbered, [Next]_vars
  PROVE  Numbered'
<1>1. issued \in Nat
  BY DEF TypeOK
<1>2. /\ \A p \in pendingWrites : p.id \in Nat
      /\ \A q \in memoryRequests : q.id \in Nat
  BY DEF TypeOK, PendingWrites, MemoryRequests
<1>3. CASE Writeback
  BY <1>3 DEF Writeback, Numbered
<1>4. CASE Idle
  BY <1>4 DEF Idle, Numbered
<1>5. CASE UNCHANGED vars
  BY <1>5 DEF vars, Numbered
<1>6. ASSUME NEW w \in Warps, Issue(w) PROVE Numbered'
  BY <1>1, <1>2, <1>6, QueuesAfterIssue DEF Numbered
<1> QED BY <1>3, <1>4, <1>5, <1>6 DEF Next

LEMMA NumberedInvariant == Spec => []Numbered
<1>1. Init => Numbered
  BY DEF Init, Numbered
<1>2. TypeOK /\ Numbered /\ [Next]_vars => Numbered'
  BY NumberedStep
<1> QED BY <1>1, <1>2, SMTypeCorrect, PTL DEF Spec

-----------------------------------------------------------------------------
(* What queueing one more write, or request, adds to the sets that the     *)
(* scoreboard counts.                                                      *)

LEMMA QueuedWrite ==
  ASSUME TypeOK, Numbered, NEW v \in Warps, NEW kind, NEW ready, queueWrite(v, kind, ready),
         NEW w \in Warps, NEW r \in Registers
  PROVE  Cardinality(RegisterWrites(w, r, pendingWrites'))
           = Cardinality(RegisterWrites(w, r, pendingWrites))
             + IF kind = "Register" /\ w = v /\ r = currentInstruction(v).dst THEN 1 ELSE 0
<1> DEFINE before == RegisterWrites(w, r, pendingWrites)
           after  == RegisterWrites(w, r, pendingWrites')
<1>1. PICK write : /\ pendingWrites' = pendingWrites \cup {write}
                   /\ write.id = issued /\ write.kind = kind /\ write.warpIndex = v
                   /\ write.dst = currentInstruction(v).dst
  BY WriteQueued
<1>2. write \notin pendingWrites
  BY <1>1 DEF TypeOK, Numbered
<1>4. IsFiniteSet(before) /\ Cardinality(before) \in Nat
  BY OutstandingFinite DEF RegisterWrites
<1>5. CASE kind = "Register" /\ w = v /\ r = currentInstruction(v).dst
  <2>1. after = before \cup {write} /\ write \notin before
    BY <1>1, <1>2, <1>5 DEF RegisterWrites
  <2>2. Cardinality(after) = Cardinality(before) + 1
    BY <1>4, <2>1, FS_AddElement
  <2> QED BY <1>5, <2>2
<1>6. CASE ~ (kind = "Register" /\ w = v /\ r = currentInstruction(v).dst)
  <2>1. after = before
    BY <1>1, <1>6 DEF RegisterWrites
  <2> QED BY <1>4, <1>6, <2>1
<1> QED BY <1>5, <1>6

LEMMA QueuedRequest ==
  ASSUME TypeOK, Numbered, NEW v \in Warps, NEW latency, queueRequest(v, latency),
         NEW w \in Warps, NEW r \in Registers
  PROVE  /\ Cardinality(Loads(w, r, memoryRequests'))
              = Cardinality(Loads(w, r, memoryRequests))
                + IF currentInstruction(v).op = "LD.GLOBAL" /\ w = v
                     /\ r = currentInstruction(v).dst THEN 1 ELSE 0
<1> DEFINE before == Loads(w, r, memoryRequests)
           after  == Loads(w, r, memoryRequests')
<1>1. PICK request : /\ memoryRequests' = memoryRequests \cup {request}
                     /\ request.id = issued /\ request.warpIndex = v
                     /\ request.isLoad = (currentInstruction(v).op = "LD.GLOBAL")
                     /\ request.dstReg = currentInstruction(v).dst
  BY RequestQueued
<1>2. request \notin memoryRequests
  BY <1>1 DEF TypeOK, Numbered
<1>4. IsFiniteSet(before) /\ Cardinality(before) \in Nat
  BY OutstandingFinite DEF Loads
<1>5. CASE currentInstruction(v).op = "LD.GLOBAL" /\ w = v /\ r = currentInstruction(v).dst
  <2>1. after = before \cup {request} /\ request \notin before
    BY <1>1, <1>2, <1>5 DEF Loads
  <2> QED BY <1>4, <1>5, <2>1, FS_AddElement
<1>6. CASE ~ (currentInstruction(v).op = "LD.GLOBAL" /\ w = v
              /\ r = currentInstruction(v).dst)
  <2>1. after = before
    BY <1>1, <1>6 DEF Loads
  <2> QED BY <1>4, <1>6, <2>1
<1> QED BY <1>5, <1>6

(* As many as are due land; the others stay. *)
LEMMA DueSplits ==
  ASSUME TypeOK, Writeback, NEW w \in Warps, NEW r \in Registers
  PROVE  /\ Cardinality(RegisterWrites(w, r, pendingWrites'))
              = Cardinality(RegisterWrites(w, r, pendingWrites))
                - Cardinality(RegisterWrites(w, r, DueWrites))
         /\ Cardinality(Loads(w, r, memoryRequests'))
              = Cardinality(Loads(w, r, memoryRequests))
                - Cardinality(Loads(w, r, DueRequests))
<1>1. /\ RegisterWrites(w, r, pendingWrites')
           = RegisterWrites(w, r, pendingWrites) \ RegisterWrites(w, r, DueWrites)
      /\ RegisterWrites(w, r, pendingWrites) \cap RegisterWrites(w, r, DueWrites)
           = RegisterWrites(w, r, DueWrites)
  BY DEF Writeback, RegisterWrites, DueWrites
<1>2. /\ Loads(w, r, memoryRequests')
           = Loads(w, r, memoryRequests) \ Loads(w, r, DueRequests)
      /\ Loads(w, r, memoryRequests) \cap Loads(w, r, DueRequests)
           = Loads(w, r, DueRequests)
  BY DEF Writeback, Loads, DueRequests
<1>3. IsFiniteSet(RegisterWrites(w, r, pendingWrites))
      /\ IsFiniteSet(Loads(w, r, memoryRequests))
  BY OutstandingFinite DEF RegisterWrites, Loads
<1>4. \A S, T : IsFiniteSet(S) /\ S \cap T = T
               => Cardinality(S \ T) = Cardinality(S) - Cardinality(T)
  BY FS_Difference
<1> QED BY <1>1, <1>2, <1>3, <1>4

(* Every step reserves and releases what it queues and lands. *)
LEMMA ScoreboardStep ==
  ASSUME TypeOK, Numbered, ScoreboardExact, [Next]_vars
  PROVE  ScoreboardExact'
<1> SUFFICES ASSUME NEW w \in Warps, NEW r \in Registers
             PROVE  scoreboard'[w][r] = Cardinality(RegisterWrites(w, r, pendingWrites'))
                                        + Cardinality(Loads(w, r, memoryRequests'))
  BY DEF ScoreboardExact
<1> DEFINE writes == Cardinality(RegisterWrites(w, r, pendingWrites))
           loads  == Cardinality(Loads(w, r, memoryRequests))
<1>1. scoreboard[w][r] = writes + loads
  BY DEF ScoreboardExact
<1>2. writes \in Nat /\ loads \in Nat
  BY OutstandingFinite DEF RegisterWrites, Loads
<1>3. CASE Writeback
  <2> DEFINE landing == Cardinality(RegisterWrites(w, r, DueWrites))
             returning == Cardinality(Loads(w, r, DueRequests))
  <2>1. scoreboard'[w][r] = release(writes + loads, landing + returning)
    BY <1>1, <1>3 DEF Writeback
  <2>2. landing \in Nat /\ returning \in Nat
    BY OutstandingFinite DEF RegisterWrites, Loads, DueWrites, DueRequests
  <2>3. landing <= writes /\ returning <= loads
    <3>1. RegisterWrites(w, r, DueWrites) \subseteq RegisterWrites(w, r, pendingWrites)
          /\ Loads(w, r, DueRequests) \subseteq Loads(w, r, memoryRequests)
      BY DEF RegisterWrites, Loads, DueWrites, DueRequests
    <3>2. IsFiniteSet(RegisterWrites(w, r, pendingWrites))
          /\ IsFiniteSet(Loads(w, r, memoryRequests))
      BY OutstandingFinite DEF RegisterWrites, Loads
    <3> QED BY <3>1, <3>2, FS_Subset
  <2>4. /\ Cardinality(RegisterWrites(w, r, pendingWrites')) = writes - landing
        /\ Cardinality(Loads(w, r, memoryRequests')) = loads - returning
    BY <1>3, DueSplits
  <2> HIDE DEF writes, loads, landing, returning
  <2> QED BY <1>2, <2>1, <2>2, <2>3, <2>4 DEF release
<1>4. CASE UNCHANGED <<scoreboard, pendingWrites, memoryRequests>>
  BY <1>1, <1>4
<1>5. ASSUME NEW v \in Warps, UNCHANGED memoryRequests, reserve(v, currentInstruction(v).dst),
             NEW ready, queueWrite(v, "Register", ready)
      PROVE  scoreboard'[w][r] = Cardinality(RegisterWrites(w, r, pendingWrites'))
                                 + Cardinality(Loads(w, r, memoryRequests'))
  <2>1. Cardinality(RegisterWrites(w, r, pendingWrites'))
          = writes + IF w = v /\ r = currentInstruction(v).dst THEN 1 ELSE 0
    BY <1>5, QueuedWrite
  <2>2. scoreboard'[w][r]
          = scoreboard[w][r] + IF w = v /\ r = currentInstruction(v).dst THEN 1 ELSE 0
    BY <1>5 DEF reserve, TypeOK
  <2> HIDE DEF writes
  <2> QED BY <1>1, <1>2, <1>5, <2>1, <2>2
<1>6. ASSUME NEW v \in Warps, UNCHANGED <<scoreboard, memoryRequests>>,
             NEW ready, queueWrite(v, "Predicate", ready)
      PROVE  scoreboard'[w][r] = Cardinality(RegisterWrites(w, r, pendingWrites'))
                                 + Cardinality(Loads(w, r, memoryRequests'))
  <2>1. Cardinality(RegisterWrites(w, r, pendingWrites')) = writes
    BY <1>2, <1>6, QueuedWrite
  <2> QED BY <1>1, <1>6, <2>1
<1>7. ASSUME NEW v \in Warps, UNCHANGED pendingWrites, NEW latency, queueRequest(v, latency),
             IF currentInstruction(v).op = "LD.GLOBAL"
             THEN reserve(v, currentInstruction(v).dst) ELSE UNCHANGED scoreboard
      PROVE  scoreboard'[w][r] = Cardinality(RegisterWrites(w, r, pendingWrites'))
                                 + Cardinality(Loads(w, r, memoryRequests'))
  <2> DEFINE loaded == currentInstruction(v).op = "LD.GLOBAL" /\ w = v
                       /\ r = currentInstruction(v).dst
  <2>1. Cardinality(Loads(w, r, memoryRequests')) = loads + IF loaded THEN 1 ELSE 0
    BY <1>7, QueuedRequest
  <2>2. scoreboard'[w][r] = scoreboard[w][r] + IF loaded THEN 1 ELSE 0
    BY <1>7 DEF reserve, TypeOK
  <2> HIDE DEF loads, loaded
  <2> QED BY <1>1, <1>2, <1>7, <2>1, <2>2
<1>8. CASE Idle \/ UNCHANGED vars
  BY <1>4, <1>8 DEF Idle, vars
<1>9. ASSUME NEW v \in Warps, Issue(v)
      PROVE  scoreboard'[w][r] = Cardinality(RegisterWrites(w, r, pendingWrites'))
                                 + Cardinality(Loads(w, r, memoryRequests'))
  <2>1. CASE Arithmetic(v) \/ LoadShared(v)
    BY <1>5, <2>1 DEF Arithmetic, LoadShared
  <2>2. CASE Setp(v)
    BY <1>6, <2>2 DEF Setp
  <2>3. CASE LoadGlobal(v)
    BY <1>7, <2>3 DEF LoadGlobal, Issues
  <2>4. CASE StoreGlobal(v)
    <3>1. currentInstruction(v).op # "LD.GLOBAL"
      BY <2>4 DEF StoreGlobal, Issues
    <3> QED BY <1>7, <2>4, <3>1 DEF StoreGlobal
  <2>5. CASE Nop(v) \/ Halt(v) \/ Bra(v) \/ BraPred(v) \/ StoreShared(v) \/ BarSync(v)
    BY <1>4, <2>5 DEF Nop, Halt, Bra, BraPred, StoreShared, BarSync, RetiresAtIssue
  <2> QED BY <1>9, <2>1, <2>2, <2>3, <2>4, <2>5 DEF Issue
<1> QED BY <1>3, <1>8, <1>9 DEF Next

LEMMA InitScoreboard ==
  ASSUME Init
  PROVE  ScoreboardExact
<1> SUFFICES ASSUME NEW w \in Warps, NEW r \in Registers
             PROVE  scoreboard[w][r] = Cardinality(RegisterWrites(w, r, pendingWrites))
                                       + Cardinality(Loads(w, r, memoryRequests))
  BY DEF ScoreboardExact
<1>1. RegisterWrites(w, r, pendingWrites) = {} /\ Loads(w, r, memoryRequests) = {}
  BY DEF Init, RegisterWrites, Loads
<1>2. scoreboard[w][r] = 0
  BY DEF Init
<1> QED BY <1>1, <1>2, FS_EmptySet

(* The scoreboard counts exactly what is outstanding.                      *)
(* Scoreboard::reserve and release are called in different places of       *)
(* sm.cpp, cycles apart; this is what ties them together: no warp reads a  *)
(* register that has a result on its way, and none is blocked by a count   *)
(* left over.                                                              *)
THEOREM ScoreboardCountsExactly == Spec => []ScoreboardExact
<1>1. Init => ScoreboardExact
  BY InitScoreboard
<1>2. TypeOK /\ Numbered /\ ScoreboardExact /\ [Next]_vars => ScoreboardExact'
  BY ScoreboardStep
<1> QED BY <1>1, <1>2, SMTypeCorrect, NumberedInvariant, PTL DEF Spec

-----------------------------------------------------------------------------
(* A warp has a load outstanding exactly if it waits, and only one. *)
OneLoad ==
  \A w \in Warps :
    /\ w \in waitingOnGlobalMemory <=> LoadsOf(w) # {}
    /\ \A p, q \in LoadsOf(w) : p = q

LEMMA OneLoadStep ==
  ASSUME TypeOK, OneLoad, [Next]_vars
  PROVE  OneLoad'
<1> SUFFICES ASSUME NEW w \in Warps
             PROVE  /\ w \in waitingOnGlobalMemory' <=> LoadsOf(w)' # {}
                    /\ \A p, q \in LoadsOf(w)' : p = q
  BY DEF OneLoad
<1> USE DEF OneLoad
<1>1. CASE Writeback
  <2>1. LoadsOf(w)' = LoadsOf(w) \ DueRequests
    BY <1>1 DEF Writeback, LoadsOf
  <2>2. w \in WokenWarps <=> LoadsOf(w) \cap DueRequests # {}
    BY DEF WokenWarps, LoadsOf, DueRequests
  <2>3. w \in waitingOnGlobalMemory' <=> w \in waitingOnGlobalMemory /\ w \notin WokenWarps
    BY <1>1 DEF Writeback
  <2> HIDE DEF LoadsOf
  <2> QED BY <2>1, <2>2, <2>3
<1>2. CASE UNCHANGED <<waitingOnGlobalMemory, memoryRequests>>
  BY <1>2 DEF LoadsOf
<1>3. CASE Idle \/ UNCHANGED vars
  BY <1>2, <1>3 DEF Idle, vars
<1>4. ASSUME NEW v \in Warps, Issue(v)
      PROVE  /\ w \in waitingOnGlobalMemory' <=> LoadsOf(w)' # {}
             /\ \A p, q \in LoadsOf(w)' : p = q
  <2>1. CASE LoadGlobal(v)
    <3>1. v \notin waitingOnGlobalMemory /\ currentInstruction(v).op = "LD.GLOBAL"
      BY <2>1 DEF LoadGlobal, Issues, ReadyWarps, Ready
    <3>2. PICK request : /\ memoryRequests' = memoryRequests \cup {request}
                         /\ request.isLoad /\ request.warpIndex = v
      BY <2>1, <3>1, RequestQueued DEF LoadGlobal
    <3>3. waitingOnGlobalMemory' = waitingOnGlobalMemory \cup {v}
      BY <2>1 DEF LoadGlobal
    <3>4. CASE w = v
      <4>1. LoadsOf(w)' = {request}
        BY <3>1, <3>2, <3>4 DEF LoadsOf
      <4> QED BY <3>3, <3>4, <4>1
    <3>5. CASE w # v
      <4>1. LoadsOf(w)' = LoadsOf(w)
        BY <3>2, <3>5 DEF LoadsOf
      <4> QED BY <3>3, <3>5, <4>1
    <3> QED BY <3>4, <3>5
  <2>2. CASE StoreGlobal(v)
    <3>1. PICK request : memoryRequests' = memoryRequests \cup {request} /\ ~ request.isLoad
      BY <2>2, RequestQueued DEF StoreGlobal, Issues
    <3>2. LoadsOf(w)' = LoadsOf(w)
      BY <3>1 DEF LoadsOf
    <3> QED BY <2>2, <3>2 DEF StoreGlobal
  <2>3. CASE Nop(v) \/ Halt(v) \/ Bra(v) \/ BraPred(v) \/ Arithmetic(v) \/ Setp(v)
             \/ LoadShared(v) \/ StoreShared(v) \/ BarSync(v)
    BY <1>2, <2>3 DEF Nop, Halt, Bra, BraPred, Arithmetic, Setp, LoadShared, StoreShared,
                      BarSync, RetiresAtIssue
  <2> QED BY <1>4, <2>1, <2>2, <2>3 DEF Issue
<1> QED BY <1>1, <1>3, <1>4 DEF Next

LEMMA OneLoadCounts ==
  ASSUME OneLoad
  PROVE  LoadHoldsWarp
<1> SUFFICES ASSUME NEW w \in Warps
             PROVE  Cardinality(LoadsOf(w)) = IF w \in waitingOnGlobalMemory THEN 1 ELSE 0
  BY DEF LoadHoldsWarp
<1>1. CASE w \in waitingOnGlobalMemory
  <2>1. PICK q : LoadsOf(w) = {q}
    BY <1>1 DEF OneLoad
  <2> QED BY <1>1, <2>1, FS_Singleton
<1>2. CASE w \notin waitingOnGlobalMemory
  BY <1>2, FS_EmptySet DEF OneLoad
<1> QED BY <1>1, <1>2

(* At most one load of a warp is outstanding, and only while the warp      *)
(* waits for it: completeMemoryRequests clears a flag, not a count, so a   *)
(* second one would let the warp go on with a load still under way.        *)
THEOREM LoadsHoldTheirWarp == Spec => []LoadHoldsWarp
<1>1. Init => OneLoad
  BY DEF Init, OneLoad, LoadsOf
<1>2. TypeOK /\ OneLoad /\ [Next]_vars => OneLoad'
  BY OneLoadStep
<1>3. OneLoad => LoadHoldsWarp
  BY OneLoadCounts
<1> QED BY <1>1, <1>2, <1>3, SMTypeCorrect, PTL DEF Spec

-----------------------------------------------------------------------------
(* A pipeline is taken for the cycle of its issue only, and a cycle issues *)
(* once: no unit with a pipeline is ever found busy.                       *)
THEOREM PipelinesStayFree == Spec => []PipelinesFree
<1> DEFINE Free == \A p \in Pipelines : busyUntil[p] <= cycle
<1>1. Init => Free
  BY DEF Init
<1>2. TypeOK /\ Free /\ [Next]_vars => Free'
  <2> SUFFICES ASSUME TypeOK, Free, [Next]_vars, NEW p \in Pipelines
               PROVE  busyUntil'[p] <= cycle'
    OBVIOUS
  <2>1. cycle \in Nat /\ busyUntil[p] \in Nat /\ busyUntil[p] <= cycle
    BY DEF TypeOK
  <2>2. CASE Writeback \/ UNCHANGED vars
    BY <2>1, <2>2 DEF Writeback, vars
  <2>3. CASE Idle
    BY <2>1, <2>3 DEF Idle, EndTick
  <2>4. ASSUME NEW w \in Warps, NEW ops, Issues(w, ops) PROVE busyUntil'[p] <= cycle'
    <3>1. cycle' = cycle + 1
      BY <2>4 DEF Issues, EndTick
    <3>2. \E first : busyUntil' \in {busyUntil, [busyUntil EXCEPT ![first] = cycle + 1]}
      BY <2>4 DEF Issues, Occupied
    <3>3. busyUntil'[p] \in {busyUntil[p], cycle + 1}
      BY <3>2 DEF TypeOK
    <3> QED BY <2>1, <3>1, <3>3
  <2>5. ASSUME NEW w \in Warps, Issue(w) PROVE \E ops : Issues(w, ops)
    BY <2>5 DEF Issue, Nop, Halt, Bra, BraPred, Arithmetic, Setp, LoadGlobal, StoreGlobal,
                LoadShared, StoreShared, BarSync
  <2> QED BY <2>2, <2>3, <2>4, <2>5 DEF Next
<1>3. TypeOK /\ Free => PipelinesFree
  <2> SUFFICES ASSUME TypeOK, Free, NEW u \in Units, PipelineCount[u] > 0
               PROVE  functionUnitReady(u)
    BY DEF PipelinesFree
  <2>1. <<u, 1>> \in Pipelines
    BY ConfigAssumption DEF Pipelines
  <2> QED BY <2>1 DEF functionUnitReady, FreePipelines
<1> QED BY <1>1, <1>2, <1>3, SMTypeCorrect, PTL DEF Spec

(* A predicate is on its way no longer than to the next write-back. *)
Settled ==
  \A p \in pendingWrites :
    p.kind = "Predicate" => p.readyCycle <= cycle /\ phase = "writeback"

LEMMA SettledStep ==
  ASSUME TypeOK, Settled, [Next]_vars
  PROVE  Settled'
<1> USE DEF Settled
<1>1. cycle \in Nat
  BY DEF TypeOK
<1>2. CASE Writeback
  BY <1>2 DEF Writeback, DueWrites
<1>3. CASE UNCHANGED vars
  BY <1>3 DEF vars
<1>4. CASE phase = "issue" /\ phase' = "writeback" /\ pendingWrites' = pendingWrites
  BY <1>4
<1>5. CASE Idle
  BY <1>4, <1>5 DEF Idle, EndTick
<1>6. ASSUME NEW w \in Warps, Issue(w) PROVE Settled'
  <2>1. phase = "issue" /\ phase' = "writeback" /\ cycle' = cycle + 1
    BY <1>6 DEF Issue, Nop, Halt, Bra, BraPred, Arithmetic, Setp, LoadGlobal, StoreGlobal,
                LoadShared, StoreShared, BarSync, Issues, EndTick
  <2>2. ASSUME NEW kind, NEW ready, queueWrite(w, kind, ready),
               kind = "Predicate" => ready <= cycle + 1
        PROVE  Settled'
    <3>1. PICK write : /\ pendingWrites' = pendingWrites \cup {write}
                       /\ write.kind = kind /\ write.readyCycle = ready
      BY <2>2, WriteQueued
    <3> QED BY <2>1, <2>2, <3>1
  <2>3. CASE Setp(w)
    <3>1. unitType(currentInstruction(w)) = "IntAlu"
      BY <2>3 DEF Setp, Issues, unitType, GlobalMemoryOps, SharedMemoryOps
    <3>2. ReadyCycle("IntAlu") <= cycle + 1
      BY <1>1 DEF ReadyCycle, Latency
    <3> QED BY <2>2, <2>3, <3>1, <3>2 DEF Setp
  <2>4. CASE Arithmetic(w) \/ LoadShared(w)
    BY <2>2, <2>4 DEF Arithmetic, LoadShared
  <2>5. CASE pendingWrites' = pendingWrites
    BY <1>4, <2>1, <2>5
  <2> QED BY <1>6, <2>3, <2>4, <2>5 DEF Issue, Nop, Halt, Bra, BraPred, LoadGlobal,
            StoreGlobal, StoreShared, BarSync, RetiresAtIssue
<1> QED BY <1>2, <1>3, <1>5, <1>6 DEF Next

(* A predicate is written in the cycle after its SETP at the latest: no    *)
(* branch, vote or ballot reads a stale one, though predicates have no     *)
(* scoreboard.                                                             *)
THEOREM PredicatesAreSettled == Spec => []PredicatesSettled
<1>1. Init => Settled
  BY DEF Init, Settled
<1>2. TypeOK /\ Settled /\ [Next]_vars => Settled'
  BY SettledStep
<1>3. Settled => PredicatesSettled
  BY DEF Settled, PredicatesSettled
<1> QED BY <1>1, <1>2, <1>3, SMTypeCorrect, PTL DEF Spec
=============================================================================
