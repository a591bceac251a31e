----------------------- MODULE StreamingMultiprocessor -----------------------
(***************************************************************************)
(* One streaming multiprocessor running one kernel (sm.cpp, driven by      *)
(* GPU::run): its warps, the scoreboard and the write-backs that release   *)
(* it, the outstanding memory requests, the barriers, the functional       *)
(* units, and the scheduler that issues at most one instruction a cycle.   *)
(*                                                                         *)
(* A tick is two steps.  Writeback completes what is due and reconverges   *)
(* the warps; then one instruction of the selected warp is issued, or the  *)
(* cycle is idle, and the cycle count advances.                            *)
(*                                                                         *)
(* Data is left out: register and memory contents, so the lanes that take  *)
(* a BRA.P, whether an access hits in the L1 cache, and the number of bank *)
(* conflicts of a shared access are free.                                  *)
(***************************************************************************)
EXTENDS Instruction, Warp, WarpScheduler, FiniteSets

CONSTANTS
  Lanes,                 \* the lanes of a warp
  WarpCount,             \* the number of warps of the launch on this SM
  CTAs, CtaOf,           \* the resident CTAs, and the CTA of each warp
  LaunchMask,            \* the lanes each warp is launched with
  Programs,              \* the kernels it may run
  Policies,              \* the scheduler policies it may be configured with
  PipelineCount,         \* the number of pipelines of each functional unit
  MaxOutstanding,        \* maxOutstandingMemoryRequestsPerSM
  L1HitLatency, L1MissLatency, SharedMemoryLatency,
  MaxBankConflicts,      \* the most bank conflicts of one shared access
  MaxCycles              \* the cycle limit GPU::run is given

Warps == 0..(WarpCount - 1)
Units == {"IntAlu", "Sfu", "Lsu"}

(* Wrong variant: integer results take a cycle longer. *)
SlowAluLatency == [IntAlu |-> 2, Sfu |-> 4, Lsu |-> 1]

(* Wrong variant: products take a cycle longer. *)
SlowSfuLatency == [IntAlu |-> 1, Sfu |-> 5, Lsu |-> 1]

(* The issue-to-result latencies the constructor gives the units. *)
Latency == [IntAlu |-> 1, Sfu |-> 4, Lsu |-> 1]

Pipelines == UNION {{u} \X (1..PipelineCount[u]) : u \in Units}

ASSUME ConfigAssumption ==
  /\ WarpCount \in Nat \ {0}
  /\ PipelineCount \in [Units -> Nat]
  /\ {MaxOutstanding, L1HitLatency, L1MissLatency, SharedMemoryLatency,
      MaxBankConflicts, MaxCycles} \subseteq Nat
ASSUME LaunchAssumption ==
  /\ IsFiniteSet(Lanes)
  /\ CtaOf \in [Warps -> CTAs]
  /\ LaunchMask \in [Warps -> (SUBSET Lanes) \ {{}}]
ASSUME PolicyAssumption == Policies \subseteq SchedulerPolicies
ASSUME ProgramAssumption == Programs \subseteq Seq(Instructions)

VARIABLES
  program,
  warps,                  \* the control state of each warp
  waitingOnGlobalMemory,  \* the warps with a global load outstanding
  waitingOnBarrier,       \* the warps held at a barrier
  scoreboard,             \* per warp and register, the writes outstanding
  lastIssueCycle,         \* per warp
  pendingWrites,          \* results on their way to registers and predicates
  memoryRequests,         \* global loads and stores on their way
  barriers,               \* per CTA, the warps arrived and the number expected
  scheduler,
  busyUntil,              \* per pipeline of a functional unit
  cycle,
  phase,                  \* the next step of the tick: "writeback" or "issue"
  issued, retired         \* stats.instructionsIssued, stats.instructionsRetired

vars == <<program, warps, waitingOnGlobalMemory, waitingOnBarrier, scoreboard,
          lastIssueCycle, pendingWrites, memoryRequests, barriers, scheduler,
          busyUntil, cycle, phase, issued, retired>>

(* The records of the two vectors carry the number of the instruction that *)
(* made them: it is their place in the vector, and tells equal ones apart. *)
PendingWrites ==
  [id : Nat, kind : {"Register", "Predicate"}, warpIndex : Warps,
   dst : Registers \cup {None}, readyCycle : Nat, activeMask : SUBSET Lanes]

MemoryRequests ==
  [id : Nat, isLoad : BOOLEAN, warpIndex : Warps, dstReg : Registers \cup {None},
   returnCycle : Nat, activeMask : SUBSET Lanes, array : Arrays \cup {None}]

Schedulers ==
  [policy : Policies, roundRobinCursor : Nat, greedyWarp : Warps \cup {NoWarp}]

(* An absent entry of the map of barriers. *)
NoBarrier == [waitingWarps |-> {}, expectedWarps |-> 0]

TypeOK ==
  /\ program \in Programs
  /\ warps \in [Warps -> WarpStates(Lanes)]
  /\ waitingOnGlobalMemory \in SUBSET Warps
  /\ waitingOnBarrier \in SUBSET Warps
  /\ scoreboard \in [Warps -> [Registers -> Nat]]
  /\ lastIssueCycle \in [Warps -> Nat]
  /\ pendingWrites \in SUBSET PendingWrites /\ IsFiniteSet(pendingWrites)
  /\ memoryRequests \in SUBSET MemoryRequests /\ IsFiniteSet(memoryRequests)
  /\ barriers \in [CTAs -> [waitingWarps : SUBSET Warps, expectedWarps : Nat]]
  /\ scheduler \in Schedulers
  /\ busyUntil \in [Pipelines -> Nat]
  /\ cycle \in Nat /\ phase \in {"writeback", "issue"}
  /\ issued \in Nat /\ retired \in Nat

Init ==
  /\ program \in Programs
  /\ warps = [w \in Warps |-> NewWarp(LaunchMask[w])]
  /\ waitingOnGlobalMemory = {} /\ waitingOnBarrier = {}
  /\ scoreboard = [w \in Warps |-> [r \in Registers |-> 0]]
  /\ lastIssueCycle = [w \in Warps |-> 0]
  /\ pendingWrites = {} /\ memoryRequests = {}
  /\ barriers = [c \in CTAs |-> NoBarrier]
  /\ \E policy \in Policies : scheduler = NewScheduler(policy)
  /\ busyUntil = [p \in Pipelines |-> 0]
  /\ cycle = 0 /\ phase = "writeback"
  /\ issued = 0 /\ retired = 0

(* active(): GPU::run goes on while this holds. *)
Active ==
  \/ pendingWrites # {} \/ memoryRequests # {}
  \/ \E w \in Warps : ~ Done(warps[w])

-----------------------------------------------------------------------------
(* The first half of a tick: completePendingWrites, completeMemoryRequests *)
(* and a reconvergence attempt for every warp.                             *)

DueWrites == {p \in pendingWrites : p.readyCycle <= cycle}
DueRequests == {q \in memoryRequests : q.returnCycle <= cycle}

(* What is outstanding for register r of warp w, among some writes and     *)
(* requests: what the scoreboard counts.                                   *)
RegisterWrites(w, r, writes) ==
  {p \in writes : p.kind = "Register" /\ p.warpIndex = w /\ p.dst = r}
Loads(w, r, requests) ==
  {q \in requests : q.isLoad /\ q.warpIndex = w /\ q.dstReg = r}

(* Wrong variants: any release clears the register; the releases of one    *)
(* cycle count once.                                                       *)
releaseAll(count, n) == IF n > 0 THEN 0 ELSE count
releaseOnce(count, n) == IF n > 0 /\ count > 0 THEN count - 1 ELSE count

(* n releases of a counter; a release at 0 does nothing. *)
release(count, n) == IF count > n THEN count - n ELSE 0

(* Wrong variant: the return of a store wakes its warp, too. *)
WokenByAnyRequest == {q.warpIndex : q \in DueRequests}

(* The warps that a returning load stops waiting. *)
WokenWarps == {q.warpIndex : q \in {d \in DueRequests : d.isLoad}}

Writeback ==
  /\ phase = "writeback"
  /\ Active /\ cycle < MaxCycles
  /\ pendingWrites' = pendingWrites \ DueWrites
  /\ memoryRequests' = memoryRequests \ DueRequests
  /\ scoreboard' =
       [w \in Warps |-> [r \in Registers |->
          release(scoreboard[w][r], Cardinality(RegisterWrites(w, r, DueWrites))
                                    + Cardinality(Loads(w, r, DueRequests)))]]
  /\ waitingOnGlobalMemory' = waitingOnGlobalMemory \ WokenWarps
  /\ warps' = [w \in Warps |-> IF Done(warps[w]) THEN warps[w]
                               ELSE tryReconvergeAtCurrentPc(warps[w])]
  /\ retired' = retired + Cardinality(DueWrites) + Cardinality(DueRequests)
  /\ phase' = "issue"
  /\ UNCHANGED <<program, waitingOnBarrier, lastIssueCycle, barriers, scheduler,
                 busyUntil, cycle, issued>>

-----------------------------------------------------------------------------
(* The second half: pick a ready warp and issue its instruction. *)

currentInstruction(w) == program[warps[w].pc + 1]

canRead(w, registers) == \A r \in registers : scoreboard[w][r] = 0

FreePipelines(u) == {p \in Pipelines : p[1] = u /\ busyUntil[p] <= cycle}

functionUnitReady(u) == u = "None" \/ FreePipelines(u) # {}

MemoryQueueFull == Cardinality(memoryRequests) >= MaxOutstanding

(* Wrong variant: the flag waitingOnBarrier is not looked at. *)
ReadyAtBarrier(w) ==
  /\ ~ Done(warps[w])
  /\ w \notin waitingOnGlobalMemory
  /\ warps[w].pc < Len(program)
  /\ LET inst == currentInstruction(w)
     IN  /\ canRead(w, inst.srcs)
         /\ functionUnitReady(unitType(inst))
         /\ inst.op \in GlobalMemoryOps => ~ MemoryQueueFull

(* readiness() = ReadyState::Ready.  A pc past the end of the program is   *)
(* never ready.                                                            *)
Ready(w) ==
  /\ ~ Done(warps[w])
  /\ w \notin waitingOnGlobalMemory
  /\ w \notin waitingOnBarrier
  /\ warps[w].pc < Len(program)
  /\ LET inst == currentInstruction(w)
     IN  /\ canRead(w, inst.srcs)
         /\ functionUnitReady(unitType(inst))
         /\ inst.op \in GlobalMemoryOps => ~ MemoryQueueFull

ReadyWarps == {w \in Warps : Ready(w)}

EndTick == phase' = "writeback" /\ cycle' = cycle + 1

Idle ==
  /\ phase = "issue"
  /\ ReadyWarps = {}
  /\ EndTick
  /\ UNCHANGED <<program, warps, waitingOnGlobalMemory, waitingOnBarrier, scoreboard,
                 lastIssueCycle, pendingWrites, memoryRequests, barriers, scheduler,
                 busyUntil, issued, retired>>

FirstFree(u) ==
  CHOOSE p \in FreePipelines(u) : \A q \in FreePipelines(u) : p[2] <= q[2]

(* Wrong variant: a pipeline is taken until its result is ready. *)
OccupiedForLatency(u) ==
  IF FreePipelines(u) = {} THEN busyUntil
  ELSE [busyUntil EXCEPT ![FirstFree(u)] = cycle + Latency[u]]

(* issueFunctionUnit: the first free pipeline is taken for this cycle. *)
Occupied(u) ==
  IF FreePipelines(u) = {} THEN busyUntil
  ELSE [busyUntil EXCEPT ![FirstFree(u)] = cycle + 1]

(* What is common to issuing any instruction, from w, of a kind in ops. *)
Issues(w, ops) ==
  /\ phase = "issue"
  /\ w \in ReadyWarps
  /\ w = select(scheduler, ReadyWarps, lastIssueCycle, WarpCount)
  /\ currentInstruction(w).op \in ops
  /\ scheduler' = afterSelect(scheduler, w, WarpCount)
  /\ lastIssueCycle' = [lastIssueCycle EXCEPT ![w] = cycle + 1]
  /\ busyUntil' = Occupied(unitType(currentInstruction(w)))
  /\ issued' = issued + 1
  /\ EndTick
  /\ UNCHANGED program

Moves(w, wp) == warps' = [warps EXCEPT ![w] = wp]

NextPc(w) == Moves(w, advancePc(warps[w]))

(* handleBranch and NOP: nothing is outstanding, the instruction retires. *)
RetiresAtIssue ==
  /\ retired' = retired + 1
  /\ UNCHANGED <<waitingOnGlobalMemory, waitingOnBarrier, scoreboard, pendingWrites,
                 memoryRequests, barriers>>

Nop(w) == Issues(w, {"NOP"}) /\ NextPc(w) /\ RetiresAtIssue

Halt(w) ==
  Issues(w, {"HALT"}) /\ Moves(w, haltOrDeferToDivergenceStack(warps[w])) /\ RetiresAtIssue

(* Wrong variant: BRA only jumps. *)
BraJumps(w) ==
  /\ Issues(w, {"BRA"})
  /\ Moves(w, [warps[w] EXCEPT !.pc = currentInstruction(w).target])
  /\ RetiresAtIssue

Bra(w) ==
  Issues(w, {"BRA"}) /\ Moves(w, branch(warps[w], currentInstruction(w).target))
                     /\ RetiresAtIssue

BraPred(w) ==
  /\ Issues(w, {"BRA.P"})
  /\ \E takeMask \in SUBSET warps[w].activeMask :
       Moves(w, branchOnPredicate(warps[w], currentInstruction(w).target, takeMask))
  /\ RetiresAtIssue

reserve(w, r) == scoreboard' = [scoreboard EXCEPT ![w][r] = @ + 1]

queueWrite(w, kind, readyCycle) ==
  pendingWrites' = pendingWrites \cup
    {[id |-> issued, kind |-> kind, warpIndex |-> w, dst |-> currentInstruction(w).dst,
      readyCycle |-> readyCycle, activeMask |-> warps[w].activeMask]}

(* A result is ready a unit's latency after the issue; a unit that cannot  *)
(* issue would give the result at once.                                    *)
ReadyCycle(u) == IF FreePipelines(u) = {} THEN cycle ELSE cycle + Latency[u]

Arithmetic(w) ==
  /\ Issues(w, {"ALU", "MUL"})
  /\ reserve(w, currentInstruction(w).dst)
  /\ queueWrite(w, "Register", ReadyCycle(unitType(currentInstruction(w))))
  /\ NextPc(w)
  /\ UNCHANGED <<waitingOnGlobalMemory, waitingOnBarrier, memoryRequests, barriers, retired>>

Setp(w) ==
  /\ Issues(w, {"SETP"})
  /\ queueWrite(w, "Predicate", ReadyCycle(unitType(currentInstruction(w))))
  /\ NextPc(w)
  /\ UNCHANGED <<waitingOnGlobalMemory, waitingOnBarrier, scoreboard, memoryRequests,
                 barriers, retired>>

(* issueGlobalMemory: each line of the coalesced access hits or misses in  *)
(* the L1 cache, the slowest one counts.                                   *)
GlobalLatencies == {L1HitLatency, L1MissLatency}

queueRequest(w, latency) ==
  LET inst == currentInstruction(w)
  IN  memoryRequests' = memoryRequests \cup
        {[id |-> issued, isLoad |-> inst.op = "LD.GLOBAL", warpIndex |-> w,
          dstReg |-> inst.dst, returnCycle |-> cycle + latency,
          activeMask |-> warps[w].activeMask, array |-> inst.array]}

LoadGlobal(w) ==
  /\ Issues(w, {"LD.GLOBAL"})
  /\ \E latency \in GlobalLatencies : queueRequest(w, latency)
  /\ reserve(w, currentInstruction(w).dst)
  /\ waitingOnGlobalMemory' = waitingOnGlobalMemory \cup {w}
  /\ NextPc(w)
  /\ UNCHANGED <<waitingOnBarrier, pendingWrites, barriers, retired>>

StoreGlobal(w) ==
  /\ Issues(w, {"ST.GLOBAL"})
  /\ \E latency \in GlobalLatencies : queueRequest(w, latency)
  /\ NextPc(w)
  /\ UNCHANGED <<waitingOnGlobalMemory, waitingOnBarrier, scoreboard, pendingWrites,
                 barriers, retired>>

(* issueSharedMemory: shared memory itself is read and written at issue; a *)
(* load's result comes later, by one cycle more for each bank conflict.    *)
LoadShared(w) ==
  /\ Issues(w, {"LD.SHARED"})
  /\ \E conflicts \in 0..MaxBankConflicts :
       queueWrite(w, "Register", cycle + SharedMemoryLatency + conflicts)
  /\ reserve(w, currentInstruction(w).dst)
  /\ NextPc(w)
  /\ UNCHANGED <<waitingOnGlobalMemory, waitingOnBarrier, memoryRequests, barriers, retired>>

StoreShared(w) == Issues(w, {"ST.SHARED"}) /\ NextPc(w) /\ RetiresAtIssue

(* issueBarrier and releaseBarrierIfReady.  How many warps a barrier waits *)
(* for is fixed when the first one arrives.                                *)
warpsOf(c) == {w \in Warps : CtaOf[w] = c /\ ~ Done(warps[w])}

(* Wrong variant: the arriving warp is not counted. *)
otherWarpCountForCTA(c) ==
  LET count == Cardinality(warpsOf(c)) - 1
  IN  IF count <= 0 THEN 1 ELSE count

(* Wrong variant: warps that are done count, too. *)
warpCountForCTA(c) == Cardinality({w \in Warps : CtaOf[w] = c})

activeWarpCountForCTA(c) ==
  LET count == Cardinality(warpsOf(c))
  IN  IF count = 0 THEN 1 ELSE count

Arrival(w) ==
  LET barrier == barriers[CtaOf[w]]
  IN  [waitingWarps |-> barrier.waitingWarps \cup {w},
       expectedWarps |-> IF barrier.expectedWarps = 0
                         THEN activeWarpCountForCTA(CtaOf[w])
                         ELSE barrier.expectedWarps]

(* Wrong variant: one warp too few completes the barrier. *)
CompleteButOne(barrier) == Cardinality(barrier.waitingWarps) + 1 >= barrier.expectedWarps

Complete(barrier) == Cardinality(barrier.waitingWarps) >= barrier.expectedWarps

(* Wrong variants: only the arriving warp is released, or only its         *)
(* instruction retires.                                                    *)
ReleaseLast(w) ==
  /\ waitingOnBarrier' = waitingOnBarrier \ {w}
  /\ retired' = retired + Cardinality(Arrival(w).waitingWarps)
  /\ barriers' = [barriers EXCEPT ![CtaOf[w]] = NoBarrier]

ReleaseRetiresOne(w) ==
  /\ waitingOnBarrier' = waitingOnBarrier \ Arrival(w).waitingWarps
  /\ retired' = retired + 1
  /\ barriers' = [barriers EXCEPT ![CtaOf[w]] = NoBarrier]

(* The arrival of w completes the barrier: all its warps go on. *)
Release(w) ==
  /\ waitingOnBarrier' = waitingOnBarrier \ Arrival(w).waitingWarps
  /\ retired' = retired + Cardinality(Arrival(w).waitingWarps)
  /\ barriers' = [barriers EXCEPT ![CtaOf[w]] = NoBarrier]

Wait(w) ==
  /\ waitingOnBarrier' = waitingOnBarrier \cup {w}
  /\ barriers' = [barriers EXCEPT ![CtaOf[w]] = Arrival(w)]
  /\ UNCHANGED retired

BarSync(w) ==
  /\ Issues(w, {"BAR.SYNC"})
  /\ IF Complete(Arrival(w)) THEN Release(w) ELSE Wait(w)
  /\ NextPc(w)
  /\ UNCHANGED <<waitingOnGlobalMemory, scoreboard, pendingWrites, memoryRequests>>

-----------------------------------------------------------------------------
Issue(w) ==
  \/ Nop(w) \/ Halt(w) \/ Bra(w) \/ BraPred(w)
  \/ Arithmetic(w) \/ Setp(w)
  \/ LoadGlobal(w) \/ StoreGlobal(w) \/ LoadShared(w) \/ StoreShared(w)
  \/ BarSync(w)

Next == Writeback \/ Idle \/ \E w \in Warps : Issue(w)

Spec == Init /\ [][Next]_vars

(* GPU::run keeps ticking while the SM is active. *)
FairSpec == Spec /\ WF_vars(Next)

-----------------------------------------------------------------------------
(* The scoreboard counts exactly what is outstanding: for every register,  *)
(* the write-backs and the global loads that have not landed.  A count     *)
(* lost or left over would let a warp read too early, or stop it for ever. *)
ScoreboardExact ==
  \A w \in Warps, r \in Registers :
    scoreboard[w][r] = Cardinality(RegisterWrites(w, r, pendingWrites))
                       + Cardinality(Loads(w, r, memoryRequests))

(* A warp waits on global memory exactly while a load of its is            *)
(* outstanding, and there is only one: otherwise the first of two loads to *)
(* return would release the warp (completeMemoryRequests clears a flag,    *)
(* not a count), or no load would.                                         *)
LoadsOf(w) == {q \in memoryRequests : q.isLoad /\ q.warpIndex = w}

LoadHoldsWarp ==
  \A w \in Warps :
    Cardinality(LoadsOf(w)) = IF w \in waitingOnGlobalMemory THEN 1 ELSE 0

(* A warp waits at a barrier exactly if its CTA's barrier has registered   *)
(* it (the invariant checker's barrier_wait_registered), and no barrier    *)
(* stays unreleased with everyone it expects arrived.                      *)
BarrierRegistered ==
  \A c \in CTAs :
    /\ barriers[c].waitingWarps = {w \in waitingOnBarrier : CtaOf[w] = c}
    /\ barriers[c] = NoBarrier \/ ~ Complete(barriers[c])

(* Every instruction issued is retired, in a queue, or held at a barrier;  *)
(* none is retired twice: the counters behind the reported IPC agree.      *)
InstructionsAccounted ==
  issued = retired + Cardinality(pendingWrites) + Cardinality(memoryRequests)
           + Cardinality(waitingOnBarrier)

(* Predicates have no scoreboard: that no branch, vote or ballot reads a   *)
(* stale one rests on every predicate write landing before the next issue. *)
PredicatesSettled ==
  phase = "issue" => \A p \in pendingWrites : p.kind # "Predicate"

(* A unit with a pipeline is never busy when an instruction could issue    *)
(* (ReadyState::FunctionalUnitBusy does not occur in a run): pipelines are *)
(* taken for one cycle, and one instruction issues per cycle.              *)
PipelinesFree ==
  phase = "issue" => \A u \in Units : PipelineCount[u] > 0 => functionUnitReady(u)

(* A warp that is done waits for nothing: it cannot be a warp that a       *)
(* barrier still counts on, or that a load still has to wake.              *)
DoneWaitsForNothing ==
  \A w \in Warps :
    Done(warps[w]) => w \notin waitingOnGlobalMemory /\ w \notin waitingOnBarrier

(* The kernel ends within the cycle limit: GPU::run does not throw. *)
RunCompletes == <>(~ Active)

-----------------------------------------------------------------------------
(* Each warp of the SM is a SimtWarp.  What that module shows of one warp  *)
(* under any scheduler holds here.                                         *)
Simt(w) == INSTANCE SimtWarp WITH
             warp <- warps[w], LaunchMasks <- {LaunchMask[w]}, Exited <- NoPc

(* Whatever the scheduler, the barriers and the memory system do, each     *)
(* warp only moves as its own instructions, masks and stack say, and a     *)
(* warp that is not picked does not move.                                  *)
WarpsAreSimt ==
  /\ \A w \in Warps : Simt(w)!Init
  /\ [][\A w \in Warps : [Simt(w)!Next]_(Simt(w)!vars)]_vars
=============================================================================
