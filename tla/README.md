# A TLA+ model of the SIMT GPU emulator

The emulator (`src/src`, `src/include`) executes kernels of a small GPU assembly
language cycle by cycle: streaming multiprocessors (SMs) run warps of lanes with
active masks, a divergence stack, a scoreboard, a scheduler, barriers and a
memory system with latency. Beside it stands a scalar interpreter,
`ReferenceGPU`, that the differential test compares its final state with.

The emulator is one thread, so nothing interleaves in the C++ sense. What makes
it hard is what it simulates: warps that make progress in an order the scheduler
and the latencies decide, results that land cycles after their instruction, lanes
that part and rejoin, and warps that wait for each other.

## Inventory

| Component | State | Operations | What makes it correct |
|---|---|---|---|
| Warp, divergence stack (`warp`, `divergence_stack`, `handleBranch` of `sm.cpp`) | pc, active mask, halted, stack of entries | reconverge, HALT, BRA, BRA.P, advance | every lane follows the program as if alone; no lane lost, doubled or stranded; the stack stays bounded |
| Streaming multiprocessor (`sm`) | warps, write-backs and memory requests under way, barriers, waiting flags | `tick`: complete, reconverge, pick, issue | results reach registers and memory in program order; who waits is woken; every instruction retires once; the run ends |
| Scoreboard | per register a count of writes under way | `canRead`, `reserve`, `release` | counts exactly what is under way |
| Functional units | per pipeline the cycle until which it is taken | `canIssue`, `issue` | one issue per pipeline and cycle |
| Warp scheduler | policy, round-robin cursor, greedy warp | `select` | chooses a ready warp; passes none over for ever (greedy apart) |
| Barriers (in `sm`) | per CTA the warps arrived and expected | `issueBarrier`, `releaseBarrierIfReady` | no warp runs ahead of another of its CTA by a barrier |
| GPU (`gpu`) | SMs, global memory, cycle | `loadProgram`, `configureLaunchWarps`, `run`; again for a further kernel | threads of the grid run exactly once and are told apart from spare warps; a kernel does not see the one before; the run ends, or has a reason not to |
| L1 cache, coalescer, shared memory, global memory | lines and ages; bytes | `access`, `coalesce`, `analyzeAccess`, read, write | a hit is a line accessed before and not evicted; each active lane in exactly one transaction; latency only, no effect on values |
| Reference interpreter | per thread registers, predicates, pc | `executeThread` | is the specification of a thread |
| Parser, command line (`parser`, `isa`, `main`) | lines read, labels, branches to link | `parseText`, `parseInstruction` | a branch goes where its label stands; all readers of an instruction agree on its registers; what is ill formed is refused |
| Occupancy | none | `calculateOccupancy` | the reported CTAs fit and one more does not; the named resource is used up |
| Invariant checker | none | `check` | silent on every run that ends |
| Configuration, statistics, trace, tools | | | input and output |

An SM reads its program, owns everything in the table down to the barriers, and
touches global memory only in `completeMemoryRequests`; the GPU ticks its SMs one
after another in each cycle. SMs share nothing else.

The behaviours that are hard to test, with their lines and the properties that
cover them, are the `hazards` of PROJECT.json.

## Modules

Indented modules extend the one above them; "in" and "refines" say how the others
meet.

    Instruction, Warp
      SimtWarp                    refines ScalarThreads (where it does)
      StreamingMultiprocessor     refines SimtWarp, per warp; WarpScheduler is in it
        InvariantChecker
        BarrierOrder
        ProgramOrder
          Relaunch
    WarpScheduler
      SchedulerFairness
    L1DataCache, MemoryCoalescer, SharedMemory
      MemoryAccess
    Instruction                   Occupancy
      Parser                        Launch
        CommandLine, which extends both

* **Instruction**: decoded instructions, as far as the pipeline looks at them. The
  36 opcodes are twelve kinds; opcodes that `sm.cpp` treats alike except for the
  value they compute are one kind.
* **Warp**: the control state of a warp and the operations on it as operators from
  state to state, named as in the code. `hasReconvergePc = false` is a
  `reconvergePc` of `NoPc`.
* **ScalarThreads**: the abstract specification, from the reference interpreter:
  each lane has a pc and follows the program.
* **SimtWarp**: one warp, ticked in two steps (reconverge, then issue or not).
  Every reason not to issue is the action `Stall`. The refinement mapping `LanePc`
  says where the stack has each lane's thread.
* **WarpScheduler**: `select` and what it leaves behind. **SchedulerFairness** runs
  it against any pattern of readiness.
* **StreamingMultiprocessor**: a whole SM. A tick is `Writeback` (write-backs, memory
  returns, reconvergence) followed by one of the issue actions, one per kind of
  instruction, or `Idle`. The split into two steps is for reading only: nothing
  else happens in between. The vectors of write-backs and requests are sets of
  records that carry the number of their instruction, which is their order in
  the vector; completing all that is due is one step, as the order matters only
  to data, and ProgramOrder keeps it there.
* **ProgramOrder** adds data: `registers` and `memory` as the code changes them, and
  what they would be if each instruction took effect when it issues. A value is
  the number of the instruction that produced it. `LandsInOrder` says of what is under
  way that results for one register, and accesses to one word, come in the order of
  issue; `RequestsReturnInOrder` is its half about words.
* **Relaunch** puts one kernel after another on an SM: `setWarps` between two runs, each
  of which may have been cut off by its cycle limit with results in flight.
* **BarrierOrder** adds a history: arrivals at barriers, and the warps that end while
  a barrier stands.
* **InvariantChecker** has the checker's rules as operators on the state of an SM, and
  what a run that ends must leave.
* **Parser** reads a text line by line, then links its branches, as `parseText` does,
  and says what the pipeline and the occupancy report read off an instruction. Its
  last property, `RegistersAgree`, shows that a parsed program is one of the
  `Instructions` that the other modules run.
* **Occupancy** is the report's arithmetic. **Launch** places warps one after another, as
  the loops of `configureLaunchWarps` do, and states what the differential test
  assumes of them. **CommandLine** runs the parser and then the launch, as `main` does.
* **L1DataCache**, **MemoryCoalescer**, **SharedMemory**: the functions that decide
  how long an access takes, as operators. **MemoryAccess** composes them as
  `issueGlobalMemory` and `issueSharedMemory` do, one access after another; each round
  of their loops, over the transactions of a global access and over the banks, is a
  step. A history keeps the lines used. StreamingMultiprocessor leaves hits and conflicts
  free instead: an access has the hit or the miss latency, or fewer conflicts than
  lanes. MemoryAccess shows that these are the values there are
  (`SlowestLineDecides`, `ConflictsAreExtraWords`), so what holds of the SM holds with
  the cache and the banks in place, whatever addresses the kernel computes.
* **MC...** modules hold texts, kernels, launches and accesses for TLC. **WarpLemmas** and the
  **...Proofs** modules hold the proofs.

Operators under a comment "Wrong variant" are not part of the model. Each is a
plausible bug; put in the place of the operator that follows it, it must make TLC
report the property that PROJECT.json's `mutants` names.

### What is abstracted

Values: register and memory contents, so the lanes that take a BRA.P are any
subset of the active ones. In the SM, an access hits or misses as it likes, a shared
access has any number of conflicts up to a bound, and addresses are names of arrays;
in MemoryAccess addresses are numbers and there is no pipeline. What a
warp does in an exception (an address out of range) is not modelled. One SM: when
another SM keeps the GPU running, this one ticks on with nothing to do, which
changes nothing but the cycle. Stores of several SMs or warps to one word are left
out: arrays belong to a warp. In Parser a line is a label, a mnemonic and operands;
the characters of numbers, comments and letter case are left out, and register
numbers are ones a lane has. In Relaunch, values are numbered within a run, so what
memory holds is the initial value of the next. Coalescer and cache have one line size, as the
configuration file and the command line give them (`config.cpp:144`, `main.cpp:104`).
Byte counts and other statistics that nothing reads are left out.

## Runs

All bounds are CONSTANTS of the cfg files. `MaxCycles` is the limit that
`GPU::run` is given; in the runs of an SM it is above what any behaviour needs,
except in `barrier_order`, where a kernel loops.

| Run | Question | Instance |
|---|---|---|
| `simt_any_program` | Is the divergence stack sound whatever the program (`LanesOnOnePath`, `ActiveUntilDone`, `StackBounded`)? Is a HALT under a resolved entry the only step that moves a lane as its thread would not (`OnlyHaltMisplaces`)? | every program of up to 3 instructions over NOP, HALT, BRA, BRA.P; 3 lanes, full and tail masks; lanes symmetric |
| `simt_threads` | Does SIMT execution implement scalar threads (`ThreadsSpec`), and does a kernel without backward jumps end (`ForwardFinishes`)? | every program of up to 4 instructions over NOP, HALT, BRA.P; every structured one of 4; two larger ones; a loop |
| `simt_nested` | The same, for a shape it fails on | an if/else in the taken arm of another |
| `scheduler_fairness` | Does a ready warp get its turn? `BoundedWaiting` | 3 warps, 4 policies, 9 cycles of any readiness |
| `sm_runs` | Is the bookkeeping exact (`ScoreboardExact`, `LoadHoldsWarp`, `InstructionsAccounted`, `PredicatesSettled`, `PipelinesFree`, `DoneWaitsForNothing`)? Is each warp a SimtWarp (`WarpsAreSimt`)? Does the run end (`RunCompletes`), and cleanly (`EndsClean`)? | 3 warps in 2 CTAs, one with a tail mask, queue of 2; kernels with all kinds, results that overtake each other, full queues, two barriers; all policies |
| `order_kept` | Is program order kept where results land in order (`LandsInOrder`, `RegistersInOrder`, `MemoryInOrder`), also by later kernels on an SM? Are those delayed only for a time (`BusyFromEarlierRuns`)? | kernels that use a slow result before overwriting it; equal hit and miss latency; three kernels, each of the first two ended or cut off at cycle 5 or 14 |
| `order_bank_conflicts`, `order_store` | Where it is not | one kernel each |
| `barrier_order` | Are waiting warps those registered (`BarrierRegistered`)? Does a barrier expect who runs and who ended since (`BarrierCountsExactly`), and hold everyone (`NoOvertaking`)? Has a run that gets stuck a reason (`StuckIsExplained`)? | 4 warps in 2 CTAs; split arrival, early exit, a kernel without HALT at its end, a unit without pipelines, a loop; 18 cycles |
| `memory_access` | Does the cache hit what was used recently (`HitsAreRecentUses`) and the slowest line decide (`SlowestLineDecides`)? Is each active lane in one transaction (`EachLaneServedOnce`)? Do only distinct words of a bank conflict (`ConflictsAreExtraWords`)? | 3 lanes, 4 words on 3 lines, all masks; six cache geometries; 5 lines |
| `launch` | Is a text accepted exactly if it should be (`AcceptedIfWellFormed`), are branches linked (`BranchesGoToLabels`) and registers agreed on (`RegistersAgree`)? Is each thread on one lane (`ThreadsLaunchedOnce`), are warps numbered as in the reference (`WarpsNumbered`) and spare warps told apart (`SparesNotCompared`)? Is the occupancy report right (`OccupancyIsMost`, `OccupancyLimitBinds`)? | all texts of up to 4 of 7 lines, ill-formed lines, all 36 mnemonics; some 5,000 configurations of up to 3 SMs, 3 lanes, 4 CTAs and 5 threads, zeros included |
| `launch_tail` | Has a lane that is compared with a thread run it? | 2 CTAs of 5 threads on warps of 4 lanes |

Three lanes are the least with which one path parts again while another waits and
both have still to rejoin: the stack then holds two entries, of either kind. Four
instructions hold two branches, a join and a HALT. Three warps are the least with
which two wait at a barrier while the third is between, or a third is passed over;
two registers, one that is written twice and one that reads it. 9 cycles of
`scheduler_fairness` are more than two rounds. Three lines fight for two ways or one
set; of five accesses the last tells a set that drops the line unused longest from
one that drops the oldest. Four lines hold two definitions of a label with a branch
before, between or after them. Three SMs with 1, 2 and 4 CTAs have a spare warp, two,
none, and one SM with two CTAs; blocks of 0 to 5 threads end in full and in partial
warps. Cycle 5 cuts a kernel off with loads and write-backs in flight, 14 with its
stores. Shared memory is accessed only while at most one line
has been (`MaxUsedShared`): its banks do not depend on the cache. Lanes are
interchangeable to coalescer and banks, so accesses differ as multisets of lanes.

Deadlock is not checked: a warp that is done, an SM that is inactive or has
reached the cycle limit stops, and so do bounded histories.

### Fairness

`SimtWarp!FairSpec`: the SM keeps ticking (weak fairness of Next; `GPU::run` is a
loop) and its scheduler picks the warp again and again (strong fairness of Issue).
The second is an assumption on the rest of the SM: `WaitingIsBounded` proves it
for every policy but GreedyThenOldest, and for that one as long as its greedy warp
does not stay ready for ever. A warp whose program has no backward jump, which is
what `ForwardFinishes` asks of, issues only finitely often, so it cannot.
`StreamingMultiprocessor!FairSpec` needs only that the loop of `GPU::run` goes on:
the scheduler is in the model.

### What the runs found

Each was reproduced with the emulator itself (`--diff` reports the mismatch).

* `simt_nested`: `handleBranch` resolves whatever unresolved entry is on top. In
  `if a {if b {..} else {..}} else {..}` with b uniform over the lanes of a, the BRA
  of the inner arm is taken for the end of the outer taken path, and its lanes wait
  at the inner join. The other lanes never come there: they run to the outer join and on
  to the HALT, which finds the resolved entry on top, drops the lanes that wait and
  sends those that halted back to `deferredPc`. By `HaltAloneMisplaces` it is
  always such a HALT, and by `HaltBeforeJoinLosesLanes` this is always what it does.
  Two more shapes come to one in other ways; give `simt_nested.cfg` the programs
  `ElseIfPrograms` (two entries with one reconvergence pc need two ticks to be
  popped, and the join instruction issues after the first with part of the lanes,
  which are past the join before the others are released) or `ReturnPrograms` (an
  arm that halts instead of joining).
* `order_bank_conflicts`: `readiness` asks the scoreboard for sources only, so two
  writes to one register land in the order of their latencies.
* `order_store`: a store takes effect when its request returns, and a later load of
  the same warp that hits overtakes it. Two stores to one word do the same; give
  `order_store.cfg` the programs `RestoreKernels` and the property `MemoryInOrder`.
* `launch_tail`: `runGpuDifferentialTest` compares every lane whose `globalThreadId` is
  below the number of threads. The inactive lanes of a CTA's last warp have the
  numbers of the next CTA's first threads, so a correct kernel is reported as FAIL
  (`--lanes 4 --block 5 --grid 2 --diff` with a MOV.GTID is enough).

Found while modelling, without a run of their own:

* With fewer CTAs than SMs, each SM left over runs the kernel in a spare warp as a CTA
  outside the grid. `ThreadsLaunchedOnce` says exactly where these warps are, and
  `SparesNotCompared` that their registers are not taken for a thread's; but what they
  store is compared with the reference's memory, which has no such threads
  (`--grid 1 --sms 2` with a store indexed by MOV.CTAID reports FAIL).
* A second kernel finds `busyUntil` of the first one's pipelines while cycles start at 0
  again, and waits for a unit that is free. `BusyFromEarlierRuns` bounds the delay by
  the length of the longest run before; that of the last one would not do, as a
  short run leaves the mark of a longer one before it. `main` launches one kernel
  per GPU.
* `.kernel` without a name is accepted: the name is "unnamed" from the start and
  extraction at the end of a line leaves it, so the exception of `parser.cpp:130` is
  never thrown. `BRA ,` has an empty label, is not linked (`parser.cpp:149`) and jumps to
  the first instruction. Module Parser has both.
* `Scoreboard::pendingRegisters` returns the counts of writes, which the invariant checker
  and the scoreboard dump take for register numbers (`invariant_checker.cpp:81`). After
  a run they are 0, so the rule can report nothing.
* The checker's rule on the depth of the stack can be exceeded in the middle of a run,
  by a loop that its lanes leave one by one; when a run ends the stacks are empty
  (`EndsClean`).
* The resource that the occupancy report names limits the warps; whole CTAs may be
  limited earlier, and their number can be 0 beside active warps.

## Proofs

All theorems are checked by TLAPS for every value of the constants that satisfies
the named assumptions (finite set of lanes; a nonempty launch mask; programs are
sequences of instructions as the parser makes them; latencies and counts are
naturals). The properties they state are checked by the runs on small instances as well.

**SimtWarpProofs**, for every program and number of lanes:
`SimtWarpTypeCorrect`, `LanesStayOnOnePath`, `ActiveLanesUntilDone` and
`DivergenceStackBounded` (fewer entries than lanes).
The invariant is `Sound`: the two halves of `LanesOnOnePath` together with the
nonemptiness of what each entry holds. Alone none is inductive: popping an entry
activates what it claims, and only because what the other entries hold is apart
from that (`EntriesApart`) is the new active mask apart from them (`ActiveApart`).
The bound then follows without induction on the stack: choosing for each entry a
lane that it holds is an injection of the stack's indices into the lanes that are
not active, and some lane is active.

Then the refinement of ScalarThreads. `HaltAloneMisplaces` proves the action property
`OnlyHaltMisplaces` for every program: whatever BRA resolves whatever entry, each step
other than a HALT under a resolved entry moves every lane as its thread moves, or
not at all. The reason is where `LanePc` puts the lanes of an entry: those of a
resolved one wait at its join, where a pop finds them, and each operation moves the
active lanes only (`HaltMoves`, `BranchOnPredicateMoves`, `SetPcMoves`): a pop shifts the
entries below it, a push those above it, and no lane changes its place.
`HaltBeforeJoinLosesLanes` says what the one exception does; that an entry's two halves
are apart (`MasksApart`, an invariant) makes it a loss and not a change of name.
Hence `ThreadsFollow`: SimtWarp implements ScalarThreads in every behaviour without
such a HALT. Three conditions exclude it:

* `ThreadsFollowTogether`: no BRA issues while the lanes are split.
* `BranchFreeThreadsFollow`: the program has no BRA. No kernel of the repository has one.
* `StructuredThreadsFollow`: the program is `Structured`: if/elses whose taken arms are
  straight, nested in the deferred arms to any depth, each with a join of its own
  and HALT outside. The invariant `Placed` says that each entry of the stack belongs
  to a branch of the program, that the active lanes are in the taken arm of the
  topmost while it is unresolved and between its branch and its join afterwards, and
  that each entry below is resolved and has the branch of the one above inside.
  So the BRA that resolves an entry is the one that ends its own arm, and the joins are met one after the other.

Outside of these the claim can be false (`simt_nested`). The programs of `simt_threads`
are all of these shapes, so the run is the small instance of the last two theorems.

**StreamingMultiprocessorProofs**: `SMTypeCorrect`, one lemma for what is common to all
issues and one case per kind of instruction; and `WarpsAreSimtWarps`: each warp of an
SM implements SimtWarp, step by step. So the theorems of SimtWarpProofs hold of the
warps of an SM: `EveryWarpIsSound` and `EveryThreadFollows` say so, of the warp
`TheWarp`. It is a constant, any number of a warp, since the prover cannot cite a
theorem of an instance that has a parameter; `One` is SimtWarpProofs of that warp.
`EveryThreadFollows` is the result about threads: with kernels that are structured or have no
BRA, each lane of an SM follows its kernel as the reference interpreter's
thread does, whatever the policy, the latencies, the barriers and the other warps.

The module goes on to the bookkeeping: `ScoreboardCountsExactly`, `LoadsHoldTheirWarp`,
`PipelinesStayFree`, `PredicatesAreSettled`. They rest on `Numbered`: what is queued
carries numbers below `issued`, so a record that is queued is a new one and raises a count by one, and on
finite sets: completing what is due splits a set in two. From exactness it follows
that `Scoreboard::release` never meets a count of zero. `LoadsHoldTheirWarp` is proved
as `OneLoad`, which says the same without cardinalities: a warp waits exactly if it
has a load queued, and any two loads of it are one; a second cannot be queued, as a
warp that waits is not ready.

**BarrierProofs**: `DoneWarpsDoNotWait`, `BarriersAreRegistered`, `InstructionsAreAccounted`,
`BarriersCountExactly`, `NobodyOvertakes`, `StuckRunsAreExplained` and `RunsEndClean`.
The chain: a warp that is done stays done (`HaltedIsDone`: HALT with an empty
stack); it does not wait, so who is registered can still run; a barrier expects, from its first arrival, the warps that
run and those that have ended since; hence when as many have arrived as it expects,
those are all that run (`CompleteMeansAll`, by cardinality), and releasing them leaves
all with one number of barriers passed. `StuckRunsAreExplained` excludes every other
reason to wait: with nothing under way the scoreboard is clear, no warp waits for a
load and the queue is empty, so a warp that is not ready waits at a barrier or is
starved; and a barrier that stands lacks a warp that ended, or one that runs, which
again is not ready. `RunsEndClean` collects the invariants at the end of a run.

**ProgramOrderProofs**, over any number of kernels that follow each other on an SM:

* `RegistersFollowProgramOrder` and `MemoryFollowsProgramOrder`: as long as results land
  in the order of issue (`LandsInOrder`, for memory `RequestsReturnInOrder`), registers
  and memory are those of program order. The hypothesis is about latencies only, and
  kernels that break it exist, one for each half: they are the findings
  `order_bank_conflicts` and `order_store`. So nothing but results that land out of
  order reorders effects in this pipeline. `order_kept` checks that its kernels meet
  `LandsInOrder`, so that the theorems say something of them.
* `MemoryInOrderWithoutCache`, without a hypothesis on the run: where a hit takes as long
  as a miss, memory is always that of program order.
* `InterlocksOrderResults`, `InterlocksKeepProgramOrder`: a condition on the issuing
  instruction instead of a hypothesis on what lands. Where none issues over an outstanding
  write to its register by one of its lanes (`IssuesOverWrite`), nor a global access over an
  outstanding one to its word, two loads apart (`IssuesOverAccess`), results land in
  order, registers and memory are those of program order, and a run that ends leaves
  exactly what its instructions in their order would (`Agrees`). These are the two checks that
  `readiness` lacks. Each has its own consequence: `AccessInterlockKeepsMemory`, and, where a hit
  takes as long as a miss, `WriteInterlockKeepsRegisters`. By `ScoreboardSeesHazards` the first
  could be made with the scoreboard as it is: it counts the write in
  every such case. For the second nothing in the code keeps track. The kernel
  `ArmsOverwrite` of `order_kept` meets both conditions; the others of that run keep order
  because latencies do.
* `RelaunchStaysExact`: the scoreboard, the waiting warps and the predicates stay exact
  across `setWarps`, in whatever state a run at its cycle limit was left.
* `BusyOnlyFromEarlierRuns`, the bound on what a pipeline's `busyUntil` holds back.

The invariant says what will be: once the stores under way have returned, each word has
the value of program order (`MemoryWillBe`), and once all that is under way has landed,
each register of a lane (`RegistersWillBe`); a load under way counts with what it will
find. A tick applies all that is due, and as results land in order, what stays queued is
younger than what is applied (`LandingKeepsMemory`, `LandingKeepsRegisters`). When nothing
is under way for a register, what will be is what is (`DueMeansInOrder`). The latest of
some records exists as their numbers are bounded (`LatestExists`).
For the interlocks the invariant is that a register of a lane has at most one
outstanding write (`OneWriter`) and a word of a warp one store or only loads
(`OneAccess`), from which the order of issue follows.
`ArraysAssumption` says that every global access is to
an array of the model.

**MemoryAccessProofs**, for every cache geometry, number of lanes, number of banks and
sequence of accesses: `HitsTellRecentUses`, `SlowestLineDecidesTheLatency`,
`LanesAreServedOnce` and `ConflictsCountExtraWords`. The invariant of the cache is
`LeastRecentlyUsed`: a valid entry is the last use of its line (`EntriesAreLastUses`), two
of a set hold different lines (`EntriesDiffer`), and a line that no entry of its set holds
has been overtaken: all ways of the set are valid and hold later uses (`LatestAreHeld`).
From it a hit is a line since whose last use fewer other lines of its set were used than
the set has ways: the ways inject into those lines when it is gone, and those lines
into the ways when it is held. `TransactionsMade` ties the lines left to make to those
of the active lanes, `LatencySoFar` the latency to the lines made, `ConflictsCounted` the
conflicts to the words beyond the first of each bank examined; the sum over banks is
a cardinality, added to by one bank per step.

**CommandLineProofs**: `LaunchTypeCorrect`, `ThreadsAreLaunchedOnce`, `WarpsAreNumbered` and
`SparesAreNotCompared`, for every number of SMs and every grid, block and warp width;
`ReportedCTAsAreMost` and `OccupancyReportsMost`, the reported number of CTAs, and
`NamedLimitBinds` and `OccupancyNamesTheLimit`, the resource named as its limit, for
every configuration and register count. The invariant relates the two loop
counters to what has been placed: every warp so far is the one of its CTA and place,
on the SM of its CTA and numbered by CTA and place, and spare warps come after all of
them (`Progress`, `Placement`, `Numbering`). That a thread has one lane is division with
remainder (`DivMod`, `UniqueQuotient`); that the report is a maximum, that the least of
three quotients is a quotient (`QuotientIsMost`, `LeastFactor`); and the named limit
is exceeded because the number of warps is the quotient of the resource named.

The same module proves of the parser, for every text, `TextsAcceptedIfWellFormed`,
`BranchesAreLinked` and `RegistersAreAgreed`, and that a run up to its first cycle is a run
of the parser and a run of the launch (`RunsParseAndLaunch`), so the results about each
hold of `main`. The invariant, `ParserInv`, relates the state to the lines read so far:
as many instructions as lines with one, each made of its line and in its place
(`ReadSoFar`; `CountNext` and `CountGrows` are the counting), each label standing for the
instruction after its last definition (`LabelsDefined`), each branch linked or on the
list (`BranchesKept`), and no line accepted that is ill formed. A branch that cannot be
linked then names a label that no line defines. That the readers of an instruction
agree is a case split over the 36 mnemonics (`SyntaxIs`: which operands each has), made
once and used for sources, destination and the occupancy scan alike
(`NamedRegisters`, `DecodedRegisters`).

**SchedulerProofs**: `WaitingIsBounded`. `TurnsLeft` says for each policy how many turns
may yet go to others before a warp has its own: the distance from the cursor for
RoundRobin, for the policies by age the number of older warps, which only shrinks.
Turns lost and turns left are together less than the number of warps.

Every safety invariant and action property that a passing run checks is stated by a
theorem. `LandsInOrder`, and with it `RegistersInOrder` and `MemoryInOrder`, hold of some
kernels only (the findings are the others), so their theorems have a hypothesis: on the
order in which results land, on latencies, or on what instructions issue over.
`ThreadsSpec` is proved for kernels that are structured or have no BRA, and of the others up
to the one step that breaks it. Everything under fairness (`ForwardFinishes`, `RunCompletes`) is
only model-checked: liveness is beyond the prover.

## Not modelled

* What instructions compute, and predicates with values: the final state of SM and
  reference is compared by order of effects (ProgramOrder), not by value.
* Shared memory as several CTAs of an SM see it: it belongs to the SM, and the
  reference has one for each thread, so there is no promise to hold it against.
* Stores of different warps or SMs to one word: the emulator and the reference order
  them differently by design.
* Exceptions in the middle of a tick (an address, register or predicate out of
  range): they end the program.
* Bounds of addresses in the invariant checker, as addresses are names.
* `config.cpp` and the options of `main.cpp` (text), `stats`, `trace`, the dumps, tools and
  viewer (output). `globalMemoryLatency` is read from the configuration but by nothing
  else: the miss latency is what a global access takes.

## Plan

Done, in this order: warps and their stack; scheduler; the whole SM; accounting and
barriers with their proofs; memory access timing; a second kernel; the launch on
several SMs and the occupancy report, with proofs; parser and command line; program
order, the cache and the parser as theorems; the refinement of SimtWarp to
ScalarThreads up to the one step that breaks it, for structured kernels and for the warps
of an SM; program order from conditions at issue.

What could follow:

1. More shapes as theorems: if/elses within loops that jump back with BRA, HALT in an arm
   with nothing resolved below it.
2. Predicates with values, and the differential test on small kernels.
3. Bounds on the length of a run, which would bring part of `RunCompletes` within reach of
   the prover as safety.
