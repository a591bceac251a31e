------------------------------ MODULE SimtWarp ------------------------------
(***************************************************************************)
(* One warp as its streaming multiprocessor drives it.  A tick is two      *)
(* steps: the warp gets one chance to reconverge, and then, if it is the   *)
(* warp the scheduler picks, issues the instruction at its pc.  Everything *)
(* that can keep a warp from being picked (the scoreboard, a load, a       *)
(* barrier, the other warps) is the action Stall.  The scheduler is free   *)
(* here; module StreamingMultiprocessor, which has it, implements this one *)
(* for each of its warps.                                                  *)
(***************************************************************************)
EXTENDS Instruction, Warp, FiniteSets

CONSTANTS
  Lanes,         \* the lanes of the warp
  Programs,      \* the programs it may be given
  LaunchMasks,   \* the masks of lanes it may be launched with
  Exited         \* where a lane whose thread has ended is

ASSUME LanesAssumption == IsFiniteSet(Lanes) /\ Lanes # {}
ASSUME LaunchAssumption == LaunchMasks \subseteq (SUBSET Lanes) \ {{}}
ASSUME ProgramAssumption == Programs \subseteq Seq(Instructions)
ASSUME ExitedAssumption == Exited \notin Nat

VARIABLES
  program,
  warp,
  phase       \* the next step of the tick: "writeback" or "issue"

vars == <<program, warp, phase>>

TypeOK ==
  /\ program \in Programs
  /\ warp \in WarpStates(Lanes)
  /\ phase \in {"writeback", "issue"}

Init ==
  /\ program \in Programs
  /\ \E mask \in LaunchMasks : warp = NewWarp(mask)
  /\ phase = "writeback"

-----------------------------------------------------------------------------
(* The first half of a tick: tryReconvergeAtCurrentPc, once. *)
Reconverge ==
  /\ phase = "writeback"
  /\ warp' = IF Done(warp) THEN warp ELSE tryReconvergeAtCurrentPc(warp)
  /\ phase' = "issue"
  /\ UNCHANGED program

(* The second half: the warp is not picked, or issues its instruction. *)
Stall ==
  /\ phase = "issue"
  /\ phase' = "writeback"
  /\ UNCHANGED <<program, warp>>

Issues(op) ==
  /\ phase = "issue"
  /\ ~ Done(warp)
  /\ warp.pc < Len(program)
  /\ program[warp.pc + 1].op = op
  /\ phase' = "writeback"
  /\ UNCHANGED program

Target == program[warp.pc + 1].target

Halt == Issues("HALT") /\ warp' = haltOrDeferToDivergenceStack(warp)

Bra == Issues("BRA") /\ warp' = branch(warp, Target)

(* The predicates are data, so any of the active lanes may take the branch *)
BraPred ==
  /\ Issues("BRA.P")
  /\ \E takeMask \in SUBSET warp.activeMask :
       warp' = branchOnPredicate(warp, Target, takeMask)

(* Every other instruction advances the pc. *)
Sequential ==
  \E op \in Opcodes \ {"HALT", "BRA", "BRA.P"} :
    Issues(op) /\ warp' = advancePc(warp)

Issue == Halt \/ Bra \/ BraPred \/ Sequential

Next == Reconverge \/ Stall \/ Issue

Spec == Init /\ [][Next]_vars

(* The SM keeps ticking, and its scheduler does not pass over for ever a   *)
(* warp that is ready again and again.                                     *)
FairSpec == Spec /\ WF_vars(Next) /\ SF_vars(Issue)

-----------------------------------------------------------------------------
(* The lanes an entry holds back: those that will be active again when it  *)
(* is popped (by HALT if it is unresolved, at its reconvergence point if   *)
(* it is resolved).                                                        *)
Held(entry) == IF hasReconvergePc(entry) THEN entry.completedMask ELSE entry.deferredMask

(* What popping an entry can activate, whichever way it is popped. *)
Claimed(entry) == entry.deferredMask \cup entry.completedMask

ActiveApart(wp) ==
  \A i \in DOMAIN wp.stack : wp.activeMask \cap Held(wp.stack[i]) = {}

EntriesApart(wp) ==
  \A i, j \in DOMAIN wp.stack :
    i < j => Claimed(wp.stack[i]) \cap Held(wp.stack[j]) = {}

(* No lane is on two paths at once: not both executing and held back by an *)
(* entry, and not held by two entries.  So no instruction is executed for  *)
(* a lane by two paths, whatever the program (handleBranch splits,         *)
(* resolves, swaps and pops the masks in five places).                     *)
LanesOnOnePath == ActiveApart(warp) /\ EntriesApart(warp)

(* A warp is never left running with an empty mask, nor halted with lanes  *)
(* still to run: it has an active lane exactly until it is done, and every *)
(* path on the stack has lanes to resume.                                  *)
ActiveUntilDone ==
  /\ IF warp.halted THEN warp.activeMask = {} /\ warp.stack = << >>
                    ELSE warp.activeMask # {}
  /\ \A i \in DOMAIN warp.stack : Held(warp.stack[i]) # {}

(* The stack cannot grow beyond one entry per waiting lane, even in a loop *)
(* that diverges again and again: the vector behind it is never bounded by *)
(* the code.                                                               *)
StackBounded == Len(warp.stack) < Cardinality(Lanes)

-----------------------------------------------------------------------------
(* The refinement to ScalarThreads: the thread of an active lane is at the *)
(* warp's pc, that of a deferred lane at the entry's deferredPc, that of a *)
(* lane which has completed its path at the reconvergence point.           *)
Waits(lane, i) == lane \in Held(warp.stack[i])

LanePc(lane) ==
  IF lane \in warp.activeMask THEN warp.pc
  ELSE IF \E i \in DOMAIN warp.stack : Waits(lane, i)
       THEN LET entry == warp.stack[CHOOSE i \in DOMAIN warp.stack : Waits(lane, i)]
            IN  IF hasReconvergePc(entry) THEN entry.reconvergePc ELSE entry.deferredPc
       ELSE Exited

Threads == INSTANCE ScalarThreads WITH lanePc <- [lane \in Lanes |-> LanePc(lane)]

(* SIMT execution is invisible to a thread: each lane follows the program  *)
(* as the reference interpreter's thread does, it is never moved, dropped  *)
(* or run again by the divergence stack.                                   *)
ThreadsSpec == Threads!Spec

(* A HALT while the top entry is resolved: lanes of the deferred path halt *)
(* and the taken path's wait at the reconvergence point.                   *)
HaltsBeforeJoin ==
  Halt /\ warp.stack # << >> /\ hasReconvergePc(Head(warp.stack))

(* Whatever the program, that HALT is the only step that misplaces a lane: *)
(* every other one, by whatever path of handleBranch or of the             *)
(* reconvergence, moves each lane as its own thread would move or not at   *)
(* all.                                                                    *)
OnlyHaltMisplaces == [][HaltsBeforeJoin \/ Threads!Next]_vars

(* If/elses with arms that join.  The lanes that take the BRA.P at b run   *)
(* an arm without control flow, which ends with a BRA to a join behind it; *)
(* the others fall through to an arm that leaves for the join only.  It    *)
(* may contain further if/elses, each with a join of its own.              *)
Branches(p) == {b \in 0..(Len(p) - 1) : p[b + 1].op = "BRA.P"}

EndsArm(p, b, e) ==
  /\ e \in p[b + 1].target..(Len(p) - 1)
  /\ p[e + 1].op = "BRA"
  /\ \A pc \in p[b + 1].target..(e - 1) : p[pc + 1].op \notin {"HALT", "BRA", "BRA.P"}

ArmEnd(p, b) == CHOOSE e \in 0..(Len(p) - 1) : EndsArm(p, b, e)

Join(p, b) == p[ArmEnd(p, b) + 1].target

ClosedIfElse(p, b) ==
  /\ \E e \in 0..(Len(p) - 1) : EndsArm(p, b, e)
  /\ b < p[b + 1].target /\ ArmEnd(p, b) < Join(p, b) /\ Join(p, b) <= Len(p)
  /\ \A pc \in (b + 1)..(Join(p, b) - 1) :
       /\ p[pc + 1].op # "HALT"
       /\ p[pc + 1].op = "BRA" => p[pc + 1].target \in (b + 1)..Join(p, b)

Structured(p) ==
  /\ \A b \in Branches(p) : ClosedIfElse(p, b)
  /\ \A b, c \in Branches(p) : c \in (b + 1)..(Join(p, b) - 1) => Join(p, c) < Join(p, b)

(* No instruction of a program jumps back, and it cannot run past its last *)
(* one.                                                                    *)
Forward(p) ==
  /\ p[Len(p)].op = "HALT"
  /\ \A i \in DOMAIN p : p[i].op \in {"BRA", "BRA.P"} => p[i].target \in i..(Len(p) - 1)

(* If nothing jumps back, every lane's thread ends, however the lanes      *)
(* diverge: no path is left on the stack for good, and popping an entry    *)
(* sends no lane back.                                                     *)
ForwardFinishes == Forward(program) => <>Done(warp)
=============================================================================
