---------------------------- MODULE ScalarThreads ----------------------------
(***************************************************************************)
(* What SIMT execution promises a programmer, taken from the scalar        *)
(* reference interpreter (ReferenceGPU::executeThread): every thread       *)
(* follows the program by itself, from instruction 0, until it executes    *)
(* HALT or leaves the end of the program.  The interpreter runs one thread *)
(* after another; here they move in any order and several may move at      *)
(* once.  Data is left out, so the direction of BRA.P is free.             *)
(***************************************************************************)
EXTENDS Integers, Sequences

CONSTANTS
  Lanes,      \* the lanes of the warp
  Exited      \* where a thread that has executed HALT is

VARIABLES
  program,    \* the instructions; the first is program[1], at pc 0
  lanePc      \* the pc of each lane's thread, or Exited

vars == <<program, lanePc>>

(* Where the thread of a lane at pc may be after executing one instruction *)
Successors(pc) ==
  IF pc = Exited \/ pc >= Len(program)
  THEN {}
  ELSE LET inst == program[pc + 1]
       IN  CASE inst.op = "HALT"  -> {Exited}
             [] inst.op = "BRA"   -> {inst.target}
             [] inst.op = "BRA.P" -> {inst.target, pc + 1}
             [] OTHER             -> {pc + 1}

(* The launched lanes start at 0; the lanes past blockDim never run. *)
Init == lanePc \in [Lanes -> {0, Exited}]

Next ==
  /\ UNCHANGED program
  /\ DOMAIN lanePc' = Lanes
  /\ \A lane \in Lanes : lanePc'[lane] \in Successors(lanePc[lane]) \cup {lanePc[lane]}

Spec == Init /\ [][Next]_vars
=============================================================================
