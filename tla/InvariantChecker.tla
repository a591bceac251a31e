--------------------------- MODULE InvariantChecker ---------------------------
(***************************************************************************)
(* The rules InvariantChecker::check applies to one SM, and what a run     *)
(* leaves behind.  GPU::run goes by active() alone, which looks at the two *)
(* queues and at the warps; --check-invariants calls the checker after it. *)
(*                                                                         *)
(* The bounds of addresses are left out, as addresses are.                 *)
(***************************************************************************)
EXTENDS StreamingMultiprocessor

(* memory_request_warp *)
RequestsOfWarps == \A q \in memoryRequests : q.warpIndex \in Warps

(* active_mask_width, halted_warp_inactive *)
MaskFits(w) == warps[w].activeMask \subseteq Lanes
HaltedInactive(w) == warps[w].halted => warps[w].activeMask = {}

(* barrier_wait_registered: with the barrier of any CTA. *)
WaitRegistered(w) ==
  w \in waitingOnBarrier => \E c \in CTAs : w \in barriers[c].waitingWarps

(* scoreboard_register_range, looked at only for a warp that its own       *)
(* scoreboard holds back.  Scoreboard::pendingRegisters returns the counts *)
(* of writes, not the registers that have one, so what is held against the *)
(* number of registers is a count.                                         *)
pendingRegisters(w) == {scoreboard[w][r] : r \in Registers}
PendingInRange(w) ==
  /\ warps[w].pc < Len(program)
  /\ ~ canRead(w, currentInstruction(w).srcs)
  /\ w \notin waitingOnGlobalMemory /\ w \notin waitingOnBarrier
  => \A pending \in pendingRegisters(w) : pending < Cardinality(Registers)

(* divergence_stack_depth: a loop that its lanes leave one by one exceeds  *)
(* this during the run.                                                    *)
StackDepth(w) == Len(warps[w].stack) <= Len(program)

check ==
  /\ RequestsOfWarps
  /\ \A w \in Warps :
       MaskFits(w) /\ HaltedInactive(w) /\ WaitRegistered(w) /\ PendingInRange(w)
         /\ StackDepth(w)

-----------------------------------------------------------------------------
(* When the SM is no longer active, the checker has nothing to report, and *)
(* nothing is left over that active() does not look at: no register        *)
(* reserved, no warp waiting, no barrier standing, no lane or deferred     *)
(* path abandoned, no instruction unretired.                               *)
EndsClean ==
  ~ Active =>
    /\ check
    /\ \A w \in Warps, r \in Registers : scoreboard[w][r] = 0
    /\ waitingOnGlobalMemory = {} /\ waitingOnBarrier = {}
    /\ \A c \in CTAs : barriers[c] = NoBarrier
    /\ \A w \in Warps : warps[w].activeMask = {} /\ warps[w].stack = << >>
    /\ issued = retired
=============================================================================
