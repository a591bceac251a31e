----------------------------- MODULE BarrierOrder -----------------------------
(***************************************************************************)
(* What BAR.SYNC promises the warps of a CTA: none runs ahead of another   *)
(* by a barrier, and who waits at one waits for a reason.                  *)
(*                                                                         *)
(* History variables: arrivals counts, per warp, the BAR.SYNCs it has      *)
(* issued; endedSince has, per CTA, the warps that have ended since the    *)
(* first arrival at the barrier that is standing.                          *)
(***************************************************************************)
EXTENDS StreamingMultiprocessor

VARIABLES arrivals, endedSince

historyVars == <<arrivals, endedSince>>

HistoryInit ==
  /\ Init
  /\ arrivals = [w \in Warps |-> 0]
  /\ endedSince = [c \in CTAs |-> {}]

EndsNow(w) == ~ Done(warps[w]) /\ Done(warps'[w])

HistoryNext ==
  /\ \/ (Writeback \/ Idle) /\ UNCHANGED arrivals
     \/ \E w \in Warps :
          /\ Issue(w)
          /\ arrivals' = IF currentInstruction(w).op = "BAR.SYNC"
                         THEN [arrivals EXCEPT ![w] = @ + 1]
                         ELSE arrivals
  /\ endedSince' = [c \in CTAs |->
       IF barriers'[c] = NoBarrier THEN {}
       ELSE endedSince[c] \cup {w \in Warps : CtaOf[w] = c /\ EndsNow(w)}]

HistorySpec == HistoryInit /\ [][HistoryNext]_<<vars, historyVars>>

(* The barriers a warp has passed. *)
Passed(w) == arrivals[w] - (IF w \in waitingOnBarrier THEN 1 ELSE 0)

(* All the warps of a CTA that are still running have passed the same      *)
(* number of barriers: a warp that has arrived once more than another is   *)
(* held there.  This rests on counting the warps that are still running at *)
(* the first arrival, and on a waiting warp being neither counted twice    *)
(* nor able to end.                                                        *)
NoOvertaking ==
  \A v, w \in Warps :
    CtaOf[v] = CtaOf[w] /\ ~ Done(warps[v]) /\ ~ Done(warps[w]) => Passed(v) = Passed(w)

(* The number that activeWarpCountForCTA fixes at the first arrival is, as *)
(* long as the barrier stands, the warps of the CTA still running and      *)
(* those that have ended since.                                            *)
BarrierCountsExactly ==
  \A c \in CTAs :
    barriers[c] # NoBarrier =>
      barriers[c].expectedWarps = Cardinality(warpsOf(c)) + Cardinality(endedSince[c])

-----------------------------------------------------------------------------
(* Nothing is ready and nothing is under way.  Unless a warp can still     *)
(* reconverge away from where it is, no later tick changes that, and       *)
(* GPU::run ends by its cycle limit.                                       *)
Stuck ==
  /\ phase = "issue"
  /\ ReadyWarps = {} /\ pendingWrites = {} /\ memoryRequests = {}

(* A warp that no other can help: its kernel has run past the last         *)
(* instruction, or the configuration lacks what its next one needs.        *)
Starved(w) ==
  \/ warps[w].pc >= Len(program)
  \/ LET inst == currentInstruction(w)
     IN  \/ unitType(inst) # "None" /\ PipelineCount[unitType(inst)] = 0
         \/ inst.op \in GlobalMemoryOps /\ MaxOutstanding = 0

(* A run that gets stuck has one of three reasons: a kernel without HALT   *)
(* at its end, a configuration without a unit or a memory queue, or a warp *)
(* that ended after others of its CTA had begun to wait for it.  In        *)
(* particular no wake-up, release or barrier is lost: whoever waits at a   *)
(* barrier waits for a warp that has ended or is starved.                  *)
StuckIsExplained ==
  Stuck =>
    \A w \in Warps :
      \/ Done(warps[w])
      \/ w \notin waitingOnBarrier /\ Starved(w)
      \/ /\ w \in waitingOnBarrier
         /\ \/ endedSince[CtaOf[w]] # {}
            \/ \E v \in warpsOf(CtaOf[w]) : v \notin waitingOnBarrier /\ Starved(v)
=============================================================================
