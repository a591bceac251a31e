---------------------------- MODULE ProgramOrder ----------------------------
(***************************************************************************)
(* The data a streaming multiprocessor computes, against the data its      *)
(* kernel computes when every instruction takes effect at once, in the     *)
(* order of issue (the order in which the reference interpreter executes   *)
(* each thread).  A value is the number of the instruction that produced   *)
(* it, 0 the initial value; a load produces what it finds in memory.       *)
(*                                                                         *)
(* registers and memory change when the code changes them: at write-back   *)
(* and when a request returns.  expectedRegisters and expectedMemory       *)
(* change at issue.  Each lane addresses its own word of an array; a       *)
(* private array has one row for each warp.                                *)
(***************************************************************************)
EXTENDS StreamingMultiprocessor

CONSTANT PrivateArrays

ASSUME PrivateAssumption == PrivateArrays \subseteq Arrays
ASSUME ArraysAssumption ==   \* every global access is to some array
  \A code \in Programs : \A i \in DOMAIN code :
    code[i].op \in GlobalMemoryOps => code[i].array \in Arrays

VARIABLES registers, memory, expectedRegisters, expectedMemory

dataVars == <<registers, memory, expectedRegisters, expectedMemory>>

Row(array, w) == <<array, IF array \in PrivateArrays THEN w ELSE 0>>

Result(id) == id + 1

DataInit ==
  /\ Init
  /\ registers = [w \in Warps |-> [l \in Lanes |-> [r \in Registers |-> 0]]]
  /\ expectedRegisters = registers
  /\ memory = [row \in Arrays \X Warps |-> [l \in Lanes |-> 0]]
  /\ expectedMemory = memory

Latest(records) == CHOOSE p \in records : \A q \in records : q.id <= p.id

-----------------------------------------------------------------------------
(* Wrong variant: a store writes the words of all lanes. *)
StoresOfAllLanes(id, row, l) ==
  {q \in DueRequests : ~ q.isLoad /\ q.id < id /\ Row(q.array, q.warpIndex) = row}

(* The due stores to a lane's word that stand before request number id in  *)
(* the vector of requests: completeMemoryRequests has performed them.      *)
StoresBefore(id, row, l) ==
  {q \in DueRequests : /\ ~ q.isLoad /\ q.id < id
                       /\ Row(q.array, q.warpIndex) = row /\ l \in q.activeMask}

MemoryBefore(id, row, l) ==
  LET stores == StoresBefore(id, row, l)
  IN  IF stores = {} THEN memory[row][l] ELSE Result(Latest(stores).id)

(* Wrong variant: results land in the lanes of the warp that are active    *)
(* now, not in those that issued.                                          *)
LandedNow(w, l, r) ==
  LET writes == RegisterWrites(w, r, DueWrites)
      loads  == Loads(w, r, DueRequests)
  IN  IF l \notin warps[w].activeMask THEN registers[w][l][r]
      ELSE IF loads # {}
      THEN LET load == Latest(loads)
           IN  MemoryBefore(load.id, Row(load.array, w), l)
      ELSE IF writes # {} THEN Result(Latest(writes).id)
      ELSE registers[w][l][r]

(* Due write-backs land in the order of issue, then due loads. *)
Landed(w, l, r) ==
  LET writes == {p \in RegisterWrites(w, r, DueWrites) : l \in p.activeMask}
      loads  == {q \in Loads(w, r, DueRequests) : l \in q.activeMask}
  IN  IF loads # {}
      THEN LET load == Latest(loads)
           IN  MemoryBefore(load.id, Row(load.array, w), l)
      ELSE IF writes # {} THEN Result(Latest(writes).id)
      ELSE registers[w][l][r]

Land ==
  /\ registers' = [w \in Warps |-> [l \in Lanes |-> [r \in Registers |-> Landed(w, l, r)]]]
  /\ memory' = [row \in Arrays \X Warps |-> [l \in Lanes |-> MemoryBefore(issued, row, l)]]
  /\ UNCHANGED <<expectedRegisters, expectedMemory>>

(* The instruction that w issues takes effect at once, as in               *)
(* ReferenceGPU::executeThread.                                            *)
Execute(w) ==
  LET inst == currentInstruction(w)
      row  == Row(inst.array, w)
      value(l) == IF inst.op = "LD.GLOBAL" THEN expectedMemory[row][l] ELSE Result(issued)
  IN  /\ expectedRegisters' =
           IF inst.op \in RegisterWriters
           THEN [expectedRegisters EXCEPT ![w] =
                   [l \in Lanes |-> IF l \in warps[w].activeMask
                                    THEN [@[l] EXCEPT ![inst.dst] = value(l)]
                                    ELSE @[l]]]
           ELSE expectedRegisters
      /\ expectedMemory' =
           IF inst.op = "ST.GLOBAL"
           THEN [expectedMemory EXCEPT ![row] =
                   [l \in Lanes |-> IF l \in warps[w].activeMask THEN Result(issued) ELSE @[l]]]
           ELSE expectedMemory
      /\ UNCHANGED <<registers, memory>>

DataNext ==
  \/ Writeback /\ Land
  \/ Idle /\ UNCHANGED dataVars
  \/ \E w \in Warps : Issue(w) /\ Execute(w)

DataSpec == DataInit /\ [][DataNext]_<<vars, dataVars>>

DataFairSpec == DataSpec /\ WF_<<vars, dataVars>>(DataNext)

-----------------------------------------------------------------------------
(* Nothing in the SM makes results land in the order of issue: latencies   *)
(* differ, and a destination with a write outstanding does not hold an     *)
(* instruction back.  In order means, of two that write a register of a    *)
(* lane: the later issue does not land in an earlier cycle (due write-     *)
(* backs land in the order of issue, and before due loads).                *)
WritesLandInOrder ==
  /\ \A p, q \in pendingWrites :
       /\ p.kind = "Register" /\ q.kind = "Register" /\ p.id < q.id
       /\ p.warpIndex = q.warpIndex /\ p.dst = q.dst
       /\ p.activeMask \cap q.activeMask # {}
       => p.readyCycle <= q.readyCycle
  /\ \A p \in pendingWrites, q \in memoryRequests :
       /\ p.kind = "Register" /\ q.isLoad
       /\ p.warpIndex = q.warpIndex /\ p.dst = q.dstReg
       /\ p.activeMask \cap q.activeMask # {}
       => p.readyCycle <= q.returnCycle

(* The same of two accesses to a word, unless both are loads. *)
RequestsReturnInOrder ==
  \A p, q \in memoryRequests :
    /\ ~ (p.isLoad /\ q.isLoad) /\ p.id < q.id
    /\ Row(p.array, p.warpIndex) = Row(q.array, q.warpIndex)
    /\ p.activeMask \cap q.activeMask # {}
    => p.returnCycle <= q.returnCycle

(* The results of the kernels that are run here land in order.  This is    *)
(* all that keeps registers and memory in order: see ProgramOrderProofs.   *)
LandsInOrder == WritesLandInOrder /\ RequestsReturnInOrder

(* A register with no write outstanding has the value program order gives  *)
(* it.  As an instruction issues only when none of its source registers    *)
(* has a write outstanding, it then computes from the values of program    *)
(* order; and after the run all registers have them.                       *)
RegistersInOrder ==
  \A w \in Warps, l \in Lanes, r \in Registers :
    scoreboard[w][r] = 0 => registers[w][l][r] = expectedRegisters[w][l][r]

(* With no request outstanding, memory is what program order makes it. *)
MemoryInOrder == memoryRequests = {} => memory = expectedMemory
=============================================================================
