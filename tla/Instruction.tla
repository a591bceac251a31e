----------------------------- MODULE Instruction -----------------------------
(***************************************************************************)
(* Decoded instructions (instruction.hpp), as much of them as the pipeline *)
(* of a streaming multiprocessor looks at: which kind of instruction it    *)
(* is, the registers it reads and writes, the branch target, and a name    *)
(* for the array a memory instruction addresses.  The opcodes the pipeline *)
(* treats alike are one kind: "ALU" stands for every integer operation,    *)
(* identifier move, BALLOT and SHFL, "MUL" for MUL and MAD, "SETP" for the *)
(* comparisons and votes that write a predicate.  What an operation        *)
(* computes is left out.                                                   *)
(***************************************************************************)
EXTENDS Integers, Sequences

CONSTANTS
  Registers,    \* the registers of a lane
  Arrays,       \* names for the arrays that memory instructions address
  None          \* the absent register, label or array (-1 in the code)

ASSUME NoneAssumption == None \notin Registers

RegisterWriters == {"ALU", "MUL", "LD.GLOBAL", "LD.SHARED"}
GlobalMemoryOps == {"LD.GLOBAL", "ST.GLOBAL"}
SharedMemoryOps == {"LD.SHARED", "ST.SHARED"}

Opcodes == RegisterWriters \cup GlobalMemoryOps \cup SharedMemoryOps
             \cup {"NOP", "HALT", "BRA", "BRA.P", "SETP", "BAR.SYNC"}

(***************************************************************************)
(* The parser gives every instruction that writes a register a             *)
(* destination, and resolves every branch target to an instruction index   *)
(* (a label may stand after the last instruction).                         *)
(***************************************************************************)
Instructions ==
  {i \in [op : Opcodes, dst : Registers \cup {None}, srcs : SUBSET Registers,
          target : Nat, array : Arrays \cup {None}] :
     i.op \in RegisterWriters => i.dst \in Registers}

(* The functional unit an instruction occupies. *)
unitType(inst) ==
  CASE inst.op = "MUL" -> "Sfu"
    [] inst.op \in GlobalMemoryOps \cup SharedMemoryOps -> "Lsu"
    [] inst.op \in {"ALU", "SETP"} -> "IntAlu"
    [] OTHER -> "None"

-----------------------------------------------------------------------------
(* The assembly syntax, for writing programs down. *)

Op(op) == [op |-> op, dst |-> None, srcs |-> {}, target |-> 0, array |-> None]

NOP           == Op("NOP")
HALT          == Op("HALT")
BARSYNC       == Op("BAR.SYNC")
BRA(label)    == [Op("BRA") EXCEPT !.target = label]
BRAP(label)   == [Op("BRA.P") EXCEPT !.target = label]
ALU(d, srcs)  == [Op("ALU") EXCEPT !.dst = d, !.srcs = srcs]
MUL(d, srcs)  == [Op("MUL") EXCEPT !.dst = d, !.srcs = srcs]
SETP(srcs)    == [Op("SETP") EXCEPT !.srcs = srcs]
LDGLOBAL(d, a)  == [Op("LD.GLOBAL") EXCEPT !.dst = d, !.array = a]
STGLOBAL(a, s)  == [Op("ST.GLOBAL") EXCEPT !.array = a, !.srcs = {s}]
LDSHARED(d, a)  == [Op("LD.SHARED") EXCEPT !.dst = d, !.array = a]
STSHARED(a, s)  == [Op("ST.SHARED") EXCEPT !.array = a, !.srcs = {s}]
=============================================================================
