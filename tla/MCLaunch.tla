------------------------------- MODULE MCLaunch -------------------------------
(***************************************************************************)
(* Kernel texts and configurations for model checking CommandLine.         *)
(***************************************************************************)
EXTENDS CommandLine

CONSTANTS A, B

TwoLabels == {A, B}
SomeRegisters == 0..4
NoArrays == {}
SmallRegs == 0..2

-----------------------------------------------------------------------------
(* A line of text. *)
L(label, op, operands) == [label |-> label, op |-> op, operands |-> operands]

register(n) == Operand("register", n)
predicate == Operand("predicate", 0)
memory(n) == Operand("memory", n)
name(l) == Operand("name", l)

(* Labels and branches to them, on lines of their own and together, in any *)
(* order, and lines that must be refused, or are accepted all the same.    *)
SomeLines ==
  { L(A, None, << >>), L(B, None, << >>), L(None, None, << >>),
    L(None, ".kernel", <<name(A)>>),
    L(None, "BRA", <<name(A)>>), L(A, "BRA.P", <<predicate, name(B)>>),
    L(B, "ADD", <<register(2), register(0), register(1)>>) }

OddLines ==
  { L(None, ".kernel", << >>), L(EmptyLabel, "HALT", << >>),
    L(None, "ADD", <<register(2), register(0)>>), L(B, "MOV", <<predicate, register(1)>>),
    L(A, ".kernel", <<name(A)>>), L(None, "BRA", <<register(1)>>),
    L(None, "BRA", <<name(None)>>) }

Texts(n) == [1..n -> SomeLines]
BrokenTexts ==
  UNION { {<<bad>>, <<good, bad>>, <<bad, good>>} : good \in SomeLines, bad \in OddLines }

(* Every mnemonic, with a register of its own at each place. *)
LineOf(op) ==
  L(None, op, [i \in DOMAIN Fields(op) |->
                 LET kind == OperandKind(Fields(op)[i])
                 IN  Operand(kind, IF kind = "name" THEN A ELSE i)])

AnyOp == {<<LineOf(op), L(A, "HALT", << >>)>> : op \in Mnemonics}

(* The kernels that are launched. *)
HaltOnly == <<L(None, "HALT", << >>)>>

AllTexts ==
  UNION {Texts(n) : n \in 0..4} \cup BrokenTexts \cup AnyOp \cup {HaltOnly}

-----------------------------------------------------------------------------
(* Small machines and grids, with fewer CTAs than SMs, as many, and more,  *)
(* and blocks that do and do not fill their warps.                         *)
SmallConfigs ==
  [smCount : 1..3, warpsPerSM : {2, 5}, lanesPerWarp : 1..3, gridDim : {0, 1, 2, 4},
   blockDim : 0..5, registerFileEntriesPerSM : {0, 7, 24},
   sharedMemoryBytesPerSM : {0, 5}, maxSharedMemoryPerCTA : 0..2]

(* One SM and one CTA, of one warp; two CTAs whose last warp is not full. *)
OneWarp ==
  [smCount |-> 1, warpsPerSM |-> 1, lanesPerWarp |-> 2, gridDim |-> 1, blockDim |-> 2,
   registerFileEntriesPerSM |-> 8, sharedMemoryBytesPerSM |-> 1,
   maxSharedMemoryPerCTA |-> 0]

PartialWarp ==
  [OneWarp EXCEPT !.warpsPerSM = 2, !.lanesPerWarp = 4, !.gridDim = 2, !.blockDim = 5]

AllConfigs == SmallConfigs \cup {OneWarp, PartialWarp}

(* All texts on one machine, and one kernel on all the machines. *)
KernelsAndMachines == (AllTexts \X {OneWarp}) \cup ({HaltOnly} \X SmallConfigs)

TailInput == {<<HaltOnly, PartialWarp>>}
=============================================================================
