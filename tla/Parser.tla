-------------------------------- MODULE Parser --------------------------------
(***************************************************************************)
(* From the text of a kernel to the program that is launched: Parser       *)
(* (parser.cpp), line by line and then label by label, and what the        *)
(* pipeline and the occupancy report take from each instruction            *)
(* (instruction.cpp, occupancy.cpp).  A line is a label, a mnemonic and    *)
(* operands that are already split; white space, comments, letter case,    *)
(* immediates and the numbers of predicates are left out.                  *)
(***************************************************************************)
EXTENDS Instruction, FiniteSets, FiniteSetsExt

CONSTANTS
  Labels,        \* the names that labels may have
  EmptyLabel,    \* nothing before a colon
  Sources        \* the texts it may be given

ASSUME RegistersAreNumbers == Registers \subseteq Nat
ASSUME LabelNames == {None, EmptyLabel} \cap Labels = {} /\ EmptyLabel # None

IsSequence(s) == Len(s) \in Nat /\ DOMAIN s = 1..Len(s)

(* A text is a sequence of lines: a label, or None without a colon; a      *)
(* mnemonic, or None if nothing else is on the line; and operands, each of *)
(* a kind, with the register or name it holds.                             *)
ASSUME SourcesAreTexts ==
  \A text \in Sources :
    /\ IsSequence(text)
    /\ \A i \in DOMAIN text :
         /\ text[i].label \in Labels \cup {None, EmptyLabel}
         /\ IsSequence(text[i].operands)
         /\ \A j \in DOMAIN text[i].operands :
              text[i].operands[j].kind \in {"register", "memory"} =>
                text[i].operands[j].value \in Registers

(* How an instruction is written: the fields of Instruction its operands   *)
(* set.  "[srcA]" is a memory operand with base register srcA.             *)
Syntax ==
  {<<op, << >>>> : op \in {"NOP", "HALT", "BAR.SYNC"}}
  \cup {<<"BRA", <<"label">>>>, <<"BRA.P", <<"pred", "label">>>>,
        <<"MOV", <<"dst", "srcA">>>>, <<"MOVI", <<"dst", "imm">>>>,
        <<"MAD", <<"dst", "srcA", "srcB", "srcC">>>>, <<"BALLOT", <<"dst", "pred">>>>}
  \cup {<<op, <<"dst", "srcA", "srcB">>>> :
          op \in {"ADD", "SUB", "MUL", "AND", "OR", "XOR", "SHFL.IDX"}}
  \cup {<<op, <<"dst", "srcA", "imm">>>> : op \in {"ADDI", "SHL", "SHR"}}
  \cup {<<op, <<"predDst", "srcA", "srcB">>>> :
          op \in {"SETP.EQ", "SETP.NE", "SETP.LT", "SETP.GE"}}
  \cup {<<op, <<"dst", "[srcA]">>>> : op \in {"LD.GLOBAL", "LD.SHARED"}}
  \cup {<<op, <<"[srcA]", "srcB">>>> : op \in {"ST.GLOBAL", "ST.SHARED"}}
  \cup {<<op, <<"dst">>>> :
          op \in {"MOV.LANEID", "MOV.WARPID", "MOV.CTAID", "MOV.TID", "MOV.GTID",
                  "MOV.NTID", "MOV.NCTA"}}
  \cup {<<op, <<"predDst", "pred">>>> : op \in {"VOTE.ALL", "VOTE.ANY"}}

Mnemonics == {s[1] : s \in Syntax}

Fields(op) == (CHOOSE s \in Syntax : s[1] = op)[2]

OperandKind(field) ==
  CASE field \in {"dst", "srcA", "srcB", "srcC"} -> "register"
    [] field \in {"pred", "predDst"}             -> "predicate"
    [] field = "imm"                             -> "immediate"
    [] field = "[srcA]"                          -> "memory"
    [] field = "label"                           -> "name"

Operand(kind, value) == [kind |-> kind, value |-> value]

(* requireCount, and the conversions of the operands. *)
Parses(op, operands) ==
  /\ op \in Mnemonics
  /\ Len(operands) = Len(Fields(op))
  /\ \A i \in DOMAIN operands :
       operands[i].kind = OperandKind(Fields(op)[i]) \/ Fields(op)[i] = "label"

(* The operand that sets one of some fields, or None. *)
valueOf(op, operands, fields) ==
  LET at == {i \in DOMAIN operands : Fields(op)[i] \in fields}
  IN  IF at = {} THEN None ELSE operands[CHOOSE i \in at : TRUE].value

(* Wrong variant: the base of a memory operand is forgotten. *)
parseWithoutBase(op, operands) ==
  [op |-> op, label |-> valueOf(op, operands, {"label"}), target |-> 0,
   dst |-> valueOf(op, operands, {"dst"}), srcA |-> valueOf(op, operands, {"srcA"}),
   srcB |-> valueOf(op, operands, {"srcB"}), srcC |-> valueOf(op, operands, {"srcC"})]

(* None is also the label of "BRA ,", an empty operand: such a branch is   *)
(* not linked, and goes to instruction 0.                                  *)
parseInstruction(op, operands) ==
  [op |-> op, label |-> valueOf(op, operands, {"label"}), target |-> 0,
   dst |-> valueOf(op, operands, {"dst"}), srcA |-> valueOf(op, operands, {"srcA", "[srcA]"}),
   srcB |-> valueOf(op, operands, {"srcB"}), srcC |-> valueOf(op, operands, {"srcC"})]

-----------------------------------------------------------------------------
(* What is read off an instruction. *)

writesRegister(inst) ==
  /\ inst.op \notin {"NOP", "HALT", "BRA", "BRA.P", "ST.GLOBAL", "ST.SHARED", "BAR.SYNC"}
  /\ inst.op \notin {"SETP.EQ", "SETP.NE", "SETP.LT", "SETP.GE", "VOTE.ALL", "VOTE.ANY"}
  /\ inst.dst # None

(* Wrong variant: a store does not wait for the value it stores. *)
sourcesWithoutStored(inst) ==
  CASE inst.op \in {"MOV", "ADDI", "SHL", "SHR", "LD.GLOBAL", "LD.SHARED", "ST.GLOBAL",
                    "ST.SHARED"} -> {inst.srcA}
    [] inst.op \in {"ADD", "SUB", "MUL", "AND", "OR", "XOR", "SETP.EQ", "SETP.NE",
                    "SETP.LT", "SETP.GE", "SHFL.IDX"} -> {inst.srcA, inst.srcB}
    [] inst.op = "MAD" -> {inst.srcA, inst.srcB, inst.srcC}
    [] OTHER -> {}

(* What the scoreboard is asked about before the instruction issues. *)
sourceRegisters(inst) ==
  CASE inst.op \in {"MOV", "ADDI", "SHL", "SHR", "LD.GLOBAL", "LD.SHARED"} -> {inst.srcA}
    [] inst.op \in {"ADD", "SUB", "MUL", "AND", "OR", "XOR", "SETP.EQ", "SETP.NE",
                    "SETP.LT", "SETP.GE", "ST.GLOBAL", "ST.SHARED", "SHFL.IDX"}
         -> {inst.srcA, inst.srcB}
    [] inst.op = "MAD" -> {inst.srcA, inst.srcB, inst.srcC}
    [] OTHER -> {}

(* The kind of instruction that module Instruction knows. *)
Kind(op) ==
  CASE op \in {"MUL", "MAD"} -> "MUL"
    [] op \in {"SETP.EQ", "SETP.NE", "SETP.LT", "SETP.GE", "VOTE.ALL", "VOTE.ANY"} -> "SETP"
    [] op \in {"NOP", "HALT", "BRA", "BRA.P", "BAR.SYNC", "LD.GLOBAL", "ST.GLOBAL",
               "LD.SHARED", "ST.SHARED"} -> op
    [] OTHER -> "ALU"

Decoded(inst) ==
  [op |-> Kind(inst.op), dst |-> IF writesRegister(inst) THEN inst.dst ELSE None,
   srcs |-> sourceRegisters(inst), target |-> inst.target, array |-> None]

(* calculateOccupancy's scan for the largest register. *)
NamedIn(inst) == {inst.dst, inst.srcA, inst.srcB, inst.srcC} \ {None}

(* Wrong variant: only destinations count. *)
maxDestination(insts) ==
  Max({0} \cup UNION {{insts[i].dst} \ {None} : i \in DOMAIN insts})

maxRegister(insts) == Max({0} \cup UNION {NamedIn(insts[i]) : i \in DOMAIN insts})

-----------------------------------------------------------------------------
(* parseText.  labels maps a name to Undefined until it is defined. *)
VARIABLES
  source, lineNumber,     \* the text, and the next line of it
  instructions, labels,
  unresolved,             \* the branches to link, by index, in their order
  outcome                 \* "reading", "linking", "parsed" or "rejected"

parserVars == <<source, lineNumber, instructions, labels, unresolved, outcome>>

Undefined == -1

ParserInit ==
  /\ source \in Sources
  /\ lineNumber = 1
  /\ instructions = << >> /\ labels = [name \in Labels |-> Undefined]
  /\ unresolved = << >>
  /\ outcome = "reading"

CurrentLine == source[lineNumber]
Reading == outcome = "reading" /\ lineNumber <= Len(source)
NextLine == lineNumber' = lineNumber + 1 /\ UNCHANGED <<source, outcome>>

Reject ==
  /\ outcome' = "rejected"
  /\ UNCHANGED <<source, lineNumber, instructions, labels, unresolved>>

(* A line with .kernel names the kernel.  Without a name it is accepted    *)
(* too: the name is "unnamed" before, and reading one at the end of a line *)
(* leaves it, so the exception of parser.cpp:130 is never thrown.          *)
IsDirective(line) == line.label = None /\ line.op = ".kernel"

Directive ==
  /\ Reading /\ IsDirective(CurrentLine)
  /\ NextLine /\ UNCHANGED <<instructions, labels, unresolved>>

(* Wrong variant: the first definition of a label stays. *)
firstDefined(name) ==
  IF name = None \/ labels[name] # Undefined THEN labels
  ELSE [labels EXCEPT ![name] = Len(instructions)]

(* A label stands for the instruction that comes next. *)
defined(name) ==
  IF name = None THEN labels ELSE [labels EXCEPT ![name] = Len(instructions)]

(* A line with a label or nothing. *)
LabelLine ==
  /\ Reading /\ CurrentLine.op = None /\ CurrentLine.label # EmptyLabel
  /\ labels' = defined(CurrentLine.label)
  /\ NextLine /\ UNCHANGED <<instructions, unresolved>>

InstructionLine ==
  /\ Reading /\ ~ IsDirective(CurrentLine)
  /\ CurrentLine.op # None /\ CurrentLine.label # EmptyLabel
  /\ Parses(CurrentLine.op, CurrentLine.operands)
  /\ LET inst == parseInstruction(CurrentLine.op, CurrentLine.operands)
     IN  /\ instructions' = Append(instructions, inst)
         /\ unresolved' = IF inst.label = None THEN unresolved
                          ELSE Append(unresolved, Len(instructions) + 1)
  /\ labels' = defined(CurrentLine.label)
  /\ NextLine

BadLine ==
  /\ Reading /\ ~ IsDirective(CurrentLine)
  /\ \/ CurrentLine.label = EmptyLabel
     \/ CurrentLine.op # None /\ ~ Parses(CurrentLine.op, CurrentLine.operands)
  /\ Reject

EndOfText ==
  /\ outcome = "reading" /\ lineNumber > Len(source)
  /\ outcome' = "linking"
  /\ UNCHANGED <<source, lineNumber, instructions, labels, unresolved>>

(* The second loop: one branch is linked. *)
Link ==
  /\ outcome = "linking" /\ unresolved # << >>
  /\ LET at   == Head(unresolved)
         name == instructions[at].label
     IN  IF name \notin Labels \/ labels[name] = Undefined THEN Reject
         ELSE /\ instructions' = [instructions EXCEPT ![at].target = labels[name]]
              /\ unresolved' = Tail(unresolved)
              /\ UNCHANGED <<source, lineNumber, labels, outcome>>

(* Wrong variant: a program may be empty. *)
FinishEmpty ==
  /\ outcome = "linking" /\ unresolved = << >>
  /\ outcome' = "parsed"
  /\ UNCHANGED <<source, lineNumber, instructions, labels, unresolved>>

Finish ==
  /\ outcome = "linking" /\ unresolved = << >>
  /\ outcome' = IF instructions = << >> THEN "rejected" ELSE "parsed"
  /\ UNCHANGED <<source, lineNumber, instructions, labels, unresolved>>

Parse == Directive \/ LabelLine \/ InstructionLine \/ BadLine \/ EndOfText \/ Link \/ Finish

ParserSpec == ParserInit /\ [][Parse]_parserVars

-----------------------------------------------------------------------------
(* The text, line by line: how many instructions stand before a line, the  *)
(* definitions of a label, and what a branch to it should mean: the        *)
(* instruction after the last of them.                                     *)
IsInstruction(line) == line.op # None /\ ~ IsDirective(line)
InstructionLines == {i \in DOMAIN source : IsInstruction(source[i])}
InstructionsBefore(i) == Cardinality({j \in 1..(i - 1) : IsInstruction(source[j])})
Definitions(name) == {i \in DOMAIN source : source[i].label = name}
Means(name) == InstructionsBefore(Max(Definitions(name)))

(* The instruction that the parser has made of a line. *)
Made(i) == instructions[InstructionsBefore(i) + 1]

WellFormed ==
  /\ \A i \in DOMAIN source : source[i].label # EmptyLabel
  /\ \A i \in InstructionLines : Parses(source[i].op, source[i].operands)
  /\ InstructionLines # {}
  /\ \A i \in InstructionLines :
       LET name == parseInstruction(source[i].op, source[i].operands).label
       IN  name # None => Definitions(name) # {}

(* A text is accepted exactly if all its lines are well formed, it has an  *)
(* instruction, and every branch names a label that some line, before or   *)
(* after it, defines.                                                      *)
AcceptedIfWellFormed ==
  /\ outcome = "parsed" => WellFormed
  /\ outcome = "rejected" => ~ WellFormed

(* In a program that is accepted, every branch goes where the last         *)
(* definition of its label stands, which may be the end of the program;    *)
(* and no instruction is lost, doubled or moved.                           *)
BranchesGoToLabels ==
  outcome = "parsed" =>
    /\ Len(instructions) = Cardinality(InstructionLines)
    /\ \A i \in InstructionLines :
         /\ Made(i).op = source[i].op
         /\ Made(i).label # None => Made(i).target = Means(Made(i).label)

(* The registers that a line names: what stands for a branch's label is no *)
(* register, whatever it looks like.                                       *)
RegistersNamed(line) ==
  {line.operands[j].value :
     j \in {j \in DOMAIN line.operands : /\ line.operands[j].kind \in {"register", "memory"}
                                        /\ Fields(line.op)[j] # "label"}}

(* Three readers of an instruction agree on its registers: the ones the    *)
(* text names are those the scoreboard is asked about and the one that is  *)
(* reserved, and the occupancy report counts the largest of them.  So a    *)
(* parsed program is one of those that the modules of the pipeline run.    *)
RegistersAgree ==
  outcome = "parsed" =>
    /\ \A i \in InstructionLines :
         LET decoded == Decoded(Made(i))
         IN  /\ decoded \in Instructions
             /\ RegistersNamed(source[i]) = decoded.srcs \cup ({decoded.dst} \ {None})
    /\ maxRegister(instructions)
         = Max({0} \cup UNION {RegistersNamed(source[i]) : i \in InstructionLines})
=============================================================================
