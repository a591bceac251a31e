-------------------------- MODULE ProgramOrderProofs --------------------------
(***************************************************************************)
(* Theorems about ProgramOrder and Relaunch, for every launch, every       *)
(* configuration and any number of kernels one after another: as long as   *)
(* results land in order, registers and memory are what program order      *)
(* makes them.                                                             *)
(***************************************************************************)
EXTENDS Relaunch, StreamingMultiprocessorProofs, WellFoundedInduction

-----------------------------------------------------------------------------
(* What is under way to a register of a lane, and to a word of memory.     *)
Writing(w, l, r) == {p \in RegisterWrites(w, r, pendingWrites) : l \in p.activeMask}
Loading(w, l, r) == {q \in Loads(w, r, memoryRequests) : l \in q.activeMask}
Storing(row, l) ==
  {q \in memoryRequests : /\ ~ q.isLoad /\ l \in q.activeMask
                          /\ Row(q.array, q.warpIndex) = row}

(* What a word will be when the stores issued before instruction number id *)
(* have returned, and a register when all that is under way has landed.    *)
MemoryDue(id, row, l) ==
  LET stores == {q \in Storing(row, l) : q.id < id}
  IN  IF stores = {} THEN memory[row][l] ELSE Result(Latest(stores).id)

LoadDue(load, l) == MemoryDue(load.id, Row(load.array, load.warpIndex), l)

RegisterDue(w, l, r) ==
  IF Loading(w, l, r) # {} THEN LoadDue(Latest(Loading(w, l, r)), l)
  ELSE IF Writing(w, l, r) # {} THEN Result(Latest(Writing(w, l, r)).id)
  ELSE registers[w][l][r]

(* Both are what program order has made of them already.                   *)
MemoryWillBe == \A row \in Arrays \X Warps, l \in Lanes :
                  MemoryDue(issued, row, l) = expectedMemory[row][l]
RegistersWillBe == \A w \in Warps, l \in Lanes, r \in Registers :
                     RegisterDue(w, l, r) = expectedRegisters[w][l][r]

RegisterFiles == [Warps -> [Lanes -> [Registers -> Nat]]]
Memories == [Arrays \X Warps -> [Lanes -> Nat]]

DataTyped ==
  /\ registers \in RegisterFiles /\ expectedRegisters \in RegisterFiles
  /\ memory \in Memories /\ expectedMemory \in Memories

(* Requests are told apart by their numbers, and each names its array.     *)
RequestsNumbered ==
  /\ \A p, q \in memoryRequests : p.id = q.id => p = q
  /\ \A q \in memoryRequests : q.array \in Arrays

-----------------------------------------------------------------------------
(* The latest of some records. *)

LEMMA LatestIs ==
  ASSUME NEW S, NEW s \in S, \A q \in S : q.id \in Nat /\ q.id <= s.id
  PROVE  /\ Latest(S) \in S
         /\ Latest(S).id = s.id
<1>1. \E p \in S : \A q \in S : q.id <= p.id
  OBVIOUS
<1>2. Latest(S) \in S /\ \A q \in S : q.id <= Latest(S).id
  BY <1>1 DEF Latest
<1> QED BY <1>2

LEMMA LatestOne ==
  ASSUME NEW s, s.id \in Nat
  PROVE  Latest({s}) = s
<1>1. s \in {s} /\ \A q \in {s} : q.id \in Nat /\ q.id <= s.id
  OBVIOUS
<1>2. Latest({s}) \in {s}
  BY <1>1, LatestIs
<1> QED BY <1>2

LEMMA LatestExists ==
  ASSUME NEW S, S # {}, NEW n \in Nat, \A q \in S : q.id \in Nat /\ q.id < n
  PROVE  /\ Latest(S) \in S
         /\ \A q \in S : q.id <= Latest(S).id
<1> DEFINE ages == {n - q.id : q \in S}
<1>1. ages \in SUBSET Nat /\ ages # {}
  OBVIOUS
<1>2. PICK x \in ages : \A y \in ages : <<y, x>> \notin OpToRel(<, Nat)
  BY <1>1, NatLessThanWellFounded, WFMin
<1>3. PICK s \in S : x = n - s.id
  BY <1>2
<1>4. ASSUME NEW q \in S PROVE q.id <= s.id
  <2>1. n - q.id \in Nat /\ x \in Nat /\ n - q.id \in ages
    BY <1>1, <1>2
  <2>2. n - q.id < x => <<n - q.id, x>> \in OpToRel(<, Nat)
    BY <2>1 DEF OpToRel
  <2>3. <<n - q.id, x>> \notin OpToRel(<, Nat)
    BY <1>2, <2>1
  <2>4. ~ (n - q.id < x)
    BY <2>2, <2>3, Zenon
  <2> QED BY <1>3, <2>1, <2>4
<1>5. \A q \in S : q.id \in Nat /\ q.id <= s.id
  BY <1>4
<1> QED BY <1>3, <1>5, LatestIs

-----------------------------------------------------------------------------
(* What is under way is numbered below the next instruction. *)
LEMMA UnderWay ==
  ASSUME TypeOK, Numbered
  PROVE  /\ issued \in Nat /\ cycle \in Nat
         /\ \A p \in pendingWrites : /\ p.id \in Nat /\ p.id < issued /\ p.readyCycle \in Nat
                                     /\ p.activeMask \subseteq Lanes
         /\ \A q \in memoryRequests : /\ q.id \in Nat /\ q.id < issued /\ q.returnCycle \in Nat
                                      /\ q.isLoad \in BOOLEAN /\ q.warpIndex \in Warps
                                      /\ q.activeMask \subseteq Lanes
BY DEF TypeOK, Numbered, PendingWrites, MemoryRequests

(* A word is what it was to be, once the stores that are due have been     *)
(* performed: they come in the order of issue.                             *)
LEMMA StoresLand ==
  ASSUME TypeOK, Numbered, RequestsNumbered, RequestsReturnInOrder, Writeback, Land,
         NEW row \in Arrays \X Warps, NEW l \in Lanes, NEW id \in Nat,
         \A q \in Storing(row, l) : q \in DueRequests => q.id < id
  PROVE  MemoryDue(id, row, l)' = MemoryDue(id, row, l)
<1> DEFINE before == {q \in Storing(row, l) : q.id < id}
           after  == {q \in Storing(row, l)' : q.id < id}
           due    == StoresBefore(issued, row, l)
<1>1. Storing(row, l)' = Storing(row, l) \ DueRequests
  BY DEF Storing, Row, Writeback
<1>2. due = Storing(row, l) \cap DueRequests /\ due \subseteq before
  BY UnderWay DEF StoresBefore, Storing, DueRequests
<1>3. after = before \ DueRequests
  BY <1>1
<1>4. memory'[row][l] = IF due = {} THEN memory[row][l] ELSE Result(Latest(due).id)
  BY DEF Land, MemoryBefore
<1>5. MemoryDue(id, row, l) = IF before = {} THEN memory[row][l] ELSE Result(Latest(before).id)
  BY DEF MemoryDue
<1>6. MemoryDue(id, row, l)' = IF after = {} THEN memory'[row][l] ELSE Result(Latest(after).id)
  BY DEF MemoryDue, Result, Latest
<1>7. \A q \in before : q \in memoryRequests /\ q.id \in Nat /\ q.id < issued
  BY UnderWay DEF Storing
<1> HIDE DEF before, after, due
<1>8. CASE before = {}
  <2>1. due = {} /\ after = {}
    BY <1>2, <1>3, <1>8
  <2> QED BY <1>4, <1>5, <1>6, <1>8, <2>1
<1>9. CASE before # {}
  <2> DEFINE s == Latest(before)
  <2>1. s \in before /\ \A q \in before : q.id <= s.id
    BY <1>7, <1>9, UnderWay, LatestExists
  <2> HIDE DEF s
  <2>2. CASE s \notin DueRequests
    <3>1. s \in after
      BY <1>3, <2>1, <2>2
    <3>2. \A q \in after : q.id \in Nat /\ q.id <= s.id
      BY <1>3, <1>7, <2>1
    <3>3. Latest(after).id = s.id
      BY <3>1, <3>2, LatestIs
    <3> QED BY <1>5, <1>6, <1>9, <3>1, <3>3 DEF s
  <2>3. CASE s \in DueRequests
    <3>1. after = {}
      <4> SUFFICES ASSUME NEW q \in before PROVE q \in DueRequests
        BY <1>3
      <4>1. CASE q.id = s.id
        BY <1>7, <2>1, <2>3, <4>1 DEF RequestsNumbered
      <4>2. CASE q.id # s.id
        <5>1. q.id < s.id /\ q \in memoryRequests /\ s \in memoryRequests
          BY <1>7, <2>1, <4>2
        <5>2. /\ ~ q.isLoad /\ ~ s.isLoad /\ l \in q.activeMask \cap s.activeMask
              /\ Row(q.array, q.warpIndex) = Row(s.array, s.warpIndex)
          BY <2>1 DEF before, Storing
        <5>3. q.returnCycle <= s.returnCycle
          BY <5>1, <5>2 DEF RequestsReturnInOrder
        <5> QED BY <2>3, <5>1, <5>3, UnderWay DEF DueRequests
      <4> QED BY <4>1, <4>2
    <3>2. s \in due
      BY <1>2, <2>1, <2>3 DEF before
    <3>3. \A q \in due : q.id \in Nat /\ q.id <= s.id
      BY <1>2, <1>7, <2>1
    <3>4. Latest(due).id = s.id
      BY <3>2, <3>3, LatestIs
    <3> QED BY <1>4, <1>5, <1>6, <1>9, <3>1, <3>2, <3>4 DEF s
  <2> QED BY <2>2, <2>3
<1> QED BY <1>8, <1>9

(* A load that is due finds all the stores before it due as well. *)
LEMMA LoadFinds ==
  ASSUME TypeOK, Numbered, RequestsReturnInOrder,
         NEW load \in DueRequests, load.isLoad, NEW l \in load.activeMask
  PROVE  MemoryBefore(load.id, Row(load.array, load.warpIndex), l) = LoadDue(load, l)
<1> DEFINE row == Row(load.array, load.warpIndex)
<1>1. {q \in Storing(row, l) : q.id < load.id} = StoresBefore(load.id, row, l)
  <2>1. ASSUME NEW q \in Storing(row, l), q.id < load.id PROVE q \in DueRequests
    <3>1. q \in memoryRequests /\ load \in memoryRequests
      BY DEF Storing, DueRequests
    <3>2. q.returnCycle <= load.returnCycle
      BY <2>1, <3>1 DEF Storing, RequestsReturnInOrder
    <3> QED BY <3>1, <3>2, UnderWay DEF DueRequests
  <2> QED BY <2>1 DEF Storing, StoresBefore, DueRequests
<1> QED BY <1>1 DEF MemoryBefore, LoadDue, MemoryDue

(* The write-backs of a cycle leave what memory and registers are to be.   *)
LEMMA LandingKeepsMemory ==
  ASSUME TypeOK, Numbered, RequestsNumbered, RequestsReturnInOrder, MemoryWillBe,
         Writeback, Land
  PROVE  MemoryWillBe'
<1> SUFFICES ASSUME NEW row \in Arrays \X Warps, NEW l \in Lanes
             PROVE  MemoryDue(issued, row, l)' = expectedMemory'[row][l]
  BY DEF MemoryWillBe
<1>1. issued \in Nat /\ \A q \in Storing(row, l) : q.id < issued
  BY UnderWay DEF Storing
<1>2. issued' = issued /\ expectedMemory' = expectedMemory
  BY DEF Writeback, Land
<1>3. \A id \in Nat : (\A q \in Storing(row, l) : q \in DueRequests => q.id < id)
                       => MemoryDue(id, row, l)' = MemoryDue(id, row, l)
  BY StoresLand
<1>4. MemoryDue(issued, row, l)' = MemoryDue(issued, row, l)
  <2>1. \A n \in Nat : n = issued => MemoryDue(n, row, l)' = MemoryDue(n, row, l)
    BY <1>1, <1>3
  <2>2. PICK n \in Nat : n = issued /\ n = issued'
    BY <1>1, <1>2
  <2>3. MemoryDue(n, row, l)' = MemoryDue(n, row, l)
    BY <2>1, <2>2
  <2> QED BY <2>2, <2>3 DEF MemoryDue
<1> QED BY <1>2, <1>4 DEF MemoryWillBe

LEMMA LoadingOne ==
  ASSUME NEW w, NEW l, NEW r, NEW load, load.id \in Nat, Loading(w, l, r)' = {load}
  PROVE  RegisterDue(w, l, r)' = LoadDue(load, l)'
<1>1. Latest(Loading(w, l, r))' = load
  BY LatestOne DEF Latest
<1>2. RegisterDue(w, l, r)' = LoadDue(Latest(Loading(w, l, r)), l)'
  BY DEF RegisterDue
<1> QED BY <1>1, <1>2 DEF LoadDue, MemoryDue, Storing, Row

LEMMA LandingKeepsRegisters ==
  ASSUME TypeOK, Numbered, RequestsNumbered, OneLoad, DataTyped, LandsInOrder,
         RegistersWillBe, Writeback, Land
  PROVE  RegistersWillBe'
<1> SUFFICES ASSUME NEW w \in Warps, NEW l \in Lanes, NEW r \in Registers
             PROVE  RegisterDue(w, l, r)' = expectedRegisters'[w][l][r]
  BY DEF RegistersWillBe
<1> DEFINE writes == Writing(w, l, r)
           loads  == Loading(w, l, r)
           landing   == {p \in RegisterWrites(w, r, DueWrites) : l \in p.activeMask}
           returning == {q \in Loads(w, r, DueRequests) : l \in q.activeMask}
<1>1. /\ Writing(w, l, r)' = writes \ DueWrites /\ landing = writes \cap DueWrites
      /\ Loading(w, l, r)' = loads \ DueRequests /\ returning = loads \cap DueRequests
  BY DEF Writing, Loading, RegisterWrites, Loads, Writeback, DueWrites, DueRequests
<1>2. registers'[w][l][r] = Landed(w, l, r)
  BY DEF Land
<1>3. RegisterDue(w, l, r) = expectedRegisters'[w][l][r]
  BY DEF RegistersWillBe, Land
<1>4. RegisterDue(w, l, r)' =
        IF Loading(w, l, r)' # {} THEN LoadDue(Latest(Loading(w, l, r)), l)'
        ELSE IF Writing(w, l, r)' # {} THEN Result(Latest(Writing(w, l, r)').id)
        ELSE registers'[w][l][r]
  BY DEF RegisterDue, Result, Latest
<1>5. /\ \A p \in writes : /\ p \in pendingWrites /\ p.kind = "Register" /\ p.warpIndex = w
                           /\ p.dst = r /\ l \in p.activeMask
      /\ \A q \in loads : /\ q \in memoryRequests /\ q.isLoad /\ q.warpIndex = w
                          /\ q.dstReg = r /\ l \in q.activeMask
  BY DEF Writing, Loading, RegisterWrites, Loads
<1>6. CASE loads # {}
  <2>1. PICK load \in loads : loads = {load}
    BY <1>5, <1>6 DEF OneLoad, LoadsOf
  <2>2. Latest(loads) = load
    BY <2>1 DEF Latest
  <2>3. RegisterDue(w, l, r) = LoadDue(load, l)
    BY <1>6, <2>2 DEF RegisterDue
  <2> DEFINE row == Row(load.array, w)
  <2>4. row \in Arrays \X Warps
    BY <1>5, <2>1, ConfigAssumption DEF Row, Warps, RequestsNumbered
  <2>5. CASE load \in DueRequests
    <3>1. \A p \in writes : p \in DueWrites
      <4> SUFFICES ASSUME NEW p \in writes PROVE p \in DueWrites
        OBVIOUS
      <4>1. p.readyCycle <= load.returnCycle
        BY <1>5, <2>1 DEF LandsInOrder, WritesLandInOrder
      <4>2. load.returnCycle <= cycle
        BY <2>5 DEF DueRequests
      <4> QED BY <1>5, <2>1, <4>1, <4>2, UnderWay DEF DueWrites
    <3>2. Writing(w, l, r)' = {} /\ Loading(w, l, r)' = {} /\ returning = {load}
      BY <1>1, <2>1, <2>5, <3>1
    <3>3. RegisterDue(w, l, r)' = Landed(w, l, r)
      BY <1>2, <1>4, <3>2
    <3>4. Latest({load}) = load
      BY <2>1, <2>2
    <3>5. Landed(w, l, r) = MemoryBefore(load.id, row, l)
      BY <3>2, <3>4 DEF Landed
    <3>6. MemoryBefore(load.id, row, l) = LoadDue(load, l)
      BY <1>5, <2>1, <2>5, LoadFinds DEF LandsInOrder
    <3> QED BY <1>3, <2>3, <3>3, <3>5, <3>6
  <2>6. CASE load \notin DueRequests
    <3>1. Loading(w, l, r)' = {load}
      BY <1>1, <2>1, <2>6
    <3>2. RegisterDue(w, l, r)' = LoadDue(load, l)'
      BY <1>5, <2>1, <3>1, UnderWay, LoadingOne
    <3>3. load.id \in Nat /\ l \in Lanes /\ load \in memoryRequests
      BY <1>5, <2>1, UnderWay
    <3>4. \A q \in Storing(row, l) : q \in DueRequests => q.id < load.id
      <4> SUFFICES ASSUME NEW q \in Storing(row, l), q \in DueRequests, ~ (q.id < load.id)
                   PROVE  FALSE
        OBVIOUS
      <4>1. /\ q \in memoryRequests /\ ~ q.isLoad /\ l \in q.activeMask
            /\ Row(q.array, q.warpIndex) = row /\ q.id \in Nat
        BY UnderWay DEF Storing
      <4>2. load.id < q.id
        BY <1>5, <2>1, <3>3, <4>1 DEF RequestsNumbered
      <4>3. load.returnCycle <= q.returnCycle
        BY <1>5, <2>1, <3>3, <4>1, <4>2 DEF LandsInOrder, RequestsReturnInOrder
      <4> QED BY <2>6, <3>3, <4>1, <4>3, UnderWay DEF DueRequests
    <3>5. MemoryDue(load.id, row, l)' = MemoryDue(load.id, row, l)
      BY <2>4, <3>3, <3>4, StoresLand DEF LandsInOrder
    <3>6. LoadDue(load, l)' = MemoryDue(load.id, row, l)' /\ LoadDue(load, l) = MemoryDue(load.id, row, l)
      BY <1>5, <2>1 DEF LoadDue, Row
    <3> QED BY <1>3, <2>3, <3>2, <3>5, <3>6
  <2> QED BY <2>5, <2>6
<1>7. CASE loads = {}
  <2>1. Loading(w, l, r)' = {} /\ returning = {}
    BY <1>1, <1>7
  <2>2. Landed(w, l, r) = IF landing = {} THEN registers[w][l][r] ELSE Result(Latest(landing).id)
    BY <2>1 DEF Landed
  <2>3. RegisterDue(w, l, r) = IF writes = {} THEN registers[w][l][r] ELSE Result(Latest(writes).id)
    BY <1>7 DEF RegisterDue
  <2> HIDE DEF writes, loads, landing, returning
  <2>4. CASE writes = {}
    <3>1. landing = {} /\ Writing(w, l, r)' = {}
      BY <1>1, <2>4
    <3> QED BY <1>2, <1>3, <1>4, <2>1, <2>2, <2>3, <2>4, <3>1
  <2>5. CASE writes # {}
    <3> DEFINE p == Latest(writes)
    <3>1. p \in writes /\ \A q \in writes : q.id <= p.id
      BY <1>5, <2>5, UnderWay, LatestExists
    <3> HIDE DEF p
    <3>2. CASE p \in DueWrites
      <4>1. \A q \in writes : q.id # p.id => q \in DueWrites
        <5> SUFFICES ASSUME NEW q \in writes, q.id # p.id PROVE q \in DueWrites
          OBVIOUS
        <5>1. q.id < p.id
          BY <1>5, <3>1, UnderWay
        <5>2. q.readyCycle <= p.readyCycle
          BY <1>5, <3>1, <5>1 DEF LandsInOrder, WritesLandInOrder
        <5>3. p.readyCycle <= cycle
          BY <3>2 DEF DueWrites
        <5> QED BY <1>5, <3>1, <5>2, <5>3, UnderWay DEF DueWrites
      <4>2. p \in landing /\ \A q \in landing : q.id \in Nat /\ q.id <= p.id
        BY <1>1, <1>5, <3>1, <3>2, UnderWay
      <4>3. Landed(w, l, r) = Result(p.id)
        BY <2>2, <4>2, LatestIs
      <4>4. CASE Writing(w, l, r)' = {}
        BY <1>2, <1>3, <1>4, <2>1, <2>3, <2>5, <4>3, <4>4 DEF p
      <4>5. CASE Writing(w, l, r)' # {}
        <5>1. PICK q : q \in Writing(w, l, r)' /\ q \in writes /\ q.id = p.id
          BY <1>1, <4>1, <4>5
        <5>2. \A x \in Writing(w, l, r)' : x.id \in Nat /\ x.id <= q.id
          BY <1>1, <1>5, <3>1, <5>1, UnderWay
        <5>3. Latest(Writing(w, l, r)').id = p.id
          BY <5>1, <5>2, LatestIs
        <5> QED BY <1>3, <1>4, <2>1, <2>3, <2>5, <4>5, <5>3 DEF p
      <4> QED BY <4>4, <4>5
    <3>3. CASE p \notin DueWrites
      <4>1. p \in Writing(w, l, r)' /\ \A x \in Writing(w, l, r)' : x.id \in Nat /\ x.id <= p.id
        BY <1>1, <1>5, <3>1, <3>3, UnderWay
      <4>2. Latest(Writing(w, l, r)').id = p.id
        BY <4>1, LatestIs
      <4> QED BY <1>3, <1>4, <2>1, <2>3, <2>5, <4>1, <4>2 DEF p
    <3> QED BY <3>2, <3>3
  <2> QED BY <2>4, <2>5
<1> QED BY <1>6, <1>7

-----------------------------------------------------------------------------
(* What an issue adds. *)

Accounted == TypeOK /\ Numbered /\ OneLoad /\ DataTyped /\ RequestsNumbered

LEMMA IssueKinds ==
  ASSUME TypeOK, OneLoad, NEW v \in Warps, Issue(v)
  PROVE  /\ issued' = issued + 1 /\ issued \in Nat
         /\ LoadsOf(v) = {}
         /\ currentInstruction(v).op \in RegisterWriters
              => currentInstruction(v).dst \in Registers
         /\ currentInstruction(v).op \in GlobalMemoryOps
              => currentInstruction(v).array \in Arrays
         /\ \/ /\ currentInstruction(v).op \in RegisterWriters \ {"LD.GLOBAL"}
               /\ \E ready : queueWrite(v, "Register", ready)
               /\ UNCHANGED memoryRequests
            \/ /\ currentInstruction(v).op = "SETP"
               /\ \E ready : queueWrite(v, "Predicate", ready)
               /\ UNCHANGED memoryRequests
            \/ /\ currentInstruction(v).op \in GlobalMemoryOps
               /\ \E latency : queueRequest(v, latency)
               /\ UNCHANGED pendingWrites
            \/ /\ currentInstruction(v).op \notin RegisterWriters \cup GlobalMemoryOps
               /\ UNCHANGED <<pendingWrites, memoryRequests>>
<1>1. v \in ReadyWarps /\ issued' = issued + 1
  BY DEF Issue, Issues, Nop, Halt, Bra, BraPred, Arithmetic, Setp, LoadGlobal, StoreGlobal,
         LoadShared, StoreShared, BarSync
<1>2. currentInstruction(v) \in Instructions
  BY <1>1, CurrentInstructionType
<1>3. LoadsOf(v) = {}
  BY <1>1 DEF ReadyWarps, Ready, OneLoad
<1>4. currentInstruction(v).op \in GlobalMemoryOps => currentInstruction(v).array \in Arrays
  <2>1. program \in Programs /\ program \in Seq(Instructions)
    BY ProgramAssumption DEF TypeOK
  <2>2. warps[v].pc \in Nat /\ warps[v].pc < Len(program)
    BY <1>1 DEF TypeOK, WarpStates, ReadyWarps, Ready
  <2>3. warps[v].pc + 1 \in DOMAIN program
    BY <2>1, <2>2
  <2> QED BY <2>1, <2>3, ArraysAssumption DEF currentInstruction
<1>5. issued \in Nat /\ (currentInstruction(v).op \in RegisterWriters
                         => currentInstruction(v).dst \in Registers)
  BY <1>2 DEF TypeOK, Instructions
<1> DEFINE op == currentInstruction(v).op
<1>6. CASE Arithmetic(v) \/ LoadShared(v)
  <2>1. op \in RegisterWriters \ {"LD.GLOBAL"}
    BY <1>6 DEF Arithmetic, LoadShared, Issues, RegisterWriters
  <2>2. UNCHANGED memoryRequests /\ \E ready : queueWrite(v, "Register", ready)
    BY <1>6 DEF Arithmetic, LoadShared
  <2> QED BY <1>1, <1>3, <1>4, <1>5, <2>1, <2>2
<1>7. CASE Setp(v)
  <2>1. op = "SETP" /\ UNCHANGED memoryRequests /\ \E ready : queueWrite(v, "Predicate", ready)
    BY <1>7 DEF Setp, Issues
  <2> QED BY <1>1, <1>3, <1>4, <1>5, <2>1
<1>8. CASE LoadGlobal(v) \/ StoreGlobal(v)
  <2>1. op \in GlobalMemoryOps
    BY <1>8 DEF LoadGlobal, StoreGlobal, Issues, GlobalMemoryOps
  <2>2. UNCHANGED pendingWrites /\ \E latency : queueRequest(v, latency)
    BY <1>8 DEF LoadGlobal, StoreGlobal
  <2> QED BY <1>1, <1>3, <1>4, <1>5, <2>1, <2>2
<1>9. CASE Nop(v) \/ Halt(v) \/ Bra(v) \/ BraPred(v) \/ StoreShared(v) \/ BarSync(v)
  <2>1. op \notin RegisterWriters \cup GlobalMemoryOps
    BY <1>9 DEF Nop, Halt, Bra, BraPred, StoreShared, BarSync, Issues, RegisterWriters,
                GlobalMemoryOps
  <2>2. UNCHANGED <<pendingWrites, memoryRequests>>
    BY <1>9 DEF Nop, Halt, Bra, BraPred, StoreShared, BarSync, RetiresAtIssue
  <2> QED BY <1>1, <1>3, <1>4, <1>5, <2>1, <2>2
<1> QED BY <1>6, <1>7, <1>8, <1>9 DEF Issue

(* An access that is issued comes after all that are under way, so no      *)
(* earlier one sees it.                                                    *)
LEMMA EarlierUnmoved ==
  ASSUME TypeOK, Numbered, NEW v \in Warps, Issue(v), UNCHANGED memory,
         NEW row, NEW l, NEW id \in Nat, id <= issued
  PROVE  MemoryDue(id, row, l)' = MemoryDue(id, row, l)
<1> DEFINE before == {q \in Storing(row, l) : q.id < id}
           after  == {q \in Storing(row, l)' : q.id < id}
<1>1. \/ UNCHANGED memoryRequests
      \/ \E request : memoryRequests' = memoryRequests \cup {request} /\ request.id = issued
  BY QueuesAfterIssue
<1>2. after = before
  <2>1. CASE UNCHANGED memoryRequests
    BY <2>1 DEF Storing, Row
  <2>2. CASE \E request : memoryRequests' = memoryRequests \cup {request} /\ request.id = issued
    <3>1. PICK request : memoryRequests' = memoryRequests \cup {request} /\ request.id = issued
      BY <2>2
    <3>2. issued \in Nat /\ ~ (request.id < id)
      BY <3>1, UnderWay
    <3>3. /\ Storing(row, l) \subseteq Storing(row, l)'
          /\ Storing(row, l)' \subseteq Storing(row, l) \cup {request}
      BY <3>1 DEF Storing, Row
    <3> QED BY <3>2, <3>3
  <2> QED BY <1>1, <2>1, <2>2
<1>3. MemoryDue(id, row, l) = IF before = {} THEN memory[row][l] ELSE Result(Latest(before).id)
  BY DEF MemoryDue
<1>4. MemoryDue(id, row, l)' = IF after = {} THEN memory'[row][l] ELSE Result(Latest(after).id)
  BY DEF MemoryDue, Result, Latest
<1> HIDE DEF before, after
<1> QED BY <1>2, <1>3, <1>4

LEMMA IssueKeepsMemory ==
  ASSUME Accounted, MemoryWillBe, NEW v \in Warps, Issue(v), Execute(v)
  PROVE  MemoryWillBe'
<1> SUFFICES ASSUME NEW row \in Arrays \X Warps, NEW l \in Lanes
             PROVE  MemoryDue(issued, row, l)' = expectedMemory'[row][l]
  BY DEF MemoryWillBe
<1> USE DEF Accounted
<1> DEFINE inst == currentInstruction(v)
           here == inst.op = "ST.GLOBAL" /\ row = Row(inst.array, v) /\ l \in warps[v].activeMask
           later == {q \in Storing(row, l)' : q.id < issued'}
<1>1. MemoryDue(issued, row, l) = expectedMemory[row][l]
  BY DEF MemoryWillBe
<1>2. MemoryDue(issued, row, l)' = IF later = {} THEN memory'[row][l] ELSE Result(Latest(later).id)
  BY DEF MemoryDue, Result, Latest
<1>3. expectedMemory'[row][l] = IF here THEN Result(issued) ELSE expectedMemory[row][l]
  BY DEF Execute, DataTyped, Memories
<1>4. issued' = issued + 1 /\ issued \in Nat
  BY IssueKinds
<1>5. CASE here
  <2>1. PICK latency : queueRequest(v, latency)
    BY <1>5, IssueKinds DEF RegisterWriters, GlobalMemoryOps
  <2>2. PICK request : /\ memoryRequests' = memoryRequests \cup {request}
                       /\ request.id = issued /\ request.warpIndex = v
                       /\ request.isLoad = (inst.op = "LD.GLOBAL")
                       /\ request.activeMask = warps[v].activeMask
                       /\ request.array = inst.array
    BY <2>1, RequestQueued
  <2>3. request \in later
    <3>1. ~ request.isLoad /\ l \in request.activeMask /\ Row(request.array, request.warpIndex) = row
      BY <1>5, <2>2
    <3>2. request \in Storing(row, l)'
      BY <2>2, <3>1 DEF Storing, Row
    <3> QED BY <1>4, <2>2, <3>2
  <2>4. \A q \in later : q.id \in Nat /\ q.id <= request.id
    BY <1>4, <2>2, UnderWay DEF Storing
  <2>5. Latest(later).id = issued
    BY <2>2, <2>3, <2>4, LatestIs
  <2> QED BY <1>2, <1>3, <1>5, <2>3, <2>5
<1>6. CASE ~ here
  <2>1. Storing(row, l)' = Storing(row, l)
    <3>1. CASE UNCHANGED memoryRequests
      BY <3>1 DEF Storing, Row
    <3>2. CASE \E latency : queueRequest(v, latency) /\ inst.op \in GlobalMemoryOps
      <4>1. PICK request : /\ memoryRequests' = memoryRequests \cup {request}
                           /\ request.warpIndex = v
                           /\ request.isLoad = (inst.op = "LD.GLOBAL")
                           /\ request.activeMask = warps[v].activeMask
                           /\ request.array = inst.array
        BY <3>2, RequestQueued
      <4>2. request.isLoad \/ l \notin request.activeMask \/ Row(request.array, request.warpIndex) # row
        BY <1>6, <3>2, <4>1 DEF GlobalMemoryOps
      <4> QED BY <4>1, <4>2 DEF Storing, Row
    <3> QED BY <3>1, <3>2, IssueKinds
  <2>2. later = {q \in Storing(row, l) : q.id < issued}
    BY <1>4, <2>1, UnderWay DEF Storing
  <2>3. MemoryDue(issued, row, l)' = MemoryDue(issued, row, l)
    BY <1>2, <2>2 DEF MemoryDue, Execute
  <2> QED BY <1>1, <1>3, <1>6, <2>3
<1> QED BY <1>5, <1>6

LEMMA IssueKeepsRegisters ==
  ASSUME Accounted, MemoryWillBe, RegistersWillBe, NEW v \in Warps, Issue(v), Execute(v)
  PROVE  RegistersWillBe'
<1> SUFFICES ASSUME NEW w \in Warps, NEW l \in Lanes, NEW r \in Registers
             PROVE  RegisterDue(w, l, r)' = expectedRegisters'[w][l][r]
  BY DEF RegistersWillBe
<1> USE DEF Accounted
<1> DEFINE inst  == currentInstruction(v)
           here  == inst.op \in RegisterWriters /\ w = v /\ r = inst.dst
                    /\ l \in warps[v].activeMask
           value == IF inst.op = "LD.GLOBAL" THEN expectedMemory[Row(inst.array, v)][l]
                    ELSE Result(issued)
<1>1. RegisterDue(w, l, r) = expectedRegisters[w][l][r]
  BY DEF RegistersWillBe
<1>2. expectedRegisters'[w][l][r] = IF here THEN value ELSE expectedRegisters[w][l][r]
  BY DEF Execute, DataTyped, RegisterFiles
<1>3. UNCHANGED <<registers, memory>>
  BY DEF Execute
<1>4. issued' = issued + 1 /\ issued \in Nat /\ LoadsOf(v) = {}
  BY IssueKinds
<1>5. /\ \A p \in Writing(w, l, r) : p.id \in Nat /\ p.id < issued
      /\ \A q \in Loading(w, l, r) : /\ q.id \in Nat /\ q.id < issued /\ q \in LoadsOf(w)
                                     /\ \A p \in Loading(w, l, r) : p = q
  BY UnderWay DEF Writing, Loading, RegisterWrites, Loads, LoadsOf, OneLoad
<1>6. CASE Writing(w, l, r)' = Writing(w, l, r) /\ Loading(w, l, r)' = Loading(w, l, r) /\ ~ here
  <2>1. CASE Loading(w, l, r) = {}
    BY <1>1, <1>2, <1>3, <1>6, <2>1 DEF RegisterDue, Result, Latest
  <2>2. CASE Loading(w, l, r) # {}
    <3>1. PICK load : Loading(w, l, r) = {load}
      BY <1>5, <2>2
    <3>2. load.id \in Nat /\ load.id <= issued
      BY <1>4, <1>5, <3>1
    <3>3. RegisterDue(w, l, r)' = LoadDue(load, l)'
      BY <1>6, <3>1, <3>2, LoadingOne
    <3>4. RegisterDue(w, l, r) = LoadDue(load, l)
      BY <3>1, <3>2, LatestOne DEF RegisterDue
    <3>5. LoadDue(load, l)' = LoadDue(load, l)
      BY <1>3, <3>2, EarlierUnmoved DEF LoadDue, Row
    <3> QED BY <1>1, <1>2, <1>6, <3>3, <3>4, <3>5
  <2> QED BY <2>1, <2>2
<1>7. CASE UNCHANGED memoryRequests /\ \E ready, kind : queueWrite(v, kind, ready)
           /\ (kind = "Register" <=> inst.op \in RegisterWriters \ {"LD.GLOBAL"})
           /\ inst.op # "LD.GLOBAL"
  <2>1. PICK kind, write : /\ pendingWrites' = pendingWrites \cup {write}
                           /\ write.id = issued /\ write.kind = kind /\ write.warpIndex = v
                           /\ write.dst = inst.dst /\ write.activeMask = warps[v].activeMask
                           /\ (kind = "Register" <=> inst.op \in RegisterWriters)
    BY <1>7, WriteQueued
  <2>2. Loading(w, l, r)' = Loading(w, l, r)
    BY <1>7 DEF Loading, Loads
  <2>3. CASE here
    <3>1. Loading(w, l, r)' = {}
      BY <1>4, <1>5, <2>2, <2>3
    <3>2. write \in Writing(w, l, r)' /\ Writing(w, l, r)' \subseteq Writing(w, l, r) \cup {write}
      BY <2>1, <2>3 DEF Writing, RegisterWrites
    <3>3. \A p \in Writing(w, l, r)' : p.id \in Nat /\ p.id <= write.id
      BY <1>4, <1>5, <2>1, <3>2
    <3>4. Latest(Writing(w, l, r)').id = issued
      BY <2>1, <3>2, <3>3, LatestIs
    <3>5. RegisterDue(w, l, r)' = Result(issued)
      BY <3>1, <3>2, <3>4 DEF RegisterDue, Latest, Result
    <3> QED BY <1>2, <1>7, <2>3, <3>5
  <2>4. CASE ~ here
    <3>1. Writing(w, l, r)' = Writing(w, l, r)
      BY <2>1, <2>4 DEF Writing, RegisterWrites
    <3> QED BY <1>6, <2>2, <2>4, <3>1
  <2> QED BY <2>3, <2>4
<1>8. CASE UNCHANGED pendingWrites /\ inst.op \in GlobalMemoryOps
           /\ \E latency : queueRequest(v, latency)
  <2>1. PICK request : /\ memoryRequests' = memoryRequests \cup {request}
                       /\ request.id = issued /\ request.warpIndex = v
                       /\ request.isLoad = (inst.op = "LD.GLOBAL")
                       /\ request.dstReg = inst.dst
                       /\ request.activeMask = warps[v].activeMask
                       /\ request.array = inst.array
    BY <1>8, RequestQueued
  <2>2. Writing(w, l, r)' = Writing(w, l, r)
    BY <1>8 DEF Writing, RegisterWrites
  <2>3. CASE here
    <3>1. inst.op = "LD.GLOBAL" /\ inst.array \in Arrays
      BY <1>8, <2>3, IssueKinds DEF RegisterWriters, GlobalMemoryOps
    <3>2. Loading(w, l, r)' = {request}
      <4>1. request \in Loading(w, l, r)'
        BY <2>1, <2>3, <3>1 DEF Loading, Loads
      <4>2. Loading(w, l, r)' \subseteq Loading(w, l, r) \cup {request}
        BY <2>1 DEF Loading, Loads
      <4>3. Loading(w, l, r) = {}
        BY <1>4, <1>5, <2>3
      <4> QED BY <4>1, <4>2, <4>3
    <3>3. PICK row \in Arrays \X Warps : row = Row(inst.array, v)
      <4>1. Row(inst.array, v) \in Arrays \X Warps
        BY <3>1, ConfigAssumption DEF Row, Warps
      <4> QED BY <4>1
    <3>4. RegisterDue(w, l, r)' = LoadDue(request, l)'
      BY <1>4, <2>1, <3>2, LoadingOne
    <3>5. MemoryDue(issued, row, l) = expectedMemory[row][l]
      BY DEF MemoryWillBe
    <3>6. \A id \in Nat : id <= issued => MemoryDue(id, row, l)' = MemoryDue(id, row, l)
      BY <1>3, EarlierUnmoved
    <3>7. LoadDue(request, l)' = MemoryDue(issued, row, l)
      <4>1. request.id \in Nat /\ request.id <= issued
        BY <1>4, <2>1
      <4>2. MemoryDue(request.id, row, l)' = MemoryDue(request.id, row, l)
        BY <3>6, <4>1
      <4>3. LoadDue(request, l)' = MemoryDue(request.id, row, l)'
        <5>1. Row(request.array, request.warpIndex) = row
          BY <2>1, <3>3
        <5> QED BY <5>1 DEF LoadDue, Row
      <4> QED BY <2>1, <4>2, <4>3
    <3> QED BY <1>2, <2>3, <3>1, <3>3, <3>4, <3>5, <3>7
  <2>4. CASE ~ here
    <3>1. Loading(w, l, r)' = Loading(w, l, r)
      BY <1>8, <2>1, <2>4 DEF Loading, Loads, RegisterWriters
    <3> QED BY <1>6, <2>2, <2>4, <3>1
  <2> QED BY <2>3, <2>4
<1>9. CASE UNCHANGED <<pendingWrites, memoryRequests>> /\ inst.op \notin RegisterWriters
  <2>1. Writing(w, l, r)' = Writing(w, l, r) /\ Loading(w, l, r)' = Loading(w, l, r)
    BY <1>9 DEF Writing, Loading, RegisterWrites, Loads
  <2> QED BY <1>6, <1>9, <2>1
<1> QED
  <2>1. "SETP" \notin RegisterWriters
    BY DEF RegisterWriters
  <2>2. "LD.GLOBAL" \in RegisterWriters
    BY DEF RegisterWriters
  <2> QED BY <1>7, <1>8, <1>9, <2>1, <2>2, IssueKinds

-----------------------------------------------------------------------------
(* What holds of any launch, in order or not, and over relaunches. *)

(* A kernel is loaded into an SM with nothing under way. *)
LEMMA LoadProgramClears ==
  ASSUME TypeOK, loadProgram
  PROVE  /\ Accounted' /\ ScoreboardExact' /\ Settled' /\ MemoryWillBe' /\ RegistersWillBe'
<1> USE DEF loadProgram, queuesCleared
<1>1. TypeOK'
  <2>1. warps' \in [Warps -> WarpStates(Lanes)]
    BY LaunchAssumption DEF NewWarp, WarpStates
  <2>2. barriers' \in [CTAs -> [waitingWarps : SUBSET Warps, expectedWarps : Nat]]
    BY DEF NoBarrier
  <2>3. pendingWrites' = {} /\ memoryRequests' = {} /\ IsFiniteSet({})
    BY FS_EmptySet
  <2>4. scheduler' \in Schedulers /\ busyUntil' \in [Pipelines -> Nat] /\ phase' \in {"writeback", "issue"}
    BY DEF TypeOK
  <2> QED BY <2>1, <2>2, <2>3, <2>4 DEF TypeOK
<1>2. Numbered' /\ OneLoad' /\ RequestsNumbered' /\ Settled'
  BY DEF Numbered, OneLoad, LoadsOf, RequestsNumbered, Settled
<1>3. DataTyped'
  BY DEF DataTyped, RegisterFiles, Memories
<1>4. ScoreboardExact'
  <2> SUFFICES ASSUME NEW w \in Warps, NEW r \in Registers
               PROVE  scoreboard'[w][r] = Cardinality(RegisterWrites(w, r, pendingWrites'))
                                          + Cardinality(Loads(w, r, memoryRequests'))
    BY DEF ScoreboardExact
  <2>1. RegisterWrites(w, r, pendingWrites') = {} /\ Loads(w, r, memoryRequests') = {}
    BY DEF RegisterWrites, Loads
  <2>2. scoreboard'[w][r] = 0
    OBVIOUS
  <2>3. Cardinality({}) = 0
    BY FS_EmptySet
  <2> HIDE DEF loadProgram, queuesCleared
  <2> QED BY <2>1, <2>2, <2>3
<1>5. MemoryWillBe'
  <2> SUFFICES ASSUME NEW row \in Arrays \X Warps, NEW l \in Lanes
               PROVE  MemoryDue(issued, row, l)' = expectedMemory'[row][l]
    BY DEF MemoryWillBe
  <2>1. Storing(row, l)' = {}
    BY DEF Storing
  <2>2. memory'[row][l] = expectedMemory'[row][l]
    OBVIOUS
  <2> QED BY <2>1, <2>2 DEF MemoryDue
<1>6. RegistersWillBe'
  <2> SUFFICES ASSUME NEW w \in Warps, NEW l \in Lanes, NEW r \in Registers
               PROVE  RegisterDue(w, l, r)' = expectedRegisters'[w][l][r]
    BY DEF RegistersWillBe
  <2>1. Loading(w, l, r)' = {} /\ Writing(w, l, r)' = {}
    BY DEF Loading, Writing, Loads, RegisterWrites
  <2>2. registers'[w][l][r] = expectedRegisters'[w][l][r]
    OBVIOUS
  <2> QED BY <2>1, <2>2 DEF RegisterDue
<1> QED BY <1>1, <1>2, <1>3, <1>4, <1>5, <1>6 DEF Accounted

LEMMA DataTypedStep ==
  ASSUME Accounted, DataNext
  PROVE  DataTyped'
<1> USE DEF Accounted
<1>1. CASE Writeback /\ Land
  <2>1. \A row \in Arrays \X Warps, l \in Lanes, id \in Nat : MemoryBefore(id, row, l) \in Nat
    <3> SUFFICES ASSUME NEW row \in Arrays \X Warps, NEW l \in Lanes, NEW id \in Nat
                 PROVE  MemoryBefore(id, row, l) \in Nat
      OBVIOUS
    <3> DEFINE stores == StoresBefore(id, row, l)
    <3>1. \A q \in stores : q.id \in Nat /\ q.id < id
      BY UnderWay DEF StoresBefore, DueRequests
    <3>2. memory[row][l] \in Nat
      BY DEF DataTyped, Memories
    <3> HIDE DEF stores
    <3>3. stores # {} => Latest(stores).id \in Nat
      BY <3>1, LatestExists
    <3> QED BY <3>2, <3>3 DEF MemoryBefore, Result, stores
  <2>2. \A w \in Warps, l \in Lanes, r \in Registers : Landed(w, l, r) \in Nat
    <3> SUFFICES ASSUME NEW w \in Warps, NEW l \in Lanes, NEW r \in Registers
                 PROVE  Landed(w, l, r) \in Nat
      OBVIOUS
    <3> DEFINE writes == {p \in RegisterWrites(w, r, DueWrites) : l \in p.activeMask}
               loads  == {q \in Loads(w, r, DueRequests) : l \in q.activeMask}
    <3>1. /\ \A p \in writes : p.id \in Nat /\ p.id < issued
          /\ \A q \in loads : q \in memoryRequests /\ q.id \in Nat /\ q.id < issued
      BY UnderWay DEF RegisterWrites, Loads, DueWrites, DueRequests
    <3>2. registers[w][l][r] \in Nat /\ issued \in Nat
      BY UnderWay DEF DataTyped, RegisterFiles
    <3> HIDE DEF writes, loads
    <3>3. writes # {} => Latest(writes).id \in Nat
      BY <3>1, <3>2, LatestExists
    <3>4. loads # {} => MemoryBefore(Latest(loads).id, Row(Latest(loads).array, w), l) \in Nat
      <4> SUFFICES ASSUME loads # {}
                   PROVE  MemoryBefore(Latest(loads).id, Row(Latest(loads).array, w), l) \in Nat
        OBVIOUS
      <4>1. PICK load \in loads : load = Latest(loads)
        BY <3>1, <3>2, LatestExists
      <4>2. load.array \in Arrays /\ load.id \in Nat
        BY <3>1, <4>1 DEF RequestsNumbered
      <4>3. Row(load.array, w) \in Arrays \X Warps
        BY <4>2, ConfigAssumption DEF Row, Warps
      <4> QED BY <2>1, <4>1, <4>2, <4>3
    <3> QED BY <3>2, <3>3, <3>4 DEF Landed, Result, writes, loads
  <2>3. issued \in Nat
    BY UnderWay
  <2>4. registers' \in RegisterFiles /\ memory' \in Memories
    BY <1>1, <2>1, <2>2, <2>3 DEF Land, RegisterFiles, Memories
  <2> QED BY <1>1, <2>4 DEF Land, DataTyped
<1>2. CASE Idle /\ UNCHANGED dataVars
  BY <1>2 DEF dataVars, DataTyped
<1>3. ASSUME NEW w \in Warps, Issue(w), Execute(w) PROVE DataTyped'
  <2> DEFINE inst == currentInstruction(w)
  <2>1. /\ inst.op \in RegisterWriters => inst.dst \in Registers
        /\ inst.op \in GlobalMemoryOps => inst.array \in Arrays
        /\ issued \in Nat
    BY <1>3, IssueKinds
  <2>2. Result(issued) \in Nat
    BY <2>1 DEF Result
  <2>3. \A l \in Lanes : inst.op = "LD.GLOBAL" => expectedMemory[Row(inst.array, w)][l] \in Nat
    BY <2>1, ConfigAssumption DEF GlobalMemoryOps, DataTyped, Memories, Row, Warps
  <2>4. expectedRegisters' \in RegisterFiles
    <3> DEFINE value(l) == IF inst.op = "LD.GLOBAL" THEN expectedMemory[Row(inst.array, w)][l]
                           ELSE Result(issued)
    <3>1. \A l \in Lanes : value(l) \in Nat
      BY <2>2, <2>3
    <3>2. expectedRegisters' =
            IF inst.op \in RegisterWriters
            THEN [expectedRegisters EXCEPT ![w] =
                   [l \in Lanes |-> IF l \in warps[w].activeMask
                                    THEN [@[l] EXCEPT ![inst.dst] = value(l)]
                                    ELSE @[l]]]
            ELSE expectedRegisters
      BY <1>3 DEF Execute
    <3> HIDE DEF value, inst
    <3> QED BY <2>1, <3>1, <3>2 DEF DataTyped, RegisterFiles
  <2>5. expectedMemory' \in Memories
    <3>1. expectedMemory' =
           IF inst.op = "ST.GLOBAL"
           THEN [expectedMemory EXCEPT ![Row(inst.array, w)] =
                   [l \in Lanes |-> IF l \in warps[w].activeMask THEN Result(issued) ELSE @[l]]]
           ELSE expectedMemory
      BY <1>3 DEF Execute
    <3> HIDE DEF inst
    <3> QED BY <2>2, <3>1 DEF DataTyped, Memories
  <2> QED BY <1>3, <2>4, <2>5 DEF DataTyped, Execute
<1> QED BY <1>1, <1>2, <1>3 DEF DataNext

LEMMA RequestsNumberedStep ==
  ASSUME Accounted, [Next]_vars
  PROVE  RequestsNumbered'
<1> USE DEF Accounted
<1>1. CASE memoryRequests' \subseteq memoryRequests
  BY <1>1 DEF RequestsNumbered
<1>2. CASE Writeback \/ Idle \/ UNCHANGED vars
  BY <1>1, <1>2 DEF Writeback, Idle, vars
<1>3. ASSUME NEW w \in Warps, Issue(w) PROVE RequestsNumbered'
  <2>1. CASE UNCHANGED memoryRequests
    BY <1>1, <2>1
  <2>2. CASE currentInstruction(w).op \in GlobalMemoryOps /\ \E latency : queueRequest(w, latency)
    <3>1. currentInstruction(w).array \in Arrays
      BY <1>3, <2>2, IssueKinds
    <3>2. PICK request : /\ memoryRequests' = memoryRequests \cup {request}
                         /\ request.id = issued
                         /\ request.array = currentInstruction(w).array
      BY <2>2, RequestQueued
    <3>3. \A q \in memoryRequests : q.id # request.id
      BY <3>2, UnderWay
    <3> QED BY <3>1, <3>2, <3>3 DEF RequestsNumbered
  <2> QED BY <1>3, <2>1, <2>2, IssueKinds
<1> QED BY <1>2, <1>3 DEF Next

LEMMA DataStepIsStep ==
  ASSUME DataNext
  PROVE  Next
BY DEF DataNext, Next

(* Every step, of a run or between two. *)
LEMMA AccountedStep ==
  ASSUME Accounted, ScoreboardExact, Settled, [RelaunchNext]_relaunchVars
  PROVE  Accounted' /\ ScoreboardExact' /\ Settled'
<1>1. TypeOK
  BY DEF Accounted
<1>2. CASE loadProgram
  BY <1>1, <1>2, LoadProgramClears
<1>3. CASE DataNext
  <2>1. [Next]_vars
    BY <1>3, DataStepIsStep
  <2>2. TypeOK' /\ Numbered' /\ OneLoad' /\ ScoreboardExact' /\ Settled'
    BY <2>1, TypeStep, NumberedStep, OneLoadStep, ScoreboardStep, SettledStep DEF Accounted
  <2>3. DataTyped' /\ RequestsNumbered'
    BY <1>3, <2>1, DataTypedStep, RequestsNumberedStep
  <2> QED BY <2>2, <2>3 DEF Accounted
<1>4. CASE UNCHANGED relaunchVars
  <2>1. UNCHANGED vars /\ UNCHANGED dataVars
    BY <1>4 DEF relaunchVars
  <2>2. TypeOK' /\ Numbered' /\ OneLoad' /\ ScoreboardExact' /\ Settled'
    BY <2>1, TypeStep, NumberedStep, OneLoadStep, ScoreboardStep, SettledStep DEF Accounted
  <2>3. DataTyped' /\ RequestsNumbered'
    BY <2>1, RequestsNumberedStep DEF Accounted, DataTyped, dataVars
  <2> QED BY <2>2, <2>3 DEF Accounted
<1> QED BY <1>2, <1>3, <1>4 DEF RelaunchNext

-----------------------------------------------------------------------------
(* Theorems *)

LEMMA RelaunchAccounted == RelaunchSpec => [](Accounted /\ ScoreboardExact /\ Settled)
<1>1. RelaunchInit => Accounted /\ ScoreboardExact /\ Settled
  <2> SUFFICES ASSUME RelaunchInit PROVE Accounted /\ ScoreboardExact /\ Settled
    OBVIOUS
  <2>1. DataInit /\ Init
    BY DEF RelaunchInit, DataInit
  <2>2. TypeOK
    BY <2>1, InitType
  <2>3. Numbered /\ OneLoad /\ RequestsNumbered /\ Settled
    BY <2>1 DEF Init, Numbered, OneLoad, LoadsOf, RequestsNumbered, Settled
  <2>4. DataTyped
    BY <2>1 DEF DataInit, DataTyped, RegisterFiles, Memories
  <2>5. ScoreboardExact
    BY <2>1, InitScoreboard
  <2> QED BY <2>2, <2>3, <2>4, <2>5 DEF Accounted
<1>2. Accounted /\ ScoreboardExact /\ Settled /\ [RelaunchNext]_relaunchVars
      => (Accounted /\ ScoreboardExact /\ Settled)'
  BY AccountedStep
<1> QED BY <1>1, <1>2, PTL DEF RelaunchSpec

(* What ties the scoreboard, the waiting warps and the predicates to what  *)
(* is outstanding survives GPU::loadProgram, though setWarps resets them   *)
(* one by one, in the middle of whatever a run at its cycle limit left.    *)
THEOREM RelaunchStaysExact == RelaunchSpec => [](ScoreboardExact /\ LoadHoldsWarp /\ PredicatesSettled)
<1>1. Accounted /\ ScoreboardExact /\ Settled => ScoreboardExact /\ LoadHoldsWarp /\ PredicatesSettled
  BY OneLoadCounts DEF Accounted, Settled, PredicatesSettled
<1> QED BY <1>1, RelaunchAccounted, PTL

LEMMA MemoryInit ==
  ASSUME RelaunchInit
  PROVE  MemoryWillBe /\ RegistersWillBe
<1>1. Init /\ DataInit
  BY DEF RelaunchInit, DataInit
<1>2. \A row, l : Storing(row, l) = {}
  BY <1>1 DEF Init, Storing
<1>3. \A w, l, r : Writing(w, l, r) = {} /\ Loading(w, l, r) = {}
  BY <1>1 DEF Init, Writing, Loading, RegisterWrites, Loads
<1>4. MemoryWillBe
  BY <1>1, <1>2 DEF MemoryWillBe, MemoryDue, DataInit
<1>5. RegistersWillBe
  BY <1>1, <1>3 DEF RegistersWillBe, RegisterDue, DataInit
<1> QED BY <1>4, <1>5

LEMMA MemoryStep ==
  ASSUME Accounted, RequestsReturnInOrder, MemoryWillBe, [RelaunchNext]_relaunchVars
  PROVE  MemoryWillBe'
<1>1. CASE loadProgram
  BY <1>1, LoadProgramClears DEF Accounted
<1>2. CASE Writeback /\ Land
  BY <1>2, LandingKeepsMemory DEF Accounted
<1>3. ASSUME NEW w \in Warps, Issue(w), Execute(w) PROVE MemoryWillBe'
  BY <1>3, IssueKeepsMemory
<1>4. CASE UNCHANGED <<memoryRequests, issued, memory, expectedMemory>>
  <2> SUFFICES ASSUME NEW row \in Arrays \X Warps, NEW l \in Lanes
               PROVE  MemoryDue(issued, row, l)' = expectedMemory'[row][l]
    BY DEF MemoryWillBe
  <2>1. Storing(row, l)' = Storing(row, l)
    BY <1>4 DEF Storing, Row
  <2>2. MemoryDue(issued, row, l)' = MemoryDue(issued, row, l)
    BY <1>4, <2>1 DEF MemoryDue, Result, Latest
  <2> QED BY <1>4, <2>2 DEF MemoryWillBe
<1>5. CASE (Idle /\ UNCHANGED dataVars) \/ UNCHANGED relaunchVars
  BY <1>4, <1>5 DEF Idle, dataVars, relaunchVars, vars
<1> QED BY <1>1, <1>2, <1>3, <1>5 DEF RelaunchNext, DataNext

LEMMA RegistersStep ==
  ASSUME Accounted, LandsInOrder, MemoryWillBe, RegistersWillBe, [RelaunchNext]_relaunchVars
  PROVE  RegistersWillBe'
<1>1. CASE loadProgram
  BY <1>1, LoadProgramClears DEF Accounted
<1>2. CASE Writeback /\ Land
  BY <1>2, LandingKeepsRegisters DEF Accounted
<1>3. ASSUME NEW w \in Warps, Issue(w), Execute(w) PROVE RegistersWillBe'
  BY <1>3, IssueKeepsRegisters
<1>4. CASE UNCHANGED <<pendingWrites, memoryRequests, registers, memory, expectedRegisters>>
  <2> SUFFICES ASSUME NEW w \in Warps, NEW l \in Lanes, NEW r \in Registers
               PROVE  RegisterDue(w, l, r)' = expectedRegisters'[w][l][r]
    BY DEF RegistersWillBe
  <2>1. Writing(w, l, r)' = Writing(w, l, r) /\ Loading(w, l, r)' = Loading(w, l, r)
    BY <1>4 DEF Writing, Loading, RegisterWrites, Loads
  <2>2. ASSUME NEW load PROVE LoadDue(load, l)' = LoadDue(load, l)
    <3>1. PICK row : row = Row(load.array, load.warpIndex)
      OBVIOUS
    <3>2. Storing(row, l)' = Storing(row, l)
      BY <1>4 DEF Storing, Row
    <3>3. MemoryDue(load.id, row, l)' = MemoryDue(load.id, row, l)
      BY <1>4, <3>2 DEF MemoryDue, Result, Latest
    <3> QED BY <3>1, <3>3 DEF LoadDue, Row
  <2>3. CASE Loading(w, l, r) = {}
    <3>1. Latest(Writing(w, l, r))' = Latest(Writing(w, l, r))
      BY <2>1 DEF Latest
    <3>2. RegisterDue(w, l, r)' = RegisterDue(w, l, r)
      BY <1>4, <2>1, <2>3, <3>1 DEF RegisterDue, Result
    <3> QED BY <1>4, <3>2 DEF RegistersWillBe
  <2>4. CASE Loading(w, l, r) # {}
    <3>1. PICK load : load = Latest(Loading(w, l, r)) /\ load = Latest(Loading(w, l, r))'
      BY <2>1 DEF Latest
    <3>2. RegisterDue(w, l, r) = LoadDue(load, l)
      BY <2>4, <3>1 DEF RegisterDue
    <3>3. RegisterDue(w, l, r)' = LoadDue(load, l)'
      BY <2>1, <2>4, <3>1 DEF RegisterDue, LoadDue, MemoryDue, Storing, Row
    <3> QED BY <1>4, <2>2, <3>2, <3>3 DEF RegistersWillBe
  <2> QED BY <2>3, <2>4
<1>5. CASE (Idle /\ UNCHANGED dataVars) \/ UNCHANGED relaunchVars
  BY <1>4, <1>5 DEF Idle, dataVars, relaunchVars, vars
<1> QED BY <1>1, <1>2, <1>3, <1>5 DEF RelaunchNext, DataNext

(* What the scoreboard counts 0 writes for has none outstanding. *)
LEMMA NoneOutstanding ==
  ASSUME TypeOK, ScoreboardExact,
         NEW w \in Warps, NEW r \in Registers, scoreboard[w][r] = 0
  PROVE  RegisterWrites(w, r, pendingWrites) = {} /\ Loads(w, r, memoryRequests) = {}
<1> DEFINE writes == RegisterWrites(w, r, pendingWrites)
           loads  == Loads(w, r, memoryRequests)
<1>1. Cardinality(writes) + Cardinality(loads) = 0
  BY DEF ScoreboardExact
<1>2. /\ IsFiniteSet(writes) /\ Cardinality(writes) \in Nat
      /\ IsFiniteSet(loads) /\ Cardinality(loads) \in Nat
  BY OutstandingFinite DEF RegisterWrites, Loads
<1> HIDE DEF writes, loads
<1>3. writes = {} /\ loads = {}
  BY <1>1, <1>2, FS_EmptySet
<1> QED BY <1>3 DEF writes, loads

LEMMA DueMeansInOrder ==
  ASSUME Accounted, ScoreboardExact
  PROVE  /\ MemoryWillBe => MemoryInOrder
         /\ RegistersWillBe => RegistersInOrder
<1>1. ASSUME MemoryWillBe, memoryRequests = {} PROVE memory = expectedMemory
  <2>1. \A row \in Arrays \X Warps, l \in Lanes : memory[row][l] = expectedMemory[row][l]
    BY <1>1 DEF MemoryWillBe, MemoryDue, Storing
  <2> QED BY <2>1 DEF Accounted, DataTyped, Memories
<1>2. ASSUME RegistersWillBe, NEW w \in Warps, NEW l \in Lanes, NEW r \in Registers,
             scoreboard[w][r] = 0
      PROVE  registers[w][l][r] = expectedRegisters[w][l][r]
  <2>1. RegisterWrites(w, r, pendingWrites) = {} /\ Loads(w, r, memoryRequests) = {}
    BY <1>2, NoneOutstanding DEF Accounted
  <2>2. Writing(w, l, r) = {} /\ Loading(w, l, r) = {}
    BY <2>1 DEF Writing, Loading
  <2> QED BY <1>2, <2>2 DEF RegistersWillBe, RegisterDue
<1> QED BY <1>1, <1>2 DEF MemoryInOrder, RegistersInOrder

(* Over any number of kernels: as long as requests to a word return in the *)
(* order of issue, memory is what program order makes it.                  *)
THEOREM MemoryFollowsProgramOrder ==
  RelaunchSpec /\ []RequestsReturnInOrder => []MemoryInOrder
<1>1. RelaunchInit => MemoryWillBe
  BY MemoryInit
<1>2. Accounted /\ RequestsReturnInOrder /\ MemoryWillBe /\ [RelaunchNext]_relaunchVars
      => MemoryWillBe'
  BY MemoryStep
<1>3. Accounted /\ ScoreboardExact /\ MemoryWillBe => MemoryInOrder
  BY DueMeansInOrder
<1> QED BY <1>1, <1>2, <1>3, RelaunchAccounted, PTL DEF RelaunchSpec

(* As long as results land in the order of issue, every register that an   *)
(* instruction reads has the value of program order.                       *)
THEOREM RegistersFollowProgramOrder ==
  RelaunchSpec /\ []LandsInOrder => []RegistersInOrder
<1>1. RelaunchInit => MemoryWillBe /\ RegistersWillBe
  BY MemoryInit
<1>2. LandsInOrder => RequestsReturnInOrder
  BY DEF LandsInOrder
<1>3. Accounted /\ RequestsReturnInOrder /\ MemoryWillBe /\ [RelaunchNext]_relaunchVars
      => MemoryWillBe'
  BY MemoryStep
<1>4. Accounted /\ LandsInOrder /\ MemoryWillBe /\ RegistersWillBe /\ [RelaunchNext]_relaunchVars
      => RegistersWillBe'
  BY RegistersStep
<1>5. Accounted /\ ScoreboardExact /\ RegistersWillBe => RegistersInOrder
  BY DueMeansInOrder
<1> QED BY <1>1, <1>2, <1>3, <1>4, <1>5, RelaunchAccounted, PTL DEF RelaunchSpec

-----------------------------------------------------------------------------
(* Without a cache, all accesses take equally long. *)
SteadyLatency ==
  /\ \A q \in memoryRequests : q.returnCycle <= cycle + L1MissLatency
  /\ \A p, q \in memoryRequests : p.id < q.id => p.returnCycle <= q.returnCycle

LEMMA SteadyStep ==
  ASSUME L1HitLatency = L1MissLatency, Accounted, SteadyLatency, [RelaunchNext]_relaunchVars
  PROVE  SteadyLatency'
<1>1. cycle \in Nat /\ L1MissLatency \in Nat
  BY ConfigAssumption DEF Accounted, TypeOK
<1>2. \A q \in memoryRequests : q.returnCycle \in Nat /\ q.id \in Nat /\ q.id < issued
  BY UnderWay DEF Accounted
<1>3. CASE loadProgram
  BY <1>3 DEF loadProgram, queuesCleared, SteadyLatency
<1>4. CASE memoryRequests' \subseteq memoryRequests /\ (cycle' = cycle \/ cycle' = cycle + 1)
  BY <1>1, <1>2, <1>4 DEF SteadyLatency
<1>5. CASE Writeback \/ Idle \/ UNCHANGED vars
  BY <1>4, <1>5 DEF Writeback, Idle, EndTick, vars
<1>6. ASSUME NEW w \in Warps, Issue(w) PROVE SteadyLatency'
  <2>1. cycle' = cycle + 1
    BY <1>6 DEF Issue, Nop, Halt, Bra, BraPred, Arithmetic, Setp, LoadGlobal, StoreGlobal,
                LoadShared, StoreShared, BarSync, Issues, EndTick
  <2>2. CASE UNCHANGED memoryRequests
    BY <1>4, <2>1, <2>2
  <2>3. CASE LoadGlobal(w) \/ StoreGlobal(w)
    <3>1. queueRequest(w, L1MissLatency)
      BY <2>3 DEF LoadGlobal, StoreGlobal, GlobalLatencies
    <3>2. PICK request : /\ memoryRequests' = memoryRequests \cup {request}
                         /\ request.id = issued
                         /\ request.returnCycle = cycle + L1MissLatency
      BY <3>1, RequestQueued
    <3>3. issued \in Nat
      BY UnderWay DEF Accounted
    <3> QED BY <1>1, <1>2, <2>1, <3>2, <3>3 DEF SteadyLatency
  <2> QED BY <1>6, <2>2, <2>3 DEF Issue, Nop, Halt, Bra, BraPred, Arithmetic, Setp,
                LoadShared, StoreShared, BarSync, RetiresAtIssue
<1> QED BY <1>3, <1>5, <1>6 DEF RelaunchNext, DataNext, relaunchVars

(* Where a hit takes as long as a miss, memory is always what program      *)
(* order makes it: it is the cache's latency, not its contents, that can   *)
(* reorder two accesses to a word.                                         *)
THEOREM MemoryInOrderWithoutCache ==
  L1HitLatency = L1MissLatency => (RelaunchSpec => []MemoryInOrder)
<1> SUFFICES ASSUME L1HitLatency = L1MissLatency PROVE RelaunchSpec => []MemoryInOrder
  OBVIOUS
<1>1. RelaunchInit => SteadyLatency
  BY DEF RelaunchInit, DataInit, Init, SteadyLatency
<1>2. Accounted /\ SteadyLatency /\ [RelaunchNext]_relaunchVars => SteadyLatency'
  BY SteadyStep
<1>3. SteadyLatency => RequestsReturnInOrder
  BY DEF SteadyLatency, RequestsReturnInOrder
<1> QED BY <1>1, <1>2, <1>3, RelaunchAccounted, MemoryFollowsProgramOrder, PTL DEF RelaunchSpec

-----------------------------------------------------------------------------
(* What readiness() does not ask: whether a register that an instruction   *)
(* is to write has a write to one of the same lanes outstanding (canRead   *)
(* looks at the sources only), and whether an access to the words it       *)
(* accesses is under way, unless both are loads.                           *)
RegisterTaken(w) ==
  LET inst == currentInstruction(w)
  IN  /\ inst.op \in RegisterWriters
      /\ \E p \in RegisterWrites(w, inst.dst, pendingWrites) \cup Loads(w, inst.dst, memoryRequests) :
           p.activeMask \cap warps[w].activeMask # {}

WordTaken(w) ==
  LET inst == currentInstruction(w)
  IN  /\ inst.op \in GlobalMemoryOps
      /\ \E q \in memoryRequests :
           /\ ~ (q.isLoad /\ inst.op = "LD.GLOBAL")
           /\ Row(q.array, q.warpIndex) = Row(inst.array, w)
           /\ q.activeMask \cap warps[w].activeMask # {}

(* The issues that a check of the destination, and of the memory queue,    *)
(* would hold back.                                                        *)
IssuesOverWrite == \E w \in Warps : Issue(w) /\ RegisterTaken(w)
IssuesOverAccess == \E w \in Warps : Issue(w) /\ WordTaken(w)

(* Without them a register of a lane has one write outstanding at most,    *)
(* and a word one store or some loads.                                     *)
OneWriter ==
  /\ \A p, q \in pendingWrites :
       /\ p.kind = "Register" /\ q.kind = "Register"
       /\ p.warpIndex = q.warpIndex /\ p.dst = q.dst
       /\ p.activeMask \cap q.activeMask # {}
       => p = q
  /\ \A p \in pendingWrites, q \in memoryRequests :
       /\ p.kind = "Register" /\ q.isLoad
       /\ p.warpIndex = q.warpIndex /\ p.dst = q.dstReg
       => p.activeMask \cap q.activeMask = {}

OneAccess ==
  \A p, q \in memoryRequests :
    /\ ~ (p.isLoad /\ q.isLoad)
    /\ Row(p.array, p.warpIndex) = Row(q.array, q.warpIndex)
    /\ p.activeMask \cap q.activeMask # {}
    => p = q

LEMMA OneWriterStep ==
  ASSUME Accounted, OneWriter, ~ IssuesOverWrite, [RelaunchNext]_relaunchVars
  PROVE  OneWriter'
<1> USE DEF Accounted
<1>1. CASE loadProgram
  BY <1>1 DEF loadProgram, queuesCleared, OneWriter
<1>2. CASE pendingWrites' \subseteq pendingWrites /\ memoryRequests' \subseteq memoryRequests
  BY <1>2 DEF OneWriter
<1>3. CASE Writeback \/ Idle \/ UNCHANGED vars
  BY <1>2, <1>3 DEF Writeback, Idle, vars
<1>4. ASSUME NEW w \in Warps, Issue(w) PROVE OneWriter'
  <2> DEFINE inst == currentInstruction(w)
  <2>1. ASSUME inst.op \in RegisterWriters
        PROVE  /\ \A p \in pendingWrites :
                    p.kind = "Register" /\ p.warpIndex = w /\ p.dst = inst.dst
                    => p.activeMask \cap warps[w].activeMask = {}
               /\ \A q \in memoryRequests :
                    q.isLoad /\ q.warpIndex = w /\ q.dstReg = inst.dst
                    => q.activeMask \cap warps[w].activeMask = {}
    BY <1>4, <2>1 DEF IssuesOverWrite, RegisterTaken, RegisterWrites, Loads
  <2>2. CASE /\ inst.op \in RegisterWriters /\ UNCHANGED memoryRequests
             /\ \E ready : queueWrite(w, "Register", ready)
    <3>1. PICK write : /\ pendingWrites' = pendingWrites \cup {write}
                       /\ write.warpIndex = w /\ write.dst = inst.dst
                       /\ write.activeMask = warps[w].activeMask
      BY <2>2, WriteQueued
    <3> HIDE DEF inst
    <3> QED BY <2>1, <2>2, <3>1 DEF OneWriter
  <2>3. CASE UNCHANGED memoryRequests /\ \E ready : queueWrite(w, "Predicate", ready)
    <3>1. PICK write : /\ pendingWrites' = pendingWrites \cup {write}
                       /\ write.kind = "Predicate"
      BY <2>3, WriteQueued
    <3> QED BY <2>3, <3>1 DEF OneWriter
  <2>4. CASE UNCHANGED pendingWrites /\ \E latency : queueRequest(w, latency)
    <3>1. PICK request : /\ memoryRequests' = memoryRequests \cup {request}
                         /\ request.warpIndex = w /\ request.dstReg = inst.dst
                         /\ request.activeMask = warps[w].activeMask
                         /\ request.isLoad = (inst.op = "LD.GLOBAL")
      BY <2>4, RequestQueued
    <3>2. inst.op = "LD.GLOBAL" => inst.op \in RegisterWriters
      BY DEF RegisterWriters
    <3>3. ASSUME NEW p \in pendingWrites, p.kind = "Register", request.isLoad,
                 p.warpIndex = request.warpIndex, p.dst = request.dstReg
          PROVE  p.activeMask \cap request.activeMask = {}
      BY <2>1, <3>1, <3>2, <3>3
    <3> HIDE DEF inst
    <3> QED BY <2>4, <3>1, <3>3 DEF OneWriter
  <2>5. CASE UNCHANGED <<pendingWrites, memoryRequests>>
    BY <1>2, <2>5
  <2> QED BY <1>4, <2>2, <2>3, <2>4, <2>5, IssueKinds
<1> QED BY <1>1, <1>3, <1>4 DEF RelaunchNext, DataNext, relaunchVars

LEMMA OneAccessStep ==
  ASSUME Accounted, OneAccess, ~ IssuesOverAccess, [RelaunchNext]_relaunchVars
  PROVE  OneAccess'
<1> USE DEF Accounted
<1>1. CASE loadProgram
  BY <1>1 DEF loadProgram, queuesCleared, OneAccess
<1>2. CASE memoryRequests' \subseteq memoryRequests
  BY <1>2 DEF OneAccess, Row
<1>3. CASE Writeback \/ Idle \/ UNCHANGED vars
  BY <1>2, <1>3 DEF Writeback, Idle, vars
<1>4. ASSUME NEW w \in Warps, Issue(w) PROVE OneAccess'
  <2> DEFINE inst == currentInstruction(w)
  <2>1. CASE UNCHANGED memoryRequests
    BY <1>2, <2>1
  <2>2. CASE inst.op \in GlobalMemoryOps /\ \E latency : queueRequest(w, latency)
    <3>1. PICK request : /\ memoryRequests' = memoryRequests \cup {request}
                         /\ request.warpIndex = w /\ request.array = inst.array
                         /\ request.activeMask = warps[w].activeMask
                         /\ request.isLoad = (inst.op = "LD.GLOBAL")
      BY <2>2, RequestQueued
    <3>2. \A q \in memoryRequests :
            /\ ~ (q.isLoad /\ request.isLoad)
            /\ Row(q.array, q.warpIndex) = Row(request.array, request.warpIndex)
            => q.activeMask \cap request.activeMask = {}
      BY <1>4, <2>2, <3>1 DEF IssuesOverAccess, WordTaken
    <3>3. \A p, q \in memoryRequests \cup {request} :
            /\ ~ (p.isLoad /\ q.isLoad)
            /\ Row(p.array, p.warpIndex) = Row(q.array, q.warpIndex)
            /\ p.activeMask \cap q.activeMask # {}
            => p = q
      <4> HIDE DEF inst
      <4>1. ASSUME NEW p \in memoryRequests, NEW q \in memoryRequests \cup {request},
                   ~ (p.isLoad /\ q.isLoad),
                   Row(p.array, p.warpIndex) = Row(q.array, q.warpIndex),
                   p.activeMask \cap q.activeMask # {}
            PROVE  p = q
        BY <3>2, <4>1 DEF OneAccess
      <4> QED BY <4>1
    <3> QED BY <3>1, <3>3 DEF OneAccess, Row
  <2> QED BY <1>4, <2>1, <2>2, IssueKinds
<1> QED BY <1>1, <1>3, <1>4 DEF RelaunchNext, DataNext, relaunchVars

LEMMA OneOfEachInit ==
  ASSUME RelaunchInit
  PROVE  OneWriter /\ OneAccess
BY DEF RelaunchInit, DataInit, Init, OneWriter, OneAccess

LEMMA OneOfEachInOrder ==
  ASSUME Accounted
  PROVE  /\ OneWriter => WritesLandInOrder
         /\ OneAccess => RequestsReturnInOrder
<1>1. /\ \A p \in pendingWrites : p.id \in Nat
      /\ \A q \in memoryRequests : q.id \in Nat
  BY UnderWay DEF Accounted
<1>2. ASSUME OneWriter PROVE WritesLandInOrder
  BY <1>1, <1>2 DEF OneWriter, WritesLandInOrder
<1>3. ASSUME OneAccess PROVE RequestsReturnInOrder
  BY <1>1, <1>3 DEF OneAccess, RequestsReturnInOrder
<1> QED BY <1>2, <1>3

(* The scoreboard counts every write that such an issue passes over: a     *)
(* check of the destination there would hold back all of them (and, as it  *)
(* does not tell lanes apart, some that do no harm).                       *)
THEOREM ScoreboardSeesHazards ==
  RelaunchSpec => [][IssuesOverWrite =>
    \E w \in Warps : Issue(w) /\ scoreboard[w][currentInstruction(w).dst] # 0]_relaunchVars
<1>1. ASSUME Accounted, ScoreboardExact, IssuesOverWrite
      PROVE  \E w \in Warps : Issue(w) /\ scoreboard[w][currentInstruction(w).dst] # 0
  <2>1. PICK w \in Warps : Issue(w) /\ RegisterTaken(w)
    BY <1>1 DEF IssuesOverWrite
  <2> DEFINE r == currentInstruction(w).dst
  <2>2. r \in Registers
    BY <1>1, <2>1, IssueKinds DEF Accounted, RegisterTaken
  <2>3. RegisterWrites(w, r, pendingWrites) \cup Loads(w, r, memoryRequests) # {}
    BY <2>1 DEF RegisterTaken
  <2>4. scoreboard[w][r] # 0
    <3> HIDE DEF r
    <3> QED BY <1>1, <2>2, <2>3, NoneOutstanding DEF Accounted
  <2> QED BY <2>1, <2>4
<1> QED BY <1>1, RelaunchAccounted, PTL DEF RelaunchSpec

(* Results land out of order only after an issue to a register of a lane   *)
(* that has a write outstanding, or over an access under way to the same   *)
(* word.  So the one condition of RegistersFollowProgramOrder and                    *)
(* MemoryFollowsProgramOrder is what two checks in readiness() would       *)
(* establish for every kernel, at any latencies and with any scheduling.   *)
THEOREM InterlocksOrderResults ==
  RelaunchSpec /\ [][~ IssuesOverWrite /\ ~ IssuesOverAccess]_relaunchVars => []LandsInOrder
<1>1. RelaunchInit => OneWriter /\ OneAccess
  BY OneOfEachInit
<1>2. /\ Accounted /\ OneWriter /\ OneAccess
      /\ [RelaunchNext]_relaunchVars
      /\ [~ IssuesOverWrite /\ ~ IssuesOverAccess]_relaunchVars
      => OneWriter' /\ OneAccess'
  <2>1. CASE UNCHANGED relaunchVars
    BY <2>1 DEF relaunchVars, vars, OneWriter, OneAccess, Row
  <2> QED BY <2>1, OneWriterStep, OneAccessStep
<1>3. Accounted /\ OneWriter /\ OneAccess => LandsInOrder
  BY OneOfEachInOrder DEF LandsInOrder
<1> QED BY <1>1, <1>2, <1>3, RelaunchAccounted, PTL DEF RelaunchSpec

(* A run that has ended has then left in every register and every word     *)
(* what program order leaves there.                                        *)
Agrees == ~ Active => registers = expectedRegisters /\ memory = expectedMemory

LEMMA EndedMeansAgrees ==
  ASSUME Accounted, ScoreboardExact, RegistersInOrder, MemoryInOrder
  PROVE  Agrees
<1> SUFFICES ASSUME ~ Active PROVE registers = expectedRegisters /\ memory = expectedMemory
  BY DEF Agrees
<1>1. pendingWrites = {} /\ memoryRequests = {}
  BY DEF Active
<1>2. \A w \in Warps, r \in Registers : scoreboard[w][r] = 0
  <2> SUFFICES ASSUME NEW w \in Warps, NEW r \in Registers PROVE scoreboard[w][r] = 0
    OBVIOUS
  <2>1. /\ RegisterWrites(w, r, pendingWrites) = {} /\ Loads(w, r, memoryRequests) = {}
        /\ Cardinality({}) = 0
    BY <1>1, FS_EmptySet DEF RegisterWrites, Loads
  <2>2. scoreboard[w][r] = Cardinality(RegisterWrites(w, r, pendingWrites))
                           + Cardinality(Loads(w, r, memoryRequests))
    BY DEF ScoreboardExact
  <2> QED BY <2>1, <2>2
<1>3. \A w \in Warps, l \in Lanes, r \in Registers :
        registers[w][l][r] = expectedRegisters[w][l][r]
  BY <1>2 DEF RegistersInOrder
<1>4. registers = expectedRegisters
  BY <1>3 DEF Accounted, DataTyped, RegisterFiles
<1> QED BY <1>1, <1>4 DEF MemoryInOrder

(* A kernel whose issues never meet such a hazard computes what program    *)
(* order computes, over any number of launches: registers and memory, and  *)
(* every result of a run that ends.                                        *)
THEOREM InterlocksKeepProgramOrder ==
  RelaunchSpec /\ [][~ IssuesOverWrite /\ ~ IssuesOverAccess]_relaunchVars
  => [](RegistersInOrder /\ MemoryInOrder /\ Agrees)
<1>1. LandsInOrder => RequestsReturnInOrder
  BY DEF LandsInOrder
<1>2. Accounted /\ ScoreboardExact /\ RegistersInOrder /\ MemoryInOrder => Agrees
  BY EndedMeansAgrees
<1> QED BY <1>1, <1>2, InterlocksOrderResults, RegistersFollowProgramOrder,
           MemoryFollowsProgramOrder, RelaunchAccounted, PTL

(* Memory alone needs the check on the memory queue only.                  *)
THEOREM AccessInterlockKeepsMemory ==
  RelaunchSpec /\ [][~ IssuesOverAccess]_relaunchVars => []MemoryInOrder
<1>1. RelaunchInit => OneAccess
  BY OneOfEachInit
<1>2. /\ Accounted /\ OneAccess /\ [RelaunchNext]_relaunchVars
      /\ [~ IssuesOverAccess]_relaunchVars
      => OneAccess'
  <2>1. CASE UNCHANGED relaunchVars
    BY <2>1 DEF relaunchVars, vars, OneAccess, Row
  <2> QED BY <2>1, OneAccessStep
<1>3. Accounted /\ OneAccess => RequestsReturnInOrder
  BY OneOfEachInOrder
<1> QED BY <1>1, <1>2, <1>3, RelaunchAccounted, MemoryFollowsProgramOrder, PTL DEF RelaunchSpec

(* Where a hit takes as long as a miss, accesses return in order anyway:   *)
(* registers then need the check on the destination only, the one thing    *)
(* the scoreboard records and readiness() does not look at.                *)
THEOREM WriteInterlockKeepsRegisters ==
  L1HitLatency = L1MissLatency =>
    (RelaunchSpec /\ [][~ IssuesOverWrite]_relaunchVars => [](RegistersInOrder /\ MemoryInOrder))
<1> SUFFICES ASSUME L1HitLatency = L1MissLatency
             PROVE  RelaunchSpec /\ [][~ IssuesOverWrite]_relaunchVars
                    => [](RegistersInOrder /\ MemoryInOrder)
  OBVIOUS
<1>1. RelaunchInit => OneWriter
  BY OneOfEachInit
<1>2. /\ Accounted /\ OneWriter /\ [RelaunchNext]_relaunchVars
      /\ [~ IssuesOverWrite]_relaunchVars
      => OneWriter'
  <2>1. CASE UNCHANGED relaunchVars
    BY <2>1 DEF relaunchVars, vars, OneWriter
  <2> QED BY <2>1, OneWriterStep
<1>3. RelaunchInit => SteadyLatency
  BY DEF RelaunchInit, DataInit, Init, SteadyLatency
<1>4. Accounted /\ SteadyLatency /\ [RelaunchNext]_relaunchVars => SteadyLatency'
  BY SteadyStep
<1>5. Accounted /\ OneWriter /\ SteadyLatency => LandsInOrder
  <2>1. SteadyLatency => RequestsReturnInOrder
    BY DEF SteadyLatency, RequestsReturnInOrder
  <2> QED BY <2>1, OneOfEachInOrder DEF LandsInOrder
<1>6. LandsInOrder => RequestsReturnInOrder
  BY DEF LandsInOrder
<1> QED BY <1>1, <1>2, <1>3, <1>4, <1>5, <1>6, RelaunchAccounted,
           RegistersFollowProgramOrder, MemoryFollowsProgramOrder, PTL DEF RelaunchSpec

-----------------------------------------------------------------------------
(* No pipeline is taken longer than the run that took it. *)
BusyBounded ==
  /\ longestRun \in Nat
  /\ \A p \in Pipelines : busyUntil[p] <= cycle \/ busyUntil[p] <= longestRun

(* The pipelines, that GPU::loadProgram leaves as they are, hold no later  *)
(* run back beyond the end of the longest one.                             *)
THEOREM BusyOnlyFromEarlierRuns == RelaunchSpec => []BusyFromEarlierRuns
<1>1. RelaunchInit => BusyBounded
  BY DEF RelaunchInit, DataInit, Init, BusyBounded
<1>2. Accounted /\ BusyBounded /\ [RelaunchNext]_relaunchVars => BusyBounded'
  <2> SUFFICES ASSUME Accounted, BusyBounded, [RelaunchNext]_relaunchVars
               PROVE  BusyBounded'
    OBVIOUS
  <2>1. /\ cycle \in Nat /\ longestRun \in Nat /\ busyUntil \in [Pipelines -> Nat]
        /\ \A p \in Pipelines : busyUntil[p] <= cycle \/ busyUntil[p] <= longestRun
    BY DEF Accounted, TypeOK, BusyBounded
  <2>2. CASE loadProgram
    BY <2>1, <2>2 DEF loadProgram, BusyBounded
  <2>3. CASE UNCHANGED <<busyUntil, longestRun>> /\ (cycle' = cycle \/ cycle' = cycle + 1)
    BY <2>1, <2>3 DEF BusyBounded
  <2>4. CASE UNCHANGED relaunchVars \/ (UNCHANGED longestRun /\ (Writeback \/ Idle))
    BY <2>3, <2>4 DEF relaunchVars, vars, Writeback, Idle, EndTick
  <2>5. ASSUME NEW w \in Warps, Issue(w), UNCHANGED longestRun PROVE BusyBounded'
    <3>1. PICK ops : Issues(w, ops)
      BY <2>5 DEF Issue, Nop, Halt, Bra, BraPred, Arithmetic, Setp, LoadGlobal, StoreGlobal,
                  LoadShared, StoreShared, BarSync
    <3>2. cycle' = cycle + 1
      BY <3>1 DEF Issues, EndTick
    <3>3. \E first : busyUntil' \in {busyUntil, [busyUntil EXCEPT ![first] = cycle + 1]}
      BY <3>1 DEF Issues, Occupied
    <3>4. \A p \in Pipelines : busyUntil'[p] \in {busyUntil[p], cycle + 1}
      BY <2>1, <3>3
    <3>5. \A p \in Pipelines : busyUntil'[p] <= cycle + 1 \/ busyUntil'[p] <= longestRun
      BY <2>1, <3>4
    <3> QED BY <2>1, <2>5, <3>2, <3>5 DEF BusyBounded
  <2> QED BY <2>2, <2>4, <2>5 DEF RelaunchNext, DataNext
<1>3. Accounted /\ BusyBounded => BusyFromEarlierRuns
  <2> SUFFICES ASSUME Accounted, BusyBounded, NEW u \in Units, PipelineCount[u] > 0,
                      ~ functionUnitReady(u)
               PROVE  cycle < longestRun
    BY DEF BusyFromEarlierRuns
  <2>1. <<u, 1>> \in Pipelines
    BY ConfigAssumption DEF Pipelines
  <2>2. ~ (busyUntil[<<u, 1>>] <= cycle)
    BY <2>1 DEF functionUnitReady, FreePipelines
  <2>3. cycle \in Nat /\ longestRun \in Nat /\ busyUntil[<<u, 1>>] \in Nat
    BY <2>1 DEF Accounted, TypeOK, BusyBounded
  <2> QED BY <2>1, <2>2, <2>3 DEF BusyBounded
<1> QED BY <1>1, <1>2, <1>3, RelaunchAccounted, PTL DEF RelaunchSpec
=============================================================================
