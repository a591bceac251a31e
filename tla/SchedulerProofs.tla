---------------------------- MODULE SchedulerProofs ----------------------------
(***************************************************************************)
(* No policy passes a ready warp over more often than there are other      *)
(* warps, for every number of warps and every pattern of readiness.        *)
(***************************************************************************)
EXTENDS SchedulerFairness, TLAPS, FiniteSetTheorems, WellFoundedInduction

-----------------------------------------------------------------------------
(* Positions on the ring of warps, counted from the cursor. *)
Distance(cursor, w) == IF w >= cursor THEN w - cursor ELSE w + WarpCount - cursor

LEMMA SmallModulo ==
  ASSUME NEW n \in Nat \ {0}, NEW x \in Nat, x < 2 * n
  PROVE  x % n = IF x < n THEN x ELSE x - n
<1>1. CASE x < n
  BY <1>1, SMT
<1>2. CASE x >= n
  <2>1. (x - n) % n = x - n
    BY <1>2, SMT
  <2>2. x % n = (x - n) % n
    BY <1>2, SMT
  <2> QED BY <1>2, <2>1, <2>2
<1> QED BY <1>1, <1>2

LEMMA RingDistance ==
  ASSUME NEW cursor \in Warps, NEW w \in Warps
  PROVE  /\ (w + WarpCount - cursor) % WarpCount = Distance(cursor, w)
         /\ Distance(cursor, w) \in 0..(WarpCount - 1)
<1>1. /\ WarpCount \in Nat \ {0} /\ cursor \in Nat /\ w \in Nat
      /\ cursor < WarpCount /\ w < WarpCount
  BY FairnessAssumption DEF Warps
<1>2. w + WarpCount - cursor \in Nat /\ w + WarpCount - cursor < 2 * WarpCount
  BY <1>1
<1>3. (w + WarpCount - cursor) % WarpCount
        = IF w + WarpCount - cursor < WarpCount THEN w + WarpCount - cursor
          ELSE (w + WarpCount - cursor) - WarpCount
  BY <1>1, <1>2, SmallModulo
<1> QED BY <1>1, <1>3 DEF Distance

-----------------------------------------------------------------------------
(* What select returns is what its loops look for. *)

LEMMA LeastNatural ==
  ASSUME NEW S \in SUBSET Nat, S # {}
  PROVE  \E x \in S : \A y \in S : x <= y
<1>1. PICK x \in S : \A y \in S : <<y, x>> \notin OpToRel(<, Nat)
  BY NatLessThanWellFounded, WFMin
<1>2. ASSUME NEW y \in S PROVE x <= y
  <2>1. x \in Nat /\ y \in Nat
    OBVIOUS
  <2>2. y < x => <<y, x>> \in OpToRel(<, Nat)
    BY <2>1 DEF OpToRel
  <2>3. ~ (y < x)
    BY <1>1, <2>2, Zenon
  <2> QED BY <2>1, <2>3
<1> QED BY <1>2

LEMMA OldestOfReady ==
  ASSUME NEW ready \in SUBSET Warps, ready # {}, NEW lastIssue \in [Warps -> Nat]
  PROVE  /\ OldestOf(ready, lastIssue) \in ready
         /\ \A v \in ready :
              LET w == OldestOf(ready, lastIssue)
              IN  \/ lastIssue[w] < lastIssue[v]
                  \/ lastIssue[w] = lastIssue[v] /\ w <= v
<1> DEFINE cycles == {lastIssue[w] : w \in ready}
<1>0. cycles \in SUBSET Nat /\ cycles # {}
  OBVIOUS
<1>1. PICK oldest \in cycles : \A other \in cycles : oldest <= other
  <2> HIDE DEF cycles
  <2> QED BY <1>0, LeastNatural
<1> DEFINE same == {w \in ready : lastIssue[w] = oldest}
<1>2. same \in SUBSET Nat /\ same # {}
  <2>1. Warps \in SUBSET Nat
    BY FairnessAssumption DEF Warps
  <2> QED BY <2>1
<1>3. PICK w \in same : \A v \in same : w <= v
  BY <1>2, LeastNatural
<1>4. \A v \in ready : \/ lastIssue[w] < lastIssue[v]
                       \/ lastIssue[w] = lastIssue[v] /\ w <= v
  <2> SUFFICES ASSUME NEW v \in ready
               PROVE  \/ lastIssue[w] < lastIssue[v]
                      \/ lastIssue[w] = lastIssue[v] /\ w <= v
    OBVIOUS
  <2>1. oldest <= lastIssue[v] /\ lastIssue[v] \in Nat /\ oldest \in Nat
    BY <1>1
  <2> QED BY <1>3, <2>1
<1> QED BY <1>3, <1>4 DEF OldestOf

LEMMA NextReadyInRing ==
  ASSUME NEW ready \in SUBSET Warps, ready # {}, NEW cursor \in Warps
  PROVE  /\ NextInRing(cursor, ready, WarpCount) \in ready
         /\ \A v \in ready :
              Distance(cursor, NextInRing(cursor, ready, WarpCount)) <= Distance(cursor, v)
<1>1. \A w \in Warps : /\ (w + WarpCount - cursor) % WarpCount = Distance(cursor, w)
                       /\ Distance(cursor, w) \in Nat
  BY RingDistance
<1> DEFINE distances == {Distance(cursor, w) : w \in ready}
<1>2. PICK least \in distances : \A other \in distances : least <= other
  BY <1>1, LeastNatural
<1>3. PICK w \in ready : least = Distance(cursor, w)
  OBVIOUS
<1> HIDE DEF Distance
<1>4. \A v \in ready :
        (w + WarpCount - cursor) % WarpCount <= (v + WarpCount - cursor) % WarpCount
  BY <1>1, <1>2, <1>3
<1>5. NextInRing(cursor, ready, WarpCount) \in ready
      /\ \A v \in ready :
           (NextInRing(cursor, ready, WarpCount) + WarpCount - cursor) % WarpCount
             <= (v + WarpCount - cursor) % WarpCount
  BY <1>4 DEF NextInRing
<1> QED BY <1>1, <1>5

-----------------------------------------------------------------------------
(* The warps that go before w if the oldest is chosen. *)
AheadIn(lastIssue, w) == {v \in Warps : \/ lastIssue[v] < lastIssue[w]
                                        \/ lastIssue[v] = lastIssue[w] /\ v < w}
Ahead(w) == AheadIn(lastIssueCycle, w)

(* How many turns w may still lose. *)
TurnsIn(s, lastIssue, w) == IF s.policy = "RoundRobin" THEN Distance(s.roundRobinCursor, w)
                            ELSE Cardinality(AheadIn(lastIssue, w))
TurnsLeft(w) == TurnsIn(scheduler, lastIssueCycle, w)

Schedulers == [policy : Policies, roundRobinCursor : Warps, greedyWarp : Warps \cup {NoWarp}]

TypeInvariant ==
  /\ scheduler \in Schedulers
  /\ lastIssueCycle \in [Warps -> Nat]
  /\ cycle \in Nat
  /\ passedOver \in [Warps -> Nat]
  /\ \A w \in Warps : lastIssueCycle[w] <= cycle

TurnsBounded == \A w \in Warps : passedOver[w] + TurnsLeft(w) < WarpCount

LEMMA WarpsCounted == IsFiniteSet(Warps) /\ Cardinality(Warps) = WarpCount
<1>1. 0 \in Int /\ WarpCount - 1 \in Int /\ WarpCount \in Nat \ {0}
  BY FairnessAssumption
<1>2. IsFiniteSet(Warps) /\ Cardinality(Warps) = IF 0 > WarpCount - 1 THEN 0
                                                 ELSE (WarpCount - 1) - 0 + 1
  BY <1>1, FS_Interval DEF Warps
<1> QED BY <1>1, <1>2

LEMMA TurnsInBound ==
  ASSUME NEW s \in Schedulers, NEW lastIssue \in [Warps -> Nat], NEW w \in Warps
  PROVE  TurnsIn(s, lastIssue, w) \in 0..(WarpCount - 1) /\ IsFiniteSet(AheadIn(lastIssue, w))
<1>1. AheadIn(lastIssue, w) \subseteq Warps \ {w}
  BY DEF AheadIn, Warps
<1>2. IsFiniteSet(Warps \ {w}) /\ Cardinality(Warps \ {w}) = WarpCount - 1
  BY WarpsCounted, FS_RemoveElement
<1>3. IsFiniteSet(AheadIn(lastIssue, w)) /\ Cardinality(AheadIn(lastIssue, w)) <= WarpCount - 1
      /\ Cardinality(AheadIn(lastIssue, w)) \in Nat
  BY <1>1, <1>2, FS_Subset, FS_CardinalityType
<1>4. Distance(s.roundRobinCursor, w) \in 0..(WarpCount - 1)
  BY RingDistance DEF Schedulers
<1> QED BY <1>3, <1>4, FairnessAssumption DEF TurnsIn

(* The selected warp is a ready one, and how it comes before another. *)
LEMMA Selected ==
  ASSUME TypeInvariant, NEW ready \in SUBSET Warps, ready # {}
  PROVE  LET selected == select(scheduler, ready, lastIssueCycle, WarpCount)
         IN  /\ selected \in ready
             /\ scheduler.policy = "RoundRobin" =>
                  \A w \in ready : Distance(scheduler.roundRobinCursor, selected)
                                     <= Distance(scheduler.roundRobinCursor, w)
             /\ scheduler.policy # "RoundRobin" /\ ~ Prolongs(selected) =>
                  \A w \in ready \ {selected} : selected \in Ahead(w)
<1> DEFINE selected == select(scheduler, ready, lastIssueCycle, WarpCount)
<1>1. CASE scheduler.policy = "GreedyThenOldest" /\ scheduler.greedyWarp \in ready
  BY <1>1 DEF select, Prolongs
<1>2. CASE scheduler.policy = "RoundRobin"
  <2>1. selected = NextInRing(scheduler.roundRobinCursor, ready, WarpCount)
    BY <1>2 DEF select
  <2>2. scheduler.roundRobinCursor \in Warps
    BY DEF TypeInvariant, Schedulers
  <2> QED BY <1>2, <2>1, <2>2, NextReadyInRing
<1>3. CASE /\ ~ (scheduler.policy = "GreedyThenOldest" /\ scheduler.greedyWarp \in ready)
           /\ scheduler.policy # "RoundRobin"
  <2>1. selected = OldestOf(ready, lastIssueCycle)
    BY <1>3 DEF select
  <2>2. lastIssueCycle \in [Warps -> Nat]
    BY DEF TypeInvariant
  <2>3. selected \in ready
        /\ \A v \in ready : \/ lastIssueCycle[selected] < lastIssueCycle[v]
                            \/ lastIssueCycle[selected] = lastIssueCycle[v] /\ selected <= v
    BY <2>1, <2>2, OldestOfReady
  <2> HIDE DEF selected
  <2>4. \A w \in ready \ {selected} : selected \in Ahead(w)
    BY <2>3, <2>2 DEF Ahead, AheadIn, Warps
  <2> QED BY <1>3, <2>3, <2>4 DEF selected
<1> QED BY <1>1, <1>2, <1>3

LEMMA NextCursor ==
  ASSUME NEW w \in Warps
  PROVE  (w + 1) % WarpCount = IF w + 1 = WarpCount THEN 0 ELSE w + 1
<1>1. /\ WarpCount \in Nat \ {0} /\ w + 1 \in Nat /\ w + 1 < 2 * WarpCount
      /\ w + 1 <= WarpCount
  BY FairnessAssumption DEF Warps
<1> QED BY <1>1, SmallModulo

(* A selection costs every other ready warp one of its turns, unless it    *)
(* prolongs the greedy warp's.                                             *)
LEMMA SelectionStep ==
  ASSUME TypeInvariant, TurnsBounded, NEW ready \in SUBSET Warps, ready # {}, Select(ready),
         cycle' = cycle + 1
  PROVE  TypeInvariant' /\ TurnsBounded'
<1> DEFINE selected == select(scheduler, ready, lastIssueCycle, WarpCount)
<1>1. /\ scheduler' = afterSelect(scheduler, selected, WarpCount)
      /\ lastIssueCycle' = [lastIssueCycle EXCEPT ![selected] = cycle + 1]
      /\ passedOver' = [w \in Warps |->
           IF w \notin ready \ {selected} THEN 0
           ELSE IF Prolongs(selected) THEN passedOver[w]
           ELSE passedOver[w] + 1]
  BY DEF Select
<1>2. /\ selected \in ready
      /\ scheduler.policy = "RoundRobin" =>
           \A w \in ready : Distance(scheduler.roundRobinCursor, selected)
                              <= Distance(scheduler.roundRobinCursor, w)
      /\ scheduler.policy # "RoundRobin" /\ ~ Prolongs(selected) =>
           \A w \in ready \ {selected} : selected \in Ahead(w)
  BY Selected
<1> HIDE DEF selected
<1>3. selected \in Warps
  BY <1>2
<1>4. (selected + 1) % WarpCount \in Warps
  BY <1>3, NextCursor, FairnessAssumption DEF Warps
<1>5. /\ scheduler'.policy = scheduler.policy
      /\ scheduler.policy = "RoundRobin"
           => scheduler'.roundRobinCursor = (selected + 1) % WarpCount
      /\ scheduler' \in Schedulers
  BY <1>1, <1>3, <1>4 DEF afterSelect, TypeInvariant, Schedulers
<1>6. /\ lastIssueCycle' \in [Warps -> Nat] /\ passedOver' \in [Warps -> Nat]
      /\ cycle' \in Nat
      /\ \A w \in Warps : lastIssueCycle'[w] = IF w = selected THEN cycle + 1
                                               ELSE lastIssueCycle[w]
  BY <1>1, <1>3 DEF TypeInvariant
<1>7. TypeInvariant'
  BY <1>5, <1>6 DEF TypeInvariant
<1>8. ASSUME NEW w \in Warps PROVE passedOver'[w] + TurnsLeft(w)' < WarpCount
  <2>1. TurnsLeft(w) \in 0..(WarpCount - 1) /\ IsFiniteSet(Ahead(w))
    BY TurnsInBound DEF TypeInvariant, TurnsLeft, Ahead
  <2>2. TurnsLeft(w)' \in 0..(WarpCount - 1)
    BY <1>7, TurnsInBound DEF TypeInvariant, TurnsLeft
  <2>3. passedOver[w] \in Nat /\ passedOver[w] + TurnsLeft(w) < WarpCount
        /\ WarpCount \in Nat
    BY FairnessAssumption DEF TypeInvariant, TurnsBounded
  <2>4. CASE w \notin ready \ {selected}
    BY <1>1, <2>2, <2>3, <2>4
  <2>5. CASE w \in ready \ {selected} /\ scheduler.policy = "RoundRobin"
    <3>1. passedOver'[w] = passedOver[w] + 1
      BY <1>1, <2>5 DEF Prolongs
    <3>2. TurnsLeft(w)' <= TurnsLeft(w) - 1
      <4>1. /\ scheduler.roundRobinCursor \in Warps
            /\ TurnsLeft(w) = Distance(scheduler.roundRobinCursor, w)
            /\ TurnsLeft(w)' = Distance(scheduler'.roundRobinCursor, w)
        BY <1>5, <2>5 DEF TurnsLeft, TurnsIn, TypeInvariant, Schedulers
      <4>2. scheduler'.roundRobinCursor = IF selected + 1 = WarpCount THEN 0 ELSE selected + 1
        BY <1>3, <1>5, <2>5, NextCursor
      <4>3. Distance(scheduler.roundRobinCursor, selected)
              <= Distance(scheduler.roundRobinCursor, w)
        BY <1>2, <2>5
      <4> QED BY <1>3, <2>3, <2>5, <4>1, <4>2, <4>3 DEF Distance, Warps
    <3> QED BY <2>1, <2>2, <2>3, <3>1, <3>2
  <2>6. CASE w \in ready \ {selected} /\ scheduler.policy # "RoundRobin"
    <3>1. Ahead(w)' \subseteq Ahead(w) \ {selected}
      <4>1. lastIssueCycle'[w] = lastIssueCycle[w] /\ lastIssueCycle[w] <= cycle
            /\ lastIssueCycle[w] \in Nat /\ cycle \in Nat
        BY <1>6, <2>6 DEF TypeInvariant
      <4> QED BY <1>6, <4>1 DEF Ahead, AheadIn
    <3>2. TurnsLeft(w) = Cardinality(Ahead(w)) /\ TurnsLeft(w)' = Cardinality(Ahead(w)')
      BY <1>5, <2>6 DEF TurnsLeft, TurnsIn, Ahead
    <3>3. /\ IsFiniteSet(Ahead(w) \ {selected})
          /\ Cardinality(Ahead(w) \ {selected})
               = IF selected \in Ahead(w) THEN TurnsLeft(w) - 1 ELSE TurnsLeft(w)
      BY <2>1, <3>2, FS_RemoveElement
    <3>4. TurnsLeft(w)' <= IF selected \in Ahead(w) THEN TurnsLeft(w) - 1 ELSE TurnsLeft(w)
      BY <3>1, <3>2, <3>3, FS_Subset
    <3>5. CASE Prolongs(selected)
      BY <1>1, <2>1, <2>2, <2>3, <2>6, <3>4, <3>5
    <3>6. CASE ~ Prolongs(selected)
      <4>1. selected \in Ahead(w) /\ passedOver'[w] = passedOver[w] + 1
        BY <1>1, <1>2, <2>6, <3>6
      <4> QED BY <2>1, <2>2, <2>3, <3>4, <4>1
    <3> QED BY <3>5, <3>6
  <2> QED BY <2>4, <2>5, <2>6
<1> QED BY <1>7, <1>8 DEF TurnsBounded

(* A warp that stays ready gets its turn before any other has two, under   *)
(* every policy (GreedyThenOldest's prolonged turns counted as one): the   *)
(* turns it has lost and those it may still lose are fewer than the warps. *)
THEOREM WaitingIsBounded == Spec => []BoundedWaiting
<1>1. Init => TypeInvariant /\ TurnsBounded
  <2> SUFFICES ASSUME Init PROVE TypeInvariant /\ TurnsBounded
    OBVIOUS
  <2>1. TypeInvariant
    BY FairnessAssumption DEF Init, TypeInvariant, Schedulers, NewScheduler, Warps
  <2>2. ASSUME NEW w \in Warps PROVE passedOver[w] + TurnsLeft(w) < WarpCount
    <3>1. passedOver[w] = 0
      BY DEF Init
    <3>2. TurnsLeft(w) \in 0..(WarpCount - 1)
      BY <2>1, TurnsInBound DEF TypeInvariant, TurnsLeft
    <3> QED BY <3>1, <3>2, FairnessAssumption
  <2> QED BY <2>1, <2>2 DEF TurnsBounded
<1>2. TypeInvariant /\ TurnsBounded /\ [Next]_vars => (TypeInvariant /\ TurnsBounded)'
  <2> SUFFICES ASSUME TypeInvariant, TurnsBounded, [Next]_vars
               PROVE  (TypeInvariant /\ TurnsBounded)'
    OBVIOUS
  <2>1. CASE Tick
    BY <2>1, SelectionStep DEF Tick
  <2>2. CASE NothingReady
    <3>1. TypeInvariant'
      BY <2>2 DEF NothingReady, TypeInvariant
    <3>2. ASSUME NEW w \in Warps PROVE passedOver'[w] + TurnsLeft(w)' < WarpCount
      <4>1. passedOver'[w] = 0
        BY <2>2 DEF NothingReady
      <4>2. TurnsLeft(w)' \in 0..(WarpCount - 1)
        BY <3>1, TurnsInBound DEF TypeInvariant, TurnsLeft
      <4> QED BY <4>1, <4>2, FairnessAssumption
    <3> QED BY <3>1, <3>2 DEF TurnsBounded
  <2>3. CASE UNCHANGED vars
    BY <2>3 DEF vars, TypeInvariant, TurnsBounded, TurnsLeft
  <2> QED BY <2>1, <2>2, <2>3 DEF Next
<1>3. TypeInvariant /\ TurnsBounded => BoundedWaiting
  <2> SUFFICES ASSUME TypeInvariant, TurnsBounded, NEW w \in Warps
               PROVE  passedOver[w] < WarpCount
    BY DEF BoundedWaiting
  <2>1. /\ TurnsLeft(w) \in 0..(WarpCount - 1) /\ passedOver[w] \in Nat
        /\ passedOver[w] + TurnsLeft(w) < WarpCount
    BY TurnsInBound DEF TypeInvariant, TurnsBounded, TurnsLeft
  <2> QED BY <2>1, FairnessAssumption
<1> QED BY <1>1, <1>2, <1>3, PTL DEF Spec
=============================================================================
