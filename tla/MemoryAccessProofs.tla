------------------------- MODULE MemoryAccessProofs -------------------------
(***************************************************************************)
(* Theorems about MemoryAccess, for caches of any geometry, any sequence   *)
(* of accesses and any number of lanes.                                    *)
(***************************************************************************)
EXTENDS MemoryAccess, TLAPS, FiniteSetTheorems, WellFoundedInduction

-----------------------------------------------------------------------------
(* Lines, sets and tags. *)

LEMMA Division ==
  ASSUME NEW a \in Nat, NEW c \in Nat \ {0}
  PROVE  /\ a \div c \in Nat /\ a % c \in 0..(c - 1)
         /\ a = c * (a \div c) + (a % c)
OBVIOUS

LEMMA LineOfBase ==
  ASSUME NEW a \in Nat, NEW c \in Nat \ {0}
  PROVE  (a \div c) * c \in Nat /\ ((a \div c) * c) \div c = a \div c
OBVIOUS

LEMMA OneLine ==
  ASSUME NEW a \in Nat, NEW line \in Nat, NEW c \in Nat \ {0}
  PROVE  a - line * c \in 0..(c - 1) <=> line = a \div c
OBVIOUS

-----------------------------------------------------------------------------
(* The cache. *)

Lines == [valid : BOOLEAN, tag : Nat, lastUsed : Nat]

Caches(setCount, ways) ==
  [lineBytes : {LineBytes}, tick : Nat, setCount : {setCount},
   sets : [0..(setCount - 1) -> [1..ways -> Lines]]]

CacheTyped ==
  /\ \E setCount, ways \in Nat \ {0} : l1Cache \in Caches(setCount, ways)
  /\ used \in Seq(Nat)
  /\ l1Cache.tick = Len(used)

SetOf(line) == line % l1Cache.setCount
TagOf(line) == line \div l1Cache.setCount
Sets == 0..(l1Cache.setCount - 1)
Entry(s, w) == l1Cache.sets[s][w]

LEMMA CacheShape ==
  ASSUME CacheTyped
  PROVE  /\ l1Cache.setCount \in Nat \ {0}
         /\ \E n \in Nat \ {0} : /\ Ways = 1..n
                                /\ l1Cache \in Caches(l1Cache.setCount, n)
                                /\ l1Cache.sets \in [Sets -> [1..n -> Lines]]
<1>1. PICK c \in Nat \ {0}, n \in Nat \ {0} : l1Cache \in Caches(c, n)
  BY DEF CacheTyped
<1>2. l1Cache.setCount = c /\ l1Cache.sets \in [0..(c - 1) -> [1..n -> Lines]]
  BY <1>1 DEF Caches
<1>3. 0 \in 0..(c - 1)
  OBVIOUS
<1>4. Ways = 1..n
  BY <1>2, <1>3 DEF Ways
<1> QED BY <1>1, <1>2, <1>4 DEF Sets

LEMMA LeastNatural ==
  ASSUME NEW S \in SUBSET Nat, S # {}
  PROVE  \E x \in S : \A y \in S : x <= y
<1>1. PICK x \in S : \A y \in S : <<y, x>> \notin OpToRel(<, Nat)
  BY NatLessThanWellFounded, WFMin
<1>2. ASSUME NEW y \in S PROVE x <= y
  <2>1. x \in Nat /\ y \in Nat
    OBVIOUS
  <2>2. y < x => <<y, x>> \in OpToRel(<, Nat)
    BY <2>1 DEF OpToRel
  <2>3. ~ (y < x)
    BY <1>1, <2>2, Zenon
  <2> QED BY <2>1, <2>3
<1> QED BY <1>2

(* The line replaced is one that no other precedes. *)
LEMMA VictimIs ==
  ASSUME NEW n \in Nat \ {0}, NEW lines \in [1..n -> Lines]
  PROVE  /\ victim(lines) \in 1..n
         /\ \A v \in 1..n : ~ Precedes(lines[v], lines[victim(lines)])
<1> DEFINE full  == \A w \in 1..n : lines[w].valid
           group == {w \in 1..n : full \/ ~ lines[w].valid}
           times == {lines[w].lastUsed : w \in group}
<1>2. \A w \in 1..n : lines[w].valid \in BOOLEAN /\ lines[w].lastUsed \in Nat
  BY DEF Lines
<1>3. group # {}
  <2>1. CASE full
    <3>1. 1 \in 1..n
      OBVIOUS
    <3> QED BY <2>1, <3>1
  <2>2. CASE ~ full
    BY <2>2
  <2> QED BY <2>1, <2>2
<1>4. /\ \A v \in 1..n, w \in group : v \notin group => lines[v].valid /\ ~ lines[w].valid
      /\ \A v, w \in group : lines[v].valid <=> lines[w].valid
  OBVIOUS
<1> HIDE DEF full
<1>5. PICK time \in times : \A other \in times : time <= other
  <2>1. times \in SUBSET Nat /\ times # {}
    BY <1>2, <1>3
  <2> QED BY <2>1, LeastNatural
<1> DEFINE oldest == {w \in group : lines[w].lastUsed = time}
<1>6. PICK w \in oldest : \A v \in oldest : w <= v
  <2>1. oldest \in SUBSET Nat /\ oldest # {}
    BY <1>5
  <2> QED BY <2>1, LeastNatural
<1>7. \A v \in 1..n : IF v < w THEN Precedes(lines[w], lines[v])
                      ELSE ~ Precedes(lines[v], lines[w])
  <2> SUFFICES ASSUME NEW v \in 1..n
               PROVE  IF v < w THEN Precedes(lines[w], lines[v])
                      ELSE ~ Precedes(lines[v], lines[w])
    OBVIOUS
  <2>1. w \in 1..n /\ w \in group /\ lines[w].lastUsed = time
    BY <1>6
  <2>2. CASE v \notin group
    BY <1>2, <1>4, <2>1, <2>2 DEF Precedes
  <2>3. CASE v \in group
    <3>1. lines[v].valid = lines[w].valid /\ time <= lines[v].lastUsed
      BY <1>2, <1>4, <1>5, <2>1, <2>3
    <3>2. v < w => lines[v].lastUsed # time
      BY <1>6, <2>1, <2>3
    <3> QED BY <1>2, <2>1, <3>1, <3>2 DEF Precedes
  <2> QED BY <2>2, <2>3
<1>8. DOMAIN lines = 1..n
  OBVIOUS
<1>9. /\ victim(lines) \in 1..n
      /\ \A v \in 1..n : IF v < victim(lines) THEN Precedes(lines[victim(lines)], lines[v])
                         ELSE ~ Precedes(lines[v], lines[victim(lines)])
  <2>1. w \in 1..n
    BY <1>6
  <2> QED BY <1>7, <1>8, <2>1 DEF victim
<1>10. \A x, y \in 1..n : Precedes(lines[x], lines[y]) => ~ Precedes(lines[y], lines[x])
  BY <1>2 DEF Precedes
<1> QED BY <1>9, <1>10

(* What an access leaves behind. *)
NewEntry(line) == [valid |-> TRUE, tag |-> TagOf(line), lastUsed |-> Len(used) + 1]

Placed(line, way, hit) ==
  LET s == SetOf(line)
  IN  /\ hit => Entry(s, way).valid /\ Entry(s, way).tag = TagOf(line)
      /\ ~ hit => /\ \A w \in Ways : ~ (Entry(s, w).valid /\ Entry(s, w).tag = TagOf(line))
                  /\ \A w \in Ways : ~ Precedes(Entry(s, w), Entry(s, way))

LEMMA AccessIs ==
  ASSUME CacheTyped, NEW base \in Nat, NEW line, line = base \div LineBytes
  PROVE  \E way \in Ways :
           LET answer == access(l1Cache, base)
           IN  /\ answer.hit \in BOOLEAN
               /\ Placed(line, way, answer.hit)
               /\ answer.cache = [l1Cache EXCEPT !.tick = @ + 1,
                                                 !.sets[SetOf(line)][way] = NewEntry(line)]
<1> DEFINE s == SetOf(line)
           lines == l1Cache.sets[s]
           held == Holding(lines, TagOf(line))
           way == IF held # {} THEN CHOOSE w \in held : TRUE ELSE victim(lines)
           answer == access(l1Cache, base)
<1>1. PICK n \in Nat \ {0} : /\ Ways = 1..n
                            /\ l1Cache \in Caches(l1Cache.setCount, n)
                            /\ l1Cache.sets \in [Sets -> [1..n -> Lines]]
  BY CacheShape
<1>2. line \in Nat /\ s \in Sets /\ lines \in [1..n -> Lines]
  <2>1. line \in Nat
    BY MemoryAssumption, Division
  <2>2. s \in Sets
    BY <2>1, CacheShape, Division DEF SetOf, Sets
  <2> QED BY <1>1, <2>1, <2>2
<1>3. lineNumber(l1Cache, base) = line /\ setIndex(l1Cache, base) = s
      /\ tag(l1Cache, base) = TagOf(line) /\ l1Cache.tick = Len(used)
  BY <1>1 DEF Caches, lineNumber, setIndex, tag, SetOf, TagOf, CacheTyped
<1>4. /\ answer.hit = (held # {})
      /\ answer.cache = [l1Cache EXCEPT !.tick = @ + 1, !.sets[s][way] = NewEntry(line)]
  BY <1>3 DEF access, NewEntry
<1>5. held = {w \in 1..n : lines[w].valid /\ lines[w].tag = TagOf(line)}
  BY <1>2 DEF Holding
<1>6. CASE held # {}
  <2>1. way \in held
    BY <1>6
  <2>2. way \in Ways /\ Placed(line, way, TRUE)
    BY <1>1, <1>5, <2>1 DEF Placed, Entry
  <2> QED BY <1>4, <1>6, <2>2
<1>7. CASE held = {}
  <2>1. way = victim(lines)
    BY <1>7
  <2>2. /\ way \in 1..n
        /\ \A w \in 1..n : ~ Precedes(lines[w], lines[way])
    BY <1>2, <2>1, VictimIs
  <2>3. way \in Ways /\ Placed(line, way, FALSE)
    BY <1>1, <1>5, <1>7, <2>2 DEF Placed, Entry
  <2> QED BY <1>4, <1>7, <2>3
<1> QED BY <1>6, <1>7

-----------------------------------------------------------------------------
(* What the entries of the cache say of its past.                          *)

LastUse(j) == \A k \in (j + 1)..Len(used) : used[k] # used[j]

(* A valid entry tells when its line was last used.                        *)
EntriesAreLastUses ==
  \A s \in Sets, w \in Ways : Entry(s, w).valid =>
    LET j == Entry(s, w).lastUsed
    IN  /\ j \in 1..Len(used) /\ LastUse(j)
        /\ SetOf(used[j]) = s /\ TagOf(used[j]) = Entry(s, w).tag

EntriesDiffer ==
  \A s \in Sets, w, v \in Ways :
    Entry(s, w).valid /\ Entry(s, v).valid /\ Entry(s, w).tag = Entry(s, v).tag => w = v

(* A line that is not held has been replaced by later ones, in all ways.   *)
LatestAreHeld ==
  \A j \in 1..Len(used) : LastUse(j) =>
    LET s == SetOf(used[j])
    IN  \/ \E w \in Ways : Entry(s, w).valid /\ Entry(s, w).lastUsed = j
        \/ \A w \in Ways : Entry(s, w).valid /\ Entry(s, w).lastUsed > j

LeastRecentlyUsed ==
  CacheTyped /\ EntriesAreLastUses /\ EntriesDiffer /\ LatestAreHeld

Uses(line, way, hit) ==
  /\ used' = Append(used, line)
  /\ Placed(line, way, hit)
  /\ l1Cache' = [l1Cache EXCEPT !.tick = @ + 1, !.sets[SetOf(line)][way] = NewEntry(line)]

LEMMA UsesEffect ==
  ASSUME CacheTyped, NEW line \in Nat, NEW way \in Ways, NEW hit, Uses(line, way, hit)
  PROVE  /\ CacheTyped'
         /\ Len(used) \in Nat /\ Len(used') = Len(used) + 1
         /\ \A k \in 1..Len(used) : used'[k] = used[k] /\ used[k] \in Nat
         /\ used'[Len(used) + 1] = line
         /\ Sets' = Sets /\ Ways' = Ways /\ SetOf(line) \in Sets
         /\ \A x : SetOf(x)' = SetOf(x) /\ TagOf(x)' = TagOf(x)
         /\ \A s \in Sets, w \in Ways :
              Entry(s, w)' = IF s = SetOf(line) /\ w = way THEN NewEntry(line) ELSE Entry(s, w)
<1> DEFINE c == l1Cache.setCount
<1>1. c \in Nat \ {0}
  BY CacheShape
<1>2. PICK n \in Nat \ {0} : /\ Ways = 1..n
                            /\ l1Cache \in Caches(c, n)
                            /\ l1Cache.sets \in [Sets -> [1..n -> Lines]]
  BY CacheShape
<1>3. SetOf(line) \in Sets /\ TagOf(line) \in Nat
  BY <1>1, Division DEF SetOf, TagOf, Sets
<1>4. used \in Seq(Nat) /\ Len(used) \in Nat /\ l1Cache.tick = Len(used)
  BY DEF CacheTyped
<1>5. NewEntry(line) \in Lines
  BY <1>3, <1>4 DEF NewEntry, Lines
<1>6. /\ l1Cache' \in Caches(c, n) /\ l1Cache'.setCount = c
      /\ l1Cache'.tick = Len(used) + 1
      /\ l1Cache'.sets = [l1Cache.sets EXCEPT ![SetOf(line)][way] = NewEntry(line)]
  <2> DEFINE sets == [l1Cache.sets EXCEPT ![SetOf(line)][way] = NewEntry(line)]
  <2>1. sets \in [Sets -> [1..n -> Lines]]
    BY <1>2, <1>3, <1>5
  <2>2. l1Cache' = [l1Cache EXCEPT !.tick = @ + 1, !.sets = sets]
    BY DEF Uses
  <2> HIDE DEF sets
  <2>3. Sets = 0..(c - 1)
    BY DEF Sets
  <2>4. l1Cache'.sets = sets /\ l1Cache'.tick = Len(used) + 1 /\ l1Cache'.setCount = c
    BY <1>2, <1>4, <2>2 DEF Caches
  <2>5. l1Cache' \in Caches(c, n)
    <3> HIDE DEF c
    <3>1. PICK ticked : ticked = [l1Cache EXCEPT !.tick = @ + 1]
      OBVIOUS
    <3>2. ticked \in Caches(c, n)
      BY <1>2, <1>4, <3>1 DEF Caches
    <3>3. [ticked EXCEPT !.sets = sets] \in Caches(c, n)
      BY <2>1, <2>3, <3>2 DEF Caches
    <3>4. l1Cache' = [ticked EXCEPT !.sets = sets]
      BY <2>2, <3>1, Zenon
    <3> QED BY <3>3, <3>4
  <2> QED BY <2>4, <2>5 DEF sets
<1>7. used' \in Seq(Nat) /\ Len(used') = Len(used) + 1
  BY <1>4 DEF Uses
<1>8. CacheTyped'
  <2>1. l1Cache' \in Caches(c, n)
    BY <1>6
  <2> QED BY <1>1, <1>6, <1>7, <2>1 DEF CacheTyped, Caches
<1>9. Sets' = Sets /\ \A x : SetOf(x)' = SetOf(x) /\ TagOf(x)' = TagOf(x)
  BY <1>6 DEF Sets, SetOf, TagOf
<1>10. 0 \in Sets
  BY <1>1 DEF Sets
<1>11. \A s \in Sets, w \in Ways :
         Entry(s, w)' = IF s = SetOf(line) /\ w = way THEN NewEntry(line) ELSE Entry(s, w)
  BY <1>2, <1>3, <1>6 DEF Entry
<1>12. Ways' = Ways
  <2>1. l1Cache'.sets \in [Sets -> [1..n -> Lines]]
    BY <1>2, <1>3, <1>5, <1>6
  <2> QED BY <1>2, <1>10, <2>1 DEF Ways
<1>13. /\ \A k \in 1..Len(used) : used'[k] = used[k] /\ used[k] \in Nat
       /\ used'[Len(used) + 1] = line
  BY <1>4 DEF Uses
<1> QED BY <1>3, <1>4, <1>7, <1>8, <1>9, <1>11, <1>12, <1>13

(* accessLine in terms of the line it uses. *)
LEMMA AccessStep ==
  ASSUME CacheTyped, lineBasesLeft \in SUBSET Nat, accessLine
  PROVE  \E base \in lineBasesLeft, way \in Ways, hit \in BOOLEAN :
           /\ Uses(base \div LineBytes, way, hit)
           /\ lineBasesLeft' = lineBasesLeft \ {base}
           /\ l1Hits' = l1Hits + (IF hit THEN 1 ELSE 0)
           /\ l1Misses' = l1Misses + (IF hit THEN 0 ELSE 1)
           /\ memoryLatency' = slowest(memoryLatency, hit)
           /\ UNCHANGED <<request, first, bankVars>>
<1> DEFINE base == Smallest(lineBasesLeft)
           line == base \div LineBytes
           answer == access(l1Cache, base)
<1>1. base \in lineBasesLeft
  <2>1. \E x \in lineBasesLeft : \A y \in lineBasesLeft : x <= y
    BY LeastNatural DEF accessLine
  <2> QED BY <2>1 DEF Smallest
<1>2. PICK way \in Ways :
        /\ answer.hit \in BOOLEAN
        /\ Placed(line, way, answer.hit)
        /\ answer.cache = [l1Cache EXCEPT !.tick = @ + 1,
                                          !.sets[SetOf(line)][way] = NewEntry(line)]
  BY <1>1, AccessIs
<1>3. lineNumber(l1Cache, base) = line
  BY CacheShape DEF Caches, lineNumber
<1> HIDE DEF line, base
<1>4. Uses(line, way, answer.hit)
  BY <1>2, <1>3 DEF accessLine, Uses, base
<1>5. /\ lineBasesLeft' = lineBasesLeft \ {base}
      /\ l1Hits' = l1Hits + (IF answer.hit THEN 1 ELSE 0)
      /\ l1Misses' = l1Misses + (IF answer.hit THEN 0 ELSE 1)
      /\ memoryLatency' = slowest(memoryLatency, answer.hit)
      /\ UNCHANGED <<request, first, bankVars>>
  BY DEF accessLine, base
<1> QED BY <1>1, <1>2, <1>4, <1>5 DEF line

LEMMA SameLine ==
  ASSUME NEW a \in Nat, NEW b \in Nat, CacheTyped, SetOf(a) = SetOf(b), TagOf(a) = TagOf(b)
  PROVE  a = b
<1>1. PICK c \in Nat \ {0} : c = l1Cache.setCount
  BY CacheShape
<1>2. a = c * (a \div c) + (a % c) /\ b = c * (b \div c) + (b % c)
  BY Division
<1> QED BY <1>1, <1>2 DEF SetOf, TagOf

(* The way that takes a line is the only one to hold it. *)
LEMMA NoOtherHolds ==
  ASSUME LeastRecentlyUsed, NEW line \in Nat, NEW way \in Ways, NEW hit \in BOOLEAN,
         Uses(line, way, hit), NEW w \in Ways, w # way
  PROVE  ~ (Entry(SetOf(line), w).valid /\ Entry(SetOf(line), w).tag = TagOf(line))
<1>1. SetOf(line) \in Sets
  BY UsesEffect DEF LeastRecentlyUsed
<1>2. CASE hit
  BY <1>1, <1>2 DEF Uses, Placed, LeastRecentlyUsed, EntriesDiffer
<1>3. CASE ~ hit
  BY <1>3 DEF Uses, Placed
<1> QED BY <1>2, <1>3

LEMMA EntryIs ==
  ASSUME CacheTyped, NEW s \in Sets, NEW w \in Ways
  PROVE  Entry(s, w).valid \in BOOLEAN /\ Entry(s, w).tag \in Nat /\ Entry(s, w).lastUsed \in Nat
<1>1. PICK n \in Nat \ {0} : Ways = 1..n /\ l1Cache.sets \in [Sets -> [1..n -> Lines]]
  BY CacheShape
<1>2. Entry(s, w) \in Lines
  BY <1>1 DEF Entry
<1> QED BY <1>2 DEF Lines

LEMMA LeastRecentlyUsedStep ==
  ASSUME LeastRecentlyUsed, NEW line \in Nat, NEW way \in Ways, NEW hit \in BOOLEAN,
         Uses(line, way, hit)
  PROVE  LeastRecentlyUsed'
<1> DEFINE s0 == SetOf(line)
<1>1. PICK n \in Nat : n = Len(used)
  BY UsesEffect DEF LeastRecentlyUsed
<1>2. /\ CacheTyped /\ CacheTyped'
      /\ Len(used) = n /\ Len(used') = n + 1
      /\ \A k \in 1..n : used'[k] = used[k] /\ used[k] \in Nat
      /\ used'[n + 1] = line
      /\ Sets' = Sets /\ Ways' = Ways /\ s0 \in Sets
      /\ \A x : SetOf(x)' = SetOf(x) /\ TagOf(x)' = TagOf(x)
  BY <1>1, UsesEffect DEF LeastRecentlyUsed
<1>3. \A s \in Sets, w \in Ways :
        Entry(s, w)' = IF s = s0 /\ w = way THEN NewEntry(line) ELSE Entry(s, w)
  BY UsesEffect DEF LeastRecentlyUsed
<1>4. NewEntry(line).valid /\ NewEntry(line).tag = TagOf(line) /\ NewEntry(line).lastUsed = n + 1
  BY <1>1 DEF NewEntry
<1>5. \A w \in Ways : w # way => ~ (Entry(s0, w).valid /\ Entry(s0, w).tag = TagOf(line))
  BY NoOtherHolds
<1>6. \A j \in 1..n : LastUse(j)' <=> LastUse(j) /\ used[j] # line
  BY <1>2 DEF LastUse
<1>7. EntriesAreLastUses'
  <2> SUFFICES ASSUME NEW s \in Sets, NEW w \in Ways, Entry(s, w)'.valid,
                      NEW j, j = Entry(s, w)'.lastUsed
               PROVE  /\ j \in 1..(n + 1) /\ LastUse(j)'
                      /\ SetOf(used'[j]) = s /\ TagOf(used'[j]) = Entry(s, w)'.tag
    BY <1>2 DEF EntriesAreLastUses
  <2>1. CASE s = s0 /\ w = way
    <3>1. j = n + 1 /\ Entry(s, w)'.tag = TagOf(line)
      BY <1>3, <1>4, <2>1
    <3>2. LastUse(j)'
      BY <1>2, <3>1 DEF LastUse
    <3> QED BY <1>2, <2>1, <3>1, <3>2
  <2>2. CASE ~ (s = s0 /\ w = way)
    <3>1. Entry(s, w)' = Entry(s, w)
      BY <1>3, <2>2
    <3>2. /\ j \in 1..n /\ LastUse(j)
          /\ SetOf(used[j]) = s /\ TagOf(used[j]) = Entry(s, w).tag
      BY <1>1, <3>1 DEF LeastRecentlyUsed, EntriesAreLastUses
    <3>3. used[j] # line
      BY <1>5, <2>2, <3>1, <3>2
    <3> QED BY <1>2, <1>6, <3>1, <3>2, <3>3
  <2> QED BY <2>1, <2>2
<1>8. EntriesDiffer'
  <2> SUFFICES ASSUME NEW s \in Sets, NEW w \in Ways, NEW v \in Ways,
                      Entry(s, w)'.valid, Entry(s, v)'.valid,
                      Entry(s, w)'.tag = Entry(s, v)'.tag
               PROVE  w = v
    BY <1>2 DEF EntriesDiffer
  <2>1. CASE s = s0 /\ (w = way \/ v = way)
    BY <1>3, <1>4, <1>5, <2>1
  <2>2. CASE ~ (s = s0 /\ (w = way \/ v = way))
    <3>1. Entry(s, w)' = Entry(s, w) /\ Entry(s, v)' = Entry(s, v)
      BY <1>3, <2>2
    <3> QED BY <3>1 DEF LeastRecentlyUsed, EntriesDiffer
  <2> QED BY <2>1, <2>2
<1>9. LatestAreHeld'
  <2> SUFFICES ASSUME NEW j \in 1..(n + 1), LastUse(j)', NEW s, s = SetOf(used'[j])
               PROVE  \/ \E w \in Ways : Entry(s, w)'.valid /\ Entry(s, w)'.lastUsed = j
                      \/ \A w \in Ways : Entry(s, w)'.valid /\ Entry(s, w)'.lastUsed > j
    BY <1>2 DEF LatestAreHeld
  <2>1. CASE j = n + 1
    BY <1>2, <1>3, <1>4, <2>1
  <2>2. CASE j # n + 1
    <3>1. j \in 1..n
      BY <2>2
    <3>2. used'[j] = used[j] /\ used[j] \in Nat /\ LastUse(j) /\ used[j] # line
          /\ s = SetOf(used[j])
      BY <1>2, <1>6, <3>1
    <3>3. s \in Sets
      <4>1. l1Cache.setCount \in Nat \ {0}
        BY CacheShape DEF LeastRecentlyUsed
      <4> QED BY <3>2, <4>1, Division DEF SetOf, Sets
    <3>4. \/ \E w \in Ways : Entry(s, w).valid /\ Entry(s, w).lastUsed = j
          \/ \A w \in Ways : Entry(s, w).valid /\ Entry(s, w).lastUsed > j
      BY <1>1, <3>1, <3>2 DEF LeastRecentlyUsed, LatestAreHeld
    <3>5. CASE \A w \in Ways : Entry(s, w).valid /\ Entry(s, w).lastUsed > j
      BY <1>3, <1>4, <3>1, <3>3, <3>5
    <3>6. ASSUME NEW w \in Ways, Entry(s, w).valid, Entry(s, w).lastUsed = j
          PROVE  \/ \E v \in Ways : Entry(s, v)'.valid /\ Entry(s, v)'.lastUsed = j
                 \/ \A v \in Ways : Entry(s, v)'.valid /\ Entry(s, v)'.lastUsed > j
      <4>1. CASE ~ (s = s0 /\ w = way)
        BY <1>3, <3>3, <3>6, <4>1
      <4>2. CASE s = s0 /\ w = way
        <5>1. TagOf(used[j]) = Entry(s, way).tag
          BY <3>3, <3>6, <4>2 DEF LeastRecentlyUsed, EntriesAreLastUses
        <5>2. Entry(s, way).tag # TagOf(line)
          BY <1>2, <3>2, <4>2, <5>1, SameLine
        <5>3. \A v \in Ways : ~ Precedes(Entry(s, v), Entry(s, way))
          BY <4>2, <5>2 DEF Uses, Placed
        <5>4. ASSUME NEW v \in Ways, v # way
              PROVE  Entry(s, v).valid /\ Entry(s, v).lastUsed > j
          <6>1. Entry(s, v).lastUsed \in Nat /\ Entry(s, v).valid \in BOOLEAN
            BY <1>2, <3>3, EntryIs
          <6>2. Entry(s, v).valid /\ Entry(s, v).lastUsed >= j
            <7>1. /\ Entry(s, way).valid /\ Entry(s, way).lastUsed = j
                  /\ Entry(s, way).valid \in BOOLEAN
              BY <1>2, <3>3, <3>6, <4>2, EntryIs
            <7>2. ~ Precedes(Entry(s, v), Entry(s, way))
              BY <5>3
            <7>3. Entry(s, v).valid
              BY <6>1, <7>1, <7>2 DEF Precedes
            <7> QED BY <3>1, <6>1, <7>1, <7>2, <7>3 DEF Precedes
          <6>3. Entry(s, v).lastUsed # j
            <7>1. Entry(s, v).lastUsed = j => Entry(s, v).tag = Entry(s, way).tag
              BY <3>3, <5>1, <6>2 DEF LeastRecentlyUsed, EntriesAreLastUses
            <7> QED BY <3>3, <3>6, <4>2, <5>4, <6>2, <7>1 DEF LeastRecentlyUsed, EntriesDiffer
          <6> QED BY <3>1, <6>1, <6>2, <6>3
        <5> QED BY <1>3, <1>4, <3>1, <3>3, <4>2, <5>4
      <4> QED BY <4>1, <4>2
    <3> QED BY <3>4, <3>5, <3>6
  <2> QED BY <2>1, <2>2
<1> QED BY <1>2, <1>7, <1>8, <1>9 DEF LeastRecentlyUsed

-----------------------------------------------------------------------------
(* What a hit says of the past. *)

LEMMA LatestUse ==
  ASSUME Len(used) \in Nat, NEW k \in 1..Len(used)
  PROVE  \E m \in k..Len(used) : used[m] = used[k] /\ LastUse(m)
<1>1. PICK n \in Nat : n = Len(used)
  OBVIOUS
<1> DEFINE rest == {n - m : m \in {m \in k..n : used[m] = used[k]}}
<1>2. PICK x \in rest : \A y \in rest : x <= y
  <2>1. rest \in SUBSET Nat
    BY <1>1
  <2>2. n - k \in rest
    BY <1>1
  <2> HIDE DEF rest
  <2> QED BY <2>1, <2>2, LeastNatural
<1>3. PICK m \in k..n : used[m] = used[k] /\ x = n - m
  OBVIOUS
<1>4. ASSUME NEW i \in (m + 1)..n, used[i] = used[m] PROVE FALSE
  <2>1. n - i \in rest
    BY <1>1, <1>3, <1>4
  <2>2. n - m <= n - i
    BY <1>2, <1>3, <2>1
  <2> QED BY <1>1, <1>3, <1>4, <2>2
<1> QED BY <1>1, <1>3, <1>4 DEF LastUse

LEMMA WaysAre ==
  ASSUME CacheTyped
  PROVE  IsFiniteSet(Ways) /\ Cardinality(Ways) \in Nat
<1>1. PICK n \in Nat : Ways = 1..n
  BY CacheShape
<1> QED BY <1>1, FS_Interval, FS_CardinalityType

(* The rivals of an access, seen from before it.                           *)
RivalsSince(line, j) == {used[k] : k \in {k \in (j + 1)..Len(used) : SetOf(used[k]) = SetOf(line)}}

LEMMA RivalsAre ==
  ASSUME CacheTyped, NEW line \in Nat, NEW way \in Ways, NEW hit, Uses(line, way, hit),
         NEW n \in Nat, n = Len(used)
  PROVE  /\ RecentlyUsed(n + 1)' <=>
              \E j \in 1..n : /\ used[j] = line
                              /\ Cardinality(RivalsSince(line, j)) < Cardinality(Ways)
         /\ \A i \in 1..n : RecentlyUsed(i)' <=> RecentlyUsed(i)
<1>2. /\ \A k \in 1..n : used'[k] = used[k]
      /\ used'[n + 1] = line
      /\ Ways' = Ways
      /\ l1Cache'.setCount = l1Cache.setCount
  <2>1. l1Cache'.setCount = l1Cache.setCount
    BY CacheShape DEF Uses, Caches
  <2> QED BY <2>1, UsesEffect
<1>3. ASSUME NEW j \in 1..n PROVE Rivals(n + 1, j)' = RivalsSince(line, j)
  BY <1>2 DEF Rivals, RivalsSince, SetOf
<1>4. RecentlyUsed(n + 1)' <=>
        \E j \in 1..n : used[j] = line /\ Cardinality(RivalsSince(line, j)) < Cardinality(Ways)
  <2>1. (n + 1) - 1 = n
    OBVIOUS
  <2>2. RecentlyUsed(n + 1)' <=>
          \E j \in 1..n : used'[j] = used'[n + 1]
                          /\ Cardinality(Rivals(n + 1, j)') < Cardinality(Ways')
    BY <2>1 DEF RecentlyUsed
  <2> QED BY <1>2, <1>3, <2>2
<1>5. ASSUME NEW i \in 1..n PROVE RecentlyUsed(i)' <=> RecentlyUsed(i)
  <2>1. \A j \in 1..(i - 1) : used'[j] = used[j] /\ used'[i] = used[i]
    BY <1>2
  <2>2. ASSUME NEW j \in 1..(i - 1) PROVE Rivals(i, j)' = Rivals(i, j)
    <3>1. \A k \in (j + 1)..(i - 1) : used'[k] = used[k]
      BY <1>2
    <3> QED BY <1>2, <2>1, <3>1 DEF Rivals
  <2> QED BY <1>2, <2>1, <2>2 DEF RecentlyUsed
<1> QED BY <1>4, <1>5

LEMMA HitIsRecent ==
  ASSUME LeastRecentlyUsed, NEW line \in Nat, NEW way \in Ways, NEW hit \in BOOLEAN,
         Uses(line, way, hit), NEW n \in Nat, n = Len(used)
  PROVE  hit <=> RecentlyUsed(n + 1)'
<1> DEFINE s == SetOf(line)
<1>2. /\ CacheTyped /\ s \in Sets
      /\ \A k \in 1..n : used[k] \in Nat
      /\ IsFiniteSet(Ways) /\ Cardinality(Ways) \in Nat
  BY UsesEffect, WaysAre DEF LeastRecentlyUsed
<1>3. RecentlyUsed(n + 1)' <=>
        \E j \in 1..n : used[j] = line /\ Cardinality(RivalsSince(line, j)) < Cardinality(Ways)
  BY <1>2, RivalsAre
<1>4. \A w \in Ways : Entry(s, w).valid =>
        /\ Entry(s, w).lastUsed \in 1..n /\ LastUse(Entry(s, w).lastUsed)
        /\ SetOf(used[Entry(s, w).lastUsed]) = s
        /\ TagOf(used[Entry(s, w).lastUsed]) = Entry(s, w).tag
  BY <1>2 DEF LeastRecentlyUsed, EntriesAreLastUses
<1>5. ASSUME hit
      PROVE  \E j \in 1..n : used[j] = line
                             /\ Cardinality(RivalsSince(line, j)) < Cardinality(Ways)
  <2>1. Entry(s, way).valid /\ Entry(s, way).tag = TagOf(line)
    BY <1>5 DEF Uses, Placed
  <2>2. PICK j \in 1..n : j = Entry(s, way).lastUsed
    BY <1>4, <2>1
  <2>3. used[j] = line
    BY <1>2, <1>4, <2>1, <2>2, SameLine
  <2> DEFINE others == Ways \ {way}
             line_of == [w \in others |-> used[Entry(s, w).lastUsed]]
             image == {line_of[w] : w \in others}
  <2>4. IsFiniteSet(others) /\ Cardinality(others) = Cardinality(Ways) - 1
    BY <1>2, FS_RemoveElement
  <2>5. IsFiniteSet(image) /\ Cardinality(image) <= Cardinality(others)
    <3>1. line_of \in Surjection(others, image)
      BY DEF Surjection
    <3> QED BY <2>4, <3>1, FS_Surjection
  <2>6. RivalsSince(line, j) \subseteq image
    <3> SUFFICES ASSUME NEW k \in (j + 1)..n, SetOf(used[k]) = s
                 PROVE  used[k] \in image
      BY DEF RivalsSince
    <3>1. k \in 1..n
      BY <2>2
    <3>2. PICK m \in k..n : used[m] = used[k] /\ LastUse(m)
      BY <3>1, LatestUse
    <3>3. m \in 1..n /\ m > j
      BY <2>2, <3>1, <3>2
    <3>4. \/ \E w \in Ways : Entry(s, w).valid /\ Entry(s, w).lastUsed = m
          \/ \A w \in Ways : Entry(s, w).valid /\ Entry(s, w).lastUsed > m
      BY <3>2, <3>3 DEF LeastRecentlyUsed, LatestAreHeld
    <3>5. ~ (Entry(s, way).lastUsed > m)
      BY <2>2, <3>3
    <3>6. PICK w \in Ways : Entry(s, w).valid /\ Entry(s, w).lastUsed = m
      BY <3>4, <3>5
    <3>7. w \in others
      BY <2>2, <3>3, <3>6
    <3>8. line_of[w] = used[k]
      BY <3>2, <3>6, <3>7
    <3> QED BY <3>7, <3>8
  <2> HIDE DEF image, others
  <2>7. Cardinality(RivalsSince(line, j)) <= Cardinality(image)
        /\ Cardinality(RivalsSince(line, j)) \in Nat /\ Cardinality(image) \in Nat
        /\ Cardinality(others) \in Nat
    BY <2>4, <2>5, <2>6, FS_Subset, FS_CardinalityType
  <2>8. Cardinality(RivalsSince(line, j)) < Cardinality(Ways)
    BY <1>2, <2>4, <2>5, <2>7
  <2> QED BY <2>3, <2>8
<1>6. ASSUME ~ hit, NEW j \in 1..n, used[j] = line
      PROVE  ~ (Cardinality(RivalsSince(line, j)) < Cardinality(Ways))
  <2>1. PICK m \in j..n : used[m] = line /\ LastUse(m)
    BY <1>6, LatestUse
  <2>2. m \in 1..n
    BY <2>1
  <2>3. \A w \in Ways : ~ (Entry(s, w).valid /\ Entry(s, w).tag = TagOf(line))
    BY <1>6 DEF Uses, Placed
  <2>4. ~ \E w \in Ways : Entry(s, w).valid /\ Entry(s, w).lastUsed = m
    BY <1>4, <2>1, <2>3
  <2>5. \A w \in Ways : Entry(s, w).valid /\ Entry(s, w).lastUsed > m
    BY <2>1, <2>2, <2>4 DEF LeastRecentlyUsed, LatestAreHeld
  <2> DEFINE rivals == RivalsSince(line, j)
             line_of == [w \in Ways |-> used[Entry(s, w).lastUsed]]
  <2>6. ASSUME NEW w \in Ways PROVE line_of[w] \in rivals
    <3>1. Entry(s, w).lastUsed \in 1..n /\ Entry(s, w).lastUsed > m
          /\ SetOf(used[Entry(s, w).lastUsed]) = s
      BY <1>4, <2>5
    <3>2. Entry(s, w).lastUsed \in (j + 1)..n
      BY <2>1, <3>1
    <3> QED BY <3>1, <3>2 DEF RivalsSince
  <2>7. ASSUME NEW w \in Ways, NEW v \in Ways, line_of[w] = line_of[v] PROVE w = v
    <3>1. Entry(s, w).tag = Entry(s, v).tag
      BY <1>4, <2>5, <2>7
    <3> QED BY <1>2, <2>5, <3>1 DEF LeastRecentlyUsed, EntriesDiffer
  <2>8. line_of \in Injection(Ways, rivals)
    BY <2>6, <2>7 DEF Injection, IsInjective
  <2>9. IsFiniteSet(rivals)
    <3> DEFINE use == [k \in {k \in (j + 1)..n : SetOf(used[k]) = s} |-> used[k]]
    <3>1. IsFiniteSet((j + 1)..n)
      BY FS_Interval
    <3>2. IsFiniteSet({k \in (j + 1)..n : SetOf(used[k]) = s})
      BY <3>1, FS_Subset
    <3>3. use \in Surjection({k \in (j + 1)..n : SetOf(used[k]) = s}, rivals)
      BY DEF Surjection, RivalsSince
    <3> QED BY <3>2, <3>3, FS_Surjection
  <2> HIDE DEF rivals
  <2>10. Cardinality(Ways) <= Cardinality(rivals) /\ Cardinality(rivals) \in Nat
    BY <2>8, <2>9, FS_Injection, FS_CardinalityType
  <2> QED BY <1>2, <2>10 DEF rivals
<1> QED BY <1>3, <1>5, <1>6

-----------------------------------------------------------------------------
(* The inductive invariant.                                                *)

RequestTyped ==
  /\ IsFiniteSet(request.activeMask)
  /\ \A lane \in request.activeMask : request.addresses[lane] \in Nat

Transactions == lineBases(request.addresses, request.activeMask, LineBytes)

(* The transactions of an access are to be made, or made, each once.       *)
TransactionsMade ==
  /\ first \in 0..Len(used)
  /\ IF request.space # "Global" THEN lineBasesLeft = {}
     ELSE /\ lineBasesLeft \cup {used[i] * LineBytes : i \in Own} = Transactions
          /\ \A i \in Own : used[i] * LineBytes \notin lineBasesLeft
          /\ \A i, j \in Own : used[i] = used[j] => i = j

LatencySoFar ==
  request.space = "Global" /\ HitLatency < MissLatency =>
    memoryLatency = IF Own = {} THEN 0 ELSE LineLatency(\A i \in Own : RecentlyUsed(i))

(* The words in the banks examined. *)
Examined == {a \in Words : bankForAddress(a) < bank}
BanksOf(words) == {bankForAddress(a) : a \in words}

ConflictsCounted ==
  IF request.space # "Shared" THEN bank = BankCount
  ELSE /\ bank \in 0..BankCount
       /\ conflicts \in Nat /\ maxConflictDegree \in Nat
       /\ conflicts + Cardinality(BanksOf(Examined)) = Cardinality(Examined)
       /\ maxConflictDegree <= conflicts + 1

HitsCounted ==
  l1Hits \in Nat /\ l1Misses \in Nat /\ HitsAreRecentUses

AccessesInv ==
  /\ LeastRecentlyUsed /\ HitsCounted
  /\ RequestTyped /\ TransactionsMade /\ LatencySoFar /\ ConflictsCounted

LEMMA InitAccesses == Init => AccessesInv
<1> SUFFICES ASSUME Init PROVE AccessesInv
  OBVIOUS
<1>1. PICK g \in Geometries : l1Cache = NewCache(g[1], LineBytes, g[2])
  BY DEF Init
<1>2. used = <<>> /\ Len(used) = 0
  BY DEF Init
<1> DEFINE c == SetCount(g[1], LineBytes, g[2])
           n == AtLeastOne(g[2])
<1>3. c \in Nat \ {0} /\ n \in Nat \ {0}
  <2>1. g[2] \in Nat /\ n \in Nat \ {0}
    BY MemoryAssumption DEF AtLeastOne
  <2>2. g[1] \div LineBytes \in Nat
    BY MemoryAssumption, Division
  <2>3. (g[1] \div LineBytes) \div n \in Nat
    BY <2>1, <2>2, Division
  <2> QED BY <2>1, <2>3 DEF SetCount, AtLeastOne
<1>4. l1Cache = [lineBytes |-> LineBytes, tick |-> 0, setCount |-> c,
                 sets |-> [s \in 0..(c - 1) |-> [w \in 1..n |-> EmptyLine]]]
  BY <1>1 DEF NewCache
<1> HIDE DEF c, n
<1>5. EmptyLine \in Lines /\ ~ EmptyLine.valid
  BY DEF EmptyLine, Lines
<1>6. l1Cache \in Caches(c, n)
  BY <1>3, <1>4, <1>5 DEF Caches
<1>7. CacheTyped
  <2>1. l1Cache.tick = 0
    BY <1>4
  <2> QED BY <1>2, <1>3, <1>6, <2>1 DEF CacheTyped
<1>8. \A s \in Sets, w \in Ways : ~ Entry(s, w).valid
  <2>1. l1Cache.setCount = c
    BY <1>4
  <2>2. Sets = 0..(c - 1) /\ 0 \in Sets
    BY <1>3, <2>1 DEF Sets
  <2>3. \A s \in Sets : l1Cache.sets[s] = [w \in 1..n |-> EmptyLine]
    BY <1>4, <2>2
  <2>4. Ways = 1..n
    BY <2>2, <2>3 DEF Ways
  <2> QED BY <1>5, <2>3, <2>4 DEF Entry
<1>9. LeastRecentlyUsed
  BY <1>2, <1>7, <1>8 DEF LeastRecentlyUsed, EntriesAreLastUses, EntriesDiffer, LatestAreHeld
<1>10. HitsCounted
  <2>1. DOMAIN used = {}
    BY <1>2
  <2>2. /\ {i \in DOMAIN used : RecentlyUsed(i)} = {}
        /\ {i \in DOMAIN used : ~ RecentlyUsed(i)} = {}
    BY <2>1
  <2> QED BY <2>2, FS_EmptySet DEF HitsCounted, HitsAreRecentUses, Init
<1>11. RequestTyped /\ request.space = "none"
  BY FS_EmptySet DEF RequestTyped, Init, NoAccess
<1> QED BY <1>2, <1>9, <1>10, <1>11
        DEF AccessesInv, TransactionsMade, LatencySoFar, ConflictsCounted, Init

LEMMA CacheUntouched ==
  ASSUME UNCHANGED <<l1Cache, used>>
  PROVE  /\ LeastRecentlyUsed => LeastRecentlyUsed'
         /\ \A i : RecentlyUsed(i)' = RecentlyUsed(i)
<1>1. LeastRecentlyUsed => LeastRecentlyUsed'
  <2>1. CacheTyped => CacheTyped'
    BY DEF CacheTyped, Sets, Ways
  <2>2. EntriesAreLastUses => EntriesAreLastUses'
    BY DEF EntriesAreLastUses, LastUse, SetOf, TagOf, Entry, Sets, Ways
  <2>3. EntriesDiffer => EntriesDiffer'
    BY DEF EntriesDiffer, Entry, Sets, Ways
  <2>4. LatestAreHeld => LatestAreHeld'
    BY DEF LatestAreHeld, LastUse, SetOf, Entry, Ways
  <2> QED BY <2>1, <2>2, <2>3, <2>4 DEF LeastRecentlyUsed
<1>2. \A i : RecentlyUsed(i)' = RecentlyUsed(i)
  BY DEF RecentlyUsed, Rivals, Ways
<1> QED BY <1>1, <1>2

LEMMA HitsUntouched ==
  ASSUME HitsCounted, UNCHANGED <<l1Cache, l1Hits, l1Misses, used>>
  PROVE  HitsCounted'
BY CacheUntouched DEF HitsCounted, HitsAreRecentUses

LEMMA RequestOf ==
  ASSUME NEW space, NEW r \in Requests, begin(space, r)
  PROVE  RequestTyped' /\ request'.space = space /\ lineBasesLeft = {} /\ bank = BankCount
<1>1. /\ request'.space = space
      /\ request'.addresses = r.addresses /\ request'.activeMask = r.activeMask
  BY DEF begin
<1>2. /\ IsFiniteSet(r.activeMask)
      /\ \A lane \in r.activeMask : r.addresses[lane] \in Nat
  BY MemoryAssumption, FS_Subset
<1> QED BY <1>1, <1>2 DEF RequestTyped, begin, AccessDone

LEMMA GlobalStep ==
  ASSUME AccessesInv, NEW r \in Requests, issueGlobalMemory(r)
  PROVE  AccessesInv'
<1>1. begin("Global", r) /\ UNCHANGED <<l1Cache, l1Hits, l1Misses, used, bankVars>>
  BY DEF issueGlobalMemory
<1>2. LeastRecentlyUsed' /\ HitsCounted'
  BY <1>1, CacheUntouched, HitsUntouched DEF AccessesInv
<1>3. RequestTyped' /\ request'.space = "Global" /\ bank = BankCount
  BY <1>1, RequestOf
<1>4. PICK n \in Nat : n = Len(used) /\ n = Len(used')
  BY <1>1, UsesEffect DEF AccessesInv, LeastRecentlyUsed, CacheTyped
<1>5. first' = n /\ Own' = {}
  <2>1. first' = n
    BY <1>4 DEF issueGlobalMemory
  <2> QED BY <1>4, <2>1 DEF Own
<1>6. lineBasesLeft' = Transactions'
  BY DEF issueGlobalMemory, begin, Transactions
<1>7. TransactionsMade'
  BY <1>3, <1>4, <1>5, <1>6 DEF TransactionsMade
<1>8. LatencySoFar'
  BY <1>5 DEF LatencySoFar, issueGlobalMemory
<1>9. ConflictsCounted'
  BY <1>1, <1>3 DEF ConflictsCounted, bankVars
<1> QED BY <1>2, <1>3, <1>7, <1>8, <1>9 DEF AccessesInv

LEMMA SharedStep ==
  ASSUME AccessesInv, NEW r \in Requests, issueSharedMemory(r)
  PROVE  AccessesInv'
<1>1. begin("Shared", r) /\ UNCHANGED cacheVars
  BY DEF issueSharedMemory
<1>2. LeastRecentlyUsed' /\ HitsCounted'
  BY <1>1, CacheUntouched, HitsUntouched DEF AccessesInv, cacheVars
<1>3. RequestTyped' /\ request'.space = "Shared" /\ lineBasesLeft = {}
  BY <1>1, RequestOf
<1>4. TransactionsMade'
  BY <1>1, <1>3 DEF AccessesInv, TransactionsMade, cacheVars
<1>5. LatencySoFar'
  BY <1>3 DEF LatencySoFar
<1>6. bank' = 0 /\ conflicts' = 0 /\ maxConflictDegree' = 0
  BY DEF issueSharedMemory
<1>7. Examined' = {}
  <2>1. \A a \in Words' : bankForAddress(a) \in Nat
    BY <1>3 DEF Words, RequestTyped, bankForAddress, BankCount
  <2> QED BY <1>6, <2>1 DEF Examined
<1>8. ConflictsCounted'
  <2>1. BanksOf(Examined)' = {}
    BY <1>7 DEF BanksOf
  <2> QED BY <1>3, <1>6, <1>7, <2>1, FS_EmptySet DEF ConflictsCounted, BankCount
<1> QED BY <1>2, <1>3, <1>4, <1>5, <1>8 DEF AccessesInv

(* A line base and the number of its line. *)
LEMMA TransactionIs ==
  ASSUME RequestTyped, NEW base \in Transactions
  PROVE  /\ base \in Nat /\ base \div LineBytes \in Nat
         /\ (base \div LineBytes) * LineBytes = base
         /\ \E lane \in request.activeMask :
              base \div LineBytes = request.addresses[lane] \div LineBytes
<1>1. PICK lane \in request.activeMask : base = lineBase(request.addresses[lane], LineBytes)
  BY DEF Transactions, lineBases
<1>2. PICK a \in Nat : a = request.addresses[lane]
  BY DEF RequestTyped
<1>3. base = (a \div LineBytes) * LineBytes /\ LineBytes \in Nat \ {0}
  BY <1>1, <1>2, MemoryAssumption DEF lineBase
<1>4. base \in Nat /\ base \div LineBytes = a \div LineBytes /\ a \div LineBytes \in Nat
  BY <1>3, LineOfBase, Division
<1> QED BY <1>2, <1>3, <1>4

LEMMA LineStep ==
  ASSUME AccessesInv, accessLine
  PROVE  AccessesInv'
<1>1. request.space = "Global"
  BY DEF AccessesInv, TransactionsMade, accessLine
<1>2. lineBasesLeft \subseteq Transactions /\ lineBasesLeft \in SUBSET Nat
  <2>1. lineBasesLeft \subseteq Transactions
    BY <1>1 DEF AccessesInv, TransactionsMade
  <2> QED BY <2>1, TransactionIs DEF AccessesInv
<1>3. PICK base \in lineBasesLeft, way \in Ways, hit \in BOOLEAN :
        /\ Uses(base \div LineBytes, way, hit)
        /\ lineBasesLeft' = lineBasesLeft \ {base}
        /\ l1Hits' = l1Hits + (IF hit THEN 1 ELSE 0)
        /\ l1Misses' = l1Misses + (IF hit THEN 0 ELSE 1)
        /\ memoryLatency' = slowest(memoryLatency, hit)
        /\ UNCHANGED <<request, first, bankVars>>
  BY <1>2, AccessStep DEF AccessesInv, LeastRecentlyUsed
<1>4. PICK line \in Nat : line = base \div LineBytes /\ line * LineBytes = base
  BY <1>2, TransactionIs DEF AccessesInv
<1>5. PICK n \in Nat : n = Len(used)
  BY <1>3, <1>4, UsesEffect DEF AccessesInv, LeastRecentlyUsed
<1>6. /\ Len(used') = n + 1 /\ used'[n + 1] = line
      /\ \A k \in 1..n : used'[k] = used[k] /\ used[k] \in Nat
      /\ used' \in Seq(Nat)
  <2>1. CacheTyped'
    BY <1>3, <1>4, UsesEffect DEF AccessesInv, LeastRecentlyUsed
  <2> QED BY <1>3, <1>4, <1>5, <2>1, UsesEffect DEF AccessesInv, LeastRecentlyUsed, CacheTyped
<1>7. LeastRecentlyUsed'
  BY <1>3, <1>4, LeastRecentlyUsedStep DEF AccessesInv
<1>8. /\ hit <=> RecentlyUsed(n + 1)'
      /\ \A i \in 1..n : RecentlyUsed(i)' <=> RecentlyUsed(i)
  BY <1>3, <1>4, <1>5, HitIsRecent, RivalsAre DEF AccessesInv, LeastRecentlyUsed
<1>9. HitsCounted'
  <2> DEFINE recent == {i \in 1..n : RecentlyUsed(i)}
             others == {i \in 1..n : ~ RecentlyUsed(i)}
  <2>1. DOMAIN used = 1..n /\ DOMAIN used' = 1..(n + 1)
    BY <1>5, <1>6 DEF AccessesInv, LeastRecentlyUsed, CacheTyped
  <2>2. /\ l1Hits = Cardinality(recent) /\ l1Misses = Cardinality(others)
        /\ l1Hits \in Nat /\ l1Misses \in Nat
    BY <2>1 DEF AccessesInv, HitsCounted, HitsAreRecentUses
  <2>3. IsFiniteSet(recent) /\ IsFiniteSet(others)
    <3>1. IsFiniteSet(1..n)
      BY FS_Interval
    <3> QED BY <3>1, FS_Subset
  <2>4. n + 1 \notin recent /\ n + 1 \notin others
    OBVIOUS
  <2>5. \A i \in 1..(n + 1) : i \in 1..n \/ i = n + 1
    OBVIOUS
  <2>6. {i \in 1..(n + 1) : RecentlyUsed(i)'} = IF hit THEN recent \cup {n + 1} ELSE recent
    BY <1>8, <2>5
  <2>7. {i \in 1..(n + 1) : ~ RecentlyUsed(i)'} = IF hit THEN others ELSE others \cup {n + 1}
    BY <1>8, <2>5
  <2> HIDE DEF recent, others
  <2>8. /\ Cardinality(recent \cup {n + 1}) = l1Hits + 1
        /\ Cardinality(others \cup {n + 1}) = l1Misses + 1
    BY <2>2, <2>3, <2>4, FS_AddElement
  <2>9. PICK recentNow, othersNow :
          /\ recentNow = {i \in 1..(n + 1) : RecentlyUsed(i)'}
          /\ othersNow = {i \in 1..(n + 1) : ~ RecentlyUsed(i)'}
    OBVIOUS
  <2>10. /\ recentNow = IF hit THEN recent \cup {n + 1} ELSE recent
         /\ othersNow = IF hit THEN others ELSE others \cup {n + 1}
    BY <2>6, <2>7, <2>9, Zenon
  <2>11. /\ l1Hits' = Cardinality(recentNow) /\ l1Hits' \in Nat
         /\ l1Misses' = Cardinality(othersNow) /\ l1Misses' \in Nat
    BY <1>3, <2>2, <2>8, <2>10
  <2>12. HitsAreRecentUses' = (/\ l1Hits' = Cardinality(recentNow)
                              /\ l1Misses' = Cardinality(othersNow))
    BY <2>1, <2>9, Zenon DEF HitsAreRecentUses
  <2> QED BY <2>11, <2>12 DEF HitsCounted
<1>10. RequestTyped' /\ Transactions' = Transactions
  BY <1>3 DEF AccessesInv, RequestTyped, Transactions
<1>11. /\ first \in 0..n /\ first' = first
       /\ Own = (first + 1)..n /\ Own' = Own \cup {n + 1} /\ Own \subseteq 1..n
  <2>1. first \in 0..n /\ first' = first
    BY <1>3, <1>5 DEF AccessesInv, TransactionsMade
  <2> QED BY <1>5, <1>6, <2>1 DEF Own
<1>12. TransactionsMade'
  <2>1. /\ lineBasesLeft \cup {used[i] * LineBytes : i \in Own} = Transactions
        /\ \A i \in Own : used[i] * LineBytes \notin lineBasesLeft
        /\ \A i, j \in Own : used[i] = used[j] => i = j
    BY <1>1 DEF AccessesInv, TransactionsMade
  <2>2. \A i \in Own : used'[i] = used[i]
    BY <1>6, <1>11
  <2>3. {used'[i] * LineBytes : i \in Own'} = {used[i] * LineBytes : i \in Own} \cup {base}
    BY <1>4, <1>6, <1>11, <2>2
  <2>4. lineBasesLeft' \cup {used'[i] * LineBytes : i \in Own'} = Transactions
    BY <1>3, <2>1, <2>3
  <2>5. \A i \in Own' : used'[i] * LineBytes \notin lineBasesLeft'
    BY <1>3, <1>4, <1>6, <1>11, <2>1, <2>2
  <2>6. \A i \in Own : used[i] # line
    BY <1>3, <1>4, <2>1
  <2>7. \A i, j \in Own' : used'[i] = used'[j] => i = j
    BY <1>6, <1>11, <2>1, <2>2, <2>6
  <2>8. first' \in 0..Len(used')
    BY <1>6, <1>11
  <2> QED BY <1>1, <1>3, <1>10, <2>4, <2>5, <2>7, <2>8 DEF TransactionsMade
<1>13. LatencySoFar'
  <2> SUFFICES ASSUME HitLatency < MissLatency
               PROVE  memoryLatency' = LineLatency(\A i \in Own' : RecentlyUsed(i)')
    BY <1>11 DEF LatencySoFar
  <2>1. memoryLatency = IF Own = {} THEN 0 ELSE LineLatency(\A i \in Own : RecentlyUsed(i))
    BY <1>1 DEF AccessesInv, LatencySoFar
  <2>2. (\A i \in Own' : RecentlyUsed(i)') <=> (\A i \in Own : RecentlyUsed(i)) /\ hit
    BY <1>8, <1>11
  <2>3. HitLatency \in Nat /\ MissLatency \in Nat
    BY MemoryAssumption
  <2>4. memoryLatency' = Larger(memoryLatency, LineLatency(hit))
    BY <1>3 DEF slowest
  <2> QED BY <2>1, <2>2, <2>3, <2>4 DEF Larger, LineLatency
<1>14. ConflictsCounted'
  BY <1>1, <1>3 DEF AccessesInv, ConflictsCounted, bankVars
<1> QED BY <1>7, <1>9, <1>10, <1>12, <1>13, <1>14 DEF AccessesInv

LEMMA WordsAre ==
  ASSUME RequestTyped
  PROVE  /\ IsFiniteSet(Words) /\ Cardinality(Words) \in Nat
         /\ Cardinality(Words) <= Cardinality(request.activeMask)
         /\ \A a \in Words : bankForAddress(a) \in 0..(BankCount - 1)
<1> DEFINE mask == request.activeMask
           wanted == [lane \in mask |-> request.addresses[lane]]
<1>1. wanted \in Surjection(mask, Words)
  BY DEF Surjection, Words
<1>2. IsFiniteSet(mask)
  BY DEF RequestTyped
<1>3. \A a \in Words : bankForAddress(a) \in 0..(BankCount - 1)
  BY DEF Words, RequestTyped, bankForAddress, BankCount
<1> QED BY <1>1, <1>2, <1>3, FS_Surjection, FS_CardinalityType

LEMMA BanksAre ==
  ASSUME NEW words, IsFiniteSet(words)
  PROVE  IsFiniteSet(BanksOf(words)) /\ Cardinality(BanksOf(words)) \in Nat
<1>1. [a \in words |-> bankForAddress(a)] \in Surjection(words, BanksOf(words))
  BY DEF Surjection, BanksOf
<1> QED BY <1>1, FS_Surjection, FS_CardinalityType

LEMMA BankStep ==
  ASSUME AccessesInv, examineBank
  PROVE  AccessesInv'
<1> DEFINE unique == uniqueAddresses(request.addresses, request.activeMask, bank)
<1>1. UNCHANGED <<request, cacheVars>> /\ bank' = bank + 1 /\ bank < BankCount
  BY DEF examineBank
<1>2. LeastRecentlyUsed' /\ HitsCounted'
  BY <1>1, CacheUntouched, HitsUntouched DEF AccessesInv, cacheVars
<1>3. RequestTyped' /\ Words' = Words /\ Transactions' = Transactions /\ Own' = Own
  BY <1>1 DEF AccessesInv, RequestTyped, Words, Transactions, Own, cacheVars
<1>4. TransactionsMade'
  BY <1>1, <1>3 DEF AccessesInv, TransactionsMade, cacheVars
<1>5. request.space = "Shared" /\ bank \in 0..(BankCount - 1)
  BY <1>1 DEF AccessesInv, ConflictsCounted, BankCount
<1>6. LatencySoFar'
  BY <1>1, <1>5 DEF LatencySoFar
<1>7. /\ conflicts \in Nat /\ maxConflictDegree \in Nat
      /\ conflicts + Cardinality(BanksOf(Examined)) = Cardinality(Examined)
      /\ maxConflictDegree <= conflicts + 1
  BY <1>5 DEF AccessesInv, ConflictsCounted
<1>8. unique = {a \in Words : bankForAddress(a) = bank}
  BY DEF uniqueAddresses, Words
<1>9. PICK deg : deg = Cardinality(unique)
  OBVIOUS
<1>10. /\ conflicts' = conflicts + (IF deg > 1 THEN deg - 1 ELSE 0)
       /\ maxConflictDegree' = Larger(maxConflictDegree, deg)
  BY <1>9 DEF examineBank, degree
<1>11. \A a \in Words : bankForAddress(a) \in Nat
  BY WordsAre DEF AccessesInv, BankCount
<1>12. Examined' = Examined \cup unique /\ Examined \cap unique = {}
  BY <1>1, <1>3, <1>5, <1>8, <1>11 DEF Examined
<1>13. /\ IsFiniteSet(unique) /\ IsFiniteSet(Examined)
       /\ deg \in Nat /\ Cardinality(Examined) \in Nat /\ (deg = 0 <=> unique = {})
  <2>1. unique \in SUBSET Words /\ Examined \in SUBSET Words /\ IsFiniteSet(Words)
    BY <1>8, WordsAre DEF Examined, AccessesInv
  <2>2. IsFiniteSet(unique) /\ IsFiniteSet(Examined)
    BY <2>1, FS_Subset
  <2> QED BY <1>9, <2>2, FS_CardinalityType, FS_EmptySet
<1> HIDE DEF unique
<1>14. Cardinality(Examined') = Cardinality(Examined) + deg
  <2>1. Cardinality(Examined \cup unique)
          = Cardinality(Examined) + Cardinality(unique) - Cardinality(Examined \cap unique)
    BY <1>13, FS_Union
  <2> QED BY <1>9, <1>12, <1>13, <2>1, FS_EmptySet
<1>15. Cardinality(BanksOf(Examined)')
         = Cardinality(BanksOf(Examined)) + (IF deg = 0 THEN 0 ELSE 1)
       /\ Cardinality(BanksOf(Examined)) \in Nat
  <2>1. IsFiniteSet(BanksOf(Examined)) /\ Cardinality(BanksOf(Examined)) \in Nat
    BY <1>13, BanksAre
  <2>2. bank \notin BanksOf(Examined)
    BY <1>5, <1>11 DEF BanksOf, Examined
  <2>3. BanksOf(Examined)' = IF deg = 0 THEN BanksOf(Examined) ELSE BanksOf(Examined) \cup {bank}
    BY <1>8, <1>12, <1>13 DEF BanksOf, unique
  <2> QED BY <2>1, <2>2, <2>3, FS_AddElement
<1>16. ConflictsCounted'
  <2>1. PICK banks \in Nat : banks = Cardinality(BanksOf(Examined))
    BY <1>15
  <2>2. PICK words \in Nat : words = Cardinality(Examined)
    BY <1>13
  <2>3. /\ conflicts' \in Nat /\ maxConflictDegree' \in Nat
        /\ conflicts' + Cardinality(BanksOf(Examined)') = Cardinality(Examined')
        /\ maxConflictDegree' <= conflicts' + 1
    BY <1>7, <1>10, <1>13, <1>14, <1>15, <2>1, <2>2 DEF Larger
  <2>4. bank' \in 0..BankCount /\ request'.space = "Shared"
    BY <1>1, <1>5 DEF BankCount
  <2> QED BY <2>3, <2>4 DEF ConflictsCounted
<1> QED BY <1>2, <1>3, <1>4, <1>6, <1>16 DEF AccessesInv

LEMMA AccessesInvariant == Spec => []AccessesInv
<1>1. AccessesInv /\ [Next]_vars => AccessesInv'
  <2> SUFFICES ASSUME AccessesInv, [Next]_vars PROVE AccessesInv'
    OBVIOUS
  <2>1. ASSUME NEW r \in Requests, issueGlobalMemory(r) PROVE AccessesInv'
    BY <2>1, GlobalStep
  <2>2. ASSUME NEW r \in Requests, issueSharedMemory(r) PROVE AccessesInv'
    BY <2>2, SharedStep
  <2>3. CASE accessLine
    BY <2>3, LineStep
  <2>4. CASE examineBank
    BY <2>4, BankStep
  <2>5. CASE UNCHANGED vars
    <3>1. LeastRecentlyUsed' /\ HitsCounted' /\ \A i : RecentlyUsed(i)' = RecentlyUsed(i)
      BY <2>5, CacheUntouched, HitsUntouched DEF vars, cacheVars, AccessesInv
    <3>2. RequestTyped' /\ TransactionsMade' /\ ConflictsCounted'
      BY <2>5 DEF vars, cacheVars, bankVars, AccessesInv, RequestTyped, TransactionsMade,
                  Transactions, Own, ConflictsCounted, BanksOf, Examined, Words
    <3>3. LatencySoFar'
      BY <2>5, <3>1 DEF vars, cacheVars, AccessesInv, LatencySoFar, Own
    <3> QED BY <3>1, <3>2, <3>3 DEF AccessesInv
  <2> QED BY <2>1, <2>2, <2>3, <2>4, <2>5 DEF Next
<1> QED BY <1>1, InitAccesses, PTL DEF Spec

-----------------------------------------------------------------------------
(* The theorems. *)

(* L1DataCache::access, for any size, line size and associativity: its     *)
(* hits are the accesses to a line since whose last use fewer other lines  *)
(* of the set were used than the set has ways, and the rest are misses.    *)
THEOREM HitsTellRecentUses == Spec => []HitsAreRecentUses
<1>1. AccessesInv => HitsAreRecentUses
  BY DEF AccessesInv, HitsCounted
<1> QED BY <1>1, AccessesInvariant, PTL

(* issueGlobalMemory: a warp waits for the miss latency exactly if one of  *)
(* the lines of its access was not among those last used in its set.       *)
THEOREM SlowestLineDecidesTheLatency == Spec => []SlowestLineDecides
<1>1. AccessesInv => SlowestLineDecides
  <2> SUFFICES ASSUME AccessesInv, AccessDone, request.space = "Global",
                      HitLatency < MissLatency
               PROVE  RequestLatency = LineLatency(\A i \in Own : RecentlyUsed(i))
    BY DEF SlowestLineDecides
  <2>1. memoryLatency = IF Own = {} THEN 0 ELSE LineLatency(\A i \in Own : RecentlyUsed(i))
    BY DEF AccessesInv, LatencySoFar
  <2>2. HitLatency \in Nat /\ MissLatency \in Nat
    BY MemoryAssumption
  <2>3. RequestLatency = IF memoryLatency = 0 THEN HitLatency ELSE memoryLatency
    BY DEF RequestLatency
  <2>4. CASE Own = {}
    BY <2>1, <2>3, <2>4 DEF LineLatency
  <2>5. CASE Own # {}
    BY <2>1, <2>2, <2>3, <2>5 DEF LineLatency
  <2> QED BY <2>4, <2>5
<1> QED BY <1>1, AccessesInvariant, PTL

(* MemoryCoalescer: when a global access has made its transactions, each   *)
(* active lane's word starts in one of the lines used, and each line used  *)
(* is one that an active lane asked for.                                   *)
THEOREM LanesAreServedOnce == Spec => []EachLaneServedOnce
<1>1. AccessesInv => EachLaneServedOnce
  <2> SUFFICES ASSUME AccessesInv, AccessDone, request.space = "Global"
               PROVE  /\ \A lane \in request.activeMask :
                           Cardinality({i \in Own : Serves(used[i], lane)}) = 1
                      /\ \A i \in Own : \E lane \in request.activeMask : Serves(used[i], lane)
    BY DEF EachLaneServedOnce
  <2>1. /\ {used[i] * LineBytes : i \in Own} = Transactions
        /\ \A i, j \in Own : used[i] = used[j] => i = j
        /\ first \in 0..Len(used)
    BY DEF AccessesInv, TransactionsMade, AccessDone
  <2>2. RequestTyped /\ LineBytes \in Nat \ {0}
    BY MemoryAssumption DEF AccessesInv
  <2>3. \A i \in Own : used[i] \in Nat
    BY <2>1 DEF Own, AccessesInv, LeastRecentlyUsed, CacheTyped
  <2>4. ASSUME NEW i \in Own PROVE (used[i] * LineBytes) \div LineBytes = used[i]
    <3>1. PICK u \in Nat : u = used[i]
      BY <2>3
    <3>2. (u * LineBytes) \div LineBytes = u
      BY <2>2
    <3> QED BY <3>1, <3>2
  <2>5. ASSUME NEW i \in Own, NEW lane \in request.activeMask
        PROVE  Serves(used[i], lane) <=> used[i] = request.addresses[lane] \div LineBytes
    <3>1. used[i] \in Nat /\ request.addresses[lane] \in Nat
      BY <2>2, <2>3 DEF RequestTyped
    <3> QED BY <2>2, <3>1, OneLine DEF Serves
  <2>6. ASSUME NEW lane \in request.activeMask
        PROVE  Cardinality({i \in Own : Serves(used[i], lane)}) = 1
    <3>1. PICK a \in Nat : a = request.addresses[lane]
      BY <2>2 DEF RequestTyped
    <3>2. lineBase(a, LineBytes) \in Transactions
      BY <3>1 DEF Transactions, lineBases
    <3>3. PICK i \in Own : used[i] * LineBytes = (a \div LineBytes) * LineBytes
      BY <2>1, <3>2 DEF lineBase
    <3>4. used[i] = a \div LineBytes
      BY <2>2, <2>4, <3>3, LineOfBase
    <3>5. {j \in Own : Serves(used[j], lane)} = {i}
      BY <2>1, <2>5, <3>1, <3>4
    <3> QED BY <3>5, FS_Singleton
  <2>7. ASSUME NEW i \in Own PROVE \E lane \in request.activeMask : Serves(used[i], lane)
    <3>1. used[i] * LineBytes \in Transactions
      BY <2>1
    <3>2. PICK lane \in request.activeMask :
            (used[i] * LineBytes) \div LineBytes = request.addresses[lane] \div LineBytes
      BY <2>2, <3>1, TransactionIs
    <3> QED BY <2>4, <2>5, <3>2
  <2> QED BY <2>6, <2>7
<1> QED BY <1>1, AccessesInvariant, PTL

(* SharedMemory::analyzeAccess, for any number of lanes: the cycles lost   *)
(* are the words beyond the first of each bank, fewer than the active      *)
(* lanes, and no fewer than the worst bank loses.                          *)
THEOREM ConflictsCountExtraWords == Spec => []ConflictsAreExtraWords
<1>1. AccessesInv => ConflictsAreExtraWords
  <2> SUFFICES ASSUME AccessesInv, AccessDone, request.space = "Shared"
               PROVE  /\ RequestLatency + Cardinality({bankForAddress(a) : a \in Words})
                           = SharedLatency + Cardinality(Words)
                      /\ conflicts < Larger(1, Cardinality(request.activeMask))
                      /\ maxConflictDegree <= conflicts + 1
    BY DEF ConflictsAreExtraWords
  <2>1. /\ IsFiniteSet(Words) /\ Cardinality(Words) \in Nat
        /\ Cardinality(Words) <= Cardinality(request.activeMask)
        /\ \A a \in Words : bankForAddress(a) \in 0..(BankCount - 1)
    BY WordsAre DEF AccessesInv
  <2>2. Examined = Words
    BY <2>1 DEF Examined, AccessDone, BankCount
  <2>3. /\ conflicts \in Nat /\ maxConflictDegree <= conflicts + 1
        /\ conflicts + Cardinality(BanksOf(Words)) = Cardinality(Words)
    BY <2>2 DEF AccessesInv, ConflictsCounted
  <2>4. PICK banks \in Nat : banks = Cardinality(BanksOf(Words))
    BY <2>1, BanksAre
  <2>5. PICK words \in Nat : words = Cardinality(Words)
    BY <2>1
  <2>6. SharedLatency \in Nat
    BY MemoryAssumption
  <2>7. RequestLatency + banks = SharedLatency + words
    BY <2>3, <2>4, <2>5, <2>6 DEF RequestLatency
  <2>8. banks = 0 => words = 0
    <3>1. banks = 0 => BanksOf(Words) = {}
      BY <2>1, <2>4, BanksAre, FS_EmptySet
    <3>2. BanksOf(Words) = {} => Words = {}
      BY DEF BanksOf
    <3> QED BY <2>5, <3>1, <3>2, FS_EmptySet
  <2>9. PICK lanes \in Nat : lanes = Cardinality(request.activeMask)
    BY FS_CardinalityType DEF AccessesInv, RequestTyped
  <2>10. conflicts < Larger(1, lanes)
    BY <2>1, <2>3, <2>4, <2>5, <2>8, <2>9 DEF Larger
  <2> QED BY <2>3, <2>4, <2>5, <2>7, <2>9, <2>10 DEF BanksOf
<1> QED BY <1>1, AccessesInvariant, PTL
=============================================================================
