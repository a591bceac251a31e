----------------------------- MODULE L1DataCache -----------------------------
(***************************************************************************)
(* The L1 data cache of a streaming multiprocessor (cache.cpp).  It holds  *)
(* no data: it tells whether an access hits and which line it replaces.    *)
(* A cache is a record of its line size, its clock and its sets; a set is  *)
(* a sequence of ways, with the tag and the time of last use of a line.    *)
(***************************************************************************)
EXTENDS Integers

AtLeastOne(n) == IF n < 1 THEN 1 ELSE n

SetCount(sizeBytes, lineBytes, associativity) ==
  AtLeastOne((sizeBytes \div lineBytes) \div AtLeastOne(associativity))

EmptyLine == [valid |-> FALSE, tag |-> 0, lastUsed |-> 0]

NewCache(sizeBytes, lineBytes, associativity) ==
  [lineBytes |-> lineBytes,
   tick      |-> 0,
   setCount  |-> SetCount(sizeBytes, lineBytes, associativity),
   sets      |-> [s \in 0..(SetCount(sizeBytes, lineBytes, associativity) - 1) |->
                    [w \in 1..AtLeastOne(associativity) |-> EmptyLine]]]

lineNumber(cache, address) == address \div cache.lineBytes
setIndex(cache, address) == lineNumber(cache, address) % cache.setCount
tag(cache, address) == lineNumber(cache, address) \div cache.setCount

(* The ways of a set that hold a tag.                                      *)
Holding(lines, t) == {w \in DOMAIN lines : lines[w].valid /\ lines[w].tag = t}

(* min_element: the first invalid line, or the one unused longest.         *)
Precedes(a, b) == IF a.valid # b.valid THEN ~ a.valid ELSE a.lastUsed < b.lastUsed

victim(lines) ==
  CHOOSE w \in DOMAIN lines :
    \A v \in DOMAIN lines : IF v < w THEN Precedes(lines[w], lines[v])
                            ELSE ~ Precedes(lines[v], lines[w])

(* What an access finds and leaves behind.                                 *)
(* Wrong variant: a hit does not renew the line (first in, first out).     *)
accessFifo(cache, address) ==
  LET lines == cache.sets[setIndex(cache, address)]
      hit   == Holding(lines, tag(cache, address)) # {}
      used  == [valid |-> TRUE, tag |-> tag(cache, address), lastUsed |-> cache.tick + 1]
  IN  [hit |-> hit,
       cache |-> IF hit THEN [cache EXCEPT !.tick = @ + 1]
                 ELSE [cache EXCEPT !.tick = @ + 1,
                                    !.sets[setIndex(cache, address)][victim(lines)] = used]]

access(cache, address) ==
  LET lines == cache.sets[setIndex(cache, address)]
      held  == Holding(lines, tag(cache, address))
      way   == IF held # {} THEN CHOOSE w \in held : TRUE ELSE victim(lines)
      used  == [valid |-> TRUE, tag |-> tag(cache, address), lastUsed |-> cache.tick + 1]
  IN  [hit |-> held # {},
       cache |-> [cache EXCEPT !.tick = @ + 1, !.sets[setIndex(cache, address)][way] = used]]
=============================================================================
