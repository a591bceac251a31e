---------------------------- MODULE MemoryAccess ----------------------------
(***************************************************************************)
(* The timing of memory accesses in an SM (issueGlobalMemory and           *)
(* issueSharedMemory of sm.cpp): coalescer, L1 cache and banks together,   *)
(* for any sequence of accesses.  StreamingMultiprocessor leaves the       *)
(* latency of an access free; here it is what the code computes.           *)
(*                                                                         *)
(* A step is one round of a loop: a transaction that accesses the cache,   *)
(* or a bank whose conflicts are counted.  The next access begins when the *)
(* loop of the last has ended.                                             *)
(***************************************************************************)
EXTENDS L1DataCache, MemoryCoalescer, SharedMemory, Sequences

CONSTANTS
  Requests,     \* the accesses: an address for each lane, and the active mask
  LineBytes,    \* the size of a line, for coalescer and cache
  Geometries,   \* the <<size, associativity>> of the caches to examine
  HitLatency, MissLatency, SharedLatency,
  MaxUsed,      \* the bound on the number of lines accessed
  MaxUsedShared \* shared memory is accessed up to that many lines: its
                \* banks are independent of the cache

ASSUME MemoryAssumption ==
  /\ \A r \in Requests : /\ IsFiniteSet(DOMAIN r.addresses)
                         /\ r.activeMask \subseteq DOMAIN r.addresses
                         /\ \A lane \in DOMAIN r.addresses : r.addresses[lane] \in Nat
  /\ LineBytes \in Nat \ {0}
  /\ \A g \in Geometries : g[1] \in Nat /\ g[1] >= LineBytes /\ g[2] \in Nat
  /\ {HitLatency, MissLatency, SharedLatency, MaxUsed, MaxUsedShared} \subseteq Nat

VARIABLES
  l1Cache,            \* the cache
  l1Hits, l1Misses,   \* the statistics of the cache
  request,            \* the access under way, or the last one
  lineBasesLeft,      \* the transactions it has still to make
  memoryLatency,      \* the latency of the slowest it has made
  bank,               \* the next bank to examine, BankCount after the last
  conflicts,          \* of the banks examined
  maxConflictDegree,
  used,               \* history: the line numbers accessed, in order
  first               \* history: the number of them before the last global access

cacheVars == <<l1Cache, l1Hits, l1Misses, lineBasesLeft, memoryLatency, used, first>>
bankVars == <<bank, conflicts, maxConflictDegree>>
vars == <<cacheVars, bankVars, request>>

NoAccess == [space |-> "none", addresses |-> <<>>, activeMask |-> {}]

Init ==
  /\ \E g \in Geometries : l1Cache = NewCache(g[1], LineBytes, g[2])
  /\ l1Hits = 0 /\ l1Misses = 0
  /\ request = NoAccess
  /\ lineBasesLeft = {} /\ memoryLatency = 0
  /\ bank = BankCount /\ conflicts = 0 /\ maxConflictDegree = 0
  /\ used = <<>> /\ first = 0

AccessDone == lineBasesLeft = {} /\ bank = BankCount

begin(space, r) ==
  /\ AccessDone
  /\ request' = [space |-> space, addresses |-> r.addresses, activeMask |-> r.activeMask]

-----------------------------------------------------------------------------
Larger(a, b) == IF a < b THEN b ELSE a

LineLatency(hit) == IF hit THEN HitLatency ELSE MissLatency

(* Wrong variant: the latency of the last transaction.                     *)
latencyOfLast(latency, hit) == LineLatency(hit)

slowest(latency, hit) == Larger(latency, LineLatency(hit))

issueGlobalMemory(r) ==
  /\ begin("Global", r)
  /\ lineBasesLeft' = lineBases(r.addresses, r.activeMask, LineBytes)
  /\ Len(used) + Cardinality(lineBasesLeft') <= MaxUsed
  /\ memoryLatency' = 0
  /\ first' = Len(used)
  /\ UNCHANGED <<l1Cache, l1Hits, l1Misses, used, bankVars>>

(* The loop over the transactions: the coalescer has sorted them.          *)
accessLine ==
  /\ lineBasesLeft # {}
  /\ LET base   == Smallest(lineBasesLeft)
         answer == access(l1Cache, base)
     IN  /\ l1Cache' = answer.cache
         /\ l1Hits' = l1Hits + (IF answer.hit THEN 1 ELSE 0)
         /\ l1Misses' = l1Misses + (IF answer.hit THEN 0 ELSE 1)
         /\ memoryLatency' = slowest(memoryLatency, answer.hit)
         /\ lineBasesLeft' = lineBasesLeft \ {base}
         /\ used' = Append(used, lineNumber(l1Cache, base))
  /\ UNCHANGED <<request, first, bankVars>>

issueSharedMemory(r) ==
  /\ Len(used) <= MaxUsedShared
  /\ begin("Shared", r)
  /\ bank' = 0 /\ conflicts' = 0 /\ maxConflictDegree' = 0
  /\ UNCHANGED cacheVars

(* The loop over the banks.                                                *)
examineBank ==
  /\ bank < BankCount
  /\ LET deg == degree(request.addresses, request.activeMask, bank)
     IN  /\ conflicts' = conflicts + (IF deg > 1 THEN deg - 1 ELSE 0)
         /\ maxConflictDegree' = Larger(maxConflictDegree, deg)
  /\ bank' = bank + 1
  /\ UNCHANGED <<request, cacheVars>>

(* When the result of a load comes, in cycles from its issue.              *)
RequestLatency ==
  IF request.space = "Shared" THEN SharedLatency + conflicts
  ELSE IF memoryLatency = 0 THEN HitLatency
  ELSE memoryLatency

Next ==
  \/ \E r \in Requests : issueGlobalMemory(r) \/ issueSharedMemory(r)
  \/ accessLine
  \/ examineBank

Spec == Init /\ [][Next]_vars

-----------------------------------------------------------------------------
(* The answer to the i-th line accessed as its past decides it: a set      *)
(* keeps the lines used last, as many as it has ways.                      *)
Rivals(i, j) ==
  {used[k] : k \in {k \in (j + 1)..(i - 1) : used[k] % l1Cache.setCount
                                               = used[i] % l1Cache.setCount}}

Ways == DOMAIN l1Cache.sets[0]

RecentlyUsed(i) ==
  \E j \in 1..(i - 1) : /\ used[j] = used[i]
                        /\ Cardinality(Rivals(i, j)) < Cardinality(Ways)

(* The statistics of L1DataCache::access: the hits are the accesses to a   *)
(* line since whose last use fewer other lines of its set were used than   *)
(* the set has ways; every other access misses.                            *)
HitsAreRecentUses ==
  /\ l1Hits = Cardinality({i \in DOMAIN used : RecentlyUsed(i)})
  /\ l1Misses = Cardinality({i \in DOMAIN used : ~ RecentlyUsed(i)})

(* The accesses to the cache of the last global access.                    *)
Own == (first + 1)..Len(used)

(* A global access (issueGlobalMemory) keeps its warp waiting for the miss *)
(* latency exactly if one of its lines was not recently used, be it that   *)
(* another line of the same access took its place.                         *)
SlowestLineDecides ==
  AccessDone /\ request.space = "Global" /\ HitLatency < MissLatency =>
    RequestLatency = LineLatency(\A i \in Own : RecentlyUsed(i))

(* MemoryCoalescer: the word of each active lane starts in one line that   *)
(* the access has used, and no more; and no line is used that serves no    *)
(* active lane.                                                            *)
Serves(line, lane) == request.addresses[lane] - line * LineBytes \in 0..(LineBytes - 1)

EachLaneServedOnce ==
  AccessDone /\ request.space = "Global" =>
    /\ \A lane \in request.activeMask :
         Cardinality({i \in Own : Serves(used[i], lane)}) = 1
    /\ \A i \in Own : \E lane \in request.activeMask : Serves(used[i], lane)

(* SharedMemory::analyzeAccess: an access is delayed by a cycle for every  *)
(* word beyond the first that it wants of a bank; lanes that want the same *)
(* word share it.  So fewer cycles than lanes are lost, the bound that     *)
(* StreamingMultiprocessor takes.                                          *)
Words == {request.addresses[lane] : lane \in request.activeMask}

ConflictsAreExtraWords ==
  AccessDone /\ request.space = "Shared" =>
    /\ RequestLatency + Cardinality({bankForAddress(a) : a \in Words})
         = SharedLatency + Cardinality(Words)
    /\ conflicts < Larger(1, Cardinality(request.activeMask))
    /\ maxConflictDegree <= conflicts + 1
=============================================================================
