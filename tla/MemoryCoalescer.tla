--------------------------- MODULE MemoryCoalescer ---------------------------
(***************************************************************************)
(* The coalescer (memory_coalescer.cpp): the addresses of a warp's lanes   *)
(* become one transaction per memory line, in ascending order.             *)
(***************************************************************************)
EXTENDS Integers

lineBase(address, lineBytes) == (address \div lineBytes) * lineBytes

(* Wrong variant: the lanes that are not active are served as well.        *)
lineBasesOfAll(addresses, activeMask, lineBytes) ==
  {lineBase(addresses[lane], lineBytes) : lane \in DOMAIN addresses}

lineBases(addresses, activeMask, lineBytes) ==
  {lineBase(addresses[lane], lineBytes) : lane \in activeMask}

(* The first of them when sorted.                                          *)
Smallest(bases) == CHOOSE base \in bases : \A other \in bases : base <= other
=============================================================================
