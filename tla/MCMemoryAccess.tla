--------------------------- MODULE MCMemoryAccess ---------------------------
(***************************************************************************)
(* Caches and accesses for model checking MemoryAccess.                    *)
(***************************************************************************)
EXTENDS MemoryAccess

(* Two words of line 0 in two banks, and a word of each of the lines 1 and *)
(* 2 in the bank of the first.                                             *)
FourWords == {0, 4, 128, 256}

(* What three lanes may ask.  Which lane asks what makes no difference, so *)
(* the lanes are taken in the order of their addresses, active ones last.  *)
Rank(r, lane) == 2 * r.addresses[lane] + (IF lane \in r.activeMask THEN 1 ELSE 0)

ThreeLaneRequests ==
  {r \in [addresses : [1..3 -> FourWords], activeMask : SUBSET (1..3)] :
     Rank(r, 1) <= Rank(r, 2) /\ Rank(r, 2) <= Rank(r, 3)}

(* One line; two sets; two ways; an associativity of 0; three lines for    *)
(* two ways; fewer lines than ways.                                        *)
SmallCaches ==
  {<<128, 1>>, <<256, 1>>, <<256, 2>>, <<256, 0>>, <<384, 2>>, <<128, 2>>}
=============================================================================
