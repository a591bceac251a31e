---------------------------- MODULE SharedMemory ----------------------------
(***************************************************************************)
(* Bank conflicts of an access to shared memory (shared_memory.cpp).       *)
(***************************************************************************)
EXTENDS Integers, FiniteSets

BankCount == 32

bankForAddress(address) == (address \div 4) % BankCount

(* The distinct addresses that the active lanes have in a bank.            *)
uniqueAddresses(addresses, activeMask, bank) ==
  {a \in {addresses[lane] : lane \in activeMask} : bankForAddress(a) = bank}

(* Wrong variant: lanes that share a word conflict too.                    *)
degreeOfAccesses(addresses, activeMask, bank) ==
  Cardinality({lane \in activeMask : bankForAddress(addresses[lane]) = bank})

(* The degree of a bank: its distinct addresses.  (A load of one address   *)
(* is a case of its own in the code, with the same result.)                *)
degree(addresses, activeMask, bank) ==
  Cardinality(uniqueAddresses(addresses, activeMask, bank))
=============================================================================
