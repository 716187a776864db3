----------------------------- MODULE MCVaultSync -----------------------------
(***************************************************************************)
(* VaultSync on a small account: model values for devices and items, and   *)
(* the set of faults each configuration lets happen.                       *)
(***************************************************************************)
EXTENDS VaultSync, TLC

AllFaults == FaultKind
NoFaults == {}
Crashes == {"crash"}
LostRequests == {"request_lost"}
Overlap == {"overlap"}

Symmetry == Permutations(Device) \cup Permutations(Item)
=============================================================================
