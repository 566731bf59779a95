------------------------------ MODULE MCLocks -------------------------------
(* Small instances of AddressLocks for TLC. *)
EXTENDS AddressLocks, TLC

Symmetries == Permutations(Handlers) \cup Permutations(Mutexes)
=============================================================================
