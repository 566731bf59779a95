------------------------------ MODULE MCQueues ------------------------------
(* Small instances of SlaveQueues for TLC. *)
EXTENDS SlaveQueues, TLC

ConnSymmetry == Permutations(Conns)
=============================================================================
