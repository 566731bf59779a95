------------------------------- MODULE MCPort -------------------------------
(* Small instances of TcpClientPort for TLC. *)
EXTENDS TcpClientPort, TLC

UserSymmetry == Permutations(Users)
=============================================================================
