------------------------------ MODULE MCSerial ------------------------------
(* Small instances of SerialPort for TLC. *)
EXTENDS SerialPort, TLC

UserSymmetry == Permutations(Users)
=============================================================================
