------------------------------ MODULE MCDevice ------------------------------
(* Small instances of DeviceIdentification for TLC.  241 is the longest value *)
(* that fits a page of its own.                                               *)
EXTENDS DeviceIdentification
=============================================================================
