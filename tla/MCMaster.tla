------------------------------ MODULE MCMaster ------------------------------
(* Small instances of ModbusMaster for TLC. *)
EXTENDS ModbusMaster, TLC

CallsMasters == {<<"tcp", "udp">>, <<"tcp_concurrent", "tcp">>, <<"rtu_ascii", "serial">>}
LiveMasters == {<<"tcp_concurrent", "tcp">>, <<"rtu_ascii", "serial">>}

CallerSymmetry == Permutations(Callers)
=============================================================================
