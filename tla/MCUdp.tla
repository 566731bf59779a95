------------------------------- MODULE MCUdp --------------------------------
(* A small instance of UdpPort for TLC: one peer, whose connections follow one *)
(* another; a client configured with the wildcard address, which accepts what  *)
(* an address that cannot be parsed would, or with a host that is not the peer. *)
EXTENDS UdpPort, TLC

Hosts == {[ip |-> "h1", port |-> 502]}
Configured == {[ip |-> "any", port |-> 502], [ip |-> "h2", port |-> 502]}
=============================================================================
