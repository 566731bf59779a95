----------------------------- MODULE MCRequests -----------------------------
(* Small instances of SlaveRequests for TLC: a u16 has 10 values, a u8 has 8. *)
EXTENDS SlaveRequests, TLC

CONSTANTS t1, t2

\* Unit 1 has the default range, which is everything; unit 2 has two small ones, the
\* second of which ends at the last address.
Tables(g) ==
  [coils |-> g, discrete_inputs |-> g, input_registers |-> g, holding_registers |-> g]
TwoModels == <<Tables({}), Tables({<<2, 5>>, <<7, 9>>})>>

Call(fc, u, at, n, wat, vals) ==
  [fc |-> fc, unit |-> u, at |-> at, n |-> n, wat |-> wat, vals |-> vals]
Bits(n) == [i \in 1 .. n |-> i % 2]

\* One client makes the calls, the other some that can interfere with them.
ManyCalls ==
  {Call(fc, u, at, n, 0, <<>>) : fc \in {1, 2, 4}, u \in {1, 2}, at \in {4, 8}, n \in {0, 3, 6, 9}}
    \cup {Call(3, u, at, n, 0, <<>>) : u \in {1, 2, 3}, at \in {2, 8}, n \in {1, 3, 9}}
    \cup {Call(fc, u, 0, 0, at, <<1>>) : fc \in {5, 6}, u \in {0, 2}, at \in {2, 6}}
    \cup {Call(fc, u, 0, 0, at, Bits(n)) : fc \in {15, 16}, u \in 0 .. 2, at \in {3, 8}, n \in {0, 2, 3, 4}}
    \cup {Call(22, u, 0, 0, at, <<0, 1>>) : u \in 0 .. 2, at \in {2, 4}}
    \cup {Call(23, u, 3, n, wat, Bits(k)) : u \in {0, 2}, n \in {1, 3, 9}, wat \in {2, 3, 8}, k \in {2, 3}}
    \cup {Call(fc, 2, 0, n, 0, <<>>) : fc \in {17, Custom}, n \in {0, 1, 9}}
FewCalls == {Call(22, 2, 0, 0, 4, <<1, 0>>), Call(23, 2, 2, 2, 2, <<0, 1, 0>>)}

TwoClients == (t1 :> ManyCalls) @@ (t2 :> FewCalls)
=============================================================================
