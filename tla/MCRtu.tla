------------------------------- MODULE MCRtu -------------------------------
(* Small instances of RtuFramer for TLC: frames have 2 to 4 bytes, the pool 8. *)
EXTENDS RtuFramer, TLC

Line(need, len, intact) ==
  [need |-> [p \in Positions |-> need[p]], len |-> [p \in Positions |-> len[p]], intact |-> intact]

\* Frames of 3, 4 and 3 bytes, and one of which only a part is there.
Pure == Line(<<2, 2, 9, 2, 2, 3, 2, 2, 2, 2, 2>>, <<3, 4, 0, 4, 2, 4, 9, 3, 2, 0, 4>>, {1, 4, 8})

\* Noise, then a frame, a frame with a wrong checksum, and another frame.
Noisy == Line(<<2, 3, 2, 2, 2, 2, 2, 3, 2, 2, 2>>, <<4, 0, 2, 3, 2, 4, 4, 0, 3, 2, 0>>, {4, 9})

\* Bytes whose length cannot be told before more bytes than the pool has, then a frame.
Hungry == Line([p \in Positions |-> IF p < 9 THEN 9 ELSE 2], [p \in Positions |-> 3], {9})

AllLines == {Pure, Noisy, Hungry}
=============================================================================
