-------------------------- MODULE MCSocketOptions --------------------------
(* Instances of SocketOptions for TLC.                                     *)
EXTENDS SocketOptions, TLC

(* The largest number of streams that a short can tell, and one on either  *)
(* side of the range.                                                      *)
SomeCounts == {-1, 32767, 65536}

(* Values at which the conversions differ: negative ones, null and, of     *)
(* durations of 3 bits, the largest and one that is too long.              *)
SomeValues   == [plain |-> {-1}, short |-> {-1}, size |-> {-1}, optional |-> {None},
                 duration |-> {3, 5}, optionalDuration |-> {3, 5}]
SomeDefaults == [plain |-> 1, short |-> 256, size |-> 5, optional |-> 10,
                 duration |-> 1, optionalDuration |-> None]

Symmetry == Permutations(Ptrs) \cup Permutations(Objects) \cup Permutations(Sockets)
=============================================================================
