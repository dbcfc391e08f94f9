--------------------------- MODULE MCNativeSocket ---------------------------
(* Instances of NativeSocket for TLC.                                      *)
EXTENDS NativeSocket, TLC

(* Callbacks may call their own socket. *)
OwnSocketOnly == {<<s, s>> : s \in Sockets}

(* Callbacks may call their own socket, and those that come later in one   *)
(* fixed order.                                                            *)
CONSTANTS s1, s2
Descending == OwnSocketOnly \cup {<<s1, s2>>}

(* Callbacks may call any socket. *)
Everything == Sockets \X Sockets

Symmetry == Permutations(Threads)
=============================================================================
