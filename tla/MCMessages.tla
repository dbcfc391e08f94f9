----------------------------- MODULE MCMessages -----------------------------
(* Instances of Messages for TLC.                                          *)
EXTENDS Messages, TLC

Unset   == [isUnordered |-> FALSE, lifetime |-> None, maxRetransmissions |-> None]
Plain   == {Unset}
Every   == {Unset, [Unset EXCEPT !.isUnordered = TRUE, !.maxRetransmissions = 9]}
Limited == {[Unset EXCEPT !.lifetime = 9]}

CONSTANTS empty, fitting, large

(* On the smallest and the largest short; one that fits on either.         *)
SomeMessages ==
  {[stream |-> -32768, array |-> a] : a \in {empty, fitting}}
    \cup {[stream |-> 32767, array |-> a] : a \in {large, fitting}}
=============================================================================
