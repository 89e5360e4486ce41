----------------------------- MODULE MCQuiesce ------------------------------
(* Instances of Quiesce for TLC. *)
EXTENDS Quiesce

CONSTANTS a, b, c

\* Which irrevocability the threads ask for.
NoModes    == [t \in Tx |-> {}]
OneSerial  == [t \in Tx |-> IF t = a THEN {"serial"} ELSE {}]
MixedModes == [t \in Tx |-> IF t = a THEN Mode ELSE IF t = b THEN {"serial"} ELSE {}]
TwoParallel == [t \in Tx |-> IF t = c THEN {} ELSE {"parallel"}]

OnlyA == {a}
OnlyC == {c}
None  == {}
Two   == {a, b}
Three == {a, b, c}
=============================================================================
