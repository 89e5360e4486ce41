------------------------------ MODULE MCUnitTx ------------------------------
(* Small instances of UnitTx for TLC. *)
EXTENDS UnitTx, TLC

CONSTANTS lo, init, new, unitword

MemInit  == [b \in Byte |-> init]
NewWord  == [t \in Tx |-> {[b \in Byte |-> new]}]
UnitNew  == {[b \in Byte |-> unitword]}
WholeWords == {Byte}
Symmetry == Permutations(Tx)
=============================================================================
