------------------------------- MODULE MCWt -------------------------------
(* Small instances of WriteThrough for TLC. *)
EXTENDS WriteThrough, TLC
CONSTANTS lo, hi, init, new
OwnWord == [t \in Tx |-> {[b \in Byte |-> t]}]
NewWord == [t \in Tx |-> {[b \in Byte |-> new]}]
MemInit == [b \in Byte |-> init]
Symmetry == Permutations(Tx)
WholeWords == {Byte}
OrNone == {{}, Byte}
=============================================================================
