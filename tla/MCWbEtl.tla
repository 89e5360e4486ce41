------------------------------ MODULE MCWbEtl ------------------------------
(* Small instances of WbEtl for TLC. *)
EXTENDS WbEtl, TLC

CONSTANTS lo, hi, init, new

\* Threads store words of their own, so that a load tells whose value it is, any word,
\* so that it tells which commit it is from, or the same word.
OwnWord == [t \in Tx |-> {[b \in Byte |-> t]}]
AnyWord == [t \in Tx |-> Word]
NewWord == [t \in Tx |-> {[b \in Byte |-> new]}]
MemInit == [b \in Byte |-> init]

Symmetry == Permutations(Tx)

\* Masks of the instances: acquire only, whole words, and single parts of a word.
WholeWords == {Byte}
AnyMask    == SUBSET Byte
=============================================================================
