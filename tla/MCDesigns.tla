----------------------------- MODULE MCDesigns -----------------------------
(* Small instances of the designs, side by side: one is chosen at the start. *)
EXTENDS TmRefinement, TLC

CONSTANTS lo, hi, init, new,
          Designs,           \* the designs that are checked
          INCARNATION_MAX,
          MaxLogWt          \* bound: MaxLog for the write-through design, whose states are many

VARIABLE design

Etl == INSTANCE WbEtl
Ctl == INSTANCE WbCtl
Wt  == INSTANCE WriteThrough WITH MaxLog <- MaxLogWt

OwnWord == [t \in Tx |-> {[b \in Byte |-> t]}]
AnyWord == [t \in Tx |-> Word]
NewWord == [t \in Tx |-> {[b \in Byte |-> new]}]
MemInit == [b \in Byte |-> init]
WholeWords == {Byte}
OneByte    == {{lo}}
AnyMask    == SUBSET Byte
Symmetry   == Permutations(Tx)

\* Bound: no irrevocable transactions with the write-through design.
NeverIrrevocable == \A t \in Tx : tx[t].irrevocable = 0

DInit == Init /\ ReadAtInit /\ design \in Designs
DNext ==
    /\ \/ design = "etl" /\ Etl!Next
       \/ design = "ctl" /\ Ctl!Next
       \/ design = "wt" /\ Wt!Next /\ NeverIrrevocable'
    /\ ReadAtNext
    /\ UNCHANGED design
DSpec == DInit /\ [][DNext]_<<vars, readAt, design>>

\* LockOwner of the design: commit and rollback give back every lock, once.
Owners ==
    /\ design = "etl" => Etl!LockOwner
    /\ design = "ctl" => Ctl!LockOwner
    /\ design = "wt" => Wt!LockOwner

\* UnmaskedBytesKept (stm_wbetl_write) and LoadsOwnStores (stm_wbctl_read): sub-word
\* stores mix with what others commit, and with the own loads, byte by byte.
BytesKept ==
    /\ design = "etl" => Etl!UnmaskedBytesKept
    /\ design = "ctl" => Ctl!LoadsOwnStores

\* No lock word comes back, unless the clock is reset: VersionsGrow and WordsGrow.
WordsNeverReturn ==
    [][/\ design = "etl" => Etl!VersionsGrowStep
       /\ design = "ctl" => Ctl!VersionsGrowStep
       /\ design = "wt" => Wt!WordsGrowStep]_vars

\* ClockBound (stm_wbetl_extend, stm_wbctl_commit): how far the clock may pass VERSION_MAX.
\* It does not hold of the write-through design, see ClockOvershoot in WriteThrough.
ClockBounds == design \in {"etl", "ctl"} => ClockBound
=============================================================================
