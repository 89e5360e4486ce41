---------------------------- MODULE TmRefinement ----------------------------
(***************************************************************************)
(* The designs over Stm implement OpaqueTm: the history variable that the  *)
(* abstract specification needs, and the refinement mapping.               *)
(***************************************************************************)
EXTENDS Stm

VARIABLE readAt   \* history: OpaqueTm's readAt

\* Between the clock read of int_stm_prepare and rollback or write-back.
Runs(t) == pc[t] \notin {"idle", "prepare", "barrier", "install", "drop", "rollback", "undrop"}

\* The transactions that commit in this step, and the time at which they have read.
WritesBack(t) == pc[t] \notin {"install", "drop"} /\ pc'[t] \in {"install", "drop"}
Returns(t) == pc[t] = "active" /\ pc'[t] = "idle"
ReadTime(t) ==
    IF WritesBack(t) THEN loc'[t].ts - 1
    ELSE IF tx[t].irrevocable # 0 THEN clock ELSE tx[t].end

ReadAtInit == readAt = [a \in Addr |-> 0]
ReadAtNext ==
    LET Readers(a) == {t \in Tx : /\ WritesBack(t) \/ Returns(t)
                                  /\ \E r \in seen[t] : r.addr = a}
        Times(a) == {readAt[a]} \cup {ReadTime(t) : t \in Readers(a)}
    IN readAt' = [a \in Addr |-> IF clock' < clock THEN 0
                                 ELSE CHOOSE n \in Times(a) : \A k \in Times(a) : k <= n]

Abstract == INSTANCE OpaqueTm WITH
    now     <- clock,
    running <- {t \in Tx : Runs(t)},
    start   <- [t \in Tx |-> IF Runs(t) THEN tx[t].start ELSE 0],
    seen    <- [t \in Tx |-> IF Runs(t) THEN seen[t] ELSE {}]

\* Transactions are opaque and committed ones serialize in the order of their
\* timestamps, with the time of its snapshot for one that wrote nothing: every
\* step of the design is a step of OpaqueTm.
Opaque == Abstract!Spec

\* Committed transactions do, whatever the others have loaded.
StrictlySerializable == Abstract!SerialSpec

=============================================================================
