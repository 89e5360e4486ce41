------------------------------- MODULE UnitTx -------------------------------
(***************************************************************************)
(* Unit loads and stores (UNIT_TX, stm.c): word accesses outside of any    *)
(* transaction that run beside the transactions of WbEtl.  A unit store    *)
(* takes the lock of its address with the word LOCK_UNIT, which names no   *)
(* descriptor: transactions that meet it in a load or a store retry.       *)
(*                                                                         *)
(* The calling thread is registered and between two transactions.          *)
(***************************************************************************)
EXTENDS WbEtl

CONSTANTS UnitThreads,   \* bound: the threads that call the unit functions
          UnitWord,      \* the words they store
          UnitAddr       \* bound: the addresses they use

ASSUME UnitAssumption ==
    /\ UnitThreads \subseteq Tx
    /\ UnitWord \subseteq Word
    /\ UnitAddr \subseteq Addr

VARIABLE unit   \* per thread: the unit call it is in, and its timestamp variable

\* at: the step of the call; stamp: the variable that the application passes as
\* *timestamp; given: it is passed (not NULL); fresh: the clock has not been reset
\* since it was set (auxiliary).
UnitDesc == [at : {"none", "load", "load_value", "load_relock",
                   "store", "cas", "write", "clock", "release", "barrier"},
             addr : Addr, value : Word, l : LockWord,
             given : BOOLEAN, stamp : Nat, fresh : BOOLEAN]

NoCall(u) == [u EXCEPT !.at = "none", !.addr = a0, !.value = InitWord, !.l = Timestamp(0),
                       !.given = FALSE]
At(t, label) == unit[t].at = label
Step(t, label) == unit' = [unit EXCEPT ![t].at = label]
Return(t) == unit' = [unit EXCEPT ![t] = NoCall(@)]
Return1(t, stamp) == unit' = [unit EXCEPT ![t] = [NoCall(@) EXCEPT !.stamp = stamp, !.fresh = TRUE]]

LockOf(t) == LOCK_IDX(unit[t].addr)
UnitLockUnchanged(t) == lock[LockOf(t)] = unit[t].l
txState == <<shared, tx, pc, loc, aux>>

-----------------------------------------------------------------------------
(* stm_unit_load *)

StmUnitLoad(t) ==
    /\ t \in UnitThreads
    /\ At(t, "none") /\ pc[t] = "idle"
    /\ \E a \in UnitAddr : unit' = [unit EXCEPT ![t].at = "load", ![t].addr = a]
    /\ UNCHANGED txState

\* Wait until the lock is free.
UnitLoadLock(t) ==
    /\ At(t, "load")
    /\ lock[LockOf(t)].owner = NoTx
    /\ unit' = [unit EXCEPT ![t].at = "load_value", ![t].l = lock[LockOf(t)]]
    /\ UNCHANGED txState

UnitLoadValue(t) ==
    /\ At(t, "load_value")
    /\ unit' = [unit EXCEPT ![t].at = "load_relock", ![t].value = mem[unit[t].addr]]
    /\ UNCHANGED txState

\* Mutant: the lock is not read again.
BugUnitLoadReturn(t) ==
    /\ At(t, "load_relock")
    /\ Return1(t, unit[t].l.version)
    /\ UNCHANGED txState

\* The lock is unchanged: return the value, and its timestamp.
UnitLoadReturn(t) ==
    /\ At(t, "load_relock")
    /\ UnitLockUnchanged(t)
    /\ Return1(t, unit[t].l.version)
    /\ UNCHANGED txState

\* Label restart_no_load, with the lock word that has been read again.
UnitLoadRestart(t) ==
    LET l == lock[LockOf(t)] IN
    /\ At(t, "load_relock")
    /\ ~UnitLockUnchanged(t)
    /\ unit' = [unit EXCEPT ![t].at = IF l.owner = NoTx THEN "load_value" ELSE "load",
                            ![t].value = InitWord,
                            ![t].l = IF l.owner = NoTx THEN l ELSE Timestamp(0)]
    /\ UNCHANGED txState

-----------------------------------------------------------------------------
(* stm_unit_write: stm_unit_store, and stm_unit_store2, whose mask it ignores *)

StmUnitStore(t) ==
    /\ t \in UnitThreads
    /\ At(t, "none") /\ pc[t] = "idle"
    /\ \E a \in UnitAddr, w \in UnitWord, given \in BOOLEAN :
          unit' = [unit EXCEPT ![t] = [@ EXCEPT !.at = "store", !.addr = a, !.value = w,
                                                !.given = given]]
    /\ UNCHANGED txState

\* Wait until the lock is free, and return 0 if the memory is newer than the
\* caller's timestamp.
UnitStoreLock(t) ==
    LET l == lock[LockOf(t)] IN
    /\ At(t, "store")
    /\ l.owner = NoTx
    /\ IF unit[t].given /\ l.version > unit[t].stamp
       THEN Return1(t, l.version)
       ELSE unit' = [unit EXCEPT ![t].at = "cas", ![t].l = l]
    /\ UNCHANGED txState

\* Mutant: a plain store in the place of the compare-and-swap.
BugUnitCas(t) ==
    /\ At(t, "cas")
    /\ lock' = [lock EXCEPT ![LockOf(t)] = [Timestamp(0) EXCEPT !.owner = LOCK_UNIT]]
    /\ Step(t, "write")
    /\ UNCHANGED <<mem, clock, irrevocable, tx, pc, loc, aux>>

UnitCas(t) ==
    /\ At(t, "cas")
    /\ UnitLockUnchanged(t)
    /\ lock' = [lock EXCEPT ![LockOf(t)] = [Timestamp(0) EXCEPT !.owner = LOCK_UNIT]]
    /\ Step(t, "write")
    /\ UNCHANGED <<mem, clock, irrevocable, tx, pc, loc, aux>>

UnitCasFails(t) ==
    /\ At(t, "cas")
    /\ ~UnitLockUnchanged(t)
    /\ unit' = [unit EXCEPT ![t].at = "store", ![t].l = Timestamp(0)]
    /\ UNCHANGED txState

UnitWrite(t) ==
    /\ At(t, "write")
    /\ mem' = [mem EXCEPT ![unit[t].addr] = unit[t].value]
    /\ Step(t, "clock")
    /\ UNCHANGED <<lock, clock, irrevocable, tx, pc, loc, aux>>

\* Mutant: the store keeps the version that the lock had.
BugUnitClock(t) ==
    LET u == unit[t] IN
    /\ At(t, "clock")
    /\ unit' = [unit EXCEPT ![t].at = "release"]
    /\ hist' = [hist EXCEPT ![u.addr] = @ \cup {[version |-> clock, value |-> u.value]}]
    /\ UNCHANGED <<shared, tx, pc, loc, seen>>

\* The new timestamp, for the lock and for the caller.
UnitClock(t) ==
    LET u == unit[t] IN
    /\ At(t, "clock")
    /\ clock' = clock + 1
    /\ unit' = [unit EXCEPT ![t].at = "release", ![t].l = Timestamp(clock + 1),
                            ![t].stamp = IF u.given THEN clock + 1 ELSE @,
                            ![t].fresh = @ \/ u.given]
    /\ hist' = [hist EXCEPT ![u.addr] = @ \cup {[version |-> clock + 1, value |-> u.value]}]
    /\ UNCHANGED <<lock, mem, irrevocable, tx, pc, loc, seen>>

\* Release the lock; block on the barrier if the clock has reached its limit.
UnitRelease(t) ==
    /\ At(t, "release")
    /\ lock' = [lock EXCEPT ![LockOf(t)] = unit[t].l]
    /\ IF unit[t].l.version >= VERSION_MAX THEN Step(t, "barrier") ELSE Return(t)
    /\ UNCHANGED <<mem, clock, irrevocable, tx, pc, loc, aux>>

\* The threads that a unit store has blocked go on after the reset.
UnitRollover ==
    LET Blocked == {t \in UnitThreads : At(t, "barrier")} IN
    /\ RolloverBut(Blocked)
    /\ unit' = [t \in Tx |->
                   [(IF t \in Blocked THEN NoCall(unit[t]) ELSE unit[t]) EXCEPT !.fresh = FALSE]]

-----------------------------------------------------------------------------
(* int_stm_set_extension: allow or forbid to extend the snapshot, and bound it *)

SetExtension(t) ==
    /\ "set_extension" \in Features
    /\ pc[t] = "active"
    /\ \E enable, given \in BOOLEAN :
          tx' = [tx EXCEPT ![t].no_extend = ~enable,
                           ![t].end = IF given /\ unit[t].stamp < @ THEN unit[t].stamp ELSE @]
    /\ UNCHANGED <<shared, pc, loc, aux, unit>>

-----------------------------------------------------------------------------
UnitStep(t) ==
    \/ StmUnitLoad(t) \/ UnitLoadLock(t) \/ UnitLoadValue(t) \/ UnitLoadReturn(t)
    \/ UnitLoadRestart(t)
    \/ StmUnitStore(t) \/ UnitStoreLock(t) \/ UnitCas(t) \/ UnitCasFails(t) \/ UnitWrite(t)
    \/ UnitClock(t) \/ UnitRelease(t)

\* A thread in a unit call starts no transaction.
TxStep(t) == At(t, "none") /\ (Running(t) \/ Call(t)) /\ UNCHANGED unit

UnitInit ==
    /\ Init
    /\ unit = [t \in Tx |-> [at |-> "none", addr |-> a0, value |-> InitWord,
                             l |-> Timestamp(0), given |-> FALSE, stamp |-> 0, fresh |-> TRUE]]
UnitNext == (\E t \in Tx : TxStep(t) \/ UnitStep(t) \/ SetExtension(t)) \/ UnitRollover

UnitSpec == UnitInit /\ [][UnitNext]_<<vars, unit>>

-----------------------------------------------------------------------------
(* Properties *)

\* stm_unit_load: the value and the timestamp belong together, whatever commits
\* and unit stores write, take back or release between the three reads.
UnitLoadsCommitted ==
    [][\A t \in Tx :
          At(t, "load_relock") /\ At(t, "none")' =>
              unit[t].value = Snapshot(unit[t].addr, unit'[t].stamp)]_<<vars, unit>>

\* A conditional store (stm_unit_write with a timestamp) writes only if nobody has
\* changed the word since that time, transaction or unit store: with stm_unit_load
\* it makes a compare-and-swap.  (Not so across a reset of the clock, when the
\* caller's timestamp says nothing any more.)
UnitStoresCurrent ==
    [][\A t \in Tx :
          At(t, "clock") /\ At(t, "release")' /\ unit[t].given /\ unit[t].fresh =>
              \A h \in hist[unit[t].addr] : h.version <= unit[t].stamp]_<<vars, unit>>

=============================================================================
