------------------------------- MODULE WbEtl -------------------------------
(***************************************************************************)
(* The default design of TinySTM: write-back with encounter-time locking   *)
(* (stm_wbetl.h).  A store takes the lock of its address and buffers the   *)
(* value in the write set; commit writes the write set back.               *)
(***************************************************************************)
EXTENDS Stm

-----------------------------------------------------------------------------
(* Rollback *)

\* Mutant: the version before the one that was locked.
BugRollbackVersion(t) ==
    LET w == tx[t].w_set  i == loc[t].i IN
    /\ pc[t] = "rollback"
    /\ i <= Len(w)
    /\ lock' = IF IsLast(w, i)
               THEN [lock EXCEPT ![LOCK_IDX(w[i].addr)] = Timestamp(w[i].version - 1)]
               ELSE lock
    /\ loc' = [loc EXCEPT ![t].i = i + 1]
    /\ UNCHANGED <<mem, clock, irrevocable, tx, pc, aux>>

\* stm_wbetl_rollback: drop the locks in the order of the write set.
RollbackDrop(t) ==
    LET w == tx[t].w_set  i == loc[t].i IN
    /\ pc[t] = "rollback"
    /\ i <= Len(w)
    /\ lock' = IF IsLast(w, i)
               THEN [lock EXCEPT ![LOCK_IDX(w[i].addr)] = Timestamp(w[i].version)]
               ELSE lock
    /\ loc' = [loc EXCEPT ![t].i = i + 1]
    /\ UNCHANGED <<mem, clock, irrevocable, tx, pc, aux>>

-----------------------------------------------------------------------------
(* stm_wbetl_validate: one lock word per step, on behalf of loc[t].for *)

\* We own the lock, or it is free and still has the version we read.
EntryValid(t, r) ==
    \/ lock[r.lock].owner = t
    \/ lock[r.lock] = Timestamp(r.version)

ValidateEntry(t) ==
    /\ pc[t] = "validate"
    /\ loc[t].i <= Len(tx[t].r_set)
    /\ EntryValid(t, tx[t].r_set[loc[t].i])
    /\ loc' = [loc EXCEPT ![t].i = @ + 1]
    /\ UNCHANGED <<shared, tx, pc, aux>>

\* All three callers roll back when validation fails.
ValidateFails(t) ==
    /\ pc[t] = "validate"
    /\ loc[t].i <= Len(tx[t].r_set)
    /\ ~EntryValid(t, tx[t].r_set[loc[t].i])
    /\ Rollback(t, "VALIDATE")

-----------------------------------------------------------------------------
(* stm_wbetl_read_invisible *)

\* We own the lock: the value is in the write set, or memory holds it.
LoadOwn(t, a, l) ==
    /\ l.owner = t
    /\ IF \E j \in EntryOf(tx[t].w_set, a) : tx[t].w_set[j].mask # {}
       THEN /\ Goto(t, "active")
            /\ Clear(t)
            /\ UNCHANGED <<shared, tx, aux>>
       ELSE ReturnLoad(t, a, mem[a], {}, <<>>)

\* Mutant: an irrevocable transaction rolls back like any other.
BugLoadConflict(t, a, l) ==
    /\ l.owner \in Tx \ {t}
    /\ Rollback(t, "RW_CONFLICT")

\* Owned by another transaction: spin if irrevocable, else STM_ABORT_RW_CONFLICT.
LoadConflict(t, a, l) ==
    /\ l.owner \in Tx \ {t}
    /\ \/ /\ tx[t].irrevocable # 0
          /\ Goto(t, "load")
          /\ loc' = [loc EXCEPT ![t] = [NoLoc EXCEPT !.addr = a]]
          /\ UNCHANGED <<shared, tx, aux>>
       \/ /\ tx[t].irrevocable = 0
          /\ Rollback(t, "RW_CONFLICT")

LoadFree(t, a, l) ==
    /\ l.owner = NoTx
    /\ Goto(t, "load_value")
    /\ loc' = [loc EXCEPT ![t] = [NoLoc EXCEPT !.addr = a, !.l = l]]
    /\ UNCHANGED <<shared, tx, aux>>

\* The code from label restart_no_load on, up to the load of the value.
ReadLock(t, a, l) == LoadOwn(t, a, l) \/ LoadConflict(t, a, l) \/ LoadFree(t, a, l)

Load(t) ==
    /\ pc[t] = "active"
    /\ LogRoom(t)
    /\ \E a \in Addr : ReadLock(t, a, lock[LOCK_IDX(a)])

\* Label restart: the lock word is loaded again.
LoadAgain(t) ==
    /\ pc[t] = "load"
    /\ ReadLock(t, loc[t].addr, lock[LOCK_IDX(loc[t].addr)])

\* The lock word has changed between two loads of it.
LoadRestart(t) ==
    /\ pc[t] \in {"load_relock", "load_recheck"}
    /\ ~LockUnchanged(t)
    /\ ReadLock(t, loc[t].addr, lock[LOCK_IDX(loc[t].addr)])

\* Second load of the lock word: same word, and a version the snapshot covers
\* (which irrevocable mode does not ask for).
LoadReturn(t) ==
    /\ pc[t] = "load_relock"
    /\ LockUnchanged(t)
    /\ tx[t].irrevocable # 0 \/ loc[t].l.version <= tx[t].end
    /\ ReturnLoad(t, loc[t].addr, loc[t].value, {}, LogEntry(t))

\* Third load of the lock word: the value was not covered by the validation.
LoadRecheck(t) ==
    /\ pc[t] = "load_recheck"
    /\ LockUnchanged(t)
    /\ ReturnLoad(t, loc[t].addr, loc[t].value, {}, LogEntry(t))

-----------------------------------------------------------------------------
(* stm_wbetl_write *)

\* Mutant: the entry starts from the stored word, not from memory.
BugAddEntry(a, w, m, version) ==
    [addr |-> a, mask |-> m, value |-> w, version |-> version,
     incarnation |-> 0, no_drop |-> FALSE]

AddEntry(a, w, m, version) ==
    [addr |-> a, mask |-> m, value |-> Merge(mem[a], w, m), version |-> version,
     incarnation |-> 0, no_drop |-> FALSE]

\* Same address again: merge into the entry.
UpdateEntry(e, a, w, m) ==
    [e EXCEPT !.value = Merge(IF e.mask = {} THEN mem[a] ELSE e.value, w, m),
              !.mask = @ \cup m]

\* We own the lock: update the entry of the address or add one to the list,
\* with the version of the list.
StoreOwn(t, a, w, m, l) ==
    LET ws == tx[t].w_set
        c  == Covered(ws, LOCK_IDX(a))
    IN
    /\ l.owner = t
    /\ \/ /\ m = {} \/ EntryOf(ws, a) # {}
          /\ tx' = IF m = {} THEN tx
                   ELSE [tx EXCEPT ![t].w_set =
                           [j \in 1 .. Len(ws) |->
                               IF j \in EntryOf(ws, a) THEN UpdateEntry(ws[j], a, w, m) ELSE ws[j]]]
          /\ Goto(t, "active")
          /\ Clear(t)
          /\ UNCHANGED <<shared, aux>>
       \/ /\ m # {} /\ EntryOf(ws, a) = {}
          /\ ~WriteSetFull(t)
          /\ \E j \in c : tx' = [tx EXCEPT ![t].w_set =
                                    Append(@, AddEntry(a, w, m, ws[j].version))]
          /\ Goto(t, "active")
          /\ Clear(t)
          /\ UNCHANGED <<shared, aux>>
       \/ /\ m # {} /\ EntryOf(ws, a) = {}
          /\ WriteSetFull(t)
          /\ Rollback(t, "EXTEND_WS")

StoreConflict(t, a, w, m, l) ==
    /\ l.owner \in Tx \ {t}
    /\ \/ /\ tx[t].irrevocable # 0
          /\ Goto(t, "store")
          /\ loc' = [loc EXCEPT ![t] = [NoLoc EXCEPT !.addr = a, !.value = w, !.mask = m]]
          /\ UNCHANGED <<shared, tx, aux>>
       \/ /\ tx[t].irrevocable = 0
          /\ Rollback(t, "WW_CONFLICT")

StoreFree(t, a, w, m, l) ==
    /\ l.owner = NoTx
    /\ \/ /\ ReadOlder(t, a, l)
          /\ Rollback(t, "VAL_WRITE")
       \/ /\ ~ReadOlder(t, a, l)
          /\ WriteSetFull(t)
          /\ Rollback(t, "EXTEND_WS")
       \/ /\ ~ReadOlder(t, a, l)
          /\ ~WriteSetFull(t)
          /\ Goto(t, "store_cas")
          /\ loc' = [loc EXCEPT ![t] = [NoLoc EXCEPT !.addr = a, !.value = w, !.mask = m, !.l = l]]
          /\ UNCHANGED <<shared, tx, aux>>

WriteLock(t, a, w, m, l) ==
    \/ StoreOwn(t, a, w, m, l)
    \/ StoreConflict(t, a, w, m, l)
    \/ StoreFree(t, a, w, m, l)

\* stm_store, stm_store2 (any mask; the empty one only acquires the lock).
Store(t) ==
    /\ pc[t] = "active"
    /\ LogRoom(t)
    /\ tx[t].read_only => "ro_write" \in Features
    /\ \E a \in Addr, w \in Stores[t], m \in Mask : WriteLock(t, a, w, m, lock[LOCK_IDX(a)])

StoreAgain(t) ==
    /\ pc[t] = "store"
    /\ WriteLock(t, loc[t].addr, loc[t].value, loc[t].mask, lock[LOCK_IDX(loc[t].addr)])

\* Mutant: a plain store in the place of the compare-and-swap.
BugStoreAcquire(t) ==
    LET a == loc[t].addr IN
    /\ pc[t] = "store_cas"
    /\ lock' = [lock EXCEPT ![LOCK_IDX(a)] = OwnedBy(t)]
    /\ tx' = [tx EXCEPT ![t].w_set =
                Append(@, AddEntry(a, loc[t].value, loc[t].mask, loc[t].l.version))]
    /\ Goto(t, "active")
    /\ Clear(t)
    /\ UNCHANGED <<mem, clock, irrevocable, aux>>

\* The compare-and-swap on the lock word, and the entry it makes ours.
StoreAcquire(t) ==
    LET a == loc[t].addr IN
    /\ pc[t] = "store_cas"
    /\ LockUnchanged(t)
    /\ lock' = [lock EXCEPT ![LOCK_IDX(a)] = OwnedBy(t)]
    /\ tx' = [tx EXCEPT ![t].w_set =
                Append(@, AddEntry(a, loc[t].value, loc[t].mask, loc[t].l.version))]
    /\ Goto(t, "active")
    /\ Clear(t)
    /\ UNCHANGED <<mem, clock, irrevocable, aux>>

-----------------------------------------------------------------------------
(* stm_wbetl_commit *)

\* Write the entry back ...
Install(t) ==
    LET e == tx[t].w_set[loc[t].i] IN
    /\ pc[t] = "install"
    /\ loc[t].i <= Len(tx[t].w_set)
    /\ mem' = IF e.mask # {} THEN [mem EXCEPT ![e.addr] = e.value] ELSE mem
    /\ Goto(t, "drop")
    /\ UNCHANGED <<lock, clock, irrevocable, tx, loc, aux>>

\* ... and drop the lock with the last entry of its list.
Drop(t) ==
    LET w == tx[t].w_set  i == loc[t].i IN
    /\ pc[t] = "drop"
    /\ lock' = IF IsLast(w, i)
               THEN [lock EXCEPT ![LOCK_IDX(w[i].addr)] = Timestamp(loc[t].ts)]
               ELSE lock
    /\ loc' = [loc EXCEPT ![t].i = i + 1]
    /\ Goto(t, "install")
    /\ UNCHANGED <<mem, clock, irrevocable, tx, aux>>

-----------------------------------------------------------------------------
\* What the library does by itself once a call is made ...
Running(t) ==
    \/ PrepareBarrier(t) \/ Prepare(t)
    \/ RollbackDrop(t) \/ RollbackEnd(t)
    \/ ValidateEntry(t) \/ ValidateFails(t)
    \/ LoadAgain(t) \/ LoadValue(t) \/ LoadRestart(t) \/ LoadReturn(t) \/ LoadTooNew(t)
    \/ Extend(t) \/ Extended(t) \/ LoadRecheck(t)
    \/ StoreAgain(t) \/ StoreAcquire(t) \/ StoreCasFails(t)
    \/ CommitClock(t) \/ CommitValidated(t) \/ Install(t) \/ Drop(t) \/ CommitEnd(t)
    \/ IrrevocableValidated(t) \/ AcquireIrrevocable(t)

\* ... and the calls of the application.
Call(t) ==
    \/ Start(t) \/ Load(t) \/ Store(t) \/ CommitReadOnly(t) \/ Commit(t)
    \/ UserAbort(t) \/ RequestIrrevocable(t) \/ SetIrrevocable(t)
    \/ SetIrrevocableFails(t)

Next == (\E t \in Tx : Running(t) \/ Call(t)) \/ Rollover

Spec == Init /\ [][Next]_vars

-----------------------------------------------------------------------------
(* Properties *)

\* The locks that t still has to drop, by its write set and its place in the
\* loops of stm_wbetl_commit and stm_wbetl_rollback.
Undropped(t) == IF pc[t] \in {"install", "drop", "rollback"} THEN loc[t].i ELSE 1
Held(t) == {LOCK_IDX(tx[t].w_set[j].addr) : j \in Undropped(t) .. Len(tx[t].w_set)}

\* A lock word names a transaction exactly as long as its write set has an entry
\* for the lock that commit or rollback has not passed: no lock leaks, none is
\* dropped early, no two transactions have entries under one lock.
LockOwner ==
    \A t \in Tx, s \in Stripe : lock[s].owner = t <=> s \in Held(t)

\* A masked store (stm_store2) leaves the other bytes of the word as the commits
\* before it left them, whoever changed them since the transaction started.
UnmaskedBytesKept ==
    \A t \in Tx : pc[t] \in {"install", "drop"} =>
        \A j \in 1 .. Len(tx[t].w_set) :
            LET e == tx[t].w_set[j] IN
            e.mask # {} =>
                \A b \in Byte \ e.mask : e.value[b] = Snapshot(e.addr, loc[t].ts - 1)[b]

\* The version that a lock has, or that its owner took it with and would restore.
LockVersion(s) ==
    LET o == lock[s].owner IN
    IF o = NoTx THEN lock[s].version
    ELSE LET w == tx[o].w_set IN w[CHOOSE j \in Covered(w, s) : TRUE].version

\* As long as the clock is not reset, no lock returns to an older version, through
\* any sequence of acquisitions, commits and rollbacks by any thread.  (Were it
\* not so, a version seen twice could hide two different contents of a stripe
\* from stm_wbetl_validate and from the reloads of stm_wbetl_read_invisible.)
VersionsGrowStep ==
    clock' >= clock => \A s \in Stripe : LockVersion(s)' >= LockVersion(s)
VersionsGrow == [][VersionsGrowStep]_vars

=============================================================================
