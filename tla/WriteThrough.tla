---------------------------- MODULE WriteThrough ----------------------------
(***************************************************************************)
(* The write-through design (stm_wt.h).  A store takes the lock of its     *)
(* address, remembers the old value in the write set and changes memory in *)
(* place; commit only drops the locks, rollback puts the old values back   *)
(* and drops the locks with a new incarnation number, so that a reader of  *)
(* the undone value sees the lock word change.                             *)
(***************************************************************************)
EXTENDS Stm

CONSTANT INCARNATION_MAX   \* the incarnation number is 0 .. INCARNATION_MAX

-----------------------------------------------------------------------------
(* stm_wt_rollback *)

\* The lock word that the owner of entry e took.
OldWord(e) == [owner |-> NoTx, version |-> e.version, incarnation |-> e.incarnation]
Overflow(e) == e.incarnation + 1 > INCARNATION_MAX

\* Restore the old value of an entry; the last entry of a lock goes on to drop it.
Undo(t) ==
    LET w == tx[t].w_set  i == loc[t].i IN
    /\ pc[t] = "rollback"
    /\ i <= Len(w)
    /\ mem' = IF w[i].mask # {} THEN [mem EXCEPT ![w[i].addr] = w[i].value] ELSE mem
    /\ IF IsLast(w, i) THEN Goto(t, "undrop") /\ UNCHANGED loc
                       ELSE loc' = [loc EXCEPT ![t].i = i + 1] /\ UNCHANGED pc
    /\ UNCHANGED <<lock, clock, irrevocable, tx, aux>>

\* The incarnation number is used up: take a timestamp, one for the whole rollback.
UndropClock(t) ==
    /\ pc[t] = "undrop"
    /\ Overflow(tx[t].w_set[loc[t].i])
    /\ loc[t].ts = 0
    /\ clock' = clock + 1
    /\ loc' = [loc EXCEPT ![t].ts = clock + 1]
    /\ UNCHANGED <<lock, mem, irrevocable, tx, pc, aux>>

\* Mutant: the lock gets its old word back.
BugUndrop(t) ==
    LET e == tx[t].w_set[loc[t].i] IN
    /\ pc[t] = "undrop"
    /\ lock' = [lock EXCEPT ![LOCK_IDX(e.addr)] = OldWord(e)]
    /\ loc' = [loc EXCEPT ![t].i = @ + 1]
    /\ Goto(t, "rollback")
    /\ UNCHANGED <<mem, clock, irrevocable, tx, aux>>

\* Drop the lock with the next incarnation number, or with the new timestamp.
Undrop(t) ==
    LET e == tx[t].w_set[loc[t].i] IN
    /\ pc[t] = "undrop"
    /\ Overflow(e) => loc[t].ts # 0
    /\ lock' = [lock EXCEPT ![LOCK_IDX(e.addr)] =
                   IF Overflow(e) THEN Timestamp(loc[t].ts)
                   ELSE [OldWord(e) EXCEPT !.incarnation = @ + 1]]
    /\ loc' = [loc EXCEPT ![t].i = @ + 1]
    /\ Goto(t, "rollback")
    /\ UNCHANGED <<mem, clock, irrevocable, tx, aux>>

stm_wt_rollback(t) == Undo(t) \/ UndropClock(t) \/ Undrop(t) \/ RollbackEnd(t)

-----------------------------------------------------------------------------
(* stm_wt_validate, stm_wt_extend *)

\* Mutant: any version of a free lock will do.
BugEntryValid(t, r) == lock[r.lock].owner \in {t, NoTx}

\* We own the lock, or it is free and still has the timestamp we read.
EntryValid(t, r) ==
    \/ lock[r.lock].owner = t
    \/ lock[r.lock].owner = NoTx /\ lock[r.lock].version = r.version

ValidateEntry(t) ==
    /\ pc[t] = "validate"
    /\ loc[t].i <= Len(tx[t].r_set)
    /\ EntryValid(t, tx[t].r_set[loc[t].i])
    /\ loc' = [loc EXCEPT ![t].i = @ + 1]
    /\ UNCHANGED <<shared, tx, pc, aux>>

ValidateFails(t) ==
    /\ pc[t] = "validate"
    /\ loc[t].i <= Len(tx[t].r_set)
    /\ ~EntryValid(t, tx[t].r_set[loc[t].i])
    /\ Rollback(t, "VALIDATE")

stm_wt_validate(t) == ValidateEntry(t) \/ ValidateFails(t)

\* The end of the snapshot moves, and stm_wt_read returns: the entry of the
\* word was in the read set that has been validated.
ReadExtended(t) ==
    /\ Validated(t, "extend")
    /\ tx' = [tx EXCEPT ![t].end = loc[t].now]
    /\ seen' = [seen EXCEPT ![t] = @ \cup {[addr |-> loc[t].addr, value |-> loc[t].value,
                                            own |-> {}]}]
    /\ Goto(t, "active")
    /\ Clear(t)
    /\ UNCHANGED <<shared, hist>>

stm_wt_extend(t) == Extend(t) \/ ReadExtended(t)

-----------------------------------------------------------------------------
(* stm_wt_read *)

\* The read set of t with the lock it just read (stm_wt_add_to_rs).
stm_wt_add_to_rs(t) == tx[t].r_set \o LogEntry(t)

Stored(t, a) == \E j \in EntryOf(tx[t].w_set, a) : tx[t].w_set[j].mask # {}

\* Our lock: memory holds the value, which our own store may have put there.
LoadOwn(t, a, l) ==
    /\ l.owner = t
    /\ IF Stored(t, a)
       THEN /\ Goto(t, "active")
            /\ Clear(t)
            /\ UNCHANGED <<shared, tx, aux>>
       ELSE ReturnLoad(t, a, mem[a], {}, <<>>)

LoadConflict(t, a, l) ==
    /\ l.owner \in Tx \ {t}
    /\ \/ /\ tx[t].irrevocable # 0
          /\ Goto(t, "load")
          /\ loc' = [loc EXCEPT ![t] = [NoLoc EXCEPT !.addr = a]]
          /\ UNCHANGED <<shared, tx, aux>>
       \/ /\ tx[t].irrevocable = 0
          /\ Rollback(t, "RW_CONFLICT")

LoadFree(t, a, l) ==
    /\ l.owner = NoTx
    /\ Goto(t, "load_value")
    /\ loc' = [loc EXCEPT ![t] = [NoLoc EXCEPT !.addr = a, !.l = l]]
    /\ UNCHANGED <<shared, tx, aux>>

ReadLock(t, a, l) == LoadOwn(t, a, l) \/ LoadConflict(t, a, l) \/ LoadFree(t, a, l)

Load(t) ==
    /\ pc[t] = "active"
    /\ LogRoom(t)
    /\ \E a \in Addr : ReadLock(t, a, lock[LOCK_IDX(a)])

LoadAgain(t) ==
    /\ pc[t] = "load"
    /\ ReadLock(t, loc[t].addr, lock[LOCK_IDX(loc[t].addr)])

LoadRestart(t) ==
    /\ pc[t] = "load_relock"
    /\ ~LockUnchanged(t)
    /\ ReadLock(t, loc[t].addr, lock[LOCK_IDX(loc[t].addr)])

LoadReturn(t) ==
    /\ pc[t] = "load_relock"
    /\ LockUnchanged(t)
    /\ tx[t].irrevocable # 0 \/ loc[t].l.version <= tx[t].end
    /\ ReturnLoad(t, loc[t].addr, loc[t].value, {}, LogEntry(t))

\* A version beyond the snapshot: log it first, then extend.
ReadTooNew(t) ==
    /\ pc[t] = "load_relock"
    /\ LockUnchanged(t)
    /\ tx[t].irrevocable = 0
    /\ loc[t].l.version > tx[t].end
    /\ \/ /\ tx[t].read_only \/ tx[t].no_extend
          /\ Rollback(t, "VAL_READ")
       \/ /\ ~tx[t].read_only /\ ~tx[t].no_extend
          /\ tx' = [tx EXCEPT ![t].r_set = stm_wt_add_to_rs(t)]
          /\ Goto(t, "extend")
          /\ UNCHANGED <<shared, loc, aux>>

stm_wt_read(t) ==
    \/ Load(t) \/ LoadAgain(t) \/ LoadValue(t) \/ LoadRestart(t) \/ LoadReturn(t)
    \/ ReadTooNew(t)

-----------------------------------------------------------------------------
(* stm_wt_write *)

\* The entry of an address that holds the old value, with the old lock word.
AddEntry(a, m, l) ==
    [addr |-> a, mask |-> m, value |-> mem[a], version |-> l.version,
     incarnation |-> l.incarnation, no_drop |-> FALSE]

\* Next, put the stored bytes into memory - unless there are none.
StoreNext(t, a, w, m) ==
    IF m = {} THEN Goto(t, "active") /\ Clear(t)
    ELSE /\ Goto(t, "store_mem")
         /\ loc' = [loc EXCEPT ![t] = [NoLoc EXCEPT !.addr = a, !.value = Merge(mem[a], w, m)]]

\* The first entry of the list, which the lock word points to.
Head1(w, s) == CHOOSE j \in Covered(w, s) : \A k \in Covered(w, s) : j <= k

\* We own the lock.  An address that is in the list keeps the old value that
\* its entry has; if the lock was only acquired so far (mask 0), the old value
\* is remembered in the first entry, whatever address that is for.
StoreOwn(t, a, w, m, l) ==
    LET ws == tx[t].w_set
        h  == Head1(ws, LOCK_IDX(a))
    IN
    /\ l.owner = t
    /\ \/ /\ m = {}
          /\ Goto(t, "active")
          /\ Clear(t)
          /\ UNCHANGED <<shared, tx, aux>>
       \/ /\ m # {} /\ EntryOf(ws, a) # {}
          /\ tx' = IF ws[h].mask # {} THEN tx
                   ELSE [tx EXCEPT ![t].w_set[h].value = mem[a], ![t].w_set[h].mask = m]
          /\ StoreNext(t, a, w, m)
          /\ UNCHANGED <<shared, aux>>
       \/ /\ m # {} /\ EntryOf(ws, a) = {}
          /\ ~WriteSetFull(t)
          /\ tx' = [tx EXCEPT ![t].w_set = Append(@, AddEntry(a, m, OldWord(ws[h])))]
          /\ StoreNext(t, a, w, m)
          /\ UNCHANGED <<shared, aux>>
       \/ /\ m # {} /\ EntryOf(ws, a) = {}
          /\ WriteSetFull(t)
          /\ Rollback(t, "EXTEND_WS")

StoreConflict(t, a, w, m, l) ==
    /\ l.owner \in Tx \ {t}
    /\ \/ /\ tx[t].irrevocable # 0
          /\ Goto(t, "store")
          /\ loc' = [loc EXCEPT ![t] = [NoLoc EXCEPT !.addr = a, !.value = w, !.mask = m]]
          /\ UNCHANGED <<shared, tx, aux>>
       \/ /\ tx[t].irrevocable = 0
          /\ Rollback(t, "WW_CONFLICT")

StoreFree(t, a, w, m, l) ==
    /\ l.owner = NoTx
    /\ \/ /\ ReadOlder(t, a, l)
          /\ Rollback(t, "VAL_WRITE")
       \/ /\ ~ReadOlder(t, a, l)
          /\ WriteSetFull(t)
          /\ Rollback(t, "EXTEND_WS")
       \/ /\ ~ReadOlder(t, a, l)
          /\ ~WriteSetFull(t)
          /\ Goto(t, "store_cas")
          /\ loc' = [loc EXCEPT ![t] = [NoLoc EXCEPT !.addr = a, !.value = w, !.mask = m, !.l = l]]
          /\ UNCHANGED <<shared, tx, aux>>

WriteLock(t, a, w, m, l) ==
    \/ StoreOwn(t, a, w, m, l)
    \/ StoreConflict(t, a, w, m, l)
    \/ StoreFree(t, a, w, m, l)

\* stm_store, stm_store2; with the empty mask, the first half of stm_wt_RfW,
\* whose second half is a load under the own lock.
Store(t) ==
    /\ pc[t] = "active"
    /\ LogRoom(t)
    /\ tx[t].read_only => "ro_write" \in Features
    /\ \E a \in Addr, w \in Stores[t], m \in Mask : WriteLock(t, a, w, m, lock[LOCK_IDX(a)])

StoreAgain(t) ==
    /\ pc[t] = "store"
    /\ WriteLock(t, loc[t].addr, loc[t].value, loc[t].mask, lock[LOCK_IDX(loc[t].addr)])

\* The compare-and-swap on the lock word, and the old value it lets us read.
StoreAcquire(t) ==
    LET a == loc[t].addr IN
    /\ pc[t] = "store_cas"
    /\ LockUnchanged(t)
    /\ lock' = [lock EXCEPT ![LOCK_IDX(a)] = OwnedBy(t)]
    /\ tx' = [tx EXCEPT ![t].w_set = Append(@, AddEntry(a, loc[t].mask, loc[t].l))]
    /\ StoreNext(t, a, loc[t].value, loc[t].mask)
    /\ UNCHANGED <<mem, clock, irrevocable, aux>>

StoreMem(t) ==
    /\ pc[t] = "store_mem"
    /\ mem' = [mem EXCEPT ![loc[t].addr] = loc[t].value]
    /\ Goto(t, "active")
    /\ Clear(t)
    /\ UNCHANGED <<lock, clock, irrevocable, tx, aux>>

stm_wt_write(t) == Store(t) \/ StoreAgain(t) \/ StoreAcquire(t) \/ StoreCasFails(t) \/ StoreMem(t)

\* stm_wt_WaW: the caller has stored into the address before.
WaW(t) ==
    /\ pc[t] = "active"
    /\ \E a \in Addr, w \in Stores[t], m \in Mask :
           Stored(t, a) /\ m # {} /\ StoreNext(t, a, w, m)
    /\ UNCHANGED <<shared, tx, aux>>

-----------------------------------------------------------------------------
(* stm_wt_commit *)

\* Updates give way to an irrevocable transaction.
StartCommit(t) ==
    /\ pc[t] = "active"
    /\ tx[t].w_set # <<>>
    /\ \/ /\ tx[t].irrevocable = 0 /\ irrevocable
          /\ Rollback(t, "IRREVOCABLE")
       \/ /\ tx[t].irrevocable # 0 \/ ~irrevocable
          /\ Goto(t, "commit_clock")
          /\ UNCHANGED <<shared, tx, loc, aux>>

\* What memory holds at the addresses stored becomes the committed version.
StartDrop(t, ts) ==
    /\ Goto(t, "drop")
    /\ loc' = [loc EXCEPT ![t].i = 1, ![t].for = "none", ![t].now = 0, ![t].ts = ts]
    /\ hist' = [a \in Addr |->
                  IF Stored(t, a) THEN hist[a] \cup {[version |-> ts, value |-> mem[a]]}
                  ELSE hist[a]]

TakeTimestamp(t) ==
    /\ pc[t] = "commit_clock"
    /\ clock' = clock + 1
    /\ \/ /\ NoValidation(t)
          /\ StartDrop(t, clock + 1)
       \/ /\ ~NoValidation(t)
          /\ StartValidate(t, "commit", 0, clock + 1)
          /\ UNCHANGED hist
    /\ UNCHANGED <<lock, mem, irrevocable, tx, seen>>

Revalidated(t) ==
    /\ Validated(t, "commit")
    /\ StartDrop(t, loc[t].ts)
    /\ UNCHANGED <<shared, tx, seen>>

Drop(t) ==
    LET w == tx[t].w_set  i == loc[t].i IN
    /\ pc[t] = "drop"
    /\ i <= Len(w)
    /\ lock' = IF IsLast(w, i)
               THEN [lock EXCEPT ![LOCK_IDX(w[i].addr)] = Timestamp(loc[t].ts)]
               ELSE lock
    /\ loc' = [loc EXCEPT ![t].i = i + 1]
    /\ UNCHANGED <<mem, clock, irrevocable, tx, pc, aux>>

Dropped(t) ==
    /\ pc[t] = "drop"
    /\ loc[t].i > Len(tx[t].w_set)
    /\ Committed(t)

stm_wt_commit(t) == StartCommit(t) \/ TakeTimestamp(t) \/ Revalidated(t) \/ Drop(t) \/ Dropped(t)

-----------------------------------------------------------------------------

Next ==
    \/ \E t \in Tx :
         \/ Start(t) \/ PrepareBarrier(t) \/ Prepare(t) \/ UserAbort(t)
         \/ stm_wt_rollback(t) \/ stm_wt_validate(t) \/ stm_wt_extend(t)
         \/ stm_wt_read(t) \/ stm_wt_write(t) \/ WaW(t) \/ stm_wt_commit(t)
         \/ CommitReadOnly(t)
         \/ RequestIrrevocable(t) \/ SetIrrevocable(t) \/ SetIrrevocableFails(t)
         \/ IrrevocableValidated(t) \/ AcquireIrrevocable(t)
    \/ Rollover

Spec == Init /\ [][Next]_vars

-----------------------------------------------------------------------------
(* Properties *)

\* The locks whose last entry commit or rollback still has before it.
Undropped(t) == IF pc[t] \in {"drop", "rollback", "undrop"} THEN loc[t].i ELSE 1
Held(t) == {LOCK_IDX(tx[t].w_set[j].addr) : j \in Undropped(t) .. Len(tx[t].w_set)}

\* A lock word names a transaction exactly as long as commit or rollback has an
\* entry for it to pass.
LockOwner == \A t \in Tx, s \in Stripe : lock[s].owner = t <=> s \in Held(t)

\* The lock word that a lock has, or that its owner took it with.
LockBefore(s) ==
    LET o == lock[s].owner IN
    IF o = NoTx THEN lock[s] ELSE OldWord(tx[o].w_set[Head1(tx[o].w_set, s)])

\* Until the clock is reset, a lock that is given back has a word that it never
\* had before: a greater timestamp, or the same one with a greater incarnation.
\* stm_wt_read relies on it to notice that the value it loaded was undone.
WordsGrowStep ==
    clock' >= clock =>
        \A s \in Stripe :
            LET o == LockBefore(s)  n == LockBefore(s)' IN
            \/ n.version > o.version
            \/ n.version = o.version /\ n.incarnation >= o.incarnation
               /\ (lock[s].owner # NoTx /\ lock'[s].owner = NoTx
                       => n.incarnation > o.incarnation)

\* stm_wt.h:133 "may exceed VERSION_MAX by up to MAX_THREADS", the room that
\* stm_internal.h:194 leaves in a version.  Wrong: a thread takes one timestamp for its
\* commit and another one for the rollback of that commit, when incarnations are used up.
ClockOvershoot == clock <= VERSION_MAX + Cardinality(Tx)

=============================================================================
