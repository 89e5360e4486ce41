------------------------------- MODULE WbCtl -------------------------------
(***************************************************************************)
(* The write-back design with commit-time locking (stm_wbctl.h).  A store  *)
(* only adds an entry to the write set; commit takes the locks, from the   *)
(* last entry to the first, and writes the entries back.                   *)
(***************************************************************************)
EXTENDS Stm

-----------------------------------------------------------------------------
(* Rollback and validation *)

\* The loops of commit and rollback that go through the write set backwards.
Backwards(t) == Len(tx[t].w_set) + 1 - loc[t].i

\* Give back the locks that commit has acquired, latest first, until all are.
RollbackDrop(t) ==
    LET e == tx[t].w_set[Backwards(t)] IN
    /\ pc[t] = "rollback"
    /\ tx[t].nb_acquired > 0
    /\ lock' = IF e.no_drop THEN lock
               ELSE [lock EXCEPT ![LOCK_IDX(e.addr)] = Timestamp(e.version)]
    /\ tx' = [tx EXCEPT ![t].nb_acquired = IF e.no_drop THEN @ ELSE @ - 1]
    /\ loc' = [loc EXCEPT ![t].i = @ + 1]
    /\ UNCHANGED <<mem, clock, irrevocable, pc, aux>>

Restart(t) ==
    /\ pc[t] = "rollback"
    /\ tx[t].nb_acquired = 0
    /\ tx' = [tx EXCEPT ![t].w_set = <<>>]
    /\ Goto(t, "prepare")
    /\ Clear(t)
    /\ UNCHANGED <<shared, aux>>

\* Mutant: the version that the own lock was taken with is not looked at.
BugEntryValid(t, r) ==
    \/ lock[r.lock].owner = t
    \/ lock[r.lock] = Timestamp(r.version)

\* The lock is free and has the version we read, or we have taken it with that version.
EntryValid(t, r) ==
    \/ lock[r.lock] = Timestamp(r.version)
    \/ /\ lock[r.lock].owner = t
       /\ \E j \in Covered(tx[t].w_set, r.lock) :
              ~tx[t].w_set[j].no_drop /\ tx[t].w_set[j].version = r.version

ValidateEntry(t) ==
    /\ pc[t] = "validate"
    /\ loc[t].i <= Len(tx[t].r_set)
    /\ EntryValid(t, tx[t].r_set[loc[t].i])
    /\ loc' = [loc EXCEPT ![t].i = @ + 1]
    /\ UNCHANGED <<shared, tx, pc, aux>>

ValidateFails(t) ==
    /\ pc[t] = "validate"
    /\ loc[t].i <= Len(tx[t].r_set)
    /\ ~EntryValid(t, tx[t].r_set[loc[t].i])
    /\ Rollback(t, "VALIDATE")

stm_wbctl_rollback(t) == RollbackDrop(t) \/ Restart(t)
stm_wbctl_validate(t) == ValidateEntry(t) \/ ValidateFails(t)
stm_wbctl_extend(t)   == Extend(t) \/ Extended(t)

-----------------------------------------------------------------------------
(* stm_wbctl_read *)

\* The bytes of an address that the transaction has stored, and their values.
OwnMask(t, a) == UNION {tx[t].w_set[j].mask : j \in EntryOf(tx[t].w_set, a)}
OwnValue(t, a) == tx[t].w_set[CHOOSE j \in EntryOf(tx[t].w_set, a) : TRUE].value

\* Load the lock word; spin as long as a commit holds it.
LoadLock(t, a, l) ==
    /\ Goto(t, IF l.owner = NoTx THEN "load_value" ELSE "load")
    /\ loc' = [loc EXCEPT ![t] = [NoLoc EXCEPT !.addr = a, !.l = IF l.owner = NoTx THEN l ELSE @]]
    /\ UNCHANGED <<shared, tx, aux>>

\* If all of the word is in the write set, a load returns it and changes nothing.
Load(t) ==
    /\ pc[t] = "active"
    /\ LogRoom(t)
    /\ \E a \in Addr : OwnMask(t, a) # Byte /\ LoadLock(t, a, lock[LOCK_IDX(a)])

LoadAgain(t) ==
    /\ pc[t] = "load"
    /\ lock[LOCK_IDX(loc[t].addr)].owner = NoTx
    /\ LoadLock(t, loc[t].addr, lock[LOCK_IDX(loc[t].addr)])

\* The lock word has changed since it was first loaded.
LoadRestart(t) ==
    /\ pc[t] = "load_relock"
    /\ ~LockUnchanged(t)
    /\ LoadLock(t, loc[t].addr, lock[LOCK_IDX(loc[t].addr)])

\* Merge the bytes stored before into the loaded word - which irrevocable
\* mode jumps over.
Loaded(t) ==
    LET a == loc[t].addr
        m == OwnMask(t, a)
    IN  ReturnLoad(t, a, IF m = {} \/ tx[t].irrevocable # 0 THEN loc[t].value
                         ELSE Merge(loc[t].value, OwnValue(t, a), m),
                   m, LogEntry(t))

LoadReturn(t) ==
    /\ pc[t] = "load_relock"
    /\ LockUnchanged(t)
    /\ tx[t].irrevocable # 0 \/ loc[t].l.version <= tx[t].end
    /\ Loaded(t)

LoadRecheck(t) ==
    /\ pc[t] = "load_recheck"
    /\ LockUnchanged(t)
    /\ Loaded(t)

\* The lock word has changed since the extension: the code goes on with the
\* word it had before, which the next comparison finds out.
LoadStale(t) ==
    /\ pc[t] = "load_recheck"
    /\ ~LockUnchanged(t)
    /\ Goto(t, "load_value")
    /\ UNCHANGED <<shared, tx, loc, aux>>

stm_wbctl_read(t) ==
    \/ Load(t) \/ LoadAgain(t) \/ LoadValue(t) \/ LoadRestart(t) \/ LoadReturn(t)
    \/ LoadTooNew(t) \/ LoadRecheck(t) \/ LoadStale(t)

-----------------------------------------------------------------------------
(* stm_wbctl_write *)

\* Store into the entry of an address that is in the write set.
UpdateEntry(t, a, w, m) ==
    /\ tx' = [tx EXCEPT ![t].w_set =
                [j \in 1 .. Len(@) |->
                    IF @[j].addr = a THEN [@[j] EXCEPT !.value = Merge(@, w, m), !.mask = @ \cup m]
                    ELSE @[j]]]
    /\ Goto(t, "active")
    /\ Clear(t)
    /\ UNCHANGED <<shared, aux>>

\* A new entry; the write set grows as needed.
AddEntry(t, a, w, m) ==
    /\ tx' = [tx EXCEPT ![t].w_set =
                Append(@, [addr |-> a, mask |-> m, value |-> w, version |-> 0,
                           incarnation |-> 0, no_drop |-> TRUE])]
    /\ Goto(t, "active")
    /\ Clear(t)
    /\ UNCHANGED <<shared, aux>>

WriteLock(t, a, w, m, l) ==
    \/ /\ l.owner # NoTx
       /\ Goto(t, "store")
       /\ loc' = [loc EXCEPT ![t] = [NoLoc EXCEPT !.addr = a, !.value = w, !.mask = m]]
       /\ UNCHANGED <<shared, tx, aux>>
    \/ /\ l.owner = NoTx
       /\ \/ /\ EntryOf(tx[t].w_set, a) # {}
             /\ UpdateEntry(t, a, w, m)
          \/ /\ EntryOf(tx[t].w_set, a) = {}
             /\ ReadOlder(t, a, l)
             /\ Rollback(t, "VAL_WRITE")
          \/ /\ EntryOf(tx[t].w_set, a) = {}
             /\ ~ReadOlder(t, a, l)
             /\ AddEntry(t, a, w, m)

Store(t) ==
    /\ pc[t] = "active"
    /\ LogRoom(t)
    /\ tx[t].read_only => "ro_write" \in Features
    /\ \E a \in Addr, w \in Stores[t], m \in Mask : WriteLock(t, a, w, m, lock[LOCK_IDX(a)])

StoreAgain(t) ==
    /\ pc[t] = "store"
    /\ lock[LOCK_IDX(loc[t].addr)].owner = NoTx
    /\ WriteLock(t, loc[t].addr, loc[t].value, loc[t].mask, lock[LOCK_IDX(loc[t].addr)])

\* stm_wbctl_WaW: the caller knows that the address is in the write set.
WaW(t) ==
    /\ pc[t] = "active"
    /\ \E a \in Addr, w \in Stores[t], m \in Mask :
           EntryOf(tx[t].w_set, a) # {} /\ UpdateEntry(t, a, w, m)

stm_wbctl_write(t) == Store(t) \/ StoreAgain(t)

-----------------------------------------------------------------------------
(* stm_wbctl_commit *)

StartAcquire(t) ==
    /\ pc[t] = "active"
    /\ tx[t].w_set # <<>>
    /\ Goto(t, "acquire")
    /\ UNCHANGED <<shared, tx, loc, aux>>

\* Load the lock word of an entry: ours already, somebody else's, or free.
Acquire(t) ==
    LET l == lock[LOCK_IDX(tx[t].w_set[Backwards(t)].addr)] IN
    /\ pc[t] = "acquire"
    /\ loc[t].i <= Len(tx[t].w_set)
    /\ \/ /\ l.owner = t
          /\ loc' = [loc EXCEPT ![t].i = @ + 1]
          /\ UNCHANGED <<shared, tx, pc, aux>>
       \/ /\ l.owner \notin {t, NoTx}
          /\ tx[t].irrevocable = 0
          /\ Rollback(t, "WW_CONFLICT")
       \/ /\ l.owner = NoTx
          /\ Goto(t, "acquire_cas")
          /\ loc' = [loc EXCEPT ![t].l = l]
          /\ UNCHANGED <<shared, tx, aux>>

\* Mutant: a plain store in the place of the compare-and-swap.
BugAcquireCas(t) ==
    LET k == Backwards(t) IN
    /\ pc[t] = "acquire_cas"
    /\ lock' = [lock EXCEPT ![LOCK_IDX(tx[t].w_set[k].addr)] = OwnedBy(t)]
    /\ tx' = [tx EXCEPT ![t].w_set[k].no_drop = FALSE,
                        ![t].w_set[k].version = loc[t].l.version,
                        ![t].nb_acquired = @ + 1]
    /\ Goto(t, "acquire")
    /\ loc' = [loc EXCEPT ![t].i = @ + 1, ![t].l = Timestamp(0)]
    /\ UNCHANGED <<mem, clock, irrevocable, aux>>

\* The compare-and-swap on the lock word.
AcquireCas(t) ==
    LET k == Backwards(t)
        s == LOCK_IDX(tx[t].w_set[k].addr)
    IN
    /\ pc[t] = "acquire_cas"
    /\ lock[s] = loc[t].l
    /\ lock' = [lock EXCEPT ![s] = OwnedBy(t)]
    /\ tx' = [tx EXCEPT ![t].w_set[k].no_drop = FALSE,
                        ![t].w_set[k].version = loc[t].l.version,
                        ![t].nb_acquired = @ + 1]
    /\ Goto(t, "acquire")
    /\ loc' = [loc EXCEPT ![t].i = @ + 1, ![t].l = Timestamp(0)]
    /\ UNCHANGED <<mem, clock, irrevocable, aux>>

AcquireCasFails(t) ==
    /\ pc[t] = "acquire_cas"
    /\ lock[LOCK_IDX(tx[t].w_set[Backwards(t)].addr)] # loc[t].l
    /\ Goto(t, "acquire")
    /\ loc' = [loc EXCEPT ![t].l = Timestamp(0)]
    /\ UNCHANGED <<shared, tx, aux>>

\* All locks are ours: give way to an irrevocable transaction.
Acquired(t) ==
    /\ pc[t] = "acquire"
    /\ loc[t].i > Len(tx[t].w_set)
    /\ \/ /\ tx[t].irrevocable = 0 /\ irrevocable
          /\ Rollback(t, "IRREVOCABLE")
       \/ /\ tx[t].irrevocable # 0 \/ ~irrevocable
          /\ Goto(t, "commit_clock")
          /\ Clear(t)
          /\ UNCHANGED <<shared, tx, aux>>

\* Write an entry back: the bytes of its mask ...
Install(t) ==
    LET e == tx[t].w_set[loc[t].i] IN
    /\ pc[t] = "install"
    /\ loc[t].i <= Len(tx[t].w_set)
    /\ mem' = [mem EXCEPT ![e.addr] = Merge(@, e.value, e.mask)]
    /\ Goto(t, "drop")
    /\ UNCHANGED <<lock, clock, irrevocable, tx, loc, aux>>

\* Mutant: every entry drops the lock.
BugDrop(t) ==
    LET e == tx[t].w_set[loc[t].i] IN
    /\ pc[t] = "drop"
    /\ lock' = [lock EXCEPT ![LOCK_IDX(e.addr)] = Timestamp(loc[t].ts)]
    /\ loc' = [loc EXCEPT ![t].i = @ + 1]
    /\ Goto(t, "install")
    /\ UNCHANGED <<mem, clock, irrevocable, tx, aux>>

\* ... and drop the lock with the entry that acquired it, the last one it covers.
Drop(t) ==
    LET e == tx[t].w_set[loc[t].i] IN
    /\ pc[t] = "drop"
    /\ lock' = IF e.no_drop THEN lock
               ELSE [lock EXCEPT ![LOCK_IDX(e.addr)] = Timestamp(loc[t].ts)]
    /\ loc' = [loc EXCEPT ![t].i = @ + 1]
    /\ Goto(t, "install")
    /\ UNCHANGED <<mem, clock, irrevocable, tx, aux>>

stm_wbctl_commit(t) ==
    \/ StartAcquire(t) \/ Acquire(t) \/ AcquireCas(t) \/ AcquireCasFails(t) \/ Acquired(t)
    \/ CommitClock(t) \/ CommitValidated(t) \/ Install(t) \/ Drop(t)

-----------------------------------------------------------------------------

Next ==
    \/ \E t \in Tx :
         \/ Start(t) \/ PrepareBarrier(t) \/ Prepare(t) \/ UserAbort(t)
         \/ stm_wbctl_rollback(t) \/ stm_wbctl_validate(t) \/ stm_wbctl_extend(t)
         \/ stm_wbctl_read(t) \/ stm_wbctl_write(t) \/ WaW(t) \/ stm_wbctl_commit(t)
         \/ CommitReadOnly(t) \/ CommitEnd(t)
         \/ RequestIrrevocable(t) \/ SetIrrevocable(t) \/ SetIrrevocableFails(t)
         \/ IrrevocableValidated(t) \/ AcquireIrrevocable(t)
    \/ Rollover

Spec == Init /\ [][Next]_vars

-----------------------------------------------------------------------------
(* Properties *)

\* The entries whose lock commit has acquired and neither commit nor rollback
\* has passed yet.
Undropped(t) ==
    {j \in 1 .. Len(tx[t].w_set) :
        /\ ~tx[t].w_set[j].no_drop
        /\ pc[t] \in {"install", "drop"} => j >= loc[t].i
        /\ pc[t] = "rollback" => tx[t].nb_acquired > 0 /\ j <= Backwards(t)}

\* stm_wbctl_commit takes a lock once for all entries that it covers and
\* stm_wbctl_rollback gives back exactly those that a commit that failed half
\* way has taken: a lock word names a transaction iff it has one entry for it
\* that is still to be dropped.
LockOwner ==
    \A t \in Tx, s \in Stripe :
        /\ lock[s].owner = t <=> Undropped(t) \cap Covered(tx[t].w_set, s) # {}
        /\ Cardinality(Undropped(t) \cap Covered(tx[t].w_set, s)) <= 1

\* A load returns the bytes that the transaction itself has stored before
\* (merged by stm_wbctl_read; sub-word stores make such masks).
OwnBytes(t) ==
    \A r \in seen[t] : \A b \in r.own : \E w \in Stores[t] : r.value[b] = w[b]
LoadsOwnStores == \A t \in Tx : tx[t].irrevocable = 0 => OwnBytes(t)

\* The version that a lock has, or that its owner took it with and would restore.
LockVersion(s) ==
    LET o == lock[s].owner IN
    IF o = NoTx THEN lock[s].version
    ELSE tx[o].w_set[CHOOSE j \in Undropped(o) : LOCK_IDX(tx[o].w_set[j].addr) = s].version

\* No lock returns to an older version unless the clock is reset.
VersionsGrowStep ==
    clock' >= clock => \A s \in Stripe : LockVersion(s)' >= LockVersion(s)

=============================================================================
