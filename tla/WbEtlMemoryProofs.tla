------------------------- MODULE WbEtlMemoryProofs -------------------------
(***************************************************************************)
(* What commits and rollbacks of WbEtl leave in memory, in the lock words  *)
(* and in the history, for every number of threads, addresses and locks.   *)
(***************************************************************************)
EXTENDS WbEtlProofs, FiniteSetTheorems

-----------------------------------------------------------------------------
(* The inductive invariant: a stripe is clean while it is free and while its
   owner only buffers stores; what a commit has published is in memory once
   its write-back has passed the entry.  Locks belong to transactions; where
   unit stores take some (UnitTx), the rest is still true. *)

\* In the loop of stm_wbetl_commit: the commit is in hist, memory follows.
Publishing(t) == pc[t] \in {"install", "drop"}
\* Between the fetch-and-increment of the clock and the write-back.
Timed(t) == pc[t] = "validate" /\ loc[t].for = "commit"

Remaining(t) == Undropped(t) .. Len(tx[t].w_set)
NotWritten(t) == (IF pc[t] = "drop" THEN loc[t].i + 1 ELSE loc[t].i) .. Len(tx[t].w_set)

Clean(s, v) ==
    \A a \in Addr : LOCK_IDX(a) = s => /\ mem[a] = Latest(a)
                                       /\ \A h \in hist[a] : h.version <= v

FreeClean(s) ==
    lock[s].owner = NoTx => Clean(s, lock[s].version) /\ lock[s].version <= clock

\* One entry for an address, one version for a lock.
Lists(t) ==
    LET w == tx[t].w_set IN
    \A j, k \in 1 .. Len(w) :
        /\ w[j].addr = w[k].addr => j = k
        /\ LOCK_IDX(w[j].addr) = LOCK_IDX(w[k].addr) => w[j].version = w[k].version

\* The commit timestamp is above the versions that the entries' locks had.
Dated(t) ==
    /\ \A j \in 1 .. Len(tx[t].w_set) : tx[t].w_set[j].version <= clock
    /\ Timed(t) \/ Publishing(t) =>
          /\ loc[t].ts <= clock
          /\ \A j \in 1 .. Len(tx[t].w_set) : tx[t].w_set[j].version < loc[t].ts

\* The bytes that a store left out.
Unmasked(e) == e.mask # {} => \A b \in Byte \ e.mask : e.value[b] = mem[e.addr][b]

Buffered(t) ==
    ~Publishing(t) => \A j \in Remaining(t) :
        LET e == tx[t].w_set[j] IN Clean(LOCK_IDX(e.addr), e.version) /\ Unmasked(e)

Installing(t) ==
    Publishing(t) => \A j \in Remaining(t) :
        LET w == tx[t].w_set IN
        /\ w[j].mask # {} => w[j].value = Latest(w[j].addr)
        /\ \A a \in Addr : LOCK_IDX(a) = LOCK_IDX(w[j].addr) =>
              /\ \A h \in hist[a] : h.version <= loc[t].ts
              /\ \/ mem[a] = Latest(a)
                 \/ \E k \in NotWritten(t) : w[k].addr = a /\ w[k].mask # {}

Entries(t) == Lists(t) /\ Dated(t) /\ Buffered(t) /\ Installing(t)

MemInv ==
    /\ LockInv
    /\ \A s \in Stripe : FreeClean(s) /\ lock[s].owner \in Tx \cup {NoTx}
    /\ \A t \in Tx : Entries(t)

-----------------------------------------------------------------------------
(* The effect of a step of t on the shared data: the kinds of steps *)

SameData == UNCHANGED <<lock, mem, clock, hist>>

\* The step is not about locks, entries, timestamps or the write-back.
Keeps(t) ==
    /\ SameData
    /\ tx'[t].w_set = tx[t].w_set
    /\ ~Publishing(t) /\ ~Publishing(t)'
    /\ Undropped(t)' = Undropped(t)
    /\ Timed(t)' => Timed(t) /\ loc'[t].ts = loc[t].ts
    /\ pc'[t] = "commit_clock" => Commit(t)

\* The attempt is over.
Forgets(t) ==
    /\ SameData
    /\ Held(t) = {}
    /\ tx'[t].w_set = <<>>
    /\ pc'[t] \in {"idle", "prepare"}

\* A store under a lock that t has.
Updates(t, a, w, m) ==
    LET ws == tx[t].w_set IN
    tx'[t].w_set = [j \in 1 .. Len(ws) |->
                       IF j \in EntryOf(ws, a) THEN UpdateEntry(ws[j], a, w, m) ELSE ws[j]]
Adds(t, a, w, m) ==
    LET ws == tx[t].w_set IN
    /\ EntryOf(ws, a) = {}
    /\ \E j \in Covered(ws, LOCK_IDX(a)) :
          tx'[t].w_set = Append(ws, AddEntry(a, w, m, ws[j].version))
Edits(t) ==
    /\ SameData
    /\ pc[t] \in {"active", "store"} /\ pc'[t] = "active"
    /\ \E a \in Addr, w \in Word, m \in SUBSET Byte : Updates(t, a, w, m) \/ Adds(t, a, w, m)

Publishes(t) == CommitClock(t) \/ CommitValidated(t)

Kinds(t) ==
    \/ Keeps(t) \/ Forgets(t) \/ Edits(t)
    \/ StoreAcquire(t) \/ RollbackDrop(t) \/ Publishes(t) \/ Install(t) \/ Drop(t)

\* A step of t by t alone.
StepOf(t) == Kinds(t) /\ Others(t) /\ \A u \in Tx \ {t} : seen'[u] = seen[u]

\* Rollback is a step of t that keeps its entries.
LEMMA RollbackKind ==
  ASSUME TypeInv, NEW t \in Tx, NEW r, NEW irr, pc[t] \notin Loops, RollbackAs(t, r, irr)
  PROVE  StepOf(t)
  <1>1. /\ Others(t)
        /\ tx'[t].w_set = tx[t].w_set
        /\ pc'[t] = "rollback"
        /\ SameData
        /\ \A u \in Tx \ {t} : seen'[u] = seen[u]
    BY DEF RollbackAs, Goto, Others, TypeInv, TypeOK, TxDesc, shared, SameData
  <1>2. loc'[t].i = 1
    BY DEF RollbackAs, TypeInv, TypeOK, NoLoc
  <1> QED
    BY <1>1, <1>2 DEF StepOf, Kinds, Keeps, Publishing, Timed, Undropped, Loops

\* PlainRollback is such a step.
LEMMA PlainRollbackKind ==
  ASSUME TypeInv, NEW t \in Tx, NEW r, pc[t] \notin Loops, Rollback(t, r)
  PROVE  StepOf(t)
  BY RollbackKind DEF Rollback

\* A step within an attempt that changes neither shared data nor entries.
LEMMA MovesKind ==
  ASSUME NEW t \in Tx, Others(t), \A u \in Tx \ {t} : seen'[u] = seen[u],
         SameData, tx'[t].w_set = tx[t].w_set, pc[t] \notin Loops,
         pc'[t] \notin Loops \cup {"commit_clock", "validate"}
  PROVE  StepOf(t)
  BY DEF StepOf, Kinds, Keeps, Publishing, Timed, Undropped, Loops

\* ReadLock is one of the kinds.
LEMMA ReadLockKind ==
  ASSUME TypeInv, NEW t \in Tx, NEW a, NEW l, pc[t] \notin Loops, ReadLock(t, a, l)
  PROVE  StepOf(t)
  <1>1. CASE Rollback(t, "RW_CONFLICT")
    BY <1>1, PlainRollbackKind
  <1>2. CASE ~Rollback(t, "RW_CONFLICT")
    <2>1. /\ Others(t)
          /\ tx'[t].w_set = tx[t].w_set
          /\ pc'[t] \in {"active", "load", "load_value"}
          /\ SameData
          /\ \A u \in Tx \ {t} : seen'[u] = seen[u]
      <3>1. CASE LoadOwn(t, a, l)
        BY <3>1, SMTT(40) DEF LoadOwn, ReturnLoad, Goto, Clear, Others, TypeInv, TypeOK, TxDesc,
                    shared, aux, SameData
      <3>2. CASE LoadConflict(t, a, l) \/ LoadFree(t, a, l)
        BY <1>2, <3>2 DEF LoadConflict, LoadFree, Goto, Others, TypeInv, TypeOK,
                          shared, aux, SameData
      <3> QED
        BY <3>1, <3>2 DEF ReadLock
    <2> QED
      BY <2>1, MovesKind DEF Loops
  <1> QED
    BY <1>1, <1>2

\* WriteLock is one of the kinds.
LEMMA WriteLockKind ==
  ASSUME TypeInv, NEW t \in Tx, NEW a \in Addr, NEW w \in Word, NEW m \in SUBSET Byte, NEW l,
         pc[t] \in {"active", "store"}, WriteLock(t, a, w, m, l)
  PROVE  StepOf(t)
  <1> USE DEF shared, aux
  <1>1. CASE \/ Rollback(t, "WW_CONFLICT") \/ Rollback(t, "VAL_WRITE")
             \/ Rollback(t, "EXTEND_WS")
    BY <1>1, PlainRollbackKind DEF Loops
  <1>2. CASE StoreOwn(t, a, w, m, l) /\ ~Rollback(t, "EXTEND_WS")
    <2> DEFINE ws == tx[t].w_set
               Same == /\ Goto(t, "active")
                       /\ Clear(t)
                       /\ UNCHANGED <<shared, aux>>
    <2>1. /\ Same
          /\ \/ tx' = tx
             \/ tx' = [tx EXCEPT ![t].w_set = [j \in 1 .. Len(ws) |->
                           IF j \in EntryOf(ws, a) THEN UpdateEntry(ws[j], a, w, m) ELSE ws[j]]]
             \/ /\ EntryOf(ws, a) = {}
                /\ \E j \in Covered(ws, LOCK_IDX(a)) :
                      tx' = [tx EXCEPT ![t].w_set = Append(ws, AddEntry(a, w, m, ws[j].version))]
      BY <1>2 DEF StoreOwn
    <2>2. /\ pc'[t] = "active" /\ SameData
          /\ \A u \in Tx \ {t} : seen'[u] = seen[u]
          /\ \A u \in Tx \ {t} : pc'[u] = pc[u] /\ loc'[u] = loc[u]
      BY <2>1 DEF Goto, Clear, TypeInv, TypeOK, SameData
    <2>3. ASSUME NEW nw, tx' = [tx EXCEPT ![t].w_set = nw]
          PROVE  Others(t) /\ tx'[t].w_set = nw
      BY <2>2, <2>3 DEF Others, TypeInv, TypeOK, TxDesc
    <2>4. CASE tx' = tx
      BY <2>2, <2>4, MovesKind DEF Loops, Others
    <2>5. CASE tx' = [tx EXCEPT ![t].w_set = [j \in 1 .. Len(ws) |->
                           IF j \in EntryOf(ws, a) THEN UpdateEntry(ws[j], a, w, m) ELSE ws[j]]]
      <3>1. Others(t) /\ Updates(t, a, w, m)
        BY <2>3, <2>5 DEF Updates
      <3> QED
        BY <2>2, <3>1 DEF StepOf, Kinds, Edits
    <2>6. CASE /\ EntryOf(ws, a) = {}
               /\ \E j \in Covered(ws, LOCK_IDX(a)) :
                     tx' = [tx EXCEPT ![t].w_set = Append(ws, AddEntry(a, w, m, ws[j].version))]
      <3>1. PICK j \in Covered(ws, LOCK_IDX(a)) :
               tx' = [tx EXCEPT ![t].w_set = Append(ws, AddEntry(a, w, m, ws[j].version))]
        BY <2>6
      <3>2. Others(t) /\ tx'[t].w_set = Append(ws, AddEntry(a, w, m, ws[j].version))
        BY <2>3, <3>1
      <3>3. Adds(t, a, w, m)
        BY <2>6, <3>2 DEF Adds
      <3> QED
        BY <2>2, <3>2, <3>3 DEF StepOf, Kinds, Edits
    <2> QED
      BY <2>1, <2>4, <2>5, <2>6
  <1>3. CASE /\ StoreConflict(t, a, w, m, l) \/ StoreFree(t, a, w, m, l)
             /\ ~Rollback(t, "WW_CONFLICT") /\ ~Rollback(t, "VAL_WRITE")
             /\ ~Rollback(t, "EXTEND_WS")
    <2>1. /\ Others(t) /\ tx' = tx /\ pc'[t] \in {"store", "store_cas"} /\ SameData
          /\ \A u \in Tx \ {t} : seen'[u] = seen[u]
      BY <1>3 DEF StoreConflict, StoreFree, Goto, Others, TypeInv, TypeOK, SameData
    <2> QED
      BY <2>1, MovesKind DEF Loops
  <1> QED
    BY <1>1, <1>2, <1>3 DEF WriteLock

\* Every step but the clock reset is a step of one thread, of one of the kinds.
LEMMA StepKinds ==
  ASSUME LockInv, NEW t \in Tx, Running(t) \/ Call(t)
  PROVE  StepOf(t)
  <1> USE DEF shared, aux
  <1>0. TypeInv /\ loc[t] \in Locals /\ tx[t] \in TxDesc
    BY DEF LockInv, TypeInv, TypeOK
  <1>1. CASE RollbackDrop(t) \/ Install(t)
    <2>1. Others(t) /\ seen' = seen
      BY <1>0, <1>1, Zenon DEF RollbackDrop, Install, Goto, Others, TypeInv, TypeOK
    <2> QED
      BY <1>1, <2>1 DEF StepOf, Kinds
  <1>2. CASE Drop(t) \/ StoreAcquire(t)
    <2>1. Others(t) /\ seen' = seen
      BY <1>0, <1>2 DEF Drop, StoreAcquire, Goto, Clear, Others, TypeInv, TypeOK
    <2> QED
      BY <1>2, <2>1 DEF StepOf, Kinds
  <1>3. CASE CommitClock(t) \/ CommitValidated(t)
    <2>1. Others(t) /\ seen' = seen
      BY <1>0, <1>3
      DEF CommitClock, CommitValidated, Validated, StartInstall, StartValidate, Goto, Others,
          TypeInv, TypeOK
    <2> QED
      BY <1>3, <2>1 DEF StepOf, Kinds, Publishes
  <1>4. CASE \/ ValidateFails(t) \/ UserAbort(t) \/ SetIrrevocableFails(t)
             \/ LoadTooNew(t) /\ Rollback(t, "VAL_READ")
             \/ Commit(t) /\ Rollback(t, "IRREVOCABLE")
    BY <1>0, <1>4, RollbackKind, PlainRollbackKind
    DEF ValidateFails, UserAbort, SetIrrevocableFails, LoadTooNew, Commit, Loops
  <1>5. CASE Load(t) \/ LoadAgain(t) \/ LoadRestart(t)
    BY <1>0, <1>5, ReadLockKind DEF Load, LoadAgain, LoadRestart, Loops
  <1>6. CASE Store(t) \/ StoreAgain(t)
    <2>1. \A w \in Stores[t], m \in Mask : w \in Word /\ m \in SUBSET Byte
      BY StmAssumption
    <2>2. CASE Store(t)
      <3>1. PICK a \in Addr, w \in Stores[t], m \in Mask :
               pc[t] = "active" /\ WriteLock(t, a, w, m, lock[LOCK_IDX(a)])
        BY <2>2 DEF Store
      <3> QED
        BY <1>0, <2>1, <3>1, WriteLockKind
    <2>3. CASE StoreAgain(t)
      BY <1>0, <2>3, WriteLockKind DEF StoreAgain, Locals
    <2> QED
      BY <1>6, <2>2, <2>3
  <1>7. CASE LoadReturn(t) \/ LoadRecheck(t)
    <2>1. /\ Others(t) /\ SameData /\ tx'[t].w_set = tx[t].w_set
          /\ \A u \in Tx \ {t} : seen'[u] = seen[u]
          /\ pc[t] \in {"load_relock", "load_recheck"} /\ pc'[t] = "active"
      BY <1>0, <1>7, SMTT(40) DEF LoadReturn, LoadRecheck, ReturnLoad, Goto, Clear, Others, SameData,
                        TypeInv, TypeOK, TxDesc
    <2> QED
      BY <2>1, MovesKind DEF Loops
  <1>8. CASE \/ PrepareBarrier(t) \/ LoadValue(t) \/ StoreCasFails(t) \/ Start(t)
             \/ Prepare(t) \/ AcquireIrrevocable(t) \/ RequestIrrevocable(t)
    <2>1. /\ Others(t) /\ SameData /\ seen' = seen
          /\ tx'[t].w_set = tx[t].w_set
          /\ pc[t] \in {"prepare", "load_value", "store_cas", "idle", "irr_spin"}
          /\ pc'[t] \in {"barrier", "load_relock", "store", "prepare", "irr_spin", "active", "idle"}
      <3>1. CASE PrepareBarrier(t) \/ LoadValue(t) \/ StoreCasFails(t)
        BY <1>0, <3>1 DEF PrepareBarrier, LoadValue, StoreCasFails, Goto, Others, SameData,
                          TypeInv, TypeOK
      <3>2. CASE Start(t)
        BY <1>0, <3>2 DEF Start, Goto, Others, SameData, TypeInv, TypeOK, TxDesc
      <3>3. CASE Prepare(t)
        BY <1>0, <3>3 DEF Prepare, Goto, Others, SameData, TypeInv, TypeOK, TxDesc
      <3>4. CASE AcquireIrrevocable(t) \/ RequestIrrevocable(t)
        BY <1>0, <3>4, SMTT(40) DEF AcquireIrrevocable, RequestIrrevocable, Goto, Others, SameData,
                          TypeInv, TypeOK, TxDesc
      <3> QED
        BY <1>8, <3>1, <3>2, <3>3, <3>4
    <2> QED
      BY <2>1, MovesKind DEF Loops
  <1>9. CASE ValidateEntry(t)
    <2>1. /\ Others(t) /\ SameData /\ seen' = seen /\ tx' = tx
          /\ pc[t] = "validate" /\ pc' = pc
          /\ loc'[t].ts = loc[t].ts /\ loc'[t].for = loc[t].for
      BY <1>0, <1>9 DEF ValidateEntry, Others, SameData, TypeInv, TypeOK, Locals
    <2>2. Keeps(t)
      BY <2>1 DEF Keeps, Publishing, Timed, Undropped
    <2> QED
      BY <2>1, <2>2 DEF StepOf, Kinds
  <1>10. CASE LoadTooNew(t) /\ ~Rollback(t, "VAL_READ")
    <2>1. /\ Others(t) /\ SameData /\ seen' = seen /\ tx' = tx
          /\ pc[t] = "load_relock" /\ pc'[t] = "extend"
      BY <1>0, <1>10 DEF LoadTooNew, Goto, Others, SameData, TypeInv, TypeOK
    <2> QED
      BY <2>1, MovesKind DEF Loops
  <1>11. CASE Extend(t) \/ SetIrrevocable(t)
    <2>1. /\ Others(t) /\ SameData /\ seen' = seen /\ tx'[t].w_set = tx[t].w_set
          /\ pc[t] \in {"extend", "active"} /\ pc'[t] = "validate"
          /\ loc'[t].for \in {"extend", "irrevocable"}
      <3>1. CASE Extend(t)
        BY <1>0, <3>1 DEF Extend, StartValidate, Goto, Others, SameData, TypeInv, TypeOK, Locals
      <3>2. CASE SetIrrevocable(t)
        BY <1>0, <3>2 DEF SetIrrevocable, StartValidate, Goto, Others, SameData,
                          TypeInv, TypeOK, TxDesc, Locals
      <3> QED
        BY <1>11, <3>1, <3>2
    <2> QED
      BY <2>1 DEF StepOf, Kinds, Keeps, Publishing, Timed, Undropped
  <1>12. CASE Extended(t) \/ IrrevocableValidated(t)
    <2>1. /\ Others(t) /\ SameData /\ seen' = seen /\ tx'[t].w_set = tx[t].w_set
          /\ pc[t] = "validate" /\ pc'[t] \in {"load_recheck", "active"}
      BY <1>0, <1>12 DEF Extended, IrrevocableValidated, Validated, Goto, Clear, Others,
                         SameData, TypeInv, TypeOK, TxDesc
    <2> QED
      BY <2>1, MovesKind DEF Loops
  <1>13. CASE Commit(t) /\ ~Rollback(t, "IRREVOCABLE")
    <2>1. /\ Others(t) /\ SameData /\ seen' = seen /\ tx' = tx
          /\ pc[t] = "active" /\ pc'[t] = "commit_clock"
      BY <1>0, <1>13 DEF Commit, Goto, Others, SameData, TypeInv, TypeOK
    <2>2. Keeps(t)
      BY <1>13, <2>1 DEF Keeps, Publishing, Timed, Undropped
    <2> QED
      BY <2>1, <2>2 DEF StepOf, Kinds
  <1>14. CASE RollbackEnd(t)
    <2>1. /\ Others(t) /\ SameData /\ seen' = seen /\ tx'[t].w_set = <<>>
          /\ pc[t] = "rollback" /\ pc'[t] = "prepare" /\ loc[t].i > Len(tx[t].w_set)
      BY <1>0, <1>14 DEF RollbackEnd, Goto, Clear, Others, SameData, TypeInv, TypeOK, TxDesc
    <2>2. Held(t) = {}
      BY <1>0, <2>1, EntryType DEF Held, Undropped
    <2> QED
      BY <2>1, <2>2 DEF StepOf, Kinds, Forgets
  <1>15. CASE CommitEnd(t) \/ CommitReadOnly(t)
    <2>1. /\ Others(t) /\ SameData /\ tx'[t].w_set = <<>> /\ pc'[t] = "idle"
          /\ \A u \in Tx \ {t} : seen'[u] = seen[u]
          /\ \/ pc[t] = "install" /\ loc[t].i > Len(tx[t].w_set)
             \/ pc[t] = "active" /\ tx[t].w_set = <<>>
      BY <1>0, <1>15, SMTT(40) DEF CommitEnd, CommitReadOnly, Committed, Goto, Clear, Others, SameData,
                         TypeInv, TypeOK, TxDesc
    <2>2. Held(t) = {}
      BY <1>0, <2>1, EntryType DEF Held, Undropped
    <2> QED
      BY <2>1, <2>2 DEF StepOf, Kinds, Forgets
  <1> QED
    BY <1>1, <1>2, <1>3, <1>4, <1>5, <1>6, <1>7, <1>8, <1>9, <1>10, <1>11, <1>12, <1>13,
       <1>14, <1>15
    DEF Running, Call

-----------------------------------------------------------------------------
(* Stripes that a step leaves alone *)

\* The one newest version of a history is the one above all others.
LEMMA NewestIs ==
  ASSUME NEW H, NEW h \in H, \A g \in H : g.version \in Nat,
         \A g \in H \ {h} : g.version < h.version
  PROVE  Newest(H) = h
  <1>1. \A g \in H : g.version <= h.version
    OBVIOUS
  <1>2. \A g \in H : (\A k \in H : k.version <= g.version) => g = h
    OBVIOUS
  <1> QED
    BY <1>1, <1>2 DEF Newest

\* The entries that t has not passed are under its locks.
LEMMA RemainingHeld ==
  ASSUME NEW t \in Tx, NEW j \in Remaining(t)
  PROVE  LOCK_IDX(tx[t].w_set[j].addr) \in Held(t)
  BY DEF Remaining, Held

\* The entries that t has not passed are entries.
LEMMA RemainingEntry ==
  ASSUME TypeInv, NEW t \in Tx, NEW j \in Remaining(t)
  PROVE  j \in 1 .. Len(tx[t].w_set) /\ j \in Nat /\ tx[t].w_set[j] \in WEntry
  BY EntryType DEF Remaining, Undropped

\* Locks that t owns are neither free nor of another thread.
LEMMA HeldApart ==
  ASSUME LockInv, NEW t \in Tx, NEW s \in Stripe, s \in Held(t)
  PROVE  lock[s].owner = t /\ t # NoTx /\ \A u \in Tx \ {t} : s \notin Held(u)
  BY StmAssumption DEF LockInv, LockOwner

\* Commit publishes entries, and nothing else.
LEMMA PublishElsewhere ==
  ASSUME NEW w, NEW ts, NEW a \in Addr, \A j \in EntryOf(w, a) : w[j].mask = {}
  PROVE  Publish(w, ts)[a] = hist[a]
  BY DEF Publish

\* hist' in the two steps that take or use the commit timestamp.
CommitTime(t) == IF pc[t] = "commit_clock" THEN clock + 1 ELSE loc[t].ts

\* The effect of a publishing step, but for the history.
LEMMA PublishesEffect ==
  ASSUME TypeInv, NEW t \in Tx, Publishes(t)
  PROVE  /\ UNCHANGED <<lock, mem, irrevocable, tx, seen>> /\ clock' >= clock
         /\ pc[t] = "commit_clock" \/ Timed(t)
         /\ loc'[t].ts = CommitTime(t) /\ loc'[t].i = 1
         /\ \/ /\ pc'[t] = "install" /\ hist' = Publish(tx[t].w_set, CommitTime(t))
            \/ /\ pc'[t] = "validate" /\ loc'[t].for = "commit" /\ hist' = hist
               /\ pc[t] = "commit_clock"
         /\ pc[t] = "commit_clock" => clock' = clock + 1
         /\ pc[t] # "commit_clock" => clock' = clock
  <1>0. loc[t] \in Locals /\ clock \in Nat
    BY DEF TypeInv, TypeOK
  <1>1. CASE CommitClock(t)
    <2>1. CASE StartInstall(t, clock + 1)
      BY <1>0, <1>1, <2>1 DEF CommitClock, StartInstall, Goto, CommitTime, TypeInv, TypeOK, Locals
    <2>2. CASE StartValidate(t, "commit", 0, clock + 1) /\ UNCHANGED hist
      BY <1>0, <1>1, <2>2 DEF CommitClock, StartValidate, Goto, CommitTime, TypeInv, TypeOK, Locals
    <2> QED
      BY <1>1, <2>1, <2>2 DEF CommitClock
  <1>2. CASE CommitValidated(t)
    BY <1>0, <1>2
    DEF CommitValidated, Validated, StartInstall, Goto, CommitTime, Timed, TypeInv, TypeOK,
        Locals, shared
  <1> QED
    BY <1>1, <1>2 DEF Publishes

\* A step changes memory and history only under locks of its thread.
LEMMA Elsewhere ==
  ASSUME LockInv, NEW t \in Tx, StepOf(t), NEW a \in Addr, LOCK_IDX(a) \notin Held(t)
  PROVE  mem'[a] = mem[a] /\ hist'[a] = hist[a]
  <1>0. TypeInv
    BY DEF LockInv
  <1>1. CASE Keeps(t) \/ Forgets(t) \/ Edits(t)
    BY <1>1 DEF Keeps, Forgets, Edits, SameData
  <1>2. CASE StoreAcquire(t) \/ RollbackDrop(t) \/ Drop(t)
    BY <1>2, Zenon DEF StoreAcquire, RollbackDrop, Drop, aux
  <1>3. CASE Publishes(t)
    <2>1. \A j \in 1 .. Len(tx[t].w_set) : LOCK_IDX(tx[t].w_set[j].addr) \in Held(t)
      BY <1>0, <1>3, PublishesEffect, RemainingHeld DEF Remaining, Undropped, Timed
    <2>2. EntryOf(tx[t].w_set, a) = {}
      BY <2>1 DEF EntryOf
    <2> QED
      BY <1>0, <1>3, <2>2, PublishesEffect, PublishElsewhere
  <1>4. CASE Install(t)
    <2>1. loc[t].i \in Remaining(t) /\ hist' = hist
      BY <1>0, <1>4, EntryType DEF Install, Remaining, Undropped, aux
    <2>2. LOCK_IDX(tx[t].w_set[loc[t].i].addr) \in Held(t)
      BY <2>1, RemainingHeld
    <2>3. tx[t].w_set[loc[t].i].addr # a
      BY <2>2
    <2> QED
      BY <1>0, <1>4, <2>1, <2>3 DEF Install, TypeInv, TypeOK
  <1> QED
    BY <1>1, <1>2, <1>3, <1>4 DEF StepOf, Kinds

\* The clock does not go back in a step of a thread.
LEMMA ClockForward ==
  ASSUME LockInv, NEW t \in Tx, StepOf(t)
  PROVE  clock \in Nat /\ clock' \in Nat /\ clock' >= clock
  <1>1. TypeInv /\ clock \in Nat
    BY DEF LockInv, TypeInv, TypeOK
  <1>2. CASE Publishes(t)
    BY <1>1, <1>2, PublishesEffect
  <1>3. CASE Keeps(t) \/ Forgets(t) \/ Edits(t)
    BY <1>1, <1>3 DEF Keeps, Forgets, Edits, SameData
  <1>4. CASE StoreAcquire(t) \/ RollbackDrop(t) \/ Install(t) \/ Drop(t)
    <2>1. clock' = clock
      BY <1>4, Zenon DEF StoreAcquire, RollbackDrop, Install, Drop
    <2> QED
      BY <1>1, <2>1
  <1> QED
    BY <1>2, <1>3, <1>4 DEF StepOf, Kinds

\* What the other threads have buffered or published stays as it is.
LEMMA OtherEntries ==
  ASSUME LockInv, TypeInv', NEW t \in Tx, StepOf(t), NEW u \in Tx \ {t}, Entries(u)
  PROVE  Entries(u)'
  <1>1. tx'[u] = tx[u] /\ pc'[u] = pc[u] /\ loc'[u] = loc[u]
    BY DEF StepOf, Others
  <1>2. clock' >= clock /\ clock \in Nat /\ clock' \in Nat
    BY ClockForward
  <1>3. ASSUME NEW a \in Addr, LOCK_IDX(a) \in Held(u)
        PROVE  mem'[a] = mem[a] /\ hist'[a] = hist[a] /\ Latest(a)' = Latest(a)
    <2>1. LOCK_IDX(a) \notin Held(t)
      BY <1>3, HeldApart, LockIdxType
    <2> QED
      BY <2>1, Elsewhere DEF Latest
  <1>4. Publishing(u)' = Publishing(u) /\ Timed(u)' = Timed(u)
        /\ Remaining(u)' = Remaining(u) /\ NotWritten(u)' = NotWritten(u)
    BY <1>1 DEF Publishing, Timed, Remaining, NotWritten, Undropped
  <1>5. \A j \in 1 .. Len(tx[u].w_set) : tx[u].w_set[j].version \in Nat
    BY EntryType DEF LockInv, WEntry
  <1>6. loc[u].ts \in Nat
    BY DEF LockInv, TypeInv, TypeOK, Locals
  <1>7. \A j \in Remaining(u) : /\ LOCK_IDX(tx[u].w_set[j].addr) \in Held(u)
                                /\ tx[u].w_set[j].addr \in Addr
    BY RemainingHeld, RemainingEntry DEF LockInv, WEntry
  <1>8. Lists(u)'
    BY <1>1 DEF Entries, Lists
  <1>9. Dated(u)'
    BY <1>1, <1>2, <1>4, <1>5, <1>6 DEF Entries, Dated
  <1>10. Buffered(u)'
    BY <1>1, <1>3, <1>4, <1>7 DEF Entries, Buffered, Clean, Unmasked
  <1>11. Installing(u)'
    BY <1>1, <1>3, <1>4, <1>7 DEF Entries, Installing
  <1> QED
    BY <1>8, <1>9, <1>10, <1>11 DEF Entries

-----------------------------------------------------------------------------
(* The entries of the thread that takes the step *)

\* A store to an entry leaves the bytes that it leaves out.
LEMMA UpdateUnmasked ==
  ASSUME TypeOK, NEW e \in WEntry, Unmasked(e), NEW w, NEW m \in SUBSET Byte
  PROVE  Unmasked(UpdateEntry(e, e.addr, w, m))
  <1> DEFINE old == IF e.mask = {} THEN mem[e.addr] ELSE e.value
  <1>1. /\ UpdateEntry(e, e.addr, w, m).value = Merge(old, w, m)
        /\ UpdateEntry(e, e.addr, w, m).mask = e.mask \cup m
        /\ UpdateEntry(e, e.addr, w, m).addr = e.addr
    BY DEF UpdateEntry, WEntry
  <1>2. \A b \in Byte \ e.mask : old[b] = mem[e.addr][b]
    BY DEF Unmasked
  <1>3. \A b \in Byte \ m : Merge(old, w, m)[b] = old[b]
    BY DEF Merge
  <1> HIDE DEF old
  <1> QED
    BY <1>1, <1>2, <1>3 DEF Unmasked

\* A new entry starts from memory.
LEMMA AddUnmasked ==
  ASSUME NEW a, NEW w, NEW m, NEW v
  PROVE  Unmasked(AddEntry(a, w, m, v))
  BY DEF Unmasked, AddEntry, Merge

\* The write set gets one more entry, under a stripe that is clean.
LEMMA AppendEntries ==
  ASSUME LockInv, NEW t \in Tx, Entries(t), SameData \/ UNCHANGED <<mem, clock, hist>>,
         pc[t] \in {"active", "store", "store_cas"}, pc'[t] = "active",
         NEW e \in WEntry, tx'[t].w_set = Append(tx[t].w_set, e),
         EntryOf(tx[t].w_set, e.addr) = {},
         \A j \in Covered(tx[t].w_set, LOCK_IDX(e.addr)) : tx[t].w_set[j].version = e.version,
         e.version <= clock, Clean(LOCK_IDX(e.addr), e.version), Unmasked(e)
  PROVE  Entries(t)'
  <1> DEFINE ws == tx[t].w_set  nw == Append(ws, e)
  <1>1. /\ ws \in Seq(WEntry) /\ Len(ws) \in Nat
        /\ Len(nw) = Len(ws) + 1
        /\ \A j \in 1 .. Len(ws) : nw[j] = ws[j]
        /\ nw[Len(ws) + 1] = e
    BY EntryType DEF LockInv
  <1>2. UNCHANGED <<mem, clock, hist>>
    BY DEF SameData
  <1>3. /\ ~Publishing(t) /\ ~Publishing(t)' /\ ~Timed(t)'
        /\ Undropped(t) = 1 /\ Undropped(t)' = 1
    BY DEF Publishing, Timed, Undropped
  <1>4. tx'[t].w_set = nw
    OBVIOUS
  <1> HIDE DEF nw
  <1>5. 1 .. Len(nw) = (1 .. Len(ws)) \cup {Len(ws) + 1}
    BY <1>1
  <1>6. Lists(t)'
    <2>1. ASSUME NEW j \in 1 .. Len(nw), NEW k \in 1 .. Len(nw)
          PROVE  /\ nw[j].addr = nw[k].addr => j = k
                 /\ LOCK_IDX(nw[j].addr) = LOCK_IDX(nw[k].addr) => nw[j].version = nw[k].version
      <3>1. \A i \in 1 .. Len(ws) :
               /\ ws[i].addr # e.addr
               /\ LOCK_IDX(ws[i].addr) = LOCK_IDX(e.addr) => ws[i].version = e.version
        BY DEF EntryOf, Covered
      <3>2. CASE j \in 1 .. Len(ws) /\ k \in 1 .. Len(ws)
        <4>1. nw[j] = ws[j] /\ nw[k] = ws[k]
          BY <1>1, <3>2
        <4>2. Lists(t)
          BY DEF Entries
        <4> QED
          BY <3>2, <4>1, <4>2 DEF Lists
      <3>3. CASE j = Len(ws) + 1 /\ k = Len(ws) + 1
        BY <3>3
      <3>4. CASE j = Len(ws) + 1 /\ k \in 1 .. Len(ws)
        <4>1. nw[j] = e /\ nw[k] = ws[k]
          BY <1>1, <3>4
        <4> QED
          BY <3>1, <3>4, <4>1
      <3>5. CASE j \in 1 .. Len(ws) /\ k = Len(ws) + 1
        <4>1. nw[j] = ws[j] /\ nw[k] = e
          BY <1>1, <3>5
        <4> QED
          BY <3>1, <3>5, <4>1
      <3> QED
        BY <1>5, <3>2, <3>3, <3>4, <3>5
    <2> QED
      BY <1>4, <2>1 DEF Lists
  <1>7. Dated(t)'
    BY <1>1, <1>2, <1>3, <1>4, <1>5 DEF Entries, Dated
  <1>8. Buffered(t)'
    <2>1. ASSUME NEW j \in 1 .. Len(nw)
          PROVE  Clean(LOCK_IDX(nw[j].addr), nw[j].version) /\ Unmasked(nw[j])
      BY <1>1, <1>3, <1>5 DEF Entries, Buffered, Remaining
    <2>2. Remaining(t)' = 1 .. Len(nw)
      BY <1>3, <1>4 DEF Remaining
    <2> QED
      BY <1>2, <1>4, <2>1, <2>2 DEF Buffered, Clean, Unmasked, Latest
  <1>9. Installing(t)'
    BY <1>3 DEF Installing
  <1> QED
    BY <1>6, <1>7, <1>8, <1>9 DEF Entries

\* Stores under locks that t has.
LEMMA EditsEntries ==
  ASSUME LockInv, NEW t \in Tx, Entries(t), Edits(t)
  PROVE  Entries(t)'
  <1> DEFINE ws == tx[t].w_set
  <1>1. /\ ws \in Seq(WEntry) /\ Len(ws) \in Nat /\ \A j \in 1 .. Len(ws) : ws[j] \in WEntry
        /\ UNCHANGED <<mem, clock, hist>>
        /\ TypeOK
    BY EntryType DEF LockInv, TypeInv, Edits, SameData
  <1>2. /\ ~Publishing(t) /\ ~Publishing(t)' /\ ~Timed(t)'
        /\ Undropped(t) = 1 /\ Undropped(t)' = 1
    BY DEF Publishing, Timed, Undropped, Edits
  <1>3. PICK a \in Addr, w \in Word, m \in SUBSET Byte : Updates(t, a, w, m) \/ Adds(t, a, w, m)
    BY DEF Edits
  <1>4. CASE Updates(t, a, w, m)
    <2> DEFINE nw == [j \in 1 .. Len(ws) |->
                         IF j \in EntryOf(ws, a) THEN UpdateEntry(ws[j], a, w, m) ELSE ws[j]]
    <2>1. tx'[t].w_set = nw /\ Len(nw) = Len(ws)
      BY <1>1, <1>4 DEF Updates
    <2>2. ASSUME NEW j \in 1 .. Len(ws)
          PROVE  /\ nw[j].addr = ws[j].addr /\ nw[j].version = ws[j].version
                 /\ Unmasked(ws[j]) => Unmasked(nw[j])
      <3>1. CASE j \in EntryOf(ws, a)
        <4>1. ws[j].addr = a /\ nw[j] = UpdateEntry(ws[j], a, w, m)
          BY <3>1 DEF EntryOf
        <4>2. ws[j] \in WEntry
          BY <1>1
        <4>3. nw[j].addr = ws[j].addr /\ nw[j].version = ws[j].version
          BY <1>1, <4>1, <4>2, UpdateEntryType
        <4>4. ASSUME Unmasked(ws[j])
              PROVE  Unmasked(UpdateEntry(ws[j], ws[j].addr, w, m))
          BY <1>1, <4>2, <4>4, UpdateUnmasked
        <4> HIDE DEF nw
        <4> QED
          BY <4>1, <4>3, <4>4
      <3>2. CASE j \notin EntryOf(ws, a)
        BY <3>2
      <3> QED
        BY <3>1, <3>2
    <2> HIDE DEF nw
    <2>3. Lists(t)'
      BY <2>1, <2>2 DEF Entries, Lists
    <2>4. Dated(t)'
      BY <1>1, <1>2, <2>1, <2>2 DEF Entries, Dated
    <2>5. Buffered(t)'
      <3>1. Remaining(t) = 1 .. Len(ws) /\ Remaining(t)' = 1 .. Len(ws)
        BY <1>2, <2>1 DEF Remaining
      <3>2. \A j \in 1 .. Len(ws) : Clean(LOCK_IDX(nw[j].addr), nw[j].version) /\ Unmasked(nw[j])
        BY <1>2, <2>2, <3>1 DEF Entries, Buffered
      <3> QED
        BY <1>1, <2>1, <3>1, <3>2 DEF Buffered, Clean, Unmasked, Latest
    <2>6. Installing(t)'
      BY <1>2 DEF Installing
    <2> QED
      BY <2>3, <2>4, <2>5, <2>6 DEF Entries
  <1>5. CASE Adds(t, a, w, m)
    <2>1. PICK j \in Covered(ws, LOCK_IDX(a)) :
             tx'[t].w_set = Append(ws, AddEntry(a, w, m, ws[j].version))
      BY <1>5 DEF Adds
    <2> DEFINE e == AddEntry(a, w, m, ws[j].version)
    <2>2. j \in 1 .. Len(ws) /\ LOCK_IDX(ws[j].addr) = LOCK_IDX(a) /\ ws[j].version \in Nat
      BY <1>1, <2>1 DEF Covered, WEntry
    <2>3. e \in WEntry /\ Unmasked(e)
      BY <1>1, <2>2, AddEntryType, AddUnmasked
    <2>4. e.addr = a /\ e.version = ws[j].version
      BY DEF AddEntry
    <2> HIDE DEF e
    <2>5. \A k \in Covered(ws, LOCK_IDX(a)) : ws[k].version = e.version
      BY <2>2, <2>4 DEF Covered, Entries, Lists
    <2>6. Clean(LOCK_IDX(a), e.version) /\ e.version <= clock
      BY <1>2, <2>2, <2>4 DEF Entries, Buffered, Dated, Remaining
    <2>7. EntryOf(ws, a) = {}
      BY <1>5 DEF Adds
    <2> QED
      BY <1>1, <2>1, <2>3, <2>4, <2>5, <2>6, <2>7, AppendEntries DEF e, Edits
  <1> QED
    BY <1>3, <1>4, <1>5

\* The store that takes the lock of a clean stripe.
LEMMA StoreAcquireEntries ==
  ASSUME LockInv, NEW t \in Tx, Entries(t), \A s \in Stripe : FreeClean(s), StoreAcquire(t)
  PROVE  Entries(t)'
  <1> DEFINE a == loc[t].addr  s0 == LOCK_IDX(a)  ws == tx[t].w_set
             e == AddEntry(a, loc[t].value, loc[t].mask, loc[t].l.version)
  <1>1. a \in Addr /\ s0 \in Stripe /\ TypeOK /\ loc[t].l.version \in Nat /\ NoTx \notin Tx
    BY EntryType, LockIdxType, StmAssumption DEF LockInv, TypeInv, Locals, LockWord
  <1>2. lock[s0].owner = NoTx /\ lock[s0].version = loc[t].l.version
    BY DEF StoreAcquire, LockUnchanged, LockInv, ThreadInv
  <1>3. Clean(s0, e.version) /\ e.version <= clock /\ e.addr = a
    BY <1>1, <1>2 DEF FreeClean, AddEntry
  <1>4. s0 \notin Held(t)
    BY <1>1, <1>2 DEF LockInv, LockOwner
  <1>5. Undropped(t) = 1 /\ pc[t] = "store_cas" /\ pc'[t] = "active"
    BY DEF Undropped, StoreAcquire, Goto, LockInv, TypeInv, TypeOK
  <1>6. Covered(ws, s0) = {} /\ EntryOf(ws, a) = {}
    BY <1>4, <1>5 DEF Held, Covered, EntryOf
  <1>7. e \in WEntry /\ Unmasked(e)
    BY <1>1, AddEntryType, AddUnmasked, EntryType DEF LockInv, Locals
  <1>8. tx'[t].w_set = Append(ws, e) /\ UNCHANGED <<mem, clock, hist>>
    BY DEF StoreAcquire, aux, LockInv, TypeInv, TypeOK, TxDesc
  <1> HIDE DEF e
  <1> QED
    BY <1>3, <1>5, <1>6, <1>7, <1>8, AppendEntries

\* The loop of rollback passes an entry.
LEMMA RollbackDropEntries ==
  ASSUME LockInv, NEW t \in Tx, Entries(t), RollbackDrop(t)
  PROVE  Entries(t)'
  <1>1. /\ UNCHANGED <<mem, clock, hist, tx>>
        /\ pc[t] = "rollback" /\ pc'[t] = "rollback"
        /\ loc[t].i \in Nat /\ loc'[t].i = loc[t].i + 1
    BY EntryType DEF RollbackDrop, aux, LockInv, TypeInv, TypeOK, Locals
  <1>2. ~Publishing(t) /\ ~Publishing(t)' /\ ~Timed(t)'
    BY <1>1 DEF Publishing, Timed
  <1>3. Remaining(t)' \subseteq Remaining(t)
    BY <1>1 DEF Remaining, Undropped
  <1>4. Lists(t)' /\ Dated(t)' /\ Installing(t)'
    BY <1>1, <1>2 DEF Entries, Lists, Dated, Installing
  <1>5. Buffered(t)'
    BY <1>1, <1>2, <1>3 DEF Entries, Buffered, Clean, Unmasked, Latest
  <1> QED
    BY <1>4, <1>5 DEF Entries

\* The commit timestamp is above everything that the write set's locks cover.
LEMMA CommitTimeAbove ==
  ASSUME LockInv, NEW t \in Tx, Entries(t), Publishes(t)
  PROVE  /\ CommitTime(t) \in Nat /\ CommitTime(t) <= clock'
         /\ \A j \in 1 .. Len(tx[t].w_set) :
               /\ tx[t].w_set[j].version \in Nat /\ tx[t].w_set[j].version < CommitTime(t)
               /\ Clean(LOCK_IDX(tx[t].w_set[j].addr), tx[t].w_set[j].version)
               /\ Unmasked(tx[t].w_set[j])
  <1>1. clock \in Nat /\ loc[t].ts \in Nat
        /\ \A j \in 1 .. Len(tx[t].w_set) : tx[t].w_set[j].version \in Nat
    BY EntryType DEF LockInv, TypeInv, TypeOK, WEntry, Locals
  <1>2. /\ pc[t] = "commit_clock" \/ (pc[t] # "commit_clock" /\ Timed(t))
        /\ pc[t] = "commit_clock" => clock' = clock + 1
        /\ pc[t] # "commit_clock" => clock' = clock
    BY PublishesEffect DEF LockInv
  <1>3. CommitTime(t) \in Nat /\ CommitTime(t) <= clock'
        /\ \A j \in 1 .. Len(tx[t].w_set) : tx[t].w_set[j].version < CommitTime(t)
    BY <1>1, <1>2 DEF Entries, Dated, CommitTime
  <1>4. ~Publishing(t) /\ Remaining(t) = 1 .. Len(tx[t].w_set)
    BY <1>2 DEF Publishing, Remaining, Undropped, Timed
  <1> QED
    BY <1>1, <1>3, <1>4 DEF Entries, Buffered

\* What a commit adds to the history of an address under one of its locks.
LEMMA PublishHere ==
  ASSUME LockInv, NEW t \in Tx, Entries(t), Publishes(t),
         NEW j \in 1 .. Len(tx[t].w_set), NEW a \in Addr,
         LOCK_IDX(a) = LOCK_IDX(tx[t].w_set[j].addr)
  PROVE  LET w == tx[t].w_set
             T == CommitTime(t)
             new == [version |-> T, value |-> w[j].value]
         IN
         /\ mem[a] = Latest(a)
         /\ \A h \in hist[a] : h.version \in Nat /\ h.version < T
         /\ \A h \in Publish(w, T)[a] : h.version <= T
         /\ w[j].addr = a /\ w[j].mask # {} =>
               /\ Publish(w, T)[a] = hist[a] \cup {new}
               /\ Newest(Publish(w, T)[a]) = new
  <1> DEFINE w == tx[t].w_set
             T == CommitTime(t)
             new == [version |-> T, value |-> w[j].value]
  <1>1. /\ T \in Nat /\ w[j].version \in Nat /\ w[j].version < T
        /\ Clean(LOCK_IDX(a), w[j].version) /\ Unmasked(w[j])
    BY CommitTimeAbove
  <1>2. mem[a] = Latest(a) /\ \A h \in hist[a] : h.version \in Nat /\ h.version < T
    <2>1. \A h \in hist[a] : h.version \in Nat
      BY DEF LockInv, TypeInv, TypeOK
    <2> QED
      BY <1>1, <2>1 DEF Clean
  <1>3. Publish(w, T)[a] = hist[a] \cup {[version |-> T, value |-> Merge(mem[a], w[k].value, w[k].mask)] :
                                              k \in {l \in EntryOf(w, a) : w[l].mask # {}}}
    BY DEF Publish
  <1>4. \A h \in Publish(w, T)[a] : h \in hist[a] \/ h.version = T
    BY <1>3
  <1>5. ASSUME w[j].addr = a, w[j].mask # {}
        PROVE  Publish(w, T)[a] = hist[a] \cup {new}
    <2>1. {l \in EntryOf(w, a) : w[l].mask # {}} = {j}
      BY <1>5 DEF EntryOf, Entries, Lists
    <2>2. w[j].value \in Word
      BY EntryType DEF LockInv, WEntry
    <2>3. \A b \in Byte \ w[j].mask : w[j].value[b] = mem[a][b]
      BY <1>1, <1>5 DEF Unmasked
    <2>4. Merge(mem[a], w[j].value, w[j].mask) = w[j].value
      BY <2>2, <2>3 DEF Merge, Word
    <2> QED
      BY <1>3, <2>1, <2>4
  <1> HIDE DEF w, T
  <1>6. ASSUME w[j].addr = a, w[j].mask # {}
        PROVE  Newest(Publish(w, T)[a]) = new
    <2> DEFINE H == hist[a] \cup {new}
    <2>1. new \in H /\ new.version = T
      OBVIOUS
    <2>2. \A g \in H : g.version \in Nat /\ (g # new => g.version < T)
      BY <1>1, <1>2
    <2> HIDE DEF H, new
    <2>3. Newest(H) = new
      BY <2>1, <2>2, NewestIs
    <2> QED
      BY <1>5, <1>6, <2>3 DEF H
  <1> QED
    BY <1>1, <1>2, <1>4, <1>5, <1>6 DEF w, T

\* A commit takes its timestamp, or publishes.
LEMMA PublishesEntries ==
  ASSUME LockInv, NEW t \in Tx, Entries(t), Publishes(t)
  PROVE  Entries(t)'
  <1> DEFINE w == tx[t].w_set
             T == CommitTime(t)
  <1>1. /\ UNCHANGED <<mem, tx>>
        /\ loc'[t].ts = T /\ loc'[t].i = 1
        /\ \/ pc'[t] = "install" /\ hist' = Publish(w, T)
           \/ pc'[t] = "validate" /\ hist' = hist
    BY PublishesEffect DEF LockInv
  <1>2. /\ T \in Nat /\ T <= clock' /\ clock' >= clock
        /\ clock \in Nat /\ clock' \in Nat
        /\ \A j \in 1 .. Len(w) : /\ w[j].version \in Nat /\ w[j].version < T
                                  /\ Clean(LOCK_IDX(w[j].addr), w[j].version)
                                  /\ Unmasked(w[j])
        /\ \A j \in 1 .. Len(w) : w[j].version <= clock
    BY CommitTimeAbove, PublishesEffect DEF LockInv, TypeInv, TypeOK, Entries, Dated
  <1>3. Lists(t)' /\ Dated(t)'
    BY <1>1, <1>2, SMTT(40) DEF Entries, Lists, Dated
  <1>4. Undropped(t)' = 1 /\ Remaining(t)' = 1 .. Len(w)
    BY <1>1 DEF Undropped, Remaining
  <1>5. CASE pc'[t] = "validate" /\ hist' = hist
    <2>1. ~Publishing(t)'
      BY <1>5 DEF Publishing
    <2>2. Buffered(t)'
      BY <1>1, <1>2, <1>4, <1>5 DEF Buffered, Clean, Unmasked, Latest
    <2> QED
      BY <1>3, <2>1, <2>2 DEF Entries, Installing
  <1>6. CASE pc'[t] = "install" /\ hist' = Publish(w, T)
    <2>1. Publishing(t)' /\ NotWritten(t)' = 1 .. Len(w)
      BY <1>1, <1>6 DEF Publishing, NotWritten
    <2>2. ASSUME NEW j \in 1 .. Len(w)
          PROVE  /\ w[j].mask # {} => w[j].value = Newest(hist'[w[j].addr]).value
                 /\ \A a \in Addr : LOCK_IDX(a) = LOCK_IDX(w[j].addr) =>
                       /\ \A h \in hist'[a] : h.version <= T
                       /\ \/ mem[a] = Newest(hist'[a]).value
                          \/ \E k \in 1 .. Len(w) : w[k].addr = a /\ w[k].mask # {}
      <3>1. w[j].addr \in Addr
        BY EntryType DEF LockInv, WEntry
      <3>2. w[j].mask # {} => w[j].value = Newest(hist'[w[j].addr]).value
        <4>1. ASSUME w[j].mask # {}
              PROVE  Newest(Publish(w, T)[w[j].addr]) = [version |-> T, value |-> w[j].value]
          BY <3>1, <4>1, PublishHere
        <4> QED
          BY <1>6, <4>1
      <3>3. ASSUME NEW a \in Addr, LOCK_IDX(a) = LOCK_IDX(w[j].addr)
            PROVE  /\ \A h \in hist'[a] : h.version <= T
                   /\ \/ mem[a] = Newest(hist'[a]).value
                      \/ \E k \in 1 .. Len(w) : w[k].addr = a /\ w[k].mask # {}
        <4>1. mem[a] = Latest(a) /\ \A h \in hist'[a] : h.version <= T
          BY <1>6, <3>3, PublishHere
        <4>2. ASSUME ~\E k \in 1 .. Len(w) : w[k].addr = a /\ w[k].mask # {}
              PROVE  hist'[a] = hist[a]
          BY <1>6, <4>2, PublishElsewhere DEF EntryOf
        <4> QED
          BY <4>1, <4>2 DEF Latest
      <3> QED
        BY <3>2, <3>3
    <2>3. Installing(t)'
      BY <1>1, <1>4, <2>1, <2>2 DEF Installing, Latest
    <2>4. Buffered(t)'
      BY <2>1 DEF Buffered
    <2> QED
      BY <1>3, <2>3, <2>4 DEF Entries
  <1> QED
    BY <1>1, <1>5, <1>6

\* The write-back of an entry.
LEMMA InstallEntries ==
  ASSUME LockInv, NEW t \in Tx, Entries(t), Install(t)
  PROVE  Entries(t)'
  <1> DEFINE w == tx[t].w_set  i == loc[t].i
  <1>1. /\ UNCHANGED <<clock, hist, tx, loc>>
        /\ pc[t] = "install" /\ pc'[t] = "drop"
        /\ i \in Nat /\ i \in 1 .. Len(w) /\ Len(w) \in Nat
        /\ mem' = IF w[i].mask # {} THEN [mem EXCEPT ![w[i].addr] = w[i].value] ELSE mem
    BY EntryType DEF Install, Goto, aux, LockInv, TypeInv, TypeOK
  <1>2. /\ Publishing(t) /\ Publishing(t)'
        /\ Remaining(t) = i .. Len(w) /\ Remaining(t)' = i .. Len(w)
        /\ NotWritten(t) = i .. Len(w) /\ NotWritten(t)' = i + 1 .. Len(w)
    BY <1>1 DEF Publishing, Remaining, NotWritten, Undropped
  <1>3. Lists(t)' /\ Dated(t)' /\ Buffered(t)'
    BY <1>1, <1>2, SMTT(40) DEF Entries, Lists, Dated, Buffered
  <1>4. Installing(t)
    BY DEF Entries
  <1>5. ASSUME NEW j \in i .. Len(w), NEW a \in Addr, LOCK_IDX(a) = LOCK_IDX(w[j].addr)
        PROVE  \/ mem'[a] = Latest(a)
               \/ \E k \in i + 1 .. Len(w) : w[k].addr = a /\ w[k].mask # {}
    <2>1. w[i].mask # {} => w[i].value = Latest(w[i].addr)
      BY <1>1, <1>2, <1>4, SMTT(40) DEF Installing
    <2>2. mem[a] = Latest(a) \/ \E k \in i .. Len(w) : w[k].addr = a /\ w[k].mask # {}
      BY <1>2, <1>4, <1>5 DEF Installing
    <2>3. mem \in [Addr -> Word]
      BY DEF LockInv, TypeInv, TypeOK
    <2>4. CASE w[i].mask # {} /\ w[i].addr = a
      BY <1>1, <2>1, <2>3, <2>4
    <2>5. CASE w[i].mask = {} \/ w[i].addr # a
      <3>1. mem'[a] = mem[a]
        BY <1>1, <2>3, <2>5, Zenon
      <3>2. ASSUME NEW k \in i .. Len(w), w[k].addr = a, w[k].mask # {}
            PROVE  k \in i + 1 .. Len(w)
        <4>1. k # i /\ i \in Nat /\ Len(w) \in Nat
          BY <1>1, <2>5, <3>2, Zenon
        <4> HIDE DEF w, i
        <4> QED
          BY <3>2, <4>1
      <3> QED
        BY <2>2, <3>1, <3>2
    <2> QED
      BY <2>4, <2>5
  <1>6. Installing(t)'
    <2>1. /\ tx'[t].w_set = w /\ loc'[t].ts = loc[t].ts /\ hist' = hist
          /\ \A a \in Addr : Latest(a)' = Latest(a)
      BY <1>1 DEF Latest
    <2>2. ASSUME NEW j \in i .. Len(w)
          PROVE  /\ w[j].mask # {} => w[j].value = Latest(w[j].addr)'
                 /\ \A a \in Addr : LOCK_IDX(a) = LOCK_IDX(w[j].addr) =>
                       \A h \in hist'[a] : h.version <= loc'[t].ts
      <3>1. w[j].mask # {} => w[j].value = Latest(w[j].addr)
        BY <1>2, <1>4, <2>2 DEF Installing
      <3>2. Latest(w[j].addr)' = Latest(w[j].addr)
        BY <2>1 DEF Latest
      <3> QED
        BY <1>2, <1>4, <2>1, <2>2, <3>1, <3>2 DEF Installing
    <2> QED
      BY <1>2, <1>5, <2>1, <2>2 DEF Installing
  <1> QED
    BY <1>3, <1>6 DEF Entries

\* The loop of commit passes an entry.
LEMMA DropEntries ==
  ASSUME LockInv, NEW t \in Tx, Entries(t), Drop(t)
  PROVE  Entries(t)'
  <1> DEFINE w == tx[t].w_set  i == loc[t].i
  <1>1. /\ UNCHANGED <<mem, clock, hist, tx>>
        /\ pc[t] = "drop" /\ pc'[t] = "install"
        /\ i \in Nat /\ loc'[t].i = i + 1 /\ loc'[t].ts = loc[t].ts
    BY EntryType DEF Drop, Goto, aux, LockInv, TypeInv, TypeOK, Locals
  <1>2. /\ Publishing(t) /\ Publishing(t)'
        /\ Remaining(t) = i .. Len(w) /\ Remaining(t)' = i + 1 .. Len(w)
        /\ NotWritten(t)' = NotWritten(t)
    BY <1>1 DEF Publishing, Remaining, NotWritten, Undropped
  <1>3. \A j \in i + 1 .. Len(w) : j \in i .. Len(w)
    BY <1>1
  <1>4. Lists(t)' /\ Dated(t)' /\ Buffered(t)'
    BY <1>1, <1>2 DEF Entries, Lists, Dated, Buffered
  <1>5. Installing(t)'
    BY <1>1, <1>2, <1>3, SMTT(40) DEF Entries, Installing, Latest
  <1> QED
    BY <1>4, <1>5 DEF Entries

-----------------------------------------------------------------------------
(* Every step *)

\* A step of t keeps the entries of t in order.
LEMMA OwnEntries ==
  ASSUME LockInv, NEW t \in Tx, StepOf(t), Entries(t), \A s \in Stripe : FreeClean(s)
  PROVE  Entries(t)'
  <1>1. CASE Keeps(t)
    <2>1. /\ UNCHANGED <<mem, clock, hist>> /\ tx'[t].w_set = tx[t].w_set
          /\ ~Publishing(t) /\ ~Publishing(t)'
          /\ Remaining(t)' = Remaining(t)
          /\ Timed(t)' => Timed(t) /\ loc'[t].ts = loc[t].ts
      BY <1>1 DEF Keeps, SameData, Remaining
    <2>2. Lists(t)' /\ Dated(t)' /\ Installing(t)'
      BY <2>1 DEF Entries, Lists, Dated, Installing
    <2>3. Buffered(t)'
      BY <2>1 DEF Entries, Buffered, Clean, Unmasked, Latest
    <2> QED
      BY <2>2, <2>3 DEF Entries
  <1>2. CASE Forgets(t)
    <2>1. ~Publishing(t)' /\ ~Timed(t)' /\ Undropped(t)' = 1 /\ tx'[t].w_set = <<>>
      BY <1>2 DEF Forgets, Publishing, Timed, Undropped
    <2> QED
      BY <2>1 DEF Entries, Lists, Dated, Buffered, Installing, Remaining
  <1> QED
    BY <1>1, <1>2, EditsEntries, StoreAcquireEntries, RollbackDropEntries, PublishesEntries,
       InstallEntries, DropEntries
    DEF StepOf, Kinds

\* A lock that the loop of rollback or commit drops is the only one that becomes free.
LEMMA FreedLocks ==
  ASSUME LockInv, NEW t \in Tx, StepOf(t), NEW s \in Stripe, lock'[s].owner \notin Tx
  PROVE  \/ lock'[s] = lock[s] /\ s \notin Held(t)
         \/ /\ RollbackDrop(t) \/ Drop(t)
            /\ IsLast(tx[t].w_set, loc[t].i)
            /\ loc[t].i \in Remaining(t)
            /\ s = LOCK_IDX(tx[t].w_set[loc[t].i].addr)
            /\ lock'[s] = Timestamp(IF RollbackDrop(t) THEN tx[t].w_set[loc[t].i].version
                                                       ELSE loc[t].ts)
  <1>0. TypeInv /\ NoTx \notin Tx /\ lock \in [Stripe -> LockWord] /\ loc[t].i \in Nat
    BY StmAssumption, EntryType DEF LockInv, TypeInv, TypeOK
  <1>1. CASE lock'[s] = lock[s]
    <2>1. s \notin Held(t)
      BY <1>0, <1>1, HeldApart
    <2> QED
      BY <1>1, <2>1
  <1>2. CASE lock'[s] # lock[s]
    <2>1. ~Keeps(t) /\ ~Forgets(t) /\ ~Edits(t) /\ ~Publishes(t) /\ ~Install(t)
      BY <1>0, <1>2, PublishesEffect DEF Keeps, Forgets, Edits, SameData, Install
    <2>2. ~StoreAcquire(t)
      BY <1>0, <1>2 DEF StoreAcquire, OwnedBy
    <2>3. CASE RollbackDrop(t)
      <3>1. lock' = IF IsLast(tx[t].w_set, loc[t].i)
                    THEN [lock EXCEPT ![LOCK_IDX(tx[t].w_set[loc[t].i].addr)]
                                        = Timestamp(tx[t].w_set[loc[t].i].version)]
                    ELSE lock
        BY <2>3, Zenon DEF RollbackDrop
      <3>2. loc[t].i \in Remaining(t)
        <4>1. pc[t] = "rollback" /\ loc[t].i <= Len(tx[t].w_set)
          BY <2>3 DEF RollbackDrop
        <4>2. loc[t].i \in Nat /\ Len(tx[t].w_set) \in Nat
          BY <1>0, EntryType
        <4> QED
          BY <4>1, <4>2 DEF Remaining, Undropped
      <3> QED
        BY <1>0, <1>2, <2>3, <3>1, <3>2, Zenon
    <2>4. CASE Drop(t)
      <3>1. lock' = IF IsLast(tx[t].w_set, loc[t].i)
                    THEN [lock EXCEPT ![LOCK_IDX(tx[t].w_set[loc[t].i].addr)]
                                        = Timestamp(loc[t].ts)]
                    ELSE lock
        BY <2>4 DEF Drop
      <3>2. loc[t].i \in Remaining(t) /\ ~RollbackDrop(t)
        BY <1>0, <2>4, EntryType DEF Drop, RollbackDrop, Remaining, Undropped, LockInv, ThreadInv
      <3> QED
        BY <1>0, <1>2, <2>4, <3>1, <3>2
    <2> QED
      BY <2>1, <2>2, <2>3, <2>4 DEF StepOf, Kinds
  <1> QED
    BY <1>1, <1>2

\* A step of a thread leaves the free stripes clean.
LEMMA FreeStripes ==
  ASSUME LockInv, TypeInv', NEW t \in Tx, StepOf(t), Entries(t), NEW s \in Stripe, FreeClean(s)
  PROVE  FreeClean(s)'
  <1> DEFINE w == tx[t].w_set  i == loc[t].i
  <1>0. clock \in Nat /\ clock' \in Nat /\ clock' >= clock
    BY ClockForward
  <1>1. SUFFICES ASSUME lock'[s].owner = NoTx
                 PROVE  Clean(s, lock[s].version)' /\ lock'[s].version <= clock'
    BY DEF FreeClean
  <1>2. CASE lock'[s] = lock[s] /\ s \notin Held(t)
    <2>1. /\ lock[s].owner = NoTx /\ Clean(s, lock[s].version)
          /\ lock[s].version <= clock /\ lock[s].version \in Nat
      BY <1>1, <1>2 DEF FreeClean, LockInv, TypeInv, TypeOK, LockWord
    <2>2. \A a \in Addr : LOCK_IDX(a) = s => mem'[a] = mem[a] /\ hist'[a] = hist[a]
      BY <1>2, Elsewhere
    <2> QED
      BY <1>0, <1>2, <2>1, <2>2 DEF Clean, Latest
  <1>3. CASE /\ RollbackDrop(t) \/ Drop(t)
             /\ IsLast(w, i)
             /\ i \in Remaining(t)
             /\ s = LOCK_IDX(w[i].addr)
             /\ lock'[s] = Timestamp(IF RollbackDrop(t) THEN w[i].version ELSE loc[t].ts)
    <2>1. i \in 1 .. Len(w) /\ i \in Nat /\ w[i] \in WEntry /\ w[i].version \in Nat
          /\ loc[t].ts \in Nat
      BY <1>3, RemainingEntry, Zenon DEF WEntry, LockInv, TypeInv, TypeOK, Locals
    <2>2. CASE RollbackDrop(t)
      <3>0. lock'[s] = Timestamp(w[i].version)
        BY <1>3, <2>2, Zenon
      <3>1. /\ UNCHANGED <<mem, clock, hist>> /\ ~Publishing(t)
            /\ lock'[s].version = w[i].version /\ lock'[s].owner = NoTx
        BY <2>2, <3>0, SMTT(40) DEF RollbackDrop, Publishing, aux, Timestamp
      <3>2. Clean(s, w[i].version) /\ w[i].version <= clock
        BY <1>3, <2>1, <3>1, Zenon DEF Entries, Buffered, Dated
      <3> QED
        BY <3>1, <3>2 DEF Clean, Latest
    <2>3. CASE Drop(t) /\ ~RollbackDrop(t)
      <3>1. /\ UNCHANGED <<mem, clock, hist>> /\ Publishing(t)
            /\ lock'[s].version = loc[t].ts /\ lock'[s].owner = NoTx
            /\ NotWritten(t) = i + 1 .. Len(w)
        <4>1. UNCHANGED <<mem, clock, hist>> /\ pc[t] = "drop"
          BY <2>3 DEF Drop, aux
        <4>2. lock'[s] = Timestamp(loc[t].ts)
          BY <1>3, <2>3
        <4>3. lock'[s].version = loc[t].ts /\ lock'[s].owner = NoTx
          BY <4>2 DEF Timestamp
        <4> QED
          BY <4>1, <4>3 DEF Publishing, NotWritten
      <3>2. loc[t].ts <= clock
        BY <3>1 DEF Entries, Dated
      <3>3. ASSUME NEW a \in Addr, LOCK_IDX(a) = s
            PROVE  mem[a] = Latest(a) /\ \A h \in hist[a] : h.version <= loc[t].ts
        <4>0. Installing(t)
          BY DEF Entries
        <4>1. /\ \A h \in hist[a] : h.version <= loc[t].ts
              /\ \/ mem[a] = Latest(a)
                 \/ \E k \in NotWritten(t) : w[k].addr = a /\ w[k].mask # {}
          <5> LOCK_IDX(a) = LOCK_IDX(w[i].addr) /\ i \in Remaining(t) /\ Publishing(t)
            BY <1>3, <3>1, <3>3, ZenonT(60)
          <5> QED
            BY <4>0 DEF Installing
        <4>2. \A k \in i + 1 .. Len(w) : w[k].addr # a
          BY <1>3, <3>3, Zenon DEF IsLast
        <4> QED
          BY <3>1, <4>1, <4>2
      <3> QED
        BY <3>1, <3>2, <3>3 DEF Clean, Latest
    <2> QED
      BY <1>3, <2>2, <2>3, ZenonT(60)
  <1> QED
    <2>1. lock'[s].owner \notin Tx
      BY <1>1, StmAssumption
    <2> HIDE DEF w, i
    <2> QED
      BY <1>2, <1>3, <2>1, FreedLocks DEF w, i

\* A step of a thread leaves the locks to transactions.
LEMMA OwnersStay ==
  ASSUME LockInv, NEW t \in Tx, StepOf(t), NEW s \in Stripe, lock[s].owner \in Tx \cup {NoTx}
  PROVE  lock'[s].owner \in Tx \cup {NoTx}
  <1> SUFFICES ASSUME lock'[s].owner \notin Tx
               PROVE  lock'[s].owner = NoTx
    OBVIOUS
  <1>1. \A n : Timestamp(n).owner = NoTx
    BY DEF Timestamp
  <1>2. lock'[s] = lock[s] \/ \E n : lock'[s] = Timestamp(n)
    BY FreedLocks
  <1> QED
    BY <1>1, <1>2

\* The reset of the clock keeps all stripes clean, with the rebased history.
LEMMA RolloverMemory ==
  ASSUME LockInv, NEW Outside, \A t \in Tx \cap Outside : pc[t] = "idle", RolloverBut(Outside),
         \A s \in Stripe : FreeClean(s) /\ lock[s].owner \in Tx \cup {NoTx}
  PROVE  /\ \A s \in Stripe : FreeClean(s)' /\ lock'[s].owner \in Tx \cup {NoTx}
         /\ \A t \in Tx : Entries(t)'
  <1>1. ASSUME NEW t \in Tx
        PROVE  /\ pc[t] \in {"barrier", "idle"} /\ pc'[t] \in {"prepare", "idle"}
               /\ tx' = tx /\ tx[t].w_set = <<>>
    BY DEF RolloverBut, LockInv, ThreadInv, Between
  <1>2. ASSUME NEW t \in Tx
        PROVE  Entries(t)'
    <2>1. ~Publishing(t)' /\ ~Timed(t)' /\ Undropped(t)' = 1 /\ tx'[t].w_set = <<>>
      BY <1>1 DEF Publishing, Timed, Undropped
    <2> QED
      BY <2>1 DEF Entries, Lists, Dated, Buffered, Installing, Remaining
  <1>3. ASSUME NEW s \in Stripe, NEW a \in Addr, LOCK_IDX(a) = s
        PROVE  mem[a] = Latest(a)
    <2>1. \A t \in Tx : Held(t) = {}
      BY <1>1 DEF Held, Undropped
    <2>2. lock[s].owner \notin Tx
      BY <2>1 DEF LockInv, LockOwner
    <2> QED
      BY <1>3, <2>2 DEF FreeClean, Clean
  <1>4. ASSUME NEW s \in Stripe
        PROVE  FreeClean(s)' /\ lock'[s].owner \in Tx \cup {NoTx}
    <2>1. lock'[s] = Timestamp(0) /\ clock' = 0 /\ mem' = mem
      BY DEF RolloverBut
    <2>2. ASSUME NEW a \in Addr, LOCK_IDX(a) = s
          PROVE  mem'[a] = Latest(a)' /\ \A h \in hist'[a] : h.version = 0
      <3>1. hist'[a] = {[version |-> 0, value |-> Latest(a)]}
        BY DEF RolloverBut
      <3>2. Newest(hist'[a]) = [version |-> 0, value |-> Latest(a)]
        BY <3>1 DEF Newest
      <3>3. mem[a] = Latest(a)
        BY <1>3, <2>2
      <3> QED
        BY <2>1, <3>1, <3>2, <3>3 DEF Latest
    <2> QED
      BY <2>1, <2>2 DEF FreeClean, Clean, Timestamp
  <1> QED
    BY <1>2, <1>4

\* Memory and history agree at the start.
LEMMA MemInit == Init => MemInv
  <1> SUFFICES ASSUME Init
               PROVE  MemInv
    OBVIOUS
  <1>1. ASSUME NEW t \in Tx
        PROVE  Entries(t)
    <2>1. ~Publishing(t) /\ ~Timed(t) /\ Undropped(t) = 1 /\ tx[t].w_set = <<>>
      BY DEF Init, Publishing, Timed, Undropped
    <2> QED
      BY <2>1 DEF Entries, Lists, Dated, Buffered, Installing, Remaining
  <1>2. ASSUME NEW s \in Stripe
        PROVE  FreeClean(s) /\ lock[s].owner \in Tx \cup {NoTx}
    <2>1. lock[s] = Timestamp(0) /\ clock = 0
      BY DEF Init
    <2>2. ASSUME NEW a \in Addr
          PROVE  mem[a] = Latest(a) /\ \A h \in hist[a] : h.version = 0
      <3>1. hist[a] = {[version |-> 0, value |-> mem[a]]}
        BY DEF Init
      <3>2. Newest(hist[a]) = [version |-> 0, value |-> mem[a]]
        BY <3>1 DEF Newest
      <3> QED
        BY <3>1, <3>2 DEF Latest
    <2> QED
      BY <2>1, <2>2 DEF FreeClean, Clean, Timestamp
  <1> QED
    BY <1>1, <1>2, LockInit DEF MemInv

\* Every step keeps the stripes and the entries in order.
LEMMA MemStep == MemInv /\ [Next]_vars => MemInv'
  <1> SUFFICES ASSUME MemInv, [Next]_vars
               PROVE  MemInv'
    OBVIOUS
  <1>1. LockInv /\ TypeInv' /\ LockInv'
    BY TypeStep, LockStep DEF MemInv, LockInv
  <1>2. CASE UNCHANGED vars
    <2>1. \A s \in Stripe : FreeClean(s)' /\ lock'[s].owner \in Tx \cup {NoTx}
      BY <1>2 DEF MemInv, vars, FreeClean, Clean, Latest
    <2>2. ASSUME NEW t \in Tx
          PROVE  Entries(t)'
      <3>1. /\ Entries(t) /\ lock' = lock /\ mem' = mem /\ clock' = clock
            /\ pc' = pc /\ loc' = loc /\ tx' = tx /\ hist' = hist
        BY <1>2 DEF MemInv, vars
      <3>2. /\ Publishing(t)' = Publishing(t) /\ Timed(t)' = Timed(t)
            /\ Remaining(t)' = Remaining(t) /\ NotWritten(t)' = NotWritten(t)
        BY <3>1 DEF Publishing, Timed, Remaining, NotWritten, Undropped
      <3>3. Lists(t)' /\ Dated(t)'
        BY <3>1, <3>2 DEF Entries, Lists, Dated
      <3>4. Buffered(t)'
        BY <3>1, <3>2 DEF Entries, Buffered, Clean, Latest, Unmasked
      <3>5. Installing(t)'
        BY <3>1, <3>2 DEF Entries, Installing, Latest
      <3> QED
        BY <3>3, <3>4, <3>5 DEF Entries
    <2> QED
      BY <1>1, <2>1, <2>2 DEF MemInv
  <1>3. CASE Rollover
    <2>1. RolloverBut({})
      BY <1>3 DEF Rollover
    <2>2. /\ \A s \in Stripe : FreeClean(s)' /\ lock'[s].owner \in Tx \cup {NoTx}
          /\ \A t \in Tx : Entries(t)'
      BY <1>1, <2>1, RolloverMemory DEF MemInv
    <2> QED
      BY <1>1, <2>2 DEF MemInv
  <1>4. ASSUME NEW t \in Tx, Running(t) \/ Call(t)
        PROVE  MemInv'
    <2>1. StepOf(t)
      BY <1>1, <1>4, StepKinds
    <2>2. \A u \in Tx : Entries(u)'
      BY <1>1, <2>1, OwnEntries, OtherEntries DEF MemInv
    <2>3. \A s \in Stripe : FreeClean(s)' /\ lock'[s].owner \in Tx \cup {NoTx}
      BY <1>1, <2>1, FreeStripes, OwnersStay DEF MemInv
    <2> QED
      BY <1>1, <2>2, <2>3 DEF MemInv
  <1> QED
    BY <1>2, <1>3, <1>4 DEF Next

\* For any number of threads, addresses and locks: memory under a free lock is the
\* last committed state, with a version that covers all commits to the stripe.
\* Values that a running or aborted transaction has buffered are never there,
\* however write-backs, rollbacks and the clock reset interleave.
THEOREM MemoryIsCommitted == Spec => []CommittedMemory
  <1>1. MemInv => CommittedMemory
    BY LockIdxType, StmAssumption DEF MemInv, FreeClean, Clean, CommittedMemory
  <1> QED
    BY <1>1, MemInit, MemStep, PTL DEF Spec

-----------------------------------------------------------------------------
(* Versions of locks only grow *)

\* All entries under a lock have its version.
LEMMA ChosenVersion ==
  ASSUME NEW w, NEW s, NEW j \in Covered(w, s),
         \A k, l \in 1 .. Len(w) :
             LOCK_IDX(w[k].addr) = LOCK_IDX(w[l].addr) => w[k].version = w[l].version
  PROVE  w[CHOOSE k \in Covered(w, s) : TRUE].version = w[j].version
  <1>1. (CHOOSE k \in Covered(w, s) : TRUE) \in Covered(w, s)
    OBVIOUS
  <1> QED
    BY <1>1 DEF Covered

\* The version of a lock is the one it shows, or the one its owner's entries have.
LEMMA LockVersionNow ==
  ASSUME MemInv, NEW s \in Stripe
  PROVE  /\ lock[s].owner \notin Tx => LockVersion(s) = lock[s].version
         /\ \A t \in Tx : \A j \in 1 .. Len(tx[t].w_set) :
               lock[s].owner = t /\ LOCK_IDX(tx[t].w_set[j].addr) = s =>
                   LockVersion(s) = tx[t].w_set[j].version
  <1>1. lock[s].owner \notin Tx => lock[s].owner = NoTx
    BY DEF MemInv, FreeClean
  <1>2. ASSUME NEW t \in Tx, NEW j \in 1 .. Len(tx[t].w_set), lock[s].owner = t,
               LOCK_IDX(tx[t].w_set[j].addr) = s
        PROVE  LockVersion(s) = tx[t].w_set[j].version
    <2> DEFINE w == tx[t].w_set
    <2>1. j \in Covered(w, s) /\ t # NoTx
      BY <1>2, StmAssumption DEF Covered
    <2>2. LockVersion(s) = w[CHOOSE k \in Covered(w, s) : TRUE].version
      BY <1>2, <2>1 DEF LockVersion
    <2>3. \A k, l \in 1 .. Len(w) :
             LOCK_IDX(w[k].addr) = LOCK_IDX(w[l].addr) => w[k].version = w[l].version
      BY DEF MemInv, Entries, Lists
    <2> HIDE DEF w
    <2> QED
      BY <2>1, <2>2, <2>3, ChosenVersion DEF w
  <1> QED
    BY <1>1, <1>2 DEF LockVersion

\* The same of the next state.
LEMMA LockVersionNext ==
  ASSUME MemInv', NEW s \in Stripe
  PROVE  /\ lock'[s].owner \notin Tx => LockVersion(s)' = lock'[s].version
         /\ \A t \in Tx : \A j \in 1 .. Len(tx'[t].w_set) :
               lock'[s].owner = t /\ LOCK_IDX(tx'[t].w_set[j].addr) = s =>
                   LockVersion(s)' = tx'[t].w_set[j].version
  <1>1. lock'[s].owner \notin Tx => lock'[s].owner = NoTx
    BY DEF MemInv, FreeClean
  <1>2. ASSUME NEW t \in Tx, NEW j \in 1 .. Len(tx'[t].w_set), lock'[s].owner = t,
               LOCK_IDX(tx'[t].w_set[j].addr) = s
        PROVE  LockVersion(s)' = tx'[t].w_set[j].version
    <2> DEFINE w == tx'[t].w_set
    <2>1. j \in Covered(w, s) /\ t # NoTx
      BY <1>2, StmAssumption DEF Covered
    <2>2. LockVersion(s)' = w[CHOOSE k \in Covered(w, s) : TRUE].version
      BY <1>2, <2>1 DEF LockVersion
    <2>3. \A k, l \in 1 .. Len(w) :
             LOCK_IDX(w[k].addr) = LOCK_IDX(w[l].addr) => w[k].version = w[l].version
      BY DEF MemInv, Entries, Lists
    <2> HIDE DEF w
    <2> QED
      BY <2>1, <2>2, <2>3, ChosenVersion DEF w
  <1> QED
    BY <1>1, <1>2 DEF LockVersion

\* What a step of t does to a stripe: nothing, t keeps it with the same version,
\* gives it back, or acquires it.
Spared(t, s) == lock'[s] = lock[s] /\ s \notin Held(t)
KeptBy(t, s) ==
    /\ s \in Held(t)
    /\ lock'[s] = lock[s]
    /\ \E j \in 1 .. Len(tx[t].w_set) :
          /\ LOCK_IDX(tx[t].w_set[j].addr) = s
          /\ j \in 1 .. Len(tx'[t].w_set)
          /\ tx'[t].w_set[j].addr = tx[t].w_set[j].addr
          /\ tx'[t].w_set[j].version = tx[t].w_set[j].version
FreedBy(t, s) ==
    /\ RollbackDrop(t) \/ Drop(t)
    /\ IsLast(tx[t].w_set, loc[t].i)
    /\ loc[t].i \in Remaining(t)
    /\ s = LOCK_IDX(tx[t].w_set[loc[t].i].addr)
    /\ lock'[s] = Timestamp(IF RollbackDrop(t) THEN tx[t].w_set[loc[t].i].version
                                               ELSE loc[t].ts)
TakenBy(t, s) ==
    /\ StoreAcquire(t)
    /\ s = LOCK_IDX(loc[t].addr)
    /\ lock[s].owner = NoTx /\ lock[s] = loc[t].l
    /\ lock'[s] = OwnedBy(t)
    /\ \E j \in 1 .. Len(tx'[t].w_set) : /\ LOCK_IDX(tx'[t].w_set[j].addr) = s
                                         /\ tx'[t].w_set[j].version = lock[s].version

\* There is no other way.
LEMMA StripeSteps ==
  ASSUME LockInv, TypeInv', NEW t \in Tx, StepOf(t), NEW s \in Stripe
  PROVE  Spared(t, s) \/ KeptBy(t, s) \/ FreedBy(t, s) \/ TakenBy(t, s)
  <1> DEFINE ws == tx[t].w_set
  <1>0. /\ TypeInv /\ t # NoTx /\ lock \in [Stripe -> LockWord]
        /\ ws \in Seq(WEntry) /\ Len(ws) \in Nat
    BY StmAssumption, EntryType DEF LockInv, TypeInv, TypeOK
  <1>1. CASE lock'[s].owner \notin Tx
    BY <1>1, FreedLocks DEF Spared, FreedBy
  <1>2. CASE lock'[s].owner \in Tx /\ s \notin Held(t) /\ ~StoreAcquire(t)
    <2>1. CASE Keeps(t) \/ Forgets(t) \/ Edits(t) \/ Publishes(t) \/ Install(t)
      <3>1. lock' = lock
        BY <1>0, <2>1, PublishesEffect, Zenon DEF Keeps, Forgets, Edits, SameData, Install
      <3> QED
        BY <1>2, <3>1 DEF Spared
    <2>2. CASE RollbackDrop(t) \/ Drop(t)
      <3>1. loc[t].i \in Remaining(t)
        <4>1. ThreadInv(t) /\ loc[t].i \in Nat \ {0}
          BY <1>0, EntryType DEF LockInv
        <4>2. (pc[t] = "rollback" /\ loc[t].i <= Len(ws)) \/ pc[t] = "drop"
          <5>1. CASE RollbackDrop(t)
            BY <5>1 DEF RollbackDrop
          <5>2. CASE Drop(t)
            BY <5>2 DEF Drop
          <5> QED
            BY <2>2, <5>1, <5>2
        <4>3. loc[t].i <= Len(ws)
          BY <4>1, <4>2 DEF ThreadInv
        <4>4. Remaining(t) = loc[t].i .. Len(ws)
          BY <4>2 DEF Remaining, Undropped
        <4> QED
          BY <1>0, <4>1, <4>3, <4>4
      <3>2. LOCK_IDX(ws[loc[t].i].addr) # s
        BY <1>2, <3>1, RemainingHeld
      <3>3. lock'[s] = lock[s]
        BY <1>0, <2>2, <3>2, Zenon DEF RollbackDrop, Drop
      <3> QED
        BY <1>2, <3>3 DEF Spared
    <2> QED
      BY <1>2, <2>1, <2>2 DEF StepOf, Kinds
  <1>3. CASE StoreAcquire(t)
    <2> DEFINE a == loc[t].addr
               e == AddEntry(a, loc[t].value, loc[t].mask, loc[t].l.version)
    <2>1. /\ lock[LOCK_IDX(a)] = loc[t].l /\ loc[t].l.owner = NoTx
          /\ lock' = [lock EXCEPT ![LOCK_IDX(a)] = OwnedBy(t)]
          /\ tx'[t].w_set = Append(ws, e)
          /\ Undropped(t) = 1
          /\ LOCK_IDX(a) \in Stripe
      <3>1. pc[t] = "store_cas" /\ LockUnchanged(t)
            /\ lock' = [lock EXCEPT ![LOCK_IDX(a)] = OwnedBy(t)]
            /\ tx' = [tx EXCEPT ![t].w_set = Append(ws, e)]
        BY <1>3 DEF StoreAcquire
      <3>2. loc[t].l.owner = NoTx /\ a \in Addr
        BY <3>1, EntryType DEF LockInv, ThreadInv, Locals
      <3>3. tx'[t].w_set = Append(ws, e)
        BY <1>0, <3>1 DEF TypeInv, TypeOK, TxDesc
      <3> QED
        BY <3>1, <3>2, <3>3, LockIdxType DEF LockUnchanged, Undropped
    <2>2. /\ e.addr = a /\ e.version = loc[t].l.version
      BY DEF AddEntry
    <2> HIDE DEF e
    <2>3. /\ Len(tx'[t].w_set) = Len(ws) + 1 /\ tx'[t].w_set[Len(ws) + 1] = e
          /\ \A j \in 1 .. Len(ws) : tx'[t].w_set[j] = ws[j]
      BY <1>0, <2>1
    <2>4. CASE s = LOCK_IDX(a)
      <3>1. Len(ws) + 1 \in 1 .. Len(tx'[t].w_set)
        BY <1>0, <2>3
      <3> QED
        BY <1>0, <1>3, <2>1, <2>2, <2>3, <2>4, <3>1 DEF TakenBy
    <2>5. CASE s # LOCK_IDX(a)
      <3>1. lock'[s] = lock[s]
        BY <1>0, <2>1, <2>5
      <3>2. CASE s \in Held(t)
        <4>1. PICK j \in 1 .. Len(ws) : LOCK_IDX(ws[j].addr) = s
          BY <2>1, <3>2 DEF Held
        <4>2. j \in 1 .. Len(tx'[t].w_set) /\ tx'[t].w_set[j] = ws[j]
          BY <1>0, <2>3, <4>1
        <4> QED
          BY <3>1, <3>2, <4>1, <4>2 DEF KeptBy
      <3> QED
        BY <3>1, <3>2 DEF Spared
    <2> QED
      BY <2>4, <2>5
  <1>4. CASE lock'[s].owner \in Tx /\ s \in Held(t) /\ ~StoreAcquire(t)
    <2>0. PICK j \in 1 .. Len(ws) : LOCK_IDX(ws[j].addr) = s /\ j \in Remaining(t)
      <3>1. PICK j \in Remaining(t) : LOCK_IDX(ws[j].addr) = s
        BY <1>4 DEF Held, Remaining
      <3> QED
        BY <1>0, <3>1, RemainingEntry
    <2>1. CASE Keeps(t) \/ Publishes(t) \/ Install(t)
      <3>1. lock' = lock /\ tx'[t].w_set = ws
        BY <1>0, <2>1, PublishesEffect, Zenon DEF Keeps, SameData, Install
      <3> QED
        BY <1>4, <2>0, <3>1 DEF KeptBy
    <2>2. ~Forgets(t)
      BY <1>4 DEF Forgets
    <2>3. CASE Edits(t)
      <3>1. PICK a \in Addr, w \in Word, m \in SUBSET Byte :
               Updates(t, a, w, m) \/ Adds(t, a, w, m)
        BY <2>3 DEF Edits
      <3>2. /\ j \in 1 .. Len(tx'[t].w_set)
            /\ tx'[t].w_set[j].addr = ws[j].addr
            /\ tx'[t].w_set[j].version = ws[j].version
        <4>1. ws[j] \in WEntry /\ TypeOK
          BY <1>0, <2>0 DEF TypeInv
        <4>2. CASE Updates(t, a, w, m)
          BY <1>0, <2>0, <4>1, <4>2, UpdateEntryType DEF Updates
        <4>3. CASE Adds(t, a, w, m)
          <5>1. PICK e : tx'[t].w_set = Append(ws, e)
            BY <4>3 DEF Adds
          <5> QED
            BY <1>0, <2>0, <5>1
        <4> QED
          BY <3>1, <4>2, <4>3
      <3>3. lock' = lock
        BY <2>3 DEF Edits, SameData
      <3> QED
        BY <1>4, <2>0, <3>2, <3>3 DEF KeptBy
    <2>4. CASE RollbackDrop(t) \/ Drop(t)
      <3>1. tx' = tx
        BY <2>4 DEF RollbackDrop, Drop
      <3>2. lock'[s] = lock[s]
        <4>1. CASE LOCK_IDX(ws[loc[t].i].addr) = s /\ IsLast(ws, loc[t].i)
          BY <1>0, <1>4, <2>4, <4>1, StmAssumption DEF RollbackDrop, Drop, Timestamp
        <4>2. CASE ~(LOCK_IDX(ws[loc[t].i].addr) = s /\ IsLast(ws, loc[t].i))
          BY <1>0, <2>4, <4>2, Zenon DEF RollbackDrop, Drop
        <4> QED
          BY <4>1, <4>2
      <3> QED
        BY <1>4, <2>0, <3>1, <3>2, SMTT(40) DEF KeptBy
    <2> QED
      BY <1>4, <2>1, <2>2, <2>3, <2>4 DEF StepOf, Kinds
  <1> QED
    BY <1>1, <1>2, <1>3, <1>4

\* No step of a thread takes a lock back to an older version.
LEMMA LockVersionStep ==
  ASSUME MemInv, MemInv', NEW t \in Tx, StepOf(t), NEW s \in Stripe
  PROVE  LockVersion(s)' >= LockVersion(s)
  <1>0. LockInv /\ TypeInv' /\ Entries(t) /\ t # NoTx /\ NoTx \notin Tx /\ lock[s] \in LockWord
    BY StmAssumption DEF MemInv, LockInv, TypeInv, TypeOK
  <1>1. \A u \in Tx : \A j \in 1 .. Len(tx[u].w_set) : tx[u].w_set[j].version \in Nat
    BY <1>0, EntryType DEF LockInv, WEntry
  <1>2. CASE Spared(t, s)
    <2>1. CASE lock[s].owner \notin Tx
      BY <1>0, <1>2, <2>1, LockVersionNow, LockVersionNext DEF Spared, LockWord
    <2>2. CASE lock[s].owner \in Tx
      <3> DEFINE u == lock[s].owner
      <3>1. u # t /\ s \in Held(u)
        BY <1>0, <1>2, <2>2 DEF Spared, LockInv, LockOwner
      <3>2. PICK j \in Remaining(u) : LOCK_IDX(tx[u].w_set[j].addr) = s
        BY <3>1 DEF Held, Remaining
      <3>3. j \in 1 .. Len(tx[u].w_set) /\ tx'[u] = tx[u] /\ lock'[s].owner = u
        BY <1>0, <1>2, <2>2, <3>1, <3>2, RemainingEntry DEF Spared, StepOf, Others, LockInv
      <3> HIDE DEF u
      <3>4. LockVersion(s) = tx[u].w_set[j].version
        BY <2>2, <3>2, <3>3, LockVersionNow DEF u
      <3>5. LockVersion(s)' = tx[u].w_set[j].version
        BY <2>2, <3>2, <3>3, LockVersionNext DEF u
      <3> QED
        BY <1>1, <2>2, <3>3, <3>4, <3>5 DEF u
    <2> QED
      BY <2>1, <2>2
  <1>3. CASE KeptBy(t, s)
    <2>1. PICK j \in 1 .. Len(tx[t].w_set) :
             /\ LOCK_IDX(tx[t].w_set[j].addr) = s
             /\ j \in 1 .. Len(tx'[t].w_set)
             /\ tx'[t].w_set[j].addr = tx[t].w_set[j].addr
             /\ tx'[t].w_set[j].version = tx[t].w_set[j].version
      BY <1>3 DEF KeptBy
    <2>2. lock[s].owner = t /\ lock'[s].owner = t
      BY <1>0, <1>3, HeldApart DEF KeptBy
    <2>3. LockVersion(s) = tx[t].w_set[j].version
      BY <2>1, <2>2, LockVersionNow
    <2>4. LockVersion(s)' = tx'[t].w_set[j].version
      BY <2>1, <2>2, LockVersionNext
    <2> QED
      BY <1>1, <2>1, <2>3, <2>4
  <1>4. CASE FreedBy(t, s)
    <2> DEFINE i == loc[t].i  e == tx[t].w_set[i]
    <2>1. i \in 1 .. Len(tx[t].w_set) /\ s = LOCK_IDX(e.addr) /\ s \in Held(t)
      BY <1>0, <1>4, RemainingEntry, RemainingHeld, SMTT(40) DEF FreedBy, LockInv
    <2>2. LockVersion(s) = e.version
      BY <1>0, <2>1, HeldApart, LockVersionNow, SMTT(40)
    <2>3. lock'[s] = Timestamp(IF RollbackDrop(t) THEN e.version ELSE loc[t].ts)
      BY <1>4 DEF FreedBy
    <2>4. LockVersion(s)' = IF RollbackDrop(t) THEN e.version ELSE loc[t].ts
      BY <1>0, <2>3, LockVersionNext DEF Timestamp
    <2>5. ~RollbackDrop(t) => e.version < loc[t].ts
      BY <1>0, <1>4, <2>1, Zenon DEF FreedBy, Drop, Publishing, Entries, Dated
    <2>6. loc[t].ts \in Nat
      BY <1>0 DEF LockInv, TypeInv, TypeOK, Locals
    <2>7. e.version \in Nat
      BY <1>0, <2>1, EntryType, Zenon DEF WEntry, LockInv
    <2>8. LockVersion(s)' >= LockVersion(s)
      <3> HIDE DEF e
      <3> QED
        BY <2>2, <2>4, <2>5, <2>6, <2>7
    <2> QED
      BY <1>1, <2>1, <2>8, SMTT(40)
  <1>5. CASE TakenBy(t, s)
    <2>1. PICK j \in 1 .. Len(tx'[t].w_set) :
             LOCK_IDX(tx'[t].w_set[j].addr) = s /\ tx'[t].w_set[j].version = lock[s].version
      BY <1>5 DEF TakenBy
    <2>2. lock[s].owner \notin Tx /\ lock'[s].owner = t
      BY <1>0, <1>5 DEF TakenBy, OwnedBy
    <2>3. LockVersion(s)' = lock[s].version /\ LockVersion(s) = lock[s].version
      BY <2>1, <2>2, LockVersionNow, LockVersionNext
    <2> QED
      BY <1>0, <2>3 DEF LockWord
  <1> QED
    BY <1>0, <1>2, <1>3, <1>4, <1>5, StripeSteps

\* Nor does a reset that leaves the clock where it was.
LEMMA GrowStep == MemInv /\ [Next]_vars => VersionsGrowStep \/ UNCHANGED vars
  <1> SUFFICES ASSUME MemInv, Next, clock' >= clock, NEW s \in Stripe
               PROVE  LockVersion(s)' >= LockVersion(s)
    BY DEF VersionsGrowStep
  <1>0. MemInv'
    BY MemStep
  <1>1. CASE Rollover
    <2>1. lock'[s] = Timestamp(0) /\ clock' = 0 /\ \A t \in Tx : pc[t] = "barrier"
      BY <1>1 DEF Rollover, RolloverBut
    <2>2. \A t \in Tx : Held(t) = {}
      BY <2>1 DEF MemInv, LockInv, ThreadInv, Between, Held, Undropped
    <2>3. lock[s].owner \notin Tx
      BY <2>2 DEF MemInv, LockInv, LockOwner
    <2>4. LockVersion(s) = lock[s].version /\ lock[s].version <= clock
      BY <2>3, LockVersionNow DEF MemInv, FreeClean
    <2>5. LockVersion(s)' = 0
      BY <1>0, <2>1, LockVersionNext, StmAssumption DEF Timestamp
    <2>6. lock[s].version \in Nat /\ clock \in Nat
      BY DEF MemInv, LockInv, TypeInv, TypeOK, LockWord
    <2> QED
      BY <2>1, <2>4, <2>5, <2>6
  <1>2. ASSUME NEW t \in Tx, Running(t) \/ Call(t)
        PROVE  LockVersion(s)' >= LockVersion(s)
    <2>1. StepOf(t)
      BY <1>2, StepKinds DEF MemInv
    <2> QED
      BY <1>0, <2>1, LockVersionStep
  <1> QED
    BY <1>1, <1>2 DEF Next

\* For any number of threads, addresses and locks, as long as the clock is not
\* reset: the version of a lock, or the one its owner would restore, never goes
\* back.  Validation may therefore take an unchanged version for an unchanged stripe.
THEOREM LocksAge == Spec => VersionsGrow
  <1>1. MemInv /\ [Next]_vars => [VersionsGrowStep]_vars
    BY GrowStep
  <1> QED
    BY <1>1, MemInit, MemStep, PTL DEF Spec, VersionsGrow

-----------------------------------------------------------------------------
(* The clock overshoots VERSION_MAX by less than the number of threads: a thread
   takes one timestamp per attempt, and no attempt starts from VERSION_MAX on. *)

\* Threads that take no timestamp before they pass int_stm_prepare again.
MustPrepare(t) ==
    \/ pc[t] \in {"idle", "prepare", "barrier", "rollback", "install", "drop"}
    \/ Timed(t)
Spent == {t \in Tx : MustPrepare(t)}

ClockInv == LockInv /\ clock < VERSION_MAX + Cardinality(Spent)

\* Only int_stm_prepare brings a thread back into the game.
LEMMA SpentStep ==
  ASSUME LockInv, NEW t \in Tx, Running(t) \/ Call(t), MustPrepare(t), ~Prepare(t)
  PROVE  MustPrepare(t)' /\ clock' = clock
  <1> USE DEF shared, aux
  <1>0. TypeInv /\ loc[t] \in Locals
    BY DEF LockInv, TypeInv, TypeOK
  <1>1. CASE pc[t] \in {"idle", "prepare", "barrier"}
    <2>1. Start(t) \/ RequestIrrevocable(t) \/ PrepareBarrier(t)
      BY <1>1, Zenon
      DEF Running, Call, RollbackDrop, RollbackEnd, ValidateEntry, ValidateFails, LoadAgain,
          LoadValue, LoadRestart, LoadReturn, LoadTooNew, Extend, Extended, LoadRecheck,
          StoreAgain, StoreAcquire, StoreCasFails, CommitClock, CommitValidated, Install, Drop,
          CommitEnd, IrrevocableValidated, AcquireIrrevocable, Validated, Load, Store,
          CommitReadOnly, Commit, UserAbort, SetIrrevocable, SetIrrevocableFails
    <2> QED
      BY <1>0, <1>1, <2>1
      DEF Start, RequestIrrevocable, PrepareBarrier, Goto, MustPrepare, TypeInv, TypeOK
  <1>2. CASE pc[t] \in {"rollback", "install", "drop"}
    <2>1. RollbackDrop(t) \/ RollbackEnd(t) \/ Install(t) \/ Drop(t) \/ CommitEnd(t)
      BY <1>2
      DEF Running, Call, PrepareBarrier, Prepare, ValidateEntry, ValidateFails, LoadAgain,
          LoadValue, LoadRestart, LoadReturn, LoadTooNew, Extend, Extended, LoadRecheck,
          StoreAgain, StoreAcquire, StoreCasFails, CommitClock, CommitValidated,
          IrrevocableValidated, AcquireIrrevocable, Validated, Start, Load, Store,
          CommitReadOnly, Commit, UserAbort, RequestIrrevocable, SetIrrevocable,
          SetIrrevocableFails
    <2>2. CASE RollbackDrop(t) \/ RollbackEnd(t)
      BY <1>0, <2>2 DEF RollbackDrop, RollbackEnd, Goto, MustPrepare, TypeInv, TypeOK
    <2>3. CASE Install(t) \/ Drop(t)
      BY <1>0, <2>3, Zenon DEF Install, Drop, Goto, MustPrepare, TypeInv, TypeOK
    <2>4. CASE CommitEnd(t)
      BY <1>0, <2>4 DEF CommitEnd, Committed, Goto, MustPrepare, TypeInv, TypeOK
    <2> QED
      BY <2>1, <2>2, <2>3, <2>4
  <1>3. CASE Timed(t)
    <2>1. ValidateEntry(t) \/ ValidateFails(t) \/ CommitValidated(t)
      BY <1>3
      DEF Running, Call, PrepareBarrier, Prepare, RollbackDrop, RollbackEnd, LoadAgain,
          LoadValue, LoadRestart, LoadReturn, LoadTooNew, Extend, Extended, LoadRecheck,
          StoreAgain, StoreAcquire, StoreCasFails, CommitClock, Install, Drop, CommitEnd,
          IrrevocableValidated, AcquireIrrevocable, Validated, Start, Load, Store,
          CommitReadOnly, Commit, UserAbort, RequestIrrevocable, SetIrrevocable,
          SetIrrevocableFails, Timed
    <2>2. CASE ValidateEntry(t)
      <3>1. pc' = pc /\ loc'[t].for = loc[t].for /\ clock' = clock
        BY <1>0, <2>2 DEF ValidateEntry, TypeInv, TypeOK, Locals
      <3> QED
        BY <1>3, <3>1 DEF MustPrepare, Timed
    <2>3. CASE ValidateFails(t)
      BY <1>0, <2>3 DEF ValidateFails, Rollback, RollbackAs, Goto, MustPrepare, TypeInv, TypeOK
    <2>4. CASE CommitValidated(t)
      BY <1>0, <2>4 DEF CommitValidated, StartInstall, Goto, MustPrepare, TypeInv, TypeOK
    <2> QED
      BY <2>1, <2>2, <2>3, <2>4
  <1> QED
    BY <1>1, <1>2, <1>3 DEF MustPrepare

\* Every step keeps the overshoot within the threads that have spent their attempt.
LEMMA ClockStep == ClockInv /\ [Next]_vars => ClockInv'
  <1> SUFFICES ASSUME ClockInv, [Next]_vars
               PROVE  ClockInv'
    OBVIOUS
  <1>1. LockInv /\ LockInv' /\ TypeInv /\ TypeInv'
    BY TypeStep, LockStep DEF ClockInv, LockInv
  <1>2. clock \in Nat /\ clock' \in Nat /\ VERSION_MAX \in Nat \ {0}
    BY <1>1, StmAssumption DEF TypeInv, TypeOK
  <1>3. /\ IsFiniteSet(Spent) /\ IsFiniteSet(Spent')
        /\ Cardinality(Spent) \in Nat /\ Cardinality(Spent') \in Nat
    <2>1. Spent \subseteq Tx /\ Spent' \subseteq Tx /\ IsFiniteSet(Tx)
      BY StmAssumption DEF Spent
    <2> QED
      BY <2>1, FS_Subset, FS_CardinalityType
  <1>4. CASE UNCHANGED vars
    BY <1>1, <1>4 DEF ClockInv, vars, Spent, MustPrepare, Timed
  <1>5. CASE clock' < VERSION_MAX
    BY <1>1, <1>2, <1>3, <1>5 DEF ClockInv
  <1>6. ASSUME NEW t \in Tx, Running(t) \/ Call(t), clock' >= VERSION_MAX
        PROVE  ClockInv'
    <2>1. \A u \in Tx \ {t} : MustPrepare(u)' = MustPrepare(u)
      BY <1>1, <1>6, StepKinds DEF StepOf, Others, MustPrepare, Timed
    <2>2. CASE CommitClock(t)
      <3>1. ~MustPrepare(t) /\ MustPrepare(t)' /\ clock' = clock + 1
        <4>1. pc[t] = "commit_clock" /\ clock' = clock + 1
          BY <2>2 DEF CommitClock
        <4>2. pc'[t] = "install" \/ (pc'[t] = "validate" /\ loc'[t].for = "commit")
          BY <1>1, <2>2, PublishesEffect DEF Publishes
        <4> QED
          BY <4>1, <4>2 DEF MustPrepare, Timed
      <3>2. t \notin Spent /\ Spent' = Spent \cup {t}
        BY <2>1, <3>1 DEF Spent
      <3>3. Cardinality(Spent') = Cardinality(Spent) + 1
        BY <1>3, <3>2, FS_AddElement
      <3> QED
        BY <1>1, <1>2, <1>3, <3>1, <3>3 DEF ClockInv
    <2>3. CASE Prepare(t)
      BY <1>2, <1>6, <2>3 DEF Prepare, shared
    <2>4. CASE ~CommitClock(t) /\ ~Prepare(t)
      <3>1. clock' = clock
        <4>1. StepOf(t)
          BY <1>1, <1>6, StepKinds
        <4>2. CASE Keeps(t) \/ Forgets(t) \/ Edits(t)
          BY <4>2 DEF Keeps, Forgets, Edits, SameData
        <4>3. CASE StoreAcquire(t) \/ RollbackDrop(t) \/ Install(t) \/ Drop(t)
          BY <4>3, Zenon DEF StoreAcquire, RollbackDrop, Install, Drop
        <4>4. CASE Publishes(t)
          BY <2>4, <4>4 DEF Publishes, CommitValidated, shared
        <4> QED
          BY <4>1, <4>2, <4>3, <4>4 DEF StepOf, Kinds
      <3>2. Spent \subseteq Spent'
        BY <1>1, <1>6, <2>1, <2>4, SpentStep DEF Spent
      <3>3. Cardinality(Spent) <= Cardinality(Spent')
        BY <1>3, <3>2, FS_Subset
      <3> QED
        BY <1>1, <1>2, <1>3, <3>1, <3>3 DEF ClockInv
    <2> QED
      BY <2>2, <2>3, <2>4
  <1>7. CASE Rollover
    <2>1. clock' < VERSION_MAX
      BY <1>2, <1>7 DEF Rollover, RolloverBut
    <2> QED
      BY <1>5, <2>1
  <1>8. clock' < VERSION_MAX \/ clock' >= VERSION_MAX
    BY <1>2
  <1> QED
    BY <1>4, <1>5, <1>6, <1>7, <1>8 DEF Next

\* For any number of threads and any limit: the clock exceeds VERSION_MAX by less
\* than the number of threads, so a version fits the bits that the maximum of
\* threads leaves for the overshoot.
THEOREM ClockIsBounded == Spec => []ClockBound
  <1>1. Init => ClockInv
    <2> SUFFICES ASSUME Init
                 PROVE  ClockInv
      OBVIOUS
    <2>1. IsFiniteSet(Spent)
      BY StmAssumption, FS_Subset DEF Spent
    <2>2. Cardinality(Spent) \in Nat /\ clock = 0 /\ VERSION_MAX \in Nat \ {0}
      BY <2>1, FS_CardinalityType, StmAssumption DEF Init
    <2> QED
      BY <2>2, LockInit DEF ClockInv
  <1>2. ClockInv => ClockBound
    <2> SUFFICES ASSUME ClockInv
                 PROVE  ClockBound
      OBVIOUS
    <2>1. IsFiniteSet(Tx) /\ Spent \subseteq Tx
      BY StmAssumption DEF Spent
    <2>2. /\ Cardinality(Spent) <= Cardinality(Tx)
          /\ Cardinality(Spent) \in Nat /\ Cardinality(Tx) \in Nat
      BY <2>1, FS_Subset, FS_CardinalityType
    <2>3. clock \in Nat /\ VERSION_MAX \in Nat
      BY StmAssumption DEF ClockInv, LockInv, TypeInv, TypeOK
    <2> QED
      BY <2>2, <2>3 DEF ClockInv, ClockBound
  <1> QED
    BY <1>1, <1>2, ClockStep, PTL DEF Spec

=============================================================================
