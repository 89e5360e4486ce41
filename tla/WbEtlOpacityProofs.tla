------------------------- MODULE WbEtlOpacityProofs -------------------------
(***************************************************************************)
(* WbEtl implements OpaqueTm under the mapping of TmRefinement, for every  *)
(* number of threads, addresses and locks.                                 *)
(***************************************************************************)
EXTENDS WbEtlSerialProofs, TmRefinement

\* The default design with the history variable of the mapping.
EtlSpec == Init /\ ReadAtInit /\ [][Next /\ ReadAtNext]_<<vars, readAt>>

-----------------------------------------------------------------------------
(* The inductive invariant *)

\* What committed transactions have read has settled at the time of the read.
ReadAtSettled ==
    /\ readAt \in [Addr -> Nat]
    /\ \A a \in Addr : Settled(a, readAt[a])

\* A timestamp that was taken is used once.
OwnStamp(t) ==
    Timed(t) => /\ \A a \in Addr : \A h \in hist[a] : h.version # loc[t].ts
                /\ \A u \in Tx \ {t} : Timed(u) => loc[u].ts # loc[t].ts

\* One word per lock, and no store with an empty mask: what a transaction loads under
\* a lock of its own is what it has stored.
Plain == /\ \A a, b \in Addr : LOCK_IDX(a) = LOCK_IDX(b) => a = b
         /\ {} \notin Mask

\* Every entry has bytes ...
WellMasked(t) ==
    /\ pc[t] \in {"store", "store_cas"} => loc[t].mask # {}
    /\ \A j \in 1 .. Len(tx[t].w_set) : tx[t].w_set[j].mask # {}

\* ... and what was read from a stripe before it was acquired was in the snapshot.
OwnPast(t) ==
    InAttempt(t) /\ tx[t].irrevocable \in {0, 2} =>
        \A r \in seen[t] : UnderOwnLock(t, r.addr) =>
            \A h \in hist[r.addr] : h.version <= tx[t].end

\* Transactions that were started read-only neither store nor become irrevocable.
ReadOnlyKept == /\ "ro_write" \notin Features
                /\ ~({"read_only", "irrevocable"} \subseteq Features)

OpacityInv ==
    /\ SerialInv
    /\ ReadAtSettled
    /\ \A t \in Tx : OwnStamp(t)
    /\ Plain => \A t \in Tx : WellMasked(t) /\ OwnPast(t)

-----------------------------------------------------------------------------
(* The steps of a thread, as the abstract specification sees them *)

\* Memory under an own lock that has no entry for the address.
BareLoad(t) ==
    /\ InAttempt(t) /\ Runs(t)
    /\ \E a \in Addr :
          /\ UnderOwnLock(t, a)
          /\ \A j \in EntryOf(tx[t].w_set, a) : tx[t].w_set[j].mask = {}
          /\ ReturnLoad(t, a, mem[a], {}, <<>>)

\* An attempt ends without effect.
Leaves(t) == Runs(t) /\ pc'[t] = "rollback" /\ UNCHANGED <<clock, hist>>

\* Nothing that the abstract specification knows of happens.
Internal(t) ==
    /\ Runs(t)' = Runs(t)
    /\ Runs(t) => /\ tx'[t].start = tx[t].start /\ seen'[t] = seen[t]
                  /\ tx[t].irrevocable = 3 => tx'[t].irrevocable = 3
                  /\ tx'[t].end = tx[t].end \/ Extended(t)
                  /\ InAttempt(t) \/ pc[t] = "irr_spin"
    /\ InAttempt(t)' => Runs(t)
    /\ UNCHANGED <<clock, hist>>
    /\ ~WritesBack(t) /\ ~Returns(t)

Edges(t) ==
    \/ Internal(t) \/ Prepare(t) \/ Leaves(t) \/ CommitReadOnly(t)
    \/ Publishes(t) /\ pc'[t] = "install"
    \/ CommitClock(t) /\ pc'[t] = "validate"
    \/ BareLoad(t) \/ LoadReturn(t) \/ LoadRecheck(t)

\* Rollback ends an attempt.
LEMMA RollbackLeaves ==
  ASSUME TypeInv, NEW t \in Tx, NEW r, NEW irr, RollbackAs(t, r, irr), Runs(t)
  PROVE  Leaves(t)
  BY DEF RollbackAs, Goto, Leaves, shared, TypeInv, TypeOK

\* So does one that keeps the mode.
LEMMA PlainRollbackLeaves ==
  ASSUME TypeInv, NEW t \in Tx, NEW r, Rollback(t, r), Runs(t)
  PROVE  Leaves(t)
  BY RollbackLeaves DEF Rollback

\* A step within an attempt that is about lock words or entries.
LEMMA WithinInternal ==
  ASSUME NEW t \in Tx, InAttempt(t), InAttempt(t)', Runs(t), pc'[t] # "undrop",
         tx'[t].start = tx[t].start, tx'[t].end = tx[t].end \/ Extended(t),
         tx[t].irrevocable = 3 => tx'[t].irrevocable = 3,
         seen'[t] = seen[t], clock' = clock, hist' = hist
  PROVE  Internal(t)
  BY DEF Internal, Runs, InAttempt, Outside, Between, WritesBack, Returns

\* A load ...
LEMMA ReadLockEdge ==
  ASSUME TypeInv, NEW t \in Tx, NEW a \in Addr, ReadLock(t, a, lock[LOCK_IDX(a)]), InAttempt(t),
         Runs(t)
  PROVE  Edges(t)
  <1> DEFINE l == lock[LOCK_IDX(a)]
  <1>1. CASE Rollback(t, "RW_CONFLICT")
    BY <1>1, PlainRollbackLeaves DEF Edges
  <1>2. CASE LoadOwn(t, a, l)
    <2>1. CASE \E j \in EntryOf(tx[t].w_set, a) : tx[t].w_set[j].mask # {}
      <3>1. Goto(t, "active") /\ UNCHANGED <<shared, tx, aux>>
        BY <1>2, <2>1 DEF LoadOwn
      <3>2. Internal(t)
        BY <3>1, WithinInternal
        DEF Goto, shared, aux, InAttempt, Outside, Between, TypeInv, TypeOK
      <3> QED
        BY <3>2 DEF Edges
    <2>2. CASE ~(\E j \in EntryOf(tx[t].w_set, a) : tx[t].w_set[j].mask # {})
      <3>1. l.owner = t /\ ReturnLoad(t, a, mem[a], {}, <<>>)
        BY <1>2, <2>2 DEF LoadOwn
      <3>2. BareLoad(t)
        BY <2>2, <3>1 DEF BareLoad, UnderOwnLock
      <3> QED
        BY <3>2 DEF Edges
    <2> QED
      BY <2>1, <2>2
  <1>3. CASE LoadFree(t, a, l) \/ (LoadConflict(t, a, l) /\ ~Rollback(t, "RW_CONFLICT"))
    <2>1. /\ pc'[t] \in {"load", "load_value"}
          /\ UNCHANGED <<shared, tx, aux>>
      BY <1>3 DEF LoadFree, LoadConflict, Goto, TypeInv, TypeOK
    <2>2. Internal(t)
      BY <2>1, WithinInternal DEF shared, aux, InAttempt, Outside, Between
    <2> QED
      BY <2>2 DEF Edges
  <1> QED
    BY <1>1, <1>2, <1>3 DEF ReadLock

\* ... and a store, which keeps the masks.
LEMMA WriteLockEdge ==
  ASSUME TypeInv, NEW t \in Tx, NEW a \in Addr, NEW w \in Word, NEW m \in SUBSET Byte,
         NEW l \in LockWord, WriteLock(t, a, w, m, l), InAttempt(t), Runs(t)
  PROVE  /\ Edges(t)
         /\ WellMasked(t) /\ m # {} => WellMasked(t)'
  <1>0. /\ tx[t] \in TxDesc /\ tx[t].w_set \in Seq(WEntry)
        /\ \A e \in WEntry : e.mask \in SUBSET Byte
    BY DEF TypeInv, TypeOK, TxDesc, WEntry
  <1>1. CASE \/ Rollback(t, "WW_CONFLICT") \/ Rollback(t, "VAL_WRITE")
             \/ Rollback(t, "EXTEND_WS")
    <2>1. Edges(t)
      BY <1>1, PlainRollbackLeaves DEF Edges
    <2>2. pc'[t] = "rollback" /\ tx'[t].w_set = tx[t].w_set
      BY <1>1 DEF Rollback, RollbackAs, Goto, TypeInv, TypeOK, TxDesc
    <2> QED
      BY <2>1, <2>2 DEF WellMasked
  <1>2. CASE ~(\/ Rollback(t, "WW_CONFLICT") \/ Rollback(t, "VAL_WRITE")
               \/ Rollback(t, "EXTEND_WS"))
    <2>1. CASE StoreOwn(t, a, w, m, l)
      <3> DEFINE ws == tx[t].w_set
      <3>1. Goto(t, "active") /\ UNCHANGED <<shared, aux>>
        BY <1>2, <2>1 DEF StoreOwn
      <3>2. \/ tx' = tx
            \/ tx' = [tx EXCEPT ![t].w_set =
                         [j \in 1 .. Len(ws) |-> IF j \in EntryOf(ws, a)
                                                 THEN UpdateEntry(ws[j], a, w, m) ELSE ws[j]]]
            \/ \E v : tx' = [tx EXCEPT ![t].w_set = Append(@, AddEntry(a, w, m, v))]
        BY <1>2, <2>1 DEF StoreOwn
      <3>3. tx' = tx \/ \E nw : tx' = [tx EXCEPT ![t].w_set = nw]
        BY <3>2
      <3>4. /\ tx'[t].start = tx[t].start /\ tx'[t].end = tx[t].end
            /\ tx'[t].irrevocable = tx[t].irrevocable
        BY <3>3 DEF TypeInv, TypeOK, TxDesc
      <3>5. pc'[t] = "active"
        BY <3>1 DEF Goto, TypeInv, TypeOK
      <3>6. Internal(t)
        BY <3>1, <3>4, <3>5, WithinInternal DEF shared, aux, InAttempt, Outside, Between
      <3>7. ASSUME WellMasked(t), m # {}
            PROVE  WellMasked(t)'
        <4>1. CASE tx' = tx
          BY <3>5, <3>7, <4>1 DEF WellMasked
        <4>2. CASE tx' = [tx EXCEPT ![t].w_set =
                         [j \in 1 .. Len(ws) |-> IF j \in EntryOf(ws, a)
                                                 THEN UpdateEntry(ws[j], a, w, m) ELSE ws[j]]]
          <5>1. tx'[t].w_set = [j \in 1 .. Len(ws) |-> IF j \in EntryOf(ws, a)
                                                 THEN UpdateEntry(ws[j], a, w, m) ELSE ws[j]]
            BY <1>0, <4>2 DEF TypeInv, TypeOK, TxDesc
          <5>2. \A j \in 1 .. Len(ws) : UpdateEntry(ws[j], a, w, m).mask = ws[j].mask \cup m
            <6>1. \A j \in 1 .. Len(ws) : ws[j] \in WEntry
              BY <1>0
            <6> QED
              BY <6>1 DEF UpdateEntry, WEntry
          <5>3. Len(tx'[t].w_set) = Len(ws)
            BY <1>0, <5>1
          <5> QED
            BY <3>5, <3>7, <5>1, <5>2, <5>3 DEF WellMasked
        <4>3. CASE \E v : tx' = [tx EXCEPT ![t].w_set = Append(@, AddEntry(a, w, m, v))]
          <5>1. PICK v : tx' = [tx EXCEPT ![t].w_set = Append(@, AddEntry(a, w, m, v))]
            BY <4>3
          <5>2. tx'[t].w_set = Append(ws, AddEntry(a, w, m, v))
            BY <1>0, <5>1 DEF TypeInv, TypeOK, TxDesc
          <5>3. AddEntry(a, w, m, v).mask = m
            BY DEF AddEntry
          <5>4. \A j \in 1 .. Len(tx'[t].w_set) : tx'[t].w_set[j].mask # {}
            BY <1>0, <3>7, <5>2, <5>3 DEF WellMasked
          <5> QED
            BY <3>5, <5>4 DEF WellMasked
        <4> QED
          BY <3>2, <4>1, <4>2, <4>3
      <3> QED
        BY <3>6, <3>7 DEF Edges
    <2>2. CASE StoreConflict(t, a, w, m, l) \/ StoreFree(t, a, w, m, l)
      <3>1. /\ pc'[t] \in {"store", "store_cas"} /\ loc'[t].mask = m
            /\ UNCHANGED <<shared, tx, aux>>
        <4>1. CASE StoreConflict(t, a, w, m, l)
          <5>1. /\ Goto(t, "store") /\ UNCHANGED <<shared, tx, aux>>
                /\ loc' = [loc EXCEPT ![t] = [NoLoc EXCEPT !.addr = a, !.value = w, !.mask = m]]
            BY <1>2, <4>1 DEF StoreConflict
          <5> QED
            BY <5>1 DEF Goto, TypeInv, TypeOK, NoLoc
        <4>2. CASE StoreFree(t, a, w, m, l)
          BY <1>2, <4>2, ZenonT(60) DEF StoreFree, Goto, TypeInv, TypeOK, NoLoc
        <4> QED
          BY <2>2, <4>1, <4>2
      <3>2. Internal(t)
        BY <3>1, WithinInternal DEF shared, aux, InAttempt, Outside, Between
      <3> QED
        BY <3>1, <3>2 DEF Edges, WellMasked
    <2> QED
      BY <2>1, <2>2 DEF WriteLock
  <1> QED
    BY <1>1, <1>2

\* Loads keep the entries, and lead to no store.
LEMMA ReadLockEntries ==
  ASSUME TypeInv, NEW t \in Tx, NEW a \in Addr, NEW l, ReadLock(t, a, l), WellMasked(t)
  PROVE  WellMasked(t)'
  <1>1. tx'[t].w_set = tx[t].w_set /\ pc'[t] \in {"active", "load", "load_value", "rollback"}
    <2>1. CASE Rollback(t, "RW_CONFLICT")
      BY <2>1 DEF Rollback, RollbackAs, Goto, TypeInv, TypeOK, TxDesc
    <2>2. CASE ReturnLoad(t, a, mem[a], {}, <<>>)
      BY <2>2 DEF ReturnLoad, Goto, TypeInv, TypeOK, TxDesc
    <2>3. CASE ~Rollback(t, "RW_CONFLICT") /\ ~ReturnLoad(t, a, mem[a], {}, <<>>)
      BY <2>3 DEF ReadLock, LoadOwn, LoadConflict, LoadFree, Goto, TypeInv, TypeOK
    <2> QED
      BY <2>1, <2>2, <2>3
  <1> QED
    BY <1>1 DEF WellMasked

\* Every step of a thread is one of the edges, and keeps the masks.
LEMMA StepEdges ==
  ASSUME LockInv, NEW t \in Tx, Unread(t), Stage(t), Running(t) \/ Call(t)
  PROVE  /\ Edges(t)
         /\ WellMasked(t) /\ {} \notin Mask => WellMasked(t)'
  <1> USE DEF shared, aux
  <1>0. TypeInv /\ loc[t] \in Locals /\ tx[t] \in TxDesc /\ tx[t].w_set \in Seq(WEntry)
    BY DEF LockInv, TypeInv, TypeOK, TxDesc
  <1>1. ASSUME tx'[t].w_set \in {tx[t].w_set, <<>>}, pc'[t] \notin {"store", "store_cas"},
               WellMasked(t)
        PROVE  WellMasked(t)'
    BY <1>1 DEF WellMasked
  <1>2. CASE \/ ValidateFails(t) \/ UserAbort(t) \/ SetIrrevocableFails(t)
             \/ LoadTooNew(t) /\ Rollback(t, "VAL_READ")
             \/ Commit(t) /\ Rollback(t, "IRREVOCABLE")
    <2>1. Runs(t) /\ \E r, irr : RollbackAs(t, r, irr)
      BY <1>2 DEF ValidateFails, UserAbort, SetIrrevocableFails, LoadTooNew, Commit, Rollback, Runs
    <2>2. PICK r, irr : RollbackAs(t, r, irr)
      BY <2>1
    <2>3. pc'[t] = "rollback" /\ tx'[t].w_set = tx[t].w_set
      BY <1>0, <2>2 DEF RollbackAs, Goto, TypeInv, TypeOK, TxDesc
    <2> QED
      BY <1>0, <1>1, <2>1, <2>2, <2>3, RollbackLeaves DEF Edges
  <1>3. CASE Load(t) \/ LoadAgain(t) \/ LoadRestart(t)
    <2>1. InAttempt(t) /\ Runs(t)
      BY <1>3 DEF Load, LoadAgain, LoadRestart, InAttempt, Outside, Between, Runs
    <2>2. \E a \in Addr : ReadLock(t, a, lock[LOCK_IDX(a)])
      BY <1>0, <1>3 DEF Load, LoadAgain, LoadRestart, Locals
    <2> QED
      BY <1>0, <2>1, <2>2, ReadLockEdge, ReadLockEntries
  <1>4. CASE Store(t) \/ StoreAgain(t)
    <2>1. InAttempt(t) /\ Runs(t)
      BY <1>4 DEF Store, StoreAgain, InAttempt, Outside, Between, Runs
    <2>2. \A w \in Stores[t], m \in Mask : w \in Word /\ m \in SUBSET Byte
      BY StmAssumption
    <2>3. \A a \in Addr : lock[LOCK_IDX(a)] \in LockWord
      BY <1>0, LockIdxType DEF TypeInv, TypeOK
    <2>4. \E a \in Addr, w \in Word, m \in SUBSET Byte :
             /\ WriteLock(t, a, w, m, lock[LOCK_IDX(a)])
             /\ WellMasked(t) /\ {} \notin Mask => m # {}
      BY <1>0, <1>4, <2>2 DEF Store, StoreAgain, Locals, WellMasked
    <2> QED
      BY <1>0, <2>1, <2>3, <2>4, WriteLockEdge
  <1>5. CASE LoadReturn(t) \/ LoadRecheck(t)
    <2>1. pc'[t] = "active" /\ tx'[t].w_set = tx[t].w_set
      BY <1>0, <1>5 DEF LoadReturn, LoadRecheck, ReturnLoad, Goto, TypeInv, TypeOK, TxDesc
    <2> QED
      BY <1>1, <1>5, <2>1 DEF Edges
  <1>6. CASE \/ LoadValue(t) \/ Extend(t) \/ ValidateEntry(t) \/ SetIrrevocable(t)
             \/ IrrevocableValidated(t)
             \/ LoadTooNew(t) /\ ~Rollback(t, "VAL_READ")
             \/ Commit(t) /\ ~Rollback(t, "IRREVOCABLE")
    <2>1. /\ pc[t] \in {"load_value", "extend", "validate", "active", "load_relock"}
          /\ pc'[t] \in {"load_relock", "validate", "active", "extend", "commit_clock"}
          /\ tx'[t].start = tx[t].start /\ tx'[t].end = tx[t].end
          /\ tx'[t].w_set = tx[t].w_set
          /\ tx[t].irrevocable = 3 => tx'[t].irrevocable = 3
          /\ seen' = seen /\ clock' = clock /\ hist' = hist
      <3>1. CASE LoadValue(t) \/ Extend(t)
        BY <1>0, <3>1 DEF LoadValue, Extend, StartValidate, Goto, TypeInv, TypeOK
      <3>2. CASE ValidateEntry(t)
        BY <1>0, <3>2 DEF ValidateEntry
      <3>3. CASE SetIrrevocable(t) \/ IrrevocableValidated(t)
        BY <1>0, <3>3
        DEF SetIrrevocable, IrrevocableValidated, Validated, StartValidate, Goto, TypeInv, TypeOK,
            TxDesc
      <3>4. CASE \/ LoadTooNew(t) /\ ~Rollback(t, "VAL_READ")
                 \/ Commit(t) /\ ~Rollback(t, "IRREVOCABLE")
        BY <1>0, <3>4 DEF LoadTooNew, Commit, Goto, TypeInv, TypeOK
      <3> QED
        BY <1>6, <3>1, <3>2, <3>3, <3>4
    <2>2. Internal(t)
      BY <2>1, WithinInternal DEF InAttempt, Outside, Between, Runs
    <2> QED
      BY <1>1, <2>1, <2>2 DEF Edges
  <1>7. CASE Extended(t)
    <2>1. /\ pc[t] = "validate" /\ pc'[t] = "load_recheck"
          /\ tx'[t].start = tx[t].start /\ tx'[t].w_set = tx[t].w_set
          /\ tx'[t].irrevocable = tx[t].irrevocable
          /\ seen' = seen /\ clock' = clock /\ hist' = hist
      BY <1>0, <1>7 DEF Extended, Validated, Goto, TypeInv, TypeOK, TxDesc
    <2>2. Internal(t)
      BY <1>7, <2>1, WithinInternal DEF InAttempt, Outside, Between, Runs
    <2> QED
      BY <1>1, <2>1, <2>2 DEF Edges
  <1>8. CASE StoreAcquire(t)
    <2> DEFINE e == AddEntry(loc[t].addr, loc[t].value, loc[t].mask, loc[t].l.version)
    <2>1. /\ pc[t] = "store_cas" /\ pc'[t] = "active"
          /\ tx'[t].start = tx[t].start /\ tx'[t].end = tx[t].end
          /\ tx'[t].irrevocable = tx[t].irrevocable
          /\ tx'[t].w_set = Append(tx[t].w_set, e)
          /\ seen' = seen /\ clock' = clock /\ hist' = hist
      BY <1>0, <1>8 DEF StoreAcquire, Goto, TypeInv, TypeOK, TxDesc
    <2>2. Internal(t)
      BY <2>1, WithinInternal DEF InAttempt, Outside, Between, Runs
    <2>3. e.mask = loc[t].mask
      BY DEF AddEntry
    <2>4. ASSUME WellMasked(t)
          PROVE  \A j \in 1 .. Len(tx'[t].w_set) : tx'[t].w_set[j].mask # {}
      <3>1. e.mask # {}
        BY <2>1, <2>3, <2>4 DEF WellMasked
      <3>2. \A j \in 1 .. Len(tx[t].w_set) : tx[t].w_set[j].mask # {}
        BY <2>4 DEF WellMasked
      <3> HIDE DEF e
      <3> QED
        BY <1>0, <2>1, <3>1, <3>2
    <2>5. WellMasked(t) => WellMasked(t)'
      BY <2>1, <2>4 DEF WellMasked
    <2> QED
      BY <2>2, <2>5 DEF Edges
  <1>9. CASE StoreCasFails(t)
    <2>1. /\ pc[t] = "store_cas" /\ pc'[t] = "store" /\ loc'[t].mask = loc[t].mask
          /\ tx' = tx /\ seen' = seen /\ clock' = clock /\ hist' = hist
      BY <1>0, <1>9 DEF StoreCasFails, Goto, TypeInv, TypeOK, Locals
    <2>2. Internal(t)
      BY <2>1, WithinInternal DEF InAttempt, Outside, Between, Runs
    <2> QED
      BY <2>1, <2>2 DEF Edges, WellMasked
  <1>10. CASE CommitClock(t) \/ CommitValidated(t)
    <2>1. Publishes(t)
      BY <1>10 DEF Publishes
    <2>2. pc'[t] \in {"install", "validate"} /\ tx' = tx
      BY <1>0, <2>1, PublishesEffect
    <2>3. pc'[t] = "validate" => CommitClock(t)
      BY <1>0, <1>10 DEF CommitValidated, StartInstall, Goto, TypeInv, TypeOK
    <2> QED
      BY <1>1, <2>1, <2>2, <2>3 DEF Edges
  <1>11. CASE Install(t) \/ Drop(t) \/ RollbackDrop(t) \/ PrepareBarrier(t) \/ Start(t)
              \/ RequestIrrevocable(t)
    <2>1. /\ pc[t] \in {"install", "drop", "rollback", "prepare", "idle"}
          /\ pc'[t] \in {"install", "drop", "rollback", "barrier", "prepare", "idle"}
          /\ pc'[t] \in {"install", "drop"} => pc[t] \in {"install", "drop"}
          /\ tx'[t].w_set = tx[t].w_set /\ clock' = clock /\ hist' = hist
      <3>1. CASE Install(t) \/ Drop(t) \/ RollbackDrop(t)
        BY <1>0, <3>1, Zenon DEF Install, Drop, RollbackDrop, Goto, TypeInv, TypeOK
      <3>2. CASE PrepareBarrier(t) \/ RequestIrrevocable(t)
        BY <1>0, <3>2 DEF PrepareBarrier, RequestIrrevocable, Goto, TypeInv, TypeOK, TxDesc
      <3>3. CASE Start(t)
        <4>1. PICK ro, ne \in BOOLEAN :
                 tx' = [tx EXCEPT ![t].read_only = ro, ![t].no_extend = ne]
          BY <3>3 DEF Start
        <4> QED
          BY <1>0, <3>3, <4>1 DEF Start, Goto, TypeInv, TypeOK, TxDesc
      <3> QED
        BY <1>11, <3>1, <3>2, <3>3
    <2>2. Internal(t)
      BY <2>1 DEF Internal, Runs, WritesBack, Returns, InAttempt, Outside, Between
    <2> QED
      BY <1>1, <2>1, <2>2 DEF Edges
  <1>12. CASE RollbackEnd(t) \/ CommitEnd(t)
    <2>1. /\ pc[t] \in {"install", "rollback"} /\ pc'[t] \in {"prepare", "idle"}
          /\ tx'[t].w_set = <<>> /\ clock' = clock /\ hist' = hist
      BY <1>0, <1>12 DEF RollbackEnd, CommitEnd, Committed, Goto, TypeInv, TypeOK, TxDesc
    <2>2. Internal(t)
      BY <2>1 DEF Internal, Runs, WritesBack, Returns, InAttempt, Outside, Between
    <2> QED
      BY <1>1, <2>1, <2>2 DEF Edges
  <1>13. CASE Prepare(t) \/ CommitReadOnly(t)
    <2>1. pc'[t] \in {"irr_spin", "active", "idle"} /\ tx'[t].w_set \in {tx[t].w_set, <<>>}
      BY <1>0, <1>13 DEF Prepare, CommitReadOnly, Committed, Goto, TypeInv, TypeOK, TxDesc
    <2> QED
      BY <1>1, <1>13, <2>1 DEF Edges
  <1>14. CASE AcquireIrrevocable(t)
    <2>1. /\ pc[t] = "irr_spin" /\ pc'[t] = "active"
          /\ tx'[t].start = tx[t].start /\ tx'[t].end = tx[t].end
          /\ tx'[t].w_set = tx[t].w_set /\ tx'[t].irrevocable = 3
          /\ seen' = seen /\ clock' = clock /\ hist' = hist
      BY <1>0, <1>14 DEF AcquireIrrevocable, Goto, TypeInv, TypeOK, TxDesc
    <2>2. Internal(t)
      BY <2>1 DEF Internal, Runs, WritesBack, Returns, InAttempt, Outside, Between
    <2> QED
      BY <1>1, <2>1, <2>2 DEF Edges
  <1>15. CASE Running(t)
    BY <1>2, <1>3, <1>4, <1>5, <1>6, <1>7, <1>8, <1>9, <1>10, <1>11, <1>12, <1>13, <1>14, <1>15
    DEF Running
  <1>16. CASE Call(t)
    BY <1>2, <1>3, <1>4, <1>6, <1>11, <1>13, <1>16 DEF Call
  <1> QED
    BY <1>15, <1>16

-----------------------------------------------------------------------------
(* The parts of the invariant *)

\* A timestamp in use is in the past.
LEMMA StampPast ==
  ASSUME MemInv, NEW u \in Tx, Timed(u)
  PROVE  loc[u].ts \in Nat /\ loc[u].ts <= clock
  BY DEF MemInv, LockInv, TypeInv, TypeOK, Locals, Entries, Dated

\* No step uses a timestamp that another thread has taken.
LEMMA OwnStampStep ==
  ASSUME MemInv, NEW t \in Tx, StepOf(t), \A u \in Tx : OwnStamp(u), NEW u \in Tx
  PROVE  OwnStamp(u)'
  <1>0. LockInv /\ TypeInv /\ clock \in Nat /\ (\A x \in Tx : loc[x].ts \in Nat)
    BY DEF MemInv, LockInv, TypeInv, TypeOK, Locals
  <1>1. \A x \in Tx \ {t} : /\ loc'[x].ts = loc[x].ts
                            /\ Timed(x)' <=> Timed(x)
    BY DEF StepOf, Others, Timed
  <1>2. Timed(t)' => \/ Timed(t) /\ loc'[t].ts = loc[t].ts
                     \/ loc'[t].ts = clock + 1
    BY <1>0, TimedStep
  <1>3. Timed(t)' => hist' = hist
    BY <1>0, HistoryStep DEF Timed
  <1>4. \A x \in Tx : Timed(x) => loc[x].ts # clock + 1
    BY <1>0, StampPast
  <1>5. CASE u = t
    <2>1. \A a \in Addr : \A h \in hist[a] : h.version # clock + 1
      <3>1. ASSUME NEW a \in Addr, NEW h \in hist[a]
            PROVE  h.version # clock + 1
        <4>1. h.version \in Nat /\ h.version <= clock
          BY HistoryPast
        <4> QED
          BY <1>0, <4>1
      <3> QED
        BY <3>1
    <2> QED
      BY <1>1, <1>2, <1>3, <1>4, <1>5, <2>1 DEF OwnStamp
  <1>6. CASE u # t
    <2>1. SUFFICES ASSUME Timed(u)
                   PROVE  OwnStamp(u)'
      BY <1>1, <1>6 DEF OwnStamp
    <2>2. ASSUME NEW a \in Addr, NEW h \in hist'[a]
          PROVE  h.version # loc[u].ts
      <3>1. CASE h \in hist[a]
        BY <2>1, <3>1 DEF OwnStamp
      <3>2. CASE h \notin hist[a]
        <4>1. Publishes(t) /\ pc'[t] = "install"
          BY <1>0, <2>2, <3>2, HistoryStep
        <4>2. hist' = Publish(tx[t].w_set, CommitTime(t)) /\ (pc[t] = "commit_clock" \/ Timed(t))
          BY <1>0, <4>1, PublishesEffect
        <4>3. h.version = CommitTime(t)
          BY <2>2, <3>2, <4>2 DEF Publish
        <4>4. CommitTime(t) # loc[u].ts
          BY <1>4, <1>6, <2>1, <4>2 DEF CommitTime, OwnStamp, Timed
        <4> QED
          BY <4>3, <4>4
      <3> QED
        BY <3>1, <3>2
    <2>3. \A x \in Tx \ {u} : Timed(x)' => loc'[x].ts # loc[u].ts
      BY <1>1, <1>2, <1>4, <1>6, <2>1 DEF OwnStamp
    <2> QED
      BY <1>1, <1>6, <2>2, <2>3 DEF OwnStamp
  <1> QED
    BY <1>5, <1>6

\* The time at which the reads of an attempt are valid.
ViewTime(t) == IF tx[t].irrevocable = 3 THEN clock ELSE tx[t].end

Views ==
    ReadOnlyKept => \A t \in Tx : InAttempt(t) =>
        /\ tx[t].start \in Nat /\ ViewTime(t) \in Nat
        /\ tx[t].start <= ViewTime(t) /\ ViewTime(t) <= clock
        /\ \A r \in seen[t] :
              Plain \/ ~UnderOwnLock(t, r.addr) => GoodRead(r, ViewTime(t))

\* A thread that has stored nothing owns no lock.
LEMMA NothingOwned ==
  ASSUME LockInv, NEW t \in Tx, tx[t].w_set = <<>>, pc[t] \notin Loops, NEW a \in Addr
  PROVE  ~UnderOwnLock(t, a)
  <1>1. Held(t) = {} /\ LOCK_IDX(a) \in Stripe
    BY LockIdxType DEF Held, Undropped, Loops
  <1> QED
    BY <1>1 DEF LockInv, LockOwner, UnderOwnLock

\* What an attempt has loaded holds together at that time.
LEMMA ViewsHold == OpacityInv => Views
  <1> SUFFICES ASSUME OpacityInv, ReadOnlyKept, NEW t \in Tx, InAttempt(t)
               PROVE  /\ tx[t].start \in Nat /\ ViewTime(t) \in Nat
                      /\ tx[t].start <= ViewTime(t) /\ ViewTime(t) <= clock
                      /\ \A r \in seen[t] :
                            Plain \/ ~UnderOwnLock(t, r.addr) => GoodRead(r, ViewTime(t))
    BY DEF Views
  <1>0. /\ SerialInv /\ MemInv /\ LockInv /\ Stage(t) /\ Private(t) /\ clock \in Nat
        /\ tx[t].start \in Nat /\ tx[t].end \in Nat /\ tx[t].irrevocable \in 0 .. 3
        /\ loc[t].ts \in Nat
        /\ \A r \in seen[t] : r.addr \in Addr
    BY DEF OpacityInv, SerialInv, StageInv, MemInv, LockInv, TypeInv, TypeOK, TxDesc, SeenEntry,
           Locals
  <1>1. /\ tx[t].start <= tx[t].end /\ tx[t].end <= clock
        /\ Timed(t) => tx[t].end < loc[t].ts
    BY <1>0 DEF Private, Bounds
  <1>2. tx[t].irrevocable \in {0, 2, 3}
    BY <1>0 DEF Stage, IrrStage, InAttempt
  <1>3. ASSUME NEW r \in seen[t], Plain \/ ~UnderOwnLock(t, r.addr)
        PROVE  GoodRead(r, ViewTime(t))
    <2>1. CASE tx[t].irrevocable = 3
      <3>1. ~LateIrrevocable(t)
        BY <1>0 DEF Stage, ReadOnlyStage, LateIrrevocable, ReadOnlyKept
      <3>2. Frozen(t, r)
        BY <1>0, <2>1, <3>1 DEF Private, Stable
      <3>3. Snapshot(r.addr, clock) = Latest(r.addr)
        BY <1>0, HistoryPast, LatestAt
      <3>4. ~Timed(t)
        BY <1>0, <2>1 DEF Stage, IrrStage
      <3>5. Settled(r.addr, clock)
        BY <1>0, <3>2, <3>4 DEF Settled, Frozen, NoWriter, Writer
      <3> QED
        BY <2>1, <3>2, <3>3, <3>5 DEF GoodRead, Frozen, ViewTime
    <2>2. CASE tx[t].irrevocable # 3 /\ ~UnderOwnLock(t, r.addr)
      BY <1>0, <1>2, <2>2 DEF Private, InSnapshot, ViewTime
    <2>3. CASE tx[t].irrevocable # 3 /\ UnderOwnLock(t, r.addr)
      <3>1. ~tx[t].read_only
        <4>1. tx[t].w_set # <<>> \/ pc[t] \in Loops
          BY <1>0, <2>3, NothingOwned
        <4>2. pc[t] \notin Loops
          BY DEF InAttempt, Outside, Loops
        <4> QED
          BY <1>0, <4>1, <4>2 DEF Stage, ReadOnlyStage, ReadOnlyKept
      <3>2. Matches(r, Latest(r.addr))
        BY <1>0, <2>3, <3>1 DEF Private, OwnLatest
      <3>3. Plain /\ OwnPast(t)
        BY <1>3, <2>3 DEF OpacityInv
      <3>4. \A h \in hist[r.addr] : h.version <= tx[t].end
        BY <1>2, <2>3, <3>3 DEF OwnPast
      <3>5. Snapshot(r.addr, tx[t].end) = Latest(r.addr)
        BY <1>0, <3>4, LatestAt
      <3>6. Settled(r.addr, tx[t].end)
        BY <1>1, <2>3 DEF Settled, UnderOwnLock
      <3> QED
        BY <2>3, <3>2, <3>5, <3>6 DEF GoodRead, ViewTime
    <2> QED
      BY <2>1, <2>2, <2>3
  <1> QED
    BY <1>0, <1>1, <1>3 DEF ViewTime

\* So it does after a step.
LEMMA ViewsHoldNext == OpacityInv' => Views'
  BY ViewsHold, PTL

\* Other threads' stripes do not change.
LEMMA OthersPast ==
  ASSUME LockInv, TypeInv', NEW t \in Tx, StepOf(t), NEW u \in Tx \ {t}, OwnPast(u)
  PROVE  OwnPast(u)'
  <1>1. /\ tx'[u] = tx[u] /\ pc'[u] = pc[u] /\ seen'[u] = seen[u]
        /\ InAttempt(u)' <=> InAttempt(u)
    BY DEF StepOf, Others, InAttempt
  <1>2. \A r \in seen[u] : r.addr \in Addr
    BY DEF LockInv, TypeInv, TypeOK, SeenEntry
  <1>3. ASSUME NEW a \in Addr, UnderOwnLock(u, a)'
        PROVE  UnderOwnLock(u, a) /\ hist'[a] = hist[a]
    <2>1. LOCK_IDX(a) \in Stripe
      BY LockIdxType
    <2>2. UnderOwnLock(u, a)
      BY <1>3, <2>1, OwnerFrame DEF UnderOwnLock
    <2>3. LOCK_IDX(a) \notin Held(t)
      BY <2>1, <2>2, HeldApart DEF UnderOwnLock
    <2> QED
      BY <2>2, <2>3, Elsewhere
  <1> QED
    BY <1>1, <1>2, <1>3 DEF OwnPast

\* With one word per lock and no empty masks, an own lock comes with an own value.
LEMMA NoBareLoad ==
  ASSUME LockInv, Plain, NEW t \in Tx, WellMasked(t)
  PROVE  ~BareLoad(t)
  <1> SUFFICES ASSUME NEW a \in Addr, UnderOwnLock(t, a),
                      \A j \in EntryOf(tx[t].w_set, a) : tx[t].w_set[j].mask = {}
               PROVE  FALSE
    BY DEF BareLoad
  <1>1. LOCK_IDX(a) \in Stripe /\ lock[LOCK_IDX(a)].owner = t
    BY LockIdxType DEF UnderOwnLock
  <1>2. PICK j \in Remaining(t) : /\ LOCK_IDX(tx[t].w_set[j].addr) = LOCK_IDX(a)
                                  /\ j \in 1 .. Len(tx[t].w_set)
    BY <1>1, OwnerEntry
  <1>3. tx[t].w_set[j] \in WEntry
    BY <1>2, EntryType DEF LockInv
  <1>4. tx[t].w_set[j].addr \in Addr
    BY <1>3 DEF WEntry
  <1>5. j \in EntryOf(tx[t].w_set, a)
    BY <1>2, <1>4 DEF Plain, EntryOf
  <1> QED
    BY <1>2, <1>5 DEF WellMasked

\* A stripe that t acquires has not changed since t has read from it.
LEMMA AcquiredPast ==
  ASSUME OpacityInv, ReadOnlyKept, NEW t \in Tx, NEW r \in seen[t], TakenBy(t, LOCK_IDX(r.addr)),
         tx[t].irrevocable \in {0, 2}
  PROVE  \A h \in hist[r.addr] : h.version <= tx[t].end
  <1> DEFINE s == LOCK_IDX(r.addr)
  <1>0. /\ MemInv /\ Stage(t) /\ Private(t) /\ NoTx \notin Tx
        /\ r.addr \in Addr /\ tx[t].end \in Nat /\ s \in Stripe
        /\ \A h \in hist[r.addr] : h.version \in Nat
        /\ lock[s].version \in Nat
    <2>1. MemInv /\ Stage(t) /\ Private(t) /\ TypeOK /\ NoTx \notin Tx
      BY StmAssumption DEF OpacityInv, SerialInv, StageInv, MemInv, LockInv, TypeInv
    <2>2. r.addr \in Addr /\ s \in Stripe
      BY <2>1, LockIdxType DEF TypeOK, SeenEntry
    <2> QED
      BY <2>1, <2>2 DEF TypeOK, TxDesc, LockWord
  <1>1. /\ pc[t] = "store_cas" /\ LOCK_IDX(loc[t].addr) = s
        /\ lock[s].owner = NoTx /\ lock[s] = loc[t].l
    BY DEF TakenBy, StoreAcquire
  <1>2. InAttempt(t) /\ tx[t].irrevocable = 0 /\ ~tx[t].read_only /\ ~UnderOwnLock(t, r.addr)
    BY <1>0, <1>1
    DEF InAttempt, Outside, Between, Stage, IrrStage, ReadOnlyStage, ReadOnlyKept, ValidatesFor,
        UnderOwnLock
  <1>3. HasRead(tx[t].r_set, s)
    BY <1>0, <1>2 DEF Private, InSnapshot, Logged
  <1>4. lock[s].version <= tx[t].end
    BY <1>0, <1>1, <1>2, <1>3 DEF Private, Acquires
  <1>5. \A h \in hist[r.addr] : h.version <= lock[s].version
    BY <1>0, <1>1 DEF MemInv, FreeClean, Clean
  <1> QED
    BY <1>0, <1>4, <1>5

\* An own step keeps OwnPast ...
LEMMA InternalPast ==
  ASSUME OpacityInv, MemInv', ReadOnlyKept, NEW t \in Tx, StepOf(t), OwnPast(t),
         InAttempt(t) \/ seen[t] = {}, seen'[t] = seen[t], hist' = hist,
         tx[t].irrevocable = 3 => tx'[t].irrevocable = 3,
         tx'[t].end = tx[t].end \/ Extended(t)
  PROVE  OwnPast(t)'
  <1>0. /\ MemInv /\ LockInv /\ TypeInv' /\ Stage(t) /\ Private(t) /\ NoTx \notin Tx
        /\ tx[t] \in TxDesc /\ tx'[t] \in TxDesc /\ loc[t].now \in Nat
        /\ \A r \in seen[t] : r.addr \in Addr
    BY StmAssumption
    DEF OpacityInv, SerialInv, StageInv, MemInv, LockInv, TypeInv, TypeOK, SeenEntry, Locals
  <1>1. SUFFICES ASSUME tx'[t].irrevocable \in {0, 2}, NEW r \in seen[t], UnderOwnLock(t, r.addr)',
                        NEW h \in hist[r.addr]
                 PROVE  h.version <= tx'[t].end
    BY DEF OwnPast
  <1>2. InAttempt(t) /\ tx[t].irrevocable \in {0, 2}
    BY <1>0, <1>1, SMTT(40) DEF TxDesc, Stage, IrrStage, InAttempt
  <1>3. h.version <= tx[t].end
    <2>1. LOCK_IDX(r.addr) \in Stripe
      BY <1>0, LockIdxType
    <2>2. CASE UnderOwnLock(t, r.addr)
      BY <1>1, <1>2, <2>2 DEF OwnPast
    <2>3. CASE TakenBy(t, LOCK_IDX(r.addr))
      BY <1>2, <2>3, AcquiredPast
    <2> DEFINE s == LOCK_IDX(r.addr)
    <2>4. Spared(t, s) \/ KeptBy(t, s) \/ FreedBy(t, s) \/ TakenBy(t, s)
      BY <1>0, <2>1, StripeSteps
    <2>5. lock'[s].owner = t
      BY <1>1 DEF UnderOwnLock
    <2>6. ~FreedBy(t, s)
      BY <1>0, <2>5 DEF FreedBy, Timestamp
    <2>7. Spared(t, s) \/ KeptBy(t, s) => UnderOwnLock(t, r.addr)
      BY <2>5 DEF Spared, KeptBy, UnderOwnLock
    <2> QED
      BY <2>2, <2>3, <2>4, <2>6, <2>7
  <1>4. tx[t].end \in Nat /\ tx'[t].end \in Nat /\ tx[t].end <= tx'[t].end
    <2>1. CASE Extended(t)
      <3>1. tx'[t].end = loc[t].now /\ ValidatesFor(t, "extend")
        BY <1>0, <2>1
        DEF Extended, Validated, ValidatesFor, MemInv, LockInv, TypeInv, TypeOK, TxDesc
      <3> QED
        BY <1>0, <1>2, <3>1 DEF Private, Bounds, TxDesc
    <2>2. CASE tx'[t].end = tx[t].end
      BY <1>0, <2>2 DEF TxDesc
    <2> QED
      BY <2>1, <2>2
  <1>5. h.version \in Nat
    BY <1>0 DEF MemInv, LockInv, TypeInv, TypeOK
  <1> QED
    BY <1>3, <1>4, <1>5

\* ... and so does a load from memory, which is of a free stripe.
LEMMA LoadPast ==
  ASSUME OpacityInv, NEW t \in Tx, OwnPast(t), LoadReturn(t) \/ LoadRecheck(t)
  PROVE  OwnPast(t)'
  <1>0. /\ TypeInv /\ Private(t) /\ NoTx \notin Tx /\ tx[t] \in TxDesc
    BY StmAssumption DEF OpacityInv, SerialInv, MemInv, LockInv, TypeInv, TypeOK
  <1> DEFINE r == [addr |-> loc[t].addr, value |-> loc[t].value, own |-> {}]
  <1>1. /\ seen'[t] = seen[t] \cup {r} /\ lock' = lock /\ hist' = hist
        /\ tx'[t].end = tx[t].end /\ tx'[t].irrevocable = tx[t].irrevocable
        /\ pc[t] \in {"load_relock", "load_recheck"}
        /\ lock[LOCK_IDX(loc[t].addr)] = loc[t].l
    BY <1>0
    DEF LoadReturn, LoadRecheck, ReturnLoad, LockUnchanged, shared, TypeInv, TypeOK, TxDesc
  <1>2. loc[t].l.owner = NoTx /\ InAttempt(t)
    BY <1>0, <1>1 DEF Private, Loading, Loads, InAttempt, Outside, Between
  <1>3. r.addr = loc[t].addr
    OBVIOUS
  <1>4. ~UnderOwnLock(t, r.addr)
    BY <1>0, <1>1, <1>2, <1>3 DEF UnderOwnLock
  <1>5. \A a : UnderOwnLock(t, a)' = UnderOwnLock(t, a)
    BY <1>1 DEF UnderOwnLock
  <1> HIDE DEF r
  <1> QED
    BY <1>1, <1>2, <1>4, <1>5 DEF OwnPast

\* All steps of a thread keep it.
LEMMA OwnPastStep ==
  ASSUME OpacityInv, MemInv', Plain, ReadOnlyKept, NEW t \in Tx, StepOf(t), Running(t) \/ Call(t)
  PROVE  OwnPast(t)'
  <1>0. /\ LockInv /\ TypeInv /\ Unread(t) /\ Stage(t) /\ WellMasked(t) /\ OwnPast(t)
    BY DEF OpacityInv, SerialInv, StageInv, MemInv, LockInv, Private
  <1>1. Edges(t) /\ ~BareLoad(t)
    BY <1>0, StepEdges, NoBareLoad
  <1>2. CASE Leaves(t) \/ CommitReadOnly(t) \/ (Publishes(t) /\ pc'[t] = "install")
    <2>1. pc'[t] \in {"rollback", "idle", "install"}
      BY <1>0, <1>2 DEF Leaves, CommitReadOnly, Committed, Goto, TypeInv, TypeOK
    <2> QED
      BY <2>1 DEF OwnPast, InAttempt, Outside, Between
  <1>3. CASE Prepare(t)
    <2>1. seen'[t] = {}
      BY <1>0, <1>3 DEF Prepare, aux, Unread, Outside, Between
    <2> QED
      BY <2>1 DEF OwnPast
  <1>4. CASE LoadReturn(t) \/ LoadRecheck(t)
    BY <1>0, <1>4, LoadPast
  <1>5. CASE Internal(t)
    <2>1. CASE InAttempt(t)'
      <3>1. pc[t] = "irr_spin" => seen[t] = {}
        BY <1>0 DEF Unread, Outside, Between
      <3> QED
        BY <1>0, <1>5, <2>1, <3>1, InternalPast DEF Internal
    <2>2. CASE ~InAttempt(t)'
      BY <2>2 DEF OwnPast
    <2> QED
      BY <2>1, <2>2
  <1>6. CASE CommitClock(t) /\ pc'[t] = "validate"
    <2>1. Publishes(t) /\ InAttempt(t)
      BY <1>6 DEF Publishes, CommitClock, InAttempt, Outside, Between
    <2>2. tx' = tx /\ seen' = seen /\ hist' = hist
      BY <1>0, <1>6, <2>1, PublishesEffect
    <2> QED
      BY <1>0, <2>1, <2>2, InternalPast
  <1> QED
    BY <1>1, <1>2, <1>3, <1>4, <1>5, <1>6 DEF Edges

-----------------------------------------------------------------------------
(* The mapped state *)

MapRunning == {u \in Tx : Runs(u)}
MapStart == [u \in Tx |-> IF Runs(u) THEN tx[u].start ELSE 0]
MapSeen == [u \in Tx |-> IF Runs(u) THEN seen[u] ELSE {}]

\* Other threads run as before.
LEMMA OthersRun ==
  ASSUME NEW t \in Tx, StepOf(t), NEW u \in Tx \ {t}
  PROVE  /\ tx'[u] = tx[u] /\ seen'[u] = seen[u] /\ Runs(u)' = Runs(u)
         /\ ~WritesBack(u) /\ ~Returns(u)
  BY DEF StepOf, Others, Runs, WritesBack, Returns

\* A step that the abstract specification does not know of leaves them as they are.
LEMMA MapKept ==
  ASSUME NEW t \in Tx, StepOf(t), Runs(t)' = Runs(t),
         Runs(t) => tx'[t].start = tx[t].start /\ seen'[t] = seen[t]
  PROVE  UNCHANGED <<MapRunning, MapStart, MapSeen>>
  <1>1. \A u \in Tx : /\ Runs(u)' = Runs(u)
                      /\ Runs(u) => tx'[u].start = tx[u].start /\ seen'[u] = seen[u]
    BY OthersRun
  <1>2. MapRunning' = MapRunning
    BY <1>1 DEF MapRunning
  <1>3. MapStart' = MapStart
    BY <1>1 DEF MapStart
  <1>4. MapSeen' = MapSeen
    BY <1>1 DEF MapSeen
  <1> QED
    BY <1>2, <1>3, <1>4

\* The end of an attempt is one in the abstract specification.
LEMMA MapStops ==
  ASSUME NEW t \in Tx, StepOf(t), Runs(t), ~Runs(t)'
  PROVE  Abstract!Stops(t)
  <1>1. \A u \in Tx \ {t} : Runs(u)' = Runs(u) /\ tx'[u] = tx[u] /\ seen'[u] = seen[u]
    BY OthersRun
  <1>2. t \in MapRunning /\ MapRunning' = MapRunning \ {t}
    BY <1>1 DEF MapRunning
  <1>3. MapStart' = [MapStart EXCEPT ![t] = 0]
    BY <1>1 DEF MapStart
  <1>4. MapSeen' = [MapSeen EXCEPT ![t] = {}]
    BY <1>1 DEF MapSeen
  <1> QED
    BY <1>2, <1>3, <1>4 DEF Abstract!Stops, MapRunning, MapStart, MapSeen

-----------------------------------------------------------------------------
(* The history variable *)

ReadersOf(a) == {u \in Tx : (WritesBack(u) \/ Returns(u)) /\ \E r \in seen[u] : r.addr = a}
TimesOf(a) == {readAt[a]} \cup {ReadTime(u) : u \in ReadersOf(a)}
HasSeen(t, a) == \E r \in seen[t] : r.addr = a

\* Its next value, in these terms.
LEMMA ReadAtIs ==
  ASSUME ReadAtNext
  PROVE  readAt' = [a \in Addr |-> IF clock' < clock THEN 0
                                   ELSE CHOOSE n \in TimesOf(a) : \A k \in TimesOf(a) : k <= n]
  BY DEF ReadAtNext, TimesOf, ReadersOf

\* The greatest member of a set is the one that is chosen.
LEMMA GreatestIs ==
  ASSUME NEW S, NEW m \in S, \A k \in S : k \in Int /\ k <= m
  PROVE  (CHOOSE n \in S : \A k \in S : k <= n) = m
  <1>1. \A n \in S : (\A k \in S : k <= n) => n = m
    OBVIOUS
  <1> QED
    BY <1>1

\* It stays, but for the commit of a transaction.
LEMMA ReadAtKept ==
  ASSUME MemInv, ReadAtNext, ReadAtSettled, NEW t \in Tx, StepOf(t),
         ~WritesBack(t), ~Returns(t)
  PROVE  readAt' = readAt
  <1>1. ~(clock' < clock)
    BY ClockForward DEF MemInv
  <1>2. readAt \in [Addr -> Nat]
    BY DEF ReadAtSettled
  <1>3. ASSUME NEW a \in Addr
        PROVE  (CHOOSE n \in TimesOf(a) : \A k \in TimesOf(a) : k <= n) = readAt[a]
    <2>1. ReadersOf(a) = {}
      BY OthersRun DEF ReadersOf
    <2>2. TimesOf(a) = {readAt[a]}
      BY <2>1 DEF TimesOf
    <2>3. readAt[a] \in Int /\ readAt[a] <= readAt[a]
      BY <1>2
    <2> QED
      BY <2>2, <2>3, GreatestIs
  <1>4. readAt' = [a \in Addr |-> readAt[a]]
    BY <1>1, <1>3, ReadAtIs
  <1> QED
    BY <1>2, <1>4

\* Which has read all that it has seen at one time.
LEMMA ReadAtCommit ==
  ASSUME MemInv, ReadAtNext, ReadAtSettled, NEW t \in Tx, StepOf(t),
         WritesBack(t) \/ Returns(t), NEW n \in Nat, ReadTime(t) = n
  PROVE  /\ readAt' = [a \in Addr |-> IF HasSeen(t, a) THEN Abstract!Max2(readAt[a], n)
                                      ELSE readAt[a]]
         /\ readAt' \in [Addr -> Nat]
  <1>1. ~(clock' < clock)
    BY ClockForward DEF MemInv
  <1>2. readAt \in [Addr -> Nat]
    BY DEF ReadAtSettled
  <1>3. ASSUME NEW a \in Addr
        PROVE  (CHOOSE k \in TimesOf(a) : \A l \in TimesOf(a) : l <= k)
                  = IF HasSeen(t, a) THEN Abstract!Max2(readAt[a], n) ELSE readAt[a]
    <2>0. readAt[a] \in Nat
      BY <1>2
    <2>1. CASE HasSeen(t, a)
      <3>1. ReadersOf(a) = {t}
        BY <2>1, OthersRun DEF ReadersOf, HasSeen
      <3>2. TimesOf(a) = {readAt[a], n}
        BY <3>1 DEF TimesOf
      <3> DEFINE m == Abstract!Max2(readAt[a], n)
      <3>3. m \in TimesOf(a) /\ \A k \in TimesOf(a) : k \in Int /\ k <= m
        BY <2>0, <3>2 DEF Abstract!Max2
      <3> QED
        BY <2>1, <3>3, GreatestIs
    <2>2. CASE ~HasSeen(t, a)
      <3>1. ReadersOf(a) = {}
        BY <2>2, OthersRun DEF ReadersOf, HasSeen
      <3>2. TimesOf(a) = {readAt[a]}
        BY <3>1 DEF TimesOf
      <3>3. readAt[a] \in Int /\ readAt[a] <= readAt[a]
        BY <2>0
      <3> QED
        BY <2>2, <3>2, <3>3, GreatestIs
    <2> QED
      BY <2>1, <2>2
  <1>4. readAt' = [a \in Addr |-> IF HasSeen(t, a) THEN Abstract!Max2(readAt[a], n)
                                  ELSE readAt[a]]
    BY <1>1, <1>3, ReadAtIs
  <1>5. \A a \in Addr : (IF HasSeen(t, a) THEN Abstract!Max2(readAt[a], n) ELSE readAt[a]) \in Nat
    BY <1>2 DEF Abstract!Max2
  <1> QED
    BY <1>4, <1>5

-----------------------------------------------------------------------------
(* Commits *)

\* The abstract specification compares loads with the same snapshots.
LEMMA HoldsHere ==
  ASSUME NEW S, NEW n, \A r \in S : Matches(r, Snapshot(r.addr, n))
  PROVE  Abstract!HoldsAt(S, n)
  BY DEF Abstract!HoldsAt, Abstract!Matches, Abstract!Snapshot, Abstract!Newest, Matches, Snapshot,
         Newest

\* A transaction that starts to write back has read the state before its timestamp.
LEMMA CommitReads ==
  ASSUME OpacityInv, ReadOnlyKept, NEW t \in Tx, Publishes(t), pc'[t] = "install",
         NEW r \in seen[t]
  PROVE  GoodRead(r, CommitTime(t) - 1)
  <1>1. SerialInv /\ Stage(t) /\ LockInv /\ TypeInv
    BY DEF OpacityInv, SerialInv, StageInv, MemInv, LockInv
  <1>2. pc[t] = "commit_clock" \/ Timed(t)
    BY <1>1, PublishesEffect
  <1>3. ~tx[t].read_only
    BY <1>1, <1>2 DEF Stage, ReadOnlyStage, ReadOnlyKept
  <1>4. Publishing(t)'
    BY DEF Publishing
  <1> QED
    BY <1>1, <1>3, <1>4, PublishReads

\* Its timestamp is new, and later than its start.
LEMMA CommitStamp ==
  ASSUME OpacityInv, NEW t \in Tx, Publishes(t)
  PROVE  /\ CommitTime(t) \in Nat /\ tx[t].start \in Nat /\ clock' \in Nat
         /\ tx[t].start + 1 <= CommitTime(t) /\ CommitTime(t) <= clock'
         /\ clock' \in {clock, clock + 1}
         /\ \A a \in Addr : \A h \in hist[a] : h.version # CommitTime(t)
         /\ Runs(t) /\ InAttempt(t)
  <1>0. /\ MemInv /\ LockInv /\ TypeInv /\ Entries(t) /\ Private(t) /\ OwnStamp(t) /\ clock \in Nat
        /\ tx[t].start \in Nat /\ tx[t].end \in Nat /\ loc[t].ts \in Nat
    BY DEF OpacityInv, SerialInv, MemInv, LockInv, TypeInv, TypeOK, TxDesc, Locals
  <1>1. /\ pc[t] = "commit_clock" \/ (pc[t] # "commit_clock" /\ Timed(t))
        /\ pc[t] = "commit_clock" => clock' = clock + 1
        /\ pc[t] # "commit_clock" => clock' = clock
    BY <1>0, PublishesEffect
  <1>2. Runs(t) /\ InAttempt(t)
    BY <1>1 DEF Runs, InAttempt, Outside, Between, Timed
  <1>3. CommitTime(t) \in Nat /\ CommitTime(t) <= clock'
    BY <1>0, CommitTimeAbove
  <1>4. tx[t].start + 1 <= CommitTime(t)
    BY <1>0, <1>1, <1>2 DEF Private, Bounds, CommitTime
  <1>5. ASSUME NEW a \in Addr, NEW h \in hist[a]
        PROVE  h.version # CommitTime(t)
    <2>1. h.version \in Nat /\ h.version <= clock
      BY <1>0, HistoryPast
    <2> QED
      BY <1>0, <1>1, <2>1 DEF CommitTime, OwnStamp
  <1> QED
    BY <1>0, <1>1, <1>2, <1>3, <1>4, <1>5

Written(t) == {a \in Addr : \E j \in EntryOf(tx[t].w_set, a) : tx[t].w_set[j].mask # {}}

\* It adds one version to each address that it has written, after all that has been
\* committed there and all that committed transactions have read.
LEMMA CommitWrites ==
  ASSUME OpacityInv, NEW t \in Tx, Publishes(t), pc'[t] = "install"
  PROVE  /\ \A a \in Written(t) : /\ readAt[a] < CommitTime(t)
                                  /\ \A h \in hist[a] : h.version < CommitTime(t)
         /\ \E val \in [Written(t) -> Word] :
               hist' = [a \in Addr |->
                           hist[a] \cup IF a \in Written(t)
                                        THEN {[version |-> CommitTime(t), value |-> val[a]]}
                                        ELSE {}]
  <1> DEFINE w == tx[t].w_set
             T == CommitTime(t)
             W == Written(t)
  <1>0. /\ MemInv /\ LockInv /\ TypeInv /\ Entries(t) /\ ReadAtSettled /\ clock \in Nat
        /\ T \in Nat
    BY CommitStamp DEF OpacityInv, SerialInv, MemInv, LockInv, TypeInv, TypeOK
  <1>1. hist' = Publish(w, T) /\ (pc[t] = "commit_clock" \/ Timed(t))
    BY <1>0, PublishesEffect
  <1>2. ASSUME NEW a \in Addr, NEW j \in EntryOf(w, a), w[j].mask # {}
        PROVE  /\ readAt[a] < T
               /\ \A h \in hist[a] : h.version < T
               /\ Publish(w, T)[a] = hist[a] \cup {[version |-> T, value |-> w[j].value]}
               /\ w[j].value \in Word
               /\ EntryOf(w, a) = {j}
    <2>1. j \in 1 .. Len(w) /\ w[j].addr = a /\ w[j] \in WEntry
      BY <1>0, <1>2, EntryType DEF EntryOf
    <2>2. /\ \A h \in hist[a] : h.version \in Nat /\ h.version < T
          /\ Publish(w, T)[a] = hist[a] \cup {[version |-> T, value |-> w[j].value]}
      BY <1>0, <1>2, <2>1, PublishHere
    <2>3. LOCK_IDX(a) \in Stripe /\ lock[LOCK_IDX(a)].owner = t
      <3>1. Undropped(t) = 1
        BY <1>1 DEF Undropped, Timed
      <3>2. LOCK_IDX(a) \in Held(t)
        BY <2>1, <3>1 DEF Held
      <3> QED
        BY <1>0, <3>2, LockIdxType, HeldApart
    <2>4. readAt[a] \in Nat /\ Settled(a, readAt[a])
      BY <1>0 DEF ReadAtSettled
    <2>5. readAt[a] < T
      BY <1>0, <1>1, <2>3, <2>4 DEF Settled, CommitTime, Timed
    <2>6. EntryOf(w, a) = {j}
      BY <1>0, <1>2, <2>1 DEF Entries, Lists, EntryOf
    <2> QED
      BY <2>1, <2>2, <2>5, <2>6 DEF WEntry
  <1> DEFINE val == [a \in W |-> w[CHOOSE j \in EntryOf(w, a) : TRUE].value]
  <1>3. ASSUME NEW a \in W
        PROVE  /\ val[a] \in Word
               /\ Publish(w, T)[a] = hist[a] \cup {[version |-> T, value |-> val[a]]}
    <2>1. PICK j \in EntryOf(w, a) : w[j].mask # {}
      BY <1>3 DEF Written
    <2>2. a \in Addr
      BY <1>3 DEF Written
    <2>3. EntryOf(w, a) = {j}
      BY <1>2, <2>1, <2>2
    <2>4. val[a] = w[j].value
      BY <1>3, <2>3
    <2> HIDE DEF val
    <2> QED
      BY <1>2, <2>1, <2>2, <2>4
  <1>4. val \in [W -> Word]
    BY <1>3
  <1>5. ASSUME NEW a \in Addr, a \notin W
        PROVE  Publish(w, T)[a] = hist[a]
    <2>1. \A j \in EntryOf(w, a) : w[j].mask = {}
      BY <1>5 DEF Written
    <2> QED
      BY <2>1, PublishElsewhere
  <1>6. hist' = [a \in Addr |-> Publish(w, T)[a]]
    BY <1>1 DEF Publish
  <1>7. hist' = [a \in Addr |-> hist[a] \cup IF a \in W
                                           THEN {[version |-> T, value |-> val[a]]}
                                           ELSE {}]
    <2> HIDE DEF val
    <2>1. ASSUME NEW a \in Addr
          PROVE  Publish(w, T)[a] = hist[a] \cup IF a \in W
                                           THEN {[version |-> T, value |-> val[a]]}
                                           ELSE {}
      BY <1>3, <1>5
    <2> HIDE DEF W, w, T
    <2> QED
      BY <1>6, <2>1
  <1>8. \A a \in W : readAt[a] < T /\ \A h \in hist[a] : h.version < T
    BY <1>2 DEF Written
  <1> HIDE DEF val
  <1> QED
    BY <1>4, <1>7, <1>8

\* So it is a commit of the abstract specification.
LEMMA CommitMaps ==
  ASSUME OpacityInv, ReadOnlyKept, ReadAtNext, NEW t \in Tx, StepOf(t), Publishes(t),
         pc'[t] = "install"
  PROVE  Abstract!Commit(t)
  <1> DEFINE T == CommitTime(t)
             W == Written(t)
  <1>0. /\ MemInv /\ LockInv /\ TypeInv /\ ReadAtSettled
    BY DEF OpacityInv, SerialInv, MemInv, LockInv
  <1>1. /\ T \in Nat /\ tx[t].start \in Nat /\ clock' \in Nat
        /\ tx[t].start + 1 <= T /\ T <= clock' /\ clock' \in {clock, clock + 1}
        /\ \A a \in Addr : \A h \in hist[a] : h.version # T
        /\ Runs(t)
    BY CommitStamp
  <1>2. pc[t] \in {"commit_clock", "validate"} /\ loc'[t].ts = T
    BY <1>0, PublishesEffect DEF Timed
  <1>3. Abstract!Stops(t)
    <2>1. ~Runs(t)'
      BY DEF Runs
    <2> QED
      BY <1>1, <2>1, MapStops
  <1>4. MapStart[t] = tx[t].start /\ MapSeen[t] = seen[t]
    BY <1>1 DEF MapStart, MapSeen
  <1>5. Abstract!HoldsAt(MapSeen[t], T - 1)
    BY <1>4, CommitReads, HoldsHere DEF GoodRead
  <1>6. Abstract!ReadAt(t, T - 1)
    <2>1. WritesBack(t) /\ ReadTime(t) = T - 1
      BY <1>2 DEF WritesBack, ReadTime
    <2>2. T - 1 \in Nat
      BY <1>1
    <2>3. readAt' = [a \in Addr |-> IF HasSeen(t, a) THEN Abstract!Max2(readAt[a], T - 1)
                                    ELSE readAt[a]]
      BY <1>0, <2>1, <2>2, ReadAtCommit
    <2> QED
      BY <1>4, <2>3 DEF Abstract!ReadAt, HasSeen, MapSeen
  <1>7. T \in MapStart[t] + 1 .. clock' /\ W \in SUBSET Addr
    BY <1>1, <1>4 DEF Written
  <1>8. /\ \A a \in W : readAt[a] < T /\ \A h \in hist[a] : h.version < T
        /\ \E val \in [W -> Word] :
               hist' = [a \in Addr |->
                           hist[a] \cup IF a \in W
                                        THEN {[version |-> T, value |-> val[a]]} ELSE {}]
    BY CommitWrites
  <1>9. /\ Abstract!HoldsAt(MapSeen[t], T - 1)
        /\ \A a \in Addr : \A h \in hist[a] : h.version # T
        /\ \A a \in W : readAt[a] < T /\ \A h \in hist[a] : h.version < T
        /\ \E val \in [W -> Word] :
               hist' = [a \in Addr |->
                           hist[a] \cup IF a \in W
                                        THEN {[version |-> T, value |-> val[a]]} ELSE {}]
        /\ Abstract!ReadAt(t, T - 1)
    BY <1>1, <1>5, <1>6, <1>8
  <1> HIDE DEF T, W
  <1> QED
    BY <1>1, <1>3, <1>7, <1>9 DEF Abstract!Commit, MapStart, MapSeen

\* A transaction that has written nothing has read the state at the end of its
\* snapshot, or the latest one if it is irrevocable.
LEMMA FinishReads ==
  ASSUME OpacityInv, ReadOnlyKept, NEW t \in Tx, CommitReadOnly(t)
  PROVE  /\ ReadTime(t) = ViewTime(t) /\ InAttempt(t)
         /\ \A r \in seen[t] : GoodRead(r, ViewTime(t))
  <1>0. /\ LockInv /\ TypeInv /\ Stage(t) /\ tx[t].irrevocable \in 0 .. 3
        /\ \A r \in seen[t] : r.addr \in Addr
    BY SMTT(40) DEF OpacityInv, SerialInv, StageInv, MemInv, LockInv, TypeInv, TypeOK, TxDesc, SeenEntry
  <1>1. pc[t] = "active" /\ tx[t].w_set = <<>> /\ pc'[t] = "idle"
    BY <1>0 DEF CommitReadOnly, Committed, Goto, TypeInv, TypeOK
  <1>2. InAttempt(t) /\ pc[t] \notin Loops /\ tx[t].irrevocable \in {0, 3}
    BY <1>0, <1>1
    DEF InAttempt, Outside, Between, Loops, Stage, IrrStage, ValidatesFor
  <1>3. ReadTime(t) = ViewTime(t)
    BY <1>1, <1>2 DEF ReadTime, ViewTime, WritesBack
  <1>4. \A r \in seen[t] : GoodRead(r, ViewTime(t))
    BY <1>0, <1>1, <1>2, NothingOwned, ViewsHold DEF Views
  <1> QED
    BY <1>2, <1>3, <1>4

\* It is one that finishes in the abstract specification.
LEMMA FinishMaps ==
  ASSUME OpacityInv, ReadOnlyKept, ReadAtNext, NEW t \in Tx, StepOf(t), CommitReadOnly(t)
  PROVE  Abstract!Finish(t)
  <1> DEFINE n == ViewTime(t)
  <1>0. /\ MemInv /\ TypeInv /\ ReadAtSettled
    BY DEF OpacityInv, SerialInv, MemInv, LockInv
  <1>1. /\ pc[t] = "active" /\ pc'[t] = "idle" /\ UNCHANGED <<clock, hist>>
    BY <1>0 DEF CommitReadOnly, Committed, Goto, TypeInv, TypeOK
  <1>2. Runs(t) /\ Returns(t) /\ ~Runs(t)'
    BY <1>1 DEF Runs, Returns
  <1>3. /\ InAttempt(t) /\ ReadTime(t) = n
        /\ \A r \in seen[t] : GoodRead(r, n)
    BY FinishReads
  <1>4. n \in Nat /\ tx[t].start \in Nat /\ tx[t].start <= n /\ n <= clock
    BY <1>3, ViewsHold DEF Views
  <1>5. MapStart[t] = tx[t].start /\ MapSeen[t] = seen[t]
    BY <1>2 DEF MapStart, MapSeen
  <1>6. Abstract!HoldsAt(MapSeen[t], n)
    BY <1>3, <1>5, HoldsHere DEF GoodRead
  <1>7. Abstract!ReadAt(t, n)
    <2>1. readAt' = [a \in Addr |-> IF HasSeen(t, a) THEN Abstract!Max2(readAt[a], n)
                                    ELSE readAt[a]]
      BY <1>0, <1>2, <1>3, <1>4, ReadAtCommit
    <2> QED
      BY <1>5, <2>1 DEF Abstract!ReadAt, HasSeen, MapSeen
  <1>8. Abstract!Stops(t)
    BY <1>2, MapStops
  <1>9. n \in MapStart[t] .. clock
    <2>1. clock \in Nat
      BY <1>0 DEF TypeInv, TypeOK
    <2> QED
      BY <1>4, <1>5, <2>1
  <1> HIDE DEF n
  <1> QED
    BY <1>1, <1>6, <1>7, <1>8, <1>9 DEF Abstract!Finish, MapStart, MapSeen

-----------------------------------------------------------------------------
(* The invariant holds *)

\* A time that has settled stays settled.
LEMMA SettledStays ==
  ASSUME MemInv, MemInv', NEW t \in Tx, StepOf(t)
  PROVE  \A a \in Addr : \A n \in Int : Settled(a, n) => Settled(a, n)'
  BY SettledStep

\* The history variable by its values.
LEMMA ReadAtByValue ==
  ASSUME readAt' \in [Addr -> Nat],
         \A a \in Addr : \E n \in Int : readAt'[a] = n /\ Settled(a, n)'
  PROVE  ReadAtSettled'
  <1>1. ASSUME NEW a \in Addr
        PROVE  Settled(a, readAt[a])'
    BY <1>1 DEF Settled
  <1> QED
    BY <1>1 DEF ReadAtSettled

\* The commit of t adds the time n of its reads, which has settled.
LEMMA ReadAtCommitted ==
  ASSUME MemInv, MemInv', ReadAtNext, ReadAtSettled, NEW t \in Tx, StepOf(t),
         WritesBack(t) \/ Returns(t), NEW n \in Nat, ReadTime(t) = n,
         \A r \in seen[t] : r.addr \in Addr /\ Settled(r.addr, n)
  PROVE  ReadAtSettled'
  <1>1. /\ readAt' = [a \in Addr |-> IF HasSeen(t, a) THEN Abstract!Max2(readAt[a], n)
                                     ELSE readAt[a]]
        /\ readAt' \in [Addr -> Nat]
    BY ReadAtCommit
  <1>2. \A a \in Addr : readAt[a] \in Nat /\ Settled(a, readAt[a])
    BY DEF ReadAtSettled
  <1>3. ASSUME NEW a \in Addr
        PROVE  \E k \in Int : readAt'[a] = k /\ Settled(a, k)
    <2>1. CASE HasSeen(t, a) /\ readAt'[a] = n
      <3>1. PICK r \in seen[t] : r.addr = a
        BY <2>1 DEF HasSeen
      <3>2. Settled(a, n)
        BY <3>1
      <3> QED
        BY <2>1, <3>2
    <2>2. CASE readAt'[a] = readAt[a]
      <3>1. readAt[a] \in Int /\ Settled(a, readAt[a])
        BY <1>2
      <3> QED
        BY <2>2, <3>1
    <2> QED
      BY <1>1, <2>1, <2>2 DEF Abstract!Max2
  <1>4. \A a \in Addr : \E k \in Int : readAt'[a] = k /\ Settled(a, k)'
    <2>1. ASSUME NEW a \in Addr
          PROVE  \E k \in Int : readAt'[a] = k /\ Settled(a, k)'
      <3>1. PICK k \in Int : readAt'[a] = k /\ Settled(a, k)
        BY <1>3
      <3>2. Settled(a, k)'
        BY <3>1, SettledStays
      <3> QED
        BY <3>1, <3>2
    <2> QED
      BY <2>1
  <1> QED
    BY <1>1, <1>4, ReadAtByValue

\* Other steps leave it alone.
LEMMA ReadAtQuiet ==
  ASSUME MemInv, MemInv', ReadAtNext, ReadAtSettled, NEW t \in Tx, StepOf(t),
         ~WritesBack(t), ~Returns(t)
  PROVE  ReadAtSettled'
  <1>1. readAt' = readAt
    BY ReadAtKept
  <1>2. \A a \in Addr : readAt[a] \in Nat /\ Settled(a, readAt[a])
    BY DEF ReadAtSettled
  <1>3. \A a \in Addr : \E k \in Int : readAt'[a] = k /\ Settled(a, k)'
    <2>1. ASSUME NEW a \in Addr
          PROVE  \E k \in Int : readAt'[a] = k /\ Settled(a, k)'
      <3>1. PICK k \in Int : readAt[a] = k /\ Settled(a, k)
        BY <1>2
      <3>2. Settled(a, k)'
        BY <3>1, SettledStays
      <3> QED
        BY <1>1, <3>1, <3>2
    <2> QED
      BY <2>1
  <1> QED
    BY <1>1, <1>3, ReadAtByValue DEF ReadAtSettled

\* The steps of a thread that are no commit.
LEMMA NoCommit ==
  ASSUME TypeInv, NEW t \in Tx,
         \/ Internal(t) \/ Prepare(t) \/ Leaves(t)
         \/ CommitClock(t) /\ pc'[t] = "validate"
         \/ BareLoad(t) \/ LoadReturn(t) \/ LoadRecheck(t)
  PROVE  ~WritesBack(t) /\ ~Returns(t)
  <1>1. CASE Internal(t)
    BY <1>1 DEF Internal
  <1>2. CASE Prepare(t)
    BY <1>2 DEF Prepare, Goto, WritesBack, Returns, TypeInv, TypeOK
  <1>3. CASE Leaves(t)
    BY <1>3 DEF Leaves, WritesBack, Returns
  <1>4. CASE CommitClock(t) /\ pc'[t] = "validate"
    BY <1>4 DEF WritesBack, Returns
  <1>5. CASE BareLoad(t) \/ LoadReturn(t) \/ LoadRecheck(t)
    BY <1>5 DEF BareLoad, LoadReturn, LoadRecheck, ReturnLoad, Goto, WritesBack, Returns,
                TypeInv, TypeOK
  <1> QED
    BY <1>1, <1>2, <1>3, <1>4, <1>5

\* What committed transactions have read stays settled.
LEMMA ReadAtStep ==
  ASSUME OpacityInv, MemInv', ReadOnlyKept, ReadAtNext, NEW t \in Tx, StepOf(t), Edges(t)
  PROVE  ReadAtSettled'
  <1>0. /\ MemInv /\ TypeInv /\ ReadAtSettled /\ \A r \in seen[t] : r.addr \in Addr
    BY DEF OpacityInv, SerialInv, MemInv, LockInv, TypeInv, TypeOK, SeenEntry
  <1>1. CASE Publishes(t) /\ pc'[t] = "install"
    <2>1. pc[t] \in {"commit_clock", "validate"} /\ loc'[t].ts = CommitTime(t)
      BY <1>0, <1>1, PublishesEffect DEF Timed
    <2>2. WritesBack(t) /\ ReadTime(t) = CommitTime(t) - 1
      BY <1>1, <2>1 DEF WritesBack, ReadTime
    <2>3. CommitTime(t) - 1 \in Nat
      BY <1>1, CommitStamp
    <2>4. \A r \in seen[t] : Settled(r.addr, CommitTime(t) - 1)
      BY <1>1, CommitReads DEF GoodRead
    <2> QED
      BY <1>0, <2>2, <2>3, <2>4, ReadAtCommitted
  <1>2. CASE CommitReadOnly(t)
    <2>1. pc[t] = "active" /\ pc'[t] = "idle"
      BY <1>0, <1>2 DEF CommitReadOnly, Committed, Goto, TypeInv, TypeOK
    <2>2. /\ ReadTime(t) = ViewTime(t) /\ InAttempt(t)
          /\ \A r \in seen[t] : Settled(r.addr, ViewTime(t))
      BY <1>2, FinishReads DEF GoodRead
    <2>3. ViewTime(t) \in Nat
      BY <2>2, ViewsHold DEF Views
    <2>4. Returns(t)
      BY <2>1 DEF Returns
    <2> QED
      BY <1>0, <2>2, <2>3, <2>4, ReadAtCommitted
  <1> QED
    BY <1>0, <1>1, <1>2, NoCommit, ReadAtQuiet DEF Edges

\* The clock reset forgets when committed transactions have read.
LEMMA RolloverReadAt ==
  ASSUME OpacityInv, Rollover, ReadAtNext
  PROVE  readAt' = [a \in Addr |-> 0]
  <1>0. /\ clock \in Nat /\ clock' = 0
        /\ \A t \in Tx : pc[t] = "barrier" /\ pc'[t] = "prepare"
    BY DEF OpacityInv, SerialInv, MemInv, LockInv, TypeInv, TypeOK, Rollover, RolloverBut
  <1>1. ASSUME NEW a \in Addr, ~(clock' < clock)
        PROVE  (CHOOSE n \in TimesOf(a) : \A k \in TimesOf(a) : k <= n) = 0
    <2>1. ReadersOf(a) = {}
      BY <1>0 DEF ReadersOf, WritesBack, Returns
    <2>2. TimesOf(a) = {readAt[a]}
      BY <2>1 DEF TimesOf
    <2>3. readAt[a] = 0
      BY <1>0, <1>1 DEF OpacityInv, ReadAtSettled, Settled
    <2> QED
      BY <2>2, <2>3, GreatestIs
  <1> QED
    BY <1>1, ReadAtIs

\* It finds every thread before an attempt.
LEMMA OpacityRollover ==
  ASSUME OpacityInv, SerialInv', Rollover, ReadAtNext
  PROVE  OpacityInv'
  <1>1. /\ clock' = 0 /\ tx' = tx
        /\ \A t \in Tx : pc'[t] = "prepare"
    BY DEF Rollover, RolloverBut
  <1>2. \A t \in Tx : ~Timed(t)' /\ ~InAttempt(t)'
    BY <1>1 DEF Timed, InAttempt, Outside, Between
  <1>3. ReadAtSettled'
    <2>1. readAt' = [a \in Addr |-> 0]
      BY RolloverReadAt
    <2>2. \A a \in Addr : Settled(a, 0)'
      BY <1>1, <1>2 DEF Settled
    <2> QED
      BY <2>1, <2>2, ReadAtByValue
  <1>4. \A t \in Tx : OwnStamp(t)'
    BY <1>2 DEF OwnStamp
  <1>5. \A t \in Tx : WellMasked(t) => WellMasked(t)'
    BY <1>1 DEF WellMasked
  <1>6. \A t \in Tx : OwnPast(t)'
    BY <1>2 DEF OwnPast
  <1> QED
    BY <1>3, <1>4, <1>5, <1>6 DEF OpacityInv

\* The invariant holds at the start.
LEMMA OpacityInit == Init /\ ReadAtInit => OpacityInv
  <1> SUFFICES ASSUME Init, ReadAtInit
               PROVE  OpacityInv
    OBVIOUS
  <1>1. /\ clock = 0 /\ readAt = [a \in Addr |-> 0]
        /\ \A t \in Tx : pc[t] = "idle" /\ tx[t].w_set = <<>>
    BY DEF Init, ReadAtInit
  <1>2. \A t \in Tx : ~Timed(t) /\ ~InAttempt(t)
    BY <1>1 DEF Timed, InAttempt, Outside, Between
  <1>3. ReadAtSettled
    BY <1>1, <1>2 DEF ReadAtSettled, Settled
  <1>4. \A t \in Tx : OwnStamp(t) /\ WellMasked(t) /\ OwnPast(t)
    BY <1>1, <1>2 DEF OwnStamp, WellMasked, OwnPast
  <1> QED
    BY <1>3, <1>4, SerialInit DEF OpacityInv

\* A step of a thread keeps it.
LEMMA OpacityOwnStep ==
  ASSUME OpacityInv, SerialInv', ReadOnlyKept, ReadAtNext, NEW t \in Tx, Running(t) \/ Call(t)
  PROVE  OpacityInv'
  <1>0. /\ MemInv /\ MemInv' /\ LockInv /\ TypeInv' /\ StepOf(t)
        /\ \A u \in Tx : OwnStamp(u) /\ Stage(u) /\ Unread(u)
    <2>1. MemInv /\ MemInv' /\ LockInv /\ TypeInv'
      BY DEF OpacityInv, SerialInv, MemInv, LockInv
    <2>2. StepOf(t)
      BY <2>1, StepKinds
    <2> QED
      BY <2>1, <2>2 DEF OpacityInv, SerialInv, StageInv, Private
  <1>1. Edges(t)
    BY <1>0, StepEdges
  <1>2. ReadAtSettled'
    BY <1>0, <1>1, ReadAtStep
  <1>3. \A u \in Tx : OwnStamp(u)'
    BY <1>0, OwnStampStep
  <1>4. ASSUME Plain, NEW u \in Tx
        PROVE  WellMasked(u)' /\ OwnPast(u)'
    <2>1. WellMasked(u) /\ OwnPast(u)
      BY <1>4 DEF OpacityInv
    <2>2. CASE u = t
      BY <1>0, <1>4, <2>1, <2>2, StepEdges, OwnPastStep DEF Plain
    <2>3. CASE u # t
      <3>1. tx'[u] = tx[u] /\ pc'[u] = pc[u] /\ loc'[u] = loc[u]
        BY <1>0, <2>3 DEF StepOf, Others
      <3>2. WellMasked(u)'
        BY <2>1, <3>1 DEF WellMasked
      <3>3. OwnPast(u)'
        BY <1>0, <2>1, <2>3, OthersPast
      <3> QED
        BY <3>2, <3>3
    <2> QED
      BY <2>2, <2>3
  <1>5. Plain' => Plain
    BY DEF Plain
  <1> QED
    BY <1>2, <1>3, <1>4, <1>5 DEF OpacityInv

\* Every step does.
LEMMA OpacityStep ==
  ReadOnlyKept /\ OpacityInv /\ [Next /\ ReadAtNext]_<<vars, readAt>> => OpacityInv'
  <1> SUFFICES ASSUME ReadOnlyKept, OpacityInv, [Next /\ ReadAtNext]_<<vars, readAt>>
               PROVE  OpacityInv'
    OBVIOUS
  <1>1. SerialInv'
    BY SerialStep DEF OpacityInv
  <1>2. CASE UNCHANGED <<vars, readAt>>
    <2>1. ReadAtSettled'
      BY <1>2 DEF vars, OpacityInv, ReadAtSettled, Settled, Timed
    <2>2. \A t \in Tx : OwnStamp(t) => OwnStamp(t)'
      BY <1>2 DEF vars, OwnStamp, Timed
    <2>3. \A t \in Tx : WellMasked(t) => WellMasked(t)'
      BY <1>2 DEF vars, WellMasked
    <2>4. \A t \in Tx : OwnPast(t) => OwnPast(t)'
      BY <1>2 DEF vars, OwnPast, InAttempt, UnderOwnLock
    <2> QED
      BY <1>1, <2>1, <2>2, <2>3, <2>4 DEF OpacityInv
  <1>3. CASE Rollover /\ ReadAtNext
    BY <1>1, <1>3, OpacityRollover
  <1>4. CASE (\E t \in Tx : Running(t) \/ Call(t)) /\ ReadAtNext
    BY <1>1, <1>4, OpacityOwnStep
  <1> QED
    BY <1>2, <1>3, <1>4 DEF Next

-----------------------------------------------------------------------------
(* The other steps in the abstract specification *)

\* The start of an attempt.
LEMMA BeginMaps ==
  ASSUME OpacityInv, NEW t \in Tx, StepOf(t), Prepare(t), readAt' = readAt
  PROVE  Abstract!Begin(t)
  <1>0. TypeInv /\ Unread(t)
    BY DEF OpacityInv, SerialInv, MemInv, LockInv, Private
  <1>1. /\ pc[t] = "prepare" /\ pc'[t] \in {"irr_spin", "active"}
        /\ tx'[t].start = clock /\ seen' = seen /\ UNCHANGED <<clock, hist>>
    BY <1>0 DEF Prepare, Goto, shared, aux, TypeInv, TypeOK, TxDesc
  <1>2. ~Runs(t) /\ Runs(t)' /\ seen[t] = {}
    BY <1>0, <1>1 DEF Runs, Unread, Outside, Between
  <1>3. \A u \in Tx \ {t} : Runs(u)' = Runs(u) /\ tx'[u] = tx[u]
    BY OthersRun
  <1>4. MapRunning' = MapRunning \cup {t} /\ t \notin MapRunning
    BY <1>2, <1>3 DEF MapRunning
  <1>5. MapStart' = [MapStart EXCEPT ![t] = clock]
    BY <1>1, <1>2, <1>3 DEF MapStart
  <1>6. MapSeen' = MapSeen
    BY <1>1, <1>2, <1>3 DEF MapSeen
  <1> QED
    BY <1>1, <1>4, <1>5, <1>6 DEF Abstract!Begin, MapRunning, MapStart, MapSeen

\* An attempt that ends without effect.
LEMMA AbortMaps ==
  ASSUME NEW t \in Tx, StepOf(t), Leaves(t), readAt' = readAt
  PROVE  Abstract!Abort(t)
  <1>1. Runs(t) /\ ~Runs(t)' /\ UNCHANGED <<clock, hist>>
    BY DEF Leaves, Runs
  <1>2. Abstract!Stops(t)
    BY <1>1, MapStops
  <1> QED
    BY <1>1, <1>2 DEF Abstract!Abort

\* A timestamp that has still to be validated for.
LEMMA TickMaps ==
  ASSUME TypeInv, NEW t \in Tx, StepOf(t), CommitClock(t), pc'[t] = "validate", readAt' = readAt
  PROVE  Abstract!Tick
  <1>1. /\ pc[t] = "commit_clock" /\ clock' = clock + 1
        /\ UNCHANGED <<hist, tx, seen>>
    BY DEF CommitClock, StartInstall, Goto, TypeInv, TypeOK
  <1>2. Runs(t) /\ Runs(t)'
    BY <1>1 DEF Runs
  <1>3. UNCHANGED <<MapRunning, MapStart, MapSeen>>
    BY <1>1, <1>2, MapKept
  <1> QED
    BY <1>1, <1>3 DEF Abstract!Tick, MapRunning, MapStart, MapSeen

\* A load.
LEMMA ObserveMaps ==
  ASSUME TypeInv, NEW t \in Tx, StepOf(t), BareLoad(t) \/ LoadReturn(t) \/ LoadRecheck(t),
         readAt' = readAt
  PROVE  /\ Abstract!Observe(t)
         /\ Runs(t) /\ InAttempt(t)' /\ MapSeen'[t] = seen'[t]
         /\ tx'[t].start = tx[t].start /\ UNCHANGED <<clock, hist>>
  <1>1. PICK a \in Addr, v \in Word : \E log : ReturnLoad(t, a, v, {}, log)
    <2>1. CASE BareLoad(t)
      <3>1. PICK a \in Addr : ReturnLoad(t, a, mem[a], {}, <<>>)
        BY <2>1 DEF BareLoad
      <3>2. mem[a] \in Word
        BY DEF TypeInv, TypeOK
      <3> QED
        BY <3>1, <3>2
    <2>2. CASE LoadReturn(t) \/ LoadRecheck(t)
      <3>1. ReturnLoad(t, loc[t].addr, loc[t].value, {}, LogEntry(t))
        BY <2>2 DEF LoadReturn, LoadRecheck
      <3>2. loc[t].addr \in Addr /\ loc[t].value \in Word
        BY DEF TypeInv, TypeOK, Locals
      <3> QED
        BY <3>1, <3>2
    <2> QED
      BY <2>1, <2>2
  <1> DEFINE r == [addr |-> a, value |-> v, own |-> {}]
  <1>2. /\ seen'[t] = seen[t] \cup {r} /\ tx'[t].start = tx[t].start /\ pc'[t] = "active"
        /\ UNCHANGED <<clock, hist>>
    BY <1>1 DEF ReturnLoad, Goto, shared, TypeInv, TypeOK, TxDesc
  <1>3. Runs(t) /\ Runs(t)' /\ InAttempt(t)'
    <2>1. pc[t] \in {"load_relock", "load_recheck"} \/ Runs(t)
      BY DEF BareLoad, LoadReturn, LoadRecheck
    <2> QED
      BY <1>2, <2>1 DEF Runs, InAttempt, Outside, Between
  <1>4. \A u \in Tx \ {t} : Runs(u)' = Runs(u) /\ tx'[u] = tx[u] /\ seen'[u] = seen[u]
    BY OthersRun
  <1>5. t \in MapRunning /\ MapRunning' = MapRunning
    BY <1>3, <1>4 DEF MapRunning
  <1>6. MapStart' = MapStart
    BY <1>2, <1>3, <1>4 DEF MapStart
  <1>7. MapSeen' = [MapSeen EXCEPT ![t] = @ \cup {r}] /\ MapSeen'[t] = seen'[t]
    BY <1>2, <1>3, <1>4 DEF MapSeen
  <1>8. Abstract!Observe(t)
    <2>1. \E b \in Addr, w \in Word, own \in SUBSET Byte :
             MapSeen' = [MapSeen EXCEPT ![t] = @ \cup {[addr |-> b, value |-> w, own |-> own]}]
      <3>1. {} \in SUBSET Byte
        OBVIOUS
      <3> QED
        BY <1>7, <3>1
    <2> HIDE DEF r
    <2> QED
      BY <1>2, <1>5, <1>6, <2>1 DEF Abstract!Observe, MapRunning, MapStart, MapSeen
  <1> QED
    BY <1>2, <1>3, <1>7, <1>8

\* What an attempt has loaded, in the next state.
LEMMA NextViews ==
  ASSUME OpacityInv', ReadOnlyKept, Plain, NEW t \in Tx, InAttempt(t)'
  PROVE  \E n \in Nat : /\ tx'[t].start \in Nat /\ tx'[t].start <= n /\ n <= clock'
                        /\ \A r \in seen'[t] :
                              Matches(r, Newest({h \in hist'[r.addr] : h.version <= n}).value)
  <1>1. Views' /\ ReadOnlyKept' /\ Plain'
    BY ViewsHoldNext DEF ReadOnlyKept, Plain
  <1>2. /\ tx'[t].start \in Nat /\ ViewTime(t)' \in Nat
        /\ tx'[t].start <= ViewTime(t)' /\ ViewTime(t)' <= clock'
        /\ \A r \in seen'[t] : GoodRead(r, ViewTime(t))'
    BY <1>1 DEF Views
  <1>3. \A r \in seen'[t] :
            Matches(r, Newest({h \in hist'[r.addr] : h.version <= ViewTime(t)'}).value)
    BY <1>2 DEF GoodRead, Matches, Snapshot
  <1> QED
    BY <1>2, <1>3

\* With one word per lock and no empty masks, it fits the earlier ones.
LEMMA LoadMaps ==
  ASSUME OpacityInv, OpacityInv', ReadOnlyKept, Plain, NEW t \in Tx, StepOf(t),
         LoadReturn(t) \/ LoadRecheck(t), readAt' = readAt
  PROVE  Abstract!Load(t)
  <1>0. TypeInv /\ clock \in Nat
    BY DEF OpacityInv, SerialInv, MemInv, LockInv, TypeInv, TypeOK
  <1>1. /\ Abstract!Observe(t)
        /\ Runs(t) /\ InAttempt(t)' /\ MapSeen'[t] = seen'[t]
        /\ tx'[t].start = tx[t].start /\ UNCHANGED <<clock, hist>>
    BY <1>0, ObserveMaps
  <1>2. PICK n \in Nat : /\ tx'[t].start \in Nat /\ tx'[t].start <= n /\ n <= clock'
                         /\ \A r \in seen'[t] :
                              Matches(r, Newest({h \in hist'[r.addr] : h.version <= n}).value)
    BY <1>1, NextViews
  <1>3. \A r \in seen'[t] : Matches(r, Snapshot(r.addr, n))
    BY <1>1, <1>2 DEF Snapshot
  <1>4. Abstract!HoldsAt(MapSeen'[t], n)
    BY <1>1, <1>3, HoldsHere
  <1>5. MapStart[t] = tx[t].start
    BY <1>1 DEF MapStart
  <1>6. n \in MapStart[t] .. clock
    BY <1>0, <1>1, <1>2, <1>5
  <1> QED
    BY <1>1, <1>4, <1>6 DEF Abstract!Load, MapStart, MapSeen

\* The clock reset, which finds nobody running.
LEMMA RolloverMaps ==
  ASSUME OpacityInv, Rollover, ReadAtNext
  PROVE  Abstract!Reset
  <1>1. /\ clock' = 0 /\ tx' = tx /\ seen' = seen
        /\ hist' = [a \in Addr |-> {[version |-> 0, value |-> Latest(a)]}]
        /\ \A t \in Tx : pc[t] = "barrier" /\ pc'[t] = "prepare"
    BY DEF Rollover, RolloverBut
  <1>2. \A t \in Tx : ~Runs(t) /\ ~Runs(t)'
    BY <1>1 DEF Runs
  <1>3. MapRunning = {} /\ MapRunning' = MapRunning
    BY <1>2 DEF MapRunning
  <1>4. MapStart' = MapStart /\ MapSeen' = MapSeen
    BY <1>2 DEF MapStart, MapSeen
  <1>5. readAt' = [a \in Addr |-> 0]
    BY RolloverReadAt
  <1>6. hist' = [a \in Addr |-> {[version |-> 0, value |-> Abstract!Newest(hist[a]).value]}]
    BY <1>1 DEF Latest, Newest, Abstract!Newest
  <1> QED
    BY <1>1, <1>3, <1>4, <1>5, <1>6 DEF Abstract!Reset, MapRunning, MapStart, MapSeen

-----------------------------------------------------------------------------
(* The refinement *)

\* The mapped initial state.
LEMMA InitMaps == Init /\ ReadAtInit => Abstract!Init
  <1> SUFFICES ASSUME Init, ReadAtInit
               PROVE  Abstract!Init
    OBVIOUS
  <1>1. /\ clock = 0 /\ readAt = [a \in Addr |-> 0]
        /\ hist = [a \in Addr |-> {[version |-> 0, value |-> InitWord]}]
        /\ \A t \in Tx : pc[t] = "idle"
    BY DEF Init, ReadAtInit
  <1>2. \A t \in Tx : ~Runs(t)
    BY <1>1 DEF Runs
  <1>3. MapRunning = {} /\ MapStart = [t \in Tx |-> 0] /\ MapSeen = [t \in Tx |-> {}]
    BY <1>2 DEF MapRunning, MapStart, MapSeen
  <1> QED
    BY <1>1, <1>3 DEF Abstract!Init, MapRunning, MapStart, MapSeen

\* A stutter, seen from the abstract specification.
AbstractStays == UNCHANGED <<clock, hist, readAt, MapRunning, MapStart, MapSeen>>

\* All steps of a thread.
LEMMA ThreadMaps ==
  ASSUME OpacityInv, MemInv', ReadOnlyKept, ReadAtNext, NEW t \in Tx, Running(t) \/ Call(t)
  PROVE  \/ AbstractStays \/ Abstract!Tick
         \/ Abstract!Begin(t) \/ Abstract!Commit(t) \/ Abstract!Finish(t) \/ Abstract!Abort(t)
         \/ /\ BareLoad(t) \/ LoadReturn(t) \/ LoadRecheck(t)
            /\ StepOf(t) /\ readAt' = readAt
            /\ Abstract!Observe(t)
  <1>0. /\ MemInv /\ LockInv /\ TypeInv /\ TypeInv' /\ ReadAtSettled /\ Stage(t) /\ Unread(t)
    BY DEF OpacityInv, SerialInv, StageInv, MemInv, LockInv, Private
  <1>1. StepOf(t) /\ Edges(t)
    BY <1>0, StepKinds, StepEdges
  <1>2. CASE Publishes(t) /\ pc'[t] = "install"
    BY <1>1, <1>2, CommitMaps
  <1>3. CASE CommitReadOnly(t)
    BY <1>1, <1>3, FinishMaps
  <1>4. CASE ~(Publishes(t) /\ pc'[t] = "install") /\ ~CommitReadOnly(t)
    <2>1. readAt' = readAt
      BY <1>0, <1>1, <1>4, NoCommit, ReadAtKept DEF Edges
    <2>2. CASE Internal(t)
      BY <1>1, <2>1, <2>2, MapKept DEF Internal, AbstractStays
    <2>3. CASE Prepare(t)
      BY <1>1, <2>1, <2>3, BeginMaps
    <2>4. CASE Leaves(t)
      BY <1>1, <2>1, <2>4, AbortMaps
    <2>5. CASE CommitClock(t) /\ pc'[t] = "validate"
      BY <1>0, <1>1, <2>1, <2>5, TickMaps
    <2>6. CASE BareLoad(t) \/ LoadReturn(t) \/ LoadRecheck(t)
      BY <1>0, <1>1, <2>1, <2>6, ObserveMaps
    <2> QED
      BY <1>1, <1>4, <2>2, <2>3, <2>4, <2>5, <2>6 DEF Edges
  <1> QED
    BY <1>2, <1>3, <1>4

\* Every step is one of the part of the abstract specification that is about
\* committed transactions.
LEMMA SerialMaps ==
  ReadOnlyKept /\ OpacityInv /\ [Next /\ ReadAtNext]_<<vars, readAt>>
     => [Abstract!SerialNext]_Abstract!vars
  <1> SUFFICES ASSUME ReadOnlyKept, OpacityInv, [Next /\ ReadAtNext]_<<vars, readAt>>
               PROVE  [Abstract!SerialNext]_Abstract!vars
    OBVIOUS
  <1>1. MemInv'
    BY SerialStep DEF OpacityInv, SerialInv
  <1>2. AbstractStays => UNCHANGED Abstract!vars
    BY DEF AbstractStays, Abstract!vars, MapRunning, MapStart, MapSeen
  <1>3. CASE UNCHANGED <<vars, readAt>>
    <2>1. AbstractStays
      BY <1>3 DEF vars, AbstractStays, MapRunning, MapStart, MapSeen, Runs
    <2> QED
      BY <1>2, <2>1
  <1>4. CASE Rollover /\ ReadAtNext
    BY <1>4, RolloverMaps DEF Abstract!SerialNext
  <1>5. ASSUME NEW t \in Tx, Running(t) \/ Call(t), ReadAtNext
        PROVE  [Abstract!SerialNext]_Abstract!vars
    BY <1>1, <1>2, <1>5, ThreadMaps DEF Abstract!SerialNext
  <1> QED
    BY <1>3, <1>4, <1>5 DEF Next

\* And with one word per lock and no empty masks, of the whole of it.
LEMMA OpaqueMaps ==
  /\ Plain /\ ReadOnlyKept /\ OpacityInv /\ OpacityInv'
  /\ [Next /\ ReadAtNext]_<<vars, readAt>>
  => [Abstract!Next]_Abstract!vars
  <1> SUFFICES ASSUME Plain, ReadOnlyKept, OpacityInv, OpacityInv',
                      [Next /\ ReadAtNext]_<<vars, readAt>>
               PROVE  [Abstract!Next]_Abstract!vars
    OBVIOUS
  <1>1. MemInv' /\ LockInv /\ \A t \in Tx : WellMasked(t)
    BY DEF OpacityInv, SerialInv, MemInv
  <1>2. AbstractStays => UNCHANGED Abstract!vars
    BY DEF AbstractStays, Abstract!vars, MapRunning, MapStart, MapSeen
  <1>3. CASE UNCHANGED <<vars, readAt>>
    <2>1. AbstractStays
      BY <1>3 DEF vars, AbstractStays, MapRunning, MapStart, MapSeen, Runs
    <2> QED
      BY <1>2, <2>1
  <1>4. CASE Rollover /\ ReadAtNext
    BY <1>4, RolloverMaps DEF Abstract!Next
  <1>5. ASSUME NEW t \in Tx, Running(t) \/ Call(t), ReadAtNext
        PROVE  [Abstract!Next]_Abstract!vars
    <2>1. ~BareLoad(t)
      BY <1>1, NoBareLoad
    <2>2. CASE (LoadReturn(t) \/ LoadRecheck(t)) /\ StepOf(t) /\ readAt' = readAt
      <3>1. Abstract!Load(t)
        BY <2>2, LoadMaps
      <3> QED
        BY <3>1 DEF Abstract!Next
    <2>3. CASE \/ AbstractStays \/ Abstract!Tick
               \/ Abstract!Begin(t) \/ Abstract!Commit(t) \/ Abstract!Finish(t) \/ Abstract!Abort(t)
      BY <1>2, <2>3 DEF Abstract!Next
    <2> QED
      BY <1>1, <1>5, <2>1, <2>2, <2>3, ThreadMaps
  <1> QED
    BY <1>3, <1>4, <1>5 DEF Next

\* For any number of threads, addresses, locks and masks: every step of the default
\* design is a step of an abstract memory in which committed transactions are strictly
\* serializable, whatever the interleaving of loads, stores, validations, write-backs,
\* rollbacks, irrevocable transactions and clock resets: a commit has read the state
\* before its timestamp, writes nothing into the past of what committed transactions
\* have read, and takes effect between its start and its end.  The
\* application must not store in, nor make irrevocable, a transaction that it started
\* read-only: the code does not log the loads of these.
THEOREM StrictSerializability == ReadOnlyKept => (EtlSpec => StrictlySerializable)
  <1> SUFFICES ASSUME ReadOnlyKept
               PROVE  EtlSpec => StrictlySerializable
    OBVIOUS
  <1>1. OpacityInv /\ [Next /\ ReadAtNext]_<<vars, readAt>> => OpacityInv'
    BY OpacityStep
  <1>2. OpacityInv /\ [Next /\ ReadAtNext]_<<vars, readAt>> => [Abstract!SerialNext]_Abstract!vars
    BY SerialMaps
  <1> QED
    BY <1>1, <1>2, OpacityInit, InitMaps, PTL DEF EtlSpec, StrictlySerializable, Abstract!SerialSpec

\* Where every word has a lock of its own and no store has an empty mask, the design
\* implements the whole of OpaqueTm: no attempt, not even one that aborts later, loads
\* values that were not in memory together at some time since it started.  (Otherwise
\* a load from a stripe that the attempt has locked already looks at no version, and
\* the run doc_load_consistency shows what it returns.)
THEOREM Opacity == Plain /\ ReadOnlyKept => (EtlSpec => Opaque)
  <1> SUFFICES ASSUME Plain, ReadOnlyKept
               PROVE  EtlSpec => Opaque
    OBVIOUS
  <1>1. OpacityInv /\ [Next /\ ReadAtNext]_<<vars, readAt>> => OpacityInv'
    BY OpacityStep
  <1>2. OpacityInv /\ OpacityInv' /\ [Next /\ ReadAtNext]_<<vars, readAt>>
           => [Abstract!Next]_Abstract!vars
    BY OpaqueMaps
  <1> QED
    BY <1>1, <1>2, OpacityInit, InitMaps, PTL DEF EtlSpec, Opaque, Abstract!Spec

=============================================================================
