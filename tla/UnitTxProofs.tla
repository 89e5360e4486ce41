---------------------------- MODULE UnitTxProofs ----------------------------
(***************************************************************************)
(* Theorems about UnitTx for every number of threads, addresses and locks: *)
(* locks and memory stay in order when unit loads and stores run beside    *)
(* transactions, and what the unit calls promise their callers.            *)
(***************************************************************************)
EXTENDS UnitTx, WbEtlMemoryProofs

-----------------------------------------------------------------------------
(* The steps of a transaction, seen from a unit call of another thread *)

Claimable(s) == lock[s].owner \in Tx \cup {NoTx}

\* A step of thread t moves no other thread, and changes no lock that a unit
\* store has.
Frame(t) ==
    /\ \A u \in Tx \ {t} : pc'[u] = pc[u]
    /\ \A s \in Stripe : lock'[s] = lock[s] \/ Claimable(s)

\* A step that leaves the locks alone.
LEMMA KeepsLocks ==
  ASSUME TypeInv, NEW t \in Tx, lock' = lock, NEW l, pc' = pc \/ Goto(t, l)
  PROVE  Frame(t)
  BY DEF Frame, Goto, TypeInv, TypeOK

\* A rollback moves its own thread only.
LEMMA RollbackFrame ==
  ASSUME TypeInv, NEW t \in Tx, NEW r, NEW irr, RollbackAs(t, r, irr)
  PROVE  Frame(t)
  BY KeepsLocks DEF RollbackAs, shared

\* A rollback that keeps irrevocability, too.
LEMMA PlainRollbackFrame ==
  ASSUME TypeInv, NEW t \in Tx, NEW r, Rollback(t, r)
  PROVE  Frame(t)
  BY RollbackFrame DEF Rollback

\* A load that returns leaves the locks alone.
LEMMA ReturnFrame ==
  ASSUME TypeInv, NEW t \in Tx, NEW a, NEW v, NEW own, NEW log, ReturnLoad(t, a, v, own, log)
  PROVE  Frame(t)
  BY KeepsLocks DEF ReturnLoad, shared

\* So does the end of a commit.
LEMMA CommittedFrame ==
  ASSUME TypeInv, NEW t \in Tx, Committed(t)
  PROVE  Frame(t)
  BY KeepsLocks DEF Committed

\* So does a load that meets a lock word.
LEMMA ReadLockFrame ==
  ASSUME TypeInv, NEW t \in Tx, NEW a, NEW l, ReadLock(t, a, l)
  PROVE  Frame(t)
  <1>1. CASE LoadOwn(t, a, l)
    BY <1>1, KeepsLocks, ReturnFrame DEF LoadOwn, shared
  <1>2. CASE LoadConflict(t, a, l)
    BY <1>2, KeepsLocks, PlainRollbackFrame DEF LoadConflict, shared
  <1>3. CASE LoadFree(t, a, l)
    BY <1>3, KeepsLocks DEF LoadFree, shared
  <1> QED
    BY <1>1, <1>2, <1>3 DEF ReadLock

\* So does a store that meets a lock word.
LEMMA WriteLockFrame ==
  ASSUME TypeInv, NEW t \in Tx, NEW a, NEW w, NEW m, NEW l, WriteLock(t, a, w, m, l)
  PROVE  Frame(t)
  <1>1. CASE StoreOwn(t, a, w, m, l)
    BY <1>1, KeepsLocks, PlainRollbackFrame DEF StoreOwn, shared
  <1>2. CASE StoreConflict(t, a, w, m, l)
    BY <1>2, KeepsLocks, PlainRollbackFrame DEF StoreConflict, shared
  <1>3. CASE StoreFree(t, a, w, m, l)
    BY <1>3, KeepsLocks, PlainRollbackFrame DEF StoreFree, shared
  <1> QED
    BY <1>1, <1>2, <1>3 DEF WriteLock

\* The locks that commit and rollback give back are those of the write set.
LEMMA DropFrame ==
  ASSUME LockInv, NEW t \in Tx, RollbackDrop(t) \/ Drop(t)
  PROVE  Frame(t)
  <1> DEFINE i == loc[t].i
             s == LOCK_IDX(tx[t].w_set[i].addr)
  <1>1. TypeInv /\ i \in Nat \ {0} /\ Len(tx[t].w_set) \in Nat
    BY EntryType DEF LockInv
  <1>2. i <= Len(tx[t].w_set) /\ pc[t] \in {"rollback", "drop"}
    BY Zenon DEF RollbackDrop, Drop, LockInv, ThreadInv
  <1>3. s \in Stripe /\ s \in Held(t)
    BY <1>1, <1>2, EntryType DEF Held, Undropped
  <1>4. lock[s].owner = t
    BY <1>3 DEF LockInv, LockOwner
  <1>5. \A r \in Stripe : lock'[r] = lock[r] \/ r = s
    BY <1>1, <1>3 DEF RollbackDrop, Drop, TypeInv, TypeOK
  <1>6. \A u \in Tx \ {t} : pc'[u] = pc[u]
    BY <1>1 DEF RollbackDrop, Drop, Goto, TypeInv, TypeOK
  <1> QED
    BY <1>4, <1>5, <1>6 DEF Frame, Claimable

\* A store acquires a lock that is free.
LEMMA AcquireFrame ==
  ASSUME LockInv, NEW t \in Tx, StoreAcquire(t)
  PROVE  Frame(t)
  <1>1. lock[LOCK_IDX(loc[t].addr)].owner = NoTx
    BY DEF StoreAcquire, LockUnchanged, LockInv, ThreadInv
  <1>2. \A r \in Stripe : lock'[r] = lock[r] \/ r = LOCK_IDX(loc[t].addr)
    BY DEF StoreAcquire, LockInv, TypeInv, TypeOK
  <1>3. \A u \in Tx \ {t} : pc'[u] = pc[u]
    BY DEF StoreAcquire, Goto, LockInv, TypeInv, TypeOK
  <1> QED
    BY <1>1, <1>2, <1>3 DEF Frame, Claimable

\* Every step of a transaction.
LEMMA StepFrame ==
  ASSUME LockInv, NEW t \in Tx, Running(t) \/ Call(t)
  PROVE  Frame(t)
  <1>0. TypeInv
    BY DEF LockInv
  <1> USE DEF shared
  <1>1. CASE Running(t)
    <2>1. CASE PrepareBarrier(t) \/ Prepare(t) \/ RollbackEnd(t) \/ ValidateEntry(t)
      BY <1>0, <2>1, KeepsLocks DEF PrepareBarrier, Prepare, RollbackEnd, ValidateEntry
    <2>2. CASE RollbackDrop(t) \/ Drop(t)
      BY <2>2, DropFrame
    <2>3. CASE ValidateFails(t)
      BY <1>0, <2>3, PlainRollbackFrame DEF ValidateFails
    <2>4. CASE LoadAgain(t) \/ LoadRestart(t)
      BY <1>0, <2>4, ReadLockFrame DEF LoadAgain, LoadRestart
    <2>5. CASE LoadReturn(t) \/ LoadRecheck(t)
      BY <1>0, <2>5, ReturnFrame DEF LoadReturn, LoadRecheck
    <2>6. CASE LoadTooNew(t)
      BY <1>0, <2>6, KeepsLocks, PlainRollbackFrame DEF LoadTooNew
    <2>7. CASE LoadValue(t) \/ Extended(t) \/ StoreCasFails(t) \/ Install(t)
      BY <1>0, <2>7, KeepsLocks, Zenon DEF LoadValue, Extended, StoreCasFails, Install
    <2>8. CASE Extend(t)
      BY <1>0, <2>8, KeepsLocks DEF Extend, StartValidate
    <2>9. CASE StoreAgain(t)
      BY <1>0, <2>9, WriteLockFrame DEF StoreAgain
    <2>10. CASE StoreAcquire(t)
      BY <2>10, AcquireFrame
    <2>11. CASE CommitClock(t) \/ CommitValidated(t)
      BY <1>0, <2>11, KeepsLocks DEF CommitClock, CommitValidated, StartInstall, StartValidate
    <2>12. CASE CommitEnd(t)
      BY <1>0, <2>12, CommittedFrame DEF CommitEnd
    <2>13. CASE IrrevocableValidated(t) \/ AcquireIrrevocable(t)
      BY <1>0, <2>13, KeepsLocks DEF IrrevocableValidated, AcquireIrrevocable
    <2> QED
      BY <1>1, <2>1, <2>2, <2>3, <2>4, <2>5, <2>6, <2>7, <2>8, <2>9, <2>10, <2>11, <2>12,
         <2>13 DEF Running
  <1>2. CASE Call(t)
    <2>1. CASE Start(t) \/ RequestIrrevocable(t)
      BY <1>0, <2>1, KeepsLocks DEF Start, RequestIrrevocable
    <2>2. CASE Load(t)
      BY <1>0, <2>2, ReadLockFrame DEF Load
    <2>3. CASE Store(t)
      BY <1>0, <2>3, WriteLockFrame DEF Store
    <2>4. CASE CommitReadOnly(t)
      BY <1>0, <2>4, CommittedFrame DEF CommitReadOnly
    <2>5. CASE Commit(t)
      BY <1>0, <2>5, KeepsLocks, PlainRollbackFrame DEF Commit
    <2>6. CASE UserAbort(t)
      BY <1>0, <2>6, PlainRollbackFrame DEF UserAbort
    <2>7. CASE SetIrrevocable(t)
      BY <1>0, <2>7, KeepsLocks DEF SetIrrevocable, StartValidate
    <2>8. CASE SetIrrevocableFails(t)
      BY <1>0, <2>8, RollbackFrame DEF SetIrrevocableFails
    <2> QED
      BY <1>2, <2>1, <2>2, <2>3, <2>4, <2>5, <2>6, <2>7, <2>8 DEF Call
  <1> QED
    BY <1>1, <1>2

-----------------------------------------------------------------------------
(* The invariant *)

\* The steps of a unit store at which it has the lock.
Holding == {"write", "clock", "release"}

CallInv(t) ==
    /\ ~At(t, "none") => pc[t] = "idle"
    /\ unit[t].at \in {"cas", "release"} => unit[t].l.owner = NoTx
    /\ unit[t].at \in Holding => lock[LockOf(t)].owner = LOCK_UNIT

OneHolder ==
    \A t, u \in Tx : t # u /\ unit[t].at \in Holding /\ unit[u].at \in Holding =>
                        LockOf(t) # LockOf(u)

UnitInv ==
    /\ LockInv
    /\ unit \in [Tx -> UnitDesc]
    /\ \A t \in Tx : CallInv(t)
    /\ OneHolder

\* The stripe of a unit call is a stripe.
LEMMA LockOfType ==
  ASSUME UnitInv, NEW t \in Tx
  PROVE  LockOf(t) \in Stripe /\ lock[LockOf(t)] \in LockWord
  BY LockIdxType DEF LockOf, UnitInv, UnitDesc, LockInv, TypeInv, TypeOK

\* The word LOCK_UNIT names no transaction.
LEMMA LockUnitType ==
  LET w == [Timestamp(0) EXCEPT !.owner = LOCK_UNIT]
  IN  w \in LockWord /\ w.owner = LOCK_UNIT /\ LOCK_UNIT \notin Tx
  BY StmAssumption DEF Timestamp, LockWord

\* A unit call that changes neither locks nor transactions keeps LockInv.
LEMMA QuietLocks ==
  ASSUME LockInv, lock' = lock, tx' = tx, pc' = pc, loc' = loc, TypeInv'
  PROVE  LockInv'
  BY DEF LockInv, LockOwner, ThreadInv, Held, Undropped

\* Lock words may change, too, as long as they name no transaction before or after.
LEMMA UnnamedLocks ==
  ASSUME LockInv, tx' = tx, pc' = pc, loc' = loc, TypeInv', NEW s \in Stripe, NEW w,
         lock' = [lock EXCEPT ![s] = w], lock[s].owner \notin Tx, w.owner \notin Tx
  PROVE  LockInv'
  <1>1. \A t \in Tx : Held(t)' = Held(t) /\ ThreadInv(t)'
    BY DEF LockInv, ThreadInv, Held, Undropped
  <1>2. \A r \in Stripe : lock'[r] = IF r = s THEN w ELSE lock[r]
    BY DEF LockInv, TypeInv, TypeOK
  <1> QED
    BY <1>1, <1>2 DEF LockInv, LockOwner

\* A step of a unit call that leaves shared state alone.
LEMMA QuietStep ==
  ASSUME UnitInv, UNCHANGED txState, NEW t \in Tx, NEW u \in UnitDesc,
         unit' = [unit EXCEPT ![t] = u],
         u.at # "none" => pc[t] = "idle",
         u.at \in {"cas", "release"} => u.l.owner = NoTx,
         u.at \notin Holding
  PROVE  UnitInv'
  <1>1. /\ lock' = lock /\ tx' = tx /\ pc' = pc /\ loc' = loc /\ mem' = mem
        /\ clock' = clock /\ irrevocable' = irrevocable /\ seen' = seen /\ hist' = hist
    BY DEF txState, shared, aux
  <1>2. TypeInv'
    BY <1>1 DEF UnitInv, LockInv, TypeInv, TypeOK, HistoryNewest
  <1>3. LockInv'
    BY <1>1, <1>2, QuietLocks DEF UnitInv
  <1>4. unit' \in [Tx -> UnitDesc]
    BY DEF UnitInv
  <1>5. \A v \in Tx : unit'[v] = IF v = t THEN u ELSE unit[v]
    BY DEF UnitInv
  <1>6. \A v \in Tx : CallInv(v)'
    BY <1>1, <1>5 DEF UnitInv, CallInv, At, LockOf
  <1>7. OneHolder'
    BY <1>5 DEF UnitInv, OneHolder, LockOf
  <1> QED
    BY <1>3, <1>4, <1>6, <1>7 DEF UnitInv

\* A step of a unit store that has the lock, takes it or gives it back.
LEMMA LockingStep ==
  ASSUME UnitInv, TypeInv', NEW t \in Tx, NEW u \in UnitDesc, NEW w,
         tx' = tx, pc' = pc, loc' = loc,
         unit' = [unit EXCEPT ![t] = u],
         lock' = [lock EXCEPT ![LockOf(t)] = w],
         lock[LockOf(t)].owner \in {NoTx, LOCK_UNIT},
         lock[LockOf(t)].owner = NoTx \/ unit[t].at \in Holding,
         w.owner \in {NoTx, LOCK_UNIT},
         u.addr = unit[t].addr \/ u.at = "none",
         ~At(t, "none"),
         u.at \in {"cas", "release"} => u.l.owner = NoTx,
         u.at \in Holding => w.owner = LOCK_UNIT
  PROVE  UnitInv'
  <1>1. LockOf(t) \in Stripe /\ pc[t] = "idle"
    BY LockOfType DEF UnitInv, CallInv
  <1>2. LockInv'
    <2>1. NoTx \notin Tx /\ LOCK_UNIT \notin Tx
      BY StmAssumption
    <2> QED
      BY <1>1, <2>1, UnnamedLocks DEF UnitInv
  <1>3. unit' \in [Tx -> UnitDesc]
    BY DEF UnitInv
  <1>4. \A v \in Tx : unit'[v] = IF v = t THEN u ELSE unit[v]
    BY DEF UnitInv
  <1>5. \A r \in Stripe : lock'[r] = IF r = LockOf(t) THEN w ELSE lock[r]
    BY DEF UnitInv, LockInv, TypeInv, TypeOK
  <1>6. ASSUME NEW v \in Tx, v # t, unit[v].at \in Holding
        PROVE  LockOf(v) # LockOf(t)
    <2>1. lock[LockOf(v)].owner = LOCK_UNIT
      BY <1>6 DEF UnitInv, CallInv
    <2>2. CASE unit[t].at \in Holding
      BY <1>6, <2>2 DEF UnitInv, OneHolder
    <2>3. CASE lock[LockOf(t)].owner = NoTx
      BY <2>1, <2>3, StmAssumption
    <2> QED
      BY <2>2, <2>3
  <1>7. ASSUME NEW v \in Tx
        PROVE  CallInv(v)'
    <2>1. CASE v = t
      <3>1. unit'[t] = u /\ (u.at # "none" => LOCK_IDX(u.addr) = LockOf(t))
        BY <1>4 DEF LockOf
      <3>2. u.at \in Holding => lock'[LOCK_IDX(u.addr)].owner = LOCK_UNIT
        BY <1>1, <1>5, <3>1 DEF Holding
      <3> QED
        BY <1>1, <2>1, <3>1, <3>2 DEF CallInv, At, LockOf
    <2>2. CASE v # t
      <3>1. unit'[v] = unit[v] /\ CallInv(v) /\ LockOf(v) \in Stripe
        BY <1>4, <2>2, LockOfType DEF UnitInv
      <3>2. unit[v].at \in Holding => lock'[LockOf(v)] = lock[LockOf(v)]
        BY <1>5, <1>6, <2>2, <3>1
      <3> QED
        BY <3>1, <3>2 DEF CallInv, At, LockOf
    <2> QED
      BY <2>1, <2>2
  <1>8. OneHolder'
    <2>1. ASSUME NEW v \in Tx, v # t, unit[v].at \in Holding, u.at \in Holding
          PROVE  LOCK_IDX(unit[v].addr) # LOCK_IDX(u.addr)
      BY <1>6, <2>1 DEF LockOf, Holding
    <2> QED
      BY <1>4, <2>1 DEF UnitInv, OneHolder, LockOf
  <1> QED
    BY <1>2, <1>3, <1>7, <1>8 DEF UnitInv

\* A step of a transaction.
LEMMA TxStepInv ==
  ASSUME UnitInv, NEW t \in Tx, TxStep(t)
  PROVE  UnitInv'
  <1>1. (Running(t) \/ Call(t)) /\ At(t, "none") /\ unit' = unit
    BY DEF TxStep
  <1>2. LockInv /\ Next
    BY <1>1 DEF UnitInv, Next
  <1>3. TypeInv'
    BY <1>2, TypeStep DEF LockInv
  <1>4. LockInv'
    BY <1>2, <1>3, LockStep
  <1>5. Frame(t)
    BY <1>1, <1>2, StepFrame
  <1>6. ASSUME NEW v \in Tx
        PROVE  CallInv(v)'
    <2>1. CallInv(v) /\ LockOf(v)' = LockOf(v) /\ LockOf(v) \in Stripe
      BY <1>1, LockOfType DEF UnitInv, LockOf
    <2>2. ~At(v, "none") => pc'[v] = "idle"
      BY <1>1, <1>5, <2>1 DEF Frame, CallInv
    <2>3. unit[v].at \in Holding => lock'[LockOf(v)] = lock[LockOf(v)]
      BY <1>5, <2>1, StmAssumption DEF Frame, Claimable, CallInv
    <2> QED
      BY <1>1, <2>1, <2>2, <2>3 DEF CallInv, At
  <1>7. OneHolder'
    BY <1>1 DEF UnitInv, OneHolder, LockOf
  <1> QED
    BY <1>1, <1>4, <1>6, <1>7 DEF UnitInv

\* The descriptor of a call that has returned.
LEMMA NoCallType ==
  ASSUME NEW u \in UnitDesc
  PROVE  NoCall(u) \in UnitDesc /\ NoCall(u).at = "none" /\ NoCall(u).stamp = u.stamp
  <1>1. a0 \in Addr
    BY StmAssumption DEF a0
  <1> QED
    BY <1>1, TimestampType, StmAssumption DEF NoCall, UnitDesc

\* A bound or a ban on snapshot extension touches attributes of the descriptor only.
LEMMA SetExtensionInv ==
  ASSUME UnitInv, NEW t \in Tx, SetExtension(t)
  PROVE  UnitInv'
  <1>1. PICK e \in BOOLEAN, n \in Nat : tx' = [tx EXCEPT ![t].no_extend = e, ![t].end = n]
    <2>1. tx[t].end \in Nat /\ unit[t].stamp \in Nat
      BY DEF UnitInv, UnitDesc, LockInv, TypeInv, TypeOK, TxDesc
    <2>2. PICK enable \in BOOLEAN, given \in BOOLEAN :
             tx' = [tx EXCEPT ![t].no_extend = ~enable,
                              ![t].end = IF given /\ unit[t].stamp < tx[t].end
                                         THEN unit[t].stamp ELSE tx[t].end]
      BY DEF SetExtension
    <2>3. CASE given /\ unit[t].stamp < tx[t].end
      BY <2>1, <2>2, <2>3
    <2>4. CASE ~(given /\ unit[t].stamp < tx[t].end)
      BY <2>1, <2>2, <2>4
    <2> QED
      BY <2>3, <2>4
  <1>2. /\ lock' = lock /\ mem' = mem /\ clock' = clock /\ irrevocable' = irrevocable
        /\ pc' = pc /\ loc' = loc /\ seen' = seen /\ hist' = hist /\ unit' = unit
    BY DEF SetExtension, shared, aux
  <1>3. /\ tx' \in [Tx -> TxDesc]
        /\ \A v \in Tx : tx'[v].w_set = tx[v].w_set
    <2> DEFINE d == [tx[t] EXCEPT !.no_extend = e, !.end = n]
    <2>1. tx \in [Tx -> TxDesc] /\ tx[t] \in TxDesc
      BY DEF UnitInv, LockInv, TypeInv, TypeOK
    <2>2. d \in TxDesc /\ d.w_set = tx[t].w_set
      BY <2>1 DEF TxDesc
    <2>3. tx' = [tx EXCEPT ![t] = d]
      BY <1>1
    <2> HIDE DEF d
    <2> QED
      BY <2>1, <2>2, <2>3
  <1>4. TypeInv'
    BY <1>2, <1>3 DEF UnitInv, LockInv, TypeInv, TypeOK, HistoryNewest
  <1>5. \A v \in Tx : Held(v)' = Held(v) /\ ThreadInv(v)'
    BY <1>2, <1>3 DEF UnitInv, LockInv, Held, Undropped, ThreadInv
  <1>6. LockInv'
    BY <1>2, <1>4, <1>5 DEF UnitInv, LockInv, LockOwner
  <1> QED
    BY <1>2, <1>6 DEF UnitInv, CallInv, OneHolder, At, LockOf

\* The clock is reset while no unit store has a lock.
LEMMA UnitRolloverInv ==
  ASSUME UnitInv, UnitRollover
  PROVE  UnitInv'
  <1> DEFINE Blocked == {t \in UnitThreads : At(t, "barrier")}
             New(t) == [(IF t \in Blocked THEN NoCall(unit[t]) ELSE unit[t]) EXCEPT !.fresh = FALSE]
  <1>1. RolloverBut(Blocked) /\ unit' = [t \in Tx |-> New(t)]
    BY DEF UnitRollover
  <1>2. \A t \in Tx \cap Blocked : pc[t] = "idle"
    BY DEF UnitInv, CallInv, At
  <1>3. \A t \in Tx \ Blocked : At(t, "none") /\ pc[t] = "barrier"
    BY <1>1 DEF RolloverBut, UnitInv, CallInv
  <1>4. LockInv'
    BY <1>1, <1>2, RolloverType, RolloverLocks DEF UnitInv, LockInv
  <1>5. ASSUME NEW t \in Tx
        PROVE  New(t) \in UnitDesc /\ New(t).at = "none"
    <2>1. unit[t] \in UnitDesc
      BY DEF UnitInv
    <2>2. CASE t \in Blocked
      BY <2>1, <2>2, NoCallType DEF UnitDesc
    <2>3. CASE t \notin Blocked
      BY <1>3, <2>1, <2>3 DEF UnitDesc, At
    <2> QED
      BY <2>2, <2>3
  <1> HIDE DEF New
  <1>6. \A t \in Tx : unit'[t].at = "none"
    BY <1>1, <1>5
  <1> QED
    BY <1>1, <1>4, <1>5, <1>6 DEF UnitInv, CallInv, OneHolder, At, Holding

\* Every step of a unit load or store.
LEMMA UnitStepInv ==
  ASSUME UnitInv, NEW t \in Tx, UnitStep(t)
  PROVE  UnitInv'
  <1> DEFINE q == unit[t]
  <1>0. /\ q \in UnitDesc /\ unit \in [Tx -> UnitDesc] /\ CallInv(t) /\ TypeInv
        /\ LockOf(t) \in Stripe /\ lock[LockOf(t)] \in LockWord
    BY LockOfType DEF UnitInv, LockInv
  <1>1. CASE StmUnitLoad(t)
    <2>1. PICK a \in UnitAddr : unit' = [unit EXCEPT ![t] = [q EXCEPT !.at = "load", !.addr = a]]
      BY <1>1 DEF StmUnitLoad
    <2> DEFINE u == [q EXCEPT !.at = "load", !.addr = a]
    <2>2. u \in UnitDesc /\ u.at = "load" /\ unit' = [unit EXCEPT ![t] = u]
      BY <1>0, <2>1, UnitAssumption DEF UnitDesc
    <2>3. pc[t] = "idle" /\ UNCHANGED txState
      BY <1>1 DEF StmUnitLoad
    <2> HIDE DEF u
    <2> QED
      BY <2>2, <2>3, QuietStep DEF Holding
  <1>2. CASE StmUnitStore(t)
    <2>1. PICK a \in UnitAddr, w \in UnitWord, given \in BOOLEAN :
             unit' = [unit EXCEPT ![t] = [q EXCEPT !.at = "store", !.addr = a, !.value = w,
                                                   !.given = given]]
      BY <1>2 DEF StmUnitStore
    <2> DEFINE u == [q EXCEPT !.at = "store", !.addr = a, !.value = w, !.given = given]
    <2>2. u \in UnitDesc /\ u.at = "store" /\ unit' = [unit EXCEPT ![t] = u]
      BY <1>0, <2>1, UnitAssumption DEF UnitDesc
    <2>3. pc[t] = "idle" /\ UNCHANGED txState
      BY <1>2 DEF StmUnitStore
    <2> HIDE DEF u
    <2> QED
      BY <2>2, <2>3, QuietStep DEF Holding
  <1>3. CASE UnitLoadLock(t)
    <2> DEFINE u == [q EXCEPT !.at = "load_value", !.l = lock[LockOf(t)]]
    <2>1. unit' = [unit EXCEPT ![t] = u] /\ UNCHANGED txState /\ pc[t] = "idle"
      BY <1>0, <1>3 DEF UnitLoadLock, At, CallInv
    <2>2. u \in UnitDesc /\ u.at = "load_value"
      BY <1>0 DEF UnitDesc
    <2> HIDE DEF u
    <2> QED
      BY <2>1, <2>2, QuietStep DEF Holding
  <1>4. CASE UnitLoadValue(t)
    <2> DEFINE u == [q EXCEPT !.at = "load_relock", !.value = mem[q.addr]]
    <2>1. unit' = [unit EXCEPT ![t] = u] /\ UNCHANGED txState /\ pc[t] = "idle"
      BY <1>0, <1>4 DEF UnitLoadValue, At, CallInv
    <2>2. u \in UnitDesc /\ u.at = "load_relock"
      BY <1>0 DEF UnitDesc, TypeInv, TypeOK
    <2> HIDE DEF u
    <2> QED
      BY <2>1, <2>2, QuietStep DEF Holding
  <1>5. CASE UnitLoadReturn(t)
    <2> DEFINE u == [NoCall(q) EXCEPT !.stamp = q.l.version, !.fresh = TRUE]
    <2>1. unit' = [unit EXCEPT ![t] = u] /\ UNCHANGED txState
      BY <1>5 DEF UnitLoadReturn, Return1
    <2>2. u \in UnitDesc /\ u.at = "none"
      BY <1>0, NoCallType DEF UnitDesc, LockWord
    <2> HIDE DEF u
    <2> QED
      BY <2>1, <2>2, QuietStep DEF Holding
  <1>6. CASE UnitLoadRestart(t)
    <2> DEFINE l == lock[LockOf(t)]
               u == [q EXCEPT !.at = IF l.owner = NoTx THEN "load_value" ELSE "load",
                              !.value = InitWord,
                              !.l = IF l.owner = NoTx THEN l ELSE Timestamp(0)]
    <2>1. unit' = [unit EXCEPT ![t] = u] /\ UNCHANGED txState /\ pc[t] = "idle"
      BY <1>0, <1>6 DEF UnitLoadRestart, At, CallInv
    <2>2. u \in UnitDesc /\ u.at \in {"load", "load_value"}
      BY <1>0, TimestampType, StmAssumption DEF UnitDesc
    <2> HIDE DEF u
    <2> QED
      BY <2>1, <2>2, QuietStep DEF Holding
  <1>7. CASE UnitStoreLock(t)
    <2> DEFINE l == lock[LockOf(t)]
               u == IF q.given /\ l.version > q.stamp
                    THEN [NoCall(q) EXCEPT !.stamp = l.version, !.fresh = TRUE]
                    ELSE [q EXCEPT !.at = "cas", !.l = l]
    <2>1. unit' = [unit EXCEPT ![t] = u] /\ UNCHANGED txState /\ pc[t] = "idle" /\ l.owner = NoTx
      BY <1>0, <1>7 DEF UnitStoreLock, Return1, At, CallInv
    <2>2. u \in UnitDesc /\ (u.at = "none" \/ (u.at = "cas" /\ u.l = l))
      BY <1>0, NoCallType DEF UnitDesc, LockWord
    <2> HIDE DEF u
    <2> QED
      BY <2>1, <2>2, QuietStep DEF Holding
  <1>8. CASE UnitCasFails(t)
    <2> DEFINE u == [q EXCEPT !.at = "store", !.l = Timestamp(0)]
    <2>1. unit' = [unit EXCEPT ![t] = u] /\ UNCHANGED txState /\ pc[t] = "idle"
      BY <1>0, <1>8 DEF UnitCasFails, At, CallInv
    <2>2. u \in UnitDesc /\ u.at = "store"
      BY <1>0, TimestampType DEF UnitDesc
    <2> HIDE DEF u
    <2> QED
      BY <2>1, <2>2, QuietStep DEF Holding
  <1>9. CASE UnitCas(t)
    <2> DEFINE u == [q EXCEPT !.at = "write"]
               w == [Timestamp(0) EXCEPT !.owner = LOCK_UNIT]
    <2>1. /\ unit' = [unit EXCEPT ![t] = u] /\ lock' = [lock EXCEPT ![LockOf(t)] = w]
          /\ tx' = tx /\ pc' = pc /\ loc' = loc /\ mem' = mem /\ clock' = clock
          /\ irrevocable' = irrevocable /\ seen' = seen /\ hist' = hist
          /\ At(t, "cas") /\ lock[LockOf(t)] = q.l
      BY <1>9 DEF UnitCas, Step, UnitLockUnchanged, aux
    <2>2. u \in UnitDesc /\ u.at = "write" /\ u.addr = q.addr
      BY <1>0 DEF UnitDesc
    <2>3. w \in LockWord /\ w.owner = LOCK_UNIT
      BY LockUnitType
    <2>4. TypeInv'
      BY <1>0, <2>1, <2>3 DEF TypeInv, TypeOK, HistoryNewest
    <2>5. lock[LockOf(t)].owner = NoTx
      BY <1>0, <2>1 DEF CallInv, At
    <2> HIDE DEF u, w
    <2> QED
      BY <2>1, <2>2, <2>3, <2>4, <2>5, LockingStep DEF At
  <1>10. CASE UnitWrite(t)
    <2> DEFINE u == [q EXCEPT !.at = "clock"]
               w == lock[LockOf(t)]
    <2>1. /\ unit' = [unit EXCEPT ![t] = u] /\ lock' = [lock EXCEPT ![LockOf(t)] = w]
          /\ tx' = tx /\ pc' = pc /\ loc' = loc /\ clock' = clock /\ lock' = lock
          /\ irrevocable' = irrevocable /\ seen' = seen /\ hist' = hist
          /\ At(t, "write") /\ mem' = [mem EXCEPT ![q.addr] = q.value]
      BY <1>0, <1>10 DEF UnitWrite, Step, aux, TypeInv, TypeOK
    <2>2. u \in UnitDesc /\ u.at = "clock" /\ u.addr = q.addr
      BY <1>0 DEF UnitDesc
    <2>3. TypeInv'
      BY <1>0, <2>1 DEF TypeInv, TypeOK, HistoryNewest, UnitDesc
    <2>4. w.owner = LOCK_UNIT /\ q.at \in Holding
      BY <1>0, <2>1 DEF CallInv, At, Holding
    <2> HIDE DEF u
    <2> QED
      BY <2>1, <2>2, <2>3, <2>4, LockingStep DEF At
  <1>11. CASE UnitClock(t)
    <2> DEFINE u == [q EXCEPT !.at = "release", !.l = Timestamp(clock + 1),
                              !.stamp = IF q.given THEN clock + 1 ELSE q.stamp,
                              !.fresh = q.fresh \/ q.given]
               w == lock[LockOf(t)]
               h == [version |-> clock + 1, value |-> q.value]
    <2>0. clock + 1 \in Nat /\ h \in [version : Nat, value : Word] /\ q.addr \in Addr
      BY <1>0 DEF TypeInv, TypeOK, UnitDesc
    <2>1. /\ unit' = [unit EXCEPT ![t] = u] /\ lock' = [lock EXCEPT ![LockOf(t)] = w]
          /\ tx' = tx /\ pc' = pc /\ loc' = loc /\ clock' = clock + 1 /\ lock' = lock
          /\ irrevocable' = irrevocable /\ seen' = seen /\ mem' = mem
          /\ At(t, "clock") /\ hist' = [hist EXCEPT ![q.addr] = hist[q.addr] \cup {h}]
      BY <1>0, <1>11 DEF UnitClock, TypeInv, TypeOK
    <2>2. /\ u \in UnitDesc /\ u.at = "release" /\ u.addr = q.addr
          /\ u.l = Timestamp(clock + 1)
      BY <1>0, <2>0, TimestampType DEF UnitDesc
    <2>3. TypeInv'
      <3>1. HistoryNewest'
        <4>1. ASSUME NEW a \in Addr
              PROVE  \E n \in hist'[a] : \A g \in hist'[a] : g.version <= n.version
          <5>1. PICK n \in hist[a] : \A g \in hist[a] : g.version <= n.version
            BY <1>0 DEF TypeInv, HistoryNewest
          <5>2. hist[a] \in SUBSET [version : Nat, value : Word]
            BY <1>0 DEF TypeInv, TypeOK
          <5>3. hist'[a] = IF a = q.addr THEN hist[a] \cup {h} ELSE hist[a]
            BY <1>0, <2>0, <2>1 DEF TypeInv, TypeOK
          <5>4. CASE a # q.addr \/ h.version <= n.version
            BY <5>1, <5>3, <5>4
          <5>5. CASE a = q.addr /\ h.version > n.version
            <6>1. \A g \in hist[a] : g.version <= h.version
              BY <2>0, <5>1, <5>2, <5>5
            <6>2. h.version <= h.version /\ h \in hist'[a]
              BY <2>0, <5>3, <5>5
            <6>3. \A g \in hist'[a] : g.version <= h.version
              <7> HIDE DEF h
              <7> QED
                BY <5>3, <6>1, <6>2
            <6> QED
              BY <6>2, <6>3
          <5> QED
            BY <2>0, <5>2, <5>4, <5>5
        <4> QED
          BY <4>1 DEF HistoryNewest
      <3>2. hist' \in [Addr -> SUBSET [version : Nat, value : Word]]
        BY <1>0, <2>0, <2>1 DEF TypeInv, TypeOK
      <3> QED
        BY <1>0, <2>0, <2>1, <3>1, <3>2 DEF TypeInv, TypeOK
    <2>4. w.owner = LOCK_UNIT /\ q.at \in Holding /\ u.l.owner = NoTx
      BY <1>0, <2>1, <2>2 DEF CallInv, At, Holding, Timestamp
    <2> HIDE DEF u, h
    <2> QED
      BY <2>1, <2>2, <2>3, <2>4, LockingStep DEF At, Holding
  <1>12. CASE UnitRelease(t)
    <2> DEFINE u == IF q.l.version >= VERSION_MAX THEN [q EXCEPT !.at = "barrier"] ELSE NoCall(q)
               w == q.l
    <2>1. /\ unit' = [unit EXCEPT ![t] = u] /\ lock' = [lock EXCEPT ![LockOf(t)] = w]
          /\ tx' = tx /\ pc' = pc /\ loc' = loc /\ clock' = clock /\ mem' = mem
          /\ irrevocable' = irrevocable /\ seen' = seen /\ hist' = hist
          /\ At(t, "release")
      BY <1>12 DEF UnitRelease, Step, Return, aux
    <2>2. u \in UnitDesc /\ (u.at = "none" \/ (u.at = "barrier" /\ u.addr = q.addr))
      BY <1>0, NoCallType DEF UnitDesc
    <2>3. w \in LockWord /\ w.owner = NoTx
      BY <1>0, <2>1 DEF CallInv, At, UnitDesc
    <2>4. TypeInv'
      BY <1>0, <2>1, <2>3 DEF TypeInv, TypeOK, HistoryNewest
    <2>5. lock[LockOf(t)].owner = LOCK_UNIT /\ q.at \in Holding
      BY <1>0, <2>1 DEF CallInv, At, Holding
    <2> HIDE DEF u, w
    <2> QED
      BY <2>1, <2>2, <2>3, <2>4, <2>5, LockingStep DEF At, Holding
  <1> QED
    BY <1>1, <1>2, <1>3, <1>4, <1>5, <1>6, <1>7, <1>8, <1>9, <1>10, <1>11, <1>12 DEF UnitStep

\* Unit calls start from none, with no lock taken.
LEMMA UnitInitInv == UnitInit => UnitInv
  <1> SUFFICES ASSUME UnitInit
               PROVE  UnitInv
    OBVIOUS
  <1>1. LockInv
    BY LockInit DEF UnitInit
  <1>2. a0 \in Addr
    BY StmAssumption DEF a0
  <1>3. unit \in [Tx -> UnitDesc] /\ \A t \in Tx : unit[t].at = "none"
    BY <1>2, TimestampType, StmAssumption DEF UnitInit, UnitDesc
  <1> QED
    BY <1>1, <1>3 DEF UnitInv, CallInv, OneHolder, At, Holding

\* Every step of transactions and unit calls keeps the invariant.
LEMMA UnitNextInv == UnitInv /\ [UnitNext]_<<vars, unit>> => UnitInv'
  <1> SUFFICES ASSUME UnitInv, [UnitNext]_<<vars, unit>>
               PROVE  UnitInv'
    OBVIOUS
  <1>1. CASE UNCHANGED <<vars, unit>>
    <2>1. UNCHANGED vars /\ unit' = unit
      BY <1>1
    <2>2. TypeInv' /\ LockInv'
      BY <2>1, TypeStep, LockStep DEF UnitInv, LockInv
    <2> QED
      BY <2>1, <2>2 DEF UnitInv, CallInv, OneHolder, At, LockOf, vars
  <1>2. CASE UnitNext
    BY <1>2, TxStepInv, UnitStepInv, SetExtensionInv, UnitRolloverInv DEF UnitNext
  <1> QED
    BY <1>1, <1>2

\* Also beside unit loads and stores, for any number of threads, addresses and locks,
\* a lock names a transaction exactly while its write set has an entry for it to
\* drop: a unit store never takes the lock of a transaction, nor a transaction that of
\* a unit store, and each gives back only its own.
THEOREM UnitLockOwnership == UnitSpec => [](TypeOK /\ LockOwner)
  <1>1. UnitInv => TypeOK /\ LockOwner
    BY DEF UnitInv, LockInv, TypeInv
  <1> QED
    BY <1>1, UnitInitInv, UnitNextInv, PTL DEF UnitSpec

\* Two unit stores never have the same lock at the same time.
THEOREM UnitStoresExclude == UnitSpec => []OneHolder
  <1>1. UnitInv => OneHolder
    BY DEF UnitInv
  <1> QED
    BY <1>1, UnitInitInv, UnitNextInv, PTL DEF UnitSpec

-----------------------------------------------------------------------------
(* What unit calls and transactions leave in memory: a unit load knows all    *)
(* versions that its stripe can show it again, a unit store keeps its stripe. *)

\* The stripe has version v, or gets it back when the transaction that has its lock
\* rolls back: nobody has written to it since it had that version.
Restorable(s, v) ==
    \/ lock[s].owner = NoTx /\ lock[s].version = v
    \/ \E o \in Tx : /\ lock[s].owner = o /\ ~Publishing(o)
                     /\ \E j \in Covered(tx[o].w_set, s) : tx[o].w_set[j].version = v

\* No version that the stripe has, or may get back, is older than v, and what a unit
\* store has written is newer.
NotBefore(s, v) ==
    /\ lock[s].owner = NoTx => lock[s].version >= v
    /\ \A o \in Tx : lock[s].owner = o =>
          \A j \in Covered(tx[o].w_set, s) : tx[o].w_set[j].version >= v
    /\ \A o \in Tx : At(o, "release") /\ LockOf(o) = s => unit[o].l.version > v

\* A unit load still has the value of its lock word, if that can be met again.
LoadData(t) ==
    LET u == unit[t]  v == u.l.version IN
    u.at \in {"load_value", "load_relock"} =>
        /\ u.l.owner = NoTx /\ v <= clock
        /\ NotBefore(LockOf(t), v)
        /\ u.at = "load_relock" /\ Restorable(LockOf(t), v) => u.value = mem[u.addr]

\* A unit store finds a stripe that is clean and as old as its lock word, ...
Untouched(t) ==
    LET u == unit[t] IN
    \A a \in Addr : LOCK_IDX(a) = LockOf(t) =>
        /\ \A h \in hist[a] : h.version <= u.l.version
        /\ mem[a] = IF u.at = "clock" /\ a = u.addr THEN u.value ELSE Latest(a)

\* ... not newer than the caller's timestamp, and leaves it clean.
StoreData(t) ==
    LET u == unit[t] IN
    /\ u.at \in {"cas", "write", "clock"} /\ u.given => u.l.version <= u.stamp
    /\ u.at \in {"write", "clock"} => u.l.version <= clock /\ Untouched(t)
    /\ u.at = "release" => u.l.version <= clock /\ Clean(LockOf(t), u.l.version)

\* Only unit stores take locks with LOCK_UNIT.
Claims == \A s \in Stripe : lock[s].owner = LOCK_UNIT =>
              \E t \in Tx : unit[t].at \in Holding /\ LockOf(t) = s

UnitMemInv ==
    /\ UnitInv
    /\ \A s \in Stripe : FreeClean(s)
    /\ \A t \in Tx : Entries(t) /\ LoadData(t) /\ StoreData(t)
    /\ Claims

\* A step carries a unit load across a stripe: no older version comes, and the
\* version that it knows can only be met again with the memory that it had.
Carried(s) ==
    \A v \in Nat : v <= clock /\ NotBefore(s, v) =>
        /\ NotBefore(s, v)'
        /\ Restorable(s, v)' => /\ Restorable(s, v)
                                /\ \A a \in Addr : LOCK_IDX(a) = s => mem'[a] = mem[a]

\* A unit load whose stripe is carried keeps what it knows.
LEMMA LoadCarried ==
  ASSUME NEW t \in Tx, unit[t] \in UnitDesc, unit'[t] = unit[t], LoadData(t),
         clock \in Nat, clock' \in Nat, clock' >= clock,
         NEW s, s = LockOf(t), Carried(s)
  PROVE  LoadData(t)'
  <1> DEFINE u == unit[t]  v == u.l.version
  <1>1. v \in Nat /\ u.addr \in Addr /\ LockOf(t)' = s /\ s = LOCK_IDX(u.addr)
    BY DEF UnitDesc, LockWord, LockOf
  <1>2. SUFFICES ASSUME u.at \in {"load_value", "load_relock"}
                 PROVE  /\ u.l.owner = NoTx /\ v <= clock'
                        /\ NotBefore(s, unit[t].l.version)'
                        /\ u.at = "load_relock" /\ Restorable(s, unit[t].l.version)'
                              => u.value = mem'[u.addr]
    BY <1>1 DEF LoadData
  <1>3. /\ u.l.owner = NoTx /\ v <= clock /\ NotBefore(s, v)
        /\ u.at = "load_relock" /\ Restorable(s, v) => u.value = mem[u.addr]
    BY <1>2 DEF LoadData
  <1>4. PICK n \in Nat : n = v
    BY <1>1
  <1>5. /\ NotBefore(s, n)'
        /\ Restorable(s, n)' => Restorable(s, n) /\ mem'[u.addr] = mem[u.addr]
    BY <1>1, <1>3, <1>4 DEF Carried
  <1>6. unit'[t].l.version = n
    BY <1>4
  <1> QED
    BY <1>1, <1>3, <1>4, <1>5, <1>6

\* A stripe that a step leaves as it was.
LEMMA SameCarried ==
  ASSUME NEW s, lock'[s] = lock[s], pc' = pc, \A o \in Tx : tx'[o].w_set = tx[o].w_set,
         \A a \in Addr : LOCK_IDX(a) = s => mem'[a] = mem[a],
         \A o \in Tx : At(o, "release")' /\ LockOf(o)' = s =>
             At(o, "release") /\ LockOf(o) = s /\ unit'[o].l = unit[o].l
  PROVE  Carried(s)
  BY DEF Carried, NotBefore, Restorable, Publishing, Covered

\* A transaction that writes back goes on as long as it has the lock.
LEMMA PublishingStays ==
  ASSUME LockInv, NEW t \in Tx, StepOf(t), Publishing(t), Held(t) # {}
  PROVE  Publishing(t)'
  <1>1. ~Keeps(t) /\ ~Forgets(t) /\ ~Edits(t) /\ ~Publishes(t)
    BY PublishesEffect DEF Keeps, Forgets, Edits, Publishing, Timed, LockInv
  <1>2. ~StoreAcquire(t) /\ ~RollbackDrop(t)
    BY DEF StoreAcquire, RollbackDrop, Publishing
  <1>3. Install(t) \/ Drop(t)
    BY <1>1, <1>2 DEF StepOf, Kinds
  <1> QED
    BY <1>3, Zenon DEF Install, Drop, Goto, Publishing, LockInv, TypeInv, TypeOK

\* Memory changes only in a write-back.
LEMMA MemoryStays ==
  ASSUME LockInv, NEW t \in Tx, StepOf(t), ~Publishing(t)'
  PROVE  mem' = mem
  <1>1. ~Install(t)
    BY DEF Install, Goto, Publishing, LockInv, TypeInv, TypeOK
  <1>2. CASE Publishes(t)
    BY <1>2, PublishesEffect DEF LockInv
  <1>3. CASE Keeps(t) \/ Forgets(t) \/ Edits(t)
    BY <1>3 DEF Keeps, Forgets, Edits, SameData
  <1>4. CASE StoreAcquire(t) \/ RollbackDrop(t) \/ Drop(t)
    BY <1>4, Zenon DEF StoreAcquire, RollbackDrop, Drop
  <1> QED
    BY <1>1, <1>2, <1>3, <1>4 DEF StepOf, Kinds

\* The entries for a stripe have one version.
LEMMA OneVersion ==
  ASSUME NEW t \in Tx, Lists(t), NEW s,
         NEW j \in Covered(tx[t].w_set, s), NEW k \in Covered(tx[t].w_set, s)
  PROVE  tx[t].w_set[j].version = tx[t].w_set[k].version
  BY DEF Lists, Covered

\* A step of a transaction carries the unit loads of all stripes: it takes a lock
\* with the version that it has, keeps it, gives it back with that version, or
\* commits with a newer one.
LEMMA TxCarried ==
  ASSUME LockInv, TypeInv', NEW t \in Tx, StepOf(t), Entries(t), Entries(t)', unit' = unit,
         NEW s \in Stripe
  PROVE  Carried(s)
  <1>0. /\ TypeInv /\ lock \in [Stripe -> LockWord] /\ NoTx \notin Tx
        /\ \A u \in Tx \ {t} : tx'[u] = tx[u] /\ pc'[u] = pc[u]
        /\ \A u \in Tx \ {t} : Publishing(u)' = Publishing(u)
    BY StmAssumption DEF LockInv, TypeInv, TypeOK, StepOf, Others, Publishing
  <1>1. /\ \A j \in 1 .. Len(tx[t].w_set) : tx[t].w_set[j].version \in Nat
        /\ \A j \in 1 .. Len(tx'[t].w_set) : tx'[t].w_set[j].version \in Nat
        /\ lock[s].version \in Nat /\ loc[t].ts \in Nat
    <2>1. \A j \in 1 .. Len(tx[t].w_set) : tx[t].w_set[j] \in WEntry
      BY <1>0, EntryType
    <2>2. \A j \in 1 .. Len(tx'[t].w_set) : tx'[t].w_set[j] \in WEntry
      BY DEF TypeInv, TypeOK, TxDesc
    <2> QED
      BY <1>0, <2>1, <2>2 DEF WEntry, LockWord, TypeInv, TypeOK, Locals
  <1> SUFFICES ASSUME NEW v \in Nat, NotBefore(s, v)
               PROVE  /\ NotBefore(s, v)'
                      /\ Restorable(s, v)' =>
                            /\ Restorable(s, v)
                            /\ \A a \in Addr : LOCK_IDX(a) = s => mem'[a] = mem[a]
    BY DEF Carried
  <1>2. \A o \in Tx : At(o, "release")' /\ LockOf(o)' = s => unit'[o].l.version > v
    BY DEF NotBefore, At, LockOf
  <1>3. CASE Spared(t, s)
    <2>1. lock'[s] = lock[s] /\ s \notin Held(t) /\ lock[s].owner # t
      BY <1>3 DEF Spared, LockInv, LockOwner
    <2>2. \A a \in Addr : LOCK_IDX(a) = s => mem'[a] = mem[a]
      BY <2>1, Elsewhere
    <2>3. NotBefore(s, v)'
      BY <1>0, <1>2, <2>1 DEF NotBefore
    <2>4. Restorable(s, v)' => Restorable(s, v)
      BY <1>0, <2>1 DEF Restorable
    <2> QED
      BY <2>2, <2>3, <2>4
  <1>4. CASE KeptBy(t, s)
    <2>1. PICK j \in 1 .. Len(tx[t].w_set) :
             /\ LOCK_IDX(tx[t].w_set[j].addr) = s
             /\ j \in 1 .. Len(tx'[t].w_set)
             /\ tx'[t].w_set[j].addr = tx[t].w_set[j].addr
             /\ tx'[t].w_set[j].version = tx[t].w_set[j].version
      BY <1>4 DEF KeptBy
    <2>2. s \in Held(t) /\ lock'[s] = lock[s] /\ lock[s].owner = t
      BY <1>4, HeldApart DEF KeptBy
    <2>3. j \in Covered(tx[t].w_set, s) /\ j \in Covered(tx'[t].w_set, s)
      BY <2>1 DEF Covered
    <2>4. tx[t].w_set[j].version >= v
      BY <2>2, <2>3 DEF NotBefore
    <2>5. \A k \in Covered(tx'[t].w_set, s) : tx'[t].w_set[k].version = tx[t].w_set[j].version
      BY <2>1, <2>3 DEF Entries, Lists, Covered
    <2>6. NotBefore(s, v)'
      BY <1>0, <1>2, <2>2, <2>4, <2>5 DEF NotBefore
    <2>7. ASSUME Restorable(s, v)'
          PROVE  Restorable(s, v) /\ mem' = mem
      <3>1. ~Publishing(t)' /\ tx[t].w_set[j].version = v
        BY <1>0, <2>2, <2>5, <2>7 DEF Restorable
      <3>2. ~Publishing(t)
        BY <2>2, <3>1, PublishingStays
      <3> QED
        BY <2>2, <2>3, <3>1, <3>2, MemoryStays DEF Restorable
    <2> QED
      BY <2>6, <2>7
  <1>5. CASE FreedBy(t, s)
    <2> DEFINE i == loc[t].i  e == tx[t].w_set[i]
    <2>1. i \in 1 .. Len(tx[t].w_set) /\ s = LOCK_IDX(e.addr) /\ s \in Held(t)
      BY <1>0, <1>5, RemainingEntry, RemainingHeld, Zenon DEF FreedBy
    <2>2. i \in Covered(tx[t].w_set, s) /\ lock[s].owner = t
      BY <2>1, HeldApart, Zenon DEF Covered
    <2>3. e.version >= v /\ e.version \in Nat /\ loc[t].ts \in Nat
      BY <1>1, <2>1, <2>2, Zenon DEF NotBefore
    <2>4. CASE RollbackDrop(t)
      <3>1. lock'[s] = Timestamp(e.version)
        BY <1>5, <2>4 DEF FreedBy
      <3>2. /\ lock'[s].owner = NoTx /\ lock'[s].version = e.version /\ mem' = mem
            /\ ~Publishing(t)
        <4>1. mem' = mem /\ pc[t] = "rollback"
          BY <2>4 DEF RollbackDrop
        <4>2. lock'[s].owner = NoTx /\ lock'[s].version = e.version
          BY <3>1 DEF Timestamp
        <4> QED
          BY <4>1, <4>2 DEF Publishing
      <3>3. NotBefore(s, v)'
        BY <1>0, <1>2, <2>3, <3>2 DEF NotBefore
      <3>4. Restorable(s, v)' => Restorable(s, v)
        BY <1>0, <2>2, <3>2 DEF Restorable
      <3> QED
        BY <3>2, <3>3, <3>4
    <2>5. CASE Drop(t) /\ ~RollbackDrop(t)
      <3>1. lock'[s] = Timestamp(loc[t].ts)
        BY <1>5, <2>5 DEF FreedBy
      <3>2. lock'[s].owner = NoTx /\ lock'[s].version = loc[t].ts /\ Publishing(t)
        BY <2>5, <3>1 DEF Timestamp, Drop, Publishing
      <3>3. e.version < loc[t].ts
        BY <2>1, <3>2, Zenon DEF Entries, Dated
      <3>4. loc[t].ts > v
        BY <2>3, <3>3
      <3>5. NotBefore(s, v)'
        BY <1>0, <1>2, <2>3, <3>2, <3>4 DEF NotBefore
      <3>6. ~Restorable(s, v)'
        BY <1>0, <2>3, <3>2, <3>4 DEF Restorable
      <3> QED
        BY <3>5, <3>6
    <2> QED
      BY <1>5, <2>4, <2>5, ZenonT(60) DEF FreedBy
  <1>6. CASE TakenBy(t, s)
    <2>1. PICK j \in 1 .. Len(tx'[t].w_set) :
             LOCK_IDX(tx'[t].w_set[j].addr) = s /\ tx'[t].w_set[j].version = lock[s].version
      BY <1>6 DEF TakenBy
    <2>2. lock[s].owner = NoTx /\ lock'[s].owner = t /\ mem' = mem
      BY <1>6 DEF TakenBy, OwnedBy, StoreAcquire
    <2>3. lock[s].version >= v
      BY <2>2 DEF NotBefore
    <2>4. \A k \in Covered(tx'[t].w_set, s) : tx'[t].w_set[k].version = lock[s].version
      BY <2>1 DEF Entries, Lists, Covered
    <2>5. NotBefore(s, v)'
      BY <1>0, <1>2, <2>2, <2>3, <2>4 DEF NotBefore
    <2>6. Restorable(s, v)' => Restorable(s, v)
      BY <1>0, <2>2, <2>4 DEF Restorable
    <2> QED
      BY <2>2, <2>5, <2>6
  <1> QED
    BY <1>3, <1>4, <1>5, <1>6, StripeSteps

\* A step of a transaction.
LEMMA TxStepMem ==
  ASSUME UnitMemInv, NEW t \in Tx, TxStep(t)
  PROVE  UnitMemInv'
  <1>1. (Running(t) \/ Call(t)) /\ unit' = unit /\ UnitInv /\ UnitInv' /\ LockInv
    BY TxStepInv DEF UnitMemInv, TxStep, UnitInv
  <1>2. StepOf(t) /\ TypeInv' /\ LOCK_UNIT \notin Tx \cup {NoTx}
    BY <1>1, StepKinds, StmAssumption DEF UnitInv, LockInv
  <1>3. clock \in Nat /\ clock' \in Nat /\ clock' >= clock
    BY <1>1, <1>2, ClockForward
  <1>4. \A u \in Tx : Entries(u)'
    BY <1>1, <1>2, OwnEntries, OtherEntries DEF UnitMemInv
  <1>5. \A s \in Stripe : FreeClean(s)'
    BY <1>1, <1>2, FreeStripes DEF UnitMemInv
  <1>6. \A u \in Tx : LoadData(u)'
    <2> SUFFICES ASSUME NEW u \in Tx
                 PROVE  LoadData(u)'
      OBVIOUS
    <2>1. unit[u] \in UnitDesc /\ LoadData(u)
      BY <1>1 DEF UnitInv, UnitMemInv
    <2>2. PICK s \in Stripe : s = LockOf(u)
      BY <1>1, LockOfType
    <2>3. Carried(s)
      BY <1>1, <1>2, <1>4, TxCarried DEF UnitMemInv
    <2> QED
      BY <1>1, <1>3, <2>1, <2>2, <2>3, LoadCarried
  <1>7. ASSUME NEW u \in Tx
        PROVE  StoreData(u)'
    <2>1. /\ unit[u] \in UnitDesc /\ LockOf(u) \in Stripe /\ StoreData(u) /\ CallInv(u)
          /\ unit'[u] = unit[u] /\ LockOf(u)' = LockOf(u) /\ unit[u].l.version \in Nat
      BY <1>1, LockOfType DEF UnitInv, UnitMemInv, UnitDesc, LockWord, LockOf
    <2>2. ASSUME unit[u].at \in Holding, NEW a \in Addr, LOCK_IDX(a) = LockOf(u)
          PROVE  mem'[a] = mem[a] /\ hist'[a] = hist[a] /\ Latest(a)' = Latest(a)
      <3>1. lock[LockOf(u)].owner = LOCK_UNIT
        BY <2>1, <2>2 DEF CallInv
      <3>2. LOCK_IDX(a) \notin Held(t)
        BY <1>1, <1>2, <2>1, <2>2, <3>1, HeldApart
      <3> QED
        BY <1>1, <1>2, <3>2, Elsewhere DEF Latest
    <2>3. unit[u].at \in {"write", "clock"} => Untouched(u)'
      BY <2>1, <2>2 DEF StoreData, Untouched, Holding
    <2>4. unit[u].at = "release" => Clean(LockOf(u), unit[u].l.version)'
      BY <2>1, <2>2 DEF StoreData, Clean, Holding
    <2> QED
      BY <1>3, <2>1, <2>3, <2>4 DEF StoreData
  <1>8. Claims'
    <2> SUFFICES ASSUME NEW s \in Stripe, lock'[s].owner = LOCK_UNIT
                 PROVE  \E u \in Tx : unit[u].at \in Holding /\ LockOf(u) = s
      BY <1>1 DEF Claims, LockOf
    <2>1. lock[s].owner \notin Tx \cup {NoTx}
      BY <1>1, <1>2, OwnersStay
    <2>2. lock[s].owner = LOCK_UNIT
      BY <1>1, <2>1 DEF LockInv, TypeInv, TypeOK, LockWord
    <2> QED
      BY <2>2 DEF UnitMemInv, Claims
  <1> QED
    BY <1>1, <1>4, <1>5, <1>6, <1>7, <1>8 DEF UnitMemInv

\* Entries of transactions that a step outside of them leaves alone.
LEMMA EntriesStay ==
  ASSUME LockInv, tx' = tx, pc' = pc, loc' = loc,
         clock' \in Nat, clock' >= clock,
         \A a \in Addr : lock[LOCK_IDX(a)].owner \in Tx => mem'[a] = mem[a] /\ hist'[a] = hist[a],
         NEW t \in Tx, Entries(t)
  PROVE  Entries(t)'
  <1>1. clock \in Nat /\ loc[t].ts \in Nat
        /\ \A j \in 1 .. Len(tx[t].w_set) : tx[t].w_set[j].version \in Nat
    BY EntryType DEF LockInv, TypeInv, TypeOK, Locals, WEntry
  <1>2. Publishing(t)' = Publishing(t) /\ Timed(t)' = Timed(t)
        /\ Remaining(t)' = Remaining(t) /\ NotWritten(t)' = NotWritten(t)
    BY DEF Publishing, Timed, Remaining, NotWritten, Undropped
  <1>3. ASSUME NEW a \in Addr, LOCK_IDX(a) \in Held(t)
        PROVE  mem'[a] = mem[a] /\ Latest(a)' = Latest(a) /\ hist'[a] = hist[a]
    BY <1>3, HeldApart, LockIdxType DEF Latest
  <1>4. \A j \in Remaining(t) : /\ LOCK_IDX(tx[t].w_set[j].addr) \in Held(t)
                                /\ tx[t].w_set[j].addr \in Addr
    BY RemainingHeld, RemainingEntry DEF LockInv, WEntry
  <1>5. Lists(t)'
    BY DEF Entries, Lists
  <1>6. Dated(t)'
    BY <1>1, <1>2 DEF Entries, Dated
  <1>7. Buffered(t)'
    BY <1>2, <1>3, <1>4 DEF Entries, Buffered, Clean, Unmasked
  <1>8. Installing(t)'
    BY <1>2, <1>3, <1>4 DEF Entries, Installing
  <1> QED
    BY <1>5, <1>6, <1>7, <1>8 DEF Entries

\* A step of a unit call that leaves shared state alone and has no lock.
LEMMA QuietMem ==
  ASSUME UnitMemInv, UnitInv', UNCHANGED txState, NEW t \in Tx, NEW u,
         unit' = [unit EXCEPT ![t] = u], unit[t].at \notin Holding, u.at \notin Holding,
         LoadData(t)', StoreData(t)'
  PROVE  UnitMemInv'
  <1>1. /\ lock' = lock /\ tx' = tx /\ pc' = pc /\ loc' = loc /\ mem' = mem
        /\ clock' = clock /\ hist' = hist
    BY DEF txState, shared, aux
  <1>2. UnitInv /\ LockInv /\ clock \in Nat
    BY DEF UnitMemInv, UnitInv, LockInv, TypeInv, TypeOK
  <1>3. \A v \in Tx : unit'[v] = IF v = t THEN u ELSE unit[v]
    BY <1>2 DEF UnitInv
  <1>4. \A s \in Stripe : FreeClean(s)'
    BY <1>1 DEF UnitMemInv, FreeClean, Clean, Latest
  <1>5. \A v \in Tx : Entries(v)'
    BY <1>1, <1>2, EntriesStay DEF UnitMemInv
  <1>6. ASSUME NEW v \in Tx, v # t
        PROVE  LoadData(v)' /\ StoreData(v)'
    <2>1. /\ unit'[v] = unit[v] /\ unit[v] \in UnitDesc /\ LockOf(v)' = LockOf(v)
          /\ LoadData(v) /\ StoreData(v)
      BY <1>2, <1>3, <1>6 DEF UnitInv, UnitMemInv, LockOf
    <2>2. PICK s : s = LockOf(v)
      OBVIOUS
    <2>3. Carried(s)
      BY <1>1, <1>3, SameCarried DEF At, LockOf, Holding
    <2>5. LoadData(v)'
      BY <1>1, <1>2, <2>1, <2>2, <2>3, LoadCarried
    <2>4. StoreData(v)'
      BY <1>1, <2>1 DEF StoreData, Untouched, Clean, Latest
    <2> QED
      BY <2>4, <2>5
  <1>7. Claims'
    BY <1>1, <1>3 DEF UnitMemInv, Claims, LockOf
  <1> QED
    BY <1>4, <1>5, <1>6, <1>7 DEF UnitMemInv

\* A step of a unit store that takes its lock, has it or gives it back.
LEMMA LockingMem ==
  ASSUME UnitMemInv, UnitInv', NEW t \in Tx, NEW u, NEW w, NEW r \in Stripe, r = LockOf(t),
         tx' = tx, pc' = pc, loc' = loc,
         unit' = [unit EXCEPT ![t] = u],
         lock' = [lock EXCEPT ![r] = w],
         clock' \in Nat, clock' >= clock,
         \A a \in Addr : LOCK_IDX(a) # r => mem'[a] = mem[a] /\ hist'[a] = hist[a],
         lock[r].owner \in {NoTx, LOCK_UNIT},
         lock[r].owner = NoTx \/ unit[t].at \in Holding,
         \/ u.at \in Holding /\ u.addr = unit[t].addr
         \/ u.at \notin Holding /\ w.owner = NoTx,
         u.at \notin {"load_value", "load_relock"},
         FreeClean(r)', StoreData(t)', Carried(r)
  PROVE  UnitMemInv'
  <1>1. /\ UnitInv /\ LockInv /\ clock \in Nat
        /\ NoTx \notin Tx /\ LOCK_UNIT \notin Tx \cup {NoTx}
    BY StmAssumption DEF UnitMemInv, UnitInv, LockInv, TypeInv, TypeOK
  <1>2. /\ \A v \in Tx : unit'[v] = IF v = t THEN u ELSE unit[v]
        /\ \A s \in Stripe : lock'[s] = IF s = r THEN w ELSE lock[s]
    BY <1>1 DEF UnitInv, LockInv, TypeInv, TypeOK
  <1>3. LockOf(t)' = LOCK_IDX(u.addr) /\ r = LOCK_IDX(unit[t].addr)
    BY <1>2 DEF LockOf
  <1>4. ASSUME NEW s \in Stripe
        PROVE  FreeClean(s)'
    <2>1. CASE s # r
      <3>1. /\ lock'[s] = lock[s] /\ lock[s].version \in Nat
            /\ \A a \in Addr : LOCK_IDX(a) = s =>
                  mem'[a] = mem[a] /\ hist'[a] = hist[a] /\ Latest(a)' = Latest(a)
        BY <1>1, <1>2, <2>1 DEF LockInv, TypeInv, TypeOK, LockWord, Latest
      <3>2. FreeClean(s)
        BY DEF UnitMemInv
      <3>3. lock[s].owner = NoTx => lock[s].version <= clock'
        BY <1>1, <3>1, <3>2 DEF FreeClean
      <3> QED
        BY <3>1, <3>2, <3>3 DEF FreeClean, Clean
    <2> QED
      BY <2>1
  <1>5. \A v \in Tx : Entries(v)'
    <2>1. \A a \in Addr : lock[LOCK_IDX(a)].owner \in Tx => mem'[a] = mem[a] /\ hist'[a] = hist[a]
      BY <1>1
    <2> QED
      BY <1>1, <2>1, EntriesStay DEF UnitMemInv
  <1>6. ASSUME NEW v \in Tx, v # t
        PROVE  LoadData(v)'
    <2>1. unit'[v] = unit[v] /\ unit[v] \in UnitDesc /\ LoadData(v)
      BY <1>1, <1>2, <1>6 DEF UnitInv, UnitMemInv
    <2>2. PICK s \in Stripe : s = LockOf(v)
      BY <1>1, LockOfType
    <2>3. Carried(s)
      <3>1. CASE s # r
        <4>1. lock'[s] = lock[s] /\ \A a \in Addr : LOCK_IDX(a) = s => mem'[a] = mem[a]
          BY <1>2, <3>1
        <4>2. \A o \in Tx : At(o, "release")' /\ LockOf(o)' = s =>
                 At(o, "release") /\ LockOf(o) = s /\ unit'[o].l = unit[o].l
          BY <1>2, <1>3, <3>1 DEF At, LockOf, Holding
        <4> QED
          BY <4>1, <4>2, SameCarried
      <3> QED
        BY <3>1
    <2> QED
      BY <1>1, <2>1, <2>2, <2>3, LoadCarried
  <1>7. ASSUME NEW v \in Tx, v # t
        PROVE  StoreData(v)'
    <2>1. /\ unit'[v] = unit[v] /\ StoreData(v) /\ LockOf(v)' = LockOf(v) /\ CallInv(v)
          /\ unit[v].l.version \in Nat
      BY <1>1, <1>2, <1>7 DEF UnitInv, UnitMemInv, LockOf, UnitDesc, LockWord
    <2>2. ASSUME unit[v].at \in Holding
          PROVE  LockOf(v) # r
      <3>1. lock[LockOf(v)].owner = LOCK_UNIT
        BY <2>1, <2>2 DEF CallInv
      <3>2. unit[t].at \in Holding => LockOf(v) # r
        BY <1>1, <1>7, <2>2 DEF UnitInv, OneHolder
      <3> QED
        BY <1>1, <3>1, <3>2
    <2>3. \A a \in Addr : unit[v].at \in Holding /\ LOCK_IDX(a) = LockOf(v) =>
             mem'[a] = mem[a] /\ hist'[a] = hist[a] /\ Latest(a)' = Latest(a)
      BY <2>2 DEF Latest
    <2>4. unit[v].at \in {"write", "clock"} => Untouched(v)'
      BY <2>1, <2>3 DEF StoreData, Untouched, Holding
    <2>5. unit[v].at = "release" => Clean(LockOf(v), unit[v].l.version)'
      BY <2>1, <2>3 DEF StoreData, Clean, Holding
    <2> QED
      BY <1>1, <2>1, <2>4, <2>5 DEF StoreData
  <1>8. LoadData(t)'
    BY <1>2 DEF LoadData
  <1>9. Claims'
    <2> SUFFICES ASSUME NEW s \in Stripe, lock'[s].owner = LOCK_UNIT
                 PROVE  \E v \in Tx : unit'[v].at \in Holding /\ LockOf(v)' = s
      BY DEF Claims
    <2>1. CASE s = r
      <3>1. u.at \in Holding /\ u.addr = unit[t].addr
        BY <1>1, <1>2, <2>1
      <3> QED
        BY <1>2, <1>3, <2>1, <3>1
    <2>2. CASE s # r
      <3>1. PICK v \in Tx : unit[v].at \in Holding /\ LockOf(v) = s
        BY <1>2, <2>2 DEF UnitMemInv, Claims
      <3>2. v # t
        BY <2>2, <3>1
      <3> QED
        BY <1>2, <3>1, <3>2 DEF LockOf
    <2> QED
      BY <2>1, <2>2
  <1> QED
    BY <1>4, <1>5, <1>6, <1>7, <1>8, <1>9 DEF UnitMemInv

\* A lock word that is free is the oldest that a unit load of its stripe can meet.
LEMMA FreeNotBefore ==
  ASSUME UnitMemInv, NEW s \in Stripe, lock[s].owner = NoTx
  PROVE  NotBefore(s, lock[s].version) /\ lock[s].version <= clock
  <1>1. NoTx \notin Tx /\ NoTx # LOCK_UNIT /\ lock[s].version \in Nat
    BY StmAssumption DEF UnitMemInv, UnitInv, LockInv, TypeInv, TypeOK, LockWord
  <1>2. \A o \in Tx : At(o, "release") => LockOf(o) # s
    BY <1>1 DEF UnitMemInv, UnitInv, CallInv, At, Holding
  <1> QED
    BY <1>1, <1>2 DEF NotBefore, UnitMemInv, FreeClean

\* The steps of a unit load.
LEMMA UnitLoadMem ==
  ASSUME UnitMemInv, UnitInv', NEW t \in Tx,
         \/ StmUnitLoad(t) \/ UnitLoadLock(t) \/ UnitLoadValue(t) \/ UnitLoadReturn(t)
         \/ UnitLoadRestart(t)
  PROVE  UnitMemInv'
  <1> DEFINE q == unit[t]
  <1>0. /\ q \in UnitDesc /\ unit \in [Tx -> UnitDesc] /\ UnitInv
        /\ LockOf(t) \in Stripe /\ LoadData(t)
    BY LockOfType DEF UnitMemInv, UnitInv
  <1>1. ASSUME NEW u, unit' = [unit EXCEPT ![t] = u], UNCHANGED txState,
               u.at \notin {"load_value", "load_relock", "cas", "write", "clock", "release"},
               q.at \notin Holding
        PROVE  UnitMemInv'
    <2>1. unit'[t] = u
      BY <1>0, <1>1
    <2>2. LoadData(t)' /\ StoreData(t)' /\ u.at \notin Holding
      BY <1>1, <2>1 DEF LoadData, StoreData, Holding
    <2> QED
      BY <1>1, <2>2, QuietMem
  <1>2. ASSUME NEW u, unit' = [unit EXCEPT ![t] = u], UNCHANGED txState,
               u.at \in {"load_value", "load_relock"}, q.at \notin Holding,
               u.l.owner = NoTx, u.l.version <= clock, u.addr = q.addr,
               NotBefore(LockOf(t), u.l.version),
               u.at = "load_relock" => u.value = mem[u.addr]
        PROVE  UnitMemInv'
    <2>1. /\ unit'[t] = u /\ LockOf(t)' = LockOf(t) /\ u.at \notin Holding
          /\ \A o \in Tx \ {t} : unit'[o] = unit[o]
          /\ lock' = lock /\ tx' = tx /\ pc' = pc /\ mem' = mem /\ clock' = clock
      BY <1>0, <1>2 DEF LockOf, Holding, txState, shared
    <2>2. PICK s \in Stripe : s = LockOf(t)
      BY <1>0
    <2>3. NotBefore(s, u.l.version)
      BY <1>2, <2>2
    <2>4. NotBefore(s, u.l.version)'
      BY <2>1, <2>3 DEF NotBefore, At, LockOf, Holding
    <2>5. LoadData(t)'
      BY <1>2, <2>1, <2>2, <2>4 DEF LoadData
    <2>6. StoreData(t)'
      BY <1>2, <2>1 DEF StoreData
    <2> QED
      BY <1>2, <2>1, <2>5, <2>6, QuietMem
  <1>3. CASE StmUnitLoad(t)
    <2>1. PICK a \in UnitAddr : unit' = [unit EXCEPT ![t] = [q EXCEPT !.at = "load", !.addr = a]]
      BY <1>3 DEF StmUnitLoad
    <2>2. [q EXCEPT !.at = "load", !.addr = a].at = "load"
      BY <1>0 DEF UnitDesc
    <2> QED
      BY <1>1, <1>3, <2>1, <2>2 DEF StmUnitLoad, At, Holding
  <1>4. CASE UnitLoadLock(t)
    <2> DEFINE u == [q EXCEPT !.at = "load_value", !.l = lock[LockOf(t)]]
    <2>1. unit' = [unit EXCEPT ![t] = u] /\ UNCHANGED txState /\ lock[LockOf(t)].owner = NoTx
          /\ q.at = "load"
      BY <1>4 DEF UnitLoadLock, At
    <2>2. u.at = "load_value" /\ u.addr = q.addr /\ u.l = lock[LockOf(t)]
      BY <1>0 DEF UnitDesc
    <2>3. NotBefore(LockOf(t), lock[LockOf(t)].version) /\ lock[LockOf(t)].version <= clock
      BY <1>0, <2>1, FreeNotBefore
    <2> HIDE DEF u
    <2> QED
      BY <1>2, <2>1, <2>2, <2>3 DEF Holding
  <1>5. CASE UnitLoadValue(t)
    <2> DEFINE u == [q EXCEPT !.at = "load_relock", !.value = mem[q.addr]]
    <2>1. unit' = [unit EXCEPT ![t] = u] /\ UNCHANGED txState /\ q.at = "load_value"
      BY <1>5 DEF UnitLoadValue, At
    <2>2. u.at = "load_relock" /\ u.addr = q.addr /\ u.l = q.l /\ u.value = mem[q.addr]
      BY <1>0 DEF UnitDesc
    <2>3. q.l.owner = NoTx /\ q.l.version <= clock /\ NotBefore(LockOf(t), q.l.version)
      BY <1>0, <2>1 DEF LoadData
    <2> HIDE DEF u
    <2> QED
      BY <1>2, <2>1, <2>2, <2>3 DEF Holding
  <1>6. CASE UnitLoadReturn(t)
    <2> DEFINE u == [NoCall(q) EXCEPT !.stamp = q.l.version, !.fresh = TRUE]
    <2>1. unit' = [unit EXCEPT ![t] = u] /\ UNCHANGED txState /\ q.at = "load_relock"
      BY <1>6 DEF UnitLoadReturn, Return1, At
    <2>2. u.at = "none"
      BY <1>0, NoCallType DEF UnitDesc
    <2> HIDE DEF u
    <2> QED
      BY <1>1, <2>1, <2>2 DEF Holding
  <1>7. CASE UnitLoadRestart(t)
    <2> DEFINE l == lock[LockOf(t)]
               u == [q EXCEPT !.at = IF l.owner = NoTx THEN "load_value" ELSE "load",
                              !.value = InitWord,
                              !.l = IF l.owner = NoTx THEN l ELSE Timestamp(0)]
    <2>1. unit' = [unit EXCEPT ![t] = u] /\ UNCHANGED txState /\ q.at = "load_relock"
      BY <1>7 DEF UnitLoadRestart, At
    <2>2. /\ u.addr = q.addr
          /\ IF l.owner = NoTx THEN u.at = "load_value" /\ u.l = l ELSE u.at = "load"
      BY <1>0 DEF UnitDesc
    <2> HIDE DEF u
    <2>3. CASE l.owner = NoTx
      <3>1. NotBefore(LockOf(t), l.version) /\ l.version <= clock
        BY <1>0, <2>3, FreeNotBefore
      <3> QED
        BY <1>2, <2>1, <2>2, <2>3, <3>1 DEF Holding
    <2>4. CASE l.owner # NoTx
      BY <1>1, <2>1, <2>2, <2>4 DEF Holding
    <2> QED
      BY <2>3, <2>4
  <1> QED
    BY <1>3, <1>4, <1>5, <1>6, <1>7

\* The steps of a unit store before it has its lock.
LEMMA UnitStoreMem ==
  ASSUME UnitMemInv, UnitInv', NEW t \in Tx,
         StmUnitStore(t) \/ UnitStoreLock(t) \/ UnitCasFails(t)
  PROVE  UnitMemInv'
  <1> DEFINE q == unit[t]
  <1>0. q \in UnitDesc /\ unit \in [Tx -> UnitDesc] /\ lock[LockOf(t)].version \in Nat
    BY LockOfType DEF UnitMemInv, UnitInv, LockWord
  <1>1. ASSUME NEW u, unit' = [unit EXCEPT ![t] = u], UNCHANGED txState,
               u.at \in {"none", "store", "cas"}, q.at \notin Holding,
               u.at = "cas" /\ u.given => u.l.version <= u.stamp
        PROVE  UnitMemInv'
    <2>1. unit'[t] = u
      BY <1>0, <1>1
    <2>2. LoadData(t)' /\ StoreData(t)' /\ u.at \notin Holding
      BY <1>1, <2>1 DEF LoadData, StoreData, Holding
    <2> QED
      BY <1>1, <2>2, QuietMem
  <1>2. CASE StmUnitStore(t)
    <2>1. PICK a \in UnitAddr, w \in UnitWord, given \in BOOLEAN :
             unit' = [unit EXCEPT ![t] = [q EXCEPT !.at = "store", !.addr = a, !.value = w,
                                                   !.given = given]]
      BY <1>2 DEF StmUnitStore
    <2> DEFINE u == [q EXCEPT !.at = "store", !.addr = a, !.value = w, !.given = given]
    <2>2. u.at = "store" /\ unit' = [unit EXCEPT ![t] = u] /\ UNCHANGED txState /\ q.at = "none"
      BY <1>0, <1>2, <2>1 DEF UnitDesc, StmUnitStore, At
    <2> HIDE DEF u
    <2> QED
      BY <1>1, <2>2 DEF Holding
  <1>3. CASE UnitStoreLock(t)
    <2> DEFINE l == lock[LockOf(t)]
    <2>1. UNCHANGED txState /\ q.at = "store"
      BY <1>3 DEF UnitStoreLock, At
    <2>2. CASE q.given /\ l.version > q.stamp
      <3> DEFINE u == [NoCall(q) EXCEPT !.stamp = l.version, !.fresh = TRUE]
      <3>1. unit' = [unit EXCEPT ![t] = u]
        BY <1>3, <2>2 DEF UnitStoreLock, Return1
      <3>2. u.at = "none"
        BY <1>0, NoCallType DEF UnitDesc
      <3> HIDE DEF u
      <3> QED
        BY <1>1, <2>1, <3>1, <3>2 DEF Holding
    <2>3. CASE ~(q.given /\ l.version > q.stamp)
      <3> DEFINE u == [q EXCEPT !.at = "cas", !.l = l]
      <3>1. unit' = [unit EXCEPT ![t] = u]
        BY <1>3, <2>3 DEF UnitStoreLock
      <3>2. u.at = "cas" /\ u.given = q.given /\ u.l = l /\ u.stamp = q.stamp
        BY <1>0 DEF UnitDesc
      <3>3. q.stamp \in Nat
        BY <1>0 DEF UnitDesc
      <3> HIDE DEF u
      <3>4. u.given => u.l.version <= u.stamp
        BY <1>0, <2>3, <3>2, <3>3
      <3> QED
        BY <1>1, <2>1, <3>1, <3>2, <3>4 DEF Holding
    <2> QED
      BY <2>2, <2>3
  <1>4. CASE UnitCasFails(t)
    <2> DEFINE u == [q EXCEPT !.at = "store", !.l = Timestamp(0)]
    <2>1. unit' = [unit EXCEPT ![t] = u] /\ UNCHANGED txState /\ q.at = "cas"
      BY <1>4 DEF UnitCasFails, At
    <2>2. u.at = "store"
      BY <1>0 DEF UnitDesc
    <2> HIDE DEF u
    <2> QED
      BY <1>1, <2>1, <2>2 DEF Holding
  <1> QED
    BY <1>2, <1>3, <1>4

\* The version that a unit store is about to release is new, or it was so before.
Ahead(t, s) ==
    \/ unit'[t].l.version > clock /\ unit'[t].l.version \in Nat
    \/ At(t, "release") /\ LockOf(t) = s /\ unit'[t].l = unit[t].l

\* A stripe that a unit store has, or gives back with its timestamp, can show no
\* version that a unit load knows.
LEMMA StoreCarries ==
  ASSUME NEW s, clock \in Nat,
         lock'[s].owner \in {NoTx, LOCK_UNIT},
         lock'[s].owner = NoTx =>
             \E o \in Tx : /\ At(o, "release") /\ LockOf(o) = s
                           /\ lock'[s].version = unit[o].l.version,
         \A o \in Tx : At(o, "release")' /\ LockOf(o)' = s => Ahead(o, s),
         \A o \in Tx : unit[o].l.version \in Nat
  PROVE  Carried(s)
  <1> SUFFICES ASSUME NEW v \in Nat, v <= clock, NotBefore(s, v)
               PROVE  NotBefore(s, v)' /\ ~Restorable(s, v)'
    BY DEF Carried
  <1>1. NoTx \notin Tx /\ LOCK_UNIT \notin Tx \cup {NoTx}
    BY StmAssumption
  <1>2. ASSUME lock'[s].owner = NoTx
        PROVE  lock'[s].version > v /\ lock'[s].version \in Nat
    BY <1>2 DEF NotBefore
  <1>3. ~Restorable(s, v)'
    BY <1>1, <1>2 DEF Restorable
  <1>4. ASSUME NEW o \in Tx, At(o, "release")', LockOf(o)' = s
        PROVE  unit'[o].l.version > v
    <2>1. CASE unit'[o].l.version > clock /\ unit'[o].l.version \in Nat
      BY <2>1
    <2>2. CASE At(o, "release") /\ LockOf(o) = s /\ unit'[o].l = unit[o].l
      BY <2>2 DEF NotBefore
    <2> QED
      BY <1>4, <2>1, <2>2 DEF Ahead
  <1>5. NotBefore(s, v)'
    BY <1>1, <1>2, <1>4 DEF NotBefore
  <1> QED
    BY <1>3, <1>5

\* A unit store that has its lock, after it: its stripe is carried, and not free.
LEMMA HoldingMem ==
  ASSUME UnitMemInv, UnitInv', NEW t \in Tx, NEW u \in UnitDesc, NEW w,
         tx' = tx, pc' = pc, loc' = loc,
         unit' = [unit EXCEPT ![t] = u],
         NEW r \in Stripe, r = LockOf(t),
         lock' = [lock EXCEPT ![r] = w],
         clock' \in Nat, clock' >= clock,
         \A a \in Addr : LOCK_IDX(a) # r => mem'[a] = mem[a] /\ hist'[a] = hist[a],
         lock[r].owner \in {NoTx, LOCK_UNIT},
         lock[r].owner = NoTx \/ unit[t].at \in Holding,
         w.owner = LOCK_UNIT, u.at \in Holding, u.addr = unit[t].addr,
         u.at = "release" => u.l.version > clock,
         StoreData(t)'
  PROVE  UnitMemInv'
  <1>1. /\ UnitInv /\ NoTx # LOCK_UNIT /\ clock \in Nat
        /\ unit \in [Tx -> UnitDesc] /\ u.l.version \in Nat
        /\ \A o \in Tx : unit[o].l.version \in Nat
    BY StmAssumption DEF UnitMemInv, UnitInv, LockInv, TypeInv, TypeOK, UnitDesc, LockWord
  <1>2. lock'[r] = w /\ \A o \in Tx : unit'[o] = IF o = t THEN u ELSE unit[o]
    BY <1>1 DEF UnitInv, LockInv, TypeInv, TypeOK
  <1>3. FreeClean(r)'
    BY <1>1, <1>2 DEF FreeClean
  <1>4. Carried(r)
    <2>1. ASSUME NEW o \in Tx, At(o, "release")', LockOf(o)' = r
          PROVE  Ahead(o, r)
      <3>1. CASE o = t
        BY <1>1, <1>2, <2>1, <3>1 DEF Ahead, At
      <3>2. CASE o # t
        BY <1>1, <1>2, <2>1, <3>2 DEF Ahead, At, LockOf
      <3> QED
        BY <3>1, <3>2
    <2>2. lock'[r].owner = LOCK_UNIT
      BY <1>2
    <2> QED
      BY <1>1, <2>1, <2>2, StoreCarries
  <1> QED
    BY <1>1, <1>3, <1>4, LockingMem DEF Holding

\* The steps of a unit store that take its lock, write, and give it back.
LEMMA UnitWriteMem ==
  ASSUME UnitMemInv, UnitInv', NEW t \in Tx,
         UnitCas(t) \/ UnitWrite(t) \/ UnitClock(t) \/ UnitRelease(t)
  PROVE  UnitMemInv'
  <1> DEFINE q == unit[t]
  <1>0. /\ q \in UnitDesc /\ unit \in [Tx -> UnitDesc] /\ UnitInv /\ LockInv /\ CallInv(t)
        /\ StoreData(t) /\ clock \in Nat /\ q.l.version \in Nat /\ q.stamp \in Nat
        /\ q.addr \in Addr /\ q.value \in Word /\ mem \in [Addr -> Word]
        /\ lock \in [Stripe -> LockWord] /\ NoTx # LOCK_UNIT
        /\ hist \in [Addr -> SUBSET [version : Nat, value : Word]]
    BY StmAssumption
    DEF UnitMemInv, UnitInv, LockInv, TypeInv, TypeOK, UnitDesc, LockWord
  <1>1. PICK r \in Stripe : r = LockOf(t)
    BY <1>0, LockOfType
  <1>2. r = LOCK_IDX(q.addr)
    BY <1>1 DEF LockOf
  <1>3. CASE UnitCas(t)
    <2> DEFINE u == [q EXCEPT !.at = "write"]
               w == [Timestamp(0) EXCEPT !.owner = LOCK_UNIT]
    <2>1. /\ unit' = [unit EXCEPT ![t] = u] /\ lock' = [lock EXCEPT ![r] = w]
          /\ tx' = tx /\ pc' = pc /\ loc' = loc /\ mem' = mem /\ clock' = clock /\ hist' = hist
          /\ q.at = "cas" /\ lock[r] = q.l
      BY <1>1, <1>3 DEF UnitCas, Step, UnitLockUnchanged, aux, At
    <2>2. /\ u \in UnitDesc /\ u.at = "write" /\ u.addr = q.addr /\ u.l = q.l
          /\ u.given = q.given /\ u.stamp = q.stamp
      BY <1>0 DEF UnitDesc
    <2>3. w.owner = LOCK_UNIT
      BY LockUnitType
    <2> HIDE DEF u, w
    <2>4. lock[r].owner = NoTx
      BY <1>0, <2>1 DEF CallInv
    <2>5. q.l.version <= clock /\ \A a \in Addr : LOCK_IDX(a) = r =>
              mem[a] = Latest(a) /\ \A h \in hist[a] : h.version <= q.l.version
      BY <2>1, <2>4 DEF UnitMemInv, FreeClean, Clean
    <2>6. unit'[t] = u /\ LockOf(t)' = r
      BY <1>0, <1>2, <2>1, <2>2 DEF LockOf
    <2>7. Untouched(t)'
      BY <2>1, <2>2, <2>5, <2>6 DEF Untouched, Latest
    <2>8. StoreData(t)'
      BY <1>0, <2>1, <2>2, <2>5, <2>6, <2>7 DEF StoreData
    <2>9. /\ clock' \in Nat /\ clock' >= clock /\ u.at \in Holding /\ u.at # "release"
          /\ \A a \in Addr : LOCK_IDX(a) # r => mem'[a] = mem[a] /\ hist'[a] = hist[a]
      BY <1>0, <2>1, <2>2 DEF Holding
    <2> QED
      BY <1>1, <2>1, <2>2, <2>3, <2>4, <2>8, <2>9, HoldingMem
  <1>4. CASE UnitWrite(t)
    <2> DEFINE u == [q EXCEPT !.at = "clock"]
               w == lock[r]
    <2>1. /\ unit' = [unit EXCEPT ![t] = u] /\ lock' = lock
          /\ tx' = tx /\ pc' = pc /\ loc' = loc /\ clock' = clock /\ hist' = hist
          /\ q.at = "write" /\ mem' = [mem EXCEPT ![q.addr] = q.value]
      BY <1>4 DEF UnitWrite, Step, aux, At
    <2>2. /\ u \in UnitDesc /\ u.at = "clock" /\ u.addr = q.addr /\ u.l = q.l
          /\ u.given = q.given /\ u.stamp = q.stamp /\ u.value = q.value
      BY <1>0 DEF UnitDesc
    <2>3. lock' = [lock EXCEPT ![r] = w] /\ w.owner = LOCK_UNIT
      BY <1>0, <1>1, <2>1 DEF CallInv, Holding
    <2> HIDE DEF u
    <2>4. \A a \in Addr : mem'[a] = IF a = q.addr THEN q.value ELSE mem[a]
      BY <1>0, <2>1
    <2>5. unit'[t] = u /\ LockOf(t)' = r
      BY <1>0, <1>2, <2>1, <2>2 DEF LockOf
    <2>6. q.l.version <= clock /\ \A a \in Addr : LOCK_IDX(a) = r =>
              mem[a] = Latest(a) /\ \A h \in hist[a] : h.version <= q.l.version
      BY <1>0, <1>1, <2>1 DEF StoreData, Untouched
    <2>7. Untouched(t)'
      BY <2>1, <2>2, <2>4, <2>5, <2>6 DEF Untouched, Latest
    <2>8. StoreData(t)'
      BY <1>0, <2>1, <2>2, <2>5, <2>6, <2>7 DEF StoreData
    <2>9. \A a \in Addr : LOCK_IDX(a) # r => mem'[a] = mem[a] /\ hist'[a] = hist[a]
      BY <1>2, <2>1, <2>4
    <2>10. /\ clock' \in Nat /\ clock' >= clock /\ u.at \in Holding /\ u.at # "release"
           /\ q.at \in Holding
      BY <1>0, <2>1, <2>2 DEF Holding
    <2> QED
      BY <1>1, <2>1, <2>2, <2>3, <2>8, <2>9, <2>10, HoldingMem
  <1>5. CASE UnitClock(t)
    <2> DEFINE u == [q EXCEPT !.at = "release", !.l = Timestamp(clock + 1),
                              !.stamp = IF q.given THEN clock + 1 ELSE q.stamp,
                              !.fresh = q.fresh \/ q.given]
               w == lock[r]
               h == [version |-> clock + 1, value |-> q.value]
    <2>0. clock + 1 \in Nat /\ clock + 1 > clock
      BY <1>0
    <2>1. /\ unit' = [unit EXCEPT ![t] = u] /\ lock' = lock /\ mem' = mem
          /\ tx' = tx /\ pc' = pc /\ loc' = loc /\ clock' = clock + 1
          /\ q.at = "clock" /\ hist' = [hist EXCEPT ![q.addr] = hist[q.addr] \cup {h}]
      BY <1>0, <1>5 DEF UnitClock, At
    <2>2. /\ u \in UnitDesc /\ u.at = "release" /\ u.addr = q.addr
          /\ u.l = Timestamp(clock + 1) /\ u.l.version = clock + 1
      BY <1>0, <2>0, TimestampType DEF UnitDesc, Timestamp
    <2>3. lock' = [lock EXCEPT ![r] = w] /\ w.owner = LOCK_UNIT
      BY <1>0, <1>1, <2>1 DEF CallInv, Holding
    <2>4. h.version = clock + 1 /\ h.value = q.value
      OBVIOUS
    <2> HIDE DEF u, h
    <2>5. unit'[t] = u /\ LockOf(t)' = r
      BY <1>0, <1>2, <2>1, <2>2 DEF LockOf
    <2>6. q.l.version <= clock /\ \A a \in Addr : LOCK_IDX(a) = r =>
              /\ \A g \in hist[a] : g.version <= q.l.version
              /\ mem[a] = IF a = q.addr THEN q.value ELSE Latest(a)
      BY <1>0, <1>1, <2>1 DEF StoreData, Untouched
    <2>7. ASSUME NEW a \in Addr, LOCK_IDX(a) = r
          PROVE  mem'[a] = Latest(a)' /\ \A g \in hist'[a] : g.version <= clock + 1
      <3>1. \A g \in hist[a] : g.version \in Nat /\ g.version <= clock
        BY <1>0, <2>6, <2>7
      <3>2. CASE a = q.addr
        <4>1. hist'[a] = hist[a] \cup {h} /\ mem'[a] = h.value
          BY <1>0, <2>1, <2>4, <2>6, <2>7, <3>2
        <4>2. ASSUME NEW g \in hist'[a]
              PROVE  g.version \in Nat /\ g.version <= clock + 1
          <5>1. CASE g = h
            BY <2>0, <2>4, <5>1
          <5>2. CASE g \in hist[a]
            BY <1>0, <3>1, <5>2
          <5> QED
            BY <4>1, <5>1, <5>2
        <4>3. \A g \in hist'[a] \ {h} : g.version < h.version
          BY <1>0, <2>4, <3>1, <4>1
        <4>4. Newest(hist'[a]) = h
          BY <4>1, <4>2, <4>3, NewestIs
        <4> QED
          BY <4>1, <4>2, <4>4 DEF Latest
      <3>3. CASE a # q.addr
        <4>1. hist'[a] = hist[a] /\ mem'[a] = Latest(a)
          BY <1>0, <2>1, <2>6, <2>7, <3>3
        <4> QED
          BY <1>0, <3>1, <4>1 DEF Latest
      <3> QED
        BY <3>2, <3>3
    <2>8. StoreData(t)'
      <3>1. Clean(r, unit[t].l.version)'
        BY <2>2, <2>5, <2>7 DEF Clean
      <3>2. unit'[t].l.version <= clock'
        BY <2>0, <2>1, <2>2, <2>5
      <3> QED
        BY <2>2, <2>5, <3>1, <3>2 DEF StoreData, Clean
    <2>9. \A a \in Addr : LOCK_IDX(a) # r => mem'[a] = mem[a] /\ hist'[a] = hist[a]
      BY <1>2, <2>1
    <2>10. clock' \in Nat /\ clock' >= clock /\ u.l.version > clock
      BY <1>0, <2>0, <2>1, <2>2
    <2>11. u.at \in Holding /\ q.at \in Holding
      BY <2>1, <2>2 DEF Holding
    <2> QED
      BY <1>1, <2>1, <2>2, <2>3, <2>8, <2>9, <2>10, <2>11, HoldingMem
  <1>6. CASE UnitRelease(t)
    <2> DEFINE u == IF q.l.version >= VERSION_MAX THEN [q EXCEPT !.at = "barrier"] ELSE NoCall(q)
               w == q.l
    <2>1. /\ unit' = [unit EXCEPT ![t] = u] /\ lock' = [lock EXCEPT ![r] = w]
          /\ tx' = tx /\ pc' = pc /\ loc' = loc /\ clock' = clock /\ mem' = mem /\ hist' = hist
          /\ q.at = "release"
      BY <1>1, <1>6 DEF UnitRelease, Step, Return, aux, At
    <2>2. u \in UnitDesc /\ u.at \in {"none", "barrier"}
      BY <1>0, NoCallType DEF UnitDesc
    <2>3. w.owner = NoTx /\ lock[r].owner = LOCK_UNIT /\ q.at \in Holding
      BY <1>0, <1>1, <2>1 DEF CallInv, Holding
    <2> HIDE DEF u
    <2>4. /\ unit'[t] = u /\ lock'[r] = q.l
          /\ \A o \in Tx : unit'[o] = IF o = t THEN u ELSE unit[o]
      BY <1>0, <2>1
    <2>5. FreeClean(r)'
      <3>1. q.l.version <= clock /\ Clean(r, q.l.version)
        BY <1>0, <1>1, <2>1 DEF StoreData
      <3> QED
        BY <2>1, <2>4, <3>1 DEF FreeClean, Clean, Latest
    <2>6. StoreData(t)'
      BY <2>2, <2>4 DEF StoreData
    <2>7. Carried(r)
      <3>1. \A o \in Tx : unit[o].l.version \in Nat
        BY <1>0 DEF UnitDesc, LockWord
      <3>2. \A o \in Tx : At(o, "release")' /\ LockOf(o)' = r => Ahead(o, r)
        BY <2>2, <2>4 DEF Ahead, At, LockOf
      <3>3. At(t, "release") /\ lock'[r].version = unit[t].l.version
        BY <2>1, <2>4 DEF At
      <3>4. lock'[r].owner = NoTx
        BY <2>3, <2>4
      <3> HIDE DEF w
      <3> QED
        BY <1>0, <1>1, <2>3, <3>1, <3>2, <3>3, <3>4, StoreCarries
    <2>8. /\ clock' \in Nat /\ clock' >= clock /\ u.at \notin Holding
          /\ u.at \notin {"load_value", "load_relock"}
          /\ \A a \in Addr : LOCK_IDX(a) # r => mem'[a] = mem[a] /\ hist'[a] = hist[a]
      BY <1>0, <2>1, <2>2 DEF Holding
    <2> QED
      BY <1>1, <2>1, <2>3, <2>5, <2>6, <2>7, <2>8, LockingMem
  <1> QED
    BY <1>3, <1>4, <1>5, <1>6

\* A bound or a ban on snapshot extension touches neither entries nor locks.
LEMMA SetExtensionMem ==
  ASSUME UnitMemInv, UnitInv', NEW t \in Tx, SetExtension(t)
  PROVE  UnitMemInv'
  <1>1. /\ lock' = lock /\ mem' = mem /\ clock' = clock /\ pc' = pc /\ loc' = loc
        /\ hist' = hist /\ unit' = unit /\ UnitInv /\ clock \in Nat
    BY DEF SetExtension, shared, aux, UnitMemInv, UnitInv, LockInv, TypeInv, TypeOK
  <1>2. \A v \in Tx : tx'[v].w_set = tx[v].w_set
    <2>1. PICK e, n : tx' = [tx EXCEPT ![t].no_extend = e, ![t].end = n]
      BY DEF SetExtension
    <2>2. tx \in [Tx -> TxDesc]
      BY <1>1 DEF UnitInv, LockInv, TypeInv, TypeOK
    <2> QED
      BY <2>1, <2>2 DEF TxDesc
  <1>3. \A s \in Stripe : FreeClean(s)'
    BY <1>1 DEF UnitMemInv, FreeClean, Clean, Latest
  <1>4. ASSUME NEW v \in Tx
        PROVE  Entries(v)'
    <2>1. Publishing(v)' = Publishing(v) /\ Timed(v)' = Timed(v)
          /\ Remaining(v)' = Remaining(v) /\ NotWritten(v)' = NotWritten(v)
      BY <1>1, <1>2 DEF Publishing, Timed, Remaining, NotWritten, Undropped
    <2>2. Entries(v)
      BY DEF UnitMemInv
    <2>3. Lists(v)'
      BY <1>2, <2>2, SMTT(40) DEF Entries, Lists
    <2>4. Dated(v)'
      BY <1>1, <1>2, <2>1, <2>2 DEF Entries, Dated
    <2>5. Buffered(v)'
      BY <1>1, <1>2, <2>1, <2>2 DEF Entries, Buffered, Clean, Unmasked, Latest
    <2>6. Installing(v)'
      BY <1>1, <1>2, <2>1, <2>2 DEF Entries, Installing, Latest
    <2> QED
      BY <2>3, <2>4, <2>5, <2>6 DEF Entries
  <1>5. ASSUME NEW v \in Tx
        PROVE  LoadData(v)' /\ StoreData(v)'
    <2>1. PICK s : s = LockOf(v)
      OBVIOUS
    <2>2. Carried(s)
      BY <1>1, <1>2, SameCarried DEF At, LockOf
    <2>3. LoadData(v)'
      BY <1>1, <2>1, <2>2, LoadCarried DEF UnitMemInv, UnitInv
    <2>4. StoreData(v)'
      BY <1>1 DEF UnitMemInv, StoreData, Untouched, Clean, Latest, LockOf
    <2> QED
      BY <2>3, <2>4
  <1>6. Claims'
    BY <1>1 DEF UnitMemInv, Claims, LockOf
  <1> QED
    BY <1>3, <1>4, <1>5, <1>6 DEF UnitMemInv

\* At the reset of the clock no unit call is under way, but those that wait for it.
LEMMA UnitRolloverIdle ==
  ASSUME UnitInv, UnitRollover, NEW t \in Tx
  PROVE  unit[t].at \in {"none", "barrier"} /\ unit'[t].at = "none"
  <1> DEFINE Blocked == {v \in UnitThreads : At(v, "barrier")}
  <1>1. RolloverBut(Blocked) /\ unit[t] \in UnitDesc /\ CallInv(t)
    BY DEF UnitRollover, UnitInv
  <1>2. unit'[t] = [(IF t \in Blocked THEN NoCall(unit[t]) ELSE unit[t]) EXCEPT !.fresh = FALSE]
    BY DEF UnitRollover
  <1>3. CASE t \in Blocked
    <2>1. NoCall(unit[t]) \in UnitDesc /\ NoCall(unit[t]).at = "none"
      BY <1>1, NoCallType
    <2>2. unit[t].at = "barrier"
      BY <1>3 DEF At
    <2> QED
      BY <1>2, <1>3, <2>1, <2>2 DEF UnitDesc
  <1>4. CASE t \notin Blocked
    <2>1. pc[t] = "barrier"
      BY <1>1, <1>4 DEF RolloverBut
    <2>2. unit[t].at = "none"
      BY <1>1, <2>1 DEF CallInv, At
    <2> HIDE DEF Blocked
    <2> QED
      BY <1>1, <1>2, <1>4, <2>2 DEF UnitDesc
  <1> QED
    BY <1>3, <1>4

\* The reset of the clock.
LEMMA UnitRolloverMem ==
  ASSUME UnitMemInv, UnitInv', UnitRollover
  PROVE  UnitMemInv'
  <1> DEFINE Blocked == {t \in UnitThreads : At(t, "barrier")}
  <1>1. UnitInv /\ LockInv /\ RolloverBut(Blocked) /\ \A t \in Tx \cap Blocked : pc[t] = "idle"
    BY DEF UnitMemInv, UnitInv, CallInv, At, UnitRollover
  <1>2. \A t \in Tx : unit[t].at \in {"none", "barrier"} /\ unit'[t].at = "none"
    BY <1>1, UnitRolloverIdle
  <1>3. ASSUME NEW s \in Stripe
        PROVE  lock[s].owner \in Tx \cup {NoTx}
    <2>1. lock[s].owner # LOCK_UNIT
      BY <1>2 DEF UnitMemInv, Claims, Holding
    <2> QED
      BY <1>1, <2>1 DEF LockInv, TypeInv, TypeOK, LockWord
  <1> HIDE DEF Blocked
  <1>4. /\ \A s \in Stripe : FreeClean(s)' /\ lock'[s].owner \in Tx \cup {NoTx}
        /\ \A t \in Tx : Entries(t)'
    BY <1>1, <1>3, RolloverMemory DEF UnitMemInv
  <1>5. \A t \in Tx : LoadData(t)' /\ StoreData(t)'
    BY <1>2 DEF LoadData, StoreData
  <1>6. Claims'
    BY <1>4, StmAssumption DEF Claims
  <1> QED
    BY <1>4, <1>5, <1>6 DEF UnitMemInv

\* Memory and lock words agree at the start.
LEMMA UnitMemInit == UnitInit => UnitMemInv
  <1> SUFFICES ASSUME UnitInit
               PROVE  UnitMemInv
    OBVIOUS
  <1>1. MemInv /\ UnitInv
    BY MemInit, UnitInitInv DEF UnitInit
  <1>2. \A t \in Tx : LoadData(t) /\ StoreData(t)
    BY DEF UnitInit, LoadData, StoreData
  <1>3. Claims
    BY <1>1, StmAssumption DEF MemInv, Claims
  <1> QED
    BY <1>1, <1>2, <1>3 DEF UnitMemInv, MemInv

\* Every step of transactions and unit calls.
LEMMA UnitMemNext == UnitMemInv /\ [UnitNext]_<<vars, unit>> => UnitMemInv'
  <1> SUFFICES ASSUME UnitMemInv, [UnitNext]_<<vars, unit>>
               PROVE  UnitMemInv'
    OBVIOUS
  <1>0. UnitInv /\ UnitInv'
    BY UnitNextInv DEF UnitMemInv
  <1>1. CASE UNCHANGED <<vars, unit>>
    <2>1. /\ lock' = lock /\ mem' = mem /\ clock' = clock /\ pc' = pc /\ loc' = loc /\ tx' = tx
          /\ hist' = hist /\ unit' = unit
      BY <1>1 DEF vars
    <2>2. \A s \in Stripe : FreeClean(s)'
      BY <2>1 DEF UnitMemInv, FreeClean, Clean, Latest
    <2>3. ASSUME NEW t \in Tx
          PROVE  Entries(t)'
      <3>1. Entries(t)
        BY DEF UnitMemInv
      <3>2. /\ Publishing(t)' = Publishing(t) /\ Timed(t)' = Timed(t)
            /\ Remaining(t)' = Remaining(t) /\ NotWritten(t)' = NotWritten(t)
        BY <2>1 DEF Publishing, Timed, Remaining, NotWritten, Undropped
      <3>3. Lists(t)' /\ Dated(t)'
        BY <2>1, <3>1, <3>2 DEF Entries, Lists, Dated
      <3>4. Buffered(t)'
        BY <2>1, <3>1, <3>2 DEF Entries, Buffered, Clean, Latest, Unmasked
      <3>5. Installing(t)'
        BY <2>1, <3>1, <3>2 DEF Entries, Installing, Latest
      <3> QED
        BY <3>3, <3>4, <3>5 DEF Entries
    <2>4. ASSUME NEW t \in Tx
          PROVE  LoadData(t)'
      <3>1. LoadData(t) /\ LockOf(t)' = LockOf(t)
        BY <2>1 DEF UnitMemInv, LockOf
      <3>2. \A s, v : Restorable(s, v)' <=> Restorable(s, v)
        BY <2>1 DEF Restorable, Publishing, Covered
      <3>3. \A s, v : NotBefore(s, v)' <=> NotBefore(s, v)
        BY <2>1 DEF NotBefore, Covered, LockOf, At
      <3> QED
        BY <2>1, <3>1, <3>2, <3>3 DEF LoadData
    <2>5. \A t \in Tx : StoreData(t)'
      BY <2>1 DEF UnitMemInv, StoreData, Untouched, Clean, Latest, LockOf
    <2>6. Claims'
      BY <2>1 DEF UnitMemInv, Claims, LockOf
    <2> QED
      BY <1>0, <2>2, <2>3, <2>4, <2>5, <2>6 DEF UnitMemInv
  <1>2. ASSUME NEW t \in Tx, UnitStep(t)
        PROVE  UnitMemInv'
    BY <1>0, <1>2, UnitLoadMem, UnitStoreMem, UnitWriteMem DEF UnitStep
  <1>3. CASE UnitNext
    BY <1>0, <1>2, <1>3, TxStepMem, SetExtensionMem, UnitRolloverMem DEF UnitNext
  <1> QED
    BY <1>1, <1>3

\* The return of a unit load is the only step from its second look at the lock to
\* none: the word that it sees again vouches for the value.
LEMMA UnitLoadStep ==
  ASSUME UnitMemInv, [UnitNext]_<<vars, unit>>, NEW t \in Tx,
         At(t, "load_relock"), At(t, "none")'
  PROVE  unit[t].value = Snapshot(unit[t].addr, unit'[t].stamp)
  <1> DEFINE q == unit[t]  s == LockOf(t)
  <1>0. /\ UnitInv /\ q \in UnitDesc /\ unit \in [Tx -> UnitDesc] /\ LoadData(t)
        /\ s \in Stripe /\ s = LOCK_IDX(q.addr) /\ q.addr \in Addr /\ q.at = "load_relock"
    BY LockOfType DEF UnitMemInv, UnitInv, UnitDesc, LockOf, At
  <1>1. unit'[t].at = "none"
    BY DEF At
  <1>2. UnitLoadReturn(t)
    <2>1. ~UnitRollover
      BY <1>0, UnitRolloverIdle
    <2>2. unit' # unit
      BY <1>0, <1>1
    <2>3. PICK o \in Tx : UnitStep(o)
      <3>1. UnitNext
        BY <2>2
      <3>2. \A o \in Tx : ~TxStep(o) /\ ~SetExtension(o)
        BY <2>2 DEF TxStep, SetExtension
      <3> QED
        BY <2>1, <3>1, <3>2 DEF UnitNext
    <2>4. ASSUME o # t
          PROVE  unit'[t] = unit[t]
      <3>1. CASE StmUnitLoad(o) \/ UnitLoadLock(o) \/ UnitLoadValue(o) \/ UnitLoadRestart(o)
        BY <1>0, <2>4, <3>1 DEF StmUnitLoad, UnitLoadLock, UnitLoadValue, UnitLoadRestart
      <3>2. CASE UnitLoadReturn(o) \/ StmUnitStore(o) \/ UnitStoreLock(o)
        BY <1>0, <2>4, <3>2 DEF UnitLoadReturn, StmUnitStore, UnitStoreLock, Return1
      <3>3. CASE UnitCas(o) \/ UnitCasFails(o) \/ UnitWrite(o)
        BY <1>0, <2>4, <3>3 DEF UnitCas, UnitCasFails, UnitWrite, Step
      <3>4. CASE UnitClock(o) \/ UnitRelease(o)
        BY <1>0, <2>4, <3>4 DEF UnitClock, UnitRelease, Step, Return
      <3> QED
        BY <2>3, <3>1, <3>2, <3>3, <3>4 DEF UnitStep
    <2>5. o = t
      BY <1>0, <1>1, <2>4
    <2>6. UnitLoadReturn(t) \/ UnitLoadRestart(t)
      BY <1>0, <2>3, <2>5
      DEF UnitStep, StmUnitLoad, UnitLoadLock, UnitLoadValue, StmUnitStore, UnitStoreLock,
          UnitCas, UnitCasFails, UnitWrite, UnitClock, UnitRelease, At
    <2>7. ~UnitLoadRestart(t)
      <3>1. SUFFICES ASSUME UnitLoadRestart(t)
                     PROVE  FALSE
        OBVIOUS
      <3>2. unit'[t].at \in {"load", "load_value"}
        BY <1>0, <3>1 DEF UnitLoadRestart, UnitDesc
      <3> QED
        BY <1>1, <3>2
    <2> QED
      BY <2>6, <2>7
  <1>3. lock[s] = q.l /\ unit'[t].stamp = q.l.version
    BY <1>0, <1>2, NoCallType DEF UnitLoadReturn, UnitLockUnchanged, Return1, UnitDesc
  <1>4. q.l.owner = NoTx /\ Restorable(s, q.l.version) => q.value = mem[q.addr]
    BY <1>0 DEF LoadData
  <1>5. q.value = mem[q.addr] /\ lock[s].owner = NoTx
    BY <1>0, <1>3, <1>4 DEF LoadData, Restorable
  <1>6. mem[q.addr] = Latest(q.addr) /\ \A h \in hist[q.addr] : h.version <= q.l.version
    BY <1>0, <1>3, <1>5 DEF UnitMemInv, FreeClean, Clean
  <1>7. {h \in hist[q.addr] : h.version <= q.l.version} = hist[q.addr]
    BY <1>6
  <1> QED
    BY <1>3, <1>5, <1>6, <1>7 DEF Snapshot, Latest

\* Also beside unit stores, for any number of threads, addresses and locks: memory
\* under a free lock is the last committed state, that of transactions and unit stores.
THEOREM UnitMemoryIsCommitted == UnitSpec => []CommittedMemory
  <1>1. UnitMemInv => CommittedMemory
    BY LockIdxType, StmAssumption DEF UnitMemInv, FreeClean, Clean, CommittedMemory
  <1> QED
    BY <1>1, UnitMemInit, UnitMemNext, PTL DEF UnitSpec

\* For any number of threads, addresses and locks: what stm_unit_load returns is the
\* value that its address had at the timestamp it returns, although it takes no lock
\* and reads lock, memory and lock one after the other.
THEOREM UnitLoadsAreCommitted == UnitSpec => UnitLoadsCommitted
  <1>1. UnitMemInv /\ [UnitNext]_<<vars, unit>> =>
           [\A t \in Tx :
               At(t, "load_relock") /\ At(t, "none")' =>
                   unit[t].value = Snapshot(unit[t].addr, unit'[t].stamp)]_<<vars, unit>>
    BY UnitLoadStep
  <1> QED
    BY <1>1, UnitMemInit, UnitMemNext, PTL DEF UnitSpec, UnitLoadsCommitted

\* For any number of threads, addresses and locks: a store of stm_unit_write that
\* is given a timestamp takes effect on a word that nobody has changed since then.
THEOREM UnitStoresAreCurrent == UnitSpec => UnitStoresCurrent
  <1>1. ASSUME UnitMemInv, NEW t \in Tx, At(t, "clock"), unit[t].given
        PROVE  \A h \in hist[unit[t].addr] : h.version <= unit[t].stamp
    <2> DEFINE q == unit[t]
    <2>1. /\ q \in UnitDesc /\ StoreData(t) /\ q.at = "clock" /\ LOCK_IDX(q.addr) = LockOf(t)
          /\ hist \in [Addr -> SUBSET [version : Nat, value : Word]]
      BY <1>1 DEF UnitMemInv, UnitInv, LockInv, TypeInv, TypeOK, LockOf, At
    <2>2. q.addr \in Addr /\ q.stamp \in Nat /\ q.l.version \in Nat
      BY <2>1 DEF UnitDesc, LockWord
    <2>3. q.l.version <= q.stamp /\ \A h \in hist[q.addr] : h.version <= q.l.version
      BY <1>1, <2>1, <2>2 DEF StoreData, Untouched
    <2>4. \A h \in hist[q.addr] : h.version \in Nat
      BY <2>1, <2>2
    <2> QED
      BY <2>2, <2>3, <2>4
  <1>2. UnitMemInv /\ [UnitNext]_<<vars, unit>> =>
           [\A t \in Tx :
               At(t, "clock") /\ At(t, "release")' /\ unit[t].given /\ unit[t].fresh =>
                   \A h \in hist[unit[t].addr] : h.version <= unit[t].stamp]_<<vars, unit>>
    BY <1>1
  <1> QED
    BY <1>2, UnitMemInit, UnitMemNext, PTL DEF UnitSpec, UnitStoresCurrent

=============================================================================
