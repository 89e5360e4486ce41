------------------------- MODULE WbEtlSerialProofs -------------------------
(***************************************************************************)
(* What transactions of WbEtl have loaded: consistent snapshots, a serial  *)
(* order of the commits, and irrevocability, for every number of threads,  *)
(* addresses and locks.                                                    *)
(***************************************************************************)
EXTENDS WbEtlMemoryProofs

-----------------------------------------------------------------------------
(* The shared half of the invariant: stripes and snapshots *)

\* The version that a stripe has for readers: its owner's timestamp once the owner
\* has published.
StripeVersion(s) ==
    LET o == lock[s].owner IN
    IF o \in Tx /\ Publishing(o) THEN loc[o].ts ELSE LockVersion(s)
Quiet(s) == \A u \in Tx : lock[s].owner = u => ~Publishing(u)

\* No commit to a can happen at time n or before any more.
Settled(a, n) ==
    /\ n <= clock
    /\ \A u \in Tx : lock[LOCK_IDX(a)].owner = u /\ Timed(u) => loc[u].ts > n

GoodRead(r, n) == Settled(r.addr, n) /\ Matches(r, Snapshot(r.addr, n))

\* Nobody but t is about to commit to a stripe.
Writer(u) == pc[u] = "commit_clock" \/ Timed(u) \/ Publishing(u)
NoWriter(t, s) == \A u \in Tx \ {t} : lock[s].owner = u => ~Writer(u)
Frozen(t, r) == Matches(r, Latest(r.addr)) /\ NoWriter(t, LOCK_IDX(r.addr))

\* A lock has an owner with an entry for it.
LEMMA OwnerEntry ==
  ASSUME LockInv, NEW s \in Stripe, NEW u \in Tx, lock[s].owner = u
  PROVE  \E j \in Remaining(u) : /\ LOCK_IDX(tx[u].w_set[j].addr) = s
                                 /\ j \in 1 .. Len(tx[u].w_set)
                                 /\ tx[u].w_set[j].version \in Nat
  <1>1. s \in Held(u)
    BY DEF LockInv, LockOwner
  <1>2. PICK j \in Remaining(u) : LOCK_IDX(tx[u].w_set[j].addr) = s
    BY <1>1 DEF Held, Remaining
  <1> QED
    BY <1>2, RemainingEntry DEF LockInv, WEntry

\* The versions of locks are numbers.
LEMMA LockVersionType ==
  ASSUME MemInv, NEW s \in Stripe
  PROVE  LockVersion(s) \in Nat
  <1>1. CASE lock[s].owner \in Tx
    <2>1. PICK j \in Remaining(lock[s].owner) :
             /\ LOCK_IDX(tx[lock[s].owner].w_set[j].addr) = s
             /\ j \in 1 .. Len(tx[lock[s].owner].w_set)
             /\ tx[lock[s].owner].w_set[j].version \in Nat
      BY <1>1, OwnerEntry DEF MemInv
    <2>2. LockVersion(s) = tx[lock[s].owner].w_set[j].version
      BY <1>1, <2>1, LockVersionNow
    <2> QED
      BY <2>1, <2>2
  <1>2. CASE lock[s].owner \notin Tx
    <2>1. lock[s].version \in Nat
      BY DEF MemInv, LockInv, TypeInv, TypeOK, LockWord
    <2> QED
      BY <1>2, <2>1, LockVersionNow
  <1> QED
    BY <1>1, <1>2

\* Other threads own what they owned.
LEMMA OwnerFrame ==
  ASSUME LockInv, TypeInv', NEW t \in Tx, StepOf(t), NEW s \in Stripe, NEW u \in Tx \ {t}
  PROVE  lock'[s].owner = u <=> lock[s].owner = u
  <1>1. s \in Held(t) => lock[s].owner = t
    BY HeldApart
  <1>2. NoTx \notin Tx
    BY StmAssumption
  <1>3. CASE Spared(t, s) \/ KeptBy(t, s)
    BY <1>3 DEF Spared, KeptBy
  <1>4. CASE FreedBy(t, s)
    <2>1. s \in Held(t)
      BY <1>4, RemainingHeld DEF FreedBy
    <2>2. lock'[s] = Timestamp(IF RollbackDrop(t) THEN tx[t].w_set[loc[t].i].version ELSE loc[t].ts)
      BY <1>4 DEF FreedBy
    <2>3. lock'[s].owner = NoTx
      BY <2>2 DEF Timestamp
    <2>4. lock[s].owner = t
      BY <1>1, <2>1
    <2> QED
      BY <1>2, <2>3, <2>4
  <1>5. CASE TakenBy(t, s)
    BY <1>2, <1>5 DEF TakenBy, OwnedBy
  <1> QED
    BY <1>3, <1>4, <1>5, StripeSteps

\* Histories change in publishing steps only.
LEMMA HistoryStep ==
  ASSUME LockInv, NEW t \in Tx, StepOf(t), hist' # hist
  PROVE  Publishes(t) /\ pc'[t] = "install"
  <1>1. TypeInv
    BY DEF LockInv
  <1>2. CASE Keeps(t) \/ Forgets(t) \/ Edits(t)
    BY <1>2 DEF Keeps, Forgets, Edits, SameData
  <1>3. CASE StoreAcquire(t) \/ RollbackDrop(t) \/ Install(t) \/ Drop(t)
    BY <1>3, Zenon DEF StoreAcquire, RollbackDrop, Install, Drop, aux
  <1>4. CASE Publishes(t)
    BY <1>1, <1>4, PublishesEffect
  <1> QED
    BY <1>2, <1>3, <1>4 DEF StepOf, Kinds

\* The timestamp of t is new when t takes it, and stays.
LEMMA TimedStep ==
  ASSUME LockInv, NEW t \in Tx, StepOf(t), Timed(t)'
  PROVE  \/ Timed(t) /\ loc'[t].ts = loc[t].ts
         \/ pc[t] = "commit_clock" /\ loc'[t].ts = clock + 1 /\ lock' = lock
  <1>1. TypeInv
    BY DEF LockInv
  <1>2. pc'[t] = "validate"
    BY DEF Timed
  <1>3. CASE Keeps(t)
    BY <1>3 DEF Keeps
  <1>4. CASE Forgets(t) \/ Edits(t)
    BY <1>2, <1>4 DEF Forgets, Edits
  <1>5. CASE StoreAcquire(t) \/ RollbackDrop(t) \/ Install(t) \/ Drop(t)
    BY <1>1, <1>2, <1>5, Zenon DEF StoreAcquire, RollbackDrop, Install, Drop, Goto, TypeInv, TypeOK
  <1>6. CASE Publishes(t)
    BY <1>1, <1>2, <1>6, PublishesEffect DEF CommitTime
  <1> QED
    BY <1>3, <1>4, <1>5, <1>6 DEF StepOf, Kinds

\* What has settled stays: no step changes the snapshot of an address at time n.
LEMMA SettledStep ==
  ASSUME MemInv, MemInv', NEW t \in Tx, StepOf(t), NEW a \in Addr, NEW n \in Int, Settled(a, n)
  PROVE  /\ Settled(a, n)'
         /\ {h \in hist'[a] : h.version <= n} = {h \in hist[a] : h.version <= n}
  <1> DEFINE s == LOCK_IDX(a)
  <1>0. LockInv /\ TypeInv /\ TypeInv' /\ Entries(t) /\ s \in Stripe
    BY LockIdxType DEF MemInv, LockInv
  <1>1. clock \in Nat /\ clock' \in Nat /\ clock' >= clock /\ n <= clock
    BY <1>0, ClockForward DEF Settled
  <1>2. ASSUME NEW u \in Tx, lock'[s].owner = u, Timed(u)'
        PROVE  loc'[u].ts > n
    <2>1. CASE u # t
      BY <1>0, <1>2, <2>1, OwnerFrame DEF Settled, StepOf, Others, Timed
    <2>2. CASE u = t /\ Timed(t) /\ loc'[t].ts = loc[t].ts
      <3>1. Keeps(t)
        BY <1>0, <1>2, <2>2, PublishesEffect
        DEF StepOf, Kinds, Forgets, Edits, StoreAcquire, RollbackDrop, Install, Drop, Timed,
            Goto, TypeInv, TypeOK
      <3>2. lock' = lock
        BY <3>1 DEF Keeps, SameData
      <3> QED
        BY <1>2, <2>2, <3>2 DEF Settled
    <2>3. CASE u = t /\ loc'[t].ts = clock + 1
      BY <1>1, <2>3
    <2> QED
      BY <1>0, <1>2, <2>1, <2>2, <2>3, TimedStep
  <1>3. {h \in hist'[a] : h.version <= n} = {h \in hist[a] : h.version <= n}
    <2>1. CASE hist'[a] = hist[a]
      BY <2>1
    <2>2. CASE hist'[a] # hist[a]
      <3>1. Publishes(t) /\ pc'[t] = "install" /\ s \in Held(t)
        BY <1>0, <2>2, HistoryStep, Elsewhere
      <3>2. hist' = Publish(tx[t].w_set, CommitTime(t))
        BY <1>0, <3>1, PublishesEffect
      <3>3. CommitTime(t) > n /\ CommitTime(t) \in Nat
        <4>1. lock[s].owner = t
          BY <1>0, <3>1, HeldApart
        <4>2. pc[t] = "commit_clock" \/ Timed(t)
          BY <1>0, <3>1, PublishesEffect
        <4>3. CommitTime(t) \in Nat
          BY <1>0, <3>1, CommitTimeAbove
        <4>4. CASE pc[t] = "commit_clock"
          BY <1>1, <4>3, <4>4 DEF CommitTime
        <4>5. CASE Timed(t)
          BY <4>1, <4>3, <4>5 DEF CommitTime, Settled, Timed
        <4> QED
          BY <4>2, <4>3, <4>4, <4>5
      <3>4. \A h \in hist'[a] : h \in hist[a] \/ h.version = CommitTime(t)
        BY <3>2 DEF Publish
      <3>5. hist[a] \subseteq hist'[a]
        BY <3>2 DEF Publish
      <3>6. \A h \in hist'[a] : h.version <= n => h \in hist[a]
        BY <3>3, <3>4
      <3> QED
        BY <3>5, <3>6
    <2> QED
      BY <2>1, <2>2
  <1> QED
    BY <1>1, <1>2, <1>3 DEF Settled

\* A good read stays one.
LEMMA GoodReadStep ==
  ASSUME MemInv, MemInv', NEW t \in Tx, StepOf(t), NEW r \in SeenEntry, NEW n \in Int,
         GoodRead(r, n)
  PROVE  GoodRead(r, n)'
  <1>1. r.addr \in Addr
    BY DEF SeenEntry
  <1>2. Settled(r.addr, n)' /\ Snapshot(r.addr, n)' = Snapshot(r.addr, n)
    BY <1>1, SettledStep DEF GoodRead, Snapshot
  <1> QED
    BY <1>2 DEF GoodRead, Matches

\* All committed versions are in the past.
LEMMA HistoryPast ==
  ASSUME MemInv, NEW a \in Addr
  PROVE  \A h \in hist[a] : h.version \in Nat /\ h.version <= clock
  <1> DEFINE s == LOCK_IDX(a)
  <1>0. /\ s \in Stripe /\ clock \in Nat /\ \A h \in hist[a] : h.version \in Nat
        /\ lock[s].version \in Nat /\ \A u \in Tx : loc[u].ts \in Nat
    BY LockIdxType DEF MemInv, LockInv, TypeInv, TypeOK, LockWord, Locals
  <1>1. CASE lock[s].owner \notin Tx
    BY <1>0, <1>1 DEF MemInv, FreeClean, Clean
  <1>2. CASE lock[s].owner \in Tx
    <2> DEFINE u == lock[s].owner
    <2>1. PICK j \in Remaining(u) : /\ LOCK_IDX(tx[u].w_set[j].addr) = s
                                    /\ j \in 1 .. Len(tx[u].w_set)
                                    /\ tx[u].w_set[j].version \in Nat
      BY <1>0, <1>2, OwnerEntry DEF MemInv
    <2>2. Entries(u)
      BY <1>2 DEF MemInv
    <2>3. CASE Publishing(u)
      <3>1. loc[u].ts <= clock /\ \A h \in hist[a] : h.version <= loc[u].ts
        BY <2>1, <2>2, <2>3, Zenon DEF Entries, Dated, Installing
      <3> QED
        BY <1>0, <1>2, <3>1
    <2>4. CASE ~Publishing(u)
      <3>1. Clean(s, tx[u].w_set[j].version) /\ tx[u].w_set[j].version <= clock
        BY <2>1, <2>2, <2>4, Zenon DEF Entries, Dated, Buffered
      <3> QED
        BY <1>0, <2>1, <3>1 DEF Clean
    <2> QED
      BY <2>3, <2>4
  <1> QED
    BY <1>1, <1>2

\* Where no version is younger than n, the snapshot at n is the latest state.
LEMMA LatestAt ==
  ASSUME NEW a \in Addr, NEW n, \A h \in hist[a] : h.version <= n
  PROVE  Snapshot(a, n) = Latest(a)
  <1>1. {h \in hist[a] : h.version <= n} = hist[a]
    OBVIOUS
  <1> QED
    BY <1>1 DEF Snapshot, Latest

\* A quiet stripe is clean: memory is the latest state, with versions that the
\* stripe's version covers.
LEMMA QuietClean ==
  ASSUME MemInv, NEW s \in Stripe, Quiet(s)
  PROVE  Clean(s, StripeVersion(s)) /\ StripeVersion(s) <= clock /\ StripeVersion(s) \in Nat
  <1>1. StripeVersion(s) = LockVersion(s)
    BY DEF StripeVersion, Quiet
  <1>2. CASE lock[s].owner \notin Tx
    BY <1>1, <1>2, LockVersionNow, LockVersionType DEF MemInv, FreeClean
  <1>3. CASE lock[s].owner \in Tx
    <2> DEFINE u == lock[s].owner
    <2>1. PICK j \in Remaining(u) : /\ LOCK_IDX(tx[u].w_set[j].addr) = s
                                    /\ j \in 1 .. Len(tx[u].w_set)
                                    /\ tx[u].w_set[j].version \in Nat
      BY <1>3, OwnerEntry, SMTT(40) DEF MemInv
    <2>2. Entries(u) /\ ~Publishing(u)
      BY <1>3 DEF MemInv, Quiet
    <2>3. Clean(s, tx[u].w_set[j].version) /\ tx[u].w_set[j].version <= clock
      BY <2>1, <2>2 DEF Entries, Dated, Buffered
    <2>4. LockVersion(s) = tx[u].w_set[j].version
      BY <1>3, <2>1, LockVersionNow
    <2> QED
      BY <1>1, <2>1, <2>3, <2>4, Zenon
  <1> QED
    BY <1>2, <1>3
-----------------------------------------------------------------------------
(* Irrevocability: where its holder can be *)

\* Between two attempts, or rolling one back.
Outside == Between \cup {"rollback"}
InAttempt(t) == pc[t] \notin Outside \cup {"install", "drop"}

ValidatesFor(t, for) == pc[t] = "validate" /\ loc[t].for = for

\* What the place of t says about its mode.
IrrStage(t) ==
    /\ tx[t].irrevocable = 1 => pc[t] \in Outside
    /\ tx[t].irrevocable = 2 => pc[t] \in {"prepare", "barrier", "rollback"}
                                \/ ValidatesFor(t, "irrevocable")
    /\ pc[t] = "irr_spin" => tx[t].irrevocable = 1
    /\ pc[t] = "idle" => tx[t].irrevocable \in {0, 1}
    /\ pc[t] = "validate" => loc[t].for \in {"extend", "commit", "irrevocable"}
    /\ ValidatesFor(t, "irrevocable") =>
          tx[t].irrevocable = 2 /\ "irrevocable" \in Features
    /\ Timed(t) \/ ValidatesFor(t, "extend") \/ pc[t] \in {"extend", "load_recheck"} =>
          tx[t].irrevocable = 0

\* What it says about transactions started read-only.
ReadOnlyStage(t) ==
    /\ tx[t].read_only => "read_only" \in Features
    /\ ValidatesFor(t, "extend") \/ pc[t] \in {"extend", "load_recheck"} => ~tx[t].read_only
    /\ \/ pc[t] \in {"store", "store_cas", "commit_clock", "install", "drop"}
       \/ Timed(t)
       \/ tx[t].w_set # <<>>
       => (tx[t].read_only => "ro_write" \in Features)

Stage(t) == IrrStage(t) /\ ReadOnlyStage(t)

StageInv == LockInv /\ IrrevocableUnique /\ \A t \in Tx : Stage(t)

\* Irrevocability passes from the flag to one thread and back.
IrrEffect(t) ==
    \/ /\ irrevocable' = irrevocable
       /\ tx'[t].irrevocable \in {2, 3} => tx[t].irrevocable \in {2, 3}
    \/ ~irrevocable /\ irrevocable'
    \/ tx[t].irrevocable \in {2, 3} /\ tx'[t].irrevocable = 0

\* A step that keeps the mode, to a place that says nothing about it.
LEMMA StageKeeps ==
  ASSUME NEW t \in Tx, Stage(t), irrevocable' = irrevocable,
         tx'[t].irrevocable = tx[t].irrevocable, tx'[t].read_only = tx[t].read_only,
         tx'[t].w_set # <<>> => tx[t].w_set # <<>>,
         pc'[t] \in Outside \/ (InAttempt(t) /\ ~(pc[t] = "validate" /\ tx[t].irrevocable = 2)),
         pc'[t] \in {"active", "load", "load_value", "load_relock", "rollback", "barrier"}
  PROVE  Stage(t)' /\ IrrEffect(t)
  BY DEF Stage, IrrStage, ReadOnlyStage, IrrEffect, Outside, Between, ValidatesFor, Timed,
         InAttempt

\* Rolling back keeps the mode, or asks for irrevocability.
LEMMA RollbackStage ==
  ASSUME TypeInv, NEW t \in Tx, Stage(t), NEW r, NEW irr \in {tx[t].irrevocable, 1},
         RollbackAs(t, r, irr), irr # tx[t].irrevocable => tx[t].irrevocable = 0
  PROVE  Stage(t)' /\ IrrEffect(t)
  <1>1. /\ irrevocable' = irrevocable /\ pc'[t] = "rollback"
        /\ tx'[t].irrevocable = irr /\ tx'[t].read_only = tx[t].read_only
        /\ tx'[t].w_set = tx[t].w_set
    BY DEF RollbackAs, Goto, shared, TypeInv, TypeOK, TxDesc
  <1> QED
    BY <1>1 DEF Stage, IrrStage, ReadOnlyStage, IrrEffect, Outside, Between, ValidatesFor, Timed

\* Rollback with the mode as it is.
LEMMA PlainRollbackStage ==
  ASSUME TypeInv, NEW t \in Tx, Stage(t), NEW r, Rollback(t, r)
  PROVE  Stage(t)' /\ IrrEffect(t)
  BY RollbackStage DEF Rollback

\* A load keeps the mode.
LEMMA ReadLockStage ==
  ASSUME TypeInv, NEW t \in Tx, Stage(t), NEW a, NEW l, ReadLock(t, a, l),
         pc[t] \in {"active", "load", "load_relock", "load_recheck"}
  PROVE  Stage(t)' /\ IrrEffect(t)
  <1>1. CASE Rollback(t, "RW_CONFLICT")
    BY <1>1, PlainRollbackStage
  <1>2. CASE ~Rollback(t, "RW_CONFLICT")
    <2>1. /\ irrevocable' = irrevocable
          /\ tx'[t].irrevocable = tx[t].irrevocable /\ tx'[t].read_only = tx[t].read_only
          /\ tx'[t].w_set = tx[t].w_set
          /\ pc'[t] \in {"active", "load", "load_value"}
      <3>1. CASE LoadOwn(t, a, l)
        BY <3>1 DEF LoadOwn, ReturnLoad, Goto, shared, TypeInv, TypeOK, TxDesc
      <3>2. CASE LoadConflict(t, a, l) \/ LoadFree(t, a, l)
        BY <1>2, <3>2 DEF LoadConflict, LoadFree, Goto, shared, TypeInv, TypeOK
      <3> QED
        BY <3>1, <3>2 DEF ReadLock
    <2> QED
      BY <2>1, StageKeeps DEF InAttempt, Outside, Between
  <1> QED
    BY <1>1, <1>2

\* A store keeps the mode; a read-only transaction has been allowed to store.
LEMMA WriteLockStage ==
  ASSUME TypeInv, NEW t \in Tx, Stage(t), NEW a, NEW w, NEW m, NEW l, WriteLock(t, a, w, m, l),
         pc[t] \in {"active", "store"}, tx[t].read_only => "ro_write" \in Features
  PROVE  Stage(t)' /\ IrrEffect(t)
  <1>1. CASE \/ Rollback(t, "WW_CONFLICT") \/ Rollback(t, "VAL_WRITE")
             \/ Rollback(t, "EXTEND_WS")
    BY <1>1, PlainRollbackStage
  <1>2. CASE ~(\/ Rollback(t, "WW_CONFLICT") \/ Rollback(t, "VAL_WRITE")
               \/ Rollback(t, "EXTEND_WS"))
    <2>1. /\ irrevocable' = irrevocable
          /\ tx'[t].irrevocable = tx[t].irrevocable /\ tx'[t].read_only = tx[t].read_only
          /\ pc'[t] \in {"active", "store", "store_cas"}
      <3>1. CASE StoreOwn(t, a, w, m, l)
        BY <1>2, <3>1 DEF StoreOwn, Goto, shared, TypeInv, TypeOK, TxDesc
      <3>2. CASE StoreConflict(t, a, w, m, l) \/ StoreFree(t, a, w, m, l)
        BY <1>2, <3>2 DEF StoreConflict, StoreFree, Goto, shared, TypeInv, TypeOK
      <3> QED
        BY <3>1, <3>2 DEF WriteLock
    <2> QED
      BY <2>1 DEF Stage, IrrStage, ReadOnlyStage, IrrEffect, Outside, Between, ValidatesFor, Timed
  <1> QED
    BY <1>1, <1>2

\* The end of a commit.
LEMMA CommittedStage ==
  ASSUME TypeInv, NEW t \in Tx, Stage(t), pc[t] \in {"active", "install"}, Committed(t)
  PROVE  Stage(t)' /\ IrrEffect(t)
  <1>1. /\ irrevocable' = (irrevocable /\ tx[t].irrevocable = 0)
        /\ tx'[t].irrevocable = 0 /\ tx'[t].read_only = tx[t].read_only
        /\ tx'[t].w_set = <<>> /\ pc'[t] = "idle"
    BY DEF Committed, Goto, TypeInv, TypeOK, TxDesc
  <1>2. tx[t].irrevocable \in {0, 3}
    <2>1. tx[t].irrevocable \in 0 .. 3
      BY DEF TypeInv, TypeOK, TxDesc
    <2> QED
      BY <2>1 DEF Stage, IrrStage, Outside, Between, ValidatesFor
  <1>3. irrevocable \in BOOLEAN
    BY DEF TypeInv, TypeOK
  <1>4. Stage(t)'
    BY <1>1 DEF Stage, IrrStage, ReadOnlyStage, Outside, Between, ValidatesFor, Timed
  <1>5. IrrEffect(t)
    BY <1>1, <1>2, <1>3 DEF IrrEffect
  <1> QED
    BY <1>4, <1>5

\* Every step of a thread keeps its mode in order.
LEMMA StageStep ==
  ASSUME LockInv, NEW t \in Tx, Stage(t), Running(t) \/ Call(t)
  PROVE  Stage(t)' /\ IrrEffect(t)
  <1> USE DEF shared, aux
  <1> DEFINE Same == /\ irrevocable' = irrevocable
                     /\ tx'[t].irrevocable = tx[t].irrevocable
                     /\ tx'[t].read_only = tx[t].read_only
                     /\ tx'[t].w_set = tx[t].w_set
  <1>0. TypeInv /\ tx[t] \in TxDesc /\ loc[t] \in Locals /\ irrevocable \in BOOLEAN
    BY DEF LockInv, TypeInv, TypeOK
  <1>1. CASE \/ ValidateFails(t) \/ UserAbort(t) \/ SetIrrevocableFails(t)
             \/ LoadTooNew(t) /\ Rollback(t, "VAL_READ")
             \/ Commit(t) /\ Rollback(t, "IRREVOCABLE")
    BY <1>0, <1>1, RollbackStage, PlainRollbackStage
    DEF ValidateFails, UserAbort, SetIrrevocableFails, LoadTooNew, Commit
  <1>2. CASE Load(t) \/ LoadAgain(t) \/ LoadRestart(t)
    BY <1>0, <1>2, ReadLockStage DEF Load, LoadAgain, LoadRestart
  <1>3. CASE Store(t) \/ StoreAgain(t)
    <2>1. tx[t].read_only => "ro_write" \in Features
      BY <1>3 DEF Store, StoreAgain, Stage, ReadOnlyStage
    <2> QED
      BY <1>0, <1>3, <2>1, WriteLockStage DEF Store, StoreAgain
  <1>4. CASE CommitReadOnly(t) \/ CommitEnd(t)
    BY <1>0, <1>4, CommittedStage DEF CommitReadOnly, CommitEnd
  <1>5. CASE LoadReturn(t) \/ LoadRecheck(t) \/ LoadValue(t)
    <2>1. /\ Same /\ pc[t] \in {"load_relock", "load_recheck", "load_value"}
          /\ pc'[t] \in {"active", "load_relock"}
      BY <1>0, <1>5 DEF LoadReturn, LoadRecheck, LoadValue, ReturnLoad, Goto, TypeInv, TypeOK, TxDesc
    <2> QED
      BY <2>1, StageKeeps DEF InAttempt, Outside, Between
  <1>6. CASE LoadTooNew(t) /\ ~Rollback(t, "VAL_READ")
    <2>1. /\ Same /\ pc[t] = "load_relock" /\ pc'[t] = "extend"
          /\ tx[t].irrevocable = 0 /\ ~tx[t].read_only
      BY <1>0, <1>6 DEF LoadTooNew, Goto, TypeInv, TypeOK
    <2> QED
      BY <2>1 DEF Stage, IrrStage, ReadOnlyStage, IrrEffect, Outside, Between, ValidatesFor, Timed
  <1>7. CASE Extend(t)
    <2>1. /\ Same /\ pc[t] = "extend" /\ pc'[t] = "validate" /\ loc'[t].for = "extend"
      BY <1>0, <1>7 DEF Extend, StartValidate, Goto, TypeInv, TypeOK, Locals
    <2> QED
      BY <2>1 DEF Stage, IrrStage, ReadOnlyStage, IrrEffect, Outside, Between, ValidatesFor, Timed
  <1>8. CASE Extended(t)
    <2>1. /\ Same /\ ValidatesFor(t, "extend") /\ pc'[t] = "load_recheck"
      BY <1>0, <1>8 DEF Extended, Validated, ValidatesFor, Goto, TypeInv, TypeOK, TxDesc
    <2> QED
      BY <2>1 DEF Stage, IrrStage, ReadOnlyStage, IrrEffect, Outside, Between, ValidatesFor, Timed
  <1>9. CASE ValidateEntry(t)
    <2>1. /\ Same /\ pc' = pc /\ loc'[t].for = loc[t].for
      BY <1>0, <1>9 DEF ValidateEntry, TypeInv, TypeOK, Locals
    <2> QED
      BY <2>1 DEF Stage, IrrStage, ReadOnlyStage, IrrEffect, ValidatesFor, Timed
  <1>10. CASE StoreAcquire(t) \/ StoreCasFails(t)
    <2>1. /\ irrevocable' = irrevocable /\ tx'[t].irrevocable = tx[t].irrevocable
          /\ tx'[t].read_only = tx[t].read_only
          /\ pc[t] = "store_cas" /\ pc'[t] \in {"active", "store"}
      BY <1>0, <1>10 DEF StoreAcquire, StoreCasFails, Goto, TypeInv, TypeOK, TxDesc
    <2> QED
      BY <2>1 DEF Stage, IrrStage, ReadOnlyStage, IrrEffect, Outside, Between, ValidatesFor, Timed
  <1>11. CASE Commit(t) /\ ~Rollback(t, "IRREVOCABLE")
    <2>1. /\ Same /\ pc[t] = "active" /\ pc'[t] = "commit_clock" /\ tx[t].w_set # <<>>
      BY <1>0, <1>11 DEF Commit, Goto, TypeInv, TypeOK
    <2> QED
      BY <2>1 DEF Stage, IrrStage, ReadOnlyStage, IrrEffect, Outside, Between, ValidatesFor, Timed
  <1>12. CASE CommitClock(t)
    <2>1. /\ Same /\ pc[t] = "commit_clock"
          /\ \/ pc'[t] = "install"
             \/ pc'[t] = "validate" /\ loc'[t].for = "commit" /\ tx[t].irrevocable = 0
      BY <1>0, <1>12
      DEF CommitClock, NoValidation, StartInstall, StartValidate, Goto, TypeInv, TypeOK, Locals
    <2> QED
      BY <2>1 DEF Stage, IrrStage, ReadOnlyStage, IrrEffect, Outside, Between, ValidatesFor, Timed
  <1>13. CASE CommitValidated(t) \/ Install(t) \/ Drop(t)
    <2>1. /\ Same /\ pc'[t] \in {"install", "drop"}
          /\ Timed(t) \/ pc[t] \in {"install", "drop"}
      BY <1>0, <1>13, Zenon
      DEF CommitValidated, Validated, Timed, StartInstall, Install, Drop, Goto, TypeInv, TypeOK
    <2> QED
      BY <2>1 DEF Stage, IrrStage, ReadOnlyStage, IrrEffect, Outside, Between, ValidatesFor, Timed
  <1>14. CASE RollbackDrop(t)
    <2>1. /\ Same /\ pc[t] = "rollback" /\ pc'[t] = "rollback"
      BY <1>0, <1>14 DEF RollbackDrop, TypeInv, TypeOK
    <2> QED
      BY <2>1 DEF Stage, IrrStage, ReadOnlyStage, IrrEffect, Outside, Between, ValidatesFor, Timed
  <1>15. CASE RollbackEnd(t) \/ PrepareBarrier(t)
    <2>1. /\ irrevocable' = irrevocable /\ tx'[t].irrevocable = tx[t].irrevocable
          /\ tx'[t].read_only = tx[t].read_only
          /\ tx'[t].w_set # <<>> => tx[t].w_set # <<>>
          /\ pc'[t] \in {"prepare", "barrier"}
      BY <1>0, <1>15 DEF RollbackEnd, PrepareBarrier, Goto, TypeInv, TypeOK, TxDesc
    <2> QED
      BY <2>1 DEF Stage, IrrStage, ReadOnlyStage, IrrEffect, Outside, Between, ValidatesFor, Timed
  <1>16. CASE Start(t)
    <2>1. PICK ro, ne \in BOOLEAN :
             /\ ro => "read_only" \in Features
             /\ tx' = [tx EXCEPT ![t].read_only = ro, ![t].no_extend = ne]
      BY <1>16 DEF Start
    <2>2. /\ irrevocable' = irrevocable /\ tx'[t].irrevocable = tx[t].irrevocable
          /\ tx'[t].read_only = ro /\ tx'[t].w_set = tx[t].w_set
          /\ pc[t] = "idle" /\ pc'[t] = "prepare"
      BY <1>0, <1>16, <2>1 DEF Start, Goto, TypeInv, TypeOK, TxDesc
    <2>3. tx[t].w_set = <<>>
      BY <2>2 DEF LockInv, ThreadInv, Between
    <2> QED
      BY <2>1, <2>2, <2>3
      DEF Stage, IrrStage, ReadOnlyStage, IrrEffect, Outside, Between, ValidatesFor, Timed
  <1>17. CASE Prepare(t)
    <2>1. /\ irrevocable' = irrevocable /\ tx'[t].read_only = tx[t].read_only
          /\ tx'[t].irrevocable = IF tx[t].irrevocable = 2 THEN 3 ELSE tx[t].irrevocable
          /\ tx'[t].w_set = tx[t].w_set
          /\ pc'[t] = IF tx[t].irrevocable = 1 THEN "irr_spin" ELSE "active"
      BY <1>0, <1>17 DEF Prepare, Goto, TypeInv, TypeOK, TxDesc
    <2> QED
      BY <2>1 DEF Stage, IrrStage, ReadOnlyStage, IrrEffect, Outside, Between, ValidatesFor, Timed
  <1>18. CASE AcquireIrrevocable(t) \/ IrrevocableValidated(t)
    <2>1. /\ tx'[t].irrevocable = 3 /\ tx'[t].read_only = tx[t].read_only
          /\ tx'[t].w_set = tx[t].w_set /\ pc'[t] = "active"
          /\ \/ ~irrevocable /\ irrevocable'
             \/ ValidatesFor(t, "irrevocable") /\ irrevocable' = irrevocable
      <3>1. CASE AcquireIrrevocable(t)
        BY <1>0, <3>1 DEF AcquireIrrevocable, Goto, TypeInv, TypeOK, TxDesc
      <3>2. CASE IrrevocableValidated(t)
        BY <1>0, <3>2 DEF IrrevocableValidated, Validated, ValidatesFor, Goto, TypeInv, TypeOK, TxDesc
      <3> QED
        BY <1>18, <3>1, <3>2
    <2> QED
      BY <2>1 DEF Stage, IrrStage, ReadOnlyStage, IrrEffect, Outside, Between, ValidatesFor, Timed
  <1>19. CASE RequestIrrevocable(t)
    <2>1. /\ irrevocable' = irrevocable /\ tx'[t].read_only = tx[t].read_only
          /\ tx'[t].irrevocable = 1 /\ tx'[t].w_set = tx[t].w_set
          /\ pc[t] = "idle" /\ pc'[t] = "idle"
      BY <1>0, <1>19 DEF RequestIrrevocable, TypeInv, TypeOK, TxDesc
    <2> QED
      BY <2>1 DEF Stage, IrrStage, ReadOnlyStage, IrrEffect, Outside, Between, ValidatesFor, Timed
  <1>20. CASE SetIrrevocable(t)
    <2>1. /\ ~irrevocable /\ irrevocable' /\ tx'[t].read_only = tx[t].read_only
          /\ tx'[t].irrevocable = 2 /\ tx'[t].w_set = tx[t].w_set
          /\ pc'[t] = "validate" /\ loc'[t].for = "irrevocable" /\ "irrevocable" \in Features
      BY <1>0, <1>20 DEF SetIrrevocable, StartValidate, Goto, TypeInv, TypeOK, TxDesc, Locals
    <2>2. IrrStage(t)'
      BY <2>1 DEF IrrStage, ValidatesFor, Timed, Outside, Between
    <2>3. ReadOnlyStage(t)'
      BY <2>1 DEF Stage, ReadOnlyStage, ValidatesFor, Timed
    <2>4. IrrEffect(t)
      BY <2>1 DEF IrrEffect
    <2> QED
      BY <2>2, <2>3, <2>4 DEF Stage
  <1>21. CASE Running(t)
    BY <1>1, <1>2, <1>3, <1>4, <1>5, <1>6, <1>7, <1>8, <1>9, <1>10, <1>12, <1>13, <1>14,
       <1>15, <1>17, <1>18, <1>21 DEF Running
  <1>22. CASE Call(t)
    BY <1>1, <1>2, <1>3, <1>4, <1>11, <1>16, <1>19, <1>20, <1>22 DEF Call
  <1> QED
    BY <1>21, <1>22

\* Every step keeps all threads' modes in order.
LEMMA StageInvStep == StageInv /\ [Next]_vars => StageInv'
  <1> SUFFICES ASSUME StageInv, [Next]_vars
               PROVE  StageInv'
    OBVIOUS
  <1>1. LockInv /\ LockInv' /\ TypeInv
    BY TypeStep, LockStep DEF StageInv, LockInv
  <1>2. CASE UNCHANGED vars
    BY <1>1, <1>2
    DEF StageInv, vars, IrrevocableUnique, Stage, IrrStage, ReadOnlyStage, ValidatesFor, Timed
  <1>3. CASE Rollover
    <2>1. \A t \in Tx : pc[t] = "barrier" /\ pc'[t] = "prepare"
      BY <1>3 DEF Rollover, RolloverBut
    <2>2. tx' = tx /\ irrevocable' = irrevocable
      BY <1>3 DEF Rollover, RolloverBut
    <2> QED
      BY <1>1, <2>1, <2>2
      DEF StageInv, IrrevocableUnique, Stage, IrrStage, ReadOnlyStage, ValidatesFor, Timed,
          Outside, Between
  <1>4. ASSUME NEW t \in Tx, Running(t) \/ Call(t)
        PROVE  StageInv'
    <2>1. Others(t)
      BY <1>1, <1>4, StepKinds DEF StepOf
    <2>2. Stage(t)' /\ IrrEffect(t)
      BY <1>1, <1>4, StageStep DEF StageInv
    <2>3. \A u \in Tx \ {t} : Stage(u)'
      BY <2>1 DEF StageInv, Others, Stage, IrrStage, ReadOnlyStage, ValidatesFor, Timed
    <2>4. IrrevocableUnique'
      <3>1. \A u \in Tx : tx'[u].irrevocable \in 0 .. 3
        BY <1>1 DEF LockInv, TypeInv, TypeOK, TxDesc
      <3> QED
        BY <2>1, <2>2, <3>1 DEF StageInv, Others, IrrevocableUnique, IrrEffect
    <2> QED
      BY <1>1, <2>2, <2>3, <2>4 DEF StageInv
  <1> QED
    BY <1>2, <1>3, <1>4 DEF Next

\* All modes are in order at the start.
LEMMA StageInit == Init => StageInv
  <1> SUFFICES ASSUME Init
               PROVE  StageInv
    OBVIOUS
  <1>1. ASSUME NEW t \in Tx
        PROVE  /\ tx[t].irrevocable = 0 /\ ~tx[t].read_only /\ tx[t].w_set = <<>>
               /\ pc[t] = "idle"
    BY DEF Init
  <1>2. \A t \in Tx : Stage(t)
    BY <1>1 DEF Stage, IrrStage, ReadOnlyStage, ValidatesFor, Timed, Outside, Between
  <1> QED
    BY <1>1, <1>2, LockInit DEF StageInv, IrrevocableUnique

\* For any number of threads: the transaction that is irrevocable, or is becoming so,
\* is alone, and the flag says that there is one.
THEOREM IrrevocableAlone == Spec => []IrrevocableUnique
  <1>1. StageInv => IrrevocableUnique
    BY DEF StageInv
  <1> QED
    BY <1>1, StageInit, StageInvStep, PTL DEF Spec

-----------------------------------------------------------------------------
(* The version of a stripe, as its readers see it *)

\* Write-back begins with a publishing step and is over when the entries are.
LEMMA PublishingStep ==
  ASSUME TypeInv, NEW t \in Tx, StepOf(t)
  PROVE  /\ Publishing(t) => Install(t) \/ Drop(t) \/ Forgets(t)
         /\ ~Publishing(t) /\ Publishing(t)' => Publishes(t) /\ pc'[t] = "install"
  <1>1. Install(t) => pc[t] = "install"
    BY DEF Install
  <1>2. Drop(t) => pc[t] = "drop"
    BY DEF Drop
  <1>3. CASE Keeps(t) \/ Forgets(t) \/ Edits(t)
    BY <1>3 DEF Keeps, Forgets, Edits, Publishing
  <1>4. CASE StoreAcquire(t) \/ RollbackDrop(t)
    BY <1>4 DEF StoreAcquire, RollbackDrop, Publishing, Goto, TypeInv, TypeOK
  <1>5. CASE Publishes(t)
    BY <1>5, PublishesEffect DEF Publishing, Timed
  <1>6. CASE Install(t) \/ Drop(t)
    BY <1>1, <1>2, <1>6 DEF Publishing
  <1> QED
    BY <1>3, <1>4, <1>5, <1>6 DEF StepOf, Kinds

\* A write-back keeps its timestamp.
LEMMA InstallsKeep ==
  ASSUME TypeInv, NEW t \in Tx, Install(t) \/ Drop(t)
  PROVE  loc'[t].ts = loc[t].ts /\ Publishing(t) /\ Publishing(t)'
  <1>1. CASE Install(t)
    BY <1>1 DEF Install, Publishing, Goto, TypeInv, TypeOK
  <1>2. CASE Drop(t)
    BY <1>2 DEF Drop, Publishing, Goto, TypeInv, TypeOK, Locals
  <1> QED
    BY <1>1, <1>2

\* The versions of locks are numbers, in the next state, too.
VersionsTyped == \A s \in Stripe : LockVersion(s) \in Nat

\* They are, where memory and history agree ...
LEMMA LockVersionTypes == MemInv => VersionsTyped
  BY LockVersionType DEF VersionsTyped

\* ... and so they are after the step.
LEMMA LockVersionNextTypes == MemInv' => VersionsTyped'
  BY LockVersionTypes, PTL

\* The version of a stripe grows, and stays only if nothing was published there.
LEMMA StripeStep ==
  ASSUME MemInv, MemInv', NEW t \in Tx, StepOf(t), NEW s \in Stripe
  PROVE  /\ StripeVersion(s) \in Nat /\ StripeVersion(s)' \in Nat
         /\ StripeVersion(s)' >= StripeVersion(s)
         /\ StripeVersion(s)' = StripeVersion(s) /\ Quiet(s) =>
               /\ Quiet(s)'
               /\ \A a \in Addr : LOCK_IDX(a) = s => hist'[a] = hist[a]
  <1> DEFINE o == lock[s].owner
  <1>0. LockInv /\ TypeInv /\ TypeInv' /\ Entries(t) /\ NoTx \notin Tx
    BY StmAssumption DEF MemInv, LockInv
  <1>1. /\ LockVersion(s) \in Nat /\ LockVersion(s)' \in Nat /\ LockVersion(s)' >= LockVersion(s)
        /\ \A u \in Tx : loc[u].ts \in Nat /\ loc'[u].ts \in Nat
    <2>1. LockVersion(s)' \in Nat
      BY LockVersionNextTypes DEF VersionsTyped
    <2> QED
      BY <1>0, <2>1, LockVersionType, LockVersionStep DEF TypeInv, TypeOK, Locals
  <1>2. StripeVersion(s) \in Nat /\ StripeVersion(s)' \in Nat
    BY <1>1 DEF StripeVersion
  <1>3. \A u \in Tx \ {t} : lock'[s].owner = u <=> o = u
    BY <1>0, OwnerFrame
  <1>4. \A u \in Tx \ {t} : Publishing(u)' = Publishing(u) /\ loc'[u].ts = loc[u].ts
    BY DEF StepOf, Others, Publishing
  <1>5. ASSUME s \notin Held(t), NEW a \in Addr, LOCK_IDX(a) = s
        PROVE  hist'[a] = hist[a]
    BY <1>0, <1>5, Elsewhere
  <1>6. o # t => s \notin Held(t)
    BY <1>0, HeldApart
  <1>7. CASE o \in Tx \ {t}
    BY <1>1, <1>2, <1>3, <1>4, <1>5, <1>6, <1>7 DEF StripeVersion, Quiet
  <1>8. CASE o \notin Tx
    <2>1. StripeVersion(s) = LockVersion(s)
      BY <1>8 DEF StripeVersion
    <2>2. s \notin Held(t)
      BY <1>0, <1>6, <1>8
    <2>3. lock'[s].owner = t => ~Publishing(t)'
      <3>1. FreedBy(t, s) => s \in Held(t)
        BY RemainingHeld DEF FreedBy
      <3>2. CASE TakenBy(t, s)
        <4>1. pc'[t] = "active"
          BY <1>0, <3>2 DEF TakenBy, StoreAcquire, Goto, TypeInv, TypeOK
        <4> QED
          BY <4>1 DEF Publishing
      <3> QED
        BY <1>0, <1>8, <2>2, <3>1, <3>2, StripeSteps DEF Spared, KeptBy
    <2>4. \A u \in Tx : lock'[s].owner = u => u = t /\ ~Publishing(t)'
      BY <1>3, <1>8, <2>3
    <2>5. StripeVersion(s)' = LockVersion(s)'
      BY <2>4 DEF StripeVersion
    <2> QED
      BY <1>1, <1>2, <1>5, <2>1, <2>2, <2>4, <2>5 DEF Quiet
  <1>9. CASE o = t /\ Publishing(t)
    <2>1. s \in Held(t) /\ StripeVersion(s) = loc[t].ts /\ ~Quiet(s)
      BY <1>0, <1>9 DEF LockInv, LockOwner, StripeVersion, Quiet
    <2>2. Install(t) \/ Drop(t)
      BY <1>0, <1>9, <2>1, PublishingStep DEF Forgets
    <2>3. loc'[t].ts = loc[t].ts /\ Publishing(t)'
      BY <1>0, <2>2, InstallsKeep
    <2>4. CASE lock'[s].owner = t
      BY <1>1, <1>2, <2>1, <2>3, <2>4 DEF StripeVersion
    <2>5. CASE lock'[s].owner # t
      <3>1. FreedBy(t, s)
        <4>1. ~TakenBy(t, s)
          BY <1>0, <1>9 DEF TakenBy
        <4> QED
          BY <1>0, <1>9, <2>1, <2>5, <4>1, StripeSteps DEF Spared, KeptBy
      <3>2. ~RollbackDrop(t)
        BY <1>9 DEF RollbackDrop, Publishing
      <3>3. lock'[s] = Timestamp(loc[t].ts)
        BY <3>1, <3>2 DEF FreedBy
      <3>4. lock'[s].owner = NoTx /\ lock'[s].version = loc[t].ts
        BY <3>3 DEF Timestamp
      <3>5. StripeVersion(s)' = loc[t].ts
        BY <1>0, <3>4, LockVersionNext DEF StripeVersion
      <3> QED
        BY <1>1, <1>2, <2>1, <3>5
    <2> QED
      BY <2>4, <2>5
  <1>10. CASE o = t /\ ~Publishing(t) /\ Publishing(t)'
    <2>1. s \in Held(t) /\ StripeVersion(s) = LockVersion(s)
      BY <1>0, <1>10 DEF LockInv, LockOwner, StripeVersion
    <2>2. Publishes(t)
      BY <1>0, <1>10, PublishingStep
    <2>3. lock' = lock /\ loc'[t].ts = CommitTime(t)
      BY <1>0, <2>2, PublishesEffect
    <2>4. PICK j \in Remaining(t) : LOCK_IDX(tx[t].w_set[j].addr) = s
                                    /\ j \in 1 .. Len(tx[t].w_set)
      BY <1>0, <1>10, OwnerEntry
    <2>5. LockVersion(s) = tx[t].w_set[j].version
      BY <1>10, <2>4, LockVersionNow
    <2>6. LockVersion(s) < CommitTime(t)
      BY <1>0, <2>2, <2>4, <2>5, CommitTimeAbove
    <2>7. StripeVersion(s)' = CommitTime(t)
      BY <1>10, <2>3 DEF StripeVersion
    <2> QED
      BY <1>1, <1>2, <2>1, <2>6, <2>7
  <1>11. CASE o = t /\ ~Publishing(t) /\ ~Publishing(t)'
    <2>1. StripeVersion(s) = LockVersion(s)
      BY <1>11 DEF StripeVersion
    <2>2. \A u \in Tx : lock'[s].owner = u => u = t
      BY <1>3, <1>11
    <2>3. StripeVersion(s)' = LockVersion(s)' /\ Quiet(s)'
      BY <1>11, <2>2 DEF StripeVersion, Quiet
    <2>4. hist' = hist
      BY <1>0, <1>11, HistoryStep DEF Publishing
    <2> QED
      BY <1>1, <1>2, <2>1, <2>3, <2>4
  <1> QED
    BY <1>7, <1>8, <1>9, <1>10, <1>11

-----------------------------------------------------------------------------
(* The private half of the invariant: what a transaction may rely on *)

Logged(t, r) == HasRead(tx[t].r_set, LOCK_IDX(r.addr))

\* Read-only loads are not logged, so becoming irrevocable does not validate them.
LateIrrevocable(t) == tx[t].read_only /\ "irrevocable" \in Features

\* Nothing is read before an attempt begins.
Unread(t) == pc[t] \in Outside => seen[t] = {} /\ tx[t].r_set = <<>>

\* The snapshot is in the past, and covers the versions that were logged.
Bounds(t) ==
    InAttempt(t) \/ pc[t] = "irr_spin" =>
        /\ tx[t].start <= tx[t].end /\ tx[t].end <= clock
        /\ \A j \in 1 .. Len(tx[t].r_set) : tx[t].r_set[j].version <= tx[t].end
        /\ ValidatesFor(t, "extend") => tx[t].end <= loc[t].now /\ loc[t].now <= clock
        /\ Timed(t) => tx[t].end < loc[t].ts

\* Values come from the snapshot at tx->end, unless the stripe is our own ...
InSnapshot(t) ==
    InAttempt(t) /\ tx[t].irrevocable \in {0, 2} =>
        \A r \in seen[t] : ~UnderOwnLock(t, r.addr) =>
            GoodRead(r, tx[t].end) /\ (Logged(t, r) \/ tx[t].read_only)

\* ... and are then the committed ones.
OwnLatest(t) ==
    InAttempt(t) /\ ~tx[t].read_only =>
        \A r \in seen[t] : UnderOwnLock(t, r.addr) => Matches(r, Latest(r.addr))

\* A stripe that is about to be acquired has not changed since it was read.
Acquires(t) ==
    pc[t] = "store_cas" => \/ tx[t].irrevocable # 0
                           \/ loc[t].l.version <= tx[t].end
                           \/ ~HasRead(tx[t].r_set, LOCK_IDX(loc[t].addr))

\* What an irrevocable transaction has loaded stays.
Stable(t) ==
    InAttempt(t) /\ tx[t].irrevocable = 3 /\ ~LateIrrevocable(t) =>
        \A r \in seen[t] : Frozen(t, r)

\* What the entries that validation has passed say of the values loaded there.
ValidFor(t, r) ==
    /\ loc[t].for = "extend" => GoodRead(r, loc[t].now)
    /\ loc[t].for = "commit" => GoodRead(r, loc[t].ts - 1)
    /\ loc[t].for = "irrevocable" => Frozen(t, r)
Checked(t) ==
    pc[t] = "validate" =>
        \A r \in seen[t] : \A j \in 1 .. Len(tx[t].r_set) :
            /\ j < loc[t].i
            /\ tx[t].r_set[j].lock = LOCK_IDX(r.addr)
            /\ ~UnderOwnLock(t, r.addr)
            => ValidFor(t, r)

\* A load in progress: while the stripe keeps the version of the lock word that was
\* read first, the value is the committed one.
Loads(t) ==
    pc[t] \in {"load_value", "load_relock", "extend", "load_recheck"} \/ ValidatesFor(t, "extend")
Loading(t) ==
    Loads(t) =>
        LET s == LOCK_IDX(loc[t].addr)  v == loc[t].l.version IN
        /\ loc[t].l.owner = NoTx
        /\ v <= clock /\ v <= StripeVersion(s)
        /\ StripeVersion(s) = v =>
              /\ Quiet(s)
              /\ pc[t] # "load_value" => loc[t].value = Latest(loc[t].addr)
        /\ pc[t] = "validate" => v <= loc[t].now
        /\ pc[t] = "load_recheck" => v <= tx[t].end

\* What is being written back was computed from the state before its timestamp ...
Serial(t) ==
    Publishing(t) /\ ~tx[t].read_only => \A r \in seen[t] : GoodRead(r, loc[t].ts - 1)

\* ... and so were the bytes that it does not change.
BytesFrom(e, n) ==
    e.mask # {} => /\ Settled(e.addr, n)
                   /\ \A b \in Byte \ e.mask : e.value[b] = Snapshot(e.addr, n)[b]
BytesKept(t) ==
    Publishing(t) => \A j \in 1 .. Len(tx[t].w_set) : BytesFrom(tx[t].w_set[j], loc[t].ts - 1)

Private(t) ==
    /\ Unread(t) /\ Bounds(t) /\ InSnapshot(t) /\ OwnLatest(t) /\ Acquires(t)
    /\ Stable(t) /\ Checked(t) /\ Loading(t) /\ Serial(t) /\ BytesKept(t)

SerialInv == MemInv /\ StageInv /\ \A t \in Tx : Private(t)

-----------------------------------------------------------------------------
(* The ways in which a step of t moves its transaction *)

SameReads(t) ==
    /\ seen'[t] = seen[t]
    /\ tx'[t].r_set = tx[t].r_set /\ tx'[t].read_only = tx[t].read_only
    /\ tx'[t].start = tx[t].start /\ tx'[t].end = tx[t].end

\* Out of an attempt, or not into one yet.
Quits(t) ==
    /\ pc'[t] \in Outside
    /\ seen'[t] = {} /\ tx'[t].r_set = <<>>
    /\ pc'[t] = "irr_spin" => tx'[t].start = clock /\ tx'[t].end = clock /\ clock' = clock

\* Into an attempt.
Begins(t) ==
    /\ pc'[t] = "active"
    /\ seen'[t] = {} /\ tx'[t].r_set = <<>>
    /\ clock' = clock
    /\ \/ tx'[t].start = clock /\ tx'[t].end = clock
       \/ pc[t] = "irr_spin" /\ tx'[t].start = tx[t].start /\ tx'[t].end = tx[t].end

\* Into or within the write-back.
Finishes(t) ==
    /\ Publishing(t)'
    /\ SameReads(t) /\ tx'[t].w_set = tx[t].w_set
    /\ Publishes(t) \/ Install(t) \/ Drop(t)

\* The value that memory has under an own lock.
OwnLoad(t) ==
    /\ InAttempt(t)
    /\ \E a \in Addr : UnderOwnLock(t, a) /\ ReturnLoad(t, a, mem[a], {}, <<>>)

\* Within an attempt, to a place of which the invariant says little.
Arrives(t) ==
    /\ InAttempt(t)
    /\ SameReads(t) /\ tx'[t].irrevocable = tx[t].irrevocable
    /\ pc'[t] \in {"active", "load", "store", "store_cas", "commit_clock"}
    /\ pc'[t] = "store_cas" => \/ tx[t].irrevocable # 0
                               \/ loc'[t].l.version <= tx[t].end
                               \/ ~HasRead(tx[t].r_set, LOCK_IDX(loc'[t].addr))

\* The lock of an address to load is free.
Locates(t) ==
    /\ InAttempt(t)
    /\ \E a \in Addr : LoadFree(t, a, lock[LOCK_IDX(a)])

Inner(t) ==
    \/ Locates(t) \/ LoadValue(t) \/ Extend(t) \/ ValidateEntry(t)
    \/ SetIrrevocable(t) \/ IrrevocableValidated(t)
    \/ LoadTooNew(t) /\ pc'[t] = "extend"
    \/ CommitClock(t) /\ pc'[t] = "validate"

OwnMoves(t) ==
    \/ Quits(t) \/ Begins(t) \/ Finishes(t)
    \/ OwnLoad(t) \/ LoadReturn(t) \/ LoadRecheck(t) \/ Extended(t)
    \/ Arrives(t) \/ Inner(t)

\* Rollback moves it out.
LEMMA RollbackQuits ==
  ASSUME TypeInv, NEW t \in Tx, NEW r, NEW irr, RollbackAs(t, r, irr)
  PROVE  Quits(t)
  BY DEF RollbackAs, Goto, Quits, Outside, Between, TypeInv, TypeOK, TxDesc

\* So does a rollback that keeps the mode.
LEMMA PlainRollbackQuits ==
  ASSUME TypeInv, NEW t \in Tx, NEW r, Rollback(t, r)
  PROVE  Quits(t)
  BY RollbackQuits DEF Rollback

\* A load moves it in one of the ways.
LEMMA ReadLockMoves ==
  ASSUME TypeInv, NEW t \in Tx, NEW a \in Addr, ReadLock(t, a, lock[LOCK_IDX(a)]), InAttempt(t)
  PROVE  OwnMoves(t)
  <1> DEFINE l == lock[LOCK_IDX(a)]
  <1>1. CASE Rollback(t, "RW_CONFLICT")
    BY <1>1, PlainRollbackQuits DEF OwnMoves
  <1>2. CASE LoadOwn(t, a, l)
    <2>1. CASE ReturnLoad(t, a, mem[a], {}, <<>>)
      BY <1>2, <2>1 DEF LoadOwn, UnderOwnLock, OwnLoad, OwnMoves
    <2>2. CASE Goto(t, "active") /\ UNCHANGED <<tx, aux>>
      <3>1. Arrives(t)
        BY <2>2 DEF Goto, Arrives, SameReads, aux, TypeInv, TypeOK
      <3> QED
        BY <3>1 DEF OwnMoves
    <2> QED
      BY <1>2, <2>1, <2>2 DEF LoadOwn
  <1>3. CASE LoadConflict(t, a, l) /\ ~Rollback(t, "RW_CONFLICT")
    <2>1. Arrives(t)
      BY <1>3 DEF LoadConflict, Goto, Arrives, SameReads, aux, TypeInv, TypeOK
    <2> QED
      BY <2>1 DEF OwnMoves
  <1>4. CASE LoadFree(t, a, l)
    <2>1. LoadFree(t, a, lock[LOCK_IDX(a)])
      BY <1>4
    <2>2. Locates(t)
      BY <2>1 DEF Locates
    <2> QED
      BY <2>2 DEF Inner, OwnMoves
  <1> QED
    BY <1>1, <1>2, <1>3, <1>4 DEF ReadLock

\* So does a store.
LEMMA WriteLockMoves ==
  ASSUME TypeInv, NEW t \in Tx, NEW a \in Addr, NEW w \in Word, NEW m \in SUBSET Byte,
         NEW l \in LockWord, WriteLock(t, a, w, m, l), InAttempt(t)
  PROVE  OwnMoves(t)
  <1>1. CASE \/ Rollback(t, "WW_CONFLICT") \/ Rollback(t, "VAL_WRITE")
             \/ Rollback(t, "EXTEND_WS")
    BY <1>1, PlainRollbackQuits DEF OwnMoves
  <1>2. CASE ~(\/ Rollback(t, "WW_CONFLICT") \/ Rollback(t, "VAL_WRITE")
               \/ Rollback(t, "EXTEND_WS"))
    <2>1. CASE StoreOwn(t, a, w, m, l)
      <3>1. /\ pc'[t] = "active" /\ seen' = seen
            /\ \/ tx' = tx
               \/ \E nw : tx' = [tx EXCEPT ![t].w_set = nw]
        <4>1. Goto(t, "active") /\ UNCHANGED aux
          BY <1>2, <2>1 DEF StoreOwn
        <4>2. tx' = tx \/ \E nw : tx' = [tx EXCEPT ![t].w_set = nw]
          BY <1>2, <2>1 DEF StoreOwn
        <4> QED
          BY <4>1, <4>2 DEF Goto, aux, TypeInv, TypeOK
      <3>2. SameReads(t) /\ tx'[t].irrevocable = tx[t].irrevocable
        BY <3>1 DEF SameReads, TypeInv, TypeOK, TxDesc
      <3>3. Arrives(t)
        BY <3>1, <3>2 DEF Arrives
      <3> QED
        BY <3>3 DEF OwnMoves
    <2>2. CASE StoreConflict(t, a, w, m, l)
      <3>1. Arrives(t)
        BY <1>2, <2>2 DEF StoreConflict, Goto, Arrives, SameReads, aux, TypeInv, TypeOK
      <3> QED
        BY <3>1 DEF OwnMoves
    <2>3. CASE StoreFree(t, a, w, m, l)
      <3>1. /\ pc'[t] = "store_cas" /\ tx' = tx /\ seen' = seen
            /\ loc'[t].addr = a /\ loc'[t].l = l
            /\ ~ReadOlder(t, a, l)
        <4>1. /\ Goto(t, "store_cas") /\ UNCHANGED <<tx, aux>> /\ ~ReadOlder(t, a, l)
              /\ loc' = [loc EXCEPT ![t] = [NoLoc EXCEPT !.addr = a, !.value = w,
                                                         !.mask = m, !.l = l]]
          BY <1>2, <2>3 DEF StoreFree
        <4> QED
          BY <4>1 DEF Goto, aux, TypeInv, TypeOK, NoLoc
      <3>2. l.version \in Nat /\ tx[t].end \in Nat
        BY DEF TypeInv, TypeOK, TxDesc, LockWord
      <3>3. Arrives(t)
        BY <3>1, <3>2 DEF Arrives, SameReads, ReadOlder
      <3> QED
        BY <3>3 DEF OwnMoves
    <2> QED
      BY <2>1, <2>2, <2>3 DEF WriteLock
  <1> QED
    BY <1>1, <1>2

\* The end of a commit moves it out.
LEMMA CommittedQuits ==
  ASSUME TypeInv, NEW t \in Tx, Committed(t)
  PROVE  Quits(t)
  BY DEF Committed, Goto, Quits, Outside, Between, TypeInv, TypeOK, TxDesc

\* There is no other way.
LEMMA MovesStep ==
  ASSUME LockInv, NEW t \in Tx, Unread(t), Stage(t), Running(t) \/ Call(t)
  PROVE  OwnMoves(t)
  <1> USE DEF shared, aux
  <1>0. TypeInv /\ loc[t] \in Locals /\ tx[t] \in TxDesc
    BY DEF LockInv, TypeInv, TypeOK
  <1>1. CASE \/ ValidateFails(t) \/ UserAbort(t) \/ SetIrrevocableFails(t)
             \/ LoadTooNew(t) /\ Rollback(t, "VAL_READ")
             \/ Commit(t) /\ Rollback(t, "IRREVOCABLE")
    <2>1. Quits(t)
      BY <1>0, <1>1, RollbackQuits, PlainRollbackQuits
      DEF ValidateFails, UserAbort, SetIrrevocableFails, LoadTooNew, Commit
    <2> QED
      BY <2>1 DEF OwnMoves
  <1>2. CASE Load(t) \/ LoadAgain(t) \/ LoadRestart(t)
    <2>1. InAttempt(t)
      BY <1>2 DEF Load, LoadAgain, LoadRestart, InAttempt, Outside, Between
    <2>2. \E a \in Addr : ReadLock(t, a, lock[LOCK_IDX(a)])
      BY <1>0, <1>2 DEF Load, LoadAgain, LoadRestart, Locals
    <2> QED
      BY <1>0, <2>1, <2>2, ReadLockMoves
  <1>3. CASE Store(t) \/ StoreAgain(t)
    <2>1. InAttempt(t)
      BY <1>3 DEF Store, StoreAgain, InAttempt, Outside, Between
    <2>2. \A w \in Stores[t], m \in Mask : w \in Word /\ m \in SUBSET Byte
      BY StmAssumption
    <2>3. \A a \in Addr : lock[LOCK_IDX(a)] \in LockWord
      BY <1>0, LockIdxType DEF TypeInv, TypeOK
    <2>4. \E a \in Addr, w \in Word, m \in SUBSET Byte : WriteLock(t, a, w, m, lock[LOCK_IDX(a)])
      BY <1>0, <1>3, <2>2 DEF Store, StoreAgain, Locals
    <2> QED
      BY <1>0, <2>1, <2>3, <2>4, WriteLockMoves
  <1>4. CASE CommitReadOnly(t) \/ CommitEnd(t)
    BY <1>0, <1>4, CommittedQuits DEF CommitReadOnly, CommitEnd, OwnMoves
  <1>5. CASE LoadReturn(t) \/ LoadRecheck(t) \/ Extended(t)
    BY <1>5 DEF OwnMoves
  <1>6. CASE \/ LoadValue(t) \/ Extend(t) \/ ValidateEntry(t)
             \/ SetIrrevocable(t) \/ IrrevocableValidated(t)
    BY <1>6 DEF Inner, OwnMoves
  <1>7. CASE LoadTooNew(t) /\ ~Rollback(t, "VAL_READ")
    <2>1. pc'[t] = "extend"
      BY <1>0, <1>7 DEF LoadTooNew, Goto, TypeInv, TypeOK
    <2> QED
      BY <1>7, <2>1 DEF Inner, OwnMoves
  <1>8. CASE StoreAcquire(t)
    <2>1. SameReads(t) /\ tx'[t].irrevocable = tx[t].irrevocable /\ pc[t] = "store_cas"
          /\ pc'[t] = "active"
      BY <1>0, <1>8 DEF StoreAcquire, Goto, SameReads, TypeInv, TypeOK, TxDesc
    <2>2. Arrives(t)
      BY <2>1 DEF Arrives, InAttempt, Outside, Between
    <2> QED
      BY <2>2 DEF OwnMoves
  <1>9. CASE StoreCasFails(t) \/ (Commit(t) /\ ~Rollback(t, "IRREVOCABLE"))
    <2>1. /\ tx' = tx /\ seen' = seen /\ pc[t] \in {"store_cas", "active"}
          /\ pc'[t] \in {"store", "commit_clock"}
      BY <1>0, <1>9 DEF StoreCasFails, Commit, Goto, TypeInv, TypeOK
    <2>2. Arrives(t)
      BY <2>1 DEF Arrives, SameReads, InAttempt, Outside, Between
    <2> QED
      BY <2>2 DEF OwnMoves
  <1>10. CASE CommitClock(t) \/ CommitValidated(t)
    <2>1. Publishes(t)
      BY <1>10 DEF Publishes
    <2>2. CASE pc'[t] = "install"
      <3>1. tx' = tx /\ seen' = seen
        BY <1>0, <2>1, PublishesEffect
      <3>2. Finishes(t)
        BY <2>1, <2>2, <3>1 DEF Finishes, SameReads, Publishing
      <3> QED
        BY <3>2 DEF OwnMoves
    <2>3. CASE pc'[t] = "validate"
      <3>1. CommitClock(t)
        BY <1>0, <1>10, <2>3 DEF CommitValidated, StartInstall, Goto, TypeInv, TypeOK
      <3> QED
        BY <2>3, <3>1 DEF Inner, OwnMoves
    <2> QED
      BY <1>0, <2>1, <2>2, <2>3, PublishesEffect
  <1>11. CASE Install(t) \/ Drop(t)
    <2>1. tx' = tx /\ seen' = seen /\ Publishing(t)'
      BY <1>0, <1>11, Zenon DEF Install, Drop, Publishing, Goto, TypeInv, TypeOK
    <2>2. Finishes(t)
      BY <1>11, <2>1 DEF Finishes, SameReads
    <2> QED
      BY <2>2 DEF OwnMoves
  <1>12. CASE RollbackDrop(t) \/ RollbackEnd(t) \/ PrepareBarrier(t) \/ RequestIrrevocable(t)
    <2>1. seen[t] = {} /\ tx[t].r_set = <<>>
      BY <1>12, Zenon DEF RollbackDrop, RollbackEnd, PrepareBarrier, RequestIrrevocable, Unread,
                   Outside, Between
    <2>2. seen' = seen /\ tx'[t].r_set = tx[t].r_set
          /\ pc'[t] \in {"rollback", "prepare", "barrier", "idle"}
      <3>1. CASE RollbackDrop(t) \/ RollbackEnd(t)
        BY <1>0, <3>1 DEF RollbackDrop, RollbackEnd, Goto, TypeInv, TypeOK, TxDesc
      <3>2. CASE PrepareBarrier(t) \/ RequestIrrevocable(t)
        BY <1>0, <3>2 DEF PrepareBarrier, RequestIrrevocable, Goto, TypeInv, TypeOK, TxDesc
      <3> QED
        BY <1>12, <3>1, <3>2
    <2>3. Quits(t)
      BY <2>1, <2>2 DEF Quits, Outside, Between
    <2> QED
      BY <2>3 DEF OwnMoves
  <1>13. CASE Start(t)
    <2>1. PICK ro, ne \in BOOLEAN :
             tx' = [tx EXCEPT ![t].read_only = ro, ![t].no_extend = ne]
      BY <1>13 DEF Start
    <2>2. pc[t] = "idle" /\ pc'[t] = "prepare" /\ seen' = seen /\ tx'[t].r_set = tx[t].r_set
      BY <1>0, <1>13, <2>1 DEF Start, Goto, TypeInv, TypeOK, TxDesc
    <2>3. Quits(t)
      BY <2>2 DEF Quits, Unread, Outside, Between
    <2> QED
      BY <2>3 DEF OwnMoves
  <1>14. CASE Prepare(t)
    <2>1. seen[t] = {} /\ tx[t].r_set = <<>>
      BY <1>14 DEF Prepare, Unread, Outside, Between
    <2>2. /\ seen' = seen /\ tx'[t].r_set = tx[t].r_set /\ clock' = clock
          /\ tx'[t].start = clock /\ tx'[t].end = clock
          /\ pc'[t] \in {"irr_spin", "active"}
      BY <1>0, <1>14 DEF Prepare, Goto, TypeInv, TypeOK, TxDesc
    <2>3. Quits(t) \/ Begins(t)
      BY <2>1, <2>2 DEF Quits, Begins, Outside, Between
    <2> QED
      BY <2>3 DEF OwnMoves
  <1>15. CASE AcquireIrrevocable(t)
    <2>1. seen[t] = {} /\ tx[t].r_set = <<>> /\ pc[t] = "irr_spin"
      BY <1>15 DEF AcquireIrrevocable, Unread, Outside, Between
    <2>2. /\ seen' = seen /\ tx'[t].r_set = tx[t].r_set /\ clock' = clock
          /\ tx'[t].start = tx[t].start /\ tx'[t].end = tx[t].end
          /\ pc'[t] = "active"
      BY <1>0, <1>15 DEF AcquireIrrevocable, Goto, TypeInv, TypeOK, TxDesc
    <2>3. Begins(t)
      BY <2>1, <2>2 DEF Begins
    <2> QED
      BY <2>3 DEF OwnMoves
  <1>16. CASE Running(t)
    BY <1>1, <1>2, <1>3, <1>4, <1>5, <1>6, <1>7, <1>8, <1>9, <1>10, <1>11, <1>12, <1>14,
       <1>15, <1>16 DEF Running
  <1>17. CASE Call(t)
    BY <1>1, <1>2, <1>3, <1>4, <1>6, <1>9, <1>12, <1>13, <1>17 DEF Call
  <1> QED
    BY <1>16, <1>17

\* Steps within an attempt keep the reads; irrevocable mode is entered by validation.
Stays(t) ==
    /\ InAttempt(t) /\ InAttempt(t)'
    /\ SameReads(t)
    /\ tx'[t].irrevocable \in {0, 2} => tx[t].irrevocable \in {0, 2}
    /\ tx'[t].irrevocable = 3 => tx[t].irrevocable = 3 \/ IrrevocableValidated(t)

\* The inner steps are of this kind.
LEMMA InnerStays ==
  ASSUME TypeInv, NEW t \in Tx, Stage(t), Inner(t) \/ Arrives(t)
  PROVE  Stays(t)
  <1> USE DEF shared, aux
  <1>0. loc[t] \in Locals /\ tx[t] \in TxDesc
    BY DEF TypeInv, TypeOK
  <1>1. CASE Arrives(t)
    <2>1. InAttempt(t)' /\ InAttempt(t) /\ SameReads(t) /\ tx'[t].irrevocable = tx[t].irrevocable
      BY <1>1 DEF Arrives, InAttempt, Outside, Between
    <2> QED
      BY <2>1 DEF Stays
  <1>2. CASE Locates(t)
    <2>1. InAttempt(t) /\ pc'[t] = "load_value" /\ tx' = tx /\ seen' = seen
      BY <1>2 DEF Locates, LoadFree, Goto, TypeInv, TypeOK
    <2> QED
      BY <2>1 DEF Stays, SameReads, InAttempt, Outside, Between
  <1>3. CASE LoadValue(t) \/ (LoadTooNew(t) /\ pc'[t] = "extend") \/ Extend(t)
    <2>1. /\ pc[t] \in {"load_value", "load_relock", "extend"}
          /\ pc'[t] \in {"load_relock", "extend", "validate"}
          /\ tx' = tx /\ seen' = seen
      <3>1. CASE LoadValue(t)
        BY <3>1 DEF LoadValue, Goto, TypeInv, TypeOK
      <3>2. CASE LoadTooNew(t) /\ pc'[t] = "extend"
        BY <3>2 DEF LoadTooNew, Rollback, RollbackAs, Goto, TypeInv, TypeOK
      <3>3. CASE Extend(t)
        BY <3>3 DEF Extend, StartValidate, Goto, TypeInv, TypeOK
      <3> QED
        BY <1>3, <3>1, <3>2, <3>3
    <2> QED
      BY <2>1 DEF Stays, SameReads, InAttempt, Outside, Between
  <1>4. CASE ValidateEntry(t) \/ (CommitClock(t) /\ pc'[t] = "validate")
    <2>1. /\ pc[t] \in {"validate", "commit_clock"} /\ pc'[t] = "validate"
          /\ tx' = tx /\ seen' = seen
      <3>1. CASE ValidateEntry(t)
        BY <3>1 DEF ValidateEntry
      <3>2. CASE CommitClock(t) /\ pc'[t] = "validate"
        BY <3>2 DEF CommitClock
      <3> QED
        BY <1>4, <3>1, <3>2
    <2> QED
      BY <2>1 DEF Stays, SameReads, InAttempt, Outside, Between
  <1>5. CASE SetIrrevocable(t)
    <2>1. /\ pc[t] = "active" /\ pc'[t] = "validate" /\ SameReads(t)
          /\ tx[t].irrevocable = 0 /\ tx'[t].irrevocable = 2
      BY <1>0, <1>5 DEF SetIrrevocable, StartValidate, Goto, SameReads, TypeInv, TypeOK, TxDesc
    <2> QED
      BY <2>1 DEF Stays, InAttempt, Outside, Between
  <1>6. CASE IrrevocableValidated(t)
    <2>1. /\ pc[t] = "validate" /\ pc'[t] = "active" /\ SameReads(t)
          /\ tx'[t].irrevocable = 3
      BY <1>0, <1>6 DEF IrrevocableValidated, Validated, Goto, SameReads, TypeInv, TypeOK, TxDesc
    <2> QED
      BY <1>6, <2>1 DEF Stays, InAttempt, Outside, Between
  <1> QED
    BY <1>1, <1>2, <1>3, <1>4, <1>5, <1>6 DEF Inner

-----------------------------------------------------------------------------
(* Steps of other threads *)

\* While somebody else is irrevocable, nobody starts to write back.
LEMMA WriterStep ==
  ASSUME TypeInv, NEW t \in Tx, StepOf(t), Stage(t), Writer(t)',
         irrevocable, tx[t].irrevocable \in {0, 1}
  PROVE  Writer(t)
  <1>1. CASE Keeps(t)
    <2>1. ~Publishing(t)' /\ (Timed(t)' => Timed(t))
      BY <1>1 DEF Keeps
    <2>2. CASE pc'[t] = "commit_clock"
      <3>1. Commit(t)
        BY <1>1, <2>2 DEF Keeps
      <3>2. pc[t] = "active" /\ ~Rollback(t, "IRREVOCABLE")
        BY <2>2, <3>1 DEF Commit, Rollback, RollbackAs, Goto, TypeInv, TypeOK
      <3>3. tx[t].irrevocable # 0
        BY <3>1, <3>2 DEF Commit
      <3> QED
        BY <3>2, <3>3 DEF Stage, IrrStage, Outside, Between
    <2> QED
      BY <2>1, <2>2 DEF Writer
  <1>2. CASE Forgets(t) \/ Edits(t)
    BY <1>2 DEF Forgets, Edits, Writer, Timed, Publishing
  <1>3. CASE StoreAcquire(t) \/ RollbackDrop(t)
    BY <1>3 DEF StoreAcquire, RollbackDrop, Writer, Timed, Publishing, Goto, TypeInv, TypeOK
  <1>4. CASE Publishes(t)
    BY <1>4, PublishesEffect DEF Writer
  <1>5. CASE Install(t) \/ Drop(t)
    BY <1>5, Zenon DEF Install, Drop, Writer, Publishing
  <1> QED
    BY <1>1, <1>2, <1>3, <1>4, <1>5 DEF StepOf, Kinds

\* Other threads do not change what an irrevocable transaction has loaded.
LEMMA FrozenStep ==
  ASSUME MemInv, MemInv', StageInv, NEW t \in Tx, StepOf(t), NEW u \in Tx \ {t},
         tx[u].irrevocable \in {2, 3}, NEW r \in SeenEntry, Frozen(u, r)
  PROVE  Frozen(u, r)'
  <1> DEFINE s == LOCK_IDX(r.addr)
  <1>0. /\ LockInv /\ TypeInv /\ TypeInv' /\ r.addr \in Addr /\ s \in Stripe /\ Stage(t)
        /\ irrevocable /\ tx[t].irrevocable \in {0, 1}
    BY LockIdxType DEF MemInv, LockInv, StageInv, IrrevocableUnique, SeenEntry
  <1>1. NoWriter(u, s)'
    <2>1. SUFFICES ASSUME NEW v \in Tx \ {u}, lock'[s].owner = v, Writer(v)'
                   PROVE  FALSE
      BY DEF NoWriter
    <2>2. CASE v # t
      BY <1>0, <2>1, <2>2, OwnerFrame
      DEF Frozen, NoWriter, StepOf, Others, Writer, Timed, Publishing
    <2>3. CASE v = t
      <3>1. Writer(t)
        BY <1>0, <2>1, <2>3, WriterStep
      <3>2. lock[s].owner = t
        <4>1. ~TakenBy(t, s)
          <5>1. StoreAcquire(t) => pc'[t] = "active"
            BY <1>0 DEF StoreAcquire, Goto, TypeInv, TypeOK
          <5> QED
            BY <2>1, <2>3, <5>1 DEF TakenBy, Writer, Timed, Publishing
        <4>2. FreedBy(t, s) => lock[s].owner = t
          BY <1>0, RemainingHeld, HeldApart DEF FreedBy
        <4> QED
          BY <1>0, <2>1, <2>3, <4>1, <4>2, StripeSteps DEF Spared, KeptBy
      <3> QED
        BY <2>3, <3>1, <3>2 DEF Frozen, NoWriter
    <2> QED
      BY <2>2, <2>3
  <1>2. hist'[r.addr] = hist[r.addr]
    <2>1. SUFFICES ASSUME hist'[r.addr] # hist[r.addr]
                   PROVE  FALSE
      OBVIOUS
    <2>2. Publishes(t) /\ s \in Held(t)
      BY <1>0, <2>1, HistoryStep, Elsewhere
    <2>3. lock[s].owner = t /\ Writer(t)
      BY <1>0, <2>2, HeldApart, PublishesEffect DEF Writer
    <2> QED
      BY <2>3 DEF Frozen, NoWriter
  <1> QED
    BY <1>1, <1>2 DEF Frozen, Matches, Latest

\* Entries of the write set and snapshots: what has settled stays.
LEMMA BytesFromStep ==
  ASSUME MemInv, MemInv', NEW t \in Tx, StepOf(t), NEW e \in WEntry, NEW n \in Int,
         BytesFrom(e, n)
  PROVE  BytesFrom(e, n)'
  <1>1. e.addr \in Addr
    BY DEF WEntry
  <1>2. CASE e.mask = {}
    BY <1>2 DEF BytesFrom
  <1>3. CASE e.mask # {}
    <2>1. Settled(e.addr, n)' /\ Snapshot(e.addr, n)' = Snapshot(e.addr, n)
      BY <1>1, <1>3, SettledStep DEF BytesFrom, Snapshot
    <2> QED
      BY <1>3, <2>1 DEF BytesFrom
  <1> QED
    BY <1>2, <1>3

\* A thread's private invariant does not depend on what others do.
LEMMA OthersPrivate ==
  ASSUME SerialInv, MemInv', NEW t \in Tx, StepOf(t), NEW u \in Tx \ {t}
  PROVE  Private(u)'
  <1>0. /\ MemInv /\ StageInv /\ LockInv /\ TypeInv /\ TypeInv' /\ Private(u)
        /\ tx[u] \in TxDesc /\ loc[u] \in Locals
    BY DEF SerialInv, MemInv, LockInv, TypeInv, TypeOK
  <1>1. tx'[u] = tx[u] /\ pc'[u] = pc[u] /\ loc'[u] = loc[u] /\ seen'[u] = seen[u]
    BY DEF StepOf, Others
  <1>2. clock' >= clock /\ clock \in Nat /\ clock' \in Nat
    BY <1>0, ClockForward
  <1>3. /\ \A f : ValidatesFor(u, f)' = ValidatesFor(u, f)
        /\ Timed(u)' = Timed(u) /\ Publishing(u)' = Publishing(u)
        /\ InAttempt(u)' = InAttempt(u) /\ Loads(u)' = Loads(u)
        /\ LateIrrevocable(u)' = LateIrrevocable(u)
    BY <1>1 DEF ValidatesFor, Timed, Publishing, InAttempt, Loads, LateIrrevocable
  <1>4. \A r \in seen[u] : r \in SeenEntry /\ r.addr \in Addr /\ LOCK_IDX(r.addr) \in Stripe
    BY <1>0, LockIdxType DEF TypeInv, TypeOK, SeenEntry
  <1>5. \A r \in seen[u] : /\ UnderOwnLock(u, r.addr)' <=> UnderOwnLock(u, r.addr)
                           /\ Logged(u, r)' <=> Logged(u, r)
    <2>1. \A r : Logged(u, r)' <=> Logged(u, r)
      BY <1>1 DEF Logged
    <2>2. \A r \in seen[u] : UnderOwnLock(u, r.addr)' <=> UnderOwnLock(u, r.addr)
      BY <1>0, <1>4, OwnerFrame DEF UnderOwnLock
    <2> QED
      BY <2>1, <2>2
  <1>6. ASSUME NEW a \in Addr, UnderOwnLock(u, a)
        PROVE  Latest(a)' = Latest(a)
    <2>1. LOCK_IDX(a) \notin Held(t)
      BY <1>0, <1>6, LockIdxType, HeldApart DEF UnderOwnLock
    <2> QED
      BY <1>0, <2>1, Elsewhere DEF Latest
  <1>7. Unread(u)' /\ Acquires(u)'
    BY <1>0, <1>1 DEF Private, Unread, Acquires
  <1>8. Bounds(u)'
    <2>1. tx[u].end \in Nat /\ loc[u].now \in Nat
      BY <1>0 DEF TxDesc, Locals
    <2> QED
      BY <1>0, <1>1, <1>2, <1>3, <2>1 DEF Private, Bounds
  <1>9. InSnapshot(u)'
    <2>1. tx[u].end \in Nat
      BY <1>0 DEF TxDesc
    <2>2. \A r \in seen[u] : \A n \in Int : GoodRead(r, n) => GoodRead(r, n)'
      BY <1>0, <1>4, GoodReadStep
    <2> QED
      BY <1>0, <1>1, <1>3, <1>5, <2>1, <2>2 DEF Private, InSnapshot
  <1>10. OwnLatest(u)'
    BY <1>0, <1>1, <1>3, <1>4, <1>5, <1>6 DEF Private, OwnLatest, Matches
  <1>11. Stable(u)'
    BY <1>0, <1>1, <1>3, <1>4, FrozenStep DEF Private, Stable
  <1>12. Checked(u)'
    <2>1. \A r \in seen[u] : ValidatesFor(u, "irrevocable") /\ Frozen(u, r) => Frozen(u, r)'
      <3>1. ValidatesFor(u, "irrevocable") => tx[u].irrevocable = 2
        BY <1>0 DEF StageInv, Stage, IrrStage
      <3> QED
        BY <1>0, <1>4, <3>1, FrozenStep
    <2>2. loc[u].ts - 1 \in Int
      BY <1>0 DEF Locals
    <2>3. \A r \in seen[u] : \A n \in Int : GoodRead(r, n) => GoodRead(r, n)'
      BY <1>0, <1>4, GoodReadStep
    <2>4. loc[u].now \in Nat
      BY <1>0 DEF Locals
    <2>5. ASSUME NEW r \in seen[u], pc[u] = "validate", ValidFor(u, r)
          PROVE  ValidFor(u, r)'
      <3>1. loc[u].for = "extend" => GoodRead(r, loc[u].now)'
        BY <1>1, <2>3, <2>4, <2>5 DEF ValidFor
      <3>2. loc[u].for = "commit" => GoodRead(r, loc[u].ts - 1)'
        BY <1>1, <2>2, <2>3, <2>5 DEF ValidFor, Timed
      <3>3. loc[u].for = "irrevocable" => Frozen(u, r)'
        BY <2>1, <2>5 DEF ValidFor, ValidatesFor
      <3> HIDE DEF Frozen
      <3> QED
        BY <1>1, <3>1, <3>2, <3>3 DEF ValidFor
    <2> QED
      BY <1>0, <1>1, <1>5, <2>5 DEF Private, Checked
  <1>13. Loading(u)'
    <2> DEFINE b == loc[u].addr
               s == LOCK_IDX(b)
               v == loc[u].l.version
    <2>1. b \in Addr /\ s \in Stripe /\ v \in Nat
      BY <1>0, LockIdxType DEF Locals, LockWord
    <2>2. ASSUME NEW x \in Stripe
          PROVE  /\ StripeVersion(x) \in Nat /\ StripeVersion(x)' \in Nat
                 /\ StripeVersion(x)' >= StripeVersion(x)
                 /\ StripeVersion(x)' = StripeVersion(x) /\ Quiet(x) =>
                       /\ Quiet(x)'
                       /\ \A a \in Addr : LOCK_IDX(a) = x => Latest(a)' = Latest(a)
      BY <1>0, <2>2, StripeStep DEF Latest
    <2>3. CASE Loads(u)
      <3>1. /\ loc[u].l.owner = NoTx /\ v <= clock /\ v <= StripeVersion(s)
            /\ StripeVersion(s) = v =>
                  Quiet(s) /\ (pc[u] # "load_value" => loc[u].value = Latest(b))
            /\ pc[u] = "validate" => v <= loc[u].now
            /\ pc[u] = "load_recheck" => v <= tx[u].end
        BY <1>0, <2>3 DEF Private, Loading
      <3>2. ASSUME NEW x \in Stripe, x = s
            PROVE  /\ v <= clock' /\ v <= StripeVersion(x)'
                   /\ StripeVersion(x)' = v =>
                         Quiet(x)' /\ (pc[u] # "load_value" => loc[u].value = Latest(b)')
        <4>1. Latest(b)' = Latest(b) \/ ~(StripeVersion(x)' = StripeVersion(x) /\ Quiet(x))
          <5>1. ASSUME NEW a \in Addr, a = b
                PROVE  Latest(a)' = Latest(a) \/ ~(StripeVersion(x)' = StripeVersion(x) /\ Quiet(x))
            BY <2>2, <3>2, <5>1
          <5> QED
            BY <1>1, <2>1, <5>1
        <4> HIDE DEF s, v, b
        <4> QED
          BY <1>2, <2>1, <2>2, <3>1, <3>2, <4>1
      <3> QED
        BY <1>1, <2>1, <3>1, <3>2 DEF Loading
    <2>4. CASE ~Loads(u)
      BY <1>3, <2>4 DEF Loading
    <2> QED
      BY <2>3, <2>4
  <1>14. Serial(u)'
    <2>1. loc[u].ts - 1 \in Int
      BY <1>0 DEF Locals
    <2>2. \A r \in seen[u] : \A n \in Int : GoodRead(r, n) => GoodRead(r, n)'
      BY <1>0, <1>4, GoodReadStep
    <2> QED
      BY <1>0, <1>1, <1>3, <2>1, <2>2 DEF Private, Serial
  <1>15. BytesKept(u)'
    <2>1. loc[u].ts - 1 \in Int
      BY <1>0 DEF Locals
    <2>2. \A j \in 1 .. Len(tx[u].w_set) : tx[u].w_set[j] \in WEntry
      BY <1>0, EntryType
    <2>3. \A e \in WEntry : \A n \in Int : BytesFrom(e, n) => BytesFrom(e, n)'
      BY <1>0, BytesFromStep
    <2> QED
      BY <1>0, <1>1, <1>3, <2>1, <2>2, <2>3 DEF Private, BytesKept
  <1> QED
    BY <1>7, <1>8, <1>9, <1>10, <1>11, <1>12, <1>13, <1>14, <1>15 DEF Private

-----------------------------------------------------------------------------
(* Own steps: out of an attempt, into one, and into the write-back *)

\* Out of an attempt, nothing is relied upon.
LEMMA QuitsPrivate ==
  ASSUME TypeInv, NEW t \in Tx, Quits(t)
  PROVE  Private(t)'
  <1>1. clock \in Nat
    BY DEF TypeInv, TypeOK
  <1>2. /\ ~Publishing(t)' /\ ~InAttempt(t)' /\ ~Loads(t)' /\ ~Timed(t)'
        /\ \A f : ~ValidatesFor(t, f)'
        /\ pc'[t] \notin {"store_cas", "validate"}
    BY DEF Quits, Outside, Between, Publishing, InAttempt, Loads, Timed, ValidatesFor
  <1>3. Unread(t)'
    BY DEF Quits, Unread
  <1>4. Bounds(t)'
    BY <1>1, <1>2 DEF Quits, Bounds
  <1> QED
    BY <1>2, <1>3, <1>4
    DEF Private, InSnapshot, OwnLatest, Acquires, Stable, Checked, Loading, Serial, BytesKept

\* A new attempt has read nothing, and its snapshot is now.
LEMMA BeginsPrivate ==
  ASSUME TypeInv, NEW t \in Tx, Bounds(t), Begins(t)
  PROVE  Private(t)'
  <1>1. clock \in Nat
    BY DEF TypeInv, TypeOK
  <1>2. /\ ~Publishing(t)' /\ ~Loads(t)' /\ ~Timed(t)'
        /\ \A f : ~ValidatesFor(t, f)'
        /\ pc'[t] \notin {"store_cas", "validate"}
    BY DEF Begins, Publishing, Loads, Timed, ValidatesFor
  <1>3. Unread(t)'
    BY DEF Begins, Unread
  <1>4. Bounds(t)'
    BY <1>1, <1>2 DEF Begins, Bounds
  <1>5. seen'[t] = {}
    BY DEF Begins
  <1> QED
    BY <1>2, <1>3, <1>4, <1>5
    DEF Private, InSnapshot, OwnLatest, Acquires, Stable, Checked, Loading, Serial, BytesKept

\* All commits to a stripe that t is about to write back are older.
LEMMA OwnStripeOlder ==
  ASSUME MemInv, NEW t \in Tx, Publishes(t), NEW a \in Addr, UnderOwnLock(t, a)
  PROVE  /\ Settled(a, CommitTime(t) - 1)
         /\ Snapshot(a, CommitTime(t) - 1) = Latest(a)
         /\ mem[a] = Latest(a)
  <1> DEFINE s == LOCK_IDX(a)  T == CommitTime(t)
  <1>0. /\ LockInv /\ TypeInv /\ Entries(t) /\ s \in Stripe /\ clock \in Nat
        /\ \A h \in hist[a] : h.version \in Nat
    BY LockIdxType DEF MemInv, LockInv, TypeInv, TypeOK
  <1>1. PICK j \in Remaining(t) : LOCK_IDX(tx[t].w_set[j].addr) = s
                                  /\ j \in 1 .. Len(tx[t].w_set)
    BY <1>0, OwnerEntry DEF UnderOwnLock
  <1>2. /\ T \in Nat /\ T <= clock'
        /\ tx[t].w_set[j].version \in Nat /\ tx[t].w_set[j].version < T
        /\ Clean(s, tx[t].w_set[j].version)
    BY <1>0, <1>1, CommitTimeAbove
  <1>3. \A h \in hist[a] : h.version <= T - 1
    BY <1>0, <1>2 DEF Clean
  <1>4. Snapshot(a, T - 1) = Latest(a)
    BY <1>3, LatestAt
  <1>5. mem[a] = Latest(a)
    BY <1>2 DEF Clean
  <1>6. Settled(a, T - 1)
    <2>1. T - 1 <= clock
      <3>1. clock' = clock \/ (clock' = clock + 1)
        BY <1>0, PublishesEffect
      <3> QED
        BY <1>0, <1>2, <3>1
    <2>2. Timed(t) => T = loc[t].ts
      BY DEF Timed, CommitTime
    <2>3. \A u \in Tx : lock[s].owner = u => u = t
      BY DEF UnderOwnLock
    <2> QED
      BY <1>2, <2>1, <2>2, <2>3 DEF Settled
  <1> QED
    BY <1>4, <1>5, <1>6

\* What a transaction has loaded when it starts to write back is the state before its
\* timestamp.
LEMMA PublishReads ==
  ASSUME SerialInv, NEW t \in Tx, Publishes(t), Publishing(t)', ~tx[t].read_only,
         NEW r \in seen[t]
  PROVE  GoodRead(r, CommitTime(t) - 1)
  <1>0. /\ MemInv /\ LockInv /\ TypeInv /\ Stage(t) /\ Private(t) /\ clock \in Nat
        /\ r \in SeenEntry /\ r.addr \in Addr /\ tx[t] \in TxDesc /\ loc[t] \in Locals
    BY DEF SerialInv, MemInv, StageInv, LockInv, TypeInv, TypeOK, SeenEntry
  <1>1. pc'[t] = "install" /\ pc[t] \in {"commit_clock", "validate"}
    BY <1>0, PublishesEffect DEF Publishing, Timed
  <1>2. InAttempt(t) /\ tx[t].irrevocable \in 0 .. 3
    BY <1>0, <1>1 DEF InAttempt, Outside, Between, TxDesc
  <1>3. CASE UnderOwnLock(t, r.addr)
    <2>1. Matches(r, Latest(r.addr))
      BY <1>0, <1>2, <1>3 DEF Private, OwnLatest
    <2> QED
      BY <1>0, <1>3, <2>1, OwnStripeOlder DEF GoodRead
  <1>4. CASE ~UnderOwnLock(t, r.addr) /\ CommitValidated(t)
    <2>1. Timed(t) /\ CommitTime(t) = loc[t].ts /\ loc[t].i > Len(tx[t].r_set)
      BY <1>4 DEF CommitValidated, Validated, Timed, CommitTime
    <2>2. tx[t].irrevocable = 0
      BY <1>0, <2>1 DEF Stage, IrrStage
    <2>3. Logged(t, r)
      BY <1>0, <1>2, <1>4, <2>2 DEF Private, InSnapshot
    <2>4. PICK j \in 1 .. Len(tx[t].r_set) : tx[t].r_set[j].lock = LOCK_IDX(r.addr)
      BY <2>3 DEF Logged, HasRead
    <2>5. j < loc[t].i
      <3>1. loc[t].i \in Nat /\ Len(tx[t].r_set) \in Nat
        BY <1>0 DEF Locals, TxDesc
      <3> QED
        BY <2>1, <3>1
    <2>6. ValidFor(t, r)
      BY <1>0, <1>4, <2>1, <2>4, <2>5 DEF Private, Checked, Timed
    <2> QED
      BY <2>1, <2>6 DEF ValidFor, Timed
  <1>5. CASE ~UnderOwnLock(t, r.addr) /\ ~CommitValidated(t)
    <2>1. CommitClock(t)
      BY <1>5 DEF Publishes
    <2>2. pc[t] = "commit_clock" /\ CommitTime(t) - 1 = clock
      BY <1>0, <2>1 DEF CommitClock, CommitTime
    <2>3. NoValidation(t)
      BY <1>0, <1>1, <2>1 DEF CommitClock, StartValidate, Goto, TypeInv, TypeOK
    <2>4. CASE tx[t].irrevocable = 0
      <3>1. tx[t].start = clock
        BY <2>3, <2>4 DEF NoValidation
      <3>2. tx[t].end = clock
        BY <1>0, <1>2, <3>1 DEF Private, Bounds, TxDesc
      <3> QED
        BY <1>0, <1>2, <1>5, <2>2, <2>4, <3>2 DEF Private, InSnapshot
    <2>5. CASE tx[t].irrevocable # 0
      <3>1. tx[t].irrevocable = 3
        BY <1>0, <1>2, <2>2, <2>5 DEF Stage, IrrStage, Outside, Between, ValidatesFor
      <3>2. Frozen(t, r)
        BY <1>0, <1>2, <3>1 DEF Private, Stable, LateIrrevocable
      <3>3. Snapshot(r.addr, clock) = Latest(r.addr)
        BY <1>0, HistoryPast, LatestAt
      <3>4. Settled(r.addr, clock)
        BY <1>0, <1>5, <3>2 DEF Settled, Frozen, NoWriter, Writer, UnderOwnLock
      <3> QED
        BY <2>2, <3>2, <3>3, <3>4 DEF GoodRead, Frozen
    <2> QED
      BY <2>4, <2>5
  <1> QED
    BY <1>3, <1>4, <1>5

\* And so are the bytes that its entries have taken from memory.
LEMMA PublishBytes ==
  ASSUME MemInv, NEW t \in Tx, Publishes(t), NEW j \in 1 .. Len(tx[t].w_set)
  PROVE  BytesFrom(tx[t].w_set[j], CommitTime(t) - 1)
  <1> DEFINE e == tx[t].w_set[j]
  <1>0. LockInv /\ TypeInv /\ Entries(t)
    BY DEF MemInv, LockInv
  <1>1. e \in WEntry /\ e.addr \in Addr /\ LOCK_IDX(e.addr) \in Stripe /\ Unmasked(e)
    BY <1>0, EntryType, CommitTimeAbove DEF WEntry
  <1>2. LOCK_IDX(e.addr) \in Held(t)
    <2>1. Undropped(t) = 1
      BY <1>0, PublishesEffect DEF Undropped, Timed
    <2> QED
      BY <2>1 DEF Held
  <1>3. UnderOwnLock(t, e.addr)
    BY <1>0, <1>1, <1>2, HeldApart DEF UnderOwnLock
  <1> QED
    BY <1>1, <1>3, OwnStripeOlder DEF BytesFrom, Unmasked

\* Write-back leaves all this as it is.
LEMMA FinishesPrivate ==
  ASSUME SerialInv, MemInv', NEW t \in Tx, StepOf(t), Finishes(t)
  PROVE  Private(t)'
  <1>0. /\ MemInv /\ LockInv /\ TypeInv /\ Private(t)
        /\ \A r \in seen[t] : r \in SeenEntry
        /\ loc[t].ts - 1 \in Int
    BY DEF SerialInv, MemInv, LockInv, TypeInv, TypeOK, Locals
  <1>1. /\ seen'[t] = seen[t] /\ tx'[t].read_only = tx[t].read_only
        /\ tx'[t].w_set = tx[t].w_set
    BY DEF Finishes, SameReads
  <1>2. \A j \in 1 .. Len(tx[t].w_set) : tx[t].w_set[j] \in WEntry
    BY <1>0, EntryType
  <1>3. \A r \in SeenEntry : \A n \in Int : GoodRead(r, n) => GoodRead(r, n)'
    BY <1>0, GoodReadStep
  <1>4. \A e \in WEntry : \A n \in Int : BytesFrom(e, n) => BytesFrom(e, n)'
    BY <1>0, BytesFromStep
  <1>5. pc'[t] \in {"install", "drop"}
    BY DEF Finishes, Publishing
  <1>6. Serial(t)' /\ BytesKept(t)'
    <2>1. CASE Publishes(t)
      <3>1. loc'[t].ts = CommitTime(t) /\ CommitTime(t) - 1 \in Int
        BY <1>0, <2>1, PublishesEffect, CommitTimeAbove DEF MemInv
      <3>2. ~tx[t].read_only => \A r \in seen[t] : GoodRead(r, CommitTime(t) - 1)
        BY <2>1, PublishReads DEF Finishes
      <3>3. \A j \in 1 .. Len(tx[t].w_set) : BytesFrom(tx[t].w_set[j], CommitTime(t) - 1)
        BY <1>0, <2>1, PublishBytes
      <3> DEFINE n == CommitTime(t) - 1
      <3>4. ~tx[t].read_only => \A r \in seen[t] : GoodRead(r, n)
        BY <3>2
      <3>5. \A j \in 1 .. Len(tx[t].w_set) : BytesFrom(tx[t].w_set[j], n)
        BY <3>3
      <3>6. n = loc'[t].ts - 1 /\ n \in Int
        BY <3>1
      <3> HIDE DEF n
      <3> QED
        BY <1>0, <1>1, <1>2, <1>3, <1>4, <3>4, <3>5, <3>6 DEF Serial, BytesKept
    <2>2. CASE Install(t) \/ Drop(t)
      <3>1. loc'[t].ts = loc[t].ts /\ Publishing(t)
        BY <1>0, <2>2, InstallsKeep
      <3> QED
        BY <1>0, <1>1, <1>2, <1>3, <1>4, <3>1 DEF Private, Serial, BytesKept
    <2> QED
      BY <2>1, <2>2 DEF Finishes
  <1> QED
    BY <1>5, <1>6
    DEF Private, Unread, Bounds, InSnapshot, OwnLatest, Acquires, Stable, Checked, Loading,
        Loads, ValidatesFor, Timed, InAttempt, Outside, Between

-----------------------------------------------------------------------------
(* Own steps: loads *)

\* An own step that publishes nothing leaves what is frozen as it is.
LEMMA FrozenOwn ==
  ASSUME LockInv, TypeInv', NEW t \in Tx, StepOf(t), hist' = hist, NEW r \in SeenEntry,
         Frozen(t, r)
  PROVE  Frozen(t, r)'
  <1> DEFINE s == LOCK_IDX(r.addr)
  <1>1. s \in Stripe
    BY LockIdxType DEF SeenEntry
  <1>2. \A u \in Tx \ {t} : /\ lock'[s].owner = u <=> lock[s].owner = u
                            /\ Writer(u)' <=> Writer(u)
    BY <1>1, OwnerFrame DEF StepOf, Others, Writer, Timed, Publishing
  <1> QED
    BY <1>2 DEF Frozen, NoWriter, Matches, Latest

\* A free stripe is clean.
LEMMA FreeStripe ==
  ASSUME MemInv, NEW s \in Stripe, lock[s].owner = NoTx
  PROVE  /\ StripeVersion(s) = lock[s].version
         /\ Clean(s, lock[s].version)
         /\ lock[s].version <= clock
         /\ Quiet(s)
         /\ \A u \in Tx : lock[s].owner # u
  <1>1. NoTx \notin Tx
    BY StmAssumption
  <1> QED
    BY <1>1, LockVersionNow DEF StripeVersion, Quiet, MemInv, FreeClean

\* A load returns: the values so far and the new one are what the invariant says.
LEMMA ReturnPrivate ==
  ASSUME SerialInv, MemInv', NEW t \in Tx, StepOf(t), InAttempt(t),
         NEW a \in Addr, NEW v \in Word, NEW log \in Seq(REntry), ReturnLoad(t, a, v, {}, log),
         \A j \in 1 .. Len(log) : log[j].version <= tx[t].end,
         NEW r, r = [addr |-> a, value |-> v, own |-> {}],
         tx[t].irrevocable \in {0, 2} /\ ~UnderOwnLock(t, a) =>
             /\ GoodRead(r, tx[t].end)
             /\ HasRead(log, LOCK_IDX(a)) \/ tx[t].read_only,
         UnderOwnLock(t, a) => Matches(r, Latest(a)),
         tx[t].irrevocable = 3 => Frozen(t, r)
  PROVE  Private(t)'
  <1>0. /\ MemInv /\ LockInv /\ TypeInv /\ TypeInv' /\ Private(t) /\ tx[t] \in TxDesc
        /\ \A q \in seen[t] : q \in SeenEntry
        /\ tx[t].end \in Int
    <2>1. MemInv /\ LockInv /\ TypeInv /\ TypeInv' /\ Private(t)
      BY DEF SerialInv, MemInv, LockInv
    <2>2. tx[t] \in TxDesc /\ \A q \in seen[t] : q \in SeenEntry
      BY <2>1 DEF TypeInv, TypeOK
    <2> QED
      BY <2>1, <2>2 DEF TxDesc
  <1>1. /\ seen'[t] = seen[t] \cup {r} /\ pc'[t] = "active"
        /\ lock' = lock /\ hist' = hist /\ clock' = clock
        /\ tx'[t].r_set = tx[t].r_set \o log
        /\ tx'[t].read_only = tx[t].read_only /\ tx'[t].irrevocable = tx[t].irrevocable
        /\ tx'[t].start = tx[t].start /\ tx'[t].end = tx[t].end
    BY <1>0 DEF ReturnLoad, Goto, shared, TypeInv, TypeOK, TxDesc
  <1>2. r \in SeenEntry /\ r.addr = a
    BY DEF SeenEntry
  <1>3. \A q \in SeenEntry : \A n \in Int : GoodRead(q, n) => GoodRead(q, n)'
    BY <1>0, GoodReadStep
  <1>4. \A q \in SeenEntry : Frozen(t, q) => Frozen(t, q)'
    BY <1>0, <1>1, FrozenOwn
  <1>5. \A q \in SeenEntry : Matches(q, Latest(q.addr)) => Matches(q, Latest(q.addr))'
    BY <1>1 DEF Matches, Latest
  <1>6. \A q \in SeenEntry : UnderOwnLock(t, q.addr)' <=> UnderOwnLock(t, q.addr)
    BY <1>1 DEF UnderOwnLock
  <1>7. /\ Len(tx'[t].r_set) = Len(tx[t].r_set) + Len(log)
        /\ \A j \in 1 .. Len(tx[t].r_set) : tx'[t].r_set[j] = tx[t].r_set[j]
        /\ \A j \in 1 .. Len(log) : tx'[t].r_set[Len(tx[t].r_set) + j] = log[j]
        /\ \A j \in 1 .. Len(tx'[t].r_set) :
              \/ j \in 1 .. Len(tx[t].r_set)
              \/ j - Len(tx[t].r_set) \in 1 .. Len(log) /\ tx'[t].r_set[j] = log[j - Len(tx[t].r_set)]
        /\ Len(tx[t].r_set) \in Nat /\ Len(log) \in Nat
    <2>1. tx[t].r_set \in Seq(REntry)
      BY <1>0 DEF TxDesc
    <2> QED
      BY <1>1, <2>1
  <1>8. \A s : HasRead(tx[t].r_set, s) \/ HasRead(log, s) => HasRead(tx'[t].r_set, s)
    <2>1. SUFFICES ASSUME NEW s, HasRead(tx[t].r_set, s) \/ HasRead(log, s)
                   PROVE  HasRead(tx'[t].r_set, s)
      OBVIOUS
    <2>2. CASE HasRead(tx[t].r_set, s)
      <3>1. PICK j \in 1 .. Len(tx[t].r_set) : tx[t].r_set[j].lock = s
        BY <2>2 DEF HasRead
      <3>2. j \in 1 .. Len(tx'[t].r_set) /\ tx'[t].r_set[j].lock = s
        BY <1>7, <3>1, SMTT(40)
      <3> QED
        BY <3>2 DEF HasRead
    <2>3. CASE HasRead(log, s)
      <3>1. PICK j \in 1 .. Len(log) : log[j].lock = s
        BY <2>3 DEF HasRead
      <3>2. /\ Len(tx[t].r_set) + j \in 1 .. Len(tx'[t].r_set)
            /\ tx'[t].r_set[Len(tx[t].r_set) + j].lock = s
        <4>1. tx'[t].r_set[Len(tx[t].r_set) + j] = log[j]
          BY <1>7, <3>1
        <4>2. Len(tx[t].r_set) + j \in 1 .. Len(tx'[t].r_set)
          BY <1>7, <3>1
        <4> QED
          BY <3>1, <4>1, <4>2
      <3> QED
        BY <3>2 DEF HasRead
    <2> QED
      BY <2>1, <2>2, <2>3
  <1>9. /\ ~Publishing(t)' /\ InAttempt(t)' /\ ~Loads(t)' /\ ~Timed(t)'
        /\ \A f : ~ValidatesFor(t, f)'
        /\ pc'[t] \notin Outside \cup {"store_cas", "validate"}
    BY <1>1 DEF Outside, Between, Publishing, InAttempt, Loads, Timed, ValidatesFor
  <1>10. Bounds(t)'
    BY <1>0, <1>1, <1>7, <1>9 DEF Private, Bounds
  <1>11. InSnapshot(t)'
    <2>1. SUFFICES ASSUME tx[t].irrevocable \in {0, 2}, NEW q \in seen'[t],
                          ~UnderOwnLock(t, q.addr)
                   PROVE  /\ q \in SeenEntry
                          /\ GoodRead(q, tx[t].end)
                          /\ HasRead(tx'[t].r_set, LOCK_IDX(q.addr)) \/ tx[t].read_only
      <3>1. \A q \in seen'[t] : q \in SeenEntry
        BY <1>0, <1>1, <1>2
      <3> QED
        BY <1>0, <1>1, <1>3, <1>6, <3>1 DEF InSnapshot, Logged
    <2>2. CASE q \in seen[t]
      BY <1>0, <1>8, <2>1, <2>2 DEF Private, InSnapshot, Logged
    <2>3. CASE q = r
      BY <1>2, <1>8, <2>1, <2>3
    <2> QED
      BY <1>1, <2>1, <2>2, <2>3
  <1>12. OwnLatest(t)'
    <2>1. ASSUME ~tx[t].read_only, NEW q \in seen'[t], UnderOwnLock(t, q.addr)
          PROVE  q \in SeenEntry /\ Matches(q, Latest(q.addr))
      BY <1>0, <1>1, <1>2, <2>1 DEF Private, OwnLatest
    <2>2. \A q \in seen'[t] : q \in SeenEntry
      BY <1>0, <1>1, <1>2
    <2> QED
      BY <1>1, <1>5, <1>6, <2>1, <2>2 DEF OwnLatest
  <1>13. Stable(t)'
    <2>1. ASSUME tx[t].irrevocable = 3, ~LateIrrevocable(t), NEW q \in seen'[t]
          PROVE  q \in SeenEntry /\ Frozen(t, q)
      BY <1>0, <1>1, <1>2, <2>1 DEF Private, Stable
    <2>2. LateIrrevocable(t)' <=> LateIrrevocable(t)
      BY <1>1 DEF LateIrrevocable
    <2> QED
      BY <1>1, <1>4, <2>1, <2>2 DEF Stable
  <1> QED
    BY <1>9, <1>10, <1>11, <1>12, <1>13
    DEF Private, Unread, Acquires, Checked, Loading, Serial, BytesKept

\* Memory under an own lock is the committed state.
LEMMA OwnLoadPrivate ==
  ASSUME SerialInv, MemInv', NEW t \in Tx, StepOf(t), OwnLoad(t)
  PROVE  Private(t)'
  <1>1. PICK a \in Addr : UnderOwnLock(t, a) /\ ReturnLoad(t, a, mem[a], {}, <<>>)
    BY DEF OwnLoad
  <1> DEFINE s == LOCK_IDX(a)
             r == [addr |-> a, value |-> mem[a], own |-> {}]
  <1>2. /\ InAttempt(t) /\ MemInv /\ s \in Stripe /\ lock[s].owner = t /\ mem[a] \in Word
        /\ <<>> \in Seq(REntry)
    BY <1>1, LockIdxType
    DEF OwnLoad, SerialInv, MemInv, LockInv, TypeInv, TypeOK, UnderOwnLock
  <1>3. Quiet(s)
    BY <1>2 DEF Quiet, InAttempt, Publishing
  <1>4. mem[a] = Latest(a)
    BY <1>2, <1>3, QuietClean DEF Clean
  <1>5. Frozen(t, r)
    BY <1>2, <1>4 DEF Frozen, Matches, NoWriter
  <1>6. Matches(r, Latest(a))
    BY <1>4 DEF Matches
  <1>7. \A j \in 1 .. Len(<<>>) : FALSE
    OBVIOUS
  <1> HIDE DEF r
  <1>8. \A q : q = r => r = [addr |-> a, value |-> mem[a], own |-> {}]
    BY DEF r
  <1> QED
    BY <1>1, <1>2, <1>5, <1>6, <1>7, <1>8, ReturnPrivate

\* The lock word is the one that was read before the value: the value is committed.
LEMMA LoadedValue ==
  ASSUME SerialInv, NEW t \in Tx, Loads(t), pc[t] # "load_value", LockUnchanged(t)
  PROVE  LET a == loc[t].addr  v == loc[t].l.version IN
         /\ a \in Addr /\ LOCK_IDX(a) \in Stripe /\ v \in Nat
         /\ lock[LOCK_IDX(a)].owner = NoTx
         /\ loc[t].value = Latest(a) /\ loc[t].value \in Word
         /\ v <= clock
         /\ \A n \in Int : v <= n => Snapshot(a, n) = Latest(a)
         /\ \A u \in Tx : ~UnderOwnLock(u, a)
  <1> DEFINE a == loc[t].addr  s == LOCK_IDX(a)  v == loc[t].l.version
  <1>1. /\ MemInv /\ LockInv /\ loc[t] \in Locals /\ a \in Addr /\ s \in Stripe /\ v \in Nat
        /\ loc[t].value \in Word
        /\ \A h \in hist[a] : h.version \in Nat
    BY LockIdxType DEF SerialInv, MemInv, LockInv, TypeInv, TypeOK, Locals, LockWord
  <1>2. Loading(t)
    BY DEF SerialInv, Private
  <1>3. lock[s].owner = NoTx /\ lock[s].version = v
    BY <1>2 DEF Loading, LockUnchanged
  <1>4. /\ StripeVersion(s) = v /\ Clean(s, v) /\ v <= clock
        /\ \A u \in Tx : lock[s].owner # u
    BY <1>1, <1>3, FreeStripe
  <1>5. loc[t].value = Latest(a)
    BY <1>2, <1>4 DEF Loading
  <1>6. ASSUME NEW n \in Int, v <= n
        PROVE  Snapshot(a, n) = Latest(a)
    <2>1. \A h \in hist[a] : h.version <= n
      BY <1>1, <1>4, <1>6 DEF Clean
    <2> QED
      BY <1>1, <2>1, LatestAt
  <1> QED
    BY <1>1, <1>3, <1>4, <1>5, <1>6 DEF UnderOwnLock

\* A load that finds its lock unchanged returns a value of the snapshot.
LEMMA LoadReturnPrivate ==
  ASSUME SerialInv, MemInv', NEW t \in Tx, StepOf(t), LoadReturn(t) \/ LoadRecheck(t)
  PROVE  Private(t)'
  <1> DEFINE a == loc[t].addr  s == LOCK_IDX(a)  v == loc[t].l.version
             r == [addr |-> a, value |-> loc[t].value, own |-> {}]
             log == LogEntry(t)
  <1>0. /\ MemInv /\ LockInv /\ TypeInv /\ Private(t) /\ Stage(t) /\ tx[t] \in TxDesc
        /\ clock \in Nat /\ tx[t].end \in Nat /\ tx[t].irrevocable \in 0 .. 3
    BY DEF SerialInv, MemInv, StageInv, LockInv, TypeInv, TypeOK, TxDesc
  <1>1. /\ LockUnchanged(t) /\ ReturnLoad(t, a, loc[t].value, {}, log)
        /\ Loads(t) /\ pc[t] # "load_value" /\ InAttempt(t)
        /\ pc[t] \in {"load_relock", "load_recheck"}
    BY DEF LoadReturn, LoadRecheck, Loads, InAttempt, Outside, Between
  <1>2. /\ a \in Addr /\ s \in Stripe /\ v \in Nat
        /\ lock[s].owner = NoTx
        /\ loc[t].value = Latest(a) /\ loc[t].value \in Word
        /\ \A n \in Int : v <= n => Snapshot(a, n) = Latest(a)
        /\ \A u \in Tx : ~UnderOwnLock(u, a)
    BY <1>1, LoadedValue
  <1>3. tx[t].irrevocable \in {0, 3}
    BY <1>0, <1>1 DEF Stage, IrrStage, Outside, Between, ValidatesFor
  <1>4. tx[t].irrevocable = 0 => v <= tx[t].end
    <2>1. CASE LoadReturn(t)
      BY <2>1 DEF LoadReturn
    <2>2. CASE LoadRecheck(t)
      BY <1>0, <2>2 DEF LoadRecheck, Private, Loading, Loads
    <2> QED
      BY <2>1, <2>2
  <1>5. tx[t].end <= clock
    BY <1>0, <1>1 DEF Private, Bounds
  <1>6. r.addr = a /\ r.value = Latest(a) /\ r.own = {}
    BY <1>2
  <1> HIDE DEF r
  <1>7. Frozen(t, r)
    BY <1>2, <1>6 DEF Frozen, Matches, NoWriter, UnderOwnLock
  <1>8. tx[t].irrevocable = 0 => GoodRead(r, tx[t].end)
    BY <1>0, <1>2, <1>4, <1>5, <1>6 DEF GoodRead, Matches, Settled, UnderOwnLock
  <1>9. log \in Seq(REntry)
    BY <1>0, LogEntryType
  <1>10. /\ \A j \in 1 .. Len(log) : log[j].version <= tx[t].end
         /\ tx[t].irrevocable = 0 => HasRead(log, s) \/ tx[t].read_only
    <2>1. CASE tx[t].irrevocable # 0 \/ tx[t].read_only
      <3>1. log = <<>>
        BY <2>1 DEF LogEntry
      <3> QED
        BY <2>1, <3>1
    <2>2. CASE ~(tx[t].irrevocable # 0 \/ tx[t].read_only)
      <3>1. log = <<[lock |-> s, version |-> v]>>
        BY <2>2 DEF LogEntry
      <3>2. Len(log) = 1 /\ log[1].version = v /\ log[1].lock = s
        BY <3>1
      <3> QED
        BY <1>4, <2>2, <3>2 DEF HasRead
    <2> QED
      BY <2>1, <2>2
  <1>11. r = [addr |-> a, value |-> loc[t].value, own |-> {}]
    BY DEF r
  <1> HIDE DEF log, s, v
  <1> QED
    BY <1>1, <1>2, <1>3, <1>7, <1>8, <1>9, <1>10, <1>11, ReturnPrivate DEF s

-----------------------------------------------------------------------------
(* Own steps: within an attempt *)

\* The lock word with version v is not newer than the stripe, and if it is the same,
\* nobody is writing the stripe back.
FreshLock(s, v) ==
    /\ v <= StripeVersion(s)
    /\ StripeVersion(s) = v => Quiet(s)
\* Then w is the committed value.
FreshValue(a, v, w) ==
    StripeVersion(LOCK_IDX(a)) = v => w = Latest(a)

\* Fresh lock words stay so.
LEMMA FreshStep ==
  ASSUME MemInv, MemInv', NEW t \in Tx, StepOf(t), NEW a \in Addr, NEW v \in Nat,
         FreshLock(LOCK_IDX(a), v)
  PROVE  /\ FreshLock(LOCK_IDX(a), v)'
         /\ \A w : FreshValue(a, v, w) => FreshValue(a, v, w)'
  <1> DEFINE s == LOCK_IDX(a)
  <1>1. s \in Stripe
    BY LockIdxType
  <1>2. /\ StripeVersion(s) \in Nat /\ StripeVersion(s)' \in Nat
        /\ StripeVersion(s)' >= StripeVersion(s)
        /\ StripeVersion(s)' = StripeVersion(s) /\ Quiet(s) => Quiet(s)' /\ hist'[a] = hist[a]
    BY <1>1, StripeStep
  <1> HIDE DEF s
  <1>3. FreshLock(s, v)'
    BY <1>2 DEF FreshLock, s
  <1>4. ASSUME NEW w, FreshValue(a, v, w), StripeVersion(s)' = v
        PROVE  w = Latest(a)'
    <2>1. StripeVersion(s)' = StripeVersion(s) /\ Quiet(s)
      BY <1>2, <1>4 DEF FreshLock, s
    <2>2. hist'[a] = hist[a]
      BY <1>2, <2>1
    <2> QED
      BY <1>4, <2>1, <2>2 DEF FreshValue, Latest, s
  <1> QED
    BY <1>3, <1>4 DEF FreshValue, s

\* A load goes on with the same lock word and value.
LEMMA LoadingKeeps ==
  ASSUME SerialInv, MemInv', NEW t \in Tx, StepOf(t), Loads(t), pc[t] # "load_value",
         loc'[t].addr = loc[t].addr, loc'[t].l = loc[t].l, loc'[t].value = loc[t].value,
         pc'[t] = "validate" => loc[t].l.version <= loc'[t].now,
         pc'[t] = "load_recheck" => loc[t].l.version <= tx'[t].end
  PROVE  Loading(t)'
  <1> DEFINE b == loc[t].addr  v == loc[t].l.version  x == loc[t].value
  <1>1. /\ MemInv /\ LockInv /\ TypeInv /\ Loading(t) /\ b \in Addr /\ v \in Nat
    BY DEF SerialInv, Private, MemInv, LockInv, TypeInv, TypeOK, Locals, LockWord
  <1>2. loc[t].l.owner = NoTx /\ v <= clock /\ FreshLock(LOCK_IDX(b), v) /\ FreshValue(b, v, x)
    BY <1>1 DEF Loading, FreshLock, FreshValue
  <1>3. clock' >= clock /\ clock \in Nat /\ clock' \in Nat
    BY <1>1, ClockForward
  <1>4. ASSUME NEW a \in Addr, NEW n \in Nat, NEW w, a = b, n = v, w = x
        PROVE  /\ FreshLock(LOCK_IDX(a), n)'
               /\ FreshValue(a, n, w)'
    BY <1>1, <1>2, <1>4, FreshStep
  <1>5. FreshLock(LOCK_IDX(loc[t].addr), loc[t].l.version)'
        /\ FreshValue(loc[t].addr, loc[t].l.version, loc[t].value)'
    BY <1>1, <1>4
  <1> QED
    BY <1>1, <1>2, <1>3, <1>5 DEF Loading, FreshLock, FreshValue

\* A load begins with a free lock.
LEMMA LoadingBegins ==
  ASSUME SerialInv, MemInv', NEW t \in Tx, StepOf(t), Locates(t)
  PROVE  Loading(t)'
  <1>1. PICK a \in Addr : LoadFree(t, a, lock[LOCK_IDX(a)])
    BY DEF Locates
  <1> DEFINE s == LOCK_IDX(a)  v == lock[s].version
  <1>2. /\ MemInv /\ LockInv /\ TypeInv /\ s \in Stripe /\ v \in Nat
    BY LockIdxType DEF SerialInv, MemInv, LockInv, TypeInv, TypeOK, LockWord
  <1>3. /\ lock[s].owner = NoTx /\ pc'[t] = "load_value"
        /\ loc'[t].addr = a /\ loc'[t].l = lock[s]
    BY <1>1, <1>2 DEF LoadFree, Goto, TypeInv, TypeOK, NoLoc
  <1>4. v <= clock /\ FreshLock(s, v)
    BY <1>2, <1>3, FreeStripe DEF FreshLock, Quiet
  <1>5. ASSUME NEW n \in Nat, n = v
        PROVE  FreshLock(LOCK_IDX(a), n)'
    BY <1>2, <1>4, <1>5, FreshStep
  <1>6. FreshLock(LOCK_IDX(loc[t].addr), loc[t].l.version)'
    BY <1>2, <1>3, <1>5
  <1>7. clock' >= clock /\ clock \in Nat /\ clock' \in Nat
    BY <1>2, ClockForward
  <1> QED
    BY <1>2, <1>3, <1>4, <1>6, <1>7 DEF Loading, FreshLock

\* The value is read: it is the committed one if the stripe is still the same.
LEMMA LoadingReads ==
  ASSUME SerialInv, MemInv', NEW t \in Tx, StepOf(t), LoadValue(t)
  PROVE  Loading(t)'
  <1> DEFINE b == loc[t].addr  v == loc[t].l.version  x == mem[b]
  <1>1. /\ MemInv /\ LockInv /\ TypeInv /\ Loading(t) /\ b \in Addr /\ v \in Nat
        /\ LOCK_IDX(b) \in Stripe
    BY LockIdxType DEF SerialInv, Private, MemInv, LockInv, TypeInv, TypeOK, Locals, LockWord
  <1>2. /\ pc[t] = "load_value" /\ pc'[t] = "load_relock"
        /\ loc'[t].addr = b /\ loc'[t].l = loc[t].l /\ loc'[t].value = x
    BY <1>1 DEF LoadValue, Goto, TypeInv, TypeOK, Locals
  <1>3. loc[t].l.owner = NoTx /\ v <= clock /\ FreshLock(LOCK_IDX(b), v)
    BY <1>1, <1>2 DEF Loading, Loads, FreshLock
  <1>4. FreshValue(b, v, x)
    BY <1>1, <1>3, QuietClean DEF FreshLock, FreshValue, Clean
  <1>5. clock' >= clock /\ clock \in Nat /\ clock' \in Nat
    BY <1>1, ClockForward
  <1>6. ASSUME NEW a \in Addr, NEW n \in Nat, NEW w, a = b, n = v, w = x
        PROVE  /\ FreshLock(LOCK_IDX(a), n)'
               /\ FreshValue(a, n, w)'
    BY <1>1, <1>3, <1>4, <1>6, FreshStep
  <1>7. FreshLock(LOCK_IDX(loc[t].addr), loc[t].l.version)'
        /\ FreshValue(loc[t].addr, loc[t].l.version, loc[t].value)'
    BY <1>1, <1>2, <1>6
  <1> QED
    BY <1>1, <1>2, <1>3, <1>5, <1>7 DEF Loading, FreshLock, FreshValue

\* Where such a step can lead.
LEMMA StaysTo ==
  ASSUME TypeInv, NEW t \in Tx, Inner(t) \/ Arrives(t)
  PROVE  /\ pc'[t] = "store_cas" => Arrives(t)
         /\ Loads(t)' => \/ Locates(t) \/ LoadValue(t) \/ Extend(t)
                         \/ LoadTooNew(t) /\ pc'[t] = "extend"
                         \/ ValidateEntry(t) /\ ValidatesFor(t, "extend")
         /\ pc'[t] = "validate" =>
               \/ ValidateEntry(t)
               \/ /\ loc'[t].i = 1
                  /\ loc'[t].for = "extend" => Extend(t)
                  /\ loc'[t].for = "commit" => loc'[t].ts = clock + 1
  <1> USE DEF shared, aux
  <1>0. loc[t] \in Locals
    BY DEF TypeInv, TypeOK
  <1>1. CASE Arrives(t)
    BY <1>1 DEF Arrives, Loads, ValidatesFor
  <1>2. CASE Locates(t)
    BY <1>2 DEF Locates, LoadFree, Goto, TypeInv, TypeOK
  <1>3. CASE LoadValue(t) \/ (LoadTooNew(t) /\ pc'[t] = "extend")
    <2>1. pc'[t] \in {"load_relock", "extend"}
      BY <1>3 DEF LoadValue, Goto, TypeInv, TypeOK
    <2> QED
      BY <1>3, <2>1
  <1>4. CASE Extend(t)
    BY <1>0, <1>4 DEF Extend, StartValidate, Goto, TypeInv, TypeOK, Locals
  <1>5. CASE ValidateEntry(t)
    <2>1. pc'[t] = "validate" /\ pc[t] = "validate" /\ loc'[t].for = loc[t].for
      BY <1>0, <1>5 DEF ValidateEntry, TypeInv, TypeOK, Locals
    <2> QED
      BY <1>5, <2>1 DEF Loads, ValidatesFor
  <1>6. CASE SetIrrevocable(t)
    <2>1. pc'[t] = "validate" /\ loc'[t].i = 1 /\ loc'[t].for = "irrevocable"
      BY <1>0, <1>6 DEF SetIrrevocable, StartValidate, Goto, TypeInv, TypeOK, Locals
    <2> QED
      BY <2>1 DEF Loads, ValidatesFor
  <1>7. CASE IrrevocableValidated(t)
    <2>1. pc'[t] = "active"
      BY <1>7 DEF IrrevocableValidated, Validated, Goto, TypeInv, TypeOK
    <2> QED
      BY <2>1 DEF Loads, ValidatesFor
  <1>8. CASE CommitClock(t) /\ pc'[t] = "validate"
    <2>1. StartValidate(t, "commit", 0, clock + 1)
      BY <1>8 DEF CommitClock, StartInstall, Goto, TypeInv, TypeOK
    <2>2. loc'[t].i = 1 /\ loc'[t].for = "commit" /\ loc'[t].ts = clock + 1
      BY <1>0, <2>1 DEF StartValidate, TypeInv, TypeOK, Locals
    <2> QED
      BY <1>8, <2>2 DEF Loads, ValidatesFor
  <1> QED
    BY <1>1, <1>2, <1>3, <1>4, <1>5, <1>6, <1>7, <1>8 DEF Inner

\* Loads in progress go on.
LEMMA StaysLoading ==
  ASSUME SerialInv, MemInv', NEW t \in Tx, StepOf(t), Inner(t) \/ Arrives(t)
  PROVE  Loading(t)'
  <1> USE DEF shared, aux
  <1>0. /\ TypeInv /\ loc[t] \in Locals /\ clock \in Nat /\ Loading(t)
    BY DEF SerialInv, MemInv, LockInv, TypeInv, TypeOK, Private
  <1>1. CASE ~Loads(t)'
    BY <1>1 DEF Loading
  <1>2. CASE Locates(t)
    BY <1>2, LoadingBegins
  <1>3. CASE LoadValue(t)
    BY <1>3, LoadingReads
  <1>4. CASE LoadTooNew(t) /\ pc'[t] = "extend"
    <2>1. pc[t] = "load_relock" /\ loc' = loc
      BY <1>0, <1>4 DEF LoadTooNew, Rollback, RollbackAs, Goto, TypeInv, TypeOK
    <2> QED
      BY <1>4, <2>1, LoadingKeeps DEF Loads
  <1>5. CASE Extend(t)
    <2>1. /\ pc[t] = "extend" /\ pc'[t] = "validate" /\ loc'[t].now = clock
          /\ loc'[t].addr = loc[t].addr /\ loc'[t].l = loc[t].l /\ loc'[t].value = loc[t].value
      BY <1>0, <1>5 DEF Extend, StartValidate, Goto, TypeInv, TypeOK, Locals
    <2>2. loc[t].l.version <= clock
      BY <1>0, <2>1 DEF Loading, Loads
    <2> QED
      BY <2>1, <2>2, LoadingKeeps DEF Loads
  <1>6. CASE ValidateEntry(t) /\ ValidatesFor(t, "extend")
    <2>1. /\ pc[t] = "validate" /\ pc'[t] = "validate" /\ loc'[t].now = loc[t].now
          /\ loc'[t].addr = loc[t].addr /\ loc'[t].l = loc[t].l /\ loc'[t].value = loc[t].value
      BY <1>0, <1>6 DEF ValidateEntry, TypeInv, TypeOK, Locals
    <2>2. loc[t].l.version <= loc[t].now
      BY <1>0, <1>6, <2>1 DEF Loading, Loads
    <2> QED
      BY <1>6, <2>1, <2>2, LoadingKeeps DEF Loads
  <1> QED
    BY <1>0, <1>1, <1>2, <1>3, <1>4, <1>5, <1>6, StaysTo

\* Within an attempt, nothing is published, and locks are only acquired.
LEMMA OwnStep ==
  ASSUME LockInv, NEW t \in Tx, StepOf(t), InAttempt(t), InAttempt(t)'
  PROVE  hist' = hist /\ (lock' = lock \/ StoreAcquire(t))
  <1>0. TypeInv
    BY DEF LockInv
  <1>1. hist' = hist
    BY HistoryStep DEF InAttempt
  <1>2. ~Forgets(t) /\ ~RollbackDrop(t) /\ ~Install(t) /\ ~Drop(t)
    <2>1. ~Forgets(t)
      BY DEF Forgets, InAttempt, Outside, Between
    <2>2. ~RollbackDrop(t)
      BY DEF RollbackDrop, InAttempt, Outside, Between
    <2>3. ~Install(t) /\ ~Drop(t)
      BY DEF Install, Drop, InAttempt
    <2> QED
      BY <2>1, <2>2, <2>3
  <1>3. CASE Keeps(t) \/ Edits(t)
    BY <1>1, <1>3 DEF Keeps, Edits, SameData
  <1>4. CASE Publishes(t)
    BY <1>0, <1>1, <1>4, PublishesEffect
  <1> QED
    BY <1>1, <1>2, <1>3, <1>4 DEF StepOf, Kinds

\* The lock that a compare-and-swap takes is free, and has the version that was read.
LEMMA AcquiredLatest ==
  ASSUME SerialInv, NEW t \in Tx, StoreAcquire(t), ~tx[t].read_only, NEW r \in seen[t],
         LOCK_IDX(r.addr) = LOCK_IDX(loc[t].addr)
  PROVE  Matches(r, Latest(r.addr))
  <1> DEFINE s == LOCK_IDX(r.addr)  v == loc[t].l.version
  <1>0. /\ MemInv /\ LockInv /\ TypeInv /\ Private(t) /\ Stage(t) /\ ThreadInv(t)
        /\ r.addr \in Addr /\ s \in Stripe /\ tx[t] \in TxDesc /\ v \in Nat
        /\ \A h \in hist[r.addr] : h.version \in Nat
    <2>1. MemInv /\ LockInv /\ TypeInv /\ Private(t) /\ Stage(t) /\ ThreadInv(t)
      BY DEF SerialInv, MemInv, StageInv, LockInv
    <2>2. r \in SeenEntry /\ tx[t] \in TxDesc /\ loc[t] \in Locals
      BY <2>1 DEF TypeInv, TypeOK
    <2>3. r.addr \in Addr /\ v \in Nat
      BY <2>2 DEF SeenEntry, Locals, LockWord
    <2> QED
      BY <2>1, <2>2, <2>3, LockIdxType DEF TypeInv, TypeOK
  <1>1. pc[t] = "store_cas" /\ lock[s] = loc[t].l /\ InAttempt(t)
    BY DEF StoreAcquire, LockUnchanged, InAttempt, Outside, Between
  <1>2. lock[s].owner = NoTx /\ lock[s].version = v
    BY <1>0, <1>1 DEF ThreadInv
  <1>3. Clean(s, v) /\ ~UnderOwnLock(t, r.addr)
    BY <1>0, <1>2, FreeStripe DEF UnderOwnLock
  <1>4. tx[t].irrevocable \in {0, 3}
    BY <1>0, <1>1 DEF Stage, IrrStage, TxDesc, Outside, Between, ValidatesFor
  <1>5. CASE tx[t].irrevocable = 0
    <2>1. GoodRead(r, tx[t].end) /\ Logged(t, r)
      BY <1>0, <1>1, <1>3, <1>5 DEF Private, InSnapshot
    <2>2. v <= tx[t].end
      BY <1>0, <1>1, <1>5, <2>1 DEF Private, Acquires, Logged
    <2>3. tx[t].end \in Nat
      BY <1>0 DEF TxDesc
    <2>4. \A h \in hist[r.addr] : h.version <= tx[t].end
      BY <1>0, <1>3, <2>2, <2>3 DEF Clean
    <2>5. Snapshot(r.addr, tx[t].end) = Latest(r.addr)
      BY <1>0, <2>4, LatestAt
    <2> QED
      BY <2>1, <2>5 DEF GoodRead
  <1>6. CASE tx[t].irrevocable = 3
    BY <1>0, <1>1, <1>6 DEF Private, Stable, LateIrrevocable, Frozen
  <1> QED
    BY <1>4, <1>5, <1>6

\* A validation that is over has passed the entry of everything that is in its snapshot.
LEMMA ValidatedReads ==
  ASSUME SerialInv, NEW t \in Tx, NEW f, Validated(t, f), NEW r \in seen[t],
         ~UnderOwnLock(t, r.addr), ~tx[t].read_only
  PROVE  ValidFor(t, r)
  <1>0. Private(t) /\ Stage(t) /\ loc[t].i \in Nat /\ Len(tx[t].r_set) \in Nat
        /\ tx[t].irrevocable \in 0 .. 3
    <2>1. Private(t) /\ Stage(t)
      BY DEF SerialInv, StageInv
    <2>2. loc[t] \in Locals /\ tx[t] \in TxDesc
      BY DEF SerialInv, MemInv, LockInv, TypeInv, TypeOK
    <2> QED
      BY <2>1, <2>2 DEF Locals, TxDesc
  <1>1. pc[t] = "validate" /\ loc[t].i > Len(tx[t].r_set) /\ InAttempt(t)
    BY DEF Validated, InAttempt, Outside, Between
  <1>2. tx[t].irrevocable \in {0, 2}
    BY <1>0, <1>1 DEF Stage, IrrStage, Outside, Between, ValidatesFor, Timed
  <1>3. Logged(t, r)
    BY <1>0, <1>1, <1>2 DEF Private, InSnapshot
  <1>4. PICK j \in 1 .. Len(tx[t].r_set) : tx[t].r_set[j].lock = LOCK_IDX(r.addr)
    BY <1>3 DEF Logged, HasRead
  <1>5. j < loc[t].i
    BY <1>0, <1>1
  <1> QED
    BY <1>0, <1>1, <1>4, <1>5 DEF Private, Checked

\* What a transaction has loaded when it becomes irrevocable is committed, and nobody
\* else is about to change it.
LEMMA ValidatedFrozen ==
  ASSUME SerialInv, NEW t \in Tx, IrrevocableValidated(t), ~LateIrrevocable(t), NEW r \in seen[t]
  PROVE  Frozen(t, r)
  <1>0. /\ Private(t) /\ Stage(t) /\ ValidatesFor(t, "irrevocable") /\ InAttempt(t)
        /\ Validated(t, "irrevocable")
    BY DEF SerialInv, StageInv, IrrevocableValidated, Validated, ValidatesFor, InAttempt,
           Outside, Between
  <1>1. ~tx[t].read_only
    BY <1>0 DEF Stage, IrrStage, LateIrrevocable
  <1>2. CASE UnderOwnLock(t, r.addr)
    BY <1>0, <1>1, <1>2 DEF Private, OwnLatest, UnderOwnLock, Frozen, NoWriter
  <1>3. CASE ~UnderOwnLock(t, r.addr)
    BY <1>0, <1>1, <1>3, ValidatedReads DEF ValidFor, ValidatesFor
  <1> QED
    BY <1>2, <1>3

\* The entry that validation passes is good for the values loaded there.
LEMMA EntryChecked ==
  ASSUME SerialInv, NEW t \in Tx, ValidateEntry(t), NEW r \in seen[t],
         tx[t].r_set[loc[t].i].lock = LOCK_IDX(r.addr), ~UnderOwnLock(t, r.addr)
  PROVE  ValidFor(t, r)
  <1> DEFINE s == LOCK_IDX(r.addr)  v == tx[t].r_set[loc[t].i].version
  <1>0. /\ MemInv /\ LockInv /\ TypeInv /\ Private(t) /\ Stage(t) /\ Entries(t)
        /\ tx[t] \in TxDesc /\ loc[t] \in Locals /\ clock \in Nat
        /\ r.addr \in Addr /\ s \in Stripe
        /\ \A h \in hist[r.addr] : h.version \in Nat
    <2>1. MemInv /\ LockInv /\ TypeInv /\ Private(t) /\ Stage(t) /\ Entries(t)
      BY DEF SerialInv, MemInv, StageInv, LockInv
    <2>2. r \in SeenEntry /\ tx[t] \in TxDesc /\ loc[t] \in Locals /\ clock \in Nat
      BY <2>1 DEF TypeInv, TypeOK
    <2>3. r.addr \in Addr
      BY <2>2 DEF SeenEntry
    <2> QED
      BY <2>1, <2>2, <2>3, LockIdxType DEF TypeInv, TypeOK
  <1>1. /\ pc[t] = "validate" /\ InAttempt(t)
        /\ loc[t].i \in 1 .. Len(tx[t].r_set)
        /\ lock[s] = Timestamp(v)
    <2>1. /\ pc[t] = "validate" /\ loc[t].i <= Len(tx[t].r_set)
          /\ EntryValid(t, tx[t].r_set[loc[t].i])
      BY DEF ValidateEntry
    <2>2. loc[t].i \in Nat \ {0} /\ Len(tx[t].r_set) \in Nat
      BY <1>0 DEF TxDesc, Locals
    <2> QED
      BY <2>1, <2>2 DEF EntryValid, UnderOwnLock, InAttempt, Outside, Between
  <1>2. /\ lock[s].owner = NoTx /\ v \in Nat /\ v <= tx[t].end /\ tx[t].end \in Nat
    <2>1. tx[t].r_set \in Seq(REntry) /\ tx[t].end \in Nat
      BY <1>0 DEF TxDesc
    <2>2. tx[t].r_set[loc[t].i] \in REntry
      BY <1>1, <2>1
    <2>3. v \in Nat
      BY <2>2 DEF REntry
    <2> QED
      BY <1>0, <1>1, <2>1, <2>3 DEF Private, Bounds, Timestamp
  <1>3. Clean(s, v) /\ \A u \in Tx : lock[s].owner # u
    BY <1>0, <1>1, <1>2, FreeStripe DEF Timestamp
  <1>4. ASSUME NEW n \in Int, tx[t].end <= n
        PROVE  Snapshot(r.addr, n) = Latest(r.addr)
    <2>1. \A h \in hist[r.addr] : h.version <= n
      BY <1>0, <1>2, <1>3, <1>4 DEF Clean
    <2> QED
      BY <1>0, <2>1, LatestAt
  <1>5. tx[t].irrevocable \in {0, 2}
    BY <1>0, <1>1 DEF Stage, IrrStage, TxDesc, Outside, Between, ValidatesFor, Timed
  <1>6. Matches(r, Latest(r.addr))
    <2>1. GoodRead(r, tx[t].end)
      BY <1>0, <1>1, <1>5 DEF Private, InSnapshot
    <2> QED
      BY <1>2, <1>4, <2>1 DEF GoodRead
  <1>7. ASSUME NEW n \in Int, tx[t].end <= n, n <= clock
        PROVE  GoodRead(r, n)
    BY <1>3, <1>4, <1>6, <1>7 DEF GoodRead, Settled
  <1>8. loc[t].for = "extend" => GoodRead(r, loc[t].now)
    <2>1. loc[t].now \in Int
      BY <1>0 DEF Locals
    <2> QED
      BY <1>0, <1>1, <1>7, <2>1 DEF Private, Bounds, ValidatesFor
  <1>9. loc[t].for = "commit" => GoodRead(r, loc[t].ts - 1)
    <2>1. SUFFICES ASSUME Timed(t)
                   PROVE  GoodRead(r, loc[t].ts - 1)
      BY <1>1 DEF Timed
    <2>2. loc[t].ts \in Nat
      BY <1>0 DEF Locals
    <2>3. tx[t].end < loc[t].ts /\ loc[t].ts <= clock
      BY <1>0, <1>1, <2>1 DEF Private, Bounds, Entries, Dated
    <2>4. loc[t].ts - 1 \in Int /\ tx[t].end <= loc[t].ts - 1 /\ loc[t].ts - 1 <= clock
      BY <1>0, <1>2, <2>2, <2>3
    <2> QED
      BY <1>7, <2>4
  <1>10. Frozen(t, r)
    BY <1>3, <1>6 DEF Frozen, NoWriter
  <1> QED
    BY <1>8, <1>9, <1>10 DEF ValidFor

\* Own steps keep the checks of a running validation.
LEMMA StaysChecked ==
  ASSUME SerialInv, MemInv', NEW t \in Tx, StepOf(t), Inner(t) \/ Arrives(t), Stays(t)
  PROVE  Checked(t)'
  <1>0. /\ MemInv /\ LockInv /\ TypeInv /\ TypeInv' /\ Private(t) /\ tx[t] \in TxDesc
        /\ loc[t] \in Locals /\ \A r \in seen[t] : r \in SeenEntry
    BY DEF SerialInv, MemInv, LockInv, TypeInv, TypeOK
  <1>1. CASE ValidateEntry(t)
    <2>1. /\ pc[t] = "validate" /\ loc'[t].i = loc[t].i + 1
          /\ loc'[t].for = loc[t].for /\ loc'[t].now = loc[t].now /\ loc'[t].ts = loc[t].ts
          /\ tx'[t] = tx[t] /\ seen' = seen /\ lock' = lock /\ hist' = hist
      BY <1>0, <1>1 DEF ValidateEntry, shared, aux, Locals, TypeInv, TypeOK
    <2>2. loc[t].i \in Nat /\ loc[t].now \in Int /\ loc[t].ts - 1 \in Int
      BY <1>0 DEF Locals
    <2>3. ASSUME NEW r \in seen[t], NEW j \in 1 .. Len(tx[t].r_set), j < loc[t].i + 1,
                 tx[t].r_set[j].lock = LOCK_IDX(r.addr), ~UnderOwnLock(t, r.addr)
          PROVE  ValidFor(t, r)
      <3>1. j < loc[t].i \/ j = loc[t].i
        BY <2>2, <2>3
      <3> QED
        BY <1>0, <1>1, <2>1, <2>3, <3>1, EntryChecked DEF Private, Checked
    <2>4. ASSUME NEW r \in seen[t], ValidFor(t, r)
          PROVE  ValidFor(t, r)'
      <3>1. \A n \in Int : GoodRead(r, n) => GoodRead(r, n)'
        BY <1>0, GoodReadStep
      <3>2. Frozen(t, r) => Frozen(t, r)'
        BY <1>0, <2>1, FrozenOwn
      <3> HIDE DEF Frozen, GoodRead
      <3> QED
        BY <2>1, <2>2, <2>4, <3>1, <3>2 DEF ValidFor
    <2>5. \A r \in seen[t] : UnderOwnLock(t, r.addr)' <=> UnderOwnLock(t, r.addr)
      BY <2>1 DEF UnderOwnLock
    <2> QED
      BY <2>1, <2>3, <2>4, <2>5 DEF Checked
  <1>2. CASE ~ValidateEntry(t)
    <2>1. pc'[t] = "validate" => loc'[t].i = 1
      BY <1>0, <1>2, StaysTo
    <2> QED
      BY <2>1 DEF Checked
  <1> QED
    BY <1>1, <1>2

\* The snapshot stays in the past.
LEMMA StaysBounds ==
  ASSUME SerialInv, NEW t \in Tx, StepOf(t), Inner(t) \/ Arrives(t), Stays(t)
  PROVE  Bounds(t)'
  <1>0. /\ LockInv /\ TypeInv /\ Bounds(t) /\ tx[t] \in TxDesc /\ loc[t] \in Locals
    BY DEF SerialInv, MemInv, LockInv, TypeInv, TypeOK, Private
  <1>1. clock' >= clock /\ clock \in Nat /\ clock' \in Nat
    BY <1>0, ClockForward
  <1>2. InAttempt(t) /\ tx'[t].start = tx[t].start /\ tx'[t].end = tx[t].end
        /\ tx'[t].r_set = tx[t].r_set /\ tx[t].start \in Nat /\ tx[t].end \in Nat
    BY <1>0 DEF Stays, SameReads, TxDesc
  <1>3. ASSUME ValidatesFor(t, "extend")'
        PROVE  tx[t].end <= loc'[t].now /\ loc'[t].now <= clock'
    <2>1. CASE ValidateEntry(t)
      <3>1. loc'[t].now = loc[t].now /\ loc'[t].for = loc[t].for /\ pc[t] = "validate"
        BY <1>0, <2>1 DEF ValidateEntry, Locals, TypeInv, TypeOK
      <3>2. loc[t].now \in Nat
        BY <1>0 DEF Locals
      <3> QED
        BY <1>0, <1>1, <1>2, <1>3, <3>1, <3>2 DEF Bounds, ValidatesFor
    <2>2. CASE ~ValidateEntry(t)
      <3>1. Extend(t)
        BY <1>0, <1>3, <2>2, StaysTo DEF ValidatesFor
      <3>2. loc'[t].now = clock
        BY <1>0, <3>1 DEF Extend, StartValidate, Locals, TypeInv, TypeOK
      <3> QED
        BY <1>0, <1>1, <1>2, <3>2 DEF Bounds
    <2> QED
      BY <2>1, <2>2
  <1>4. ASSUME Timed(t)'
        PROVE  tx[t].end < loc'[t].ts
    <2>1. CASE ValidateEntry(t)
      <3>1. loc'[t].ts = loc[t].ts /\ loc'[t].for = loc[t].for /\ pc[t] = "validate"
        BY <1>0, <2>1 DEF ValidateEntry, Locals, TypeInv, TypeOK
      <3> QED
        BY <1>0, <1>2, <1>4, <3>1 DEF Bounds, Timed
    <2>2. CASE ~ValidateEntry(t)
      <3>1. loc'[t].ts = clock + 1
        BY <1>0, <1>4, <2>2, StaysTo DEF Timed
      <3> QED
        BY <1>0, <1>1, <1>2, <3>1 DEF Bounds
    <2> QED
      BY <2>1, <2>2
  <1> QED
    BY <1>0, <1>1, <1>2, <1>3, <1>4 DEF Bounds

\* Own steps within an attempt keep what it relies on.
LEMMA StaysPrivate ==
  ASSUME SerialInv, MemInv', NEW t \in Tx, StepOf(t), Inner(t) \/ Arrives(t)
  PROVE  Private(t)'
  <1>0. /\ MemInv /\ LockInv /\ TypeInv /\ TypeInv' /\ Private(t) /\ tx[t] \in TxDesc
        /\ tx'[t] \in TxDesc /\ tx[t].end \in Int
        /\ \A r \in seen[t] : r \in SeenEntry /\ r.addr \in Addr /\ LOCK_IDX(r.addr) \in Stripe
    <2>1. MemInv /\ LockInv /\ TypeInv /\ TypeInv' /\ Private(t)
      BY DEF SerialInv, MemInv, LockInv
    <2>2. tx[t] \in TxDesc /\ tx'[t] \in TxDesc /\ \A r \in seen[t] : r \in SeenEntry
      BY <2>1 DEF TypeInv, TypeOK
    <2> QED
      BY <2>1, <2>2, LockIdxType DEF TxDesc, SeenEntry
  <1>1. Stays(t)
    BY <1>0, InnerStays DEF SerialInv, StageInv
  <1>2. InAttempt(t) /\ InAttempt(t)' /\ SameReads(t)
    BY <1>1 DEF Stays
  <1>3. seen'[t] = seen[t] /\ tx'[t].r_set = tx[t].r_set /\ tx'[t].read_only = tx[t].read_only
        /\ tx'[t].end = tx[t].end
    BY <1>2 DEF SameReads
  <1>4. hist' = hist /\ (lock' = lock \/ StoreAcquire(t))
    BY <1>0, <1>2, OwnStep
  <1>5. ASSUME StoreAcquire(t)
        PROVE  lock' = [lock EXCEPT ![LOCK_IDX(loc[t].addr)] = OwnedBy(t)]
    BY <1>5 DEF StoreAcquire
  <1>6. ASSUME NEW r \in seen[t]
        PROVE  /\ UnderOwnLock(t, r.addr) => UnderOwnLock(t, r.addr)'
               /\ UnderOwnLock(t, r.addr)' =>
                     \/ UnderOwnLock(t, r.addr)
                     \/ StoreAcquire(t) /\ LOCK_IDX(r.addr) = LOCK_IDX(loc[t].addr)
    BY <1>0, <1>4, <1>5, <1>6 DEF UnderOwnLock, OwnedBy, TypeInv, TypeOK
  <1>7. Unread(t)' /\ Serial(t)' /\ BytesKept(t)'
    BY <1>2 DEF Unread, Serial, BytesKept, InAttempt, Publishing
  <1>8. InSnapshot(t)'
    <2>1. \A r \in seen[t] : \A n \in Int : GoodRead(r, n) => GoodRead(r, n)'
      BY <1>0, GoodReadStep
    <2>2. tx'[t].irrevocable \in {0, 2} => tx[t].irrevocable \in {0, 2}
      BY <1>1 DEF Stays
    <2>3. \A r : Logged(t, r)' <=> Logged(t, r)
      BY <1>3 DEF Logged
    <2>4. \A r \in seen[t] : ~UnderOwnLock(t, r.addr)' => ~UnderOwnLock(t, r.addr)
      BY <1>6
    <2> QED
      BY <1>0, <1>2, <1>3, <2>1, <2>2, <2>3, <2>4 DEF Private, InSnapshot
  <1>9. OwnLatest(t)'
    <2>1. ASSUME ~tx[t].read_only, NEW r \in seen[t], UnderOwnLock(t, r.addr)'
          PROVE  Matches(r, Latest(r.addr))
      <3>1. CASE UnderOwnLock(t, r.addr)
        BY <1>0, <1>2, <2>1, <3>1 DEF Private, OwnLatest
      <3>2. CASE StoreAcquire(t) /\ LOCK_IDX(r.addr) = LOCK_IDX(loc[t].addr)
        BY <2>1, <3>2, AcquiredLatest
      <3> QED
        BY <1>6, <2>1, <3>1, <3>2
    <2>2. \A r \in seen[t] : Matches(r, Latest(r.addr)) => Matches(r, Latest(r.addr))'
      BY <1>4 DEF Matches, Latest
    <2> QED
      BY <1>3, <2>1, <2>2 DEF OwnLatest
  <1>10. Acquires(t)'
    <2>1. SUFFICES ASSUME pc'[t] = "store_cas"
                   PROVE  Acquires(t)'
      BY DEF Acquires
    <2>2. Arrives(t)
      BY <1>0, <2>1, StaysTo
    <2> QED
      BY <1>3, <2>1, <2>2 DEF Arrives, Acquires
  <1>11. Stable(t)'
    <2>1. SUFFICES ASSUME tx'[t].irrevocable = 3, ~LateIrrevocable(t), NEW r \in seen[t]
                   PROVE  Frozen(t, r)'
      BY <1>3 DEF Stable, LateIrrevocable
    <2>2. Frozen(t, r)
      <3>1. CASE tx[t].irrevocable = 3
        BY <1>0, <1>2, <2>1, <3>1 DEF Private, Stable
      <3>2. CASE IrrevocableValidated(t)
        BY <2>1, <3>2, ValidatedFrozen
      <3> QED
        BY <1>1, <2>1, <3>1, <3>2 DEF Stays
    <2> QED
      BY <1>0, <1>4, <2>2, FrozenOwn
  <1>12. Bounds(t)' /\ Checked(t)' /\ Loading(t)'
    BY <1>1, StaysBounds, StaysChecked, StaysLoading
  <1> QED
    BY <1>7, <1>8, <1>9, <1>10, <1>11, <1>12 DEF Private

\* A successful extension moves the snapshot to the time at which it read the clock.
LEMMA ExtendedPrivate ==
  ASSUME SerialInv, MemInv', NEW t \in Tx, StepOf(t), Extended(t)
  PROVE  Private(t)'
  <1>0. /\ MemInv /\ LockInv /\ TypeInv /\ Private(t) /\ Stage(t) /\ tx[t] \in TxDesc
        /\ loc[t] \in Locals /\ \A r \in seen[t] : r \in SeenEntry
        /\ clock \in Nat
    BY DEF SerialInv, StageInv, MemInv, LockInv, TypeInv, TypeOK
  <1>1. /\ ValidatesFor(t, "extend") /\ pc[t] = "validate" /\ InAttempt(t)
        /\ Validated(t, "extend") /\ loc[t].for = "extend"
    BY DEF Extended, Validated, ValidatesFor, InAttempt, Outside, Between
  <1>2. /\ pc'[t] = "load_recheck" /\ lock' = lock /\ hist' = hist /\ clock' = clock
        /\ seen' = seen /\ tx'[t].end = loc[t].now
        /\ tx'[t].r_set = tx[t].r_set /\ tx'[t].start = tx[t].start
        /\ tx'[t].read_only = tx[t].read_only /\ tx'[t].irrevocable = tx[t].irrevocable
        /\ loc'[t].addr = loc[t].addr /\ loc'[t].l = loc[t].l /\ loc'[t].value = loc[t].value
    BY <1>0 DEF Extended, Goto, shared, aux, TypeInv, TypeOK, TxDesc, Locals
  <1>3. /\ loc[t].now \in Nat /\ tx[t].end \in Nat /\ tx[t].start \in Nat
        /\ tx[t].r_set \in Seq(REntry)
    BY <1>0 DEF Locals, TxDesc
  <1>4. tx[t].irrevocable = 0 /\ ~tx[t].read_only
    BY <1>0, <1>1 DEF Stage, IrrStage, ReadOnlyStage
  <1>5. /\ tx[t].start <= tx[t].end /\ tx[t].end <= loc[t].now /\ loc[t].now <= clock
        /\ \A j \in 1 .. Len(tx[t].r_set) : tx[t].r_set[j].version <= tx[t].end
    BY <1>0, <1>1 DEF Private, Bounds
  <1>6. /\ InAttempt(t)' /\ ~Publishing(t)' /\ ~Timed(t)' /\ \A f : ~ValidatesFor(t, f)'
    BY <1>2 DEF InAttempt, Publishing, Timed, ValidatesFor, Outside, Between
  <1>7. Bounds(t)'
    <2>1. \A j \in 1 .. Len(tx[t].r_set) : tx[t].r_set[j].version \in Nat
      <3>1. \A j \in 1 .. Len(tx[t].r_set) : tx[t].r_set[j] \in REntry
        BY <1>3
      <3> QED
        BY <3>1 DEF REntry
    <2>2. \A j \in 1 .. Len(tx[t].r_set) : tx[t].r_set[j].version <= loc[t].now
      BY <1>3, <1>5, <2>1
    <2> QED
      BY <1>2, <1>3, <1>5, <1>6, <2>2 DEF Bounds
  <1>8. \A r \in seen[t] : UnderOwnLock(t, r.addr)' <=> UnderOwnLock(t, r.addr)
    BY <1>2 DEF UnderOwnLock
  <1>9. InSnapshot(t)'
    <2>1. ASSUME NEW r \in seen[t], ~UnderOwnLock(t, r.addr)
          PROVE  GoodRead(r, loc[t].now) /\ Logged(t, r)
      <3>1. ValidFor(t, r)
        BY <1>1, <1>4, <2>1, ValidatedReads
      <3>2. Logged(t, r)
        BY <1>0, <1>1, <1>4, <2>1 DEF Private, InSnapshot
      <3> QED
        BY <1>1, <3>1, <3>2 DEF ValidFor
    <2>2. \A r \in seen[t] : \A n \in Int : GoodRead(r, n) => GoodRead(r, n)'
      BY <1>0, GoodReadStep
    <2>3. \A r : Logged(t, r)' <=> Logged(t, r)
      BY <1>2 DEF Logged
    <2> QED
      BY <1>2, <1>3, <1>8, <2>1, <2>2, <2>3 DEF InSnapshot
  <1>10. OwnLatest(t)'
    <2>1. \A r \in seen[t] : Matches(r, Latest(r.addr)) => Matches(r, Latest(r.addr))'
      BY <1>2 DEF Matches, Latest
    <2> QED
      BY <1>0, <1>1, <1>2, <1>8, <2>1 DEF Private, OwnLatest
  <1>11. Loading(t)'
    <2>1. loc[t].l.version <= loc[t].now
      BY <1>0, <1>1 DEF Private, Loading, Loads
    <2> QED
      BY <1>1, <1>2, <2>1, LoadingKeeps DEF Loads
  <1>12. Unread(t)' /\ Acquires(t)' /\ Stable(t)' /\ Checked(t)' /\ Serial(t)' /\ BytesKept(t)'
    BY <1>2, <1>4, <1>6 DEF Unread, Acquires, Stable, Checked, Serial, BytesKept, InAttempt
  <1> QED
    BY <1>7, <1>9, <1>10, <1>11, <1>12 DEF Private

-----------------------------------------------------------------------------
(* The invariant, and what it says of all behaviours *)

\* A step of a thread keeps its own private invariant.
LEMMA OwnPrivate ==
  ASSUME SerialInv, MemInv', NEW t \in Tx, StepOf(t), Running(t) \/ Call(t)
  PROVE  Private(t)'
  <1>1. LockInv /\ TypeInv /\ Unread(t) /\ Bounds(t) /\ Stage(t)
    BY DEF SerialInv, StageInv, MemInv, LockInv, Private
  <1>2. OwnMoves(t)
    BY <1>1, MovesStep
  <1>3. CASE Quits(t)
    BY <1>1, <1>3, QuitsPrivate
  <1>4. CASE Begins(t)
    BY <1>1, <1>4, BeginsPrivate
  <1>5. CASE Finishes(t)
    BY <1>5, FinishesPrivate
  <1>6. CASE OwnLoad(t)
    BY <1>6, OwnLoadPrivate
  <1>7. CASE LoadReturn(t) \/ LoadRecheck(t)
    BY <1>7, LoadReturnPrivate
  <1>8. CASE Extended(t)
    BY <1>8, ExtendedPrivate
  <1>9. CASE Inner(t) \/ Arrives(t)
    BY <1>9, StaysPrivate
  <1> QED
    BY <1>2, <1>3, <1>4, <1>5, <1>6, <1>7, <1>8, <1>9 DEF OwnMoves

\* A thread that has read nothing relies on nothing.
LEMMA OutsidePrivate ==
  ASSUME NEW t \in Tx, pc[t] \in {"idle", "prepare", "barrier"}, seen[t] = {},
         tx[t].r_set = <<>>
  PROVE  Private(t)
  BY DEF Private, Unread, Bounds, InSnapshot, OwnLatest, Acquires, Stable, Checked, Loading,
         Loads, Serial, BytesKept, InAttempt, Outside, Between, ValidatesFor, Timed, Publishing

\* So it is after the clock reset, which finds every thread before an attempt.
LEMMA RolloverPrivate ==
  ASSUME SerialInv, Rollover, NEW t \in Tx
  PROVE  Private(t)'
  <1>1. pc[t] = "barrier" /\ pc'[t] = "prepare" /\ tx' = tx /\ seen' = seen
    BY DEF Rollover, RolloverBut
  <1>2. Unread(t)
    BY DEF SerialInv, Private
  <1>3. seen'[t] = {} /\ tx'[t].r_set = <<>>
    BY <1>1, <1>2 DEF Unread, Outside, Between
  <1> QED
    BY <1>1, <1>3
    DEF Private, Unread, Bounds, InSnapshot, OwnLatest, Acquires, Stable, Checked, Loading,
        Loads, Serial, BytesKept, InAttempt, Outside, Between, ValidatesFor, Timed, Publishing

\* The invariant holds at the start.
LEMMA SerialInit == Init => SerialInv
  <1> SUFFICES ASSUME Init
               PROVE  SerialInv
    OBVIOUS
  <1>1. ASSUME NEW t \in Tx
        PROVE  Private(t)
    <2>1. pc[t] = "idle" /\ seen[t] = {} /\ tx[t].r_set = <<>>
      BY DEF Init
    <2> QED
      BY <2>1, OutsidePrivate
  <1> QED
    BY <1>1, MemInit, StageInit DEF SerialInv

\* Every step keeps it.
LEMMA SerialStep == SerialInv /\ [Next]_vars => SerialInv'
  <1> SUFFICES ASSUME SerialInv, [Next]_vars
               PROVE  SerialInv'
    OBVIOUS
  <1>1. MemInv' /\ StageInv' /\ LockInv
    BY MemStep, StageInvStep DEF SerialInv, MemInv
  <1>2. CASE UNCHANGED vars
    <2>1. ASSUME NEW t \in Tx
          PROVE  Private(t)'
      <3>1. Private(t)
        BY DEF SerialInv
      <3>2. \A s : StripeVersion(s)' = StripeVersion(s)
        BY <1>2 DEF vars, StripeVersion, Publishing, LockVersion
      <3>3. \A r, n : GoodRead(r, n)' = GoodRead(r, n)
        BY <1>2 DEF vars, GoodRead, Settled, Timed, Matches, Snapshot
      <3>4. \A r : Frozen(t, r)' = Frozen(t, r)
        BY <1>2 DEF vars, Frozen, NoWriter, Writer, Timed, Publishing, Matches, Latest
      <3>5. \A s : Quiet(s)' = Quiet(s)
        BY <1>2 DEF vars, Quiet, Publishing
      <3>6. \A e, n : BytesFrom(e, n)' = BytesFrom(e, n)
        BY <1>2 DEF vars, BytesFrom, Settled, Timed, Snapshot
      <3>7. Unread(t)' /\ Bounds(t)' /\ Acquires(t)'
        BY <1>2, <3>1
        DEF vars, Private, Unread, Bounds, Acquires, InAttempt, ValidatesFor, Timed
      <3>8. InSnapshot(t)' /\ OwnLatest(t)' /\ Stable(t)'
        BY <1>2, <3>1, <3>3, <3>4
        DEF vars, Private, InSnapshot, OwnLatest, Stable, InAttempt, UnderOwnLock, Logged,
            LateIrrevocable, Matches, Latest
      <3>9. Checked(t)'
        BY <1>2, <3>1, <3>3, <3>4 DEF vars, Private, Checked, ValidFor, UnderOwnLock
      <3>10. Loading(t)'
        BY <1>2, <3>1, <3>2, <3>5 DEF vars, Private, Loading, Loads, ValidatesFor, Latest
      <3>11. Serial(t)' /\ BytesKept(t)'
        BY <1>2, <3>1, <3>3, <3>6 DEF vars, Private, Serial, BytesKept, Publishing
      <3> QED
        BY <3>7, <3>8, <3>9, <3>10, <3>11 DEF Private
    <2> QED
      BY <1>1, <2>1 DEF SerialInv
  <1>3. CASE Rollover
    BY <1>1, <1>3, RolloverPrivate DEF SerialInv
  <1>4. ASSUME NEW t \in Tx, Running(t) \/ Call(t)
        PROVE  SerialInv'
    <2>1. StepOf(t)
      BY <1>1, <1>4, StepKinds
    <2>2. Private(t)'
      BY <1>1, <1>4, <2>1, OwnPrivate
    <2>3. \A u \in Tx \ {t} : Private(u)'
      BY <1>1, <2>1, OthersPrivate
    <2> QED
      BY <1>1, <2>2, <2>3 DEF SerialInv
  <1> QED
    BY <1>2, <1>3, <1>4 DEF Next

\* For any number of threads, addresses and locks: all that an attempt has loaded
\* belongs to the one state that the commits up to tx->end have produced, however
\* loads, extensions of the snapshot, other commits and the clock reset interleave.
\* (Values whose stripe the attempt has locked since are left out, as in the code,
\* which reads them from the write set or from memory.)
THEOREM LoadsAreSnapshots == Spec => []SnapshotReads
  <1>1. SerialInv => SnapshotReads
    <2>1. SUFFICES ASSUME SerialInv, NEW t \in Tx, Attempt(t), tx[t].irrevocable = 0,
                          NEW r \in seen[t], ~UnderOwnLock(t, r.addr)
                   PROVE  Matches(r, Snapshot(r.addr, tx[t].end))
      BY DEF SnapshotReads
    <2>2. InAttempt(t) /\ InSnapshot(t)
      BY <2>1 DEF SerialInv, Private, Attempt, InAttempt, Outside, Between
    <2> QED
      BY <2>1, <2>2 DEF InSnapshot, GoodRead
  <1> QED
    BY <1>1, SerialInit, SerialStep, PTL DEF Spec

\* For any number of threads, addresses and locks: committed updates serialize in the
\* order of their timestamps.  It takes that the application does not store in
\* transactions that it started read-only, whose loads nobody validates.
THEOREM CommitsSerialize == "ro_write" \notin Features => (Spec => []Serializable)
  <1> SUFFICES ASSUME "ro_write" \notin Features
               PROVE  Spec => []Serializable
    OBVIOUS
  <1>1. SerialInv => Serializable
    <2>1. SUFFICES ASSUME SerialInv, NEW t \in Tx, Publishing(t), NEW r \in seen[t]
                   PROVE  Matches(r, Snapshot(r.addr, loc[t].ts - 1))
      BY DEF Serializable, Publishing
    <2>2. Stage(t) /\ Serial(t)
      BY <2>1 DEF SerialInv, StageInv, Private
    <2>3. ~tx[t].read_only
      BY <2>1, <2>2 DEF Stage, ReadOnlyStage, Publishing
    <2> QED
      BY <2>1, <2>2, <2>3 DEF Serial, GoodRead
  <1> QED
    BY <1>1, SerialInit, SerialStep, PTL DEF Spec

\* For any number of threads, addresses and locks: what an irrevocable transaction has
\* loaded stays the committed value until it commits.  It takes that transactions
\* started read-only do not become irrevocable on the way: their read sets are empty,
\* and what they have loaded is not validated.
THEOREM IrrevocableKeepsReads ==
    ~({"read_only", "irrevocable"} \subseteq Features) => (Spec => []IrrevocableStable)
  <1> SUFFICES ASSUME ~({"read_only", "irrevocable"} \subseteq Features)
               PROVE  Spec => []IrrevocableStable
    OBVIOUS
  <1>1. SerialInv => IrrevocableStable
    <2>1. SUFFICES ASSUME SerialInv, NEW t \in Tx,
                          pc[t] \in {"active", "load_value", "load_relock"},
                          tx[t].irrevocable = 3, NEW r \in seen[t]
                   PROVE  Matches(r, Latest(r.addr))
      BY DEF IrrevocableStable
    <2>2. Stage(t) /\ Stable(t)
      BY <2>1 DEF SerialInv, StageInv, Private
    <2>3. InAttempt(t) /\ ~LateIrrevocable(t)
      BY <2>1, <2>2
      DEF Stage, ReadOnlyStage, LateIrrevocable, InAttempt, Outside, Between
    <2> QED
      BY <2>1, <2>2, <2>3 DEF Stable, Frozen
  <1> QED
    BY <1>1, SerialInit, SerialStep, PTL DEF Spec

\* For any number of threads, addresses and masks: the bytes that a masked store leaves
\* out are, when the entry is written back, those of the last commit before it.
THEOREM MaskedStoresKeepBytes == Spec => []UnmaskedBytesKept
  <1>1. SerialInv => UnmaskedBytesKept
    <2>1. SUFFICES ASSUME SerialInv, NEW t \in Tx, Publishing(t),
                          NEW j \in 1 .. Len(tx[t].w_set), tx[t].w_set[j].mask # {},
                          NEW b \in Byte \ tx[t].w_set[j].mask
                   PROVE  tx[t].w_set[j].value[b] =
                             Snapshot(tx[t].w_set[j].addr, loc[t].ts - 1)[b]
      BY DEF UnmaskedBytesKept, Publishing
    <2>2. BytesKept(t)
      BY <2>1 DEF SerialInv, Private
    <2> QED
      BY <2>1, <2>2 DEF BytesKept, BytesFrom
  <1> QED
    BY <1>1, SerialInit, SerialStep, PTL DEF Spec

=============================================================================
