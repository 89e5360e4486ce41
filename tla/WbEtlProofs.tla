---------------------------- MODULE WbEtlProofs ----------------------------
(***************************************************************************)
(* Theorems about WbEtl for every number of threads, addresses and locks.  *)
(***************************************************************************)
EXTENDS WbEtl, TLAPS

-----------------------------------------------------------------------------
(* Types of the operators the actions are built from *)

\* The stripe of an address is a stripe.
LEMMA LockIdxType == \A a \in Addr : LOCK_IDX(a) \in Stripe
  BY StmAssumption DEF LOCK_IDX, Stripe

\* A version number makes a lock word.
LEMMA TimestampType == \A v \in Nat : Timestamp(v) \in LockWord
  BY DEF Timestamp, LockWord

\* A transaction's ownership makes a lock word.
LEMMA OwnedByType == \A t \in Tx : OwnedBy(t) \in LockWord
  BY DEF OwnedBy, LockWord

\* Merging a masked store into a word yields a word.
LEMMA MergeType ==
  ASSUME NEW old \in Word, NEW new \in Word, NEW m
  PROVE  Merge(old, new, m) \in Word
  BY DEF Merge, Word

\* The cleared locals are locals.
LEMMA NoLocType == NoLoc \in Locals
  <1>1. a0 \in Addr
    BY StmAssumption DEF a0
  <1>2. Timestamp(0) \in LockWord
    BY TimestampType
  <1> QED
    BY <1>1, <1>2, StmAssumption DEF NoLoc, Locals

\* A new entry of a write set has its type.
LEMMA AddEntryType ==
  ASSUME TypeOK, NEW a \in Addr, NEW w \in Word, NEW m \in SUBSET Byte, NEW v \in Nat
  PROVE  AddEntry(a, w, m, v) \in WEntry
  BY MergeType DEF AddEntry, WEntry, TypeOK

\* A store to an entry keeps its type, address and version.
LEMMA UpdateEntryType ==
  ASSUME TypeOK, NEW e \in WEntry, NEW a \in Addr, NEW w \in Word, NEW m \in SUBSET Byte
  PROVE  /\ UpdateEntry(e, a, w, m) \in WEntry
         /\ UpdateEntry(e, a, w, m).addr = e.addr
         /\ UpdateEntry(e, a, w, m).version = e.version
  <1>1. mem[a] \in Word /\ e.value \in Word
    BY DEF TypeOK, WEntry
  <1>2. Merge(IF e.mask = {} THEN mem[a] ELSE e.value, w, m) \in Word
    BY <1>1, MergeType
  <1> QED
    BY <1>2 DEF UpdateEntry, WEntry

-----------------------------------------------------------------------------
(* Type correctness.  The clock reset keeps the newest version of an address,
   so the invariant says that there is one. *)

HistoryNewest == \A a \in Addr : \E h \in hist[a] : \A g \in hist[a] : g.version <= h.version

TypeInv == TypeOK /\ HistoryNewest

\* The newest committed value of an address is a word.
LEMMA LatestType ==
  ASSUME TypeInv, NEW a \in Addr
  PROVE  Latest(a) \in Word
  <1>1. PICK h \in hist[a] : \A g \in hist[a] : g.version <= h.version
    BY DEF TypeInv, HistoryNewest
  <1>2. Newest(hist[a]) \in hist[a]
    BY <1>1 DEF Newest
  <1> QED
    BY <1>2 DEF Latest, TypeInv, TypeOK

\* Publishing a write set keeps the histories in their type.
LEMMA PublishType ==
  ASSUME TypeInv, NEW w \in Seq(WEntry), NEW ts \in Nat
  PROVE  /\ Publish(w, ts) \in [Addr -> SUBSET [version : Nat, value : Word]]
         /\ \A a \in Addr : \E h \in Publish(w, ts)[a] :
                \A g \in Publish(w, ts)[a] : g.version <= h.version
  <1> DEFINE New(a) == {[version |-> ts, value |-> Merge(mem[a], w[j].value, w[j].mask)] :
                            j \in {k \in EntryOf(w, a) : w[k].mask # {}}}
  <1>1. ASSUME NEW a \in Addr
        PROVE  Publish(w, ts)[a] = hist[a] \cup New(a)
    BY DEF Publish
  <1>2. ASSUME NEW a \in Addr
        PROVE  \A n \in New(a) : n \in [version : Nat, value : Word] /\ n.version = ts
    <2>1. SUFFICES ASSUME NEW j \in 1 .. Len(w)
                   PROVE  [version |-> ts, value |-> Merge(mem[a], w[j].value, w[j].mask)]
                              \in [version : Nat, value : Word]
      BY DEF EntryOf
    <2>0. w[j] \in WEntry
      OBVIOUS
    <2>2. w[j].value \in Word /\ mem[a] \in Word
      BY <2>0 DEF WEntry, TypeInv, TypeOK
    <2>3. Merge(mem[a], w[j].value, w[j].mask) \in Word
      BY <2>2, MergeType
    <2> HIDE DEF New
    <2> QED
      BY <2>3
  <1> HIDE DEF New
  <1>3. Publish(w, ts) \in [Addr -> SUBSET [version : Nat, value : Word]]
    <2>1. \A a \in Addr : Publish(w, ts)[a] \in SUBSET [version : Nat, value : Word]
      BY <1>1, <1>2 DEF TypeInv, TypeOK
    <2> QED
      BY <2>1 DEF Publish
  <1>4. ASSUME NEW a \in Addr
        PROVE  \E h \in Publish(w, ts)[a] : \A g \in Publish(w, ts)[a] : g.version <= h.version
    <2>1. PICK h \in hist[a] : \A g \in hist[a] : g.version <= h.version
      BY DEF TypeInv, HistoryNewest
    <2>2. \A g \in hist[a] : g.version \in Nat
      BY DEF TypeInv, TypeOK
    <2>3. CASE New(a) = {} \/ ts <= h.version
      BY <1>1, <1>2, <2>1, <2>3
    <2>4. CASE New(a) # {} /\ ts > h.version
      <3>1. PICK n \in New(a) : TRUE
        BY <2>4
      <3> QED
        BY <1>1, <1>2, <2>1, <2>2, <2>4, <3>1
    <2> QED
      BY <2>2, <2>3, <2>4
  <1> QED
    BY <1>3, <1>4

\* Prepare keeps every variable in its type.
LEMMA PrepareType ==
  ASSUME TypeInv, NEW t \in Tx, Prepare(t)
  PROVE  TypeInv'
  <1> DEFINE irr == IF tx[t].irrevocable = 2 THEN 3 ELSE tx[t].irrevocable
  <1>1. irr \in 0 .. 3
    BY DEF TypeInv, TypeOK, TxDesc
  <1>2. tx' = [tx EXCEPT ![t].start = clock, ![t].end = clock, ![t].irrevocable = irr]
    BY DEF Prepare
  <1> HIDE DEF irr
  <1>3. tx' \in [Tx -> TxDesc]
    <2> DEFINE d == [tx[t] EXCEPT !.start = clock, !.end = clock, !.irrevocable = irr]
    <2>1. d \in TxDesc
      BY <1>1, ZenonT(60) DEF TypeInv, TypeOK, TxDesc
    <2>2. tx' = [tx EXCEPT ![t] = d]
      BY <1>2
    <2> HIDE DEF d
    <2> QED
      BY <2>1, <2>2 DEF TypeInv, TypeOK
  <1> QED
    BY <1>3 DEF TypeInv, TypeOK, HistoryNewest, Prepare, Goto, Label, shared, aux

\* Rollback keeps every variable in its type.
LEMMA RollbackType ==
  ASSUME TypeInv, NEW t \in Tx, NEW r, NEW irr \in 0 .. 3, RollbackAs(t, r, irr)
  PROVE  TypeInv'
  <1>1. tx' \in [Tx -> TxDesc]
    <2> DEFINE d == [tx[t] EXCEPT !.r_set = <<>>, !.start = 0, !.end = 0, !.irrevocable = irr]
    <2>1. <<>> \in Seq(REntry)
      OBVIOUS
    <2>2. d \in TxDesc
      BY <2>1, ZenonT(60) DEF TypeInv, TypeOK, TxDesc
    <2>3. tx' = [tx EXCEPT ![t] = d]
      BY DEF RollbackAs
    <2> HIDE DEF d
    <2> QED
      BY <2>2, <2>3 DEF TypeInv, TypeOK
  <1>2. loc' \in [Tx -> Locals]
    BY NoLocType DEF RollbackAs, TypeInv, TypeOK, Locals
  <1>3. seen' \in [Tx -> SUBSET SeenEntry]
    BY DEF RollbackAs, TypeInv, TypeOK
  <1> QED
    BY <1>1, <1>2, <1>3 DEF TypeInv, TypeOK, HistoryNewest, RollbackAs, Goto, Label, shared

\* PlainRollback keeps every variable in its type.
LEMMA PlainRollbackType ==
  ASSUME TypeInv, NEW t \in Tx, NEW r, Rollback(t, r)
  PROVE  TypeInv'
  <1>1. tx[t].irrevocable \in 0 .. 3
    BY DEF TypeInv, TypeOK, TxDesc
  <1> QED
    BY <1>1, RollbackType DEF Rollback

\* ReturnLoad keeps every variable in its type.
LEMMA ReturnLoadType ==
  ASSUME TypeInv, NEW t \in Tx, NEW a \in Addr, NEW v \in Word, NEW log \in Seq(REntry),
         ReturnLoad(t, a, v, {}, log)
  PROVE  TypeInv'
  <1>1. tx' \in [Tx -> TxDesc]
    <2>1. tx[t].r_set \o log \in Seq(REntry)
      BY DEF TypeInv, TypeOK, TxDesc
    <2> QED
      BY <2>1, ZenonT(60) DEF ReturnLoad, TypeInv, TypeOK, TxDesc
  <1>2. seen' \in [Tx -> SUBSET SeenEntry]
    BY DEF ReturnLoad, TypeInv, TypeOK, SeenEntry
  <1> QED
    BY <1>1, <1>2, NoLocType
    DEF TypeInv, TypeOK, HistoryNewest, ReturnLoad, Goto, Clear, Label, shared

\* What a load logs is a read set.
LEMMA LogEntryType ==
  ASSUME TypeInv, NEW t \in Tx
  PROVE  LogEntry(t) \in Seq(REntry)
  <1>1. loc[t] \in Locals
    BY DEF TypeInv, TypeOK
  <1>2. [lock |-> LOCK_IDX(loc[t].addr), version |-> loc[t].l.version] \in REntry
    BY <1>1, LockIdxType DEF Locals, LockWord, REntry
  <1> QED
    BY <1>2 DEF LogEntry

\* ReadLock keeps every variable in its type.
LEMMA ReadLockType ==
  ASSUME TypeInv, NEW t \in Tx, NEW a \in Addr, ReadLock(t, a, lock[LOCK_IDX(a)])
  PROVE  TypeInv'
  <1> DEFINE l == lock[LOCK_IDX(a)]
  <1>1. l \in LockWord
    BY LockIdxType DEF TypeInv, TypeOK
  <1>2. CASE LoadOwn(t, a, l)
    <2>1. CASE ReturnLoad(t, a, mem[a], {}, <<>>)
      <3>1. mem[a] \in Word /\ <<>> \in Seq(REntry)
        BY DEF TypeInv, TypeOK
      <3> QED
        BY <2>1, <3>1, ReturnLoadType
    <2>2. CASE Goto(t, "active") /\ Clear(t) /\ UNCHANGED <<shared, tx, aux>>
      BY <2>2, NoLocType DEF TypeInv, TypeOK, HistoryNewest, Goto, Clear, Label, shared, aux
    <2> QED
      BY <1>2, <2>1, <2>2 DEF LoadOwn
  <1>3. CASE LoadConflict(t, a, l)
    <2>1. CASE Rollback(t, "RW_CONFLICT")
      BY <2>1, PlainRollbackType
    <2>2. CASE ~Rollback(t, "RW_CONFLICT")
      <3>1. loc' \in [Tx -> Locals]
        BY <1>3, <2>2, NoLocType, SMTT(40) DEF LoadConflict, TypeInv, TypeOK, Locals
      <3> QED
        BY <1>3, <2>2, <3>1
        DEF LoadConflict, TypeInv, TypeOK, HistoryNewest, Goto, Label, shared, aux
    <2> QED
      BY <2>1, <2>2
  <1>4. CASE LoadFree(t, a, l)
    <2>1. loc' \in [Tx -> Locals]
      BY <1>1, <1>4, NoLocType DEF LoadFree, TypeInv, TypeOK, Locals
    <2> QED
      BY <1>4, <2>1 DEF LoadFree, TypeInv, TypeOK, HistoryNewest, Goto, Label, shared, aux
  <1> QED
    BY <1>2, <1>3, <1>4 DEF ReadLock

\* StoreOwn keeps every variable in its type.
LEMMA StoreOwnType ==
  ASSUME TypeInv, NEW t \in Tx, NEW a \in Addr, NEW w \in Word, NEW m \in SUBSET Byte, NEW l,
         StoreOwn(t, a, w, m, l)
  PROVE  TypeInv'
  <1> DEFINE ws == tx[t].w_set
             Same == /\ Goto(t, "active")
                     /\ Clear(t)
                     /\ UNCHANGED <<shared, aux>>
             Upd == [j \in 1 .. Len(ws) |->
                        IF j \in EntryOf(ws, a) THEN UpdateEntry(ws[j], a, w, m) ELSE ws[j]]
  <1>1. ws \in Seq(WEntry) /\ \A j \in 1 .. Len(ws) : ws[j] \in WEntry
    BY DEF TypeInv, TypeOK, TxDesc
  <1>2. ASSUME Same, NEW nw \in Seq(WEntry), tx' = [tx EXCEPT ![t].w_set = nw]
        PROVE  TypeInv'
    <2>1. tx' \in [Tx -> TxDesc]
      BY <1>2, ZenonT(60) DEF TypeInv, TypeOK, TxDesc
    <2> QED
      BY <1>2, <2>1, NoLocType DEF TypeInv, TypeOK, HistoryNewest, Goto, Clear, Label, shared, aux
  <1>3. CASE Same /\ tx' = tx
    BY <1>3, NoLocType DEF TypeInv, TypeOK, HistoryNewest, Goto, Clear, Label, shared, aux
  <1>4. CASE Same /\ tx' = [tx EXCEPT ![t].w_set = Upd]
    <2>1. \A j \in 1 .. Len(ws) : UpdateEntry(ws[j], a, w, m) \in WEntry
      BY <1>1, UpdateEntryType DEF TypeInv
    <2>2. Upd \in Seq(WEntry)
      BY <1>1, <2>1
    <2> QED
      BY <1>2, <1>4, <2>2
  <1>5. CASE Same /\ \E j \in Covered(ws, LOCK_IDX(a)) :
                        tx' = [tx EXCEPT ![t].w_set =
                                  Append(@, AddEntry(a, w, m, ws[j].version))]
    <2>1. PICK j \in Covered(ws, LOCK_IDX(a)) :
             tx' = [tx EXCEPT ![t].w_set = Append(ws, AddEntry(a, w, m, ws[j].version))]
      BY <1>5
    <2>2. ws[j].version \in Nat
      BY <1>1, <2>1 DEF Covered, WEntry
    <2>3. AddEntry(a, w, m, ws[j].version) \in WEntry
      BY <2>2, AddEntryType DEF TypeInv
    <2>4. Append(ws, AddEntry(a, w, m, ws[j].version)) \in Seq(WEntry)
      BY <1>1, <2>3
    <2> QED
      BY <1>2, <1>5, <2>1, <2>4
  <1>6. CASE Rollback(t, "EXTEND_WS")
    BY <1>6, PlainRollbackType
  <1> QED
    BY <1>3, <1>4, <1>5, <1>6 DEF StoreOwn

\* Most steps move on within a call and change nothing but its locals.
LEMMA LocalStepType ==
  ASSUME TypeInv, NEW t \in Tx, NEW label \in Label, NEW c \in Locals,
         Goto(t, label), UNCHANGED <<shared, tx, aux>>, loc' = [loc EXCEPT ![t] = c]
  PROVE  TypeInv'
  <1>1. loc' \in [Tx -> Locals]
    BY DEF TypeInv, TypeOK
  <1> QED
    BY <1>1 DEF TypeInv, TypeOK, HistoryNewest, Goto, shared, aux

\* WriteLock keeps every variable in its type.
LEMMA WriteLockType ==
  ASSUME TypeInv, NEW t \in Tx, NEW a \in Addr, NEW w \in Word, NEW m \in SUBSET Byte,
         WriteLock(t, a, w, m, lock[LOCK_IDX(a)])
  PROVE  TypeInv'
  <1> DEFINE l == lock[LOCK_IDX(a)]
  <1>1. l \in LockWord
    BY LockIdxType DEF TypeInv, TypeOK
  <1> HIDE DEF l
  <1>2. CASE StoreOwn(t, a, w, m, l)
    BY <1>2, StoreOwnType
  <1>3. CASE StoreConflict(t, a, w, m, l)
    <2>1. CASE Rollback(t, "WW_CONFLICT")
      BY <2>1, PlainRollbackType
    <2>2. CASE ~Rollback(t, "WW_CONFLICT")
      <3>1. [NoLoc EXCEPT !.addr = a, !.value = w, !.mask = m] \in Locals /\ "store" \in Label
        BY NoLocType DEF Locals, Label
      <3>2. /\ Goto(t, "store")
            /\ UNCHANGED <<shared, tx, aux>>
            /\ loc' = [loc EXCEPT ![t] = [NoLoc EXCEPT !.addr = a, !.value = w, !.mask = m]]
        BY <1>3, <2>2 DEF StoreConflict
      <3> QED
        BY <3>1, <3>2, LocalStepType
    <2> QED
      BY <2>1, <2>2
  <1>4. CASE StoreFree(t, a, w, m, l)
    <2>1. CASE Rollback(t, "VAL_WRITE") \/ Rollback(t, "EXTEND_WS")
      BY <2>1, PlainRollbackType
    <2>2. CASE ~Rollback(t, "VAL_WRITE") /\ ~Rollback(t, "EXTEND_WS")
      <3>1. /\ [NoLoc EXCEPT !.addr = a, !.value = w, !.mask = m, !.l = l] \in Locals
            /\ "store_cas" \in Label
        BY <1>1, NoLocType DEF Locals, Label
      <3>2. /\ Goto(t, "store_cas")
            /\ UNCHANGED <<shared, tx, aux>>
            /\ loc' = [loc EXCEPT ![t] = [NoLoc EXCEPT !.addr = a, !.value = w, !.mask = m,
                                                       !.l = l]]
        BY <1>4, <2>2 DEF StoreFree
      <3> QED
        BY <3>1, <3>2, LocalStepType
    <2> QED
      BY <2>1, <2>2
  <1> QED
    BY <1>2, <1>3, <1>4 DEF WriteLock, l

\* StoreAcquire keeps every variable in its type.
LEMMA StoreAcquireType ==
  ASSUME TypeInv, NEW t \in Tx, StoreAcquire(t)
  PROVE  TypeInv'
  <1> DEFINE e == AddEntry(loc[t].addr, loc[t].value, loc[t].mask, loc[t].l.version)
  <1>1. e \in WEntry /\ LOCK_IDX(loc[t].addr) \in Stripe
    BY AddEntryType, LockIdxType DEF TypeInv, TypeOK, Locals, LockWord
  <1> HIDE DEF e
  <1>2. Append(tx[t].w_set, e) \in Seq(WEntry)
    BY <1>1 DEF TypeInv, TypeOK, TxDesc
  <1>3. tx' \in [Tx -> TxDesc]
    BY <1>2, ZenonT(60) DEF StoreAcquire, e, TypeInv, TypeOK, TxDesc
  <1>4. lock' \in [Stripe -> LockWord]
    BY <1>1, OwnedByType DEF StoreAcquire, TypeInv, TypeOK
  <1> QED
    BY <1>3, <1>4, NoLocType
    DEF StoreAcquire, TypeInv, TypeOK, HistoryNewest, Goto, Clear, Label, aux

\* The locals of a thread that enters the next loop are locals.
LEMMA PassLocalsType ==
  ASSUME NEW c \in Locals, NEW i \in Nat \ {0}, NEW now \in Nat, NEW ts \in Nat,
         NEW for \in {"none", "extend", "commit", "irrevocable"}
  PROVE  /\ [c EXCEPT !.i = i, !.for = for, !.now = now, !.ts = ts] \in Locals
         /\ [c EXCEPT !.i = i, !.for = for, !.now = now] \in Locals
  BY DEF Locals

\* The scans start at a legal index.
LEMMA FirstIndex == 1 \in Nat \ {0} /\ 0 \in Nat
  OBVIOUS

\* StartValidate keeps labels and locals in their types.
LEMMA StartValidateType ==
  ASSUME TypeInv, NEW t \in Tx, NEW now \in Nat, NEW ts \in Nat,
         NEW for \in {"extend", "commit", "irrevocable"}, StartValidate(t, for, now, ts)
  PROVE  pc' \in [Tx -> Label] /\ loc' \in [Tx -> Locals]
  <1> DEFINE c == [loc[t] EXCEPT !.i = 1, !.for = for, !.now = now, !.ts = ts]
  <1>1. c \in Locals
    BY PassLocalsType, FirstIndex, ZenonT(60) DEF TypeInv, TypeOK
  <1>2. loc' = [loc EXCEPT ![t] = c]
    BY DEF StartValidate
  <1> HIDE DEF c
  <1>3. pc' \in [Tx -> Label]
    BY DEF StartValidate, Goto, Label, TypeInv, TypeOK
  <1> QED
    BY <1>1, <1>2, <1>3 DEF TypeInv, TypeOK

\* StartInstall keeps labels, locals and histories in their types.
LEMMA StartInstallType ==
  ASSUME TypeInv, NEW t \in Tx, NEW ts \in Nat, StartInstall(t, ts)
  PROVE  /\ pc' \in [Tx -> Label] /\ loc' \in [Tx -> Locals]
         /\ hist' \in [Addr -> SUBSET [version : Nat, value : Word]]
         /\ HistoryNewest'
  <1>1. tx[t].w_set \in Seq(WEntry)
    BY DEF TypeInv, TypeOK, TxDesc
  <1> DEFINE c == [loc[t] EXCEPT !.i = 1, !.for = "none", !.now = 0, !.ts = ts]
  <1>2. pc' \in [Tx -> Label] /\ loc' \in [Tx -> Locals]
    <2>1. c \in Locals
      BY PassLocalsType, FirstIndex, Zenon DEF TypeInv, TypeOK
    <2>2. loc' = [loc EXCEPT ![t] = c]
      BY DEF StartInstall
    <2> HIDE DEF c
    <2>3. pc' \in [Tx -> Label]
      BY DEF StartInstall, Goto, Label, TypeInv, TypeOK
    <2> QED
      BY <2>1, <2>2, <2>3 DEF TypeInv, TypeOK
  <1>3. hist' = Publish(tx[t].w_set, ts)
    BY DEF StartInstall
  <1> QED
    BY <1>1, <1>2, <1>3, PublishType DEF HistoryNewest

\* Committed keeps every variable in its type.
LEMMA CommittedType ==
  ASSUME TypeInv, NEW t \in Tx, Committed(t)
  PROVE  TypeInv'
  <1> DEFINE d == [tx[t] EXCEPT !.irrevocable = 0, !.r_set = <<>>, !.w_set = <<>>,
                                !.nb_acquired = 0, !.start = 0, !.end = 0]
  <1>1. <<>> \in Seq(REntry) /\ <<>> \in Seq(WEntry)
    OBVIOUS
  <1>2. d \in TxDesc
    <2>1. tx[t] \in TxDesc
      BY DEF TypeInv, TypeOK
    <2>2. [tx[t] EXCEPT !.r_set = <<>>, !.w_set = <<>>] \in TxDesc
      BY <1>1, <2>1 DEF TxDesc
    <2>3. ASSUME NEW e \in TxDesc, NEW x \in 0 .. 3
          PROVE  [e EXCEPT !.irrevocable = x, !.nb_acquired = 0, !.start = 0, !.end = 0] \in TxDesc
      BY DEF TxDesc
    <2>4. d = [[tx[t] EXCEPT !.r_set = <<>>, !.w_set = <<>>]
                  EXCEPT !.irrevocable = 0, !.nb_acquired = 0, !.start = 0, !.end = 0]
      BY <2>1 DEF TxDesc
    <2>5. 0 \in 0 .. 3
      OBVIOUS
    <2> DEFINE d1 == [tx[t] EXCEPT !.r_set = <<>>, !.w_set = <<>>]
    <2> HIDE DEF d1
    <2>6. [d1 EXCEPT !.irrevocable = 0, !.nb_acquired = 0, !.start = 0, !.end = 0] \in TxDesc
      BY <2>2, <2>3, <2>5, Zenon DEF d1
    <2> QED
      BY <2>4, <2>6 DEF d1
  <1>3. tx' = [tx EXCEPT ![t] = d]
    BY DEF Committed
  <1> HIDE DEF d
  <1>4. tx' \in [Tx -> TxDesc]
    BY <1>2, <1>3 DEF TypeInv, TypeOK
  <1>5. seen' \in [Tx -> SUBSET SeenEntry]
    BY DEF Committed, TypeInv, TypeOK
  <1>6. irrevocable' \in BOOLEAN
    BY DEF Committed, TypeInv, TypeOK
  <1> QED
    BY <1>4, <1>5, <1>6, NoLocType
    DEF Committed, TypeInv, TypeOK, HistoryNewest, Goto, Clear, Label

\* A loop that goes on to the next entry keeps the locals.
LEMMA NextIndexType ==
  ASSUME TypeInv, NEW t \in Tx, loc' = [loc EXCEPT ![t].i = loc[t].i + 1]
  PROVE  loc' \in [Tx -> Locals]
  <1>1. loc[t].i + 1 \in Nat \ {0}
    BY DEF TypeInv, TypeOK, Locals
  <1>2. ASSUME NEW n \in Nat \ {0}
        PROVE  [loc EXCEPT ![t].i = n] \in [Tx -> Locals]
    BY SMTT(40) DEF TypeInv, TypeOK, Locals
  <1> QED
    BY <1>1, <1>2

\* Another stage of irrevocability keeps the descriptors.
LEMMA IrrevocableType ==
  ASSUME TypeInv, NEW t \in Tx, NEW n \in 0 .. 3, tx' = [tx EXCEPT ![t].irrevocable = n]
  PROVE  tx' \in [Tx -> TxDesc]
  BY ZenonT(60) DEF TypeInv, TypeOK, TxDesc

\* A clock reset keeps every variable in its type, whoever is out of a transaction.
LEMMA RolloverType ==
  ASSUME TypeInv, NEW Outside, RolloverBut(Outside)
  PROVE  TypeInv'
  <1>1. hist' \in [Addr -> SUBSET [version : Nat, value : Word]] /\ HistoryNewest'
    <2>1. \A a \in Addr : /\ Latest(a) \in Word
                          /\ hist'[a] = {[version |-> 0, value |-> Latest(a)]}
      BY LatestType DEF RolloverBut
    <2>2. hist' \in [Addr -> SUBSET [version : Nat, value : Word]]
      BY <2>1 DEF RolloverBut
    <2>3. HistoryNewest'
      <3>1. ASSUME NEW a \in Addr, NEW h, NEW g, h \in hist'[a], g \in hist'[a]
            PROVE  g.version <= h.version
        BY <2>1, <3>1
      <3> QED
        BY <2>1, <3>1 DEF HistoryNewest
    <2> QED
      BY <2>2, <2>3
  <1>2. lock' \in [Stripe -> LockWord]
    BY TimestampType DEF RolloverBut
  <1>3. pc' \in [Tx -> Label]
    BY DEF RolloverBut, TypeInv, TypeOK, Label
  <1> QED
    BY <1>1, <1>2, <1>3 DEF RolloverBut, TypeInv, TypeOK

\* One step per action; the calls that lead to the same code share a lemma.
LEMMA TypeStep == TypeInv /\ [Next]_vars => TypeInv'
  <1> SUFFICES ASSUME TypeInv, [Next]_vars
               PROVE  TypeInv'
    OBVIOUS
  <1> USE DEF shared, aux
  <1>1. CASE UNCHANGED vars
    BY <1>1 DEF vars, TypeInv, TypeOK, HistoryNewest
  <1>2. CASE Rollover
    BY <1>2, RolloverType DEF Rollover
  <1>3. ASSUME NEW t \in Tx, Running(t)
        PROVE  TypeInv'
    <2>0. tx[t] \in TxDesc /\ loc[t] \in Locals
      BY DEF TypeInv, TypeOK
    <2>1. CASE PrepareBarrier(t)
      BY <2>1 DEF PrepareBarrier, TypeInv, TypeOK, HistoryNewest, Goto, Label
    <2>2. CASE Prepare(t)
      BY <2>2, PrepareType
    <2>3. CASE RollbackDrop(t)
      <3>1. loc' \in [Tx -> Locals]
        BY <2>3, NextIndexType DEF RollbackDrop
      <3> DEFINE w == tx[t].w_set
                 i == loc[t].i
      <3>2. lock' \in [Stripe -> LockWord]
        <4>1. i \in 1 .. Len(w)
          BY <2>0, <2>3 DEF RollbackDrop, Locals, TxDesc
        <4>2. w[i] \in WEntry
          BY <2>0, <4>1 DEF TxDesc
        <4>3. Timestamp(w[i].version) \in LockWord
          BY <4>2, TimestampType DEF WEntry
        <4> QED
          BY <2>3, <4>3 DEF RollbackDrop, TypeInv, TypeOK
      <3> QED
        BY <2>3, <3>1, <3>2 DEF RollbackDrop, TypeInv, TypeOK, HistoryNewest
    <2>4. CASE RollbackEnd(t)
      <3> DEFINE n == IF loc[t].for = "EXTEND_WS" THEN 2 * tx[t].size ELSE tx[t].size
      <3>1. n \in Nat /\ <<>> \in Seq(WEntry)
        BY <2>0 DEF TxDesc
      <3>2. tx' = [tx EXCEPT ![t].w_set = <<>>, ![t].size = n]
        BY <2>4 DEF RollbackEnd, stm_allocate_ws_entries
      <3> HIDE DEF n
      <3>3. tx' \in [Tx -> TxDesc]
        BY <3>1, <3>2, ZenonT(60) DEF TypeInv, TypeOK, TxDesc
      <3> QED
        BY <2>4, <3>3, NoLocType
        DEF RollbackEnd, TypeInv, TypeOK, HistoryNewest, Goto, Clear, Label
    <2>5. CASE ValidateEntry(t)
      <3>1. loc' \in [Tx -> Locals]
        BY <2>5, NextIndexType DEF ValidateEntry
      <3> QED
        BY <2>5, <3>1 DEF ValidateEntry, TypeInv, TypeOK, HistoryNewest
    <2>6. CASE ValidateFails(t)
      BY <2>6, PlainRollbackType DEF ValidateFails
    <2>7. CASE LoadAgain(t) \/ LoadRestart(t)
      BY <2>0, <2>7, ReadLockType DEF LoadAgain, LoadRestart, Locals
    <2>8. CASE LoadValue(t)
      <3>1. mem[loc[t].addr] \in Word
        BY <2>0 DEF TypeInv, TypeOK, Locals
      <3>2. loc' \in [Tx -> Locals]
        BY <2>8, <3>1, SMTT(40) DEF LoadValue, TypeInv, TypeOK, Locals
      <3> QED
        BY <2>8, <3>2 DEF LoadValue, TypeInv, TypeOK, HistoryNewest, Goto, Label
    <2>9. CASE LoadReturn(t) \/ LoadRecheck(t)
      BY <2>0, <2>9, ReturnLoadType, LogEntryType DEF LoadReturn, LoadRecheck, Locals
    <2>10. CASE LoadTooNew(t)
      <3>1. CASE Rollback(t, "VAL_READ")
        BY <3>1, PlainRollbackType
      <3>2. CASE ~Rollback(t, "VAL_READ")
        BY <2>10, <3>2 DEF LoadTooNew, TypeInv, TypeOK, HistoryNewest, Goto, Label
      <3> QED
        BY <3>1, <3>2
    <2>11. CASE Extend(t)
      <3>1. pc' \in [Tx -> Label] /\ loc' \in [Tx -> Locals]
        BY <2>11, StartValidateType DEF Extend, TypeInv, TypeOK
      <3> QED
        BY <2>11, <3>1 DEF Extend, TypeInv, TypeOK, HistoryNewest
    <2>12. CASE Extended(t)
      <3> DEFINE c == [loc[t] EXCEPT !.i = 1, !.for = "none", !.now = 0]
      <3>1. c \in Locals
        BY <2>0, PassLocalsType, FirstIndex, Zenon
      <3>5. loc[t].now \in Nat
        BY <2>0 DEF Locals
      <3>2. loc' = [loc EXCEPT ![t] = c]
        BY <2>12 DEF Extended
      <3> HIDE DEF c
      <3>3. loc' \in [Tx -> Locals]
        BY <3>1, <3>2 DEF TypeInv, TypeOK
      <3>4. tx' \in [Tx -> TxDesc]
        BY <2>12, <3>5, ZenonT(60) DEF Extended, TypeInv, TypeOK, TxDesc
      <3> QED
        BY <2>12, <3>3, <3>4 DEF Extended, TypeInv, TypeOK, HistoryNewest, Goto, Label
    <2>13. CASE StoreAgain(t)
      BY <2>0, <2>13, WriteLockType DEF StoreAgain, Locals
    <2>14. CASE StoreAcquire(t)
      BY <2>14, StoreAcquireType
    <2>15. CASE StoreCasFails(t)
      <3>1. loc' \in [Tx -> Locals]
        BY <2>15, TimestampType, SMTT(40) DEF StoreCasFails, TypeInv, TypeOK, Locals
      <3> QED
        BY <2>15, <3>1 DEF StoreCasFails, TypeInv, TypeOK, HistoryNewest, Goto, Label
    <2>16. CASE CommitClock(t)
      <3>0. clock' \in Nat /\ clock + 1 \in Nat
        BY <2>16 DEF CommitClock, TypeInv, TypeOK
      <3>1. CASE StartInstall(t, clock + 1)
        BY <2>16, <3>0, <3>1, StartInstallType DEF CommitClock, TypeInv, TypeOK
      <3>2. CASE StartValidate(t, "commit", 0, clock + 1) /\ UNCHANGED hist
        <4>1. pc' \in [Tx -> Label] /\ loc' \in [Tx -> Locals]
          BY <3>0, <3>2, StartValidateType
        <4> QED
          BY <2>16, <3>0, <3>2, <4>1 DEF CommitClock, TypeInv, TypeOK, HistoryNewest
      <3> QED
        BY <2>16, <3>1, <3>2 DEF CommitClock
    <2>17. CASE CommitValidated(t)
      <3>1. loc[t].ts \in Nat
        BY <2>0 DEF Locals
      <3> QED
        BY <2>17, <3>1, StartInstallType DEF CommitValidated, TypeInv, TypeOK
    <2>18. CASE Install(t)
      <3>1. tx[t].w_set[loc[t].i] \in WEntry
        BY <2>0, <2>18, SMTT(40) DEF Install, Locals, TxDesc
      <3>2. mem' \in [Addr -> Word]
        BY <2>18, <3>1 DEF Install, TypeInv, TypeOK, WEntry
      <3> QED
        BY <2>18, <3>2, Zenon DEF Install, TypeInv, TypeOK, HistoryNewest, Goto, Label
    <2>19. CASE Drop(t)
      <3>1. loc' \in [Tx -> Locals]
        BY <2>19, NextIndexType DEF Drop
      <3>2. lock' \in [Stripe -> LockWord]
        BY <2>0, <2>19, TimestampType DEF Drop, TypeInv, TypeOK, Locals
      <3> QED
        BY <2>19, <3>1, <3>2 DEF Drop, TypeInv, TypeOK, HistoryNewest, Goto, Label
    <2>20. CASE CommitEnd(t)
      BY <2>20, CommittedType DEF CommitEnd
    <2>21. CASE IrrevocableValidated(t)
      <3>1. tx' \in [Tx -> TxDesc]
        BY <2>21, IrrevocableType, 3 \in 0 .. 3 DEF IrrevocableValidated
      <3> QED
        BY <2>21, <3>1, NoLocType
        DEF IrrevocableValidated, TypeInv, TypeOK, HistoryNewest, Goto, Clear, Label
    <2>22. CASE AcquireIrrevocable(t)
      <3>1. tx' \in [Tx -> TxDesc]
        BY <2>22, IrrevocableType, 3 \in 0 .. 3 DEF AcquireIrrevocable
      <3> QED
        BY <2>22, <3>1 DEF AcquireIrrevocable, TypeInv, TypeOK, HistoryNewest, Goto, Label
    <2> QED
      BY <1>3, <2>1, <2>2, <2>3, <2>4, <2>5, <2>6, <2>7, <2>8, <2>9, <2>10, <2>11, <2>12,
         <2>13, <2>14, <2>15, <2>16, <2>17, <2>18, <2>19, <2>20, <2>21, <2>22
      DEF Running
  <1>4. ASSUME NEW t \in Tx, Call(t)
        PROVE  TypeInv'
    <2>1. CASE Start(t)
      <3>1. tx' \in [Tx -> TxDesc]
        <4>1. PICK ro \in BOOLEAN, ne \in BOOLEAN :
                 tx' = [tx EXCEPT ![t].read_only = ro, ![t].no_extend = ne]
          BY <2>1 DEF Start
        <4> QED
          BY <4>1, ZenonT(60) DEF TypeInv, TypeOK, TxDesc
      <3> QED
        BY <2>1, <3>1 DEF Start, TypeInv, TypeOK, HistoryNewest, Goto, Label
    <2>2. CASE Load(t)
      BY <2>2, ReadLockType DEF Load
    <2>3. CASE Store(t)
      <3>1. \A w \in Stores[t], m \in Mask : w \in Word /\ m \in SUBSET Byte
        BY StmAssumption
      <3> QED
        BY <2>3, <3>1, WriteLockType DEF Store
    <2>4. CASE CommitReadOnly(t)
      BY <2>4, CommittedType DEF CommitReadOnly
    <2>5. CASE Commit(t)
      <3>1. CASE Rollback(t, "IRREVOCABLE")
        BY <3>1, PlainRollbackType
      <3>2. CASE ~Rollback(t, "IRREVOCABLE")
        BY <2>5, <3>2 DEF Commit, TypeInv, TypeOK, HistoryNewest, Goto, Label
      <3> QED
        BY <3>1, <3>2
    <2>6. CASE UserAbort(t)
      BY <2>6, PlainRollbackType DEF UserAbort
    <2>7. CASE RequestIrrevocable(t)
      <3>1. tx' \in [Tx -> TxDesc]
        BY <2>7, IrrevocableType, 1 \in 0 .. 3 DEF RequestIrrevocable
      <3> QED
        BY <2>7, <3>1 DEF RequestIrrevocable, TypeInv, TypeOK, HistoryNewest
    <2>8. CASE SetIrrevocable(t)
      <3>1. tx' \in [Tx -> TxDesc]
        BY <2>8, IrrevocableType, 2 \in 0 .. 3 DEF SetIrrevocable
      <3>2. pc' \in [Tx -> Label] /\ loc' \in [Tx -> Locals]
        BY <2>8, StartValidateType DEF SetIrrevocable
      <3> QED
        BY <2>8, <3>1, <3>2 DEF SetIrrevocable, TypeInv, TypeOK, HistoryNewest
    <2>9. CASE SetIrrevocableFails(t)
      BY <2>9, RollbackType DEF SetIrrevocableFails
    <2> QED
      BY <1>4, <2>1, <2>2, <2>3, <2>4, <2>5, <2>6, <2>7, <2>8, <2>9 DEF Call
  <1> QED
    BY <1>1, <1>2, <1>3, <1>4 DEF Next

\* The initial states have their types.
LEMMA TypeInit == Init => TypeInv
  <1> SUFFICES ASSUME Init
               PROVE  TypeInv
    OBVIOUS
  <1>1. lock \in [Stripe -> LockWord]
    BY TimestampType DEF Init
  <1>2. tx \in [Tx -> TxDesc]
    BY StmAssumption DEF Init, TxDesc
  <1>3. mem \in [Addr -> Word]
    BY StmAssumption DEF Init
  <1>4. \A a \in Addr : hist[a] = {[version |-> 0, value |-> mem[a]]}
    BY DEF Init
  <1>5. hist \in [Addr -> SUBSET [version : Nat, value : Word]]
    BY <1>3, <1>4 DEF Init
  <1>6. ASSUME NEW a \in Addr
        PROVE  \E h \in hist[a] : \A g \in hist[a] : g.version <= h.version
    <2> DEFINE h0 == [version |-> 0, value |-> mem[a]]
    <2>1. h0 \in hist[a] /\ \A g \in hist[a] : g = h0
      BY <1>4
    <2>2. h0.version <= h0.version
      OBVIOUS
    <2> QED
      BY <2>1, <2>2
  <1>7. HistoryNewest
    BY <1>6 DEF HistoryNewest
  <1> QED
    BY <1>1, <1>2, <1>3, <1>5, <1>7, NoLocType DEF Init, TypeInv, TypeOK, Label

\* Every reachable state has the library's types: whatever the number of threads,
\* addresses and locks, and whatever the application stores and asks for.
THEOREM Types == Spec => []TypeOK
  <1>1. TypeInv => TypeOK
    BY DEF TypeInv
  <1> QED
    BY <1>1, TypeInit, TypeStep, PTL DEF Spec

-----------------------------------------------------------------------------
(* Lock ownership.  LockOwner is not inductive alone: the loops of commit and
   rollback must stay within the write set, the compare-and-swap must only ever
   replace a version, and a thread between two attempts has no entries. *)

Between == {"idle", "prepare", "barrier", "irr_spin"}
Loops   == {"install", "drop", "rollback"}

ThreadInv(t) ==
    /\ pc[t] \in Between => tx[t].w_set = <<>>
    /\ pc[t] = "store_cas" => loc[t].l.owner = NoTx
    /\ pc[t] \in Loops => loc[t].i <= Len(tx[t].w_set) + 1
    /\ pc[t] = "drop" => loc[t].i <= Len(tx[t].w_set)

LockInv == TypeInv /\ LockOwner /\ \A t \in Tx : ThreadInv(t)

Others(t) == \A u \in Tx \ {t} : tx'[u] = tx[u] /\ pc'[u] = pc[u] /\ loc'[u] = loc[u]

\* An index into a write set names an entry.
LEMMA EntryType ==
  ASSUME TypeInv, NEW t \in Tx
  PROVE  /\ tx[t].w_set \in Seq(WEntry)
         /\ Len(tx[t].w_set) \in Nat
         /\ \A j \in 1 .. Len(tx[t].w_set) : /\ tx[t].w_set[j] \in WEntry
                                             /\ LOCK_IDX(tx[t].w_set[j].addr) \in Stripe
         /\ loc[t] \in Locals /\ loc[t].i \in Nat \ {0}
  <1>1. tx[t] \in TxDesc /\ loc[t] \in Locals
    BY DEF TypeInv, TypeOK
  <1>2. tx[t].w_set \in Seq(WEntry) /\ loc[t].i \in Nat \ {0}
    BY <1>1 DEF TxDesc, Locals
  <1>3. \A j \in 1 .. Len(tx[t].w_set) : tx[t].w_set[j] \in WEntry
    BY <1>2
  <1>4. \A e \in WEntry : LOCK_IDX(e.addr) \in Stripe
    BY LockIdxType DEF WEntry
  <1> QED
    BY <1>1, <1>2, <1>3, <1>4

\* What one transaction releases, another does not hold.
LEMMA OthersHeld ==
  ASSUME NEW t \in Tx, Others(t), NEW u \in Tx \ {t}, LockInv
  PROVE  Held(u)' = Held(u) /\ ThreadInv(u)'
  BY SMTT(40) DEF Others, Held, Undropped, ThreadInv, LockInv

\* Most steps touch neither the lock words nor the entries.
LEMMA LockFrame ==
  ASSUME LockInv, TypeInv', NEW t \in Tx, Others(t), lock' = lock,
         Held(t)' = Held(t), ThreadInv(t)'
  PROVE  LockInv'
  <1>1. \A u \in Tx : Held(u)' = Held(u) /\ ThreadInv(u)'
    BY OthersHeld
  <1> QED
    BY <1>1 DEF LockInv, LockOwner

\* Entries that do not change keep their locks.
LEMMA SameEntries ==
  ASSUME LockInv, TypeInv', NEW t \in Tx, Others(t), lock' = lock,
         tx'[t].w_set = tx[t].w_set, Undropped(t)' = Undropped(t), ThreadInv(t)'
  PROVE  LockInv'
  <1>1. Held(t)' = Held(t)
    BY DEF Held
  <1> QED
    BY <1>1, LockFrame

\* Within an attempt, outside of the loops.
LEMMA Moves ==
  ASSUME LockInv, TypeInv', NEW t \in Tx, Others(t), lock' = lock,
         tx'[t].w_set = tx[t].w_set,
         pc[t] \notin Loops \cup Between, pc'[t] \notin Loops \cup Between \cup {"store_cas"}
  PROVE  LockInv'
  BY SameEntries DEF Undropped, ThreadInv, Loops, Between

\* Entering a loop at its first entry.
LEMMA EntersLoop ==
  ASSUME LockInv, TypeInv', NEW t \in Tx, Others(t), lock' = lock,
         tx'[t].w_set = tx[t].w_set, pc[t] \notin Loops,
         pc'[t] \in {"install", "rollback"}, loc'[t].i = 1
  PROVE  LockInv'
  <1>1. Undropped(t)' = Undropped(t)
    BY DEF Undropped, Loops
  <1>2. Len(tx[t].w_set) \in Nat
    BY EntryType DEF LockInv
  <1>3. ThreadInv(t)'
    BY <1>2 DEF ThreadInv, Loops, Between
  <1> QED
    BY <1>1, <1>3, SameEntries

\* Rollback keeps LockInv.
LEMMA RollbackLocks ==
  ASSUME LockInv, TypeInv', NEW t \in Tx, NEW r, NEW irr, pc[t] \notin Loops,
         RollbackAs(t, r, irr)
  PROVE  LockInv'
  <1>1. /\ Others(t)
        /\ tx'[t].w_set = tx[t].w_set
        /\ pc'[t] = "rollback"
        /\ lock' = lock
    BY DEF RollbackAs, Goto, Others, LockInv, TypeInv, TypeOK, TxDesc, shared
  <1>2. loc'[t].i = 1
    BY DEF RollbackAs, LockInv, TypeInv, TypeOK, NoLoc
  <1> QED
    BY <1>1, <1>2, EntersLoop

\* PlainRollback keeps LockInv.
LEMMA PlainRollbackLocks ==
  ASSUME LockInv, TypeInv', NEW t \in Tx, NEW r, pc[t] \notin Loops, Rollback(t, r)
  PROVE  LockInv'
  BY RollbackLocks DEF Rollback

\* Passing an entry in a loop drops its lock iff it is the lock's last entry.
Passes(t, v) ==
    lock' = IF IsLast(tx[t].w_set, loc[t].i)
            THEN [lock EXCEPT ![LOCK_IDX(tx[t].w_set[loc[t].i].addr)] = Timestamp(v)]
            ELSE lock

\* A pass of a loop over one entry keeps LockInv: its lock is held or given back.
LEMMA PassEntry ==
  ASSUME LockInv, TypeInv', NEW t \in Tx, Others(t), NEW v,
         pc[t] \in Loops, pc'[t] \in Loops \ {"drop"},
         loc[t].i <= Len(tx[t].w_set), loc'[t].i = loc[t].i + 1,
         tx'[t].w_set = tx[t].w_set,
         Passes(t, v)
  PROVE  LockInv'
  <1> DEFINE w == tx[t].w_set
             i == loc[t].i
             s0 == LOCK_IDX(w[i].addr)
  <1>1. i \in 1 .. Len(w) /\ Len(w) \in Nat /\ s0 \in Stripe
    BY EntryType DEF LockInv
  <1>2. /\ Held(t)  = {LOCK_IDX(w[j].addr) : j \in i .. Len(w)}
        /\ Held(t)' = {LOCK_IDX(w[j].addr) : j \in i + 1 .. Len(w)}
    BY DEF Held, Undropped, Loops
  <1>3. lock[s0].owner = t
    BY <1>1, <1>2 DEF LockInv, LockOwner
  <1>4. ThreadInv(t)'
    BY <1>1 DEF ThreadInv, Loops, Between
  <1>5. \A u \in Tx \ {t} : Held(u)' = Held(u) /\ ThreadInv(u)'
    BY OthersHeld
  <1>6. CASE IsLast(w, i)
    <2>1. s0 \notin Held(t)' /\ Held(t) = Held(t)' \cup {s0}
      BY <1>1, <1>2, <1>6, SMTT(40) DEF IsLast
    <2>2. ASSUME NEW u \in Tx, NEW s \in Stripe
          PROVE  lock'[s].owner = u <=> s \in Held(u)'
      <3>1. lock'[s0].owner = NoTx /\ NoTx \notin Tx
        BY <1>1, <1>6, StmAssumption DEF Passes, Timestamp, LockInv, TypeInv, TypeOK
      <3>2. s # s0 => lock'[s] = lock[s]
        BY <1>6 DEF Passes
      <3>3. lock[s].owner = u <=> s \in Held(u)
        BY DEF LockInv, LockOwner
      <3>4. s \in Held(u)' <=> s \in Held(u) /\ s # s0
        <4>1. CASE u = t
          BY <2>1, <4>1
        <4>2. CASE u # t
          <5>1. s0 \notin Held(u)
            BY <1>1, <1>3, <4>2 DEF LockInv, LockOwner
          <5> QED
            BY <1>5, <4>2, <5>1
        <4> QED
          BY <4>1, <4>2
      <3> HIDE DEF s0
      <3> QED
        BY <3>1, <3>2, <3>3, <3>4
    <2> QED
      BY <1>4, <1>5, <2>2 DEF LockInv, LockOwner
  <1>7. CASE ~IsLast(w, i)
    <2>1. PICK j \in i + 1 .. Len(w) : LOCK_IDX(w[j].addr) = s0
      BY <1>7 DEF IsLast
    <2>2. Held(t)' = Held(t)
      BY <1>1, <1>2, <2>1, SMTT(40)
    <2> QED
      BY <1>4, <1>7, <2>2, LockFrame DEF Passes
  <1> QED
    BY <1>6, <1>7

\* The stripes of a write set with one more entry.
LEMMA AppendLocks ==
  ASSUME NEW ws \in Seq(WEntry), NEW e \in WEntry
  PROVE  {LOCK_IDX(Append(ws, e)[k].addr) : k \in 1 .. Len(Append(ws, e))}
           = {LOCK_IDX(ws[k].addr) : k \in 1 .. Len(ws)} \cup {LOCK_IDX(e.addr)}
  <1> DEFINE nw == Append(ws, e)
  <1>1. /\ Len(ws) \in Nat
        /\ Len(nw) = Len(ws) + 1
        /\ \A k \in 1 .. Len(ws) : nw[k] = ws[k]
        /\ nw[Len(ws) + 1] = e
    OBVIOUS
  <1> HIDE DEF nw
  <1>2. 1 .. Len(nw) = (1 .. Len(ws)) \cup {Len(ws) + 1}
    BY <1>1
  <1>3. {LOCK_IDX(nw[k].addr) : k \in (1 .. Len(ws)) \cup {Len(ws) + 1}}
          = {LOCK_IDX(ws[k].addr) : k \in 1 .. Len(ws)} \cup {LOCK_IDX(e.addr)}
    <2>1. ASSUME NEW s, s \in {LOCK_IDX(nw[k].addr) : k \in (1 .. Len(ws)) \cup {Len(ws) + 1}}
          PROVE  s \in {LOCK_IDX(ws[k].addr) : k \in 1 .. Len(ws)} \cup {LOCK_IDX(e.addr)}
      BY <1>1, <2>1, Zenon
    <2>2. ASSUME NEW s, s \in {LOCK_IDX(ws[k].addr) : k \in 1 .. Len(ws)} \cup {LOCK_IDX(e.addr)}
          PROVE  s \in {LOCK_IDX(nw[k].addr) : k \in (1 .. Len(ws)) \cup {Len(ws) + 1}}
      BY <1>1, <2>2, Zenon
    <2> QED
      BY <2>1, <2>2
  <1> QED
    BY <1>2, <1>3 DEF nw

\* ReturnLoad keeps LockInv.
LEMMA ReturnLoadLocks ==
  ASSUME LockInv, TypeInv', NEW t \in Tx, NEW a, NEW v, NEW log,
         pc[t] \notin Loops \cup Between, ReturnLoad(t, a, v, {}, log)
  PROVE  LockInv'
  <1>1. /\ Others(t)
        /\ tx'[t].w_set = tx[t].w_set
        /\ pc'[t] = "active"
        /\ lock' = lock
    BY DEF ReturnLoad, Goto, Clear, Others, LockInv, TypeInv, TypeOK, TxDesc, shared
  <1> QED
    BY <1>1, Moves DEF Loops, Between

\* ReadLock keeps LockInv.
LEMMA ReadLockLocks ==
  ASSUME LockInv, TypeInv', NEW t \in Tx, NEW a, NEW l, pc[t] \notin Loops \cup Between,
         ReadLock(t, a, l)
  PROVE  LockInv'
  <1>1. CASE ReturnLoad(t, a, mem[a], {}, <<>>)
    BY <1>1, ReturnLoadLocks
  <1>2. CASE Rollback(t, "RW_CONFLICT")
    BY <1>2, PlainRollbackLocks
  <1>3. CASE ~ReturnLoad(t, a, mem[a], {}, <<>>) /\ ~Rollback(t, "RW_CONFLICT")
    <2>1. /\ Others(t)
          /\ tx' = tx
          /\ pc'[t] \in {"active", "load", "load_value"}
          /\ lock' = lock
      BY <1>3 DEF ReadLock, LoadOwn, LoadConflict, LoadFree, Goto, Clear, Others,
                  LockInv, TypeInv, TypeOK, shared
    <2> QED
      BY <2>1, Moves DEF Loops, Between
  <1> QED
    BY <1>1, <1>2, <1>3

\* An entry that joins the list of a lock we own, or changes in place.
LEMMA StoreOwnLocks ==
  ASSUME LockInv, TypeInv', NEW t \in Tx, NEW a \in Addr, NEW w \in Word, NEW m \in SUBSET Byte,
         pc[t] \notin Loops \cup Between, StoreOwn(t, a, w, m, lock[LOCK_IDX(a)])
  PROVE  LockInv'
  <1> DEFINE ws == tx[t].w_set
             Upd == [j \in 1 .. Len(ws) |->
                        IF j \in EntryOf(ws, a) THEN UpdateEntry(ws[j], a, w, m) ELSE ws[j]]
             Same == /\ Goto(t, "active")
                     /\ Clear(t)
                     /\ UNCHANGED <<shared, aux>>
  <1>1. /\ ws \in Seq(WEntry)
        /\ Len(ws) \in Nat
        /\ \A j \in 1 .. Len(ws) : ws[j] \in WEntry
    BY EntryType DEF LockInv
  <1>2. ASSUME Same, NEW nw, tx' = [tx EXCEPT ![t].w_set = nw],
               {LOCK_IDX(nw[j].addr) : j \in 1 .. Len(nw)} = {LOCK_IDX(ws[j].addr) : j \in 1 .. Len(ws)}
        PROVE  LockInv'
    <2>1. /\ Others(t)
          /\ tx'[t].w_set = nw
          /\ pc'[t] = "active"
          /\ lock' = lock
      BY <1>2 DEF Goto, Clear, Others, LockInv, TypeInv, TypeOK, TxDesc, shared
    <2>2. Held(t)' = Held(t) /\ ThreadInv(t)'
      BY <1>2, <2>1 DEF Held, Undropped, ThreadInv, Loops, Between
    <2> QED
      BY <2>1, <2>2, LockFrame
  <1>3. CASE Same /\ tx' = tx
    <2>1. Others(t) /\ pc'[t] = "active" /\ lock' = lock
      BY <1>3 DEF Goto, Clear, Others, LockInv, TypeInv, TypeOK, shared
    <2> QED
      BY <1>3, <2>1, Moves DEF Loops, Between
  <1>4. CASE Same /\ tx' = [tx EXCEPT ![t].w_set = Upd]
    <2>1. Len(Upd) = Len(ws)
      BY <1>1
    <2>2. \A j \in 1 .. Len(ws) : Upd[j].addr = ws[j].addr
      BY <1>1, UpdateEntryType DEF LockInv, TypeInv
    <2> HIDE DEF Upd
    <2>3. {LOCK_IDX(Upd[j].addr) : j \in 1 .. Len(Upd)} = {LOCK_IDX(ws[j].addr) : j \in 1 .. Len(ws)}
      BY <2>1, <2>2
    <2> QED
      BY <1>2, <1>4, <2>3
  <1>5. CASE Same /\ \E j \in Covered(ws, LOCK_IDX(a)) :
                        tx' = [tx EXCEPT ![t].w_set =
                                  Append(@, AddEntry(a, w, m, ws[j].version))]
    <2>1. PICK j \in Covered(ws, LOCK_IDX(a)) :
             tx' = [tx EXCEPT ![t].w_set = Append(ws, AddEntry(a, w, m, ws[j].version))]
      BY <1>5
    <2> DEFINE e == AddEntry(a, w, m, ws[j].version)
               nw == Append(ws, e)
    <2>2. e.addr = a /\ j \in 1 .. Len(ws) /\ LOCK_IDX(ws[j].addr) = LOCK_IDX(a)
      BY <2>1 DEF AddEntry, Covered
    <2> HIDE DEF e
    <2>3. e \in WEntry
      BY <1>1, <2>2, AddEntryType DEF e, LockInv, TypeInv, WEntry
    <2>4. {LOCK_IDX(nw[k].addr) : k \in 1 .. Len(nw)}
            = {LOCK_IDX(ws[k].addr) : k \in 1 .. Len(ws)} \cup {LOCK_IDX(a)}
      BY <1>1, <2>2, <2>3, AppendLocks
    <2>5. {LOCK_IDX(nw[k].addr) : k \in 1 .. Len(nw)} = {LOCK_IDX(ws[k].addr) : k \in 1 .. Len(ws)}
      BY <2>2, <2>4, Zenon
    <2> QED
      BY <1>2, <1>5, <2>1, <2>5 DEF e
  <1>6. CASE Rollback(t, "EXTEND_WS")
    BY <1>6, PlainRollbackLocks DEF Loops
  <1> QED
    BY <1>3, <1>4, <1>5, <1>6 DEF StoreOwn

\* WriteLock keeps LockInv.
LEMMA WriteLockLocks ==
  ASSUME LockInv, TypeInv', NEW t \in Tx, NEW a \in Addr, NEW w \in Word, NEW m \in SUBSET Byte,
         pc[t] \notin Loops \cup Between, WriteLock(t, a, w, m, lock[LOCK_IDX(a)])
  PROVE  LockInv'
  <1> DEFINE l == lock[LOCK_IDX(a)]
  <1>1. CASE StoreOwn(t, a, w, m, l)
    BY <1>1, StoreOwnLocks
  <1>2. CASE Rollback(t, "WW_CONFLICT") \/ Rollback(t, "VAL_WRITE") \/ Rollback(t, "EXTEND_WS")
    BY <1>2, PlainRollbackLocks
  <1>3. CASE StoreConflict(t, a, w, m, l) /\ ~Rollback(t, "WW_CONFLICT")
    <2>1. Others(t) /\ tx' = tx /\ pc'[t] = "store" /\ lock' = lock
      BY <1>3 DEF StoreConflict, Goto, Others, LockInv, TypeInv, TypeOK, shared
    <2> QED
      BY <2>1, Moves DEF Loops, Between
  <1>4. CASE StoreFree(t, a, w, m, l) /\ ~Rollback(t, "VAL_WRITE") /\ ~Rollback(t, "EXTEND_WS")
    <2>1. /\ Others(t) /\ tx' = tx /\ pc'[t] = "store_cas" /\ lock' = lock
          /\ l.owner = NoTx
          /\ loc'[t] = [NoLoc EXCEPT !.addr = a, !.value = w, !.mask = m, !.l = l]
      BY <1>4 DEF StoreFree, Goto, Others, LockInv, TypeInv, TypeOK, shared
    <2>2. loc'[t].l.owner = NoTx
      BY <2>1 DEF NoLoc
    <2>3. Undropped(t)' = Undropped(t) /\ ThreadInv(t)'
      BY <2>1, <2>2 DEF Undropped, ThreadInv, Loops, Between
    <2> QED
      BY <2>1, <2>3, SameEntries
  <1> QED
    BY <1>1, <1>2, <1>3, <1>4 DEF WriteLock

\* StoreAcquire keeps LockInv.
LEMMA StoreAcquireLocks ==
  ASSUME LockInv, TypeInv', NEW t \in Tx, StoreAcquire(t)
  PROVE  LockInv'
  <1> DEFINE ws == tx[t].w_set
             s0 == LOCK_IDX(loc[t].addr)
             e  == AddEntry(loc[t].addr, loc[t].value, loc[t].mask, loc[t].l.version)
             nw == Append(ws, e)
  <1>1. /\ ws \in Seq(WEntry)
        /\ Len(ws) \in Nat
        /\ s0 \in Stripe
        /\ e.addr = loc[t].addr
    BY EntryType, LockIdxType DEF LockInv, Locals, AddEntry
  <1>2. lock[s0].owner = NoTx /\ lock' = [lock EXCEPT ![s0] = OwnedBy(t)]
    BY DEF StoreAcquire, LockUnchanged, LockInv, ThreadInv
  <1>3. /\ Others(t)
        /\ tx'[t].w_set = nw
        /\ pc[t] = "store_cas"
        /\ pc'[t] = "active"
    BY DEF StoreAcquire, Goto, Clear, Others, LockInv, TypeInv, TypeOK, TxDesc
  <1>4. e \in WEntry
    BY EntryType, AddEntryType DEF LockInv, TypeInv, Locals, LockWord
  <1> HIDE DEF e
  <1>5. /\ Held(t)  = {LOCK_IDX(ws[j].addr) : j \in 1 .. Len(ws)}
        /\ Held(t)' = {LOCK_IDX(nw[j].addr) : j \in 1 .. Len(nw)}
    BY <1>3 DEF Held, Undropped
  <1>6. Held(t)' = Held(t) \cup {s0}
    BY <1>1, <1>4, <1>5, AppendLocks
  <1>7. ThreadInv(t)'
    BY <1>3 DEF ThreadInv, Loops, Between
  <1>8. \A u \in Tx \ {t} : Held(u)' = Held(u) /\ ThreadInv(u)'
    BY <1>3, OthersHeld
  <1>9. ASSUME NEW u \in Tx, NEW s \in Stripe
        PROVE  lock'[s].owner = u <=> s \in Held(u)'
    <2>1. lock[s].owner = u <=> s \in Held(u)
      BY DEF LockInv, LockOwner
    <2>2. lock'[s0].owner = t /\ NoTx \notin Tx
      BY <1>1, <1>2, StmAssumption DEF OwnedBy, LockInv, TypeInv, TypeOK
    <2>3. s # s0 => lock'[s] = lock[s]
      BY <1>2
    <2> QED
      BY <1>2, <1>6, <1>8, <2>1, <2>2, <2>3
  <1> QED
    BY <1>7, <1>8, <1>9 DEF LockInv, LockOwner

\* A thread that has dropped everything forgets its entries.
LEMMA ForgetsEntries ==
  ASSUME LockInv, TypeInv', NEW t \in Tx, Others(t), lock' = lock, Held(t) = {},
         tx'[t].w_set = <<>>, pc'[t] \in Between
  PROVE  LockInv'
  <1>1. Undropped(t)' = 1 /\ ThreadInv(t)'
    BY DEF Undropped, ThreadInv, Between, Loops
  <1>2. Held(t)' = {}
    BY <1>1 DEF Held
  <1> QED
    BY <1>1, <1>2, LockFrame

\* Committed keeps LockInv.
LEMMA CommittedLocks ==
  ASSUME LockInv, TypeInv', NEW t \in Tx, Committed(t), Held(t) = {}
  PROVE  LockInv'
  <1>2. Others(t) /\ tx'[t].w_set = <<>> /\ pc'[t] = "idle" /\ lock' = lock
    BY DEF Committed, Goto, Clear, Others, LockInv, TypeInv, TypeOK, TxDesc
  <1> QED
    BY <1>2, ForgetsEntries DEF Between

\* A clock reset keeps LockInv, whoever is out of a transaction.
LEMMA RolloverLocks ==
  ASSUME LockInv, TypeInv', NEW Outside, RolloverBut(Outside),
         \A t \in Tx \cap Outside : pc[t] = "idle"
  PROVE  LockInv'
  <1>1. ASSUME NEW t \in Tx
        PROVE  pc'[t] \in {"idle", "prepare"} /\ tx'[t].w_set = <<>>
    BY <1>1 DEF RolloverBut, LockInv, ThreadInv, Between
  <1>2. ASSUME NEW t \in Tx
        PROVE  Held(t)' = {} /\ ThreadInv(t)'
    BY <1>1 DEF Held, Undropped, ThreadInv, Between, Loops
  <1>3. \A s \in Stripe : lock'[s].owner = NoTx
    BY DEF RolloverBut, Timestamp
  <1> QED
    BY <1>2, <1>3, StmAssumption DEF LockInv, LockOwner

\* Every step keeps lock words and write sets in agreement.
LEMMA LockStep == LockInv /\ TypeInv' /\ [Next]_vars => LockInv'
  <1> SUFFICES ASSUME LockInv, TypeInv', [Next]_vars
               PROVE  LockInv'
    OBVIOUS
  <1> USE DEF shared, aux
  <1>0. TypeInv
    BY DEF LockInv
  <1>1. CASE UNCHANGED vars
    BY <1>1 DEF vars, LockInv, LockOwner, Held, Undropped, ThreadInv
  <1>2. CASE Rollover
    BY <1>2, RolloverLocks DEF Rollover
  <1>3. ASSUME NEW t \in Tx, Running(t)
        PROVE  LockInv'
    <2>0. /\ tx[t] \in TxDesc /\ loc[t] \in Locals
          /\ Len(tx[t].w_set) \in Nat /\ loc[t].i \in Nat \ {0}
      BY <1>0, EntryType DEF TypeInv, TypeOK
    <2>1. CASE PrepareBarrier(t)
      <3>1. Others(t) /\ tx' = tx /\ pc[t] = "prepare" /\ pc'[t] = "barrier" /\ lock' = lock
        BY <1>0, <2>1 DEF PrepareBarrier, Goto, Others, TypeInv, TypeOK
      <3>2. Undropped(t)' = Undropped(t) /\ ThreadInv(t)'
        BY <3>1 DEF Undropped, ThreadInv, Between, Loops, LockInv
      <3> QED
        BY <3>1, <3>2, SameEntries
    <2>2. CASE Prepare(t)
      <3>1. /\ Others(t) /\ tx'[t].w_set = tx[t].w_set /\ lock' = lock
            /\ pc[t] = "prepare" /\ pc'[t] \in {"irr_spin", "active"}
        BY <1>0, <2>2 DEF Prepare, Goto, Others, TypeInv, TypeOK, TxDesc
      <3>2. Undropped(t)' = Undropped(t) /\ ThreadInv(t)'
        BY <3>1 DEF Undropped, ThreadInv, Between, Loops, LockInv
      <3> QED
        BY <3>1, <3>2, SameEntries
    <2>3. CASE RollbackDrop(t)
      <3>1. /\ Others(t) /\ tx'[t].w_set = tx[t].w_set
            /\ pc[t] = "rollback" /\ pc'[t] = "rollback"
        BY <1>0, <2>3 DEF RollbackDrop, Others, TypeInv, TypeOK
      <3>2. loc[t].i <= Len(tx[t].w_set) /\ loc'[t].i = loc[t].i + 1
        BY <1>0, <2>0, <2>3 DEF RollbackDrop, TypeInv, TypeOK, Locals
      <3>3. Passes(t, tx[t].w_set[loc[t].i].version)
        BY <2>3 DEF RollbackDrop, Passes
      <3> QED
        BY <3>1, <3>2, <3>3, PassEntry DEF Loops
    <2>4. CASE RollbackEnd(t)
      <3>1. /\ Others(t) /\ tx'[t].w_set = <<>> /\ lock' = lock
            /\ pc[t] = "rollback" /\ pc'[t] = "prepare" /\ loc[t].i > Len(tx[t].w_set)
        BY <1>0, <2>4 DEF RollbackEnd, Goto, Clear, Others, TypeInv, TypeOK, TxDesc
      <3>2. Held(t) = {}
        BY <2>0, <3>1 DEF Held, Undropped
      <3> QED
        BY <3>1, <3>2, ForgetsEntries DEF Between
    <2>5. CASE ValidateEntry(t)
      <3>1. Others(t) /\ tx' = tx /\ pc[t] = "validate" /\ pc'[t] = "validate" /\ lock' = lock
        BY <1>0, <2>5 DEF ValidateEntry, Others, TypeInv, TypeOK
      <3> QED
        BY <3>1, Moves DEF Loops, Between
    <2>6. CASE ValidateFails(t)
      BY <2>6, PlainRollbackLocks DEF ValidateFails, Loops
    <2>7. CASE LoadAgain(t) \/ LoadRestart(t)
      BY <2>7, ReadLockLocks DEF LoadAgain, LoadRestart, Loops, Between
    <2>8. CASE LoadValue(t)
      <3>1. /\ Others(t) /\ tx' = tx /\ lock' = lock
            /\ pc[t] = "load_value" /\ pc'[t] = "load_relock"
        BY <1>0, <2>8 DEF LoadValue, Goto, Others, TypeInv, TypeOK
      <3> QED
        BY <3>1, Moves DEF Loops, Between
    <2>9. CASE LoadReturn(t) \/ LoadRecheck(t)
      BY <2>9, ReturnLoadLocks DEF LoadReturn, LoadRecheck, Loops, Between
    <2>10. CASE LoadTooNew(t)
      <3>1. CASE Rollback(t, "VAL_READ")
        BY <2>10, <3>1, PlainRollbackLocks DEF LoadTooNew, Loops
      <3>2. CASE ~Rollback(t, "VAL_READ")
        <4>1. /\ Others(t) /\ tx' = tx /\ lock' = lock
              /\ pc[t] = "load_relock" /\ pc'[t] = "extend"
          BY <1>0, <2>10, <3>2 DEF LoadTooNew, Goto, Others, TypeInv, TypeOK
        <4> QED
          BY <4>1, Moves DEF Loops, Between
      <3> QED
        BY <3>1, <3>2
    <2>11. CASE Extend(t)
      <3>1. /\ Others(t) /\ tx' = tx /\ lock' = lock
            /\ pc[t] = "extend" /\ pc'[t] = "validate"
        BY <1>0, <2>11 DEF Extend, StartValidate, Goto, Others, TypeInv, TypeOK
      <3> QED
        BY <3>1, Moves DEF Loops, Between
    <2>12. CASE Extended(t)
      <3>1. /\ Others(t) /\ tx'[t].w_set = tx[t].w_set /\ lock' = lock
            /\ pc[t] = "validate" /\ pc'[t] = "load_recheck"
        BY <1>0, <2>12 DEF Extended, Validated, Goto, Others, TypeInv, TypeOK, TxDesc
      <3> QED
        BY <3>1, Moves DEF Loops, Between
    <2>13. CASE StoreAgain(t)
      BY <2>0, <2>13, WriteLockLocks DEF StoreAgain, Locals, Loops, Between
    <2>14. CASE StoreAcquire(t)
      BY <2>14, StoreAcquireLocks
    <2>15. CASE StoreCasFails(t)
      <3>1. /\ Others(t) /\ tx' = tx /\ lock' = lock
            /\ pc[t] = "store_cas" /\ pc'[t] = "store"
        BY <1>0, <2>15 DEF StoreCasFails, Goto, Others, TypeInv, TypeOK
      <3> QED
        BY <3>1, Moves DEF Loops, Between
    <2>16. CASE CommitClock(t)
      <3>1. /\ Others(t) /\ tx' = tx /\ lock' = lock /\ pc[t] = "commit_clock"
        BY <1>0, <2>16
        DEF CommitClock, StartInstall, StartValidate, Goto, Others, TypeInv, TypeOK
      <3>2. CASE StartInstall(t, clock + 1)
        <4>1. pc'[t] = "install" /\ loc'[t].i = 1
          BY <1>0, <2>0, <3>2 DEF StartInstall, Goto, TypeInv, TypeOK, Locals
        <4> QED
          BY <3>1, <4>1, EntersLoop DEF Loops
      <3>3. CASE StartValidate(t, "commit", 0, clock + 1)
        <4>1. pc'[t] = "validate"
          BY <1>0, <3>3 DEF StartValidate, Goto, TypeInv, TypeOK
        <4> QED
          BY <3>1, <4>1, Moves DEF Loops, Between
      <3> QED
        BY <2>16, <3>2, <3>3 DEF CommitClock
    <2>17. CASE CommitValidated(t)
      <3>1. /\ Others(t) /\ tx' = tx /\ lock' = lock
            /\ pc[t] = "validate" /\ pc'[t] = "install"
        BY <1>0, <2>17
        DEF CommitValidated, Validated, StartInstall, Goto, Others, TypeInv, TypeOK
      <3>2. loc'[t].i = 1
        BY <1>0, <2>0, <2>17 DEF CommitValidated, StartInstall, TypeInv, TypeOK, Locals
      <3> QED
        BY <3>1, <3>2, EntersLoop DEF Loops
    <2>18. CASE Install(t)
      <3>1. /\ Others(t) /\ tx' = tx /\ lock' = lock /\ loc' = loc
            /\ pc[t] = "install" /\ pc'[t] = "drop" /\ loc[t].i <= Len(tx[t].w_set)
        BY <1>0, <2>18 DEF Install, Goto, Others, TypeInv, TypeOK
      <3>2. Undropped(t)' = Undropped(t) /\ ThreadInv(t)'
        BY <2>0, <3>1 DEF Undropped, ThreadInv, Between, Loops
      <3> QED
        BY <3>1, <3>2, SameEntries
    <2>19. CASE Drop(t)
      <3>1. /\ Others(t) /\ tx'[t].w_set = tx[t].w_set
            /\ pc[t] = "drop" /\ pc'[t] = "install"
        BY <1>0, <2>19 DEF Drop, Goto, Others, TypeInv, TypeOK
      <3>2. loc[t].i <= Len(tx[t].w_set) /\ loc'[t].i = loc[t].i + 1
        BY <1>0, <2>0, <2>19 DEF Drop, TypeInv, TypeOK, Locals, LockInv, ThreadInv
      <3>3. Passes(t, loc[t].ts)
        BY <2>19 DEF Drop, Passes
      <3> QED
        BY <3>1, <3>2, <3>3, PassEntry DEF Loops
    <2>20. CASE CommitEnd(t)
      <3>1. Committed(t) /\ loc[t].i > Len(tx[t].w_set) /\ pc[t] = "install"
        BY <2>20 DEF CommitEnd
      <3>2. Held(t) = {}
        BY <2>0, <3>1 DEF Held, Undropped
      <3> QED
        BY <3>1, <3>2, CommittedLocks
    <2>21. CASE IrrevocableValidated(t)
      <3>1. /\ Others(t) /\ tx'[t].w_set = tx[t].w_set /\ lock' = lock
            /\ pc[t] = "validate" /\ pc'[t] = "active"
        BY <1>0, <2>21
        DEF IrrevocableValidated, Validated, Goto, Clear, Others, TypeInv, TypeOK, TxDesc
      <3> QED
        BY <3>1, Moves DEF Loops, Between
    <2>22. CASE AcquireIrrevocable(t)
      <3>1. /\ Others(t) /\ tx'[t].w_set = tx[t].w_set /\ lock' = lock
            /\ pc[t] = "irr_spin" /\ pc'[t] = "active"
        BY <1>0, <2>22 DEF AcquireIrrevocable, Goto, Others, TypeInv, TypeOK, TxDesc
      <3>2. Undropped(t)' = Undropped(t) /\ ThreadInv(t)'
        BY <3>1 DEF Undropped, ThreadInv, Between, Loops
      <3> QED
        BY <3>1, <3>2, SameEntries
    <2> QED
      BY <1>3, <2>1, <2>2, <2>3, <2>4, <2>5, <2>6, <2>7, <2>8, <2>9, <2>10, <2>11, <2>12,
         <2>13, <2>14, <2>15, <2>16, <2>17, <2>18, <2>19, <2>20, <2>21, <2>22
      DEF Running
  <1>4. ASSUME NEW t \in Tx, Call(t)
        PROVE  LockInv'
    <2>1. CASE Start(t)
      <3>1. /\ Others(t) /\ tx'[t].w_set = tx[t].w_set /\ lock' = lock
            /\ pc[t] = "idle" /\ pc'[t] = "prepare"
        BY <1>0, <2>1 DEF Start, Goto, Others, TypeInv, TypeOK, TxDesc
      <3>2. Undropped(t)' = Undropped(t) /\ ThreadInv(t)'
        BY <3>1 DEF Undropped, ThreadInv, Between, Loops, LockInv
      <3> QED
        BY <3>1, <3>2, SameEntries
    <2>2. CASE Load(t)
      <3>1. PICK a \in Addr : pc[t] = "active" /\ ReadLock(t, a, lock[LOCK_IDX(a)])
        BY <2>2 DEF Load
      <3> QED
        BY <3>1, ReadLockLocks DEF Loops, Between
    <2>3. CASE Store(t)
      <3>1. \A w \in Stores[t], m \in Mask : w \in Word /\ m \in SUBSET Byte
        BY StmAssumption
      <3> QED
        <4>1. PICK a \in Addr, w \in Stores[t], m \in Mask :
                 pc[t] = "active" /\ WriteLock(t, a, w, m, lock[LOCK_IDX(a)])
          BY <2>3 DEF Store
        <4> QED
          BY <3>1, <4>1, WriteLockLocks DEF Loops, Between
    <2>4. CASE CommitReadOnly(t)
      <3>1. Committed(t) /\ tx[t].w_set = <<>> /\ pc[t] = "active"
        BY <2>4 DEF CommitReadOnly
      <3>2. Held(t) = {}
        BY <3>1 DEF Held, Undropped
      <3> QED
        BY <3>1, <3>2, CommittedLocks
    <2>5. CASE Commit(t)
      <3>1. CASE Rollback(t, "IRREVOCABLE")
        BY <2>5, <3>1, PlainRollbackLocks DEF Commit, Loops
      <3>2. CASE ~Rollback(t, "IRREVOCABLE")
        <4>1. /\ Others(t) /\ tx' = tx /\ lock' = lock
              /\ pc[t] = "active" /\ pc'[t] = "commit_clock"
          BY <1>0, <2>5, <3>2 DEF Commit, Goto, Others, TypeInv, TypeOK
        <4> QED
          BY <4>1, Moves DEF Loops, Between
      <3> QED
        BY <3>1, <3>2
    <2>6. CASE UserAbort(t)
      BY <2>6, PlainRollbackLocks DEF UserAbort, Loops
    <2>7. CASE RequestIrrevocable(t)
      <3>1. /\ Others(t) /\ tx'[t].w_set = tx[t].w_set /\ lock' = lock
            /\ pc[t] = "idle" /\ pc' = pc
        BY <1>0, <2>7 DEF RequestIrrevocable, Others, TypeInv, TypeOK, TxDesc
      <3>2. Undropped(t)' = Undropped(t) /\ ThreadInv(t)'
        BY <3>1 DEF Undropped, ThreadInv, Between, Loops, LockInv
      <3> QED
        BY <3>1, <3>2, SameEntries
    <2>8. CASE SetIrrevocable(t)
      <3>1. /\ Others(t) /\ tx'[t].w_set = tx[t].w_set /\ lock' = lock
            /\ pc[t] = "active" /\ pc'[t] = "validate"
        BY <1>0, <2>8
        DEF SetIrrevocable, StartValidate, Goto, Others, TypeInv, TypeOK, TxDesc
      <3> QED
        BY <3>1, Moves DEF Loops, Between
    <2>9. CASE SetIrrevocableFails(t)
      BY <2>9, RollbackLocks DEF SetIrrevocableFails, Loops
    <2> QED
      BY <1>4, <2>1, <2>2, <2>3, <2>4, <2>5, <2>6, <2>7, <2>8, <2>9 DEF Call
  <1> QED
    BY <1>1, <1>2, <1>3, <1>4 DEF Next

\* No lock is owned at the start.
LEMMA LockInit == Init => LockInv
  <1> SUFFICES ASSUME Init
               PROVE  LockInv
    OBVIOUS
  <1>1. \A t \in Tx : Held(t) = {} /\ ThreadInv(t)
    BY DEF Init, Held, Undropped, ThreadInv, Between, Loops
  <1>2. \A s \in Stripe : lock[s].owner = NoTx
    BY DEF Init, Timestamp
  <1> QED
    BY <1>1, <1>2, TypeInit, StmAssumption DEF LockInv, LockOwner

\* For any number of threads, addresses and locks: a lock names a transaction
\* exactly while the transaction's write set still has an entry for it to drop.
\* Hence two transactions never have entries under one lock, and commit and
\* rollback leak no lock, however conflicts, aborts and clock resets interleave.
THEOREM LockOwnership == Spec => []LockOwner
  <1>1. LockInv => LockOwner
    BY DEF LockInv
  <1>2. TypeInv /\ [Next]_vars => TypeInv'
    BY TypeStep
  <1>3. LockInv /\ [Next]_vars => LockInv'
    BY <1>2, LockStep DEF LockInv
  <1> QED
    BY <1>1, <1>3, LockInit, PTL DEF Spec

=============================================================================
