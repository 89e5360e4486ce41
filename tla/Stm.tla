-------------------------------- MODULE Stm --------------------------------
(***************************************************************************)
(* What the three designs of TinySTM (stm_wbetl.h, stm_wbctl.h, stm_wt.h)  *)
(* share: the data structures and the transaction life cycle of            *)
(* stm_internal.h, with CM_BACKOFF and IRREVOCABLE_ENABLED and asserts     *)
(* compiled out, and the properties every design must have.                *)
(*                                                                         *)
(* Every access to shared memory (a lock word, a data word, the clock, the *)
(* irrevocability flag) is a step of its own; what a thread does between   *)
(* two of them is local and belongs to the step before.  A spin loop is a  *)
(* step that stutters until the awaited value is there.                    *)
(***************************************************************************)
EXTENDS Integers, Sequences, FiniteSets

CONSTANTS
    Tx,               \* transaction descriptors, one per thread
    NoTx,             \* no owner
    LOCK_UNIT,        \* the owner while a unit store has the lock (UnitTx)
    Addr,             \* word-sized locations, numbered as words of memory
    WORDS_PER_LOCK,   \* consecutive words that hash to one lock
    LOCK_ARRAY_SIZE,  \* number of locks
    Byte,             \* the parts of a word that a mask can select
    Val,              \* values of such a part
    InitWord,         \* what memory holds at first
    Stores,           \* Stores[t]: the words that thread t's transactions store
    Mask,             \* masks the application stores with
    VERSION_MAX,      \* clock value from which on a starting transaction resets it
    RW_SET_SIZE,      \* initial capacity of the write set
    Features,         \* optional calls of the application, see AppFeature
    MaxLog            \* bound: entries an attempt may log in its read and write sets

AppFeature == {"read_only",    \* starts transactions with attr.read_only
               "ro_write",     \* stores in a transaction started read_only
               "no_extend",    \* starts transactions with attr.no_extend
               "set_extension",     \* calls stm_set_extension in a transaction
               "irrevocable",  \* calls stm_set_irrevocable(0) in a transaction
               "irrevocable_next",  \* ... or before it, for the next one
               "abort"}        \* calls stm_abort

Word   == [Byte -> Val]
Stripe == 0 .. LOCK_ARRAY_SIZE - 1

ASSUME StmAssumption ==
    /\ NoTx \notin Tx
    /\ LOCK_UNIT \notin Tx \cup {NoTx}
    /\ IsFiniteSet(Tx)
    /\ Addr \subseteq Nat /\ Addr # {}
    /\ WORDS_PER_LOCK \in Nat \ {0}
    /\ LOCK_ARRAY_SIZE \in Nat \ {0}
    /\ InitWord \in Word
    /\ Stores \in [Tx -> SUBSET Word]
    /\ Mask \subseteq SUBSET Byte
    /\ VERSION_MAX \in Nat \ {0}
    /\ RW_SET_SIZE \in Nat \ {0}
    /\ Features \subseteq AppFeature
    /\ MaxLog \in Nat

VARIABLES
    lock,         \* the lock array: a version, or the descriptor that owns it
    mem,          \* application memory
    clock,        \* the global version clock
    irrevocable,  \* global irrevocability flag (_tinystm.irrevocable)
    tx,           \* transaction descriptors (stm_tx_t)
    pc,           \* where each thread is
    loc,          \* C locals of the call each thread is in
    seen,         \* auxiliary: what each attempt loaded from memory
    hist          \* auxiliary: every committed version of every address

shared == <<lock, mem, clock, irrevocable>>
aux    == <<seen, hist>>
vars   == <<lock, mem, clock, irrevocable, tx, pc, loc, seen, hist>>

-----------------------------------------------------------------------------
(* Words, locks and read/write sets *)

\* LOCK_IDX: the lock that covers an address.
LOCK_IDX(a) == (a \div WORDS_PER_LOCK) % LOCK_ARRAY_SIZE

\* A free lock word holds a timestamp and, in the write-through design, an
\* incarnation number; a taken one the address of an entry of its owner.
LockWord == [owner : Tx \cup {NoTx, LOCK_UNIT}, version : Nat, incarnation : Nat]
Timestamp(v) == [owner |-> NoTx, version |-> v, incarnation |-> 0]
OwnedBy(t)   == [owner |-> t, version |-> 0, incarnation |-> 0]

\* (old & ~mask) | (new & mask)
Merge(old, new, m) == [b \in Byte |-> IF b \in m THEN new[b] ELSE old[b]]

REntry == [lock : Stripe, version : Nat]
WEntry == [addr : Addr, mask : SUBSET Byte, value : Word, version : Nat,
           incarnation : Nat,       \* with the version: the lock word (write-through)
           no_drop : BOOLEAN]       \* commit has not taken the lock (commit-time locking)

\* The linked list of a lock's entries holds them in the order of the write
\* set: an entry has no successor iff no later entry has its lock.
IsLast(w, i) == \A j \in i + 1 .. Len(w) : LOCK_IDX(w[j].addr) # LOCK_IDX(w[i].addr)
Covered(w, s) == {j \in 1 .. Len(w) : LOCK_IDX(w[j].addr) = s}
EntryOf(w, a) == {j \in 1 .. Len(w) : w[j].addr = a}

\* stm_has_read
HasRead(r, s) == \E j \in 1 .. Len(r) : r[j].lock = s

a0 == CHOOSE a \in Addr : TRUE
NoLoc == [addr |-> a0, value |-> InitWord, mask |-> {}, l |-> Timestamp(0),
          now |-> 0, ts |-> 0, i |-> 1, for |-> "none"]

Label == {"idle", "prepare", "barrier", "irr_spin", "active", "load", "load_value",
          "load_relock", "extend", "validate", "load_recheck", "store", "store_cas",
          "store_mem", "acquire", "acquire_cas", "commit_clock", "install", "drop",
          "rollback", "undrop"}

-----------------------------------------------------------------------------
(* The committed history, which the properties compare the code with *)

Newest(H) == CHOOSE h \in H : \A g \in H : g.version <= h.version
\* The value of address a in the state that commits up to time n produced.
Snapshot(a, n) == Newest({h \in hist[a] : h.version <= n}).value
Latest(a) == Newest(hist[a]).value
\* A loaded word agrees with word w in the bytes that came from memory.
Matches(r, w) == \A b \in Byte \ r.own : r.value[b] = w[b]

\* hist after the write-back of the write set w with timestamp ts: a commit changes
\* the bytes it stored.
Publish(w, ts) ==
    [a \in Addr |->
        hist[a] \cup {[version |-> ts, value |-> Merge(mem[a], w[j].value, w[j].mask)] :
                          j \in {k \in EntryOf(w, a) : w[k].mask # {}}}]

-----------------------------------------------------------------------------
(* Starting an attempt *)

Goto(t, label) == pc' = [pc EXCEPT ![t] = label]
Clear(t) == loc' = [loc EXCEPT ![t] = NoLoc]

\* int_stm_start: top-level start (nesting is flat).
Start(t) ==
    /\ pc[t] = "idle"
    /\ \E ro, ne \in BOOLEAN :
          /\ ro => "read_only" \in Features
          /\ ne => "no_extend" \in Features
          /\ tx' = [tx EXCEPT ![t].read_only = ro, ![t].no_extend = ne]
    /\ Goto(t, "prepare")
    /\ UNCHANGED <<shared, loc, aux>>

\* int_stm_prepare when the clock has reached VERSION_MAX: block on the barrier.
PrepareBarrier(t) ==
    /\ pc[t] = "prepare"
    /\ clock >= VERSION_MAX
    /\ Goto(t, "barrier")
    /\ UNCHANGED <<shared, tx, loc, aux>>

\* stm_quiesce_barrier and rollover_clock: once every thread is blocked, those
\* outside of a transaction included, the last one resets clock and locks and
\* transactions prepare again.  The history is rebased: only the current value of
\* an address survives.
RolloverBut(Outside) ==
    /\ Tx # {}
    /\ \A t \in Tx \ Outside : pc[t] = "barrier"
    /\ clock' = 0
    /\ lock' = [s \in Stripe |-> Timestamp(0)]
    /\ pc' = [t \in Tx |-> IF t \in Outside THEN pc[t] ELSE "prepare"]
    /\ hist' = [a \in Addr |-> {[version |-> 0, value |-> Latest(a)]}]
    /\ UNCHANGED <<mem, irrevocable, tx, loc, seen>>

Rollover == RolloverBut({})

\* Mutant: the reset starts one tick late.
BugPrepare(t) ==
    /\ pc[t] = "prepare"
    /\ clock <= VERSION_MAX
    /\ tx' = [tx EXCEPT ![t].start = clock, ![t].end = clock,
                        ![t].irrevocable = IF @ = 2 THEN 3 ELSE @]
    /\ Goto(t, IF tx[t].irrevocable = 1 THEN "irr_spin" ELSE "active")
    /\ UNCHANGED <<shared, loc, aux>>

\* int_stm_prepare otherwise.  A descriptor that already owns irrevocability
\* (2) enters the mode at once, one that asked for it (1) must acquire it.
Prepare(t) ==
    /\ pc[t] = "prepare"
    /\ clock < VERSION_MAX
    /\ tx' = [tx EXCEPT ![t].start = clock, ![t].end = clock,
                        ![t].irrevocable = IF @ = 2 THEN 3 ELSE @]
    /\ Goto(t, IF tx[t].irrevocable = 1 THEN "irr_spin" ELSE "active")
    /\ UNCHANGED <<shared, loc, aux>>

-----------------------------------------------------------------------------
(* Rollback, validation, loads and stores: the steps that the designs share *)

\* stm_rollback starts; only STM_ABORT_EXTEND_WS has a consequence of its own.
\* int_stm_prepare will reset the read set and the snapshot; nothing reads them
\* before, so the model forgets them here (and in Committed).
RollbackAs(t, reason, irr) ==
    /\ Goto(t, "rollback")
    /\ loc' = [loc EXCEPT ![t] = [NoLoc EXCEPT !.for =
                                     IF reason = "EXTEND_WS" THEN reason ELSE "none"]]
    /\ tx' = [tx EXCEPT ![t].r_set = <<>>, ![t].start = 0, ![t].end = 0, ![t].irrevocable = irr]
    /\ seen' = [seen EXCEPT ![t] = {}]
    /\ UNCHANGED <<shared, hist>>

Rollback(t, reason) == RollbackAs(t, reason, tx[t].irrevocable)

\* The array is replaced by one of twice the size that holds the same entries.
stm_allocate_ws_entries(size) == 2 * size

\* The rest of stm_rollback: grow the write set if that was the reason, restart.
RollbackEnd(t) ==
    /\ pc[t] = "rollback"
    /\ loc[t].i > Len(tx[t].w_set)
    /\ tx' = [tx EXCEPT ![t].w_set = <<>>,
                        ![t].size = IF loc[t].for = "EXTEND_WS"
                                    THEN stm_allocate_ws_entries(@) ELSE @]
    /\ Goto(t, "prepare")
    /\ Clear(t)
    /\ UNCHANGED <<shared, aux>>

\* stm_abort (not to be called in irrevocable mode).
UserAbort(t) ==
    /\ "abort" \in Features
    /\ pc[t] = "active"
    /\ tx[t].irrevocable = 0
    /\ Rollback(t, "EXPLICIT")

StartValidate(t, for, now, ts) ==
    /\ Goto(t, "validate")
    /\ loc' = [loc EXCEPT ![t].i = 1, ![t].for = for, ![t].now = now, ![t].ts = ts]

Validated(t, for) ==
    /\ pc[t] = "validate"
    /\ loc[t].for = for
    /\ loc[t].i > Len(tx[t].r_set)

\* Return value v of address a, loaded from memory but for the bytes own of the
\* write set; log records it in the read set.
ReturnLoad(t, a, v, own, log) ==
    /\ seen' = [seen EXCEPT ![t] = @ \cup {[addr |-> a, value |-> v, own |-> own]}]
    /\ tx' = [tx EXCEPT ![t].r_set = @ \o log]
    /\ Goto(t, "active")
    /\ Clear(t)
    /\ UNCHANGED <<shared, hist>>

LogRoom(t) == Len(tx[t].r_set) + Len(tx[t].w_set) < MaxLog

LoadValue(t) ==
    /\ pc[t] = "load_value"
    /\ loc' = [loc EXCEPT ![t].value = mem[loc[t].addr]]
    /\ Goto(t, "load_relock")
    /\ UNCHANGED <<shared, tx, aux>>

LockUnchanged(t) == lock[LOCK_IDX(loc[t].addr)] = loc[t].l

\* The read set entry: none in irrevocable mode and in read-only transactions.
LogEntry(t) ==
    IF tx[t].irrevocable # 0 \/ tx[t].read_only
    THEN <<>>
    ELSE <<[lock |-> LOCK_IDX(loc[t].addr), version |-> loc[t].l.version]>>

LoadTooNew(t) ==
    /\ pc[t] = "load_relock"
    /\ LockUnchanged(t)
    /\ tx[t].irrevocable = 0
    /\ loc[t].l.version > tx[t].end
    /\ \/ /\ tx[t].read_only \/ tx[t].no_extend
          /\ Rollback(t, "VAL_READ")
       \/ /\ ~tx[t].read_only /\ ~tx[t].no_extend
          /\ Goto(t, "extend")
          /\ UNCHANGED <<shared, tx, loc, aux>>

\* stm_wbetl_extend: read the clock, validate, move the end of the snapshot.
Extend(t) ==
    /\ pc[t] = "extend"
    /\ StartValidate(t, "extend", clock, 0)
    /\ UNCHANGED <<shared, tx, aux>>

Extended(t) ==
    /\ Validated(t, "extend")
    /\ tx' = [tx EXCEPT ![t].end = loc[t].now]
    /\ Goto(t, "load_recheck")
    /\ loc' = [loc EXCEPT ![t].i = 1, ![t].for = "none", ![t].now = 0]
    /\ UNCHANGED <<shared, aux>>

WriteSetFull(t) == Len(tx[t].w_set) = tx[t].size

\* A version beyond the snapshot is a conflict if we read the stripe before, or
\* may not extend the snapshot.
ReadOlder(t, a, l) ==
    /\ tx[t].irrevocable = 0
    /\ l.version > tx[t].end
    /\ tx[t].no_extend \/ HasRead(tx[t].r_set, LOCK_IDX(a))

StoreCasFails(t) ==
    /\ pc[t] = "store_cas"
    /\ ~LockUnchanged(t)
    /\ Goto(t, "store")
    /\ loc' = [loc EXCEPT ![t].l = Timestamp(0)]
    /\ UNCHANGED <<shared, tx, aux>>

-----------------------------------------------------------------------------
(* Commit: int_stm_commit, and what the designs' commits share *)

\* The end of int_stm_commit: give irrevocability back.
Committed(t) ==
    /\ irrevocable' = (irrevocable /\ tx[t].irrevocable = 0)
    /\ tx' = [tx EXCEPT ![t].irrevocable = 0, ![t].r_set = <<>>, ![t].w_set = <<>>,
                        ![t].nb_acquired = 0, ![t].start = 0, ![t].end = 0]
    /\ seen' = [seen EXCEPT ![t] = {}]
    /\ Goto(t, "idle")
    /\ Clear(t)
    /\ UNCHANGED <<lock, mem, clock, hist>>

\* Nothing written: commit at once.
CommitReadOnly(t) ==
    /\ pc[t] = "active"
    /\ tx[t].w_set = <<>>
    /\ Committed(t)

\* Mutant: updates do not look at the irrevocability flag.
BugCommit(t) ==
    /\ pc[t] = "active"
    /\ tx[t].w_set # <<>>
    /\ Goto(t, "commit_clock")
    /\ UNCHANGED <<shared, tx, loc, aux>>

\* Updates give way to an irrevocable transaction once they own their locks.
Commit(t) ==
    /\ pc[t] = "active"
    /\ tx[t].w_set # <<>>
    /\ \/ /\ tx[t].irrevocable = 0 /\ irrevocable
          /\ Rollback(t, "IRREVOCABLE")
       \/ /\ tx[t].irrevocable # 0 \/ ~irrevocable
          /\ Goto(t, "commit_clock")
          /\ UNCHANGED <<shared, tx, loc, aux>>

\* Nobody took a timestamp since our start, or we are irrevocable.
NoValidation(t) == tx[t].irrevocable # 0 \/ tx[t].start = clock

StartInstall(t, ts) ==
    /\ Goto(t, "install")
    /\ loc' = [loc EXCEPT ![t].i = 1, ![t].for = "none", ![t].now = 0, ![t].ts = ts]
    /\ hist' = Publish(tx[t].w_set, ts)

\* Take the commit timestamp (fetch-and-increment).
CommitClock(t) ==
    /\ pc[t] = "commit_clock"
    /\ clock' = clock + 1
    /\ \/ /\ NoValidation(t)
          /\ StartInstall(t, clock + 1)
       \/ /\ ~NoValidation(t)
          /\ StartValidate(t, "commit", 0, clock + 1)
          /\ UNCHANGED hist
    /\ UNCHANGED <<lock, mem, irrevocable, tx, seen>>

CommitValidated(t) ==
    /\ Validated(t, "commit")
    /\ StartInstall(t, loc[t].ts)
    /\ UNCHANGED <<shared, tx, seen>>

CommitEnd(t) ==
    /\ pc[t] = "install"
    /\ loc[t].i > Len(tx[t].w_set)
    /\ Committed(t)

-----------------------------------------------------------------------------
(* int_stm_set_irrevocable, parallel mode *)

\* Called outside of a transaction: for the next one.
RequestIrrevocable(t) ==
    /\ "irrevocable_next" \in Features
    /\ pc[t] = "idle"
    /\ tx[t].irrevocable = 0
    /\ tx' = [tx EXCEPT ![t].irrevocable = 1]
    /\ UNCHANGED <<shared, pc, loc, aux>>

\* Mutant: the flag is set without a look at it.
BugSetIrrevocable(t) ==
    /\ "irrevocable" \in Features
    /\ pc[t] = "active"
    /\ tx[t].irrevocable = 0
    /\ irrevocable' = TRUE
    /\ tx' = [tx EXCEPT ![t].irrevocable = 2]
    /\ StartValidate(t, "irrevocable", 0, 0)
    /\ UNCHANGED <<lock, mem, clock, aux>>

\* First call in a transaction: take the global flag and validate ...
SetIrrevocable(t) ==
    /\ "irrevocable" \in Features
    /\ pc[t] = "active"
    /\ tx[t].irrevocable = 0
    /\ ~irrevocable
    /\ irrevocable' = TRUE
    /\ tx' = [tx EXCEPT ![t].irrevocable = 2]
    /\ StartValidate(t, "irrevocable", 0, 0)
    /\ UNCHANGED <<lock, mem, clock, aux>>

\* ... or roll back and acquire it upon restart.
SetIrrevocableFails(t) ==
    /\ "irrevocable" \in Features
    /\ pc[t] = "active"
    /\ tx[t].irrevocable = 0
    /\ irrevocable
    /\ RollbackAs(t, "IRREVOCABLE", 1)

IrrevocableValidated(t) ==
    /\ Validated(t, "irrevocable")
    /\ tx' = [tx EXCEPT ![t].irrevocable = 3]
    /\ Goto(t, "active")
    /\ Clear(t)
    /\ UNCHANGED <<shared, aux>>

\* Restarted attempt that asked for irrevocability: spin for the global flag.
AcquireIrrevocable(t) ==
    /\ pc[t] = "irr_spin"
    /\ ~irrevocable
    /\ irrevocable' = TRUE
    /\ tx' = [tx EXCEPT ![t].irrevocable = 3]
    /\ Goto(t, "active")
    /\ UNCHANGED <<lock, mem, clock, loc, aux>>

-----------------------------------------------------------------------------
Init ==
    /\ lock = [s \in Stripe |-> Timestamp(0)]
    /\ mem = [a \in Addr |-> InitWord]
    /\ clock = 0
    /\ irrevocable = FALSE
    /\ tx = [t \in Tx |-> [start |-> 0, end |-> 0, r_set |-> <<>>, w_set |-> <<>>,
                           irrevocable |-> 0, read_only |-> FALSE, no_extend |-> FALSE,
                           size |-> RW_SET_SIZE, nb_acquired |-> 0]]
    /\ pc = [t \in Tx |-> "idle"]
    /\ loc = [t \in Tx |-> NoLoc]
    /\ seen = [t \in Tx |-> {}]
    /\ hist = [a \in Addr |-> {[version |-> 0, value |-> mem[a]]}]

-----------------------------------------------------------------------------
(* Properties *)

TxDesc == [start : Nat, end : Nat, r_set : Seq(REntry), w_set : Seq(WEntry),
           irrevocable : 0 .. 3, read_only : BOOLEAN, no_extend : BOOLEAN,
           size : Nat, nb_acquired : Nat]
\* A loaded word, and the bytes of it that came from the own write set.
SeenEntry == [addr : Addr, value : Word, own : SUBSET Byte]
Locals == [addr : Addr, value : Word, mask : SUBSET Byte, l : LockWord, now : Nat,
           ts : Nat, i : Nat \ {0},
           for : {"none", "extend", "commit", "irrevocable", "EXTEND_WS"}]

\* Types of the library's state and of the auxiliary variables.
TypeOK ==
    /\ lock \in [Stripe -> LockWord]
    /\ mem \in [Addr -> Word]
    /\ clock \in Nat
    /\ irrevocable \in BOOLEAN
    /\ tx \in [Tx -> TxDesc]
    /\ pc \in [Tx -> Label]
    /\ loc \in [Tx -> Locals]
    /\ seen \in [Tx -> SUBSET SeenEntry]
    /\ hist \in [Addr -> SUBSET [version : Nat, value : Word]]

\* Commit and rollback have a lock's last entry ahead of them while a stripe is
\* being written back: memory under a lock that nobody owns is the last committed
\* state, with a version that is the newest one of its addresses.  Buffered
\* values of running or aborted transactions never reach memory.
CommittedMemory ==
    \A a \in Addr :
        LET l == lock[LOCK_IDX(a)] IN
        l.owner = NoTx => /\ mem[a] = Latest(a)
                          /\ \A h \in hist[a] : h.version <= l.version
                          /\ l.version <= clock

\* In an attempt that is not irrevocable, every value that stm_wbetl_read_invisible
\* has logged is the one its address has in the snapshot at tx->end, whatever
\* has been and will be committed up to that time by transactions that hold a
\* timestamp already.
Attempt(t) == pc[t] \in {"active", "load_value", "load_relock", "extend", "load_recheck",
                         "store_cas", "store_mem", "acquire", "acquire_cas", "commit_clock"}
UnderOwnLock(t, a) == lock[LOCK_IDX(a)].owner = t
SnapshotReads ==
    \A t \in Tx : Attempt(t) /\ tx[t].irrevocable = 0 =>
        \A r \in seen[t] :
            ~UnderOwnLock(t, r.addr) => Matches(r, Snapshot(r.addr, tx[t].end))

\* The documented promise of stm_load (include/stm.h:353): the values a running
\* transaction has loaded were all in memory together at some time since it started.
ConsistentLoads ==
    \A t \in Tx : Attempt(t) /\ tx[t].irrevocable = 0 =>
        \E n \in tx[t].start .. clock :
            \A r \in seen[t] : Matches(r, Snapshot(r.addr, n))

\* A transaction that stm_wbetl_commit writes back has loaded exactly the state
\* that the commits before its timestamp produce: committed transactions
\* serialize in the order of their timestamps.
Serializable ==
    \A t \in Tx : pc[t] \in {"install", "drop"} =>
        \A r \in seen[t] : Matches(r, Snapshot(r.addr, loc[t].ts - 1))

\* What an irrevocable transaction has loaded stays the committed value until it
\* commits, although it validates nothing any more: other updates give way
\* (stm_wbetl_commit) or were caught by its validation.
IrrevocableStable ==
    \A t \in Tx : pc[t] \in {"active", "load_value", "load_relock"} /\ tx[t].irrevocable = 3 =>
        \A r \in seen[t] : Matches(r, Latest(r.addr))

\* Irrevocability has one holder, who is on record in the global flag.
IrrevocableUnique ==
    \A t \in Tx : tx[t].irrevocable \in {2, 3} =>
        irrevocable /\ \A u \in Tx \ {t} : tx[u].irrevocable \in {0, 1}

\* "may exceed VERSION_MAX by up to MAX_THREADS" (stm_wbetl_commit): a version
\* always fits the bits that the threads' overshoot leaves.
ClockBound == clock < VERSION_MAX + Cardinality(Tx)

\* "Irrevocable cannot abort" (stm_rollback).
IrrevocableNeverAborts ==
    [][\A t \in Tx : tx[t].irrevocable = 3 /\ pc[t] # "rollback" => pc'[t] # "rollback"]_vars

=============================================================================
