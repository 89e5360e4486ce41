------------------------------ MODULE ModularCm ------------------------------
(***************************************************************************)
(* The default design with CM_MODULAR: a status word for each descriptor,  *)
(* which its owner and other threads change with compare-and-swap, visible *)
(* reads, contention managers that may kill the owner of a lock            *)
(* (stm_kill), stealing the locks of a killed transaction, which drops     *)
(* what is left (stm_drop), and the module mod_order, a contention manager *)
(* with callbacks that make transactions commit in the order they start.   *)
(*                                                                         *)
(* One address per lock, whole words, no irrevocable transactions and no   *)
(* explicit aborts (WbEtl has all of these).  The word that a commit       *)
(* stores is its timestamp, so that a value tells who wrote it.  Every     *)
(* access to shared memory is a step, except reads of what cannot change   *)
(* any more (marked "constant").                                           *)
(***************************************************************************)
EXTENDS Integers, Sequences, FiniteSets

CONSTANTS
    Tx,              \* descriptors, numbered as their addresses are ordered
    Addr,            \* words, each with a lock of its own
    Manager,         \* contention managers, one of which is chosen at the start
    Visible,         \* values that the application gives to attr.visible_reads
    vr_threshold,    \* aborts caused by invisible reads before reads get visible
    MaxStarts,       \* bound: transactions of each thread
    COUNTER_MAX,     \* bound: where the counts of attempts and of allocations end ...
    CountsWrap,      \* ... and start again, or where a thread stops
    MaxLog           \* bound: entries an attempt may log in its read and write sets

ASSUME CmAssumption ==
    /\ Tx \subseteq Nat /\ IsFiniteSet(Tx)
    /\ Manager \subseteq {"aggressive", "suicide", "delay", "timestamp", "karma", "order"}
    /\ Visible \subseteq BOOLEAN
    /\ vr_threshold \in Nat /\ MaxStarts \in [Tx -> Nat]
    /\ COUNTER_MAX \in Nat \ {0} /\ CountsWrap \in BOOLEAN /\ MaxLog \in Nat

VARIABLES
    lock, mem, clock,
    status,     \* status words: a status and a counter of attempts
    version,    \* version fields of the write set entries, which others read
    tx, pc, loc,
    order,      \* mod_order_ts_next and mod_order_ts_commit
    manager,    \* _tinystm.contention_manager
    seen,       \* auxiliary: the words that each attempt has loaded from memory
    hist        \* auxiliary: timestamps of the commits that wrote an address

vars == <<lock, mem, clock, status, version, tx, pc, loc, order, manager, seen, hist>>
shared == <<lock, mem, clock, version, order, manager>>

-----------------------------------------------------------------------------
(* Lock words, entries, status words *)

Entry == 1 .. MaxLog
\* A lock word is a timestamp, or points to entry i of the write set that its owner
\* has allocated for the gen'th time, with a bit that tells reading from writing.
Free(v) == [owner |-> -1, version |-> v, gen |-> 0, i |-> 0, write |-> FALSE]
Owned(t, i, w) == [owner |-> t, version |-> 0, gen |-> tx[t].gen, i |-> i, write |-> w]
IsFree(l) == l.owner = -1
MyEntry(t, l) == l.owner = t /\ l.gen = tx[t].gen /\ l.i <= Len(tx[t].w_set)

IS_ACTIVE(s) == s.s \in {"ACTIVE", "COMMITTING", "ABORTING", "KILLED"}
Is(t, s) == status[t].s = s
SetStatus(t, s) == status' = [status EXCEPT ![t].s = s]

NoLoc == [addr |-> CHOOSE a \in Addr : TRUE, l |-> Free(0), s |-> [s |-> "IDLE", c |-> 0],
          value |-> 0, v |-> 0, now |-> 0, i |-> 1, for |-> "none"]

\* A descriptor before its next start (which sets what is cleared here).
NoTx == [start |-> 0, end |-> 0, r_set |-> <<>>, w_set |-> <<>>, gen |-> 0, visible |-> FALSE,
         visible_reads |-> 0, retries |-> 0, timestamp |-> 0, ticket |-> 0, nb |-> 0]

Goto(t, label) == pc' = [pc EXCEPT ![t] = label]
Clear(t) == loc' = [loc EXCEPT ![t] = NoLoc]
LogRoom(t) == Len(tx[t].r_set) + Len(tx[t].w_set) < MaxLog
HasRead(t, a) == \E j \in DOMAIN tx[t].r_set : tx[t].r_set[j].addr = a
Newest(S) == CHOOSE n \in S : \A m \in S : m <= n
Snapshot(a, n) == Newest({m \in hist[a] : m <= n})

-----------------------------------------------------------------------------
(* Start: int_stm_start, int_stm_prepare, mod_order_on_start *)

\* The snapshot starts, with status ACTIVE (UPDATE_STATUS; nobody looks at the status
\* of a transaction before it has a lock).  Enough aborts of invisible reads make reads
\* visible.
Prepare(t, visible, retries, next) ==
    /\ CountsWrap \/ status[t].c + 1 < COUNTER_MAX
    /\ status' = [status EXCEPT ![t] = [s |-> "ACTIVE", c |-> (@.c + 1) % COUNTER_MAX]]
    /\ tx' = [tx EXCEPT ![t].start = clock, ![t].end = clock,
                        ![t].visible = visible \/ tx[t].visible_reads >= vr_threshold,
                        ![t].timestamp = IF retries = 0 THEN clock ELSE @,
                        ![t].retries = retries,
                        ![t].nb = IF retries = 0 THEN @ + 1 ELSE @]
    /\ Goto(t, next)
    /\ UNCHANGED <<shared, loc, seen, hist>>

Start(t) ==
    /\ pc[t] = "idle"
    /\ tx[t].nb < MaxStarts[t]
    /\ \E v \in Visible : Prepare(t, v, 0, IF manager = "order" THEN "on_start" ELSE "active")

\* After an abort: LONGJMP to where the transaction started.
Retry(t) ==
    /\ pc[t] = "prepare"
    /\ Prepare(t, tx[t].visible, 1, "active")

mod_order_on_start(t) ==
    /\ pc[t] = "on_start"
    /\ order' = [order EXCEPT !.next = @ + 1]
    /\ tx' = [tx EXCEPT ![t].ticket = order.next]
    /\ Goto(t, "active")
    /\ UNCHANGED <<lock, mem, clock, version, manager, status, loc, seen, hist>>

-----------------------------------------------------------------------------
(* stm_rollback *)

\* Every reason leads to the same steps; invisible is TRUE for an abort caused by
\* invisible reads, delay for one that waits for the contended lock.
Rollback(t, invisible, delay) ==
    /\ Goto(t, "abort")
    /\ tx' = [tx EXCEPT ![t].visible_reads = IF invisible /\ @ < vr_threshold THEN @ + 1 ELSE @]
    /\ loc' = [loc EXCEPT ![t] = [NoLoc EXCEPT !.addr = loc[t].addr,
                                               !.for = IF delay THEN "delay" ELSE "none"]]
    /\ seen' = [seen EXCEPT ![t] = {}]
    /\ UNCHANGED <<shared, status, hist>>

\* The compare-and-swap of the own status: fails if the transaction was killed.
Abort(t) ==
    /\ pc[t] = "abort"
    /\ IF Is(t, "KILLED")
       THEN Goto(t, "drop") /\ UNCHANGED status
       ELSE Goto(t, "rollback") /\ status' = [status EXCEPT ![t].s = IF @ = "ACTIVE" THEN "ABORTING" ELSE @]
    /\ UNCHANGED <<shared, tx, loc, seen, hist>>

\* stm_wbetl_rollback: plain stores, nobody steals from an aborting transaction.
RollbackDrop(t) ==
    LET i == loc[t].i IN
    /\ pc[t] = "rollback"
    /\ i <= Len(tx[t].w_set)
    /\ lock' = [lock EXCEPT ![tx[t].w_set[i].addr] = Free(version[t][i])]
    /\ loc' = [loc EXCEPT ![t].i = i + 1]
    /\ UNCHANGED <<mem, clock, version, order, manager, status, tx, pc, seen, hist>>

\* Mutant: the locks of a killed transaction are dropped with plain stores.
BugStmDrop(t) ==
    LET i == loc[t].i  a == tx[t].w_set[i].addr IN
    /\ pc[t] = "drop"
    /\ i <= Len(tx[t].w_set)
    /\ lock' = [lock EXCEPT ![a] = Free(version[t][i])]
    /\ loc' = [loc EXCEPT ![t].i = i + 1]
    /\ UNCHANGED <<mem, clock, version, order, manager, status, tx, pc, seen, hist>>

\* Mutant: the compare-and-swap expects a lock taken for writing.
BugStmDropWrite(t) ==
    LET i == loc[t].i  a == tx[t].w_set[i].addr IN
    /\ pc[t] = "drop"
    /\ i <= Len(tx[t].w_set)
    /\ lock' = IF lock[a] = Owned(t, i, TRUE) THEN [lock EXCEPT ![a] = Free(version[t][i])] ELSE lock
    /\ loc' = [loc EXCEPT ![t].i = i + 1]
    /\ UNCHANGED <<mem, clock, version, order, manager, status, tx, pc, seen, hist>>

\* stm_drop: compare-and-swap, for the lock may have been stolen ...
StmDrop(t) ==
    LET i == loc[t].i  a == tx[t].w_set[i].addr IN
    /\ pc[t] = "drop"
    /\ i <= Len(tx[t].w_set)
    /\ lock' = IF MyEntry(t, lock[a]) /\ lock[a].i = i THEN [lock EXCEPT ![a] = Free(version[t][i])]
               ELSE lock
    /\ loc' = [loc EXCEPT ![t].i = i + 1]
    /\ UNCHANGED <<mem, clock, version, order, manager, status, tx, pc, seen, hist>>

\* ... and then a new write set, so that no entry of a killed attempt is used again.
\* Status ABORTED, and a new attempt (the retry count only matters as zero or not).
Dropped(t) ==
    /\ pc[t] \in {"rollback", "drop"}
    /\ loc[t].i > Len(tx[t].w_set)
    /\ tx' = [tx EXCEPT ![t].gen = IF pc[t] = "drop" /\ tx[t].w_set # <<>> THEN (@ + 1) % COUNTER_MAX ELSE @,
                        ![t].w_set = <<>>, ![t].r_set = <<>>, ![t].start = 0, ![t].end = 0]
    /\ SetStatus(t, "ABORTED")
    /\ Goto(t, IF loc[t].for = "delay" THEN "c_lock" ELSE "prepare")
    /\ UNCHANGED <<shared, loc, seen, hist>>

\* DELAY_RESTART: wait until the contended lock is free.
WaitLock(t) ==
    /\ pc[t] = "c_lock"
    /\ IsFree(lock[loc[t].addr])
    /\ Clear(t)
    /\ Goto(t, "prepare")
    /\ UNCHANGED <<shared, status, tx, seen, hist>>

-----------------------------------------------------------------------------
(* Conflicts: the code after "CM kicks in" of stm_wbetl_read_invisible,     *)
(* stm_wbetl_read_visible and stm_wbetl_write (for = "invisible", "visible" *)
(* or "write"), and stm_kill                                                *)

\* The lock word l is loaded, and somebody else's: its owner's status ...
Conflict(t, a, l, for) ==
    /\ Goto(t, "cm_status")
    /\ loc' = [loc EXCEPT ![t] = [NoLoc EXCEPT !.addr = a, !.l = l, !.for = for]]
    /\ UNCHANGED <<shared, status, tx, seen, hist>>

CmStatus(t) ==
    /\ pc[t] = "cm_status"
    /\ loc' = [loc EXCEPT ![t].s = status[loc[t].l.owner]]
    /\ Goto(t, "cm_lock")
    /\ UNCHANGED <<shared, status, tx, seen, hist>>

\* ... the lock again: the status is that of an attempt that had the lock.  (Its
\* entry's version is constant for the rest of that attempt, and read here.)
CmLock(t) ==
    LET l == loc[t].l IN
    /\ pc[t] = "cm_lock"
    /\ lock[loc[t].addr] = l
    /\ loc' = [loc EXCEPT ![t].v = version[l.owner][l.i]]
    /\ Goto(t, "cm_decide")
    /\ UNCHANGED <<shared, status, tx, seen, hist>>

\* Whether t rather than o goes on, and what it waits for otherwise.
Work(t) == 2 * Len(tx[t].w_set) + Len(tx[t].r_set)
\* Mutant: mod_order_cm lets the later transaction go on.
BugKillOther(t, o) == manager = "order" /\ tx[t].ticket > tx[o].ticket

KillOther(t, o) ==
    CASE manager = "aggressive" -> TRUE
      [] manager = "timestamp" -> \/ tx[t].timestamp < tx[o].timestamp
                                  \/ (tx[t].timestamp = tx[o].timestamp /\ t < o)
      [] manager = "karma" -> Work(t) < Work(o) \/ (Work(t) = Work(o) /\ t < o)
      [] manager = "order" -> tx[t].ticket < tx[o].ticket
      [] OTHER -> FALSE
DELAY_RESTART == manager \in {"delay", "timestamp"}

\* The status is the same: steal from a killed transaction, kill an active one, wait
\* for one that is past that, or give up.
CmDecide(t) ==
    LET o == loc[t].l.owner  s == loc[t].s IN
    /\ pc[t] = "cm_decide"
    /\ status[o] = s
    /\ \/ /\ s.s = "KILLED"
          /\ Goto(t, "steal")
          /\ UNCHANGED <<shared, status, tx, loc, seen, hist>>
       \/ /\ s.s # "KILLED" /\ ~Is(t, "KILLED") /\ KillOther(t, o)
          /\ Goto(t, CASE s.s = "ACTIVE" -> "kill"
                       [] s.s \in {"COMMITTING", "ABORTING"} -> "kill_wait"
                       [] OTHER -> "again")
          /\ UNCHANGED <<shared, status, tx, loc, seen, hist>>
       \/ /\ s.s # "KILLED" /\ (Is(t, "KILLED") \/ ~KillOther(t, o))
          /\ Rollback(t, FALSE, ~Is(t, "KILLED") /\ DELAY_RESTART)

\* Mutant: a plain store in the place of the compare-and-swap.
BugKill(t) ==
    LET o == loc[t].l.owner IN
    /\ pc[t] = "kill"
    /\ status' = [status EXCEPT ![o].s = "KILLED"]
    /\ Goto(t, "steal")
    /\ UNCHANGED <<shared, tx, loc, seen, hist>>

\* stm_kill: compare-and-swap on the other's status.
Kill(t) ==
    LET o == loc[t].l.owner IN
    /\ pc[t] = "kill"
    /\ IF status[o] = loc[t].s
       THEN /\ status' = [status EXCEPT ![o].s = "KILLED"]
            /\ Goto(t, "steal")
       ELSE Goto(t, "kill_failed") /\ UNCHANGED status
    /\ UNCHANGED <<shared, tx, loc, seen, hist>>

\* Already committing or aborting: wait for its status to change.
KillWait(t) ==
    /\ pc[t] = "kill_wait"
    /\ status[loc[t].l.owner] # loc[t].s
    /\ Goto(t, "again")
    /\ UNCHANGED <<shared, status, tx, loc, seen, hist>>

\* Mutant: the loop ends only with the next attempt.
BugKillFailed(t) ==
    /\ pc[t] = "kill_failed"
    /\ status[loc[t].l.owner].c # loc[t].s.c
    /\ Goto(t, "again")
    /\ UNCHANGED <<shared, status, tx, loc, seen, hist>>

\* Lost the race: wait for the end of that attempt.
KillFailed(t) ==
    LET s == status[loc[t].l.owner] IN
    /\ pc[t] = "kill_failed"
    /\ s.s \in {"ABORTED", "COMMITTED", "KILLED", "IDLE"} \/ s.c # loc[t].s.c
    /\ Goto(t, "again")
    /\ UNCHANGED <<shared, status, tx, loc, seen, hist>>

\* Steal the lock of a killed transaction: an invisible read frees it, ...
StealFree(t) ==
    LET a == loc[t].addr IN
    /\ pc[t] = "steal"
    /\ loc[t].for = "invisible"
    /\ lock' = IF lock[a] = loc[t].l THEN [lock EXCEPT ![a] = Free(loc[t].v)] ELSE lock
    /\ Goto(t, "again")
    /\ UNCHANGED <<mem, clock, version, order, manager, status, tx, loc, seen, hist>>

-----------------------------------------------------------------------------
(* Acquiring a lock, for stm_wbetl_write and stm_wbetl_read_visible *)

\* The version goes into the next free entry before the compare-and-swap on the lock.
Acquire(t, a, l, v, for) ==
    /\ version' = [version EXCEPT ![t][Len(tx[t].w_set) + 1] = v]
    /\ loc' = [loc EXCEPT ![t] = [NoLoc EXCEPT !.addr = a, !.l = l, !.for = for]]
    /\ Goto(t, IF for = "visible" THEN "vis_value" ELSE "acquire_cas")
    /\ UNCHANGED <<lock, mem, clock, order, manager, status, tx, seen, hist>>

\* A store: the version must be one the transaction may have read.
AcquireWrite(t, a, l, v) ==
    \/ /\ v > tx[t].end /\ HasRead(t, a)
       /\ Rollback(t, TRUE, FALSE)
    \/ /\ ~(v > tx[t].end /\ HasRead(t, a))
       /\ Acquire(t, a, l, v, "write")

\* ... a visible read or a store acquires it.
StealAcquire(t) ==
    /\ pc[t] = "steal"
    /\ \/ loc[t].for = "visible" /\ Acquire(t, loc[t].addr, loc[t].l, loc[t].v, "visible")
       \/ loc[t].for = "write" /\ AcquireWrite(t, loc[t].addr, loc[t].l, loc[t].v)

VisibleValue(t) ==
    /\ pc[t] = "vis_value"
    /\ loc' = [loc EXCEPT ![t].value = mem[loc[t].addr]]
    /\ Goto(t, "acquire_cas")
    /\ UNCHANGED <<shared, status, tx, seen, hist>>

\* The compare-and-swap on the lock word, and the entry that it makes ours.
AcquireCas(t) ==
    LET a == loc[t].addr  w == loc[t].for = "write" IN
    /\ pc[t] = "acquire_cas"
    /\ lock[a] = loc[t].l
    /\ lock' = [lock EXCEPT ![a] = Owned(t, Len(tx[t].w_set) + 1, w)]
    /\ tx' = [tx EXCEPT ![t].w_set = Append(@, [addr |-> a, mask |-> w])]
    /\ seen' = IF w THEN seen ELSE [seen EXCEPT ![t] = @ \cup {[addr |-> a, value |-> loc[t].value]}]
    /\ Clear(t)
    /\ Goto(t, "active")
    /\ UNCHANGED <<mem, clock, version, order, manager, status, hist>>

-----------------------------------------------------------------------------
(* Loads and stores *)

\* Loads are visible or not, by the attribute of the attempt; visible ones and stores
\* (stm_write) look at the own status first.
Load(t) ==
    /\ pc[t] = "active"
    /\ LogRoom(t)
    /\ IF tx[t].visible /\ Is(t, "KILLED") THEN Rollback(t, FALSE, FALSE)
       ELSE /\ \E a \in Addr : loc' = [loc EXCEPT ![t] = [NoLoc EXCEPT !.addr = a,
                                           !.for = IF tx[t].visible THEN "visible" ELSE "invisible"]]
            /\ Goto(t, "again")
            /\ UNCHANGED <<shared, status, tx, seen, hist>>

Store(t) ==
    /\ pc[t] = "active"
    /\ LogRoom(t)
    /\ IF Is(t, "KILLED") THEN Rollback(t, FALSE, FALSE)
       ELSE /\ \E a \in Addr : loc' = [loc EXCEPT ![t] = [NoLoc EXCEPT !.addr = a, !.for = "write"]]
            /\ Goto(t, "again")
            /\ UNCHANGED <<shared, status, tx, seen, hist>>

Return(t) ==
    /\ Goto(t, "active")
    /\ Clear(t)
    /\ UNCHANGED <<shared, status, tx, seen, hist>>

\* Label restart: load the lock word.
ReadLock(t, a, l, for) ==
    CASE for = "invisible" /\ ~(l.write /\ ~IsFree(l)) ->
            /\ Goto(t, "load_value")
            /\ loc' = [loc EXCEPT ![t] = [NoLoc EXCEPT !.addr = a, !.l = l, !.for = for]]
            /\ UNCHANGED <<shared, status, tx, seen, hist>>
      [] for = "visible" /\ IsFree(l) -> Acquire(t, a, l, l.version, for)
      [] for = "write" /\ IsFree(l) -> AcquireWrite(t, a, l, l.version)
      [] MyEntry(t, l) ->
            \* our own: the value is in the write set, or (visible) constant in memory;
            \* a store upgrades a lock that was taken for reading
            IF for = "write" /\ ~l.write
            THEN /\ Goto(t, "upgrade")
                 /\ loc' = [loc EXCEPT ![t] = [NoLoc EXCEPT !.addr = a, !.l = l, !.for = for]]
                 /\ UNCHANGED <<shared, status, tx, seen, hist>>
            ELSE IF for = "visible" /\ Is(t, "KILLED") THEN Rollback(t, FALSE, FALSE)
            ELSE Return(t)
      [] OTHER -> Conflict(t, a, l, for)

Again(t) ==
    /\ pc[t] = "again"
    /\ ReadLock(t, loc[t].addr, lock[loc[t].addr], loc[t].for)

\* The lock word or the owner's status has changed meanwhile: start over, with the
\* word just loaded or another load.
Restart(t) ==
    /\ \/ pc[t] \in {"cm_lock", "load_relock", "recheck"} /\ lock[loc[t].addr] # loc[t].l
       \/ pc[t] = "acquire_cas" /\ lock[loc[t].addr] # loc[t].l
       \/ pc[t] = "cm_decide" /\ status[loc[t].l.owner] # loc[t].s
    /\ IF pc[t] \in {"acquire_cas", "cm_decide"}
       THEN Goto(t, "again") /\ UNCHANGED <<shared, status, tx, loc, seen, hist>>
       ELSE ReadLock(t, loc[t].addr, lock[loc[t].addr], IF pc[t] = "cm_lock" THEN loc[t].for ELSE "invisible")

\* The write bit is set with compare-and-swap: if it fails, the lock has been stolen.
Upgrade(t) ==
    LET a == loc[t].addr  l == loc[t].l IN
    /\ pc[t] = "upgrade"
    /\ \/ /\ lock[a] = l
          /\ lock' = [lock EXCEPT ![a].write = TRUE]
          /\ tx' = [tx EXCEPT ![t].w_set[l.i].mask = TRUE]
          /\ Goto(t, "active")
          /\ Clear(t)
          /\ UNCHANGED <<mem, clock, version, order, manager, status, seen, hist>>
       \/ /\ lock[a] # l
          /\ Rollback(t, FALSE, FALSE)

\* Invisible: the value, and the lock again.
LoadValue(t) ==
    /\ pc[t] = "load_value"
    /\ loc' = [loc EXCEPT ![t].value = mem[loc[t].addr]]
    /\ Goto(t, "load_relock")
    /\ UNCHANGED <<shared, status, tx, seen, hist>>

\* The version: in the lock word, or in the entry of one who has it for reading (which
\* is loaded in a further step; the write set of a killed attempt stays as it was).
LoadRelock(t) ==
    LET l == loc[t].l IN
    /\ pc[t] = "load_relock"
    /\ lock[loc[t].addr] = l
    /\ loc' = [loc EXCEPT ![t].v = IF IsFree(l) THEN l.version ELSE version[l.owner][l.i]]
    /\ Goto(t, IF IsFree(l) THEN "load_check" ELSE "load_version")
    /\ UNCHANGED <<shared, status, tx, seen, hist>>

LoadVersion(t) ==
    LET l == loc[t].l IN
    /\ pc[t] = "load_version"
    /\ loc' = [loc EXCEPT ![t].v = IF l.gen = tx[l.owner].gen THEN version[l.owner][l.i] ELSE @]
    /\ Goto(t, "load_check")
    /\ UNCHANGED <<shared, status, tx, seen, hist>>

Log(t) ==
    /\ tx' = [tx EXCEPT ![t].r_set = Append(@, [addr |-> loc[t].addr, version |-> loc[t].v])]
    /\ seen' = [seen EXCEPT ![t] = @ \cup {[addr |-> loc[t].addr, value |-> loc[t].value]}]
    /\ Goto(t, "active")
    /\ Clear(t)
    /\ UNCHANGED <<shared, status, hist>>

\* A version in the snapshot, or a new end for the snapshot: stm_wbetl_extend reads
\* the clock and validates.
LoadCheck(t) ==
    /\ pc[t] = "load_check"
    /\ IF loc[t].v > tx[t].end
       THEN /\ loc' = [loc EXCEPT ![t].now = clock, ![t].i = 1, ![t].for = "extend"]
            /\ Goto(t, "validate")
            /\ UNCHANGED <<shared, status, tx, seen, hist>>
       ELSE IF Is(t, "KILLED") THEN Rollback(t, FALSE, FALSE) ELSE Log(t)

EntryValid(t, r) == MyEntry(t, lock[r.addr]) \/ lock[r.addr] = Free(r.version)

Validate(t) ==
    LET i == loc[t].i IN
    /\ pc[t] = "validate"
    /\ i <= Len(tx[t].r_set)
    /\ \/ /\ EntryValid(t, tx[t].r_set[i])
          /\ loc' = [loc EXCEPT ![t].i = i + 1]
          /\ UNCHANGED <<shared, status, tx, pc, seen, hist>>
       \/ /\ ~EntryValid(t, tx[t].r_set[i])
          /\ Rollback(t, TRUE, FALSE)

Extended(t) ==
    /\ pc[t] = "validate"
    /\ loc[t].i > Len(tx[t].r_set)
    /\ loc[t].for = "extend"
    /\ tx' = [tx EXCEPT ![t].end = loc[t].now]
    /\ loc' = [loc EXCEPT ![t].i = 1]
    /\ Goto(t, "recheck")
    /\ UNCHANGED <<shared, status, seen, hist>>

Recheck(t) ==
    /\ pc[t] = "recheck"
    /\ lock[loc[t].addr] = loc[t].l
    /\ IF Is(t, "KILLED") THEN Rollback(t, FALSE, FALSE) ELSE Log(t)

-----------------------------------------------------------------------------
(* Commit: int_stm_commit, mod_order_on_precommit, stm_wbetl_commit *)

\* (A transaction has at least one load or store.)
Commit(t) ==
    /\ pc[t] = "active"
    /\ tx[t].r_set \o tx[t].w_set # <<>>
    /\ Goto(t, IF manager = "order" THEN "precommit" ELSE "commit_cas")
    /\ UNCHANGED <<shared, status, tx, loc, seen, hist>>

\* Wait for the turn, unless killed.
mod_order_on_precommit(t) ==
    /\ pc[t] = "precommit"
    /\ Is(t, "KILLED") \/ order.commit = tx[t].ticket
    /\ Goto(t, "commit_cas")
    /\ UNCHANGED <<shared, status, tx, loc, seen, hist>>

HasWrites(t) == \E i \in DOMAIN tx[t].w_set : tx[t].w_set[i].mask

\* Mutant: a killed transaction commits.
BugCommitCas(t) ==
    /\ pc[t] = "commit_cas"
    /\ SetStatus(t, "COMMITTING")
    /\ Goto(t, CASE tx[t].w_set = <<>> -> "end" [] HasWrites(t) -> "commit_clock" [] OTHER -> "ro_drop")
    /\ UNCHANGED <<shared, tx, loc, seen, hist>>

\* The compare-and-swap of the own status: nobody can kill us any more, or has.
CommitCas(t) ==
    /\ pc[t] = "commit_cas"
    /\ IF Is(t, "KILLED") THEN Rollback(t, FALSE, FALSE)
       ELSE /\ SetStatus(t, "COMMITTING")
            /\ Goto(t, CASE tx[t].w_set = <<>> -> "end"
                         [] HasWrites(t) -> "commit_clock"
                         [] OTHER -> "ro_drop")
            /\ UNCHANGED <<shared, tx, loc, seen, hist>>

\* Only visible reads: drop the locks, advance the clock.
ReadOnlyDrop(t) ==
    LET i == loc[t].i IN
    /\ pc[t] = "ro_drop"
    /\ \/ /\ i <= Len(tx[t].w_set)
          /\ lock' = [lock EXCEPT ![tx[t].w_set[i].addr] = Free(version[t][i])]
          /\ loc' = [loc EXCEPT ![t].i = i + 1]
          /\ UNCHANGED <<clock, pc>>
       \/ /\ i > Len(tx[t].w_set)
          /\ clock' = clock + 1
          /\ Goto(t, "end")
          /\ UNCHANGED <<lock, loc>>
    /\ UNCHANGED <<mem, version, order, manager, status, tx, seen, hist>>

StartInstall(t, ts) ==
    /\ Goto(t, "install")
    /\ loc' = [loc EXCEPT ![t].i = 1, ![t].v = ts]
    /\ hist' = [a \in Addr |-> hist[a] \cup
                  {ts : j \in {i \in DOMAIN tx[t].w_set : tx[t].w_set[i].addr = a /\ tx[t].w_set[i].mask}}]

CommitClock(t) ==
    /\ pc[t] = "commit_clock"
    /\ clock' = clock + 1
    /\ IF tx[t].start = clock THEN StartInstall(t, clock + 1)
       ELSE /\ loc' = [loc EXCEPT ![t].i = 1, ![t].v = clock + 1, ![t].for = "commit"]
            /\ Goto(t, "validate")
            /\ UNCHANGED hist
    /\ UNCHANGED <<lock, mem, version, order, manager, status, tx, seen>>

CommitValidated(t) ==
    /\ pc[t] = "validate"
    /\ loc[t].i > Len(tx[t].r_set)
    /\ loc[t].for = "commit"
    /\ StartInstall(t, loc[t].v)
    /\ UNCHANGED <<shared, status, tx, seen>>

\* Write back, then drop the lock: with the old version if it was for reading only.
Install(t) ==
    LET w == tx[t].w_set[loc[t].i] IN
    /\ pc[t] = "install"
    /\ loc[t].i <= Len(tx[t].w_set)
    /\ mem' = IF w.mask THEN [mem EXCEPT ![w.addr] = loc[t].v] ELSE mem
    /\ Goto(t, "install_drop")
    /\ UNCHANGED <<lock, clock, version, order, manager, status, tx, loc, seen, hist>>

InstallDrop(t) ==
    LET i == loc[t].i  w == tx[t].w_set[i] IN
    /\ pc[t] = "install_drop"
    /\ lock' = [lock EXCEPT ![w.addr] = Free(IF w.mask THEN loc[t].v ELSE version[t][i])]
    /\ loc' = [loc EXCEPT ![t].i = i + 1]
    /\ Goto(t, "install")
    /\ UNCHANGED <<mem, clock, version, order, manager, status, tx, seen, hist>>

Committed(t) ==
    /\ \/ pc[t] = "end"
       \/ pc[t] = "install" /\ loc[t].i > Len(tx[t].w_set)
    /\ tx' = [tx EXCEPT ![t] = [NoTx EXCEPT !.gen = tx[t].gen, !.nb = tx[t].nb]]
    /\ SetStatus(t, "COMMITTED")
    /\ seen' = [seen EXCEPT ![t] = {}]
    /\ Clear(t)
    /\ Goto(t, IF manager = "order" THEN "on_commit" ELSE "idle")
    /\ UNCHANGED <<shared, hist>>

mod_order_on_commit(t) ==
    /\ pc[t] = "on_commit"
    /\ order' = [order EXCEPT !.commit = @ + 1]
    /\ Goto(t, "idle")
    /\ UNCHANGED <<lock, mem, clock, version, manager, status, tx, loc, seen, hist>>

-----------------------------------------------------------------------------
Init ==
    /\ lock = [a \in Addr |-> Free(0)]
    /\ mem = [a \in Addr |-> 0]
    /\ clock = 0
    /\ status = [t \in Tx |-> [s |-> "IDLE", c |-> 0]]
    /\ version = [t \in Tx |-> [i \in Entry |-> 0]]
    /\ tx = [t \in Tx |-> NoTx]
    /\ pc = [t \in Tx |-> "idle"]
    /\ loc = [t \in Tx |-> NoLoc]
    /\ order = [next |-> 0, commit |-> 0]
    /\ manager \in Manager
    /\ seen = [t \in Tx |-> {}]
    /\ hist = [a \in Addr |-> {0}]

\* What the library does by itself once a call is made.
Running(t) ==
    \/ Retry(t) \/ mod_order_on_start(t)
    \/ Abort(t) \/ RollbackDrop(t) \/ StmDrop(t) \/ Dropped(t) \/ WaitLock(t)
    \/ CmStatus(t) \/ CmLock(t) \/ CmDecide(t) \/ Kill(t) \/ KillWait(t) \/ KillFailed(t)
    \/ StealFree(t) \/ StealAcquire(t) \/ VisibleValue(t) \/ AcquireCas(t)
    \/ Again(t) \/ Restart(t) \/ Upgrade(t)
    \/ LoadValue(t) \/ LoadRelock(t) \/ LoadVersion(t) \/ LoadCheck(t)
    \/ Validate(t) \/ Extended(t) \/ Recheck(t)
    \/ mod_order_on_precommit(t) \/ CommitCas(t) \/ ReadOnlyDrop(t) \/ CommitClock(t)
    \/ CommitValidated(t) \/ Install(t) \/ InstallDrop(t) \/ Committed(t)
    \/ mod_order_on_commit(t)

Next == \E t \in Tx : Running(t) \/ Start(t) \/ Load(t) \/ Store(t) \/ Commit(t)

Spec == Init /\ [][Next]_vars

\* Threads run, and a transaction has at least one and only so many loads and stores
\* before its commit.
Access(t) == tx[t].r_set \o tx[t].w_set = <<>> /\ (Load(t) \/ Store(t))
FairSpec == Spec /\ \A t \in Tx : WF_vars(Running(t) \/ Access(t)) /\ SF_vars(Commit(t))

-----------------------------------------------------------------------------
(* Properties *)

Attempt(t) == Is(t, "ACTIVE") \/ Is(t, "COMMITTING")
Passed(t) == IF pc[t] \in {"rollback", "drop", "ro_drop", "install", "install_drop"} THEN loc[t].i - 1
             ELSE IF pc[t] = "end" THEN Len(tx[t].w_set) ELSE 0
Points(t, i) == lock[tx[t].w_set[i].addr] = Owned(t, i, tx[t].w_set[i].mask)

\* As long as nobody has killed it, a transaction has the locks of all entries that it
\* has not dropped itself: only locks of killed transactions are stolen, and of a
\* killer and an owner racing for the status one goes on with the lock.
LocksKept ==
    \A t \in Tx : ~Is(t, "KILLED") =>
        \A i \in Passed(t) + 1 .. Len(tx[t].w_set) : Points(t, i)

\* A taken lock points into the write set of its owner as it is now: no lock is left
\* behind by stm_drop, none points to an entry of an attempt that is over.
NoLockLeft ==
    \A a \in Addr : ~IsFree(lock[a]) =>
        LET t == lock[a].owner IN
        /\ MyEntry(t, lock[a]) /\ lock[a].i > Passed(t)
        /\ tx[t].w_set[lock[a].i].addr = a

\* A free lock has the timestamp of the commit that wrote what memory holds, whatever
\* locks were stolen and given back in between.
CommittedMemory ==
    \A a \in Addr : IsFree(lock[a]) => mem[a] = lock[a].version /\ mem[a] = Newest(hist[a])

\* A transaction that writes back has read what the commits before its timestamp have
\* written; one with only visible reads, what is current when it drops its locks.
SerializableTx(t) ==
    \A r \in seen[t] :
        /\ pc[t] \in {"install", "install_drop"} => r.value = Snapshot(r.addr, loc[t].v - 1)
        /\ pc[t] = "ro_drop" /\ loc[t].i = 1 => r.value = Newest(hist[r.addr])

\* "Visible reads" (stm_attr_t): a transaction all of whose reads are visible is
\* serializable, whatever the others do, kill or steal.
VisibleSerializable == \A t \in Tx : tx[t].visible => SerializableTx(t)

\* "STM transactions ... consistent": so is every transaction that commits a write.
Serializable == \A t \in Tx : SerializableTx(t)

\* With mod_order, every transaction gets its turn: one that waits holds the locks that
\* those before it need, but is killed for them.
TurnComes == \A t \in Tx : pc[t] = "precommit" ~> pc[t] # "precommit"

\* The loops of stm_kill end: the other does not stay in the status waited for.
KillEnds == \A t \in Tx : pc[t] \in {"kill_wait", "kill_failed"} ~> pc[t] = "again"

=============================================================================
