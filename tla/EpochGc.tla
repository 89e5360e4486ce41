------------------------------- MODULE EpochGc -------------------------------
(***************************************************************************)
(* Memory of transactions: allocation and deferred deallocation            *)
(* (mod_cb_mem.c) on top of epoch-based reclamation (gc.c), with the calls *)
(* that int_stm_init_thread, int_stm_prepare, int_stm_commit,              *)
(* stm_rollback, rollover_clock and int_stm_exit_thread make to them       *)
(* (EPOCH_GC, mod_mem_init with use_gc).                                   *)
(*                                                                         *)
(* The transactional memory itself is taken for what the other modules     *)
(* show of it: an update commits atomically with a new timestamp, if the   *)
(* blocks it frees are still part of the data structure.                   *)
(***************************************************************************)
EXTENDS Integers, Sequences, FiniteSets, SequencesExt

CONSTANTS
    Tx,              \* threads
    Block,           \* addresses that xmalloc may return
    MAX_GC_THREADS,  \* number of slots
    VERSION_MAX,     \* clock value from which on the clock is reset
    ClockMax,        \* bound: no commit takes a timestamp above it
    Scenarios        \* sets of things that happen in the same execution, see Feature

Feature == {"reset",         \* the clock reaches VERSION_MAX
            "join",          \* threads register while others run transactions
            "exit",          \* threads leave
            "restart",       \* stm_exit without threads, and stm_init again
            "cleanup_all"}   \* the application calls gc_cleanup_all

ASSUME GcAssumption ==
    /\ IsFiniteSet(Tx)
    /\ Block \cap Tx = {}   \* blocks and descriptors are different chunks
    /\ MAX_GC_THREADS \in Nat \ {0}
    /\ VERSION_MAX \in Nat \ {0} /\ ClockMax \in Nat
    /\ Scenarios \subseteq SUBSET Feature

VARIABLES
    clock,      \* the global version clock
    slots,      \* gc_threads.slots
    nb_active,  \* gc_threads.nb_active
    threads,    \* threads registered for quiescence
    icb,        \* mod_cb_info_t: blocks to free upon commit, upon abort
    allocated,  \* chunks that malloc has given out: blocks, and descriptors
    pc, loc,
    linked,     \* application: the blocks of the committed data structure
    unlinked,   \* auxiliary: the timestamp at which a block left it
    features    \* what happens in this execution (chosen at the start)

vars == <<clock, slots, nb_active, threads, icb, allocated, pc, loc, linked, unlinked, features>>

Slot  == 0 .. MAX_GC_THREADS - 1
\* EPOCH_MAX, the greatest word, exceeds every clock value.
EPOCH_MAX == ClockMax + 1
Used  == {"NULL", "BUSY", "FREE_EMPTY", "FREE_FULL"}
Chunk == Block \cup Tx
Occurs(b, s) == {k \in DOMAIN s : s[k] = b}

\* gc_threads.slots: a list of regions, which are lists of blocks with a timestamp.
Free(slot) == [slot EXCEPT !.used = IF slot.regions = <<>> THEN "FREE_EMPTY" ELSE "FREE_FULL"]
Chunks(regions) == UNION {ToSet(regions[r].blocks) : r \in DOMAIN regions}

\* C locals of a thread: its slot and transaction start, the gc_free in progress (and
\* where it returns to), and the scan of the slots (on behalf of slot of).
NoLoc(t) == [idx |-> 0, start |-> 0, chunk |-> t, epoch |-> 0, then |-> "idle",
             of |-> 0, min |-> 0, i |-> 0, used |-> "NULL"]
Kept(t) == [NoLoc(t) EXCEPT !.idx = loc[t].idx]

\* mod_cb_on_thread_init: no callback for the transaction.  Its callbacks are the ones
\* of stm_malloc and stm_free, each stands for its block.
NoCallbacks == [commit |-> <<>>, abort |-> <<>>]
mod_cb_add_on_abort(t, b)  == icb' = [icb EXCEPT ![t].abort = Append(@, b)]
mod_cb_add_on_commit(t, b) == icb' = [icb EXCEPT ![t].commit = Append(@, b)]

Goto(t, label) == pc' = [pc EXCEPT ![t] = label]
heap == <<allocated, linked, unlinked>>
rest == <<nb_active, threads, features>>

-----------------------------------------------------------------------------
(* gc_init_thread, called by int_stm_init_thread *)

InitThread(t) ==
    /\ pc[t] = "out"
    /\ t \notin allocated
    /\ nb_active < MAX_GC_THREADS
    /\ nb_active' = nb_active + 1
    /\ loc' = [loc EXCEPT ![t].i = 0]
    /\ Goto(t, "slot")
    /\ UNCHANGED <<clock, slots, threads, icb, heap, features>>

\* Find a slot that is not busy ...
FindSlot(t) ==
    /\ pc[t] = "slot"
    /\ IF slots[loc[t].i].used = "BUSY"
       THEN loc' = [loc EXCEPT ![t].i = (loc[t].i + 1) % MAX_GC_THREADS] /\ UNCHANGED pc
       ELSE loc' = [loc EXCEPT ![t].used = slots[loc[t].i].used] /\ Goto(t, "slot_cas")
    /\ UNCHANGED <<clock, slots, icb, heap, rest>>

\* Mutant: a plain store in the place of the compare-and-swap.
BugTakeSlot(t) ==
    /\ pc[t] = "slot_cas"
    /\ slots' = [slots EXCEPT ![loc[t].i].used = "BUSY"]
    /\ loc' = [loc EXCEPT ![t].idx = loc[t].i]
    /\ Goto(t, "epoch")
    /\ UNCHANGED <<clock, icb, heap, rest>>

\* ... take it with compare-and-swap ...
TakeSlot(t) ==
    LET i == loc[t].i IN
    /\ pc[t] = "slot_cas"
    /\ IF slots[i].used = loc[t].used
       THEN /\ slots' = [slots EXCEPT ![i].used = "BUSY"]
            /\ loc' = [loc EXCEPT ![t].idx = i]
            /\ Goto(t, "epoch")
       ELSE /\ loc' = [loc EXCEPT ![t].i = (i + 1) % MAX_GC_THREADS]
            /\ Goto(t, "slot")
            /\ UNCHANGED slots
    /\ UNCHANGED <<clock, icb, heap, rest>>

\* ... and set a safe lower bound: the current epoch, loaded and then stored.
ReadEpoch(t) ==
    /\ pc[t] = "epoch"
    /\ loc' = [loc EXCEPT ![t].start = clock]
    /\ Goto(t, "bound")
    /\ UNCHANGED <<clock, slots, icb, heap, rest>>

SetBound(t) ==
    /\ pc[t] = "bound"
    /\ slots' = [slots EXCEPT ![loc[t].idx].ts = loc[t].start]
    /\ loc' = [loc EXCEPT ![t] = Kept(t)]
    /\ Goto(t, "enter")
    /\ UNCHANGED <<clock, icb, heap, rest>>

\* The descriptor, stm_quiesce_enter_thread and mod_cb_on_thread_init.
EnterThread(t) ==
    /\ pc[t] = "enter"
    /\ threads' = threads \cup {t}
    /\ allocated' = allocated \cup {t}
    /\ icb' = [icb EXCEPT ![t] = NoCallbacks]
    /\ Goto(t, "idle")
    /\ UNCHANGED <<clock, slots, nb_active, loc, linked, unlinked, features>>

-----------------------------------------------------------------------------
(* int_stm_prepare: the clock is read, and becomes the thread's epoch *)

Start(t) ==
    /\ pc[t] = "idle"
    /\ "join" \in features \/ threads = Tx
    /\ Goto(t, "prepare")
    /\ UNCHANGED <<clock, slots, loc, icb, heap, rest>>

Prepare(t) ==
    /\ pc[t] = "prepare"
    /\ IF clock >= VERSION_MAX THEN Goto(t, "barrier") /\ UNCHANGED loc
                               ELSE Goto(t, "set_epoch") /\ loc' = [loc EXCEPT ![t].start = clock]
    /\ UNCHANGED <<clock, slots, icb, heap, rest>>

gc_set_epoch(t) ==
    /\ pc[t] = "set_epoch"
    /\ slots' = [slots EXCEPT ![loc[t].idx].ts = loc[t].start]
    /\ Goto(t, "active")
    /\ UNCHANGED <<clock, loc, icb, heap, rest>>

\* rollover_clock, once the registered threads are blocked: gc_reset frees everything.
Rollover ==
    /\ threads # {}
    /\ \A t \in threads : pc[t] = "barrier"
    /\ clock' = 0
    /\ allocated' = allocated \ UNION {Chunks(slots[i].regions) : i \in Slot}
    /\ slots' = [i \in Slot |-> IF slots[i].used = "NULL" THEN slots[i]
                                ELSE [slots[i] EXCEPT !.ts = EPOCH_MAX, !.regions = <<>>]]
    /\ unlinked' = [b \in Block |-> 0]
    /\ pc' = [t \in Tx |-> IF t \in threads THEN "prepare" ELSE pc[t]]
    /\ UNCHANGED <<loc, icb, linked, rest>>

-----------------------------------------------------------------------------
(* Transactions: stm_malloc, stm_free, commit and abort callbacks *)

\* int_stm_malloc: the memory is freed upon abort.
Malloc(t) ==
    /\ pc[t] = "active"
    /\ \E b \in Block \ allocated :
          /\ allocated' = allocated \cup {b}
          /\ mod_cb_add_on_abort(t, b)
          /\ unlinked' = [unlinked EXCEPT ![b] = 0]
    /\ UNCHANGED <<clock, slots, pc, loc, linked, rest>>

\* int_stm_free2: disposal is delayed until commit.  The block belongs to the data
\* structure or to the transaction itself, which frees it once.
FreeBlock(t) ==
    /\ pc[t] = "active"
    /\ \E b \in (linked \cup ToSet(icb[t].abort)) \ ToSet(icb[t].commit) :
          mod_cb_add_on_commit(t, b)
    /\ UNCHANGED <<clock, slots, pc, loc, heap, rest>>

\* The commit: what was allocated is linked, what was freed is not.
Commit(t) ==
    LET new  == ToSet(icb[t].abort) \ ToSet(icb[t].commit)
        dead == ToSet(icb[t].commit)
    IN
    /\ pc[t] = "active"
    /\ clock < ClockMax /\ ("reset" \notin features => clock + 1 < VERSION_MAX)
    /\ dead \subseteq linked \cup ToSet(icb[t].abort)
    /\ clock' = clock + 1
    /\ linked' = (linked \cup new) \ dead
    /\ unlinked' = [b \in Block |-> IF b \in dead THEN clock + 1 ELSE unlinked[b]]
    /\ loc' = [loc EXCEPT ![t] = Kept(t)]
    /\ Goto(t, "callback")
    /\ UNCHANGED <<slots, icb, allocated, rest>>

\* Mutant: the abort list survives the commit.
BugOnCommitEnd(t) ==
    /\ pc[t] = "callback"
    /\ icb[t].commit = <<>>
    /\ Goto(t, "idle")
    /\ UNCHANGED <<clock, slots, loc, icb, heap, rest>>

\* mod_cb_on_commit: the commit callbacks in reverse order, each an epoch_free,
\* which loads the clock ...
OnCommit(t) ==
    /\ pc[t] = "callback"
    /\ icb[t].commit # <<>>
    /\ loc' = [loc EXCEPT ![t].chunk = Last(icb[t].commit), ![t].epoch = clock, ![t].then = "callback"]
    /\ icb' = [icb EXCEPT ![t].commit = Front(@)]
    /\ Goto(t, "gc_free")
    /\ UNCHANGED <<clock, slots, heap, rest>>

\* ... and at last the abort list is dropped.
OnCommitEnd(t) ==
    /\ pc[t] = "callback"
    /\ icb[t].commit = <<>>
    /\ icb' = [icb EXCEPT ![t].abort = <<>>]
    /\ Goto(t, "idle")
    /\ UNCHANGED <<clock, slots, loc, heap, rest>>

\* mod_cb_on_abort: free what was allocated, forget what was freed; then retry or not.
OnAbort(t) ==
    /\ pc[t] = "active"
    /\ allocated' = allocated \ ToSet(icb[t].abort)
    /\ icb' = [icb EXCEPT ![t] = NoCallbacks]
    /\ loc' = [loc EXCEPT ![t] = Kept(t)]
    /\ \E retry \in BOOLEAN : Goto(t, IF retry THEN "prepare" ELSE "idle")
    /\ UNCHANGED <<clock, slots, linked, unlinked, rest>>

-----------------------------------------------------------------------------
(* gc_free and gc_cleanup *)

\* Add the chunk to the thread's last region, or to a new one.
gc_free(t) ==
    LET idx == loc[t].idx
        rs  == slots[idx].regions
        e   == loc[t].epoch
    IN
    /\ pc[t] = "gc_free"
    /\ slots' = [slots EXCEPT ![idx].regions =
          IF rs = <<>> \/ Last(rs).ts < e
          THEN Append(rs, [ts |-> e, blocks |-> <<loc[t].chunk>>])
          ELSE [rs EXCEPT ![Len(rs)].blocks = <<loc[t].chunk>> \o @]]
    /\ Goto(t, "cleanup")
    /\ UNCHANGED <<clock, loc, icb, heap, rest>>

\* gc_cleanup: the current epoch is the first bound.
gc_cleanup(t) ==
    /\ pc[t] = "cleanup"
    /\ loc' = [loc EXCEPT ![t].of = loc[t].idx, ![t].min = clock, ![t].i = 0]
    /\ Goto(t, "scan")
    /\ UNCHANGED <<clock, slots, icb, heap, rest>>

\* gc_compute_min: one slot after the other, its use first ...
ScanUsed(t) ==
    LET i == loc[t].i IN
    /\ pc[t] = "scan"
    /\ IF i \notin Slot THEN Goto(t, "reclaim") /\ UNCHANGED loc
       ELSE CASE slots[i].used = "BUSY" -> Goto(t, "scan_ts") /\ UNCHANGED loc
              [] slots[i].used = "NULL" -> Goto(t, "reclaim") /\ UNCHANGED loc
              [] OTHER                  -> loc' = [loc EXCEPT ![t].i = i + 1] /\ UNCHANGED pc
    /\ UNCHANGED <<clock, slots, icb, heap, rest>>

\* Mutant: a slot without a bound is passed over.
BugScanTs(t) ==
    LET i == loc[t].i  ts == slots[i].ts IN
    /\ pc[t] = "scan_ts"
    /\ loc' = [loc EXCEPT ![t].i = i + 1, ![t].min = IF ts < loc[t].min THEN ts ELSE loc[t].min]
    /\ Goto(t, "scan")
    /\ UNCHANGED <<clock, slots, icb, heap, rest>>

\* ... then its timestamp; a slot without a safe lower bound is waited for.
ScanTs(t) ==
    LET i == loc[t].i  ts == slots[i].ts IN
    /\ pc[t] = "scan_ts"
    /\ IF ts = EPOCH_MAX
       THEN UNCHANGED loc
       ELSE loc' = [loc EXCEPT ![t].i = i + 1, ![t].min = IF ts < loc[t].min THEN ts ELSE loc[t].min]
    /\ Goto(t, "scan")
    /\ UNCHANGED <<clock, slots, icb, heap, rest>>

\* gc_cleanup_thread: free the regions, up to the first that is not older than the
\* minimum.
gc_cleanup_thread(t) ==
    LET rs == slots[loc[t].of].regions IN
    /\ pc[t] = "reclaim"
    /\ \E n \in 0 .. Len(rs) :
          /\ \A r \in 1 .. n : rs[r].ts < loc[t].min
          /\ n < Len(rs) => rs[n + 1].ts >= loc[t].min
          /\ allocated' = allocated \ Chunks(SubSeq(rs, 1, n))
          /\ slots' = [slots EXCEPT ![loc[t].of].regions = SubSeq(rs, n + 1, Len(rs))]
    /\ loc' = [loc EXCEPT ![t] = Kept(t)]
    /\ Goto(t, loc[t].then)
    /\ UNCHANGED <<clock, icb, linked, unlinked, rest>>

\* gc_cleanup_all: take a slot that an exited thread has left full, and scan (in
\* vain: the slot itself is busy now, and has no bound).
gc_cleanup_all(t) ==
    /\ "cleanup_all" \in features
    /\ pc[t] = "idle"
    /\ \E i \in Slot :
          /\ slots[i].used = "FREE_FULL"
          /\ slots' = [slots EXCEPT ![i].used = "BUSY"]
          /\ loc' = [loc EXCEPT ![t].of = i, ![t].min = clock, ![t].i = 0, ![t].then = "idle"]
    /\ Goto(t, "scan")
    /\ UNCHANGED <<clock, icb, heap, rest>>

-----------------------------------------------------------------------------
(* int_stm_exit_thread *)

\* mod_cb_on_thread_exit and stm_quiesce_exit_thread ...
ExitThread(t) ==
    /\ "exit" \in features
    /\ pc[t] = "idle"
    /\ threads' = threads \ {t}
    /\ Goto(t, "exit")
    /\ UNCHANGED <<clock, slots, nb_active, loc, icb, heap, features>>

\* ... then the descriptor (with its sets, one chunk here) is left to gc_free ...
ExitFree(t) ==
    /\ pc[t] = "exit"
    /\ loc' = [loc EXCEPT ![t].chunk = t, ![t].epoch = clock, ![t].then = "exit_ts"]
    /\ Goto(t, "gc_free")
    /\ UNCHANGED <<clock, slots, icb, heap, rest>>

\* ... and gc_exit_thread gives the bound and the slot back.
ExitTs(t) ==
    /\ pc[t] = "exit_ts"
    /\ slots' = [slots EXCEPT ![loc[t].idx].ts = EPOCH_MAX]
    /\ Goto(t, "exit_used")
    /\ UNCHANGED <<clock, loc, icb, heap, rest>>

ExitUsed(t) ==
    /\ pc[t] = "exit_used"
    /\ slots' = [slots EXCEPT ![loc[t].idx] = Free(@)]
    /\ Goto(t, "exit_nb")
    /\ UNCHANGED <<clock, loc, icb, heap, rest>>

ExitNb(t) ==
    /\ pc[t] = "exit_nb"
    /\ nb_active' = nb_active - 1
    /\ loc' = [loc EXCEPT ![t] = NoLoc(t)]
    /\ Goto(t, "out")
    /\ UNCHANGED <<clock, slots, threads, icb, heap, features>>

-----------------------------------------------------------------------------
(* Process *)

\* gc_init
NoSlots == [i \in Slot |-> [used |-> "NULL", ts |-> EPOCH_MAX, regions |-> <<>>]]

\* gc_exit (the process ends if a thread is active) frees the garbage that threads have
\* left; the next stm_init allocates the slots again and starts the clock at 0.
gc_exit ==
    /\ "restart" \in features
    /\ nb_active = 0
    /\ allocated' = allocated \ UNION {Chunks(slots[i].regions) : i \in Slot}
    /\ slots' = NoSlots
    /\ clock' = 0
    /\ unlinked' = [b \in Block |-> 0]
    /\ UNCHANGED <<icb, pc, loc, linked, rest>>

Init ==
    /\ clock = 0
    /\ slots = NoSlots
    /\ nb_active = 0
    /\ threads = {}
    /\ icb = [t \in Tx |-> NoCallbacks]
    /\ allocated = {}
    /\ pc = [t \in Tx |-> "out"]
    /\ loc = [t \in Tx |-> NoLoc(t)]
    /\ linked = {}
    /\ unlinked = [b \in Block |-> 0]
    /\ features \in Scenarios

Next ==
    \/ \E t \in Tx :
         \/ InitThread(t) \/ FindSlot(t) \/ TakeSlot(t) \/ ReadEpoch(t) \/ SetBound(t)
         \/ EnterThread(t) \/ Start(t) \/ Prepare(t) \/ gc_set_epoch(t)
         \/ Malloc(t) \/ FreeBlock(t) \/ Commit(t) \/ OnCommit(t) \/ OnCommitEnd(t) \/ OnAbort(t)
         \/ gc_free(t) \/ gc_cleanup(t) \/ ScanUsed(t) \/ ScanTs(t) \/ gc_cleanup_thread(t)
         \/ gc_cleanup_all(t)
         \/ ExitThread(t) \/ ExitFree(t) \/ ExitTs(t) \/ ExitUsed(t) \/ ExitNb(t)
    \/ Rollover \/ gc_exit

Spec == Init /\ [][Next]_vars

-----------------------------------------------------------------------------
(* Properties *)

\* A block that is given back to malloc has left the data structure before any
\* transaction that still runs has started, whatever gc_compute_min sees of the
\* slots while threads come, go, start transactions and reset their epochs.
NoDangling ==
    \A t \in Tx : pc[t] \in {"set_epoch", "active"} =>
        \A b \in Block \ allocated : unlinked[b] <= loc[t].start

\* The places that account for a chunk: the abort list of a running transaction that
\* allocated it, the commit list of one that has committed, a gc_free under way, a
\* garbage region, the data structure; for a descriptor, its thread.
Listed(t) == IF pc[t] = "active" THEN icb[t].abort ELSE icb[t].commit
InUse == linked \cup threads \cup {t \in Tx : pc[t] = "exit"}
InLists(c) == UNION {{<<"list", t, 0, k>> : k \in Occurs(c, Listed(t))} : t \in Tx}
InCalls(c) == {<<"free", t, 0, 0>> : t \in {u \in Tx : pc[u] = "gc_free" /\ loc[u].chunk = c}}
InGarbage(c) ==
    UNION {UNION {{<<"garbage", i, r, k>> : k \in Occurs(c, slots[i].regions[r].blocks)} :
                      r \in DOMAIN slots[i].regions} : i \in Slot}
Places(c) ==
    InLists(c) \cup InCalls(c) \cup InGarbage(c) \cup {<<"use", 0, 0, 0>> : x \in {c} \cap InUse}

\* No memory is lost and none is freed twice, through any sequence of commits,
\* rollbacks, clock resets and exits: exactly one place has each allocated chunk.
Accounted ==
    \A c \in Chunk : Cardinality(Places(c)) = IF c \in allocated THEN 1 ELSE 0

\* No two threads have one slot, and none has a slot that gc_compute_min may pass over.
HasSlot(t) == pc[t] \notin {"out", "slot", "slot_cas", "exit_nb"}
SlotOwner ==
    \A t \in Tx : HasSlot(t) =>
        /\ \A i \in 0 .. loc[t].idx : slots[i].used # "NULL"
        /\ slots[loc[t].idx].used = "BUSY"
        /\ \A u \in Tx \ {t} : HasSlot(u) => loc[u].idx # loc[t].idx

\* "must be called with all threads stopped and out of transactions" (gc_reset):
\* no thread is in a call to the garbage collector when its state is reset.
ResetStopped ==
    [][clock' < clock /\ nb_active # 0 => \A t \in Tx : pc[t] \in {"out", "barrier", "slot", "slot_cas", "idle"}]_vars

=============================================================================
