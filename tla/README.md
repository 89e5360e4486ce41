# TinySTM: a verification development

TLA+ models of the word-based software transactional memory in this repository, the instances
that TLC checks, and proofs that TLAPS checks. Line numbers are those of the sources; `stm.c`,
`stm_internal.h` and the other library files are in `src/`, the public API in `include/`, the
compiler interfaces in `abi/`.

Builds that are modelled: `WRITE_BACK_ETL` with `CM_BACKOFF` (the default of the `Makefile`), the
same with `CM_MODULAR`, `WRITE_BACK_CTL`, `WRITE_THROUGH`; `IRREVOCABLE_ENABLED`, `EPOCH_GC`, `UNIT_TX`;
assertions compiled out (`NDEBUG`).

## 1. Inventory

| component | state | operations | talks to | modules |
|---|---|---|---|---|
| write-back, encounter-time locking (`stm_wbetl.h`) | lock array (version, or owner), read and write sets, snapshot `[start, end]` | read, write, extend, validate, commit, rollback | clock, lock array, memory, irrevocability flag | `Stm`, `WbEtl` |
| write-back, commit-time locking (`stm_wbctl.h`) | as above, locks taken in commit | as above | as above | `Stm`, `WbCtl` |
| write-through (`stm_wt.h`) | undo log, incarnation numbers in free locks | as above, rollback undoes memory in place | as above | `Stm`, `WriteThrough` |
| life cycle and irrevocability (`stm_internal.h`, `stm.c`) | descriptor (`stm_tx_t`), the global flag | start, prepare, rollback (restart by `longjmp`), commit, `stm_set_irrevocable` | designs, quiescence, callbacks | `Stm`, `Quiesce`, `Library` |
| unit loads and stores (`stm.c` 733-827) | a timestamp of the caller | load, store, conditional store of a word outside of transactions | lock array, clock, barrier | `UnitTx` |
| quiescence (`stm_internal.h` 443-676) | `quiesce`, `threads_nb`, list of descriptors, `quiesce_mutex`, `quiesce_cond` | enter and exit thread, barrier, quiesce, check, release, clock reset | every thread's status word | `Quiesce` |
| modular contention manager (`CM_MODULAR`), `mod_order.c` | status word with a counter, entry versions, tickets | kill, drop, steal a lock, visible reads, policies, commit in order | default design | `ModularCm` |
| epoch GC (`gc.c`), memory module (`mod_cb_mem.c`) | slots with epochs and garbage regions; lists of blocks to free | set epoch, free, cleanup, reset; malloc, free, on commit, on abort | prepare, commit, clock reset | `EpochGc` |
| library life cycle (`stm.c`, `tls.h`) | callback tables, list of threads, nesting | init, exit, threads, register, start, commit, abort | all | `Library` |
| undo log, user callbacks, statistics (`mod_log.c`, `mod_cb_mem.c`, `mod_stats.c`, `mod_ab.c`, `mod_print.c`) | data of a thread under a key; global totals | callbacks | life cycle | `Library`, `SmartCounter` |
| Intel ABI (`abi/abi.c`) | status of the process | initialize on demand, finalize, begin, commit, abort | API | `Abi` |
| clone tables (`abi/gcc/clone.c`) | list of sorted arrays | register, deregister, find | irrevocability | `CloneTable` |
| sub-word access (`wrappers.c`, parts of `abi.c`) | none | splits accesses into masked words | designs | `SubWord` |

Threads share memory without locks of the operating system except `quiesce_mutex` and `ab_mutex`.
What makes the code hard:

* a load is three reads of shared memory (lock, word, lock) and may contain a whole extension of the
  snapshot, during which others commit;
* the commit takes a timestamp, then validates, then writes, so that two commits overlap;
* a rollback is not atomic, and restarts in the middle of a protocol (irrevocability held, or asked for);
* with write-through, memory holds values that may be undone; with `CM_MODULAR`, a transaction's locks
  are taken away while it runs;
* the clock is reset while transactions are in flight, which needs everyone at a barrier;
* the same variable `quiesce` serves the barrier and serial irrevocability, and is read without the mutex;
* memory is freed while others may still hold a pointer to it.

What makes each component correct:

* designs: committed transactions serialize; a running one sees one snapshot; buffered or undone
  values are never seen; each lock is given back exactly once, with a word that it never had before;
* irrevocability: one holder, which never rolls back and whose reads stay valid;
* quiescence: the reset finds everybody blocked; a serial transaction is alone; nobody sleeps for ever;
* contention manager: the locks of a killed transaction go on to one owner; kills and turns end;
* epoch GC: nothing is freed that a transaction can reach, everything is freed once;
* library: callbacks and logs take effect once, according to the outcome; totals are what happened;
* sub-word access: exactly the bytes asked for are read and written.

The hazards, each at its line, are in `PROJECT.json` with the properties that watch them.

## 2. Modules

```
              OpaqueTm  <----- refinement mapping ----- TmRefinement
                                                         |  EXTENDS
  WbEtl, WbCtl, WriteThrough  ---- EXTENDS ---->  Stm <--+        Quiesce      ModularCm     EpochGc
    ^                                              |
    +-- UnitTx                     MCDesigns: the three designs and TmRefinement, side by side
                  Abi -- EXTENDS --> Library       SmartCounter     CloneTable    SubWord
                  MCApi: instances of these five, one chosen at the start
```

Proofs, each module on top of the one before (an arrow is EXTENDS):

```
WbEtl <-- WbEtlProofs <-- WbEtlMemoryProofs <-- WbEtlSerialProofs <-- WbEtlOpacityProofs --> TmRefinement
                 types,            memory, versions,    snapshots, commits,    the refinement of OpaqueTm
                 lock owners       clock                irrevocability
UnitTx, WbEtlMemoryProofs <-- UnitTxProofs    Quiesce <-- QuiesceProofs
ModularCm <-- CmProofs                        EpochGc <-- GcProofs
```

### Stm, WbEtl, WbCtl, WriteThrough

`Stm` has what the designs share: descriptors, the clock and its reset, lock words, start and
prepare, validation and extension, the end of a rollback and of a commit, irrevocability, and the
properties. Each design adds its loads, stores, commit and rollback. Every access to shared memory
(lock word, data word, clock, flag) is a step; what a thread does between two of them belongs to the
step before. Labels name the accesses:

| code | actions |
|---|---|
| `int_stm_start`, `int_stm_prepare` | `Start`, `Prepare`, `PrepareBarrier`, `Rollover`, `AcquireIrrevocable` |
| `stm_*_read` | `Load`, `LoadAgain` (lock), `LoadValue`, `LoadRestart`, `LoadReturn`, `LoadTooNew` or `ReadTooNew` (lock again), `LoadRecheck` (after an extension) |
| `stm_*_extend`, `stm_*_validate` | `Extend` reads the clock, `ValidateEntry` one lock at a time, `Extended`, `ValidateFails` |
| `stm_wbetl_write`, `stm_wt_write` | `Store`, `StoreAgain` (lock), `StoreAcquire`, `StoreCasFails`; write-through: `StoreMem` |
| `stm_wbctl_write` | `Store`, `StoreAgain`, `WaW`: no lock is taken |
| `int_stm_commit`, `stm_*_commit` | `CommitReadOnly`, `Commit` (flag), the locks of `WbCtl`, the clock, validation, `Install` and `Drop` per entry, `CommitEnd` |
| `stm_rollback`, `stm_*_rollback` | per entry `RollbackDrop`, or `Undo`, `UndropClock`, `Undrop`; `RollbackEnd` |
| `stm_set_irrevocable`, `stm_abort` | `RequestIrrevocable`, `SetIrrevocable`, `SetIrrevocableFails`, `IrrevocableValidated`, `UserAbort` |

The linked list of the entries of one lock is the subsequence of the write set with that lock, as the
code builds it. Words are functions from byte positions to values, because masks select bytes.
A lock word is `[owner, version, incarnation]`; the owner names the descriptor, not the first entry.
`tx.no_extend` and the feature `set_extension` are the attribute of `stm_set_extension`.

Two auxiliary variables record what properties compare with: `hist`, the committed versions of every
address, and `seen`, what the current attempt has loaded, with the bytes that come from its own
stores. No guard reads them. `Rollover` is the barrier and the reset as one step, enabled when all
threads have arrived; that the real barrier amounts to that is the subject of `Quiesce`.

### OpaqueTm, TmRefinement

`OpaqueTm` is what an application may rely on, without locks: a history of versions, transactions
that start, load, commit at a timestamp, end without a write, or abort. A load is allowed if all the
loads of the transaction held together at one time since it started; a commit with timestamp `ts`
requires that they hold just before `ts`, and that no committed transaction has read later than
`ts` what it overwrites. Loads of the transaction's own bytes match anything. `SerialSpec` is the same
without the condition on loads (`Observe` for `Load`): what commits is serialized at the timestamps, which lie
between the start and the end of each transaction, whatever running transactions have loaded.

`TmRefinement` maps a design to it: `now` is the clock, a transaction runs from its read of the clock
to its rollback or write-back, `seen` and `hist` are the auxiliary variables, and the history
variable `readAt` is added beside the design. `Opaque` is the abstract specification under this mapping, `StrictlySerializable` its `SerialSpec`.
A load of memory under a lock of one's own is not in `seen` of the mapped state, see `doc_load_consistency`.

### UnitTx

The transactions of `WbEtl` with threads that, between two transactions, make unit loads (lock, value,
lock) and unit stores (lock, compare-and-swap to `LOCK_UNIT`, value, clock, release, barrier). The
timestamp variable of the application is kept over calls, so that it may be old; `fresh` (auxiliary)
says that the clock was not reset since.

### Quiesce

The barrier, registration, serial mode and the flag, over transactions whose body is abstract (commit,
roll back, ask for irrevocability). A critical section of `quiesce_mutex` is one step; a thread that
quiesces keeps the mutex over many. `pthread_cond_signal` wakes one waiter, a wait may end by itself
(`SpuriousWakeup`), `pthread_mutex_trylock` may fail because of any thread that can be in a section.
Reads of `quiesce` and of a status word outside of the mutex are steps of their own. With
`StoreBuffer = n > 0` up to n stores to a thread's status are in flight (x86: a load may overtake an
earlier store to another location); atomic read-modify-write and mutex operations wait for them.

| code | actions |
|---|---|
| `stm_quiesce_enter_thread`, `stm_quiesce_exit_thread` | `Enter`, `Exit` |
| `int_stm_prepare` | `Prepare`, `TakeFlag`, `Activate` |
| `stm_quiesce_barrier` | `Barrier`, `BarrierAwake` (both run `BarrierLoop`) |
| `stm_check_quiesce` | `CheckPasses`, `CheckBlocks`, `SpinEnds`, `Resume` |
| `stm_quiesce` | `LockQuiesce`, `TryQuiesceFails`, `Scan`, `ScanEnds` |
| `stm_rollback`, `int_stm_commit`, `stm_quiesce_release` | `Abort`, `Commit`, `CommitReadOnly`, `ReleaseFlag`, `ReleaseQuiesce`, `Unlock`, `Finish` |
| `stm_set_irrevocable` | `RequestIrrevocable`, `SetIrrevocable` |

### ModularCm

The default design once more, with what `CM_MODULAR` changes: the status word with its counter of
attempts, which killers and the owner change with compare-and-swap; `stm_kill` (`Kill`, `KillWait`,
`KillFailed`); stealing (`StealFree`, `StealAcquire`); `stm_drop` by whoever was killed (`StmDrop`), which
reallocates the write set (`gen` in a lock word says of which allocation it is an entry); visible
reads, which own the lock for reading and are upgraded (`VisibleValue`, `Upgrade`); the six policies
(`CmDecide`); and the callbacks of `mod_order`. To stay finite it leaves out irrevocability, masks and
stripes, which `WbEtl` has.

### EpochGc

Slots of `gc.c` and the lists of `mod_cb_mem.c`, over a shared structure that is reduced to the set
`linked` of its blocks: a commit unlinks the blocks that it frees, at a timestamp. Registration
(`FindSlot`, `TakeSlot`, ...), the scan of `gc_compute_min` slot by slot (`ScanUsed`, `ScanTs`),
cleanup, exit, the clock reset and `stm_exit`/`stm_init` are actions. `Scenarios` says which of them
come together in an execution. `gc_cleanup_thread` cuts the longest run of regions at the old end of the list
that are older than the minimum; `Accounted` says that each allocated block is in exactly one of the `Places`
where a program or a list can hold it.

### Library, Abi, SmartCounter, CloneTable, SubWord

`Library` is the layer between the application and a design, which it reduces to its outcome: an access
conflicts or not, a commit installs or conflicts. Callbacks are kept in the order of registration and
run as the code runs them; the modules that can be registered are the undo log (`log`), user callbacks
(`cb`), retry statistics (`stats`), samples (`ab`) and `order`. The exit callback of `mod_stats` publishes
field by field. `given_up` in the history says that an abort ended its transaction (`no_retry`);
`MaxNesting` bounds the depth. `Abi` adds the entry points of the Intel ABI: status checks, the compare-and-swap of
`abi_init`, finalization, begin with nesting, commit, abort. Of the attributes of begin it has what they do to
the library's state above the design: a nested begin of code that goes irrevocable may roll the enclosing transaction back.

`SmartCounter` is the reservoir and the percentiles of an atomic block; the random numbers of
`sc_add_sample` are nondeterministic. `CloneTable` is the list of tables and the binary search.
The loop of `_ITM_registerTMCloneTable` is `Link` and `RegisterCas` in turn, until the compare-and-swap returns
the node itself: a registration goes on for one turn or more after it has linked its node. The list may therefore
become cyclic, so that `Walk` stops where it has been before and `find_clone` may answer `Endless`. Of the
history variables, `linked` has the objects whose node was put in the list, and `raced` says that one was put there
before another's registration had noticed its own success. An object is unloaded when nothing else goes on, as the comment in
`_ITM_deregisterTMCloneTable` requires of the caller. `SubWord` has the splitting of loads, stores and
copies as functions on bytes, with the junk that a mask must hide.

## 3. Properties

Designs, in `Stm` and the design modules (`MCDesigns` states them for all three):

* `Opaque`: every step of the design is a step of `OpaqueTm`.
* `Serializable`: what a committing transaction has loaded is the state just before its timestamp.
* `SnapshotReads`: what a running one has logged is the state at `tx->end`, including commits that have
  a timestamp and have not written yet.
* `CommittedMemory`: memory under a free lock is the last committed state, its version is not older.
* `LockOwner` (`Owners`): a lock is owned exactly by the transaction that has to drop it.
* `WordsNeverReturn`: a lock that is given back has a word that it did not have before since the last
  reset, through aborts and commits of several threads.
* `BytesKept`: a masked store keeps the other bytes as the commits before left them, and the own loads
  see the own bytes.
* `IrrevocableUnique`, `IrrevocableStable`, `IrrevocableNeverAborts`: the promises of irrevocability.
* `ClockBounds`: in the write-back designs the clock overshoots `VERSION_MAX` by less than one per thread. With
  write-through it does not hold, see `doc_wt_clock`.
* `UnitLoadsCommitted`, `UnitStoresCurrent`: value and timestamp of a unit load belong together; a
  conditional unit store is a compare-and-swap.

`Quiesce`: `ThreadsCount`, `HolderBlocks`, `SerialExcludesNewcomers`, `RolloverAlone`, `BarrierOpens`,
`BarrierReached`, `Quiesces`. `SerialExcludesNewcomers` is the part of `SerialAlone` that holds: only a
transaction that has been through the loop of `stm_check_quiesce` (auxiliary variable `spun`) can run
beside a serial one. `Quiesces` says that the walk of `stm_quiesce` ends and its thread gets to run, not that it
is alone then; `quiesce_live` has late status stores, with which it need not be.

`ModularCm`: `LocksKept`, `NoLockLeft`, `CommittedMemory`, `VisibleSerializable`, `TurnComes`, `KillEnds`.
`EpochGc`: `NoDangling`, `Accounted`, `SlotOwner`. The layers around: `GlobalStats`, `SamplesAccounted`,
`UndoRestores`, `LogBlocks`, `CallbacksRun`, `DescriptorsListed`, `PercentilesSound`, `ClonesFound`,
`BytesExact`. Each is stated in words above its definition. Two of them depend on what happens:

* `GlobalStats` gives the numbers of `mod_stats` the meaning of its comments as long as no transaction is given up. If one
  was, it says that the commits are exact and that each abort is either counted or still in `retries` of its thread,
  where a later commit, perhaps of another transaction, will report it (`doc_stats_given_up`).
* `ClonesFound` is about executions in which no node is linked between another node's linking and the
  turn of the loop that notices it (`~raced`). Compare-and-swaps that fail, and any number of registrations one after
  the other, are in it; for the rest see `doc_clone_register`.

Operators named `Bug...` are the code with a plausible error; each makes TLC find the property it is
listed with (`mutants` in `PROJECT.json`) violated. No action uses them.

## 4. Runs

All finish within five minutes with two workers.

| run | instance |
|---|---|
| `unit` | 2 transactional threads, one of which also makes unit calls, on one of 2 addresses; snapshots extended or not (`stm_set_extension`); clock reset after 1 commit |
| `designs_opaque` | each design: 2 threads that store words of their own, 2 addresses under 2 locks, attempts of 2 accesses, parallel irrevocability (not with write-through), clock reset |
| `designs_layout` | each design: 2 addresses under one lock, words of 2 bytes of which a store changes one, a write set of capacity 1 that grows, attempts of 3 accesses (2 for write-through: `MaxLogWt`), `stm_abort`, read-only transactions, incarnations 0 and 1 |
| `quiesce_serial` | 3 threads: one asks for either mode and may restart while irrevocable, one asks for serial mode, one comes and goes; clock reset after one commit |
| `quiesce_live` | 2 threads, one asks for serial mode, a late status store each, fairness |
| `gc` | 2 threads, 2 blocks, 2 slots; either clock resets, or threads that join and leave with `gc_cleanup_all` and a restart of the library |
| `cm` | 2 threads of one transaction each, 2 addresses, policies `timestamp` and `order`, visible reads from the start, after an abort, or never |
| `cm_live` | the same with 1 address, attempts without bound, fairness |
| `api` | statistics: 2 threads and 2 lives with 4 events; log and callbacks: 2 addresses, entries that overlap, 2 callbacks; ABI: 2 threads that come together, 4 lives, 2 initializations; percentiles: reservoir of 4, 6 samples; clones: 3 objects, 5 functions in two assignments (one has a function without a clone between two that have one, one a gap across objects), 3 loads; sub-word: memory of 24 bytes, words of 4 and 8 bytes, blocks up to 16 |

### Where the code and its comments disagree

Runs whose counterexample TLC finds:

| run | what happens |
|---|---|
| `doc_cm_lost_update` | `CM_MODULAR`, invisible reads: two transactions that read the same state both commit a write of it |
| `doc_wt_undo` | write-through: `stm_wt_write` finds the entry of an address acquired with mask 0 and remembers the old value in the first entry of its lock instead (`w` for `prev`, line 317); an abort leaves the aborted value in memory |
| `doc_clone_register` | `_ITM_registerTMCloneTable` goes on after a compare-and-swap that succeeded, because it returns the old head (`clone.c` 139-141): it links its node again, and if another object was registered in between the list becomes a cycle; tables registered before are lost, and a search for any other function does not end |

Further configurations in this directory, each with a counterexample, which are not listed as runs:

| configuration (module) | what happens |
|---|---|
| `doc_load_consistency` (`MCWbEtl`) | after storing into a stripe whose version is newer than its snapshot, a transaction loads a neighbouring word that does not fit its earlier loads; it aborts at commit. `stm.h` 353 says loads are consistent |
| `doc_irrevocable_abort` (`MCWbEtl`) | an irrevocable transaction rolls back if its write set is full (`stm_wbetl.h` 740); `stm_internal.h` 961 says "Irrevocable cannot abort" |
| `doc_clock_reset` (`MCQuiesce`) | A holds the irrevocability flag over a rollback (its validation failed) and waits on the barrier; B spins for the flag (`stm.c` 994) and never arrives |
| `doc_serial_alone` (`MCQuiesce`) | B leaves the loop of `stm_check_quiesce`, A quiesces and finds B idle, B sets its status back without another look: a serial transaction does not run alone (`stm_internal.h` 633, 646) |
| `doc_exit_wakeup` (`MCQuiesce`) | B sleeps on the barrier (`quiesce` 1), A runs serially (2, then 0) and leaves without a signal (`stm_internal.h` 522): B is alone and asleep |
| `doc_unit_irrevocable` (`MCUnitTx`) | a unit store does not look at the irrevocability flag and overwrites what an irrevocable transaction has read |
| `doc_gc_reset` (`MCEpochGc`) | a thread that registers while the clock is reset is not stopped, as the comment of `gc_reset` requires |
| `doc_log_narrow` (`MCApi`) | the undo log keeps a 16-, 32- or 64-bit value in a `char` (`mod_log.c` 68-71) |
| `doc_no_retry_commit` (`MCApi`) | `int_stm_commit` drops the result of the design's commit (`stm_internal.h` 1387): `stm_commit` returns 1 for a `no_retry` transaction that conflicted and was rolled back, where `stm.h` 328 says "1 upon success, 0 otherwise" |
| `doc_stats_given_up` (`MCApi`) | the aborts of a transaction that is given up (`no_retry`) stay in `retries` and are charged to the next one that commits, or to none; `mod_stats.c` 43 says "consecutive aborts of current transaction", 46 "Total number of aborts" |
| `doc_wt_clock` (`MCWt`) | write-through, incarnations used up: each thread takes a timestamp for a commit that fails validation and another one for its rollback (`stm_wt.h` 134-138), so that the clock exceeds `VERSION_MAX` by more than the number of threads, the room that `stm_internal.h` 194 leaves; `stm_wt.h` 96 and 133 say by up to `MAX_THREADS` |
| `doc_late_finalize` (`MCApi`) | a thread that has found the process initialized creates its descriptor after another thread finalized it |

The models show more with other constants: a transaction started `read_only` that stores logs no reads
and commits unserializably (`stm.h` 145 says that it restarts read-write); with a serial requester and
`StoreBuffer` 1 a status store can be late enough for `SerialExcludesNewcomers` to fail (the comment at
`stm_internal.h` 624 says that no fence is needed); a serial transaction that restarts into the clock
reset locks the mutex that it holds; with commit-time locking an irrevocable transaction does not find
the bytes it stored with a mask itself, which `LoadsOwnStores` leaves out; threads that join while the
clock is reset make `NoDangling` fail; a transaction started `read_only` has logged no reads
(`stm_wbetl.h` 383), so that `stm_set_irrevocable` has nothing to validate and an irrevocable transaction goes
on with loads that others have overwritten: `IrrevocableStable` fails with `Features` that have both `read_only` and
`irrevocable`.

Configurations that hold and add nothing but size: `wbetl_two` (the default design alone, with
`ConsistentLoads` for one word per lock), `quiesce_exit`, `quiesce_three`.

Read in the code and not worth a model: `delay_time` has 32 elements and is indexed from 1
(`stm_internal.h` 490); averages divide by a number of commits that may be 0 (1547, `mod_stats.c`); the
50th percentile of three samples is their maximum (`mod_ab.c` 94); `set_irrevocable` of the modular
design has its condition inverted (`stm.c` 971).

### Bounds and why they are enough

* Two threads and two addresses are what a race of two transactions needs (write skew, a stale read, a
  lost update, an undone value, a stolen lock).
* `MaxLog` bounds the loads and stores that an attempt logs: 2 is what each of those races takes; 3
  with stripes allows load, load and a store of a stripe read before.
* Values tell commits apart: where threads store words of their own, a load tells whose commit it saw; in
  `ModularCm` a commit stores its timestamp.
* `VERSION_MAX` of 1 brings the reset into every run, so that versions of different epochs meet;
  `ClockMax` of `gc` allows one commit beyond it, and three before.
* A write set of capacity 1 brings its growth; capacity 2 with two addresses excludes it, which is why
  `IrrevocableNeverAborts` holds in `designs_opaque`.
* `INCARNATION_MAX` 1 makes the incarnation of a lock wrap on its second abort. (`doc_wt_clock` has 0, where
  every abort takes a timestamp; with the 7 of the code, eight aborts have to come first.)
* Attempts may repeat without bound in `Stm` and `Quiesce`; state spaces are finite because the clock is
  reset and `hist` rebased. `ModularCm` has no reset, so its transactions are counted; in `cm_live` the
  counters of attempts and allocations wrap (`CountsWrap`), which the safety run does not do.
* `NeverIrrevocable` in `MCDesigns` bounds the write-through instance, as the size of the product of its undo
  with irrevocability is out of reach; the irrevocability code is shared with the other designs.
* The two scenarios of `gc` are kept apart because both together reach the states of `doc_gc_reset`.
* The registered lives, events and callbacks of `api` are as many as let an exit overtake another, a second
  attempt follow an abort, and a second initialization follow a finalization.
* TLC's deadlock check is off where threads may all have left or used up their bounds, and in `unit`, where a
  transaction at its bound of accesses ends all the same; hanging is the subject of the liveness properties.
* Symmetry is used for safety only, where the threads are configured alike.

### Fairness

`Quiesce` states weak fairness, per thread, of `Running(t)` (a processor that is in a library call goes on), of
starting a transaction or leaving, and of the end of an attempt, be it a rollback. The barrier needs the second:
it waits for every registered thread, so an application with a thread that stops using transactions
and does not leave blocks it. None asks for fair mutexes, for wake-ups without a signal, or that a
transaction ever succeeds; the code guarantees none of the three.

`ModularCm` states weak fairness of running or making a first access, and strong fairness of the commit:
the application's attempts are finite, however often they are killed and started again. `TurnComes` and
`KillEnds` say that the waiting loops of the library end under it.

The designs state no fairness: nothing in the code bounds the retries of a transaction, and what the
clock reset promises is checked in `Quiesce`.

`BarrierOpens` of `Quiesce` says that the registered threads are never all left blocked. It does not say
that each sleeper leaves: with rounds of the barrier in quick succession a woken thread can lose the
race for the mutex for ever. `BarrierReached` is checked without exits, because a thread that leaves and
comes back for ever can win the mutex from the one it woke.

## 5. Proofs

For every value of the constants that the `ASSUME`s allow (finitely many threads; addresses that are
numbers; positive sizes).

* `WbEtlProofs!Types`: `Spec => []TypeOK`. Not inductive alone: `Publish` and the reset choose the newest
  version of an address, so the invariant `TypeInv` adds `HistoryNewest` (every history is nonempty and has a newest entry).
  One lemma per action or group of actions, one step per component of the state that it changes.
* `WbEtlProofs!LockOwnership`: `Spec => []LockOwner`. `LockInv` adds `TypeInv` and `ThreadInv`: what the locals mean
  at each label (the loop index is in range, the lock word that was read before a compare-and-swap is
  free, the write set is empty when idle). With it each action changes the owner of a lock and the
  entries ahead of the loop index together.
* `WbEtlMemoryProofs!MemoryIsCommitted`: `Spec => []CommittedMemory`. `CommittedMemory` is about free locks; what makes it
  inductive is what held ones will be given back with. `MemInv` is `LockInv` with `FreeClean` (it holds for free locks)
  and, per thread, `Lists` (one entry for an address, one version for the entries of a lock), `Dated` (versions kept for
  the rollback are not in the future, and older than the timestamp of a commit), `Buffered` (before the
  write-back, memory under an own lock is the committed state with the version that a rollback restores, and bytes
  that a store left out are those in memory) and `Installing` (during the write-back, the entries still to be
  written have the newest values, and all other words of the lock are up to date).
* `WbEtlMemoryProofs!LocksAge`: `Spec => VersionsGrow`, from `MemInv`: `Dated` orders the version that a lock gets back.
* `WbEtlMemoryProofs!ClockIsBounded`: `Spec => []ClockBound`. `ClockInv` counts the threads that cannot take a timestamp before they
  pass `int_stm_prepare` again, which nobody does from `VERSION_MAX` on: each increment adds one to them.
* `WbEtlSerialProofs!IrrevocableAlone`: `Spec => []IrrevocableUnique`. `StageInv` ties the stage of irrevocability and the
  read-only mode to the label.
* `WbEtlSerialProofs!LoadsAreSnapshots`: `Spec => []SnapshotReads`. `SerialInv` is `MemInv`, `StageInv` and, for each thread,
  `Private`: nothing is read before an attempt (`Unread`); the snapshot is in the past and covers the logged
  versions (`Bounds`); values are those of the snapshot at `tx->end` (`InSnapshot`) or, under an own lock, the committed
  ones (`OwnLatest`); a stripe that is about to be acquired has not changed since it was read
  (`Acquires`); what an irrevocable transaction has loaded stays (`Stable`); what the entries that a validation has passed
  say, while others go on (`Checked`); what the lock word that a load read first says of the value that it reads
  next (`Loading`). The hard steps are commits of *other* threads: `Settled(a, n)` says that no commit to `a` can have a
  timestamp up to `n` any more, because whoever owns the lock and has a timestamp has a later one, and
  whoever has none will get one beyond the clock. `GoodRead` and `Frozen` are built on that.
* `WbEtlSerialProofs!CommitsSerialize`: `Spec => []Serializable`, by the part `Serial` of `SerialInv`: what has been loaded
  held just before the timestamp, either because no other commit came between (`ts = end + 1`) or because
  the validation, which runs after the timestamp was taken, has found the versions unchanged.
  Hypothesis: no transaction that was started `read_only` stores (see section 4).
* `WbEtlSerialProofs!IrrevocableKeepsReads`: `Spec => []IrrevocableStable`, without `read_only` and `irrevocable` together (section 4).
* `WbEtlSerialProofs!MaskedStoresKeepBytes`: `Spec => []UnmaskedBytesKept`, by the part `BytesKept`: a masked store is merged with
  memory while the lock is held, so that nothing can come between.
* `WbEtlOpacityProofs!StrictSerializability`: `EtlSpec => StrictlySerializable`; `WbEtlOpacityProofs!Opacity`: `EtlSpec => Opaque`. `EtlSpec` is
  `Spec` with the history variable `readAt`. The step of the design that reads the clock for `start` is `Begin`
  of `OpaqueTm`, the increment of the clock is `Tick`, the step after which a commit cannot fail is `Commit`, the end of a
  read-only one `Finish`, a rollback `Abort`, the return of a load `Load` (or `Observe`), the reset `Reset`; all others
  stutter. `OpacityInv` is `SerialInv` with `ReadAtSettled` (what a committed transaction has read has settled at the time of
  the read) and `OwnStamp` (a timestamp is used once). `Load` must hold together with *all* earlier loads, and a load
  under an own lock is returned without a look at its version, so `Opacity` needs more: `Plain` says that each word
  has a lock of its own and that no store has an empty mask. Then every entry has bytes (`WellMasked`), and what was read
  from a stripe before it was acquired was in the snapshot (`OwnPast`). Without `Plain`, `doc_load_consistency` is a
  counterexample; the instance `designs_opaque` satisfies it. Both theorems assume that transactions started
  `read_only` neither store nor become irrevocable (`ReadOnlyKept`, see section 4).
* `UnitTxProofs!UnitLockOwnership`: `UnitSpec => [](TypeOK /\ LockOwner)`. The lemmas above are about steps of `WbEtl`, so
  they hold of the transactional steps of `UnitTx`; what is new is that those steps keep the locks of unit
  stores, and that unit steps keep `LockInv`. `UnitInv` adds the type of `unit`, that a thread in a unit
  call is idle, and that the lock of a unit store that has it is `LOCK_UNIT`.
* `UnitTxProofs!UnitStoresExclude`: `UnitSpec => []OneHolder`, from the same invariant.
* `UnitTxProofs!UnitMemoryIsCommitted`: `UnitSpec => []CommittedMemory`. `UnitMemInv` is `UnitInv` with `FreeClean` and the
  parts of `MemInv` about entries, with two parts for unit calls: a unit store finds the stripe clean, and leaves it so under
  a newer version, while nobody else has the lock (`StoreData`), and only unit stores have locks of theirs (`Claims`).
* `UnitTxProofs!UnitLoadsAreCommitted`: `UnitSpec => UnitLoadsCommitted`, by `LoadData`: once the version of a lock has been
  read, it can be met again only with the same memory, since whoever takes the lock restores the stripe together with the
  version or gives the lock back with a newer one (`Carried`, one lemma per kind of step).
* `UnitTxProofs!UnitStoresAreCurrent`: `UnitSpec => UnitStoresCurrent`, by `StoreData`: the version that was compared with the
  caller's timestamp is the one that the lock was taken with, and covers the whole history of the word.
* `QuiesceProofs!SerialBlocks`: `Spec => []HolderBlocks`. `QuiesceInv` ties the stage of irrevocability to the label
  (`Stages`) and the mutex to the one thread that scans or is in stage 3 of serial mode (`Holder`);
  without them a release by somebody who does not hold the mutex cannot be excluded.
* `QuiesceProofs!BlockedCount`: `Spec => []ThreadsCount`, by counting the threads at a label other than `out` and
  `asleep`: every action moves one thread, and the count changes when it crosses that border.
* `QuiesceProofs!ResetAlone`: `Spec => RolloverAlone`, from the count: the clock goes back only when the count, without
  the thread itself, is zero.
* `QuiesceProofs!SerialKeepsOthersOut`: `Spec => []SerialExcludesNewcomers`. `ExcludeInv` says that a registered thread is in
  the list (`Listed`), that a transaction between its start and its end is seen active, but while it waits
  (`SeenActive`), that the mode is serial only while irrevocability is asked for (`Asked`) and, for the walk of `stm_quiesce`
  along a list that threads enter and leave meanwhile, that whoever runs at a place that the walk has passed has left the loop
  of `stm_check_quiesce`, which sets its status back without another look (`Excluded`, `ScanPassed`). Hypothesis:
  `StoreBuffer = 0`; with late status stores it is wrong (end of section 4).

The first three `Quiesce` theorems hold for every `StoreBuffer`, and all four for every `Restarts`: they do not depend on
irrevocable transactions that roll back.

* `GcProofs!OwnSlots`: `Spec => []SlotOwner`. `SlotInv` adds the types, that `gc_nb_active` counts the threads that are
  not out (`Counted`), and that the search for a slot has passed only used ones (`Searches`), so that no empty
  slot comes before a used one, where `gc_compute_min` would stop.
* `GcProofs!AllAccounted`: `Spec => []Accounted`. `HeapInv` says for each block that it is in one place only, and in which
  (`Single`: nowhere, in use, in a list of the transaction, handed to `gc_free`, or kept in a region), that no list
  and no two regions have a block twice, and which lists a thread may have at its label (`Holding`).
* `GcProofs!NothingDangles`: `Spec => []NoDangling`. `EpochInv` adds that a slot's epoch is one of this clock or `EPOCH_MAX`
  (`Bounds`), that the slot of a running thread is not after its start (`Epoch`), that the minimum found so far is not
  after the start of any running transaction whose slot the scan has passed (`Scans`), that blocks that are waiting
  were unlinked no later than the timestamps they wait with (`Left`), and that all threads are registered by the time
  one can wait for a reset, or else that no reset comes (`Resets`). Hypothesis: no scenario in which the clock is
  reset has threads that join or exit. The instance of `gc` satisfies it; `doc_gc_reset` shows what happens without it.

The first two hold for every `Scenarios`.

* `CmProofs!NobodyLosesLocks`: `Spec => []LocksKept`, and `CmProofs!NoStaleLocks`: `Spec => []NoLockLeft`. Killers and thieves
  act on a lock word and a status word that they have read some steps before. `LockInv` says what these still
  tell. As long as the status word is the one that was read, the lock was that attempt's (`Observes`): so `stm_kill` hits whom
  it means to. A thief's lock word, if it is still in place, is of an attempt that is killed, and its entry has the version
  that the thief has copied (`Steals`). `Holding` (an entry of the owner, not dropped yet, locked as the entry says) and
  `Locals` (status, position and purpose at each label) make the two inductive.
* `CmProofs!FreeLocksCurrent`: `Spec => []CommittedMemory`. `MemInv` adds what a taken lock will be given back with, by its
  owner or by a thief (`Content`: the newest version, which is memory's until the write-back), that a timestamp
  is later than all that was written to what is locked (`Dated`), and that the version and the value that an acquirer has
  noted belong to the lock word its compare-and-swap expects (`Acquires`).
* `CmProofs!VisibleReadsSerialize`: `Spec => []VisibleSerializable`. `VisibleInv` adds that each read of an attempt with visible
  reads has an entry with its value (`OnlyVisible`, `Covered`), and for the time after the timestamp, when locks
  are dropped one by one, that the reads are those of the state just before it (`InSnapshot`) and that whoever has such a
  lock now has a later timestamp (`After`).

The four hold for every policy and any numbers of threads, addresses and attempts. Their hypothesis is `CountsWrap = FALSE`: the
counter of a status word (a word less `STATUS_BITS`) and the number of an allocation of the write set do not come
back to a value that somebody still has in hand; the second because `stm_drop` gives the old entries to `gc_free`, which
keeps them while older transactions run. It is needed: with two threads, one address and counts that wrap at 2
TLC finds `LocksKept`, `CommittedMemory` and `VisibleSerializable` violated. `MaxLog` and `COUNTER_MAX` stay bounds of the
model, of any size: an attempt that would exceed the first does not go on, a thread at the second stops.

Only model-checked: the properties of section 3 for the other two designs (`WbCtl`, `WriteThrough`); `Serializable` beside unit calls; `WordsNeverReturn` and
`IrrevocableNeverAborts`; `TurnComes` and `KillEnds` of `ModularCm`; the layers around the designs. Liveness stays with TLC: it
needs fairness and `ENABLED`, which are out of the prover's reach, as is what the recursive definitions of
`SubWord`, `CloneTable` and the folds of `Library` compute for every input.

## 6. Not modelled

* The access variants `stm_RaR`, `RaW`, `RfW`, `WaR`, `WaW` of the designs, but for `stm_wbctl_WaW`: no caller in the
  tree passes what they assume. `CONFLICT_TRACKING`, `IRREVOCABLE_IMPROVED`, `CM_DELAY`, hybrid hardware
  transactions.
* `CM_MODULAR` with irrevocability, stripes or masks.
* The memory module without epochs (`mod_mem_init(0)`, which `abi.c` 294 uses); the calls of `gc_free` for write
  sets that grow or are given up in `stm_drop` (`stm_internal.h` 775, 880) and for the descriptor of a thread that exits (1308-1310).
* `stm_load_ptr` and `stm_store_ptr` at addresses that are not aligned, and long double complex.
* The attributes of a transaction's begin in the ABI (`abi.c` 525-535), but for the rollback that a nested one may cause:
  irrevocability and `read_only` concern the design, whose modules have both.
* Parameters (`stm_get_parameter`, `stm_set_parameter`), counters of `stm_get_stats`, means and variances of `mod_ab`, texts.
* Version numbers, error texts and typed accessor tables of the ABI; the layers for other compilers
  (`abi/dtmc`, `abi/oracle`, `abi/intel`, `abi/gcc/eh.c`, `abi/gcc/alloc_cpp.c`), which translate names.
* `tls.h` (models are indexed by thread); the vendored `atomic_ops` (an operation is a step); memory orders
  other than the one `StoreBuffer` stands for; signal handling (`stm_longjmp` out of a fault).

What would come next: lock ownership and committed memory of `WbCtl` and `WriteThrough`, along the lines of `WbEtlProofs`.
