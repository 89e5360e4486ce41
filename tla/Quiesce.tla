------------------------------ MODULE Quiesce ------------------------------
(***************************************************************************)
(* Quiescence (stm_internal.h) and what it is for: threads that come and   *)
(* go, the barrier on which all of them block when the clock has to be     *)
(* reset, and serial irrevocability, which stops all other transactions    *)
(* (int_stm_set_irrevocable in stm.c).                                     *)
(*                                                                         *)
(* A transaction body is abstract here: it may commit with or without      *)
(* writes, roll back, or ask for irrevocability.  What is between locking  *)
(* quiesce_mutex and unlocking it, or waiting on quiesce_cond, is a step.  *)
(* With StoreBuffer > 0 the plain stores to tx->status reach the other     *)
(* threads late, as on the processors the library is built for (x86).      *)
(***************************************************************************)
EXTENDS Integers, Sequences, SequencesExt, FiniteSets

CONSTANTS
    Tx,            \* threads and their descriptors
    NoTx,          \* nobody
    VERSION_MAX,   \* clock value from which on a starting transaction resets it
    Modes,         \* Modes[t] \subseteq {"parallel", "serial"}: irrevocability that t asks for
    Exits,         \* threads that may leave (stm_exit_thread) and come back
    Restarts,      \* threads whose irrevocable transactions roll back: stm_abort, full write set
    StoreBuffer    \* bound: status stores a thread may have in flight; 0: none is late

Mode == {"parallel", "serial"}

ASSUME QuiesceAssumption ==
    /\ NoTx \notin Tx
    /\ IsFiniteSet(Tx)
    /\ VERSION_MAX \in Nat \ {0}
    /\ Modes \in [Tx -> SUBSET Mode]
    /\ Exits \subseteq Tx
    /\ Restarts \subseteq Tx
    /\ StoreBuffer \in Nat

VARIABLES
    quiesce,      \* 0; 1: a barrier is forming; 2: transactions must not start
    threads_nb,   \* registered threads that are not blocked on the barrier
    threads,      \* list of the registered descriptors, newest first
    mutex,        \* who holds quiesce_mutex
    waiting,      \* threads asleep on quiesce_cond
    clock,        \* the global version clock
    irrevocable,  \* global irrevocability flag
    active,       \* IS_ACTIVE(tx->status), as the other threads see it
    buffer,       \* stores to tx->status that are in flight
    irr,          \* tx->irrevocable: stage 0 .. 3 and the mode (bit 0x08)
    scan,         \* position of stm_quiesce in the list
    pc,
    spun          \* auxiliary: the attempt went through the loop of stm_check_quiesce

shared == <<quiesce, threads_nb, threads, mutex, waiting, clock, irrevocable>>
vars   == <<quiesce, threads_nb, threads, mutex, waiting, clock, irrevocable,
            active, buffer, irr, scan, pc, spun>>

Label == {"out", "idle", "prepare", "barrier", "asleep", "flag", "quiesce", "try_quiesce",
          "scan", "start", "check", "spin", "resume", "run", "release_flag",
          "release_quiesce", "unlock", "finish"}

-----------------------------------------------------------------------------

Goto(t, label) == pc' = [pc EXCEPT ![t] = label]
Stage(t, n) == irr' = [irr EXCEPT ![t].stage = n]
NotAsked == [stage |-> 0, mode |-> "parallel"]
Serial(t) == irr[t].mode = "serial"

\* IS_ACTIVE(tx->status) as the thread itself sees it.
OwnActive(t) == IF buffer[t] = <<>> THEN active[t] ELSE Last(buffer[t])

\* SET_STATUS, UPDATE_STATUS: a plain store.
SetActive(t, b) ==
    IF StoreBuffer = 0
    THEN /\ active' = [active EXCEPT ![t] = b]
         /\ UNCHANGED buffer
    ELSE /\ Len(buffer[t]) < StoreBuffer
         /\ buffer' = [buffer EXCEPT ![t] = Append(@, b)]
         /\ UNCHANGED active

\* A status store becomes visible, in program order.
Drain(t) ==
    /\ buffer[t] # <<>>
    /\ active' = [active EXCEPT ![t] = Head(buffer[t])]
    /\ buffer' = [buffer EXCEPT ![t] = Tail(@)]
    /\ UNCHANGED <<shared, irr, scan, pc, spun>>

\* Atomic read-modify-write operations and mutex operations wait for earlier stores,
\* and a later store does not overtake them.
Ordered(t) == buffer[t] = <<>>
CanLock(t) == mutex = NoTx /\ Ordered(t)

-----------------------------------------------------------------------------
(* Threads *)

\* stm_quiesce_enter_thread, for a new descriptor.
Enter(t) ==
    /\ pc[t] = "out"
    /\ CanLock(t)
    /\ threads' = <<t>> \o threads
    /\ threads_nb' = threads_nb + 1
    /\ irr' = [irr EXCEPT ![t] = NotAsked]
    /\ Goto(t, "idle")
    /\ UNCHANGED <<quiesce, mutex, waiting, clock, irrevocable, active, buffer, scan, spun>>

\* pthread_cond_signal wakes one of the threads that wait, if there is one.
Signal == \/ waiting = {} /\ waiting' = {}
          \/ \E w \in waiting : waiting' = waiting \ {w}

\* Mutant: the thread stays counted.
BugExitCounted(t) ==
    /\ t \in Exits
    /\ pc[t] = "idle"
    /\ CanLock(t)
    /\ \E i \in DOMAIN threads : threads[i] = t /\ threads' = RemoveAt(threads, i)
    /\ IF quiesce # 0 THEN Signal ELSE UNCHANGED waiting
    /\ Goto(t, "out")
    /\ UNCHANGED <<quiesce, threads_nb, mutex, clock, irrevocable, active, buffer, irr, scan, spun>>

\* stm_quiesce_exit_thread
Exit(t) ==
    /\ t \in Exits
    /\ pc[t] = "idle"
    /\ CanLock(t)
    /\ \E i \in DOMAIN threads : threads[i] = t /\ threads' = RemoveAt(threads, i)
    /\ threads_nb' = threads_nb - 1
    /\ IF quiesce # 0 THEN Signal ELSE UNCHANGED waiting
    /\ Goto(t, "out")
    /\ UNCHANGED <<quiesce, mutex, clock, irrevocable, active, buffer, irr, scan, spun>>

-----------------------------------------------------------------------------
(* int_stm_prepare and the barrier *)

\* int_stm_start
Start(t) ==
    /\ pc[t] = "idle"
    /\ Goto(t, "prepare")
    /\ UNCHANGED <<shared, active, buffer, irr, scan, spun>>

\* The clock is read: reset it first, or go on, by way of stm_set_irrevocable(-1)
\* if the transaction has asked for irrevocability.
Prepare(t) ==
    /\ pc[t] = "prepare"
    /\ spun' = [spun EXCEPT ![t] = FALSE]
    /\ \/ /\ clock >= VERSION_MAX
          /\ Goto(t, "barrier")
          /\ UNCHANGED irr
       \/ /\ clock < VERSION_MAX
          /\ irr[t].stage \in {0, 3}
          /\ Goto(t, "start")
          /\ UNCHANGED irr
       \/ /\ clock < VERSION_MAX
          /\ irr[t].stage = 1
          /\ Goto(t, "flag")
          /\ UNCHANGED irr
       \/ /\ clock < VERSION_MAX
          /\ irr[t].stage = 2
          /\ IF Serial(t) THEN Goto(t, "quiesce") /\ UNCHANGED irr
                          ELSE Goto(t, "start") /\ Stage(t, 3)
    /\ UNCHANGED <<shared, active, buffer, scan>>

\* Mutant: the thread that runs is taken for blocked.
BugBarrierLoop(t, n, q) ==
    \/ /\ q # 0 /\ n <= 1
       /\ clock' = 0
       /\ quiesce' = 0
       /\ waiting' = {}
       /\ threads_nb' = n + 1
       /\ Goto(t, "prepare")
    \/ /\ q # 0 /\ n > 1
       /\ quiesce' = q
       /\ threads_nb' = n
       /\ waiting' = waiting \cup {t}
       /\ Goto(t, "asleep")
       /\ UNCHANGED clock

\* The loop of stm_quiesce_barrier, entered with n threads not blocked and
\* quiesce = q: reset the clock and release everybody, leave, or sleep.
BarrierLoop(t, n, q) ==
    \/ /\ q # 0 /\ n = 0
       /\ clock' = 0
       /\ quiesce' = 0
       /\ waiting' = {}
       /\ threads_nb' = n + 1
       /\ Goto(t, "prepare")
    \/ /\ q = 0
       /\ quiesce' = 0
       /\ threads_nb' = n + 1
       /\ Goto(t, "prepare")
       /\ UNCHANGED <<clock, waiting>>
    \/ /\ q # 0 /\ n # 0
       /\ quiesce' = q
       /\ threads_nb' = n
       /\ waiting' = waiting \cup {t}
       /\ Goto(t, "asleep")
       /\ UNCHANGED clock

\* Mutant: the thread does not count itself as blocked.
BugBarrier(t) ==
    /\ pc[t] = "barrier"
    /\ CanLock(t)
    /\ BarrierLoop(t, threads_nb, IF quiesce = 0 THEN 1 ELSE quiesce)
    /\ UNCHANGED <<threads, mutex, irrevocable, active, buffer, irr, scan, spun>>

Barrier(t) ==
    /\ pc[t] = "barrier"
    /\ CanLock(t)
    /\ BarrierLoop(t, threads_nb - 1, IF quiesce = 0 THEN 1 ELSE quiesce)
    /\ UNCHANGED <<threads, mutex, irrevocable, active, buffer, irr, scan, spun>>

\* pthread_cond_wait returns.
BarrierAwake(t) ==
    /\ pc[t] = "asleep"
    /\ t \notin waiting
    /\ CanLock(t)
    /\ BarrierLoop(t, threads_nb, quiesce)
    /\ UNCHANGED <<threads, mutex, irrevocable, active, buffer, irr, scan, spun>>

\* pthread_cond_wait may return without a signal.
SpuriousWakeup(t) ==
    /\ t \in waiting
    /\ waiting' = waiting \ {t}
    /\ UNCHANGED <<quiesce, threads_nb, threads, mutex, clock, irrevocable,
                   active, buffer, irr, scan, pc, spun>>

\* The end of int_stm_prepare: TX_ACTIVE or TX_IRREVOCABLE.
Activate(t) ==
    /\ pc[t] = "start"
    /\ SetActive(t, TRUE)
    /\ Goto(t, "check")
    /\ UNCHANGED <<shared, irr, scan, spun>>

-----------------------------------------------------------------------------
(* stm_check_quiesce *)

\* Nobody quiesces, or it is us: run.
CheckPasses(t) ==
    /\ pc[t] = "check"
    /\ quiesce # 2 \/ Serial(t)
    /\ Goto(t, "run")
    /\ UNCHANGED <<shared, active, buffer, irr, scan, spun>>

\* Mutant: the transaction waits while it is still active.
BugCheckBlocks(t) ==
    /\ pc[t] = "check"
    /\ quiesce = 2
    /\ ~Serial(t)
    /\ Goto(t, "spin")
    /\ UNCHANGED <<shared, active, buffer, irr, scan, spun>>

\* Otherwise withdraw: TX_IDLE.
CheckBlocks(t) ==
    /\ pc[t] = "check"
    /\ quiesce = 2
    /\ ~Serial(t)
    /\ SetActive(t, FALSE)
    /\ Goto(t, "spin")
    /\ UNCHANGED <<shared, irr, scan, spun>>

SpinEnds(t) ==
    /\ pc[t] = "spin"
    /\ quiesce # 2
    /\ Goto(t, "resume")
    /\ UNCHANGED <<shared, active, buffer, irr, scan, spun>>

\* The saved status again.
Resume(t) ==
    /\ pc[t] = "resume"
    /\ SetActive(t, TRUE)
    /\ spun' = [spun EXCEPT ![t] = TRUE]
    /\ Goto(t, "run")
    /\ UNCHANGED <<shared, irr, scan>>

-----------------------------------------------------------------------------
(* The transaction ends *)

\* stm_rollback: TX_ABORTED, prepare again with what has been asked for.
Rollback(t, asked) ==
    /\ SetActive(t, FALSE)
    /\ irr' = [irr EXCEPT ![t] = asked]
    /\ Goto(t, "prepare")
    /\ UNCHANGED <<quiesce, threads_nb, threads, mutex, waiting, clock, scan, spun>>

\* A conflict, a failed validation, a call of stm_abort.
Abort(t) ==
    /\ pc[t] = "run"
    /\ irr[t].stage = 0 \/ t \in Restarts
    /\ Rollback(t, irr[t])
    /\ UNCHANGED irrevocable

\* int_stm_commit: an update gives way to an irrevocable transaction, or takes a timestamp.
Commit(t) ==
    /\ pc[t] = "run"
    /\ \/ /\ irr[t].stage = 0 /\ irrevocable
          /\ Rollback(t, irr[t])
          /\ UNCHANGED irrevocable
       \/ /\ Ordered(t)
          /\ irr[t].stage # 0 \/ ~irrevocable
          /\ clock' = clock + 1
          /\ Goto(t, IF irr[t].stage # 0 THEN "release_flag" ELSE "finish")
          /\ UNCHANGED <<quiesce, threads_nb, threads, mutex, waiting, irrevocable,
                         active, buffer, irr, scan, spun>>

CommitReadOnly(t) ==
    /\ pc[t] = "run"
    /\ Goto(t, IF irr[t].stage # 0 THEN "release_flag" ELSE "finish")
    /\ UNCHANGED <<shared, active, buffer, irr, scan, spun>>

\* Irrevocability is given back: the flag first ...
ReleaseFlag(t) ==
    /\ pc[t] = "release_flag"
    /\ Ordered(t)
    /\ irrevocable' = FALSE
    /\ IF Serial(t) THEN Goto(t, "release_quiesce") /\ UNCHANGED irr
                    ELSE Goto(t, "finish") /\ irr' = [irr EXCEPT ![t] = NotAsked]
    /\ UNCHANGED <<quiesce, threads_nb, threads, mutex, waiting, clock, active, buffer, scan, spun>>

\* Mutant: the mutex is given back before quiesce is reset.
BugReleaseQuiesce(t) ==
    /\ pc[t] = "release_quiesce"
    /\ mutex' = NoTx
    /\ Goto(t, "unlock")
    /\ UNCHANGED <<quiesce, threads_nb, threads, waiting, clock, irrevocable,
                   active, buffer, irr, scan, spun>>

\* ... then stm_quiesce_release.
ReleaseQuiesce(t) ==
    /\ pc[t] = "release_quiesce"
    /\ quiesce' = 0
    /\ Goto(t, "unlock")
    /\ UNCHANGED <<threads_nb, threads, mutex, waiting, clock, irrevocable,
                   active, buffer, irr, scan, spun>>

Unlock(t) ==
    /\ pc[t] = "unlock"
    /\ mutex' = NoTx
    /\ irr' = [irr EXCEPT ![t] = NotAsked]
    /\ Goto(t, "finish")
    /\ UNCHANGED <<quiesce, threads_nb, threads, waiting, clock, irrevocable,
                   active, buffer, scan, spun>>

\* TX_COMMITTED
Finish(t) ==
    /\ pc[t] = "finish"
    /\ SetActive(t, FALSE)
    /\ Goto(t, "idle")
    /\ UNCHANGED <<shared, irr, scan, spun>>

-----------------------------------------------------------------------------
(* int_stm_set_irrevocable *)

\* Called outside of a transaction: for the next one.
RequestIrrevocable(t) ==
    /\ pc[t] = "idle"
    /\ \E m \in Modes[t] : irr' = [irr EXCEPT ![t] = [stage |-> 1, mode |-> m]]
    /\ UNCHANGED <<shared, active, buffer, scan, pc, spun>>

\* First call in a transaction.  Without the flag it rolls back; with the flag it rolls
\* back if its read set is not valid, or if it is to go serial and has written.
SetIrrevocable(t) ==
    /\ pc[t] = "run"
    /\ irr[t].stage = 0
    /\ \E m \in Modes[t] :
          \/ /\ irrevocable
             /\ Rollback(t, [stage |-> 1, mode |-> m])
             /\ UNCHANGED irrevocable
          \/ /\ ~irrevocable /\ Ordered(t)
             /\ irrevocable' = TRUE
             /\ Rollback(t, [stage |-> 2, mode |-> m])
          \/ /\ ~irrevocable /\ Ordered(t)
             /\ irrevocable' = TRUE
             /\ IF m = "serial"
                THEN /\ irr' = [irr EXCEPT ![t] = [stage |-> 2, mode |-> m]]
                     /\ Goto(t, "try_quiesce")
                ELSE /\ irr' = [irr EXCEPT ![t] = [stage |-> 3, mode |-> m]]
                     /\ UNCHANGED pc
             /\ UNCHANGED <<quiesce, threads_nb, threads, mutex, waiting, clock,
                            active, buffer, scan, spun>>

\* Restarted: spin for the flag.
TakeFlag(t) ==
    /\ pc[t] = "flag"
    /\ ~irrevocable /\ Ordered(t)
    /\ irrevocable' = TRUE
    /\ IF Serial(t) THEN Goto(t, "quiesce") /\ Stage(t, 2)
                    ELSE Goto(t, "start") /\ Stage(t, 3)
    /\ UNCHANGED <<quiesce, threads_nb, threads, mutex, waiting, clock, active, buffer, scan, spun>>

\* stm_quiesce(tx, 1): pthread_mutex_lock of an inactive transaction, or
\* pthread_mutex_trylock of an active one, which rolls back if it fails.
LockQuiesce(t) ==
    /\ pc[t] \in {"quiesce", "try_quiesce"}
    /\ CanLock(t)
    /\ mutex' = t
    /\ quiesce' = 2
    /\ scan' = [scan EXCEPT ![t] = 1]
    /\ Goto(t, "scan")
    /\ UNCHANGED <<threads_nb, threads, waiting, clock, irrevocable, active, buffer, irr, spun>>

\* Threads that may be inside of one of the short critical sections.
InLibrary == {u \in Tx : pc[u] \in {"out", "idle", "barrier", "asleep"}}

TryQuiesceFails(t) ==
    /\ pc[t] = "try_quiesce"
    /\ mutex # NoTx \/ InLibrary # {}
    /\ Rollback(t, irr[t])
    /\ UNCHANGED irrevocable

\* Mutant: an active thread is not waited for.
BugScan(t) ==
    /\ pc[t] = "scan"
    /\ scan[t] <= Len(threads)
    /\ scan' = [scan EXCEPT ![t] = @ + 1]
    /\ UNCHANGED <<shared, active, buffer, irr, pc, spun>>

\* Wait for the thread at this place of the list to be inactive.
Scan(t) ==
    /\ pc[t] = "scan"
    /\ scan[t] <= Len(threads)
    /\ threads[scan[t]] = t \/ ~active[threads[scan[t]]]
    /\ scan' = [scan EXCEPT ![t] = @ + 1]
    /\ UNCHANGED <<shared, active, buffer, irr, pc, spun>>

\* All were: irrevocable mode.  A first call returns to the application.
ScanEnds(t) ==
    /\ pc[t] = "scan"
    /\ scan[t] > Len(threads)
    /\ Stage(t, 3)
    /\ Goto(t, IF OwnActive(t) THEN "run" ELSE "start")
    /\ UNCHANGED <<shared, active, buffer, scan, spun>>

-----------------------------------------------------------------------------

Init ==
    /\ quiesce = 0
    /\ threads_nb = 0
    /\ threads = <<>>
    /\ mutex = NoTx
    /\ waiting = {}
    /\ clock = 0
    /\ irrevocable = FALSE
    /\ active = [t \in Tx |-> FALSE]
    /\ buffer = [t \in Tx |-> <<>>]
    /\ irr = [t \in Tx |-> NotAsked]
    /\ scan = [t \in Tx |-> 1]
    /\ pc = [t \in Tx |-> "out"]
    /\ spun = [t \in Tx |-> FALSE]

\* What the library does once a call is made ...
Running(t) ==
    \/ Drain(t) \/ Prepare(t) \/ Barrier(t) \/ BarrierAwake(t) \/ Activate(t)
    \/ CheckPasses(t) \/ CheckBlocks(t) \/ SpinEnds(t) \/ Resume(t)
    \/ ReleaseFlag(t) \/ ReleaseQuiesce(t) \/ Unlock(t) \/ Finish(t)
    \/ TakeFlag(t) \/ LockQuiesce(t) \/ TryQuiesceFails(t) \/ Scan(t) \/ ScanEnds(t)

\* ... how a transaction ends, the other calls, and what the system does.
Ends(t) == Commit(t) \/ CommitReadOnly(t) \/ Abort(t)
Next == \E t \in Tx :
    \/ Running(t) \/ Ends(t)
    \/ Enter(t) \/ Exit(t) \/ Start(t)
    \/ RequestIrrevocable(t) \/ SetIrrevocable(t)
    \/ SpuriousWakeup(t)

Spec == Init /\ [][Next]_vars

\* The library runs, the application starts transactions or leaves, and every
\* attempt of a transaction comes to its end, be it a rollback.
Fairness ==
    \A t \in Tx : /\ WF_vars(Running(t))
                  /\ WF_vars(Start(t) \/ Exit(t))
                  /\ WF_vars(Ends(t))

FairSpec == Spec /\ Fairness

-----------------------------------------------------------------------------
(* Properties *)

TypeOK ==
    /\ quiesce \in 0 .. 2
    /\ threads_nb \in Nat
    /\ threads \in Seq(Tx)
    /\ mutex \in Tx \cup {NoTx}
    /\ waiting \subseteq Tx
    /\ clock \in Nat
    /\ irrevocable \in BOOLEAN
    /\ active \in [Tx -> BOOLEAN]
    /\ buffer \in [Tx -> Seq(BOOLEAN)]
    /\ irr \in [Tx -> [stage : 0 .. 3, mode : Mode]]
    /\ scan \in [Tx -> Nat]
    /\ pc \in [Tx -> Label]
    /\ spun \in [Tx -> BOOLEAN]

Registered == {t \in Tx : pc[t] # "out"}
Asleep == {t \in Tx : pc[t] = "asleep"}

\* The count on which the barrier decides (threads_nb == 0: "Everybody is blocked") is
\* that of the registered threads which are not blocked, whatever comes between:
\* threads that leave, releases, wake-ups without a signal, a second barrier that
\* forms while threads of the first are still on their way out of it.
ThreadsCount == threads_nb = Cardinality(Registered \ Asleep)

\* Transactions are told to block exactly while a thread holds the mutex in order to
\* run serially: no barrier, exit or release takes the 2 away from a holder or leaves
\* it without one (stm_quiesce, stm_quiesce_release).
HolderBlocks == quiesce = 2 <=> mutex # NoTx /\ pc[mutex] # "unlock"

SerialRuns(t) == Serial(t) /\ irr[t].stage = 3 /\ pc[t] = "run"

\* While a serial irrevocable transaction runs, no transaction is past the test of
\* stm_check_quiesce at its first try: whoever was active has been waited for.
SerialExcludesNewcomers ==
    \A t \in Tx : SerialRuns(t) => \A u \in Tx \ {t} : pc[u] = "run" => spun[u]

\* stm_internal.h:633 "Serial irrevocable mode: we are executing alone".
SerialAlone == \A t \in Tx : SerialRuns(t) => \A u \in Tx \ {t} : pc[u] # "run"

\* The clock and the locks are reset only while every other registered thread is
\* blocked on the barrier (rollover_clock writes all of the lock array).
RolloverAlone ==
    [][\A t \in Tx : clock' < clock /\ pc'[t] # pc[t]
                       => \A u \in Registered \ {t} : pc[u] = "asleep"]_vars

\* The registered threads are not all left behind at the barrier: the last one to block,
\* or one that is woken by a thread that leaves, resets the clock and releases the others.
AllBlocked == Registered # {} /\ \A t \in Registered : pc[t] \in {"barrier", "asleep"}
BarrierOpens == AllBlocked ~> ~AllBlocked

\* A barrier that forms is reached by everybody, or overtaken by a serial transaction:
\* "The clock can exceed up to MAX_THREADS and it will be reset when the quiescence is
\* reached" (stm_wbetl_extend).
BarrierReached == quiesce = 1 ~> quiesce # 1

\* A thread that quiesces the others gets to run: those that are active leave their
\* transactions and those that start withdraw, so that its walk along the list ends
\* (stm_quiesce, stm_check_quiesce).  Whether it is alone then is another question:
\* SerialExcludesNewcomers.
Quiesces == \A t \in Tx : pc[t] = "scan" ~> pc[t] = "run"

=============================================================================
