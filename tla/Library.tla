------------------------------ MODULE Library ------------------------------
(***************************************************************************)
(* The layer of TinySTM between the application and a transaction design:  *)
(* stm_init/stm_exit, registration of callbacks, the descriptor of a       *)
(* thread from stm_init_thread to stm_exit_thread, flat nesting, and the   *)
(* callbacks that extension modules hang on these events.  The design      *)
(* below is reduced to its outcome: a commit installs the write set or     *)
(* conflicts, and an access may conflict.                                  *)
(*                                                                         *)
(* Four modules are modelled with it, in the order the callbacks really    *)
(* run: the undo log of thread-private memory (mod_log.c), the callbacks   *)
(* that the application hangs on the end of a transaction (mod_cb_mem.c),  *)
(* the statistics of retries (mod_stats.c) and the samples per atomic      *)
(* block (mod_ab.c; their values are in SmartCounter).                     *)
(* The code of a callback is one step, but for the thread-exit callback of *)
(* mod_stats, which publishes with separate atomic operations.             *)
(***************************************************************************)
EXTENDS Integers, Sequences, FiniteSets, SequencesExt

CONSTANTS
  Thread,        \* application threads
  Module,        \* the extension modules the application may register
  MaxCb,         \* MAX_CB, the size of each array of callbacks
  Addr,          \* addresses of the memory the undo log protects
  LogType,       \* the types of stm_log_* the application uses
  Span,          \* number of addresses a TYPE_BYTES entry covers
  CharMod,       \* 2^8, the values of a char
  ValMod,        \* the values of a logged location
  NewVal,        \* the values the application writes there
  AbId,          \* identifiers of atomic blocks (attr.id)
  Period,        \* sampling_period
  BufferSize,    \* BUFFER_SIZE
  UnsignedMax,   \* ULONG_MAX
  MaxLog,        \* bound on the entries of an undo log
  MaxNesting,    \* bound on the nesting of transactions
  MaxAsked,      \* bound on the callbacks a thread registers in its life
  MaxEvents,     \* bound on the aborts and commits of all threads
  MaxLives,      \* bound on the number of stm_init_thread calls
  NoTx           \* tls_get_tx() = NULL

VARIABLES
  initialized,   \* _tinystm.initialized
  cb,            \* the arrays of callbacks: kind -> sequence of modules
  threads,       \* the list of descriptors kept for quiescence
  tx,            \* thread-local descriptor
  data,          \* transaction-specific data of the modules (tx->data)
  mem,           \* memory private to the thread, written directly
  todo,          \* steps of stm_exit_thread the thread still has to run
  seen,          \* value mod_stats loaded before its compare-and-swap
  stats_global,  \* mod_stats_global
  ab_list,       \* samples per atomic block
  \* history variables
  base,          \* private memory at the start of the transaction
  history,       \* aborts and commits of the current life of the thread
  past,          \* the histories of the threads that exited
  installed      \* number of commits whose write set was installed

libVars == <<initialized, cb, threads, tx, data, mem, todo, seen, stats_global,
             ab_list, base, history, past, installed>>

Kind == {"init", "exit", "start", "precommit", "commit", "abort"}

\* The callbacks each module passes to stm_register.
Callbacks(m) == CASE m = "order" -> {"start", "precommit", "commit"}
                  [] m = "print" -> Kind
                  [] m = "ab"    -> Kind \ {"precommit"}
                  [] OTHER       -> Kind \ {"start", "precommit"}

Registered(m) == \E k \in Kind : \E i \in DOMAIN cb[k] : cb[k][i] = m

Tx(t) == tx[t] # NoTx
Active(t) == Tx(t) /\ tx[t].status = "ACTIVE"
Idle(t) == Tx(t) /\ todo[t] = <<>>
Events == FoldLeft(LAMBDA n, h : n + Len(h), 0, past)
            + FoldLeft(LAMBDA n, t : n + Len(history[t]), 0, SetToSeq(Thread))

----------------------------------------------------------------------------
(* mod_log.c *)

\* A TYPE_BYTES entry copies Span bytes to a block, the others one location.
Cells(type, a) == IF type = "bytes" THEN {x \in Addr : x \in a .. a + Span - 1}
                  ELSE {a}

\* u16, u32 and u64 entries keep the old value in a char, which is widened
\* again, with its sign, when it is written back.
OldValue(type, v) ==
  LET c == v % CharMod
  IN  IF type # "narrow" THEN v
      ELSE IF 2 * c < CharMod THEN c ELSE ValMod - CharMod + c

LogEntry(type, a, m) ==
  [type |-> type, old |-> [x \in Cells(type, a) |-> OldValue(type, m[x])]]

WriteBack(m, e) == [x \in Addr |-> IF x \in DOMAIN e.old THEN e.old[x] ELSE m[x]]

\* what a bug would do: apply the undo log in the order it was filled
BugLogOnAbort(s) ==
  [s EXCEPT !.mem = FoldLeft(WriteBack, s.mem, s.log), !.blocks = 0, !.log = <<>>]

\* Reverse order; every block is freed once its bytes are back.
LogOnAbort(s) ==
  [s EXCEPT !.mem = FoldLeft(WriteBack, s.mem, Reverse(s.log)),
            !.blocks = @ - Len(SelectSeq(s.log, LAMBDA e : e.type = "bytes")),
            !.log = <<>>]

\* what a bug would do: erase the undo log and forget its blocks
BugLogOnCommit(s) == [s EXCEPT !.log = <<>>]

LogOnCommit(s) ==
  [s EXCEPT !.blocks = @ - Len(SelectSeq(s.log, LAMBDA e : e.type = "bytes")),
            !.log = <<>>]

----------------------------------------------------------------------------
(* mod_cb_mem.c: callbacks of the application, numbered in the order of their *)
(* registration.  asked and ran are history: what was registered, what ran.   *)

NoCallbacks == [commit |-> <<>>, abort |-> <<>>]

\* what a bug would do: keep the commit callbacks of the attempt that aborted
BugCbOnAbort(s) == [s EXCEPT !.ran = @ \o Reverse(s.on.abort), !.on.abort = <<>>]

\* The callbacks for this end of the transaction run in reverse order; the ones for
\* the other end are dropped.
CbOnAbort(s)  == [s EXCEPT !.ran = @ \o Reverse(s.on.abort), !.on = NoCallbacks]
CbOnCommit(s) == [s EXCEPT !.ran = @ \o Reverse(s.on.commit), !.on = NoCallbacks]

----------------------------------------------------------------------------
(* mod_stats.c *)

Least(a, b) == IF a < b THEN a ELSE b
Greatest(a, b) == IF a < b THEN b ELSE a

NoStats == [commits |-> 0, retries |-> 0, min |-> UnsignedMax, max |-> 0,
            acc |-> 0, cnt |-> 0]

StatsOnAbort(s) == [s EXCEPT !.stats.retries = @ + 1]

\* what a bug would do: count the retries of earlier transactions again
BugStatsOnCommit(s) ==
  LET r == s.stats.retries
  IN  [s EXCEPT !.stats = [commits |-> @.commits + 1, retries |-> r,
                           min |-> Least(@.min, r), max |-> Greatest(@.max, r),
                           acc |-> @.acc + r, cnt |-> @.cnt + 1]]

StatsOnCommit(s) ==
  LET r == s.stats.retries
  IN  [s EXCEPT !.stats = [commits |-> @.commits + 1, retries |-> 0,
                           min |-> Least(@.min, r), max |-> Greatest(@.max, r),
                           acc |-> @.acc + r, cnt |-> @.cnt + 1]]

stm_get_global_stats ==
  [global_nb_commits |-> stats_global.commits, global_nb_aborts |-> stats_global.acc,
   global_max_retries |-> stats_global.max]

\* The average of the retries is kept as its two terms (0/0 before the first commit).
stm_get_local_stats(t) ==
  LET s == data[t].stats
  IN  [nb_commits |-> s.commits, nb_aborts |-> s.acc, nb_retries_avg |-> <<s.acc, s.cnt>>,
       nb_retries_min |-> s.min, nb_retries_max |-> s.max]

----------------------------------------------------------------------------
(* mod_ab.c *)

\* what a bug would do: leave the samples in the buffer
BugFlush(s) ==
  [s EXCEPT !.list = FoldLeft(LAMBDA l, id : [l EXCEPT ![id] = @ + 1], @, s.buffer)]

\* sc_add_samples, under ab_mutex: empties the buffer into the counters.
Flush(s) ==
  [s EXCEPT !.list = FoldLeft(LAMBDA l, id : [l EXCEPT ![id] = @ + 1], @, s.buffer),
            !.buffer = <<>>]

AbOnCommit(s, id) ==
  LET sampled == (s.total + 1) % Period = 0
      kept == [s EXCEPT !.total = @ + 1,
                        !.buffer = IF sampled THEN Append(@, id) ELSE @]
  IN  IF sampled /\ Len(kept.buffer) = BufferSize THEN Flush(kept) ELSE kept

----------------------------------------------------------------------------
(* The callbacks of one event, in the order of registration. *)

NoData == [log |-> <<>>, blocks |-> 0, on |-> NoCallbacks, asked |-> <<>>, ran |-> <<>>, stats |-> NoStats, total |-> 0, buffer |-> <<>>]

OnEvent(kind, id, s, m) ==
  CASE m = "log"   /\ kind = "commit" -> LogOnCommit(s)
    [] m = "log"   /\ kind = "abort"  -> LogOnAbort(s)
    [] m = "cb"    /\ kind = "commit" -> CbOnCommit(s)
    [] m = "cb"    /\ kind = "abort"  -> CbOnAbort(s)
    [] m = "stats" /\ kind = "commit" -> StatsOnCommit(s)
    [] m = "stats" /\ kind = "abort"  -> StatsOnAbort(s)
    [] m = "ab"    /\ kind = "commit" -> AbOnCommit(s, id)
    [] OTHER -> s

\* What the callbacks of t can reach: its specific data, its private memory
\* and the global list of counters.
Reach(t) == [mem |-> mem[t], list |-> ab_list] @@ data[t]

RunCallbacks(t, kinds) ==
  LET id == tx[t].id
      s == FoldLeft(LAMBDA x, k : FoldLeft(LAMBDA y, m : OnEvent(k, id, y, m), x, cb[k]),
                    Reach(t), kinds)
  IN  /\ data' = [data EXCEPT ![t] = [f \in DOMAIN NoData |-> s[f]]]
      /\ mem' = [mem EXCEPT ![t] = s.mem]
      /\ ab_list' = s.list

----------------------------------------------------------------------------
(* Process: stm_init, stm_register, stm_exit. *)

\* quiesce_init forgets every descriptor.
stm_init ==
  /\ ~initialized
  /\ initialized' = TRUE
  /\ threads' = {}

stm_exit ==
  /\ initialized
  /\ initialized' = FALSE

Room(m) == \A k \in Callbacks(m) : Len(cb[k]) < MaxCb

WithModule(c, m) == [k \in Kind |-> IF k \in Callbacks(m) THEN Append(c[k], m) ELSE c[k]]

\* All the callbacks of the module or none; must precede the first thread.
\* The mod_*_init functions register once and end the process on failure.
stm_register(m) ==
  /\ ~Registered(m)
  /\ Room(m)
  /\ cb' = WithModule(cb, m)

InitLibrary ==
  /\ stm_init
  /\ UNCHANGED <<cb, tx, data, mem, todo, seen, stats_global, ab_list, base, history,
                 past, installed>>

Register(m) ==
  /\ initialized
  /\ threads = {} /\ past = <<>>
  /\ stm_register(m)
  /\ UNCHANGED <<initialized, threads, tx, data, mem, todo, seen, stats_global, ab_list,
                 base, history, past, installed>>

ExitLibrary ==
  /\ stm_exit
  /\ threads = {}
  /\ past # <<>>
  /\ UNCHANGED <<cb, threads, tx, data, mem, todo, seen, stats_global, ab_list, base,
                 history, past, installed>>

----------------------------------------------------------------------------
(* Thread: stm_init_thread, stm_exit_thread. *)

NewTx == [status |-> "IDLE", nesting |-> 0, id |-> CHOOSE i \in AbId : TRUE,
          no_retry |-> FALSE, writes |-> FALSE]

\* The descriptor joins the list of threads before the init callbacks run.
InitThread(t) ==
  /\ ~Tx(t)
  /\ Len(past) + Cardinality(threads) < MaxLives
  /\ tx' = [tx EXCEPT ![t] = NewTx]
  /\ threads' = threads \cup {t}
  /\ data' = [data EXCEPT ![t] = NoData]
  /\ UNCHANGED <<initialized, cb, mem, todo, seen, stats_global, ab_list, base, history,
                 past, installed>>

\* The steps of a module's exit callback.
ExitSteps(m) == CASE m = "stats" -> <<"commits", "cnt", "acc", "max", "min">>
                  [] m = "ab"    -> <<"flush">>
                  [] OTHER       -> <<>>

StartExit(t) ==
  /\ Idle(t)
  /\ ~Active(t)
  /\ todo' = [todo EXCEPT ![t] =
                FlattenSeq([i \in DOMAIN cb["exit"] |-> ExitSteps(cb["exit"][i])])
                  \o <<"quiesce">>]
  /\ UNCHANGED <<initialized, cb, threads, tx, data, mem, seen, stats_global, ab_list,
                 base, history, past, installed>>

\* t runs the given step of its exit and goes on with steps.
ExitStep(t, step, steps) ==
  /\ todo[t] # <<>>
  /\ Head(todo[t]) = step
  /\ todo' = [todo EXCEPT ![t] = steps \o Tail(@)]
  /\ UNCHANGED <<initialized, cb, mem, base, installed>>

\* fetch-and-add to a global total
AddTotal(t, total) ==
  /\ ExitStep(t, total, <<>>)
  /\ stats_global' = [stats_global EXCEPT ![total] = @ + data[t].stats[total]]
  /\ UNCHANGED <<threads, tx, data, seen, ab_list, history, past>>

Better(t, bound, v) == IF bound = "max" THEN data[t].stats.max > v
                       ELSE data[t].stats.min < v

LoadBound(t, bound) ==
  /\ ExitStep(t, bound, IF Better(t, bound, stats_global[bound])
                        THEN <<"cas_" \o bound>> ELSE <<>>)
  /\ seen' = [seen EXCEPT ![t] = stats_global[bound]]
  /\ UNCHANGED <<threads, tx, data, stats_global, ab_list, history, past>>

CasBound(t, bound) ==
  /\ ExitStep(t, "cas_" \o bound, IF stats_global[bound] = seen[t] THEN <<>> ELSE <<bound>>)
  /\ stats_global' = IF stats_global[bound] = seen[t]
                     THEN [stats_global EXCEPT ![bound] = data[t].stats[bound]]
                     ELSE stats_global
  /\ UNCHANGED <<threads, tx, data, seen, ab_list, history, past>>

FlushSamples(t) ==
  /\ ExitStep(t, "flush", <<>>)
  /\ ab_list' = Flush(Reach(t)).list
  /\ data' = [data EXCEPT ![t].buffer = <<>>]
  /\ UNCHANGED <<threads, tx, seen, stats_global, history, past>>

\* The descriptor leaves the list of threads and is freed with its data.
LeaveQuiesce(t) ==
  /\ ExitStep(t, "quiesce", <<>>)
  /\ threads' = threads \ {t}
  /\ tx' = [tx EXCEPT ![t] = NoTx]
  /\ data' = [data EXCEPT ![t] = NoData]
  /\ past' = Append(past, history[t])
  /\ history' = [history EXCEPT ![t] = <<>>]
  /\ UNCHANGED <<seen, stats_global, ab_list>>

ExitThread(t) ==
  \/ StartExit(t)
  \/ \E total \in {"commits", "cnt", "acc"} : AddTotal(t, total)
  \/ \E bound \in {"max", "min"} : LoadBound(t, bound) \/ CasBound(t, bound)
  \/ FlushSamples(t)
  \/ LeaveQuiesce(t)

----------------------------------------------------------------------------
(* Transaction: stm_start, accesses, stm_commit, stm_abort. *)

apiVars == <<initialized, cb, threads, todo, seen, stats_global, past>>

Prepared(d) == [d EXCEPT !.status = "ACTIVE", !.writes = FALSE]

\* given_up: the transaction ends with this abort.
Event(t, event, given_up) == [ev |-> event, id |-> tx[t].id, given_up |-> given_up]
Log(t, e) == history' = [history EXCEPT ![t] = Append(@, e)]
GivesUp(t, reason) == tx[t].no_retry \/ reason = "NO_RETRY"

Start(t, id, no_retry) ==
  /\ Idle(t)
  /\ tx[t].nesting = 0
  /\ Events < MaxEvents
  /\ tx' = [tx EXCEPT ![t] = Prepared([@ EXCEPT !.nesting = 1, !.id = id, !.no_retry = no_retry])]
  /\ base' = [base EXCEPT ![t] = mem[t]]
  /\ UNCHANGED <<apiVars, data, mem, ab_list, history, installed>>

\* flat nesting: only the outermost call prepares and gets an environment
StartNested(t) ==
  /\ Idle(t) /\ Active(t)
  /\ tx[t].nesting < MaxNesting
  /\ tx' = [tx EXCEPT ![t].nesting = @ + 1]
  /\ UNCHANGED <<apiVars, data, mem, ab_list, base, history, installed>>

Store(t) ==
  /\ Idle(t) /\ Active(t)
  /\ ~tx[t].writes
  /\ tx' = [tx EXCEPT ![t].writes = TRUE]
  /\ UNCHANGED <<apiVars, data, mem, ab_list, base, history, installed>>

\* The application logs private memory (stm_log_*), then writes it directly.
LogAndWrite(t, type, a, v) ==
  /\ Idle(t) /\ Active(t)
  /\ Registered("log")
  /\ Len(data[t].log) < MaxLog
  /\ data' = [data EXCEPT ![t].log = Append(@, LogEntry(type, a, mem[t])),
                          ![t].blocks = IF type = "bytes" THEN @ + 1 ELSE @]
  /\ mem' = [mem EXCEPT ![t][a] = v]
  /\ UNCHANGED <<apiVars, tx, ab_list, base, history, installed>>

\* stm_on_commit, stm_on_abort: the callback joins the end of its array.
RegisterCallback(t, kind) ==
  LET n == Len(data[t].asked) + 1 IN
  /\ Idle(t) /\ Active(t)
  /\ Registered("cb")
  /\ n <= MaxAsked
  /\ data' = [data EXCEPT ![t].on[kind] = Append(@, n),
                          ![t].asked = Append(@, [kind |-> kind, at |-> Len(history[t]) + 1])]
  /\ UNCHANGED <<apiVars, tx, mem, ab_list, base, history, installed>>

\* A conflict or stm_abort: the callbacks run with nesting 1, then the
\* transaction is prepared again or, without retry, the call returns.
Rollback(t, reason) ==
  /\ Idle(t) /\ Active(t)
  /\ Events < MaxEvents
  /\ tx' = [tx EXCEPT ![t] = IF GivesUp(t, reason)
                             THEN [@ EXCEPT !.status = "ABORTED", !.nesting = 0]
                             ELSE Prepared([@ EXCEPT !.nesting = 1])]
  /\ RunCallbacks(t, <<"abort">>)
  /\ Log(t, Event(t, "abort", GivesUp(t, reason)))
  /\ UNCHANGED <<apiVars, base, installed>>

CommitNested(t) ==
  /\ Idle(t) /\ Active(t)
  /\ tx[t].nesting > 1
  /\ tx' = [tx EXCEPT ![t].nesting = @ - 1]
  /\ UNCHANGED <<apiVars, data, mem, ab_list, base, history, installed>>

Commit(t) ==
  /\ Idle(t) /\ Active(t)
  /\ tx[t].nesting = 1
  /\ Events < MaxEvents
  /\ tx' = [tx EXCEPT ![t].status = "COMMITTED", ![t].nesting = 0]
  /\ RunCallbacks(t, <<"commit">>)
  /\ Log(t, Event(t, "commit", FALSE))
  /\ installed' = [installed EXCEPT ![t] = @ + 1]
  /\ UNCHANGED <<apiVars, base>>

\* The write set cannot be installed.  Without retry the rollback returns into
\* stm_commit, which goes on as after a commit and reports success.
CommitConflict(t) ==
  /\ Idle(t) /\ Active(t)
  /\ tx[t].nesting = 1
  /\ tx[t].writes
  /\ tx[t].no_retry
  /\ Events + 1 < MaxEvents
  /\ tx' = [tx EXCEPT ![t].status = "COMMITTED", ![t].nesting = 0]
  /\ RunCallbacks(t, <<"abort", "commit">>)
  /\ history' = [history EXCEPT ![t] = @ \o <<Event(t, "abort", FALSE), Event(t, "commit", FALSE)>>]
  /\ UNCHANGED <<apiVars, base, installed>>

Transaction(t) ==
  \/ \E id \in AbId, no_retry \in BOOLEAN : Start(t, id, no_retry)
  \/ StartNested(t)
  \/ Store(t)
  \/ \E type \in LogType, a \in Addr, v \in NewVal : LogAndWrite(t, type, a, v)
  \/ \E kind \in {"commit", "abort"} : RegisterCallback(t, kind)
  \/ \E reason \in {"EXPLICIT", "NO_RETRY"} : Rollback(t, reason)
  \/ CommitNested(t)
  \/ Commit(t)
  \/ CommitConflict(t)

----------------------------------------------------------------------------

Init ==
  /\ initialized = FALSE
  /\ cb = [k \in Kind |-> <<>>]
  /\ threads = {}
  /\ tx = [t \in Thread |-> NoTx]
  /\ data = [t \in Thread |-> NoData]
  /\ mem = [t \in Thread |-> [a \in Addr |-> 1]]
  /\ todo = [t \in Thread |-> <<>>]
  /\ seen = [t \in Thread |-> 0]
  /\ stats_global = [commits |-> 0, min |-> UnsignedMax, max |-> 0, acc |-> 0, cnt |-> 0]
  /\ ab_list = [id \in AbId |-> 0]
  /\ base = mem
  /\ history = [t \in Thread |-> <<>>]
  /\ past = <<>>
  /\ installed = [t \in Thread |-> 0]

Next ==
  \/ InitLibrary
  \/ \E m \in Module : Register(m)
  \/ ExitLibrary
  \/ \E t \in Thread : \/ initialized /\ InitThread(t)
                       \/ ExitThread(t)
                       \/ Transaction(t)

Spec == Init /\ [][Next]_libVars

----------------------------------------------------------------------------
(* Properties *)

IsCommit(e) == e.ev = "commit"
Commits(h) == SelectSeq(h, IsCommit)
Aborts(h) == SelectSeq(h, LAMBDA e : e.ev = "abort")
NoneGivenUp(h) == \A i \in DOMAIN h : ~h[i].given_up

\* For each commit of a history, the aborts since the commit before it.
Retries(h) ==
  FoldLeft(LAMBDA r, e : IF IsCommit(e) THEN [r EXCEPT !.all = Append(@, r.run), !.run = 0]
                         ELSE [r EXCEPT !.run = @ + 1],
           [all |-> <<>>, run |-> 0], h).all

\* What the statistics must be: computed from all commits at once.
Summary(r) ==
  LET v == ToSet(r)
  IN  [commits |-> Len(r), cnt |-> Len(r), acc |-> FoldLeft(+, 0, r),
       max |-> CHOOSE x \in v \cup {0} : \A y \in v : y <= x,
       min |-> CHOOSE x \in v \cup {UnsignedMax} : \A y \in v : x <= y]

\* No event is lost or counted twice (mod_stats_on_commit, mod_stats_on_abort): an abort
\* waits in retries for a commit that reports it.
EventsCounted(t) ==
  LET s == stm_get_local_stats(t) IN
  /\ s.nb_commits = Len(Commits(history[t]))
  /\ s.nb_aborts + data[t].stats.retries = Len(Aborts(history[t]))

\* A thread that retries its transactions until they commit is told the number of its
\* aborts and the least and greatest number that a transaction took.
LocalStats(t) ==
  LET r == Summary(Retries(history[t])) IN
  stm_get_local_stats(t) =
    [nb_commits |-> r.commits, nb_aborts |-> r.acc, nb_retries_avg |-> <<r.acc, r.cnt>>,
     nb_retries_min |-> r.min, nb_retries_max |-> r.max]

\* Threads exit concurrently and publish field by field (mod_stats_on_thread_exit): once
\* none of them is exiting, the global statistics are those of all the threads that
\* exited, and no maximum or minimum got lost between a load and its compare-and-swap.
\* The meaning of the numbers is that of the comments in mod_stats.c as long as no
\* transaction is given up; if one was, only the commits are exact.
GlobalStats ==
  Registered("stats") =>
    /\ \A t \in Thread : Idle(t) =>
         EventsCounted(t) /\ (NoneGivenUp(history[t]) => LocalStats(t))
    /\ (\A t \in Thread : todo[t] = <<>>) =>
         LET all == FlattenSeq(past)
             r == Summary(FlattenSeq([i \in DOMAIN past |-> Retries(past[i])]))
             g == stm_get_global_stats
         IN
         /\ g.global_nb_commits = Len(Commits(all)) /\ stats_global.cnt = g.global_nb_commits
         /\ g.global_nb_aborts <= Len(Aborts(all))
         /\ NoneGivenUp(all) =>
              /\ g.global_nb_aborts = Len(Aborts(all))
              /\ g.global_max_retries = r.max /\ stats_global.min = r.min

\* mod_stats.c:46 "Total number of aborts (cumulative)", and :43 "consecutive aborts of
\* current transaction", so that none is left between transactions.  Wrong after a
\* transaction that was given up: its aborts are charged to the next one that commits,
\* or to none.
AbortsCounted ==
  Registered("stats") =>
    \A t \in Thread : Idle(t) /\ ~Active(t) =>
      /\ stm_get_local_stats(t).nb_aborts = Len(Aborts(history[t]))
      /\ data[t].stats.retries = 0

\* Aborting puts back all the private memory the transaction logged before it
\* wrote it, also when it logged a location twice or two entries overlap
\* (mod_log_on_abort): a transaction that has nothing logged any more, restarted
\* or given up, sees the memory it started with.
UndoRestores ==
  \A t \in Thread :
    Tx(t) /\ tx[t].status \in {"ACTIVE", "ABORTED"} /\ data[t].log = <<>> => mem[t] = base[t]

\* Blocks of the undo log are freed on commit (mod_log_on_commit), on abort and on
\* the abort that returns into a commit: outside of a transaction none is left,
\* and inside there is one for each TYPE_BYTES entry.
LogBlocks ==
  \A t \in Thread : data[t].blocks =
    IF Active(t) THEN Len(SelectSeq(data[t].log, LAMBDA e : e.type = "bytes")) ELSE 0

\* A callback runs once, when the attempt that registered it ends the way it asked
\* for, and after the callbacks registered later ("If the transaction commits, the
\* callback is never triggered", mod_cb.h; mod_cb_on_commit, mod_cb_on_abort): none
\* of an attempt that was rolled back runs when a later one commits.
CallbacksRun ==
  \A t \in Thread :
    LET Due(i) == {n \in DOMAIN data[t].asked : data[t].asked[n] = [kind |-> history[t][i].ev, at |-> i]}
    IN  data[t].ran = FlattenSeq([i \in DOMAIN history[t] |-> SetToSortSeq(Due(i), >)])

\* The samples of atomic block id in history h: each commit whose number is a
\* multiple of the period.
Sampled(h, id) ==
  LET c == Commits(h)
  IN  Cardinality({i \in DOMAIN c : i % Period = 0 /\ c[i].id = id})

\* The buffers of the threads and the global counters hold each sample exactly
\* once, across flushes by full buffers and by thread exits, whose flush comes
\* before or after the other exit callbacks (mod_ab_on_commit, sc_add_samples).
SamplesAccounted ==
  Registered("ab") =>
    \A id \in AbId :
      ab_list[id]
        + FoldLeft(LAMBDA n, t : n + Len(SelectSeq(data[t].buffer, LAMBDA x : x = id)),
                   0, SetToSeq(Thread))
      = FoldLeft(LAMBDA n, h : n + Sampled(h, id), 0, past)
          + FoldLeft(LAMBDA n, t : n + Sampled(history[t], id), 0, SetToSeq(Thread))

\* stm_commit returns 1 "upon success, 0 otherwise" (stm.h): every commit the
\* application was told of installed its write set.
CommitInstalls ==
  \A t \in Thread : Len(Commits(history[t])) <= installed[t]

=============================================================================
