-------------------------------- MODULE Abi --------------------------------
(***************************************************************************)
(* The entry points of the Intel TM ABI (abi/abi.c) on top of the library: *)
(* initialization on demand by whichever thread comes first, finalization  *)
(* of threads and of the process, and transactions through begin, commit,  *)
(* commit-to-id and abort.  Between the steps of an entry point another    *)
(* thread may run: pc names the step a thread is about to take.            *)
(***************************************************************************)
EXTENDS Library

CONSTANTS
  LateThreads,   \* may _ITM_finalizeProcess be called while other threads use
                 \* the library, or come to it before the status has changed?
  MaxInits       \* bound on the number of initializations

VARIABLES
  status,        \* global_abi.status
  pc,            \* step of abi_init_thread, abi_init or abi_exit a thread is at
  inits          \* number of times the library was initialized

abiVars == <<libVars, status, pc, inits>>

noTransactionId == 1

Goto(t, from, to) ==
  /\ pc[t] = from
  /\ todo[t] = <<>>
  /\ pc' = [pc EXCEPT ![t] = to]

Quiet(t) == \A u \in Thread \ {t} : ~Tx(u) /\ pc[u] = "out"

----------------------------------------------------------------------------
(* _ITM_initializeProcess, _ITM_initializeThread, _ITM_getTransaction and  *)
(* the first _ITM_beginTransaction of a thread.                            *)

\* abi_init_thread: only a thread without descriptor has something to do
EnterThread(t) ==
  /\ ~Tx(t)
  /\ inits < MaxInits \/ status # "NOT_INITIALIZED"
  /\ LateThreads \/ \A u \in Thread : pc[u] # "exit_cas"
  /\ Goto(t, "out", IF status = "INITIALIZED" THEN "init_thread" ELSE "load")
  /\ UNCHANGED <<libVars, status, inits>>

\* another thread that initializes or finalizes is waited for
LoadStatus(t) ==
  /\ status \in {"NOT_INITIALIZED", "INITIALIZED"}
  /\ Goto(t, "load", IF status = "INITIALIZED" THEN "init_thread" ELSE "cas")
  /\ UNCHANGED <<libVars, status, inits>>

\* what a bug would do: store the status that was loaded as free
BugCasStatus(t) ==
  /\ Goto(t, "cas", "stm_init")
  /\ status' = "INITIALIZING"
  /\ UNCHANGED <<libVars, inits>>

CasStatus(t) ==
  /\ Goto(t, "cas", IF status = "NOT_INITIALIZED" THEN "stm_init" ELSE "load")
  /\ status' = IF status = "NOT_INITIALIZED" THEN "INITIALIZING" ELSE status
  /\ UNCHANGED <<libVars, inits>>

\* stm_init returns at once when the library is initialized
CheckInitialized(t) ==
  /\ Goto(t, "stm_init", IF initialized THEN "modules" ELSE "setup")
  /\ UNCHANGED <<libVars, status, inits>>

SetUp(t) ==
  /\ Goto(t, "setup", "modules")
  /\ initialized' = TRUE
  /\ threads' = {}
  /\ inits' = inits + 1
  /\ UNCHANGED <<cb, tx, data, mem, todo, seen, stats_global, ab_list, base, history,
                 past, installed, status>>

\* mod_mem_init, mod_log_init, mod_cb_init: register the first time only
InitModules(t) ==
  /\ Goto(t, "modules", "publish")
  /\ Room("cb") /\ Room("log")
  /\ cb' = IF Registered("cb") THEN cb ELSE WithModule(WithModule(cb, "cb"), "log")
  /\ UNCHANGED <<initialized, threads, tx, data, mem, todo, seen, stats_global, ab_list,
                 base, history, past, installed, status, inits>>

Publish(t) ==
  /\ Goto(t, "publish", "init_thread")
  /\ status' = "INITIALIZED"
  /\ UNCHANGED <<libVars, inits>>

CreateDescriptor(t) ==
  /\ Goto(t, "init_thread", "out")
  /\ InitThread(t)
  /\ UNCHANGED <<status, inits>>

----------------------------------------------------------------------------
(* _ITM_finalizeThread and _ITM_finalizeProcess. *)

FinalizeThread(t) ==
  /\ pc[t] = "out"
  /\ StartExit(t)
  /\ UNCHANGED <<status, pc, inits>>

\* The caller's own thread is finalized first.
FinalizeProcess(t) ==
  /\ LateThreads \/ Quiet(t)
  /\ status = "INITIALIZED"
  /\ ~Active(t)
  /\ Goto(t, "out", "exit_cas")
  /\ IF Tx(t) THEN StartExit(t) ELSE UNCHANGED libVars
  /\ UNCHANGED <<status, inits>>

\* only one thread finalizes; the others find the status changed and return
CasExit(t) ==
  /\ Goto(t, "exit_cas", IF status = "INITIALIZED" THEN "stm_exit" ELSE "out")
  /\ status' = IF status = "INITIALIZED" THEN "FINALIZING" ELSE status
  /\ UNCHANGED <<libVars, inits>>

Exit(t) ==
  /\ Goto(t, "stm_exit", "exit_store")
  /\ stm_exit
  /\ UNCHANGED <<cb, threads, tx, data, mem, todo, seen, stats_global, ab_list, base,
                 history, past, installed, status, inits>>

StoreExit(t) ==
  /\ Goto(t, "exit_store", "out")
  /\ status' = "NOT_INITIALIZED"
  /\ UNCHANGED <<libVars, inits>>

----------------------------------------------------------------------------
(* Transactions *)

getTransactionId(t) == IF Tx(t) THEN tx[t].nesting + 1 ELSE noTransactionId

\* A nested begin only counts.  For code that goes irrevocable, or that is not
\* instrumented, stm_set_irrevocable comes first, which may roll an enclosing
\* transaction back; in an outermost one, that and the attribute read_only concern the
\* design below.
BeginTransaction(t) ==
  \/ tx[t].nesting = 0 /\ \E id \in AbId : Start(t, id, FALSE)
  \/ tx[t].nesting > 0 /\ (StartNested(t) \/ Rollback(t, "IRREVOCABLE"))

CommitTransaction(t) == CommitNested(t) \/ Commit(t)

\* Commits the transactions nested in tid, down to the outermost one when tid
\* is that of no transaction.
CommitToId(t, tid) ==
  /\ getTransactionId(t) > tid
  /\ Idle(t) /\ Active(t)
  /\ IF tid = noTransactionId
     THEN /\ Events < MaxEvents
          /\ tx' = [tx EXCEPT ![t].status = "COMMITTED", ![t].nesting = 0]
          /\ RunCallbacks(t, <<"commit">>)
          /\ Log(t, Event(t, "commit", FALSE))
          /\ installed' = [installed EXCEPT ![t] = @ + 1]
          /\ UNCHANGED <<apiVars, base>>
     ELSE /\ tx' = [tx EXCEPT ![t].nesting = tid - 1]
          /\ UNCHANGED <<apiVars, data, mem, ab_list, base, history, installed>>

\* __tm_abort gives the transaction up, __tm_retry runs it again
AbortTransaction(t) == \/ Rollback(t, "NO_RETRY")
                       \/ Rollback(t, "EXPLICIT")

\* _ITM_addUserCommitAction, _ITM_addUserUndoAction
AddUserAction(t) == \E kind \in {"commit", "abort"} : RegisterCallback(t, kind)

Transact(t) ==
  /\ pc[t] = "out"
  /\ Idle(t)
  /\ \/ BeginTransaction(t)
     \/ CommitTransaction(t)
     \/ \E tid \in 1 .. 2 : CommitToId(t, tid)
     \/ AbortTransaction(t)
     \/ AddUserAction(t)
     \/ \E type \in LogType, a \in Addr, v \in NewVal : LogAndWrite(t, type, a, v)
  /\ UNCHANGED <<status, pc, inits>>

ExitStepOf(t) ==
  /\ LeaveQuiesce(t)
  /\ UNCHANGED <<status, pc, inits>>

----------------------------------------------------------------------------

AbiInit ==
  /\ Init
  /\ status = "NOT_INITIALIZED"
  /\ pc = [t \in Thread |-> "out"]
  /\ inits = 0

AbiStep(t) ==
  \/ EnterThread(t) \/ LoadStatus(t) \/ CasStatus(t) \/ CheckInitialized(t)
  \/ SetUp(t) \/ InitModules(t) \/ Publish(t) \/ CreateDescriptor(t)
  \/ FinalizeThread(t) \/ FinalizeProcess(t) \/ CasExit(t) \/ Exit(t) \/ StoreExit(t)
  \/ Transact(t) \/ ExitStepOf(t)

AbiNext == \E t \in Thread : AbiStep(t)

AbiSpec == AbiInit /\ [][AbiNext]_abiVars

----------------------------------------------------------------------------
(* Properties *)

\* Threads that come together initialize the library once, and none of them uses
\* it too early (abi_init, abi_init_thread): each descriptor belongs to an
\* initialized library and is on its list of threads, so that quiescence waits for
\* the thread.  A second initialization would empty that list under the first
\* thread's feet.
DescriptorsListed ==
  \A t \in Thread : Tx(t) => initialized /\ status = "INITIALIZED" /\ t \in threads

=============================================================================
