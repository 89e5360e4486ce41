------------------------------- MODULE MCApi -------------------------------
(* Small instances of the layers around a transaction, one chosen at the start. *)
EXTENDS Integers, Sequences, FiniteSets, TLC

CONSTANTS t1, t2, NoTx,
          LogType,           \* types of undo log entries
          LateThreads        \* are there threads while the process is finalized?

VARIABLES part,
          initialized, cb, threads, tx, data, mem, todo, seen, stats_global, ab_list,
          base, history, past, installed,
          status, pc, inits,
          W, op, before, bytes, ret, done,
          counter, stats, added,
          code, all_tables, next, old, pc_clone, loads, linked, raced, call

libVars == <<initialized, cb, threads, tx, data, mem, todo, seen, stats_global, ab_list,
             base, history, past, installed>>
procVars == <<status, pc, inits>>
subVars == <<W, op, before, bytes, ret, done>>
counterVars == <<counter, stats, added>>
cloneVars == <<code, all_tables, next, old, pc_clone, loads, linked, raced, call>>

\* Bounds: at most MaxEvents aborts and commits and MaxLives thread lives in all, logs
\* of two entries, two addresses, nesting of two, a sample every second commit, buffers of two.
Two == {t1, t2}
Symmetry == Permutations(Two)
\* Two threads that publish statistics and samples, one thread that logs.
Stats == INSTANCE Library WITH
    Thread <- Two, Module <- {"stats", "ab"}, MaxCb <- 2, Addr <- {1}, MaxLog <- 0, MaxAsked <- 0,
    MaxNesting <- 1, MaxEvents <- 4, MaxLives <- 2,
    Span <- 2, CharMod <- 2, ValMod <- 4, NewVal <- {0}, AbId <- {1}, Period <- 2,
    BufferSize <- 2, UnsignedMax <- 99
UndoLog == INSTANCE Library WITH
    Thread <- Two, Module <- {"log", "cb", "order"}, MaxCb <- 2, Addr <- {1, 2},
    MaxLog <- 2, MaxAsked <- 2, MaxNesting <- 2, MaxEvents <- 2, MaxLives <- 1,
    Span <- 2, CharMod <- 2, ValMod <- 4, NewVal <- {0}, AbId <- {1}, Period <- 2,
    BufferSize <- 2, UnsignedMax <- 99
Process == INSTANCE Abi WITH
    Thread <- Two, Module <- {"cb", "log"}, MaxCb <- 2, Addr <- {1}, MaxLog <- 1, MaxAsked <- 1,
    MaxNesting <- 2, MaxEvents <- 2, MaxLives <- 4, MaxInits <- 2,
    Span <- 2, CharMod <- 2, ValMod <- 4, NewVal <- {0}, AbId <- {1}, Period <- 2,
    BufferSize <- 2, UnsignedMax <- 99
Access == INSTANCE SubWord WITH Size <- 24, MaxLen <- 16
Counter == INSTANCE SmartCounter WITH reservoir_size <- 4, Length <- 1 .. 4, MaxSamples <- 6
\* One object has a function without a clone between two that have one; the others lie
\* above it, or on both sides.
Codes == {[a |-> {1, 3}, b |-> {4}, c |-> {5}], [a |-> {2}, b |-> {3, 5}, c |-> {1}]}
Clone == INSTANCE CloneTable WITH
    Object <- {"a", "b", "c"}, Ptr <- 1 .. 5, Codes <- Codes, MaxLoads <- 3, NULL <- NoTx, pc <- pc_clone

NoProcess == status = "NOT_INITIALIZED" /\ pc = [t \in Two |-> "out"] /\ inits = 0
NoAccess == W = 8 /\ op = "none" /\ before = <<>> /\ bytes = <<>> /\ ret = <<>> /\ done = FALSE
NoClones ==
  code = <<>> /\ all_tables = NoTx /\ next = <<>> /\ old = <<>> /\ pc_clone = <<>>
  /\ loads = 0 /\ linked = {} /\ raced = FALSE /\ call = NoTx

Init ==
  /\ part \in {"stats", "counter", "log", "process", "access", "clones"}
  /\ CASE part = "log"     -> UndoLog!Init
       [] part = "process" -> Process!AbiInit
       [] OTHER            -> Stats!Init
  /\ IF part = "access" THEN Access!SubInit ELSE NoAccess
  /\ IF part = "clones" THEN Clone!CloneInit ELSE NoClones
  /\ IF part = "process" THEN TRUE ELSE NoProcess
  /\ Counter!CounterInit

Next ==
  /\ \/ part = "stats" /\ Stats!Next /\ UNCHANGED <<procVars, subVars, counterVars, cloneVars>>
     \/ part = "log" /\ UndoLog!Next /\ UNCHANGED <<procVars, subVars, counterVars, cloneVars>>
     \/ part = "process" /\ Process!AbiNext /\ UNCHANGED <<subVars, counterVars, cloneVars>>
     \/ /\ part = "access" /\ Access!Access
        /\ UNCHANGED <<libVars, procVars, counterVars, cloneVars>>
     \/ /\ part = "counter" /\ Counter!CounterNext
        /\ UNCHANGED <<libVars, procVars, subVars, cloneVars>>
     \/ /\ part = "clones" /\ Clone!CloneNext
        /\ UNCHANGED <<libVars, procVars, subVars, counterVars>>
  /\ UNCHANGED part

Spec == Init /\ [][Next]_<<part, libVars, procVars, subVars, counterVars, cloneVars>>

\* GlobalStats and SamplesAccounted of the instance with these modules (mod_stats.c,
\* mod_ab.c): what exiting threads publish concurrently is what really happened.
GlobalStats == part = "stats" => Stats!GlobalStats
SamplesAccounted == part = "stats" => Stats!SamplesAccounted

\* AbortsCounted (mod_stats.c): all aborts are in the statistics between transactions.
AbortsCounted == part = "stats" => Stats!AbortsCounted

\* UndoRestores and LogBlocks of the instance with the undo log (mod_log.c).
UndoRestores == part = "log" => UndoLog!UndoRestores
LogBlocks == part = "log" => UndoLog!LogBlocks

\* CallbacksRun of the instances with user callbacks (mod_cb_mem.c).
CallbacksRun == part \in {"log", "process"} => UndoLog!CallbacksRun

\* CommitInstalls (stm_commit): a reported commit installed its write set.
CommitInstalls == part \in {"stats", "log"} => UndoLog!CommitInstalls

\* DescriptorsListed (abi_init, abi_exit): one initialization, before any use.
DescriptorsListed == part = "process" => Process!DescriptorsListed

\* PercentilesSound (sc_percentile): statistics of an atomic block are those of its samples.
PercentilesSound == part = "counter" => Counter!PercentilesSound

\* ClonesFound (clone.c): transactions call the clones of the loaded objects.
ClonesFound == part = "clones" => Clone!ClonesFound

\* ClonesServed (clone.c): the same after registrations that came between each other.
ClonesServed == part = "clones" => Clone!ClonesServed

\* BytesExact (wrappers.c): sub-word accesses touch exactly the bytes of their object.
BytesExact == part = "access" => Access!BytesExact
=============================================================================
