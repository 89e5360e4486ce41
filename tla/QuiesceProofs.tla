--------------------------- MODULE QuiesceProofs ----------------------------
(***************************************************************************)
(* Safety of the quiescence protocol, for any number of threads.           *)
(*                                                                         *)
(* Three invariants are inductive.  QuiesceInv ties the stage of           *)
(* irrevocability to the place where a thread is, the mutex to the serial  *)
(* transaction that owns it, and quiesce = 2 to the mutex; HolderBlocks is *)
(* its last conjunct.  CountInv is the count of the barrier, from which    *)
(* the clock reset is shown to find everybody else blocked.  ExcludeInv is *)
(* about the scan of stm_quiesce, which leaves no transaction running.     *)
(***************************************************************************)
EXTENDS Quiesce, FiniteSetTheorems, TLAPS

\* What both invariants need of TypeOK.
Shape ==
    /\ mutex \in Tx \cup {NoTx}
    /\ clock \in Nat
    /\ irr \in [Tx -> [stage : 0 .. 3, mode : Mode]]
    /\ pc \in [Tx -> Label]

\* The stages that a transaction can be in at a label.
StageAt(l, n, serial) ==
    /\ l \in {"out", "idle"} => n \in {0, 1}
    /\ l = "finish" => n = 0
    /\ l = "flag" => n = 1
    /\ l \in {"start", "check", "spin", "resume", "run"} => n \in {0, 3}
    /\ l \in {"release_flag", "release_quiesce", "unlock"} => n = 3
    /\ l \in {"quiesce", "try_quiesce", "scan"} => n = 2
    /\ l \in {"quiesce", "try_quiesce", "scan", "release_quiesce", "unlock"} => serial
Stages == \A t \in Tx : StageAt(pc[t], irr[t].stage, Serial(t))

\* Who has stopped the others, or is about to, is the one that holds the mutex.
Holds(t) == pc[t] = "scan" \/ (Serial(t) /\ irr[t].stage = 3)
Holder == \A t \in Tx : mutex = t <=> Holds(t)

QuiesceInv == Shape /\ Stages /\ Holder /\ HolderBlocks

-----------------------------------------------------------------------------
(* Every action preserves QuiesceInv *)

\* A request or another stage keeps the shape of irr.
LEMMA NewStage ==
    ASSUME irr \in [Tx -> [stage : 0 .. 3, mode : Mode]],
           NEW t \in Tx, NEW n \in 0 .. 3, NEW m \in Mode
    PROVE  [irr EXCEPT ![t] = [stage |-> n, mode |-> m]]
                \in [Tx -> [stage : 0 .. 3, mode : Mode]]
<1>1. [stage |-> n, mode |-> m] \in [stage : 0 .. 3, mode : Mode]
  OBVIOUS
<1>2. QED
  BY <1>1

\* A status store becomes visible: only active and buffer change.
LEMMA DrainStep ==
    ASSUME QuiesceInv, NEW t \in Tx, Drain(t)
    PROVE  QuiesceInv'
<1>1. Shape'
  BY DEF QuiesceInv, Shape, Drain, shared
<1>2. Stages'
  BY DEF QuiesceInv, Shape, Stages, StageAt, Serial, Drain, shared
<1>3. Holder'
  BY DEF QuiesceInv, Shape, Stages, StageAt, Holder, Holds, Serial, Drain, shared
<1>4. HolderBlocks'
  BY DEF QuiesceInv, Shape, Stages, StageAt, Holder, Holds, Serial, HolderBlocks,
         Drain, shared
<1>5. QED
  BY <1>1, <1>2, <1>3, <1>4 DEF QuiesceInv

\* A new thread: its request is cleared, and it does not hold the mutex.
LEMMA EnterStep ==
    ASSUME QuiesceInv, NEW t \in Tx, Enter(t)
    PROVE  QuiesceInv'
<1>1. Shape'
  BY DEF QuiesceInv, Shape, Enter, Goto, NotAsked, Label, Mode
<1>2. Stages'
  BY DEF QuiesceInv, Shape, Stages, StageAt, Serial, Enter, Goto, NotAsked
<1>3. Holder'
  BY QuiesceAssumption
     DEF QuiesceInv, Shape, Stages, StageAt, Holder, Holds, Serial, Enter, Goto,
         NotAsked, CanLock, QuiesceAssumption
<1>4. HolderBlocks'
  BY QuiesceAssumption
     DEF QuiesceInv, Shape, Stages, StageAt, Holder, Holds, Serial, HolderBlocks,
         Enter, Goto, NotAsked, CanLock, QuiesceAssumption
<1>5. QED
  BY <1>1, <1>2, <1>3, <1>4 DEF QuiesceInv

\* A thread leaves: it is idle, at stage 0 or 1, without the mutex.
LEMMA ExitStep ==
    ASSUME QuiesceInv, NEW t \in Tx, Exit(t)
    PROVE  QuiesceInv'
<1>1. Shape'
  BY DEF QuiesceInv, Shape, Exit, Goto, Label
<1>2. Stages'
  BY DEF QuiesceInv, Shape, Stages, StageAt, Serial, Exit, Goto
<1>3. Holder'
  BY QuiesceAssumption
     DEF QuiesceInv, Shape, Stages, StageAt, Holder, Holds, Serial, Exit, Goto,
         CanLock, QuiesceAssumption
<1>4. HolderBlocks'
  BY QuiesceAssumption
     DEF QuiesceInv, Shape, Stages, StageAt, Holder, Holds, Serial, HolderBlocks,
         Exit, Goto, CanLock, QuiesceAssumption
<1>5. QED
  BY <1>1, <1>2, <1>3, <1>4 DEF QuiesceInv

\* A start only moves the thread.
LEMMA StartStep ==
    ASSUME QuiesceInv, NEW t \in Tx, Start(t)
    PROVE  QuiesceInv'
<1>1. Shape'
  BY DEF QuiesceInv, Shape, Start, Goto, Label, shared
<1>2. Stages'
  BY DEF QuiesceInv, Shape, Stages, StageAt, Serial, Start, Goto, shared
<1>3. Holder'
  BY DEF QuiesceInv, Shape, Stages, StageAt, Holder, Holds, Serial, Start, Goto,
         shared
<1>4. HolderBlocks'
  BY DEF QuiesceInv, Shape, Stages, StageAt, Holder, Holds, Serial, HolderBlocks,
         Start, Goto, shared
<1>5. QED
  BY <1>1, <1>2, <1>3, <1>4 DEF QuiesceInv

\* Clock, flag or quiescence: each stage goes to a label that admits it.
LEMMA PrepareStep ==
    ASSUME QuiesceInv, NEW t \in Tx, Prepare(t)
    PROVE  QuiesceInv'
<1>1. Shape'
  BY DEF QuiesceInv, Shape, Prepare, Goto, Stage, Label, shared
<1>2. Stages'
  BY DEF QuiesceInv, Shape, Stages, StageAt, Serial, Prepare, Goto, Stage, shared
<1>3. Holder'
  BY DEF QuiesceInv, Shape, Stages, StageAt, Holder, Holds, Serial, Prepare,
         Goto, Stage, shared
<1>4. HolderBlocks'
  BY DEF QuiesceInv, Shape, Stages, StageAt, Holder, Holds, Serial, HolderBlocks,
         Prepare, Goto, Stage, shared
<1>5. QED
  BY <1>1, <1>2, <1>3, <1>4 DEF QuiesceInv

\* The barrier takes the free mutex, so nobody holds it and quiesce is not 2.
LEMMA BarrierStep ==
    ASSUME QuiesceInv, NEW t \in Tx, Barrier(t)
    PROVE  QuiesceInv'
<1>1. Shape'
  BY DEF QuiesceInv, Shape, Barrier, BarrierLoop, Goto, Label
<1>2. Stages'
  BY DEF QuiesceInv, Shape, Stages, StageAt, Serial, Barrier, BarrierLoop, Goto
<1>3. Holder'
  BY QuiesceAssumption
     DEF QuiesceInv, Shape, Stages, StageAt, Holder, Holds, Serial, Barrier,
         BarrierLoop, CanLock, Goto, QuiesceAssumption
<1>4. HolderBlocks'
  BY QuiesceAssumption
     DEF QuiesceInv, Shape, Stages, StageAt, Holder, Holds, Serial, HolderBlocks,
         Barrier, BarrierLoop, CanLock, Goto, QuiesceAssumption
<1>5. QED
  BY <1>1, <1>2, <1>3, <1>4 DEF QuiesceInv

\* As Barrier: the mutex was free.
LEMMA BarrierAwakeStep ==
    ASSUME QuiesceInv, NEW t \in Tx, BarrierAwake(t)
    PROVE  QuiesceInv'
<1>1. Shape'
  BY DEF QuiesceInv, Shape, BarrierAwake, BarrierLoop, Goto, Label
<1>2. Stages'
  BY DEF QuiesceInv, Shape, Stages, StageAt, Serial, BarrierAwake, BarrierLoop,
         Goto
<1>3. Holder'
  BY QuiesceAssumption
     DEF QuiesceInv, Shape, Stages, StageAt, Holder, Holds, Serial, BarrierAwake,
         BarrierLoop, CanLock, Goto, QuiesceAssumption
<1>4. HolderBlocks'
  BY QuiesceAssumption
     DEF QuiesceInv, Shape, Stages, StageAt, Holder, Holds, Serial, HolderBlocks,
         BarrierAwake, BarrierLoop, CanLock, Goto, QuiesceAssumption
<1>5. QED
  BY <1>1, <1>2, <1>3, <1>4 DEF QuiesceInv

\* Only waiting changes.
LEMMA SpuriousWakeupStep ==
    ASSUME QuiesceInv, NEW t \in Tx, SpuriousWakeup(t)
    PROVE  QuiesceInv'
<1>1. Shape'
  BY DEF QuiesceInv, Shape, SpuriousWakeup
<1>2. Stages'
  BY DEF QuiesceInv, Shape, Stages, StageAt, Serial, SpuriousWakeup
<1>3. Holder'
  BY DEF QuiesceInv, Shape, Stages, StageAt, Holder, Holds, Serial,
         SpuriousWakeup
<1>4. HolderBlocks'
  BY DEF QuiesceInv, Shape, Stages, StageAt, Holder, Holds, Serial, HolderBlocks,
         SpuriousWakeup
<1>5. QED
  BY <1>1, <1>2, <1>3, <1>4 DEF QuiesceInv

\* The status store moves the thread from start to check.
LEMMA ActivateStep ==
    ASSUME QuiesceInv, NEW t \in Tx, Activate(t)
    PROVE  QuiesceInv'
<1>1. Shape'
  BY DEF QuiesceInv, Shape, Activate, Goto, Label, shared
<1>2. Stages'
  BY DEF QuiesceInv, Shape, Stages, StageAt, Serial, Activate, Goto, shared
<1>3. Holder'
  BY DEF QuiesceInv, Shape, Stages, StageAt, Holder, Holds, Serial, Activate,
         Goto, shared
<1>4. HolderBlocks'
  BY DEF QuiesceInv, Shape, Stages, StageAt, Holder, Holds, Serial, HolderBlocks,
         Activate, Goto, shared
<1>5. QED
  BY <1>1, <1>2, <1>3, <1>4 DEF QuiesceInv

\* Nobody quiesces, or it is the thread itself: it only moves.
LEMMA CheckPassesStep ==
    ASSUME QuiesceInv, NEW t \in Tx, CheckPasses(t)
    PROVE  QuiesceInv'
<1>1. Shape'
  BY DEF QuiesceInv, Shape, CheckPasses, Goto, Label, shared
<1>2. Stages'
  BY DEF QuiesceInv, Shape, Stages, StageAt, Serial, CheckPasses, Goto, shared
<1>3. Holder'
  BY DEF QuiesceInv, Shape, Stages, StageAt, Holder, Holds, Serial, CheckPasses,
         Goto, shared
<1>4. HolderBlocks'
  BY DEF QuiesceInv, Shape, Stages, StageAt, Holder, Holds, Serial, HolderBlocks,
         CheckPasses, Goto, shared
<1>5. QED
  BY <1>1, <1>2, <1>3, <1>4 DEF QuiesceInv

\* The thread withdraws: its status and its label change.
LEMMA CheckBlocksStep ==
    ASSUME QuiesceInv, NEW t \in Tx, CheckBlocks(t)
    PROVE  QuiesceInv'
<1>1. Shape'
  BY DEF QuiesceInv, Shape, CheckBlocks, Goto, Label, shared
<1>2. Stages'
  BY DEF QuiesceInv, Shape, Stages, StageAt, Serial, CheckBlocks, Goto, shared
<1>3. Holder'
  BY DEF QuiesceInv, Shape, Stages, StageAt, Holder, Holds, Serial, CheckBlocks,
         Goto, shared
<1>4. HolderBlocks'
  BY DEF QuiesceInv, Shape, Stages, StageAt, Holder, Holds, Serial, HolderBlocks,
         CheckBlocks, Goto, shared
<1>5. QED
  BY <1>1, <1>2, <1>3, <1>4 DEF QuiesceInv

\* The flag is read clear: the thread only moves.
LEMMA SpinEndsStep ==
    ASSUME QuiesceInv, NEW t \in Tx, SpinEnds(t)
    PROVE  QuiesceInv'
<1>1. Shape'
  BY DEF QuiesceInv, Shape, SpinEnds, Goto, Label, shared
<1>2. Stages'
  BY DEF QuiesceInv, Shape, Stages, StageAt, Serial, SpinEnds, Goto, shared
<1>3. Holder'
  BY DEF QuiesceInv, Shape, Stages, StageAt, Holder, Holds, Serial, SpinEnds,
         Goto, shared
<1>4. HolderBlocks'
  BY DEF QuiesceInv, Shape, Stages, StageAt, Holder, Holds, Serial, HolderBlocks,
         SpinEnds, Goto, shared
<1>5. QED
  BY <1>1, <1>2, <1>3, <1>4 DEF QuiesceInv

\* The saved status is stored again: status and label change.
LEMMA ResumeStep ==
    ASSUME QuiesceInv, NEW t \in Tx, Resume(t)
    PROVE  QuiesceInv'
<1>1. Shape'
  BY DEF QuiesceInv, Shape, Resume, Goto, Label, shared
<1>2. Stages'
  BY DEF QuiesceInv, Shape, Stages, StageAt, Serial, Resume, Goto, shared
<1>3. Holder'
  BY DEF QuiesceInv, Shape, Stages, StageAt, Holder, Holds, Serial, Resume, Goto,
         shared
<1>4. HolderBlocks'
  BY DEF QuiesceInv, Shape, Stages, StageAt, Holder, Holds, Serial, HolderBlocks,
         Resume, Goto, shared
<1>5. QED
  BY <1>1, <1>2, <1>3, <1>4 DEF QuiesceInv

\* A rollback keeps the stage and goes to prepare.
LEMMA AbortStep ==
    ASSUME QuiesceInv, NEW t \in Tx, Abort(t)
    PROVE  QuiesceInv'
<1>1. Shape'
  BY DEF QuiesceInv, Shape, Abort, Rollback, Goto, Label
<1>2. Stages'
  BY DEF QuiesceInv, Shape, Stages, StageAt, Serial, Abort, Rollback, Goto
<1>3. Holder'
  BY DEF QuiesceInv, Shape, Stages, StageAt, Holder, Holds, Serial, Abort,
         Rollback, Goto
<1>4. HolderBlocks'
  BY DEF QuiesceInv, Shape, Stages, StageAt, Holder, Holds, Serial, HolderBlocks,
         Abort, Rollback, Goto
<1>5. QED
  BY <1>1, <1>2, <1>3, <1>4 DEF QuiesceInv

\* A commit keeps the stage, which decides what is released.
LEMMA CommitStep ==
    ASSUME QuiesceInv, NEW t \in Tx, Commit(t)
    PROVE  QuiesceInv'
<1>1. \/ pc' = [pc EXCEPT ![t] = "prepare"] /\ irr' = [irr EXCEPT ![t] = irr[t]]
      \/ pc' = [pc EXCEPT ![t] = "release_flag"] /\ irr' = irr /\ irr[t].stage # 0
      \/ pc' = [pc EXCEPT ![t] = "finish"] /\ irr' = irr /\ irr[t].stage = 0
  BY DEF Commit, Rollback, Goto
<1>2. /\ pc[t] = "run"
      /\ mutex' = mutex /\ quiesce' = quiesce
      /\ clock' = clock \/ clock' = clock + 1
  BY DEF Commit, Rollback
<1>3. /\ irr' = irr
      /\ \A u \in Tx \ {t} : pc'[u] = pc[u]
      /\ \/ pc'[t] = "prepare"
         \/ pc'[t] = "release_flag" /\ irr[t].stage # 0
         \/ pc'[t] = "finish" /\ irr[t].stage = 0
  BY <1>1 DEF QuiesceInv, Shape
<1>4. Shape'
  BY <1>1, <1>2, <1>3 DEF QuiesceInv, Shape, Label
<1>5. Stages'
  BY <1>2, <1>3 DEF QuiesceInv, Stages, StageAt, Serial
<1>6. Holder'
  BY <1>2, <1>3 DEF QuiesceInv, Holder, Holds, Serial
<1>7. HolderBlocks'
  <2>1. mutex = t => pc'[t] # "unlock" /\ pc[t] # "unlock"
    BY <1>2, <1>3
  <2>2. QED
    BY <1>2, <1>3, <2>1 DEF QuiesceInv, Shape, HolderBlocks
<1>8. QED
  BY <1>4, <1>5, <1>6, <1>7 DEF QuiesceInv

\* As Commit, with the clock unchanged.
LEMMA CommitReadOnlyStep ==
    ASSUME QuiesceInv, NEW t \in Tx, CommitReadOnly(t)
    PROVE  QuiesceInv'
<1>1. Shape'
  BY DEF QuiesceInv, Shape, CommitReadOnly, Goto, Label, shared
<1>2. Stages'
  BY DEF QuiesceInv, Shape, Stages, StageAt, Serial, CommitReadOnly, Goto, shared
<1>3. Holder'
  BY DEF QuiesceInv, Shape, Stages, StageAt, Holder, Holds, Serial,
         CommitReadOnly, Goto, shared
<1>4. HolderBlocks'
  BY DEF QuiesceInv, Shape, Stages, StageAt, Holder, Holds, Serial, HolderBlocks,
         CommitReadOnly, Goto, shared
<1>5. QED
  BY <1>1, <1>2, <1>3, <1>4 DEF QuiesceInv

\* The flag is cleared: a serial transaction still has the mutex to give back.
LEMMA ReleaseFlagStep ==
    ASSUME QuiesceInv, NEW t \in Tx, ReleaseFlag(t)
    PROVE  QuiesceInv'
<1>1. Shape'
  BY DEF QuiesceInv, Shape, ReleaseFlag, Goto, NotAsked, Label, Mode
<1>2. Stages'
  BY DEF QuiesceInv, Shape, Stages, StageAt, Serial, ReleaseFlag, Goto, NotAsked
<1>3. Holder'
  BY DEF QuiesceInv, Shape, Stages, StageAt, Holder, Holds, Serial, ReleaseFlag,
         Goto, NotAsked
<1>4. HolderBlocks'
  BY DEF QuiesceInv, Shape, Stages, StageAt, Holder, Holds, Serial, HolderBlocks,
         ReleaseFlag, Goto, NotAsked
<1>5. QED
  BY <1>1, <1>2, <1>3, <1>4 DEF QuiesceInv

\* quiesce is cleared by the owner of the mutex.
LEMMA ReleaseQuiesceStep ==
    ASSUME QuiesceInv, NEW t \in Tx, ReleaseQuiesce(t)
    PROVE  QuiesceInv'
<1>1. Shape'
  BY DEF QuiesceInv, Shape, ReleaseQuiesce, Goto, Label
<1>2. Stages'
  BY DEF QuiesceInv, Shape, Stages, StageAt, Serial, ReleaseQuiesce, Goto
<1>3. Holder'
  BY DEF QuiesceInv, Shape, Stages, StageAt, Holder, Holds, Serial,
         ReleaseQuiesce, Goto
<1>4. HolderBlocks'
  BY DEF QuiesceInv, Shape, Stages, StageAt, Holder, Holds, Serial, HolderBlocks,
         ReleaseQuiesce, Goto
<1>5. QED
  BY <1>1, <1>2, <1>3, <1>4 DEF QuiesceInv

\* The mutex is given back with quiesce already cleared.
LEMMA UnlockStep ==
    ASSUME QuiesceInv, NEW t \in Tx, Unlock(t)
    PROVE  QuiesceInv'
<1>1. Shape'
  BY DEF QuiesceInv, Shape, Unlock, Goto, NotAsked, Label, Mode
<1>2. Stages'
  BY DEF QuiesceInv, Shape, Stages, StageAt, Serial, Unlock, Goto, NotAsked
<1>3. Holder'
  BY QuiesceAssumption
     DEF QuiesceInv, Shape, Stages, StageAt, Holder, Holds, Serial, Unlock, Goto,
         NotAsked, QuiesceAssumption
<1>4. HolderBlocks'
  BY QuiesceAssumption
     DEF QuiesceInv, Shape, Stages, StageAt, Holder, Holds, Serial, HolderBlocks,
         Unlock, Goto, NotAsked, QuiesceAssumption
<1>5. QED
  BY <1>1, <1>2, <1>3, <1>4 DEF QuiesceInv

\* The commit ends at stage 0.
LEMMA FinishStep ==
    ASSUME QuiesceInv, NEW t \in Tx, Finish(t)
    PROVE  QuiesceInv'
<1>1. Shape'
  BY DEF QuiesceInv, Shape, Finish, Goto, Label, shared
<1>2. Stages'
  BY DEF QuiesceInv, Shape, Stages, StageAt, Serial, Finish, Goto, shared
<1>3. Holder'
  BY DEF QuiesceInv, Shape, Stages, StageAt, Holder, Holds, Serial, Finish, Goto,
         shared
<1>4. HolderBlocks'
  BY DEF QuiesceInv, Shape, Stages, StageAt, Holder, Holds, Serial, HolderBlocks,
         Finish, Goto, shared
<1>5. QED
  BY <1>1, <1>2, <1>3, <1>4 DEF QuiesceInv

\* A request between transactions sets stage 1.
LEMMA RequestIrrevocableStep ==
    ASSUME QuiesceInv, NEW t \in Tx, RequestIrrevocable(t)
    PROVE  QuiesceInv'
<1>1. PICK m \in Mode : irr' = [irr EXCEPT ![t] = [stage |-> 1, mode |-> m]]
  BY QuiesceAssumption DEF RequestIrrevocable, QuiesceAssumption
<1>2. /\ pc[t] = "idle" /\ pc' = pc
      /\ mutex' = mutex /\ quiesce' = quiesce /\ clock' = clock
  BY DEF RequestIrrevocable, shared
<1>3. /\ irr'[t].stage = 1
      /\ \A u \in Tx \ {t} : irr'[u] = irr[u]
  BY <1>1 DEF QuiesceInv, Shape
<1>4. Shape'
  BY <1>1, <1>2, NewStage DEF QuiesceInv, Shape
<1>5. Stages'
  BY <1>2, <1>3 DEF QuiesceInv, Stages, StageAt, Serial
<1>6. Holder'
  BY <1>2, <1>3 DEF QuiesceInv, Stages, StageAt, Holder, Holds, Serial
<1>7. HolderBlocks'
  BY <1>2 DEF QuiesceInv, HolderBlocks
<1>8. QED
  BY <1>4, <1>5, <1>6, <1>7 DEF QuiesceInv

\* A first call inside of a transaction sets stage 1, 2 or 3, without the mutex.
LEMMA SetIrrevocableStep ==
    ASSUME QuiesceInv, NEW t \in Tx, SetIrrevocable(t)
    PROVE  QuiesceInv'
<1>1. PICK m \in Mode, n \in 1 .. 3, l \in {"prepare", "try_quiesce", "run"} :
        /\ irr' = [irr EXCEPT ![t] = [stage |-> n, mode |-> m]]
        /\ pc' = [pc EXCEPT ![t] = l]
        /\ l = "try_quiesce" => n = 2 /\ m = "serial"
        /\ l = "prepare" => n # 3
        /\ l = "run" => n = 3 /\ m # "serial"
  <2>1. pc = [pc EXCEPT ![t] = "run"]
    BY DEF SetIrrevocable, QuiesceInv, Shape
  <2>2. PICK m \in Mode :
          \/ /\ irr' = [irr EXCEPT ![t] = [stage |-> 1, mode |-> m]]
             /\ pc' = [pc EXCEPT ![t] = "prepare"]
          \/ /\ irr' = [irr EXCEPT ![t] = [stage |-> 2, mode |-> m]]
             /\ pc' = [pc EXCEPT ![t] = "prepare"]
          \/ /\ m = "serial"
             /\ irr' = [irr EXCEPT ![t] = [stage |-> 2, mode |-> m]]
             /\ pc' = [pc EXCEPT ![t] = "try_quiesce"]
          \/ /\ m # "serial"
             /\ irr' = [irr EXCEPT ![t] = [stage |-> 3, mode |-> m]]
             /\ pc' = pc
    <3>1. PICK m \in Modes[t] :
            \/ Rollback(t, [stage |-> 1, mode |-> m])
            \/ Rollback(t, [stage |-> 2, mode |-> m])
            \/ IF m = "serial"
               THEN /\ irr' = [irr EXCEPT ![t] = [stage |-> 2, mode |-> m]]
                    /\ Goto(t, "try_quiesce")
               ELSE /\ irr' = [irr EXCEPT ![t] = [stage |-> 3, mode |-> m]]
                    /\ UNCHANGED pc
      BY DEF SetIrrevocable
    <3>2. m \in Mode
      BY QuiesceAssumption DEF QuiesceAssumption
    <3>3. CASE Rollback(t, [stage |-> 1, mode |-> m])
      BY <3>2, <3>3 DEF Rollback, Goto
    <3>4. CASE Rollback(t, [stage |-> 2, mode |-> m])
      BY <3>2, <3>4 DEF Rollback, Goto
    <3>5. CASE IF m = "serial"
               THEN /\ irr' = [irr EXCEPT ![t] = [stage |-> 2, mode |-> m]]
                    /\ Goto(t, "try_quiesce")
               ELSE /\ irr' = [irr EXCEPT ![t] = [stage |-> 3, mode |-> m]]
                    /\ UNCHANGED pc
      BY <3>2, <3>5 DEF Goto
    <3>6. QED
      BY <3>1, <3>3, <3>4, <3>5
  <2>3. QED
    BY <2>1, <2>2
<1>2. /\ pc[t] = "run" /\ irr[t].stage = 0
      /\ mutex' = mutex /\ quiesce' = quiesce /\ clock' = clock
  BY DEF SetIrrevocable, Rollback
<1>3. /\ pc'[t] = l /\ irr'[t].stage = n /\ irr'[t].mode = m
      /\ \A u \in Tx \ {t} : pc'[u] = pc[u] /\ irr'[u] = irr[u]
  BY <1>1 DEF QuiesceInv, Shape
<1>4. Shape'
  BY <1>1, <1>2, NewStage DEF QuiesceInv, Shape, Label
<1>5. Stages'
  BY <1>1, <1>3 DEF QuiesceInv, Stages, StageAt, Serial
<1>6. Holder'
  BY <1>1, <1>2, <1>3 DEF QuiesceInv, Holder, Holds, Serial
<1>7. HolderBlocks'
  <2>1. pc'[t] # "unlock" /\ pc[t] # "unlock"
    BY <1>1, <1>2, <1>3
  <2>2. QED
    BY <1>2, <1>3, <2>1 DEF QuiesceInv, Shape, HolderBlocks
<1>8. QED
  BY <1>4, <1>5, <1>6, <1>7 DEF QuiesceInv

\* The flag is taken: stage 2 before the quiescence, stage 3 if it is not serial.
LEMMA TakeFlagStep ==
    ASSUME QuiesceInv, NEW t \in Tx, TakeFlag(t)
    PROVE  QuiesceInv'
<1>1. Shape'
  <2>1. /\ irr[t].mode \in Mode
        /\ \E n \in {2, 3} : irr' = [irr EXCEPT ![t].stage = n]
    BY DEF QuiesceInv, Shape, TakeFlag, Stage
  <2>2. irr' \in [Tx -> [stage : 0 .. 3, mode : Mode]]
    BY <2>1 DEF QuiesceInv, Shape
  <2>3. pc' \in [Tx -> Label]
    BY DEF QuiesceInv, Shape, TakeFlag, Goto, Label
  <2>4. QED
    BY <2>2, <2>3 DEF QuiesceInv, Shape, TakeFlag
<1>2. Stages'
  BY DEF QuiesceInv, Shape, Stages, StageAt, Serial, TakeFlag, Goto, Stage
<1>3. Holder'
  BY DEF QuiesceInv, Shape, Stages, StageAt, Holder, Holds, Serial, TakeFlag,
         Goto, Stage
<1>4. HolderBlocks'
  BY DEF QuiesceInv, Shape, Stages, StageAt, Holder, Holds, Serial, HolderBlocks,
         TakeFlag, Goto, Stage
<1>5. QED
  BY <1>1, <1>2, <1>3, <1>4 DEF QuiesceInv

\* The free mutex is taken and quiesce set to 2 in one critical section.
LEMMA LockQuiesceStep ==
    ASSUME QuiesceInv, NEW t \in Tx, LockQuiesce(t)
    PROVE  QuiesceInv'
<1>1. Shape'
  BY DEF QuiesceInv, Shape, LockQuiesce, Goto, Label
<1>2. Stages'
  BY DEF QuiesceInv, Shape, Stages, StageAt, Serial, LockQuiesce, Goto
<1>3. Holder'
  <2>1. /\ mutex = NoTx /\ mutex' = t
        /\ pc'[t] = "scan" /\ irr' = irr
        /\ \A u \in Tx \ {t} : pc'[u] = pc[u]
    BY DEF QuiesceInv, Shape, LockQuiesce, CanLock, Goto
  <2>2. \A u \in Tx : ~Holds(u)
    BY <2>1, QuiesceAssumption DEF QuiesceInv, Holder, QuiesceAssumption
  <2>3. QED
    BY <2>1, <2>2 DEF Holder, Holds, Serial
<1>4. HolderBlocks'
  BY QuiesceAssumption
     DEF QuiesceInv, Shape, Stages, StageAt, Holder, Holds, Serial, HolderBlocks,
         LockQuiesce, Goto, CanLock, QuiesceAssumption
<1>5. QED
  BY <1>1, <1>2, <1>3, <1>4 DEF QuiesceInv

\* A failed trylock rolls back at stage 2, without the mutex.
LEMMA TryQuiesceFailsStep ==
    ASSUME QuiesceInv, NEW t \in Tx, TryQuiesceFails(t)
    PROVE  QuiesceInv'
<1>1. Shape'
  BY DEF QuiesceInv, Shape, TryQuiesceFails, Rollback, Goto, Label
<1>2. Stages'
  BY DEF QuiesceInv, Shape, Stages, StageAt, Serial, TryQuiesceFails, Rollback,
         Goto
<1>3. Holder'
  BY DEF QuiesceInv, Shape, Stages, StageAt, Holder, Holds, Serial,
         TryQuiesceFails, Rollback, Goto
<1>4. HolderBlocks'
  BY DEF QuiesceInv, Shape, Stages, StageAt, Holder, Holds, Serial, HolderBlocks,
         TryQuiesceFails, Rollback, Goto
<1>5. QED
  BY <1>1, <1>2, <1>3, <1>4 DEF QuiesceInv

\* The owner of the mutex looks at the next thread.
LEMMA ScanStep ==
    ASSUME QuiesceInv, NEW t \in Tx, Scan(t)
    PROVE  QuiesceInv'
<1>1. Shape'
  BY DEF QuiesceInv, Shape, Scan, shared
<1>2. Stages'
  BY DEF QuiesceInv, Shape, Stages, StageAt, Serial, Scan, shared
<1>3. Holder'
  BY DEF QuiesceInv, Shape, Stages, StageAt, Holder, Holds, Serial, Scan, shared
<1>4. HolderBlocks'
  BY DEF QuiesceInv, Shape, Stages, StageAt, Holder, Holds, Serial, HolderBlocks,
         Scan, shared
<1>5. QED
  BY <1>1, <1>2, <1>3, <1>4 DEF QuiesceInv

\* The owner of the mutex reaches stage 3 and keeps it.
LEMMA ScanEndsStep ==
    ASSUME QuiesceInv, NEW t \in Tx, ScanEnds(t)
    PROVE  QuiesceInv'
<1>1. Shape'
  BY DEF QuiesceInv, Shape, ScanEnds, Goto, Stage, Label, shared
<1>2. Stages'
  BY DEF QuiesceInv, Shape, Stages, StageAt, Serial, ScanEnds, Goto, Stage,
         shared
<1>3. Holder'
  <2>1. /\ pc[t] = "scan" /\ pc'[t] \in {"run", "start"}
        /\ irr'[t].stage = 3 /\ irr'[t].mode = irr[t].mode
        /\ mutex' = mutex
    BY DEF QuiesceInv, Shape, ScanEnds, Goto, Stage, shared
  <2>2. \A u \in Tx \ {t} : pc'[u] = pc[u] /\ irr'[u] = irr[u]
    BY DEF QuiesceInv, Shape, ScanEnds, Goto, Stage
  <2>3. Holds(t) /\ Holds(t)'
    BY <2>1 DEF QuiesceInv, Stages, StageAt, Holds, Serial
  <2>4. \A u \in Tx \ {t} : Holds(u)' <=> Holds(u)
    BY <2>2 DEF Holds, Serial
  <2>5. QED
    BY <2>1, <2>3, <2>4 DEF QuiesceInv, Holder
<1>4. HolderBlocks'
  BY DEF QuiesceInv, Shape, Stages, StageAt, Holder, Holds, Serial, HolderBlocks,
         ScanEnds, Goto, Stage, shared
<1>5. QED
  BY <1>1, <1>2, <1>3, <1>4 DEF QuiesceInv

\* One lemma per action.
LEMMA QuiesceStep ==
    ASSUME QuiesceInv, [Next]_vars
    PROVE  QuiesceInv'
<1>1. CASE UNCHANGED vars
  BY <1>1 DEF QuiesceInv, Shape, Stages, StageAt, Holder, Holds, Serial, HolderBlocks, vars
<1>2. CASE Next
  <2>. PICK t \in Tx : \/ Running(t) \/ Ends(t)
                       \/ Enter(t) \/ Exit(t) \/ Start(t)
                       \/ RequestIrrevocable(t) \/ SetIrrevocable(t)
                       \/ SpuriousWakeup(t)
    BY <1>2 DEF Next
  <2>1. CASE Drain(t)
    BY <2>1, DrainStep
  <2>2. CASE Enter(t)
    BY <2>2, EnterStep
  <2>3. CASE Exit(t)
    BY <2>3, ExitStep
  <2>4. CASE Start(t)
    BY <2>4, StartStep
  <2>5. CASE Prepare(t)
    BY <2>5, PrepareStep
  <2>6. CASE Barrier(t)
    BY <2>6, BarrierStep
  <2>7. CASE BarrierAwake(t)
    BY <2>7, BarrierAwakeStep
  <2>8. CASE SpuriousWakeup(t)
    BY <2>8, SpuriousWakeupStep
  <2>9. CASE Activate(t)
    BY <2>9, ActivateStep
  <2>10. CASE CheckPasses(t)
    BY <2>10, CheckPassesStep
  <2>11. CASE CheckBlocks(t)
    BY <2>11, CheckBlocksStep
  <2>12. CASE SpinEnds(t)
    BY <2>12, SpinEndsStep
  <2>13. CASE Resume(t)
    BY <2>13, ResumeStep
  <2>14. CASE Abort(t)
    BY <2>14, AbortStep
  <2>15. CASE Commit(t)
    BY <2>15, CommitStep
  <2>16. CASE CommitReadOnly(t)
    BY <2>16, CommitReadOnlyStep
  <2>17. CASE ReleaseFlag(t)
    BY <2>17, ReleaseFlagStep
  <2>18. CASE ReleaseQuiesce(t)
    BY <2>18, ReleaseQuiesceStep
  <2>19. CASE Unlock(t)
    BY <2>19, UnlockStep
  <2>20. CASE Finish(t)
    BY <2>20, FinishStep
  <2>21. CASE RequestIrrevocable(t)
    BY <2>21, RequestIrrevocableStep
  <2>22. CASE SetIrrevocable(t)
    BY <2>22, SetIrrevocableStep
  <2>23. CASE TakeFlag(t)
    BY <2>23, TakeFlagStep
  <2>24. CASE LockQuiesce(t)
    BY <2>24, LockQuiesceStep
  <2>25. CASE TryQuiesceFails(t)
    BY <2>25, TryQuiesceFailsStep
  <2>26. CASE Scan(t)
    BY <2>26, ScanStep
  <2>27. CASE ScanEnds(t)
    BY <2>27, ScanEndsStep
  <2>28. QED
    BY <2>1, <2>2, <2>3, <2>4, <2>5, <2>6, <2>7, <2>8, <2>9, <2>10, <2>11,
       <2>12, <2>13, <2>14, <2>15, <2>16, <2>17, <2>18, <2>19, <2>20, <2>21,
       <2>22, <2>23, <2>24, <2>25, <2>26, <2>27
       DEF Running, Ends
<1>3. QED
  BY <1>1, <1>2

\* Nobody holds anything at the start.
LEMMA QuiesceInit ==
    ASSUME Init
    PROVE  QuiesceInv
<1>1. Shape
  BY DEF Init, Shape, NotAsked, Mode, Label
<1>2. Stages
  BY DEF Init, Stages, StageAt, NotAsked
<1>3. Holder
  BY QuiesceAssumption DEF Init, Holder, Holds, NotAsked, Serial, QuiesceAssumption
<1>4. HolderBlocks
  BY DEF Init, HolderBlocks
<1>5. QED
  BY <1>1, <1>2, <1>3, <1>4 DEF QuiesceInv

\* The inductive invariant holds in every reachable state.
LEMMA QuiesceInvariant == Spec => []QuiesceInv
<1>1. Init => QuiesceInv
  BY QuiesceInit
<1>2. QuiesceInv /\ [Next]_vars => QuiesceInv'
  BY QuiesceStep
<1>3. QED
  BY <1>1, <1>2, PTL DEF Spec

\* Transactions are told to block exactly while a thread holds the mutex in order to run
\* serially, however many threads ask for it (stm_quiesce, stm_quiesce_release).
THEOREM SerialBlocks == Spec => []HolderBlocks
<1>1. QuiesceInv => HolderBlocks
  BY DEF QuiesceInv
<1>2. QED
  BY <1>1, QuiesceInvariant, PTL

-----------------------------------------------------------------------------
(* The count of the barrier *)

\* The threads that threads_nb stands for.
Counted == Registered \ Asleep

CountInv == /\ pc \in [Tx -> Label]
            /\ clock \in Nat
            /\ threads_nb \in Nat
            /\ ThreadsCount

\* Counted, by the labels of the threads.
LEMMA CountedMembers ==
    Counted = {t \in Tx : pc[t] \notin {"out", "asleep"}}
BY DEF Counted, Registered, Asleep

\* The threads counted can be counted: Tx is finite.
LEMMA CountedFinite == IsFiniteSet(Counted) /\ Cardinality(Counted) \in Nat
<1>1. Counted \subseteq Tx
  BY CountedMembers
<1>2. QED
  BY <1>1, QuiesceAssumption, FS_Subset, FS_CardinalityType DEF QuiesceAssumption

\* A thread that joins the others is one more, a thread that blocks or leaves one less.
LEMMA CountedJoins ==
    ASSUME CountInv, NEW t \in Tx, pc[t] \in {"out", "asleep"},
           NEW l \in Label \ {"out", "asleep"}, pc' = [pc EXCEPT ![t] = l]
    PROVE  Cardinality(Counted') = Cardinality(Counted) + 1
<1>1. Counted' = Counted \cup {t} /\ t \notin Counted
  BY DEF CountInv, Counted, Registered, Asleep
<1>2. QED
  BY <1>1, CountedFinite, FS_AddElement

\* A thread that blocks or leaves is one less.
LEMMA CountedLeaves ==
    ASSUME CountInv, NEW t \in Tx, pc[t] \notin {"out", "asleep"},
           NEW l \in {"out", "asleep"}, pc' = [pc EXCEPT ![t] = l]
    PROVE  /\ Cardinality(Counted') = Cardinality(Counted) - 1
           /\ Cardinality(Counted) \in Nat \ {0}
<1>1. Counted' = Counted \ {t} /\ t \in Counted
  BY DEF CountInv, Counted, Registered, Asleep
<1>2. Cardinality(Counted') = Cardinality(Counted) - 1
  BY <1>1, CountedFinite, FS_RemoveElement
<1>3. Cardinality(Counted) # 0
  BY <1>1, CountedFinite, FS_EmptySet
<1>4. QED
  BY <1>2, <1>3, CountedFinite

\* A step within the library changes nothing in the count.
LEMMA CountedStays ==
    ASSUME CountInv, NEW t \in Tx, NEW l \in Label,
           pc[t] \in {"out", "asleep"} <=> l \in {"out", "asleep"},
           pc' = [pc EXCEPT ![t] = l]
    PROVE  Counted' = Counted
BY DEF CountInv, Counted, Registered, Asleep

\* What the loop of the barrier does with n threads counted: the thread is counted again
\* or it is asleep; the clock is reset only if n is 0.
LEMMA BarrierLoopCounts ==
    ASSUME CountInv, NEW t \in Tx, NEW n \in Nat, NEW q, BarrierLoop(t, n, q)
    PROVE  /\ \/ pc' = [pc EXCEPT ![t] = "prepare"] /\ threads_nb' = n + 1
              \/ pc' = [pc EXCEPT ![t] = "asleep"] /\ threads_nb' = n
           /\ \/ clock' = clock
              \/ clock' = 0 /\ n = 0
BY DEF BarrierLoop, Goto

\* The barrier moves only its caller.
LEMMA BarrierMoves ==
    ASSUME pc \in [Tx -> Label], NEW t \in Tx, Barrier(t)
    PROVE  \A u \in Tx \ {t} : pc'[u] = pc[u]
BY DEF Barrier, BarrierLoop, Goto

\* The caller of the barrier is taken off the count, and back when it leaves.
LEMMA BarrierCounts ==
    ASSUME CountInv, NEW t \in Tx, Barrier(t)
    PROVE  /\ CountInv'
           /\ clock' = clock \/ (clock' = 0 /\ Cardinality(Counted) = 1)
<1>1. pc[t] = "barrier" /\ t \in Counted
  BY DEF Barrier, Counted, Registered, Asleep
<1>2. threads_nb = Cardinality(Counted) /\ threads_nb - 1 \in Nat
  <2>1. Cardinality(Counted) # 0
    BY <1>1, CountedFinite, FS_EmptySet
  <2>2. QED
    BY <2>1 DEF CountInv, ThreadsCount, Counted
<1>3. /\ \/ pc' = [pc EXCEPT ![t] = "prepare"] /\ threads_nb' = (threads_nb - 1) + 1
         \/ pc' = [pc EXCEPT ![t] = "asleep"] /\ threads_nb' = threads_nb - 1
      /\ \/ clock' = clock
         \/ clock' = 0 /\ threads_nb - 1 = 0
  BY <1>2, BarrierLoopCounts DEF Barrier
<1>4. clock' = clock \/ (clock' = 0 /\ Cardinality(Counted) = 1)
  BY <1>2, <1>3
<1>5. pc' \in [Tx -> Label] /\ clock' \in Nat /\ threads_nb' \in Nat
  BY <1>2, <1>3 DEF CountInv, Label
<1>6. CASE pc' = [pc EXCEPT ![t] = "prepare"] /\ threads_nb' = (threads_nb - 1) + 1
  <2>1. Counted' = Counted
    BY <1>1, <1>6, CountedStays DEF Label
  <2>2. threads_nb' = threads_nb
    BY <1>6 DEF CountInv
  <2>3. QED
    BY <1>2, <1>4, <1>5, <2>1, <2>2 DEF CountInv, ThreadsCount, Counted
<1>7. CASE pc' = [pc EXCEPT ![t] = "asleep"] /\ threads_nb' = threads_nb - 1
  <2>1. Cardinality(Counted') = Cardinality(Counted) - 1
    BY <1>1, <1>7, CountedLeaves
  <2>2. QED
    BY <1>2, <1>4, <1>5, <1>7, <2>1 DEF CountInv, ThreadsCount, Counted
<1>8. QED
  BY <1>3, <1>6, <1>7

\* As BarrierCounts, for a thread that was asleep.
LEMMA BarrierAwakeCounts ==
    ASSUME CountInv, NEW t \in Tx, BarrierAwake(t)
    PROVE  /\ CountInv'
           /\ clock' = clock \/ (clock' = 0 /\ Cardinality(Counted) = 0)
<1>1. pc[t] = "asleep"
  BY DEF BarrierAwake
<1>2. threads_nb = Cardinality(Counted) /\ threads_nb \in Nat
  BY DEF CountInv, ThreadsCount, Counted
<1>3. /\ \/ pc' = [pc EXCEPT ![t] = "prepare"] /\ threads_nb' = threads_nb + 1
         \/ pc' = [pc EXCEPT ![t] = "asleep"] /\ threads_nb' = threads_nb
      /\ \/ clock' = clock
         \/ clock' = 0 /\ threads_nb = 0
  BY <1>2, BarrierLoopCounts DEF BarrierAwake
<1>4. clock' = clock \/ (clock' = 0 /\ Cardinality(Counted) = 0)
  BY <1>2, <1>3
<1>5. pc' \in [Tx -> Label] /\ clock' \in Nat /\ threads_nb' \in Nat
  BY <1>2, <1>3 DEF CountInv, Label
<1>6. CASE pc' = [pc EXCEPT ![t] = "prepare"] /\ threads_nb' = threads_nb + 1
  <2>1. Cardinality(Counted') = Cardinality(Counted) + 1
    BY <1>1, <1>6, CountedJoins DEF Label
  <2>2. QED
    BY <1>2, <1>4, <1>5, <1>6, <2>1 DEF CountInv, ThreadsCount, Counted
<1>7. CASE pc' = [pc EXCEPT ![t] = "asleep"] /\ threads_nb' = threads_nb
  <2>1. Counted' = Counted
    BY <1>1, <1>7, CountedStays DEF Label
  <2>2. QED
    BY <1>2, <1>4, <1>5, <1>7, <2>1 DEF CountInv, ThreadsCount, Counted
<1>8. QED
  BY <1>3, <1>6, <1>7

\* A new thread is counted.
LEMMA EnterCounts ==
    ASSUME CountInv, NEW t \in Tx, Enter(t)
    PROVE  CountInv' /\ clock' = clock
<1>1. /\ pc[t] = "out" /\ pc' = [pc EXCEPT ![t] = "idle"]
      /\ threads_nb' = threads_nb + 1 /\ clock' = clock
  BY DEF Enter, Goto
<1>2. Cardinality(Counted') = Cardinality(Counted) + 1
  BY <1>1, CountedJoins DEF Label
<1>3. QED
  BY <1>1, <1>2 DEF CountInv, ThreadsCount, Counted, Label

\* A thread that leaves is not counted any more.
LEMMA ExitCounts ==
    ASSUME CountInv, NEW t \in Tx, Exit(t)
    PROVE  CountInv' /\ clock' = clock
<1>1. /\ pc[t] = "idle" /\ pc' = [pc EXCEPT ![t] = "out"]
      /\ threads_nb' = threads_nb - 1 /\ clock' = clock
  BY DEF Exit, Goto
<1>2. /\ Cardinality(Counted') = Cardinality(Counted) - 1
      /\ Cardinality(Counted) \in Nat \ {0}
  BY <1>1, CountedLeaves
<1>3. QED
  BY <1>1, <1>2 DEF CountInv, ThreadsCount, Counted, Label

\* All other actions move a thread between places where it is counted, or not at all,
\* and the clock only forward.
LEMMA OthersCount ==
    ASSUME CountInv, NEW t \in Tx,
           \/ SpuriousWakeup(t) \/ Drain(t) \/ RequestIrrevocable(t) \/ Scan(t)
           \/ Start(t) \/ Prepare(t) \/ Activate(t) \/ CheckPasses(t)
           \/ CheckBlocks(t) \/ SpinEnds(t) \/ Resume(t)
           \/ Abort(t) \/ Commit(t) \/ CommitReadOnly(t)
           \/ ReleaseFlag(t) \/ ReleaseQuiesce(t) \/ Unlock(t) \/ Finish(t)
           \/ SetIrrevocable(t) \/ TakeFlag(t) \/ LockQuiesce(t)
           \/ TryQuiesceFails(t) \/ ScanEnds(t)
    PROVE  CountInv' /\ clock' >= clock
<1>1. clock' = clock \/ clock' = clock + 1
  BY DEF SpuriousWakeup, Drain, RequestIrrevocable, Scan, Start, Prepare, Activate,
         CheckPasses, CheckBlocks, SpinEnds, Resume, Abort, Commit, CommitReadOnly,
         ReleaseFlag, ReleaseQuiesce, Unlock, Finish, SetIrrevocable, TakeFlag,
         LockQuiesce, TryQuiesceFails, ScanEnds, Rollback, shared
<1>2. threads_nb' = threads_nb
  BY DEF SpuriousWakeup, Drain, RequestIrrevocable, Scan, Start, Prepare, Activate,
         CheckPasses, CheckBlocks, SpinEnds, Resume, Abort, Commit, CommitReadOnly,
         ReleaseFlag, ReleaseQuiesce, Unlock, Finish, SetIrrevocable, TakeFlag,
         LockQuiesce, TryQuiesceFails, ScanEnds, Rollback, shared
<1>3. \/ pc' = pc
      \/ /\ pc[t] \notin {"out", "asleep"}
         /\ \E l \in Label \ {"out", "asleep"} : pc' = [pc EXCEPT ![t] = l]
  <2>1. CASE SpuriousWakeup(t) \/ Drain(t) \/ RequestIrrevocable(t) \/ Scan(t)
    BY <2>1 DEF SpuriousWakeup, Drain, RequestIrrevocable, Scan
  <2>2. CASE Start(t) \/ Prepare(t) \/ Activate(t) \/ CheckPasses(t)
    BY <2>2 DEF Start, Prepare, Activate, CheckPasses, Goto, Label
  <2>3. CASE CheckBlocks(t) \/ SpinEnds(t) \/ Resume(t)
    BY <2>3 DEF CheckBlocks, SpinEnds, Resume, Goto, Label
  <2>4. CASE Abort(t) \/ Commit(t) \/ CommitReadOnly(t)
    BY <2>4 DEF Abort, Commit, CommitReadOnly, Rollback, Goto, Label
  <2>5. CASE ReleaseFlag(t) \/ ReleaseQuiesce(t) \/ Unlock(t) \/ Finish(t)
    BY <2>5 DEF ReleaseFlag, ReleaseQuiesce, Unlock, Finish, Goto, Label
  <2>6. CASE SetIrrevocable(t)
    BY <2>6 DEF SetIrrevocable, Rollback, Goto, Label
  <2>7. CASE TakeFlag(t) \/ LockQuiesce(t) \/ TryQuiesceFails(t) \/ ScanEnds(t)
    BY <2>7 DEF TakeFlag, LockQuiesce, TryQuiesceFails, ScanEnds, Rollback, Goto, Label
  <2>8. QED
    BY <2>1, <2>2, <2>3, <2>4, <2>5, <2>6, <2>7
<1>4. pc' \in [Tx -> Label] /\ Counted' = Counted
  <2>1. CASE pc' = pc
    BY <2>1 DEF CountInv, Counted, Registered, Asleep
  <2>2. CASE /\ pc[t] \notin {"out", "asleep"}
             /\ \E l \in Label \ {"out", "asleep"} : pc' = [pc EXCEPT ![t] = l]
    BY <2>2, CountedStays DEF CountInv
  <2>3. QED
    BY <1>3, <2>1, <2>2
<1>5. QED
  BY <1>1, <1>2, <1>4 DEF CountInv, ThreadsCount, Counted

\* A step of any thread keeps the count; if the clock goes back, it is a thread at the
\* barrier and it is the only one counted, or it was asleep and nobody is.
LEMMA CountStep ==
    ASSUME CountInv, Next
    PROVE  /\ CountInv'
           /\ \/ clock' >= clock
              \/ Cardinality(Counted) = 0
              \/ /\ Cardinality(Counted) = 1
                 /\ \E t \in Tx : t \in Counted /\ Barrier(t)
<1>. PICK t \in Tx : \/ Running(t) \/ Ends(t)
                     \/ Enter(t) \/ Exit(t) \/ Start(t)
                     \/ RequestIrrevocable(t) \/ SetIrrevocable(t)
                     \/ SpuriousWakeup(t)
  BY DEF Next
<1>1. CASE Barrier(t)
  <2>1. t \in Counted
    BY <1>1 DEF Barrier, Counted, Registered, Asleep
  <2>2. QED
    BY <1>1, <2>1, BarrierCounts DEF CountInv
<1>2. CASE BarrierAwake(t)
  BY <1>2, BarrierAwakeCounts DEF CountInv
<1>3. CASE Enter(t) \/ Exit(t)
  BY <1>3, EnterCounts, ExitCounts DEF CountInv
<1>4. CASE \/ SpuriousWakeup(t) \/ Drain(t) \/ RequestIrrevocable(t) \/ Scan(t)
           \/ Start(t) \/ Prepare(t) \/ Activate(t) \/ CheckPasses(t)
           \/ CheckBlocks(t) \/ SpinEnds(t) \/ Resume(t)
           \/ Abort(t) \/ Commit(t) \/ CommitReadOnly(t)
           \/ ReleaseFlag(t) \/ ReleaseQuiesce(t) \/ Unlock(t) \/ Finish(t)
           \/ SetIrrevocable(t) \/ TakeFlag(t) \/ LockQuiesce(t)
           \/ TryQuiesceFails(t) \/ ScanEnds(t)
  BY <1>4, OthersCount
<1>5. QED
  BY <1>1, <1>2, <1>3, <1>4 DEF Running, Ends

\* No thread is registered at the start.
LEMMA CountInit ==
    ASSUME Init
    PROVE  CountInv
<1>1. pc \in [Tx -> Label] /\ clock = 0 /\ threads_nb = 0
  BY DEF Init, Label
<1>2. Registered \ Asleep = {}
  BY DEF Init, Registered
<1>3. QED
  BY <1>1, <1>2, FS_EmptySet DEF CountInv, ThreadsCount

\* A stuttering step keeps the count.
LEMMA CountStutters ==
    ASSUME CountInv, UNCHANGED vars
    PROVE  CountInv'
BY DEF CountInv, ThreadsCount, Registered, Asleep, vars

\* The count holds in every reachable state.
LEMMA CountInvariant == Spec => []CountInv
<1>1. Init => CountInv
  BY CountInit
<1>2. CountInv /\ [Next]_vars => CountInv'
  BY CountStep, CountStutters
<1>3. QED
  BY <1>1, <1>2, PTL DEF Spec

\* threads_nb is the number of registered threads that are not blocked on the barrier,
\* for any number of threads that come, leave, block and are woken.
THEOREM BlockedCount == Spec => []ThreadsCount
<1>1. CountInv => ThreadsCount
  BY DEF CountInv
<1>2. QED
  BY <1>1, CountInvariant, PTL

\* rollover_clock runs only when every other registered thread is blocked on the barrier.
THEOREM ResetAlone == Spec => RolloverAlone
<1> DEFINE Alone == \A t \in Tx : clock' < clock /\ pc'[t] # pc[t]
                        => \A u \in Registered \ {t} : pc[u] = "asleep"
<1>1. CountInv /\ [Next]_vars => [Alone]_vars
  <2> SUFFICES ASSUME CountInv, Next, clock' < clock,
                      NEW t \in Tx, pc'[t] # pc[t],
                      NEW u \in Registered \ {t}
               PROVE  pc[u] = "asleep"
    OBVIOUS
  <2>1. clock \in Nat /\ clock' \in Nat /\ ~(clock' >= clock)
    BY CountStep DEF CountInv
  <2>2. CASE Cardinality(Counted) = 0
    <3>1. Counted = {}
      BY <2>2, CountedFinite, FS_EmptySet
    <3>2. QED
      BY <3>1 DEF Counted, Registered, Asleep
  <2>3. CASE /\ Cardinality(Counted) = 1
             /\ \E v \in Tx : v \in Counted /\ Barrier(v)
    <3>1. PICK v \in Tx : v \in Counted /\ Barrier(v)
      BY <2>3
    <3>2. Counted = {v}
      BY <2>3, <3>1, CountedFinite, FS_Singleton
    <3>3. \A w \in Tx \ {v} : pc'[w] = pc[w]
      BY <3>1, BarrierMoves DEF CountInv
    <3>4. t = v
      BY <3>3
    <3>5. QED
      BY <3>2, <3>4 DEF Counted, Registered, Asleep
  <2>4. QED
    BY <2>1, <2>2, <2>3, CountStep
<1>2. QED
  BY <1>1, CountInvariant, PTL DEF Spec, RolloverAlone

-----------------------------------------------------------------------------
(* Serial irrevocability, when status stores are visible at once *)

\* The list has every registered thread, so that the scan looks at it.
Listed == \A u \in Tx : pc[u] # "out" => \E k \in DOMAIN threads : threads[k] = u

\* Transactions that are past their start, but not withdrawn, are seen active.
SeenActive == \A u \in Tx : pc[u] \in {"check", "run"} => active[u]

\* The mode is only serial while irrevocability is asked for.
Asked == \A u \in Tx : Serial(u) => irr[u].stage # 0

\* The scan of t has passed the place of u, or has ended.
ScanPassed(t, u) == pc[t] = "scan" => \E k \in DOMAIN threads : k < scan[t] /\ threads[k] = u
Excluded == \A t, u \in Tx :
    Holds(t) /\ pc[t] # "unlock" /\ u # t /\ pc[u] = "run" /\ ScanPassed(t, u) => spun[u]

\* The steps of a thread.
Moves(t) ==
    \/ Running(t) \/ Ends(t) \/ Start(t) \/ RequestIrrevocable(t) \/ SetIrrevocable(t)
    \/ SpuriousWakeup(t) \/ Enter(t) \/ Exit(t)

\* The types, and that no status store is in flight.
Arrays ==
    /\ threads \in Seq(Tx) /\ scan \in [Tx -> Nat \ {0}]
    /\ active \in [Tx -> BOOLEAN] /\ spun \in [Tx -> BOOLEAN]
    /\ buffer = [t \in Tx |-> <<>>]

ExcludeInv == QuiesceInv /\ Arrays /\ Listed /\ SeenActive /\ Asked /\ Excluded

\* The list without a thread that leaves has all the others.
LEMMA ListWithout ==
    ASSUME NEW s \in Seq(Tx), NEW i \in DOMAIN s, NEW k \in DOMAIN s, s[k] # s[i]
    PROVE  /\ RemoveAt(s, i) \in Seq(Tx)
           /\ \E j \in DOMAIN RemoveAt(s, i) : RemoveAt(s, i)[j] = s[k]
<1> DEFINE lo == SubSeq(s, 1, i - 1)  hi == SubSeq(s, i + 1, Len(s))  r == lo \o hi
<1>1. RemoveAt(s, i) = r
  BY DEF RemoveAt
<1>2. lo \in Seq(Tx) /\ Len(lo) = i - 1 /\ hi \in Seq(Tx) /\ Len(hi) = Len(s) - i
  OBVIOUS
<1>3. k # i /\ k \in 1 .. Len(s) /\ i \in 1 .. Len(s) /\ Len(s) \in Nat
  OBVIOUS
<1>4. k < i => lo[k] = s[k]
  BY <1>3
<1>5. k > i => k - i \in 1 .. Len(hi) /\ hi[k - i] = s[k]
  <2>1. \A j \in 1 .. Len(hi) : hi[j] = s[i + j]
    BY <1>3, SMTT(40)
  <2> HIDE DEF hi
  <2>2. k > i => k - i \in 1 .. Len(hi) /\ i + (k - i) = k
    BY <1>2, <1>3
  <2>3. QED
    BY <2>1, <2>2
<1> HIDE DEF lo, hi
<1>6. r \in Seq(Tx) /\ Len(r) = Len(s) - 1 /\ DOMAIN r = 1 .. Len(r)
  BY <1>2, <1>3
<1>7. CASE k < i
  <2>1. k \in DOMAIN r /\ r[k] = s[k]
    BY <1>2, <1>3, <1>4, <1>7
  <2>2. QED
    BY <1>1, <1>6, <2>1
<1>8. CASE k > i
  <2>1. k - 1 \in 1 .. Len(r) /\ (k - 1) - Len(lo) = k - i /\ k - 1 > Len(lo)
    BY <1>2, <1>3, <1>6, <1>8
  <2>2. r[k - 1] = hi[k - i]
    BY <1>2, <1>5, <1>8, <2>1, SMTT(40)
  <2>3. QED
    BY <1>1, <1>5, <1>6, <1>8, <2>1, <2>2
<1>9. QED
  BY <1>3, <1>7, <1>8

\* The list changes only when a thread enters or leaves; the scan when it begins and
\* when it goes on.
LEMMA ListStays ==
    ASSUME NEW t \in Tx,
           Running(t) \/ Ends(t) \/ Start(t) \/ RequestIrrevocable(t) \/ SetIrrevocable(t)
             \/ SpuriousWakeup(t)
    PROVE  threads' = threads
<1>1. CASE Running(t)
  BY <1>1 DEF Running, shared, Drain, Prepare, Barrier, BarrierAwake, Activate, CheckPasses,
     CheckBlocks, SpinEnds, Resume, ReleaseFlag, ReleaseQuiesce, Unlock, Finish, TakeFlag,
     LockQuiesce, TryQuiesceFails, Rollback, Scan, ScanEnds
<1>2. QED
  BY <1>1 DEF Ends, Commit, CommitReadOnly, Abort, Rollback, Start, RequestIrrevocable,
     SetIrrevocable, SpuriousWakeup, shared

\* The other threads' labels stay, and only entering takes a thread from "out".
LEMMA OthersStay ==
    ASSUME Shape, NEW t \in Tx, Moves(t)
    PROVE  /\ \A u \in Tx \ {t} : pc'[u] = pc[u]
           /\ ~Enter(t) /\ pc[t] = "out" => pc'[t] = "out"
<1> USE DEF Moves
<1>1. CASE Running(t)
  BY <1>1 DEF Shape, Running, shared, Drain, Prepare, Barrier, BarrierAwake, BarrierLoop, Activate,
     CheckPasses, CheckBlocks, SpinEnds, Resume, ReleaseFlag, ReleaseQuiesce, Unlock, Finish,
     TakeFlag, LockQuiesce, TryQuiesceFails, Rollback, Scan, ScanEnds, Goto
<1>2. QED
  BY <1>1 DEF Shape, Ends, Commit, CommitReadOnly, Abort, Rollback, Start, RequestIrrevocable,
     SetIrrevocable, SpuriousWakeup, Enter, Exit, Goto

\* Who enters is put into the list, who leaves is taken out.
LEMMA ListedStep ==
    ASSUME ExcludeInv, NEW t \in Tx, Moves(t)
    PROVE  threads' \in Seq(Tx) /\ Listed'
<1> USE DEF Moves
<1>1. CASE Enter(t)
  <2>1. threads' = <<t>> \o threads /\ threads \in Seq(Tx)
    BY <1>1 DEF Enter, ExcludeInv, Arrays
  <2>2. threads' \in Seq(Tx) /\ Len(threads') = Len(threads) + 1 /\ threads'[1] = t
    BY <2>1
  <2>3. \A k \in DOMAIN threads : k + 1 \in DOMAIN threads' /\ threads'[k + 1] = threads[k]
    BY <2>1
  <2>4. \A u \in Tx \ {t} : pc'[u] = pc[u]
    BY OthersStay DEF ExcludeInv, QuiesceInv
  <2>5. 1 \in DOMAIN threads'
    BY <2>1, <2>2
  <2>6. QED
    BY <2>2, <2>3, <2>4, <2>5 DEF Listed, ExcludeInv
<1>2. CASE Exit(t)
  <2>1. PICK i \in DOMAIN threads : threads[i] = t /\ threads' = RemoveAt(threads, i)
    BY <1>2 DEF Exit
  <2>2. threads \in Seq(Tx)
    BY DEF ExcludeInv, Arrays
  <2>3. threads' \in Seq(Tx)
    BY <2>1, <2>2 DEF RemoveAt
  <2>4. \A k \in DOMAIN threads : threads[k] # t => \E j \in DOMAIN threads' : threads'[j] = threads[k]
    BY <2>1, <2>2, ListWithout
  <2>5. pc' = [pc EXCEPT ![t] = "out"] /\ pc \in [Tx -> Label]
    BY <1>2 DEF Exit, Goto, ExcludeInv, QuiesceInv, Shape
  <2>6. QED
    BY <2>3, <2>4, <2>5 DEF Listed, ExcludeInv
<1>3. CASE ~Enter(t) /\ ~Exit(t)
  <2>1. threads' = threads
    BY <1>3, ListStays
  <2>2. \A u \in Tx : pc'[u] # "out" => pc[u] # "out"
    BY <1>3, OthersStay DEF ExcludeInv, QuiesceInv
  <2>3. QED
    BY <2>1, <2>2 DEF Listed, ExcludeInv, Arrays
<1>4. QED
  BY <1>1, <1>2, <1>3

\* Every status store is seen at once, so that no action can be Drain.
LEMMA ArraysStep ==
    ASSUME StoreBuffer = 0, ExcludeInv, NEW t \in Tx, Moves(t)
    PROVE  Arrays'
<1> USE DEF Moves
<1>1. threads' \in Seq(Tx)
  BY ListedStep
<1>2. /\ scan \in [Tx -> Nat \ {0}] /\ active \in [Tx -> BOOLEAN] /\ spun \in [Tx -> BOOLEAN]
      /\ buffer = [u \in Tx |-> <<>>]
  BY DEF ExcludeInv, Arrays
<1>3. ~Drain(t)
  BY <1>2 DEF Drain
<1>4. \A b \in BOOLEAN : SetActive(t, b) => active' = [active EXCEPT ![t] = b] /\ buffer' = buffer
  BY DEF SetActive
<1>5. active' \in [Tx -> BOOLEAN] /\ buffer' = buffer
  <2>1. CASE Running(t)
    BY <1>2, <1>3, <1>4, <2>1 DEF Running, shared, Prepare, Barrier, BarrierAwake, Activate, CheckPasses,
       CheckBlocks, SpinEnds, Resume, ReleaseFlag, ReleaseQuiesce, Unlock, Finish, TakeFlag,
       LockQuiesce, TryQuiesceFails, Rollback, Scan, ScanEnds
  <2>2. QED
    BY <1>2, <1>4, <2>1 DEF Ends, Commit, CommitReadOnly, Abort, Rollback, Start, RequestIrrevocable,
       SetIrrevocable, SpuriousWakeup, Enter, Exit, shared
<1>6. scan' \in [Tx -> Nat \ {0}]
  <2>1. CASE Scan(t) \/ LockQuiesce(t)
    <3>1. scan' = [scan EXCEPT ![t] = scan[t] + 1] \/ scan' = [scan EXCEPT ![t] = 1]
      BY <2>1 DEF Scan, LockQuiesce
    <3>2. scan[t] + 1 \in Nat \ {0}
      BY <1>2
    <3>3. QED
      BY <1>2, <3>1, <3>2
  <2>2. CASE Running(t) /\ ~Scan(t) /\ ~LockQuiesce(t)
    <3>1. scan' = scan
      BY <1>3, <2>2 DEF Running, Prepare, Barrier, BarrierAwake, Activate, CheckPasses,
         CheckBlocks, SpinEnds, Resume, ReleaseFlag, ReleaseQuiesce, Unlock, Finish, TakeFlag,
         TryQuiesceFails, Rollback, ScanEnds
    <3>2. QED
      BY <1>2, <3>1
  <2>3. CASE ~Running(t)
    <3>1. scan' = scan
      BY <2>3 DEF Ends, Commit, CommitReadOnly, Abort, Rollback, Start, RequestIrrevocable,
         SetIrrevocable, SpuriousWakeup, Enter, Exit
    <3>2. QED
      BY <1>2, <3>1
  <2>4. QED
    BY <2>1, <2>2, <2>3
<1>8. spun' = spun \/ \E b \in BOOLEAN : spun' = [spun EXCEPT ![t] = b]
  <2>1. CASE Running(t)
    BY <1>2, <1>3, <2>1 DEF Running, shared, Prepare, Barrier, BarrierAwake, Activate, CheckPasses,
       CheckBlocks, SpinEnds, Resume, ReleaseFlag, ReleaseQuiesce, Unlock, Finish, TakeFlag,
       LockQuiesce, TryQuiesceFails, Rollback, Scan, ScanEnds
  <2>2. QED
    BY <1>2, <2>1 DEF Ends, Commit, CommitReadOnly, Abort, Rollback, Start, RequestIrrevocable,
       SetIrrevocable, SpuriousWakeup, Enter, Exit, shared
<1>7. QED
  BY <1>1, <1>2, <1>5, <1>6, <1>8 DEF Arrays

\* A thread gets to "check" and "run" with a store that makes it active.
LEMMA SeenActiveStep ==
    ASSUME StoreBuffer = 0, ExcludeInv, NEW t \in Tx, Moves(t)
    PROVE  SeenActive'
<1> USE DEF Moves
<1>1. /\ active \in [Tx -> BOOLEAN] /\ buffer = [u \in Tx |-> <<>>]
      /\ pc \in [Tx -> Label]
  BY DEF ExcludeInv, QuiesceInv, Arrays, Shape
<1>2. ~Drain(t)
  BY <1>1 DEF Drain
<1>3. \A b \in BOOLEAN : SetActive(t, b) => active' = [active EXCEPT ![t] = b]
  BY DEF SetActive
<1>4. OwnActive(t) = active[t]
  BY <1>1 DEF OwnActive
<1>5. \A u \in Tx \ {t} : pc'[u] = pc[u] /\ active'[u] = active[u]
  <2>1. CASE Running(t)
    BY <1>1, <1>2, <1>3, <2>1 DEF Running, shared, Prepare, Barrier, BarrierAwake, Activate, CheckPasses,
       CheckBlocks, SpinEnds, Resume, ReleaseFlag, ReleaseQuiesce, Unlock, Finish, TakeFlag,
       LockQuiesce, TryQuiesceFails, Rollback, Scan, ScanEnds, Goto, BarrierLoop
  <2>2. QED
    BY <1>1, <1>3, <2>1 DEF Ends, Commit, CommitReadOnly, Abort, Rollback, Start, RequestIrrevocable,
       SetIrrevocable, SpuriousWakeup, Enter, Exit, shared, Goto
<1>6. pc'[t] \in {"check", "run"} => active'[t]
  <2>1. CASE Running(t)
    BY <1>1, <1>2, <1>3, <1>4, <2>1 DEF Running, shared, Prepare, Barrier, BarrierAwake, Activate, CheckPasses,
       CheckBlocks, SpinEnds, Resume, ReleaseFlag, ReleaseQuiesce, Unlock, Finish, TakeFlag, ExcludeInv, SeenActive,
       LockQuiesce, TryQuiesceFails, Rollback, Scan, ScanEnds, Goto, BarrierLoop
  <2>2. QED
    BY <1>1, <1>3, <2>1 DEF Ends, Commit, CommitReadOnly, Abort, Rollback, Start, RequestIrrevocable, ExcludeInv,
       SetIrrevocable, SpuriousWakeup, Enter, Exit, shared, Goto, SeenActive
<1>7. QED
  BY <1>5, <1>6 DEF SeenActive, ExcludeInv

\* Irrevocability is asked for together with its mode, and given up with it.
LEMMA AskedStep ==
    ASSUME ExcludeInv, NEW t \in Tx, Moves(t)
    PROVE  Asked' /\ \A u \in Tx \ {t} : irr'[u] = irr[u]
<1> USE DEF Moves
<1>1. irr \in [Tx -> [stage : 0 .. 3, mode : Mode]] /\ Asked
  BY DEF ExcludeInv, QuiesceInv, Shape
<1> DEFINE Asks == \/ irr' = irr
                   \/ \E n \in {1, 2, 3}, m \in Mode : irr' = [irr EXCEPT ![t] = [stage |-> n, mode |-> m]]
                   \/ irr' = [irr EXCEPT ![t] = NotAsked]
<1>2. \A n \in 0 .. 3 : Stage(t, n) => irr' = [irr EXCEPT ![t] = [stage |-> n, mode |-> irr[t].mode]]
  BY <1>1 DEF Stage
<1>3. [irr EXCEPT ![t] = irr[t]] = irr
  BY <1>1
<1>4. ASSUME SetIrrevocable(t) \/ RequestIrrevocable(t) PROVE Asks
  <2>1. PICK m \in Modes[t] : \E n \in {1, 2, 3} : irr' = [irr EXCEPT ![t] = [stage |-> n, mode |-> m]]
    BY <1>4 DEF SetIrrevocable, RequestIrrevocable, Rollback
  <2>2. m \in Mode
    BY QuiesceAssumption DEF QuiesceAssumption
  <2>3. QED
    BY <2>1, <2>2
<1>5. ASSUME Running(t) PROVE Asks
  <2>1. CASE Prepare(t) \/ TakeFlag(t) \/ ScanEnds(t)
    <3>1. irr' = irr \/ Stage(t, 2) \/ Stage(t, 3)
      BY <2>1 DEF Prepare, TakeFlag, ScanEnds
    <3>2. irr[t].mode \in Mode
      BY <1>1
    <3>3. QED
      BY <1>2, <3>1, <3>2
  <2>2. CASE ReleaseFlag(t) \/ Unlock(t)
    BY <2>2 DEF ReleaseFlag, Unlock
  <2>3. CASE ~(Prepare(t) \/ TakeFlag(t) \/ ScanEnds(t)) /\ ~(ReleaseFlag(t) \/ Unlock(t))
    <3>1. irr' = irr
      BY <1>3, <1>5, <2>3 DEF Running, shared, Drain, Barrier, BarrierAwake, Activate, CheckPasses,
         CheckBlocks, SpinEnds, Resume, ReleaseQuiesce, Finish,
         LockQuiesce, TryQuiesceFails, Rollback, Scan
    <3>2. QED
      BY <3>1
  <2>4. QED
    BY <2>1, <2>2, <2>3
<1>6. ASSUME ~Running(t), ~SetIrrevocable(t), ~RequestIrrevocable(t) PROVE Asks
  BY <1>3, <1>6 DEF Ends, Commit, CommitReadOnly, Abort, Rollback, Start, SpuriousWakeup, Enter, Exit, shared
<1>7. Asks
  BY <1>4, <1>5, <1>6
<1>8. CASE irr' = irr
  BY <1>1, <1>8 DEF Asked, Serial
<1>9. CASE \E n \in {1, 2, 3}, m \in Mode : irr' = [irr EXCEPT ![t] = [stage |-> n, mode |-> m]]
  BY <1>1, <1>9 DEF Asked, Serial
<1>10. CASE irr' = [irr EXCEPT ![t] = NotAsked]
  BY <1>1, <1>10 DEF Asked, Serial, NotAsked
<1>11. QED
  BY <1>7, <1>8, <1>9, <1>10

\* A step leaves the scans of the other threads alone.
LEMMA OthersPlaces ==
    ASSUME ExcludeInv, NEW t \in Tx, Moves(t)
    PROVE  \A u \in Tx \ {t} : scan'[u] = scan[u] /\ spun'[u] = spun[u]
<1> USE DEF Moves
<1>1. scan \in [Tx -> Nat \ {0}] /\ spun \in [Tx -> BOOLEAN]
  BY DEF ExcludeInv, Arrays
<1>2. CASE Running(t)
  BY <1>1, <1>2 DEF Running, shared, Drain, Prepare, Barrier, BarrierAwake, Activate, CheckPasses,
     CheckBlocks, SpinEnds, Resume, ReleaseFlag, ReleaseQuiesce, Unlock, Finish, TakeFlag,
     LockQuiesce, TryQuiesceFails, Rollback, Scan, ScanEnds
<1>3. CASE ~Running(t)
  BY <1>1, <1>3 DEF Ends, Commit, CommitReadOnly, Abort, Rollback, Start, RequestIrrevocable,
     SetIrrevocable, SpuriousWakeup, Enter, Exit, shared
<1>4. QED
  BY <1>2, <1>3

\* Nobody begins to run beside a serial transaction, except after it has withdrawn once.
LEMMA RunsBeside ==
    ASSUME ExcludeInv, NEW t \in Tx, NEW v \in Tx \ {t}, Holds(v), pc[v] # "unlock",
           Moves(t),
           pc'[t] = "run"
    PROVE  spun'[t] \/ (pc[t] = "run" /\ spun'[t] = spun[t])
<1> USE DEF Moves
<1>1. /\ pc \in [Tx -> Label] /\ irr \in [Tx -> [stage : 0 .. 3, mode : Mode]]
      /\ spun \in [Tx -> BOOLEAN] /\ buffer = [u \in Tx |-> <<>>]
  BY DEF ExcludeInv, QuiesceInv, Shape, Arrays
<1>2. mutex = v /\ quiesce = 2 /\ ~Holds(t)
  BY QuiesceAssumption DEF ExcludeInv, QuiesceInv, Holder, HolderBlocks, QuiesceAssumption
<1>3. ~CheckPasses(t)
  <2> SUFFICES ASSUME CheckPasses(t) PROVE FALSE
    OBVIOUS
  <2>1. Serial(t) /\ irr[t].stage \in {0, 3}
    BY <1>2 DEF CheckPasses, ExcludeInv, QuiesceInv, Stages, StageAt
  <2>2. QED
    BY <1>2, <2>1 DEF ExcludeInv, Asked, Holds
<1>4. ~ScanEnds(t)
  BY <1>2 DEF ScanEnds, Holds
<1>5. ~Drain(t)
  BY <1>1 DEF Drain
<1>6. Resume(t) => spun'[t]
  BY <1>1 DEF Resume
<1>7. CASE Running(t)
  BY <1>1, <1>3, <1>4, <1>5, <1>6, <1>7 DEF Running, shared, Prepare, Barrier, BarrierAwake, BarrierLoop,
     Activate, CheckBlocks, SpinEnds, ReleaseFlag, ReleaseQuiesce, Unlock, Finish, TakeFlag,
     LockQuiesce, TryQuiesceFails, Rollback, Scan, Goto
<1>8. CASE ~Running(t)
  BY <1>1, <1>8 DEF Ends, Commit, CommitReadOnly, Abort, Rollback, Start, RequestIrrevocable,
     SetIrrevocable, SpuriousWakeup, Enter, Exit, shared, Goto
<1>9. QED
  BY <1>7, <1>8

\* Who comes to hold the mutex has the whole scan before it; who still holds it, goes on.
LEMMA HoldsBefore ==
    ASSUME ExcludeInv, NEW t \in Tx,
           Moves(t),
           ~LockQuiesce(t), ~Scan(t), ~ScanEnds(t), Holds(t)', pc'[t] # "unlock"
    PROVE  Holds(t) /\ pc[t] # "unlock" /\ (pc[t] = "scan" <=> pc'[t] = "scan")
<1> USE DEF Moves
<1>1. /\ pc \in [Tx -> Label] /\ irr \in [Tx -> [stage : 0 .. 3, mode : Mode]]
      /\ buffer = [u \in Tx |-> <<>>]
  BY DEF ExcludeInv, QuiesceInv, Shape, Arrays
<1>2. ~Drain(t)
  BY <1>1 DEF Drain
<1>3. irr' = irr => (Holds(t)' <=> pc'[t] = "scan" \/ (Serial(t) /\ irr[t].stage = 3))
  BY DEF Holds, Serial
<1>4. pc[t] = "scan" => Holds(t)
  BY DEF Holds
<1>5. CASE Prepare(t) \/ TakeFlag(t)
  <2>1. CASE TakeFlag(t)
    BY <1>1, <2>1 DEF TakeFlag, Goto, Stage, Holds, Serial
  <2>2. CASE Prepare(t)
    BY <1>1, <2>2 DEF Prepare, Goto, Stage, Holds, Serial
  <2>3. QED
    BY <1>5, <2>1, <2>2
<1>6. CASE SetIrrevocable(t)
  <2>1. PICK m \in Modes[t] :
           \/ \E n \in {1, 2} : Rollback(t, [stage |-> n, mode |-> m])
           \/ m = "serial" /\ irr' = [irr EXCEPT ![t] = [stage |-> 2, mode |-> m]] /\ Goto(t, "try_quiesce")
           \/ m # "serial" /\ irr' = [irr EXCEPT ![t] = [stage |-> 3, mode |-> m]] /\ UNCHANGED pc
    BY <1>6 DEF SetIrrevocable
  <2>2. pc[t] = "run"
    BY <1>6 DEF SetIrrevocable
  <2>3. CASE \E n \in {1, 2} : Rollback(t, [stage |-> n, mode |-> m])
    <3>1. irr'[t].stage \in {1, 2} /\ pc'[t] = "prepare"
      BY <1>1, <2>3 DEF Rollback, Goto
    <3>2. QED
      BY <3>1 DEF Holds
  <2>4. QED
    BY <1>1, <2>1, <2>2, <2>3 DEF Goto, Holds, Serial
<1>7. CASE ReleaseFlag(t) \/ Unlock(t) \/ Enter(t) \/ RequestIrrevocable(t)
  BY <1>1, <1>7 DEF ReleaseFlag, Unlock, Enter, RequestIrrevocable, Goto, Holds, Serial, NotAsked
<1> DEFINE Others == ~(Prepare(t) \/ TakeFlag(t)) /\ ~SetIrrevocable(t)
                       /\ ~(ReleaseFlag(t) \/ Unlock(t) \/ Enter(t) \/ RequestIrrevocable(t))
<1>8. ASSUME Running(t), Others
      PROVE  irr' = irr /\ pc[t] # "scan" /\ pc'[t] # "scan" /\ pc[t] # "unlock"
  BY <1>1, <1>2, <1>8 DEF Running, shared, Barrier, BarrierAwake, BarrierLoop, CheckPasses,
     Activate, CheckBlocks, SpinEnds, Resume, ReleaseQuiesce, Finish, TryQuiesceFails, Rollback, Goto
<1>9. ASSUME ~Running(t), Others
      PROVE  irr' = irr /\ (pc[t] = pc'[t] \/ (pc[t] # "scan" /\ pc'[t] # "scan" /\ pc[t] # "unlock"))
  BY <1>1, <1>9 DEF Ends, Commit, CommitReadOnly, Abort, Rollback, Start,
     SpuriousWakeup, Exit, shared, Goto
<1>10. QED
  BY <1>3, <1>4, <1>5, <1>6, <1>7, <1>8, <1>9 DEF Holds

\* What t has scanned, or has finished to scan, excludes the others from running.
LEMMA ExcludedByScan ==
    ASSUME StoreBuffer = 0, ExcludeInv, NEW t \in Tx, NEW u \in Tx \ {t},
           Moves(t),
           Holds(t)', pc'[t] # "unlock", pc'[u] = "run", ScanPassed(t, u)'
    PROVE  spun'[u]
<1> USE DEF Moves
<1>1. /\ pc \in [Tx -> Label] /\ scan \in [Tx -> Nat \ {0}] /\ spun \in [Tx -> BOOLEAN]
      /\ threads \in Seq(Tx) /\ Shape /\ irr \in [Tx -> [stage : 0 .. 3, mode : Mode]]
  BY DEF ExcludeInv, QuiesceInv, Shape, Arrays
<1>2. pc[u] = "run" /\ spun'[u] = spun[u]
  BY <1>1, OthersStay, OthersPlaces
<1>3. CASE LockQuiesce(t)
  <2>1. pc'[t] = "scan" /\ scan'[t] = 1
    BY <1>1, <1>3 DEF LockQuiesce, Goto
  <2>2. QED
    BY <1>1, <1>3, <2>1 DEF ScanPassed, LockQuiesce
<1>4. CASE Scan(t)
  <2>1. /\ pc[t] = "scan" /\ pc' = pc /\ threads' = threads /\ scan'[t] = scan[t] + 1
        /\ scan[t] \in DOMAIN threads
        /\ threads[scan[t]] = t \/ ~active[threads[scan[t]]]
    <3>1. threads' = threads /\ scan[t] <= Len(threads) /\ pc' = pc /\ pc[t] = "scan"
      BY <1>4 DEF Scan, shared
    <3>2. scan[t] \in Nat \ {0} /\ scan[t] \in 1 .. Len(threads)
      BY <1>1, <3>1
    <3>3. scan' = [scan EXCEPT ![t] = scan[t] + 1]
      BY <1>4 DEF Scan
    <3>4. scan[t] \in DOMAIN threads /\ scan'[t] = scan[t] + 1
      BY <1>1, <3>2, <3>3
    <3>5. threads[scan[t]] = t \/ ~active[threads[scan[t]]]
      BY <1>4 DEF Scan
    <3>6. QED
      BY <3>1, <3>4, <3>5
  <2>2. PICK k \in DOMAIN threads : k < scan[t] + 1 /\ threads[k] = u
    BY <2>1 DEF ScanPassed
  <2>3. k # scan[t]
    BY <1>2, <2>1, <2>2 DEF ExcludeInv, SeenActive
  <2>4. ScanPassed(t, u)
    BY <1>1, <2>2, <2>3 DEF ScanPassed
  <2>5. Holds(t) /\ pc[t] # "unlock"
    BY <2>1 DEF Holds
  <2>6. QED
    BY <1>2, <2>4, <2>5 DEF ExcludeInv, Excluded
<1>5. CASE ScanEnds(t)
  <2>1. pc[t] = "scan" /\ scan[t] > Len(threads)
    BY <1>5 DEF ScanEnds
  <2>2. PICK k \in DOMAIN threads : threads[k] = u
    BY <1>2 DEF ExcludeInv, Listed
  <2>3. ScanPassed(t, u)
    BY <1>1, <2>1, <2>2 DEF ScanPassed
  <2>4. QED
    BY <1>2, <2>1, <2>3 DEF ExcludeInv, Excluded, Holds
<1>6. CASE ~LockQuiesce(t) /\ ~Scan(t) /\ ~ScanEnds(t)
  <2>1. Holds(t) /\ pc[t] # "unlock" /\ (pc[t] = "scan" <=> pc'[t] = "scan")
    BY <1>6, HoldsBefore
  <2>2. mutex = t
    BY <2>1 DEF ExcludeInv, QuiesceInv, Holder
  <2>3. ~Enter(t) /\ ~Exit(t)
    BY <2>2, QuiesceAssumption DEF Enter, Exit, CanLock, QuiesceAssumption
  <2>4. threads' = threads
    BY <2>3, ListStays
  <2>5. pc[t] = "scan" => scan' = scan
    BY <1>6, <2>3 DEF Running, Drain, Prepare, Barrier, BarrierAwake, Activate, CheckPasses,
       CheckBlocks, SpinEnds, Resume, ReleaseFlag, ReleaseQuiesce, Unlock, Finish, TakeFlag,
       TryQuiesceFails, Ends, Commit, CommitReadOnly, Abort, Start, RequestIrrevocable,
       SetIrrevocable, SpuriousWakeup
  <2>6. ScanPassed(t, u)
    BY <2>1, <2>4, <2>5 DEF ScanPassed
  <2>7. QED
    BY <1>2, <2>1, <2>6 DEF ExcludeInv, Excluded
<1>7. QED
  BY <1>3, <1>4, <1>5, <1>6

\* The same for a step of any thread.
LEMMA ExcludedStep ==
    ASSUME StoreBuffer = 0, ExcludeInv, NEW t \in Tx,
           Moves(t)
    PROVE  Excluded'
<1> USE DEF Moves
<1> SUFFICES ASSUME NEW v \in Tx, NEW u \in Tx \ {v},
                    Holds(v)', pc'[v] # "unlock", pc'[u] = "run", ScanPassed(v, u)'
             PROVE  spun'[u]
  BY DEF Excluded
<1>1. CASE v = t
  BY <1>1, ExcludedByScan
<1>2. CASE v # t
  <2>1. pc'[v] = pc[v] /\ irr'[v] = irr[v] /\ scan'[v] = scan[v]
    BY <1>2, OthersStay, AskedStep, OthersPlaces DEF ExcludeInv, QuiesceInv
  <2>2. Holds(v) /\ pc[v] # "unlock"
    BY <2>1 DEF Holds, Serial
  <2>3. ~Enter(t) /\ ~Exit(t)
    BY <2>2, QuiesceAssumption DEF ExcludeInv, QuiesceInv, Holder, Enter, Exit, CanLock, QuiesceAssumption
  <2>4. ScanPassed(v, u)
    BY <2>1, <2>3, ListStays DEF ScanPassed
  <2>5. CASE u = t
    BY <2>2, <2>4, <2>5, RunsBeside DEF ExcludeInv, Excluded
  <2>6. CASE u # t
    <3>1. pc[u] = "run" /\ spun'[u] = spun[u]
      BY <2>6, OthersStay, OthersPlaces DEF ExcludeInv, QuiesceInv
    <3>2. QED
      BY <2>2, <2>4, <3>1 DEF ExcludeInv, Excluded
  <2>7. QED
    BY <2>5, <2>6
<1>3. QED
  BY <1>1, <1>2

\* The invariant is inductive.
LEMMA ExcludeStep == StoreBuffer = 0 /\ ExcludeInv /\ [Next]_vars => ExcludeInv'
<1> SUFFICES ASSUME StoreBuffer = 0, ExcludeInv, [Next]_vars
             PROVE  ExcludeInv'
  OBVIOUS
<1>1. QuiesceInv'
  BY QuiesceStep DEF ExcludeInv
<1>2. CASE UNCHANGED vars
  BY <1>1, <1>2 DEF vars, ExcludeInv, Arrays, Listed, SeenActive, Asked, Serial, Excluded, Holds, ScanPassed
<1>3. ASSUME NEW t \in Tx, Moves(t)
      PROVE  ExcludeInv'
  BY <1>1, <1>3, ArraysStep, ListedStep, SeenActiveStep, AskedStep, ExcludedStep DEF ExcludeInv
<1>4. QED
  BY <1>2, <1>3 DEF Next, Moves

\* With status stores that are visible at once, no transaction that starts runs beside a
\* serial irrevocable one: the scan has waited for those that were active, and the others
\* find quiesce = 2 (stm_quiesce, stm_check_quiesce).
THEOREM SerialKeepsOthersOut ==
    ASSUME StoreBuffer = 0
    PROVE  Spec => []SerialExcludesNewcomers
<1>1. Init => ExcludeInv
  <2> SUFFICES ASSUME Init PROVE ExcludeInv
    OBVIOUS
  <2>1. QuiesceInv
    BY QuiesceInit
  <2>2. Arrays
    BY DEF Init, Arrays
  <2>3. \A t \in Tx : pc[t] = "out" /\ irr[t].mode = "parallel"
    BY DEF Init, NotAsked
  <2>4. QED
    BY <2>1, <2>2, <2>3 DEF ExcludeInv, Listed, SeenActive, Asked, Serial, Excluded
<1>2. ExcludeInv => SerialExcludesNewcomers
  BY DEF ExcludeInv, Excluded, SerialExcludesNewcomers, SerialRuns, Holds, ScanPassed
<1>3. QED
  BY <1>1, <1>2, ExcludeStep, PTL DEF Spec

=============================================================================
