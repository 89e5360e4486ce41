------------------------------ MODULE CmProofs ------------------------------
(***************************************************************************)
(* Safety of the modular contention manager, for any number of threads,    *)
(* attempts and addresses and any policies.                                *)
(*                                                                         *)
(* LockInv is inductive and implies LocksKept and NoLockLeft.  A lock is   *)
(* taken from a transaction by others only after they have killed it, on   *)
(* the ground of a lock word and a status word read some steps before.     *)
(* LockInv says what those still tell when they are used: a killer whose   *)
(* compare-and-swap succeeds kills the attempt that has the lock           *)
(* (Observes), and a lock word that a thief still finds in place is of an  *)
(* attempt that is killed, with the version that the thief has copied      *)
(* (Steals).                                                               *)
(*                                                                         *)
(* MemInv adds what the lock words and the entry versions say of memory:   *)
(* CommittedMemory is about free locks, and Content also says of a taken   *)
(* lock with what it will be given back, by its owner or by a thief.       *)
(*                                                                         *)
(* VisibleInv adds that the entries of an attempt with visible reads cover *)
(* what it has read (Covered) until its timestamp is taken (InSnapshot),   *)
(* from where on locks are dropped one by one while others validate with   *)
(* later timestamps (After).                                               *)
(*                                                                         *)
(* The theorems assume CountsWrap = FALSE: the counter of a status word    *)
(* and the number of an allocation do not return to a value while somebody *)
(* has a word with the old one in hand.  A compare-and-swap cannot tell    *)
(* the two apart: with counts that wrap at 2, TLC shows that LocksKept,    *)
(* CommittedMemory and VisibleSerializable are wrong.  Here a thread that  *)
(* gets to COUNTER_MAX stops; COUNTER_MAX is any positive number.          *)
(***************************************************************************)
EXTENDS ModularCm, SequenceTheorems, TLAPS

-----------------------------------------------------------------------------
(* The inductive invariant *)

Status == {"IDLE", "ACTIVE", "COMMITTING", "COMMITTED", "ABORTING", "ABORTED", "KILLED"}
\* Labels of an access that goes on; of a conflict with the owner of a lock; of a commit
\* that nobody can stop any more.
InConflict == {"cm_status", "cm_lock", "cm_decide", "kill", "kill_wait", "kill_failed", "steal"}
InLoad == {"load_value", "load_relock", "load_version", "load_check", "recheck"}
InAccess == InConflict \cup InLoad \cup {"again", "vis_value", "acquire_cas", "upgrade"}
InInstall == {"install", "install_drop"}
CmLabel == InAccess \cup InInstall
             \cup {"idle", "on_start", "active", "abort", "rollback", "drop", "prepare", "c_lock",
                   "validate", "precommit", "commit_cas", "ro_drop", "commit_clock", "end", "on_commit"}
Purpose == {"none", "delay", "invisible", "visible", "write", "extend", "commit"}

Extends(t) == pc[t] = "validate" /\ loc[t].for = "extend"
Validates(t) == pc[t] = "validate" /\ loc[t].for = "commit"
Accesses(t) == pc[t] \in InAccess \/ Extends(t)
Installs(t) == pc[t] \in InInstall
Commits(t) == pc[t] \in {"ro_drop", "commit_clock", "end"} \/ Validates(t) \/ Installs(t)
Unwinds(t) == pc[t] \in {"abort", "rollback", "drop"}
Rests(t) == pc[t] \in {"idle", "on_commit", "prepare", "c_lock"}

AnyAddr == Addr \cup {NoLoc.addr}
Word == [owner : {-1}, version : Nat, gen : {0}, i : {0}, write : {FALSE}]
          \cup [owner : Tx, version : {0}, gen : Nat, i : Entry, write : BOOLEAN]
StatusWord == [s : Status, c : Nat]
LocType == [addr : AnyAddr, l : Word, s : StatusWord, value : Nat, v : Nat, now : Nat,
            i : Nat \ {0}, for : Purpose]
TxType == [start : Nat, end : Nat, r_set : Seq([addr : Addr, version : Nat]),
           w_set : Seq([addr : Addr, mask : BOOLEAN]), gen : Nat, visible : BOOLEAN,
           visible_reads : Nat, retries : {0, 1}, timestamp : Nat, ticket : Nat, nb : Nat]

TypeInv ==
    /\ lock \in [Addr -> Word] /\ mem \in [Addr -> Nat] /\ clock \in Nat
    /\ status \in [Tx -> StatusWord] /\ version \in [Tx -> [Entry -> Nat]]
    /\ tx \in [Tx -> TxType] /\ pc \in [Tx -> CmLabel] /\ loc \in [Tx -> LocType]
    /\ order \in [next : Nat, commit : Nat]
    /\ seen \in [Tx -> SUBSET [addr : Addr, value : Nat]] /\ hist \in [Addr -> SUBSET Nat]

\* The status of a descriptor at a label.  Whoever rests has nothing logged.
Stage(t) ==
    /\ Rests(t) => /\ status[t].s \in {"IDLE", "COMMITTED", "ABORTED"}
                   /\ tx[t].r_set = <<>> /\ tx[t].w_set = <<>>
    /\ pc[t] = "on_start" => tx[t].r_set = <<>> /\ tx[t].w_set = <<>>
    /\ pc[t] \in {"on_start", "active", "precommit", "commit_cas"} \/ Accesses(t) =>
          status[t].s \in {"ACTIVE", "KILLED"}
    /\ pc[t] = "abort" => status[t].s \in {"ACTIVE", "KILLED", "COMMITTING"}
    /\ pc[t] = "rollback" => status[t].s \in {"ABORTING", "COMMITTING"}
    /\ pc[t] = "drop" => status[t].s = "KILLED"
    /\ Commits(t) => status[t].s = "COMMITTING"
    /\ pc[t] = "validate" => loc[t].for \in {"extend", "commit"}

\* The position in a loop over the write set.
Position(t) ==
    /\ pc[t] \in {"precommit", "commit_cas", "abort"} => loc[t].i = 1
    /\ pc[t] = "active" /\ (tx[t].r_set # <<>> \/ tx[t].w_set # <<>>) => loc[t].i = 1
    /\ pc[t] \in {"rollback", "drop", "ro_drop", "install"} => loc[t].i <= Len(tx[t].w_set) + 1
    /\ pc[t] = "install_drop" => loc[t].i <= Len(tx[t].w_set)

\* The log of an attempt and its bound.
Room(t) ==
    /\ Len(tx[t].r_set) + Len(tx[t].w_set) <= MaxLog
    /\ Accesses(t) => Len(tx[t].r_set) + Len(tx[t].w_set) < MaxLog

\* Each attempt counts one, and allocates at most one write set anew.
Counts(t) ==
    /\ status[t].c < COUNTER_MAX
    /\ tx[t].gen <= status[t].c
    /\ ~Rests(t) => tx[t].gen < status[t].c

\* A lock word that points to the entry for a in the write set that its owner has now.
Logged(l, a) ==
    LET log == tx[l.owner].w_set IN
    /\ l.gen = tx[l.owner].gen
    /\ l.i \in DOMAIN log /\ log[l.i].addr = a
    /\ l.write => log[l.i].mask

\* What an access knows of its lock.
Purposes(t) ==
    /\ Accesses(t) \/ pc[t] = "c_lock" => loc[t].addr \in Addr
    /\ loc[t].for = "delay" => loc[t].addr \in Addr
    /\ pc[t] \in InConflict \cup {"again"} => loc[t].for \in {"invisible", "visible", "write"}
    /\ pc[t] \in InConflict => loc[t].l.owner \in Tx \ {t}
    /\ pc[t] \in {"vis_value", "acquire_cas"} => loc[t].l.owner # t
    /\ pc[t] = "vis_value" => loc[t].for = "visible"
    /\ pc[t] = "acquire_cas" => loc[t].for \in {"visible", "write"}
    /\ pc[t] \in InLoad \cup InAccess => loc[t].for # "commit"
    /\ pc[t] = "load_version" => ~IsFree(loc[t].l)
    /\ pc[t] = "upgrade" => loc[t].l.owner = t /\ Logged(loc[t].l, loc[t].addr) 
                             /\ ~tx[t].w_set[loc[t].l.i].mask

Locals == \A t \in Tx : Stage(t) /\ Position(t) /\ Room(t) /\ Counts(t) /\ Purposes(t)

\* A taken lock points to an entry, for reading or writing as the entry, that is not
\* dropped yet (NoLockLeft).
Holding(a) ==
    ~IsFree(lock[a]) =>
        /\ Logged(lock[a], a)
        /\ lock[a].i > Passed(lock[a].owner)
        /\ lock[a].write = tx[lock[a].owner].w_set[lock[a].i].mask

\* A killer (or thief) has seen status s of the owner of l ...
Observes(t) ==
    LET o == loc[t].l.owner  s == loc[t].s IN
    /\ pc[t] \in {"cm_lock", "cm_decide", "kill"} =>
          /\ s.c <= status[o].c
          /\ s.s = "KILLED" /\ s.c = status[o].c => status[o].s \in {"KILLED", "ABORTED"}
    /\ pc[t] = "kill" => s.s = "ACTIVE"
    \* ... and, as long as it is the same, the lock was that attempt's
    /\ pc[t] \in {"cm_decide", "kill"} /\ status[o] = s /\ s.s \in {"ACTIVE", "KILLED"} =>
          Logged(loc[t].l, loc[t].addr) /\ version[o][loc[t].l.i] = loc[t].v

\* The version that a thief or an acquirer will give back.
Keeps(t) == IF pc[t] = "steal" THEN loc[t].v ELSE version[t][Len(tx[t].w_set) + 1]

\* What is stolen belongs to a killed attempt, whose write set is not used again.
Steals(t) ==
    LET l == loc[t].l IN
    pc[t] \in {"steal", "vis_value", "acquire_cas"} /\ ~IsFree(l) =>
        /\ l.gen <= tx[l.owner].gen
        /\ l.gen = tx[l.owner].gen => /\ Is(l.owner, "KILLED")
                                      /\ Logged(l, loc[t].addr)
                                      /\ version[l.owner][l.i] = Keeps(t)

LockInv ==
    /\ TypeInv /\ Locals /\ LocksKept
    /\ \A a \in Addr : Holding(a)
    /\ \A t \in Tx : Observes(t) /\ Steals(t)

\* The newest version of a set.
IsNewest(n, S) == n \in S /\ \A m \in S : m <= n

\* Memory and history of an address: as the lock will be given back, unless its owner
\* writes it back.
Content(a) ==
    LET l == lock[a] IN
    /\ mem[a] \in hist[a] /\ \A n \in hist[a] : n <= clock
    /\ IF IsFree(l) THEN mem[a] = l.version /\ IsNewest(mem[a], hist[a])
       ELSE IF Installs(l.owner) /\ l.write
       THEN /\ IsNewest(loc[l.owner].v, hist[a])
            /\ pc[l.owner] = "install_drop" /\ l.i = loc[l.owner].i => mem[a] = loc[l.owner].v
       ELSE mem[a] = version[l.owner][l.i] /\ IsNewest(mem[a], hist[a])

\* The timestamp of a commit: later than all that was written to what it has locked.
Dated(t) ==
    /\ Validates(t) \/ Installs(t) => loc[t].v <= clock
    /\ Validates(t) => \A i \in DOMAIN tx[t].w_set : \A n \in hist[tx[t].w_set[i].addr] : n < loc[t].v

\* The version that an acquirer has put into its next entry, and the value of a visible
\* read, are those of the lock word that its compare-and-swap expects.
Acquires(t) ==
    LET l == loc[t].l  a == loc[t].addr  next == Len(tx[t].w_set) + 1 IN
    /\ pc[t] \in {"vis_value", "acquire_cas"} /\ IsFree(l) => version[t][next] = l.version
    /\ pc[t] = "vis_value" /\ IsFree(l) => l.version <= mem[a]
    /\ pc[t] = "acquire_cas" /\ loc[t].for = "visible" =>
          IF IsFree(l) THEN loc[t].value \in hist[a] /\ l.version <= loc[t].value
          ELSE lock[a] = l => loc[t].value = version[t][next]

MemInv == LockInv /\ (\A a \in Addr : Content(a)) /\ (\A t \in Tx : Dated(t) /\ Acquires(t))

\* An attempt with visible reads has no other reads, ...
OnlyVisible(t) ==
    /\ Rests(t) \/ Unwinds(t) \/ pc[t] = "on_start" => seen[t] = {}
    /\ tx[t].visible =>
          /\ pc[t] \notin InLoad /\ ~Extends(t)
          /\ pc[t] \in InAccess => loc[t].for # "invisible"

\* ... each of which has an entry, with its value,
Covered(t) ==
    tx[t].visible => \A r \in seen[t] : \E i \in DOMAIN tx[t].w_set :
                        tx[t].w_set[i].addr = r.addr /\ version[t][i] = r.value

\* and which are those of the snapshot just before its timestamp.
InSnapshot(t) ==
    tx[t].visible /\ Installs(t) => \A r \in seen[t] :
        /\ r.value \in hist[r.addr] /\ r.value < loc[t].v
        /\ \A n \in hist[r.addr] : n < loc[t].v => n <= r.value

\* Who validates a commit after another has given back a lock that it has now, has a
\* later timestamp.
After(t, u) ==
    Installs(t) /\ Validates(u) =>
        \A i \in DOMAIN tx[t].w_set, j \in DOMAIN tx[u].w_set :
            i < loc[t].i /\ tx[t].w_set[i].addr = tx[u].w_set[j].addr => loc[t].v < loc[u].v

VisibleInv ==
    /\ MemInv
    /\ \A t \in Tx : OnlyVisible(t) /\ Covered(t) /\ InSnapshot(t)
    /\ \A t, u \in Tx : After(t, u)

-----------------------------------------------------------------------------
(* What the lemmas below need of words, and of the steps of others *)

\* A word is a timestamp, or points to an entry of a thread.
LEMMA Words ==
    ASSUME NEW l \in Word
    PROVE  /\ IsFree(l) => l.version \in Nat /\ l = Free(l.version)
           /\ ~IsFree(l) => /\ l.owner \in Tx /\ l.version = 0 /\ l.gen \in Nat
                            /\ l.i \in Entry /\ l.write \in BOOLEAN
                            /\ l = [owner |-> l.owner, version |-> 0, gen |-> l.gen, i |-> l.i,
                                    write |-> l.write]
<1>1. -1 \notin Tx
  BY CmAssumption DEF CmAssumption
<1>2. QED
  BY <1>1 DEF Word, IsFree, Free

\* The words that the code builds.
LEMMA NewWords ==
    ASSUME TypeInv
    PROVE  /\ \A v \in Nat : Free(v) \in Word /\ IsFree(Free(v)) /\ Free(v).version = v
           /\ \A t \in Tx, i \in Entry, w \in BOOLEAN :
                /\ Owned(t, i, w) \in Word /\ ~IsFree(Owned(t, i, w))
                /\ Owned(t, i, w).owner = t /\ Owned(t, i, w).gen = tx[t].gen
                /\ Owned(t, i, w).i = i /\ Owned(t, i, w).write = w
<1>1. \A v \in Nat : Free(v) \in Word /\ IsFree(Free(v)) /\ Free(v).version = v
  BY DEF Word, IsFree, Free
<1>2. \A t \in Tx : tx[t].gen \in Nat /\ t # -1
  BY CmAssumption, SMTT(40) DEF TypeInv, TxType, CmAssumption
<1>3. ASSUME NEW t \in Tx, NEW i \in Entry, NEW w \in BOOLEAN
      PROVE  /\ Owned(t, i, w) \in Word /\ ~IsFree(Owned(t, i, w))
             /\ Owned(t, i, w).owner = t /\ Owned(t, i, w).gen = tx[t].gen
             /\ Owned(t, i, w).i = i /\ Owned(t, i, w).write = w
  BY <1>2 DEF Word, Owned, IsFree
<1>4. QED
  BY <1>1, <1>3

\* The write set and the place in it.
LEMMA WriteSet ==
    ASSUME TypeInv, NEW t \in Tx
    PROVE  /\ Len(tx[t].w_set) \in Nat /\ DOMAIN tx[t].w_set = 1 .. Len(tx[t].w_set)
           /\ tx[t].w_set \in Seq([addr : Addr, mask : BOOLEAN])
           /\ \A j \in DOMAIN tx[t].w_set : /\ tx[t].w_set[j] \in [addr : Addr, mask : BOOLEAN]
                                            /\ tx[t].w_set[j].addr \in Addr
                                            /\ tx[t].w_set[j].mask \in BOOLEAN
           /\ loc[t].i \in Nat /\ loc[t].i > 0 /\ Passed(t) \in Nat
           /\ status[t].c \in Nat /\ tx[t].gen \in Nat /\ Len(tx[t].r_set) \in Nat
<1> DEFINE w == tx[t].w_set  E == [addr : Addr, mask : BOOLEAN]
<1>0. Len(tx[t].r_set) \in Nat
  <2>1. tx[t].r_set \in Seq([addr : Addr, version : Nat])
    BY DEF TypeInv, TxType
  <2>2. QED
    BY <2>1
<1>1. w \in Seq(E) /\ loc[t].i \in Nat \ {0} /\ status[t].c \in Nat /\ tx[t].gen \in Nat
  BY DEF TypeInv, TxType, LocType, StatusWord
<1> HIDE DEF w, E
<1>2. Len(w) \in Nat /\ DOMAIN w = 1 .. Len(w) /\ \A j \in DOMAIN w : w[j] \in E
  BY <1>1
<1>3. \A j \in DOMAIN w : w[j].addr \in Addr /\ w[j].mask \in BOOLEAN
  BY <1>2 DEF E
<1>4. Passed(t) \in Nat
  BY <1>1, <1>2 DEF Passed, w
<1>5. QED
  BY <1>0, <1>1, <1>2, <1>3, <1>4 DEF w, E

\* There is room for the write set in the array of entries.
LEMMA InLog ==
    ASSUME TypeInv, NEW t \in Tx, Room(t)
    PROVE  /\ \A i \in DOMAIN tx[t].w_set : i \in Entry /\ version[t][i] \in Nat
           /\ LogRoom(t) => Len(tx[t].w_set) + 1 \in Entry
<1> DEFINE m == Len(tx[t].w_set)  n == Len(tx[t].r_set)
<1>1. MaxLog \in Nat
  BY CmAssumption DEF CmAssumption
<1>2. m \in Nat /\ n \in Nat /\ DOMAIN tx[t].w_set = 1 .. m
  BY WriteSet
<1>3. n + m <= MaxLog /\ (LogRoom(t) => n + m < MaxLog)
  BY DEF Room, LogRoom
<1> HIDE DEF m, n
<1>4. \A i \in 1 .. m : i \in 1 .. MaxLog
  BY <1>1, <1>2, <1>3
<1>5. LogRoom(t) => m + 1 \in 1 .. MaxLog
  BY <1>1, <1>2, <1>3
<1>6. \A i \in DOMAIN tx[t].w_set : i \in Entry /\ version[t][i] \in Nat
  <2>1. version[t] \in [1 .. MaxLog -> Nat]
    BY DEF TypeInv, Entry
  <2>2. \A i \in DOMAIN tx[t].w_set : i \in 1 .. MaxLog
    BY <1>2, <1>4
  <2> QED
    BY <2>1, <2>2 DEF Entry
<1>7. QED
  BY <1>5, <1>6 DEF Entry, m

\* What no step does to o: its counts grow; it is killed only if active; it keeps its
\* write set as long as it is active or killed.
Kept(o) ==
    /\ tx'[o].gen = tx[o].gen
    /\ \A i \in DOMAIN tx[o].w_set :
          /\ i \in DOMAIN tx'[o].w_set /\ tx'[o].w_set[i].addr = tx[o].w_set[i].addr
          /\ tx[o].w_set[i].mask => tx'[o].w_set[i].mask
          /\ version'[o][i] = version[o][i]
Evolves(o) ==
    /\ status[o].c <= status'[o].c /\ tx[o].gen <= tx'[o].gen
    /\ status'[o].c = status[o].c =>
          /\ status[o].s = "ABORTED" => status'[o].s = "ABORTED"
          /\ status[o].s = "KILLED" => status'[o].s \in {"KILLED", "ABORTED"}
          /\ status'[o].s = "KILLED" => status[o].s \in {"ACTIVE", "KILLED"}
          /\ status'[o].s = "ACTIVE" => status[o].s = "ACTIVE"
          /\ status'[o].s \in {"ACTIVE", "KILLED"} => Kept(o)
    /\ status[o].s = "KILLED" /\ tx'[o].gen = tx[o].gen /\ tx[o].w_set # <<>> =>
          status'[o].s = "KILLED" /\ Kept(o)

\* What a step of another thread may do to u.
Spared(u) ==
    /\ pc'[u] = pc[u] /\ loc'[u] = loc[u] /\ tx'[u] = tx[u] /\ version'[u] = version[u]
    /\ \/ status'[u] = status[u]
       \/ status[u].s = "ACTIVE" /\ status'[u] = [status[u] EXCEPT !.s = "KILLED"]

\* The parts of Locals, for one thread.
Mine(t) == Stage(t) /\ Position(t) /\ Room(t) /\ Counts(t) /\ Purposes(t)

LEMMA SparedEvolves ==
    ASSUME TypeInv, NEW u \in Tx, Spared(u)
    PROVE  Evolves(u)
<1>1. status[u] \in StatusWord /\ tx[u].gen \in Nat
  BY DEF TypeInv, TxType
<1>2. Kept(u)
  BY DEF Spared, Kept
<1>3. QED
  BY <1>1, <1>2 DEF Spared, Evolves, StatusWord

LEMMA SparedMine ==
    ASSUME TypeInv, NEW u \in Tx, Mine(u), Spared(u)
    PROVE  Mine(u)'
<1>1. status[u] \in StatusWord
  BY DEF TypeInv
<1>2. status'[u].c = status[u].c /\ (status'[u].s = status[u].s \/ (status[u].s = "ACTIVE" /\ status'[u].s = "KILLED"))
  BY <1>1 DEF Spared, StatusWord
<1>3. pc'[u] = pc[u] /\ loc'[u] = loc[u] /\ tx'[u] = tx[u]
  BY DEF Spared
<1>4. /\ Accesses(u)' = Accesses(u) /\ Rests(u)' = Rests(u) /\ Commits(u)' = Commits(u)
  BY <1>3 DEF Accesses, Rests, Commits, Extends, Validates, Installs
<1>5. Stage(u)'
  BY <1>2, <1>3, <1>4 DEF Mine, Stage, Rests, Commits, Accesses, Extends, InAccess, InConflict, InLoad,
     Validates, Installs, InInstall
<1>6. Position(u)' /\ Room(u)' /\ Counts(u)'
  BY <1>2, <1>3, <1>4 DEF Mine, Position, Room, Counts
<1>7. Purposes(u)'
  <2>1. loc[u].l.owner = u => (Logged(loc[u].l, loc[u].addr)' <=> Logged(loc[u].l, loc[u].addr))
    BY <1>3 DEF Logged
  <2>2. QED
    BY <1>3, <1>4, <2>1 DEF Mine, Purposes
<1>8. QED
  BY <1>5, <1>6, <1>7 DEF Mine

\* What a thread knows about others stays true while they step.
LEMMA SparedObserves ==
    ASSUME LockInv, TypeInv', NEW u \in Tx, Spared(u), \A o \in Tx : Evolves(o)
    PROVE  Observes(u)'
<1> DEFINE o == loc[u].l.owner  s == loc[u].s
<1>1. pc'[u] = pc[u] /\ loc'[u] = loc[u]
  BY DEF Spared
<1>2. SUFFICES ASSUME pc[u] \in {"cm_lock", "cm_decide", "kill"}
               PROVE  Observes(u)'
  BY <1>1 DEF Observes
<1>3. o \in Tx /\ o # u
  BY <1>2 DEF LockInv, Locals, Purposes, InConflict
<1>4. s \in StatusWord /\ status[o] \in StatusWord /\ status'[o] \in StatusWord
  BY <1>3 DEF LockInv, TypeInv, LocType
<1>5. Observes(u) /\ Evolves(o)
  BY <1>3 DEF LockInv
<1> HIDE DEF o, s
<1>6. pc[u] = "kill" => s.s = "ACTIVE"
  BY <1>5 DEF Observes, s
<1>7. /\ s.c <= status[o].c
      /\ s.s = "KILLED" /\ s.c = status[o].c => status[o].s \in {"KILLED", "ABORTED"}
  BY <1>5, <1>2 DEF Observes, s, o
<1>8. pc[u] \in {"cm_decide", "kill"} /\ status[o] = s /\ s.s \in {"ACTIVE", "KILLED"} =>
          Logged(loc[u].l, loc[u].addr) /\ version[o][loc[u].l.i] = loc[u].v
  BY <1>5 DEF Observes, s, o
<1>9. /\ s.c <= status'[o].c
      /\ s.s = "KILLED" /\ s.c = status'[o].c => status'[o].s \in {"KILLED", "ABORTED"}
  BY <1>4, <1>5, <1>7 DEF Evolves, StatusWord
<1>10. ASSUME pc[u] \in {"cm_decide", "kill"}, status'[o] = s, s.s \in {"ACTIVE", "KILLED"}
       PROVE  Logged(loc[u].l, loc[u].addr)' /\ version'[o][loc[u].l.i] = loc[u].v
  <2>1. status'[o].c = status[o].c
    BY <1>4, <1>5, <1>7, <1>10 DEF Evolves, StatusWord
  <2>2. status[o].s = s.s
    BY <1>4, <1>5, <1>7, <1>10, <2>1 DEF Evolves, StatusWord
  <2>3. status[o] = s /\ Kept(o)
    BY <1>4, <1>5, <1>10, <2>1, <2>2 DEF Evolves, StatusWord
  <2>4. Logged(loc[u].l, loc[u].addr) /\ version[o][loc[u].l.i] = loc[u].v
    BY <1>8, <1>10, <2>3
  <2>5. QED
    BY <1>1, <2>3, <2>4, ZenonT(60) DEF Logged, Kept, o
<1>11. QED
  BY <1>1, <1>6, <1>9, <1>10 DEF Observes, o, s

LEMMA SparedSteals ==
    ASSUME LockInv, TypeInv', NEW u \in Tx, Spared(u), \A o \in Tx : Evolves(o)
    PROVE  Steals(u)'
<1> DEFINE l == loc[u].l  o == l.owner
<1>1. pc'[u] = pc[u] /\ loc'[u] = loc[u] /\ Keeps(u)' = Keeps(u)
  BY DEF Spared, Keeps
<1>2. SUFFICES ASSUME pc[u] \in {"steal", "vis_value", "acquire_cas"}, ~IsFree(l)
               PROVE  /\ l.gen <= tx'[o].gen
                      /\ l.gen = tx'[o].gen => /\ Is(o, "KILLED")'
                                               /\ Logged(l, loc[u].addr)'
                                               /\ version'[o][l.i] = Keeps(u)
  BY <1>1 DEF Steals
<1>3. l \in Word
  BY DEF LockInv, TypeInv, LocType
<1>4. l.gen \in Nat /\ o \in Tx /\ tx[o].gen \in Nat /\ tx'[o].gen \in Nat
  BY <1>2, <1>3, Words DEF LockInv, TypeInv, TxType
<1>5. Evolves(o) /\ Steals(u)
  BY <1>4 DEF LockInv
<1>6. l.gen <= tx[o].gen /\ tx[o].gen <= tx'[o].gen
  BY <1>2, <1>5 DEF Steals, Evolves
<1>7. ASSUME l.gen = tx'[o].gen
      PROVE  Is(o, "KILLED")' /\ Logged(l, loc[u].addr)' /\ version'[o][l.i] = Keeps(u)
  <2>1. l.gen = tx[o].gen /\ tx'[o].gen = tx[o].gen
    BY <1>4, <1>6, <1>7
  <2>2. Is(o, "KILLED") /\ Logged(l, loc[u].addr) /\ version[o][l.i] = Keeps(u)
    BY <1>2, <1>5, <2>1 DEF Steals
  <2>3. tx[o].w_set # <<>>
    BY <2>2, SMTT(40) DEF Logged
  <2>4. status'[o].s = "KILLED" /\ Kept(o)
    BY <1>5, <2>1, <2>2, <2>3 DEF Evolves, Is
  <2>5. QED
    BY <1>1, <2>2, <2>4, ZenonT(60) DEF Is, Logged, Kept
<1>8. QED
  BY <1>4, <1>6, <1>7

\* All that a step of t has to show.
LEMMA Compose ==
    ASSUME LockInv, NEW t \in Tx, TypeInv', Mine(t)', \A u \in Tx \ {t} : Spared(u), Evolves(t),
           Observes(t)', Steals(t)', LocksKept', \A a \in Addr : Holding(a)'
    PROVE  LockInv'
<1>1. TypeInv /\ \A u \in Tx : Mine(u)
  BY DEF LockInv, Locals, Mine
<1>2. \A u \in Tx : Evolves(u)
  BY <1>1, SparedEvolves
<1>3. \A u \in Tx : Mine(u)'
  BY <1>1, SparedMine
<1>4. \A u \in Tx : Observes(u)' /\ Steals(u)'
  BY <1>2, SparedObserves, SparedSteals
<1>5. QED
  BY <1>3, <1>4 DEF LockInv, Locals, Mine

\* Locks are not concerned by a step that changes neither them nor what is ahead of a loop.
LEMMA LocksStay ==
    ASSUME LockInv, lock' = lock,
           \A u \in Tx : /\ tx'[u].w_set = tx[u].w_set /\ tx'[u].gen = tx[u].gen
                         /\ Passed(u)' = Passed(u) /\ (Is(u, "KILLED") => Is(u, "KILLED")')
    PROVE  LocksKept' /\ \A a \in Addr : Holding(a)'
<1>1. LocksKept'
  BY DEF LockInv, LocksKept, Points, Owned
<1>2. ASSUME NEW a \in Addr PROVE Holding(a)'
  <2>1. ~IsFree(lock[a]) => lock[a].owner \in Tx
    BY Words DEF LockInv, TypeInv
  <2>2. QED
    BY <2>1, ZenonT(60) DEF LockInv, Holding, Logged, IsFree
<1>3. QED
  BY <1>1, <1>2

-----------------------------------------------------------------------------
(* Steps that only move t on *)

Turn(t, label, x) ==
    /\ Goto(t, label)
    /\ loc' = [loc EXCEPT ![t] = x]
    /\ UNCHANGED <<shared, status, tx, seen, hist>>

\* Where nothing is dropped.
NoLoop(label) == label \notin {"rollback", "drop", "ro_drop", "install", "install_drop", "end"}

LEMMA TurnFrame ==
    ASSUME LockInv, NEW t \in Tx, NEW label \in CmLabel, NEW x \in LocType, Turn(t, label, x),
           NoLoop(label), NoLoop(pc[t])
    PROVE  /\ TypeInv' /\ (\A u \in Tx \ {t} : Spared(u)) /\ Evolves(t)
           /\ LocksKept' /\ (\A a \in Addr : Holding(a)')
           /\ pc'[t] = label /\ loc'[t] = x /\ tx'[t] = tx[t] /\ status'[t] = status[t]
<1>1. TypeInv
  BY DEF LockInv
<1>2. /\ pc' = [pc EXCEPT ![t] = label] /\ loc' = [loc EXCEPT ![t] = x]
      /\ lock' = lock /\ mem' = mem /\ clock' = clock /\ status' = status /\ version' = version
      /\ tx' = tx /\ order' = order /\ seen' = seen /\ hist' = hist
  BY DEF Turn, Goto, shared
<1>3. TypeInv'
  BY <1>1, <1>2 DEF TypeInv
<1>4. pc'[t] = label /\ loc'[t] = x /\ \A u \in Tx \ {t} : pc'[u] = pc[u] /\ loc'[u] = loc[u]
  BY <1>1, <1>2 DEF TypeInv
<1>5. \A u \in Tx \ {t} : Spared(u)
  BY <1>2, <1>4 DEF Spared
<1>6. Evolves(t)
  <2>1. status[t] \in StatusWord /\ tx[t].gen \in Nat
    BY <1>1 DEF TypeInv, TxType
  <2>2. QED
    BY <1>2, <2>1 DEF Evolves, Kept, StatusWord
<1>7. \A u \in Tx : Passed(u)' = Passed(u)
  BY <1>2, <1>4 DEF Passed, NoLoop
<1>8. LocksKept' /\ \A a \in Addr : Holding(a)'
  BY <1>2, <1>7, LocksStay DEF Is
<1>9. QED
  BY <1>2, <1>3, <1>4, <1>5, <1>6, <1>8

\* On with an access, or into one.
LEMMA TurnAccess ==
    ASSUME LockInv, NEW t \in Tx, NEW label \in CmLabel, NEW x \in LocType, Turn(t, label, x),
           Accesses(t) \/ (pc[t] = "active" /\ LogRoom(t)),
           label \in InAccess \/ (label = "validate" /\ x.for = "extend"),
           Purposes(t)', Observes(t)', Steals(t)'
    PROVE  LockInv'
<1>1. NoLoop(label) /\ NoLoop(pc[t])
  BY DEF NoLoop, Accesses, Extends, InAccess, InConflict, InLoad
<1>2. /\ TypeInv' /\ (\A u \in Tx \ {t} : Spared(u)) /\ Evolves(t)
      /\ LocksKept' /\ (\A a \in Addr : Holding(a)')
      /\ pc'[t] = label /\ loc'[t] = x /\ tx'[t] = tx[t] /\ status'[t] = status[t]
  BY <1>1, TurnFrame
<1>3. Stage(t) /\ Position(t) /\ Room(t) /\ Counts(t)
  BY DEF LockInv, Locals
<1>4. status[t].s \in {"ACTIVE", "KILLED"} /\ ~Rests(t) /\ LogRoom(t)
  BY <1>3 DEF Stage, Room, LogRoom, Accesses, Rests, Extends, InAccess, InConflict, InLoad
<1>5. Stage(t)'
  BY <1>2, <1>4 DEF Stage, Rests, Commits, Accesses, Extends, InAccess, InConflict, InLoad,
     Validates, Installs, InInstall
<1>6. Position(t)'
  BY <1>2, <1>4 DEF Position, InAccess, InConflict, InLoad
<1>7. Room(t)' /\ Counts(t)'
  BY <1>2, <1>3, <1>4 DEF Room, Counts, LogRoom
<1>8. QED
  BY <1>2, <1>5, <1>6, <1>7, Compose DEF Mine

\* The locals of an access that begins, or has loaded the lock word l.
With(a, l, for) == [NoLoc EXCEPT !.addr = a, !.l = l, !.for = for]
Begun(a, for) == [NoLoc EXCEPT !.addr = a, !.for = for]
LEMMA Fresh ==
    ASSUME NEW a \in Addr, NEW l \in Word, NEW for \in Purpose
    PROVE  /\ NoLoc \in LocType /\ NoLoc.for = "none" /\ NoLoc.i = 1
           /\ With(a, l, for) \in LocType /\ With(a, l, for).addr = a /\ With(a, l, for).l = l
           /\ With(a, l, for).for = for /\ With(a, l, for).i = 1
           /\ Begun(a, for) \in LocType /\ Begun(a, for).addr = a /\ Begun(a, for).for = for
           /\ Begun(a, for).i = 1
<1>1. Free(0) \in Word
  BY DEF Free, Word
<1>2. NoLoc.addr \in AnyAddr /\ a \in AnyAddr
  BY DEF AnyAddr
<1>3. NoLoc \in LocType
  BY <1>1, <1>2 DEF NoLoc, LocType, StatusWord, Status, Purpose
<1>4. QED
  BY <1>2, <1>3 DEF NoLoc, LocType, With, Begun

LEMMA ConflictStep ==
    ASSUME LockInv, NEW t \in Tx, Accesses(t), NEW a \in Addr, NEW l \in Word, NEW for,
           for \in {"invisible", "visible", "write"}, l.owner \in Tx \ {t}, Conflict(t, a, l, for)
    PROVE  LockInv'
<1> DEFINE x == With(a, l, for)
<1>1. x \in LocType /\ x.addr = a /\ x.l = l /\ x.for = for
  BY Fresh DEF Purpose
<1> HIDE DEF x
<1>2. Turn(t, "cm_status", x)
  BY DEF Conflict, Turn, x, With
<1>3. "cm_status" \in CmLabel /\ "cm_status" \in InAccess
  BY DEF CmLabel, InAccess, InConflict
<1>4. pc'[t] = "cm_status" /\ loc'[t] = x
  BY <1>2 DEF Turn, Goto, LockInv, TypeInv
<1>5. Purposes(t)'
  BY <1>1, <1>4 DEF Purposes, Accesses, InAccess, InConflict, InLoad
<1>6. Observes(t)' /\ Steals(t)'
  BY <1>4 DEF Observes, Steals
<1>7. QED
  BY <1>1, <1>2, <1>3, <1>5, <1>6, TurnAccess

LEMMA ReturnStep ==
    ASSUME LockInv, NEW t \in Tx, Accesses(t), Return(t)
    PROVE  LockInv'
<1>1. NoLoc \in LocType /\ NoLoc.for = "none" /\ NoLoc.i = 1
  <2>1. loc[t].addr \in Addr
    BY DEF LockInv, Locals, Purposes
  <2>2. Free(0) \in Word /\ "none" \in Purpose
    BY DEF Free, Word, Purpose
  <2>3. QED
    BY <2>1, <2>2, Fresh
<1>2. Turn(t, "active", NoLoc)
  BY DEF Return, Turn, Clear
<1>3. "active" \in CmLabel /\ NoLoop("active") /\ NoLoop(pc[t])
  BY DEF CmLabel, NoLoop, Accesses, Extends, InAccess, InConflict, InLoad
<1>4. /\ TypeInv' /\ (\A u \in Tx \ {t} : Spared(u)) /\ Evolves(t)
      /\ LocksKept' /\ (\A a \in Addr : Holding(a)')
      /\ pc'[t] = "active" /\ loc'[t] = NoLoc /\ tx'[t] = tx[t] /\ status'[t] = status[t]
  BY <1>1, <1>2, <1>3, TurnFrame
<1>5. Stage(t) /\ Room(t) /\ Counts(t) /\ ~Rests(t)
  BY DEF LockInv, Locals, Accesses, Rests, Extends, InAccess, InConflict, InLoad
<1>6. Stage(t)' /\ Position(t)'
  BY <1>1, <1>4, <1>5 DEF Stage, Position, Rests, Commits, Accesses, Extends, InAccess, InConflict,
     InLoad, Validates, Installs, InInstall
<1>7. Room(t)' /\ Counts(t)'
  BY <1>4, <1>5 DEF Room, Counts, Accesses, Extends, InAccess, InConflict, InLoad
<1>8. Purposes(t)' /\ Observes(t)' /\ Steals(t)'
  BY <1>1, <1>4 DEF Purposes, Observes, Steals, Accesses, Extends, InAccess, InConflict, InLoad
<1>9. QED
  BY <1>4, <1>6, <1>7, <1>8, Compose DEF Mine

-----------------------------------------------------------------------------
(* Start and rollback *)

\* The places from which an attempt is given up.
MayAbort(t) == Accesses(t) \/ Validates(t) \/ pc[t] \in {"active", "commit_cas"}

LEMMA RollbackStep ==
    ASSUME LockInv, NEW t \in Tx, MayAbort(t), NEW invisible \in BOOLEAN, NEW delay \in BOOLEAN,
           delay => loc[t].addr \in Addr, Rollback(t, invisible, delay)
    PROVE  LockInv'
<1> DEFINE x == [NoLoc EXCEPT !.addr = loc[t].addr, !.for = IF delay THEN "delay" ELSE "none"]
<1>1. TypeInv /\ Stage(t) /\ Room(t) /\ Counts(t)
  BY DEF LockInv, Locals
<1>2. x \in LocType /\ x.i = 1 /\ x.addr = loc[t].addr /\ x.for = (IF delay THEN "delay" ELSE "none")
  <2>1. loc[t].addr \in AnyAddr
    BY <1>1 DEF TypeInv, LocType
  <2>2. Free(0) \in Word
    BY DEF Free, Word
  <2>3. NoLoc \in LocType
    BY <2>2 DEF NoLoc, LocType, AnyAddr, StatusWord, Status, Purpose
  <2>4. QED
    BY <2>1, <2>3 DEF NoLoc, LocType, Purpose
<1> HIDE DEF x
<1>3. /\ pc' = [pc EXCEPT ![t] = "abort"] /\ loc' = [loc EXCEPT ![t] = x]
      /\ seen' = [seen EXCEPT ![t] = {}]
      /\ lock' = lock /\ mem' = mem /\ clock' = clock /\ status' = status /\ version' = version
      /\ order' = order /\ hist' = hist
  BY DEF Rollback, Goto, shared, x
<1>4. PICK n \in Nat : tx' = [tx EXCEPT ![t].visible_reads = n]
  <2>1. tx[t].visible_reads \in Nat
    BY <1>1 DEF TypeInv, TxType
  <2> DEFINE n == IF invisible /\ tx[t].visible_reads < vr_threshold
                  THEN tx[t].visible_reads + 1 ELSE tx[t].visible_reads
  <2>2. n \in Nat
    BY <2>1
  <2>3. tx' = [tx EXCEPT ![t].visible_reads = n]
    BY DEF Rollback
  <2> HIDE DEF n
  <2>4. QED
    BY <2>2, <2>3
<1>5. tx'[t] \in TxType /\ tx'[t] = [tx[t] EXCEPT !.visible_reads = n] /\ \A u \in Tx \ {t} : tx'[u] = tx[u]
  <2> DEFINE R == Seq([addr : Addr, version : Nat])  S == Seq([addr : Addr, mask : BOOLEAN])
             T == [start : Nat, end : Nat, r_set : R, w_set : S, gen : Nat, visible : BOOLEAN,
                   visible_reads : Nat, retries : {0, 1}, timestamp : Nat, ticket : Nat, nb : Nat]
  <2>1. tx'[t] = [tx[t] EXCEPT !.visible_reads = n] /\ \A u \in Tx \ {t} : tx'[u] = tx[u]
    BY <1>1, <1>4 DEF TypeInv
  <2>2. tx[t] \in T
    BY <1>1 DEF TypeInv, TxType
  <2> HIDE DEF R, S
  <2>3. [tx[t] EXCEPT !.visible_reads = n] \in T
    BY <2>2
  <2>4. QED
    BY <2>1, <2>3 DEF TxType, R, S
<1>6. /\ tx'[t].w_set = tx[t].w_set /\ tx'[t].r_set = tx[t].r_set /\ tx'[t].gen = tx[t].gen
  BY <1>1, <1>5 DEF TypeInv, TxType
<1>7. TypeInv'
  <2>1. "abort" \in CmLabel
    BY DEF CmLabel
  <2>2. pc' \in [Tx -> CmLabel] /\ loc' \in [Tx -> LocType] /\ tx' \in [Tx -> TxType]
    BY <1>1, <1>2, <1>3, <1>4, <1>5, <2>1 DEF TypeInv
  <2>3. QED
    BY <1>1, <1>3, <2>2 DEF TypeInv
<1>8. /\ pc'[t] = "abort" /\ loc'[t] = x /\ \A u \in Tx \ {t} : pc'[u] = pc[u] /\ loc'[u] = loc[u]
  BY <1>1, <1>3 DEF TypeInv
<1>9. \A u \in Tx \ {t} : Spared(u)
  BY <1>3, <1>5, <1>8 DEF Spared
<1>10. Evolves(t)
  <2>1. status[t] \in StatusWord /\ tx[t].gen \in Nat
    BY <1>1 DEF TypeInv, TxType
  <2>2. QED
    BY <1>3, <1>6, <2>1 DEF Evolves, Kept, StatusWord
<1>11. NoLoop(pc[t]) /\ ~Rests(t)
  BY DEF MayAbort, NoLoop, Accesses, Extends, Validates, InAccess, InConflict, InLoad, Rests
<1>12. \A u \in Tx : Passed(u)' = Passed(u) /\ tx'[u].w_set = tx[u].w_set /\ tx'[u].gen = tx[u].gen
  BY <1>5, <1>6, <1>8, <1>11 DEF Passed, NoLoop
<1>13. LocksKept' /\ \A a \in Addr : Holding(a)'
  BY <1>3, <1>12, LocksStay DEF Is
<1>14. status[t].s \in {"ACTIVE", "KILLED", "COMMITTING"}
  BY <1>1 DEF MayAbort, Stage, Commits
<1>15. Stage(t)' /\ Position(t)' /\ Room(t)' /\ Counts(t)'
  BY <1>1, <1>2, <1>3, <1>6, <1>8, <1>11, <1>14
     DEF Stage, Position, Room, Counts, Rests, Commits, Accesses, Extends, InAccess, InConflict, InLoad,
         Validates, Installs, InInstall
<1>16. Purposes(t)' /\ Observes(t)' /\ Steals(t)'
  BY <1>2, <1>8 DEF Purposes, Observes, Steals, Accesses, Extends, InAccess, InConflict, InLoad
<1>17. QED
  BY <1>7, <1>9, <1>10, <1>13, <1>15, <1>16, Compose DEF Mine

\* A new attempt.
LEMMA PrepareStep ==
    ASSUME CountsWrap = FALSE, LockInv, NEW t \in Tx, pc[t] \in {"idle", "prepare"},
           NEW v \in BOOLEAN, NEW r \in {0, 1}, NEW label \in {"on_start", "active"}, Prepare(t, v, r, label)
    PROVE  LockInv'
<1>1. TypeInv /\ Stage(t) /\ Position(t) /\ Room(t) /\ Counts(t) /\ Purposes(t)
  BY DEF LockInv, Locals
<1>2. /\ tx[t] \in TxType /\ status[t] \in StatusWord /\ clock \in Nat /\ tx[t].gen \in Nat
  BY <1>1 DEF TypeInv, TxType
<1>3. /\ status[t].s \in {"IDLE", "COMMITTED", "ABORTED"} /\ tx[t].r_set = <<>> /\ tx[t].w_set = <<>>
  BY <1>1 DEF Stage, Rests
<1>4. /\ pc' = [pc EXCEPT ![t] = label] /\ loc' = loc /\ seen' = seen
      /\ lock' = lock /\ mem' = mem /\ clock' = clock /\ version' = version
      /\ order' = order /\ hist' = hist
  BY DEF Prepare, Goto, shared
<1>5. /\ status' = [status EXCEPT ![t] = [s |-> "ACTIVE", c |-> status[t].c + 1]]
      /\ status[t].c + 1 < COUNTER_MAX
  <2>1. status[t].c + 1 < COUNTER_MAX /\ status[t].c \in Nat /\ COUNTER_MAX \in Nat \ {0}
    BY <1>2, CmAssumption DEF Prepare, StatusWord, CmAssumption
  <2>2. (status[t].c + 1) % COUNTER_MAX = status[t].c + 1
    BY <2>1
  <2>3. QED
    BY <2>1, <2>2 DEF Prepare
<1>6. PICK visible \in BOOLEAN, timestamp \in Nat, nb \in Nat :
        tx' = [tx EXCEPT ![t].start = clock, ![t].end = clock, ![t].visible = visible,
                         ![t].timestamp = timestamp, ![t].retries = r, ![t].nb = nb]
  <2>1. (v \/ tx[t].visible_reads >= vr_threshold) \in BOOLEAN
    OBVIOUS
  <2>2. (IF r = 0 THEN clock ELSE tx[t].timestamp) \in Nat /\ (IF r = 0 THEN tx[t].nb + 1 ELSE tx[t].nb) \in Nat
    BY <1>2, SMTT(40) DEF TxType
  <2>3. tx' = [tx EXCEPT ![t].start = clock, ![t].end = clock,
                         ![t].visible = v \/ tx[t].visible_reads >= vr_threshold,
                         ![t].timestamp = IF r = 0 THEN clock ELSE tx[t].timestamp,
                         ![t].retries = r, ![t].nb = IF r = 0 THEN tx[t].nb + 1 ELSE tx[t].nb]
    BY <1>1 DEF Prepare, TypeInv, TxType
  <2>4. QED
    BY <2>1, <2>2, <2>3
<1>7. /\ tx'[t] = [tx[t] EXCEPT !.start = clock, !.end = clock, !.visible = visible,
                         !.timestamp = timestamp, !.retries = r, !.nb = nb]
      /\ \A u \in Tx \ {t} : tx'[u] = tx[u]
  BY <1>1, <1>6 DEF TypeInv
<1>8. tx'[t] \in TxType /\ tx'[t].r_set = <<>> /\ tx'[t].w_set = <<>> /\ tx'[t].gen = tx[t].gen
  <2> DEFINE R == Seq([addr : Addr, version : Nat])  S == Seq([addr : Addr, mask : BOOLEAN])
             T == [start : Nat, end : Nat, r_set : R, w_set : S, gen : Nat, visible : BOOLEAN,
                   visible_reads : Nat, retries : {0, 1}, timestamp : Nat, ticket : Nat, nb : Nat]
  <2>1. tx[t] \in T /\ clock \in Nat /\ r \in {0, 1}
    BY <1>2 DEF TxType
  <2> HIDE DEF R, S
  <2>2. /\ tx'[t] \in T /\ tx'[t].gen = tx[t].gen
        /\ tx'[t].r_set = tx[t].r_set /\ tx'[t].w_set = tx[t].w_set
    BY <1>7, <2>1, ZenonT(60)
  <2>3. tx[t].r_set = <<>> /\ tx[t].w_set = <<>>
    BY <1>3
  <2>4. QED
    BY <2>2, <2>3 DEF TxType, R, S
<1>9. /\ pc'[t] = label /\ \A u \in Tx \ {t} : pc'[u] = pc[u] /\ status'[u] = status[u]
      /\ status'[t].s = "ACTIVE" /\ status'[t].c = status[t].c + 1
  BY <1>1, <1>4, <1>5 DEF TypeInv
<1>10. TypeInv'
  <2>1. label \in CmLabel
    BY DEF CmLabel
  <2>2. [s |-> "ACTIVE", c |-> status[t].c + 1] \in StatusWord
    BY <1>2 DEF StatusWord, Status
  <2>3. pc' \in [Tx -> CmLabel] /\ tx' \in [Tx -> TxType] /\ status' \in [Tx -> StatusWord]
    BY <1>1, <1>4, <1>5, <1>6, <1>7, <1>8, <2>1, <2>2 DEF TypeInv
  <2>4. QED
    BY <1>1, <1>4, <2>3 DEF TypeInv
<1>11. \A u \in Tx \ {t} : Spared(u)
  BY <1>4, <1>7, <1>9 DEF Spared
<1>12. Evolves(t)
  BY <1>2, <1>3, <1>8, <1>9 DEF Evolves, StatusWord
<1>13. \A u \in Tx : /\ Passed(u)' = Passed(u) /\ tx'[u].w_set = tx[u].w_set /\ tx'[u].gen = tx[u].gen
                     /\ (Is(u, "KILLED") => Is(u, "KILLED")')
  <2>1. \A u \in Tx \ {t} : /\ Passed(u)' = Passed(u) /\ tx'[u] = tx[u]
                            /\ (Is(u, "KILLED") => Is(u, "KILLED")')
    BY <1>4, <1>7, <1>9 DEF Passed, Is
  <2>2. Passed(t)' = Passed(t) /\ ~Is(t, "KILLED")
    BY <1>3, <1>9 DEF Passed, Is
  <2>3. tx'[t].w_set = tx[t].w_set /\ tx'[t].gen = tx[t].gen
    BY <1>3, <1>8
  <2>4. QED
    BY <2>1, <2>2, <2>3
<1>14. LocksKept' /\ \A a \in Addr : Holding(a)'
  BY <1>4, <1>13, LocksStay
<1>15. Stage(t)' /\ Position(t)'
  BY <1>8, <1>9 DEF Stage, Position, Rests, Commits, Accesses, Extends, InAccess, InConflict, InLoad,
     Validates, Installs, InInstall
<1>16. Room(t)'
  <2>1. ~Accesses(t)'
    BY <1>9 DEF Accesses, Extends, InAccess, InConflict, InLoad
  <2>2. QED
    BY <1>1, <1>3, <1>8, <2>1 DEF Room
<1>17. Counts(t)'
  <2>1. tx[t].gen <= status[t].c /\ status[t].c \in Nat
    BY <1>1, <1>2 DEF Counts, StatusWord
  <2>2. QED
    BY <1>2, <1>5, <1>8, <1>9, <2>1 DEF Counts
<1>18. Purposes(t)' /\ Observes(t)' /\ Steals(t)'
  BY <1>1, <1>4, <1>9, Zenon DEF Purposes, Observes, Steals, Accesses, Extends, InAccess, InConflict, InLoad
<1>19. QED
  BY <1>10, <1>11, <1>12, <1>14, <1>15, <1>16, <1>17, <1>18, Compose DEF Mine

LEMMA StartStep ==
    ASSUME CountsWrap = FALSE, LockInv, NEW t \in Tx, Start(t) \/ Retry(t)
    PROVE  LockInv'
<1>1. CASE Start(t)
  <2>1. PICK v \in Visible : Prepare(t, v, 0, IF manager = "order" THEN "on_start" ELSE "active")
    BY <1>1 DEF Start
  <2>2. v \in BOOLEAN /\ pc[t] = "idle"
    BY <1>1, CmAssumption DEF Start, CmAssumption
  <2>3. QED
    BY <2>1, <2>2, PrepareStep
<1>2. CASE Retry(t)
  <2>1. tx[t].visible \in BOOLEAN
    BY DEF LockInv, TypeInv, TxType
  <2>2. QED
    BY <1>2, <2>1, PrepareStep DEF Retry
<1>3. QED
  BY <1>1, <1>2

LEMMA OrderSteps ==
    ASSUME LockInv, NEW t \in Tx, mod_order_on_start(t) \/ mod_order_on_commit(t)
    PROVE  LockInv'
<1>1. TypeInv /\ Stage(t) /\ Position(t) /\ Room(t) /\ Counts(t) /\ Purposes(t)
  BY DEF LockInv, Locals
<1>2. tx[t] \in TxType /\ tx[t].gen \in Nat /\ status[t] \in StatusWord
  BY <1>1 DEF TypeInv, TxType
<1>3. PICK label \in {"active", "idle"} : pc' = [pc EXCEPT ![t] = label]
                                          /\ (label = "active" <=> pc[t] = "on_start")
  BY DEF mod_order_on_start, mod_order_on_commit, Goto
<1>4. /\ lock' = lock /\ mem' = mem /\ clock' = clock /\ status' = status /\ version' = version
      /\ seen' = seen /\ hist' = hist /\ loc' = loc
  BY DEF mod_order_on_start, mod_order_on_commit
<1>5. order' \in [next : Nat, commit : Nat]
  BY <1>1 DEF mod_order_on_start, mod_order_on_commit, TypeInv
<1>6. /\ tx' \in [Tx -> TxType] /\ (\A u \in Tx \ {t} : tx'[u] = tx[u])
      /\ tx'[t].w_set = tx[t].w_set /\ tx'[t].r_set = tx[t].r_set /\ tx'[t].gen = tx[t].gen
  <2>1. order.next \in Nat
    BY <1>1 DEF TypeInv
  <2>2. CASE tx' = [tx EXCEPT ![t].ticket = order.next]
    BY <1>1, <1>2, <2>1, <2>2 DEF TypeInv, TxType
  <2>3. CASE tx' = tx
    BY <1>1, <2>3 DEF TypeInv
  <2>4. QED
    BY <2>2, <2>3 DEF mod_order_on_start, mod_order_on_commit
<1>7. pc'[t] = label /\ pc' \in [Tx -> CmLabel] /\ \A u \in Tx \ {t} : pc'[u] = pc[u]
  BY <1>1, <1>3 DEF TypeInv, CmLabel
<1>8. TypeInv'
  BY <1>1, <1>4, <1>5, <1>6, <1>7 DEF TypeInv
<1>9. \A u \in Tx \ {t} : Spared(u)
  BY <1>4, <1>6, <1>7 DEF Spared
<1>10. Evolves(t)
  BY <1>2, <1>4, <1>6 DEF Evolves, Kept, StatusWord
<1>11. pc[t] \in {"on_start", "on_commit"}
  BY DEF mod_order_on_start, mod_order_on_commit
<1>12. \A u \in Tx : Passed(u)' = Passed(u) /\ tx'[u].w_set = tx[u].w_set /\ tx'[u].gen = tx[u].gen
  BY <1>4, <1>6, <1>7, <1>11 DEF Passed
<1>13. LocksKept' /\ \A a \in Addr : Holding(a)'
  BY <1>4, <1>12, LocksStay DEF Is
<1>14. Stage(t)'
  BY <1>1, <1>3, <1>4, <1>6, <1>7, <1>11 DEF Stage, Rests, Commits, Accesses, Extends, InAccess, InConflict, InLoad,
     Validates, Installs, InInstall
<1>15. Position(t)'
  <2>1. pc[t] = "on_start" => tx[t].r_set = <<>> /\ tx[t].w_set = <<>>
    BY <1>1 DEF Stage
  <2>2. QED
    BY <1>1, <1>3, <1>4, <1>6, <1>7, <1>11, <2>1 DEF Position
<1>16. Room(t)' /\ Counts(t)'
  BY <1>1, <1>3, <1>4, <1>6, <1>7, <1>11 DEF Room, Counts, Rests, Accesses, Extends, InAccess, InConflict, InLoad
<1>17. Purposes(t)' /\ Observes(t)' /\ Steals(t)'
  BY <1>1, <1>4, <1>7, Zenon DEF Purposes, Observes, Steals, Accesses, Extends, InAccess, InConflict, InLoad
<1>18. QED
  BY <1>8, <1>9, <1>10, <1>13, <1>14, <1>15, <1>16, <1>17, Compose DEF Mine

LEMMA AbortStep ==
    ASSUME LockInv, NEW t \in Tx, Abort(t)
    PROVE  LockInv'
<1>1. TypeInv /\ Stage(t) /\ Position(t) /\ Room(t) /\ Counts(t) /\ Purposes(t)
  BY DEF LockInv, Locals
<1>2. status[t] \in StatusWord /\ tx[t].gen \in Nat /\ pc[t] = "abort" /\ loc[t].i = 1
  BY <1>1 DEF TypeInv, TxType, Abort, Position
<1>3. /\ lock' = lock /\ mem' = mem /\ clock' = clock /\ version' = version /\ order' = order
      /\ seen' = seen /\ hist' = hist /\ loc' = loc /\ tx' = tx
  BY DEF Abort, shared
<1>4. PICK label \in {"drop", "rollback"}, s \in {"KILLED", "ABORTING", "COMMITTING"} :
        /\ pc' = [pc EXCEPT ![t] = label] /\ status' = [status EXCEPT ![t].s = s]
        /\ label = "drop" <=> s = "KILLED"
        /\ s = "KILLED" <=> status[t].s = "KILLED"
  <2>1. status[t].s \in {"ACTIVE", "KILLED", "COMMITTING"}
    BY <1>1, <1>2 DEF Stage
  <2>2. CASE status[t].s = "KILLED"
    <3>1. pc' = [pc EXCEPT ![t] = "drop"] /\ status' = status
      BY <2>2 DEF Abort, Is, Goto
    <3>2. status = [status EXCEPT ![t].s = "KILLED"]
      BY <1>1, <1>2, <2>2 DEF TypeInv, StatusWord
    <3>3. QED
      BY <2>2, <3>1, <3>2
  <2>3. CASE status[t].s # "KILLED"
    <3>1. pc' = [pc EXCEPT ![t] = "rollback"]
          /\ status' = [status EXCEPT ![t].s = IF status[t].s = "ACTIVE" THEN "ABORTING" ELSE status[t].s]
      BY <2>3 DEF Abort, Is, Goto
    <3>2. QED
      BY <2>1, <2>3, <3>1
  <2>4. QED
    BY <2>2, <2>3
<1>5. /\ status'[t] = [status[t] EXCEPT !.s = s] /\ \A u \in Tx \ {t} : status'[u] = status[u] /\ pc'[u] = pc[u]
      /\ pc'[t] = label
  BY <1>1, <1>4 DEF TypeInv
<1>6. status'[t] \in StatusWord /\ status'[t].s = s /\ status'[t].c = status[t].c
  BY <1>2, <1>5 DEF StatusWord, Status
<1>7. TypeInv'
  <2>1. pc' \in [Tx -> CmLabel] /\ status' \in [Tx -> StatusWord]
    BY <1>1, <1>4, <1>5, <1>6 DEF TypeInv, CmLabel
  <2>2. QED
    BY <1>1, <1>3, <2>1 DEF TypeInv
<1>8. \A u \in Tx \ {t} : Spared(u)
  BY <1>3, <1>5 DEF Spared
<1>9. Evolves(t)
  <2>1. status[t].s \in {"ACTIVE", "KILLED", "COMMITTING"} /\ Kept(t)
    BY <1>1, <1>2, <1>3 DEF Stage, Kept
  <2>2. QED
    BY <1>2, <1>3, <1>4, <1>6, <2>1 DEF Evolves, StatusWord
<1>10. \A u \in Tx : Passed(u)' = Passed(u)
  BY <1>2, <1>3, <1>5 DEF Passed
<1>11. \A u \in Tx : Is(u, "KILLED") => Is(u, "KILLED")'
  BY <1>4, <1>5, <1>6 DEF Is
<1>12. LocksKept' /\ \A a \in Addr : Holding(a)'
  BY <1>3, <1>10, <1>11, LocksStay
<1>13. Stage(t)'
  BY <1>4, <1>5, <1>6 DEF Stage, Rests, Commits, Accesses, Extends, InAccess, InConflict, InLoad,
     Validates, Installs, InInstall
<1>14. Position(t)'
  <2>1. Len(tx[t].w_set) \in Nat
    BY <1>1 DEF TypeInv, TxType
  <2>2. QED
    BY <1>2, <1>3, <1>5, <2>1 DEF Position
<1>15. Room(t)' /\ Counts(t)'
  BY <1>1, <1>2, <1>3, <1>5, <1>6 DEF Room, Counts, Rests, Accesses, Extends, InAccess, InConflict, InLoad
<1>16. Purposes(t)' /\ Observes(t)' /\ Steals(t)'
  BY <1>1, <1>3, <1>5 DEF Purposes, Observes, Steals, Accesses, Extends, InAccess, InConflict, InLoad
<1>17. QED
  BY <1>7, <1>8, <1>9, <1>12, <1>13, <1>14, <1>15, <1>16, Compose DEF Mine

\* A thread drops the lock of the next entry of a loop: its own.
LEMMA DropLocks ==
    ASSUME LockInv, NEW t \in Tx, loc[t].i \in DOMAIN tx[t].w_set, Passed(t) = loc[t].i - 1,
           Is(t, "KILLED") => lock[tx[t].w_set[loc[t].i].addr].owner = t,
           NEW v \in Nat, lock' = [lock EXCEPT ![tx[t].w_set[loc[t].i].addr] = Free(v)],
           tx' = tx, status' = status, Passed(t)' = loc[t].i,
           \A u \in Tx \ {t} : Passed(u)' = Passed(u)
    PROVE  LocksKept' /\ \A a \in Addr : Holding(a)'
<1> DEFINE i == loc[t].i  a == tx[t].w_set[i].addr
<1>1. TypeInv
  BY DEF LockInv
<1>2. /\ lock \in [Addr -> Word] /\ a \in Addr /\ i \in Nat /\ i > 0 /\ i \in 1 .. Len(tx[t].w_set)
      /\ Len(tx[t].w_set) \in Nat
      /\ \A u \in Tx : \A j \in 1 .. Len(tx[u].w_set) : tx[u].w_set[j].addr \in Addr
      /\ \A u \in Tx : DOMAIN tx[u].w_set = 1 .. Len(tx[u].w_set)
  <2>1. i \in DOMAIN tx[t].w_set /\ a = tx[t].w_set[i].addr
    OBVIOUS
  <2>2. i \in 1 .. Len(tx[t].w_set) /\ a \in Addr
    BY <1>1, <2>1, WriteSet
  <2>3. lock \in [Addr -> Word]
    BY <1>1 DEF TypeInv
  <2>4. QED
    BY <1>1, <2>2, <2>3, WriteSet, Zenon
<1> HIDE DEF i, a
<1>3. lock[a].owner = t
  <2>1. CASE Is(t, "KILLED")
    BY <2>1 DEF i, a
  <2>2. CASE ~Is(t, "KILLED")
    <3>1. i \in Passed(t) + 1 .. Len(tx[t].w_set)
      BY <1>2 DEF i
    <3>2. Points(t, i)
      BY <2>2, <3>1 DEF LockInv, LocksKept
    <3>3. QED
      BY <3>2 DEF Points, Owned, a
  <2>3. QED
    BY <2>1, <2>2
<1>4. lock' = [lock EXCEPT ![a] = Free(v)]
  BY DEF a, i
<1>5. ASSUME NEW u \in Tx, ~Is(u, "KILLED"), NEW j \in Passed(u)' + 1 .. Len(tx[u].w_set)
      PROVE  Points(u, j)'
  <2>1. j \in Passed(u) + 1 .. Len(tx[u].w_set) /\ (u = t => j > i)
    BY <1>2, <1>5 DEF i
  <2>2. Points(u, j)
    BY <1>5, <2>1 DEF LockInv, LocksKept
  <2>3. lock[tx[u].w_set[j].addr].owner = u /\ lock[tx[u].w_set[j].addr].i = j
    BY <2>2 DEF Points, Owned
  <2>4. tx[u].w_set[j].addr # a
    <3>1. CASE u # t
      BY <1>3, <2>3, <3>1
    <3>2. CASE u = t
      <4>1. Holding(a) /\ ~IsFree(lock[a])
        BY <1>2, <1>3, CmAssumption DEF LockInv, IsFree, CmAssumption
      <4>2. ~Is(t, "KILLED") /\ i \in Passed(t) + 1 .. Len(tx[t].w_set)
        BY <1>2, <1>5, <3>2 DEF i
      <4>3. Points(t, i)
        BY <4>2 DEF LockInv, LocksKept
      <4>4. lock[a].i = i
        BY <4>3 DEF Points, Owned, a
      <4>5. QED
        BY <1>2, <2>1, <2>3, <3>2, <4>4
    <3>3. QED
      BY <3>1, <3>2
  <2>5. tx[u].w_set[j].addr \in Addr
    <3>2. Passed(u) \in Nat
      BY <1>1, WriteSet
    <3>3. j \in 1 .. Len(tx[u].w_set)
      BY <2>1, <3>2
    <3>4. QED
      BY <1>2, <3>3
  <2>6. QED
    BY <1>2, <1>4, <2>2, <2>4, <2>5 DEF Points, Owned
<1>6. LocksKept'
  BY <1>5 DEF LocksKept, Is
<1>7. ASSUME NEW b \in Addr PROVE Holding(b)'
  <2>1. CASE b = a
    <3>1. IsFree(lock'[b])
      BY <1>2, <1>4, <2>1, SMTT(40) DEF IsFree, Free
    <3>2. QED
      BY <3>1, ZenonT(60) DEF Holding, IsFree
  <2>2. CASE b # a
    <3>1. lock'[b] = lock[b] /\ lock[b] \in Word /\ Holding(b)
      BY <1>2, <1>4, <2>2 DEF LockInv
    <3>2. SUFFICES ASSUME ~IsFree(lock[b]) PROVE Holding(b)'
      BY <3>1, ZenonT(60) DEF Holding, IsFree
    <3>3. lock[b].owner \in Tx /\ Logged(lock[b], b) /\ lock[b].i > Passed(lock[b].owner)
      BY <3>1, <3>2, Words, Zenon DEF Holding
    <3>4. lock[b].owner = t => lock[b].i # i
      BY <2>2, <3>3, Zenon DEF Logged, a
    <3>5. lock[b].i > Passed(lock[b].owner)'
      <4>1. CASE lock[b].owner = t
        <5>1. lock[b].i \in Nat
          <6>1. lock[b].i \in DOMAIN tx[t].w_set
            BY <3>3, <4>1 DEF Logged
          <6>2. DOMAIN tx[t].w_set = 1 .. Len(tx[t].w_set) /\ Len(tx[t].w_set) \in Nat
            BY <1>1, WriteSet
          <6>3. QED
            BY <6>1, <6>2
        <5>2. lock[b].i > i - 1
          BY <3>3, <4>1 DEF i
        <5>3. lock[b].i > i
          BY <1>2, <3>4, <4>1, <5>1, <5>2
        <5>4. lock'[b].owner = t
          BY <3>1, <4>1
        <5>5. QED
          BY <5>3, <5>4 DEF i
      <4>2. CASE lock[b].owner # t
        BY <3>1, <3>3, <4>2
      <4>3. QED
        BY <4>1, <4>2
    <3>6. QED
      BY <3>1, <3>3, <3>5, ZenonT(60) DEF Holding, Logged
  <2>3. QED
    BY <2>1, <2>2
<1>8. QED
  BY <1>6, <1>7

\* What a drop does, whether in a commit, a rollback or for a killed transaction.
Drops(t) ==
    \/ RollbackDrop(t) \/ StmDrop(t) \/ InstallDrop(t)
    \/ (ReadOnlyDrop(t) /\ loc[t].i <= Len(tx[t].w_set))

LEMMA DropStep ==
    ASSUME LockInv, NEW t \in Tx, Drops(t)
    PROVE  LockInv'
<1> DEFINE i == loc[t].i  a == tx[t].w_set[i].addr
<1>1. TypeInv /\ Stage(t) /\ Position(t) /\ Room(t) /\ Counts(t) /\ Purposes(t)
  BY DEF LockInv, Locals
<1>2. /\ i \in Nat /\ i > 0 /\ i <= Len(tx[t].w_set) /\ i \in DOMAIN tx[t].w_set /\ a \in Addr
      /\ Len(tx[t].w_set) \in Nat
  <2>1. i \in Nat /\ i > 0 /\ Len(tx[t].w_set) \in Nat
    BY <1>1, WriteSet
  <2>2. i <= Len(tx[t].w_set)
    BY <1>1, Zenon DEF Drops, RollbackDrop, StmDrop, InstallDrop, Position
  <2>3. i \in 1 .. Len(tx[t].w_set)
    BY <2>1, <2>2
  <2>4. QED
    BY <1>1, <2>1, <2>2, <2>3, WriteSet
<1> HIDE DEF i, a
<1>0. ReadOnlyDrop(t) => /\ pc[t] = "ro_drop" /\ lock' = [lock EXCEPT ![a] = Free(version[t][i])]
                         /\ loc' = [loc EXCEPT ![t].i = i + 1] /\ clock' = clock /\ pc' = pc
                         /\ UNCHANGED <<mem, version, order, manager, status, tx, seen, hist>>
  <2>1. ~(loc[t].i > Len(tx[t].w_set))
    BY <1>2 DEF i
  <2>2. QED
    BY <2>1, Zenon DEF ReadOnlyDrop, i, a
<1>3. /\ mem' = mem /\ clock' = clock /\ version' = version /\ order' = order /\ status' = status
      /\ tx' = tx /\ seen' = seen /\ hist' = hist /\ loc' = [loc EXCEPT ![t].i = i + 1]
  BY <1>0, Zenon DEF Drops, RollbackDrop, StmDrop, InstallDrop, i
<1>4. PICK label \in {"rollback", "drop", "install", "ro_drop"} :
        /\ pc' = [pc EXCEPT ![t] = label]
        /\ pc[t] = label \/ (pc[t] = "install_drop" /\ label = "install")
  <2>1. pc = [pc EXCEPT ![t] = pc[t]]
    BY <1>1 DEF TypeInv
  <2>2. CASE RollbackDrop(t)
    BY <2>1, <2>2 DEF RollbackDrop
  <2>3. CASE StmDrop(t)
    BY <2>1, <2>3, Zenon DEF StmDrop
  <2>4. CASE InstallDrop(t)
    BY <2>4 DEF InstallDrop, Goto
  <2>5. CASE ReadOnlyDrop(t)
    BY <1>0, <2>1, <2>5
  <2>6. QED
    BY <2>2, <2>3, <2>4, <2>5 DEF Drops
<1>5. PICK v \in Nat :
        \/ lock' = [lock EXCEPT ![a] = Free(v)]
        \/ lock' = lock
  <2>1. version[t][i] \in Nat /\ loc[t].v \in Nat
    <3>1. i \in Entry
      BY <1>1, <1>2, InLog
    <3>2. QED
      BY <1>1, <3>1 DEF TypeInv, LocType
  <2>2. \/ lock' = [lock EXCEPT ![a] = Free(version[t][i])]
        \/ lock' = [lock EXCEPT ![a] = Free(loc[t].v)]
        \/ lock' = lock
    BY <1>0, Zenon DEF Drops, RollbackDrop, StmDrop, InstallDrop, i, a
  <2>3. QED
    BY <2>1, <2>2
<1>6. /\ loc'[t] = [loc[t] EXCEPT !.i = i + 1] /\ pc'[t] = label
      /\ \A u \in Tx \ {t} : pc'[u] = pc[u] /\ loc'[u] = loc[u]
  BY <1>1, <1>3, <1>4 DEF TypeInv
<1>7. loc'[t] \in LocType /\ loc'[t].i = i + 1 /\ loc'[t].for = loc[t].for /\ loc'[t].addr = loc[t].addr
      /\ loc'[t].l = loc[t].l
  <2>1. loc[t] \in LocType
    BY <1>1 DEF TypeInv
  <2>2. i + 1 \in Nat \ {0}
    BY <1>2
  <2>3. QED
    BY <1>6, <2>1, <2>2 DEF LocType
<1>8. TypeInv'
  <2>0. label \in CmLabel
    BY DEF CmLabel, InInstall
  <2>1. pc' \in [Tx -> CmLabel]
    BY <1>1, <1>4, <2>0 DEF TypeInv
  <2>4. loc' \in [Tx -> LocType]
    <3>1. loc \in [Tx -> LocType] /\ loc' = [loc EXCEPT ![t] = loc'[t]]
      BY <1>1, <1>3, <1>6 DEF TypeInv
    <3>2. QED
      BY <1>7, <3>1
  <2>2. lock' \in [Addr -> Word]
    <3>1. lock \in [Addr -> Word] /\ Free(v) \in Word
      BY <1>1, NewWords DEF TypeInv
    <3>2. QED
      BY <1>5, <3>1
  <2>3. QED
    BY <1>1, <1>3, <2>1, <2>2, <2>4 DEF TypeInv
<1>9. \A u \in Tx \ {t} : Spared(u)
  BY <1>3, <1>6 DEF Spared
<1>10. Evolves(t)
  <2>1. status[t] \in StatusWord /\ tx[t].gen \in Nat
    BY <1>1 DEF TypeInv, TxType
  <2>2. QED
    BY <1>3, <2>1 DEF Evolves, Kept, StatusWord
<1>11. /\ Passed(t) = i - 1 /\ Passed(t)' = i
       /\ \A u \in Tx \ {t} : Passed(u)' = Passed(u)
  BY <1>2, <1>3, <1>4, <1>6, <1>7 DEF Passed, i
<1>12. LocksKept' /\ \A b \in Addr : Holding(b)'
  <2>1. CASE lock' = [lock EXCEPT ![a] = Free(v)] /\ (Is(t, "KILLED") => lock[a].owner = t)
    BY <1>2, <1>3, <1>11, <2>1, DropLocks, Zenon DEF i, a
  <2>2. CASE StmDrop(t) /\ ~(MyEntry(t, lock[a]) /\ lock[a].i = i)
    <3>1. lock' = lock /\ Is(t, "KILLED")
      BY <1>1, <2>2, Zenon DEF StmDrop, Stage, Is, i, a
    <3>2. LocksKept'
      <4>1. ASSUME NEW u \in Tx, ~Is(u, "KILLED"), NEW j \in Passed(u)' + 1 .. Len(tx[u].w_set)
            PROVE  Points(u, j)'
        <5>1. u # t
          BY <3>1, <4>1
        <5>2. j \in Passed(u) + 1 .. Len(tx[u].w_set)
          BY <1>11, <4>1, <5>1
        <5>3. Points(u, j)
          BY <4>1, <5>2 DEF LockInv, LocksKept
        <5>4. QED
          BY <1>3, <3>1, <5>3 DEF Points, Owned
      <4>2. QED
        BY <1>3, <4>1 DEF LocksKept, Is
    <3>3. ASSUME NEW b \in Addr, ~IsFree(lock[b]) PROVE Holding(b)'
      <4>1. lock[b].owner \in Tx /\ Logged(lock[b], b) /\ lock[b].i > Passed(lock[b].owner) /\ Holding(b)
        BY <1>1, <3>3, Words DEF Holding, LockInv, TypeInv
      <4>2. lock[b].owner = t => lock[b].i # i
        <5>1. SUFFICES ASSUME lock[b].owner = t, lock[b].i = i PROVE FALSE
          OBVIOUS
        <5>2. b = a
          BY <4>1, <5>1 DEF Logged, i, a
        <5>3. MyEntry(t, lock[a])
          BY <1>2, <4>1, <5>1, <5>2 DEF Logged, MyEntry
        <5>4. QED
          BY <2>2, <5>1, <5>2, <5>3
      <4>3. lock[b].i > Passed(lock[b].owner)'
        <5>1. CASE lock[b].owner = t
          <6>1. lock[b].i \in Nat
            BY <1>1, <4>1, <5>1, WriteSet DEF Logged
          <6>2. lock[b].i > i - 1 /\ lock[b].i # i
            BY <1>11, <4>1, <4>2, <5>1
          <6>3. lock[b].i > i
            BY <1>2, <6>1, <6>2
          <6>4. QED
            BY <1>11, <3>1, <5>1, <6>3
        <5>2. CASE lock[b].owner # t
          BY <1>11, <3>1, <4>1, <5>2
        <5>3. QED
          BY <5>1, <5>2
      <4>4. QED
        BY <1>3, <3>1, <4>1, <4>3, Zenon DEF Holding, Logged, IsFree
    <3>4. \A b \in Addr : Holding(b)'
      BY <3>1, <3>3 DEF Holding, IsFree
    <3>5. QED
      BY <3>2, <3>4
  <2>3. CASE StmDrop(t) /\ MyEntry(t, lock[a]) /\ lock[a].i = i
    <3>1. lock' = [lock EXCEPT ![a] = Free(version[t][i])]
      BY <2>3, Zenon DEF StmDrop, i, a
    <3>2. version[t][i] \in Nat
      <4>1. i \in Entry
        BY <1>1, <1>2, InLog
      <4>2. QED
        BY <1>1, <4>1 DEF TypeInv
    <3>3. lock[a].owner = t
      BY <2>3 DEF MyEntry
    <3>4. QED
      BY <1>2, <1>3, <1>11, <3>1, <3>2, <3>3, DropLocks, ZenonT(60) DEF i, a
  <2>4. CASE ~StmDrop(t)
    <3>1. ~Is(t, "KILLED")
      BY <1>1, <2>4, Zenon DEF Drops, RollbackDrop, ReadOnlyDrop, InstallDrop, Stage, Commits, Installs, InInstall, Is
    <3>2. PICK n \in Nat : lock' = [lock EXCEPT ![a] = Free(n)]
      <4>1. version[t][i] \in Nat /\ loc[t].v \in Nat
        <5>1. i \in Entry
          BY <1>1, <1>2, InLog
        <5>2. QED
          BY <1>1, <5>1 DEF TypeInv, LocType
      <4>2. \/ lock' = [lock EXCEPT ![a] = Free(version[t][i])]
            \/ lock' = [lock EXCEPT ![a] = Free(loc[t].v)]
        BY <1>0, <2>4, Zenon DEF Drops, RollbackDrop, InstallDrop, i, a
      <4>3. QED
        BY <4>1, <4>2
    <3>3. QED
      BY <1>2, <1>3, <1>11, <3>1, <3>2, DropLocks, Zenon DEF i, a
  <2>5. QED
    BY <2>2, <2>3, <2>4
<1>13. Stage(t)'
  BY <1>1, <1>3, <1>4, <1>6, <1>7 DEF Stage, Rests, Commits, Accesses, Extends, InAccess, InConflict, InLoad,
     Validates, Installs, InInstall
<1>14. Position(t)'
  BY <1>2, <1>3, <1>6, <1>7 DEF Position
<1>15. Room(t)' /\ Counts(t)'
  BY <1>1, <1>3, <1>4, <1>6 DEF Room, Counts, Rests, Accesses, Extends, InAccess, InConflict, InLoad
<1>16. Purposes(t)' /\ Observes(t)' /\ Steals(t)'
  BY <1>1, <1>6, <1>7 DEF Purposes, Observes, Steals, Accesses, Extends, InAccess, InConflict, InLoad
<1>17. QED
  BY <1>8, <1>9, <1>10, <1>12, <1>13, <1>14, <1>15, <1>16, Compose DEF Mine

\* Whose loop has passed all entries has no lock.
LEMMA NoLocks ==
    ASSUME LockInv, NEW t \in Tx, Passed(t) >= Len(tx[t].w_set), NEW a \in Addr, ~IsFree(lock[a])
    PROVE  lock[a].owner \in Tx /\ lock[a].owner # t
<1>1. TypeInv /\ Holding(a)
  BY DEF LockInv
<1>2. lock[a].owner \in Tx
  BY <1>1, Words DEF TypeInv
<1>3. SUFFICES ASSUME lock[a].owner = t PROVE FALSE
  BY <1>2
<1>4. lock[a].i \in 1 .. Len(tx[t].w_set) /\ lock[a].i > Passed(t) /\ Passed(t) \in Nat /\ Len(tx[t].w_set) \in Nat
  BY <1>1, <1>3, WriteSet DEF Holding, Logged
<1>5. QED
  BY <1>4

\* Such a thread gives its write set back.
LEMMA LocksGone ==
    ASSUME LockInv, NEW t \in Tx, Passed(t) >= Len(tx[t].w_set), lock' = lock, tx'[t].w_set = <<>>,
           Passed(t)' = 0,
           \A u \in Tx \ {t} : tx'[u] = tx[u] /\ Passed(u)' = Passed(u) /\ status'[u] = status[u]
    PROVE  LocksKept' /\ \A a \in Addr : Holding(a)'
<1>1. TypeInv
  BY DEF LockInv
<1>2. ASSUME NEW u \in Tx, ~Is(u, "KILLED")', NEW i \in Passed(u)' + 1 .. Len(tx'[u].w_set)
      PROVE  Points(u, i)'
  <2>1. CASE u = t
    <3>2. Len(tx'[t].w_set) = 0
      OBVIOUS
    <3>3. QED
      BY <1>2, <2>1, <3>2
  <2>2. CASE u # t
    <3>1. Points(u, i)
      BY <1>2, <2>2 DEF LockInv, LocksKept, Is
    <3>2. QED
      BY <2>2, <3>1 DEF Points, Owned
  <2>3. QED
    BY <2>1, <2>2
<1>3. ASSUME NEW a \in Addr, ~IsFree(lock[a]) PROVE Holding(a)'
  <2>1. lock[a].owner \in Tx \ {t}
    BY <1>3, NoLocks
  <2>2. QED
    BY <1>3, <2>1, SMTT(40) DEF LockInv, Holding, Logged, IsFree
<1>4. QED
  BY <1>2, <1>3 DEF LocksKept, Holding, IsFree

LEMMA DroppedStep ==
    ASSUME CountsWrap = FALSE, LockInv, NEW t \in Tx, Dropped(t)
    PROVE  LockInv'
<1>1. TypeInv /\ Stage(t) /\ Position(t) /\ Room(t) /\ Counts(t) /\ Purposes(t)
  BY DEF LockInv, Locals
<1>2. status[t] \in StatusWord /\ tx[t] \in TxType /\ tx[t].gen \in Nat /\ status[t].c \in Nat
  BY <1>1, WriteSet DEF TypeInv
<1>3. /\ lock' = lock /\ mem' = mem /\ clock' = clock /\ version' = version /\ order' = order
      /\ seen' = seen /\ hist' = hist /\ loc' = loc /\ status' = [status EXCEPT ![t].s = "ABORTED"]
  BY DEF Dropped, shared, SetStatus
<1>4. tx[t].gen < status[t].c /\ status[t].c < COUNTER_MAX /\ COUNTER_MAX \in Nat \ {0}
  BY <1>1, CmAssumption DEF Counts, Dropped, Rests, CmAssumption
<1>5. (tx[t].gen + 1) % COUNTER_MAX = tx[t].gen + 1
  BY <1>2, <1>4
<1>6. PICK n \in Nat : /\ n \in {tx[t].gen, tx[t].gen + 1}
                       /\ pc[t] = "drop" /\ tx[t].w_set # <<>> => n = tx[t].gen + 1
                       /\ tx' = [tx EXCEPT ![t].gen = n, ![t].w_set = <<>>, ![t].r_set = <<>>,
                                           ![t].start = 0, ![t].end = 0]
  <2> DEFINE m == IF pc[t] = "drop" /\ tx[t].w_set # <<>> THEN tx[t].gen + 1 ELSE tx[t].gen
  <2>1. tx' = [tx EXCEPT ![t].gen = m, ![t].w_set = <<>>, ![t].r_set = <<>>, ![t].start = 0, ![t].end = 0]
    BY <1>5, Zenon DEF Dropped
  <2>2. m \in Nat
    BY <1>2
  <2>3. /\ m \in {tx[t].gen, tx[t].gen + 1}
        /\ pc[t] = "drop" /\ tx[t].w_set # <<>> => m = tx[t].gen + 1
    OBVIOUS
  <2> HIDE DEF m
  <2>4. QED
    BY <2>1, <2>2, <2>3
<1>7. /\ tx'[t] = [tx[t] EXCEPT !.gen = n, !.w_set = <<>>, !.r_set = <<>>, !.start = 0, !.end = 0]
      /\ \A u \in Tx \ {t} : tx'[u] = tx[u]
  BY <1>1, <1>6 DEF TypeInv
<1>8. tx'[t] \in TxType /\ tx'[t].r_set = <<>> /\ tx'[t].w_set = <<>> /\ tx'[t].gen = n
  <2>1. <<>> \in Seq([addr : Addr, version : Nat]) /\ <<>> \in Seq([addr : Addr, mask : BOOLEAN])
    OBVIOUS
  <2> DEFINE R == Seq([addr : Addr, version : Nat])  W == Seq([addr : Addr, mask : BOOLEAN])
             T == [start : Nat, end : Nat, r_set : R, w_set : W, gen : Nat, visible : BOOLEAN,
                   visible_reads : Nat, retries : {0, 1}, timestamp : Nat, ticket : Nat, nb : Nat]
  <2>2. tx[t] \in T
    BY <1>2 DEF TxType
  <2> DEFINE X(r, w) == [tx[t] EXCEPT !.gen = n, !.w_set = w, !.r_set = r, !.start = 0, !.end = 0]
  <2>3. <<>> \in R /\ <<>> \in W /\ tx'[t] = X(<<>>, <<>>)
    BY <1>7, <2>1
  <2> HIDE DEF R, W
  <2>4. \A r \in R, w \in W : X(r, w) \in T /\ X(r, w).r_set = r /\ X(r, w).w_set = w /\ X(r, w).gen = n
    BY <2>2
  <2> HIDE DEF X, T
  <2>5. tx'[t] \in T /\ tx'[t].r_set = <<>> /\ tx'[t].w_set = <<>> /\ tx'[t].gen = n
    BY <2>3, <2>4
  <2>6. QED
    BY <2>5 DEF TxType, T, R, W
<1>9. PICK label \in {"c_lock", "prepare"} : /\ pc' = [pc EXCEPT ![t] = label]
                                             /\ label = "c_lock" => loc[t].for = "delay"
  BY DEF Dropped, Goto
<1>10. /\ pc'[t] = label /\ \A u \in Tx \ {t} : pc'[u] = pc[u] /\ status'[u] = status[u]
       /\ status'[t] = [status[t] EXCEPT !.s = "ABORTED"]
  BY <1>1, <1>3, <1>9 DEF TypeInv
<1>11. status'[t] \in StatusWord /\ status'[t].s = "ABORTED" /\ status'[t].c = status[t].c
  BY <1>2, <1>10 DEF StatusWord, Status
<1>12. TypeInv'
  <2>1. pc' \in [Tx -> CmLabel] /\ status' \in [Tx -> StatusWord]
    BY <1>1, <1>3, <1>9, <1>10, <1>11 DEF TypeInv, CmLabel
  <2>2. tx' \in [Tx -> TxType]
    BY <1>1, <1>6, <1>7, <1>8 DEF TypeInv
  <2>3. QED
    BY <1>1, <1>3, <2>1, <2>2 DEF TypeInv
<1>13. \A u \in Tx \ {t} : Spared(u)
  BY <1>3, <1>7, <1>10 DEF Spared
<1>14. Evolves(t)
  <2>1. status[t].s \in {"ABORTING", "COMMITTING", "KILLED"} /\ (status[t].s = "KILLED" => pc[t] = "drop")
    BY <1>1 DEF Stage, Dropped
  <2>2. tx[t].gen <= n
    BY <1>2, <1>6
  <2>3. status[t].s = "KILLED" /\ n = tx[t].gen => tx[t].w_set = <<>>
    BY <1>2, <1>6, <2>1
  <2>4. QED
    BY <1>2, <1>8, <1>11, <2>1, <2>2, <2>3 DEF Evolves
<1>15. Passed(t) >= Len(tx[t].w_set)
  <2>1. loc[t].i > Len(tx[t].w_set) /\ Passed(t) = loc[t].i - 1 /\ loc[t].i \in Nat /\ Len(tx[t].w_set) \in Nat
    BY <1>1, WriteSet DEF Dropped, Passed
  <2>2. QED
    BY <2>1
<1>16. Passed(t)' = 0 /\ \A u \in Tx \ {t} : Passed(u)' = Passed(u)
  BY <1>3, <1>7, <1>10 DEF Passed
<1>17. LocksKept' /\ \A a \in Addr : Holding(a)'
  BY <1>3, <1>7, <1>8, <1>10, <1>15, <1>16, LocksGone
<1>18. Stage(t)' /\ Position(t)'
  BY <1>8, <1>10, <1>11 DEF Stage, Position, Rests, Commits, Accesses, Extends, InAccess, InConflict, InLoad,
     Validates, Installs, InInstall
<1>19. Room(t)'
  <2>1. ~Accesses(t)' /\ MaxLog \in Nat
    BY <1>10, CmAssumption DEF CmAssumption, Accesses, Extends, InAccess, InConflict, InLoad
  <2>2. QED
    BY <1>8, <2>1 DEF Room
<1>20. Counts(t)'
  <2>1. Rests(t)'
    BY <1>10 DEF Rests
  <2>2. n <= status[t].c
    BY <1>2, <1>4, <1>6
  <2>3. QED
    BY <1>4, <1>8, <1>11, <2>1, <2>2 DEF Counts
<1>21. Purposes(t)' /\ Observes(t)' /\ Steals(t)'
  BY <1>1, <1>3, <1>9, <1>10 DEF Purposes, Observes, Steals, Accesses, Extends, InAccess, InConflict, InLoad
<1>22. QED
  BY <1>12, <1>13, <1>14, <1>17, <1>18, <1>19, <1>20, <1>21, Compose DEF Mine

LEMMA WaitLockStep ==
    ASSUME LockInv, NEW t \in Tx, WaitLock(t)
    PROVE  LockInv'
<1>1. NoLoc \in LocType /\ NoLoc.for = "none"
  <2>1. loc[t].addr \in Addr
    BY DEF WaitLock, LockInv, Locals, Purposes
  <2>2. Free(0) \in Word /\ "none" \in Purpose
    BY DEF Free, Word, Purpose
  <2>3. QED
    BY <2>1, <2>2, Fresh
<1>2. Turn(t, "prepare", NoLoc) /\ pc[t] = "c_lock"
  BY DEF WaitLock, Turn, Clear
<1>3. "prepare" \in CmLabel /\ NoLoop("prepare") /\ NoLoop(pc[t])
  BY <1>2 DEF CmLabel, NoLoop
<1>4. /\ TypeInv' /\ (\A u \in Tx \ {t} : Spared(u)) /\ Evolves(t)
      /\ LocksKept' /\ (\A a \in Addr : Holding(a)')
      /\ pc'[t] = "prepare" /\ loc'[t] = NoLoc /\ tx'[t] = tx[t] /\ status'[t] = status[t]
  BY <1>1, <1>2, <1>3, TurnFrame
<1>5. Stage(t) /\ Room(t) /\ Counts(t) /\ Rests(t)
  BY <1>2 DEF LockInv, Locals, Rests
<1>6. Stage(t)' /\ Position(t)'
  BY <1>1, <1>4, <1>5 DEF Stage, Position, Rests, Commits, Accesses, Extends, InAccess, InConflict,
     InLoad, Validates, Installs, InInstall
<1>7. Room(t)' /\ Counts(t)'
  BY <1>4, <1>5 DEF Room, Counts, Accesses, Extends, InAccess, InConflict, InLoad, Rests
<1>8. Purposes(t)' /\ Observes(t)' /\ Steals(t)'
  BY <1>1, <1>4 DEF Purposes, Observes, Steals, Accesses, Extends, InAccess, InConflict, InLoad
<1>9. QED
  BY <1>4, <1>6, <1>7, <1>8, Compose DEF Mine

-----------------------------------------------------------------------------
(* Commit *)

Blank(n, m) == [NoTx EXCEPT !.gen = n, !.nb = m]
LEMMA BlankType ==
    ASSUME NEW n \in Nat, NEW m \in Nat
    PROVE  /\ Blank(n, m) \in TxType /\ Blank(n, m).r_set = <<>> /\ Blank(n, m).w_set = <<>>
           /\ Blank(n, m).gen = n /\ Blank(n, m).visible = FALSE
<1> DEFINE R == Seq([addr : Addr, version : Nat])  W == Seq([addr : Addr, mask : BOOLEAN])
           T == [start : Nat, end : Nat, r_set : R, w_set : W, gen : Nat, visible : BOOLEAN,
                 visible_reads : Nat, retries : {0, 1}, timestamp : Nat, ticket : Nat, nb : Nat]
           Z(r, w) == [start |-> 0, end |-> 0, r_set |-> r, w_set |-> w, gen |-> 0, visible |-> FALSE,
                       visible_reads |-> 0, retries |-> 0, timestamp |-> 0, ticket |-> 0, nb |-> 0]
           Y(r, w) == [Z(r, w) EXCEPT !.gen = n, !.nb = m]
<1>1. <<>> \in R /\ <<>> \in W
  OBVIOUS
<1>2. Blank(n, m) = Y(<<>>, <<>>)
  BY DEF Blank, NoTx
<1> HIDE DEF R, W
<1>3. \A r \in R, w \in W : Y(r, w) \in T /\ Y(r, w).r_set = r /\ Y(r, w).w_set = w /\ Y(r, w).gen = n
                            /\ Y(r, w).visible = FALSE
  OBVIOUS
<1> HIDE DEF Y, T, Z
<1>4. /\ Y(<<>>, <<>>) \in T /\ Y(<<>>, <<>>).r_set = <<>> /\ Y(<<>>, <<>>).w_set = <<>>
      /\ Y(<<>>, <<>>).gen = n /\ Y(<<>>, <<>>).visible = FALSE
  BY <1>1, <1>3
<1>5. QED
  BY <1>2, <1>4 DEF TxType, T, R, W

LEMMA CommittedStep ==
    ASSUME LockInv, NEW t \in Tx, Committed(t)
    PROVE  LockInv'
<1>1. TypeInv /\ Stage(t) /\ Position(t) /\ Room(t) /\ Counts(t) /\ Purposes(t)
  BY DEF LockInv, Locals
<1>2. status[t] \in StatusWord /\ tx[t] \in TxType /\ tx[t].gen \in Nat /\ status[t].c \in Nat /\ tx[t].nb \in Nat
  BY <1>1, WriteSet DEF TypeInv, TxType
<1>3. /\ lock' = lock /\ mem' = mem /\ clock' = clock /\ version' = version /\ order' = order
      /\ hist' = hist /\ loc' = [loc EXCEPT ![t] = NoLoc] /\ status' = [status EXCEPT ![t].s = "COMMITTED"]
      /\ seen' = [seen EXCEPT ![t] = {}]
  BY DEF Committed, shared, SetStatus, Clear
<1>4. tx' = [tx EXCEPT ![t] = Blank(tx[t].gen, tx[t].nb)]
  BY DEF Committed, Blank
<1>5. /\ tx'[t] \in TxType /\ tx'[t].r_set = <<>> /\ tx'[t].w_set = <<>> /\ tx'[t].gen = tx[t].gen
      /\ tx'[t].visible = FALSE
      /\ \A u \in Tx \ {t} : tx'[u] = tx[u]
  <2>1. tx'[t] = Blank(tx[t].gen, tx[t].nb) /\ \A u \in Tx \ {t} : tx'[u] = tx[u]
    BY <1>1, <1>4 DEF TypeInv
  <2> DEFINE b == Blank(tx[t].gen, tx[t].nb)
  <2>2. b \in TxType /\ b.r_set = <<>> /\ b.w_set = <<>> /\ b.gen = tx[t].gen /\ b.visible = FALSE
    <3>1. tx[t].gen \in Nat /\ tx[t].nb \in Nat
      BY <1>2
    <3> HIDE <1>1, <1>2
    <3>2. QED
      BY <3>1, BlankType, ZenonT(60)
  <2>3. tx'[t] = b
    BY <2>1
  <2> HIDE DEF b
  <2>4. QED
    BY <2>1, <2>2, <2>3, Zenon
<1>6. PICK label \in {"on_commit", "idle"} : pc' = [pc EXCEPT ![t] = label]
  BY DEF Committed, Goto
<1>7. /\ pc'[t] = label /\ \A u \in Tx \ {t} : pc'[u] = pc[u] /\ status'[u] = status[u] /\ loc'[u] = loc[u]
      /\ status'[t] = [status[t] EXCEPT !.s = "COMMITTED"] /\ loc'[t] = NoLoc
  BY <1>1, <1>3, <1>6 DEF TypeInv
<1>8. status'[t] \in StatusWord /\ status'[t].s = "COMMITTED" /\ status'[t].c = status[t].c
  BY <1>2, <1>7 DEF StatusWord, Status
<1>9. NoLoc \in LocType /\ NoLoc.for = "none"
  <2>1. Free(0) \in Word
    BY DEF Free, Word
  <2>2. QED
    BY <2>1 DEF NoLoc, LocType, AnyAddr, StatusWord, Status, Purpose
<1>10. TypeInv'
  <2>1. pc' \in [Tx -> CmLabel] /\ status' \in [Tx -> StatusWord] /\ loc' \in [Tx -> LocType]
    BY <1>1, <1>3, <1>6, <1>7, <1>8, <1>9 DEF TypeInv, CmLabel
  <2>2. tx' \in [Tx -> TxType] /\ seen' \in [Tx -> SUBSET [addr : Addr, value : Nat]]
    BY <1>1, <1>3, <1>4, <1>5 DEF TypeInv
  <2>3. QED
    BY <1>1, <1>3, <2>1, <2>2 DEF TypeInv
<1>11. \A u \in Tx \ {t} : Spared(u)
  BY <1>3, <1>5, <1>7 DEF Spared
<1>12. status[t].s = "COMMITTING"
  BY <1>1 DEF Stage, Committed, Commits, Installs, InInstall
<1>13. Evolves(t)
  BY <1>2, <1>5, <1>8, <1>12 DEF Evolves
<1>14. Passed(t) >= Len(tx[t].w_set)
  <2>1. loc[t].i \in Nat /\ Len(tx[t].w_set) \in Nat
    BY <1>1, WriteSet
  <2>2. QED
    BY <2>1 DEF Committed, Passed
<1>15. Passed(t)' = 0 /\ \A u \in Tx \ {t} : Passed(u)' = Passed(u)
  BY <1>3, <1>5, <1>7 DEF Passed
<1>16. LocksKept' /\ \A a \in Addr : Holding(a)'
  BY <1>3, <1>5, <1>7, <1>14, <1>15, LocksGone
<1>17. Stage(t)' /\ Position(t)'
  BY <1>5, <1>7, <1>8 DEF Stage, Position, Rests, Commits, Accesses, Extends, InAccess, InConflict, InLoad,
     Validates, Installs, InInstall
<1>18. Room(t)'
  <2>1. ~Accesses(t)' /\ MaxLog \in Nat
    BY <1>7, CmAssumption DEF CmAssumption, Accesses, Extends, InAccess, InConflict, InLoad
  <2>2. QED
    BY <1>5, <2>1 DEF Room
<1>19. Counts(t)'
  BY <1>1, <1>5, <1>7, <1>8 DEF Counts, Rests
<1>20. Purposes(t)' /\ Observes(t)' /\ Steals(t)'
  BY <1>7, <1>9 DEF Purposes, Observes, Steals, Accesses, Extends, InAccess, InConflict, InLoad
<1>21. QED
  BY <1>10, <1>11, <1>13, <1>16, <1>17, <1>18, <1>19, <1>20, Compose DEF Mine

\* What the commit, its validation and the write-back change besides the locks: the own
\* label and place, the own status (which becomes COMMITTING), memory, clock and history.
LEMMA Advance ==
    ASSUME LockInv, NEW t \in Tx, NEW label \in CmLabel, NEW x \in LocType, NEW s \in Status,
           pc' = [pc EXCEPT ![t] = label], loc' = [loc EXCEPT ![t] = x], status' = [status EXCEPT ![t].s = s],
           s = status[t].s \/ (s = "COMMITTING" /\ status[t].s = "ACTIVE"), status[t].s # "ABORTED",
           lock' = lock, version' = version, order' = order, tx' = tx, seen' = seen,
           mem' \in [Addr -> Nat], clock' \in Nat, hist' \in [Addr -> SUBSET Nat],
           x.addr = loc[t].addr, x.l = loc[t].l,
           Passed(t)' = Passed(t), Stage(t)', Position(t)', ~Rests(t), Accesses(t)' => Accesses(t),
           Purposes(t)', label \notin {"cm_lock", "cm_decide", "kill", "steal", "vis_value", "acquire_cas"}
    PROVE  LockInv'
<1>1. TypeInv /\ Room(t) /\ Counts(t)
  BY DEF LockInv, Locals
<1>2. /\ pc'[t] = label /\ loc'[t] = x /\ status'[t] = [status[t] EXCEPT !.s = s]
      /\ \A u \in Tx \ {t} : pc'[u] = pc[u] /\ loc'[u] = loc[u] /\ status'[u] = status[u]
  BY <1>1 DEF TypeInv
<1>3. status[t] \in StatusWord /\ status'[t] \in StatusWord /\ status'[t].s = s /\ status'[t].c = status[t].c
      /\ tx[t].gen \in Nat
  <2>1. status[t] \in StatusWord /\ tx[t].gen \in Nat
    BY <1>1, WriteSet DEF TypeInv
  <2>2. QED
    BY <1>2, <2>1 DEF StatusWord
<1>4. TypeInv'
  <2>1. pc' \in [Tx -> CmLabel] /\ status' \in [Tx -> StatusWord] /\ loc' \in [Tx -> LocType]
    BY <1>1, <1>2, <1>3 DEF TypeInv
  <2>2. QED
    BY <1>1, <2>1 DEF TypeInv
<1>5. \A u \in Tx \ {t} : Spared(u)
  BY <1>2 DEF Spared
<1>6. Evolves(t)
  <2>1. Kept(t) /\ status[t].c \in Nat
    BY <1>1, WriteSet DEF Kept
  <2>2. QED
    BY <1>3, <2>1 DEF Evolves
<1>7. \A u \in Tx : /\ Passed(u)' = Passed(u) /\ tx'[u].w_set = tx[u].w_set /\ tx'[u].gen = tx[u].gen
                    /\ (Is(u, "KILLED") => Is(u, "KILLED")')
  BY <1>2, <1>3 DEF Passed, Is
<1>8. LocksKept' /\ \A a \in Addr : Holding(a)'
  BY <1>7, LocksStay
<1>9. Room(t)' /\ Counts(t)'
  BY <1>1, <1>3 DEF Room, Counts
<1>10. Observes(t)' /\ Steals(t)'
  BY <1>2 DEF Observes, Steals
<1>11. QED
  BY <1>4, <1>5, <1>6, <1>8, <1>9, <1>10, Compose DEF Mine

LEMMA CommitTurns ==
    ASSUME LockInv, NEW t \in Tx, Commit(t) \/ mod_order_on_precommit(t)
    PROVE  LockInv'
<1>1. TypeInv /\ Stage(t) /\ Position(t) /\ Purposes(t)
  BY DEF LockInv, Locals
<1>2. PICK label \in {"precommit", "commit_cas"} : pc' = [pc EXCEPT ![t] = label]
  BY DEF Commit, mod_order_on_precommit, Goto
<1>3. /\ lock' = lock /\ mem' = mem /\ clock' = clock /\ status' = status /\ version' = version
      /\ order' = order /\ tx' = tx /\ seen' = seen /\ hist' = hist /\ loc' = loc
      /\ pc[t] \in {"active", "precommit"}
  BY DEF Commit, mod_order_on_precommit, shared
<1>4. /\ loc' = [loc EXCEPT ![t] = loc[t]] /\ loc[t] \in LocType
      /\ status' = [status EXCEPT ![t].s = status[t].s] /\ status[t].s \in {"ACTIVE", "KILLED"}
      /\ pc'[t] = label /\ label \in CmLabel
  BY <1>1, <1>2, <1>3 DEF TypeInv, StatusWord, Stage, CmLabel
<1>5. loc[t].i = 1
  <2>1. pc[t] = "active" => tx[t].r_set # <<>> \/ tx[t].w_set # <<>>
    <3>1. ASSUME tx[t].r_set = <<>>, tx[t].w_set = <<>> PROVE tx[t].r_set \o tx[t].w_set = <<>>
      BY <3>1
    <3>2. QED
      BY <3>1 DEF Commit, mod_order_on_precommit
  <2>2. QED
    BY <1>1, <1>3, <2>1 DEF Position
<1>6. Passed(t)' = Passed(t) /\ ~Rests(t) /\ ~Accesses(t)'
  BY <1>3, <1>4 DEF Passed, Rests, Accesses, Extends, InAccess, InConflict, InLoad
<1>7. Stage(t)'
  BY <1>3, <1>4 DEF Stage, Rests, Commits, Accesses, Extends, InAccess, InConflict, InLoad,
     Validates, Installs, InInstall
<1>8. Position(t)'
  BY <1>3, <1>4, <1>5 DEF Position
<1>9. Purposes(t)'
  BY <1>1, <1>3, <1>4 DEF Purposes, Accesses, Extends, InAccess, InConflict, InLoad
<1>10. mem' \in [Addr -> Nat] /\ clock' \in Nat /\ hist' \in [Addr -> SUBSET Nat] /\ status[t].s \in Status
  BY <1>1, <1>3, <1>4 DEF TypeInv, Status
<1>11. QED
  BY <1>2, <1>3, <1>4, <1>6, <1>7, <1>8, <1>9, <1>10, Advance

LEMMA CommitCasStep ==
    ASSUME LockInv, NEW t \in Tx, CommitCas(t)
    PROVE  LockInv'
<1>1. TypeInv /\ Stage(t) /\ Position(t) /\ Purposes(t)
  BY DEF LockInv, Locals
<1>2. CASE Is(t, "KILLED")
  <2>1. Rollback(t, FALSE, FALSE) /\ MayAbort(t)
    BY <1>2 DEF CommitCas, MayAbort
  <2>2. QED
    BY <2>1, RollbackStep
<1>3. CASE ~Is(t, "KILLED")
  <2>1. PICK label \in {"end", "commit_clock", "ro_drop"} :
          pc' = [pc EXCEPT ![t] = label] /\ (label = "end" => tx[t].w_set = <<>>)
    <3>1. CASE tx[t].w_set = <<>>
      BY <1>3, <3>1 DEF CommitCas, Goto
    <3>2. CASE tx[t].w_set # <<>> /\ HasWrites(t)
      BY <1>3, <3>2 DEF CommitCas, Goto
    <3>3. CASE tx[t].w_set # <<>> /\ ~HasWrites(t)
      BY <1>3, <3>3 DEF CommitCas, Goto
    <3>4. QED
      BY <3>1, <3>2, <3>3
  <2>2. /\ lock' = lock /\ mem' = mem /\ clock' = clock /\ version' = version
        /\ order' = order /\ tx' = tx /\ seen' = seen /\ hist' = hist /\ loc' = loc
        /\ status' = [status EXCEPT ![t].s = "COMMITTING"] /\ pc[t] = "commit_cas"
    BY <1>3 DEF CommitCas, shared, SetStatus
  <2>3. /\ loc' = [loc EXCEPT ![t] = loc[t]] /\ loc[t] \in LocType /\ status[t].s = "ACTIVE"
        /\ pc'[t] = label /\ label \in CmLabel /\ loc[t].i = 1 /\ "COMMITTING" \in Status
        /\ status'[t].s = "COMMITTING"
    BY <1>1, <1>3, <2>1, <2>2 DEF TypeInv, StatusWord, Stage, CmLabel, Is, Position, Status
  <2>4. tx[t].w_set = <<>> => Len(tx[t].w_set) = 0
    OBVIOUS
  <2>5. Passed(t)' = Passed(t) /\ ~Rests(t) /\ ~Accesses(t)'
    BY <2>1, <2>2, <2>3, <2>4 DEF Passed, Rests, Accesses, Extends, InAccess, InConflict, InLoad
  <2>6. Stage(t)'
    BY <2>2, <2>3 DEF Stage, Rests, Commits, Accesses, Extends, InAccess, InConflict, InLoad,
       Validates, Installs, InInstall
  <2>7. Position(t)'
    <3>1. Len(tx[t].w_set) \in Nat
      BY <1>1, WriteSet
    <3>2. QED
      BY <2>2, <2>3, <3>1 DEF Position
  <2>8. Purposes(t)'
    BY <1>1, <2>2, <2>3 DEF Purposes, Accesses, Extends, InAccess, InConflict, InLoad
  <2>9. mem' \in [Addr -> Nat] /\ clock' \in Nat /\ hist' \in [Addr -> SUBSET Nat]
    BY <1>1, <2>2 DEF TypeInv
  <2>10. QED
    BY <2>2, <2>1, <2>3, <2>5, <2>6, <2>7, <2>8, <2>9, Advance
<1>4. QED
  BY <1>2, <1>3

\* The end of a commit that only drops locks, and the write-back of a word.
LEMMA InstallStep ==
    ASSUME LockInv, NEW t \in Tx, Install(t) \/ (ReadOnlyDrop(t) /\ loc[t].i > Len(tx[t].w_set))
    PROVE  LockInv'
<1>1. TypeInv /\ Stage(t) /\ Position(t) /\ Purposes(t)
  BY DEF LockInv, Locals
<1>2. Len(tx[t].w_set) \in Nat /\ loc[t].i \in Nat /\ loc[t].i > 0
  BY <1>1, WriteSet
<1>3. /\ lock' = lock /\ version' = version /\ order' = order /\ tx' = tx /\ seen' = seen /\ hist' = hist
      /\ loc' = loc /\ status' = status
  <2>1. CASE Install(t)
    BY <2>1 DEF Install
  <2>2. CASE ReadOnlyDrop(t) /\ loc[t].i > Len(tx[t].w_set)
    <3>1. ~(loc[t].i <= Len(tx[t].w_set))
      BY <1>2, <2>2
    <3>2. QED
      BY <2>2, <3>1, Zenon DEF ReadOnlyDrop
  <2>3. QED
    BY <2>1, <2>2
<1>4. PICK label \in {"install_drop", "end"} :
        /\ pc' = [pc EXCEPT ![t] = label]
        /\ label = "install_drop" => pc[t] = "install" /\ loc[t].i <= Len(tx[t].w_set)
        /\ label = "end" => pc[t] = "ro_drop" /\ loc[t].i > Len(tx[t].w_set)
  <2>1. CASE Install(t)
    <3>1. pc' = [pc EXCEPT ![t] = "install_drop"] /\ pc[t] = "install" /\ loc[t].i <= Len(tx[t].w_set)
      BY <2>1 DEF Install, Goto
    <3>2. QED
      BY <3>1
  <2>2. CASE ReadOnlyDrop(t) /\ loc[t].i > Len(tx[t].w_set)
    <3>1. ~(loc[t].i <= Len(tx[t].w_set))
      BY <1>2, <2>2
    <3>2. pc' = [pc EXCEPT ![t] = "end"] /\ pc[t] = "ro_drop"
      BY <2>2, <3>1, Zenon DEF ReadOnlyDrop, Goto
    <3>3. QED
      BY <2>2, <3>2
  <2>3. QED
    BY <2>1, <2>2
<1>5. mem' \in [Addr -> Nat] /\ clock' \in Nat /\ hist' \in [Addr -> SUBSET Nat]
  <2>1. loc[t].v \in Nat /\ mem \in [Addr -> Nat] /\ clock \in Nat /\ hist \in [Addr -> SUBSET Nat]
    BY <1>1 DEF TypeInv, LocType
  <2>2. CASE Install(t)
    BY <1>3, <2>1, <2>2 DEF Install
  <2>3. CASE ReadOnlyDrop(t) /\ loc[t].i > Len(tx[t].w_set)
    BY <1>2, <1>3, <2>1, <2>3 DEF ReadOnlyDrop
  <2>4. QED
    BY <2>2, <2>3
<1>6. /\ loc' = [loc EXCEPT ![t] = loc[t]] /\ loc[t] \in LocType /\ status[t].s = "COMMITTING"
      /\ pc'[t] = label /\ label \in CmLabel /\ status[t].s \in Status
      /\ status' = [status EXCEPT ![t].s = status[t].s]
  BY <1>1, <1>3, <1>4 DEF TypeInv, StatusWord, Stage, CmLabel, Commits, Installs, InInstall, Status
<1>7. Passed(t)' = Passed(t)
  <2>1. label = "end" => loc[t].i = Len(tx[t].w_set) + 1
    BY <1>1, <1>2, <1>4 DEF Position
  <2>2. QED
    BY <1>2, <1>3, <1>4, <1>6, <2>1 DEF Passed
<1>8. ~Rests(t) /\ ~Accesses(t)'
  BY <1>4, <1>6 DEF Rests, Accesses, Extends, InAccess, InConflict, InLoad
<1>9. Stage(t)' /\ Position(t)'
  BY <1>3, <1>4, <1>6 DEF Position, Stage, Rests, Commits, Accesses, Extends, InAccess, InConflict, InLoad,
     Validates, Installs, InInstall
<1>10. Purposes(t)'
  BY <1>1, <1>3, <1>6 DEF Purposes, Accesses, Extends, InAccess, InConflict, InLoad
<1>11. QED
  BY <1>3, <1>4, <1>5, <1>6, <1>7, <1>8, <1>9, <1>10, Advance

\* The timestamp, the end of the validation.
LEMMA StampStep ==
    ASSUME LockInv, NEW t \in Tx, CommitClock(t) \/ CommitValidated(t)
    PROVE  LockInv'
<1>1. TypeInv /\ Stage(t) /\ Position(t) /\ Purposes(t)
  BY DEF LockInv, Locals
<1>2. Len(tx[t].w_set) \in Nat /\ loc[t] \in LocType /\ clock \in Nat
  BY <1>1, WriteSet DEF TypeInv
<1>3. /\ lock' = lock /\ version' = version /\ order' = order /\ tx' = tx /\ seen' = seen /\ mem' = mem
      /\ status' = status
  BY DEF CommitClock, CommitValidated, shared
<1>4. PICK label \in {"install", "validate"}, v \in Nat, for \in Purpose :
        /\ pc' = [pc EXCEPT ![t] = label]
        /\ loc' = [loc EXCEPT ![t].i = 1, ![t].v = v, ![t].for = for]
        /\ label = "validate" => for = "commit"
        /\ for \in {"commit", loc[t].for}
        /\ label = "install" => \/ hist' = hist
                                \/ hist' = [a \in Addr |-> hist[a] \cup
                                     {v : j \in {i \in DOMAIN tx[t].w_set : tx[t].w_set[i].addr = a
                                                                             /\ tx[t].w_set[i].mask}}]
        /\ label = "validate" => hist' = hist
        /\ pc[t] = "commit_clock" \/ (pc[t] = "validate" /\ loc[t].for = "commit")
  <2>1. loc[t].for \in Purpose /\ loc[t].v \in Nat
    BY <1>2 DEF LocType
  <2>2. ASSUME NEW n \in Nat PROVE [loc EXCEPT ![t].i = 1, ![t].v = n]
                                     = [loc EXCEPT ![t].i = 1, ![t].v = n, ![t].for = loc[t].for]
    BY <1>1, <1>2 DEF TypeInv, LocType
  <2>3. CASE CommitClock(t) /\ tx[t].start = clock
    <3>1. StartInstall(t, clock + 1) /\ pc[t] = "commit_clock"
      BY <2>3 DEF CommitClock
    <3>2. clock + 1 \in Nat /\ loc' = [loc EXCEPT ![t].i = 1, ![t].v = clock + 1]
      BY <1>2, <3>1 DEF StartInstall
    <3>3. loc' = [loc EXCEPT ![t].i = 1, ![t].v = clock + 1, ![t].for = loc[t].for]
      BY <2>2, <3>2
    <3>4. QED
      BY <2>1, <3>1, <3>2, <3>3 DEF StartInstall, Goto
  <2>4. CASE CommitClock(t) /\ tx[t].start # clock
    <3>1. "commit" \in Purpose /\ clock + 1 \in Nat
      BY <1>2 DEF Purpose
    <3>2. QED
      BY <2>4, <3>1 DEF CommitClock, Goto
  <2>5. CASE CommitValidated(t)
    <3>1. loc' = [loc EXCEPT ![t].i = 1, ![t].v = loc[t].v, ![t].for = loc[t].for]
      BY <2>1, <2>2, <2>5 DEF CommitValidated, StartInstall
    <3>2. QED
      BY <2>1, <2>5, <3>1 DEF CommitValidated, StartInstall, Goto
  <2>6. QED
    BY <2>3, <2>4, <2>5
<1> DEFINE x == [loc[t] EXCEPT !.i = 1, !.v = v, !.for = for]
<1>5. /\ x \in LocType /\ x.i = 1 /\ x.v = v /\ x.for = for /\ x.addr = loc[t].addr /\ x.l = loc[t].l
  <2>1. 1 \in Nat \ {0} /\ v \in Nat /\ for \in Purpose
    OBVIOUS
  <2>2. QED
    BY <1>2, <2>1 DEF LocType
<1>6. loc' = [loc EXCEPT ![t] = x]
  BY <1>1, <1>2, <1>4 DEF TypeInv
<1> HIDE DEF x
<1>7. mem' \in [Addr -> Nat] /\ clock' \in Nat
  BY <1>1, <1>2, <1>3 DEF TypeInv, CommitClock, CommitValidated, shared
<1>8. hist' \in [Addr -> SUBSET Nat]
  BY <1>1, <1>4 DEF TypeInv
<1>9. /\ status[t].s = "COMMITTING" /\ pc'[t] = label /\ label \in CmLabel /\ status[t].s \in Status
      /\ status' = [status EXCEPT ![t].s = status[t].s] /\ loc'[t] = x
  <2>1. status[t].s = "COMMITTING"
    BY <1>1, <1>4 DEF Stage, Commits, Validates
  <2>2. status[t] \in StatusWord
    BY <1>1 DEF TypeInv
  <2>3. status = [status EXCEPT ![t].s = status[t].s] /\ status[t].s \in Status
    BY <1>1, <2>2 DEF TypeInv, StatusWord
  <2>4. pc'[t] = label /\ label \in CmLabel /\ loc'[t] = x
    BY <1>1, <1>4, <1>6 DEF TypeInv, CmLabel, InInstall
  <2>5. QED
    BY <1>3, <2>1, <2>3, <2>4
<1>10. Passed(t)' = Passed(t) /\ ~Rests(t) /\ ~Accesses(t)'
  BY <1>4, <1>5, <1>9 DEF Passed, Rests, Accesses, Extends, InAccess, InConflict, InLoad
<1>11. Stage(t)' /\ Position(t)'
  BY <1>2, <1>3, <1>4, <1>5, <1>9 DEF Position, Stage, Rests, Commits, Accesses, Extends, InAccess, InConflict, InLoad,
     Validates, Installs, InInstall
<1>12. Purposes(t)'
  <2>1. /\ pc'[t] \notin InConflict \cup InLoad \cup InAccess
        /\ pc'[t] \notin {"c_lock", "again", "vis_value", "acquire_cas", "load_version", "upgrade"}
    BY <1>4, <1>9 DEF InAccess, InConflict, InLoad
  <2>2. loc'[t].addr = loc[t].addr /\ (loc'[t].for = "delay" => loc[t].for = "delay")
    BY <1>4, <1>5, <1>9
  <2>3. loc'[t].for = "delay" => loc'[t].addr \in Addr
    BY <1>1, <2>2 DEF Purposes
  <2>4. QED
    BY <1>10, <2>1, <2>3 DEF Purposes
<1>13. label \notin {"cm_lock", "cm_decide", "kill", "steal", "vis_value", "acquire_cas"}
  OBVIOUS
<1>14. PICK s \in Status : s = status[t].s
  BY <1>9
<1>15. label \in CmLabel /\ x \in LocType /\ s \in Status
  BY <1>5, <1>9, <1>14
<1>16. /\ pc' = [pc EXCEPT ![t] = label] /\ loc' = [loc EXCEPT ![t] = x]
       /\ status' = [status EXCEPT ![t].s = s] /\ s = status[t].s /\ status[t].s # "ABORTED"
       /\ x.addr = loc[t].addr /\ x.l = loc[t].l
  BY <1>4, <1>5, <1>6, <1>9, <1>14
<1>17. QED
  BY <1>3, <1>7, <1>8, <1>10, <1>11, <1>12, <1>13, <1>15, <1>16, Advance, Zenon

-----------------------------------------------------------------------------
(* Validation, and the end of a load *)

LEMMA ValidateStep ==
    ASSUME LockInv, NEW t \in Tx, Validate(t)
    PROVE  LockInv'
<1> DEFINE x == [loc[t] EXCEPT !.i = loc[t].i + 1]
<1>1. TypeInv /\ Stage(t) /\ Position(t) /\ Purposes(t) /\ pc[t] = "validate" /\ loc[t] \in LocType
  BY DEF LockInv, Locals, Validate, TypeInv
<1>2. loc[t].for \in {"extend", "commit"}
  BY <1>1 DEF Stage
<1>3. CASE Rollback(t, TRUE, FALSE)
  BY <1>1, <1>2, <1>3, RollbackStep DEF MayAbort, Accesses, Extends, Validates
<1>4. CASE UNCHANGED <<shared, status, tx, pc, seen, hist>> /\ loc' = [loc EXCEPT ![t].i = loc[t].i + 1]
  <2>1. /\ x \in LocType /\ x.for = loc[t].for /\ x.addr = loc[t].addr /\ x.l = loc[t].l
    <3>1. loc[t].i + 1 \in Nat \ {0}
      BY <1>1, WriteSet
    <3>2. QED
      BY <1>1, <3>1 DEF LocType
  <2>2. loc' = [loc EXCEPT ![t] = x] /\ pc' = [pc EXCEPT ![t] = "validate"] /\ status = [status EXCEPT ![t].s = status[t].s]
    <3>1. status[t] \in StatusWord
      BY <1>1 DEF TypeInv
    <3>2. status = [status EXCEPT ![t].s = status[t].s]
      BY <1>1, <3>1 DEF TypeInv, StatusWord
    <3>3. QED
      BY <1>1, <1>4, <3>2 DEF TypeInv
  <2> HIDE DEF x
  <2>3. pc'[t] = "validate" /\ loc'[t] = x /\ "validate" \in CmLabel
    BY <1>1, <2>2 DEF TypeInv, CmLabel
  <2>4. CASE loc[t].for = "extend"
    <3>1. Turn(t, "validate", x)
      BY <1>4, <2>2 DEF Turn, Goto
    <3>2. Accesses(t)
      BY <1>1, <2>4 DEF Accesses, Extends
    <3>3. Purposes(t)'
      BY <1>1, <2>1, <2>3, <2>4, <3>2 DEF Purposes, InAccess, InConflict, InLoad
    <3>4. Observes(t)' /\ Steals(t)'
      BY <2>3 DEF Observes, Steals
    <3>5. QED
      BY <2>1, <2>3, <2>4, <3>1, <3>2, <3>3, <3>4, TurnAccess
  <2>5. CASE loc[t].for = "commit"
    <3>1. /\ lock' = lock /\ version' = version /\ order' = order /\ tx' = tx /\ seen' = seen
          /\ mem' = mem /\ clock' = clock /\ hist' = hist /\ status' = status
      BY <1>4 DEF shared
    <3>2. status[t].s = "COMMITTING" /\ ~Rests(t) /\ ~Accesses(t)' /\ Passed(t)' = Passed(t)
      BY <1>1, <2>1, <2>3, <2>5, <3>1 DEF Stage, Commits, Validates, Rests, Accesses, Extends, InAccess, InConflict, InLoad, Passed
    <3>3. Stage(t)' /\ Position(t)'
      BY <1>1, <2>1, <2>3, <2>5, <3>1, <3>2 DEF Stage, Position, Rests, Commits, Accesses, Extends,
         InAccess, InConflict, InLoad, Validates, Installs, InInstall
    <3>4. Purposes(t)'
      BY <1>1, <2>1, <2>3, <2>5, <3>2 DEF Purposes, InAccess, InConflict, InLoad
    <3>5. mem' \in [Addr -> Nat] /\ clock' \in Nat /\ hist' \in [Addr -> SUBSET Nat] /\ status[t].s \in Status
      BY <1>1, <3>1, <3>2 DEF TypeInv, Status
    <3>6. status' = [status EXCEPT ![t].s = status[t].s]
      BY <2>2, <3>1
    <3>7. QED
      BY <2>1, <2>2, <2>3, <3>1, <3>2, <3>3, <3>4, <3>5, <3>6, Advance
  <2>6. QED
    BY <1>2, <2>4, <2>5
<1>5. QED
  BY <1>3, <1>4 DEF Validate

\* A step that changes the own descriptor, but not its write set.
LEMMA OwnTx ==
    ASSUME LockInv, NEW t \in Tx, NEW label \in {"active", "recheck"}, NEW x \in LocType,
           pc' = [pc EXCEPT ![t] = label], loc' = [loc EXCEPT ![t] = x],
           UNCHANGED <<lock, mem, clock, status, version, order, hist>>,
           tx' \in [Tx -> TxType], \A u \in Tx \ {t} : tx'[u] = tx[u],
           tx'[t].w_set = tx[t].w_set, tx'[t].gen = tx[t].gen, tx'[t].visible = tx[t].visible,
           seen' \in [Tx -> SUBSET [addr : Addr, value : Nat]],
           Accesses(t), x.i = 1, label = "recheck" => x.addr = loc[t].addr /\ x.for = "extend",
           label = "active" => x.for = "none",
           Room(t)'
    PROVE  LockInv'
<1>1. TypeInv /\ Stage(t) /\ Counts(t) /\ Purposes(t) /\ pc'[t] = label /\ loc'[t] = x
      /\ \A u \in Tx \ {t} : pc'[u] = pc[u] /\ loc'[u] = loc[u]
  BY DEF LockInv, Locals, TypeInv
<1>2. TypeInv'
  <2>1. label \in CmLabel
    BY DEF CmLabel, InAccess, InLoad
  <2>2. pc' \in [Tx -> CmLabel] /\ loc' \in [Tx -> LocType]
    BY <1>1, <2>1 DEF TypeInv
  <2>3. QED
    BY <1>1, <2>2 DEF TypeInv
<1>3. \A u \in Tx \ {t} : Spared(u)
  BY <1>1 DEF Spared
<1>4. Evolves(t)
  <2>1. status[t].c \in Nat /\ tx[t].gen \in Nat /\ Kept(t)
    BY <1>1, WriteSet DEF Kept
  <2>2. QED
    BY <2>1 DEF Evolves
<1>5. \A u \in Tx : /\ Passed(u)' = Passed(u) /\ tx'[u].w_set = tx[u].w_set /\ tx'[u].gen = tx[u].gen
                    /\ (Is(u, "KILLED") => Is(u, "KILLED")')
  BY <1>1 DEF Passed, Is, Accesses, Extends, InAccess, InConflict, InLoad
<1>6. LocksKept' /\ \A a \in Addr : Holding(a)'
  BY <1>5, LocksStay
<1>7. Stage(t)' /\ Position(t)'
  BY <1>1 DEF Stage, Position, Rests, Commits, Accesses, Extends,
     InAccess, InConflict, InLoad, Validates, Installs, InInstall
<1>8. Counts(t)'
  BY <1>1 DEF Counts, Rests, Accesses, Extends, InAccess, InConflict, InLoad
<1>9. Purposes(t)' /\ Observes(t)' /\ Steals(t)'
  BY <1>1 DEF Purposes, Observes, Steals, Accesses, Extends, InAccess, InConflict, InLoad
<1>10. QED
  BY <1>2, <1>3, <1>4, <1>6, <1>7, <1>8, <1>9, Compose DEF Mine

LEMMA LogStep ==
    ASSUME LockInv, NEW t \in Tx, Accesses(t), Log(t)
    PROVE  LockInv'
<1> DEFINE e == [addr |-> loc[t].addr, version |-> loc[t].v]  r == Append(tx[t].r_set, e)
<1>1. TypeInv /\ Room(t) /\ Purposes(t) /\ loc[t].addr \in Addr /\ tx[t] \in TxType
      /\ loc[t].v \in Nat /\ loc[t].value \in Nat
  BY DEF LockInv, Locals, Purposes, TypeInv, LocType
<1>2. tx' = [tx EXCEPT ![t].r_set = r]
  BY DEF Log
<1>3. r \in Seq([addr : Addr, version : Nat]) /\ Len(r) = Len(tx[t].r_set) + 1
  <2>1. tx[t].r_set \in Seq([addr : Addr, version : Nat]) /\ e \in [addr : Addr, version : Nat]
    BY <1>1 DEF TxType
  <2> HIDE DEF e
  <2>2. QED
    BY <2>1
<1> HIDE DEF r
<1>4. tx'[t] = [tx[t] EXCEPT !.r_set = r] /\ \A u \in Tx \ {t} : tx'[u] = tx[u]
  BY <1>1, <1>2 DEF TypeInv
<1>5. /\ tx'[t] \in TxType /\ tx'[t].w_set = tx[t].w_set /\ tx'[t].gen = tx[t].gen /\ tx'[t].r_set = r
      /\ tx'[t].visible = tx[t].visible
  <2> DEFINE R == Seq([addr : Addr, version : Nat])  W == Seq([addr : Addr, mask : BOOLEAN])
             T == [start : Nat, end : Nat, r_set : R, w_set : W, gen : Nat, visible : BOOLEAN,
                   visible_reads : Nat, retries : {0, 1}, timestamp : Nat, ticket : Nat, nb : Nat]
  <2>1. tx[t] \in T /\ r \in R
    BY <1>1, <1>3 DEF TxType
  <2> HIDE DEF R, W
  <2>2. tx'[t] \in T /\ tx'[t].w_set = tx[t].w_set /\ tx'[t].gen = tx[t].gen /\ tx'[t].r_set = r
        /\ tx'[t].visible = tx[t].visible
    BY <1>4, <2>1
  <2>3. QED
    BY <2>2 DEF TxType, R, W
<1>6. tx' \in [Tx -> TxType]
  BY <1>1, <1>2, <1>4, <1>5 DEF TypeInv
<1>7. seen' \in [Tx -> SUBSET [addr : Addr, value : Nat]]
  <2>1. [addr |-> loc[t].addr, value |-> loc[t].value] \in [addr : Addr, value : Nat]
    BY <1>1
  <2>2. seen' = [seen EXCEPT ![t] = seen[t] \cup {[addr |-> loc[t].addr, value |-> loc[t].value]}]
    BY DEF Log
  <2>3. QED
    BY <1>1, <2>1, <2>2 DEF TypeInv
<1>8. Room(t)'
  <2>1. Len(tx[t].r_set) + Len(tx[t].w_set) < MaxLog /\ Len(tx[t].r_set) \in Nat /\ Len(tx[t].w_set) \in Nat
    BY <1>1, WriteSet DEF Room
  <2>2. ~Accesses(t)'
    <3>1. pc'[t] = "active"
      BY <1>1 DEF Log, Goto, TypeInv
    <3>2. QED
      BY <3>1 DEF Accesses, Extends, InAccess, InConflict, InLoad
  <2>3. MaxLog \in Nat
    BY CmAssumption DEF CmAssumption
  <2>4. Len(tx'[t].r_set) = Len(tx[t].r_set) + 1 /\ Len(tx'[t].w_set) = Len(tx[t].w_set)
    BY <1>3, <1>5
  <2> DEFINE n == Len(tx[t].r_set)  m == Len(tx[t].w_set)
  <2>5. n + m < MaxLog /\ n \in Nat /\ m \in Nat
    BY <2>1
  <2> HIDE DEF n, m
  <2>6. n + 1 + m <= MaxLog
    BY <2>3, <2>5
  <2>7. Len(tx'[t].r_set) + Len(tx'[t].w_set) <= MaxLog
    BY <2>4, <2>6 DEF n, m
  <2>8. QED
    BY <2>2, <2>7 DEF Room
<1>9. NoLoc \in LocType /\ NoLoc.for = "none" /\ NoLoc.i = 1
  <2>1. Free(0) \in Word
    BY DEF Free, Word
  <2>2. QED
    BY <2>1 DEF NoLoc, LocType, AnyAddr, StatusWord, Status, Purpose
<1>10. /\ pc' = [pc EXCEPT ![t] = "active"] /\ loc' = [loc EXCEPT ![t] = NoLoc]
       /\ UNCHANGED <<lock, mem, clock, status, version, order, hist>>
  BY DEF Log, Goto, Clear, shared
<1>11. QED
  BY <1>4, <1>5, <1>6, <1>7, <1>8, <1>9, <1>10, OwnTx

LEMMA ExtendedStep ==
    ASSUME LockInv, NEW t \in Tx, Extended(t)
    PROVE  LockInv'
<1> DEFINE x == [loc[t] EXCEPT !.i = 1]
<1>1. TypeInv /\ Room(t) /\ tx[t] \in TxType /\ loc[t] \in LocType /\ loc[t].now \in Nat /\ Accesses(t)
      /\ pc[t] = "validate" /\ loc[t].for = "extend"
  BY DEF LockInv, Locals, TypeInv, LocType, Extended, Accesses, Extends
<1>2. tx' = [tx EXCEPT ![t].end = loc[t].now]
  BY DEF Extended
<1>3. tx'[t] = [tx[t] EXCEPT !.end = loc[t].now] /\ \A u \in Tx \ {t} : tx'[u] = tx[u]
  BY <1>1, <1>2 DEF TypeInv
<1>4. /\ tx'[t] \in TxType /\ tx'[t].w_set = tx[t].w_set /\ tx'[t].gen = tx[t].gen
      /\ tx'[t].r_set = tx[t].r_set /\ tx'[t].visible = tx[t].visible
  BY <1>1, <1>3 DEF TxType
<1>5. tx' \in [Tx -> TxType]
  BY <1>1, <1>2, <1>3, <1>4 DEF TypeInv
<1>6. x \in LocType /\ x.i = 1 /\ x.addr = loc[t].addr /\ x.for = "extend"
  <2>1. 1 \in Nat \ {0}
    OBVIOUS
  <2>2. QED
    BY <1>1, <2>1 DEF LocType
<1>7. loc' = [loc EXCEPT ![t] = x] /\ pc' = [pc EXCEPT ![t] = "recheck"]
      /\ UNCHANGED <<lock, mem, clock, status, version, order, hist>> /\ seen' = seen
  BY <1>1 DEF Extended, Goto, shared, TypeInv
<1>8. Room(t)'
  BY <1>1, <1>4 DEF Room
<1>9. seen' \in [Tx -> SUBSET [addr : Addr, value : Nat]]
  BY <1>1, <1>7 DEF TypeInv
<1> HIDE DEF x
<1>10. QED
  BY <1>1, <1>3, <1>4, <1>5, <1>6, <1>7, <1>8, <1>9, OwnTx

-----------------------------------------------------------------------------
(* Taking a lock, giving back another's *)

\* What is known of the lock word l of a when its lock is to be taken, with version v.
Stealable(a, l, v) ==
    ~IsFree(l) =>
        /\ l.gen <= tx[l.owner].gen
        /\ l.gen = tx[l.owner].gen => /\ Is(l.owner, "KILLED")
                                      /\ Logged(l, a)
                                      /\ version[l.owner][l.i] = v

LEMMA AcquireStep ==
    ASSUME LockInv, NEW t \in Tx, Accesses(t), NEW a \in Addr, NEW l \in Word, NEW v \in Nat,
           NEW for \in {"visible", "write"}, l.owner # t, Stealable(a, l, v), Acquire(t, a, l, v, for)
    PROVE  LockInv'
<1> DEFINE x == With(a, l, for)  n == Len(tx[t].w_set) + 1
           label == IF for = "visible" THEN "vis_value" ELSE "acquire_cas"
<1>1. TypeInv /\ Stage(t) /\ Position(t) /\ Room(t) /\ Counts(t) /\ Purposes(t)
  BY DEF LockInv, Locals
<1>2. x \in LocType /\ x.addr = a /\ x.l = l /\ x.for = for /\ x.i = 1
  BY Fresh DEF Purpose
<1>3. n \in Entry /\ n \in Nat /\ n \notin DOMAIN tx[t].w_set
  <2>1. LogRoom(t)
    BY <1>1 DEF Room, LogRoom
  <2>2. Len(tx[t].w_set) \in Nat /\ DOMAIN tx[t].w_set = 1 .. Len(tx[t].w_set)
    BY <1>1, WriteSet
  <2>3. QED
    BY <1>1, <2>1, <2>2, InLog
<1>4. /\ pc' = [pc EXCEPT ![t] = label] /\ loc' = [loc EXCEPT ![t] = x]
      /\ version' = [version EXCEPT ![t] = [version[t] EXCEPT ![n] = v]]
      /\ UNCHANGED <<lock, mem, clock, order, manager, status, tx, seen, hist>>
  BY DEF Acquire, Goto, With
<1> HIDE DEF x, n, label
<1>5. label \in {"vis_value", "acquire_cas"} /\ label \in CmLabel /\ (label = "vis_value" => for = "visible")
  BY DEF label, CmLabel, InAccess
<1>6. /\ pc'[t] = label /\ loc'[t] = x
      /\ \A u \in Tx \ {t} : pc'[u] = pc[u] /\ loc'[u] = loc[u] /\ version'[u] = version[u]
      /\ version'[t] = [version[t] EXCEPT ![n] = v] /\ version[t] \in [Entry -> Nat]
  BY <1>1, <1>4 DEF TypeInv
<1>7. TypeInv'
  <2>1. pc' \in [Tx -> CmLabel] /\ loc' \in [Tx -> LocType]
    BY <1>1, <1>2, <1>4, <1>5 DEF TypeInv
  <2>2. version'[t] \in [Entry -> Nat]
    BY <1>6
  <2>3. version' \in [Tx -> [Entry -> Nat]]
    BY <1>1, <1>4, <1>6, <2>2 DEF TypeInv
  <2>4. QED
    BY <1>1, <1>4, <2>1, <2>3 DEF TypeInv
<1>8. \A u \in Tx \ {t} : Spared(u)
  BY <1>4, <1>6 DEF Spared
<1>9. Evolves(t)
  <2>1. status[t].c \in Nat /\ tx[t].gen \in Nat
    BY <1>1, WriteSet
  <2>2. \A i \in DOMAIN tx[t].w_set : i \in Entry /\ i # n
    BY <1>1, <1>3, InLog
  <2>3. \A i \in DOMAIN tx[t].w_set : version'[t][i] = version[t][i]
    BY <1>6, <2>2
  <2>4. Kept(t)
    BY <1>4, <2>3 DEF Kept
  <2>5. QED
    BY <1>4, <2>1, <2>4 DEF Evolves
<1>10. \A u \in Tx : /\ Passed(u)' = Passed(u) /\ tx'[u].w_set = tx[u].w_set /\ tx'[u].gen = tx[u].gen
                    /\ (Is(u, "KILLED") => Is(u, "KILLED")')
  BY <1>4, <1>5, <1>6 DEF Passed, Is, Accesses, Extends, InAccess, InConflict, InLoad
<1>11. LocksKept' /\ \A b \in Addr : Holding(b)'
  BY <1>4, <1>10, LocksStay
<1>12. status[t].s \in {"ACTIVE", "KILLED"} /\ ~Rests(t) /\ Accesses(t)'
  BY <1>1, <1>5, <1>6 DEF Stage, Rests, Accesses, Extends, InAccess, InConflict, InLoad
<1>13. Stage(t)' /\ Position(t)'
  BY <1>4, <1>5, <1>6, <1>12 DEF Stage, Position, Rests, Commits, Accesses, Extends,
     InAccess, InConflict, InLoad, Validates, Installs, InInstall
<1>14. Room(t)' /\ Counts(t)'
  BY <1>1, <1>4, <1>12 DEF Room, Counts
<1>15. Purposes(t)' /\ Observes(t)'
  BY <1>2, <1>5, <1>6 DEF Purposes, Observes, InAccess, InConflict, InLoad
<1>16. Steals(t)'
  <2>1. SUFFICES ASSUME ~IsFree(l)
                 PROVE  /\ l.gen <= tx'[l.owner].gen
                        /\ l.gen = tx'[l.owner].gen =>
                              /\ Is(l.owner, "KILLED")' /\ Logged(l, a)' /\ version'[l.owner][l.i] = version'[t][n]
    <3>1. pc'[t] # "steal" /\ loc'[t].l = l /\ loc'[t].addr = a
      BY <1>2, <1>5, <1>6
    <3>2. Keeps(t)' = version'[t][n]
      BY <1>4, <3>1 DEF Keeps, n
    <3>3. QED
      BY <3>1, <3>2 DEF Steals, IsFree
  <2>2. l.owner \in Tx \ {t}
    BY <2>1, Words
  <2>3. version'[l.owner] = version[l.owner] /\ version'[t][n] = v
    BY <1>3, <1>6, <2>2
  <2>4. QED
    BY <1>4, <2>1, <2>2, <2>3 DEF Stealable, Is, Logged
<1>17. QED
  BY <1>7, <1>8, <1>9, <1>11, <1>13, <1>14, <1>15, <1>16, Compose DEF Mine

\* The compare-and-swap finds a free lock, or that of a killed transaction.
LEMMA Expected ==
    ASSUME LockInv, NEW t \in Tx, pc[t] \in {"steal", "vis_value", "acquire_cas"},
           NEW a \in Addr, a = loc[t].addr, lock[a] = loc[t].l, ~IsFree(lock[a])
    PROVE  /\ lock[a].owner \in Tx \ {t} /\ Is(lock[a].owner, "KILLED")
           /\ version[lock[a].owner][lock[a].i] = Keeps(t)
<1>1. TypeInv /\ Holding(a) /\ Purposes(t) /\ Steals(t)
  BY DEF LockInv, Locals
<1>2. lock[a].owner \in Tx
  BY <1>1, Words DEF TypeInv
<1>3. lock[a].owner # t
  BY <1>1, SMTT(40) DEF Purposes, InConflict
<1>4. lock[a].gen = tx[lock[a].owner].gen
  BY <1>1 DEF Holding, Logged
<1>5. QED
  BY <1>1, <1>2, <1>3, <1>4 DEF Steals

LEMMA AcquireCasStep ==
    ASSUME LockInv, NEW t \in Tx, AcquireCas(t)
    PROVE  LockInv'
<1> DEFINE a == loc[t].addr  w == loc[t].for = "write"  n == Len(tx[t].w_set) + 1
           e == [addr |-> a, mask |-> w]  W == Append(tx[t].w_set, e)
<1>1. TypeInv /\ Stage(t) /\ Position(t) /\ Room(t) /\ Counts(t) /\ Purposes(t) /\ pc[t] = "acquire_cas"
      /\ Accesses(t)
  BY DEF LockInv, Locals, AcquireCas, Accesses, InAccess
<1>2. a \in Addr /\ w \in BOOLEAN /\ loc[t].value \in Nat /\ tx[t] \in TxType
  BY <1>1 DEF Purposes, TypeInv, LocType
<1>3. n \in Entry /\ n \in Nat /\ DOMAIN tx[t].w_set = 1 .. n - 1 /\ Len(tx[t].w_set) = n - 1 /\ n > 0
  <2>1. LogRoom(t)
    BY <1>1 DEF Room, LogRoom
  <2>2. Len(tx[t].w_set) \in Nat /\ DOMAIN tx[t].w_set = 1 .. Len(tx[t].w_set)
    BY <1>1, WriteSet
  <2>3. QED
    BY <1>1, <2>1, <2>2, InLog
<1>4. /\ W \in Seq([addr : Addr, mask : BOOLEAN]) /\ Len(W) = n /\ DOMAIN W = 1 .. n
      /\ W[n].addr = a /\ W[n].mask = w
      /\ \A i \in 1 .. n - 1 : W[i] = tx[t].w_set[i]
  <2>1. tx[t].w_set \in Seq([addr : Addr, mask : BOOLEAN]) /\ e \in [addr : Addr, mask : BOOLEAN]
        /\ e.addr = a /\ e.mask = w
    BY <1>2 DEF TxType
  <2> HIDE DEF e
  <2>2. QED
    BY <1>3, <2>1
<1>5. /\ pc' = [pc EXCEPT ![t] = "active"] /\ loc' = [loc EXCEPT ![t] = NoLoc]
      /\ tx' = [tx EXCEPT ![t].w_set = W] /\ lock' = [lock EXCEPT ![a] = Owned(t, n, w)]
      /\ lock[a] = loc[t].l
      /\ UNCHANGED <<mem, clock, version, order, manager, status, hist>>
  BY DEF AcquireCas, Goto, Clear
<1> HIDE DEF a, w, n, W
<1>6. /\ pc'[t] = "active" /\ loc'[t] = NoLoc /\ tx'[t] = [tx[t] EXCEPT !.w_set = W]
      /\ \A u \in Tx \ {t} : pc'[u] = pc[u] /\ loc'[u] = loc[u] /\ tx'[u] = tx[u]
  BY <1>1, <1>5 DEF TypeInv
<1>7. /\ tx'[t] \in TxType /\ tx'[t].w_set = W /\ tx'[t].gen = tx[t].gen /\ tx'[t].r_set = tx[t].r_set
  <2> DEFINE R == Seq([addr : Addr, version : Nat])  S == Seq([addr : Addr, mask : BOOLEAN])
             T == [start : Nat, end : Nat, r_set : R, w_set : S, gen : Nat, visible : BOOLEAN,
                   visible_reads : Nat, retries : {0, 1}, timestamp : Nat, ticket : Nat, nb : Nat]
  <2>1. tx[t] \in T /\ W \in S
    BY <1>2, <1>4 DEF TxType
  <2> HIDE DEF R, S
  <2>2. tx'[t] \in T /\ tx'[t].w_set = W /\ tx'[t].gen = tx[t].gen /\ tx'[t].r_set = tx[t].r_set
    BY <1>6, <2>1
  <2>3. QED
    BY <2>2 DEF TxType, R, S
<1>8. NoLoc \in LocType /\ NoLoc.for = "none" /\ NoLoc.i = 1
  <2>1. Free(0) \in Word
    BY DEF Free, Word
  <2>2. QED
    BY <2>1 DEF NoLoc, LocType, AnyAddr, StatusWord, Status, Purpose
<1>9. Owned(t, n, w) \in Word /\ ~IsFree(Owned(t, n, w)) /\ lock'[a] = Owned(t, n, w)
      /\ \A b \in Addr \ {a} : lock'[b] = lock[b]
  BY <1>1, <1>2, <1>3, <1>5, NewWords DEF TypeInv
<1>10. TypeInv'
  <2>1. pc' \in [Tx -> CmLabel] /\ loc' \in [Tx -> LocType] /\ tx' \in [Tx -> TxType] /\ lock' \in [Addr -> Word]
    BY <1>1, <1>5, <1>6, <1>7, <1>8, <1>9 DEF TypeInv, CmLabel
  <2>2. seen' \in [Tx -> SUBSET [addr : Addr, value : Nat]]
    <3>1. [addr |-> a, value |-> loc[t].value] \in [addr : Addr, value : Nat]
      BY <1>2
    <3> DEFINE r == [addr |-> a, value |-> loc[t].value]  S == [addr : Addr, value : Nat]
    <3>2. seen' = seen \/ seen' = [seen EXCEPT ![t] = seen[t] \cup {r}]
      BY DEF AcquireCas, a
    <3>3. seen \in [Tx -> SUBSET S] /\ r \in S
      BY <1>1, <3>1 DEF TypeInv
    <3> HIDE DEF r, S
    <3>4. seen' \in [Tx -> SUBSET S]
      BY <3>2, <3>3
    <3>5. QED
      BY <3>4 DEF S
  <2>3. QED
    BY <1>1, <1>5, <2>1, <2>2 DEF TypeInv
<1>11. \A u \in Tx \ {t} : Spared(u)
  BY <1>5, <1>6 DEF Spared
<1>12. Evolves(t)
  <2>1. status[t].c \in Nat /\ tx[t].gen \in Nat
    BY <1>1, WriteSet
  <2>2. \A i \in DOMAIN tx[t].w_set : i \in DOMAIN W /\ W[i] = tx[t].w_set[i]
    BY <1>3, <1>4
  <2>3. Kept(t)
    BY <1>5, <1>7, <2>2 DEF Kept
  <2>4. QED
    BY <1>5, <1>7, <2>1, <2>3 DEF Evolves
<1>13. \A u \in Tx : Passed(u)' = Passed(u) /\ (Is(u, "KILLED") <=> Is(u, "KILLED")')
  BY <1>1, <1>5, <1>6 DEF Passed, Is
<1>14. Passed(t) = 0
  BY <1>1 DEF Passed
<1>15. ~IsFree(lock[a]) => lock[a].owner \in Tx \ {t} /\ Is(lock[a].owner, "KILLED")
  BY <1>1, <1>2, <1>5, Expected DEF a
<1>16. ASSUME NEW u \in Tx, ~Is(u, "KILLED"), NEW i \in Passed(u) + 1 .. Len(tx'[u].w_set)
       PROVE  Points(u, i)'
  <2>1. CASE u = t /\ i = n
    <3>1. lock'[a] = [owner |-> t, version |-> 0, gen |-> tx'[t].gen, i |-> n, write |-> w]
      BY <1>7, <1>9 DEF Owned
    <3>2. tx'[t].w_set[n].addr = a /\ tx'[t].w_set[n].mask = w
      BY <1>4, <1>7
    <3>3. QED
      BY <2>1, <3>1, <3>2 DEF Points, Owned
  <2>2. CASE ~(u = t /\ i = n)
    <3>1. i \in Passed(u) + 1 .. Len(tx[u].w_set) /\ tx'[u].w_set[i] = tx[u].w_set[i]
          /\ tx[u].w_set[i].addr \in Addr /\ tx'[u].gen = tx[u].gen
      <4>1. CASE u = t
        <5>1. i \in 1 .. n - 1
          BY <1>3, <1>4, <1>7, <1>14, <1>16, <2>2, <4>1
        <5>2. QED
          BY <1>1, <1>3, <1>4, <1>7, <1>14, <4>1, <5>1, WriteSet, SMTT(40)
      <4>2. CASE u # t
        <5>1. Passed(u) \in Nat /\ DOMAIN tx[u].w_set = 1 .. Len(tx[u].w_set) /\ Len(tx[u].w_set) \in Nat
          BY <1>1, WriteSet
        <5>2. tx'[u] = tx[u] /\ i \in DOMAIN tx[u].w_set
          BY <1>6, <1>16, <4>2, <5>1
        <5>3. QED
          BY <1>1, <1>16, <5>2, WriteSet
      <4>3. QED
        BY <4>1, <4>2
    <3>2. Points(u, i)
      BY <1>16, <3>1 DEF LockInv, LocksKept
    <3>3. lock[tx[u].w_set[i].addr].owner = u
      BY <3>2 DEF Points, Owned
    <3>4. tx[u].w_set[i].addr # a
      <4>1. SUFFICES ASSUME lock[a].owner = u PROVE FALSE
        BY <3>3
      <4>2. ~IsFree(lock[a])
        BY <4>1, CmAssumption DEF IsFree, CmAssumption
      <4>3. QED
        BY <1>15, <1>16, <4>1, <4>2
    <3>5. QED
      BY <1>9, <3>1, <3>2, <3>4 DEF Points, Owned
  <2>3. QED
    BY <2>1, <2>2
<1>17. LocksKept'
  BY <1>13, <1>16 DEF LocksKept
<1>18. ASSUME NEW b \in Addr PROVE Holding(b)'
  <2>1. CASE b = a
    <3>1. /\ lock'[b].owner = t /\ lock'[b].gen = tx[t].gen /\ lock'[b].i = n /\ lock'[b].write = w
      BY <1>9, <2>1 DEF Owned
    <3>2. Logged(lock[b], b)'
      BY <1>3, <1>4, <1>7, <2>1, <3>1 DEF Logged
    <3>3. Passed(lock[b].owner)' = 0
      BY <1>13, <1>14, <3>1
    <3>4. QED
      BY <1>3, <1>4, <1>7, <3>1, <3>2, <3>3 DEF Holding
  <2>2. CASE b # a
    <3>1. lock'[b] = lock[b] /\ lock[b] \in Word /\ Holding(b)
      BY <1>1, <1>9, <2>2 DEF LockInv, TypeInv
    <3>2. SUFFICES ASSUME ~IsFree(lock[b]) PROVE Holding(b)'
      BY <3>1 DEF Holding, IsFree
    <3>3. lock[b].owner \in Tx /\ Logged(lock[b], b) /\ lock[b].i > Passed(lock[b].owner)
          /\ lock[b].write = tx[lock[b].owner].w_set[lock[b].i].mask
      BY <3>1, <3>2, Words DEF Holding
    <3>4. CASE lock[b].owner = t
      <4>1. lock[b].i \in 1 .. n - 1
        BY <1>3, <3>3, <3>4 DEF Logged
      <4>2. lock[b].i \in DOMAIN W /\ W[lock[b].i] = tx[t].w_set[lock[b].i]
        BY <1>3, <1>4, <4>1
      <4>3. QED
        BY <1>7, <1>13, <3>1, <3>3, <3>4, <4>2 DEF Holding, Logged
    <3>5. CASE lock[b].owner # t
      <4>1. PICK o \in Tx \ {t} : o = lock[b].owner
        BY <3>3, <3>5
      <4>2. lock'[b] = lock[b] /\ lock'[b].owner = o /\ tx'[o] = tx[o] /\ Passed(o)' = Passed(o)
        BY <1>6, <1>13, <3>1, <4>1
      <4>3. Logged(lock[b], b)'
        BY <3>3, <4>1, <4>2 DEF Logged
      <4>4. lock'[b].i > Passed(o)' /\ lock'[b].write = tx'[o].w_set[lock'[b].i].mask
        BY <3>3, <4>1, <4>2
      <4>5. QED
        BY <4>2, <4>3, <4>4 DEF Holding
    <3>6. QED
      BY <3>4, <3>5
  <2>3. QED
    BY <2>1, <2>2
<1>19. status[t].s \in {"ACTIVE", "KILLED"} /\ ~Rests(t) /\ ~Accesses(t)'
  BY <1>1, <1>6 DEF Stage, Rests, Accesses, Extends, InAccess, InConflict, InLoad
<1>20. Stage(t)' /\ Position(t)'
  BY <1>5, <1>6, <1>8, <1>19 DEF Stage, Position, Rests, Commits, Accesses, Extends,
     InAccess, InConflict, InLoad, Validates, Installs, InInstall
<1>21. Room(t)'
  <2> DEFINE m == Len(tx[t].r_set)
  <2>1. m \in Nat /\ m + (n - 1) < MaxLog /\ MaxLog \in Nat
    BY <1>1, <1>3, WriteSet, CmAssumption DEF Room, CmAssumption
  <2> HIDE DEF m
  <2>2. m + n <= MaxLog
    BY <1>3, <2>1
  <2>3. QED
    BY <1>4, <1>7, <1>19, <2>2 DEF Room, m
<1>22. Counts(t)'
  BY <1>1, <1>5, <1>7, <1>19 DEF Counts
<1>23. Purposes(t)' /\ Observes(t)' /\ Steals(t)'
  BY <1>6, <1>8 DEF Purposes, Observes, Steals, Accesses, Extends, InAccess, InConflict, InLoad
<1>24. QED
  BY <1>10, <1>11, <1>12, <1>17, <1>18, <1>20, <1>21, <1>22, <1>23, Compose DEF Mine

LEMMA StealFreeStep ==
    ASSUME LockInv, NEW t \in Tx, StealFree(t)
    PROVE  LockInv'
<1> DEFINE a == loc[t].addr  l == loc[t].l
<1>1. TypeInv /\ Stage(t) /\ Position(t) /\ Room(t) /\ Counts(t) /\ Purposes(t) /\ pc[t] = "steal"
      /\ Accesses(t) /\ loc[t].for = "invisible"
  BY DEF LockInv, Locals, StealFree, Accesses, InAccess, InConflict
<1>2. a \in Addr /\ l \in Word /\ loc[t].v \in Nat
  BY <1>1 DEF Purposes, TypeInv, LocType
<1>3. /\ pc' = [pc EXCEPT ![t] = "again"]
      /\ UNCHANGED <<mem, clock, version, order, manager, status, tx, loc, seen, hist>>
      /\ lock' = IF lock[a] = l THEN [lock EXCEPT ![a] = Free(loc[t].v)] ELSE lock
  BY DEF StealFree, Goto
<1> HIDE DEF a, l
<1>4. pc'[t] = "again" /\ \A u \in Tx \ {t} : pc'[u] = pc[u]
  BY <1>1, <1>3 DEF TypeInv
<1>5. Free(loc[t].v) \in Word /\ IsFree(Free(loc[t].v))
  BY <1>1, <1>2, NewWords
<1>6. TypeInv'
  <2>1. pc' \in [Tx -> CmLabel] /\ lock' \in [Addr -> Word]
    BY <1>1, <1>3, <1>5 DEF TypeInv, CmLabel, InAccess
  <2>2. QED
    BY <1>1, <1>3, <2>1 DEF TypeInv
<1>7. \A u \in Tx \ {t} : Spared(u)
  BY <1>3, <1>4 DEF Spared
<1>8. Evolves(t)
  <2>1. status[t].c \in Nat /\ tx[t].gen \in Nat /\ Kept(t)
    BY <1>1, <1>3, WriteSet DEF Kept
  <2>2. QED
    BY <1>3, <2>1 DEF Evolves
<1>9. \A u \in Tx : Passed(u)' = Passed(u)
  BY <1>1, <1>3, <1>4 DEF Passed
<1>10. LocksKept' /\ \A b \in Addr : Holding(b)'
  <2>1. CASE lock[a] # l
    BY <1>3, <1>9, <2>1, LocksStay DEF Is
  <2>2. CASE lock[a] = l
    <3>1. /\ lock'[a] = Free(loc[t].v) /\ \A b \in Addr \ {a} : lock'[b] = lock[b]
      BY <1>1, <1>2, <1>3, <2>2 DEF TypeInv
    <3>2. ~IsFree(lock[a]) => lock[a].owner \in Tx \ {t} /\ Is(lock[a].owner, "KILLED")
      BY <1>1, <1>2, <2>2, Expected DEF a, l
    <3>3. ASSUME NEW u \in Tx, ~Is(u, "KILLED"), NEW i \in Passed(u) + 1 .. Len(tx[u].w_set)
          PROVE  Points(u, i)'
      <4>1. Points(u, i)
        BY <3>3 DEF LockInv, LocksKept
      <4>2. lock[tx[u].w_set[i].addr].owner = u
        BY <4>1 DEF Points, Owned
      <4>3. tx[u].w_set[i].addr # a
        BY <3>2, <3>3, <4>2, CmAssumption, SMTT(40) DEF IsFree, CmAssumption
      <4>4. tx[u].w_set[i].addr \in Addr
        <5>1. Passed(u) \in Nat /\ DOMAIN tx[u].w_set = 1 .. Len(tx[u].w_set) /\ Len(tx[u].w_set) \in Nat
          BY <1>1, WriteSet
        <5>2. i \in DOMAIN tx[u].w_set
          BY <3>3, <5>1
        <5>3. QED
          BY <1>1, <5>2, WriteSet
      <4>5. QED
        BY <1>3, <3>1, <4>1, <4>3, <4>4 DEF Points, Owned
    <3>4. LocksKept'
      BY <1>3, <1>9, <3>3 DEF LocksKept, Is
    <3>5. ASSUME NEW b \in Addr PROVE Holding(b)'
      <4>1. CASE b = a
        BY <1>5, <3>1, <4>1 DEF Holding, IsFree
      <4>2. CASE b # a
        <5>1. lock'[b] = lock[b] /\ lock[b] \in Word /\ Holding(b)
          BY <1>1, <3>1, <4>2 DEF LockInv, TypeInv
        <5>2. SUFFICES ASSUME ~IsFree(lock[b]) PROVE Holding(b)'
          BY <5>1 DEF Holding, IsFree
        <5>3. lock[b].owner \in Tx
          BY <5>1, <5>2, Words
        <5>4. QED
          BY <1>3, <1>9, <5>1, <5>2, <5>3, Zenon DEF Holding, Logged, IsFree
      <4>3. QED
        BY <4>1, <4>2
    <3>6. QED
      BY <3>4, <3>5
  <2>3. QED
    BY <2>1, <2>2
<1>11. status[t].s \in {"ACTIVE", "KILLED"} /\ ~Rests(t) /\ Accesses(t)'
  BY <1>1, <1>4 DEF Stage, Rests, Accesses, Extends, InAccess, InConflict, InLoad
<1>12. Stage(t)' /\ Position(t)'
  BY <1>3, <1>4, <1>11 DEF Stage, Position, Rests, Commits, Accesses, Extends,
     InAccess, InConflict, InLoad, Validates, Installs, InInstall
<1>13. Room(t)' /\ Counts(t)'
  BY <1>1, <1>3, <1>11 DEF Room, Counts
<1>14. Purposes(t)' /\ Observes(t)' /\ Steals(t)'
  BY <1>1, <1>2, <1>3, <1>4 DEF Purposes, Observes, Steals, InAccess, InConflict, InLoad, a
<1>15. QED
  BY <1>6, <1>7, <1>8, <1>10, <1>12, <1>13, <1>14, Compose DEF Mine

LEMMA UpgradeStep ==
    ASSUME LockInv, NEW t \in Tx, Upgrade(t)
    PROVE  LockInv'
<1> DEFINE a == loc[t].addr  l == loc[t].l  n == l.i
           W == [tx[t].w_set EXCEPT ![n] = [tx[t].w_set[n] EXCEPT !.mask = TRUE]]
<1>1. TypeInv /\ Stage(t) /\ Position(t) /\ Room(t) /\ Counts(t) /\ Purposes(t) /\ pc[t] = "upgrade"
      /\ Accesses(t)
  BY DEF LockInv, Locals, Upgrade, Accesses, InAccess
<1>2. a \in Addr /\ l \in Word /\ l.owner = t /\ Logged(l, a) /\ tx[t] \in TxType
  BY <1>1 DEF Purposes, TypeInv, LocType
<1>3. CASE Rollback(t, FALSE, FALSE)
  BY <1>1, <1>3, RollbackStep DEF MayAbort
<1>4. CASE /\ lock[a] = l
           /\ lock' = [lock EXCEPT ![a].write = TRUE]
           /\ tx' = [tx EXCEPT ![t].w_set[l.i].mask = TRUE]
           /\ Goto(t, "active") /\ Clear(t)
           /\ UNCHANGED <<mem, clock, version, order, manager, status, seen, hist>>
  <2>1. n \in DOMAIN tx[t].w_set /\ tx[t].w_set[n].addr = a /\ l.gen = tx[t].gen /\ n > 0 /\ n \in Entry
    <3>1. n \in DOMAIN tx[t].w_set /\ tx[t].w_set[n].addr = a /\ l.gen = tx[t].gen
      BY <1>2 DEF Logged
    <3>2. n \in Entry
      BY <1>1, <3>1, InLog
    <3>3. QED
      BY <1>1, <3>1, <3>2, WriteSet
  <2>2. /\ W \in Seq([addr : Addr, mask : BOOLEAN]) /\ Len(W) = Len(tx[t].w_set) /\ DOMAIN W = DOMAIN tx[t].w_set
        /\ W[n].addr = a /\ W[n].mask = TRUE
        /\ \A i \in DOMAIN tx[t].w_set : i # n => W[i] = tx[t].w_set[i]
        /\ \A i \in DOMAIN tx[t].w_set : W[i].addr = tx[t].w_set[i].addr
    <3> DEFINE w == tx[t].w_set  E == [addr : Addr, mask : BOOLEAN]  e == [w[n] EXCEPT !.mask = TRUE]
    <3>1. w \in Seq(E) /\ w[n] \in E
      BY <1>1, <2>1, WriteSet
    <3>2. e \in E /\ e.addr = a /\ e.mask = TRUE
      BY <2>1, <3>1, Zenon
    <3> HIDE DEF E, e, w
    <3>3. [w EXCEPT ![n] = e] \in Seq(E) /\ Len([w EXCEPT ![n] = e]) = Len(w) /\ DOMAIN [w EXCEPT ![n] = e] = DOMAIN w
      <4>1. n \in 1 .. Len(w)
        BY <1>1, <2>1, WriteSet DEF w
      <4>2. QED
        BY <3>1, <3>2, <4>1, ExceptSeq
    <3>4. n \in DOMAIN w /\ w[n].addr = a
      BY <2>1 DEF w
    <3>5. [w EXCEPT ![n] = e][n] = e /\ \A i \in DOMAIN w : i # n => [w EXCEPT ![n] = e][i] = w[i]
      BY <3>4
    <3>6. W = [w EXCEPT ![n] = e]
      BY DEF w, e
    <3>7. \A i \in DOMAIN w : W[i].addr = w[i].addr
      BY <3>2, <3>4, <3>5, <3>6, Zenon
    <3>8. QED
      BY <3>2, <3>3, <3>5, <3>6, <3>7, ZenonT(60) DEF w, E
  <2>3. /\ pc' = [pc EXCEPT ![t] = "active"] /\ loc' = [loc EXCEPT ![t] = NoLoc]
        /\ tx' = [tx EXCEPT ![t].w_set = W] /\ lock' = [lock EXCEPT ![a] = [l EXCEPT !.write = TRUE]]
        /\ lock[a] = l
        /\ UNCHANGED <<mem, clock, version, order, manager, status, seen, hist>>
    BY <1>4 DEF Goto, Clear
  <2> HIDE DEF a, n, W
  <2>4. /\ pc'[t] = "active" /\ loc'[t] = NoLoc /\ tx'[t] = [tx[t] EXCEPT !.w_set = W]
        /\ \A u \in Tx \ {t} : pc'[u] = pc[u] /\ loc'[u] = loc[u] /\ tx'[u] = tx[u]
    BY <1>1, <2>3 DEF TypeInv
  <2>5. /\ tx'[t] \in TxType /\ tx'[t].w_set = W /\ tx'[t].gen = tx[t].gen /\ tx'[t].r_set = tx[t].r_set
    <3> DEFINE R == Seq([addr : Addr, version : Nat])  S == Seq([addr : Addr, mask : BOOLEAN])
               T == [start : Nat, end : Nat, r_set : R, w_set : S, gen : Nat, visible : BOOLEAN,
                     visible_reads : Nat, retries : {0, 1}, timestamp : Nat, ticket : Nat, nb : Nat]
    <3>1. tx[t] \in T /\ W \in S
      BY <1>2, <2>2 DEF TxType
    <3> HIDE DEF R, S
    <3>2. tx'[t] \in T /\ tx'[t].w_set = W /\ tx'[t].gen = tx[t].gen /\ tx'[t].r_set = tx[t].r_set
      BY <2>4, <3>1
    <3>3. QED
      BY <3>2 DEF TxType, R, S
  <2>6. NoLoc \in LocType /\ NoLoc.for = "none" /\ NoLoc.i = 1
    <3>1. Free(0) \in Word
      BY DEF Free, Word
    <3>2. QED
      BY <3>1 DEF NoLoc, LocType, AnyAddr, StatusWord, Status, Purpose
  <2>7. [l EXCEPT !.write = TRUE] = Owned(t, n, TRUE)
    <3> DEFINE R == [owner : Tx, version : {0}, gen : Nat, i : Entry, write : BOOLEAN]
               r == [l EXCEPT !.write = TRUE]  q == Owned(t, n, TRUE)
    <3>1. l \in R /\ l.owner = t /\ l.gen = tx[t].gen /\ l.i = n
      <4>1. t # -1
        BY CmAssumption DEF CmAssumption
      <4>2. l \in R
        BY <1>2, <4>1 DEF Word
      <4>3. QED
        BY <1>2, <2>1, <4>2 DEF n
    <3>2. r \in R /\ r.owner = t /\ r.version = 0 /\ r.gen = tx[t].gen /\ r.i = n /\ r.write = TRUE
      BY <3>1
    <3>3. q \in R /\ q.owner = t /\ q.version = 0 /\ q.gen = tx[t].gen /\ q.i = n /\ q.write = TRUE
      BY <1>1, <2>1, WriteSet DEF Owned
    <3> HIDE DEF r, q
    <3>4. r = q
      BY <3>2, <3>3
    <3>5. QED
      BY <3>4 DEF r, q
  <2>8. Owned(t, n, TRUE) \in Word /\ ~IsFree(Owned(t, n, TRUE)) /\ lock'[a] = Owned(t, n, TRUE)
        /\ \A b \in Addr \ {a} : lock'[b] = lock[b]
    <3>1. Owned(t, n, TRUE) \in Word /\ ~IsFree(Owned(t, n, TRUE))
      BY <1>1, <2>1, NewWords
    <3>2. QED
      BY <1>1, <1>2, <2>3, <2>7, <3>1 DEF TypeInv
  <2>9. TypeInv'
    <3>1. pc' \in [Tx -> CmLabel] /\ loc' \in [Tx -> LocType] /\ tx' \in [Tx -> TxType] /\ lock' \in [Addr -> Word]
      BY <1>1, <2>3, <2>4, <2>5, <2>6, <2>7, <2>8 DEF TypeInv, CmLabel
    <3>2. QED
      BY <1>1, <2>3, <3>1 DEF TypeInv
  <2>10. \A u \in Tx \ {t} : Spared(u)
    BY <2>3, <2>4 DEF Spared
  <2>11. Evolves(t)
    <3>1. status[t].c \in Nat /\ tx[t].gen \in Nat
      BY <1>1, WriteSet
    <3>2. \A i \in DOMAIN tx[t].w_set : /\ i \in DOMAIN W /\ W[i].addr = tx[t].w_set[i].addr
                                        /\ (tx[t].w_set[i].mask => W[i].mask)
      BY <2>2
    <3>3. Kept(t)
      BY <2>3, <2>5, <3>2 DEF Kept
    <3>4. QED
      BY <2>3, <2>5, <3>1, <3>3 DEF Evolves
  <2>12. \A u \in Tx : Passed(u)' = Passed(u) /\ (Is(u, "KILLED") <=> Is(u, "KILLED")')
    BY <1>1, <2>3, <2>4 DEF Passed, Is
  <2>13. Passed(t) = 0
    BY <1>1 DEF Passed
  <2>14. ASSUME NEW u \in Tx, ~Is(u, "KILLED"), NEW i \in Passed(u) + 1 .. Len(tx'[u].w_set)
         PROVE  Points(u, i)'
    <3>1. i \in Passed(u) + 1 .. Len(tx[u].w_set) /\ i \in DOMAIN tx[u].w_set
      <4>1. Len(tx'[u].w_set) = Len(tx[u].w_set)
        BY <2>2, <2>4, <2>5
      <4>2. Passed(u) \in Nat /\ DOMAIN tx[u].w_set = 1 .. Len(tx[u].w_set) /\ Len(tx[u].w_set) \in Nat
        BY <1>1, WriteSet
      <4>3. i \in Passed(u) + 1 .. Len(tx[u].w_set)
        BY <2>14, <4>1
      <4>4. QED
        BY <4>2, <4>3
    <3>2. Points(u, i)
      BY <2>14, <3>1 DEF LockInv, LocksKept
    <3>3. lock[tx[u].w_set[i].addr] = Owned(u, i, tx[u].w_set[i].mask) /\ tx[u].w_set[i].addr \in Addr
      BY <1>1, <3>1, <3>2, WriteSet DEF Points
    <3>4. CASE u = t /\ i = n
      <4>1. lock'[a] = [owner |-> t, version |-> 0, gen |-> tx'[t].gen, i |-> n, write |-> TRUE]
        BY <2>5, <2>8 DEF Owned
      <4>2. tx'[t].w_set[n].addr = a /\ tx'[t].w_set[n].mask = TRUE
        BY <2>2, <2>5
      <4>3. QED
        BY <3>4, <4>1, <4>2 DEF Points, Owned
    <3>5. CASE ~(u = t /\ i = n)
      <4>1. tx[u].w_set[i].addr # a
        <5>1. SUFFICES ASSUME tx[u].w_set[i].addr = a PROVE FALSE
          OBVIOUS
        <5>2. lock[a].owner = u /\ lock[a].i = i
          BY <3>3, <5>1 DEF Owned
        <5>3. QED
          BY <1>2, <2>3, <3>5, <5>2 DEF n
      <4>2. tx'[u].w_set[i] = tx[u].w_set[i] /\ tx'[u].gen = tx[u].gen
        <5>1. CASE u = t
          <6>1. i \in DOMAIN tx[t].w_set /\ i # n
            BY <3>1, <3>5, <5>1
          <6>2. W[i] = tx[t].w_set[i]
            BY <2>2, <6>1
          <6>3. QED
            BY <2>5, <5>1, <6>2
        <5>2. CASE u # t
          BY <2>4, <5>2
        <5>3. QED
          BY <5>1, <5>2
      <4>3. QED
        BY <2>8, <3>3, <4>1, <4>2 DEF Points, Owned
    <3>6. QED
      BY <3>4, <3>5
  <2>15. LocksKept'
    BY <2>12, <2>14 DEF LocksKept
  <2>16. ASSUME NEW b \in Addr PROVE Holding(b)'
    <3>1. CASE b = a
      <4>1. /\ lock'[b].owner = t /\ lock'[b].gen = tx[t].gen /\ lock'[b].i = n /\ lock'[b].write = TRUE
        BY <2>8, <3>1 DEF Owned
      <4>2. Logged(lock[b], b)'
        BY <2>1, <2>2, <2>5, <3>1, <4>1, Zenon DEF Logged, n, a
      <4>3. Passed(lock[b].owner)' = 0
        BY <2>12, <2>13, <4>1
      <4>4. QED
        BY <2>1, <2>2, <2>5, <4>1, <4>2, <4>3 DEF Holding, n
    <3>2. CASE b # a
      <4>1. lock'[b] = lock[b] /\ lock[b] \in Word /\ Holding(b)
        BY <1>1, <2>8, <3>2 DEF LockInv, TypeInv
      <4>2. SUFFICES ASSUME ~IsFree(lock[b]) PROVE Holding(b)'
        BY <4>1 DEF Holding, IsFree
      <4>3. lock[b].owner \in Tx /\ Logged(lock[b], b) /\ lock[b].i > Passed(lock[b].owner)
            /\ lock[b].write = tx[lock[b].owner].w_set[lock[b].i].mask
        BY <4>1, <4>2, Words DEF Holding
      <4>4. CASE lock[b].owner = t
        <5>1. lock[b].i \in DOMAIN tx[t].w_set /\ tx[t].w_set[lock[b].i].addr = b
          BY <4>3, <4>4 DEF Logged
        <5>2. lock[b].i # n
          BY <2>1, <3>2, <5>1 DEF n, a
        <5>3. lock[b].i \in DOMAIN W /\ W[lock[b].i] = tx[t].w_set[lock[b].i]
          BY <2>2, <5>1, <5>2
        <5>4. QED
          BY <2>5, <2>12, <4>1, <4>3, <4>4, <5>3 DEF Holding, Logged
      <4>5. CASE lock[b].owner # t
        <5>1. PICK o \in Tx \ {t} : o = lock[b].owner
          BY <4>3, <4>5
        <5>2. lock'[b] = lock[b] /\ lock'[b].owner = o /\ tx'[o] = tx[o] /\ Passed(o)' = Passed(o)
          BY <2>4, <2>12, <4>1, <5>1
        <5>3. Logged(lock[b], b)'
          BY <4>3, <5>1, <5>2 DEF Logged
        <5>4. lock'[b].i > Passed(o)' /\ lock'[b].write = tx'[o].w_set[lock'[b].i].mask
          BY <4>3, <5>1, <5>2
        <5>5. QED
          BY <5>2, <5>3, <5>4 DEF Holding
      <4>6. QED
        BY <4>4, <4>5
    <3>3. QED
      BY <3>1, <3>2
  <2>17. status[t].s \in {"ACTIVE", "KILLED"} /\ ~Rests(t) /\ ~Accesses(t)'
    BY <1>1, <2>4 DEF Stage, Rests, Accesses, Extends, InAccess, InConflict, InLoad
  <2>18. Stage(t)' /\ Position(t)'
    BY <2>3, <2>4, <2>6, <2>17 DEF Stage, Position, Rests, Commits, Accesses, Extends,
       InAccess, InConflict, InLoad, Validates, Installs, InInstall
  <2>19. Room(t)' /\ Counts(t)'
    BY <1>1, <2>2, <2>3, <2>5, <2>17 DEF Room, Counts
  <2>20. Purposes(t)' /\ Observes(t)' /\ Steals(t)'
    BY <2>4, <2>6 DEF Purposes, Observes, Steals, Accesses, Extends, InAccess, InConflict, InLoad
  <2>21. QED
    BY <2>9, <2>10, <2>11, <2>15, <2>16, <2>18, <2>19, <2>20, Compose DEF Mine
<1>5. QED
  BY <1>3, <1>4 DEF Upgrade

-----------------------------------------------------------------------------
(* Conflicts: status, kill, steal *)

\* On with the same conflict, or back to the lock word.
LEMMA ConflictTurn ==
    ASSUME LockInv, NEW t \in Tx, pc[t] \in InConflict, NEW label \in InConflict \cup {"again"},
           NEW x \in LocType, Turn(t, label, x),
           x.addr = loc[t].addr, x.l = loc[t].l, x.for = loc[t].for, Observes(t)', Steals(t)'
    PROVE  LockInv'
<1>1. Purposes(t) /\ pc \in [Tx -> CmLabel] /\ loc \in [Tx -> LocType]
  BY DEF LockInv, Locals, TypeInv
<1>2. pc'[t] = label /\ loc'[t] = x
  BY <1>1 DEF Turn, Goto
<1>3. label \in CmLabel /\ label \in InAccess /\ Accesses(t)
  BY DEF CmLabel, InAccess, Accesses
<1>4. Purposes(t)'
  BY <1>1, <1>2, <1>3 DEF Purposes, Accesses, InAccess, InConflict, InLoad
<1>5. QED
  BY <1>3, <1>4, TurnAccess

\* The steps that leave loc[t].
LEMMA Same ==
    ASSUME LockInv, NEW t \in Tx, NEW label, Goto(t, label), UNCHANGED <<shared, status, tx, loc, seen, hist>>
    PROVE  /\ Turn(t, label, loc[t]) /\ loc[t] \in LocType /\ loc'[t] = loc[t] /\ pc'[t] = label
           /\ status' = status /\ tx' = tx /\ version' = version /\ lock' = lock
<1>1. loc \in [Tx -> LocType] /\ pc \in [Tx -> CmLabel]
  BY DEF LockInv, TypeInv
<1>2. loc' = [loc EXCEPT ![t] = loc[t]]
  BY <1>1
<1>3. QED
  BY <1>1, <1>2 DEF Turn, Goto, shared

LEMMA CmStatusStep ==
    ASSUME LockInv, NEW t \in Tx, CmStatus(t)
    PROVE  LockInv'
<1> DEFINE o == loc[t].l.owner  x == [loc[t] EXCEPT !.s = status[o]]
<1>1. TypeInv /\ Purposes(t) /\ pc[t] = "cm_status" /\ pc[t] \in InConflict
  BY DEF LockInv, Locals, CmStatus, InConflict
<1>2. o \in Tx
  BY <1>1 DEF Purposes
<1>3. status[o] \in StatusWord
  BY <1>1, <1>2 DEF TypeInv
<1>4. x \in LocType /\ x.addr = loc[t].addr /\ x.l = loc[t].l /\ x.for = loc[t].for /\ x.s = status[o]
  <2>1. loc[t] \in LocType
    BY <1>1 DEF TypeInv
  <2>2. QED
    BY <1>3, <2>1 DEF LocType
<1>5. loc' = [loc EXCEPT ![t] = x]
  BY DEF CmStatus
<1> HIDE DEF x
<1>6. Turn(t, "cm_lock", x) /\ "cm_lock" \in InConflict
  BY <1>5 DEF CmStatus, Turn, InConflict
<1>7. pc'[t] = "cm_lock" /\ loc'[t] = x /\ status' = status
  BY <1>1, <1>6 DEF Turn, Goto, TypeInv
<1>8. status[o].c \in Nat
  BY <1>3 DEF StatusWord
<1>9. Observes(t)' /\ Steals(t)'
  BY <1>4, <1>7, <1>8 DEF Observes, Steals
<1>10. QED
  BY <1>1, <1>4, <1>6, <1>9, ConflictTurn

LEMMA CmLockStep ==
    ASSUME LockInv, NEW t \in Tx, CmLock(t)
    PROVE  LockInv'
<1> DEFINE l == loc[t].l  o == l.owner  v == version[o][l.i]  x == [loc[t] EXCEPT !.v = v]
<1>1. TypeInv /\ Purposes(t) /\ Observes(t) /\ pc[t] = "cm_lock" /\ pc[t] \in InConflict
      /\ lock[loc[t].addr] = l
  BY DEF LockInv, Locals, CmLock, InConflict
<1>2. o \in Tx /\ o # -1 /\ loc[t].addr \in Addr
  BY <1>1, CmAssumption DEF Purposes, Accesses, InAccess, CmAssumption
<1>3. Logged(l, loc[t].addr)
  BY <1>1, <1>2 DEF LockInv, Holding, IsFree
<1>4. v \in Nat
  <2>1. l \in Word /\ version[o] \in [Entry -> Nat]
    BY <1>1, <1>2 DEF TypeInv, LocType
  <2>2. l.i \in Entry
    BY <1>2, <2>1, Words DEF IsFree
  <2>3. QED
    BY <2>1, <2>2
<1>5. x \in LocType /\ x.addr = loc[t].addr /\ x.l = loc[t].l /\ x.for = loc[t].for /\ x.s = loc[t].s /\ x.v = v
  <2>1. loc[t] \in LocType
    BY <1>1 DEF TypeInv
  <2> HIDE DEF v
  <2>2. QED
    BY <1>4, <2>1 DEF LocType
<1>6. loc' = [loc EXCEPT ![t] = x]
  BY DEF CmLock
<1> HIDE DEF x
<1>7. Turn(t, "cm_decide", x) /\ "cm_decide" \in InConflict
  BY <1>6 DEF CmLock, Turn, InConflict
<1>8. pc'[t] = "cm_decide" /\ loc'[t] = x /\ status' = status /\ tx' = tx /\ version' = version
  BY <1>1, <1>7 DEF Turn, Goto, TypeInv, shared
<1>9. Observes(t)'
  <2>1. Logged(loc[t].l, loc[t].addr)'
    BY <1>3, <1>5, <1>8 DEF Logged
  <2>2. QED
    BY <1>1, <1>5, <1>8, <2>1 DEF Observes
<1>10. Steals(t)'
  BY <1>8 DEF Steals
<1>11. QED
  BY <1>1, <1>5, <1>7, <1>9, <1>10, ConflictTurn

\* What is known when the other turns out to be killed.
LEMMA KilledOther ==
    ASSUME LockInv, NEW t \in Tx, pc[t] = "cm_decide", status[loc[t].l.owner] = loc[t].s,
           loc[t].s.s = "KILLED", pc'[t] = "steal", loc'[t] = loc[t], tx' = tx, version' = version,
           status' = status
    PROVE  Steals(t)'
<1> DEFINE l == loc[t].l  o == l.owner
<1>1. Observes(t)
  BY DEF LockInv
<1>2. Logged(l, loc[t].addr) /\ version[o][l.i] = loc[t].v /\ Is(o, "KILLED")
  BY <1>1 DEF Observes, Is
<1>3. tx[o].gen \in Nat
  <2>1. o \in Tx
    BY DEF LockInv, Locals, Purposes, InConflict
  <2>2. QED
    BY <2>1, WriteSet DEF LockInv
<1>4. Logged(l, loc[t].addr)' /\ Is(o, "KILLED")' /\ l.gen = tx'[o].gen
  BY <1>2, Zenon DEF Logged, Is
<1>5. Keeps(t)' = loc[t].v
  BY DEF Keeps
<1>6. QED
  BY <1>2, <1>3, <1>4, <1>5 DEF Steals

LEMMA CmDecideStep ==
    ASSUME LockInv, NEW t \in Tx, CmDecide(t)
    PROVE  LockInv'
<1> DEFINE o == loc[t].l.owner  s == loc[t].s
<1>1. pc[t] = "cm_decide" /\ status[o] = s /\ pc[t] \in InConflict /\ Accesses(t) /\ loc[t].addr \in Addr
      /\ Observes(t)
  BY DEF LockInv, Locals, CmDecide, InConflict, Accesses, InAccess, Purposes
<1>2. CASE s.s = "KILLED" /\ Goto(t, "steal") /\ UNCHANGED <<shared, status, tx, loc, seen, hist>>
  <2>1. /\ Turn(t, "steal", loc[t]) /\ loc[t] \in LocType /\ loc'[t] = loc[t] /\ pc'[t] = "steal"
        /\ status' = status /\ tx' = tx /\ version' = version
    BY <1>2, Same
  <2>2. Steals(t)'
    BY <1>1, <1>2, <2>1, KilledOther
  <2>3. Observes(t)'
    BY <2>1 DEF Observes
  <2>4. QED
    BY <1>1, <2>1, <2>2, <2>3, ConflictTurn DEF InConflict
<1>3. CASE /\ Goto(t, CASE s.s = "ACTIVE" -> "kill"
                        [] s.s \in {"COMMITTING", "ABORTING"} -> "kill_wait"
                        [] OTHER -> "again")
           /\ UNCHANGED <<shared, status, tx, loc, seen, hist>>
  <2> DEFINE label == CASE s.s = "ACTIVE" -> "kill"
                        [] s.s \in {"COMMITTING", "ABORTING"} -> "kill_wait"
                        [] OTHER -> "again"
  <2>1. label \in {"kill", "kill_wait", "again"} /\ (label = "kill" => s.s = "ACTIVE")
    OBVIOUS
  <2>2. Goto(t, label)
    BY <1>3
  <2> HIDE DEF label
  <2>3. /\ Turn(t, label, loc[t]) /\ loc[t] \in LocType /\ loc'[t] = loc[t] /\ pc'[t] = label
        /\ status' = status /\ tx' = tx /\ version' = version
    BY <1>3, <2>2, Same
  <2>4. Steals(t)'
    BY <2>1, <2>3 DEF Steals
  <2>5. Observes(t)'
    <3>1. Logged(loc[t].l, loc[t].addr) => Logged(loc[t].l, loc[t].addr)'
      BY <2>3, Zenon DEF Logged
    <3>2. QED
      BY <1>1, <2>1, <2>3, <3>1 DEF Observes
  <2>6. label \in InConflict \cup {"again"}
    BY <2>1 DEF InConflict
  <2>7. QED
    BY <1>1, <2>3, <2>4, <2>5, <2>6, ConflictTurn
<1>4. CASE Rollback(t, FALSE, ~Is(t, "KILLED") /\ DELAY_RESTART)
  <2> DEFINE d == ~Is(t, "KILLED") /\ DELAY_RESTART
  <2>1. d \in BOOLEAN /\ Rollback(t, FALSE, d)
    BY <1>4
  <2> HIDE DEF d
  <2>2. QED
    BY <1>1, <2>1, RollbackStep DEF MayAbort
<1>5. QED
  BY <1>2, <1>3, <1>4 DEF CmDecide

LEMMA KillStep ==
    ASSUME LockInv, NEW t \in Tx, Kill(t)
    PROVE  LockInv'
<1> DEFINE l == loc[t].l  o == l.owner
<1>1. TypeInv /\ Stage(t) /\ Position(t) /\ Room(t) /\ Counts(t) /\ Purposes(t) /\ Observes(t)
      /\ pc[t] = "kill" /\ pc[t] \in InConflict /\ Accesses(t)
  BY DEF LockInv, Locals, Kill, InConflict, Accesses, InAccess
<1>2. o \in Tx \ {t} /\ status[o] \in StatusWord /\ tx[o].gen \in Nat
  BY <1>1, WriteSet DEF Purposes, TypeInv
<1>3. CASE status[o] = loc[t].s
  <2>1. status[o].s = "ACTIVE" /\ Logged(l, loc[t].addr) /\ version[o][l.i] = loc[t].v
    BY <1>1, <1>3 DEF Observes
  <2>2. /\ pc' = [pc EXCEPT ![t] = "steal"] /\ status' = [status EXCEPT ![o].s = "KILLED"]
        /\ lock' = lock /\ mem' = mem /\ clock' = clock /\ version' = version
        /\ tx' = tx /\ order' = order /\ loc' = loc /\ seen' = seen /\ hist' = hist
    BY <1>3 DEF Kill, Goto, shared
  <2>3. /\ pc'[t] = "steal" /\ status'[o] = [status[o] EXCEPT !.s = "KILLED"] /\ status'[o] \in StatusWord
        /\ status'[o].s = "KILLED"
        /\ \A u \in Tx \ {t} : pc'[u] = pc[u]
        /\ \A u \in Tx \ {o} : status'[u] = status[u]
    <3>1. [status[o] EXCEPT !.s = "KILLED"] \in StatusWord
      BY <1>2 DEF StatusWord, Status
    <3>2. QED
      BY <1>1, <1>2, <2>2, <3>1 DEF TypeInv, StatusWord
  <2>4. TypeInv'
    <3>1. pc' \in [Tx -> CmLabel] /\ status' \in [Tx -> StatusWord]
      BY <1>1, <1>2, <2>2, <2>3 DEF TypeInv, CmLabel, InAccess, InConflict
    <3>2. QED
      BY <1>1, <2>2, <3>1 DEF TypeInv
  <2>5. \A u \in Tx \ {t} : Spared(u)
    BY <2>1, <2>2, <2>3 DEF Spared
  <2>6. status'[t] = status[t]
    BY <1>2, <2>3
  <2>7. Evolves(t)
    <3>1. status[t].c \in Nat /\ tx[t].gen \in Nat /\ Kept(t)
      BY <1>1, <2>2, WriteSet DEF Kept
    <3>2. tx'[t] = tx[t]
      BY <2>2
    <3>3. QED
      BY <2>6, <3>1, <3>2 DEF Evolves
  <2>8. \A u \in Tx : /\ Passed(u)' = Passed(u) /\ tx'[u].w_set = tx[u].w_set /\ tx'[u].gen = tx[u].gen
                      /\ (Is(u, "KILLED") => Is(u, "KILLED")')
    BY <1>1, <2>2, <2>3 DEF Passed, Is
  <2>9. LocksKept' /\ \A b \in Addr : Holding(b)'
    BY <2>2, <2>8, LocksStay
  <2>10. status[t].s \in {"ACTIVE", "KILLED"} /\ ~Rests(t) /\ Accesses(t)'
    BY <1>1, <2>3 DEF Stage, Rests, Accesses, Extends, InAccess, InConflict, InLoad
  <2>11. Stage(t)' /\ Position(t)'
    BY <2>2, <2>3, <2>6, <2>10 DEF Stage, Position, Rests, Commits, Accesses, Extends,
       InAccess, InConflict, InLoad, Validates, Installs, InInstall
  <2>12. Room(t)' /\ Counts(t)'
    BY <1>1, <2>2, <2>6, <2>10 DEF Room, Counts
  <2>13. Purposes(t)' /\ Observes(t)'
    BY <1>1, <2>2, <2>3, Zenon DEF Purposes, Observes, InConflict, InLoad, InAccess, Accesses
  <2>14. Steals(t)'
    <3>1. Logged(l, loc[t].addr)' /\ Is(o, "KILLED")' /\ l.gen = tx'[o].gen
      BY <2>1, <2>2, <2>3, ZenonT(60) DEF Logged, Is
    <3>2. Keeps(t)' = loc[t].v /\ version'[o][l.i] = loc[t].v
      BY <2>1, <2>2, <2>3 DEF Keeps
    <3>3. QED
      BY <1>2, <2>2, <3>1, <3>2 DEF Steals
  <2>15. QED
    BY <2>4, <2>5, <2>7, <2>9, <2>11, <2>12, <2>13, <2>14, Compose DEF Mine
<1>4. CASE status[o] # loc[t].s
  <2>1. Goto(t, "kill_failed") /\ UNCHANGED <<shared, status, tx, loc, seen, hist>>
    BY <1>4 DEF Kill
  <2>2. /\ Turn(t, "kill_failed", loc[t]) /\ loc[t] \in LocType /\ loc'[t] = loc[t] /\ pc'[t] = "kill_failed"
    BY <2>1, Same
  <2>3. Steals(t)' /\ Observes(t)'
    BY <2>2 DEF Steals, Observes
  <2>4. QED
    BY <1>1, <2>2, <2>3, ConflictTurn DEF InConflict
<1>5. QED
  BY <1>3, <1>4

\* The loops of stm_kill.
LEMMA KillLoops ==
    ASSUME LockInv, NEW t \in Tx, KillWait(t) \/ KillFailed(t)
    PROVE  LockInv'
<1>1. pc[t] \in InConflict /\ Goto(t, "again") /\ UNCHANGED <<shared, status, tx, loc, seen, hist>>
  BY DEF KillWait, KillFailed, InConflict
<1>2. /\ Turn(t, "again", loc[t]) /\ loc[t] \in LocType /\ loc'[t] = loc[t] /\ pc'[t] = "again"
  BY <1>1, Same
<1>3. Steals(t)' /\ Observes(t)'
  BY <1>2 DEF Steals, Observes
<1>4. QED
  BY <1>1, <1>2, <1>3, ConflictTurn

-----------------------------------------------------------------------------
(* Loads and stores: from the lock word to the log *)

LEMMA AcquireWriteStep ==
    ASSUME LockInv, NEW t \in Tx, Accesses(t), NEW a \in Addr, NEW l \in Word, NEW v \in Nat,
           l.owner # t, Stealable(a, l, v), AcquireWrite(t, a, l, v)
    PROVE  LockInv'
<1>1. CASE Rollback(t, TRUE, FALSE)
  BY <1>1, RollbackStep DEF MayAbort
<1>2. CASE Acquire(t, a, l, v, "write")
  BY <1>2, AcquireStep
<1>3. QED
  BY <1>1, <1>2 DEF AcquireWrite

LEMMA StealAcquireStep ==
    ASSUME LockInv, NEW t \in Tx, StealAcquire(t)
    PROVE  LockInv'
<1> DEFINE a == loc[t].addr  l == loc[t].l  v == loc[t].v
<1>1. Purposes(t) /\ Steals(t) /\ pc[t] = "steal" /\ Accesses(t)
  BY DEF LockInv, Locals, StealAcquire, Accesses, InAccess, InConflict
<1>2. a \in Addr /\ l \in Word /\ v \in Nat /\ l.owner # t
  BY <1>1 DEF LockInv, TypeInv, LocType, Purposes, InConflict
<1>3. Stealable(a, l, v)
  BY <1>1 DEF Steals, Stealable, Keeps
<1> HIDE DEF a, l, v
<1>4. Acquire(t, a, l, v, "visible") \/ AcquireWrite(t, a, l, v)
  BY DEF StealAcquire, a, l, v
<1>5. QED
  BY <1>1, <1>2, <1>3, <1>4, AcquireStep, AcquireWriteStep

LEMMA VisibleValueStep ==
    ASSUME LockInv, NEW t \in Tx, VisibleValue(t)
    PROVE  LockInv'
<1> DEFINE v == mem[loc[t].addr]  x == [loc[t] EXCEPT !.value = v]
<1>1. TypeInv /\ Purposes(t) /\ Steals(t) /\ pc[t] = "vis_value" /\ Accesses(t)
  BY DEF LockInv, Locals, VisibleValue, Accesses, InAccess
<1>2. x \in LocType /\ x.addr = loc[t].addr /\ x.l = loc[t].l /\ x.for = loc[t].for
  <2>1. v \in Nat /\ loc[t] \in LocType
    BY <1>1 DEF TypeInv, Purposes
  <2> HIDE DEF v
  <2>2. QED
    BY <2>1 DEF LocType
<1>3. loc' = [loc EXCEPT ![t] = x]
  BY DEF VisibleValue
<1> HIDE DEF x
<1>4. Turn(t, "acquire_cas", x) /\ "acquire_cas" \in CmLabel /\ "acquire_cas" \in InAccess
  BY <1>3 DEF VisibleValue, Turn, CmLabel, InAccess
<1>5. pc'[t] = "acquire_cas" /\ loc'[t] = x /\ status' = status /\ tx' = tx /\ version' = version
  BY <1>1, <1>4 DEF Turn, Goto, TypeInv, shared
<1>6. Purposes(t)'
  BY <1>1, <1>2, <1>5 DEF Purposes, Accesses, InAccess, InConflict, InLoad
<1>7. Observes(t)'
  BY <1>5 DEF Observes
<1>8. Steals(t)'
  BY <1>1, <1>2, <1>5, Zenon DEF Steals, Keeps, Logged, Is
<1>9. QED
  BY <1>1, <1>2, <1>4, <1>6, <1>7, <1>8, TurnAccess

\* What follows the load of the lock word, in any order of the alternatives.
Reads(t, a, l, for) ==
    \/ /\ for = "invisible" /\ ~(l.write /\ ~IsFree(l))
       /\ Turn(t, "load_value", With(a, l, for))
    \/ for = "visible" /\ IsFree(l) /\ Acquire(t, a, l, l.version, for)
    \/ for = "write" /\ IsFree(l) /\ AcquireWrite(t, a, l, l.version)
    \/ MyEntry(t, l) /\ for = "write" /\ ~l.write /\ Turn(t, "upgrade", With(a, l, for))
    \/ Rollback(t, FALSE, FALSE)
    \/ Return(t)
    \/ /\ Conflict(t, a, l, for)
       /\ ~IsFree(l) /\ ~MyEntry(t, l)

LEMMA ReadsLock ==
    ASSUME NEW t, NEW a, NEW l, NEW for \in {"invisible", "visible", "write"}, ReadLock(t, a, l, for),
           IsFree(l) => ~l.write
    PROVE  Reads(t, a, l, for)
<1> DEFINE A == for = "invisible" /\ ~(l.write /\ ~IsFree(l))
           B == for = "visible" /\ IsFree(l)
           C == for = "write" /\ IsFree(l)
           D == MyEntry(t, l)
           a1 == /\ Goto(t, "load_value")
                 /\ loc' = [loc EXCEPT ![t] = [NoLoc EXCEPT !.addr = a, !.l = l, !.for = for]]
                 /\ UNCHANGED <<shared, status, tx, seen, hist>>
           b1 == Acquire(t, a, l, l.version, for)
           c1 == AcquireWrite(t, a, l, l.version)
           d0 == /\ Goto(t, "upgrade")
                 /\ loc' = [loc EXCEPT ![t] = [NoLoc EXCEPT !.addr = a, !.l = l, !.for = for]]
                 /\ UNCHANGED <<shared, status, tx, seen, hist>>
           d1 == IF for = "write" /\ ~l.write THEN d0
                 ELSE IF for = "visible" /\ Is(t, "KILLED") THEN Rollback(t, FALSE, FALSE)
                 ELSE Return(t)
           e1 == Conflict(t, a, l, for)
<1>1. (CASE A -> a1 [] B -> b1 [] C -> c1 [] D -> d1 [] OTHER -> e1)
  BY DEF ReadLock
<1>2. a1 => Turn(t, "load_value", With(a, l, for))
  BY DEF Turn, With
<1>3. d0 => Turn(t, "upgrade", With(a, l, for))
  BY DEF Turn, With
<1>4. d1 => \/ for = "write" /\ ~l.write /\ Turn(t, "upgrade", With(a, l, for))
            \/ Rollback(t, FALSE, FALSE) \/ Return(t)
  BY <1>3
<1>5. IsFree(l) => A \/ B \/ C
  OBVIOUS
<1> HIDE DEF a1, b1, c1, d1, e1
<1>6. (A /\ a1) \/ (B /\ b1) \/ (C /\ c1) \/ (D /\ d1) \/ (~A /\ ~B /\ ~C /\ ~D /\ e1)
  BY <1>1
<1>7. QED
  BY <1>2, <1>4, <1>5, <1>6 DEF Reads, b1, c1, e1

LEMMA ReadLockStep ==
    ASSUME LockInv, NEW t \in Tx, Accesses(t), NEW for \in {"invisible", "visible", "write"},
           ReadLock(t, loc[t].addr, lock[loc[t].addr], for)
    PROVE  LockInv'
<1> DEFINE a == loc[t].addr  l == lock[a]  x == With(a, l, for)
<1>1. TypeInv /\ Purposes(t) /\ a \in Addr
  BY DEF LockInv, Locals, Purposes
<1>2. l \in Word /\ Holding(a)
  BY <1>1 DEF LockInv, TypeInv
<1>3. IsFree(l) => l.version \in Nat /\ ~l.write /\ l.owner # t
  <2>1. t # -1 /\ -1 \notin Tx
    BY CmAssumption DEF CmAssumption
  <2>2. IsFree(l) => l.version \in Nat /\ l = Free(l.version)
    BY <1>2, Words
  <2>3. QED
    BY <2>1, <2>2 DEF IsFree, Free
<1>4. x \in LocType /\ x.addr = a /\ x.l = l /\ x.for = for
  BY <1>1, <1>2, Fresh DEF Purpose
<1>5. loc \in [Tx -> LocType] /\ pc \in [Tx -> CmLabel]
  BY <1>1 DEF TypeInv
<1> HIDE DEF x
<1>6. Reads(t, a, l, for)
  BY <1>3, ReadsLock
<1>7. CASE Turn(t, "load_value", x)
  <2>1. pc'[t] = "load_value" /\ loc'[t] = x
    BY <1>5, <1>7 DEF Turn, Goto
  <2>2. "load_value" \in CmLabel /\ "load_value" \in InAccess
    BY DEF CmLabel, InAccess, InLoad
  <2>3. Purposes(t)'
    BY <1>1, <1>4, <2>1 DEF Purposes, Accesses, InAccess, InConflict, InLoad
  <2>4. Observes(t)' /\ Steals(t)'
    BY <2>1 DEF Observes, Steals
  <2>5. QED
    BY <1>4, <1>7, <2>2, <2>3, <2>4, TurnAccess
<1>8. CASE for = "visible" /\ IsFree(l) /\ Acquire(t, a, l, l.version, for)
  BY <1>1, <1>2, <1>3, <1>8, AcquireStep DEF Stealable
<1>9. CASE for = "write" /\ IsFree(l) /\ AcquireWrite(t, a, l, l.version)
  BY <1>1, <1>2, <1>3, <1>9, AcquireWriteStep DEF Stealable
<1>10. CASE MyEntry(t, l) /\ for = "write" /\ ~l.write /\ Turn(t, "upgrade", x)
  <2>1. pc'[t] = "upgrade" /\ loc'[t] = x /\ tx' = tx
    BY <1>5, <1>10 DEF Turn, Goto
  <2>2. "upgrade" \in CmLabel /\ "upgrade" \in InAccess
    BY DEF CmLabel, InAccess
  <2>3. l.owner = t /\ ~IsFree(l)
    BY <1>10, <1>3 DEF MyEntry
  <2>4. Logged(l, a) /\ ~tx[t].w_set[l.i].mask
    BY <1>2, <1>10, <2>3 DEF Holding
  <2>5. Logged(loc[t].l, loc[t].addr)'
    BY <1>4, <2>1, <2>4, Zenon DEF Logged
  <2>6. Purposes(t)'
    BY <1>1, <1>4, <1>10, <2>1, <2>3, <2>4, <2>5 DEF Purposes, Accesses, InAccess, InConflict, InLoad
  <2>7. Observes(t)' /\ Steals(t)'
    BY <2>1 DEF Observes, Steals
  <2>8. QED
    BY <1>4, <1>10, <2>2, <2>6, <2>7, TurnAccess
<1>11. CASE Rollback(t, FALSE, FALSE)
  BY <1>11, RollbackStep DEF MayAbort
<1>12. CASE Return(t)
  BY <1>12, ReturnStep
<1>13. CASE Conflict(t, a, l, for) /\ ~IsFree(l) /\ ~MyEntry(t, l)
  <2>1. l.owner \in Tx /\ Logged(l, a)
    BY <1>2, <1>13, Words, Zenon DEF Holding
  <2>2. l.owner # t
    <3>1. SUFFICES ASSUME l.owner = t PROVE FALSE
      OBVIOUS
    <3>2. l.gen = tx[t].gen /\ l.i \in 1 .. Len(tx[t].w_set)
      BY <1>1, <2>1, <3>1, WriteSet, ZenonT(60) DEF Logged
    <3>3. l.i <= Len(tx[t].w_set)
      BY <3>2
    <3>4. QED
      BY <1>13, <3>1, <3>2, <3>3 DEF MyEntry
  <2>3. QED
    BY <1>1, <1>2, <1>13, <2>1, <2>2, ConflictStep
<1>14. QED
  BY <1>6, <1>7, <1>8, <1>9, <1>10, <1>11, <1>12, <1>13 DEF Reads, x

\* On with an invisible load.
LEMMA LoadTurn ==
    ASSUME LockInv, NEW t \in Tx, pc[t] \in InLoad, NEW label, NEW x \in LocType, Turn(t, label, x),
           label \in {"load_relock", "load_version", "load_check"} \/ (label = "validate" /\ x.for = "extend"),
           label = "load_version" => ~IsFree(x.l),
           x.addr = loc[t].addr, x.for \in {loc[t].for, "extend"}
    PROVE  LockInv'
<1>1. Purposes(t) /\ Accesses(t) /\ pc \in [Tx -> CmLabel] /\ loc \in [Tx -> LocType]
  BY DEF LockInv, Locals, TypeInv, Accesses, InAccess
<1>2. pc'[t] = label /\ loc'[t] = x
  BY <1>1 DEF Turn, Goto
<1>3. label \in CmLabel /\ (label \in InAccess \/ (label = "validate" /\ x.for = "extend"))
  BY DEF CmLabel, InAccess, InLoad
<1>4. loc[t].for # "commit" /\ loc[t].addr \in Addr
  BY <1>1 DEF Purposes
<1>5. Purposes(t)'
  BY <1>2, <1>4 DEF Purposes, Accesses, InAccess, InConflict, InLoad
<1>6. Observes(t)' /\ Steals(t)'
  BY <1>2 DEF Observes, Steals
<1>7. QED
  BY <1>1, <1>3, <1>5, <1>6, TurnAccess

\* The version of the entry that a taken lock points to is one, whose ever it is.
LEMMA EntryVersion ==
    ASSUME LockInv, NEW l \in Word, ~IsFree(l)
    PROVE  version[l.owner][l.i] \in Nat
<1>1. l.owner \in Tx /\ l.i \in Entry
  BY Words
<1>2. QED
  BY <1>1 DEF LockInv, TypeInv

LEMMA LoadSteps ==
    ASSUME LockInv, NEW t \in Tx, LoadValue(t) \/ LoadRelock(t) \/ LoadVersion(t)
    PROVE  LockInv'
<1> DEFINE l == loc[t].l
<1>1. TypeInv /\ Purposes(t) /\ pc[t] \in InLoad /\ loc[t] \in LocType /\ l \in Word /\ loc[t].v \in Nat
      /\ loc[t].addr \in Addr
  BY DEF LockInv, Locals, TypeInv, LocType, LoadValue, LoadRelock, LoadVersion, InLoad, Purposes, Accesses, InAccess
<1>2. CASE LoadValue(t)
  <2> DEFINE v == mem[loc[t].addr]  x == [loc[t] EXCEPT !.value = v]
  <2>1. x \in LocType /\ x.addr = loc[t].addr /\ x.for = loc[t].for
    <3>1. v \in Nat
      BY <1>1 DEF TypeInv
    <3> HIDE DEF v
    <3>2. QED
      BY <1>1, <3>1 DEF LocType
  <2>2. loc' = [loc EXCEPT ![t] = x]
    BY <1>2 DEF LoadValue
  <2> HIDE DEF x
  <2>3. Turn(t, "load_relock", x)
    BY <1>2, <2>2 DEF LoadValue, Turn
  <2>4. QED
    BY <1>1, <2>1, <2>3, LoadTurn
<1>3. CASE LoadRelock(t)
  <2> DEFINE v == IF IsFree(l) THEN l.version ELSE version[l.owner][l.i]  x == [loc[t] EXCEPT !.v = v]
             label == IF IsFree(l) THEN "load_check" ELSE "load_version"
  <2>1. v \in Nat
    BY <1>1, EntryVersion, Words
  <2>2. Goto(t, label) /\ label \in {"load_check", "load_version"} /\ loc' = [loc EXCEPT ![t] = x]
    BY <1>3 DEF LoadRelock
  <2>6. label = "load_version" => ~IsFree(l)
    OBVIOUS
  <2> HIDE DEF v, label
  <2>3. x \in LocType /\ x.addr = loc[t].addr /\ x.for = loc[t].for /\ x.l = l
    BY <1>1, <2>1 DEF LocType
  <2> HIDE DEF x
  <2>4. Turn(t, label, x)
    BY <1>3, <2>2 DEF LoadRelock, Turn
  <2>5. QED
    BY <1>1, <2>2, <2>3, <2>4, <2>6, LoadTurn
<1>4. CASE LoadVersion(t)
  <2> DEFINE v == IF l.gen = tx[l.owner].gen THEN version[l.owner][l.i] ELSE loc[t].v
             x == [loc[t] EXCEPT !.v = v]
  <2>1. loc' = [loc EXCEPT ![t] = x]
    BY <1>1, <1>4 DEF LoadVersion
  <2>2. v \in Nat
    BY <1>1, <1>4, EntryVersion DEF LoadVersion, Purposes
  <2> HIDE DEF v
  <2>3. x \in LocType /\ x.addr = loc[t].addr /\ x.for = loc[t].for
    BY <1>1, <2>2 DEF LocType
  <2> HIDE DEF x
  <2>4. Turn(t, "load_check", x)
    BY <1>4, <2>1 DEF LoadVersion, Turn
  <2>5. QED
    BY <1>1, <2>3, <2>4, LoadTurn
<1>5. QED
  BY <1>2, <1>3, <1>4

LEMMA CheckSteps ==
    ASSUME LockInv, NEW t \in Tx, LoadCheck(t) \/ Recheck(t)
    PROVE  LockInv'
<1>1. TypeInv /\ pc[t] \in InLoad /\ Accesses(t) /\ loc[t] \in LocType
  BY DEF LockInv, Locals, TypeInv, LoadCheck, Recheck, InLoad, Accesses, InAccess
<1>2. CASE Rollback(t, FALSE, FALSE)
  BY <1>1, <1>2, RollbackStep DEF MayAbort
<1>3. CASE Log(t)
  BY <1>1, <1>3, LogStep
<1>4. CASE /\ loc' = [loc EXCEPT ![t].now = clock, ![t].i = 1, ![t].for = "extend"]
           /\ Goto(t, "validate")
           /\ UNCHANGED <<shared, status, tx, seen, hist>>
  <2> DEFINE x == [loc[t] EXCEPT !.now = clock, !.i = 1, !.for = "extend"]
  <2>1. x \in LocType /\ x.addr = loc[t].addr /\ x.for = "extend"
    <3>1. clock \in Nat /\ 1 \in Nat \ {0} /\ "extend" \in Purpose
      BY <1>1 DEF TypeInv, Purpose
    <3>2. QED
      BY <1>1, <3>1 DEF LocType
  <2>2. loc' = [loc EXCEPT ![t] = x]
    BY <1>1, <1>4 DEF TypeInv
  <2> HIDE DEF x
  <2>3. Turn(t, "validate", x)
    BY <1>4, <2>2 DEF Turn
  <2>4. QED
    BY <1>1, <2>1, <2>3, LoadTurn
<1>5. QED
  BY <1>2, <1>3, <1>4 DEF LoadCheck, Recheck

\* Back to the lock word.
LEMMA AgainSteps ==
    ASSUME LockInv, NEW t \in Tx, Again(t) \/ Restart(t)
    PROVE  LockInv'
<1>1. Accesses(t) /\ Purposes(t)
  BY DEF LockInv, Locals, Again, Restart, Accesses, InAccess, InConflict, InLoad
<1>2. CASE Again(t)
  <2>1. loc[t].for \in {"invisible", "visible", "write"}
    BY <1>1, <1>2 DEF Again, Purposes
  <2>2. QED
    BY <1>1, <1>2, <2>1, ReadLockStep DEF Again
<1>3. CASE Restart(t) /\ pc[t] \in {"acquire_cas", "cm_decide"}
  <2>1. Goto(t, "again") /\ UNCHANGED <<shared, status, tx, loc, seen, hist>>
    BY <1>3 DEF Restart
  <2>2. /\ Turn(t, "again", loc[t]) /\ loc[t] \in LocType /\ loc'[t] = loc[t] /\ pc'[t] = "again"
    BY <2>1, Same
  <2>3. "again" \in CmLabel /\ "again" \in InAccess
    BY DEF CmLabel, InAccess
  <2>4. Purposes(t)'
    BY <1>1, <1>3, <2>2 DEF Purposes, Accesses, InAccess, InConflict, InLoad
  <2>5. Observes(t)' /\ Steals(t)'
    BY <2>2 DEF Observes, Steals
  <2>6. QED
    BY <1>1, <2>2, <2>3, <2>4, <2>5, TurnAccess
<1>4. CASE Restart(t) /\ pc[t] \notin {"acquire_cas", "cm_decide"}
  <2> DEFINE for == IF pc[t] = "cm_lock" THEN loc[t].for ELSE "invisible"
  <2>1. for \in {"invisible", "visible", "write"}
    BY <1>1 DEF Purposes, InConflict
  <2>2. ReadLock(t, loc[t].addr, lock[loc[t].addr], for)
    BY <1>4 DEF Restart
  <2> HIDE DEF for
  <2>3. QED
    BY <1>1, <2>1, <2>2, ReadLockStep
<1>5. QED
  BY <1>2, <1>3, <1>4

LEMMA AccessSteps ==
    ASSUME LockInv, NEW t \in Tx, Load(t) \/ Store(t)
    PROVE  LockInv'
<1>1. pc[t] = "active" /\ LogRoom(t) /\ pc \in [Tx -> CmLabel] /\ loc \in [Tx -> LocType]
  BY DEF Load, Store, LockInv, TypeInv
<1>2. CASE Rollback(t, FALSE, FALSE)
  BY <1>1, <1>2, RollbackStep DEF MayAbort
<1>3. ASSUME NEW a \in Addr, NEW for \in {"invisible", "visible", "write"},
             loc' = [loc EXCEPT ![t] = [NoLoc EXCEPT !.addr = a, !.for = for]],
             Goto(t, "again"), UNCHANGED <<shared, status, tx, seen, hist>>
      PROVE  LockInv'
  <2> DEFINE x == Begun(a, for)
  <2>1. x \in LocType /\ x.addr = a /\ x.for = for
    <3>1. Free(0) \in Word
      BY DEF Free, Word
    <3>2. QED
      BY <3>1, Fresh DEF Purpose
  <2>2. loc' = [loc EXCEPT ![t] = x]
    BY <1>3 DEF Begun
  <2> HIDE DEF x
  <2>3. Turn(t, "again", x) /\ "again" \in CmLabel /\ "again" \in InAccess
    BY <1>3, <2>2 DEF Turn, CmLabel, InAccess
  <2>4. pc'[t] = "again" /\ loc'[t] = x
    BY <1>1, <2>3 DEF Turn, Goto
  <2>5. Purposes(t)'
    BY <2>1, <2>4 DEF Purposes, Accesses, InAccess, InConflict, InLoad
  <2>6. Observes(t)' /\ Steals(t)'
    BY <2>4 DEF Observes, Steals
  <2>7. QED
    BY <1>1, <2>1, <2>3, <2>5, <2>6, TurnAccess
<1>4. CASE Load(t)
  <2> DEFINE for == IF tx[t].visible THEN "visible" ELSE "invisible"
  <2>1. for \in {"invisible", "visible", "write"}
    OBVIOUS
  <2>2. Rollback(t, FALSE, FALSE) \/
        (\E a \in Addr : loc' = [loc EXCEPT ![t] = [NoLoc EXCEPT !.addr = a, !.for = for]]
          /\ Goto(t, "again") /\ UNCHANGED <<shared, status, tx, seen, hist>>)
    BY <1>4 DEF Load
  <2> HIDE DEF for
  <2>3. QED
    BY <1>2, <1>3, <2>1, <2>2, Zenon
<1>5. CASE Store(t)
  <2>1. Rollback(t, FALSE, FALSE) \/
        (\E a \in Addr : loc' = [loc EXCEPT ![t] = [NoLoc EXCEPT !.addr = a, !.for = "write"]]
          /\ Goto(t, "again") /\ UNCHANGED <<shared, status, tx, seen, hist>>)
    BY <1>5 DEF Store
  <2>2. QED
    BY <1>2, <1>3, <2>1, ZenonT(60)
<1>6. QED
  BY <1>4, <1>5

-----------------------------------------------------------------------------
(* The invariant of the locks *)

LEMMA LockInit ==
    ASSUME Init
    PROVE  LockInv
<1>1. NoLoc \in LocType /\ NoLoc.i = 1 /\ NoLoc.for = "none" /\ Free(0) \in Word /\ IsFree(Free(0))
  <2>1. Free(0) \in Word /\ IsFree(Free(0))
    BY DEF Free, Word, IsFree
  <2>2. QED
    BY <2>1 DEF NoLoc, LocType, AnyAddr, StatusWord, Status, Purpose
<1>2. NoTx \in TxType /\ NoTx.w_set = <<>> /\ NoTx.r_set = <<>> /\ NoTx.gen = 0
  <2> DEFINE R == Seq([addr : Addr, version : Nat])  S == Seq([addr : Addr, mask : BOOLEAN])
             T == [start : Nat, end : Nat, r_set : R, w_set : S, gen : Nat, visible : BOOLEAN,
                   visible_reads : Nat, retries : {0, 1}, timestamp : Nat, ticket : Nat, nb : Nat]
  <2>1. <<>> \in R /\ <<>> \in S
    OBVIOUS
  <2> DEFINE r == <<>>  s == <<>>
  <2>2. ASSUME NEW p \in R, NEW q \in S
        PROVE  [start |-> 0, end |-> 0, r_set |-> p, w_set |-> q, gen |-> 0, visible |-> FALSE,
                visible_reads |-> 0, retries |-> 0, timestamp |-> 0, ticket |-> 0, nb |-> 0] \in T
    <3> HIDE DEF R, S
    <3>1. QED
      OBVIOUS
  <2>3. NoTx \in T
    BY <2>1, <2>2 DEF NoTx
  <2>4. NoTx.w_set = <<>> /\ NoTx.r_set = <<>> /\ NoTx.gen = 0
    BY DEF NoTx
  <2>5. QED
    BY <2>3, <2>4 DEF TxType
<1>3. TypeInv
  <2>1. lock \in [Addr -> Word] /\ mem \in [Addr -> Nat] /\ clock \in Nat /\ version \in [Tx -> [Entry -> Nat]]
    BY <1>1 DEF Init
  <2>2. status \in [Tx -> StatusWord] /\ pc \in [Tx -> CmLabel]
    BY DEF Init, StatusWord, Status, CmLabel
  <2>3. tx \in [Tx -> TxType] /\ loc \in [Tx -> LocType]
    BY <1>1, <1>2 DEF Init
  <2>4. order \in [next : Nat, commit : Nat] /\ hist \in [Addr -> SUBSET Nat]
        /\ seen \in [Tx -> SUBSET [addr : Addr, value : Nat]]
    BY DEF Init
  <2>5. QED
    BY <2>1, <2>2, <2>3, <2>4 DEF TypeInv
<1>4. ASSUME NEW t \in Tx
      PROVE  /\ Stage(t) /\ Position(t) /\ Room(t) /\ Counts(t) /\ Purposes(t) /\ Observes(t) /\ Steals(t)
             /\ \A i \in Passed(t) + 1 .. Len(tx[t].w_set) : Points(t, i)
  <2>1. /\ pc[t] = "idle" /\ loc[t] = NoLoc /\ tx[t] = NoTx /\ status[t].s = "IDLE" /\ status[t].c = 0
    BY DEF Init
  <2>2. Rests(t) /\ ~Accesses(t) /\ ~Commits(t)
    BY <2>1 DEF Rests, Accesses, Commits, Extends, Validates, Installs, InInstall, InAccess, InConflict, InLoad
  <2>3. Stage(t) /\ Position(t)
    BY <1>2, <2>1, <2>2 DEF Stage, Position
  <2>4. tx[t].w_set = <<>> /\ tx[t].r_set = <<>> /\ tx[t].gen = 0
    BY <1>2, <2>1
  <2>5. Room(t) /\ Counts(t)
    <3>1. MaxLog \in Nat /\ COUNTER_MAX \in Nat \ {0}
      BY CmAssumption DEF CmAssumption
    <3>2. Len(tx[t].w_set) = 0 /\ Len(tx[t].r_set) = 0
      BY <2>4
    <3>3. Len(tx[t].r_set) + Len(tx[t].w_set) <= MaxLog
      BY <3>1, <3>2
    <3>4. QED
      BY <2>1, <2>2, <2>4, <3>1, <3>3 DEF Room, Counts
  <2>6. Purposes(t) /\ Observes(t) /\ Steals(t)
    BY <1>1, <2>1, <2>2 DEF Purposes, Observes, Steals, InConflict, InLoad, InAccess
  <2>7. ASSUME NEW i \in Passed(t) + 1 .. Len(tx[t].w_set) PROVE FALSE
    <3>1. Passed(t) = 0 /\ Len(tx[t].w_set) = 0
      BY <2>1, <2>4 DEF Passed
    <3>2. QED
      BY <2>7, <3>1
  <2>8. QED
    BY <2>3, <2>5, <2>6, <2>7
<1>5. \A a \in Addr : Holding(a)
  BY <1>1 DEF Init, Holding
<1>6. QED
  BY <1>3, <1>4, <1>5 DEF LockInv, Locals, LocksKept

LEMMA LockStutter ==
    ASSUME LockInv, UNCHANGED vars
    PROVE  LockInv'
<1>1. /\ lock' = lock /\ mem' = mem /\ clock' = clock /\ status' = status /\ version' = version
      /\ tx' = tx /\ pc' = pc /\ loc' = loc /\ order' = order /\ seen' = seen /\ hist' = hist
  BY DEF vars
<1>2. TypeInv'
  BY <1>1 DEF LockInv, TypeInv
<1>3. ASSUME NEW t \in Tx
      PROVE  /\ Spared(t) /\ Evolves(t) /\ Mine(t)' /\ Observes(t)' /\ Steals(t)' /\ Passed(t)' = Passed(t)
  <2>1. Spared(t) /\ \A o \in Tx : Spared(o)
    BY <1>1 DEF Spared
  <2>2. \A o \in Tx : Evolves(o)
    BY <2>1, SparedEvolves DEF LockInv
  <2>3. Mine(t) /\ TypeInv
    BY DEF LockInv, Locals, Mine
  <2>4. Passed(t)' = Passed(t)
    BY <1>1 DEF Passed
  <2>5. QED
    BY <1>2, <2>1, <2>2, <2>3, <2>4, SparedMine, SparedObserves, SparedSteals
<1>4. LocksKept' /\ \A a \in Addr : Holding(a)'
  BY <1>1, <1>3, LocksStay DEF Is
<1>5. QED
  BY <1>2, <1>3, <1>4 DEF LockInv, Locals, Mine

\* Every step keeps it, as long as the counts do not wrap.
LEMMA LockStep ==
    ASSUME CountsWrap = FALSE, LockInv, [Next]_vars
    PROVE  LockInv'
<1>1. CASE UNCHANGED vars
  BY <1>1, LockStutter
<1>2. ASSUME NEW t \in Tx, Running(t)
      PROVE  LockInv'
  <2>1. CASE Retry(t)
    BY <2>1, StartStep
  <2>2. CASE mod_order_on_start(t) \/ mod_order_on_commit(t)
    BY <2>2, OrderSteps
  <2>3. CASE Abort(t)
    BY <2>3, AbortStep
  <2>4. CASE RollbackDrop(t) \/ StmDrop(t) \/ InstallDrop(t)
    BY <2>4, DropStep DEF Drops
  <2>5. CASE Dropped(t)
    BY <2>5, DroppedStep
  <2>6. CASE WaitLock(t)
    BY <2>6, WaitLockStep
  <2>7. CASE CmStatus(t) \/ CmLock(t) \/ CmDecide(t)
    BY <2>7, CmStatusStep, CmLockStep, CmDecideStep
  <2>8. CASE Kill(t) \/ KillWait(t) \/ KillFailed(t)
    BY <2>8, KillStep, KillLoops
  <2>9. CASE StealFree(t) \/ StealAcquire(t) \/ VisibleValue(t)
    BY <2>9, StealFreeStep, StealAcquireStep, VisibleValueStep
  <2>10. CASE AcquireCas(t) \/ Upgrade(t)
    BY <2>10, AcquireCasStep, UpgradeStep
  <2>11. CASE Again(t) \/ Restart(t)
    BY <2>11, AgainSteps
  <2>12. CASE LoadValue(t) \/ LoadRelock(t) \/ LoadVersion(t) \/ LoadCheck(t) \/ Recheck(t)
    BY <2>12, LoadSteps, CheckSteps
  <2>13. CASE Validate(t)
    BY <2>13, ValidateStep
  <2>14. CASE Extended(t)
    BY <2>14, ExtendedStep
  <2>15. CASE mod_order_on_precommit(t)
    BY <2>15, CommitTurns
  <2>16. CASE CommitCas(t)
    BY <2>16, CommitCasStep
  <2>17. CASE ReadOnlyDrop(t)
    <3>1. CASE loc[t].i <= Len(tx[t].w_set)
      BY <2>17, <3>1, DropStep DEF Drops
    <3>2. CASE loc[t].i > Len(tx[t].w_set)
      BY <2>17, <3>2, InstallStep
    <3>3. QED
      BY <2>17, <3>1, <3>2 DEF ReadOnlyDrop
  <2>18. CASE CommitClock(t) \/ CommitValidated(t)
    BY <2>18, StampStep
  <2>19. CASE Install(t)
    BY <2>19, InstallStep
  <2>20. CASE Committed(t)
    BY <2>20, CommittedStep
  <2>21. QED
    BY <1>2, <2>1, <2>2, <2>3, <2>4, <2>5, <2>6, <2>7, <2>8, <2>9, <2>10, <2>11, <2>12, <2>13, <2>14,
       <2>15, <2>16, <2>17, <2>18, <2>19, <2>20 DEF Running
<1>3. ASSUME NEW t \in Tx, Start(t) \/ Load(t) \/ Store(t) \/ Commit(t)
      PROVE  LockInv'
  BY <1>3, StartStep, AccessSteps, CommitTurns
<1>4. QED
  BY <1>1, <1>2, <1>3 DEF Next

THEOREM LockInvariant == ASSUME CountsWrap = FALSE PROVE Spec => []LockInv
<1>1. LockInv /\ [Next]_vars => LockInv'
  BY LockStep
<1>2. QED
  BY <1>1, LockInit, PTL DEF Spec

\* A transaction has its locks until it is killed or drops them, whatever the
\* contention manager decides: what stm_kill and the compare-and-swaps of the status
\* words are for.
THEOREM NobodyLosesLocks == ASSUME CountsWrap = FALSE PROVE Spec => []LocksKept
<1>1. LockInv => LocksKept
  BY DEF LockInv
<1>2. QED
  BY <1>1, LockInvariant, PTL

\* A taken lock points to a live entry of its owner: stm_drop and the thieves leave no
\* lock of an attempt that is over.
THEOREM NoStaleLocks == ASSUME CountsWrap = FALSE PROVE Spec => []NoLockLeft
<1>1. ASSUME LockInv PROVE NoLockLeft
  <2>1. SUFFICES ASSUME NEW a \in Addr, ~IsFree(lock[a])
                 PROVE  /\ MyEntry(lock[a].owner, lock[a]) /\ lock[a].i > Passed(lock[a].owner)
                        /\ tx[lock[a].owner].w_set[lock[a].i].addr = a
    BY DEF NoLockLeft
  <2>2. Holding(a) /\ TypeInv /\ lock[a].owner \in Tx
    BY <1>1, <2>1, Words DEF LockInv, TypeInv
  <2>3. Logged(lock[a], a) /\ lock[a].i > Passed(lock[a].owner)
    BY <2>1, <2>2 DEF Holding
  <2>4. lock[a].i \in 1 .. Len(tx[lock[a].owner].w_set)
    BY <2>2, <2>3, WriteSet DEF Logged
  <2>5. lock[a].i <= Len(tx[lock[a].owner].w_set)
    BY <2>4
  <2>6. QED
    BY <2>3, <2>5 DEF MyEntry, Logged
<1>2. QED
  BY <1>1, LockInvariant, PTL

-----------------------------------------------------------------------------
(* What memory holds *)

\* What the others see of a step of t: history and memory grow, history only where t has
\* the lock; t takes a lock with a word that points to no entry yet.
Shares(t) ==
    /\ clock' \in Nat /\ clock <= clock'
    /\ \A b \in Addr : hist[b] \subseteq hist'[b] /\ mem'[b] \in Nat /\ mem[b] <= mem'[b]
    /\ \A b \in Addr : hist'[b] = hist[b] \/ lock[b].owner = t
    /\ \A b \in Addr, l \in Word : lock'[b] = l /\ lock[b] # l /\ ~IsFree(l) =>
          l.owner = t /\ l.gen = tx[t].gen /\ ~Logged(l, b)

\* A lock that a commit validates with is its own.
LEMMA Locked ==
    ASSUME LockInv, NEW t \in Tx, ~Is(t, "KILLED"), NEW i \in DOMAIN tx[t].w_set, i > Passed(t)
    PROVE  /\ lock[tx[t].w_set[i].addr] = Owned(t, i, tx[t].w_set[i].mask)
           /\ lock[tx[t].w_set[i].addr].owner = t /\ ~IsFree(lock[tx[t].w_set[i].addr])
           /\ lock[tx[t].w_set[i].addr].i = i
           /\ lock[tx[t].w_set[i].addr].write = tx[t].w_set[i].mask
           /\ tx[t].w_set[i].addr \in Addr
<1>1. Passed(t) \in Nat /\ DOMAIN tx[t].w_set = 1 .. Len(tx[t].w_set) /\ Len(tx[t].w_set) \in Nat
      /\ tx[t].w_set[i].addr \in Addr
  BY WriteSet DEF LockInv
<1>2. i \in Passed(t) + 1 .. Len(tx[t].w_set)
  BY <1>1
<1>3. Points(t, i)
  BY <1>2 DEF LockInv, LocksKept
<1>4. t # -1
  BY CmAssumption DEF CmAssumption
<1>5. QED
  BY <1>1, <1>3, <1>4 DEF Points, Owned, IsFree

LEMMA OthersMem ==
    ASSUME MemInv, NEW t \in Tx, Shares(t), NEW u \in Tx \ {t}, Spared(u)
    PROVE  Dated(u)' /\ Acquires(u)'
<1>1. LockInv /\ TypeInv /\ Dated(u) /\ Acquires(u) /\ Steals(u) /\ Stage(u) /\ Purposes(u)
  BY DEF MemInv, LockInv, Locals
<1>2. /\ pc'[u] = pc[u] /\ loc'[u] = loc[u] /\ tx'[u] = tx[u] /\ version'[u] = version[u]
  BY DEF Spared
<1>3. loc[u].v \in Nat /\ clock \in Nat /\ clock' \in Nat /\ clock <= clock' /\ loc[u].l \in Word
      /\ loc[u].value \in Nat
  BY <1>1 DEF TypeInv, LocType, Shares
<1>4. Validates(u)' = Validates(u) /\ Installs(u)' = Installs(u)
  BY <1>2 DEF Validates, Installs
<1>5. ASSUME Validates(u), NEW i \in DOMAIN tx[u].w_set
      PROVE  hist'[tx[u].w_set[i].addr] = hist[tx[u].w_set[i].addr]
  <2>1. ~Is(u, "KILLED") /\ Passed(u) = 0
    BY <1>1, <1>5 DEF Stage, Commits, Validates, Passed, Is
  <2>2. i > 0
    BY <1>1, WriteSet
  <2>3. lock[tx[u].w_set[i].addr].owner = u /\ tx[u].w_set[i].addr \in Addr
    BY <1>1, <2>1, <2>2, Locked
  <2>4. QED
    BY <2>3 DEF Shares
<1>6. Dated(u)'
  BY <1>1, <1>2, <1>3, <1>4, <1>5 DEF Dated
<1>7. Acquires(u)'
  <2> DEFINE l == loc[u].l  a == loc[u].addr  n == Len(tx[u].w_set) + 1
  <2>1. SUFFICES ASSUME pc[u] \in {"vis_value", "acquire_cas"}
                 PROVE  Acquires(u)'
    BY <1>2 DEF Acquires
  <2>2. a \in Addr /\ mem[a] \in Nat
    BY <1>1, <2>1 DEF Purposes, Accesses, InAccess, TypeInv
  <2>3. IsFree(l) => version'[u][n] = l.version
    BY <1>1, <1>2, <2>1 DEF Acquires
  <2>4. pc[u] = "vis_value" /\ IsFree(l) => l.version <= mem'[a]
    <3>1. SUFFICES ASSUME pc[u] = "vis_value", IsFree(l) PROVE l.version <= mem'[a]
      OBVIOUS
    <3>2. l.version <= mem[a] /\ mem[a] <= mem'[a] /\ l.version \in Nat /\ mem[a] \in Nat /\ mem'[a] \in Nat
      BY <1>1, <1>3, <2>2, <3>1, Words DEF Acquires, Shares
    <3>3. QED
      BY <3>2
  <2>5. ASSUME pc[u] = "acquire_cas", loc[u].for = "visible"
        PROVE  IF IsFree(l) THEN loc[u].value \in hist'[a] /\ l.version <= loc[u].value
               ELSE lock'[a] = l => loc[u].value = version'[u][n]
    <3>1. IF IsFree(l) THEN loc[u].value \in hist[a] /\ l.version <= loc[u].value
          ELSE lock[a] = l => loc[u].value = version[u][n]
      BY <1>1, <2>5 DEF Acquires
    <3>2. CASE IsFree(l)
      BY <2>2, <3>1, <3>2 DEF Shares
    <3>3. CASE ~IsFree(l)
      <4>1. SUFFICES ASSUME lock'[a] = l PROVE loc[u].value = version[u][n]
        BY <1>2, <3>3
      <4>2. lock[a] = l
        <5>1. SUFFICES ASSUME lock[a] # l PROVE FALSE
          OBVIOUS
        <5>2. l.owner = t /\ l.gen = tx[t].gen /\ ~Logged(l, a)
          BY <1>3, <2>2, <3>3, <4>1, <5>1 DEF Shares
        <5>3. QED
          BY <1>1, <2>1, <3>3, <5>2 DEF Steals
      <4>3. QED
        BY <3>1, <3>3, <4>2
    <3>4. QED
      BY <3>2, <3>3
  <2>6. loc'[u].l = l /\ loc'[u].addr = a /\ Len(tx'[u].w_set) + 1 = n /\ loc'[u].for = loc[u].for
        /\ loc'[u].value = loc[u].value
    BY <1>2
  <2>7. QED
    BY <1>2, <2>3, <2>4, <2>5, <2>6 DEF Acquires, IsFree
<1>8. QED
  BY <1>6, <1>7

LEMMA ComposeMem ==
    ASSUME MemInv, LockInv', NEW t \in Tx, \A u \in Tx \ {t} : Spared(u), Shares(t),
           \A a \in Addr : Content(a)', Dated(t)', Acquires(t)'
    PROVE  MemInv'
<1>1. \A u \in Tx : Dated(u)' /\ Acquires(u)'
  BY OthersMem
<1>2. QED
  BY <1>1 DEF MemInv

\* A word that stays, of another or of t.
LEMMA ContentOthers ==
    ASSUME MemInv, NEW t \in Tx, \A u \in Tx \ {t} : Spared(u), NEW a \in Addr, lock[a].owner # t,
           clock' \in Nat, clock <= clock',
           lock'[a] = lock[a], mem'[a] = mem[a], hist'[a] = hist[a]
    PROVE  Content(a)'
<1> DEFINE o == lock[a].owner
<1>1. TypeInv /\ Content(a) /\ lock[a] \in Word
  BY DEF MemInv, LockInv, TypeInv
<1>2. \A n \in hist[a] : n <= clock'
  BY <1>1 DEF Content, TypeInv
<1>3. CASE IsFree(lock[a])
  BY <1>1, <1>2, <1>3 DEF Content, IsNewest, IsFree
<1>4. CASE ~IsFree(lock[a])
  <2>1. o \in Tx \ {t}
    BY <1>1, <1>4, Words
  <2>2. pc'[o] = pc[o] /\ loc'[o] = loc[o] /\ version'[o] = version[o]
    BY <2>1 DEF Spared
  <2>3. Installs(lock[a].owner)' = Installs(o)
    BY <2>2 DEF Installs
  <2>4. QED
    BY <1>1, <1>2, <1>4, <2>2, <2>3 DEF Content, IsNewest, IsFree
<1>5. QED
  BY <1>3, <1>4

LEMMA ContentMine ==
    ASSUME MemInv, NEW t \in Tx, NEW a \in Addr, lock[a].owner = t,
           clock' \in Nat, clock <= clock',
           lock'[a] = lock[a], mem'[a] = mem[a], hist'[a] = hist[a],
           version'[t][lock[a].i] = version[t][lock[a].i],
           \/ ~lock[a].write
           \/ ~Installs(t) /\ ~Installs(t)'
           \/ /\ Installs(t) /\ Installs(t)' /\ loc'[t].v = loc[t].v
              /\ ~(pc'[t] = "install_drop" /\ lock[a].i = loc'[t].i)
    PROVE  Content(a)'
<1>1. TypeInv /\ Content(a) /\ lock[a] \in Word
  BY DEF MemInv, LockInv, TypeInv
<1>2. \A n \in hist[a] : n <= clock'
  BY <1>1 DEF Content, TypeInv
<1>3. ~IsFree(lock[a]) /\ ~IsFree(lock[a])'
  BY CmAssumption DEF CmAssumption, IsFree
<1>4. Installs(lock[a].owner)' = Installs(t)'
  <2>1. lock'[a].owner = t
    OBVIOUS
  <2>2. QED
    BY <2>1 DEF Installs
<1>5. QED
  BY <1>1, <1>2, <1>3, <1>4 DEF Content, IsNewest

\* A word that gets free.
LEMMA ContentFree ==
    ASSUME NEW a \in Addr, NEW v \in Nat, lock'[a] = Free(v), mem'[a] = v, mem[a] = v, hist'[a] = hist[a],
           Content(a), IsNewest(v, hist[a]), clock \in Nat, clock' \in Nat, clock <= clock',
           hist[a] \subseteq Nat
    PROVE  Content(a)'
<1>1. IsFree(lock[a])' /\ lock'[a].version = v
  BY DEF IsFree, Free
<1>2. \A n \in hist[a] : n <= clock'
  BY DEF Content
<1>3. QED
  BY <1>1, <1>2 DEF Content, IsNewest

\* A step that changes neither locks nor memory nor history.
LEMMA QuietStep ==
    ASSUME MemInv, LockInv', NEW t \in Tx, \A u \in Tx \ {t} : Spared(u),
           lock' = lock, mem' = mem, hist' = hist, clock' \in Nat, clock <= clock',
           \/ ~Installs(t) /\ ~Installs(t)'
           \/ \A a \in Addr : lock[a].owner # t,
           \A i \in DOMAIN tx[t].w_set : version'[t][i] = version[t][i],
           Dated(t)', Acquires(t)'
    PROVE  MemInv'
<1>1. TypeInv /\ mem \in [Addr -> Nat]
  BY DEF MemInv, LockInv, TypeInv
<1>2. Shares(t)
  BY <1>1 DEF Shares
<1>3. ASSUME NEW a \in Addr PROVE Content(a)'
  <2>1. CASE lock[a].owner # t
    BY <2>1, ContentOthers
  <2>2. CASE lock[a].owner = t
    <3>1. lock[a].i \in DOMAIN tx[t].w_set
      <4>1. ~IsFree(lock[a]) /\ Holding(a)
        BY <2>2, CmAssumption DEF IsFree, CmAssumption, MemInv, LockInv
      <4>2. QED
        BY <2>2, <4>1 DEF Holding, Logged
    <3>2. ~Installs(t) /\ ~Installs(t)'
      BY <2>2
    <3>3. QED
      BY <2>2, <3>1, <3>2, ContentMine
  <2>3. QED
    BY <2>1, <2>2
<1>4. QED
  BY <1>2, <1>3, ComposeMem

\* A step that only t sees, outside an acquisition and a commit.
Apart(t) == \A u \in Tx \ {t} : Spared(u) /\ seen'[u] = seen[u]
Idle(t) ==
    /\ lock' = lock /\ mem' = mem /\ clock' = clock /\ hist' = hist /\ version' = version
    /\ ~Installs(t) /\ ~Installs(t)' /\ ~Validates(t)' /\ pc'[t] \notin {"vis_value", "acquire_cas"}
    /\ Apart(t)

LEMMA IdleMem ==
    ASSUME MemInv, LockInv', NEW t \in Tx, Idle(t)
    PROVE  MemInv'
<1>1. \A u \in Tx \ {t} : Spared(u)
  BY DEF Idle, Apart
<1>2. lock' = lock /\ mem' = mem /\ hist' = hist /\ clock' \in Nat /\ clock <= clock'
  BY DEF Idle, MemInv, LockInv, TypeInv
<1>3. Dated(t)' /\ Acquires(t)'
  BY DEF Idle, Dated, Acquires
<1>4. \A i \in DOMAIN tx[t].w_set : version'[t][i] = version[t][i]
  BY DEF Idle
<1>5. ~Installs(t) /\ ~Installs(t)'
  BY DEF Idle
<1>6. QED
  BY <1>1, <1>2, <1>3, <1>4, <1>5, QuietStep

LEMMA IdleTurn ==
    ASSUME LockInv, NEW t \in Tx, NEW label, NEW x, Turn(t, label, x), ~Installs(t),
           label \notin {"vis_value", "acquire_cas", "install", "install_drop"},
           label = "validate" => x.for # "commit"
    PROVE  Idle(t)
<1>1. TypeInv /\ pc' = [pc EXCEPT ![t] = label] /\ loc' = [loc EXCEPT ![t] = x]
      /\ UNCHANGED <<lock, mem, clock, hist, version, status, tx, seen>>
  BY DEF LockInv, Turn, Goto, shared
<1>2. pc'[t] = label /\ loc'[t] = x /\ \A u \in Tx \ {t} : pc'[u] = pc[u] /\ loc'[u] = loc[u]
  BY <1>1 DEF TypeInv
<1>3. QED
  BY <1>1, <1>2 DEF Idle, Apart, Spared, Installs, Validates, InInstall

LEMMA IdleSame ==
    ASSUME LockInv, NEW t \in Tx, NEW label, Goto(t, label), UNCHANGED <<shared, status, tx, loc, seen, hist>>,
           ~Installs(t), label \notin {"vis_value", "acquire_cas", "install", "install_drop", "validate"}
    PROVE  Idle(t)
<1>1. Turn(t, label, loc[t])
  BY Same
<1>2. QED
  BY <1>1, IdleTurn

LEMMA IdleRollback ==
    ASSUME LockInv, NEW t \in Tx, NEW invisible \in BOOLEAN, NEW delay \in BOOLEAN,
           Rollback(t, invisible, delay), ~Installs(t)
    PROVE  Idle(t)
<1>1. TypeInv /\ lock' = lock /\ mem' = mem /\ clock' = clock /\ hist' = hist /\ version' = version
      /\ status' = status /\ seen' = [seen EXCEPT ![t] = {}] /\ pc' = [pc EXCEPT ![t] = "abort"]
  BY DEF LockInv, Rollback, Goto, shared
<1>2. pc'[t] = "abort" /\ \A u \in Tx \ {t} : pc'[u] = pc[u] /\ seen'[u] = seen[u]
  BY <1>1 DEF TypeInv
<1>3. \A u \in Tx \ {t} : loc'[u] = loc[u] /\ tx'[u] = tx[u]
  BY <1>1 DEF Rollback, TypeInv
<1>4. QED
  BY <1>1, <1>2, <1>3 DEF Idle, Apart, Spared, Installs, Validates, InInstall

LEMMA IdleLog ==
    ASSUME LockInv, NEW t \in Tx, Log(t), ~Installs(t)
    PROVE  Idle(t)
<1>1. TypeInv /\ lock' = lock /\ mem' = mem /\ clock' = clock /\ hist' = hist /\ version' = version
      /\ status' = status /\ pc' = [pc EXCEPT ![t] = "active"] /\ loc' = [loc EXCEPT ![t] = NoLoc]
  BY DEF LockInv, Log, Goto, Clear, shared
<1>2. pc'[t] = "active" /\ \A u \in Tx \ {t} : pc'[u] = pc[u] /\ loc'[u] = loc[u]
  BY <1>1 DEF TypeInv
<1>3. \A u \in Tx \ {t} : seen'[u] = seen[u] /\ tx'[u] = tx[u]
  BY <1>1 DEF Log, TypeInv
<1>4. QED
  BY <1>1, <1>2, <1>3 DEF Idle, Apart, Spared, Installs, Validates, InInstall

LEMMA IdlePrepare ==
    ASSUME LockInv, NEW t \in Tx, ~Installs(t), NEW v, NEW r, NEW label \in {"active", "on_start"},
           Prepare(t, v, r, label)
    PROVE  Idle(t)
<1>1. TypeInv /\ lock' = lock /\ mem' = mem /\ clock' = clock /\ hist' = hist /\ version' = version
      /\ loc' = loc /\ seen' = seen /\ pc' = [pc EXCEPT ![t] = label]
  BY DEF LockInv, Prepare, Goto, shared
<1>2. pc'[t] = label /\ \A u \in Tx \ {t} : pc'[u] = pc[u] /\ tx'[u] = tx[u] /\ status'[u] = status[u]
  BY <1>1 DEF TypeInv, Prepare
<1>3. QED
  BY <1>1, <1>2 DEF Idle, Apart, Spared, Installs, Validates, InInstall

LEMMA IdleStart ==
    ASSUME LockInv, NEW t \in Tx, Start(t) \/ Retry(t)
    PROVE  Idle(t)
<1>1. ~Installs(t)
  BY DEF Start, Retry, Installs, InInstall
<1>2. CASE Start(t)
  BY <1>1, <1>2, IdlePrepare DEF Start
<1>3. CASE Retry(t)
  BY <1>1, <1>3, IdlePrepare DEF Retry
<1>4. QED
  BY <1>2, <1>3

\* The start, the end and the order of transactions.
LEMMA IdleLife ==
    ASSUME LockInv, NEW t \in Tx,
           \/ mod_order_on_start(t) \/ mod_order_on_commit(t) \/ Abort(t) \/ Dropped(t) \/ WaitLock(t)
           \/ Commit(t) \/ mod_order_on_precommit(t) \/ CommitCas(t)
    PROVE  Idle(t)
<1>1. TypeInv
  BY DEF LockInv
<1>2. CASE mod_order_on_start(t) \/ mod_order_on_commit(t)
  <2>1. PICK label \in {"active", "idle"} : pc' = [pc EXCEPT ![t] = label]
    BY <1>2 DEF mod_order_on_start, mod_order_on_commit, Goto
  <2>2. lock' = lock /\ mem' = mem /\ clock' = clock /\ hist' = hist /\ version' = version
        /\ loc' = loc /\ seen' = seen /\ status' = status /\ ~Installs(t)
    BY <1>2 DEF mod_order_on_start, mod_order_on_commit, Installs, InInstall
  <2>3. pc'[t] = label /\ \A u \in Tx \ {t} : pc'[u] = pc[u] /\ tx'[u] = tx[u]
    BY <1>1, <1>2, <2>1 DEF TypeInv, mod_order_on_start, mod_order_on_commit
  <2>4. QED
    BY <2>2, <2>3 DEF Idle, Apart, Spared, Installs, Validates, InInstall
<1>3. CASE Abort(t)
  <2>1. PICK label \in {"drop", "rollback"} : pc' = [pc EXCEPT ![t] = label]
    BY <1>3 DEF Abort, Goto
  <2>2. lock' = lock /\ mem' = mem /\ clock' = clock /\ hist' = hist /\ version' = version
        /\ loc' = loc /\ seen' = seen /\ tx' = tx /\ ~Installs(t)
    BY <1>3 DEF Abort, Installs, InInstall, shared
  <2>3. pc'[t] = label /\ \A u \in Tx \ {t} : pc'[u] = pc[u] /\ status'[u] = status[u]
    BY <1>1, <1>3, <2>1 DEF TypeInv, Abort
  <2>4. QED
    BY <2>2, <2>3 DEF Idle, Apart, Spared, Installs, Validates, InInstall
<1>4. CASE Dropped(t)
  <2>1. PICK label \in {"c_lock", "prepare"} : pc' = [pc EXCEPT ![t] = label]
    BY <1>4 DEF Dropped, Goto
  <2>2. lock' = lock /\ mem' = mem /\ clock' = clock /\ hist' = hist /\ version' = version
        /\ loc' = loc /\ seen' = seen /\ ~Installs(t)
    BY <1>4 DEF Dropped, Installs, InInstall, shared
  <2>3. pc'[t] = label /\ \A u \in Tx \ {t} : pc'[u] = pc[u] /\ status'[u] = status[u] /\ tx'[u] = tx[u]
    BY <1>1, <1>4, <2>1, Zenon DEF TypeInv, Dropped, SetStatus
  <2>4. QED
    BY <2>2, <2>3 DEF Idle, Apart, Spared, Installs, Validates, InInstall
<1>5. CASE WaitLock(t)
  <2>1. Turn(t, "prepare", NoLoc) /\ ~Installs(t)
    BY <1>5 DEF WaitLock, Turn, Clear, Installs, InInstall
  <2>2. QED
    BY <2>1, IdleTurn
<1>6. CASE Commit(t) \/ mod_order_on_precommit(t)
  <2>1. PICK label \in {"precommit", "commit_cas"} : Goto(t, label)
    BY <1>6 DEF Commit, mod_order_on_precommit
  <2>2. UNCHANGED <<shared, status, tx, loc, seen, hist>> /\ ~Installs(t)
    BY <1>6 DEF Commit, mod_order_on_precommit, Installs, InInstall
  <2>3. QED
    BY <2>1, <2>2, IdleSame
<1>7. CASE CommitCas(t)
  <2>1. ~Installs(t)
    BY <1>7 DEF CommitCas, Installs, InInstall
  <2>2. CASE Rollback(t, FALSE, FALSE)
    BY <2>1, <2>2, IdleRollback
  <2>3. CASE ~Is(t, "KILLED")
    <3> DEFINE label == CASE tx[t].w_set = <<>> -> "end" [] HasWrites(t) -> "commit_clock" [] OTHER -> "ro_drop"
    <3>1. label \in {"end", "commit_clock", "ro_drop"}
      OBVIOUS
    <3>2. pc' = [pc EXCEPT ![t] = label]
      BY <1>7, <2>3 DEF CommitCas, Goto
    <3> HIDE DEF label
    <3>3. lock' = lock /\ mem' = mem /\ clock' = clock /\ hist' = hist /\ version' = version
          /\ loc' = loc /\ seen' = seen /\ tx' = tx
      BY <1>7, <2>3 DEF CommitCas, shared
    <3>4. pc'[t] = label /\ \A u \in Tx \ {t} : pc'[u] = pc[u] /\ status'[u] = status[u]
      BY <1>1, <1>7, <2>3, <3>2 DEF TypeInv, CommitCas, SetStatus
    <3>5. QED
      BY <2>1, <3>1, <3>3, <3>4 DEF Idle, Apart, Spared, Installs, Validates, InInstall
  <2>4. QED
    BY <1>7, <2>2, <2>3 DEF CommitCas
<1>8. QED
  BY <1>2, <1>3, <1>4, <1>5, <1>6, <1>7

\* Conflicts and invisible loads.
LEMMA IdleAccess ==
    ASSUME LockInv, NEW t \in Tx,
           \/ CmStatus(t) \/ CmLock(t) \/ CmDecide(t) \/ Kill(t) \/ KillWait(t) \/ KillFailed(t)
           \/ LoadValue(t) \/ LoadRelock(t) \/ LoadVersion(t) \/ LoadCheck(t) \/ Recheck(t) \/ Extended(t)
           \/ Load(t) \/ Store(t)
    PROVE  Idle(t)
<1>1. TypeInv /\ ~Installs(t)
  BY Zenon DEF LockInv, CmStatus, CmLock, CmDecide, Kill, KillWait, KillFailed, LoadValue, LoadRelock, LoadVersion,
     LoadCheck, Recheck, Extended, Load, Store, Installs, InInstall
<1>2. CASE CmStatus(t) \/ CmLock(t)
  <2>1. PICK label \in {"cm_lock", "cm_decide"} : \E x : Turn(t, label, x)
    BY <1>2 DEF CmStatus, CmLock, Turn
  <2>2. PICK x : Turn(t, label, x)
    BY <2>1
  <2>3. QED
    BY <1>1, <2>2, IdleTurn
<1>3. CASE CmDecide(t)
  <2>1. CASE /\ Goto(t, CASE loc[t].s.s = "ACTIVE" -> "kill"
                          [] loc[t].s.s \in {"COMMITTING", "ABORTING"} -> "kill_wait"
                          [] OTHER -> "again")
             /\ UNCHANGED <<shared, status, tx, loc, seen, hist>>
    <3> DEFINE label == CASE loc[t].s.s = "ACTIVE" -> "kill"
                          [] loc[t].s.s \in {"COMMITTING", "ABORTING"} -> "kill_wait"
                          [] OTHER -> "again"
    <3>1. label \in {"kill", "kill_wait", "again"}
      OBVIOUS
    <3>2. Goto(t, label)
      BY <2>1
    <3> HIDE DEF label
    <3>3. QED
      BY <1>1, <2>1, <3>1, <3>2, IdleSame
  <2>2. CASE Goto(t, "steal") /\ UNCHANGED <<shared, status, tx, loc, seen, hist>>
    BY <1>1, <2>2, IdleSame
  <2>3. CASE Rollback(t, FALSE, ~Is(t, "KILLED") /\ DELAY_RESTART)
    <3> DEFINE d == ~Is(t, "KILLED") /\ DELAY_RESTART
    <3>1. d \in BOOLEAN /\ Rollback(t, FALSE, d)
      BY <2>3
    <3> HIDE DEF d
    <3>2. QED
      BY <1>1, <3>1, IdleRollback
  <2>4. QED
    BY <1>3, <2>1, <2>2, <2>3 DEF CmDecide
<1>4. CASE Kill(t)
  <2> DEFINE o == loc[t].l.owner
  <2>1. CASE status[o] = loc[t].s
    <3>1. o \in Tx \ {t} /\ loc[t].s.s = "ACTIVE"
      BY <1>4, Zenon DEF LockInv, Locals, Purposes, InConflict, Observes, Kill
    <3>2. /\ pc' = [pc EXCEPT ![t] = "steal"] /\ status' = [status EXCEPT ![o].s = "KILLED"]
          /\ lock' = lock /\ mem' = mem /\ clock' = clock /\ version' = version
          /\ tx' = tx /\ loc' = loc /\ seen' = seen /\ hist' = hist
      BY <1>4, <2>1 DEF Kill, Goto, shared
    <3>3. /\ pc'[t] = "steal" /\ status'[o] = [status[o] EXCEPT !.s = "KILLED"] /\ status[o].s = "ACTIVE"
          /\ \A u \in Tx \ {t} : pc'[u] = pc[u]
          /\ \A u \in Tx \ {o} : status'[u] = status[u]
      BY <1>1, <2>1, <3>1, <3>2 DEF TypeInv
    <3>4. QED
      BY <1>1, <3>2, <3>3 DEF Idle, Apart, Spared, Installs, Validates, InInstall
  <2>2. CASE status[o] # loc[t].s
    <3>1. Goto(t, "kill_failed") /\ UNCHANGED <<shared, status, tx, loc, seen, hist>>
      BY <1>4, <2>2 DEF Kill
    <3>2. QED
      BY <1>1, <3>1, IdleSame
  <2>3. QED
    BY <2>1, <2>2
<1>5. CASE KillWait(t) \/ KillFailed(t)
  <2>1. Goto(t, "again") /\ UNCHANGED <<shared, status, tx, loc, seen, hist>>
    BY <1>5 DEF KillWait, KillFailed
  <2>2. QED
    BY <1>1, <2>1, IdleSame
<1>6. CASE LoadValue(t) \/ LoadRelock(t) \/ LoadVersion(t)
  <2>1. PICK label \in {"load_relock", "load_version", "load_check"} : \E x : Turn(t, label, x)
    BY <1>6 DEF LoadValue, LoadRelock, LoadVersion, Turn
  <2>2. PICK x : Turn(t, label, x)
    BY <2>1
  <2>3. QED
    BY <1>1, <2>2, IdleTurn
<1>7. CASE LoadCheck(t) \/ Recheck(t)
  <2>1. CASE Rollback(t, FALSE, FALSE)
    BY <1>1, <2>1, IdleRollback
  <2>2. CASE Log(t)
    BY <1>1, <2>2, IdleLog
  <2>3. CASE /\ loc' = [loc EXCEPT ![t].now = clock, ![t].i = 1, ![t].for = "extend"]
             /\ Goto(t, "validate")
             /\ UNCHANGED <<shared, status, tx, seen, hist>>
    <3> DEFINE x == [loc[t] EXCEPT !.now = clock, !.i = 1, !.for = "extend"]
    <3>1. loc' = [loc EXCEPT ![t] = x]
      BY <1>1, <2>3 DEF TypeInv
    <3>2. x.for = "extend"
      <4>1. loc[t] \in LocType
        BY <1>1 DEF TypeInv
      <4>2. QED
        BY <4>1 DEF LocType
    <3> HIDE DEF x
    <3>3. Turn(t, "validate", x)
      BY <2>3, <3>1 DEF Turn
    <3>4. QED
      BY <1>1, <3>2, <3>3, IdleTurn
  <2>4. QED
    BY <1>7, <2>1, <2>2, <2>3 DEF LoadCheck, Recheck
<1>8. CASE Extended(t)
  <2>1. lock' = lock /\ mem' = mem /\ clock' = clock /\ hist' = hist /\ version' = version
        /\ seen' = seen /\ status' = status /\ pc' = [pc EXCEPT ![t] = "recheck"]
    BY <1>8 DEF Extended, Goto, shared
  <2>2. pc'[t] = "recheck" /\ \A u \in Tx \ {t} : pc'[u] = pc[u] /\ tx'[u] = tx[u] /\ loc'[u] = loc[u]
    BY <1>1, <1>8, <2>1 DEF TypeInv, Extended
  <2>3. QED
    BY <1>1, <2>1, <2>2 DEF Idle, Apart, Spared, Installs, Validates, InInstall
<1>9. CASE Load(t) \/ Store(t)
  <2>1. CASE Rollback(t, FALSE, FALSE)
    BY <1>1, <2>1, IdleRollback
  <2>2. CASE ~Rollback(t, FALSE, FALSE)
    <3>1. PICK x : Turn(t, "again", x)
      BY <1>9, <2>2 DEF Load, Store, Turn
    <3>2. QED
      BY <1>1, <3>1, IdleTurn
  <2>3. QED
    BY <2>1, <2>2
<1>10. QED
  BY <1>2, <1>3, <1>4, <1>5, <1>6, <1>7, <1>8, <1>9

\* What an acquisition puts into the next entry, and what it leaves alone.
LEMMA Acquired ==
    ASSUME LockInv, NEW t \in Tx, Accesses(t), NEW a \in Addr, NEW l \in Word, NEW v \in Nat,
           NEW for \in {"visible", "write"}, Acquire(t, a, l, v, for)
    PROVE  /\ Apart(t) /\ ~Installs(t) /\ ~Installs(t)' /\ ~Validates(t)'
           /\ lock' = lock /\ mem' = mem /\ clock' = clock /\ hist' = hist /\ seen' = seen /\ tx' = tx
           /\ version'[t][Len(tx[t].w_set) + 1] = v
           /\ \A i \in DOMAIN tx[t].w_set : version'[t][i] = version[t][i]
           /\ pc'[t] = IF for = "visible" THEN "vis_value" ELSE "acquire_cas"
           /\ loc'[t].addr = a /\ loc'[t].l = l /\ loc'[t].for = for
<1> DEFINE x == With(a, l, for)  n == Len(tx[t].w_set) + 1
           label == IF for = "visible" THEN "vis_value" ELSE "acquire_cas"
<1>1. TypeInv /\ Room(t)
  BY DEF LockInv, Locals
<1>2. x.addr = a /\ x.l = l /\ x.for = for
  BY Fresh DEF Purpose
<1>3. n \in Entry /\ n \notin DOMAIN tx[t].w_set /\ \A i \in DOMAIN tx[t].w_set : i \in Entry
  <2>1. LogRoom(t)
    BY <1>1 DEF Room, LogRoom
  <2>2. Len(tx[t].w_set) \in Nat /\ DOMAIN tx[t].w_set = 1 .. Len(tx[t].w_set)
    BY <1>1, WriteSet
  <2>3. QED
    BY <1>1, <2>1, <2>2, InLog
<1>4. /\ pc' = [pc EXCEPT ![t] = label] /\ loc' = [loc EXCEPT ![t] = x]
      /\ version' = [version EXCEPT ![t] = [version[t] EXCEPT ![n] = v]]
      /\ UNCHANGED <<lock, mem, clock, order, manager, status, tx, seen, hist>>
  BY DEF Acquire, Goto, With
<1>5. label \in {"vis_value", "acquire_cas"} /\ ~Installs(t)
  BY DEF Accesses, Installs, InInstall, InAccess, InConflict, InLoad, Extends
<1> HIDE DEF x, n, label
<1>6. /\ pc'[t] = label /\ loc'[t] = x
      /\ \A u \in Tx \ {t} : pc'[u] = pc[u] /\ loc'[u] = loc[u] /\ version'[u] = version[u]
      /\ version'[t] = [version[t] EXCEPT ![n] = v] /\ version[t] \in [Entry -> Nat]
  BY <1>1, <1>4 DEF TypeInv
<1>7. version'[t][n] = v /\ \A i \in DOMAIN tx[t].w_set : version'[t][i] = version[t][i]
  BY <1>3, <1>6
<1>8. Apart(t) /\ ~Installs(t)' /\ ~Validates(t)'
  BY <1>4, <1>5, <1>6 DEF Apart, Spared, Installs, Validates, InInstall
<1>9. QED
  BY <1>2, <1>4, <1>5, <1>6, <1>7, <1>8 DEF n, label

LEMMA AcquireMem ==
    ASSUME MemInv, LockInv', NEW t \in Tx, Accesses(t), NEW a \in Addr, NEW l \in Word, NEW v \in Nat,
           NEW for \in {"visible", "write"}, Acquire(t, a, l, v, for),
           IsFree(l) => v = l.version /\ l.version <= mem[a]
    PROVE  MemInv'
<1>1. LockInv
  BY DEF MemInv
<1> DEFINE n == Len(tx[t].w_set) + 1
<1>2. /\ Apart(t) /\ ~Installs(t) /\ ~Installs(t)' /\ ~Validates(t)'
      /\ lock' = lock /\ mem' = mem /\ clock' = clock /\ hist' = hist /\ tx' = tx
      /\ version'[t][n] = v
      /\ \A i \in DOMAIN tx[t].w_set : version'[t][i] = version[t][i]
      /\ pc'[t] = IF for = "visible" THEN "vis_value" ELSE "acquire_cas"
      /\ loc'[t].addr = a /\ loc'[t].l = l /\ loc'[t].for = for
  BY <1>1, Acquired
<1>3. Acquires(t)'
  <2>1. Len(tx'[t].w_set) + 1 = n
    BY <1>2
  <2>2. IsFree(loc[t].l)' <=> IsFree(l)
    BY <1>2 DEF IsFree
  <2> HIDE DEF n
  <2>3. ~(pc'[t] = "acquire_cas" /\ loc'[t].for = "visible")
    BY <1>2
  <2>4. IsFree(l) => version'[t][n] = l.version /\ l.version <= mem'[a]
    BY <1>2
  <2>5. QED
    BY <1>2, <2>1, <2>2, <2>3, <2>4 DEF Acquires
<1>4. Dated(t)'
  BY <1>2 DEF Dated
<1>5. clock' \in Nat /\ clock <= clock'
  BY <1>1, <1>2 DEF LockInv, TypeInv
<1> HIDE DEF n
<1>6. QED
  BY <1>2, <1>3, <1>4, <1>5, QuietStep DEF Apart

\* What is free has the version that memory has.
LEMMA FreeContent ==
    ASSUME MemInv, NEW a \in Addr, IsFree(lock[a])
    PROVE  lock[a].version \in Nat /\ lock[a].version <= mem[a]
<1>1. lock[a] \in Word /\ Content(a)
  BY DEF MemInv, LockInv, TypeInv
<1>2. lock[a].version \in Nat /\ mem[a] = lock[a].version
  BY <1>1, Words DEF Content
<1>3. QED
  BY <1>2

LEMMA ReadLockMem ==
    ASSUME MemInv, LockInv', NEW t \in Tx, Accesses(t), NEW for \in {"invisible", "visible", "write"},
           ReadLock(t, loc[t].addr, lock[loc[t].addr], for)
    PROVE  MemInv'
<1> DEFINE a == loc[t].addr  l == lock[a]
<1>1. LockInv /\ Purposes(t) /\ a \in Addr /\ ~Installs(t) /\ TypeInv
  BY DEF MemInv, LockInv, Locals, Purposes, Accesses, Installs, InInstall, InAccess, InConflict, InLoad, Extends
<1>2. l \in Word
  BY <1>1 DEF TypeInv
<1>3. IsFree(l) => l.version \in Nat /\ ~l.write
  BY <1>2, Words DEF Free
<1>4. IsFree(l) => l.version <= mem[a]
  BY <1>1, FreeContent
<1>5. Reads(t, a, l, for)
  BY <1>3, ReadsLock
<1>6. ASSUME NEW label \in {"load_value", "upgrade", "active", "cm_status"}, NEW x, Turn(t, label, x)
      PROVE  MemInv'
  <2>1. Idle(t)
    BY <1>1, <1>6, IdleTurn
  <2>2. QED
    BY <2>1, IdleMem
<1>7. CASE Turn(t, "load_value", With(a, l, for)) \/ Turn(t, "upgrade", With(a, l, for))
  BY <1>6, <1>7
<1>8. CASE for = "visible" /\ IsFree(l) /\ Acquire(t, a, l, l.version, for)
  BY <1>1, <1>2, <1>3, <1>4, <1>8, AcquireMem
<1>9. CASE for = "write" /\ IsFree(l) /\ AcquireWrite(t, a, l, l.version)
  <2>1. CASE Rollback(t, TRUE, FALSE)
    BY <1>1, <2>1, IdleRollback, IdleMem
  <2>2. CASE Acquire(t, a, l, l.version, "write")
    BY <1>1, <1>2, <1>3, <1>4, <1>9, <2>2, AcquireMem
  <2>3. QED
    BY <1>9, <2>1, <2>2 DEF AcquireWrite
<1>10. CASE Rollback(t, FALSE, FALSE)
  BY <1>1, <1>10, IdleRollback, IdleMem
<1>11. CASE Return(t)
  <2>1. Turn(t, "active", NoLoc)
    BY <1>11 DEF Return, Turn, Clear
  <2>2. QED
    BY <1>6, <2>1
<1>12. CASE Conflict(t, a, l, for)
  <2>1. Turn(t, "cm_status", With(a, l, for))
    BY <1>12 DEF Conflict, Turn, With
  <2>2. QED
    BY <1>6, <2>1
<1>13. QED
  BY <1>5, <1>7, <1>8, <1>9, <1>10, <1>11, <1>12 DEF Reads

LEMMA AgainMem ==
    ASSUME MemInv, LockInv', NEW t \in Tx, Again(t) \/ Restart(t)
    PROVE  MemInv'
<1>1. LockInv /\ Accesses(t) /\ Purposes(t) /\ ~Installs(t)
  BY DEF MemInv, LockInv, Locals, Again, Restart, Accesses, InAccess, InConflict, InLoad, Installs, InInstall
<1>2. CASE Again(t)
  <2>1. loc[t].for \in {"invisible", "visible", "write"}
    BY <1>1, <1>2 DEF Again, Purposes
  <2>2. QED
    BY <1>1, <1>2, <2>1, ReadLockMem DEF Again
<1>3. CASE Restart(t) /\ pc[t] \in {"acquire_cas", "cm_decide"}
  <2>1. Goto(t, "again") /\ UNCHANGED <<shared, status, tx, loc, seen, hist>>
    BY <1>3 DEF Restart
  <2>2. QED
    BY <1>1, <2>1, IdleSame, IdleMem
<1>4. CASE Restart(t) /\ pc[t] \notin {"acquire_cas", "cm_decide"}
  <2> DEFINE for == IF pc[t] = "cm_lock" THEN loc[t].for ELSE "invisible"
  <2>1. for \in {"invisible", "visible", "write"}
    BY <1>1 DEF Purposes, InConflict
  <2>2. ReadLock(t, loc[t].addr, lock[loc[t].addr], for)
    BY <1>4 DEF Restart
  <2> HIDE DEF for
  <2>3. QED
    BY <1>1, <2>1, <2>2, ReadLockMem
<1>5. QED
  BY <1>2, <1>3, <1>4

LEMMA StealAcquireMem ==
    ASSUME MemInv, LockInv', NEW t \in Tx, StealAcquire(t)
    PROVE  MemInv'
<1> DEFINE a == loc[t].addr  l == loc[t].l  v == loc[t].v
<1>1. LockInv /\ Purposes(t) /\ pc[t] = "steal" /\ Accesses(t) /\ ~Installs(t)
  BY DEF MemInv, LockInv, Locals, StealAcquire, Accesses, InAccess, InConflict, Installs, InInstall
<1>2. a \in Addr /\ l \in Word /\ v \in Nat /\ l.owner \in Tx
  BY <1>1 DEF LockInv, TypeInv, LocType, Purposes, InConflict
<1>3. ~IsFree(l)
  BY <1>2, CmAssumption DEF IsFree, CmAssumption
<1> HIDE DEF a, l, v
<1>4. Acquire(t, a, l, v, "visible") \/ AcquireWrite(t, a, l, v)
  BY DEF StealAcquire, a, l, v
<1>5. CASE Rollback(t, TRUE, FALSE)
  BY <1>1, <1>5, IdleRollback, IdleMem
<1>6. CASE Acquire(t, a, l, v, "visible") \/ Acquire(t, a, l, v, "write")
  BY <1>1, <1>2, <1>3, <1>6, AcquireMem
<1>7. QED
  BY <1>4, <1>5, <1>6 DEF AcquireWrite

\* What the lock that is expected says of memory.
LEMMA ExpectedMem ==
    ASSUME MemInv, NEW t \in Tx, pc[t] \in {"steal", "vis_value", "acquire_cas"},
           NEW a \in Addr, a = loc[t].addr, lock[a] = loc[t].l
    PROVE  /\ ~IsFree(lock[a]) => mem[a] = Keeps(t)
           /\ IsFree(lock[a]) => mem[a] = lock[a].version
           /\ IsNewest(mem[a], hist[a])
<1>1. LockInv /\ Content(a) /\ lock[a] \in Word
  BY DEF MemInv, LockInv, TypeInv
<1>2. CASE IsFree(lock[a])
  BY <1>1, <1>2 DEF Content
<1>3. CASE ~IsFree(lock[a])
  <2>1. /\ lock[a].owner \in Tx \ {t} /\ Is(lock[a].owner, "KILLED")
        /\ version[lock[a].owner][lock[a].i] = Keeps(t)
    BY <1>1, <1>3, Expected
  <2>2. ~Installs(lock[a].owner)
    BY <1>1, <2>1 DEF LockInv, Locals, Stage, Commits, Is
  <2>3. QED
    BY <1>1, <1>3, <2>1, <2>2 DEF Content
<1>4. QED
  BY <1>2, <1>3

LEMMA VisibleValueMem ==
    ASSUME MemInv, LockInv', NEW t \in Tx, VisibleValue(t)
    PROVE  MemInv'
<1> DEFINE a == loc[t].addr  l == loc[t].l  v == mem[a]  x == [loc[t] EXCEPT !.value = v]  n == Len(tx[t].w_set) + 1
<1>1. LockInv /\ TypeInv /\ Purposes(t) /\ pc[t] = "vis_value" /\ ~Installs(t) /\ Acquires(t) /\ loc[t].for = "visible"
  BY DEF MemInv, LockInv, Locals, VisibleValue, Purposes, Installs, InInstall
<1>2. a \in Addr /\ l \in Word /\ v \in Nat
  BY <1>1 DEF Purposes, Accesses, InAccess, TypeInv, LocType
<1>3. x.addr = a /\ x.l = l /\ x.for = "visible" /\ x.value = v
  <2>1. loc[t] \in LocType
    BY <1>1 DEF TypeInv
  <2> HIDE DEF v
  <2>2. QED
    BY <1>1, <2>1 DEF LocType
<1>4. /\ lock' = lock /\ mem' = mem /\ clock' = clock /\ hist' = hist /\ version' = version /\ seen' = seen
      /\ status' = status /\ tx' = tx /\ pc' = [pc EXCEPT ![t] = "acquire_cas"] /\ loc' = [loc EXCEPT ![t] = x]
  BY DEF VisibleValue, Goto, shared
<1> HIDE DEF x
<1>5. pc'[t] = "acquire_cas" /\ loc'[t] = x /\ \A u \in Tx \ {t} : pc'[u] = pc[u] /\ loc'[u] = loc[u]
  BY <1>1, <1>4 DEF TypeInv
<1>6. \A u \in Tx \ {t} : Spared(u)
  BY <1>4, <1>5 DEF Spared
<1>7. Acquires(t)'
  <2>1. IsFree(l) => version[t][n] = l.version /\ l.version <= v
    BY <1>1 DEF Acquires
  <2>2. v \in hist[a]
    BY <1>2 DEF MemInv, Content
  <2>3. ~IsFree(l) /\ lock[a] = l => v = version[t][n]
    <3>1. ASSUME ~IsFree(l), lock[a] = l PROVE v = Keeps(t)
      BY <1>1, <1>2, <3>1, ExpectedMem
    <3>2. Keeps(t) = version[t][n]
      BY <1>1 DEF Keeps
    <3>3. QED
      BY <3>1, <3>2
  <2>4. IsFree(loc[t].l)' = IsFree(l)
    BY <1>3, <1>5 DEF IsFree
  <2>5. Len(tx'[t].w_set) + 1 = n
    BY <1>4
  <2> HIDE DEF n
  <2>6. QED
    BY <1>3, <1>4, <1>5, <2>1, <2>2, <2>3, <2>4, <2>5 DEF Acquires
<1>8. Dated(t)' /\ ~Installs(t)'
  BY <1>5 DEF Dated, Validates, Installs, InInstall
<1>9. clock' \in Nat /\ clock <= clock'
  BY <1>1, <1>4 DEF TypeInv
<1>10. QED
  BY <1>1, <1>4, <1>6, <1>7, <1>8, <1>9, QuietStep

LEMMA AcquireCasMem ==
    ASSUME MemInv, LockInv', NEW t \in Tx, AcquireCas(t)
    PROVE  MemInv'
<1> DEFINE a == loc[t].addr  w == loc[t].for = "write"  n == Len(tx[t].w_set) + 1
<1>1. LockInv /\ TypeInv /\ Room(t) /\ Purposes(t) /\ Acquires(t) /\ pc[t] = "acquire_cas" /\ ~Installs(t)
      /\ lock[a] = loc[t].l
  BY DEF MemInv, LockInv, Locals, AcquireCas, Installs, InInstall
<1>2. a \in Addr /\ w \in BOOLEAN
  BY <1>1 DEF Purposes, Accesses, InAccess
<1>3. n \in Entry /\ n \notin DOMAIN tx[t].w_set
  <2>1. LogRoom(t)
    BY <1>1 DEF Room, LogRoom, Accesses, InAccess
  <2>2. Len(tx[t].w_set) \in Nat /\ DOMAIN tx[t].w_set = 1 .. Len(tx[t].w_set)
    BY <1>1, WriteSet
  <2>3. QED
    BY <1>1, <2>1, <2>2, InLog
<1>4. /\ pc' = [pc EXCEPT ![t] = "active"] /\ lock' = [lock EXCEPT ![a] = Owned(t, n, w)]
      /\ mem' = mem /\ clock' = clock /\ version' = version /\ status' = status /\ hist' = hist
  BY DEF AcquireCas, Goto
<1>5. \A u \in Tx \ {t} : loc'[u] = loc[u] /\ tx'[u] = tx[u]
  BY <1>1 DEF AcquireCas, Clear, TypeInv
<1>6. mem[a] = version[t][n] /\ IsNewest(mem[a], hist[a])
  <2>1. /\ ~IsFree(lock[a]) => mem[a] = Keeps(t)
        /\ IsFree(lock[a]) => mem[a] = lock[a].version
        /\ IsNewest(mem[a], hist[a])
    BY <1>1, <1>2, ExpectedMem
  <2>2. Keeps(t) = version[t][n]
    BY <1>1 DEF Keeps
  <2>3. IsFree(lock[a]) => version[t][n] = lock[a].version
    BY <1>1 DEF Acquires
  <2>4. QED
    BY <2>1, <2>2, <2>3
<1> HIDE DEF a, w, n
<1>7. pc'[t] = "active" /\ (\A u \in Tx \ {t} : pc'[u] = pc[u]) /\ ~Installs(t)' /\ ~Validates(t)'
  BY <1>1, <1>4 DEF TypeInv, Installs, Validates, InInstall
<1>8. \A u \in Tx \ {t} : Spared(u)
  BY <1>4, <1>5, <1>7 DEF Spared
<1>9. /\ lock'[a] = Owned(t, n, w) /\ ~IsFree(Owned(t, n, w)) /\ Owned(t, n, w).owner = t
      /\ Owned(t, n, w).gen = tx[t].gen /\ Owned(t, n, w).i = n
      /\ \A b \in Addr \ {a} : lock'[b] = lock[b]
  BY <1>1, <1>2, <1>3, <1>4, NewWords DEF TypeInv
<1>10. clock' \in Nat /\ clock <= clock' /\ \A b \in Addr : mem[b] \in Nat
  BY <1>1, <1>4 DEF TypeInv
<1>11. Shares(t)
  <2>1. ASSUME NEW b \in Addr, NEW l \in Word, lock'[b] = l, lock[b] # l, ~IsFree(l)
        PROVE  l.owner = t /\ l.gen = tx[t].gen /\ ~Logged(l, b)
    <3>1. b = a /\ l = Owned(t, n, w)
      BY <1>9, <2>1
    <3>2. QED
      BY <1>3, <1>9, <3>1 DEF Logged
  <2>2. QED
    BY <1>4, <1>10, <2>1 DEF Shares
<1>12. ASSUME NEW b \in Addr PROVE Content(b)'
  <2>1. CASE b = a
    <3>1. lock'[b] = Owned(t, n, w) /\ ~IsFree(lock[b])' /\ lock'[b].owner = t /\ lock'[b].i = n
      BY <1>9, <2>1 DEF IsFree
    <3>2. ~Installs(lock[b].owner)'
      BY <1>7, <3>1 DEF Installs
    <3>3. Content(b)
      BY DEF MemInv
    <3>4. QED
      BY <1>4, <1>6, <2>1, <3>1, <3>2, <3>3 DEF Content, IsNewest
  <2>2. CASE b # a /\ lock[b].owner # t
    BY <1>4, <1>8, <1>9, <1>10, <2>2, ContentOthers
  <2>3. CASE b # a /\ lock[b].owner = t
    BY <1>1, <1>4, <1>7, <1>9, <1>10, <2>3, ContentMine
  <2>4. QED
    BY <2>1, <2>2, <2>3
<1>13. Dated(t)' /\ Acquires(t)'
  BY <1>7 DEF Dated, Acquires
<1>14. QED
  BY <1>8, <1>11, <1>12, <1>13, ComposeMem

LEMMA UpgradeMem ==
    ASSUME MemInv, LockInv', NEW t \in Tx, Upgrade(t)
    PROVE  MemInv'
<1> DEFINE a == loc[t].addr  q == [lock[a] EXCEPT !.write = TRUE]
<1>1. LockInv /\ TypeInv /\ Purposes(t) /\ pc[t] = "upgrade" /\ ~Installs(t)
      /\ loc[t].l.owner = t /\ Logged(loc[t].l, a) /\ ~tx[t].w_set[loc[t].l.i].mask
  BY ZenonT(60) DEF MemInv, LockInv, Locals, Upgrade, Purposes, Installs, InInstall
<1>2. a \in Addr
  BY <1>1 DEF Purposes, Accesses, InAccess
<1>3. CASE Rollback(t, FALSE, FALSE)
  BY <1>1, <1>3, IdleRollback, IdleMem
<1>4. CASE /\ lock[a] = loc[t].l
           /\ lock' = [lock EXCEPT ![a].write = TRUE]
           /\ tx' = [tx EXCEPT ![t].w_set[loc[t].l.i].mask = TRUE]
           /\ Goto(t, "active") /\ Clear(t)
           /\ UNCHANGED <<mem, clock, version, order, manager, status, seen, hist>>
  <2>1. lock[a] \in Word /\ ~IsFree(lock[a]) /\ lock[a].owner = t
    BY <1>1, <1>2, <1>4, CmAssumption DEF TypeInv, IsFree, CmAssumption
  <2>2. q.owner = t /\ q.gen = lock[a].gen /\ q.i = lock[a].i /\ q.write = TRUE
    <3> DEFINE l == lock[a]  R == [owner : Tx, version : {0}, gen : Nat, i : Entry, write : BOOLEAN]
    <3>1. l \in R /\ l.owner = t
      BY <2>1 DEF Word, IsFree
    <3> HIDE DEF l
    <3>2. [l EXCEPT !.write = TRUE].owner = t /\ [l EXCEPT !.write = TRUE].gen = l.gen
          /\ [l EXCEPT !.write = TRUE].i = l.i /\ [l EXCEPT !.write = TRUE].write = TRUE
      BY <3>1
    <3>3. QED
      BY <3>2 DEF l
  <2>3. lock' = [lock EXCEPT ![a] = q]
    BY <1>4
  <2> HIDE DEF a, q
  <2>4. lock'[a] = q /\ \A b \in Addr \ {a} : lock'[b] = lock[b]
    BY <1>1, <1>2, <2>3 DEF TypeInv
  <2>5. /\ mem' = mem /\ clock' = clock /\ version' = version /\ status' = status /\ hist' = hist
        /\ pc' = [pc EXCEPT ![t] = "active"]
    BY <1>4 DEF Goto
  <2>6. \A u \in Tx \ {t} : loc'[u] = loc[u] /\ tx'[u] = tx[u]
    BY <1>1, <1>4 DEF Clear, TypeInv
  <2>7. pc'[t] = "active" /\ (\A u \in Tx \ {t} : pc'[u] = pc[u]) /\ ~Installs(t)' /\ ~Validates(t)'
    BY <1>1, <2>5 DEF TypeInv, Installs, Validates, InInstall
  <2>8. \A u \in Tx \ {t} : Spared(u)
    BY <2>5, <2>6, <2>7 DEF Spared
  <2>9. clock' \in Nat /\ clock <= clock' /\ \A b \in Addr : mem[b] \in Nat
    BY <1>1, <2>5 DEF TypeInv
  <2>10. Shares(t)
    <3>1. ASSUME NEW b \in Addr, NEW l \in Word, lock'[b] = l, lock[b] # l, ~IsFree(l)
          PROVE  l.owner = t /\ l.gen = tx[t].gen /\ ~Logged(l, b)
      <4>1. b = a /\ l = q
        BY <2>4, <3>1
      <4>2. l.owner = t /\ l.gen = tx[t].gen /\ l.i = loc[t].l.i /\ l.write = TRUE
        BY <1>1, <1>4, <2>2, <4>1, Zenon DEF Logged
      <4>3. QED
        BY <1>1, <4>2 DEF Logged
    <3>2. QED
      BY <2>5, <2>9, <3>1 DEF Shares
  <2>11. ASSUME NEW b \in Addr PROVE Content(b)'
    <3>1. CASE b = a
      <4>1. lock'[b] = q /\ ~IsFree(lock[b])' /\ lock'[b].owner = t /\ lock'[b].i = lock[b].i
        BY <2>2, <2>4, <3>1, CmAssumption DEF IsFree, CmAssumption
      <4>2. ~Installs(lock[b].owner)'
        BY <2>7, <4>1 DEF Installs
      <4>3. Content(b) /\ ~Installs(lock[b].owner) /\ ~IsFree(lock[b]) /\ lock[b].owner = t
        BY <1>1, <2>1, <3>1 DEF MemInv
      <4>4. QED
        BY <2>5, <4>1, <4>2, <4>3 DEF Content, IsNewest
    <3>2. CASE b # a /\ lock[b].owner # t
      BY <2>4, <2>5, <2>8, <2>9, <3>2, ContentOthers
    <3>3. CASE b # a /\ lock[b].owner = t
      BY <1>1, <2>4, <2>5, <2>7, <2>9, <3>3, ContentMine
    <3>4. QED
      BY <3>1, <3>2, <3>3
  <2>12. Dated(t)' /\ Acquires(t)'
    BY <2>7 DEF Dated, Acquires
  <2>13. QED
    BY <2>8, <2>10, <2>11, <2>12, ComposeMem
<1>5. QED
  BY <1>3, <1>4 DEF Upgrade

\* One lock is given back, with the version of what memory has.
LEMMA GiveBack ==
    ASSUME MemInv, LockInv', NEW t \in Tx, \A u \in Tx \ {t} : Spared(u),
           NEW a \in Addr, NEW v \in Nat, lock' = [lock EXCEPT ![a] = Free(v)],
           mem[a] = v, IsNewest(v, hist[a]), mem' = mem, clock' = clock, hist' = hist, version' = version,
           \/ ~Installs(t) /\ ~Installs(t)'
           \/ Installs(t) /\ Installs(t)' /\ loc'[t].v = loc[t].v /\ pc'[t] = "install",
           Dated(t)', Acquires(t)'
    PROVE  MemInv'
<1>1. TypeInv
  BY DEF MemInv, LockInv
<1>2. clock' \in Nat /\ clock <= clock' /\ \A b \in Addr : mem[b] \in Nat /\ hist[b] \subseteq Nat
  BY <1>1 DEF TypeInv
<1>3. lock'[a] = Free(v) /\ IsFree(Free(v)) /\ \A b \in Addr \ {a} : lock'[b] = lock[b]
  BY <1>1, NewWords DEF TypeInv
<1>4. Shares(t)
  <2>1. ASSUME NEW b \in Addr, NEW l \in Word, lock'[b] = l, lock[b] # l, ~IsFree(l) PROVE FALSE
    BY <1>3, <2>1
  <2>2. QED
    BY <1>2, <2>1 DEF Shares
<1>5. ASSUME NEW b \in Addr PROVE Content(b)'
  <2>1. CASE b = a
    <3>1. Content(b) /\ clock \in Nat
      BY <1>1 DEF MemInv, TypeInv
    <3>2. QED
      BY <1>2, <1>3, <2>1, <3>1, ContentFree
  <2>2. CASE b # a /\ lock[b].owner # t
    BY <1>2, <1>3, <2>2, ContentOthers
  <2>3. CASE b # a /\ lock[b].owner = t
    BY <1>2, <1>3, <2>3, ContentMine
  <2>4. QED
    BY <2>1, <2>2, <2>3
<1>6. QED
  BY <1>4, <1>5, ComposeMem

LEMMA StealFreeMem ==
    ASSUME MemInv, LockInv', NEW t \in Tx, StealFree(t)
    PROVE  MemInv'
<1> DEFINE a == loc[t].addr
<1>1. LockInv /\ TypeInv /\ Purposes(t) /\ pc[t] = "steal" /\ ~Installs(t) /\ loc[t].v \in Nat
  BY DEF MemInv, LockInv, Locals, StealFree, Installs, InInstall, TypeInv, LocType
<1>2. a \in Addr /\ loc[t].l.owner \in Tx
  BY <1>1 DEF Purposes, Accesses, InAccess, InConflict
<1>3. /\ pc' = [pc EXCEPT ![t] = "again"]
      /\ UNCHANGED <<mem, clock, version, order, manager, status, tx, loc, seen, hist>>
      /\ lock' = IF lock[a] = loc[t].l THEN [lock EXCEPT ![a] = Free(loc[t].v)] ELSE lock
  BY DEF StealFree, Goto
<1>4. pc'[t] = "again" /\ (\A u \in Tx \ {t} : pc'[u] = pc[u]) /\ ~Installs(t)' /\ ~Validates(t)'
  BY <1>1, <1>3 DEF TypeInv, Installs, Validates, InInstall
<1>5. \A u \in Tx \ {t} : Spared(u)
  BY <1>3, <1>4 DEF Spared
<1>6. Dated(t)' /\ Acquires(t)'
  BY <1>4 DEF Dated, Acquires
<1>7. clock' \in Nat /\ clock <= clock'
  BY <1>1, <1>3 DEF TypeInv
<1>8. CASE lock[a] = loc[t].l
  <2>1. ~IsFree(lock[a])
    BY <1>2, <1>8, CmAssumption DEF IsFree, CmAssumption
  <2>2. mem[a] = Keeps(t) /\ IsNewest(mem[a], hist[a])
    BY <1>1, <1>2, <1>8, <2>1, ExpectedMem
  <2>3. Keeps(t) = loc[t].v
    BY <1>1 DEF Keeps
  <2>4. lock' = [lock EXCEPT ![a] = Free(loc[t].v)]
    BY <1>3, <1>8
  <2>5. QED
    BY <1>1, <1>2, <1>3, <1>4, <1>5, <1>6, <2>2, <2>3, <2>4, GiveBack
<1>9. CASE lock[a] # loc[t].l
  BY <1>1, <1>3, <1>4, <1>5, <1>6, <1>7, <1>9, QuietStep
<1>10. QED
  BY <1>8, <1>9

LEMMA DropMem ==
    ASSUME MemInv, LockInv', NEW t \in Tx, Drops(t)
    PROVE  MemInv'
<1> DEFINE i == loc[t].i  w == tx[t].w_set[i]  a == w.addr
           v == IF pc[t] = "install_drop" /\ w.mask THEN loc[t].v ELSE version[t][i]
<1>1. LockInv /\ TypeInv /\ Stage(t) /\ Position(t) /\ Room(t) /\ loc[t] \in LocType
      /\ pc[t] \in {"rollback", "drop", "ro_drop", "install_drop"}
  BY ZenonT(60) DEF MemInv, LockInv, Locals, TypeInv, Drops, RollbackDrop, StmDrop, InstallDrop, ReadOnlyDrop
<1>2. i <= Len(tx[t].w_set)
  BY <1>1, Zenon DEF Drops, RollbackDrop, StmDrop, InstallDrop, Position
<1>3. i \in DOMAIN tx[t].w_set /\ a \in Addr /\ i \in Nat /\ i > Passed(t) /\ w.mask \in BOOLEAN
  <2>1. i \in Nat /\ i > 0 /\ Len(tx[t].w_set) \in Nat /\ DOMAIN tx[t].w_set = 1 .. Len(tx[t].w_set)
    BY <1>1, WriteSet
  <2>2. i \in DOMAIN tx[t].w_set
    BY <1>2, <2>1
  <2>3. Passed(t) = i - 1
    BY <1>1 DEF Passed
  <2>4. QED
    BY <1>1, <2>1, <2>2, <2>3, WriteSet
<1>4. v \in Nat /\ loc[t].v \in Nat
  BY <1>1, <1>3, InLog DEF LocType
<1>5. /\ mem' = mem /\ clock' = clock /\ version' = version /\ status' = status /\ tx' = tx /\ hist' = hist
      /\ loc' = [loc EXCEPT ![t].i = i + 1]
      /\ pc' = IF pc[t] = "install_drop" THEN [pc EXCEPT ![t] = "install"] ELSE pc
      /\ lock' = [lock EXCEPT ![a] = Free(v)] \/ (pc[t] = "drop" /\ lock' = lock)
  <2>1. CASE RollbackDrop(t)
    BY <2>1 DEF RollbackDrop
  <2>2. CASE StmDrop(t)
    BY <2>2, ZenonT(60) DEF StmDrop
  <2>3. CASE InstallDrop(t)
    <3>1. pc[t] = "install_drop" /\ v = (IF w.mask THEN loc[t].v ELSE version[t][i])
      BY <2>3 DEF InstallDrop
    <3>2. lock' = [lock EXCEPT ![a] = Free(v)]
      BY <2>3, <3>1 DEF InstallDrop
    <3>3. QED
      BY <2>3, <3>1, <3>2 DEF InstallDrop, Goto
  <2>4. CASE ReadOnlyDrop(t) /\ loc[t].i <= Len(tx[t].w_set)
    <3>1. pc[t] = "ro_drop" /\ v = version[t][i] /\ ~(i > Len(tx[t].w_set))
      <4>1. Len(tx[t].w_set) \in Nat
        BY <1>1, WriteSet
      <4>2. QED
        <5>1. pc[t] = "ro_drop"
          BY <2>4 DEF ReadOnlyDrop
        <5>2. v = version[t][i]
          BY <5>1
        <5> HIDE DEF i, w, a, v
        <5>3. QED
          BY <1>2, <1>3, <4>1, <5>1, <5>2
    <3>2. lock' = [lock EXCEPT ![a] = Free(v)]
      BY <2>4, <3>1, Zenon DEF ReadOnlyDrop
    <3>3. QED
      BY <2>4, <3>1, <3>2 DEF ReadOnlyDrop
  <2>5. QED
    BY <2>1, <2>2, <2>3, <2>4 DEF Drops
<1>6. lock' = [lock EXCEPT ![a] = Free(v)] \/ (pc[t] = "drop" /\ lock' = lock)
  BY <1>5, Zenon
<1>7. pc[t] = "drop" /\ lock' # lock => lock[a].owner = t /\ lock[a].i = i
  BY <1>2, Zenon DEF Drops, RollbackDrop, StmDrop, InstallDrop, ReadOnlyDrop, MyEntry
<1> HIDE DEF i, w, a, v
<1>8. /\ loc'[t].v = loc[t].v /\ \A u \in Tx \ {t} : loc'[u] = loc[u] /\ pc'[u] = pc[u]
      /\ pc'[t] = IF pc[t] = "install_drop" THEN "install" ELSE pc[t]
  <2>1. [loc[t] EXCEPT !.i = i + 1].v = loc[t].v
    BY <1>1 DEF LocType
  <2>2. loc'[t] = [loc[t] EXCEPT !.i = i + 1] /\ \A u \in Tx \ {t} : loc'[u] = loc[u]
    BY <1>1, <1>5 DEF TypeInv
  <2>3. QED
    BY <1>1, <1>5, <2>1, <2>2 DEF TypeInv
<1>9. \A u \in Tx \ {t} : Spared(u)
  BY <1>5, <1>8 DEF Spared
<1>10. \/ ~Installs(t) /\ ~Installs(t)' /\ pc[t] # "install_drop"
       \/ pc[t] = "install_drop" /\ Installs(t) /\ Installs(t)' /\ loc'[t].v = loc[t].v /\ pc'[t] = "install"
  BY <1>1, <1>8 DEF Installs, InInstall
<1>11. Dated(t)' /\ Acquires(t)'
  <2>1. ~Validates(t)' /\ pc'[t] \notin {"vis_value", "acquire_cas"}
    BY <1>1, <1>8 DEF Validates
  <2>2. Dated(t)
    BY DEF MemInv
  <2>3. QED
    BY <1>5, <1>8, <1>10, <2>1, <2>2 DEF Dated, Acquires
<1>12. clock' \in Nat /\ clock <= clock'
  BY <1>1, <1>5 DEF TypeInv
<1>13. CASE lock' = lock
  <2>1. pc[t] = "drop"
    <3>1. SUFFICES ASSUME pc[t] # "drop" PROVE FALSE
      OBVIOUS
    <3>2. ~Is(t, "KILLED")
      BY <1>1, <3>1 DEF Stage, Commits, Installs, InInstall, Is
    <3>3. ~IsFree(lock[a])
      BY <1>1, <1>3, <3>2, Locked DEF a, w
    <3>4. lock'[a] = Free(v) /\ IsFree(Free(v))
      BY <1>1, <1>3, <1>4, <1>6, <3>1, NewWords DEF TypeInv
    <3>5. QED
      BY <1>13, <3>3, <3>4
  <2>2. QED
    BY <1>5, <1>9, <1>10, <1>11, <1>12, <1>13, <2>1, QuietStep
<1>14. CASE lock' = [lock EXCEPT ![a] = Free(v)] /\ lock' # lock
  <2>1. lock[a].owner = t /\ lock[a].i = i /\ (pc[t] = "install_drop" => lock[a].write = w.mask)
    <3>1. CASE pc[t] = "drop"
      BY <1>7, <1>14, <3>1
    <3>2. CASE pc[t] # "drop"
      <4>1. ~Is(t, "KILLED")
        BY <1>1, <3>2 DEF Stage, Commits, Installs, InInstall, Is
      <4>2. QED
        BY <1>1, <1>3, <4>1, Locked DEF a, w
    <3>3. QED
      BY <3>1, <3>2
  <2>2. ~IsFree(lock[a]) /\ Content(a)
    BY <1>3, <2>1, CmAssumption DEF IsFree, CmAssumption, MemInv
  <2>3. mem[a] = v /\ IsNewest(v, hist[a])
    <3>1. CASE pc[t] = "install_drop" /\ w.mask
      <4>1. lock[a].owner = t /\ Installs(t) /\ lock[a].write /\ lock[a].i = loc[t].i
        BY <1>10, <2>1, <3>1 DEF i
      <4>2. IsNewest(loc[t].v, hist[a]) /\ mem[a] = loc[t].v
        BY <2>2, <3>1, <4>1 DEF Content
      <4>3. QED
        BY <3>1, <4>2 DEF v
    <3>2. CASE ~(pc[t] = "install_drop" /\ w.mask)
      <4>1. lock[a].owner = t /\ ~(Installs(t) /\ lock[a].write)
        BY <1>3, <1>10, <2>1, <3>2
      <4>2. mem[a] = version[t][i] /\ IsNewest(mem[a], hist[a])
        BY <2>1, <2>2, <4>1 DEF Content
      <4>3. QED
        BY <3>2, <4>2 DEF v
    <3>3. QED
      BY <3>1, <3>2
  <2>4. QED
    BY <1>3, <1>4, <1>5, <1>9, <1>10, <1>11, <1>14, <2>3, GiveBack
<1>15. QED
  BY <1>6, <1>13, <1>14

\* Steps that leave the locks of t to itself, or come when it has none.
LEMMA ValidateMem ==
    ASSUME MemInv, LockInv', NEW t \in Tx, Validate(t)
    PROVE  MemInv'
<1>1. LockInv /\ TypeInv /\ pc[t] = "validate" /\ ~Installs(t) /\ loc[t] \in LocType /\ clock \in Nat
  BY DEF MemInv, LockInv, TypeInv, Validate, Installs, InInstall
<1>2. CASE Rollback(t, TRUE, FALSE)
  BY <1>1, <1>2, IdleRollback, IdleMem
<1>3. CASE loc' = [loc EXCEPT ![t].i = loc[t].i + 1] /\ UNCHANGED <<shared, status, tx, pc, seen, hist>>
  <2>1. [loc[t] EXCEPT !.i = loc[t].i + 1].v = loc[t].v /\ [loc[t] EXCEPT !.i = loc[t].i + 1].for = loc[t].for
    BY <1>1 DEF LocType
  <2>2. loc'[t] = [loc[t] EXCEPT !.i = loc[t].i + 1] /\ \A u \in Tx \ {t} : loc'[u] = loc[u]
    BY <1>1, <1>3 DEF TypeInv
  <2>3. /\ lock' = lock /\ mem' = mem /\ clock' = clock /\ version' = version /\ status' = status
        /\ tx' = tx /\ hist' = hist /\ pc' = pc
    BY <1>3 DEF shared
  <2>4. \A u \in Tx \ {t} : Spared(u)
    BY <2>2, <2>3 DEF Spared
  <2>5. Dated(t)' /\ Acquires(t)' /\ ~Installs(t)'
    <3>1. Validates(t)' = Validates(t) /\ ~Installs(t)' /\ pc'[t] = "validate" /\ loc'[t].v = loc[t].v
      BY <1>1, <2>1, <2>2, <2>3 DEF Validates, Installs, InInstall
    <3>2. Dated(t)
      BY DEF MemInv
    <3>3. QED
      BY <2>3, <3>1, <3>2 DEF Dated, Acquires
  <2>6. QED
    BY <1>1, <2>3, <2>4, <2>5, QuietStep
<1>4. QED
  BY <1>2, <1>3 DEF Validate

LEMMA CommittedMem ==
    ASSUME MemInv, LockInv', NEW t \in Tx, Committed(t)
    PROVE  MemInv'
<1>1. LockInv /\ TypeInv /\ (pc[t] = "end" \/ (pc[t] = "install" /\ loc[t].i > Len(tx[t].w_set)))
  BY DEF MemInv, LockInv, Committed
<1>2. \A a \in Addr : lock[a].owner # t
  <2>1. SUFFICES ASSUME NEW a \in Addr, lock[a].owner = t PROVE FALSE
    OBVIOUS
  <2>2. Holding(a) /\ ~IsFree(lock[a])
    BY <1>1, <2>1, CmAssumption DEF LockInv, IsFree, CmAssumption
  <2>3. lock[a].i \in 1 .. Len(tx[t].w_set) /\ lock[a].i > Passed(t)
    BY <1>1, <2>1, <2>2, WriteSet DEF Holding, Logged
  <2>4. Passed(t) >= Len(tx[t].w_set) /\ Len(tx[t].w_set) \in Nat
    BY <1>1, WriteSet DEF Passed
  <2>5. Passed(t) \in Nat
    BY <1>1, WriteSet
  <2>6. QED
    BY <2>3, <2>4, <2>5
<1>3. PICK label \in {"on_commit", "idle"} : pc' = [pc EXCEPT ![t] = label]
  BY DEF Committed, Goto
<1>4. /\ lock' = lock /\ mem' = mem /\ clock' = clock /\ version' = version /\ hist' = hist
      /\ loc' = [loc EXCEPT ![t] = NoLoc]
  BY DEF Committed, Clear, shared
<1>5. pc'[t] = label /\ \A u \in Tx \ {t} : pc'[u] = pc[u] /\ loc'[u] = loc[u]
  BY <1>1, <1>3, <1>4 DEF TypeInv
<1>6. \A u \in Tx \ {t} : tx'[u] = tx[u] /\ status'[u] = status[u]
  BY <1>1 DEF Committed, SetStatus, TypeInv
<1>7. \A u \in Tx \ {t} : Spared(u)
  BY <1>4, <1>5, <1>6 DEF Spared
<1>8. Dated(t)' /\ Acquires(t)'
  BY <1>5 DEF Dated, Acquires, Validates, Installs, InInstall
<1>9. clock' \in Nat /\ clock <= clock'
  BY <1>1, <1>4 DEF TypeInv
<1>10. QED
  BY <1>2, <1>4, <1>7, <1>8, <1>9, QuietStep

LEMMA ReadOnlyEndMem ==
    ASSUME MemInv, LockInv', NEW t \in Tx, ReadOnlyDrop(t), loc[t].i > Len(tx[t].w_set)
    PROVE  MemInv'
<1>1. LockInv /\ TypeInv /\ pc[t] = "ro_drop" /\ ~Installs(t) /\ Len(tx[t].w_set) \in Nat /\ loc[t].i \in Nat
  BY WriteSet DEF MemInv, LockInv, ReadOnlyDrop, Installs, InInstall
<1>2. ~(loc[t].i <= Len(tx[t].w_set))
  BY <1>1
<1>3. /\ lock' = lock /\ mem' = mem /\ clock' = clock + 1 /\ version' = version /\ hist' = hist
      /\ status' = status /\ tx' = tx /\ loc' = loc /\ pc' = [pc EXCEPT ![t] = "end"]
  BY <1>2 DEF ReadOnlyDrop, Goto
<1>4. pc'[t] = "end" /\ (\A u \in Tx \ {t} : pc'[u] = pc[u]) /\ ~Installs(t)'
  BY <1>1, <1>3 DEF TypeInv, Installs, InInstall
<1>5. \A u \in Tx \ {t} : Spared(u)
  BY <1>3, <1>4 DEF Spared
<1>6. Dated(t)' /\ Acquires(t)'
  BY <1>4 DEF Dated, Acquires, Validates, Installs, InInstall
<1>7. clock' \in Nat /\ clock <= clock'
  BY <1>1, <1>3 DEF TypeInv
<1>8. QED
  BY <1>1, <1>3, <1>4, <1>5, <1>6, <1>7, QuietStep, SMTT(40)

\* The addresses that a commit writes.
Writes(t, a) == \E j \in DOMAIN tx[t].w_set : tx[t].w_set[j].addr = a /\ tx[t].w_set[j].mask

LEMMA StartInstallMem ==
    ASSUME MemInv, LockInv', NEW t \in Tx, NEW ts \in Nat, StartInstall(t, ts), Is(t, "COMMITTING"),
           Passed(t) = 0, ~Installs(t), clock' \in Nat, clock <= clock', ts <= clock',
           lock' = lock, mem' = mem, version' = version, tx' = tx, status' = status,
           \A i \in DOMAIN tx[t].w_set : \A n \in hist[tx[t].w_set[i].addr] : n < ts
    PROVE  MemInv'
<1>1. LockInv /\ TypeInv
  BY DEF MemInv, LockInv
<1>2. \A a \in Addr : hist'[a] = IF Writes(t, a) THEN hist[a] \cup {ts} ELSE hist[a]
  BY DEF StartInstall, Writes
<1>3. /\ pc' = [pc EXCEPT ![t] = "install"] /\ loc' = [loc EXCEPT ![t].i = 1, ![t].v = ts]
  BY DEF StartInstall, Goto
<1>4. /\ pc'[t] = "install" /\ loc'[t].v = ts
      /\ \A u \in Tx \ {t} : pc'[u] = pc[u] /\ loc'[u] = loc[u]
  <2> DEFINE x == [loc[t] EXCEPT !.i = 1, !.v = ts]
  <2>1. loc' = [loc EXCEPT ![t] = x]
    BY <1>1, <1>3 DEF TypeInv
  <2>2. x.v = ts
    BY <1>1 DEF TypeInv, LocType
  <2> HIDE DEF x
  <2>3. QED
    BY <1>1, <1>3, <2>1, <2>2 DEF TypeInv
<1>5. \A u \in Tx \ {t} : Spared(u)
  BY <1>4 DEF Spared
<1>6. ASSUME NEW a \in Addr, Writes(t, a)
      PROVE  lock[a].owner = t /\ ~IsFree(lock[a]) /\ lock[a].write /\ \A n \in hist[a] : n < ts
  <2>1. PICK j \in DOMAIN tx[t].w_set : tx[t].w_set[j].addr = a /\ tx[t].w_set[j].mask
    BY <1>6 DEF Writes
  <2>2. j > 0 /\ ~Is(t, "KILLED")
    BY <1>1, WriteSet DEF Is
  <2>3. QED
    BY <1>1, <2>1, <2>2, Locked
<1>7. \A a \in Addr : mem[a] \in Nat
  BY <1>1 DEF TypeInv
<1>8. Shares(t)
  <2>1. \A b \in Addr : hist[b] \subseteq hist'[b]
    BY <1>2
  <2>2. \A b \in Addr : mem'[b] \in Nat /\ mem[b] <= mem'[b]
    BY <1>7
  <2>3. \A b \in Addr : hist'[b] = hist[b] \/ lock[b].owner = t
    BY <1>2, <1>6
  <2>4. QED
    BY <2>1, <2>2, <2>3 DEF Shares
<1>9. Installs(t)' /\ ~Validates(t)'
  BY <1>4 DEF Installs, Validates, InInstall
<1>10. ASSUME NEW a \in Addr PROVE Content(a)'
  <2>1. CASE Writes(t, a)
    <3>1. lock'[a].owner = t /\ ~IsFree(lock[a])' /\ lock'[a].write /\ \A n \in hist[a] : n < ts
      BY <1>6, <2>1 DEF IsFree
    <3>2. Installs(lock[a].owner)'
      BY <1>9, <3>1 DEF Installs
    <3>3. hist'[a] = hist[a] \cup {ts} /\ Content(a) /\ hist[a] \subseteq Nat
      BY <1>1, <1>2, <2>1 DEF MemInv, TypeInv
    <3>4. IsNewest(ts, hist'[a]) /\ mem'[a] \in hist'[a]
      BY <3>1, <3>3 DEF IsNewest, Content
    <3>5. \A n \in hist'[a] : n <= clock'
      BY <3>1, <3>3
    <3>6. pc'[lock'[a].owner] # "install_drop" /\ loc'[lock'[a].owner].v = ts
      BY <1>4, <3>1
    <3>7. QED
      BY <3>1, <3>2, <3>4, <3>5, <3>6 DEF Content, IsNewest
  <2>2. CASE ~Writes(t, a) /\ lock[a].owner # t
    BY <1>2, <1>5, <2>2, ContentOthers
  <2>3. CASE ~Writes(t, a) /\ lock[a].owner = t
    <3>1. Holding(a) /\ ~IsFree(lock[a])
      BY <1>1, <2>3, CmAssumption DEF LockInv, IsFree, CmAssumption
    <3>2. ~lock[a].write
      BY <2>3, <3>1 DEF Holding, Logged, Writes
    <3>3. QED
      BY <1>2, <2>3, <3>2, ContentMine
  <2>4. QED
    BY <2>1, <2>2, <2>3
<1>11. Dated(t)' /\ Acquires(t)'
  BY <1>4, <1>9 DEF Dated, Acquires
<1>12. QED
  BY <1>5, <1>8, <1>10, <1>11, ComposeMem

LEMMA StampMem ==
    ASSUME MemInv, LockInv', NEW t \in Tx, CommitClock(t) \/ CommitValidated(t)
    PROVE  MemInv'
<1>1. LockInv /\ TypeInv /\ Stage(t) /\ clock \in Nat /\ loc[t].v \in Nat /\ loc[t] \in LocType
  BY DEF MemInv, LockInv, Locals, TypeInv, LocType
<1>2. ASSUME NEW i \in DOMAIN tx[t].w_set, NEW n \in hist[tx[t].w_set[i].addr]
      PROVE  n <= clock
  <2>1. tx[t].w_set[i].addr \in Addr
    BY <1>1, WriteSet
  <2>2. QED
    BY <1>2, <2>1 DEF MemInv, Content
<1>3. \A i \in DOMAIN tx[t].w_set : hist[tx[t].w_set[i].addr] \subseteq Nat
  BY <1>1, WriteSet DEF TypeInv
<1>4. CASE CommitClock(t) /\ StartInstall(t, clock + 1)
  <2>1. Is(t, "COMMITTING") /\ Passed(t) = 0 /\ ~Installs(t)
    BY <1>1, <1>4 DEF CommitClock, Stage, Commits, Is, Passed, Installs, InInstall
  <2>2. clock' = clock + 1 /\ lock' = lock /\ mem' = mem /\ version' = version /\ tx' = tx /\ status' = status
    BY <1>4 DEF CommitClock
  <2>3. \A i \in DOMAIN tx[t].w_set : \A n \in hist[tx[t].w_set[i].addr] : n < clock + 1
    BY <1>1, <1>2, <1>3
  <2>4. clock' \in Nat /\ clock <= clock' /\ clock + 1 <= clock' /\ clock + 1 \in Nat
    BY <1>1, <2>2
  <2>5. QED
    BY <1>4, <2>1, <2>2, <2>3, <2>4, StartInstallMem
<1>5. CASE CommitClock(t) /\ tx[t].start # clock
  <2> DEFINE x == [loc[t] EXCEPT !.i = 1, !.v = clock + 1, !.for = "commit"]
  <2>1. clock' = clock + 1 /\ lock' = lock /\ mem' = mem /\ version' = version /\ tx' = tx /\ status' = status
        /\ hist' = hist /\ pc' = [pc EXCEPT ![t] = "validate"]
        /\ loc' = [loc EXCEPT ![t].i = 1, ![t].v = clock + 1, ![t].for = "commit"] /\ pc[t] = "commit_clock"
    BY <1>5 DEF CommitClock, Goto
  <2>2. x.v = clock + 1
    BY <1>1 DEF LocType
  <2>3. loc'[t] = x /\ pc'[t] = "validate" /\ \A u \in Tx \ {t} : loc'[u] = loc[u] /\ pc'[u] = pc[u]
    BY <1>1, <2>1 DEF TypeInv
  <2>4. \A u \in Tx \ {t} : Spared(u)
    BY <2>1, <2>3 DEF Spared
  <2>5. ~Installs(t) /\ ~Installs(t)'
    BY <2>1, <2>3 DEF Installs, InInstall
  <2>6. \A i \in DOMAIN tx[t].w_set : \A n \in hist[tx[t].w_set[i].addr] : n < clock + 1
    BY <1>1, <1>2, <1>3
  <2> HIDE DEF x
  <2>7. Dated(t)' /\ Acquires(t)'
    <3>1. loc'[t].v = clock + 1
      BY <2>2, <2>3
    <3>2. clock + 1 <= clock'
      BY <1>1, <2>1
    <3>3. QED
      BY <2>1, <2>3, <2>6, <3>1, <3>2 DEF Dated, Acquires
  <2>8. clock' \in Nat /\ clock <= clock'
    BY <1>1, <2>1
  <2>9. QED
    BY <2>1, <2>4, <2>5, <2>7, <2>8, QuietStep
<1>6. CASE CommitValidated(t)
  <2>1. Validates(t)
    BY <1>6 DEF CommitValidated, Validates
  <2>2. Is(t, "COMMITTING") /\ Passed(t) = 0 /\ ~Installs(t)
    BY <1>1, <2>1 DEF Validates, Stage, Commits, Is, Passed, Installs, InInstall
  <2>3. clock' = clock /\ lock' = lock /\ mem' = mem /\ version' = version /\ tx' = tx /\ status' = status
        /\ StartInstall(t, loc[t].v)
    BY <1>6 DEF CommitValidated, shared
  <2>4. loc[t].v <= clock
        /\ \A i \in DOMAIN tx[t].w_set : \A n \in hist[tx[t].w_set[i].addr] : n < loc[t].v
    BY <2>1 DEF MemInv, Dated
  <2> DEFINE ts == loc[t].v
  <2> HIDE DEF ts
  <2>5. clock' \in Nat /\ clock <= clock' /\ ts <= clock' /\ ts \in Nat
    BY <1>1, <2>3, <2>4 DEF ts
  <2>6. StartInstall(t, ts) /\ \A i \in DOMAIN tx[t].w_set : \A n \in hist[tx[t].w_set[i].addr] : n < ts
    BY <2>3, <2>4 DEF ts
  <2>7. QED
    BY <2>2, <2>3, <2>5, <2>6, StartInstallMem
<1>7. QED
  BY <1>4, <1>5, <1>6 DEF CommitClock

LEMMA InstallMem ==
    ASSUME MemInv, LockInv', NEW t \in Tx, Install(t)
    PROVE  MemInv'
<1> DEFINE i == loc[t].i  w == tx[t].w_set[i]  a == w.addr  v == loc[t].v
<1>1. LockInv /\ TypeInv /\ Stage(t) /\ pc[t] = "install" /\ Installs(t) /\ v \in Nat /\ Content(a)
      /\ i <= Len(tx[t].w_set)
  <2>1. LockInv /\ TypeInv /\ Stage(t) /\ pc[t] = "install" /\ Installs(t) /\ v \in Nat
        /\ i <= Len(tx[t].w_set)
    BY DEF MemInv, LockInv, Locals, TypeInv, LocType, Install, Installs, InInstall
  <2>2. i \in DOMAIN tx[t].w_set
    BY <2>1, WriteSet
  <2>3. a \in Addr
    BY <2>1, <2>2, WriteSet
  <2>4. QED
    BY <2>1, <2>3 DEF MemInv
<1>2. i \in DOMAIN tx[t].w_set /\ i > Passed(t) /\ ~Is(t, "KILLED") /\ a \in Addr
  <2>1. i \in DOMAIN tx[t].w_set /\ i \in Nat
    BY <1>1, WriteSet
  <2>2. Passed(t) = i - 1
    BY <1>1 DEF Passed
  <2>3. QED
    BY <1>1, <2>1, <2>2, WriteSet DEF Stage, Commits, Is
<1>3. lock[a].owner = t /\ ~IsFree(lock[a]) /\ lock[a].i = i /\ lock[a].write = w.mask
  BY <1>1, <1>2, Locked, ZenonT(60)
<1>4. /\ lock' = lock /\ clock' = clock /\ version' = version /\ status' = status /\ tx' = tx /\ loc' = loc
      /\ hist' = hist /\ pc' = [pc EXCEPT ![t] = "install_drop"]
      /\ mem' = IF w.mask THEN [mem EXCEPT ![a] = v] ELSE mem
  BY DEF Install, Goto
<1> HIDE DEF i, w, a, v
<1>5. pc'[t] = "install_drop" /\ \A u \in Tx \ {t} : pc'[u] = pc[u]
  BY <1>1, <1>4 DEF TypeInv
<1>6. Installs(t)' /\ ~Validates(t)'
  BY <1>5 DEF Installs, Validates, InInstall
<1>7. \A u \in Tx \ {t} : Spared(u)
  BY <1>4, <1>5 DEF Spared
<1>8. mem'[a] = (IF w.mask THEN v ELSE mem[a]) /\ \A b \in Addr \ {a} : mem'[b] = mem[b]
  BY <1>1, <1>2, <1>4 DEF TypeInv
<1>9. w.mask => v \in hist[a] /\ mem[a] <= v /\ IsNewest(v, hist[a])
  <2>1. w.mask => IsNewest(loc[lock[a].owner].v, hist[a])
    BY <1>1, <1>3 DEF Content
  <2>2. mem[a] \in hist[a]
    BY <1>1 DEF Content
  <2>3. QED
    BY <1>3, <2>1, <2>2 DEF IsNewest, v
<1>10. Shares(t)
  <2>1. \A b \in Addr : mem[b] \in Nat
    BY <1>1 DEF TypeInv
  <2>2. \A b \in Addr : mem'[b] \in Nat /\ mem[b] <= mem'[b]
    BY <1>1, <1>8, <1>9, <2>1
  <2>3. clock' \in Nat /\ clock <= clock'
    BY <1>1, <1>4 DEF TypeInv
  <2>4. QED
    BY <1>4, <2>2, <2>3 DEF Shares
<1>11. clock' \in Nat /\ clock <= clock'
  BY <1>10 DEF Shares
<1>12. ASSUME NEW b \in Addr PROVE Content(b)'
  <2>1. CASE b = a /\ w.mask
    <3>1. lock'[b].owner = t /\ ~IsFree(lock[b])' /\ lock'[b].write /\ lock'[b].i = i
      BY <1>3, <1>4, <2>1 DEF IsFree
    <3>2. Installs(lock[b].owner)' /\ loc'[lock'[b].owner].v = v
      BY <1>4, <1>6, <3>1 DEF Installs, v
    <3>3. mem'[b] = v /\ hist'[b] = hist[b] /\ \A n \in hist[b] : n <= clock'
      BY <1>1, <1>4, <1>8, <2>1 DEF Content
    <3>4. QED
      BY <1>9, <2>1, <3>1, <3>2, <3>3 DEF Content, IsNewest
  <2>2. CASE ~(b = a /\ w.mask) /\ lock[b].owner # t
    BY <1>4, <1>7, <1>8, <1>11, <2>2, ContentOthers
  <2>3. CASE ~(b = a /\ w.mask) /\ lock[b].owner = t
    <3>1. ~lock[b].write \/ lock[b].i # i
      <4>1. CASE b = a
        BY <1>3, <2>3, <4>1
      <4>2. CASE b # a
        <5>1. Holding(b) /\ ~IsFree(lock[b])
          BY <1>1, <2>3, CmAssumption DEF LockInv, IsFree, CmAssumption
        <5>2. tx[t].w_set[lock[b].i].addr = b
          BY <2>3, <5>1 DEF Holding, Logged
        <5>3. QED
          BY <4>2, <5>2 DEF a, w
      <4>3. QED
        BY <4>1, <4>2
    <3>2. mem'[b] = mem[b] /\ lock'[b] = lock[b] /\ hist'[b] = hist[b] /\ version'[t][lock[b].i] = version[t][lock[b].i]
      BY <1>4, <1>8, <2>3
    <3>3. \/ ~lock[b].write
          \/ /\ Installs(t) /\ Installs(t)' /\ loc'[t].v = loc[t].v
             /\ ~(pc'[t] = "install_drop" /\ lock[b].i = loc'[t].i)
      BY <1>1, <1>4, <1>6, <3>1 DEF i
    <3>4. QED
      BY <1>11, <2>3, <3>2, <3>3, ContentMine
  <2>4. QED
    BY <2>1, <2>2, <2>3
<1>13. Dated(t)' /\ Acquires(t)'
  <2>1. Dated(t)
    BY DEF MemInv
  <2>2. QED
    BY <1>1, <1>4, <1>5, <1>6, <2>1 DEF Dated, Acquires
<1>14. QED
  BY <1>7, <1>10, <1>12, <1>13, ComposeMem

LEMMA MemInit ==
    ASSUME Init
    PROVE  MemInv
<1>1. LockInv
  BY LockInit
<1>2. IsFree(Free(0)) /\ Free(0).version = 0
  BY DEF IsFree, Free
<1>3. ASSUME NEW a \in Addr PROVE Content(a)
  BY <1>2 DEF Init, Content, IsNewest
<1>4. ASSUME NEW t \in Tx PROVE Dated(t) /\ Acquires(t)
  BY DEF Init, Dated, Acquires, Validates, Installs, InInstall
<1>5. QED
  BY <1>1, <1>3, <1>4 DEF MemInv

LEMMA MemStutter ==
    ASSUME MemInv, LockInv', UNCHANGED vars
    PROVE  MemInv'
<1>1. /\ lock' = lock /\ mem' = mem /\ clock' = clock /\ status' = status /\ version' = version
      /\ tx' = tx /\ pc' = pc /\ loc' = loc /\ order' = order /\ seen' = seen /\ hist' = hist
  BY DEF vars
<1>2. \A a \in Addr : Content(a)'
  BY <1>1 DEF MemInv, Content, IsFree, Installs
<1>3. \A t \in Tx : Dated(t)' /\ Acquires(t)'
  BY <1>1 DEF MemInv, Dated, Acquires, Validates, Installs, IsFree
<1>4. QED
  BY <1>2, <1>3 DEF MemInv

LEMMA MemStep ==
    ASSUME CountsWrap = FALSE, MemInv, [Next]_vars
    PROVE  MemInv'
<1>1. LockInv /\ LockInv'
  BY LockStep DEF MemInv
<1>2. CASE UNCHANGED vars
  BY <1>1, <1>2, MemStutter
<1>3. ASSUME NEW t \in Tx, Running(t)
      PROVE  MemInv'
  <2>1. CASE Retry(t)
    BY <1>1, <2>1, IdleStart, IdleMem
  <2>2. CASE \/ mod_order_on_start(t) \/ mod_order_on_commit(t) \/ Abort(t) \/ Dropped(t) \/ WaitLock(t)
             \/ mod_order_on_precommit(t) \/ CommitCas(t)
    BY <1>1, <2>2, IdleLife, IdleMem
  <2>3. CASE \/ CmStatus(t) \/ CmLock(t) \/ CmDecide(t) \/ Kill(t) \/ KillWait(t) \/ KillFailed(t)
             \/ LoadValue(t) \/ LoadRelock(t) \/ LoadVersion(t) \/ LoadCheck(t) \/ Recheck(t) \/ Extended(t)
    BY <1>1, <2>3, IdleAccess, IdleMem
  <2>4. CASE RollbackDrop(t) \/ StmDrop(t) \/ InstallDrop(t)
    BY <1>1, <2>4, DropMem DEF Drops
  <2>5. CASE StealFree(t) \/ StealAcquire(t) \/ VisibleValue(t)
    BY <1>1, <2>5, StealFreeMem, StealAcquireMem, VisibleValueMem
  <2>6. CASE AcquireCas(t) \/ Upgrade(t)
    BY <1>1, <2>6, AcquireCasMem, UpgradeMem
  <2>7. CASE Again(t) \/ Restart(t)
    BY <1>1, <2>7, AgainMem
  <2>8. CASE Validate(t)
    BY <1>1, <2>8, ValidateMem
  <2>9. CASE ReadOnlyDrop(t)
    <3>1. CASE loc[t].i <= Len(tx[t].w_set)
      BY <1>1, <2>9, <3>1, DropMem DEF Drops
    <3>2. CASE loc[t].i > Len(tx[t].w_set)
      BY <1>1, <2>9, <3>2, ReadOnlyEndMem
    <3>3. QED
      BY <2>9, <3>1, <3>2 DEF ReadOnlyDrop
  <2>10. CASE CommitClock(t) \/ CommitValidated(t)
    BY <1>1, <2>10, StampMem
  <2>11. CASE Install(t)
    BY <1>1, <2>11, InstallMem
  <2>12. CASE Committed(t)
    BY <1>1, <2>12, CommittedMem
  <2>13. QED
    BY <1>3, <2>1, <2>2, <2>3, <2>4, <2>5, <2>6, <2>7, <2>8, <2>9, <2>10, <2>11, <2>12 DEF Running
<1>4. ASSUME NEW t \in Tx, Start(t) \/ Load(t) \/ Store(t) \/ Commit(t)
      PROVE  MemInv'
  <2>1. Idle(t)
    BY <1>1, <1>4, IdleStart, IdleAccess, IdleLife
  <2>2. QED
    BY <1>1, <2>1, IdleMem
<1>5. QED
  BY <1>2, <1>3, <1>4 DEF Next

THEOREM MemInvariant == ASSUME CountsWrap = FALSE PROVE Spec => []MemInv
<1>1. MemInv /\ [Next]_vars => MemInv'
  BY MemStep
<1>2. QED
  BY <1>1, MemInit, PTL DEF Spec

LEMMA OneNewest ==
    ASSUME NEW S \in SUBSET Nat, NEW n \in S, IsNewest(n, S)
    PROVE  Newest(S) = n
<1>1. \A k \in S : (\A m \in S : m <= k) => k = n
  BY DEF IsNewest
<1>2. \A m \in S : m <= n
  BY DEF IsNewest
<1>3. QED
  BY <1>1, <1>2 DEF Newest

\* A free lock and its word belong together, with the newest commit to it: no theft and
\* no lock that a dropped attempt gives back loses or revives a version.
THEOREM FreeLocksCurrent == ASSUME CountsWrap = FALSE PROVE Spec => []CommittedMemory
<1>1. ASSUME MemInv PROVE CommittedMemory
  <2>1. SUFFICES ASSUME NEW a \in Addr, IsFree(lock[a])
                 PROVE  mem[a] = lock[a].version /\ mem[a] = Newest(hist[a])
    BY DEF CommittedMemory
  <2>2. mem[a] = lock[a].version /\ mem[a] \in hist[a] /\ IsNewest(mem[a], hist[a])
    BY <1>1, <2>1 DEF MemInv, Content
  <2>3. hist[a] \in SUBSET Nat
    BY <1>1 DEF MemInv, LockInv, TypeInv
  <2>4. QED
    BY <2>2, <2>3, OneNewest
<1>2. QED
  BY <1>1, MemInvariant, PTL

-----------------------------------------------------------------------------
(* What visible reads have seen *)

\* A step of t leaves its visible reads in order.
Own(t) == OnlyVisible(t)' /\ Covered(t)'

LEMMA VisibleCompose ==
    ASSUME VisibleInv, MemInv', NEW t \in Tx, Apart(t), Own(t), InSnapshot(t)',
           \A u \in Tx \ {t} : InSnapshot(u)' /\ After(t, u)' /\ After(u, t)'
    PROVE  VisibleInv'
<1>1. ASSUME NEW u \in Tx \ {t}
      PROVE  /\ pc'[u] = pc[u] /\ loc'[u] = loc[u] /\ tx'[u] = tx[u] /\ version'[u] = version[u]
             /\ seen'[u] = seen[u]
  BY DEF Apart, Spared
<1>2. \A u \in Tx \ {t} : OnlyVisible(u)'
  BY <1>1 DEF VisibleInv, OnlyVisible, Rests, Unwinds, Extends
<1>3. \A u \in Tx \ {t} : Covered(u)'
  BY <1>1 DEF VisibleInv, Covered
<1>4. \A u, w \in Tx \ {t} : After(u, w)'
  BY <1>1 DEF VisibleInv, After, Installs, Validates
<1>5. After(t, t)'
  BY DEF After, Installs, Validates, InInstall
<1>6. \A u \in Tx : OnlyVisible(u)' /\ Covered(u)' /\ InSnapshot(u)'
  BY <1>2, <1>3 DEF Own
<1>7. \A u, w \in Tx : After(u, w)'
  BY <1>4, <1>5
<1>8. QED
  BY <1>6, <1>7 DEF VisibleInv

\* A step outside the end of a commit.
LEMMA VisibleQuiet ==
    ASSUME VisibleInv, MemInv', NEW t \in Tx, Apart(t), Own(t), hist' = hist, ~Installs(t)', ~Validates(t)'
    PROVE  VisibleInv'
<1>1. \A u \in Tx \ {t} : InSnapshot(u)'
  BY DEF VisibleInv, InSnapshot, Apart, Spared, Installs
<1>2. InSnapshot(t)' /\ \A u \in Tx \ {t} : After(t, u)' /\ After(u, t)'
  BY DEF InSnapshot, After
<1>3. QED
  BY <1>1, <1>2, VisibleCompose

\* Nothing read yet, or any more.
LEMMA OwnCleared ==
    ASSUME NEW t \in Tx, seen'[t] = {}, pc'[t] \notin InLoad \cup InAccess \cup {"validate"}
    PROVE  Own(t)
<1>1. OnlyVisible(t)'
  BY DEF OnlyVisible, Extends
<1>2. Covered(t)'
  BY DEF Covered
<1>3. QED
  BY <1>1, <1>2 DEF Own

\* Invisible reads are not recorded in entries.
LEMMA OwnInvisible ==
    ASSUME NEW t \in Tx, ~tx'[t].visible,
           pc'[t] \notin {"idle", "on_commit", "prepare", "c_lock", "abort", "rollback", "drop", "on_start"}
    PROVE  Own(t)
<1>1. OnlyVisible(t)'
  BY DEF OnlyVisible, Rests, Unwinds
<1>2. Covered(t)'
  BY DEF Covered
<1>3. QED
  BY <1>1, <1>2 DEF Own

\* What is read keeps its entries.
LEMMA OwnOn ==
    ASSUME VisibleInv, NEW t \in Tx, seen'[t] = seen[t], tx'[t].visible = tx[t].visible,
           pc'[t] \notin {"idle", "on_commit", "prepare", "c_lock", "abort", "rollback", "drop", "on_start"},
           \A i \in DOMAIN tx[t].w_set :
              /\ i \in DOMAIN tx'[t].w_set /\ tx'[t].w_set[i].addr = tx[t].w_set[i].addr
              /\ version'[t][i] = version[t][i],
           tx[t].visible => /\ pc'[t] \notin InLoad /\ (pc'[t] = "validate" => loc'[t].for # "extend")
                            /\ (pc'[t] \in InAccess => loc'[t].for # "invisible")
    PROVE  Own(t)
<1>1. OnlyVisible(t)'
  BY DEF OnlyVisible, Rests, Unwinds, Extends
<1>2. Covered(t)'
  <2>1. ASSUME tx'[t].visible, NEW r \in seen'[t]
        PROVE  \E i \in DOMAIN tx'[t].w_set : tx'[t].w_set[i].addr = r.addr /\ version'[t][i] = r.value
    <3>1. PICK i \in DOMAIN tx[t].w_set : tx[t].w_set[i].addr = r.addr /\ version[t][i] = r.value
      BY <2>1 DEF VisibleInv, Covered
    <3>2. i \in DOMAIN tx'[t].w_set /\ tx'[t].w_set[i].addr = r.addr /\ version'[t][i] = r.value
      BY <3>1
    <3>3. QED
      BY <3>2
  <2>2. QED
    BY <2>1 DEF Covered
<1>3. QED
  BY <1>1, <1>2 DEF Own

LEMMA OwnTurn ==
    ASSUME VisibleInv, NEW t \in Tx, NEW label, NEW x, Turn(t, label, x),
           label \notin {"idle", "on_commit", "prepare", "c_lock", "abort", "rollback", "drop", "on_start"},
           tx[t].visible => /\ label \notin InLoad /\ (label = "validate" => x.for # "extend")
                            /\ (label \in InAccess => x.for # "invisible")
    PROVE  Own(t)
<1>1. TypeInv /\ pc' = [pc EXCEPT ![t] = label] /\ loc' = [loc EXCEPT ![t] = x]
      /\ version' = version /\ tx' = tx /\ seen' = seen
  BY DEF VisibleInv, MemInv, LockInv, Turn, Goto, shared
<1>2. pc'[t] = label /\ loc'[t] = x
  BY <1>1 DEF TypeInv
<1>3. QED
  BY <1>1, <1>2, OwnOn

LEMMA OwnSame ==
    ASSUME VisibleInv, NEW t \in Tx, NEW label, Goto(t, label), UNCHANGED <<shared, status, tx, loc, seen, hist>>,
           label \notin {"idle", "on_commit", "prepare", "c_lock", "abort", "rollback", "drop", "on_start"},
           tx[t].visible => /\ label \notin InLoad /\ (label = "validate" => loc[t].for # "extend")
                            /\ (label \in InAccess => loc[t].for # "invisible")
    PROVE  Own(t)
<1>1. Turn(t, label, loc[t])
  BY Same DEF VisibleInv, MemInv
<1>2. QED
  BY <1>1, OwnTurn

LEMMA OwnRollback ==
    ASSUME VisibleInv, NEW t \in Tx, NEW invisible, NEW delay, Rollback(t, invisible, delay)
    PROVE  Own(t)
<1>1. TypeInv /\ seen' = [seen EXCEPT ![t] = {}] /\ pc' = [pc EXCEPT ![t] = "abort"]
  BY DEF VisibleInv, MemInv, LockInv, Rollback, Goto
<1>2. seen'[t] = {} /\ pc'[t] = "abort"
  BY <1>1 DEF TypeInv
<1>3. QED
  BY <1>2, OwnCleared DEF InLoad, InAccess, InConflict

\* The start and the end of an attempt, and the order of transactions.
LEMMA OwnLife ==
    ASSUME VisibleInv, NEW t \in Tx,
           \/ Start(t) \/ Retry(t) \/ mod_order_on_start(t) \/ mod_order_on_commit(t) \/ Abort(t) \/ Dropped(t)
           \/ WaitLock(t) \/ Commit(t) \/ mod_order_on_precommit(t) \/ CommitCas(t) \/ Committed(t)
    PROVE  Own(t)
<1>1. TypeInv /\ OnlyVisible(t)
  BY DEF VisibleInv, MemInv, LockInv
<1>2. CASE Start(t) \/ Retry(t) \/ mod_order_on_start(t) \/ mod_order_on_commit(t) \/ Abort(t) \/ Dropped(t) \/ WaitLock(t)
  <2>1. PICK label \in {"active", "on_start", "idle", "drop", "rollback", "c_lock", "prepare"} :
           pc' = [pc EXCEPT ![t] = label]
    <3>1. CASE Start(t) \/ Retry(t)
      BY <3>1, Zenon DEF Start, Retry, Prepare, Goto
    <3>2. CASE mod_order_on_start(t) \/ mod_order_on_commit(t) \/ Abort(t)
      BY <3>2 DEF mod_order_on_start, mod_order_on_commit, Abort, Goto
    <3>3. CASE Dropped(t) \/ WaitLock(t)
      BY <3>3, Zenon DEF Dropped, WaitLock, Goto
    <3>4. QED
      BY <1>2, <3>1, <3>2, <3>3
  <2>2. pc'[t] = label
    BY <1>1, <2>1 DEF TypeInv
  <2>3. seen' = seen
    BY <1>2, ZenonT(60) DEF Start, Retry, Prepare, mod_order_on_start, mod_order_on_commit, Abort, Dropped, WaitLock
  <2>4. Rests(t) \/ Unwinds(t) \/ pc[t] = "on_start"
    BY <1>2, Zenon DEF Start, Retry, mod_order_on_start, mod_order_on_commit, Abort, Dropped, WaitLock, Rests, Unwinds
  <2>5. seen'[t] = {}
    BY <1>1, <2>3, <2>4 DEF OnlyVisible
  <2>6. QED
    BY <2>2, <2>5, OwnCleared DEF InLoad, InAccess, InConflict
<1>3. CASE Commit(t) \/ mod_order_on_precommit(t)
  <2>1. PICK label \in {"precommit", "commit_cas"} : Goto(t, label)
    BY <1>3 DEF Commit, mod_order_on_precommit
  <2>2. UNCHANGED <<shared, status, tx, loc, seen, hist>>
    BY <1>3 DEF Commit, mod_order_on_precommit
  <2>3. QED
    BY <2>1, <2>2, OwnSame DEF InLoad, InAccess, InConflict
<1>4. CASE CommitCas(t)
  <2>1. CASE Rollback(t, FALSE, FALSE)
    BY <2>1, OwnRollback
  <2>2. CASE ~Is(t, "KILLED")
    <3> DEFINE label == CASE tx[t].w_set = <<>> -> "end" [] HasWrites(t) -> "commit_clock" [] OTHER -> "ro_drop"
    <3>1. label \in {"end", "commit_clock", "ro_drop"}
      OBVIOUS
    <3>2. pc' = [pc EXCEPT ![t] = label]
      BY <1>4, <2>2 DEF CommitCas, Goto
    <3> HIDE DEF label
    <3>3. version' = version /\ seen' = seen /\ tx' = tx
      BY <1>4, <2>2 DEF CommitCas, shared
    <3>4. pc'[t] = label
      BY <1>1, <3>2 DEF TypeInv
    <3>5. QED
      BY <3>1, <3>3, <3>4, OwnOn DEF InLoad, InAccess, InConflict
  <2>3. QED
    BY <1>4, <2>1, <2>2 DEF CommitCas
<1>5. CASE Committed(t)
  <2>1. PICK label \in {"on_commit", "idle"} : pc' = [pc EXCEPT ![t] = label]
    BY <1>5 DEF Committed, Goto
  <2>2. pc'[t] = label /\ seen'[t] = {}
    BY <1>1, <1>5, <2>1 DEF TypeInv, Committed
  <2>3. QED
    BY <2>2, OwnCleared DEF InLoad, InAccess, InConflict
<1>6. QED
  BY <1>2, <1>3, <1>4, <1>5

\* Conflicts: the purpose of the access stays.
LEMMA OwnConflict ==
    ASSUME VisibleInv, NEW t \in Tx,
           \/ CmStatus(t) \/ CmLock(t) \/ CmDecide(t) \/ Kill(t) \/ KillWait(t) \/ KillFailed(t) \/ StealFree(t)
           \/ VisibleValue(t)
    PROVE  Own(t)
<1>1. TypeInv /\ OnlyVisible(t) /\ loc[t] \in LocType /\ pc[t] \in InAccess
  BY DEF VisibleInv, MemInv, LockInv, TypeInv, CmStatus, CmLock, CmDecide, Kill, KillWait, KillFailed, StealFree,
     VisibleValue, InAccess, InConflict
<1>2. tx[t].visible => loc[t].for # "invisible"
  BY <1>1 DEF OnlyVisible
<1>3. CASE CmStatus(t) \/ CmLock(t) \/ VisibleValue(t)
  <2>1. PICK label \in {"cm_lock", "cm_decide", "acquire_cas"} :
           pc' = [pc EXCEPT ![t] = label] /\ tx' = tx /\ seen' = seen /\ version' = version
    BY <1>3 DEF CmStatus, CmLock, VisibleValue, Goto, shared
  <2>2. loc'[t].for = loc[t].for
    <3>1. CASE CmStatus(t)
      <4> DEFINE s == status[loc[t].l.owner]  x == [loc[t] EXCEPT !.s = s]
      <4>1. loc' = [loc EXCEPT ![t] = x]
        BY <3>1 DEF CmStatus
      <4>2. x.for = loc[t].for
        BY <1>1 DEF LocType
      <4> HIDE DEF x
      <4>3. QED
        BY <1>1, <4>1, <4>2 DEF TypeInv
    <3>2. CASE CmLock(t)
      <4> DEFINE v == version[loc[t].l.owner][loc[t].l.i]  x == [loc[t] EXCEPT !.v = v]
      <4>1. loc' = [loc EXCEPT ![t] = x]
        BY <3>2 DEF CmLock
      <4>2. x.for = loc[t].for
        BY <1>1 DEF LocType
      <4> HIDE DEF x
      <4>3. QED
        BY <1>1, <4>1, <4>2 DEF TypeInv
    <3>3. CASE VisibleValue(t)
      <4> DEFINE v == mem[loc[t].addr]  x == [loc[t] EXCEPT !.value = v]
      <4>1. loc' = [loc EXCEPT ![t] = x]
        BY <3>3 DEF VisibleValue
      <4>2. x.for = loc[t].for
        BY <1>1 DEF LocType
      <4> HIDE DEF x
      <4>3. QED
        BY <1>1, <4>1, <4>2 DEF TypeInv
    <3>4. QED
      BY <1>3, <3>1, <3>2, <3>3
  <2>3. pc'[t] = label
    BY <1>1, <2>1 DEF TypeInv
  <2>4. QED
    BY <1>2, <2>1, <2>2, <2>3, OwnOn DEF InLoad, InAccess, InConflict
<1>4. CASE CmDecide(t) \/ Kill(t) \/ KillWait(t) \/ KillFailed(t) \/ StealFree(t)
  <2>1. CASE \E x, y : Rollback(t, x, y)
    BY <2>1, OwnRollback
  <2>2. CASE /\ \E label \in {"steal", "kill", "kill_wait", "kill_failed", "again"} : pc' = [pc EXCEPT ![t] = label]
             /\ tx' = tx /\ seen' = seen /\ version' = version /\ loc' = loc
    <3>1. pc'[t] \in {"steal", "kill", "kill_wait", "kill_failed", "again"} /\ loc'[t].for = loc[t].for
      BY <1>1, <2>2 DEF TypeInv
    <3>2. QED
      BY <1>2, <2>2, <3>1, OwnOn DEF InLoad, InAccess, InConflict
  <2>3. CASE CmDecide(t)
    BY <2>1, <2>2, <2>3 DEF CmDecide, Goto, shared
  <2>4. CASE Kill(t)
    BY <2>2, <2>4 DEF Kill, Goto, shared
  <2>5. CASE KillWait(t) \/ KillFailed(t) \/ StealFree(t)
    BY <2>2, <2>5 DEF KillWait, KillFailed, StealFree, Goto, shared
  <2>6. QED
    BY <1>4, <2>3, <2>4, <2>5
<1>5. QED
  BY <1>3, <1>4

\* A load that goes on is invisible.
LEMMA OwnLoad ==
    ASSUME VisibleInv, NEW t \in Tx,
           LoadValue(t) \/ LoadRelock(t) \/ LoadVersion(t) \/ LoadCheck(t) \/ Recheck(t) \/ Extended(t)
    PROVE  Own(t)
<1>1. TypeInv /\ OnlyVisible(t) /\ tx[t] \in TxType
  BY DEF VisibleInv, MemInv, LockInv, TypeInv
<1>2. pc[t] \in InLoad \/ Extends(t)
  BY DEF LoadValue, LoadRelock, LoadVersion, LoadCheck, Recheck, Extended, InLoad, Extends
<1>3. ~tx[t].visible
  BY <1>1, <1>2 DEF OnlyVisible
<1>4. ASSUME tx'[t].visible = tx[t].visible,
             NEW label \in {"load_relock", "load_version", "load_check", "validate", "recheck", "active"},
             pc' = [pc EXCEPT ![t] = label]
      PROVE  Own(t)
  <2>1. pc'[t] = label
    BY <1>1, <1>4 DEF TypeInv
  <2>2. QED
    BY <1>3, <1>4, <2>1, OwnInvisible
<1>5. CASE Rollback(t, FALSE, FALSE)
  BY <1>5, OwnRollback
<1>6. CASE Log(t)
  <2> DEFINE r == Append(tx[t].r_set, [addr |-> loc[t].addr, version |-> loc[t].v])
             x == [tx[t] EXCEPT !.r_set = r]
  <2>1. x.visible = tx[t].visible
    <3> HIDE DEF r
    <3>1. QED
      BY <1>1 DEF TxType
  <2>2. tx' = [tx EXCEPT ![t] = x] /\ pc' = [pc EXCEPT ![t] = "active"]
    BY <1>6 DEF Log, Goto
  <2> HIDE DEF x
  <2>3. tx'[t] = x
    BY <1>1, <2>2 DEF TypeInv
  <2>4. QED
    BY <1>4, <2>1, <2>2, <2>3
<1>7. CASE Extended(t)
  <2> DEFINE x == [tx[t] EXCEPT !.end = loc[t].now]
  <2>1. x.visible = tx[t].visible
    BY <1>1 DEF TxType
  <2>2. tx' = [tx EXCEPT ![t] = x] /\ pc' = [pc EXCEPT ![t] = "recheck"]
    BY <1>7 DEF Extended, Goto
  <2> HIDE DEF x
  <2>3. tx'[t] = x
    BY <1>1, <2>2 DEF TypeInv
  <2>4. QED
    BY <1>4, <2>1, <2>2, <2>3
<1>8. CASE LoadValue(t) \/ LoadRelock(t) \/ LoadVersion(t)
  <2>1. PICK label \in {"load_relock", "load_version", "load_check"} : pc' = [pc EXCEPT ![t] = label] /\ tx' = tx
    BY <1>8 DEF LoadValue, LoadRelock, LoadVersion, Goto
  <2>2. QED
    BY <1>4, <2>1
<1>9. CASE LoadCheck(t) \/ Recheck(t)
  <2>1. CASE pc' = [pc EXCEPT ![t] = "validate"] /\ tx' = tx
    BY <1>4, <2>1
  <2>2. QED
    BY <1>5, <1>6, <1>9, <2>1 DEF LoadCheck, Recheck, Goto
<1>10. QED
  BY <1>7, <1>8, <1>9

\* The load of a lock word, and what begins with it.
LEMMA OwnAcquire ==
    ASSUME VisibleInv, NEW t \in Tx, Accesses(t), NEW a \in Addr, NEW l \in Word, NEW v \in Nat,
           NEW for \in {"visible", "write"}, Acquire(t, a, l, v, for)
    PROVE  Own(t)
<1>1. LockInv
  BY DEF VisibleInv, MemInv
<1>2. /\ seen' = seen /\ tx' = tx /\ loc'[t].for = for
      /\ \A i \in DOMAIN tx[t].w_set : version'[t][i] = version[t][i]
      /\ pc'[t] \in {"vis_value", "acquire_cas"}
  <2> DEFINE label == IF for = "visible" THEN "vis_value" ELSE "acquire_cas"
  <2>1. label \in {"vis_value", "acquire_cas"}
    OBVIOUS
  <2>2. QED
    BY <1>1, <2>1, Acquired
<1>3. QED
  BY <1>2, OwnOn DEF InLoad

LEMMA OwnReadLock ==
    ASSUME VisibleInv, NEW t \in Tx, Accesses(t), NEW for \in {"invisible", "visible", "write"},
           tx[t].visible => for # "invisible", ReadLock(t, loc[t].addr, lock[loc[t].addr], for)
    PROVE  Own(t)
<1> DEFINE a == loc[t].addr  l == lock[a]
<1>1. Purposes(t) /\ a \in Addr /\ TypeInv /\ l \in Word
  BY DEF VisibleInv, MemInv, LockInv, Locals, Purposes, Accesses, TypeInv
<1>2. IsFree(l) => l.version \in Nat /\ ~l.write
  BY <1>1, Words DEF Free
<1>3. Reads(t, a, l, for)
  BY <1>2, ReadsLock
<1>4. With(a, l, for).for = for
  BY <1>1, Fresh DEF Purpose
<1> HIDE DEF a, l
<1>5. CASE for = "invisible" /\ Turn(t, "load_value", With(a, l, for))
  BY <1>5, OwnTurn
<1>6. CASE Turn(t, "upgrade", With(a, l, for)) \/ Turn(t, "cm_status", With(a, l, for))
  BY <1>4, <1>6, OwnTurn DEF InLoad
<1>7. CASE for \in {"visible", "write"} /\ IsFree(l) /\ Acquire(t, a, l, l.version, for)
  BY <1>1, <1>2, <1>7, OwnAcquire
<1>8. CASE Rollback(t, TRUE, FALSE) \/ Rollback(t, FALSE, FALSE)
  BY <1>8, OwnRollback
<1>9. CASE Turn(t, "active", NoLoc)
  BY <1>9, OwnTurn DEF InLoad, InAccess, InConflict
<1>10. Return(t) => Turn(t, "active", NoLoc)
  BY DEF Return, Turn, Clear
<1>11. Conflict(t, a, l, for) => Turn(t, "cm_status", With(a, l, for))
  BY DEF Conflict, Turn, With
<1>12. AcquireWrite(t, a, l, l.version) => Rollback(t, TRUE, FALSE) \/ Acquire(t, a, l, l.version, "write")
  BY DEF AcquireWrite
<1>13. QED
  BY <1>3, <1>5, <1>6, <1>7, <1>8, <1>9, <1>10, <1>11, <1>12 DEF Reads

LEMMA OwnAccess ==
    ASSUME VisibleInv, NEW t \in Tx, Load(t) \/ Store(t) \/ Again(t) \/ Restart(t) \/ StealAcquire(t)
    PROVE  Own(t)
<1>1. TypeInv /\ OnlyVisible(t) /\ Purposes(t)
  BY DEF VisibleInv, MemInv, LockInv, Locals
<1>2. ASSUME NEW for \in Purpose, tx[t].visible => for # "invisible", NEW a \in Addr,
             loc' = [loc EXCEPT ![t] = [NoLoc EXCEPT !.addr = a, !.for = for]], Goto(t, "again"),
             UNCHANGED <<shared, status, tx, seen, hist>>
      PROVE  Own(t)
  <2>1. Turn(t, "again", Begun(a, for))
    BY <1>2 DEF Turn, Begun
  <2>2. Begun(a, for).for = for
    <3>1. Free(0) \in Word
      BY <1>1, NewWords
    <3>2. QED
      BY <1>2, <3>1, Fresh
  <2>3. QED
    BY <1>2, <2>1, <2>2, OwnTurn DEF InLoad
<1>3. CASE Load(t)
  <2> DEFINE for == IF tx[t].visible THEN "visible" ELSE "invisible"
  <2>1. for \in Purpose /\ (tx[t].visible => for # "invisible")
    BY DEF Purpose
  <2>2. Rollback(t, FALSE, FALSE) \/
        (\E a \in Addr : loc' = [loc EXCEPT ![t] = [NoLoc EXCEPT !.addr = a, !.for = for]]
          /\ Goto(t, "again") /\ UNCHANGED <<shared, status, tx, seen, hist>>)
    BY <1>3 DEF Load
  <2> HIDE DEF for
  <2>3. QED
    BY <1>2, <2>1, <2>2, OwnRollback
<1>4. CASE Store(t)
  <2>1. Rollback(t, FALSE, FALSE) \/
        (\E a \in Addr : loc' = [loc EXCEPT ![t] = [NoLoc EXCEPT !.addr = a, !.for = "write"]]
          /\ Goto(t, "again") /\ UNCHANGED <<shared, status, tx, seen, hist>>)
    BY <1>4 DEF Store
  <2>2. "write" \in Purpose
    BY DEF Purpose
  <2>3. QED
    BY <1>2, <2>1, <2>2, OwnRollback
<1>5. CASE Again(t)
  <2>1. loc[t].for \in {"invisible", "visible", "write"} /\ Accesses(t) /\ pc[t] \in InAccess
    BY <1>1, <1>5 DEF Again, Purposes, Accesses, InAccess
  <2>2. tx[t].visible => loc[t].for # "invisible"
    BY <1>1, <2>1 DEF OnlyVisible
  <2>3. QED
    BY <1>5, <2>1, <2>2, OwnReadLock DEF Again
<1>6. CASE Restart(t) /\ pc[t] \in {"acquire_cas", "cm_decide"}
  <2>1. Goto(t, "again") /\ UNCHANGED <<shared, status, tx, loc, seen, hist>>
    BY <1>6 DEF Restart
  <2>2. tx[t].visible => loc[t].for # "invisible"
    BY <1>1, <1>6 DEF OnlyVisible, InAccess, InConflict
  <2>3. QED
    BY <2>1, <2>2, OwnSame DEF InLoad
<1>7. CASE Restart(t) /\ pc[t] \notin {"acquire_cas", "cm_decide"}
  <2> DEFINE for == IF pc[t] = "cm_lock" THEN loc[t].for ELSE "invisible"
  <2>1. pc[t] \in {"cm_lock", "load_relock", "recheck"}
    BY <1>7 DEF Restart
  <2>2. for \in {"invisible", "visible", "write"} /\ Accesses(t)
    BY <1>1, <2>1 DEF Purposes, Accesses, InAccess, InConflict, InLoad
  <2>3. tx[t].visible => for # "invisible"
    BY <1>1, <2>1 DEF OnlyVisible, InAccess, InConflict, InLoad
  <2>4. ReadLock(t, loc[t].addr, lock[loc[t].addr], for)
    BY <1>7 DEF Restart
  <2> HIDE DEF for
  <2>5. QED
    BY <2>2, <2>3, <2>4, OwnReadLock
<1>8. CASE StealAcquire(t)
  <2> DEFINE a == loc[t].addr  l == loc[t].l  v == loc[t].v
  <2>1. a \in Addr /\ l \in Word /\ v \in Nat /\ Accesses(t)
    BY <1>1, <1>8 DEF StealAcquire, Purposes, Accesses, InAccess, InConflict, TypeInv, LocType
  <2>2. Acquire(t, a, l, v, "visible") \/ AcquireWrite(t, a, l, v)
    BY <1>8 DEF StealAcquire
  <2> HIDE DEF a, l, v
  <2>3. CASE Rollback(t, TRUE, FALSE)
    BY <2>3, OwnRollback
  <2>4. CASE Acquire(t, a, l, v, "visible") \/ Acquire(t, a, l, v, "write")
    BY <2>1, <2>4, OwnAcquire
  <2>5. QED
    BY <2>2, <2>3, <2>4 DEF AcquireWrite
<1>9. QED
  BY <1>3, <1>4, <1>5, <1>6, <1>7, <1>8

\* A new write set.
LEMMA NewLog ==
    ASSUME TypeInv, NEW t \in Tx, NEW W, tx' = [tx EXCEPT ![t].w_set = W]
    PROVE  /\ tx'[t].w_set = W /\ tx'[t].visible = tx[t].visible
           /\ \A u \in Tx \ {t} : tx'[u] = tx[u]
<1> DEFINE x == [tx[t] EXCEPT !.w_set = W]
<1>1. tx[t] \in TxType /\ tx' = [tx EXCEPT ![t] = x]
  BY DEF TypeInv
<1>2. x.w_set = W /\ x.visible = tx[t].visible
  BY <1>1 DEF TxType
<1> HIDE DEF x
<1>3. QED
  BY <1>1, <1>2 DEF TypeInv

\* The entry of a visible read gets its value as version.
LEMMA OwnAcquireCas ==
    ASSUME VisibleInv, NEW t \in Tx, AcquireCas(t)
    PROVE  Apart(t) /\ Own(t)
<1> DEFINE a == loc[t].addr  l == loc[t].l  w == loc[t].for = "write"  n == Len(tx[t].w_set) + 1
           e == [addr |-> a, mask |-> w]  W == Append(tx[t].w_set, e)  r0 == [addr |-> a, value |-> loc[t].value]
<1>1. MemInv /\ LockInv /\ TypeInv /\ Purposes(t) /\ Acquires(t) /\ Covered(t) /\ pc[t] = "acquire_cas"
      /\ lock[a] = l /\ loc[t] \in LocType
  BY DEF VisibleInv, MemInv, LockInv, Locals, AcquireCas, TypeInv
<1>2. a \in Addr /\ w \in BOOLEAN /\ loc[t].for \in {"visible", "write"} /\ l \in Word /\ loc[t].value \in Nat
      /\ hist[a] \subseteq Nat
  BY <1>1 DEF Purposes, Accesses, InAccess, LocType, TypeInv
<1>3. /\ DOMAIN W = 1 .. n /\ n \in 1 .. n /\ W[n].addr = a
      /\ \A i \in DOMAIN tx[t].w_set : i \in DOMAIN W /\ W[i] = tx[t].w_set[i]
  <2>1. tx[t].w_set \in Seq([addr : Addr, mask : BOOLEAN])
        /\ DOMAIN tx[t].w_set = 1 .. n - 1 /\ Len(tx[t].w_set) = n - 1 /\ n \in Nat /\ n > 0
    <3> DEFINE log == tx[t].w_set
    <3>1. log \in Seq([addr : Addr, mask : BOOLEAN]) /\ DOMAIN log = 1 .. Len(log) /\ Len(log) \in Nat
      BY <1>1, WriteSet
    <3> HIDE DEF log
    <3>2. Len(log) = (Len(log) + 1) - 1 /\ Len(log) + 1 \in Nat /\ Len(log) + 1 > 0
      BY <3>1
    <3>3. QED
      BY <3>1, <3>2 DEF log
  <2>2. e \in [addr : Addr, mask : BOOLEAN] /\ e.addr = a
    BY <1>2
  <2> HIDE DEF e, n
  <2>3. DOMAIN W = 1 .. n /\ W[n] = e /\ \A i \in 1 .. n - 1 : W[i] = tx[t].w_set[i]
    BY <2>1, <2>2
  <2>4. QED
    BY <2>1, <2>2, <2>3
<1>4. /\ pc' = [pc EXCEPT ![t] = "active"] /\ loc' = [loc EXCEPT ![t] = NoLoc] /\ tx' = [tx EXCEPT ![t].w_set = W]
      /\ version' = version /\ status' = status
      /\ seen' = IF w THEN seen ELSE [seen EXCEPT ![t] = seen[t] \cup {r0}]
  BY DEF AcquireCas, Goto, Clear
<1>5. ~w => loc[t].value = version[t][n]
  <2>1. SUFFICES ASSUME ~w PROVE loc[t].value = version[t][n]
    OBVIOUS
  <2>2. loc[t].for = "visible"
    BY <1>2, <2>1
  <2>3. CASE IsFree(l)
    <3>1. version[t][n] = l.version /\ loc[t].value \in hist[a] /\ l.version <= loc[t].value
      BY <1>1, <2>2, <2>3 DEF Acquires
    <3>2. mem[a] = l.version /\ IsNewest(mem[a], hist[a]) /\ l.version \in Nat
      BY <1>1, <1>2, <2>3, ExpectedMem, Words
    <3>3. loc[t].value <= l.version
      BY <3>1, <3>2 DEF IsNewest
    <3>4. QED
      BY <1>2, <3>1, <3>2, <3>3
  <2>4. CASE ~IsFree(l)
    BY <1>1, <2>2, <2>4 DEF Acquires
  <2>5. QED
    BY <2>3, <2>4
<1> HIDE DEF a, l, w, n, e, W, r0
<1>6. pc'[t] = "active" /\ \A u \in Tx \ {t} : pc'[u] = pc[u] /\ loc'[u] = loc[u] /\ seen'[u] = seen[u]
  BY <1>1, <1>4 DEF TypeInv
<1>7. tx'[t].w_set = W /\ tx'[t].visible = tx[t].visible /\ \A u \in Tx \ {t} : tx'[u] = tx[u]
  BY <1>1, <1>4, NewLog
<1>8. Apart(t)
  BY <1>4, <1>6, <1>7 DEF Apart, Spared
<1>9. seen'[t] = IF w THEN seen[t] ELSE seen[t] \cup {r0}
  BY <1>1, <1>4 DEF TypeInv
<1>10. OnlyVisible(t)'
  BY <1>6 DEF OnlyVisible, Rests, Unwinds, Extends, InLoad, InAccess, InConflict
<1>11. Covered(t)'
  <2>1. ASSUME tx'[t].visible, NEW r \in seen'[t]
        PROVE  \E i \in DOMAIN tx'[t].w_set : tx'[t].w_set[i].addr = r.addr /\ version'[t][i] = r.value
    <3>1. CASE r \in seen[t]
      <4>1. PICK i \in DOMAIN tx[t].w_set : tx[t].w_set[i].addr = r.addr /\ version[t][i] = r.value
        BY <1>1, <1>7, <2>1, <3>1 DEF Covered
      <4>2. i \in DOMAIN tx'[t].w_set /\ tx'[t].w_set[i].addr = r.addr /\ version'[t][i] = r.value
        BY <1>3, <1>4, <1>7, <4>1
      <4>3. QED
        BY <4>2
    <3>2. CASE ~w /\ r = r0
      <4>1. r.addr = a /\ r.value = loc[t].value
        BY <3>2 DEF r0, a
      <4>2. n \in DOMAIN tx'[t].w_set /\ tx'[t].w_set[n].addr = r.addr /\ version'[t][n] = r.value
        BY <1>3, <1>4, <1>5, <1>7, <3>2, <4>1
      <4>3. QED
        BY <4>2
    <3>3. QED
      BY <1>9, <2>1, <3>1, <3>2
  <2>2. QED
    BY <2>1 DEF Covered
<1>12. QED
  BY <1>8, <1>10, <1>11 DEF Own

LEMMA OwnUpgrade ==
    ASSUME VisibleInv, NEW t \in Tx, Upgrade(t)
    PROVE  Apart(t) /\ Own(t)
<1>1. LockInv /\ TypeInv /\ ~Installs(t)
  BY DEF VisibleInv, MemInv, LockInv, Upgrade, Installs, InInstall
<1>2. CASE Rollback(t, FALSE, FALSE)
  BY <1>1, <1>2, OwnRollback, IdleRollback DEF Idle
<1>3. CASE /\ tx' = [tx EXCEPT ![t].w_set[loc[t].l.i].mask = TRUE]
           /\ Goto(t, "active") /\ Clear(t)
           /\ UNCHANGED <<mem, clock, version, order, manager, status, seen, hist>>
  <2> DEFINE w == tx[t].w_set  j == loc[t].l.i  e == [w[j] EXCEPT !.mask = TRUE]  W == [w EXCEPT ![j] = e]
  <2>1. DOMAIN W = DOMAIN w /\ \A i \in DOMAIN w : W[i].addr = w[i].addr
    <3>1. \A i \in DOMAIN w : w[i] \in [addr : Addr, mask : BOOLEAN]
      BY <1>1, WriteSet
    <3>2. j \in DOMAIN w => e.addr = w[j].addr
      BY <3>1
    <3>3. w \in Seq([addr : Addr, mask : BOOLEAN])
      BY <1>1, WriteSet
    <3> HIDE DEF e, w
    <3>4. QED
      BY <3>2, <3>3
  <2>2. /\ pc' = [pc EXCEPT ![t] = "active"] /\ loc' = [loc EXCEPT ![t] = NoLoc] /\ tx' = [tx EXCEPT ![t].w_set = W]
        /\ version' = version /\ status' = status /\ seen' = seen
    BY <1>3 DEF Goto, Clear
  <2> HIDE DEF W
  <2>3. pc'[t] = "active" /\ \A u \in Tx \ {t} : pc'[u] = pc[u] /\ loc'[u] = loc[u]
    BY <1>1, <2>2 DEF TypeInv
  <2>4. tx'[t].w_set = W /\ tx'[t].visible = tx[t].visible /\ \A u \in Tx \ {t} : tx'[u] = tx[u]
    BY <1>1, <2>2, NewLog
  <2>5. Apart(t)
    BY <2>2, <2>3, <2>4 DEF Apart, Spared
  <2>6. Own(t)
    BY <2>1, <2>2, <2>3, <2>4, OwnOn DEF InLoad, InAccess, InConflict
  <2>7. QED
    BY <2>5, <2>6
<1>4. QED
  BY <1>2, <1>3 DEF Upgrade

\* Locks given back outside the end of a commit.
LEMMA OwnDrops ==
    ASSUME VisibleInv, NEW t \in Tx, RollbackDrop(t) \/ StmDrop(t) \/ ReadOnlyDrop(t)
    PROVE  Apart(t) /\ Own(t) /\ hist' = hist /\ ~Installs(t)' /\ ~Validates(t)'
<1>1. TypeInv /\ OnlyVisible(t)
  BY DEF VisibleInv, MemInv, LockInv
<1>2. /\ version' = version /\ status' = status /\ tx' = tx /\ seen' = seen /\ hist' = hist
      /\ loc' = [loc EXCEPT ![t].i = loc[t].i + 1] \/ loc' = loc
      /\ pc' = pc \/ (pc[t] = "ro_drop" /\ pc' = [pc EXCEPT ![t] = "end"])
      /\ pc[t] \in {"rollback", "drop", "ro_drop"}
  BY Zenon DEF RollbackDrop, StmDrop, ReadOnlyDrop, Goto
<1>3. pc'[t] \in {pc[t], "end"} /\ \A u \in Tx \ {t} : pc'[u] = pc[u] /\ loc'[u] = loc[u]
  BY <1>1, <1>2 DEF TypeInv
<1>4. Apart(t)
  BY <1>2, <1>3 DEF Apart, Spared
<1>5. ~Installs(t)' /\ ~Validates(t)'
  BY <1>2, <1>3 DEF Installs, Validates, InInstall
<1>6. CASE pc[t] \in {"rollback", "drop"}
  <2>1. seen'[t] = {} /\ pc'[t] \in {"rollback", "drop", "end"}
    BY <1>1, <1>2, <1>3, <1>6 DEF OnlyVisible, Unwinds
  <2>2. QED
    BY <1>2, <1>4, <1>5, <2>1, OwnCleared DEF InLoad, InAccess, InConflict
<1>7. CASE pc[t] = "ro_drop"
  <2>1. pc'[t] \in {"ro_drop", "end"}
    BY <1>3, <1>7
  <2>2. QED
    BY <1>2, <1>4, <1>5, <2>1, OwnOn DEF InLoad, InAccess, InConflict
<1>8. QED
  BY <1>2, <1>6, <1>7

\* A commit that starts to write back: later than what it has read, and than the commits
\* that have given back a lock that it has.
LEMMA VisibleInstall ==
    ASSUME VisibleInv, MemInv', NEW t \in Tx, NEW ts \in Nat, StartInstall(t, ts), Is(t, "COMMITTING"),
           Passed(t) = 0, ~Installs(t), version' = version, tx' = tx, status' = status, seen' = seen,
           \A i \in DOMAIN tx[t].w_set : \A n \in hist[tx[t].w_set[i].addr] : n < ts,
           \A u \in Tx \ {t} : Installs(u) =>
               \A i \in DOMAIN tx[u].w_set, j \in DOMAIN tx[t].w_set :
                   i < loc[u].i /\ tx[u].w_set[i].addr = tx[t].w_set[j].addr => loc[u].v < ts
    PROVE  VisibleInv'
<1>1. MemInv /\ LockInv /\ TypeInv
  BY DEF VisibleInv, MemInv, LockInv
<1>2. \A a \in Addr : hist'[a] = IF Writes(t, a) THEN hist[a] \cup {ts} ELSE hist[a]
  BY DEF StartInstall, Writes
<1>3. /\ pc'[t] = "install" /\ loc'[t].v = ts /\ loc'[t].i = 1
      /\ \A u \in Tx \ {t} : pc'[u] = pc[u] /\ loc'[u] = loc[u]
  <2> DEFINE x == [loc[t] EXCEPT !.i = 1, !.v = ts]
  <2>1. loc' = [loc EXCEPT ![t] = x] /\ pc' = [pc EXCEPT ![t] = "install"]
    BY <1>1 DEF TypeInv, StartInstall, Goto
  <2>2. x.v = ts /\ x.i = 1
    BY <1>1 DEF TypeInv, LocType
  <2> HIDE DEF x
  <2>3. QED
    BY <1>1, <2>1, <2>2 DEF TypeInv
<1>4. Apart(t)
  BY <1>3 DEF Apart, Spared
<1>5. Own(t)
  BY <1>3, OwnOn DEF InLoad, InAccess, InConflict
<1>6. ASSUME NEW j \in DOMAIN tx[t].w_set
      PROVE  /\ lock[tx[t].w_set[j].addr].owner = t /\ ~IsFree(lock[tx[t].w_set[j].addr])
             /\ lock[tx[t].w_set[j].addr].i = j /\ tx[t].w_set[j].addr \in Addr
  <2>1. j > Passed(t) /\ ~Is(t, "KILLED")
    BY <1>1, WriteSet DEF Is
  <2>2. QED
    BY <1>1, <2>1, Locked
<1>7. InSnapshot(t)'
  <2>1. SUFFICES ASSUME tx'[t].visible, NEW r \in seen'[t]
                 PROVE  /\ r.value \in hist'[r.addr] /\ r.value < loc'[t].v
                        /\ \A n \in hist'[r.addr] : n < loc'[t].v => n <= r.value
    BY DEF InSnapshot
  <2>2. PICK j \in DOMAIN tx[t].w_set : tx[t].w_set[j].addr = r.addr /\ version[t][j] = r.value
    BY <2>1 DEF VisibleInv, Covered
  <2>3. lock[r.addr].owner = t /\ ~IsFree(lock[r.addr]) /\ lock[r.addr].i = j /\ r.addr \in Addr
    BY <1>6, <2>2
  <2>4. IsNewest(r.value, hist[r.addr])
    <3>1. Content(r.addr)
      BY <1>1, <2>3 DEF MemInv
    <3>2. QED
      BY <2>2, <2>3, <3>1 DEF Content
  <2>5. \A n \in hist[r.addr] : n < ts
    BY <2>2
  <2>6. hist'[r.addr] = hist[r.addr] \/ hist'[r.addr] = hist[r.addr] \cup {ts}
    BY <1>2, <2>3
  <2>7. QED
    BY <1>3, <2>4, <2>5, <2>6 DEF IsNewest
<1>8. ASSUME NEW u \in Tx \ {t} PROVE InSnapshot(u)'
  <2>1. pc'[u] = pc[u] /\ loc'[u] = loc[u]
    BY <1>3
  <2>2. SUFFICES ASSUME tx[u].visible, Installs(u), NEW r \in seen[u]
                 PROVE  /\ r.value \in hist'[r.addr] /\ r.value < loc[u].v
                        /\ \A n \in hist'[r.addr] : n < loc[u].v => n <= r.value
    BY <2>1 DEF InSnapshot, Installs
  <2>3. /\ r.value \in hist[r.addr] /\ r.value < loc[u].v
        /\ \A n \in hist[r.addr] : n < loc[u].v => n <= r.value
    BY <2>2 DEF VisibleInv, InSnapshot
  <2>4. PICK i \in DOMAIN tx[u].w_set : tx[u].w_set[i].addr = r.addr /\ version[u][i] = r.value
    BY <2>2 DEF VisibleInv, Covered
  <2>5. r.addr \in Addr /\ i \in Nat /\ loc[u].i \in Nat
    BY <1>1, <2>4, WriteSet
  <2>6. CASE ~Writes(t, r.addr)
    BY <1>2, <2>3, <2>5, <2>6
  <2>7. CASE Writes(t, r.addr)
    <3>1. PICK j \in DOMAIN tx[t].w_set : tx[t].w_set[j].addr = r.addr
      BY <2>7 DEF Writes
    <3>2. i < loc[u].i
      <4>1. SUFFICES ASSUME ~(i < loc[u].i) PROVE FALSE
        OBVIOUS
      <4>2. Passed(u) = loc[u].i - 1 /\ ~Is(u, "KILLED")
        <5>1. Stage(u)
          BY <1>1 DEF LockInv, Locals
        <5>2. QED
          BY <2>2, <5>1 DEF Installs, InInstall, Passed, Stage, Commits, Is
      <4>3. i > Passed(u)
        BY <2>5, <4>1, <4>2
      <4>4. lock[r.addr].owner = u
        BY <1>1, <2>4, <4>2, <4>3, Locked
      <4>5. lock[r.addr].owner = t
        BY <1>6, <3>1
      <4>6. QED
        BY <4>4, <4>5
    <3>3. loc[u].v < ts
      BY <2>2, <2>4, <3>1, <3>2
    <3>4. loc[u].v \in Nat
      BY <1>1 DEF TypeInv, LocType
    <3>5. ~(ts < loc[u].v)
      BY <3>3, <3>4
    <3>6. hist'[r.addr] = hist[r.addr] \cup {ts}
      BY <1>2, <2>5, <2>7
    <3>7. QED
      BY <2>3, <3>5, <3>6
  <2>8. QED
    BY <2>6, <2>7
<1>9. ASSUME NEW u \in Tx \ {t} PROVE After(t, u)' /\ After(u, t)'
  <2>1. ~Validates(t)'
    BY <1>3 DEF Validates
  <2>2. \A i \in DOMAIN tx'[t].w_set : ~(i < loc'[t].i)
    BY <1>1, <1>3, WriteSet
  <2>3. QED
    BY <2>1, <2>2 DEF After
<1>10. QED
  BY <1>4, <1>5, <1>7, <1>8, <1>9, VisibleCompose

LEMMA VisibleStamp ==
    ASSUME VisibleInv, MemInv', NEW t \in Tx, CommitClock(t) \/ CommitValidated(t)
    PROVE  VisibleInv'
<1>1. MemInv /\ LockInv /\ TypeInv /\ Stage(t) /\ clock \in Nat /\ loc[t].v \in Nat /\ loc[t] \in LocType
  BY DEF VisibleInv, MemInv, LockInv, Locals, TypeInv, LocType
<1>2. ASSUME NEW i \in DOMAIN tx[t].w_set, NEW n \in hist[tx[t].w_set[i].addr]
      PROVE  n < clock + 1
  <2>1. tx[t].w_set[i].addr \in Addr
    BY <1>1, WriteSet
  <2>2. n <= clock /\ n \in Nat
    BY <1>1, <1>2, <2>1 DEF MemInv, Content, TypeInv
  <2>3. QED
    BY <1>1, <2>2
<1>3. ASSUME NEW u \in Tx, Installs(u) PROVE loc[u].v < clock + 1
  <2>1. loc[u].v <= clock /\ loc[u].v \in Nat
    BY <1>1, <1>3 DEF MemInv, Dated, TypeInv, LocType
  <2>2. QED
    BY <1>1, <2>1
<1>4. CASE CommitClock(t) /\ StartInstall(t, clock + 1)
  <2>1. Is(t, "COMMITTING") /\ Passed(t) = 0 /\ ~Installs(t)
    BY <1>1, <1>4 DEF CommitClock, Stage, Commits, Is, Passed, Installs, InInstall
  <2>2. version' = version /\ tx' = tx /\ status' = status /\ seen' = seen /\ clock + 1 \in Nat
    BY <1>1, <1>4 DEF CommitClock
  <2>3. \A i \in DOMAIN tx[t].w_set : \A n \in hist[tx[t].w_set[i].addr] : n < clock + 1
    BY <1>2
  <2>4. \A u \in Tx \ {t} : Installs(u) =>
           \A i \in DOMAIN tx[u].w_set, j \in DOMAIN tx[t].w_set :
               i < loc[u].i /\ tx[u].w_set[i].addr = tx[t].w_set[j].addr => loc[u].v < clock + 1
    BY <1>3
  <2>5. QED
    BY <1>4, <2>1, <2>2, <2>3, <2>4, VisibleInstall
<1>5. CASE CommitClock(t) /\ tx[t].start # clock
  <2> DEFINE x == [loc[t] EXCEPT !.i = 1, !.v = clock + 1, !.for = "commit"]
  <2>1. version' = version /\ tx' = tx /\ status' = status /\ seen' = seen
        /\ hist' = hist /\ pc' = [pc EXCEPT ![t] = "validate"] /\ loc' = [loc EXCEPT ![t] = x]
    BY <1>1, <1>5 DEF CommitClock, Goto, TypeInv
  <2>2. x.v = clock + 1 /\ x.for = "commit"
    BY <1>1 DEF LocType
  <2> HIDE DEF x
  <2>3. loc'[t] = x /\ pc'[t] = "validate" /\ \A u \in Tx \ {t} : loc'[u] = loc[u] /\ pc'[u] = pc[u]
    BY <1>1, <2>1 DEF TypeInv
  <2>4. Apart(t)
    BY <2>1, <2>3 DEF Apart, Spared
  <2>5. Own(t)
    BY <2>1, <2>2, <2>3, OwnOn DEF InLoad, InAccess, InConflict
  <2>6. ~Installs(t)'
    BY <2>3 DEF Installs, InInstall
  <2>7. InSnapshot(t)'
    BY <2>6 DEF InSnapshot
  <2>8. \A u \in Tx \ {t} : InSnapshot(u)'
    BY <2>1, <2>3 DEF VisibleInv, InSnapshot, Installs
  <2>9. ASSUME NEW u \in Tx \ {t} PROVE After(t, u)' /\ After(u, t)'
    <3>1. Installs(u)' = Installs(u) /\ loc'[u].v = loc[u].v /\ loc'[t].v = clock + 1
      BY <2>2, <2>3 DEF Installs
    <3>2. QED
      BY <1>3, <2>6, <3>1 DEF After
  <2>10. QED
    BY <2>4, <2>5, <2>7, <2>8, <2>9, VisibleCompose
<1>6. CASE CommitValidated(t)
  <2> DEFINE ts == loc[t].v
  <2>1. Validates(t)
    BY <1>6 DEF CommitValidated, Validates
  <2>2. Is(t, "COMMITTING") /\ Passed(t) = 0 /\ ~Installs(t)
    BY <1>1, <2>1 DEF Validates, Stage, Commits, Is, Passed, Installs, InInstall
  <2>3. version' = version /\ tx' = tx /\ status' = status /\ seen' = seen /\ StartInstall(t, ts)
    BY <1>6 DEF CommitValidated, shared
  <2>4. \A i \in DOMAIN tx[t].w_set : \A n \in hist[tx[t].w_set[i].addr] : n < ts
    BY <1>1, <2>1 DEF MemInv, Dated
  <2>5. \A u \in Tx \ {t} : Installs(u) =>
           \A i \in DOMAIN tx[u].w_set, j \in DOMAIN tx[t].w_set :
               i < loc[u].i /\ tx[u].w_set[i].addr = tx[t].w_set[j].addr => loc[u].v < ts
    BY <2>1 DEF VisibleInv, After
  <2>6. ts \in Nat
    BY <1>1
  <2> HIDE DEF ts
  <2>7. QED
    BY <2>2, <2>3, <2>4, <2>5, <2>6, VisibleInstall
<1>7. QED
  BY <1>4, <1>5, <1>6 DEF CommitClock

\* On with the validation, with the writes, or with giving back.
LEMMA VisibleValidate ==
    ASSUME VisibleInv, MemInv', NEW t \in Tx, Validate(t)
    PROVE  VisibleInv'
<1>1. LockInv /\ TypeInv /\ pc[t] = "validate" /\ ~Installs(t) /\ loc[t] \in LocType /\ OnlyVisible(t)
  BY DEF VisibleInv, MemInv, LockInv, TypeInv, Validate, Installs, InInstall
<1>2. CASE Rollback(t, TRUE, FALSE)
  BY <1>1, <1>2, IdleRollback, OwnRollback, VisibleQuiet DEF Idle
<1>3. CASE loc' = [loc EXCEPT ![t].i = loc[t].i + 1] /\ UNCHANGED <<shared, status, tx, pc, seen, hist>>
  <2> DEFINE x == [loc[t] EXCEPT !.i = loc[t].i + 1]
  <2>1. x.v = loc[t].v /\ x.for = loc[t].for
    BY <1>1 DEF LocType
  <2>2. loc' = [loc EXCEPT ![t] = x] /\ version' = version /\ status' = status /\ tx' = tx /\ hist' = hist
        /\ pc' = pc /\ seen' = seen
    BY <1>1, <1>3 DEF TypeInv, shared
  <2> HIDE DEF x
  <2>3. loc'[t] = x /\ pc'[t] = "validate" /\ \A u \in Tx \ {t} : loc'[u] = loc[u]
    BY <1>1, <2>2 DEF TypeInv
  <2>4. Apart(t)
    BY <2>2, <2>3 DEF Apart, Spared
  <2>5. tx[t].visible => loc[t].for # "extend"
    BY <1>1 DEF OnlyVisible, Extends
  <2>6. Own(t)
    BY <2>1, <2>2, <2>3, <2>5, OwnOn DEF InLoad, InAccess, InConflict
  <2>7. ~Installs(t)'
    BY <2>3 DEF Installs, InInstall
  <2>8. InSnapshot(t)' /\ \A u \in Tx \ {t} : InSnapshot(u)'
    BY <2>2, <2>3, <2>7 DEF VisibleInv, InSnapshot, Installs
  <2>9. ASSUME NEW u \in Tx \ {t} PROVE After(t, u)' /\ After(u, t)'
    <3>1. Validates(t)' => Validates(t)
      BY <1>1, <2>1, <2>3 DEF Validates
    <3>2. Installs(u)' = Installs(u) /\ loc'[u] = loc[u] /\ loc'[t].v = loc[t].v
      BY <2>1, <2>2, <2>3 DEF Installs
    <3>3. QED
      BY <2>2, <2>7, <3>1, <3>2 DEF VisibleInv, After
  <2>10. QED
    BY <2>4, <2>6, <2>8, <2>9, VisibleCompose
<1>4. QED
  BY <1>2, <1>3 DEF Validate

LEMMA VisibleWrite ==
    ASSUME VisibleInv, MemInv', NEW t \in Tx, Install(t) \/ InstallDrop(t)
    PROVE  VisibleInv'
<1>1. MemInv /\ LockInv /\ TypeInv /\ loc[t] \in LocType /\ Stage(t) /\ Installs(t)
  BY Zenon DEF VisibleInv, MemInv, LockInv, Locals, TypeInv, Install, InstallDrop, Installs, InInstall
<1>2. PICK label \in {"install", "install_drop"}, i \in {loc[t].i, loc[t].i + 1} :
        /\ pc' = [pc EXCEPT ![t] = label] /\ loc' = [loc EXCEPT ![t].i = i]
        /\ version' = version /\ status' = status /\ tx' = tx /\ hist' = hist /\ seen' = seen
        /\ i = loc[t].i \/ (pc[t] = "install_drop" /\ i = loc[t].i + 1)
  <2>1. CASE Install(t)
    <3>1. [loc EXCEPT ![t].i = loc[t].i] = loc
      BY <1>1 DEF TypeInv, LocType
    <3>2. QED
      BY <2>1, <3>1 DEF Install, Goto
  <2>2. CASE InstallDrop(t)
    BY <2>2 DEF InstallDrop, Goto
  <2>3. QED
    BY <2>1, <2>2
<1> DEFINE x == [loc[t] EXCEPT !.i = i]
<1>3. x.v = loc[t].v /\ x.i = i
  BY <1>1 DEF LocType
<1>4. loc' = [loc EXCEPT ![t] = x]
  BY <1>1, <1>2 DEF TypeInv
<1> HIDE DEF x
<1>5. loc'[t] = x /\ pc'[t] = label /\ \A u \in Tx \ {t} : loc'[u] = loc[u] /\ pc'[u] = pc[u]
  BY <1>1, <1>2, <1>4 DEF TypeInv
<1>6. Apart(t)
  BY <1>2, <1>5 DEF Apart, Spared
<1>7. Own(t)
  BY <1>2, <1>5, OwnOn DEF InLoad, InAccess, InConflict
<1>8. InSnapshot(t)'
  BY <1>1, <1>2, <1>3, <1>5 DEF VisibleInv, InSnapshot
<1>9. \A u \in Tx \ {t} : InSnapshot(u)'
  BY <1>2, <1>5 DEF VisibleInv, InSnapshot, Installs
<1>10. ASSUME NEW u \in Tx \ {t} PROVE After(t, u)' /\ After(u, t)'
  <2>1. ~Validates(t)'
    BY <1>2, <1>5 DEF Validates
  <2>2. Validates(u)' = Validates(u) /\ loc'[u] = loc[u]
    BY <1>5 DEF Validates
  <2>3. ASSUME Validates(u), NEW k \in DOMAIN tx[t].w_set, NEW j \in DOMAIN tx[u].w_set, k < i,
               tx[t].w_set[k].addr = tx[u].w_set[j].addr
        PROVE  loc[t].v < loc[u].v
    <3>1. CASE k < loc[t].i
      BY <1>1, <2>3, <3>1 DEF VisibleInv, After
    <3>2. CASE ~(k < loc[t].i)
      <4>1. pc[t] = "install_drop" /\ Passed(t) = loc[t].i - 1 /\ k \in Nat /\ loc[t].i \in Nat
        BY <1>1, <1>2, <2>3, <3>2, WriteSet DEF Passed
      <4>2. k > Passed(t) /\ ~Is(t, "KILLED")
        BY <1>1, <3>2, <4>1 DEF Stage, Commits, Is
      <4>3. lock[tx[t].w_set[k].addr].owner = t
        BY <1>1, <2>3, <4>2, Locked
      <4>4. Stage(u)
        BY <1>1 DEF LockInv, Locals
      <4>5. Passed(u) = 0 /\ ~Is(u, "KILLED") /\ j > 0
        BY <1>1, <2>3, <4>4, WriteSet DEF Validates, Passed, Stage, Commits, Is
      <4>6. lock[tx[u].w_set[j].addr].owner = u
        BY <1>1, <2>3, <4>5, Locked
      <4>7. QED
        BY <2>3, <4>3, <4>6
    <3>3. QED
      BY <3>1, <3>2
  <2>4. loc'[t].v = loc[t].v /\ loc'[t].i = i
    BY <1>3, <1>5
  <2>5. QED
    BY <1>2, <2>1, <2>2, <2>3, <2>4 DEF After
<1>11. QED
  BY <1>6, <1>7, <1>8, <1>9, <1>10, VisibleCompose

\* The other steps that Idle does not cover.
LEMMA VisibleRest ==
    ASSUME VisibleInv, MemInv', NEW t \in Tx, StealFree(t) \/ VisibleValue(t) \/ Committed(t)
    PROVE  VisibleInv'
<1>1. TypeInv
  BY DEF VisibleInv, MemInv, LockInv
<1>2. Own(t)
  BY OwnConflict, OwnLife
<1>3. version' = version /\ hist' = hist /\ \A u \in Tx \ {t} : seen'[u] = seen[u]
  BY <1>1 DEF StealFree, VisibleValue, Committed, shared, TypeInv
<1>4. PICK label \in {"again", "acquire_cas", "on_commit", "idle"} : pc' = [pc EXCEPT ![t] = label]
  <2>1. CASE StealFree(t) \/ VisibleValue(t)
    BY <2>1 DEF StealFree, VisibleValue, Goto
  <2>2. CASE Committed(t)
    BY <2>2 DEF Committed, Goto
  <2>3. QED
    BY <2>1, <2>2
<1>5. pc'[t] = label /\ \A u \in Tx \ {t} : pc'[u] = pc[u]
  BY <1>1, <1>4 DEF TypeInv
<1>6. \A u \in Tx \ {t} : loc'[u] = loc[u] /\ status'[u] = status[u] /\ tx'[u] = tx[u]
  BY <1>1 DEF StealFree, VisibleValue, Committed, Clear, SetStatus, TypeInv
<1>7. Apart(t)
  BY <1>3, <1>5, <1>6 DEF Apart, Spared
<1>8. ~Installs(t)' /\ ~Validates(t)'
  BY <1>5 DEF Installs, Validates, InInstall
<1>9. QED
  BY <1>2, <1>3, <1>7, <1>8, VisibleQuiet

\* A load of the lock word and an acquisition are the own matter of t.
Aside(t) == Apart(t) /\ hist' = hist /\ ~Installs(t)' /\ ~Validates(t)'

LEMMA AsideReadLock ==
    ASSUME LockInv, NEW t \in Tx, Accesses(t), NEW for \in {"invisible", "visible", "write"},
           ReadLock(t, loc[t].addr, lock[loc[t].addr], for)
    PROVE  Aside(t)
<1> DEFINE a == loc[t].addr  l == lock[a]
<1>1. Purposes(t) /\ a \in Addr /\ ~Installs(t) /\ TypeInv /\ l \in Word
  BY DEF LockInv, Locals, Purposes, Accesses, Installs, InInstall, InAccess, InConflict, InLoad, Extends, TypeInv
<1>2. IsFree(l) => l.version \in Nat /\ ~l.write
  BY <1>1, Words DEF Free
<1>3. Reads(t, a, l, for)
  BY <1>2, ReadsLock
<1> HIDE DEF a, l
<1>4. ASSUME NEW label \in {"load_value", "upgrade", "active", "cm_status"}, NEW x, Turn(t, label, x)
      PROVE  Aside(t)
  BY <1>1, <1>4, IdleTurn DEF Idle, Aside
<1>5. CASE for \in {"visible", "write"} /\ IsFree(l) /\ Acquire(t, a, l, l.version, for)
  BY <1>1, <1>2, <1>5, Acquired DEF Aside
<1>6. CASE Rollback(t, TRUE, FALSE) \/ Rollback(t, FALSE, FALSE)
  BY <1>1, <1>6, IdleRollback DEF Idle, Aside
<1>7. Return(t) => Turn(t, "active", NoLoc)
  BY DEF Return, Turn, Clear
<1>8. Conflict(t, a, l, for) => Turn(t, "cm_status", With(a, l, for))
  BY DEF Conflict, Turn, With
<1>9. AcquireWrite(t, a, l, l.version) => Rollback(t, TRUE, FALSE) \/ Acquire(t, a, l, l.version, "write")
  BY DEF AcquireWrite
<1>10. CASE Turn(t, "load_value", With(a, l, for)) \/ Turn(t, "upgrade", With(a, l, for))
            \/ Turn(t, "active", NoLoc) \/ Turn(t, "cm_status", With(a, l, for))
  BY <1>4, <1>10
<1>11. QED
  BY <1>3, <1>5, <1>6, <1>7, <1>8, <1>9, <1>10 DEF Reads

LEMMA AsideAccess ==
    ASSUME LockInv, NEW t \in Tx, Again(t) \/ Restart(t) \/ StealAcquire(t)
    PROVE  Aside(t)
<1>1. TypeInv /\ Purposes(t) /\ Accesses(t) /\ ~Installs(t)
  BY DEF LockInv, Locals, Again, Restart, StealAcquire, Accesses, InAccess, InConflict, InLoad, Installs, InInstall
<1>2. CASE Again(t)
  <2>1. loc[t].for \in {"invisible", "visible", "write"}
    BY <1>1, <1>2 DEF Again, Purposes
  <2>2. QED
    BY <1>1, <1>2, <2>1, AsideReadLock DEF Again
<1>3. CASE Restart(t) /\ pc[t] \in {"acquire_cas", "cm_decide"}
  <2>1. Goto(t, "again") /\ UNCHANGED <<shared, status, tx, loc, seen, hist>>
    BY <1>3 DEF Restart
  <2>2. QED
    BY <1>1, <2>1, IdleSame DEF Idle, Aside
<1>4. CASE Restart(t) /\ pc[t] \notin {"acquire_cas", "cm_decide"}
  <2> DEFINE for == IF pc[t] = "cm_lock" THEN loc[t].for ELSE "invisible"
  <2>1. for \in {"invisible", "visible", "write"}
    BY <1>1 DEF Purposes, InConflict
  <2>2. ReadLock(t, loc[t].addr, lock[loc[t].addr], for)
    BY <1>4 DEF Restart
  <2> HIDE DEF for
  <2>3. QED
    BY <1>1, <2>1, <2>2, AsideReadLock
<1>5. CASE StealAcquire(t)
  <2> DEFINE a == loc[t].addr  l == loc[t].l  v == loc[t].v
  <2>1. a \in Addr /\ l \in Word /\ v \in Nat
    BY <1>1 DEF Purposes, TypeInv, LocType
  <2>2. Acquire(t, a, l, v, "visible") \/ AcquireWrite(t, a, l, v)
    BY <1>5 DEF StealAcquire
  <2> HIDE DEF a, l, v
  <2>3. CASE Rollback(t, TRUE, FALSE)
    BY <1>1, <2>3, IdleRollback DEF Idle, Aside
  <2>4. CASE Acquire(t, a, l, v, "visible") \/ Acquire(t, a, l, v, "write")
    BY <1>1, <2>1, <2>4, Acquired DEF Aside
  <2>5. QED
    BY <2>2, <2>3, <2>4 DEF AcquireWrite
<1>6. QED
  BY <1>2, <1>3, <1>4, <1>5

LEMMA VisibleInit ==
    ASSUME Init
    PROVE  VisibleInv
<1>1. MemInv
  BY MemInit
<1>2. ASSUME NEW t \in Tx PROVE OnlyVisible(t) /\ Covered(t) /\ InSnapshot(t)
  BY DEF Init, OnlyVisible, Covered, InSnapshot, Extends, Installs, InInstall, InLoad, InAccess, InConflict
<1>3. ASSUME NEW t \in Tx, NEW u \in Tx PROVE After(t, u)
  BY DEF Init, After, Installs, InInstall
<1>4. QED
  BY <1>1, <1>2, <1>3 DEF VisibleInv

LEMMA VisibleStutter ==
    ASSUME VisibleInv, MemInv', UNCHANGED vars
    PROVE  VisibleInv'
<1>1. version' = version /\ tx' = tx /\ pc' = pc /\ loc' = loc /\ seen' = seen /\ hist' = hist
  BY DEF vars
<1>2. \A t \in Tx : OnlyVisible(t)' /\ Covered(t)' /\ InSnapshot(t)'
  BY <1>1 DEF VisibleInv, OnlyVisible, Covered, InSnapshot, Rests, Unwinds, Extends, Installs
<1>3. \A t, u \in Tx : After(t, u)'
  BY <1>1 DEF VisibleInv, After, Installs, Validates
<1>4. QED
  BY <1>2, <1>3 DEF VisibleInv

LEMMA VisibleStep ==
    ASSUME CountsWrap = FALSE, VisibleInv, [Next]_vars
    PROVE  VisibleInv'
<1>1. MemInv /\ LockInv /\ MemInv'
  BY MemStep DEF VisibleInv, MemInv
<1>2. CASE UNCHANGED vars
  BY <1>1, <1>2, VisibleStutter
<1>3. ASSUME NEW t \in Tx, Idle(t), Own(t) PROVE VisibleInv'
  BY <1>1, <1>3, VisibleQuiet DEF Idle
<1>4. ASSUME NEW t \in Tx, Aside(t), Own(t) PROVE VisibleInv'
  BY <1>1, <1>4, VisibleQuiet DEF Aside
<1>5. ASSUME NEW t \in Tx, Running(t)
      PROVE  VisibleInv'
  <2>1. CASE Retry(t)
    BY <1>1, <1>3, <2>1, IdleStart, OwnLife
  <2>2. CASE \/ mod_order_on_start(t) \/ mod_order_on_commit(t) \/ Abort(t) \/ Dropped(t) \/ WaitLock(t)
             \/ mod_order_on_precommit(t) \/ CommitCas(t)
    BY <1>1, <1>3, <2>2, IdleLife, OwnLife
  <2>3. CASE CmStatus(t) \/ CmLock(t) \/ CmDecide(t) \/ Kill(t) \/ KillWait(t) \/ KillFailed(t)
    BY <1>1, <1>3, <2>3, IdleAccess, OwnConflict
  <2>4. CASE LoadValue(t) \/ LoadRelock(t) \/ LoadVersion(t) \/ LoadCheck(t) \/ Recheck(t) \/ Extended(t)
    BY <1>1, <1>3, <2>4, IdleAccess, OwnLoad
  <2>5. CASE RollbackDrop(t) \/ StmDrop(t) \/ ReadOnlyDrop(t)
    BY <1>1, <1>4, <2>5, OwnDrops DEF Aside
  <2>6. CASE StealFree(t) \/ VisibleValue(t) \/ Committed(t)
    BY <1>1, <2>6, VisibleRest
  <2>7. CASE StealAcquire(t) \/ Again(t) \/ Restart(t)
    BY <1>1, <1>4, <2>7, AsideAccess, OwnAccess
  <2>8. CASE AcquireCas(t) \/ Upgrade(t)
    <3>1. Apart(t) /\ Own(t)
      BY <2>8, OwnAcquireCas, OwnUpgrade, SMTT(40)
    <3>2. hist' = hist
      BY <2>8 DEF AcquireCas, Upgrade, Rollback
    <3>3. pc'[t] \in {"active", "abort"}
      BY <1>1, <2>8 DEF AcquireCas, Upgrade, Rollback, Goto, LockInv, TypeInv
    <3>4. QED
      BY <1>4, <3>1, <3>2, <3>3 DEF Aside, Installs, InInstall, Validates
  <2>9. CASE Validate(t)
    BY <1>1, <2>9, VisibleValidate
  <2>10. CASE CommitClock(t) \/ CommitValidated(t)
    BY <1>1, <2>10, VisibleStamp
  <2>11. CASE Install(t) \/ InstallDrop(t)
    BY <1>1, <2>11, VisibleWrite
  <2>12. QED
    BY <1>5, <2>1, <2>2, <2>3, <2>4, <2>5, <2>6, <2>7, <2>8, <2>9, <2>10, <2>11 DEF Running
<1>6. ASSUME NEW t \in Tx, Start(t) \/ Load(t) \/ Store(t) \/ Commit(t)
      PROVE  VisibleInv'
  <2>1. Idle(t) /\ Own(t)
    BY <1>1, <1>6, IdleStart, IdleAccess, IdleLife, OwnLife, OwnAccess
  <2>2. QED
    BY <1>3, <2>1
<1>7. QED
  BY <1>2, <1>5, <1>6 DEF Next

THEOREM VisibleInvariant == ASSUME CountsWrap = FALSE PROVE Spec => []VisibleInv
<1>1. VisibleInv /\ [Next]_vars => VisibleInv'
  BY VisibleStep
<1>2. QED
  BY <1>1, VisibleInit, PTL DEF Spec

\* Transactions with visible reads serialize (stm_attr_t): what such a transaction has
\* read is what the commits before its timestamp have written, or what is current as it
\* drops its locks, although readers and writers may be killed and robbed of their locks.
THEOREM VisibleReadsSerialize == ASSUME CountsWrap = FALSE PROVE Spec => []VisibleSerializable
<1>1. ASSUME VisibleInv PROVE VisibleSerializable
  <2>1. MemInv /\ LockInv /\ TypeInv
    BY <1>1 DEF VisibleInv, MemInv, LockInv
  <2>2. SUFFICES ASSUME NEW t \in Tx, tx[t].visible, NEW r \in seen[t]
                 PROVE  /\ pc[t] \in {"install", "install_drop"} => r.value = Snapshot(r.addr, loc[t].v - 1)
                        /\ pc[t] = "ro_drop" /\ loc[t].i = 1 => r.value = Newest(hist[r.addr])
    BY DEF VisibleSerializable, SerializableTx
  <2>3. r.addr \in Addr /\ hist[r.addr] \subseteq Nat /\ loc[t].v \in Nat
    BY <2>1 DEF TypeInv, LocType
  <2>4. ASSUME pc[t] \in {"install", "install_drop"}
        PROVE  r.value = Snapshot(r.addr, loc[t].v - 1)
    <3> DEFINE v == loc[t].v  S == {m \in hist[r.addr] : m <= v - 1}
    <3>1. /\ r.value \in hist[r.addr] /\ r.value < v
          /\ \A n \in hist[r.addr] : n < v => n <= r.value
      BY <1>1, <2>2, <2>4 DEF VisibleInv, InSnapshot, Installs, InInstall
    <3>2. v \in Nat
      BY <2>3
    <3> HIDE DEF v
    <3>3. \A n \in Nat : n <= v - 1 <=> n < v
      BY <3>2
    <3>4. r.value \in S /\ \A n \in S : n <= r.value
      BY <2>3, <3>1, <3>3
    <3>5. S \in SUBSET Nat
      BY <2>3
    <3> HIDE DEF S
    <3>6. Newest(S) = r.value
      BY <3>4, <3>5, OneNewest DEF IsNewest
    <3>7. QED
      BY <3>6 DEF Snapshot, S, v
  <2>5. ASSUME pc[t] = "ro_drop", loc[t].i = 1
        PROVE  r.value = Newest(hist[r.addr])
    <3>1. Passed(t) = 0 /\ ~Is(t, "KILLED") /\ ~Installs(t)
      <4>1. Stage(t)
        BY <2>1 DEF LockInv, Locals
      <4>2. QED
        BY <2>5, <4>1 DEF Passed, Stage, Commits, Is, Installs, InInstall
    <3>2. PICK i \in DOMAIN tx[t].w_set : tx[t].w_set[i].addr = r.addr /\ version[t][i] = r.value
      BY <1>1, <2>2 DEF VisibleInv, Covered
    <3>3. i > Passed(t)
      BY <2>1, <3>1, WriteSet
    <3>4. lock[r.addr].owner = t /\ ~IsFree(lock[r.addr]) /\ lock[r.addr].i = i
      BY <2>1, <3>1, <3>2, <3>3, Locked
    <3>5. IsNewest(r.value, hist[r.addr])
      BY <2>1, <2>3, <3>1, <3>2, <3>4 DEF MemInv, Content
    <3>6. r.value \in hist[r.addr]
      BY <3>5 DEF IsNewest
    <3>7. QED
      BY <2>3, <3>5, <3>6, OneNewest
  <2>6. QED
    BY <2>4, <2>5
<1>2. QED
  BY <1>1, VisibleInvariant, PTL
=============================================================================
