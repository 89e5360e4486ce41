------------------------------ MODULE GcProofs ------------------------------
(***************************************************************************)
(* Epoch-based reclamation for every number of threads, blocks and slots:  *)
(* slots have one owner, chunks are accounted for, and no running          *)
(* transaction can reach freed memory.                                     *)
(***************************************************************************)
EXTENDS EpochGc, TLAPS, FiniteSetTheorems, SequenceTheorems

-----------------------------------------------------------------------------
(* The inductive invariant *)

InGc == {"gc_free", "cleanup", "scan", "scan_ts", "reclaim"}
GcLabel == {"out", "slot", "slot_cas", "epoch", "bound", "enter", "idle", "prepare", "barrier",
            "set_epoch", "active", "callback", "exit", "exit_ts", "exit_used", "exit_nb"}
           \cup InGc

Region == [ts : Nat, blocks : Seq(Chunk)]
SlotType == [used : Used, ts : Nat, regions : Seq(Region)]
Locals == [idx : Slot, start : Nat, chunk : Chunk, epoch : Nat,
           then : {"idle", "callback", "exit_ts"}, of : Slot, min : Nat, i : Nat, used : Used]

\* The types of the state.
TypeInv ==
    /\ clock \in Nat /\ clock <= ClockMax
    /\ slots \in [Slot -> SlotType]
    /\ nb_active \in Nat
    /\ threads \subseteq Tx
    /\ icb \in [Tx -> [commit : Seq(Block), abort : Seq(Block)]]
    /\ allocated \subseteq Chunk
    /\ pc \in [Tx -> GcLabel]
    /\ loc \in [Tx -> Locals]
    /\ linked \subseteq Block
    /\ unlinked \in [Block -> Nat]
    /\ features \subseteq Feature

\* nb_active counts the threads that are not out: gc_exit finds nobody.
Counted == nb_active = Cardinality({t \in Tx : pc[t] # "out"})

\* The search for a slot passes over busy slots only, so that no slot that is used has
\* a slot before it that was never used.
Searches(t) ==
    /\ pc[t] \in {"slot", "slot_cas"} =>
          loc[t].i \in Slot /\ \A i \in 0 .. loc[t].i - 1 : slots[i].used # "NULL"
    /\ pc[t] = "slot_cas" =>
          /\ loc[t].used # "BUSY"
          /\ loc[t].used # "NULL" => slots[loc[t].i].used # "NULL"
    /\ pc[t] = "scan_ts" => loc[t].i \in Slot

SlotInv == TypeInv /\ Counted /\ SlotOwner /\ \A t \in Tx : Searches(t)

\* Where a descriptor is registered, and where callbacks may be left to run.
Registered(t) ==
    \/ pc[t] \in {"idle", "prepare", "barrier", "set_epoch", "active", "callback"}
    \/ pc[t] \in InGc /\ loc[t].then # "exit_ts"
Finishes(t) == pc[t] = "callback" \/ (pc[t] \in InGc /\ loc[t].then = "callback")

Holding(t) ==
    /\ t \in threads <=> Registered(t)
    /\ pc[t] \in {"slot", "slot_cas", "epoch", "bound", "enter"} => t \notin allocated
    /\ pc[t] # "active" /\ ~Finishes(t) => icb[t] = NoCallbacks

\* Where a chunk can be: on a list, in a call to gc_free, in a region.
Distinct(s) == \A j, k \in DOMAIN s : s[j] = s[k] => j = k
Listing(c, t) == c \in ToSet(Listed(t))
Calling(c, t) == pc[t] = "gc_free" /\ loc[t].chunk = c
Has(regions, r, c) == r \in DOMAIN regions /\ c \in ToSet(regions[r].blocks)
Keeping(c, i, r) == Has(slots[i].regions, r, c)

\* It is in one place if it is allocated, and in none otherwise.
NotListed(c) == \A t \in Tx : ~Listing(c, t)
NotCalled(c) == \A t \in Tx : ~Calling(c, t)
NotKept(c) == \A i \in Slot : \A r \in Nat : ~Keeping(c, i, r)
Nowhere(c) == c \notin allocated /\ c \notin InUse /\ NotListed(c) /\ NotCalled(c) /\ NotKept(c)
UsedOnly(c) == c \in allocated /\ c \in InUse /\ NotListed(c) /\ NotCalled(c) /\ NotKept(c)
ListedOnly(c, t) ==
    /\ c \in allocated /\ c \notin InUse /\ NotCalled(c) /\ NotKept(c)
    /\ \A u \in Tx : Listing(c, u) <=> u = t
CalledOnly(c, t) ==
    /\ c \in allocated /\ c \notin InUse /\ NotListed(c) /\ NotKept(c)
    /\ \A u \in Tx : Calling(c, u) <=> u = t
KeptOnly(c, i, r) ==
    /\ c \in allocated /\ c \notin InUse /\ NotListed(c) /\ NotCalled(c)
    /\ \A j \in Slot : \A q \in Nat : Keeping(c, j, q) <=> (j = i /\ q = r)
Single(c) ==
    \/ Nowhere(c) \/ UsedOnly(c)
    \/ \E t \in Tx : ListedOnly(c, t) \/ CalledOnly(c, t)
    \/ \E i \in Slot : \E r \in Nat : KeptOnly(c, i, r)

\* Nothing is twice on one list or in one region, and unused slots have no regions.
ListsDistinct(t) == Distinct(Listed(t)) /\ Distinct(icb[t].commit)
RegionsDistinct(i) ==
    /\ \A r \in DOMAIN slots[i].regions : Distinct(slots[i].regions[r].blocks)
    /\ slots[i].used = "NULL" => slots[i].regions = <<>>

Heap ==
    /\ \A t \in Tx : Holding(t) /\ ListsDistinct(t)
    /\ \A i \in Slot : RegionsDistinct(i)
    /\ \A c \in Chunk : Single(c)
HeapInv == SlotInv /\ Heap

\* Either the clock is not reset, or no thread joins or leaves while others run.
ResetApart == "reset" \in features => features \cap {"join", "exit"} = {}

Waits(t) == pc[t] \in {"prepare", "barrier", "set_epoch", "active"}
Resets == IF "reset" \in features THEN \A t \in Tx : Waits(t) => threads = Tx
          ELSE clock < VERSION_MAX /\ \A t \in Tx : pc[t] # "barrier"

\* The epochs of threads: their transactions' start, or before.
Runs(t) == pc[t] \in {"set_epoch", "active"}
Epoch(t) ==
    /\ pc[t] = "bound" \/ Runs(t) => loc[t].start <= clock
    /\ Runs(t) => LET ts == slots[loc[t].idx].ts IN
                  ts <= loc[t].start \/ (ts = EPOCH_MAX /\ pc[t] = "set_epoch")

\* Timestamps of slots are from the current epoch or none.
Bounds ==
    \A i \in Slot : /\ slots[i].ts <= clock \/ slots[i].ts = EPOCH_MAX
                    /\ slots[i].used = "NULL" => slots[i].ts = EPOCH_MAX

\* What a scan has found so far is a bound of the transactions in the slots that it has seen.
Scans(s) ==
    pc[s] \in {"scan", "scan_ts", "reclaim"} =>
        /\ loc[s].min <= clock
        /\ \A u \in Tx : Runs(u) /\ (pc[s] = "reclaim" \/ loc[u].idx < loc[s].i) =>
              loc[s].min <= loc[u].start

\* A block is not given to gc_free before it has left the data structure.
Left ==
    /\ \A b \in Block : unlinked[b] <= clock
    /\ \A i \in Slot : \A r \in DOMAIN slots[i].regions :
          \A b \in Block \cap ToSet(slots[i].regions[r].blocks) :
             unlinked[b] <= slots[i].regions[r].ts
    /\ \A t \in Tx : pc[t] = "gc_free" /\ loc[t].chunk \in Block =>
          unlinked[loc[t].chunk] <= loc[t].epoch
    /\ \A t \in Tx : pc[t] = "active" => \A b \in ToSet(icb[t].abort) : unlinked[b] = 0

EpochInv ==
    /\ HeapInv /\ ResetApart /\ Resets /\ Bounds /\ Left /\ NoDangling
    /\ \A t \in Tx : Epoch(t) /\ Scans(t)

\* The steps of a thread.
Joins(t) ==
    \/ InitThread(t) \/ FindSlot(t) \/ TakeSlot(t) \/ ReadEpoch(t) \/ SetBound(t) \/ EnterThread(t)
Transacts(t) ==
    \/ Start(t) \/ Prepare(t) \/ gc_set_epoch(t) \/ Malloc(t) \/ FreeBlock(t) \/ Commit(t)
    \/ OnCommit(t) \/ OnCommitEnd(t) \/ OnAbort(t)
Reclaims(t) ==
    \/ gc_free(t) \/ gc_cleanup(t) \/ ScanUsed(t) \/ ScanTs(t) \/ gc_cleanup_thread(t)
    \/ gc_cleanup_all(t)
Leaves(t) == ExitThread(t) \/ ExitFree(t) \/ ExitTs(t) \/ ExitUsed(t) \/ ExitNb(t)
Step(t) == Joins(t) \/ Transacts(t) \/ Reclaims(t) \/ Leaves(t)

-----------------------------------------------------------------------------
(* Types *)

\* Slots, epochs and initial locals are well typed.
LEMMA SlotTypes ==
  /\ Slot \subseteq Nat /\ 0 \in Slot
  /\ (TypeInv => EPOCH_MAX \in Nat /\ clock < EPOCH_MAX)
  /\ \A t \in Tx : NoLoc(t) \in Locals
  BY GcAssumption DEF Slot, EPOCH_MAX, TypeInv, NoLoc, Locals, Chunk, Used

\* The next slot in the search.
LEMMA NextSlot ==
  ASSUME NEW i \in Slot
  PROVE  /\ (i + 1) % MAX_GC_THREADS \in Slot
         /\ (i + 1) % MAX_GC_THREADS = i + 1 \/ (i + 1) % MAX_GC_THREADS = 0
  BY GcAssumption DEF Slot

\* A thread's locals, forgotten but for its slot.
LEMMA KeptType ==
  ASSUME TypeInv, NEW t \in Tx
  PROVE  Kept(t) \in Locals /\ Kept(t).idx = loc[t].idx
  BY SlotTypes DEF TypeInv, Kept, NoLoc, Locals

\* Some regions fewer, or with another block.
LEMMA RegionTypes ==
  ASSUME NEW rs \in Seq(Region)
  PROVE  /\ \A n \in 0 .. Len(rs) : SubSeq(rs, n + 1, Len(rs)) \in Seq(Region)
         /\ \A e \in Nat, c \in Chunk : Append(rs, [ts |-> e, blocks |-> <<c>>]) \in Seq(Region)
         /\ \A c \in Chunk : rs # <<>> =>
               [rs EXCEPT ![Len(rs)].blocks = <<c>> \o @] \in Seq(Region)
  <1>1. ASSUME NEW n \in 0 .. Len(rs)
        PROVE  SubSeq(rs, n + 1, Len(rs)) \in Seq(Region)
    OBVIOUS
  <1>2. ASSUME NEW e \in Nat, NEW c \in Chunk
        PROVE  Append(rs, [ts |-> e, blocks |-> <<c>>]) \in Seq(Region)
    <2>1. <<c>> \in Seq(Chunk)
      OBVIOUS
    <2>2. [ts |-> e, blocks |-> <<c>>] \in Region
      BY <2>1 DEF Region
    <2> QED
      BY <2>2
  <1>3. ASSUME NEW c \in Chunk, rs # <<>>
        PROVE  [rs EXCEPT ![Len(rs)].blocks = <<c>> \o @] \in Seq(Region)
    <2>1. Len(rs) \in 1 .. Len(rs)
      BY <1>3
    <2>0. rs[Len(rs)] \in Region
      BY <2>1
    <2>2. rs[Len(rs)] \in Region /\ rs[Len(rs)].blocks \in Seq(Chunk)
      BY <2>0 DEF Region
    <2>3. <<c>> \o rs[Len(rs)].blocks \in Seq(Chunk)
      <3>1. <<c>> \in Seq(Chunk)
        OBVIOUS
      <3> QED
        BY <2>2, <3>1, ConcatProperties
    <2>4. [rs[Len(rs)] EXCEPT !.blocks = <<c>> \o @] \in Region
      BY <2>2, <2>3 DEF Region
    <2> QED
      BY <2>1, <2>4
  <1> QED
    BY <1>1, <1>2, <1>3

\* New locals and labels.
LEMMA LocalTypes ==
  ASSUME TypeInv, NEW t \in Tx
  PROVE  /\ \A x \in Locals : [loc EXCEPT ![t] = x] \in [Tx -> Locals]
         /\ \A n \in Nat : [loc EXCEPT ![t].i = n] \in [Tx -> Locals]
         /\ \A n \in Nat, u \in Used : [loc EXCEPT ![t].i = n, ![t].used = u] \in [Tx -> Locals]
         /\ \A u \in Used : [loc EXCEPT ![t].used = u] \in [Tx -> Locals]
         /\ \A i \in Slot : [loc EXCEPT ![t].idx = i] \in [Tx -> Locals]
         /\ \A n \in Nat : [loc EXCEPT ![t].start = n] \in [Tx -> Locals]
         /\ \A n, m \in Nat : [loc EXCEPT ![t].i = n, ![t].min = m] \in [Tx -> Locals]
         /\ [loc EXCEPT ![t] = Kept(t)] \in [Tx -> Locals]
         /\ \A l \in GcLabel : [pc EXCEPT ![t] = l] \in [Tx -> GcLabel]
  <1>1. loc \in [Tx -> Locals] /\ pc \in [Tx -> GcLabel] /\ Kept(t) \in Locals
    BY KeptType DEF TypeInv
  <1> QED
    BY <1>1, ZenonT(60) DEF Locals

\* New slots.
LEMMA SlotsTypes ==
  ASSUME TypeInv, NEW i \in Slot
  PROVE  /\ \A u \in Used : [slots EXCEPT ![i].used = u] \in [Slot -> SlotType]
         /\ \A n \in Nat : [slots EXCEPT ![i].ts = n] \in [Slot -> SlotType]
         /\ \A rs \in Seq(Region) : [slots EXCEPT ![i].regions = rs] \in [Slot -> SlotType]
         /\ slots[i].used \in Used /\ slots[i].ts \in Nat /\ slots[i].regions \in Seq(Region)
  BY DEF TypeInv, SlotType

\* Slots after an assignment to one field of one of them.
Differs(new, i, used, ts, regions) ==
  \A j \in Slot : /\ new[j].used = IF j = i THEN used ELSE slots[j].used
                  /\ new[j].ts = IF j = i THEN ts ELSE slots[j].ts
                  /\ new[j].regions = IF j = i THEN regions ELSE slots[j].regions

LEMMA SlotEdits ==
  ASSUME TypeInv, NEW i \in Slot
  PROVE  /\ \A u : Differs([slots EXCEPT ![i].used = u], i, u, slots[i].ts, slots[i].regions)
         /\ \A n : Differs([slots EXCEPT ![i].ts = n], i, slots[i].used, n, slots[i].regions)
         /\ \A r : Differs([slots EXCEPT ![i].regions = r], i, slots[i].used, slots[i].ts, r)
  <1>1. slots \in [Slot -> SlotType] /\ \A j \in Slot : slots[j] \in SlotType
    BY DEF TypeInv
  <1>2. ASSUME NEW u
        PROVE  Differs([slots EXCEPT ![i].used = u], i, u, slots[i].ts, slots[i].regions)
    BY <1>1 DEF Differs, SlotType
  <1>3. ASSUME NEW n
        PROVE  Differs([slots EXCEPT ![i].ts = n], i, slots[i].used, n, slots[i].regions)
    BY <1>1 DEF Differs, SlotType
  <1>4. ASSUME NEW r
        PROVE  Differs([slots EXCEPT ![i].regions = r], i, slots[i].used, slots[i].ts, r)
    BY <1>1 DEF Differs, SlotType
  <1> QED
    BY <1>2, <1>3, <1>4

\* New callbacks.
LEMMA CallbackTypes ==
  ASSUME icb \in [Tx -> [commit : Seq(Block), abort : Seq(Block)]], NEW t \in Tx, NEW b \in Block
  PROVE  /\ [icb EXCEPT ![t].commit = Append(@, b)] \in [Tx -> [commit : Seq(Block), abort : Seq(Block)]]
         /\ [icb EXCEPT ![t].abort = Append(@, b)] \in [Tx -> [commit : Seq(Block), abort : Seq(Block)]]
  <1>1. /\ icb[t] \in [commit : Seq(Block), abort : Seq(Block)]
        /\ Append(icb[t].commit, b) \in Seq(Block) /\ Append(icb[t].abort, b) \in Seq(Block)
    OBVIOUS
  <1>2. /\ [icb[t] EXCEPT !.commit = Append(@, b)] \in [commit : Seq(Block), abort : Seq(Block)]
        /\ [icb[t] EXCEPT !.abort = Append(@, b)] \in [commit : Seq(Block), abort : Seq(Block)]
    BY <1>1
  <1> QED
    BY <1>2

\* The types are kept by threads that come ...
LEMMA JoinTypes ==
  ASSUME TypeInv, NEW t \in Tx, Searches(t), Joins(t)
  PROVE  TypeInv'
  <1> USE DEF Goto, heap, rest
  <1>0. /\ loc[t] \in Locals /\ loc[t].start \in Nat /\ loc[t].idx \in Slot
        /\ pc[t] \in {"slot", "slot_cas"} =>
              /\ loc[t].i \in Slot /\ slots[loc[t].i].used \in Used
              /\ (loc[t].i + 1) % MAX_GC_THREADS \in Nat
    BY NextSlot, SlotTypes, SlotsTypes DEF TypeInv, Locals, Searches
  <1>1. CASE InitThread(t)
    <2>1. nb_active' \in Nat
      BY <1>1 DEF InitThread, TypeInv
    <2>2. loc' \in [Tx -> Locals] /\ pc' \in [Tx -> GcLabel]
      BY <1>1, LocalTypes DEF InitThread, GcLabel
    <2> QED
      BY <1>1, <2>1, <2>2 DEF InitThread, TypeInv
  <1>2. CASE FindSlot(t)
    <2>1. loc' \in [Tx -> Locals]
      BY <1>0, <1>2, LocalTypes DEF FindSlot
    <2>2. pc' \in [Tx -> GcLabel]
      <3>1. pc' = pc \/ pc' = [pc EXCEPT ![t] = "slot_cas"]
        BY <1>2 DEF FindSlot
      <3> QED
        BY <3>1, LocalTypes DEF GcLabel, TypeInv
    <2> QED
      BY <1>2, <2>1, <2>2 DEF FindSlot, TypeInv
  <1>3. CASE TakeSlot(t)
    <2>0. loc[t].i \in Slot /\ "BUSY" \in Used
      BY <1>0, <1>3 DEF TakeSlot, Used
    <2>1. loc' \in [Tx -> Locals]
      BY <1>0, <1>3, <2>0, LocalTypes DEF TakeSlot
    <2>3. pc' \in [Tx -> GcLabel]
      BY <1>3, LocalTypes, SMTT(40) DEF TakeSlot, GcLabel
    <2>2. slots' \in [Slot -> SlotType]
      <3>1. slots' = slots \/ slots' = [slots EXCEPT ![loc[t].i].used = "BUSY"]
        BY <1>3 DEF TakeSlot
      <3>2. slots \in [Slot -> SlotType]
        BY DEF TypeInv
      <3> QED
        BY <2>0, <3>1, <3>2, SlotsTypes
    <2> QED
      BY <1>3, <2>1, <2>2, <2>3 DEF TakeSlot, TypeInv
  <1>4. CASE ReadEpoch(t)
    <2>1. loc' \in [Tx -> Locals] /\ pc' \in [Tx -> GcLabel]
      BY <1>4, LocalTypes DEF ReadEpoch, GcLabel, TypeInv
    <2> QED
      BY <1>4, <2>1 DEF ReadEpoch, TypeInv
  <1>5. CASE SetBound(t)
    <2>1. loc' \in [Tx -> Locals] /\ pc' \in [Tx -> GcLabel]
      BY <1>5, LocalTypes DEF SetBound, GcLabel
    <2>2. slots' \in [Slot -> SlotType]
      BY <1>0, <1>5, SlotsTypes DEF SetBound
    <2> QED
      BY <1>5, <2>1, <2>2 DEF SetBound, TypeInv
  <1>6. CASE EnterThread(t)
    <2>1. pc' \in [Tx -> GcLabel]
      BY <1>6, LocalTypes DEF EnterThread, GcLabel
    <2>2. icb' \in [Tx -> [commit : Seq(Block), abort : Seq(Block)]]
      BY <1>6 DEF EnterThread, NoCallbacks, TypeInv
    <2> QED
      BY <1>6, <2>1, <2>2 DEF EnterThread, TypeInv, Chunk
  <1> QED
    BY <1>1, <1>2, <1>3, <1>4, <1>5, <1>6 DEF Joins

\* ... run transactions ...
LEMMA RunTypes ==
  ASSUME TypeInv, NEW t \in Tx, Transacts(t)
  PROVE  TypeInv'
  <1> USE DEF Goto, heap, rest
  <1>0. /\ loc[t] \in Locals /\ loc[t].start \in Nat /\ loc[t].idx \in Slot /\ clock \in Nat
        /\ icb \in [Tx -> [commit : Seq(Block), abort : Seq(Block)]]
        /\ icb[t].commit \in Seq(Block) /\ icb[t].abort \in Seq(Block)
        /\ loc \in [Tx -> Locals]
    BY DEF TypeInv, Locals
  <1>1. CASE Start(t)
    BY <1>1, LocalTypes DEF Start, TypeInv, GcLabel
  <1>2. CASE Prepare(t)
    <2>1. loc' \in [Tx -> Locals]
      <3>1. loc' = loc \/ loc' = [loc EXCEPT ![t].start = clock]
        BY <1>2 DEF Prepare
      <3>2. [loc EXCEPT ![t].start = clock] \in [Tx -> Locals]
        BY <1>0, LocalTypes
      <3> QED
        BY <1>0, <3>1, <3>2
    <2>2. pc' \in [Tx -> GcLabel]
      BY <1>2, LocalTypes DEF Prepare, GcLabel
    <2> QED
      BY <1>2, <2>1, <2>2 DEF Prepare, TypeInv
  <1>3. CASE gc_set_epoch(t)
    <2>1. pc' \in [Tx -> GcLabel]
      BY <1>3, LocalTypes DEF gc_set_epoch, GcLabel
    <2>2. slots' \in [Slot -> SlotType]
      BY <1>0, <1>3, SlotsTypes DEF gc_set_epoch
    <2> QED
      BY <1>3, <2>1, <2>2 DEF gc_set_epoch, TypeInv
  <1>4. CASE Malloc(t)
    <2>1. PICK b \in Block : /\ allocated' = allocated \cup {b}
                             /\ icb' = [icb EXCEPT ![t].abort = Append(@, b)]
                             /\ unlinked' = [unlinked EXCEPT ![b] = 0]
      BY <1>4 DEF Malloc, mod_cb_add_on_abort
    <2>2. icb' \in [Tx -> [commit : Seq(Block), abort : Seq(Block)]]
      BY <1>0, <2>1, CallbackTypes
    <2>3. unlinked' \in [Block -> Nat] /\ allocated' \subseteq Chunk
      BY <2>1 DEF TypeInv, Chunk
    <2> QED
      BY <1>4, <2>2, <2>3 DEF Malloc, TypeInv
  <1>5. CASE FreeBlock(t)
    <2>1. PICK b \in linked \cup ToSet(icb[t].abort) :
               icb' = [icb EXCEPT ![t].commit = Append(@, b)]
      BY <1>5 DEF FreeBlock, mod_cb_add_on_commit
    <2>2. b \in Block
      BY <1>0, <2>1 DEF TypeInv, ToSet
    <2>3. icb' \in [Tx -> [commit : Seq(Block), abort : Seq(Block)]]
      BY <1>0, <2>1, <2>2, CallbackTypes
    <2> QED
      BY <1>5, <2>3 DEF FreeBlock, TypeInv
  <1>6. CASE Commit(t)
    <2>1. loc' \in [Tx -> Locals] /\ pc' \in [Tx -> GcLabel]
      BY <1>6, LocalTypes DEF Commit, GcLabel
    <2>2. clock' \in Nat /\ clock' <= ClockMax
      BY <1>0, <1>6, GcAssumption DEF Commit
    <2>3. linked' \subseteq Block
      BY <1>0, <1>6 DEF Commit, TypeInv, ToSet
    <2>4. unlinked' \in [Block -> Nat]
      BY <1>0, <1>6 DEF Commit, TypeInv
    <2> QED
      BY <1>6, <2>1, <2>2, <2>3, <2>4 DEF Commit, TypeInv
  <1>7. CASE OnCommit(t)
    <2>1. Last(icb[t].commit) \in Chunk /\ Front(icb[t].commit) \in Seq(Block)
      BY <1>0, <1>7 DEF OnCommit, Last, Front, Chunk
    <2>2. loc' \in [Tx -> Locals]
      BY <1>0, <1>7, <2>1 DEF OnCommit, TypeInv, Locals
    <2>3. pc' \in [Tx -> GcLabel]
      BY <1>7, LocalTypes DEF OnCommit, GcLabel, InGc
    <2>4. icb' \in [Tx -> [commit : Seq(Block), abort : Seq(Block)]]
      BY <1>0, <1>7, <2>1 DEF OnCommit
    <2> QED
      BY <1>7, <2>2, <2>3, <2>4 DEF OnCommit, TypeInv
  <1>8. CASE OnCommitEnd(t)
    <2>1. pc' \in [Tx -> GcLabel]
      BY <1>8, LocalTypes DEF OnCommitEnd, GcLabel
    <2>2. icb' \in [Tx -> [commit : Seq(Block), abort : Seq(Block)]]
      BY <1>0, <1>8 DEF OnCommitEnd
    <2> QED
      BY <1>8, <2>1, <2>2 DEF OnCommitEnd, TypeInv
  <1>9. CASE OnAbort(t)
    <2>1. loc' \in [Tx -> Locals]
      BY <1>9, LocalTypes DEF OnAbort
    <2>3. pc' \in [Tx -> GcLabel]
      BY <1>9, LocalTypes, SMTT(40) DEF OnAbort, GcLabel
    <2>2. icb' \in [Tx -> [commit : Seq(Block), abort : Seq(Block)]]
      BY <1>0, <1>9 DEF OnAbort, NoCallbacks
    <2> QED
      BY <1>9, <2>1, <2>2, <2>3 DEF OnAbort, TypeInv
  <1> QED
    BY <1>1, <1>2, <1>3, <1>4, <1>5, <1>6, <1>7, <1>8, <1>9 DEF Transacts

\* ... free memory ...
LEMMA FreeTypes ==
  ASSUME TypeInv, NEW t \in Tx, Searches(t), Reclaims(t)
  PROVE  TypeInv'
  <1> USE DEF Goto, heap, rest
  <1>0. /\ loc[t] \in Locals /\ loc[t].idx \in Slot /\ loc[t].of \in Slot /\ clock \in Nat
        /\ loc[t].i \in Nat /\ loc[t].i + 1 \in Nat /\ loc[t].min \in Nat
        /\ loc[t].then \in {"idle", "callback", "exit_ts"}
        /\ loc \in [Tx -> Locals] /\ slots \in [Slot -> SlotType]
    BY SMTT(40) DEF TypeInv, Locals
  <1>1. CASE gc_free(t)
    <2> DEFINE rs == slots[loc[t].idx].regions
    <2>1. rs \in Seq(Region) /\ loc[t].epoch \in Nat /\ loc[t].chunk \in Chunk
      BY <1>0, SlotsTypes DEF Locals
    <2>2. \/ slots' = [slots EXCEPT ![loc[t].idx].regions =
                          Append(rs, [ts |-> loc[t].epoch, blocks |-> <<loc[t].chunk>>])]
          \/ /\ rs # <<>>
             /\ slots' = [slots EXCEPT ![loc[t].idx].regions =
                             [rs EXCEPT ![Len(rs)].blocks = <<loc[t].chunk>> \o @]]
      BY <1>1, Zenon DEF gc_free
    <2>3. slots' \in [Slot -> SlotType]
      <3>1. \E new \in Seq(Region) : slots' = [slots EXCEPT ![loc[t].idx].regions = new]
        BY <2>1, <2>2, RegionTypes, ZenonT(60)
      <3> QED
        BY <1>0, <3>1, SlotsTypes
    <2>4. pc' \in [Tx -> GcLabel]
      BY <1>1, LocalTypes, Zenon DEF gc_free, GcLabel, InGc
    <2> QED
      BY <1>1, <2>3, <2>4, Zenon DEF gc_free, TypeInv
  <1>2. CASE gc_cleanup(t)
    <2>1. loc' \in [Tx -> Locals]
      BY <1>0, <1>2, SlotTypes DEF gc_cleanup, Locals
    <2>2. pc' \in [Tx -> GcLabel]
      BY <1>2, LocalTypes DEF gc_cleanup, GcLabel, InGc
    <2> QED
      BY <1>2, <2>1, <2>2 DEF gc_cleanup, TypeInv
  <1>3. CASE ScanUsed(t)
    <2>1. loc' \in [Tx -> Locals]
      <3>1. loc' = loc \/ loc' = [loc EXCEPT ![t].i = loc[t].i + 1]
        BY <1>3 DEF ScanUsed
      <3>2. [loc EXCEPT ![t].i = loc[t].i + 1] \in [Tx -> Locals]
        BY <1>0, LocalTypes
      <3> QED
        BY <1>0, <3>1, <3>2
    <2>2. pc' \in [Tx -> GcLabel]
      <3>1. \/ pc' = pc \/ pc' = [pc EXCEPT ![t] = "scan_ts"]
            \/ pc' = [pc EXCEPT ![t] = "reclaim"]
        BY <1>3 DEF ScanUsed
      <3> QED
        BY <3>1, LocalTypes, Zenon DEF GcLabel, InGc, TypeInv
    <2> QED
      BY <1>3, <2>1, <2>2 DEF ScanUsed, TypeInv
  <1>4. CASE ScanTs(t)
    <2>1. loc' \in [Tx -> Locals]
      <3>1. loc[t].i \in Slot
        BY <1>4 DEF ScanTs, Searches
      <3>2. slots[loc[t].i].ts \in Nat
        BY <3>1, SlotsTypes
      <3>3. PICK m \in Nat : loc' = loc \/ loc' = [loc EXCEPT ![t].i = loc[t].i + 1, ![t].min = m]
        BY <1>0, <1>4, <3>2 DEF ScanTs
      <3>4. [loc EXCEPT ![t].i = loc[t].i + 1, ![t].min = m] \in [Tx -> Locals]
        BY <1>0, LocalTypes
      <3> QED
        BY <1>0, <3>3, <3>4
    <2>2. pc' \in [Tx -> GcLabel]
      BY <1>4, LocalTypes DEF ScanTs, GcLabel, InGc
    <2> QED
      BY <1>4, <2>1, <2>2 DEF ScanTs, TypeInv
  <1>5. CASE gc_cleanup_thread(t)
    <2> DEFINE rs == slots[loc[t].of].regions
    <2>1. PICK n \in 0 .. Len(rs) :
             /\ allocated' = allocated \ Chunks(SubSeq(rs, 1, n))
             /\ slots' = [slots EXCEPT ![loc[t].of].regions = SubSeq(rs, n + 1, Len(rs))]
      BY <1>5, Zenon DEF gc_cleanup_thread
    <2>2. SubSeq(rs, n + 1, Len(rs)) \in Seq(Region)
      BY <1>0, RegionTypes, SlotsTypes
    <2>3. slots' \in [Slot -> SlotType]
      BY <1>0, <2>1, <2>2, SlotsTypes
    <2>4. loc' \in [Tx -> Locals]
      BY <1>5, LocalTypes DEF gc_cleanup_thread
    <2>5. loc[t].then \in GcLabel
      BY <1>0 DEF GcLabel
    <2>6. pc' \in [Tx -> GcLabel]
      BY <1>5, <2>5, LocalTypes DEF gc_cleanup_thread
    <2> QED
      BY <1>5, <2>1, <2>3, <2>4, <2>6 DEF gc_cleanup_thread, TypeInv
  <1>6. CASE gc_cleanup_all(t)
    <2>1. PICK i \in Slot :
             /\ slots' = [slots EXCEPT ![i].used = "BUSY"]
             /\ loc' = [loc EXCEPT ![t].of = i, ![t].min = clock, ![t].i = 0, ![t].then = "idle"]
      BY <1>6 DEF gc_cleanup_all
    <2>2. loc' \in [Tx -> Locals]
      BY <1>0, <2>1, SlotTypes, ZenonT(60) DEF Locals
    <2>3. slots' \in [Slot -> SlotType]
      BY <2>1, SlotsTypes DEF Used
    <2>4. pc' \in [Tx -> GcLabel]
      BY <1>6, LocalTypes DEF gc_cleanup_all, GcLabel, InGc
    <2> QED
      BY <1>6, <2>2, <2>3, <2>4 DEF gc_cleanup_all, TypeInv
  <1> QED
    BY <1>1, <1>2, <1>3, <1>4, <1>5, <1>6 DEF Reclaims

\* ... and leave.
LEMMA ExitTypes ==
  ASSUME TypeInv, NEW t \in Tx, nb_active' \in Nat, Leaves(t)
  PROVE  TypeInv'
  <1> USE DEF Goto, heap, rest
  <1>0. /\ loc[t] \in Locals /\ loc[t].idx \in Slot /\ clock \in Nat
        /\ loc \in [Tx -> Locals]
    BY DEF TypeInv, Locals
  <1>1. CASE ExitThread(t)
    <2>1. pc' \in [Tx -> GcLabel]
      BY <1>1, LocalTypes DEF ExitThread, GcLabel
    <2> QED
      BY <1>1, <2>1 DEF ExitThread, TypeInv
  <1>2. CASE ExitFree(t)
    <2>1. loc' \in [Tx -> Locals]
      BY <1>0, <1>2 DEF ExitFree, Locals, Chunk
    <2>2. pc' \in [Tx -> GcLabel]
      BY <1>2, LocalTypes DEF ExitFree, GcLabel, InGc
    <2> QED
      BY <1>2, <2>1, <2>2 DEF ExitFree, TypeInv
  <1>3. CASE ExitTs(t)
    <2>1. slots' \in [Slot -> SlotType]
      BY <1>0, <1>3, SlotTypes, SlotsTypes DEF ExitTs
    <2>2. pc' \in [Tx -> GcLabel]
      BY <1>3, LocalTypes DEF ExitTs, GcLabel
    <2> QED
      BY <1>3, <2>1, <2>2 DEF ExitTs, TypeInv
  <1>4. CASE ExitUsed(t)
    <2>1. slots' = [slots EXCEPT ![loc[t].idx].used = "FREE_EMPTY"]
          \/ slots' = [slots EXCEPT ![loc[t].idx].used = "FREE_FULL"]
      BY <1>4 DEF ExitUsed, Free
    <2>2. slots' \in [Slot -> SlotType]
      <3>1. \E u \in Used : slots' = [slots EXCEPT ![loc[t].idx].used = u]
        BY <2>1 DEF Used
      <3> QED
        BY <1>0, <3>1, SlotsTypes
    <2>3. pc' \in [Tx -> GcLabel]
      BY <1>4, LocalTypes DEF ExitUsed, GcLabel
    <2> QED
      BY <1>4, <2>2, <2>3 DEF ExitUsed, TypeInv
  <1>5. CASE ExitNb(t)
    <2>1. loc' \in [Tx -> Locals]
      BY <1>5, SlotTypes, LocalTypes DEF ExitNb
    <2>2. pc' \in [Tx -> GcLabel]
      BY <1>5, LocalTypes DEF ExitNb, GcLabel
    <2> QED
      BY <1>5, <2>1, <2>2 DEF ExitNb, TypeInv
  <1> QED
    BY <1>1, <1>2, <1>3, <1>4, <1>5 DEF Leaves

\* Empty slots, and slots that the reset has emptied.
LEMMA ResetTypes ==
  ASSUME TypeInv, Rollover \/ gc_exit
  PROVE  TypeInv'
  <1> USE DEF heap, rest
  <1>1. <<>> \in Seq(Region) /\ 0 \in Nat /\ 0 <= ClockMax
    BY GcAssumption
  <1>2. [b \in Block |-> 0] \in [Block -> Nat]
    OBVIOUS
  <1>3. CASE Rollover
    <2>1. ASSUME NEW i \in Slot
          PROVE  /\ slots[i] \in SlotType
                 /\ [slots[i] EXCEPT !.ts = EPOCH_MAX, !.regions = <<>>] \in SlotType
      BY <1>1, SlotTypes DEF TypeInv, SlotType
    <2>2. slots' \in [Slot -> SlotType]
      BY <1>3, <2>1 DEF Rollover
    <2>3. pc' \in [Tx -> GcLabel]
      BY <1>3 DEF Rollover, GcLabel, TypeInv
    <2> QED
      BY <1>1, <1>2, <1>3, <2>2, <2>3 DEF Rollover, TypeInv
  <1>4. CASE gc_exit
    <2>1. slots' \in [Slot -> SlotType]
      BY <1>1, <1>4, SlotTypes DEF gc_exit, NoSlots, SlotType, Used
    <2> QED
      BY <1>1, <1>2, <1>4, <2>1 DEF gc_exit, TypeInv
  <1> QED
    BY <1>3, <1>4

-----------------------------------------------------------------------------
(* Slots *)

\* The count of threads.
LEMMA CountStep ==
  ASSUME TypeInv, Counted, [Next]_vars
  PROVE  nb_active' \in Nat /\ Counted'
  <1> USE DEF Goto, heap, rest
  <1> DEFINE In == {u \in Tx : pc[u] # "out"}
  <1>1. IsFiniteSet(In) /\ nb_active = Cardinality(In)
    BY GcAssumption, FS_Subset DEF Counted
  <1>2. CASE nb_active' = nb_active /\ In' = In
    BY <1>1, <1>2, FS_CardinalityType DEF Counted
  <1>3. ASSUME NEW t \in Tx, InitThread(t)
        PROVE  nb_active' \in Nat /\ Counted'
    <2>1. In' = In \cup {t} /\ t \notin In /\ nb_active' = nb_active + 1
      BY <1>3 DEF InitThread, TypeInv
    <2>2. IsFiniteSet(In') /\ Cardinality(In') = Cardinality(In) + 1
      BY <1>1, <2>1, FS_AddElement
    <2> QED
      BY <1>1, <2>1, <2>2, FS_CardinalityType DEF Counted
  <1>4. ASSUME NEW t \in Tx, ExitNb(t)
        PROVE  nb_active' \in Nat /\ Counted'
    <2>1. In' = In \ {t} /\ t \in In /\ nb_active' = nb_active - 1
      BY <1>4 DEF ExitNb, TypeInv
    <2>2. IsFiniteSet(In') /\ Cardinality(In') = Cardinality(In) - 1
      BY <1>1, <2>1, FS_RemoveElement
    <2> QED
      BY <1>1, <2>1, <2>2, FS_CardinalityType DEF Counted
  <1>5. CASE UNCHANGED vars
    BY <1>2, <1>5 DEF vars
  <1>6. CASE Rollover
    <2>1. \A u \in threads : pc[u] # "out"
      BY <1>6 DEF Rollover
    <2>2. In' = In
      BY <1>6, <2>1 DEF Rollover, TypeInv
    <2> QED
      BY <1>2, <1>6, <2>2 DEF Rollover
  <1>7. CASE gc_exit
    BY <1>2, <1>7 DEF gc_exit
  <1>8. ASSUME NEW t \in Tx, NEW l \in GcLabel \ {"out"}, pc[t] # "out",
               pc' = [pc EXCEPT ![t] = l] \/ pc' = pc, nb_active' = nb_active
        PROVE  nb_active' \in Nat /\ Counted'
    <2>1. In' = In
      BY <1>8 DEF TypeInv
    <2> QED
      BY <1>2, <1>8, <2>1
  <1>9. ASSUME NEW t \in Tx,
               \/ FindSlot(t) \/ TakeSlot(t) \/ ReadEpoch(t) \/ SetBound(t)
               \/ EnterThread(t) \/ Start(t) \/ Prepare(t) \/ gc_set_epoch(t)
        PROVE  nb_active' \in Nat /\ Counted'
    <2>1. pc[t] # "out" /\ nb_active' = nb_active
      BY <1>9 DEF FindSlot, TakeSlot, ReadEpoch, SetBound, EnterThread, Start, Prepare, gc_set_epoch
    <2>2. pc' = pc \/ \E l \in GcLabel \ {"out"} : pc' = [pc EXCEPT ![t] = l]
      BY <1>9 DEF FindSlot, TakeSlot, ReadEpoch, SetBound, EnterThread, Start, Prepare, gc_set_epoch, GcLabel
    <2> QED
      BY <1>8, <2>1, <2>2 DEF GcLabel
  <1>10. ASSUME NEW t \in Tx,
               \/ Malloc(t) \/ FreeBlock(t) \/ Commit(t) \/ OnCommit(t) \/ OnCommitEnd(t) \/ OnAbort(t)
        PROVE  nb_active' \in Nat /\ Counted'
    <2>1. pc[t] # "out" /\ nb_active' = nb_active
      BY <1>10 DEF Malloc, FreeBlock, Commit, OnCommit, OnCommitEnd, OnAbort
    <2>2. pc' = pc \/ \E l \in GcLabel \ {"out"} : pc' = [pc EXCEPT ![t] = l]
      BY <1>10 DEF Malloc, FreeBlock, Commit, OnCommit, OnCommitEnd, OnAbort, GcLabel, InGc
    <2> QED
      BY <1>8, <2>1, <2>2 DEF GcLabel
  <1>11. ASSUME NEW t \in Tx,
               \/ gc_free(t) \/ gc_cleanup(t) \/ ScanUsed(t) \/ ScanTs(t) \/ gc_cleanup_all(t)
               \/ gc_cleanup_thread(t)
        PROVE  nb_active' \in Nat /\ Counted'
    <2>0. loc[t].then \in GcLabel \ {"out"}
      BY DEF TypeInv, Locals, GcLabel
    <2>1. pc[t] # "out" /\ nb_active' = nb_active
      BY <1>11, ZenonT(60) DEF gc_free, gc_cleanup, ScanUsed, ScanTs, gc_cleanup_all, gc_cleanup_thread
    <2>2. pc' = pc \/ \E l \in GcLabel \ {"out"} : pc' = [pc EXCEPT ![t] = l]
      BY <1>11, <2>0, Zenon DEF gc_free, gc_cleanup, ScanUsed, ScanTs, gc_cleanup_all, gc_cleanup_thread,
                         GcLabel, InGc
    <2> QED
      BY <1>8, <2>1, <2>2 DEF GcLabel
  <1>12. ASSUME NEW t \in Tx, \/ ExitThread(t) \/ ExitFree(t) \/ ExitTs(t) \/ ExitUsed(t)
        PROVE  nb_active' \in Nat /\ Counted'
    <2>1. pc[t] # "out" /\ nb_active' = nb_active
      BY <1>12 DEF ExitThread, ExitFree, ExitTs, ExitUsed
    <2>2. \E l \in GcLabel \ {"out"} : pc' = [pc EXCEPT ![t] = l]
      BY <1>12 DEF ExitThread, ExitFree, ExitTs, ExitUsed, GcLabel, InGc
    <2> QED
      BY <1>8, <2>1, <2>2 DEF GcLabel
  <1> QED
    BY <1>3, <1>4, <1>5, <1>6, <1>7, <1>9, <1>10, <1>11, <1>12 DEF Next

\* A thread does not move others.
LEMMA Others ==
  ASSUME TypeInv, NEW t \in Tx, Step(t), NEW u \in Tx \ {t}
  PROVE  pc'[u] = pc[u] /\ loc'[u] = loc[u] /\ icb'[u] = icb[u]
  <1> USE DEF Goto, heap, rest
  <1>0. /\ pc \in [Tx -> GcLabel] /\ loc \in [Tx -> Locals]
        /\ icb \in [Tx -> [commit : Seq(Block), abort : Seq(Block)]]
    BY DEF TypeInv
  <1>1. CASE Joins(t)
    BY <1>0, <1>1 DEF Joins, InitThread, FindSlot, TakeSlot, ReadEpoch, SetBound, EnterThread
  <1>2. CASE Start(t) \/ Prepare(t) \/ gc_set_epoch(t) \/ Malloc(t) \/ FreeBlock(t)
    BY <1>0, <1>2 DEF Start, Prepare, gc_set_epoch, Malloc, FreeBlock, mod_cb_add_on_abort,
                      mod_cb_add_on_commit
  <1>3. CASE Commit(t) \/ OnCommit(t) \/ OnCommitEnd(t) \/ OnAbort(t)
    BY <1>0, <1>3 DEF Commit, OnCommit, OnCommitEnd, OnAbort
  <1>4. CASE Reclaims(t)
    BY <1>0, <1>4, ZenonT(60) DEF Reclaims, gc_free, gc_cleanup, ScanUsed, ScanTs, gc_cleanup_thread,
                      gc_cleanup_all
  <1>5. CASE Leaves(t)
    BY <1>0, <1>5 DEF Leaves, ExitThread, ExitFree, ExitTs, ExitUsed, ExitNb
  <1> QED
    BY <1>1, <1>2, <1>3, <1>4, <1>5 DEF Step, Transacts

\* Types, count and labels of other threads.
LEMMA TypeStep ==
  ASSUME SlotInv, [Next]_vars
  PROVE  TypeInv' /\ Counted'
  <1>1. nb_active' \in Nat /\ Counted'
    BY CountStep DEF SlotInv
  <1>2. ASSUME NEW t \in Tx, Step(t)
        PROVE  TypeInv'
    <2>1. TypeInv /\ Searches(t)
      BY DEF SlotInv
    <2> QED
      BY <1>1, <1>2, <2>1, JoinTypes, RunTypes, FreeTypes, ExitTypes DEF Step
  <1>3. CASE UNCHANGED vars
    <2>1. TypeInv
      BY DEF SlotInv
    <2> QED
      BY <1>1, <1>3, <2>1 DEF vars, TypeInv
  <1>4. Next => (\E t \in Tx : Step(t)) \/ Rollover \/ gc_exit
    BY DEF Next, Step, Joins, Transacts, Reclaims, Leaves
  <1> QED
    BY <1>1, <1>2, <1>3, <1>4, ResetTypes DEF SlotInv

\* The slots up to one.
LEMMA SlotRange ==
  /\ \A i \in Slot : 0 .. i \subseteq Slot /\ 0 .. i - 1 \subseteq Slot
  /\ \A i \in Slot : \A j \in 0 .. i : j = i \/ (j # i /\ j \in 0 .. i - 1)
  BY GcAssumption DEF Slot

\* Slots keep their owners if none but the thread's own is given back.
LEMMA OwnersKept ==
  ASSUME SlotInv, TypeInv', NEW t \in Tx,
         \A u \in Tx \ {t} : pc'[u] = pc[u] /\ loc'[u] = loc[u],
         \A i \in Slot : /\ slots[i].used # "NULL" => slots'[i].used # "NULL"
                         /\ slots[i].used = "BUSY" /\ slots'[i].used # "BUSY"
                               => ~HasSlot(t)' /\ HasSlot(t) /\ i = loc[t].idx,
         HasSlot(t)' => HasSlot(t) /\ loc'[t].idx = loc[t].idx
  PROVE  SlotOwner' /\ \A u \in Tx \ {t} : Searches(u)'
  <1>0. \A u \in Tx : /\ loc[u].idx \in Slot /\ 0 .. loc[u].idx \subseteq Slot
                      /\ loc[u].i \in Slot => 0 .. loc[u].i - 1 \subseteq Slot
    BY SlotRange DEF SlotInv, TypeInv, Locals
  <1>1. ASSUME NEW u \in Tx, HasSlot(u)'
        PROVE  HasSlot(u) /\ loc'[u].idx = loc[u].idx
    BY <1>1 DEF HasSlot
  <1>2. ASSUME NEW u \in Tx, HasSlot(u)'
        PROVE  /\ \A i \in 0 .. loc'[u].idx : slots'[i].used # "NULL"
               /\ slots'[loc'[u].idx].used = "BUSY"
               /\ \A v \in Tx \ {u} : HasSlot(v)' => loc'[v].idx # loc'[u].idx
    <2>1. HasSlot(u) /\ loc'[u].idx = loc[u].idx
      BY <1>1, <1>2
    <2>2. \A i \in 0 .. loc'[u].idx : slots'[i].used # "NULL"
      BY <1>0, <2>1 DEF SlotInv, SlotOwner
    <2>3. slots'[loc'[u].idx].used = "BUSY"
      BY <1>0, <1>2, <2>1 DEF SlotInv, SlotOwner
    <2>4. \A v \in Tx \ {u} : HasSlot(v)' => loc'[v].idx # loc'[u].idx
      BY <1>1, <2>1 DEF SlotInv, SlotOwner
    <2> QED
      BY <2>2, <2>3, <2>4
  <1>3. ASSUME NEW u \in Tx \ {t}
        PROVE  Searches(u)'
    BY <1>0, <1>3 DEF SlotInv, Searches
  <1> QED
    BY <1>2, <1>3 DEF SlotOwner

\* A thread that comes finds a slot.
LEMMA JoinSlot ==
  ASSUME SlotInv, TypeInv', NEW t \in Tx, Joins(t)
  PROVE  SlotOwner' /\ \A u \in Tx : Searches(u)'
  <1> USE DEF Goto, heap, rest
  <1>0. /\ pc \in [Tx -> GcLabel] /\ loc \in [Tx -> Locals] /\ loc[t] \in Locals
        /\ slots \in [Slot -> SlotType] /\ loc[t].idx \in Slot
        /\ \A u \in Tx \ {t} : pc'[u] = pc[u] /\ loc'[u] = loc[u]
        /\ Searches(t)
    BY Others DEF SlotInv, TypeInv, Locals, Step
  <1>1. CASE InitThread(t)
    <2>1. /\ slots' = slots /\ pc'[t] = "slot" /\ loc'[t].i = 0
      BY <1>0, <1>1 DEF InitThread, Locals
    <2>2. Searches(t)'
      BY <2>1, SlotTypes DEF Searches
    <2> QED
      BY <1>0, <2>1, <2>2, OwnersKept DEF HasSlot
  <1>2. CASE FindSlot(t)
    <2>0. slots' = slots /\ pc[t] = "slot" /\ loc[t].i \in Slot
      BY <1>0, <1>2 DEF FindSlot, Searches
    <2>1. pc'[t] \in {"slot", "slot_cas"}
      BY <1>0, <1>2 DEF FindSlot
    <2>2. ASSUME slots[loc[t].i].used = "BUSY"
          PROVE  Searches(t)'
      <3>1. pc'[t] = "slot" /\ loc'[t].i = (loc[t].i + 1) % MAX_GC_THREADS
        BY <1>0, <1>2, <2>2 DEF FindSlot, Locals
      <3>2. \/ loc'[t].i = 0
            \/ loc'[t].i = loc[t].i + 1 /\ \A i \in 0 .. loc[t].i : slots[i].used # "NULL"
        <4>1. \A i \in 0 .. loc[t].i - 1 : slots[i].used # "NULL"
          BY <1>0, <2>0 DEF Searches
        <4>2. \A i \in 0 .. loc[t].i : i \in 0 .. loc[t].i - 1 \/ i = loc[t].i
          BY <2>0 DEF Slot
        <4> QED
          BY <2>0, <2>2, <3>1, <4>1, <4>2, NextSlot
      <3> QED
        <4>1. loc'[t].i \in Slot
          BY <2>0, <3>1, NextSlot
        <4>2. \A i \in 0 .. loc'[t].i - 1 : slots[i].used # "NULL"
          <5>1. CASE loc'[t].i = 0
            BY <5>1
          <5>2. CASE loc'[t].i = loc[t].i + 1 /\ \A i \in 0 .. loc[t].i : slots[i].used # "NULL"
            <6>1. loc'[t].i - 1 = loc[t].i
              <7>1. loc[t].i \in Int
                BY <2>0 DEF Slot
              <7> QED
                BY <5>2, <7>1
            <6> QED
              BY <5>2, <6>1
          <5> QED
            BY <3>2, <5>1, <5>2
        <4> QED
          BY <2>0, <3>1, <4>1, <4>2 DEF Searches
    <2>3. ASSUME slots[loc[t].i].used # "BUSY"
          PROVE  Searches(t)'
      <3>1. pc'[t] = "slot_cas" /\ loc'[t].i = loc[t].i /\ loc'[t].used = slots[loc[t].i].used
        BY <1>0, <1>2, <2>3 DEF FindSlot, Locals
      <3> QED
        <4>1. \A i \in 0 .. loc[t].i - 1 : slots[i].used # "NULL"
          BY <1>0, <2>0 DEF Searches
        <4> QED
          BY <2>0, <2>3, <3>1, <4>1 DEF Searches
    <2>4. Searches(t)'
      BY <2>2, <2>3
    <2> QED
      BY <1>0, <2>0, <2>1, <2>4, OwnersKept DEF HasSlot
  <1>3. CASE TakeSlot(t) /\ slots[loc[t].i].used # loc[t].used
    <2>1. /\ slots' = slots /\ pc[t] = "slot_cas" /\ pc'[t] = "slot"
          /\ loc'[t].i = (loc[t].i + 1) % MAX_GC_THREADS
      BY <1>0, <1>3 DEF TakeSlot, Locals
    <2>2. /\ loc[t].i \in Slot /\ slots[loc[t].i].used # "NULL"
          /\ \A i \in 0 .. loc[t].i - 1 : slots[i].used # "NULL"
      BY <1>0, <1>3, <2>1 DEF Searches
    <2>3. \A i \in 0 .. loc[t].i : i \in 0 .. loc[t].i - 1 \/ i = loc[t].i
      BY <2>2 DEF Slot
    <2>4. Searches(t)'
      BY <2>1, <2>2, <2>3, NextSlot DEF Searches, Slot
    <2> QED
      BY <1>0, <2>1, <2>4, OwnersKept DEF HasSlot
  <1>4. CASE TakeSlot(t) /\ slots[loc[t].i].used = loc[t].used
    <2> DEFINE i == loc[t].i
    <2>1. /\ pc[t] = "slot_cas" /\ pc'[t] = "epoch" /\ loc'[t].idx = i
          /\ slots' = [slots EXCEPT ![i].used = "BUSY"]
      BY <1>0, <1>4 DEF TakeSlot, Locals
    <2>2. /\ i \in Slot /\ slots[i].used # "BUSY"
          /\ \A j \in 0 .. i - 1 : slots[j].used # "NULL"
      BY <1>0, <1>4, <2>1 DEF Searches
    <2>3. \A j \in Slot : slots'[j].used = IF j = i THEN "BUSY" ELSE slots[j].used
      BY <1>0, <2>1 DEF SlotType
    <2>4. \A u \in Tx : /\ loc[u].idx \in Slot /\ 0 .. loc[u].idx \subseteq Slot
                        /\ loc[u].i \in Slot => 0 .. loc[u].i - 1 \subseteq Slot
      BY SlotRange DEF SlotInv, TypeInv, Locals
    <2>5. \A u \in Tx \ {t} : HasSlot(u)' => HasSlot(u) /\ loc'[u].idx = loc[u].idx /\ loc[u].idx # i
      BY <1>0, <2>2 DEF HasSlot, SlotInv, SlotOwner
    <2>6. \A j \in 0 .. i : slots'[j].used # "NULL"
      BY <2>2, <2>3, SlotRange
    <2>7. ASSUME NEW u \in Tx \ {t}, HasSlot(u)'
          PROVE  /\ \A j \in 0 .. loc'[u].idx : slots'[j].used # "NULL"
                 /\ slots'[loc'[u].idx].used = "BUSY"
                 /\ \A v \in Tx \ {u} : HasSlot(v)' => loc'[v].idx # loc'[u].idx
      <3>1. \A j \in 0 .. loc'[u].idx : slots'[j].used # "NULL"
        BY <2>3, <2>4, <2>5, <2>7 DEF SlotInv, SlotOwner
      <3>2. slots'[loc'[u].idx].used = "BUSY"
        BY <2>3, <2>4, <2>5, <2>7 DEF SlotInv, SlotOwner
      <3>3. \A v \in Tx \ {u} : HasSlot(v)' => loc'[v].idx # loc'[u].idx
        BY <2>1, <2>5, <2>7 DEF SlotInv, SlotOwner
      <3> QED
        BY <3>1, <3>2, <3>3
    <2>8. \A u \in Tx \ {t} : HasSlot(u)' => loc'[u].idx # loc'[t].idx
      BY <2>1, <2>5
    <2>9. SlotOwner'
      BY <2>1, <2>2, <2>3, <2>6, <2>7, <2>8 DEF SlotOwner
    <2>10. ASSUME NEW u \in Tx \ {t}
           PROVE  Searches(u)'
      BY <1>0, <2>3, <2>4 DEF SlotInv, Searches
    <2>11. Searches(t)'
      BY <2>1 DEF Searches
    <2> QED
      BY <2>9, <2>10, <2>11
  <1>5. CASE ReadEpoch(t) \/ SetBound(t) \/ EnterThread(t)
    <2>1. pc[t] \in {"epoch", "bound", "enter"} /\ pc'[t] \in {"bound", "enter", "idle"}
      BY <1>0, <1>5 DEF ReadEpoch, SetBound, EnterThread
    <2>2. loc'[t].idx = loc[t].idx
      BY <1>0, <1>5, KeptType DEF ReadEpoch, SetBound, EnterThread, Locals, SlotInv
    <2>3. \A i \in Slot : slots'[i].used = slots[i].used
      <3>1. \/ slots' = slots
            \/ slots' = [slots EXCEPT ![loc[t].idx].ts = loc[t].start]
        BY <1>5 DEF ReadEpoch, SetBound, EnterThread
      <3>2. Differs([slots EXCEPT ![loc[t].idx].ts = loc[t].start], loc[t].idx,
                    slots[loc[t].idx].used, loc[t].start, slots[loc[t].idx].regions)
        BY <1>0, SlotEdits DEF SlotInv
      <3> QED
        BY <1>0, <3>1, <3>2 DEF Differs
    <2>4. Searches(t)'
      BY <2>1 DEF Searches
    <2>5. HasSlot(t)
      BY <2>1 DEF HasSlot
    <2> QED
      BY <1>0, <2>2, <2>3, <2>4, <2>5, OwnersKept
  <1> QED
    BY <1>1, <1>2, <1>3, <1>4, <1>5 DEF Joins

\* Transactions keep the slot ...
LEMMA TransactSlot ==
  ASSUME SlotInv, TypeInv', NEW t \in Tx, Transacts(t)
  PROVE  SlotOwner' /\ \A u \in Tx : Searches(u)'
  <1> USE DEF Goto, heap, rest
  <1>0. /\ pc \in [Tx -> GcLabel] /\ loc \in [Tx -> Locals] /\ loc[t] \in Locals
        /\ loc[t].idx \in Slot /\ TypeInv
        /\ \A u \in Tx \ {t} : pc'[u] = pc[u] /\ loc'[u] = loc[u]
    BY Others DEF SlotInv, TypeInv, Locals, Step
  <1>1. pc[t] \in {"idle", "prepare", "set_epoch", "active", "callback"}
    BY <1>0 DEF Transacts, Start, Prepare, gc_set_epoch, Malloc, FreeBlock, Commit, OnCommit,
                OnCommitEnd, OnAbort
  <1>2. pc'[t] \in {"prepare", "barrier", "set_epoch", "active", "callback", "idle", "gc_free"}
    <2>1. CASE Start(t) \/ Prepare(t) \/ gc_set_epoch(t) \/ Commit(t) \/ OnCommit(t) \/ OnCommitEnd(t)
      BY <1>0, <2>1 DEF Start, Prepare, gc_set_epoch, Commit, OnCommit, OnCommitEnd
    <2>2. CASE Malloc(t) \/ FreeBlock(t)
      BY <1>1, <2>2 DEF Malloc, FreeBlock
    <2>3. CASE OnAbort(t)
      BY <1>0, <2>3 DEF OnAbort
    <2> QED
      BY <2>1, <2>2, <2>3 DEF Transacts
  <1>3. loc'[t].idx = loc[t].idx
    <2>1. CASE Start(t) \/ Prepare(t) \/ gc_set_epoch(t) \/ Malloc(t) \/ FreeBlock(t)
      BY <1>0, <2>1 DEF Start, Prepare, gc_set_epoch, Malloc, FreeBlock, Locals
    <2>2. CASE Commit(t) \/ OnCommit(t) \/ OnCommitEnd(t) \/ OnAbort(t)
      BY <1>0, <2>2, KeptType DEF Commit, OnCommit, OnCommitEnd, OnAbort, Locals
    <2> QED
      BY <2>1, <2>2 DEF Transacts
  <1>4. \A i \in Slot : slots'[i].used = slots[i].used
    <2>1. \/ slots' = slots
          \/ slots' = [slots EXCEPT ![loc[t].idx].ts = loc[t].start]
      BY DEF Transacts, Start, Prepare, gc_set_epoch, Malloc, FreeBlock, Commit, OnCommit,
             OnCommitEnd, OnAbort
    <2>2. Differs([slots EXCEPT ![loc[t].idx].ts = loc[t].start], loc[t].idx,
                  slots[loc[t].idx].used, loc[t].start, slots[loc[t].idx].regions)
      BY <1>0, SlotEdits
    <2> QED
      BY <1>0, <2>1, <2>2 DEF Differs
  <1>5. Searches(t)'
    BY <1>2 DEF Searches
  <1>6. HasSlot(t)
    BY <1>1 DEF HasSlot
  <1> QED
    BY <1>0, <1>3, <1>4, <1>5, <1>6, OwnersKept

\* ... and so do the calls to the garbage collector.
LEMMA ReclaimSlot ==
  ASSUME SlotInv, TypeInv', NEW t \in Tx, Reclaims(t)
  PROVE  SlotOwner' /\ \A u \in Tx : Searches(u)'
  <1> USE DEF Goto, heap, rest
  <1>0. /\ pc \in [Tx -> GcLabel] /\ loc \in [Tx -> Locals] /\ loc[t] \in Locals
        /\ loc[t].idx \in Slot /\ loc[t].of \in Slot /\ TypeInv
        /\ loc[t].then \in {"idle", "callback", "exit_ts"}
        /\ \A u \in Tx \ {t} : pc'[u] = pc[u] /\ loc'[u] = loc[u]
    BY Others DEF SlotInv, TypeInv, Locals, Step
  <1>1. pc[t] \in InGc \cup {"idle"}
    BY <1>0, Zenon DEF Reclaims, gc_free, gc_cleanup, ScanUsed, ScanTs, gc_cleanup_thread,
                gc_cleanup_all, InGc
  <1>2. pc'[t] \in InGc \cup {"idle", "callback", "exit_ts"}
    <2>1. CASE ScanUsed(t)
      <3>1. \/ pc' = pc \/ pc' = [pc EXCEPT ![t] = "scan_ts"]
            \/ pc' = [pc EXCEPT ![t] = "reclaim"]
        BY <2>1 DEF ScanUsed
      <3> QED
        BY <1>0, <1>1, <3>1 DEF InGc
    <2>2. CASE gc_free(t) \/ gc_cleanup(t) \/ ScanTs(t) \/ gc_cleanup_thread(t) \/ gc_cleanup_all(t)
      BY <1>0, <2>2, Zenon DEF gc_free, gc_cleanup, ScanTs, gc_cleanup_thread, gc_cleanup_all, InGc
    <2> QED
      BY <2>1, <2>2 DEF Reclaims
  <1>3. loc'[t].idx = loc[t].idx
    <2>1. CASE gc_free(t) \/ gc_cleanup(t) \/ ScanUsed(t) \/ ScanTs(t)
      <3>1. CASE gc_free(t)
        BY <3>1, Zenon DEF gc_free
      <3>2. CASE gc_cleanup(t)
        BY <1>0, <3>2 DEF gc_cleanup, Locals
      <3>3. CASE ScanUsed(t)
        BY <1>0, <3>3 DEF ScanUsed, Locals
      <3>4. CASE ScanTs(t)
        BY <1>0, <3>4 DEF ScanTs, Locals
      <3> QED
        BY <2>1, <3>1, <3>2, <3>3, <3>4
    <2>2. CASE gc_cleanup_thread(t) \/ gc_cleanup_all(t)
      <3>1. Kept(t).idx = loc[t].idx
        BY <1>0, KeptType
      <3>2. CASE gc_cleanup_thread(t)
        BY <1>0, <3>1, <3>2 DEF gc_cleanup_thread
      <3>3. CASE gc_cleanup_all(t)
        BY <1>0, <3>3 DEF gc_cleanup_all, Locals
      <3> QED
        BY <2>2, <3>2, <3>3
    <2> QED
      BY <2>1, <2>2 DEF Reclaims
  <1>4. \A i \in Slot : slots'[i].used # slots[i].used =>
           slots[i].used = "FREE_FULL" /\ slots'[i].used = "BUSY"
    <2>1. CASE gc_free(t) \/ gc_cleanup_thread(t)
      <3>1. PICK i \in Slot : \E r : slots' = [slots EXCEPT ![i].regions = r]
        BY <1>0, <2>1, ZenonT(60) DEF gc_free, gc_cleanup_thread
      <3>2. PICK r : slots' = [slots EXCEPT ![i].regions = r]
        BY <3>1
      <3>3. Differs(slots', i, slots[i].used, slots[i].ts, r)
        BY <1>0, <3>2, SlotEdits
      <3> QED
        BY <3>3 DEF Differs
    <2>2. CASE gc_cleanup_all(t)
      <3>1. PICK i \in Slot : /\ slots[i].used = "FREE_FULL"
                              /\ slots' = [slots EXCEPT ![i].used = "BUSY"]
        BY <2>2 DEF gc_cleanup_all
      <3>2. Differs(slots', i, "BUSY", slots[i].ts, slots[i].regions)
        BY <1>0, <3>1, SlotEdits
      <3> QED
        BY <3>1, <3>2 DEF Differs
    <2>3. CASE gc_cleanup(t) \/ ScanUsed(t) \/ ScanTs(t)
      BY <2>3 DEF gc_cleanup, ScanUsed, ScanTs
    <2> QED
      BY <2>1, <2>2, <2>3 DEF Reclaims
  <1>5. Searches(t)'
    <2>1. pc'[t] = "scan_ts" => loc'[t].i \in Slot
      <3>1. SUFFICES ASSUME pc'[t] = "scan_ts"
                     PROVE  loc'[t].i \in Slot
        OBVIOUS
      <3>2. ScanUsed(t)
        BY <1>0, <3>1, Zenon DEF Reclaims, gc_free, gc_cleanup, ScanTs, gc_cleanup_thread, gc_cleanup_all
      <3> QED
        BY <1>0, <3>1, <3>2 DEF ScanUsed
    <2> QED
      BY <1>2, <2>1 DEF Searches, InGc
  <1>6. HasSlot(t)
    BY <1>1 DEF HasSlot, InGc
  <1> QED
    BY <1>0, <1>3, <1>4, <1>5, <1>6, OwnersKept

\* A thread that leaves gives its own slot back.
LEMMA LeaveSlot ==
  ASSUME SlotInv, TypeInv', NEW t \in Tx, Leaves(t)
  PROVE  SlotOwner' /\ \A u \in Tx : Searches(u)'
  <1> USE DEF Goto, heap, rest
  <1>0. /\ pc \in [Tx -> GcLabel] /\ loc \in [Tx -> Locals] /\ loc[t] \in Locals
        /\ loc[t].idx \in Slot /\ TypeInv
        /\ \A u \in Tx \ {t} : pc'[u] = pc[u] /\ loc'[u] = loc[u]
    BY Others DEF SlotInv, TypeInv, Locals, Step
  <1>1. pc'[t] \in {"exit", "gc_free", "exit_used", "exit_nb", "out"}
    BY <1>0 DEF Leaves, ExitThread, ExitFree, ExitTs, ExitUsed, ExitNb
  <1>2. Searches(t)'
    BY <1>1 DEF Searches
  <1>3. CASE ExitThread(t) \/ ExitFree(t) \/ ExitTs(t)
    <2>1. HasSlot(t)
      BY <1>3 DEF ExitThread, ExitFree, ExitTs, HasSlot
    <2>2. loc'[t].idx = loc[t].idx
      BY <1>0, <1>3 DEF ExitThread, ExitFree, ExitTs, Locals
    <2>3. \A i \in Slot : slots'[i].used = slots[i].used
      <3>1. slots' = slots \/ slots' = [slots EXCEPT ![loc[t].idx].ts = EPOCH_MAX]
        BY <1>3 DEF ExitThread, ExitFree, ExitTs
      <3>2. Differs([slots EXCEPT ![loc[t].idx].ts = EPOCH_MAX], loc[t].idx,
                    slots[loc[t].idx].used, EPOCH_MAX, slots[loc[t].idx].regions)
        BY <1>0, SlotEdits
      <3> QED
        BY <1>0, <3>1, <3>2 DEF Differs
    <2> QED
      BY <1>0, <1>2, <2>1, <2>2, <2>3, OwnersKept
  <1>4. CASE ExitUsed(t)
    <2>1. PICK u \in {"FREE_EMPTY", "FREE_FULL"} : slots' = [slots EXCEPT ![loc[t].idx].used = u]
      BY <1>4 DEF ExitUsed, Free
    <2>2. Differs(slots', loc[t].idx, u, slots[loc[t].idx].ts, slots[loc[t].idx].regions)
      BY <1>0, <2>1, SlotEdits
    <2>3. HasSlot(t) /\ ~HasSlot(t)'
      BY <1>0, <1>4 DEF ExitUsed, HasSlot
    <2>4. \A i \in Slot : /\ slots[i].used # "NULL" => slots'[i].used # "NULL"
                          /\ slots[i].used = "BUSY" /\ slots'[i].used # "BUSY" => i = loc[t].idx
      BY <2>2 DEF Differs
    <2> QED
      BY <1>0, <1>2, <2>3, <2>4, OwnersKept
  <1>5. CASE ExitNb(t)
    <2>1. slots' = slots /\ ~HasSlot(t)'
      BY <1>0, <1>5 DEF ExitNb, HasSlot
    <2> QED
      BY <1>0, <1>2, <2>1, OwnersKept
  <1> QED
    BY <1>3, <1>4, <1>5 DEF Leaves

\* The reset keeps the slots; nobody has one when the process ends.
LEMMA ResetSlot ==
  ASSUME SlotInv, TypeInv', Rollover \/ gc_exit
  PROVE  SlotOwner' /\ \A u \in Tx : Searches(u)'
  <1> USE DEF Goto, heap, rest
  <1>0. TypeInv /\ pc \in [Tx -> GcLabel] /\ \A u \in Tx : loc[u] \in Locals
    BY DEF SlotInv, TypeInv
  <1>1. CASE Rollover
    <2>1. \A i \in Slot : slots'[i].used = slots[i].used
      <3>1. \A i \in Slot : slots[i] \in SlotType
        BY <1>0 DEF TypeInv
      <3> QED
        BY <1>1, <3>1 DEF Rollover, SlotType
    <2>2. \A u \in Tx : /\ loc'[u] = loc[u]
                        /\ pc'[u] = pc[u] \/ (pc[u] = "barrier" /\ pc'[u] = "prepare")
      BY <1>0, <1>1 DEF Rollover
    <2>3. ASSUME NEW u \in Tx
          PROVE  /\ HasSlot(u)' <=> HasSlot(u)
                 /\ pc'[u] \in {"slot", "slot_cas", "scan_ts"} => pc'[u] = pc[u]
      BY <2>2 DEF HasSlot
    <2>4. \A u \in Tx : /\ loc[u].idx \in Slot /\ 0 .. loc[u].idx \subseteq Slot
                        /\ loc[u].i \in Slot => 0 .. loc[u].i - 1 \subseteq Slot
      BY <1>0, SlotRange DEF Locals
    <2>5. ASSUME NEW u \in Tx, HasSlot(u)'
          PROVE  /\ \A j \in 0 .. loc'[u].idx : slots'[j].used # "NULL"
                 /\ slots'[loc'[u].idx].used = "BUSY"
                 /\ \A v \in Tx \ {u} : HasSlot(v)' => loc'[v].idx # loc'[u].idx
      BY <2>1, <2>2, <2>3, <2>4, <2>5 DEF SlotInv, SlotOwner
    <2>6. ASSUME NEW u \in Tx
          PROVE  Searches(u)'
      BY <2>1, <2>2, <2>3, <2>4 DEF SlotInv, Searches
    <2> QED
      BY <2>5, <2>6 DEF SlotOwner
  <1>2. CASE gc_exit
    <2>1. {u \in Tx : pc[u] # "out"} = {}
      <3>1. IsFiniteSet({u \in Tx : pc[u] # "out"})
        BY GcAssumption, FS_Subset
      <3>2. Cardinality({u \in Tx : pc[u] # "out"}) = 0
        BY <1>2 DEF gc_exit, SlotInv, Counted
      <3> QED
        BY <3>1, <3>2, FS_EmptySet
    <2>2. \A u \in Tx : pc'[u] = "out"
      BY <1>2, <2>1 DEF gc_exit
    <2> QED
      BY <2>2 DEF SlotOwner, HasSlot, Searches
  <1> QED
    BY <1>1, <1>2

\* The slots' invariant.
LEMMA SlotInit == Init => SlotInv
  <1> SUFFICES ASSUME Init
               PROVE  SlotInv
    OBVIOUS
  <1>1. TypeInv
    <2>1. slots \in [Slot -> SlotType]
      BY SlotTypes, GcAssumption DEF Init, NoSlots, SlotType, Used, EPOCH_MAX
    <2>2. loc \in [Tx -> Locals]
      BY SlotTypes DEF Init
    <2>3. features \subseteq Feature
      BY GcAssumption DEF Init
    <2>4. pc \in [Tx -> GcLabel] /\ icb \in [Tx -> [commit : Seq(Block), abort : Seq(Block)]]
      BY DEF Init, GcLabel, NoCallbacks
    <2> QED
      BY <2>1, <2>2, <2>3, <2>4, GcAssumption DEF Init, TypeInv
  <1>2. {t \in Tx : pc[t] # "out"} = {}
    BY DEF Init
  <1>3. Counted
    BY <1>2, FS_EmptySet DEF Init, Counted
  <1>4. SlotOwner /\ \A t \in Tx : Searches(t)
    BY DEF Init, SlotOwner, HasSlot, Searches
  <1> QED
    BY <1>1, <1>3, <1>4 DEF SlotInv

LEMMA SlotStep == SlotInv /\ [Next]_vars => SlotInv'
  <1> SUFFICES ASSUME SlotInv, [Next]_vars
               PROVE  SlotInv'
    OBVIOUS
  <1>1. TypeInv' /\ Counted'
    BY TypeStep
  <1>2. CASE UNCHANGED vars
    <2>1. SlotOwner' <=> SlotOwner
      BY <1>2 DEF vars, SlotOwner, HasSlot
    <2>2. \A t \in Tx : Searches(t)' <=> Searches(t)
      BY <1>2 DEF vars, Searches
    <2> QED
      BY <1>1, <2>1, <2>2 DEF SlotInv
  <1>3. ASSUME NEW t \in Tx, Step(t)
        PROVE  SlotOwner' /\ \A u \in Tx : Searches(u)'
    BY <1>1, <1>3, JoinSlot, TransactSlot, ReclaimSlot, LeaveSlot DEF Step
  <1>4. Next => (\E t \in Tx : Step(t)) \/ Rollover \/ gc_exit
    BY DEF Next, Step, Joins, Transacts, Reclaims, Leaves
  <1> QED
    BY <1>1, <1>2, <1>3, <1>4, ResetSlot DEF SlotInv

\* gc_init_thread, gc_exit_thread and gc_cleanup_all: a slot has one owner, who finds it
\* busy, and gc_compute_min sees the slots of all threads.
THEOREM OwnSlots == Spec => []SlotOwner
  <1>1. SlotInv => SlotOwner
    BY DEF SlotInv
  <1> QED
    BY <1>1, SlotInit, SlotStep, PTL DEF Spec

-----------------------------------------------------------------------------
(* Chunks *)

\* Where a chunk is found, there it is and nowhere else.
LEMMA Found ==
  ASSUME NEW c, Single(c)
  PROVE  /\ c \notin allocated => Nowhere(c)
         /\ c \in InUse => UsedOnly(c)
         /\ \A t \in Tx : Listing(c, t) => ListedOnly(c, t)
         /\ \A t \in Tx : Calling(c, t) => CalledOnly(c, t)
         /\ \A i \in Slot : \A r \in Nat : Keeping(c, i, r) => KeptOnly(c, i, r)
  <1> USE DEF NotListed, NotCalled, NotKept
  <1>1. CASE Nowhere(c)
    BY <1>1 DEF Nowhere
  <1>2. CASE UsedOnly(c)
    BY <1>2 DEF UsedOnly
  <1>3. ASSUME NEW t \in Tx, ListedOnly(c, t)
        PROVE  /\ c \in allocated /\ c \notin InUse
               /\ \A u \in Tx : (Listing(c, u) => u = t) /\ ~Calling(c, u)
               /\ \A i \in Slot : \A r \in Nat : ~Keeping(c, i, r)
    BY <1>3 DEF ListedOnly
  <1>4. ASSUME NEW t \in Tx, CalledOnly(c, t)
        PROVE  /\ c \in allocated /\ c \notin InUse
               /\ \A u \in Tx : ~Listing(c, u) /\ (Calling(c, u) => u = t)
               /\ \A i \in Slot : \A r \in Nat : ~Keeping(c, i, r)
    BY <1>4 DEF CalledOnly
  <1>5. ASSUME NEW i \in Slot, NEW r \in Nat, KeptOnly(c, i, r)
        PROVE  /\ c \in allocated /\ c \notin InUse
               /\ \A u \in Tx : ~Listing(c, u) /\ ~Calling(c, u)
               /\ \A j \in Slot : \A q \in Nat : Keeping(c, j, q) => j = i /\ q = r
    BY <1>5 DEF KeptOnly
  <1> HIDE DEF NotListed, NotCalled, NotKept
  <1>6. CASE \E t \in Tx : ListedOnly(c, t)
    BY <1>3, <1>6
  <1>7. CASE \E t \in Tx : CalledOnly(c, t)
    BY <1>4, <1>7
  <1>8. CASE \E i \in Slot : \E r \in Nat : KeptOnly(c, i, r)
    BY <1>5, <1>8
  <1> QED
    BY <1>1, <1>2, <1>6, <1>7, <1>8 DEF Single

\* A chunk that is not moved.
LEMMA SingleKept ==
  ASSUME NEW c, Single(c),
         \A u \in Tx : Listing(c, u)' <=> Listing(c, u),
         \A u \in Tx : Calling(c, u)' <=> Calling(c, u),
         \A i \in Slot : \A r \in Nat : Keeping(c, i, r)' <=> Keeping(c, i, r),
         c \in InUse' <=> c \in InUse, c \in allocated' <=> c \in allocated
  PROVE  Single(c)'
  <1>0. /\ NotListed(c)' <=> NotListed(c)
        /\ NotCalled(c)' <=> NotCalled(c)
        /\ NotKept(c)' <=> NotKept(c)
    BY DEF NotListed, NotCalled, NotKept
  <1>1. Nowhere(c)' <=> Nowhere(c)
    BY <1>0 DEF Nowhere
  <1>2. UsedOnly(c)' <=> UsedOnly(c)
    BY <1>0 DEF UsedOnly
  <1>3. ASSUME NEW t \in Tx
        PROVE  /\ ListedOnly(c, t)' <=> ListedOnly(c, t)
               /\ CalledOnly(c, t)' <=> CalledOnly(c, t)
    BY <1>0 DEF ListedOnly, CalledOnly
  <1>4. ASSUME NEW i \in Slot, NEW r \in Nat
        PROVE  KeptOnly(c, i, r)' <=> KeptOnly(c, i, r)
    BY <1>0 DEF KeptOnly
  <1> QED
    BY <1>1, <1>2, <1>3, <1>4 DEF Single

\* Other threads' lists, calls and registration.
LEMMA OtherPlaces ==
  ASSUME TypeInv, NEW t \in Tx, Step(t), NEW u \in Tx \ {t}
  PROVE  /\ \A c : /\ Listing(c, u)' <=> Listing(c, u)
                   /\ Calling(c, u)' <=> Calling(c, u)
         /\ ListsDistinct(u)' <=> ListsDistinct(u)
         /\ (u \in threads' <=> u \in threads) /\ (u \in allocated' => u \in allocated)
               => (Holding(u) => Holding(u)')
  <1>1. pc'[u] = pc[u] /\ loc'[u] = loc[u] /\ icb'[u] = icb[u]
    BY Others
  <1>2. Listed(u)' = Listed(u)
    BY <1>1 DEF Listed
  <1>3. \A c : Listing(c, u)' <=> Listing(c, u)
    BY <1>2 DEF Listing
  <1>4. \A c : Calling(c, u)' <=> Calling(c, u)
    BY <1>1 DEF Calling
  <1>5. ListsDistinct(u)' <=> ListsDistinct(u)
    BY <1>1, <1>2 DEF ListsDistinct
  <1>6. (Registered(u)' <=> Registered(u)) /\ (Finishes(u)' <=> Finishes(u))
    BY <1>1 DEF Registered, Finishes
  <1> QED
    BY <1>1, <1>3, <1>4, <1>5, <1>6 DEF Holding

\* Descriptors are given out and registered by their own thread.
LEMMA OtherThreads ==
  ASSUME TypeInv, NEW t \in Tx, Step(t), NEW u \in Tx \ {t}
  PROVE  /\ u \in threads' <=> u \in threads
         /\ u \in allocated' => u \in allocated
  <1> USE DEF heap, rest
  <1>1. CASE Joins(t)
    BY <1>1 DEF Joins, InitThread, FindSlot, TakeSlot, ReadEpoch, SetBound, EnterThread
  <1>2. CASE Transacts(t)
    <2>1. threads' = threads
      BY <1>2 DEF Transacts, Start, Prepare, gc_set_epoch, Malloc, FreeBlock, Commit, OnCommit,
                  OnCommitEnd, OnAbort
    <2>2. allocated' \subseteq allocated \cup Block
      BY <1>2 DEF Transacts, Start, Prepare, gc_set_epoch, Malloc, FreeBlock, Commit, OnCommit,
                  OnCommitEnd, OnAbort
    <2> QED
      BY <2>1, <2>2, GcAssumption
  <1>3. CASE Reclaims(t)
    BY <1>3, Zenon DEF Reclaims, gc_free, gc_cleanup, ScanUsed, ScanTs, gc_cleanup_thread, gc_cleanup_all
  <1>4. CASE Leaves(t)
    BY <1>4 DEF Leaves, ExitThread, ExitFree, ExitTs, ExitUsed, ExitNb
  <1> QED
    BY <1>1, <1>2, <1>3, <1>4 DEF Step

\* What remains to be shown of a step of t.
LEMMA HeapOf ==
  ASSUME TypeInv, Heap, NEW t \in Tx, Step(t), Holding(t)', ListsDistinct(t)',
         \A i \in Slot : RegionsDistinct(i)', \A c \in Chunk : Single(c)'
  PROVE  Heap'
  <1>1. ASSUME NEW u \in Tx
        PROVE  Holding(u)' /\ ListsDistinct(u)'
    <2>1. CASE u = t
      BY <2>1
    <2>2. CASE u # t
      <3>1. Holding(u) /\ ListsDistinct(u)
        BY DEF Heap
      <3> QED
        BY <2>2, <3>1, OtherPlaces, OtherThreads
    <2> QED
      BY <2>1, <2>2
  <1> QED
    BY <1>1 DEF Heap

\* A step that moves no chunk.
LEMMA HeapQuiet ==
  ASSUME TypeInv, Heap, NEW t \in Tx, Step(t), Holding(t)', Distinct(icb[t].commit)',
         Listed(t)' = Listed(t), pc[t] # "gc_free", pc'[t] # "gc_free",
         \A i \in Slot : /\ slots'[i].regions = slots[i].regions
                         /\ slots'[i].used = "NULL" => slots[i].used = "NULL",
         InUse' = InUse, allocated' = allocated
  PROVE  Heap'
  <1>1. ListsDistinct(t)'
    BY DEF ListsDistinct, Heap
  <1>2. \A i \in Slot : RegionsDistinct(i)'
    BY DEF RegionsDistinct, Heap
  <1>3. ASSUME NEW c \in Chunk
        PROVE  Single(c)'
    <2>1. ASSUME NEW u \in Tx
          PROVE  (Listing(c, u)' <=> Listing(c, u)) /\ (Calling(c, u)' <=> Calling(c, u))
      <3>1. CASE u = t
        BY <3>1 DEF Listing, Calling
      <3>2. CASE u # t
        BY <3>2, OtherPlaces
      <3> QED
        BY <3>1, <3>2
    <2>2. \A i \in Slot : \A r \in Nat : Keeping(c, i, r)' <=> Keeping(c, i, r)
      BY DEF Keeping
    <2>3. Single(c)
      BY DEF Heap
    <2> QED
      BY <2>1, <2>2, <2>3, SingleKept
  <1> QED
    BY <1>1, <1>2, <1>3, HeapOf

\* The data structure and the descriptors.
LEMMA InUseKept ==
  ASSUME TypeInv, NEW t \in Tx, Step(t), linked' = linked, threads' = threads,
         pc[t] # "exit", pc'[t] # "exit"
  PROVE  InUse' = InUse
  <1>1. \A u \in Tx : pc'[u] = "exit" <=> pc[u] = "exit"
    BY Others
  <1> QED
    BY <1>1 DEF InUse

\* A thread that comes gets a descriptor.
LEMMA JoinHeap ==
  ASSUME HeapInv, TypeInv', NEW t \in Tx, Joins(t)
  PROVE  Heap'
  <1> USE DEF Goto, heap, rest
  <1>0. /\ pc \in [Tx -> GcLabel] /\ loc \in [Tx -> Locals] /\ loc[t] \in Locals
        /\ loc[t].idx \in Slot /\ TypeInv /\ Heap /\ Step(t) /\ Holding(t) /\ ListsDistinct(t)
        /\ icb \in [Tx -> [commit : Seq(Block), abort : Seq(Block)]]
    BY DEF HeapInv, Heap, SlotInv, TypeInv, Locals, Step
  <1>1. ASSUME InitThread(t) \/ FindSlot(t) \/ TakeSlot(t) \/ ReadEpoch(t) \/ SetBound(t)
        PROVE  Heap'
    <2>1. /\ pc[t] \in {"out", "slot", "slot_cas", "epoch", "bound"}
          /\ icb' = icb /\ linked' = linked /\ threads' = threads /\ allocated' = allocated
      BY <1>1 DEF InitThread, FindSlot, TakeSlot, ReadEpoch, SetBound
    <2>2. pc'[t] \in {"slot", "slot_cas", "epoch", "bound", "enter"}
      <3>1. CASE InitThread(t) \/ TakeSlot(t) \/ ReadEpoch(t) \/ SetBound(t)
        BY <1>0, <3>1 DEF InitThread, TakeSlot, ReadEpoch, SetBound
      <3>2. CASE FindSlot(t)
        BY <1>0, <3>2 DEF FindSlot
      <3> QED
        BY <1>1, <3>1, <3>2
    <2>3. \A i \in Slot : /\ slots'[i].regions = slots[i].regions
                          /\ slots'[i].used = "NULL" => slots[i].used = "NULL"
      <3>1. \/ slots' = slots
            \/ slots' = [slots EXCEPT ![loc[t].idx].ts = loc[t].start]
            \/ loc[t].i \in Slot /\ slots' = [slots EXCEPT ![loc[t].i].used = "BUSY"]
        <4>1. pc[t] = "slot_cas" => loc[t].i \in Slot
          BY DEF HeapInv, SlotInv, Searches
        <4> QED
          BY <1>1, <4>1 DEF InitThread, FindSlot, TakeSlot, ReadEpoch, SetBound
      <3>2. CASE slots' = [slots EXCEPT ![loc[t].idx].ts = loc[t].start]
        <4>1. Differs(slots', loc[t].idx, slots[loc[t].idx].used, loc[t].start,
                      slots[loc[t].idx].regions)
          BY <1>0, <3>2, SlotEdits
        <4> QED
          BY <4>1 DEF Differs
      <3>3. CASE loc[t].i \in Slot /\ slots' = [slots EXCEPT ![loc[t].i].used = "BUSY"]
        <4>1. Differs(slots', loc[t].i, "BUSY", slots[loc[t].i].ts, slots[loc[t].i].regions)
          BY <1>0, <3>3, SlotEdits
        <4> QED
          BY <4>1 DEF Differs
      <3> QED
        BY <3>1, <3>2, <3>3
    <2>4. t \notin allocated
      BY <1>0, <1>1, <2>1 DEF Holding, InitThread, FindSlot, TakeSlot, ReadEpoch, SetBound
    <2>5. Holding(t)'
      BY <1>0, <2>1, <2>2, <2>4 DEF Holding, Registered, Finishes, InGc
    <2>6. Listed(t)' = Listed(t) /\ Distinct(icb[t].commit)'
      BY <1>0, <2>1, <2>2 DEF Listed, ListsDistinct, Distinct
    <2>7. InUse' = InUse
      BY <1>0, <2>1, <2>2, InUseKept
    <2> QED
      BY <1>0, <2>1, <2>2, <2>3, <2>5, <2>6, <2>7, HeapQuiet
  <1>2. ASSUME EnterThread(t)
        PROVE  Heap'
    <2>1. /\ pc[t] = "enter" /\ pc'[t] = "idle" /\ slots' = slots /\ linked' = linked
          /\ allocated' = allocated \cup {t} /\ threads' = threads \cup {t}
          /\ icb'[t] = NoCallbacks /\ t \notin allocated
      BY <1>0, <1>2 DEF EnterThread, Holding
    <2>2. InUse' = InUse \cup {t}
      <3>1. \A u \in Tx : pc'[u] = "exit" <=> pc[u] = "exit"
        BY <1>0, <2>1, Others
      <3> QED
        BY <2>1, <3>1 DEF InUse
    <2>3. icb[t] = NoCallbacks
      BY <1>0, <2>1 DEF Holding, Finishes, InGc
    <2>4. Listed(t) = <<>> /\ Listed(t)' = <<>>
      BY <2>1, <2>3 DEF Listed, NoCallbacks
    <2>5. \A c : ~Listing(c, t) /\ ~Listing(c, t)' /\ ~Calling(c, t) /\ ~Calling(c, t)'
      BY <2>1, <2>4 DEF Listing, Calling, ToSet
    <2>6. \A c : \A u \in Tx : (Listing(c, u)' <=> Listing(c, u)) /\ (Calling(c, u)' <=> Calling(c, u))
      BY <1>0, <2>5, OtherPlaces
    <2>7. \A c : \A i \in Slot : \A r \in Nat : Keeping(c, i, r)' <=> Keeping(c, i, r)
      BY <2>1 DEF Keeping
    <2>8. ASSUME NEW c \in Chunk
          PROVE  Single(c)'
      <3>1. Single(c)
        BY <1>0 DEF Heap
      <3>2. CASE c = t
        <4>1. Nowhere(c)
          BY <2>1, <3>1, <3>2, Found
        <4>2. NotListed(c)' /\ NotCalled(c)' /\ NotKept(c)'
          BY <2>6, <2>7, <4>1 DEF Nowhere, NotListed, NotCalled, NotKept
        <4>3. UsedOnly(c)'
          BY <2>1, <2>2, <3>2, <4>2 DEF UsedOnly
        <4> QED
          BY <4>3 DEF Single
      <3>3. CASE c # t
        BY <2>1, <2>2, <2>6, <2>7, <3>1, <3>3, SingleKept
      <3> QED
        BY <3>2, <3>3
    <2>9. Holding(t)'
      BY <2>1 DEF Holding, Registered, Finishes, InGc
    <2>10. ListsDistinct(t)' /\ \A i \in Slot : RegionsDistinct(i)'
      <3>1. ListsDistinct(t)'
        BY <2>1, <2>4 DEF ListsDistinct, Distinct, NoCallbacks
      <3>2. \A i \in Slot : RegionsDistinct(i)' <=> RegionsDistinct(i)
        BY <2>1 DEF RegionsDistinct
      <3> QED
        BY <1>0, <3>1, <3>2 DEF Heap
    <2> QED
      BY <1>0, <2>8, <2>9, <2>10, HeapOf
  <1> QED
    BY <1>1, <1>2 DEF Joins

\* Starting and ending transactions, and stm_free, move no chunk.
LEMMA QuietTransactHeap ==
  ASSUME HeapInv, TypeInv', NEW t \in Tx,
         Start(t) \/ Prepare(t) \/ gc_set_epoch(t) \/ FreeBlock(t) \/ OnCommitEnd(t)
  PROVE  Heap'
  <1> USE DEF Goto, heap, rest
  <1>0. /\ pc \in [Tx -> GcLabel] /\ loc \in [Tx -> Locals] /\ loc[t] \in Locals
        /\ loc[t].idx \in Slot /\ TypeInv /\ Heap /\ Step(t) /\ Holding(t) /\ ListsDistinct(t)
        /\ icb \in [Tx -> [commit : Seq(Block), abort : Seq(Block)]]
    BY DEF HeapInv, Heap, SlotInv, TypeInv, Locals, Step, Transacts
  <1>1. /\ linked' = linked /\ threads' = threads /\ allocated' = allocated
        /\ pc[t] \in {"idle", "prepare", "set_epoch", "active", "callback"}
    BY DEF Start, Prepare, gc_set_epoch, FreeBlock, OnCommitEnd
  <1>2. pc'[t] \in {"prepare", "barrier", "set_epoch", "active", "idle"}
    <2>1. CASE Start(t) \/ Prepare(t) \/ gc_set_epoch(t) \/ OnCommitEnd(t)
      BY <1>0, <2>1 DEF Start, Prepare, gc_set_epoch, OnCommitEnd
    <2>2. CASE FreeBlock(t)
      BY <1>0, <2>2 DEF FreeBlock
    <2> QED
      BY <2>1, <2>2
  <1>3. \A i \in Slot : /\ slots'[i].regions = slots[i].regions
                        /\ slots'[i].used = "NULL" => slots[i].used = "NULL"
    <2>1. \/ slots' = slots
          \/ slots' = [slots EXCEPT ![loc[t].idx].ts = loc[t].start]
      BY DEF Start, Prepare, gc_set_epoch, FreeBlock, OnCommitEnd
    <2>2. Differs([slots EXCEPT ![loc[t].idx].ts = loc[t].start], loc[t].idx,
                  slots[loc[t].idx].used, loc[t].start, slots[loc[t].idx].regions)
      BY <1>0, SlotEdits
    <2> QED
      BY <2>1, <2>2 DEF Differs
  <1>4. InUse' = InUse
    BY <1>0, <1>1, <1>2, InUseKept
  <1>5. t \in threads' <=> Registered(t)'
    BY <1>0, <1>1, <1>2 DEF Holding, Registered
  <1>6. ASSUME icb' = icb, pc[t] # "active", pc[t] # "callback"
        PROVE  Heap'
    <2>1. icb[t] = NoCallbacks
      BY <1>0, <1>1, <1>6 DEF Holding, Finishes, InGc
    <2>2. Holding(t)'
      BY <1>1, <1>2, <1>5, <1>6, <2>1 DEF Holding
    <2>3. Listed(t)' = Listed(t) /\ Distinct(icb[t].commit)'
      BY <1>6, <2>1 DEF Listed, NoCallbacks, Distinct
    <2> QED
      BY <1>0, <1>1, <1>2, <1>3, <1>4, <2>2, <2>3, HeapQuiet
  <1>7. ASSUME FreeBlock(t)
        PROVE  Heap'
    <2>0. pc[t] = "active" /\ pc' = pc
      BY <1>7 DEF FreeBlock
    <2>1. PICK b \in Block : /\ b \notin ToSet(icb[t].commit)
                             /\ icb' = [icb EXCEPT ![t].commit = Append(@, b)]
      <3>1. PICK b \in (linked \cup ToSet(icb[t].abort)) \ ToSet(icb[t].commit) :
                 icb' = [icb EXCEPT ![t].commit = Append(@, b)]
        BY <1>7 DEF FreeBlock, mod_cb_add_on_commit
      <3>2. b \in Block
        BY <1>0, <3>1 DEF TypeInv, ToSet
      <3> QED
        BY <3>1, <3>2
    <2>2. icb'[t].commit = Append(icb[t].commit, b) /\ icb'[t].abort = icb[t].abort
      BY <1>0, <2>1
    <2>3. icb[t].commit \in Seq(Block) /\ Distinct(icb[t].commit)
      BY <1>0 DEF ListsDistinct
    <2>4. Distinct(Append(icb[t].commit, b))
      BY <2>1, <2>3 DEF Distinct, ToSet
    <2>5. Distinct(icb[t].commit)' /\ Listed(t)' = Listed(t)
      BY <2>0, <2>2, <2>4 DEF Listed, Distinct
    <2>6. Holding(t)'
      BY <1>5, <2>0 DEF Holding
    <2> QED
      BY <1>0, <1>1, <1>2, <1>3, <1>4, <2>5, <2>6, HeapQuiet
  <1>8. ASSUME OnCommitEnd(t)
        PROVE  Heap'
    <2>1. /\ pc[t] = "callback" /\ pc'[t] = "idle" /\ icb[t].commit = <<>>
          /\ icb'[t] = NoCallbacks
      <3>1. icb[t] \in [commit : Seq(Block), abort : Seq(Block)]
        BY <1>0
      <3> QED
        BY <1>0, <1>8, <3>1 DEF OnCommitEnd, NoCallbacks
    <2>2. Distinct(icb[t].commit)' /\ Listed(t)' = Listed(t)
      BY <2>1 DEF Listed, Distinct, NoCallbacks
    <2>3. Holding(t)'
      BY <1>5, <2>1 DEF Holding
    <2> QED
      BY <1>0, <1>1, <1>2, <1>3, <1>4, <2>2, <2>3, HeapQuiet
  <1>9. \/ FreeBlock(t) \/ OnCommitEnd(t)
        \/ icb' = icb /\ pc[t] # "active" /\ pc[t] # "callback"
    BY DEF Start, Prepare, gc_set_epoch
  <1> QED
    BY <1>6, <1>7, <1>8, <1>9

\* Lists with one element more, or without the last one.
LEMMA ListAppend ==
  ASSUME NEW S, NEW s \in Seq(S), NEW b \in S
  PROVE  /\ ToSet(Append(s, b)) = ToSet(s) \cup {b}
         /\ Distinct(s) /\ b \notin ToSet(s) => Distinct(Append(s, b))
  <1>1. /\ DOMAIN Append(s, b) = 1 .. Len(s) + 1 /\ DOMAIN s = 1 .. Len(s)
        /\ \A k \in 1 .. Len(s) : Append(s, b)[k] = s[k]
        /\ Append(s, b)[Len(s) + 1] = b
    OBVIOUS
  <1>2. ToSet(Append(s, b)) = ToSet(s) \cup {b}
    BY <1>1 DEF ToSet
  <1> QED
    BY <1>1, <1>2 DEF Distinct, ToSet

LEMMA ListFront ==
  ASSUME NEW S, NEW s \in Seq(S), s # <<>>, Distinct(s)
  PROVE  /\ Last(s) \in S /\ Last(s) \in ToSet(s)
         /\ ToSet(Front(s)) = ToSet(s) \ {Last(s)}
         /\ Front(s) \in Seq(S) /\ Distinct(Front(s))
  <1> DEFINE n == Len(s)
  <1>1. n \in Nat \ {0} /\ DOMAIN s = 1 .. n /\ Last(s) = s[n]
    BY DEF Last
  <1>2. /\ Front(s) \in Seq(S) /\ DOMAIN Front(s) = 1 .. n - 1
        /\ \A k \in 1 .. n - 1 : Front(s)[k] = s[k]
    BY <1>1 DEF Front
  <1> HIDE DEF n
  <1>3. 1 .. n = (1 .. n - 1) \cup {n} /\ n \notin 1 .. n - 1
    BY <1>1
  <1>4. Last(s) \in S /\ Last(s) \in ToSet(s)
    BY <1>1, <1>3 DEF ToSet
  <1>5. Distinct(Front(s))
    BY <1>1, <1>2, <1>3 DEF Distinct
  <1>6. ToSet(Front(s)) = {s[k] : k \in 1 .. n - 1}
    BY <1>2 DEF ToSet
  <1>7. \A k \in 1 .. n - 1 : s[k] # s[n]
    BY <1>1, <1>3 DEF Distinct
  <1>8. ToSet(s) = {s[k] : k \in 1 .. n - 1} \cup {s[n]}
    BY <1>1, <1>3 DEF ToSet
  <1> QED
    BY <1>1, <1>2, <1>4, <1>5, <1>6, <1>7, <1>8

\* Malloc finds a block that is nowhere, and notes it on the abort list.
LEMMA MallocHeap ==
  ASSUME HeapInv, TypeInv', NEW t \in Tx, Malloc(t)
  PROVE  Heap'
  <1> USE DEF Goto, heap, rest
  <1>0. /\ TypeInv /\ Heap /\ Step(t) /\ Holding(t) /\ ListsDistinct(t)
        /\ icb \in [Tx -> [commit : Seq(Block), abort : Seq(Block)]]
    BY DEF HeapInv, Heap, SlotInv, TypeInv, Step, Transacts
  <1>1. /\ pc[t] = "active" /\ pc' = pc /\ slots' = slots /\ linked' = linked
        /\ threads' = threads /\ loc' = loc
    BY DEF Malloc
  <1>2. PICK b \in Block \ allocated : /\ allocated' = allocated \cup {b}
                                       /\ icb' = [icb EXCEPT ![t].abort = Append(@, b)]
    BY DEF Malloc, mod_cb_add_on_abort
  <1>3. /\ icb'[t].commit = icb[t].commit /\ icb'[t].abort = Append(icb[t].abort, b)
        /\ icb[t].abort \in Seq(Block)
    BY <1>0, <1>2
  <1>4. Listed(t) = icb[t].abort /\ Listed(t)' = Append(icb[t].abort, b)
    BY <1>1, <1>3 DEF Listed
  <1>5. b \in Chunk /\ Single(b)
    BY <1>0 DEF Chunk, Heap
  <1>6. Nowhere(b)
    BY <1>2, <1>5, Found
  <1>7. b \notin ToSet(icb[t].abort)
    BY <1>4, <1>6 DEF Nowhere, NotListed, Listing
  <1>8. \A c : Listing(c, t)' <=> Listing(c, t) \/ c = b
    BY <1>3, <1>4, ListAppend DEF Listing
  <1>9. InUse' = InUse
    BY <1>0, <1>1, InUseKept
  <1>10. \A c : \A u \in Tx : Calling(c, u)' <=> Calling(c, u)
    BY <1>1 DEF Calling
  <1>11. \A c : \A i \in Slot : \A r \in Nat : Keeping(c, i, r)' <=> Keeping(c, i, r)
    BY <1>1 DEF Keeping
  <1>12. \A c : \A u \in Tx \ {t} : Listing(c, u)' <=> Listing(c, u)
    BY <1>0, OtherPlaces
  <1>13. ASSUME NEW c \in Chunk
         PROVE  Single(c)'
    <2>1. Single(c)
      BY <1>0 DEF Heap
    <2>2. CASE c = b
      <3>1. /\ NotCalled(c)' /\ NotKept(c)' /\ c \in allocated' /\ c \notin InUse'
        BY <1>2, <1>6, <1>9, <1>10, <1>11, <2>2 DEF Nowhere, NotCalled, NotKept
      <3>2. \A u \in Tx : Listing(c, u)' <=> u = t
        BY <1>6, <1>8, <1>12, <2>2 DEF Nowhere, NotListed
      <3>3. ListedOnly(c, t)'
        BY <3>1, <3>2 DEF ListedOnly
      <3> QED
        BY <3>3 DEF Single
    <2>3. CASE c # b
      <3>1. \A u \in Tx : Listing(c, u)' <=> Listing(c, u)
        BY <1>8, <1>12, <2>3
      <3> QED
        BY <1>2, <1>9, <1>10, <1>11, <2>1, <2>3, <3>1, SingleKept
    <2> QED
      BY <2>2, <2>3
  <1>14. ListsDistinct(t)'
    <2>1. Distinct(icb[t].abort) /\ Distinct(icb[t].commit)
      BY <1>0, <1>4 DEF ListsDistinct
    <2>2. Distinct(Append(icb[t].abort, b))
      BY <1>3, <1>7, <2>1, ListAppend
    <2>3. Distinct(Listed(t))'
      BY <1>4, <2>2 DEF Distinct
    <2>4. Distinct(icb[t].commit)'
      BY <1>3, <2>1 DEF Distinct
    <2> QED
      BY <2>3, <2>4 DEF ListsDistinct
  <1>15. \A i \in Slot : RegionsDistinct(i)'
    BY <1>0, <1>1 DEF Heap, RegionsDistinct
  <1>16. Holding(t)'
    BY <1>0, <1>1 DEF Holding, Registered
  <1> QED
    BY <1>0, <1>13, <1>14, <1>15, <1>16, HeapOf

\* A commit links what was allocated, and leaves what was freed on the commit list.
LEMMA CommitHeap ==
  ASSUME HeapInv, TypeInv', NEW t \in Tx, Commit(t)
  PROVE  Heap'
  <1> USE DEF Goto, heap, rest
  <1> DEFINE A == ToSet(icb[t].abort)
             D == ToSet(icb[t].commit)
  <1>0. /\ TypeInv /\ Heap /\ Step(t) /\ Holding(t) /\ ListsDistinct(t)
        /\ icb[t].commit \in Seq(Block) /\ icb[t].abort \in Seq(Block)
        /\ pc \in [Tx -> GcLabel]
    BY DEF HeapInv, Heap, SlotInv, TypeInv, Step, Transacts
  <1>1. /\ pc[t] = "active" /\ pc'[t] = "callback" /\ slots' = slots /\ threads' = threads
        /\ icb' = icb /\ allocated' = allocated /\ linked' = (linked \cup (A \ D)) \ D
        /\ D \subseteq linked \cup A
    BY <1>0 DEF Commit
  <1>2. Listed(t) = icb[t].abort /\ Listed(t)' = icb[t].commit
    BY <1>1 DEF Listed
  <1>3. \A c : (Listing(c, t) <=> c \in A) /\ (Listing(c, t)' <=> c \in D)
    BY <1>2 DEF Listing
  <1>4. \A c : ~Calling(c, t) /\ ~Calling(c, t)'
    BY <1>1 DEF Calling
  <1>5. \A c : \A u \in Tx : Calling(c, u)' <=> Calling(c, u)
    BY <1>0, <1>4, OtherPlaces
  <1>6. \A c : \A i \in Slot : \A r \in Nat : Keeping(c, i, r)' <=> Keeping(c, i, r)
    BY <1>1 DEF Keeping
  <1>7. \A c : \A u \in Tx \ {t} : Listing(c, u)' <=> Listing(c, u)
    BY <1>0, OtherPlaces
  <1>8. A \cup D \cup linked \subseteq Block
    BY <1>0 DEF ToSet, TypeInv
  <1>9. \A c : c \in InUse' <=> c \in (InUse \cup (A \ D)) \ D
    <2>1. \A u \in Tx : pc'[u] = "exit" <=> pc[u] = "exit"
      BY <1>0, <1>1, Others
    <2>2. DEFINE T == threads \cup {u \in Tx : pc[u] = "exit"}
    <2>3. InUse = linked \cup T /\ InUse' = linked' \cup T
      BY <1>1, <2>1 DEF InUse
    <2>4. D \cap T = {}
      BY <1>0, <1>8, GcAssumption DEF TypeInv
    <2> HIDE DEF T
    <2> QED
      BY <1>1, <2>3, <2>4
  <1>10. ASSUME NEW c \in Chunk
         PROVE  Single(c)'
    <2>1. Single(c)
      BY <1>0 DEF Heap
    <2>2. ASSUME c \in A \cup D
          PROVE  /\ c \in allocated /\ NotCalled(c) /\ NotKept(c)
                 /\ \A u \in Tx \ {t} : ~Listing(c, u)
      <3>1. CASE c \in A
        <4>1. ListedOnly(c, t)
          BY <1>3, <2>1, <3>1, Found
        <4> QED
          BY <4>1 DEF ListedOnly
      <3>2. CASE c \in linked
        <4>1. c \in InUse
          BY <3>2 DEF InUse
        <4>2. UsedOnly(c)
          BY <2>1, <4>1, Found
        <4> QED
          BY <4>2 DEF UsedOnly, NotListed
      <3> QED
        BY <1>1, <2>2, <3>1, <3>2
    <2>3. CASE c \in D
      <3>1. c \notin InUse' /\ c \in allocated' /\ NotCalled(c)' /\ NotKept(c)'
        BY <1>1, <1>5, <1>6, <1>9, <2>2, <2>3 DEF NotCalled, NotKept
      <3>2. \A u \in Tx : Listing(c, u)' <=> u = t
        BY <1>3, <1>7, <2>2, <2>3
      <3>3. ListedOnly(c, t)'
        BY <3>1, <3>2 DEF ListedOnly
      <3> QED
        BY <3>3 DEF Single
    <2>4. CASE c \in A \ D
      <3>1. c \in InUse' /\ c \in allocated' /\ NotCalled(c)' /\ NotKept(c)'
        BY <1>1, <1>5, <1>6, <1>9, <2>2, <2>4 DEF NotCalled, NotKept
      <3>2. NotListed(c)'
        BY <1>3, <1>7, <2>2, <2>4 DEF NotListed
      <3>3. UsedOnly(c)'
        BY <3>1, <3>2 DEF UsedOnly
      <3> QED
        BY <3>3 DEF Single
    <2>5. CASE c \notin A \cup D
      <3>1. \A u \in Tx : Listing(c, u)' <=> Listing(c, u)
        BY <1>3, <1>7, <2>5
      <3>2. c \in InUse' <=> c \in InUse
        BY <1>9, <2>5
      <3> QED
        BY <1>1, <1>5, <1>6, <2>1, <3>1, <3>2, SingleKept
    <2> QED
      BY <2>3, <2>4, <2>5
  <1>11. ListsDistinct(t)'
    <2>1. Distinct(icb[t].commit)
      BY <1>0 DEF ListsDistinct
    <2> QED
      BY <1>1, <1>2, <2>1 DEF ListsDistinct, Distinct
  <1>12. \A i \in Slot : RegionsDistinct(i)'
    BY <1>0, <1>1 DEF Heap, RegionsDistinct
  <1>13. Holding(t)'
    BY <1>0, <1>1 DEF Holding, Registered, Finishes
  <1> QED
    BY <1>0, <1>10, <1>11, <1>12, <1>13, HeapOf

\* The last commit callback calls gc_free.
LEMMA OnCommitHeap ==
  ASSUME HeapInv, TypeInv', NEW t \in Tx, OnCommit(t)
  PROVE  Heap'
  <1> USE DEF Goto, heap, rest
  <1> DEFINE s == icb[t].commit
  <1>0. /\ TypeInv /\ Heap /\ Step(t) /\ Holding(t) /\ ListsDistinct(t)
        /\ s \in Seq(Block) /\ icb \in [Tx -> [commit : Seq(Block), abort : Seq(Block)]]
        /\ pc \in [Tx -> GcLabel] /\ loc \in [Tx -> Locals]
    BY DEF HeapInv, Heap, SlotInv, TypeInv, Step, Transacts
  <1>1. /\ pc[t] = "callback" /\ pc'[t] = "gc_free" /\ slots' = slots /\ threads' = threads
        /\ allocated' = allocated /\ linked' = linked /\ s # <<>>
        /\ loc'[t].chunk = Last(s) /\ loc'[t].then = "callback"
        /\ icb'[t].commit = Front(s)
    BY <1>0 DEF OnCommit, Locals
  <1>2. Listed(t) = s /\ Listed(t)' = Front(s)
    BY <1>1 DEF Listed
  <1>3. Distinct(s)
    BY <1>0 DEF ListsDistinct
  <1>4. /\ Last(s) \in Block /\ Last(s) \in ToSet(s)
        /\ ToSet(Front(s)) = ToSet(s) \ {Last(s)}
        /\ Distinct(Front(s))
    BY <1>0, <1>1, <1>3, ListFront
  <1>5. \A c : /\ Listing(c, t) <=> c \in ToSet(s)
               /\ Listing(c, t)' <=> c \in ToSet(s) \ {Last(s)}
    BY <1>2, <1>4 DEF Listing
  <1>6. \A c : ~Calling(c, t) /\ (Calling(c, t)' <=> c = Last(s))
    BY <1>1 DEF Calling
  <1>7. \A c : \A i \in Slot : \A r \in Nat : Keeping(c, i, r)' <=> Keeping(c, i, r)
    BY <1>1 DEF Keeping
  <1>8. \A c : \A u \in Tx \ {t} : /\ Listing(c, u)' <=> Listing(c, u)
                                   /\ Calling(c, u)' <=> Calling(c, u)
    BY <1>0, OtherPlaces
  <1>9. InUse' = InUse
    BY <1>0, <1>1, InUseKept
  <1> HIDE DEF s
  <1>10. ASSUME NEW c \in Chunk
         PROVE  Single(c)'
    <2>1. Single(c)
      BY <1>0 DEF Heap
    <2>2. CASE c = Last(s)
      <3>1. ListedOnly(c, t)
        BY <1>4, <1>5, <2>1, <2>2, Found
      <3>2. c \in allocated' /\ c \notin InUse' /\ NotKept(c)'
        BY <1>1, <1>7, <1>9, <3>1 DEF ListedOnly, NotKept
      <3>3. NotListed(c)'
        BY <1>5, <1>8, <2>2, <3>1 DEF ListedOnly, NotListed
      <3>4. \A u \in Tx : Calling(c, u)' <=> u = t
        BY <1>6, <1>8, <2>2, <3>1 DEF ListedOnly, NotCalled
      <3>5. CalledOnly(c, t)'
        BY <3>2, <3>3, <3>4 DEF CalledOnly
      <3> QED
        BY <3>5 DEF Single
    <2>3. CASE c # Last(s)
      <3>1. \A u \in Tx : Listing(c, u)' <=> Listing(c, u)
        BY <1>5, <1>8, <2>3
      <3>2. \A u \in Tx : Calling(c, u)' <=> Calling(c, u)
        BY <1>6, <1>8, <2>3
      <3> QED
        BY <1>1, <1>7, <1>9, <2>1, <3>1, <3>2, SingleKept
    <2> QED
      BY <2>2, <2>3
  <1>11. ListsDistinct(t)'
    BY <1>1, <1>2, <1>4 DEF ListsDistinct, Distinct
  <1>12. \A i \in Slot : RegionsDistinct(i)'
    BY <1>0, <1>1 DEF Heap, RegionsDistinct
  <1>13. Holding(t)'
    BY <1>0, <1>1 DEF Holding, Registered, Finishes, InGc
  <1> QED
    BY <1>0, <1>10, <1>11, <1>12, <1>13, HeapOf

\* A rollback frees what the transaction allocated.
LEMMA OnAbortHeap ==
  ASSUME HeapInv, TypeInv', NEW t \in Tx, OnAbort(t)
  PROVE  Heap'
  <1> USE DEF Goto, heap, rest
  <1> DEFINE A == ToSet(icb[t].abort)
  <1>0. /\ TypeInv /\ Heap /\ Step(t) /\ Holding(t)
        /\ icb \in [Tx -> [commit : Seq(Block), abort : Seq(Block)]]
        /\ pc \in [Tx -> GcLabel]
    BY DEF HeapInv, Heap, SlotInv, TypeInv, Step, Transacts
  <1>1. /\ pc[t] = "active" /\ pc'[t] \in {"prepare", "idle"} /\ slots' = slots
        /\ threads' = threads /\ linked' = linked /\ allocated' = allocated \ A
        /\ icb'[t] = NoCallbacks
    BY <1>0 DEF OnAbort
  <1>2. Listed(t) = icb[t].abort /\ Listed(t)' = <<>>
    BY <1>1 DEF Listed, NoCallbacks
  <1>3. \A c : (Listing(c, t) <=> c \in A) /\ ~Listing(c, t)'
    BY <1>2 DEF Listing, ToSet
  <1>4. \A c : \A u \in Tx : Calling(c, u)' <=> Calling(c, u)
    <2>1. \A c : ~Calling(c, t) /\ ~Calling(c, t)'
      BY <1>1 DEF Calling
    <2> QED
      BY <1>0, <2>1, OtherPlaces
  <1>5. \A c : \A i \in Slot : \A r \in Nat : Keeping(c, i, r)' <=> Keeping(c, i, r)
    BY <1>1 DEF Keeping
  <1>6. \A c : \A u \in Tx \ {t} : Listing(c, u)' <=> Listing(c, u)
    BY <1>0, OtherPlaces
  <1>7. InUse' = InUse
    BY <1>0, <1>1, InUseKept
  <1> HIDE DEF A
  <1>8. ASSUME NEW c \in Chunk
        PROVE  Single(c)'
    <2>1. Single(c)
      BY <1>0 DEF Heap
    <2>2. CASE c \in A
      <3>1. ListedOnly(c, t)
        BY <1>3, <2>1, <2>2, Found
      <3>2. NotListed(c)' /\ NotCalled(c)' /\ NotKept(c)'
        BY <1>3, <1>4, <1>5, <1>6, <3>1 DEF ListedOnly, NotListed, NotCalled, NotKept
      <3>3. Nowhere(c)'
        BY <1>1, <1>7, <2>2, <3>1, <3>2 DEF ListedOnly, Nowhere
      <3> QED
        BY <3>3 DEF Single
    <2>3. CASE c \notin A
      <3>1. \A u \in Tx : Listing(c, u)' <=> Listing(c, u)
        BY <1>3, <1>6, <2>3
      <3> QED
        BY <1>1, <1>4, <1>5, <1>7, <2>1, <2>3, <3>1, SingleKept
    <2> QED
      BY <2>2, <2>3
  <1>9. ListsDistinct(t)'
    BY <1>1, <1>2 DEF ListsDistinct, Distinct, NoCallbacks
  <1>10. \A i \in Slot : RegionsDistinct(i)'
    BY <1>0, <1>1 DEF Heap, RegionsDistinct
  <1>11. Holding(t)'
    BY <1>0, <1>1 DEF Holding, Registered, Finishes, InGc
  <1> QED
    BY <1>0, <1>8, <1>9, <1>10, <1>11, HeapOf

\* A scan, and the beginning of a cleanup, move no chunk.
LEMMA ScanHeap ==
  ASSUME HeapInv, TypeInv', NEW t \in Tx,
         gc_cleanup(t) \/ ScanUsed(t) \/ ScanTs(t) \/ gc_cleanup_all(t)
  PROVE  Heap'
  <1> USE DEF Goto, heap, rest
  <1>0. /\ pc \in [Tx -> GcLabel] /\ loc \in [Tx -> Locals] /\ loc[t] \in Locals
        /\ TypeInv /\ Heap /\ Step(t) /\ Holding(t) /\ ListsDistinct(t)
    BY DEF HeapInv, Heap, SlotInv, TypeInv, Step, Reclaims
  <1>1. /\ linked' = linked /\ threads' = threads /\ allocated' = allocated /\ icb' = icb
        /\ pc[t] \in {"idle", "cleanup", "scan", "scan_ts"}
    BY Zenon DEF gc_cleanup, ScanUsed, ScanTs, gc_cleanup_all
  <1>2. pc'[t] \in {"scan", "scan_ts", "reclaim"}
    <2>1. CASE ScanUsed(t)
      <3>1. \/ pc[t] = "scan" /\ pc' = pc
            \/ pc' = [pc EXCEPT ![t] = "scan_ts"]
            \/ pc' = [pc EXCEPT ![t] = "reclaim"]
        BY <2>1 DEF ScanUsed
      <3> QED
        BY <1>0, <3>1
    <2>2. CASE gc_cleanup(t) \/ ScanTs(t) \/ gc_cleanup_all(t)
      BY <1>0, <2>2, Zenon DEF gc_cleanup, ScanTs, gc_cleanup_all
    <2> QED
      BY <2>1, <2>2
  <1>3. \/ pc[t] = "idle" /\ loc'[t].then = "idle"
        \/ pc[t] # "idle" /\ loc'[t].then = loc[t].then
    <2>1. CASE gc_cleanup(t)
      BY <1>0, <2>1 DEF gc_cleanup, Locals
    <2>2. CASE ScanUsed(t)
      <3>1. pc[t] = "scan" /\ (loc' = loc \/ loc' = [loc EXCEPT ![t].i = loc[t].i + 1])
        BY <2>2 DEF ScanUsed
      <3> QED
        BY <1>0, <3>1 DEF Locals
    <2>3. CASE ScanTs(t)
      <3>1. /\ pc[t] = "scan_ts"
            /\ \/ loc' = loc
               \/ \E m : loc' = [loc EXCEPT ![t].i = loc[t].i + 1, ![t].min = m]
        BY <2>3 DEF ScanTs
      <3> QED
        BY <1>0, <3>1 DEF Locals
    <2>4. CASE gc_cleanup_all(t)
      <3>1. /\ pc[t] = "idle"
            /\ \E i : loc' = [loc EXCEPT ![t].of = i, ![t].min = clock, ![t].i = 0, ![t].then = "idle"]
        BY <2>4, Zenon DEF gc_cleanup_all
      <3> QED
        BY <1>0, <3>1 DEF Locals
    <2> QED
      BY <2>1, <2>2, <2>3, <2>4
  <1>4. \A i \in Slot : /\ slots'[i].regions = slots[i].regions
                        /\ slots'[i].used = "NULL" => slots[i].used = "NULL"
    <2>1. CASE slots' = slots
      BY <2>1
    <2>2. CASE \E i \in Slot : slots' = [slots EXCEPT ![i].used = "BUSY"]
      <3>1. PICK i \in Slot : slots' = [slots EXCEPT ![i].used = "BUSY"]
        BY <2>2
      <3>2. Differs(slots', i, "BUSY", slots[i].ts, slots[i].regions)
        BY <1>0, <3>1, SlotEdits
      <3> QED
        BY <3>2 DEF Differs
    <2> QED
      BY <2>1, <2>2, Zenon DEF gc_cleanup, ScanUsed, ScanTs, gc_cleanup_all
  <1>5. InUse' = InUse
    BY <1>0, <1>1, <1>2, InUseKept
  <1>6. Holding(t)'
    <2>1. (Registered(t)' <=> Registered(t)) /\ (Finishes(t)' <=> Finishes(t))
      BY <1>1, <1>2, <1>3 DEF Registered, Finishes, InGc
    <2> QED
      BY <1>0, <1>1, <1>2, <2>1 DEF Holding
  <1>7. Listed(t)' = Listed(t) /\ Distinct(icb[t].commit)'
    BY <1>0, <1>1, <1>2 DEF Listed, ListsDistinct, Distinct
  <1> QED
    BY <1>0, <1>1, <1>2, <1>4, <1>5, <1>6, <1>7, HeapQuiet

\* What gc_free does to the regions: one of them has the chunk as well.
Gains(new, rs, c, e) ==
    \/ new = Append(rs, [ts |-> e, blocks |-> <<c>>])
    \/ rs # <<>> /\ new = [rs EXCEPT ![Len(rs)].blocks = <<c>> \o @]
HasAlso(new, rs, c, q) ==
    \A r \in Nat : \A x : Has(new, r, x) <=> Has(rs, r, x) \/ (x = c /\ r = q)

LEMMA RegionGains ==
  ASSUME NEW rs \in Seq(Region), NEW c \in Chunk, NEW e \in Nat,
         \A r \in DOMAIN rs : Distinct(rs[r].blocks), \A r \in Nat : ~Has(rs, r, c),
         NEW new, Gains(new, rs, c, e)
  PROVE  /\ \E q \in Nat : HasAlso(new, rs, c, q)
         /\ \A r \in DOMAIN new : Distinct(new[r].blocks)
  <1>1. CASE new = Append(rs, [ts |-> e, blocks |-> <<c>>])
    <2> DEFINE n == Len(rs)
    <2>1. /\ DOMAIN new = 1 .. n + 1 /\ DOMAIN rs = 1 .. n /\ n \in Nat
          /\ \A r \in 1 .. n : new[r] = rs[r]
          /\ new[n + 1].blocks = <<c>>
      <3>1. [ts |-> e, blocks |-> <<c>>] \in Region
        <4>1. <<c>> \in Seq(Chunk)
          OBVIOUS
        <4> QED
          BY <4>1 DEF Region
      <3> QED
        BY <1>1, <3>1
    <2> HIDE DEF n
    <2>2. \A x : x \in ToSet(<<c>>) <=> x = c
      BY DEF ToSet
    <2>3. n + 1 \in Nat /\ 1 .. n + 1 = (1 .. n) \cup {n + 1} /\ n + 1 \notin 1 .. n
      BY <2>1
    <2>4. ASSUME NEW r \in Nat, NEW x
          PROVE  Has(new, r, x) <=> Has(rs, r, x) \/ (x = c /\ r = n + 1)
      <3>1. CASE r \in 1 .. n
        BY <2>1, <2>3, <3>1 DEF Has
      <3>2. CASE r = n + 1
        BY <2>1, <2>2, <2>3, <3>2 DEF Has
      <3>3. CASE r \notin 1 .. n + 1
        BY <2>1, <2>3, <3>3 DEF Has
      <3> QED
        BY <2>3, <3>1, <3>2, <3>3
    <2>5. Distinct(<<c>>)
      BY DEF Distinct
    <2>6. ASSUME NEW r \in DOMAIN new
          PROVE  Distinct(new[r].blocks)
      BY <2>1, <2>3, <2>5, <2>6
    <2>7. HasAlso(new, rs, c, n + 1)
      BY <2>4 DEF HasAlso
    <2> QED
      BY <2>3, <2>6, <2>7
  <1>2. CASE rs # <<>> /\ new = [rs EXCEPT ![Len(rs)].blocks = <<c>> \o @]
    <2> DEFINE n == Len(rs)
               bs == rs[n].blocks
               more == <<c>> \o bs
    <2>1. n \in Nat \ {0} /\ DOMAIN rs = 1 .. n /\ n \in 1 .. n
      BY <1>2
    <2>2. rs[n] \in Region
      BY <2>1
    <2>3. bs \in Seq(Chunk)
      BY <2>2 DEF Region
    <2>4. /\ DOMAIN new = 1 .. n /\ \A r \in 1 .. n : r # n => new[r] = rs[r]
          /\ new[n].blocks = more
      BY <1>2, <2>1, <2>2 DEF Region
    <2>5. /\ DOMAIN bs = 1 .. Len(bs) /\ Len(bs) \in Nat
          /\ DOMAIN more = 1 .. Len(bs) + 1 /\ more[1] = c
          /\ \A k \in 1 .. Len(bs) : more[k + 1] = bs[k]
      <3>1. <<c>> \in Seq(Chunk) /\ Len(<<c>>) = 1 /\ <<c>>[1] = c
        OBVIOUS
      <3>2. /\ more \in Seq(Chunk) /\ Len(more) = 1 + Len(bs)
            /\ \A k \in 1 .. 1 + Len(bs) : more[k] = IF k <= 1 THEN <<c>>[k] ELSE bs[k - 1]
        BY <2>3, <3>1, ConcatProperties
      <3> HIDE DEF more, bs
      <3>3. Len(bs) \in Nat /\ DOMAIN bs = 1 .. Len(bs) /\ DOMAIN more = 1 .. Len(bs) + 1
        BY <2>3, <3>2
      <3>4. more[1] = c
        BY <3>1, <3>2, <3>3
      <3>5. ASSUME NEW k \in 1 .. Len(bs)
            PROVE  more[k + 1] = bs[k]
        <4>1. k + 1 \in 1 .. 1 + Len(bs) /\ ~(k + 1 <= 1) /\ (k + 1) - 1 = k
          BY <3>3
        <4> QED
          BY <3>2, <4>1
      <3> QED
        BY <3>3, <3>4, <3>5
    <2> HIDE DEF n, bs, more
    <2>6. \A j \in 1 .. Len(bs) + 1 : j = 1 \/ \E k \in 1 .. Len(bs) : j = k + 1
      <3>1. ASSUME NEW j \in 1 .. Len(bs) + 1, j # 1
            PROVE  j - 1 \in 1 .. Len(bs) /\ j = (j - 1) + 1
        BY <2>5, <3>1
      <3> QED
        BY <3>1
    <2>7. \A x : x \in ToSet(more) <=> x = c \/ x \in ToSet(bs)
      <3>1. ASSUME NEW x \in ToSet(more)
            PROVE  x = c \/ x \in ToSet(bs)
        <4>1. PICK j \in DOMAIN more : more[j] = x
          BY <3>1 DEF ToSet
        <4>2. CASE j = 1
          BY <2>5, <4>1, <4>2
        <4>3. CASE j # 1
          <5>1. PICK k \in 1 .. Len(bs) : j = k + 1
            BY <2>5, <2>6, <4>3
          <5> QED
            BY <2>5, <4>1, <5>1 DEF ToSet
        <4> QED
          BY <4>2, <4>3
      <3>2. c \in ToSet(more)
        <4>1. 1 \in DOMAIN more
          BY <2>5
        <4> QED
          BY <2>5, <4>1 DEF ToSet
      <3>3. ASSUME NEW x \in ToSet(bs)
            PROVE  x \in ToSet(more)
        <4>1. PICK k \in 1 .. Len(bs) : x = bs[k]
          BY <2>5, <3>3 DEF ToSet
        <4>2. k + 1 \in DOMAIN more
          BY <2>5
        <4> QED
          BY <2>5, <4>1, <4>2 DEF ToSet
      <3> QED
        BY <3>1, <3>2, <3>3
    <2>8. c \notin ToSet(bs)
      BY <2>1 DEF Has, bs
    <2>9. Distinct(bs)
      BY <2>1 DEF bs
    <2>10. Distinct(more)
      <3>1. SUFFICES ASSUME NEW j \in 1 .. Len(bs) + 1, NEW k \in 1 .. Len(bs) + 1,
                            more[j] = more[k]
                     PROVE  j = k
        BY <2>5 DEF Distinct
      <3>2. \A m \in 1 .. Len(bs) : bs[m] # c
        BY <2>5, <2>8 DEF ToSet
      <3>3. CASE j = 1
        BY <2>5, <2>6, <3>1, <3>2, <3>3
      <3>4. CASE k = 1
        BY <2>5, <2>6, <3>1, <3>2, <3>4
      <3>5. CASE j # 1 /\ k # 1
        <4>1. PICK a \in 1 .. Len(bs) : j = a + 1
          BY <2>6, <3>5
        <4>2. PICK b \in 1 .. Len(bs) : k = b + 1
          BY <2>6, <3>5
        <4>3. bs[a] = bs[b]
          BY <2>5, <3>1, <4>1, <4>2
        <4>4. a = b
          BY <2>5, <2>9, <4>3 DEF Distinct
        <4> QED
          BY <4>1, <4>2, <4>4
      <3> QED
        BY <3>3, <3>4, <3>5
    <2>11. ASSUME NEW r \in Nat, NEW x
           PROVE  Has(new, r, x) <=> Has(rs, r, x) \/ (x = c /\ r = n)
      <3>1. CASE r = n
        BY <2>1, <2>4, <2>7, <3>1 DEF Has, bs
      <3>2. CASE r # n
        BY <2>1, <2>4, <3>2 DEF Has
      <3> QED
        BY <3>1, <3>2
    <2>12. ASSUME NEW r \in DOMAIN new
           PROVE  Distinct(new[r].blocks)
      <3>1. CASE r = n
        BY <2>4, <2>10, <3>1
      <3>2. CASE r # n
        BY <2>1, <2>4, <2>12, <3>2
      <3> QED
        BY <3>1, <3>2
    <2>13. HasAlso(new, rs, c, n)
      BY <2>11 DEF HasAlso
    <2> QED
      BY <2>1, <2>12, <2>13
  <1> QED
    BY <1>1, <1>2 DEF Gains

\* gc_free hands its chunk to the thread's garbage.
LEMMA FreeHeap ==
  ASSUME HeapInv, TypeInv', NEW t \in Tx, gc_free(t)
  PROVE  Heap'
  <1> USE DEF Goto, heap, rest
  <1> DEFINE x == loc[t].chunk
             o == loc[t].idx
             rs == slots[o].regions
  <1>0. /\ TypeInv /\ Heap /\ Step(t) /\ Holding(t) /\ ListsDistinct(t)
        /\ pc \in [Tx -> GcLabel] /\ loc[t] \in Locals
        /\ x \in Chunk /\ o \in Slot /\ loc[t].epoch \in Nat /\ rs \in Seq(Region)
        /\ slots[o].used = "BUSY"
    <2>1. TypeInv /\ Heap /\ loc[t] \in Locals
      BY DEF HeapInv, SlotInv, TypeInv
    <2>2. slots[o].used = "BUSY"
      BY ZenonT(60) DEF HeapInv, SlotInv, SlotOwner, HasSlot, gc_free
    <2> QED
      BY <2>1, <2>2, SlotsTypes DEF Heap, TypeInv, Locals, Step, Reclaims
  <1>1. /\ pc[t] = "gc_free" /\ pc'[t] = "cleanup" /\ threads' = threads /\ linked' = linked
        /\ icb' = icb /\ allocated' = allocated /\ loc' = loc
    BY <1>0, ZenonT(60) DEF gc_free
  <1>2. \/ slots' = [slots EXCEPT ![o].regions = Append(rs, [ts |-> loc[t].epoch, blocks |-> <<x>>])]
        \/ /\ rs # <<>>
           /\ slots' = [slots EXCEPT ![o].regions = [rs EXCEPT ![Len(rs)].blocks = <<x>> \o @]]
    BY ZenonT(60) DEF gc_free
  <1>3. PICK new : /\ \/ new = Append(rs, [ts |-> loc[t].epoch, blocks |-> <<x>>])
                      \/ rs # <<>> /\ new = [rs EXCEPT ![Len(rs)].blocks = <<x>> \o @]
                   /\ slots' = [slots EXCEPT ![o].regions = new]
    BY <1>2, Zenon
  <1>4. \A i \in Slot : /\ slots'[i].regions = IF i = o THEN new ELSE slots[i].regions
                        /\ slots'[i].used = slots[i].used
    <2>1. Differs(slots', o, slots[o].used, slots[o].ts, new)
      BY <1>0, <1>3, SlotEdits, Zenon
    <2> QED
      BY <2>1 DEF Differs
  <1>5. CalledOnly(x, t)
    <2>1. Single(x) /\ Calling(x, t)
      BY <1>0, <1>1 DEF Heap, Calling
    <2> QED
      BY <2>1, Found
  <1>6. PICK q \in Nat :
           /\ HasAlso(new, rs, x, q)
           /\ \A r \in DOMAIN new : Distinct(new[r].blocks)
    <2>1. \A r \in Nat : ~Has(rs, r, x)
      BY <1>0, <1>5 DEF CalledOnly, NotKept, Keeping
    <2>2. \A r \in DOMAIN rs : Distinct(rs[r].blocks)
      BY <1>0 DEF Heap, RegionsDistinct
    <2>3. /\ x \in Chunk /\ loc[t].epoch \in Nat /\ rs \in Seq(Region)
          /\ Gains(new, rs, x, loc[t].epoch)
      BY <1>0, <1>3, Zenon DEF Gains
    <2> HIDE DEF x, o, rs
    <2>4. \E q \in Nat : HasAlso(new, rs, x, q)
      BY <2>1, <2>2, <2>3, RegionGains
    <2>5. \A r \in DOMAIN new : Distinct(new[r].blocks)
      BY <2>1, <2>2, <2>3, RegionGains
    <2> QED
      BY <2>4, <2>5
  <1>7. \A c : \A i \in Slot : \A r \in Nat :
           Keeping(c, i, r)' <=> Keeping(c, i, r) \/ (c = x /\ i = o /\ r = q)
    BY <1>4, <1>6 DEF Keeping, HasAlso
  <1>8. \A c : Calling(c, t) <=> c = x
    BY <1>1 DEF Calling
  <1>9. \A c : ~Calling(c, t)'
    BY <1>1 DEF Calling
  <1>10. \A c : Listing(c, t)' <=> Listing(c, t)
    BY <1>1 DEF Listing, Listed
  <1>11. \A c : \A u \in Tx \ {t} : /\ Listing(c, u)' <=> Listing(c, u)
                                    /\ Calling(c, u)' <=> Calling(c, u)
    BY <1>0, OtherPlaces
  <1>12. InUse' = InUse
    BY <1>0, <1>1, InUseKept
  <1> HIDE DEF x, o, rs
  <1>13. ASSUME NEW c \in Chunk
         PROVE  Single(c)'
    <2>1. Single(c)
      BY <1>0 DEF Heap
    <2>2. CASE c = x
      <3>1. c \in allocated' /\ c \notin InUse' /\ NotListed(c)'
        BY <1>1, <1>5, <1>10, <1>11, <1>12, <2>2 DEF CalledOnly, NotListed
      <3>2. NotCalled(c)'
        BY <1>5, <1>9, <1>11, <2>2 DEF CalledOnly, NotCalled
      <3>0. PICK j \in Slot : j = o
        BY <1>0
      <3>3. \A i \in Slot : \A r \in Nat : Keeping(c, i, r)' <=> (i = j /\ r = q)
        BY <1>5, <1>7, <2>2, <3>0 DEF CalledOnly, NotKept
      <3>4. KeptOnly(c, j, q)'
        BY <3>1, <3>2, <3>3 DEF KeptOnly
      <3> QED
        BY <1>0, <3>4 DEF Single
    <2>3. CASE c # x
      <3>1. \A u \in Tx : Listing(c, u)' <=> Listing(c, u)
        BY <1>10, <1>11
      <3>2. \A u \in Tx : Calling(c, u)' <=> Calling(c, u)
        BY <1>8, <1>9, <1>11, <2>3
      <3>3. \A i \in Slot : \A r \in Nat : Keeping(c, i, r)' <=> Keeping(c, i, r)
        BY <1>7, <2>3
      <3> QED
        BY <1>1, <1>12, <2>1, <3>1, <3>2, <3>3, SingleKept
    <2> QED
      BY <2>2, <2>3
  <1>14. ListsDistinct(t)'
    BY <1>0, <1>1 DEF ListsDistinct, Listed, Distinct
  <1>15. ASSUME NEW i \in Slot
         PROVE  RegionsDistinct(i)'
    <2>1. RegionsDistinct(i)
      BY <1>0 DEF Heap
    <2>2. CASE i = o
      BY <1>0, <1>4, <1>6, <2>2 DEF RegionsDistinct
    <2>3. CASE i # o
      BY <1>4, <2>1, <2>3 DEF RegionsDistinct
    <2> QED
      BY <2>2, <2>3
  <1>16. Holding(t)'
    BY <1>0, <1>1 DEF Holding, Registered, Finishes, InGc
  <1> QED
    BY <1>0, <1>13, <1>14, <1>15, <1>16, HeapOf

\* What gc_cleanup_thread leaves of the regions, and what it frees.
LEMMA RegionsLeft ==
  ASSUME NEW rs \in Seq(Region), NEW n \in 0 .. Len(rs)
  PROVE  /\ \A r \in Nat : \A c : Has(SubSeq(rs, n + 1, Len(rs)), r, c) <=> r # 0 /\ Has(rs, r + n, c)
         /\ \A c : c \in Chunks(SubSeq(rs, 1, n)) <=> \E r \in 1 .. n : Has(rs, r, c)
         /\ \A r \in DOMAIN SubSeq(rs, n + 1, Len(rs)) :
               \E q \in DOMAIN rs : SubSeq(rs, n + 1, Len(rs))[r] = rs[q]
  <1> DEFINE m == Len(rs)
             new == SubSeq(rs, n + 1, m)
             old == SubSeq(rs, 1, n)
  <1>1. m \in Nat /\ DOMAIN rs = 1 .. m /\ n \in Nat /\ n <= m
    OBVIOUS
  <1>2. DOMAIN new = 1 .. m - n /\ \A r \in 1 .. m - n : new[r] = rs[r + n]
    OBVIOUS
  <1>3. DOMAIN old = 1 .. n /\ \A r \in 1 .. n : old[r] = rs[r]
    OBVIOUS
  <1> HIDE DEF m, new, old
  <1>4. ASSUME NEW r \in Nat, NEW c
        PROVE  Has(new, r, c) <=> r # 0 /\ Has(rs, r + n, c)
    <2>1. r \in 1 .. m - n <=> r # 0 /\ r + n \in 1 .. m
      BY <1>1
    <2> QED
      BY <1>1, <1>2, <2>1 DEF Has
  <1>5. ASSUME NEW c
        PROVE  c \in Chunks(old) <=> \E r \in 1 .. n : Has(rs, r, c)
    <2>1. c \in Chunks(old) <=> \E r \in DOMAIN old : c \in ToSet(old[r].blocks)
      BY DEF Chunks
    <2>2. \A r \in 1 .. n : r \in DOMAIN rs
      BY <1>1
    <2> QED
      BY <1>3, <2>1, <2>2 DEF Has
  <1>6. ASSUME NEW r \in DOMAIN new
        PROVE  r + n \in DOMAIN rs /\ new[r] = rs[r + n]
    BY <1>1, <1>2, <1>6
  <1>7. \A r \in DOMAIN new : \E q \in DOMAIN rs : new[r] = rs[q]
    BY <1>6
  <1> QED
    BY <1>4, <1>5, <1>7 DEF new, old, m

\* gc_cleanup_thread frees what it takes off.
LEMMA ReclaimHeap ==
  ASSUME HeapInv, TypeInv', NEW t \in Tx, gc_cleanup_thread(t)
  PROVE  Heap'
  <1> USE DEF Goto, heap, rest
  <1>0. /\ TypeInv /\ Heap /\ Step(t) /\ Holding(t) /\ ListsDistinct(t)
        /\ pc \in [Tx -> GcLabel] /\ loc[t] \in Locals
        /\ loc[t].then \in {"idle", "callback", "exit_ts"}
    BY DEF HeapInv, Heap, SlotInv, TypeInv, Step, Reclaims, Locals
  <1>1. PICK o \in Slot, rs \in Seq(Region) : o = loc[t].of /\ rs = slots[o].regions
    BY <1>0, SlotsTypes DEF Locals
  <1>2. /\ pc[t] = "reclaim" /\ pc'[t] = loc[t].then /\ threads' = threads /\ linked' = linked
        /\ icb' = icb
    BY <1>0 DEF gc_cleanup_thread
  <1>3. PICK n \in 0 .. Len(rs) :
           /\ allocated' = allocated \ Chunks(SubSeq(rs, 1, n))
           /\ slots' = [slots EXCEPT ![o].regions = SubSeq(rs, n + 1, Len(rs))]
    BY <1>1, Zenon DEF gc_cleanup_thread
  <1>4. \A i \in Slot :
           /\ slots'[i].regions = IF i = o THEN SubSeq(rs, n + 1, Len(rs)) ELSE slots[i].regions
           /\ slots'[i].used = slots[i].used
    <2>1. Differs(slots', o, slots[o].used, slots[o].ts, SubSeq(rs, n + 1, Len(rs)))
      BY <1>0, <1>3, SlotEdits
    <2> QED
      BY <2>1 DEF Differs
  <1>5. /\ \A r \in Nat : \A c : Has(SubSeq(rs, n + 1, Len(rs)), r, c) <=> r # 0 /\ Has(rs, r + n, c)
        /\ \A c : c \in Chunks(SubSeq(rs, 1, n)) <=> \E r \in 1 .. n : Has(rs, r, c)
        /\ \A r \in DOMAIN SubSeq(rs, n + 1, Len(rs)) :
              \E q \in DOMAIN rs : SubSeq(rs, n + 1, Len(rs))[r] = rs[q]
    BY RegionsLeft
  <1>6. \A c : \A i \in Slot \ {o} : \A r \in Nat : Keeping(c, i, r)' <=> Keeping(c, i, r)
    BY <1>4 DEF Keeping
  <1>7. \A c : \A r \in Nat : Keeping(c, o, r)' <=> r # 0 /\ Keeping(c, o, r + n)
    BY <1>1, <1>4, <1>5 DEF Keeping
  <1>8. \A c : c \in allocated' <=> c \in allocated /\ ~\E r \in 1 .. n : Keeping(c, o, r)
    BY <1>1, <1>3, <1>5 DEF Keeping
  <1>9. n \in Nat
    BY <1>1
  <1>10. Listed(t)' = Listed(t)
    BY <1>0, <1>2 DEF Listed
  <1>11. \A c : \A u \in Tx : /\ Listing(c, u)' <=> Listing(c, u)
                              /\ Calling(c, u)' <=> Calling(c, u)
    <2>1. ASSUME NEW c
          PROVE  Listing(c, t)' <=> Listing(c, t)
      BY <1>10 DEF Listing
    <2>2. ASSUME NEW c
          PROVE  ~Calling(c, t)' /\ ~Calling(c, t)
      BY <1>0, <1>2 DEF Calling
    <2> QED
      BY <1>0, <2>1, <2>2, OtherPlaces
  <1>12. InUse' = InUse
    BY <1>0, <1>2, InUseKept
  <1>13. ASSUME NEW c \in Chunk
         PROVE  Single(c)'
    <2>1. Single(c)
      BY <1>0 DEF Heap
    <2>2. (NotListed(c)' <=> NotListed(c)) /\ (NotCalled(c)' <=> NotCalled(c))
      BY <1>11 DEF NotListed, NotCalled
    <2>3. ASSUME NEW r \in Nat, Keeping(c, o, r)
          PROVE  Single(c)'
      <3>1. KeptOnly(c, o, r)
        BY <2>1, <2>3, Found
      <3>2. r # 0 /\ \A j \in Slot : \A q \in Nat : Keeping(c, j, q) <=> (j = o /\ q = r)
        BY <1>1, <2>3, <3>1 DEF KeptOnly, Keeping, Has
      <3>3. \A j \in Slot \ {o} : \A q \in Nat : ~Keeping(c, j, q)'
        BY <1>6, <3>2
      <3>4. \A q \in Nat : Keeping(c, o, q)' <=> q # 0 /\ q + n = r
        BY <1>7, <1>9, <3>2
      <3>5. CASE r <= n
        <4>1. c \notin allocated'
          BY <1>8, <1>9, <2>3, <3>2, <3>5
        <4>2. \A q \in Nat : ~Keeping(c, o, q)'
          BY <1>9, <3>4, <3>5
        <4>3. NotKept(c)'
          BY <3>3, <4>2 DEF NotKept
        <4>4. Nowhere(c)'
          BY <1>12, <2>2, <3>1, <4>1, <4>3 DEF Nowhere, KeptOnly
        <4> QED
          BY <4>4 DEF Single
      <3>6. CASE r > n
        <4>1. r - n \in Nat /\ \A q \in Nat : (q # 0 /\ q + n = r) <=> q = r - n
          BY <1>9, <3>6
        <4>2. c \in allocated'
          <5>1. \A q \in 1 .. n : q \in Nat /\ q # r
            BY <1>9, <3>6
          <5> QED
            BY <1>8, <3>1, <3>2, <5>1 DEF KeptOnly
        <4>3. \A j \in Slot : \A q \in Nat : Keeping(c, j, q)' <=> (j = o /\ q = r - n)
          BY <3>3, <3>4, <4>1
        <4>4. KeptOnly(c, o, r - n)'
          BY <1>12, <2>2, <3>1, <4>2, <4>3 DEF KeptOnly
        <4> QED
          BY <4>1, <4>4 DEF Single
      <3> QED
        BY <1>9, <3>5, <3>6
    <2>4. CASE \A r \in Nat : ~Keeping(c, o, r)
      <3>1. \A q \in Nat : ~Keeping(c, o, q)'
        <4>1. \A q \in Nat : q + n \in Nat
          BY <1>9
        <4> QED
          BY <1>7, <2>4, <4>1
      <3>2. \A i \in Slot : \A r \in Nat : Keeping(c, i, r)' <=> Keeping(c, i, r)
        BY <1>6, <2>4, <3>1
      <3>3. c \in allocated' <=> c \in allocated
        <4>1. \A q \in 1 .. n : q \in Nat
          BY <1>9
        <4> QED
          BY <1>8, <2>4, <4>1
      <3> QED
        BY <1>11, <1>12, <2>1, <3>2, <3>3, SingleKept
    <2> QED
      BY <2>3, <2>4
  <1>14. ListsDistinct(t)'
    BY <1>0, <1>2, <1>10 DEF ListsDistinct, Distinct
  <1>15. ASSUME NEW i \in Slot
         PROVE  RegionsDistinct(i)'
    <2>1. RegionsDistinct(i)
      BY <1>0 DEF Heap
    <2>2. CASE i = o
      <3>1. slots[o].used # "NULL" \/ rs = <<>>
        BY <1>1, <2>1, <2>2 DEF RegionsDistinct
      <3>2. rs = <<>> => SubSeq(rs, n + 1, Len(rs)) = <<>>
        OBVIOUS
      <3>3. \A q \in DOMAIN rs : Distinct(rs[q].blocks)
        BY <1>1, <2>1, <2>2 DEF RegionsDistinct
      <3>4. \A r \in DOMAIN slots'[i].regions : Distinct(slots'[i].regions[r].blocks)
        BY <1>4, <1>5, <2>2, <3>3
      <3> QED
        BY <1>4, <2>2, <3>1, <3>2, <3>4 DEF RegionsDistinct, Distinct
    <2>3. CASE i # o
      BY <1>4, <2>1, <2>3 DEF RegionsDistinct
    <2> QED
      BY <2>2, <2>3
  <1>16. Holding(t)'
    BY <1>0, <1>2 DEF Holding, Registered, Finishes, InGc
  <1> QED
    BY <1>0, <1>13, <1>14, <1>15, <1>16, HeapOf

\* A descriptor is handed to gc_free by its own thread, after it is unregistered.
LEMMA ExitFreeHeap ==
  ASSUME HeapInv, TypeInv', NEW t \in Tx, ExitFree(t)
  PROVE  Heap'
  <1> USE DEF Goto, heap, rest
  <1>0. /\ TypeInv /\ Heap /\ Step(t) /\ Holding(t) /\ ListsDistinct(t)
        /\ pc \in [Tx -> GcLabel] /\ loc \in [Tx -> Locals] /\ t \in Chunk
    BY DEF HeapInv, Heap, SlotInv, TypeInv, Step, Leaves, Chunk
  <1>1. /\ pc[t] = "exit" /\ pc'[t] = "gc_free" /\ threads' = threads /\ linked' = linked
        /\ icb' = icb /\ allocated' = allocated /\ slots' = slots
        /\ loc'[t].chunk = t /\ loc'[t].then = "exit_ts"
    BY <1>0 DEF ExitFree, Locals
  <1>2. t \notin threads /\ t \notin linked
    BY <1>0, <1>1, GcAssumption DEF Holding, Registered, InGc, TypeInv
  <1>3. \A c : c \in InUse' <=> c \in InUse /\ c # t
    <2>1. ASSUME NEW u \in Tx
          PROVE  pc'[u] = "exit" <=> pc[u] = "exit" /\ u # t
      <3>1. CASE u = t
        BY <1>1, <3>1
      <3>2. CASE u # t
        BY <1>0, <3>2, Others
      <3> QED
        BY <3>1, <3>2
    <2> QED
      BY <1>1, <1>2, <2>1 DEF InUse
  <1>4. t \in InUse
    BY <1>1 DEF InUse
  <1>5. Listed(t)' = Listed(t)
    BY <1>1 DEF Listed
  <1>6. \A c : Listing(c, t)' <=> Listing(c, t)
    BY <1>5 DEF Listing
  <1>7. \A c : ~Calling(c, t) /\ (Calling(c, t)' <=> c = t)
    BY <1>1 DEF Calling
  <1>8. \A c : \A u \in Tx \ {t} : /\ Listing(c, u)' <=> Listing(c, u)
                                   /\ Calling(c, u)' <=> Calling(c, u)
    BY <1>0, OtherPlaces
  <1>9. \A c : \A i \in Slot : \A r \in Nat : Keeping(c, i, r)' <=> Keeping(c, i, r)
    BY <1>1 DEF Keeping
  <1>10. ASSUME NEW c \in Chunk
         PROVE  Single(c)'
    <2>1. Single(c)
      BY <1>0 DEF Heap
    <2>2. CASE c = t
      <3>1. UsedOnly(c)
        BY <1>4, <2>1, <2>2, Found
      <3>2. c \in allocated' /\ c \notin InUse' /\ NotKept(c)'
        BY <1>1, <1>3, <1>9, <2>2, <3>1 DEF UsedOnly, NotKept
      <3>3. NotListed(c)'
        BY <1>6, <1>8, <3>1 DEF UsedOnly, NotListed
      <3>4. \A u \in Tx : Calling(c, u)' <=> u = t
        BY <1>7, <1>8, <2>2, <3>1 DEF UsedOnly, NotCalled
      <3>5. CalledOnly(c, t)'
        BY <3>2, <3>3, <3>4 DEF CalledOnly
      <3> QED
        BY <3>5 DEF Single
    <2>3. CASE c # t
      <3>1. \A u \in Tx : Listing(c, u)' <=> Listing(c, u)
        BY <1>6, <1>8
      <3>2. \A u \in Tx : Calling(c, u)' <=> Calling(c, u)
        BY <1>7, <1>8, <2>3
      <3>3. c \in InUse' <=> c \in InUse
        BY <1>3, <2>3
      <3> QED
        BY <1>1, <1>9, <2>1, <3>1, <3>2, <3>3, SingleKept
    <2> QED
      BY <2>2, <2>3
  <1>11. ListsDistinct(t)'
    BY <1>0, <1>1, <1>5 DEF ListsDistinct, Distinct
  <1>12. \A i \in Slot : RegionsDistinct(i)'
    BY <1>0, <1>1 DEF Heap, RegionsDistinct
  <1>13. Holding(t)'
    BY <1>0, <1>1, <1>2 DEF Holding, Registered, Finishes, InGc
  <1> QED
    BY <1>0, <1>10, <1>11, <1>12, <1>13, HeapOf

\* The other steps of a thread that leaves move no chunk.
LEMMA LeaveHeap ==
  ASSUME HeapInv, TypeInv', NEW t \in Tx, ExitThread(t) \/ ExitTs(t) \/ ExitUsed(t) \/ ExitNb(t)
  PROVE  Heap'
  <1> USE DEF Goto, heap, rest
  <1>0. /\ TypeInv /\ Heap /\ Step(t) /\ Holding(t) /\ ListsDistinct(t)
        /\ pc \in [Tx -> GcLabel] /\ loc \in [Tx -> Locals] /\ loc[t].idx \in Slot
    BY DEF HeapInv, Heap, SlotInv, TypeInv, Locals, Step, Leaves
  <1>1. /\ linked' = linked /\ allocated' = allocated /\ icb' = icb
        /\ pc[t] \in {"idle", "exit_ts", "exit_used", "exit_nb"}
        /\ pc'[t] \in {"exit", "exit_used", "exit_nb", "out"}
    BY <1>0 DEF ExitThread, ExitTs, ExitUsed, ExitNb
  <1>2. \A i \in Slot : /\ slots'[i].regions = slots[i].regions
                        /\ slots'[i].used = "NULL" => slots[i].used = "NULL"
    <2>1. \/ slots' = slots
          \/ slots' = [slots EXCEPT ![loc[t].idx].ts = EPOCH_MAX]
          \/ \E u \in {"FREE_EMPTY", "FREE_FULL"} : slots' = [slots EXCEPT ![loc[t].idx].used = u]
      <3>1. CASE ExitThread(t) \/ ExitTs(t) \/ ExitNb(t)
        BY <3>1 DEF ExitThread, ExitTs, ExitNb
      <3>2. CASE ExitUsed(t)
        BY <3>2 DEF ExitUsed, Free
      <3> QED
        BY <3>1, <3>2
    <2>2. CASE slots' = [slots EXCEPT ![loc[t].idx].ts = EPOCH_MAX]
      <3>1. Differs(slots', loc[t].idx, slots[loc[t].idx].used, EPOCH_MAX,
                    slots[loc[t].idx].regions)
        BY <1>0, <2>2, SlotEdits
      <3> QED
        BY <3>1 DEF Differs
    <2>3. CASE \E u \in {"FREE_EMPTY", "FREE_FULL"} : slots' = [slots EXCEPT ![loc[t].idx].used = u]
      <3>1. PICK u \in {"FREE_EMPTY", "FREE_FULL"} : slots' = [slots EXCEPT ![loc[t].idx].used = u]
        BY <2>3
      <3>2. Differs(slots', loc[t].idx, u, slots[loc[t].idx].ts, slots[loc[t].idx].regions)
        BY <1>0, <3>1, SlotEdits
      <3> QED
        BY <3>2 DEF Differs
    <2> QED
      BY <2>1, <2>2, <2>3
  <1>3. /\ t \in threads <=> pc[t] = "idle"
        /\ threads' = threads \ {t} /\ icb[t] = NoCallbacks
    <2>1. t \in threads <=> pc[t] = "idle"
      BY <1>0, <1>1 DEF Holding, Registered, InGc
    <2>2. \/ pc[t] = "idle" /\ threads' = threads \ {t}
          \/ pc[t] # "idle" /\ threads' = threads
      BY DEF ExitThread, ExitTs, ExitUsed, ExitNb
    <2>3. icb[t] = NoCallbacks
      BY <1>0, <1>1 DEF Holding, Finishes, InGc
    <2> QED
      BY <2>1, <2>2, <2>3
  <1>4. InUse' = InUse
    <2>1. CASE ExitThread(t)
      <3>1. pc[t] = "idle" /\ pc'[t] = "exit"
        BY <1>0, <2>1 DEF ExitThread
      <3>2. \A u \in Tx \ {t} : pc'[u] = "exit" <=> pc[u] = "exit"
        BY <1>0, Others
      <3> QED
        BY <1>1, <1>3, <3>1, <3>2 DEF InUse
    <2>2. CASE ExitTs(t) \/ ExitUsed(t) \/ ExitNb(t)
      <3>1. threads' = threads /\ pc'[t] # "exit" /\ pc[t] # "exit"
        BY <1>0, <1>1, <2>2 DEF ExitTs, ExitUsed, ExitNb
      <3> QED
        BY <1>0, <1>1, <3>1, InUseKept
    <2> QED
      BY <2>1, <2>2
  <1>5. Holding(t)'
    BY <1>1, <1>3 DEF Holding, Registered, Finishes, InGc
  <1>6. Listed(t)' = Listed(t) /\ Distinct(icb[t].commit)'
    BY <1>0, <1>1 DEF Listed, ListsDistinct, Distinct
  <1> QED
    BY <1>0, <1>1, <1>2, <1>4, <1>5, <1>6, HeapQuiet

\* gc_reset and gc_exit free all garbage, and that only.
LEMMA ResetHeap ==
  ASSUME HeapInv, TypeInv', Rollover \/ gc_exit
  PROVE  Heap'
  <1> USE DEF Goto, heap, rest
  <1>0. TypeInv /\ Heap /\ pc \in [Tx -> GcLabel]
    BY DEF HeapInv, SlotInv, TypeInv
  <1>1. /\ allocated' = allocated \ UNION {Chunks(slots[i].regions) : i \in Slot}
        /\ linked' = linked /\ threads' = threads /\ icb' = icb /\ loc' = loc
    BY DEF Rollover, gc_exit
  <1>2. \A u \in Tx : pc'[u] = pc[u] \/ (pc[u] = "barrier" /\ pc'[u] = "prepare")
    BY <1>0 DEF Rollover, gc_exit
  <1>3. \A i \in Slot : slots'[i].regions = <<>>
    <2>1. CASE Rollover
      <3>1. \A i \in Slot : slots[i] \in SlotType
        BY <1>0 DEF TypeInv
      <3>2. \A i \in Slot : slots[i].used = "NULL" => slots[i].regions = <<>>
        BY <1>0 DEF Heap, RegionsDistinct
      <3> QED
        BY <2>1, <3>1, <3>2 DEF Rollover, SlotType
    <2>2. CASE gc_exit
      BY <2>2 DEF gc_exit, NoSlots
    <2> QED
      BY <2>1, <2>2
  <1>4. \A u \in Tx : Listed(u)' = Listed(u)
    BY <1>1, <1>2 DEF Listed
  <1>5. \A c : \A u \in Tx : (Listing(c, u)' <=> Listing(c, u)) /\ (Calling(c, u)' <=> Calling(c, u))
    <2>1. \A c : \A u \in Tx : Listing(c, u)' <=> Listing(c, u)
      BY <1>4 DEF Listing
    <2>2. \A c : \A u \in Tx : Calling(c, u)' <=> Calling(c, u)
      BY <1>1, <1>2 DEF Calling
    <2> QED
      BY <2>1, <2>2
  <1>6. \A c : NotKept(c)'
    BY <1>3 DEF NotKept, Keeping, Has
  <1>7. InUse' = InUse
    BY <1>1, <1>2 DEF InUse
  <1>8. ASSUME NEW c
        PROVE  c \in UNION {Chunks(slots[i].regions) : i \in Slot}
                 <=> \E i \in Slot : \E r \in Nat : Keeping(c, i, r)
    <2>1. \A i \in Slot : DOMAIN slots[i].regions \subseteq Nat
      BY <1>0, SlotsTypes
    <2>2. \A i \in Slot : c \in Chunks(slots[i].regions) <=> \E r \in Nat : Keeping(c, i, r)
      BY <2>1 DEF Chunks, Keeping, Has
    <2> QED
      BY <2>2
  <1>9. ASSUME NEW c \in Chunk
        PROVE  Single(c)'
    <2>1. Single(c)
      BY <1>0 DEF Heap
    <2>2. (NotListed(c)' <=> NotListed(c)) /\ (NotCalled(c)' <=> NotCalled(c))
      BY <1>5 DEF NotListed, NotCalled
    <2>3. CASE \E i \in Slot : \E r \in Nat : Keeping(c, i, r)
      <3>1. c \notin InUse /\ NotListed(c) /\ NotCalled(c)
        BY <2>1, <2>3, Found DEF KeptOnly
      <3>2. c \notin allocated'
        BY <1>1, <1>8, <2>3
      <3>3. Nowhere(c)'
        BY <1>6, <1>7, <2>2, <3>1, <3>2 DEF Nowhere
      <3> QED
        BY <3>3 DEF Single
    <2>4. CASE ~\E i \in Slot : \E r \in Nat : Keeping(c, i, r)
      <3>1. c \in allocated' <=> c \in allocated
        BY <1>1, <1>8, <2>4
      <3>2. \A i \in Slot : \A r \in Nat : Keeping(c, i, r)' <=> Keeping(c, i, r)
        BY <1>6, <2>4 DEF NotKept
      <3> QED
        BY <1>5, <1>7, <2>1, <3>1, <3>2, SingleKept
    <2> QED
      BY <2>3, <2>4
  <1>10. ASSUME NEW u \in Tx
         PROVE  Holding(u)' /\ ListsDistinct(u)'
    <2>1. Holding(u) /\ ListsDistinct(u)
      BY <1>0 DEF Heap
    <2>2. (Registered(u)' <=> Registered(u)) /\ (Finishes(u)' <=> Finishes(u))
      BY <1>1, <1>2 DEF Registered, Finishes, InGc
    <2>3. u \in allocated' => u \in allocated
      BY <1>1
    <2>4. pc'[u] # pc[u] => pc[u] = "barrier" /\ pc'[u] = "prepare"
      BY <1>2
    <2>5. Holding(u)'
      BY <1>1, <2>1, <2>2, <2>3, <2>4 DEF Holding
    <2>6. ListsDistinct(u)'
      BY <1>1, <1>4, <2>1 DEF ListsDistinct, Distinct
    <2> QED
      BY <2>5, <2>6
  <1>11. \A i \in Slot : RegionsDistinct(i)'
    BY <1>3 DEF RegionsDistinct
  <1> QED
    BY <1>9, <1>10, <1>11 DEF Heap

\* The heap's invariant.
LEMMA HeapInit == Init => HeapInv
  <1> SUFFICES ASSUME Init
               PROVE  HeapInv
    OBVIOUS
  <1>1. \A t \in Tx : pc[t] = "out" /\ icb[t] = NoCallbacks /\ Listed(t) = <<>>
    BY DEF Init, Listed, NoCallbacks
  <1>2. allocated = {} /\ threads = {} /\ linked = {}
    BY DEF Init
  <1>3. \A i \in Slot : slots[i].regions = <<>>
    BY DEF Init, NoSlots
  <1>4. \A t \in Tx : Holding(t)
    BY <1>1, <1>2 DEF Holding, Registered, InGc
  <1>5. \A t \in Tx : ListsDistinct(t)
    BY <1>1 DEF ListsDistinct, Distinct, NoCallbacks
  <1>6. \A i \in Slot : RegionsDistinct(i)
    BY <1>3 DEF RegionsDistinct
  <1>7. ASSUME NEW c \in Chunk
        PROVE  Single(c)
    <2>1. NotListed(c)
      BY <1>1 DEF NotListed, Listing, ToSet
    <2>2. NotCalled(c)
      BY <1>1 DEF NotCalled, Calling
    <2>3. NotKept(c)
      BY <1>3 DEF NotKept, Keeping, Has
    <2>4. c \notin InUse
      BY <1>1, <1>2 DEF InUse
    <2> QED
      BY <1>2, <2>1, <2>2, <2>3, <2>4 DEF Single, Nowhere
  <1> QED
    BY <1>4, <1>5, <1>6, <1>7, SlotInit DEF HeapInv, Heap

LEMMA HeapStep == HeapInv /\ [Next]_vars => HeapInv'
  <1> SUFFICES ASSUME HeapInv, [Next]_vars
               PROVE  HeapInv'
    OBVIOUS
  <1>1. SlotInv' /\ TypeInv'
    BY SlotStep DEF HeapInv, SlotInv
  <1>2. CASE UNCHANGED vars
    <2>1. \A t \in Tx : Listed(t)' = Listed(t)
      BY <1>2 DEF vars, Listed
    <2>2. \A t \in Tx : /\ Holding(t)' <=> Holding(t)
                        /\ ListsDistinct(t)' <=> ListsDistinct(t)
      BY <1>2, <2>1 DEF vars, Holding, Registered, Finishes, ListsDistinct
    <2>3. \A i \in Slot : RegionsDistinct(i)' <=> RegionsDistinct(i)
      BY <1>2 DEF vars, RegionsDistinct
    <2>4. ASSUME NEW c \in Chunk
          PROVE  Single(c)'
      <3>1. \A u \in Tx : (Listing(c, u)' <=> Listing(c, u)) /\ (Calling(c, u)' <=> Calling(c, u))
        BY <1>2, <2>1 DEF vars, Listing, Calling
      <3>2. \A i \in Slot : \A r \in Nat : Keeping(c, i, r)' <=> Keeping(c, i, r)
        BY <1>2 DEF vars, Keeping
      <3>3. InUse' = InUse /\ allocated' = allocated
        BY <1>2 DEF vars, InUse
      <3>4. Single(c)
        BY DEF HeapInv, Heap
      <3> QED
        BY <3>1, <3>2, <3>3, <3>4, SingleKept
    <2> QED
      BY <1>1, <2>2, <2>3, <2>4 DEF HeapInv, Heap
  <1>3. ASSUME NEW t \in Tx, Step(t)
        PROVE  Heap'
    <2>1. CASE Joins(t)
      BY <1>1, <2>1, JoinHeap
    <2>2. CASE Transacts(t)
      BY <1>1, <2>2, QuietTransactHeap, MallocHeap, CommitHeap, OnCommitHeap, OnAbortHeap
         DEF Transacts
    <2>3. CASE Reclaims(t)
      BY <1>1, <2>3, ScanHeap, FreeHeap, ReclaimHeap DEF Reclaims
    <2>4. CASE Leaves(t)
      BY <1>1, <2>4, ExitFreeHeap, LeaveHeap DEF Leaves
    <2> QED
      BY <1>3, <2>1, <2>2, <2>3, <2>4 DEF Step
  <1>4. Next => (\E t \in Tx : Step(t)) \/ Rollover \/ gc_exit
    BY DEF Next, Step, Joins, Transacts, Reclaims, Leaves
  <1> QED
    BY <1>1, <1>2, <1>3, <1>4, ResetHeap DEF HeapInv

\* Where a chunk occurs in a list.
LEMMA OccursIn ==
  ASSUME NEW c, NEW s
  PROVE  /\ c \notin ToSet(s) => Occurs(c, s) = {}
         /\ c \in ToSet(s) /\ Distinct(s) => \E k : Occurs(c, s) = {k}
  <1>1. c \notin ToSet(s) => Occurs(c, s) = {}
    BY DEF ToSet, Occurs
  <1>2. ASSUME c \in ToSet(s), Distinct(s)
        PROVE  \E k : Occurs(c, s) = {k}
    <2>1. PICK k \in DOMAIN s : s[k] = c
      BY <1>2 DEF ToSet
    <2>2. Occurs(c, s) = {k}
      BY <1>2, <2>1 DEF Distinct, Occurs
    <2> QED
      BY <2>2
  <1> QED
    BY <1>1, <1>2

\* The places of a chunk, one kind after the other.
LEMMA NoPlaces ==
  ASSUME TypeInv, NEW c
  PROVE  /\ NotListed(c) => InLists(c) = {}
         /\ NotCalled(c) => InCalls(c) = {}
         /\ NotKept(c) => InGarbage(c) = {}
         /\ c \notin InUse => {<<"use", 0, 0, 0>> : x \in {c} \cap InUse} = {}
  <1>1. ASSUME NotListed(c)
        PROVE  InLists(c) = {}
    <2>1. \A t \in Tx : Occurs(c, Listed(t)) = {}
      BY <1>1, OccursIn DEF NotListed, Listing
    <2> QED
      BY <2>1 DEF InLists
  <1>2. ASSUME NotCalled(c)
        PROVE  InCalls(c) = {}
    BY <1>2 DEF NotCalled, Calling, InCalls
  <1>3. ASSUME NotKept(c)
        PROVE  InGarbage(c) = {}
    <2>1. ASSUME NEW i \in Slot, NEW r \in DOMAIN slots[i].regions
          PROVE  Occurs(c, slots[i].regions[r].blocks) = {}
      <3>1. r \in Nat
        BY <2>1, SlotsTypes
      <3>2. ~Keeping(c, i, r)
        BY <1>3, <3>1 DEF NotKept
      <3> QED
        BY <2>1, <3>2, OccursIn DEF Keeping, Has
    <2> QED
      BY <2>1 DEF InGarbage
  <1> QED
    BY <1>1, <1>2, <1>3

LEMMA OnePlace ==
  ASSUME HeapInv, NEW c \in Chunk
  PROVE  /\ c \notin allocated => Places(c) = {}
         /\ c \in allocated => \E p : Places(c) = {p}
  <1>0. TypeInv /\ Heap /\ Single(c)
    BY DEF HeapInv, Heap, SlotInv
  <1> DEFINE InStructure == {<<"use", 0, 0, 0>> : x \in {c} \cap InUse}
  <1>1. Places(c) = InLists(c) \cup InCalls(c) \cup InGarbage(c) \cup InStructure
    BY DEF Places
  <1>2. /\ NotListed(c) => InLists(c) = {}
        /\ NotCalled(c) => InCalls(c) = {}
        /\ NotKept(c) => InGarbage(c) = {}
        /\ c \notin InUse => InStructure = {}
    BY <1>0, NoPlaces
  <1>3. c \in InUse => InStructure = {<<"use", 0, 0, 0>>}
    OBVIOUS
  <1> HIDE DEF InStructure
  <1>4. CASE Nowhere(c)
    BY <1>1, <1>2, <1>4 DEF Nowhere
  <1>5. CASE UsedOnly(c)
    BY <1>1, <1>2, <1>3, <1>5 DEF UsedOnly
  <1>6. ASSUME NEW t \in Tx, ListedOnly(c, t)
        PROVE  c \in allocated /\ \E p : Places(c) = {p}
    <2>1. /\ c \in allocated /\ c \notin InUse /\ NotCalled(c) /\ NotKept(c)
          /\ \A u \in Tx : c \in ToSet(Listed(u)) <=> u = t
      BY <1>6 DEF ListedOnly, Listing
    <2>2. Distinct(Listed(t))
      BY <1>0 DEF Heap, ListsDistinct
    <2>3. PICK k : Occurs(c, Listed(t)) = {k}
      BY <2>1, <2>2, OccursIn
    <2>4. \A u \in Tx \ {t} : Occurs(c, Listed(u)) = {}
      BY <2>1, OccursIn
    <2>5. InLists(c) = {<<"list", t, 0, k>>}
      <3>1. \A p : p \in InLists(c) <=> \E u \in Tx : \E j \in Occurs(c, Listed(u)) : p = <<"list", u, 0, j>>
        BY DEF InLists
      <3> QED
        BY <2>3, <2>4, <3>1
    <2> QED
      BY <1>1, <1>2, <2>1, <2>5
  <1>7. ASSUME NEW t \in Tx, CalledOnly(c, t)
        PROVE  c \in allocated /\ \E p : Places(c) = {p}
    <2>1. /\ c \in allocated /\ c \notin InUse /\ NotListed(c) /\ NotKept(c)
          /\ \A u \in Tx : pc[u] = "gc_free" /\ loc[u].chunk = c <=> u = t
      BY <1>7 DEF CalledOnly, Calling
    <2>2. {u \in Tx : pc[u] = "gc_free" /\ loc[u].chunk = c} = {t}
      BY <2>1
    <2>3. InCalls(c) = {<<"free", t, 0, 0>>}
      BY <2>2 DEF InCalls
    <2> QED
      BY <1>1, <1>2, <2>1, <2>3
  <1>8. ASSUME NEW i \in Slot, NEW r \in Nat, KeptOnly(c, i, r)
        PROVE  c \in allocated /\ \E p : Places(c) = {p}
    <2>1. /\ c \in allocated /\ c \notin InUse /\ NotListed(c) /\ NotCalled(c)
          /\ \A j \in Slot : \A q \in Nat : Keeping(c, j, q) <=> j = i /\ q = r
      BY <1>8 DEF KeptOnly
    <2>2. r \in DOMAIN slots[i].regions /\ c \in ToSet(slots[i].regions[r].blocks)
      BY <2>1 DEF Keeping, Has
    <2>3. Distinct(slots[i].regions[r].blocks)
      BY <1>0, <2>2 DEF Heap, RegionsDistinct
    <2>4. PICK k : Occurs(c, slots[i].regions[r].blocks) = {k}
      BY <2>2, <2>3, OccursIn
    <2>5. ASSUME NEW j \in Slot, NEW q \in DOMAIN slots[j].regions, j # i \/ q # r
          PROVE  Occurs(c, slots[j].regions[q].blocks) = {}
      <3>1. q \in Nat
        BY <1>0, <2>5, SlotsTypes
      <3>2. c \notin ToSet(slots[j].regions[q].blocks)
        BY <2>1, <2>5, <3>1 DEF Keeping, Has
      <3> QED
        BY <3>2, OccursIn
    <2>6. InGarbage(c) = {<<"garbage", i, r, k>>}
      <3>1. \A p : p \in InGarbage(c) <=>
               \E j \in Slot : \E q \in DOMAIN slots[j].regions :
                  \E l \in Occurs(c, slots[j].regions[q].blocks) : p = <<"garbage", j, q, l>>
        BY DEF InGarbage
      <3> QED
        BY <2>2, <2>4, <2>5, <3>1
    <2> QED
      BY <1>1, <1>2, <2>1, <2>6
  <1> QED
    BY <1>0, <1>4, <1>5, <1>6, <1>7, <1>8 DEF Single, Nowhere, UsedOnly

\* stm_malloc, stm_free, their callbacks and the garbage collector: no memory is lost and
\* none is freed twice, through any sequence of commits, rollbacks, resets and exits.
THEOREM AllAccounted == Spec => []Accounted
  <1>1. HeapInv => Accounted
    <2> SUFFICES ASSUME HeapInv, NEW c \in Chunk
                 PROVE  Cardinality(Places(c)) = IF c \in allocated THEN 1 ELSE 0
      BY DEF Accounted
    <2> QED
      BY OnePlace, FS_EmptySet, FS_Singleton
  <1> QED
    BY <1>1, HeapInit, HeapStep, PTL DEF Spec

-----------------------------------------------------------------------------
(* Epochs *)

\* What leads to the labels that the epochs' invariant is about.
LEMMA Moves ==
  ASSUME TypeInv, NEW t \in Tx, Step(t)
  PROVE  /\ pc'[t] = "bound" => ReadEpoch(t)
         /\ Waits(t)' => \/ Start(t) \/ Prepare(t) \/ gc_set_epoch(t) \/ Malloc(t) \/ FreeBlock(t)
                         \/ OnAbort(t)
         /\ pc'[t] \in {"scan", "scan_ts", "reclaim"} =>
               gc_cleanup(t) \/ ScanUsed(t) \/ ScanTs(t) \/ gc_cleanup_all(t)
         /\ pc'[t] = "gc_free" => OnCommit(t) \/ ExitFree(t)
  <1> USE DEF Goto, Waits
  <1>0. pc \in [Tx -> GcLabel] /\ loc[t].then \in {"idle", "callback", "exit_ts"}
    BY DEF TypeInv, Locals
  <1>1. CASE Joins(t)
    <2>1. pc'[t] \in {"slot", "slot_cas", "epoch", "enter", "idle"} \/ ReadEpoch(t)
      <3>1. CASE InitThread(t) \/ SetBound(t) \/ EnterThread(t)
        BY <1>0, <3>1 DEF InitThread, SetBound, EnterThread
      <3>2. CASE FindSlot(t)
        BY <1>0, <3>2 DEF FindSlot
      <3>3. CASE TakeSlot(t)
        BY <1>0, <3>3 DEF TakeSlot
      <3> QED
        BY <1>1, <3>1, <3>2, <3>3 DEF Joins
    <2>2. ReadEpoch(t) => pc'[t] = "bound"
      BY <1>0 DEF ReadEpoch
    <2> QED
      BY <2>1, <2>2
  <1>2. CASE Transacts(t)
    <2>1. CASE Commit(t) \/ OnCommitEnd(t)
      <3>1. pc'[t] \in {"callback", "idle"}
        BY <1>0, <2>1 DEF Commit, OnCommitEnd
      <3> QED
        BY <3>1
    <2>2. CASE OnCommit(t)
      <3>1. pc'[t] = "gc_free"
        BY <1>0, <2>2 DEF OnCommit
      <3> QED
        BY <2>2, <3>1
    <2>3. CASE Start(t) \/ Prepare(t) \/ gc_set_epoch(t) \/ Malloc(t) \/ FreeBlock(t) \/ OnAbort(t)
      <3>1. pc'[t] \in {"prepare", "barrier", "set_epoch", "active", "idle"}
        <4>1. CASE Start(t) \/ Prepare(t) \/ gc_set_epoch(t)
          BY <1>0, <4>1 DEF Start, Prepare, gc_set_epoch
        <4>2. CASE Malloc(t) \/ FreeBlock(t) \/ OnAbort(t)
          BY <1>0, <4>2 DEF Malloc, FreeBlock, OnAbort
        <4> QED
          BY <2>3, <4>1, <4>2
      <3> QED
        BY <2>3, <3>1
    <2> QED
      BY <1>2, <2>1, <2>2, <2>3 DEF Transacts
  <1>3. CASE Reclaims(t)
    <2>1. CASE gc_free(t) \/ gc_cleanup_thread(t)
      <3>1. pc'[t] \in {"cleanup", "idle", "callback", "exit_ts"}
        BY <1>0, <2>1, Zenon DEF gc_free, gc_cleanup_thread
      <3> QED
        BY <3>1
    <2>2. CASE gc_cleanup(t) \/ ScanUsed(t) \/ ScanTs(t) \/ gc_cleanup_all(t)
      <3>1. pc'[t] \in {"scan", "scan_ts", "reclaim"}
        <4>1. CASE ScanUsed(t)
          <5>1. \/ pc[t] = "scan" /\ pc' = pc
                \/ pc' = [pc EXCEPT ![t] = "scan_ts"]
                \/ pc' = [pc EXCEPT ![t] = "reclaim"]
            BY <4>1 DEF ScanUsed
          <5> QED
            BY <1>0, <5>1
        <4>2. CASE gc_cleanup(t) \/ ScanTs(t) \/ gc_cleanup_all(t)
          BY <1>0, <4>2, Zenon DEF gc_cleanup, ScanTs, gc_cleanup_all
        <4> QED
          BY <2>2, <4>1, <4>2
      <3> QED
        BY <2>2, <3>1
    <2> QED
      BY <1>3, <2>1, <2>2 DEF Reclaims
  <1>4. CASE Leaves(t)
    <2>1. pc'[t] \in {"exit", "exit_used", "exit_nb", "out"} \/ (ExitFree(t) /\ pc'[t] = "gc_free")
      BY <1>0, <1>4 DEF Leaves, ExitThread, ExitFree, ExitTs, ExitUsed, ExitNb
    <2> QED
      BY <2>1
  <1> QED
    BY <1>1, <1>2, <1>3, <1>4 DEF Step

\* A thread that runs has been running, or has just read the clock.
LEMMA RunsOn ==
  ASSUME TypeInv, NEW t \in Tx, Step(t), Runs(t)'
  PROVE  /\ loc'[t].idx = loc[t].idx
         /\ \/ Runs(t) /\ loc'[t].start = loc[t].start
            \/ Prepare(t) /\ pc'[t] = "set_epoch" /\ loc'[t].start = clock
  <1> USE DEF Goto, Runs
  <1>0. pc \in [Tx -> GcLabel] /\ loc \in [Tx -> Locals] /\ loc[t] \in Locals
    BY DEF TypeInv
  <1>1. \/ Prepare(t) \/ gc_set_epoch(t) \/ Malloc(t) \/ FreeBlock(t)
    <2>1. \/ Start(t) \/ Prepare(t) \/ gc_set_epoch(t) \/ Malloc(t) \/ FreeBlock(t) \/ OnAbort(t)
      BY Moves DEF Waits
    <2> QED
      BY <1>0, <2>1 DEF Start, OnAbort
  <1>2. CASE Prepare(t)
    <2>1. pc'[t] # "barrier"
      OBVIOUS
    <2>2. pc'[t] = "set_epoch" /\ loc' = [loc EXCEPT ![t].start = clock]
      BY <1>0, <1>2, <2>1 DEF Prepare
    <2> QED
      BY <1>0, <1>2, <2>2 DEF Locals
  <1>3. CASE gc_set_epoch(t) \/ Malloc(t) \/ FreeBlock(t)
    BY <1>3 DEF gc_set_epoch, Malloc, FreeBlock
  <1> QED
    BY <1>1, <1>2, <1>3

\* The clock advances when a transaction commits.
LEMMA ClockStep ==
  ASSUME TypeInv, NEW t \in Tx, Step(t)
  PROVE  /\ features' = features
         /\ clock' = clock \/ (Commit(t) /\ clock' = clock + 1)
  <1> USE DEF rest
  <1>1. CASE Joins(t)
    BY <1>1 DEF Joins, InitThread, FindSlot, TakeSlot, ReadEpoch, SetBound, EnterThread
  <1>2. CASE Transacts(t)
    BY <1>2 DEF Transacts, Start, Prepare, gc_set_epoch, Malloc, FreeBlock, Commit, OnCommit,
                OnCommitEnd, OnAbort
  <1>3. CASE Reclaims(t)
    BY <1>3, Zenon DEF Reclaims, gc_free, gc_cleanup, ScanUsed, ScanTs, gc_cleanup_thread, gc_cleanup_all
  <1>4. CASE Leaves(t)
    BY <1>4 DEF Leaves, ExitThread, ExitFree, ExitTs, ExitUsed, ExitNb
  <1> QED
    BY <1>1, <1>2, <1>3, <1>4 DEF Step

LEMMA ClockUp ==
  ASSUME TypeInv, TypeInv', NEW t \in Tx, Step(t)
  PROVE  clock \in Nat /\ clock' \in Nat /\ clock <= clock'
  BY ClockStep DEF TypeInv

\* Who writes what to the slots.
LEMMA SlotWrites ==
  ASSUME SlotInv, NEW t \in Tx, Step(t), NEW i \in Slot
  PROVE  /\ \/ slots'[i].ts = slots[i].ts
            \/ /\ i = loc[t].idx /\ (SetBound(t) \/ gc_set_epoch(t))
               /\ slots'[i].ts = loc[t].start
            \/ i = loc[t].idx /\ ExitTs(t) /\ slots'[i].ts = EPOCH_MAX
         /\ slots'[i].regions = slots[i].regions \/ gc_free(t) \/ gc_cleanup_thread(t)
         /\ slots'[i].used = "NULL" => slots[i].used = "NULL"
  <1>0. TypeInv /\ loc[t].idx \in Slot /\ loc[t].of \in Slot
    BY DEF SlotInv, TypeInv, Locals
  <1>1. \/ slots' = slots
        \/ \E j \in Slot : \E u \in Used \ {"NULL"} : slots' = [slots EXCEPT ![j].used = u]
        \/ /\ gc_free(t) \/ gc_cleanup_thread(t)
           /\ \E j \in Slot : \E rs : slots' = [slots EXCEPT ![j].regions = rs]
        \/ /\ SetBound(t) \/ gc_set_epoch(t)
           /\ slots' = [slots EXCEPT ![loc[t].idx].ts = loc[t].start]
        \/ ExitTs(t) /\ slots' = [slots EXCEPT ![loc[t].idx].ts = EPOCH_MAX]
    <2> USE DEF heap, rest
    <2>0. \A u \in {"BUSY", "FREE_EMPTY", "FREE_FULL"} : u \in Used \ {"NULL"}
      BY DEF Used
    <2>1. CASE Joins(t)
      <3>1. CASE InitThread(t) \/ FindSlot(t) \/ ReadEpoch(t) \/ SetBound(t) \/ EnterThread(t)
        BY <3>1 DEF InitThread, FindSlot, ReadEpoch, SetBound, EnterThread
      <3>2. CASE TakeSlot(t)
        <4>1. loc[t].i \in Slot
          BY <3>2 DEF SlotInv, Searches, TakeSlot
        <4> QED
          BY <2>0, <3>2, <4>1 DEF TakeSlot
      <3> QED
        BY <2>1, <3>1, <3>2 DEF Joins
    <2>2. CASE Transacts(t)
      BY <2>2 DEF Transacts, Start, Prepare, gc_set_epoch, Malloc, FreeBlock, Commit, OnCommit,
                  OnCommitEnd, OnAbort
    <2>3. CASE Reclaims(t)
      <3>1. CASE gc_cleanup(t) \/ ScanUsed(t) \/ ScanTs(t)
        BY <3>1 DEF gc_cleanup, ScanUsed, ScanTs
      <3>2. CASE gc_cleanup_all(t)
        BY <2>0, <3>2 DEF gc_cleanup_all
      <3>3. CASE gc_free(t) \/ gc_cleanup_thread(t)
        <4>1. \E j \in Slot : \E rs : slots' = [slots EXCEPT ![j].regions = rs]
          BY <1>0, <3>3, Zenon DEF gc_free, gc_cleanup_thread
        <4> QED
          BY <3>3, <4>1
      <3> QED
        BY <2>3, <3>1, <3>2, <3>3 DEF Reclaims
    <2>4. CASE Leaves(t)
      <3>1. CASE ExitThread(t) \/ ExitFree(t) \/ ExitTs(t) \/ ExitNb(t)
        BY <3>1 DEF ExitThread, ExitFree, ExitTs, ExitNb
      <3>2. CASE ExitUsed(t)
        <4>1. PICK u \in {"FREE_EMPTY", "FREE_FULL"} : slots' = [slots EXCEPT ![loc[t].idx].used = u]
          BY <3>2 DEF ExitUsed, Free
        <4> QED
          BY <1>0, <2>0, <4>1
      <3> QED
        BY <2>4, <3>1, <3>2 DEF Leaves
    <2> QED
      BY <2>1, <2>2, <2>3, <2>4 DEF Step
  <1>2. ASSUME NEW j \in Slot, NEW u \in Used \ {"NULL"}, slots' = [slots EXCEPT ![j].used = u]
        PROVE  /\ slots'[i].ts = slots[i].ts /\ slots'[i].regions = slots[i].regions
               /\ slots'[i].used = "NULL" => slots[i].used = "NULL"
    <2>1. Differs(slots', j, u, slots[j].ts, slots[j].regions)
      BY <1>0, <1>2, SlotEdits
    <2> QED
      BY <2>1 DEF Differs
  <1>3. ASSUME NEW j \in Slot, NEW rs, slots' = [slots EXCEPT ![j].regions = rs]
        PROVE  slots'[i].ts = slots[i].ts /\ slots'[i].used = slots[i].used
    <2>1. Differs(slots', j, slots[j].used, slots[j].ts, rs)
      BY <1>0, <1>3, SlotEdits
    <2> QED
      BY <2>1 DEF Differs
  <1>4. ASSUME NEW n, slots' = [slots EXCEPT ![loc[t].idx].ts = n]
        PROVE  /\ slots'[i].ts = IF i = loc[t].idx THEN n ELSE slots[i].ts
               /\ slots'[i].regions = slots[i].regions /\ slots'[i].used = slots[i].used
    <2>1. Differs(slots', loc[t].idx, slots[loc[t].idx].used, n, slots[loc[t].idx].regions)
      BY <1>0, <1>4, SlotEdits
    <2> QED
      BY <2>1 DEF Differs
  <1> QED
    BY <1>1, <1>2, <1>3, <1>4

\* Threads join or leave only where the clock is not reset while they do.
LEMMA ResetsStep ==
  ASSUME EpochInv, TypeInv', NEW t \in Tx, Step(t)
  PROVE  ResetApart' /\ Resets'
  <1> USE DEF Goto, heap, rest
  <1>0. TypeInv /\ Resets /\ ResetApart /\ pc \in [Tx -> GcLabel]
    BY DEF EpochInv, HeapInv, SlotInv, TypeInv
  <1>1. ResetApart'
    BY <1>0, ClockStep DEF ResetApart
  <1>2. CASE "reset" \in features
    <2>1. threads \subseteq threads' /\ threads' \subseteq Tx
      <3>1. CASE Joins(t)
        BY <3>1 DEF TypeInv, Joins, InitThread, FindSlot, TakeSlot, ReadEpoch, SetBound, EnterThread
      <3>2. CASE Transacts(t)
        BY <3>2 DEF TypeInv, Transacts, Start, Prepare, gc_set_epoch, Malloc, FreeBlock, Commit,
                    OnCommit, OnCommitEnd, OnAbort
      <3>3. CASE Reclaims(t)
        BY <3>3, Zenon DEF TypeInv, Reclaims, gc_free, gc_cleanup, ScanUsed, ScanTs, gc_cleanup_thread,
                    gc_cleanup_all
      <3>4. CASE Leaves(t)
        <4>1. ~ExitThread(t)
          BY <1>0, <1>2 DEF ExitThread, ResetApart
        <4> QED
          BY <3>4, <4>1 DEF TypeInv, Leaves, ExitFree, ExitTs, ExitUsed, ExitNb
      <3> QED
        BY <3>1, <3>2, <3>3, <3>4 DEF Step
    <2>2. ASSUME NEW u \in Tx, Waits(u)'
          PROVE  threads = Tx
      <3>1. CASE u = t
        <4>1. Waits(t) \/ Start(t)
          <5>1. CASE Start(t)
            BY <5>1
          <5>2. CASE Prepare(t) \/ gc_set_epoch(t) \/ Malloc(t) \/ FreeBlock(t) \/ OnAbort(t)
            BY <5>2 DEF Waits, Prepare, gc_set_epoch, Malloc, FreeBlock, OnAbort
          <5> QED
            BY <1>0, <2>2, <3>1, <5>1, <5>2, Moves
        <4>2. Start(t) => threads = Tx
          BY <1>0, <1>2 DEF Start, ResetApart
        <4> QED
          BY <1>0, <1>2, <4>1, <4>2 DEF Resets
      <3>2. CASE u # t
        <4>1. Waits(u)
          BY <1>0, <2>2, <3>2, Others DEF Waits
        <4> QED
          BY <1>0, <1>2, <4>1 DEF Resets
      <3> QED
        BY <3>1, <3>2
    <2>3. "reset" \in features'
      BY <1>0, <1>2, ClockStep
    <2> QED
      BY <1>1, <2>1, <2>2, <2>3 DEF Resets
  <1>3. CASE "reset" \notin features
    <2>1. clock < VERSION_MAX /\ \A u \in Tx : pc[u] # "barrier"
      BY <1>0, <1>3 DEF Resets
    <2>2. clock' < VERSION_MAX
      BY <1>0, <1>3, <2>1, ClockStep DEF Commit
    <2>3. ASSUME NEW u \in Tx
          PROVE  pc'[u] # "barrier"
      <3>1. CASE u # t
        BY <1>0, <2>1, <3>1, Others
      <3>2. ASSUME pc'[t] = "barrier"
            PROVE  FALSE
        <4>1. \/ Start(t) \/ Prepare(t) \/ gc_set_epoch(t) \/ Malloc(t) \/ FreeBlock(t) \/ OnAbort(t)
          BY <1>0, <3>2, Moves DEF Waits
        <4>2. ~(clock >= VERSION_MAX)
          BY <1>0, <2>1, GcAssumption DEF TypeInv
        <4>3. CASE Prepare(t)
          <5>1. pc' = [pc EXCEPT ![t] = "set_epoch"]
            BY <4>2, <4>3 DEF Prepare
          <5> QED
            BY <1>0, <3>2, <5>1
        <4>4. CASE Start(t) \/ gc_set_epoch(t) \/ Malloc(t) \/ FreeBlock(t) \/ OnAbort(t)
          BY <1>0, <2>1, <3>2, <4>4 DEF Start, gc_set_epoch, Malloc, FreeBlock, OnAbort
        <4> QED
          BY <4>1, <4>3, <4>4
      <3> QED
        BY <3>1, <3>2
    <2>4. "reset" \notin features'
      BY <1>0, <1>3, ClockStep
    <2> QED
      BY <1>1, <2>2, <2>3, <2>4 DEF Resets
  <1> QED
    BY <1>2, <1>3

\* The slot of a running thread has the start of its transaction, or an earlier bound.
LEMMA EpochsStep ==
  ASSUME EpochInv, TypeInv', NEW t \in Tx, Step(t)
  PROVE  Bounds' /\ \A u \in Tx : Epoch(u)'
  <1> USE DEF Goto, heap, rest
  <1>0. /\ TypeInv /\ SlotInv /\ SlotOwner /\ Bounds /\ \A u \in Tx : Epoch(u)
        /\ pc \in [Tx -> GcLabel] /\ loc \in [Tx -> Locals]
        /\ EPOCH_MAX \in Nat /\ \A u \in Tx : loc[u].start \in Nat /\ loc[u].idx \in Slot
        /\ \A i \in Slot : slots[i].ts \in Nat
    BY SlotTypes, SlotsTypes DEF EpochInv, HeapInv, SlotInv, TypeInv, Locals
  <1>1. clock \in Nat /\ clock' \in Nat /\ clock <= clock'
    BY <1>0, ClockUp
  <1>2. loc[t].start <= clock \/ ~(SetBound(t) \/ gc_set_epoch(t))
    <2>1. SetBound(t) => pc[t] = "bound"
      BY DEF SetBound
    <2>2. gc_set_epoch(t) => Runs(t)
      BY DEF gc_set_epoch, Runs
    <2> QED
      BY <1>0, <2>1, <2>2 DEF Epoch
  <1>3. ASSUME NEW i \in Slot
        PROVE  /\ slots'[i].ts <= clock' \/ slots'[i].ts = EPOCH_MAX
               /\ slots'[i].used = "NULL" => slots'[i].ts = EPOCH_MAX
    <2>1. /\ slots[i].ts <= clock \/ slots[i].ts = EPOCH_MAX
          /\ slots[i].used = "NULL" => slots[i].ts = EPOCH_MAX
          /\ slots'[i].used = "NULL" => slots[i].used = "NULL"
      BY <1>0, SlotWrites DEF Bounds
    <2>2. CASE slots'[i].ts = slots[i].ts
      BY <1>0, <1>1, <2>1, <2>2
    <2>3. CASE i = loc[t].idx /\ (SetBound(t) \/ gc_set_epoch(t)) /\ slots'[i].ts = loc[t].start
      <3>1. HasSlot(t)
        BY <2>3 DEF SetBound, gc_set_epoch, HasSlot
      <3>2. slots[i].used = "BUSY"
        BY <1>0, <2>3, <3>1 DEF SlotOwner
      <3> QED
        BY <1>0, <1>1, <1>2, <2>1, <2>3, <3>2
    <2>4. CASE slots'[i].ts = EPOCH_MAX
      BY <2>4
    <2> QED
      BY <1>0, <2>2, <2>3, <2>4, SlotWrites
  <1>4. EPOCH_MAX' = EPOCH_MAX
    BY DEF EPOCH_MAX
  <1>5. Bounds'
    BY <1>3, <1>4 DEF Bounds
  <1>6. ASSUME NEW u \in Tx \ {t}
        PROVE  Epoch(u)'
    <2>1. pc'[u] = pc[u] /\ loc'[u] = loc[u] /\ (Runs(u)' <=> Runs(u))
      BY <1>0, Others DEF Runs
    <2>2. Epoch(u)
      BY <1>0
    <2>3. pc'[u] = "bound" \/ Runs(u)' => loc'[u].start <= clock'
      BY <1>0, <1>1, <2>1, <2>2 DEF Epoch
    <2>4. ASSUME Runs(u)
          PROVE  slots'[loc[u].idx].ts = slots[loc[u].idx].ts
      <3>1. HasSlot(u)
        BY <2>4 DEF Runs, HasSlot
      <3>2. SetBound(t) \/ gc_set_epoch(t) \/ ExitTs(t) => HasSlot(t)
        BY DEF SetBound, gc_set_epoch, ExitTs, HasSlot
      <3>3. HasSlot(t) => loc[u].idx # loc[t].idx
        BY <1>0, <3>1 DEF SlotOwner
      <3> QED
        BY <1>0, <3>2, <3>3, SlotWrites
    <2> QED
      BY <2>1, <2>2, <2>3, <2>4, <1>4 DEF Epoch
  <1>7. Epoch(t)'
    <2>1. ASSUME pc'[t] = "bound"
          PROVE  loc'[t].start <= clock'
      <3>1. ReadEpoch(t)
        BY <1>0, <2>1, Moves
      <3>2. loc'[t].start = clock /\ clock' = clock
        BY <1>0, <3>1 DEF ReadEpoch, Locals
      <3> QED
        BY <1>1, <3>2
    <2>2. ASSUME Runs(t)'
          PROVE  /\ loc'[t].start <= clock'
                 /\ \/ slots'[loc'[t].idx].ts <= loc'[t].start
                    \/ slots'[loc'[t].idx].ts = EPOCH_MAX /\ pc'[t] = "set_epoch"
      <3>1. loc'[t].idx = loc[t].idx
        BY <1>0, <2>2, RunsOn
      <3>2. CASE Prepare(t) /\ pc'[t] = "set_epoch" /\ loc'[t].start = clock
        <4>1. slots' = slots
          BY <3>2 DEF Prepare
        <4> QED
          BY <1>0, <1>1, <3>1, <3>2, <4>1 DEF Bounds
      <3>3. CASE Runs(t) /\ loc'[t].start = loc[t].start
        <4>1. loc[t].start <= clock
          BY <1>0, <3>3 DEF Epoch
        <4>2. loc'[t].start <= clock'
          BY <1>0, <1>1, <3>3, <4>1
        <4>3. CASE gc_set_epoch(t)
          <5>1. slots' = [slots EXCEPT ![loc[t].idx].ts = loc[t].start]
            BY <4>3 DEF gc_set_epoch
          <5>2. Differs(slots', loc[t].idx, slots[loc[t].idx].used, loc[t].start,
                        slots[loc[t].idx].regions)
            BY <1>0, <5>1, SlotEdits
          <5>3. slots'[loc[t].idx].ts = loc[t].start
            BY <1>0, <5>2 DEF Differs
          <5> QED
            BY <1>0, <3>1, <3>3, <4>2, <5>3
        <4>4. CASE ~gc_set_epoch(t)
          <5>1. \/ Start(t) \/ Prepare(t) \/ Malloc(t) \/ FreeBlock(t) \/ OnAbort(t)
            BY <1>0, <2>2, <4>4, Moves DEF Runs, Waits
          <5>2. ~Start(t) /\ ~Prepare(t) /\ ~OnAbort(t)
            BY <1>0, <2>2, <3>3 DEF Runs, Start, Prepare, OnAbort
          <5>3. pc' = pc /\ slots' = slots
            BY <5>1, <5>2 DEF Malloc, FreeBlock
          <5> QED
            BY <1>0, <3>1, <3>3, <4>2, <5>3 DEF Epoch
        <4> QED
          BY <4>3, <4>4
      <3> QED
        BY <1>0, <2>2, <3>2, <3>3, RunsOn
    <2> QED
      BY <1>4, <2>1, <2>2 DEF Epoch
  <1> QED
    BY <1>5, <1>6, <1>7

\* What a scan finds bounds the transactions that run or start meanwhile.
LEMMA ScansStep ==
  ASSUME EpochInv, TypeInv', NEW t \in Tx, Step(t)
  PROVE  \A s \in Tx : Scans(s)'
  <1> USE DEF Goto, heap, rest
  <1>0. /\ TypeInv /\ SlotInv /\ SlotOwner /\ \A u \in Tx : Epoch(u) /\ Scans(u)
        /\ pc \in [Tx -> GcLabel] /\ loc \in [Tx -> Locals]
        /\ EPOCH_MAX \in Nat /\ clock < EPOCH_MAX
        /\ \A u \in Tx : /\ loc[u].start \in Nat /\ loc[u].idx \in Slot /\ loc[u].min \in Nat
                         /\ loc[u].i \in Nat /\ loc[u] \in Locals
        /\ \A i \in Slot : slots[i].ts \in Nat
    <2>1. /\ SlotInv /\ TypeInv /\ SlotOwner /\ \A u \in Tx : Epoch(u) /\ Scans(u)
          /\ pc \in [Tx -> GcLabel] /\ loc \in [Tx -> Locals] /\ \A u \in Tx : loc[u] \in Locals
      BY DEF EpochInv, HeapInv, SlotInv, TypeInv
    <2>2. \A u \in Tx : /\ loc[u].start \in Nat /\ loc[u].idx \in Slot /\ loc[u].min \in Nat
                       /\ loc[u].i \in Nat
      BY <2>1 DEF Locals
    <2>3. EPOCH_MAX \in Nat /\ clock < EPOCH_MAX
      BY <2>1, SlotTypes
    <2>4. \A i \in Slot : slots[i].ts \in Nat
      BY <2>1, SlotsTypes
    <2> QED
      BY <2>1, <2>2, <2>3, <2>4
  <1>1. clock \in Nat /\ clock' \in Nat /\ clock <= clock'
    BY <1>0, ClockUp
  <1>2. ASSUME NEW s \in Tx \ {t}
        PROVE  Scans(s)'
    <2>1. pc'[s] = pc[s] /\ loc'[s] = loc[s] /\ Scans(s)
      BY <1>0, Others
    <2>2. ASSUME pc[s] \in {"scan", "scan_ts", "reclaim"}
          PROVE  loc[s].min <= clock /\ loc[s].min <= clock'
      BY <1>0, <1>1, <2>1, <2>2 DEF Scans
    <2>3. ASSUME pc[s] \in {"scan", "scan_ts", "reclaim"}, NEW u \in Tx, Runs(u)',
                 pc[s] = "reclaim" \/ loc'[u].idx < loc[s].i
          PROVE  loc[s].min <= loc'[u].start
      <3>1. CASE u = t
        <4>1. loc'[t].idx = loc[t].idx
          BY <1>0, <2>3, <3>1, RunsOn
        <4>2. CASE Runs(t) /\ loc'[t].start = loc[t].start
          BY <2>1, <2>3, <3>1, <4>1, <4>2 DEF Scans
        <4>3. CASE Prepare(t) /\ loc'[t].start = clock
          BY <2>2, <2>3, <3>1, <4>3
        <4> QED
          BY <1>0, <2>3, <3>1, <4>2, <4>3, RunsOn
      <3>2. CASE u # t
        <4>1. loc'[u] = loc[u] /\ Runs(u)
          BY <1>0, <2>3, <3>2, Others DEF Runs
        <4> QED
          BY <2>1, <2>3, <4>1 DEF Scans
      <3> QED
        BY <3>1, <3>2
    <2> QED
      BY <2>1, <2>2, <2>3 DEF Scans
  <1>3. Scans(t)'
    <2>1. SUFFICES ASSUME pc'[t] \in {"scan", "scan_ts", "reclaim"}
                   PROVE  /\ loc'[t].min <= clock'
                          /\ \A u \in Tx :
                                Runs(u)' /\ (pc'[t] = "reclaim" \/ loc'[u].idx < loc'[t].i) =>
                                   loc'[t].min <= loc'[u].start
      BY DEF Scans
    <2>2. \A u \in Tx : Runs(u)' => u # t /\ Runs(u) /\ loc'[u] = loc[u]
      BY <1>0, <2>1, Others DEF Runs
    <2>3. \A u \in Tx : Runs(u) => /\ \A i \in 0 .. loc[u].idx : slots[i].used # "NULL"
                                   /\ slots[loc[u].idx].used = "BUSY"
      BY <1>0 DEF SlotOwner, HasSlot, Runs
    <2>4. CASE gc_cleanup(t) \/ gc_cleanup_all(t)
      <3>1. loc'[t].min = clock /\ loc'[t].i = 0 /\ pc'[t] = "scan"
        <4>1. ASSUME gc_cleanup(t)
              PROVE  loc'[t].min = clock /\ loc'[t].i = 0
          BY <1>0, <4>1 DEF gc_cleanup, Locals
        <4>2. ASSUME gc_cleanup_all(t)
              PROVE  loc'[t].min = clock /\ loc'[t].i = 0
          <5>1. PICK i \in Slot : loc' = [loc EXCEPT ![t].of = i, ![t].min = clock, ![t].i = 0,
                                                  ![t].then = "idle"]
            BY <4>2 DEF gc_cleanup_all
          <5> QED
            BY <1>0, <5>1 DEF Locals
        <4>3. pc'[t] = "scan"
          BY <1>0, <2>4, Zenon DEF gc_cleanup, gc_cleanup_all
        <4> QED
          BY <2>4, <4>1, <4>2, <4>3
      <3>2. \A u \in Tx : ~(loc[u].idx < 0)
        BY <1>0 DEF Slot
      <3> QED
        BY <1>1, <2>2, <3>1, <3>2
    <2>5. ASSUME ScanUsed(t)
          PROVE  /\ loc'[t].min <= clock'
                 /\ \A u \in Tx :
                       Runs(u)' /\ (pc'[t] = "reclaim" \/ loc'[u].idx < loc'[t].i) =>
                          loc'[t].min <= loc'[u].start
      <3>1. /\ pc[t] = "scan" /\ loc[t].min <= clock
            /\ \A u \in Tx : Runs(u) /\ loc[u].idx < loc[t].i => loc[t].min <= loc[u].start
        BY <1>0, <2>5 DEF ScanUsed, Scans
      <3>2. \/ /\ loc[t].i \notin Slot \/ slots[loc[t].i].used = "NULL"
               /\ pc'[t] = "reclaim" /\ loc' = loc
            \/ pc'[t] # "reclaim" /\ loc' = loc
            \/ /\ loc[t].i \in Slot /\ slots[loc[t].i].used # "BUSY" /\ pc'[t] # "reclaim"
               /\ loc' = [loc EXCEPT ![t].i = loc[t].i + 1]
        BY <1>0, <2>5 DEF ScanUsed
      <3>3. CASE /\ loc[t].i \notin Slot \/ slots[loc[t].i].used = "NULL"
                 /\ pc'[t] = "reclaim" /\ loc' = loc
        <4>1. ASSUME NEW u \in Tx, Runs(u)
              PROVE  loc[u].idx < loc[t].i
          <5>1. loc[t].i \notin 0 .. loc[u].idx
            BY <1>0, <2>3, <3>3, <4>1, SlotRange
          <5> QED
            BY <1>0, <5>1 DEF Slot
        <4> QED
          BY <1>0, <1>1, <2>2, <3>1, <3>3, <4>1
      <3>4. CASE pc'[t] # "reclaim" /\ loc' = loc
        BY <1>0, <1>1, <2>2, <3>1, <3>4
      <3>5. CASE /\ loc[t].i \in Slot /\ slots[loc[t].i].used # "BUSY" /\ pc'[t] # "reclaim"
                 /\ loc' = [loc EXCEPT ![t].i = loc[t].i + 1]
        <4>1. loc'[t].min = loc[t].min /\ loc'[t].i = loc[t].i + 1
          BY <1>0, <3>5 DEF Locals
        <4>2. ASSUME NEW u \in Tx, Runs(u), loc[u].idx < loc[t].i + 1
              PROVE  loc[u].idx < loc[t].i
          <5>1. loc[u].idx # loc[t].i
            BY <2>3, <3>5, <4>2
          <5> QED
            BY <1>0, <4>2, <5>1 DEF Slot
        <4> QED
          BY <1>0, <1>1, <2>2, <3>1, <3>5, <4>1, <4>2
      <3> QED
        BY <3>2, <3>3, <3>4, <3>5
    <2>6. ASSUME ScanTs(t)
          PROVE  /\ loc'[t].min <= clock'
                 /\ \A u \in Tx :
                       Runs(u)' /\ (pc'[t] = "reclaim" \/ loc'[u].idx < loc'[t].i) =>
                          loc'[t].min <= loc'[u].start
      <3>1. /\ pc[t] = "scan_ts" /\ pc'[t] = "scan" /\ loc[t].min <= clock
            /\ \A u \in Tx : Runs(u) /\ loc[u].idx < loc[t].i => loc[t].min <= loc[u].start
        BY <1>0, <2>6 DEF ScanTs, Scans
      <3>2. loc[t].i \in Slot
        BY <1>0, <3>1 DEF SlotInv, Searches
      <3> DEFINE ts == slots[loc[t].i].ts
                 m == IF ts < loc[t].min THEN ts ELSE loc[t].min
      <3>3. \/ loc' = loc
            \/ ts # EPOCH_MAX /\ loc' = [loc EXCEPT ![t].i = loc[t].i + 1, ![t].min = m]
        BY <2>6 DEF ScanTs
      <3>4. CASE loc' = loc
        BY <1>0, <1>1, <2>2, <3>1, <3>4
      <3>5. CASE ts # EPOCH_MAX /\ loc' = [loc EXCEPT ![t].i = loc[t].i + 1, ![t].min = m]
        <4>1. loc'[t].i = loc[t].i + 1 /\ loc'[t].min = m
          BY <1>0, <3>5 DEF Locals
        <4>2. m \in Nat /\ m <= loc[t].min /\ m <= ts /\ ts \in Nat
          BY <1>0, <3>2
        <4>3. ASSUME NEW u \in Tx, Runs(u), loc[u].idx < loc[t].i + 1
              PROVE  m <= loc[u].start
          <5>1. CASE loc[u].idx = loc[t].i
            <6>1. ts <= loc[u].start
              BY <1>0, <3>5, <4>3, <5>1 DEF Epoch
            <6> QED
              BY <1>0, <4>2, <6>1
          <5>2. CASE loc[u].idx # loc[t].i
            <6>1. loc[u].idx < loc[t].i
              BY <1>0, <4>3, <5>2 DEF Slot
            <6> QED
              BY <1>0, <3>1, <4>2, <4>3, <6>1
          <5> QED
            BY <5>1, <5>2
        <4> HIDE DEF m, ts
        <4> QED
          BY <1>0, <1>1, <2>2, <3>1, <4>1, <4>2, <4>3
      <3> QED
        BY <3>3, <3>4, <3>5
    <2> QED
      BY <1>0, <2>1, <2>4, <2>5, <2>6, Moves
  <1> QED
    BY <1>2, <1>3

\* When a block leaves the data structure: upon the commit that frees it.
LEMMA Unlinks ==
  ASSUME TypeInv, NEW t \in Tx, Step(t), NEW b \in Block
  PROVE  \/ unlinked'[b] = unlinked[b]
         \/ unlinked'[b] = 0
         \/ Commit(t) /\ b \in ToSet(icb[t].commit) /\ unlinked'[b] = clock'
  <1> USE DEF heap, rest
  <1>0. unlinked \in [Block -> Nat]
    BY DEF TypeInv
  <1>1. CASE Joins(t)
    BY <1>1 DEF Joins, InitThread, FindSlot, TakeSlot, ReadEpoch, SetBound, EnterThread
  <1>2. CASE Transacts(t)
    <2>1. CASE Start(t) \/ Prepare(t) \/ gc_set_epoch(t) \/ FreeBlock(t) \/ OnCommit(t)
               \/ OnCommitEnd(t) \/ OnAbort(t)
      BY <2>1 DEF Start, Prepare, gc_set_epoch, FreeBlock, OnCommit, OnCommitEnd, OnAbort
    <2>2. CASE Malloc(t)
      BY <1>0, <2>2 DEF Malloc
    <2>3. CASE Commit(t)
      BY <1>0, <2>3 DEF Commit
    <2> QED
      BY <1>2, <2>1, <2>2, <2>3 DEF Transacts
  <1>3. CASE Reclaims(t)
    BY <1>3, Zenon DEF Reclaims, gc_free, gc_cleanup, ScanUsed, ScanTs, gc_cleanup_thread, gc_cleanup_all
  <1>4. CASE Leaves(t)
    BY <1>4 DEF Leaves, ExitThread, ExitFree, ExitTs, ExitUsed, ExitNb
  <1> QED
    BY <1>1, <1>2, <1>3, <1>4 DEF Step

\* The blocks that a commit frees are nowhere else.
LEMMA DeadBlocks ==
  ASSUME HeapInv, NEW t \in Tx, Commit(t), NEW b \in ToSet(icb[t].commit)
  PROVE  /\ b \in Block /\ b \in allocated /\ NotCalled(b) /\ NotKept(b)
         /\ \A u \in Tx \ {t} : ~Listing(b, u)
  <1>1. icb[t].commit \in Seq(Block)
    BY DEF HeapInv, SlotInv, TypeInv
  <1>2. b \in Block /\ b \in Chunk
    BY <1>1 DEF ToSet, Chunk
  <1>3. Single(b)
    BY <1>2 DEF HeapInv, Heap
  <1>4. pc[t] = "active" /\ b \in linked \cup ToSet(icb[t].abort)
    BY DEF Commit
  <1>5. CASE b \in linked
    <2>1. b \in InUse
      BY <1>5 DEF InUse
    <2>2. UsedOnly(b)
      BY <1>3, <2>1, Found
    <2> QED
      BY <1>2, <2>2 DEF UsedOnly, NotListed
  <1>6. CASE b \in ToSet(icb[t].abort)
    <2>1. Listing(b, t)
      BY <1>4, <1>6 DEF Listing, Listed
    <2>2. ListedOnly(b, t)
      BY <1>3, <2>1, Found
    <2> QED
      BY <1>2, <2>2 DEF ListedOnly
  <1> QED
    BY <1>4, <1>5, <1>6

\* The timestamps of regions: gc_free adds a chunk where the timestamp is not less.
LEMMA RegionTimes ==
  ASSUME NEW rs \in Seq(Region), NEW c \in Chunk, NEW e \in Nat, NEW new, Gains(new, rs, c, e),
         new = Append(rs, [ts |-> e, blocks |-> <<c>>]) \/ e <= Last(rs).ts,
         NEW r \in DOMAIN new, NEW b \in ToSet(new[r].blocks)
  PROVE  \/ r \in DOMAIN rs /\ b \in ToSet(rs[r].blocks) /\ new[r].ts = rs[r].ts
         \/ b = c /\ e <= new[r].ts
  <1> DEFINE n == Len(rs)
             one == [ts |-> e, blocks |-> <<c>>]
  <1>1. n \in Nat /\ DOMAIN rs = 1 .. n
    OBVIOUS
  <1>2. CASE new = Append(rs, one)
    <2>1. one \in Region /\ one.ts = e /\ one.blocks = <<c>>
      <3>1. <<c>> \in Seq(Chunk)
        OBVIOUS
      <3> QED
        BY <3>1 DEF Region
    <2> HIDE DEF one
    <2>2. /\ DOMAIN new = 1 .. n + 1 /\ new[n + 1] = one
          /\ \A k \in 1 .. n : new[k] = rs[k]
      BY <1>2, <2>1
    <2> HIDE DEF n
    <2>3. CASE r \in 1 .. n
      BY <1>1, <2>2, <2>3
    <2>4. CASE r = n + 1
      <3>1. b \in ToSet(<<c>>)
        BY <2>1, <2>2, <2>4
      <3>2. b = c
        BY <3>1 DEF ToSet
      <3> QED
        BY <2>1, <2>2, <2>4, <3>2
    <2> QED
      BY <1>1, <2>2, <2>3, <2>4
  <1>3. CASE /\ rs # <<>> /\ new = [rs EXCEPT ![n].blocks = <<c>> \o @]
             /\ e <= Last(rs).ts
    <2>1. n \in 1 .. n /\ rs[n] \in Region /\ Last(rs) = rs[n]
      BY <1>3 DEF Last
    <2>2. /\ DOMAIN new = 1 .. n /\ \A k \in 1 .. n : k # n => new[k] = rs[k]
          /\ new[n].blocks = <<c>> \o rs[n].blocks /\ new[n].ts = rs[n].ts
      BY <1>1, <1>3, <2>1, Zenon DEF Region
    <2>3. rs[n].blocks \in Seq(Chunk)
      BY <2>1 DEF Region
    <2> HIDE DEF n
    <2>4. CASE r # n
      BY <1>1, <2>2, <2>4
    <2>5. CASE r = n
      <3> DEFINE bs == rs[n].blocks
      <3>0. bs \in Seq(Chunk) /\ b \in ToSet(<<c>> \o bs)
        BY <2>2, <2>3, <2>5
      <3> HIDE DEF bs
      <3>1. b = c \/ b \in ToSet(bs)
        <4>1. /\ <<c>> \in Seq(Chunk) /\ Len(<<c>>) = 1 /\ <<c>>[1] = c
              /\ Len(bs) \in Nat /\ DOMAIN bs = 1 .. Len(bs)
          BY <3>0
        <4>2. /\ <<c>> \o bs \in Seq(Chunk) /\ Len(<<c>> \o bs) = 1 + Len(bs)
              /\ \A k \in 1 .. 1 + Len(bs) : (<<c>> \o bs)[k] = IF k <= 1 THEN <<c>>[k] ELSE bs[k - 1]
          BY <3>0, <4>1, ConcatProperties
        <4>3. PICK k \in 1 .. 1 + Len(bs) : (<<c>> \o bs)[k] = b
          BY <3>0, <4>2 DEF ToSet
        <4>4. CASE k = 1
          BY <4>1, <4>2, <4>3, <4>4
        <4>5. CASE k # 1
          <5>1. k - 1 \in 1 .. Len(bs) /\ ~(k <= 1)
            BY <4>1, <4>3, <4>5
          <5>2. b = bs[k - 1]
            BY <4>2, <4>3, <5>1
          <5> QED
            BY <4>1, <5>1, <5>2 DEF ToSet
        <4> QED
          BY <4>4, <4>5
      <3> QED
        BY <1>1, <1>3, <2>1, <2>2, <2>5, <3>1 DEF bs
    <2> QED
      BY <2>4, <2>5
  <1> QED
    BY <1>2, <1>3 DEF Gains

\* What is given to gc_free has left the data structure by then.
LEMMA LeftStep ==
  ASSUME EpochInv, TypeInv', NEW t \in Tx, Step(t)
  PROVE  Left'
  <1> USE DEF Goto, heap, rest
  <1>0. /\ TypeInv /\ SlotInv /\ HeapInv /\ Left /\ pc \in [Tx -> GcLabel] /\ loc \in [Tx -> Locals]
        /\ unlinked \in [Block -> Nat] /\ \A u \in Tx : loc[u] \in Locals /\ loc[u].epoch \in Nat
        /\ icb \in [Tx -> [commit : Seq(Block), abort : Seq(Block)]]
    BY DEF EpochInv, HeapInv, SlotInv, TypeInv, Locals
  <1>1. clock \in Nat /\ clock' \in Nat /\ clock <= clock'
    BY <1>0, ClockUp
  <1>2. \A b \in Block : unlinked[b] \in Nat /\ unlinked[b] <= clock
    BY <1>0 DEF Left
  <1>3. ASSUME NEW b \in Block
        PROVE  unlinked'[b] <= clock'
    <2>1. unlinked[b] \in Nat /\ unlinked[b] <= clock
      BY <1>2
    <2>2. unlinked'[b] \in {unlinked[b], 0, clock'}
      BY <1>0, Unlinks
    <2> QED
      BY <1>1, <2>1, <2>2
  <1>4. ASSUME NEW i \in Slot, NEW r \in DOMAIN slots'[i].regions,
               NEW b \in Block \cap ToSet(slots'[i].regions[r].blocks)
        PROVE  unlinked'[b] <= slots'[i].regions[r].ts
    <2> DEFINE rs == slots[i].regions
               new == slots'[i].regions
    <2>1. rs \in Seq(Region) /\ \A q \in DOMAIN rs : rs[q] \in Region /\ rs[q].ts \in Nat /\ q \in Nat
      <3>1. rs \in Seq(Region)
        BY <1>0, SlotsTypes
      <3>2. \A q \in DOMAIN rs : rs[q] \in Region /\ q \in Nat
        BY <3>1
      <3> QED
        BY <3>1, <3>2 DEF Region
    <2>2. \A q \in DOMAIN rs : b \in ToSet(rs[q].blocks) => unlinked[b] <= rs[q].ts
      BY <1>0 DEF Left
    <2>3. ASSUME new = rs
          PROVE  unlinked'[b] <= new[r].ts
      <3>1. ~(Commit(t) /\ b \in ToSet(icb[t].commit))
        <4>1. Keeping(b, i, r)
          BY <1>4, <2>3 DEF Keeping, Has
        <4> QED
          BY <1>0, <2>1, <2>3, <4>1, DeadBlocks DEF NotKept
      <3>2. unlinked'[b] = unlinked[b] \/ unlinked'[b] = 0
        BY <1>0, <3>1, Unlinks
      <3> QED
        BY <1>0, <1>4, <2>1, <2>2, <2>3, <3>2
    <2>4. ASSUME gc_free(t), i = loc[t].idx
          PROVE  unlinked'[b] <= new[r].ts
      <3> DEFINE x == loc[t].chunk
                 e == loc[t].epoch
      <3>1. x \in Chunk /\ e \in Nat /\ unlinked' = unlinked /\ (x = b => unlinked[b] <= e)
        BY <1>0, <2>4, ZenonT(60) DEF gc_free, Left, Locals
      <3>2. new = IF rs = <<>> \/ Last(rs).ts < e
                  THEN Append(rs, [ts |-> e, blocks |-> <<x>>])
                  ELSE [rs EXCEPT ![Len(rs)].blocks = <<x>> \o @]
        <4>1. PICK n : /\ n = IF rs = <<>> \/ Last(rs).ts < e
                              THEN Append(rs, [ts |-> e, blocks |-> <<x>>])
                              ELSE [rs EXCEPT ![Len(rs)].blocks = <<x>> \o @]
                       /\ slots' = [slots EXCEPT ![i].regions = n]
          BY <2>4, ZenonT(60) DEF gc_free
        <4>2. Differs(slots', i, slots[i].used, slots[i].ts, n)
          BY <1>0, <4>1, SlotEdits
        <4> QED
          BY <4>1, <4>2, Zenon DEF Differs
      <3>3. rs # <<>> => Last(rs).ts \in Nat
        <4>1. rs # <<>> => Len(rs) \in DOMAIN rs
          BY <2>1
        <4> QED
          BY <2>1, <4>1 DEF Last
      <3>4. /\ Gains(new, rs, x, e)
            /\ new = Append(rs, [ts |-> e, blocks |-> <<x>>]) \/ e <= Last(rs).ts
        <4> HIDE DEF rs, x, e, new
        <4> QED
          BY <3>1, <3>2, <3>3 DEF Gains
      <3> HIDE DEF rs, x, e
      <3>5. \/ r \in DOMAIN rs /\ b \in ToSet(rs[r].blocks) /\ new[r].ts = rs[r].ts
            \/ b = x /\ e <= new[r].ts
        <4>1. rs \in Seq(Region) /\ x \in Chunk /\ e \in Nat
          BY <2>1, <3>1
        <4> HIDE DEF new
        <4>2. r \in DOMAIN new /\ b \in ToSet(new[r].blocks)
          BY <1>4 DEF new
        <4> QED
          BY <3>4, <4>1, <4>2, RegionTimes
      <3>6. new[r].ts \in Nat
        <4>1. new \in Seq(Region)
          BY SlotsTypes, <1>0 DEF TypeInv, SlotType
        <4>2. new[r] \in Region
          BY <1>4, <4>1
        <4> QED
          BY <4>2 DEF Region
      <3> QED
        BY <1>2, <2>1, <2>2, <3>1, <3>5, <3>6
    <2>5. ASSUME gc_cleanup_thread(t), i = loc[t].of
          PROVE  unlinked'[b] <= new[r].ts
      <3>1. unlinked' = unlinked
        BY <2>5 DEF gc_cleanup_thread
      <3>2. PICK n \in 0 .. Len(rs) : slots' = [slots EXCEPT ![i].regions = SubSeq(rs, n + 1, Len(rs))]
        BY <2>5, Zenon DEF gc_cleanup_thread
      <3>3. new = SubSeq(rs, n + 1, Len(rs))
        <4>1. Differs(slots', i, slots[i].used, slots[i].ts, SubSeq(rs, n + 1, Len(rs)))
          BY <1>0, <3>2, SlotEdits
        <4> QED
          BY <4>1 DEF Differs
      <3> HIDE DEF rs
      <3>4. PICK q \in DOMAIN rs : new[r] = rs[q]
        BY <1>4, <2>1, <3>3, RegionsLeft
      <3> QED
        BY <1>4, <2>2, <3>1, <3>4
    <2>6. \/ new = rs
          \/ gc_free(t) /\ i = loc[t].idx
          \/ gc_cleanup_thread(t) /\ i = loc[t].of
      <3>1. CASE gc_free(t) /\ i # loc[t].idx
        <4>1. \E n : slots' = [slots EXCEPT ![loc[t].idx].regions = n]
          BY <3>1, Zenon DEF gc_free
        <4> QED
          BY <1>0, <3>1, <4>1 DEF TypeInv
      <3>2. CASE gc_cleanup_thread(t) /\ i # loc[t].of
        <4>1. \E n : slots' = [slots EXCEPT ![loc[t].of].regions = n]
          BY <3>2 DEF gc_cleanup_thread
        <4> QED
          BY <1>0, <3>2, <4>1 DEF TypeInv
      <3> QED
        BY <1>0, <3>1, <3>2, SlotWrites
    <2> QED
      BY <2>3, <2>4, <2>5, <2>6
  <1>5. ASSUME NEW u \in Tx, pc'[u] = "gc_free", loc'[u].chunk \in Block
        PROVE  unlinked'[loc'[u].chunk] <= loc'[u].epoch
    <2>1. CASE u = t
      <3>1. CASE OnCommit(t)
        <4>1. loc'[t].epoch = clock /\ unlinked' = unlinked
          BY <1>0, <3>1 DEF OnCommit, Locals
        <4> QED
          BY <1>2, <1>5, <2>1, <4>1
      <3>2. CASE ExitFree(t)
        <4>1. loc'[t].chunk = t
          BY <1>0, <3>2 DEF ExitFree, Locals
        <4> QED
          BY <1>5, <2>1, <4>1, GcAssumption
      <3> QED
        BY <1>0, <1>5, <2>1, <3>1, <3>2, Moves
    <2>2. CASE u # t
      <3> DEFINE b == loc[u].chunk
      <3>1. pc[u] = "gc_free" /\ loc'[u] = loc[u] /\ b \in Block
        BY <1>0, <1>5, <2>2, Others
      <3>2. unlinked[b] <= loc[u].epoch
        BY <1>0, <3>1 DEF Left
      <3>3. ~(Commit(t) /\ b \in ToSet(icb[t].commit))
        <4>1. Calling(b, u)
          BY <3>1 DEF Calling
        <4> QED
          BY <1>0, <4>1, DeadBlocks DEF NotCalled
      <3>4. unlinked'[b] = unlinked[b] \/ unlinked'[b] = 0
        BY <1>0, <3>1, <3>3, Unlinks
      <3> QED
        BY <1>0, <3>1, <3>2, <3>4
    <2> QED
      BY <2>1, <2>2
  <1>6. ASSUME NEW u \in Tx, pc'[u] = "active", NEW b \in ToSet(icb'[u].abort)
        PROVE  unlinked'[b] = 0
    <2>0. \A v \in Tx : ToSet(icb[v].abort) \subseteq Block
      BY <1>0 DEF ToSet
    <2>1. CASE u = t
      <3>1. CASE gc_set_epoch(t)
        <4>1. pc[t] = "set_epoch" /\ icb' = icb
          BY <3>1 DEF gc_set_epoch
        <4>2. icb[t] = NoCallbacks
          BY <1>0, <4>1 DEF HeapInv, Heap, Holding, Finishes, InGc
        <4> QED
          BY <1>6, <2>1, <4>1, <4>2 DEF NoCallbacks, ToSet
      <3>2. CASE Malloc(t)
        <4>1. PICK a \in Block : /\ icb' = [icb EXCEPT ![t].abort = Append(@, a)]
                                 /\ unlinked' = [unlinked EXCEPT ![a] = 0]
          BY <3>2 DEF Malloc, mod_cb_add_on_abort
        <4>2. icb[t].abort \in Seq(Block) /\ icb'[t].abort = Append(icb[t].abort, a)
          BY <1>0, <4>1
        <4>3. ToSet(icb'[t].abort) = ToSet(icb[t].abort) \cup {a}
          BY <4>2, ListAppend
        <4>4. pc[t] = "active"
          BY <3>2 DEF Malloc
        <4>5. \A c \in ToSet(icb[t].abort) : unlinked[c] = 0
          BY <1>0, <4>4 DEF Left
        <4> QED
          BY <1>0, <1>6, <2>0, <2>1, <4>1, <4>3, <4>5
      <3>3. CASE FreeBlock(t)
        <4>1. PICK a : icb' = [icb EXCEPT ![t].commit = Append(@, a)]
          BY <3>3 DEF FreeBlock, mod_cb_add_on_commit
        <4>2. icb'[t].abort = icb[t].abort
          BY <1>0, <4>1
        <4>3. pc[t] = "active" /\ unlinked' = unlinked
          BY <3>3 DEF FreeBlock
        <4> QED
          BY <1>0, <1>6, <2>1, <4>2, <4>3 DEF Left
      <3>4. ~Start(t) /\ ~Prepare(t) /\ ~OnAbort(t)
        BY <1>0, <1>6, <2>1 DEF Start, Prepare, OnAbort
      <3> QED
        BY <1>0, <1>6, <2>1, <3>1, <3>2, <3>3, <3>4, Moves DEF Waits
    <2>2. CASE u # t
      <3>1. pc[u] = "active" /\ icb'[u] = icb[u]
        BY <1>0, <1>6, <2>2, Others
      <3>2. b \in Block /\ unlinked[b] = 0 /\ Listing(b, u)
        BY <1>0, <1>6, <2>0, <3>1 DEF Left, Listing, Listed
      <3>3. ~(Commit(t) /\ b \in ToSet(icb[t].commit))
        BY <1>0, <2>2, <3>2, DeadBlocks
      <3> QED
        BY <1>0, <3>2, <3>3, Unlinks
    <2> QED
      BY <2>1, <2>2
  <1>7. \A u \in Tx : pc'[u] = "active" => \A b \in ToSet(icb'[u].abort) : unlinked'[b] = 0
    BY <1>6
  <1>8. \A u \in Tx : pc'[u] = "gc_free" /\ loc'[u].chunk \in Block =>
           unlinked'[loc'[u].chunk] <= loc'[u].epoch
    BY <1>5
  <1>9. \A i \in Slot : \A r \in DOMAIN slots'[i].regions :
           \A b \in Block \cap ToSet(slots'[i].regions[r].blocks) :
              unlinked'[b] <= slots'[i].regions[r].ts
    BY <1>4
  <1> QED
    BY <1>3, <1>7, <1>8, <1>9 DEF Left

\* A region that is freed is older than every transaction that runs.
LEMMA DanglingStep ==
  ASSUME EpochInv, TypeInv', NEW t \in Tx, Step(t)
  PROVE  NoDangling'
  <1> USE DEF Goto, heap, rest
  <1>0. /\ TypeInv /\ SlotInv /\ HeapInv /\ Left /\ NoDangling
        /\ pc \in [Tx -> GcLabel] /\ loc \in [Tx -> Locals]
        /\ unlinked \in [Block -> Nat]
        /\ \A u \in Tx : loc[u].min \in Nat /\ loc[u].start \in Nat /\ loc[u].of \in Slot
    BY DEF EpochInv, HeapInv, SlotInv, TypeInv, Locals
  <1>1. \A b \in Block : unlinked[b] \in Nat /\ unlinked[b] <= clock
    BY <1>0 DEF Left
  <1>2. clock \in Nat
    BY <1>0, ClockUp
  <1>3. SUFFICES ASSUME NEW u \in Tx, Runs(u)', NEW b \in Block \ allocated'
                 PROVE  unlinked'[b] <= loc'[u].start
    BY DEF NoDangling, Runs
  <1>4. \/ Runs(u) /\ loc'[u].start = loc[u].start
        \/ u = t /\ Prepare(t) /\ loc'[u].start = clock
    <2>1. CASE u = t
      BY <1>0, <1>3, <2>1, RunsOn
    <2>2. CASE u # t
      BY <1>0, <1>3, <2>2, Others DEF Runs
    <2> QED
      BY <2>1, <2>2
  <1>5. CASE b \notin allocated
    <2>1. ~(Commit(t) /\ b \in ToSet(icb[t].commit))
      BY <1>0, <1>5, DeadBlocks
    <2>2. unlinked'[b] = unlinked[b] \/ unlinked'[b] = 0
      BY <1>0, <1>3, <2>1, Unlinks
    <2>3. CASE Runs(u) /\ loc'[u].start = loc[u].start
      <3>1. unlinked[b] <= loc[u].start
        BY <1>0, <1>3, <1>5, <2>3 DEF NoDangling, Runs
      <3> QED
        BY <1>0, <2>2, <2>3, <3>1
    <2>4. CASE loc'[u].start = clock
      BY <1>1, <1>2, <1>3, <2>2, <2>4
    <2> QED
      BY <1>4, <2>3, <2>4
  <1>6. CASE OnAbort(t) /\ b \in allocated
    <2>1. pc[t] = "active" /\ allocated' = allocated \ ToSet(icb[t].abort) /\ unlinked' = unlinked
      BY <1>6 DEF OnAbort
    <2>2. unlinked'[b] = 0
      BY <1>0, <1>3, <1>6, <2>1 DEF Left
    <2>3. ~Prepare(t)
      BY <2>1 DEF Prepare
    <2> QED
      BY <1>0, <1>4, <2>2, <2>3
  <1>7. CASE gc_cleanup_thread(t) /\ b \in allocated
    <2>1. PICK o \in Slot, rs \in Seq(Region) : o = loc[t].of /\ rs = slots[o].regions
      BY <1>0, SlotsTypes
    <2>2. pc[t] = "reclaim" /\ unlinked' = unlinked
      BY <1>7 DEF gc_cleanup_thread
    <2>3. PICK n \in 0 .. Len(rs) : /\ \A r \in 1 .. n : rs[r].ts < loc[t].min
                                    /\ allocated' = allocated \ Chunks(SubSeq(rs, 1, n))
      BY <1>7, <2>1 DEF gc_cleanup_thread
    <2>4. PICK r \in 1 .. n : Has(rs, r, b)
      <3>1. b \in Chunks(SubSeq(rs, 1, n))
        BY <1>3, <1>7, <2>3
      <3> QED
        BY <3>1, RegionsLeft
    <2>5. unlinked[b] <= rs[r].ts
      BY <1>0, <1>3, <2>1, <2>4 DEF Left, Has
    <2>6. rs[r].ts \in Nat
      <3>1. rs[r] \in Region
        BY <2>4 DEF Has
      <3> QED
        BY <3>1 DEF Region
    <2>7. Runs(u) /\ loc'[u].start = loc[u].start
      BY <1>4, <2>2 DEF Prepare
    <2>8. loc[t].min <= loc[u].start
      BY <2>2, <2>7 DEF EpochInv, Scans
    <2>9. rs[r].ts < loc[t].min
      BY <2>3, <2>4
    <2> QED
      BY <1>0, <1>1, <1>3, <2>2, <2>5, <2>6, <2>7, <2>8, <2>9
  <1>8. b \in allocated => OnAbort(t) \/ gc_cleanup_thread(t)
    <2>1. CASE Joins(t)
      BY <1>3, <2>1 DEF Joins, InitThread, FindSlot, TakeSlot, ReadEpoch, SetBound, EnterThread
    <2>2. CASE Transacts(t)
      BY <1>3, <2>2 DEF Transacts, Start, Prepare, gc_set_epoch, Malloc, FreeBlock, Commit,
                        OnCommit, OnCommitEnd
    <2>3. CASE Reclaims(t)
      BY <1>3, <2>3, Zenon DEF Reclaims, gc_free, gc_cleanup, ScanUsed, ScanTs, gc_cleanup_all
    <2>4. CASE Leaves(t)
      BY <1>3, <2>4 DEF Leaves, ExitThread, ExitFree, ExitTs, ExitUsed, ExitNb
    <2> QED
      BY <2>1, <2>2, <2>3, <2>4 DEF Step
  <1> QED
    BY <1>5, <1>6, <1>7, <1>8

\* When the clock is set back nobody runs, joins, leaves or is in the garbage collector.
LEMMA EpochReset ==
  ASSUME EpochInv, TypeInv', Rollover \/ gc_exit
  PROVE  /\ ResetApart' /\ Resets' /\ Bounds' /\ Left' /\ NoDangling'
         /\ \A u \in Tx : Epoch(u)' /\ Scans(u)'
  <1> USE DEF rest
  <1>0. /\ TypeInv /\ SlotInv /\ HeapInv /\ Resets /\ ResetApart /\ pc \in [Tx -> GcLabel]
        /\ VERSION_MAX \in Nat \ {0} /\ 0 \in Nat
    BY GcAssumption DEF EpochInv, HeapInv, SlotInv, TypeInv
  <1>1. /\ clock' = 0 /\ features' = features /\ threads' = threads
        /\ unlinked' = [b \in Block |-> 0]
    BY DEF Rollover, gc_exit
  <1>2. \/ \A u \in Tx : pc'[u] = "out"
        \/ threads = Tx /\ \A u \in Tx : pc'[u] = "prepare"
    <2>1. CASE Rollover
      <3>1. PICK v \in threads : pc[v] = "barrier"
        BY <2>1 DEF Rollover
      <3>2. threads \subseteq Tx
        BY <1>0 DEF TypeInv
      <3>3. threads = Tx
        BY <1>0, <3>1, <3>2 DEF Resets, Waits
      <3> QED
        BY <2>1, <3>3 DEF Rollover
    <2>2. CASE gc_exit
      <3>1. IsFiniteSet({u \in Tx : pc[u] # "out"})
        BY GcAssumption, FS_Subset
      <3>2. Cardinality({u \in Tx : pc[u] # "out"}) = 0
        BY <1>0, <2>2 DEF gc_exit, SlotInv, Counted
      <3>3. {u \in Tx : pc[u] # "out"} = {}
        BY <3>1, <3>2, FS_EmptySet
      <3> QED
        BY <2>2, <3>3 DEF gc_exit
    <2> QED
      BY <2>1, <2>2
  <1>3. \A i \in Slot : slots'[i].ts = EPOCH_MAX /\ slots'[i].regions = <<>>
    <2>1. CASE Rollover
      <3>1. \A i \in Slot : slots[i] \in SlotType
        BY <1>0 DEF TypeInv
      <3>2. \A i \in Slot : slots[i].used = "NULL" => slots[i].ts = EPOCH_MAX /\ slots[i].regions = <<>>
        BY <1>0 DEF EpochInv, Bounds, HeapInv, Heap, RegionsDistinct
      <3> QED
        BY <2>1, <3>1, <3>2 DEF Rollover, SlotType
    <2>2. CASE gc_exit
      BY <2>2 DEF gc_exit, NoSlots
    <2> QED
      BY <2>1, <2>2
  <1>4. ResetApart'
    BY <1>0, <1>1 DEF ResetApart
  <1>5. Resets'
    <2>1. CASE "reset" \in features
      BY <1>1, <1>2, <2>1 DEF Resets, Waits
    <2>2. CASE "reset" \notin features
      <3>1. clock' < VERSION_MAX
        BY <1>0, <1>1
      <3>2. \A u \in Tx : pc'[u] # "barrier"
        BY <1>2
      <3> QED
        BY <1>1, <2>2, <3>1, <3>2 DEF Resets
    <2> QED
      BY <2>1, <2>2
  <1>6. EPOCH_MAX' = EPOCH_MAX
    BY DEF EPOCH_MAX
  <1>7. Bounds'
    BY <1>3, <1>6 DEF Bounds
  <1>8. Left'
    BY <1>1, <1>2, <1>3 DEF Left
  <1>9. \A u \in Tx : ~Runs(u)' /\ pc'[u] \notin {"bound", "scan", "scan_ts", "reclaim"}
    BY <1>2 DEF Runs
  <1>10. NoDangling'
    BY <1>9 DEF NoDangling, Runs
  <1>11. \A u \in Tx : Epoch(u)' /\ Scans(u)'
    BY <1>9 DEF Epoch, Scans
  <1> QED
    BY <1>4, <1>5, <1>7, <1>8, <1>10, <1>11

\* The epochs' invariant.
LEMMA EpochInit ==
  ASSUME \A S \in Scenarios : "reset" \in S => S \cap {"join", "exit"} = {}
  PROVE  Init => EpochInv
  <1> SUFFICES ASSUME Init
               PROVE  EpochInv
    OBVIOUS
  <1>1. HeapInv
    BY HeapInit
  <1>2. ResetApart
    BY DEF Init, ResetApart
  <1>3. \A u \in Tx : pc[u] = "out"
    BY DEF Init
  <1>4. Resets
    BY <1>3, GcAssumption DEF Init, Resets, Waits
  <1>5. Bounds
    BY DEF Init, NoSlots, Bounds
  <1>6. Left
    BY <1>3 DEF Init, NoSlots, Left
  <1>7. NoDangling
    BY <1>3 DEF NoDangling
  <1>8. \A u \in Tx : Epoch(u) /\ Scans(u)
    BY <1>3 DEF Epoch, Scans, Runs
  <1> QED
    BY <1>1, <1>2, <1>4, <1>5, <1>6, <1>7, <1>8 DEF EpochInv

LEMMA EpochStep == EpochInv /\ [Next]_vars => EpochInv'
  <1> SUFFICES ASSUME EpochInv, [Next]_vars
               PROVE  EpochInv'
    OBVIOUS
  <1>1. HeapInv' /\ TypeInv'
    BY HeapStep DEF EpochInv, HeapInv, SlotInv
  <1>2. CASE UNCHANGED vars
    <2>1. /\ ResetApart' <=> ResetApart
          /\ Bounds' <=> Bounds
          /\ Left' <=> Left
          /\ NoDangling' <=> NoDangling
      BY <1>2 DEF vars, ResetApart, Bounds, Left, NoDangling, EPOCH_MAX
    <2>2. Resets' <=> Resets
      BY <1>2 DEF vars, Resets, Waits
    <2>3. \A u \in Tx : (Epoch(u)' <=> Epoch(u)) /\ (Scans(u)' <=> Scans(u))
      BY <1>2 DEF vars, Epoch, Scans, Runs, EPOCH_MAX
    <2> QED
      BY <1>1, <2>1, <2>2, <2>3 DEF EpochInv
  <1>3. ASSUME NEW t \in Tx, Step(t)
        PROVE  EpochInv'
    BY <1>1, <1>3, ResetsStep, EpochsStep, ScansStep, LeftStep, DanglingStep DEF EpochInv
  <1>4. CASE Rollover \/ gc_exit
    BY <1>1, <1>4, EpochReset DEF EpochInv
  <1>5. Next => (\E t \in Tx : Step(t)) \/ Rollover \/ gc_exit
    BY DEF Next, Step, Joins, Transacts, Reclaims, Leaves
  <1> QED
    BY <1>2, <1>3, <1>4, <1>5

\* gc_compute_min and gc_cleanup_thread: what is given back to malloc has left the data
\* structure before any transaction that runs has started, if threads do not join or leave
\* while the clock is reset (see ResetStopped).
THEOREM NothingDangles ==
  ASSUME \A S \in Scenarios : "reset" \in S => S \cap {"join", "exit"} = {}
  PROVE  Spec => []NoDangling
  <1>1. Init => EpochInv
    BY EpochInit
  <1>2. EpochInv => NoDangling
    BY DEF EpochInv
  <1> QED
    BY <1>1, <1>2, EpochStep, PTL DEF Spec

=============================================================================
