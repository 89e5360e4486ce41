----------------------------- MODULE CloneTable -----------------------------
(***************************************************************************)
(* The transactional clones of functions (abi/gcc/clone.c).  Each shared   *)
(* object registers an array <<function, clone>> when it is loaded; the    *)
(* arrays form a list that is extended with a compare-and-swap.  Code in a *)
(* transaction asks for the clone of a function it calls.                  *)
(***************************************************************************)
EXTENDS Integers, Sequences, FiniteSets, FiniteSetsExt, SequencesExt

CONSTANTS
  Object,   \* shared objects
  Ptr,      \* addresses of functions
  Codes,    \* which functions of each object have a clone: the cases to choose from
  MaxLoads, \* bound: how often objects are loaded
  NULL

VARIABLES
  code,        \* functions of each object that have a clone
  all_tables,  \* head of the list
  next,        \* clone_table.next of each object's node
  old,         \* local of _ITM_registerTMCloneTable
  pc,          \* of the thread that loads the object
  loads,       \* how often objects were loaded
  \* history variables
  linked,      \* objects whose node was put at the head since they were loaded
  raced,       \* a node was put before one whose registration had not noticed yet that it was linked
  call         \* the function asked for in the last step and what was answered

cloneVars == <<code, all_tables, next, old, pc, loads, linked, raced, call>>

Endless == <<NULL, NULL>>   \* the answer of a search that goes round in a cycle of the list
NoCall == [ptr |-> NULL, ret |-> NULL, irrevocable |-> FALSE, owners |-> {}]

Spans(o) == Min(code[o]) .. Max(code[o])

\* The array after qsort; the clone of p in object o is <<o, p>>.
table(o) == SetToSortSeq(code[o], <)

\* The nodes that a walk from o comes by, each once, after those already met.
RECURSIVE Walk(_, _)
Walk(o, met) == IF o = NULL \/ o \in ToSet(met) THEN met ELSE Walk(next[o], Append(met, o))
Tables == Walk(all_tables, <<>>)

\* The list ends, rather than lead back to a node.
Ends == Tables = <<>> \/ next[Last(Tables)] = NULL

\* The binary search of p between (from 0) lo and hi.
RECURSIVE Search(_, _, _, _)
Search(o, p, lo, hi) ==
  LET i == (lo + hi) \div 2 IN
  CASE lo >= hi              -> NULL
    [] p < table(o)[i + 1]   -> Search(o, p, lo, i)
    [] p > table(o)[i + 1]   -> Search(o, p, i + 1, hi)
    [] OTHER                 -> <<o, p>>

\* Only the first table whose range has p is searched.
find_clone(p) ==
  LET i == SelectInSeq(Tables, LAMBDA o : p \in Spans(o)) IN
  CASE i # 0        -> Search(Tables[i], p, 0, Len(table(Tables[i])))
    [] i = 0 /\ Ends -> NULL
    [] OTHER        -> Endless

----------------------------------------------------------------------------
(* _ITM_registerTMCloneTable: the loop ends when the compare-and-swap *)
(* returns the node itself, which is one turn after it was linked.    *)

\* A new node, sorted; the head is read.
Register(o) ==
  /\ pc[o] = "unloaded"
  /\ loads < MaxLoads
  /\ loads' = loads + 1
  /\ old' = [old EXCEPT ![o] = all_tables]
  /\ pc' = [pc EXCEPT ![o] = "link"]
  /\ call' = NoCall
  /\ UNCHANGED <<code, all_tables, next, linked, raced>>

\* table->next = old, also if the node is in the list by now
Link(o) ==
  /\ pc[o] = "link"
  /\ next' = [next EXCEPT ![o] = old[o]]
  /\ pc' = [pc EXCEPT ![o] = "cas"]
  /\ call' = NoCall
  /\ UNCHANGED <<code, all_tables, old, loads, linked, raced>>

\* what a bug would do: link the node before the loop only
BugRetry == "cas"

\* Where the loop goes on.
Retry == "link"

\* The compare-and-swap returns what was there before, also when it succeeds.
RegisterCas(o) ==
  /\ pc[o] = "cas"
  /\ old' = [old EXCEPT ![o] = all_tables]
  /\ pc' = [pc EXCEPT ![o] = IF all_tables = o THEN "loaded" ELSE Retry]
  /\ \/ /\ all_tables = old[o]
        /\ all_tables' = o
        /\ linked' = linked \cup {o}
        /\ raced' = (raced \/ \E q \in linked \ {o} : pc[q] # "loaded")
     \/ /\ all_tables # old[o]
        /\ UNCHANGED <<all_tables, linked, raced>>
  /\ call' = NoCall
  /\ UNCHANGED <<code, next, loads>>

_ITM_registerTMCloneTable(o) == Register(o) \/ Link(o) \/ RegisterCas(o)

----------------------------------------------------------------------------

\* An object is unloaded alone: "we must make sure that no transaction is active at this
\* point".  The list has the node and ends: otherwise the walk would not, or a node would
\* stay reachable that is freed.
_ITM_deregisterTMCloneTable(o) ==
  /\ pc[o] = "loaded"
  /\ \A q \in Object : pc[q] \in {"unloaded", "loaded"}
  /\ o \in ToSet(Tables) /\ Ends
  /\ all_tables' = IF all_tables = o THEN next[o] ELSE all_tables
  /\ next' = [q \in Object |-> CASE q = o       -> NULL
                                [] next[q] = o -> next[o]
                                [] OTHER       -> next[q]]
  /\ pc' = [pc EXCEPT ![o] = "unloaded"]
  /\ old' = [old EXCEPT ![o] = NULL]
  /\ linked' = linked \ {o}
  /\ call' = NoCall
  /\ UNCHANGED <<code, loads, raced>>

Answer(p, ret, irrevocable) ==
  /\ call' = [ptr |-> p, ret |-> ret, irrevocable |-> irrevocable,
              owners |-> {o \in linked : p \in code[o]}]
  /\ UNCHANGED <<code, all_tables, next, old, pc, loads, linked, raced>>

\* A call of p in a transaction: a function without a clone runs in serial mode.
_ITM_getTMCloneOrIrrevocable(p) ==
  \/ find_clone(p) # NULL /\ Answer(p, find_clone(p), FALSE)
  \/ find_clone(p) = NULL /\ Answer(p, p, TRUE)

\* Without a clone, the process ends.
_ITM_getTMCloneSafe(p) == find_clone(p) # NULL /\ Answer(p, find_clone(p), FALSE)

\* Objects do not overlap.
CloneInit ==
  /\ code \in Codes
  /\ \A o, q \in Object : o # q => Spans(o) \cap Spans(q) = {}
  /\ all_tables = NULL
  /\ next = [o \in Object |-> NULL]
  /\ old = [o \in Object |-> NULL]
  /\ pc = [o \in Object |-> "unloaded"]
  /\ loads = 0
  /\ linked = {}
  /\ raced = FALSE
  /\ call = NoCall

CloneNext ==
  \/ \E o \in Object : _ITM_registerTMCloneTable(o) \/ _ITM_deregisterTMCloneTable(o)
  \/ \E p \in Ptr : _ITM_getTMCloneOrIrrevocable(p) \/ _ITM_getTMCloneSafe(p)

CloneSpec == CloneInit /\ [][CloneNext]_cloneVars

----------------------------------------------------------------------------
(* Properties *)

\* The clone from the one object that has it, or irrevocable mode if none has.
Served ==
  IF call.owners = {} THEN call.irrevocable /\ call.ret = call.ptr
  ELSE ~call.irrevocable /\ call.ret = <<CHOOSE o \in call.owners : TRUE, call.ptr>>

\* A transaction that calls a function gets the clone of that function from a linked
\* object, and becomes irrevocable exactly if no such object has one, while objects are
\* registered at the same time, lose the compare-and-swap to each other and go away
\* (_ITM_registerTMCloneTable).  That needs that nobody comes first between the
\* compare-and-swap of a registration that succeeds and the one that notices it.
ClonesFound == call # NoCall /\ ~raced => Served

\* clone.c:83 "if the function (ptr) have a TM version, give the pointer to the TM function
\* otherwise, set transaction to irrevocable mode".  Wrong once that has happened: the
\* list leads back to itself, tables are lost, and a search may not end.
ClonesServed == call # NoCall => Served

=============================================================================
