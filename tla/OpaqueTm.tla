------------------------------ MODULE OpaqueTm ------------------------------
(***************************************************************************)
(* What a transactional memory with a version clock promises, whatever its *)
(* locks: every address has a history of committed versions; a running     *)
(* transaction only sees values that were in memory together at some time  *)
(* since it started, even if it aborts later; a commit with timestamp ts   *)
(* has read the state that the commits before ts produced, and writes no   *)
(* version into the past of what other committed transactions have read.   *)
(***************************************************************************)
EXTENDS Integers, Sequences, FiniteSets

CONSTANTS Tx, Addr, Byte, Word, InitWord

VARIABLES
    now,      \* the greatest timestamp given out
    hist,     \* hist[a]: the committed versions of a
    readAt,   \* readAt[a]: the latest time at which a committed transaction read a
    running,  \* transactions that run
    start,    \* start[t]: when t started, 0 if it does not run
    seen      \* seen[t]: what t has loaded

vars == <<now, hist, readAt, running, start, seen>>

Max2(m, n) == IF m > n THEN m ELSE n
Newest(H) == CHOOSE h \in H : \A g \in H : g.version <= h.version
Snapshot(a, n) == Newest({h \in hist[a] : h.version <= n}).value

\* A load r may keep the bytes r.own from the transaction itself.
Matches(r, w) == \A b \in Byte \ r.own : r.value[b] = w[b]
HoldsAt(S, n) == \A r \in S : Matches(r, Snapshot(r.addr, n))

\* t has committed and read at time n.
ReadAt(t, n) ==
    readAt' = [a \in Addr |-> IF \E r \in seen[t] : r.addr = a THEN Max2(readAt[a], n)
                              ELSE readAt[a]]

Stops(t) ==
    /\ t \in running
    /\ running' = running \ {t}
    /\ start' = [start EXCEPT ![t] = 0]
    /\ seen' = [seen EXCEPT ![t] = {}]

-----------------------------------------------------------------------------

Init ==
    /\ now = 0
    /\ hist = [a \in Addr |-> {[version |-> 0, value |-> InitWord]}]
    /\ readAt = [a \in Addr |-> 0]
    /\ running = {}
    /\ start = [t \in Tx |-> 0]
    /\ seen = [t \in Tx |-> {}]

Begin(t) ==
    /\ t \notin running
    /\ running' = running \cup {t}
    /\ start' = [start EXCEPT ![t] = now]
    /\ UNCHANGED <<now, hist, readAt, seen>>

\* Somebody takes a timestamp, to commit with it later or never.
Tick ==
    /\ now' = now + 1
    /\ UNCHANGED <<hist, readAt, running, start, seen>>

\* t loads whatever it may be ...
Observe(t) ==
    /\ t \in running
    /\ UNCHANGED <<now, hist, readAt, running, start>>
    /\ \E a \in Addr, v \in Word, own \in SUBSET Byte :
          seen' = [seen EXCEPT ![t] = @ \cup {[addr |-> a, value |-> v, own |-> own]}]

\* ... and what fits its earlier loads.
Load(t) ==
    /\ Observe(t)
    /\ \E n \in start[t] .. now : HoldsAt(seen'[t], n)

\* Commit writes with a timestamp taken before, or just now.
Commit(t) ==
    /\ Stops(t)
    /\ now' \in {now, now + 1}
    /\ \E ts \in start[t] + 1 .. now', W \in SUBSET Addr :
          /\ HoldsAt(seen[t], ts - 1)
          /\ \A a \in Addr : \A h \in hist[a] : h.version # ts
          /\ \A a \in W : readAt[a] < ts /\ \A h \in hist[a] : h.version < ts
          /\ \E val \in [W -> Word] :
                hist' = [a \in Addr |->
                           hist[a] \cup IF a \in W THEN {[version |-> ts, value |-> val[a]]} ELSE {}]
          /\ ReadAt(t, ts - 1)

\* A transaction that wrote nothing commits at a time between its start and now.
Finish(t) ==
    /\ Stops(t)
    /\ UNCHANGED <<now, hist>>
    /\ \E n \in start[t] .. now : HoldsAt(seen[t], n) /\ ReadAt(t, n)

Abort(t) ==
    /\ Stops(t)
    /\ UNCHANGED <<now, hist, readAt>>

\* With nobody running, time starts again.
Reset ==
    /\ running = {}
    /\ now' = 0
    /\ hist' = [a \in Addr |-> {[version |-> 0, value |-> Newest(hist[a]).value]}]
    /\ readAt' = [a \in Addr |-> 0]
    /\ UNCHANGED <<running, start, seen>>

Next ==
    \/ Tick
    \/ Reset
    \/ \E t \in Tx : Begin(t) \/ Load(t) \/ Commit(t) \/ Finish(t) \/ Abort(t)

Spec == Init /\ [][Next]_vars

\* The part of it that is about committed transactions: one that will abort may have
\* loaded anything.
SerialNext ==
    \/ Tick
    \/ Reset
    \/ \E t \in Tx : Begin(t) \/ Observe(t) \/ Commit(t) \/ Finish(t) \/ Abort(t)

SerialSpec == Init /\ [][SerialNext]_vars

=============================================================================
