---------------------------- MODULE SmartCounter ----------------------------
(***************************************************************************)
(* The statistics of one atomic block (mod_ab.c): samples of transaction   *)
(* lengths, a random subset of them (Vitter's reservoir), and percentiles  *)
(* read from it.  All accesses are under ab_mutex, so each call is a step. *)
(* Mean and variance are left out (they are floating-point sums).          *)
(***************************************************************************)
EXTENDS Integers, Sequences, FiniteSets, SequencesExt

CONSTANTS
  reservoir_size,   \* size of the reservoir
  Length,           \* lengths of transactions
  MaxSamples        \* bound: samples of the block

VARIABLES
  counter,   \* smart_counter_t
  stats,     \* what stm_get_ab_stats returned last
  added      \* history: all samples

counterVars == <<counter, stats, added>>

NoStats == [min |-> 0, max |-> 0, percentile |-> <<>>, reservoir |-> <<>>]

\* sc_init
sc_init == [samples |-> 0, min |-> 0, max |-> 0, sorted |-> TRUE, reservoir |-> <<>>]

\* what a bug would do: a replaced element leaves the reservoir marked as sorted
Bugsc_add_sample(c, n) ==
  LET first == c.samples = 0
      d == [c EXCEPT !.samples = @ + 1,
                     !.min = IF first \/ n < @ THEN n ELSE @,
                     !.max = IF first \/ n > @ THEN n ELSE @]
  IN IF c.samples < reservoir_size
     THEN {[d EXCEPT !.reservoir = Append(@, n), !.sorted = FALSE]}
     ELSE {d} \cup {[d EXCEPT !.reservoir[i] = n] : i \in 1 .. reservoir_size}

\* Once the reservoir is full, a sample replaces a random element or none: the set of
\* counters that the random numbers allow.
sc_add_sample(c, n) ==
  LET first == c.samples = 0
      d == [c EXCEPT !.samples = @ + 1, !.sorted = FALSE,
                     !.min = IF first \/ n < @ THEN n ELSE @,
                     !.max = IF first \/ n > @ THEN n ELSE @]
  IN IF c.samples < reservoir_size
     THEN {[d EXCEPT !.reservoir = Append(@, n)]}
     ELSE {d} \cup {[d EXCEPT !.reservoir[i] = n] : i \in 1 .. reservoir_size}

\* sc_round(length * p / 100.0), the index (from 0) of a percentile
Index(c, p) == (Len(c.reservoir) * p + 50) \div 100

\* The array is sorted when a percentile needs an element of it ...
sort(c) == IF ~c.sorted /\ \E p \in {50, 90, 95} : Index(c, p) \in 1 .. Len(c.reservoir) - 1
           THEN [c EXCEPT !.reservoir = SortSeq(@, <), !.sorted = TRUE]
           ELSE c

\* ... and the ends are those of all samples.
sc_percentile(c, p) ==
  CASE Index(c, p) <= 0                -> c.min
    [] Index(c, p) >= Len(c.reservoir) -> c.max
    [] OTHER                           -> c.reservoir[Index(c, p) + 1]

----------------------------------------------------------------------------

\* A sample of the buffer that sc_add_samples empties.
AddSample ==
  /\ Len(added) < MaxSamples
  /\ \E n \in Length :
       /\ counter' \in sc_add_sample(counter, n)
       /\ added' = Append(added, n)
  /\ stats' = NoStats

\* A block has a counter once it has a sample.
stm_get_ab_stats ==
  LET c == sort(counter) IN
  /\ counter.samples > 0
  /\ counter' = c
  /\ stats' = [min |-> c.min, max |-> c.max, reservoir |-> c.reservoir,
               percentile |-> [p \in {50, 90, 95} |-> sc_percentile(c, p)]]
  /\ UNCHANGED added

CounterInit == counter = sc_init /\ stats = NoStats /\ added = <<>>
CounterNext == AddSample \/ stm_get_ab_stats
CounterSpec == CounterInit /\ [][CounterNext]_counterVars

----------------------------------------------------------------------------
(* Properties *)

Occurs(n, s) == Cardinality({i \in DOMAIN s : s[i] = n})
Upto(n, s) == Cardinality({i \in DOMAIN s : s[i] <= n})

\* What stm_get_ab_stats returns, however samples were thrown away and percentiles asked
\* for in between: the reservoir is a "sorted random subset of the samples" (mod_ab.h),
\* the greatest possible; minimum and maximum are those of all samples, also the ones
\* thrown away; and at least p percent of the reservoir is up to percentile p.
PercentilesSound ==
  stats # NoStats =>
    LET r == stats.reservoir  P == stats.percentile IN
    /\ Len(r) = IF Len(added) < reservoir_size THEN Len(added) ELSE reservoir_size
    /\ \A n \in Length : Occurs(n, r) <= Occurs(n, added)
    /\ \A i \in 1 .. Len(r) - 1 : r[i] <= r[i + 1]
    /\ stats.min \in ToSet(added) /\ stats.max \in ToSet(added)
    /\ \A n \in ToSet(added) : stats.min <= n /\ n <= stats.max
    /\ \A p \in DOMAIN P : /\ 100 * Upto(P[p], r) >= p * Len(r)
                           /\ P[p] \in ToSet(added)
    /\ P[50] <= P[90] /\ P[90] <= P[95]

=============================================================================
