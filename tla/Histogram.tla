------------------------------ MODULE Histogram ------------------------------
(***************************************************************************)
(* The latency histograms of src/src/metrics.cc: XrdCl's threads Observe    *)
(* values with three relaxed increments (the sum, the count, one bucket)    *)
(* while the timer, and after it the run thread, copy the cells one by one  *)
(* (Snapshot), publish them cumulatively (AppendHistogram in                 *)
(* src/src/prom_encode.cc) and derive the percentiles of result.json.       *)
(*                                                                          *)
(* Nothing orders relaxed operations on different atomics, so an            *)
(* observation's increments land in any order and a snapshot loads the      *)
(* cells in any order; a load returns what its cell then holds.  Values and *)
(* bounds are integers (thousandths of the code's unit) and a percentile is *)
(* a fraction: no rounding is modelled.                                     *)
(***************************************************************************)
EXTENDS Naturals, Sequences, FiniteSets, Sums

CONSTANTS
    Observers,  \* threads that run session callbacks
    Values,     \* what they observe
    Bounds,     \* kLatencyBucketBounds
    MaxSeen,    \* bounds the observations
    MaxScrapes, \* bounds the timer's snapshots
    None

ASSUME HistogramShape ==
    /\ IsFiniteSet(Observers)
    /\ Values \subseteq Nat /\ IsFiniteSet(Values)
    /\ Bounds \in Seq(Nat \ {0}) /\ Bounds # <<>>
    /\ \A i, j \in 1 .. Len(Bounds) : i < j => Bounds[i] < Bounds[j]
    /\ MaxSeen \in Nat /\ MaxScrapes \in Nat

Buckets == 1 .. Len(Bounds) + 1     \* the last one is +Inf
Cells == {<<"sum", 0>>, <<"count", 0>>} \cup {<<"bucket", i>> : i \in Buckets}
SumCell == <<"sum", 0>>
CountCell == <<"count", 0>>
Observations == [value : Values, left : SUBSET Cells]

ASSUME IdleThread == None \notin Observations

VARIABLES
    hist,       \* the atomics: buckets_, count_, sum_us_
    busy,       \* the observation each thread is making and its increments left
    begun,      \* how often each value has been observed, or begun to be
    settled,    \* of these, the ones whose three increments have landed
    reader,     \* the snapshot being taken: its cells, those left, settled at its start
    phase,      \* of the run thread: "run", "drained", "timedout", "over"
    scrapes,    \* the timer's snapshots
    scraped     \* the last snapshot taken

histogramVars == <<hist, busy, begun, settled, reader, phase, scrapes, scraped>>

NoCounts == [c \in Cells |-> 0]

\* The samples of the encoded histogram: le="Bounds[i]" up to le="+Inf".
Cumulative(h, i) == Total([j \in 1 .. i |-> h[<<"bucket", j>>]], 1 .. i)

\* The cells count, and every observation begun is under way in one callback
\* thread or has landed.
HistogramTypeOK ==
    /\ hist \in [Cells -> Nat]
    /\ busy \in [Observers -> {None} \cup Observations]
    /\ begun \in [Values -> Nat] /\ settled \in [Values -> Nat]
    /\ reader.cells \in [Cells -> Nat] /\ reader.left \subseteq Cells
    /\ phase \in {"run", "drained", "timedout", "over"}
    /\ scraped.cells \in [Cells -> Nat]
    /\ \A v \in Values :
        begun[v] = settled[v]
                    + Cardinality({t \in Observers : busy[t] # None /\ busy[t].value = v})

Idle == [cells |-> NoCounts, left |-> {}, from |-> None]
NoSnapshot == [cells |-> NoCounts, from |-> None, upto |-> None]

HistogramInit ==
    /\ hist = NoCounts
    /\ busy = [t \in Observers |-> None]
    /\ begun = [v \in Values |-> 0]
    /\ settled = begun
    /\ reader = Idle
    /\ phase = "run" /\ scrapes = 0
    /\ scraped = NoSnapshot

----------------------------------------------------------------------------
\* Observe.

\* Mutant: a value on a bound goes to the next bucket.
BucketIndexExclusive(v) ==
    Min({Len(Bounds) + 1} \cup {i \in 1 .. Len(Bounds) : v < Bounds[i]})

BucketIndex(v) ==
    Min({Len(Bounds) + 1} \cup {i \in 1 .. Len(Bounds) : v <= Bounds[i]})

CellsOf(v) == {SumCell, CountCell, <<"bucket", BucketIndex(v)>>}

Observe(t, v) ==
    /\ busy[t] = None
    /\ phase # "drained"
    /\ Total(begun, Values) < MaxSeen
    /\ busy' = [busy EXCEPT ![t] = [value |-> v, left |-> CellsOf(v)]]
    /\ begun' = [begun EXCEPT ![v] = @ + 1]
    /\ UNCHANGED <<hist, settled, reader, phase, scrapes, scraped>>

Added(t, c) == [hist EXCEPT ![c] = @ + (IF c = SumCell THEN busy[t].value ELSE 1)]

FetchAdd(t, c) ==
    /\ busy[t] # None /\ c \in busy[t].left
    /\ hist' = Added(t, c)
    /\ IF busy[t].left = {c}
       THEN /\ busy' = [busy EXCEPT ![t] = None]
            /\ settled' = [settled EXCEPT ![busy[t].value] = @ + 1]
       ELSE /\ busy' = [busy EXCEPT ![t].left = @ \ {c}]
            /\ UNCHANGED settled
    /\ UNCHANGED <<begun, reader, phase, scrapes, scraped>>

----------------------------------------------------------------------------
\* Snapshot, by the timer while the run lasts and by the run thread at its end.

Reading == reader.left # {}
Drained == \A t \in Observers : busy[t] = None

Begin ==
    /\ ~Reading /\ phase # "over"
    /\ phase = "run" => scrapes < MaxScrapes
    /\ reader' = [cells |-> NoCounts, left |-> Cells, from |-> settled]
    /\ scrapes' = IF phase = "run" THEN scrapes + 1 ELSE scrapes
    /\ UNCHANGED <<hist, busy, begun, settled, phase, scraped>>

Copy(c) ==
    /\ c \in reader.left
    /\ LET cells == [reader.cells EXCEPT ![c] = hist[c]]
       IN IF reader.left = {c}
          THEN /\ scraped' = [cells |-> cells, from |-> reader.from, upto |-> begun]
               /\ reader' = Idle
               /\ phase' = IF phase = "run" THEN "run" ELSE "over"
          ELSE /\ reader' = [reader EXCEPT !.cells = cells, !.left = @ \ {c}]
               /\ UNCHANGED <<scraped, phase>>
    /\ UNCHANGED <<busy, begun, settled, scrapes>>

\* Mutant: a snapshot takes what it reads.
LoadAndReset(c) == Copy(c) /\ hist' = [hist EXCEPT ![c] = 0]

LoadCell(c) == Copy(c) /\ UNCHANGED hist

\* The timer is joined before the run thread reads; by then every session has
\* reported, or the drain timed out and callbacks are still to come.
EndRun ==
    /\ phase = "run" /\ ~Reading
    /\ \/ Drained /\ phase' = "drained"
       \/ phase' = "timedout"
    /\ UNCHANGED <<hist, busy, begun, settled, reader, scrapes, scraped>>

HistogramNext ==
    \/ \E t \in Observers, v \in Values : Observe(t, v)
    \/ \E t \in Observers, c \in Cells : FetchAdd(t, c)
    \/ Begin
    \/ \E c \in Cells : LoadCell(c)
    \/ EndRun

HistogramSpec == HistogramInit /\ [][HistogramNext]_histogramVars

----------------------------------------------------------------------------
\* HistogramPercentile, as a fraction.

Lower(i) == IF i = 1 THEN 0 ELSE Bounds[i - 1]
Upper(i) == IF i <= Len(Bounds) THEN Bounds[i] ELSE Bounds[Len(Bounds)] * 2

\* Mutant: a bucket that just reaches the rank is passed over.
ReachedStrictly(h, p) == {i \in Buckets : Cumulative(h, i) * 100 > p * h[CountCell]}

Reached(h, p) == {i \in Buckets : Cumulative(h, i) * 100 >= p * h[CountCell]}

HistogramPercentile(h, p) ==
    IF h[CountCell] = 0 THEN [num |-> 0, den |-> 1]
    ELSE IF Reached(h, p) = {} THEN [num |-> Bounds[Len(Bounds)], den |-> 1]
    ELSE LET i == Min(Reached(h, p))
             in == h[<<"bucket", i>>]
             den == 100 * in
             over == p * h[CountCell] - 100 * Cumulative(h, i - 1)
         IN IF in = 0 THEN [num |-> Upper(i), den |-> 1]
            ELSE [num |-> Lower(i) * den + over * (Upper(i) - Lower(i)), den |-> den]

Percents == {50, 95, 99}    \* the ones LatencyPercentiles asks for

----------------------------------------------------------------------------
\* Properties.

Below(f, b) == Total(f, {v \in Values : v <= b})
Taken == scraped.from # None

\* A snapshot is torn, but never by more than what happened while it was
\* taken: each of its cumulative samples counts every observation that had
\* landed when it began and none that had not begun when it ended.  A final
\* snapshot with nothing under way is therefore exact, whatever raced before.
SnapshotWithinRun ==
    Taken =>
        /\ \A i \in 1 .. Len(Bounds) :
            Cumulative(scraped.cells, i)
                \in Below(scraped.from, Bounds[i]) .. Below(scraped.upto, Bounds[i])
        /\ \A h \in {Cumulative(scraped.cells, Len(Bounds) + 1), scraped.cells[CountCell]} :
            h \in Total(scraped.from, Values) .. Total(scraped.upto, Values)

\* What a scrape shows are counters: no sample of a later snapshot is lower
\* than in the one before it.
ScrapesGrow ==
    [][/\ \A i \in Buckets :
            Cumulative(scraped'.cells, i) >= Cumulative(scraped.cells, i)
       /\ \A c \in {SumCell, CountCell} : scraped'.cells[c] >= scraped.cells[c]]_histogramVars

\* A percentile of a run that drained is on the same side of every bound as
\* the nearest-rank observation: interpolation never leaves its bucket, and
\* the boundary values are counted where the bound says.
PercentileInItsBucket ==
    (phase = "over" /\ scraped.from = scraped.upto /\ Total(scraped.upto, Values) > 0) =>
        \A p \in Percents :
            LET n == Total(scraped.upto, Values)
                rank == Min({v \in Values : Below(scraped.upto, v) * 100 >= p * n})
                q == HistogramPercentile(scraped.cells, p)
            IN \A i \in 1 .. Len(Bounds) :
                (rank <= Bounds[i]) <=> (q.num <= Bounds[i] * q.den)

\* src/tests/test_metrics.cc:30 observes values of one bucket and expects the
\* percentiles there.  When the drain times out under a callback that has
\* counted its value and not yet put it in a bucket, result.json's percentile
\* runs off the end of the buckets and is the largest bound.
PercentileObserved ==
    (phase = "over" /\ Total(scraped.upto, Values) > 0) =>
        \A p \in Percents, i \in 1 .. Len(Bounds) :
            (\A v \in Values : scraped.upto[v] > 0 => v <= Bounds[i]) =>
                LET q == HistogramPercentile(scraped.cells, p)
                IN q.num <= Bounds[i] * q.den

=============================================================================
