--------------------------- MODULE LatencyHistory ---------------------------
(***************************************************************************)
(* Request durations in Postgres, from the flush that stores them to the   *)
(* admin who asks for percentiles.  Raw samples are kept for some weeks    *)
(* and rolled up once a night into a row per route and day, which is kept  *)
(* for years (run_latency_rollup and prune_latency_samples in              *)
(* src/scripts/flush_metrics.py); a question is answered exactly from the  *)
(* samples or roughly from the rows, by the age of its window              *)
(* (src/backend/metrics/query_service.py).                                 *)
(*                                                                         *)
(* A percentile is abstracted to the set of samples it is computed from.   *)
(* There is one endpoint, and at most one sample for each of its methods   *)
(* in an hour; a day has HOURS.  Questions and days are in UTC, and the    *)
(* clock stands still between the reading of now and the SELECT.           *)
(***************************************************************************)
EXTENDS Integers, FiniteSets

CONSTANTS
    Methods,       \* of the endpoint
    AnyMethod,     \* None: the question is about all of them
    HOURS,         \* of a day
    BACKFILL,      \* LATENCY_ROLLUP_BACKFILL_DAYS (3)
    RETENTION,     \* LATENCY_RAW_RETENTION_DAYS (35)
    ROLLUPS,       \* LATENCY_ROLLUP_RETENTION_DAYS (730)
    LATE,          \* hours, until the list of a bucket expires in Redis
    MaxHour,       \* bound on the clock
    MaxSamples     \* bound on the samples stored

ASSUME LatencyAssumption ==
    /\ {HOURS, BACKFILL, RETENTION, ROLLUPS, MaxHour, MaxSamples} \subseteq Nat \ {0}
    /\ LATE \in Nat /\ AnyMethod \notin Methods

\* Samples come late by less than what a rollup makes up for, and are kept for
\* longer than that.
ASSUME PolicyAssumption == LATE <= BACKFILL * HOURS /\ BACKFILL < RETENTION

VARIABLES
    hour,          \* the clock, UTC
    raw,           \* AnonymousLatencySamples
    rolled,        \* the samples that the rows of the rollup were made from
    rollupAge,     \* hours since metrics:rollup:latency_last_epoch, a day at most
    pruneAge,      \* hours since metrics:prune:latency_last_epoch, a day at most
    \* History, which no action reads:
    stored,        \* every sample there ever was
    waiting,       \* hours since a rollup was committed
    neglected      \* there were more of them than the backfill makes up for

latencyVars == <<hour, raw, rolled, rollupAge, pruneAge, stored, waiting, neglected>>

Samples == [method : Methods, at : 0 .. MaxHour]
Day(h)  == h \div HOURS

\* The last sample of a day may be stored LATE hours after it.
Patience == BACKFILL * HOURS - LATE

LatencyTypeOK ==
    /\ hour \in 0 .. MaxHour /\ neglected \in BOOLEAN
    /\ stored \subseteq Samples /\ raw \subseteq stored /\ rolled \subseteq stored
    /\ {rollupAge, pruneAge} \subseteq 0 .. HOURS /\ waiting \in 0 .. Patience

LatencyInit ==
    /\ hour = 0 /\ raw = {} /\ rolled = {} /\ rollupAge = HOURS /\ pruneAge = HOURS
    /\ stored = {} /\ waiting = 0 /\ neglected = FALSE

Older(age, limit) == IF age < limit THEN age + 1 ELSE limit

Tick ==
    /\ hour < MaxHour
    /\ hour' = hour + 1
    /\ rollupAge' = Older(rollupAge, HOURS) /\ pruneAge' = Older(pruneAge, HOURS)
    /\ waiting' = Older(waiting, Patience) /\ neglected' = (neglected \/ waiting = Patience)
    /\ UNCHANGED <<raw, rolled, stored>>

(* run_latency_flush stores a sample under the hour of its bucket, which   *)
(* may be over.                                                            *)
run_latency_flush(x) ==
    /\ x \notin stored /\ Cardinality(stored) < MaxSamples
    /\ x.at <= hour /\ hour <= x.at + LATE
    /\ raw' = raw \union {x} /\ stored' = stored \union {x}
    /\ UNCHANGED <<hour, rolled, rollupAge, pruneAge, waiting, neglected>>

----------------------------------------------------------------------------
(* The nightly work, at the end of a flush                                 *)

\* LATENCY_ROLLUP_UPSERT_SQL: the rows of the days with samples are replaced.
RollUpYesterday(samples) ==            \* mutant: no backfill
    LET some == {x \in samples : Day(x.at) = Day(hour) - 1}
    IN  {x \in rolled : ~\E y \in some : y.method = x.method /\ Day(y.at) = Day(x.at)} \union some

RollUp(samples) ==
    LET some == {x \in samples : Day(hour) - BACKFILL <= Day(x.at) /\ Day(x.at) < Day(hour)}
    IN  {x \in rolled : ~\E y \in some : y.method = x.method /\ Day(y.at) = Day(x.at)} \union some

\* LATENCY_ROLLUP_PRUNE_SQL
Kept(rows) == {x \in rows : Day(x.at) >= Day(hour - ROLLUPS * HOURS)}

(* The upsert is committed before the rows are pruned, and both before the *)
(* sentinel is stamped; whatever fails, the flush goes on.                 *)
run_latency_rollup ==
    \/ UNCHANGED <<rolled, rollupAge, waiting>>
    \/ /\ rollupAge = HOURS
       /\ waiting' = 0
       /\ \/ rolled' = RollUp(raw) /\ UNCHANGED rollupAge
          \/ rolled' = Kept(RollUp(raw)) /\ rollupAge' \in {0, HOURS}

PruneEarly ==                          \* mutant: the hour that the queries still ask for
    {x \in raw : x.at > hour - RETENTION * HOURS}

\* LATENCY_PRUNE_SQL
Unpruned == {x \in raw : x.at >= hour - RETENTION * HOURS}

prune_latency_samples ==
    \/ UNCHANGED <<raw, pruneAge>>
    \/ pruneAge = HOURS /\ raw' = Unpruned /\ pruneAge' \in {0, HOURS}

(* The rollup first, then the prune, each on what is stored before: either *)
(* may fail, or the run end between them.                                  *)
Nightly ==
    /\ run_latency_rollup /\ prune_latency_samples
    /\ UNCHANGED <<hour, stored, neglected>>

\* Redis restarts, or is not there to be read.
SentinelsLost ==
    /\ rollupAge' = HOURS /\ pruneAge' = HOURS
    /\ UNCHANGED <<hour, raw, rolled, stored, waiting, neglected>>

LatencyNext == Tick \/ Nightly \/ SentinelsLost \/ \E x \in Samples : run_latency_flush(x)

LatencySpec == LatencyInit /\ [][LatencyNext]_latencyVars

----------------------------------------------------------------------------
(* The questions: of samples in [first, last), by method                   *)

Of(method, x) == method \in {x.method, AnyMethod}

_is_window_beyond_raw_retention(first) == first < hour - RETENTION * HOURS

_latency_percentiles_from_raw(first, last, method) ==
    {x \in raw : first <= x.at /\ x.at < last /\ Of(method, x)}

\* Whole days: the first is complete, the last is left out.
_latency_percentiles_from_rollup(first, last, method) ==
    {x \in rolled : Day(first) <= Day(x.at) /\ Day(x.at) < Day(last) /\ Of(method, x)}

latency_percentiles(first, last, method) ==
    IF _is_window_beyond_raw_retention(first)
    THEN [approximate |-> TRUE, from |-> _latency_percentiles_from_rollup(first, last, method)]
    ELSE [approximate |-> FALSE, from |-> _latency_percentiles_from_raw(first, last, method)]

\* Every bucket that meets the window, the empty ones too.
_zero_fill_latency_buckets(first, last, step) ==
    {b \in first - step + 1 .. last - 1 : b % step = 0}

_latency_timeseries_from_raw(first, last, method, step) ==
    [b \in _zero_fill_latency_buckets(first, last, step) |->
        {x \in _latency_percentiles_from_raw(first, last, method) : (x.at \div step) * step = b}]

\* With rows of several methods for a day, one of them is the day's.
_latency_timeseries_from_rollup(first, last, method) ==
    [b \in _zero_fill_latency_buckets(first, last, HOURS) |->
        LET day == {x \in _latency_percentiles_from_rollup(first, last, method) : Day(x.at) * HOURS = b}
        IN  IF day = {} THEN {} ELSE LET row == CHOOSE x \in day : TRUE IN {x \in day : x.method = row.method}]

latency_timeseries(first, last, method, step) ==
    IF _is_window_beyond_raw_retention(first)
    THEN _latency_timeseries_from_rollup(first, last, method)
    ELSE _latency_timeseries_from_raw(first, last, method, step)

----------------------------------------------------------------------------
(* Properties                                                              *)

Windows == {w \in (0 .. hour) \X (1 .. hour + 1) : w[1] < w[2]}

(* An answer that is not marked as approximate is of every sample that was *)
(* ever stored in its window: what is pruned and what is asked of the      *)
(* rows change over at the same hour, whenever the prune last ran.         *)
ExactIsComplete ==
    \A w \in Windows, m \in Methods \union {AnyMethod} :
        LET answer == latency_percentiles(w[1], w[2], m)
        IN  ~answer.approximate =>
                answer.from = {x \in stored : w[1] <= x.at /\ x.at < w[2] /\ Of(m, x)}

(* As long as fewer nights in a row go by without a rollup than are rolled *)
(* up again, no sample is pruned before it is in a row, and it stays there *)
(* until the row is pruned: later rollups, with fewer samples of its day   *)
(* left, do not take it away.                                              *)
OldIsRolledUp ==
    ~neglected =>
        \A x \in stored :
            x \in raw \/ x \in rolled \/ Day(x.at) < Day(hour - ROLLUPS * HOURS)

(* The buckets of a chart of the time until now hold the samples that the  *)
(* summary of the same window is made from, each in one of them, if it is  *)
(* for one method.  Without a method that is true of exact answers only.   *)
ChartShowsSummary ==
    \A first \in 0 .. hour, m \in Methods, step \in {1, HOURS} :
        LET chart == latency_timeseries(first, hour + 1, m, step)
        IN  /\ UNION {chart[b] : b \in DOMAIN chart} = latency_percentiles(first, hour + 1, m).from
            /\ \A b, c \in DOMAIN chart : b # c => chart[b] \intersect chart[c] = {}
=============================================================================
