---------------------------- MODULE MetricsFlush ----------------------------
(***************************************************************************)
(* The anonymous metrics on their way from Redis to PostgreSQL.  Web       *)
(* workers add to a counter, or push a latency sample on a capped list     *)
(* (backend/extensions/metrics/writer.py).  Every minute cron starts a run *)
(* of scripts/flush_metrics.py, which takes a lock that expires, drains    *)
(* the counters into memory and commits them, then does the same with the  *)
(* lists.                                                                  *)
(*                                                                         *)
(* One command of Redis, or one MULTI pipeline, is one step, and so is one *)
(* commit of PostgreSQL; everything else interleaves.  The lock is never   *)
(* released: it expires 55 seconds after it was taken, whether or not the  *)
(* run is over.  A run may fail anywhere (an exception of Redis or         *)
(* PostgreSQL, a killed process): what it has in memory is gone.           *)
(*                                                                         *)
(* A key stands for one (bucket, event, dimensions); the aging of keys is  *)
(* the step Expire.  The increments of a counter are numbered in the order *)
(* they are made, and samples in the order they are pushed; a count is     *)
(* kept as the set of the increments it is made of, so that one can be     *)
(* told from another.                                                      *)
(* The nightly rollup and prune, whose errors are caught, run between the  *)
(* last commit and the end of a run and touch no row modelled here; a      *)
(* failure of the prune ends a run that has nothing left in memory.        *)
(***************************************************************************)
EXTENDS Naturals, FiniteSets, FiniteSetsExt

CONSTANTS
    Keys,         \* metrics:counter:* keys
    Lists,        \* metrics:latency:* keys
    Runs,         \* flush processes that may be alive at once
    CAP,          \* LATENCY_SAMPLE_CAP_DEFAULT, 200 in metrics/latency.py
    MaxEvents,    \* bound: how often each counter is incremented
    MaxSamples,   \* bound: how many samples are pushed
    MaxFailures,  \* bound: how many runs fail
    None          \* no list

ASSUME CapAssumption == CAP \in Nat \ {0}
ASSUME BoundsAssumption == MaxEvents \in Nat /\ MaxSamples \in Nat /\ MaxFailures \in Nat
ASSUME NoneAssumption == None \notin Lists

VARIABLES
    counter,    \* Redis: the increments in each counter, none when there is no key
    list,       \* Redis: the samples of each latency list
    draining,   \* Redis: the samples under <list>:draining
    lock,       \* Redis: metrics:flush:lock is there
    stored,     \* PostgreSQL: how often AnonymousMetrics.count has each increment
    kept,       \* PostgreSQL: rows of AnonymousLatencySamples of each sample
    at,         \* where each run is
    todo,       \* keys a run's SCAN has still to return
    rows,       \* increments a run has drained and not committed
    twice,      \* the run has drained some key twice
    holding,    \* the list a run has renamed
    samples,    \* samples a run has read and not committed
    \* history
    recorded,   \* number of increments of each counter
    pushed,     \* number of samples pushed
    failures,   \* number of runs that failed
    overran,    \* a lock expired before its run was over
    intact      \* nothing has failed, expired or been trimmed

redis    == <<counter, list, draining, lock>>
postgres == <<stored, kept>>
memory   == <<at, todo, rows, twice, holding, samples>>
history  == <<recorded, pushed, failures, overran, intact>>
vars     == <<redis, postgres, memory, history>>

-----------------------------------------------------------------------------
Events  == 1..MaxEvents
Samples == 1..MaxSamples
Stages  == {"idle", "counters", "lists", "renamed", "read"}
Active(w) == at[w] # "idle"

TypeOK ==
    /\ counter \in [Keys -> SUBSET Events] /\ recorded \in [Keys -> 0..MaxEvents]
    /\ list \in [Lists -> SUBSET Samples] /\ draining \in [Lists -> SUBSET Samples]
    /\ \A l \in Lists : Cardinality(list[l]) <= CAP /\ Cardinality(draining[l]) <= CAP
    /\ lock \in BOOLEAN /\ overran \in BOOLEAN /\ intact \in BOOLEAN
    /\ stored \in [Keys -> [Events -> Nat]]
    /\ kept \in [Samples -> Nat]
    /\ at \in [Runs -> Stages]
    /\ todo \in [Runs -> SUBSET (Keys \union Lists)]
    /\ rows \in [Runs -> [Keys -> SUBSET Events]]
    /\ twice \in [Runs -> BOOLEAN]
    /\ holding \in [Runs -> Lists \union {None}]
    /\ samples \in [Runs -> SUBSET Samples]
    /\ pushed \in 0..MaxSamples /\ failures \in 0..MaxFailures

Nothing == [k \in Keys |-> {}]

Init ==
    /\ counter = Nothing /\ recorded = [k \in Keys |-> 0]
    /\ stored = [k \in Keys |-> [i \in Events |-> 0]]
    /\ list = [l \in Lists |-> {}] /\ draining = [l \in Lists |-> {}]
    /\ lock = FALSE
    /\ kept = [s \in Samples |-> 0]
    /\ at = [w \in Runs |-> "idle"] /\ todo = [w \in Runs |-> {}]
    /\ rows = [w \in Runs |-> Nothing] /\ twice = [w \in Runs |-> FALSE]
    /\ holding = [w \in Runs |-> None] /\ samples = [w \in Runs |-> {}]
    /\ pushed = 0 /\ failures = 0 /\ overran = FALSE /\ intact = TRUE

-----------------------------------------------------------------------------
(* The web workers: INCR, and LPUSH with LTRIM.                            *)
record(k) ==
    /\ recorded[k] < MaxEvents
    /\ recorded' = [recorded EXCEPT ![k] = @ + 1]
    /\ counter' = [counter EXCEPT ![k] = @ \union {recorded'[k]}]
    /\ UNCHANGED <<list, draining, lock, postgres, memory, pushed, failures, overran, intact>>

record_duration(l) ==
    /\ pushed < MaxSamples
    /\ pushed' = pushed + 1
    /\ list' = [list EXCEPT ![l] = IF Cardinality(@) = CAP
                                   THEN (@ \ {Min(@)}) \union {pushed'}
                                   ELSE @ \union {pushed'}]
    /\ intact' = (intact /\ Cardinality(list[l]) < CAP)
    /\ UNCHANGED <<counter, draining, lock, postgres, memory, recorded, failures, overran>>

-----------------------------------------------------------------------------
(* A run.  It gives up at once when the lock is held (no step).            *)
Start(w) ==
    /\ at[w] = "idle" /\ ~lock
    /\ lock' = TRUE
    /\ at' = [at EXCEPT ![w] = "counters"]
    /\ todo' = [todo EXCEPT ![w] = {k \in Keys : counter[k] # {}}]
    /\ UNCHANGED <<counter, list, draining, postgres, rows, twice, holding, samples, history>>

\* GETDEL of a key that SCAN returns: one that was there when it began, or
\* one that came later; a key may be returned more than once.
DrainWithoutDelete(w, k) ==              \* mutant: GET for GETDEL
    /\ at[w] = "counters"
    /\ k \in todo[w] \/ counter[k] # {}
    /\ rows' = [rows EXCEPT ![w][k] = @ \union counter[k]]
    /\ twice' = [twice EXCEPT ![w] = @ \/ (rows[w][k] # {} /\ counter[k] # {})]
    /\ todo' = [todo EXCEPT ![w] = @ \ {k}]
    /\ UNCHANGED <<counter, list, draining, lock, postgres, at, holding, samples, history>>

Drain(w, k) ==
    /\ at[w] = "counters"
    /\ k \in todo[w] \/ counter[k] # {}
    /\ rows' = [rows EXCEPT ![w][k] = @ \union counter[k]]
    /\ twice' = [twice EXCEPT ![w] = @ \/ (rows[w][k] # {} /\ counter[k] # {})]
    /\ counter' = [counter EXCEPT ![k] = {}]
    /\ todo' = [todo EXCEPT ![w] = @ \ {k}]
    /\ UNCHANGED <<list, draining, lock, postgres, at, holding, samples, history>>

\* The run is over, with or without success.
Finish(w) ==
    /\ at' = [at EXCEPT ![w] = "idle"]
    /\ todo' = [todo EXCEPT ![w] = {}]
    /\ rows' = [rows EXCEPT ![w] = Nothing]
    /\ twice' = [twice EXCEPT ![w] = FALSE]
    /\ holding' = [holding EXCEPT ![w] = None]
    /\ samples' = [samples EXCEPT ![w] = {}]

\* UPSERT of all rows, 200 to a statement, and one commit; then the lists are
\* scanned.  PostgreSQL refuses a statement with two rows for one key.
ToLists(w) ==
    /\ at' = [at EXCEPT ![w] = "lists"]
    /\ todo' = [todo EXCEPT ![w] = {l \in Lists : list[l] # {}}]

CommitCountersReplacing(w) ==            \* mutant: DO UPDATE SET "count" = EXCLUDED."count"
    /\ at[w] = "counters" /\ todo[w] = {}
    /\ stored' = [k \in Keys |-> IF rows[w][k] = {} THEN stored[k]
                                 ELSE [i \in Events |-> IF i \in rows[w][k] THEN 1 ELSE 0]]
    /\ rows' = [rows EXCEPT ![w] = Nothing]
    /\ ToLists(w)
    /\ UNCHANGED <<redis, kept, twice, holding, samples, history>>

CommitCounters(w) ==
    /\ at[w] = "counters" /\ todo[w] = {}
    /\ stored' = [k \in Keys |-> [i \in Events |->
                      IF i \in rows[w][k] THEN stored[k][i] + 1 ELSE stored[k][i]]]
    /\ rows' = [rows EXCEPT ![w] = Nothing]
    /\ ToLists(w)
    /\ UNCHANGED <<redis, kept, twice, holding, samples, history>>

RefuseCounters(w) ==
    /\ at[w] = "counters" /\ todo[w] = {} /\ twice[w]
    /\ Finish(w)
    /\ intact' = FALSE
    /\ UNCHANGED <<redis, postgres, recorded, pushed, failures, overran>>

\* RENAME <list> to <list>:draining, over whatever is there; a list that has
\* gone since the SCAN is skipped.
Rename(w, l) ==
    /\ at[w] = "lists"
    /\ list[l] # {}
    /\ draining' = [draining EXCEPT ![l] = list[l]]
    /\ list' = [list EXCEPT ![l] = {}]
    /\ holding' = [holding EXCEPT ![w] = l]
    /\ at' = [at EXCEPT ![w] = "renamed"]
    /\ todo' = [todo EXCEPT ![w] = @ \ {l}]
    /\ UNCHANGED <<counter, lock, postgres, rows, twice, samples, history>>

SkipGone(w, l) ==
    /\ at[w] = "lists"
    /\ l \in todo[w] /\ list[l] = {}
    /\ todo' = [todo EXCEPT ![w] = @ \ {l}]
    /\ UNCHANGED <<redis, postgres, at, rows, twice, holding, samples, history>>

\* LRANGE, then DELETE, of <list>:draining.
ReadDraining(w) ==
    /\ at[w] = "renamed"
    /\ samples' = [samples EXCEPT ![w] = @ \union draining[holding[w]]]
    /\ at' = [at EXCEPT ![w] = "read"]
    /\ UNCHANGED <<redis, postgres, todo, rows, twice, holding, history>>

KeepDraining(w) ==                       \* mutant: no delete of <list>:draining
    /\ at[w] = "read"
    /\ list' = [list EXCEPT ![holding[w]] = @ \union draining[holding[w]]]
    /\ holding' = [holding EXCEPT ![w] = None]
    /\ at' = [at EXCEPT ![w] = "lists"]
    /\ UNCHANGED <<counter, draining, lock, postgres, todo, rows, twice, samples, history>>

DeleteDraining(w) ==
    /\ at[w] = "read"
    /\ draining' = [draining EXCEPT ![holding[w]] = {}]
    /\ holding' = [holding EXCEPT ![w] = None]
    /\ at' = [at EXCEPT ![w] = "lists"]
    /\ UNCHANGED <<counter, list, lock, postgres, todo, rows, twice, samples, history>>

\* INSERT of all samples, without any constraint; the run is over.
CommitSamples(w) ==
    /\ at[w] = "lists" /\ todo[w] = {}
    /\ kept' = [s \in Samples |-> IF s \in samples[w] THEN kept[s] + 1 ELSE kept[s]]
    /\ Finish(w)
    /\ UNCHANGED <<redis, stored, history>>

-----------------------------------------------------------------------------
(* A run fails, or its process is killed.                                  *)
Fail(w) ==
    /\ Active(w) /\ failures < MaxFailures
    /\ Finish(w)
    /\ failures' = failures + 1
    /\ intact' = FALSE
    /\ UNCHANGED <<redis, postgres, recorded, pushed, overran>>

\* The 55 seconds of the lock are over.
LockStays == FALSE                       \* mutant: SET NX without EX

LockExpires == lock

ReleaseLock ==
    /\ LockExpires
    /\ lock' = FALSE
    /\ overran' = (overran \/ \E w \in Runs : Active(w))
    /\ UNCHANGED <<counter, list, draining, postgres, memory, recorded, pushed, failures, intact>>

\* A key has not been written for an hour and more.
Expire ==
    /\ \/ /\ \E k \in Keys : counter[k] # {} /\ counter' = [counter EXCEPT ![k] = {}]
          /\ UNCHANGED <<list, draining>>
       \/ /\ \E l \in Lists : list[l] # {} /\ list' = [list EXCEPT ![l] = {}]
          /\ UNCHANGED <<counter, draining>>
       \/ /\ \E l \in Lists : draining[l] # {} /\ draining' = [draining EXCEPT ![l] = {}]
          /\ UNCHANGED <<counter, list>>
    /\ intact' = FALSE
    /\ UNCHANGED <<lock, postgres, memory, recorded, pushed, failures, overran>>

-----------------------------------------------------------------------------
Progress(w) ==
    \/ \E k \in Keys : Drain(w, k)
    \/ CommitCounters(w) \/ RefuseCounters(w)
    \/ \E l \in Lists : Rename(w, l) \/ SkipGone(w, l)
    \/ ReadDraining(w) \/ DeleteDraining(w) \/ CommitSamples(w)

Next ==
    \/ \E k \in Keys : record(k)
    \/ \E l \in Lists : record_duration(l)
    \/ \E w \in Runs : Start(w) \/ Progress(w) \/ Fail(w)
    \/ ReleaseLock \/ Expire

\* Cron starts a run every minute, a run goes on until it ends, and Redis
\* lets the lock expire.
Fairness == /\ WF_vars(\E w \in Runs : Start(w))
            /\ \A w \in Runs : WF_vars(Progress(w))
            /\ WF_vars(ReleaseLock)

Spec == Init /\ [][Next]_vars /\ Fairness

-----------------------------------------------------------------------------
(* Properties                                                              *)

\* No event is counted twice, whatever fails and however many runs overlap:
\* GETDEL alone sees to it, with or without the lock ("cannot double-count the
\* same keys into Postgres", flush_metrics.py:9-12, 18-21).  And as long as no
\* run outlives its lock, no latency sample is stored twice, also when runs
\* fail in the middle of a list: what they leave behind is never drained again
\* (flush_metrics.py:428-432, 440-443).
StoredAtMostOnce ==
    /\ \A k \in Keys, i \in Events : stored[k][i] <= 1
    /\ ~overran => \A s \in Samples : kept[s] <= 1

Counted(k, i) == \/ stored[k][i] > 0 \/ i \in counter[k]
                 \/ \E w \in Runs : i \in rows[w][k]

Somewhere(s) == \/ kept[s] > 0
                \/ \E l \in Lists : s \in list[l] \union draining[l]
                \/ \E w \in Runs : s \in samples[w]

\* Nothing is lost but by a failure, the expiry of a key, or the cap: every
\* increment and every sample is in Redis, in a run, or in PostgreSQL (the
\* lock must not be outlived, or a RENAME hits another run's list).
NothingLost ==
    intact => /\ \A k \in Keys : \A i \in 1..recorded[k] : Counted(k, i)
              /\ ~overran => \A s \in 1..pushed : Somewhere(s)

\* Every counter is drained in the end, although runs fail and leave their
\* lock behind (flush_metrics.py:118-121).
EventuallyDrained == \A k \in Keys : counter[k] # {} ~> counter[k] = {}
=============================================================================
