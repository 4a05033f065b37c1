-------------------------- MODULE MCMetricsRecords --------------------------
(***************************************************************************)
(* The metrics before and after MetricsFlush, for TLC: the events of a     *)
(* page on their way to Redis, the history of the latencies in Postgres,   *)
(* and the questions about the counters.  None reads what another writes,  *)
(* so that each behaviour is about one of them and the others rest.        *)
(***************************************************************************)
EXTENDS MetricsIngest, LatencyHistory, MetricsQueries, TLC

VARIABLE part

Init == IngestInit /\ LatencyInit /\ QueriesInit /\ part \in {"ingest", "latency", "queries"}

Next == /\ \/ part = "ingest" /\ IngestNext /\ UNCHANGED <<latencyVars, queriesVars>>
           \/ part = "latency" /\ LatencyNext /\ UNCHANGED <<ingestVars, queriesVars>>
           \/ part = "queries" /\ QueriesNext /\ UNCHANGED <<ingestVars, latencyVars>>
        /\ UNCHANGED part

Spec == Init /\ [][Next]_<<ingestVars, latencyVars, queriesVars, part>>

Symmetry == Permutations(Methods)

(* What an admin is told of latencies is true where it is meant to be      *)
(* exact, and a chart agrees with the summary beside it.                   *)
LatencyAnswersAgree == part = "latency" => ExactIsComplete /\ ChartShowsSummary

(* What an admin is told of the counters agrees with itself, but for       *)
(* charts over times in an offset that does not fit their resolution.      *)
CounterAnswersAgree == part = "queries" => ReportsAgree
=============================================================================
