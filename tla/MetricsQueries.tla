--------------------------- MODULE MetricsQueries ---------------------------
(***************************************************************************)
(* The questions of the metrics dashboard about the counters in Postgres   *)
(* (the query_... routes of src/backend/metrics/routes.py and              *)
(* src/backend/metrics/query_service.py): totals by category, the top      *)
(* events, a chart of one event or of its dimensions, funnels and gauges,  *)
(* over windows that need not begin or end with an hour.                   *)
(*                                                                         *)
(* Time is in half hours, UTC; a counter belongs to the hour of its        *)
(* bucket.  The times of a question may come with another offset (the      *)
(* schema accepts 2026-06-06T00:00:00+05:00), which is that of some zone's *)
(* clock: offsets are in half hours too.                                   *)
(* What is counted is numbered: a count is the set of the occurrences it   *)
(* is of, so that adding counts up is taking sets together that share      *)
(* nothing.                                                                *)
(* The order of rows, their limit and their descriptions are left out, and *)
(* the session of Postgres is in UTC.                                      *)
(***************************************************************************)
EXTENDS Integers, FiniteSets

CONSTANTS
    DAY,           \* half hours of a day
    MaxTime,       \* bound on the clock
    MaxCount,      \* bound on the occurrences counted
    Zones,         \* offsets from UTC that a question may name
    None           \* NULL, or a parameter that is not given

ASSUME QueriesAssumption ==
    /\ {DAY, MaxTime, MaxCount} \subseteq Nat \ {0} /\ DAY % 2 = 0
    /\ Zones \subseteq Int /\ 0 \in Zones
    /\ None \notin Int /\ None \notin {"utubs", "api_v1", "escape", "utub", "other", "url", "form"}

VARIABLES
    now,           \* the clock
    counters,      \* AnonymousMetrics: the rows there are, with what they count
    gauges         \* AnonymousGauges: when the gauge was sampled

queriesVars == <<now, counters, gauges>>

\* Kinds of rows.  A request that no route matches has no endpoint, and rows
\* from before a dimension was added lack it.
Kind(event, endpoint, trigger) == [event |-> event, endpoint |-> endpoint, trigger |-> trigger]

Kinds == {Kind("api_hit", "utubs", None), Kind("api_hit", "api_v1", None), Kind("api_hit", None, None),
          Kind("ingest_batch", None, None), Kind("url_added", None, None),
          Kind("form_cancel", None, "escape"), Kind("form_cancel", None, None)}

Events == {k.event : k \in Kinds}

\* EVENT_CATEGORY
Category(event) ==
    CASE event \in {"api_hit", "ingest_batch"} -> "api"
      [] event = "url_added" -> "domain"
      [] event = "form_cancel" -> "ui"

Categories == {"api", "domain", "ui"}

\* EVENT_NAME_TO_RESOURCE and API_ROUTE_PREFIX_TO_RESOURCE
RESOURCE_BY_CATEGORY ==
    [api |-> {"utub", "other"}, domain |-> {"url"}, ui |-> {"form"}]

resource_filter_clause(category, resource, row) ==
    IF category = "api"
    THEN resource = IF row.endpoint = "utubs" THEN "utub" ELSE "other"
    ELSE resource = IF row.event = "url_added" THEN "url" ELSE "form"

Hours == {t \in 0 .. MaxTime : t % 2 = 0}
Rows  == Kinds \X Hours

QueriesTypeOK ==
    /\ now \in 0 .. MaxTime /\ DOMAIN counters \subseteq Rows
    /\ \A r \in DOMAIN counters : counters[r] \subseteq 1 .. MaxCount /\ counters[r] # {}
    /\ \A r, s \in DOMAIN counters : r # s => counters[r] \intersect counters[s] = {}
    /\ gauges \subseteq 0 .. now

QueriesInit == now = 0 /\ counters = <<>> /\ gauges = {}

\* SUM(count) of the rows
Total(rows) == UNION {counters[r] : r \in rows}

\* A flush adds to a counter of this hour or the hour before.
Flush(r) ==
    /\ r[2] <= now /\ now <= r[2] + 3
    /\ \E i \in (1 .. MaxCount) \ Total(DOMAIN counters) :
          /\ \A j \in (1 .. MaxCount) \ Total(DOMAIN counters) : i <= j
          /\ counters' = [x \in DOMAIN counters \union {r} |->
                             (IF x \in DOMAIN counters THEN counters[x] ELSE {})
                                 \union (IF x = r THEN {i} ELSE {})]
    /\ UNCHANGED <<now, gauges>>

Sample ==
    /\ gauges = {}
    /\ gauges' = {now}
    /\ UNCHANGED <<now, counters>>

HalfHour ==
    /\ now < MaxTime
    /\ now' = now + 1
    /\ UNCHANGED <<counters, gauges>>

QueriesNext == Sample \/ HalfHour \/ \E r \in Rows : Flush(r)

QueriesSpec == QueriesInit /\ [][QueriesNext]_queriesVars

----------------------------------------------------------------------------
(* The window of a question                                                *)

_validate_window_xor_range(q) ==
    /\ (q.start = None) = (q.end = None)
    /\ (q.window = None) # (q.start = None)
    /\ q.start # None => q.start < q.end      \* instants, whatever their offset

\* "0h" is refused when the window is resolved.
Refused(q) == ~_validate_window_xor_range(q) \/ q.window = 0

\* Times that are given are passed on with their offset; now is in UTC.
resolve_query_window(q) ==
    IF q.start # None THEN <<q.start, q.end>> ELSE <<now - q.window, now>>
Offset(q) == IF q.start # None THEN q.zone ELSE 0

OverlappingPrevious(w) ==              \* mutant: counts back from the end
    <<w[2] - 2 * (w[2] - w[1]), w[1] + 2>>

previous_window(w) == <<w[1] - (w[2] - w[1]), w[1]>>

In(w) == {r \in DOMAIN counters : w[1] <= r[2] /\ r[2] < w[2]}

----------------------------------------------------------------------------
(* Counts of one event                                                     *)

\* filter: an endpoint, or None
Matching(event, filter, w) ==
    {r \in In(w) : r[1].event = event /\ filter \in {None, r[1].endpoint}}

grouped_count_scalar(event, filter, w) == Total(Matching(event, filter, w))

\* Rows without the dimension are left out.
grouped_count_by(event, w) ==
    LET rows == {r \in Matching(event, None, w) : r[1].trigger # None}
    IN  [t \in {r[1].trigger : r \in rows} |-> Total({r \in rows : r[1].trigger = t})]

\* Postgres floors in UTC, the code in the offset that the time came with.
date_trunc(t, step) == (t \div step) * step
_truncate_to_resolution(t, zone, step) == ((t + zone) \div step) * step - zone

\* The buckets of the rows are looked up from those of the chart: one that
\* meets the window each, the first one too if it began before.
timeseries(event, filter, w, zone, step) ==
    LET first == _truncate_to_resolution(w[1], zone, step)
    IN  [b \in {b \in first .. w[2] - 1 : (b - first) % step = 0} |->
            Total({r \in Matching(event, filter, w) : date_trunc(r[2], step) = b})]

\* Only the buckets that have rows with the dimension.
grouped_timeseries(event, w, step) ==
    LET rows == {r \in Matching(event, None, w) : r[1].trigger # None}
    IN  [key \in {<<date_trunc(r[2], step), r[1].trigger>> : r \in rows} |->
            Total({r \in rows : <<date_trunc(r[2], step), r[1].trigger>> = key})]

----------------------------------------------------------------------------
(* Counts of many events                                                   *)

_by_category(w) == [c \in Categories |-> Total({r \in In(w) : Category(r[1].event) = c})]

summary(w) == [current |-> _by_category(w), previous |-> _by_category(previous_window(w))]

\* Hits with no endpoint are left out.
_per_endpoint_counts(w) ==
    [e \in {k.endpoint : k \in Kinds} \ {None} |-> grouped_count_scalar("api_hit", e, w)]

_top_endpoints_for_api_hit(w, resource) ==
    LET found == {r \in In(w) : /\ r[1].event = "api_hit" /\ r[1].endpoint # None
                                /\ resource # None => resource_filter_clause("api", resource, r[1])}
    IN  [e \in {r[1].endpoint : r \in found} |->
            [total |-> Total({r \in found : r[1].endpoint = e}),
             previous |-> _per_endpoint_counts(previous_window(w))[e]]]

_per_event_counts(w, category) ==
    [e \in Events |-> IF Category(e) = category THEN grouped_count_scalar(e, None, w) ELSE {}]

top_events(w, category, resource) ==
    IF category = "api" THEN _top_endpoints_for_api_hit(w, resource)
    ELSE LET found == {r \in In(w) : /\ Category(r[1].event) = category
                                     /\ resource # None => resource_filter_clause(category, resource, r[1])}
         IN  [e \in {r[1].event : r \in found} |->
                 [total |-> Total({r \in found : r[1].event = e}),
                  previous |-> _per_event_counts(previous_window(w), category)[e]]]

\* FLOWS: the form that was left, the request, what came of it
_count_flow_step(step, w) ==
    CASE step = 1 -> grouped_count_scalar("form_cancel", None, w)
      [] step = 2 -> grouped_count_scalar("api_hit", "utubs", w)
      [] step = 3 -> grouped_count_scalar("url_added", None, w)

Whole(f) == UNION {f[x] : x \in DOMAIN f}

\* The causes of the first step, with what they are a part of.
_build_step_breakdown(w) ==
    LET causes == grouped_count_by("form_cancel", w)
    IN  [t \in DOMAIN causes |-> [count |-> causes[t], of |-> Whole(causes)]]

gauges_timeseries_all(w) == {t \in gauges : w[1] <= t /\ t < w[2]}

----------------------------------------------------------------------------
(* The routes, for the window that the question resolves to                *)

query_summary(q) == summary(resolve_query_window(q))

query_top(q, category, resource) == top_events(resolve_query_window(q), category, resource)

query_timeseries(q, event, endpoint, step) ==
    timeseries(event, endpoint, resolve_query_window(q), Offset(q), step)

query_grouped_timeseries(q, event, step) ==
    grouped_timeseries(event, resolve_query_window(q), step)

\* pct_of_top is a fraction of the size of the first step.
query_flow(q) ==
    LET w   == resolve_query_window(q)
        top == Cardinality(_count_flow_step(1, w))
        cut(n) == IF n < top THEN n ELSE top
    IN  [steps  |-> [s \in 1 .. 3 |->
                        [count |-> _count_flow_step(s, w),
                         pct_of_top |-> IF top = 0 THEN None
                                        ELSE cut(Cardinality(_count_flow_step(s, w)))]],
         causes |-> _build_step_breakdown(w)]

query_gauges_timeseries(q) == gauges_timeseries_all(resolve_query_window(q))

----------------------------------------------------------------------------
(* Properties                                                              *)

Times     == {None} \union 0 .. now + 1
Questions == [window : {None, 0, 2, DAY}, start : Times, end : Times, zone : Zones]
Answered  == {q \in Questions : ~Refused(q)}

\* Parts that count each occurrence of the whole once, and nothing else
Splits(f, whole) == /\ Whole(f) = whole
                    /\ \A x, y \in DOMAIN f : x # y => f[x] \intersect f[y] = {}

\* What the top rows of a category leave out
Unattributed(w, category) ==
    Total({r \in In(w) : /\ category = "api" /\ Category(r[1].event) = "api"
                         /\ r[1].event # "api_hit" \/ r[1].endpoint = None})

Tops(q, category, resource) ==
    LET top == query_top(q, category, resource) IN [name \in DOMAIN top |-> top[name].total]

(* The totals by category are those of the top rows, but for requests with *)
(* no route and other events of the API; every row is in one resource of   *)
(* its category.                                                           *)
TopsAddUp(q) ==
    \A c \in Categories :
        /\ Splits(Tops(q, c, None),
                  query_summary(q).current[c] \ Unattributed(resolve_query_window(q), c))
        /\ Splits([v \in RESOURCE_BY_CATEGORY[c] |-> Whole(Tops(q, c, v))], Whole(Tops(q, c, None)))

(* A chart of one event shows what the total of its window counts,         *)
(* wherever the window cuts an hour or a day, if the offset of the         *)
(* question is a multiple of the chart's resolution.  If it is not, no     *)
(* bucket of the chart is one of the rows', and it shows nothing at all,   *)
(* whatever the totals beside it: the docstring of _truncate_to_resolution *)
(* (query_service.py:352-354), which has the two align, is wrong of such   *)
(* a question.  A chart of a dimension shows what has it, in any case.     *)
ChartsAddUp(q) ==
    LET w == resolve_query_window(q)
    IN  \A step \in {2, DAY} :
           /\ \A e \in Events, endpoint \in {None, "utubs"} :
                 Splits(query_timeseries(q, e, endpoint, step),
                        IF Offset(q) % step = 0 THEN grouped_count_scalar(e, endpoint, w) ELSE {})
           /\ Splits(query_grouped_timeseries(q, "form_cancel", step),
                     Whole(grouped_count_by("form_cancel", w)))

(* The window before is as long and ends where this one begins: nothing is *)
(* counted in both, or between them.                                       *)
NothingBetween(q) ==
    LET w == resolve_query_window(q)
    IN  \A c \in Categories :
           Splits(<<query_summary(q).current[c], query_summary(q).previous[c]>>,
                  _by_category(<<2 * w[1] - w[2], w[2]>>)[c])

(* Whatever window a question names, if it is not refused: its answers are *)
(* about a window that has a length and agree with one another, but for    *)
(* the charts of one event over times in an offset that does not fit their *)
(* resolution, which are empty; and no funnel passes on more than came in. *)
ReportsAgree ==
    \A q \in Answered :
        /\ LET w == resolve_query_window(q) IN w[1] < w[2]
        /\ TopsAddUp(q) /\ ChartsAddUp(q) /\ NothingBetween(q)
        /\ LET flow == query_flow(q)
           IN  /\ \A s \in 1 .. 3 : flow.steps[s].pct_of_top # None =>
                      flow.steps[s].pct_of_top <= Cardinality(flow.steps[1].count)
               /\ \A t \in DOMAIN flow.causes : flow.causes[t].count \subseteq flow.steps[1].count
        /\ query_gauges_timeseries(q) \subseteq gauges
=============================================================================
