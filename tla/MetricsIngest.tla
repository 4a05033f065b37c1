---------------------------- MODULE MetricsIngest ----------------------------
(***************************************************************************)
(* The anonymous events of a page on their way to Redis.  The page         *)
(* (src/frontend/lib/metrics-client.ts) keeps them in a buffer, posts them *)
(* a batch at a time, tries a batch again when the network or the server   *)
(* fails it, and leaves the rest to a beacon when it is hidden or left.    *)
(* The server (ingest in src/backend/metrics/routes.py) reserves the id of *)
(* a batch, checks all of its events and records them one by one;          *)
(* MetricsFlush takes over from there.                                     *)
(*                                                                         *)
(* Requests may be lost or arrive late, answers may be lost, workers may   *)
(* die and Redis may refuse a command.  A batch has events of its own, and *)
(* stands for its id.  An emit within a second of an equal one changes     *)
(* nothing and is no step.                                                 *)
(***************************************************************************)
EXTENDS Naturals, FiniteSets

CONSTANTS
    MaxEvents,    \* bound: events a page emits
    Bad,          \* those whose dimensions the server does not know
    THRESHOLD,    \* BATCH_THRESHOLD (50)
    MAX_BATCH,    \* MAX_BATCH_SIZE (100)
    RETRY_MAX     \* RETRY_MAX_ATTEMPTS (3)

ASSUME IngestAssumption ==
    /\ MaxEvents \in Nat \ {0} /\ Bad \subseteq 1 .. MaxEvents
    /\ THRESHOLD \in Nat \ {0} /\ MAX_BATCH \in Nat \ {0} /\ RETRY_MAX \in Nat \ {0}

Emittable == 1 .. MaxEvents
Batches   == SUBSET Emittable \ {{}}
Beacon    == RETRY_MAX               \* in place of the number of an attempt

VARIABLES
    open,         \* the page is there
    emitted,      \* the events so far are 1 .. emitted
    buffer,       \* _buffer
    flight,       \* the batch in flight: its events ({}: none), whether it is
                  \* posted or waits for its timer, and its _retryAttempts
    requests,     \* requests that are on their way or being served
    nonces,       \* Redis: ids that are reserved
    counted,      \* Redis: how often each event was counted, up to 2
    \* History, which no action reads:
    doubtful,     \* batches whose id expired or could not be reserved
    stopped       \* events that something has stopped on one of their ways

ingestVars == <<open, emitted, buffer, flight, requests, nonces, counted,
                doubtful, stopped>>

Idle == [batch |-> {}, at |-> "idle", tries |-> 0]

IngestTypeOK ==
    /\ open \in BOOLEAN /\ emitted \in 0 .. MaxEvents
    /\ buffer \subseteq 1 .. emitted
    /\ flight = Idle \/ flight \in [batch : Batches, at : {"post", "wait"}, tries : 0 .. RETRY_MAX - 1]
    /\ requests \subseteq [batch : Batches, try : 0 .. RETRY_MAX, left : SUBSET Emittable,
                           at : {"way", "record", "refuse", "done"}]
    /\ nonces \subseteq Batches /\ doubtful \subseteq Batches
    /\ counted \in [Emittable -> 0 .. 2]
    /\ stopped \subseteq 1 .. emitted
    /\ buffer \intersect flight.batch = {} /\ Cardinality(flight.batch) <= MAX_BATCH

IngestInit ==
    /\ open = TRUE /\ emitted = 0 /\ buffer = {} /\ flight = Idle
    /\ requests = {} /\ nonces = {} /\ counted = [e \in Emittable |-> 0]
    /\ doubtful = {} /\ stopped = {}

Because(cause, events) == stopped' = stopped \union events

----------------------------------------------------------------------------
(* The page                                                                *)

Request(batch, try) == [batch |-> batch, try |-> try, at |-> "way", left |-> {}]

\* _buffer.splice(0, MAX_BATCH_SIZE)
Oldest(events) == {e \in events : Cardinality({x \in events : x < e}) < MAX_BATCH}

(* flush() with these events in the buffer: a batch that is in flight or   *)
(* waits for its timer holds back the next.                                *)
flush(events) ==
    IF flight.at = "idle" /\ events # {}
    THEN LET batch == Oldest(events)
         IN  /\ flight' = [batch |-> batch, at |-> "post", tries |-> 0]
             /\ requests' = requests \union {Request(batch, 0)}
             /\ buffer' = events \ batch
    ELSE buffer' = events /\ UNCHANGED <<flight, requests>>

emit ==
    /\ open /\ emitted < MaxEvents
    /\ emitted' = emitted + 1
    /\ LET events == buffer \union {emitted'}
       IN  IF Cardinality(events) >= THRESHOLD THEN flush(events)
           ELSE buffer' = events /\ UNCHANGED <<flight, requests>>
    /\ UNCHANGED <<open, nonces, counted, doubtful, stopped>>

Interval ==
    /\ open
    /\ flush(buffer)
    /\ UNCHANGED <<open, emitted, nonces, counted, doubtful, stopped>>

RetryTimer ==
    /\ open /\ flight.at = "wait"
    /\ flight' = [flight EXCEPT !.at = "post"]
    /\ requests' = requests \union {Request(flight.batch, flight.tries)}
    /\ UNCHANGED <<open, emitted, buffer, nonces, counted, doubtful, stopped>>

ScheduleAgain ==                       \* mutant: another batch takes its place
    /\ flight' = Idle
    /\ UNCHANGED stopped

(* _scheduleRetry                                                          *)
ScheduleRetry ==
    IF flight.tries + 1 < RETRY_MAX
    THEN /\ flight' = [flight EXCEPT !.at = "wait", !.tries = @ + 1]
         /\ UNCHANGED stopped
    ELSE flight' = Idle /\ Because("gave up", flight.batch)

(* fetch throws, wherever the request or its answer is.                    *)
NetworkError ==
    /\ open /\ flight.at = "post"
    /\ ScheduleRetry
    /\ UNCHANGED <<open, emitted, buffer, requests, nonces, counted, doubtful>>

(* flushBeacon: nothing while a batch is in flight.                        *)
flushBeacon ==
    IF flight.at = "idle" /\ buffer # {}
    THEN /\ requests' = requests \union {Request(Oldest(buffer), Beacon)}
         /\ buffer' = buffer \ Oldest(buffer)
    ELSE UNCHANGED <<requests, buffer>>

Hidden ==
    /\ open
    /\ flushBeacon
    /\ UNCHANGED <<open, emitted, flight, nonces, counted, doubtful, stopped>>

(* The page is left with what the beacon does not hold.  The cancellation  *)
(* of an open form, emitted just before, is an emit.                       *)
Leave ==
    /\ open /\ open' = FALSE
    /\ \E kept \in SUBSET buffer :
          /\ requests' = IF kept = {} THEN requests
                         ELSE requests \union {Request(kept, Beacon)}
          /\ kept = IF flight.at = "idle" THEN Oldest(buffer) ELSE {}
          /\ Because("left", (buffer \ kept) \union flight.batch)
    /\ buffer' = {} /\ flight' = Idle
    /\ UNCHANGED <<emitted, nonces, counted, doubtful>>

----------------------------------------------------------------------------
(* The server                                                              *)

Moved(r, at, left) == (requests \ {r}) \union {[r EXCEPT !.at = at, !.left = left]}

\* The events are checked once the id is reserved.
Checked(r) == IF r.batch \intersect Bad = {} THEN Moved(r, "record", r.batch)
              ELSE Moved(r, "refuse", {})

ReserveNone(r) ==                      \* mutant: the id is looked up, not kept
    /\ r.at = "way"
    /\ requests' = IF r.batch \in nonces THEN Moved(r, "done", {}) ELSE Checked(r)
    /\ UNCHANGED <<open, emitted, buffer, flight, nonces, counted, doubtful, stopped>>

(* reserve_batch: SET NX EX.  If Redis fails, the batch goes on.           *)
reserve_batch(r) ==
    /\ r.at = "way"
    /\ \/ /\ r.batch \notin nonces
          /\ nonces' = nonces \union {r.batch}
          /\ requests' = Checked(r)
          /\ UNCHANGED doubtful
       \/ /\ r.batch \in nonces
          /\ requests' = Moved(r, "done", {})
          /\ UNCHANGED <<nonces, doubtful>>
       \/ /\ doubtful' = doubtful \union {r.batch}
          /\ requests' = Checked(r)
          /\ UNCHANGED nonces
    /\ UNCHANGED <<open, emitted, buffer, flight, counted, stopped>>

\* Of a batch that may come again; the others are not asked for.
NonceExpires(batch) ==
    /\ batch = flight.batch \/ \E r \in requests : r.batch = batch /\ r.at = "way"
    /\ nonces' = nonces \ {batch}
    /\ doubtful' = doubtful \union {batch}
    /\ UNCHANGED <<open, emitted, buffer, flight, requests, counted, stopped>>

(* record_event, of the next event of the batch; it never raises.          *)
RecordEvent(r, e) ==
    /\ r.at = "record" /\ \A x \in r.left : e <= x
    /\ requests' = Moved(r, "record", r.left \ {e})
    /\ \/ /\ counted' = [counted EXCEPT ![e] = IF @ = 2 THEN 2 ELSE @ + 1]
          /\ UNCHANGED stopped
       \/ Because("redis", {e}) /\ UNCHANGED counted
    /\ UNCHANGED <<open, emitted, buffer, flight, nonces, doubtful>>

WorkerDies(r) ==
    /\ r.at = "refuse" \/ r.left # {}
    /\ requests' = requests \ {r}
    /\ Because("died", IF r.at = "refuse" THEN r.batch ELSE r.left)
    /\ UNCHANGED <<open, emitted, buffer, flight, nonces, counted, doubtful>>

\* The page still waits for this answer.
Awaited(r) == open /\ flight.at = "post" /\ flight.batch = r.batch /\ flight.tries = r.try

(* 200 arrives, or is lost.                                                *)
AnswerRecorded(r) ==
    /\ r.at = "done" \/ (r.at = "record" /\ r.left = {})
    /\ requests' = requests \ {r}
    /\ \/ UNCHANGED flight
       \/ Awaited(r) /\ flight' = Idle
    /\ UNCHANGED <<open, emitted, buffer, nonces, counted, doubtful, stopped>>

(* 400: the whole batch is refused for one bad event, and dropped.         *)
AnswerRefused(r) ==
    /\ r.at = "refuse"
    /\ requests' = requests \ {r}
    /\ Because("refused", r.batch)
    /\ \/ UNCHANGED flight
       \/ Awaited(r) /\ flight' = Idle
    /\ UNCHANGED <<open, emitted, buffer, nonces, counted, doubtful>>

(* 429 of the rate limit or 5xx before the handler, or lost on the way; a  *)
(* beacon is not tried again.                                              *)
TurnedAway(r) ==
    /\ r.at = "way"
    /\ requests' = requests \ {r}
    /\ IF r.try = Beacon THEN Because("beacon lost", r.batch) /\ UNCHANGED flight
       ELSE UNCHANGED <<flight, stopped>> \/ (Awaited(r) /\ ScheduleRetry)
    /\ UNCHANGED <<open, emitted, buffer, nonces, counted, doubtful>>

IngestNext ==
    \/ emit \/ Interval \/ RetryTimer \/ NetworkError \/ Hidden \/ Leave
    \/ \E batch \in nonces : NonceExpires(batch)
    \/ \E r \in requests :
          \/ reserve_batch(r) \/ WorkerDies(r) \/ AnswerRecorded(r) \/ AnswerRefused(r)
          \/ TurnedAway(r) \/ \E e \in r.left : RecordEvent(r, e)

IngestSpec == IngestInit /\ [][IngestNext]_ingestVars

----------------------------------------------------------------------------
(* Properties                                                              *)

(* However often a batch is sent, its events are counted once -- unless    *)
(* its id expired before the last copy came, or Redis never kept it.       *)
CountedOnce ==
    \A e \in Emittable : counted[e] > 1 => \E batch \in doubtful : e \in batch

(* An event is in the buffer, in flight, on its way or counted, or there   *)
(* is a reason: none slips through between two batches, a retry and the    *)
(* beacon.                                                                 *)
NothingVanishes ==
    \A e \in 1 .. emitted :
        \/ e \in buffer \/ e \in flight.batch \/ counted[e] > 0 \/ e \in stopped
        \/ \E r \in requests : e \in r.left \/ (r.at \in {"way", "refuse"} /\ e \in r.batch)
=============================================================================
