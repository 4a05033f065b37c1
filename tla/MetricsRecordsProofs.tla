------------------------ MODULE MetricsRecordsProofs ------------------------
(***************************************************************************)
(* Theorems about the parts of the metrics that MCMetricsRecords puts      *)
(* together, for any values of the constants.                              *)
(*                                                                         *)
(* MetricsIngest, for any number of events, whichever of them the server   *)
(* refuses, and any sizes of batches and numbers of tries: IngestInv says  *)
(* that batches share no events, that the events of a batch whose id was   *)
(* reserved are settled, that until then a batch that may be tried again   *)
(* is still in flight, and that a batch whose id was kept is recorded by   *)
(* one request, each event once.                                           *)
(*                                                                         *)
(* LatencyHistory, for any periods that the assumptions allow: LatencyInv  *)
(* says that what is pruned is older than any question answered from the   *)
(* samples, and that what is in no row of the rollup came too late, or     *)
(* belongs to a day that was not over, when a rollup was last committed.   *)
(*                                                                         *)
(* MetricsQueries, for a clock and counters of any size: an answer is made *)
(* of rows, no two of which count the same occurrence, so that what splits *)
(* the rows of a window into parts splits their total.                     *)
(***************************************************************************)
EXTENDS MCMetricsRecords, FiniteSetTheorems, TLAPS

(***************************************************************************)
(* The events of a page: MetricsIngest                                     *)
(***************************************************************************)

Asked == [batch : SUBSET Emittable, try : 0 .. RETRY_MAX, left : SUBSET Emittable,
          at : {"way", "record", "refuse", "done"}]

Flights == [batch : SUBSET Emittable, at : {"idle", "post", "wait"},
            tries : 0 .. RETRY_MAX - 1]
USE DEF Flights

Types ==
    /\ emitted \in 0 .. MaxEvents /\ buffer \subseteq 1 .. emitted
    /\ flight \in Flights
    /\ flight.at = "idle" => flight.batch = {}
    /\ requests \subseteq Asked
    /\ \A r \in requests : r.left \subseteq r.batch /\ (r.left # {} => r.at = "record")
    /\ nonces \subseteq SUBSET Emittable /\ doubtful \subseteq SUBSET Emittable
    /\ counted \in [Emittable -> 0 .. 2]

Reserved == nonces \union doubtful
Sent     == {flight.batch} \union {r.batch : r \in requests} \union Reserved

\* Batches share no events, and none is in the buffer as well.
Apart ==
    /\ \A B \in Sent : B \subseteq 1 .. emitted /\ B \intersect buffer = {}
    /\ \A B, C \in Sent : B = C \/ B \intersect C = {}

\* An event that is counted or stopped, or is about to be.
Settled(e) == \/ counted[e] > 0 \/ e \in stopped
              \/ \E r \in requests : e \in r.left \/ (r.at = "refuse" /\ e \in r.batch)

ReservedSettled ==
    /\ \A B \in Reserved : \A e \in B : Settled(e)
    /\ \A r \in requests : r.at # "way" => r.batch \in Reserved

\* A request on its way that is no beacon can be lost: the page has its batch.
HeldBack == \A r \in requests : r.at = "way" /\ r.try # Beacon =>
                \A e \in r.batch : e \in flight.batch \/ Settled(e)

\* Of a batch whose id was kept one request has anything left to record.
RecordedByOne ==
    /\ \A e \in Emittable : counted[e] > 0 => \E B \in Reserved : e \in B
    /\ \A r \in requests : \A e \in r.left : r.batch \notin doubtful =>
          /\ counted[e] = 0
          /\ \A q \in requests : q.batch = r.batch /\ q # r => q.left = {}

IngestInv == Types /\ Apart /\ ReservedSettled /\ HeldBack /\ RecordedByOne /\ NothingVanishes /\ CountedOnce

-----------------------------------------------------------------------------
LEMMA InitIngestInv == IngestInit => IngestInv
<1> SUFFICES ASSUME IngestInit PROVE IngestInv
  OBVIOUS
<1> USE IngestAssumption
<1>1. Types
  BY DEF IngestInit, Types, Idle, Emittable
<1>2. Apart
  BY DEF IngestInit, Apart, Sent, Reserved, Idle
<1>3. ReservedSettled /\ HeldBack
  BY DEF IngestInit, ReservedSettled, Reserved, HeldBack
<1>4. RecordedByOne /\ CountedOnce
  BY DEF IngestInit, RecordedByOne, CountedOnce
<1>5. NothingVanishes
  BY DEF IngestInit, NothingVanishes
<1>6. QED BY <1>1, <1>2, <1>3, <1>4, <1>5 DEF IngestInv

\* What may happen to an event that no request of a batch carries.
LEMMA VanishesNot ==
  ASSUME \A e \in 1 .. emitted : \/ e \in buffer \/ e \in flight.batch \/ Settled(e)
                                 \/ \E r \in requests : r.at = "way" /\ e \in r.batch
  PROVE  NothingVanishes
BY DEF Settled, NothingVanishes

LEMMA Whereabouts ==
  ASSUME NothingVanishes, NEW e \in 1 .. emitted
  PROVE  \/ e \in buffer \/ e \in flight.batch \/ Settled(e)
         \/ \E r \in requests : r.at = "way" /\ e \in r.batch
BY DEF Settled, NothingVanishes

-----------------------------------------------------------------------------
(* Steps of the page.                                                      *)

\* The page sends a batch B, perhaps, and lets its batch in flight go only
\* when its events are stopped, or takes B for it.
LEMMA PageKeeps ==
  ASSUME IngestInv, Types', NEW B \in SUBSET Emittable, NEW t,
         UNCHANGED <<nonces, counted, doubtful>>, stopped \subseteq stopped', emitted <= emitted',
         \/ requests' = requests
         \/ requests' = requests \union {Request(B, t)} /\ (t = Beacon \/ B = flight'.batch),
         B \subseteq 1 .. emitted', B \intersect buffer' = {},
         B = flight.batch \/ \A C \in Sent : B \intersect C = {},
         \A C \in Sent : C \intersect buffer' = {},
         flight'.batch \in {flight.batch, {}, B},
         flight'.batch = flight.batch \/ flight.batch \subseteq stopped',
         \A e \in buffer \union (emitted + 1 .. emitted') :
            \/ e \in buffer' \/ e \in flight'.batch \/ e \in stopped'
            \/ e \in B /\ Request(B, t) \in requests'
  PROVE  IngestInv'
<1> USE IngestAssumption
<1>0. emitted \in Nat /\ emitted' \in Nat /\ requests \subseteq requests'
  BY DEF IngestInv, Types
<1>1. ASSUME NEW e, Settled(e) PROVE Settled(e)'
  BY <1>0, <1>1 DEF Settled
<1>2. Reserved' = Reserved
  BY DEF Reserved
<1>3. \A q \in requests' \ requests : /\ q = Request(B, t)
                                      /\ q.at = "way" /\ q.batch = B /\ q.left = {} /\ q.try = t
                                      /\ t = Beacon \/ B = flight'.batch
  BY DEF Request
<1>4. Apart'
  <2>1. \A C \in Sent' : C \in Sent \/ C = B \/ C = {}
    BY <1>2, <1>3 DEF Sent
  <2>2. \A C \in Sent : C \subseteq 1 .. emitted'
    BY <1>0 DEF IngestInv, Apart
  <2>3. flight.batch \in Sent
    BY DEF Sent
  <2>4. \A C \in Sent : B = C \/ B \intersect C = {}
    BY <2>3 DEF IngestInv, Apart
  <2>5. \A C, D \in Sent : C = D \/ C \intersect D = {}
    BY DEF IngestInv, Apart
  <2>6. ASSUME NEW C \in Sent' PROVE C \subseteq 1 .. emitted' /\ C \intersect buffer' = {}
    <3>1. CASE C \in Sent
      BY <2>2, <3>1
    <3>2. CASE C = B
      BY <3>2
    <3>3. CASE C = {}
      BY <3>3
    <3>4. QED BY <2>1, <2>6, <3>1, <3>2, <3>3
  <2>7. ASSUME NEW C \in Sent', NEW D \in Sent' PROVE C = D \/ C \intersect D = {}
    <3>1. CASE C = {} \/ D = {}
      BY <3>1
    <3>2. CASE C \in Sent /\ D \in Sent
      BY <2>5, <3>2
    <3>3. CASE C = B /\ D \in Sent
      BY <2>4, <3>3
    <3>4. CASE D = B /\ C \in Sent
      BY <2>4, <3>4
    <3>5. QED BY <2>1, <2>7, <3>1, <3>2, <3>3, <3>4
  <2>8. QED BY <2>6, <2>7 DEF Apart
<1>5. ReservedSettled'
  <2>1. \A C \in Reserved' : \A e \in C : Settled(e)'
    BY <1>1, <1>2 DEF IngestInv, ReservedSettled
  <2>2. \A q \in requests' : q.at # "way" => q.batch \in Reserved'
    BY <1>2, <1>3 DEF IngestInv, ReservedSettled
  <2>3. QED BY <2>1, <2>2 DEF ReservedSettled
<1>6. HeldBack'
  <2> SUFFICES ASSUME NEW q \in requests', q.at = "way", q.try # Beacon, NEW e \in q.batch
               PROVE  e \in flight'.batch \/ Settled(e)'
    BY DEF HeldBack, Beacon
  <2>1. CASE q \in requests
    <3>1. e \in flight.batch \/ Settled(e)
      BY <2>1 DEF IngestInv, HeldBack
    <3>2. QED BY <1>1, <3>1 DEF Settled
  <2>2. CASE q \notin requests
    BY <1>3, <2>2
  <2>3. QED BY <2>1, <2>2
<1>7. RecordedByOne'
  <2>1. \A e \in Emittable : counted'[e] > 0 => \E C \in Reserved' : e \in C
    BY <1>2 DEF IngestInv, RecordedByOne
  <2>2. \A r \in requests' : \A e \in r.left : r.batch \notin doubtful' =>
          /\ counted'[e] = 0
          /\ \A q \in requests' : q.batch = r.batch /\ q # r => q.left = {}
    BY <1>3 DEF IngestInv, RecordedByOne
  <2>3. QED BY <2>1, <2>2 DEF RecordedByOne
<1>8. NothingVanishes'
  <2>1. ASSUME NEW e \in 1 .. emitted'
        PROVE  \/ e \in buffer' \/ e \in flight'.batch \/ Settled(e)'
               \/ \E r \in requests' : r.at = "way" /\ e \in r.batch
    <3>1. CASE e \in buffer \union (emitted + 1 .. emitted')
      <4>1. \/ e \in buffer' \/ e \in flight'.batch \/ e \in stopped'
            \/ e \in B /\ Request(B, t) \in requests'
        BY <3>1
      <4>2. Request(B, t).at = "way" /\ Request(B, t).batch = B
        BY DEF Request
      <4>3. QED BY <4>1, <4>2 DEF Settled
    <3>2. CASE e \in 1 .. emitted /\ e \notin buffer
      <4>1. \/ e \in flight.batch \/ Settled(e) \/ \E r \in requests : r.at = "way" /\ e \in r.batch
        BY <3>2, Whereabouts DEF IngestInv
      <4>2. e \in flight.batch => e \in flight'.batch \/ Settled(e)'
        BY DEF Settled
      <4>3. QED BY <1>0, <1>1, <4>1, <4>2
    <3>3. e \in 1 .. emitted \/ e \in emitted + 1 .. emitted'
      BY <1>0
    <3>4. QED BY <3>1, <3>2, <3>3
  <2>2. QED BY <2>1 DEF Settled, NothingVanishes
<1>9. CountedOnce'
  BY DEF IngestInv, CountedOnce
<1>10. QED BY <1>4, <1>5, <1>6, <1>7, <1>8, <1>9 DEF IngestInv

LEMMA OldestShape == ASSUME NEW events PROVE Oldest(events) \subseteq events
BY DEF Oldest

LEMMA RequestType ==
  ASSUME NEW B \in SUBSET Emittable, NEW t \in 0 .. RETRY_MAX
  PROVE  /\ Request(B, t) \in Asked /\ Request(B, t).left = {} /\ Request(B, t).at = "way"
BY DEF Request, Asked

\* What is in the buffer, or new, is in no batch that was sent.
LEMMA BufferApart ==
  ASSUME IngestInv
  PROVE  /\ flight.batch \in Sent /\ flight.batch \intersect buffer = {}
         /\ flight.batch \subseteq 1 .. emitted
         /\ \A C \in Sent : C \intersect buffer = {} /\ emitted + 1 \notin C
<1>1. flight.batch \in Sent
  BY DEF Sent
<1>2. emitted \in Nat
  BY IngestAssumption DEF IngestInv, Types
<1>3. \A C \in Sent : C \subseteq 1 .. emitted /\ C \intersect buffer = {}
  BY DEF IngestInv, Apart
<1>4. QED BY <1>1, <1>2, <1>3

\* flush() with what is in the buffer and perhaps one event more.
LEMMA FlushBufferKeeps ==
  ASSUME IngestInv, NEW events, events = buffer \/ events = buffer \union {emitted + 1},
         emitted' = IF events = buffer THEN emitted ELSE emitted + 1, emitted' <= MaxEvents,
         \/ flush(events)
         \/ buffer' = events /\ UNCHANGED <<flight, requests>>,
         UNCHANGED <<nonces, counted, doubtful, stopped>>
  PROVE  IngestInv'
<1> USE IngestAssumption, BufferApart
<1>0. /\ emitted \in Nat /\ emitted' \in 0 .. MaxEvents /\ emitted <= emitted'
      /\ events \subseteq 1 .. emitted' /\ events \subseteq Emittable
      /\ \A C \in Sent : C \intersect events = {}
      /\ \A e \in buffer \union (emitted + 1 .. emitted') : e \in events
  <2>1. emitted \in 0 .. MaxEvents /\ buffer \subseteq 1 .. emitted
    BY DEF IngestInv, Types
  <2>2. CASE events = buffer
    BY <2>1, <2>2 DEF Emittable
  <2>3. CASE events # buffer
    <3>1. events = buffer \union {emitted + 1} /\ emitted' = emitted + 1
      BY <2>3
    <3>2. emitted + 1 \in 1 .. emitted + 1 /\ emitted + 1 <= MaxEvents /\ emitted + 1 .. emitted + 1 = {emitted + 1}
      BY <2>1, <3>1
    <3>3. buffer \subseteq 1 .. emitted + 1
      BY <2>1
    <3>4. events \subseteq 1 .. emitted'
      BY <3>1, <3>2, <3>3
    <3>5. 1 .. emitted' \subseteq Emittable
      BY <2>1, <3>1, <3>2 DEF Emittable
    <3>6. QED BY <2>1, <3>1, <3>2, <3>4, <3>5
  <2>4. QED BY <2>2, <2>3
<1>1. CASE flush(events) /\ flight.at = "idle" /\ events # {}
  <2> DEFINE B == Oldest(events)
  <2>1. /\ flight' = [batch |-> B, at |-> "post", tries |-> 0]
        /\ requests' = requests \union {Request(B, 0)} /\ buffer' = events \ B
    BY <1>1 DEF flush
  <2>2. B \subseteq events
    BY OldestShape
  <2> HIDE DEF B
  <2>3. flight.batch = {}
    BY <1>1 DEF IngestInv, Types
  <2>4. Types'
    <3>1. Request(B, 0) \in Asked /\ Request(B, 0).left = {}
      BY <1>0, <2>2, RequestType
    <3>2. requests' \subseteq Asked
      BY <2>1, <3>1 DEF IngestInv, Types
    <3>3. \A r \in requests' : r.left \subseteq r.batch /\ (r.left # {} => r.at = "record")
      BY <2>1, <3>1 DEF IngestInv, Types
    <3>4. /\ flight' \in Flights
          /\ flight'.at # "idle"
      BY <1>0, <2>1, <2>2
    <3>5. buffer' \subseteq 1 .. emitted'
      BY <1>0, <2>1
    <3>6. QED BY <1>0, <3>2, <3>3, <3>4, <3>5 DEF IngestInv, Types
  <2>5. B \in SUBSET Emittable /\ B \subseteq 1 .. emitted' /\ B \intersect buffer' = {}
    BY <1>0, <2>1, <2>2
  <2>6. \A C \in Sent : B \intersect C = {} /\ C \intersect buffer' = {}
    BY <1>0, <2>1, <2>2
  <2>7. flight'.batch = B
    BY <2>1
  <2>8. \A e \in buffer \union (emitted + 1 .. emitted') : e \in buffer' \/ e \in flight'.batch
    BY <1>0, <2>1, <2>7
  <2>9. QED BY <1>0, <2>1, <2>3, <2>4, <2>5, <2>6, <2>7, <2>8, PageKeeps
<1>2. CASE buffer' = events /\ UNCHANGED <<flight, requests>>
  <2>1. Types'
    BY <1>0, <1>2 DEF IngestInv, Types
  <2>2. {} \in SUBSET Emittable /\ {} \subseteq 1 .. emitted' /\ {} \intersect buffer' = {}
        /\ \A C \in Sent : {} \intersect C = {} /\ C \intersect buffer' = {}
    BY <1>0, <1>2
  <2>3. QED BY <1>0, <1>2, <2>1, <2>2, PageKeeps
<1>3. QED BY <1>1, <1>2 DEF flush

\* The batch in flight is put off, or given up with a reason.
LEMMA RetryShape ==
  ASSUME IngestInv, flight.at = "post", ScheduleRetry
  PROVE  /\ flight' \in Flights
         /\ flight'.at = "idle" => flight'.batch = {}
         /\ stopped \subseteq stopped'
         /\ \/ flight'.batch = flight.batch
            \/ flight'.batch = {} /\ flight.batch \subseteq stopped'
<1> USE IngestAssumption
<1>1. CASE flight.tries + 1 < RETRY_MAX
  <2>1. flight' = [flight EXCEPT !.at = "wait", !.tries = @ + 1] /\ stopped' = stopped
    BY <1>1 DEF ScheduleRetry
  <2>2. flight \in Flights
    BY DEF IngestInv, Types
  <2>3. flight.tries + 1 \in 0 .. RETRY_MAX - 1
    BY <1>1, <2>2
  <2>4. /\ flight' \in Flights
        /\ flight'.batch = flight.batch /\ flight'.at = "wait"
    BY <2>1, <2>2, <2>3
  <2>5. QED BY <2>1, <2>4
<1>2. CASE ~(flight.tries + 1 < RETRY_MAX)
  <2>1. flight' = Idle /\ stopped' = stopped \union flight.batch
    BY <1>2 DEF ScheduleRetry, Because
  <2>2. Idle \in Flights
        /\ Idle.batch = {}
    BY DEF Idle
  <2>3. QED BY <2>1, <2>2
<1>3. QED BY <1>1, <1>2

LEMMA PageStepKeeps ==
  ASSUME IngestInv, emit \/ Interval \/ RetryTimer \/ NetworkError \/ Hidden \/ Leave
  PROVE  IngestInv'
<1> USE IngestAssumption
<1>1. CASE emit
  <2>1. emitted \in Nat /\ buffer \subseteq 1 .. emitted
    BY DEF IngestInv, Types
  <2>2. emitted + 1 \notin buffer
    BY <2>1
  <2>3. buffer \union {emitted + 1} # buffer
    BY <2>2
  <2>4. emitted' = emitted + 1 /\ emitted' <= MaxEvents
    BY <1>1, <2>1 DEF emit
  <2>5. QED BY <1>1, <2>3, <2>4, FlushBufferKeeps DEF emit
<1>2. CASE Interval
  <2>1. emitted' = emitted /\ emitted' <= MaxEvents
    BY <1>2 DEF Interval, IngestInv, Types
  <2>2. QED BY <1>2, <2>1, FlushBufferKeeps DEF Interval
<1>3. CASE RetryTimer
  <2>1. /\ flight' = [flight EXCEPT !.at = "post"]
        /\ requests' = requests \union {Request(flight.batch, flight.tries)}
        /\ UNCHANGED <<emitted, buffer, nonces, counted, doubtful, stopped>>
    BY <1>3 DEF RetryTimer
  <2>2. /\ flight.batch \in SUBSET Emittable /\ flight.tries \in 0 .. RETRY_MAX
        /\ flight'.batch = flight.batch /\ flight'.at = "post"
        /\ flight' \in Flights
    BY <2>1 DEF IngestInv, Types
  <2>3. PICK B \in SUBSET Emittable, t \in 0 .. RETRY_MAX : B = flight.batch /\ t = flight.tries
    BY <2>2
  <2>4. Types'
    <3>1. Request(B, t) \in Asked /\ Request(B, t).left = {}
      BY RequestType
    <3>2. requests' \subseteq Asked
      BY <2>1, <2>3, <3>1 DEF IngestInv, Types
    <3>3. \A r \in requests' : r.left \subseteq r.batch /\ (r.left # {} => r.at = "record")
      BY <2>1, <2>3, <3>1 DEF IngestInv, Types
    <3>4. QED BY <2>1, <2>2, <3>2, <3>3 DEF IngestInv, Types
  <2>5. requests' = requests \union {Request(B, t)} /\ B = flight'.batch
    BY <2>1, <2>2, <2>3
  <2>6. B \subseteq 1 .. emitted' /\ B \intersect buffer' = {} /\ \A C \in Sent : C \intersect buffer' = {}
    BY <2>1, <2>3, BufferApart
  <2>7. emitted \in Nat /\ emitted <= emitted' /\ emitted + 1 .. emitted' = {}
    BY <2>1 DEF IngestInv, Types
  <2>8. QED BY <2>1, <2>2, <2>3, <2>4, <2>5, <2>6, <2>7, PageKeeps
<1>4. CASE NetworkError
  <2>1. UNCHANGED <<emitted, buffer, requests, nonces, counted, doubtful>>
    BY <1>4 DEF NetworkError
  <2>2. /\ flight' \in Flights
        /\ flight'.at = "idle" => flight'.batch = {}
        /\ stopped \subseteq stopped'
        /\ flight'.batch = flight.batch \/ (flight'.batch = {} /\ flight.batch \subseteq stopped')
    BY <1>4, RetryShape DEF NetworkError
  <2>3. Types'
    BY <2>1, <2>2 DEF IngestInv, Types
  <2>4. emitted \in Nat /\ emitted <= emitted' /\ emitted + 1 .. emitted' = {}
    BY <2>1 DEF IngestInv, Types
  <2>5. {} \in SUBSET Emittable /\ {} \subseteq 1 .. emitted' /\ {} \intersect buffer' = {}
        /\ \A C \in Sent : {} \intersect C = {} /\ C \intersect buffer' = {}
    BY <2>1, BufferApart
  <2>6. QED BY <2>1, <2>2, <2>3, <2>4, <2>5, PageKeeps
<1>5. CASE Hidden \/ Leave
  <2>1. PICK B : /\ B \subseteq buffer
                 /\ \/ requests' = requests \/ requests' = requests \union {Request(B, Beacon)}
                 /\ buffer' \subseteq buffer /\ B \intersect buffer' = {}
                 /\ stopped \subseteq stopped'
                 /\ \A e \in buffer : e \in buffer' \/ e \in stopped'
                                      \/ (e \in B /\ Request(B, Beacon) \in requests')
                 /\ UNCHANGED <<emitted, nonces, counted, doubtful>>
                 /\ flight' = flight \/ (flight' = Idle /\ flight.batch \subseteq stopped')
    <3>1. CASE Hidden
      <4>1. CASE flight.at = "idle" /\ buffer # {}
        BY <3>1, <4>1, OldestShape DEF Hidden, flushBeacon
      <4>2. CASE ~(flight.at = "idle" /\ buffer # {})
        <5>1. UNCHANGED <<requests, buffer, emitted, flight, nonces, counted, doubtful, stopped>>
          BY <3>1, <4>2 DEF Hidden, flushBeacon
        <5>2. {} \subseteq buffer /\ {} \intersect buffer' = {}
          OBVIOUS
        <5>3. QED BY <5>1, <5>2
      <4>3. QED BY <4>1, <4>2
    <3>2. CASE Leave
      <4>1. PICK kept \in SUBSET buffer :
               /\ requests' = IF kept = {} THEN requests ELSE requests \union {Request(kept, Beacon)}
               /\ stopped' = stopped \union ((buffer \ kept) \union flight.batch)
        BY <3>2 DEF Leave, Because
      <4>2. buffer' = {} /\ flight' = Idle /\ UNCHANGED <<emitted, nonces, counted, doubtful>>
        BY <3>2 DEF Leave
      <4>3. QED BY <4>1, <4>2
    <3>3. QED BY <1>5, <3>1, <3>2
  <2>2. B \in SUBSET Emittable /\ Beacon \in 0 .. RETRY_MAX
    BY <2>1 DEF IngestInv, Types, Emittable, Beacon
  <2>3. /\ flight' \in Flights
        /\ flight'.at = "idle" => flight'.batch = {}
        /\ flight'.batch = flight.batch \/ (flight'.batch = {} /\ flight.batch \subseteq stopped')
    BY <2>1 DEF IngestInv, Types, Idle
  <2>4. Types'
    <3>1. Request(B, Beacon) \in Asked /\ Request(B, Beacon).left = {}
      BY <2>2, RequestType
    <3>2. requests' \subseteq Asked
      BY <2>1, <3>1 DEF IngestInv, Types
    <3>3. \A r \in requests' : r.left \subseteq r.batch /\ (r.left # {} => r.at = "record")
      BY <2>1, <3>1 DEF IngestInv, Types
    <3>4. QED BY <2>1, <2>3, <3>2, <3>3 DEF IngestInv, Types
  <2>5. B \subseteq 1 .. emitted' /\ \A C \in Sent : B \intersect C = {} /\ C \intersect buffer' = {}
    BY <2>1, BufferApart DEF IngestInv, Types
  <2>6. emitted \in Nat /\ emitted <= emitted' /\ emitted + 1 .. emitted' = {}
    BY <2>1 DEF IngestInv, Types
  <2>7. QED BY <2>1, <2>2, <2>3, <2>4, <2>5, <2>6, PageKeeps
<1>6. QED BY <1>1, <1>2, <1>3, <1>4, <1>5

-----------------------------------------------------------------------------
(* Steps of the server.                                                    *)

\* One request r is served further, or ends; what it carried is settled, or
\* still in flight.
LEMMA ServerKeeps ==
  ASSUME IngestInv, Types', RecordedByOne', CountedOnce', NEW r \in requests,
         UNCHANGED <<emitted, buffer>>, stopped \subseteq stopped',
         \A e \in Emittable : counted[e] > 0 => counted'[e] > 0,
         requests \ {r} \subseteq requests',
         \A q \in requests' : q \in requests \/ (q.batch = r.batch /\ q.at # "way"),
         Reserved \subseteq Reserved', Reserved' \subseteq Reserved \union {r.batch},
         requests' \subseteq requests \/ r.batch \in Reserved',
         r.batch \in Reserved' => \A e \in r.batch : Settled(e) \/ Settled(e)',
         \A e \in r.left : Settled(e)',
         r.at = "refuse" => \A e \in r.batch : Settled(e)',
         flight'.batch = flight.batch
            \/ (flight'.batch = {} /\ \A e \in flight.batch : Settled(e) \/ Settled(e)'),
         r.at = "way" => \A e \in r.batch : e \in flight.batch \/ Settled(e) \/ Settled(e)'
  PROVE  IngestInv'
<1>1. ASSUME NEW e \in Emittable, Settled(e) PROVE Settled(e)'
  <2>1. CASE counted[e] > 0 \/ e \in stopped
    BY <2>1 DEF Settled
  <2>2. CASE \E q \in requests : e \in q.left \/ (q.at = "refuse" /\ e \in q.batch)
    <3>1. PICK q \in requests : e \in q.left \/ (q.at = "refuse" /\ e \in q.batch)
      BY <2>2
    <3>2. CASE q = r
      BY <3>1, <3>2
    <3>3. CASE q # r
      BY <3>1, <3>3 DEF Settled
    <3>4. QED BY <3>2, <3>3
  <2>3. QED BY <1>1, <2>1, <2>2 DEF Settled
<1>2. \A C \in Sent : C \in SUBSET Emittable
  BY DEF IngestInv, Types, Sent, Reserved, Asked
<1>3. r.batch \in Sent /\ flight.batch \in Sent
  BY DEF Sent
<1>4. Apart'
  <2>1. \A C \in Sent' : C \in Sent \/ C = {}
    BY <1>3 DEF Sent
  <2>2. QED BY <2>1 DEF IngestInv, Apart
<1>5. ReservedSettled'
  <2>1. ASSUME NEW C \in Reserved', NEW e \in C PROVE Settled(e)'
    <3>1. CASE C \in Reserved
      <4>1. Settled(e) /\ C \in Sent
        BY <2>1, <3>1 DEF IngestInv, ReservedSettled, Sent
      <4>2. QED BY <1>1, <1>2, <2>1, <4>1
    <3>2. CASE C = r.batch
      BY <1>1, <1>2, <1>3, <2>1, <3>2
    <3>3. QED BY <2>1, <3>1, <3>2
  <2>2. \A q \in requests' : q.at # "way" => q.batch \in Reserved'
    BY DEF IngestInv, ReservedSettled
  <2>3. QED BY <2>1, <2>2 DEF ReservedSettled
<1>6. ASSUME NEW e \in flight.batch PROVE e \in flight'.batch \/ Settled(e)'
  BY <1>1, <1>2, <1>3, <1>6
<1>7. HeldBack'
  <2> SUFFICES ASSUME NEW q \in requests', q.at = "way", q.try # Beacon, NEW e \in q.batch
               PROVE  e \in flight'.batch \/ Settled(e)'
    BY DEF HeldBack, Beacon
  <2>1. q \in requests /\ q.batch \in Sent
    BY DEF Sent
  <2>2. e \in flight.batch \/ Settled(e)
    BY <2>1 DEF IngestInv, HeldBack
  <2>3. QED BY <1>1, <1>2, <1>6, <2>1, <2>2
<1>8. NothingVanishes'
  <2>1. ASSUME NEW e \in 1 .. emitted'
        PROVE  \/ e \in buffer' \/ e \in flight'.batch \/ Settled(e)'
               \/ \E q \in requests' : q.at = "way" /\ e \in q.batch
    <3>1. \/ e \in buffer \/ e \in flight.batch \/ Settled(e)
          \/ \E q \in requests : q.at = "way" /\ e \in q.batch
      BY Whereabouts DEF IngestInv
    <3>2. e \in Emittable
      BY IngestAssumption DEF IngestInv, Types, Emittable
    <3>3. CASE \E q \in requests : q.at = "way" /\ e \in q.batch
      <4>1. PICK q \in requests : q.at = "way" /\ e \in q.batch
        BY <3>3
      <4>2. CASE q = r
        BY <1>1, <1>6, <3>2, <4>1, <4>2
      <4>3. CASE q # r
        BY <4>1, <4>3
      <4>4. QED BY <4>2, <4>3
    <3>4. QED BY <1>1, <1>6, <3>1, <3>2, <3>3
  <2>2. QED BY <2>1 DEF Settled, NothingVanishes
<1>9. QED BY <1>4, <1>5, <1>7, <1>8 DEF IngestInv

\* A request that only ends leaves the others to record.
LEMMA EndsRecorded ==
  ASSUME IngestInv, NEW r \in requests, requests' = requests \ {r}, UNCHANGED <<nonces, counted, doubtful>>
  PROVE  RecordedByOne' /\ CountedOnce'
BY DEF IngestInv, RecordedByOne, CountedOnce, Reserved

\* What has left the way is reserved, and settled.
LEMMA OffTheWay ==
  ASSUME IngestInv, NEW r \in requests, r.at # "way"
  PROVE  r.batch \in Reserved /\ \A e \in r.batch : Settled(e)
BY DEF IngestInv, ReservedSettled

LEMMA MovedShape ==
  ASSUME IngestInv, NEW r \in requests, NEW at \in {"record", "refuse", "done"},
         NEW left, left \subseteq r.batch, left # {} => at = "record"
  PROVE  \E q \in Asked :
         /\ Moved(r, at, left) = (requests \ {r}) \union {q}
         /\ q.batch = r.batch /\ q.at = at /\ q.left = left
         /\ Moved(r, at, left) \subseteq Asked
         /\ \A p \in Moved(r, at, left) : p.left \subseteq p.batch /\ (p.left # {} => p.at = "record")
<1> DEFINE q == [r EXCEPT !.at = at, !.left = left]
<1>1. r \in Asked /\ left \in SUBSET Emittable
  BY DEF IngestInv, Types, Asked
<1>2. q \in Asked /\ q.batch = r.batch /\ q.at = at /\ q.left = left
  BY <1>1 DEF Asked
<1>3. Moved(r, at, left) = (requests \ {r}) \union {q}
  BY DEF Moved
<1> HIDE DEF q
<1>4. /\ Moved(r, at, left) \subseteq Asked
      /\ \A p \in Moved(r, at, left) : p.left \subseteq p.batch /\ (p.left # {} => p.at = "record")
  BY <1>2, <1>3 DEF IngestInv, Types
<1>5. QED BY <1>2, <1>3, <1>4

LEMMA ReserveKeeps ==
  ASSUME IngestInv, NEW r \in requests, reserve_batch(r)
  PROVE  IngestInv'
<1>0. r.at = "way" /\ UNCHANGED <<emitted, buffer, flight, counted, stopped>> /\ r \in Asked
  BY DEF reserve_batch, IngestInv, Types
<1>1. PICK at \in {"record", "refuse", "done"}, left \in SUBSET r.batch :
         /\ requests' = Moved(r, at, left)
         /\ at = "done" => r.batch \in nonces
         /\ at # "done" => r.batch \in nonces' \union doubtful' /\ (r.batch \notin nonces \/ r.batch \in doubtful')
         /\ at = "record" => left = r.batch
         /\ at # "record" => left = {}
         /\ nonces \subseteq nonces' /\ nonces' \subseteq nonces \union {r.batch}
         /\ doubtful \subseteq doubtful' /\ doubtful' \subseteq doubtful \union {r.batch}
  <2>1. CASE r.batch \intersect Bad = {} /\ requests' = Checked(r)
    <3>1. requests' = Moved(r, "record", r.batch)
      BY <2>1 DEF Checked
    <3>2. QED BY <2>1, <3>1 DEF reserve_batch
  <2>2. CASE r.batch \intersect Bad # {} /\ requests' = Checked(r)
    <3>1. requests' = Moved(r, "refuse", {})
      BY <2>2 DEF Checked
    <3>2. QED BY <2>2, <3>1 DEF reserve_batch
  <2>3. CASE r.batch \in nonces /\ requests' = Moved(r, "done", {}) /\ UNCHANGED <<nonces, doubtful>>
    BY <2>3
  <2>4. QED BY <2>1, <2>2, <2>3 DEF reserve_batch
<1>2. PICK q \in Asked :
         /\ requests' = (requests \ {r}) \union {q}
         /\ q.batch = r.batch /\ q.at = at /\ q.left = left
         /\ requests' \subseteq Asked
         /\ \A p \in requests' : p.left \subseteq p.batch /\ (p.left # {} => p.at = "record")
  <2>1. left \subseteq r.batch /\ (left # {} => at = "record")
    BY <1>1
  <2>2. PICK q \in Asked :
        /\ Moved(r, at, left) = (requests \ {r}) \union {q}
        /\ q.batch = r.batch /\ q.at = at /\ q.left = left
        /\ Moved(r, at, left) \subseteq Asked
        /\ \A p \in Moved(r, at, left) : p.left \subseteq p.batch /\ (p.left # {} => p.at = "record")
    BY <2>1, MovedShape
  <2>3. QED BY <1>1, <2>2
<1>3. r.batch \in SUBSET Emittable /\ r.batch \in Reserved'
  BY <1>0, <1>1 DEF Reserved, Asked
<1>4. Reserved \subseteq Reserved' /\ Reserved' \subseteq Reserved \union {r.batch}
  BY <1>1 DEF Reserved
<1>5. Types'
  BY <1>0, <1>1, <1>2, <1>3 DEF IngestInv, Types
<1>6. ASSUME r.batch \notin doubtful', at = "record"
      PROVE  /\ \A p \in requests : p.batch = r.batch => p.at = "way"
             /\ \A e \in r.batch : counted[e] = 0
  <2>1. r.batch \notin Reserved
    BY <1>1, <1>6 DEF Reserved
  <2>2. \A p \in requests : p.batch = r.batch => p.at = "way"
    BY <2>1 DEF IngestInv, ReservedSettled
  <2>3. ASSUME NEW e \in r.batch, counted[e] > 0 PROVE FALSE
    <3>1. PICK B \in Reserved : e \in B
      BY <1>3, <2>3 DEF IngestInv, RecordedByOne
    <3>2. B \in Sent /\ r.batch \in Sent
      BY DEF Sent
    <3>3. B = r.batch
      BY <2>3, <3>1, <3>2 DEF IngestInv, Apart
    <3>4. QED BY <2>1, <3>1, <3>3
  <2>4. \A e \in r.batch : counted[e] \in 0 .. 2
    BY <1>3 DEF IngestInv, Types
  <2>5. QED BY <2>2, <2>3, <2>4
<1>7. RecordedByOne'
  <2>1. \A e \in Emittable : counted'[e] > 0 => \E C \in Reserved' : e \in C
    BY <1>0, <1>4 DEF IngestInv, RecordedByOne
  <2>2. ASSUME NEW p \in requests', NEW e \in p.left, p.batch \notin doubtful'
        PROVE  /\ counted'[e] = 0
               /\ \A o \in requests' : o.batch = p.batch /\ o # p => o.left = {}
    <3>1. CASE p = q
      <4>1. at = "record" /\ r.batch \notin doubtful' /\ e \in r.batch
        BY <1>1, <1>2, <2>2, <3>1
      <4>2. \A o \in requests : o.batch = r.batch => o.left = {}
        BY <1>6, <4>1 DEF IngestInv, Types
      <4>3. QED BY <1>0, <1>2, <1>6, <3>1, <4>1, <4>2
    <3>2. CASE p # q
      <4>1. p \in requests /\ p # r
        BY <1>2, <3>2
      <4>2. p.at = "record" /\ p.batch \notin doubtful
        BY <1>1, <2>2, <4>1 DEF IngestInv, Types
      <4>3. p.batch = r.batch => left = {}
        <5>1. CASE p.batch = r.batch /\ at = "record"
          BY <1>6, <2>2, <4>1, <4>2, <5>1
        <5>2. QED BY <1>1, <5>1
      <4>4. QED BY <1>0, <1>2, <2>2, <4>1, <4>2, <4>3 DEF IngestInv, RecordedByOne
    <3>3. QED BY <3>1, <3>2
  <2>3. QED BY <2>1, <2>2 DEF RecordedByOne
<1>8. CountedOnce'
  BY <1>0, <1>1 DEF IngestInv, CountedOnce
<1>9. \A e \in r.batch : Settled(e) \/ Settled(e)'
  <2>1. CASE at = "done"
    BY <1>1, <2>1 DEF IngestInv, ReservedSettled, Reserved
  <2>2. CASE at # "done"
    BY <1>1, <1>2, <2>2 DEF Settled
  <2>3. QED BY <2>1, <2>2
<1>10. r.left = {}
  BY <1>0 DEF IngestInv, Types
<1>11. QED BY <1>0, <1>2, <1>3, <1>4, <1>5, <1>7, <1>8, <1>9, <1>10, ServerKeeps

LEMMA RecordKeeps ==
  ASSUME IngestInv, NEW r \in requests, NEW e \in r.left, RecordEvent(r, e)
  PROVE  IngestInv'
<1>0. /\ r.at = "record" /\ r \in Asked /\ e \in r.batch /\ e \in Emittable
      /\ UNCHANGED <<emitted, buffer, flight, nonces, doubtful>>
      /\ requests' = Moved(r, "record", r.left \ {e})
  BY DEF RecordEvent, IngestInv, Types, Asked
<1>1. /\ stopped \subseteq stopped'
      /\ \/ counted' = counted /\ e \in stopped'
         \/ counted' = [counted EXCEPT ![e] = IF @ = 2 THEN 2 ELSE @ + 1]
  BY DEF RecordEvent, Because
<1>2. PICK q \in Asked :
         /\ requests' = (requests \ {r}) \union {q}
         /\ q.batch = r.batch /\ q.at = "record" /\ q.left = r.left \ {e}
         /\ requests' \subseteq Asked
         /\ \A p \in requests' : p.left \subseteq p.batch /\ (p.left # {} => p.at = "record")
  <2>1. r.left \ {e} \subseteq r.batch
    BY DEF IngestInv, Types
  <2> DEFINE left == r.left \ {e}
  <2>2. PICK q \in Asked :
        /\ Moved(r, "record", left) = (requests \ {r}) \union {q}
        /\ q.batch = r.batch /\ q.at = "record" /\ q.left = left
        /\ Moved(r, "record", left) \subseteq Asked
        /\ \A p \in Moved(r, "record", left) : p.left \subseteq p.batch /\ (p.left # {} => p.at = "record")
    BY <2>1, MovedShape
  <2>3. QED BY <1>0, <2>2
<1>3. /\ counted' \in [Emittable -> 0 .. 2]
      /\ \A x \in Emittable \ {e} : counted'[x] = counted[x]
      /\ \A x \in Emittable : counted[x] > 0 => counted'[x] > 0
      /\ counted[e] = 0 => counted'[e] <= 1
      /\ counted'[e] > 0 \/ e \in stopped'
  BY <1>0, <1>1 DEF IngestInv, Types
<1>4. Types'
  BY <1>0, <1>2, <1>3 DEF IngestInv, Types
<1>5. r.batch \in Reserved /\ Reserved' = Reserved /\ \A x \in r.batch : Settled(x)
  BY <1>0, OffTheWay DEF Reserved
<1>6. \A p, o \in requests : e \in p.left /\ e \in o.left => p.batch = o.batch
  <2>1. \A p \in requests : p.left \subseteq p.batch /\ p.batch \in Sent
    BY DEF IngestInv, Types, Sent
  <2>2. QED BY <2>1 DEF IngestInv, Apart
<1>7. RecordedByOne'
  <2>1. \A x \in Emittable : counted'[x] > 0 => \E C \in Reserved' : x \in C
    BY <1>0, <1>3, <1>5 DEF IngestInv, RecordedByOne
  <2>2. ASSUME NEW p \in requests', NEW x \in p.left, p.batch \notin doubtful'
        PROVE  /\ counted'[x] = 0
               /\ \A o \in requests' : o.batch = p.batch /\ o # p => o.left = {}
    <3>0. x \in Emittable /\ p.batch \notin doubtful
      BY <1>0, <1>2, <2>2 DEF Asked
    <3>1. CASE p = q
      <4>1. x \in r.left /\ x # e /\ r.batch \notin doubtful
        BY <1>2, <2>2, <3>0, <3>1
      <4>2. counted[x] = 0 /\ \A o \in requests : o.batch = r.batch /\ o # r => o.left = {}
        BY <4>1 DEF IngestInv, RecordedByOne
      <4>3. QED BY <1>2, <1>3, <3>0, <3>1, <4>1, <4>2
    <3>2. CASE p # q
      <4>1. p \in requests /\ p # r
        BY <1>2, <3>2
      <4>2. counted[x] = 0 /\ \A o \in requests : o.batch = p.batch /\ o # p => o.left = {}
        BY <2>2, <3>0, <4>1 DEF IngestInv, RecordedByOne
      <4>3. p.batch # r.batch
        BY <4>1, <4>2
      <4>4. x # e
        BY <1>6, <2>2, <4>1, <4>3
      <4>5. QED BY <1>2, <1>3, <3>0, <4>2, <4>3, <4>4
    <3>3. QED BY <3>1, <3>2
  <2>3. QED BY <2>1, <2>2 DEF RecordedByOne
<1>8. CountedOnce'
  <2>1. ASSUME NEW x \in Emittable, counted'[x] > 1 PROVE \E B \in doubtful' : x \in B
    <3>1. CASE counted[x] > 1
      BY <1>0, <3>1 DEF IngestInv, CountedOnce
    <3>2. CASE ~(counted[x] > 1)
      <4>1. x = e /\ counted[e] # 0
        BY <1>3, <2>1, <3>2
      <4>2. r.batch \in doubtful
        BY <4>1 DEF IngestInv, RecordedByOne
      <4>3. QED BY <1>0, <4>1, <4>2
    <3>3. QED BY <3>1, <3>2
  <2>2. QED BY <2>1 DEF CountedOnce
<1>9. \A x \in r.left : Settled(x)'
  <2>1. Settled(e)'
    BY <1>3 DEF Settled
  <2>2. \A x \in r.left \ {e} : Settled(x)'
    BY <1>2 DEF Settled
  <2>3. QED BY <2>1, <2>2
<1>10. QED BY <1>0, <1>1, <1>2, <1>3, <1>4, <1>5, <1>7, <1>8, <1>9, ServerKeeps

LEMMA EndKeeps ==
  ASSUME IngestInv, NEW r \in requests,
         WorkerDies(r) \/ AnswerRecorded(r) \/ AnswerRefused(r) \/ TurnedAway(r)
  PROVE  IngestInv'
<1>0. /\ requests' = requests \ {r}
      /\ UNCHANGED <<emitted, buffer, nonces, counted, doubtful>>
      /\ r.batch \in SUBSET Emittable /\ r.left \subseteq r.batch
  BY DEF WorkerDies, AnswerRecorded, AnswerRefused, TurnedAway, IngestInv, Types, Asked
<1>1. RecordedByOne' /\ CountedOnce'
  BY <1>0, EndsRecorded
<1>2. Reserved' = Reserved
  BY <1>0 DEF Reserved
<1>3. /\ flight' \in Flights
      /\ flight'.at = "idle" => flight'.batch = {}
      /\ stopped \subseteq stopped'
      /\ \/ flight'.batch = flight.batch
         \/ flight'.batch = {} /\ flight.batch \subseteq stopped'
         \/ flight'.batch = {} /\ flight.batch = r.batch /\ r.at # "way"
  <2>1. CASE UNCHANGED flight
    <3>1. stopped \subseteq stopped'
      BY <2>1, RetryShape DEF WorkerDies, AnswerRecorded, AnswerRefused, TurnedAway, Because, Awaited
    <3>2. QED BY <2>1, <3>1 DEF IngestInv, Types
  <2>2. CASE (AnswerRecorded(r) \/ AnswerRefused(r)) /\ Awaited(r) /\ flight' = Idle
    <3>1. stopped \subseteq stopped' /\ r.at # "way" /\ flight.batch = r.batch
      BY <2>2 DEF AnswerRecorded, AnswerRefused, Because, Awaited
    <3>2. /\ Idle \in Flights
          /\ Idle.batch = {}
      BY IngestAssumption DEF Idle
    <3>3. QED BY <2>2, <3>1, <3>2
  <2>3. CASE Awaited(r) /\ ScheduleRetry
    BY <2>3, RetryShape DEF Awaited
  <2>4. QED BY <2>1, <2>2, <2>3 DEF WorkerDies, AnswerRecorded, AnswerRefused, TurnedAway
<1>4. Types'
  BY <1>0, <1>3 DEF IngestInv, Types
<1>5. ASSUME NEW e \in r.left PROVE Settled(e)'
  <2>1. r.at = "record" /\ r.left # {}
    BY <1>5 DEF IngestInv, Types
  <2>2. WorkerDies(r)
    BY <2>1 DEF AnswerRecorded, AnswerRefused, TurnedAway
  <2>3. e \in stopped'
    BY <1>5, <2>1, <2>2 DEF WorkerDies, Because
  <2>4. QED BY <2>3 DEF Settled
<1>6. ASSUME r.at = "refuse", NEW e \in r.batch PROVE Settled(e)'
  <2>1. e \in stopped'
    BY <1>6 DEF WorkerDies, AnswerRecorded, AnswerRefused, TurnedAway, Because
  <2>2. QED BY <2>1 DEF Settled
<1>7. ASSUME r.at = "way", NEW e \in r.batch PROVE e \in flight.batch \/ Settled(e) \/ Settled(e)'
  <2>1. CASE r.try = Beacon
    <3>1. r.left = {}
      BY <1>7 DEF IngestInv, Types
    <3>2. TurnedAway(r)
      BY <1>7, <3>1 DEF WorkerDies, AnswerRecorded, AnswerRefused
    <3>3. e \in stopped'
      BY <1>7, <2>1, <3>2 DEF TurnedAway, Because
    <3>4. QED BY <3>3 DEF Settled
  <2>2. CASE r.try # Beacon
    BY <1>7, <2>2 DEF IngestInv, HeldBack
  <2>3. QED BY <2>1, <2>2
<1>8. r.batch \in Reserved => \A e \in r.batch : Settled(e)
  BY DEF IngestInv, ReservedSettled
<1>9. flight'.batch = flight.batch
        \/ (flight'.batch = {} /\ \A e \in flight.batch : Settled(e) \/ Settled(e)')
  BY <1>3, OffTheWay DEF Settled
<1>10. QED BY <1>0, <1>1, <1>2, <1>3, <1>4, <1>5, <1>6, <1>7, <1>8, <1>9, ServerKeeps

LEMMA ExpiryKeeps ==
  ASSUME IngestInv, NEW batch \in nonces, NonceExpires(batch)
  PROVE  IngestInv'
<1>1. /\ nonces' = nonces \ {batch} /\ doubtful' = doubtful \union {batch}
      /\ UNCHANGED <<emitted, buffer, flight, requests, counted, stopped>>
  BY DEF NonceExpires
<1>2. Reserved' = Reserved
  BY <1>1 DEF Reserved
<1>3. Types'
  BY <1>1 DEF IngestInv, Types
<1>4. Apart' /\ ReservedSettled' /\ HeldBack'
  BY <1>1, <1>2 DEF IngestInv, Apart, Sent, ReservedSettled, HeldBack, Settled, Beacon
<1>5. RecordedByOne' /\ CountedOnce'
  BY <1>1, <1>2 DEF IngestInv, RecordedByOne, CountedOnce
<1>6. NothingVanishes'
  BY <1>1 DEF IngestInv, NothingVanishes
<1>7. QED BY <1>3, <1>4, <1>5, <1>6 DEF IngestInv

-----------------------------------------------------------------------------
(* The theorems.                                                           *)
LEMMA NextIngestInv == IngestInv /\ [IngestNext]_ingestVars => IngestInv'
<1> SUFFICES ASSUME IngestInv, [IngestNext]_ingestVars PROVE IngestInv'
  OBVIOUS
<1>1. CASE UNCHANGED ingestVars
  BY <1>1 DEF ingestVars, IngestInv, Types, Apart, Sent, Reserved, ReservedSettled, HeldBack, Settled,
     Beacon, RecordedByOne, NothingVanishes, CountedOnce
<1>2. QED BY <1>1, PageStepKeeps, ReserveKeeps, RecordKeeps, EndKeeps, ExpiryKeeps DEF IngestNext

THEOREM IngestInvariance == IngestSpec => []IngestInv
BY InitIngestInv, NextIngestInv, PTL DEF IngestSpec

\* CountedOnce is an invariant: however often a batch is sent, answered or
\* not, its events are counted once, unless its id expired or was never kept
\* (writer.py:149, metrics-client.ts).
THEOREM EventsCountedOnce == IngestSpec => []CountedOnce
<1>1. IngestInv => CountedOnce
  BY DEF IngestInv
<1>2. QED BY <1>1, IngestInvariance, PTL

\* NothingVanishes is an invariant: an event is in the buffer, in flight, on
\* its way or counted, or something has stopped it (metrics-client.ts:251).
THEOREM NoEventVanishes == IngestSpec => []NothingVanishes
<1>1. IngestInv => NothingVanishes
  BY DEF IngestInv
<1>2. QED BY <1>1, IngestInvariance, PTL

HIDE DEF Flights

-----------------------------------------------------------------------------
(***************************************************************************)
(* The latencies: LatencyHistory                                           *)
(***************************************************************************)

\* What has been pruned is older than what a question is answered from exactly.
PrunedIsOld == \A x \in stored : x \in raw \/ x.at < hour - RETENTION * HOURS

\* The first hour after the day of a sample
DayEnd(x) == (Day(x.at) + 1) * HOURS

Forgotten(x) == Day(x.at) < Day(hour - ROLLUPS * HOURS)

\* A sample that is in no row was not there yet, or its day not over, when a
\* rollup was last committed.
UnrolledIsYoung ==
    ~neglected =>
        /\ waiting <= hour
        /\ \A x \in stored : \/ x \in rolled \/ Forgotten(x)
                             \/ x \in raw /\ hour - waiting < DayEnd(x) + LATE

LatencyInv == LatencyTypeOK /\ PrunedIsOld /\ UnrolledIsYoung

LEMMA Division ==
  ASSUME NEW a \in Int, NEW d \in Nat \ {0}
  PROVE  /\ a \div d \in Int
         /\ (a \div d) * d \in Int
         /\ (a \div d) * d <= a /\ a < (a \div d) * d + d
OBVIOUS

LEMMA Scaling ==
  ASSUME NEW p \in Int, NEW q \in Int, NEW d \in Nat \ {0}
  PROVE  /\ p * d \in Int /\ q * d \in Int
         /\ p <= q => p * d <= q * d
         /\ p * d < q * d => p < q
OBVIOUS

LEMMA Multiple ==
  ASSUME NEW p \in Int, NEW d \in Nat \ {0}
  PROVE  (p * d) % d = 0 /\ (p * d) \div d = p
OBVIOUS

LEMMA Distribute ==
  ASSUME NEW p \in Int, NEW q \in Int, NEW d \in Nat \ {0}
  PROVE  (p + q) * d = p * d + q * d
OBVIOUS

LEMMA Constants ==
  /\ {HOURS, BACKFILL, RETENTION, ROLLUPS, MaxHour, MaxSamples} \subseteq Nat \ {0} /\ LATE \in Nat
  /\ BACKFILL * HOURS \in Nat /\ RETENTION * HOURS \in Nat /\ ROLLUPS * HOURS \in Nat
  /\ Patience \in Nat
  /\ BACKFILL * HOURS + HOURS <= RETENTION * HOURS
<1>1. /\ {HOURS, BACKFILL, RETENTION, ROLLUPS, MaxHour, MaxSamples} \subseteq Nat \ {0} /\ LATE \in Nat
      /\ BACKFILL * HOURS \in Nat /\ RETENTION * HOURS \in Nat /\ ROLLUPS * HOURS \in Nat
  BY LatencyAssumption
<1>2. (BACKFILL + 1) * HOURS <= RETENTION * HOURS
  BY <1>1, PolicyAssumption, Scaling
<1>3. (BACKFILL + 1) * HOURS = BACKFILL * HOURS + HOURS
  BY <1>1
<1>4. QED BY <1>1, <1>2, <1>3, PolicyAssumption DEF Patience

\* An hour is in its day.
LEMMA InDay ==
  ASSUME NEW h \in Int
  PROVE  /\ Day(h) \in Int /\ Day(h) * HOURS \in Int
         /\ Day(h) * HOURS <= h /\ h < Day(h) * HOURS + HOURS
BY Division, Constants DEF Day

\* A later hour is in no earlier day.
LEMMA DayOrder ==
  ASSUME NEW g \in Int, NEW h \in Int, g <= h
  PROVE  Day(g) <= Day(h)
<1>1. Day(g) * HOURS < (Day(h) + 1) * HOURS
  BY InDay, Distribute, Constants
<1>2. QED BY <1>1, InDay, Scaling, Constants

LEMMA DayEndIs ==
  ASSUME NEW x \in Samples
  PROVE  /\ x.at \in Nat /\ DayEnd(x) \in Int /\ Day(x.at) \in Int
         /\ DayEnd(x) = Day(x.at) * HOURS + HOURS
         /\ x.at < DayEnd(x) /\ DayEnd(x) <= x.at + HOURS
BY InDay, Distribute, Constants DEF Samples, DayEnd

\* What a rollup finds in the days it covers has not been pruned.
LEMMA CoveredIsRaw ==
  ASSUME LatencyInv, NEW x \in stored, Day(hour) - BACKFILL <= Day(x.at)
  PROVE  x \in raw
<1>1. x \in Samples /\ hour \in Nat
  BY Constants DEF LatencyInv, LatencyTypeOK
<1>2. (Day(hour) - BACKFILL) * HOURS <= Day(x.at) * HOURS
  BY <1>1, InDay, DayEndIs, Scaling, Constants
<1>3. (Day(hour) - BACKFILL) * HOURS = Day(hour) * HOURS - BACKFILL * HOURS
  BY <1>1, InDay, Constants
<1>4. Day(x.at) * HOURS <= x.at
  BY <1>1, DayEndIs, InDay
<1>5. hour - RETENTION * HOURS < x.at
  BY <1>1, <1>2, <1>3, <1>4, InDay, DayEndIs, Constants
<1>6. QED BY <1>1, <1>5, Constants, DayEndIs DEF LatencyInv, PrunedIsOld

\* A sample whose day ended within the backfill and the delay is covered, and
\* will not be pruned yet.
LEMMA YoungIsCovered ==
  ASSUME LatencyInv, ~neglected, NEW x \in stored, hour - waiting < DayEnd(x) + LATE
  PROVE  /\ Day(hour) - BACKFILL <= Day(x.at)
         /\ hour - RETENTION * HOURS <= x.at
<1>1. x \in Samples /\ hour \in Nat /\ waiting \in 0 .. Patience
  BY Constants DEF LatencyInv, LatencyTypeOK
<1>2. hour < DayEnd(x) + BACKFILL * HOURS
  BY <1>1, DayEndIs, Constants DEF Patience
<1>3. Day(hour) * HOURS < (Day(x.at) + 1 + BACKFILL) * HOURS
  <2>1. (Day(x.at) + 1 + BACKFILL) * HOURS = DayEnd(x) + BACKFILL * HOURS
    BY <1>1, DayEndIs, Distribute, Constants DEF DayEnd
  <2>2. Day(hour) * HOURS <= hour
    BY <1>1, InDay
  <2>3. QED BY <1>1, <1>2, <2>1, <2>2, InDay, DayEndIs, Constants
<1>4. Day(hour) < Day(x.at) + 1 + BACKFILL
  BY <1>1, <1>3, InDay, DayEndIs, Scaling, Constants
<1>5. QED BY <1>1, <1>2, <1>4, DayEndIs, InDay, Constants

LEMMA InitLatencyInv == LatencyInit => LatencyInv
<1> SUFFICES ASSUME LatencyInit PROVE LatencyInv
  OBVIOUS
<1>1. 0 \in 0 .. MaxHour /\ HOURS \in 0 .. HOURS /\ 0 \in 0 .. Patience
  BY Constants
<1>2. LatencyTypeOK
  BY <1>1 DEF LatencyInit, LatencyTypeOK
<1>3. QED BY <1>2 DEF LatencyInit, LatencyInv, PrunedIsOld, UnrolledIsYoung

LEMMA TickKeeps == ASSUME LatencyInv, Tick PROVE LatencyInv'
<1> USE Constants DEF LatencyInv
<1>1. LatencyTypeOK'
  BY DEF LatencyTypeOK, Tick, Older
<1>2. PrunedIsOld'
  BY DEF LatencyTypeOK, PrunedIsOld, Tick, Samples
<1>3. UnrolledIsYoung'
  <2> SUFFICES ASSUME ~neglected' PROVE UnrolledIsYoung'
    BY DEF UnrolledIsYoung
  <2>1. ~neglected /\ hour \in Nat /\ waiting \in Nat /\ hour' = hour + 1 /\ waiting' = waiting + 1
    <3>1. ~neglected /\ waiting # Patience /\ waiting' = Older(waiting, Patience) /\ hour' = hour + 1
      BY Zenon DEF Tick
    <3>2. hour \in Nat /\ waiting \in 0 .. Patience
      BY DEF LatencyTypeOK
    <3>3. QED BY <3>1, <3>2 DEF Older
  <2>2. Day(hour - ROLLUPS * HOURS) <= Day(hour' - ROLLUPS * HOURS)
    BY <2>1, DayOrder
  <2>3. \A x \in stored : Forgotten(x) => Forgotten(x)'
    BY <2>1, <2>2, InDay, DayEndIs DEF Forgotten, LatencyTypeOK
  <2>4. UNCHANGED <<stored, raw, rolled>> /\ hour' - waiting' = hour - waiting
    BY <2>1 DEF Tick
  <2>5. QED BY <2>1, <2>3, <2>4 DEF UnrolledIsYoung, DayEnd
<1>4. QED BY <1>1, <1>2, <1>3

LEMMA RunFlushKeeps == ASSUME LatencyInv, NEW x \in Samples, run_latency_flush(x) PROVE LatencyInv'
<1> USE Constants DEF LatencyInv
<1>1. LatencyTypeOK'
  BY DEF LatencyTypeOK, run_latency_flush
<1>2. PrunedIsOld'
  BY DEF PrunedIsOld, run_latency_flush
<1>3. UnrolledIsYoung'
  <2>1. hour - waiting < DayEnd(x) + LATE
    BY DayEndIs DEF LatencyTypeOK, run_latency_flush
  <2>2. QED BY <2>1 DEF UnrolledIsYoung, Forgotten, DayEnd, run_latency_flush
<1>4. QED BY <1>1, <1>2, <1>3

LEMMA RollUpIs ==
  ASSUME LatencyInv
  PROVE  /\ RollUp(raw) \subseteq stored
         /\ \A x \in rolled : x \in RollUp(raw)
         /\ \A x \in raw : Day(hour) - BACKFILL <= Day(x.at) /\ Day(x.at) < Day(hour) => x \in RollUp(raw)
<1>1. rolled \subseteq stored /\ raw \subseteq stored
  BY DEF LatencyInv, LatencyTypeOK
<1>2. \A x \in rolled, y \in raw :
         Day(hour) - BACKFILL <= Day(y.at) /\ Day(x.at) = Day(y.at) => x \in raw
  BY <1>1, CoveredIsRaw
<1>3. QED BY <1>1, <1>2 DEF RollUp

LEMMA NightlyKeeps == ASSUME LatencyInv, Nightly PROVE LatencyInv'
<1> USE Constants DEF LatencyInv, Nightly
<1>1. LatencyTypeOK'
  <2>1. raw' \subseteq stored /\ pruneAge' \in 0 .. HOURS
    BY DEF LatencyTypeOK, prune_latency_samples, Unpruned
  <2>2. rolled' \subseteq stored /\ rollupAge' \in 0 .. HOURS /\ waiting' \in 0 .. Patience
    BY RollUpIs DEF LatencyTypeOK, run_latency_rollup, Kept
  <2>3. QED BY <2>1, <2>2 DEF LatencyTypeOK
<1>2. PrunedIsOld'
  BY DEF PrunedIsOld, prune_latency_samples, Unpruned, LatencyTypeOK, Samples
<1>3. UnrolledIsYoung'
  <2> SUFFICES ASSUME ~neglected' PROVE UnrolledIsYoung'
    BY DEF UnrolledIsYoung
  <2>0. ~neglected /\ UNCHANGED <<hour, stored>> /\ hour \in Nat /\ waiting \in Nat
    BY DEF LatencyTypeOK
  <2>1. waiting' \in {waiting, 0}
    BY DEF run_latency_rollup
  <2>2. \A x \in stored : Forgotten(x)' <=> Forgotten(x)
    BY <2>0 DEF Forgotten
  <2>3. ASSUME NEW x \in stored, ~Forgotten(x), x \notin rolled'
        PROVE  x \in raw' /\ hour - waiting' < DayEnd(x) + LATE
    <3>0. x \in Samples
      BY DEF LatencyTypeOK
    <3>9. \A rows : x \in rows => x \in Kept(rows)
      <4>1. Day(x.at) \in Int /\ Day(hour - ROLLUPS * HOURS) \in Int
        BY <2>0, <3>0, DayEndIs, InDay
      <4>2. QED BY <2>3, <4>1 DEF Forgotten, Kept
    <3>1. x \notin rolled
      BY <2>3, <3>9, RollUpIs DEF run_latency_rollup
    <3>2. x \in raw /\ hour - waiting < DayEnd(x) + LATE
      BY <2>0, <2>3, <3>1 DEF UnrolledIsYoung
    <3>3. Day(hour) - BACKFILL <= Day(x.at) /\ hour - RETENTION * HOURS <= x.at
      BY <2>0, <3>2, YoungIsCovered
    <3>4. x \in raw'
      BY <3>2, <3>3, <3>0, <2>0 DEF prune_latency_samples, Unpruned, Samples
    <3>5. CASE waiting' = waiting
      BY <3>2, <3>4, <3>5
    <3>6. CASE waiting' # waiting
      <4>1. x \notin RollUp(raw)
        BY <2>3, <3>6, <3>9 DEF run_latency_rollup
      <4>2. Day(hour) <= Day(x.at)
        BY <2>0, <3>0, <3>2, <3>3, <4>1, RollUpIs, DayEndIs, InDay
      <4>3. Day(hour) * HOURS <= Day(x.at) * HOURS
        BY <2>0, <3>0, <4>2, Scaling, DayEndIs, InDay
      <4>4. hour < DayEnd(x) /\ waiting' = 0
        BY <2>0, <2>1, <3>0, <3>6, <4>3, DayEndIs, InDay
      <4>5. QED BY <2>0, <3>0, <3>4, <4>4, DayEndIs
    <3>7. QED BY <3>5, <3>6
  <2>4. waiting' <= hour'
    BY <2>0, <2>1 DEF UnrolledIsYoung
  <2>5. QED BY <2>0, <2>2, <2>3, <2>4 DEF UnrolledIsYoung, DayEnd
<1>4. QED BY <1>1, <1>2, <1>3

LEMMA NextLatencyInv == LatencyInv /\ [LatencyNext]_latencyVars => LatencyInv'
<1> SUFFICES ASSUME LatencyInv, [LatencyNext]_latencyVars PROVE LatencyInv'
  OBVIOUS
<1>1. CASE SentinelsLost \/ UNCHANGED latencyVars
  <2>1. /\ UNCHANGED <<hour, raw, rolled, stored, waiting, neglected>>
        /\ rollupAge' \in {rollupAge, HOURS} /\ pruneAge' \in {pruneAge, HOURS}
    BY <1>1 DEF SentinelsLost, latencyVars
  <2>2. {rollupAge', pruneAge'} \subseteq 0 .. HOURS
    BY <2>1, Constants DEF LatencyInv, LatencyTypeOK
  <2>3. QED BY <2>1, <2>2 DEF LatencyInv, LatencyTypeOK, PrunedIsOld, UnrolledIsYoung, Forgotten, DayEnd
<1>2. QED BY <1>1, TickKeeps, RunFlushKeeps, NightlyKeeps DEF LatencyNext

LEMMA LatencyInvariance == LatencySpec => []LatencyInv
BY InitLatencyInv, NextLatencyInv, PTL DEF LatencySpec

THEOREM OldStaysRolledUp == LatencySpec => []OldIsRolledUp
<1>1. LatencyInv => OldIsRolledUp
  BY DEF LatencyInv, UnrolledIsYoung, OldIsRolledUp, Forgotten
<1>2. QED BY <1>1, LatencyInvariance, PTL

LEMMA Exact == LatencyInv => ExactIsComplete
<1> SUFFICES ASSUME LatencyInv, NEW w \in Windows, NEW m \in Methods \union {AnyMethod},
                    ~latency_percentiles(w[1], w[2], m).approximate
             PROVE  latency_percentiles(w[1], w[2], m).from
                        = {x \in stored : w[1] <= x.at /\ x.at < w[2] /\ Of(m, x)}
  BY DEF ExactIsComplete
<1>1. ~_is_window_beyond_raw_retention(w[1])
  BY DEF latency_percentiles
<1>2. w[1] \in Nat /\ hour \in Nat /\ hour - RETENTION * HOURS <= w[1]
  BY <1>1, Constants DEF Windows, _is_window_beyond_raw_retention, LatencyInv, LatencyTypeOK
<1>3. \A x \in stored : w[1] <= x.at => x \in raw
  BY <1>2, Constants DEF LatencyInv, LatencyTypeOK, PrunedIsOld, Samples
<1>4. latency_percentiles(w[1], w[2], m).from = _latency_percentiles_from_raw(w[1], w[2], m)
  BY <1>1 DEF latency_percentiles
<1>5. raw \subseteq stored
  BY DEF LatencyInv, LatencyTypeOK
<1>6. QED BY <1>3, <1>4, <1>5 DEF _latency_percentiles_from_raw

\* A bucket of the chart that an hour of the window falls into is there.
LEMMA BucketIs ==
  ASSUME NEW first \in Nat, NEW last \in Nat, NEW step \in Nat \ {0}, NEW t \in Nat,
         first <= t, t < last
  PROVE  (t \div step) * step \in _zero_fill_latency_buckets(first, last, step)
<1>1. /\ t \div step \in Int /\ (t \div step) * step \in Int
      /\ (t \div step) * step <= t /\ t < (t \div step) * step + step
  BY Division
<1>2. ((t \div step) * step) % step = 0
  BY <1>1, Multiple
<1>3. QED BY <1>1, <1>2 DEF _zero_fill_latency_buckets

LEMMA ChartFromRaw ==
  ASSUME LatencyInv, NEW first \in 0 .. hour, NEW m \in Methods, NEW step \in Nat \ {0}
  PROVE  LET chart == _latency_timeseries_from_raw(first, hour + 1, m, step)
         IN  /\ UNION {chart[b] : b \in DOMAIN chart} = _latency_percentiles_from_raw(first, hour + 1, m)
             /\ \A b, c \in DOMAIN chart : b # c => chart[b] \intersect chart[c] = {}
<1> DEFINE chart == _latency_timeseries_from_raw(first, hour + 1, m, step)
           found == _latency_percentiles_from_raw(first, hour + 1, m)
           Buckets == _zero_fill_latency_buckets(first, hour + 1, step)
<1>1. hour \in Nat /\ raw \subseteq Samples
  BY Constants DEF LatencyInv, LatencyTypeOK
<1>2. /\ DOMAIN chart = Buckets
      /\ \A b \in Buckets : chart[b] = {x \in found : (x.at \div step) * step = b}
  BY DEF _latency_timeseries_from_raw
<1>3. \A x \in found : (x.at \div step) * step \in Buckets
  <2> SUFFICES ASSUME NEW x \in found PROVE (x.at \div step) * step \in Buckets
    OBVIOUS
  <2>1. x.at \in Nat /\ first <= x.at /\ x.at < hour + 1
    BY <1>1 DEF _latency_percentiles_from_raw, Samples
  <2>2. first \in Nat /\ hour + 1 \in Nat
    BY <1>1
  <2> HIDE DEF found
  <2>3. QED BY <2>1, <2>2, BucketIs
<1> HIDE DEF chart, found, Buckets
<1>4. QED BY <1>2, <1>3 DEF chart, found

LEMMA ChartFromRollup ==
  ASSUME LatencyInv, NEW first \in 0 .. hour, NEW m \in Methods
  PROVE  LET chart == _latency_timeseries_from_rollup(first, hour + 1, m)
         IN  /\ UNION {chart[b] : b \in DOMAIN chart} = _latency_percentiles_from_rollup(first, hour + 1, m)
             /\ \A b, c \in DOMAIN chart : b # c => chart[b] \intersect chart[c] = {}
<1> DEFINE chart == _latency_timeseries_from_rollup(first, hour + 1, m)
           found == _latency_percentiles_from_rollup(first, hour + 1, m)
           Buckets == _zero_fill_latency_buckets(first, hour + 1, HOURS)
           At(b) == {x \in found : Day(x.at) * HOURS = b}
<1>1. hour \in Nat /\ rolled \subseteq Samples /\ m # AnyMethod
  BY Constants, LatencyAssumption DEF LatencyInv, LatencyTypeOK
<1>2. \A x \in found : x.method = m
  BY <1>1 DEF _latency_percentiles_from_rollup, Of
<1>3. /\ DOMAIN chart = Buckets
      /\ \A b \in Buckets : chart[b] =
            IF At(b) = {} THEN {} ELSE {x \in At(b) : x.method = (CHOOSE y \in At(b) : TRUE).method}
  BY DEF _latency_timeseries_from_rollup
<1>4. \A b \in Buckets : chart[b] = At(b)
  <2> SUFFICES ASSUME NEW b \in Buckets, At(b) # {} PROVE chart[b] = At(b)
    BY <1>3
  <2>1. (CHOOSE y \in At(b) : TRUE) \in At(b)
    OBVIOUS
  <2>2. \A y \in At(b) : y.method = m
    BY <1>2
  <2> HIDE DEF At, chart, found, Buckets
  <2>3. QED BY <1>3, <2>1, <2>2
<1>5. \A x \in found : Day(x.at) * HOURS \in Buckets
  <2> SUFFICES ASSUME NEW x \in found PROVE Day(x.at) * HOURS \in Buckets
    OBVIOUS
  <2>1. x \in Samples /\ Day(first) <= Day(x.at) /\ Day(x.at) < Day(hour + 1)
    BY <1>1 DEF _latency_percentiles_from_rollup
  <2>2. Day(x.at) \in Int /\ Day(first) \in Int /\ Day(hour + 1) \in Int
    BY <1>1, <2>1, DayEndIs, InDay
  <2>3. Day(first) * HOURS <= Day(x.at) * HOURS
    BY <2>1, <2>2, Scaling, Constants
  <2>4. (Day(x.at) + 1) * HOURS <= Day(hour + 1) * HOURS
    BY <2>1, <2>2, Scaling, Constants
  <2>5. Day(x.at) * HOURS + HOURS <= hour + 1 /\ first < Day(x.at) * HOURS + HOURS
    BY <1>1, <2>1, <2>2, <2>3, <2>4, InDay, DayEndIs, Constants DEF DayEnd
  <2>6. (Day(x.at) * HOURS) % HOURS = 0
    BY <2>2, Multiple, Constants
  <2>7. QED BY <1>1, <2>2, <2>5, <2>6, Constants DEF _zero_fill_latency_buckets
<1> HIDE DEF chart, found, Buckets
<1>6. QED BY <1>3, <1>4, <1>5 DEF chart, found

LEMMA ChartAgrees == LatencyInv => ChartShowsSummary
<1> SUFFICES ASSUME LatencyInv, NEW first \in 0 .. hour, NEW m \in Methods, NEW step \in {1, HOURS}
             PROVE  LET chart == latency_timeseries(first, hour + 1, m, step)
                    IN  /\ UNION {chart[b] : b \in DOMAIN chart} = latency_percentiles(first, hour + 1, m).from
                        /\ \A b, c \in DOMAIN chart : b # c => chart[b] \intersect chart[c] = {}
  BY DEF ChartShowsSummary
<1>1. CASE _is_window_beyond_raw_retention(first)
  BY <1>1, ChartFromRollup DEF latency_timeseries, latency_percentiles
<1>2. CASE ~_is_window_beyond_raw_retention(first)
  <2>1. step \in Nat \ {0}
    BY Constants
  <2>2. /\ latency_timeseries(first, hour + 1, m, step) = _latency_timeseries_from_raw(first, hour + 1, m, step)
        /\ latency_percentiles(first, hour + 1, m).from = _latency_percentiles_from_raw(first, hour + 1, m)
    BY <1>2 DEF latency_timeseries, latency_percentiles
  <2>3. QED BY <2>1, <2>2, ChartFromRaw
<1>3. QED BY <1>1, <1>2

-----------------------------------------------------------------------------
(***************************************************************************)
(* The counters: MetricsQueries                                            *)
(***************************************************************************)

LEMMA QueriesTypes == QueriesSpec => []QueriesTypeOK
<1>1. QueriesInit => QueriesTypeOK
  <2>1. QueriesInit => DOMAIN counters = {}
    BY DEF QueriesInit
  <2>2. 0 \in 0 .. MaxTime
    BY QueriesAssumption
  <2>3. QED BY <2>1, <2>2 DEF QueriesInit, QueriesTypeOK
<1>2. QueriesTypeOK /\ [QueriesNext]_queriesVars => QueriesTypeOK'
  <2> SUFFICES ASSUME QueriesTypeOK, [QueriesNext]_queriesVars PROVE QueriesTypeOK'
    OBVIOUS
  <2>1. CASE UNCHANGED queriesVars
    BY <2>1 DEF queriesVars, QueriesTypeOK
  <2>2. CASE Sample
    <3>1. now \in 0 .. now
      BY QueriesAssumption DEF QueriesTypeOK
    <3>2. QED BY <2>2, <3>1 DEF Sample, QueriesTypeOK
  <2>3. CASE HalfHour
    <3>1. now + 1 \in 0 .. MaxTime /\ 0 .. now \subseteq 0 .. now + 1
      BY <2>3, QueriesAssumption DEF HalfHour, QueriesTypeOK
    <3>2. QED BY <2>3, <3>1 DEF HalfHour, QueriesTypeOK
  <2>4. ASSUME NEW r \in Rows, Flush(r) PROVE QueriesTypeOK'
    <3>1. PICK i \in (1 .. MaxCount) \ Total(DOMAIN counters) :
              counters' = [x \in DOMAIN counters \union {r} |->
                             (IF x \in DOMAIN counters THEN counters[x] ELSE {})
                                 \union (IF x = r THEN {i} ELSE {})]
      BY <2>4 DEF Flush
    <3>2. \A x \in DOMAIN counters : i \notin counters[x]
      BY <3>1 DEF Total
    <3>3. DOMAIN counters' = DOMAIN counters \union {r}
      BY <3>1
    <3>4. ASSUME NEW x \in DOMAIN counters'
          PROVE  counters'[x] \subseteq 1 .. MaxCount /\ counters'[x] # {}
      BY <3>1, <3>3, <3>4 DEF QueriesTypeOK
    <3>5. ASSUME NEW x \in DOMAIN counters', NEW y \in DOMAIN counters', x # y
          PROVE  counters'[x] \intersect counters'[y] = {}
      BY <3>1, <3>2, <3>3, <3>5 DEF QueriesTypeOK
    <3>6. UNCHANGED <<now, gauges>>
      BY <2>4 DEF Flush
    <3>7. QED BY <3>3, <3>4, <3>5, <3>6 DEF QueriesTypeOK
  <2>5. QED BY <2>1, <2>2, <2>3, <2>4 DEF QueriesNext
<1>3. QED BY <1>1, <1>2, PTL DEF QueriesSpec

LEMMA SplitIs ==
  ASSUME QueriesTypeOK, NEW rows \in SUBSET DOMAIN counters, NEW f, NEW piece,
         \A x \in DOMAIN f : piece[x] \subseteq rows /\ f[x] = Total(piece[x]),
         \A r \in rows : \E x \in DOMAIN f : r \in piece[x],
         \A x, y \in DOMAIN f : x # y => piece[x] \intersect piece[y] = {}
  PROVE  Splits(f, Total(rows))
<1>1. Whole(f) = Total(rows)
  BY DEF Whole, Total
<1>2. ASSUME NEW x \in DOMAIN f, NEW y \in DOMAIN f, x # y
      PROVE  f[x] \intersect f[y] = {}
  <2>1. ASSUME NEW i, i \in f[x], i \in f[y] PROVE FALSE
    <3>1. PICK r \in piece[x] : i \in counters[r]
      BY <2>1 DEF Total
    <3>2. PICK s \in piece[y] : i \in counters[s]
      BY <2>1 DEF Total
    <3>3. r # s /\ r \in DOMAIN counters /\ s \in DOMAIN counters
      BY <1>2
    <3>4. QED BY <3>1, <3>2, <3>3 DEF QueriesTypeOK
  <2>2. QED BY <2>1
<1>3. QED BY <1>1, <1>2 DEF Splits

LEMMA TotalApart ==
  ASSUME QueriesTypeOK, NEW all \in SUBSET DOMAIN counters, NEW some \in SUBSET all
  PROVE  Total(all) \ Total(some) = Total(all \ some)
<1>1. ASSUME NEW i \in Total(all \ some) PROVE i \in Total(all) /\ i \notin Total(some)
  <2>1. PICK r \in all \ some : i \in counters[r]
    BY DEF Total
  <2>2. \A s \in some : i \notin counters[s]
    BY <2>1 DEF QueriesTypeOK
  <2>3. QED BY <2>1, <2>2 DEF Total
<1>2. Total(all) \ Total(some) \subseteq Total(all \ some)
  BY DEF Total
<1>3. QED BY <1>1, <1>2

LEMMA HasLength ==
  ASSUME QueriesTypeOK, NEW q \in Answered
  PROVE  LET w == resolve_query_window(q)
         IN  w[1] \in Int /\ w[2] \in Int /\ w[1] < w[2]
<1>1. /\ q \in Questions /\ (q.start = None <=> q.end = None)
      /\ (q.window = None) # (q.start = None) /\ (q.start # None => q.start < q.end)
      /\ q.window # 0
  BY DEF Answered, Refused, _validate_window_xor_range, Questions
<1>2. now \in Int /\ DAY \in Nat \ {0}
  BY QueriesAssumption DEF QueriesTypeOK
<1>3. CASE q.start # None
  <2>1. q.start \in Int /\ q.end \in Int
    BY <1>1, <1>2, <1>3 DEF Questions, Times
  <2>2. QED BY <1>1, <1>3, <2>1 DEF resolve_query_window
<1>4. CASE q.start = None
  <2>1. q.window \in {2, DAY}
    BY <1>1, <1>4 DEF Questions
  <2>2. QED BY <1>2, <1>4, <2>1 DEF resolve_query_window
<1>5. QED BY <1>3, <1>4

LEMMA InRows == ASSUME QueriesTypeOK, NEW w, NEW r \in In(w)
                PROVE  /\ r \in DOMAIN counters /\ r[1] \in Kinds /\ r[2] \in Hours /\ r[2] \in Int
                       /\ w[1] <= r[2] /\ r[2] < w[2]
BY QueriesAssumption DEF In, QueriesTypeOK, Rows, Hours

LEMMA KindIs ==
  ASSUME NEW k \in Kinds
  PROVE  /\ Category(k.event) = "api" <=> k.event \in {"api_hit", "ingest_batch"}
         /\ Category(k.event) = "domain" <=> k.event = "url_added"
         /\ Category(k.event) = "ui" <=> k.event = "form_cancel"
         /\ Category(k.event) \in Categories /\ k.event \in Events
BY DEF Kinds, Kind, Category, Categories, Events

LEMMA Found ==
  ASSUME QueriesTypeOK, NEW w, NEW category \in Categories, NEW resource
  PROVE  LET found == {r \in In(w) : /\ Category(r[1].event) = category
                                     /\ category = "api" => r[1].event = "api_hit" /\ r[1].endpoint # None
                                     /\ resource # None => resource_filter_clause(category, resource, r[1])}
             top == top_events(w, category, resource)
         IN  Splits([name \in DOMAIN top |-> top[name].total], Total(found))
<1> DEFINE found == {r \in In(w) : /\ Category(r[1].event) = category
                                   /\ category = "api" => r[1].event = "api_hit" /\ r[1].endpoint # None
                                   /\ resource # None => resource_filter_clause(category, resource, r[1])}
           top == top_events(w, category, resource)
           f == [name \in DOMAIN top |-> top[name].total]
<1>1. found \in SUBSET DOMAIN counters
  BY InRows
<1>2. CASE category = "api"
  <2> DEFINE piece == [name \in DOMAIN f |-> {r \in found : r[1].endpoint = name}]
             hits == {r \in In(w) : /\ r[1].event = "api_hit" /\ r[1].endpoint # None
                                    /\ resource # None => resource_filter_clause("api", resource, r[1])}
  <2>1. hits = found
    BY <1>2, InRows, KindIs
  <2>2. top = [e \in {r[1].endpoint : r \in hits} |->
                 [total |-> Total({r \in hits : r[1].endpoint = e}),
                  previous |-> _per_endpoint_counts(previous_window(w))[e]]]
    BY <1>2 DEF top_events, _top_endpoints_for_api_hit
  <2> HIDE DEF found, top
  <2>3. DOMAIN f = {r[1].endpoint : r \in found} /\ \A e \in DOMAIN f : f[e] = Total(piece[e])
    <3>1. DOMAIN top = {r[1].endpoint : r \in found}
      BY <2>1, <2>2
    <3>2. \A e \in DOMAIN top : top[e].total = Total({r \in found : r[1].endpoint = e})
      BY <2>1, <2>2
    <3>3. QED BY <3>1, <3>2
  <2> HIDE DEF f
  <2>4. /\ \A x \in DOMAIN f : piece[x] \subseteq found
        /\ \A r \in found : \E x \in DOMAIN f : r \in piece[x]
        /\ \A x, y \in DOMAIN f : x # y => piece[x] \intersect piece[y] = {}
    BY <2>3
  <2> HIDE DEF piece
  <2>5. Splits(f, Total(found))
    BY <1>1, <2>3, <2>4, SplitIs
  <2>6. QED BY <2>5 DEF f, found, top
<1>3. CASE category # "api"
  <2> DEFINE piece == [name \in DOMAIN f |-> {r \in found : r[1].event = name}]
             rows == {r \in In(w) : /\ Category(r[1].event) = category
                                    /\ resource # None => resource_filter_clause(category, resource, r[1])}
  <2>1. rows = found
    BY <1>3
  <2>2. top = [e \in {r[1].event : r \in rows} |->
                 [total |-> Total({r \in rows : r[1].event = e}),
                  previous |-> _per_event_counts(previous_window(w), category)[e]]]
    BY <1>3 DEF top_events
  <2> HIDE DEF found, top
  <2>3. DOMAIN f = {r[1].event : r \in found} /\ \A e \in DOMAIN f : f[e] = Total(piece[e])
    <3>1. DOMAIN top = {r[1].event : r \in found}
      BY <2>1, <2>2
    <3>2. \A e \in DOMAIN top : top[e].total = Total({r \in found : r[1].event = e})
      BY <2>1, <2>2
    <3>3. QED BY <3>1, <3>2
  <2> HIDE DEF f
  <2>4. /\ \A x \in DOMAIN f : piece[x] \subseteq found
        /\ \A r \in found : \E x \in DOMAIN f : r \in piece[x]
        /\ \A x, y \in DOMAIN f : x # y => piece[x] \intersect piece[y] = {}
    BY <2>3
  <2> HIDE DEF piece
  <2>5. Splits(f, Total(found))
    BY <1>1, <2>3, <2>4, SplitIs
  <2>6. QED BY <2>5 DEF f, found, top
<1>4. QED BY <1>2, <1>3

LEMMA TopsSplit == ASSUME QueriesTypeOK, NEW q \in Answered PROVE TopsAddUp(q)
<1> DEFINE w == resolve_query_window(q)
           RowsOf(c, resource) ==
              {r \in In(w) : /\ Category(r[1].event) = c
                             /\ c = "api" => r[1].event = "api_hit" /\ r[1].endpoint # None
                             /\ resource # None => resource_filter_clause(c, resource, r[1])}
<1> SUFFICES ASSUME NEW c \in Categories
             PROVE  /\ Splits(Tops(q, c, None), query_summary(q).current[c] \ Unattributed(w, c))
                    /\ Splits([v \in RESOURCE_BY_CATEGORY[c] |-> Whole(Tops(q, c, v))],
                              Whole(Tops(q, c, None)))
  BY DEF TopsAddUp
<1>1. ASSUME NEW v PROVE Splits(Tops(q, c, v), Total(RowsOf(c, v)))
  BY Found DEF Tops, query_top
<1>2. query_summary(q).current[c] \ Unattributed(w, c) = Total(RowsOf(c, None))
  <2> DEFINE all  == {r \in In(w) : Category(r[1].event) = c}
             some == {r \in In(w) : /\ c = "api" /\ Category(r[1].event) = "api"
                                    /\ r[1].event # "api_hit" \/ r[1].endpoint = None}
  <2>1. query_summary(q).current[c] = Total(all)
    BY DEF query_summary, summary, _by_category
  <2>2. Unattributed(w, c) = Total(some)
    BY DEF Unattributed
  <2>3. RowsOf(c, None) = all \ some
    <3>1. ASSUME NEW r \in In(w), Category(r[1].event) = c
          PROVE  (c = "api" => r[1].event = "api_hit" /\ r[1].endpoint # None)
                    <=> ~(/\ c = "api" /\ Category(r[1].event) = "api"
                          /\ r[1].event # "api_hit" \/ r[1].endpoint = None)
      BY <3>1
    <3>2. QED BY <3>1
  <2>4. all \in SUBSET DOMAIN counters /\ some \in SUBSET all
    <3>1. In(w) \subseteq DOMAIN counters
      BY DEF In
    <3>2. some \subseteq all
      OBVIOUS
    <3>3. QED BY <3>1, <3>2
  <2> HIDE DEF all, some, RowsOf
  <2>5. QED BY <2>1, <2>2, <2>3, <2>4, TotalApart
<1>3. ASSUME NEW v PROVE Whole(Tops(q, c, v)) = Total(RowsOf(c, v))
  BY <1>1 DEF Splits
<1>4. Splits([v \in RESOURCE_BY_CATEGORY[c] |-> Whole(Tops(q, c, v))], Total(RowsOf(c, None)))
  <2> DEFINE rows == RowsOf(c, None)
             f == [v \in RESOURCE_BY_CATEGORY[c] |-> Whole(Tops(q, c, v))]
             piece == [v \in RESOURCE_BY_CATEGORY[c] |-> RowsOf(c, v)]
  <2>1. rows \in SUBSET DOMAIN counters
    BY DEF In
  <2>2. None \notin RESOURCE_BY_CATEGORY[c]
    BY QueriesAssumption DEF RESOURCE_BY_CATEGORY, Categories
  <2>3. \A v \in DOMAIN f : piece[v] \subseteq rows /\ f[v] = Total(piece[v])
    BY <1>3, <2>2
  <2>4. ASSUME NEW r \in rows PROVE \E v \in DOMAIN f : r \in piece[v]
    <3>1. r[1] \in Kinds /\ Category(r[1].event) = c
      BY InRows
    <3>2. PICK v \in RESOURCE_BY_CATEGORY[c] : resource_filter_clause(c, v, r[1])
      BY <3>1, KindIs DEF RESOURCE_BY_CATEGORY, resource_filter_clause, Categories
    <3>3. QED BY <3>2
  <2>5. ASSUME NEW v \in DOMAIN f, NEW u \in DOMAIN f, v # u PROVE piece[v] \intersect piece[u] = {}
    <3>1. ASSUME NEW r \in piece[v], r \in piece[u] PROVE FALSE
      <4>1. resource_filter_clause(c, v, r[1]) /\ resource_filter_clause(c, u, r[1])
        BY <2>2, <3>1
      <4>2. QED BY <2>5, <4>1 DEF resource_filter_clause
    <3>2. QED BY <3>1
  <2> HIDE DEF rows, f, piece
  <2>6. Splits(f, Total(rows))
    BY <2>1, <2>3, <2>4, <2>5, SplitIs
  <2>7. QED BY <2>6 DEF rows, f
<1>5. QED BY <1>1, <1>2, <1>3, <1>4

LEMMA Truncated ==
  ASSUME NEW t \in Int, NEW u \in Int, t <= u, NEW step \in Nat \ {0}
  PROVE  LET b == date_trunc(u, step)
         IN  b \in Int /\ date_trunc(t, step) \in Int /\ date_trunc(t, step) <= b /\ b <= u
<1>1. (t \div step) * step <= t /\ t < (t \div step) * step + step /\ t \div step \in Int
  OBVIOUS
<1>2. (u \div step) * step <= u /\ u < (u \div step) * step + step /\ u \div step \in Int
  OBVIOUS
<1>3. t \div step <= u \div step
  BY <1>1, <1>2
<1>4. (t \div step) * step <= (u \div step) * step
  BY <1>1, <1>2, <1>3
<1>5. QED BY <1>1, <1>2, <1>4 DEF date_trunc

LEMMA Quotient ==
  ASSUME NEW t \in Int, NEW step \in Nat \ {0}, t % step = 0
  PROVE  t \div step \in Int /\ t = (t \div step) * step
<1>1. t \div step \in Int
  OBVIOUS
<1>2. (t \div step) * step = t
  OBVIOUS
<1>3. QED BY <1>1, <1>2

LEMMA MultipleOf ==
  ASSUME NEW t \in Int, NEW step \in Nat \ {0}, NEW k \in Int, t = k * step
  PROVE  t % step = 0
OBVIOUS

LEMMA Differ ==
  \A i, k \in Int, step \in Nat \ {0} :
      i * step - k * step = (i - k) * step /\ i * step + k * step = (i + k) * step
OBVIOUS

\* In an offset that is a multiple of the resolution, both floor alike.
LEMMA Aligned ==
  ASSUME NEW t \in Int, NEW zone \in Int, NEW step \in Nat \ {0}, zone % step = 0
  PROVE  _truncate_to_resolution(t, zone, step) = date_trunc(t, step)
<1> DEFINE m == zone \div step
<1>1. m \in Int /\ zone = m * step
  BY Quotient
<1> HIDE DEF m
<1> DEFINE d == t \div step
           e == (t + zone) \div step
<1>2. d \in Int /\ d * step <= t /\ t < d * step + step
  OBVIOUS
<1>3. e \in Int /\ e * step <= t + zone /\ t + zone < e * step + step
  OBVIOUS
<1> HIDE DEF d, e
<1>4. e * step - m * step = (e - m) * step
  <2>1. e \in Int /\ m \in Int
    BY <1>1, <1>3
  <2>2. QED BY <2>1, Differ
<1>5. (e - m) * step <= t /\ t < (e - m) * step + step /\ e - m \in Int
  BY <1>1, <1>3, <1>4
<1>6. \A i, j \in Int : i * step <= t /\ t < i * step + step /\ j * step <= t /\ t < j * step + step => i = j
  <2> SUFFICES ASSUME NEW i \in Int, NEW j \in Int, i * step <= t, t < i * step + step, i < j
               PROVE  ~(j * step <= t)
    <3>1. \A i, j \in Int : i # j => i < j \/ j < i
      OBVIOUS
    <3>2. QED BY <3>1
  <2>1. i + 1 <= j
    OBVIOUS
  <2>2. (i + 1) * step <= j * step
    BY <2>1
  <2>3. (i + 1) * step = i * step + step
    OBVIOUS
  <2>4. i * step \in Int /\ j * step \in Int
    OBVIOUS
  <2>5. QED BY <2>2, <2>3, <2>4
<1>7. e - m = d
  BY <1>2, <1>5, <1>6
<1>8. e * step - zone = d * step
  BY <1>1, <1>4, <1>7
<1>9. QED BY <1>8 DEF e, d, _truncate_to_resolution, date_trunc

LEMMA Offsets ==
  ASSUME NEW e \in Int, NEW k \in Int, NEW j \in Int, NEW zone \in Int, NEW step \in Nat \ {0},
         k * step - (e * step - zone) = j * step
  PROVE  zone = (e - k + j) * step
<1>1. e * step \in Int /\ k * step \in Int /\ j * step \in Int
  OBVIOUS
<1>2. zone = e * step - k * step + j * step
  BY <1>1
<1>3. e * step - k * step + j * step = (e - k + j) * step
  OBVIOUS
<1>4. QED BY <1>2, <1>3

\* In any other offset no bucket of the chart is one of the rows'.
LEMMA Unaligned ==
  ASSUME NEW t \in Int, NEW u \in Int, NEW b \in Int, NEW zone \in Int, NEW step \in Nat \ {0},
         (b - _truncate_to_resolution(t, zone, step)) % step = 0, date_trunc(u, step) = b
  PROVE  zone % step = 0
<1> DEFINE e == (t + zone) \div step
           k == u \div step
           x == b - (e * step - zone)
           j == x \div step
<1>1. e \in Int /\ k \in Int
  OBVIOUS
<1>2. b = k * step /\ _truncate_to_resolution(t, zone, step) = e * step - zone
  BY DEF _truncate_to_resolution, date_trunc
<1> HIDE DEF e, k
<1>3. x \in Int /\ x % step = 0
  <2>1. e * step \in Int
    BY <1>1
  <2>2. QED BY <1>2, <2>1
<1> HIDE DEF x
<1>4. j \in Int /\ x = j * step
  BY <1>3, Quotient
<1> HIDE DEF j
<1>5. k * step - (e * step - zone) = j * step
  BY <1>2, <1>4 DEF x
<1>6. zone = (e - k + j) * step /\ e - k + j \in Int
  BY <1>1, <1>4, <1>5, Offsets
<1>7. QED BY <1>6, MultipleOf, Zenon

LEMMA ChartsSplit == ASSUME QueriesTypeOK, NEW q \in Answered PROVE ChartsAddUp(q)
<1> DEFINE w == resolve_query_window(q)
           zone == Offset(q)
           shown(e, endpoint, step) ==
               IF zone % step = 0 THEN grouped_count_scalar(e, endpoint, w) ELSE {}
<1> SUFFICES ASSUME NEW step \in {2, DAY}
             PROVE  /\ \A e \in Events, endpoint \in {None, "utubs"} :
                         Splits(query_timeseries(q, e, endpoint, step), shown(e, endpoint, step))
                    /\ Splits(query_grouped_timeseries(q, "form_cancel", step),
                              Whole(grouped_count_by("form_cancel", w)))
  BY DEF ChartsAddUp
<1>0. step \in Nat \ {0} /\ w[1] \in Int /\ w[2] \in Int /\ zone \in Int
  <2>1. q.zone \in Int
    BY QueriesAssumption DEF Answered, Questions
  <2>2. zone \in Int
    BY <2>1 DEF Offset
  <2>3. QED BY <2>2, HasLength, QueriesAssumption
<1> HIDE DEF w, zone
<1>1. ASSUME NEW e \in Events, NEW endpoint \in {None, "utubs"}
      PROVE  Splits(timeseries(e, endpoint, w, zone, step), shown(e, endpoint, step))
  <2> DEFINE rows == IF zone % step = 0 THEN Matching(e, endpoint, w) ELSE {}
             first == _truncate_to_resolution(w[1], zone, step)
             f == timeseries(e, endpoint, w, zone, step)
             piece == [b \in DOMAIN f |-> {r \in rows : date_trunc(r[2], step) = b}]
  <2>1. rows \in SUBSET DOMAIN counters
    BY InRows DEF Matching
  <2>2. /\ DOMAIN f = {b \in first .. w[2] - 1 : (b - first) % step = 0}
        /\ \A b \in DOMAIN f :
              f[b] = Total({r \in Matching(e, endpoint, w) : date_trunc(r[2], step) = b})
    BY DEF timeseries
  <2>3. ASSUME NEW b \in DOMAIN f PROVE f[b] = Total(piece[b])
    <3>1. CASE zone % step = 0
      BY <2>2, <2>3, <3>1
    <3>2. CASE zone % step # 0
      <4>1. b \in Int /\ (b - first) % step = 0
        BY <2>2, <2>3
      <4>2. ASSUME NEW r \in Matching(e, endpoint, w), date_trunc(r[2], step) = b PROVE FALSE
        <5>1. r[2] \in Int
          BY InRows DEF Matching
        <5>2. QED BY <1>0, <3>2, <4>1, <4>2, <5>1, Unaligned
      <4>3. QED BY <2>2, <2>3, <3>2, <4>2
    <3>3. QED BY <3>1, <3>2
  <2>4. ASSUME NEW r \in rows PROVE \E b \in DOMAIN f : r \in piece[b]
    <3> DEFINE b == date_trunc(r[2], step)
    <3>1. zone % step = 0 /\ r \in Matching(e, endpoint, w)
      BY <2>4
    <3>2. r[2] \in Int /\ w[1] <= r[2] /\ r[2] < w[2]
      BY <3>1, InRows DEF Matching
    <3>3. first = date_trunc(w[1], step) /\ first \in Int
      <4>1. w[1] <= w[1]
        BY <1>0
      <4>2. date_trunc(w[1], step) \in Int
        BY <1>0, <4>1, Truncated, Zenon
      <4>3. first = date_trunc(w[1], step)
        BY <1>0, <3>1, Aligned, Zenon
      <4>4. QED BY <4>2, <4>3
    <3>4. b \in Int /\ first <= b /\ b <= r[2]
      BY <1>0, <3>2, <3>3, Truncated
    <3>5. (b - first) % step = 0
      <4>1. PICK i \in Int, k \in Int : b = i * step /\ first = k * step
        <5>1. r[2] \div step \in Int /\ w[1] \div step \in Int
          BY <1>0, <3>2
        <5>2. QED BY <3>3, <5>1 DEF date_trunc
      <4>2. b - first = (i - k) * step /\ i - k \in Int
        <5>1. i * step - k * step = (i - k) * step
          BY <1>0, Differ, Zenon
        <5>2. QED BY <4>1, <5>1
      <4>3. b - first \in Int
        BY <3>3, <3>4
      <4>4. QED BY <1>0, <4>2, <4>3, MultipleOf, Zenon
    <3> HIDE DEF b, first
    <3>6. b \in first .. w[2] - 1
      BY <1>0, <3>2, <3>3, <3>4
    <3>7. QED BY <2>2, <3>5, <3>6 DEF b
  <2>5. \A x, y \in DOMAIN f : x # y => piece[x] \intersect piece[y] = {}
    OBVIOUS
  <2>6. \A x \in DOMAIN f : piece[x] \subseteq rows
    OBVIOUS
  <2>7. shown(e, endpoint, step) = Total(rows)
    BY DEF grouped_count_scalar, Total
  <2> HIDE DEF rows, f, piece, shown, first
  <2>8. Splits(f, Total(rows))
    BY <2>1, <2>3, <2>4, <2>5, <2>6, SplitIs
  <2>9. QED BY <2>7, <2>8 DEF f
<1>2. Splits(grouped_timeseries("form_cancel", w, step), Whole(grouped_count_by("form_cancel", w)))
  <2> DEFINE rows == {r \in Matching("form_cancel", None, w) : r[1].trigger # None}
             f == grouped_timeseries("form_cancel", w, step)
             key(r) == <<date_trunc(r[2], step), r[1].trigger>>
             piece == [k \in DOMAIN f |-> {r \in rows : key(r) = k}]
  <2>1. rows \in SUBSET DOMAIN counters
    BY InRows DEF Matching
  <2>2. DOMAIN f = {key(r) : r \in rows} /\ \A k \in DOMAIN f : f[k] = Total(piece[k])
    BY DEF grouped_timeseries
  <2>3. /\ \A r \in rows : \E k \in DOMAIN f : r \in piece[k]
        /\ \A x \in DOMAIN f : piece[x] \subseteq rows
        /\ \A x, y \in DOMAIN f : x # y => piece[x] \intersect piece[y] = {}
    BY <2>2
  <2>4. Whole(grouped_count_by("form_cancel", w)) = Total(rows)
    <3> DEFINE g == grouped_count_by("form_cancel", w)
    <3>1. /\ DOMAIN g = {r[1].trigger : r \in rows}
          /\ \A t \in DOMAIN g : g[t] = Total({r \in rows : r[1].trigger = t})
      BY DEF grouped_count_by
    <3> HIDE DEF g, rows
    <3>2. \A r \in rows : r[1].trigger \in DOMAIN g
      BY <3>1
    <3>3. UNION {g[t] : t \in DOMAIN g} = UNION {counters[r] : r \in rows}
      <4>1. ASSUME NEW i, NEW t \in DOMAIN g, i \in g[t] PROVE \E r \in rows : i \in counters[r]
        BY <3>1, <4>1 DEF Total
      <4>2. ASSUME NEW i, NEW r \in rows, i \in counters[r] PROVE \E t \in DOMAIN g : i \in g[t]
        <5>1. r[1].trigger \in DOMAIN g
          BY <3>2
        <5>2. r \in {s \in rows : s[1].trigger = r[1].trigger}
          OBVIOUS
        <5>3. g[r[1].trigger] = Total({s \in rows : s[1].trigger = r[1].trigger})
          BY <3>1, <5>1
        <5>4. i \in g[r[1].trigger]
          BY <4>2, <5>2, <5>3 DEF Total
        <5>5. QED BY <5>1, <5>4
      <4>3. QED BY <4>1, <4>2
    <3>4. QED BY <3>3 DEF g, Whole, Total
  <2> HIDE DEF rows, f, piece
  <2>5. Splits(f, Total(rows))
    BY <2>1, <2>2, <2>3, SplitIs
  <2>6. QED BY <2>4, <2>5 DEF f
<1>3. QED BY <1>1, <1>2 DEF query_timeseries, query_grouped_timeseries, w, zone

LEMMA WindowsSplit == ASSUME QueriesTypeOK, NEW q \in Answered PROVE NothingBetween(q)
<1> DEFINE w == resolve_query_window(q)
<1>0. w[1] \in Int /\ w[2] \in Int /\ w[1] < w[2]
  BY HasLength
<1> SUFFICES ASSUME NEW c \in Categories
             PROVE  Splits(<<query_summary(q).current[c], query_summary(q).previous[c]>>,
                           _by_category(<<2 * w[1] - w[2], w[2]>>)[c])
  BY DEF NothingBetween
<1> DEFINE CategoryRows(x) == {r \in In(x) : Category(r[1].event) = c}
           rows == CategoryRows(<<2 * w[1] - w[2], w[2]>>)
           f == <<query_summary(q).current[c], query_summary(q).previous[c]>>
           piece == <<CategoryRows(w), CategoryRows(previous_window(w))>>
<1>1. f = <<Total(CategoryRows(w)), Total(CategoryRows(previous_window(w)))>>
  BY DEF query_summary, summary, _by_category
<1>2. _by_category(<<2 * w[1] - w[2], w[2]>>)[c] = Total(rows)
  BY DEF _by_category
<1> HIDE DEF w
<1>3. \A r \in DOMAIN counters : r[2] \in Int
  BY QueriesAssumption DEF QueriesTypeOK, Rows, Hours
<1>4. previous_window(w)[1] = 2 * w[1] - w[2] /\ previous_window(w)[2] = w[1]
  BY <1>0 DEF previous_window
<1>5. /\ CategoryRows(w) \union CategoryRows(previous_window(w)) = rows
      /\ CategoryRows(w) \intersect CategoryRows(previous_window(w)) = {}
  BY <1>0, <1>3, <1>4 DEF In
<1>6. rows \in SUBSET DOMAIN counters
  BY DEF In
<1>7. /\ DOMAIN f = {1, 2}
      /\ \A x \in DOMAIN f : piece[x] \subseteq rows /\ f[x] = Total(piece[x])
      /\ \A r \in rows : \E x \in DOMAIN f : r \in piece[x]
      /\ \A x, y \in DOMAIN f : x # y => piece[x] \intersect piece[y] = {}
  <2>1. DOMAIN f = {1, 2}
    <3>1. DOMAIN f = 1 .. 2
      OBVIOUS
    <3>2. QED BY <3>1
  <2>2. /\ piece[1] = CategoryRows(w) /\ piece[2] = CategoryRows(previous_window(w))
        /\ f[1] = Total(piece[1]) /\ f[2] = Total(piece[2])
    BY <1>1
  <2> HIDE DEF rows, f, piece, CategoryRows
  <2>3. QED BY <1>5, <2>1, <2>2
<1> HIDE DEF rows, f, piece
<1>8. Splits(f, Total(rows))
  BY <1>6, <1>7, SplitIs
<1>9. QED BY <1>2, <1>8 DEF f, w

LEMMA FlowNarrows ==
  ASSUME QueriesTypeOK, NEW q
  PROVE  LET flow == query_flow(q)
         IN  /\ \A s \in 1 .. 3 : flow.steps[s].pct_of_top # None =>
                    flow.steps[s].pct_of_top <= Cardinality(flow.steps[1].count)
             /\ \A t \in DOMAIN flow.causes : flow.causes[t].count \subseteq flow.steps[1].count
<1> DEFINE w == resolve_query_window(q)
           top == Cardinality(_count_flow_step(1, w))
           flow == query_flow(q)
           cut(n) == IF n < top THEN n ELSE top
<1>1. \A s \in 1 .. 3 : Cardinality(_count_flow_step(s, w)) \in Nat
  <2>1. ASSUME NEW event, NEW filter PROVE Cardinality(grouped_count_scalar(event, filter, w)) \in Nat
    <3>1. grouped_count_scalar(event, filter, w) \subseteq 1 .. MaxCount
      BY DEF grouped_count_scalar, Total, Matching, In, QueriesTypeOK
    <3>2. IsFiniteSet(1 .. MaxCount)
      BY FS_Interval, QueriesAssumption
    <3>3. QED BY <3>1, <3>2, FS_Subset, FS_CardinalityType
  <2>2. QED BY <2>1 DEF _count_flow_step
<1>2. flow.steps = [s \in 1 .. 3 |-> [count |-> _count_flow_step(s, w),
                                      pct_of_top |-> IF top = 0 THEN None
                                                     ELSE cut(Cardinality(_count_flow_step(s, w)))]]
  BY DEF query_flow
<1>3. flow.causes = _build_step_breakdown(w)
  BY DEF query_flow
<1> HIDE DEF flow
<1>4. ASSUME NEW s \in 1 .. 3, flow.steps[s].pct_of_top # None
      PROVE  flow.steps[s].pct_of_top <= Cardinality(flow.steps[1].count)
  <2>1. flow.steps[1].count = _count_flow_step(1, w)
    BY <1>2
  <2>2. flow.steps[s].pct_of_top = cut(Cardinality(_count_flow_step(s, w)))
    BY <1>2, <1>4
  <2>3. Cardinality(_count_flow_step(s, w)) \in Nat /\ top \in Nat
    BY <1>1
  <2>4. QED BY <2>1, <2>2, <2>3
<1>5. ASSUME NEW t \in DOMAIN flow.causes PROVE flow.causes[t].count \subseteq flow.steps[1].count
  <2> DEFINE rows == {r \in Matching("form_cancel", None, w) : r[1].trigger # None}
  <2>1. flow.causes[t].count = Total({r \in rows : r[1].trigger = t})
    BY <1>3, <1>5 DEF _build_step_breakdown, grouped_count_by
  <2>2. flow.steps[1].count = Total(Matching("form_cancel", None, w))
    BY <1>2 DEF _count_flow_step, grouped_count_scalar
  <2>3. {r \in rows : r[1].trigger = t} \subseteq Matching("form_cancel", None, w)
    OBVIOUS
  <2>4. QED BY <2>1, <2>2, <2>3 DEF Total
<1>6. QED BY <1>4, <1>5 DEF flow

LEMMA ReportsAre == QueriesTypeOK => ReportsAgree
<1> SUFFICES ASSUME QueriesTypeOK, NEW q \in Answered
             PROVE  /\ LET w == resolve_query_window(q) IN w[1] < w[2]
                    /\ TopsAddUp(q) /\ ChartsAddUp(q) /\ NothingBetween(q)
                    /\ LET flow == query_flow(q)
                       IN  /\ \A s \in 1 .. 3 : flow.steps[s].pct_of_top # None =>
                                  flow.steps[s].pct_of_top <= Cardinality(flow.steps[1].count)
                           /\ \A t \in DOMAIN flow.causes : flow.causes[t].count \subseteq flow.steps[1].count
                    /\ query_gauges_timeseries(q) \subseteq gauges
  BY DEF ReportsAgree
<1>1. LET w == resolve_query_window(q) IN w[1] < w[2]
  BY HasLength
<1>2. TopsAddUp(q) /\ ChartsAddUp(q) /\ NothingBetween(q)
  BY TopsSplit, ChartsSplit, WindowsSplit
<1>3. query_gauges_timeseries(q) \subseteq gauges
  BY DEF query_gauges_timeseries, gauges_timeseries_all
<1>4. QED BY <1>1, <1>2, <1>3, FlowNarrows

-----------------------------------------------------------------------------
(***************************************************************************)
(* The three side by side, as TLC checks them                              *)
(***************************************************************************)

\* Each part behaves as it does alone.
LEMMA PartsOf == Spec => IngestSpec /\ LatencySpec /\ QueriesSpec
<1>1. Init => IngestInit /\ LatencyInit /\ QueriesInit
  BY DEF Init
<1>2. [Next]_<<ingestVars, latencyVars, queriesVars, part>>
         => [IngestNext]_ingestVars /\ [LatencyNext]_latencyVars /\ [QueriesNext]_queriesVars
  BY DEF Next
<1>3. QED BY <1>1, <1>2, PTL DEF Spec, IngestSpec, LatencySpec, QueriesSpec

(* What an admin is told of latencies is true where it is meant to be      *)
(* exact: a window within the retention of the samples, or of days that    *)
(* are over and rolled up, misses no stored sample; and a chart of any     *)
(* window has the samples of the summary beside it, each in one bucket     *)
(* (src/backend/metrics/query_service.py).                         *)
THEOREM LatenciesAnswered == Spec => []LatencyAnswersAgree
<1>1. LatencyInv => LatencyAnswersAgree
  BY Exact, ChartAgrees DEF LatencyAnswersAgree
<1>2. QED BY <1>1, PartsOf, LatencyInvariance, PTL

(* Whatever window a question names that is not refused: it has a length,  *)
(* its totals, its top rows, its charts and the window before it split the *)
(* same counters -- but the chart of one event is empty, and exactly so,   *)
(* if the offset of the times given is no multiple of its resolution --;   *)
(* no funnel passes on more than came in, and only gauges that were        *)
(* sampled are shown (src/backend/metrics/query_service.py).               *)
THEOREM CountersAnswered == Spec => []CounterAnswersAgree
<1>1. QueriesTypeOK => CounterAnswersAgree
  BY ReportsAre DEF CounterAnswersAgree
<1>2. QED BY <1>1, PartsOf, QueriesTypes, PTL
=============================================================================
