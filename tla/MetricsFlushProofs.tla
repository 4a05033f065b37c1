------------------------- MODULE MetricsFlushProofs -------------------------
(***************************************************************************)
(* Theorems about MetricsFlush, for any sets of keys, lists and runs, any  *)
(* cap and any bounds: what is stored is stored once, and nothing is lost  *)
(* but for the causes the properties name.                                 *)
(*                                                                         *)
(* IInv is about the counters whatever overlaps, and about the latency     *)
(* samples until a lock is outlived.  Each increment and each sample is in *)
(* one place at most: in Redis, in the memory of one run, or stored.       *)
(***************************************************************************)
EXTENDS MetricsFlush, FiniteSetTheorems, TLAPS

\* The values of the variables that the argument is about.
Shape ==
    /\ counter \in [Keys -> SUBSET Events] /\ recorded \in [Keys -> 0..MaxEvents]
    /\ list \in [Lists -> SUBSET Samples] /\ draining \in [Lists -> SUBSET Samples]
    /\ lock \in BOOLEAN /\ overran \in BOOLEAN /\ intact \in BOOLEAN
    /\ stored \in [Keys -> [Events -> Nat]]
    /\ kept \in [Samples -> Nat]
    /\ at \in [Runs -> Stages]
    /\ rows \in [Runs -> [Keys -> SUBSET Events]]
    /\ holding \in [Runs -> Lists \union {None}]
    /\ samples \in [Runs -> SUBSET Samples]
    /\ pushed \in 0..MaxSamples

\* A run holds rows until it has committed them, and samples until it ends.
HoldsInTime ==
    \A w \in Runs : /\ at[w] # "counters" => \A k \in Keys : rows[w][k] = {}
                    /\ at[w] \in {"idle", "counters"} => samples[w] = {}
                    /\ at[w] \in {"renamed", "read"} => holding[w] \in Lists

\* An increment is in one place at most, and only if it was made.
CountedOnePlace ==
    \A k \in Keys, i \in Events :
        /\ stored[k][i] <= 1
        /\ Counted(k, i) => i <= recorded[k]
        /\ stored[k][i] > 0 => i \notin counter[k] /\ \A w \in Runs : i \notin rows[w][k]
        /\ i \in counter[k] => \A w \in Runs : i \notin rows[w][k]
        /\ \A v, w \in Runs : i \in rows[v][k] /\ i \in rows[w][k] => v = w

\* Until a lock is outlived, one run is active at most, and the lock is there.
OneActive ==
    /\ \A w \in Runs : Active(w) => lock
    /\ \A v, w \in Runs : Active(v) /\ Active(w) => v = w

\* A sample is in one place at most, but for the time in which a run has read
\* a list and not yet deleted it, and only if it was pushed.
SampleOnePlace ==
    \A s \in Samples :
        /\ kept[s] <= 1
        /\ Somewhere(s) => s <= pushed
        /\ kept[s] > 0 => /\ \A l \in Lists : s \notin list[l] /\ s \notin draining[l]
                          /\ \A w \in Runs : s \notin samples[w]
        /\ \A l \in Lists : s \in list[l] =>
              /\ \A m \in Lists : s \notin draining[m] /\ (s \in list[m] => l = m)
              /\ \A w \in Runs : s \notin samples[w]
        /\ \A l, m \in Lists : s \in draining[l] /\ s \in draining[m] => l = m
        /\ \A l \in Lists, w \in Runs : s \in draining[l] /\ s \in samples[w] =>
              at[w] = "read" /\ holding[w] = l

\* As long as nothing went wrong, what is under <list>:draining is in the
\* hands of the run that has renamed it there, and is read before it is deleted.
InHand ==
    /\ \A l \in Lists : draining[l] # {} =>
          \E w \in Runs : at[w] \in {"renamed", "read"} /\ holding[w] = l
    /\ \A w \in Runs : at[w] = "read" => draining[holding[w]] \subseteq samples[w]

\* No increment and no sample is missing.
AllCounted == \A k \in Keys : \A i \in 1..recorded[k] : Counted(k, i)
AllSomewhere == \A s \in 1..pushed : Somewhere(s)

IInv == /\ Shape /\ HoldsInTime /\ CountedOnePlace
        /\ intact => AllCounted
        /\ ~overran => OneActive /\ SampleOnePlace
        /\ ~overran /\ intact => InHand /\ AllSomewhere

LEMMA InitIInv == Init => IInv
<1> SUFFICES ASSUME Init PROVE IInv
  OBVIOUS
<1> USE DEF Init, Nothing
<1>1. Shape
  <2>1. 0 \in 0..MaxEvents /\ 0 \in 0..MaxSamples
    BY BoundsAssumption
  <2>2. /\ counter \in [Keys -> SUBSET Events] /\ recorded \in [Keys -> 0..MaxEvents]
        /\ rows \in [Runs -> [Keys -> SUBSET Events]]
    BY <2>1
  <2>3. stored \in [Keys -> [Events -> Nat]] /\ kept \in [Samples -> Nat]
    OBVIOUS
  <2>4. /\ list \in [Lists -> SUBSET Samples] /\ draining \in [Lists -> SUBSET Samples]
        /\ samples \in [Runs -> SUBSET Samples]
    OBVIOUS
  <2>5. at \in [Runs -> Stages] /\ holding \in [Runs -> Lists \union {None}]
    BY DEF Stages
  <2>6. QED BY <2>1, <2>2, <2>3, <2>4, <2>5 DEF Shape
<1>2. HoldsInTime /\ OneActive /\ InHand
  BY DEF HoldsInTime, OneActive, Active, InHand
<1>3. CountedOnePlace /\ AllCounted
  BY DEF CountedOnePlace, Counted, AllCounted
<1>4. SampleOnePlace /\ AllSomewhere
  BY DEF SampleOnePlace, Somewhere, AllSomewhere
<1>5. QED BY <1>1, <1>2, <1>3, <1>4 DEF IInv

\* A web worker counts: the increment is new, so it is nowhere else.
LEMMA RecordKeeps == ASSUME IInv, NEW k \in Keys, record(k) PROVE IInv'
<1> USE DEF Shape, record, redis, postgres, memory, history
<1>0. Shape /\ HoldsInTime /\ CountedOnePlace
  BY DEF IInv
<1>1. Shape'
  <2>1. recorded[k] + 1 \in 1..MaxEvents
    BY <1>0, BoundsAssumption
  <2>2. recorded' \in [Keys -> 0..MaxEvents] /\ recorded'[k] = recorded[k] + 1
    BY <1>0, <2>1
  <2>3. counter' \in [Keys -> SUBSET Events]
    BY <1>0, <2>2 DEF Events
  <2>4. QED BY <1>0, <2>2, <2>3
<1>2. HoldsInTime'
  BY <1>0 DEF HoldsInTime
<1>3. CountedOnePlace'
  BY <1>0 DEF CountedOnePlace, Counted, Events
<1>4. (intact => AllCounted)'
  BY DEF IInv, AllCounted, Counted, Events
<1>5. (~overran => OneActive)'
  BY DEF IInv, OneActive, Active
<1>6. (~overran => SampleOnePlace)'
  BY DEF IInv, SampleOnePlace, Somewhere
<1>7. (~overran /\ intact => InHand)'
  BY DEF IInv, InHand
<1>8. (~overran /\ intact => AllSomewhere)'
  BY DEF IInv, Somewhere, AllSomewhere
<1>9. QED BY <1>1, <1>2, <1>3, <1>4, <1>5, <1>6, <1>7, <1>8 DEF IInv

\* A web worker pushes a sample, and the oldest may fall off the list.
LEMMA RecordDurationKeeps == ASSUME IInv, NEW l \in Lists, record_duration(l) PROVE IInv'
<1> USE DEF Shape, record_duration, redis, postgres, memory, history
<1>0. Shape /\ HoldsInTime /\ CountedOnePlace
  BY DEF IInv
<1>1. Shape'
  <2>1. pushed' \in 1..MaxSamples
    BY <1>0, BoundsAssumption
  <2>2. list' \in [Lists -> SUBSET Samples]
    BY <1>0, <2>1 DEF Samples
  <2>3. QED BY <1>0, <2>1, <2>2
<1>2. HoldsInTime'
  BY <1>0 DEF HoldsInTime
<1>3. CountedOnePlace'
  BY <1>0 DEF CountedOnePlace, Counted
<1>4. (intact => AllCounted)'
  BY DEF IInv, AllCounted, Counted
<1>5. (~overran => OneActive)'
  BY DEF IInv, OneActive, Active
<1>6. (~overran => SampleOnePlace)'
  BY DEF IInv, SampleOnePlace, Somewhere, Samples
<1>7. (~overran /\ intact => InHand)'
  BY DEF IInv, InHand
<1>8. (~overran /\ intact => AllSomewhere)'
  <2> SUFFICES ASSUME ~overran', intact' PROVE AllSomewhere'
    OBVIOUS
  <2>1. Cardinality(list[l]) < CAP
    OBVIOUS
  <2>2. Cardinality(list[l]) \in Nat
    <3>1. IsFiniteSet(Samples)
      BY BoundsAssumption, FS_Interval DEF Samples
    <3>2. list[l] \subseteq Samples
      BY <1>0
    <3>3. QED BY <3>1, <3>2, FS_Subset, FS_CardinalityType
  <2>3. \A m \in Lists : list[m] \subseteq list'[m]
    BY <2>1, CapAssumption
  <2>4. pushed' \in list'[l]
    BY <1>0
  <2>5. AllSomewhere
    BY DEF IInv
  <2>6. QED BY <1>0, <2>3, <2>5 DEF AllSomewhere, Somewhere
<1>9. QED BY <1>1, <1>2, <1>3, <1>4, <1>5, <1>6, <1>7, <1>8 DEF IInv

\* A run takes the lock: until a lock is outlived nobody else is active.
LEMMA StartKeeps == ASSUME IInv, NEW w \in Runs, Start(w) PROVE IInv'
<1> USE DEF Shape, Start, redis, postgres, memory, history
<1>0. Shape /\ HoldsInTime /\ CountedOnePlace
  BY DEF IInv
<1>1. Shape'
  BY <1>0 DEF Stages
<1>2. HoldsInTime'
  BY <1>0 DEF HoldsInTime
<1>3. CountedOnePlace'
  BY <1>0 DEF CountedOnePlace, Counted
<1>4. (intact => AllCounted)'
  BY DEF IInv, AllCounted, Counted
<1>5. (~overran => OneActive)'
  BY DEF IInv, OneActive, Active
<1>6. (~overran => SampleOnePlace)'
  BY DEF IInv, SampleOnePlace, Somewhere
<1>7. (~overran /\ intact => InHand)'
  <2> SUFFICES ASSUME ~overran', intact' PROVE InHand'
    OBVIOUS
  <2>1. InHand
    BY DEF IInv
  <2>2. \A v \in Runs : /\ at[v] \in {"renamed", "read"} => at'[v] = at[v]
                        /\ at'[v] = "read" => at[v] = "read"
    BY <1>0
  <2>3. UNCHANGED <<draining, holding, samples>>
    OBVIOUS
  <2>4. \A l \in Lists : draining'[l] # {} =>
           \E v \in Runs : at'[v] \in {"renamed", "read"} /\ holding'[v] = l
    BY <2>1, <2>2, <2>3 DEF InHand
  <2>5. QED BY <2>1, <2>2, <2>3, <2>4 DEF InHand
<1>8. (~overran /\ intact => AllSomewhere)'
  BY DEF IInv, Somewhere, AllSomewhere
<1>9. QED BY <1>1, <1>2, <1>3, <1>4, <1>5, <1>6, <1>7, <1>8 DEF IInv

\* GETDEL moves the increments of a key from Redis into one run.
LEMMA DrainKeeps == ASSUME IInv, NEW w \in Runs, NEW k \in Keys, Drain(w, k) PROVE IInv'
<1> USE DEF Shape, Drain, redis, postgres, memory, history
<1>0. Shape /\ HoldsInTime /\ CountedOnePlace
  BY DEF IInv
<1>1. Shape'
  BY <1>0
<1>2. HoldsInTime'
  BY <1>0 DEF HoldsInTime
<1>3. CountedOnePlace'
  BY <1>0 DEF CountedOnePlace, Counted
<1>4. (intact => AllCounted)'
  BY DEF IInv, AllCounted, Counted
<1>5. (~overran => OneActive)'
  BY DEF IInv, OneActive, Active
<1>6. (~overran => SampleOnePlace)'
  BY DEF IInv, SampleOnePlace, Somewhere
<1>7. (~overran /\ intact => InHand)'
  BY DEF IInv, InHand
<1>8. (~overran /\ intact => AllSomewhere)'
  BY DEF IInv, Somewhere, AllSomewhere
<1>9. QED BY <1>2, <1>3, <1>4, <1>5, <1>6, <1>7, <1>8 DEF IInv

\* The commit moves the increments of a run into PostgreSQL.
LEMMA CommitCountersKeeps == ASSUME IInv, NEW w \in Runs, CommitCounters(w) PROVE IInv'
<1> USE DEF Shape, CommitCounters, ToLists, redis, postgres, memory, history
<1>0. Shape /\ HoldsInTime /\ CountedOnePlace
  BY DEF IInv
<1>1. Shape'
  <2>1. stored' \in [Keys -> [Events -> Nat]]
    BY <1>0
  <2>2. at' \in [Runs -> Stages]
    BY <1>0 DEF Stages
  <2>3. rows' \in [Runs -> [Keys -> SUBSET Events]]
    BY <1>0 DEF Nothing
  <2>4. QED BY <1>0, <2>2, <2>3
<1>2. HoldsInTime'
  BY <1>0 DEF HoldsInTime, Nothing
<1>3. CountedOnePlace'
  <2>1. \A k \in Keys, i \in Events : stored'[k][i] = IF i \in rows[w][k] THEN stored[k][i] + 1 ELSE stored[k][i]
    OBVIOUS
  <2>2. \A v \in Runs, k \in Keys : rows'[v][k] = IF v = w THEN {} ELSE rows[v][k]
    BY <1>0 DEF Nothing
  <2>3. \A k \in Keys, i \in Events : stored[k][i] \in Nat
    BY <1>0
  <2>4. UNCHANGED <<counter, recorded>>
    OBVIOUS
  <2>5. \A k \in Keys, i \in Events : Counted(k, i)' => Counted(k, i)
    BY <2>2 DEF Counted
  <2>6. QED BY <1>0, <2>2, <2>5 DEF CountedOnePlace
<1>4. (intact => AllCounted)'
  <2>1. \A k \in Keys, i \in Events : stored'[k][i] = IF i \in rows[w][k] THEN stored[k][i] + 1 ELSE stored[k][i]
    OBVIOUS
  <2>2. \A v \in Runs, k \in Keys : v # w => rows'[v][k] = rows[v][k]
    OBVIOUS
  <2>3. \A k \in Keys, i \in Events : stored[k][i] \in Nat
    BY <1>0
  <2>4. \A k \in Keys, i \in Events : Counted(k, i) => Counted(k, i)'
    BY <2>3 DEF Counted
  <2>5. \A k \in Keys : 1..recorded[k] \subseteq Events
    BY <1>0, BoundsAssumption DEF Events
  <2>6. QED BY <2>4, <2>5 DEF IInv, AllCounted
<1>5. (~overran => OneActive)'
  BY DEF IInv, OneActive, Active
<1>6. (~overran => SampleOnePlace)'
  BY DEF IInv, SampleOnePlace, Somewhere
<1>7. (~overran /\ intact => InHand)'
  BY DEF IInv, OneActive, InHand
<1>8. (~overran /\ intact => AllSomewhere)'
  BY DEF IInv, Somewhere, AllSomewhere
<1>9. QED BY <1>1, <1>2, <1>3, <1>4, <1>5, <1>6, <1>7, <1>8 DEF IInv

\* The run forgets what it has drained: intact no longer holds.
LEMMA RefuseCountersKeeps == ASSUME IInv, NEW w \in Runs, RefuseCounters(w) PROVE IInv'
<1> USE DEF Shape, RefuseCounters, Finish, redis, postgres, memory, history
<1>0. Shape /\ HoldsInTime /\ CountedOnePlace
  BY DEF IInv
<1>1. Shape'
  BY <1>0 DEF Nothing, Stages
<1>2. HoldsInTime'
  BY <1>0 DEF HoldsInTime, Nothing
<1>3. CountedOnePlace'
  BY <1>0 DEF CountedOnePlace, Counted, Nothing
<1>4. (intact => AllCounted)'
  OBVIOUS
<1>5. (~overran => OneActive)'
  BY DEF IInv, OneActive, Active
<1>6. (~overran => SampleOnePlace)'
  BY DEF IInv, SampleOnePlace, Somewhere
<1>7. (~overran /\ intact => InHand)'
  OBVIOUS
<1>8. (~overran /\ intact => AllSomewhere)'
  OBVIOUS
<1>9. QED BY <1>1, <1>2, <1>3, <1>5, <1>6 DEF IInv

\* The list goes under another name, where nothing is left when all is well.
LEMMA RenameKeeps == ASSUME IInv, NEW w \in Runs, NEW l \in Lists, Rename(w, l) PROVE IInv'
<1> USE DEF Shape, Rename, redis, postgres, memory, history
<1>0. Shape /\ HoldsInTime /\ CountedOnePlace
  BY DEF IInv
<1>1. Shape'
  BY <1>0 DEF Stages
<1>2. HoldsInTime'
  BY <1>0 DEF HoldsInTime
<1>3. CountedOnePlace'
  BY <1>0 DEF CountedOnePlace, Counted
<1>4. (intact => AllCounted)'
  BY DEF IInv, AllCounted, Counted
<1>5. (~overran => OneActive)'
  BY DEF IInv, OneActive, Active
<1>6. (~overran => SampleOnePlace)'
  BY DEF IInv, SampleOnePlace, Somewhere
<1>7. (~overran /\ intact => InHand)'
  <2> SUFFICES ASSUME ~overran', intact' PROVE InHand'
    OBVIOUS
  <2>1. \A v \in Runs : v # w => at[v] = "idle"
    BY DEF IInv, OneActive, Active
  <2>2. \A m \in Lists : draining[m] = {}
    BY <2>1 DEF IInv, InHand
  <2>3. at'[w] = "renamed" /\ holding'[w] = l
    BY <1>0
  <2>4. \A m \in Lists : m # l => draining'[m] = {}
    BY <2>2
  <2>5. \A v \in Runs : at'[v] # "read"
    BY <2>1
  <2>6. QED BY <2>3, <2>4, <2>5 DEF InHand
<1>8. (~overran /\ intact => AllSomewhere)'
  <2> SUFFICES ASSUME ~overran', intact' PROVE AllSomewhere'
    OBVIOUS
  <2>1. \A v \in Runs : v # w => at[v] = "idle"
    BY DEF IInv, OneActive, Active
  <2>2. \A m \in Lists : draining[m] = {}
    BY <2>1 DEF IInv, InHand
  <2>3. \A m \in Lists : list[m] \subseteq list'[m] \union draining'[m]
    BY <1>0
  <2>4. QED BY <2>2 DEF IInv, AllSomewhere, Somewhere
<1>9. QED BY <1>1, <1>2, <1>3, <1>4, <1>5, <1>6, <1>7, <1>8 DEF IInv

\* Nothing is moved.
LEMMA SkipGoneKeeps == ASSUME IInv, NEW w \in Runs, NEW l \in Lists, SkipGone(w, l) PROVE IInv'
<1> USE DEF Shape, SkipGone, redis, postgres, memory, history
<1>0. Shape /\ HoldsInTime /\ CountedOnePlace
  BY DEF IInv
<1>1. Shape'
  BY <1>0
<1>2. HoldsInTime'
  BY <1>0 DEF HoldsInTime
<1>3. CountedOnePlace'
  BY <1>0 DEF CountedOnePlace, Counted
<1>4. (intact => AllCounted)'
  BY DEF IInv, AllCounted, Counted
<1>5. (~overran => OneActive)'
  BY DEF IInv, OneActive, Active
<1>6. (~overran => SampleOnePlace)'
  BY DEF IInv, SampleOnePlace, Somewhere
<1>7. (~overran /\ intact => InHand)'
  BY DEF IInv, InHand
<1>8. (~overran /\ intact => AllSomewhere)'
  BY DEF IInv, Somewhere, AllSomewhere
<1>9. QED BY <1>2, <1>3, <1>4, <1>5, <1>6, <1>7, <1>8 DEF IInv

\* The run now has what is under the other name too.
LEMMA ReadDrainingKeeps == ASSUME IInv, NEW w \in Runs, ReadDraining(w) PROVE IInv'
<1> USE DEF Shape, ReadDraining, redis, postgres, memory, history
<1>0. Shape /\ HoldsInTime /\ CountedOnePlace
  BY DEF IInv
<1>1. Shape'
  <2>1. draining[holding[w]] \subseteq Samples
    BY <1>0 DEF HoldsInTime
  <2>2. samples' \in [Runs -> SUBSET Samples] /\ at' \in [Runs -> Stages]
    BY <1>0, <2>1 DEF Stages
  <2>3. QED BY <1>0, <2>2
<1>2. HoldsInTime'
  BY <1>0 DEF HoldsInTime
<1>3. CountedOnePlace'
  BY <1>0 DEF CountedOnePlace, Counted
<1>4. (intact => AllCounted)'
  BY DEF IInv, AllCounted, Counted
<1>5. (~overran => OneActive)'
  BY DEF IInv, OneActive, Active
<1>6. (~overran => SampleOnePlace)'
  BY DEF IInv, HoldsInTime, SampleOnePlace, Somewhere
<1>7. (~overran /\ intact => InHand)'
  BY DEF IInv, InHand
<1>8. (~overran /\ intact => AllSomewhere)'
  BY DEF IInv, Somewhere, AllSomewhere
<1>9. QED BY <1>1, <1>2, <1>3, <1>4, <1>5, <1>6, <1>7, <1>8 DEF IInv

\* What is deleted has been read.
LEMMA DeleteDrainingKeeps == ASSUME IInv, NEW w \in Runs, DeleteDraining(w) PROVE IInv'
<1> USE DEF Shape, DeleteDraining, redis, postgres, memory, history
<1>0. Shape /\ HoldsInTime /\ CountedOnePlace
  BY DEF IInv
<1>1. Shape'
  BY <1>0 DEF Stages
<1>2. HoldsInTime'
  BY <1>0 DEF HoldsInTime
<1>3. CountedOnePlace'
  BY <1>0 DEF CountedOnePlace, Counted
<1>4. (intact => AllCounted)'
  BY DEF IInv, AllCounted, Counted
<1>5. (~overran => OneActive)'
  BY DEF IInv, OneActive, Active
<1>6. (~overran => SampleOnePlace)'
  BY DEF IInv, SampleOnePlace, Somewhere
<1>7. (~overran /\ intact => InHand)'
  <2> SUFFICES ASSUME ~overran', intact' PROVE InHand'
    OBVIOUS
  <2>1. \A v \in Runs : v # w => at[v] = "idle"
    BY DEF IInv, OneActive, Active
  <2>2. \A m \in Lists : m # holding[w] => draining[m] = {}
    BY <2>1 DEF IInv, InHand
  <2>3. \A m \in Lists : draining'[m] = {}
    BY <1>0, <2>2
  <2>4. \A v \in Runs : at'[v] # "read"
    BY <1>0, <2>1
  <2>5. QED BY <2>3, <2>4 DEF InHand
<1>8. (~overran /\ intact => AllSomewhere)'
  <2> SUFFICES ASSUME ~overran', intact' PROVE AllSomewhere'
    OBVIOUS
  <2>1. draining[holding[w]] \subseteq samples[w]
    BY DEF IInv, InHand
  <2>2. \A m \in Lists : m # holding[w] => draining'[m] = draining[m]
    OBVIOUS
  <2>3. QED BY <2>1 DEF IInv, AllSomewhere, Somewhere
<1>9. QED BY <1>1, <1>2, <1>3, <1>4, <1>5, <1>6, <1>7, <1>8 DEF IInv

\* The commit moves the samples of a run into PostgreSQL.
LEMMA CommitSamplesKeeps == ASSUME IInv, NEW w \in Runs, CommitSamples(w) PROVE IInv'
<1> USE DEF Shape, CommitSamples, Finish, redis, postgres, memory, history
<1>0. Shape /\ HoldsInTime /\ CountedOnePlace
  BY DEF IInv
<1>1. Shape'
  BY <1>0 DEF Nothing, Stages
<1>2. HoldsInTime'
  BY <1>0 DEF HoldsInTime, Nothing
<1>3. CountedOnePlace'
  BY <1>0 DEF CountedOnePlace, Counted, Nothing
<1>4. (intact => AllCounted)'
  BY DEF IInv, AllCounted, Counted, HoldsInTime
<1>5. (~overran => OneActive)'
  BY DEF IInv, OneActive, Active
<1>6. (~overran => SampleOnePlace)'
  BY <1>0 DEF IInv, OneActive, Active, HoldsInTime, SampleOnePlace, Somewhere
<1>7. (~overran /\ intact => InHand)'
  <2> SUFFICES ASSUME ~overran', intact' PROVE InHand'
    OBVIOUS
  <2>1. \A v \in Runs : v # w => at[v] = "idle"
    BY DEF IInv, OneActive, Active
  <2>2. \A m \in Lists : draining[m] = {}
    BY <2>1 DEF IInv, InHand
  <2>3. \A v \in Runs : at'[v] # "read"
    BY <2>1
  <2>4. QED BY <2>2, <2>3 DEF InHand
<1>8. (~overran /\ intact => AllSomewhere)'
  <2> SUFFICES ASSUME ~overran', intact' PROVE AllSomewhere'
    OBVIOUS
  <2>1. \A s \in Samples : kept[s] \in Nat /\ kept'[s] = IF s \in samples[w] THEN kept[s] + 1 ELSE kept[s]
    BY <1>0
  <2>2. \A v \in Runs : v # w => samples'[v] = samples[v]
    OBVIOUS
  <2>3. \A s \in Samples : Somewhere(s) => Somewhere(s)'
    BY <2>1 DEF Somewhere
  <2>4. 1..pushed \subseteq Samples
    BY <1>0, BoundsAssumption DEF Samples
  <2>5. QED BY <2>3, <2>4 DEF IInv, AllSomewhere
<1>9. QED BY <1>1, <1>2, <1>3, <1>4, <1>5, <1>6, <1>7, <1>8 DEF IInv

\* The run forgets all it has.
LEMMA FailKeeps == ASSUME IInv, NEW w \in Runs, Fail(w) PROVE IInv'
<1> USE DEF Shape, Fail, Finish, redis, postgres, memory, history
<1>0. Shape /\ HoldsInTime /\ CountedOnePlace
  BY DEF IInv
<1>1. Shape'
  BY <1>0 DEF Nothing, Stages
<1>2. HoldsInTime'
  BY <1>0 DEF HoldsInTime, Nothing
<1>3. CountedOnePlace'
  BY <1>0 DEF CountedOnePlace, Counted, Nothing
<1>4. (intact => AllCounted)'
  OBVIOUS
<1>5. (~overran => OneActive)'
  BY DEF IInv, OneActive, Active
<1>6. (~overran => SampleOnePlace)'
  BY DEF IInv, SampleOnePlace, Somewhere
<1>7. (~overran /\ intact => InHand)'
  OBVIOUS
<1>8. (~overran /\ intact => AllSomewhere)'
  OBVIOUS
<1>9. QED BY <1>1, <1>2, <1>3, <1>5, <1>6 DEF IInv

\* The lock goes; if a run is active it is outlived.
LEMMA ReleaseLockKeeps == ASSUME IInv, ReleaseLock PROVE IInv'
<1> USE DEF Shape, ReleaseLock, LockExpires, redis, postgres, memory, history
<1>0. Shape /\ HoldsInTime /\ CountedOnePlace
  BY DEF IInv
<1>1. Shape'
  BY <1>0
<1>2. HoldsInTime'
  BY <1>0 DEF HoldsInTime
<1>3. CountedOnePlace'
  BY <1>0 DEF CountedOnePlace, Counted
<1>4. (intact => AllCounted)'
  BY DEF IInv, AllCounted, Counted
<1>5. (~overran => OneActive)'
  BY DEF OneActive, Active
<1>6. (~overran => SampleOnePlace)'
  BY DEF IInv, SampleOnePlace, Somewhere
<1>7. (~overran /\ intact => InHand)'
  BY DEF IInv, InHand
<1>8. (~overran /\ intact => AllSomewhere)'
  BY DEF IInv, Somewhere, AllSomewhere
<1>9. QED BY <1>2, <1>3, <1>4, <1>5, <1>6, <1>7, <1>8 DEF IInv

\* Keys go: what is left was there.
LEMMA ExpireKeeps == ASSUME IInv, Expire PROVE IInv'
<1> USE DEF Shape, Expire, redis, postgres, memory, history
<1>0. Shape /\ HoldsInTime /\ CountedOnePlace
  BY DEF IInv
<1>1. Shape'
  BY <1>0
<1>2. HoldsInTime'
  BY <1>0 DEF HoldsInTime
<1>3. CountedOnePlace'
  BY <1>0 DEF CountedOnePlace, Counted
<1>4. (intact => AllCounted)'
  OBVIOUS
<1>5. (~overran => OneActive)'
  BY DEF IInv, OneActive, Active
<1>6. (~overran => SampleOnePlace)'
  <2>1. \A l \in Lists : list'[l] \subseteq list[l] /\ draining'[l] \subseteq draining[l]
    BY <1>0
  <2>2. UNCHANGED <<kept, samples, at, holding, pushed, overran>>
    OBVIOUS
  <2>3. \A s : Somewhere(s)' => Somewhere(s)
    BY <2>1 DEF Somewhere
  <2> HIDE DEF Expire
  <2>4. QED BY <2>1, <2>2, <2>3 DEF IInv, SampleOnePlace
<1>7. (~overran /\ intact => InHand)'
  OBVIOUS
<1>8. (~overran /\ intact => AllSomewhere)'
  OBVIOUS
<1>9. QED BY <1>2, <1>3, <1>5, <1>6 DEF IInv

-----------------------------------------------------------------------------
LEMMA IInvStep == IInv /\ [Next]_vars => IInv'
<1> SUFFICES ASSUME IInv, [Next]_vars PROVE IInv'
  OBVIOUS
<1>1. CASE UNCHANGED vars
  <2> USE <1>1 DEF vars, redis, postgres, memory, history
  <2>1. Shape' /\ HoldsInTime' /\ CountedOnePlace'
    BY DEF IInv, Shape, HoldsInTime, CountedOnePlace, Counted
  <2>2. (intact => AllCounted)'
    BY DEF IInv, AllCounted, Counted
  <2>3. (~overran => OneActive /\ SampleOnePlace)'
    BY DEF IInv, OneActive, Active, SampleOnePlace, Somewhere
  <2>4. (~overran /\ intact => InHand /\ AllSomewhere)'
    BY DEF IInv, InHand, AllSomewhere, Somewhere
  <2>5. QED BY <2>1, <2>2, <2>3, <2>4 DEF IInv
<1>2. ASSUME NEW w \in Runs, Progress(w) PROVE IInv'
  BY <1>2, DrainKeeps, CommitCountersKeeps, RefuseCountersKeeps, RenameKeeps, SkipGoneKeeps,
     ReadDrainingKeeps, DeleteDrainingKeeps, CommitSamplesKeeps DEF Progress
<1>3. QED BY <1>1, <1>2, RecordKeeps, RecordDurationKeeps, StartKeeps, FailKeeps, ReleaseLockKeeps,
   ExpireKeeps DEF Next

LEMMA Invariance == Spec => []IInv
BY InitIInv, IInvStep, PTL DEF Spec

\* StoredAtMostOnce is an invariant: whatever overlaps and fails an increment is
\* stored once at most, and so is a sample until a run outlives its lock
\* (run_flush and run_latency_flush in flush_metrics.py).
THEOREM EventsStoredOnce == Spec => []StoredAtMostOnce
<1>1. IInv => StoredAtMostOnce
  BY DEF IInv, CountedOnePlace, SampleOnePlace, StoredAtMostOnce
<1>2. QED BY <1>1, Invariance, PTL

\* NothingLost is an invariant: an increment or a sample that is nowhere any
\* more fell to a failure, the expiry of its key, the cap or an outlived lock.
THEOREM NothingIsLost == Spec => []NothingLost
<1>1. IInv => NothingLost
  BY DEF IInv, AllCounted, AllSomewhere, NothingLost
<1>2. QED BY <1>1, Invariance, PTL
=============================================================================
