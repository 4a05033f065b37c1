---------------------------- MODULE BackupTrigger ----------------------------
(***************************************************************************)
(* How an admin's request reaches the backup pipeline.  The portal leaves  *)
(* a flag in the metrics Redis that lives for fifteen minutes (trigger_    *)
(* backup in src/backend/admin/ops_service.py); in the workflow container  *)
(* cron starts scripts/run_backup_if_requested.py every minute, which      *)
(* takes the flag away, then tries a lock that lives for an hour, and runs *)
(* the pipeline (BackupRuns) while it holds it.                            *)
(*                                                                         *)
(* Every command of Redis is a step of its own, which may fail, before or  *)
(* after it took effect.  The container may stop and restart, a poller may *)
(* die alone, and the metrics Redis outlives them.                         *)
(***************************************************************************)
EXTENDS Naturals

CONSTANTS
    Pollers,      \* processes of the poller that may be alive at once
    FLAG_TTL,     \* BACKUP_TRIGGER_TTL_SECONDS, in minutes (15)
    LOCK_TTL      \* TRIGGER_LOCK_TTL_SECONDS, in minutes (60)

ASSUME TTLAssumption == FLAG_TTL \in Nat \ {0} /\ LOCK_TTL \in Nat \ {0}

VARIABLES
    flag,         \* minutes left to the request, 0 when there is none
    lock,         \* minutes left to the lock, 0 when it is free
    polled,       \* cron has started the poller in this minute
    down,         \* the workflow container is stopped
    poller,       \* "idle", "consumed", "running" or "finished", or "abandoned":
                  \* the pipeline runs, the poller that started it is dead
    \* History, which no action reads:
    overran,      \* a lock has expired before its holder released it
    unread,       \* a poll that should have read the present request has failed
    mishap,       \* minutes until the last holder of a lock that died, or could
                  \* not release it, is as long ago as a lock lives
    fate          \* how the last request that is gone ended

triggerVars == <<flag, lock, polled, down, poller, overran, unread, mishap, fate>>

Fates == {"none", "run", "in flight", "orphaned", "lost",
          "aged while down", "aged unread", "aged while up"}

TriggerTypeOK ==
    /\ flag \in 0 .. FLAG_TTL /\ lock \in 0 .. LOCK_TTL /\ mishap \in 0 .. LOCK_TTL
    /\ polled \in BOOLEAN /\ down \in BOOLEAN
    /\ poller \in [Pollers -> {"idle", "consumed", "running", "finished", "abandoned"}]
    /\ overran \in BOOLEAN /\ unread \in BOOLEAN /\ fate \in Fates

TriggerInit ==
    /\ flag = 0 /\ lock = 0 /\ mishap = 0 /\ polled = FALSE /\ down = FALSE
    /\ poller = [p \in Pollers |-> "idle"]
    /\ overran = FALSE /\ unread = FALSE /\ fate = "none"

\* A run on request is in the pipeline, and one that is there or just left it.
Running(p) == poller[p] \in {"running", "abandoned"}
Holding(p) == Running(p) \/ poller[p] = "finished"

Becomes(p, pc) == poller' = [poller EXCEPT ![p] = pc]

(* SET NX EX: a second request finds the first pending and changes nothing.*)
trigger_backup ==
    /\ flag = 0
    /\ flag' = FLAG_TTL /\ unread' = FALSE
    /\ UNCHANGED <<lock, polled, down, poller, overran, mishap, fate>>

(* Cron starts a poller in every minute, whoever is still running: time    *)
(* stands still while all processes of the model are busy.                 *)
Polls(p) == ~down /\ ~polled /\ poller[p] = "idle" /\ polled' = TRUE

(* GETDEL.                                                                 *)
consume_trigger_request(p) ==
    /\ Polls(p)
    /\ flag' = 0
    /\ Becomes(p, IF flag = 0 THEN "idle" ELSE "consumed")
    /\ UNCHANGED <<lock, down, overran, unread, mishap, fate>>

(* ... that fails, with or without its effect.                             *)
PollFails(p) ==
    /\ Polls(p)
    /\ flag' \in {flag, 0}
    /\ unread' = (unread \/ flag # 0)
    /\ fate' = IF flag' = flag THEN fate ELSE "lost"
    /\ UNCHANGED <<lock, down, poller, overran, mishap>>

AcquireAlways(p) ==                    \* mutant: SET without NX
    /\ poller[p] = "consumed"
    /\ lock' = LOCK_TTL
    /\ Becomes(p, "running")
    /\ fate' = "run"
    /\ UNCHANGED <<flag, polled, down, overran, unread, mishap>>

(* SET NX EX.  The request was consumed, and is dropped if the lock is     *)
(* there: a triggered backup is in flight, or one has left it behind.      *)
acquire_trigger_lock(p) ==
    /\ poller[p] = "consumed"
    /\ \/ /\ lock = 0
          /\ lock' = LOCK_TTL
          /\ Becomes(p, "running")
          /\ fate' = "run"
       \/ /\ lock # 0
          /\ Becomes(p, "idle")
          /\ fate' = IF \E q \in Pollers : Holding(q) THEN "in flight" ELSE "orphaned"
          /\ UNCHANGED lock
    /\ UNCHANGED <<flag, polled, down, overran, unread, mishap>>

(* ... that fails: nobody holds a lock that it set.                        *)
AcquireFails(p) ==
    /\ poller[p] = "consumed"
    /\ Becomes(p, "idle")
    /\ fate' = "lost"
    /\ \/ UNCHANGED <<lock, mishap>>
       \/ lock = 0 /\ lock' = LOCK_TTL /\ mishap' = LOCK_TTL
    /\ UNCHANGED <<flag, polled, down, overran, unread>>

(* The pipeline ends, whatever its exit code, or its script is not there.  *)
run_backup_pipeline(p) ==
    /\ Running(p)
    /\ Becomes(p, IF poller[p] = "running" THEN "finished" ELSE "idle")
    /\ UNCHANGED <<flag, lock, polled, down, overran, unread, mishap, fate>>

(* The lock is deleted whoever holds it by now, unless Redis refuses.      *)
release_trigger_lock(p) ==
    /\ poller[p] = "finished"
    /\ \/ lock' = 0 /\ UNCHANGED mishap
       \/ UNCHANGED lock /\ mishap' = LOCK_TTL
    /\ Becomes(p, "idle")
    /\ UNCHANGED <<flag, polled, down, overran, unread, fate>>

(* The poller dies, with the pipeline it runs or without.                  *)
PollerDies(p) ==
    /\ \/ /\ poller[p] = "consumed"
          /\ Becomes(p, "idle") /\ fate' = "lost" /\ UNCHANGED mishap
       \/ /\ poller[p] \in {"running", "finished"}
          /\ Becomes(p, "idle") \/ (poller[p] = "running" /\ Becomes(p, "abandoned"))
          /\ mishap' = LOCK_TTL /\ UNCHANGED fate
    /\ UNCHANGED <<flag, lock, polled, down, overran, unread>>

Less(n) == IF n = 0 THEN 0 ELSE n - 1

(* A minute passes once cron has started its poller, if the container runs.*)
Minute ==
    /\ polled \/ down
    /\ polled' = FALSE
    /\ flag' = Less(flag) /\ lock' = Less(lock) /\ mishap' = Less(mishap)
    /\ overran' = (overran \/ (lock = 1 /\ \E p \in Pollers : Holding(p)))
    /\ fate' = IF flag # 1 THEN fate
               ELSE IF down THEN "aged while down"
               ELSE IF unread THEN "aged unread" ELSE "aged while up"
    /\ UNCHANGED <<down, poller, unread>>

(* The container stops with everything in it, and starts again.            *)
ContainerStops ==
    /\ ~down /\ down' = TRUE
    /\ poller' = [p \in Pollers |-> "idle"]
    /\ fate' = IF \E p \in Pollers : poller[p] = "consumed" THEN "lost" ELSE fate
    /\ mishap' = IF \E p \in Pollers : Holding(p) THEN LOCK_TTL ELSE mishap
    /\ UNCHANGED <<flag, lock, polled, overran, unread>>

ContainerStarts ==
    /\ down /\ down' = FALSE /\ polled' = FALSE
    /\ UNCHANGED <<flag, lock, poller, overran, unread, mishap, fate>>

TriggerNext ==
    \/ trigger_backup \/ Minute \/ ContainerStops \/ ContainerStarts
    \/ \E p \in Pollers : \/ consume_trigger_request(p) \/ acquire_trigger_lock(p)
                          \/ run_backup_pipeline(p) \/ release_trigger_lock(p)
                          \/ PollFails(p) \/ AcquireFails(p) \/ PollerDies(p)

TriggerSpec == TriggerInit /\ [][TriggerNext]_triggerVars

----------------------------------------------------------------------------
(* Properties                                                              *)

(* Two runs on request are in the pipeline at once only after one of them  *)
(* has outlived its lock, whatever dies, stops and restarts in between.    *)
ManualRunsExclude ==
    \A p, q \in Pollers : Running(p) /\ Running(q) /\ p # q => overran

(* A request ages out only while the workflow container is stopped, or if  *)
(* Redis failed a poll: while both run, a poll comes before the flag's     *)
(* time is over.                                                           *)
AgesOnlyUnread == fate # "aged while up"

(* A lock that no run on request holds, for which every request is taken   *)
(* and dropped, is gone a lock's life after the mishap that left it: that  *)
(* is what "a crashed poller can never wedge future triggers"              *)
(* (run_backup_if_requested.py:68-69) comes to.  Until then they are       *)
(* dropped, with a log that says a triggered backup is in flight.          *)
OrphanExpires == lock # 0 => lock <= mishap \/ \E p \in Pollers : Holding(p)

(* Requests reach the pipeline in time, one run on request at a time,      *)
(* unless something is named that kept them from it: another run, the      *)
(* container, Redis, or a lock whose holder met with a mishap within its   *)
(* life.                                                                   *)
RequestsAreServed == ManualRunsExclude /\ AgesOnlyUnread /\ OrphanExpires
=============================================================================
