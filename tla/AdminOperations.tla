--------------------------- MODULE AdminOperations ---------------------------
(***************************************************************************)
(* The jobs cron runs on the metrics and the buttons an admin has for the  *)
(* same work.                                                              *)
(*                                                                         *)
(* A job (scripts/flush_metrics.py every minute, scripts/sample_gauges.py  *)
(* every hour) does its work and then tells the operators about outages: a *)
(* flag in Redis is set at the first failure and cleared at the next       *)
(* success, and a message goes out at each change.  The flush takes a lock *)
(* that nobody releases; a run that finds it held ends at once, without    *)
(* error.  A run connects to PostgreSQL before it gets that far: one that  *)
(* cannot ends with neither flag nor message.                              *)
(*                                                                         *)
(* An admin's request (src/backend/admin/ops_service.py) does the work in  *)
(* the web container and records it in the audit log, in a transaction of  *)
(* its own; the purge of the audit log is recorded first.  Commands of     *)
(* Redis, commits and messages are steps of their own; processes may die   *)
(* between them, work may fail and messages may be lost.                   *)
(***************************************************************************)
EXTENDS Naturals, FiniteSets

CONSTANTS
    Crons,        \* cron's processes that may be alive at once
    Webs          \* requests of admins that may be served at once

Jobs == {"flush", "gauge"}
Ops  == {"flush", "gauge", "purge", "verify", "backup", "short_urls"}

VARIABLES
    job,          \* the job this behaviour is about: the two share no state
    held,         \* Redis: metrics:flush:lock is there
    notified,     \* Redis: the failure flag of the job is set
    cron,         \* where each run of the job by cron is
    web,          \* each request: where it is, its operation, what it has
                  \* done and what has happened to it
    \* History, which no action reads:
    worked,       \* how cron's last run ended, skipped ones aside
    told,         \* the last message that arrived
    doubled,      \* a message arrived twice in a row
    claim,        \* RECOVERED arrived when cron's last work had not succeeded
    muddled       \* what has disturbed the messages

opsVars == <<job, held, notified, cron, web, worked, told, doubled, claim, muddled>>
jobHistory == <<worked, told, doubled, claim, muddled>>

\* The worker died; the log refused a row; Redis did what it was asked, and
\* its answer was lost.
Mishaps == {"died", "refused", "unanswered"}

NoRequest == [pc |-> "over", op |-> "flush", effect |-> FALSE, row |-> FALSE,
              mishap |-> {}]

OpsTypeOK ==
    /\ job \in Jobs /\ held \in BOOLEAN /\ notified \in BOOLEAN
    /\ cron \in [Crons -> {"idle", "work", "mark", "clear", "FAILURE", "RECOVERED"}]
    /\ web \in [Webs -> [pc : {"record", "work", "audit", "over"}, op : Ops, effect : BOOLEAN,
                         row : BOOLEAN, mishap : SUBSET Mishaps]]
    /\ worked \in {"ok", "failed", "unconnected"}
    /\ told \in {"nothing", "FAILURE", "RECOVERED"}
    /\ doubled \in BOOLEAN /\ claim \in BOOLEAN
    /\ muddled \subseteq {"overlap", "lost", "skip"}

OpsInit ==
    /\ job \in Jobs /\ held = FALSE /\ notified = FALSE
    /\ cron = [c \in Crons |-> "idle"] /\ web = [w \in Webs |-> NoRequest]
    /\ worked = "ok" /\ told = "nothing"
    /\ doubled = FALSE /\ claim = FALSE /\ muddled = {}

----------------------------------------------------------------------------
(* The jobs of cron                                                        *)

Busy == {c \in Crons : cron[c] # "idle"}
To(c, pc) == cron' = [cron EXCEPT ![c] = pc]
Disturb(why) == muddled' = muddled \union {why}

StartJob(c) ==
    /\ cron[c] = "idle"
    /\ To(c, "work")
    /\ IF Busy = {} THEN UNCHANGED muddled ELSE Disturb("overlap")
    /\ UNCHANGED <<job, held, notified, web, worked, told, doubled, claim>>

(* PostgreSQL cannot be reached: the exception is logged, and passes by    *)
(* run_flush_job and run_sample_job, which are what tells of failures.     *)
_build_pg_conn_from_env(c) ==
    /\ cron[c] = "work"
    /\ worked' = "unconnected"
    /\ To(c, "idle")
    /\ UNCHANGED <<job, held, notified, web, told, doubled, claim, muddled>>

RunSwallowing(c) ==                    \* mutant: some errors are caught inside
    /\ cron[c] = "work"
    /\ ~(job = "flush" /\ held)
    /\ held' = (job = "flush")
    /\ \/ worked' \in {"ok", "failed"} /\ To(c, "clear")
       \/ worked' = "failed" /\ To(c, "mark")
    /\ UNCHANGED <<job, notified, web, told, doubled, claim, muddled>>

(* run_flush takes the lock before anything can fail; run_sample has none. *)
RunJob(c) ==
    /\ cron[c] = "work"
    /\ ~(job = "flush" /\ held)
    /\ held' = (job = "flush")
    /\ \/ worked' = "ok" /\ To(c, "clear")
       \/ worked' = "failed" /\ To(c, "mark")
    /\ UNCHANGED <<job, notified, web, told, doubled, claim, muddled>>

(* The lock is held: the run returns 0, which run_flush_job takes for a    *)
(* success.                                                                *)
SkipFlush(c) ==
    /\ cron[c] = "work" /\ job = "flush" /\ held
    /\ To(c, "clear")
    /\ Disturb("skip")
    /\ UNCHANGED <<job, held, notified, web, worked, told, doubled, claim>>

mark_failure_and_should_notify(c) ==
    /\ cron[c] = "mark"
    /\ notified' = TRUE
    /\ To(c, IF notified THEN "idle" ELSE "FAILURE")
    /\ UNCHANGED <<job, held, web, jobHistory>>

ClearNothing(c) ==                     \* mutant: the flag is read, not deleted
    /\ cron[c] = "clear"
    /\ To(c, IF notified THEN "RECOVERED" ELSE "idle")
    /\ UNCHANGED <<job, held, notified, web, jobHistory>>

clear_failure_and_should_notify_recovery(c) ==
    /\ cron[c] = "clear"
    /\ notified' = FALSE
    /\ To(c, IF notified THEN "RECOVERED" ELSE "idle")
    /\ UNCHANGED <<job, held, web, jobHistory>>

(* send never raises, and nobody looks at its exit code.                   *)
send(c) ==
    /\ cron[c] \in {"FAILURE", "RECOVERED"}
    /\ \/ /\ told' = cron[c]
          /\ doubled' = (doubled \/ told = cron[c])
          /\ claim' = (claim \/ (cron[c] = "RECOVERED" /\ worked # "ok"))
          /\ UNCHANGED muddled
       \/ /\ Disturb("lost")
          /\ UNCHANGED <<told, doubled, claim>>
    /\ To(c, "idle")
    /\ UNCHANGED <<job, held, notified, web, worked>>

(* A process dies, or Redis fails it between its work and its message.     *)
JobDies(c) ==
    /\ cron[c] # "idle"
    /\ To(c, "idle")
    /\ Disturb("lost")
    /\ UNCHANGED <<job, held, notified, web, worked, told, doubled, claim>>

LockExpires ==
    /\ held /\ held' = FALSE
    /\ UNCHANGED <<job, notified, cron, web, jobHistory>>

----------------------------------------------------------------------------
(* The requests of admins                                                  *)

AskPurgingFirst(w, op) ==              \* mutant: the purge is not recorded first
    /\ web[w].pc = "over"
    /\ web' = [web EXCEPT ![w] = [NoRequest EXCEPT !.op = op, !.pc = "work"]]
    /\ UNCHANGED <<job, held, notified, cron, jobHistory>>

(* Without a Redis in the configuration a request is refused at once (no   *)
(* step).  The purge starts with its record.                               *)
Ask(w, op) ==
    /\ web[w].pc = "over"
    /\ web' = [web EXCEPT ![w] = [NoRequest EXCEPT !.op = op,
                                     !.pc = IF op = "purge" THEN "record" ELSE "work"]]
    /\ UNCHANGED <<job, held, notified, cron, jobHistory>>

(* audit.record and the commit.  A row that is refused is only logged.     *)
Record(w, pc) ==
    \/ web' = [web EXCEPT ![w].pc = pc, ![w].row = TRUE]
    \/ web' = [web EXCEPT ![w].pc = pc, ![w].mishap = @ \union {"refused"}]

RecordPurge(w) ==
    /\ web[w].pc = "record"
    /\ Record(w, "work")
    /\ UNCHANGED <<job, held, notified, cron, jobHistory>>

(* The work, committed by what does it, with or without an effect.         *)
Done(w, op, pc, effect) ==
    /\ web[w].pc = "work" /\ web[w].op = op
    /\ web' = [web EXCEPT ![w].pc = pc, ![w].effect = effect]
    /\ UNCHANGED <<job, notified, cron, jobHistory>>

(* A flush that finds the lock held answers with a count of 0.             *)
trigger_metrics_flush(w) ==
    /\ \E effect \in {~held, FALSE} : Done(w, "flush", "audit", effect)
    /\ held' = TRUE

trigger_gauge_sample(w) ==
    /\ \E effect \in BOOLEAN : Done(w, "gauge", "audit", effect)
    /\ UNCHANGED held

(* Only a purge that fails is recorded a second time.                      *)
trigger_audit_purge(w) ==
    /\ Done(w, "purge", "over", TRUE) \/ Done(w, "purge", "audit", FALSE)
    /\ UNCHANGED held

trigger_verify_tables(w) ==
    /\ Done(w, "verify", "audit", FALSE)
    /\ UNCHANGED held

(* A request that is pending already or cannot be left is not recorded; nor *)
(* is one that was left if Redis's answer was lost.                        *)
request_backup(w) ==
    /\ \/ Done(w, "backup", "audit", TRUE) \/ Done(w, "backup", "over", FALSE)
       \/ /\ web[w].pc = "work" /\ web[w].op = "backup"
          /\ web' = [web EXCEPT ![w].pc = "over", ![w].effect = TRUE,
                                ![w].mishap = @ \union {"unanswered"}]
          /\ UNCHANGED <<job, notified, cron, jobHistory>>
    /\ UNCHANGED held

trigger_short_urls_sync(w) ==
    /\ \E effect \in BOOLEAN : Done(w, "short_urls", "audit", effect)
    /\ UNCHANGED held

(* The others are recorded at the end, their failure too.                  *)
RecordAfter(w) ==
    /\ web[w].pc = "audit"
    /\ Record(w, "over")
    /\ UNCHANGED <<job, held, notified, cron, jobHistory>>

(* The worker dies, or its commit fails.                                   *)
RequestDies(w) ==
    /\ web[w].pc # "over"
    /\ web' = [web EXCEPT ![w].pc = "over", ![w].mishap = @ \union {"died"}]
    /\ UNCHANGED <<job, held, notified, cron, jobHistory>>

JobsNext ==
    \/ LockExpires
    \/ \E c \in Crons : \/ StartJob(c) \/ RunJob(c) \/ SkipFlush(c) \/ send(c) \/ JobDies(c)
                        \/ _build_pg_conn_from_env(c)
                        \/ mark_failure_and_should_notify(c)
                        \/ clear_failure_and_should_notify_recovery(c)

RequestsNext(asked) ==
    \E w \in Webs : \/ \E op \in asked : Ask(w, op)
                    \/ RecordPurge(w) \/ RecordAfter(w) \/ RequestDies(w)
                    \/ trigger_metrics_flush(w) \/ trigger_gauge_sample(w)
                    \/ trigger_audit_purge(w) \/ trigger_verify_tables(w)
                    \/ request_backup(w) \/ trigger_short_urls_sync(w)

AdminSpec == OpsInit /\ [][JobsNext \/ RequestsNext(Ops)]_opsVars

----------------------------------------------------------------------------
(* Properties                                                              *)

(* Between runs, the operators have last been told of a failure exactly if *)
(* the last run of the job has failed -- unless two runs of it overlapped, *)
(* a process died, a message was lost or a run found the lock held; and    *)
(* unless that last run could not connect to PostgreSQL, of which they are *)
(* told nothing (flush_metrics.py:745-748, sample_gauges.py:308-315): what *)
(* they heard before it stands, and what the first run that connects does  *)
(* makes it true again.                                                    *)
AlertsTell ==
    Busy = {} /\ muddled = {} /\ worked # "unconnected" => (worked = "failed" <=> told = "FAILURE")

(* No message about a job arrives twice in a row, one per outage and one   *)
(* per recovery, unless runs overlapped or something was lost: neither     *)
(* admins' runs nor skipped ones make one.                                 *)
AlertsAlternate == doubled => muddled \intersect {"overlap", "lost"} # {}

(* What the operators hear: the state of the job once it is connected, and *)
(* each change of it once.                                                 *)
AlertsAreTrue == AlertsTell /\ AlertsAlternate

(* A recovery is reported in the middle of an outage only because runs     *)
(* overlapped, or because a run that found the lock held -- an admin's     *)
(* flush has just taken it -- passed for a success.                        *)
RecoveredIsTrue == claim => muddled \intersect {"overlap", "skip"} # {}

(* What an admin has set off is in the audit log, unless the worker died,  *)
(* the log refused the row, or the answer to the flag of a backup was      *)
(* lost; a purge, which is recorded first, is there even then if the log   *)
(* took it.                                                                *)
OnRecord ==
    \A w \in Webs : web[w].pc = "over" /\ web[w].effect /\ ~web[w].row =>
        IF web[w].op = "purge" THEN "refused" \in web[w].mishap ELSE web[w].mishap # {}
=============================================================================
