----------------------------- MODULE BackupRuns -----------------------------
(***************************************************************************)
(* Runs of the backup pipeline of the workflow container,                  *)
(* src/scripts/daily-docker.sh.  A run dumps the database, compresses and  *)
(* verifies the dump, prunes old ones, archives the log of the day before, *)
(* copies both to the remote store, reports a digest and stamps the        *)
(* last-success sentinel.  BackupTrigger says when runs start; here they   *)
(* start at any time and overlap, as the nightly run takes no lock.        *)
(*                                                                         *)
(* A dump is named by the second its run starts in, a log archive by its   *)
(* day.  Cron starts the nightly run and the poller at the same moment, so *)
(* two runs may share a name.  The container may stop at any moment: what  *)
(* is on disk, in the remote store and in Redis stays.                     *)
(***************************************************************************)
EXTENDS Naturals, FiniteSets

CONSTANTS
    Runs,         \* the runs the model starts
    KEEP,         \* dumps that pruning keeps (--max-files 90)
    MaxDay,       \* the last day of the model
    NoRun

ASSUME KeepAssumption == KEEP \in Nat /\ KEEP > 1
ASSUME DaysAssumption == MaxDay \in Nat \ {0}
ASSUME RunsAssumption == IsFiniteSet(Runs) /\ NoRun \notin Runs

Days == 1 .. MaxDay

VARIABLES
    run,          \* what each run is doing, and with what (met: the other
                  \* runs it has met while dumping, for a bound)
    sql,          \* plain dumps on disk: name -> "none", "whole" or "mixed"
    gz,           \* compressed dumps: name -> "none", "whole", "mixed", "torn"
    newer,        \* their order by mtime: the dumps written after each one
    day,          \* the day it is
    logs,         \* the log of the day before each day: "live" or "gone"
    archive,      \* its archive: "none", "whole" or "torn"
    remote,       \* the copies in the remote store, by name and by day
    sentinel,     \* the last-success sentinel is stamped
    archived      \* (history) how many runs came to the log of each day,
                  \* 2 for more

backupVars == <<run, sql, gz, newer, day, logs, archive, remote,
                sentinel, archived>>

\* Names are those of runs: the first that began in the second.
New == [pc |-> "new", met |-> {}, name |-> NoRun, day |-> 1, db |-> FALSE,
        logs |-> FALSE, rdb |-> "skip", rlogs |-> "skip"]
Over(r) == [New EXCEPT !.pc = "over", !.name = run[r].name]

Dumps == {n \in Runs : gz[n] # "none"}

\* The mtimes order the dumps on disk.
Ordered ==
    /\ \A x, y \in Runs : y \in newer[x] =>
           x \in Dumps /\ y \in Dumps /\ x \notin newer[y]
    /\ \A x, y \in Dumps : x = y \/ x \in newer[y] \/ y \in newer[x]
    /\ \A x, y, z \in Runs : y \in newer[x] /\ z \in newer[y] => z \in newer[x]

BackupTypeOK ==
    /\ run \in [Runs -> [pc : {"new", "dump", "gzip", "verify", "logs", "ship",
                               "stamp", "over"},
                         met : SUBSET Runs,
                         name : Runs \union {NoRun}, day : Days,
                         db : BOOLEAN, logs : BOOLEAN,
                         rdb : {"skip", "ok", "fail"},
                         rlogs : {"skip", "ok", "fail"}]]
    /\ sql \in [Runs -> {"none", "whole", "mixed"}]
    /\ gz \in [Runs -> {"none", "whole", "mixed", "torn"}]
    /\ newer \in [Runs -> SUBSET Runs] /\ Ordered
    /\ day \in Days
    /\ logs \in [Days -> {"live", "gone"}]
    /\ archive \in [Days -> {"none", "whole", "torn"}]
    /\ sentinel \in BOOLEAN
    /\ archived \in [Days -> 0 .. 2]
    /\ remote \in [dump : [Runs -> {"none", "whole", "mixed", "torn"}],
                   log : [Days -> {"none", "whole", "torn"}]]

BackupInit ==
    /\ run = [r \in Runs |-> New]
    /\ sql = [n \in Runs |-> "none"] /\ gz = [n \in Runs |-> "none"]
    /\ newer = [n \in Runs |-> {}]
    /\ day = 1
    /\ logs = [d \in Days |-> "live"] /\ archive = [d \in Days |-> "none"]
    /\ remote = [dump |-> [n \in Runs |-> "none"], log |-> [d \in Days |-> "none"]]
    /\ sentinel = FALSE
    /\ archived = [d \in Days |-> 0]

Alive(r) == run[r].pc \notin {"new", "over"}
Goto(r, pc) == run' = [run EXCEPT ![r].pc = pc,
                                ![r].met = IF pc = "logs" THEN {} ELSE @]

Dumping == {q \in Runs : run[q].pc \in {"dump", "gzip", "verify"}}

\* Bound: a run meets fewer than KEEP others on its way to the pruning (of 90
\* in the code: minutes against months).
RoomFor == /\ Cardinality(Dumping) < KEEP
           /\ \A q \in Dumping : Cardinality(run[q].met) + 1 < KEEP

(* DB_BACKUP_FILE is named by the second: a name of its own, or that of a  *)
(* run which has begun in this second and is still dumping.                *)
Begin(r) ==
    /\ run[r].pc = "new" /\ RoomFor
    /\ \E n \in {r} \union {run[q].name : q \in {q \in Runs : run[q].pc = "dump"}} :
           run' = [q \in Runs |->
                     IF q = r THEN [New EXCEPT !.pc = "dump", !.name = n,
                                               !.met = Dumping]
                     ELSE IF q \in Dumping THEN [run[q] EXCEPT !.met = @ \union {r}]
                     ELSE run[q]]
    /\ UNCHANGED <<sql, gz, newer, day, logs, archive, remote, sentinel, archived>>

(* pg_dump > <name>.sql, or its failure: two runs that write one file mix  *)
(* their output.  What a failure leaves of a file of its own is not looked *)
(* at again.                                                               *)
PgDump(r) ==
    /\ run[r].pc = "dump"
    /\ LET n == run[r].name
           alone == \A q \in Runs \ {r} :
                        run[q].pc \in {"dump", "gzip"} => run[q].name # n
       IN  \/ /\ sql' = [sql EXCEPT ![n] = IF alone THEN "whole" ELSE "mixed"]
              /\ Goto(r, "gzip")
           \/ /\ sql' = [sql EXCEPT ![n] = IF alone THEN @ ELSE "mixed"]
              /\ Goto(r, "logs")
    /\ UNCHANGED <<gz, newer, day, logs, archive, remote, sentinel, archived>>

GzipAgain(r) ==                        \* mutant: what is written over keeps its place
    /\ run[r].pc = "gzip"
    /\ LET n == run[r].name
       IN  /\ \E quality \in {sql[n], "torn"} \ {"none"} :
                  /\ gz' = [gz EXCEPT ![n] = quality]
                  /\ Goto(r, IF quality = "torn" THEN "logs" ELSE "verify")
           /\ newer' = [x \in Runs |-> IF x \in Dumps THEN newer[x] \union {n} ELSE {}]
    /\ UNCHANGED <<sql, day, logs, archive, remote, sentinel, archived>>

(* gzip -c <name>.sql > <name>.sql.gz: the shell truncates the target      *)
(* before gzip looks for its input.  What is torn does not verify.         *)
Gzip(r) ==
    /\ run[r].pc = "gzip"
    /\ LET n == run[r].name
       IN  /\ \E quality \in {sql[n], "torn"} \ {"none"} :
                  /\ gz' = [gz EXCEPT ![n] = quality]
                  /\ Goto(r, IF quality = "torn" THEN "logs" ELSE "verify")
           /\ newer' = [x \in Runs |-> IF x \in Dumps \ {n} THEN newer[x] \union {n} ELSE {}]
    /\ UNCHANGED <<sql, day, logs, archive, remote, sentinel, archived>>

PruneNewest ==                         \* mutant: sorted the other way
    {x \in Dumps : Cardinality({y \in Dumps : x \in newer[y]}) >= KEEP}

(* select_files_to_prune: all but the newest KEEP.                         *)
SelectFilesToPrune == {x \in Dumps : Cardinality(newer[x]) >= KEEP}

(* verify-dump reads the gzip through and compares its size with a floor,  *)
(* and may fail on a good one; then the plain dump is removed and old      *)
(* dumps are pruned, but for files that cannot be removed.                 *)
VerifyDump(r) ==
    /\ run[r].pc = "verify"
    /\ LET n == run[r].name
       IN  \/ /\ gz[n] \in {"whole", "mixed"}
              /\ \E gone \in {SelectFilesToPrune, {}} :
                    /\ gz' = [x \in Runs |-> IF x \in gone THEN "none" ELSE gz[x]]
                    /\ newer' = [x \in Runs |-> IF x \in gone THEN {} ELSE newer[x] \ gone]
              /\ sql' = [sql EXCEPT ![n] = "none"]
              /\ run' = [run EXCEPT ![r].pc = "logs", ![r].met = {}, ![r].db = TRUE]
           \/ Goto(r, "logs") /\ UNCHANGED <<gz, newer, sql>>
    /\ UNCHANGED <<day, logs, archive, remote, sentinel, archived>>

(* backup-logs.sh compresses yesterday's log over its archive, verifies it *)
(* and removes the log, or fails with a torn archive.  A later run of the  *)
(* day finds no log, and the shell has truncated the archive by then.  The *)
(* failures are one: a good archive beside its log, of which the run says  *)
(* that it failed, counts as torn, which claims less.                      *)
BackupLogs(r) ==
    /\ run[r].pc = "logs"
    /\ \/ /\ logs[day] = "live"
          /\ archive' = [archive EXCEPT ![day] = "whole"]
          /\ logs' = [logs EXCEPT ![day] = "gone"]
          /\ run' = [run EXCEPT ![r].pc = "ship", ![r].day = day, ![r].logs = TRUE]
       \/ /\ archive' = [archive EXCEPT ![day] = "torn"]
          /\ run' = [run EXCEPT ![r].pc = "ship", ![r].day = day]
          /\ UNCHANGED logs
    /\ archived' = [archived EXCEPT ![day] = IF @ = 0 THEN 1 ELSE 2]
    /\ UNCHANGED <<sql, gz, newer, day, remote, sentinel>>

(* The outcomes of a copy of a local file: none is tried without the local *)
(* leg, and rclone fails without the file.                                 *)
Upload(made, file) == IF ~made THEN {"skip"}
                      ELSE {"fail"} \union (IF file = "none" THEN {} ELSE {"ok"})

(* remote_backup, in production: each copy on its own, over one of the     *)
(* same name.  Then the digest reports every leg.                          *)
RemoteBackup(r) ==
    /\ run[r].pc = "ship"
    /\ LET n == run[r].name
           d == run[r].day
       IN  \E rdb \in Upload(run[r].db, gz[n]), rlogs \in Upload(run[r].logs, archive[d]) :
             /\ remote' = [remote EXCEPT !.dump[n] = IF rdb = "ok" THEN gz[n] ELSE @,
                                         !.log[d] = IF rlogs = "ok" THEN archive[d] ELSE @]
             /\ run' = [run EXCEPT ![r].pc = "stamp", ![r].rdb = rdb, ![r].rlogs = rlogs]
    /\ UNCHANGED <<sql, gz, newer, day, logs, archive, sentinel, archived>>

(* Best effort: Redis may refuse the stamp.                                *)
StampBackupSuccess(r) ==
    /\ run[r].pc = "stamp"
    /\ \/ run[r].db /\ sentinel' = TRUE
       \/ UNCHANGED sentinel
    /\ run' = [run EXCEPT ![r] = Over(r)]
    /\ UNCHANGED <<sql, gz, newer, day, logs, archive, remote, archived>>

(* From midnight on, runs are about the next day's log.                    *)
Midnight ==
    /\ day < MaxDay
    /\ day' = day + 1
    /\ UNCHANGED <<run, sql, gz, newer, logs, archive, remote, sentinel,
                   archived>>

(* The container stops.  A dump left half-way is torn already (PgDump and  *)
(* Gzip fail at any byte), and nothing takes it up again.                  *)
Stop ==
    /\ \E r \in Runs : Alive(r)
    /\ run' = [r \in Runs |-> IF Alive(r) THEN Over(r) ELSE run[r]]
    /\ UNCHANGED <<sql, gz, newer, day, logs, archive, remote, sentinel,
                   archived>>

BackupNext ==
    \/ Midnight \/ Stop
    \/ \E r \in Runs : \/ Begin(r) \/ PgDump(r) \/ Gzip(r) \/ VerifyDump(r)
                       \/ BackupLogs(r) \/ RemoteBackup(r) \/ StampBackupSuccess(r)

BackupSpec == BackupInit /\ [][BackupNext]_backupVars

----------------------------------------------------------------------------
(* Properties                                                              *)

\* Two runs have begun in one second.
SharedName(n) == \E r \in Runs : r # n /\ run[r].name = n

(* Once a success is on record a good dump is on disk, however many failed *)
(* and overlapping runs follow and prune -- unless two runs have written   *)
(* to one file.                                                            *)
SentinelHasDump ==
    sentinel => \/ \E n \in Runs : gz[n] = "whole"
                \/ \E n \in Runs : SharedName(n)

(* The log of a day is always somewhere: as it was, archived or in the     *)
(* remote store -- unless a second run of that day came to it.             *)
LogKept ==
    \A d \in Days : \/ logs[d] = "live" \/ archive[d] = "whole"
                    \/ remote.log[d] = "whole"
                    \/ archived[d] = 2

(* A run that reports a copy in the remote store is right: the copy is     *)
(* there and readable, but for the two collisions named above.             *)
DigestIsTrue ==
    \A r \in Runs : run[r].pc = "stamp" =>
        /\ run[r].rdb = "ok" => \/ remote.dump[run[r].name] = "whole"
                                \/ SharedName(run[r].name)
        /\ run[r].rlogs = "ok" => \/ remote.log[run[r].day] = "whole"
                                  \/ archived[run[r].day] = 2

(* What a nightly backup is for: a dump to restore from, the log of every  *)
(* day, and a report that does not claim a copy that is not there, through *)
(* failing, overlapping and interrupted runs.                              *)
BackupsRemain == SentinelHasDump /\ LogKept /\ DigestIsTrue
=============================================================================
