---------------------------- MODULE MCOperations ----------------------------
(***************************************************************************)
(* The operations side by side, for TLC: the backup pipeline, what starts  *)
(* it, the jobs and the accounts share no state that a step reads, so that *)
(* each behaviour is about one of them and the others rest.                *)
(***************************************************************************)
EXTENDS BackupRuns, BackupTrigger, AdminOperations, AccountSessions, TLC

VARIABLE part

vars == <<backupVars, triggerVars, opsVars, sessionsVars, part>>

Init == /\ BackupInit /\ TriggerInit /\ OpsInit /\ SessionsInit
        /\ part \in {"runs", "nights", "trigger", "jobs", "requests", "sessions"}
        /\ part # "jobs" => job = "flush"     \* one state for the part that rests

(* Bound: all the runs share a night, or two of them two nights.           *)
RunsNext == \/ part = "runs" /\ BackupNext /\ UNCHANGED day
            \/ /\ part = "nights" /\ BackupNext
               /\ Cardinality({r \in Runs : run'[r].pc # "new"}) =< 2

(* Of an admin's requests, cron's jobs meet the flush only, at its lock:   *)
(* the other requests are a part of their own.                             *)
OpsNext == \/ part = "jobs" /\ (JobsNext \/ RequestsNext({"flush"}))
           \/ part = "requests" /\ RequestsNext(Ops)

Next == /\ \/ RunsNext /\ UNCHANGED <<triggerVars, opsVars, sessionsVars>>
           \/ part = "trigger" /\ TriggerNext /\ UNCHANGED <<backupVars, opsVars, sessionsVars>>
           \/ OpsNext /\ UNCHANGED <<backupVars, triggerVars, sessionsVars>>
           \/ part = "sessions" /\ SessionsNext /\ UNCHANGED <<backupVars, triggerVars, opsVars>>
        /\ UNCHANGED part

Spec == Init /\ [][Next]_vars

Symmetry == Permutations(Runs)

(* Every part stays within the values its state is described by.           *)
TypeOK == BackupTypeOK /\ TriggerTypeOK /\ OpsTypeOK /\ SessionsTypeOK
=============================================================================
