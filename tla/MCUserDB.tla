------------------------------ MODULE MCUserDB -------------------------------
(* The two modules of pkg/userdb, explored side by side and not together:  *)
(* a behaviour is one of the table and its caches, or one of a schedule.   *)
EXTENDS UserDB, DowntimeSchedule

VARIABLE part

MCInit ==
    /\ Init /\ ScheduleInit
    /\ part \in {"table", "schedule"}
    /\ part = "schedule" => \A u \in Users : hash[u] = None

MCNext ==
    \/ part = "table" /\ Next /\ UNCHANGED <<scheduleVars, part>>
    \/ part = "schedule" /\ ScheduleNext /\ UNCHANGED <<vars, part>>

MCSpec == MCInit /\ [][MCNext]_<<vars, scheduleVars, part>> /\ Fairness
=============================================================================
