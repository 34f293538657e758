----------------------------- MODULE MCTaskLogs -----------------------------
(***************************************************************************)
(* Small instances of TaskLogs: a cron job beside a run of the same script *)
(* by hand and the log-pusher service, or the service alone.               *)
(***************************************************************************)
EXTENDS TaskLogs

CONSTANTS w1, w2, p1, p2, p3, t1, t2

MCOpens == [t \in Task |-> IF t = t1 THEN 2 ELSE 1]
MCLines == [t \in Task |-> IF t = t1 THEN 2 ELSE 0]
MCRank == [t \in Task |-> IF t = t1 THEN 1 ELSE 2]
=============================================================================
