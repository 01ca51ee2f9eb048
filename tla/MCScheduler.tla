----------------------------- MODULE MCScheduler ----------------------------
(* A heartbeat configured with 0, an interval job, and a cron job that is  *)
(* followed if its expression means the minutes 1 and 4.                   *)
EXTENDS Scheduler

CONSTANTS beat, job

MCPeriod    == [j \in Job |-> CASE j = beat -> 0 [] j = job -> 2 [] j = cron -> 1]
MCSchedules == {{1, 4}}

=============================================================================
