-------------------------- MODULE MCSchedulerService --------------------------
(***************************************************************************)
(* SchedulerService with one task on an interval of two minutes, one on a  *)
(* cron schedule and a second object under the name of the first.          *)
(***************************************************************************)
EXTENDS SchedulerService

CONSTANTS every, cron, again, c1, m1

BothTasks == {every, cron}
AllTasks  == {every, cron, again}
OnlyEvery == {every}
OnlyCron  == {cron}
NoTask    == {}
OneController == {c1}
OneManual == {m1}
NoManual  == {}

MCName        == [t \in Tasks |-> IF t = cron THEN cron ELSE every]
MCInterval    == [t \in Tasks |-> IF t = cron THEN 0 ELSE 2]
MCCronMinutes == [t \in Tasks |-> IF t = cron THEN {1, 3, 4, 7} ELSE {}]
=============================================================================
