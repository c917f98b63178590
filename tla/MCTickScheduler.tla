--------------------------- MODULE MCTickScheduler ---------------------------
(***************************************************************************)
(* TickScheduler with ten seconds shrunk to a period of 2 and the minute   *)
(* to three periods: one task on an interval that is no multiple of the    *)
(* period, one on a cron schedule that matches two minutes in a row, one   *)
(* registered as disabled.                                                 *)
(***************************************************************************)
EXTENDS TickScheduler

CONSTANTS every, cron, off, c1, c2

AllTasks  == {every, cron, off}
OnlyEvery == {every}
OnlyOff   == {off}
NoTask    == {}
OneCaller  == {c1}
TwoCallers == {c1, c2}

MCInterval    == [t \in Tasks |-> IF t = cron THEN 0 ELSE 3]
MCCronMinutes == [t \in Tasks |-> IF t = cron THEN {1, 2} ELSE {}]
=============================================================================
