--------------------------- MODULE MCTaskScheduler ---------------------------
(* The instance of TaskScheduler and TaskFormat for TLC.                   *)
EXTENDS TaskScheduler, TaskFormat, TLC

CONSTANTS t1, t2   \* the tasks

(* Both run every tick, so that both are due early.                        *)
EqualPeriods == (t1 :> 1) @@ (t2 :> 1)

(* "creates a new task to execute on specific day of the week"             *)
(* (task.go:100), "to execute daily at specific time" (118): in whatever   *)
(* moment of a week the process was started, and also when time passes     *)
(* midnight while the task is made, the first run is at that time of that  *)
(* day, neither in the past nor more than one interval away.               *)
FirstRunOnTime ==
    created = {} /\ ~running =>
        \A boot \in (7 * Day)..(14 * Day - 1), k \in 1..5 :
            SameWeekday(Reads(boot + now, k)) => MadeOnTime(Reads(boot + now, k))
=============================================================================
