----------------------------- MODULE TaskFormat ------------------------------
(***************************************************************************)
(* When a new task runs first (tasks/task.go): the constructors, the       *)
(* parser of formats such as "every 2 weeks 22:11" or "tuesday 23:59", and *)
(* the arithmetic on days and weekdays of at and scheduleNextRun.  What    *)
(* happens from then on is module TaskScheduler.                           *)
(*                                                                         *)
(* Time is counted in ticks from the midnight of a Sunday, in a zone that  *)
(* keeps its offset.  at takes the day in the zone of the clock and the    *)
(* time of day in loc, which is that zone, time.Local, too: nobody calls   *)
(* SetGlobalLocation (scheduler.go:21).  Making a task reads the clock     *)
(* five times, and time may pass in between: r[1] to r[4] are the reads of *)
(* at, r[5] that of scheduleNextRun.                                       *)
(***************************************************************************)
EXTENDS Integers, Sequences, SequencesExt

CONSTANTS OneSecond, Minute, Hour, Day   \* their lengths in ticks

ASSUME LengthAssumption ==
    /\ {OneSecond, Minute, Hour, Day} \subseteq Nat
    /\ 0 < OneSecond /\ OneSecond < Minute /\ Minute < Hour /\ Hour < Day

Weekday(t) == (t \div Day) % 7

(* A task: lastRunAt is <<>> for nil.  A format that was rejected has the  *)
(* unit "Invalid".                                                         *)
NewTask(interval, unit, startDay) ==
    [interval |-> interval, unit |-> unit, startDay |-> startDay, lastRunAt |-> <<>>]
Invalid == NewTask(0, "Invalid", 0)

Duration(j) ==
    j.interval * (CASE j.unit = "Seconds" -> OneSecond
                    [] j.unit = "Minutes" -> Minute
                    [] j.unit = "Hours"   -> Hour
                    [] j.unit = "Days"    -> Day
                    [] j.unit = "Weeks"   -> 7 * Day)

(* How many days ago startDay was, on the weekday wd.                      *)
DaysSince_NoWrap(wd, startDay) == wd - startDay

DaysSince(wd, startDay) == IF wd < startDay THEN 7 + (wd - startDay) ELSE wd - startDay

(* at pretends a last run at the time of day hm, one interval before the   *)
(* next moment it may run.                                                 *)
at(j, hm, r) ==
    LET mock == (r[1] \div Day) * Day + hm
    IN  [j EXCEPT !.lastRunAt =
            CASE j.unit = "Days" ->
                   <<IF r[2] > mock THEN mock ELSE mock - Day>>
              [] j.unit = "Weeks" ->
                   <<IF j.startDay # Weekday(r[2]) \/ (r[3] > mock /\ j.startDay = Weekday(r[4]))
                     THEN mock - DaysSince(Weekday(mock), j.startDay) * Day
                     ELSE mock - 7 * Day>>]

(* NewTaskOnWeekday and NewTaskDaily; they panic unless hm is a time.      *)
NewTaskAtIntervals(interval, unit) == NewTask(interval, unit, 0)
NewTaskOnWeekday(startDay, hm, r) == at(NewTask(1, "Weeks", startDay), hm, r)
NewTaskDaily(hm, r) == at(NewTask(1, "Days", 0), hm, r)

(* scheduleNextRun of Do: the time of the first run.                       *)
scheduleNextRun(j, r) ==
    LET last == IF j.lastRunAt # <<>> THEN j.lastRunAt[1]
                ELSE IF j.unit = "Weeks"
                     THEN (r[5] \div Day - DaysSince(Weekday(r[5]), j.startDay)) * Day
                     ELSE r[5]
    IN  last + Duration(j)

-----------------------------------------------------------------------------
(* Formats.  A word is [w, v]: "every", a unit, a weekday v, a time with a *)
(* colon v, a number v or anything else.                                   *)

Units == {"Seconds", "Minutes", "Hours", "Days", "Weeks"}

parseTimeFormat(v) == v \in 0..(Day - 1)

ParseWord(j, word, r) ==
    CASE j = Invalid -> Invalid
      [] word.w = "every" -> IF j.interval > 0 THEN Invalid ELSE [j EXCEPT !.interval = 1]
      [] word.w \in Units -> [j EXCEPT !.unit = word.w]
      [] word.w = "weekday" ->
           IF j.interval > 1 \/ j.unit # "Never" THEN Invalid
           ELSE [j EXCEPT !.unit = "Weeks", !.startDay = word.v]
      [] word.w = "time" ->
           IF ~parseTimeFormat(word.v) \/ j.unit \notin {"Never", "Days", "Weeks"} THEN Invalid
           ELSE at([j EXCEPT !.unit = IF @ = "Never" THEN "Days" ELSE @], word.v, r)
      [] word.w = "number" ->
           IF j.interval > 1 \/ word.v < 1 THEN Invalid ELSE [j EXCEPT !.interval = word.v]
      [] OTHER -> Invalid

parseTaskFormat(words, r) ==
    LET j == FoldLeft(LAMBDA i, word : ParseWord(i, word, r), NewTask(0, "Never", 0), words)
    IN  IF j.unit \in {"Never", "Invalid"} THEN Invalid
        ELSE [j EXCEPT !.interval = IF @ = 0 THEN 1 ELSE @]

-----------------------------------------------------------------------------
(* The formats of the comment of NewTask (task.go:136): "every", a number, *)
(* a unit or a weekday and a time, in this order, each of them optional.   *)
(* 0 is no number, "none" no unit, a negative time none and Day an invalid *)
(* one.                                                                    *)
Formats ==
    [every : BOOLEAN, number : 0..2, time : {-1, 0, Day - 1, Day},
     unit : {[w |-> u, v |-> 0] : u \in Units \cup {"none"}} \cup [w : {"weekday"}, v : 0..6]]

Word(w, v) == [w |-> w, v |-> v]
Words(f) ==
       (IF f.every THEN <<Word("every", 0)>> ELSE <<>>)
    \o (IF f.number > 0 THEN <<Word("number", f.number)>> ELSE <<>>)
    \o (IF f.unit.w # "none" THEN <<f.unit>> ELSE <<>>)
    \o (IF f.time >= 0 THEN <<Word("time", f.time)>> ELSE <<>>)

(* A schedule is meant by: some unit or a time; a valid time, and only on  *)
(* days; one week of a weekday.                                            *)
Meaningful(f) ==
    /\ f.unit.w # "none" \/ f.time >= 0
    /\ f.time < Day
    /\ f.time >= 0 => f.unit.w \in {"none", "Days", "Weeks", "weekday"}
    /\ f.unit.w = "weekday" => f.number < 2

(* The five reads: the clock advances after the k-th.                      *)
Reads(start, k) == [i \in 1..5 |-> IF i > k THEN start + 1 ELSE start]

OnTime(j, hm, r) ==
    LET next == scheduleNextRun(j, r)
    IN  /\ next \in r[1]..(r[5] + Duration(j))
        /\ hm >= 0 => next % Day = hm
        /\ j.unit = "Weeks" => Weekday(next) = j.startDay

(* The tasks a client may make with the reads r run first on time; a       *)
(* format of the comment is accepted exactly when it means a schedule.     *)
MadeOnTime(r) ==
    /\ \A f \in Formats :
         LET j == parseTaskFormat(Words(f), r)
         IN  /\ j # Invalid <=> Meaningful(f)
             /\ j # Invalid => OnTime(j, f.time, r)
             /\ j # Invalid /\ f.unit.w = "weekday" => j.startDay = f.unit.v
    /\ \A hm \in 0..(Day - 1) :
         /\ OnTime(NewTaskDaily(hm, r), hm, r)
         /\ \A d \in 0..6 : OnTime(NewTaskOnWeekday(d, hm, r), hm, r)
    /\ \A u \in Units, n \in 1..2 : OnTime(NewTaskAtIntervals(n, u), -1, r)

(* The weekday is read twice, by r[2] and r[4]; with midnight in between   *)
(* at takes neither branch for what it is meant and the first run is due   *)
(* at once.                                                                *)
SameWeekday(r) == Weekday(r[2]) = Weekday(r[4])
=============================================================================
