------------------------------- MODULE CronLookup -------------------------------
(***************************************************************************)
(* How the cron programs of Gawake find rules by the time of day: times    *)
(* are compared as the decimal numbers that are read as HHMMSS, and an     *)
(* interval is added to such a number.  IsDue and Skips say in seconds     *)
(* what the comparisons are for.  An operator that stands before the one   *)
(* it varies is a mutant of it.                                            *)
(*                                                                         *)
(* A moment is counted in seconds, from the midnight a Sunday begins with. *)
(***************************************************************************)
EXTENDS Integers

WeekDays == 0..6
Day      == 86400
Seconds  == 0..(Day - 1)

Date(t)        == t \div Day
Time(t)        == t % Day
WeekDay(t)     == Date(t) % 7
At(date, time) == date * Day + time

\* A row of rules_turnon or rules_turnoff, and whether it has a command.
Row == [id : Nat, days : SUBSET WeekDays, time : Seconds, command : BOOLEAN]

\* snprintf () of hour, minutes and seconds, and strftime () of a rule's time.
HHMM(time)   == (time \div 3600) * 100 + ((time \div 60) % 60)
HHMMSS(time) == HHMM(time) * 100 + (time % 60)

\* Two weeks folded into one; -1 outside of them.
wday(num) == IF num \in 0..13 THEN num % 7 ELSE -1

-----------------------------------------------------------------------------
(* The queries, one operator per SELECT.                                   *)

\* WHERE <day> = 1
Enabled(rows, day) == {r \in rows : day \in r.days}

\* ORDER BY time (time) ASC: the first row, or one of those of its time.
AnyOrder(rows) == rows
First(rows)    == {r \in rows : \A s \in rows : r.time <= s.time}

\* Today's rows are read until one is later than now.
LaterToday(rows, now) ==
  First({r \in Enabled(rows, WeekDay(now)) : HHMMSS(Time(now)) < HHMMSS(r.time)})

\* The row of the day that is i days ahead, LIMIT 1.
Ahead(rows, now, i) == First(Enabled(rows, wday(WeekDay(now) + i)))

\* cron_toff: the minute of a turn off rule has come.
OffNow(rows, now) ==
  First({r \in Enabled(rows, WeekDay(now)) : HHMM(Time(now)) = HHMM(r.time)})

\* cron_ton: a turn on rule's time is at most boot_time ago; boot_time is
\* added to a decimal number.
SinceThen(time, rule, boot_time) == time >= HHMMSS(rule)
Within(time, rule, boot_time) == time >= HHMMSS(rule) /\ time <= HHMMSS(rule) + boot_time
OnNow(rows, now, boot_time) ==
  First({r \in Enabled(rows, WeekDay(now)) : Within(HHMMSS(Time(now)), r.time, boot_time)})

-----------------------------------------------------------------------------
(* What they are for.                                                      *)

\* The rule occurs at this moment.
OccursAt(r, t) == WeekDay(t) \in r.days /\ Time(t) = r.time

\* The rule occurs after now and before wake, which is at most a week later.
Skips(r, now, wake) ==
  \E i \in 0..7 : LET t == At(Date(now) + i, r.time)
                  IN  OccursAt(r, t) /\ now < t /\ t < wake

\* The rule has occurred today, no more than boot_time seconds ago.
IsDue(r, now, boot_time) ==
  /\ WeekDay(now) \in r.days
  /\ r.time <= Time(now) /\ Time(now) <= r.time + boot_time
=============================================================================
