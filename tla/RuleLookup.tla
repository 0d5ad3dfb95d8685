------------------------------ MODULE RuleLookup ------------------------------
(***************************************************************************)
(* How gawaked finds the next turn on or turn off rule in the database.    *)
(* The SQL of query_upcoming_off_rule () and query_upcoming_on_rule ()     *)
(* walks calendar days; the operators below walk the same days, one SELECT *)
(* each, and IsNextOccurrence says what the walk is for.  An operator that *)
(* stands before the one it varies is a mutant of it: a mistake that the   *)
(* properties are shown to notice.                                         *)
(*                                                                         *)
(* Time is counted in minutes, the resolution of a rule.  Minute t lies on *)
(* day Date(t); day 0 is a Sunday.                                         *)
(***************************************************************************)
EXTENDS Integers

CONSTANT DayLength            \* minutes in a day (1440 in the program)

ASSUME DayLengthAssumption == DayLength \in Nat \ {0}

WeekDays == 0..6
Minutes  == 0..(DayLength - 1)

\* A row of rules_turnon or rules_turnoff; only turn off rules have a mode.
Rule(Modes) == [days : SUBSET WeekDays, minute : Minutes, active : BOOLEAN, mode : Modes]

Date(t)          == t \div DayLength
WeekDay(t)       == Date(t) % 7
Minute(t)        == t % DayLength
At(date, minute) == date * DayLength + minute

\* The broken-down time that localtime () returns.
BrokenDown(t) == [date |-> Date(t), minute |-> Minute(t), wday |-> WeekDay(t)]

-----------------------------------------------------------------------------
(* The queries, one operator per SELECT.                                   *)

\* Two weeks folded into one; -1 outside of them.
week_day(num) == IF num \in 0..13 THEN num % 7 ELSE -1

\* WHERE <day> = 1 AND active = 1
InactiveToo(rules, wday) == {r \in rules : wday \in r.days}
Active(rules, wday) == {r \in rules : r.active /\ wday \in r.days}

\* ORDER BY time (rule_time) ASC, first row.  Rows of the same time come in
\* any order, hence a set.
Earliest(rules) == {r \in rules : \A s \in rules : r.minute <= s.minute}

\* Today's rows are walked until one is strictly later than now.
NowOrLaterToday(rules, wday, minute) ==
  Earliest({r \in Active(rules, wday) : r.minute >= minute})
LaterToday(rules, wday, minute) ==
  Earliest({r \in Active(rules, wday) : r.minute > minute})

\* Turn off rules are searched for tomorrow only.
TomorrowWithoutWrap(rules, wday) == Earliest(Active(rules, wday + 1))
Tomorrow(rules, wday) ==
  Earliest(Active(rules, IF wday + 1 >= 7 THEN 0 ELSE wday + 1))

\* Turn on rules are searched for in the next seven days, one SELECT for each:
\* the first row of the week day that lies some days ahead.
AnyOnDayAhead(rules, wday, days) == Active(rules, week_day(wday + days))
OnDayAhead(rules, wday, days)    == Earliest(Active(rules, week_day(wday + days)))

-----------------------------------------------------------------------------
(* What a rule means: it occurs at its minute of each of its week days.    *)

Occurs(rules, t) ==
  \E r \in rules : r.active /\ WeekDay(t) \in r.days /\ Minute(t) = r.minute

IsNextOccurrence(rules, t, u) ==
  /\ u > t
  /\ Occurs(rules, u)
  /\ \A v \in (t + 1)..(u - 1) : ~ Occurs(rules, v)
=============================================================================
