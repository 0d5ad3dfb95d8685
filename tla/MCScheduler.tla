------------------------------ MODULE MCScheduler ------------------------------
(***************************************************************************)
(* Databases for model checking Scheduler: a day has six minutes, and      *)
(* CHECK_DELAY is two of them.                                             *)
(***************************************************************************)
EXTENDS Scheduler

OffRule(days, minute) == [days |-> days, minute |-> minute, active |-> TRUE,
                          mode |-> IF minute = 0 THEN "mem" ELSE "disk"]
OnRule(days, minute)  == [days |-> days, minute |-> minute, active |-> TRUE, mode |-> "mem"]

Db(off, on, shutdown_fail) ==
  [turnoff |-> off, turnon |-> on, default_mode |-> "off", notification_time |-> 1,
   shutdown_fail |-> shutdown_fail, custom |-> NoTime, custom_mode |-> "mem"]

\* Turn off rules on several days, at the ends of a day, and one not active;
\* with and without turn on rules.
TimerOff ==
  LET rules == {OffRule({1}, 3), OffRule({0, 3}, 5), OffRule({2, 3}, 0), OffRule({4}, 4),
                [OffRule({0, 1, 2}, 2) EXCEPT !.active = FALSE]}
  IN  SUBSET rules
TimerOn ==
  {{}, {OnRule({2}, 3)}, {OnRule({1, 3}, 0), OnRule({3}, 5)}}
TimerDatabases == {Db(off, on, sf) : off \in TimerOff, on \in TimerOn, sf \in BOOLEAN}

\* The same computer before and after its user has changed the rules.
UpdateDatabases ==
  {Db({OffRule({0, 1}, 4)}, {OnRule({1, 2}, 1)}, FALSE),
   Db({OffRule({0, 1}, 4), OffRule({0, 1}, 3)}, {OnRule({1, 2}, 1)}, FALSE),
   Db({OffRule({1}, 0)}, {OnRule({1, 2}, 1)}, FALSE)}

\* Requests with both kinds of rules, and with none but a custom schedule.
RequestDatabases ==
  {Db({OffRule({0, 1}, 2)}, {OnRule({1}, 1)}, FALSE),
   [Db({}, {}, TRUE) EXCEPT !.custom = 9]}

\* Shut down when no wake up can be set, or not; a turn on rule exists.
FailDatabases == {Db({OffRule({0, 1}, 2)}, {OnRule({1}, 1)}, sf) : sf \in BOOLEAN}

\* The next turn off rule is tomorrow's, the next turn on rule is after it.
RaceDatabases == {Db({OffRule({1}, 1)}, {OnRule({1}, 3), OnRule({2}, 5)}, FALSE)}

\* Uninitialised memory that is no time at all.
Noise == {[wake |-> NoTime, mode |-> NO]}
=============================================================================
