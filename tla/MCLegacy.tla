-------------------------------- MODULE MCLegacy --------------------------------
(***************************************************************************)
(* Databases, rules and moments for model checking LegacyPrograms.         *)
(***************************************************************************)
EXTENDS LegacyPrograms, TLC

Clock(h, m, s) == h * 3600 + m * 60 + s

R(days, time, command) == [days |-> days, time |-> time, command |-> command]

\* Ten minutes before a Sunday's midnight: cron_toff's rule has come, the first
\* turn on rule is two seconds too old for its command and comes again on Monday,
\* before the second; four minutes earlier its command is due.  Users enter a
\* rule that comes before midnight.
SomeTimes  == {Clock(23, 46, 1), Clock(23, 50, 1)}
SomeDelays == {0, 600}

Night  == R({0}, Clock(23, 50, 0), TRUE)
Before == R({0, 1}, Clock(23, 44, 59), TRUE)
After  == R({1}, Clock(23, 55, 0), TRUE)
Soon   == R({0}, Clock(23, 55, 0), TRUE)
UserRules == [t \in Tables |-> IF t = "turnon" THEN {Soon} ELSE {Night}]

Enabling == [status |-> TRUE, commands |-> TRUE, def_mode |-> "off"]
Used ==
  [stage |-> "complete", config |-> Enabling, lastId |-> [t \in Tables |-> 3],
   rows |-> [t \in Tables |-> IF t = "turnon" THEN {Numbered(Before, 2), Numbered(After, 3)}
                                              ELSE {Numbered(Night, 2)}]]
SomeDatabases == {Used}
SomeChoices   == {Enabling, [Enabling EXCEPT !.def_mode = "mem"]}

\* What no name and no process leads to any more is not told apart.
Reachable ==
  <<pc, path, [f \in Files |-> IF f \in Unused THEN EmptyFile ELSE disk[f]], handle, statement,
    cut \ Unused, program, edit, job, stable, starts, writes>>

Symmetry == Permutations(Processes) \cup Permutations(Files)
=============================================================================
