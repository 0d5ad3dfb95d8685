-------------------------------- MODULE MCGawaked --------------------------------
(***************************************************************************)
(* Databases and memory for model checking Gawaked.                        *)
(***************************************************************************)
EXTENDS MCScheduler, Gawaked

\* With and without a turn on rule, and with and without a shut down instead.
DaemonDatabases ==
  {Db({OffRule({0, 1}, 2)}, {OnRule({1}, 1), OnRule({2}, 0)}, FALSE),
   Db({OffRule({0, 1}, 2)}, {}, TRUE),
   Db({}, {OnRule({1}, 1), OnRule({1}, 2)}, FALSE)}

\* Nothing to wake up for: the computer is to be shut down instead.
NothingToWakeFor == {Db({OffRule({0}, 2)}, {}, TRUE)}
=============================================================================
