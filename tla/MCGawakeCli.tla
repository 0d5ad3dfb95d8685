------------------------------ MODULE MCGawakeCli ------------------------------
(***************************************************************************)
(* What users type and what SQLite makes of it, for model checking.        *)
(***************************************************************************)
EXTENDS GawakeCli

\* A negative number, the ids of two rules, and a mode or option too large.
TypedNumbers == {-1, 0, 1, 2, 3}

\* No time of a day and no mode of rtcwake.
OutOfRange == {[time |-> DayLength, mode |-> MODE_LAST, active |-> TRUE]}
=============================================================================
