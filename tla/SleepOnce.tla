------------------------------- MODULE SleepOnce -------------------------------
(***************************************************************************)
(* What gawaked promises to the computer it runs on: it gives at most one  *)
(* order, and what happens to the computer is what was ordered, once.      *)
(***************************************************************************)
EXTENDS Integers

CONSTANTS Orders,     \* records with the fields of RtcwakeArgs
          NoOrder,      \* not one of them
          Untouched     \* the computer before it is touched

VARIABLES order, machine

\* To shut down, or to set the alarm and enter the mode of rtcwake.
Effect(o) ==
  IF o.run_shutdown
  THEN [power |-> "shutdown", alarm |-> Untouched.alarm]
  ELSE [power |-> o.mode, alarm |-> o.wake]

Init == order = NoOrder /\ machine = Untouched

Decide == order = NoOrder /\ order' \in Orders /\ UNCHANGED machine

Obey ==
  /\ order # NoOrder /\ machine = Untouched
  /\ machine' = Effect(order)
  /\ UNCHANGED order

Next == Decide \/ Obey

Spec == Init /\ [][Next]_<<order, machine>>
=============================================================================
