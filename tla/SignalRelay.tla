------------------------------ MODULE SignalRelay ------------------------------
(***************************************************************************)
(* What the D-Bus server promises: a signal is somebody's request, relayed *)
(* once, as the signal of its meaning, and the requests of one caller are  *)
(* relayed in the order in which they were made.  Requests may be lost.    *)
(***************************************************************************)
EXTENDS Naturals, Sequences

CONSTANT Callers

Meaning == [UpdateDatabase |-> "DatabaseUpdated", CancelRule |-> "RuleCanceled",
            RequestSchedule |-> "ScheduleRequested",
            RequestCustomSchedule |-> "CustomScheduleRequested", ReturnStatus |-> "Status"]

VARIABLES
  requests,  \* every call that was made
  signals    \* every signal that was sent

Init == requests = <<>> /\ signals = <<>>

Request ==
  /\ \E caller \in Callers, method \in DOMAIN Meaning :
       requests' = Append(requests, [from |-> caller, method |-> method])
  /\ UNCHANGED signals

\* No signal of this request, or of a later one of its caller, was sent.
Due(n) ==
  \A i \in DOMAIN signals :
    ~ (requests[signals[i].call].from = requests[n].from /\ signals[i].call >= n)

Relay ==
  /\ \E n \in DOMAIN requests :
       /\ Due(n)
       /\ signals' = Append(signals, [call |-> n, kind |-> Meaning[requests[n].method]])
  /\ UNCHANGED requests

Next == Request \/ Relay

Spec == Init /\ [][Next]_<<requests, signals>>
=============================================================================
