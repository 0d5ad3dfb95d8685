------------------------------- MODULE DbusRelay -------------------------------
(***************************************************************************)
(* The D-Bus server (gawake-dbus-server/main.c), which relays each method  *)
(* call as a signal; the library through which programs call it            *)
(* (utils/dbus-client.c); and the daemon, which hears the signals and      *)
(* calls a method of its own.                                              *)
(*                                                                         *)
(* A server is a process, and may be started while another runs or after   *)
(* it has ended.  The bus knows who has the name, queues who asks for it   *)
(* meanwhile, and answers for whoever ended.  What a server sends is       *)
(* written by a thread of GDBus, in order, and is lost if the process ends *)
(* first.                                                                  *)
(*                                                                         *)
(* An operator that stands before the one it varies is a mutant of it.     *)
(***************************************************************************)
EXTENDS Naturals, Sequences

CONSTANTS
  Clients,   \* programs that are linked with dbus-client.c
  Daemon,    \* gawaked
  Servers,   \* processes of gawake-dbus-server
  Nobody,    \* no server
  Triggered, \* the methods that clients call
  MaxCalls   \* bound: calls in a behaviour

Methods == {"UpdateDatabase", "CancelRule", "RequestSchedule", "RequestCustomSchedule",
            "ReturnStatus"}
Signals == {"DatabaseUpdated", "RuleCanceled", "ScheduleRequested", "CustomScheduleRequested",
            "Status"}

ASSUME RelayAssumption ==
  /\ Daemon \notin Clients /\ Nobody \notin Servers
  /\ Triggered \subseteq Methods \ {"ReturnStatus"}
  /\ MaxCalls \in Nat

Callers == Clients \cup {Daemon}

VARIABLES
  server,    \* how far each server is
  owner,     \* who has the name on the bus
  mailbox,   \* the calls that have reached each server ...
  outbox,    \* ... and what it has sent and GDBus has not written
  calls,     \* every call: whose, which, to which server, and what became of it
  bus,       \* history: the signals written to the bus, with their calls
  caller,    \* what each caller is doing with its proxy
  error,     \* the static GError of dbus-client.c: "null", or "freed" but not reset
  heard      \* the calls whose signals have reached it

vars == <<server, owner, mailbox, outbox, calls, bus, caller, error, heard>>

ServerSteps == {"new", "started", "queued", "named", "serving", "ended"}
CallStates  == {"sent", "answered", "failed", "success", "failure"}

\* What is written about the calls made so far.
Message == [type : {"signal", "reply", "refusal"}, call : 1..Len(calls)]
CallRecord == [from : Callers, method : Methods, to : Servers \cup {Nobody}, state : CallStates,
               listening : BOOLEAN]

RelayTypeOK ==
  /\ server \in [Servers -> ServerSteps]
  /\ owner \in Servers \cup {Nobody}
  /\ owner # Nobody => server[owner] \in {"queued", "named", "serving"}
  /\ mailbox \in [Servers -> Seq(1..Len(calls))]
  /\ outbox \in [Servers -> Seq(Message)]
  /\ calls \in Seq(CallRecord) /\ Len(calls) <= MaxCalls
  /\ bus \in Seq([call : 1..Len(calls), kind : Signals])
  /\ caller \in [Callers -> {"closed", "ready", "waiting", "ended"}]
  /\ error \in [Clients -> {"null", "freed"}]
  /\ heard \subseteq 1..Len(calls)

Init ==
  /\ server = [s \in Servers |-> "new"] /\ owner = Nobody
  /\ mailbox = [s \in Servers |-> <<>>] /\ outbox = [s \in Servers |-> <<>>]
  /\ calls = <<>> /\ bus = <<>>
  /\ caller = [u \in Callers |-> "closed"] /\ error = [u \in Clients |-> "null"]
  /\ heard = {}

history == <<bus, heard>>

\* The listener of the daemon has its proxy, with which notify_user () calls.
Listening == caller[Daemon] \in {"ready", "waiting"}

-----------------------------------------------------------------------------
(* gawake-dbus-server.                                                     *)

Becomes(s, from, to) == server[s] = from /\ server' = [server EXCEPT ![s] = to]

\* A process of another user than gawake ends before it has done anything.
check_user(s) == Becomes(s, "new", "ended")

Start(s) ==
  /\ check_user(s) \/ Becomes(s, "new", "started")
  /\ UNCHANGED <<owner, mailbox, outbox, calls, history, caller, error>>

\* g_bus_own_name (): REPLACE replaces nobody, since no server allows it.
OwnName(s) ==
  /\ \/ owner = Nobody /\ Becomes(s, "started", "named") /\ owner' = s
     \/ owner # Nobody /\ Becomes(s, "started", "queued") /\ UNCHANGED owner
  /\ UNCHANGED <<mailbox, outbox, calls, history, caller, error>>

\* The process is gone: the bus gives the name to one in the queue and answers
\* the calls that s has not.
Dead(s, call) == call.to = s /\ call.state = "sent"

KeepName(s) == owner' = owner
ReleaseName(s) ==
  LET queue == {t \in Servers \ {s} : server[t] = "queued"}
  IN  IF owner # s THEN owner' = owner
      ELSE IF queue = {} THEN owner' = Nobody
      ELSE owner' \in queue

Exit(s) ==
  /\ server' = [server EXCEPT ![s] = "ended"]
  /\ ReleaseName(s)
  /\ mailbox' = [mailbox EXCEPT ![s] = <<>>] /\ outbox' = [outbox EXCEPT ![s] = <<>>]
  /\ calls' = [n \in DOMAIN calls |->
                 IF Dead(s, calls[n]) THEN [calls[n] EXCEPT !.state = "failed"] ELSE calls[n]]
  /\ UNCHANGED <<history, caller, error>>

\* The interface is exported only now, when the name is already known to all;
\* exporting may fail, which ends the process.
Exports(s) ==
  /\ Becomes(s, "named", "serving")
  /\ UNCHANGED <<owner, mailbox, outbox, calls, history, caller, error>>
ExportsOrHangs(s) ==
  \/ Exports(s)
  \/ /\ Becomes(s, "named", "ended")
     /\ UNCHANGED <<owner, mailbox, outbox, calls, history, caller, error>>
on_name_acquired(s) == Exports(s) \/ (server[s] = "named" /\ Exit(s))

\* GDBus calls this first for whoever has no bus or finds the name taken, and it
\* ends the process.  A server that is given the name between the two, while it
\* is queued, ends as well.
on_name_lost(s) == server[s] \in {"started", "queued"} /\ Exit(s)

\* SIGTERM, at any moment.
exit_handler(s) == server[s] \notin {"new", "ended"} /\ Exit(s)

CopiedEmit(method) ==
  CASE method = "UpdateDatabase" -> "DatabaseUpdated"
    [] method = "CancelRule"     -> "RuleCanceled"
    [] method = "ReturnStatus"   -> "Status"
    [] OTHER                     -> "ScheduleRequested"
Emit(method) ==
  CASE method = "UpdateDatabase"        -> "DatabaseUpdated"
    [] method = "CancelRule"            -> "RuleCanceled"
    [] method = "RequestSchedule"       -> "ScheduleRequested"
    [] method = "RequestCustomSchedule" -> "CustomScheduleRequested"
    [] method = "ReturnStatus"          -> "Status"

\* on_handle_*(): the signal is emitted, then the call completed.
CompletedFirst(n) == <<[type |-> "reply", call |-> n], [type |-> "signal", call |-> n]>>
NeverCompleted(n) == <<>>
Handled(n)        == <<[type |-> "signal", call |-> n], [type |-> "reply", call |-> n]>>

\* Before the interface is exported GDBus refuses the call.
Refused(n) == <<[type |-> "refusal", call |-> n]>>

Dispatch(s) ==
  /\ server[s] \in {"named", "queued", "serving"} /\ mailbox[s] # <<>>
  /\ LET n == Head(mailbox[s])
     IN  outbox' = [outbox EXCEPT ![s] = @ \o IF server[s] = "serving" THEN Handled(n)
                                                                       ELSE Refused(n)]
  /\ mailbox' = [mailbox EXCEPT ![s] = Tail(@)]
  /\ UNCHANGED <<server, owner, calls, history, caller, error>>

\* The bus keeps no signal for a listener that comes later, and no answer for a
\* caller that has stopped waiting.
Write(s) ==
  /\ outbox[s] # <<>>
  /\ outbox' = [outbox EXCEPT ![s] = Tail(@)]
  /\ LET message == Head(outbox[s])
         n       == message.call
     IN  \/ /\ message.type = "signal"
            /\ bus' = Append(bus, [call |-> n, kind |-> Emit(calls[n].method)])
            /\ heard' = IF Listening THEN heard \cup {n} ELSE heard
            /\ UNCHANGED calls
         \/ /\ message.type # "signal"
            /\ calls' = IF calls[n].state # "sent" THEN calls
                        ELSE [calls EXCEPT ![n].state =
                                IF message.type = "reply" THEN "answered" ELSE "failed"]
            /\ UNCHANGED history
  /\ UNCHANGED <<server, owner, mailbox, caller, error>>

-----------------------------------------------------------------------------
(* dbus-client.c, in each of the callers, and notify_user () of the daemon. *)

\* error is shared by the functions of the library and freed where it is found
\* to be set, which it stays: whoever finds it again may crash.
Reports(u, failed, to) ==
  \/ /\ caller' = [caller EXCEPT ![u] = to]
     /\ error' = [error EXCEPT ![u] = IF failed THEN "freed" ELSE @]
  \/ /\ error[u] = "freed"
     /\ caller' = [caller EXCEPT ![u] = "ended"]
     /\ UNCHANGED error

\* A proxy needs the bus, not a server.
connect_dbus_client(u) ==
  /\ caller[u] = "closed"
  /\ \/ error[u] = "null" /\ Reports(u, FALSE, "ready")
     \/ Reports(u, TRUE, "closed")
  /\ UNCHANGED <<server, owner, mailbox, outbox, calls, history>>

close_dbus_client(u) ==
  /\ caller[u] = "ready"
  /\ caller' = [caller EXCEPT ![u] = "closed"] /\ error' = [error EXCEPT ![u] = "null"]
  /\ UNCHANGED <<server, owner, mailbox, outbox, calls, history>>

\* The call blocks its thread; without a server the bus refuses it.
Call(u, method) ==
  /\ caller[u] = "ready" /\ Len(calls) < MaxCalls
  /\ caller' = [caller EXCEPT ![u] = "waiting"]
  /\ calls' = Append(calls, [from |-> u, method |-> method, to |-> owner,
                             state |-> IF owner = Nobody THEN "failed" ELSE "sent",
                             listening |-> Listening])
  /\ mailbox' = IF owner = Nobody THEN mailbox
                ELSE [mailbox EXCEPT ![owner] = Append(@, Len(calls) + 1)]
  /\ UNCHANGED <<server, owner, outbox, history, error>>

\* No answer within the 25 seconds of GDBus.
Timeout(u) ==
  /\ \E n \in DOMAIN calls :
       /\ caller[u] = "waiting" /\ calls[n].from = u /\ calls[n].state = "sent"
       /\ calls' = [calls EXCEPT ![n].state = "failed"]
  /\ UNCHANGED <<server, owner, mailbox, outbox, history, caller, error>>

Completed(u, n) ==
  caller[u] = "waiting" /\ calls[n].from = u /\ calls[n].state \in {"answered", "failed"}

Result(n, failed) ==
  calls' = [calls EXCEPT ![n].state = IF failed THEN "failure" ELSE "success"]

\* trigger_*() return: what counts is error, whichever call has set it.
Failed(u, n) == calls[n].state = "failed" \/ error[u] = "freed"

Return(u) ==
  /\ \E n \in DOMAIN calls :
       /\ Completed(u, n) /\ Result(n, Failed(u, n))
       /\ Reports(u, Failed(u, n), "ready")
  /\ UNCHANGED <<server, owner, mailbox, outbox, history>>

-----------------------------------------------------------------------------
(* The daemon: scheduler.c.                                                *)

\* gsd_listener () until its loop, which is what hears; without a proxy it ends.
gsd_listener ==
  /\ caller[Daemon] = "closed"
  /\ \E to \in {"ready", "ended"} : caller' = [caller EXCEPT ![Daemon] = to]
  /\ UNCHANGED <<server, owner, mailbox, outbox, calls, history, error>>

\* notify_user () returns; its error is a local variable.
Notified ==
  /\ \E n \in DOMAIN calls : Completed(Daemon, n) /\ Result(n, calls[n].state = "failed")
  /\ caller' = [caller EXCEPT ![Daemon] = "ready"]
  /\ UNCHANGED <<server, owner, mailbox, outbox, history, error>>

\* scheduler () returns, and its process ends.
DaemonEnds ==
  /\ Listening
  /\ caller' = [caller EXCEPT ![Daemon] = "ended"]
  /\ UNCHANGED <<server, owner, mailbox, outbox, calls, history, error>>

-----------------------------------------------------------------------------

\* What servers do by themselves; SIGTERM and systemd's start are not theirs.
Serves(s) ==
  OwnName(s) \/ on_name_acquired(s) \/ on_name_lost(s) \/ Dispatch(s) \/ Write(s)

Uses(u) ==
  \/ connect_dbus_client(u) \/ close_dbus_client(u) \/ Return(u) \/ Timeout(u)
  \/ \E method \in Triggered : Call(u, method)

Notifies ==
  gsd_listener \/ Call(Daemon, "ReturnStatus") \/ Notified \/ Timeout(Daemon) \/ DaemonEnds

\* Every process is gone.
Over ==
  /\ \A s \in Servers : server[s] = "ended"
  /\ \A u \in Callers : caller[u] = "ended"
  /\ UNCHANGED vars

Next ==
  \/ \E s \in Servers : Serves(s) \/ Start(s) \/ exit_handler(s)
  \/ \E u \in Clients : Uses(u)
  \/ Notifies \/ Over

Spec == Init /\ [][Next]_vars

\* The kernel schedules every server.  Nothing is assumed of callers, of the
\* bus's time limit or of systemd.
FairSpec == Spec /\ \A s \in Servers : WF_vars(Serves(s))

-----------------------------------------------------------------------------
(* Properties.                                                             *)

\* A trigger that returns success has reached the daemon, if that was listening
\* when the call was made and still is: the signal is on the bus before the
\* answer, whatever servers end or are started meanwhile (main.c, on_handle_*).
SuccessMeansHeard ==
  \A n \in DOMAIN calls :
    calls[n].state = "success" /\ calls[n].listening /\ Listening => n \in heard

\* The server implements its promise.
Promise == INSTANCE SignalRelay WITH
             requests <- [n \in DOMAIN calls |->
                            [from |-> calls[n].from, method |-> calls[n].method]],
             signals <- bus
RelaysRequests == Promise!Spec

\* A call that has reached a server is relayed, refused because the server
\* was not ready, or dies with its server: it is never forgotten.
Waits(n)   == n \in DOMAIN calls /\ calls[n].state = "sent"
Relayed(n) == \E i \in DOMAIN bus : bus[i].call = n
EveryCallIsSettled == \A n \in 1..MaxCalls : Waits(n) ~> ~ Waits(n) \/ Relayed(n)

\* Whoever is given the name serves it or ends: a server that waited for the
\* name of another does not keep it without its interface (main.c, line 95).
NameIsServed == \A s \in Servers : owner = s ~> owner # s \/ server[s] = "serving"
=============================================================================
