------------------------------- MODULE Scheduler -------------------------------
(***************************************************************************)
(* scheduler () of gawaked: the part of the daemon that waits for the next *)
(* turn off rule and decides when, and until when, the computer sleeps.    *)
(*                                                                         *)
(* Three flows of control share static variables:                          *)
(*   - main creates the two threads and joins them; the SIGTERM handler    *)
(*     (prepare_for_shutdown) interrupts it;                               *)
(*   - listener (gsd_listener) handles the signals of the D-Bus server;    *)
(*   - checker (timed_checker) sleeps towards the turn off rule.           *)
(* A query of the database is a sequence of steps that the other threads   *)
(* can interleave with; a region under a mutex is one step.                *)
(*                                                                         *)
(* An operator that stands before the one it varies is a mutant of it: a   *)
(* mistake that a property is shown to notice.                             *)
(*                                                                         *)
(* now counts minutes, so the 60 seconds of the code are 1 and CHECK_DELAY *)
(* is the constant CheckDelay.                                             *)
(***************************************************************************)
EXTENDS RuleLookup, Sequences, FiniteSets

CONSTANTS
  CheckDelay,      \* CHECK_DELAY, in minutes
  NotificationTimes,
  Databases,       \* the contents the database may have
  StartTime,       \* the minute at which the daemon is started
  Horizon,         \* bound: the clock stops here
  SignalKinds,     \* the D-Bus signals users send
  MaxSignals,      \* bound: signals sent in a behaviour
  MaxEdits,        \* bound: edits of the database in a behaviour
  Faults,          \* what may fail: "open", "integrity", "query", "proxy", "thread";
                   \* in Gawaked also "parent", "pipe", "setid"
  AllowSigterm,    \* whether systemd may stop the service
  Uninitialised,   \* what uninitialised memory may hold: a time and a mode
  Pace             \* how fast threads and users are, see below

Modes == {"mem", "disk", "off"}
NO    == "no"      \* for internal use: rtcwake only sets the alarm

NoTime == -1       \* a date that no calendar has
Times  == Nat \cup {NoTime}

Database ==
  [turnoff : SUBSET Rule(Modes), turnon : SUBSET Rule(Modes), default_mode : Modes,
   notification_time : NotificationTimes, shutdown_fail : BOOLEAN,
   custom : Times, custom_mode : Modes]

\* "any": minutes may pass between any two steps; "prompt": a thread that can
\* run does so before the minute ends; "quiet": moreover, signals and SIGTERM
\* come only while every thread is blocked or asleep.
Paces == {"any", "prompt", "quiet"}

ASSUME SchedulerAssumption ==
  /\ CheckDelay \in Nat \ {0}
  /\ NotificationTimes \subseteq Nat
  /\ Databases \subseteq Database
  /\ StartTime \in Nat
  /\ Horizon \in Nat /\ MaxSignals \in Nat /\ MaxEdits \in Nat
  /\ SignalKinds \subseteq {"updated", "canceled", "schedule", "custom"}
  /\ AllowSigterm \in BOOLEAN /\ Pace \in Paces
  /\ Uninitialised \subseteq [wake : Times, mode : Modes \cup {NO}]

\* The return codes of the turn on queries, and the one stdlib.h adds to them.
RTCWAKE_ARGS_FAILURE   == 0
RTCWAKE_ARGS_SUCESS    == 1
RTCWAKE_ARGS_NOT_FOUND == 2
INVALID_RTCWAKE_ARGS   == 3
EXIT_SUCCESS           == 0
EXIT_FAILURE           == 1

VARIABLES
  now, db,             \* the clock and the database file
  upcoming_off_rule,   \* the static variables of scheduler.c ...
  rtcwake_args,
  canceled,
  timeinfo,            \* ... and the buffer localtime () returns to everyone
  gsd_loop, gsd_proxy, \* the listener's main loop, and whether it has a proxy
  inbox,               \* signals delivered to the proxy, not yet dispatched
  pc,                  \* where each flow of control is
  query,               \* the step of the query it runs, or "none"
  clock,               \* the minute its query has read
  ahead,               \* the i of its loop over the next seven days, 0 outside
  ret,                 \* what its last turn on query returned
  wakeAt,              \* when the checker's sleep () ends
  time_remaining,      \* local to timed_checker
  last_week_day,       \* static in day_changed
  cancelRequested,     \* pthread_cancel was called on the checker
  signals, edits,      \* how much of MaxSignals and MaxEdits is used
  decided,             \* history: who ended the wait
  served,              \* history: the minutes at which a rule was triggered
  foundAt,             \* history: when a turn off query last finished
  stale,               \* history: the database was edited after it began
  heard                \* history: signals handled since the checker left its loop

world   == <<now, db, signals, edits>>
shared  == <<upcoming_off_rule, rtcwake_args, canceled, timeinfo>>
loop    == <<gsd_loop, gsd_proxy, inbox>>
locals  == <<clock, ahead, ret, wakeAt, time_remaining, last_week_day, cancelRequested>>
history == <<decided, served, foundAt, stale, heard>>
vars    == <<world, shared, loop, locals, history, pc, query>>

Actors == {"checker", "listener", "handler"}

OffSteps == {"off_begin", "off_config", "off_clock", "off_today", "off_tomorrow", "off_make"}
OnSteps  == {"on_begin", "on_config", "on_clock", "on_today", "on_later", "on_validate",
             "on_compare"}
CustomSteps == {"custom_begin", "custom_config", "custom_row"}

MainSteps     == {"create_listener", "create_checker", "join_listener", "join_checker",
                  "returned", "failed", "crashed"}
CheckerSteps  == {"new", "start", "sync", "lap", "day", "measure", "decide", "notify",
                  "trigger", "retry", "quit", "done", "cancelled"}
ListenerSteps == {"new", "proxy", "loop", "run", "dispatch", "finalize", "exited"}
HandlerSteps  == {"idle", "override", "finalize", "served"}

WorldOK ==
  /\ now \in Nat /\ db \in Databases
  /\ signals \in 0..MaxSignals /\ edits \in 0..MaxEdits

SharedOK ==
  /\ upcoming_off_rule \in [found : BOOLEAN, mode : Modes, rule_time : Nat,
                            notification_time : Nat]
  /\ rtcwake_args \in [found : BOOLEAN, shutdown_fail : BOOLEAN, run_shutdown : BOOLEAN,
                       wake : Times, mode : Modes \cup {NO}]
  /\ canceled \in BOOLEAN
  /\ timeinfo \in [date : Nat, minute : Minutes, wday : WeekDays]

LoopOK ==
  /\ gsd_loop \in {"null", "created", "running", "quit", "freed"}
  /\ gsd_proxy \in BOOLEAN
  /\ inbox \in Seq(SignalKinds)

ControlOK ==
  /\ pc \in [main : MainSteps, checker : CheckerSteps, listener : ListenerSteps,
             handler : HandlerSteps]
  /\ query \in [Actors -> OffSteps \cup OnSteps \cup CustomSteps \cup {"none"}]

LocalsOK ==
  /\ clock \in [Actors -> Nat]
  /\ ahead \in [Actors -> 0..7]
  /\ ret \in [Actors -> 0..3]
  /\ wakeAt \in Nat /\ time_remaining \in Nat
  /\ last_week_day \in WeekDays \cup {-1}
  /\ cancelRequested \in BOOLEAN

HistoryOK ==
  /\ decided \subseteq Actors /\ served \subseteq Nat /\ foundAt \in Nat
  /\ stale \in BOOLEAN /\ heard \subseteq SignalKinds \cup {"updated"}

TypeOK == WorldOK /\ SharedOK /\ LoopOK /\ ControlOK /\ LocalsOK /\ HistoryOK

\* rtcwake_args lives on main ()'s stack and is not initialised.
Init ==
  /\ now = StartTime /\ db \in Databases
  /\ upcoming_off_rule = [found |-> FALSE, mode |-> "mem", rule_time |-> 0,
                          notification_time |-> 0]
  /\ \E args \in Uninitialised :
       rtcwake_args \in [found : {FALSE}, shutdown_fail : BOOLEAN, run_shutdown : BOOLEAN,
                         wake : {args.wake}, mode : {args.mode}]
  /\ canceled = FALSE
  /\ timeinfo = BrokenDown(0)
  /\ gsd_loop = "null" /\ gsd_proxy = FALSE /\ inbox = <<>>
  /\ pc = [main |-> "create_listener", checker |-> "new", listener |-> "new",
           handler |-> "idle"]
  /\ query = [a \in Actors |-> "none"]
  /\ clock = [a \in Actors |-> 0]
  /\ ahead = [a \in Actors |-> 0]
  /\ ret = [a \in Actors |-> 0]
  /\ wakeAt = 0 /\ time_remaining = 0 /\ last_week_day = -1
  /\ cancelRequested = FALSE
  /\ signals = 0 /\ edits = 0
  /\ decided = {} /\ served = {} /\ foundAt = 0 /\ stale = FALSE /\ heard = {}

-----------------------------------------------------------------------------
(* Control.                                                                *)

Terminated == pc.main \in {"returned", "failed", "crashed"}

Running(thread, label) == ~ Terminated /\ pc[thread] = label

\* The actor is at this label and not inside a query.
Resumes(a, label) == Running(a, label) /\ query[a] = "none"

Goto(thread, label) == pc' = [pc EXCEPT ![thread] = label]

Call(a, step) == query' = [query EXCEPT ![a] = step]

\* Every flow of control waits: for a time, a signal or another thread.
Blocked ==
  /\ \A a \in Actors : query[a] = "none"
  /\ pc.main \in {"join_listener", "join_checker"}
  /\ pc.main = "join_listener" => pc.listener # "exited"
  /\ pc.main = "join_checker" => pc.checker \notin {"done", "cancelled"}
  /\ pc.handler \in {"idle", "served"}
  /\ \/ pc.checker \in {"done", "cancelled"}
     \/ pc.checker \in {"lap", "notify", "trigger", "retry"} /\ now < wakeAt /\ ~ cancelRequested
  /\ \/ pc.listener = "exited"
     \/ pc.listener = "dispatch" /\ inbox = <<>> /\ gsd_loop # "quit"

QueryStep(a, from, to) ==
  /\ ~ Terminated
  /\ query[a] = from
  /\ Call(a, to)
  /\ foundAt' = IF from = "off_make" THEN now ELSE foundAt
  /\ stale' = (stale /\ from # "off_begin")
  /\ ahead' = [ahead EXCEPT ![a] = IF to # "on_later" THEN 0
                                   ELSE IF from = "on_later" THEN ahead[a] + 1 ELSE 1]
  /\ UNCHANGED <<world, loop, pc, wakeAt, time_remaining, last_week_day, cancelRequested,
                 decided, served, heard>>

Return(a, code) == ret' = [ret EXCEPT ![a] = code]

-----------------------------------------------------------------------------
(* query_upcoming_off_rule (): its return value is ignored by every caller *)

OffBegin(a) ==
  /\ QueryStep(a, "off_begin", "off_config")
  /\ upcoming_off_rule' = [upcoming_off_rule EXCEPT !.found = FALSE]
  /\ UNCHANGED <<rtcwake_args, canceled, timeinfo, clock, ret>>

\* Opening the file, its integrity check and the SELECT on config.
OffConfig(a) ==
  /\ QueryStep(a, "off_config", "off_clock")
  /\ upcoming_off_rule' = [upcoming_off_rule EXCEPT !.notification_time = db.notification_time]
  /\ UNCHANGED <<rtcwake_args, canceled, timeinfo, clock, ret>>

OffFault(a) ==
  /\ Faults \cap {"open", "integrity", "query"} # {}
  /\ \/ QueryStep(a, "off_config", "none")
     \/ "query" \in Faults /\ QueryStep(a, "off_today", "none")
     \/ "query" \in Faults /\ QueryStep(a, "off_tomorrow", "none")
  /\ UNCHANGED <<shared, clock, ret>>

OffClock(a) ==
  /\ QueryStep(a, "off_clock", "off_today")
  /\ timeinfo' = BrokenDown(now)
  /\ clock' = [clock EXCEPT ![a] = now]
  /\ UNCHANGED <<upcoming_off_rule, rtcwake_args, canceled, ret>>

\* The rule is found before its rule_time is made: mktime () comes later.
Found(r) == upcoming_off_rule' = [upcoming_off_rule EXCEPT !.found = TRUE, !.mode = r.mode]

OffToday(a) ==
  LET today == LaterToday(db.turnoff, WeekDay(clock[a]), Minute(clock[a]))
  IN  /\ \/ \E r \in today :
              /\ QueryStep(a, "off_today", "off_make")
              /\ Found(r)
              /\ timeinfo' = [timeinfo EXCEPT !.minute = r.minute]
         \/ /\ today = {}
            /\ QueryStep(a, "off_today",
                         IF upcoming_off_rule.found THEN "off_make" ELSE "off_tomorrow")
            /\ UNCHANGED <<upcoming_off_rule, timeinfo>>
      /\ UNCHANGED <<rtcwake_args, canceled, clock, ret>>

\* The week day is read from the shared buffer, the date from SQL's 'now'.
OffTomorrow(a) ==
  LET tomorrow == Tomorrow(db.turnoff, timeinfo.wday)
  IN  /\ QueryStep(a, "off_tomorrow", "off_make")
      /\ \/ \E r \in tomorrow :
              /\ Found(r)
              /\ timeinfo' = [timeinfo EXCEPT !.date = Date(now) + 1, !.minute = r.minute]
         \/ tomorrow = {} /\ UNCHANGED <<upcoming_off_rule, timeinfo>>
      /\ UNCHANGED <<rtcwake_args, canceled, clock, ret>>

\* rule_time = mktime (timeinfo), which also recomputes the week day.
OffMake(a) ==
  /\ QueryStep(a, "off_make", "none")
  /\ upcoming_off_rule' = [upcoming_off_rule EXCEPT
                             !.rule_time = At(timeinfo.date, timeinfo.minute)]
  /\ timeinfo' = [timeinfo EXCEPT !.wday = timeinfo.date % 7]
  /\ UNCHANGED <<rtcwake_args, canceled, clock, ret>>

-----------------------------------------------------------------------------
(* query_upcoming_on_rule (use_default_mode): only the checker passes false *)

OnBegin(a) ==
  /\ \/ QueryStep(a, "on_begin", "on_config")
     \/ QueryStep(a, "custom_begin", "custom_config")
  /\ rtcwake_args' = [rtcwake_args EXCEPT !.found = FALSE]
  /\ UNCHANGED <<upcoming_off_rule, canceled, timeinfo, clock, ret>>

DefaultMode(a) == db.default_mode
ModeFor(a)     == IF a = "checker" THEN upcoming_off_rule.mode ELSE db.default_mode

OnConfig(a) ==
  /\ QueryStep(a, "on_config", "on_clock")
  /\ rtcwake_args' = [rtcwake_args EXCEPT
                        !.mode = ModeFor(a),
                        !.shutdown_fail = db.shutdown_fail]
  /\ UNCHANGED <<upcoming_off_rule, canceled, timeinfo, clock, ret>>

\* A failed integrity check returns EXIT_FAILURE; the other errors return
\* RTCWAKE_ARGS_FAILURE.  query_custom_schedule () checks no integrity.
OnFault(a) ==
  /\ \/ /\ "integrity" \in Faults
        /\ QueryStep(a, "on_config", "none")
        /\ Return(a, EXIT_FAILURE)
     \/ /\ Faults \cap {"open", "query"} # {}
        /\ QueryStep(a, "on_config", "none") \/ QueryStep(a, "custom_config", "none")
        /\ Return(a, RTCWAKE_ARGS_FAILURE)
     \/ /\ "query" \in Faults
        /\ \E step \in {"on_today", "on_later", "custom_row"} : QueryStep(a, step, "none")
        /\ Return(a, RTCWAKE_ARGS_FAILURE)
  /\ UNCHANGED <<shared, clock>>

OnClock(a) ==
  /\ QueryStep(a, "on_clock", "on_today")
  /\ timeinfo' = BrokenDown(now)
  /\ clock' = [clock EXCEPT ![a] = now]
  /\ UNCHANGED <<upcoming_off_rule, rtcwake_args, canceled, ret>>

FillIn(wake) ==
  rtcwake_args' = [rtcwake_args EXCEPT !.found = TRUE, !.wake = wake]

OnToday(a) ==
  LET today == LaterToday(db.turnon, WeekDay(clock[a]), Minute(clock[a]))
  IN  /\ \/ \E r \in today :
              /\ QueryStep(a, "on_today", "on_validate")
              /\ FillIn(At(Date(now), r.minute))
         \/ /\ today = {}
            /\ QueryStep(a, "on_today", "on_later")
            /\ UNCHANGED rtcwake_args
      /\ UNCHANGED <<upcoming_off_rule, canceled, timeinfo, clock, ret>>

\* One turn of the loop over the next seven days, which reads the week day from
\* the shared buffer, the date from SQL's 'now' and the rules every time.
OnLater(a) ==
  LET first == OnDayAhead(db.turnon, timeinfo.wday, ahead[a])
  IN  /\ \/ \E r \in first :
              /\ QueryStep(a, "on_later", "on_validate")
              /\ FillIn(At(Date(now) + ahead[a], r.minute))
              /\ UNCHANGED ret
         \/ /\ first = {} /\ ahead[a] < 7
            /\ QueryStep(a, "on_later", "on_later")
            /\ UNCHANGED <<rtcwake_args, ret>>
         \/ /\ first = {} /\ ahead[a] = 7
            /\ QueryStep(a, "on_later", "none")
            /\ Return(a, RTCWAKE_ARGS_NOT_FOUND)
            /\ UNCHANGED rtcwake_args
      /\ UNCHANGED <<upcoming_off_rule, canceled, timeinfo, clock>>

-----------------------------------------------------------------------------
(* query_custom_schedule (); its first step is OnBegin                     *)

CustomConfig(a) ==
  /\ QueryStep(a, "custom_config", "custom_row")
  /\ rtcwake_args' = [rtcwake_args EXCEPT !.shutdown_fail = db.shutdown_fail]
  /\ UNCHANGED <<upcoming_off_rule, canceled, timeinfo, clock, ret>>

CustomRow(a) ==
  /\ QueryStep(a, "custom_row", "on_validate")
  /\ rtcwake_args' = [rtcwake_args EXCEPT !.found = TRUE, !.wake = db.custom,
                                          !.mode = db.custom_mode]
  /\ UNCHANGED <<upcoming_off_rule, canceled, timeinfo, clock, ret>>

-----------------------------------------------------------------------------
(* validade_rtcwake_args (), which ends both queries of a wake up          *)

\* The date is made and broken down again, in the buffer everyone shares ...
OnValidate(a) ==
  /\ QueryStep(a, "on_validate", "on_compare")
  /\ timeinfo' = IF rtcwake_args.wake = NoTime
                 THEN BrokenDown(0) ELSE BrokenDown(At(Date(rtcwake_args.wake), 0))
  /\ UNCHANGED <<upcoming_off_rule, rtcwake_args, canceled, clock, ret>>

\* ... and compared with the arguments, before the buffer gets the current time.
Valid(args) == args.wake # NoTime /\ args.mode \in Modes \cup {NO}

ReturnValidation(a, valid) == Return(a, IF valid THEN 1 ELSE -1)
ValidatedReturn(a, valid) ==
  Return(a, IF valid THEN RTCWAKE_ARGS_SUCESS ELSE INVALID_RTCWAKE_ARGS)

OnCompare(a) ==
  /\ QueryStep(a, "on_compare", "none")
  /\ ValidatedReturn(a, Valid(rtcwake_args) /\ timeinfo.date = Date(rtcwake_args.wake))
  /\ timeinfo' = BrokenDown(now)
  /\ UNCHANGED <<upcoming_off_rule, rtcwake_args, canceled, clock>>

Query(a) ==
  \/ OffBegin(a) \/ OffConfig(a) \/ OffFault(a) \/ OffClock(a) \/ OffToday(a)
  \/ OffTomorrow(a) \/ OffMake(a)
  \/ OnBegin(a) \/ OnConfig(a) \/ OnFault(a) \/ OnClock(a) \/ OnToday(a) \/ OnLater(a)
  \/ CustomConfig(a) \/ CustomRow(a) \/ OnValidate(a) \/ OnCompare(a)

-----------------------------------------------------------------------------
(* Ending the wait: finalize_timed_checker () and finalize_gsd_listener () *)

\* g_main_loop_quit () does nothing on NULL and on a loop that does not run
\* yet; on a loop already freed it may crash the process or do nothing.
ForgetLoop(a) ==
  /\ UNCHANGED gsd_loop
  /\ decided' = decided \cup {a}
QuitLoop(a) ==
  /\ gsd_loop' = IF gsd_loop = "running" THEN "quit" ELSE gsd_loop
  /\ decided' = decided \cup {a}

ForgetChecker == UNCHANGED cancelRequested
CancelChecker == cancelRequested' = TRUE

\* pthread_cancel () on a thread that was not created reads a null pointer.
StopScheduler(a, next) ==
  \/ /\ pc.checker # "new"
     /\ CancelChecker
     /\ QuitLoop(a)
     /\ pc' = next
  \/ /\ pc.checker = "new" \/ gsd_loop = "freed"
     /\ pc' = [pc EXCEPT !.main = "crashed"]
     /\ UNCHANGED <<cancelRequested, gsd_loop, decided>>

\* schedule_finalize (ret); notify_user () changes nothing here.
ScheduleFinalize(a, next) ==
  /\ Resumes(a, "finalize")
  /\ \/ /\ ret[a] # RTCWAKE_ARGS_SUCESS /\ rtcwake_args.shutdown_fail
        /\ rtcwake_args' = [rtcwake_args EXCEPT !.run_shutdown = TRUE]
        /\ StopScheduler(a, next)
     \/ /\ ret[a] # RTCWAKE_ARGS_SUCESS /\ ~ rtcwake_args.shutdown_fail
        /\ pc' = next
        /\ UNCHANGED <<rtcwake_args, cancelRequested, gsd_loop, decided>>
     \/ /\ ret[a] = RTCWAKE_ARGS_SUCESS
        /\ StopScheduler(a, next)
        /\ UNCHANGED rtcwake_args
  /\ UNCHANGED <<world, upcoming_off_rule, canceled, timeinfo, gsd_proxy, inbox, query, clock,
                 ahead, ret, wakeAt, time_remaining, last_week_day, served, foundAt, stale,
                 heard>>

-----------------------------------------------------------------------------
(* The main thread.                                                        *)

MainGoto(from, to) ==
  /\ Running("main", from)
  /\ pc.handler \in {"idle", "served"}     \* the handler runs on this thread
  /\ Goto("main", to)
  /\ UNCHANGED <<world, shared, loop, locals, history, query>>

MainCreate ==
  \/ /\ Running("main", "create_listener")
     /\ pc.handler \in {"idle", "served"}
     /\ pc' = [pc EXCEPT !.main = "create_checker", !.listener = "proxy"]
     /\ UNCHANGED <<world, shared, loop, locals, history, query>>
  \/ /\ Running("main", "create_checker")
     /\ pc.handler \in {"idle", "served"}
     /\ pc' = [pc EXCEPT !.main = "join_listener", !.checker = "start"]
     /\ UNCHANGED <<world, shared, loop, locals, history, query>>

\* pthread_create () failed: scheduler () returns EXIT_FAILURE.
MainFail ==
  /\ "thread" \in Faults
  /\ MainGoto("create_listener", "failed") \/ MainGoto("create_checker", "failed")

MainJoinListenerOnly ==
  \/ pc.listener = "exited" /\ MainGoto("join_listener", "join_checker")
  \/ MainGoto("join_checker", "returned")
MainJoin ==
  \/ pc.listener = "exited" /\ MainGoto("join_listener", "join_checker")
  \/ pc.checker \in {"done", "cancelled"} /\ MainGoto("join_checker", "returned")

\* systemd sends SIGTERM once: prepare_for_shutdown () starts.
Sigterm ==
  /\ AllowSigterm
  /\ Pace = "quiet" => Blocked
  /\ Running("handler", "idle")
  /\ Goto("handler", "override")
  /\ Call("handler", "on_begin")
  /\ UNCHANGED <<world, shared, loop, locals, history>>

KeepMode(args) == [args EXCEPT !.shutdown_fail = FALSE]
Override(args) == [args EXCEPT !.mode = NO, !.shutdown_fail = FALSE]

HandlerOverride ==
  /\ Resumes("handler", "override")
  /\ rtcwake_args' = Override(rtcwake_args)
  /\ Goto("handler", "finalize")
  /\ UNCHANGED <<world, upcoming_off_rule, canceled, timeinfo, loop, locals, history, query>>

Handler ==
  \/ Query("handler")
  \/ HandlerOverride
  \/ ScheduleFinalize("handler", [pc EXCEPT !.handler = "served"])

-----------------------------------------------------------------------------
(* gsd_listener ()                                                         *)

ListenerConnect ==
  /\ Running("listener", "proxy")
  /\ \/ gsd_proxy' = TRUE /\ Goto("listener", "loop")
     \/ "proxy" \in Faults /\ gsd_proxy' = FALSE /\ Goto("listener", "exited")
  /\ UNCHANGED <<world, shared, gsd_loop, inbox, locals, history, query>>

ListenerRun ==
  /\ \/ Running("listener", "loop") /\ gsd_loop' = "created" /\ Goto("listener", "run")
     \/ Running("listener", "run") /\ gsd_loop' = "running" /\ Goto("listener", "dispatch")
  /\ UNCHANGED <<world, shared, gsd_proxy, inbox, locals, history, query>>

\* The checker has left its loop and not yet decided on the rule.
InLastLap == pc.checker \in {"decide", "notify", "trigger"}

\* One signal is dispatched.  A loop that was told to quit finishes the
\* iteration it is in.
ListenerDispatch ==
  /\ Resumes("listener", "dispatch")
  /\ inbox # <<>>
  /\ inbox' = Tail(inbox)
  /\ heard' = IF InLastLap THEN heard \cup {Head(inbox)} ELSE heard
  /\ \/ /\ Head(inbox) = "updated"                     \* on_database_updated_signal
        /\ Call("listener", "off_begin")
        /\ UNCHANGED <<pc, canceled>>
     \/ /\ Head(inbox) = "canceled"                    \* on_rule_canceled_signal
        /\ canceled' = TRUE
        /\ UNCHANGED <<pc, query>>
     \/ /\ Head(inbox) = "schedule"                    \* on_schedule_requested_signal
        /\ Call("listener", "on_begin")
        /\ Goto("listener", "finalize")
        /\ UNCHANGED canceled
     \/ /\ Head(inbox) = "custom"                      \* on_custom_schedule_requested_signal
        /\ Call("listener", "custom_begin")
        /\ Goto("listener", "finalize")
        /\ UNCHANGED canceled
  /\ UNCHANGED <<world, upcoming_off_rule, rtcwake_args, timeinfo, gsd_loop, gsd_proxy, locals,
                 decided, served, foundAt, stale>>

\* The loop returns and is unreferenced with the proxy.
ListenerExit ==
  /\ Resumes("listener", "dispatch")
  /\ gsd_loop = "quit"
  /\ gsd_loop' = "freed"
  /\ gsd_proxy' = FALSE
  /\ Goto("listener", "exited")
  /\ UNCHANGED <<world, shared, inbox, locals, history, query>>

Listener ==
  \/ Query("listener")
  \/ ListenerConnect \/ ListenerRun \/ ListenerDispatch \/ ListenerExit
  \/ ScheduleFinalize("listener", [pc EXCEPT !.listener = "dispatch"])

-----------------------------------------------------------------------------
(* timed_checker ()                                                        *)

\* get_time_remaining (), clipped at 0
Remaining ==
  IF upcoming_off_rule.rule_time > now THEN upcoming_off_rule.rule_time - now ELSE 0

\* The label is reached once the sleep () before it is over.
Wakes(label) == Resumes("checker", label) /\ wakeAt <= now

CheckerStart ==
  /\ Resumes("checker", "start")
  /\ Call("checker", "off_begin")
  /\ Goto("checker", "sync")
  /\ UNCHANGED <<world, shared, loop, locals, history>>

\* sync_time (): up to a minute, none if the minute has just begun
CheckerSync ==
  /\ Resumes("checker", "sync")
  /\ wakeAt' \in {now, now + 1}
  /\ timeinfo' = BrokenDown(now)
  /\ Goto("checker", "lap")
  /\ UNCHANGED <<world, upcoming_off_rule, rtcwake_args, canceled, loop, clock, ahead, ret,
                 time_remaining, last_week_day, cancelRequested, history, query>>

\* The top of TIMED_CHECKER_LOOP; day_changed () runs only if no rule was found.
CheckerLap ==
  /\ Wakes("lap")
  /\ \/ /\ upcoming_off_rule.found
        /\ Goto("checker", "measure")
        /\ UNCHANGED timeinfo
     \/ /\ ~ upcoming_off_rule.found
        /\ Goto("checker", "day")
        /\ timeinfo' = BrokenDown(now)
  /\ UNCHANGED <<world, upcoming_off_rule, rtcwake_args, canceled, loop, locals, history, query>>

\* day_changed () compares what is in the shared buffer by then.
ChangedOnce == last_week_day = -1
day_changed == timeinfo.wday # last_week_day

CheckerDay ==
  /\ Resumes("checker", "day")
  /\ Goto("checker", "measure")
  /\ last_week_day' = timeinfo.wday
  /\ IF day_changed THEN Call("checker", "off_begin") ELSE UNCHANGED query
  /\ UNCHANGED <<world, shared, loop, clock, ahead, ret, wakeAt, time_remaining,
                 cancelRequested, history>>

\* Close enough to the rule to leave the loop?
NearNotification == /\ upcoming_off_rule.found
                    /\ Remaining <= upcoming_off_rule.notification_time
NearTwoDelays == /\ upcoming_off_rule.found
                 /\ Remaining <= 2 * CheckDelay + upcoming_off_rule.notification_time + 1
Near == /\ upcoming_off_rule.found
        /\ Remaining <= CheckDelay + upcoming_off_rule.notification_time + 1

CheckerMeasure ==
  /\ Resumes("checker", "measure")
  /\ \/ /\ Near
        /\ time_remaining' = Remaining
        /\ Call("checker", "on_begin")
        /\ Goto("checker", "decide")
        /\ heard' = IF query["listener"] \in OffSteps THEN {"updated"} ELSE {}
        /\ UNCHANGED wakeAt
     \/ /\ ~ Near
        /\ wakeAt' = now + CheckDelay
        /\ Goto("checker", "lap")
        /\ UNCHANGED <<time_remaining, query, heard>>
  /\ UNCHANGED <<world, shared, loop, clock, ahead, ret, last_week_day, cancelRequested, decided,
                 served, foundAt, stale>>

\* The code compares with EXIT_SUCCESS, which is RTCWAKE_ARGS_FAILURE.
CheckerDecide ==
  /\ Resumes("checker", "decide")
  /\ rtcwake_args' = [rtcwake_args EXCEPT
       !.run_shutdown = (ret["checker"] # EXIT_SUCCESS /\ rtcwake_args.shutdown_fail)]
  /\ wakeAt' = IF time_remaining > upcoming_off_rule.notification_time
               THEN now + (time_remaining - upcoming_off_rule.notification_time)
               ELSE now
  /\ Goto("checker", "notify")
  /\ UNCHANGED <<world, upcoming_off_rule, canceled, timeinfo, loop, clock, ahead, ret,
                 time_remaining, last_week_day, cancelRequested, history, query>>

NoWait      == wakeAt' = now
WaitAgain   == wakeAt' = now + time_remaining
WaitForRule == wakeAt' = now + Remaining

CheckerNotify ==
  /\ Wakes("notify")
  /\ WaitForRule
  /\ Goto("checker", "trigger")
  /\ UNCHANGED <<world, shared, loop, clock, ahead, ret, time_remaining, last_week_day,
                 cancelRequested, history, query>>

\* The schedule was canceled, or there is none to make.
DroppedIfCanceled == canceled
DroppedIfFailed   == ret["checker"] # RTCWAKE_ARGS_SUCESS /\ ~ rtcwake_args.run_shutdown
Dropped           == canceled \/ DroppedIfFailed

\* The rule is dropped for a minute, or it is let through ...
CheckerTrigger ==
  /\ Wakes("trigger")
  /\ served' = served \cup {now}
  /\ \/ /\ Dropped
        /\ wakeAt' = now + 1
        /\ Goto("checker", "retry")
     \/ /\ ~ Dropped
        /\ Goto("checker", "quit")
        /\ UNCHANGED wakeAt
  /\ UNCHANGED <<world, shared, loop, clock, ahead, ret, time_remaining, last_week_day,
                 cancelRequested, decided, foundAt, stale, heard, query>>

\* ... and the wait is over: finalize_gsd_listener ().  The listener may have
\* freed the loop in between.
CheckerQuits ==
  /\ Resumes("checker", "quit")
  /\ \/ QuitLoop("checker") /\ Goto("checker", "done")
     \/ /\ gsd_loop = "freed"
        /\ Goto("main", "crashed")
        /\ UNCHANGED <<gsd_loop, decided>>
  /\ UNCHANGED <<world, shared, gsd_proxy, inbox, locals, served, foundAt, stale, heard, query>>

StaysCanceled == UNCHANGED canceled
ForgetCancel  == canceled' = FALSE

CheckerRetry ==
  /\ Wakes("retry")
  /\ ForgetCancel
  /\ Call("checker", "off_begin")
  /\ Goto("checker", "lap")
  /\ UNCHANGED <<world, upcoming_off_rule, rtcwake_args, timeinfo, loop, locals, history>>

\* pthread_cancel () takes effect where the thread sleeps, reads the database
\* or calls the D-Bus server.
CheckerCancelled ==
  /\ ~ Terminated /\ cancelRequested
  /\ \/ query["checker"] \in {"off_config", "off_today", "off_tomorrow", "on_config", "on_today",
                              "on_later"}
     \/ query["checker"] = "none" /\ pc.checker \in {"lap", "notify", "trigger", "retry"}
  /\ Call("checker", "none")
  /\ Goto("checker", "cancelled")
  /\ UNCHANGED <<world, shared, loop, locals, history>>

Checker ==
  \/ Query("checker")
  \/ CheckerStart \/ CheckerSync \/ CheckerLap \/ CheckerDay \/ CheckerMeasure
  \/ CheckerDecide \/ CheckerNotify \/ CheckerTrigger \/ CheckerRetry \/ CheckerQuits
  \/ CheckerCancelled

-----------------------------------------------------------------------------
(* The environment: the clock, the database's other users, the D-Bus server *)

Tick ==
  /\ ~ Terminated
  /\ now < Horizon
  /\ Pace # "any" => Blocked
  /\ now' = now + 1
  /\ UNCHANGED <<db, signals, edits, shared, loop, locals, history, pc, query>>

\* sqlite3_exec () by a database-connection client; it sends no signal.
EditDatabase ==
  /\ ~ Terminated
  /\ edits < MaxEdits
  /\ edits' = edits + 1
  /\ db' \in Databases \ {db}
  /\ stale' = TRUE
  /\ UNCHANGED <<now, signals, shared, loop, locals, decided, served, foundAt, heard, pc, query>>

\* The D-Bus server emits a signal; nobody hears it without a proxy.
EmitSignal ==
  /\ ~ Terminated
  /\ signals < MaxSignals
  /\ Pace = "quiet" => Blocked
  /\ signals' = signals + 1
  /\ \E kind \in SignalKinds : inbox' = IF gsd_proxy THEN Append(inbox, kind) ELSE inbox
  /\ UNCHANGED <<now, db, edits, shared, gsd_loop, gsd_proxy, locals, history, pc, query>>

\* Nothing runs after scheduler () is over, or beyond the horizon.
Halted == (Terminated \/ now = Horizon) /\ UNCHANGED vars

Main == MainCreate \/ MainFail \/ MainJoin

Next ==
  \/ Main \/ Sigterm \/ Handler \/ Listener \/ Checker
  \/ Tick \/ EditDatabase \/ EmitSignal \/ Halted

Spec == Init /\ [][Next]_vars

\* The kernel schedules every thread, and time passes; users need not act.
Fairness ==
  /\ WF_vars(Main) /\ WF_vars(Handler) /\ WF_vars(Listener) /\ WF_vars(Checker)
  /\ WF_vars(Tick)

FairSpec == Spec /\ Fairness

-----------------------------------------------------------------------------
(* Properties.                                                             *)

\* The turn off rule is triggered (lines 212-239) only at a minute at which
\* the database has one.
FiresOnlyAtRules == \A t \in served : Occurs(db.turnoff, t)

\* No turn off rule is slept through, whatever the laps of the loop, the days
\* that pass without a rule and the rules that were canceled: the one excuse is
\* the minute the checker sleeps after a rule it has dropped (line 226).
NoRuleMissed ==
  \A t \in 0..(now - 1) :
    /\ t > StartTime
    /\ Occurs(db.turnoff, t)
    => t \in served \/ t - 1 \in served

\* The rule the sleeping checker heads for is the one the database had when it
\* was last queried, today's next or tomorrow's first, and there is none only if
\* the database had none.
OffRuleIsFresh ==
  Blocked /\ pc.checker = "lap" /\ ~ stale =>
    IF upcoming_off_rule.found
    THEN IsNextOccurrence(db.turnoff, foundAt, upcoming_off_rule.rule_time)
    ELSE \A t \in (foundAt + 1)..(At(Date(foundAt) + 2, 0) - 1) : ~ Occurs(db.turnoff, t)

\* The notification of line 209 is never early, and late only when the rule was
\* found late (note #1): the laps of CHECK_DELAY never oversleep it.
NotifiedInTime ==
  [][pc.checker = "notify" /\ pc'.checker = "trigger" =>
       LET due == upcoming_off_rule.rule_time - upcoming_off_rule.notification_time
       IN  due <= now /\ (now <= due \/ now <= foundAt + 1)]_vars

\* What a query returns to rtcwake_args is the first wake up still ahead: a turn
\* on rule occurs then, and none occurs between now and then.
WakeIsEarliest ==
  rtcwake_args.found =>
    /\ Occurs(db.turnon, rtcwake_args.wake)
    /\ \A t \in (now + 1)..(rtcwake_args.wake - 1) : ~ Occurs(db.turnon, t)

\* The turn on rule is looked up once, before the notification: a turn on rule
\* that comes in between is the wake up all the same.  But it is looked up no
\* longer before than the last lap lasts.
WakeIsRecent ==
  pc.main = "returned" /\ decided = {"checker"} /\ rtcwake_args.found =>
    \E t \in 0..now :
      /\ now <= t + CheckDelay + upcoming_off_rule.notification_time + 1
      /\ IsNextOccurrence(db.turnon, t, rtcwake_args.wake)

\* A cancel that is handled while the checker is in the last lap of a rule keeps
\* that rule from being scheduled (lines 222-231), in every interleaving.
CancelHonoured ==
  [][pc.checker = "trigger" /\ pc'.checker = "quit" => "canceled" \notin heard]_vars

\* One cancel drops one rule: what it has dropped is not what drops the next
\* (line 227), where there is something to schedule.
CancelDropsOneRule ==
  db.shutdown_fail \/ (\E r \in db.turnon : r.active /\ r.days # {}) =>
    Cardinality(served) <= signals + 1

\* However slow the threads are, a rule is never triggered before its time,
\* unless a signal has the rule queried again in the checker's last lap.
NeverEarly ==
  [][pc.checker = "trigger" /\ pc'.checker \in {"quit", "retry"} /\ "updated" \notin heard =>
       upcoming_off_rule.rule_time <= now]_vars

\* Likewise a rule is triggered less than CHECK_DELAY after its time, although a
\* rule that appears in the database is noticed only between two sleeps.
TriggeredInTime ==
  [][pc.checker = "trigger" /\ pc'.checker \in {"quit", "retry"} /\ "updated" \notin heard =>
       now < upcoming_off_rule.rule_time + CheckDelay]_vars

\* The computer sleeps or shuts down in the mode of the rule that was triggered.
ModeOfTheRule ==
  pc.main = "returned" /\ decided = {"checker"} =>
    \E r \in Active(db.turnoff, WeekDay(now)) :
      r.minute = Minute(now) /\ r.mode = rtcwake_args.mode

\* scheduler () returns success only after somebody decided: the checker, or
\* who canceled it.
ReturnedIsDecided == pc.main = "returned" => decided # {}

\* What scheduler () hands over says when to wake up, or to shut down instead.
HandedOver ==
  pc.main = "returned" =>
    \/ rtcwake_args.found /\ rtcwake_args.wake # NoTime
    \/ rtcwake_args.run_shutdown

\* Once somebody has decided, scheduler () returns.
DecidedReturns == decided # {} ~> Terminated

-----------------------------------------------------------------------------
(* What comments say and the code does not do: TLC refutes these.          *)

\* Line 1172: "Do not shutdown using gawaked" when systemd stops the service.
SigtermDoesNotShutDown ==
  pc.main = "returned" /\ decided = {"handler"} => ~ rtcwake_args.run_shutdown
=============================================================================
