------------------------- MODULE SchedulerTimingProofs -------------------------
(***************************************************************************)
(* What the scheduler promises in time: that the rule it heads for is the  *)
(* next one, that it is triggered in its minute, with its notification and *)
(* in its mode, that none is missed, and that the wake up it hands over is *)
(* the next one as well.                                                   *)
(*                                                                         *)
(* None of this survives arbitrary delays: the clock that a query has read *)
(* must still be right when the query ends, and the buffer of localtime () *)
(* still its own.  The theorems therefore say on which conditions on the   *)
(* environment they hold: Calm, QueriesSucceed, NoSchedule.                *)
(***************************************************************************)
EXTENDS SchedulerProofs

-----------------------------------------------------------------------------
(* The conditions.                                                         *)

\* Threads keep up with the clock, and either every request comes while they
\* wait or the only requests are cancels, which run no query.
Calm ==
  \/ Pace = "quiet"
  \/ Pace = "prompt" /\ SignalKinds \subseteq {"canceled"} /\ ~ AllowSigterm

QueriesSucceed == Faults \cap {"open", "integrity", "query"} = {}

-----------------------------------------------------------------------------
(* What a step does.                                                       *)

\* The part of the state that the threads' queries and sleeps are about.
steady == <<now, db, edits, upcoming_off_rule, rtcwake_args, canceled, timeinfo, clock, ahead,
            ret, wakeAt, time_remaining, last_week_day, cancelRequested, decided, served, foundAt,
            stale, heard, query>>

\* A step of main or of the environment that touches none of it.
Aside == UNCHANGED steady /\ pc'.checker = pc.checker /\ pc'.handler = pc.handler

\* main creates the checker.
Created ==
  /\ UNCHANGED <<steady, inbox, gsd_loop, gsd_proxy>>
  /\ pc.main = "create_checker"
  /\ pc' = [pc EXCEPT !.main = "join_listener", !.checker = "start"]

\* Which thread is where, while it runs which query.
Labels ==
  /\ query["checker"] \notin CustomSteps
  /\ query["checker"] \in OffSteps => pc.checker \in {"sync", "lap", "measure"}
  /\ query["checker"] \in OnSteps => pc.checker = "decide"
  /\ query["listener"] \in OffSteps => pc.listener = "dispatch"
  /\ query["listener"] \in OnSteps \cup CustomSteps => pc.listener = "finalize"
  /\ query["handler"] \in OnSteps \cup {"none"}
  /\ query["handler"] # "none" => pc.handler = "override"
  /\ pc.main \in {"create_listener", "create_checker"} => pc.checker = "new"
  /\ pc.main = "create_listener" => pc.listener = "new"

\* What a step of a query leaves alone, and which query goes on.
LEMMA QueryFrame ==
  ASSUME TypeOK, NEW a \in Actors, Query(a)
  PROVE  /\ UNCHANGED <<now, db, signals, edits, gsd_loop, gsd_proxy, inbox, pc, wakeAt, canceled,
                        time_remaining, last_week_day, cancelRequested, decided, served, heard>>
         /\ \A b \in Actors : b # a => /\ query'[b] = query[b]
                                       /\ clock'[b] = clock[b] /\ ret'[b] = ret[b]
                                       /\ ahead'[b] = ahead[b]
         /\ query[a] \in OffSteps \cup OnSteps \cup CustomSteps
         /\ query[a] \in OffSteps =>
              query'[a] \in OffSteps \cup {"none"} /\ UNCHANGED <<rtcwake_args, ret>>
         /\ query[a] \in OnSteps => query'[a] \in OnSteps \cup {"none"}
         /\ query[a] \in CustomSteps => query'[a] \in OnSteps \cup CustomSteps \cup {"none"}
         /\ query[a] \notin OffSteps => UNCHANGED <<upcoming_off_rule, foundAt, stale>>
<1>1. /\ UNCHANGED <<now, db, signals, edits, gsd_loop, gsd_proxy, inbox, pc, wakeAt,
                     time_remaining, last_week_day, cancelRequested, decided, served, heard>>
  BY DEF Query, QueryStep, OffBegin, OffConfig, OffFault, OffClock, OffToday, OffTomorrow, OffMake,
         OnBegin, OnConfig, OnFault, OnClock, OnToday, OnLater, OnValidate, OnCompare, CustomConfig,
         CustomRow, world, loop
<1>2. UNCHANGED canceled
  BY QueryStays
<1>3. ASSUME OffBegin(a) \/ OffConfig(a) \/ OffFault(a) \/ OffClock(a) \/ OffToday(a)
             \/ OffTomorrow(a) \/ OffMake(a)
      PROVE  /\ query[a] \in OffSteps
             /\ query'[a] \in OffSteps \cup {"none"} /\ UNCHANGED <<rtcwake_args, ret>>
             /\ \A b \in Actors : b # a => /\ query'[b] = query[b] /\ clock'[b] = clock[b]
                                           /\ ahead'[b] = ahead[b]
  <2> USE DEF TypeOK, ControlOK, LocalsOK, QueryStep, Call, OffSteps
  <2>1. CASE OffBegin(a) \/ OffConfig(a) \/ OffFault(a) \/ OffClock(a)
    BY <2>1 DEF OffBegin, OffConfig, OffFault, OffClock, shared
  <2>2. CASE OffToday(a) \/ OffTomorrow(a) \/ OffMake(a)
    BY <2>2 DEF OffToday, OffTomorrow, OffMake
  <2> QED
    BY <1>3, <2>1, <2>2
<1>4. ASSUME OnBegin(a) \/ OnConfig(a) \/ OnFault(a) \/ OnClock(a) \/ OnToday(a) \/ OnLater(a)
             \/ CustomConfig(a) \/ CustomRow(a) \/ OnValidate(a) \/ OnCompare(a)
      PROVE  /\ query[a] \in OnSteps => query'[a] \in OnSteps \cup {"none"}
             /\ query[a] \in CustomSteps => query'[a] \in OnSteps \cup CustomSteps \cup {"none"}
             /\ query[a] \in OnSteps \cup CustomSteps
             /\ UNCHANGED <<upcoming_off_rule, foundAt, stale>>
             /\ \A b \in Actors : b # a => /\ query'[b] = query[b]
                                           /\ clock'[b] = clock[b] /\ ret'[b] = ret[b]
                                           /\ ahead'[b] = ahead[b]
  <2> USE DEF TypeOK, ControlOK, LocalsOK, QueryStep, Call, OnSteps, CustomSteps
  <2>1. CASE OnBegin(a) \/ OnConfig(a) \/ OnClock(a) \/ OnToday(a)
    BY <2>1 DEF OnBegin, OnConfig, OnClock, OnToday, HistoryOK
  <2>2. CASE OnFault(a)
    BY <2>2 DEF OnFault, Return, shared, HistoryOK
  <2>3. CASE OnLater(a) \/ OnCompare(a)
    BY <2>3 DEF OnLater, OnCompare, ValidatedReturn, Return, HistoryOK
  <2>4. CASE CustomConfig(a) \/ CustomRow(a) \/ OnValidate(a)
    BY <2>4 DEF CustomConfig, CustomRow, OnValidate, HistoryOK
  <2> QED
    BY <1>4, <2>1, <2>2, <2>3, <2>4
<1>5. OffSteps \cap (OnSteps \cup CustomSteps) = {} /\ OnSteps \cap CustomSteps = {}
  BY DEF OffSteps, OnSteps, CustomSteps
<1> QED
  BY <1>1, <1>2, <1>3, <1>4, <1>5 DEF Query

\* The steps that are not those of a query, of the checker, of a handler or of
\* the world are aside of all this.
Otherwise == Main \/ ListenerConnect \/ ListenerRun \/ ListenerExit \/ EmitSignal \/ UNCHANGED vars

CheckerMoves ==
  \/ CheckerStart \/ CheckerSync \/ CheckerLap \/ CheckerDay \/ CheckerMeasure \/ CheckerDecide
  \/ CheckerNotify \/ CheckerTrigger \/ CheckerQuits \/ CheckerRetry \/ CheckerCancelled

HandlerFinalize  == ScheduleFinalize("handler", [pc EXCEPT !.handler = "served"])
ListenerFinalize == ScheduleFinalize("listener", [pc EXCEPT !.listener = "dispatch"])

LEMMA StepKinds ==
  ASSUME TypeOK, Labels, [Next]_vars
  PROVE  \/ \E a \in Actors : Query(a)
         \/ Created
         \/ Aside /\ Otherwise
         \/ Tick \/ EditDatabase
         \/ Sigterm \/ HandlerOverride \/ HandlerFinalize
         \/ ListenerDispatch \/ ListenerFinalize
         \/ CheckerMoves
<1> USE DEF Otherwise, CheckerMoves, HandlerFinalize, ListenerFinalize
<1>1. CASE Main
  <2> USE DEF TypeOK, ControlOK
  <2>1. UNCHANGED <<steady, inbox, gsd_loop, gsd_proxy>>
    BY <1>1 DEF Main, MainCreate, MainFail, MainJoin, MainGoto, world, shared, loop, locals,
                history, steady
  <2>2. Created \/ (pc'.checker = pc.checker /\ pc'.handler = pc.handler)
    <3>1. CASE MainCreate
      BY <2>1, <3>1 DEF MainCreate, Created, Running
    <3>2. CASE MainFail \/ MainJoin
      BY <3>2 DEF MainFail, MainJoin, MainGoto, Goto
    <3> QED
      BY <1>1, <3>1, <3>2 DEF Main
  <2> QED
    BY <1>1, <2>1, <2>2 DEF Aside
<1>2. CASE ListenerConnect \/ ListenerRun \/ ListenerExit
  <2>1. pc'.checker = pc.checker /\ pc'.handler = pc.handler
    BY <1>2 DEF ListenerConnect, ListenerRun, ListenerExit, Goto, TypeOK, ControlOK
  <2>2. UNCHANGED steady
    BY <1>2 DEF ListenerConnect, ListenerRun, ListenerExit, world, shared, locals, history, steady
  <2> QED
    BY <1>2, <2>1, <2>2 DEF Aside
<1>3. CASE EmitSignal \/ Halted \/ UNCHANGED vars
  <2>1. UNCHANGED steady /\ UNCHANGED pc
    BY <1>3 DEF EmitSignal, Halted, vars, world, shared, locals, history, steady
  <2> QED
    BY <1>3, <2>1 DEF Aside, Halted
<1>4. CASE Handler \/ Listener \/ Checker
  BY <1>2, <1>4 DEF Handler, Listener, Checker, Actors
<1>5. CASE Sigterm \/ Tick \/ EditDatabase
  BY <1>5
<1> QED
  BY <1>1, <1>3, <1>4, <1>5 DEF Next

\* Where the checker goes, unless quitting the loop crashes the process, and the
\* query it starts.
LEMMA CheckerFrame ==
  ASSUME TypeOK, Labels, CheckerMoves
  PROVE  /\ ~ Terminated
         /\ \/ \E l \in CheckerSteps \ {"new", "start"} : pc' = [pc EXCEPT !.checker = l]
            \/ pc.checker = "quit" /\ pc' = [pc EXCEPT !.main = "crashed"]
         /\ UNCHANGED <<now, db, signals, edits, inbox, gsd_proxy, clock, ahead, ret,
                        cancelRequested, foundAt, stale>>
         /\ query' = query \/ \E s \in Steps : query' = [query EXCEPT !["checker"] = s]
         /\ pc.checker \notin {"new", "done", "cancelled"}
         /\ ~ CheckerCancelled => query["checker"] = "none"
<1> USE DEF TypeOK, ControlOK, Running, Resumes, Wakes, Goto, Call, CheckerSteps, Steps
<1>1. CASE CheckerStart \/ CheckerRetry
  BY <1>1 DEF CheckerStart, CheckerRetry, world, loop, locals, history, OffSteps
<1>7. CASE CheckerQuits
  BY <1>7 DEF CheckerQuits, world, locals, history
<1>2. CASE CheckerSync \/ CheckerNotify \/ CheckerDecide
  BY <1>2 DEF CheckerSync, CheckerNotify, CheckerDecide, world, loop, history
<1>3. CASE CheckerLap \/ CheckerDay
  BY <1>3 DEF CheckerLap, CheckerDay, world, loop, locals, history, OffSteps
<1>4. CASE CheckerMeasure
  BY <1>4 DEF CheckerMeasure, world, loop, OnSteps
<1>5. CASE CheckerTrigger
  BY <1>5 DEF CheckerTrigger, world, loop
<1>6. CASE CheckerCancelled
  <2>1. /\ ~ Terminated /\ pc.checker \notin {"new", "done", "cancelled"}
        /\ UNCHANGED <<now, db, signals, edits, inbox, gsd_proxy, clock, ahead, ret,
                       cancelRequested, foundAt, stale>>
    BY <1>6 DEF CheckerCancelled, world, loop, locals, history, OffSteps, OnSteps, Labels
  <2>2. /\ pc' = [pc EXCEPT !.checker = "cancelled"]
        /\ query' = [query EXCEPT !["checker"] = "none"]
    BY <1>6 DEF CheckerCancelled
  <2> QED
    BY <1>6, <2>1, <2>2
<1> QED
  BY <1>1, <1>2, <1>3, <1>4, <1>5, <1>6, <1>7 DEF CheckerMoves

\* What the steps of a handler leave alone.
LEMMA FinalizeFrame ==
  ASSUME TypeOK, HandlerFinalize \/ ListenerFinalize
  PROVE  /\ UNCHANGED <<now, db, signals, edits, upcoming_off_rule, canceled, timeinfo, inbox,
                        query, clock, ahead, ret, wakeAt, time_remaining, last_week_day, served, foundAt, stale,
                        heard>>
         /\ rtcwake_args' \in {rtcwake_args, [rtcwake_args EXCEPT !.run_shutdown = TRUE]}
         /\ pc'.checker = pc.checker
         /\ HandlerFinalize =>
              /\ pc.handler = "finalize" /\ query["handler"] = "none"
              /\ pc'.listener = pc.listener
              /\ pc' = [pc EXCEPT !.handler = "served"] \/ pc' = [pc EXCEPT !.main = "crashed"]
         /\ ListenerFinalize =>
              /\ pc.listener = "finalize" /\ query["listener"] = "none"
              /\ pc'.handler = pc.handler
              /\ pc' = [pc EXCEPT !.listener = "dispatch"] \/ pc' = [pc EXCEPT !.main = "crashed"]
<1> USE DEF TypeOK, ControlOK, ScheduleFinalize, StopScheduler, Resumes, Running
<1>1. CASE HandlerFinalize
  BY <1>1 DEF HandlerFinalize, ListenerFinalize, world
<1>2. CASE ListenerFinalize
  BY <1>2 DEF HandlerFinalize, ListenerFinalize, world
<1> QED
  BY <1>1, <1>2

LEMMA InitLabels == Init => Labels
  BY DEF Init, Labels, OffSteps, OnSteps, CustomSteps, Actors

LEMMA StepLabels ==
  ASSUME TypeOK, Labels, [Next]_vars
  PROVE  Labels'
<1> USE DEF TypeOK, ControlOK, Actors, OffSteps, OnSteps, CustomSteps, Steps
<1>1. ASSUME NEW a \in Actors, Query(a) PROVE Labels'
  <2>1. /\ UNCHANGED pc
        /\ \A b \in Actors : b # a => query'[b] = query[b]
        /\ query[a] \in OffSteps => query'[a] \in OffSteps \cup {"none"}
        /\ query[a] \in OnSteps => query'[a] \in OnSteps \cup {"none"}
        /\ query[a] \in CustomSteps => query'[a] \in OnSteps \cup CustomSteps \cup {"none"}
        /\ query[a] \in OffSteps \cup OnSteps \cup CustomSteps
    BY <1>1, QueryFrame
  <2>2. CASE a = "checker"
    BY <2>1, <2>2 DEF Labels
  <2>3. CASE a = "listener"
    BY <2>1, <2>3 DEF Labels
  <2>4. CASE a = "handler"
    BY <2>1, <2>4 DEF Labels
  <2> QED
    BY <2>2, <2>3, <2>4
<1>2. CASE Created
  BY <1>2 DEF Created, Labels, steady
<1>3. CASE Aside /\ Otherwise
  <2>1. UNCHANGED query /\ pc'.checker = pc.checker /\ pc'.handler = pc.handler
    BY <1>3 DEF Aside, steady
  <2>2. CASE MainCreate
    BY <2>1, <2>2 DEF MainCreate, Labels, Running
  <2>3. CASE MainFail \/ MainJoin
    BY <2>1, <2>3 DEF MainFail, MainJoin, MainGoto, Goto, Labels, Running
  <2>4. CASE ListenerConnect \/ ListenerRun \/ ListenerExit
    BY <2>1, <2>4 DEF ListenerConnect, ListenerRun, ListenerExit, Goto, Labels, Running, Resumes
  <2>5. CASE EmitSignal \/ UNCHANGED vars
    BY <2>1, <2>5 DEF EmitSignal, vars, Labels
  <2> QED
    BY <1>3, <2>2, <2>3, <2>4, <2>5 DEF Otherwise, Main
<1>4. CASE Tick \/ EditDatabase
  BY <1>4 DEF Tick, EditDatabase, Labels
<1>5. CASE Sigterm \/ HandlerOverride
  BY <1>5 DEF Sigterm, HandlerOverride, Goto, Call, Labels, Running, Resumes
<1>6. CASE HandlerFinalize \/ ListenerFinalize
  BY <1>6, FinalizeFrame DEF Labels
<1>7. CASE ListenerDispatch
  BY <1>7 DEF ListenerDispatch, Goto, Call, Labels, Running, Resumes
<1>8. CASE CheckerMoves
  <2>1. /\ pc'.main \in {pc.main, "crashed"} /\ pc'.listener = pc.listener
        /\ pc'.handler = pc.handler
        /\ query'["listener"] = query["listener"] /\ query'["handler"] = query["handler"]
        /\ pc.checker # "new"
    BY <1>8, CheckerFrame
  <2>2. /\ query'["checker"] \notin CustomSteps
        /\ query'["checker"] \in OffSteps => pc'.checker \in {"sync", "lap", "measure"}
        /\ query'["checker"] \in OnSteps => pc'.checker = "decide"
    <3> USE DEF Running, Resumes, Wakes, Goto, Call, Labels
    <3>1. CASE CheckerStart \/ CheckerSync \/ CheckerRetry
      BY <3>1 DEF CheckerStart, CheckerSync, CheckerRetry
    <3>2. CASE CheckerLap \/ CheckerDay \/ CheckerQuits
      BY <3>2 DEF CheckerLap, CheckerDay, CheckerQuits
    <3>3. CASE CheckerMeasure
      BY <3>3 DEF CheckerMeasure
    <3>4. CASE CheckerDecide \/ CheckerNotify \/ CheckerTrigger \/ CheckerCancelled
      BY <3>4 DEF CheckerDecide, CheckerNotify, CheckerTrigger, CheckerCancelled
    <3> QED
      BY <1>8, <3>1, <3>2, <3>3, <3>4 DEF CheckerMoves
  <2> QED
    BY <2>1, <2>2 DEF Labels
<1> QED
  BY <1>1, <1>2, <1>3, <1>4, <1>5, <1>6, <1>7, <1>8, StepKinds

-----------------------------------------------------------------------------
(* One thread works at a time.                                             *)

ListenerWorks == query["listener"] # "none" \/ pc.listener = "finalize"
HandlerWorks  == pc.handler \in {"override", "finalize"}
CheckerAsleep ==
  /\ query["checker"] = "none"
  /\ \/ pc.checker \in {"done", "cancelled"}
     \/ pc.checker \in {"lap", "notify", "trigger", "retry"} /\ now < wakeAt

\* While a handler works the checker sleeps, and the signals that users send in
\* the meantime find nobody at work.
Solo ==
  /\ ListenerWorks \/ HandlerWorks => CheckerAsleep
  /\ ~ (ListenerWorks /\ HandlerWorks)
  /\ Pace = "quiet" /\ inbox # <<>> /\ pc.listener # "exited" => CheckerAsleep /\ ~ HandlerWorks

\* When the clock moves on, or a request comes, nobody works.
LEMMA BlockedRests ==
  ASSUME TypeOK, Blocked
  PROVE  /\ CheckerAsleep /\ ~ ListenerWorks /\ ~ HandlerWorks
         /\ \A a \in Actors : query[a] = "none"
         /\ \/ pc.listener = "exited"
            \/ pc.listener = "dispatch" /\ inbox = <<>> /\ gsd_loop # "quit"
         /\ pc.checker \notin {"new", "start", "sync", "day", "measure", "decide", "quit"}
  BY DEF Blocked, CheckerAsleep, ListenerWorks, HandlerWorks, Actors

\* The checker moves only when it is awake, unless it is cancelled.
LEMMA CheckerIsAwake ==
  ASSUME TypeOK, CheckerMoves, ~ CheckerCancelled
  PROVE  ~ CheckerAsleep
<1> USE DEF CheckerAsleep, Running, Resumes, Wakes, TypeOK, WorldOK, LocalsOK
<1>1. CASE \/ CheckerStart \/ CheckerSync \/ CheckerDay \/ CheckerMeasure \/ CheckerDecide
           \/ CheckerQuits
  BY <1>1 DEF CheckerStart, CheckerSync, CheckerDay, CheckerMeasure, CheckerDecide, CheckerQuits
<1>2. CASE CheckerLap \/ CheckerNotify \/ CheckerTrigger \/ CheckerRetry
  BY <1>2 DEF CheckerLap, CheckerNotify, CheckerTrigger, CheckerRetry
<1> QED
  BY <1>1, <1>2 DEF CheckerMoves

LEMMA InitSolo == Init => Solo
  BY DEF Init, Solo, ListenerWorks, HandlerWorks, Actors

LEMMA StepSolo ==
  ASSUME Calm, TypeOK, Labels, Solo, [Next]_vars
  PROVE  Solo'
<1> USE DEF TypeOK, ControlOK, Actors
<1> DEFINE Works == ListenerWorks \/ HandlerWorks
<1>1. ASSUME NEW a \in Actors, Query(a) PROVE Solo'
  <2>1. /\ UNCHANGED <<pc, inbox, now, wakeAt>>
        /\ \A b \in Actors : b # a => query'[b] = query[b]
        /\ query[a] # "none"
    BY <1>1, QueryFrame DEF OffSteps, OnSteps, CustomSteps
  <2>2. CASE a = "checker"
    BY <2>1, <2>2 DEF Solo, ListenerWorks, HandlerWorks, CheckerAsleep
  <2>3. CASE a # "checker"
    BY <2>1, <2>3 DEF Solo, ListenerWorks, HandlerWorks, CheckerAsleep
  <2> QED
    BY <2>2, <2>3
<1>2. CASE Created
  <2>1. pc.checker = "new"
    BY <1>2 DEF Created, Labels
  <2>2. UNCHANGED <<query, inbox>> /\ pc'.listener = pc.listener /\ pc'.handler = pc.handler
    BY <1>2 DEF Created, steady
  <2> QED
    BY <2>1, <2>2 DEF Solo, ListenerWorks, HandlerWorks, CheckerAsleep
<1>3. CASE Aside /\ Otherwise
  <2>1. /\ UNCHANGED <<query, now, wakeAt>>
        /\ pc'.checker = pc.checker /\ pc'.handler = pc.handler
    BY <1>3 DEF Aside, steady
  <2>2. CASE EmitSignal
    <3>1. UNCHANGED pc /\ (Pace = "quiet" => Blocked)
      BY <2>2 DEF EmitSignal
    <3> QED
      BY <2>1, <3>1, BlockedRests DEF Solo, ListenerWorks, HandlerWorks, CheckerAsleep
  <2>3. CASE ~ EmitSignal
    <3>1. /\ UNCHANGED inbox
          /\ pc'.listener # "exited" => pc.listener # "exited"
          /\ pc'.listener = "finalize" => pc.listener = "finalize"
      <4>1. CASE MainCreate
        BY <4>1 DEF MainCreate, loop, Running, Labels
      <4>2. CASE MainFail \/ MainJoin
        BY <4>2 DEF MainFail, MainJoin, MainGoto, Goto, loop
      <4>3. CASE ListenerConnect \/ ListenerRun \/ ListenerExit
        BY <4>3 DEF ListenerConnect, ListenerRun, ListenerExit, Goto, Running, Resumes
      <4>4. CASE UNCHANGED vars
        BY <4>4 DEF vars, loop
      <4> QED
        BY <1>3, <2>3, <4>1, <4>2, <4>3, <4>4 DEF Otherwise, Main
    <3> QED
      BY <2>1, <3>1 DEF Solo, ListenerWorks, HandlerWorks, CheckerAsleep
  <2> QED
    BY <2>2, <2>3
<1>4. CASE Tick
  <2>1. Blocked /\ UNCHANGED <<pc, query, inbox>>
    BY <1>4 DEF Tick, Calm, loop
  <2> QED
    BY <2>1, BlockedRests DEF Solo, ListenerWorks, HandlerWorks, CheckerAsleep
<1>5. CASE EditDatabase
  BY <1>5 DEF EditDatabase, loop, locals, Solo, ListenerWorks, HandlerWorks, CheckerAsleep
<1>6. CASE Sigterm
  <2>1. Blocked
    BY <1>6 DEF Sigterm, Calm
  <2>2. /\ UNCHANGED <<now, wakeAt, inbox>>
        /\ pc'.checker = pc.checker /\ pc'.listener = pc.listener
        /\ query'["checker"] = query["checker"] /\ query'["listener"] = query["listener"]
    BY <1>6 DEF Sigterm, Goto, Call, world, loop, locals
  <2> QED
    BY <2>1, <2>2, BlockedRests DEF Solo, ListenerWorks, HandlerWorks, CheckerAsleep
<1>7. CASE HandlerOverride
  BY <1>7 DEF HandlerOverride, Resumes, Running, Goto, world, loop, locals, Solo, ListenerWorks,
              HandlerWorks, CheckerAsleep
<1>8. CASE HandlerFinalize \/ ListenerFinalize
  <2>1. /\ UNCHANGED <<now, inbox, query, wakeAt>> /\ pc'.checker = pc.checker
        /\ pc'.handler \in {pc.handler, "served"}
        /\ pc'.listener \in {pc.listener, "dispatch"}
        /\ pc'.listener # "exited" => pc.listener # "exited"
    BY <1>8, FinalizeFrame
  <2> QED
    BY <2>1 DEF Solo, ListenerWorks, HandlerWorks, CheckerAsleep
<1>9. CASE ListenerDispatch
  <2>1. /\ pc.listener = "dispatch" /\ inbox # <<>>
        /\ UNCHANGED <<now, wakeAt>>
        /\ pc'.checker = pc.checker /\ pc'.handler = pc.handler
        /\ pc'.listener # "exited"
        /\ query'["checker"] = query["checker"]
    BY <1>9 DEF ListenerDispatch, Resumes, Running, Goto, Call, world, locals
  <2>2. CASE Pace = "quiet"
    BY <2>1, <2>2 DEF Solo, ListenerWorks, HandlerWorks, CheckerAsleep
  <2>3. CASE Pace # "quiet"
    <3>1. Head(inbox) \in {"canceled"}
      BY <2>1, <2>3 DEF Calm, LoopOK
    <3>2. UNCHANGED <<pc, query>>
      BY <3>1, <1>9 DEF ListenerDispatch
    <3> QED
      BY <2>1, <2>3, <3>2 DEF Solo, ListenerWorks, HandlerWorks, CheckerAsleep
  <2> QED
    BY <2>2, <2>3
<1>10. CASE CheckerMoves
  <2>1. /\ pc'.listener = pc.listener /\ pc'.handler = pc.handler
        /\ query'["listener"] = query["listener"] /\ UNCHANGED inbox
    BY <1>10, CheckerFrame
  <2>2. CheckerCancelled => CheckerAsleep'
    BY DEF CheckerCancelled, Call, Goto, CheckerAsleep
  <2> QED
    BY <1>10, <2>1, <2>2, CheckerIsAwake DEF Solo, ListenerWorks, HandlerWorks
<1> QED
  BY <1>1, <1>2, <1>3, <1>4, <1>5, <1>6, <1>7, <1>8, <1>9, <1>10, StepKinds

-----------------------------------------------------------------------------
(* The checker is on time.                                                 *)

\* Unless threads may be slow, the checker acts in the very minute its sleep
\* ends, and a lap never lasts longer than CHECK_DELAY.
OnTime ==
  /\ pc.checker \in {"new", "start", "sync"} => now = StartTime
  /\ pc.checker \in {"day", "measure", "decide"} => now = wakeAt
  /\ pc.checker = "lap" /\ query["checker"] # "none" => now = wakeAt
  /\ pc.checker \in {"lap", "notify", "trigger", "retry"} => now <= wakeAt
  /\ pc.checker = "lap" => wakeAt <= now + CheckDelay

LEMMA InitOnTime == Init => OnTime
  BY DEF Init, OnTime

LEMMA StepOnTime ==
  ASSUME Pace # "any", TypeOK, Labels, OnTime, [Next]_vars
  PROVE  OnTime'
<1> USE DEF TypeOK, ControlOK, Actors
<1>t. now \in Nat /\ wakeAt \in Nat /\ CheckDelay \in Nat \ {0} /\ time_remaining \in Nat
      /\ upcoming_off_rule.notification_time \in Nat
  BY SchedulerAssumption DEF WorldOK, LocalsOK, SharedOK
<1>1. ASSUME NEW a \in Actors, Query(a) PROVE OnTime'
  <2>1. /\ UNCHANGED <<pc, now, wakeAt>>
        /\ \A b \in Actors : b # a => query'[b] = query[b]
        /\ query[a] # "none"
    BY <1>1, QueryFrame DEF OffSteps, OnSteps, CustomSteps
  <2>2. query'["checker"] # "none" => query["checker"] # "none"
    BY <2>1
  <2> QED
    BY <2>1, <2>2 DEF OnTime
<1>2. CASE Created
  <2>1. pc.checker = "new" /\ pc'.checker = "start" /\ UNCHANGED now
    BY <1>2 DEF Created, Labels, steady
  <2> QED
    BY <2>1 DEF OnTime
<1>3. CASE Aside /\ Otherwise
  BY <1>3 DEF Aside, steady, OnTime
<1>4. CASE Tick
  <2>1. CheckerAsleep /\ UNCHANGED <<pc, query, wakeAt>> /\ now' = now + 1
    BY <1>4, BlockedRests DEF Tick, locals
  <2> QED
    BY <2>1, <1>t DEF OnTime, CheckerAsleep
<1>5. CASE EditDatabase
  BY <1>5 DEF EditDatabase, locals, OnTime
<1>6. CASE Sigterm
  BY <1>6 DEF Sigterm, Goto, Call, world, locals, OnTime
<1>7. CASE HandlerOverride
  BY <1>7 DEF HandlerOverride, Goto, world, locals, OnTime
<1>8. CASE HandlerFinalize \/ ListenerFinalize
  BY <1>8, FinalizeFrame DEF OnTime
<1>9. CASE ListenerDispatch
  BY <1>9 DEF ListenerDispatch, Goto, Call, world, locals, OnTime
<1>10. CASE CheckerMoves
  <2> USE DEF Goto, Wakes, Resumes, Running, world, locals, OnTime
  <2>r. Remaining \in Nat
    BY <1>t DEF Remaining, SharedOK
  <2>1. CASE CheckerStart \/ CheckerSync \/ CheckerLap \/ CheckerDay \/ CheckerQuits
    BY <2>1, <1>t DEF CheckerStart, CheckerSync, CheckerLap, CheckerDay, CheckerQuits
  <2>2. CASE CheckerMeasure
    BY <2>2, <1>t DEF CheckerMeasure
  <2>3. CASE CheckerDecide
    BY <2>3, <1>t DEF CheckerDecide
  <2>4. CASE CheckerNotify \/ CheckerTrigger
    BY <2>4, <2>r, <1>t DEF CheckerNotify, WaitForRule, CheckerTrigger
  <2>5. CASE CheckerRetry \/ CheckerCancelled
    BY <2>5, <1>t DEF CheckerRetry, CheckerCancelled
  <2> QED
    BY <1>10, <2>1, <2>2, <2>3, <2>4, <2>5 DEF CheckerMoves
<1> QED
  BY <1>1, <1>2, <1>3, <1>4, <1>5, <1>6, <1>7, <1>8, <1>9, <1>10, StepKinds

\* The order of things in a calm environment.
InOrder == TypeOK /\ Labels /\ Solo /\ OnTime

LEMMA InOrderInvariant ==
  ASSUME Calm
  PROVE  Spec => []InOrder
<1>1. Init => InOrder
  BY InitType, InitLabels, InitSolo, InitOnTime DEF InOrder
<1>2. InOrder /\ [Next]_vars => InOrder'
  BY NextType, StepLabels, StepSolo, StepOnTime DEF InOrder, Calm
<1> QED
  BY <1>1, <1>2, PTL DEF Spec

\* In a calm environment no thread finds the clock or the shared variables of
\* another one's query in between.
LEMMA QueriesAlone ==
  ASSUME InOrder, NEW a \in Actors, query[a] # "none"
  PROVE  /\ \A b \in Actors : b # a => query[b] = "none"
         /\ ~ Blocked
         /\ a # "checker" => CheckerAsleep
<1> USE DEF InOrder, TypeOK, ControlOK, Actors, Solo, Labels, ListenerWorks, HandlerWorks,
            CheckerAsleep, OffSteps, OnSteps, CustomSteps
<1>1. ~ Blocked
  BY DEF Blocked
<1>2. CASE a = "checker"
  BY <1>1, <1>2
<1>3. CASE a = "listener"
  BY <1>1, <1>3
<1>4. CASE a = "handler"
  BY <1>1, <1>4
<1> QED
  BY <1>2, <1>3, <1>4


\* What a thread reads and writes in a query is its own until the query is over;
\* only the file can change under it.
LEMMA QueryKeeps ==
  ASSUME Calm, InOrder, [Next]_vars, NEW b \in Actors, query[b] # "none", query'[b] # "none",
         ~ Query(b)
  PROVE  /\ UNCHANGED <<now, upcoming_off_rule, rtcwake_args, timeinfo, clock, ahead, ret, wakeAt,
                        last_week_day, time_remaining, served, foundAt>>
         /\ \A c \in Actors : query'[c] = query[c]
         /\ EditDatabase \/ UNCHANGED <<db, edits, stale>>
         /\ pc'.checker \in {pc.checker, "cancelled"}
         /\ b = "checker" => pc'.checker = pc.checker
<1> USE DEF InOrder, TypeOK, ControlOK, Actors
<1>a. /\ \A c \in Actors : c # b => query[c] = "none"
      /\ ~ Blocked
      /\ b # "checker" => CheckerAsleep
  BY QueriesAlone
<1>b. b = "handler" => HandlerWorks
  BY DEF Labels, HandlerWorks
<1>1. ASSUME NEW a \in Actors, Query(a) PROVE FALSE
  BY <1>1, <1>a, QueryFrame DEF OffSteps, OnSteps, CustomSteps
<1>2. ~ Created
  BY <1>a DEF Created, Labels, CheckerAsleep, OffSteps, OnSteps, CustomSteps
<1>3. CASE Aside
  BY <1>3 DEF Aside, steady
<1>4. ~ Tick /\ ~ Sigterm
  BY <1>a DEF Tick, Sigterm, Calm
<1>5. CASE EditDatabase
  BY <1>5 DEF EditDatabase, shared, locals
<1>6. ~ HandlerOverride /\ ~ HandlerFinalize /\ ~ ListenerFinalize
  <2>1. ASSUME HandlerOverride \/ HandlerFinalize
        PROVE  HandlerWorks /\ query["handler"] = "none"
    BY <2>1, FinalizeFrame DEF HandlerOverride, Resumes, Running, HandlerWorks
  <2>2. ASSUME ListenerFinalize
        PROVE  ListenerWorks /\ query["listener"] = "none"
    BY <2>2, FinalizeFrame DEF ListenerWorks
  <2> QED
    BY <2>1, <2>2, <1>b DEF Solo, ListenerWorks, CheckerAsleep
<1>7. CASE ListenerDispatch
  <2>1. /\ pc.listener = "dispatch" /\ inbox # <<>> /\ query["listener"] = "none"
        /\ UNCHANGED <<now, db, edits, upcoming_off_rule, rtcwake_args, timeinfo, clock, ahead,
                       ret, wakeAt, last_week_day, time_remaining, served, foundAt, stale>>
    BY <1>7 DEF ListenerDispatch, Resumes, Running, world, locals
  <2>2. Pace # "quiet"
    BY <2>1, <1>b DEF Solo, CheckerAsleep
  <2>3. Head(inbox) \in {"canceled"}
    BY <2>1, <2>2 DEF Calm, LoopOK
  <2>4. UNCHANGED <<pc, query>>
    BY <2>3, <1>7 DEF ListenerDispatch
  <2> QED
    BY <2>1, <2>4
<1>8. CASE CheckerMoves
  <2>1. CheckerCancelled /\ b # "checker"
    <3>1. CASE CheckerCancelled
      BY <3>1 DEF CheckerCancelled, Call
    <3>2. CASE ~ CheckerCancelled
      BY <1>8, <3>2, <1>a, CheckerFrame, CheckerIsAwake
    <3> QED
      BY <3>1, <3>2
  <2>2. query' = query
    BY <2>1, <1>a DEF CheckerCancelled, Call
  <2> QED
    BY <2>1, <2>2 DEF CheckerCancelled, Goto, world, shared, locals, history
<1> QED
  BY <1>1, <1>2, <1>3, <1>4, <1>5, <1>6, <1>7, <1>8, StepKinds


\* A query starts at its beginning.
LEMMA QueryStarts ==
  ASSUME TypeOK, Labels, [Next]_vars, NEW b \in Actors, query[b] = "none"
  PROVE  query'[b] \in {"none", "off_begin", "on_begin", "custom_begin"}
<1> USE DEF TypeOK, ControlOK, Actors
<1>1. CASE \E a \in Actors : Query(a)
  BY <1>1, QueryFrame DEF OffSteps, OnSteps, CustomSteps
<1>2. CASE Created \/ Aside
  BY <1>2 DEF Created, Aside, steady
<1>3. CASE Tick \/ EditDatabase \/ HandlerOverride
  BY <1>3 DEF Tick, EditDatabase, HandlerOverride
<1>4. CASE HandlerFinalize \/ ListenerFinalize
  BY <1>4, FinalizeFrame
<1>5. CASE Sigterm \/ ListenerDispatch
  BY <1>5 DEF Sigterm, ListenerDispatch, Call
<1>6. CASE CheckerMoves
  BY <1>6 DEF CheckerMoves, CheckerStart, CheckerSync, CheckerLap, CheckerDay, CheckerMeasure,
              CheckerDecide, CheckerNotify, CheckerTrigger, CheckerQuits, CheckerRetry,
              CheckerCancelled, Call
<1> QED
  BY <1>1, <1>2, <1>3, <1>4, <1>5, <1>6, StepKinds

-----------------------------------------------------------------------------
(* The turn on query and the wake up.                                      *)

\* What a turn on query has read of the clock is still so, and if it looks at
\* a day to come there was nothing left today, nor on the days before that one.
OnQuery ==
  \A a \in Actors :
    /\ query[a] \in {"on_today", "on_later"} => clock[a] = now /\ timeinfo = BrokenDown(now)
    /\ query[a] = "on_later" => ahead[a] \in 1..7
    /\ query[a] = "on_later" /\ edits = 0 =>
         /\ LaterToday(db.turnon, WeekDay(now), Minute(now)) = {}
         /\ \A j \in 1..(ahead[a] - 1) : OnDayAhead(db.turnon, WeekDay(now), j) = {}

LEMMA InitOnQuery == Init => OnQuery
  BY DEF Init, OnQuery

\* How a turn on query comes to read the rules.
LEMMA OnQuerySteps ==
  ASSUME TypeOK, NEW a \in Actors, Query(a), query'[a] \in {"on_today", "on_later"}
  PROVE  \/ OnClock(a) /\ query'[a] = "on_today"
         \/ OnToday(a) /\ query'[a] = "on_later"
         \/ OnLater(a) /\ query'[a] = "on_later"
<1> USE DEF TypeOK, ControlOK, QueryStep, Call
<1>1. ~ (OffBegin(a) \/ OffConfig(a) \/ OffFault(a) \/ OffClock(a) \/ OffToday(a)
         \/ OffTomorrow(a) \/ OffMake(a))
  BY QueryFrame DEF OffBegin, OffConfig, OffFault, OffClock, OffToday, OffTomorrow, OffMake, OffSteps
<1>2. ~ (OnBegin(a) \/ OnConfig(a) \/ OnFault(a) \/ CustomConfig(a) \/ CustomRow(a)
         \/ OnValidate(a) \/ OnCompare(a))
  BY DEF OnBegin, OnConfig, OnFault, CustomConfig, CustomRow, OnValidate, OnCompare
<1>3. CASE OnClock(a)
  BY <1>3 DEF OnClock
<1>4. CASE OnToday(a)
  BY <1>4 DEF OnToday
<1>5. CASE OnLater(a)
  BY <1>5 DEF OnLater
<1> QED
  BY <1>1, <1>2, <1>3, <1>4, <1>5 DEF Query

LEMMA StepOnQuery ==
  ASSUME Calm, InOrder, OnQuery, [Next]_vars
  PROVE  OnQuery'
<1> SUFFICES ASSUME NEW b \in Actors, query'[b] \in {"on_today", "on_later"}
             PROVE  /\ clock'[b] = now' /\ timeinfo' = BrokenDown(now')
                    /\ query'[b] = "on_later" => ahead'[b] \in 1..7
                    /\ query'[b] = "on_later" /\ edits' = 0 =>
                         /\ LaterToday(db'.turnon, WeekDay(now'), Minute(now')) = {}
                         /\ \A j \in 1..(ahead'[b] - 1) :
                              OnDayAhead(db'.turnon, WeekDay(now'), j) = {}
  BY DEF OnQuery
<1>t. TypeOK /\ Labels
  BY DEF InOrder
<1>1. CASE Query(b)
  <2>1. UNCHANGED <<now, db, edits>>
    BY <1>1, <1>t, QueryFrame
  <2>2. CASE OnClock(b) /\ query'[b] = "on_today"
    BY <2>1, <2>2, <1>t DEF OnClock, TypeOK, LocalsOK
  <2>3. CASE OnToday(b) /\ query'[b] = "on_later"
    <3>1. ahead'[b] = 1
      BY <2>3, <1>t DEF OnToday, QueryStep, Call, TypeOK, ControlOK, LocalsOK
    <3> QED
      BY <2>1, <2>3, <3>1, <1>t DEF OnToday, OnQuery, QueryStep, Call, TypeOK, ControlOK
  <2>4. CASE OnLater(b) /\ query'[b] = "on_later"
    <3>1. /\ query[b] = "on_later" /\ ahead[b] < 7 /\ ahead'[b] = ahead[b] + 1
          /\ OnDayAhead(db.turnon, timeinfo.wday, ahead[b]) = {}
          /\ UNCHANGED <<clock, timeinfo>>
      BY <2>4, <1>t DEF OnLater, QueryStep, Call, TypeOK, ControlOK, LocalsOK
    <3>2. /\ clock[b] = now /\ timeinfo = BrokenDown(now) /\ ahead[b] \in 1..7
          /\ timeinfo.wday = WeekDay(now)
      BY <3>1 DEF OnQuery, BrokenDown
    <3>3. ahead'[b] \in 1..7
      BY <3>1, <3>2
    <3>4. ASSUME edits = 0, NEW j \in 1..(ahead'[b] - 1)
          PROVE  OnDayAhead(db.turnon, WeekDay(now), j) = {}
      <4>1. j = ahead[b] \/ j \in 1..(ahead[b] - 1)
        BY <3>1, <3>2, <3>4
      <4> QED
        BY <3>1, <3>2, <3>4, <4>1 DEF OnQuery
    <3> QED
      BY <2>1, <3>1, <3>2, <3>3, <3>4 DEF OnQuery
  <2> QED
    BY <1>1, <1>t, <2>2, <2>3, <2>4, OnQuerySteps
<1>2. CASE ~ Query(b) /\ query[b] # "none"
  <2>1. /\ UNCHANGED <<now, timeinfo, clock, ahead>> /\ query'[b] = query[b]
        /\ EditDatabase \/ UNCHANGED <<db, edits>>
    BY <1>2, QueryKeeps
  <2>2. EditDatabase => edits' # 0
    BY <1>t DEF EditDatabase, TypeOK, WorldOK
  <2> QED
    BY <2>1, <2>2 DEF OnQuery
<1>3. CASE query[b] = "none"
  <2>1. ASSUME NEW a \in Actors, Query(a) PROVE FALSE
    BY <2>1, <1>3, <1>t, QueryFrame DEF OffSteps, OnSteps, CustomSteps
  <2>2. query'[b] \in {"none", "off_begin", "on_begin", "custom_begin"}
    BY <2>1, <1>3, <1>t, QueryStarts
  <2> QED
    BY <2>2
<1> QED
  BY <1>1, <1>2, <1>3


\* The wake up a turn on query fills in lies ahead, and is the first one of the
\* rules if they are as they were.
LEMMA OnFinds ==
  ASSUME InOrder, OnQuery, NEW a \in Actors, OnToday(a) \/ OnLater(a),
         query'[a] = "on_validate"
  PROVE  /\ rtcwake_args'.found /\ rtcwake_args'.wake \in Nat /\ rtcwake_args'.wake > now
         /\ edits = 0 => IsNextOccurrence(db.turnon, now, rtcwake_args'.wake)
<1>t. /\ now \in Nat /\ db.turnon \in SUBSET Rule(Modes)
      /\ Date(now) \in Nat
  BY DatabaseType, DayAndMinute DEF InOrder, TypeOK, WorldOK, Database
<1>r. ASSUME NEW wake, FillIn(wake)
      PROVE  rtcwake_args'.found /\ rtcwake_args'.wake = wake
  BY <1>r DEF FillIn, InOrder, TypeOK, SharedOK
<1>1. CASE OnToday(a)
  <2>1. query[a] = "on_today" /\ clock[a] = now
    BY <1>1 DEF OnToday, QueryStep, OnQuery
  <2>2. PICK r \in LaterToday(db.turnon, WeekDay(now), Minute(now)) :
          FillIn(At(Date(now), r.minute))
    BY <1>1, <2>1 DEF OnToday, QueryStep, Call, InOrder, TypeOK, ControlOK
  <2>3. IsNextOccurrence(db.turnon, now, At(Date(now), r.minute))
    BY <1>t, LaterTodayIsNext
  <2>4. r.minute \in Minutes
    BY <1>t, LookupType
  <2> QED
    BY <1>t, <1>r, <2>2, <2>3, <2>4, AtType DEF IsNextOccurrence
<1>2. CASE OnLater(a)
  <2>1. query[a] = "on_later" /\ timeinfo.wday = WeekDay(now)
    BY <1>2 DEF OnLater, QueryStep, OnQuery, BrokenDown
  <2>2. PICK r \in OnDayAhead(db.turnon, WeekDay(now), ahead[a]) :
          FillIn(At(Date(now) + ahead[a], r.minute))
    BY <1>2, <2>1 DEF OnLater, QueryStep, Call, InOrder, TypeOK, ControlOK
  <2>3. edits = 0 => IsNextOccurrence(db.turnon, now, At(Date(now) + ahead[a], r.minute))
    BY <1>t, <2>1, LaterThisWeekIsNext DEF OnQuery
  <2>4. ahead[a] \in 1..7 /\ r.minute \in Minutes
    BY <1>t, <2>1, LookupType DEF OnQuery
  <2> DEFINE u == At(Date(now) + ahead[a], r.minute)
  <2>5. u \in Nat /\ Date(u) = Date(now) + ahead[a]
    <3>1. Date(now) + ahead[a] \in Nat
      BY <1>t, <2>4
    <3> QED
      BY <2>4, <3>1, AtType, AtInverse
  <2>6. u > now
    BY <1>t, <2>4, <2>5, Order
  <2> QED
    BY <1>r, <2>2, <2>3, <2>5, <2>6
<1> QED
  BY <1>1, <1>2

\* The steps of a query that change the wake up.
LEMMA WakeSteps ==
  ASSUME TypeOK, NEW a \in Actors, Query(a), query[a] \notin CustomSteps
  PROVE  \/ rtcwake_args'.found = FALSE /\ rtcwake_args'.wake = rtcwake_args.wake
         \/ /\ OnToday(a) \/ OnLater(a)
            /\ query'[a] = "on_validate"
         \/ rtcwake_args'.found = rtcwake_args.found /\ rtcwake_args'.wake = rtcwake_args.wake
<1> USE DEF TypeOK, ControlOK, SharedOK, QueryStep, Call
<1>1. CASE query[a] \in OffSteps
  BY <1>1, QueryFrame
<1>2. CASE OnBegin(a) \/ OnConfig(a) \/ OnFault(a) \/ OnClock(a) \/ OnValidate(a) \/ OnCompare(a)
  BY <1>2 DEF OnBegin, OnConfig, OnFault, OnClock, OnValidate, OnCompare, shared
<1>3. CASE OnToday(a) \/ OnLater(a)
  BY <1>3 DEF OnToday, OnLater, FillIn
<1>4. CASE CustomConfig(a) \/ CustomRow(a)
  BY <1>4 DEF CustomConfig, CustomRow, CustomSteps
<1>5. CASE query[a] \notin OffSteps
  <2>1. ~ (OffBegin(a) \/ OffConfig(a) \/ OffFault(a) \/ OffClock(a) \/ OffToday(a)
           \/ OffTomorrow(a) \/ OffMake(a))
    BY <1>5 DEF OffBegin, OffConfig, OffFault, OffClock, OffToday, OffTomorrow, OffMake, OffSteps
  <2> QED
    BY <2>1, <1>2, <1>3, <1>4 DEF Query
<1> QED
  BY <1>1, <1>5

\* Only queries change the wake up, only users change the file, and the clock
\* only moves forward.
LEMMA WakeFrame ==
  ASSUME TypeOK, Labels, [Next]_vars, \A a \in Actors : ~ Query(a)
  PROVE  /\ rtcwake_args'.found = rtcwake_args.found /\ rtcwake_args'.wake = rtcwake_args.wake
         /\ EditDatabase \/ UNCHANGED <<db, edits>>
         /\ now' = now \/ (Tick /\ now' = now + 1)
<1> USE DEF TypeOK, SharedOK
<1>1. CASE Created \/ Aside
  BY <1>1 DEF Created, Aside, steady
<1>2. CASE Tick \/ EditDatabase
  BY <1>2 DEF Tick, EditDatabase, shared
<1>3. CASE Sigterm \/ HandlerOverride
  BY <1>3 DEF Sigterm, HandlerOverride, Override, world, shared
<1>4. CASE HandlerFinalize \/ ListenerFinalize
  BY <1>4, FinalizeFrame
<1>5. CASE ListenerDispatch
  BY <1>5 DEF ListenerDispatch, world
<1>6. CASE CheckerMoves
  <2>1. UNCHANGED <<now, db, edits>>
    BY <1>6, CheckerFrame
  <2>2. rtcwake_args'.found = rtcwake_args.found /\ rtcwake_args'.wake = rtcwake_args.wake
    BY <1>6 DEF CheckerMoves, CheckerStart, CheckerSync, CheckerLap, CheckerDay, CheckerMeasure,
              CheckerDecide, CheckerNotify, CheckerTrigger, CheckerQuits, CheckerRetry,
              CheckerCancelled, shared
  <2> QED
    BY <2>1, <2>2
<1> QED
  BY <1>1, <1>2, <1>3, <1>4, <1>5, <1>6, StepKinds

\* Without a request of a custom schedule no thread queries one.
NoCustom == \A a \in Actors : query[a] \notin CustomSteps

LEMMA StepNoCustom ==
  ASSUME "custom" \notin SignalKinds, TypeOK, Labels, NoCustom, [Next]_vars
  PROVE  NoCustom'
<1> SUFFICES ASSUME NEW b \in Actors PROVE query'[b] \notin CustomSteps
  BY DEF NoCustom
<1>1. CASE \E a \in Actors : Query(a)
  BY <1>1, QueryFrame DEF NoCustom, OffSteps, OnSteps, CustomSteps
<1>2. CASE ~ \E a \in Actors : Query(a)
  <2>1. CASE ListenerDispatch
    <3>1. Head(inbox) \in SignalKinds
      BY <2>1 DEF ListenerDispatch, TypeOK, LoopOK
    <3> QED
      BY <2>1, <3>1 DEF ListenerDispatch, Call, NoCustom, CustomSteps, TypeOK, ControlOK
  <2>2. CASE Created \/ Aside
    BY <2>2 DEF Created, Aside, steady, NoCustom
  <2>3. CASE Tick \/ EditDatabase \/ HandlerOverride
    BY <2>3 DEF Tick, EditDatabase, HandlerOverride, NoCustom
  <2>4. CASE HandlerFinalize \/ ListenerFinalize
    BY <2>4, FinalizeFrame DEF NoCustom
  <2>5. CASE Sigterm
    BY <2>5 DEF Sigterm, Call, NoCustom, CustomSteps, TypeOK, ControlOK
  <2>6. CASE CheckerMoves
    <3>1. b # "checker" => query'[b] = query[b]
      BY <2>6, CheckerFrame DEF TypeOK, ControlOK
    <3>2. query'["checker"] \notin CustomSteps
      BY StepLabels DEF Labels
    <3> QED
      BY <3>1, <3>2 DEF NoCustom
  <2> QED
    BY <1>2, <2>1, <2>2, <2>3, <2>4, <2>5, <2>6, StepKinds
<1> QED
  BY <1>1, <1>2

\* What gawaked fills in as the wake up is the first turn on rule still ahead,
\* whoever asked (lines 774-857), for every set of rules that stays as it is,
\* and whichever queries fail.
THEOREM WakesAtTheFirst ==
  ASSUME Calm, MaxEdits = 0, "custom" \notin SignalKinds
  PROVE  Spec => []WakeIsEarliest
<1>1. Init => OnQuery /\ NoCustom /\ WakeIsEarliest
  BY InitOnQuery DEF Init, NoCustom, WakeIsEarliest, CustomSteps
<1>2. InOrder /\ OnQuery /\ NoCustom /\ WakeIsEarliest /\ [Next]_vars =>
        OnQuery' /\ NoCustom' /\ WakeIsEarliest'
  <2> SUFFICES ASSUME InOrder, OnQuery, NoCustom, WakeIsEarliest, [Next]_vars
               PROVE  OnQuery' /\ NoCustom' /\ WakeIsEarliest'
    OBVIOUS
  <2>t. TypeOK /\ Labels /\ edits = 0 /\ now \in Nat
    BY DEF InOrder, TypeOK, WorldOK
  <2>1. OnQuery' /\ NoCustom'
    BY <2>t, StepOnQuery, StepNoCustom
  <2>2. WakeIsEarliest'
    <3>1. ASSUME NEW a \in Actors, Query(a) PROVE WakeIsEarliest'
      <4>1. UNCHANGED <<now, db>> /\ query[a] \notin CustomSteps
        BY <2>t, <3>1, QueryFrame DEF NoCustom
      <4>2. CASE rtcwake_args'.found = FALSE
        BY <4>2 DEF WakeIsEarliest
      <4>3. CASE (OnToday(a) \/ OnLater(a)) /\ query'[a] = "on_validate"
        <5>1. IsNextOccurrence(db.turnon, now, rtcwake_args'.wake)
          BY <2>t, <4>3, OnFinds
        <5> QED
          BY <4>1, <5>1 DEF WakeIsEarliest, IsNextOccurrence
      <4>4. CASE rtcwake_args'.found = rtcwake_args.found /\ rtcwake_args'.wake = rtcwake_args.wake
        BY <4>1, <4>4 DEF WakeIsEarliest
      <4> QED
        BY <2>t, <3>1, <4>1, <4>2, <4>3, <4>4, WakeSteps
    <3>2. CASE \A a \in Actors : ~ Query(a)
      <4>1. /\ rtcwake_args'.found = rtcwake_args.found /\ rtcwake_args'.wake = rtcwake_args.wake
            /\ UNCHANGED db /\ now' \in {now, now + 1}
        BY <2>t, <3>2, WakeFrame DEF EditDatabase
      <4>2. rtcwake_args.wake \in Int
        BY <2>t DEF TypeOK, SharedOK, Times, NoTime
      <4>3. (now' + 1)..(rtcwake_args.wake - 1) \subseteq (now + 1)..(rtcwake_args.wake - 1)
        BY <2>t, <4>1, <4>2
      <4> QED
        BY <4>1, <4>3 DEF WakeIsEarliest
    <3> QED
      BY <3>1, <3>2
  <2> QED
    BY <2>1, <2>2
<1> QED
  BY <1>1, <1>2, InOrderInvariant, PTL DEF Spec

-----------------------------------------------------------------------------
(* Nobody but the checker ends the wait.                                   *)

\* The requests that ask for no schedule.
NoSchedule == SignalKinds \subseteq {"updated", "canceled"} /\ ~ AllowSigterm

Alone ==
  /\ pc.handler = "idle" /\ ~ cancelRequested
  /\ pc.listener # "finalize" /\ pc.checker # "cancelled"

\* A signal is dispatched that has the rules queried again or the rule dropped.
Hears ==
  /\ inbox # <<>> /\ query["listener"] = "none" /\ pc.listener = "dispatch"
  /\ heard' = IF InLastLap THEN heard \cup {Head(inbox)} ELSE heard
  /\ \/ Head(inbox) = "updated" /\ Call("listener", "off_begin") /\ UNCHANGED canceled
     \/ Head(inbox) = "canceled" /\ canceled' = TRUE /\ UNCHANGED query
  /\ UNCHANGED <<now, db, edits, upcoming_off_rule, rtcwake_args, timeinfo, clock, ahead, ret,
                 wakeAt, time_remaining, last_week_day, cancelRequested, decided, served, foundAt, stale,
                 pc, gsd_loop>>

\* All that can happen then.
LEMMA AloneKinds ==
  ASSUME NoSchedule, TypeOK, Labels, Alone, [Next]_vars
  PROVE  /\ \/ Query("checker")
            \/ Query("listener") /\ query["listener"] \in OffSteps
            \/ Created
            \/ Aside /\ Otherwise
            \/ Tick \/ EditDatabase
            \/ Hears
            \/ CheckerMoves /\ ~ CheckerCancelled
         /\ Alone'
<1> USE DEF TypeOK, ControlOK, Actors
<1>1. ASSUME NEW a \in Actors, Query(a)
      PROVE  Alone' /\ (a = "checker" \/ (a = "listener" /\ query["listener"] \in OffSteps))
  <2>1. UNCHANGED <<pc, cancelRequested>> /\ query[a] \in OffSteps \cup OnSteps \cup CustomSteps
    BY <1>1, QueryFrame
  <2> QED
    BY <2>1 DEF Alone, Labels, OffSteps, OnSteps, CustomSteps
<1>2. CASE Created
  BY <1>2 DEF Created, steady, Alone
<1>3. CASE Aside /\ Otherwise
  <2>1. pc'.listener = "finalize" => pc.listener = "finalize"
    BY <1>3 DEF Otherwise, Main, MainCreate, MainFail, MainJoin, MainGoto, Goto, ListenerConnect,
                ListenerRun, ListenerExit, EmitSignal, vars
  <2> QED
    BY <1>3, <2>1 DEF Aside, steady, Alone
<1>4. CASE Tick \/ EditDatabase
  BY <1>4 DEF Tick, EditDatabase, Alone, locals
<1>5. ~ Sigterm /\ ~ HandlerOverride /\ ~ HandlerFinalize /\ ~ ListenerFinalize
  BY FinalizeFrame DEF Sigterm, NoSchedule, HandlerOverride, Resumes, Running, Alone
<1>6. CASE ListenerDispatch
  <2>1. Head(inbox) \in {"updated", "canceled"}
    BY <1>6 DEF ListenerDispatch, LoopOK, NoSchedule
  <2>2. Hears
    BY <1>6, <2>1 DEF ListenerDispatch, Hears, Resumes, Running, world, locals
  <2> QED
    BY <2>2 DEF Hears, Alone
<1>7. CASE CheckerMoves
  <2>1. ~ CheckerCancelled
    BY DEF CheckerCancelled, Alone
  <2>2. /\ UNCHANGED cancelRequested
        /\ pc'.handler = pc.handler /\ pc'.listener = pc.listener
    BY <1>7, CheckerFrame
  <2>3. pc'.checker # "cancelled"
    BY <1>7, <2>1 DEF CheckerMoves, CheckerStart, CheckerSync, CheckerLap, CheckerDay,
              CheckerMeasure, CheckerDecide, CheckerNotify, CheckerTrigger, CheckerQuits,
              CheckerRetry, Resumes, Running, Goto
  <2> QED
    BY <1>7, <2>1, <2>2, <2>3 DEF Alone
<1> QED
  BY <1>1, <1>2, <1>3, <1>4, <1>5, <1>6, <1>7, StepKinds

\* Once the checker's query has succeeded there is a wake up, and it lets a rule
\* through only then or to shut down instead.
Handed ==
  /\ query["checker"] \in {"on_validate", "on_compare"} => rtcwake_args.found
  /\ pc.checker \in {"decide", "notify", "trigger", "quit", "done"} /\ query["checker"] = "none"
     /\ ret["checker"] = RTCWAKE_ARGS_SUCESS
     => rtcwake_args.found /\ rtcwake_args.wake # NoTime
  /\ pc.checker \in {"quit", "done"} =>
       ret["checker"] = RTCWAKE_ARGS_SUCESS \/ rtcwake_args.run_shutdown

LEMMA QueryHanded ==
  ASSUME "integrity" \notin Faults, TypeOK, Labels, Handed, Query("checker")
  PROVE  Handed'
<1> USE DEF TypeOK, ControlOK, Actors, SharedOK, LocalsOK
<1>1. UNCHANGED pc
  BY QueryFrame
<1>2. CASE query["checker"] \in OffSteps
  <2>1. query'["checker"] \in OffSteps \cup {"none"} /\ pc.checker \in {"sync", "lap", "measure"}
    BY <1>2, QueryFrame DEF Labels
  <2> QED
    BY <1>1, <2>1 DEF Handed, OffSteps
<1>3. CASE query["checker"] \notin OffSteps
  <2> USE DEF QueryStep, Call, Handed, Labels, OnSteps
  <2>1. pc.checker = "decide" /\ ~ CustomConfig("checker") /\ ~ CustomRow("checker")
    BY <1>3, QueryFrame DEF CustomConfig, CustomRow, CustomSteps
  <2>2. CASE OnBegin("checker") \/ OnConfig("checker") \/ OnClock("checker")
    BY <1>1, <2>1, <2>2 DEF OnBegin, OnConfig, OnClock
  <2>3. CASE OnFault("checker")
    BY <1>1, <2>1, <2>3 DEF OnFault, Return, RTCWAKE_ARGS_FAILURE, RTCWAKE_ARGS_SUCESS, shared
  <2>4. CASE OnToday("checker")
    BY <1>1, <2>1, <2>4 DEF OnToday, FillIn
  <2>5. CASE OnLater("checker")
    <3>1. CASE query'["checker"] = "on_validate" /\ rtcwake_args'.found
      BY <1>1, <2>1, <3>1
    <3>2. CASE query'["checker"] = "none" /\ ret'["checker"] = RTCWAKE_ARGS_NOT_FOUND
      BY <1>1, <2>1, <3>2 DEF RTCWAKE_ARGS_NOT_FOUND, RTCWAKE_ARGS_SUCESS
    <3>3. CASE query'["checker"] = "on_later"
      BY <1>1, <2>1, <3>3
    <3> QED
      BY <2>5, <3>1, <3>2, <3>3 DEF OnLater, FillIn, Return
  <2>6. CASE OnValidate("checker")
    BY <1>1, <2>1, <2>6 DEF OnValidate
  <2>7. CASE OnCompare("checker")
    BY <1>1, <2>1, <2>7 DEF OnCompare, ValidatedReturn, Return, Valid, RTCWAKE_ARGS_SUCESS,
                            INVALID_RTCWAKE_ARGS
  <2>8. ~ (OffBegin("checker") \/ OffConfig("checker") \/ OffFault("checker")
           \/ OffClock("checker") \/ OffToday("checker") \/ OffTomorrow("checker")
           \/ OffMake("checker"))
    BY <1>3 DEF OffBegin, OffConfig, OffFault, OffClock, OffToday, OffTomorrow, OffMake, OffSteps
  <2> QED
    BY <2>1, <2>2, <2>3, <2>4, <2>5, <2>6, <2>7, <2>8 DEF Query
<1> QED
  BY <1>2, <1>3

LEMMA StepHanded ==
  ASSUME NoSchedule, "integrity" \notin Faults, TypeOK, Labels, Alone, Handed, [Next]_vars
  PROVE  Handed'
<1> USE DEF TypeOK, ControlOK, Actors
<1>1. CASE Query("checker")
  BY <1>1, QueryHanded
<1>2. CASE Query("listener") /\ query["listener"] \in OffSteps
  <2>1. /\ UNCHANGED <<pc, rtcwake_args>>
        /\ query'["checker"] = query["checker"] /\ ret'["checker"] = ret["checker"]
    BY <1>2, QueryFrame
  <2> QED
    BY <2>1 DEF Handed
<1>3. CASE Created \/ Aside
  BY <1>3 DEF Created, Aside, steady, Labels, Handed
<1>4. CASE Tick \/ EditDatabase
  BY <1>4 DEF Tick, EditDatabase, shared, locals, Handed
<1>5. CASE Hears
  <2>1. query'["checker"] = query["checker"] /\ UNCHANGED <<pc, ret, rtcwake_args>>
    BY <1>5 DEF Hears, Call
  <2> QED
    BY <2>1 DEF Handed
<1>6. CASE CheckerMoves /\ ~ CheckerCancelled
  <2> USE DEF Goto, Call, Wakes, Resumes, Running, Handed
  <2>1. CASE CheckerStart \/ CheckerSync \/ CheckerLap \/ CheckerDay \/ CheckerRetry
    BY <2>1 DEF CheckerStart, CheckerSync, CheckerLap, CheckerDay, CheckerRetry, shared, locals
  <2>2. CASE CheckerMeasure
    BY <2>2 DEF CheckerMeasure, shared
  <2>3. CASE CheckerDecide
    BY <2>3 DEF CheckerDecide, SharedOK
  <2>4. CASE CheckerNotify
    BY <2>4 DEF CheckerNotify, shared
  <2>5. CASE CheckerTrigger
    BY <2>5 DEF CheckerTrigger, Dropped, DroppedIfFailed, shared
  <2>6. CASE CheckerQuits
    BY <2>6 DEF CheckerQuits, shared, locals
  <2> QED
    BY <1>6, <2>1, <2>2, <2>3, <2>4, <2>5, <2>6 DEF CheckerMoves
<1> QED
  BY <1>1, <1>2, <1>3, <1>4, <1>5, <1>6, AloneKinds

\* If only a turn off rule can end the wait, what scheduler () hands over says
\* when to wake up, or to shut down instead (lines 87-97 and 222-239), however
\* slow the threads are.
THEOREM HandsOverAWakeUp ==
  ASSUME NoSchedule, "integrity" \notin Faults
  PROVE  Spec => []HandedOver
<1>1. Init => Labels /\ Alone /\ Handed /\ Decision
  <2>1. Init => Alone /\ Decision
    BY DEF Init, Alone, Decision
  <2>2. Init => Handed
    BY DEF Init, Handed, Actors
  <2> QED
    BY <2>1, <2>2, InitLabels
<1>2. TypeOK /\ (Labels /\ Alone /\ Handed /\ Decision) /\ [Next]_vars =>
        (Labels /\ Alone /\ Handed /\ Decision)'
  BY StepLabels, AloneKinds, StepHanded, StepDecision
<1>3. TypeOK /\ (Labels /\ Alone /\ Handed /\ Decision) => HandedOver
  <2> SUFFICES ASSUME TypeOK, Labels, Alone, Handed, Decision, pc.main = "returned"
               PROVE  \/ rtcwake_args.found /\ rtcwake_args.wake # NoTime
                      \/ rtcwake_args.run_shutdown
    BY DEF HandedOver
  <2>1. pc.checker = "done" /\ query["checker"] = "none"
    BY DEF Decision, Alone, Labels, TypeOK, ControlOK, Actors
  <2> QED
    BY <2>1 DEF Handed
<1> QED
  BY <1>1, <1>2, <1>3, TypeCorrect, PTL DEF Spec

-----------------------------------------------------------------------------
(* What the SIGTERM handler leaves behind.                                 *)

\* While the handler works the listener waits, and the wake up it has found lies
\* ahead; once it has stopped the scheduler, the minute does not end before
\* scheduler () returns.
Alarm ==
  /\ pc.handler = "idle" \/ query["handler"] # "none" => ret["handler"] # RTCWAKE_ARGS_SUCESS
  /\ query["handler"] \in {"on_validate", "on_compare"} => rtcwake_args.wake > now
  /\ HandlerWorks /\ ret["handler"] = RTCWAKE_ARGS_SUCESS => rtcwake_args.wake > now
  /\ pc.handler = "finalize" => rtcwake_args.mode = NO /\ ~ rtcwake_args.shutdown_fail
  /\ HandlerWorks => \/ pc.listener = "exited"
                     \/ pc.listener = "dispatch" /\ gsd_loop = "running" /\ inbox = <<>>
  /\ pc.listener \in {"dispatch", "finalize"} => gsd_loop \in {"running", "quit"}
  /\ "handler" \in decided =>
       /\ rtcwake_args.mode = NO /\ rtcwake_args.wake > now
       /\ pc.handler = "served" /\ cancelRequested /\ CheckerAsleep
       /\ ~ ListenerWorks
       /\ \/ pc.listener = "exited"
          \/ pc.listener = "dispatch" /\ gsd_loop = "quit" /\ inbox = <<>>

LEMMA InitAlarm == Init => Alarm
  BY DEF Init, Alarm, HandlerWorks, RTCWAKE_ARGS_SUCESS, Actors

\* The handler's own query.
LEMMA HandlerQueryAlarm ==
  ASSUME "integrity" \notin Faults, InOrder, OnQuery, Alarm, Query("handler")
  PROVE  Alarm'
<1> USE DEF InOrder, TypeOK, ControlOK, LocalsOK, SharedOK, Actors, QueryStep, Call
<1>1. /\ UNCHANGED <<now, pc, gsd_loop, inbox, decided>>
      /\ query["handler"] \in OnSteps /\ pc.handler = "override"
  BY QueryFrame DEF Labels, OffSteps, CustomSteps, OnSteps
<1>2. "handler" \notin decided /\ HandlerWorks
  BY <1>1 DEF Alarm, HandlerWorks
<1>3. query'["handler"] \in {"on_validate", "on_compare"} => rtcwake_args'.wake > now
  <2>1. CASE (OnToday("handler") \/ OnLater("handler")) /\ query'["handler"] = "on_validate"
    BY <2>1, OnFinds
  <2>2. CASE ~ (OnToday("handler") \/ OnLater("handler"))
    <3>1. OnValidate("handler") \/ query'["handler"] \notin {"on_validate", "on_compare"}
      BY <1>1, <2>2 DEF Query, OffBegin, OffConfig, OffFault, OffClock, OffToday, OffTomorrow,
                        OffMake, OnBegin, OnConfig, OnFault, OnClock, CustomConfig, CustomRow,
                        OnCompare, OnSteps
    <3>2. OnValidate("handler") => query["handler"] = "on_validate" /\ UNCHANGED rtcwake_args
      BY DEF OnValidate
    <3> QED
      BY <3>1, <3>2 DEF Alarm
  <2>3. CASE OnToday("handler") \/ OnLater("handler")
    <3>1. query'["handler"] # "on_compare"
      BY <2>3 DEF OnToday, OnLater
    <3> QED
      BY <2>1, <2>3, <3>1
  <2> QED
    BY <2>2, <2>3
<1>4. ret["handler"] # RTCWAKE_ARGS_SUCESS
  BY <1>1 DEF Alarm, OnSteps
<1>5. \/ ret'["handler"] # RTCWAKE_ARGS_SUCESS
      \/ query'["handler"] = "none" /\ rtcwake_args'.wake > now
  <2> USE DEF RTCWAKE_ARGS_SUCESS
  <2>1. CASE OnFault("handler")
    BY <2>1 DEF OnFault, Return, RTCWAKE_ARGS_FAILURE
  <2>2. CASE OnLater("handler")
    BY <1>4, <2>2 DEF OnLater, Return, RTCWAKE_ARGS_NOT_FOUND
  <2>3. CASE OnCompare("handler")
    BY <2>3 DEF OnCompare, Alarm
  <2>4. CASE UNCHANGED ret
    BY <1>4, <2>4
  <2> QED
    BY <2>1, <2>2, <2>3, <2>4 DEF Query, OffBegin, OffConfig, OffFault, OffClock, OffToday,
          OffTomorrow, OffMake, OnBegin, OnConfig, OnClock, OnToday, CustomConfig, CustomRow,
          OnValidate
<1> QED
  BY <1>1, <1>2, <1>3, <1>4, <1>5 DEF Alarm, HandlerWorks

LEMMA StepAlarm ==
  ASSUME Pace = "quiet", "integrity" \notin Faults, InOrder, OnQuery, Alarm, [Next]_vars
  PROVE  Alarm'
<1> USE DEF Actors
<1>t. TypeOK /\ Labels /\ Solo /\ ControlOK
  BY DEF InOrder, TypeOK
<1>1. CASE Query("handler")
  BY <1>1, HandlerQueryAlarm
<1>2. ASSUME NEW a \in {"checker", "listener"}, Query(a) PROVE Alarm'
  <2>1. /\ UNCHANGED <<pc, gsd_loop, inbox, decided>>
        /\ query'["handler"] = query["handler"] /\ ret'["handler"] = ret["handler"]
        /\ query[a] # "none"
    BY <1>2, <1>t, QueryFrame DEF OffSteps, OnSteps, CustomSteps
  <2>2. ~ HandlerWorks /\ "handler" \notin decided
    BY <1>2, <1>t, <2>1 DEF Solo, CheckerAsleep, ListenerWorks, Alarm
  <2>3. query["handler"] = "none"
    BY <1>t, <2>2 DEF Labels, HandlerWorks
  <2> QED
    BY <2>1, <2>2, <2>3 DEF Alarm, HandlerWorks
<1>3. CASE Created
  <2>1. pc.checker = "new" /\ "handler" \notin decided
    BY <1>3, <1>t DEF Created, Labels, Alarm, CheckerAsleep
  <2> QED
    BY <1>3, <1>t, <2>1 DEF Created, steady, Alarm, HandlerWorks, ControlOK
<1>4. CASE Aside /\ Otherwise
  <2>1. /\ UNCHANGED <<now, wakeAt, query, ret, rtcwake_args, decided, cancelRequested>>
        /\ pc'.handler = pc.handler /\ pc'.checker = pc.checker
    BY <1>4 DEF Aside, steady
  <2>2. CASE EmitSignal
    <3>1. Blocked /\ UNCHANGED <<pc, gsd_loop>>
      BY <2>2 DEF EmitSignal
    <3>2. ~ HandlerWorks /\ (pc.listener = "dispatch" => gsd_loop # "quit")
      BY <1>t, <3>1, BlockedRests
    <3> QED
      BY <2>1, <3>1, <3>2 DEF Alarm, HandlerWorks, ListenerWorks, CheckerAsleep
  <2>3. CASE MainFail \/ MainJoin \/ UNCHANGED vars
    <3>1. pc'.listener = pc.listener /\ UNCHANGED <<gsd_loop, inbox>>
      BY <1>t, <2>3 DEF MainFail, MainJoin, MainGoto, Goto, loop, vars, ControlOK
    <3> QED
      BY <2>1, <3>1 DEF Alarm, HandlerWorks, ListenerWorks, CheckerAsleep
  <2>4. CASE MainCreate \/ ListenerConnect \/ ListenerRun
    <3>1. \/ Created
          \/ /\ pc.listener \in {"new", "proxy", "loop", "run"}
             /\ pc'.listener # "finalize"
             /\ pc'.listener = "dispatch" => gsd_loop' = "running"
      <4>1. CASE MainCreate
        BY <1>t, <4>1 DEF MainCreate, Running, Labels, Created, steady, world, shared, loop, locals,
                          history, ControlOK
      <4>2. CASE ListenerConnect \/ ListenerRun
        BY <1>t, <4>2 DEF ListenerConnect, ListenerRun, Goto, Running, ControlOK
      <4> QED
        BY <2>4, <4>1, <4>2
    <3> QED
      BY <1>3, <2>1, <3>1 DEF Alarm, HandlerWorks, ListenerWorks
  <2>5. CASE ListenerExit
    <3>1. pc.listener = "dispatch" /\ gsd_loop = "quit" /\ pc'.listener = "exited"
      BY <1>t, <2>5 DEF ListenerExit, Resumes, Running, Goto, ControlOK
    <3> QED
      BY <2>1, <3>1 DEF Alarm, HandlerWorks, ListenerWorks, CheckerAsleep
  <2> QED
    BY <1>4, <2>2, <2>3, <2>4, <2>5 DEF Otherwise, Main
<1>5. CASE Tick
  <2>1. Blocked /\ UNCHANGED <<pc, query, ret, gsd_loop, decided>>
    BY <1>5 DEF Tick, loop, locals, history
  <2>2. /\ ~ HandlerWorks /\ query["handler"] = "none"
        /\ pc.listener = "dispatch" => gsd_loop # "quit"
    BY <1>t, <2>1, BlockedRests
  <2>3. "handler" \notin decided
    BY <2>1, <2>2 DEF Blocked, Alarm
  <2> QED
    BY <2>1, <2>2, <2>3 DEF Alarm, HandlerWorks
<1>6. CASE EditDatabase
  BY <1>6 DEF EditDatabase, shared, loop, locals, Alarm, HandlerWorks, ListenerWorks, CheckerAsleep
<1>7. CASE Sigterm
  <2>1. /\ Blocked /\ pc.handler = "idle"
        /\ pc'.listener = pc.listener /\ UNCHANGED <<ret, gsd_loop, inbox, decided>>
        /\ query'["handler"] = "on_begin" /\ pc'.handler = "override"
    BY <1>7, <1>t DEF Sigterm, Running, Goto, Call, loop, locals, history, ControlOK
  <2> QED
    BY <1>t, <2>1, BlockedRests DEF Alarm, HandlerWorks
<1>8. CASE HandlerOverride
  <2>1. /\ UNCHANGED <<now, query, ret, gsd_loop, inbox, decided>>
        /\ pc.handler = "override" /\ query["handler"] = "none"
        /\ pc' = [pc EXCEPT !.handler = "finalize"]
        /\ rtcwake_args' = [rtcwake_args EXCEPT !.mode = NO, !.shutdown_fail = FALSE]
    BY <1>8 DEF HandlerOverride, Override, Resumes, Running, Goto, world, loop, locals, history
  <2>2. /\ rtcwake_args'.mode = NO /\ ~ rtcwake_args'.shutdown_fail
        /\ rtcwake_args'.wake = rtcwake_args.wake
    BY <1>t, <2>1 DEF TypeOK, SharedOK
  <2>3. HandlerWorks /\ "handler" \notin decided
    BY <2>1 DEF HandlerWorks, Alarm
  <2>4. pc'.handler = "finalize" /\ pc'.listener = pc.listener
    BY <1>t, <2>1 DEF ControlOK
  <2> QED
    BY <2>1, <2>2, <2>3, <2>4 DEF Alarm, HandlerWorks
<1>9. CASE HandlerFinalize
  <2>1. /\ UNCHANGED <<now, inbox, query, ret, wakeAt>>
        /\ pc.handler = "finalize" /\ query["handler"] = "none"
        /\ pc'.checker = pc.checker /\ pc'.listener = pc.listener
        /\ pc'.handler \in {"finalize", "served"}
        /\ "handler" \notin decided
    BY <1>t, <1>9, FinalizeFrame DEF Alarm, ControlOK
  <2>2. ~ rtcwake_args.shutdown_fail /\ HandlerWorks
    BY <2>1 DEF Alarm, HandlerWorks
  <2>3. rtcwake_args' = rtcwake_args
    BY <1>9, <2>2 DEF HandlerFinalize, ScheduleFinalize
  <2>4. CASE UNCHANGED <<gsd_loop, decided>>
    BY <2>1, <2>2, <2>3, <2>4 DEF Alarm, HandlerWorks
  <2>5. CASE /\ ret["handler"] = RTCWAKE_ARGS_SUCESS
             /\ CancelChecker /\ QuitLoop("handler")
             /\ pc' = [pc EXCEPT !.handler = "served"]
    <3>1. /\ pc'.handler = "served" /\ cancelRequested'
          /\ gsd_loop' = IF gsd_loop = "running" THEN "quit" ELSE gsd_loop
      BY <1>t, <2>5 DEF CancelChecker, QuitLoop, ControlOK
    <3>2. rtcwake_args'.mode = NO /\ rtcwake_args'.wake > now'
      BY <2>1, <2>2, <2>3, <2>5 DEF Alarm
    <3>3. CheckerAsleep' /\ ~ ListenerWorks'
      BY <1>t, <2>1, <2>2 DEF Solo, CheckerAsleep, ListenerWorks
    <3>4. \/ pc'.listener = "exited"
          \/ pc'.listener = "dispatch" /\ gsd_loop' = "quit" /\ inbox' = <<>>
      BY <2>1, <2>2, <3>1 DEF Alarm
    <3> QED
      BY <2>1, <3>1, <3>2, <3>3, <3>4 DEF Alarm, HandlerWorks
  <2> QED
    BY <1>9, <2>2, <2>4, <2>5 DEF HandlerFinalize, ScheduleFinalize, StopScheduler
<1>10. CASE ListenerFinalize
  <2>1. /\ UNCHANGED <<query, ret>> /\ pc.listener = "finalize" /\ pc'.handler = pc.handler
        /\ pc'.listener \in {"finalize", "dispatch"}
    BY <1>t, <1>10, FinalizeFrame DEF ControlOK
  <2>2. /\ gsd_loop' \in {gsd_loop, IF gsd_loop = "running" THEN "quit" ELSE gsd_loop}
        /\ decided' \in {decided, decided \cup {"listener"}}
    BY <1>10 DEF ListenerFinalize, ScheduleFinalize, StopScheduler, QuitLoop
  <2>3. ListenerWorks /\ ~ HandlerWorks /\ "handler" \notin decided /\ query["handler"] = "none"
    BY <1>t, <2>1 DEF Solo, ListenerWorks, HandlerWorks, Alarm, Labels
  <2> QED
    BY <2>1, <2>2, <2>3 DEF Alarm, HandlerWorks
<1>11. CASE ListenerDispatch
  <2>1. /\ UNCHANGED <<gsd_loop, ret, decided>> /\ pc.listener = "dispatch" /\ inbox # <<>>
        /\ pc'.handler = pc.handler /\ query'["handler"] = query["handler"]
    BY <1>t, <1>11 DEF ListenerDispatch, Resumes, Running, Goto, Call, locals, ControlOK
  <2>2. ~ HandlerWorks /\ "handler" \notin decided /\ query["handler"] = "none"
    BY <1>t, <2>1 DEF Alarm, Labels, HandlerWorks
  <2> QED
    BY <2>1, <2>2 DEF Alarm, HandlerWorks
<1>12. CASE CheckerMoves /\ ~ CheckerCancelled
  <2>1. ~ HandlerWorks /\ "handler" \notin decided /\ query["handler"] = "none"
    BY <1>t, <1>12, CheckerIsAwake DEF Solo, Alarm, Labels, HandlerWorks
  <2>2. /\ pc'.handler = pc.handler /\ pc'.listener = pc.listener /\ UNCHANGED ret
        /\ query'["handler"] = query["handler"]
    BY <1>t, <1>12, CheckerFrame DEF ControlOK
  <2>3. /\ gsd_loop' \in {gsd_loop, IF gsd_loop = "running" THEN "quit" ELSE gsd_loop}
        /\ decided' \in {decided, decided \cup {"checker"}}
    BY <1>12 DEF CheckerMoves, CheckerStart, CheckerSync, CheckerLap, CheckerDay, CheckerMeasure,
                 CheckerDecide, CheckerNotify, CheckerTrigger, CheckerQuits, CheckerRetry,
                 QuitLoop, loop, history
  <2> QED
    BY <2>1, <2>2, <2>3 DEF Alarm, HandlerWorks
<1>13. CASE CheckerCancelled
  <2>1. /\ UNCHANGED <<now, rtcwake_args, gsd_loop, inbox, ret, decided, cancelRequested>>
        /\ pc' = [pc EXCEPT !.checker = "cancelled"]
        /\ query' = [query EXCEPT !["checker"] = "none"]
    BY <1>13 DEF CheckerCancelled, Goto, Call, world, shared, loop, locals, history
  <2>2. /\ pc'.handler = pc.handler /\ pc'.listener = pc.listener /\ pc'.checker = "cancelled"
        /\ query'["handler"] = query["handler"] /\ query'["listener"] = query["listener"]
        /\ query'["checker"] = "none"
    BY <1>t, <2>1 DEF ControlOK
  <2> QED
    BY <2>1, <2>2 DEF Alarm, HandlerWorks, ListenerWorks, CheckerAsleep
<1> QED
  BY <1>t, <1>1, <1>2, <1>3, <1>4, <1>5, <1>6, <1>7, <1>8, <1>9, <1>10, <1>11, <1>12, <1>13,
     StepKinds

\* When systemd stops the service, the mode the handler leaves is NO, and the
\* wake up lies ahead (lines 1163-1201), whatever the other threads waited for.
LEMMA SetsTheAlarm ==
  ASSUME Pace = "quiet", "integrity" \notin Faults
  PROVE  Spec => []("handler" \in decided => rtcwake_args.mode = NO /\ rtcwake_args.wake > now)
<1>1. Init => OnQuery /\ Alarm
  BY InitOnQuery, InitAlarm
<1>2. InOrder /\ (OnQuery /\ Alarm) /\ [Next]_vars => (OnQuery /\ Alarm)'
  BY StepOnQuery, StepAlarm DEF Calm
<1>3. Alarm => ("handler" \in decided => rtcwake_args.mode = NO /\ rtcwake_args.wake > now)
  BY DEF Alarm
<1>4. Spec => []InOrder
  BY InOrderInvariant DEF Calm
<1> QED
  BY <1>1, <1>2, <1>3, <1>4, PTL DEF Spec
=============================================================================
