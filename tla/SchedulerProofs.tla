---------------------------- MODULE SchedulerProofs ----------------------------
(***************************************************************************)
(* Type correctness of Scheduler and its safety under every interleaving,  *)
(* for every database, horizon, pace and set of faults: who ends the wait, *)
(* and what the last lap of the checker guarantees.  The safety rests on   *)
(* two inductive invariants, Decision and LastLap.                         *)
(***************************************************************************)
EXTENDS Scheduler, RuleLookupProofs, SequenceTheorems

Steps == OffSteps \cup OnSteps \cup CustomSteps \cup {"none"}

-----------------------------------------------------------------------------
(* What the data is made of.                                               *)

\* The file is one of the databases that the constants allow.
LEMMA DatabaseType ==
  ASSUME TypeOK
  PROVE  db \in Database
  BY SchedulerAssumption DEF TypeOK, WorldOK

\* What localtime () returns fits timeinfo.
LEMMA BrokenDownType ==
  ASSUME NEW t \in Nat
  PROVE  BrokenDown(t) \in [date : Nat, minute : Minutes, wday : WeekDays]
<1>1. Date(t) \in Nat /\ Minute(t) \in Minutes
  BY DayAndMinute
<1>2. Date(t) % 7 \in WeekDays
  BY <1>1 DEF WeekDays
<1> QED
  BY <1>1, <1>2 DEF BrokenDown, WeekDay

\* A date that was made from a day and a minute is a time.
LEMMA AtType ==
  ASSUME NEW d \in Nat, NEW m \in Minutes
  PROVE  At(d, m) \in Nat
  BY AtInverse

\* What the queries return are rows of the database.
LEMMA LookupType ==
  ASSUME NEW rules \in SUBSET Rule(Modes), NEW wday, NEW minute
  PROVE  /\ \A r \in LaterToday(rules, wday, minute) \cup Tomorrow(rules, wday) :
              r.minute \in Minutes /\ r.mode \in Modes
         /\ \A k : \A r \in OnDayAhead(rules, wday, k) : r.minute \in Minutes
<1>1. \A r \in rules : r.minute \in Minutes /\ r.mode \in Modes
  BY DEF Rule
<1>2. LaterToday(rules, wday, minute) \subseteq rules /\ Tomorrow(rules, wday) \subseteq rules
  BY DEF LaterToday, Tomorrow, Earliest, Active
<1>3. \A k : OnDayAhead(rules, wday, k) \subseteq rules
  BY DEF OnDayAhead, Earliest, Active
<1> QED
  BY <1>1, <1>2, <1>3

-----------------------------------------------------------------------------
(* What a step leaves alone keeps its type.                                *)

\* A conjunct of TypeOK survives a step that leaves its variables alone.
LEMMA Frames ==
  /\ WorldOK /\ UNCHANGED world => WorldOK'
  /\ SharedOK /\ UNCHANGED shared => SharedOK'
  /\ LoopOK /\ UNCHANGED loop => LoopOK'
  /\ ControlOK /\ UNCHANGED <<pc, query>> => ControlOK'
  /\ LocalsOK /\ UNCHANGED locals => LocalsOK'
  /\ HistoryOK /\ UNCHANGED history => HistoryOK'
  BY DEF WorldOK, world, SharedOK, shared, LoopOK, loop, ControlOK, LocalsOK, locals,
         HistoryOK, history

\* What every step of a query preserves.
LEMMA QueryStepType ==
  ASSUME TypeOK, NEW a \in Actors, NEW from \in Steps, NEW to \in Steps,
         QueryStep(a, from, to)
  PROVE  /\ WorldOK' /\ LoopOK' /\ ControlOK' /\ HistoryOK'
         /\ /\ clock' \in [Actors -> Nat] /\ ret' \in [Actors -> 0..3]
            /\ from = "on_later" /\ to = "on_later" => ahead[a] < 7
            => LocalsOK'
<1>1. WorldOK' /\ LoopOK'
  BY Frames DEF TypeOK, QueryStep
<1>2. ControlOK'
  BY DEF TypeOK, ControlOK, QueryStep, Call, Steps
<1>3. HistoryOK'
  BY DEF TypeOK, HistoryOK, QueryStep, WorldOK
<1>4. ASSUME clock' \in [Actors -> Nat], ret' \in [Actors -> 0..3],
             from = "on_later" /\ to = "on_later" => ahead[a] < 7
      PROVE  LocalsOK'
  <2>1. ahead' \in [Actors -> 0..7]
    BY <1>4 DEF TypeOK, LocalsOK, QueryStep
  <2> QED
    BY <1>4, <2>1 DEF TypeOK, LocalsOK, QueryStep
<1> QED
  BY <1>1, <1>2, <1>3, <1>4

\* What a step does to the control, whichever thread takes it.
LEMMA GotoType ==
  ASSUME ControlOK
  PROVE  /\ \A l \in MainSteps : Goto("main", l) /\ UNCHANGED query => ControlOK'
         /\ \A l \in CheckerSteps : Goto("checker", l) /\ UNCHANGED query => ControlOK'
         /\ \A l \in ListenerSteps : Goto("listener", l) /\ UNCHANGED query => ControlOK'
         /\ \A l \in HandlerSteps : Goto("handler", l) /\ UNCHANGED query => ControlOK'
         /\ \A l \in CheckerSteps, s \in Steps :
              Goto("checker", l) /\ Call("checker", s) => ControlOK'
         /\ \A l \in ListenerSteps, s \in Steps :
              Goto("listener", l) /\ Call("listener", s) => ControlOK'
         /\ \A l \in HandlerSteps, s \in Steps :
              Goto("handler", l) /\ Call("handler", s) => ControlOK'
  BY DEF ControlOK, Goto, Call, Actors, Steps

\* A step of a query, whoever runs it.
LEMMA QueryType ==
  ASSUME TypeOK, NEW a \in Actors, Query(a)
  PROVE  TypeOK'
<1> USE DEF Steps, OffSteps, OnSteps, CustomSteps
<1>t. /\ now \in Nat
      /\ SharedOK
      /\ clock \in [Actors -> Nat] /\ ret \in [Actors -> 0..3]
  BY DEF TypeOK, WorldOK, LocalsOK
<1>d. db \in Database
  BY DatabaseType
<1>1. CASE OffBegin(a)
  BY <1>1, <1>t, QueryStepType DEF TypeOK, OffBegin, SharedOK
<1>2. CASE OffConfig(a)
  <2>1. db.notification_time \in Nat
    BY <1>d, SchedulerAssumption DEF Database
  <2>2. SharedOK'
    BY <1>2, <1>t, <2>1 DEF OffConfig, SharedOK
  <2> QED
    BY <1>2, <1>t, <2>2, QueryStepType DEF TypeOK, OffConfig
<1>3. CASE OffFault(a)
  BY <1>3, <1>t, QueryStepType, Frames DEF TypeOK, OffFault
<1>4. CASE OffClock(a)
  <2>1. SharedOK'
    BY <1>4, <1>t, BrokenDownType DEF OffClock, SharedOK
  <2>2. clock' \in [Actors -> Nat]
    BY <1>4, <1>t DEF OffClock
  <2> QED
    BY <1>4, <1>t, <2>1, <2>2, QueryStepType DEF TypeOK, OffClock
<1>5. CASE OffToday(a)
  <2> DEFINE today == LaterToday(db.turnoff, WeekDay(clock[a]), Minute(clock[a]))
  <2>1. db.turnoff \in SUBSET Rule(Modes)
    BY <1>d DEF Database
  <2>2. \A r \in today : r.minute \in Minutes /\ r.mode \in Modes
    BY <2>1, LookupType
  <2>3. \/ \E r \in today : Found(r) /\ timeinfo' = [timeinfo EXCEPT !.minute = r.minute]
        \/ UNCHANGED <<upcoming_off_rule, timeinfo>>
    BY <1>5 DEF OffToday
  <2>4. UNCHANGED <<rtcwake_args, canceled, clock, ret>>
    BY <1>5 DEF OffToday
  <2> HIDE DEF today
  <2>5. SharedOK'
    BY <1>t, <2>2, <2>3, <2>4 DEF SharedOK, Found
  <2> QED
    BY <1>5, <1>t, <2>4, <2>5, QueryStepType DEF TypeOK, OffToday
<1>6. CASE OffTomorrow(a)
  <2> DEFINE tomorrow == Tomorrow(db.turnoff, timeinfo.wday)
  <2>1. db.turnoff \in SUBSET Rule(Modes) /\ Date(now) \in Nat
    BY <1>d, <1>t, DayAndMinute DEF Database
  <2>2. \A r \in tomorrow : r.minute \in Minutes /\ r.mode \in Modes
    BY <2>1, LookupType
  <2>3. \/ \E r \in tomorrow :
             /\ Found(r)
             /\ timeinfo' = [timeinfo EXCEPT !.date = Date(now) + 1, !.minute = r.minute]
        \/ UNCHANGED <<upcoming_off_rule, timeinfo>>
    BY <1>6 DEF OffTomorrow
  <2>4. UNCHANGED <<rtcwake_args, canceled, clock, ret>>
    BY <1>6 DEF OffTomorrow
  <2> HIDE DEF tomorrow
  <2>5. SharedOK'
    <3>1. Date(now) + 1 \in Nat
      BY <2>1
    <3>2. upcoming_off_rule' \in [found : BOOLEAN, mode : Modes, rule_time : Nat,
                                  notification_time : Nat]
      BY <1>t, <2>2, <2>3 DEF SharedOK, Found
    <3>3. timeinfo' \in [date : Nat, minute : Minutes, wday : WeekDays]
      BY <1>t, <2>2, <2>3, <3>1 DEF SharedOK
    <3> QED
      BY <1>t, <2>4, <3>2, <3>3 DEF SharedOK
  <2>6. QueryStep(a, "off_tomorrow", "off_make")
    BY <1>6 DEF OffTomorrow
  <2> QED
    BY <1>t, <2>4, <2>5, <2>6, QueryStepType DEF TypeOK
<1>7. CASE OffMake(a)
  <2>1. At(timeinfo.date, timeinfo.minute) \in Nat /\ timeinfo.date % 7 \in WeekDays
    BY <1>t, AtType DEF SharedOK, WeekDays
  <2>2. SharedOK'
    BY <1>7, <1>t, <2>1 DEF OffMake, SharedOK
  <2> QED
    BY <1>7, <1>t, <2>2, QueryStepType DEF TypeOK, OffMake
<1>8. CASE OnBegin(a)
  BY <1>8, <1>t, QueryStepType DEF TypeOK, OnBegin, SharedOK
<1>9. CASE OnConfig(a)
  <2>1. db.default_mode \in Modes /\ db.shutdown_fail \in BOOLEAN
    BY <1>d DEF Database
  <2>2. ModeFor(a) \in Modes
    BY <2>1, <1>t DEF ModeFor, SharedOK
  <2>3. SharedOK'
    BY <1>9, <1>t, <2>1, <2>2 DEF OnConfig, SharedOK
  <2> QED
    BY <1>9, <1>t, <2>3, QueryStepType DEF TypeOK, OnConfig
<1>10. CASE OnFault(a)
  <2>1. ret' \in [Actors -> 0..3] /\ UNCHANGED <<shared, clock>>
    BY <1>10, <1>t DEF OnFault, Return, EXIT_FAILURE, RTCWAKE_ARGS_FAILURE
  <2>2. SharedOK'
    BY <2>1, <1>t, Frames
  <2> QED
    BY <1>10, <1>t, <2>1, <2>2, QueryStepType DEF TypeOK, OnFault
<1>11. CASE OnClock(a)
  <2>1. SharedOK'
    BY <1>11, <1>t, BrokenDownType DEF OnClock, SharedOK
  <2>2. clock' \in [Actors -> Nat]
    BY <1>11, <1>t DEF OnClock
  <2> QED
    BY <1>11, <1>t, <2>1, <2>2, QueryStepType DEF TypeOK, OnClock
<1>12. ASSUME NEW wake \in Nat, FillIn(wake), UNCHANGED <<upcoming_off_rule, canceled, timeinfo>>
       PROVE  SharedOK'
  BY <1>12, <1>t DEF SharedOK, FillIn, Times
<1>13. CASE OnToday(a)
  <2>1. db.turnon \in SUBSET Rule(Modes) /\ Date(now) \in Nat
    BY <1>d, <1>t, DayAndMinute DEF Database
  <2>2. ASSUME NEW r \in LaterToday(db.turnon, WeekDay(clock[a]), Minute(clock[a]))
        PROVE  At(Date(now), r.minute) \in Nat
    <3>1. r.minute \in Minutes
      BY <2>1, LookupType
    <3> QED
      BY <2>1, <3>1, AtType
  <2>3. SharedOK'
    <3>1. CASE \E r \in LaterToday(db.turnon, WeekDay(clock[a]), Minute(clock[a])) :
                 FillIn(At(Date(now), r.minute))
      BY <1>13, <2>2, <3>1, <1>12 DEF OnToday
    <3>2. CASE UNCHANGED rtcwake_args
      BY <1>13, <1>t, <3>2 DEF OnToday, SharedOK
    <3> QED
      BY <1>13, <3>1, <3>2 DEF OnToday
  <2> QED
    BY <1>13, <1>t, <2>3, QueryStepType DEF TypeOK, OnToday
<1>14. CASE OnLater(a)
  <2>1. db.turnon \in SUBSET Rule(Modes) /\ Date(now) \in Nat
    BY <1>d, <1>t, DayAndMinute DEF Database
  <2>2. ahead[a] \in Nat
    BY DEF TypeOK, LocalsOK
  <2>3. CASE \E r \in OnDayAhead(db.turnon, timeinfo.wday, ahead[a]) :
               /\ QueryStep(a, "on_later", "on_validate")
               /\ FillIn(At(Date(now) + ahead[a], r.minute))
               /\ UNCHANGED ret
    <3>1. PICK r \in OnDayAhead(db.turnon, timeinfo.wday, ahead[a]) :
                 FillIn(At(Date(now) + ahead[a], r.minute))
      BY <2>3
    <3>2. r.minute \in Minutes /\ Date(now) + ahead[a] \in Nat
      BY <2>1, <2>2, <3>1, LookupType
    <3>3. At(Date(now) + ahead[a], r.minute) \in Nat
      BY <3>2, AtType
    <3>4. SharedOK'
      BY <1>14, <3>1, <3>3, <1>12 DEF OnLater
    <3> QED
      BY <1>14, <1>t, <2>3, <3>4, QueryStepType DEF TypeOK, OnLater
  <2>4. CASE /\ ahead[a] < 7 /\ QueryStep(a, "on_later", "on_later")
             /\ UNCHANGED <<rtcwake_args, ret>>
    <3>1. SharedOK'
      BY <1>14, <1>t, <2>4 DEF OnLater, SharedOK
    <3> QED
      BY <1>14, <1>t, <2>4, <3>1, QueryStepType DEF TypeOK, OnLater
  <2>5. CASE /\ QueryStep(a, "on_later", "none") /\ UNCHANGED rtcwake_args
             /\ Return(a, RTCWAKE_ARGS_NOT_FOUND)
    <3>1. SharedOK' /\ ret' \in [Actors -> 0..3]
      BY <1>14, <1>t, <2>5 DEF OnLater, SharedOK, Return, RTCWAKE_ARGS_NOT_FOUND
    <3> QED
      BY <1>14, <1>t, <2>5, <3>1, QueryStepType DEF TypeOK, OnLater
  <2> QED
    BY <1>14, <2>3, <2>4, <2>5 DEF OnLater
<1>15. CASE CustomConfig(a)
  <2>1. db.shutdown_fail \in BOOLEAN
    BY <1>d DEF Database
  <2>2. SharedOK'
    BY <1>15, <1>t, <2>1 DEF CustomConfig, SharedOK
  <2> QED
    BY <1>15, <1>t, <2>2, QueryStepType DEF TypeOK, CustomConfig
<1>16. CASE CustomRow(a)
  <2>1. db.custom \in Times /\ db.custom_mode \in Modes
    BY <1>d DEF Database
  <2>2. SharedOK'
    BY <1>16, <1>t, <2>1 DEF CustomRow, SharedOK
  <2> QED
    BY <1>16, <1>t, <2>2, QueryStepType DEF TypeOK, CustomRow
<1>17. CASE OnValidate(a)
  <2>1. rtcwake_args.wake \in Nat \/ rtcwake_args.wake = NoTime
    BY <1>t DEF SharedOK, Times
  <2>2. ASSUME rtcwake_args.wake \in Nat
        PROVE  At(Date(rtcwake_args.wake), 0) \in Nat
    <3>1. Date(rtcwake_args.wake) \in Nat
      BY <2>2, DayAndMinute
    <3>2. 0 \in Minutes
      BY DayLengthAssumption DEF Minutes
    <3> QED
      BY <3>1, <3>2, AtType
  <2>3. timeinfo' \in [date : Nat, minute : Minutes, wday : WeekDays]
    BY <1>17, <2>1, <2>2, BrokenDownType DEF OnValidate
  <2>4. UNCHANGED <<upcoming_off_rule, rtcwake_args, canceled, clock, ret>>
    BY <1>17 DEF OnValidate
  <2>5. SharedOK'
    BY <1>t, <2>3, <2>4 DEF SharedOK
  <2> QED
    BY <1>17, <1>t, <2>4, <2>5, QueryStepType DEF TypeOK, OnValidate
<1>18. CASE OnCompare(a)
  <2>1. ret' = [ret EXCEPT ![a] = 1] \/ ret' = [ret EXCEPT ![a] = 3]
    BY <1>18 DEF OnCompare, ValidatedReturn, Return, RTCWAKE_ARGS_SUCESS, INVALID_RTCWAKE_ARGS
  <2>2. ret' \in [Actors -> 0..3]
    BY <1>t, <2>1
  <2>3. SharedOK'
    BY <1>18, <1>t, BrokenDownType DEF OnCompare, SharedOK
  <2> QED
    BY <1>18, <1>t, <2>2, <2>3, QueryStepType DEF TypeOK, OnCompare
<1> QED
  BY <1>1, <1>2, <1>3, <1>4, <1>5, <1>6, <1>7, <1>8, <1>9, <1>10, <1>11, <1>13, <1>14, <1>15,
     <1>16, <1>17, <1>18 DEF Query

\* Telling the main loop to quit.
LEMMA QuitLoopType ==
  ASSUME LoopOK, HistoryOK, NEW a \in Actors, QuitLoop(a)
  PROVE  /\ gsd_loop' \in {"null", "created", "running", "quit", "freed"}
         /\ decided' \subseteq Actors
  BY DEF LoopOK, HistoryOK, QuitLoop

\* schedule_finalize ().
LEMMA FinalizeType ==
  ASSUME TypeOK, NEW a \in Actors, NEW next, ScheduleFinalize(a, next),
         next \in [main : MainSteps, checker : CheckerSteps, listener : ListenerSteps,
                   handler : HandlerSteps]
  PROVE  TypeOK'
<1>1. WorldOK'
  BY Frames DEF TypeOK, ScheduleFinalize
<1>2. SharedOK'
  BY DEF TypeOK, SharedOK, ScheduleFinalize
<1>3. CASE StopScheduler(a, next)
  <2>1. /\ gsd_loop' \in {"null", "created", "running", "quit", "freed"}
        /\ decided' \subseteq Actors /\ cancelRequested' \in BOOLEAN
    BY <1>3, QuitLoopType DEF TypeOK, StopScheduler, CancelChecker, LoopOK, LocalsOK, HistoryOK
  <2>2. pc' \in [main : MainSteps, checker : CheckerSteps, listener : ListenerSteps,
                 handler : HandlerSteps]
    BY <1>3 DEF TypeOK, ControlOK, StopScheduler, MainSteps
  <2> QED
    BY <1>1, <1>2, <2>1, <2>2 DEF TypeOK, ScheduleFinalize, LoopOK, ControlOK, LocalsOK,
                                  HistoryOK
<1>4. CASE pc' = next /\ UNCHANGED <<cancelRequested, gsd_loop, decided>>
  BY <1>1, <1>2, <1>4 DEF TypeOK, ScheduleFinalize, LoopOK, ControlOK, LocalsOK, HistoryOK
<1> QED
  BY <1>3, <1>4 DEF ScheduleFinalize

\* The main thread and the arrival of SIGTERM.
LEMMA MainType ==
  ASSUME TypeOK, Main \/ Sigterm
  PROVE  TypeOK'
<1> USE DEF MainSteps, HandlerSteps, Steps, OnSteps
<1>1. CASE MainCreate
  <2>1. ControlOK'
    BY <1>1 DEF TypeOK, ControlOK, MainCreate, ListenerSteps, CheckerSteps
  <2> QED
    BY <1>1, <2>1, Frames DEF TypeOK, MainCreate
<1>2. CASE MainFail \/ MainJoin
  <2>1. \E from, to \in MainSteps : MainGoto(from, to)
    BY <1>2 DEF MainFail, MainJoin
  <2> QED
    BY <2>1, GotoType, Frames DEF TypeOK, MainGoto
<1>3. CASE Sigterm
  BY <1>3, GotoType, Frames DEF TypeOK, Sigterm
<1> QED
  BY <1>1, <1>2, <1>3 DEF Main

\* The SIGTERM handler.
LEMMA HandlerType ==
  ASSUME TypeOK, Handler
  PROVE  TypeOK'
<1>1. "handler" \in Actors
  BY DEF Actors
<1>2. CASE Query("handler")
  BY <1>1, <1>2, QueryType
<1>3. CASE HandlerOverride
  <2>1. SharedOK'
    BY <1>3 DEF TypeOK, SharedOK, HandlerOverride, Override, Modes, NO
  <2> QED
    BY <1>3, <2>1, GotoType, Frames DEF TypeOK, HandlerOverride, HandlerSteps
<1>4. CASE ScheduleFinalize("handler", [pc EXCEPT !.handler = "served"])
  BY <1>1, <1>4, FinalizeType DEF TypeOK, ControlOK, HandlerSteps
<1> QED
  BY <1>2, <1>3, <1>4 DEF Handler

\* The listener thread.
LEMMA ListenerType ==
  ASSUME TypeOK, Listener
  PROVE  TypeOK'
<1> USE DEF ListenerSteps
<1>1. "listener" \in Actors
  BY DEF Actors
<1>2. CASE Query("listener")
  BY <1>1, <1>2, QueryType
<1>3. CASE ListenerConnect
  BY <1>3, GotoType, Frames DEF TypeOK, ListenerConnect, LoopOK
<1>4. CASE ListenerRun
  BY <1>4, GotoType, Frames DEF TypeOK, ListenerRun, LoopOK
<1>5. CASE ListenerDispatch
  <2>1. inbox' \in Seq(SignalKinds) /\ heard' \subseteq SignalKinds \cup {"updated"}
    BY <1>5 DEF TypeOK, LoopOK, HistoryOK, ListenerDispatch
  <2>2. SharedOK'
    BY <1>5 DEF TypeOK, SharedOK, ListenerDispatch
  <2>3. ControlOK'
    BY <1>5, <1>1 DEF TypeOK, ControlOK, ListenerDispatch, Goto, Call, Steps, OffSteps, OnSteps,
                      CustomSteps
  <2>4. WorldOK' /\ LocalsOK'
    BY <1>5, Frames DEF TypeOK, ListenerDispatch
  <2>5. LoopOK' /\ HistoryOK'
    BY <1>5, <2>1 DEF TypeOK, LoopOK, HistoryOK, ListenerDispatch
  <2> QED
    BY <2>2, <2>3, <2>4, <2>5 DEF TypeOK
<1>6. CASE ListenerExit
  BY <1>6, GotoType, Frames DEF TypeOK, ListenerExit, LoopOK
<1>7. CASE ScheduleFinalize("listener", [pc EXCEPT !.listener = "dispatch"])
  BY <1>1, <1>7, FinalizeType DEF TypeOK, ControlOK
<1> QED
  BY <1>2, <1>3, <1>4, <1>5, <1>6, <1>7 DEF Listener

\* The checker thread.
LEMMA CheckerType ==
  ASSUME TypeOK, Checker
  PROVE  TypeOK'
<1> USE DEF CheckerSteps, Steps, OffSteps, OnSteps
<1>t. /\ "checker" \in Actors
      /\ now \in Nat /\ WorldOK /\ SharedOK /\ LoopOK /\ ControlOK /\ LocalsOK /\ HistoryOK
  BY DEF TypeOK, WorldOK, Actors
<1>r. Remaining \in Nat
  BY <1>t DEF Remaining, SharedOK
<1>1. CASE Query("checker")
  BY <1>t, <1>1, QueryType
<1>2. CASE CheckerStart
  BY <1>2, <1>t, GotoType, Frames DEF TypeOK, CheckerStart
<1>3. CASE CheckerSync
  <2>1. SharedOK'
    BY <1>3, <1>t, BrokenDownType DEF CheckerSync, SharedOK
  <2>2. LocalsOK'
    BY <1>3, <1>t DEF CheckerSync, LocalsOK
  <2> QED
    BY <1>3, <1>t, <2>1, <2>2, GotoType, Frames DEF TypeOK, CheckerSync
<1>4. CASE CheckerLap
  <2>1. SharedOK'
    BY <1>4, <1>t, BrokenDownType DEF CheckerLap, SharedOK
  <2> QED
    BY <1>4, <1>t, <2>1, GotoType, Frames DEF TypeOK, CheckerLap
<1>11. CASE CheckerDay
  <2>1. LocalsOK'
    BY <1>11, <1>t DEF CheckerDay, LocalsOK, SharedOK
  <2>2. ControlOK'
    BY <1>11, <1>t, GotoType DEF CheckerDay
  <2> QED
    BY <1>11, <1>t, <2>1, <2>2, Frames DEF TypeOK, CheckerDay
<1>5. CASE CheckerMeasure
  <2>1. LocalsOK'
    BY <1>5, <1>t, <1>r, SchedulerAssumption DEF CheckerMeasure, LocalsOK
  <2>2. ControlOK'
    BY <1>5, <1>t, GotoType DEF CheckerMeasure
  <2>3. HistoryOK'
    BY <1>5, <1>t DEF CheckerMeasure, HistoryOK
  <2> QED
    BY <1>5, <1>t, <2>1, <2>2, <2>3, Frames DEF TypeOK, CheckerMeasure
<1>6. CASE CheckerDecide
  <2>1. SharedOK'
    BY <1>6, <1>t DEF CheckerDecide, SharedOK
  <2>2. LocalsOK'
    BY <1>6, <1>t DEF CheckerDecide, LocalsOK, SharedOK
  <2> QED
    BY <1>6, <1>t, <2>1, <2>2, GotoType, Frames DEF TypeOK, CheckerDecide
<1>7. CASE CheckerNotify
  <2>1. LocalsOK'
    BY <1>7, <1>t, <1>r DEF CheckerNotify, WaitForRule, LocalsOK
  <2> QED
    BY <1>7, <1>t, <2>1, GotoType, Frames DEF TypeOK, CheckerNotify
<1>8. CASE CheckerTrigger
  <2>1. HistoryOK'
    BY <1>8, <1>t DEF CheckerTrigger, HistoryOK
  <2>2. LocalsOK'
    BY <1>8, <1>t DEF CheckerTrigger, LocalsOK
  <2>3. ControlOK'
    BY <1>8, <1>t, GotoType DEF CheckerTrigger
  <2> QED
    BY <1>8, <1>t, <2>1, <2>2, <2>3, Frames DEF TypeOK, CheckerTrigger
<1>12. CASE CheckerQuits
  <2>1. gsd_loop' \in {"null", "created", "running", "quit", "freed"} /\ decided' \subseteq Actors
    BY <1>12, <1>t, QuitLoopType DEF CheckerQuits, LoopOK, HistoryOK
  <2>2. LoopOK' /\ HistoryOK'
    BY <1>12, <1>t, <2>1 DEF CheckerQuits, LoopOK, HistoryOK
  <2>3. ControlOK'
    BY <1>12, <1>t, GotoType DEF CheckerQuits, MainSteps
  <2> QED
    BY <1>12, <1>t, <2>2, <2>3, Frames DEF TypeOK, CheckerQuits
<1>9. CASE CheckerRetry
  <2>1. SharedOK'
    BY <1>9, <1>t DEF CheckerRetry, ForgetCancel, SharedOK
  <2> QED
    BY <1>9, <1>t, <2>1, GotoType, Frames DEF TypeOK, CheckerRetry
<1>10. CASE CheckerCancelled
  BY <1>10, <1>t, GotoType, Frames DEF TypeOK, CheckerCancelled
<1> QED
  BY <1>1, <1>2, <1>3, <1>4, <1>5, <1>6, <1>7, <1>8, <1>9, <1>10, <1>11, <1>12 DEF Checker

\* The clock, the users and the signals.
LEMMA EnvironmentType ==
  ASSUME TypeOK, Tick \/ EditDatabase \/ EmitSignal \/ Halted
  PROVE  TypeOK'
<1>1. CASE Tick
  <2>1. WorldOK'
    BY <1>1 DEF TypeOK, WorldOK, Tick
  <2> QED
    BY <1>1, <2>1, Frames DEF TypeOK, Tick
<1>2. CASE EditDatabase
  <2>1. WorldOK' /\ HistoryOK'
    BY <1>2, SchedulerAssumption DEF TypeOK, WorldOK, HistoryOK, EditDatabase
  <2> QED
    BY <1>2, <2>1, Frames DEF TypeOK, EditDatabase
<1>3. CASE EmitSignal
  <2>1. WorldOK' /\ LoopOK'
    BY <1>3, SchedulerAssumption DEF TypeOK, WorldOK, LoopOK, EmitSignal
  <2> QED
    BY <1>3, <2>1, Frames DEF TypeOK, EmitSignal
<1>4. CASE Halted
  BY <1>4, Frames DEF TypeOK, Halted, vars
<1> QED
  BY <1>1, <1>2, <1>3, <1>4

LEMMA InitType == Init => TypeOK
<1> SUFFICES ASSUME Init PROVE TypeOK
  OBVIOUS
<1>1. WorldOK
  BY SchedulerAssumption DEF Init, WorldOK
<1>2. timeinfo \in [date : Nat, minute : Minutes, wday : WeekDays]
  BY BrokenDownType DEF Init
<1>3. SharedOK
  <2>1. PICK args \in Uninitialised :
          rtcwake_args \in [found : {FALSE}, shutdown_fail : BOOLEAN, run_shutdown : BOOLEAN,
                            wake : {args.wake}, mode : {args.mode}]
    BY DEF Init
  <2>2. args.wake \in Times /\ args.mode \in Modes \cup {NO}
    BY <2>1, SchedulerAssumption
  <2> QED
    BY <1>2, <2>1, <2>2 DEF Init, SharedOK, Modes
<1>4. ControlOK
  BY DEF Init, ControlOK, MainSteps, CheckerSteps, ListenerSteps, HandlerSteps
<1>5. LoopOK
  <2>1. gsd_loop = "null" /\ gsd_proxy = FALSE /\ inbox = <<>>
    BY DEF Init
  <2>2. inbox \in Seq(SignalKinds)
    BY <2>1, EmptySeq
  <2> QED
    BY <2>1, <2>2 DEF LoopOK
<1>6. LocalsOK
  <2>1. /\ clock = [a \in Actors |-> 0] /\ ret = [a \in Actors |-> 0]
        /\ ahead = [a \in Actors |-> 0]
        /\ wakeAt = 0 /\ time_remaining = 0 /\ last_week_day = -1
        /\ cancelRequested = FALSE
    BY DEF Init
  <2>2. clock \in [Actors -> Nat] /\ ret \in [Actors -> 0..3] /\ ahead \in [Actors -> 0..7]
    BY <2>1
  <2>3. last_week_day \in WeekDays \cup {-1}
    BY <2>1
  <2> QED
    BY <2>1, <2>2, <2>3 DEF LocalsOK
<1>7. HistoryOK
  BY DEF Init, HistoryOK
<1> QED
  BY <1>1, <1>3, <1>4, <1>5, <1>6, <1>7 DEF TypeOK

LEMMA NextType == TypeOK /\ [Next]_vars => TypeOK'
<1> SUFFICES ASSUME TypeOK, [Next]_vars PROVE TypeOK'
  OBVIOUS
<1>1. CASE Next
  BY <1>1, MainType, HandlerType, ListenerType, CheckerType, EnvironmentType DEF Next
<1>2. CASE UNCHANGED vars
  BY <1>2, Frames DEF TypeOK, vars
<1> QED
  BY <1>1, <1>2

\* The state of scheduler () keeps its type in every step of every thread: the
\* return codes are those of RtcwakeArgsReturn, the modes those of the enum, and
\* no thread is ever at a step of another one's function.
THEOREM TypeCorrect == Spec => []TypeOK
  BY InitType, NextType, PTL DEF Spec

-----------------------------------------------------------------------------
(* Who ends the wait.                                                      *)

\* A success is returned only when the checker is over; it is over only because
\* it decided or was cancelled, and it is cancelled only by somebody who decided.
Decision ==
  /\ pc.main = "returned" => pc.checker \in {"done", "cancelled"}
  /\ pc.checker = "done" => decided # {}
  /\ pc.checker = "cancelled" => cancelRequested
  /\ cancelRequested => decided # {}

\* A step that moves nobody and decides nothing.
LEMMA DecisionFrame ==
  ASSUME Decision, UNCHANGED <<pc, decided, cancelRequested>>
  PROVE  Decision'
  BY DEF Decision

\* A query decides nothing.
LEMMA QueryDecision ==
  ASSUME Decision, NEW a, Query(a)
  PROVE  Decision'
<1>1. UNCHANGED <<pc, decided, cancelRequested>>
  BY DEF Query, QueryStep, OffBegin, OffConfig, OffFault, OffClock, OffToday, OffTomorrow, OffMake,
         OnBegin, OnConfig, OnFault, OnClock, OnToday, OnLater, OnValidate, OnCompare, CustomConfig,
         CustomRow
<1> QED
  BY <1>1, DecisionFrame

\* schedule_finalize () cancels the checker only as it decides.
LEMMA FinalizeDecision ==
  ASSUME TypeOK, Decision, NEW a \in Actors, NEW next, ScheduleFinalize(a, next),
         next.main = pc.main, next.checker = pc.checker
  PROVE  Decision'
<1>1. CASE StopScheduler(a, next)
  <2>1. CASE pc' = next /\ CancelChecker /\ QuitLoop(a)
    BY <2>1 DEF Decision, CancelChecker, QuitLoop
  <2>2. CASE /\ pc' = [pc EXCEPT !.main = "crashed"]
             /\ UNCHANGED <<cancelRequested, gsd_loop, decided>>
    BY <2>2 DEF Decision, TypeOK, ControlOK
  <2> QED
    BY <1>1, <2>1, <2>2 DEF StopScheduler
<1>2. CASE pc' = next /\ UNCHANGED <<cancelRequested, gsd_loop, decided>>
  BY <1>2 DEF Decision
<1> QED
  BY <1>1, <1>2 DEF ScheduleFinalize

\* Decision is inductive.
LEMMA StepDecision ==
  ASSUME TypeOK, Decision, [Next]_vars
  PROVE  Decision'
<1> USE DEF TypeOK, ControlOK
<1>1. CASE Main
  <2>1. CASE MainCreate
    <3>1. /\ pc'.main # "returned" /\ pc'.checker \in {pc.checker, "start"}
          /\ UNCHANGED <<decided, cancelRequested>>
      BY <2>1 DEF MainCreate, locals, history
    <3> QED
      BY <3>1 DEF Decision
  <2>2. CASE MainFail
    BY <2>2 DEF MainFail, MainGoto, Goto, Decision, locals, history
  <2>3. CASE MainJoin
    BY <2>3 DEF MainJoin, MainGoto, Goto, Decision, locals, history
  <2> QED
    BY <1>1, <2>1, <2>2, <2>3 DEF Main
<1>2. CASE Sigterm
  BY <1>2 DEF Sigterm, Goto, Decision, locals, history
<1>3. CASE Handler
  <2>1. CASE Query("handler")
    BY <2>1, QueryDecision
  <2>2. CASE HandlerOverride
    BY <2>2 DEF HandlerOverride, Goto, Decision, locals, history
  <2>3. CASE ScheduleFinalize("handler", [pc EXCEPT !.handler = "served"])
    BY <2>3, FinalizeDecision DEF Actors
  <2> QED
    BY <1>3, <2>1, <2>2, <2>3 DEF Handler
<1>4. CASE Listener
  <2>1. CASE Query("listener")
    BY <2>1, QueryDecision
  <2>2. CASE ListenerConnect \/ ListenerRun \/ ListenerExit
    BY <2>2 DEF ListenerConnect, ListenerRun, ListenerExit, Goto, Decision, locals, history
  <2>3. CASE ListenerDispatch
    BY <2>3 DEF ListenerDispatch, Goto, Decision, locals
  <2>4. CASE ScheduleFinalize("listener", [pc EXCEPT !.listener = "dispatch"])
    BY <2>4, FinalizeDecision DEF Actors
  <2> QED
    BY <1>4, <2>1, <2>2, <2>3, <2>4 DEF Listener
<1>5. CASE Checker
  <2>1. CASE Query("checker")
    BY <2>1, QueryDecision
  <2>2. CASE \/ CheckerStart \/ CheckerSync \/ CheckerLap \/ CheckerDay \/ CheckerMeasure
             \/ CheckerDecide \/ CheckerNotify \/ CheckerTrigger \/ CheckerRetry
    <3>1. /\ pc.checker \notin {"done", "cancelled"} /\ pc.main # "returned"
          /\ UNCHANGED <<decided, cancelRequested>>
          /\ \E l \in CheckerSteps \ {"done", "cancelled"} : Goto("checker", l)
      BY <2>2 DEF CheckerStart, CheckerSync, CheckerLap, CheckerDay, CheckerMeasure,
                  CheckerDecide, CheckerNotify, CheckerTrigger, CheckerRetry, Wakes, Resumes,
                  Running, Terminated, locals, history, CheckerSteps
    <3> QED
      BY <3>1 DEF Goto, Decision
  <2>3. CASE CheckerQuits
    BY <2>3 DEF CheckerQuits, Resumes, Running, Terminated, Goto, QuitLoop, Decision, locals
  <2>4. CASE CheckerCancelled
    BY <2>4 DEF CheckerCancelled, Terminated, Goto, Decision, locals, history
  <2> QED
    BY <1>5, <2>1, <2>2, <2>3, <2>4 DEF Checker
<1>6. CASE Tick \/ EditDatabase \/ EmitSignal \/ Halted \/ UNCHANGED vars
  <2>1. UNCHANGED <<pc, decided, cancelRequested>>
    BY <1>6 DEF Tick, EditDatabase, EmitSignal, Halted, vars, locals, history
  <2> QED
    BY <2>1, DecisionFrame
<1> QED
  BY <1>1, <1>2, <1>3, <1>4, <1>5, <1>6 DEF Next

LEMMA DecisionInvariant == Spec => []Decision
<1>1. Init => Decision
  BY DEF Init, Decision
<1>2. TypeOK /\ Decision /\ [Next]_vars => Decision'
  BY StepDecision
<1> QED
  BY <1>1, <1>2, TypeCorrect, PTL DEF Spec

\* scheduler () returns success (line 96) only after the checker has let a rule
\* through or a handler has finalized the schedule.
THEOREM ReturnIsDecided == Spec => []ReturnedIsDecided
<1>1. Decision => ReturnedIsDecided
  BY DEF Decision, ReturnedIsDecided
<1> QED
  BY <1>1, DecisionInvariant, PTL

-----------------------------------------------------------------------------
(* The checker's last lap.                                                 *)

\* In its last lap the checker runs no turn off query, so only the listener can
\* move the rule's time, and then it has heard "updated"; a cancel it has heard
\* is still set; and it sleeps at least until the rule's time.
LastLap ==
  /\ query["handler"] \notin OffSteps
  /\ InLastLap => query["checker"] \notin OffSteps
  /\ InLastLap /\ query["listener"] \in OffSteps => "updated" \in heard
  /\ InLastLap /\ "canceled" \in heard => canceled
  /\ pc.checker = "trigger" /\ "updated" \notin heard =>
       wakeAt >= upcoming_off_rule.rule_time

\* A step that does not touch what LastLap is about.
LEMMA LastLapFrame ==
  ASSUME LastLap, pc'.checker = pc.checker,
         UNCHANGED <<query, heard, canceled, wakeAt, upcoming_off_rule>>
  PROVE  LastLap'
  BY DEF LastLap, InLastLap

\* What a query leaves alone; only a turn off query moves the rule's time.
LEMMA QueryStays ==
  ASSUME TypeOK, NEW a \in Actors, Query(a)
  PROVE  /\ UNCHANGED <<pc, heard, wakeAt, canceled>>
         /\ \A b \in Actors : query'[b] \in OffSteps => query[b] \in OffSteps
         /\ query[a] \notin OffSteps => upcoming_off_rule'.rule_time = upcoming_off_rule.rule_time
<1>1. UNCHANGED <<pc, heard, wakeAt>>
  BY DEF Query, QueryStep, OffBegin, OffConfig, OffFault, OffClock, OffToday, OffTomorrow, OffMake,
         OnBegin, OnConfig, OnFault, OnClock, OnToday, OnLater, OnValidate, OnCompare, CustomConfig,
         CustomRow
<1>2. UNCHANGED canceled
  BY DEF Query, OffBegin, OffConfig, OffFault, OffClock, OffToday, OffTomorrow, OffMake,
         OnBegin, OnConfig, OnFault, OnClock, OnToday, OnLater, OnValidate, OnCompare, CustomConfig,
         CustomRow, shared
<1>3. \E from, to \in Steps :
        QueryStep(a, from, to) /\ (to \in OffSteps => from \in OffSteps)
  <2> USE DEF Steps, OffSteps, OnSteps, CustomSteps
  <2>1. CASE OffBegin(a) \/ OffConfig(a) \/ OffClock(a) \/ OffTomorrow(a) \/ OffMake(a)
    BY <2>1 DEF OffBegin, OffConfig, OffClock, OffTomorrow, OffMake
  <2>2. CASE OffFault(a)
    BY <2>2 DEF OffFault
  <2>3. CASE OffToday(a)
    BY <2>3 DEF OffToday
  <2>4. CASE OnBegin(a)
    BY <2>4 DEF OnBegin
  <2>5. CASE OnFault(a)
    BY <2>5 DEF OnFault
  <2>6. CASE \/ OnConfig(a) \/ OnClock(a) \/ OnValidate(a) \/ OnCompare(a)
            \/ CustomConfig(a) \/ CustomRow(a)
    BY <2>6 DEF OnConfig, OnClock, OnValidate, OnCompare, CustomConfig, CustomRow
  <2>7. CASE OnToday(a) \/ OnLater(a)
    BY <2>7 DEF OnToday, OnLater
  <2> QED
    BY <2>1, <2>2, <2>3, <2>4, <2>5, <2>6, <2>7 DEF Query
<1>4. \A b \in Actors : query'[b] \in OffSteps => query[b] \in OffSteps
  BY <1>3 DEF QueryStep, Call, TypeOK, ControlOK
<1>5. ASSUME query[a] \notin OffSteps
      PROVE  upcoming_off_rule' = upcoming_off_rule
  BY <1>5 DEF Query, QueryStep, OffBegin, OffConfig, OffFault, OffClock, OffToday, OffTomorrow,
         OffMake, OnBegin, OnConfig, OnFault, OnClock, OnToday, OnLater, OnValidate, OnCompare,
         CustomConfig, CustomRow, OffSteps, shared
<1> QED
  BY <1>1, <1>2, <1>4, <1>5

\* A query preserves LastLap.
LEMMA QueryLastLap ==
  ASSUME TypeOK, LastLap, NEW a \in Actors, Query(a)
  PROVE  LastLap'
<1>1. /\ UNCHANGED <<pc, heard, wakeAt, canceled>>
      /\ \A b \in Actors : query'[b] \in OffSteps => query[b] \in OffSteps
      /\ query[a] \notin OffSteps => upcoming_off_rule'.rule_time = upcoming_off_rule.rule_time
  BY QueryStays
<1>2. pc.checker = "trigger" /\ "updated" \notin heard =>
        upcoming_off_rule'.rule_time = upcoming_off_rule.rule_time
  BY <1>1 DEF LastLap, InLastLap, Actors
<1> QED
  BY <1>1, <1>2 DEF LastLap, InLastLap, Actors

\* schedule_finalize () preserves LastLap.
LEMMA FinalizeLastLap ==
  ASSUME TypeOK, LastLap, NEW a \in Actors, NEW next, ScheduleFinalize(a, next),
         next.checker = pc.checker
  PROVE  LastLap'
<1>1. UNCHANGED <<query, heard, canceled, wakeAt, upcoming_off_rule>>
  BY DEF ScheduleFinalize
<1>2. pc'.checker = pc.checker
  BY DEF ScheduleFinalize, StopScheduler, TypeOK, ControlOK
<1> QED
  BY <1>1, <1>2, LastLapFrame

\* The checker's steps preserve LastLap.
LEMMA CheckerLastLap ==
  ASSUME TypeOK, LastLap, Checker
  PROVE  LastLap'
<1> USE DEF TypeOK, ControlOK, Actors
<1>1. CASE Query("checker")
  BY <1>1, QueryLastLap
<1>2. CASE \/ CheckerStart \/ CheckerSync \/ CheckerLap \/ CheckerDay \/ CheckerRetry
           \/ CheckerCancelled \/ CheckerQuits
  <2>1. pc'.checker \in {"sync", "lap", "day", "measure", "quit", "done", "cancelled"}
    BY <1>2 DEF CheckerStart, CheckerSync, CheckerLap, CheckerDay, CheckerRetry,
                CheckerCancelled, CheckerQuits, Resumes, Running, Goto
  <2>2. query'["handler"] = query["handler"]
    BY <1>2 DEF CheckerStart, CheckerSync, CheckerLap, CheckerDay, CheckerRetry,
                CheckerCancelled, CheckerQuits, Call
  <2> QED
    BY <2>1, <2>2 DEF LastLap, InLastLap
<1>3. CASE CheckerMeasure
  <2>1. query'["handler"] = query["handler"] /\ query'["listener"] = query["listener"]
    BY <1>3 DEF CheckerMeasure, Call
  <2>2. CASE pc'.checker = "lap"
    BY <2>1, <2>2 DEF LastLap, InLastLap
  <2>3. CASE /\ pc'.checker = "decide" /\ query'["checker"] = "on_begin"
             /\ heard' = IF query["listener"] \in OffSteps THEN {"updated"} ELSE {}
    BY <2>1, <2>3 DEF LastLap, InLastLap, OffSteps
  <2> QED
    BY <1>3, <2>2, <2>3 DEF CheckerMeasure, Goto, Call
<1>4. CASE CheckerDecide
  <2>1. pc.checker = "decide" /\ pc'.checker = "notify"
    BY <1>4 DEF CheckerDecide, Resumes, Running, Goto
  <2>2. UNCHANGED <<query, heard, canceled>>
    BY <1>4 DEF CheckerDecide, history
  <2> QED
    BY <2>1, <2>2 DEF LastLap, InLastLap
<1>5. CASE CheckerNotify
  <2>1. pc.checker = "notify" /\ pc'.checker = "trigger"
    BY <1>5 DEF CheckerNotify, Wakes, Resumes, Running, Goto
  <2>2. UNCHANGED <<query, heard, canceled, upcoming_off_rule>>
    BY <1>5 DEF CheckerNotify, history, shared
  <2>3. wakeAt' >= upcoming_off_rule.rule_time
    BY <1>5 DEF CheckerNotify, WaitForRule, Remaining, WorldOK, SharedOK
  <2> QED
    BY <2>1, <2>2, <2>3 DEF LastLap, InLastLap
<1>6. CASE CheckerTrigger
  <2>1. pc'.checker \in {"retry", "quit"} /\ UNCHANGED query
    BY <1>6 DEF CheckerTrigger, Goto
  <2> QED
    BY <2>1 DEF LastLap, InLastLap
<1> QED
  BY <1>1, <1>2, <1>3, <1>4, <1>5, <1>6 DEF Checker

\* The listener's steps preserve LastLap.
LEMMA ListenerLastLap ==
  ASSUME TypeOK, LastLap, Listener
  PROVE  LastLap'
<1> USE DEF TypeOK, ControlOK, Actors
<1>1. CASE Query("listener")
  BY <1>1, QueryLastLap
<1>2. CASE ListenerConnect \/ ListenerRun \/ ListenerExit
  <2>1. pc'.checker = pc.checker
    BY <1>2 DEF ListenerConnect, ListenerRun, ListenerExit, Goto
  <2>2. UNCHANGED <<query, heard, canceled, wakeAt, upcoming_off_rule>>
    BY <1>2 DEF ListenerConnect, ListenerRun, ListenerExit, history, locals, shared
  <2> QED
    BY <2>1, <2>2, LastLapFrame
<1>3. CASE ListenerDispatch
  <2>1. /\ pc'.checker = pc.checker
        /\ query'["handler"] = query["handler"] /\ query'["checker"] = query["checker"]
        /\ UNCHANGED <<wakeAt, upcoming_off_rule>>
    BY <1>3 DEF ListenerDispatch, Goto, Call, locals
  <2>2. query["listener"] = "none"
    BY <1>3 DEF ListenerDispatch, Resumes
  <2>3. InLastLap => heard' = heard \cup {Head(inbox)}
    BY <1>3 DEF ListenerDispatch
  <2>4. /\ query'["listener"] \in OffSteps => Head(inbox) = "updated"
        /\ Head(inbox) = "canceled" => canceled'
        /\ canceled => canceled'
    BY <1>3, <2>2 DEF ListenerDispatch, Call, OffSteps
  <2> QED
    BY <2>1, <2>3, <2>4 DEF LastLap, InLastLap
<1>4. CASE ScheduleFinalize("listener", [pc EXCEPT !.listener = "dispatch"])
  BY <1>4, FinalizeLastLap
<1> QED
  BY <1>1, <1>2, <1>3, <1>4 DEF Listener

\* LastLap is inductive.
LEMMA StepLastLap ==
  ASSUME TypeOK, LastLap, [Next]_vars
  PROVE  LastLap'
<1> USE DEF TypeOK, ControlOK, Actors
<1>1. CASE Main
  <2>1. UNCHANGED <<query, heard, canceled, wakeAt, upcoming_off_rule>>
    BY <1>1 DEF Main, MainCreate, MainFail, MainJoin, MainGoto, history, locals, shared
  <2>2. pc'.checker \in {pc.checker, "start"}
    BY <1>1 DEF Main, MainCreate, MainFail, MainJoin, MainGoto, Goto
  <2> QED
    BY <2>1, <2>2 DEF LastLap, InLastLap
<1>2. CASE Sigterm
  <2>1. pc'.checker = pc.checker /\ UNCHANGED <<heard, canceled, wakeAt, upcoming_off_rule>>
    BY <1>2 DEF Sigterm, Goto, history, locals, shared
  <2>2. /\ query'["handler"] = "on_begin"
        /\ query'["checker"] = query["checker"] /\ query'["listener"] = query["listener"]
    BY <1>2 DEF Sigterm, Call
  <2> QED
    BY <2>1, <2>2 DEF LastLap, InLastLap, OffSteps
<1>3. CASE Handler
  <2>1. CASE Query("handler")
    BY <2>1, QueryLastLap
  <2>2. CASE HandlerOverride
    BY <2>2, LastLapFrame DEF HandlerOverride, Goto, history, locals
  <2>3. CASE ScheduleFinalize("handler", [pc EXCEPT !.handler = "served"])
    BY <2>3, FinalizeLastLap
  <2> QED
    BY <1>3, <2>1, <2>2, <2>3 DEF Handler
<1>4. CASE Listener
  BY <1>4, ListenerLastLap
<1>5. CASE Checker
  BY <1>5, CheckerLastLap
<1>6. CASE Tick \/ EditDatabase \/ EmitSignal \/ Halted \/ UNCHANGED vars
  <2>1. UNCHANGED <<pc, query, heard, canceled, wakeAt, upcoming_off_rule>>
    BY <1>6 DEF Tick, EditDatabase, EmitSignal, Halted, vars, locals, history, shared
  <2> QED
    BY <2>1, LastLapFrame
<1> QED
  BY <1>1, <1>2, <1>3, <1>4, <1>5, <1>6 DEF Next

\* LastLap holds in every behaviour.
LEMMA LastLapInvariant == Spec => [](TypeOK /\ LastLap)
<1>1. Init => LastLap
  BY DEF Init, LastLap, InLastLap, Actors, OffSteps
<1>2. TypeOK /\ LastLap /\ [Next]_vars => LastLap'
  BY StepLastLap
<1> QED
  BY <1>1, <1>2, TypeCorrect, PTL DEF Spec

\* The only step that ends the last lap.
LEMMA Triggers ==
  ASSUME TypeOK, [Next]_vars, pc.checker = "trigger", pc'.checker \in {"quit", "retry"}
  PROVE  CheckerTrigger
<1> USE DEF TypeOK, ControlOK, Actors
<1>1. CASE Main \/ Sigterm
  BY <1>1 DEF Main, MainCreate, MainFail, MainJoin, MainGoto, Goto, Sigterm
<1>2. CASE Handler
  BY <1>2, QueryStays DEF Handler, HandlerOverride, Goto, ScheduleFinalize, StopScheduler
<1>3. CASE Listener
  BY <1>3, QueryStays DEF Listener, ListenerConnect, ListenerRun, ListenerDispatch, ListenerExit,
                          Goto, ScheduleFinalize, StopScheduler
<1>4. CASE Checker
  BY <1>4, QueryStays DEF Checker, CheckerStart, CheckerSync, CheckerLap, CheckerDay,
                          CheckerMeasure, CheckerDecide, CheckerNotify, CheckerQuits,
                          CheckerRetry, CheckerCancelled, Wakes, Resumes, Running, Goto
<1>5. CASE Tick \/ EditDatabase \/ EmitSignal \/ Halted \/ UNCHANGED vars
  BY <1>5 DEF Tick, EditDatabase, EmitSignal, Halted, vars
<1> QED
  BY <1>1, <1>2, <1>3, <1>4, <1>5 DEF Next

\* A cancel handled while the checker is in the last lap of a rule keeps that
\* rule from being scheduled (lines 222-231).
THEOREM CancelIsHonoured == Spec => CancelHonoured
<1>1. TypeOK /\ LastLap /\ [Next]_vars =>
        [pc.checker = "trigger" /\ pc'.checker = "quit" => "canceled" \notin heard]_vars
  <2> SUFFICES ASSUME TypeOK, LastLap, [Next]_vars, pc.checker = "trigger",
                      pc'.checker = "quit"
               PROVE  "canceled" \notin heard
    OBVIOUS
  <2>1. CheckerTrigger
    BY Triggers
  <2>2. ~ canceled
    BY <2>1 DEF CheckerTrigger, Goto, Dropped, TypeOK, ControlOK
  <2> QED
    BY <2>2 DEF LastLap, InLastLap
<1> QED
  BY <1>1, LastLapInvariant, PTL DEF Spec, CancelHonoured

\* A rule is never triggered before its time (line 213), unless a signal had the
\* rule queried again in the last lap.
THEOREM IsNeverEarly == Spec => NeverEarly
<1>1. TypeOK /\ LastLap /\ [Next]_vars =>
        [pc.checker = "trigger" /\ pc'.checker \in {"quit", "retry"} /\ "updated" \notin heard =>
           upcoming_off_rule.rule_time <= now]_vars
  <2> SUFFICES ASSUME TypeOK, LastLap, [Next]_vars, pc.checker = "trigger",
                      pc'.checker \in {"quit", "retry"}, "updated" \notin heard
               PROVE  upcoming_off_rule.rule_time <= now
    OBVIOUS
  <2>1. CheckerTrigger
    BY Triggers
  <2>2. wakeAt <= now
    BY <2>1 DEF CheckerTrigger, Wakes
  <2>3. wakeAt >= upcoming_off_rule.rule_time
    BY DEF LastLap
  <2> QED
    BY <2>2, <2>3 DEF TypeOK, WorldOK, SharedOK, LocalsOK
<1> QED
  BY <1>1, LastLapInvariant, PTL DEF Spec, NeverEarly
=============================================================================
