-------------------------- MODULE SchedulerRuleProofs --------------------------
(***************************************************************************)
(* The turn off rules in time: the rule the checker heads for is the next  *)
(* one, it is triggered in its minute, with its notification and in its    *)
(* mode, and no rule of the week is missed.                                *)
(*                                                                         *)
(* The argument follows the checker around its loop.  Every query finds    *)
(* the next rule of today and tomorrow (OffQuery, Fresh).  From then on    *)
(* the checker either heads for that rule (HeadsFor), with laps that never *)
(* oversleep it, or drifts towards the next day, which makes it ask again. *)
(***************************************************************************)
EXTENDS SchedulerTimingProofs

-----------------------------------------------------------------------------
(* The turn off query.                                                     *)

OffIdle == \A a \in Actors : query[a] \notin OffSteps

ModeAt(mode, u) ==
  \E r \in Active(db.turnoff, WeekDay(u)) : r.minute = Minute(u) /\ r.mode = mode

\* The database has no turn off rule after t, on its day or the next.
Nothing(t) == \A v \in Nat : v > t /\ Date(v) <= Date(t) + 1 => ~ Occurs(db.turnoff, v)

\* What a turn off query that ended at t says of the time u.
Upcoming(t, u) ==
  IF upcoming_off_rule.found
  THEN /\ u \in Nat /\ u > t /\ Date(u) <= Date(t) + 1
       /\ ~ stale => IsNextOccurrence(db.turnoff, t, u) /\ ModeAt(upcoming_off_rule.mode, u)
  ELSE ~ stale => Nothing(t)

\* What a turn off query knows on its way.
OffQuery ==
  \A a \in Actors :
    /\ query[a] \in {"off_config", "off_clock", "off_today", "off_tomorrow"} =>
         ~ upcoming_off_rule.found
    /\ query[a] \in {"off_today", "off_tomorrow"} => clock[a] = now /\ timeinfo = BrokenDown(now)
    /\ query[a] = "off_tomorrow" /\ ~ stale =>
         LaterToday(db.turnoff, WeekDay(now), Minute(now)) = {}
    /\ query[a] = "off_make" => Upcoming(now, At(timeinfo.date, timeinfo.minute))

\* What it leaves behind.
Fresh ==
  OffIdle /\ pc.checker \notin {"new", "start"} =>
    foundAt <= now /\ Upcoming(foundAt, upcoming_off_rule.rule_time)

\* The types these proofs keep needing.
LEMMA Types ==
  ASSUME TypeOK
  PROVE  /\ now \in Nat /\ Date(now) \in Nat /\ Minute(now) \in Minutes
         /\ db.turnoff \in SUBSET Rule(Modes) /\ db.turnon \in SUBSET Rule(Modes)
         /\ db.notification_time \in Nat
         /\ foundAt \in Nat /\ wakeAt \in Nat /\ time_remaining \in Nat
         /\ upcoming_off_rule.rule_time \in Nat /\ upcoming_off_rule.notification_time \in Nat
         /\ stale \in BOOLEAN /\ upcoming_off_rule.found \in BOOLEAN
         /\ \A a \in Actors : clock[a] \in Nat
         /\ CheckDelay \in Nat \ {0} /\ StartTime \in Nat
<1>1. now \in Nat
  BY DEF TypeOK, WorldOK
<1>2. Date(now) \in Nat /\ Minute(now) \in Minutes
  BY <1>1, DayAndMinute
<1>3. /\ db.turnoff \in SUBSET Rule(Modes) /\ db.turnon \in SUBSET Rule(Modes)
      /\ db.notification_time \in NotificationTimes /\ NotificationTimes \subseteq Nat
  BY DatabaseType, SchedulerAssumption DEF Database
<1>4. /\ wakeAt \in Nat /\ time_remaining \in Nat
      /\ \A a \in Actors : clock[a] \in Nat
  BY DEF TypeOK, LocalsOK
<1>5. /\ foundAt \in Nat /\ stale \in BOOLEAN
      /\ upcoming_off_rule.rule_time \in Nat /\ upcoming_off_rule.notification_time \in Nat
      /\ upcoming_off_rule.found \in BOOLEAN
  BY DEF TypeOK, SharedOK, HistoryOK
<1> QED
  BY <1>1, <1>2, <1>3, <1>4, <1>5, SchedulerAssumption

\* A row that is found for a day is a rule that occurs then, in its mode.
LEMMA RowOfTheDay ==
  ASSUME NEW d \in Nat, db.turnoff \in SUBSET Rule(Modes),
         NEW r \in Active(db.turnoff, d % 7)
  PROVE  ModeAt(r.mode, At(d, r.minute))
<1>1. r.minute \in Minutes
  BY DEF Active, Rule
<1>2. Date(At(d, r.minute)) = d /\ Minute(At(d, r.minute)) = r.minute
  BY <1>1, AtInverse
<1> QED
  BY <1>2 DEF ModeAt, WeekDay

\* Today's first later rule, as the query has it.
LEMMA FindsToday ==
  ASSUME TypeOK, NEW r \in LaterToday(db.turnoff, WeekDay(now), Minute(now))
  PROVE  LET u == At(Date(now), r.minute)
         IN  /\ u \in Nat /\ u > now /\ Date(u) = Date(now)
             /\ IsNextOccurrence(db.turnoff, now, u) /\ ModeAt(r.mode, u)
<1> DEFINE u == At(Date(now), r.minute)
<1>1. r.minute \in Minutes /\ r \in Active(db.turnoff, Date(now) % 7)
  BY Types, LookupType DEF LaterToday, Earliest, WeekDay
<1>2. u \in Nat /\ Date(u) = Date(now)
  BY <1>1, Types, AtType, AtInverse
<1>3. IsNextOccurrence(db.turnoff, now, u)
  BY Types, LaterTodayIsNext
<1>4. ModeAt(r.mode, u)
  BY <1>1, Types, RowOfTheDay
<1> QED
  BY <1>2, <1>3, <1>4 DEF IsNextOccurrence

\* Tomorrow's first rule; it is the next one if there is none left today.
LEMMA FindsTomorrow ==
  ASSUME TypeOK, NEW r \in Tomorrow(db.turnoff, WeekDay(now))
  PROVE  LET u == At(Date(now) + 1, r.minute)
         IN  /\ u \in Nat /\ u > now /\ Date(u) = Date(now) + 1 /\ ModeAt(r.mode, u)
             /\ LaterToday(db.turnoff, WeekDay(now), Minute(now)) = {} =>
                  IsNextOccurrence(db.turnoff, now, u)
<1> DEFINE u == At(Date(now) + 1, r.minute)
<1>1. r.minute \in Minutes /\ r \in Active(db.turnoff, (Date(now) + 1) % 7)
  BY Types, LookupType, Successor DEF Tomorrow, Earliest, WeekDay
<1>2. u \in Nat /\ Date(u) = Date(now) + 1
  BY <1>1, Types, AtType, AtInverse
<1>3. u > now
  BY <1>2, Types, Order
<1>4. ModeAt(r.mode, u)
  BY <1>1, Types, RowOfTheDay
<1>5. LaterToday(db.turnoff, WeekDay(now), Minute(now)) = {} =>
        IsNextOccurrence(db.turnoff, now, u)
  BY Types, TomorrowIsNext
<1> QED
  BY <1>2, <1>3, <1>4, <1>5

\* Neither today nor tomorrow.
LEMMA FindsNothing ==
  ASSUME TypeOK, LaterToday(db.turnoff, WeekDay(now), Minute(now)) = {},
         Tomorrow(db.turnoff, WeekDay(now)) = {}
  PROVE  Nothing(now)
<1> SUFFICES ASSUME NEW v \in Nat, v > now, Date(v) <= Date(now) + 1
             PROVE  ~ Occurs(db.turnoff, v)
  BY DEF Nothing
<1>1. Date(v) \in Nat /\ Date(v) >= Date(now)
  BY Types, DayAndMinute, Order
<1>2. CASE Date(v) = Date(now)
  BY <1>2, Types, NothingLaterToday
<1>3. CASE Date(v) = Date(now) + 1
  <2>1. Active(db.turnoff, Date(v) % 7) = {}
    <3>1. Active(db.turnoff, Date(v) % 7) \in SUBSET Rule(Modes)
      BY Types DEF Active
    <3>2. Earliest(Active(db.turnoff, Date(v) % 7)) = {}
      BY <1>3, Types, Successor DEF Tomorrow, WeekDay
    <3> QED
      BY <3>1, <3>2, EarliestExists
  <2> QED
    BY <2>1, QuietDay
<1> QED
  BY <1>1, <1>2, <1>3, Types

\* How a turn off query gets on.
LEMMA OffQuerySteps ==
  ASSUME TypeOK, NEW a \in Actors, Query(a), query[a] \in OffSteps
  PROVE  \/ OffBegin(a) /\ query'[a] = "off_config"
         \/ OffConfig(a) /\ query'[a] = "off_clock"
         \/ OffFault(a) /\ query'[a] = "none"
         \/ OffClock(a) /\ query'[a] = "off_today"
         \/ OffToday(a) /\ query'[a] \in {"off_make", "off_tomorrow"}
         \/ OffTomorrow(a) /\ query'[a] = "off_make"
         \/ OffMake(a) /\ query'[a] = "none"
<1> USE DEF TypeOK, ControlOK, QueryStep, Call
<1>1. ~ (OnBegin(a) \/ OnConfig(a) \/ OnFault(a) \/ OnClock(a) \/ OnToday(a) \/ OnLater(a)
         \/ CustomConfig(a) \/ CustomRow(a) \/ OnValidate(a) \/ OnCompare(a))
  BY DEF OnBegin, OnConfig, OnFault, OnClock, OnToday, OnLater, CustomConfig, CustomRow, OnValidate,
         OnCompare, OffSteps
<1>2. CASE OffBegin(a) \/ OffConfig(a) \/ OffFault(a) \/ OffClock(a)
  BY <1>2 DEF OffBegin, OffConfig, OffFault, OffClock
<1>3. CASE OffToday(a) \/ OffTomorrow(a) \/ OffMake(a)
  BY <1>3 DEF OffToday, OffTomorrow, OffMake
<1> QED
  BY <1>1, <1>2, <1>3 DEF Query

\* Only the queries change what is known of the rules, and the clock only moves
\* forward.
LEMMA RuleFrame ==
  ASSUME TypeOK, Labels, [Next]_vars, \A a \in Actors : ~ Query(a)
  PROVE  /\ UNCHANGED <<upcoming_off_rule, foundAt>>
         /\ EditDatabase \/ UNCHANGED <<db, edits, stale>>
         /\ EditDatabase => stale'
         /\ now' = now \/ (Tick /\ now' = now + 1)
<1>1. CASE Created \/ Aside
  BY <1>1 DEF Created, Aside, steady, EditDatabase
<1>2. CASE Tick \/ EditDatabase
  BY <1>2 DEF Tick, EditDatabase, shared, history
<1>3. CASE Sigterm \/ HandlerOverride
  BY <1>3 DEF Sigterm, HandlerOverride, world, shared, history, EditDatabase
<1>4. CASE HandlerFinalize \/ ListenerFinalize
  BY <1>4, FinalizeFrame DEF EditDatabase
<1>5. CASE ListenerDispatch
  BY <1>5 DEF ListenerDispatch, world, EditDatabase
<1>6. CASE CheckerMoves
  <2>1. UNCHANGED <<now, db, edits, foundAt, stale>>
    BY <1>6, CheckerFrame
  <2>2. UNCHANGED upcoming_off_rule
    BY <1>6 DEF CheckerMoves, CheckerStart, CheckerSync, CheckerLap, CheckerDay, CheckerMeasure,
         CheckerDecide, CheckerNotify, CheckerTrigger, CheckerQuits, CheckerRetry,
         CheckerCancelled, shared
  <2> QED
    BY <2>1, <2>2 DEF EditDatabase
<1> QED
  BY <1>1, <1>2, <1>3, <1>4, <1>5, <1>6, StepKinds

\* Nobody but the checker moves the checker, once it exists.
LEMMA CheckerStays ==
  ASSUME TypeOK, Labels, [Next]_vars, ~ CheckerMoves
  PROVE  pc'.checker = pc.checker \/ (pc.checker = "new" /\ pc'.checker = "start")
<1> USE DEF TypeOK, ControlOK
<1>1. CASE \E a \in Actors : Query(a)
  BY <1>1, QueryFrame
<1>2. CASE Created
  BY <1>2 DEF Created, Labels
<1>3. CASE Aside
  BY <1>3 DEF Aside
<1>4. CASE Tick \/ EditDatabase
  BY <1>4 DEF Tick, EditDatabase
<1>5. CASE Sigterm \/ HandlerOverride \/ ListenerDispatch
  BY <1>5 DEF Sigterm, HandlerOverride, ListenerDispatch, Goto
<1>6. CASE HandlerFinalize \/ ListenerFinalize
  BY <1>6, FinalizeFrame
<1> QED
  BY <1>1, <1>2, <1>3, <1>4, <1>5, <1>6, StepKinds

\* A query is left only by its own steps, or when the checker is cancelled in it.
LEMMA QueryGoesOn ==
  ASSUME TypeOK, Labels, [Next]_vars, NEW a \in Actors, query[a] # "none", ~ Query(a)
  PROVE  query'[a] = query[a] \/ (a = "checker" /\ CheckerCancelled)
<1> USE DEF TypeOK, ControlOK, Actors
<1>1. CASE \E b \in Actors : Query(b)
  BY <1>1, QueryFrame
<1>2. CASE Created \/ Aside
  BY <1>2 DEF Created, Aside, steady
<1>3. CASE Tick \/ EditDatabase \/ HandlerOverride
  BY <1>3 DEF Tick, EditDatabase, HandlerOverride
<1>4. CASE Sigterm \/ ListenerDispatch
  BY <1>4 DEF Sigterm, ListenerDispatch, Resumes, Running, Call, Labels
<1>5. CASE HandlerFinalize \/ ListenerFinalize
  BY <1>5, FinalizeFrame
<1>6. CASE CheckerMoves
  BY <1>6, CheckerFrame
<1> QED
  BY <1>1, <1>2, <1>3, <1>4, <1>5, <1>6, StepKinds

LEMMA InitOffQuery == Init => OffQuery
  BY DEF Init, OffQuery

\* What the step that finds the rule knows.
LEMMA OffFinds ==
  ASSUME InOrder, OffQuery, NEW a \in Actors, OffToday(a) \/ OffTomorrow(a),
         query'[a] = "off_make"
  PROVE  Upcoming(now, At(timeinfo.date, timeinfo.minute))'
<1> USE DEF InOrder, TypeOK, ControlOK, SharedOK
<1>t. /\ UNCHANGED <<now, db>> /\ stale' = stale
      /\ ~ upcoming_off_rule.found /\ timeinfo = BrokenDown(now) /\ clock[a] = now
  BY Types DEF OffToday, OffTomorrow, QueryStep, Call, world, OffQuery
<1>b. /\ timeinfo.date = Date(now) /\ timeinfo.minute = Minute(now) /\ timeinfo.wday = WeekDay(now)
  BY <1>t DEF BrokenDown
<1>f. ASSUME NEW r, Found(r)
      PROVE  upcoming_off_rule'.found /\ upcoming_off_rule'.mode = r.mode
  BY <1>f DEF Found
<1>1. CASE OffToday(a)
  <2>1. PICK r \in LaterToday(db.turnoff, WeekDay(now), Minute(now)) :
          Found(r) /\ timeinfo' = [timeinfo EXCEPT !.minute = r.minute]
    BY <1>1, <1>t DEF OffToday, QueryStep, Call
  <2> DEFINE u == At(Date(now), r.minute)
  <2>2. /\ u \in Nat /\ u > now /\ Date(u) = Date(now)
        /\ IsNextOccurrence(db.turnoff, now, u) /\ ModeAt(r.mode, u)
    BY FindsToday
  <2>3. At(timeinfo'.date, timeinfo'.minute) = u
    BY <1>b, <2>1
  <2>4. ModeAt(r.mode, u)'
    BY <1>t, <2>2, <2>3 DEF ModeAt
  <2>5. Date(u) <= Date(now) + 1
    BY <2>2, Types
  <2> HIDE DEF u
  <2> QED
    BY <1>t, <1>f, <2>1, <2>2, <2>3, <2>4, <2>5 DEF Upcoming, ModeAt
<1>2. CASE OffTomorrow(a)
  <2>l. ~ stale => LaterToday(db.turnoff, WeekDay(now), Minute(now)) = {}
    BY <1>2 DEF OffTomorrow, QueryStep, OffQuery
  <2>1. CASE \E r \in Tomorrow(db.turnoff, WeekDay(now)) :
               /\ Found(r)
               /\ timeinfo' = [timeinfo EXCEPT !.date = Date(now) + 1, !.minute = r.minute]
    <3>1. PICK r \in Tomorrow(db.turnoff, WeekDay(now)) :
               /\ Found(r)
               /\ timeinfo' = [timeinfo EXCEPT !.date = Date(now) + 1, !.minute = r.minute]
      BY <2>1
    <3> DEFINE u == At(Date(now) + 1, r.minute)
    <3>2. /\ u \in Nat /\ u > now /\ Date(u) = Date(now) + 1 /\ ModeAt(r.mode, u)
          /\ ~ stale => IsNextOccurrence(db.turnoff, now, u)
      BY <2>l, FindsTomorrow
    <3>3. At(timeinfo'.date, timeinfo'.minute) = u
      BY <3>1
    <3>5. Date(u) <= Date(now) + 1
      BY <3>2, Types
    <3> HIDE DEF u
    <3> QED
      BY <1>t, <1>f, <3>1, <3>2, <3>3, <3>5 DEF Upcoming, ModeAt
  <2>2. CASE Tomorrow(db.turnoff, WeekDay(now)) = {} /\ UNCHANGED <<upcoming_off_rule, timeinfo>>
    <3>1. ~ stale => Nothing(now)
      BY <2>2, <2>l, FindsNothing
    <3> QED
      BY <1>t, <2>2, <3>1 DEF Upcoming, Nothing
  <2> QED
    BY <1>2, <1>b, <2>1, <2>2 DEF OffTomorrow
<1> QED
  BY <1>1, <1>2

LEMMA StepOffQuery ==
  ASSUME Calm, InOrder, OffQuery, [Next]_vars
  PROVE  OffQuery'
<1> SUFFICES ASSUME NEW b \in Actors, query'[b] \in OffSteps
             PROVE
    /\ query'[b] \in {"off_config", "off_clock", "off_today", "off_tomorrow"} =>
         ~ upcoming_off_rule'.found
    /\ query'[b] \in {"off_today", "off_tomorrow"} =>
         clock'[b] = now' /\ timeinfo' = BrokenDown(now')
    /\ query'[b] = "off_tomorrow" /\ ~ stale' =>
         LaterToday(db'.turnoff, WeekDay(now'), Minute(now')) = {}
    /\ query'[b] = "off_make" => Upcoming(now, At(timeinfo.date, timeinfo.minute))'
  BY DEF OffQuery, OffSteps
<1>t. TypeOK /\ Labels /\ stale \in BOOLEAN
  BY Types DEF InOrder
<1>1. CASE Query(b)
  <2> USE DEF QueryStep
  <2>1. UNCHANGED <<now, db>> /\ query[b] \in OffSteps
    BY <1>1, <1>t, QueryFrame DEF OffSteps, OnSteps, CustomSteps
  <2>2. CASE OffBegin(b) /\ query'[b] = "off_config"
    BY <2>2, <1>t DEF OffBegin, TypeOK, SharedOK
  <2>3. CASE OffConfig(b) /\ query'[b] = "off_clock"
    BY <2>3, <1>t DEF OffConfig, TypeOK, SharedOK, OffQuery
  <2>4. CASE OffClock(b) /\ query'[b] = "off_today"
    BY <2>1, <2>4, <1>t DEF OffClock, TypeOK, LocalsOK, OffQuery
  <2>5. CASE (OffToday(b) \/ OffTomorrow(b)) /\ query'[b] = "off_make"
    BY <2>5, OffFinds
  <2>6. CASE OffToday(b) /\ query'[b] = "off_tomorrow"
    <3>1. LaterToday(db.turnoff, WeekDay(clock[b]), Minute(clock[b])) = {}
          /\ UNCHANGED <<upcoming_off_rule, timeinfo, clock>> /\ query[b] = "off_today"
      BY <2>6, <1>t DEF OffToday, Call, TypeOK, ControlOK
    <3> QED
      BY <2>1, <2>6, <3>1 DEF OffQuery
  <2> QED
    BY <1>1, <1>t, <2>1, <2>2, <2>3, <2>4, <2>5, <2>6, OffQuerySteps DEF OffSteps
<1>2. CASE ~ Query(b) /\ query[b] # "none"
  <2>1. /\ UNCHANGED <<now, upcoming_off_rule, timeinfo, clock>> /\ query'[b] = query[b]
        /\ EditDatabase \/ UNCHANGED <<db, stale>>
    BY <1>2, QueryKeeps DEF OffSteps
  <2>2. EditDatabase => stale'
    BY DEF EditDatabase
  <2> QED
    BY <2>1, <2>2 DEF OffQuery, Upcoming, Nothing, ModeAt
<1>3. CASE query[b] = "none"
  <2>1. ASSUME NEW a \in Actors, Query(a) PROVE FALSE
    BY <2>1, <1>3, <1>t, QueryFrame DEF OffSteps, OnSteps, CustomSteps
  <2>2. query'[b] \in {"none", "off_begin", "on_begin", "custom_begin"}
    BY <2>1, <1>3, <1>t, QueryStarts
  <2> QED
    BY <2>2
<1> QED
  BY <1>1, <1>2, <1>3

\* A checker that is told to stop is asleep and stays so.
Stopped == cancelRequested => CheckerAsleep

LEMMA StepStopped ==
  ASSUME Calm, InOrder, Stopped, [Next]_vars
  PROVE  Stopped'
<1>t. TypeOK /\ Labels /\ ControlOK
  BY DEF InOrder, TypeOK
<1>1. ASSUME NEW a \in Actors, Query(a) PROVE Stopped'
  <2>1. /\ UNCHANGED <<pc, now, wakeAt, cancelRequested>>
        /\ a # "checker" => query'["checker"] = query["checker"]
        /\ query[a] # "none"
    BY <1>1, <1>t, QueryFrame DEF Actors, OffSteps, OnSteps, CustomSteps
  <2> QED
    BY <2>1 DEF Stopped, CheckerAsleep
<1>2. CASE Created
  BY <1>2, <1>t DEF Created, steady, Stopped, CheckerAsleep, Labels
<1>3. CASE Aside
  BY <1>3 DEF Aside, steady, Stopped, CheckerAsleep
<1>4. CASE Tick
  <2>1. Blocked /\ UNCHANGED <<pc, query, wakeAt, cancelRequested>>
    BY <1>4 DEF Tick, locals, Calm
  <2>2. cancelRequested => pc.checker \in {"done", "cancelled"}
    BY <2>1 DEF Blocked
  <2> QED
    BY <2>1, <2>2 DEF Stopped, CheckerAsleep
<1>5. CASE EditDatabase
  BY <1>5 DEF EditDatabase, locals, Stopped, CheckerAsleep
<1>6. CASE Sigterm \/ HandlerOverride
  <2>1. /\ UNCHANGED <<now, wakeAt, cancelRequested>> /\ pc'.checker = pc.checker
        /\ query'["checker"] = query["checker"]
    BY <1>6, <1>t DEF Sigterm, HandlerOverride, world, locals, Goto, Call, ControlOK, Actors
  <2> QED
    BY <2>1 DEF Stopped, CheckerAsleep
<1>7. CASE HandlerFinalize \/ ListenerFinalize
  <2>1. UNCHANGED <<now, wakeAt, query>> /\ pc'.checker = pc.checker
        /\ (ListenerWorks \/ HandlerWorks)
    BY <1>7, <1>t, FinalizeFrame DEF ListenerWorks, HandlerWorks
  <2> QED
    BY <2>1 DEF Stopped, CheckerAsleep, InOrder, Solo
<1>8. CASE ListenerDispatch
  <2>1. /\ UNCHANGED <<now, wakeAt, cancelRequested>> /\ pc'.checker = pc.checker
        /\ query'["checker"] = query["checker"]
    BY <1>8, <1>t DEF ListenerDispatch, world, locals, Goto, Call, ControlOK, Actors
  <2> QED
    BY <2>1 DEF Stopped, CheckerAsleep
<1>9. CASE CheckerMoves
  <2>1. CASE CheckerCancelled
    <3>1. pc'.checker = "cancelled" /\ query'["checker"] = "none"
      BY <2>1, <1>t DEF CheckerCancelled, Goto, Call, ControlOK, Actors
    <3> QED
      BY <3>1 DEF Stopped, CheckerAsleep
  <2>2. CASE ~ CheckerCancelled
    BY <1>9, <2>2, <1>t, CheckerFrame, CheckerIsAwake DEF Stopped
  <2> QED
    BY <2>1, <2>2
<1> QED
  BY <1>t, <1>1, <1>2, <1>3, <1>4, <1>5, <1>6, <1>7, <1>8, <1>9, StepKinds

LEMMA StepFresh ==
  ASSUME QueriesSucceed, InOrder, OffQuery, Stopped, Fresh, [Next]_vars
  PROVE  Fresh'
<1> SUFFICES ASSUME OffIdle', pc'.checker \notin {"new", "start"}
             PROVE  foundAt' <= now' /\ Upcoming(foundAt, upcoming_off_rule.rule_time)'
  BY DEF Fresh
<1>t. TypeOK /\ Labels /\ ControlOK
  BY DEF InOrder, TypeOK
<1>1. ASSUME NEW a \in Actors, Query(a), query[a] \in OffSteps
      PROVE  foundAt' <= now' /\ Upcoming(foundAt, upcoming_off_rule.rule_time)'
  <2>1. OffMake(a)
    BY <1>t, <1>1, OffQuerySteps DEF OffIdle, OffSteps, OffFault, QueriesSucceed
  <2>2. /\ foundAt' = now /\ UNCHANGED <<now, db>> /\ stale' = stale
        /\ upcoming_off_rule' = [upcoming_off_rule EXCEPT
                                   !.rule_time = At(timeinfo.date, timeinfo.minute)]
        /\ query[a] = "off_make"
    BY <2>1, <1>t, Types DEF OffMake, QueryStep, world
  <2>3. Upcoming(now, At(timeinfo.date, timeinfo.minute))
    BY <2>2 DEF OffQuery
  <2>4. /\ upcoming_off_rule'.rule_time = At(timeinfo.date, timeinfo.minute)
        /\ upcoming_off_rule'.found = upcoming_off_rule.found
        /\ upcoming_off_rule'.mode = upcoming_off_rule.mode
    BY <2>2, <1>t DEF TypeOK, SharedOK
  <2> QED
    BY <2>2, <2>3, <2>4, <1>t, Types DEF Upcoming, Nothing, ModeAt
<1>2. ASSUME NEW a \in Actors, Query(a), query[a] \notin OffSteps
      PROVE  foundAt' <= now' /\ Upcoming(foundAt, upcoming_off_rule.rule_time)'
  <2>1. /\ UNCHANGED <<pc, now, db, upcoming_off_rule, foundAt, stale>>
        /\ \A b \in Actors : b # a => query'[b] = query[b]
    BY <1>t, <1>2, QueryFrame
  <2>2. OffIdle
    BY <1>2, <2>1 DEF OffIdle
  <2> QED
    BY <2>1, <2>2 DEF Fresh, Upcoming, Nothing, ModeAt
<1>3. CASE \A a \in Actors : ~ Query(a)
  <2>1. /\ UNCHANGED <<upcoming_off_rule, foundAt>>
        /\ stale' \/ UNCHANGED <<db, stale>>
        /\ now' \in {now, now + 1}
    BY <1>t, <1>3, RuleFrame
  <2>2. CASE OffIdle /\ pc.checker \notin {"new", "start"}
    BY <2>1, <2>2, <1>t, Types DEF Fresh, Upcoming, Nothing, ModeAt
  <2>3. CASE pc.checker \in {"new", "start"}
    <3>1. CheckerMoves /\ pc.checker = "start"
      BY <1>t, <2>3, CheckerStays, CheckerFrame
    <3>2. CheckerStart
      BY <1>t, <3>1 DEF CheckerMoves, CheckerSync, CheckerLap, CheckerDay, CheckerMeasure,
           CheckerDecide, CheckerNotify, CheckerTrigger, CheckerQuits, CheckerRetry,
           CheckerCancelled, Wakes, Resumes, Running, Labels, OffSteps, OnSteps
    <3>3. query'["checker"] \in OffSteps
      BY <1>t, <3>2 DEF CheckerStart, Call, OffSteps, ControlOK, Actors
    <3> QED
      BY <3>3 DEF OffIdle, Actors
  <2>4. CASE ~ OffIdle
    <3>1. PICK a \in Actors : query[a] \in OffSteps
      BY <2>4 DEF OffIdle
    <3>2. a = "checker" /\ CheckerCancelled
      BY <1>3, <1>t, <3>1, QueryGoesOn DEF OffIdle, OffSteps
    <3> QED
      BY <3>1, <3>2 DEF CheckerCancelled, Stopped, CheckerAsleep, OffSteps
  <2> QED
    BY <2>2, <2>3, <2>4
<1> QED
  BY <1>1, <1>2, <1>3


\* The order of the turn off queries.
RuleOrder == InOrder /\ OffQuery /\ Stopped /\ Fresh

LEMMA RuleOrderInvariant ==
  ASSUME Calm, QueriesSucceed
  PROVE  Spec => []RuleOrder
<1>1. Init => OffQuery /\ Stopped /\ Fresh
  <2>1. Init => Stopped /\ Fresh
    BY DEF Init, Stopped, Fresh
  <2> QED
    BY <2>1, InitOffQuery
<1>2. InOrder /\ (OffQuery /\ Stopped /\ Fresh) /\ [Next]_vars => (OffQuery /\ Stopped /\ Fresh)'
  BY StepOffQuery, StepStopped, StepFresh
<1>3. InOrder /\ (OffQuery /\ Stopped /\ Fresh) => RuleOrder
  BY DEF RuleOrder
<1> QED
  BY <1>1, <1>2, <1>3, InOrderInvariant, PTL DEF Spec

\* The rule the sleeping checker heads for is the next one of the rules as they
\* were at the last query, today's or tomorrow's (lines 496-594), however the
\* users edit them and whoever asked for that query.
THEOREM HeadsForTheNextRule ==
  ASSUME Calm, QueriesSucceed
  PROVE  Spec => []OffRuleIsFresh
<1>1. RuleOrder => OffRuleIsFresh
  <2> SUFFICES ASSUME RuleOrder, Blocked, pc.checker = "lap", ~ stale
               PROVE  IF upcoming_off_rule.found
                      THEN IsNextOccurrence(db.turnoff, foundAt, upcoming_off_rule.rule_time)
                      ELSE \A t \in (foundAt + 1)..(At(Date(foundAt) + 2, 0) - 1) :
                             ~ Occurs(db.turnoff, t)
    BY DEF OffRuleIsFresh
  <2>1. Upcoming(foundAt, upcoming_off_rule.rule_time) /\ foundAt \in Nat
    BY Types DEF RuleOrder, InOrder, Fresh, OffIdle, Blocked, OffSteps
  <2>2. ASSUME Nothing(foundAt), NEW t \in (foundAt + 1)..(At(Date(foundAt) + 2, 0) - 1)
        PROVE  ~ Occurs(db.turnoff, t)
    <3>1. Date(foundAt) \in Nat /\ 0 \in Minutes /\ Date(foundAt) + 2 \in Nat
      BY <2>1, DayAndMinute, DayLengthAssumption DEF Minutes
    <3>2. At(Date(foundAt) + 2, 0) \in Nat /\ Date(At(Date(foundAt) + 2, 0)) = Date(foundAt) + 2
          /\ Minute(At(Date(foundAt) + 2, 0)) = 0
      BY <3>1, AtType, AtInverse
    <3>3. t \in Nat /\ t > foundAt /\ t < At(Date(foundAt) + 2, 0)
      BY <2>1, <3>2
    <3>4. Date(t) \in Nat /\ Minute(t) \in Nat
      BY <3>3, DayAndMinute, DayLengthAssumption DEF Minutes
    <3>5. Date(t) < Date(foundAt) + 2
      BY <3>2, <3>3, <3>4, Order
    <3> QED
      BY <2>2, <3>1, <3>3, <3>4, <3>5 DEF Nothing
  <2> QED
    BY <2>1, <2>2 DEF Upcoming
<1> QED
  BY <1>1, RuleOrderInvariant, PTL

-----------------------------------------------------------------------------
(* The laps never oversleep a rule.                                        *)

\* However long it sleeps, the checker wakes less than CHECK_DELAY after the time
\* of its rule; a rule that it finds lies ahead of it.
InTime ==
  /\ pc.checker = "sync" /\ OffIdle /\ upcoming_off_rule.found =>
       now < upcoming_off_rule.rule_time
  /\ pc.checker \in {"lap", "day", "measure"} /\ OffIdle /\ upcoming_off_rule.found =>
       wakeAt < upcoming_off_rule.rule_time + CheckDelay
  /\ InLastLap /\ "updated" \notin heard => wakeAt < upcoming_off_rule.rule_time + CheckDelay
  /\ pc.checker = "decide" /\ "updated" \notin heard => time_remaining = Remaining

LEMMA InitInTime == Init => InTime
  BY DEF Init, InTime, InLastLap

\* Steps that neither move the checker nor change what it knows.
LEMMA InTimeFrame ==
  ASSUME TypeOK, InTime, pc'.checker = pc.checker, UNCHANGED <<now, wakeAt, upcoming_off_rule,
         time_remaining>>, OffIdle' => OffIdle, "updated" \in heard => "updated" \in heard'
  PROVE  InTime'
  BY DEF InTime, InLastLap, Remaining

LEMMA CheckerInTime ==
  ASSUME RuleOrder, LastLap, InTime, CheckerMoves, ~ CheckerCancelled
  PROVE  InTime'
<1>t. TypeOK /\ Labels /\ OnTime /\ ControlOK
  BY DEF RuleOrder, InOrder, TypeOK
<1>i. OffIdle
  BY <1>t, CheckerFrame, CheckerIsAwake
     DEF RuleOrder, InOrder, Solo, ListenerWorks, HandlerWorks, OffIdle, Actors, Labels, OffSteps,
         OnSteps
<1>u. /\ now \in Nat /\ wakeAt \in Nat /\ time_remaining \in Nat /\ CheckDelay \in Nat \ {0}
      /\ upcoming_off_rule.rule_time \in Nat /\ upcoming_off_rule.notification_time \in Nat
  BY <1>t, Types
<1> USE DEF Goto, Wakes, Resumes, Running, ControlOK, InTime, InLastLap
<1>1. CASE CheckerStart \/ CheckerRetry
  <2>1. query'["checker"] \in OffSteps /\ pc'.checker \in {"sync", "lap"}
    BY <1>t, <1>1 DEF CheckerStart, CheckerRetry, Call, OffSteps, Actors
  <2> QED
    BY <2>1 DEF OffIdle, Actors
<1>2. CASE CheckerSync
  <2>1. /\ wakeAt' \in {now, now + 1} /\ UNCHANGED upcoming_off_rule /\ pc'.checker = "lap"
        /\ pc.checker = "sync"
    BY <1>t, <1>2 DEF CheckerSync
  <2> QED
    BY <1>i, <1>u, <2>1
<1>3. CASE CheckerLap \/ CheckerDay
  <2>1. /\ UNCHANGED <<wakeAt, upcoming_off_rule>> /\ pc'.checker \in {"day", "measure"}
        /\ pc.checker \in {"lap", "day"}
    BY <1>t, <1>3 DEF CheckerLap, CheckerDay, locals, shared
  <2> QED
    BY <1>i, <1>u, <2>1
<1>4. CASE CheckerMeasure
  <2>1. UNCHANGED <<now, upcoming_off_rule>> /\ pc.checker = "measure" /\ Remaining' = Remaining
    BY <1>t, <1>4 DEF CheckerMeasure, world, shared, Remaining
  <2>2. CASE Near /\ time_remaining' = Remaining /\ pc'.checker = "decide" /\ UNCHANGED wakeAt
    BY <1>i, <1>u, <2>1, <2>2 DEF Near
  <2>3. CASE ~ Near /\ wakeAt' = now + CheckDelay /\ pc'.checker = "lap"
    <3>1. upcoming_off_rule.found => wakeAt' < upcoming_off_rule.rule_time + CheckDelay
      BY <1>u, <2>3 DEF Near, Remaining
    <3> QED
      BY <2>1, <2>3, <3>1
  <2> QED
    BY <1>t, <1>4, <2>2, <2>3 DEF CheckerMeasure
<1>5. CASE CheckerDecide
  <2>1. /\ UNCHANGED <<upcoming_off_rule, heard>> /\ pc'.checker = "notify"
        /\ pc.checker = "decide" /\ now = wakeAt
        /\ wakeAt' = IF time_remaining > upcoming_off_rule.notification_time
                     THEN now + (time_remaining - upcoming_off_rule.notification_time)
                     ELSE now
    BY <1>t, <1>5 DEF CheckerDecide, history, OnTime
  <2> QED
    BY <1>u, <2>1 DEF Remaining
<1>6. CASE CheckerNotify
  <2>1. /\ UNCHANGED <<upcoming_off_rule, heard>> /\ pc'.checker = "trigger"
        /\ pc.checker = "notify" /\ now = wakeAt
        /\ wakeAt' = now + Remaining
    BY <1>t, <1>u, <1>6 DEF CheckerNotify, shared, history, OnTime, WaitForRule
  <2> QED
    BY <1>u, <2>1 DEF Remaining
<1>7. CASE CheckerTrigger \/ CheckerQuits
  <2>1. pc'.checker \in {"quit", "done", "retry"}
    BY <1>t, <1>7 DEF CheckerTrigger, CheckerQuits
  <2> QED
    BY <2>1
<1> QED
  BY <1>1, <1>2, <1>3, <1>4, <1>5, <1>6, <1>7 DEF CheckerMoves

LEMMA QueryInTime ==
  ASSUME QueriesSucceed, RuleOrder, Fresh', LastLap, InTime, NEW a \in Actors, Query(a)
  PROVE  InTime'
<1>t. TypeOK /\ Labels /\ OnTime /\ ControlOK
  BY DEF RuleOrder, InOrder, TypeOK
<1>1. /\ UNCHANGED <<now, wakeAt, pc, time_remaining, heard>>
      /\ \A b \in Actors : b # a => query'[b] = query[b]
  BY <1>t, QueryFrame
<1>2. CASE query[a] \notin OffSteps
  <2>1. UNCHANGED upcoming_off_rule /\ (OffIdle' => OffIdle)
    BY <1>t, <1>1, <1>2, QueryFrame DEF OffIdle
  <2> QED
    BY <1>t, <1>1, <2>1, InTimeFrame
<1>3. CASE query[a] \in OffSteps
  <2>1. InLastLap => "updated" \in heard
    BY <1>3, <1>t DEF LastLap, Labels, Actors, InLastLap, OffSteps, OnSteps
  <2>2. InLastLap' => "updated" \in heard'
    BY <1>1, <2>1 DEF InLastLap
  <2>3. ASSUME OffIdle', upcoming_off_rule'.found,
               pc.checker \in {"sync", "lap", "day", "measure"}
        PROVE  now' < upcoming_off_rule'.rule_time
    <3>1. OffMake(a)
      BY <1>t, <1>3, <2>3, OffQuerySteps DEF OffIdle, OffSteps, OffFault, QueriesSucceed
    <3>2. foundAt' = now
      BY <3>1 DEF OffMake, QueryStep
    <3> QED
      BY <1>1, <2>3, <3>2 DEF Fresh, Upcoming
  <2>4. pc.checker \in {"lap", "day", "measure"} => wakeAt <= now + CheckDelay
    BY <1>t, Types DEF OnTime
  <2>5. /\ now' \in Nat /\ wakeAt' \in Nat /\ CheckDelay \in Nat \ {0}
        /\ upcoming_off_rule'.rule_time \in Nat
    BY <1>t, <1>1, QueryType, Types DEF TypeOK, SharedOK
  <2> QED
    BY <1>1, <2>2, <2>3, <2>4, <2>5 DEF InTime, InLastLap
<1> QED
  BY <1>2, <1>3

LEMMA StepInTime ==
  ASSUME QueriesSucceed, Calm, RuleOrder, RuleOrder', LastLap, InTime, [Next]_vars
  PROVE  InTime'
<1>t. TypeOK /\ Labels /\ ControlOK
  BY DEF RuleOrder, InOrder, TypeOK
<1>1. CASE \E a \in Actors : Query(a)
  BY <1>1, QueryInTime DEF RuleOrder
<1>2. CASE CheckerMoves
  <2>1. CASE CheckerCancelled
    BY <1>t, <2>1 DEF CheckerCancelled, Goto, ControlOK, InTime, InLastLap
  <2> QED
    BY <1>2, <2>1, CheckerInTime
<1>3. CASE (\A a \in Actors : ~ Query(a)) /\ ~ CheckerMoves
  <2>1. UNCHANGED upcoming_off_rule /\ (now' = now \/ Tick)
    BY <1>t, <1>3, RuleFrame
  <2>2. OffIdle' => OffIdle
    BY <1>t, <1>3, QueryGoesOn DEF OffIdle, OffSteps, CheckerMoves
  <2>3. /\ UNCHANGED <<wakeAt, time_remaining>>
        /\ "updated" \in heard => "updated" \in heard'
    <3>1. CASE Created \/ Aside
      BY <3>1 DEF Created, Aside, steady
    <3>2. CASE Tick \/ EditDatabase
      BY <3>2 DEF Tick, EditDatabase, locals, history
    <3>3. CASE Sigterm \/ HandlerOverride
      BY <3>3 DEF Sigterm, HandlerOverride, locals, history
    <3>4. CASE HandlerFinalize \/ ListenerFinalize
      BY <1>t, <3>4, FinalizeFrame
    <3>5. CASE ListenerDispatch
      BY <3>5 DEF ListenerDispatch, locals
    <3> QED
      BY <1>t, <1>3, <3>1, <3>2, <3>3, <3>4, <3>5, StepKinds
  <2>4. CASE pc.checker = "new"
    <3>1. pc'.checker \in {"new", "start"}
      BY <1>t, <1>3, <2>4, CheckerStays
    <3> QED
      BY <3>1 DEF InTime, InLastLap
  <2>5. CASE pc.checker # "new"
    <3>1. pc'.checker = pc.checker
      BY <1>t, <1>3, <2>5, CheckerStays
    <3>2. CASE now' = now
      BY <1>t, <2>1, <2>2, <2>3, <3>1, <3>2, InTimeFrame
    <3>3. CASE Tick
      <4>1. pc.checker \notin {"sync", "decide"}
        BY <1>t, <3>3, BlockedRests DEF Tick, Calm
      <4> QED
        BY <2>1, <2>2, <2>3, <3>1, <4>1 DEF InTime, InLastLap
    <3> QED
      BY <2>1, <3>2, <3>3
  <2> QED
    BY <2>4, <2>5
<1> QED
  BY <1>1, <1>2, <1>3

\* The rule is triggered less than CHECK_DELAY after its time (lines 171-213),
\* although the users may have edited the rules at any moment, unless a signal
\* had it queried again in the last lap.
THEOREM IsTriggeredInTime ==
  ASSUME Calm, QueriesSucceed
  PROVE  Spec => TriggeredInTime
<1>1. Init => InTime
  BY InitInTime
<1>2. RuleOrder /\ RuleOrder' /\ (TypeOK /\ LastLap) /\ InTime /\ [Next]_vars => InTime'
  BY StepInTime
<1>3. RuleOrder /\ (TypeOK /\ LastLap) /\ InTime /\ [Next]_vars =>
        [pc.checker = "trigger" /\ pc'.checker \in {"quit", "retry"} /\ "updated" \notin heard =>
           now < upcoming_off_rule.rule_time + CheckDelay]_vars
  <2> SUFFICES ASSUME RuleOrder, TypeOK, InTime, [Next]_vars, pc.checker = "trigger",
                      pc'.checker \in {"quit", "retry"}, "updated" \notin heard
               PROVE  now < upcoming_off_rule.rule_time + CheckDelay
    OBVIOUS
  <2>1. CheckerTrigger
    BY Triggers
  <2>2. wakeAt <= now /\ now <= wakeAt
    BY <2>1 DEF CheckerTrigger, Wakes, RuleOrder, InOrder, OnTime
  <2>3. wakeAt < upcoming_off_rule.rule_time + CheckDelay
    BY DEF InTime, InLastLap
  <2> QED
    BY <2>2, <2>3, Types
<1>4. Spec => []RuleOrder
  BY RuleOrderInvariant
<1>5. Spec => [](TypeOK /\ LastLap)
  BY LastLapInvariant
<1> QED
  BY <1>1, <1>2, <1>3, <1>4, <1>5, PTL DEF Spec, TriggeredInTime

-----------------------------------------------------------------------------
(* The week of the checker.                                                *)

\* A lap is no longer than a day, and a lap and a notification together are not.
ShortLaps   == CheckDelay <= DayLength
ShortNotice == \A n \in NotificationTimes : CheckDelay + n <= DayLength

\* A rule that is still to be triggered.
Open(t) == t > StartTime /\ Occurs(db.turnoff, t) /\ t \notin served /\ t - 1 \notin served

OpenAfter(t) == \A v \in Nat : Open(v) => v > t

\* u is the next minute at which a rule is to be triggered.
NextRule(u) ==
  /\ u > StartTime /\ Occurs(db.turnoff, u)
  /\ now <= u /\ Date(u) <= Date(now) + 1
  /\ \A v \in Nat : now < v /\ v < u => ~ Occurs(db.turnoff, v)
  /\ OpenAfter(u - 1)

\* The checker's sleeps lead to u: it wakes for the notification, unless the rule
\* was found too late for that, and then for the rule.
Course(u) ==
  /\ wakeAt <= u /\ pc.checker # "day"
  /\ query["listener"] \notin OffSteps =>
       /\ upcoming_off_rule.found /\ upcoming_off_rule.rule_time = u
       /\ ModeAt(upcoming_off_rule.mode, u)
  /\ pc.checker = "decide" =>
       time_remaining = u - now /\ u <= now + CheckDelay + db.notification_time + 1
  /\ pc.checker = "notify" => u <= wakeAt + db.notification_time
  /\ pc.checker = "trigger" => wakeAt = u
  /\ ShortNotice /\ pc.checker # "trigger" =>
       wakeAt + db.notification_time <= u \/ wakeAt <= foundAt + 1

\* Once it is in its last lap, the mode is that of the rule and the wake up as
\* recent as the lap.
Chosen(u) ==
  InLastLap =>
    /\ query["checker"] \notin {"on_begin", "on_config"} => ModeAt(rtcwake_args.mode, u)
    /\ query["checker"] \notin {"on_begin", "on_config", "on_clock"} =>
         u <= clock["checker"] + CheckDelay + db.notification_time + 1

HeadsFor(u) == NextRule(u) /\ Course(u) /\ Chosen(u)

\* There is no rule today or tomorrow; the checker will ask again when the day
\* has changed, before the rules of the day after.
Drifts ==
  /\ pc.checker \in {"lap", "day", "measure"}
  /\ Nothing(foundAt) /\ OpenAfter(foundAt)
  /\ wakeAt < At(Date(foundAt) + 1, 0) + CheckDelay
  /\ pc.checker \in {"lap", "day"} /\ last_week_day = WeekDay(wakeAt) =>
       Date(foundAt) = Date(wakeAt)
  /\ pc.checker = "day" => timeinfo.wday = WeekDay(now)
  /\ pc.checker = "measure" => last_week_day = WeekDay(now) /\ Date(foundAt) = Date(now)
  /\ query["listener"] \notin OffSteps => ~ upcoming_off_rule.found

Towards ==
  /\ pc.checker \in {"lap", "day", "measure", "decide", "notify", "trigger"}
  /\ query["checker"] \notin OffSteps
  => Drifts \/ \E u \in Nat : HeadsFor(u)

Starting ==
  pc.checker \in {"new", "start", "sync"} =>
    /\ last_week_day = -1
    /\ pc.checker = "sync" /\ query["checker"] \notin OffSteps => foundAt = now

Searching ==
  query["checker"] \in OffSteps =>
    /\ OpenAfter(now)
    /\ pc.checker = "measure" => last_week_day = WeekDay(now)

\* A rule was triggered: it is dropped for a minute, or has ended the wait.
Triggered ==
  /\ pc.checker = "retry" => OpenAfter(wakeAt)
  /\ pc.checker \in {"quit", "done"} =>
       /\ OpenAfter(now)
       /\ ModeAt(rtcwake_args.mode, now)
       /\ now <= clock["checker"] + CheckDelay + db.notification_time + 1

\* The wake up is the next one after the minute at which the query read the clock.
LookedUp ==
  /\ query["checker"] \in {"on_config", "on_clock", "on_today", "on_later"} =>
       ~ rtcwake_args.found
  /\ pc.checker \in {"decide", "notify", "trigger", "quit", "done"} /\ query["checker"] # "on_begin"
     /\ rtcwake_args.found
     => /\ clock["checker"] <= now
        /\ IsNextOccurrence(db.turnon, clock["checker"], rtcwake_args.wake)

Noted ==
  /\ pc.checker \notin {"new", "start"}
  /\ pc.checker = "sync" => query["checker"] \notin {"off_begin", "off_config"}
  => upcoming_off_rule.notification_time = db.notification_time

\* The listener is there once time has passed, and leaves its loop when the
\* checker is done.
Ready ==
  /\ ~ stale /\ foundAt <= now /\ StartTime <= now
  /\ pc.listener = "dispatch" => gsd_loop \in {"running", "quit"}
  /\ now > StartTime => pc.listener \in {"dispatch", "exited"}
  /\ pc.checker = "quit" => now > StartTime
  /\ pc.checker = "done" =>
       pc.listener = "exited" \/ (pc.listener = "dispatch" /\ gsd_loop = "quit")

\* The days of two times are ordered as they are, and a day ends where the next
\* one begins.
LEMMA DayOrder ==
  ASSUME NEW t \in Nat, NEW u \in Nat
  PROVE  /\ Date(t) \in Nat /\ Minute(t) \in Nat
         /\ t <= u => Date(t) <= Date(u)
         /\ t < At(Date(u) + 1, 0) <=> Date(t) <= Date(u)
<1>1. /\ Date(t) \in Nat /\ Minute(t) \in Nat /\ Date(u) \in Nat /\ Minute(u) \in Nat
      /\ 0 \in Minutes
  BY DayAndMinute, DayLengthAssumption DEF Minutes
<1>2. t <= u => Date(t) <= Date(u)
  <2>1. CASE t < u
    BY <1>1, <2>1, Order
  <2>2. CASE t = u
    BY <1>1, <2>2
  <2> QED
    BY <2>1, <2>2
<1>3. t < At(Date(u) + 1, 0) <=> Date(t) <= Date(u)
  <2> DEFINE e == At(Date(u) + 1, 0)
  <2>1. e \in Int /\ Date(e) = Date(u) + 1 /\ Minute(e) = 0
    BY <1>1, AtInverse
  <2>2. t < e <=> (Date(t) < Date(e) \/ (Date(t) = Date(e) /\ Minute(t) < Minute(e)))
    BY <2>1, Order
  <2> HIDE DEF e
  <2>3. t < e <=> Date(t) <= Date(u)
    BY <1>1, <2>1, <2>2
  <2> QED
    BY <2>3 DEF e
<1> QED
  BY <1>1, <1>2, <1>3

\* Within a day's length, the date changes at most once; then the week day does.
LEMMA DayChange ==
  ASSUME NEW t \in Nat, NEW u \in Nat, t <= u, u < At(Date(t) + 1, 0) + DayLength
  PROVE  /\ Date(u) \in {Date(t), Date(t) + 1}
         /\ WeekDay(u) = WeekDay(t) => Date(u) = Date(t)
<1>1. Date(t) \in Nat /\ Date(u) \in Nat /\ Date(t) <= Date(u)
  BY DayOrder
<1>2. At(Date(t) + 1, 0) + DayLength = At(Date(t) + 2, 0)
  BY <1>1, DayLengthAssumption DEF At
<1>3. Date(u) < Date(t) + 2
  <2> DEFINE e == At(Date(t) + 2, 0)
  <2>1. 0 \in Minutes /\ Minute(u) \in Nat
    BY DayOrder, DayLengthAssumption DEF Minutes
  <2>2. e \in Int /\ Date(e) = Date(t) + 2 /\ Minute(e) = 0
    BY <1>1, <2>1, AtInverse
  <2>3. u < e
    BY <1>2
  <2>4. u < e <=> (Date(u) < Date(e) \/ (Date(u) = Date(e) /\ Minute(u) < Minute(e)))
    BY <2>2, Order
  <2> HIDE DEF e
  <2> QED
    BY <1>1, <2>1, <2>2, <2>3, <2>4
<1>4. Date(u) = Date(t) + 1 => WeekDay(u) # WeekDay(t)
  BY <1>1, Successor DEF WeekDay
<1> QED
  BY <1>1, <1>3, <1>4

\* Without edits the rules stay as they are and nothing that was found is stale;
\* only the checker triggers rules.
LEMMA StillStep ==
  ASSUME MaxEdits = 0, TypeOK, Labels, ~ stale, [Next]_vars
  PROVE  /\ UNCHANGED db /\ ~ stale'
         /\ served' = served \/ CheckerTrigger
         /\ now' = now \/ Tick
<1>t. ~ EditDatabase
  BY DEF EditDatabase, TypeOK, WorldOK
<1>1. CASE \E a \in Actors : Query(a)
  <2>1. UNCHANGED <<now, db, served>>
    BY <1>1, QueryFrame
  <2>2. ~ stale'
    <3>1. PICK a \in Actors : Query(a)
      BY <1>1
    <3>2. CASE OffBegin(a) \/ OffConfig(a) \/ OffFault(a) \/ OffClock(a) \/ OffToday(a)
               \/ OffTomorrow(a) \/ OffMake(a)
      BY <3>2 DEF QueryStep, OffBegin, OffConfig, OffFault, OffClock, OffToday, OffTomorrow, OffMake
    <3>3. CASE OnBegin(a) \/ OnConfig(a) \/ OnFault(a) \/ OnClock(a) \/ OnToday(a) \/ OnLater(a)
      BY <3>3 DEF QueryStep, OnBegin, OnConfig, OnFault, OnClock, OnToday, OnLater
    <3>4. CASE OnValidate(a) \/ OnCompare(a) \/ CustomConfig(a) \/ CustomRow(a)
      BY <3>4 DEF QueryStep, OnValidate, OnCompare, CustomConfig, CustomRow
    <3> QED
      BY <3>1, <3>2, <3>3, <3>4 DEF Query
  <2> QED
    BY <2>1, <2>2
<1>2. CASE \A a \in Actors : ~ Query(a)
  <2>1. UNCHANGED <<db, stale>> /\ (now' = now \/ Tick)
    BY <1>t, <1>2, RuleFrame
  <2>2. served' = served \/ CheckerTrigger
    <3>1. CASE Created \/ Aside
      BY <3>1 DEF Created, Aside, steady
    <3>2. CASE Tick \/ Sigterm \/ HandlerOverride
      BY <3>2 DEF Tick, Sigterm, HandlerOverride, history
    <3>3. CASE HandlerFinalize \/ ListenerFinalize
      BY <3>3, FinalizeFrame
    <3>4. CASE ListenerDispatch
      BY <3>4 DEF ListenerDispatch
    <3>5. CASE CheckerMoves
      BY <3>5 DEF CheckerMoves, CheckerStart, CheckerSync, CheckerLap, CheckerDay, CheckerMeasure,
           CheckerDecide, CheckerNotify, CheckerQuits, CheckerRetry, CheckerCancelled, history
    <3> QED
      BY <1>t, <1>2, <3>1, <3>2, <3>3, <3>4, <3>5, StepKinds
  <2> QED
    BY <2>1, <2>2
<1> QED
  BY <1>1, <1>2

\* The checker triggers the rule it heads for, in the rule's minute.
LEMMA AtTheRule ==
  ASSUME RuleOrder, Towards, CheckerTrigger
  PROVE  /\ HeadsFor(now) /\ wakeAt = now
         /\ pc.checker = "trigger" /\ query["checker"] = "none"
<1>1. /\ pc.checker = "trigger" /\ query["checker"] = "none" /\ wakeAt <= now /\ now <= wakeAt
  BY DEF CheckerTrigger, Wakes, Resumes, Running, RuleOrder, InOrder, OnTime
<1>2. wakeAt = now
  BY <1>1, Types DEF RuleOrder, InOrder
<1>3. PICK u \in Nat : HeadsFor(u)
  BY <1>1 DEF Towards, Drifts, OffSteps
<1>4. u = now
  BY <1>1, <1>2, <1>3 DEF HeadsFor, Course
<1> QED
  BY <1>1, <1>2, <1>3, <1>4

\* Once the checker is done, scheduler () returns before the minute ends.
LEMMA DoneInTime ==
  ASSUME TypeOK, Ready, Alone, pc.checker = "done"
  PROVE  ~ Blocked
  BY DEF Ready, Alone, Blocked

LEMMA StepReady ==
  ASSUME Calm, NoSchedule, MaxEdits = 0, RuleOrder, Alone, Towards, Ready, [Next]_vars
  PROVE  Ready'
<1>t. TypeOK /\ Labels /\ ControlOK
  BY DEF RuleOrder, InOrder, TypeOK
<1>s. ~ stale'
  BY <1>t, StillStep DEF Ready
<1>n. now \in Nat /\ foundAt \in Nat /\ StartTime \in Nat
  BY <1>t, Types
<1> USE DEF Actors, ControlOK
<1>1. CASE Query("checker") \/ Query("listener")
  <2>1. UNCHANGED <<now, pc, gsd_loop>>
    BY <1>1, <1>t, QueryFrame
  <2>2. foundAt' \in {now, foundAt}
    BY <1>1 DEF Query, QueryStep, OffBegin, OffConfig, OffFault, OffClock, OffToday, OffTomorrow,
         OffMake, OnBegin, OnConfig, OnFault, OnClock, OnToday, OnLater, OnValidate, OnCompare,
         CustomConfig, CustomRow
  <2> QED
    BY <1>s, <1>n, <2>1, <2>2 DEF Ready
<1>2. CASE Created
  BY <1>2, <1>s, <1>t DEF Created, steady, Ready
<1>3. CASE Aside /\ Otherwise
  <2>1. UNCHANGED <<now, foundAt>> /\ pc'.checker = pc.checker
    BY <1>3 DEF Aside, steady
  <2>2. CASE MainCreate
    BY <1>t, <1>s, <1>n, <2>1, <2>2 DEF MainCreate, Running, Labels, loop, Ready
  <2>3. CASE MainFail \/ MainJoin
    <3>1. pc'.listener = pc.listener /\ UNCHANGED gsd_loop
      BY <1>t, <2>3 DEF MainFail, MainJoin, MainGoto, Goto, loop
    <3> QED
      BY <1>s, <2>1, <3>1 DEF Ready
  <2>4. CASE ListenerConnect \/ ListenerRun
    <3>1. /\ pc.listener \notin {"dispatch", "exited"}
          /\ pc'.listener = "dispatch" => gsd_loop' = "running"
      BY <1>t, <2>4 DEF ListenerConnect, ListenerRun, Running, Goto
    <3> QED
      BY <1>s, <1>n, <2>1, <3>1 DEF Ready
  <2>5. CASE ListenerExit
    <3>1. pc'.listener = "exited"
      BY <1>t, <2>5 DEF ListenerExit, Goto
    <3> QED
      BY <1>s, <2>1, <3>1 DEF Ready
  <2>6. CASE EmitSignal \/ UNCHANGED vars
    <3>1. UNCHANGED <<pc, gsd_loop>>
      BY <2>6 DEF EmitSignal, vars, loop
    <3> QED
      BY <1>s, <2>1, <3>1 DEF Ready
  <2> QED
    BY <1>3, <2>2, <2>3, <2>4, <2>5, <2>6 DEF Otherwise, Main
<1>4. CASE Tick \/ EditDatabase
  <2>1. Tick
    BY <1>4, <1>t DEF EditDatabase, TypeOK, WorldOK
  <2>2. UNCHANGED <<pc, gsd_loop, foundAt>> /\ now' = now + 1
    BY <2>1 DEF Tick, loop, history
  <2>3. CASE Pace # "any"
    <3>1. Blocked
      BY <2>1, <2>3 DEF Tick
    <3>2. pc.listener \in {"dispatch", "exited"}
      BY <3>1 DEF Blocked
    <3> QED
      BY <1>s, <1>n, <2>2, <3>2 DEF Ready
  <2> QED
    BY <2>3 DEF Calm
<1>5. CASE Hears
  BY <1>5, <1>s DEF Hears, Ready
<1>6. CASE CheckerMoves /\ ~ CheckerCancelled
  <2>1. UNCHANGED <<now, foundAt>> /\ pc'.listener = pc.listener
    BY <1>6, <1>t, CheckerFrame
  <2>2. CASE CheckerTrigger
    <3>1. now > StartTime
      BY <2>2, AtTheRule DEF HeadsFor, NextRule
    <3>2. UNCHANGED gsd_loop /\ pc'.checker # "done"
      BY <1>t, <2>2 DEF CheckerTrigger, Goto, loop
    <3> QED
      BY <1>s, <2>1, <3>1, <3>2 DEF Ready
  <2>3. CASE CheckerQuits
    <3>1. /\ pc.checker = "quit"
          /\ \/ gsd_loop' = IF gsd_loop = "running" THEN "quit" ELSE gsd_loop
             \/ UNCHANGED gsd_loop /\ pc'.checker = "quit"
      BY <1>t, <2>3 DEF CheckerQuits, QuitLoop, Goto, Resumes, Running
    <3> QED
      BY <1>s, <2>1, <3>1 DEF Ready
  <2>4. CASE ~ CheckerTrigger /\ ~ CheckerQuits
    <3>1. pc'.checker \notin {"quit", "done"} /\ UNCHANGED gsd_loop
      BY <1>6, <1>t, <2>4 DEF CheckerMoves, CheckerStart, CheckerSync, CheckerLap, CheckerDay,
         CheckerMeasure, CheckerDecide, CheckerNotify, CheckerRetry, Goto, loop
    <3> QED
      BY <1>s, <2>1, <3>1 DEF Ready
  <2> QED
    BY <2>2, <2>3, <2>4
<1> QED
  BY <1>t, <1>1, <1>2, <1>3, <1>4, <1>5, <1>6, AloneKinds

LEMMA StepNoted ==
  ASSUME NoSchedule, MaxEdits = 0, QueriesSucceed, RuleOrder, Alone, Ready, Noted, [Next]_vars
  PROVE  Noted'
<1>t. TypeOK /\ Labels /\ ControlOK
  BY DEF RuleOrder, InOrder, TypeOK
<1>s. UNCHANGED db
  BY <1>t, StillStep DEF Ready
<1> USE DEF Actors, Noted
<1>1. ASSUME NEW a \in {"checker", "listener"}, Query(a) PROVE Noted'
  <2>1. UNCHANGED pc /\ \A b \in Actors : b # a => query'[b] = query[b]
    BY <1>1, <1>t, QueryFrame
  <2>2. CASE query[a] \notin OffSteps
    <3>1. UNCHANGED upcoming_off_rule
      BY <1>1, <1>t, <2>2, QueryFrame
    <3>2. query["checker"] \in {"off_begin", "off_config"} =>
            query'["checker"] \in {"off_begin", "off_config"}
      BY <2>1, <2>2 DEF OffSteps
    <3> QED
      BY <1>s, <2>1, <3>1, <3>2
  <2>3. CASE OffConfig(a)
    <3>1. upcoming_off_rule'.notification_time = db.notification_time
      BY <1>t, <2>3 DEF OffConfig, TypeOK, SharedOK
    <3> QED
      BY <1>s, <3>1
  <2>4. CASE query[a] \in OffSteps /\ ~ OffConfig(a)
    <3>1. /\ upcoming_off_rule'.notification_time = upcoming_off_rule.notification_time
          /\ query[a] = "off_begin" => query'[a] = "off_config"
          /\ query[a] # "off_config"
      <4> USE DEF QueryStep, TypeOK, SharedOK
      <4>1. CASE OffBegin(a) /\ query'[a] = "off_config"
        BY <1>t, <4>1 DEF OffBegin
      <4>2. CASE OffClock(a) \/ OffMake(a)
        BY <1>t, <4>2 DEF OffClock, OffMake
      <4>3. CASE OffToday(a) \/ OffTomorrow(a)
        BY <1>t, <4>3 DEF OffToday, OffTomorrow, Found
      <4>4. ~ OffFault(a)
        BY DEF OffFault, QueriesSucceed
      <4> QED
        BY <1>1, <1>t, <2>4, <4>1, <4>2, <4>3, <4>4, OffQuerySteps
    <3> QED
      BY <1>s, <2>1, <3>1
  <2> QED
    BY <2>2, <2>3, <2>4
<1>2. CASE \A a \in Actors : ~ Query(a)
  <2>1. UNCHANGED upcoming_off_rule
    BY <1>2, <1>t, RuleFrame
  <2>2. CASE CheckerMoves
    <3>1. pc.checker \notin {"new", "start"} \/ CheckerStart
      <4>1. pc.checker # "new"
        BY <1>t, <2>2, CheckerFrame
      <4>2. CASE CheckerCancelled
        BY <4>2 DEF CheckerCancelled, Alone
      <4>3. CASE CheckerMoves /\ ~ CheckerCancelled /\ ~ CheckerStart
        BY <4>3 DEF CheckerMoves, CheckerSync, CheckerLap, CheckerDay, CheckerMeasure,
             CheckerDecide, CheckerNotify, CheckerTrigger, CheckerQuits, CheckerRetry, Wakes,
             Resumes, Running
      <4> QED
        BY <2>2, <4>1, <4>2, <4>3
    <3>2. CheckerStart => pc'.checker = "sync" /\ query'["checker"] = "off_begin"
      BY <1>t DEF CheckerStart, Goto, Call, ControlOK
    <3>3. pc.checker = "sync" /\ ~ CheckerCancelled => query["checker"] = "none"
      BY <1>t, <2>2, CheckerFrame
    <3>4. ~ CheckerCancelled
      BY DEF CheckerCancelled, Alone
    <3> QED
      BY <1>s, <2>1, <3>1, <3>2, <3>3, <3>4
  <2>3. CASE ~ CheckerMoves
    <3>1. pc'.checker = pc.checker \/ pc'.checker \in {"new", "start"}
      BY <1>t, <2>3, CheckerStays
    <3>2. query["checker"] # "none" => query'["checker"] = query["checker"]
      BY <1>2, <1>t, <2>3, QueryGoesOn DEF CheckerMoves
    <3> QED
      BY <1>s, <2>1, <3>1, <3>2
  <2> QED
    BY <2>2, <2>3
<1>3. ~ Query("handler")
  BY <1>t, QueryFrame DEF Alone, Labels, OffSteps, OnSteps, CustomSteps
<1> QED
  BY <1>1, <1>2, <1>3

\* While it drifts, no rule comes before the checker wakes.
LEMMA DriftsAhead ==
  ASSUME TypeOK, Ready, ShortLaps, Drifts
  PROVE  /\ Date(wakeAt) <= Date(foundAt) + 1
         /\ \A v \in Nat : v > foundAt /\ Occurs(db.turnoff, v) =>
              Date(v) > Date(foundAt) + 1 /\ v > wakeAt
         /\ OpenAfter(wakeAt)
<1>t. wakeAt \in Nat /\ foundAt \in Nat /\ CheckDelay \in Nat /\ DayLength \in Nat
  BY Types, DayLengthAssumption
<1>1. Date(wakeAt) <= Date(foundAt) + 1
  <2>1. CASE wakeAt <= foundAt
    BY <1>t, <2>1, DayOrder
  <2>2. CASE foundAt <= wakeAt
    <3>1. wakeAt < At(Date(foundAt) + 1, 0) + DayLength
      <4>1. At(Date(foundAt) + 1, 0) \in Int
        BY <1>t, DayOrder, AtInverse, DayLengthAssumption DEF Minutes
      <4> QED
        BY <1>t, <4>1 DEF Drifts, ShortLaps
    <3>2. Date(wakeAt) \in {Date(foundAt), Date(foundAt) + 1}
      BY <1>t, <2>2, <3>1, DayChange
    <3>3. Date(foundAt) \in Nat
      BY <1>t, DayOrder
    <3> QED
      BY <3>2, <3>3
  <2> QED
    BY <1>t, <2>1, <2>2
<1>2. ASSUME NEW v \in Nat, v > foundAt, Occurs(db.turnoff, v)
      PROVE  Date(v) > Date(foundAt) + 1 /\ v > wakeAt
  <2>1. ~ (Date(v) <= Date(foundAt) + 1)
    BY <1>2 DEF Drifts, Nothing
  <2>2. Date(v) \in Nat /\ Date(foundAt) \in Nat /\ Date(wakeAt) \in Nat
        /\ (v <= wakeAt => Date(v) <= Date(wakeAt))
    BY <1>t, DayOrder
  <2> QED
    BY <1>t, <1>1, <2>1, <2>2
<1>3. OpenAfter(wakeAt)
  BY <1>2 DEF Drifts, OpenAfter, Open
<1> QED
  BY <1>1, <1>2, <1>3

\* The next occurrence of a rule, if it is today or tomorrow.
LEMMA NextIsNext ==
  ASSUME TypeOK, Ready, OpenAfter(now), NEW u \in Nat, u > now, Date(u) <= Date(now) + 1,
         IsNextOccurrence(db.turnoff, now, u)
  PROVE  NextRule(u)
<1>t. now \in Nat /\ StartTime \in Nat /\ StartTime <= now
  BY Types DEF Ready
<1>1. \A v \in Nat : now < v /\ v < u => ~ Occurs(db.turnoff, v)
  BY <1>t DEF IsNextOccurrence
<1>2. OpenAfter(u - 1)
  <2> SUFFICES ASSUME NEW v \in Nat, Open(v) PROVE v > u - 1
    BY DEF OpenAfter
  <2>1. v > now /\ Occurs(db.turnoff, v)
    BY DEF OpenAfter, Open
  <2> QED
    BY <1>t, <1>1, <2>1
<1> QED
  BY <1>t, <1>1, <1>2 DEF NextRule, IsNextOccurrence

\* It is the same minute as long as it lies ahead.
LEMMA NextIsUnique ==
  ASSUME TypeOK, NEW u \in Nat, NextRule(u), now < u
  PROVE  /\ ~ Nothing(now)
         /\ \A w \in Nat : IsNextOccurrence(db.turnoff, now, w) => w = u
         /\ OpenAfter(now)
<1>t. now \in Nat
  BY Types
<1>1. ~ Nothing(now)
  BY DEF Nothing, NextRule
<1>2. ASSUME NEW w \in Nat, IsNextOccurrence(db.turnoff, now, w) PROVE w = u
  <2>1. ~ (w < u)
    BY <1>2 DEF IsNextOccurrence, NextRule
  <2>2. ~ (u < w)
    BY <1>t, <1>2 DEF IsNextOccurrence, NextRule
  <2> QED
    BY <2>1, <2>2
<1>3. OpenAfter(now)
  BY <1>t DEF NextRule, OpenAfter
<1> QED
  BY <1>1, <1>2, <1>3

LEMMA NextFrame ==
  ASSUME NEW u \in Nat, NextRule(u), UNCHANGED <<now, db, served>>
  PROVE  NextRule(u)'
  BY DEF NextRule, OpenAfter, Open

\* What a turn off query has found when it ends.
LEMMA QueryEnds ==
  ASSUME QueriesSucceed, RuleOrder, Fresh', Ready', UNCHANGED db,
         NEW a \in {"checker", "listener"}, Query(a), query[a] \in OffSteps,
         query'[a] \notin OffSteps
  PROVE  /\ foundAt' = now /\ UNCHANGED <<now, pc, wakeAt, served, time_remaining, last_week_day>>
         /\ \A b \in Actors : query'[b] = "none"
         /\ upcoming_off_rule'.found =>
              \E u \in Nat :
                /\ u = upcoming_off_rule'.rule_time /\ u > now /\ Date(u) <= Date(now) + 1
                /\ IsNextOccurrence(db.turnoff, now, u) /\ ModeAt(upcoming_off_rule'.mode, u)
         /\ ~ upcoming_off_rule'.found => Nothing(now)
<1>t. TypeOK /\ Labels /\ a \in Actors
  BY DEF RuleOrder, InOrder, Actors
<1>1. OffMake(a)
  BY <1>t, OffQuerySteps DEF OffSteps, OffFault, QueriesSucceed
<1>2. foundAt' = now /\ query'[a] = "none"
  BY <1>1, <1>t, OffQuerySteps DEF OffMake, QueryStep, Call, TypeOK, ControlOK
<1>3. /\ UNCHANGED <<now, pc, wakeAt, served, time_remaining, last_week_day>>
      /\ \A b \in Actors : query'[b] = "none"
  BY <1>t, <1>2, QueryFrame, QueriesAlone DEF RuleOrder, OffSteps
<1>4. pc.checker \notin {"new", "start"}
  <2>1. CASE a = "checker"
    BY <1>t, <2>1 DEF Labels
  <2>2. CASE a = "listener"
    BY <1>t, <2>2, QueriesAlone DEF RuleOrder, CheckerAsleep, OffSteps
  <2> QED
    BY <2>1, <2>2
<1>5. Upcoming(foundAt, upcoming_off_rule.rule_time)'
  BY <1>3, <1>4 DEF Fresh, OffIdle, OffSteps
<1>6. ~ stale'
  BY DEF Ready
<1> QED
  BY <1>2, <1>3, <1>5, <1>6 DEF Upcoming, Nothing, ModeAt

\* The checker's own query sets the course.
LEMMA SearchEnds ==
  ASSUME Calm, QueriesSucceed, ShortLaps, RuleOrder, Fresh', Ready, Ready', UNCHANGED db, Searching,
         Query("checker"), query["checker"] \in OffSteps, query'["checker"] \notin OffSteps
  PROVE  Towards'
<1>t. TypeOK /\ Labels /\ OnTime
  BY DEF RuleOrder, InOrder
<1>n. /\ now \in Nat /\ wakeAt \in Nat /\ CheckDelay \in Nat \ {0} /\ DayLength \in Nat
      /\ db.notification_time \in Nat /\ StartTime \in Nat
  BY <1>t, Types, DayLengthAssumption
<1>1. /\ foundAt' = now /\ UNCHANGED <<now, pc, wakeAt, served, time_remaining, last_week_day>>
      /\ \A b \in Actors : query'[b] = "none"
      /\ upcoming_off_rule'.found =>
           \E u \in Nat :
             /\ u = upcoming_off_rule'.rule_time /\ u > now /\ Date(u) <= Date(now) + 1
             /\ IsNextOccurrence(db.turnoff, now, u) /\ ModeAt(upcoming_off_rule'.mode, u)
      /\ ~ upcoming_off_rule'.found => Nothing(now)
  BY QueryEnds
<1>2. OpenAfter(now) /\ (pc.checker = "measure" => last_week_day = WeekDay(now))
  BY DEF Searching
<1> SUFFICES ASSUME pc.checker \in {"lap", "measure"}
             PROVE  Drifts' \/ \E u \in Nat : HeadsFor(u)'
  BY <1>t, <1>1 DEF Towards, Labels
<1>3. wakeAt = now
  BY <1>t DEF OnTime, OffSteps
<1>4. ASSUME upcoming_off_rule'.found PROVE \E u \in Nat : HeadsFor(u)'
  <2>1. PICK u \in Nat :
          /\ u = upcoming_off_rule'.rule_time /\ u > now /\ Date(u) <= Date(now) + 1
          /\ IsNextOccurrence(db.turnoff, now, u) /\ ModeAt(upcoming_off_rule'.mode, u)
    BY <1>1, <1>4
  <2>2. NextRule(u)'
    BY <1>t, <1>1, <1>2, <2>1, NextIsNext, NextFrame
  <2>3. Course(u)'
    BY <1>n, <1>1, <1>3, <1>4, <2>1 DEF Course, ModeAt
  <2>4. Chosen(u)'
    BY <1>1 DEF Chosen, InLastLap
  <2> QED
    BY <2>2, <2>3, <2>4 DEF HeadsFor
<1>5. ASSUME ~ upcoming_off_rule'.found PROVE Drifts'
  <2>1. Nothing(foundAt)' /\ OpenAfter(foundAt)'
    BY <1>1, <1>2, <1>5 DEF Nothing, OpenAfter, Open
  <2>2. wakeAt' < At(Date(foundAt') + 1, 0) + CheckDelay
    <3>1. now < At(Date(now) + 1, 0) /\ At(Date(now) + 1, 0) \in Int
      BY <1>n, DayOrder, AtInverse, DayLengthAssumption DEF Minutes
    <3> QED
      BY <1>n, <1>1, <1>3, <3>1
  <2> QED
    BY <1>1, <1>2, <1>3, <1>5, <2>1, <2>2 DEF Drifts
<1> QED
  BY <1>4, <1>5

\* A query of the listener's finds the same rule, or a new day's.
LEMMA ListenerEnds ==
  ASSUME Calm, QueriesSucceed, ShortLaps, RuleOrder, Fresh', Ready, Ready', UNCHANGED db, Towards,
         Query("listener"), query["listener"] \in OffSteps, query'["listener"] \notin OffSteps
  PROVE  Towards'
<1>t. TypeOK /\ Labels /\ OnTime
  BY DEF RuleOrder, InOrder
<1>n. /\ now \in Nat /\ wakeAt \in Nat /\ CheckDelay \in Nat \ {0} /\ DayLength \in Nat
      /\ db.notification_time \in Nat /\ StartTime \in Nat /\ foundAt \in Nat /\ foundAt <= now
  BY <1>t, Types, DayLengthAssumption DEF Ready
<1>1. /\ foundAt' = now /\ UNCHANGED <<now, pc, wakeAt, served, time_remaining, last_week_day>>
      /\ \A b \in Actors : query'[b] = "none"
      /\ upcoming_off_rule'.found =>
           \E u \in Nat :
             /\ u = upcoming_off_rule'.rule_time /\ u > now /\ Date(u) <= Date(now) + 1
             /\ IsNextOccurrence(db.turnoff, now, u) /\ ModeAt(upcoming_off_rule'.mode, u)
      /\ ~ upcoming_off_rule'.found => Nothing(now)
  BY QueryEnds
<1>2. UNCHANGED rtcwake_args /\ clock'["checker"] = clock["checker"]
  BY <1>t, QueryFrame DEF Actors
<1>3. CheckerAsleep /\ query["checker"] = "none"
  BY QueriesAlone DEF RuleOrder, Actors, OffSteps
<1> SUFFICES ASSUME pc.checker \in {"lap", "day", "measure", "decide", "notify", "trigger"}
             PROVE  Drifts' \/ \E u \in Nat : HeadsFor(u)'
  BY <1>1 DEF Towards
<1>4. now < wakeAt /\ pc.checker \in {"lap", "notify", "trigger"}
  BY <1>3 DEF CheckerAsleep
<1>5. ASSUME NEW u \in Nat, HeadsFor(u) PROVE HeadsFor(u)'
  <2>1. now < u /\ NextRule(u) /\ Course(u) /\ Chosen(u)
    BY <1>n, <1>4, <1>5 DEF HeadsFor, Course
  <2>2. /\ upcoming_off_rule'.found /\ upcoming_off_rule'.rule_time = u
        /\ ModeAt(upcoming_off_rule'.mode, u)
    BY <1>t, <1>1, <2>1, NextIsUnique
  <2>3. NextRule(u)'
    BY <1>1, <2>1, NextFrame
  <2>4. Course(u)'
    BY <1>n, <1>1, <1>4, <2>1, <2>2 DEF Course, ModeAt
  <2>5. Chosen(u)'
    BY <1>1, <1>2, <1>3, <2>1 DEF Chosen, InLastLap, ModeAt
  <2> QED
    BY <2>3, <2>4, <2>5 DEF HeadsFor
<1>6. ASSUME Drifts PROVE Drifts' \/ \E u \in Nat : HeadsFor(u)'
  <2>1. /\ Date(wakeAt) <= Date(foundAt) + 1
        /\ \A v \in Nat : v > foundAt /\ Occurs(db.turnoff, v) =>
             Date(v) > Date(foundAt) + 1 /\ v > wakeAt
        /\ OpenAfter(wakeAt)
    BY <1>t, <1>6, DriftsAhead
  <2>2. OpenAfter(now)
    BY <1>n, <1>4, <2>1 DEF OpenAfter
  <2>3. pc.checker = "lap"
    BY <1>4, <1>6 DEF Drifts
  <2>d. Date(foundAt) \in Nat /\ Date(now) \in Nat /\ Date(wakeAt) \in Nat
        /\ Date(foundAt) <= Date(now) /\ Date(now) <= Date(wakeAt)
    BY <1>n, <1>4, DayOrder
  <2>4. ASSUME upcoming_off_rule'.found PROVE \E u \in Nat : HeadsFor(u)'
    <3>1. PICK u \in Nat :
            /\ u = upcoming_off_rule'.rule_time /\ u > now /\ Date(u) <= Date(now) + 1
            /\ IsNextOccurrence(db.turnoff, now, u) /\ ModeAt(upcoming_off_rule'.mode, u)
      BY <1>1, <2>4
    <3>2. NextRule(u)'
      BY <1>t, <1>1, <2>2, <3>1, NextIsNext, NextFrame
    <3>3. Date(u) > Date(foundAt) + 1 /\ u > wakeAt
      BY <1>n, <2>1, <3>1 DEF IsNextOccurrence
    <3>4. ShortNotice => wakeAt + db.notification_time <= u
      <4> SUFFICES ASSUME ShortNotice PROVE wakeAt + db.notification_time <= u
        OBVIOUS
      <4>1. CheckDelay + db.notification_time <= DayLength
        BY <1>t, DatabaseType DEF ShortNotice, Database
      <4>2. ~ (u < At(Date(foundAt) + 1 + 1, 0))
        <5> DEFINE e == At(Date(foundAt) + 1, 0)
        <5>1. 0 \in Minutes /\ Date(foundAt) + 1 \in Nat
          BY <2>d, DayLengthAssumption DEF Minutes
        <5>2. e \in Nat /\ Date(e) = Date(foundAt) + 1
          BY <5>1, AtType, AtInverse
        <5>3. u < At(Date(e) + 1, 0) <=> Date(u) <= Date(e)
          BY <5>2, DayOrder
        <5> HIDE DEF e
        <5> QED
          BY <2>d, <3>3, <5>2, <5>3, <1>n, DayOrder
      <4>3. At(Date(foundAt) + 1 + 1, 0) = At(Date(foundAt) + 1, 0) + DayLength
            /\ At(Date(foundAt) + 1, 0) \in Int
        BY <1>n, <2>d DEF At
      <4>4. wakeAt < At(Date(foundAt) + 1, 0) + CheckDelay
        BY <1>6 DEF Drifts
      <4> QED
        BY <1>n, <4>1, <4>2, <4>3, <4>4
    <3>5. Course(u)'
      BY <1>n, <1>1, <2>3, <2>4, <3>1, <3>3, <3>4 DEF Course, ModeAt
    <3>6. Chosen(u)'
      BY <1>1, <2>3 DEF Chosen, InLastLap
    <3> QED
      BY <3>2, <3>5, <3>6 DEF HeadsFor
  <2>5. ASSUME ~ upcoming_off_rule'.found PROVE Drifts'
    <3>1. Nothing(foundAt)' /\ OpenAfter(foundAt)'
      BY <1>1, <2>2, <2>5 DEF Nothing, OpenAfter, Open
    <3>2. wakeAt' < At(Date(foundAt') + 1, 0) + CheckDelay
      <4>1. At(Date(foundAt) + 1, 0) <= At(Date(now) + 1, 0)
            /\ At(Date(foundAt) + 1, 0) \in Int /\ At(Date(now) + 1, 0) \in Int
        BY <1>n, <2>d DEF At
      <4> QED
        BY <1>n, <1>1, <1>6, <4>1 DEF Drifts
    <3>3. last_week_day' = WeekDay(wakeAt') => Date(foundAt') = Date(wakeAt')
      BY <1>1, <1>6, <2>3, <2>d DEF Drifts
    <3> QED
      BY <1>1, <2>3, <2>5, <3>1, <3>2, <3>3 DEF Drifts
  <2> QED
    BY <2>4, <2>5
<1> QED
  BY <1>3, <1>5, <1>6 DEF Towards, OffSteps

\* The checker's turn on query, step by step.
LEMMA LastLapQuery ==
  ASSUME QueriesSucceed, TypeOK, Labels, Query("checker"), query["checker"] \in OnSteps
  PROVE  \/ /\ query["checker"] = "on_begin" /\ query'["checker"] = "on_config"
            /\ ~ rtcwake_args'.found
         \/ /\ query["checker"] = "on_config" /\ query'["checker"] = "on_clock"
            /\ rtcwake_args'.mode = upcoming_off_rule.mode
            /\ rtcwake_args'.found = rtcwake_args.found
         \/ /\ query["checker"] = "on_clock" /\ query'["checker"] = "on_today"
            /\ clock'["checker"] = now /\ UNCHANGED rtcwake_args
         \/ /\ query["checker"] \in {"on_today", "on_later"}
            /\ query'["checker"] \in {"on_later", "none"}
            /\ UNCHANGED <<rtcwake_args, clock>>
         \/ /\ query["checker"] \in {"on_today", "on_later"} /\ query'["checker"] = "on_validate"
            /\ OnToday("checker") \/ OnLater("checker")
            /\ rtcwake_args'.mode = rtcwake_args.mode /\ UNCHANGED clock
         \/ /\ query["checker"] \in {"on_validate", "on_compare"}
            /\ query'["checker"] \in {"on_compare", "none"}
            /\ UNCHANGED <<rtcwake_args, clock>>
<1> USE DEF TypeOK, ControlOK, SharedOK, LocalsOK, QueryStep, Call, Actors
<1>1. ~ (OffBegin("checker") \/ OffConfig("checker") \/ OffFault("checker") \/ OffClock("checker")
         \/ OffToday("checker") \/ OffTomorrow("checker") \/ OffMake("checker")
         \/ CustomConfig("checker") \/ CustomRow("checker"))
  BY DEF OffBegin, OffConfig, OffFault, OffClock, OffToday, OffTomorrow, OffMake, OnSteps,
         CustomConfig, CustomRow
<1>2. ~ OnFault("checker")
  BY DEF OnFault, QueriesSucceed
<1>3. CASE OnBegin("checker")
  BY <1>3 DEF OnBegin, OnSteps
<1>4. CASE OnConfig("checker")
  BY <1>4 DEF OnConfig, ModeFor
<1>5. CASE OnClock("checker")
  BY <1>5 DEF OnClock
<1>6. CASE OnToday("checker") \/ OnLater("checker")
  BY <1>6 DEF OnToday, OnLater, FillIn
<1>7. CASE OnValidate("checker") \/ OnCompare("checker")
  BY <1>7 DEF OnValidate, OnCompare
<1> QED
  BY <1>1, <1>2, <1>3, <1>4, <1>5, <1>6, <1>7 DEF Query

\* The course stays what it is while the wake up is looked up.
LEMMA LastLapTowards ==
  ASSUME QueriesSucceed, RuleOrder, UNCHANGED db, Towards, Query("checker"),
         query["checker"] \in OnSteps
  PROVE  Towards'
<1>t. TypeOK /\ Labels
  BY DEF RuleOrder, InOrder
<1>1. /\ UNCHANGED <<now, pc, wakeAt, served, time_remaining, upcoming_off_rule, foundAt>>
      /\ query'["listener"] = query["listener"] /\ query["listener"] = "none"
      /\ pc.checker = "decide"
  BY <1>t, QueryFrame, QueriesAlone DEF RuleOrder, Labels, Actors, OnSteps
<1>2. PICK u \in Nat : HeadsFor(u)
  BY <1>1 DEF Towards, Drifts, OnSteps, OffSteps
<1>3. NextRule(u)'
  BY <1>1, <1>2, NextFrame DEF HeadsFor
<1>4. Course(u)'
  BY <1>1, <1>2 DEF HeadsFor, Course, ModeAt
<1>5. Chosen(u)'
  <2>1. /\ ModeAt(upcoming_off_rule.mode, u)
        /\ u <= now + CheckDelay + db.notification_time + 1
    BY <1>1, <1>2 DEF HeadsFor, Course, OffSteps
  <2> QED
    BY <1>t, <1>1, <1>2, <2>1, LastLapQuery DEF HeadsFor, Chosen, InLastLap, ModeAt
<1> QED
  BY <1>3, <1>4, <1>5 DEF HeadsFor, Towards

\* The checker's own moves keep the course.
LEMMA CheckerTowards ==
  ASSUME Calm, ShortLaps, RuleOrder, Ready, Noted, Starting, Towards, UNCHANGED db,
         CheckerMoves, ~ CheckerCancelled
  PROVE  Towards'
<1>t. TypeOK /\ Labels /\ OnTime /\ ControlOK
  BY DEF RuleOrder, InOrder, TypeOK
<1>n. /\ now \in Nat /\ wakeAt \in Nat /\ CheckDelay \in Nat \ {0} /\ DayLength \in Nat
      /\ db.notification_time \in Nat /\ StartTime \in Nat /\ foundAt \in Nat /\ foundAt <= now
      /\ upcoming_off_rule.rule_time \in Nat /\ time_remaining \in Nat
  BY <1>t, Types, DayLengthAssumption DEF Ready
<1>1. /\ UNCHANGED <<now, foundAt, clock>> /\ query["checker"] = "none"
      /\ query'["listener"] = query["listener"]
  BY <1>t, CheckerFrame DEF Actors, ControlOK
<1>2. OffIdle /\ query["listener"] \notin OffSteps
  BY <1>t, <1>1, CheckerIsAwake
     DEF RuleOrder, InOrder, Solo, ListenerWorks, OffIdle, Actors, Labels, OffSteps, OnSteps
<1> USE DEF Goto, Wakes, Resumes, Running, ControlOK
<1>3. CASE CheckerStart \/ CheckerRetry
  <2>1. query'["checker"] \in OffSteps
    BY <1>t, <1>3 DEF CheckerStart, CheckerRetry, Call, OffSteps, Actors
  <2> QED
    BY <2>1 DEF Towards
<1>4. CASE CheckerSync
  <2>1. /\ pc.checker = "sync" /\ pc'.checker = "lap" /\ wakeAt' \in {now, now + 1}
        /\ UNCHANGED <<upcoming_off_rule, served, last_week_day>>
    BY <1>t, <1>4 DEF CheckerSync, history
  <2>2. /\ foundAt = now /\ last_week_day = -1 /\ ~ stale /\ now = StartTime
        /\ Upcoming(foundAt, upcoming_off_rule.rule_time)
    BY <1>t, <1>1, <1>2, <2>1 DEF Starting, Ready, RuleOrder, Fresh, OnTime, OffSteps
  <2>3. OpenAfter(now)
    BY <2>2 DEF OpenAfter, Open
  <2>4. ASSUME upcoming_off_rule.found PROVE \E u \in Nat : HeadsFor(u)'
    <3> DEFINE u == upcoming_off_rule.rule_time
    <3>1. /\ u \in Nat /\ u > now /\ Date(u) <= Date(now) + 1
          /\ IsNextOccurrence(db.turnoff, now, u) /\ ModeAt(upcoming_off_rule.mode, u)
      BY <2>2, <2>4 DEF Upcoming
    <3> HIDE DEF u
    <3>2. NextRule(u)
      BY <1>t, <2>3, <3>1, NextIsNext
    <3>3. PICK w \in Nat : w = u
      BY <3>1
    <3>4. NextRule(w)'
      BY <1>1, <2>1, <3>2, <3>3, NextFrame
    <3>5. Course(w)'
      BY <1>n, <1>1, <2>1, <2>2, <2>4, <3>1, <3>3 DEF Course, ModeAt, u
    <3>6. Chosen(w)'
      BY <2>1 DEF Chosen, InLastLap
    <3> QED
      BY <3>4, <3>5, <3>6 DEF HeadsFor
  <2>5. ASSUME ~ upcoming_off_rule.found PROVE Drifts'
    <3>1. Nothing(foundAt)' /\ OpenAfter(foundAt)'
      BY <1>1, <2>1, <2>2, <2>3, <2>5 DEF Upcoming, Nothing, OpenAfter, Open
    <3>2. wakeAt' < At(Date(foundAt') + 1, 0) + CheckDelay
      <4>1. now < At(Date(now) + 1, 0) /\ At(Date(now) + 1, 0) \in Int
        BY <1>n, DayOrder, AtInverse, DayLengthAssumption DEF Minutes
      <4> QED
        BY <1>n, <1>1, <2>1, <2>2, <4>1
    <3>3. WeekDay(wakeAt') \in Nat
      <4>1. Date(wakeAt') \in Nat
        BY <1>n, <2>1, DayOrder
      <4> QED
        BY <4>1 DEF WeekDay
    <3> QED
      BY <2>1, <2>2, <2>5, <3>1, <3>2, <3>3 DEF Drifts
  <2> QED
    BY <2>4, <2>5 DEF Towards
<1>5. CASE CheckerLap
  <2>1. /\ pc.checker = "lap" /\ UNCHANGED <<wakeAt, served, query, last_week_day>>
        /\ UNCHANGED <<upcoming_off_rule, rtcwake_args, time_remaining>>
        /\ wakeAt = now
        /\ IF upcoming_off_rule.found THEN pc'.checker = "measure"
           ELSE pc'.checker = "day" /\ timeinfo'.wday = WeekDay(now)
    BY <1>t, <1>n, <1>5 DEF CheckerLap, history, locals, OnTime, BrokenDown
  <2>2. Drifts \/ \E u \in Nat : HeadsFor(u)
    BY <1>1, <2>1 DEF Towards, OffSteps
  <2>3. ASSUME NEW u \in Nat, HeadsFor(u) PROVE HeadsFor(u)'
    <3>1. NextRule(u)'
      BY <1>1, <2>1, <2>3, NextFrame DEF HeadsFor
    <3>2. upcoming_off_rule.found
      BY <1>2, <2>3 DEF HeadsFor, Course
    <3>3. Course(u)'
      BY <1>1, <2>1, <2>3, <3>2 DEF HeadsFor, Course, ModeAt
    <3> QED
      BY <2>1, <3>1, <3>2, <3>3 DEF HeadsFor, Chosen, InLastLap
  <2>4. ASSUME Drifts PROVE Drifts'
    <3>1. ~ upcoming_off_rule.found
      BY <1>2, <2>4 DEF Drifts
    <3> QED
      BY <1>1, <2>1, <2>4, <3>1 DEF Drifts, Nothing, OpenAfter, Open
  <2> QED
    BY <2>2, <2>3, <2>4 DEF Towards
<1>9. CASE CheckerDay
  <2>1. /\ pc.checker = "day" /\ pc'.checker = "measure" /\ UNCHANGED <<wakeAt, served>>
        /\ UNCHANGED <<upcoming_off_rule, rtcwake_args, time_remaining>>
        /\ wakeAt = now /\ last_week_day' = timeinfo.wday
        /\ last_week_day # timeinfo.wday => query'["checker"] \in OffSteps
    BY <1>t, <1>n, <1>9 DEF CheckerDay, shared, history, OnTime, day_changed, Call, OffSteps, Actors
  <2>2. Drifts
    BY <1>1, <2>1 DEF Towards, HeadsFor, Course, OffSteps
  <2>3. ASSUME query'["checker"] \notin OffSteps PROVE Drifts'
    <3>1. ~ upcoming_off_rule.found /\ last_week_day' = WeekDay(now) /\ Date(foundAt) = Date(now)
      BY <1>2, <2>1, <2>2, <2>3 DEF Drifts
    <3> QED
      BY <1>1, <2>1, <2>2, <3>1 DEF Drifts, Nothing, OpenAfter, Open
  <2> QED
    BY <2>3 DEF Towards
<1>6. CASE CheckerMeasure
  <2>1. /\ pc.checker = "measure" /\ UNCHANGED <<served, upcoming_off_rule, last_week_day>>
        /\ wakeAt = now
        /\ \/ /\ Near /\ pc'.checker = "decide" /\ time_remaining' = Remaining
              /\ UNCHANGED wakeAt /\ query'["checker"] = "on_begin"
           \/ ~ Near /\ pc'.checker = "lap" /\ wakeAt' = now + CheckDelay
    BY <1>t, <1>n, <1>6 DEF CheckerMeasure, OnTime, Call, shared, Actors
  <2>n. upcoming_off_rule.notification_time = db.notification_time
    BY <2>1 DEF Noted
  <2>2. Drifts \/ \E u \in Nat : HeadsFor(u)
    BY <1>1, <2>1 DEF Towards, OffSteps
  <2>3. ASSUME NEW u \in Nat, HeadsFor(u) PROVE HeadsFor(u)'
    <3>1. NextRule(u)'
      BY <1>1, <2>1, <2>3, NextFrame DEF HeadsFor
    <3>2. /\ upcoming_off_rule.found /\ upcoming_off_rule.rule_time = u /\ now <= u
          /\ ModeAt(upcoming_off_rule.mode, u)
          /\ ShortNotice => wakeAt + db.notification_time <= u \/ wakeAt <= foundAt + 1
      BY <1>2, <2>1, <2>3 DEF HeadsFor, Course, NextRule
    <3>3. Remaining = u - now
      BY <1>n, <3>2 DEF Remaining
    <3>4. Course(u)'
      <4>1. CASE Near /\ pc'.checker = "decide" /\ time_remaining' = Remaining /\ UNCHANGED wakeAt
        BY <1>n, <1>1, <2>1, <2>n, <3>2, <3>3, <4>1 DEF Course, Near, ModeAt
      <4>2. CASE ~ Near /\ pc'.checker = "lap" /\ wakeAt' = now + CheckDelay
        BY <1>n, <1>1, <2>1, <2>n, <3>2, <3>3, <4>2 DEF Course, Near, ModeAt
      <4> QED
        BY <2>1, <4>1, <4>2
    <3>5. Chosen(u)'
      BY <2>1 DEF Chosen, InLastLap
    <3> QED
      BY <3>1, <3>4, <3>5 DEF HeadsFor
  <2>4. ASSUME Drifts PROVE Drifts'
    <3>1. /\ ~ Near /\ pc'.checker = "lap" /\ wakeAt' = now + CheckDelay
          /\ last_week_day = WeekDay(now) /\ Date(foundAt) = Date(now)
      BY <1>2, <2>1, <2>4 DEF Drifts, Near
    <3>2. now < At(Date(now) + 1, 0) /\ At(Date(now) + 1, 0) \in Int
      BY <1>n, DayOrder, AtInverse, DayLengthAssumption DEF Minutes
    <3>3. WeekDay(wakeAt') = WeekDay(now) => Date(wakeAt') = Date(now)
      BY <1>n, <3>1, <3>2, DayChange DEF ShortLaps
    <3> QED
      BY <1>n, <1>1, <2>1, <2>4, <3>1, <3>2, <3>3 DEF Drifts, Nothing, OpenAfter, Open
  <2> QED
    BY <2>2, <2>3, <2>4 DEF Towards
<1>7. CASE CheckerDecide \/ CheckerNotify
  <2>1. PICK u \in Nat : HeadsFor(u)
    BY <1>1, <1>7 DEF CheckerDecide, CheckerNotify, Towards, Drifts, OffSteps
  <2>2. /\ upcoming_off_rule.found /\ upcoming_off_rule.rule_time = u
        /\ ModeAt(upcoming_off_rule.mode, u)
        /\ NextRule(u) /\ Course(u) /\ Chosen(u) /\ now <= u
    BY <1>2, <2>1 DEF HeadsFor, Course, NextRule
  <2>3. /\ UNCHANGED <<served, upcoming_off_rule, query>>
        /\ rtcwake_args'.mode = rtcwake_args.mode /\ wakeAt = now
    BY <1>t, <1>n, <1>7 DEF CheckerDecide, CheckerNotify, history, shared, TypeOK, SharedOK, OnTime
  <2>4. NextRule(u)'
    BY <1>1, <2>2, <2>3, NextFrame
  <2>5. Chosen(u)'
    BY <1>t, <1>1, <1>7, <2>2, <2>3 DEF Chosen, InLastLap, CheckerDecide, CheckerNotify, ModeAt
  <2>6. Course(u)'
    <3>1. CASE CheckerDecide
      <4>1. /\ pc.checker = "decide" /\ pc'.checker = "notify"
            /\ wakeAt' = IF time_remaining > upcoming_off_rule.notification_time
                         THEN now + (time_remaining - upcoming_off_rule.notification_time)
                         ELSE now
        BY <1>t, <3>1 DEF CheckerDecide
      <4>2. upcoming_off_rule.notification_time = db.notification_time
        BY <4>1 DEF Noted
      <4> QED
        BY <1>n, <1>1, <2>2, <2>3, <4>1, <4>2 DEF Course, ModeAt
    <3>2. CASE CheckerNotify
      <4>1. pc'.checker = "trigger" /\ wakeAt' = now + Remaining
        BY <1>t, <3>2 DEF CheckerNotify, WaitForRule
      <4>2. Remaining = u - now
        BY <1>n, <2>2 DEF Remaining
      <4> QED
        BY <1>n, <1>1, <2>2, <2>3, <4>1, <4>2 DEF Course, ModeAt
    <3> QED
      BY <1>7, <3>1, <3>2
  <2> QED
    BY <2>4, <2>5, <2>6 DEF HeadsFor, Towards
<1>8. CASE CheckerTrigger \/ CheckerQuits
  BY <1>t, <1>8 DEF CheckerTrigger, CheckerQuits, Towards
<1> QED
  BY <1>3, <1>4, <1>5, <1>6, <1>7, <1>8, <1>9 DEF CheckerMoves

LEMMA StepStarting ==
  ASSUME Calm, NoSchedule, QueriesSucceed, RuleOrder, Fresh', Ready', UNCHANGED db, Alone, Starting,
         [Next]_vars
  PROVE  Starting'
<1>t. TypeOK /\ Labels /\ ControlOK
  BY DEF RuleOrder, InOrder, TypeOK
<1> USE DEF Starting, ControlOK, Actors
<1>1. CASE Query("checker")
  <2>1. UNCHANGED <<pc, last_week_day>>
    BY <1>1, <1>t, QueryFrame
  <2>2. ASSUME pc.checker = "sync", query'["checker"] \notin OffSteps PROVE foundAt' = now'
    <3>1. query["checker"] \in OffSteps
      BY <1>t, <1>1, <2>2, QueryFrame DEF Labels
    <3> QED
      BY <1>1, <2>2, <3>1, QueryEnds
  <2> QED
    BY <2>1, <2>2
<1>2. CASE Query("listener")
  <2>1. UNCHANGED pc /\ CheckerAsleep
    BY <1>2, <1>t, QueryFrame, QueriesAlone DEF RuleOrder, OffSteps, OnSteps, CustomSteps
  <2> QED
    BY <2>1 DEF CheckerAsleep
<1>3. CASE Created
  BY <1>3, <1>t DEF Created, steady, Labels
<1>4. CASE Aside
  BY <1>4 DEF Aside, steady
<1>5. CASE Tick \/ EditDatabase
  <2>1. CASE Tick
    <3>1. pc.checker \notin {"new", "start", "sync"} /\ UNCHANGED pc
      BY <1>t, <2>1, BlockedRests DEF Tick, Calm
    <3> QED
      BY <3>1
  <2>2. CASE EditDatabase
    BY <2>2 DEF EditDatabase, locals
  <2> QED
    BY <1>5, <2>1, <2>2
<1>6. CASE Hears
  BY <1>6, <1>t DEF Hears, Call
<1>7. CASE CheckerMoves /\ ~ CheckerCancelled
  <2>1. CASE CheckerStart
    BY <2>1, <1>t DEF CheckerStart, Goto, Call, OffSteps, locals, Resumes, Running
  <2>2. CASE ~ CheckerStart
    <3>1. pc'.checker \notin {"new", "start", "sync"}
      BY <1>7, <1>t, <2>2 DEF CheckerMoves, CheckerSync, CheckerLap, CheckerDay, CheckerMeasure,
         CheckerDecide, CheckerNotify, CheckerTrigger, CheckerQuits, CheckerRetry, Goto, Resumes,
         Running
    <3> QED
      BY <3>1
  <2> QED
    BY <2>1, <2>2
<1> QED
  BY <1>t, <1>1, <1>2, <1>3, <1>4, <1>5, <1>6, <1>7, AloneKinds

\* Whenever the checker asks again, no rule that is still to be triggered has
\* passed: at the start, when the day has changed, and after a rule was dropped.
LEMMA StepSearching ==
  ASSUME Calm, NoSchedule, ShortLaps, RuleOrder, Ready, UNCHANGED db, Alone, Starting, Towards,
         Triggered, Searching, [Next]_vars
  PROVE  Searching'
<1>t. TypeOK /\ Labels /\ ControlOK /\ OnTime
  BY DEF RuleOrder, InOrder, TypeOK
<1>n. now \in Nat /\ wakeAt \in Nat /\ StartTime \in Nat
  BY <1>t, Types
<1> USE DEF ControlOK, Actors
<1>1. CASE Query("checker")
  <2>1. UNCHANGED <<now, pc, served, last_week_day>>
        /\ (query'["checker"] \in OffSteps => query["checker"] \in OffSteps)
    BY <1>1, <1>t, QueryFrame DEF Labels, OffSteps, OnSteps
  <2> QED
    BY <2>1 DEF Searching, OpenAfter, Open
<1>2. CASE Query("listener")
  <2>1. query'["checker"] = "none"
    BY <1>2, <1>t, QueryFrame, QueriesAlone DEF RuleOrder, OffSteps, OnSteps, CustomSteps
  <2> QED
    BY <2>1 DEF Searching, OffSteps
<1>3. CASE Created
  BY <1>3, <1>t DEF Created, steady, Labels, Searching, OffSteps
<1>4. CASE Aside \/ Hears
  <2>1. /\ UNCHANGED <<now, served, last_week_day>> /\ pc'.checker = pc.checker
        /\ query'["checker"] = query["checker"]
    BY <1>4, <1>t DEF Aside, steady, Hears, Call
  <2> QED
    BY <2>1 DEF Searching, OpenAfter, Open
<1>5. CASE Tick \/ EditDatabase
  <2>1. CASE Tick
    <3>1. query'["checker"] = "none"
      BY <1>t, <2>1, BlockedRests DEF Tick, Calm
    <3> QED
      BY <3>1 DEF Searching, OffSteps
  <2>2. CASE EditDatabase
    BY <2>2 DEF EditDatabase, locals, Searching, OpenAfter, Open
  <2> QED
    BY <1>5, <2>1, <2>2
<1>6. CASE CheckerMoves /\ ~ CheckerCancelled
  <2>1. query["checker"] = "none" /\ query["listener"] \notin OffSteps /\ UNCHANGED now
    BY <1>t, <1>6, CheckerFrame, CheckerIsAwake
       DEF RuleOrder, InOrder, Solo, ListenerWorks, OffSteps
  <2> USE DEF Goto, Call, Wakes, Resumes, Running
  <2>2. CASE CheckerStart
    <3>1. now = StartTime /\ pc'.checker = "sync" /\ UNCHANGED <<now, served>>
      BY <1>t, <2>2 DEF CheckerStart, OnTime, world, history
    <3> QED
      BY <3>1 DEF Searching, OpenAfter, Open
  <2>3. CASE CheckerDay
    <3>1. /\ pc.checker = "day" /\ wakeAt = now /\ UNCHANGED served /\ pc'.checker = "measure"
          /\ last_week_day' = timeinfo.wday
      BY <1>t, <1>n, <2>1, <2>3 DEF CheckerDay, OnTime, history, OffSteps
    <3>2. Drifts /\ timeinfo.wday = WeekDay(now)
      BY <2>1, <3>1 DEF Towards, HeadsFor, Course, Drifts, OffSteps
    <3>3. OpenAfter(now)
      BY <1>t, <3>1, <3>2, DriftsAhead
    <3> QED
      BY <2>1, <3>1, <3>2, <3>3 DEF Searching, OpenAfter, Open
  <2>4. CASE CheckerRetry
    <3>1. pc.checker = "retry" /\ wakeAt = now /\ UNCHANGED served /\ pc'.checker = "lap"
      BY <1>t, <1>n, <2>4 DEF CheckerRetry, OnTime, history
    <3> QED
      BY <2>1, <3>1 DEF Triggered, Searching, OpenAfter, Open
  <2>5. CASE ~ (CheckerStart \/ CheckerDay \/ CheckerRetry)
    <3>1. query'["checker"] \notin OffSteps
      BY <1>6, <1>t, <2>1, <2>5 DEF CheckerMoves, CheckerSync, CheckerLap, CheckerMeasure,
         CheckerDecide, CheckerNotify, CheckerTrigger, CheckerQuits, OffSteps
    <3> QED
      BY <3>1 DEF Searching
  <2> QED
    BY <2>2, <2>3, <2>4, <2>5
<1> QED
  BY <1>t, <1>1, <1>2, <1>3, <1>4, <1>5, <1>6, AloneKinds

\* What the course depends on.
LEMMA TowardsFrame ==
  ASSUME Towards, UNCHANGED <<now, db, served, wakeAt, time_remaining, foundAt, upcoming_off_rule,
         rtcwake_args, timeinfo, last_week_day>>, pc'.checker = pc.checker,
         query'["checker"] = query["checker"], clock'["checker"] = clock["checker"],
         query["listener"] \in OffSteps => query'["listener"] \in OffSteps
  PROVE  Towards'
<1>1. \A u \in Nat : HeadsFor(u) => HeadsFor(u)'
  <2> SUFFICES ASSUME NEW u \in Nat, HeadsFor(u) PROVE HeadsFor(u)'
    OBVIOUS
  <2>1. NextRule(u)'
    BY NextFrame DEF HeadsFor
  <2>2. Course(u)'
    BY DEF HeadsFor, Course, ModeAt
  <2>3. Chosen(u)'
    BY DEF HeadsFor, Chosen, InLastLap, ModeAt
  <2> QED
    BY <2>1, <2>2, <2>3 DEF HeadsFor
<1>2. Drifts => Drifts'
  BY DEF Drifts, Nothing, OpenAfter, Open
<1> QED
  BY <1>1, <1>2 DEF Towards

\* Time passes only up to the end of the checker's sleep.
LEMMA TickTowards ==
  ASSUME Calm, RuleOrder, UNCHANGED db, Towards, Tick
  PROVE  Towards'
<1>t. TypeOK
  BY DEF RuleOrder, InOrder
<1>1. /\ CheckerAsleep /\ now' = now + 1
      /\ UNCHANGED <<pc, query, served, wakeAt, time_remaining, foundAt, upcoming_off_rule,
                     rtcwake_args, clock, last_week_day>>
  BY <1>t, BlockedRests DEF Tick, Calm, shared, locals, history
<1>n. now \in Nat /\ wakeAt \in Nat
  BY <1>t, Types
<1> SUFFICES ASSUME pc.checker \in {"lap", "day", "measure", "decide", "notify", "trigger"}
             PROVE  Drifts' \/ \E u \in Nat : HeadsFor(u)'
  BY <1>1 DEF Towards
<1>2. now < wakeAt /\ pc.checker \in {"lap", "notify", "trigger"} /\ query["checker"] = "none"
  BY <1>1 DEF CheckerAsleep
<1>3. Drifts \/ \E u \in Nat : HeadsFor(u)
  BY <1>2 DEF Towards, OffSteps
<1>4. Drifts => Drifts'
  BY <1>1, <1>2 DEF Drifts, Nothing, OpenAfter, Open
<1>5. ASSUME NEW u \in Nat, HeadsFor(u) PROVE HeadsFor(u)'
  <2>1. now + 1 <= u
    BY <1>n, <1>2, <1>5 DEF HeadsFor, Course
  <2>2. /\ Date(now) \in Nat /\ Date(now + 1) \in Nat /\ Date(u) \in Nat
        /\ Date(now) <= Date(now + 1)
    BY <1>n, DayOrder
  <2>3. NextRule(u)'
    BY <1>n, <1>1, <1>5, <2>1, <2>2 DEF HeadsFor, NextRule, OpenAfter, Open
  <2>4. Course(u)'
    BY <1>1, <1>2, <1>5 DEF HeadsFor, Course, ModeAt
  <2>5. Chosen(u)'
    BY <1>1, <1>5 DEF HeadsFor, Chosen, InLastLap, ModeAt
  <2> QED
    BY <2>3, <2>4, <2>5 DEF HeadsFor
<1> QED
  BY <1>3, <1>4, <1>5

LEMMA StepTowards ==
  ASSUME Calm, NoSchedule, QueriesSucceed, ShortLaps, RuleOrder, Fresh', Ready, Ready',
         UNCHANGED db, Alone, Noted, Starting, Searching, Towards, ~ EditDatabase, [Next]_vars
  PROVE  Towards'
<1>t. TypeOK /\ Labels /\ ControlOK
  BY DEF RuleOrder, InOrder, TypeOK
<1> USE DEF Actors
<1>1. CASE Query("checker")
  <2>1. CASE query'["checker"] \in OffSteps
    BY <2>1 DEF Towards
  <2>2. CASE query["checker"] \in OffSteps /\ query'["checker"] \notin OffSteps
    BY <1>1, <2>2, SearchEnds
  <2>3. CASE query["checker"] \in OnSteps
    BY <1>1, <2>3, LastLapTowards
  <2> QED
    BY <1>1, <1>t, <2>1, <2>2, <2>3, QueryFrame DEF Labels
<1>2. CASE Query("listener") /\ query["listener"] \in OffSteps
  <2>1. CASE query'["listener"] \notin OffSteps
    BY <1>2, <2>1, ListenerEnds
  <2>2. CASE query'["listener"] \in OffSteps
    <3>1. /\ UNCHANGED <<now, served, wakeAt, time_remaining, last_week_day, pc, rtcwake_args>>
          /\ query'["checker"] = query["checker"] /\ clock'["checker"] = clock["checker"]
      BY <1>2, <1>t, QueryFrame
    <3>2. foundAt' = foundAt
      BY <1>2, <1>t, <2>2, OffQuerySteps DEF OffBegin, OffConfig, OffClock, OffToday, OffTomorrow,
         QueryStep, OffSteps
    <3>3. query["checker"] = "none" /\ CheckerAsleep
      BY <1>2, QueriesAlone DEF RuleOrder, OffSteps
    <3>4. \A u \in Nat : HeadsFor(u) => HeadsFor(u)'
      <4> SUFFICES ASSUME NEW u \in Nat, HeadsFor(u) PROVE HeadsFor(u)'
        OBVIOUS
      <4>1. NextRule(u)'
        BY <3>1, NextFrame DEF HeadsFor
      <4>2. Course(u)'
        BY <2>2, <3>1, <3>2, <3>3 DEF HeadsFor, Course, CheckerAsleep
      <4>3. Chosen(u)'
        BY <3>1 DEF HeadsFor, Chosen, InLastLap, ModeAt
      <4> QED
        BY <4>1, <4>2, <4>3 DEF HeadsFor
    <3>5. Drifts => Drifts'
      BY <2>2, <3>1, <3>2, <3>3 DEF Drifts, Nothing, OpenAfter, Open, CheckerAsleep
    <3> QED
      BY <3>1, <3>4, <3>5 DEF Towards
  <2> QED
    BY <2>1, <2>2
<1>3. CASE Created
  BY <1>3, <1>t DEF Created, Towards
<1>4. CASE Aside \/ Hears
  <2>1. /\ UNCHANGED <<now, served, wakeAt, time_remaining, foundAt, upcoming_off_rule,
                       rtcwake_args, timeinfo, last_week_day, clock>>
        /\ pc'.checker = pc.checker /\ query'["checker"] = query["checker"]
        /\ query["listener"] \in OffSteps => query'["listener"] \in OffSteps
    BY <1>4, <1>t DEF Aside, steady, Hears, Call, OffSteps, ControlOK
  <2> QED
    BY <2>1, TowardsFrame
<1>5. CASE Tick
  BY <1>5, TickTowards
<1>6. CASE CheckerMoves /\ ~ CheckerCancelled
  BY <1>6, CheckerTowards
<1> QED
  BY <1>t, <1>1, <1>2, <1>3, <1>4, <1>5, <1>6, AloneKinds

LEMMA StepTriggered ==
  ASSUME Calm, NoSchedule, RuleOrder, Ready, UNCHANGED db, Alone, Towards, Triggered,
         ~ EditDatabase, [Next]_vars
  PROVE  Triggered'
<1>t. TypeOK /\ Labels /\ ControlOK
  BY DEF RuleOrder, InOrder, TypeOK
<1>n. now \in Nat
  BY <1>t, Types
<1> USE DEF ControlOK, Actors
<1>1. CASE Query("checker")
  <2>1. pc'.checker \notin {"retry", "quit", "done"}
    BY <1>1, <1>t, QueryFrame DEF Labels
  <2> QED
    BY <2>1 DEF Triggered
<1>2. CASE Query("listener") /\ query["listener"] \in OffSteps
  <2>1. /\ UNCHANGED <<now, pc, wakeAt, served, rtcwake_args>>
        /\ clock'["checker"] = clock["checker"]
    BY <1>2, <1>t, QueryFrame
  <2> QED
    BY <2>1 DEF Triggered, OpenAfter, Open, ModeAt
<1>3. CASE Created
  BY <1>3, <1>t DEF Created, Triggered
<1>4. CASE Aside \/ Hears
  <2>1. UNCHANGED <<now, wakeAt, served, rtcwake_args, clock>> /\ pc'.checker = pc.checker
    BY <1>4 DEF Aside, steady, Hears
  <2> QED
    BY <2>1 DEF Triggered, OpenAfter, Open, ModeAt
<1>5. CASE Tick
  <2>1. pc.checker \notin {"quit", "done"} /\ UNCHANGED <<pc, wakeAt, served>>
    BY <1>t, <1>5, DoneInTime, BlockedRests DEF Tick, Calm, locals, history
  <2> QED
    BY <2>1 DEF Triggered, OpenAfter, Open
<1>6. CASE CheckerTrigger
  <2>1. /\ UNCHANGED <<now, rtcwake_args, clock>> /\ served' = served \cup {now}
        /\ pc'.checker = "retry" => wakeAt' = now + 1
    BY <1>t, <1>6 DEF CheckerTrigger, world, shared, Goto
  <2>2. HeadsFor(now) /\ pc.checker = "trigger" /\ query["checker"] = "none"
    BY <1>6, AtTheRule
  <2>3. ASSUME NEW v \in Nat, Open(v)' PROVE v > now + 1
    <3>1. Open(v) /\ v # now /\ v - 1 # now
      BY <2>1, <2>3 DEF Open
    <3>2. v > now - 1
      BY <2>2, <3>1 DEF HeadsFor, NextRule, OpenAfter
    <3> QED
      BY <1>n, <3>1, <3>2
  <2>4. /\ ModeAt(rtcwake_args.mode, now)
        /\ now <= clock["checker"] + CheckDelay + db.notification_time + 1
    BY <2>2 DEF HeadsFor, Chosen, InLastLap
  <2>5. OpenAfter(now + 1)' /\ OpenAfter(now)'
    BY <1>n, <2>1, <2>3 DEF OpenAfter
  <2>6. ModeAt(rtcwake_args.mode, now)'
    BY <2>1, <2>4 DEF ModeAt
  <2>7. now' <= clock'["checker"] + CheckDelay + db'.notification_time + 1
    BY <2>1, <2>4
  <2>8. pc'.checker = "retry" => OpenAfter(wakeAt)'
    BY <2>1, <2>5 DEF OpenAfter
  <2> QED
    BY <2>5, <2>6, <2>7, <2>8 DEF Triggered
<1>7. CASE CheckerQuits
  <2>1. /\ UNCHANGED <<now, served, rtcwake_args, clock>> /\ pc.checker = "quit"
        /\ pc'.checker \in {"quit", "done"}
    BY <1>7, <1>t DEF CheckerQuits, world, shared, locals, Goto, Resumes, Running
  <2> QED
    BY <2>1 DEF Triggered, OpenAfter, Open, ModeAt
<1>8. CASE CheckerMoves /\ ~ CheckerCancelled /\ ~ CheckerTrigger /\ ~ CheckerQuits
  <2>1. pc'.checker \notin {"retry", "quit", "done"}
    BY <1>8, <1>t DEF CheckerMoves, CheckerStart, CheckerSync, CheckerLap, CheckerDay,
       CheckerMeasure, CheckerDecide, CheckerNotify, CheckerRetry, Goto
  <2> QED
    BY <2>1 DEF Triggered
<1> QED
  BY <1>t, <1>1, <1>2, <1>3, <1>4, <1>5, <1>6, <1>7, <1>8, AloneKinds

LEMMA StepLookedUp ==
  ASSUME Calm, NoSchedule, QueriesSucceed, MaxEdits = 0, RuleOrder, OnQuery, Alone, LookedUp,
         UNCHANGED db, ~ EditDatabase, [Next]_vars
  PROVE  LookedUp'
<1>t. TypeOK /\ Labels /\ ControlOK /\ InOrder /\ edits = 0
  BY DEF RuleOrder, InOrder, TypeOK, WorldOK
<1>n. now \in Nat /\ clock["checker"] \in Nat
  BY <1>t, Types DEF Actors
<1> USE DEF Actors
<1>1. CASE Query("checker") /\ query["checker"] \in OnSteps
  <2>1. UNCHANGED <<now, pc>> /\ pc.checker = "decide"
    BY <1>1, <1>t, QueryFrame DEF Labels
  <2>2. CASE /\ query["checker"] = "on_begin" /\ query'["checker"] = "on_config"
             /\ ~ rtcwake_args'.found
    BY <2>2 DEF LookedUp
  <2>3. CASE /\ query["checker"] \in {"on_config", "on_clock"}
             /\ rtcwake_args'.found = rtcwake_args.found
    BY <2>3 DEF LookedUp
  <2>4. CASE /\ query["checker"] \in {"on_today", "on_later"}
             /\ UNCHANGED <<rtcwake_args, clock>>
    BY <2>4 DEF LookedUp
  <2>5. CASE /\ query["checker"] \in {"on_today", "on_later"} /\ query'["checker"] = "on_validate"
             /\ OnToday("checker") \/ OnLater("checker")
             /\ UNCHANGED clock
    <3>1. clock["checker"] = now
      BY <2>5 DEF OnQuery
    <3>2. IsNextOccurrence(db.turnon, now, rtcwake_args'.wake)
      BY <1>t, <2>5, OnFinds
    <3> QED
      BY <1>n, <2>1, <2>5, <3>1, <3>2 DEF LookedUp
  <2>6. CASE /\ query["checker"] \in {"on_validate", "on_compare"}
             /\ query'["checker"] \in {"on_compare", "none"}
             /\ UNCHANGED <<rtcwake_args, clock>>
    BY <2>1, <2>6 DEF LookedUp
  <2> QED
    BY <1>1, <1>t, <2>2, <2>3, <2>4, <2>5, <2>6, LastLapQuery
<1>2. CASE Query("checker") /\ query["checker"] \in OffSteps
  <2>1. pc'.checker \in {"sync", "lap", "measure"} /\ query'["checker"] \in OffSteps \cup {"none"}
    BY <1>2, <1>t, QueryFrame DEF Labels
  <2> QED
    BY <2>1 DEF LookedUp, OffSteps
<1>3. CASE Query("listener") /\ query["listener"] \in OffSteps
  <2>1. /\ UNCHANGED <<now, pc, rtcwake_args>> /\ clock'["checker"] = clock["checker"]
        /\ query'["checker"] = query["checker"]
    BY <1>3, <1>t, QueryFrame
  <2> QED
    BY <2>1 DEF LookedUp
<1>4. CASE Created
  BY <1>4, <1>t DEF Created, steady, LookedUp, Labels, OnSteps, ControlOK
<1>5. CASE Aside \/ Hears
  <2>1. /\ UNCHANGED <<now, rtcwake_args, clock>> /\ pc'.checker = pc.checker
        /\ query'["checker"] = query["checker"]
    BY <1>5, <1>t DEF Aside, steady, Hears, Call, ControlOK
  <2> QED
    BY <2>1 DEF LookedUp
<1>6. CASE Tick
  <2>1. UNCHANGED <<pc, rtcwake_args, clock, query>> /\ now' = now + 1
    BY <1>6 DEF Tick, shared, locals
  <2> QED
    BY <1>n, <2>1 DEF LookedUp
<1>7. CASE CheckerMoves /\ ~ CheckerCancelled
  <2>1. UNCHANGED <<now, clock>> /\ query["checker"] = "none"
    BY <1>7, <1>t, CheckerFrame
  <2> USE DEF Goto, Call, Wakes, Resumes, Running, ControlOK
  <2>2. CASE CheckerMeasure
    <3>1. /\ query'["checker"] \in {"none", "on_begin"}
          /\ pc'.checker \in {"decide", "notify", "trigger", "quit", "done"} =>
               query'["checker"] = "on_begin"
      BY <1>t, <2>1, <2>2 DEF CheckerMeasure
    <3> QED
      BY <3>1 DEF LookedUp
  <2>3. CASE CheckerStart \/ CheckerSync \/ CheckerLap \/ CheckerDay \/ CheckerRetry
    <3>1. /\ pc'.checker \in {"sync", "lap", "day", "measure"}
          /\ query'["checker"] \in {"none", "off_begin"}
      BY <1>t, <2>1, <2>3 DEF CheckerStart, CheckerSync, CheckerLap, CheckerDay, CheckerRetry
    <3> QED
      BY <3>1 DEF LookedUp
  <2>4. CASE CheckerDecide \/ CheckerNotify \/ CheckerTrigger \/ CheckerQuits
    <3>1. /\ pc.checker \in {"decide", "notify", "trigger", "quit"} /\ UNCHANGED query
          /\ rtcwake_args'.found = rtcwake_args.found /\ rtcwake_args'.wake = rtcwake_args.wake
      BY <1>t, <2>4 DEF CheckerDecide, CheckerNotify, CheckerTrigger, CheckerQuits, shared, TypeOK,
         SharedOK
    <3> QED
      BY <2>1, <3>1 DEF LookedUp
  <2> QED
    BY <1>7, <2>2, <2>3, <2>4 DEF CheckerMoves
<1>8. query["checker"] \notin CustomSteps
  BY <1>t DEF Labels
<1> QED
  BY <1>t, <1>1, <1>2, <1>3, <1>4, <1>5, <1>6, <1>7, <1>8, AloneKinds, QueryFrame

-----------------------------------------------------------------------------
(* What follows for the week.                                              *)

\* Nobody but the checker ends the wait, and the rules stay as they are.
Undisturbed == NoSchedule /\ MaxEdits = 0

Week == Alone /\ Ready /\ Noted /\ Starting /\ Searching /\ Towards /\ Triggered /\ LookedUp

LEMMA InitWeek == Init => OnQuery /\ Week
<1> SUFFICES ASSUME Init PROVE OnQuery /\ Week
  OBVIOUS
<1>1. Alone /\ Noted /\ Starting /\ Searching /\ Triggered /\ LookedUp
  BY DEF Init, Alone, Noted, Starting, Searching, Triggered, LookedUp, OffSteps, Actors
<1>2. Ready
  BY SchedulerAssumption DEF Init, Ready
<1>3. Towards
  BY DEF Init, Towards
<1> QED
  BY <1>1, <1>2, <1>3, InitOnQuery DEF Week

LEMMA StepWeek ==
  ASSUME Calm, QueriesSucceed, Undisturbed, ShortLaps, RuleOrder, RuleOrder', OnQuery, Week,
         [Next]_vars
  PROVE  OnQuery' /\ Week'
<1>t. TypeOK /\ Labels /\ InOrder /\ ~ stale
  BY DEF RuleOrder, InOrder, Week, Ready
<1>1. UNCHANGED db /\ ~ EditDatabase
  BY <1>t, StillStep DEF Undisturbed, EditDatabase, TypeOK, WorldOK
<1>2. Alone' /\ OnQuery'
  BY <1>t, AloneKinds, StepOnQuery DEF Undisturbed, Week
<1>3. Ready'
  BY StepReady DEF Undisturbed, Week
<1>4. Noted'
  BY StepNoted DEF Undisturbed, Week
<1>5. Starting'
  BY <1>1, <1>3, StepStarting DEF Undisturbed, Week, RuleOrder
<1>6. Searching'
  BY <1>1, StepSearching DEF Undisturbed, Week
<1>7. Towards'
  BY <1>1, <1>3, StepTowards DEF Undisturbed, Week, RuleOrder
<1>8. Triggered'
  BY <1>1, StepTriggered DEF Undisturbed, Week
<1>9. LookedUp'
  BY <1>1, StepLookedUp DEF Undisturbed, Week
<1> QED
  BY <1>2, <1>3, <1>4, <1>5, <1>6, <1>7, <1>8, <1>9 DEF Week

LEMMA WeekInvariant ==
  ASSUME Calm, QueriesSucceed, Undisturbed, ShortLaps
  PROVE  Spec => [](RuleOrder /\ Week)
<1>1. Init => OnQuery /\ Week
  BY InitWeek
<1>2. RuleOrder /\ RuleOrder' /\ (OnQuery /\ Week) /\ [Next]_vars => (OnQuery /\ Week)'
  BY StepWeek
<1> QED
  BY <1>1, <1>2, RuleOrderInvariant, PTL DEF Spec

\* The checker triggers a turn off rule (lines 212-239) only in a minute at which
\* the database has one: neither laps, nor changes of the day, nor dropped rules
\* and repeated queries lead it anywhere else.
THEOREM FiresAtRulesOnly ==
  ASSUME Calm, QueriesSucceed, Undisturbed, ShortLaps
  PROVE  Spec => []FiresOnlyAtRules
<1>1. Init => FiresOnlyAtRules
  BY DEF Init, FiresOnlyAtRules
<1>2. (RuleOrder /\ Week) /\ FiresOnlyAtRules /\ [Next]_vars => FiresOnlyAtRules'
  <2> SUFFICES ASSUME RuleOrder, Week, FiresOnlyAtRules, [Next]_vars
               PROVE  FiresOnlyAtRules'
    OBVIOUS
  <2>1. UNCHANGED db /\ (served' = served \/ CheckerTrigger)
    BY StillStep DEF Undisturbed, Week, Ready, RuleOrder, InOrder
  <2>2. CheckerTrigger => served' = served \cup {now} /\ Occurs(db.turnoff, now)
    BY AtTheRule DEF CheckerTrigger, Week, HeadsFor, NextRule
  <2> QED
    BY <2>1, <2>2 DEF FiresOnlyAtRules
<1> QED
  BY <1>1, <1>2, WeekInvariant, PTL DEF Spec

\* No turn off rule of any week is slept through (lines 163-231): for every set
\* of rules, and however the laps fall, each is triggered in its minute, or comes
\* in the minute after one that was dropped.
THEOREM MissesNoRule ==
  ASSUME Calm, QueriesSucceed, Undisturbed, ShortLaps
  PROVE  Spec => []NoRuleMissed
<1>1. RuleOrder /\ Week => NoRuleMissed
  <2> SUFFICES ASSUME RuleOrder, Week, NEW t \in 0..(now - 1), Open(t)
               PROVE  FALSE
    BY DEF NoRuleMissed, Open
  <2>t. TypeOK /\ Labels /\ OnTime /\ Alone /\ Ready
    BY DEF RuleOrder, InOrder, Week
  <2>n. now \in Nat /\ wakeAt \in Nat /\ StartTime \in Nat /\ t \in Nat /\ t < now
    BY <2>t, Types
  <2>1. CASE pc.checker \in {"new", "start", "sync"}
    BY <2>t, <2>n, <2>1 DEF OnTime, Open
  <2>2. CASE query["checker"] \in OffSteps
    BY <2>n, <2>2 DEF Week, Searching, OpenAfter
  <2>3. CASE /\ pc.checker \in {"lap", "day", "measure", "decide", "notify", "trigger"}
             /\ query["checker"] \notin OffSteps
    <3>1. CASE Drifts
      <4>1. now <= wakeAt
        BY <2>t, <2>n, <3>1 DEF Drifts, OnTime
      <4>2. OpenAfter(wakeAt)
        BY <2>t, <3>1, DriftsAhead
      <4> QED
        BY <2>n, <4>1, <4>2 DEF OpenAfter
    <3>2. CASE \E u \in Nat : HeadsFor(u)
      BY <2>n, <3>2 DEF HeadsFor, NextRule, OpenAfter
    <3> QED
      BY <2>3, <3>1, <3>2 DEF Week, Towards
  <2>4. CASE pc.checker = "retry"
    BY <2>t, <2>n, <2>4 DEF Week, Triggered, OpenAfter, OnTime
  <2>5. CASE pc.checker \in {"quit", "done"}
    BY <2>n, <2>5 DEF Week, Triggered, OpenAfter
  <2> QED
    BY <2>t, <2>1, <2>2, <2>3, <2>4, <2>5 DEF Alone, TypeOK, ControlOK, CheckerSteps
<1> QED
  BY <1>1, WeekInvariant, PTL

\* When scheduler () returns, the checker is done and nobody else has decided.
LEMMA ReturnsDone ==
  ASSUME Decision, RuleOrder, Week, pc.main = "returned"
  PROVE  pc.checker = "done" /\ query["checker"] = "none"
<1>1. pc.checker = "done"
  BY DEF Decision, Week, Alone
<1> QED
  BY <1>1 DEF RuleOrder, InOrder, Labels, TypeOK, ControlOK, Actors

\* The computer sleeps or shuts down in the mode of the rule that was triggered
\* (lines 651-661 and 233-239), although that mode was copied a lap earlier, and
\* signals may have had the rule queried again since.
THEOREM TakesTheModeOfTheRule ==
  ASSUME Calm, QueriesSucceed, Undisturbed, ShortLaps
  PROVE  Spec => []ModeOfTheRule
<1>1. Decision /\ (RuleOrder /\ Week) => ModeOfTheRule
  <2> SUFFICES ASSUME Decision, RuleOrder, Week, pc.main = "returned"
               PROVE  \E r \in Active(db.turnoff, WeekDay(now)) :
                        r.minute = Minute(now) /\ r.mode = rtcwake_args.mode
    BY DEF ModeOfTheRule
  <2>1. pc.checker = "done"
    BY ReturnsDone
  <2> QED
    BY <2>1 DEF Week, Triggered, ModeAt
<1> QED
  BY <1>1, DecisionInvariant, WeekInvariant, PTL

\* The wake up that is handed over is the next one after a minute no further back
\* than the last lap and the notification (lines 181-201, 774-857).
THEOREM LooksUpARecentWake ==
  ASSUME Calm, QueriesSucceed, Undisturbed, ShortLaps
  PROVE  Spec => []WakeIsRecent
<1>1. Decision /\ (RuleOrder /\ Week) => WakeIsRecent
  <2> SUFFICES ASSUME Decision, RuleOrder, Week, pc.main = "returned", rtcwake_args.found
               PROVE  \E t \in 0..now :
                        /\ now <= t + CheckDelay + upcoming_off_rule.notification_time + 1
                        /\ IsNextOccurrence(db.turnon, t, rtcwake_args.wake)
    BY DEF WakeIsRecent
  <2>1. pc.checker = "done" /\ query["checker"] = "none"
    BY ReturnsDone
  <2>2. /\ clock["checker"] <= now
        /\ IsNextOccurrence(db.turnon, clock["checker"], rtcwake_args.wake)
    BY <2>1 DEF Week, LookedUp
  <2>3. now <= clock["checker"] + CheckDelay + upcoming_off_rule.notification_time + 1
    BY <2>1 DEF Week, Triggered, Noted
  <2>4. clock["checker"] \in 0..now
    BY <2>2, Types DEF RuleOrder, InOrder, Actors
  <2> QED
    BY <2>2, <2>3, <2>4
<1> QED
  BY <1>1, DecisionInvariant, WeekInvariant, PTL

\* The only step that ends the sleep before the notification.
LEMMA Notifies ==
  ASSUME TypeOK, Labels, [Next]_vars, pc.checker = "notify", pc'.checker = "trigger"
  PROVE  CheckerNotify
<1>1. CheckerMoves
  BY CheckerStays
<1> QED
  BY <1>1 DEF CheckerMoves, CheckerStart, CheckerSync, CheckerLap, CheckerDay, CheckerMeasure,
     CheckerDecide, CheckerTrigger, CheckerQuits, CheckerRetry, CheckerCancelled, Goto, Wakes,
     Resumes, Running, TypeOK, ControlOK

\* The user is notified notification_time before the rule (lines 203-209), never
\* earlier, and later only if the rule was found later: a lap and a notification
\* together are never longer than the day at whose change the rules are read.
THEOREM NotifiesInTime ==
  ASSUME Calm, QueriesSucceed, Undisturbed, ShortLaps, ShortNotice
  PROVE  Spec => NotifiedInTime
<1>1. (RuleOrder /\ Week) /\ [Next]_vars =>
        [pc.checker = "notify" /\ pc'.checker = "trigger" =>
           LET due == upcoming_off_rule.rule_time - upcoming_off_rule.notification_time
           IN  due <= now /\ (now <= due \/ now <= foundAt + 1)]_vars
  <2> DEFINE due == upcoming_off_rule.rule_time - upcoming_off_rule.notification_time
  <2> SUFFICES ASSUME RuleOrder, Week, [Next]_vars, pc.checker = "notify",
                      pc'.checker = "trigger"
               PROVE  due <= now /\ (now <= due \/ now <= foundAt + 1)
    OBVIOUS
  <2>t. TypeOK /\ Labels /\ OnTime /\ Solo
    BY DEF RuleOrder, InOrder
  <2>n. /\ now \in Nat /\ wakeAt \in Nat /\ foundAt \in Nat /\ db.notification_time \in Nat
        /\ upcoming_off_rule.rule_time \in Nat
    BY <2>t, Types
  <2>1. CheckerNotify
    BY <2>t, Notifies
  <2>2. query["checker"] = "none" /\ wakeAt = now
    BY <2>t, <2>n, <2>1 DEF CheckerNotify, Wakes, Resumes, OnTime
  <2>3. query["listener"] \notin OffSteps
    BY <2>t, <2>n, <2>2 DEF Solo, ListenerWorks, CheckerAsleep, OffSteps
  <2>4. PICK u \in Nat : HeadsFor(u)
    BY <2>2 DEF Week, Towards, Drifts, OffSteps
  <2>5. /\ upcoming_off_rule.rule_time = u /\ u <= wakeAt + db.notification_time
        /\ wakeAt + db.notification_time <= u \/ wakeAt <= foundAt + 1
    BY <2>3, <2>4 DEF HeadsFor, Course
  <2>6. upcoming_off_rule.notification_time = db.notification_time
    BY DEF Week, Noted
  <2> QED
    BY <2>n, <2>2, <2>5, <2>6
<1> QED
  BY <1>1, WeekInvariant, PTL DEF Spec, NotifiedInTime
=============================================================================
