--------------------------- MODULE RuleLookupProofs ---------------------------
(***************************************************************************)
(* What the SQL walks of RuleLookup return, for every set of rules and     *)
(* every length of the day: the next occurrence of a rule, and nothing     *)
(* only if there is nothing.  TLC sees a few weeks of six minute days.     *)
(***************************************************************************)
EXTENDS RuleLookup, WellFoundedInduction, TLAPS

\* A time is its day and its minute of that day (struct tm and back).
LEMMA DayAndMinute ==
  ASSUME NEW t \in Int
  PROVE  /\ Date(t) \in Int
         /\ Minute(t) \in Minutes
         /\ t = At(Date(t), Minute(t))
         /\ t >= 0 => Date(t) \in Nat
  BY DayLengthAssumption DEF Date, Minute, Minutes, At

\* ... and a day and a minute are those of the time they make.
LEMMA AtInverse ==
  ASSUME NEW d \in Int, NEW m \in Minutes
  PROVE  /\ At(d, m) \in Int
         /\ Date(At(d, m)) = d
         /\ Minute(At(d, m)) = m
         /\ d >= 0 => At(d,m) >= 0
  BY DayLengthAssumption DEF Date, Minute, Minutes, At

\* Times are ordered by day, then by minute of the day.
LEMMA AtOrder ==
  ASSUME NEW d \in Int, NEW m \in Minutes, NEW e \in Int, NEW n \in Minutes
  PROVE  (At(d, m) < At(e, n)) <=> (d < e \/ (d = e /\ m < n))
<1>1. CASE d = e
  BY <1>1, DayLengthAssumption DEF Minutes, At
<1>2. CASE d < e
  <2>1. (e - d) * DayLength >= DayLength
    BY <1>2, DayLengthAssumption
  <2> QED
    BY <2>1, <1>2, DayLengthAssumption DEF Minutes, At
<1>3. CASE e < d
  <2>1. (d - e) * DayLength >= DayLength
    BY <1>3, DayLengthAssumption
  <2> QED
    BY <2>1, <1>3, DayLengthAssumption DEF Minutes, At
<1> QED
  BY <1>1, <1>2, <1>3

\* The same of the times themselves.
LEMMA Order ==
  ASSUME NEW t \in Int, NEW u \in Int
  PROVE  (t < u) <=> (Date(t) < Date(u) \/ (Date(t) = Date(u) /\ Minute(t) < Minute(u)))
  BY DayAndMinute, AtOrder

\* ORDER BY time ASC has a first row unless there is no row.
LEMMA EarliestExists ==
  ASSUME NEW Modes, NEW rules \in SUBSET Rule(Modes), rules # {}
  PROVE  Earliest(rules) # {}
<1> DEFINE T == {r.minute : r \in rules}
<1>1. T \subseteq Nat /\ T # {}
  BY DayLengthAssumption DEF Rule, Minutes
<1>2. PICK m \in T : \A n \in T : ~ (<<n, m>> \in OpToRel(<, Nat))
  BY <1>1, NatLessThanWellFounded, WFMin
<1>3. \A n \in T : <<n, m>> \notin {ss \in Nat \X Nat : ss[1] < ss[2]}
  BY <1>2, Zenon DEF OpToRel
<1> HIDE DEF T
<1>4. ASSUME NEW n \in T PROVE m <= n
  <2>1. n \in Nat /\ m \in Nat
    BY <1>1
  <2>2. <<n, m>> \notin {ss \in Nat \X Nat : ss[1] < ss[2]}
    BY <1>3
  <2> QED
    BY <2>1, <2>2
<1>5. PICK r \in rules : r.minute = m
  BY DEF T
<1> QED
  BY <1>4, <1>5 DEF Earliest, T

-----------------------------------------------------------------------------

\* The wrap of line 551 is the week day of the next day.
LEMMA Successor ==
  ASSUME NEW d \in Nat
  PROVE  (d + 1) % 7 = IF (d % 7) + 1 >= 7 THEN 0 ELSE (d % 7) + 1
  OBVIOUS

\* week_day () of lines 25-60 is the week day some days ahead.
LEMMA Ahead ==
  ASSUME NEW d \in Nat, NEW k \in 1..7
  PROVE  week_day((d % 7) + k) = (d + k) % 7
  BY DEF week_day

\* The first row of a day's rules occurs on that day, and nothing before it.
LEMMA FirstOfDay ==
  ASSUME NEW Modes, NEW rules \in SUBSET Rule(Modes), NEW d \in Nat,
         NEW r \in Earliest(Active(rules, d % 7))
  PROVE  /\ r.minute \in Minutes
         /\ Occurs(rules, At(d, r.minute))
         /\ \A v \in Nat : Date(v) = d /\ Occurs(rules, v) => r.minute <= Minute(v)
<1>1. r \in rules /\ r.active /\ d % 7 \in r.days /\ r.minute \in Minutes
  BY DEF Earliest, Active, Rule
<1>2. Occurs(rules, At(d, r.minute))
  BY <1>1, AtInverse DEF Occurs, WeekDay
<1>3. ASSUME NEW v \in Nat, Date(v) = d, Occurs(rules, v)
      PROVE  r.minute <= Minute(v)
  BY <1>3 DEF Occurs, WeekDay, Earliest, Active
<1> QED
  BY <1>1, <1>2, <1>3

\* No rule occurs on a day for which the SELECT returns no row.
LEMMA QuietDay ==
  ASSUME NEW rules, NEW v \in Nat, Active(rules, Date(v) % 7) = {}
  PROVE  ~ Occurs(rules, v)
  BY DEF Occurs, Active, WeekDay

\* The row the walk of today's rules stops at (lines 496-529, 774-788) is the
\* next occurrence of a rule.
THEOREM LaterTodayIsNext ==
  ASSUME NEW Modes, NEW rules \in SUBSET Rule(Modes), NEW t \in Nat,
         NEW r \in LaterToday(rules, WeekDay(t), Minute(t))
  PROVE  IsNextOccurrence(rules, t, At(Date(t), r.minute))
<1>1. /\ r \in rules /\ r.active /\ WeekDay(t) \in r.days
      /\ r.minute \in Minutes /\ r.minute > Minute(t)
  BY DEF LaterToday, Earliest, Active, Rule
<1>2. Date(t) \in Nat /\ Minute(t) \in Minutes /\ t = At(Date(t), Minute(t))
  BY DayAndMinute
<1> DEFINE u == At(Date(t), r.minute)
<1>3. u \in Int /\ Date(u) = Date(t) /\ Minute(u) = r.minute
  BY <1>1, <1>2, AtInverse
<1>4. u > t
  BY <1>1, <1>2, <1>3, Order DEF Minutes
<1>5. Occurs(rules, u)
  BY <1>1, <1>3 DEF Occurs, WeekDay
<1>6. ASSUME NEW v \in (t + 1)..(u - 1), Occurs(rules, v)
      PROVE  FALSE
  <2>1. v \in Int /\ t < v /\ v < u
    BY <1>3, <1>6
  <2>2. Date(v) = Date(t) /\ Minute(t) < Minute(v) /\ Minute(v) < r.minute
    BY <2>1, <1>2, <1>3, DayAndMinute, Order
  <2>3. PICK s \in rules : s.active /\ WeekDay(v) \in s.days /\ Minute(v) = s.minute
    BY <1>6 DEF Occurs
  <2>4. r.minute <= s.minute
    BY <2>2, <2>3 DEF LaterToday, Earliest, Active, WeekDay
  <2> QED
    BY <2>2, <2>3, <2>4, <1>1, DayAndMinute, <2>1 DEF Minutes
<1> QED
  BY <1>4, <1>5, <1>6 DEF IsNextOccurrence

\* If that walk finds no row, no rule occurs in the rest of the day.
LEMMA NothingLaterToday ==
  ASSUME NEW Modes, NEW rules \in SUBSET Rule(Modes), NEW t \in Nat,
         LaterToday(rules, WeekDay(t), Minute(t)) = {},
         NEW v \in Nat, v > t, Date(v) = Date(t)
  PROVE  ~ Occurs(rules, v)
<1> DEFINE S == {r \in Active(rules, WeekDay(t)) : r.minute > Minute(t)}
<1>1. S = {}
  BY EarliestExists DEF LaterToday, Active
<1>2. Minute(v) > Minute(t)
  BY Order, DayAndMinute DEF Minutes
<1> QED
  BY <1>1, <1>2 DEF Occurs, WeekDay, Active


\* The first rule of a day is the next one if none occurs before that day.
LEMMA NextOnDay ==
  ASSUME NEW Modes, NEW rules \in SUBSET Rule(Modes), NEW t \in Nat,
         NEW d \in Nat, d > Date(t), NEW r \in Earliest(Active(rules, d % 7)),
         \A v \in Nat : v > t /\ Date(v) < d => ~ Occurs(rules, v)
  PROVE  IsNextOccurrence(rules, t, At(d, r.minute))
<1> DEFINE u == At(d, r.minute)
<1>1. /\ r.minute \in Minutes
      /\ Occurs(rules, u)
      /\ \A v \in Nat : Date(v) = d /\ Occurs(rules, v) => r.minute <= Minute(v)
  BY FirstOfDay
<1>2. u \in Int /\ Date(u) = d /\ Minute(u) = r.minute
  BY <1>1, AtInverse
<1>3. u > t
  BY <1>2, Order, DayAndMinute
<1>4. ASSUME NEW v \in (t + 1)..(u - 1), Occurs(rules, v)
      PROVE  FALSE
  <2>1. v \in Nat /\ v > t /\ v < u
    BY <1>2, <1>4
  <2>2. Date(v) = d /\ Minute(v) < r.minute
    BY <2>1, <1>2, <1>4, Order, DayAndMinute
  <2>3. r.minute <= Minute(v)
    BY <2>1, <2>2, <1>1, <1>4
  <2> QED
    BY <2>1, <2>2, <2>3, <1>1, DayAndMinute DEF Minutes
<1> QED
  BY <1>1, <1>3, <1>4 DEF IsNextOccurrence

\* If nothing is left today, tomorrow's first turn off rule (lines 544-612) is
\* the next occurrence of a rule.
THEOREM TomorrowIsNext ==
  ASSUME NEW Modes, NEW rules \in SUBSET Rule(Modes), NEW t \in Nat,
         LaterToday(rules, WeekDay(t), Minute(t)) = {},
         NEW r \in Tomorrow(rules, WeekDay(t))
  PROVE  IsNextOccurrence(rules, t, At(Date(t) + 1, r.minute))
<1>1. Date(t) \in Nat
  BY DayAndMinute
<1>2. r \in Earliest(Active(rules, (Date(t) + 1) % 7))
  BY <1>1, Successor DEF Tomorrow, WeekDay
<1>3. ASSUME NEW v \in Nat, v > t, Date(v) < Date(t) + 1
      PROVE  ~ Occurs(rules, v)
  <2>1. Date(v) = Date(t)
    BY <1>1, <1>3, DayAndMinute, Order
  <2> QED
    BY <1>3, <2>1, NothingLaterToday
<1> DEFINE d == Date(t) + 1
<1>4. /\ d \in Nat /\ d > Date(t)
      /\ r \in Earliest(Active(rules, d % 7))
      /\ \A v \in Nat : v > t /\ Date(v) < d => ~ Occurs(rules, v)
  BY <1>1, <1>2, <1>3
<1> HIDE DEF d
<1>5. IsNextOccurrence(rules, t, At(d, r.minute))
  BY <1>4, NextOnDay
<1> QED
  BY <1>5 DEF d

\* A SELECT that returns no row has no row to return.
LEMMA NoRow ==
  ASSUME NEW Modes, NEW rules \in SUBSET Rule(Modes), NEW wday, NEW k,
         OnDayAhead(rules, wday, k) = {}
  PROVE  Active(rules, week_day(wday + k)) = {}
<1>1. Active(rules, week_day(wday + k)) \in SUBSET Rule(Modes)
  BY DEF Active
<1> QED
  BY <1>1, EarliestExists DEF OnDayAhead

\* If nothing is left today, the turn on rule found on the first day that has
\* one (lines 798-853) is the next occurrence of a rule: the loop of seven days,
\* with week_day () and LIMIT 1, skips none.
THEOREM LaterThisWeekIsNext ==
  ASSUME NEW Modes, NEW rules \in SUBSET Rule(Modes), NEW t \in Nat,
         LaterToday(rules, WeekDay(t), Minute(t)) = {},
         NEW k \in 1..7,
         \A j \in 1..(k - 1) : OnDayAhead(rules, WeekDay(t), j) = {},
         NEW r \in OnDayAhead(rules, WeekDay(t), k)
  PROVE  IsNextOccurrence(rules, t, At(Date(t) + k, r.minute))
<1>1. Date(t) \in Nat
  BY DayAndMinute
<1>2. \A j \in 1..(k - 1) : Active(rules, week_day(WeekDay(t) + j)) = {}
  BY NoRow
<1>3. r \in Earliest(Active(rules, (Date(t) + k) % 7))
  BY <1>1, Ahead DEF WeekDay, OnDayAhead
<1>4. ASSUME NEW v \in Nat, v > t, Date(v) < Date(t) + k
      PROVE  ~ Occurs(rules, v)
  <2>1. Date(v) \in Nat /\ Date(v) >= Date(t)
    BY <1>1, <1>4, DayAndMinute, Order
  <2>2. CASE Date(v) = Date(t)
    BY <1>4, <2>2, NothingLaterToday
  <2>3. CASE Date(v) > Date(t)
    <3> DEFINE j == Date(v) - Date(t)
    <3>1. j \in 1..(k - 1) /\ j \in 1..7 /\ Date(v) = Date(t) + j
      BY <1>1, <1>2, <1>4, <2>1, <2>3
    <3>2. Active(rules, week_day(WeekDay(t) + j)) = {}
      BY <3>1, <1>2
    <3>3. Active(rules, Date(v) % 7) = {}
      BY <3>1, <3>2, <1>1, Ahead DEF WeekDay
    <3> QED
      BY <3>3, QuietDay
  <2> QED
    BY <2>1, <2>2, <2>3, <1>1
<1> DEFINE d == Date(t) + k
<1>5. /\ d \in Nat /\ d > Date(t)
      /\ r \in Earliest(Active(rules, d % 7))
      /\ \A v \in Nat : v > t /\ Date(v) < d => ~ Occurs(rules, v)
  BY <1>1, <1>2, <1>3, <1>4
<1> HIDE DEF d
<1>6. IsNextOccurrence(rules, t, At(d, r.minute))
  BY <1>5, NextOnDay
<1> QED
  BY <1>6 DEF d

\* RTCWAKE_ARGS_NOT_FOUND (line 857) is final: if the seven days ahead have no
\* turn on rule, there is none at any time.
THEOREM NothingThisWeekMeansNever ==
  ASSUME NEW Modes, NEW rules \in SUBSET Rule(Modes), NEW t \in Nat,
         \A k \in 1..7 : OnDayAhead(rules, WeekDay(t), k) = {},
         NEW v \in Nat
  PROVE  ~ Occurs(rules, v)
<1>1. Date(t) \in Nat /\ Date(v) \in Nat
  BY DayAndMinute
<1>2. PICK k \in 1..7 : (Date(t) + k) % 7 = Date(v) % 7
  <2> DEFINE k == IF Date(v) % 7 > Date(t) % 7
                  THEN (Date(v) % 7) - (Date(t) % 7)
                  ELSE 7 + (Date(v) % 7) - (Date(t) % 7)
  <2>1. k \in 1..7 /\ (Date(t) + k) % 7 = Date(v) % 7
    BY <1>1
  <2> QED
    BY <2>1
<1>3. Active(rules, week_day(WeekDay(t) + k)) = {}
  BY NoRow
<1>4. Active(rules, Date(v) % 7) = {}
  BY <1>1, <1>2, <1>3, Ahead DEF WeekDay
<1> QED
  BY <1>4, QuietDay
=============================================================================
