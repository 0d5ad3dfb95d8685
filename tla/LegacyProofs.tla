------------------------------ MODULE LegacyProofs ------------------------------
(***************************************************************************)
(* The cron programs, for any number of them, any rules and any moments:   *)
(* what their comparisons of decimal times decide, that the lookup skips   *)
(* no rule however it is overtaken, and what the lock of an unfinalized    *)
(* statement protects.                                                     *)
(***************************************************************************)
EXTENDS LegacyPrograms, WellFoundedInduction, TLAPS

-----------------------------------------------------------------------------
(* Times.                                                                  *)

\* A moment is its date and its time of that day, in that order.
LEMMA DayLength == Day \in Nat \ {0}
  BY SMT DEF Day

LEMMA DateAndTime ==
  ASSUME NEW t \in Nat
  PROVE  Date(t) \in Nat /\ Time(t) \in Seconds /\ t = At(Date(t), Time(t))
         /\ WeekDay(t) \in WeekDays
  BY DayLength, SMT DEF Date, Time, Seconds, At, WeekDay, WeekDays

LEMMA AtIsMoment ==
  ASSUME NEW d \in Nat, NEW s \in Seconds
  PROVE  At(d, s) \in Nat /\ Date(At(d, s)) = d /\ Time(At(d, s)) = s
  BY DayLength, SMT DEF Date, Time, Seconds, At

LEMMA AtOrder ==
  ASSUME NEW d \in Nat, NEW s \in Seconds, NEW e \in Nat, NEW u \in Seconds
  PROVE  At(d, s) < At(e, u) <=> (d < e \/ (d = e /\ s < u))
<1>1. CASE d = e
  BY <1>1, DayLength, SMT DEF Seconds, At
<1>2. CASE d < e
  <2>1. (e - d) * Day >= Day
    BY <1>2, DayLength, SMT
  <2>2. QED
    BY <2>1, <1>2, DayLength, SMT DEF Seconds, At
<1>3. CASE e < d
  <2>1. (d - e) * Day >= Day
    BY <1>3, DayLength, SMT
  <2>2. QED
    BY <2>1, <1>3, DayLength, SMT DEF Seconds, At
<1>4. QED
  BY <1>1, <1>2, <1>3

\* Read as a decimal number, a time grows at least as fast as in seconds.
Hour(s)   == s \div 3600
Minute(s) == (s \div 60) % 60
Second(s) == s % 60

LEMMA Digits ==
  ASSUME NEW s \in Seconds
  PROVE  /\ Hour(s) \in Nat /\ Minute(s) \in Nat /\ Second(s) \in Nat
         /\ Minute(s) < 60 /\ Second(s) < 60
         /\ s = 3600 * Hour(s) + 60 * Minute(s) + Second(s)
         /\ HHMMSS(s) = 10000 * Hour(s) + 100 * Minute(s) + Second(s)
<1> DEFINE q == s \div 60
<1>1. s \in Nat
  BY SMT DEF Seconds, Day
<1>2. q \in Nat /\ Second(s) \in Nat /\ Second(s) < 60 /\ s = 60 * q + Second(s)
  BY <1>1, SMT DEF Second
<1>3. Minute(s) \in Nat /\ Minute(s) < 60 /\ q = 60 * Hour(s) + Minute(s) /\ Hour(s) \in Nat
  BY <1>1, SMT DEF Minute, Hour
<1>4. HHMMSS(s) = 10000 * Hour(s) + 100 * Minute(s) + Second(s)
  BY <1>2, <1>3, SMT DEF HHMMSS, HHMM, Hour, Minute, Second
<1>5. QED
  BY <1>2, <1>3, <1>4, SMT

LEMMA DecimalOrder ==
  ASSUME NEW s \in Seconds, NEW u \in Seconds
  PROVE  /\ HHMMSS(s) \in Nat
         /\ s <= u <=> HHMMSS(s) <= HHMMSS(u)
         /\ s < u <=> HHMMSS(s) < HHMMSS(u)
         /\ s <= u => u - s <= HHMMSS(u) - HHMMSS(s)
  BY Digits, SMT

\* cron_ton's window, boot_time past a decimal number, lies in the one that is
\* meant.
LEMMA WithinIsDue ==
  ASSUME NEW rows \in SUBSET Row, NEW t \in Nat, NEW b \in Nat, NEW r \in OnNow(rows, t, b)
  PROVE  r \in rows /\ IsDue(r, t, b)
<1>1. /\ r \in rows /\ r \in Row /\ WeekDay(t) \in r.days
      /\ HHMMSS(Time(t)) >= HHMMSS(r.time) /\ HHMMSS(Time(t)) <= HHMMSS(r.time) + b
  BY DEF OnNow, First, Enabled, Within
<1>2. r.time \in Seconds /\ Time(t) \in Seconds
  BY <1>1, DateAndTime DEF Row
<1>3. /\ HHMMSS(r.time) \in Nat /\ HHMMSS(Time(t)) \in Nat /\ r.time <= Time(t)
      /\ Time(t) - r.time <= HHMMSS(Time(t)) - HHMMSS(r.time)
  BY <1>1, <1>2, DecimalOrder
<1>4. Time(t) <= r.time + b
  BY <1>1, <1>2, <1>3, DayLength, SMT DEF Seconds
<1>5. QED
  BY <1>1, <1>3, <1>4 DEF IsDue

-----------------------------------------------------------------------------
(* Types.                                                                  *)

OpenPcs  == {"tables", "rows", "menu", "write", "settings", "match"} \cup LookupPcs
TimedPcs == {"match"} \cup LookupPcs

\* What each step of a program has made ready for the next.
Ready(p) ==
  /\ pc[p] \in OpenPcs => handle[p] # NoFile
  /\ pc[p] \in TimedPcs => job[p].now # NoTime
  /\ pc[p] \in {"opening", "settings"} => Schedules(p) \/ job[p].now # NoTime
  /\ pc[p] = "later" => job[p].day # 0
  /\ pc[p] = "write" => edit[p].op # "none"
  /\ pc[p] \in CheckerPcs \cup MenuPcs => program[p] = "gawake-cli"

TypeInv == LegacyTypeOK /\ \A p \in Processes : Ready(p)

LEMMA ExampleIsRow ==
  ASSUME NEW t \in Tables, NEW i \in Nat
  PROVE  Example(t, i) \in Row
<1>1. 36000 \in Seconds /\ 41400 \in Seconds
  BY SMT DEF Seconds, Day
<1>2. QED
  BY <1>1, SMT DEF Example, Row

LEMMA EmptyIsContent == EmptyFile \in Content /\ EmptyFile.stage = "empty"
  BY SMT DEF EmptyFile, Content, Defaults, Config, Modes, Tables

LEMMA ConfiguredIsContent ==
  ASSUME NEW c \in Content
  PROVE  /\ Configured(c) \in Content /\ Configured(c).stage = "complete"
         /\ \A t \in Tables : c.rows[t] \subseteq Configured(c).rows[t]
<1>1. ASSUME NEW t \in Tables
      PROVE  c.lastId[t] + 1 \in Nat /\ c.rows[t] \cup {Example(t, c.lastId[t] + 1)} \in SUBSET Row
  BY ExampleIsRow, SMT DEF Content
<1>2. Defaults \in Config
  BY SMT DEF Defaults, Config, Modes
<1>3. QED
  BY <1>1, <1>2, SMT DEF Configured, Content

LEMMA TablesIsContent ==
  ASSUME NEW c \in Content
  PROVE  [c EXCEPT !.stage = "tables"] \in Content
  BY SMT DEF Content

LEMMA ConfigIsContent ==
  ASSUME NEW c \in Content, NEW d \in Config, NEW column \in {"status", "commands", "def_mode"}
  PROVE  LET e == [c EXCEPT !.config[column] = d[column]]
         IN  e \in Content /\ e.stage = c.stage /\ e.rows = c.rows
  BY SMT DEF Content, Config

WithRows(c, t, rows)  == [c EXCEPT !.rows[t] = rows]
WithLast(c, t, last) == [c EXCEPT !.lastId[t] = last]

LEMMA RowsIsContent ==
  ASSUME NEW c \in Content, NEW t \in Tables, NEW rows \in SUBSET Row
  PROVE  /\ WithRows(c, t, rows) \in Content
         /\ WithRows(c, t, rows).stage = c.stage
         /\ WithRows(c, t, rows).lastId = c.lastId
  BY SMT DEF Content, WithRows

LEMMA LastIsContent ==
  ASSUME NEW c \in Content, NEW t \in Tables, NEW last \in Nat
  PROVE  WithLast(c, t, last) \in Content /\ WithLast(c, t, last).stage = c.stage
  BY SMT DEF Content, WithLast

LEMMA EditedIsContent ==
  ASSUME NEW c \in Content, NEW e \in Edit, e.op # "none", NEW r \in NewRules[e.table]
  PROVE  Edited(c, e, r) \in Content /\ Edited(c, e, r).stage = c.stage
<1> DEFINE others == {s \in c.rows[e.table] : s.id # e.id}
           last   == c.lastId[e.table] + 1
           more   == c.rows[e.table] \cup {Numbered(r, last)}
           new    == IF others = c.rows[e.table] THEN c.rows[e.table]
                                                 ELSE others \cup {Numbered(r, e.id)}
<1>1. e.table \in Tables /\ last \in Nat /\ others \in SUBSET Row /\ e.id \in Nat
      /\ c.rows[e.table] \in SUBSET Row
  BY SMT DEF Content, Edit
<1>2. Numbered(r, last) \in Row /\ Numbered(r, e.id) \in Row
  BY <1>1, ProgramsAssumption, SMT DEF Numbered, Row
<1>3. more \in SUBSET Row /\ new \in SUBSET Row
  BY <1>1, <1>2, SMT
<1>4. CASE e.op = "add"
  <2> DEFINE d == WithRows(c, e.table, more)
  <2>1. d \in Content /\ d.stage = c.stage
    BY <1>1, <1>3, RowsIsContent, Zenon
  <2>2. Edited(c, e, r) = WithLast(d, e.table, last)
    BY <1>4, SMT DEF Edited, WithRows, WithLast
  <2> HIDE DEF others, last, more, d
  <2>3. QED
    BY <1>1, <2>1, <2>2, LastIsContent
<1>5. CASE e.op = "remove"
  <2>1. Edited(c, e, r) = WithRows(c, e.table, others)
    BY <1>5, SMT DEF Edited, WithRows
  <2> DEFINE d == WithRows(c, e.table, others)
  <2>2. d \in Content /\ d.stage = c.stage
    BY <1>1, RowsIsContent, Zenon
  <2> HIDE DEF others
  <2>3. QED
    BY <2>1, <2>2
<1>6. CASE e.op = "edit"
  <2>1. Edited(c, e, r) = WithRows(c, e.table, new)
    BY <1>6, SMT DEF Edited, WithRows
  <2> DEFINE d == WithRows(c, e.table, new)
  <2>2. d \in Content /\ d.stage = c.stage
    BY <1>1, <1>3, RowsIsContent, Zenon
  <2> HIDE DEF new
  <2>3. QED
    BY <2>1, <2>2
<1>7. QED
  BY <1>4, <1>5, <1>6, SMT DEF Edit

LEMMA FileIsContent ==
  ASSUME TypeInv, NEW p \in Processes, pc[p] \in OpenPcs
  PROVE  handle[p] \in Files /\ File(p) \in Content
  BY SMT DEF TypeInv, Ready, LegacyTypeOK, DatabaseTypeOK, File

LEMMA TimeIsNoNoTime ==
  ASSUME NEW t \in Nat
  PROVE  t # NoTime
  BY SMT DEF NoTime

LEMMA JobsStart ==
  ASSUME NEW t \in Nat, NEW m \in Modes \cup {"unset"}
  PROVE  /\ NoJob \in Job /\ Asked(t) \in Job /\ Asked(t).now = t
         /\ [NoJob EXCEPT !.mode = m] \in Job
         /\ [Asked(t) EXCEPT !.mode = m] \in Job /\ [Asked(t) EXCEPT !.mode = m].now = t
<1>1. NoJob \in Job /\ Asked(t) \in Job
  BY SMT DEF NoJob, Asked, Job, Modes
<1>2. QED
  BY <1>1, SMT DEF Asked, Job

LEMMA FirstJobIsJob ==
  ASSUME NEW g \in Programs, NEW t \in Nat, NEW m \in Modes
  PROVE  /\ FirstJob(g, t, m) \in Job
         /\ g \in {"cron_toff", "cron_ton"} => FirstJob(g, t, m).now = t
<1>1. m \in Modes \cup {"unset"}
  OBVIOUS
<1>2. CASE g \in {"cron_toff", "cron_ton"}
  <2>1. FirstJob(g, t, m) = Asked(t)
    BY <1>2 DEF FirstJob
  <2>2. QED
    BY <1>1, <2>1, JobsStart
<1>3. CASE g = "custom"
  <2>1. FirstJob(g, t, m) = [NoJob EXCEPT !.mode = m]
    BY <1>3 DEF FirstJob
  <2>2. QED
    BY <1>1, <1>3, <2>1, JobsStart
<1>4. CASE g \in {"gawake-cli", "schedule"}
  <2>1. FirstJob(g, t, m) = NoJob
    BY <1>4 DEF FirstJob
  <2>2. QED
    BY <1>1, <1>4, <2>1, JobsStart
<1>5. QED
  BY <1>2, <1>3, <1>4 DEF Programs

LEMMA JobMode ==
  ASSUME NEW j \in Job, NEW m \in Modes \cup {"unset"}
  PROVE  LET k == [j EXCEPT !.mode = m] IN k \in Job /\ k.now = j.now
  BY SMT DEF Job

LEMMA JobDay ==
  ASSUME NEW j \in Job, NEW d \in 0..7
  PROVE  LET k == [j EXCEPT !.day = d] IN k \in Job /\ k.now = j.now /\ k.day = d
  BY SMT DEF Job

LEMMA NoEditIsEdit == NoEdit \in Edit /\ Tables = {"turnon", "turnoff"}
  BY SMT DEF NoEdit, Edit, Tables

LEMMA LegacyInitType == ASSUME Init PROVE TypeInv
<1>1. disk \in [Files -> Content] /\ path \in Files \cup {NoFile}
  <2>1. CASE path = NoFile /\ disk = [f \in Files |-> EmptyFile]
    BY <2>1, EmptyIsContent, SMT
  <2>2. ASSUME NEW f \in Files, NEW d \in Databases, path = f,
               disk = [[g \in Files |-> EmptyFile] EXCEPT ![f] = d]
        PROVE  disk \in [Files -> Content] /\ path \in Files \cup {NoFile}
    <3>1. d \in Content
      BY ProgramsAssumption
    <3>2. QED
      BY <2>2, <3>1, EmptyIsContent, SMT
  <2>3. QED
    BY <2>1, <2>2 DEF Init
<1>2. NoJob \in Job /\ 0 \in 0..MaxStarts /\ 0 \in 0..MaxWrites
  BY ProgramsAssumption, SMT DEF NoJob, Asked, Job, Modes
<1>3. LegacyTypeOK
  BY <1>1, <1>2, NoEditIsEdit, SMT DEF Init, LegacyTypeOK, DatabaseTypeOK, Programs, Pcs
<1>4. \A p \in Processes : pc[p] = "idle"
  BY DEF Init
<1>5. QED
  BY <1>3, <1>4, SMT DEF TypeInv, Ready, OpenPcs, TimedPcs, LookupPcs, CheckerPcs, MenuPcs

-----------------------------------------------------------------------------
(* Every step keeps the types.                                             *)

\* What a process knows of itself.
OwnStays(q) ==
  /\ pc'[q] = pc[q] /\ handle'[q] = handle[q] /\ statement'[q] = statement[q]
  /\ program'[q] = program[q] /\ edit'[q] = edit[q] /\ job'[q] = job[q]

LEMMA ReadyStays ==
  ASSUME TypeInv, NEW p \in Processes, Ready(p)', LegacyTypeOK',
         \A q \in Processes \ {p} : OwnStays(q)
  PROVE  TypeInv'
<1>1. ASSUME NEW q \in Processes \ {p} PROVE Ready(q)'
  BY <1>1, Zenon DEF TypeInv, Ready, OwnStays, Schedules
<1>2. QED
  BY <1>1, Zenon DEF TypeInv

LEMMA StartType ==
  ASSUME TypeInv, NEW p \in Processes, Start(p)
  PROVE  TypeInv'
<1>1. PICK g \in Programs, t \in Times, m \in Modes :
        /\ pc' = [pc EXCEPT ![p] = FirstPc(g)]
        /\ program' = [program EXCEPT ![p] = g]
        /\ job' = [job EXCEPT ![p] = FirstJob(g, t, m)]
  BY Zenon DEF Start
<1>2. t \in Nat /\ t # NoTime
  BY ProgramsAssumption, TimeIsNoNoTime
<1>3. /\ FirstJob(g, t, m) \in Job
      /\ g \in {"cron_toff", "cron_ton"} => FirstJob(g, t, m).now # NoTime
  BY <1>2, FirstJobIsJob
<1>4. /\ FirstPc(g) \in {"access", "sleep", "opening"}
      /\ FirstPc(g) = "opening" => g \in {"schedule", "cron_toff", "cron_ton"}
      /\ FirstPc(g) = "access" => g = "gawake-cli"
  BY SMT DEF FirstPc, Programs
<1>5. UNCHANGED <<path, disk, handle, statement, cut, edit, stable, writes>>
      /\ starts' \in 0..MaxStarts
  BY ProgramsAssumption, SMT DEF Start, TypeInv, LegacyTypeOK, files
<1>6. LegacyTypeOK'
  BY <1>1, <1>3, <1>4, <1>5, SMT DEF TypeInv, LegacyTypeOK, DatabaseTypeOK, Pcs, CheckerPcs, JobPcs
<1>7. pc'[p] = FirstPc(g) /\ program'[p] = g /\ job'[p] = FirstJob(g, t, m)
  BY <1>1, <1>3 DEF TypeInv, LegacyTypeOK
<1>8. Ready(p)'
  BY <1>3, <1>4, <1>7, SMT DEF Ready, Schedules, OpenPcs, TimedPcs, LookupPcs, CheckerPcs, MenuPcs
<1>9. \A q \in Processes \ {p} : OwnStays(q)
  BY <1>1, <1>3, <1>5 DEF TypeInv, LegacyTypeOK, OwnStays
<1>10. QED
  BY <1>6, <1>8, <1>9, ReadyStays, Zenon

LEMMA WorkIsFile ==
  ASSUME TypeInv, NEW p \in Processes
  PROVE  WorksOn(p) \in Files \cup {NoFile}
<1>1. pc[p] \in Pcs
  BY DEF TypeInv, LegacyTypeOK
<1>2. path \in Files \cup {NoFile} /\ handle[p] \in Files \cup {NoFile}
  BY DEF TypeInv, LegacyTypeOK, DatabaseTypeOK
<1>3. CASE pc[p] \in {"chown", "connect"}
  BY <1>2, <1>3, SMT DEF WorksOn
<1>4. CASE pc[p] \in {"tables", "rows"}
  BY <1>2, <1>4, SMT DEF WorksOn
<1>5. CASE pc[p] \notin {"chown", "connect", "tables", "rows"}
  BY <1>5, SMT DEF WorksOn
<1>6. QED
  BY <1>3, <1>4, <1>5

LEMMA EndsType ==
  ASSUME TypeInv, NEW gone \in SUBSET Processes, Ends(gone)
  PROVE  TypeInv'
<1>1. /\ pc' = [p \in Processes |-> IF p \in gone THEN "idle" ELSE pc[p]]
      /\ handle' = [p \in Processes |-> IF p \in gone THEN NoFile ELSE handle[p]]
      /\ statement' = [p \in Processes |-> statement[p] /\ p \notin gone]
      /\ edit' = [p \in Processes |-> IF p \in gone THEN NoEdit ELSE edit[p]]
      /\ job' = [p \in Processes |-> IF p \in gone THEN NoJob ELSE job[p]]
      /\ stable' = [p \in Processes |-> IF p \in gone THEN {} ELSE stable[p]]
      /\ program' = [p \in Processes |-> IF p \in gone THEN "gawake-cli" ELSE program[p]]
      /\ UNCHANGED <<path, disk, starts, writes>>
  BY Zenon DEF Ends, End, bounds
<1>2. cut' \in SUBSET Files
  BY WorkIsFile, Zenon DEF Ends, End, TypeInv, LegacyTypeOK, DatabaseTypeOK
<1>3. NoJob \in Job
  BY SMT DEF NoJob, Asked, Job, Modes
<1>4. LegacyTypeOK'
  BY <1>1, <1>2, <1>3, NoEditIsEdit, SMT DEF TypeInv, LegacyTypeOK, DatabaseTypeOK, Pcs, Programs
<1>5. ASSUME NEW p \in Processes PROVE Ready(p)'
  <2>1. CASE p \in gone
    <3>1. pc'[p] = "idle"
      BY <1>1, <2>1
    <3>2. QED
      BY <3>1, SMT DEF Ready, OpenPcs, TimedPcs, LookupPcs, CheckerPcs, MenuPcs
  <2>2. CASE p \notin gone
    BY <1>1, <2>2, Zenon DEF TypeInv, Ready, Schedules
  <2>3. QED
    BY <2>1, <2>2
<1>6. QED
  BY <1>4, <1>5 DEF TypeInv

LEMMA ExitType ==
  ASSUME TypeInv, NEW p \in Processes, Exit(p)
  PROVE  TypeInv'
  BY EndsType DEF Exit

\* db_checker.  Most steps change nothing of their process but where it is.
LEMMA GoesType ==
  ASSUME TypeInv, NEW p \in Processes, NEW from, NEW to \in Pcs, Goes(p, from, to)
  PROVE  /\ pc' \in [Processes -> Pcs] /\ pc[p] = from /\ pc'[p] = to
         /\ \A q \in Processes \ {p} : pc'[q] = pc[q]
  BY Zenon DEF Goes, TypeInv, LegacyTypeOK

LEMMA CheckerPcsArePcs ==
  CheckerPcs \cup JobPcs \cup MenuPcs \cup {"idle"} \subseteq Pcs
  BY DEF Pcs

LEMMA CheckerType ==
  ASSUME TypeInv, NEW p \in Processes, Checker(p)
  PROVE  TypeInv'
<1>1. UNCHANGED <<program, edit, job, stable, starts, writes>>
  BY DEF Checker, bounds
<1>2. /\ pc' \in [Processes -> Pcs] /\ pc[p] \in CheckerPcs
      /\ pc'[p] \in CheckerPcs \cup {"open"}
      /\ \A q \in Processes \ {p} : pc'[q] = pc[q]
      /\ pc'[p] = "tables" => pc[p] = "connect"
      /\ pc'[p] = "rows" => pc[p] = "tables"
  <2>1. PICK from \in CheckerPcs, to \in CheckerPcs \cup {"open"} :
          /\ Goes(p, from, to)
          /\ to = "tables" => from = "connect"
          /\ to = "rows" => from = "tables"
    <3> DEFINE fromTo == {<<"access", "create">>, <<"access", "open">>, <<"create", "open">>,
                          <<"create", "chown">>, <<"chown", "connect">>, <<"chown", "open">>,
                          <<"connect", "tables">>, <<"connect", "open">>, <<"tables", "rows">>,
                          <<"tables", "open">>, <<"rows", "open">>}
    <3>1. \E g \in fromTo : Goes(p, g[1], g[2])
      BY SMT DEF Checker, Access, Create, Chown, Connect, CreateTables, InsertRows, SqlFails
    <3>2. PICK g \in fromTo : Goes(p, g[1], g[2])
      BY <3>1
    <3>3. /\ g[1] \in CheckerPcs /\ g[2] \in CheckerPcs \cup {"open"}
          /\ g[2] = "tables" => g[1] = "connect"
          /\ g[2] = "rows" => g[1] = "tables"
      BY SMT DEF CheckerPcs
    <3>4. QED
      BY <3>2, <3>3, Zenon
  <2>2. to \in Pcs
    BY DEF Pcs, CheckerPcs, MenuPcs
  <2>3. QED
    BY <2>1, <2>2, GoesType
<1>3. DatabaseTypeOK'
  <2>1. CASE Access(p)
    BY <2>1 DEF Access, files, TypeInv, LegacyTypeOK, DatabaseTypeOK
  <2>2. CASE Create(p)
    <3>1. CASE UNCHANGED files
      BY <3>1 DEF files, TypeInv, LegacyTypeOK, DatabaseTypeOK
    <3>2. CASE ~ UNCHANGED files
      <4>1. PICK f \in Unused : /\ path' = f /\ disk' = [disk EXCEPT ![f] = EmptyFile]
                                /\ cut' = cut \ {f} /\ UNCHANGED <<handle, statement>>
        BY <2>2, <3>2, Zenon DEF Create
      <4>2. f \in Files
        BY DEF Unused
      <4>3. QED
        BY <4>1, <4>2, EmptyIsContent, SMT DEF TypeInv, LegacyTypeOK, DatabaseTypeOK
    <3>3. QED
      BY <3>1, <3>2
  <2>3. CASE Chown(p)
    BY <2>3, SMT DEF Chown, files, TypeInv, LegacyTypeOK, DatabaseTypeOK
  <2>4. CASE Connect(p)
    BY <2>4, SMT DEF Connect, Removed, TypeInv, LegacyTypeOK, DatabaseTypeOK
  <2>5. CASE CreateTables(p)
    <3>1. handle[p] \in Files /\ File(p) \in Content
      <4>1. pc[p] \in OpenPcs
        BY <2>5 DEF CreateTables, SqlFails, Goes, OpenPcs
      <4>2. QED
        BY <4>1, FileIsContent
    <3>2. CASE SqlFails(p, "tables")
      BY <3>2, SMT DEF SqlFails, Removed, TypeInv, LegacyTypeOK, DatabaseTypeOK
    <3>3. CASE ~ SqlFails(p, "tables")
      <4>1. /\ disk' = [disk EXCEPT ![handle[p]] = [disk[handle[p]] EXCEPT !.stage = "tables"]]
            /\ UNCHANGED <<path, handle, statement, cut>>
        BY <2>5, <3>3 DEF CreateTables
      <4>2. [disk[handle[p]] EXCEPT !.stage = "tables"] \in Content
        BY <3>1, TablesIsContent DEF File
      <4>3. QED
        BY <3>1, <4>1, <4>2 DEF TypeInv, LegacyTypeOK, DatabaseTypeOK
    <3>4. QED
      BY <3>2, <3>3
  <2>6. CASE InsertRows(p)
    <3>1. handle[p] \in Files /\ File(p) \in Content
      <4>1. pc[p] \in OpenPcs
        BY <2>6 DEF InsertRows, SqlFails, Goes, OpenPcs
      <4>2. QED
        BY <4>1, FileIsContent
    <3>2. CASE SqlFails(p, "rows")
      BY <3>2, SMT DEF SqlFails, Removed, TypeInv, LegacyTypeOK, DatabaseTypeOK
    <3>3. CASE ~ SqlFails(p, "rows")
      <4>1. /\ disk' = [disk EXCEPT ![handle[p]] = Configured(disk[handle[p]])]
            /\ handle' = [handle EXCEPT ![p] = NoFile] /\ UNCHANGED <<path, statement, cut>>
        BY <2>6, <3>3 DEF InsertRows
      <4>2. Configured(disk[handle[p]]) \in Content
        BY <3>1, ConfiguredIsContent DEF File
      <4>3. QED
        BY <3>1, <4>1, <4>2 DEF TypeInv, LegacyTypeOK, DatabaseTypeOK
    <3>4. QED
      BY <3>2, <3>3
  <2>7. QED
    BY <2>1, <2>2, <2>3, <2>4, <2>5, <2>6 DEF Checker
<1>4. LegacyTypeOK'
  BY <1>1, <1>2, <1>3 DEF TypeInv, LegacyTypeOK
<1>5. \A q \in Processes \ {p} : handle'[q] = handle[q] /\ statement'[q] = statement[q]
  BY Zenon DEF Checker, Access, Create, Chown, Connect, CreateTables, InsertRows, SqlFails, files,
     TypeInv, LegacyTypeOK, DatabaseTypeOK
<1>6. pc'[p] \in {"tables", "rows"} => handle'[p] # NoFile
  <2>1. CASE pc'[p] = "tables"
    <3>1. Connect(p) /\ path # NoFile /\ handle' = [handle EXCEPT ![p] = path]
      BY <1>2, <2>1 DEF Checker, Access, Create, Chown, Connect, CreateTables, InsertRows, SqlFails, Goes
    <3>2. QED
      BY <3>1 DEF TypeInv, LegacyTypeOK, DatabaseTypeOK
  <2>2. CASE pc'[p] = "rows"
    <3>1. handle' = handle /\ pc[p] = "tables"
      BY <1>2, <2>2 DEF Checker, Access, Create, Chown, Connect, CreateTables, InsertRows, SqlFails, Goes
    <3>2. QED
      BY <3>1 DEF TypeInv, Ready, OpenPcs
  <2>3. QED
    BY <2>1, <2>2
<1>7. Ready(p)'
  <2>1. program'[p] = "gawake-cli"
    BY <1>1, <1>2 DEF TypeInv, Ready
  <2>2. QED
    BY <1>2, <1>6, <2>1, SMT DEF Ready, OpenPcs, TimedPcs, LookupPcs, CheckerPcs, MenuPcs
<1>8. QED
  BY <1>1, <1>2, <1>4, <1>5, <1>7, ReadyStays, Zenon DEF OwnStays

\* The menu.
LEMMA OpenType ==
  ASSUME TypeInv, NEW p \in Processes, Open(p)
  PROVE  TypeInv'
<1>1. CASE Exit(p)
  BY <1>1, ExitType
<1>2. CASE ~ Exit(p)
  <2>1. /\ path # NoFile /\ Goes(p, "open", "menu")
        /\ handle' = [handle EXCEPT ![p] = path]
        /\ UNCHANGED <<path, disk, statement, cut, program, edit, job, stable, bounds>>
    BY <1>2 DEF Open
  <2>2. "menu" \in Pcs
    BY DEF Pcs, MenuPcs
  <2>3. LegacyTypeOK'
    BY <2>1, <2>2, GoesType DEF TypeInv, LegacyTypeOK, DatabaseTypeOK, bounds
  <2>4. program[p] = "gawake-cli"
    BY <2>1 DEF TypeInv, Ready, Goes, MenuPcs
  <2>5. Ready(p)'
    BY <2>1, <2>2, <2>4, GoesType, SMT DEF Ready, TimedPcs, LookupPcs, TypeInv, LegacyTypeOK, DatabaseTypeOK
  <2>6. QED
    BY <2>1, <2>2, <2>3, <2>5, GoesType, ReadyStays, Zenon DEF OwnStays, TypeInv, LegacyTypeOK, DatabaseTypeOK
<1>3. QED
  BY <1>1, <1>2

LEMMA ResetType ==
  ASSUME TypeInv, NEW p \in Processes, Reset(p)
  PROVE  TypeInv'
<1>1. /\ Goes(p, "menu", "access") /\ path' = NoFile
      /\ handle' = [handle EXCEPT ![p] = NoFile] /\ statement' = [statement EXCEPT ![p] = FALSE]
      /\ UNCHANGED <<disk, cut, program, edit, job, stable, starts, writes>>
  BY DEF Reset, Removed, bounds
<1>2. "access" \in Pcs
  BY DEF Pcs, CheckerPcs
<1>3. LegacyTypeOK'
  BY <1>1, <1>2, GoesType DEF TypeInv, LegacyTypeOK, DatabaseTypeOK
<1>4. program[p] = "gawake-cli"
  BY <1>1 DEF TypeInv, Ready, Goes, MenuPcs
<1>5. Ready(p)'
  BY <1>1, <1>2, <1>4, GoesType, SMT DEF Ready, OpenPcs, TimedPcs, LookupPcs
<1>6. QED
  BY <1>1, <1>2, <1>3, <1>5, GoesType, ReadyStays, Zenon DEF OwnStays, TypeInv, LegacyTypeOK, DatabaseTypeOK

LEMMA ChooseEditType ==
  ASSUME TypeInv, NEW p \in Processes, ChooseEdit(p)
  PROVE  TypeInv'
<1>1. /\ Goes(p, "menu", "write")
      /\ UNCHANGED <<path, disk, handle, cut, program, job, stable, starts, writes>>
  BY DEF ChooseEdit, bounds
<1>2. PICK op \in {"add", "remove", "edit"}, t \in Tables, i \in Ids :
        \/ /\ SelectLeft(p)
           /\ edit' = [edit EXCEPT ![p] = [op |-> op, table |-> t, id |-> i, found |-> TRUE]]
        \/ /\ UNCHANGED statement
           /\ edit' = [edit EXCEPT ![p] = [op |-> op, table |-> t, id |-> i, found |-> FALSE]]
  BY Zenon DEF ChooseEdit
<1> DEFINE e(b) == [op |-> op, table |-> t, id |-> i, found |-> b]
<1>3. PICK b \in BOOLEAN : edit' = [edit EXCEPT ![p] = e(b)]
  BY <1>2
<1>4. e(b) \in Edit /\ e(b).op # "none"
  BY ProgramsAssumption, SMT DEF Edit
<1>5. /\ statement' \in [Processes -> BOOLEAN]
      /\ \A q \in Processes \ {p} : statement'[q] = statement[q]
  BY <1>2 DEF SelectLeft, TypeInv, LegacyTypeOK, DatabaseTypeOK
<1> HIDE DEF e
<1>6. "write" \in Pcs
  BY DEF Pcs, MenuPcs
<1>7. LegacyTypeOK'
  BY <1>1, <1>6, <1>3, <1>4, <1>5, GoesType DEF TypeInv, LegacyTypeOK, DatabaseTypeOK
<1>8. program[p] = "gawake-cli" /\ handle[p] # NoFile
  BY <1>1 DEF TypeInv, Ready, Goes, MenuPcs, OpenPcs
<1>9. edit'[p] = e(b)
  BY <1>3 DEF TypeInv, LegacyTypeOK
<1>10. Ready(p)'
  BY <1>1, <1>6, <1>8, <1>9, <1>4, GoesType, SMT DEF Ready, TimedPcs, LookupPcs
<1>11. \A q \in Processes \ {p} : edit'[q] = edit[q]
  BY <1>3 DEF TypeInv, LegacyTypeOK
<1>12. QED
  BY <1>1, <1>6, <1>7, <1>10, <1>11, <1>5, GoesType, ReadyStays, Zenon DEF OwnStays

\* What a statement that is executed may do.
LEMMA ExecType ==
  ASSUME TypeInv, NEW p \in Processes, pc[p] \in OpenPcs, NEW c \in Content, Exec(p, c)
  PROVE  disk' \in [Files -> Content] /\ stable' \in [Processes -> SUBSET Row]
         /\ writes' \in 0..MaxWrites
<1>1. CASE UNCHANGED <<disk, stable, writes>>
  BY <1>1 DEF TypeInv, LegacyTypeOK, DatabaseTypeOK
<1>2. CASE ~ UNCHANGED <<disk, stable, writes>>
  <2>1. /\ writes < MaxWrites /\ writes' = writes + 1
        /\ disk' = [disk EXCEPT ![handle[p]] = c]
        /\ stable' = [q \in Processes |->
                        IF handle[q] = handle[p] THEN stable[q] \cap c.rows["turnon"]
                                                 ELSE stable[q]]
    BY <1>2 DEF Exec
  <2>2. writes' \in 0..MaxWrites
    BY <2>1, ProgramsAssumption, SMT DEF TypeInv, LegacyTypeOK
  <2>3. disk' \in [Files -> Content]
    BY <2>1 DEF TypeInv, LegacyTypeOK, DatabaseTypeOK
  <2>4. ASSUME NEW q \in Processes PROVE stable[q] \cap c.rows["turnon"] \in SUBSET Row
    BY DEF TypeInv, LegacyTypeOK
  <2>5. stable' \in [Processes -> SUBSET Row]
    BY <2>1, <2>4, Zenon DEF TypeInv, LegacyTypeOK
  <2>6. QED
    BY <2>2, <2>3, <2>5
<1>3. QED
  BY <1>1, <1>2

LEMMA WriteEditType ==
  ASSUME TypeInv, NEW p \in Processes, WriteEdit(p)
  PROVE  TypeInv'
<1>1. /\ Goes(p, "write", "menu") /\ edit' = [edit EXCEPT ![p] = NoEdit]
      /\ UNCHANGED <<path, handle, statement, cut, program, job, starts>>
  BY DEF WriteEdit
<1>2. PICK r \in NewRules[edit[p].table] : Exec(p, Edited(File(p), edit[p], r))
  BY DEF WriteEdit
<1>3. pc[p] = "write" /\ pc[p] \in OpenPcs /\ program[p] = "gawake-cli" /\ handle[p] # NoFile
  BY <1>1 DEF Goes, OpenPcs, MenuPcs, TypeInv, Ready
<1>4. Edited(File(p), edit[p], r) \in Content
  BY <1>3, FileIsContent, EditedIsContent, Zenon DEF TypeInv, LegacyTypeOK, Ready
<1>5. "menu" \in Pcs
  BY DEF Pcs, MenuPcs
<1>6. LegacyTypeOK'
  BY <1>1, <1>2, <1>3, <1>4, <1>5, ExecType, GoesType, NoEditIsEdit, Zenon
     DEF TypeInv, LegacyTypeOK, DatabaseTypeOK
<1>7. Ready(p)'
  BY <1>1, <1>3, <1>5, GoesType, SMT DEF Ready, TimedPcs, LookupPcs
<1>8. QED
  BY <1>1, <1>5, <1>6, <1>7, GoesType, ReadyStays, Zenon DEF OwnStays, TypeInv, LegacyTypeOK

LEMMA ConfigureType ==
  ASSUME TypeInv, NEW p \in Processes, Configure(p)
  PROVE  TypeInv'
<1>1. pc[p] = "menu" /\ UNCHANGED <<path, handle, statement, cut, pc, program, edit, job, starts>>
  BY DEF Configure
<1>2. PICK c \in Choices, column \in {"status", "commands", "def_mode"} :
        Exec(p, [File(p) EXCEPT !.config[column] = c[column]])
  BY DEF Configure
<1>3. File(p) \in Content /\ pc[p] \in OpenPcs
  BY <1>1, FileIsContent DEF OpenPcs
<1>4. [File(p) EXCEPT !.config[column] = c[column]] \in Content
  BY <1>3, ConfigIsContent, ProgramsAssumption, Zenon
<1>5. LegacyTypeOK'
  BY <1>1, <1>2, <1>3, <1>4, ExecType, Zenon DEF TypeInv, LegacyTypeOK, DatabaseTypeOK
<1>6. QED
  BY <1>1, <1>5, Zenon DEF TypeInv, Ready, Schedules

LEMMA ScheduleNowType ==
  ASSUME TypeInv, NEW p \in Processes, ScheduleNow(p)
  PROVE  TypeInv'
<1>1. /\ Goes(p, "menu", "settings")
      /\ UNCHANGED <<path, disk, handle, statement, cut, program, edit, job, stable, starts, writes>>
  BY DEF ScheduleNow, files, bounds
<1>2. "settings" \in Pcs
  BY DEF Pcs, JobPcs
<1>3. program[p] = "gawake-cli" /\ handle[p] # NoFile
  BY <1>1 DEF TypeInv, Ready, Goes, MenuPcs, OpenPcs
<1>4. Ready(p)'
  BY <1>1, <1>2, <1>3, GoesType, SMT DEF Ready, TimedPcs, LookupPcs, CheckerPcs, MenuPcs, Schedules
<1>5. QED
  BY <1>1, <1>2, <1>4, GoesType, ReadyStays, Zenon DEF OwnStays, TypeInv, LegacyTypeOK, DatabaseTypeOK

\* The lookups.
LEMMA LeaveType ==
  ASSUME TypeInv, NEW p \in Processes, pc[p] \in OpenPcs, Leave(p)
  PROVE  TypeInv'
<1>1. CASE Exit(p)
  BY <1>1, ExitType
<1>2. CASE ~ Exit(p)
  <2>1. /\ program[p] = "gawake-cli" /\ pc' = [pc EXCEPT ![p] = "menu"]
        /\ job' = [job EXCEPT ![p] = NoJob] /\ stable' = [stable EXCEPT ![p] = {}]
        /\ UNCHANGED <<path, disk, handle, statement, cut, program, edit, starts, writes>>
    BY <1>2 DEF Leave, ForMenu, files, bounds
  <2>2. NoJob \in Job /\ "menu" \in Pcs
    BY SMT DEF NoJob, Asked, Job, Modes, Pcs, MenuPcs
  <2>3. LegacyTypeOK' /\ pc'[p] = "menu" /\ \A q \in Processes \ {p} : OwnStays(q)
    BY <2>1, <2>2 DEF TypeInv, LegacyTypeOK, DatabaseTypeOK, OwnStays
  <2>4. Ready(p)'
    BY <2>1, <2>3, SMT DEF TypeInv, Ready, TimedPcs, LookupPcs
  <2>5. QED
    BY <2>3, <2>4, ReadyStays, Zenon
<1>3. QED
  BY <1>1, <1>2

LEMMA OpenFileType ==
  ASSUME TypeInv, NEW p \in Processes, OpenFile(p)
  PROVE  TypeInv'
<1>1. CASE Exit(p)
  BY <1>1, ExitType
<1>2. CASE ~ Exit(p)
  <2>1. /\ path # NoFile /\ Goes(p, "opening", "settings")
        /\ handle' = [handle EXCEPT ![p] = path]
        /\ UNCHANGED <<path, disk, statement, cut, program, edit, job, stable, starts, writes>>
    BY <1>2 DEF OpenFile, bounds
  <2>2. "settings" \in Pcs
    BY DEF Pcs, JobPcs
  <2>3. LegacyTypeOK' /\ handle'[p] = path
    BY <2>1, <2>2, GoesType DEF TypeInv, LegacyTypeOK, DatabaseTypeOK
  <2>4. Schedules(p) \/ job[p].now # NoTime
    BY <2>1 DEF TypeInv, Ready, Goes
  <2>5. Ready(p)'
    BY <2>1, <2>2, <2>3, <2>4, GoesType, SMT DEF Ready, TimedPcs, LookupPcs, CheckerPcs, MenuPcs, Schedules
  <2>6. QED
    BY <2>1, <2>2, <2>3, <2>5, GoesType, ReadyStays, Zenon DEF OwnStays, TypeInv, LegacyTypeOK, DatabaseTypeOK
<1>3. QED
  BY <1>1, <1>2

LEMMA JobType ==
  ASSUME TypeInv, NEW p \in Processes, pc[p] \in OpenPcs,
         NEW to \in {"match", "today", "later", "found", "command"}, pc' = [pc EXCEPT ![p] = to],
         NEW j \in Job, job' = [job EXCEPT ![p] = j],
         to \in TimedPcs => j.now # NoTime, to = "later" => j.day # 0,
         stable' \in [Processes -> SUBSET Row],
         UNCHANGED <<files, program, edit, bounds>>
  PROVE  TypeInv'
<1>1. UNCHANGED <<path, disk, handle, statement, cut, program, edit, starts, writes>>
  BY DEF files, bounds
<1>2. to \in Pcs
  BY DEF Pcs, JobPcs, LookupPcs
<1>3. LegacyTypeOK' /\ \A q \in Processes \ {p} : OwnStays(q)
  BY <1>1, <1>2 DEF TypeInv, LegacyTypeOK, DatabaseTypeOK, OwnStays
<1>4. pc'[p] = to /\ job'[p] = j /\ handle'[p] # NoFile
  BY <1>1 DEF TypeInv, LegacyTypeOK, Ready
<1>5. Ready(p)'
  BY <1>1, <1>4, SMT DEF Ready, TimedPcs, LookupPcs, CheckerPcs, MenuPcs
<1>6. QED
  BY <1>3, <1>5, ReadyStays, Zenon

LEMMA ConfigRowType ==
  ASSUME NEW p \in Processes, File(p) \in Content
  PROVE  ConfigRow(p).def_mode \in Modes \cup {"unset"}
  BY SMT DEF ConfigRow, Content, Config

\* The rows a lookup begins with.
LEMMA LookupType ==
  ASSUME TypeInv, NEW p \in Processes, pc[p] \in OpenPcs, NEW from, Lookup(p, from)
  PROVE  /\ stable' \in [Processes -> SUBSET Row]
         /\ pc[p] = from /\ pc' = [pc EXCEPT ![p] = "today"]
         /\ stable'[p] = File(p).rows["turnon"]
         /\ \A q \in Processes \ {p} : stable'[q] = stable[q]
<1>1. File(p).rows["turnon"] \in SUBSET Row
  BY FileIsContent, SMT DEF Content, Tables
<1>2. QED
  BY <1>1 DEF Lookup, Goes, TypeInv, LegacyTypeOK

LEMMA SettingsType ==
  ASSUME TypeInv, NEW p \in Processes, Settings(p)
  PROVE  TypeInv'
<1>1. pc[p] = "settings" /\ pc[p] \in OpenPcs
  BY DEF Settings, OpenPcs
<1>2. CASE Leave(p)
  BY <1>1, <1>2, LeaveType
<1>3. CASE ~ Leave(p)
  <2> DEFINE m == ConfigRow(p).def_mode
  <2>1. m \in Modes \cup {"unset"}
    BY <1>1, FileIsContent, ConfigRowType
  <2>2. UNCHANGED <<files, program, edit, bounds>>
    BY <1>3 DEF Settings
  <2>3. ASSUME Lookup(p, "settings"), NEW t \in Times,
               job' = [job EXCEPT ![p] = [Asked(t) EXCEPT !.mode = m]]
        PROVE  TypeInv'
    <3>1. t \in Nat
      BY ProgramsAssumption
    <3>2. [Asked(t) EXCEPT !.mode = m] \in Job /\ [Asked(t) EXCEPT !.mode = m].now # NoTime
      BY <2>1, <3>1, JobsStart, TimeIsNoNoTime
    <3>3. QED
      BY <1>1, <2>2, <2>3, <3>2, LookupType, JobType
  <2>4. ASSUME ~ Schedules(p), Goes(p, "settings", "match"), UNCHANGED stable,
               job' = [job EXCEPT ![p] = [job[p] EXCEPT !.mode = m]]
        PROVE  TypeInv'
    <3>1. job[p] \in Job /\ job[p].now # NoTime
      BY <1>1, <2>4 DEF TypeInv, LegacyTypeOK, Ready
    <3>2. [job[p] EXCEPT !.mode = m] \in Job /\ [job[p] EXCEPT !.mode = m].now # NoTime
      BY <2>1, <3>1, JobMode
    <3>3. stable' \in [Processes -> SUBSET Row] /\ pc' = [pc EXCEPT ![p] = "match"]
      BY <2>4 DEF Goes, TypeInv, LegacyTypeOK
    <3>4. QED
      BY <1>1, <2>2, <2>4, <3>2, <3>3, JobType
  <2>5. QED
    BY <1>3, <2>3, <2>4 DEF Settings
<1>4. QED
  BY <1>2, <1>3

LEMMA MatchOffType ==
  ASSUME TypeInv, NEW p \in Processes, MatchOff(p)
  PROVE  TypeInv'
<1>1. CASE Exit(p)
  BY <1>1, ExitType
<1>2. CASE ~ Exit(p)
  <2>1. Lookup(p, "match") /\ UNCHANGED <<files, program, edit, job, bounds>>
    BY <1>2 DEF MatchOff
  <2>2. pc[p] = "match" /\ pc[p] \in OpenPcs
    BY <2>1 DEF Lookup, Goes, OpenPcs
  <2>3. job[p] \in Job /\ job[p].now # NoTime /\ job' = [job EXCEPT ![p] = job[p]]
    BY <2>1, <2>2 DEF TypeInv, LegacyTypeOK, Ready, TimedPcs
  <2>4. QED
    BY <2>1, <2>2, <2>3, LookupType, JobType
<1>3. QED
  BY <1>1, <1>2

LEMMA MatchOnType ==
  ASSUME TypeInv, NEW p \in Processes, MatchOn(p)
  PROVE  TypeInv'
<1>1. CASE Exit(p)
  BY <1>1, ExitType
<1>2. CASE ~ Exit(p)
  <2>1. Goes(p, "match", "command") /\ UNCHANGED <<files, program, edit, job, stable, bounds>>
    BY <1>2 DEF MatchOn
  <2>2. pc[p] \in OpenPcs /\ pc' = [pc EXCEPT ![p] = "command"]
    BY <2>1 DEF Goes, OpenPcs
  <2>3. job[p] \in Job /\ job' = [job EXCEPT ![p] = job[p]] /\ stable' \in [Processes -> SUBSET Row]
    BY <2>1 DEF TypeInv, LegacyTypeOK
  <2>4. QED
    BY <2>1, <2>2, <2>3, JobType DEF TimedPcs, LookupPcs
<1>3. QED
  BY <1>1, <1>2

\* What a row that is found leads to.
LEMMA FindsJob ==
  ASSUME TypeInv, NEW p \in Processes, NEW rows \in SUBSET Row, NEW ahead \in Nat,
         pc[p] \in LookupPcs, Finds(p, rows, ahead)
  PROVE  /\ pc' = [pc EXCEPT ![p] = "found"]
         /\ \E r \in rows, clock \in Nat, j \in Job :
              /\ job' = [job EXCEPT ![p] = j] /\ j.now = job[p].now
              /\ j.clock = clock /\ j.wake = At(Date(clock) + ahead, r.time)
<1>1. job[p] \in Job /\ job[p].now \in Nat
  BY SMT DEF TypeInv, LegacyTypeOK, Ready, TimedPcs, Job
<1>2. PICK r \in rows, d \in Delays :
        job' = [job EXCEPT ![p] = [job[p] EXCEPT !.clock = job[p].now + d,
                                     !.wake = At(Date(job[p].now + d) + ahead, r.time)]]
  BY DEF Finds
<1> DEFINE clock == job[p].now + d
           wake  == At(Date(clock) + ahead, r.time)
           j     == [job[p] EXCEPT !.clock = clock, !.wake = wake]
<1>3. clock \in Nat
  BY <1>1, ProgramsAssumption, SMT
<1> HIDE DEF clock
<1>4. wake \in Nat
  <2>1. Date(clock) + ahead \in Nat /\ r.time \in Seconds
    BY <1>3, DateAndTime, SMT DEF Row
  <2>2. QED
    BY <2>1, AtIsMoment, Zenon
<1> HIDE DEF wake
<1>5. job' = [job EXCEPT ![p] = j] /\ j = [job[p] EXCEPT !.clock = clock, !.wake = wake]
  BY <1>2 DEF clock, wake
<1> HIDE DEF j
<1>6. j \in Job /\ j.now = job[p].now /\ j.clock = clock /\ j.wake = wake
  <2> DEFINE i == [job[p] EXCEPT !.clock = clock]
  <2>1. i \in Job /\ i.now = job[p].now /\ i.clock = clock
    BY <1>1, <1>3, SMT DEF Job
  <2>2. j = [i EXCEPT !.wake = wake]
    BY <1>5
  <2> HIDE DEF i
  <2>3. QED
    BY <1>4, <2>1, <2>2, SMT DEF Job
<1>7. pc' = [pc EXCEPT ![p] = "found"]
  BY DEF Finds
<1>8. wake = At(Date(clock) + ahead, r.time)
  BY DEF wake
<1>9. QED
  BY <1>3, <1>5, <1>6, <1>7, <1>8

LEMMA RowsType ==
  ASSUME TypeInv, NEW p \in Processes, pc[p] \in LookupPcs
  PROVE  /\ File(p).rows["turnon"] \in SUBSET Row
         /\ LaterToday(File(p).rows["turnon"], job[p].now) \in SUBSET File(p).rows["turnon"]
         /\ Ahead(File(p).rows["turnon"], job[p].now, job[p].day) \in SUBSET File(p).rows["turnon"]
<1>1. File(p) \in Content
  BY FileIsContent DEF OpenPcs
<1>2. File(p).rows["turnon"] \in SUBSET Row
  BY <1>1, SMT DEF Content, Tables
<1>3. QED
  BY <1>2 DEF LaterToday, Ahead, First, Enabled

LEMMA TodayType ==
  ASSUME TypeInv, NEW p \in Processes, Today(p)
  PROVE  TypeInv'
<1>1. pc[p] = "today" /\ pc[p] \in OpenPcs /\ pc[p] \in LookupPcs
  BY DEF Today, OpenPcs, LookupPcs
<1>2. CASE Leave(p)
  BY <1>1, <1>2, LeaveType
<1>3. CASE ~ Leave(p)
  <2> DEFINE rows == LaterToday(File(p).rows["turnon"], job[p].now)
  <2>1. /\ UNCHANGED <<files, program, edit, stable, bounds>>
        /\ \/ Finds(p, rows, 0)
           \/ /\ pc' = [pc EXCEPT ![p] = "later"]
              /\ job' = [job EXCEPT ![p] = [job[p] EXCEPT !.day = 1]]
    BY <1>3 DEF Today
  <2>2. rows \in SUBSET Row
    BY <1>1, RowsType
  <2>3. stable' \in [Processes -> SUBSET Row] /\ job[p] \in Job /\ job[p].now # NoTime
    BY <1>1, <2>1 DEF TypeInv, LegacyTypeOK, Ready, TimedPcs
  <2> HIDE DEF rows
  <2>4. CASE Finds(p, rows, 0)
    <3>1. /\ pc' = [pc EXCEPT ![p] = "found"]
          /\ \E j \in Job : job' = [job EXCEPT ![p] = j]
      BY <1>1, <2>2, <2>4, FindsJob
    <3>2. QED
      BY <1>1, <2>1, <2>3, <3>1, JobType DEF TimedPcs, LookupPcs
  <2>5. CASE pc' = [pc EXCEPT ![p] = "later"] /\ job' = [job EXCEPT ![p] = [job[p] EXCEPT !.day = 1]]
    <3> DEFINE j == [job[p] EXCEPT !.day = 1]
    <3>1. j \in Job /\ j.now = job[p].now /\ j.day # 0
      <4>1. 1 \in 0..7 /\ 1 # 0
        BY SMT
      <4>2. QED
        BY <2>3, <4>1, JobDay, Zenon
    <3>2. job' = [job EXCEPT ![p] = j]
      BY <2>5
    <3> HIDE DEF j
    <3>3. QED
      BY <1>1, <2>1, <2>3, <2>5, <3>1, <3>2, JobType
  <2>6. QED
    BY <2>1, <2>4, <2>5
<1>4. QED
  BY <1>2, <1>3

LEMMA LaterType ==
  ASSUME TypeInv, NEW p \in Processes, Later(p)
  PROVE  TypeInv'
<1>1. pc[p] = "later" /\ pc[p] \in OpenPcs /\ pc[p] \in LookupPcs
  BY DEF Later, OpenPcs, LookupPcs, Leave, Ends
<1>2. CASE Leave(p)
  BY <1>1, <1>2, LeaveType
<1>3. CASE ~ Leave(p)
  <2> DEFINE rows == Ahead(File(p).rows["turnon"], job[p].now, job[p].day)
  <2>1. /\ UNCHANGED <<files, program, edit, stable, bounds>>
        /\ \/ Finds(p, rows, job[p].day)
           \/ /\ pc' = pc /\ job[p].day < LastDay
              /\ job' = [job EXCEPT ![p] = [job[p] EXCEPT !.day = job[p].day + 1]]
    BY <1>3 DEF Later
  <2>2. rows \in SUBSET Row
    BY <1>1, RowsType
  <2>3. /\ stable' \in [Processes -> SUBSET Row] /\ job[p] \in Job /\ job[p].now # NoTime
        /\ pc = [pc EXCEPT ![p] = "later"]
    BY <1>1, <2>1 DEF TypeInv, LegacyTypeOK, Ready, TimedPcs
  <2>4. job[p].day \in 0..7 /\ job[p].day \in Nat
    BY <2>3, SMT DEF Job
  <2> HIDE DEF rows
  <2>5. CASE Finds(p, rows, job[p].day)
    <3>1. /\ pc' = [pc EXCEPT ![p] = "found"]
          /\ \E j \in Job : job' = [job EXCEPT ![p] = j]
      BY <1>1, <2>2, <2>4, <2>5, FindsJob
    <3>2. QED
      BY <1>1, <2>1, <2>3, <3>1, JobType DEF TimedPcs, LookupPcs
  <2>6. CASE /\ pc' = pc /\ job[p].day < LastDay
             /\ job' = [job EXCEPT ![p] = [job[p] EXCEPT !.day = job[p].day + 1]]
    <3> DEFINE d == job[p].day + 1
               j == [job[p] EXCEPT !.day = d]
    <3>1. d \in 0..7 /\ d # 0
      BY <2>4, <2>6, SMT DEF LastDay
    <3> HIDE DEF d
    <3>2. j \in Job /\ j.now = job[p].now /\ j.day # 0
      BY <2>3, <3>1, JobDay, Zenon
    <3>3. job' = [job EXCEPT ![p] = j]
      BY <2>6 DEF d
    <3> HIDE DEF j
    <3>4. QED
      BY <1>1, <2>1, <2>3, <2>6, <3>2, <3>3, JobType
  <2>7. QED
    BY <2>1, <2>5, <2>6
<1>4. QED
  BY <1>2, <1>3

LEMMA BeforeSleepType ==
  ASSUME TypeInv, NEW p \in Processes, BeforeSleep(p)
  PROVE  TypeInv'
<1>1. /\ Goes(p, "found", "sleep") /\ stable' = [stable EXCEPT ![p] = {}]
      /\ handle' = [handle EXCEPT ![p] = IF Schedules(p) /\ ~ statement[p] THEN NoFile
                                                                          ELSE handle[p]]
      /\ job' = [job EXCEPT ![p] = [NoJob EXCEPT !.mode = job[p].mode]]
      /\ UNCHANGED <<path, disk, statement, cut, program, edit, starts, writes>>
  BY DEF BeforeSleep, bounds
<1>2. "sleep" \in Pcs
  BY DEF Pcs, JobPcs
<1>3. job[p].mode \in Modes \cup {"unset"}
  <2>1. job[p] \in Job
    BY DEF TypeInv, LegacyTypeOK
  <2>2. QED
    BY <2>1, SMT DEF Job
<1>4. [NoJob EXCEPT !.mode = job[p].mode] \in Job
  <2>1. NoJob \in Job
    BY SMT DEF NoJob, Asked, Job, Modes
  <2>2. QED
    BY <1>3, <2>1, JobMode, Zenon
<1>5. LegacyTypeOK'
  BY <1>1, <1>2, <1>4, GoesType DEF TypeInv, LegacyTypeOK, DatabaseTypeOK
<1>6. Ready(p)'
  BY <1>1, <1>2, GoesType, SMT DEF Ready, OpenPcs, TimedPcs, LookupPcs, CheckerPcs, MenuPcs
<1>7. QED
  BY <1>1, <1>2, <1>5, <1>6, GoesType, ReadyStays, Zenon DEF OwnStays, TypeInv, LegacyTypeOK,
     DatabaseTypeOK

LEMMA RtcwakeType ==
  ASSUME TypeInv, NEW p \in Processes, Rtcwake(p)
  PROVE  TypeInv'
<1>1. {q \in Processes : pc[q] # "idle"} \in SUBSET Processes
  OBVIOUS
<1>2. QED
  BY <1>1, EndsType, ExitType DEF Rtcwake

LEMMA NextType ==
  ASSUME TypeInv, [Next]_vars
  PROVE  TypeInv'
<1>1. CASE UNCHANGED vars
  BY <1>1, Zenon DEF vars, files, TypeInv, LegacyTypeOK, DatabaseTypeOK, Ready, Schedules
<1>2. ASSUME NEW p \in Processes,
             \/ Interrupt(p) \/ Quit(p) \/ RunTurnOn(p)
      PROVE  TypeInv'
  BY <1>2, ExitType DEF Interrupt, Quit, RunTurnOn
<1>3. QED
  BY <1>1, <1>2, StartType, CheckerType, OpenType, ResetType, ChooseEditType, WriteEditType,
     ConfigureType, ScheduleNowType, OpenFileType, SettingsType, MatchOffType, MatchOnType,
     TodayType, LaterType, BeforeSleepType, RtcwakeType, Zenon DEF Next, Step, Over

\* The programs' states, the files and what is known of them stay in their
\* types: no program reads a file it has not opened, or a time it has not read.
THEOREM LegacyTypeCorrect == Spec => []LegacyTypeOK
<1>1. Init => TypeInv
  BY LegacyInitType
<1>2. TypeInv /\ [Next]_vars => TypeInv'
  BY NextType
<1>3. TypeInv => LegacyTypeOK
  BY DEF TypeInv
<1>4. QED
  BY <1>1, <1>2, <1>3, PTL DEF Spec

-----------------------------------------------------------------------------
(* What a step changes of those who do not take it.                        *)

LEMMA EndsOthers ==
  ASSUME TypeInv, NEW gone \in SUBSET Processes, Ends(gone), NEW p \in Processes
  PROVE  pc'[p] = "idle" \/ (OwnStays(p) /\ stable'[p] = stable[p])
<1>1. CASE p \in gone
  BY <1>1 DEF Ends, End
<1>2. CASE p \notin gone
  BY <1>2, Zenon DEF Ends, End, OwnStays, TypeInv, LegacyTypeOK, DatabaseTypeOK
<1>3. QED
  BY <1>1, <1>2

\* A step of one leaves another as it is, or ends it.
LEMMA StepLeavesOthers ==
  ASSUME TypeInv, NEW q \in Processes, Step(q), ~ Exit(q), ~ Rtcwake(q),
         NEW p \in Processes \ {q}
  PROVE  OwnStays(p)
<1> USE DEF OwnStays, TypeInv, LegacyTypeOK, DatabaseTypeOK, files, bounds
<1>1. CASE Start(q)
  BY <1>1, Zenon DEF Start
<1>2. CASE Checker(q)
  <2>1. UNCHANGED <<program, edit, job>>
    BY <1>2 DEF Checker
  <2>2. pc'[p] = pc[p]
    BY <1>2, Zenon DEF Checker, Access, Create, Chown, Connect, CreateTables, InsertRows, SqlFails, Goes
  <2>3. handle'[p] = handle[p] /\ statement'[p] = statement[p]
    BY <1>2, Zenon DEF Checker, Access, Create, Chown, Connect, CreateTables, InsertRows, SqlFails
  <2>4. QED
    BY <2>1, <2>2, <2>3
<1>3. CASE Open(q) \/ OpenFile(q)
  BY <1>3, Zenon DEF Open, OpenFile, Goes
<1>4. CASE Reset(q)
  BY <1>4, Zenon DEF Reset, Goes
<1>5. CASE ChooseEdit(q)
  BY <1>5, Zenon DEF ChooseEdit, Goes, SelectLeft
<1>6. CASE WriteEdit(q)
  BY <1>6, Zenon DEF WriteEdit, Goes
<1>7. CASE Configure(q) \/ ScheduleNow(q)
  BY <1>7, Zenon DEF Configure, ScheduleNow, Goes
<1>8. CASE Settings(q)
  BY <1>8, Zenon DEF Settings, Leave, Lookup, Goes
<1>9. CASE MatchOff(q) \/ MatchOn(q)
  BY <1>9, Zenon DEF MatchOff, MatchOn, Lookup, Goes
<1>10. CASE Today(q)
  BY <1>10, Zenon DEF Today, Finds, Leave
<1>11. CASE Later(q)
  BY <1>11, Zenon DEF Later, Finds, Leave
<1>12. CASE BeforeSleep(q)
  BY <1>12, Zenon DEF BeforeSleep, Goes
<1>13. QED
  BY <1>1, <1>2, <1>3, <1>4, <1>5, <1>6, <1>7, <1>8, <1>9, <1>10, <1>11, <1>12,
     Zenon DEF Step, Interrupt, Quit, RunTurnOn

LEMMA StepEnds ==
  ASSUME NEW q \in Processes, Exit(q) \/ Rtcwake(q)
  PROVE  \E gone \in SUBSET Processes : Ends(gone)
<1>1. {q} \in SUBSET Processes /\ {r \in Processes : pc[r] # "idle"} \in SUBSET Processes
  OBVIOUS
<1>2. QED
  BY <1>1, Zenon DEF Exit, Rtcwake

LEMMA StepOfAnother ==
  ASSUME TypeInv, NEW q \in Processes, Step(q), NEW p \in Processes \ {q}
  PROVE  pc'[p] = "idle" \/ OwnStays(p)
  BY StepLeavesOthers, StepEnds, EndsOthers, Zenon

\* So who goes on to another place has taken the step.
LEMMA WhoGoesSteps ==
  ASSUME TypeInv, [Next]_vars, NEW p \in Processes, pc'[p] # pc[p], pc'[p] # "idle"
  PROVE  Step(p)
<1>1. ~ UNCHANGED vars /\ ~ Over
  BY DEF vars, Over
<1>2. PICK q \in Processes : Step(q)
  BY <1>1 DEF Next
<1>3. p = q
  BY <1>2, StepOfAnother DEF OwnStays
<1>4. QED
  BY <1>2, <1>3

LEMMA WhoMatches ==
  ASSUME NEW p \in Processes, Step(p), TypeInv, pc[p] = "match", pc'[p] = "command"
  PROVE  MatchOn(p) /\ ~ Exit(p)
<1>1. ~ Exit(p)
  BY DEF Exit, Ends, End
<1>2. ~ Checker(p)
  BY SMT DEF Checker, Access, Create, Chown, Connect, CreateTables, InsertRows, SqlFails, Goes
<1>3. /\ ~ Start(p) /\ ~ Open(p) /\ ~ Reset(p) /\ ~ Quit(p) /\ ~ ChooseEdit(p) /\ ~ WriteEdit(p)
      /\ ~ Configure(p) /\ ~ ScheduleNow(p) /\ ~ OpenFile(p)
  BY <1>1, SMT DEF Start, Open, Reset, Quit, ChooseEdit, WriteEdit, Configure, ScheduleNow,
     OpenFile, Goes
<1>4. /\ ~ Settings(p) /\ ~ RunTurnOn(p) /\ ~ Today(p) /\ ~ Later(p) /\ ~ BeforeSleep(p)
      /\ ~ Rtcwake(p) /\ ~ Interrupt(p)
  BY <1>1, SMT DEF Settings, Leave, RunTurnOn, Today, Later, BeforeSleep, Rtcwake, Interrupt, Goes
<1>5. ~ MatchOff(p)
  BY <1>1, SMT DEF MatchOff, Lookup, Goes, TypeInv, LegacyTypeOK
<1>6. QED
  BY <1>1, <1>2, <1>3, <1>4, <1>5, Zenon DEF Step

\* cron_ton.c:92-93: the sum of boot_time and a decimal time, which is no time
\* in general, never makes a command run before its rule or more than boot_time
\* seconds after it.
THEOREM LegacyCommandsAreTimely == Spec => CommandsAreTimely
<1> DEFINE Timely(p) ==
      pc[p] = "match" /\ pc'[p] = "command"
        => \E r \in File(p).rows["turnon"] : r.command /\ IsDue(r, job[p].now, BootTime)
<1>1. Init => TypeInv
  BY LegacyInitType
<1>2. TypeInv /\ [Next]_vars => TypeInv'
  BY NextType
<1>3. TypeInv /\ [Next]_vars => \A p \in Processes : Timely(p)
  <2> SUFFICES ASSUME TypeInv, [Next]_vars, NEW p \in Processes, pc[p] = "match",
                      pc'[p] = "command"
               PROVE  \E r \in File(p).rows["turnon"] : r.command /\ IsDue(r, job[p].now, BootTime)
    BY DEF Timely
  <2>1. MatchOn(p) /\ ~ Exit(p)
    BY WhoGoesSteps, WhoMatches
  <2> DEFINE rows == File(p).rows["turnon"]
  <2>2. PICK r \in OnNow(rows, job[p].now, BootTime) : r.command
    BY <2>1 DEF MatchOn
  <2>3. rows \in SUBSET Row /\ job[p].now \in Nat
    <3>1. File(p) \in Content
      BY FileIsContent DEF OpenPcs
    <3>2. job[p] \in Job /\ job[p].now # NoTime
      BY DEF TypeInv, LegacyTypeOK, Ready, TimedPcs
    <3>3. QED
      BY <3>1, <3>2, SMT DEF Content, Tables, Job
  <2>4. r \in rows /\ IsDue(r, job[p].now, BootTime)
    BY <2>2, <2>3, ProgramsAssumption, WithinIsDue
  <2>5. QED
    BY <2>2, <2>4
<1>4. QED
  BY <1>1, <1>2, <1>3, PTL DEF Spec, CommandsAreTimely, Timely

-----------------------------------------------------------------------------
(* What is half made.                                                      *)

\* The stages of the files change only by db_checker's own steps.
LEMMA ExecStage ==
  ASSUME TypeInv, NEW p \in Processes, pc[p] \in OpenPcs, NEW c \in Content,
         c.stage = File(p).stage, Exec(p, c)
  PROVE  \A f \in Files : disk'[f].stage = disk[f].stage
<1>1. CASE UNCHANGED <<disk, stable, writes>>
  BY <1>1
<1>2. CASE disk' = [disk EXCEPT ![handle[p]] = c]
  BY <1>2 DEF File, TypeInv, LegacyTypeOK, DatabaseTypeOK
<1>3. QED
  BY <1>1, <1>2 DEF Exec

StagesStay == path' \in {path, NoFile} /\ cut' = cut /\ \A f \in Files : disk'[f].stage = disk[f].stage
NoWork(p)  == pc[p] \notin {"chown", "connect", "tables", "rows"}

LEMMA StagesOfOthers ==
  ASSUME TypeInv, NEW p \in Processes, Step(p), ~ Checker(p), ~ Exit(p), ~ Rtcwake(p)
  PROVE  StagesStay /\ NoWork(p)
<1> USE DEF StagesStay, NoWork, files, bounds
<1>1. CASE Start(p) \/ Open(p) \/ Reset(p) \/ ChooseEdit(p) \/ ScheduleNow(p) \/ OpenFile(p)
  BY <1>1, SMT DEF Start, Open, Reset, Removed, ChooseEdit, ScheduleNow, OpenFile, Goes
<1>2. CASE Settings(p) \/ MatchOff(p) \/ MatchOn(p)
  BY <1>2, SMT DEF Settings, Leave, MatchOff, MatchOn, Lookup, Goes
<1>3. CASE Today(p) \/ Later(p) \/ BeforeSleep(p)
  BY <1>3, SMT DEF Today, Later, Leave, BeforeSleep, Goes
<1>4. CASE WriteEdit(p)
  <2>1. pc[p] = "write" /\ UNCHANGED <<path, cut>>
    BY <1>4 DEF WriteEdit, Goes
  <2>2. PICK r \in NewRules[edit[p].table] : Exec(p, Edited(File(p), edit[p], r))
    BY <1>4 DEF WriteEdit
  <2>3. File(p) \in Content /\ edit[p] \in Edit /\ edit[p].op # "none" /\ pc[p] \in OpenPcs
    BY <2>1, FileIsContent DEF OpenPcs, TypeInv, LegacyTypeOK, Ready
  <2>4. Edited(File(p), edit[p], r) \in Content /\ Edited(File(p), edit[p], r).stage = File(p).stage
    BY <2>3, EditedIsContent, Zenon
  <2>5. QED
    BY <2>1, <2>2, <2>3, <2>4, ExecStage
<1>5. CASE Configure(p)
  <2>1. pc[p] = "menu" /\ UNCHANGED <<path, cut>> /\ pc[p] \in OpenPcs
    BY <1>5 DEF Configure, OpenPcs
  <2>2. PICK c \in Choices, column \in {"status", "commands", "def_mode"} :
          Exec(p, [File(p) EXCEPT !.config[column] = c[column]])
    BY <1>5 DEF Configure
  <2>3. File(p) \in Content /\ c \in Config
    BY <2>1, FileIsContent, ProgramsAssumption
  <2> DEFINE d == [File(p) EXCEPT !.config[column] = c[column]]
  <2>4. d \in Content /\ d.stage = File(p).stage
    BY <2>3, ConfigIsContent, Zenon
  <2> HIDE DEF d
  <2>5. Exec(p, d)
    BY <2>2 DEF d
  <2>6. QED
    BY <2>1, <2>4, <2>5, ExecStage
<1>6. QED
  BY <1>1, <1>2, <1>3, <1>4, <1>5, Zenon DEF Step, Interrupt, Quit, RunTurnOn

LEMMA HalfMadeInit == ASSUME Init PROVE HalfMadeIsExplained
<1>1. CASE path = NoFile
  BY <1>1 DEF HalfMadeIsExplained
<1>2. ASSUME NEW f \in Files, NEW d \in Databases, path = f,
             disk = [[g \in Files |-> EmptyFile] EXCEPT ![f] = d]
      PROVE  HalfMadeIsExplained
  <2>1. d.stage = "complete"
    BY ProgramsAssumption
  <2>2. disk[path].stage = "complete"
    BY <1>2, <2>1
  <2>3. QED
    BY <2>2 DEF HalfMadeIsExplained
<1>3. QED
  BY <1>1, <1>2 DEF Init

LEMMA HalfMadeEnds ==
  ASSUME TypeInv, HalfMadeIsExplained, NEW gone \in SUBSET Processes, Ends(gone)
  PROVE  HalfMadeIsExplained'
<1>1. path' = path /\ disk' = disk /\ cut' = cut \cup ({WorksOn(p) : p \in gone} \ {NoFile})
  BY DEF Ends, End
<1>2. SUFFICES ASSUME path # NoFile, disk[path].stage # "complete", path \notin cut
               PROVE  (path \in cut \/ \E p \in Processes : WorksOn(p) = path)'
  BY <1>1 DEF HalfMadeIsExplained
<1>3. PICK p \in Processes : WorksOn(p) = path
  BY <1>2 DEF HalfMadeIsExplained
<1>4. CASE p \in gone
  BY <1>1, <1>2, <1>3, <1>4
<1>5. CASE p \notin gone
  <2>1. pc'[p] = pc[p] /\ handle'[p] = handle[p]
    BY <1>5 DEF Ends, End
  <2>2. WorksOn(p)' = path'
    BY <1>1, <1>3, <2>1 DEF WorksOn
  <2>3. QED
    BY <2>2
<1>6. QED
  BY <1>4, <1>5

\* Nobody else stops working on the file that has the name.
LEMMA HalfMadeOthers ==
  ASSUME TypeInv, HalfMadeIsExplained, NEW p \in Processes, NoWork(p) \/ WorksOn(p) # path,
         \A q \in Processes \ {p} : OwnStays(q),
         path' = path, cut \ {path} \subseteq cut', path \in cut => path \in cut',
         path # NoFile /\ disk'[path].stage # "complete" => disk[path].stage # "complete"
  PROVE  HalfMadeIsExplained'
<1>1. SUFFICES ASSUME path # NoFile, disk[path].stage # "complete", path \notin cut
               PROVE  (\E q \in Processes : WorksOn(q) = path)'
  BY DEF HalfMadeIsExplained
<1>2. PICK q \in Processes : WorksOn(q) = path
  BY <1>1 DEF HalfMadeIsExplained
<1>3. q # p
  <2>1. NoWork(p) => WorksOn(p) = NoFile
    BY SMT DEF NoWork, WorksOn
  <2>2. QED
    BY <1>1, <1>2, <2>1
<1>4. pc'[q] = pc[q] /\ handle'[q] = handle[q]
  BY <1>3 DEF OwnStays
<1>5. WorksOn(q)' = path'
  BY <1>2, <1>4 DEF WorksOn
<1>6. QED
  BY <1>5

LEMMA HalfMadeChecker ==
  ASSUME TypeInv, HalfMadeIsExplained, NEW p \in Processes, Checker(p),
         \A q \in Processes \ {p} : OwnStays(q)
  PROVE  HalfMadeIsExplained'
<1>1. CASE path' = NoFile
  BY <1>1 DEF HalfMadeIsExplained
<1>2. CASE path' # NoFile
  <2> USE DEF TypeInv, LegacyTypeOK, DatabaseTypeOK, files
  <2>1. CASE Access(p)
    BY <2>1, HalfMadeOthers, SMT DEF Access, NoWork, Goes
  <2>2. CASE pc'[p] \in {"chown", "connect"}
    <3>1. WorksOn(p)' = path'
      BY <2>2, SMT DEF WorksOn
    <3>2. QED
      BY <3>1 DEF HalfMadeIsExplained
  <2>3. CASE Create(p) /\ pc'[p] \notin {"chown", "connect"}
    <3>1. Goes(p, "create", "open") /\ UNCHANGED files
      BY <2>3 DEF Create, Goes
    <3>2. QED
      BY <3>1, HalfMadeOthers, SMT DEF NoWork, Goes
  <2>4. CASE Chown(p) /\ pc'[p] \notin {"chown", "connect"}
    <3>1. path' = path /\ path \in cut'
      BY <1>2, <2>4 DEF Chown, Goes
    <3>2. QED
      BY <3>1 DEF HalfMadeIsExplained
  <2>5. CASE Connect(p)
    <3>1. handle' = [handle EXCEPT ![p] = path] /\ path' = path /\ Goes(p, "connect", "tables")
      BY <1>2, <2>5 DEF Connect, Removed
    <3>2. WorksOn(p)' = path'
      BY <3>1, SMT DEF WorksOn, Goes
    <3>3. QED
      BY <3>2 DEF HalfMadeIsExplained
  <2>6. CASE CreateTables(p)
    <3>1. /\ Goes(p, "tables", "rows") /\ disk' = [disk EXCEPT ![handle[p]].stage = "tables"]
          /\ UNCHANGED <<path, handle, statement, cut>>
      BY <1>2, <2>6 DEF CreateTables, SqlFails, Removed
    <3>2. CASE handle[p] = path
      <4>1. WorksOn(p)' = path'
        BY <3>1, <3>2, SMT DEF WorksOn, Goes
      <4>2. QED
        BY <4>1 DEF HalfMadeIsExplained
    <3>3. CASE handle[p] # path
      <4>1. WorksOn(p) # path
        BY <3>1, <3>3, SMT DEF WorksOn, Goes
      <4>2. path # NoFile => disk'[path] = disk[path]
        BY <3>1, <3>3
      <4>3. QED
        BY <3>1, <4>1, <4>2, HalfMadeOthers
    <3>4. QED
      BY <3>2, <3>3
  <2>7. CASE InsertRows(p)
    <3>1. /\ Goes(p, "rows", "open") /\ disk' = [disk EXCEPT ![handle[p]] = Configured(@)]
          /\ UNCHANGED <<path, statement, cut>>
      BY <1>2, <2>7 DEF InsertRows, SqlFails, Removed
    <3>2. CASE handle[p] = path
      <4>1. disk'[path].stage = "complete"
        BY <1>2, <3>1, <3>2 DEF Configured
      <4>2. QED
        BY <3>1, <4>1 DEF HalfMadeIsExplained
    <3>3. CASE handle[p] # path
      <4>1. WorksOn(p) # path
        BY <3>1, <3>3, SMT DEF WorksOn, Goes
      <4>2. path # NoFile => disk'[path] = disk[path]
        BY <3>1, <3>3
      <4>3. QED
        BY <3>1, <4>1, <4>2, HalfMadeOthers
    <3>4. QED
      BY <3>2, <3>3
  <2>8. QED
    BY <2>1, <2>2, <2>3, <2>4, <2>5, <2>6, <2>7, Zenon DEF Checker
<1>3. QED
  BY <1>1, <1>2

LEMMA HalfMadeNext ==
  ASSUME TypeInv, HalfMadeIsExplained, [Next]_vars
  PROVE  HalfMadeIsExplained'
<1>1. CASE UNCHANGED vars \/ Over
  BY <1>1 DEF vars, Over, files, HalfMadeIsExplained, WorksOn
<1>2. ASSUME NEW p \in Processes, Step(p)
      PROVE  HalfMadeIsExplained'
  <2>1. CASE Exit(p) \/ Rtcwake(p)
    BY <2>1, StepEnds, HalfMadeEnds
  <2>2. CASE ~ Exit(p) /\ ~ Rtcwake(p)
    <3>1. \A q \in Processes \ {p} : OwnStays(q)
      BY <1>2, <2>2, StepLeavesOthers
    <3>2. CASE Checker(p)
      BY <3>1, <3>2, HalfMadeChecker
    <3>3. CASE ~ Checker(p)
      <4>1. StagesStay /\ NoWork(p)
        BY <1>2, <2>2, <3>3, StagesOfOthers
      <4>2. CASE path' = NoFile
        BY <4>2 DEF HalfMadeIsExplained
      <4>3. CASE path' # NoFile
        <5>1. path' = path /\ cut' = cut /\ (path # NoFile => disk'[path].stage = disk[path].stage)
          BY <4>1, <4>3 DEF StagesStay, TypeInv, LegacyTypeOK, DatabaseTypeOK
        <5>2. QED
          BY <3>1, <4>1, <5>1, HalfMadeOthers
      <4>4. QED
        BY <4>2, <4>3
    <3>4. QED
      BY <3>2, <3>3
  <2>3. QED
    BY <2>1, <2>2
<1>3. QED
  BY <1>1, <1>2 DEF Next

\* db_checker.c:82, :132: whatever starts, resets and is interrupted, a file
\* without its tables or rows is one a db_checker is at work on or was cut off at.
THEOREM LegacyHalfMade == Spec => []HalfMadeIsExplained
<1>1. Init => TypeInv /\ HalfMadeIsExplained
  BY LegacyInitType, HalfMadeInit
<1>2. (TypeInv /\ HalfMadeIsExplained) /\ [Next]_vars => (TypeInv /\ HalfMadeIsExplained)'
  BY NextType, HalfMadeNext
<1>3. QED
  BY <1>1, <1>2, PTL DEF Spec

-----------------------------------------------------------------------------
(* What others may write meanwhile.                                        *)

\* A file that p has open stays as it is, or q has it open as well and may
\* write it; and what p knows to have been there all the time still is.
FileKept(p, q) ==
  \/ disk'[handle[p]] = disk[handle[p]] /\ stable'[p] = stable[p]
  \/ /\ handle[q] = handle[p] /\ Writable(q) /\ stable'[p] \subseteq stable[p]
     /\ stable[p] \subseteq disk[handle[p]].rows["turnon"]
          => stable'[p] \subseteq disk'[handle[p]].rows["turnon"]

LEMMA ExecKeeps ==
  ASSUME TypeInv, NEW q \in Processes, NEW c, Exec(q, c),
         NEW p \in Processes \ {q}, handle[p] \in Files
  PROVE  FileKept(p, q)
<1>1. CASE UNCHANGED <<disk, stable, writes>>
  BY <1>1 DEF FileKept
<1>2. CASE ~ UNCHANGED <<disk, stable, writes>>
  <2>1. /\ Writable(q) /\ disk' = [disk EXCEPT ![handle[q]] = c]
        /\ stable' = [r \in Processes |->
                        IF handle[r] = handle[q] THEN stable[r] \cap c.rows["turnon"]
                                                 ELSE stable[r]]
    BY <1>2 DEF Exec
  <2>2. CASE handle[p] = handle[q]
    <3>1. disk'[handle[p]] = c /\ stable'[p] = stable[p] \cap c.rows["turnon"]
      BY <2>1, <2>2 DEF TypeInv, LegacyTypeOK, DatabaseTypeOK
    <3>2. QED
      BY <2>1, <2>2, <3>1 DEF FileKept
  <2>3. CASE handle[p] # handle[q]
    BY <2>1, <2>3 DEF FileKept, TypeInv, LegacyTypeOK, DatabaseTypeOK
  <2>4. QED
    BY <2>2, <2>3
<1>3. QED
  BY <1>1, <1>2

LEMMA CheckerKeeps ==
  ASSUME TypeInv, NEW q \in Processes, Checker(q),
         NEW p \in Processes \ {q}, handle[p] \in Files
  PROVE  FileKept(p, q)
<1> USE DEF TypeInv, LegacyTypeOK, DatabaseTypeOK
<1>1. stable'[p] = stable[p]
  BY DEF Checker
<1>2. CASE disk' = disk
  BY <1>1, <1>2 DEF FileKept
<1>3. CASE Create(q) /\ disk' # disk
  <2>1. PICK f \in Unused : disk' = [disk EXCEPT ![f] = EmptyFile]
    BY <1>3 DEF Create, files
  <2>2. f # handle[p]
    BY DEF Unused
  <2>3. QED
    BY <1>1, <2>1, <2>2 DEF FileKept
<1>4. CASE CreateTables(q) /\ disk' # disk
  <2>1. /\ Writable(q) /\ pc[q] \in OpenPcs
        /\ disk' = [disk EXCEPT ![handle[q]] = [disk[handle[q]] EXCEPT !.stage = "tables"]]
    BY <1>4 DEF CreateTables, SqlFails, Goes, OpenPcs
  <2>2. disk[handle[q]] \in Content
    BY <2>1, FileIsContent DEF File
  <2>3. disk'[handle[p]].rows = disk[handle[p]].rows
    BY <2>1, <2>2 DEF Content
  <2>4. handle[p] # handle[q] => disk'[handle[p]] = disk[handle[p]]
    BY <2>1
  <2>5. QED
    BY <1>1, <2>1, <2>3, <2>4 DEF FileKept
<1>5. CASE InsertRows(q) /\ disk' # disk
  <2>1. /\ Writable(q) /\ pc[q] \in OpenPcs
        /\ disk' = [disk EXCEPT ![handle[q]] = Configured(disk[handle[q]])]
    BY <1>5 DEF InsertRows, SqlFails, Goes, OpenPcs
  <2>2. disk[handle[q]] \in Content /\ "turnon" \in Tables
    BY <2>1, FileIsContent DEF File, Tables
  <2>3. disk[handle[q]].rows["turnon"] \subseteq Configured(disk[handle[q]]).rows["turnon"]
    BY <2>2, ConfiguredIsContent
  <2>4. handle[p] # handle[q] => disk'[handle[p]] = disk[handle[p]]
    BY <2>1
  <2>5. handle[p] = handle[q] => disk'[handle[p]] = Configured(disk[handle[q]])
    BY <2>1
  <2>6. QED
    BY <1>1, <2>1, <2>3, <2>4, <2>5 DEF FileKept
<1>6. QED
  BY <1>2, <1>3, <1>4, <1>5, Zenon
     DEF Checker, Access, Chown, Connect, Create, CreateTables, InsertRows, SqlFails, files

LEMMA StepKeepsFiles ==
  ASSUME TypeInv, NEW q \in Processes, Step(q), ~ Exit(q), ~ Rtcwake(q),
         NEW p \in Processes \ {q}, handle[p] \in Files
  PROVE  FileKept(p, q)
<1> USE DEF TypeInv, LegacyTypeOK
<1>1. CASE disk' = disk /\ stable'[p] = stable[p]
  BY <1>1 DEF FileKept
<1>2. CASE Checker(q)
  BY <1>2, CheckerKeeps
<1>3. CASE WriteEdit(q)
  BY <1>3, ExecKeeps DEF WriteEdit
<1>4. CASE Configure(q)
  BY <1>4, ExecKeeps DEF Configure
<1>5. CASE Start(q) \/ Open(q) \/ Reset(q) \/ ChooseEdit(q) \/ ScheduleNow(q) \/ OpenFile(q)
  BY <1>1, <1>5, Zenon DEF Start, Open, Reset, ChooseEdit, ScheduleNow, OpenFile, files
<1>6. CASE Settings(q) \/ MatchOff(q) \/ MatchOn(q)
  BY <1>1, <1>6, Zenon DEF Settings, Leave, MatchOff, MatchOn, Lookup, files
<1>7. CASE Today(q) \/ Later(q) \/ BeforeSleep(q)
  BY <1>1, <1>7, Zenon DEF Today, Later, Leave, BeforeSleep, files
<1>8. QED
  BY <1>2, <1>3, <1>4, <1>5, <1>6, <1>7, Zenon DEF Step, Interrupt, Quit, RunTurnOn

-----------------------------------------------------------------------------
(* What is edited exists.                                                  *)

\* The SELECT that is left locks the file until the statement that is made
\* of the user's input.
Held(p) ==
  pc[p] = "write" /\ edit[p].found
    => statement[p] /\ \E r \in File(p).rows[edit[p].table] : r.id = edit[p].id

EditInv == \A p \in Processes : Held(p)

LEMMA FromWrite ==
  ASSUME TypeInv, NEW p \in Processes, Step(p), ~ Exit(p), pc[p] = "write"
  PROVE  pc'[p] = "menu"
<1>1. ~ Checker(p)
  BY SMT DEF Checker, Access, Create, Chown, Connect, CreateTables, InsertRows, SqlFails, Goes
<1>2. /\ ~ Start(p) /\ ~ Open(p) /\ ~ Reset(p) /\ ~ Quit(p) /\ ~ ChooseEdit(p)
      /\ ~ Configure(p) /\ ~ ScheduleNow(p) /\ ~ OpenFile(p)
  BY SMT DEF Start, Open, Reset, Quit, ChooseEdit, Configure, ScheduleNow, OpenFile, Goes
<1>3. /\ ~ Settings(p) /\ ~ MatchOff(p) /\ ~ MatchOn(p) /\ ~ RunTurnOn(p) /\ ~ Today(p)
      /\ ~ Later(p) /\ ~ BeforeSleep(p) /\ ~ Rtcwake(p) /\ ~ Interrupt(p)
  BY SMT DEF Settings, MatchOff, MatchOn, RunTurnOn, Today, Later, BeforeSleep, Rtcwake, Interrupt,
     Goes, Lookup
<1>4. WriteEdit(p)
  BY <1>1, <1>2, <1>3, Zenon DEF Step
<1>5. QED
  BY <1>4 DEF WriteEdit, Goes, TypeInv, LegacyTypeOK

LEMMA IntoWrite ==
  ASSUME TypeInv, NEW p \in Processes, Step(p), pc[p] # "write", pc'[p] = "write"
  PROVE  ChooseEdit(p)
<1> USE DEF TypeInv, LegacyTypeOK
<1>1. ~ Exit(p)
  BY DEF Exit, Ends, End
<1>2. ~ Checker(p)
  BY SMT DEF Checker, Access, Create, Chown, Connect, CreateTables, InsertRows, SqlFails, Goes
<1>3. /\ ~ Open(p) /\ ~ Reset(p) /\ ~ Quit(p) /\ ~ WriteEdit(p)
      /\ ~ Configure(p) /\ ~ ScheduleNow(p) /\ ~ OpenFile(p)
  BY <1>1, SMT DEF Open, Reset, Quit, WriteEdit, Configure, ScheduleNow, OpenFile, Goes
<1>4. ~ Start(p)
  <2>1. ASSUME NEW g \in Programs PROVE FirstPc(g) # "write"
    BY SMT DEF FirstPc, Programs
  <2>2. QED
    BY <2>1 DEF Start
<1>5. ~ Settings(p) /\ ~ MatchOff(p) /\ ~ MatchOn(p) /\ ~ RunTurnOn(p) /\ ~ Interrupt(p)
  BY <1>1, SMT DEF Settings, Leave, MatchOff, MatchOn, RunTurnOn, Interrupt, Goes, Lookup
<1>6. ~ Today(p) /\ ~ Later(p) /\ ~ BeforeSleep(p)
  <2>1. ~ BeforeSleep(p) /\ ~ Leave(p)
    BY <1>1, SMT DEF BeforeSleep, Leave, Goes
  <2>2. ASSUME NEW rows, NEW ahead PROVE ~ Finds(p, rows, ahead)
    BY DEF Finds
  <2>3. QED
    BY <2>1, <2>2 DEF Today, Later
<1>7. ~ Rtcwake(p)
  BY <1>1 DEF Rtcwake, Ends, End
<1>8. QED
  BY <1>2, <1>3, <1>4, <1>5, <1>6, <1>7, Zenon DEF Step

LEMMA EditEnds ==
  ASSUME TypeInv, EditInv, NEW gone \in SUBSET Processes, Ends(gone)
  PROVE  EditInv'
<1> SUFFICES ASSUME NEW p \in Processes, (pc[p] = "write" /\ edit[p].found)' PROVE Held(p)'
  BY DEF EditInv, Held
<1>1. OwnStays(p)
  BY EndsOthers
<1>2. disk' = disk
  BY DEF Ends, End
<1>3. QED
  BY <1>1, <1>2 DEF EditInv, Held, OwnStays, File

LEMMA EditOthers ==
  ASSUME TypeInv, EditInv, NEW q \in Processes, Step(q), ~ Exit(q), ~ Rtcwake(q),
         NEW p \in Processes \ {q}
  PROVE  Held(p)'
<1> SUFFICES ASSUME (pc[p] = "write" /\ edit[p].found)' PROVE Held(p)'
  BY DEF Held
<1>1. OwnStays(p)
  BY StepLeavesOthers
<1>2. /\ pc[p] = "write" /\ edit[p].found /\ statement[p]
      /\ \E r \in File(p).rows[edit[p].table] : r.id = edit[p].id
  BY <1>1 DEF OwnStays, EditInv, Held
<1>3. handle[p] \in Files
  BY <1>2, FileIsContent DEF OpenPcs
<1>4. FileKept(p, q)
  BY <1>3, StepKeepsFiles
<1>5. handle[q] = handle[p] => ~ Writable(q)
  BY <1>2 DEF Writable, Locked
<1>6. disk'[handle[p]] = disk[handle[p]]
  BY <1>4, <1>5 DEF FileKept
<1>7. QED
  BY <1>1, <1>2, <1>6 DEF Held, OwnStays, File

LEMMA EditChosen ==
  ASSUME TypeInv, NEW p \in Processes, ChooseEdit(p)
  PROVE  Held(p)'
<1>1. disk' = disk /\ handle' = handle
  BY DEF ChooseEdit
<1>2. PICK op \in {"add", "remove", "edit"}, t \in Tables, i \in Ids :
        \/ /\ \E r \in File(p).rows[t] : r.id = i
           /\ SelectLeft(p)
           /\ edit' = [edit EXCEPT ![p] = [op |-> op, table |-> t, id |-> i, found |-> TRUE]]
        \/ edit' = [edit EXCEPT ![p] = [op |-> op, table |-> t, id |-> i, found |-> FALSE]]
  BY Zenon DEF ChooseEdit
<1> DEFINE e(b) == [op |-> op, table |-> t, id |-> i, found |-> b]
<1>3. e(TRUE).table = t /\ e(TRUE).id = i /\ e(FALSE).found = FALSE
  OBVIOUS
<1>4. CASE edit' = [edit EXCEPT ![p] = e(FALSE)]
  <2>1. edit'[p] = e(FALSE)
    BY <1>4 DEF TypeInv, LegacyTypeOK
  <2>2. QED
    BY <1>3, <2>1 DEF Held
<1>5. CASE /\ \E r \in File(p).rows[t] : r.id = i
           /\ SelectLeft(p)
           /\ edit' = [edit EXCEPT ![p] = e(TRUE)]
  <2>1. edit'[p] = e(TRUE) /\ statement'[p]
    BY <1>5 DEF SelectLeft, TypeInv, LegacyTypeOK, DatabaseTypeOK
  <2>2. QED
    BY <1>1, <1>3, <1>5, <2>1 DEF Held, File
<1>6. QED
  BY <1>2, <1>4, <1>5

LEMMA EditNext ==
  ASSUME TypeInv, EditInv, [Next]_vars
  PROVE  EditInv'
<1>1. CASE UNCHANGED vars \/ Over
  BY <1>1 DEF vars, Over, files, EditInv, Held, File
<1>2. ASSUME NEW q \in Processes, Step(q)
      PROVE  EditInv'
  <2>1. CASE Exit(q) \/ Rtcwake(q)
    BY <2>1, StepEnds, EditEnds
  <2>2. CASE ~ Exit(q) /\ ~ Rtcwake(q)
    <3>1. Held(q)'
      <4>1. CASE pc'[q] # "write"
        BY <4>1 DEF Held
      <4>2. CASE pc'[q] = "write"
        <5>1. pc[q] # "write"
          BY <1>2, <2>2, <4>2, FromWrite
        <5>2. ChooseEdit(q)
          BY <1>2, <4>2, <5>1, IntoWrite
        <5>3. QED
          BY <5>2, EditChosen
      <4>3. QED
        BY <4>1, <4>2
    <3>2. \A p \in Processes \ {q} : Held(p)'
      BY <1>2, <2>2, EditOthers
    <3>3. QED
      BY <3>1, <3>2 DEF EditInv
  <2>3. QED
    BY <2>1, <2>2
<1>3. QED
  BY <1>1, <1>2 DEF Next

\* main.c:737, :791: the row an edit is for is still there when it is written,
\* because the SELECT that found it is never finalized.
THEOREM LegacyEdits == Spec => EditsWhatExists
<1> DEFINE Edits(p) ==
      pc[p] = "write" /\ pc'[p] = "menu" /\ writes' # writes /\ edit[p].found
        => \E r \in File(p).rows[edit[p].table] : r.id = edit[p].id
<1>1. Init => TypeInv /\ EditInv
  BY LegacyInitType DEF Init, EditInv, Held
<1>2. (TypeInv /\ EditInv) /\ [Next]_vars => (TypeInv /\ EditInv)'
  BY NextType, EditNext
<1>3. EditInv => \A p \in Processes : Edits(p)
  BY DEF EditInv, Held
<1>4. QED
  BY <1>1, <1>2, <1>3, PTL DEF Spec, EditsWhatExists, Edits

-----------------------------------------------------------------------------
(* The order of the SELECTs.                                               *)

LEMMA SomeFirst ==
  ASSUME NEW rows \in SUBSET Row, rows # {}
  PROVE  First(rows) # {}
<1> DEFINE T == {r.time : r \in rows}
<1>1. T \subseteq Nat /\ T # {}
  BY SMT DEF Row, Seconds
<1>2. PICK m \in T : \A n \in T : ~ (<<n, m>> \in OpToRel(<, Nat))
  BY <1>1, NatLessThanWellFounded, WFMin
<1>3. \A n \in T : <<n, m>> \notin {ss \in Nat \X Nat : ss[1] < ss[2]}
  BY <1>2, Zenon DEF OpToRel
<1> HIDE DEF T
<1>4. ASSUME NEW n \in T PROVE m <= n
  <2>1. n \in Nat /\ m \in Nat
    BY <1>1
  <2>2. <<n, m>> \notin {ss \in Nat \X Nat : ss[1] < ss[2]}
    BY <1>3
  <2>3. QED
    BY <2>1, <2>2
<1>5. PICK r \in rows : r.time = m
  BY DEF T
<1>6. QED
  BY <1>4, <1>5 DEF First, T

\* The rule does not occur after now on the date i days ahead.
Absent(r, now, i) ==
  ~ (OccursAt(r, At(Date(now) + i, r.time)) /\ now < At(Date(now) + i, r.time))

LEMMA AheadIsDay ==
  ASSUME NEW r \in Row, NEW now \in Nat, NEW i \in 0..7
  PROVE  /\ Date(now) + i \in Nat
         /\ OccursAt(r, At(Date(now) + i, r.time)) <=> r \in Enabled({r}, wday(WeekDay(now) + i))
<1>1. Date(now) \in Nat /\ Date(now) + i \in Nat /\ r.time \in Seconds
  BY DateAndTime, SMT DEF Row
<1>2. Date(At(Date(now) + i, r.time)) = Date(now) + i /\ Time(At(Date(now) + i, r.time)) = r.time
  BY <1>1, AtIsMoment
<1>3. WeekDay(now) + i \in 0..13 /\ (WeekDay(now) + i) % 7 = (Date(now) + i) % 7
  BY <1>1, SMT DEF WeekDay
<1>4. wday(WeekDay(now) + i) = (Date(now) + i) % 7
  BY <1>3 DEF wday
<1>5. QED
  BY <1>1, <1>2, <1>4 DEF OccursAt, Enabled, WeekDay

LEMMA TodayIsDay ==
  ASSUME NEW r \in Row, NEW now \in Nat
  PROVE  /\ OccursAt(r, At(Date(now) + 0, r.time)) <=> WeekDay(now) \in r.days
         /\ now < At(Date(now) + 0, r.time) <=> HHMMSS(Time(now)) < HHMMSS(r.time)
<1>1. Date(now) \in Nat /\ Date(now) + 0 = Date(now) /\ Time(now) \in Seconds /\ r.time \in Seconds
      /\ now = At(Date(now), Time(now))
  BY DateAndTime, SMT DEF Row
<1>2. Date(At(Date(now), r.time)) = Date(now) /\ Time(At(Date(now), r.time)) = r.time
  BY <1>1, AtIsMoment
<1>3. At(Date(now), Time(now)) < At(Date(now), r.time) <=> Time(now) < r.time
  <2>1. /\ ~ (Date(now) < Date(now))
        /\ At(Date(now), Time(now)) < At(Date(now), r.time)
             <=> (Date(now) < Date(now) \/ (Date(now) = Date(now) /\ Time(now) < r.time))
    BY <1>1, AtOrder, SMT
  <2>2. QED
    BY <2>1
<1>4. Time(now) < r.time <=> HHMMSS(Time(now)) < HHMMSS(r.time)
  BY <1>1, DecimalOrder
<1>5. QED
  BY <1>1, <1>2, <1>3, <1>4 DEF OccursAt, WeekDay

LEMMA NothingToday ==
  ASSUME NEW rows \in SUBSET Row, NEW now \in Nat, LaterToday(rows, now) = {}
  PROVE  \A r \in rows : Absent(r, now, 0)
<1> DEFINE later == {r \in Enabled(rows, WeekDay(now)) : HHMMSS(Time(now)) < HHMMSS(r.time)}
<1>1. later \in SUBSET Row /\ First(later) = {}
  BY DEF LaterToday, Enabled
<1>2. later = {}
  BY <1>1, SomeFirst
<1>3. QED
  BY <1>2, TodayIsDay DEF Absent, Enabled

LEMMA NothingAhead ==
  ASSUME NEW rows \in SUBSET Row, NEW now \in Nat, NEW i \in 0..7, Ahead(rows, now, i) = {}
  PROVE  \A r \in rows : Absent(r, now, i)
<1>1. Enabled(rows, wday(WeekDay(now) + i)) \in SUBSET Row
  BY DEF Enabled
<1>2. Enabled(rows, wday(WeekDay(now) + i)) = {}
  BY <1>1, SomeFirst DEF Ahead
<1>3. QED
  BY <1>2, AheadIsDay DEF Absent, Enabled

\* A wake up d days ahead is after now, and after no rule that is absent on the
\* days before and not earlier on its own day.
LEMMA NoneSkipped ==
  ASSUME NEW now \in Nat, NEW d \in 0..7, NEW r \in Row, NEW s \in Row,
         \A i \in 0..7 : i < d => Absent(s, now, i),
         Absent(s, now, d) \/ r.time <= s.time
  PROVE  ~ Skips(s, now, At(Date(now) + d, r.time))
<1> SUFFICES ASSUME NEW i \in 0..7, OccursAt(s, At(Date(now) + i, s.time)),
                    now < At(Date(now) + i, s.time),
                    At(Date(now) + i, s.time) < At(Date(now) + d, r.time)
             PROVE  FALSE
  BY DEF Skips
<1>1. /\ Date(now) + i \in Nat /\ Date(now) + d \in Nat /\ r.time \in Seconds /\ s.time \in Seconds
      /\ (Date(now) + i < Date(now) + d <=> i < d) /\ (Date(now) + i = Date(now) + d <=> i = d)
  BY DateAndTime, SMT DEF Row
<1>2. i < d \/ (i = d /\ s.time < r.time)
  BY <1>1, AtOrder
<1>3. ~ (i < d)
  BY DEF Absent
<1>4. i = d /\ s.time < r.time
  BY <1>2, <1>3
<1>5. ~ (r.time <= s.time)
  BY <1>1, <1>4, SMT DEF Seconds
<1>6. QED
  BY <1>4, <1>5 DEF Absent

LEMMA FoundToday ==
  ASSUME NEW rows \in SUBSET Row, NEW now \in Nat, NEW r \in LaterToday(rows, now), NEW s \in rows
  PROVE  now < At(Date(now) + 0, r.time) /\ ~ Skips(s, now, At(Date(now) + 0, r.time))
<1>1. /\ r \in rows /\ WeekDay(now) \in r.days /\ HHMMSS(Time(now)) < HHMMSS(r.time)
      /\ WeekDay(now) \in s.days /\ HHMMSS(Time(now)) < HHMMSS(s.time) => r.time <= s.time
  BY DEF LaterToday, First, Enabled
<1>2. now < At(Date(now) + 0, r.time)
  BY <1>1, TodayIsDay
<1>3. Absent(s, now, 0) \/ r.time <= s.time
  BY <1>1, TodayIsDay DEF Absent
<1>4. 0 \in 0..7 /\ \A i \in 0..7 : ~ (i < 0)
  BY SMT
<1>5. QED
  BY <1>1, <1>2, <1>3, <1>4, NoneSkipped

LEMMA AheadIsLater ==
  ASSUME NEW now \in Nat, NEW d \in 0..7, d # 0, NEW r \in Row
  PROVE  now < At(Date(now) + d, r.time)
<1>1. /\ Date(now) \in Nat /\ Time(now) \in Seconds /\ r.time \in Seconds
      /\ now = At(Date(now), Time(now))
      /\ Date(now) + d \in Nat /\ Date(now) < Date(now) + d
  BY DateAndTime, SMT DEF Row
<1>2. At(Date(now), Time(now)) < At(Date(now) + d, r.time)
  BY <1>1, AtOrder
<1>3. QED
  BY <1>1, <1>2

LEMMA FoundAhead ==
  ASSUME NEW rows \in SUBSET Row, NEW now \in Nat, NEW d \in 0..7, d # 0,
         NEW r \in Ahead(rows, now, d), NEW s \in rows,
         \A i \in 0..7 : i < d => Absent(s, now, i)
  PROVE  ~ Skips(s, now, At(Date(now) + d, r.time))
<1> DEFINE day == wday(WeekDay(now) + d)
<1>1. r \in rows /\ (day \in s.days => r.time <= s.time)
  BY DEF Ahead, First, Enabled
<1>2. Absent(s, now, d) \/ r.time <= s.time
  BY <1>1, AheadIsDay DEF Absent, Enabled
<1>3. QED
  BY <1>1, <1>2, NoneSkipped

-----------------------------------------------------------------------------
(* No stable rule is skipped.                                              *)

\* What a lookup has found of the rules that have been there since it began.
Searched(p) ==
  /\ pc[p] \in LookupPcs => stable[p] \subseteq File(p).rows["turnon"]
  /\ pc[p] = "later" =>
       \A s \in stable[p] : \A i \in 0..7 : i < job[p].day => Absent(s, job[p].now, i)

SearchInv == \A p \in Processes : Searched(p)

LEMMA SearchTypes ==
  ASSUME TypeInv, NEW p \in Processes, pc[p] \in LookupPcs
  PROVE  /\ handle[p] \in Files /\ File(p).rows["turnon"] \in SUBSET Row
         /\ job[p] \in Job /\ job[p].now \in Nat /\ job[p].day \in 0..7
         /\ pc[p] = "later" => job[p].day # 0
<1>1. handle[p] \in Files /\ File(p) \in Content
  BY FileIsContent DEF OpenPcs
<1>2. job[p] \in Job /\ job[p].now # NoTime /\ (pc[p] = "later" => job[p].day # 0)
  BY DEF TypeInv, LegacyTypeOK, Ready, TimedPcs
<1>3. QED
  BY <1>1, <1>2, SMT DEF Content, Tables, Job

LEMMA SearchEnds ==
  ASSUME TypeInv, SearchInv, NEW gone \in SUBSET Processes, Ends(gone)
  PROVE  SearchInv'
<1> SUFFICES ASSUME NEW p \in Processes, pc'[p] \in LookupPcs PROVE Searched(p)'
  BY DEF SearchInv, Searched, LookupPcs
<1>1. pc'[p] # "idle"
  BY DEF LookupPcs
<1>2. OwnStays(p) /\ stable'[p] = stable[p]
  BY <1>1, EndsOthers
<1>3. disk' = disk
  BY DEF Ends, End
<1>4. QED
  BY <1>2, <1>3 DEF SearchInv, Searched, OwnStays, File

LEMMA SearchOthers ==
  ASSUME TypeInv, SearchInv, NEW q \in Processes, Step(q), ~ Exit(q), ~ Rtcwake(q),
         NEW p \in Processes \ {q}
  PROVE  Searched(p)'
<1> SUFFICES ASSUME pc'[p] \in LookupPcs PROVE Searched(p)'
  BY DEF Searched, LookupPcs
<1>1. OwnStays(p)
  BY StepLeavesOthers
<1>2. pc[p] \in LookupPcs /\ pc'[p] = pc[p] /\ job'[p] = job[p] /\ handle'[p] = handle[p]
  BY <1>1 DEF OwnStays
<1>3. handle[p] \in Files
  BY <1>2, SearchTypes
<1>4. FileKept(p, q)
  BY <1>3, StepKeepsFiles
<1>5. stable[p] \subseteq disk[handle[p]].rows["turnon"]
  BY <1>2 DEF SearchInv, Searched, File
<1>6. stable'[p] \subseteq stable[p] /\ stable'[p] \subseteq disk'[handle[p]].rows["turnon"]
  BY <1>4, <1>5 DEF FileKept
<1>7. QED
  BY <1>2, <1>6 DEF SearchInv, Searched, File

\* The steps of a lookup itself.
LEMMA IntoLookup ==
  ASSUME TypeInv, NEW p \in Processes, Step(p), ~ Exit(p), ~ Rtcwake(p),
         pc'[p] \in LookupPcs \cup {"found"}
  PROVE  \/ Settings(p) /\ Lookup(p, "settings") /\ disk' = disk /\ handle' = handle
         \/ MatchOff(p) /\ Lookup(p, "match") /\ disk' = disk /\ handle' = handle
         \/ Today(p) /\ ~ Leave(p)
         \/ Later(p) /\ ~ Leave(p)
<1> USE DEF TypeInv, LegacyTypeOK, LookupPcs
<1>1. ~ Checker(p)
  BY SMT DEF Checker, Access, Create, Chown, Connect, CreateTables, InsertRows, SqlFails, Goes
<1>2. /\ ~ Open(p) /\ ~ Reset(p) /\ ~ Quit(p) /\ ~ ChooseEdit(p) /\ ~ WriteEdit(p)
      /\ ~ ScheduleNow(p) /\ ~ OpenFile(p) /\ ~ BeforeSleep(p)
  BY SMT DEF Open, Reset, Quit, ChooseEdit, WriteEdit, ScheduleNow, OpenFile, BeforeSleep, Goes
<1>3. ~ Start(p)
  <2>1. ASSUME NEW g \in Programs PROVE FirstPc(g) \notin {"today", "later", "found"}
    BY SMT DEF FirstPc, Programs
  <2>2. QED
    BY <2>1 DEF Start
<1>4. ~ RunTurnOn(p) /\ ~ Interrupt(p) /\ ~ MatchOn(p) /\ ~ Configure(p) /\ ~ Leave(p)
  BY SMT DEF RunTurnOn, Interrupt, MatchOn, Configure, Leave, Goes
<1>5. Settings(p) => Lookup(p, "settings") /\ disk' = disk /\ handle' = handle
  BY <1>4, SMT DEF Settings, Goes, files
<1>6. MatchOff(p) => Lookup(p, "match") /\ disk' = disk /\ handle' = handle
  BY SMT DEF MatchOff, files
<1>7. QED
  BY <1>1, <1>2, <1>3, <1>4, <1>5, <1>6, Zenon DEF Step

LEMMA SearchBegins ==
  ASSUME TypeInv, NEW p \in Processes, pc[p] \in OpenPcs, NEW from, Lookup(p, from),
         disk' = disk, handle' = handle
  PROVE  Searched(p)'
<1>1. stable'[p] = File(p).rows["turnon"] /\ pc'[p] = "today"
  BY LookupType DEF TypeInv, LegacyTypeOK
<1>2. QED
  BY <1>1 DEF Searched, File

LEMMA SearchToday ==
  ASSUME TypeInv, SearchInv, NEW p \in Processes, Today(p), ~ Leave(p)
  PROVE  Searched(p)'
<1> DEFINE turnon == File(p).rows["turnon"]
           now    == job[p].now
           rows   == LaterToday(turnon, now)
<1>1. pc[p] = "today" /\ pc[p] \in LookupPcs
  BY DEF Today, LookupPcs
<1>2. turnon \in SUBSET Row /\ job[p] \in Job /\ now \in Nat /\ stable[p] \subseteq turnon
  BY <1>1, SearchTypes DEF SearchInv, Searched
<1>3. UNCHANGED <<disk, handle, stable>>
  BY DEF Today, files
<1>4. CASE Finds(p, rows, 0)
  <2>1. pc'[p] = "found"
    BY <1>4 DEF Finds, TypeInv, LegacyTypeOK
  <2>2. QED
    BY <2>1 DEF Searched, LookupPcs
<1>5. CASE /\ rows = {} /\ pc' = [pc EXCEPT ![p] = "later"]
           /\ job' = [job EXCEPT ![p] = [job[p] EXCEPT !.day = 1]]
  <2>1. job'[p] = [job[p] EXCEPT !.day = 1]
    BY <1>5 DEF TypeInv, LegacyTypeOK
  <2>2. job'[p].day = 1 /\ job'[p].now = now
    BY <1>2, <2>1, SMT DEF Job
  <2>3. \A s \in stable[p] : Absent(s, now, 0)
    BY <1>2, <1>5, NothingToday
  <2>4. \A i \in 0..7 : i < 1 => i = 0
    BY SMT
  <2>5. QED
    BY <1>2, <1>3, <2>2, <2>3, <2>4 DEF Searched, File
<1>6. QED
  BY <1>4, <1>5 DEF Today

LEMMA SearchLater ==
  ASSUME TypeInv, SearchInv, NEW p \in Processes, Later(p), ~ Leave(p)
  PROVE  Searched(p)'
<1> DEFINE turnon == File(p).rows["turnon"]
           now    == job[p].now
           d      == job[p].day
           rows   == Ahead(turnon, now, d)
<1>1. pc[p] = "later" /\ pc[p] \in LookupPcs
  BY DEF Later, LookupPcs
<1>2. /\ turnon \in SUBSET Row /\ job[p] \in Job /\ now \in Nat /\ d \in 0..7
      /\ stable[p] \subseteq turnon
      /\ \A s \in stable[p] : \A i \in 0..7 : i < d => Absent(s, now, i)
  BY <1>1, SearchTypes DEF SearchInv, Searched
<1>3. UNCHANGED <<disk, handle, stable>>
  BY DEF Later, files
<1>4. CASE Finds(p, rows, d)
  <2>1. pc'[p] = "found"
    BY <1>4 DEF Finds, TypeInv, LegacyTypeOK
  <2>2. QED
    BY <2>1 DEF Searched, LookupPcs
<1>5. CASE /\ rows = {} /\ d < LastDay
           /\ job' = [job EXCEPT ![p] = [job[p] EXCEPT !.day = d + 1]]
  <2>1. job'[p] = [job[p] EXCEPT !.day = d + 1]
    BY <1>5 DEF TypeInv, LegacyTypeOK
  <2>2. job'[p].day = d + 1 /\ job'[p].now = now
    BY <1>2, <2>1, SMT DEF Job
  <2>3. \A s \in stable[p] : Absent(s, now, d)
    BY <1>2, <1>5, NothingAhead
  <2>4. \A i \in 0..7 : i < d + 1 => (i < d \/ i = d)
    BY <1>2, SMT
  <2>5. \A s \in stable[p] : \A i \in 0..7 : i < d + 1 => Absent(s, now, i)
    BY <1>2, <2>3, <2>4
  <2>6. QED
    BY <1>2, <1>3, <2>2, <2>5 DEF Searched, File
<1>6. QED
  BY <1>4, <1>5 DEF Later

LEMMA SearchNext ==
  ASSUME TypeInv, SearchInv, [Next]_vars
  PROVE  SearchInv'
<1>1. CASE UNCHANGED vars \/ Over
  BY <1>1 DEF vars, Over, files, SearchInv, Searched, File
<1>2. ASSUME NEW q \in Processes, Step(q)
      PROVE  SearchInv'
  <2>1. CASE Exit(q) \/ Rtcwake(q)
    BY <2>1, StepEnds, SearchEnds
  <2>2. CASE ~ Exit(q) /\ ~ Rtcwake(q)
    <3>1. Searched(q)'
      <4>1. CASE pc'[q] \notin LookupPcs
        BY <4>1 DEF Searched, LookupPcs
      <4>2. CASE pc'[q] \in LookupPcs
        <5>1. \/ Lookup(q, "settings") /\ disk' = disk /\ handle' = handle
              \/ Lookup(q, "match") /\ disk' = disk /\ handle' = handle
              \/ Today(q) /\ ~ Leave(q)
              \/ Later(q) /\ ~ Leave(q)
          BY <1>2, <2>2, <4>2, IntoLookup
        <5>2. ASSUME NEW from \in {"settings", "match"}, Lookup(q, from)
              PROVE  pc[q] \in OpenPcs
          BY <5>2 DEF Lookup, Goes, OpenPcs
        <5>3. QED
          BY <5>1, <5>2, SearchBegins, SearchToday, SearchLater
      <4>3. QED
        BY <4>1, <4>2
    <3>2. \A p \in Processes \ {q} : Searched(p)'
      BY <1>2, <2>2, SearchOthers
    <3>3. QED
      BY <3>1, <3>2 DEF SearchInv
  <2>3. QED
    BY <2>1, <2>2
<1>3. QED
  BY <1>1, <1>2 DEF Next

NoneSkippedBy(p) ==
  /\ pc[p] \in LookupPcs /\ pc'[p] = "found"
  /\ Date(job'[p].clock) = Date(job[p].now)
  => /\ job'[p].wake > job[p].now
     /\ \A r \in stable[p] : ~ Skips(r, job[p].now, job'[p].wake)

LEMMA FindSkipsNone ==
  ASSUME TypeInv, SearchInv, NEW p \in Processes, pc[p] \in LookupPcs,
         Date(job'[p].clock) = Date(job[p].now),
         (Today(p) \/ Later(p)) /\ pc'[p] = "found"
  PROVE  /\ job'[p].wake > job[p].now
         /\ \A r \in stable[p] : ~ Skips(r, job[p].now, job'[p].wake)
<1> DEFINE turnon == File(p).rows["turnon"]
           now    == job[p].now
           d      == job[p].day
<1>1. /\ turnon \in SUBSET Row /\ job[p] \in Job /\ now \in Nat /\ d \in 0..7
      /\ stable[p] \subseteq turnon
  BY SearchTypes DEF SearchInv, Searched
<1>2. ~ Leave(p)
  BY DEF Leave, Exit, Ends, End, TypeInv, LegacyTypeOK
<1>3. ASSUME NEW rows \in SUBSET turnon, NEW ahead \in Nat, Finds(p, rows, ahead)
      PROVE  \E r \in rows : job'[p].wake = At(Date(now) + ahead, r.time)
  <2>1. rows \in SUBSET Row
    BY <1>1
  <2>2. PICK r \in rows, clock \in Nat, j \in Job :
          /\ job' = [job EXCEPT ![p] = j] /\ j.clock = clock
          /\ j.wake = At(Date(clock) + ahead, r.time)
    BY <1>3, <2>1, FindsJob
  <2>3. job'[p] = j
    BY <2>2 DEF TypeInv, LegacyTypeOK
  <2>4. QED
    BY <2>2, <2>3
<1>4. job'[p].wake \in Nat \cup {NoTime} /\ now \in Nat
  <2>1. job'[p] \in Job
    BY TodayType, LaterType DEF TypeInv, LegacyTypeOK
  <2>2. QED
    BY <1>1, <2>1, SMT DEF Job
<1>5. CASE Today(p)
  <2>1. pc[p] = "today" /\ Finds(p, LaterToday(turnon, now), 0)
    BY <1>2, <1>5 DEF Today, TypeInv, LegacyTypeOK
  <2>2. LaterToday(turnon, now) \in SUBSET turnon /\ 0 \in Nat
    BY RowsType
  <2>3. PICK r \in LaterToday(turnon, now) : job'[p].wake = At(Date(now) + 0, r.time)
    BY <1>3, <2>1, <2>2
  <2>4. /\ now < At(Date(now) + 0, r.time)
        /\ \A s \in turnon : ~ Skips(s, now, At(Date(now) + 0, r.time))
    BY <1>1, <2>2, FoundToday
  <2>5. QED
    BY <1>1, <1>4, <2>3, <2>4, SMT
<1>6. CASE Later(p)
  <2>1. pc[p] = "later" /\ Finds(p, Ahead(turnon, now, d), d)
    BY <1>2, <1>6 DEF Later, TypeInv, LegacyTypeOK
  <2>2. Ahead(turnon, now, d) \in SUBSET turnon /\ d \in Nat /\ d # 0
    <3>1. d \in Nat
      BY <1>1, SMT
    <3>2. QED
      BY <2>1, <3>1, RowsType, SearchTypes
  <2>3. PICK r \in Ahead(turnon, now, d) : job'[p].wake = At(Date(now) + d, r.time)
    BY <1>3, <2>1, <2>2
  <2>4. \A s \in stable[p] : \A i \in 0..7 : i < d => Absent(s, now, i)
    BY <2>1 DEF SearchInv, Searched
  <2>5. \A s \in stable[p] : ~ Skips(s, now, At(Date(now) + d, r.time))
    BY <1>1, <2>2, <2>4, FoundAhead
  <2>6. now < At(Date(now) + d, r.time)
    BY <1>1, <2>2, AheadIsLater
  <2>7. QED
    BY <1>4, <2>3, <2>5, <2>6, SMT
<1>7. QED
  BY <1>5, <1>6

\* main.c:833, cron_toff.c:120: however the table is edited between the SELECTs
\* of a lookup, the wake up it finds is ahead, and no rule that was in the
\* table all the time comes before it; for all rules, moments and numbers of
\* programs, unless the date changes between the clock and SQL's 'now'.
THEOREM LegacyLookups == Spec => NoStableRuleIsSkipped
<1>1. Init => TypeInv /\ SearchInv
  BY LegacyInitType DEF Init, SearchInv, Searched, LookupPcs
<1>2. (TypeInv /\ SearchInv) /\ [Next]_vars => (TypeInv /\ SearchInv)'
  BY NextType, SearchNext
<1>3. (TypeInv /\ SearchInv) /\ [Next]_vars => \A p \in Processes : NoneSkippedBy(p)
  <2> SUFFICES ASSUME TypeInv, SearchInv, [Next]_vars, NEW p \in Processes,
                      pc[p] \in LookupPcs, pc'[p] = "found",
                      Date(job'[p].clock) = Date(job[p].now)
               PROVE  /\ job'[p].wake > job[p].now
                      /\ \A r \in stable[p] : ~ Skips(r, job[p].now, job'[p].wake)
    BY DEF NoneSkippedBy
  <2>1. pc[p] # "found" /\ pc'[p] # "idle"
    BY DEF LookupPcs
  <2>2. Step(p)
    BY <2>1, WhoGoesSteps
  <2>3. ~ Exit(p) /\ ~ Rtcwake(p)
    BY <2>1 DEF Exit, Rtcwake, Ends, End, LookupPcs
  <2>4. Today(p) \/ Later(p)
    <3>1. ~ Lookup(p, "settings") /\ ~ Lookup(p, "match")
      BY DEF Lookup, Goes, LookupPcs
    <3>2. QED
      BY <2>2, <2>3, <3>1, IntoLookup
  <2>5. QED
    BY <2>4, FindSkipsNone
<1>4. QED
  BY <1>1, <1>2, <1>3, PTL DEF Spec, NoStableRuleIsSkipped, NoneSkippedBy
=============================================================================
