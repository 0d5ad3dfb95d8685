----------------------------- MODULE LegacyPrograms -----------------------------
(***************************************************************************)
(* The programs of the design before gawaked, on one database file: the    *)
(* menu of gawake-cli (src/main.c), which resets and edits it; cron_toff,  *)
(* which cron runs every ten minutes to turn the computer off at a rule    *)
(* and on again at the next; and cron_ton, which runs a rule's command     *)
(* after a boot.  Each process may run any of them, one after the other.   *)
(*                                                                         *)
(* A program has a time of its own, which passes between its steps; what   *)
(* two programs share is the file.                                         *)
(*                                                                         *)
(* An operator that stands before the one it varies is a mutant of it.     *)
(***************************************************************************)
EXTENDS LegacyDatabase

CONSTANTS
  Databases,    \* files that may exist at the beginning
  NewRules,     \* the rules users enter for each table, without an id
  Ids,          \* the ids they type
  Choices,      \* the configurations each value they enter is of
  Times,        \* moments at which a program may read the clock
  Delays,       \* how long a lookup may take, in seconds
  BootTime,     \* boot_time, which no program changes
  MaxStarts, MaxWrites   \* bounds: programs that are started, writes that succeed

ASSUME ProgramsAssumption ==
  /\ Databases \subseteq Content /\ \A d \in Databases : d.stage = "complete"
  /\ DOMAIN NewRules = Tables
  /\ \A t \in Tables : \A r \in NewRules[t] :
       r.days \subseteq WeekDays /\ r.time \in Seconds /\ r.command \in BOOLEAN
  /\ Choices \subseteq Config /\ Ids \subseteq Nat
  /\ Times \subseteq Nat /\ Delays \subseteq Nat
  /\ BootTime \in Nat /\ MaxStarts \in Nat /\ MaxWrites \in Nat

Programs == {"gawake-cli", "schedule", "custom", "cron_toff", "cron_ton"}
NoTime   == -1

VARIABLES
  program,  \* what each process runs; "schedule" and "custom" are gawake-cli -s and -c
  edit,     \* the menu: what was chosen in modify_rule (), and whether a row was found
  job,      \* local variables of a lookup, and the time it is to the process
  stable,   \* history: turn on rules that were there throughout a lookup
  starts, writes   \* how much of the bounds is used

vars == <<files, pc, program, edit, job, stable, starts, writes>>

LookupPcs == {"today", "later"}
JobPcs    == {"opening", "settings", "match", "found", "sleep", "command"} \cup LookupPcs
MenuPcs   == {"open", "menu", "write"}
Pcs       == {"idle"} \cup CheckerPcs \cup JobPcs \cup MenuPcs

Edit == [op : {"none", "add", "remove", "edit"}, table : Tables, id : Nat, found : BOOLEAN]
Job  == [now : Nat \cup {NoTime}, clock : Nat \cup {NoTime}, day : 0..7,
         wake : Nat \cup {NoTime}, mode : Modes \cup {"unset"}]

NoEdit == [op |-> "none", table |-> "turnon", id |-> 0, found |-> FALSE]
Asked(t) == [now |-> t, clock |-> t, day |-> 0, wake |-> NoTime, mode |-> "unset"]
NoJob    == Asked(NoTime)

LegacyTypeOK ==
  /\ DatabaseTypeOK
  /\ pc \in [Processes -> Pcs]
  /\ program \in [Processes -> Programs]
  /\ edit \in [Processes -> Edit] /\ job \in [Processes -> Job]
  /\ stable \in [Processes -> SUBSET Row]
  /\ starts \in 0..MaxStarts /\ writes \in 0..MaxWrites

\* No file yet, or one that was made and edited before.
Init ==
  /\ pc = [p \in Processes |-> "idle"]
  /\ \/ path = NoFile /\ disk = [f \in Files |-> EmptyFile]
     \/ \E f \in Files, d \in Databases :
          path = f /\ disk = [[g \in Files |-> EmptyFile] EXCEPT ![f] = d]
  /\ handle = [p \in Processes |-> NoFile] /\ statement = [p \in Processes |-> FALSE]
  /\ cut = {}
  /\ program = [p \in Processes |-> "gawake-cli"]
  /\ edit = [p \in Processes |-> NoEdit] /\ job = [p \in Processes |-> NoJob]
  /\ stable = [p \in Processes |-> {}]
  /\ starts = 0 /\ writes = 0

bounds == <<starts, writes>>

-----------------------------------------------------------------------------
(* Beginning and end.                                                      *)

FirstPc(g) == CASE g = "gawake-cli" -> "access"
                [] g = "custom"     -> "sleep"
                [] OTHER            -> "opening"

\* cron's programs read the clock first; -c is given a date.
FirstJob(g, t, m) ==
  IF g \in {"cron_toff", "cron_ton"} THEN Asked(t)
  ELSE IF g = "custom" THEN [NoJob EXCEPT !.mode = m] ELSE NoJob

Start(p) ==
  /\ pc[p] = "idle" /\ starts < MaxStarts /\ starts' = starts + 1
  /\ \E g \in Programs, t \in Times, m \in Modes :
       /\ pc' = [pc EXCEPT ![p] = FirstPc(g)]
       /\ program' = [program EXCEPT ![p] = g]
       /\ job' = [job EXCEPT ![p] = FirstJob(g, t, m)]
  /\ UNCHANGED <<files, edit, stable, writes>>

Ends(gone) ==
  /\ End(gone)
  /\ edit' = [p \in Processes |-> IF p \in gone THEN NoEdit ELSE edit[p]]
  /\ job' = [p \in Processes |-> IF p \in gone THEN NoJob ELSE job[p]]
  /\ stable' = [p \in Processes |-> IF p \in gone THEN {} ELSE stable[p]]
  /\ program' = [p \in Processes |-> IF p \in gone THEN "gawake-cli" ELSE program[p]]
  /\ UNCHANGED bounds

Exit(p) == Ends({p})

\* <Ctrl C>, which ends a db_checker as well.
Interrupt(p) ==
  /\ program[p] \in {"gawake-cli", "schedule"} /\ pc[p] # "idle"
  /\ Exit(p)

-----------------------------------------------------------------------------
(* The menu.                                                               *)

Checker(p) ==
  /\ \/ Access(p) \/ Create(p) \/ Chown(p) \/ Connect(p) \/ CreateTables(p) \/ InsertRows(p)
  /\ UNCHANGED <<program, edit, job, stable, bounds>>

\* database () after the child has ended, however it has.
Open(p) ==
  \/ /\ path # NoFile /\ Goes(p, "open", "menu")
     /\ handle' = [handle EXCEPT ![p] = path]
     /\ UNCHANGED <<path, disk, statement, cut, program, edit, job, stable, bounds>>
  \/ pc[p] = "open" /\ Exit(p)

\* The handle is left behind if a statement is not finalized; its file loses
\* its name either way.
Reset(p) ==
  /\ Goes(p, "menu", "access") /\ Removed(p)
  /\ handle' = [handle EXCEPT ![p] = NoFile] /\ statement' = [statement EXCEPT ![p] = FALSE]
  /\ UNCHANGED <<disk, cut, program, edit, job, stable, bounds>>

Quit(p) == pc[p] = "menu" /\ Exit(p)

\* The SELECT that looks for an id is finalized only if it finds nothing.
SelectFinalized(p) == UNCHANGED statement
SelectLeft(p)      == statement' = [statement EXCEPT ![p] = TRUE]

\* modify_rule () up to the user's input, which may take long.  Without a row
\* of this id, or if the step fails, it returns to the menu; a row is added
\* without a SELECT, and that a SELECT cannot be prepared is not looked at.
ChooseEdit(p) ==
  /\ Goes(p, "menu", "write") /\ Selectable(p)
  /\ \E op \in {"add", "remove", "edit"}, t \in Tables, i \in Ids :
       \/ /\ op # "add" /\ (\E r \in File(p).rows[t] : r.id = i) /\ SelectLeft(p)
          /\ edit' = [edit EXCEPT ![p] = [op |-> op, table |-> t, id |-> i, found |-> TRUE]]
       \/ /\ UNCHANGED statement
          /\ edit' = [edit EXCEPT ![p] = [op |-> op, table |-> t, id |-> i, found |-> FALSE]]
  /\ UNCHANGED <<path, disk, handle, cut, program, job, stable, bounds>>

\* sqlite3_exec () of one statement, which may fail for reasons of the disk.
Exec(p, content) ==
  \/ /\ Writable(p) /\ writes < MaxWrites /\ writes' = writes + 1
     /\ disk' = [disk EXCEPT ![handle[p]] = content]
     /\ stable' = [q \in Processes |->
                     IF handle[q] = handle[p] THEN stable[q] \cap content.rows["turnon"]
                                              ELSE stable[q]]
  \/ UNCHANGED <<disk, stable, writes>>

Numbered(r, i) == [id |-> i, days |-> r.days, time |-> r.time, command |-> r.command]

\* INSERT, DELETE or UPDATE; the last two of the row with the id, if any.
Edited(c, e, r) ==
  LET others == {s \in c.rows[e.table] : s.id # e.id}
      last   == c.lastId[e.table] + 1
  IN  CASE e.op = "add"    -> [c EXCEPT !.rows[e.table] = @ \cup {Numbered(r, last)},
                                        !.lastId[e.table] = last]
        [] e.op = "remove" -> [c EXCEPT !.rows[e.table] = others]
        [] e.op = "edit"   ->
             [c EXCEPT !.rows[e.table] = IF others = @ THEN @ ELSE others \cup {Numbered(r, e.id)}]

WriteEdit(p) ==
  /\ Goes(p, "write", "menu")
  /\ \E r \in NewRules[edit[p].table] : Exec(p, Edited(File(p), edit[p], r))
  /\ edit' = [edit EXCEPT ![p] = NoEdit]
  /\ UNCHANGED <<path, handle, statement, cut, program, job, starts>>

\* config (): the option for the database time writes the status as well.  The
\* options of rtcwake are text that nothing here depends on; an option that
\* ends in no SQL at all is told to be done.
Configure(p) ==
  /\ pc[p] = "menu" /\ Selectable(p)
  /\ \E c \in Choices, column \in {"status", "commands", "def_mode"} :
       Exec(p, [File(p) EXCEPT !.config[column] = c[column]])
  /\ UNCHANGED <<path, handle, statement, cut, pc, program, edit, job, starts>>

\* [s]: the lookup uses the connection of the menu.
ScheduleNow(p) ==
  /\ Goes(p, "menu", "settings")
  /\ UNCHANGED <<files, program, edit, job, stable, bounds>>

-----------------------------------------------------------------------------
(* The lookups: schedule (), cron_toff and cron_ton.                       *)

ForMenu(p) == program[p] = "gawake-cli"
Schedules(p) == program[p] \in {"gawake-cli", "schedule"}

\* A lookup that fails, or finds nothing, returns to the menu it was made from.
Leave(p) ==
  \/ /\ ForMenu(p) /\ pc' = [pc EXCEPT ![p] = "menu"]
     /\ job' = [job EXCEPT ![p] = NoJob] /\ stable' = [stable EXCEPT ![p] = {}]
     /\ UNCHANGED <<files, program, edit, bounds>>
  \/ ~ ForMenu(p) /\ Exit(p)

OpenFile(p) ==
  \/ /\ path # NoFile /\ Goes(p, "opening", "settings")
     /\ handle' = [handle EXCEPT ![p] = path]
     /\ UNCHANGED <<path, disk, statement, cut, program, edit, job, stable, bounds>>
  \/ pc[p] = "opening" /\ Exit(p)

\* A lookup of turn on rules begins.
Lookup(p, from) ==
  /\ Goes(p, from, "today")
  /\ stable' = [stable EXCEPT ![p] = File(p).rows["turnon"]]

\* The row of table config, which a half made file does not have: what the
\* variables hold then is 0, or for the mode anything.
ConfigRow(p) ==
  IF File(p).stage = "complete" THEN File(p).config
  ELSE [status |-> FALSE, commands |-> FALSE, def_mode |-> "unset"]

\* schedule () reads the clock only now; cron's programs end if Gawake, or for
\* cron_ton the commands, are disabled.
Settings(p) ==
  \/ /\ pc[p] = "settings" /\ Selectable(p)
     /\ \/ /\ Schedules(p) /\ Lookup(p, "settings")
           /\ \E t \in Times :
                job' = [job EXCEPT ![p] = [Asked(t) EXCEPT !.mode = ConfigRow(p).def_mode]]
        \/ /\ ~ Schedules(p) /\ Goes(p, "settings", "match")
           /\ ConfigRow(p).status /\ (program[p] = "cron_ton" => ConfigRow(p).commands)
           /\ job' = [job EXCEPT ![p].mode = ConfigRow(p).def_mode]
           /\ UNCHANGED stable
     /\ UNCHANGED <<files, program, edit, bounds>>
  \/ pc[p] = "settings" /\ Leave(p)

\* cron_toff: is it the minute of a turn off rule?
MatchOff(p) ==
  \/ /\ program[p] = "cron_toff" /\ Lookup(p, "match")
     /\ OffNow(File(p).rows["turnoff"], job[p].now) # {}
     /\ UNCHANGED <<files, program, edit, job, bounds>>
  \/ program[p] = "cron_toff" /\ pc[p] = "match" /\ Exit(p)

\* cron_ton: the command of the first turn on rule that matches is run.
MatchOn(p) ==
  \/ /\ program[p] = "cron_ton" /\ Goes(p, "match", "command")
     /\ \E r \in OnNow(File(p).rows["turnon"], job[p].now, BootTime) : r.command
     /\ UNCHANGED <<files, program, edit, job, stable, bounds>>
  \/ program[p] = "cron_ton" /\ pc[p] = "match" /\ Exit(p)

RunTurnOn(p) == pc[p] = "command" /\ Exit(p)

\* The date of the wake up is SQL's own 'now', read after the time.
Finds(p, rows, ahead) ==
  /\ pc' = [pc EXCEPT ![p] = "found"]
  /\ \E r \in rows, d \in Delays :
       LET clock == job[p].now + d
       IN  job' = [job EXCEPT ![p] = [@ EXCEPT !.clock = clock,
                                               !.wake = At(Date(clock) + ahead, r.time)]]

Today(p) ==
  \/ /\ pc[p] = "today"
     /\ LET rows == LaterToday(File(p).rows["turnon"], job[p].now)
        IN  \/ Finds(p, rows, 0)
            \/ /\ rows = {} /\ pc' = [pc EXCEPT ![p] = "later"]
               /\ job' = [job EXCEPT ![p].day = 1]
     /\ UNCHANGED <<files, program, edit, stable, bounds>>
  \/ pc[p] = "today" /\ Leave(p)

\* One SELECT for each of the seven days ahead.
EighthDay == 8
LastDay   == 7
Later(p) ==
  \/ /\ pc[p] = "later"
     /\ LET rows == Ahead(File(p).rows["turnon"], job[p].now, job[p].day)
        IN  \/ Finds(p, rows, job[p].day)
            \/ /\ rows = {} /\ job[p].day < LastDay /\ UNCHANGED pc
               /\ job' = [job EXCEPT ![p].day = @ + 1]
     /\ UNCHANGED <<files, program, edit, stable, bounds>>
  \/ pc[p] = "later" /\ Leave(p)

\* schedule () closes the database, unless a statement is left; cron_toff runs
\* the command of the rule first, which may take any time.
BeforeSleep(p) ==
  /\ Goes(p, "found", "sleep")
  /\ handle' = [handle EXCEPT ![p] = IF Schedules(p) /\ ~ statement[p] THEN NoFile ELSE @]
  /\ job' = [job EXCEPT ![p] = [NoJob EXCEPT !.mode = job[p].mode]]
  /\ stable' = [stable EXCEPT ![p] = {}]
  /\ UNCHANGED <<path, disk, statement, cut, program, edit, bounds>>

\* Mode off ends whatever runs, unless rtcwake refuses the date, which may be
\* past by now, or fails; it is not looked at how it ended.
Rtcwake(p) ==
  /\ pc[p] = "sleep"
  /\ \/ job[p].mode = "off" /\ Ends({q \in Processes : pc[q] # "idle"})
     \/ Exit(p)

-----------------------------------------------------------------------------

Over ==
  /\ starts = MaxStarts /\ \A p \in Processes : pc[p] = "idle"
  /\ UNCHANGED vars

Step(p) ==
  \/ Start(p) \/ Interrupt(p) \/ Checker(p) \/ Open(p) \/ Reset(p) \/ Quit(p)
  \/ ChooseEdit(p) \/ WriteEdit(p) \/ Configure(p) \/ ScheduleNow(p)
  \/ OpenFile(p) \/ Settings(p) \/ MatchOff(p) \/ MatchOn(p) \/ RunTurnOn(p)
  \/ Today(p) \/ Later(p) \/ BeforeSleep(p) \/ Rtcwake(p)

Next == Over \/ \E p \in Processes : Step(p)

Spec == Init /\ [][Next]_vars

-----------------------------------------------------------------------------
(* Properties.                                                             *)

\* main.c:791: a user who is told that a rule was removed or edited has
\* removed or edited a rule: once the SELECT has found the id, nobody deletes
\* the row before the statement that is made of what the user types after it.
EditsWhatExists ==
  [][\A p \in Processes :
       pc[p] = "write" /\ pc'[p] = "menu" /\ writes' # writes /\ edit[p].found
         => \E r \in File(p).rows[edit[p].table] : r.id = edit[p].id]_vars

\* db_checker.c:82: a file that is there is taken for a database, so that one
\* is there half made only while a db_checker is at work on it, or after one
\* was ended or could not set its permissions: what fails is removed.
HalfMadeIsExplained ==
  path # NoFile /\ disk[path].stage # "complete"
    => path \in cut \/ \E p \in Processes : WorksOn(p) = path

\* cron_toff.c:120, main.c:833: however users edit the rules between its up to
\* eight SELECTs, a lookup never finds a wake up after the time of a turn on
\* rule that was there all the time, unless midnight passes meanwhile.
NoStableRuleIsSkipped ==
  [][\A p \in Processes :
       /\ pc[p] \in LookupPcs /\ pc'[p] = "found"
       /\ Date(job'[p].clock) = Date(job[p].now)
       => /\ job'[p].wake > job[p].now
          /\ \A r \in stable[p] : ~ Skips(r, job[p].now, job'[p].wake)]_vars

\* cron_ton.c:92: though boot_time is added to a decimal number, a command is
\* run only if its rule came due at most boot_time seconds ago.
CommandsAreTimely ==
  [][\A p \in Processes :
       pc[p] = "match" /\ pc'[p] = "command"
         => \E r \in File(p).rows["turnon"] : r.command /\ IsDue(r, job[p].now, BootTime)]_vars
=============================================================================
