------------------------------- MODULE GawakeCli -------------------------------
(***************************************************************************)
(* gawake-cli (gawake-cli/main.c), of which several may run at once, and   *)
(* another program that edits the same database through the library.       *)
(*                                                                         *)
(* A program stops at prompts; the user types a number, something that is  *)
(* none, a key of the menu or an answer, or ends the input.                *)
(*                                                                         *)
(* An operator that stands before the one it varies is a mutant of it.     *)
(***************************************************************************)
EXTENDS DatabaseConnection

CONSTANTS
  Clis,         \* the running gawake-cli
  Application,  \* the other program
  Numbers       \* what is read of what users type, and what uninitialised memory
                \* may hold

ASSUME CliAssumption ==
  /\ Programs = Clis \cup {Application} /\ Application \notin Clis
  /\ Numbers \subseteq Int

VARIABLES
  pc,       \* the prompt or the call each gawake-cli is at
  way,      \* what it was started for
  input,    \* whether its standard input is "open" or at its "end"
  table,    \* the table that is printed or was chosen
  answers,  \* local variables of add_remove_rule ()
  printed,  \* history: the rows of each table as the user saw them
  invalid   \* history: nothing was read of what was typed for an id

locals == <<pc, way, input, table, answers>>
vars   == <<file, handle, reading, locals, printed, invalid>>

\* Prompts at which the end of the input ends the program ...
Prompts == {"menu", "table", "action", "name", "time", "days", "mode", "id", "option", "value"}
\* ... and the others: both return to the menu.
Questions == {"confirm", "info"}
Calls     == {"start", "connect", "custom", "count", "rows", "add", "delete", "disconnect",
              "exited"}

CliTypeOK ==
  /\ DatabaseTypeOK
  /\ pc \in [Clis -> Prompts \cup Questions \cup Calls]
  /\ way \in [Clis -> {"menu", "custom", "schedule"}]
  /\ input \in [Clis -> {"open", "end"}]
  /\ table \in [Clis -> Tables]
  /\ answers \in [Clis -> [name : Names, time : 0..(DayLength - 1), mode : 0..(MODE_LAST - 1),
                         id : Int]]
  /\ printed \in [Clis -> [Tables -> Seq(Row)]]
  /\ invalid \in [Clis -> BOOLEAN]

NoAnswers == [name |-> "plain", time |-> 0, mode |-> 0, id |-> 0]

Init ==
  /\ DatabaseInit
  /\ pc = [c \in Clis |-> "start"] /\ way = [c \in Clis |-> "menu"]
  /\ input = [c \in Clis |-> "open"] /\ table = [c \in Clis |-> "turnon"]
  /\ answers = [c \in Clis |-> NoAnswers]
  /\ printed = [c \in Clis |-> [t \in Tables |-> <<>>]]
  /\ invalid = [c \in Clis |-> FALSE]

-----------------------------------------------------------------------------

Goes(c, from, to) == pc[c] = from /\ pc' = [pc EXCEPT ![c] = to]

\* The user types at this prompt.
Typed(c, prompt, to) == input[c] = "open" /\ Goes(c, prompt, to)

\* get_int (): the values it may return.  If it is to repeat, it asks again until
\* a number of the range is typed that has no more than the digits there is room
\* for.  Otherwise it returns whatever number it has read, of one that is too
\* long the first digits, and val uninitialised if nothing it can read was typed.
RawInput(range, repeat) == Numbers
get_int(range, repeat)  == IF repeat THEN Numbers \cap range ELSE Numbers

-----------------------------------------------------------------------------
(* main ()                                                                 *)

Start(c) ==
  /\ \/ Goes(c, "start", "exited") /\ UNCHANGED way      \* -h, or wrong options
     \/ Goes(c, "start", "connect") /\ way' = [way EXCEPT ![c] = "menu"]
     \/ Goes(c, "start", "connect") /\ way' = [way EXCEPT ![c] = "custom"]
     \/ Goes(c, "start", "connect") /\ way' = [way EXCEPT ![c] = "schedule"]
  /\ UNCHANGED <<file, handle, reading, input, table, answers, printed, invalid>>

\* Where the program goes once connected; -s has nothing to call yet.
Destination(c) == CASE way[c] = "menu" -> "menu"
                    [] way[c] = "custom" -> "custom"
                    [] way[c] = "schedule" -> "disconnect"

Connected(c) == IF handle'[c] = "open" THEN Destination(c) ELSE "exited"

Connect(c) ==
  /\ connect_database(c)
  /\ Goes(c, "connect", Connected(c))
  /\ UNCHANGED <<way, input, table, answers, printed, invalid>>

Custom(c) ==
  /\ Goes(c, "custom", "disconnect")
  /\ rule_custom_schedule(c)
  /\ UNCHANGED <<handle, reading, way, input, table, answers, printed, invalid>>

\* The process is gone, and with it everything it held.
Exit(c) ==
  /\ pc' = [pc EXCEPT ![c] = "exited"]
  /\ disconnect_database(c)
  /\ statements' = [statements EXCEPT ![c] = {}]
  /\ UNCHANGED <<file, rowcount, array, way, input, table, answers, printed, invalid>>

Disconnect(c) == pc[c] = "disconnect" /\ Exit(c)

\* exit_handler (), by <Ctrl C> ...
Interrupt(c) == pc[c] # "exited" /\ Exit(c)

\* ... and where the end of the input is looked at.
OnlyMenuNotices(c) == pc[c] = "menu"
NoticesTheEnd(c)   == pc[c] \in Prompts

EndOfInput(c) == input[c] = "end" /\ NoticesTheEnd(c) /\ Exit(c)

-----------------------------------------------------------------------------
(* menu ()                                                                 *)

Menu(c) ==
  /\ \/ Typed(c, "menu", "count") /\ table' = [table EXCEPT ![c] = "turnon"]
     \/ /\ \/ Typed(c, "menu", "confirm") \/ Typed(c, "menu", "option")
           \/ Typed(c, "menu", "info") \/ Typed(c, "menu", "disconnect")
           \/ Typed(c, "confirm", "menu") \/ Typed(c, "confirm", "disconnect")
           \/ Typed(c, "info", "menu")
        /\ UNCHANGED table
  /\ answers' = [answers EXCEPT ![c] = NoAnswers]
  /\ UNCHANGED <<file, handle, reading, way, input, printed, invalid>>

\* At the end of the input both questions count as unanswered.
NoAnswer(c) ==
  /\ input[c] = "end"
  /\ Goes(c, "confirm", "menu") \/ Goes(c, "info", "menu")
  /\ UNCHANGED <<file, handle, reading, way, input, table, answers, printed, invalid>>

\* config (): which option, then its new value.
Option(c) ==
  /\ \E n \in get_int(0..3, FALSE) :
       /\ answers' = [answers EXCEPT ![c].id = n]
       /\ Typed(c, "option", IF n \in 1..3 THEN "value" ELSE "menu")
  /\ UNCHANGED <<file, handle, reading, way, input, table, printed, invalid>>

Value(c) ==
  LET range == IF answers[c].id = 2 THEN 0..(MODE_LAST - 1) ELSE 0..1
  IN  /\ Typed(c, "value", "menu")
      /\ \E n \in get_int(range, TRUE) :
           \/ answers[c].id = 1 /\ configuration_set_localtime(c, n = 1)
           \/ answers[c].id = 2 /\ configuration_set_default_mode(c, n)
           \/ answers[c].id = 3 /\ configuration_set_shutdown_fail(c, n = 1)
      /\ UNCHANGED <<handle, reading, way, input, table, answers, printed, invalid>>

-----------------------------------------------------------------------------
(* add_remove_rule (): both tables are printed, then one is edited         *)

PrintFails(c) ==
  \/ Goes(c, "count", "menu") /\ UNCHANGED reading
  \/ Goes(c, "rows", "menu") /\ rule_get_all_fails(c)

PrintStep(c) ==
  \/ Goes(c, "count", "rows") /\ rule_get_all_count(c, table[c])
  \/ Goes(c, "rows", "rows") /\ rule_get_all_row(c, table[c])
  \/ PrintFails(c)

PrintRules(c) ==
  /\ \/ /\ PrintStep(c)
        /\ UNCHANGED <<table, printed>>
     \/ /\ rule_get_all_ends(c, table[c])
        /\ printed' = [printed EXCEPT ![c][table[c]] = array[c]]
        /\ \/ /\ table[c] = "turnon"
              /\ Goes(c, "rows", "count")
              /\ table' = [table EXCEPT ![c] = "turnoff"]
           \/ /\ table[c] = "turnoff"
              /\ Goes(c, "rows", "table")
              /\ UNCHANGED table
  /\ UNCHANGED <<file, handle, way, input, answers, invalid>>

ChooseTable(c) ==
  /\ \E n \in get_int(1..2, FALSE) :
       \/ n = 1 /\ Typed(c, "table", "action") /\ table' = [table EXCEPT ![c] = "turnon"]
       \/ n = 2 /\ Typed(c, "table", "action") /\ table' = [table EXCEPT ![c] = "turnoff"]
       \/ n \notin 1..2 /\ Typed(c, "table", "menu") /\ UNCHANGED table
  /\ UNCHANGED <<file, handle, reading, way, input, answers, printed, invalid>>

ChooseAction(c) ==
  /\ Typed(c, "action", "name") \/ Typed(c, "action", "id")
  /\ UNCHANGED <<file, handle, reading, way, input, table, answers, printed, invalid>>

\* get_user_input (): name, time, days and, for a turn off rule, its mode.
Describe(c) ==
  /\ \/ /\ Typed(c, "name", "time")
        /\ \E name \in Names : answers' = [answers EXCEPT ![c].name = name]
     \/ /\ Typed(c, "time", "days")
        /\ \E n \in get_int(0..(DayLength - 1), TRUE) :
             answers' = [answers EXCEPT ![c].time = n]
     \/ /\ Typed(c, "days", IF table[c] = "turnoff" THEN "mode" ELSE "add")
        /\ UNCHANGED answers
     \/ /\ Typed(c, "mode", "add")
        /\ \E n \in get_int(0..2, TRUE) :
             answers' = [answers EXCEPT ![c].mode = n]
  /\ UNCHANGED <<file, handle, reading, way, input, table, printed, invalid>>

Add(c) ==
  /\ Goes(c, "add", "menu")
  /\ rule_add(c, table[c], [time |-> answers[c].time, mode |-> answers[c].mode,
                            active |-> TRUE], answers[c].name)
  /\ UNCHANGED <<handle, reading, way, input, table, answers, printed, invalid>>

ChooseId(c) ==
  /\ Typed(c, "id", "delete")
  /\ \E n \in get_int(Nat, FALSE), unread \in BOOLEAN :
       /\ answers' = [answers EXCEPT ![c].id = n]
       /\ invalid' = [invalid EXCEPT ![c] = unread]
  /\ UNCHANGED <<file, handle, reading, way, input, table, printed>>

Delete(c) ==
  /\ Goes(c, "delete", "menu")
  /\ rule_delete(c, table[c], answers[c].id % IdSpace)
  /\ invalid' = [invalid EXCEPT ![c] = FALSE]
  /\ UNCHANGED <<handle, reading, way, input, table, answers, printed>>

-----------------------------------------------------------------------------
(* The user, and the other program.                                        *)

CloseInput(c) ==
  /\ pc[c] # "exited"
  /\ input' = [input EXCEPT ![c] = "end"]
  /\ UNCHANGED <<file, handle, reading, pc, way, table, answers, printed, invalid>>

\* Values of which some are valid and some just not.
Edit(p) ==
  \/ \E t \in Tables, time \in {0, DayLength}, mode \in {0, MODE_OFF, MODE_LAST} :
       LET rule == [time |-> time, mode |-> mode, active |-> TRUE]
       IN  \E name \in Names :
             rule_add(p, t, rule, name) \/ \E i \in DOMAIN rules[t] : rule_edit(p, t, i, rule, name)
  \/ \E t \in Tables : \E i \in DOMAIN rules[t] :
       rule_delete(p, t, rules[t][i].id) \/ rule_enable_disable(p, t, i, FALSE)
  \/ \E time \in {-1, 0, MaxNotificationTime, MaxNotificationTime + 1} :
       configuration_set_notification_time(p, time)

ApplicationEdits ==
  /\ Edit(Application)
  /\ UNCHANGED <<handle, reading, locals, printed, invalid>>

ApplicationConnects ==
  /\ handle[Application] = "null"
  /\ connect_database(Application)
  /\ UNCHANGED <<locals, printed, invalid>>

-----------------------------------------------------------------------------

\* What the program does without its user, and with.
Runs(c) ==
  \/ Start(c) \/ Connect(c) \/ Custom(c) \/ Disconnect(c) \/ EndOfInput(c) \/ NoAnswer(c)
  \/ PrintRules(c) \/ Add(c) \/ Delete(c)

Asks(c) ==
  \/ Menu(c) \/ Option(c) \/ Value(c)
  \/ ChooseTable(c) \/ ChooseAction(c) \/ Describe(c) \/ ChooseId(c)

Finished == (\A c \in Clis : pc[c] = "exited") /\ UNCHANGED vars

Next ==
  \/ \E c \in Clis : Runs(c) \/ Asks(c) \/ Interrupt(c) \/ CloseInput(c)
  \/ ApplicationConnects \/ ApplicationEdits
  \/ Finished

Spec == Init /\ [][Next]_vars

\* The kernel schedules the programs; users need not type.
FairSpec == Spec /\ \A c \in Clis : WF_vars(Runs(c))

-----------------------------------------------------------------------------
(* Properties.                                                             *)

\* rule_get_all () copies as many rows as it has made room for, whatever is
\* added by other programs between its two statements (rules-reader.c, lines
\* 141 and 180): print_rules () prints just those.  This needs the statement
\* that counts to be prepared (line 127).
ArrayIsFilled ==
  \A c \in Clis :
    /\ Len(array[c]) <= rowcount[c]
    /\ pc[c] \in {"table", "action", "id"} => Len(array[c]) = rowcount[c]

\* A rule is deleted only as its user has seen it: nobody edits or deletes it
\* between the table on the screen and the id that is typed.
DeletesWhatWasPrinted ==
  [][\A c \in Clis :
       pc[c] = "delete" /\ pc'[c] = "menu" =>
         \A i \in DOMAIN rules[table[c]] :
           LET row == rules[table[c]][i]
           IN  \/ \E j \in DOMAIN printed[c][table[c]] : row = printed[c][table[c]][j]
               \/ \E j \in DOMAIN rules'[table[c]] : row = rules'[table[c]][j]]_vars

\* Whoever edits it, the file holds only what the daemon can use: times of a
\* day, modes of rtcwake, a notification time that is one; unless SQLite has
\* misread a rule for an apostrophe in its name.
StoredIsUsable ==
  ~ misread =>
    /\ \A t \in Tables : \A i \in DOMAIN rules[t] :
         rules[t][i].rule.time < DayLength /\ rules[t][i].rule.mode < MODE_LAST
    /\ config.default_mode < MODE_LAST
    /\ config.notification_time \in 0..MaxNotificationTime

\* When its input has ended, gawake-cli ends, whichever question it is asking.
EndsWithInput == \A c \in Clis : input[c] = "end" ~> pc[c] = "exited"

-----------------------------------------------------------------------------
(* What a comment says and the code does not do: TLC refutes this.         *)

\* main.c, lines 454-455: "if no value was assigned to variable (passed to this
\* function), and repeat is false when the user enter an invalid input, the
\* variable keeps equal to 0"; no rule has the id 0.
InvalidIdDeletesNothing ==
  [][\A c \in Clis : pc[c] = "delete" /\ invalid[c] /\ pc'[c] = "menu" => rules' = rules]_vars
=============================================================================
