----------------------------- MODULE GawakeCliProofs -----------------------------
(***************************************************************************)
(* Theorems of GawakeCli, for any number of gawake-cli and of edits: types *)
(* first, then what the file holds, and what a user who deletes a rule has *)
(* seen of it.                                                             *)
(***************************************************************************)
EXTENDS GawakeCli, TLAPS

-----------------------------------------------------------------------------
(* Types: what the functions of the library leave behind.                  *)

FileOK ==
  /\ rules \in [Tables -> Seq(Row)] /\ lastId \in [Tables -> Nat]
  /\ config \in Config /\ edits \in 0..MaxEdits /\ misread \in BOOLEAN

ReadingOK ==
  /\ statements \in [Programs -> SUBSET {"count", "rows"}]
  /\ rowcount \in [Programs -> Nat] /\ array \in [Programs -> Seq(Row)]

LEMMA RemovedType ==
  ASSUME NEW S, NEW s \in Seq(S), NEW i \in DOMAIN s
  PROVE  Ext!RemoveAt(s, i) \in Seq(S) /\ Len(Ext!RemoveAt(s, i)) = Len(s) - 1
  BY DEF Ext!RemoveAt

LEMMA StoredType ==
  ASSUME NEW t \in Tables, NEW rule \in Rule
  PROVE  Stored(t, rule) \in Rule
  BY DEF Stored, Rule

\* What SQLite makes of a rule is a rule, and without an apostrophe the same one.
LEMMA ReadRule ==
  ASSUME NEW name, NEW rule \in Rule, NEW new \in Read(name, rule)
  PROVE  new \in Rule /\ (name # "quoted" => new = rule)
  BY DatabaseAssumption DEF Read

\* The rows s after some of them were given the rule new.
Rewritten(s, rows, new) ==
  [j \in DOMAIN s |-> IF j \in rows THEN [s[j] EXCEPT !.rule = new] ELSE s[j]]

LEMMA RewrittenRows ==
  ASSUME NEW s \in Seq(Row), NEW rows, NEW new \in Rule
  PROVE  /\ Rewritten(s, rows, new) \in Seq(Row)
         /\ DOMAIN Rewritten(s, rows, new) = DOMAIN s
         /\ Len(Rewritten(s, rows, new)) = Len(s)
         /\ \A j \in DOMAIN s :
              /\ Rewritten(s, rows, new)[j].id = s[j].id
              /\ Rewritten(s, rows, new)[j].rule \in {s[j].rule, new}
<1> DEFINE z == Rewritten(s, rows, new)
<1>1. ASSUME NEW j \in DOMAIN s
      PROVE  z[j] \in Row /\ z[j].id = s[j].id /\ z[j].rule \in {s[j].rule, new}
  <2>1. s[j] \in Row
    OBVIOUS
  <2>2. /\ [s[j] EXCEPT !.rule = new] \in Row
        /\ [s[j] EXCEPT !.rule = new].id = s[j].id
        /\ [s[j] EXCEPT !.rule = new].rule = new
    BY <2>1 DEF Row
  <2>3. z[j] = IF j \in rows THEN [s[j] EXCEPT !.rule = new] ELSE s[j]
    BY DEF Rewritten
  <2>4. QED
    BY <2>1, <2>2, <2>3
<1>2. DOMAIN z = DOMAIN s /\ z = [j \in DOMAIN s |-> z[j]]
  BY DEF Rewritten
<1>3. DOMAIN s = 1..Len(s) /\ Len(s) \in Nat
  OBVIOUS
<1> HIDE DEF z
<1>4. z \in Seq(Row) /\ Len(z) = Len(s)
  BY <1>1, <1>2, <1>3
<1>5. QED
  BY <1>1, <1>2, <1>4 DEF z

\* UPDATE of rule_enable_disable ().
Enabled(t, i, active) == [rules[t][i].rule EXCEPT !.active = active]

LEMMA EnabledRows ==
  ASSUME FileOK, NEW t \in Tables, NEW i \in DOMAIN rules[t], NEW active \in BOOLEAN
  PROVE  /\ Enabled(t, i, active) \in Rule
         /\ Enabled(t, i, active).time = rules[t][i].rule.time
         /\ Enabled(t, i, active).mode = rules[t][i].rule.mode
         /\ [rules EXCEPT ![t][i].rule.active = active]
              = [rules EXCEPT ![t] = Rewritten(rules[t], {i}, Enabled(t, i, active))]
<1> DEFINE new == Enabled(t, i, active)
<1>1. rules[t] \in Seq(Row) /\ rules[t][i] \in Row /\ rules[t][i].rule \in Rule
  <2>1. rules[t] \in Seq(Row) /\ rules[t][i] \in Row
    BY DEF FileOK
  <2>2. QED
    BY <2>1 DEF Row
<1>2. new \in Rule /\ new.time = rules[t][i].rule.time /\ new.mode = rules[t][i].rule.mode
  BY <1>1 DEF Rule, Enabled
<1>3. [rules[t] EXCEPT ![i] = [rules[t][i] EXCEPT !.rule = new]] = Rewritten(rules[t], {i}, new)
  BY DEF Rewritten
<1>4. [rules EXCEPT ![t][i].rule.active = active]
        = [rules EXCEPT ![t] = [rules[t] EXCEPT ![i] = [rules[t][i] EXCEPT !.rule = new]]]
  BY DEF Enabled
<1>5. QED
  BY <1>2, <1>3, <1>4

LEMMA AddType ==
  ASSUME FileOK, NEW p, NEW t \in Tables, NEW rule \in Rule, NEW name, rule_add(p, t, rule, name)
  PROVE  FileOK'
<1>1. CASE UNCHANGED file
  BY <1>1 DEF FileOK, file
<1>2. ASSUME NEW new \in Read(name, Stored(t, rule)),
             rules' = [rules EXCEPT ![t] = Append(@, [id |-> lastId[t] + 1, rule |-> new])],
             lastId' = [lastId EXCEPT ![t] = @ + 1], UNCHANGED config,
             edits < MaxEdits, edits' = edits + 1, NotesMisread(name)
      PROVE  FileOK'
  <2>1. [id |-> lastId[t] + 1, rule |-> new] \in Row
    BY StoredType, ReadRule DEF FileOK, Row
  <2>2. misread' \in BOOLEAN
    BY <1>2 DEF NotesMisread
  <2>3. QED
    BY <1>2, <2>1, <2>2, DatabaseAssumption DEF FileOK
<1>3. QED
  BY <1>1, <1>2 DEF rule_add, utils_run_sql

LEMMA DeleteType ==
  ASSUME FileOK, NEW p, NEW t \in Tables, NEW id, rule_delete(p, t, id)
  PROVE  FileOK'
<1>1. CASE UNCHANGED file
  BY <1>1 DEF FileOK, file
<1>2. CASE /\ rules' \in [Tables -> Seq(Row)] /\ UNCHANGED <<lastId, config, misread>>
           /\ edits < MaxEdits /\ edits' = edits + 1
  BY <1>2, DatabaseAssumption DEF FileOK
<1>3. ASSUME NEW i \in DOMAIN rules[t], rules' = [rules EXCEPT ![t] = Ext!RemoveAt(@, i)]
      PROVE  rules' \in [Tables -> Seq(Row)]
  BY <1>3, RemovedType DEF FileOK
<1>4. QED
  BY <1>1, <1>2, <1>3 DEF rule_delete, utils_run_sql, FileOK

LEMMA EnableType ==
  ASSUME FileOK, NEW p, NEW t \in Tables, NEW i \in DOMAIN rules[t], NEW active \in BOOLEAN,
         rule_enable_disable(p, t, i, active)
  PROVE  FileOK'
<1> DEFINE new == Enabled(t, i, active)
<1>1. CASE UNCHANGED file
  BY <1>1 DEF FileOK, file
<1>2. CASE /\ rules' = [rules EXCEPT ![t][i].rule.active = active]
           /\ UNCHANGED <<lastId, config, misread>> /\ edits < MaxEdits /\ edits' = edits + 1
  <2>1. new \in Rule /\ rules' = [rules EXCEPT ![t] = Rewritten(rules[t], {i}, new)]
    BY <1>2, EnabledRows
  <2> HIDE DEF new
  <2>2. Rewritten(rules[t], {i}, new) \in Seq(Row)
    BY <2>1, RewrittenRows DEF FileOK
  <2>3. rules' \in [Tables -> Seq(Row)]
    BY <2>1, <2>2 DEF FileOK
  <2>4. edits' \in 0..MaxEdits
    BY <1>2, DatabaseAssumption DEF FileOK
  <2>5. UNCHANGED <<lastId, config, misread>>
    BY <1>2
  <2>6. QED
    BY <2>3, <2>4, <2>5 DEF FileOK
<1>3. QED
  BY <1>1, <1>2 DEF rule_enable_disable, utils_run_sql

LEMMA EditType ==
  ASSUME FileOK, NEW p, NEW t \in Tables, NEW i \in DOMAIN rules[t], NEW rule \in Rule, NEW name,
         rule_edit(p, t, i, rule, name)
  PROVE  FileOK'
<1>1. CASE UNCHANGED file
  BY <1>1 DEF FileOK, file
<1>2. ASSUME NEW rows, NEW new \in Read(name, Stored(t, rule)),
             rules' = [rules EXCEPT ![t] = Rewritten(rules[t], rows, new)],
             UNCHANGED <<lastId, config>>, edits < MaxEdits, edits' = edits + 1,
             NotesMisread(name)
      PROVE  FileOK'
  <2>1. Rewritten(rules[t], rows, new) \in Seq(Row)
    BY StoredType, ReadRule, RewrittenRows DEF FileOK
  <2>2. misread' \in BOOLEAN
    BY <1>2 DEF NotesMisread
  <2>3. QED
    BY <1>2, <2>1, <2>2, DatabaseAssumption DEF FileOK
<1>3. QED
  BY <1>1, <1>2 DEF rule_edit, utils_run_sql, Rewritten

LEMMA ConfigureType ==
  ASSUME FileOK, NEW p, NEW new \in Config, Configure(p, new)
  PROVE  FileOK'
  BY DatabaseAssumption DEF Configure, utils_run_sql, FileOK, file

LEMMA NarrowType ==
  ASSUME NEW n \in Nat
  PROVE  n % IdSpace \in Nat /\ (n < IdSpace => n % IdSpace = n)
<1>1. IdSpace \in Nat \ {0}
  BY DatabaseAssumption
<1>2. QED
  BY <1>1

\* A row whose id fits into an id of the programs is copied as it is.
LEMMA AsReadType ==
  ASSUME NEW row \in Row
  PROVE  AsRead(row) \in Row /\ (row.id < IdSpace => AsRead(row) = row)
<1>1. row.id \in Nat /\ row = [id |-> row.id, rule |-> row.rule] /\ row.rule \in Rule
  BY DEF Row
<1>2. AsRead(row) = [id |-> row.id % IdSpace, rule |-> row.rule]
  BY <1>1 DEF AsRead
<1>3. QED
  BY <1>1, <1>2, NarrowType DEF Row

LEMMA ReadType ==
  ASSUME FileOK, ReadingOK, NEW p \in Programs, NEW t \in Tables,
         \/ rule_get_all_count(p, t) \/ rule_get_all_row(p, t)
         \/ rule_get_all_ends(p, t) \/ rule_get_all_fails(p)
  PROVE  ReadingOK'
<1>1. rules[t] \in Seq(Row) /\ array[p] \in Seq(Row) /\ IdSpace \in Nat \ {0}
  BY DatabaseAssumption DEF FileOK, ReadingOK
<1>2. CASE rule_get_all_count(p, t)
  <2>1. Len(rules[t]) % IdSpace \in Nat
    <3>1. Len(rules[t]) \in Nat
      BY <1>1
    <3>2. QED
      BY <3>1, NarrowType
  <2>2. statements' = [statements EXCEPT ![p] = @ \cup {"count"}] \/ statements' = statements
    <3>1. PICK prepared \in Prepared : IF prepared THEN Counted(p) ELSE UNCHANGED statements
      BY <1>2 DEF rule_get_all_count
    <3>2. Counted(p) \/ UNCHANGED statements
      BY <3>1
    <3>3. QED
      BY <3>2 DEF Counted
  <2>3. rowcount' \in [Programs -> Nat] /\ array' \in [Programs -> Seq(Row)]
    BY <1>2, <2>1 DEF rule_get_all_count, ReadingOK
  <2>4. QED
    BY <2>2, <2>3 DEF ReadingOK
<1>3. CASE rule_get_all_row(p, t)
  <2>1. rules[t][Len(array[p]) + 1] \in Row
    BY <1>1, <1>3 DEF rule_get_all_row, Left
  <2>2. AsRead(rules[t][Len(array[p]) + 1]) \in Row
    BY <2>1, AsReadType
  <2>3. array' \in [Programs -> Seq(Row)]
    BY <1>1, <1>3, <2>2 DEF rule_get_all_row, ReadingOK
  <2>4. statements' \in [Programs -> SUBSET {"count", "rows"}]
    BY <1>3 DEF rule_get_all_row, ReadingOK
  <2>5. QED
    BY <1>3, <2>3, <2>4 DEF rule_get_all_row, ReadingOK
<1>4. CASE rule_get_all_ends(p, t) \/ rule_get_all_fails(p)
  BY <1>4 DEF rule_get_all_ends, rule_get_all_fails, RowsFinalized, ReadingOK
<1>5. QED
  BY <1>2, <1>3, <1>4

HandleOK == handle \in [Programs -> {"null", "open", "closed"}]

Answer == [name : Names, time : 0..(DayLength - 1), mode : 0..(MODE_LAST - 1), id : Int]

LocalsOK ==
  /\ pc \in [Clis -> Prompts \cup Questions \cup Calls]
  /\ way \in [Clis -> {"menu", "custom", "schedule"}]
  /\ input \in [Clis -> {"open", "end"}]
  /\ table \in [Clis -> Tables]
  /\ answers \in [Clis -> Answer]
  /\ printed \in [Clis -> [Tables -> Seq(Row)]]
  /\ invalid \in [Clis -> BOOLEAN]

LEMMA TypeParts ==
  /\ CliTypeOK <=> FileOK /\ ReadingOK /\ HandleOK /\ LocalsOK
  /\ CliTypeOK' <=> FileOK' /\ ReadingOK' /\ HandleOK' /\ LocalsOK'
  BY DEF CliTypeOK, DatabaseTypeOK, FileOK, ReadingOK, HandleOK, LocalsOK, Answer

LEMMA FileFrame == ASSUME FileOK, UNCHANGED file PROVE FileOK'
  BY DEF FileOK, file

LEMMA ReadingFrame == ASSUME ReadingOK, UNCHANGED reading PROVE ReadingOK'
  BY DEF ReadingOK, reading

LEMMA HandleType ==
  ASSUME HandleOK, NEW p \in Programs, connect_database(p) \/ disconnect_database(p)
  PROVE  HandleOK'
  BY DEF HandleOK, connect_database, disconnect_database

\* Whatever is typed, get_int () returns a number, and one of the range if it is
\* to repeat.
LEMMA NumberRead ==
  ASSUME NEW range, NEW repeat \in BOOLEAN, NEW n \in get_int(range, repeat)
  PROVE  n \in Int /\ (repeat => n \in range)
  BY CliAssumption DEF get_int

LEMMA ClisArePrograms == Clis \subseteq Programs /\ Application \in Programs
  BY CliAssumption

Labels == Prompts \cup Questions \cup Calls

LEMMA GoesType ==
  ASSUME LocalsOK, NEW c \in Clis, NEW from, NEW to \in Labels,
         Goes(c, from, to) \/ Typed(c, from, to)
  PROVE  pc' \in [Clis -> Labels]
  BY DEF Goes, Typed, LocalsOK, Labels

\* A call moves a gawake-cli on, and changes no more than what it was started for.
LEMMA CallType ==
  ASSUME LocalsOK, pc' \in [Clis -> Labels], way' \in [Clis -> {"menu", "custom", "schedule"}],
         table' \in [Clis -> Tables], printed' \in [Clis -> [Tables -> Seq(Row)]],
         UNCHANGED <<input, answers>>, invalid' \in [Clis -> BOOLEAN]
  PROVE  LocalsOK'
  BY DEF LocalsOK, Labels

\* The calls of a gawake-cli keep every type.
LEMMA RunsType ==
  ASSUME CliTypeOK, NEW c \in Clis, Runs(c) \/ Interrupt(c)
  PROVE  CliTypeOK'
<1>1. /\ FileOK /\ ReadingOK /\ HandleOK /\ LocalsOK /\ c \in Programs
      /\ way \in [Clis -> {"menu", "custom", "schedule"}] /\ table \in [Clis -> Tables]
      /\ printed \in [Clis -> [Tables -> Seq(Row)]] /\ invalid \in [Clis -> BOOLEAN]
  BY TypeParts, ClisArePrograms DEF LocalsOK
<1>2. /\ {"menu", "custom", "disconnect", "exited", "connect", "count", "rows", "table"}
           \subseteq Labels
  BY DEF Labels, Prompts, Calls
<1>3. CASE Start(c)
  <2>1. pc' \in [Clis -> Labels]
    BY <1>1, <1>2, <1>3, GoesType DEF Start
  <2>2. way' \in [Clis -> {"menu", "custom", "schedule"}]
    BY <1>1, <1>3 DEF Start
  <2>3. LocalsOK'
    BY <1>1, <1>3, <2>1, <2>2, CallType DEF Start
  <2>4. QED
    BY <1>1, <1>3, <2>3, TypeParts, FileFrame, ReadingFrame DEF Start, HandleOK
<1>4. CASE Connect(c)
  <2>1. FileOK' /\ ReadingOK' /\ HandleOK'
    BY <1>1, <1>4, FileFrame, ReadingFrame, HandleType DEF Connect, connect_database
  <2>2. Connected(c) \in Labels
    BY <1>1, <1>2 DEF Connected, Destination
  <2>3. LocalsOK'
    BY <1>1, <1>4, <2>2, GoesType, CallType DEF Connect
  <2>4. QED
    BY <2>1, <2>3, TypeParts
<1>5. CASE Custom(c) \/ NoAnswer(c)
  <2>1. pc' \in [Clis -> Labels]
    BY <1>1, <1>2, <1>5, GoesType DEF Custom, NoAnswer
  <2>2. LocalsOK'
    BY <1>1, <1>5, <2>1, CallType DEF Custom, NoAnswer
  <2>3. UNCHANGED <<file, handle, reading>>
    BY <1>5 DEF Custom, NoAnswer, rule_custom_schedule
  <2>4. QED
    BY <1>1, <2>2, <2>3, TypeParts, FileFrame, ReadingFrame DEF HandleOK
<1>6. CASE Exit(c)
  <2>1. pc' \in [Clis -> Labels]
    BY <1>1, <1>2, <1>6 DEF Exit, LocalsOK, Labels
  <2>2. LocalsOK'
    BY <1>1, <1>6, <2>1, CallType DEF Exit
  <2>3. FileOK' /\ HandleOK'
    BY <1>1, <1>6, FileFrame, HandleType DEF Exit
  <2>4. ReadingOK'
    BY <1>1, <1>6 DEF Exit, ReadingOK
  <2>5. QED
    BY <2>2, <2>3, <2>4, TypeParts
<1>7. CASE PrintRules(c)
  <2>1. FileOK' /\ HandleOK'
    BY <1>1, <1>7, FileFrame DEF PrintRules, HandleOK
  <2>2. table[c] \in Tables /\ array[c] \in Seq(Row)
    BY <1>1 DEF ReadingOK
  <2>3. ReadingOK'
    BY <1>1, <1>7, <2>2, ReadType, ReadingFrame DEF PrintRules, PrintStep, PrintFails
  <2>4. pc' \in [Clis -> Labels]
    BY <1>1, <1>2, <1>7, GoesType DEF PrintRules, PrintStep, PrintFails
  <2>5. table' \in [Clis -> Tables]
    BY <1>1, <1>7 DEF PrintRules, Tables
  <2>6. printed' \in [Clis -> [Tables -> Seq(Row)]]
    <3>1. printed[c] \in [Tables -> Seq(Row)]
      BY <1>1
    <3>2. [printed[c] EXCEPT ![table[c]] = array[c]] \in [Tables -> Seq(Row)]
      BY <2>2, <3>1
    <3>3. CASE printed' = [printed EXCEPT ![c][table[c]] = array[c]]
      BY <1>1, <3>2, <3>3
    <3>4. QED
      BY <1>1, <1>7, <3>3 DEF PrintRules
  <2>7. LocalsOK'
    BY <1>1, <1>7, <2>4, <2>5, <2>6, CallType DEF PrintRules
  <2>8. QED
    BY <2>1, <2>3, <2>7, TypeParts
<1>8. CASE Add(c)
  <2>1. answers[c] \in Answer
    BY <1>1 DEF LocalsOK
  <2>2. [time |-> answers[c].time, mode |-> answers[c].mode, active |-> TRUE] \in Rule
    BY <2>1, DatabaseAssumption DEF Rule, Answer, MODE_LAST
  <2>3. FileOK'
    BY <1>1, <1>8, <2>2, AddType DEF Add
  <2>4. LocalsOK'
    BY <1>1, <1>2, <1>8, GoesType, CallType DEF Add
  <2>5. ReadingOK' /\ HandleOK'
    BY <1>1, <1>8, ReadingFrame DEF Add, HandleOK
  <2>6. QED
    BY <2>3, <2>4, <2>5, TypeParts
<1>9. CASE Delete(c)
  <2>1. FileOK'
    BY <1>1, <1>9, DeleteType DEF Delete
  <2>2. invalid' \in [Clis -> BOOLEAN]
    BY <1>1, <1>9 DEF Delete
  <2>3. LocalsOK'
    BY <1>1, <1>2, <1>9, <2>2, GoesType, CallType DEF Delete
  <2>4. ReadingOK' /\ HandleOK'
    BY <1>1, <1>9, ReadingFrame DEF Delete, HandleOK
  <2>5. QED
    BY <2>1, <2>3, <2>4, TypeParts
<1>10. QED
  BY <1>3, <1>4, <1>5, <1>6, <1>7, <1>8, <1>9 DEF Runs, Interrupt, Disconnect, EndOfInput

\* An answer moves a gawake-cli on, and is kept.
LEMMA AnswerType ==
  ASSUME LocalsOK, pc' \in [Clis -> Labels], table' \in [Clis -> Tables],
         answers' \in [Clis -> Answer],
         input' \in [Clis -> {"open", "end"}], invalid' \in [Clis -> BOOLEAN],
         UNCHANGED <<way, printed>>
  PROVE  LocalsOK'
  BY DEF LocalsOK, Labels

LEMMA AnswersKept ==
  ASSUME answers \in [Clis -> Answer], NEW c \in Clis
  PROVE  /\ \A name \in Names : [answers EXCEPT ![c].name = name] \in [Clis -> Answer]
         /\ \A n \in 0..(DayLength - 1) : [answers EXCEPT ![c].time = n] \in [Clis -> Answer]
         /\ \A n \in 0..(MODE_LAST - 1) : [answers EXCEPT ![c].mode = n] \in [Clis -> Answer]
         /\ \A n \in Int : [answers EXCEPT ![c].id = n] \in [Clis -> Answer]
<1>1. answers[c] \in Answer
  OBVIOUS
<1>2. /\ \A name \in Names : [answers[c] EXCEPT !.name = name] \in Answer
      /\ \A n \in 0..(DayLength - 1) : [answers[c] EXCEPT !.time = n] \in Answer
      /\ \A n \in 0..(MODE_LAST - 1) : [answers[c] EXCEPT !.mode = n] \in Answer
      /\ \A n \in Int : [answers[c] EXCEPT !.id = n] \in Answer
  BY <1>1 DEF Answer
<1>3. QED
  BY <1>2

LEMMA NothingAnswered == NoAnswers \in Answer
<1>1. 0 \in 0..(DayLength - 1) /\ 0 \in 0..(MODE_LAST - 1)
  BY DatabaseAssumption DEF MODE_LAST
<1>2. QED
  BY <1>1 DEF NoAnswers, Answer, Names

LEMMA SetType ==
  ASSUME FileOK, NEW c \in Clis, NEW n \in Nat,
         \/ configuration_set_localtime(c, n = 1)
         \/ configuration_set_default_mode(c, n)
         \/ configuration_set_shutdown_fail(c, n = 1)
  PROVE  FileOK'
<1>1. config \in Config /\ (n = 1) \in BOOLEAN
  BY DEF FileOK
<1>2. /\ [config EXCEPT !.localtime = (n = 1)] \in Config
      /\ [config EXCEPT !.shutdown_fail = (n = 1)] \in Config
      /\ [config EXCEPT !.default_mode = n] \in Config
  BY <1>1 DEF Config
<1>3. QED
  BY <1>2, ConfigureType, FileFrame
     DEF configuration_set_localtime, configuration_set_default_mode,
         configuration_set_shutdown_fail

\* So do the answers of its user.
LEMMA AsksType ==
  ASSUME CliTypeOK, NEW c \in Clis, Asks(c) \/ CloseInput(c)
  PROVE  CliTypeOK'
<1> DEFINE Answers == [Clis -> Answer]
<1>1. /\ FileOK /\ ReadingOK /\ HandleOK /\ LocalsOK
      /\ table \in [Clis -> Tables] /\ answers \in Answers
      /\ input \in [Clis -> {"open", "end"}] /\ invalid \in [Clis -> BOOLEAN]
      /\ pc \in [Clis -> Labels]
  BY TypeParts DEF LocalsOK, Labels
<1>2. Prompts \cup Questions \cup {"count", "disconnect", "add", "delete"} \subseteq Labels
  BY DEF Labels, Calls
<1>3. {"menu", "option", "value", "action", "name", "id", "time", "days", "mode"} \subseteq Prompts
      /\ {"confirm", "info"} \subseteq Questions
  BY DEF Prompts, Questions
<1>4. UNCHANGED <<handle, reading, way, printed>>
  BY DEF Asks, Menu, Option, Value, ChooseTable, ChooseAction, Describe, ChooseId, CloseInput
<1>5. CASE CloseInput(c)
  <2>1. input' \in [Clis -> {"open", "end"}]
    BY <1>1, <1>5 DEF CloseInput
  <2>2. FileOK' /\ LocalsOK'
    BY <1>1, <1>5, <2>1, AnswerType, FileFrame DEF CloseInput
  <2>3. QED
    BY <1>1, <1>4, <2>2, TypeParts, ReadingFrame DEF HandleOK
<1>6. CASE Menu(c)
  <2>1. pc' \in [Clis -> Labels]
    BY <1>1, <1>2, <1>3, <1>6, GoesType DEF Menu
  <2>2. table' \in [Clis -> Tables] /\ answers' \in Answers
    BY <1>1, <1>6, NothingAnswered DEF Menu, Tables
  <2>3. FileOK' /\ LocalsOK'
    BY <1>1, <1>6, <2>1, <2>2, AnswerType, FileFrame DEF Menu
  <2>4. QED
    BY <1>1, <1>4, <2>3, TypeParts, ReadingFrame DEF HandleOK
<1>7. CASE Option(c)
  <2> DEFINE Set(n) == /\ answers' = [answers EXCEPT ![c].id = n]
                       /\ Typed(c, "option", IF n \in 1..3 THEN "value" ELSE "menu")
  <2>2. PICK n \in get_int(0..3, FALSE) : Set(n)
    BY <1>7 DEF Option
  <2>3. n \in Int
    BY NumberRead
  <2>4. answers' \in Answers
    BY <1>1, <2>2, <2>3, AnswersKept
  <2>5. pc' \in [Clis -> Labels]
    BY <1>1, <1>2, <1>3, <2>2, GoesType
  <2>6. FileOK' /\ LocalsOK'
    BY <1>1, <1>7, <2>4, <2>5, AnswerType, FileFrame DEF Option
  <2>7. QED
    BY <1>1, <1>4, <2>6, TypeParts, ReadingFrame DEF HandleOK
<1>8. CASE Value(c)
  <2> DEFINE range == IF answers[c].id = 2 THEN 0..(MODE_LAST - 1) ELSE 0..1
             Set(n) == \/ answers[c].id = 1 /\ configuration_set_localtime(c, n = 1)
                       \/ answers[c].id = 2 /\ configuration_set_default_mode(c, n)
                       \/ answers[c].id = 3 /\ configuration_set_shutdown_fail(c, n = 1)
  <2>2. PICK n \in get_int(range, TRUE) : Set(n)
    BY <1>8 DEF Value
  <2>3. n \in Nat
    <3>1. n \in range
      BY NumberRead
    <3>2. QED
      BY <3>1 DEF MODE_LAST
  <2>4. FileOK'
    BY <1>1, <2>2, <2>3, SetType
  <2>5. LocalsOK'
    BY <1>1, <1>2, <1>3, <1>8, GoesType, AnswerType DEF Value
  <2>6. QED
    BY <1>1, <1>4, <2>4, <2>5, TypeParts, ReadingFrame DEF HandleOK
<1>9. CASE ChooseTable(c) \/ ChooseAction(c)
  <2>1. pc' \in [Clis -> Labels]
    BY <1>1, <1>2, <1>3, <1>9, GoesType DEF ChooseTable, ChooseAction
  <2>2. table' \in [Clis -> Tables]
    BY <1>1, <1>9 DEF ChooseTable, ChooseAction, Tables
  <2>3. FileOK' /\ LocalsOK'
    BY <1>1, <1>9, <2>1, <2>2, AnswerType, FileFrame DEF ChooseTable, ChooseAction
  <2>4. QED
    BY <1>1, <1>4, <2>3, TypeParts, ReadingFrame DEF HandleOK
<1>10. CASE Describe(c)
  <2>1. pc' \in [Clis -> Labels]
    BY <1>1, <1>2, <1>3, <1>10, GoesType DEF Describe
  <2>2. ASSUME NEW n \in get_int(0..(DayLength - 1), TRUE)
        PROVE  [answers EXCEPT ![c].time = n] \in Answers
    BY <1>1, NumberRead, AnswersKept
  <2>3. ASSUME NEW n \in get_int(0..2, TRUE)
        PROVE  [answers EXCEPT ![c].mode = n] \in Answers
    <3>1. n \in 0..2 /\ n \in Int
      BY NumberRead
    <3>2. n \in 0..(MODE_LAST - 1)
      BY <3>1 DEF MODE_LAST
    <3>3. QED
      BY <1>1, <3>2, AnswersKept
  <2>4. answers' \in Answers
    <3>1. CASE UNCHANGED answers
      BY <1>1, <3>1
    <3>2. CASE \E n \in get_int(0..(DayLength - 1), TRUE) :
                 answers' = [answers EXCEPT ![c].time = n]
      BY <2>2, <3>2
    <3>3. CASE \E n \in get_int(0..2, TRUE) : answers' = [answers EXCEPT ![c].mode = n]
      BY <2>3, <3>3
    <3>4. CASE \E name \in Names : answers' = [answers EXCEPT ![c].name = name]
      BY <1>1, <3>4, AnswersKept
    <3>5. QED
      BY <1>10, <3>1, <3>2, <3>3, <3>4 DEF Describe
  <2>5. FileOK' /\ LocalsOK'
    BY <1>1, <1>10, <2>1, <2>4, AnswerType, FileFrame DEF Describe
  <2>6. QED
    BY <1>1, <1>4, <2>5, TypeParts, ReadingFrame DEF HandleOK
<1>11. CASE ChooseId(c)
  <2>2. PICK n \in get_int(Nat, FALSE), unread \in BOOLEAN :
           /\ answers' = [answers EXCEPT ![c].id = n]
           /\ invalid' = [invalid EXCEPT ![c] = unread]
    BY <1>11 DEF ChooseId
  <2>3. n \in Int
    BY NumberRead
  <2>4. answers' \in Answers
    BY <1>1, <2>2, <2>3, AnswersKept
  <2>5. invalid' \in [Clis -> BOOLEAN]
    BY <1>1, <2>2
  <2>6. FileOK' /\ LocalsOK'
    BY <1>1, <1>2, <1>11, <2>4, <2>5, GoesType, AnswerType, FileFrame DEF ChooseId
  <2>7. QED
    BY <1>1, <1>4, <2>6, TypeParts, ReadingFrame DEF HandleOK
<1>12. QED
  BY <1>5, <1>6, <1>7, <1>8, <1>9, <1>10, <1>11 DEF Asks

\* And so does what the other program edits.
LEMMA ApplicationType ==
  ASSUME CliTypeOK, ApplicationConnects \/ ApplicationEdits
  PROVE  CliTypeOK'
<1>1. FileOK /\ ReadingOK /\ HandleOK /\ LocalsOK /\ Application \in Programs
  BY TypeParts, ClisArePrograms
<1>2. UNCHANGED locals /\ UNCHANGED <<printed, invalid>>
  BY DEF ApplicationConnects, ApplicationEdits
<1>3. LocalsOK'
  BY <1>1, <1>2 DEF LocalsOK, locals
<1>4. CASE ApplicationConnects
  BY <1>1, <1>3, <1>4, TypeParts, HandleType, FileFrame, ReadingFrame
     DEF ApplicationConnects, connect_database
<1>5. CASE ApplicationEdits
  <2>1. ReadingOK' /\ HandleOK'
    BY <1>1, <1>5, ReadingFrame DEF ApplicationEdits, HandleOK
  <2>2. ASSUME NEW t \in Tables, NEW time \in {0, DayLength},
               NEW mode \in {0, MODE_OFF, MODE_LAST}
        PROVE  [time |-> time, mode |-> mode, active |-> TRUE] \in Rule
    BY DatabaseAssumption DEF Rule, MODE_OFF, MODE_LAST
  <2>3. ASSUME NEW t \in Tables, NEW rule \in Rule, NEW name \in Names,
               \/ rule_add(Application, t, rule, name)
               \/ \E i \in DOMAIN rules[t] : rule_edit(Application, t, i, rule, name)
        PROVE  FileOK'
    <3>1. CASE rule_add(Application, t, rule, name)
      BY <1>1, <3>1, AddType
    <3>2. ASSUME NEW i \in DOMAIN rules[t], rule_edit(Application, t, i, rule, name)
          PROVE  FileOK'
      BY <1>1, <3>2, EditType
    <3>3. QED
      BY <2>3, <3>1, <3>2
  <2>4. ASSUME NEW t \in Tables, NEW i \in DOMAIN rules[t],
               \/ rule_delete(Application, t, rules[t][i].id)
               \/ rule_enable_disable(Application, t, i, FALSE)
        PROVE  FileOK'
    <3>1. CASE rule_delete(Application, t, rules[t][i].id)
      BY <1>1, <3>1, DeleteType
    <3>2. CASE rule_enable_disable(Application, t, i, FALSE)
      BY <1>1, <3>2, EnableType
    <3>3. QED
      BY <2>4, <3>1, <3>2
  <2>5. ASSUME NEW time \in {-1, 0, MaxNotificationTime, MaxNotificationTime + 1},
               configuration_set_notification_time(Application, time)
        PROVE  FileOK'
    <3>1. config \in Config /\ time \in Int
      BY <1>1, DatabaseAssumption DEF FileOK
    <3>2. [config EXCEPT !.notification_time = time] \in Config
      BY <3>1 DEF Config
    <3>3. QED
      BY <1>1, <2>5, <3>2, ConfigureType, FileFrame DEF configuration_set_notification_time
  <2>6. FileOK'
    <3>1. CASE \E t \in Tables, time \in {0, DayLength}, mode \in {0, MODE_OFF, MODE_LAST} :
                 LET rule == [time |-> time, mode |-> mode, active |-> TRUE]
                 IN  \E name \in Names :
                       \/ rule_add(Application, t, rule, name)
                       \/ \E i \in DOMAIN rules[t] : rule_edit(Application, t, i, rule, name)
      BY <2>2, <2>3, <3>1
    <3>2. QED
      BY <1>5, <2>4, <2>5, <3>1 DEF ApplicationEdits, Edit
  <2>7. QED
    BY <1>3, <2>1, <2>6, TypeParts
<1>6. QED
  BY <1>4, <1>5

LEMMA InitType ==
  ASSUME Init
  PROVE  CliTypeOK
<1>1. FileOK
  <2>1. rules \in [Tables -> Seq(Row)] /\ lastId \in [Tables -> Nat]
    BY DEF Init, DatabaseInit
  <2>2. config \in Config
    BY DEF Init, DatabaseInit, Config
  <2>3. edits = 0 /\ misread = FALSE
    BY DEF Init, DatabaseInit
  <2>4. edits \in 0..MaxEdits
    BY <2>3, DatabaseAssumption
  <2>5. QED
    BY <2>1, <2>2, <2>3, <2>4 DEF FileOK
<1>2. ReadingOK /\ HandleOK
  BY DEF Init, DatabaseInit, ReadingOK, HandleOK
<1>3. LocalsOK
  BY NothingAnswered DEF Init, LocalsOK, Prompts, Questions, Calls, Tables
<1>4. QED
  BY <1>1, <1>2, <1>3, TypeParts

LEMMA StepType ==
  ASSUME CliTypeOK, [Next]_vars
  PROVE  CliTypeOK'
<1>1. CASE UNCHANGED vars
  BY <1>1, TypeParts, FileFrame, ReadingFrame DEF vars, locals, HandleOK, LocalsOK
<1>2. QED
  BY <1>1, RunsType, AsksType, ApplicationType DEF Next, Finished

\* Every variable keeps its type, whatever the users type and the other program
\* edits: what get_int () returns is always a number the callee takes.
THEOREM CliTypeCorrect == Spec => []CliTypeOK
<1>1. Init => CliTypeOK
  BY InitType
<1>2. CliTypeOK /\ [Next]_vars => CliTypeOK'
  BY StepType
<1>3. QED
  BY <1>1, <1>2, PTL DEF Spec

-----------------------------------------------------------------------------
(* The file.  Every write keeps it usable, and no write gets past a lock.  *)

UsableRule(rule) == rule.time < DayLength /\ rule.mode < MODE_LAST

\* Ids are given in order, at most one per edit.
IdsInOrder ==
  \A t \in Tables :
    /\ lastId[t] <= edits /\ Len(rules[t]) <= edits
    /\ \A i \in DOMAIN rules[t] : rules[t][i].id <= lastId[t]

FileInv == StoredIsUsable /\ IdsInOrder

\* What a call that may write the file leaves behind.
Writes(p) == UNCHANGED file \/ (~ LockedFor(p) /\ FileInv')

LEMMA ValidIsUsable ==
  ASSUME NEW rule \in Rule, utils_validate_rule(rule), NEW t \in Tables
  PROVE  UsableRule(Stored(t, rule))
<1>1. rule.time < DayLength /\ rule.mode \in 0..2
  BY DEF utils_validate_rule, MODE_MEM, MODE_OFF
<1>2. Stored(t, rule).time = rule.time /\ Stored(t, rule).mode \in {0, rule.mode}
  BY DEF Stored, Rule
<1>3. QED
  BY <1>1, <1>2 DEF UsableRule, MODE_LAST

LEMMA RemovedRows ==
  ASSUME NEW s \in Seq(Row), NEW i \in DOMAIN s, NEW j \in DOMAIN Ext!RemoveAt(s, i)
  PROVE  \E k \in DOMAIN s : Ext!RemoveAt(s, i)[j] = s[k]
<1> DEFINE front == SubSeq(s, 1, i - 1)
           back  == SubSeq(s, i + 1, Len(s))
<1>1. i \in 1..Len(s) /\ Len(s) \in Nat /\ DOMAIN s = 1..Len(s)
  OBVIOUS
<1>2. front \in Seq(Row) /\ Len(front) = i - 1 /\ \A k \in 1..(i - 1) : front[k] = s[k]
  BY <1>1
<1>3. back \in Seq(Row) /\ Len(back) = Len(s) - i /\ \A k \in 1..(Len(s) - i) : back[k] = s[k + i]
  BY <1>1
<1>4. Ext!RemoveAt(s, i) = front \o back
  BY DEF Ext!RemoveAt
<1> HIDE DEF front, back
<1>5. j \in 1..(Len(s) - 1) /\ (front \o back)[j] = IF j < i THEN front[j] ELSE back[j - i + 1]
  BY <1>1, <1>2, <1>3, <1>4
<1>6. CASE j < i
  BY <1>1, <1>2, <1>4, <1>5, <1>6
<1>7. CASE ~ (j < i)
  <2>1. back[j - i + 1] = s[j + 1] /\ j + 1 \in DOMAIN s
    <3>1. i \in Int /\ j \in Int /\ j - i + 1 \in 1..(Len(s) - i) /\ (j - i + 1) + i = j + 1
      BY <1>1, <1>5, <1>7
    <3>2. back[j - i + 1] = s[(j - i + 1) + i]
      BY <1>3, <3>1
    <3>3. QED
      BY <1>1, <3>1, <3>2
  <2>2. QED
    BY <1>4, <1>5, <1>7, <2>1
<1>8. QED
  BY <1>6, <1>7

LEMMA AddWrites ==
  ASSUME FileOK, FileInv, NEW p, NEW t \in Tables, NEW rule \in Rule, NEW name,
         rule_add(p, t, rule, name)
  PROVE  Writes(p)
<1>1. CASE UNCHANGED file
  BY <1>1 DEF Writes
<1>2. ASSUME NEW new \in Read(name, Stored(t, rule)), utils_validate_rule(rule), ~ LockedFor(p),
             rules' = [rules EXCEPT ![t] = Append(@, [id |-> lastId[t] + 1, rule |-> new])],
             lastId' = [lastId EXCEPT ![t] = @ + 1], UNCHANGED config, edits' = edits + 1,
             NotesMisread(name)
      PROVE  Writes(p)
  <2> DEFINE row == [id |-> lastId[t] + 1, rule |-> new]
  <2>1. /\ row \in Row /\ row.id = lastId[t] + 1 /\ row.rule = new
        /\ ~ misread' => ~ misread /\ UsableRule(new)
    <3>1. new \in Rule /\ (name # "quoted" => new = Stored(t, rule))
      BY StoredType, ReadRule
    <3>2. ~ misread' => ~ misread /\ UsableRule(new)
      BY <1>2, <3>1, ValidIsUsable DEF NotesMisread
    <3>3. lastId[t] \in Nat
      BY DEF FileOK
    <3>4. QED
      BY <3>1, <3>2, <3>3 DEF Row
  <2>2. rules' = [rules EXCEPT ![t] = Append(@, row)]
    BY <1>2
  <2> HIDE DEF row
  <2>3. ASSUME NEW u \in Tables
        PROVE  /\ lastId'[u] <= edits' /\ Len(rules'[u]) <= edits'
               /\ \A i \in DOMAIN rules'[u] :
                    /\ rules'[u][i].id <= lastId'[u]
                    /\ ~ misread' => UsableRule(rules'[u][i].rule)
    <3>1. /\ rules[u] \in Seq(Row) /\ lastId[u] \in Nat /\ edits \in Nat
          /\ lastId[u] <= edits /\ Len(rules[u]) <= edits
          /\ \A i \in DOMAIN rules[u] :
               /\ rules[u][i] \in Row /\ rules[u][i].id <= lastId[u]
               /\ ~ misread => UsableRule(rules[u][i].rule)
      BY DEF FileOK, FileInv, IdsInOrder, StoredIsUsable, UsableRule
    <3>2. CASE u # t
      BY <1>2, <2>1, <3>1, <3>2 DEF FileOK
    <3>3. CASE u = t
      <4>1. rules'[u] = Append(rules[u], row) /\ lastId'[u] = lastId[u] + 1
        BY <1>2, <2>2, <3>3 DEF FileOK
      <4>2. ASSUME NEW i \in DOMAIN rules'[u]
            PROVE  /\ rules'[u][i].id <= lastId'[u]
                   /\ ~ misread' => UsableRule(rules'[u][i].rule)
        <5>1. (i \in DOMAIN rules[u] /\ rules'[u][i] = rules[u][i]) \/ rules'[u][i] = row
          BY <2>1, <3>1, <4>1
        <5>2. \A r \in Row : r.id \in Nat
          BY DEF Row
        <5>3. CASE i \in DOMAIN rules[u] /\ rules'[u][i] = rules[u][i]
          <6>1. rules'[u][i].id \in Nat /\ rules'[u][i].id <= lastId[u]
            BY <3>1, <5>2, <5>3
          <6>2. rules'[u][i].id <= lastId'[u]
            BY <3>1, <4>1, <6>1
          <6>3. QED
            BY <2>1, <3>1, <5>3, <6>2
        <5>4. CASE rules'[u][i] = row
          BY <2>1, <3>1, <3>3, <4>1, <5>4
        <5>5. QED
          BY <5>1, <5>3, <5>4
      <4>3. QED
        BY <1>2, <2>1, <3>1, <4>1, <4>2
    <3>4. QED
      BY <3>2, <3>3
  <2>4. QED
    BY <1>2, <2>1, <2>3 DEF Writes, FileInv, IdsInOrder, StoredIsUsable, UsableRule
<1>3. QED
  BY <1>1, <1>2 DEF rule_add, utils_run_sql

LEMMA DeleteWrites ==
  ASSUME FileOK, FileInv, NEW p, NEW t \in Tables, NEW id, rule_delete(p, t, id)
  PROVE  Writes(p)
<1>1. CASE UNCHANGED file
  BY <1>1 DEF Writes
<1>2. CASE /\ ~ LockedFor(p) /\ UNCHANGED <<rules, lastId, config, misread>> /\ edits' = edits + 1
  BY <1>2 DEF Writes, FileOK, FileInv, IdsInOrder, StoredIsUsable
<1>3. ASSUME NEW n \in DOMAIN rules[t], rules' = [rules EXCEPT ![t] = Ext!RemoveAt(@, n)],
             ~ LockedFor(p), UNCHANGED <<lastId, config, misread>>, edits' = edits + 1
      PROVE  Writes(p)
  <2>1. ASSUME NEW u \in Tables
        PROVE  /\ lastId'[u] <= edits' /\ Len(rules'[u]) <= edits'
               /\ \A i \in DOMAIN rules'[u] :
                    /\ rules'[u][i].id <= lastId'[u]
                    /\ ~ misread' => UsableRule(rules'[u][i].rule)
    <3>1. /\ rules[u] \in Seq(Row) /\ lastId[u] \in Nat /\ edits \in Nat
          /\ lastId[u] <= edits /\ Len(rules[u]) <= edits
          /\ \A i \in DOMAIN rules[u] :
               /\ rules[u][i].id <= lastId[u]
               /\ ~ misread => UsableRule(rules[u][i].rule)
      BY DEF FileOK, FileInv, IdsInOrder, StoredIsUsable, UsableRule
    <3>2. CASE u # t
      BY <1>3, <3>1, <3>2 DEF FileOK
    <3>3. CASE u = t
      <4>1. rules'[u] = Ext!RemoveAt(rules[u], n) /\ n \in DOMAIN rules[u]
        BY <1>3, <3>3 DEF FileOK
      <4>2. Len(rules'[u]) = Len(rules[u]) - 1
        BY <3>1, <4>1, RemovedType
      <4>3. \A i \in DOMAIN rules'[u] : \E k \in DOMAIN rules[u] : rules'[u][i] = rules[u][k]
        BY <3>1, <4>1, RemovedRows
      <4>4. QED
        BY <1>3, <3>1, <4>2, <4>3
    <3>4. QED
      BY <3>2, <3>3
  <2>2. QED
    BY <1>3, <2>1 DEF Writes, FileInv, IdsInOrder, StoredIsUsable, UsableRule
<1>4. QED
  BY <1>1, <1>2, <1>3 DEF rule_delete, utils_run_sql

LEMMA RewriteWrites ==
  ASSUME FileOK, FileInv, NEW p, NEW t \in Tables, NEW rows, NEW new \in Rule, ~ LockedFor(p),
         rules' = [rules EXCEPT ![t] = Rewritten(rules[t], rows, new)],
         UNCHANGED <<lastId, config>>, edits' = edits + 1,
         ~ misread' => ~ misread /\ UsableRule(new)
  PROVE  Writes(p)
<1>1. ASSUME NEW u \in Tables
      PROVE  /\ lastId'[u] <= edits' /\ Len(rules'[u]) <= edits'
             /\ \A i \in DOMAIN rules'[u] :
                  /\ rules'[u][i].id <= lastId'[u]
                  /\ ~ misread' => UsableRule(rules'[u][i].rule)
  <2>1. /\ rules[u] \in Seq(Row) /\ lastId[u] \in Nat /\ edits \in Nat
        /\ lastId[u] <= edits /\ Len(rules[u]) <= edits
        /\ \A i \in DOMAIN rules[u] :
             /\ rules[u][i].id <= lastId[u]
             /\ ~ misread => UsableRule(rules[u][i].rule)
    BY DEF FileOK, FileInv, IdsInOrder, StoredIsUsable, UsableRule
  <2>2. CASE u # t
    BY <2>1, <2>2 DEF FileOK
  <2>3. CASE u = t
    <3>1. rules'[u] = Rewritten(rules[u], rows, new)
      BY <2>3 DEF FileOK
    <3>2. /\ DOMAIN rules'[u] = DOMAIN rules[u] /\ Len(rules'[u]) = Len(rules[u])
          /\ \A i \in DOMAIN rules[u] :
               rules'[u][i].id = rules[u][i].id /\ rules'[u][i].rule \in {rules[u][i].rule, new}
      BY <2>1, <3>1, RewrittenRows
    <3>3. lastId'[u] <= edits' /\ Len(rules'[u]) <= edits'
      BY <2>1, <3>2
    <3>4. QED
      BY <2>1, <3>2, <3>3
  <2>4. QED
    BY <2>2, <2>3
<1>2. QED
  BY <1>1 DEF Writes, FileInv, IdsInOrder, StoredIsUsable, UsableRule

LEMMA EditWrites ==
  ASSUME FileOK, FileInv, NEW p, NEW t \in Tables, NEW n \in DOMAIN rules[t], NEW rule \in Rule,
         NEW name, rule_edit(p, t, n, rule, name)
  PROVE  Writes(p)
<1>1. CASE UNCHANGED file
  BY <1>1 DEF Writes
<1>2. ASSUME NEW rows, NEW new \in Read(name, Stored(t, rule)), utils_validate_rule(rule),
             ~ LockedFor(p), rules' = [rules EXCEPT ![t] = Rewritten(rules[t], rows, new)],
             UNCHANGED <<lastId, config>>, edits' = edits + 1, NotesMisread(name)
      PROVE  Writes(p)
  <2>1. new \in Rule /\ (~ misread' => ~ misread /\ UsableRule(new))
    <3>1. new \in Rule /\ (name # "quoted" => new = Stored(t, rule))
      BY StoredType, ReadRule
    <3>2. QED
      BY <1>2, <3>1, ValidIsUsable DEF NotesMisread
  <2>2. QED
    BY <1>2, <2>1, RewriteWrites
<1>3. QED
  BY <1>1, <1>2 DEF rule_edit, utils_run_sql, Rewritten

LEMMA EnableWrites ==
  ASSUME FileOK, FileInv, NEW p, NEW t \in Tables, NEW n \in DOMAIN rules[t],
         rule_enable_disable(p, t, n, FALSE)
  PROVE  Writes(p)
<1> DEFINE new == Enabled(t, n, FALSE)
<1>1. CASE UNCHANGED file
  BY <1>1 DEF Writes
<1>2. CASE /\ ~ LockedFor(p) /\ rules' = [rules EXCEPT ![t][n].rule.active = FALSE]
           /\ UNCHANGED <<lastId, config, misread>> /\ edits' = edits + 1
  <2>1. /\ new \in Rule /\ new.time = rules[t][n].rule.time /\ new.mode = rules[t][n].rule.mode
        /\ rules' = [rules EXCEPT ![t] = Rewritten(rules[t], {n}, new)]
    BY <1>2, EnabledRows
  <2> HIDE DEF new
  <2>2. ~ misread' => ~ misread /\ UsableRule(new)
    BY <1>2, <2>1 DEF FileInv, StoredIsUsable, UsableRule
  <2>3. QED
    BY <1>2, <2>1, <2>2, RewriteWrites
<1>3. QED
  BY <1>1, <1>2 DEF rule_enable_disable, utils_run_sql

LEMMA ConfigureWrites ==
  ASSUME FileOK, FileInv, NEW p, NEW new \in Config, Configure(p, new),
         ~ misread => /\ new.default_mode < MODE_LAST
                      /\ new.notification_time \in 0..MaxNotificationTime
  PROVE  Writes(p)
  BY DEF Configure, utils_run_sql, Writes, FileOK, FileInv, IdsInOrder, StoredIsUsable

LEMMA SetWrites ==
  ASSUME FileOK, FileInv, NEW c \in Clis, NEW n \in Nat,
         \/ configuration_set_localtime(c, n = 1)
         \/ configuration_set_default_mode(c, n)
         \/ configuration_set_shutdown_fail(c, n = 1)
  PROVE  Writes(c)
<1>1. /\ config \in Config /\ (n = 1) \in BOOLEAN
      /\ ~ misread => /\ config.default_mode < MODE_LAST
                      /\ config.notification_time \in 0..MaxNotificationTime
  BY DEF FileOK, FileInv, StoredIsUsable
<1>2. CASE configuration_set_localtime(c, n = 1)
  <2> DEFINE new == [config EXCEPT !.localtime = (n = 1)]
  <2>1. new \in Config /\ new.default_mode = config.default_mode
        /\ new.notification_time = config.notification_time
    BY <1>1 DEF Config
  <2>2. QED
    BY <1>1, <1>2, <2>1, ConfigureWrites DEF configuration_set_localtime
<1>3. CASE configuration_set_default_mode(c, n)
  <2> DEFINE new == [config EXCEPT !.default_mode = n]
  <2>1. new \in Config /\ new.default_mode = n
        /\ new.notification_time = config.notification_time
    BY <1>1 DEF Config
  <2>2. CASE n \in MODE_MEM..MODE_OFF
    <3>1. n < MODE_LAST
      BY <2>2 DEF MODE_MEM, MODE_OFF, MODE_LAST
    <3>2. QED
      BY <1>1, <1>3, <2>1, <2>2, <3>1, ConfigureWrites DEF configuration_set_default_mode
  <2>3. QED
    BY <1>3, <2>2 DEF configuration_set_default_mode, Writes
<1>4. CASE configuration_set_shutdown_fail(c, n = 1)
  <2> DEFINE new == [config EXCEPT !.shutdown_fail = (n = 1)]
  <2>1. new \in Config /\ new.default_mode = config.default_mode
        /\ new.notification_time = config.notification_time
    BY <1>1 DEF Config
  <2>2. QED
    BY <1>1, <1>4, <2>1, ConfigureWrites DEF configuration_set_shutdown_fail
<1>5. QED
  BY <1>2, <1>3, <1>4

\* A gawake-cli writes as utils_run_sql () lets it, and so does the other program.
CliStep(c) == Runs(c) \/ Asks(c) \/ Interrupt(c) \/ CloseInput(c)

LEMMA CliWrites ==
  ASSUME CliTypeOK, FileInv, NEW c \in Clis, CliStep(c)
  PROVE  Writes(c)
<1>1. FileOK /\ LocalsOK
  BY TypeParts
<1>2. table[c] \in Tables /\ answers[c] \in Answer
  BY <1>1 DEF LocalsOK
<1>3. CASE UNCHANGED file
  BY <1>3 DEF Writes
<1>4. CASE Add(c)
  <2>1. [time |-> answers[c].time, mode |-> answers[c].mode, active |-> TRUE] \in Rule
    BY <1>2, DatabaseAssumption DEF Rule, Answer, MODE_LAST
  <2>2. QED
    BY <1>1, <1>2, <1>4, <2>1, AddWrites DEF Add
<1>5. CASE Delete(c)
  BY <1>1, <1>2, <1>5, DeleteWrites DEF Delete
<1>6. CASE Value(c)
  <2> DEFINE range == IF answers[c].id = 2 THEN 0..(MODE_LAST - 1) ELSE 0..1
             Set(n) == \/ answers[c].id = 1 /\ configuration_set_localtime(c, n = 1)
                       \/ answers[c].id = 2 /\ configuration_set_default_mode(c, n)
                       \/ answers[c].id = 3 /\ configuration_set_shutdown_fail(c, n = 1)
  <2>2. PICK n \in get_int(range, TRUE) : Set(n)
    BY <1>6 DEF Value
  <2>3. n \in range
    BY NumberRead
  <2>4. n \in Nat
    BY <2>3 DEF MODE_LAST
  <2>5. QED
    BY <1>1, <2>2, <2>4, SetWrites
<1>7. QED
  BY <1>3, <1>4, <1>5, <1>6
     DEF CliStep, Runs, Asks, Interrupt, CloseInput, Start, Connect, connect_database, Custom,
         rule_custom_schedule, Disconnect, EndOfInput, Exit, NoAnswer, PrintRules, Menu, Option,
         ChooseTable, ChooseAction, Describe, ChooseId

LEMMA ApplicationWrites ==
  ASSUME CliTypeOK, FileInv, ApplicationConnects \/ ApplicationEdits
  PROVE  Writes(Application)
<1>1. FileOK
  BY TypeParts
<1>2. CASE ApplicationConnects
  BY <1>2 DEF ApplicationConnects, connect_database, Writes
<1>3. ASSUME NEW t \in Tables, NEW time \in {0, DayLength}, NEW mode \in {0, MODE_OFF, MODE_LAST}
      PROVE  [time |-> time, mode |-> mode, active |-> TRUE] \in Rule
  BY DatabaseAssumption DEF Rule, MODE_OFF, MODE_LAST
<1>4. ASSUME NEW t \in Tables, NEW rule \in Rule, NEW name \in Names,
             \/ rule_add(Application, t, rule, name)
             \/ \E i \in DOMAIN rules[t] : rule_edit(Application, t, i, rule, name)
      PROVE  Writes(Application)
  <2>1. CASE rule_add(Application, t, rule, name)
    BY <1>1, <2>1, AddWrites
  <2>2. ASSUME NEW i \in DOMAIN rules[t], rule_edit(Application, t, i, rule, name)
        PROVE  Writes(Application)
    BY <1>1, <2>2, EditWrites
  <2>3. QED
    BY <1>4, <2>1, <2>2
<1>5. ASSUME NEW t \in Tables, NEW i \in DOMAIN rules[t],
             \/ rule_delete(Application, t, rules[t][i].id)
             \/ rule_enable_disable(Application, t, i, FALSE)
      PROVE  Writes(Application)
  <2>1. CASE rule_delete(Application, t, rules[t][i].id)
    BY <1>1, <2>1, DeleteWrites
  <2>2. CASE rule_enable_disable(Application, t, i, FALSE)
    BY <1>1, <2>2, EnableWrites
  <2>3. QED
    BY <1>5, <2>1, <2>2
<1>6. ASSUME NEW time \in {-1, 0, MaxNotificationTime, MaxNotificationTime + 1},
             configuration_set_notification_time(Application, time)
      PROVE  Writes(Application)
  <2> DEFINE new == [config EXCEPT !.notification_time = time]
  <2>1. config \in Config /\ time \in Int /\ (~ misread => config.default_mode < MODE_LAST)
    BY <1>1, DatabaseAssumption DEF FileOK, FileInv, StoredIsUsable
  <2>2. new \in Config /\ new.notification_time = time /\ new.default_mode = config.default_mode
    BY <2>1 DEF Config
  <2>3. CASE time \in 0..MaxNotificationTime
    BY <1>1, <1>6, <2>1, <2>2, <2>3, ConfigureWrites DEF configuration_set_notification_time
  <2>4. QED
    BY <1>6, <2>3 DEF configuration_set_notification_time, Writes
<1>7. CASE ApplicationEdits
  <2>1. CASE \E t \in Tables, time \in {0, DayLength}, mode \in {0, MODE_OFF, MODE_LAST} :
               LET rule == [time |-> time, mode |-> mode, active |-> TRUE]
               IN  \E name \in Names :
                     \/ rule_add(Application, t, rule, name)
                     \/ \E i \in DOMAIN rules[t] : rule_edit(Application, t, i, rule, name)
    BY <1>3, <1>4, <2>1
  <2>2. QED
    BY <1>5, <1>6, <1>7, <2>1 DEF ApplicationEdits, Edit
<1>8. QED
  BY <1>2, <1>7

\* The file stays usable whoever writes.
LEMMA StepFile ==
  ASSUME CliTypeOK, FileInv, [Next]_vars
  PROVE  FileInv'
<1>1. ASSUME UNCHANGED file PROVE FileInv'
  BY <1>1 DEF file, FileInv, IdsInOrder, StoredIsUsable
<1>2. ASSUME NEW p, Writes(p) PROVE FileInv'
  BY <1>1, <1>2 DEF Writes
<1>3. CASE UNCHANGED vars
  BY <1>1, <1>3 DEF vars, file
<1>4. QED
  BY <1>2, <1>3, CliWrites, ApplicationWrites DEF Next, Finished, CliStep

LEMMA InitFile == Init => FileInv
<1> SUFFICES ASSUME Init PROVE FileInv
  OBVIOUS
<1>1. /\ \A t \in Tables : rules[t] = <<>> /\ lastId[t] = 0
      /\ edits = 0 /\ config.default_mode = 2 /\ config.notification_time = 5
  BY DEF Init, DatabaseInit
<1>2. Len(<<>>) = 0 /\ \A i \in DOMAIN <<>> : FALSE
  OBVIOUS
<1>3. IdsInOrder
  BY <1>1, <1>2 DEF IdsInOrder
<1>4. StoredIsUsable
  BY <1>1, <1>2, DatabaseAssumption DEF StoredIsUsable, MODE_LAST
<1>5. QED
  BY <1>3, <1>4 DEF FileInv

\* Whatever is typed into whichever program, and whatever the other one passes to
\* the library, the file holds only what the daemon can use, until a rule with an
\* apostrophe in its name is written: rules-manager.c does not escape it.
THEOREM StoredStaysUsable == Spec => []StoredIsUsable
<1>1. Init => CliTypeOK /\ FileInv
  BY InitType, InitFile
<1>2. CliTypeOK /\ FileInv /\ [Next]_vars => CliTypeOK' /\ FileInv'
  BY StepType, StepFile
<1>3. FileInv => StoredIsUsable
  BY DEF FileInv
<1>4. QED
  BY <1>1, <1>2, <1>3, PTL DEF Spec

-----------------------------------------------------------------------------
(* Who moves.                                                              *)

mine(c) == <<pc[c], table[c], statements[c], rowcount[c], array[c], printed[c], handle[c]>>

\* A gawake-cli changes its own state only, and the other program nobody's.
LEMMA OthersStay ==
  ASSUME CliTypeOK, NEW c \in Clis,
         \/ \E d \in Clis \ {c} : CliStep(d)
         \/ ApplicationConnects \/ ApplicationEdits \/ UNCHANGED vars
  PROVE  UNCHANGED mine(c)
<1>1. c \in Programs /\ c # Application
  BY CliAssumption
<1>2. /\ handle \in [Programs -> {"null", "open", "closed"}]
      /\ statements \in [Programs -> SUBSET {"count", "rows"}]
      /\ rowcount \in [Programs -> Nat] /\ array \in [Programs -> Seq(Row)]
      /\ pc \in [Clis -> Labels] /\ table \in [Clis -> Tables]
      /\ printed \in [Clis -> [Tables -> Seq(Row)]]
  BY <1>1 DEF CliTypeOK, DatabaseTypeOK, Labels
<1>3. CASE ApplicationConnects \/ ApplicationEdits \/ UNCHANGED vars
  BY <1>1, <1>2, <1>3
     DEF ApplicationConnects, connect_database, ApplicationEdits, vars, locals, reading, mine
<1>4. ASSUME NEW d \in Clis, d # c, CliStep(d)
      PROVE  UNCHANGED mine(c)
  <2>1. UNCHANGED pc[c]
    BY <1>2, <1>4
       DEF CliStep, Runs, Asks, Interrupt, CloseInput, Start, Connect, Custom, Disconnect, Exit,
           EndOfInput, NoAnswer, PrintRules, PrintStep, PrintFails, Add, Delete, Menu, Option,
           Value, ChooseTable, ChooseAction, Describe, ChooseId, Goes, Typed
  <2>2. UNCHANGED <<table[c], printed[c]>>
    BY <1>2, <1>4
       DEF CliStep, Runs, Asks, Interrupt, CloseInput, Start, Connect, Custom, Disconnect, Exit,
           EndOfInput, NoAnswer, PrintRules, PrintStep, PrintFails, Add, Delete, Menu, Option,
           Value, ChooseTable, ChooseAction, Describe, ChooseId
  <2>3. UNCHANGED handle[c]
    BY <1>1, <1>2, <1>4
       DEF CliStep, Runs, Asks, Interrupt, CloseInput, Start, Connect, connect_database, Custom,
           Disconnect, Exit, disconnect_database, EndOfInput, NoAnswer, PrintRules, Add, Delete,
           Menu, Option, Value, ChooseTable, ChooseAction, Describe, ChooseId
  <2>4. UNCHANGED <<statements[c], rowcount[c], array[c]>>
    <3>1. CASE PrintRules(d)
      <4>1. CASE \E t \in Tables : rule_get_all_count(d, t)
        <5>1. PICK t \in Tables, prepared \in Prepared :
                 /\ IF prepared THEN Counted(d) ELSE UNCHANGED statements
                 /\ rowcount' = [rowcount EXCEPT
                                   ![d] = IF prepared THEN Len(rules[t]) % IdSpace ELSE 0]
                 /\ array' = [array EXCEPT ![d] = <<>>]
          BY <4>1 DEF rule_get_all_count
        <5>2. Counted(d) \/ UNCHANGED statements
          BY <5>1
        <5>3. QED
          BY <1>1, <1>2, <1>4, <5>1, <5>2 DEF Counted
      <4>2. CASE \E t \in Tables : rule_get_all_row(d, t) \/ rule_get_all_ends(d, t)
        BY <1>1, <1>2, <1>4, <4>2 DEF rule_get_all_row, rule_get_all_ends, RowsFinalized
      <4>3. CASE rule_get_all_fails(d) \/ UNCHANGED reading
        BY <1>1, <1>2, <1>4, <4>3 DEF rule_get_all_fails, RowsFinalized, reading
      <4>4. QED
        BY <1>2, <3>1, <4>1, <4>2, <4>3 DEF PrintRules, PrintStep, PrintFails
    <3>2. CASE Exit(d)
      BY <1>1, <1>2, <1>4, <3>2 DEF Exit
    <3>3. CASE UNCHANGED reading
      BY <3>3 DEF reading
    <3>4. QED
      BY <1>4, <3>1, <3>2, <3>3
         DEF CliStep, Runs, Asks, Interrupt, CloseInput, Start, Connect, connect_database, Custom,
             Disconnect, EndOfInput, NoAnswer, Add, Delete, Menu, Option, Value, ChooseTable,
             ChooseAction, Describe, ChooseId
  <2>5. QED
    BY <2>1, <2>2, <2>3, <2>4 DEF mine
<1>5. QED
  BY <1>3, <1>4

\* Whose step it is: c's own, or one that leaves c alone and writes under its locks.
LEMMA Turns ==
  ASSUME CliTypeOK, FileInv, [Next]_vars, NEW c \in Clis
  PROVE  \/ CliStep(c)
         \/ UNCHANGED mine(c) /\ (statements[c] # {} => UNCHANGED file)
<1>1. c \in Programs /\ Application \in Programs /\ Clis \subseteq Programs /\ c # Application
  BY CliAssumption
<1>2. ASSUME NEW p \in Programs, p # c, Writes(p), statements[c] # {}
      PROVE  UNCHANGED file
  BY <1>1, <1>2 DEF Writes, LockedFor
<1>3. ASSUME NEW d \in Clis \ {c}, CliStep(d)
      PROVE  UNCHANGED mine(c) /\ (statements[c] # {} => UNCHANGED file)
  BY <1>1, <1>2, <1>3, OthersStay, CliWrites
<1>4. CASE ApplicationConnects \/ ApplicationEdits
  BY <1>1, <1>2, <1>4, OthersStay, ApplicationWrites
<1>5. CASE UNCHANGED vars
  <2>1. UNCHANGED file
    BY <1>5 DEF vars, file
  <2>2. QED
    BY <1>5, <2>1, OthersStay
<1>6. QED
  BY <1>3, <1>4, <1>5 DEF Next, Finished, CliStep

-----------------------------------------------------------------------------
(* What the user has seen.  From the first table that is printed to the id *)
(* that is typed, the lock of the statement that counts keeps the tables   *)
(* as they are.                                                            *)

Seen(c, t) ==
  \A i \in DOMAIN rules[t] :
    i \in DOMAIN printed[c][t] /\ printed[c][t][i] = rules[t][i]

HasRead(c) == pc[c] \in {"table", "action", "id"}
HasSeen(c) == pc[c] \in {"table", "action", "id", "delete"}
Between(c) == pc[c] \in {"count", "rows"} /\ table[c] = "turnoff"

Reading(c) ==
  /\ Len(array[c]) <= rowcount[c]
  /\ HasSeen(c) \/ Between(c) \/ pc[c] = "rows" => "count" \in statements[c]
  /\ pc[c] = "rows" =>
       /\ rowcount[c] = Len(rules[table[c]])
       /\ \A i \in DOMAIN array[c] : array[c][i] = rules[table[c]][i]
  /\ HasRead(c) => Len(array[c]) = rowcount[c]
  /\ Between(c) => Seen(c, "turnon")
  /\ HasSeen(c) => Seen(c, "turnon") /\ Seen(c, "turnoff")

LEMMA OthersDoNotDisturb ==
  ASSUME NEW c \in Clis, Reading(c), UNCHANGED mine(c), statements[c] # {} => UNCHANGED file
  PROVE  Reading(c)'
<1>1. CASE statements[c] # {}
  BY <1>1 DEF Reading, mine, file, HasRead, HasSeen, Between, Seen
<1>2. CASE statements[c] = {}
  BY <1>2 DEF Reading, mine, HasRead, HasSeen, Between
<1>3. QED
  BY <1>1, <1>2

\* A gawake-cli that is elsewhere has nothing to keep.
LEMMA Elsewhere ==
  ASSUME NEW c \in Clis, Reading(c), UNCHANGED <<rowcount, array>>,
         ~ HasSeen(c)', ~ Between(c)', pc'[c] # "rows"
  PROVE  Reading(c)'
  BY DEF Reading, HasRead, HasSeen

\* rule_get_all () on one table, then on the other.
LEMMA PrintingReads ==
  ASSUME CliTypeOK, FileInv, NEW c \in Clis, Reading(c), PrintRules(c), Prepared = {TRUE}
  PROVE  Reading(c)'
<1> DEFINE t == table[c]
<1>1. /\ c \in Programs /\ t \in Tables /\ rules[t] \in Seq(Row)
      /\ array \in [Programs -> Seq(Row)] /\ array[c] \in Seq(Row)
      /\ rowcount \in [Programs -> Nat] /\ statements \in [Programs -> SUBSET {"count", "rows"}]
      /\ pc \in [Clis -> Labels] /\ table \in [Clis -> Tables]
      /\ printed \in [Clis -> [Tables -> Seq(Row)]]
  BY ClisArePrograms DEF CliTypeOK, DatabaseTypeOK, Labels
<1>2. UNCHANGED file /\ rules' = rules
  BY DEF PrintRules, file
<1>3. /\ edits <= MaxEdits /\ edits \in Nat /\ MaxEdits \in Nat
      /\ MaxEdits < IdSpace /\ IdSpace \in Nat
  BY DatabaseAssumption DEF CliTypeOK, DatabaseTypeOK
<1>4. Len(rules[t]) \in Nat /\ Len(rules[t]) < IdSpace
  BY <1>1, <1>3 DEF FileInv, IdsInOrder
<1>5. ASSUME NEW i \in DOMAIN rules[t]
      PROVE  AsRead(rules[t][i]) = rules[t][i] /\ rules[t][i] \in Row
  <2>1. rules[t][i] \in Row /\ rules[t][i].id \in Nat
    <3>1. rules[t][i] \in Row
      BY <1>1
    <3>2. QED
      BY <3>1 DEF Row
  <2>2. rules[t][i].id <= lastId[t] /\ lastId[t] <= edits /\ lastId[t] \in Nat
    BY <1>1 DEF FileInv, IdsInOrder, CliTypeOK, DatabaseTypeOK
  <2>3. QED
    BY <1>3, <2>1, <2>2, AsReadType
<1>6. CASE /\ Goes(c, "count", "rows") /\ rule_get_all_count(c, t) /\ UNCHANGED <<table, printed>>
  <2>1. PICK prepared \in Prepared :
           /\ IF prepared THEN Counted(c) ELSE UNCHANGED statements
           /\ rowcount' = [rowcount EXCEPT ![c] = IF prepared THEN Len(rules[t]) % IdSpace ELSE 0]
           /\ array' = [array EXCEPT ![c] = <<>>]
    BY <1>6 DEF rule_get_all_count
  <2>2. prepared = TRUE
    OBVIOUS
  <2>3. Counted(c) /\ rowcount' = [rowcount EXCEPT ![c] = Len(rules[t]) % IdSpace]
    BY <2>1, <2>2
  <2>4. "count" \in statements'[c] /\ rowcount'[c] = Len(rules[t]) /\ array'[c] = <<>>
    BY <1>1, <1>4, <2>1, <2>3, NarrowType DEF Counted
  <2>5. pc'[c] = "rows" /\ pc[c] = "count" /\ table'[c] = t /\ printed' = printed
    BY <1>1, <1>6 DEF Goes
  <2>6. Len(<<>>) = 0 /\ DOMAIN <<>> = {}
    OBVIOUS
  <2>7. QED
    BY <1>2, <1>4, <2>4, <2>5, <2>6 DEF Reading, HasRead, HasSeen, Between, Seen
<1>7. CASE /\ Goes(c, "rows", "rows") /\ rule_get_all_row(c, t) /\ UNCHANGED <<table, printed>>
  <2> DEFINE n == Len(array[c]) + 1
  <2>1. n \in DOMAIN rules[t] /\ Len(array[c]) \in Nat
    BY <1>1, <1>7 DEF rule_get_all_row, Left
  <2>2. array'[c] = Append(array[c], rules[t][n])
    BY <1>1, <1>5, <1>7, <2>1 DEF rule_get_all_row
  <2>3. /\ pc[c] = "rows" /\ pc'[c] = "rows" /\ table'[c] = t /\ printed' = printed
        /\ rowcount' = rowcount /\ statements[c] \subseteq statements'[c]
    BY <1>1, <1>7 DEF Goes, rule_get_all_row
  <2>4. rowcount[c] = Len(rules[t]) /\ \A i \in DOMAIN array[c] : array[c][i] = rules[t][i]
    BY <2>3 DEF Reading
  <2>5. Len(array'[c]) = n /\ \A i \in DOMAIN array'[c] : array'[c][i] = rules[t][i]
    BY <1>1, <1>5, <2>1, <2>2, <2>4
  <2>6. n <= Len(rules[t])
    BY <1>1, <2>1
  <2>7. QED
    BY <1>2, <2>3, <2>4, <2>5, <2>6 DEF Reading, HasRead, HasSeen, Between, Seen
<1>8. CASE PrintFails(c)
  <2>1. UNCHANGED <<rowcount, array>> /\ pc'[c] = "menu"
    BY <1>1, <1>8 DEF PrintFails, Goes, rule_get_all_fails, reading
  <2>2. QED
    BY <2>1, Elsewhere DEF HasSeen, Between
<1>9. CASE /\ rule_get_all_ends(c, t) /\ pc[c] = "rows"
           /\ printed' = [printed EXCEPT ![c][t] = array[c]]
           /\ \/ t = "turnon" /\ Goes(c, "rows", "count")
                 /\ table' = [table EXCEPT ![c] = "turnoff"]
              \/ t = "turnoff" /\ Goes(c, "rows", "table") /\ UNCHANGED table
  <2>1. rowcount[c] = Len(rules[t]) /\ \A i \in DOMAIN array[c] : array[c][i] = rules[t][i]
    BY <1>9 DEF Reading
  <2>2. Len(array[c]) = Len(rules[t])
    BY <1>1, <1>4, <1>9, <2>1 DEF rule_get_all_ends, Left, Reading
  <2>3. UNCHANGED <<rowcount, array>> /\ "count" \in statements'[c]
    BY <1>1, <1>9 DEF rule_get_all_ends, RowsFinalized, Reading
  <2>4. printed'[c][t] = array[c] /\ \A u \in Tables \ {t} : printed'[c][u] = printed[c][u]
    BY <1>1, <1>9
  <2>5. \A i \in DOMAIN rules[t] :
          i \in DOMAIN printed'[c][t] /\ printed'[c][t][i] = rules'[t][i]
    BY <1>1, <1>2, <2>1, <2>2, <2>4
  <2>6. CASE t = "turnon"
    <3>1. pc'[c] = "count" /\ table'[c] = "turnoff"
      BY <1>1, <1>9, <2>6 DEF Goes
    <3>2. Seen(c, "turnon")'
      BY <1>2, <2>5, <2>6 DEF Seen
    <3>3. QED
      BY <2>3, <3>1, <3>2 DEF Reading, HasRead, HasSeen, Between
  <2>7. CASE t = "turnoff"
    <3>1. pc'[c] = "table"
      BY <1>1, <1>9, <2>7 DEF Goes
    <3>2. Seen(c, "turnon")
      BY <1>9, <2>7 DEF Reading, Between
    <3>3. Seen(c, "turnon")'
      BY <1>2, <2>4, <2>7, <3>2 DEF Seen, Tables
    <3>4. Seen(c, "turnoff")'
      BY <1>2, <2>5, <2>7 DEF Seen
    <3>5. QED
      BY <2>1, <2>2, <2>3, <3>1, <3>3, <3>4 DEF Reading, HasRead, HasSeen, Between
  <2>8. QED
    BY <1>1, <2>6, <2>7 DEF Tables
<1>10. QED
  BY <1>6, <1>7, <1>8, <1>9 DEF PrintRules, PrintStep, Goes

\* Every other step of a gawake-cli.
LEMMA OwnStepReads ==
  ASSUME CliTypeOK, FileInv, NEW c \in Clis, Reading(c), CliStep(c), Prepared = {TRUE}
  PROVE  Reading(c)'
<1>1. /\ c \in Programs /\ pc \in [Clis -> Labels] /\ table \in [Clis -> Tables]
      /\ rowcount \in [Programs -> Nat]
  BY ClisArePrograms DEF CliTypeOK, DatabaseTypeOK, Labels
<1>2. CASE PrintRules(c)
  BY <1>2, PrintingReads
<1>3. CASE ChooseTable(c) \/ ChooseAction(c) \/ ChooseId(c)
  <2>1. UNCHANGED <<file, reading, printed>> /\ rules' = rules
    BY <1>3 DEF ChooseTable, ChooseAction, ChooseId, file
  <2>2. /\ pc[c] \in {"table", "action", "id"}
        /\ pc'[c] \in {"menu", "action", "name", "id", "delete"}
    BY <1>1, <1>3 DEF ChooseTable, ChooseAction, ChooseId, Typed, Goes
  <2>3. QED
    BY <2>1, <2>2 DEF Reading, HasRead, HasSeen, Between, Seen, reading
<1>4. CASE CloseInput(c)
  <2>1. UNCHANGED mine(c) /\ UNCHANGED file
    BY <1>4 DEF CloseInput, mine, reading
  <2>2. QED
    BY <2>1, OthersDoNotDisturb
<1>5. CASE Exit(c)
  <2>1. UNCHANGED <<rowcount, array>> /\ pc'[c] = "exited"
    BY <1>1, <1>5 DEF Exit
  <2>2. QED
    BY <2>1, Elsewhere DEF HasSeen, Between
<1>6. CASE Menu(c)
  <2>1. UNCHANGED <<rowcount, array>>
    BY <1>6 DEF Menu, reading
  <2>2. /\ pc'[c] \in {"count", "confirm", "option", "info", "disconnect", "menu"}
        /\ pc'[c] = "count" => table'[c] = "turnon"
    BY <1>1, <1>6 DEF Menu, Typed, Goes
  <2>3. QED
    BY <2>1, <2>2, Elsewhere DEF HasSeen, Between
<1>7. CASE Start(c) \/ Connect(c) \/ Custom(c) \/ NoAnswer(c) \/ Add(c) \/ Delete(c)
  <2>1. UNCHANGED <<rowcount, array>>
    BY <1>7 DEF Start, Connect, connect_database, Custom, NoAnswer, Add, Delete, reading
  <2>2. Connected(c) \in {"exited", "menu", "custom", "disconnect"}
    BY DEF Connected, Destination, CliTypeOK
  <2>3. pc'[c] \in {"connect", "exited", "menu", "custom", "disconnect"}
    BY <1>1, <1>7, <2>2 DEF Start, Connect, Custom, NoAnswer, Add, Delete, Goes
  <2>4. QED
    BY <2>1, <2>3, Elsewhere DEF HasSeen, Between
<1>8. CASE Option(c) \/ Value(c) \/ Describe(c)
  <2>1. UNCHANGED <<rowcount, array>>
    BY <1>8 DEF Option, Value, Describe, reading
  <2>2. pc'[c] \in {"value", "menu", "time", "days", "mode", "add"}
    BY <1>1, <1>8 DEF Option, Value, Describe, Typed, Goes
  <2>3. QED
    BY <2>1, <2>2, Elsewhere DEF HasSeen, Between
<1>9. QED
  BY <1>2, <1>3, <1>4, <1>5, <1>6, <1>7, <1>8
     DEF CliStep, Runs, Asks, Interrupt, Disconnect, EndOfInput

ReadingInv == CliTypeOK /\ FileInv /\ \A c \in Clis : Reading(c)

LEMMA ReadingInvariant ==
  ASSUME Prepared = {TRUE}
  PROVE  Spec => []ReadingInv
<1>1. Init => ReadingInv
  <2>1. ASSUME Init, NEW c \in Clis PROVE Reading(c)
    <3>1. Len(array[c]) = 0 /\ rowcount[c] = 0 /\ pc[c] = "start"
      BY <2>1, ClisArePrograms DEF Init, DatabaseInit
    <3>2. QED
      BY <3>1 DEF Reading, HasRead, HasSeen, Between
  <2>2. QED
    BY <2>1, InitType, InitFile DEF ReadingInv
<1>2. ASSUME ReadingInv, [Next]_vars PROVE ReadingInv'
  <2>1. ASSUME NEW c \in Clis PROVE Reading(c)'
    BY <1>2, Turns, OwnStepReads, OthersDoNotDisturb DEF ReadingInv
  <2>2. QED
    BY <1>2, <2>1, StepType, StepFile DEF ReadingInv
<1>3. QED
  BY <1>1, <1>2, PTL DEF Spec

\* rule_get_all () fills its array exactly, although others may add and delete
\* rules between its two statements, provided that the first can be prepared.
THEOREM ArrayStaysFilled ==
  ASSUME Prepared = {TRUE}
  PROVE  Spec => []ArrayIsFilled
<1>1. ReadingInv => ArrayIsFilled
  BY DEF ReadingInv, Reading, HasRead, ArrayIsFilled
<1>2. QED
  BY <1>1, ReadingInvariant, PTL

\* However many programs edit the database, a rule that a user deletes is a rule
\* that this user has seen, as it is, in the table that was printed.
THEOREM DeletedWasPrinted ==
  ASSUME Prepared = {TRUE}
  PROVE  Spec => DeletesWhatWasPrinted
<1>1. ASSUME ReadingInv, NEW c \in Clis, pc[c] = "delete", NEW i \in DOMAIN rules[table[c]]
      PROVE  \E j \in DOMAIN printed[c][table[c]] :
               rules[table[c]][i] = printed[c][table[c]][j]
  <2>1. Seen(c, "turnon") /\ Seen(c, "turnoff") /\ table[c] \in Tables
    BY <1>1 DEF ReadingInv, Reading, HasSeen, CliTypeOK
  <2>2. Seen(c, table[c])
    BY <2>1 DEF Tables
  <2>3. QED
    BY <1>1, <2>2 DEF Seen
<1>2. ReadingInv /\ [Next]_vars =>
        [\A c \in Clis :
           pc[c] = "delete" /\ pc'[c] = "menu" =>
             \A i \in DOMAIN rules[table[c]] :
               LET row == rules[table[c]][i]
               IN  \/ \E j \in DOMAIN printed[c][table[c]] : row = printed[c][table[c]][j]
                   \/ \E j \in DOMAIN rules'[table[c]] : row = rules'[table[c]][j]]_vars
  BY <1>1
<1>3. QED
  BY <1>2, ReadingInvariant, PTL DEF Spec, DeletesWhatWasPrinted
=============================================================================
