--------------------------- MODULE DatabaseConnection ---------------------------
(***************************************************************************)
(* The library through which programs edit and read the database of        *)
(* Gawake.  Every program has its own connection; what they share is the   *)
(* file, which SQLite locks: a statement that has returned a row and is    *)
(* not yet finalized keeps everyone else from writing.  Nobody sets a      *)
(* busy timeout, so a write that meets a lock fails.                       *)
(*                                                                         *)
(* The operators have the names of the functions they stand for; the       *)
(* module that uses them says when they are called.  A rule's hour and     *)
(* minutes are one number and its days are left out; of its name only      *)
(* matters whether there is an apostrophe in it.                           *)
(*                                                                         *)
(* An operator that stands before the one it varies is a mutant of it.     *)
(***************************************************************************)
EXTENDS Integers, Sequences

Ext == INSTANCE SequencesExt

CONSTANTS
  Programs,             \* the processes that are linked with the library
  DayLength,            \* minutes in a day
  MaxNotificationTime,  \* MAX_NOTIFICATION_TIME
  IdSpace,              \* 2^16: ids and counts are uint16_t in the programs
  Prepared,             \* whether sqlite3_prepare_v2 () may succeed, or fail
  Misread,              \* what SQLite may make of a rule whose name it misreads
  MaxEdits              \* bound: writes that succeed in a behaviour

Tables == {"turnon", "turnoff"}

\* Names without and with an apostrophe.
Names == {"plain", "quoted"}

MODE_MEM  == 0
MODE_OFF  == 2
MODE_LAST == 3

\* What a caller may pass, and what the columns of a row can hold.
Rule == [time : Nat, mode : Nat, active : BOOLEAN]
Row  == [id : Nat, rule : Rule]

Config == [localtime : BOOLEAN, default_mode : Nat, notification_time : Int,
           shutdown_fail : BOOLEAN]

ASSUME DatabaseAssumption ==
  /\ DayLength \in Nat \ {0}
  /\ MaxNotificationTime \in Nat /\ MaxNotificationTime >= 5   \* the default
  /\ IdSpace \in Nat /\ MaxEdits \in Nat /\ MaxEdits < IdSpace
  /\ Prepared \subseteq BOOLEAN /\ Misread \subseteq Rule

VARIABLES
  rules,        \* the rows of each table, in the order of their ids
  lastId,       \* AUTOINCREMENT: the last id given in each table
  config,       \* the row of table config
  handle,       \* db of each program: "null", "open", or "closed" if it dangles
  statements,   \* the statements of each program that have not been finalized
  rowcount,     \* rule_get_all (): how many rows its array has room for ...
  array,        \* ... and those that were copied to it
  edits,        \* how much of MaxEdits is used
  misread       \* history: a statement was run that SQLite may have misread

file    == <<rules, lastId, config, edits, misread>>
reading == <<statements, rowcount, array>>

DatabaseTypeOK ==
  /\ rules \in [Tables -> Seq(Row)]
  /\ lastId \in [Tables -> Nat]
  /\ config \in Config
  /\ handle \in [Programs -> {"null", "open", "closed"}]
  /\ statements \in [Programs -> SUBSET {"count", "rows"}]
  /\ rowcount \in [Programs -> Nat] /\ array \in [Programs -> Seq(Row)]
  /\ edits \in 0..MaxEdits /\ misread \in BOOLEAN

\* database.sql: no rule, suspended to disk by default, notified 5 minutes ahead.
DatabaseInit ==
  /\ rules = [t \in Tables |-> <<>>] /\ lastId = [t \in Tables |-> 0]
  /\ config = [localtime |-> TRUE, default_mode |-> 2, notification_time |-> 5,
               shutdown_fail |-> FALSE]
  /\ handle = [p \in Programs |-> "null"]
  /\ statements = [p \in Programs |-> {}]
  /\ rowcount = [p \in Programs |-> 0] /\ array = [p \in Programs |-> <<>>]
  /\ edits = 0 /\ misread = FALSE

-----------------------------------------------------------------------------
(* The connection.                                                         *)

\* A failed sqlite3_open_v2 () leaves a handle, which is closed but kept; a
\* second call does nothing but warn.
connect_database(p) ==
  /\ \/ handle[p] = "null" /\ handle' = [handle EXCEPT ![p] = "open"]
     \/ handle[p] = "null" /\ handle' = [handle EXCEPT ![p] = "closed"]
     \/ handle[p] # "null" /\ UNCHANGED handle
  /\ UNCHANGED <<file, reading>>

\* The file stays locked by statements that were not finalized.
disconnect_database(p) == handle' = [handle EXCEPT ![p] = "null"]

LockedFor(p) == \E q \in Programs \ {p} : statements[q] # {}

\* utils_run_sql (): writes the file, or fails because of a lock, of the daemon
\* that is reading or of the disk; p's own statements do not lock p out.
utils_run_sql(p, write) ==
  \/ /\ handle[p] = "open" /\ ~ LockedFor(p)
     /\ edits < MaxEdits /\ edits' = edits + 1
     /\ write
  \/ UNCHANGED file

-----------------------------------------------------------------------------
(* Editing the rules: rules-manager.c.                                     *)

AnyRule(rule) == TRUE
utils_validate_rule(rule) == rule.time < DayLength /\ rule.mode \in MODE_MEM..MODE_OFF

\* Turn on rules have no mode; it reads as 0.
Stored(t, rule) == IF t = "turnon" THEN [rule EXCEPT !.mode = 0] ELSE rule

\* The name is put between apostrophes as it is (lines 39, 52, 106 and 123): one
\* of its own ends it, and SQLite reads the rest of the statement differently, or
\* not at all.  Nothing validates what it then writes.
Read(name, rule)   == IF name = "quoted" THEN Misread ELSE {rule}
NotesMisread(name) == misread' = (misread \/ name = "quoted")

rule_add(p, t, rule, name) ==
  IF utils_validate_rule(rule)
  THEN utils_run_sql(p,
         /\ \E new \in Read(name, Stored(t, rule)) :
              rules' = [rules EXCEPT ![t] = Append(@, [id |-> lastId[t] + 1, rule |-> new])]
         /\ lastId' = [lastId EXCEPT ![t] = @ + 1]
         /\ NotesMisread(name)
         /\ UNCHANGED config)
  ELSE UNCHANGED file

\* The row with this id, if there is one, is deleted.
rule_delete(p, t, id) ==
  utils_run_sql(p,
    /\ \/ \E i \in DOMAIN rules[t] :
            rules[t][i].id = id /\ rules' = [rules EXCEPT ![t] = Ext!RemoveAt(@, i)]
       \/ (\A i \in DOMAIN rules[t] : rules[t][i].id # id) /\ UNCHANGED rules
    /\ UNCHANGED <<lastId, config, misread>>)

rule_enable_disable(p, t, i, active) ==
  utils_run_sql(p,
    /\ rules' = [rules EXCEPT ![t][i].rule.active = active]
    /\ UNCHANGED <<lastId, config, misread>>)

\* UPDATE ... WHERE id = ...; if the name is misread, perhaps of every row.
Changed(t, i, name) == IF name = "quoted" THEN {{i}, DOMAIN rules[t]} ELSE {{i}}

rule_edit(p, t, i, rule, name) ==
  IF utils_validate_rule(rule)
  THEN utils_run_sql(p,
         /\ \E rows \in Changed(t, i, name), new \in Read(name, Stored(t, rule)) :
              rules' = [rules EXCEPT ![t] = [j \in DOMAIN @ |->
                          IF j \in rows THEN [@[j] EXCEPT !.rule = new] ELSE @[j]]]
         /\ NotesMisread(name)
         /\ UNCHANGED <<lastId, config>>)
  ELSE UNCHANGED file

\* The UPDATE names a column, use_args, that table custom_schedule does not have.
rule_custom_schedule(p) == UNCHANGED file

-----------------------------------------------------------------------------
(* Configuration: configuration-manager.c.                                 *)

Configure(p, new) == utils_run_sql(p, config' = new /\ UNCHANGED <<rules, lastId, misread>>)

configuration_set_localtime(p, use) == Configure(p, [config EXCEPT !.localtime = use])

configuration_set_default_mode(p, mode) ==
  IF mode \in MODE_MEM..MODE_OFF
  THEN Configure(p, [config EXCEPT !.default_mode = mode])
  ELSE UNCHANGED file

configuration_set_notification_time(p, time) ==
  IF time \in 0..MaxNotificationTime
  THEN Configure(p, [config EXCEPT !.notification_time = time])
  ELSE UNCHANGED file

configuration_set_shutdown_fail(p, fail) == Configure(p, [config EXCEPT !.shutdown_fail = fail])

-----------------------------------------------------------------------------
(* Reading: rule_get_all (), in the steps between which others can write.  *)

\* SELECT COUNT( * ): the next statement takes the place of this one, which
\* nobody finalizes.
CountFinalized(p) == UNCHANGED statements
Counted(p)        == statements' = [statements EXCEPT ![p] = @ \cup {"count"}]

\* If the statement could not be prepared, no row is the same as a count of 0.
rule_get_all_count(p, t) ==
  \E prepared \in Prepared :
    /\ IF prepared THEN Counted(p) ELSE UNCHANGED statements
    /\ rowcount' = [rowcount EXCEPT ![p] = IF prepared THEN Len(rules[t]) % IdSpace ELSE 0]
    /\ array' = [array EXCEPT ![p] = <<>>]

\* The statement that reads the rows is finalized when there are no more, or
\* more than fit into the array, or an error.
Left(p, t) == Len(array[p]) < Len(rules[t])
Full(p)    == Len(array[p]) > rowcount[p]

AsRead(row) == [row EXCEPT !.id = @ % IdSpace]

rule_get_all_row(p, t) ==
  /\ Left(p, t) /\ ~ Full(p)
  /\ array' = [array EXCEPT ![p] = Append(@, AsRead(rules[t][Len(@) + 1]))]
  /\ statements' = [statements EXCEPT ![p] = @ \cup {"rows"}]
  /\ UNCHANGED rowcount

RowsFinalized(p) == statements' = [statements EXCEPT ![p] = @ \ {"rows"}]

rule_get_all_ends(p, t)  == ~ Left(p, t) /\ RowsFinalized(p) /\ UNCHANGED <<rowcount, array>>
rule_get_all_fails(p)    == RowsFinalized(p) /\ UNCHANGED <<rowcount, array>>
=============================================================================
