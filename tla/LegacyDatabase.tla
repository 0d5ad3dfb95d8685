----------------------------- MODULE LegacyDatabase -----------------------------
(***************************************************************************)
(* The database file of the cron programs, as SQLite and the file system   *)
(* show it to them, and db_checker, which makes it.                        *)
(*                                                                         *)
(* remove () takes the name of a file away, not the file: who has it open  *)
(* goes on reading it.  SQLite refuses to write a file that has lost its   *)
(* name unless it is empty, or one that is locked; nobody sets a busy      *)
(* timeout.  A statement that has returned a row and is not finalized      *)
(* locks the file against everybody else's writes.                         *)
(*                                                                         *)
(* db_checker is a child its parent waits for without looking at its exit  *)
(* status, so both are one process here: the steps below come before the   *)
(* parent's "open".                                                        *)
(*                                                                         *)
(* An operator that stands before the one it varies is a mutant of it.     *)
(***************************************************************************)
EXTENDS CronLookup

CONSTANTS
  Processes,    \* what users and cron may have running at once
  Files,        \* the files that may have the name PATH one after the other
  NoFile        \* none of them

ASSUME FilesAssumption == NoFile \notin Files

Tables == {"turnon", "turnoff"}
Modes  == {"off", "mem"}

Config  == [status : BOOLEAN, commands : BOOLEAN, def_mode : Modes]
Content == [stage : {"empty", "tables", "complete"}, rows : [Tables -> SUBSET Row],
            lastId : [Tables -> Nat], config : Config]

\* The rows db_checker inserts: one example per table, on no day.
Example(t, i) == [id |-> i, days |-> {}, time |-> IF t = "turnon" THEN 36000 ELSE 41400,
                  command |-> t = "turnoff"]
Defaults == [status |-> TRUE, commands |-> FALSE, def_mode |-> "off"]

EmptyFile  == [stage |-> "empty", rows |-> [t \in Tables |-> {}],
               lastId |-> [t \in Tables |-> 0], config |-> Defaults]
Configured(c) ==
  [stage |-> "complete", config |-> Defaults,
   lastId |-> [t \in Tables |-> c.lastId[t] + 1],
   rows   |-> [t \in Tables |-> c.rows[t] \cup {Example(t, c.lastId[t] + 1)}]]

VARIABLES
  pc,         \* where each process is
  path,       \* the file that has the name PATH, if any has
  disk,       \* what each file holds
  handle,     \* the file each process has open through SQLite
  statement,  \* whether it has left a SELECT on it that is not finalized
  cut         \* history: files that a db_checker has left half made

CheckerPcs == {"access", "create", "chown", "connect", "tables", "rows"}

files == <<path, disk, handle, statement, cut>>

DatabaseTypeOK ==
  /\ path \in Files \cup {NoFile}
  /\ disk \in [Files -> Content]
  /\ handle \in [Processes -> Files \cup {NoFile}]
  /\ statement \in [Processes -> BOOLEAN]
  /\ cut \in SUBSET Files

Goes(p, from, to) == pc[p] = from /\ pc' = [pc EXCEPT ![p] = to]

-----------------------------------------------------------------------------
(* SQLite.                                                                 *)

File(p) == disk[handle[p]]

\* There are tables to select from.
Selectable(p) == File(p).stage # "empty"

Locked(p)   == \E q \in Processes \ {p} : statement[q] /\ handle[q] = handle[p]
Moved(p)    == handle[p] # path /\ File(p).stage # "empty"
Writable(p) == ~ Locked(p) /\ ~ Moved(p)

Unused == {f \in Files : f # path /\ \A p \in Processes : handle[p] # f}

-----------------------------------------------------------------------------
(* db_checker.                                                             *)

\* The file a db_checker has to finish.
WorksOn(p) == CASE pc[p] \in {"chown", "connect"} -> path
                [] pc[p] \in {"tables", "rows"}   -> handle[p]
                [] OTHER                          -> NoFile

\* Nothing is done if there is a file; or if the program cannot be started.
Access(p) ==
  /\ \/ path = NoFile /\ Goes(p, "access", "create")
     \/ Goes(p, "access", "open")
  /\ UNCHANGED files

\* Opened with O_CREAT: a file that has appeared meanwhile is taken.
Create(p) ==
  \/ Goes(p, "create", "open") /\ UNCHANGED files
  \/ path # NoFile /\ Goes(p, "create", "chown") /\ UNCHANGED files
  \/ /\ path = NoFile /\ Goes(p, "create", "chown")
     /\ \E f \in Unused :
          /\ path' = f /\ disk' = [disk EXCEPT ![f] = EmptyFile]
          /\ cut' = cut \ {f}
     /\ UNCHANGED <<handle, statement>>

\* If owner or permissions cannot be set, the empty file stays behind.
Chown(p) ==
  \/ path # NoFile /\ Goes(p, "chown", "connect") /\ UNCHANGED files
  \/ /\ Goes(p, "chown", "open")
     /\ cut' = cut \cup ({path} \ {NoFile})
     /\ UNCHANGED <<path, disk, handle, statement>>

\* remove (PATH), which is whatever has that name by now.
Kept(p)    == path' = path
Removed(p) == path' = NoFile

Connect(p) ==
  \/ /\ path # NoFile /\ Goes(p, "connect", "tables")
     /\ handle' = [handle EXCEPT ![p] = path]
     /\ UNCHANGED <<path, disk, statement, cut>>
  \/ /\ Goes(p, "connect", "open") /\ Removed(p)
     /\ UNCHANGED <<disk, handle, statement, cut>>

\* The SQL failed: there are tables already, the file is locked or has been
\* removed, or the disk fails.
SqlFails(p, from) ==
  /\ Goes(p, from, "open") /\ Removed(p)
  /\ handle' = [handle EXCEPT ![p] = NoFile]
  /\ UNCHANGED <<disk, statement, cut>>

CreateTables(p) ==
  \/ /\ Goes(p, "tables", "rows") /\ File(p).stage = "empty" /\ Writable(p)
     /\ disk' = [disk EXCEPT ![handle[p]].stage = "tables"]
     /\ UNCHANGED <<path, handle, statement, cut>>
  \/ SqlFails(p, "tables")

InsertRows(p) ==
  \/ /\ Goes(p, "rows", "open") /\ Writable(p)
     /\ disk' = [disk EXCEPT ![handle[p]] = Configured(@)]
     /\ handle' = [handle EXCEPT ![p] = NoFile]
     /\ UNCHANGED <<path, statement, cut>>
  \/ SqlFails(p, "rows")

\* The processes in gone end: what they had to finish stays as it is.
End(gone) ==
  /\ pc' = [p \in Processes |-> IF p \in gone THEN "idle" ELSE pc[p]]
  /\ handle' = [p \in Processes |-> IF p \in gone THEN NoFile ELSE handle[p]]
  /\ statement' = [p \in Processes |-> statement[p] /\ p \notin gone]
  /\ cut' = cut \cup ({WorksOn(p) : p \in gone} \ {NoFile})
  /\ UNCHANGED <<path, disk>>
=============================================================================
