# Verification of Gawake

Gawake puts a Linux computer to sleep and wakes it up again by rules of the form "on these
week days, at this time". This directory holds TLA+ models of its programs, TLC configurations
that check them and theorems that TLAPS checks. Paths below are relative to the repository;
`SC` is `src/gawaked/scheduler.c` and `GM` is `src/gawaked/main.c`.

## 1. Inventory

### Components

| Component | State | Operations | Talks to |
|---|---|---|---|
| **gawaked, parent** (`GM`, `privileges.c`) | credentials, `rtcwake_args` on the stack, one pipe | drop and raise privileges, fork, wait, read the pipe, validate, run `rtcwake` or shut down | child: fork, exit status, pipe; kernel; systemd |
| **gawaked, child: the scheduler** (`SC`) | `upcoming_off_rule`, `rtcwake_args`, `canceled`, `timeinfo`, main loop and proxy of the listener, `last_week_day` | two threads (timed checker, D-Bus listener), a SIGTERM handler, three queries | database (reads), D-Bus server (signals in, a notification out), parent |
| **rule lookup** (the SQL in `SC`, `week-day.c`) | none | next turn off rule today or tomorrow; next turn on rule in the seven days ahead | database |
| **D-Bus server** (`gawake-dbus-server/main.c`) | main loop, exported interface, proxy of itself | relays each method call as the signal of the same meaning | clients of the tools; scheduler |
| **database-connection** | one SQLite handle, a cached configuration | connect, add, delete, edit, enable and read rules, set and read the configuration, custom schedule, validation | database file |
| **D-Bus client of the tools** (`utils/dbus-client.c`) | a proxy and a shared `GError` | connect, trigger each method | D-Bus server |
| **gawake-cli** | none of its own | option handling, menu; edits the database, triggers the server | the two libraries above |
| **legacy cron programs** (`src/main.c`, `db_checker.c`, `cron_toff.c`, `cron_ton.c`; built by the top-level `Makefile`, not by meson) | the file `PATH`, what each process has open of it and left locked, the row being edited, the local variables of a lookup | the menu (reset, edit rules, configure, schedule), `-s`, `-c`, `db_checker` as a child of the menu; two programs that cron starts every ten minutes and after a boot | each other, through the file only; cron; `rtcwake` by a shell |
| generated D-Bus bindings, debugging helpers, `unused/` | | | |

The data flow: `gawake-cli` edits the database and calls a method of the D-Bus server; the
server emits a signal; the listener thread of the scheduler queries the database again, cancels
or schedules at once. Meanwhile the checker thread sleeps towards the next turn off rule, looks
up the next turn on rule, notifies the user, and ends `scheduler ()`. The child writes
`rtcwake_args` to the pipe and exits, and the parent becomes root for `rtcwake`. The service then
ends; a boot or systemd starts it again (`gawaked.service` has no `Restart=`).

### What is hard in it

* Two threads and a signal handler share five static variables; two of them (`canceled` and the
  buffer of `localtime ()`) have no mutex at all, and `upcoming_off_rule` is read without its own.
* The handler calls functions that take the mutexes of the threads it may have interrupted.
* The checker sleeps in laps of `CHECK_DELAY` for weeks, across days with and without rules,
  while signals change what it sleeps towards.
* The end of `scheduler ()` depends on the order of `g_main_loop_quit ()` and
  `g_main_loop_run ()`, and on `pthread_cancel ()` reaching a cancellation point.
* Two families of return codes, `EXIT_*` and `RTCWAKE_ARGS_*`, give 0 and 1 opposite meanings.
* The daemon drops, regains and gives up root, in two processes.
* The legacy programs create, remove, read and edit one file at the same time without a transaction:
  `access ()` and what follows it, a SELECT and the statement that acts on what it found, and the
  up to eight SELECTs of a lookup are each apart, with a user at a prompt or cron in between.
* They compare times as decimal numbers HHMMSS, to one of which seconds are added.

`PROJECT.json` lists each hazard at its line, with the properties that watch it.

### What makes each component correct

* Rule lookup: what it returns is the *next* occurrence of a rule, for every set of rules.
* Scheduler: every turn off rule is triggered, only rules are, neither early nor late; a cancel is
  honoured; the wake up is the first turn on rule; once somebody decided, it returns; what it
  returns with success says when to wake up, or to shut down.
* Daemon: what was scheduled happens once; nothing else happens; a daemon that is stopped puts nothing
  to sleep; root only where needed, whatever the kernel refuses.
* database-connection: what is stored satisfies what the daemon expects to read (it does not for every
  name of a rule, see section 4).
* D-Bus relay: a request becomes the one signal of its meaning, before it is answered, whichever
  server ends or is started meanwhile.
* Legacy programs: a file that is there is a complete database, unless who made it was stopped; who is
  told of an edit has made it; a lookup does not pass over a rule that was there all the time; a
  command is run only in the `boot_time` after its rule.

## 2. Modules, and how they correspond to the code

| Module | Models | State and actions |
|---|---|---|
| `RuleLookup` | the SELECTs of both rule queries (`SC`), `week_day ()`, `get_time ()` | no state: operators on sets of rules (`LaterToday`, `Tomorrow`, `OnDayAhead`), and `Occurs`, `IsNextOccurrence` to say what they should return |
| `Scheduler` | `scheduler ()`: all of `SC` | the static variables under their names; `pc` and `query` say where each thread is; an action per step of a thread, of a query and of the SIGTERM handler |
| `Privileges` | `privileges.c` | real, effective and saved user and group of a process; each call of `set*id ()`, and each function, as the set of its outcomes: the credentials it leaves and whether it returns success, refusals included |
| `Gawaked` | `GM`, composed with `Scheduler` (`ChildScheduler` is a step of it) | `parent` and `child` (position, credentials, arguments), `pipe`, `machine` |
| `SleepOnce` | abstract: what the daemon promises the computer | `order`, `machine`: at most one order, carried out at most once |
| `DatabaseConnection` | the database-connection library | the file (`rules`, `config`) and each program's `handle`, unfinalized `statements` and array of `rule_get_all ()`; operators named after the functions |
| `GawakeCli` | `gawake-cli/main.c`, next to another program that edits the database | `pc` is the prompt or call each gawake-cli is at; an action per prompt, call and ending |
| `DbusRelay` | `gawake-dbus-server/main.c`, `utils/dbus-client.c`, and `gsd_listener ()` and `notify_user ()` as their users | `server` and `caller` say where each process is; `mailbox` and `outbox` what is on its way; `calls` and `bus` what was called and signalled |
| `SignalRelay` | abstract: what the server promises | `requests`, `signals`: each request at most once, by its meaning, in the order of its caller |
| `CronLookup` | the SELECTs and comparisons of `schedule ()`, `cron_toff` and `cron_ton`, `wday ()` | no state: an operator per SELECT (`LaterToday`, `Ahead`, `OffNow`, `OnNow`), and `Skips` and `IsDue` to say in seconds what they are for |
| `LegacyDatabase` | `db_checker.c`; SQLite and the file system as the legacy programs use them | `path` is the file that has the name, `disk` what each holds, `handle` and `statement` what each process has open and locked; an action per system call of `db_checker` |
| `LegacyPrograms` | `src/main.c`, `cron_toff.c`, `cron_ton.c` | `program` and `pc` say what each process runs and where it is, `edit` and `job` hold the locals of `modify_rule ()` and of a lookup; an action per prompt, SELECT and statement |
| `MCScheduler`, `MCGawaked`, `MCGawakeCli`, `MCLegacy` | databases, uninitialised memory, what users type, rules and moments for TLC | |
| `RuleLookupProofs` | theorems about the lookups | |
| `SchedulerProofs`, `SchedulerTimingProofs`, `SchedulerRuleProofs` | theorems about the scheduler: at every pace; the wake up; the rules of the week | |
| `GawakedProofs`, `GawakeCliProofs`, `DbusRelayProofs`, `LegacyProofs` | theorems about these | |

`Scheduler` EXTENDS `RuleLookup`; `Gawaked` EXTENDS `Scheduler` and `Privileges` and is related to
`SleepOnce` by INSTANCE; `GawakeCli` EXTENDS `DatabaseConnection`; `DbusRelay` is related to
`SignalRelay` by INSTANCE; `LegacyPrograms` EXTENDS `LegacyDatabase`, which EXTENDS `CronLookup`. A
proof module EXTENDS the module it is about; `SchedulerProofs` extends `RuleLookupProofs`, and is
extended by `SchedulerTimingProofs`, and that by `SchedulerRuleProofs` and `GawakedProofs`. The legacy
programs share nothing with the others. What the parts see of each other is abstracted: an edit of the
library is `EditDatabase` to the scheduler, a running query of the daemon is one of the reasons for
which `utils_run_sql` may fail, and a signal of `DbusRelay` is `EmitSignal` to the scheduler, which may
come at any time and of any kind.

An operator that stands just before the one it varies (`NearTwoDelays` before `Near`) is a mutant:
with it in place of the original the property named in `PROJECT.json` fails.

### Abstractions

* **Minutes.** `now` counts minutes; the weekday is `now \div DayLength % 7`. A 60 second sleep is
  1, `CHECK_DELAY` is `CheckDelay`. `sync_time ()` takes 0 or 1. Dates are absolute minutes;
  `NoTime` is a date no calendar has, which validation refuses. A custom schedule is such a
  minute or `NoTime`, which also stands for dates too far ahead.
* **Atomicity.** A region under one mutex is one step, and so is what happens between two points
  at which another thread's effect could be seen. Within a query, opening, the integrity check and
  reading the configuration are one step, reading the clock and making the text of the week day
  are one, and copying a row to `rtcwake_args` is one. Each SELECT of the loop over the next seven
  days is a step of its own (`OnLater`), with its own reading of week day, date and rules; so are the
  check before a rule is let through and `g_main_loop_quit ()` (`CheckerTrigger`, `CheckerQuits`).
  `notification_time` is stored in minutes and multiplied by 60 in the next statement, which is merged.
* **`localtime ()`'s buffer** is a variable of its own, `timeinfo`: every call of `localtime ()`
  and `mktime ()` of every thread writes it, and `OnLater`, `OnCompare` and `day_changed ()` read it, the
  last one in a step (`CheckerDay`) after the one that wrote it.
* **Cancellation.** `pthread_cancel ()` takes effect at the checker's sleeps, at its reads of the
  database and at the D-Bus call, and nowhere else.
* **SIGTERM** comes at most once, and to the main thread, which is the one that waits in
  `pthread_join ()` without anything to do.
* **Uninitialised memory** is a choice: the booleans of `rtcwake_args` are any, its date and mode
  any of `Uninitialised`. `found` starts FALSE, which both queries assign before it is read.
* **The bus** delivers what is written in order, gives the name to one owner and queues who else asks
  for it (`REPLACE` needs the consent of the owner, which no server gives), answers the calls of
  a process that is gone, and keeps nothing for who comes later. What a server sends is written by
  GDBus' own thread: ending loses what was not written. Releasing the name and ending
  (`exit_handler ()`) are one step. A freed `GError` that is used again leaves the call reported as
  failed or the process dead.
* **Rules of the tools** have one number for hour and minutes; days, which nothing tells apart, are
  left out. Ids and counts are `uint16_t`, hence `% IdSpace`.
* **The name of a rule** is one without or one with an apostrophe. With one, the text of the INSERT or
  UPDATE it is spliced into is another: `Misread` holds the rules SQLite may make of it, an UPDATE may
  change every row, and the history variable `misread` says that such a statement was run. A statement
  that is no SQL any more fails, as any write may. What else such a text could do, to other columns, ids
  or tables, is left out.
* **Numbers.** `get_int ()` returns any of `Numbers`, which are what `scanf ()` and the truncation of
  an overlong input leave, negative ones included, and also what uninitialised memory holds.
* **Credentials.** The kernel may refuse a call of `set*id ()` that the credentials permit only with the
  fault `"setid"`; a refused call changes nothing. The proofs about users and groups cover it.
* **SQLite** is in its default (rollback journal) mode without a busy timeout: a statement that
  was stepped and not finalized holds a lock that makes other programs' writes fail. Any write may
  also fail for another reason.
* **The legacy programs' file.** `remove ()` takes the name from a file, not the file: who has it
  open goes on reading it, and SQLite refuses to write it (`SQLITE_READONLY_DBMOVED`) unless it is
  empty. A handle that a reset cannot close, because of the SELECT that is left, is dropped with its lock:
  its file has no name any more, and nobody else can open it. The CREATEs of `db_checker` are one
  step and its INSERTs another. It and the parent that waits for it are one process: its steps come
  before the parent's `"open"`.
* **Their time.** A lookup reads the clock once and SQLite reads it again (`'now'`); what passes in
  between is one of `Delays`. Otherwise each program has a time of its own: nothing relates two programs'
  clocks. A row of a file that is not complete leaves variables at 0, and the mode undefined.
* **Left out of them**: how a command or `rtcwake` ends (ignored by the code), the texts, the effective
  user, `-U`, and the `rtcwake` options, which nothing reads but a shell.

## 3. Runs

Eight runs pass, four refute what a comment says.

| Run | Question | Bounds |
|---|---|---|
| `timer` | Left alone for a week, does the checker trigger every turn off rule and only those, at the right minute and in the right mode, with the notification in time a wake up that was first when looked up; and does a cancel drop one rule only? | 192 databases, a day of 6 minutes, 44 minutes (a week and two minutes), one cancel |
| `updates` | Rules change while the daemon waits, and systemd may stop it: does it head for what the database had when last queried, and is no rule triggered `CHECK_DELAY` late? | two edits, two signals, SIGTERM, two days |
| `races` | Minutes passing between any two steps of any thread: is a cancel in the last lap honoured, is no rule triggered early? | one update, one cancel, one custom schedule, a database that may not open, queries that fail on their way and threads that may not start, one day |
| `daemon` | Both processes: does the computer do what was ordered, once, and wake at the first rule; and does a daemon that systemd stops return, and put nothing to sleep? | three databases, SIGTERM and one signal |
| `faults` | Signals and faults of every kind, of either process: does `scheduler ()` return only when somebody decided, and always then; is nothing done that was not ordered, is a child that keeps any of root stopped, and does the parent never handle its data as root? | two databases, one signal, all faults but a query that fails after it has read the configuration (in `races`); any call of `set*id ()` may be refused |
| `cli` | A gawake-cli and another program on one database: does it delete only what its user saw, store only what the daemon can use, and end with its input? | two successful writes, numbers -1 to 3, names with and without an apostrophe, one rule that is not usable in `Misread` |
| `relay` | A program and the daemon call a server that may end, or be started twice, at any moment: are requests relayed once, in order, by their meaning; was what is reported a success heard; is no call or name left unserved? | two servers, two calls, two of the four triggers |
| `legacy` | Two legacy programs on one file that either may create, reset, edit and read: is a half made file explained, does an edit meet its row, is no stable rule passed over, and no command late? | two processes, two starts, two successful writes, three files, two moments (Sunday 23:46:01 and 23:50:01), lookups of 0 or 600 seconds |

**Why the bounds are enough.** A day needs its first minute, its last and a few in between; with
`CheckDelay = 2` and a notification time of 1 a rule can be within a lap, within the notification
time, on its edge, or beyond, and a day of 6 holds several laps. The horizon of `timer` is one week
and more, so that every weekday wraps. One signal is enough to race with each step of each thread,
and the theorems hold for any number. In `cli`, two writes let the other program
add and then delete or edit a rule between any two steps of the first; times and modes include the
last valid and the first invalid one. In `relay`, two servers
can overlap or follow each other, and two calls can be of one caller or of two. In `legacy` the file is
absent or one with two turn on rules, and users enter a third: one at 23:44:59 that is past today and
comes again the next day, one tomorrow, and the users' for the five minutes before midnight. At the
earlier moment the first is 62 seconds old and its command due; at the later one it is 302 seconds old,
two too many for `BootTime = 300` (the code compares 235001 with 234459 + 300). 600 seconds let a lookup
end on Monday. Two starts let every pair of programs run against each other, and a
third process or file adds no step that two do not have; with three files the name can change hands while
both processes keep an old one. A `VIEW` drops what files hold that nobody can reach, and processes and
files are symmetric: 1,258,344 states are left. The theorems hold for any number of everything.

**Pace.** With `"any"` minutes pass between any two steps of a thread, which is what no computer does
but what safety should not depend on (`races`). With `"prompt"` a thread that can run does so before the
minute ends; the daemon's steps take microseconds. With `"quiet"` users and systemd act only while every
thread is blocked or sleeps: the properties of `updates` and `daemon` are about what follows from the
order of signals, and some of them do fail otherwise, see below.

**Fairness.** Weak fairness of each thread and process, of the handler once it was entered, and of
the clock: the kernel schedules them and no step of theirs waits for anything but what its guard
says. Nothing is assumed of users, of systemd, of the D-Bus server or of edits. `cli` assumes weak
fairness of what a gawake-cli does by itself, none of typing or of the end of input; for
`EndsWithInput` the antecedent is that the input *has* ended. `relay` assumes weak fairness of what each
server does by itself, none of its callers, of the time limit of a call, of SIGTERM or of a start.
`legacy` assumes none: its properties are safety only.

**Deadlock** is checked in every run. `Halted`, `Exited` and `Finished` are the stutters of what is
over: `scheduler ()` returned or the clock at `Horizon`, the parent's exit, all tools ended; `Over`,
all processes of the bus gone, or all legacy programs ended and no start left.

### What the passing runs do not say

`HandedOver` in `timer` is without integrity faults and without requests of a schedule, and
`WakeIsEarliest` without two queries at once: with them both fail, as below. `NoRuleMissed` excuses the
minute after a dropped rule, in which the code sleeps on purpose (line 226). `CancelDropsOneRule` does not
say that the rule it drops is the one the user meant. `WakeIsRecent` says how old the wake up may be; it may
be past.

`StoppedDoesNotSleep` holds because systemd stops a daemon whose threads wait (`"quiet"`): at `"prompt"` TLC
finds a query that stores its own mode after the handler (below). It does not say that the alarm is set,
which it is not, nor that nothing is shut down, which `x_sigterm_shutdown` refutes.

`OrdersAreObeyed` is in `daemon`, where the kernel refuses nothing it permits: with the fault `"setid"` it
fails (below). `DecidedReturns` fails where a loop may be quit before it runs: with a SIGTERM at `"prompt"`
pace, and at `"any"` (below). A process that crashes has terminated.

`StoredIsUsable` speaks of a file in which no name with an apostrophe was written (`~ misread`). `cli` assumes
that the statement that counts can be prepared (`Prepared = {TRUE}`).

## 4. Divergences

Each of the four has a run that refutes what the comment says:

| Run | Code | Comment |
|---|---|---|
| `x_sigterm_shutdown` | `SC:1173` clears `shutdown_fail`; what the parent obeys is `run_shutdown`, which stays | `SC:1172`: "Do not shutdown using gawaked" |
| `x_week_day_race` | `SC:804` reads `tm_wday` from the buffer that the other thread's `localtime ()` writes | `SC:813`: "The first rule after today is a valid match" |
| `x_shutdown_is_run` | `GM:184` validates the date before it looks at `run_shutdown`; without a turn on rule there is no date | `GM:191`: "Run shutdown if it's the case" |
| `x_invalid_id` | `gawake-cli/main.c:495` stores `val` even if nothing was read into it: an id that is no number deletes whichever rule | `gawake-cli/main.c:454-455`: "... the variable keeps equal to 0" |

Also met while modelling and proving. Most are behaviours of the model, and leave the passing runs true only
within the bounds said above; what lies behind `MODE[]`, `use_args`, `rule_get_single ()` and the longest
notification time are read from the code only:

* `SC:199` tests `ret != EXIT_SUCCESS`, but `ret` is 1 on success and 0 on failure: a shut down is
  asked for when a turn on rule *was* found, where `SC:197-198` says "If querying rule failed, and the
  user wants to shutdown ...".
* An integrity failure returns `EXIT_FAILURE`, which is `RTCWAKE_ARGS_SUCESS` (`SC:684`, 698, 704):
  the checker schedules with arguments nobody filled in. (`faults` enables the fault;
  `HandedOver` is not among its properties.)
* A failed custom schedule, "schedule" request or SIGTERM in the checker's last lap clears
  `rtcwake_args.found`, and the checker hands that over all the same, because what it looks at before
  it triggers is only how its own query ended (`SC:222-223`): nothing then says when to wake up. The
  proof of `HandedOver` failed on it; `NoSchedule`, below, excludes it.
* SIGTERM without a turn on rule: `shutdown_fail` is cleared first, so that `schedule_finalize ()`
  takes the branch of `SC:1200` and stops nothing; the service waits until systemd kills it.
* SIGTERM while a thread is inside a query: the query stores the configured mode after the handler
  stored "no" (`SC:728-731`), the arguments are handed over, and the computer sleeps while it shuts
  down. (At pace `"prompt"` TLC finds `StoppedDoesNotSleep` violated so.)
* `g_main_loop_quit ()` has no effect on a loop that does not run yet (`SC:74`, reached by the checker's
  `SC:234` and by SIGTERM): the listener then runs it for ever, and `scheduler ()` does not return. TLC finds
  `DecidedReturns` violated so by a SIGTERM while the daemon starts (at pace `"prompt"`), after which systemd
  has to kill it, and by the checker at pace `"any"`, where the listener is held up for minutes.
* A cancel that comes during the minute in which the checker sleeps after dropping a rule (`SC:226`) is
  forgotten when it wakes (`SC:227`). One that comes with no rule in sight stays, and drops the next.
* What `raise_privileges ()` returns is not looked at (`GM:223`). If the kernel refuses, rtcwake runs as
  gawake, which may not set the alarm: with the fault `"setid"` `OrdersAreObeyed` fails.
* The wake up is looked up up to a lap before the computer sleeps; a turn on rule in between is set
  as an alarm in the past.
* A rule deleted in the last lap is triggered at once: `found` is not looked at after the loop, and
  `rule_time` is `mktime ()` of the present (`SC:618`).
* `found` is set before `rule_time` (`SC:508`, `SC:618`), so that the checker may see the new one
  with the old other.
* The name of a rule goes into the SQL between apostrophes and unescaped (`rules-manager.c:39`, 52, 106,
  123). `utils_validate_rule ()` looks at its length only. A name with an apostrophe, typed into gawake-cli
  in good faith, is an SQL error at best; at worst a statement that stores another time or mode than the one
  that was validated, or updates every row.
* If `rules-reader.c:127` cannot prepare the statement that counts, the count is 0 and the rows are
  read into an array without room: with `Prepared = {TRUE, FALSE}` `ArrayIsFilled` fails.
* The statement that counts is never finalized (`rules-reader.c:125-174`): a gawake-cli that has
  printed the rules keeps every other program from writing until it ends; two of them lock each
  other out. `DeletesWhatWasPrinted` holds because of it, and fails once it is finalized.
* `MODE_NO` is 4 and `MODE[]` has "no" at 3 (`gawake-types.h:36`, `gawake-types.c:28-33`): the
  command of a stopped daemon is made from what lies behind the array. In the model rtcwake refuses such a
  mode, or the process crashes: a stopped daemon sets no alarm.
* When `scheduler ()` fails the child exits with success and writes nothing (`GM:105-109`); `read ()`
  returns 0, and the parent validates uninitialised arguments. The model refuses them
  because `Uninitialised` in the runs is no valid date.
* `rule_custom_schedule ()` updates a column, `use_args`, that `custom_schedule` does not have.
* `rule_get_single ()` takes the first row to check the id and reads the columns from the next, of
  which there is none; nobody calls it.
* The `GError` of `dbus-client.c` is static, freed where it is found to be set (lines 45, 75, 95, 115,
  135) and reset by `close_dbus_client ()` only: after one failure every trigger reads and frees it
  again, and is reported as one that "couldn't send" although it was sent. A call that times out
  or whose server ends after the signal was written is reported so as well. (`failure` of
  `DbusRelay` therefore promises nothing.)
* The interface is exported in the handler of the acquired name (`gawake-dbus-server/main.c:51`, 82),
  when the name is known already: a call in between is refused.
* `MAX_NOTIFICATION_TIME` is documented in seconds, 3600; the daemon multiplies what is stored by 60.
  3600 minutes are longer than a day, and a rule that an "updated" signal finds while the checker sleeps over
  midnight may then be notified late (see `ShortNotice`).

And in the legacy programs, all but the last three of which are behaviours of `LegacyPrograms`:

* Of two `db_checker`s at once, the second one's CREATE fails ("table already exists"), and it removes
  `PATH`, the database the first has just completed (`db_checker.c:132`, after `access ()` in line 82).
  `HalfMadeIsExplained` says only that what is *there* is complete.
* A `chown ()` that fails, or <Ctrl C> during `db_checker`, leaves an empty file that every later start
  takes for a database.
* A reset (`main.c:245`) removes the file under the others: their reads go on, their writes fail.
* The SELECT that finds the row to edit is never finalized (`main.c:736-744`): the program locks every
  other one out of writing until it ends. `EditsWhatExists` holds because of it, and fails once it
  is finalized (its mutant).
* A SELECT that cannot be prepared is not looked at: the edit goes on, with an id nobody looked for.
* Option 3 of the configuration, the database's time, updates `status` (`main.c:630`): Gawake may be disabled
  by it, and `localtime` is never anything but 1.
* `cron_toff` never reads the mode of the turn off rule (comment `cron_toff.c:64`); it runs the user's
  command before `rtcwake`, so that the wake up may be past by then, and how `rtcwake` ended is not
  looked at.
* Midnight between `get_time ()` and SQL's `'now'` makes a wake up a day late; `NoStableRuleIsSkipped`
  excuses that case.
* `boot_time`, 300 seconds, is added to a decimal HHMMSS (`cron_ton.c:92`): the window is at most 180
  seconds, less across an hour, and none across midnight. `CommandsAreTimely` is the other direction.
* A missing row of `config` leaves the mode `schedule ()` passes to `rtcwake` uninitialised.
* After a reset, `exit_aux ()` closes the handle it was given at the start (`main.c:961`).
* `get_int ()` stores an uninitialised value for <Enter> (`main.c:477`), where lines 449-451 say that it
  is left alone, and its prompts never end at the end of the input.
* An option that ends in no SQL is told "Successfully done!".

## 5. Theorems

| Theorem | Says, for every value of the constants |
|---|---|
| `TypeCorrect` | `Spec => []TypeOK` |
| `ReturnIsDecided` | `Spec => []ReturnedIsDecided` |
| `CancelIsHonoured` | `Spec => CancelHonoured` |
| `IsNeverEarly` | `Spec => NeverEarly` |
| `WakesAtTheFirst` | `Spec => []WakeIsEarliest`, if `Calm`, no edits and no custom schedules |
| `HandsOverAWakeUp` | `Spec => []HandedOver`, if `NoSchedule` and no integrity faults |
| `HeadsForTheNextRule` | `Spec => []OffRuleIsFresh`, if `Calm` and `QueriesSucceed` |
| `IsTriggeredInTime` | `Spec => TriggeredInTime`, if `Calm` and `QueriesSucceed` |
| `FiresAtRulesOnly` | `Spec => []FiresOnlyAtRules`, if `Calm`, `QueriesSucceed`, `Undisturbed`, `ShortLaps` |
| `MissesNoRule` | `Spec => []NoRuleMissed`, likewise |
| `TakesTheModeOfTheRule` | `Spec => []ModeOfTheRule`, likewise |
| `LooksUpARecentWake` | `Spec => []WakeIsRecent`, likewise |
| `NotifiesInTime` | `Spec => NotifiedInTime`, likewise and `ShortNotice` |
| `LaterTodayIsNext`, `TomorrowIsNext`, `LaterThisWeekIsNext` | what the queries select, the last one after days without a row, is the next occurrence of a rule |
| `NothingThisWeekMeansNever` | if none of the seven SELECTs of the turn on query has a row, no rule ever occurs |
| `CliTypeCorrect` | `Spec => []CliTypeOK` |
| `StoredStaysUsable` | `Spec => []StoredIsUsable`: usable until a name with an apostrophe is written |
| `ArrayStaysFilled` | `Spec => []ArrayIsFilled`, if `Prepared = {TRUE}` |
| `DeletedWasPrinted` | `Spec => DeletesWhatWasPrinted`, if `Prepared = {TRUE}` |
| `RelayTypeCorrect` | `Spec => []RelayTypeOK` |
| `RelayImplementsPromise` | `Spec => RelaysRequests`: `DbusRelay` implements `SignalRelay` |
| `SuccessIsHeard` | `Spec => []SuccessMeansHeard` |
| `GawakedTypeCorrect` | `GawakedSpec => []GawakedTypeOK` (model-checked in part: `TypeOK`) |
| `ChildHasNoRoot` | `GawakedSpec => []ChildIsUnprivileged` |
| `ParentIsRootForRtcwake` | `GawakedSpec => []RootOnlyForRtcwake` |
| `GawakedKeepsThePromise` | `GawakedSpec => KeepsThePromise`, if `NoiseIsNoOrder`: the two processes implement `SleepOnce` |
| `FirstRuleWakes` | `GawakedSpec => []WakesAtFirstRule`, if `Calm`, no edits, no custom schedules and `NoiseIsNoOrder` |
| `StoppedStaysAwake` | `GawakedSpec => []StoppedDoesNotSleep`, if `Pace = "quiet"`, no integrity faults and `NoiseIsNoOrder` |
| `LegacyTypeCorrect` | `Spec => []LegacyTypeOK` |
| `LegacyHalfMade` | `Spec => []HalfMadeIsExplained` |
| `LegacyEdits` | `Spec => EditsWhatExists` |
| `LegacyLookups` | `Spec => NoStableRuleIsSkipped` |
| `LegacyCommandsAreTimely` | `Spec => CommandsAreTimely` |

Those of the scheduler, the lookups and gawaked assume `SchedulerAssumption` (types of the constants, a
`CheckDelay` of at least 1) and `DayLengthAssumption` (a day has minutes), those of the relay
`RelayAssumption` (the daemon is none of the clients, and only it calls `ReturnStatus`), those of
gawake-cli `DatabaseAssumption` (types, also of what SQLite may misread; fewer writes than there are ids,
a longest notification time of at least the default 5) and `CliAssumption` (who the programs are;
`get_int ()` returns integers), the legacy ones `FilesAssumption` and `ProgramsAssumption` (types of the
constants; a database that exists at the beginning is complete); TLC evaluates them in the runs. `Pace`,
`Faults`, `Databases`, the horizon, the bounds, and how many gawake-clis, clients, servers, legacy
programs and files there are, are arbitrary, but for the conditions in the table.

**The conditions.** They are about constants, so that each selects instances of the model; each of them is
needed, and the passing runs satisfy the ones of the properties they check. (TLC finds a rule missed with a
`CheckDelay` of 8 in a day of 6, and a notification late with `CheckDelay = 3` and one of 6 minutes.)

* `Calm`: threads keep up with the clock, and either requests come only while every thread waits
  (`"quiet"`) or the only requests are cancels, which run no query (`"prompt"`). A query takes
  microseconds and a lap ten minutes. Without it the clock a query has read may be wrong when it ends,
  and the buffer of `localtime ()` another thread's: `x_week_day_race` shows `WakeIsEarliest` fail.
* `QueriesSucceed`: none of the faults that make a query fail. A failed query leaves no rule to be on time
  for. `WakesAtTheFirst` and `FirstRuleWakes` do without it: a query may fail at any point.
* No edits (`MaxEdits = 0`): a property about "the rules" of a week needs rules that stay, and the daemon
  reads them once a day and when it is told to. `HeadsForTheNextRule` and `IsTriggeredInTime` hold for any
  number of edits. No custom schedules: their wake up is the user's, not a rule's.
* `NoSchedule`: nobody asks for a schedule at once, neither by D-Bus nor by SIGTERM: only a rule ends
  the wait. `Undisturbed` is `NoSchedule` without edits. "updated" and "canceled" may come at any time
  `Calm` allows.
* No integrity faults: a corrupt database returns what success returns (section 4).
* `ShortLaps`: `CheckDelay <= DayLength`; in the code 10 (`_scheduler.h:70`) and 1440 minutes.
* `ShortNotice`: `CheckDelay + n <= DayLength` for every notification time `n`. The enumeration
  ends at 30 minutes (`gawake-types.h:45-52`), although the library accepts more (section 4).

**The arguments.**

* `TypeOK` is inductive as it stands; its proof has a lemma per flow of control. What needs care is
  that the times computed by the queries are dates (`LookupType`).
* `ReturnedIsDecided` is not: that main returns says nothing of the past. `Decision` adds that a
  loop that was quit, a cancelled checker and a checker that is done each have somebody in `decided`,
  and that main is past a join only if what it joined has ended.
* `CancelHonoured` and `NeverEarly` compare the trigger with what happened since the checker left
  its loop. `LastLap` says that in the last lap a cancel in `heard` has set `canceled`, which only
  the checker resets, and that without an "updated" in `heard`, nobody is rewriting
  `upcoming_off_rule`, so that `wakeAt` is not before its `rule_time` when the checker waits for it.
* A calm scheduler: `InOrder`, which is inductive, adds to `TypeOK` which query each thread may run at
  each position (`Labels`), that while the listener or the handler queries or ends the wait the other
  does not and the checker sleeps (`Solo`), and that the checker acts in the very minute its sleep ends
  (`OnTime`). `StepKinds` says once what a step may be, so that the proofs that follow need not open
  every action.
* `WakeIsEarliest`: `OnQuery` keeps, from step to step of a query, that the minute it has read is still `now`,
  that `timeinfo` is still its own, and that the query of the days ahead is reached only when today has
  nothing left. The lookup theorems do the rest.
* `HandedOver`: `Alone` says that nobody but the checker ends the wait, `Handed` that after the
  checker's own query has succeeded there is a wake up until it triggers, or a shut down is asked for.
  It holds at every pace.
* `StoppedDoesNotSleep`: `Alarm` follows the handler from the call of its query to the return of main,
  in which the minute does not end and no other thread writes `rtcwake_args`, so that their mode is "no"
  (lemma `SetsTheAlarm`); `Slept`, below, brings this to the computer.
* `OffRuleIsFresh` and `TriggeredInTime`: `OffQuery` is to the turn off query what `OnQuery` is to the
  other; `Fresh` is what it leaves behind, and stays true of the past minute `foundAt` while time
  passes; `Stopped` keeps the checker that SIGTERM cancels asleep. `InTime` bounds every sleep by the
  rule and a lap.
* The week: none of the properties of `timer` is inductive, nor are they together, for nothing in
  them says where a sleeping checker is going. `Towards` does: it either heads for a minute `u` that is
  the next rule still to be triggered (`HeadsFor`: `NextRule`, the `Course` of its laps towards `u`, and
  what it has `Chosen` for it), or `Drifts` through days without a rule and will wake, less than a lap
  after the day has changed, before any rule of the day it has not looked at. `Searching`, `Triggered`
  and `Starting` are the positions between, `LookedUp` and `Noted` the wake up and the notification
  time. `ShortLaps` is what makes the checker wake on every day it drifts through. TLC checked the
  conjuncts of `Week` on the instance of `timer` before.
* `WakesAtFirstRule`: `WakeAhead` strengthens `WakeIsEarliest` to any `wake` ahead, whether or not a
  later query failed and left it there; `Slept` carries it through pipe and parent to the alarm.
  `ChildRunsTheScheduler` (`GawakedSpec => Spec`) brings every theorem of the scheduler to the composed
  daemon.
* The lookups follow from the order of minutes: day first, then minute (`AtOrder`), with
  `FirstOfDay` for the rule picked and `QuietDay` for the days skipped.
* `StoredIsUsable` goes with `IdsInOrder`: every call that writes validates first, and no more ids are
  given than edits are made, so that ids never wrap at `IdSpace`. A call with an apostrophe in the name
  stores one of `Misread`, which nothing has validated, and sets `misread`. `Writes` says of each call that it
  leaves the file alone, or found it unlocked and keeps both.
* `ReadingInv` carries the other two: a gawake-cli that has counted and not finalized holds a lock
  until it ends, so nobody else writes between its first statement and the id that is typed; what it
  has copied is then a prefix of the table, and as many rows as it counted once it is done.
* `OrderInv` carries the refinement of `SignalRelay`: a server without the name has nothing on its way,
  and of the one that has it, what is on the bus was called before what waits to be written, and
  that before what waits to be handled. So the signal that is written next is due. The
  type alone would allow an old signal of an earlier server to come late.
* `CredentialsOK` says which user each process may be at each position. `DropsForGood`: from whatever
  credentials, and whichever calls the kernel refuses, a success of `drop_privileges_permanently ()`
  leaves gawake in every identity, and only then does the child go on to `scheduler ()`. For the
  parent: a `drop_privileges ()` that fails ends it before it forks, one that succeeds leaves gawake as
  the effective user, and only `raise_privileges ()` makes it root again. The type of gawaked extends
  `TypeOK`; steps of the scheduler inside the child use the lemmas of `SchedulerProofs`.
* `OrderOK` carries the refinement of `SleepOnce`: what is in the pipe, what the parent has read and
  what the scheduler returned are the one order, and the computer obeys after them. `NoiseIsNoOrder` says
  that what lies in memory that was never written is no date that validation accepts:
  when `scheduler ()` fails, the parent validates just that (see above), and without the assumption
  the code breaks the promise.
* `HalfMadeIsExplained` is inductive: whoever makes a file half done is at work on it, and leaving it
  either removes the name or is recorded in `cut`.
* `EditInv` (`Held`): while a row that was found is being edited its SELECT is left, so nobody else can
  write that file; the row is there when the statement comes.
* `SearchInv` (`Searched`): what is stable is in the table that is read next, and has not come up on any
  of the days already searched. Then the first row of the day is before each of them, because the
  decimal HHMMSS keeps the order of the seconds.
* `CommandsAreTimely` needs only the type and the arithmetic of HHMMSS: a difference of decimal numbers
  is at least the difference in seconds.
* `HeardInv` carries `SuccessMeansHeard`: the answers that are still to be written have their signal
  before them or have been heard (`RepliesAreAnnounced`), and the daemon starts to listen only once,
  so that a call made while it listened was not made before (`ListenedOnce`).

Model-checked only: liveness (`DecidedReturns`, `OrdersAreObeyed`, `EveryCallIsSettled`, `NameIsServed`,
`EndsWithInput`), which the installed provers do not reach because it needs ENABLED, and
`CancelDropsOneRule`, which counts the rules of a life. Every other invariant and action property of a
passing run is stated by a theorem. What is proved under a condition is model-checked under that
condition, too.

## 6. Not modelled

* **D-Bus**: the bus itself failing, which ends every process that is connected to it; the proxy that
  `gsd_listener ()` frees while the checker may still use it (`SC:137`).
* **Outside the code**: whether polkit lets the parent shut down, what rtcwake does beyond setting the
  alarm and the mode, failures of `get_time ()` and `mktime ()`.
* **`localtime = 0`**: the modifier of the SQL and time zones; the models are at `localtime = 1`.
* **Generated code, formatting, `unused/`**: see `components` in `PROJECT.json`.
* `gawaked` and the D-Bus server are commented out of `meson.build` at this commit, and `gawaked`
  includes headers that have moved: it uses `NO` and `validade_rtcwake_args ()`, which are `MODE_NO`
  and `utils_validade_rtcwake_args ()` of database-connection now. The models take the latter.
* Calls that are commented out as TODO (the triggers and `schedule ()` of gawake-cli) are not made
  in the models either.

## 7. Plan

1. Done: `RuleLookup`, `Scheduler`, `Privileges`, `Gawaked`, `SleepOnce`, `DatabaseConnection`,
   `GawakeCli`, `DbusRelay`, `SignalRelay`, `CronLookup`, `LegacyDatabase`, `LegacyPrograms`; theorems about
   all of them.
2. Compose `DbusRelay` with the daemon of `Scheduler`: from the call of a trigger to what the listener
   does; the configuration getters and `rule_get_single ()` once something calls them.
3. More proofs: `CancelDropsOneRule`; the properties of the week for a database that is edited and
   announced ("updated" after each edit), which `stale` makes expressible; `HandedOver` with requests of a
   schedule that succeed; how few of the steps of a query need the pace of `Calm`.
