-------------------------------- MODULE Gawaked --------------------------------
(***************************************************************************)
(* The daemon (gawaked/main.c): a parent that keeps the right to become    *)
(* root, and a child without it that runs scheduler () and hands over, by  *)
(* a pipe, the arguments with which the parent runs rtcwake or shuts down. *)
(*                                                                         *)
(* The scheduler's variables and actions are those of Scheduler; they run  *)
(* while the child is in scheduler ().                                     *)
(*                                                                         *)
(* An operator that stands before the one it varies is a mutant of it.     *)
(***************************************************************************)
EXTENDS Scheduler, Privileges

VARIABLES
  parent,    \* where main () is in the parent, its credentials and its rtcwake_args
  child,     \* the same of the child, whose rtcwake_args are the scheduler's
  pipe,      \* what was written and not read
  sent,      \* history: what the child handed over
  machine    \* the computer: what it was put to, and the alarm that was set

daemon == <<parent, child, pipe, sent, machine>>

ParentSteps == {"start", "fork", "wait", "read", "validate", "obey", "rtcwake", "resumed",
                "exited"}
ChildSteps  == {"none", "drop", "scheduler", "succeeded", "failed", "killed"}

RtcwakeArgs == [found : BOOLEAN, shutdown_fail : BOOLEAN, run_shutdown : BOOLEAN, wake : Times,
                mode : Modes \cup {NO}]

Awake == [power |-> "on", alarm |-> NoTime]

GawakedTypeOK ==
  /\ TypeOK
  /\ parent \in [pc : ParentSteps, cred : Credentials, args : RtcwakeArgs]
  /\ child \in [pc : ChildSteps, cred : Credentials]
  /\ pipe \in Seq(RtcwakeArgs) /\ Len(pipe) <= 1
  /\ sent \in RtcwakeArgs \cup {Awake}
  /\ machine \in [power : Modes \cup {"on", "shutdown"}, alarm : Times]

\* systemd starts the service as root.
GawakedInit ==
  /\ Init
  /\ parent = [pc |-> "start", cred |-> Only(ROOT), args |-> rtcwake_args]
  /\ child = [pc |-> "none", cred |-> Only(ROOT)]
  /\ pipe = <<>> /\ sent = Awake /\ machine = Awake

-----------------------------------------------------------------------------
(* The parent until it has a child.                                        *)

ParentMoves(from, to, cred) ==
  /\ parent.pc = from
  /\ parent' = [parent EXCEPT !.pc = to, !.cred = cred]

\* The kernel may refuse set*id ().
Refuses == "setid" \in Faults

ForksAnyhow(r) == "fork"
AfterDrop(r)   == IF r.ok THEN "fork" ELSE "exited"

ParentDrop ==
  /\ \E r \in drop_privileges(parent.cred, Refuses) :
       ParentMoves("start", AfterDrop(r), r.cred)
  /\ UNCHANGED <<child, pipe, sent, machine, vars>>

ParentFork ==
  /\ ParentMoves("fork", "wait", parent.cred)
  /\ child' = [pc |-> "drop", cred |-> parent.cred]
  /\ UNCHANGED <<pipe, sent, machine, vars>>

\* getpwnam (), pipe (), fork (), read () or malloc () fails; what
\* system () returns is not looked at.
ParentFails ==
  /\ "parent" \in Faults
  /\ parent.pc = "obey" => ~ parent.args.run_shutdown
  /\ \E from \in {"start", "fork", "read", "obey"} : ParentMoves(from, "exited", parent.cred)
  /\ UNCHANGED <<child, pipe, sent, machine, vars>>

-----------------------------------------------------------------------------
(* The child.                                                              *)

\* Line 75: the process ends unless both functions return success.
GoesOn(r) == TRUE
Passes(r) == r.ok /\ check_user(r.cred)

ChildDrop ==
  /\ child.pc = "drop"
  /\ \E r \in drop_privileges_permanently(child.cred, Refuses) :
       child' = [pc |-> IF Passes(r) THEN "scheduler" ELSE "failed", cred |-> r.cred]
  /\ UNCHANGED <<parent, pipe, sent, machine, vars>>

ChildScheduler ==
  /\ child.pc = "scheduler"
  /\ Next
  /\ UNCHANGED daemon

\* scheduler () returned success; the process ends with it.
ChildHandsOver ==
  /\ child.pc = "scheduler" /\ pc.main = "returned"
  /\ \/ /\ pipe' = <<rtcwake_args>> /\ sent' = rtcwake_args
        /\ child' = [child EXCEPT !.pc = "succeeded"]
     \/ /\ "pipe" \in Faults
        /\ child' = [child EXCEPT !.pc = "failed"]
        /\ UNCHANGED <<pipe, sent>>
  /\ UNCHANGED <<parent, machine, vars>>

\* scheduler () failed: nothing is written, and the exit status is success.
ChildGivesUp ==
  /\ child.pc = "scheduler" /\ pc.main \in {"failed", "crashed"}
  /\ child' = [child EXCEPT !.pc = IF pc.main = "failed" THEN "succeeded" ELSE "killed"]
  /\ UNCHANGED <<parent, pipe, sent, machine, vars>>

-----------------------------------------------------------------------------
(* The parent after its child has ended.                                   *)

ParentWait ==
  /\ \/ child.pc = "succeeded" /\ ParentMoves("wait", "read", parent.cred)
     \/ child.pc \in {"failed", "killed"} /\ ParentMoves("wait", "exited", parent.cred)
  /\ UNCHANGED <<child, pipe, sent, machine, vars>>

\* At the end of the file read () returns 0, which is no error: rtcwake_args
\* stay as they are, uninitialised.
ParentRead ==
  /\ parent.pc = "read"
  /\ parent' = [parent EXCEPT !.pc = "validate",
                              !.args = IF pipe = <<>> THEN parent.args ELSE Head(pipe)]
  /\ pipe' = <<>>
  /\ UNCHANGED <<child, sent, machine, vars>>

ParentValidate ==
  /\ ParentMoves("validate", IF Valid(parent.args) THEN "obey" ELSE "exited", parent.cred)
  /\ UNCHANGED <<child, pipe, sent, machine, vars>>

NeverShutsDown(args) == FALSE
ShutsDown(args)      == args.run_shutdown

ParentShutdown ==
  /\ ShutsDown(parent.args)
  /\ ParentMoves("obey", "exited", parent.cred)
  /\ machine' = [machine EXCEPT !.power = "shutdown"]
  /\ UNCHANGED <<child, pipe, sent, vars>>

\* MODE[] has the four names, but MODE_NO is 4: MODE_LAST comes before it.
MODE == <<"mem", "disk", "off", "no">>
ModeNumber(mode) == CASE mode = "mem" -> 0 [] mode = "disk" -> 1 [] mode = "off" -> 2
                      [] mode = NO -> 4

\* Making the command reads MODE[]; beyond its end that may crash.  Whether
\* privileges were raised is not looked at.
ParentRaise ==
  /\ ~ ShutsDown(parent.args)
  /\ \/ \E r \in raise_privileges(parent.cred, Refuses) : ParentMoves("obey", "rtcwake", r.cred)
     \/ /\ ModeNumber(parent.args.mode) >= Len(MODE)
        /\ ParentMoves("obey", "exited", parent.cred)
  /\ UNCHANGED <<child, pipe, sent, machine, vars>>

\* rtcwake needs root, a mode that it knows and a time still to come.
rtcwake(args, cred) ==
  IF /\ cred.euid = ROOT
     /\ ModeNumber(args.mode) < Len(MODE)
     /\ args.wake > now
  THEN [power |-> MODE[ModeNumber(args.mode) + 1], alarm |-> args.wake]
  ELSE machine

ParentRtcwake ==
  /\ ParentMoves("rtcwake", "resumed", parent.cred)
  /\ machine' = rtcwake(parent.args, parent.cred)
  /\ UNCHANGED <<child, pipe, sent, vars>>

\* The process ends next, whether or not it has dropped its privileges.
ParentResumes ==
  /\ \E r \in drop_privileges_permanently(parent.cred, Refuses) :
       ParentMoves("resumed", "exited", r.cred)
  /\ UNCHANGED <<child, pipe, sent, machine, vars>>

Parent ==
  \/ ParentDrop \/ ParentFork \/ ParentFails
  \/ ParentWait \/ ParentRead \/ ParentValidate \/ ParentShutdown \/ ParentRaise
  \/ ParentRtcwake \/ ParentResumes

Child == ChildDrop \/ ChildHandsOver \/ ChildGivesUp

Exited == parent.pc = "exited" /\ UNCHANGED <<daemon, vars>>

GawakedNext == Parent \/ Child \/ ChildScheduler \/ Exited

GawakedSpec == GawakedInit /\ [][GawakedNext]_<<daemon, vars>>

\* As in Scheduler; both processes are scheduled as well.
GawakedFairSpec ==
  /\ GawakedSpec
  /\ WF_<<daemon, vars>>(Parent) /\ WF_<<daemon, vars>>(Child)
  /\ WF_<<daemon, vars>>(child.pc = "scheduler" /\ Main /\ UNCHANGED daemon)
  /\ WF_<<daemon, vars>>(child.pc = "scheduler" /\ Handler /\ UNCHANGED daemon)
  /\ WF_<<daemon, vars>>(child.pc = "scheduler" /\ Listener /\ UNCHANGED daemon)
  /\ WF_<<daemon, vars>>(child.pc = "scheduler" /\ Checker /\ UNCHANGED daemon)
  /\ WF_<<daemon, vars>>(child.pc = "scheduler" /\ Tick /\ UNCHANGED daemon)

-----------------------------------------------------------------------------
(* Properties.                                                             *)

\* The child that runs scheduler (), which talks to the bus and reads the
\* database, is gawake in every identity, the saved ones and the groups included,
\* whichever of the calls of set*id () the kernel refuses: a child that could not
\* drop all of root has ended (lines 70-76).
ChildIsUnprivileged ==
  child.pc \in {"scheduler", "succeeded", "killed"} => child.cred = Only(GAWAKE)

\* The parent is root only until it drops its privileges, while it runs rtcwake
\* (lines 38 and 223-225) and when it has ended: never while it waits for a child
\* or handles what a child sent, whichever call of set*id () is refused.
RootOnlyForRtcwake ==
  parent.cred.euid = ROOT => parent.pc \in {"start", "rtcwake", "resumed", "exited"}

\* The daemon implements its promise.
Promise == INSTANCE SleepOnce WITH
             Orders <- RtcwakeArgs, NoOrder <- Awake, Untouched <- Awake,
             order <- sent, machine <- machine
KeepsThePromise == Promise!Spec

\* A schedule that was handed over, still ahead when rtcwake runs and with a
\* mode to sleep in, does put the computer to sleep.
OrdersAreObeyed ==
  /\ sent # Awake /\ Valid(sent) /\ sent.mode \in Modes /\ sent.wake > now
  ~> machine.power # "on"

\* End to end: who sleeps is woken by the first turn on rule.
WakesAtFirstRule ==
  machine.power \in Modes =>
    /\ Occurs(db.turnon, machine.alarm)
    /\ \A t \in (now + 1)..(machine.alarm - 1) : ~ Occurs(db.turnon, t)

\* When systemd stops the daemon, the computer is not put to sleep while it shuts
\* down, whatever mode the checker or a request had asked for before: lines
\* 1165-1171 of scheduler.c replace it.
StoppedDoesNotSleep == decided = {"handler"} => machine.power \notin Modes

-----------------------------------------------------------------------------
(* What comments say and the code does not do: TLC refutes these.          *)

\* main.c, line 191: "Run shutdown if it's the case".
ShutdownIsRun ==
  parent.pc = "exited" /\ sent # Awake /\ sent.run_shutdown => machine.power = "shutdown"
=============================================================================
