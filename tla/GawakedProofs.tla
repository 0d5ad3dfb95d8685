----------------------------- MODULE GawakedProofs -----------------------------
(***************************************************************************)
(* gawaked for any rules, times, faults and order of its threads: who has  *)
(* root at which step, that what happens to the computer is what was       *)
(* ordered, once, and that a computer that sleeps is woken by its rules.   *)
(***************************************************************************)
EXTENDS Gawaked, SchedulerTimingProofs

-----------------------------------------------------------------------------
(* Credentials.                                                            *)

\* After drop_privileges (): root is left only as the real and saved identity.
Lowered == [ruid |-> ROOT, euid |-> GAWAKE, suid |-> ROOT,
            rgid |-> ROOT, egid |-> GAWAKE, sgid |-> ROOT]

LEMMA Identities == ROOT # GAWAKE /\ ROOT \in Ids /\ GAWAKE \in Ids
  BY DEF ROOT, GAWAKE, Ids

LEMMA CredentialsType ==
  Only(ROOT) \in Credentials /\ Only(GAWAKE) \in Credentials /\ Lowered \in Credentials
  BY Identities, SMT DEF Only, Lowered, Credentials

\* A call leaves the new credentials or, refused, the old ones.
LEMMA CallOutcome ==
  ASSUME NEW permitted, NEW c, NEW d, NEW refuses, NEW r \in Outcomes(permitted, c, d, refuses)
  PROVE  /\ r.ok \in BOOLEAN
         /\ r.ok => r.cred = d /\ permitted
         /\ ~ r.ok => r.cred = c
<1>1. (permitted /\ r = Done(d)) \/ r = Refused(c)
  BY DEF Outcomes
<1>2. /\ Done(d).cred = d /\ Done(d).ok
      /\ Refused(c).cred = c /\ ~ Refused(c).ok
      /\ Done(d).ok \in BOOLEAN /\ Refused(c).ok \in BOOLEAN
  BY DEF Done, Refused
<1>3. QED
  BY <1>1, <1>2

\* Credentials with all their users, or all their groups, replaced.
LEMMA Replaced ==
  ASSUME NEW c \in Credentials, NEW id \in Ids
  PROVE  LET u == [c EXCEPT !.ruid = id, !.euid = id, !.suid = id]
             g == [c EXCEPT !.rgid = id, !.egid = id, !.sgid = id]
         IN  /\ u \in Credentials /\ u.ruid = id /\ u.euid = id /\ u.suid = id
             /\ u.rgid = c.rgid /\ u.egid = c.egid /\ u.sgid = c.sgid
             /\ g \in Credentials /\ g.rgid = id /\ g.egid = id /\ g.sgid = id
             /\ g.ruid = c.ruid /\ g.euid = c.euid /\ g.suid = c.suid
<1> DEFINE u1 == [c EXCEPT !.ruid = id]
           u2 == [u1 EXCEPT !.euid = id]
           u3 == [u2 EXCEPT !.suid = id]
           g1 == [c EXCEPT !.rgid = id]
           g2 == [g1 EXCEPT !.egid = id]
           g3 == [g2 EXCEPT !.sgid = id]
<1>1. /\ u1 \in Credentials /\ u1.ruid = id
      /\ u1.rgid = c.rgid /\ u1.egid = c.egid /\ u1.sgid = c.sgid
      /\ g1 \in Credentials /\ g1.rgid = id
      /\ g1.ruid = c.ruid /\ g1.euid = c.euid /\ g1.suid = c.suid
  BY SMT DEF Credentials
<1> HIDE DEF u1, g1
<1>2. /\ u2 \in Credentials /\ u2.ruid = id /\ u2.euid = id
      /\ u2.rgid = c.rgid /\ u2.egid = c.egid /\ u2.sgid = c.sgid
      /\ g2 \in Credentials /\ g2.rgid = id /\ g2.egid = id
      /\ g2.ruid = c.ruid /\ g2.euid = c.euid /\ g2.suid = c.suid
  BY <1>1, SMT DEF Credentials
<1> HIDE DEF u2, g2
<1>3. /\ u3 \in Credentials /\ u3.ruid = id /\ u3.euid = id /\ u3.suid = id
      /\ u3.rgid = c.rgid /\ u3.egid = c.egid /\ u3.sgid = c.sgid
      /\ g3 \in Credentials /\ g3.rgid = id /\ g3.egid = id /\ g3.sgid = id
      /\ g3.ruid = c.ruid /\ g3.euid = c.euid /\ g3.suid = c.suid
  BY <1>2, SMT DEF Credentials
<1> USE DEF u1, u2, g1, g2
<1>4. QED
  BY <1>3

\* Credentials that are gawake in every identity.
LEMMA OnlyGawake ==
  ASSUME NEW c \in Credentials, c.ruid = GAWAKE, c.euid = GAWAKE, c.suid = GAWAKE,
         c.rgid = GAWAKE, c.egid = GAWAKE, c.sgid = GAWAKE
  PROVE  c = Only(GAWAKE)
  BY SMT DEF Credentials, Only

\* What each call makes of well-typed credentials.
LEMMA EffectiveUser ==
  ASSUME NEW c \in Credentials, NEW id \in Ids, NEW refuses, NEW r \in seteuid(c, id, refuses)
  PROVE  /\ r.cred \in Credentials /\ r.ok \in BOOLEAN
         /\ r.ok => r.cred = [c EXCEPT !.euid = id]
<1> DEFINE d == [c EXCEPT !.euid = id]
<1>1. d \in Credentials
  BY SMT DEF Credentials
<1>2. r \in Outcomes(CanBecome(c, id), c, d, refuses)
  BY DEF seteuid
<1> HIDE DEF d
<1>3. /\ r.cred \in Credentials /\ r.ok \in BOOLEAN
      /\ r.ok => r.cred = d
  BY <1>1, <1>2, CallOutcome
<1>4. QED
  BY <1>3 DEF d

LEMMA EffectiveGroup ==
  ASSUME NEW c \in Credentials, NEW id \in Ids, NEW refuses, NEW r \in setegid(c, id, refuses)
  PROVE  /\ r.cred \in Credentials /\ r.ok \in BOOLEAN
         /\ r.ok => r.cred = [c EXCEPT !.egid = id]
<1> DEFINE d == [c EXCEPT !.egid = id]
<1>1. d \in Credentials
  BY SMT DEF Credentials
<1>2. r \in Outcomes(CanJoin(c, id), c, d, refuses)
  BY DEF setegid
<1> HIDE DEF d
<1>3. /\ r.cred \in Credentials /\ r.ok \in BOOLEAN
      /\ r.ok => r.cred = d
  BY <1>1, <1>2, CallOutcome
<1>4. QED
  BY <1>3 DEF d

LEMMA EveryUser ==
  ASSUME NEW c \in Credentials, NEW id \in Ids, NEW refuses, NEW r \in setuid(c, id, refuses)
  PROVE  /\ r.cred \in Credentials /\ r.ok \in BOOLEAN
         /\ r.ok /\ c.euid = ROOT =>
              r.cred = [c EXCEPT !.ruid = id, !.euid = id, !.suid = id]
         /\ ~ r.ok => r.cred = c
         /\ r.ok => CanBecome(c, id)
<1> DEFINE d == [c EXCEPT !.ruid = id, !.euid = id, !.suid = id]
           e == [c EXCEPT !.euid = id]
<1>1. d \in Credentials /\ e \in Credentials
  <2>1. e \in Credentials
    BY SMT DEF Credentials
  <2>2. d \in Credentials
    BY Replaced
  <2>3. QED
    BY <2>1, <2>2
<1>2. r \in Outcomes(CanBecome(c, id), c, IF c.euid = ROOT THEN d ELSE e, refuses)
  BY DEF setuid
<1> HIDE DEF d, e
<1>3. /\ r.cred \in Credentials /\ r.ok \in BOOLEAN
      /\ r.ok /\ c.euid = ROOT => r.cred = d
      /\ ~ r.ok => r.cred = c
      /\ r.ok => CanBecome(c, id)
  BY <1>1, <1>2, CallOutcome
<1>4. QED
  BY <1>3 DEF d

LEMMA RefusedUser ==
  ASSUME NEW c \in Credentials, NEW id \in Ids, NEW refuses, NEW r \in setuid(c, id, refuses)
  PROVE  r.ok \in BOOLEAN /\ (~ r.ok => r.cred = c) /\ (r.ok => CanBecome(c, id))
  BY EveryUser

LEMMA EveryGroup ==
  ASSUME NEW c \in Credentials, NEW id \in Ids, NEW refuses, NEW r \in setgid(c, id, refuses)
  PROVE  /\ r.cred \in Credentials /\ r.ok \in BOOLEAN
         /\ r.ok /\ c.euid = ROOT =>
              r.cred = [c EXCEPT !.rgid = id, !.egid = id, !.sgid = id]
<1> DEFINE d == [c EXCEPT !.rgid = id, !.egid = id, !.sgid = id]
           e == [c EXCEPT !.egid = id]
<1>1. d \in Credentials /\ e \in Credentials
  <2>1. e \in Credentials
    BY SMT DEF Credentials
  <2>2. d \in Credentials
    BY Replaced
  <2>3. QED
    BY <2>1, <2>2
<1>2. r \in Outcomes(CanJoin(c, id), c, IF c.euid = ROOT THEN d ELSE e, refuses)
  BY DEF setgid
<1> HIDE DEF d, e
<1>3. /\ r.cred \in Credentials /\ r.ok \in BOOLEAN
      /\ r.ok /\ c.euid = ROOT => r.cred = d
  BY <1>1, <1>2, CallOutcome
<1>4. QED
  BY <1>3 DEF d

\* drop_privileges () of the parent, whatever is refused.
LEMMA Drops ==
  ASSUME NEW refuses, NEW r \in drop_privileges(Only(ROOT), refuses)
  PROVE  r.cred \in Credentials /\ r.ok \in BOOLEAN /\ (r.ok => r.cred = Lowered)
<1>1. PICK g \in setegid(Only(ROOT), GAWAKE, refuses) :
        r \in IF g.ok THEN seteuid(g.cred, GAWAKE, refuses) ELSE {g}
  BY DEF drop_privileges
<1>2. /\ g.cred \in Credentials /\ g.ok \in BOOLEAN
      /\ g.ok => g.cred = [Only(ROOT) EXCEPT !.egid = GAWAKE]
  BY CredentialsType, Identities, EffectiveGroup
<1>3. CASE g.ok
  <2>1. /\ r.cred \in Credentials /\ r.ok \in BOOLEAN
        /\ r.ok => r.cred = [g.cred EXCEPT !.euid = GAWAKE]
    BY <1>1, <1>2, <1>3, Identities, EffectiveUser
  <2>2. [[Only(ROOT) EXCEPT !.egid = GAWAKE] EXCEPT !.euid = GAWAKE] = Lowered
    <3> DEFINE d == [Only(ROOT) EXCEPT !.egid = GAWAKE]
    <3>1. /\ d = [ruid |-> ROOT, euid |-> ROOT, suid |-> ROOT,
                  rgid |-> ROOT, egid |-> GAWAKE, sgid |-> ROOT]
      BY SMT DEF Only
    <3> HIDE DEF d
    <3>2. [d EXCEPT !.euid = GAWAKE]
            = [ruid |-> ROOT, euid |-> GAWAKE, suid |-> ROOT,
               rgid |-> ROOT, egid |-> GAWAKE, sgid |-> ROOT]
      BY <3>1, SMT
    <3>3. Lowered = [ruid |-> ROOT, euid |-> GAWAKE, suid |-> ROOT,
                     rgid |-> ROOT, egid |-> GAWAKE, sgid |-> ROOT]
      BY SMT DEF Lowered, Only
    <3>4. QED
      BY <3>2, <3>3 DEF d
  <2>3. QED
    BY <1>2, <1>3, <2>1, <2>2
<1>4. CASE ~ g.ok
  BY <1>1, <1>2, <1>4
<1>5. QED
  BY <1>2, <1>3, <1>4

LEMMA Raises ==
  ASSUME NEW c \in Credentials, NEW refuses, NEW r \in raise_privileges(c, refuses)
  PROVE  r.cred \in Credentials
<1>1. PICK u \in seteuid(c, ROOT, refuses) :
        r \in IF u.ok THEN setegid(u.cred, ROOT, refuses) ELSE {u}
  BY DEF raise_privileges
<1>2. u.cred \in Credentials /\ u.ok \in BOOLEAN
  BY Identities, EffectiveUser
<1>3. QED
  BY <1>1, <1>2, Identities, EffectiveGroup

\* Whatever the process was and whichever call is refused, a success of
\* drop_privileges_permanently () leaves nothing but gawake.
LEMMA DropsForGood ==
  ASSUME NEW c \in Credentials, NEW refuses,
         NEW r \in drop_privileges_permanently(c, refuses)
  PROVE  r.cred \in Credentials /\ r.ok \in BOOLEAN /\ (r.ok => r.cred = Only(GAWAKE))
<1> DEFINE regained == seteuid(c, ROOT, refuses)
           group == UNION {IF x.ok THEN setgid(x.cred, GAWAKE, refuses) ELSE {x} : x \in regained}
           user  == UNION {IF x.ok THEN setuid(x.cred, GAWAKE, refuses) ELSE {x} : x \in group}
<1>1. PICK u \in user : r \in IF u.ok THEN RegainsNothing(u.cred, refuses) ELSE {u}
  BY DEF drop_privileges_permanently
<1>2. PICK g \in group : u \in IF g.ok THEN setuid(g.cred, GAWAKE, refuses) ELSE {g}
  BY <1>1
<1>3. PICK e \in regained : g \in IF e.ok THEN setgid(e.cred, GAWAKE, refuses) ELSE {e}
  BY <1>2
<1>4. e.cred \in Credentials /\ e.ok \in BOOLEAN /\ (e.ok => e.cred.euid = ROOT)
  <2>1. /\ e.cred \in Credentials /\ e.ok \in BOOLEAN
        /\ e.ok => e.cred = [c EXCEPT !.euid = ROOT]
    BY Identities, EffectiveUser
  <2>2. [c EXCEPT !.euid = ROOT].euid = ROOT
    BY SMT DEF Credentials
  <2>3. QED
    BY <2>1, <2>2
<1>5. /\ g.cred \in Credentials /\ g.ok \in BOOLEAN
      /\ g.ok => /\ g.cred.euid = ROOT
                 /\ g.cred.rgid = GAWAKE /\ g.cred.egid = GAWAKE /\ g.cred.sgid = GAWAKE
  <2>1. CASE e.ok
    <3> DEFINE d == [e.cred EXCEPT !.rgid = GAWAKE, !.egid = GAWAKE, !.sgid = GAWAKE]
    <3>1. g \in setgid(e.cred, GAWAKE, refuses)
      BY <1>3, <2>1
    <3>2. /\ g.cred \in Credentials /\ g.ok \in BOOLEAN
          /\ g.ok => g.cred = d
      BY <1>4, <2>1, <3>1, Identities, EveryGroup
    <3>3. d.rgid = GAWAKE /\ d.egid = GAWAKE /\ d.sgid = GAWAKE /\ d.euid = e.cred.euid
      <4>1. e.cred \in Credentials
        BY <1>4
      <4>2. QED
        BY <4>1, Replaced, Identities
    <3> HIDE DEF d
    <3>4. QED
      BY <1>4, <2>1, <3>2, <3>3
  <2>2. CASE ~ e.ok
    BY <1>3, <1>4, <2>2
  <2>3. QED
    BY <1>4, <2>1, <2>2
<1>6. u.cred \in Credentials /\ u.ok \in BOOLEAN /\ (u.ok => u.cred = Only(GAWAKE))
  <2>1. CASE g.ok
    <3> DEFINE d == [g.cred EXCEPT !.ruid = GAWAKE, !.euid = GAWAKE, !.suid = GAWAKE]
    <3>1. u \in setuid(g.cred, GAWAKE, refuses)
      BY <1>2, <2>1
    <3>2. /\ u.cred \in Credentials /\ u.ok \in BOOLEAN
          /\ u.ok => u.cred = d
      <4>1. g.cred \in Credentials /\ g.cred.euid = ROOT
        BY <1>5, <2>1
      <4>2. QED
        BY <3>1, <4>1, Identities, EveryUser
    <3>3. /\ d \in Credentials /\ d.ruid = GAWAKE /\ d.euid = GAWAKE /\ d.suid = GAWAKE
          /\ d.rgid = g.cred.rgid /\ d.egid = g.cred.egid /\ d.sgid = g.cred.sgid
      <4>1. g.cred \in Credentials
        BY <1>5
      <4>2. QED
        BY <4>1, Identities, Replaced
    <3> HIDE DEF d
    <3>4. d = Only(GAWAKE)
      BY <1>5, <2>1, <3>3, OnlyGawake
    <3>5. QED
      BY <3>2, <3>4
  <2>2. CASE ~ g.ok
    BY <1>2, <1>5, <2>2
  <2>3. QED
    BY <1>5, <2>1, <2>2
<1>7. CASE u.ok
  <2>1. PICK x \in setuid(u.cred, ROOT, refuses) : r = [cred |-> x.cred, ok |-> ~ x.ok]
    BY <1>1, <1>7 DEF RegainsNothing
  <2>2. ~ CanBecome(Only(GAWAKE), ROOT)
    BY Identities DEF CanBecome, Only
  <2>3. /\ x.ok \in BOOLEAN /\ (~ x.ok => x.cred = u.cred)
        /\ x.ok => CanBecome(u.cred, ROOT)
    <3>1. u.cred \in Credentials
      BY <1>6
    <3>2. x \in setuid(u.cred, ROOT, refuses)
      BY <2>1
    <3>3. ROOT \in Ids
      BY Identities
    <3>4. QED
      BY <3>1, <3>2, <3>3, RefusedUser
  <2>4. QED
    BY <1>6, <1>7, <2>1, <2>2, <2>3
<1>8. CASE ~ u.ok
  BY <1>1, <1>6, <1>8
<1>9. QED
  BY <1>6, <1>7, <1>8

-----------------------------------------------------------------------------
(* The invariant.                                                          *)

\* Who has root, by the step of each process.
CredentialsOK ==
  /\ parent.pc = "start" => parent.cred = Only(ROOT)
  /\ parent.pc \in {"fork", "wait", "read", "validate", "obey"} => parent.cred = Lowered
  /\ parent.pc \in {"start", "fork"} => child.pc = "none"
  /\ child.pc = "drop" => child.cred = Lowered
  /\ child.pc \in {"scheduler", "succeeded", "killed"} => child.cred = Only(GAWAKE)

GawakedInv == GawakedTypeOK /\ CredentialsOK

LEMMA ArgsAreTyped == ASSUME TypeOK PROVE rtcwake_args \in RtcwakeArgs
  BY DEF TypeOK, SharedOK, RtcwakeArgs

LEMMA SchedulerStays ==
  ASSUME TypeOK, UNCHANGED vars
  PROVE  TypeOK'
  BY NextType

LEMMA AwakeType == Awake \in [power : Modes \cup {"on", "shutdown"}, alarm : Times]
  BY SMT DEF Awake, Times

LEMMA GawakedInitInv == ASSUME GawakedInit PROVE GawakedInv
<1>1. TypeOK /\ rtcwake_args \in RtcwakeArgs
  BY InitType, ArgsAreTyped DEF GawakedInit
<1>2. pipe \in Seq(RtcwakeArgs) /\ Len(pipe) <= 1
  BY EmptySeq, SMT DEF GawakedInit
<1>3. GawakedTypeOK
  BY <1>1, <1>2, AwakeType, CredentialsType DEF GawakedInit, GawakedTypeOK, ParentSteps, ChildSteps
<1>4. CredentialsOK
  BY DEF GawakedInit, CredentialsOK
<1>5. QED
  BY <1>3, <1>4 DEF GawakedInv

\* The parts of the type that a step changes.
LEMMA ParentMovesType ==
  ASSUME GawakedInv, NEW from, NEW to \in ParentSteps, NEW cred \in Credentials,
         ParentMoves(from, to, cred)
  PROVE  /\ parent' \in [pc : ParentSteps, cred : Credentials, args : RtcwakeArgs]
         /\ parent.pc = from /\ parent'.pc = to /\ parent'.cred = cred /\ parent'.args = parent.args
<1>1. parent \in [pc : ParentSteps, cred : Credentials, args : RtcwakeArgs]
  BY DEF GawakedInv, GawakedTypeOK
<1> DEFINE p == [parent EXCEPT !.pc = to]
<1>2. /\ p \in [pc : ParentSteps, cred : Credentials, args : RtcwakeArgs]
      /\ p.pc = to /\ p.args = parent.args
  BY <1>1, SMT
<1>3. parent' = [p EXCEPT !.cred = cred] /\ parent.pc = from
  BY DEF ParentMoves
<1> HIDE DEF p
<1>4. QED
  BY <1>2, <1>3, SMT

\* A step of the parent that only moves it.
LEMMA ParentType ==
  ASSUME GawakedInv, UNCHANGED vars,
         parent' \in [pc : ParentSteps, cred : Credentials, args : RtcwakeArgs],
         child' \in [pc : ChildSteps, cred : Credentials],
         pipe' \in Seq(RtcwakeArgs), Len(pipe') <= 1,
         sent' \in RtcwakeArgs \cup {Awake},
         machine' \in [power : Modes \cup {"on", "shutdown"}, alarm : Times]
  PROVE  GawakedTypeOK'
  BY SchedulerStays DEF GawakedInv, GawakedTypeOK

LEMMA Stays ==
  ASSUME GawakedInv
  PROVE  /\ parent \in [pc : ParentSteps, cred : Credentials, args : RtcwakeArgs]
         /\ child \in [pc : ChildSteps, cred : Credentials]
         /\ pipe \in Seq(RtcwakeArgs) /\ Len(pipe) <= 1
         /\ sent \in RtcwakeArgs \cup {Awake}
         /\ machine \in [power : Modes \cup {"on", "shutdown"}, alarm : Times]
         /\ TypeOK
  BY DEF GawakedInv, GawakedTypeOK

LEMMA ParentDropInv ==
  ASSUME GawakedInv, ParentDrop
  PROVE  GawakedInv'
<1>1. parent.pc = "start" /\ parent.cred = Only(ROOT) /\ child.pc = "none"
  BY DEF ParentDrop, ParentMoves, GawakedInv, CredentialsOK
<1>2. PICK r \in drop_privileges(Only(ROOT), Refuses) : ParentMoves("start", AfterDrop(r), r.cred)
  BY <1>1 DEF ParentDrop
<1>3. r.cred \in Credentials /\ r.ok \in BOOLEAN /\ (r.ok => r.cred = Lowered)
  BY Drops
<1>4. /\ AfterDrop(r) \in ParentSteps /\ AfterDrop(r) \in {"fork", "exited"}
      /\ AfterDrop(r) = "fork" => r.cred = Lowered
  BY <1>3 DEF AfterDrop, ParentSteps
<1>5. UNCHANGED <<child, pipe, sent, machine, vars>>
  BY DEF ParentDrop
<1>6. GawakedTypeOK' /\ parent'.pc = AfterDrop(r) /\ parent'.cred = r.cred
  BY <1>2, <1>3, <1>4, <1>5, ParentMovesType, Stays, ParentType
<1>7. CredentialsOK'
  BY <1>1, <1>4, <1>5, <1>6 DEF CredentialsOK
<1>8. QED
  BY <1>6, <1>7 DEF GawakedInv

LEMMA ParentForkInv ==
  ASSUME GawakedInv, ParentFork
  PROVE  GawakedInv'
<1>1. parent.pc = "fork" /\ parent.cred = Lowered
  BY DEF ParentFork, ParentMoves, GawakedInv, CredentialsOK
<1>2. /\ ParentMoves("fork", "wait", Lowered) /\ UNCHANGED <<pipe, sent, machine, vars>>
      /\ child' = [pc |-> "drop", cred |-> Lowered]
  BY <1>1 DEF ParentFork
<1>3. "wait" \in ParentSteps /\ "drop" \in ChildSteps
  BY DEF ParentSteps, ChildSteps
<1>4. child' \in [pc : ChildSteps, cred : Credentials]
  BY <1>2, <1>3, CredentialsType
<1>5. GawakedTypeOK' /\ parent'.pc = "wait" /\ parent'.cred = Lowered
  BY <1>2, <1>3, <1>4, CredentialsType, ParentMovesType, Stays, ParentType
<1>6. CredentialsOK'
  BY <1>2, <1>5 DEF CredentialsOK
<1>7. QED
  BY <1>5, <1>6 DEF GawakedInv

\* The steps of the parent that keep its credentials.
LEMMA ParentKeepsInv ==
  ASSUME GawakedInv, NEW from \in {"start", "fork", "wait", "read", "validate", "obey", "rtcwake"},
         NEW to \in {"read", "obey", "resumed", "exited"},
         ParentMoves(from, to, parent.cred), UNCHANGED <<child, vars>>,
         from \in {"start", "fork"} => to = "exited",
         to = "resumed" <=> from = "rtcwake",
         pipe' \in Seq(RtcwakeArgs), Len(pipe') <= 1,
         sent' \in RtcwakeArgs \cup {Awake},
         machine' \in [power : Modes \cup {"on", "shutdown"}, alarm : Times]
  PROVE  GawakedInv'
<1>1. to \in ParentSteps /\ parent.cred \in Credentials
  BY Stays DEF ParentSteps
<1>2. GawakedTypeOK' /\ parent.pc = from /\ parent'.pc = to /\ parent'.cred = parent.cred
  BY <1>1, ParentMovesType, Stays, ParentType
<1>3. CredentialsOK'
  BY <1>2 DEF GawakedInv, CredentialsOK
<1>4. QED
  BY <1>2, <1>3 DEF GawakedInv

LEMMA ParentReadInv ==
  ASSUME GawakedInv, ParentRead
  PROVE  /\ GawakedInv'
         /\ parent'.pc = "validate"
         /\ parent'.args = IF pipe = <<>> THEN parent.args ELSE Head(pipe)
<1> DEFINE args == IF pipe = <<>> THEN parent.args ELSE Head(pipe)
           p    == [parent EXCEPT !.pc = "validate"]
<1>1. args \in RtcwakeArgs
  BY Stays DEF GawakedInv, GawakedTypeOK
<1>2. /\ p \in [pc : ParentSteps, cred : Credentials, args : RtcwakeArgs]
      /\ p.pc = "validate" /\ p.cred = parent.cred
  BY Stays, SMT DEF ParentSteps
<1>3. /\ parent' = [p EXCEPT !.args = args] /\ parent.pc = "read" /\ pipe' = <<>>
      /\ UNCHANGED <<child, sent, machine, vars>>
  BY DEF ParentRead
<1> HIDE DEF p, args
<1>4. /\ parent' \in [pc : ParentSteps, cred : Credentials, args : RtcwakeArgs]
      /\ parent'.pc = "validate" /\ parent'.cred = parent.cred /\ parent'.args = args
  BY <1>1, <1>2, <1>3, SMT
<1>5. pipe' \in Seq(RtcwakeArgs) /\ Len(pipe') <= 1
  BY <1>3, EmptySeq, SMT
<1>6. GawakedTypeOK'
  BY <1>3, <1>4, <1>5, Stays, ParentType
<1>7. CredentialsOK'
  BY <1>3, <1>4 DEF GawakedInv, CredentialsOK
<1>8. QED
  BY <1>4, <1>6, <1>7 DEF GawakedInv, args

LEMMA ModeNames ==
  ASSUME NEW mode \in Modes \cup {NO}, ModeNumber(mode) < Len(MODE)
  PROVE  MODE[ModeNumber(mode) + 1] = mode /\ mode \in Modes
<1>1. Len(MODE) = 4 /\ MODE[1] = "mem" /\ MODE[2] = "disk" /\ MODE[3] = "off"
  BY DEF MODE
<1>2. /\ ModeNumber("mem") = 0 /\ ModeNumber("disk") = 1 /\ ModeNumber("off") = 2
      /\ ModeNumber(NO) = 4
  BY SMT DEF ModeNumber, NO
<1>3. QED
  BY <1>1, <1>2, SMT DEF Modes

LEMMA MachineType ==
  ASSUME GawakedInv
  PROVE  /\ [machine EXCEPT !.power = "shutdown"]
               \in [power : Modes \cup {"on", "shutdown"}, alarm : Times]
         /\ rtcwake(parent.args, parent.cred)
               \in [power : Modes \cup {"on", "shutdown"}, alarm : Times]
<1>1. /\ machine \in [power : Modes \cup {"on", "shutdown"}, alarm : Times]
      /\ parent.args \in RtcwakeArgs
  BY Stays
<1>2. [machine EXCEPT !.power = "shutdown"]
        \in [power : Modes \cup {"on", "shutdown"}, alarm : Times]
  BY <1>1, SMT
<1>3. rtcwake(parent.args, parent.cred) \in [power : Modes \cup {"on", "shutdown"}, alarm : Times]
  BY <1>1, ModeNames DEF rtcwake, RtcwakeArgs
<1>4. QED
  BY <1>2, <1>3

\* rtcwake puts the computer to sleep as it is told to, or does nothing.
LEMMA RtcwakeSleeps ==
  ASSUME GawakedInv
  PROVE  rtcwake(parent.args, parent.cred)
           \in {machine, [power |-> parent.args.mode, alarm |-> parent.args.wake]}
  BY ModeNames, Stays DEF rtcwake, RtcwakeArgs

\* The steps of the parent that change its credentials, after which it only ends.
LEMMA ParentChangesInv ==
  ASSUME GawakedInv, NEW from \in {"obey", "resumed"}, NEW to \in {"rtcwake", "exited"},
         NEW cred \in Credentials, ParentMoves(from, to, cred),
         UNCHANGED <<child, pipe, sent, machine, vars>>
  PROVE  GawakedInv'
<1>1. to \in ParentSteps
  BY DEF ParentSteps
<1>2. GawakedTypeOK' /\ parent'.pc = to
  BY <1>1, ParentMovesType, Stays, ParentType
<1>3. CredentialsOK'
  BY <1>2 DEF GawakedInv, CredentialsOK
<1>4. QED
  BY <1>2, <1>3 DEF GawakedInv

LEMMA ParentRaiseInv ==
  ASSUME GawakedInv, ParentRaise
  PROVE  GawakedInv'
<1>1. UNCHANGED <<child, pipe, sent, machine, vars>>
  BY DEF ParentRaise
<1>2. CASE ParentMoves("obey", "exited", parent.cred)
  BY <1>1, <1>2, Stays, ParentKeepsInv
<1>3. ASSUME NEW r \in raise_privileges(parent.cred, Refuses),
             ParentMoves("obey", "rtcwake", r.cred)
      PROVE  GawakedInv'
  <2>1. r.cred \in Credentials
    BY Stays, Raises
  <2>2. QED
    BY <1>1, <1>3, <2>1, ParentChangesInv
<1>4. QED
  BY <1>2, <1>3 DEF ParentRaise

LEMMA ParentResumesInv ==
  ASSUME GawakedInv, ParentResumes
  PROVE  GawakedInv'
<1>1. PICK r \in drop_privileges_permanently(parent.cred, Refuses) :
        ParentMoves("resumed", "exited", r.cred)
  BY DEF ParentResumes
<1>2. r.cred \in Credentials
  BY Stays, DropsForGood
<1>3. UNCHANGED <<child, pipe, sent, machine, vars>>
  BY DEF ParentResumes
<1>4. QED
  BY <1>1, <1>2, <1>3, ParentChangesInv

LEMMA ParentInv ==
  ASSUME GawakedInv, Parent
  PROVE  GawakedInv'
<1>1. CASE ParentFails
  <2>1. PICK from \in {"start", "fork", "read", "obey"} : ParentMoves(from, "exited", parent.cred)
    BY <1>1 DEF ParentFails
  <2>2. QED
    BY <1>1, <2>1, Stays, ParentKeepsInv DEF ParentFails
<1>2. CASE ParentWait
  BY <1>2, Stays, ParentKeepsInv DEF ParentWait
<1>3. CASE ParentValidate
  BY <1>3, Stays, ParentKeepsInv DEF ParentValidate
<1>4. CASE ParentShutdown
  BY <1>4, Stays, MachineType, ParentKeepsInv DEF ParentShutdown
<1>5. CASE ParentRtcwake
  BY <1>5, Stays, MachineType, ParentKeepsInv DEF ParentRtcwake
<1>6. QED
  BY <1>1, <1>2, <1>3, <1>4, <1>5, ParentDropInv, ParentForkInv, ParentReadInv, ParentRaiseInv,
     ParentResumesInv DEF Parent

\* The child, which is gawake before it comes to its last steps.
LEMMA ChildKeepsInv ==
  ASSUME GawakedInv, NEW to \in {"succeeded", "failed", "killed"},
         child.pc = "scheduler", child' = [child EXCEPT !.pc = to],
         UNCHANGED <<parent, machine, vars>>,
         pipe' \in Seq(RtcwakeArgs), Len(pipe') <= 1,
         sent' \in RtcwakeArgs \cup {Awake}
  PROVE  GawakedInv'
<1>1. /\ child' \in [pc : ChildSteps, cred : Credentials]
      /\ child'.pc = to /\ child'.cred = child.cred
  BY Stays, SMT DEF ChildSteps
<1>2. GawakedTypeOK'
  BY <1>1, Stays, ParentType
<1>3. CredentialsOK'
  BY <1>1 DEF GawakedInv, CredentialsOK
<1>4. QED
  BY <1>2, <1>3 DEF GawakedInv

LEMMA ChildDropInv ==
  ASSUME GawakedInv, ChildDrop
  PROVE  GawakedInv'
<1>1. child.pc = "drop" /\ UNCHANGED <<parent, pipe, sent, machine, vars>>
  BY DEF ChildDrop
<1>2. PICK r \in drop_privileges_permanently(child.cred, Refuses) :
        child' = [pc |-> IF Passes(r) THEN "scheduler" ELSE "failed", cred |-> r.cred]
  BY DEF ChildDrop
<1>3. r.cred \in Credentials /\ (Passes(r) => r.cred = Only(GAWAKE))
  BY Stays, DropsForGood DEF Passes
<1>4. /\ child' \in [pc : ChildSteps, cred : Credentials]
      /\ child'.pc \in {"scheduler", "failed"}
      /\ child'.pc = "scheduler" => child'.cred = Only(GAWAKE)
  BY <1>2, <1>3 DEF ChildSteps
<1>5. GawakedTypeOK'
  BY <1>1, <1>4, Stays, ParentType
<1>6. CredentialsOK'
  BY <1>1, <1>4 DEF GawakedInv, CredentialsOK
<1>7. QED
  BY <1>5, <1>6 DEF GawakedInv

LEMMA ChildInv ==
  ASSUME GawakedInv, Child
  PROVE  GawakedInv'
<1>2. CASE ChildHandsOver
  <2>1. child.pc = "scheduler" /\ UNCHANGED <<parent, machine, vars>>
    BY <1>2 DEF ChildHandsOver
  <2>2. CASE /\ pipe' = <<rtcwake_args>> /\ sent' = rtcwake_args
             /\ child' = [child EXCEPT !.pc = "succeeded"]
    <3>1. rtcwake_args \in RtcwakeArgs
      BY Stays, ArgsAreTyped
    <3>2. pipe' \in Seq(RtcwakeArgs) /\ Len(pipe') <= 1
      BY <2>2, <3>1, SMT
    <3>3. QED
      BY <2>1, <2>2, <3>1, <3>2, ChildKeepsInv
  <2>3. CASE child' = [child EXCEPT !.pc = "failed"] /\ UNCHANGED <<pipe, sent>>
    BY <2>1, <2>3, Stays, ChildKeepsInv
  <2>4. QED
    BY <1>2, <2>2, <2>3 DEF ChildHandsOver
<1>3. CASE ChildGivesUp
  <2>1. /\ child.pc = "scheduler" /\ UNCHANGED <<parent, pipe, sent, machine, vars>>
        /\ \/ child' = [child EXCEPT !.pc = "succeeded"]
           \/ child' = [child EXCEPT !.pc = "killed"]
    BY <1>3 DEF ChildGivesUp
  <2>2. QED
    BY <2>1, Stays, ChildKeepsInv
<1>4. QED
  BY <1>2, <1>3, ChildDropInv DEF Child

LEMMA GawakedNextInv ==
  ASSUME GawakedInv, [GawakedNext]_<<daemon, vars>>
  PROVE  GawakedInv'
<1>1. CASE UNCHANGED <<daemon, vars>>
  <2>1. GawakedTypeOK'
    BY <1>1, SchedulerStays DEF daemon, GawakedInv, GawakedTypeOK
  <2>2. QED
    BY <1>1, <2>1 DEF daemon, GawakedInv, CredentialsOK
<1>2. CASE ChildScheduler
  <2>1. TypeOK'
    BY <1>2, Stays, NextType DEF ChildScheduler
  <2>2. QED
    BY <1>2, <2>1 DEF ChildScheduler, daemon, GawakedInv, GawakedTypeOK, CredentialsOK
<1>3. QED
  BY <1>1, <1>2, ParentInv, ChildInv DEF GawakedNext, Exited

LEMMA GawakedInvariant == GawakedSpec => []GawakedInv
<1>1. GawakedInit => GawakedInv
  BY GawakedInitInv
<1>2. GawakedInv /\ [GawakedNext]_<<daemon, vars>> => GawakedInv'
  BY GawakedNextInv
<1>3. QED
  BY <1>1, <1>2, PTL DEF GawakedSpec

\* The two processes, the pipe and the computer stay in their types, and so does
\* the scheduler inside of the child: at most one order is ever in the pipe.
THEOREM GawakedTypeCorrect == GawakedSpec => []GawakedTypeOK
<1>1. GawakedInv => GawakedTypeOK
  BY DEF GawakedInv
<1>2. QED
  BY <1>1, GawakedInvariant, PTL

\* main.c:70-76, privileges.c:68-98: whatever credentials the parent leaves to it
\* and whichever of the calls of set*id () the kernel refuses, a child that goes on
\* to scheduler () has no identity of root left.
THEOREM ChildHasNoRoot == GawakedSpec => []ChildIsUnprivileged
<1>1. GawakedInv => ChildIsUnprivileged
  BY DEF GawakedInv, CredentialsOK, ChildIsUnprivileged
<1>2. QED
  BY <1>1, GawakedInvariant, PTL

\* main.c:38, :223: whichever call is refused, the parent's effective user is root
\* at no step at which it has a child or handles what the child sent.
THEOREM ParentIsRootForRtcwake == GawakedSpec => []RootOnlyForRtcwake
<1>1. GawakedInv => RootOnlyForRtcwake
  <2> SUFFICES ASSUME GawakedInv, parent.cred.euid = ROOT,
                      parent.pc \notin {"start", "rtcwake", "resumed", "exited"}
               PROVE  FALSE
    BY DEF RootOnlyForRtcwake
  <2>1. parent.pc \in ParentSteps
    BY Stays
  <2>2. parent.cred = Lowered
    BY <2>1 DEF ParentSteps, GawakedInv, CredentialsOK
  <2>3. QED
    BY <2>2, Identities DEF Lowered
<1>2. QED
  BY <1>1, GawakedInvariant, PTL

-----------------------------------------------------------------------------
(* One order, obeyed once.                                                 *)

\* The parent validates its arguments without asking whether the child has sent
\* any; that what it has on its stack instead is no order is up to the compiler.
NoiseIsNoOrder == \A args \in Uninitialised : ~ Valid(args)

\* Where an order is, from the child's decision to the computer.
OrderOK ==
  /\ parent.pc \in {"start", "fork", "wait", "read"} => ~ Valid(parent.args)
  /\ child.pc # "succeeded" => sent = Awake
  /\ pipe = <<>> \/ pipe = <<sent>>
  /\ child.pc \in {"drop", "scheduler"} => parent.pc = "wait"
  /\ parent.pc \in {"read", "validate", "obey", "rtcwake", "resumed"} => child.pc = "succeeded"
  /\ parent.pc = "validate" /\ Valid(parent.args) => sent = parent.args
  /\ parent.pc \in {"obey", "rtcwake", "resumed"} => sent = parent.args
  /\ parent.pc = "rtcwake" => ~ parent.args.run_shutdown
  /\ parent.pc \notin {"resumed", "exited"} => machine = Awake

LEMMA OrdersAreNotAwake ==
  ASSUME NEW args \in RtcwakeArgs
  PROVE  args # Awake
<1>1. "found" \in DOMAIN args /\ "found" \notin DOMAIN Awake
  BY DEF RtcwakeArgs, Awake
<1>2. QED
  BY <1>1

LEMMA OrderInit ==
  ASSUME NoiseIsNoOrder, GawakedInit
  PROVE  OrderOK
<1>1. PICK args \in Uninitialised :
        rtcwake_args \in [found : {FALSE}, shutdown_fail : BOOLEAN, run_shutdown : BOOLEAN,
                          wake : {args.wake}, mode : {args.mode}]
  BY DEF GawakedInit, Init
<1>2. rtcwake_args.wake = args.wake /\ rtcwake_args.mode = args.mode
  BY <1>1
<1>3. ~ Valid(rtcwake_args)
  BY <1>2 DEF NoiseIsNoOrder, Valid
<1>4. QED
  BY <1>3 DEF GawakedInit, OrderOK

\* What a step of the parent leaves of its arguments.
LEMMA MovesArgs ==
  ASSUME GawakedInv, NEW from, NEW to, NEW cred, ParentMoves(from, to, cred)
  PROVE  parent.pc = from /\ parent'.pc = to /\ parent'.args = parent.args
<1> DEFINE p == [parent EXCEPT !.pc = to]
<1>1. p.pc = to /\ p.args = parent.args /\ parent.pc = from /\ DOMAIN p = {"pc", "cred", "args"}
  BY Stays DEF ParentMoves
<1>2. parent' = [p EXCEPT !.cred = cred]
  BY DEF ParentMoves
<1> HIDE DEF p
<1>3. QED
  BY <1>1, <1>2

LEMMA OrderParent ==
  ASSUME GawakedInv, OrderOK, Parent
  PROVE  OrderOK' /\ [Promise!Next]_<<sent, machine>>
<1> USE DEF OrderOK
<1>1. CASE ParentDrop \/ ParentFork
  <2>1. /\ parent.pc \in {"start", "fork"} /\ parent'.pc \in {"fork", "wait", "exited"}
        /\ parent'.args = parent.args /\ child.pc = "none"
    BY <1>1, MovesArgs DEF ParentDrop, ParentFork, AfterDrop, GawakedInv, CredentialsOK
  <2>2. /\ UNCHANGED <<pipe, sent, machine>> /\ child'.pc \in {"none", "drop"}
        /\ child'.pc = "drop" => parent'.pc = "wait"
    BY <1>1, <2>1, MovesArgs DEF ParentDrop, ParentFork
  <2>3. QED
    BY <2>1, <2>2
<1>2. CASE ParentFails
  <2>1. PICK from \in {"start", "fork", "read", "obey"} : ParentMoves(from, "exited", parent.cred)
    BY <1>2 DEF ParentFails
  <2>2. parent.pc = from /\ parent'.pc = "exited" /\ UNCHANGED <<child, pipe, sent, machine>>
    BY <1>2, <2>1, MovesArgs DEF ParentFails
  <2>3. child.pc \notin {"drop", "scheduler"}
    BY <2>2
  <2>4. QED
    BY <2>2, <2>3
<1>3. CASE ParentWait
  <2>1. /\ parent.pc = "wait" /\ parent'.pc \in {"read", "exited"} /\ parent'.args = parent.args
        /\ child.pc \in {"succeeded", "failed", "killed"}
        /\ parent'.pc = "read" => child.pc = "succeeded"
        /\ UNCHANGED <<child, pipe, sent, machine>>
    BY <1>3, MovesArgs DEF ParentWait
  <2>2. QED
    BY <2>1
<1>4. CASE ParentRead
  <2>1. /\ parent.pc = "read" /\ parent'.pc = "validate" /\ pipe' = <<>>
        /\ parent'.args = IF pipe = <<>> THEN parent.args ELSE Head(pipe)
        /\ UNCHANGED <<child, sent, machine>>
    BY <1>4, ParentReadInv DEF ParentRead
  <2>2. Head(<<sent>>) = sent
    OBVIOUS
  <2>3. QED
    BY <2>1, <2>2
<1>5. CASE ParentValidate
  <2>1. /\ parent.pc = "validate" /\ parent'.args = parent.args
        /\ parent'.pc = IF Valid(parent.args) THEN "obey" ELSE "exited"
        /\ UNCHANGED <<child, pipe, sent, machine>>
    BY <1>5, MovesArgs DEF ParentValidate
  <2>2. QED
    BY <2>1
<1>6. CASE ParentShutdown
  <2>1. /\ parent.pc = "obey" /\ parent'.pc = "exited" /\ ShutsDown(parent.args)
        /\ machine' = [machine EXCEPT !.power = "shutdown"] /\ UNCHANGED <<child, pipe, sent>>
    BY <1>6, MovesArgs DEF ParentShutdown
  <2>2. sent = parent.args /\ sent # Awake /\ machine = Awake
    BY <2>1, Stays, OrdersAreNotAwake
  <2>3. machine' = [power |-> "shutdown", alarm |-> Awake.alarm]
    BY <2>1, <2>2 DEF Awake
  <2>4. Promise!Obey
    BY <2>1, <2>2, <2>3 DEF Promise!Obey, Promise!Effect, ShutsDown
  <2>5. QED
    BY <2>1, <2>4 DEF Promise!Next
<1>7. CASE ParentRaise
  <2>1. /\ parent.pc = "obey" /\ parent'.pc \in {"rtcwake", "exited"} /\ parent'.args = parent.args
        /\ ~ parent.args.run_shutdown /\ UNCHANGED <<child, pipe, sent, machine>>
    BY <1>7, MovesArgs DEF ParentRaise, ShutsDown
  <2>2. QED
    BY <2>1
<1>8. CASE ParentRtcwake
  <2>1. /\ parent.pc = "rtcwake" /\ parent'.pc = "resumed" /\ parent'.args = parent.args
        /\ machine' = rtcwake(parent.args, parent.cred) /\ UNCHANGED <<child, pipe, sent>>
    BY <1>8, MovesArgs DEF ParentRtcwake
  <2>2. sent = parent.args /\ sent # Awake /\ machine = Awake /\ ~ sent.run_shutdown
    BY <2>1, Stays, OrdersAreNotAwake
  <2>3. machine' \in {machine, [power |-> sent.mode, alarm |-> sent.wake]}
    BY <2>1, <2>2, RtcwakeSleeps
  <2>4. Promise!Obey \/ UNCHANGED <<sent, machine>>
    BY <2>1, <2>2, <2>3 DEF Promise!Obey, Promise!Effect
  <2>5. QED
    BY <2>1, <2>2, <2>4 DEF Promise!Next
<1>9. CASE ParentResumes
  <2>1. /\ parent.pc = "resumed" /\ parent'.pc = "exited"
        /\ UNCHANGED <<child, pipe, sent, machine>>
    BY <1>9, MovesArgs DEF ParentResumes
  <2>2. QED
    BY <2>1
<1>10. QED
  BY <1>1, <1>2, <1>3, <1>4, <1>5, <1>6, <1>7, <1>8, <1>9 DEF Parent

LEMMA OrderChild ==
  ASSUME GawakedInv, OrderOK, Child
  PROVE  OrderOK' /\ [Promise!Next]_<<sent, machine>>
<1> USE DEF OrderOK
<1>1. CASE ChildDrop
  <2>1. /\ child.pc = "drop" /\ child'.pc \in {"scheduler", "failed"}
        /\ UNCHANGED <<parent, pipe, sent, machine>>
    BY <1>1 DEF ChildDrop
  <2>2. QED
    BY <2>1
<1>2. CASE ChildHandsOver
  <2>1. /\ child.pc = "scheduler" /\ parent.pc = "wait" /\ sent = Awake
        /\ UNCHANGED <<parent, machine>>
    BY <1>2 DEF ChildHandsOver
  <2>2. CASE /\ pipe' = <<rtcwake_args>> /\ sent' = rtcwake_args
             /\ child' = [child EXCEPT !.pc = "succeeded"]
    <3>1. child'.pc = "succeeded" /\ rtcwake_args \in RtcwakeArgs
      BY <2>2, Stays, ArgsAreTyped
    <3>2. Promise!Decide
      BY <2>1, <2>2, <3>1 DEF Promise!Decide
    <3>3. QED
      BY <2>1, <2>2, <3>1, <3>2 DEF Promise!Next
  <2>3. CASE child' = [child EXCEPT !.pc = "failed"] /\ UNCHANGED <<pipe, sent>>
    <3>1. child'.pc = "failed"
      BY <2>3, Stays
    <3>2. QED
      BY <2>1, <2>3, <3>1
  <2>4. QED
    BY <1>2, <2>2, <2>3 DEF ChildHandsOver
<1>3. CASE ChildGivesUp
  <2>1. /\ child.pc = "scheduler" /\ child'.pc \in {"succeeded", "killed"}
        /\ UNCHANGED <<parent, pipe, sent, machine>>
    BY <1>3, Stays DEF ChildGivesUp
  <2>2. parent.pc = "wait"
    BY <2>1
  <2>3. QED
    BY <2>1, <2>2
<1>4. QED
  BY <1>1, <1>2, <1>3 DEF Child

LEMMA StepOrder ==
  ASSUME GawakedInv, OrderOK, [GawakedNext]_<<daemon, vars>>
  PROVE  OrderOK' /\ [Promise!Next]_<<sent, machine>>
<1>1. CASE UNCHANGED daemon
  BY <1>1 DEF daemon, OrderOK
<1>2. QED
  BY <1>1, OrderParent, OrderChild DEF GawakedNext, ChildScheduler, Exited

\* gawaked implements its promise (SleepOnce): at most one order is given, and
\* the computer is put, once, to exactly what was ordered; if the uninitialised
\* arguments of main.c:107 hold no valid order.
THEOREM GawakedKeepsThePromise ==
  ASSUME NoiseIsNoOrder
  PROVE  GawakedSpec => KeepsThePromise
<1>1. GawakedInit => OrderOK /\ Promise!Init
  <2>1. GawakedInit => Promise!Init
    BY DEF GawakedInit, Promise!Init
  <2>2. QED
    BY <2>1, OrderInit
<1>2. GawakedInv /\ OrderOK /\ [GawakedNext]_<<daemon, vars>>
        => OrderOK' /\ [Promise!Next]_<<sent, machine>>
  BY StepOrder
<1>3. QED
  BY <1>1, <1>2, GawakedInvariant, PTL DEF GawakedSpec, KeepsThePromise, Promise!Spec

-----------------------------------------------------------------------------
(* From the rules to the alarm.                                            *)

\* A wake up that is still ahead is the first one, whether or not a query has
\* looked for another one, and not found it, since.
WakeAhead ==
  rtcwake_args.wake > now =>
    /\ Occurs(db.turnon, rtcwake_args.wake)
    /\ \A t \in (now + 1)..(rtcwake_args.wake - 1) : ~ Occurs(db.turnon, t)

LEMMA InitWakeAhead ==
  ASSUME NoiseIsNoOrder, Init
  PROVE  WakeAhead
<1>1. PICK args \in Uninitialised :
        rtcwake_args \in [found : {FALSE}, shutdown_fail : BOOLEAN, run_shutdown : BOOLEAN,
                          wake : {args.wake}, mode : {args.mode}]
  BY DEF Init
<1>2. args.wake = NoTime
  BY SchedulerAssumption DEF NoiseIsNoOrder, Valid
<1>3. rtcwake_args.wake = -1 /\ now \in Nat
  BY <1>1, <1>2, SchedulerAssumption DEF Init, NoTime
<1> QED
  BY <1>3 DEF WakeAhead

LEMMA StepWakeAhead ==
  ASSUME MaxEdits = 0, InOrder, OnQuery, NoCustom, WakeAhead, [Next]_vars
  PROVE  WakeAhead'
<1>t. TypeOK /\ Labels /\ edits = 0 /\ now \in Nat /\ rtcwake_args.wake \in Int
  BY DEF InOrder, TypeOK, WorldOK, SharedOK, Times, NoTime
<1>1. ASSUME NEW a \in Actors, Query(a) PROVE WakeAhead'
  <2>1. UNCHANGED <<now, db>> /\ query[a] \notin CustomSteps
    BY <1>t, <1>1, QueryFrame DEF NoCustom
  <2>2. CASE rtcwake_args'.wake = rtcwake_args.wake
    BY <2>1, <2>2 DEF WakeAhead
  <2>3. CASE (OnToday(a) \/ OnLater(a)) /\ query'[a] = "on_validate"
    <3>1. IsNextOccurrence(db.turnon, now, rtcwake_args'.wake)
      BY <1>t, <2>3, OnFinds
    <3> QED
      BY <2>1, <3>1 DEF WakeAhead, IsNextOccurrence
  <2> QED
    BY <1>t, <1>1, <2>1, <2>2, <2>3, WakeSteps
<1>2. CASE \A a \in Actors : ~ Query(a)
  <2>1. rtcwake_args'.wake = rtcwake_args.wake /\ UNCHANGED db /\ now' \in {now, now + 1}
    BY <1>t, <1>2, WakeFrame DEF EditDatabase
  <2>2. (now' + 1)..(rtcwake_args.wake - 1) \subseteq (now + 1)..(rtcwake_args.wake - 1)
    BY <1>t, <2>1
  <2>3. rtcwake_args'.wake > now' => rtcwake_args.wake > now
    BY <1>t, <2>1
  <2> QED
    BY <2>1, <2>2, <2>3 DEF WakeAhead
<1> QED
  BY <1>1, <1>2

\* The scheduler in the child is the scheduler: the other steps leave it alone.
LEMMA ChildRunsTheScheduler == GawakedSpec => Spec
<1>1. GawakedInit => Init
  BY DEF GawakedInit
<1>2. [GawakedNext]_<<daemon, vars>> => [Next]_vars
  BY DEF GawakedNext, ChildScheduler, Parent, ParentDrop, ParentFork, ParentFails, ParentWait,
         ParentRead, ParentValidate, ParentShutdown, ParentRaise, ParentRtcwake, ParentResumes,
         Child, ChildDrop, ChildHandsOver, ChildGivesUp, Exited
<1> QED
  BY <1>1, <1>2, PTL DEF GawakedSpec, Spec

\* The order is what the scheduler left; a computer that sleeps does so in the
\* order's mode, and its alarm is the order's, still ahead.
Slept ==
  /\ sent \in {Awake, rtcwake_args}
  /\ machine.power \in Modes =>
       /\ child.pc = "succeeded" /\ machine.power = rtcwake_args.mode
       /\ machine.alarm = rtcwake_args.wake /\ machine.alarm > now

LEMMA InitSlept == GawakedInit => Slept
  BY DEF GawakedInit, Slept, Awake, Modes

LEMMA StepSlept ==
  ASSUME GawakedInv, OrderOK, Slept, [GawakedNext]_<<daemon, vars>>
  PROVE  Slept'
<1>a. Awake.power \notin Modes
  BY DEF Awake, Modes
<1>v. UNCHANGED vars => UNCHANGED <<now, rtcwake_args>>
  BY DEF vars, world, shared
<1>1. CASE ChildScheduler
  <2>1. child.pc = "scheduler" /\ UNCHANGED <<sent, machine>>
    BY <1>1 DEF ChildScheduler, daemon
  <2>2. sent = Awake /\ machine.power \notin Modes
    BY <2>1 DEF OrderOK, Slept
  <2> QED
    BY <2>1, <2>2 DEF Slept
<1>2. CASE Child
  <2>1. /\ child.pc \in {"drop", "scheduler"} /\ UNCHANGED <<machine, vars>>
        /\ sent' \in {sent, rtcwake_args}
    BY <1>2 DEF Child, ChildDrop, ChildHandsOver, ChildGivesUp
  <2> QED
    BY <1>v, <2>1 DEF Slept
<1>3. CASE ParentRtcwake
  <2>1. /\ parent.pc = "rtcwake" /\ machine' = rtcwake(parent.args, parent.cred)
        /\ UNCHANGED <<child, sent, vars>>
    BY <1>3, MovesArgs DEF ParentRtcwake
  <2>2. parent.args = rtcwake_args /\ child.pc = "succeeded" /\ machine = Awake
    BY <2>1, Stays, OrdersAreNotAwake DEF OrderOK, Slept
  <2>3. \/ machine' = machine
        \/ /\ machine'.power = rtcwake_args.mode
           /\ machine'.alarm = rtcwake_args.wake /\ rtcwake_args.wake > now
    BY <2>1, <2>2, RtcwakeSleeps DEF rtcwake
  <2> QED
    BY <1>a, <1>v, <2>1, <2>2, <2>3 DEF Slept
<1>4. CASE ParentShutdown
  <2>1. machine'.power = "shutdown" /\ UNCHANGED <<sent, vars>>
    BY <1>4, Stays DEF ParentShutdown
  <2> QED
    BY <1>v, <2>1 DEF Slept, Modes
<1>5. CASE ParentFork
  <2>1. machine = Awake /\ UNCHANGED <<sent, machine, vars>>
    BY <1>5, MovesArgs DEF ParentFork, OrderOK
  <2> QED
    BY <1>a, <1>v, <2>1 DEF Slept
<1>6. CASE ParentDrop \/ ParentFails \/ ParentWait \/ ParentRead \/ ParentValidate \/ ParentRaise
           \/ ParentResumes \/ Exited \/ UNCHANGED <<daemon, vars>>
  <2>1. UNCHANGED <<child, sent, machine, vars>>
    BY <1>6 DEF ParentDrop, ParentFails, ParentWait, ParentRead, ParentValidate, ParentRaise,
                ParentResumes, Exited, daemon
  <2> QED
    BY <1>v, <2>1 DEF Slept
<1> QED
  BY <1>1, <1>2, <1>3, <1>4, <1>5, <1>6 DEF GawakedNext, Parent

\* End to end: a computer that gawaked has put to sleep is woken by the first turn
\* on rule still ahead, whoever asked for the schedule and whatever failed on the
\* way from the query (scheduler.c:774-857) to rtcwake (main.c:223).
THEOREM FirstRuleWakes ==
  ASSUME Calm, MaxEdits = 0, "custom" \notin SignalKinds, NoiseIsNoOrder
  PROVE  GawakedSpec => []WakesAtFirstRule
<1>1. Init => OnQuery /\ NoCustom /\ WakeAhead
  BY InitOnQuery, InitWakeAhead DEF Init, NoCustom, CustomSteps
<1>2. InOrder /\ (OnQuery /\ NoCustom /\ WakeAhead) /\ [Next]_vars =>
        (OnQuery /\ NoCustom /\ WakeAhead)'
  BY StepOnQuery, StepNoCustom, StepWakeAhead DEF InOrder
<1>3. Spec => []WakeAhead
  BY <1>1, <1>2, InOrderInvariant, PTL DEF Spec
<1>4. GawakedInit => OrderOK /\ Slept
  BY OrderInit, InitSlept
<1>5. GawakedInv /\ (OrderOK /\ Slept) /\ [GawakedNext]_<<daemon, vars>> => (OrderOK /\ Slept)'
  BY StepOrder, StepSlept
<1>6. WakeAhead /\ (OrderOK /\ Slept) => WakesAtFirstRule
  BY DEF WakeAhead, Slept, WakesAtFirstRule
<1> QED
  BY <1>3, <1>4, <1>5, <1>6, ChildRunsTheScheduler, GawakedInvariant, PTL DEF GawakedSpec

\* End to end: a daemon that systemd has stopped does not put the computer to
\* sleep, whatever the checker or a request had left in rtcwake_args (lines
\* 1165-1171 of scheduler.c, main.c:223) and whatever fails on the way, the
\* integrity check of the database apart.
THEOREM StoppedStaysAwake ==
  ASSUME Pace = "quiet", "integrity" \notin Faults, NoiseIsNoOrder
  PROVE  GawakedSpec => []StoppedDoesNotSleep
<1>1. Spec => []("handler" \in decided => rtcwake_args.mode = NO /\ rtcwake_args.wake > now)
  BY SetsTheAlarm
<1>2. GawakedInit => OrderOK /\ Slept
  BY OrderInit, InitSlept
<1>3. GawakedInv /\ (OrderOK /\ Slept) /\ [GawakedNext]_<<daemon, vars>> => (OrderOK /\ Slept)'
  BY StepOrder, StepSlept
<1>4. Slept /\ ("handler" \in decided => rtcwake_args.mode = NO /\ rtcwake_args.wake > now)
        => StoppedDoesNotSleep
  BY DEF Slept, StoppedDoesNotSleep, Modes, NO
<1> QED
  BY <1>1, <1>2, <1>3, <1>4, ChildRunsTheScheduler, GawakedInvariant, PTL DEF GawakedSpec
=============================================================================
