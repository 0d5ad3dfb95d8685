------------------------------- MODULE Privileges -------------------------------
(***************************************************************************)
(* The privileges of a gawaked process (privileges.c).  A process has a    *)
(* real, an effective and a saved user, and the same three groups; the     *)
(* capabilities the service keeps, CAP_SETUID and CAP_SETGID, come and go  *)
(* with an effective user that is root.                                    *)
(*                                                                         *)
(* An operator that stands before the one it varies is a mutant of it.     *)
(***************************************************************************)

ROOT   == "root"
GAWAKE == "gawake"
Ids    == {ROOT, GAWAKE}

Credentials == [ruid : Ids, euid : Ids, suid : Ids, rgid : Ids, egid : Ids, sgid : Ids]

\* Every identity of the process is the same.
Only(id) == [ruid |-> id, euid |-> id, suid |-> id, rgid |-> id, egid |-> id, sgid |-> id]

-----------------------------------------------------------------------------
(* The system calls.  A call leaves credentials and succeeds or does not;  *)
(* with refuses the kernel may refuse what it permits, too (setuid () has  *)
(* such errors).  A refused call changes nothing.                          *)

Done(c)    == [cred |-> c, ok |-> TRUE]
Refused(c) == [cred |-> c, ok |-> FALSE]

Outcomes(permitted, c, d, refuses) ==
  (IF permitted THEN {Done(d)} ELSE {}) \cup (IF permitted /\ ~ refuses THEN {} ELSE {Refused(c)})

CanBecome(c, id) == c.euid = ROOT \/ id \in {c.ruid, c.suid}
CanJoin(c, id)   == c.euid = ROOT \/ id \in {c.rgid, c.sgid}

seteuid(c, id, refuses) == Outcomes(CanBecome(c, id), c, [c EXCEPT !.euid = id], refuses)
setegid(c, id, refuses) == Outcomes(CanJoin(c, id), c, [c EXCEPT !.egid = id], refuses)

setuid(c, id, refuses) ==
  Outcomes(CanBecome(c, id), c,
           IF c.euid = ROOT THEN [c EXCEPT !.ruid = id, !.euid = id, !.suid = id]
           ELSE [c EXCEPT !.euid = id], refuses)

setgid(c, id, refuses) ==
  Outcomes(CanJoin(c, id), c,
           IF c.euid = ROOT THEN [c EXCEPT !.rgid = id, !.egid = id, !.sgid = id]
           ELSE [c EXCEPT !.egid = id], refuses)

-----------------------------------------------------------------------------
(* privileges.c: what each function leaves, and whether it returns         *)
(* EXIT_SUCCESS.  A call after a refused one is not made.                  *)

drop_privileges(c, refuses) ==
  UNION {IF r.ok THEN seteuid(r.cred, GAWAKE, refuses) ELSE {r} : r \in setegid(c, GAWAKE, refuses)}

\* Line 90: root can be regained if setuid (0) succeeds.
RegainsNothing(c, refuses) ==
  {[cred |-> r.cred, ok |-> ~ r.ok] : r \in setuid(c, ROOT, refuses)}

drop_privileges_permanently(c, refuses) ==
  LET regained == seteuid(c, ROOT, refuses)
      group == UNION {IF r.ok THEN setgid(r.cred, GAWAKE, refuses) ELSE {r} : r \in regained}
      user  == UNION {IF r.ok THEN setuid(r.cred, GAWAKE, refuses) ELSE {r} : r \in group}
  IN  UNION {IF r.ok THEN RegainsNothing(r.cred, refuses) ELSE {r} : r \in user}

StayDropped(c, refuses) == {Done(c)}
raise_privileges(c, refuses) ==
  UNION {IF r.ok THEN setegid(r.cred, ROOT, refuses) ELSE {r} : r \in seteuid(c, ROOT, refuses)}

check_user(c) == c.ruid = GAWAKE /\ c.rgid = GAWAKE
=============================================================================
