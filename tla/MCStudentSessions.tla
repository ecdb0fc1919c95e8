------------------------- MODULE MCStudentSessions -------------------------
(* One class with one code, a student enrolled or invited under alias a1,  *)
(* an administrator, and a teacher of no class.                            *)
EXTENDS StudentSessions, TLC

CONSTANTS c1, e1, a1, admin, teacher, h1, h2, v0, v1, v2, v3, k1, k2

StaffRoles == [s \in {admin, teacher} |-> IF s = admin THEN "SCHOOL_ADMIN" ELSE "TEACHER"]
StaffScopes == [s \in {admin, teacher} |-> {}]
SmallLimits == [k \in Kinds |-> 2]

Seed(status) == [NoEnrollment EXCEPT !.status = status, !.class = c1, !.student = e1,
                                     !.alias = a1, !.failedPinCount = 1]
Login == [NoSession EXCEPT !.live = TRUE, !.login = v0, !.enrollment = e1, !.expiresAt = AbsoluteTtl]

Start(status, calls, visits, time, used) ==
    /\ RosterInit([e \in {e1} |-> Seed(status)], calls)
    /\ SessionsInit(visits, [v \in {v0} |-> Login], time, used)

\* The student of e1 is signed in since v0.  Either three requests of students race, or
\* one with a call of the staff, or two calls of the staff do; or one request finds
\* some limits used up.
MCInit ==
    \/ Start("ACTIVE", {}, {v1, v2, v3}, 0, {})
    \/ \E status \in {"INVITED", "ACTIVE"} : Start(status, {h1}, {v1}, 0, {})
    \/ Start("ACTIVE", {h1, h2}, {}, MaxTime, {})
    \/ \E used \in SUBSET Kinds : Start("SUSPENDED", {}, {v1}, 0, used)

Interchangeable == Permutations(Keys) \union Permutations({v1, v2, v3})

MCSpec == MCInit /\ [][Next]_vars
=============================================================================
