-------------------------- MODULE MCStaffSessions --------------------------
(* Two schools.  The first has two administrators, one of whom teaches in  *)
(* the second school and the other of whom is a platform administrator; a  *)
(* third person is invited to teach.                                       *)
EXTENDS StaffSessions, TLC

CONSTANTS s1, s2, ann, bob, eve, c1, i1, k1, k2, h1, h2, v1, v2, vA, vB, vP

Schools == [t \in {s1, s2} |-> NewTenant("SCHOOL")]
People == [e \in {ann, bob, eve} |-> [NewAccount(e = eve) EXCEPT !.failedLoginCount = IF e = bob THEN 1 ELSE 0]]
Posts == (<<ann, s1, "SCHOOL_ADMIN">> :> "ACTIVE") @@ (<<bob, s1, "SCHOOL_ADMIN">> :> "ACTIVE")
         @@ (<<bob, s2, "TEACHER">> :> "ACTIVE") @@ (<<eve, s1, "TEACHER">> :> "INVITED")
Invited == i1 :> <<eve, s1, "TEACHER">>
ClassHomes == c1 :> s1
Granted == (ann :> {"tenant.create", "tenant.suspend", "school_admin.activate", "independent_educator.activate",
                    "independent_educator.status.manage"}) @@ (bob :> {}) @@ (eve :> {})

\* Sessions opened before: ann and bob as administrators, ann on the platform too.
Login(v, surface, e, m) == [NoSession EXCEPT !.live = TRUE, !.surface = surface, !.account = e, !.member = m,
                                             !.login = v, !.expiresAt = AbsoluteTtl]
Logins == (vA :> Login(vA, "staff", ann, <<ann, s1, "SCHOOL_ADMIN">>))
          @@ (vB :> Login(vB, "staff", bob, <<bob, s1, "SCHOOL_ADMIN">>))
          @@ (vP :> Login(vP, "platform", ann, Null))

Start(calls, visits, signedIn, time, used) ==
    /\ MembersInit(Schools, People, Posts, Invited, calls)
    /\ SessionsInit(visits, [s \in signedIn |-> Logins[s]], {ann}, time, used)

\* Two calls of one person, or of two; a call beside a login; two logins; a full limit.
MCInit ==
    \/ \E s \in {vB, vP} : Start({h1, h2}, {}, {s}, MaxTime, {})
    \/ Start({h1}, {v1}, {vA}, MaxTime, {})
    \/ \E s \in {vA, vP} : Start({}, {v1, v2}, {s}, 0, {})
    \/ \E used \in {{"IP"}, {"EMAIL"}} : Start({}, {v1}, {}, 0, used)

MCSpec == MCInit /\ [][StaffNext]_staffVars

Interchangeable == Permutations(Keys) \union Permutations({v1, v2}) \union Permutations({h1, h2})
=============================================================================
