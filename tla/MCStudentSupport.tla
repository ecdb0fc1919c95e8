-------------------------- MODULE MCStudentSupport --------------------------
(* One student of one class, and a school with a class teacher, an         *)
(* administrator, and one person who is ASACOM and support teacher at      *)
(* once.  As ASACOM that person supports the student, has proposed         *)
(* something and made an observation; as support teacher it supports the   *)
(* student or does not.                                                    *)
EXTENDS StudentSupport, TLC

CONSTANTS ada, tom, asa, sup, account1, account2, account3, s1, c1, r1, t1, t2, x1, x2, h1, h2, k1, k2

Accounted == (ada :> account1) @@ (tom :> account2) @@ (asa :> account3) @@ (sup :> account3)
Roled == (ada :> "SCHOOL_ADMIN") @@ (tom :> "TEACHER") @@ (asa :> "ASACOM") @@ (sup :> "SUPPORT_TEACHER")
Scoped == (ada :> {}) @@ (tom :> {c1}) @@ (asa :> {}) @@ (sup :> {})
ClassOf == (s1 :> c1)
StudentOf == (t1 :> s1) @@ (t2 :> s1)

Policies(platform, school) ==
    [p \in Places |-> IF p[1] = "PLATFORM" /\ platform # "INHERIT" THEN [NoPolicy EXCEPT !.state = platform, !.version = 1, !.id = x1]
                      ELSE IF p[1] = "SCHOOL" /\ school # "INHERIT" THEN [NoPolicy EXCEPT !.state = school, !.version = 1, !.id = x2]
                      ELSE NoPolicy]

World(body, second) ==
    [support |-> (x1 :> NewSupport(asa, s1)) @@ (x2 :> second),
     proposal |-> (x1 :> NewProposal(account3, body)),
     profile |-> (x1 :> NewProfile(s1, "TOOLS", "PROFILE_LEVEL", Null)),
     observation |-> (x1 :> [NoObservation EXCEPT !.student = s1, !.author = account3])]

Asked(type, category, state) == [NoBody EXCEPT !.student = s1, !.type = type, !.category = category, !.state = state]

MCInit ==
    \/ SupportInit(Policies("UNAVAILABLE_FOR_USE", "INHERIT"), World(Asked("FACILITATION", "TOOLS", Null), NoSupport), Calls)
    \/ SupportInit(Policies("INHERIT", "INHERIT"), World(Asked("DIFFICULTY", Null, Null), NewSupport(sup, s1)), Calls)
    \/ SupportInit(Policies("ENABLED", "DISABLED"), World(Asked("LEARNING_PATH_ADJUSTMENT", Null, "ENABLED"), NoSupport), Calls)

MCSpec == MCInit /\ [][Next]_vars

Interchangeable == Permutations(Keys) \union Permutations(Calls)
=============================================================================
