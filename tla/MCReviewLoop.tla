---------------------------- MODULE MCReviewLoop ----------------------------
(* Two attempts of two classes with an open item each, and an older item   *)
(* that was dismissed; a teacher of the first class and an administrator;  *)
(* a note on the first attempt, still a draft or published.                *)
EXTENDS ReviewLoop, TLC

CONSTANTS tom, ada, a1, a2, i1, i2, i3, n1, c1, c2, b1, b2, h1, h2, k1, k2

RoleOf == (tom :> "TEACHER") @@ (ada :> "SCHOOL_ADMIN")
ScopeOf == (tom :> {c1}) @@ (ada :> {})
ClassOf == (a1 :> c1) @@ (a2 :> c2)
AttemptOf == (i1 :> a1) @@ (i2 :> a2) @@ (i3 :> a1)

Queue == [i \in Items |-> IF i = i3 THEN [NewItem EXCEPT !.status = "DISMISSED", !.reviewer = ada] ELSE NewItem]

MCInit ==
    \E note \in {NewNote(a1, i1), Publish(NewNote(a1, i1))} :
        ReviewInit(Queue, [n \in Notes |-> note], Calls)

MCSpec == MCInit /\ [][Next]_vars

Interchangeable == Permutations(Keys) \union Permutations(Calls)
=============================================================================
