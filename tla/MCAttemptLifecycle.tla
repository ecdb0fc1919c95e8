------------------------- MODULE MCAttemptLifecycle -------------------------
(***************************************************************************)
(* The instance of AttemptLifecycle for TLC: two attempts of a student at  *)
(* the same assignment, of content without an interactive stage, so that   *)
(* all four handlers apply.                                                *)
(***************************************************************************)
EXTENDS AttemptLifecycle, FiniteSets, TLC

CONSTANTS a1, a2, k1, k2, k3, x0, l1, l2, p1, p2, e1, c1, c2

MCActions == {[id |-> x0, seq |-> 0]}

\* The engine scores a log that holds the answer.
MCEvaluated == {MCActions}

\* Completions of one attempt, retries and rivals with a key of their own, and
\* of another attempt of the student at the same assignment.
MCRivals == {[attempt |-> a1, key |-> k1, claim |-> 0],
             [attempt |-> a1, key |-> k2, claim |-> 0],
             [attempt |-> a2, key |-> k3, claim |-> 0]}

\* Requests of one kind are interchangeable.
RequestSymmetry ==
    Permutations(Launchers) \union Permutations(Actors) \union Permutations(Completers)

\* The requests that nobody sends.
Withheld(R) == req = [r \in Requests |-> IF r \in R THEN [Unsent EXCEPT !.at = "done"] ELSE Unsent]

\* Either two of everything but stage entries are in flight, or one launch and
\* one completion meet two actions and a stage entry.
MCInit ==
    /\ attempt = [a \in Attempts |-> NoAttempt]
    /\ log = [a \in Attempts |-> {}]
    /\ response = [a \in Attempts |-> Null]
    /\ captured = [a \in Attempts |-> FALSE]
    /\ audits = [a \in Attempts |-> 0]
    /\ idem = [k \in Keys |-> NoRow]
    /\ \/ Withheld(Entrants)
       \/ \E l \in Launchers, c \in Completers : Withheld({l, c})

MCSpec == MCInit /\ [][Next]_vars
=============================================================================
