----------------------- MODULE MCConvergenceRequests -----------------------
(***************************************************************************)
(* The instance of ConvergenceRequests for TLC, in two scenes.             *)
(*   creation   create calls race with a preview and a teacher's answer    *)
(*              while the school and the classes change;                   *)
(*   approval   one request is previewed twice and answered by the teacher *)
(*              and by two administrators, while nothing else changes.     *)
(***************************************************************************)
EXTENDS ConvergenceRequests, TLC

CONSTANTS s1, c1, ck1, ck2, n1, n2, v1, v2, t1, g1, g2

MCBallots == {[transfer |-> {c1}, retain |-> {}], [transfer |-> {}, retain |-> {c1}]}

CallSymmetry == Permutations(Creators) \union Permutations(Previewers) \union Permutations(Admins)

\* A call that nobody makes.
Withheld == [Idle EXCEPT !.at = "done"]

CreationScene ==
    \E v \in Previewers : call = [h \in Calls |-> IF h \in Admins \union {v} THEN Withheld ELSE Idle]
ApprovalScene ==
    \E n \in Creators : call = [h \in Calls |-> IF h \in Creators \ {n} THEN Withheld ELSE Idle]

MCInit ==
    /\ request = [id \in Creators |-> NoRequest]
    /\ plan = [p \in Previewers |-> NoPlan]
    /\ consent = {}
    /\ created = [k \in CreateKeys |-> NoRow]
    /\ member = [t \in Tenants |-> IF t = Source THEN "ACTIVE" ELSE "NONE"]
    /\ suspended = {}
    /\ home = [c \in Classes |-> Source]
    /\ visited = {}
    /\ busy = {}
    /\ CreationScene \/ ApprovalScene

\* The scene is told by the calls that are withheld.
MCNext == ApprovalNext /\ ((\E g \in Admins : call[g] # Withheld) => UNCHANGED world)

MCSpec == MCInit /\ [][MCNext]_approvalVars
=============================================================================
