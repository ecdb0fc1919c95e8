---------------------------- MODULE MCConvergence ----------------------------
(***************************************************************************)
(* The instance of Convergence for TLC.  It starts where ApprovalRaces     *)
(* ends, with what has been approved by both sides, in two scenes.         *)
(*   one school    a request moves one class or two; one of them shares    *)
(*                 students with a class that is no party to it, and       *)
(*                 cannot be moved.  Meanwhile the membership changes;     *)
(*   two schools   each was promised the class while it was still free.    *)
(***************************************************************************)
EXTENDS Convergence, TLC

CONSTANTS s1, s2, c1, c2, ck1, ck2, n1, n2, v1, v2, ek1, ek2, x1, x2, w1

MCBallots == {[transfer |-> {c1}, retain |-> {c2}], [transfer |-> {c1, c2}, retain |-> {}]}

SchoolOf == [n \in {n1, n2} |-> IF n = n1 THEN s1 ELSE s2]
PlanOf == [n \in {n1, n2} |-> IF n = n1 THEN v1 ELSE v2]
KeyOf == [n \in {n1, n2} |-> IF n = n1 THEN ck1 ELSE ck2]

\* The state after a round of create, preview and two approvals for each of the
\* requests N, one after the other; the other requests were never made.
ApprovedByBoth(N, b, blocked) ==
    /\ request = [n \in Creators |->
                     IF n \in N THEN [status |-> "APPROVED", school |-> SchoolOf[n], teacher |-> TRUE,
                                      admin |-> TRUE, plan |-> PlanOf[n], execution |-> Null]
                     ELSE NoRequest]
    /\ plan = [p \in Previewers |->
                  LET n == CHOOSE n \in Creators : PlanOf[n] = p
                  IN IF n \in N THEN [status |-> "CONFIRMED", id |-> n, rank |-> IF p = v1 THEN 1 ELSE 2,
                                      considered |-> Classes, blocking |-> blocked, decisions |-> b]
                     ELSE NoPlan]
    /\ consent = {[id |-> n, plan |-> PlanOf[n], side |-> side] : n \in N, side \in {"teacher", "school"}}
    /\ created = [k \in CreateKeys |->
                     LET n == CHOOSE n \in Creators : KeyOf[n] = k
                     IN IF n \in N THEN Complete(Claim(NoRow, SchoolOf[n]), 1, n) ELSE NoRow]

MCInit ==
    /\ \/ \E b \in MCBallots, blocked \in SUBSET {c1} : ApprovedByBoth({n1}, b, blocked)
       \/ ApprovedByBoth({n1, n2}, [transfer |-> {c1}, retain |-> {c2}], {})
    /\ member = [t \in Tenants |-> IF t = Source THEN "ACTIVE" ELSE "NONE"]
    /\ suspended = {} /\ visited = {} /\ busy = {}
    /\ home = [c \in Classes |-> Source]
    /\ call = [h \in Calls |-> [Idle EXCEPT !.at = "done"]]
    /\ execution = [e \in Executors |-> NoExecution]
    /\ executed = [k \in Creators \X ExecuteKeys |-> NoRow]
    /\ run = [h \in Runs |-> Resting]

\* With two schools, what goes on is the execution and its review.  No statement of
\* either reads the status of a tenant, so none is suspended meanwhile.
OneSchool == request[n2] = NoRequest
MCNext == Next /\ (OneSchool \/ run' # run) /\ suspended' = suspended

MCSpec == MCInit /\ [][MCNext]_vars /\ Fairness
=============================================================================
