---------------------------- MODULE Convergence ----------------------------
(***************************************************************************)
(* The execution of an approved convergence request, composed with the     *)
(* handlers of ConvergenceRequests that lead to the approval:              *)
(*                                                                         *)
(*   ConvergenceExecutionService.execute         Execute...                *)
(*   ConvergenceRollbackReviewService.resolve    Review...                 *)
(*                                                                         *)
(* execute is not one transaction.  It moves the request to EXECUTING,     *)
(* then opens (or resumes) a row of migration_execution and works through  *)
(* the units, the membership first, then one transaction per class, with   *)
(* the checkpoint written after each unit.  An execution row is named by   *)
(* the execute call that inserts it.                                       *)
(***************************************************************************)
EXTENDS ConvergenceRequests

CONSTANTS
    ExecuteKeys,     \* Idempotency-Key values of execute calls
    Split,           \* classes with students who left, or are in another class too
    Executors, Reviewers       \* the calls of each kind

ASSUME SplitAssumption == Split \subseteq Classes
ASSUME RunsAssumption ==
    /\ Executors \intersect Reviewers = {}
    /\ Null \notin Executors \union Reviewers
    /\ "membership" \notin Classes
ASSUME RepliesAssumption ==                   \* no answer yet is not an answer
    Null \notin {"REFUSED", "CONVERGENCE_ACTIVE_ATTEMPTS_PENDING", "CONVERGENCE_EXECUTION_IN_PROGRESS"}

VARIABLES
    execution,       \* migration_execution, by the execute call that inserted it
    executed,        \* idempotency_record, scope convergence_execute
    run              \* the execute and rollback-review calls being served

executionVars == <<execution, executed, run>>
vars == <<approvalVars, executionVars>>

Runs == Executors \union Reviewers
Units == Classes \union {"membership"}
Settled == {"MIGRATED", "RETAINED"}
Checkpoints == [Units -> Settled \union {"NONE", "FAILED"}]
Blank == [u \in Units |-> "NONE"]

NoExecution == [status |-> "ABSENT", id |-> Null, checkpoint |-> Blank, review |-> Null]

\* The checkpoint is the list checkpoint_json as find() reads it: for each unit
\* its first entry, "NONE" for a unit not reached.
ExecutionRows ==
    [status     : {"ABSENT", "PENDING", "IN_PROGRESS", "COMPLETED", "ROLLBACK_REVIEW_REQUIRED"},
     id         : Creators \union {Null},
     checkpoint : Checkpoints,
     review     : {Null, "PENDING", "ACCEPTED_PARTIAL", "RETRY_SCHEDULED"}]

RunLocals ==
    [at         : {"start", "lock", "upsert", "classify", "prior", "resume", "open", "link",
                   "member", "join", "note", "units", "settle", "complete",
                   "resolve", "reopen", "done"},
     id         : Creators \union {Null},
     row        : RequestRows(Executors),       \* the request as the handler read it
     key        : ExecuteKeys \union {Null},
     generation : Nat,
     execution  : Executors \union {Null},
     prior      : Checkpoints,                  \* priorCheckpoint
     checkpoint : Checkpoints,
     failed     : BOOLEAN,                      \* unitsFailed > 0
     joined     : BOOLEAN,                      \* targetMembershipId is set
     decision   : {Null, "ACCEPT_PARTIAL", "RETRY_REMAINING"},
     reply      : {Null, "OK", "REFUSED", "ERROR", "DUPLICATE", "IDEMPOTENCY_IN_PROGRESS",
                   "CONVERGENCE_ACTIVE_ATTEMPTS_PENDING", "CONVERGENCE_EXECUTION_IN_PROGRESS"}]

Resting == [at |-> "start", id |-> Null, row |-> NoRequest, key |-> Null, generation |-> 0,
            execution |-> Null, prior |-> Blank, checkpoint |-> Blank, failed |-> FALSE,
            joined |-> FALSE, decision |-> Null, reply |-> Null]

TypeOK ==
    /\ ApprovalTypeOK(Executors)
    /\ execution \in [Executors -> ExecutionRows]
    /\ executed \in [Creators \X ExecuteKeys -> Rows(Creators, Executors)]
    /\ run \in [Runs -> RunLocals]

Init ==
    /\ ApprovalInit
    /\ execution = [e \in Executors |-> NoExecution]
    /\ executed = [k \in Creators \X ExecuteKeys |-> NoRow]
    /\ run = [h \in Runs |-> Resting]

----------------------------------------------------------------------------
RunTo(h, location) == run' = [run EXCEPT ![h] = [@ EXCEPT !.at = location]]

RunReply(h, code) ==
    run' = [run EXCEPT ![h] = [Resting EXCEPT !.at = "done", !.reply = code, !.id = run[h].id]]

Decisions(h) == plan[run[h].row.plan].decisions

----------------------------------------------------------------------------
(* POST /convergence-requests/{id}/execute                                 *)

\* The request, its plan, and the active-attempt guard: it looks at the attempts
\* the plan recorded when it was generated.
ExecuteRead(h, id, key) ==
    LET row  == request[id]
        code == CASE row.status = "EXECUTING" -> "CONVERGENCE_EXECUTION_IN_PROGRESS"
                  [] row.status \notin {"APPROVED", "READY_TO_EXECUTE", "EXECUTING"} -> "REFUSED"
                  [] row.status \in {"APPROVED", "READY_TO_EXECUTE"}
                     /\ plan[row.plan].status # "CONFIRMED" -> "REFUSED"
                  [] row.status \in {"APPROVED", "READY_TO_EXECUTE"}
                     /\ plan[row.plan].status = "CONFIRMED"
                     /\ plan[row.plan].blocking \intersect plan[row.plan].decisions.transfer # {}
                       -> "CONVERGENCE_ACTIVE_ATTEMPTS_PENDING"
                  [] OTHER -> Null
    IN /\ run[h].at = "start" /\ row.status # "ABSENT"
       /\ run' = [run EXCEPT ![h] = [@ EXCEPT !.id = id, !.reply = code,
                                     !.at  = IF code = Null THEN "lock" ELSE "done",
                                     !.row = IF code = Null THEN row ELSE NoRequest,
                                     !.key = IF code = Null THEN key ELSE Null]]
       /\ UNCHANGED <<approvalVars, execution, executed>>

WrongExecuteLock(h) ==             \* goes on whether it got the request or not
    LET id == run[h].id
    IN /\ run[h].at = "lock"
       /\ Transition(id, run[h].row.status, [request[id] EXCEPT !.status = "EXECUTING"])
       /\ RunTo(h, "upsert")
       /\ UNCHANGED <<plan, consent, created, world, call, execution, executed>>

\* The request is taken before the idempotency record is looked at.
ExecuteLock(h) ==
    LET id == run[h].id
        expected == run[h].row.status
    IN /\ run[h].at = "lock"
       /\ Transition(id, expected, [request[id] EXCEPT !.status = "EXECUTING"])
       /\ \/ request[id].status = expected /\ RunTo(h, "upsert")
          \/ request[id].status # expected /\ RunReply(h, "CONVERGENCE_EXECUTION_IN_PROGRESS")
       /\ UNCHANGED <<plan, consent, created, world, call, execution, executed>>

ExecuteUpsert(h) ==
    LET k == <<run[h].id, run[h].key>>
    IN /\ run[h].at = "upsert"
       /\ \/ /\ Claims(executed[k], run[h].id)
             /\ executed' = [executed EXCEPT ![k] = Claim(@, run[h].id)]
             /\ run' = [run EXCEPT ![h] = [@ EXCEPT !.at = "prior", !.generation = executed[k].generation + 1]]
          \/ /\ ~Claims(executed[k], run[h].id)
             /\ RunTo(h, "classify")
             /\ UNCHANGED executed
       /\ UNCHANGED <<approvalVars, execution>>

\* Every outcome leaves execute, and leaves the request as it is.
ExecuteClassify(h) ==
    LET k == <<run[h].id, run[h].key>>
    IN /\ run[h].at = "classify"
       /\ RunReply(h, IF Classify(executed[k], run[h].id) = "DUPLICATE_SAME_PAYLOAD"
                         THEN "DUPLICATE" ELSE "IDEMPOTENCY_IN_PROGRESS")
       /\ UNCHANGED <<approvalVars, execution, executed>>

\* An execution that rollback review put back to PENDING is resumed.
ExecutePrior(h) ==
    LET e == run[h].row.execution
        resumes == e # Null /\ execution[e].status = "PENDING"
    IN /\ run[h].at = "prior"
       /\ run' = [run EXCEPT ![h] = [@ EXCEPT !.at        = IF resumes THEN "resume" ELSE "open",
                                              !.execution = IF resumes THEN e ELSE h,
                                              !.prior     = IF resumes THEN execution[e].checkpoint ELSE Blank]]
       /\ UNCHANGED <<approvalVars, execution, executed>>

\* markResumed throws if the row is not PENDING any more.
ExecuteResume(h) ==
    LET e == run[h].execution
    IN /\ run[h].at = "resume"
       /\ \/ /\ execution[e].status = "PENDING"
             /\ execution' = [execution EXCEPT ![e] = [@ EXCEPT !.status = "IN_PROGRESS"]]
             /\ RunTo(h, "member")
          \/ /\ execution[e].status # "PENDING"
             /\ RunReply(h, "ERROR")
             /\ UNCHANGED execution
       /\ UNCHANGED <<approvalVars, executed>>

ExecuteOpen(h) ==
    /\ run[h].at = "open"
    /\ execution' = [execution EXCEPT ![h] = [NoExecution EXCEPT !.status = "IN_PROGRESS", !.id = run[h].id]]
    /\ RunTo(h, "link")
    /\ UNCHANGED <<approvalVars, executed>>

ExecuteLink(h) ==
    LET id == run[h].id
    IN /\ run[h].at = "link"
       /\ Transition(id, "EXECUTING", [request[id] EXCEPT !.execution = h])
       /\ RunTo(h, "member")
       /\ UNCHANGED <<plan, consent, created, world, call, execution, executed>>

\* The outcome of a unit, in the handler's own checkpoint; an entry is added at
\* the end of the list, so it does not hide an earlier one.
Outcome(h, unit, outcome, failed, location) ==
    run' = [run EXCEPT ![h] = [@ EXCEPT !.at = location,
                               !.checkpoint[unit] = outcome,
                               !.failed = run[h].failed \/ failed]]

WrongExecuteMember(h) ==           \* a resumed execution forgets the membership unit
    LET school == run[h].row.school
    IN /\ run[h].at = "member"
       /\ \/ /\ member[school] = "ACTIVE"
             /\ run' = [run EXCEPT ![h] = [@ EXCEPT !.at = "note", !.joined = TRUE,
                                           !.checkpoint["membership"] = "RETAINED"]]
          \/ member[school] # "ACTIVE" /\ RunTo(h, "join")
       /\ UNCHANGED <<approvalVars, execution, executed>>

\* The membership unit: carried forward, or an ACTIVE membership is found.
ExecuteMember(h) ==
    LET school == run[h].row.school
        carried == run[h].prior["membership"] \in Settled
        found == member[school] = "ACTIVE"
    IN /\ run[h].at = "member"
       /\ \/ /\ carried \/ found
             /\ run' = [run EXCEPT ![h] = [@ EXCEPT !.at = "note", !.joined = found,
                                           !.checkpoint["membership"] =
                                              IF carried THEN run[h].prior["membership"] ELSE "RETAINED"]]
          \/ ~carried /\ ~found /\ RunTo(h, "join")
       /\ UNCHANGED <<approvalVars, execution, executed>>

\* INSERT INTO staff_tenant_membership: (account, tenant, role) is unique, so a
\* TEACHER membership that is not ACTIVE makes it fail.  A failing audit statement after the
\* INSERT counts the unit both as migrated and as failed.
ExecuteJoin(h) ==
    LET school == run[h].row.school
    IN /\ run[h].at = "join"
       /\ \/ /\ member[school] = "NONE"
             /\ member' = [member EXCEPT ![school] = "ACTIVE"]
             /\ \E failed \in {FALSE, Faults} :
                    run' = [run EXCEPT ![h] = [@ EXCEPT !.at = "note", !.joined = TRUE, !.failed = failed,
                                               !.checkpoint["membership"] = "MIGRATED"]]
          \/ /\ member[school] # "NONE" \/ Faults
             /\ Outcome(h, "membership", "FAILED", TRUE, "note")
             /\ UNCHANGED member
       /\ UNCHANGED <<request, plan, consent, created, suspended, home, visited, busy, call, execution, executed>>

\* recordUnitOutcome.
ExecuteNote(h) ==
    LET e == run[h].execution
    IN /\ run[h].at = "note"
       /\ execution' = [execution EXCEPT ![e] = [@ EXCEPT !.checkpoint = run[h].checkpoint]]
       /\ RunTo(h, "units")
       /\ UNCHANGED <<approvalVars, executed>>

Remaining(h) ==
    {c \in Decisions(h).transfer \union Decisions(h).retain : run[h].checkpoint[c] = "NONE"}

\* A class unit without a transfer: carried forward, retained, or skipped for
\* want of a membership.
ExecuteCarry(h, c) ==
    /\ run[h].at = "units" /\ c \in Remaining(h)
    /\ \/ run[h].prior[c] \in Settled /\ Outcome(h, c, run[h].prior[c], FALSE, "note")
       \/ /\ run[h].prior[c] \notin Settled /\ c \in Decisions(h).retain
          /\ Outcome(h, c, "RETAINED", FALSE, "note")
       \/ /\ run[h].prior[c] \notin Settled /\ c \in Decisions(h).transfer /\ ~run[h].joined
          /\ Outcome(h, c, "FAILED", TRUE, "note")
    /\ UNCHANGED <<approvalVars, execution, executed>>

WrongTransferable(c, school) == home[c] # Source \/ (c \notin Split /\ c \notin visited)

\* Whether transferClass can commit.  It updates the rows of the class that are
\* still in the source tenant.  Student rows of a class in Split break a foreign
\* key (or the conflict check that precedes them); so do student_session rows,
\* whose key to student_profile is neither deferrable nor repointed.  With the
\* class already in this school nothing is left to update; with the class in
\* another school the new staff_class_assignment row breaks its foreign key.
Transferable(c, school) ==
    \/ home[c] = school
    \/ home[c] = Source /\ c \notin Split /\ c \notin visited

ToTransfer(h, c) ==
    run[h].prior[c] \notin Settled /\ c \in Decisions(h).transfer /\ run[h].joined

\* One class unit with a transfer.  The transaction moves the class, its rows
\* and its teaching assignment together.  It may fail for want of a database,
\* its COMMIT may be lost on the way back, and the audit row after it may fail.
ExecuteTransfer(h, c) ==
    LET school == run[h].row.school
    IN /\ run[h].at = "units" /\ c \in Remaining(h)
       /\ ToTransfer(h, c)
       /\ \/ /\ Transferable(c, school)
             /\ home' = [home EXCEPT ![c] = school]
             /\ \/ \E failed \in {FALSE, Faults} : Outcome(h, c, "MIGRATED", failed, "note")
                \/ Faults /\ Outcome(h, c, "FAILED", TRUE, "note")
          \/ /\ ~Transferable(c, school) \/ Faults
             /\ Outcome(h, c, "FAILED", TRUE, "note")
             /\ UNCHANGED home
       /\ UNCHANGED <<request, plan, consent, created, member, suspended, visited, busy, call, execution, executed>>

Ending(h) == IF run[h].failed THEN "ROLLBACK_REVIEW_REQUIRED" ELSE "COMPLETED"

ExecuteFinish(h) ==
    LET e == run[h].execution
    IN /\ run[h].at = "units" /\ Remaining(h) = {}
       /\ execution' = [execution EXCEPT ![e] =
                          [@ EXCEPT !.status = Ending(h),
                                    !.review = IF run[h].failed THEN "PENDING" ELSE execution[e].review]]
       /\ RunTo(h, "settle")
       /\ UNCHANGED <<approvalVars, executed>>

WrongExecuteSettle(h) ==           \* expects the status execute was called in
    LET id == run[h].id
    IN /\ run[h].at = "settle"
       /\ Transition(id, run[h].row.status, [request[id] EXCEPT !.status = Ending(h)])
       /\ RunTo(h, "complete")
       /\ UNCHANGED <<plan, consent, created, world, call, execution, executed>>

ExecuteSettle(h) ==
    LET id == run[h].id
    IN /\ run[h].at = "settle"
       /\ Transition(id, "EXECUTING", [request[id] EXCEPT !.status = Ending(h)])
       /\ RunTo(h, "complete")
       /\ UNCHANGED <<plan, consent, created, world, call, execution, executed>>

ExecuteComplete(h) ==
    LET k == <<run[h].id, run[h].key>>
    IN /\ run[h].at = "complete"
       /\ executed' = [executed EXCEPT ![k] = Complete(@, run[h].generation, run[h].execution)]
       /\ RunReply(h, "OK")
       /\ UNCHANGED <<approvalVars, execution>>

----------------------------------------------------------------------------
(* POST /convergence-requests/{id}/rollback-review                         *)

ReviewRead(h, id, decision) ==
    LET row == request[id]
    IN /\ run[h].at = "start" /\ row.status # "ABSENT"
       /\ \/ /\ row.status = "ROLLBACK_REVIEW_REQUIRED" /\ row.execution # Null
             /\ run' = [run EXCEPT ![h] = [@ EXCEPT !.at = "resolve", !.id = id, !.decision = decision,
                                           !.execution = row.execution]]
          \/ /\ row.status # "ROLLBACK_REVIEW_REQUIRED" \/ row.execution = Null
             /\ RunReply(h, "REFUSED")
       /\ UNCHANGED <<approvalVars, execution, executed>>

\* resolveRollbackReview: UPDATE ... WHERE status = 'ROLLBACK_REVIEW_REQUIRED'.
ReviewResolve(h) ==
    LET e == run[h].execution
        accepts == run[h].decision = "ACCEPT_PARTIAL"
    IN /\ run[h].at = "resolve"
       /\ \/ /\ execution[e].status = "ROLLBACK_REVIEW_REQUIRED"
             /\ execution' = [execution EXCEPT ![e] =
                  [@ EXCEPT !.status = IF accepts THEN "COMPLETED" ELSE "PENDING",
                            !.review = IF accepts THEN "ACCEPTED_PARTIAL" ELSE "RETRY_SCHEDULED"]]
             /\ RunTo(h, "reopen")
          \/ /\ execution[e].status # "ROLLBACK_REVIEW_REQUIRED"
             /\ RunReply(h, "REFUSED")
             /\ UNCHANGED execution
       /\ UNCHANGED <<approvalVars, executed>>

ReviewReopen(h) ==
    LET id == run[h].id
        next == IF run[h].decision = "ACCEPT_PARTIAL" THEN "COMPLETED" ELSE "READY_TO_EXECUTE"
    IN /\ run[h].at = "reopen"
       /\ Transition(id, "ROLLBACK_REVIEW_REQUIRED", [request[id] EXCEPT !.status = next])
       /\ RunReply(h, IF request[id].status = "ROLLBACK_REVIEW_REQUIRED" THEN "OK" ELSE "REFUSED")
       /\ UNCHANGED <<plan, consent, created, world, call, execution, executed>>

----------------------------------------------------------------------------
\* execute has no try block around its statements: what is thrown, and the
\* death of the process, leave the request and the execution as they are.
RunDies(h) ==
    /\ Faults
    /\ run[h].at \notin {"start", "done"}
    /\ RunReply(h, "ERROR")
    /\ UNCHANGED <<approvalVars, execution, executed>>

Executing(h) ==
    \/ \E id \in Creators, key \in ExecuteKeys : ExecuteRead(h, id, key)
    \/ ExecuteLock(h) \/ ExecuteUpsert(h) \/ ExecuteClassify(h)
    \/ ExecutePrior(h) \/ ExecuteResume(h) \/ ExecuteOpen(h) \/ ExecuteLink(h)
    \/ ExecuteMember(h) \/ ExecuteJoin(h) \/ ExecuteNote(h)
    \/ \E c \in Classes : ExecuteCarry(h, c) \/ ExecuteTransfer(h, c)
    \/ ExecuteFinish(h) \/ ExecuteSettle(h) \/ ExecuteComplete(h)

Reviewing(h) ==
    \/ \E id \in Creators, decision \in {"ACCEPT_PARTIAL", "RETRY_REMAINING"} :
           ReviewRead(h, id, decision)
    \/ ReviewResolve(h) \/ ReviewReopen(h)

Next ==
    \/ ApprovalNext /\ UNCHANGED executionVars
    \/ \E h \in Executors : Executing(h)
    \/ \E h \in Reviewers : Reviewing(h)
    \/ \E h \in Runs : RunDies(h)

Spec == Init /\ [][Next]_vars

\* A call that has begun takes its next step; nobody has to make a call.
Begun(h) == run[h].at # "start"
Fairness == \A h \in Executors : WF_vars(Begun(h) /\ Executing(h))
FairSpec == Spec /\ Fairness
----------------------------------------------------------------------------
(* Properties                                                              *)

\* execute holds the request: from its lock to its last transition.
Working == {"prior", "resume", "open", "link", "member", "join", "note", "units", "settle"}

\* "never two parallel executions of the same request": the calls that passed the
\* lock and the idempotency record, however many started together, are one, and
\* the request says EXECUTING as long as there is one.
OneExecution ==
    \A h \in Executors :
        run[h].at \in Working =>
            /\ request[run[h].id].status = "EXECUTING"
            /\ \A g \in Executors : run[g].at \in Working /\ run[g].id = run[h].id => g = h

\* A class is only ever in a school that a request approved by both sides, with
\* a confirmed plan that transfers the class, was executed for; and the educator
\* has a membership there.
MovedByConsent ==
    \A c \in Classes :
        home[c] # Source =>
            /\ member[home[c]] # "NONE"
            /\ \E id \in Creators :
                   /\ request[id].school = home[c]
                   /\ request[id].status \in {"EXECUTING", "ROLLBACK_REVIEW_REQUIRED",
                                              "READY_TO_EXECUTE", "COMPLETED"}
                   /\ request[id].teacher /\ request[id].admin
                   /\ plan[request[id].plan].status = "CONFIRMED"
                   /\ c \in plan[request[id].plan].decisions.transfer

\* What a checkpoint calls MIGRATED is in the school, for good: also when two
\* schools were promised the class and both executions ran at once.
CheckpointIsTrue ==
    \A e \in Executors, c \in Classes :
        execution[e].checkpoint[c] = "MIGRATED" => home[c] = request[execution[e].id].school

\* A request that is COMPLETED without a review that accepted a partial result
\* has moved every class it was to transfer and given the educator a membership.
CompletedIsWhole ==
    \A id \in Creators :
        LET e == request[id].execution
        IN (request[id].status = "COMPLETED" /\ execution[e].review # "ACCEPTED_PARTIAL") =>
               /\ member[request[id].school] # "NONE"
               /\ \A c \in plan[request[id].plan].decisions.transfer : home[c] = request[id].school

\* A resumed execution keeps what the earlier one settled: it writes its list
\* from an empty one, and by the time it finishes nothing has been lost.  (Once the
\* request is settled, the row belongs to the execution that resumes it next.)
ResumeKeepsSettledUnits ==
    \A h \in Executors :
        run[h].at = "settle" =>
            \A u \in Units :
                run[h].prior[u] \in Settled /\ (u = "membership" \/ u \in Decisions(h).transfer \union Decisions(h).retain)
                    => execution[run[h].execution].checkpoint[u] = run[h].prior[u]

\* A request gets one execution row in its life, whatever fails and is retried.
OneRunPerRequest ==
    \A d, e \in Executors :
        execution[d].id # Null /\ execution[d].id = execution[e].id => d = e

\* Types, and one execution of a request: one call at a time, and one row in its life.
ExecutionsAreSound == TypeOK /\ OneExecution /\ OneRunPerRequest

\* Where the classes are agrees with what was consented to, with the checkpoints and
\* with the requests that are COMPLETED, whatever was cut off and retried.
MovesAreTrue == MovedByConsent /\ CheckpointIsTrue /\ CompletedIsWhole

\* An execute call that works on a request brings it out of EXECUTING, however
\* its units fail, unless the call itself is cut off and its client gets an error.
ExecutionEnds ==
    \A h \in Executors, id \in Creators :
        (run[h].id = id /\ run[h].at \in Working)
            ~> (request[id].status # "EXECUTING" \/ run[h].reply = "ERROR")

----------------------------------------------------------------------------
(* Statements of the documentation that this model refutes                 *)

\* What the contract says of a retry: with the same Idempotency-Key it resumes
\* the execution, so without failures a request that is EXECUTING is being worked on.
RetryResumes ==
    \A id \in Creators :
        request[id].status = "EXECUTING" =>
            \E h \in Executors : run[h].id = id /\ run[h].at \notin {"start", "done"}

\* What the comment at the guard says: a class to be transferred has no CREATED
\* or IN_PROGRESS attempt when the execution starts.
NoActiveAttemptAtStart ==
    [][\A id \in Creators :
          request[id].status = "APPROVED" /\ request'[id].status = "EXECUTING"
              => plan[request[id].plan].decisions.transfer \intersect busy = {}]_vars

\* What the comment on transferClass says: every child row is repointed, and the
\* whole chain is checked at COMMIT.  Then a class that no other class shares
\* students with, still in the source tenant, can be moved to a member's school.
ChildRowsAreRepointed ==
    \A h \in Executors, c \in Classes \ Split :
        run[h].joined /\ home[c] = Source => run[h].checkpoint[c] # "FAILED"
=============================================================================
