------------------------- MODULE ConvergenceRequests -------------------------
(***************************************************************************)
(* Account and tenant convergence, up to the approval: an independent      *)
(* educator asks to join a school (or the school asks), a platform admin   *)
(* previews the migration, the teacher and the school approve or reject.   *)
(*                                                                         *)
(*   ConvergenceRequestService.create        Create...                     *)
(*   ConvergencePreviewService.preview       Preview...                    *)
(*   ConvergenceApprovalService.approve      Approve...                    *)
(*   ConvergenceApprovalService.reject       Reject...                     *)
(*                                                                         *)
(* Every handler is a chain of autocommitted statements; one action is one *)
(* statement that writes, or a run of reads whose result is not used before*)
(* the next write.  A handler serves one call and creates at most one row, *)
(* so the rows of convergence_request and migration_plan are named by the  *)
(* call that inserts them.                                                 *)
(*                                                                         *)
(* There is one educator, hence one source tenant; the schools are the     *)
(* tenants the educator may converge to.  Capability checks and audit rows *)
(* are left out, unless a failing audit statement changes the control.     *)
(***************************************************************************)
EXTENDS IdempotencyRecord, FiniteSets

CONSTANTS
    Schools,         \* target tenants
    Source,          \* the educator's own tenant
    Volatile,        \* tenants whose status and memberships change meanwhile
    Classes,         \* the classes of the source tenant
    Played,          \* the classes whose students sign in and start attempts
    Ballots,         \* class decisions: [transfer, retain], disjoint sets
    CreateKeys,      \* Idempotency-Key values of create calls
    Creators, Previewers, Teachers, Admins,    \* the calls of each kind
    Faults           \* statements may fail and processes may die

Tenants == Schools \union {Source}
Approvers == Teachers \union Admins
Calls == Creators \union Previewers \union Approvers

NoDecisions == [transfer |-> {}, retain |-> {}]

ASSUME SourceAssumption == Source \notin Schools /\ Null \notin Tenants /\ Faults \in BOOLEAN
ASSUME FiniteAssumption == IsFiniteSet(Previewers)     \* the rank of a plan counts the plans
ASSUME VolatileAssumption == Volatile \subseteq Tenants /\ Played \subseteq Classes
ASSUME BallotsAssumption ==
    \A b \in Ballots : /\ b \in [transfer : SUBSET Classes, retain : SUBSET Classes]
                       /\ b.transfer \intersect b.retain = {}
ASSUME CallsAssumption ==
    /\ Null \notin Calls
    /\ Creators \intersect (Previewers \union Approvers) = {}
    /\ Previewers \intersect Approvers = {}
    /\ Teachers \intersect Admins = {}

VARIABLES
    request,         \* convergence_request, by the create call that inserted it
    plan,            \* migration_plan, by the preview call that inserted it
    consent,         \* history: [id, plan, side] of the approvals answered with success
    created,         \* idempotency_record, scope convergence_request_create
    member,          \* staff_tenant_membership of the educator, by tenant: in a
                     \* school a TEACHER's, "SUSPENDED" also for REVOKED
    suspended,       \* the tenants whose status is not ACTIVE
    home,            \* the tenant of each class
    visited,         \* classes with student_session rows
    busy,            \* classes with a CREATED or IN_PROGRESS attempt
    call             \* the calls being served

world == <<member, suspended, home, visited, busy>>
approvalVars == <<request, plan, consent, created, world, call>>

RequestStatuses ==
    {"ABSENT", "REQUESTED", "PREVIEW_READY", "AWAITING_APPROVALS", "APPROVED",
     "READY_TO_EXECUTE", "EXECUTING", "COMPLETED", "REJECTED", "BLOCKED",
     "ROLLBACK_REVIEW_REQUIRED"}

TerminalStatuses == {"REJECTED", "BLOCKED", "COMPLETED"}

NoRequest == [status |-> "ABSENT", school |-> Null, teacher |-> FALSE, admin |-> FALSE,
              plan |-> Null, execution |-> Null]

NoPlan == [status |-> "ABSENT", id |-> Null, rank |-> 0, considered |-> {},
           blocking |-> {}, decisions |-> NoDecisions]

PlanRows ==
    [status     : {"ABSENT", "DRAFT", "CONFIRMED"},
     id         : Creators \union {Null},
     rank       : Nat,                          \* generated_at, as an order
     considered : SUBSET Classes,
     blocking   : SUBSET Classes,               \* active_attempts_snapshot_json
     decisions  : Ballots \union {NoDecisions}]

\* "execution" names a row of migration_execution: see Convergence.
RequestRows(Executions) ==
    [status    : RequestStatuses,
     school    : Schools \union {Null},
     teacher   : BOOLEAN,                       \* teacher_confirmed_at
     admin     : BOOLEAN,                       \* school_approved_at
     plan      : Previewers \union {Null},
     execution : Executions \union {Null}]

Locals(Executions) ==
    [at         : {"start", "lookup", "member", "upsert", "classify", "insert", "complete",
                   "fail", "winner", "verify", "block", "generate", "publish",
                   "match", "record", "stamp", "reject", "done"},
     id         : Creators \union {Null},
     row        : RequestRows(Executions),      \* the request as the handler read it
     school     : Schools \union {Null},
     key        : CreateKeys \union {Null},
     generation : Nat,
     plan       : Previewers \union {Null},     \* the plan the approver was shown
     ballot     : Ballots \union {NoDecisions},
     reply      : {Null, "OK", "REFUSED", "ERROR"}]

Idle == [at |-> "start", id |-> Null, row |-> NoRequest, school |-> Null, key |-> Null,
         generation |-> 0, plan |-> Null, ballot |-> NoDecisions, reply |-> Null]

ApprovalTypeOK(Executions) ==
    /\ request \in [Creators -> RequestRows(Executions)]
    /\ plan \in [Previewers -> PlanRows]
    /\ consent \subseteq [id : Creators, plan : Previewers, side : {"teacher", "school"}]
    /\ created \in [CreateKeys -> Rows(Schools, Creators)]
    /\ member \in [Tenants -> {"NONE", "ACTIVE", "SUSPENDED"}]
    /\ suspended \subseteq Tenants
    /\ home \in [Classes -> Tenants]
    /\ visited \subseteq Classes
    /\ busy \subseteq visited
    /\ call \in [Calls -> Locals(Executions)]

ApprovalInit ==
    /\ request = [id \in Creators |-> NoRequest]
    /\ plan = [p \in Previewers |-> NoPlan]
    /\ consent = {}
    /\ created = [k \in CreateKeys |-> NoRow]
    /\ member = [t \in Tenants |-> IF t = Source THEN "ACTIVE" ELSE "NONE"]
    /\ suspended = {}
    /\ home = [c \in Classes |-> Source]
    /\ visited = {}
    /\ busy = {}
    /\ call = [h \in Calls |-> Idle]

----------------------------------------------------------------------------
(* Handlers, and the one writer of request states                          *)

Goto(h, location) == call' = [call EXCEPT ![h] = [@ EXCEPT !.at = location]]

\* What the handler read is forgotten.
Reply(h, code) ==
    call' = [call EXCEPT ![h] = [Idle EXCEPT !.at = "done", !.reply = code, !.id = call[h].id]]

\* ConvergenceRequestRepository.transition: UPDATE ... WHERE status = expected.
Transition(id, expected, row) ==
    request' = IF request[id].status = expected THEN [request EXCEPT ![id] = row] ELSE request

\* What approve and reject answer: the row transition() returned, or its absence.
Answer(h, id, expected) == Reply(h, IF request[id].status = expected THEN "OK" ELSE "REFUSED")

Active(t) == t \notin suspended

\* The partial unique index convergence_request_active_uq.
ActiveFor(school) ==
    {id \in Creators : request[id].school = school /\ request[id].status \notin TerminalStatuses}

----------------------------------------------------------------------------
(* POST /convergence-requests                                              *)

CreateCheck(h, school, key) ==
    /\ call[h].at = "start"
    /\ \/ /\ Active(Source) /\ Active(school)
          /\ call' = [call EXCEPT ![h] = [@ EXCEPT !.at = "lookup", !.school = school, !.key = key]]
       \/ ~(Active(Source) /\ Active(school)) /\ Reply(h, "REFUSED")
    /\ UNCHANGED <<request, plan, consent, created, world>>

\* findActiveByTriple: a request already under way is the answer.
CreateLookup(h) ==
    LET found == ActiveFor(call[h].school)
    IN /\ call[h].at = "lookup"
       /\ \/ found # {} /\ Reply(h, "OK")
          \/ found = {} /\ Goto(h, "member")
       /\ UNCHANGED <<request, plan, consent, created, world>>

\* CONVERGENCE_ALREADY_MEMBER.
CreateMember(h) ==
    /\ call[h].at = "member"
    /\ \/ member[call[h].school] = "ACTIVE" /\ Reply(h, "REFUSED")
       \/ member[call[h].school] # "ACTIVE" /\ Goto(h, "upsert")
    /\ UNCHANGED <<request, plan, consent, created, world>>

CreateUpsert(h) ==
    LET k == call[h].key
    IN /\ call[h].at = "upsert"
       /\ \/ /\ Claims(created[k], call[h].school)
             /\ created' = [created EXCEPT ![k] = Claim(@, call[h].school)]
             /\ call' = [call EXCEPT ![h] = [@ EXCEPT !.at = "insert", !.generation = created[k].generation + 1]]
          \/ /\ ~Claims(created[k], call[h].school)
             /\ Goto(h, "classify")
             /\ UNCHANGED created
       /\ UNCHANGED <<request, plan, consent, world>>

CreateClassify(h) ==
    /\ call[h].at = "classify"
    /\ Reply(h, IF Classify(created[call[h].key], call[h].school) = "DUPLICATE_SAME_PAYLOAD"
                   THEN "OK" ELSE "REFUSED")
    /\ UNCHANGED <<request, plan, consent, created, world>>

WrongCreateInsert(h) ==            \* no convergence_request_active_uq
    /\ call[h].at = "insert"
    /\ request' = [request EXCEPT ![h] = [NoRequest EXCEPT !.status = "REQUESTED", !.school = call[h].school]]
    /\ Goto(h, "complete")
    /\ UNCHANGED <<plan, consent, created, world>>

\* INSERT INTO convergence_request; the loser of a race gets 23505.
CreateInsert(h) ==
    /\ call[h].at = "insert"
    /\ \/ /\ ActiveFor(call[h].school) = {}
          /\ request' = [request EXCEPT ![h] =
                           [NoRequest EXCEPT !.status = "REQUESTED", !.school = call[h].school]]
          /\ Goto(h, "complete")
       \/ /\ ActiveFor(call[h].school) # {}
          /\ Goto(h, "fail")
          /\ UNCHANGED request
    /\ UNCHANGED <<plan, consent, created, world>>

CreateComplete(h) ==
    /\ call[h].at = "complete"
    /\ created' = [created EXCEPT ![call[h].key] = Complete(@, call[h].generation, h)]
    /\ Reply(h, "OK")
    /\ UNCHANGED <<request, plan, consent, world>>

\* idempotency.fail(retryable: true).
CreateFail(h) ==
    /\ call[h].at = "fail"
    /\ created' = [created EXCEPT ![call[h].key] = Fail(@, call[h].generation, TRUE, Null)]
    /\ Goto(h, "winner")
    /\ UNCHANGED <<request, plan, consent, world>>

\* The row that won the race, if it is still active.
CreateWinner(h) ==
    /\ call[h].at = "winner"
    /\ Reply(h, IF ActiveFor(call[h].school) # {} THEN "OK" ELSE "ERROR")
    /\ UNCHANGED <<request, plan, consent, created, world>>

----------------------------------------------------------------------------
(* POST /convergence-requests/{id}/preview                                 *)

PreviewRead(h, id) ==
    /\ call[h].at = "start"
    /\ \/ /\ request[id].status \in {"REQUESTED", "PREVIEW_READY"}
          /\ call' = [call EXCEPT ![h] = [@ EXCEPT !.at = "verify", !.id = id, !.row = request[id]]]
       \/ request[id].status \notin {"REQUESTED", "PREVIEW_READY"} /\ Reply(h, "REFUSED")
    /\ UNCHANGED <<request, plan, consent, created, world>>

\* Both tenants ACTIVE, the educator an ACTIVE member of the source tenant.
PreviewVerify(h) ==
    LET sound == Active(Source) /\ Active(call[h].row.school) /\ member[Source] = "ACTIVE"
    IN /\ call[h].at = "verify"
       /\ Goto(h, IF sound THEN "generate" ELSE "block")
       /\ UNCHANGED <<request, plan, consent, created, world>>

PreviewBlock(h) ==
    LET id == call[h].id
    IN /\ call[h].at = "block"
       /\ Transition(id, call[h].row.status, [request[id] EXCEPT !.status = "BLOCKED"])
       /\ Reply(h, "REFUSED")
       /\ UNCHANGED <<plan, consent, created, world>>

\* The scan of the classes and their attempts, and the INSERT: nobody reads the
\* scan before the row is there, so it is taken at the INSERT.
PreviewGenerate(h) ==
    LET considered == {c \in Classes : home[c] = Source}
    IN /\ call[h].at = "generate"
       /\ plan' = [plan EXCEPT ![h] =
                     [status     |-> "DRAFT",
                      id         |-> call[h].id,
                      rank       |-> 1 + Cardinality({p \in Previewers : plan[p].status # "ABSENT"}),
                      considered |-> considered,
                      blocking   |-> busy \intersect considered,
                      decisions  |-> NoDecisions]]
       /\ Goto(h, "publish")
       /\ UNCHANGED <<request, consent, created, world>>

WrongPreviewPublish(h) ==          \* publishes whatever the request has become
    LET id == call[h].id
    IN /\ call[h].at = "publish"
       /\ Transition(id, request[id].status, [request[id] EXCEPT !.status = "PREVIEW_READY", !.plan = h])
       /\ Reply(h, "OK")
       /\ UNCHANGED <<plan, consent, created, world>>

\* The transition that points the request to the plan; its result is ignored.
PreviewPublish(h) ==
    LET id == call[h].id
    IN /\ call[h].at = "publish"
       /\ Transition(id, call[h].row.status,
                     [request[id] EXCEPT !.status = "PREVIEW_READY", !.plan = h])
       /\ Reply(h, "OK")
       /\ UNCHANGED <<plan, consent, created, world>>

----------------------------------------------------------------------------
(* POST /convergence-requests/{id}/approve and /reject                     *)

Side(h) == IF h \in Teachers THEN "teacher" ELSE "school"

\* The approver was shown plan p and sends its fingerprint.
ApproveRead(h, id, p, ballot) ==
    /\ call[h].at = "start"
    /\ plan[p].id = id
    /\ \/ /\ request[id].status \in {"PREVIEW_READY", "AWAITING_APPROVALS"}
          /\ call' = [call EXCEPT ![h] = [@ EXCEPT !.at = "match", !.id = id, !.row = request[id],
                                          !.plan = p, !.ballot = ballot]]
       \/ /\ request[id].status \notin {"PREVIEW_READY", "AWAITING_APPROVALS"}
          /\ Reply(h, "REFUSED")
    /\ UNCHANGED <<request, plan, consent, created, world>>

\* The fingerprint against the current plan of the row that was read, and the
\* decisions against its classes; a ballot without decisions keeps the plan's.
ApproveMatch(h) ==
    LET p      == call[h].row.plan
        ballot == IF call[h].ballot = NoDecisions THEN plan[p].decisions ELSE call[h].ballot
    IN /\ call[h].at = "match"
       /\ \/ /\ p = call[h].plan
             /\ ballot.transfer \union ballot.retain \subseteq plan[p].considered
             /\ call' = [call EXCEPT ![h] = [@ EXCEPT !.at = "record", !.ballot = ballot]]
          \/ /\ p # call[h].plan
             /\ Reply(h, "REFUSED")
          \/ /\ p = call[h].plan
             /\ ~(ballot.transfer \union ballot.retain \subseteq plan[p].considered)
             /\ Reply(h, "REFUSED")
       /\ UNCHANGED <<request, plan, consent, created, world>>

\* MigrationPlanRepository.recordDecisions: only a DRAFT takes decisions, and
\* approve ignores whether it took these.
ApproveRecord(h) ==
    /\ call[h].at = "record"
    /\ plan' = IF plan[call[h].plan].status = "DRAFT"
               THEN [plan EXCEPT ![call[h].plan] =
                       [@ EXCEPT !.status = "CONFIRMED", !.decisions = call[h].ballot]]
               ELSE plan
    /\ Goto(h, "stamp")
    /\ UNCHANGED <<request, consent, created, world>>

WrongApproved(h) == Side(h) = "teacher" \/ call[h].row.teacher

\* Both sides have approved, as far as the row read at the start tells.
Approved(h) ==
    /\ Side(h) = "teacher" \/ call[h].row.teacher
    /\ Side(h) = "school" \/ call[h].row.admin

ApproveStamp(h) ==
    LET id == call[h].id
        expected == call[h].row.status
    IN /\ call[h].at = "stamp"
       /\ Transition(id, expected,
            [request[id] EXCEPT !.status  = IF Approved(h) THEN "APPROVED" ELSE "AWAITING_APPROVALS",
                                !.teacher = @ \/ Side(h) = "teacher",
                                !.admin   = @ \/ Side(h) = "school"])
       /\ consent' = IF request[id].status = expected
                     THEN consent \union {[id |-> id, plan |-> call[h].plan, side |-> Side(h)]}
                     ELSE consent
       /\ Answer(h, id, expected)
       /\ UNCHANGED <<plan, created, world>>

RejectRead(h, id) ==
    /\ call[h].at = "start"
    /\ \/ /\ request[id].status \in {"PREVIEW_READY", "AWAITING_APPROVALS"}
          /\ call' = [call EXCEPT ![h] = [@ EXCEPT !.at = "reject", !.id = id, !.row = request[id]]]
       \/ /\ request[id].status \notin {"PREVIEW_READY", "AWAITING_APPROVALS", "ABSENT"}
          /\ Reply(h, "REFUSED")
    /\ UNCHANGED <<request, plan, consent, created, world>>

Reject(h) ==
    LET id == call[h].id
        expected == call[h].row.status
    IN /\ call[h].at = "reject"
       /\ Transition(id, expected, [request[id] EXCEPT !.status = "REJECTED"])
       /\ Answer(h, id, expected)
       /\ UNCHANGED <<plan, consent, created, world>>

----------------------------------------------------------------------------
(* What goes on meanwhile                                                  *)

\* A platform admin suspends or reactivates a tenant.
TenantStatusChange(t) ==
    /\ t \in Volatile
    /\ suspended' = IF t \in suspended THEN suspended \ {t} ELSE suspended \union {t}
    /\ UNCHANGED <<request, plan, consent, created, member, home, visited, busy, call>>

\* An invitation is accepted; a membership is suspended or reactivated.
MembershipChange(t) ==
    /\ t \in Volatile
    /\ member' = [member EXCEPT ![t] = IF @ = "ACTIVE" THEN "SUSPENDED" ELSE "ACTIVE"]
    /\ UNCHANGED <<request, plan, consent, created, suspended, home, visited, busy, call>>

\* Students of a class that has not moved sign in, start attempts, finish them.
SignIn(c) ==
    /\ c \in Played \ visited /\ home[c] = Source
    /\ visited' = visited \union {c}
    /\ UNCHANGED <<request, plan, consent, created, member, suspended, home, busy, call>>

AttemptsChange(c) ==
    /\ c \in visited /\ home[c] = Source
    /\ busy' = IF c \in busy THEN busy \ {c} ELSE busy \union {c}
    /\ UNCHANGED <<request, plan, consent, created, member, suspended, home, visited, call>>

\* Five seconds pass: a failed create may be retried with its key.
CreateWindowElapses(k) ==
    /\ created[k].status = "FAILED" /\ ~created[k].aged
    /\ created' = [created EXCEPT ![k] = Age(@)]
    /\ UNCHANGED <<request, plan, consent, world, call>>

\* An API process dies, or loses the database: the call is gone.
CallDies(h) ==
    /\ Faults
    /\ call[h].at \notin {"start", "done"}
    /\ Reply(h, "ERROR")
    /\ UNCHANGED <<request, plan, consent, created, world>>

----------------------------------------------------------------------------
Creating(h) ==
    \/ \E school \in Schools, key \in CreateKeys : CreateCheck(h, school, key)
    \/ CreateLookup(h) \/ CreateMember(h) \/ CreateUpsert(h) \/ CreateClassify(h)
    \/ CreateInsert(h) \/ CreateComplete(h) \/ CreateFail(h) \/ CreateWinner(h)

Previewing(h) ==
    \/ \E id \in Creators : request[id].status # "ABSENT" /\ PreviewRead(h, id)
    \/ PreviewVerify(h) \/ PreviewBlock(h) \/ PreviewGenerate(h) \/ PreviewPublish(h)

Approving(h) ==
    \/ \E id \in Creators, p \in Previewers, ballot \in Ballots \union {NoDecisions} :
           ApproveRead(h, id, p, ballot)
    \/ ApproveMatch(h) \/ ApproveRecord(h) \/ ApproveStamp(h)
    \/ \E id \in Creators : RejectRead(h, id)
    \/ Reject(h)

Meanwhile ==
    \/ \E t \in Tenants : TenantStatusChange(t) \/ MembershipChange(t)
    \/ \E c \in Classes : SignIn(c) \/ AttemptsChange(c)
    \/ \E k \in CreateKeys : CreateWindowElapses(k)

ApprovalNext ==
    \/ \E h \in Creators : Creating(h)
    \/ \E h \in Previewers : Previewing(h)
    \/ \E h \in Approvers : Approving(h)
    \/ \E h \in Calls : CallDies(h)
    \/ Meanwhile

ApprovalSpec == ApprovalInit /\ [][ApprovalNext]_approvalVars

----------------------------------------------------------------------------
(* Properties                                                              *)

Decided == {"APPROVED", "READY_TO_EXECUTE", "EXECUTING", "COMPLETED", "ROLLBACK_REVIEW_REQUIRED"}

TypeOKApproval == ApprovalTypeOK({})

\* However create calls race and whichever requests end meanwhile, a school has
\* at most one request under way: create's lookup and its INSERT are two
\* statements, and only the index stands between two calls.
OneActiveRequest == \A school \in Schools : Cardinality(ActiveFor(school)) <= 1

\* A request that got past AWAITING_APPROVALS was approved by both sides, the
\* plan it points to is CONFIRMED, and it is the one the last approver was shown.
ApprovedByBothSides ==
    \A id \in Creators :
        request[id].status \in Decided =>
            /\ request[id].teacher /\ request[id].admin
            /\ plan[request[id].plan].status = "CONFIRMED"
            /\ \A side \in {"teacher", "school"} :
                   \E p \in Previewers : [id |-> id, plan |-> p, side |-> side] \in consent
            /\ \E side \in {"teacher", "school"} :
                   [id |-> id, plan |-> request[id].plan, side |-> side] \in consent

\* Once a side has approved, no preview still in flight puts another plan under
\* the approval.
CurrentPlanFrozen ==
    [][\A id \in Creators :
          request[id].status \in Decided \union {"AWAITING_APPROVALS"}
              => request'[id].plan = request[id].plan]_approvalVars

\* The decisions of a confirmed plan are never rewritten, by whichever approver
\* comes second.
DecisionsFixed ==
    [][\A p \in Previewers :
          plan[p].status = "CONFIRMED" => plan'[p] = plan[p]]_approvalVars

\* "COMPLETED/REJECTED/BLOCKED are terminal -- a new row is created to retry,
\* never a resurrection of a terminal row", whatever handler is still running.
TerminalIsFinal ==
    [][\A id \in Creators :
          request[id].status \in TerminalStatuses => request'[id] = request[id]]_approvalVars

\* Types, and one active request per educator and school, although the lookup and the
\* insert of a request are two statements.
RequestsAreSound == TypeOKApproval /\ OneActiveRequest

\* What was approved stays what was approved: the current plan, the decisions and the
\* end of a request are not changed by a handler that read the request before.
ApprovedStaysApproved == CurrentPlanFrozen /\ DecisionsFixed /\ TerminalIsFinal

----------------------------------------------------------------------------
(* Statements of the documentation that this model refutes                 *)

\* What the contract says of approve: the fingerprint sent matches the current
\* plan, so each side has approved the plan that will be executed.
ConsentIsForCurrentPlan ==
    \A id \in Creators :
        request[id].status = "APPROVED" =>
            \A side \in {"teacher", "school"} :
                [id |-> id, plan |-> request[id].plan, side |-> side] \in consent

\* What the contract says of preview: with no preview under way, the request
\* points to the plan generated last.
CurrentPlanIsLatest ==
    \A id \in Creators :
        (\A h \in Previewers : call[h].at \in {"start", "done"}) =>
            \A p \in Previewers :
                plan[p].id = id => /\ request[id].plan # Null
                                   /\ plan[p].rank <= plan[request[id].plan].rank
=============================================================================
