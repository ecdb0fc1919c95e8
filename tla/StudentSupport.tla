--------------------------- MODULE StudentSupport ---------------------------
(***************************************************************************)
(* The staff who support a student (packages/student-support): they are    *)
(* assigned to the student, record events and observations, apply          *)
(* facilitations, and propose what others review.  An accepted proposal    *)
(* takes effect in the transaction that accepts it; one kind writes a      *)
(* learning path policy, so this module composes with LearningPaths.       *)
(*                                                                         *)
(* Rows have the name of the call that inserts them.  asked keeps what a   *)
(* request was, after its answer too: a client uses a key for one request  *)
(* and its retries.                                                        *)
(***************************************************************************)
EXTENDS LearningPaths, FiniteSets

CONSTANTS
    Staff, AccountOf, RoleOf, ScopeOf,   \* ACTIVE memberships: the account, the role, the classes
    Attempts, AttemptStudent, Started,   \* learning_attempt; Started are the ones not CREATED
    Offered,                             \* the states that requests ask for
    Seeds                                \* names of the rows that exist at the start

Ids == Seeds \union Calls
Accounts == {AccountOf[m] : m \in Staff}

ASSUME ConstantsAssumption ==
    /\ Seeds \cap Calls = {} /\ Offered \subseteq States /\ AttemptStudent \in [Attempts -> Students]
    /\ StudentClass \in [Students -> Classes \union {Null}]
    /\ MaxVersion \in Nat /\ MaxVersion >= 1

VARIABLES
    support,       \* support_student_assignment
    proposal,      \* facilitation_proposal
    profile,       \* support_profile
    override,      \* difficulty_override
    observation,   \* learning_support_observation
    event,         \* learning_support_event
    asked,         \* the request of each call, for good
    lately,        \* history: since the call looked, a student got a support teacher
    adjusted       \* history: which call wrote the policy of which proposal

tableVars == <<support, proposal, profile, override, observation, event>>
historyVars == <<asked, lately, adjusted>>
vars == <<tableVars, historyVars, pathVars, callVars>>

SupportRows == [member : Staff \union {Null}, student : Students \union {Null}, status : {"ABSENT", "ACTIVE", "ENDED", "REVOKED"}]
NoSupport == [member |-> Null, student |-> Null, status |-> "ABSENT"]
NewSupport(member, student) == [member |-> member, student |-> student, status |-> "ACTIVE"]

ProposalTypes == {"FACILITATION", "DIFFICULTY", "LEARNING_PATH_ADJUSTMENT"}
ProposalRows ==
    [status : {"ABSENT", "SUBMITTED", "ACCEPTED", "REJECTED", "WITHDRAWN"}, type : ProposalTypes \union {Null},
     student : Students \union {Null}, author : Accounts \union {Null}, category : {"TOOLS", "OTHER", Null},
     state : States \union {Null}, ref : Refs \union {Null}, reviewer : Staff \union {Null}, version : 1 .. MaxVersion]
NoProposal == [status |-> "ABSENT", type |-> Null, student |-> Null, author |-> Null, category |-> Null,
               state |-> Null, ref |-> Null, reviewer |-> Null, version |-> 1]
NewProposal(author, body) ==
    [NoProposal EXCEPT !.status = "SUBMITTED", !.type = body.type, !.student = body.student, !.author = author,
                       !.category = body.category, !.state = body.state, !.ref = body.ref]

\* from is the proposal in config_json, or in the reason of an override.
ProfileRows == [student : Students \union {Null}, category : {"TOOLS", "OTHER", Null},
                level : {"SESSION_ONLY", "PROFILE_LEVEL", Null}, status : {"ABSENT", "ACTIVE", "SUPERSEDED"}, from : Ids \union {Null}]
NoProfile == [student |-> Null, category |-> Null, level |-> Null, status |-> "ABSENT", from |-> Null]
NewProfile(student, category, level, from) ==
    [student |-> student, category |-> category, level |-> level, status |-> "ACTIVE", from |-> from]

OverrideRows == [student : Students \union {Null}, from : Ids \union {Null}]
NoOverride == [student |-> Null, from |-> Null]
NewOverride(student, from) == [student |-> student, from |-> from]

\* scope and replayed: the record the row was made under, and whether the record answers
\* with it.
ObservationRows(Scopes) == [student : Students \union {Null}, author : Accounts \union {Null}, by : Ids \union {Null},
                            scope : Scopes, replayed : BOOLEAN]
NoObservation == [student |-> Null, author |-> Null, by |-> Null, scope |-> Null, replayed |-> FALSE]
NewObservation(student, author, scope) == [NoObservation EXCEPT !.student = student, !.author = author, !.scope = scope]

EventRows == [attempt : Attempts \union {Null}, author : Accounts \union {Null}]
NoEvent == [attempt |-> Null, author |-> Null]
NewEvent(attempt, author) == [attempt |-> attempt, author |-> author]

\* The record of an event is scoped by the attempt and the account.
Named(name) == <<name, Null, Null>>
Ops == {Named(n) : n \in {"assign", "propose", "review", "apply", "difficulty", "observe", "policy", "inherit", "register", "plain"}}
       \union ({"event"} \X Accounts \X Attempts)

ASSUME NullOutside ==
    /\ Null \notin Ids \union Staff \union Accounts \union Keys \union Refs \union Ops \union (Ops \X Keys)
    /\ Null \notin Students \union Classes
    /\ \A op \in Ops : Null # op[1]

\* What the request hash is computed from.
NoBody == [student |-> Null, member |-> Null, type |-> Null, category |-> Null, state |-> Null, ref |-> Null,
           target |-> Null, decision |-> Null, place |-> Null]
Bodies == [student : Students \union {Null}, member : Staff \union {Null}, type : ProposalTypes \union {Null},
           category : {"TOOLS", "OTHER", Null}, state : States \union {Null}, ref : Refs \union {Null},
           target : Ids \union {Null}, decision : {"ACCEPT", "REJECT", Null}, place : Places \union {Null}]

\* about: the row an operation is about, where the hash leaves it out; version: If-Match.
Requests == [who : Staff \union {Null}, op : Ops \union {Null}, body : Bodies, key : Keys \union {Null},
             about : Ids \union {Null}, version : 0 .. MaxVersion]
NotAsked == [who |-> Null, op |-> Null, body |-> NoBody, key |-> Null, about |-> Null, version |-> 0]

SupportInit(policies, rows, coming) ==
    /\ policy = policies /\ alternative = {}
    /\ support = [i \in Ids |-> IF i \in DOMAIN rows.support THEN rows.support[i] ELSE NoSupport]
    /\ proposal = [i \in Ids |-> IF i \in DOMAIN rows.proposal THEN rows.proposal[i] ELSE NoProposal]
    /\ profile = [i \in Ids |-> IF i \in DOMAIN rows.profile THEN rows.profile[i] ELSE NoProfile]
    /\ observation = [i \in Ids |-> IF i \in DOMAIN rows.observation THEN rows.observation[i] ELSE NoObservation]
    /\ override = [i \in Ids |-> NoOverride]
    /\ event = [i \in Ids |-> NoEvent]
    /\ asked = [h \in Calls |-> NotAsked]
    /\ lately = [h \in Calls |-> FALSE]
    /\ adjusted = {}
    /\ CallsInit(coming)

TypeOK ==
    /\ PathsTypeOK(Ids)
    /\ support \in [Ids -> SupportRows] /\ proposal \in [Ids -> ProposalRows]
    /\ profile \in [Ids -> ProfileRows] /\ override \in [Ids -> OverrideRows]
    /\ observation \in [Ids -> ObservationRows((Ops \X Keys) \union {Null})]
    /\ event \in [Ids -> EventRows]
    /\ asked \in [Calls -> Requests]
    /\ lately \in [Calls -> BOOLEAN]
    /\ adjusted \subseteq Calls \X Ids
    /\ CallsTypeOK(Ops, Bodies, Ids, {"read", "run", "insert", "mark", "once"})

----------------------------------------------------------------------------
(* Who supports whom (support-scope.ts, SupportStudentAssignmentRepository) *)

IsActiveFor(row, member, student) == row.status = "ACTIVE" /\ row.member = member /\ row.student = student
HasAssignment(member, student) == \E i \in Ids : IsActiveFor(support[i], member, student)
TeachesClassOf(member, student) == StudentClass[student] \in ScopeOf[member]

\* resolveStudentSupportScope
InSupportScope(member, student) ==
    \/ RoleOf[member] \in {"ASACOM", "SUPPORT_TEACHER"} /\ HasAssignment(member, student)
    \/ RoleOf[member] \in {"SUPPORT_TEACHER", "TEACHER"} /\ TeachesClassOf(member, student)

\* findStudentIdsWithActiveSupportTeacher
HasSupportTeacher(student) ==
    \E m \in Staff : RoleOf[m] = "SUPPORT_TEACHER" /\ HasAssignment(m, student)

WrongReviewable(member, student) ==    \* the class teacher always may
    \/ RoleOf[member] = "SUPPORT_TEACHER" /\ HasAssignment(member, student)
    \/ RoleOf[member] = "TEACHER" /\ TeachesClassOf(member, student)

\* resolveReviewableStudentProfileIds: the support teacher goes before the class teacher.
Reviewable(member, student) ==
    \/ RoleOf[member] = "SUPPORT_TEACHER" /\ HasAssignment(member, student)
    \/ RoleOf[member] = "TEACHER" /\ TeachesClassOf(member, student) /\ ~HasSupportTeacher(student)

\* The capability and scope checks of LearningPathPolicyService.
Manages(member, place) ==
    /\ HasStaffCapability(RoleOf[member], CASE place[1] = "SCHOOL" -> "learning_path.school.manage"
                                            [] place[1] = "CLASS"  -> "learning_path.class.manage"
                                            [] OTHER               -> "learning_path.student.manage")
    /\ CASE place[1] = "SCHOOL"  -> TRUE
         [] place[1] = "CLASS"   -> IsClassInScope(RoleOf[member], ScopeOf[member], place[2])
         [] place[1] = "STUDENT" -> RoleOf[member] \in {"SCHOOL_ADMIN", "INDEPENDENT_EDUCATOR"} \/ InSupportScope(member, place[2])
         [] OTHER                -> FALSE

Capable(member, asacom, supportTeacher) ==
    \/ RoleOf[member] = "ASACOM" /\ HasStaffCapability("ASACOM", asacom)
    \/ RoleOf[member] = "SUPPORT_TEACHER" /\ HasStaffCapability("SUPPORT_TEACHER", supportTeacher)

----------------------------------------------------------------------------
(* The routes.  The ASACOM and the support-teacher surface call the same services. *)

Request(who, op, body, key, about, version) ==
    [who |-> who, op |-> op, body |-> body, key |-> key, about |-> about, version |-> version]

\* What the dashboard's client sends, with a new key for every call.
CreateSupportStudentAssignment(member, student) == [NoBody EXCEPT !.member = member, !.student = student]
CreateSupportEvent(attempt) == [NoBody EXCEPT !.student = AttemptStudent[attempt]]
SupersedeObservation(original) == [NoBody EXCEPT !.student = observation[original].student]
ReviewFacilitationProposal(p, decision) == [NoBody EXCEPT !.target = p, !.decision = decision]
ApplyAsacomFacilitationTemporary(student) == [NoBody EXCEPT !.student = student, !.category = "TOOLS"]
ApplySupportTeacherFacilitation(student, category) == [NoBody EXCEPT !.student = student, !.category = category]
CreateLearningPathPolicy(place, state, ref) == [NoBody EXCEPT !.place = place, !.state = state, !.ref = ref]
DeleteLearningPathPolicy(id) == [NoBody EXCEPT !.target = id]
CreateLearningPathAlternative(ref) == [NoBody EXCEPT !.ref = ref]
CreateFacilitationProposal(student, type, category, state, ref) ==
    [NoBody EXCEPT !.student = student, !.type = type, !.category = category, !.state = state, !.ref = ref]
ObservationRequest(student) == [NoBody EXCEPT !.student = student]
CreateSupportTeacherDifficultyOverride(student) == [NoBody EXCEPT !.student = student]

Asks(h, request, entitled, place) ==
    /\ Admit(h, request.op, request.body, request.key, entitled, place)
    /\ \A g \in Calls : asked[g].key = request.key /\ request.key # Null => asked[g] = request
    /\ asked' = [asked EXCEPT ![h] = IF entitled THEN request ELSE NotAsked]
    /\ lately' = [lately EXCEPT ![h] = FALSE]
    /\ UNCHANGED <<tableVars, adjusted, pathVars>>

PostSupportAssignment(h, who, key, member, student) ==
    Asks(h, Request(who, Named("assign"), CreateSupportStudentAssignment(member, student), key, Null, 0),
         HasStaffCapability(RoleOf[who], "student_support_assignment.manage"), "read")

AsksSupportEvent(h, who, key, attempt) ==
    Asks(h, Request(who, <<"event", AccountOf[who], attempt>>, CreateSupportEvent(attempt), key, Null, 0),
         Capable(who, "asacom.support.record", "support_teacher.support.record") \/ RoleOf[who] = "TEACHER", "read")
PostAsacomSupportEvent(h, who, key, attempt) == AsksSupportEvent(h, who, key, attempt)
PostSupportTeacherSupportEvent(h, who, key, attempt) == AsksSupportEvent(h, who, key, attempt)

AsksObservation(h, who, key, student) ==
    Asks(h, Request(who, Named("observe"), ObservationRequest(student), key, Null, 0),
         Capable(who, "asacom.observation.record", "support_teacher.observation.record"), "read")
PostAsacomObservation(h, who, key, student) == AsksObservation(h, who, key, student)
PostSupportTeacherObservation(h, who, key, student) == AsksObservation(h, who, key, student)

\* supersede(): the original is read first, the rest is create() with the same key.
AsksSupersede(h, who, key, original) ==
    Asks(h, Request(who, Named("observe"), SupersedeObservation(original), key, original, 0),
         /\ observation[original].author = AccountOf[who] /\ observation[original].by = Null
         /\ Capable(who, "asacom.observation.record", "support_teacher.observation.record"), "read")
PostAsacomSupersede(h, who, key, original) == AsksSupersede(h, who, key, original)
PostSupportTeacherSupersede(h, who, key, original) == AsksSupersede(h, who, key, original)

AsksProposal(h, who, key, body) ==
    Asks(h, Request(who, Named("propose"), body, key, Null, 0),
         IF body.type = "DIFFICULTY" THEN Capable(who, "asacom.difficulty.propose", "support_teacher.difficulty.apply")
         ELSE Capable(who, "asacom.facilitation.propose", "support_teacher.facilitation.apply"), "read")
PostAsacomProposal(h, who, key, body) == AsksProposal(h, who, key, body)
PostSupportTeacherProposal(h, who, key, body) == AsksProposal(h, who, key, body)

PostReview(h, who, key, p, decision, version) ==
    Asks(h, Request(who, Named("review"), ReviewFacilitationProposal(p, decision), key, Null, version), TRUE, "read")

PostApplyTemporary(h, who, student) ==
    Asks(h, Request(who, Named("plain"), ApplyAsacomFacilitationTemporary(student), Null, Null, 0),
         Capable(who, "asacom.facilitation.apply", "support_teacher.facilitation.apply"), "once")

PostApply(h, who, key, student, category) ==
    Asks(h, Request(who, Named("apply"), ApplySupportTeacherFacilitation(student, category), key, Null, 0),
         RoleOf[who] = "SUPPORT_TEACHER", "read")

PostDifficultyOverride(h, who, key, student) ==
    Asks(h, Request(who, Named("difficulty"), CreateSupportTeacherDifficultyOverride(student), key, Null, 0),
         RoleOf[who] = "SUPPORT_TEACHER", "read")

PostPolicy(h, who, key, place, state, ref) ==
    Asks(h, Request(who, Named("policy"), CreateLearningPathPolicy(place, state, ref), key, Null, 0),
         NeedsWaiver(state) => HasStaffCapability(RoleOf[who], "learning_path.waiver.manage"), "read")

DeletePolicyRoute(h, who, key, id) ==
    Asks(h, Request(who, Named("inherit"), DeleteLearningPathPolicy(id), key, Null, 0), TRUE, "read")

PostAlternative(h, who, key, ref) ==
    Asks(h, Request(who, Named("register"), CreateLearningPathAlternative(ref), key, Null, 0),
         HasStaffCapability(RoleOf[who], "learning_path.alternative.assign"), "begin")

----------------------------------------------------------------------------
(* The services *)

Op(h) == IF call[h].op = Null THEN Null ELSE call[h].op[1]
At(h, op, place) == call[h].at = place /\ Op(h) = op
Body(h) == asked[h].body
Who(h) == asked[h].who
Account(h) == AccountOf[Who(h)]
Supported(h) == Body(h).student

\* A check of who may act for the student, before begin().
Checks(h, op, ok) ==
    /\ At(h, op, "read")
    /\ IF ok THEN Goto(h, "begin", Null) ELSE Answer(h, "SUPPORT_STUDENT_NOT_ASSIGNED")
    /\ UNCHANGED <<tableVars, historyVars, pathVars, idem>>

\* SupportAssignmentService.create; the membership it names is ACTIVE.
ReadMembership(h) == Checks(h, "assign", RoleOf[Body(h).member] \in {"ASACOM", "SUPPORT_TEACHER"})
BeginAssign(h) == Op(h) = "assign" /\ Begin(h, "run")

\* The unique index refuses a second ACTIVE row, as an error of the database.
CreateAssignment(h) ==
    /\ At(h, "assign", "run")
    /\ IF HasAssignment(Body(h).member, Supported(h))
       THEN Throws(h, "ERROR", TRUE) /\ UNCHANGED <<support, lately>>
       ELSE /\ support' = [support EXCEPT ![h] = NewSupport(Body(h).member, Supported(h))]
            /\ lately' = [g \in Calls |-> lately[g] \/ RoleOf[Body(h).member] = "SUPPORT_TEACHER"]
            /\ Goto(h, "complete", Null)
    /\ UNCHANGED <<proposal, profile, override, observation, event, asked, adjusted, pathVars, idem>>

\* SupportAssignmentService.transitionStatus: one guarded UPDATE, without a key.
EndAssignment(h, who, i, status) ==
    /\ call[h].at = "idle" /\ HasStaffCapability(RoleOf[who], "student_support_assignment.manage")
    /\ support[i].status # "ABSENT"
    /\ support' = [support EXCEPT ![i].status = IF @ = "ACTIVE" THEN status ELSE @]
    /\ Answer(h, "OK")
    /\ UNCHANGED <<proposal, profile, override, observation, event, historyVars, pathVars, idem>>

\* SupportEventService.create
ReadEventScope(h) ==
    Checks(h, "event", InSupportScope(Who(h), Supported(h)) /\ call[h].op[3] \in Started)
BeginEvent(h) == Op(h) = "event" /\ Begin(h, "run")
CreateEvent(h) ==
    /\ At(h, "event", "run")
    /\ event' = [event EXCEPT ![h] = NewEvent(call[h].op[3], Account(h))]
    /\ Goto(h, "complete", Null)
    /\ UNCHANGED <<support, proposal, profile, override, observation, historyVars, pathVars, idem>>

\* ObservationService.create, called by supersede() too.
ReadObserver(h) == Checks(h, "observe", HasAssignment(Who(h), Supported(h)))

\* A supersede() whose create() is answered from the record goes on with that answer.
BeginObserve(h) ==
    /\ At(h, "observe", "begin")
    /\ IF Classify(Record(Scope(h)), Body(h)) = "DUPLICATE_SAME_PAYLOAD" /\ asked[h].about # Null
       THEN /\ Goto(h, "mark", CHOOSE i \in Ids : observation[i].scope = Scope(h) /\ observation[i].replayed)
            /\ UNCHANGED idem
       ELSE Begin(h, "run")

CreateObservation(h) ==
    /\ At(h, "observe", "run")
    /\ observation' = [observation EXCEPT ![h] = NewObservation(Supported(h), Account(h), Scope(h))]
    /\ Goto(h, "complete", Null)
    /\ UNCHANGED <<support, proposal, profile, override, event, historyVars, pathVars, idem>>

\* complete() with the row as the answer.
CompleteObservation(h) ==
    LET done == Complete(idem[Scope(h)], call[h].generation, "OK")
    IN /\ At(h, "observe", "complete")
       /\ idem' = [idem EXCEPT ![Scope(h)] = done]
       /\ observation' = [observation EXCEPT ![h].replayed = done # idem[Scope(h)]]
       /\ IF asked[h].about = Null THEN Answer(h, "OK") ELSE Goto(h, "mark", h)
       /\ UNCHANGED <<support, proposal, profile, override, event, historyVars, pathVars>>

\* markSuperseded: whether somebody else superseded the original is not looked at.
MarkSuperseded(h) ==
    /\ At(h, "observe", "mark")
    /\ observation' = [observation EXCEPT ![asked[h].about].by = call[h].got]
    /\ Answer(h, "OK")
    /\ UNCHANGED <<support, proposal, profile, override, event, historyVars, pathVars, idem>>

\* FacilitationProposalService.create: a support teacher proposes for the students of
\* others; nobody else's assignment is looked at.
ReadProposer(h) == Checks(h, "propose", RoleOf[Who(h)] = "SUPPORT_TEACHER" => ~HasAssignment(Who(h), Supported(h)))
BeginPropose(h) == Op(h) = "propose" /\ Begin(h, "run")
CreateProposal(h) ==
    /\ At(h, "propose", "run")
    /\ proposal' = [proposal EXCEPT ![h] = NewProposal(Account(h), Body(h))]
    /\ Goto(h, "complete", Null)
    /\ UNCHANGED <<support, profile, override, observation, event, historyVars, pathVars, idem>>

\* withdraw(): one guarded UPDATE, without a key.
WithdrawProposal(h, who, p) ==
    /\ call[h].at = "idle" /\ proposal[p].status = "SUBMITTED" /\ proposal[p].author = AccountOf[who]
    /\ proposal[p].version < MaxVersion
    /\ proposal' = [proposal EXCEPT ![p] = [proposal[p] EXCEPT !.status = "WITHDRAWN", !.version = proposal[p].version + 1]]
    /\ Answer(h, "OK")
    /\ UNCHANGED <<support, profile, override, observation, event, historyVars, pathVars, idem>>

\* FacilitationService: a temporary facilitation is inserted without a key.
ReadTemporary(h) ==
    /\ At(h, "plain", "once")
    /\ IF HasAssignment(Who(h), Supported(h)) THEN Goto(h, "insert", Null) ELSE Answer(h, "SUPPORT_STUDENT_NOT_ASSIGNED")
    /\ UNCHANGED <<tableVars, historyVars, pathVars, idem>>

InsertTemporary(h) ==
    /\ At(h, "plain", "insert")
    /\ profile' = [profile EXCEPT ![h] = NewProfile(Supported(h), Body(h).category, "SESSION_ONLY", Null)]
    /\ Answer(h, "OK")
    /\ UNCHANGED <<support, proposal, override, observation, event, historyVars, pathVars, idem>>

IsCurrent(row, student, category) ==
    row.status = "ACTIVE" /\ row.level = "PROFILE_LEVEL" /\ row.student = student /\ row.category = category
Superseded(student, category) ==
    [i \in Ids |-> IF IsCurrent(profile[i], student, category) THEN [profile[i] EXCEPT !.status = "SUPERSEDED"] ELSE profile[i]]

\* supportTeacherApply, PROFILE_LEVEL: the two statements of apply() run outside a
\* transaction here.
ReadApplier(h) == Checks(h, "apply", HasAssignment(Who(h), Supported(h)))
BeginApply(h) == Op(h) = "apply" /\ Begin(h, "run")

SupersedeProfile(h) ==
    /\ At(h, "apply", "run")
    /\ profile' = Superseded(Supported(h), Body(h).category)
    /\ Goto(h, "insert", Null)
    /\ UNCHANGED <<support, proposal, override, observation, event, historyVars, pathVars, idem>>

\* The unique index refuses a second current row, as an error of the database.
InsertProfile(h) ==
    /\ At(h, "apply", "insert")
    /\ IF \E i \in Ids : IsCurrent(profile[i], Supported(h), Body(h).category)
       THEN Throws(h, "ERROR", TRUE) /\ UNCHANGED profile
       ELSE /\ profile' = [profile EXCEPT ![h] = NewProfile(Supported(h), Body(h).category, "PROFILE_LEVEL", Null)]
            /\ Goto(h, "complete", Null)
    /\ UNCHANGED <<support, proposal, override, observation, event, historyVars, pathVars, idem>>

\* supportTeacherCreateDifficultyOverride
ReadCalibrator(h) == Checks(h, "difficulty", HasAssignment(Who(h), Supported(h)))
BeginDifficulty(h) == Op(h) = "difficulty" /\ Begin(h, "run")
CreateOverride(h) ==
    /\ At(h, "difficulty", "run")
    /\ override' = [override EXCEPT ![h] = NewOverride(Supported(h), Null)]
    /\ Goto(h, "complete", Null)
    /\ UNCHANGED <<support, proposal, profile, observation, event, historyVars, pathVars, idem>>

WrongIsAuthor(h, p) == asked[h].who = proposal[p].author   \* compares the membership

\* The proposer is an account: it may hold a second role in the school.
IsAuthor(h, p) == Account(h) = proposal[p].author

\* FacilitationProposalService.review up to begin()
ReadReviewer(h) ==
    LET p == Body(h).target
    IN /\ At(h, "review", "read")
       /\ IF proposal[p].status = "ABSENT" THEN Answer(h, "VALIDATION_ERROR")
          ELSE IF IsAuthor(h, p) THEN Answer(h, "STAFF_FORBIDDEN")
          ELSE IF ~Reviewable(Who(h), proposal[p].student) THEN Answer(h, "VALIDATION_ERROR")
          ELSE Goto(h, "begin", Null)
       /\ lately' = [lately EXCEPT ![h] = FALSE]
       /\ UNCHANGED <<tableVars, asked, adjusted, pathVars, idem>>

BeginReview(h) == Op(h) = "review" /\ Begin(h, "run")

WrongCanReview(h, p) ==                \* the UPDATE only asks for the version it has read itself
    ~IsAuthor(h, p)

\* The WHERE clause of FacilitationProposalRepository.review.
CanReview(h, p) ==
    proposal[p].version = asked[h].version /\ proposal[p].status = "SUBMITTED" /\ ~IsAuthor(h, p)

Reviewed(h, row, status) == [row EXCEPT !.status = status, !.reviewer = Who(h), !.version = @ + 1]

\* An accepted facilitation of a category that support_profile does not know has no effect.
HasEffect(row) == row.type = "FACILITATION" => row.category = "TOOLS"

\* The effect of an acceptance, with the state transition in one transaction.
TakesEffect(h, p) ==
    LET row == proposal[p]
    IN /\ profile' = IF row.type = "FACILITATION" /\ HasEffect(row)
                     THEN [Superseded(row.student, row.category) EXCEPT ![h] =
                             NewProfile(row.student, row.category, "PROFILE_LEVEL", p)]
                     ELSE profile
       /\ override' = IF row.type = "DIFFICULTY" THEN [override EXCEPT ![h] = NewOverride(row.student, p)] ELSE override
       /\ policy' = IF row.type = "LEARNING_PATH_ADJUSTMENT" THEN Adjusted(row.student, h, row.state, row.ref) ELSE policy
       /\ adjusted' = IF row.type = "LEARNING_PATH_ADJUSTMENT" THEN adjusted \union {<<h, p>>} ELSE adjusted

\* reviewInTransaction: what it throws rolls the transition back.
ReviewInTransaction(h) ==
    LET p == Body(h).target
    IN /\ At(h, "review", "run")
       /\ proposal[p].version < MaxVersion /\ \A place \in Places : policy[place].version < MaxVersion
       /\ IF ~CanReview(h, p)
             \/ (Body(h).decision = "ACCEPT" /\ proposal[p].type = "LEARNING_PATH_ADJUSTMENT" /\ ~Adjustable(proposal[p].student, proposal[p].state))
          THEN Throws(h, "ETAG_MISMATCH", FALSE) /\ UNCHANGED <<proposal, profile, override, policy, adjusted>>
          ELSE /\ proposal' = [proposal EXCEPT ![p] = Reviewed(h, @, IF Body(h).decision = "ACCEPT" THEN "ACCEPTED" ELSE "REJECTED")]
               /\ IF Body(h).decision = "ACCEPT" THEN TakesEffect(h, p) ELSE UNCHANGED <<profile, override, policy, adjusted>>
               /\ Goto(h, "complete", Null)
       /\ UNCHANGED <<support, observation, event, asked, lately, alternative, idem>>

\* LearningPathPolicyService and LearningPathAlternativeService
ReadPolicyParent(h) ==
    /\ At(h, "policy", "read")
    /\ ReadParent(h, Body(h).place, Manages(Who(h), Body(h).place))
    /\ UNCHANGED <<tableVars, historyVars>>
BeginPolicy(h) == Op(h) = "policy" /\ Begin(h, "run")
CreatePolicy(h) == At(h, "policy", "run") /\ UpsertPolicy(h, Body(h).place) /\ UNCHANGED <<tableVars, historyVars>>

ReadExisting(h) ==
    Checks(h, "inherit", \E place \in Places : policy[place].id = Body(h).target /\ Manages(Who(h), place))
BeginInherit(h) == Op(h) = "inherit" /\ Begin(h, "run")
RevertToInherit(h) == At(h, "inherit", "run") /\ DeletePolicy(h, Body(h).target) /\ UNCHANGED <<tableVars, historyVars>>

BeginRegister(h) == Op(h) = "register" /\ Begin(h, "run")
RegisterAlternative(h) == At(h, "register", "run") /\ CreateAlternative(h) /\ UNCHANGED <<tableVars, historyVars>>

\* The ends of the try blocks.
Settle(h, op) == Op(h) = op /\ (CompleteRecord(h) \/ FailRecord(h))
SettleAssign(h) == Settle(h, "assign")
SettleEvent(h) == Settle(h, "event")
SettleObserve(h) == Op(h) = "observe" /\ FailRecord(h)
SettlePropose(h) == Settle(h, "propose")
SettleReview(h) == Settle(h, "review")
SettleApply(h) == Settle(h, "apply")
SettleDifficulty(h) == Settle(h, "difficulty")
SettlePolicy(h) == Settle(h, "policy")
SettleInherit(h) == Settle(h, "inherit")
SettleRegister(h) == Settle(h, "register")

----------------------------------------------------------------------------
RefOf(state) == IF state = "DISABLED_WITH_ALTERNATIVE" THEN Refs ELSE {Null}

ProposalBodies(student) ==
    {CreateFacilitationProposal(student, "FACILITATION", c, Null, Null) : c \in {"TOOLS", "OTHER"}}
    \union {CreateFacilitationProposal(student, "DIFFICULTY", Null, Null, Null)}
    \union UNION {{CreateFacilitationProposal(student, "LEARNING_PATH_ADJUSTMENT", Null, state, r) : r \in RefOf(state)}
                     : state \in Offered \ {"UNAVAILABLE_FOR_USE"}}

Routes(h, who) ==
    \/ \E key \in Keys, student \in Students :
          \/ \E member \in Staff : PostSupportAssignment(h, who, key, member, student)
          \/ PostAsacomObservation(h, who, key, student) \/ PostSupportTeacherObservation(h, who, key, student)
          \/ \E body \in ProposalBodies(student) : PostAsacomProposal(h, who, key, body) \/ PostSupportTeacherProposal(h, who, key, body)
          \/ PostApply(h, who, key, student, "TOOLS")
          \/ PostDifficultyOverride(h, who, key, student)
    \/ \E key \in Keys : \/ \E attempt \in Attempts : PostAsacomSupportEvent(h, who, key, attempt) \/ PostSupportTeacherSupportEvent(h, who, key, attempt)
                         \/ \E ref \in Refs : PostAlternative(h, who, key, ref)
                         \/ \E place \in Places, state \in Offered : \E ref \in RefOf(state) : PostPolicy(h, who, key, place, state, ref)
    \/ \E key \in Keys, i \in Ids :
          \/ observation[i] # NoObservation /\ (PostAsacomSupersede(h, who, key, i) \/ PostSupportTeacherSupersede(h, who, key, i))
          \/ \E decision \in {"ACCEPT", "REJECT"}, version \in 1 .. proposal[i].version :
                proposal[i].status # "ABSENT" /\ PostReview(h, who, key, i, decision, version)
          \/ (\E place \in Places : policy[place].id = i) /\ DeletePolicyRoute(h, who, key, i)
    \/ \E student \in Students : PostApplyTemporary(h, who, student)
    \/ \E i \in Ids : \/ \E status \in {"ENDED", "REVOKED"} : EndAssignment(h, who, i, status)
                      \/ WithdrawProposal(h, who, i)

Services(h) ==
    \/ ReadMembership(h) \/ CreateAssignment(h)
    \/ ReadEventScope(h) \/ CreateEvent(h)
    \/ ReadObserver(h) \/ CreateObservation(h) \/ CompleteObservation(h) \/ MarkSuperseded(h)
    \/ ReadProposer(h) \/ CreateProposal(h)
    \/ ReadReviewer(h) \/ ReviewInTransaction(h)
    \/ ReadTemporary(h) \/ InsertTemporary(h)
    \/ ReadApplier(h) \/ SupersedeProfile(h) \/ InsertProfile(h)
    \/ ReadCalibrator(h) \/ CreateOverride(h)
    \/ ReadPolicyParent(h) \/ CreatePolicy(h) \/ ReadExisting(h) \/ RevertToInherit(h) \/ RegisterAlternative(h)
    \/ /\ \/ BeginAssign(h) \/ BeginEvent(h) \/ BeginObserve(h) \/ BeginPropose(h) \/ BeginReview(h) \/ BeginApply(h)
          \/ BeginDifficulty(h) \/ BeginPolicy(h) \/ BeginInherit(h) \/ BeginRegister(h)
          \/ SettleAssign(h) \/ SettleEvent(h) \/ SettleObserve(h) \/ SettlePropose(h) \/ SettleReview(h) \/ SettleApply(h)
          \/ SettleDifficulty(h) \/ SettlePolicy(h) \/ SettleInherit(h) \/ SettleRegister(h)
          \/ StatementFails(h) \/ ProcessDies(h)
       /\ UNCHANGED <<tableVars, historyVars, pathVars>>

Next ==
    \/ \E h \in Calls : (\E who \in Staff : Routes(h, who)) \/ Services(h)
    \/ RetryWindowEnds /\ UNCHANGED <<tableVars, historyVars, pathVars>>

----------------------------------------------------------------------------
(* Properties *)

\* A proposal that was accepted has taken effect once, whichever reviews raced, died
\* after the commit or were sent again; one that was not has none (reviewInTransaction).
AcceptedTakesEffectOnce ==
    \A p \in Ids :
        LET effects == {i \in Ids : profile[i].from = p} \union {i \in Ids : override[i].from = p}
                       \union {h \in Calls : <<h, p>> \in adjusted}
        IN Cardinality(effects) = IF proposal[p].status = "ACCEPTED" /\ HasEffect(proposal[p]) THEN 1 ELSE 0

\* Nobody decides on their own proposal, with whichever of their roles (review).
NoSelfReview ==
    \A p \in Ids : proposal[p].reviewer # Null => AccountOf[proposal[p].reviewer] # proposal[p].author

\* Where the student has a support teacher, the class teacher decides only if the
\* support teacher was assigned after the call had looked (resolveReviewableStudentProfileIds).
SupportTeacherGoesFirst ==
    [][\A p \in Ids : proposal'[p].reviewer # proposal[p].reviewer /\ RoleOf[proposal'[p].reviewer] = "TEACHER" =>
          ~HasSupportTeacher(proposal[p].student) \/ \E h \in Calls : lately[h] /\ Who(h) = proposal'[p].reviewer]_vars

\* What supersedes an observation was made to correct it, by the same author and about
\* the same student, even when two corrections race, or one dies half way and is sent
\* again: no observation disappears behind its corrections (supersede).
CorrectionsAreCorrections ==
    \A i \in Ids : observation[i].by # Null =>
        LET by == observation[i].by
        IN /\ by \in Calls /\ asked[by].about = i
           /\ observation[by].student = observation[i].student /\ observation[by].author = observation[i].author

\* "never two simultaneously-ACTIVE PROFILE_LEVEL rows", and never none where there was
\* one: a facilitation is replaced in one go (SupportProfileRepository.apply).
FacilitationStays ==
    [][\A i \in Ids : IsCurrent(profile[i], profile[i].student, profile[i].category) =>
          \E j \in Ids : IsCurrent(profile'[j], profile[i].student, profile[i].category)]_vars

\* Types, no reviewer of their own proposal, and corrections that correct what they say.
SupportIsSound == TypeOK /\ NoSelfReview /\ CorrectionsAreCorrections

\* The path a student meets is what the policies say and what staff are shown.
PathsAreTrue == LockHolds /\ PreviewsAreTrue
=============================================================================
