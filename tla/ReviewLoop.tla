----------------------------- MODULE ReviewLoop -----------------------------
(***************************************************************************)
(* What the staff do about attempts: review items are claimed and closed   *)
(* (ReviewService), feedback is written, published and revoked             *)
(* (FeedbackService), recovery and general assignments are made            *)
(* (RecoveryAssignmentService, GeneralAssignmentService); students see     *)
(* what is published.                                                      *)
(*                                                                         *)
(* Every statement is a step.  An item and a feedback carry a version, and *)
(* the client sends the one it has seen (If-Match), which is not part of   *)
(* the request hash.  Feedback and assignments have the name of the call   *)
(* that inserts them.                                                      *)
(***************************************************************************)
EXTENDS ServiceCalls, StaffCapabilities, Naturals, FiniteSets

CONSTANTS
    Staff, StaffRole, StaffScope,   \* staff identities, their roles and classes
    Attempts, AttemptClass,         \* learning_attempt, and the class of its assignment
    Items, ItemAttempt,             \* review_queue_item, created by the system
    Notes,                          \* teacher_feedback rows that exist at the start
    Classes,
    Bundles, PublishedBundles,      \* content_bundle
    MaxVersion                      \* bound on the versions

NoteIds == Notes \union Calls

VARIABLES
    item,          \* review_queue_item
    feedback,      \* teacher_feedback
    assignment,    \* assignment, the ones made here
    actor,         \* the identity of a call
    seen           \* the version a call acts on

reviewVars == <<item, feedback, assignment, actor, seen>>
vars == <<reviewVars, callVars>>

ItemStatuses == {"OPEN", "IN_REVIEW", "RESOLVED", "DISMISSED"}
ItemRows == [status : ItemStatuses, version : 1 .. MaxVersion, reviewer : Staff \union {Null}]
NewItem == [status |-> "OPEN", version |-> 1, reviewer |-> Null]

NoteRows ==
    [publicationStatus : {"ABSENT", "DRAFT", "PUBLISHED", "REVOKED"},
     deliveryStatus : {"NOT_APPLICABLE", "PENDING"}, version : 1 .. MaxVersion,
     attempt : Attempts \union {Null}, origin : Items \union {Null}, recovery : Calls \union {Null}]
NoNote == [publicationStatus |-> "ABSENT", deliveryStatus |-> "NOT_APPLICABLE", version |-> 1,
           attempt |-> Null, origin |-> Null, recovery |-> Null]
NewNote(a, i) == [NoNote EXCEPT !.publicationStatus = "DRAFT", !.attempt = a, !.origin = i]

\* The CHECK of teacher_feedback.
NoteCheck(n) == (n.publicationStatus \in {"ABSENT", "DRAFT"}) <=> (n.deliveryStatus = "NOT_APPLICABLE")

\* scope is the record the row was made under; it is not a column.
AssignmentRows(Scopes) ==
    [originType : {Null, "STAFF_GENERAL", "RECOVERY_FROM_REVIEW"}, class : Classes \union {Null},
     attempt : Attempts \union {Null}, note : NoteIds \union {Null}, channels : BOOLEAN, scope : Scopes]
NoAssignment == [originType |-> Null, class |-> Null, attempt |-> Null, note |-> Null, channels |-> FALSE,
                 scope |-> <<Null, Null>>]

\* The record of each operation is scoped by the item, attempt or feedback.
Ops == ({"status"} \X Items) \union ({"create", "recovery"} \X Attempts)
       \union ({"publish", "revoke"} \X NoteIds) \union {<<"general", Null>>}
ASSUME ConstantsAssumption == /\ AttemptClass \in [Attempts -> Classes] /\ Notes \cap Calls = {}
                              /\ MaxVersion \in Nat /\ MaxVersion >= 3
ASSUME NullOutside ==
    Null \notin Calls \union Ops \union {"status", "create", "publish", "revoke", "recovery", "general",
                                      "STAFF_GENERAL", "RECOVERY_FROM_REVIEW"}

NoBody == [target |-> Null, origin |-> Null, bundle |-> Null, class |-> Null]
Args == [target : ItemStatuses \union {Null}, origin : Items \union NoteIds \union {Null},
         bundle : Bundles \union {Null}, class : Classes \union {Null}]

ReviewInit(items, notes, coming) ==
    /\ item = items
    /\ feedback = [n \in NoteIds |-> IF n \in Notes THEN notes[n] ELSE NoNote]
    /\ assignment = [h \in Calls |-> NoAssignment]
    /\ actor = [h \in Calls |-> Null]
    /\ seen = [h \in Calls |-> 0]
    /\ CallsInit(coming)

TypeOK ==
    /\ item \in [Items -> ItemRows]
    /\ feedback \in [NoteIds -> NoteRows]
    /\ \A n \in NoteIds : NoteCheck(feedback[n])
    /\ assignment \in [Calls -> AssignmentRows((Ops \X Keys) \union {<<Null, Null>>})]
    /\ actor \in [Calls -> Staff \union {Null}]
    /\ seen \in [Calls -> 0 .. MaxVersion]
    /\ CallsTypeOK(Ops, Args, ItemStatuses, {"read", "run", "origin", "resolve", "channels", "link"})

----------------------------------------------------------------------------
(* What the dashboard's client sends, with a new key for every call *)

TransitionReviewItemStatus(target) == [NoBody EXCEPT !.target = target]
CreateTeacherFeedback(origin) == [NoBody EXCEPT !.origin = origin]
CreateRecoveryAssignment(n, bundle) == [NoBody EXCEPT !.origin = n, !.bundle = bundle]
CreateGeneralAssignment(bundle, class) == [NoBody EXCEPT !.bundle = bundle, !.class = class]

----------------------------------------------------------------------------
(* The routes.  A client has seen the version it sends. *)

Asks(h, who, op, id, body, key, entitled, version, place) ==
    /\ Admit(h, <<op, id>>, body, key, entitled, place)
    /\ actor' = [actor EXCEPT ![h] = who]
    /\ seen' = [seen EXCEPT ![h] = version]
    /\ UNCHANGED <<item, feedback, assignment>>

PostReviewStatus(h, who, key, i, target, version) ==
    Asks(h, who, "status", i, TransitionReviewItemStatus(target), key, TRUE, version, "read")

PostAttemptFeedback(h, who, key, a, origin) ==
    Asks(h, who, "create", a, CreateTeacherFeedback(origin), key, TRUE, 0, "read")

PostFeedbackPublish(h, who, key, n, version) ==
    Asks(h, who, "publish", n, NoBody, key, TRUE, version, "read")

PostFeedbackRevoke(h, who, key, n, version) ==
    Asks(h, who, "revoke", n, NoBody, key, TRUE, version, "read")

PostRecoveryAssignment(h, who, key, a, n, bundle) ==
    Asks(h, who, "recovery", a, CreateRecoveryAssignment(n, bundle), key, TRUE, 0, "read")

PostAssignments(h, who, key, class, bundle) ==
    Asks(h, who, "general", Null, CreateGeneralAssignment(bundle, class), key,
         HasStaffCapability(StaffRole[who], "assignment.create")
           /\ IsClassInScope(StaffRole[who], StaffScope[who], class), 0, "begin")

----------------------------------------------------------------------------
(* The services *)

Op(h) == IF call[h].op = Null THEN Null ELSE call[h].op[1]
Subject(h) == call[h].op[2]
At(h, op, place) == call[h].at = place /\ Op(h) = op
InScope(h, a) == IsClassInScope(StaffRole[actor[h]], StaffScope[actor[h]], AttemptClass[a])

\* ReviewService.transitionStatus: the item is read before begin(), its status
\* decides after it, and the UPDATE is guarded by the client's version alone.
ReadItem(h) ==
    /\ At(h, "status", "read")
    /\ IF InScope(h, ItemAttempt[Subject(h)]) THEN Goto(h, "begin", item[Subject(h)].status)
       ELSE Answer(h, "REVIEW_ITEM_NOT_FOUND")
    /\ UNCHANGED <<item, feedback, assignment, actor, seen, idem>>

BeginStatus(h) == Op(h) = "status" /\ Begin(h, "run")

AllowedTransitions ==
    [OPEN |-> {"IN_REVIEW", "RESOLVED", "DISMISSED"}, IN_REVIEW |-> {"OPEN", "RESOLVED", "DISMISSED"},
     RESOLVED |-> {"OPEN"}, DISMISSED |-> {"OPEN"}]

Active(status) == status \in {"OPEN", "IN_REVIEW"}
\* The partial unique index on the attempt.
OtherActive(i) == \E j \in Items \ {i} : ItemAttempt[j] = ItemAttempt[i] /\ Active(item[j].status)

WrongTransition(row, version, status, who) ==    \* the UPDATE forgets the version
    [row EXCEPT !.status = status, !.version = @ + 1, !.reviewer = IF status = "OPEN" THEN Null ELSE who]

\* transitionStatus of the repository, where the version matches.
Transition(row, version, status, who) ==
    IF row.version # version THEN row
    ELSE [row EXCEPT !.status = status, !.version = @ + 1, !.reviewer = IF status = "OPEN" THEN Null ELSE who]

TransitionItem(h) ==
    LET i == Subject(h)
        target == call[h].arg.target
        row == Transition(item[i], seen[h], target, actor[h])
    IN /\ At(h, "status", "run") /\ item[i].version < MaxVersion
       /\ IF target \notin AllowedTransitions[call[h].got]
          THEN Throws(h, "VALIDATION_ERROR", FALSE) /\ UNCHANGED item
          ELSE IF row = item[i] \/ (Active(target) /\ OtherActive(i))
          THEN Throws(h, "ETAG_MISMATCH", TRUE) /\ UNCHANGED item
          ELSE item' = [item EXCEPT ![i] = row] /\ Goto(h, "complete", Null)
       /\ UNCHANGED <<feedback, assignment, actor, seen, idem>>

\* FeedbackService.create
ResolveAttemptScope(h) ==
    /\ At(h, "create", "read")
    /\ IF InScope(h, Subject(h)) THEN Goto(h, "begin", Null) ELSE Answer(h, "CLASS_ACCESS_DENIED")
    /\ UNCHANGED <<item, feedback, assignment, actor, seen, idem>>

BeginCreate(h) == Op(h) = "create" /\ Begin(h, "run")

\* The item named as its origin may be of any attempt of the tenant.
CreateFeedback(h) ==
    /\ At(h, "create", "run")
    /\ feedback' = [feedback EXCEPT ![h] = NewNote(Subject(h), call[h].arg.origin)]
    /\ Goto(h, "complete", Null)
    /\ UNCHANGED <<item, assignment, actor, seen, idem>>

\* FeedbackService.publish and revoke look at the status before begin(): the retry of
\* what was done is refused there, not replayed.
ReadFeedback(h, op, status) ==
    /\ At(h, op, "read")
    /\ IF feedback[Subject(h)].publicationStatus = "ABSENT" THEN Answer(h, "CLASS_ACCESS_DENIED")
       ELSE IF ~InScope(h, feedback[Subject(h)].attempt) THEN Answer(h, "CLASS_ACCESS_DENIED")
       ELSE IF feedback[Subject(h)].publicationStatus # status THEN Answer(h, "FEEDBACK_NOT_PUBLISHABLE")
       ELSE Goto(h, "begin", Null)
    /\ UNCHANGED <<item, feedback, assignment, actor, seen, idem>>

ReadDraft(h) == ReadFeedback(h, "publish", "DRAFT")
BeginPublish(h) == Op(h) = "publish" /\ Begin(h, "run")

Publish(row) == [row EXCEPT !.publicationStatus = "PUBLISHED", !.deliveryStatus = "PENDING", !.version = @ + 1]

PublishFeedback(h) ==
    LET n == Subject(h)
    IN /\ At(h, "publish", "run")
       /\ IF feedback[n].version = seen[h] /\ feedback[n].publicationStatus = "DRAFT"
          THEN /\ feedback' = [feedback EXCEPT ![n] = Publish(@)]
               /\ Goto(h, IF feedback[n].origin = Null THEN "complete" ELSE "origin", Null)
          ELSE Throws(h, "ETAG_MISMATCH", TRUE) /\ UNCHANGED feedback
       /\ UNCHANGED <<item, assignment, actor, seen, idem>>

Origin(h) == feedback[Subject(h)].origin

WrongReadOrigin(h) ==                  \* an item somebody has claimed is left to them
    /\ At(h, "publish", "origin")
    /\ Goto(h, IF item[Origin(h)].status = "OPEN" THEN "resolve" ELSE "complete", Null)
    /\ seen' = [seen EXCEPT ![h] = item[Origin(h)].version]
    /\ UNCHANGED <<item, feedback, assignment, actor, idem>>

ReadOrigin(h) ==
    /\ At(h, "publish", "origin")
    /\ Goto(h, IF Active(item[Origin(h)].status) THEN "resolve" ELSE "complete", Null)
    /\ seen' = [seen EXCEPT ![h] = item[Origin(h)].version]
    /\ UNCHANGED <<item, feedback, assignment, actor, idem>>

\* Whether the item moved meanwhile is not looked at.
ResolveOrigin(h) ==
    /\ At(h, "publish", "resolve") /\ item[Origin(h)].version < MaxVersion
    /\ item' = [item EXCEPT ![Origin(h)] = Transition(@, seen[h], "RESOLVED", actor[h])]
    /\ Goto(h, "complete", Null)
    /\ UNCHANGED <<feedback, assignment, actor, seen, idem>>

ReadPublished(h) == ReadFeedback(h, "revoke", "PUBLISHED")
BeginRevoke(h) == Op(h) = "revoke" /\ Begin(h, "run")

RevokeNote(row) == [row EXCEPT !.publicationStatus = "REVOKED", !.version = @ + 1]

RevokeFeedback(h) ==
    LET n == Subject(h)
    IN /\ At(h, "revoke", "run")
       /\ IF feedback[n].version = seen[h] /\ feedback[n].publicationStatus = "PUBLISHED"
          THEN feedback' = [feedback EXCEPT ![n] = RevokeNote(@)] /\ Goto(h, "complete", Null)
          ELSE Throws(h, "ETAG_MISMATCH", TRUE) /\ UNCHANGED feedback
       /\ UNCHANGED <<item, assignment, actor, seen, idem>>

\* RecoveryAssignmentService.create: from published feedback on the attempt.  Whether
\* the content is published is not looked at.
Source(h) == call[h].arg.origin

ReadSource(h) ==
    /\ At(h, "recovery", "read")
    /\ IF ~InScope(h, Subject(h)) \/ feedback[Source(h)].attempt # Subject(h) THEN Answer(h, "CLASS_ACCESS_DENIED")
       ELSE IF feedback[Source(h)].publicationStatus # "PUBLISHED"
       THEN Answer(h, "RECOVERY_ASSIGNMENT_SOURCE_NOT_PUBLISHED")
       ELSE Goto(h, "begin", Null)
    /\ UNCHANGED <<item, feedback, assignment, actor, seen, idem>>

BeginRecovery(h) == Op(h) = "recovery" /\ Begin(h, "run")

CreateRecovery(h) ==
    /\ At(h, "recovery", "run")
    /\ assignment' = [assignment EXCEPT ![h] =
                        [NoAssignment EXCEPT !.originType = "RECOVERY_FROM_REVIEW", !.attempt = Subject(h),
                                             !.class = AttemptClass[Subject(h)], !.note = Source(h), !.scope = Scope(h)]]
    /\ Goto(h, "channels", Null)
    /\ UNCHANGED <<item, feedback, actor, seen, idem>>

WrongInsertChannels(h) ==              \* the link to the feedback is forgotten
    /\ call[h].at = "channels"
    /\ assignment' = [assignment EXCEPT ![h] = [@ EXCEPT !.channels = TRUE]]
    /\ Goto(h, "complete", Null)
    /\ UNCHANGED <<item, feedback, actor, seen, idem>>

\* One INSERT for each runtime channel, after the row itself.
InsertChannels(h) ==
    /\ call[h].at = "channels"
    /\ assignment' = [assignment EXCEPT ![h] = [@ EXCEPT !.channels = TRUE]]
    /\ Goto(h, IF Op(h) = "recovery" THEN "link" ELSE "complete", Null)
    /\ UNCHANGED <<item, feedback, actor, seen, idem>>

SetRecoveryAssignment(h) ==
    /\ At(h, "recovery", "link")
    /\ feedback' = [feedback EXCEPT ![Source(h)] = [@ EXCEPT !.recovery = h]]
    /\ Goto(h, "complete", Null)
    /\ UNCHANGED <<item, assignment, actor, seen, idem>>

\* GeneralAssignmentService.create
BeginGeneral(h) == Op(h) = "general" /\ Begin(h, "run")

CreateGeneral(h) ==
    /\ At(h, "general", "run")
    /\ IF call[h].arg.bundle \in PublishedBundles
       THEN /\ assignment' = [assignment EXCEPT ![h] =
                                [NoAssignment EXCEPT !.originType = "STAFF_GENERAL", !.class = call[h].arg.class,
                                                     !.scope = Scope(h)]]
            /\ Goto(h, "channels", Null)
       ELSE Throws(h, "ASSIGNMENT_CONTENT_NOT_PUBLISHED", FALSE) /\ UNCHANGED assignment
    /\ UNCHANGED <<item, feedback, actor, seen, idem>>

\* The ends of the try blocks.
SettleStatus(h) == Op(h) = "status" /\ (CompleteRecord(h) \/ FailRecord(h))
SettleCreate(h) == Op(h) = "create" /\ (CompleteRecord(h) \/ FailRecord(h))
SettlePublish(h) == Op(h) = "publish" /\ (CompleteRecord(h) \/ FailRecord(h))
SettleRevoke(h) == Op(h) = "revoke" /\ (CompleteRecord(h) \/ FailRecord(h))
SettleRecovery(h) == Op(h) = "recovery" /\ (CompleteRecord(h) \/ FailRecord(h))
SettleGeneral(h) == Op(h) = "general" /\ (CompleteRecord(h) \/ FailRecord(h))

----------------------------------------------------------------------------
Routes(h, who, key) ==
    \/ \E i \in Items, target \in ItemStatuses, version \in 1 .. MaxVersion :
          version <= item[i].version /\ PostReviewStatus(h, who, key, i, target, version)
    \/ \E a \in Attempts, origin \in Items \union {Null} : PostAttemptFeedback(h, who, key, a, origin)
    \/ \E n \in NoteIds, version \in 1 .. MaxVersion :
          /\ version <= feedback[n].version
          /\ PostFeedbackPublish(h, who, key, n, version) \/ PostFeedbackRevoke(h, who, key, n, version)
    \/ \E a \in Attempts, n \in NoteIds, bundle \in Bundles : PostRecoveryAssignment(h, who, key, a, n, bundle)
    \/ \E class \in Classes, bundle \in Bundles : PostAssignments(h, who, key, class, bundle)

Services(h) ==
    \/ ReadItem(h) \/ TransitionItem(h)
    \/ ResolveAttemptScope(h) \/ CreateFeedback(h)
    \/ ReadDraft(h) \/ PublishFeedback(h) \/ ReadOrigin(h) \/ ResolveOrigin(h)
    \/ ReadPublished(h) \/ RevokeFeedback(h)
    \/ ReadSource(h) \/ CreateRecovery(h) \/ InsertChannels(h) \/ SetRecoveryAssignment(h)
    \/ CreateGeneral(h)
    \/ /\ \/ BeginStatus(h) \/ BeginCreate(h) \/ BeginPublish(h) \/ BeginRevoke(h) \/ BeginRecovery(h) \/ BeginGeneral(h)
          \/ SettleStatus(h) \/ SettleCreate(h) \/ SettlePublish(h) \/ SettleRevoke(h) \/ SettleRecovery(h)
          \/ SettleGeneral(h)
          \/ StatementFails(h) \/ ProcessDies(h)
       /\ UNCHANGED reviewVars

Next ==
    \/ \E h \in Calls : \/ \E who \in Staff, key \in Keys : Routes(h, who, key)
                        \/ Services(h)
    \/ RetryWindowEnds /\ UNCHANGED reviewVars

----------------------------------------------------------------------------
(* Properties *)

\* Items only move along the transitions of the review protocol, one version at a
\* time, although the status that decides is read before begin() and a publication
\* may close the item in between (ReviewService.transitionStatus).
ItemsMoveLegally ==
    [][\A i \in Items : item'[i] # item[i] =>
          /\ item'[i].status \in AllowedTransitions[item[i].status]
          /\ item'[i].version = item[i].version + 1]_vars

\* A publication about to be answered with success has closed the item it came from,
\* or found it closed, or somebody moved the item after it was read (publish).
PublishedClosesItem ==
    \A h \in Calls : At(h, "publish", "complete") /\ Origin(h) # Null =>
        ~Active(item[Origin(h)].status) \/ item[Origin(h)].version > seen[h]

\* A recovery assignment comes from feedback that was published, on the same attempt,
\* whatever was revoked or retried meanwhile (RecoveryAssignmentService.create).
RecoveryFromPublished ==
    \A h \in Calls : assignment[h].originType = "RECOVERY_FROM_REVIEW" =>
        /\ feedback[assignment[h].note].publicationStatus \in {"PUBLISHED", "REVOKED"}
        /\ feedback[assignment[h].note].attempt = assignment[h].attempt

\* A completed record stands for a whole assignment: the row, its channels and, for a
\* recovery, the link from the feedback to it or to one made later.  Replaying the
\* answer never promises half of the work, whichever attempt failed before.
CompletedAssignmentIsWhole ==
    \A s \in DOMAIN idem : idem[s].status = "COMPLETED" /\ s[1][1] \in {"recovery", "general"} =>
        \E h \in Calls : /\ assignment[h].scope = s /\ assignment[h].channels
                         /\ s[1][1] = "recovery" => feedback[assignment[h].note].recovery # Null

\* Types, assignments that are whole once their call is completed, and recoveries that
\* come from feedback that was published.
LoopIsSound == TypeOK /\ CompletedAssignmentIsWhole /\ RecoveryFromPublished
=============================================================================
