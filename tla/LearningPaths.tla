--------------------------- MODULE LearningPaths ---------------------------
(***************************************************************************)
(* Which content a student may open: the policies that staff write at the  *)
(* scopes PLATFORM, SCHOOL, CLASS and STUDENT, and the resolution that     *)
(* combines them (packages/learning-path-control).  The policies of        *)
(* different resources do not meet, so there is one resource here.         *)
(*                                                                         *)
(* A scope without a policy inherits: its row is NoPolicy.  What an        *)
(* identity may manage, and the frame of the calls, come from the module   *)
(* that extends this one.                                                  *)
(***************************************************************************)
EXTENDS ServiceCalls, StaffCapabilities, Naturals, SequencesExt

CONSTANTS
    Students, StudentClass,         \* student_profile, and the class of the current enrolment
    Classes,
    Refs,                           \* content named as an alternative
    MaxVersion                      \* bound on the versions of a row

VARIABLES
    policy,        \* learning_path_policy by scope and what it refers to
    alternative    \* learning_path_alternative: the refs registered

pathVars == <<policy, alternative>>

Restrictions == {"DISABLED", "DISABLED_AND_WAIVED", "DISABLED_WITH_ALTERNATIVE", "UNAVAILABLE_FOR_USE"}
States == {"ENABLED"} \union Restrictions

ScopeOrder == <<"PLATFORM", "SCHOOL", "CLASS", "STUDENT">>
Places == {<<"PLATFORM", Null>>, <<"SCHOOL", Null>>} \union ({"CLASS"} \X Classes) \union ({"STUDENT"} \X Students)

\* id stands for public_id: a row inserted again has another.
PolicyRows(Ids) == [state : States \union {"INHERIT"}, id : Ids, alternative : Refs \union {Null}, version : 0 .. MaxVersion]
NoPolicy == [state |-> "INHERIT", id |-> Null, alternative |-> Null, version |-> 0]

\* The CHECK constraints of the table.
PolicyCheck(place, row) ==
    /\ row.state = "UNAVAILABLE_FOR_USE" => place[1] = "PLATFORM"
    /\ (row.state = "DISABLED_WITH_ALTERNATIVE") <=> (row.alternative # Null)

\* upsert(): INSERT ... ON CONFLICT DO UPDATE keeps the identity of the row.
Upserted(row, id, state, ref) ==
    [state |-> state, id |-> IF row = NoPolicy THEN id ELSE row.id, alternative |-> ref, version |-> row.version + 1]

PathsTypeOK(Ids) ==
    /\ policy \in [Places -> PolicyRows(Ids \union {Null})]
    /\ \A p \in Places : PolicyCheck(p, policy[p])
    /\ alternative \subseteq Refs

----------------------------------------------------------------------------
(* resolveEffectiveAvailability *)

\* findForResource and toPoliciesByScope: the state at each scope, as a class and a
\* student (or neither) see it.
PoliciesByScope(class, student) ==
    [s \in Range(ScopeOrder) |->
        CASE s = "CLASS"   -> IF class = Null THEN "INHERIT" ELSE policy[<<s, class>>].state
          [] s = "STUDENT" -> IF student = Null THEN "INHERIT" ELSE policy[<<s, student>>].state
          [] OTHER         -> policy[<<s, Null>>].state]

WrongLayer(acc, scope, state) ==       \* no hard lock: the lowest scope decides
    IF state = "INHERIT" THEN acc
    ELSE [acc EXCEPT !.state = state, !.source = scope]

\* One turn of the loop over the scopes: a lock of a higher scope is not lifted.
Layer(acc, scope, state) ==
    IF state = "INHERIT" THEN acc
    ELSE IF acc.state \in Restrictions /\ state = "ENABLED" THEN [acc EXCEPT !.shadowed = @ \union {scope}]
    ELSE [acc EXCEPT !.state = state, !.source = scope]

Requirement(state) ==
    CASE state = "DISABLED_WITH_ALTERNATIVE" -> "alternative"
      [] state = "ENABLED"                   -> "required"
      [] OTHER                               -> "waived"

\* The loop runs over a constant list, so its turns are written out.
Resolve(byScope) ==
    LET turn(acc, scope) == Layer(acc, scope, byScope[scope])
        platform == turn([state |-> "ENABLED", source |-> "PLATFORM", shadowed |-> {}], "PLATFORM")
        end == turn(turn(turn(platform, "SCHOOL"), "CLASS"), "STUDENT")
    IN [available |-> end.state = "ENABLED", requirement |-> Requirement(end.state), source |-> end.source,
        shadowed |-> end.shadowed]

\* resolveEffective and resolveEffectiveForLaunch: the class is that of the enrolment.
EffectiveFor(student) == Resolve(PoliciesByScope(StudentClass[student], student))

\* What lies above a scope, for a write at that scope.
ParentOf(place) ==
    LET class == CASE place[1] = "STUDENT" -> StudentClass[place[2]]
                   [] place[1] = "CLASS"   -> place[2]
                   [] OTHER                -> Null
    IN Resolve([PoliciesByScope(class, Null) EXCEPT ![place[1]] = "INHERIT"])

----------------------------------------------------------------------------
(* What staff are shown *)

\* findForClassAndStudents: the rows that reach a class or some of its students.
RowsReaching(class, students) ==
    {p \in Places : /\ policy[p] # NoPolicy
                    /\ p[1] = "CLASS" => p[2] = class
                    /\ p[1] = "STUDENT" => p[2] \in students}

\* toPoliciesByScope, of rows with one at each scope.
ByScope(rows) ==
    [s \in Range(ScopeOrder) |-> LET at == {p \in rows : p[1] = s}
                                 IN IF at = {} THEN "INHERIT" ELSE policy[CHOOSE p \in at : TRUE].state]

\* The previews have an entry for each resource with a row: here one or none.
PreviewClass(class) ==
    LET rows == RowsReaching(class, {s \in Students : StudentClass[s] = class})
    IN IF rows = {} THEN {} ELSE {Resolve(ByScope({p \in rows : p[1] # "STUDENT"}))}

PreviewStudent(student) ==
    LET rows == RowsReaching(StudentClass[student], {student})
    IN IF rows = {} THEN {} ELSE {Resolve(ByScope(rows))}

\* list() and computeShadowed: the rows reported as without effect.
Shadowed ==
    {p \in Places :
        LET student == IF p[1] = "STUDENT" THEN p[2] ELSE Null
            class == CASE p[1] = "STUDENT" -> StudentClass[student] [] p[1] = "CLASS" -> p[2] [] OTHER -> Null
        IN policy[p] # NoPolicy /\ p[1] \in Resolve(PoliciesByScope(class, student)).shadowed}

----------------------------------------------------------------------------
(* The services.  May(h, place) says whether the caller manages the scope. *)

NeedsWaiver(state) == state \in {"DISABLED_AND_WAIVED", "DISABLED_WITH_ALTERNATIVE"}

\* LearningPathPolicyService.create up to begin(): the alternative and the lock above
\* are looked at here, and not again.
ReadParent(h, place, may) ==
    LET body == call[h].arg
    IN /\ IF ~may THEN Answer(h, "LEARNING_PATH_POLICY_FORBIDDEN")
          ELSE IF body.state = "DISABLED_WITH_ALTERNATIVE" /\ body.ref \notin alternative
          THEN Answer(h, "LEARNING_PATH_ALTERNATIVE_INVALID")
          ELSE IF body.state = "ENABLED" /\ ~ParentOf(place).available
          THEN Answer(h, "LEARNING_PATH_PARENT_DISABLED")
          ELSE Goto(h, "begin", Null)
       /\ UNCHANGED <<pathVars, idem>>

\* A row that breaks a CHECK is an error of the database, hence retryable.
UpsertPolicy(h, place) ==
    LET row == Upserted(policy[place], h, call[h].arg.state, call[h].arg.ref)
    IN /\ policy[place].version < MaxVersion
       /\ IF PolicyCheck(place, row)
          THEN policy' = [policy EXCEPT ![place] = row] /\ Goto(h, "complete", Null)
          ELSE Throws(h, "ERROR", TRUE) /\ UNCHANGED policy
       /\ UNCHANGED <<alternative, idem>>

\* LearningPathPolicyService.delete: the row read is the one deleted, or none is.
DeletePolicy(h, id) ==
    /\ IF \E p \in Places : policy[p].id = id
       THEN /\ policy' = [p \in Places |-> IF policy[p].id = id THEN NoPolicy ELSE policy[p]]
            /\ Goto(h, "complete", Null)
       ELSE Throws(h, "VALIDATION_ERROR", FALSE) /\ UNCHANGED policy
    /\ UNCHANGED <<alternative, idem>>

\* LearningPathAlternativeService.create
CreateAlternative(h) ==
    /\ alternative' = alternative \union {call[h].arg.ref}
    /\ Goto(h, "complete", Null)
    /\ UNCHANGED <<policy, idem>>

\* applyLearningPathAdjustmentAcceptance, in the transaction of a review: the lock above
\* is looked at, the right to waive and the alternative are not.
Adjustable(student, state) == state = "ENABLED" => ParentOf(<<"STUDENT", student>>).available

Adjusted(student, id, state, ref) ==
    [policy EXCEPT ![<<"STUDENT", student>>] =
        Upserted(@, id, state, IF state = "DISABLED_WITH_ALTERNATIVE" THEN ref ELSE Null)]

----------------------------------------------------------------------------
(* Properties *)

\* The resolution, which takes the scopes one after the other, says what the contract
\* of the hard lock says of the whole chain: content is available exactly when no scope
\* restricts it; the lowest restriction names the reason; the permissions below the
\* highest restriction are the shadowed ones.  So a permission written while a higher
\* scope was being locked never opens the content (resolveEffectiveAvailability).
LockHolds ==
    \A student \in Students :
        LET at == PoliciesByScope(StudentClass[student], student)
            effective == EffectiveFor(student)
            locks == {i \in 1 .. 4 : at[ScopeOrder[i]] \in Restrictions}
        IN /\ effective.available <=> locks = {}
           /\ locks # {} => /\ effective.source = ScopeOrder[Max(locks)]
                            /\ effective.shadowed = {ScopeOrder[i] : i \in {j \in 1 .. 4 : j > Min(locks) /\ at[ScopeOrder[j]] = "ENABLED"}}

\* What staff are shown is what students meet: the preview of a student is the decision
\* of the launch gate, content closed in the preview of a class is closed to all its
\* students, and without a row listed as shadowed every student would be where they are
\* (list, previewClass, previewStudent).
PreviewsAreTrue ==
    /\ \A s \in Students : PreviewStudent(s) \subseteq {EffectiveFor(s)}
    /\ \A c \in Classes : \A r \in PreviewClass(c) :
           ~r.available => \A s \in Students : StudentClass[s] = c => ~EffectiveFor(s).available
    /\ \A p \in Shadowed, s \in Students :
           LET without == Resolve(ByScope(RowsReaching(StudentClass[s], {s}) \ {p}))
           IN without.available = EffectiveFor(s).available /\ without.source = EffectiveFor(s).source
=============================================================================
