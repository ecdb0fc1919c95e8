----------------------------- MODULE ClassRoster -----------------------------
(***************************************************************************)
(* The classes of one tenant, their access codes and their rosters:        *)
(*                                                                         *)
(*   SchoolClassManagementService   create, issueAccessCode, update,       *)
(*                                  archive                                *)
(*   RosterManagementService        addStudent, removeStudent              *)
(*                                                                         *)
(* (packages/staff-identity/src/services).  Rows are named by the call     *)
(* that inserts them, or by a seed.  Transactions run at READ COMMITTED:   *)
(* what one reads inside it may have changed when it commits, so the read  *)
(* of the current access code and the commit are two steps.                *)
(***************************************************************************)
EXTENDS ServiceCalls, StaffCapabilities, FiniteSets

CONSTANTS
    SeedClasses, SeedEnrollments,   \* rows that exist at the start
    Aliases,                        \* normalised access aliases
    Staff,                          \* the identities the calls are made under
    RoleOf, ScopeOf                 \* their role and class scope

ClassIds == SeedClasses \union Calls
CodeIds == SeedClasses \union Calls            \* a class's first code has its name
Students == SeedEnrollments \union Calls       \* a seed's student has its name
EnrollmentIds == SeedEnrollments \union Calls

ASSUME RosterAssumption ==
    /\ SeedClasses \cap Calls = {} /\ SeedEnrollments \cap Calls = {}
    /\ Null \notin ClassIds \union EnrollmentIds \union Aliases

VARIABLES
    class,         \* school_class.status
    code,          \* class_access_code
    profile,       \* student_profile: the students that exist
    enrollment,    \* school_enrollment
    overlap        \* history: classes with two code transactions at once

rosterVars == <<class, code, profile, enrollment, overlap, idem, call>>

ClassStatuses == {"ABSENT", "ACTIVE", "ARCHIVED"}

CodeRows == [status : {"ABSENT", "ACTIVE", "REVOKED"}, class : ClassIds \union {Null}]
NoCode == [status |-> "ABSENT", class |-> Null]

EnrollmentRows(Times) ==
    [status : {"ABSENT", "INVITED", "ACTIVE", "SUSPENDED", "LEFT"},
     class : ClassIds \union {Null}, student : Students \union {Null}, alias : Aliases \union {Null},
     failedPinCount : Nat, pinLockedUntil : Times \union {Null}]
NoEnrollment == [status |-> "ABSENT", class |-> Null, student |-> Null, alias |-> Null,
                 failedPinCount |-> 0, pinLockedUntil |-> Null]

NewCode(c) == [status |-> "ACTIVE", class |-> c]
NewEnrollment(c, s, a) == [NoEnrollment EXCEPT !.status = "ACTIVE", !.class = c, !.student = s, !.alias = a]

Ops == {"create", "issue", "update", "archive", "add", "remove"}

\* A request body: the class, and for a roster call the student and the alias.
\* Student Null is mode NEW.
Args == [class : ClassIds \union {Null}, student : Students \union {Null},
         alias : Aliases \union {Null}]
Body(c, s, a) == [class |-> c, student |-> s, alias |-> a]

RosterInit(rows, coming) ==
    /\ class = [c \in ClassIds |-> IF c \in SeedClasses THEN "ACTIVE" ELSE "ABSENT"]
    /\ code = [k \in CodeIds |-> IF k \in SeedClasses THEN NewCode(k) ELSE NoCode]
    /\ profile = SeedEnrollments
    /\ enrollment = [e \in EnrollmentIds |-> IF e \in SeedEnrollments THEN rows[e] ELSE NoEnrollment]
    /\ overlap = {}
    /\ CallsInit(coming)

RosterTypeOK(Times) ==
    /\ class \in [ClassIds -> ClassStatuses]
    /\ code \in [CodeIds -> CodeRows]
    /\ profile \subseteq Students
    /\ enrollment \in [EnrollmentIds -> EnrollmentRows(Times)]
    /\ overlap \subseteq ClassIds
    /\ CallsTypeOK(Ops, Args, CodeIds \union Students \union EnrollmentIds,
                   {"run", "find", "commit", "collide", "insert", "leave"})

----------------------------------------------------------------------------
(* The routes *)

Entitled(by, capability, c) ==
    /\ HasStaffCapability(RoleOf[by], capability)
    /\ c = Null \/ IsClassInScope(RoleOf[by], ScopeOf[by], c)

\* What the dashboard's client sends, with a new key for every call.
NewClassRequest == Body(Null, Null, Null)
RenameClass(c) == Body(c, Null, Null)
ArchiveRequest(c) == Body(c, Null, Null)
RegenerateClassAccessCode(c) == Body(c, Null, Null)
AddStudentToRoster(c, s, a) == Body(c, s, a)
RemoveStudentFromRoster(c, s) == Body(c, s, Null)

PostClasses(h, by, key) ==
    Admit(h, "create", NewClassRequest, key, Entitled(by, "class.create", Null), "begin")

PatchClass(h, by, key, c) ==
    Admit(h, "update", RenameClass(c), key, Entitled(by, "class.manage", c), "begin")

PostClassArchive(h, by, key, c) ==
    Admit(h, "archive", ArchiveRequest(c), key, Entitled(by, "class.manage", c), "begin")

PostClassAccessCode(h, by, key, c) ==
    Admit(h, "issue", RegenerateClassAccessCode(c), key, Entitled(by, "class.manage", c), "begin")

PostClassStudents(h, by, key, c, s, a) ==
    Admit(h, "add", AddStudentToRoster(c, s, a), key, Entitled(by, "roster.manage", c), "begin")

DeleteClassStudent(h, by, key, c, s) ==
    Admit(h, "remove", RemoveStudentFromRoster(c, s), key, Entitled(by, "roster.manage", c), "begin")

----------------------------------------------------------------------------
(* SchoolClassManagementService *)

At(h, op, place) == call[h].op = op /\ call[h].at = place
Target(h) == call[h].arg.class

ActiveCodes(c) == {k \in CodeIds : code[k].status = "ACTIVE" /\ code[k].class = c}

Revoke(codes, existing) ==
    IF existing = Null THEN codes ELSE [codes EXCEPT ![existing] = [@ EXCEPT !.status = "REVOKED"]]

SetArchived(c) == [class EXCEPT ![c] = "ARCHIVED"]

\* withIdempotency, around every operation of this service.
ClassOps == {"create", "issue", "update", "archive"}
BeginClassCall(h) == call[h].op \in ClassOps /\ Begin(h, "run")
SettleClassCall(h) == call[h].op \in ClassOps /\ (CompleteRecord(h) \/ FailRecord(h))

\* The class and its first code, in one transaction.
CreateClass(h) ==
    /\ At(h, "create", "run")
    /\ class' = [class EXCEPT ![h] = "ACTIVE"]
    /\ code' = [code EXCEPT ![h] = NewCode(h)]
    /\ Goto(h, "complete", Null)
    /\ UNCHANGED <<profile, enrollment, overlap, idem>>

\* issueAccessCode and archive refuse a class that is archived already.
ReadClass(h) ==
    /\ At(h, "issue", "run") \/ At(h, "archive", "run")
    /\ CASE class[Target(h)] = "ABSENT"   -> Throws(h, "CLASS_ACCESS_DENIED", FALSE)
         [] class[Target(h)] = "ARCHIVED" -> Throws(h, "CLASS_ALREADY_ARCHIVED", FALSE)
         [] class[Target(h)] = "ACTIVE"   -> Goto(h, "find", Null)
    /\ overlap' = IF \E g \in Calls \ {h} : /\ call[g].op \in {"issue", "archive"}
                                            /\ call[g].at \in {"find", "commit"}
                                            /\ Target(g) = Target(h)
                  THEN overlap \union {Target(h)} ELSE overlap
    /\ UNCHANGED <<class, code, profile, enrollment, idem>>

\* The transaction reads the current code (one of them, if there are several).
FindActiveCode(h) ==
    /\ At(h, "issue", "find") \/ At(h, "archive", "find")
    /\ \/ \E k \in ActiveCodes(Target(h)) : Goto(h, "commit", k)
       \/ ActiveCodes(Target(h)) = {} /\ Goto(h, "commit", Null)
    /\ UNCHANGED <<class, code, profile, enrollment, overlap, idem>>

WrongIssueAccessCode(h) ==             \* the current code is left as it is
    /\ At(h, "issue", "commit")
    /\ code' = [code EXCEPT ![h] = NewCode(Target(h))]
    /\ Goto(h, "complete", Null)
    /\ UNCHANGED <<class, profile, enrollment, overlap, idem>>

IssueAccessCode(h) ==
    /\ At(h, "issue", "commit")
    /\ code' = [Revoke(code, call[h].got) EXCEPT ![h] = NewCode(Target(h))]
    /\ Goto(h, "complete", Null)
    /\ UNCHANGED <<class, profile, enrollment, overlap, idem>>

ArchiveClass(h) ==
    /\ At(h, "archive", "commit")
    /\ class' = SetArchived(Target(h))
    /\ code' = Revoke(code, call[h].got)
    /\ Goto(h, "complete", Null)
    /\ UNCHANGED <<profile, enrollment, overlap, idem>>

\* The name is not modelled; an archived class can be renamed.
UpdateClass(h) ==
    /\ At(h, "update", "run")
    /\ \/ class[Target(h)] = "ABSENT" /\ Throws(h, "CLASS_ACCESS_DENIED", FALSE)
       \/ class[Target(h)] # "ABSENT" /\ Goto(h, "complete", Null)
    /\ UNCHANGED <<class, code, profile, enrollment, overlap, idem>>

----------------------------------------------------------------------------
(* RosterManagementService *)

BeginAdd(h) == call[h].op = "add" /\ Begin(h, "run")
SettleAdd(h) == call[h].op = "add" /\ (CompleteRecord(h) \/ FailRecord(h))
BeginRemove(h) == call[h].op = "remove" /\ Begin(h, "run")
SettleRemove(h) == call[h].op = "remove" /\ (CompleteRecord(h) \/ FailRecord(h))

NewProfile(h) == profile \union {h}

\* The class, then the student: mode NEW inserts the profile before it is known
\* whether the alias is free.
AddStudentProfile(h) ==
    LET s == call[h].arg.student
    IN /\ At(h, "add", "run")
       /\ \/ /\ class[Target(h)] = "ABSENT"
             /\ Throws(h, "CLASS_ACCESS_DENIED", FALSE)
             /\ UNCHANGED profile
          \/ /\ class[Target(h)] # "ABSENT" /\ s = Null
             /\ profile' = NewProfile(h)
             /\ Goto(h, "collide", h)
          \/ /\ class[Target(h)] # "ABSENT" /\ s # Null
             /\ IF s \in profile THEN Goto(h, "collide", s) ELSE Throws(h, "STUDENT_NOT_FOUND", FALSE)
             /\ UNCHANGED profile
       /\ UNCHANGED <<class, code, enrollment, overlap, idem>>

FindByAlias(c, a) == {e \in EnrollmentIds : enrollment[e].class = c /\ enrollment[e].alias = a}
AliasTaken(c, a) == FindByAlias(c, a) # {}
InClass(c, s) == {e \in EnrollmentIds : enrollment[e].class = c /\ enrollment[e].student = s}

CheckCollisions(h) ==
    /\ At(h, "add", "collide")
    /\ IF AliasTaken(Target(h), call[h].arg.alias) \/ InClass(Target(h), call[h].got) # {}
       THEN Throws(h, "STUDENT_ALREADY_ENROLLED", FALSE)
       ELSE Goto(h, "insert", call[h].got)
    /\ UNCHANGED <<class, code, profile, enrollment, overlap, idem>>

\* The insert is refused by the unique index on (class_id, access_alias_normalized);
\* nothing keeps a student from a second enrolment under another alias.
InsertEnrollment(h) ==
    /\ At(h, "add", "insert")
    /\ \/ /\ AliasTaken(Target(h), call[h].arg.alias)
          /\ Throws(h, "ERROR", TRUE)
          /\ UNCHANGED enrollment
       \/ /\ ~AliasTaken(Target(h), call[h].arg.alias)
          /\ enrollment' = [enrollment EXCEPT ![h] = NewEnrollment(Target(h), call[h].got, call[h].arg.alias)]
          /\ Goto(h, "complete", Null)
    /\ UNCHANGED <<class, code, profile, overlap, idem>>

\* The student's enrolment in the class (one of them, if there are several).
ReadEnrollment(h) ==
    LET found == InClass(Target(h), call[h].arg.student)
    IN /\ At(h, "remove", "run")
       /\ \/ class[Target(h)] = "ABSENT" /\ Throws(h, "CLASS_ACCESS_DENIED", FALSE)
          \/ class[Target(h)] # "ABSENT" /\ found = {} /\ Throws(h, "STUDENT_NOT_FOUND", FALSE)
          \/ /\ class[Target(h)] # "ABSENT"
             /\ \E e \in found : IF enrollment[e].status = "LEFT"
                                 THEN Throws(h, "ENROLLMENT_NOT_ACTIVE", FALSE)
                                 ELSE Goto(h, "leave", e)
       /\ UNCHANGED <<class, code, profile, enrollment, overlap, idem>>

\* setStatus is unconditional.
SetStatus(e, status) == [enrollment EXCEPT ![e] = [@ EXCEPT !.status = status]]

LeaveClass(h) ==
    /\ At(h, "remove", "leave")
    /\ enrollment' = SetStatus(call[h].got, "LEFT")
    /\ Goto(h, "complete", Null)
    /\ UNCHANGED <<class, code, profile, overlap, idem>>

----------------------------------------------------------------------------
\* The ids a client may send: those of rows, and one that names no row yet.
Known(ids, h) == ids \union {h}

RosterRoutes(h) ==
    \E by \in Staff, key \in Keys :
        \/ PostClasses(h, by, key)
        \/ \E c \in Known({k \in ClassIds : class[k] # "ABSENT"}, h) :
              \/ PatchClass(h, by, key, c)
              \/ PostClassArchive(h, by, key, c)
              \/ PostClassAccessCode(h, by, key, c)
              \/ \E s \in Known(profile, h) \union {Null}, a \in Aliases : PostClassStudents(h, by, key, c, s, a)
              \/ \E s \in Known(profile, h) : DeleteClassStudent(h, by, key, c, s)

RosterServices(h) ==
    \/ CreateClass(h) \/ ReadClass(h) \/ FindActiveCode(h) \/ IssueAccessCode(h)
    \/ ArchiveClass(h) \/ UpdateClass(h)
    \/ AddStudentProfile(h) \/ CheckCollisions(h) \/ InsertEnrollment(h)
    \/ ReadEnrollment(h) \/ LeaveClass(h)
    \/ /\ \/ RosterRoutes(h) \/ StatementFails(h) \/ ProcessDies(h)
          \/ BeginClassCall(h) \/ BeginAdd(h) \/ BeginRemove(h)
          \/ SettleClassCall(h) \/ SettleAdd(h) \/ SettleRemove(h)
       /\ UNCHANGED <<class, code, profile, enrollment, overlap>>

RosterNext ==
    \/ \E h \in Calls : RosterServices(h)
    \/ RetryWindowEnds /\ UNCHANGED <<class, code, profile, enrollment, overlap>>

----------------------------------------------------------------------------
(* Properties *)

\* As long as no two transactions on the codes of a class overlapped, it has at most
\* one ACTIVE code, and none once archived (issueAccessCode, archive).
OneCodeUnlessOverlap ==
    \A c \in ClassIds \ overlap :
        /\ Cardinality(ActiveCodes(c)) <= 1
        /\ class[c] = "ARCHIVED" => ActiveCodes(c) = {}

\* Two enrolments of a class never share an alias, whoever adds them at the same
\* time: session/start finds at most one row (addStudent).
OneEnrollmentPerAlias ==
    \A d, e \in EnrollmentIds :
        enrollment[d].status # "ABSENT" /\ enrollment[e].status # "ABSENT"
        /\ enrollment[d].class = enrollment[e].class /\ enrollment[d].alias = enrollment[e].alias
        => d = e
=============================================================================
