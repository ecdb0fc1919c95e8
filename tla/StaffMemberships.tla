-------------------------- MODULE StaffMemberships --------------------------
(***************************************************************************)
(* Tenants, staff accounts and the memberships that join them:             *)
(*                                                                         *)
(*   StaffInvitationService          createInvitation, acceptInvitation    *)
(*   StaffMembershipService          updateStatus                          *)
(*   SchoolClassManagementService    assignTeacher, unassignTeacher        *)
(*   TenantProvisioningService, TenantStatusService,                       *)
(*   SchoolAdminActivationService, IndependentEducatorActivationService,   *)
(*   IndependentEducatorStatusService                                      *)
(*                                                                         *)
(* (packages/staff-identity, packages/platform-admin).  None of them opens *)
(* a transaction: every statement is a step of its own.  Rows are named by *)
(* their unique key: an account by its email, a membership by account,     *)
(* tenant and role; a tenant or an invitation by the call that inserts it. *)
(***************************************************************************)
EXTENDS ServiceCalls, StaffCapabilities, FiniteSets

CONSTANTS
    SeedTenants, SeedInvitations,   \* rows that exist at the start
    Emails,                         \* normalised email addresses
    SchoolClasses, ClassTenant,     \* school_class, and the tenant of each
    InviteRoles,                    \* the roles that invitations are tried with
    PlatformCapabilities            \* capability_grant, by platform administrator

Tenants == SeedTenants \union Calls
Memberships == Emails \X Tenants \X Roles
InvitationIds == SeedInvitations \union Calls

VARIABLES
    tenant,        \* tenant
    account,       \* staff_account
    membership,    \* staff_tenant_membership: the status of each row
    invitation,    \* staff_invitation
    taught,        \* staff_class_assignment: pairs of membership and class
    caller,        \* staffAccountId of the identity a call is made under
    overlap        \* history: tenants where a membership changed while another call was under way

memberVars == <<tenant, account, membership, invitation, taught, caller, overlap, idem, call>>

TenantRows == [status : {"ABSENT", "ACTIVE", "SUSPENDED"}, type : {Null, "SCHOOL", "INDEPENDENT_EDUCATOR"}]
NoTenant == [status |-> "ABSENT", type |-> Null]
NewTenant(type) == [status |-> "ACTIVE", type |-> type]

\* Accounts are SUSPENDED by hand only; no operation does it.
AccountRows(Times) ==
    [status : {"ABSENT", "ACTIVE", "SUSPENDED"}, requiresPasswordSetup : BOOLEAN,
     failedLoginCount : Nat, lockedUntil : Times \union {Null}]
NoAccount == [status |-> "ABSENT", requiresPasswordSetup |-> FALSE, failedLoginCount |-> 0, lockedUntil |-> Null]
NewAccount(setup) == [NoAccount EXCEPT !.status = "ACTIVE", !.requiresPasswordSetup = setup]

MembershipStatuses == {"INVITED", "ACTIVE", "SUSPENDED", "REVOKED"}

\* No operation sets revoked_at.
InvitationRows == [for : Memberships \union {Null}, consumed : BOOLEAN, expired : BOOLEAN]
NoInvitation == [for |-> Null, consumed |-> FALSE, expired |-> FALSE]
NewInvitation(m) == [NoInvitation EXCEPT !.for = m]

StaffOps == {"invite", "status", "assign", "unassign"}
PlatformOps == {"provision", "tenantStatus", "schoolAdmin", "educator", "educatorStatus"}
\* The scope of a record: the operation with the tenant, or with the platform administrator.
MemberOps == (StaffOps \X Tenants) \union (PlatformOps \X Emails) \union {<<"accept", Null>>}
ASSUME MembershipAssumption ==
    /\ InviteRoles \subseteq Roles /\ SeedInvitations \cap Calls = {}
    /\ Null \notin Memberships \union MemberOps

\* A request body; the fields an operation does not have are Null.
MemberArgs == [email : Emails \union {Null}, tenant : Tenants \union {Null}, role : Roles \union {Null},
               class : SchoolClasses \union {Null}, invitation : InvitationIds \union {Null},
               verb : {Null, "SUSPEND", "REACTIVATE", "REVOKE", "ACTIVE", "SUSPENDED", "password", "none"}]
EmptyBody == [email |-> Null, tenant |-> Null, role |-> Null, class |-> Null, invitation |-> Null, verb |-> Null]
MemberBody(m) == [EmptyBody EXCEPT !.email = m[1], !.tenant = m[2], !.role = m[3]]

MembersInit(tenants, accounts, members, invited, coming) ==
    /\ tenant = [t \in Tenants |-> IF t \in SeedTenants THEN tenants[t] ELSE NoTenant]
    /\ account = [e \in Emails |-> IF e \in DOMAIN accounts THEN accounts[e] ELSE NoAccount]
    /\ membership = members
    /\ invitation = [i \in InvitationIds |-> IF i \in SeedInvitations THEN NewInvitation(invited[i]) ELSE NoInvitation]
    /\ taught = {} /\ overlap = {}
    /\ caller = [h \in Calls |-> Null]
    /\ CallsInit(coming)

MembersTypeOK(Times) ==
    /\ tenant \in [Tenants -> TenantRows]
    /\ account \in [Emails -> AccountRows(Times)]
    /\ DOMAIN membership \subseteq Memberships
    /\ \A m \in DOMAIN membership : membership[m] \in MembershipStatuses
    /\ invitation \in [InvitationIds -> InvitationRows]
    /\ taught \subseteq (Memberships \X SchoolClasses)
    /\ caller \in [Calls -> Emails \union {Null}]
    /\ overlap \subseteq Tenants
    /\ CallsTypeOK(MemberOps, MemberArgs, MembershipStatuses,
                   {"run", "account", "member", "create", "pending", "reinvite", "issue", "password",
                    "consume", "activate", "count", "write", "insert", "tenant", "memberships"})

----------------------------------------------------------------------------
(* The routes.  who is the identity a staff session resolved to, admin the *)
(* account of a platform session.                                          *)

\* What the dashboard's client sends, with a new key for every call.
InviteStaffMember(email, role) == [EmptyBody EXCEPT !.email = email, !.role = role]
UpdateStaffMembershipStatus(m, action) == [MemberBody(m) EXCEPT !.verb = action]
AcceptStaffInvitation(i, password) == [EmptyBody EXCEPT !.invitation = i, !.verb = password]
ActivateSchoolAdmin(t, email) == [EmptyBody EXCEPT !.tenant = t, !.email = email, !.role = "SCHOOL_ADMIN"]
ActivateIndependentEducator(email) == [EmptyBody EXCEPT !.email = email]
AssignTeacherToClass(m, c) == [MemberBody(m) EXCEPT !.class = c]
UnassignTeacherFromClass(m, c) == [MemberBody(m) EXCEPT !.class = c]
SetTenantStatus(t, status) == [EmptyBody EXCEPT !.tenant = t, !.verb = status]
SetIndependentEducatorStatus(t, status) == [EmptyBody EXCEPT !.tenant = t, !.verb = status]

Identity(m) == [account |-> m[1], tenant |-> m[2], role |-> m[3]]

StaffCall(h, who, op, body, key, capability) ==
    /\ Admit(h, <<op, who.tenant>>, body, key, HasStaffCapability(who.role, capability), "begin")
    /\ caller' = [caller EXCEPT ![h] = who.account]

PostInvitations(h, who, key, email, role) ==
    StaffCall(h, who, "invite", InviteStaffMember(email, role), key, "staff.invite")

PatchMember(h, who, key, m, action) ==
    StaffCall(h, who, "status", UpdateStaffMembershipStatus(m, action), key,
              IF action = "REVOKE" THEN "staff.membership.revoke" ELSE "staff.membership.suspend")

PostClassTeachers(h, who, key, m, c) ==
    StaffCall(h, who, "assign", AssignTeacherToClass(m, c), key, "class.teacher.assign")

DeleteClassTeacher(h, who, key, m, c) ==
    StaffCall(h, who, "unassign", UnassignTeacherFromClass(m, c), key, "class.teacher.assign")

\* No session: the token is the credential.
PostAcceptInvitation(h, i, password) ==
    /\ Admit(h, <<"accept", Null>>, AcceptStaffInvitation(i, password), Null, TRUE, "run")
    /\ UNCHANGED caller

AssertCapability(admin, capability) == capability \in PlatformCapabilities[admin]

PlatformCall(h, admin, op, body, key, capability, place) ==
    /\ Admit(h, <<op, admin>>, body, key, AssertCapability(admin, capability), place)
    /\ caller' = [caller EXCEPT ![h] = admin]

PostTenants(h, admin, key) == PlatformCall(h, admin, "provision", EmptyBody, key, "tenant.create", "begin")

PatchTenantStatus(h, admin, t, status) ==
    PlatformCall(h, admin, "tenantStatus", SetTenantStatus(t, status), Null, "tenant.suspend", "run")

PostSchoolAdmins(h, admin, t, email) ==
    PlatformCall(h, admin, "schoolAdmin", ActivateSchoolAdmin(t, email), Null,
                 "school_admin.activate", "run")

PostIndependentEducators(h, admin, key, email) ==
    PlatformCall(h, admin, "educator", ActivateIndependentEducator(email), key,
                 "independent_educator.activate", "begin")

PatchEducatorStatus(h, admin, t, status) ==
    PlatformCall(h, admin, "educatorStatus", SetIndependentEducatorStatus(t, status), Null,
                 "independent_educator.status.manage", "run")

----------------------------------------------------------------------------
(* The parts that several services share *)

Service(h) == IF call[h].op = Null THEN Null ELSE call[h].op[1]
Serving(h, op, place) == call[h].at = place /\ Service(h) = op
Email(h) == call[h].arg.email
Token(h) == call[h].arg.invitation

\* The tenant a call works on.
Home(h) == CASE Service(h) \in StaffOps -> call[h].op[2]
             [] Service(h) = "accept" -> IF invitation[Token(h)].for = Null THEN Null ELSE invitation[Token(h)].for[2]
             [] Service(h) = "educator" -> h
             [] OTHER -> call[h].arg.tenant

\* The membership it works on, and whether the row is there under its tenant.
Target(h) == IF Service(h) = "accept" THEN invitation[Token(h)].for
             ELSE IF Service(h) \in {"status", "assign", "unassign"}
             THEN <<Email(h), call[h].arg.tenant, call[h].arg.role>>
             ELSE <<Email(h), Home(h), IF Service(h) = "educator" THEN "INDEPENDENT_EDUCATOR" ELSE call[h].arg.role>>
Exists(m) == m \in DOMAIN membership
IsActive(m) == Exists(m) /\ membership[m] = "ACTIVE"
Found(h) == Target(h)[2] = Home(h) /\ Exists(Target(h))

\* INSERT and updateStatus.
SetMembership(m, status) ==
    [n \in DOMAIN membership \union {m} |-> IF n = m THEN status ELSE membership[n]]

\* History: another call is between its admission and its last write on the tenant.
Meets(h) ==
    overlap' = IF \E g \in Calls \ {h} : call[g].at \notin {"idle", "complete", "fail", "done"} /\ Home(g) = Home(h)
               THEN overlap \union {Home(h)} ELSE overlap

\* An error: thrown to the catch block if there is one.
Refuses(h, code, retryable) ==
    IF call[h].generation > 0 THEN Throws(h, code, retryable) ELSE Answer(h, code)

\* Reuse by email, or a new account.
FindAccount(h, retryable, found) ==
    CASE account[Email(h)].status = "ABSENT"    -> Goto(h, "account", Null)
      [] account[Email(h)].status = "SUSPENDED" -> Refuses(h, "ACCOUNT_SUSPENDED", retryable)
      [] account[Email(h)].status = "ACTIVE"    -> Goto(h, found, Null)

\* The insert loses against another one of the same email.
InsertAccount(h, setup, place) ==
    IF account[Email(h)].status = "ABSENT"
    THEN account' = [account EXCEPT ![Email(h)] = NewAccount(setup)] /\ Goto(h, place, Null)
    ELSE Refuses(h, "ERROR", TRUE) /\ UNCHANGED account

\* The trigger staff_tenant_membership_role_tenant_type_coherence.
Coherent(m) == (m[3] = "INDEPENDENT_EDUCATOR") <=> (tenant[m[2]].type = "INDEPENDENT_EDUCATOR")

\* The insert loses against the unique key or the trigger.
InsertMembership(h, status, Then) ==
    IF ~Exists(Target(h)) /\ Coherent(Target(h))
    THEN membership' = SetMembership(Target(h), status) /\ Then
    ELSE Refuses(h, "ERROR", TRUE) /\ UNCHANGED membership

----------------------------------------------------------------------------
(* StaffInvitationService.createInvitation *)

BeginInvite(h) == Service(h) = "invite" /\ Begin(h, "run")
SettleInvite(h) == Service(h) = "invite" /\ (CompleteRecord(h) \/ FailRecord(h))

InviteFindAccount(h) ==
    /\ Serving(h, "invite", "run")
    /\ FindAccount(h, FALSE, "member")
    /\ UNCHANGED <<tenant, account, membership, invitation, taught, caller, overlap, idem>>

InviteCreateAccount(h) ==
    /\ Serving(h, "invite", "account")
    /\ InsertAccount(h, TRUE, "member")
    /\ UNCHANGED <<tenant, membership, invitation, taught, caller, overlap, idem>>

InviteFindMembership(h) ==
    /\ Serving(h, "invite", "member")
    /\ IF ~Exists(Target(h)) THEN Goto(h, "create", Null)
       ELSE IF membership[Target(h)] \in {"ACTIVE", "SUSPENDED"} THEN Throws(h, "MEMBERSHIP_ALREADY_ACTIVE", FALSE)
       ELSE Goto(h, "pending", membership[Target(h)])
    /\ UNCHANGED <<tenant, account, membership, invitation, taught, caller, overlap, idem>>

Pending(m) == {i \in InvitationIds : invitation[i].for = m /\ ~invitation[i].consumed /\ ~invitation[i].expired}

InviteFindPending(h) ==
    /\ Serving(h, "invite", "pending")
    /\ CASE Pending(Target(h)) # {} -> Throws(h, "INVITATION_ALREADY_PENDING", FALSE)
         [] Pending(Target(h)) = {} -> Goto(h, IF call[h].got = "REVOKED" THEN "reinvite" ELSE "issue", Null)
    /\ UNCHANGED <<tenant, account, membership, invitation, taught, caller, overlap, idem>>

InviteMember(h) ==
    /\ \/ Serving(h, "invite", "create") /\ InsertMembership(h, "INVITED", Goto(h, "issue", Null))
       \/ /\ Serving(h, "invite", "reinvite")
          /\ membership' = SetMembership(Target(h), "INVITED")
          /\ Goto(h, "issue", Null)
    /\ Meets(h)
    /\ UNCHANGED <<tenant, account, invitation, taught, caller, idem>>

IssueInvitation(h) ==
    /\ Serving(h, "invite", "issue")
    /\ invitation' = [invitation EXCEPT ![h] = NewInvitation(Target(h))]
    /\ Goto(h, "complete", Null)
    /\ Meets(h)
    /\ UNCHANGED <<tenant, account, membership, taught, caller, idem>>

----------------------------------------------------------------------------
(* StaffInvitationService.acceptInvitation: no idempotency record, and     *)
(* five statements.  What consume() returns is not looked at.              *)

AcceptFindInvitation(h) ==
    /\ Serving(h, "accept", "run")
    /\ CASE invitation[Token(h)].for = Null -> Answer(h, "INVITATION_NOT_FOUND")
         [] invitation[Token(h)].consumed -> Answer(h, "INVITATION_ALREADY_CONSUMED")
         [] ~invitation[Token(h)].consumed /\ invitation[Token(h)].expired -> Answer(h, "INVITATION_EXPIRED")
         [] OTHER -> Goto(h, "account", Null)
    /\ UNCHANGED <<tenant, account, membership, invitation, taught, caller, overlap, idem>>

WrongAcceptFindAccount(h) ==           \* a new identity may leave out the password
    /\ Serving(h, "accept", "account")
    /\ Goto(h, IF call[h].arg.verb = "password" THEN "password" ELSE "consume", Null)
    /\ UNCHANGED <<tenant, account, membership, invitation, taught, caller, overlap, idem>>

\* A password is needed by a new identity, and only by it.
AcceptFindAccount(h) ==
    LET setup == account[Target(h)[1]].requiresPasswordSetup
    IN /\ Serving(h, "accept", "account")
       /\ CASE setup # (call[h].arg.verb = "password") -> Answer(h, "VALIDATION_ERROR")
            [] OTHER -> Goto(h, IF setup THEN "password" ELSE "consume", Null)
       /\ UNCHANGED <<tenant, account, membership, invitation, taught, caller, overlap, idem>>

SetPasswordAndClearSetupFlag(row) == [row EXCEPT !.requiresPasswordSetup = FALSE]

AcceptSetPassword(h) ==
    /\ Serving(h, "accept", "password")
    /\ account' = [account EXCEPT ![Target(h)[1]] = SetPasswordAndClearSetupFlag(@)]
    /\ Goto(h, "consume", Null)
    /\ UNCHANGED <<tenant, membership, invitation, taught, caller, overlap, idem>>

Consume(row) == [row EXCEPT !.consumed = TRUE]

AcceptConsume(h) ==
    /\ Serving(h, "accept", "consume")
    /\ invitation' = [invitation EXCEPT ![Token(h)] = Consume(@)]
    /\ Goto(h, "activate", Null)
    /\ UNCHANGED <<tenant, account, membership, taught, caller, overlap, idem>>

\* Whatever the membership has become since it was INVITED.
AcceptActivate(h) ==
    /\ Serving(h, "accept", "activate")
    /\ membership' = SetMembership(Target(h), "ACTIVE")
    /\ Answer(h, "OK")
    /\ Meets(h)
    /\ UNCHANGED <<tenant, account, invitation, taught, caller, idem>>

----------------------------------------------------------------------------
(* StaffMembershipService.updateStatus *)

BeginMemberStatus(h) == Service(h) = "status" /\ Begin(h, "run")
SettleMemberStatus(h) == Service(h) = "status" /\ (CompleteRecord(h) \/ FailRecord(h))

NewStatusByAction == [SUSPEND |-> "SUSPENDED", REACTIVATE |-> "ACTIVE", REVOKE |-> "REVOKED"]
LegalSourceStatuses ==
    [SUSPEND |-> {"ACTIVE"}, REACTIVATE |-> {"SUSPENDED"}, REVOKE |-> {"INVITED", "ACTIVE", "SUSPENDED"}]

OwnAdmin(h) ==
    /\ call[h].arg.verb \in {"SUSPEND", "REVOKE"}
    /\ Target(h)[1] = caller[h] /\ Target(h)[3] = "SCHOOL_ADMIN"

StatusReadTarget(h) ==
    /\ Serving(h, "status", "run")
    /\ CASE ~Found(h) -> Throws(h, "MEMBERSHIP_NOT_FOUND", FALSE)
         [] Found(h) /\ membership[Target(h)] \notin LegalSourceStatuses[call[h].arg.verb] ->
              Throws(h, "MEMBERSHIP_STATUS_UNCHANGED", FALSE)
         [] OTHER -> Goto(h, IF OwnAdmin(h) THEN "count" ELSE "write", Null)
    /\ UNCHANGED <<tenant, account, membership, invitation, taught, caller, overlap, idem>>

ActiveSchoolAdmins(t) == {e \in Emails : IsActive(<<e, t, "SCHOOL_ADMIN">>)}

WrongStatusCountAdmins(h) ==           \* the last administrator may go
    /\ Serving(h, "status", "count")
    /\ Goto(h, "write", Null)
    /\ UNCHANGED <<tenant, account, membership, invitation, taught, caller, overlap, idem>>

StatusCountAdmins(h) ==
    /\ Serving(h, "status", "count")
    /\ IF Cardinality(ActiveSchoolAdmins(Home(h))) <= 1
       THEN Throws(h, "LAST_SCHOOL_ADMIN_PROTECTED", FALSE)
       ELSE Goto(h, "write", Null)
    /\ UNCHANGED <<tenant, account, membership, invitation, taught, caller, overlap, idem>>

StatusWrite(h) ==
    /\ Serving(h, "status", "write")
    /\ membership' = SetMembership(Target(h), NewStatusByAction[call[h].arg.verb])
    /\ Goto(h, "complete", Null)
    /\ Meets(h)
    /\ UNCHANGED <<tenant, account, invitation, taught, caller, idem>>

----------------------------------------------------------------------------
(* SchoolClassManagementService.assignTeacher, unassignTeacher *)

BeginTeaching(h) == Service(h) \in {"assign", "unassign"} /\ Begin(h, "run")
SettleTeaching(h) == Service(h) \in {"assign", "unassign"} /\ (CompleteRecord(h) \/ FailRecord(h))

ClassFound(h) == ClassTenant[call[h].arg.class] = Home(h)
Lesson(h) == <<Target(h), call[h].arg.class>>
Assigned(lesson) == taught \union {lesson}
Deleted(lesson) == taught \ {lesson}

AssignRead(h) ==
    /\ Serving(h, "assign", "run")
    /\ CASE ~ClassFound(h)              -> Throws(h, "CLASS_ACCESS_DENIED", FALSE)
         [] ClassFound(h) /\ ~Found(h)  -> Throws(h, "MEMBERSHIP_NOT_FOUND", FALSE)
         [] ClassFound(h) /\ Found(h) /\ ~(Target(h)[3] = "TEACHER" /\ IsActive(Target(h))) ->
              Throws(h, "TEACHER_MEMBERSHIP_NOT_ACTIVE", FALSE)
         [] OTHER -> IF Lesson(h) \in taught THEN Throws(h, "TEACHER_ALREADY_ASSIGNED", FALSE)
                     ELSE Goto(h, "insert", Null)
    /\ UNCHANGED <<tenant, account, membership, invitation, taught, caller, overlap, idem>>

\* UNIQUE (staff_tenant_membership_id, class_id), and the trigger for teachers only.
AssignInsert(h) ==
    /\ Serving(h, "assign", "insert")
    /\ IF Lesson(h) \in taught \/ Target(h)[3] \notin {"TEACHER", "SUPPORT_TEACHER"}
       THEN Throws(h, "ERROR", TRUE) /\ UNCHANGED taught
       ELSE taught' = Assigned(Lesson(h)) /\ Goto(h, "complete", Null)
    /\ UNCHANGED <<tenant, account, membership, invitation, caller, overlap, idem>>

UnassignTeacher(h) ==
    /\ Serving(h, "unassign", "run")
    /\ CASE ~ClassFound(h) -> Throws(h, "CLASS_ACCESS_DENIED", FALSE) /\ UNCHANGED taught
         [] ClassFound(h) /\ Lesson(h) \notin taught -> Throws(h, "MEMBERSHIP_NOT_FOUND", FALSE) /\ UNCHANGED taught
         [] ClassFound(h) /\ Lesson(h) \in taught -> taught' = Deleted(Lesson(h)) /\ Goto(h, "complete", Null)
    /\ UNCHANGED <<tenant, account, membership, invitation, caller, overlap, idem>>

----------------------------------------------------------------------------
(* The platform administrator's services *)

BeginProvision(h) == Service(h) = "provision" /\ Begin(h, "run")
SettleProvision(h) == Service(h) = "provision" /\ (CompleteRecord(h) \/ FailRecord(h))

CreateSchoolTenant(h) ==
    /\ Serving(h, "provision", "run")
    /\ tenant' = [tenant EXCEPT ![h] = NewTenant("SCHOOL")]
    /\ Goto(h, "complete", Null)
    /\ UNCHANGED <<account, membership, invitation, taught, caller, overlap, idem>>

SetTenant(t, status) == [tenant EXCEPT ![t] = [@ EXCEPT !.status = status]]

\* Of a school or of an educator: the type is not looked at.
TenantStatusRead(h) ==
    /\ Serving(h, "tenantStatus", "run")
    /\ IF tenant[Home(h)].status \in {"ABSENT", call[h].arg.verb}
       THEN Answer(h, "TENANT_STATUS_UNCHANGED") ELSE Goto(h, "write", Null)
    /\ UNCHANGED <<tenant, account, membership, invitation, taught, caller, overlap, idem>>

TenantStatusWrite(h) ==
    /\ Serving(h, "tenantStatus", "write")
    /\ tenant' = SetTenant(Home(h), call[h].arg.verb)
    /\ Answer(h, "OK")
    /\ UNCHANGED <<account, membership, invitation, taught, caller, overlap, idem>>

\* SchoolAdminActivationService: no idempotency record.
AdminReadTenant(h) ==
    /\ Serving(h, "schoolAdmin", "run")
    /\ CASE tenant[Home(h)].status = "ABSENT"    -> Answer(h, "TENANT_NOT_FOUND")
         [] tenant[Home(h)].status = "SUSPENDED" -> Answer(h, "TENANT_SUSPENDED")
         [] tenant[Home(h)].status = "ACTIVE"    -> Goto(h, "tenant", Null)
    /\ UNCHANGED <<tenant, account, membership, invitation, taught, caller, overlap, idem>>

AdminFindAccount(h) ==
    /\ Serving(h, "schoolAdmin", "tenant")
    /\ FindAccount(h, FALSE, "member")
    /\ UNCHANGED <<tenant, account, membership, invitation, taught, caller, overlap, idem>>

AdminCreateAccount(h) ==
    /\ Serving(h, "schoolAdmin", "account")
    /\ InsertAccount(h, FALSE, "member")
    /\ UNCHANGED <<tenant, membership, invitation, taught, caller, overlap, idem>>

\* findByStaffAccountAndTenant: any one of the roles the account has there.
AdminFindMembership(h) ==
    LET held == {m \in DOMAIN membership : m[1] = Email(h) /\ m[2] = Home(h)}
    IN /\ Serving(h, "schoolAdmin", "member")
       /\ \/ held = {} /\ Goto(h, "create", Null)
          \/ \E m \in held : IF m[3] # "SCHOOL_ADMIN" \/ membership[m] = "ACTIVE"
                             THEN Answer(h, "SCHOOL_ADMIN_ALREADY_ACTIVE")
                             ELSE Goto(h, "activate", Null)
       /\ UNCHANGED <<tenant, account, membership, invitation, taught, caller, overlap, idem>>

AdminActivate(h) ==
    /\ \/ /\ Serving(h, "schoolAdmin", "create")
          /\ InsertMembership(h, "ACTIVE", Answer(h, "OK"))
       \/ /\ Serving(h, "schoolAdmin", "activate")
          /\ membership' = SetMembership(Target(h), "ACTIVE")
          /\ Answer(h, "OK")
    /\ Meets(h)
    /\ UNCHANGED <<tenant, account, invitation, taught, caller, idem>>

\* IndependentEducatorActivationService: every failure may be retried.
BeginEducator(h) == Service(h) = "educator" /\ Begin(h, "run")
SettleEducator(h) == Service(h) = "educator" /\ (CompleteRecord(h) \/ FailRecord(h))

EducatorFindAccount(h) ==
    /\ Serving(h, "educator", "run")
    /\ FindAccount(h, TRUE, "memberships")
    /\ UNCHANGED <<tenant, account, membership, invitation, taught, caller, overlap, idem>>

EducatorFindMemberships(h) ==
    /\ Serving(h, "educator", "memberships")
    /\ IF \E t \in Tenants : IsActive(<<Email(h), t, "INDEPENDENT_EDUCATOR">>)
       THEN Throws(h, "INDEPENDENT_EDUCATOR_ALREADY_ACTIVE", TRUE)
       ELSE Goto(h, "tenant", Null)
    /\ UNCHANGED <<tenant, account, membership, invitation, taught, caller, overlap, idem>>

EducatorCreateAccount(h) ==
    /\ Serving(h, "educator", "account")
    /\ InsertAccount(h, FALSE, "tenant")
    /\ UNCHANGED <<tenant, membership, invitation, taught, caller, overlap, idem>>

EducatorCreateTenant(h) ==
    /\ Serving(h, "educator", "tenant")
    /\ tenant' = [tenant EXCEPT ![h] = NewTenant("INDEPENDENT_EDUCATOR")]
    /\ Goto(h, "create", Null)
    /\ UNCHANGED <<account, membership, invitation, taught, caller, overlap, idem>>

EducatorCreateMembership(h) ==
    /\ Serving(h, "educator", "create")
    /\ InsertMembership(h, "ACTIVE", Goto(h, "complete", Null))
    /\ Meets(h)
    /\ UNCHANGED <<tenant, account, invitation, taught, caller, idem>>

\* IndependentEducatorStatusService: the tenant, then its membership, one by one.
EducatorStatusRead(h) ==
    /\ Serving(h, "educatorStatus", "run")
    /\ CASE tenant[Home(h)].type # "INDEPENDENT_EDUCATOR" -> Answer(h, "INDEPENDENT_EDUCATOR_NOT_FOUND")
         [] tenant[Home(h)].type = "INDEPENDENT_EDUCATOR" /\ tenant[Home(h)].status = call[h].arg.verb ->
              Answer(h, "INDEPENDENT_EDUCATOR_STATUS_UNCHANGED")
         [] OTHER -> Goto(h, "write", Null)
    /\ UNCHANGED <<tenant, account, membership, invitation, taught, caller, overlap, idem>>

EducatorStatusWriteTenant(h) ==
    /\ Serving(h, "educatorStatus", "write")
    /\ tenant' = SetTenant(Home(h), call[h].arg.verb)
    /\ Goto(h, "memberships", Null)
    /\ UNCHANGED <<account, membership, invitation, taught, caller, overlap, idem>>

\* The tenant of an educator has one membership, or none if its activation failed.
EducatorStatusWriteMembership(h) ==
    LET held == {m \in DOMAIN membership : m[2] = Home(h) /\ m[3] = "INDEPENDENT_EDUCATOR"}
    IN /\ Serving(h, "educatorStatus", "memberships")
       /\ membership' = [m \in DOMAIN membership |-> IF m \in held THEN call[h].arg.verb ELSE membership[m]]
       /\ Answer(h, "OK")
       /\ Meets(h)
       /\ UNCHANGED <<tenant, account, invitation, taught, caller, idem>>

----------------------------------------------------------------------------
\* Seven days pass.
InvitationExpires(i) ==
    /\ i \in Pending(invitation[i].for) /\ invitation[i].for # Null
    /\ invitation' = [invitation EXCEPT ![i] = [@ EXCEPT !.expired = TRUE]]
    /\ UNCHANGED <<tenant, account, membership, taught, caller, overlap, idem, call>>

StaffRoutes(h, who, key) ==
    \/ \E e \in Emails, r \in InviteRoles : PostInvitations(h, who, key, e, r)
    \/ \E m \in DOMAIN membership :
          \/ \E action \in {"SUSPEND", "REACTIVATE", "REVOKE"} : PatchMember(h, who, key, m, action)
          \/ \E c \in SchoolClasses : PostClassTeachers(h, who, key, m, c) \/ DeleteClassTeacher(h, who, key, m, c)

PlatformRoutes(h, admin, key) ==
    \/ PostTenants(h, admin, key)
    \/ \E e \in Emails : PostIndependentEducators(h, admin, key, e)
    \/ \E t \in {u \in Tenants : tenant[u].status # "ABSENT"} \union {h} :
          \/ \E e \in Emails : PostSchoolAdmins(h, admin, t, e)
          \/ \E status \in {"ACTIVE", "SUSPENDED"} :
                PatchTenantStatus(h, admin, t, status) \/ PatchEducatorStatus(h, admin, t, status)

InviteeRoutes(h) ==
    \E i \in {j \in InvitationIds : invitation[j].for # Null} \union {h}, password \in {"password", "none"} :
        PostAcceptInvitation(h, i, password)

MemberServices(h) ==
    \/ InviteFindAccount(h) \/ InviteCreateAccount(h) \/ InviteFindMembership(h) \/ InviteFindPending(h)
    \/ InviteMember(h) \/ IssueInvitation(h)
    \/ AcceptFindInvitation(h) \/ AcceptFindAccount(h) \/ AcceptSetPassword(h) \/ AcceptConsume(h) \/ AcceptActivate(h)
    \/ StatusReadTarget(h) \/ StatusCountAdmins(h) \/ StatusWrite(h)
    \/ AssignRead(h) \/ AssignInsert(h) \/ UnassignTeacher(h)
    \/ CreateSchoolTenant(h) \/ TenantStatusRead(h) \/ TenantStatusWrite(h)
    \/ AdminReadTenant(h) \/ AdminFindAccount(h) \/ AdminCreateAccount(h) \/ AdminFindMembership(h) \/ AdminActivate(h)
    \/ EducatorFindAccount(h) \/ EducatorFindMemberships(h) \/ EducatorCreateAccount(h) \/ EducatorCreateTenant(h)
    \/ EducatorCreateMembership(h)
    \/ EducatorStatusRead(h) \/ EducatorStatusWriteTenant(h) \/ EducatorStatusWriteMembership(h)
    \/ /\ \/ StatementFails(h) \/ ProcessDies(h)
          \/ BeginInvite(h) \/ BeginMemberStatus(h) \/ BeginTeaching(h) \/ BeginProvision(h) \/ BeginEducator(h)
          \/ SettleInvite(h) \/ SettleMemberStatus(h) \/ SettleTeaching(h) \/ SettleProvision(h) \/ SettleEducator(h)
       /\ UNCHANGED <<tenant, account, membership, invitation, taught, caller, overlap>>

MembersNext ==
    \/ \E h \in Calls : MemberServices(h)
    \/ \E i \in InvitationIds : InvitationExpires(i)
    \/ RetryWindowEnds /\ UNCHANGED <<tenant, account, membership, invitation, taught, caller, overlap>>

----------------------------------------------------------------------------
(* Properties *)

\* A school that has an active administrator keeps one, as long as no membership of
\* the school changed while another call was under way in it
\* (LAST_SCHOOL_ADMIN_PROTECTED of updateStatus).
AdministratorRemains ==
    [][\A t \in Tenants : ActiveSchoolAdmins(t) # {} /\ t \notin overlap' => ActiveSchoolAdmins(t)' # {}]_memberVars

\* A membership has one pending invitation at most, whatever failed or was retried
\* before, unless calls of its school met (INVITATION_ALREADY_PENDING).
OnePendingInvitation ==
    \A m \in DOMAIN membership : m[2] \notin overlap => Cardinality(Pending(m)) <= 1

\* Whoever was activated by an invitation has a password of their own, also when
\* acceptances race or stop half way (acceptInvitation).
MemberCanSignIn ==
    \A m \in DOMAIN membership :
        m[3] \in {"TEACHER", "SUPPORT_TEACHER", "ASACOM"} /\ membership[m] \in {"ACTIVE", "SUSPENDED"}
        => ~account[m[1]].requiresPasswordSetup

\* A class is taught by teachers of its own tenant, whichever ids a client sends
\* (assignTeacher).
TaughtInTenant ==
    \A lesson \in taught : lesson[1][2] = ClassTenant[lesson[2]] /\ lesson[1][3] = "TEACHER"
=============================================================================
