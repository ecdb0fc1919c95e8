--------------------------- MODULE StaffSessions ---------------------------
(***************************************************************************)
(* Staff and platform administrators sign in with email and password       *)
(* (StaffAuthService, PlatformAuthService), rotate, switch tenant          *)
(* (TenantContextService) and sign out, while memberships, accounts and    *)
(* tenants change under them (StaffMemberships).  The calls of that module *)
(* are admitted under the identity of a session that is valid then.        *)
(*                                                                         *)
(* A visit is one request of a browser; a session has the name of the      *)
(* visit that creates it.  The two session tables are one function: a      *)
(* platform session is one without a membership.                           *)
(***************************************************************************)
EXTENDS StaffMemberships

CONSTANTS
    Visits,                         \* the requests of browsers
    AbsoluteTtl, InactivityTtl, LockoutDuration,
    MaxFailedLoginAttempts,
    MaxTime                         \* bound on the clock

ASSUME StaffDurationsAssumption ==
    /\ {AbsoluteTtl, InactivityTtl, LockoutDuration, MaxFailedLoginAttempts, MaxTime} \subseteq Nat
    /\ MaxFailedLoginAttempts > 0 /\ Null \notin Nat \union Visits \union {"staff", "platform"}

VARIABLES
    now,           \* the clock
    grant,         \* platform_admin_grant.status, by account
    limited,       \* the login limits other requests have used up in this window
    session,       \* staff_session and platform_admin_session
    visit,         \* the local state of each request
    forked         \* history: logins with two rotations or logouts at once

staffSessionVars == <<now, grant, limited, session, visit, forked>>
staffVars == <<memberVars, staffSessionVars>>

Times == 0 .. (MaxTime + AbsoluteTtl + LockoutDuration)
Surfaces == {"staff", "platform"}

RevokedReasons == {"ROTATED", "USER_LOGOUT", "ABSOLUTE_EXPIRY", "INACTIVITY_TIMEOUT", "ADMIN_REVOKED"}

\* staff_session and platform_admin_session.  login is the visit the chain of rotations began
\* with, loginAt the start of its limit.
StaffSessionRows ==
    [live : BOOLEAN, surface : {"staff"}, account : Emails, member : Memberships, login : Visits, loginAt : Times,
     expiresAt : Times, lastSeenAt : Times, revokedReason : RevokedReasons \union {Null}]
PlatformAdminSessionRows ==
    [live : BOOLEAN, surface : {"platform"}, account : Emails, member : {Null}, login : Visits, loginAt : Times,
     expiresAt : Times, lastSeenAt : Times, revokedReason : RevokedReasons \union {Null}]
NoSession == [live |-> FALSE, surface |-> Null, account |-> Null, member |-> Null, login |-> Null,
              loginAt |-> 0, expiresAt |-> 0, lastSeenAt |-> 0, revokedReason |-> Null]

NewStaffSession(e, m, login) ==
    [live |-> TRUE, surface |-> "staff", account |-> e, member |-> m, login |-> login, loginAt |-> now,
     expiresAt |-> now + AbsoluteTtl, lastSeenAt |-> now, revokedReason |-> Null]
NewPlatformAdminSession(e, login) ==
    [live |-> TRUE, surface |-> "platform", account |-> e, member |-> Null, login |-> login, loginAt |-> now,
     expiresAt |-> now + AbsoluteTtl, lastSeenAt |-> now, revokedReason |-> Null]

Away == [at |-> "idle", surface |-> Null, op |-> Null, email |-> Null, right |-> FALSE, asked |-> Null,
         member |-> Null, session |-> Null, csrf |-> FALSE]

\* asked: the tenant or the membership the client names, or Null.
VisitLocals ==
    [at : {"idle", "limit", "account", "failed", "resolve", "standing", "create", "reset", "valid", "tenant",
           "membership", "touch", "switch", "rotate", "revoke", "done"},
     surface : Surfaces \union {Null}, op : {Null, "start", "refresh", "logout", "context", "switch"},
     email : Emails \union {Null}, right : BOOLEAN, asked : Tenants \union Memberships \union {Null},
     member : Memberships \union {Null}, session : Visits \union {Null}, csrf : BOOLEAN]

StaffTypeOK ==
    /\ MembersTypeOK(Times)
    /\ now \in 0 .. MaxTime
    /\ grant \in [Emails -> {"ABSENT", "ACTIVE", "SUSPENDED"}]
    /\ limited \subseteq {"IP", "EMAIL"}
    /\ session \in [Visits -> StaffSessionRows \union PlatformAdminSessionRows \union {NoSession}]
    /\ visit \in [Visits -> VisitLocals]
    /\ forked \subseteq Visits

SessionsInit(coming, logins, grants, time, used) ==
    /\ now = time
    /\ grant = [e \in Emails |-> IF e \in grants THEN "ACTIVE" ELSE "ABSENT"]
    /\ limited = used
    /\ session = [v \in Visits |-> IF v \in DOMAIN logins THEN logins[v] ELSE NoSession]
    /\ visit = [v \in Visits |-> IF v \in coming THEN Away ELSE [Away EXCEPT !.at = "done"]]
    /\ forked = {}

VisitTo(v, place) == visit' = [visit EXCEPT ![v] = [@ EXCEPT !.at = place]]
\* The answer leaves the server; its code is named for the reader only.
VisitEnds(v, answer) == visit' = [visit EXCEPT ![v] = [Away EXCEPT !.at = "done"]]

----------------------------------------------------------------------------
(* POST /staff-auth/session/start, POST /platform-auth/session/start *)

Opens(v, surface, e, right, asked) ==
    /\ visit[v].at = "idle"
    /\ IF "IP" \in limited THEN VisitEnds(v, "RATE_LIMITED")
       ELSE visit' = [visit EXCEPT ![v] = [@ EXCEPT !.at = "limit", !.surface = surface, !.op = "start",
                                                    !.email = e, !.right = right, !.asked = asked]]
    /\ UNCHANGED <<memberVars, now, grant, limited, session, forked>>

StaffStart(v, e, right, asked) == Opens(v, "staff", e, right, asked)
PlatformStart(v, e, right) == Opens(v, "platform", e, right, Null)

StartEmailLimit(v) ==
    /\ visit[v].at = "limit"
    /\ IF "EMAIL" \in limited THEN VisitEnds(v, "RATE_LIMITED") ELSE VisitTo(v, "account")
    /\ UNCHANGED <<memberVars, now, grant, limited, session, forked>>

\* The account is read once.  A placeholder password is known to nobody.
CheckAccount(v, place) ==
    LET row == account[visit[v].email]
    IN /\ visit[v].at = "account"
       /\ CASE row.status = "ABSENT" -> VisitEnds(v, "AUTH_REQUIRED")
            [] row.status # "ABSENT" /\ row.lockedUntil # Null /\ row.lockedUntil > now -> VisitEnds(v, "ACCOUNT_LOCKED")
            [] OTHER -> IF row.status # "ACTIVE" THEN VisitEnds(v, "AUTH_REQUIRED")
                        ELSE VisitTo(v, IF visit[v].right /\ ~row.requiresPasswordSetup THEN place ELSE "failed")
       /\ UNCHANGED <<memberVars, now, grant, limited, session, forked>>

StaffStartAccount(v) == visit[v].surface = "staff" /\ CheckAccount(v, "resolve")
PlatformStartAccount(v) == visit[v].surface = "platform" /\ CheckAccount(v, "standing")

Least(a, b) == IF a < b THEN a ELSE b

\* recordFailedLogin: one UPDATE.  The count saturates one above the limit.
LoginFailed(row) ==
    LET count == row.failedLoginCount + 1
    IN [row EXCEPT !.failedLoginCount = Least(count, MaxFailedLoginAttempts + 1),
                   !.lockedUntil = IF count >= MaxFailedLoginAttempts THEN now + LockoutDuration ELSE @]

RecordFailedLogin(v) ==
    /\ visit[v].at = "failed"
    /\ account' = [account EXCEPT ![visit[v].email] = LoginFailed(@)]
    /\ VisitEnds(v, "STAFF_AUTH_REQUIRED")
    /\ UNCHANGED <<tenant, membership, invitation, taught, caller, overlap, idem, call,
                   now, grant, limited, session, forked>>

Held(e) == {m \in DOMAIN membership : m[1] = e}

\* The membership a login means, over all of them and not only the active ones: the
\* one named, the only one in the tenant named, the only one, or the only active one.
Resolved(e, asked) ==
    LET one(S) == IF Cardinality(S) = 1 THEN CHOOSE m \in S : TRUE ELSE Null
        active == {m \in Held(e) : membership[m] = "ACTIVE"}
    IN CASE asked \in Memberships -> IF asked \in Held(e) THEN asked ELSE Null
         [] asked \in Tenants     -> one({m \in Held(e) : m[2] = asked})
         [] OTHER                 -> IF one(Held(e)) # Null THEN one(Held(e)) ELSE one(active)

\* The memberships are read here, with the status that decides in the next step.
StartResolve(v) ==
    LET m == Resolved(visit[v].email, visit[v].asked)
    IN /\ visit[v].at = "resolve"
       /\ IF m = Null THEN VisitEnds(v, "VALIDATION_ERROR")
          ELSE visit' = [visit EXCEPT ![v] = [@ EXCEPT !.at = "standing", !.member = m,
                                                       !.right = (membership[m] = "ACTIVE")]]
       /\ UNCHANGED <<memberVars, now, grant, limited, session, forked>>

\* The tenant, then the status read before.
StartTenant(v) ==
    /\ visit[v].at = "standing" /\ visit[v].surface = "staff"
    /\ IF tenant[visit[v].member[2]].status # "ACTIVE" THEN VisitEnds(v, "TENANT_SUSPENDED")
       ELSE IF visit[v].right THEN VisitTo(v, "create") ELSE VisitEnds(v, "STAFF_AUTH_REQUIRED")
    /\ UNCHANGED <<memberVars, now, grant, limited, session, forked>>

StartGrant(v) ==
    /\ visit[v].at = "standing" /\ visit[v].surface = "platform"
    /\ IF grant[visit[v].email] = "ACTIVE" THEN VisitTo(v, "create") ELSE VisitEnds(v, "PLATFORM_AUTH_REQUIRED")
    /\ UNCHANGED <<memberVars, now, grant, limited, session, forked>>

StartCreateStaff(v) ==
    /\ visit[v].at = "create" /\ visit[v].surface = "staff"
    /\ session' = [session EXCEPT ![v] = NewStaffSession(visit[v].email, visit[v].member, v)]
    /\ VisitTo(v, "reset")
    /\ UNCHANGED <<memberVars, now, grant, limited, forked>>

StartCreatePlatform(v) ==
    /\ visit[v].at = "create" /\ visit[v].surface = "platform"
    /\ session' = [session EXCEPT ![v] = NewPlatformAdminSession(visit[v].email, v)]
    /\ VisitTo(v, "reset")
    /\ UNCHANGED <<memberVars, now, grant, limited, forked>>

\* recordSuccessfulLogin: after the session exists, and whatever failed meanwhile.
LoginReset(row) == [row EXCEPT !.failedLoginCount = 0, !.lockedUntil = Null]

RecordSuccessfulLogin(v) ==
    /\ visit[v].at = "reset"
    /\ account' = [account EXCEPT ![visit[v].email] = LoginReset(@)]
    /\ VisitEnds(v, "OK")
    /\ UNCHANGED <<tenant, membership, invitation, taught, caller, overlap, idem, call,
                   now, grant, limited, session, forked>>

----------------------------------------------------------------------------
(* The requests of somebody who is signed in *)

\* revoke(): the first reason stays.
RevokeSession(rows, s, reason) ==
    [rows EXCEPT ![s] = IF @.live THEN [@ EXCEPT !.live = FALSE, !.revokedReason = reason] ELSE @]

Returns(v, op, s, csrf, asked) ==
    /\ visit[v].at = "idle" /\ session[s].login # Null
    /\ visit' = [visit EXCEPT ![v] = [@ EXCEPT !.at = "valid", !.op = op, !.session = s, !.csrf = csrf, !.asked = asked,
                                               !.surface = session[s].surface]]
    /\ UNCHANGED <<memberVars, now, grant, limited, session, forked>>

StaffRefresh(v, s, csrf) == session[s].surface = "staff" /\ Returns(v, "refresh", s, csrf, Null)
StaffLogout(v, s, csrf) == session[s].surface = "staff" /\ Returns(v, "logout", s, csrf, Null)
GetStaffContext(v, s) == session[s].surface = "staff" /\ Returns(v, "context", s, TRUE, Null)
PostSwitchTenant(v, s, csrf, asked) == session[s].surface = "staff" /\ Returns(v, "switch", s, csrf, asked)
PlatformRefresh(v, s, csrf) == session[s].surface = "platform" /\ Returns(v, "refresh", s, csrf, Null)
PlatformLogout(v, s, csrf) == session[s].surface = "platform" /\ Returns(v, "logout", s, csrf, Null)
GetPlatformContext(v, s) == session[s].surface = "platform" /\ Returns(v, "context", s, TRUE, Null)

\* Why resolveActiveSession gives up on a session that is not revoked.
Lapsed(s) ==
    CASE session[s].expiresAt <= now -> "ABSOLUTE_EXPIRY"
      [] session[s].expiresAt > now /\ now - session[s].lastSeenAt >= InactivityTtl -> "INACTIVITY_TIMEOUT"
      [] OTHER -> Null

Usable(s) == session[s].live /\ Lapsed(s) = Null

\* resolveActiveSession with its lazy revocation; refresh and logout check the CSRF
\* token and look no further, the others go on to the tenant and the membership.
ResolveActiveSession(v) ==
    LET s == visit[v].session
        op == visit[v].op
    IN /\ visit[v].at = "valid"
       /\ session' = IF Lapsed(s) = Null THEN session ELSE RevokeSession(session, s, Lapsed(s))
       /\ CASE ~Usable(s) -> VisitEnds(v, IF op = "logout" THEN "OK" ELSE "STAFF_AUTH_REQUIRED")
            [] Usable(s) /\ op \in {"refresh", "logout"} ->
                 (IF visit[v].csrf THEN VisitTo(v, IF op = "refresh" THEN "rotate" ELSE "revoke")
                  ELSE VisitEnds(v, "STAFF_FORBIDDEN"))
            [] Usable(s) /\ op \in {"context", "switch"} -> VisitTo(v, "tenant")
       /\ forked' = IF \E u \in Visits \ {v} : visit[u].at \in {"tenant", "membership", "touch", "switch", "rotate", "revoke"}
                                               /\ visit[u].session = s
                    THEN forked \union {session[s].login} ELSE forked
       /\ UNCHANGED <<memberVars, now, grant, limited>>

StaffResolveActiveSession(v) == visit[v].surface = "staff" /\ ResolveActiveSession(v)
PlatformResolveActiveSession(v) == visit[v].surface = "platform" /\ ResolveActiveSession(v)

\* A suspended tenant ends the session.
ResolveTenant(v) ==
    LET s == visit[v].session
    IN /\ visit[v].at = "tenant" /\ visit[v].surface = "staff"
       /\ IF tenant[session[s].member[2]].status # "ACTIVE"
          THEN session' = RevokeSession(session, s, "ADMIN_REVOKED") /\ VisitEnds(v, "TENANT_SUSPENDED")
          ELSE VisitTo(v, "membership") /\ UNCHANGED session
       /\ UNCHANGED <<memberVars, now, grant, limited, forked>>

\* A platform session has a grant instead, and is not ended.
ResolveGrant(v) ==
    /\ visit[v].at = "tenant" /\ visit[v].surface = "platform"
    /\ IF grant[session[visit[v].session].account] = "ACTIVE" THEN VisitTo(v, "touch")
       ELSE VisitEnds(v, "PLATFORM_AUTH_REQUIRED")
    /\ UNCHANGED <<memberVars, now, grant, limited, session, forked>>

ResolveMembership(v) ==
    /\ visit[v].at = "membership"
    /\ IF IsActive(session[visit[v].session].member) THEN VisitTo(v, "touch")
       ELSE VisitEnds(v, "STAFF_AUTH_REQUIRED")
    /\ UNCHANGED <<memberVars, now, grant, limited, session, forked>>

TouchLastSeen(v) ==
    /\ visit[v].at = "touch"
    /\ session' = [session EXCEPT ![visit[v].session] = [@ EXCEPT !.lastSeenAt = now]]
    /\ CASE visit[v].op = "context" -> VisitEnds(v, "OK")
         [] visit[v].op = "switch" -> IF visit[v].csrf THEN VisitTo(v, "switch") ELSE VisitEnds(v, "STAFF_FORBIDDEN")
    /\ UNCHANGED <<memberVars, now, grant, limited, forked>>

\* The membership named, if it belongs to the caller, or the only active one in the
\* tenant named.
SwitchTarget(e, asked) ==
    LET active == {m \in Held(e) : m[2] = asked /\ membership[m] = "ACTIVE"}
    IN IF asked \in Memberships
       THEN IF asked[1] = e /\ IsActive(asked) THEN asked ELSE Null
       ELSE IF Cardinality(active) = 1 THEN CHOOSE m \in active : TRUE ELSE Null

\* The status of the target's tenant is not looked at.
SwitchFind(v) ==
    LET m == SwitchTarget(session[visit[v].session].account, visit[v].asked)
    IN /\ visit[v].at = "switch"
       /\ IF m = Null THEN VisitEnds(v, "STAFF_FORBIDDEN")
          ELSE visit' = [visit EXCEPT ![v] = [@ EXCEPT !.at = "rotate", !.member = m]]
       /\ UNCHANGED <<memberVars, now, grant, limited, session, forked>>

WrongRotate(v) ==                      \* a rotated session gets a new absolute limit
    LET s == visit[v].session
    IN /\ visit[v].at = "rotate" /\ visit[v].op = "refresh"
       /\ session' = [RevokeSession(session, s, "ROTATED") EXCEPT ![v] =
                        [session[s] EXCEPT !.live = TRUE, !.revokedReason = Null, !.lastSeenAt = now,
                                           !.expiresAt = now + AbsoluteTtl]]
       /\ VisitEnds(v, "OK")
       /\ UNCHANGED <<memberVars, now, grant, limited, forked>>

\* The new row and the revocation of the old one, in one transaction.
Rotate(v) ==
    LET s == visit[v].session
    IN /\ visit[v].at = "rotate" /\ visit[v].op = "refresh"
       /\ session' = [RevokeSession(session, s, "ROTATED") EXCEPT ![v] =
                        [session[s] EXCEPT !.live = TRUE, !.revokedReason = Null, !.lastSeenAt = now]]
       /\ VisitEnds(v, "OK")
       /\ UNCHANGED <<memberVars, now, grant, limited, forked>>

RotateStaff(v) == visit[v].surface = "staff" /\ Rotate(v)
RotatePlatform(v) == visit[v].surface = "platform" /\ Rotate(v)

\* The same for a switch, which starts a new absolute limit.
SwitchTenant(v) ==
    LET s == visit[v].session
    IN /\ visit[v].at = "rotate" /\ visit[v].op = "switch"
       /\ session' = [RevokeSession(session, s, "ROTATED") EXCEPT ![v] =
                        NewStaffSession(session[s].account, visit[v].member, session[s].login)]
       /\ VisitEnds(v, "OK")
       /\ UNCHANGED <<memberVars, now, grant, limited, forked>>

Logout(v) ==
    /\ visit[v].at = "revoke"
    /\ session' = RevokeSession(session, visit[v].session, "USER_LOGOUT")
    /\ VisitEnds(v, "OK")
    /\ UNCHANGED <<memberVars, now, grant, limited, forked>>

LogoutStaff(v) == visit[v].surface = "staff" /\ Logout(v)
LogoutPlatform(v) == visit[v].surface = "platform" /\ Logout(v)

----------------------------------------------------------------------------
(* Calls under an identity: requireStaffIdentity and its platform twin.    *)
(* The request is admitted in one step; a session that does not resolve is *)
(* turned away by the steps above.                                         *)

RequireStaffIdentity(s) ==
    /\ session[s].surface = "staff" /\ Usable(s)
    /\ tenant[session[s].member[2]].status = "ACTIVE"
    /\ IsActive(session[s].member)

RequirePlatformIdentity(s) ==
    session[s].surface = "platform" /\ Usable(s) /\ grant[session[s].account] = "ACTIVE"

Called(h, s) ==
    \E key \in Keys :
        \/ RequireStaffIdentity(s) /\ StaffRoutes(h, Identity(session[s].member), key)
        \/ RequirePlatformIdentity(s) /\ PlatformRoutes(h, session[s].account, key)

CallsUnderSessions ==
    /\ \E h \in Calls :
          \/ /\ \E s \in Visits : /\ Called(h, s)
                                  /\ session' = [session EXCEPT ![s] = [@ EXCEPT !.lastSeenAt = now]]
          \/ InviteeRoutes(h) /\ UNCHANGED session
    /\ UNCHANGED <<tenant, account, membership, invitation, taught, overlap, now, grant, limited, visit, forked>>

Tick ==
    /\ now < MaxTime
    /\ now' = now + 1
    /\ limited' = {}
    /\ UNCHANGED <<memberVars, grant, session, visit, forked>>

VisitNext(v) ==
    \/ \E e \in Emails, right \in BOOLEAN :
          \/ \E asked \in SeedTenants \union Held(e) \union {Null} : StaffStart(v, e, right, asked)
          \/ PlatformStart(v, e, right)
    \/ StartEmailLimit(v) \/ StaffStartAccount(v) \/ PlatformStartAccount(v) \/ RecordFailedLogin(v)
    \/ StartResolve(v) \/ StartTenant(v) \/ StartGrant(v)
    \/ StartCreateStaff(v) \/ StartCreatePlatform(v) \/ RecordSuccessfulLogin(v)
    \/ \E s \in Visits :
          \/ \E csrf \in BOOLEAN :
                \/ StaffRefresh(v, s, csrf) \/ StaffLogout(v, s, csrf)
                \/ PlatformRefresh(v, s, csrf) \/ PlatformLogout(v, s, csrf)
                \/ \E asked \in SeedTenants \union DOMAIN membership :
                      PostSwitchTenant(v, s, csrf, asked)
          \/ GetStaffContext(v, s) \/ GetPlatformContext(v, s)
    \/ StaffResolveActiveSession(v) \/ PlatformResolveActiveSession(v) \/ ResolveTenant(v) \/ ResolveGrant(v) \/ ResolveMembership(v)
    \/ TouchLastSeen(v)
    \/ SwitchFind(v) \/ SwitchTenant(v) 
    \/ RotateStaff(v) \/ RotatePlatform(v) \/ LogoutStaff(v) \/ LogoutPlatform(v)

StaffNext ==
    \/ \E v \in Visits : VisitNext(v)
    \/ CallsUnderSessions
    \/ MembersNext /\ UNCHANGED staffSessionVars
    \/ Tick

----------------------------------------------------------------------------
(* Properties *)

\* A session belongs to the account of its membership, through any chain of logins,
\* rotations and switches (switchTenant trusts no id of the client).
OwnMembership ==
    \A s \in Visits : session[s].surface = "staff" => session[s].member[1] = session[s].account

\* The absolute limit of a session counts from its login or its last switch; rotation
\* never moves it (refresh carries absoluteExpiresAt over).
LimitFromLogin ==
    \A s \in Visits : session[s].login # Null => session[s].expiresAt = session[s].loginAt + AbsoluteTtl

\* A login has one live session at most, also across tenants, unless two of its
\* requests that end a session overlapped (refresh, switchTenant, logout).
OneLiveSession ==
    \A login \in Visits \ forked :
        Cardinality({s \in Visits : session[s].login = login /\ session[s].live}) <= 1

\* An account whose wrong passwords reached the limit has been locked, whichever mix
\* of staff and platform logins failed (recordFailedLogin).
LockedAtLimit ==
    \A e \in Emails : account[e].failedLoginCount >= MaxFailedLoginAttempts => account[e].lockedUntil # Null

\* Types; pending invitations, memberships and class assignments that fit each other; and
\* no member without a way to sign in (invitations, activations, memberships).
MembershipsAreSound ==
    StaffTypeOK /\ OnePendingInvitation /\ MemberCanSignIn /\ TaughtInTenant /\ OwnMembership

\* Rotations and switches of tenant keep the limit of the login and one live session
\* unless two of them overlapped, and an account at its limit is locked.
StaffLoginsAreSound == LimitFromLogin /\ OneLiveSession /\ LockedAtLimit
=============================================================================
