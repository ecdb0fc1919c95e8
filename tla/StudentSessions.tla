-------------------------- MODULE StudentSessions --------------------------
(***************************************************************************)
(* Students sign in with a class code, an alias and a PIN, and hold a      *)
(* session that is rotated by refresh, ended by logout, by its absolute    *)
(* and inactivity limits or with its tenant                                *)
(* (packages/identity/src/services/session-service.ts,                     *)
(* class-code-service.ts, rate-limit/fixed-window.ts), while the staff of  *)
(* the tenant change classes, codes and rosters (ClassRoster).             *)
(*                                                                         *)
(* A visit is one request of a student's browser.  Sessions are named by   *)
(* the visit that creates them.  Time is counted in ticks: a rate-limit    *)
(* window is one tick, the other durations are parameters.                 *)
(***************************************************************************)
EXTENDS ClassRoster

CONSTANTS
    Visits,
    AbsoluteTtl, InactivityTtl, LockoutDuration,     \* in ticks
    MaxFailedPinAttempts,
    Limits,                   \* requests per window, by kind of bucket
    MaxTime                   \* bound on the clock

VARIABLES
    now,           \* the clock
    tenant,        \* tenant.status
    window,        \* rate_limit_bucket.count in the current window
    session,       \* student_session
    visit,         \* the local state of each request
    forked         \* history: logins with two rotations or logouts at once

sessionVars == <<now, tenant, window, session, visit, forked>>
vars == <<rosterVars, sessionVars>>

Times == 0 .. (MaxTime + AbsoluteTtl + LockoutDuration)
Kinds == {"CLASS_CODE_RESOLVE_IP", "CLASS_CODE_RESOLVE_CODE", "SESSION_START_IP", "SESSION_START_ENROLLMENT"}

ASSUME DurationsAssumption ==
    /\ {AbsoluteTtl, InactivityTtl, LockoutDuration, MaxFailedPinAttempts, MaxTime} \subseteq Nat
    /\ MaxFailedPinAttempts > 0 /\ Limits \in [Kinds -> Nat]
    /\ Null \notin Nat /\ Null \notin Visits /\ Null # "USER_LOGOUT"

\* One client address and one code; one bucket per alias.
Buckets == Kinds \X (Aliases \union {Null})

\* login is the session the chain of rotations began with.
SessionRows ==
    [live : BOOLEAN, login : Visits \union {Null}, enrollment : EnrollmentIds \union {Null},
     expiresAt : Times, lastSeenAt : Times, loginAt : Times,
     revokedReason : {Null, "ROTATED", "USER_LOGOUT", "ABSOLUTE_EXPIRY", "INACTIVITY_TIMEOUT", "ADMIN_REVOKED"}]
NoSession == [live |-> FALSE, login |-> Null, enrollment |-> Null, expiresAt |-> 0, lastSeenAt |-> 0,
              loginAt |-> 0, revokedReason |-> Null]

NewSession(v, e) ==
    [live |-> TRUE, login |-> v, enrollment |-> e, expiresAt |-> now + AbsoluteTtl,
     lastSeenAt |-> now, loginAt |-> now, revokedReason |-> Null]

Away == [at |-> "idle", code |-> Null, alias |-> Null, pin |-> Null, row |-> Null, invited |-> FALSE,
         session |-> Null, csrf |-> FALSE, op |-> Null]

VisitLocals ==
    [at      : {"idle", "code", "limit", "alias", "failed", "reset", "activate", "create",
                "lookup", "resolve", "rotate", "revoke", "touch", "done"},
     code    : CodeIds \union {Null},
     alias   : Aliases \union {Null},
     pin     : {Null, "right", "wrong"},
     row     : EnrollmentIds \union {Null},
     invited : BOOLEAN,                           \* the enrolment was INVITED when it was read
     session : Visits \union {Null},
     csrf    : BOOLEAN,
     op      : {Null, "start", "refresh", "logout", "context", "request"}]

TypeOK ==
    /\ RosterTypeOK(Times)
    /\ now \in 0 .. MaxTime
    /\ tenant \in {"ACTIVE", "SUSPENDED"}
    /\ window \in [Buckets -> Nat]
    /\ session \in [Visits -> SessionRows]
    /\ visit \in [Visits -> VisitLocals]
    /\ forked \subseteq Visits

\* logins: the sessions of earlier visits; used: the limits already reached.
SessionsInit(coming, logins, time, used) ==
    /\ now = time
    /\ tenant = "ACTIVE"
    /\ window = [b \in Buckets |-> IF b[1] \in used THEN Limits[b[1]] ELSE 0]
    /\ session = [v \in Visits |-> IF v \in DOMAIN logins THEN logins[v] ELSE NoSession]
    /\ visit = [v \in Visits |-> IF v \in coming THEN Away ELSE [Away EXCEPT !.at = "done"]]
    /\ forked = {}

VisitTo(v, place) == visit' = [visit EXCEPT ![v] = [@ EXCEPT !.at = place]]
\* The answer leaves the server; its code is named for the reader only.
VisitEnds(v, answer) == visit' = [visit EXCEPT ![v] = [Away EXCEPT !.at = "done"]]

----------------------------------------------------------------------------
(* checkFixedWindow: one upsert, then the comparison with its result.      *)
(* Beyond the limit a count is as good as any other, so it stops there.    *)

Least(a, b) == IF a < b THEN a ELSE b

CheckFixedWindow(kind, key, Allowed, Refused) ==
    /\ window' = [window EXCEPT ![<<kind, key>>] = Least(@ + 1, Limits[kind] + 1)]
    /\ IF window[<<kind, key>>] + 1 <= Limits[kind] THEN Allowed ELSE Refused

----------------------------------------------------------------------------
(* POST /web-auth/class-code/resolve: two limits, then a read.  The answer *)
(* is the class, or CLASS_CODE_INVALID whatever the cause.                 *)

ResolveClassCode(v, k) ==
    /\ visit[v].at = "idle"
    /\ CheckFixedWindow("CLASS_CODE_RESOLVE_IP", Null,
         visit' = [visit EXCEPT ![v] = [@ EXCEPT !.at = "lookup", !.code = k]],
         VisitEnds(v, "RATE_LIMITED"))
    /\ UNCHANGED <<rosterVars, now, tenant, session, forked>>

LookupClassCode(v) ==
    LET k == visit[v].code
    IN /\ visit[v].at = "lookup"
       /\ CheckFixedWindow("CLASS_CODE_RESOLVE_CODE", Null,
            VisitEnds(v, IF code[k].status = "ACTIVE" /\ tenant = "ACTIVE"
                         THEN "OK" ELSE "CLASS_CODE_INVALID"),
            VisitEnds(v, "RATE_LIMITED"))
       /\ UNCHANGED <<rosterVars, now, tenant, session, forked>>

----------------------------------------------------------------------------
(* POST /web-auth/session/start *)

StartVisit(v, k, alias, pin) ==
    /\ visit[v].at = "idle"
    /\ CheckFixedWindow("SESSION_START_IP", Null,
         visit' = [visit EXCEPT ![v] = [@ EXCEPT !.at = "code", !.op = "start", !.code = k,
                                                 !.alias = alias, !.pin = pin]],
         VisitEnds(v, "RATE_LIMITED"))
    /\ UNCHANGED <<rosterVars, now, tenant, session, forked>>

\* The class of a code is found whether it is archived or not.
StartCode(v) ==
    LET k == visit[v].code
    IN /\ visit[v].at = "code"
       /\ CASE code[k].status # "ACTIVE" -> VisitEnds(v, "CLASS_CODE_INVALID")
            [] code[k].status = "ACTIVE" /\ tenant # "ACTIVE" -> VisitEnds(v, "TENANT_ACCESS_DENIED")
            [] OTHER -> VisitTo(v, "limit")
       /\ UNCHANGED <<rosterVars, now, tenant, window, session, forked>>

StartLimit(v) ==
    /\ visit[v].at = "limit"
    /\ CheckFixedWindow("SESSION_START_ENROLLMENT", visit[v].alias,
         VisitTo(v, "alias"), VisitEnds(v, "RATE_LIMITED"))
    /\ UNCHANGED <<rosterVars, now, tenant, session, forked>>

Locked(e) == e.pinLockedUntil # Null /\ e.pinLockedUntil > now

\* After the PIN was found right: which statement is next.
AfterPin(invited) == IF invited THEN "activate" ELSE "create"

\* The enrolment is read once; every decision until the end uses this copy.
StartAlias(v) ==
    LET found == FindByAlias(code[visit[v].code].class, visit[v].alias)
    IN /\ visit[v].at = "alias"
       /\ \/ found = {} /\ VisitEnds(v, "ACCESS_CREDENTIALS_INVALID")
          \/ \E e \in found :
                LET row == enrollment[e]
                IN CASE Locked(row) -> VisitEnds(v, "STUDENT_ACCOUNT_LOCKED")
                     [] ~Locked(row) /\ row.status = "SUSPENDED" -> VisitEnds(v, "ENROLLMENT_SUSPENDED")
                     [] ~Locked(row) /\ row.status = "LEFT" -> VisitEnds(v, "ACCESS_CREDENTIALS_INVALID")
                     [] OTHER -> visit' = [visit EXCEPT ![v] = [@ EXCEPT !.row = e, !.invited = (row.status = "INVITED"),
                           !.at = CASE visit[v].pin = "wrong" -> "failed"
                                    [] visit[v].pin = "right"
                                       /\ (row.failedPinCount > 0 \/ row.pinLockedUntil # Null) -> "reset"
                                    [] OTHER -> AfterPin(row.status = "INVITED")]]
       /\ UNCHANGED <<rosterVars, now, tenant, window, session, forked>>

\* recordFailedPin: one UPDATE, with the lock set by the increment that reaches the
\* limit and by every later one.  The count saturates one above the limit.
PinFailed(row) ==
    LET count == row.failedPinCount + 1
    IN [row EXCEPT !.failedPinCount = Least(count, MaxFailedPinAttempts + 1),
                   !.pinLockedUntil = IF count >= MaxFailedPinAttempts THEN now + LockoutDuration ELSE @]

RecordFailedPin(v) ==
    LET e == visit[v].row
    IN /\ visit[v].at = "failed"
       /\ enrollment' = [enrollment EXCEPT ![e] = PinFailed(@)]
       /\ VisitEnds(v, IF enrollment'[e].pinLockedUntil # Null
                       THEN "STUDENT_ACCOUNT_LOCKED" ELSE "ACCESS_CREDENTIALS_INVALID")
       /\ UNCHANGED <<class, code, profile, overlap, idem, call, now, tenant, window, session, forked>>

\* recordSuccessfulPin: unconditional, so it also lifts a lock set since the read.
PinReset(row) == [row EXCEPT !.failedPinCount = 0, !.pinLockedUntil = Null]

RecordSuccessfulPin(v) ==
    /\ visit[v].at = "reset"
    /\ enrollment' = [enrollment EXCEPT ![visit[v].row] = PinReset(@)]
    /\ VisitTo(v, AfterPin(visit[v].invited))
    /\ UNCHANGED <<class, code, profile, overlap, idem, call, now, tenant, window, session, forked>>

WrongActivateIfInvited(v) ==           \* without AND status = 'INVITED'
    /\ visit[v].at = "activate"
    /\ enrollment' = SetStatus(visit[v].row, "ACTIVE")
    /\ VisitTo(v, "create")
    /\ UNCHANGED <<class, code, profile, overlap, idem, call, now, tenant, window, session, forked>>

\* An enrolment that is INVITED no longer is left alone, and the login goes on.
ActivateIfInvited(v) ==
    /\ visit[v].at = "activate"
    /\ enrollment' = IF enrollment[visit[v].row].status = "INVITED"
                     THEN SetStatus(visit[v].row, "ACTIVE") ELSE enrollment
    /\ VisitTo(v, "create")
    /\ UNCHANGED <<class, code, profile, overlap, idem, call, now, tenant, window, session, forked>>

CreateSession(v) ==
    /\ visit[v].at = "create"
    /\ session' = [session EXCEPT ![v] = NewSession(v, visit[v].row)]
    /\ VisitEnds(v, "OK")
    /\ UNCHANGED <<rosterVars, now, tenant, window, forked>>

----------------------------------------------------------------------------
(* refresh, logout, and the requests of a student who is signed in *)

\* revoke(): the first reason stays.
RevokeSession(rows, s, reason) ==
    [rows EXCEPT ![s] = IF @.live THEN [@ EXCEPT !.live = FALSE, !.revokedReason = reason] ELSE @]

OpenVisit(v, op, s, csrf) ==
    /\ visit[v].at = "idle" /\ session[s].login # Null
    /\ visit' = [visit EXCEPT ![v] = [@ EXCEPT !.at = "resolve", !.op = op, !.session = s, !.csrf = csrf]]
    /\ UNCHANGED <<rosterVars, now, tenant, window, session, forked>>

PostSessionRefresh(v, s, csrf) == OpenVisit(v, "refresh", s, csrf)
PostLogout(v, s, csrf) == OpenVisit(v, "logout", s, csrf)
GetStudentContext(v, s) == OpenVisit(v, "context", s, TRUE)
OtherRequest(v, s) == OpenVisit(v, "request", s, TRUE)

\* Why resolveActiveSession gives up on a session that is not revoked.
Lapsed(s) ==
    CASE session[s].expiresAt <= now -> "ABSOLUTE_EXPIRY"
      [] session[s].expiresAt > now /\ now - session[s].lastSeenAt >= InactivityTtl -> "INACTIVITY_TIMEOUT"
      [] session[s].expiresAt > now /\ now - session[s].lastSeenAt < InactivityTtl
         /\ tenant # "ACTIVE" -> "ADMIN_REVOKED"
      [] OTHER -> Null

WrongResolveActiveSession(v) ==        \* a revoked session is as good as a live one
    /\ visit[v].at = "resolve"
    /\ VisitTo(v, CASE visit[v].op = "refresh" -> "rotate"
                    [] visit[v].op = "logout"  -> "revoke"
                    [] OTHER                   -> "touch")
    /\ UNCHANGED <<rosterVars, now, tenant, window, session, forked>>

\* resolveActiveSession with its lazy revocation, then the CSRF check.  A logout
\* without a session is answered like a logout.
ResolveActiveSession(v) ==
    LET s    == visit[v].session
        op   == visit[v].op
        gone == ~session[s].live \/ Lapsed(s) # Null
    IN /\ visit[v].at = "resolve"
       /\ session' = IF Lapsed(s) = Null THEN session ELSE RevokeSession(session, s, Lapsed(s))
       /\ CASE gone -> VisitEnds(v, IF op = "logout" THEN "OK" ELSE "SESSION_EXPIRED")
            [] ~gone /\ ~visit[v].csrf -> VisitEnds(v, "CSRF_INVALID")
            [] ~gone /\ op = "refresh" /\ visit[v].csrf -> VisitTo(v, "rotate")
            [] ~gone /\ op = "logout" /\ visit[v].csrf -> VisitTo(v, "revoke")
            [] ~gone /\ op = "context" -> VisitTo(v, "touch")
            [] ~gone /\ op = "request" -> VisitEnds(v, "OK")
       /\ forked' = IF \E u \in Visits \ {v} : visit[u].at \in {"rotate", "revoke"} /\ visit[u].session = s
                    THEN forked \union {session[s].login} ELSE forked
       /\ UNCHANGED <<rosterVars, now, tenant, window>>

\* The new row and the revocation of the old one, in one transaction.  The result
\* of the revocation is not looked at.
Rotate(v) ==
    LET s == visit[v].session
    IN /\ visit[v].at = "rotate"
       /\ session' = [RevokeSession(session, s, "ROTATED") EXCEPT ![v] =
                        [session[s] EXCEPT !.live = TRUE, !.revokedReason = Null, !.lastSeenAt = now]]
       /\ VisitEnds(v, "OK")
       /\ UNCHANGED <<rosterVars, now, tenant, window, forked>>

Logout(v) ==
    /\ visit[v].at = "revoke"
    /\ session' = RevokeSession(session, visit[v].session, "USER_LOGOUT")
    /\ VisitEnds(v, "OK")
    /\ UNCHANGED <<rosterVars, now, tenant, window, forked>>

\* touchLastSeen: only GET /me/student-context moves the inactivity limit.
TouchLastSeen(v) ==
    /\ visit[v].at = "touch"
    /\ session' = [session EXCEPT ![visit[v].session] = [@ EXCEPT !.lastSeenAt = now]]
    /\ VisitEnds(v, "OK")
    /\ UNCHANGED <<rosterVars, now, tenant, window, forked>>

----------------------------------------------------------------------------
(* The world: the clock, and platform administrators changing the tenant. *)

Tick ==
    /\ now < MaxTime
    /\ now' = now + 1
    /\ window' = [b \in Buckets |-> 0]
    /\ UNCHANGED <<rosterVars, tenant, session, visit, forked>>

TenantChanges ==
    /\ tenant' = IF tenant = "ACTIVE" THEN "SUSPENDED" ELSE "ACTIVE"
    /\ UNCHANGED <<rosterVars, now, window, session, visit, forked>>

VisitNext(v) ==
    \/ \E k \in CodeIds :
          \/ code[k].status # "ABSENT" /\ ResolveClassCode(v, k)
          \/ \E alias \in Aliases, pin \in {"right", "wrong"} :
                code[k].status # "ABSENT" /\ StartVisit(v, k, alias, pin)
    \/ LookupClassCode(v) \/ StartCode(v) \/ StartLimit(v) \/ StartAlias(v)
    \/ RecordFailedPin(v) \/ RecordSuccessfulPin(v) \/ ActivateIfInvited(v) \/ CreateSession(v)
    \/ \E s \in Visits :
          \/ \E csrf \in BOOLEAN : PostSessionRefresh(v, s, csrf) \/ PostLogout(v, s, csrf)
          \/ GetStudentContext(v, s) \/ OtherRequest(v, s)
    \/ ResolveActiveSession(v) \/ Rotate(v) \/ Logout(v) \/ TouchLastSeen(v)

Next ==
    \/ \E v \in Visits : VisitNext(v)
    \/ RosterNext /\ UNCHANGED sessionVars
    \/ Tick
    \/ TenantChanges

----------------------------------------------------------------------------
(* Properties *)

\* However often a session is rotated, and whatever races with the rotation, its
\* absolute limit stays the one of the login (refresh carries expiresAt over).
RotationKeepsTheLimit ==
    \A s \in Visits :
        session[s].login # Null => session[s].expiresAt = session[s].loginAt + AbsoluteTtl

\* A login has one live session, and none once it was logged out, unless two of its
\* rotations or logouts overlapped (refresh, logout).
OneLiveSessionPerLogin ==
    \A login \in Visits \ forked :
        LET chain == {s \in Visits : session[s].login = login}
        IN /\ Cardinality({s \in chain : session[s].live}) <= 1
           /\ (\E s \in chain : session[s].revokedReason = "USER_LOGOUT") => \A s \in chain : ~session[s].live

\* An enrolment whose wrong PINs reached the limit has been locked: no interleaving of
\* failing logins skips the lock (recordFailedPin).
LockNotMissed ==
    \A e \in EnrollmentIds :
        enrollment[e].failedPinCount >= MaxFailedPinAttempts => enrollment[e].pinLockedUntil # Null

\* A student who left a class is not enrolled again by a login that was under way
\* (removeStudent, activateIfInvited).
LeftIsFinal ==
    [][\A e \in EnrollmentIds : enrollment[e].status = "LEFT" => enrollment'[e].status = "LEFT"]_vars

\* Types, one access code and one enrolment per alias, unless two staff calls overlapped
\* (issueAccessCode, the roster services).
ClassesAreSound == TypeOK /\ OneCodeUnlessOverlap /\ OneEnrollmentPerAlias

\* Rotations keep the limit of the login, leave one live session unless two of them
\* overlapped, and no failed PIN is forgotten (refresh, logout, startSession).
StudentLoginsAreSound == RotationKeepsTheLimit /\ OneLiveSessionPerLogin /\ LockNotMissed
=============================================================================
