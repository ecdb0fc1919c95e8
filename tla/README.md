# Quest City Web: TLA+ models, model checking and proofs

This directory keeps a formal model of the parts of Quest City Web whose correctness
depends on the order of steps: requests that race on the same row, handlers that die
between two SQL statements, clients that retry, pages that save while the student
clicks. Paths below are relative to the repository root. An operator whose name starts
with `Wrong` is a broken variant of the definition that follows it; put in its place,
it makes a run fail, which shows that the property of that run watches that code.

## 1. The system and its parts

Quest City Web is a learning platform. Students sign in with a class code and a PIN,
launch an assignment, play its stages and complete the attempt. Staff manage classes,
review attempts, publish feedback, support single students and decide what is open to
them. Platform administrators provision tenants, move the classes of an independent
educator into a school ("convergence") and watch over the platform.
Three Next.js applications (`apps/student-web`, `apps/dashboard`, `apps/api`) share the
packages under `packages/`; the only durable state is one PostgreSQL database. A
scheduled workflow (`tools/external-uptime-monitor`) probes the platform from outside.

The API handlers are stateless, and any number of processes run them. **Each SQL
statement commits by itself** unless a service opens a transaction, which few do.
Between two statements every other handler may run. That is the root of nearly
everything that is hard here, and it fixes the grain of the models: one action is one
statement that writes (or that reads what a later write relies on), together with the
code up to the next such statement.

| part | state | operations | hard behaviour | what makes it correct |
|---|---|---|---|---|
| idempotency records (`packages/attempts`) | `idempotency_record`: status, generation, hash, response | begin (two statements), complete, fail | races on a key, reopening after a failure, crashes, lost acknowledgements | one holder at a time, one answer for good, authentic replays |
| attempt lifecycle (`apps/api/app/attempts`, `packages/attempts`) | `learning_attempt`, `semantic_action_log`, `attempt_response`, snapshots, audit rows | launch, action, stage entry, complete | four handlers on one row without a transaction, completions with the same or another key, two attempts at one assignment | never backwards, one scorer, response = outcome, true answers |
| convergence: request to approval (`packages/convergence`) | `convergence_request`, `migration_plan` | create, preview, approve, reject | previews overtaking approvals, both sides at once, tenants suspended meanwhile | one request under way, approved by both, plan frozen |
| convergence: execution | `migration_execution` with its checkpoint, the tenant of each class, memberships | execute, rollback review | partial failure, resume, two executions, two schools | one execution, moved by consent only, true checkpoints, COMPLETED is whole |
| stage orchestration and sequence state (`packages/content-runtime`, `apps/student-web`) | the page's state and `versionRef`; `sequence_runtime_state` with its version | orchestrator functions, bootstrap, click handlers, persist, GET/POST/PUT | two pages, saves in flight, conflicts, reloads, pages left | well-formed states, no stored progress lost, completion stored |
| pages and engines (`apps/student-web`, `packages/learning-engines`) | the engine's state, pending POSTs, client sequences, `sessionStorage` | launch, resume, act, save, complete, reload | requests under way across a reload or a change of group | what is recorded is what was shown |
| student identity (`packages/identity`) | `student_session`, PIN counters, rate-limit windows, enrolments | class code, start, refresh, logout, context | refresh racing refresh or logout, lock-out, roster changes | limits kept, one live session per login, who left stays out |
| classes and rosters (`packages/staff-identity`) | `school_class`, `class_access_code`, `school_enrollment`, `student_profile` | create, rename, archive, issue code, add and remove students | look-up then insert without a lock | one code, one enrolment per alias |
| staff identity (`packages/staff-identity`, `packages/convergence`) | accounts, memberships, invitations, class assignments, sessions | login, refresh, switch of tenant, logout; invite, accept, suspend, revoke, assign | count-then-update, acceptance in several statements, rotation races | a last administrator stays, sessions belong to their account |
| platform administration (`packages/platform-admin`) | tenants, grants, platform sessions | provision, activate, suspend | activation retried after a partial failure | members can sign in |
| review, feedback, assignments (`packages/staff-identity`) | `review_queue_item`, `teacher_feedback`, `assignment` with channels | transition, create, publish, revoke, recovery, general | If-Match versions, item and feedback in separate statements | legal moves only, a publication closes its item, whole assignments |
| learning path control | policies by scope, alternatives | upsert, inherit, register, resolve, preview | precedence and locks, policies written on a stale look-up | locks hold whatever is stored below them, previews are true |
| student support | assignments, events, observations, facilitations, overrides, proposals | create, supersede, apply, propose, review, withdraw | two reviewers, somebody with two roles, retries | takes effect once, never by its author, support teacher first |
| operations | incidents and events, alert configuration and deliveries, health, presence, keys, nonces | report, probe, acknowledge, configure, test, rotate, heartbeat | find-then-insert, replayed reports, cooldown, boundaries of time | counted, told once, accepted once |
| external monitor (`tools/external-uptime-monitor`) | none: it reads back the steps of its last runs | probe, alert, announce recovery, report, backfill | runs that fail half way or never start | true and spaced notices, nothing that lasts goes untold |
| content loading, presentation, schemas, tools | none that is shared | pure functions, pages, operator scripts | – | unit tests reach them |

How they interact: every mutating service calls the idempotency records; `complete`
also calls reconciliation, consolidation and the engine; the pages call
`orchestration-stage-entry`, `actions`, `sequence-state` and `complete`; the roster
decides who can sign in; staff sessions decide who may call the staff services; an
accepted support proposal writes a learning path policy; the external monitor reports to
the operations endpoints; convergence execution reads attempts and moves rows that the
attempt handlers write. `PROJECT.json` lists each part with its source files and status,
and the hazards at the lines where they bite.

## 2. Modules

```
IdempotencyRecord                      rows and their statements, no variables
  IdempotentRequests                   any service; refines IdempotencyContract
  AttemptLifecycle
  ConvergenceRequests
    Convergence
  ServiceCalls                         the frame of a staff or platform call
    ClassRoster (StaffCapabilities)
      StudentSessions                  composes logins with roster changes
    StaffMemberships (StaffCapabilities)
      StaffSessions                    composes sessions with membership changes
    ReviewLoop (StaffCapabilities)
    LearningPaths
      StudentSupport                   composes proposals with the policies they write
    Incidents
      Operations
SequenceSessions
LearningEngines
  ActivityContent
    ActivityPages
ExternalMonitor
```

**IdempotencyRecord** translates `idempotency-record-repository.ts` statement by
statement: `Claim`/`Reopenable` is the upsert with its `WHERE`, `Classify` the SELECT
after it, `Complete` and `Fail` the guarded UPDATEs. The clock is one bit per row:
whether `RETRY_WINDOW_SECONDS` have passed since `updated_at`. `expires_at` is written
and never read, so it is absent.

**IdempotentRequests** is the pattern that some 25 services follow: begin, run the
operation in `try`, complete, and `fail` in `catch`. A worker may stop for good after
any statement (`Die`), may lose the acknowledgement of an applied statement
(`CompleteRequestThenThrow`) and is retried by its client at any time. The history
variable `effects` holds the executions. **IdempotencyContract** is what the services
rely on, without rows, generations or clocks: a slot per key that is free, held,
settled or refused. `ImplementsContract` is the refinement.

**AttemptLifecycle** has one action per statement of the four handlers that write an
attempt: `Launch*`, `Action*`, `Entry*`, `Complete*`. `req[r]` is a handler's local
state, with the row it read earlier (`seen`, `snapshot`): what is stale in the code is
stale in the model. An action's content is `[id, seq]`; an engine is the set of logs it
can score (`EvaluatedLogs`); an outcome is the set of actions it was computed from. The
learning-path gate of a launch is a free choice. No code writes ABANDONED or EXPIRED, so
the branches for them never run. Session, CSRF and schema checks come
first and change nothing, so requests are those that passed them.

**ConvergenceRequests** has `Create*`, `Preview*`, `Approve*`, `Reject*` and the world
that changes meanwhile: tenants suspended and reactivated, memberships, sign-ins,
attempts opened and closed. Rows are named by the call that inserts them. `consent` is
a history variable: which side approved which plan. **Convergence** adds `Execute*`
unit by unit with the checkpoint, and `Review*`. The SQL of `transferClass` is one
transaction and becomes one action; `Transferable` says when it can commit.
Capability checks and audit rows are left out, except where a failing audit statement
changes what the handler does.

**SequenceSessions** has the pure orchestrator (`InitializeSequence`, `AdvanceStage`,
`ReceiveEngineResult`, `RequestHint`, `MarkStageComplete`), the page (`Open`,
`Bootstrap*`, `Handle*`, `Persist*`) and the three API handlers (`ServeGet`, `ServePost`,
`ServePut`). A tab is one mount of the page; a reload is another tab. A call is sent,
served and answered in three steps. Timestamps are left out. A PUT of a page that was
left may still be served later: the calls of a left tab stay in flight.

**ServiceCalls** is the frame the staff and platform services share: `Admit` (the route:
an entitled caller, a body, a key), `Begin`, the body, `CompleteRecord`, `FailRecord`
after `Throws`, and `Dies` anywhere. `begin()` is one step here; its two statements are
the subject of IdempotentRequests. Each call is served once, and a retry is another call
with the same key. The dashboard makes a new key for every click; the routes serve any
client, so the models let two calls share one. What the dashboard's client sends is an
operator named after the client's function (`InviteStaffMember`, `CreateTeacherFeedback`).

**StaffCapabilities** has the capabilities of the roles and the class scope.
**ClassRoster** has classes, access codes, profiles and enrolments with the six services
on them; codes and enrolments carry the name of the call that inserts them.
**StudentSessions** adds the visits of browsers: class code, login (rate limit, PIN, lock,
activation of an invited enrolment, session), refresh, logout and context, with a clock
that ticks between any two statements. Whether a PIN is right is part of the visit.

**StaffMemberships** has accounts, tenants, memberships, invitations and class
assignments, with the services of school administrators, of invited people and of the
platform. **StaffSessions** adds the sessions of staff and of platform administrators and
the switch of tenant; a service call is admitted under the identity of a session that is
valid at that moment.

**ReviewLoop** has the review queue, feedback and the two kinds of assignment. A client
sends the version it has seen.

**LearningPaths** resolves the availability of one resource through the scopes platform,
school, class and student (`Resolve` applies one `Layer` after the other), with what the previews
show. **StudentSupport** has the support staff's services, and the review whose
transaction writes a facilitation, an override or a policy (`TakesEffect`).

**Incidents** has the row operations of incidents, alert configuration, presence and
health; **Operations** the services. A signature is who signed what (`Signature`), so that
nobody forges one. Authentication of a report is one step; nonces, keys and the clock
move around it.

**ExternalMonitor** is the workflow: three probes in a row, the steps of a run, and the
window on earlier runs from which it reconstructs everything it knows
(`GetMonitorHistory`). Time is kept as ages.

**LearningEngines** has the three production engines as functions of a state and an
action, and `Replay`; **ActivityContent** the published configurations and stage lists;
**ActivityPages** the two student pages around them, with posts, saves, entries and
completions under way, overtaking each other, lost, or outliving the page. `disturbed`
collects the attempts for which the code makes no promise: an action was lost, made
after the attempt was completed, or left behind by a reload, a completion was under way at a reload, or a version conflict
sent the page back.

`MC*` modules give the small instances; `*Proofs` modules hold the
theorems and lemmas about the module they are named after (ConvergenceProofs also those about
ConvergenceRequests, OperationsProofs those about IdempotentRequests). The proofs about
services extend ServiceCallsProofs.

## 3. Runs

| run | question | result |
|---|---|---|
| `idempotent_requests` | three requests race on one key with two payloads, die, retry, lose acknowledgements | `RecordsAreSound` (one executes at a time), `ReplayIsAuthentic`, `NoSecondExecution`, `ImplementsContract` |
| `completion_races` | two attempts at one assignment, completions with a shared and with other keys, launches, actions and stage entries, with faults | `RowsAreSound` (CHECK constraints, logged actions, true answers), `OneScorer`, `ResponseMatchesOutcome`, `SettledRecordIsTrue`, `NoStepBack` |
| `approval_races` | creates racing with a preview; two previews and the answers of both sides | `RequestsAreSound` (one under way), `ApprovedByBothSides`, `ApprovedStaysApproved` |
| `execution_retries` | two executes and a review with a class that cannot move, with faults and a membership that changes; two schools promised the same class | `ExecutionsAreSound`, `ResumeKeepsSettledUnits`, `MovesAreTrue`, `ExecutionEnds` |
| `sequence_saves` | two pages of one attempt, each waiting for its save, with faults | `SessionsAreSound`, `NoProgressLost`, `CompletionIsStored` |
| `student_access` | two visits, or a visit and a staff call, or two staff calls with faults | `ClassesAreSound`, `StudentLoginsAreSound`, `LeftIsFinal` |
| `staff_access` | two calls of administrators, invited people or the platform; a call and a login; two browsers on a session | `MembershipsAreSound`, `StaffLoginsAreSound`, `AdministratorRemains` |
| `review_loop` | two calls on items, feedback and assignments, with faults and retries | `LoopIsSound`, `PublishedClosesItem`, `ItemsMoveLegally` |
| `student_support` | two calls of a teacher, an administrator and somebody with two support roles | `SupportIsSound`, `PathsAreTrue`, `AcceptedTakesEffectOnce`, `SupportTeacherGoesFirst` |
| `operations` | two requests to the control center, with faults, a clock and key rotation | `OperationsAreSound`, `SignalsAreTrue`, `SettledStays` |
| `uptime_monitor` | a target that changes between any two probes, runs that fail or never start | `NoticesAreTrue`, `DisturbancesAreTold` |
| `activity_pages` | the published activities, with reloads and faults | `PagesAreSound`, `RecordedIsShown`, `EngineMatchesLog` |

A property whose name ends in `AreSound` or `AreTrue` is a conjunction of named parts,
each stated and explained above it in its module; the type invariant is one of them.

Several properties say what holds *unless two calls overlapped*, or *for attempts that
are not disturbed*. The exceptions are history variables (`overlap`, `forked`,
`disturbed`) that say exactly when the code makes no promise; section 6 says what happens
then.

### Bounds, and why they are enough

* `idempotent_requests`: three workers (a holder, a rival and a third that reopens what
  the first left), two generations (a failed one and its successor). The safety
  properties and the refinement are proved for any numbers.
* `completion_races`: handlers serve one request each, so the constants bound the
  requests, not their steps. Two completions are what a race needs, two attempts what
  reconciliation needs, and three keys allow a retry, a rival and the other attempt.
  The proofs remove these bounds for all the properties of the run.
* Convergence: two executors, one reviewer, two classes with different fates. Execution
  starts from states after complete rounds of create, preview and approvals, because
  reaching them through all interleavings again asks nothing new and does not fit in a run.
* `sequence_saves`: two stages (one with an engine, hints, remediation and a
  checkpoint, one to read), two tabs. `MaxTries` bounds the evaluations of a stage and
  `MaxInFlight` the calls of one tab. With `MaxInFlight = 1` the student waits for each
  save; section 6 says what happens without that assumption.
* Staff and student services: two calls in scenes that `MCInit` chooses. Every hazard
  listed for them is a race of two, or a call and its retry after a crash; the scenes
  give them the rows of the past. `MaxTime`, the limits and the lock-out are the smallest
  values at which each limit is reached before, at and after a step of the others.
* `student_support`: one student, one resource; roles are what the rules tell apart.
* `operations`: `Tolerance` 1 and `NonceRetention` 2 keep the ratio of the code (300
  seconds either way, 10 minutes); `MaxNow` 3 lets a nonce be forgotten and its timestamp expire.
* `uptime_monitor`: a cooldown of three periods as configured, `ScanLimit` 4, the smallest
  that satisfies `ScanAssumption`; outages longer than the scan happen. One fault.
* `activity_pages`: each scene has its own bounds on actions, saves, reloads and faults.
  The content is the published one; `ContentIsSolvable` checks that each stage can be won.

Symmetry is used only in safety runs and only over interchangeable calls, keys and nonces.
The configurations turn deadlock checking off where every handler may have been served and
no client is obliged to send more (`CHECK_DEADLOCK FALSE`); `idempotent_requests` keeps it.

### Fairness

`Convergence!Fairness`: weak fairness of the next statement of execute calls that have
begun. PostgreSQL answers, Node runs the continuation, and no handler waits for another,
so this is what the process guarantees as long as it lives; faults are allowed, and a call
that is cut off is the stated exception (`reply = "ERROR"`). `SequenceSessions!FairSpec`
lets every call be served and every answer be received, but a call may fail instead, and a
page that was left receives nothing; students are not obliged to click.
`ExternalMonitor!Fairness`: time passes, the scheduler starts runs and a started run makes
its steps; runs may still be skipped or die, within `MaxFaults`.

## 4. What is proved

`tlapm` checks every theorem to the last leaf, for all values of the constants that meet
the named ASSUMEs of the modules; TLC evaluates them in the runs. Most say that the kinds
of requests are disjoint, that `Null` is none of the values and that versions are
naturals. The others are facts of the code:

* `FiniteAssumption` (ConvergenceRequests): finitely many previews are ever made, so the
  rank of a plan, which stands for its time of creation, is a number.
* `ConstantsAssumption` (ReviewLoop): every attempt belongs to a class, and the feedback of
  the past has other identifiers than the feedback that the calls insert.
* `ConstantsAssumption` (StudentSupport): an attempt has a student, a student is in one of the
  classes or in none, what is offered to a proposal is a state of a path, and rows of the past
  have other identifiers than new ones.
* `RosterAssumption` (ClassRoster): the same of the classes and enrolments of the past.
* `DurationsAssumption` (StudentSessions): durations are naturals, the limit of failed PINs is
  positive, and every kind of rate limit has a number.
* `WindowAssumption`, `OperationsAssumption` (Operations): nonces are kept for at least twice the
  tolerance of timestamps, heartbeats are coalesced for no longer than somebody is shown ONLINE,
  durations are naturals, and the monitor makes a timestamp and a nonce together for each
  request, as `level2-submit.mjs` does.
* Four theorems have a hypothesis of their own, stated in them: `RowsAreSoundHolds` of the
  attempts (a client uses a completion key for one attempt, as `student-api-client.ts:343`
  does with a fresh UUID for every completion), the two about the version guard of the
  sequence page (`MaxInFlight = 1`), and `SignalsAreTrueHolds` (the channel starts with a cooldown that
  administrators can choose).

An invariant that a run checks is seldom inductive. What had to be added says, each time,
what a handler still knows of the rows it has read:

**`OperationsProofs`**, the idempotent requests: `TypeCorrect`, `MutualExclusionHolds`,
`HolderIsCurrentHolds`, `ReplayIsAuthenticHolds`, `RecordsAreSoundHolds`,
`NoSecondExecutionHolds` and `Refinement`. `MutualExclusion` is not inductive: that nobody
else gets in follows from the holder's row being PENDING in its own generation
(`HolderIsCurrent`), or completed by itself with only the acknowledgement lost.
`ReplayIsAuthentic` needs that a completed record comes from an execution
(`CompletedByExecution`, `ExecutionIsOwn`). The invariant `IInv` is the conjunction; the
refinement maps a row to its slot and uses `IInv` to show that each statement is a step of
the contract or a stutter. `NoSecondExecution` says that a settled record stays
(`NoExecutionOnceSettledHolds`), and so does one whose request died, PENDING for good
(`AbandonedStaysPendingHolds`): the price of never executing twice what may have happened.

**`AttemptLifecycleProofs`**: `OneScorerHolds`, `ResponseMatchesOutcomeHolds`,
`SettledRecordIsTrueHolds`, `NoStepBackHolds`, `RowsAreSoundHolds` and the theorems they are
made of. The invariant is `AttemptInv == TypeOK /\ AllPlaced /\ RowInv`. `AllPlaced` says
what a handler's variables hold at each program point. `RowInv` ties the handlers to the
rows: `Fits` (what a completion between its UPDATE and its answer relies on), `Sound` (rows
alone) and `OnlyScorer`. They need each other: a second completion cannot reach scoring
because of the state the first one wrote, and the row stays as the scorer left it because
nobody else scores. `KeyInv` adds the records: a held key carries its holder's generation, a
settled record is true of its attempt, and stays true because a parked or consolidated row
never changes again (`RowMoves`). `LogInv` adds the actions: what a completion was accepted
with was in the log when it was read, and the log only grows. The third part of `NoStepBack`,
`AbandonedStaysSubmittedHolds`, says what a crash leaves: only the UPDATE that submits an
attempt leads to its score, so a submitted attempt that nobody scores is never taken up again.

**`ConvergenceProofs`**, the requests: `RequestsAreSoundHolds`, `ApprovedByBothSidesHolds`,
`ApprovedStaysApprovedHolds`. `ApprovalInv` says of each request what its status stands for
(`RequestInv`: which sides have consented to which plan), that two requests of a school are
never both under way (`Alone`), and what each preview and approval in flight may still do.
`RequestMove` lists the ways a request can change at all; the action property follows from
the list.

The executions: `ExecutionsAreSoundHolds`, `ResumeKeepsSettledUnitsHolds`,
`MovesAreTrueHolds`. The invariant has four layers over `ApprovalInv`, each kept with the
help of those before it: types; who holds a request (`HoldInv`, `RowInv`: a held record is
PENDING in its holder's generation); which execution row belongs to a request and who may
change it (`StageInv`); what the checkpoints say of the classes (`DataInv`: a class recorded
as moved is in the school, and a COMPLETED request has nothing left). The proof corrected
one property: once an execution has settled its request, another one may resume the row
before the first is answered, so `ResumeKeepsSettledUnits` speaks of the statement that
settles and not of the one after it.

**`StandaloneProofs`** holds the proofs about the two components outside the services. The
sequence page: `SequenceShapeHolds`, for any number of saves under way;
`SessionsAreSoundHolds` and `NoProgressLostHolds` for pages that wait for each save. The
first invariant is about states alone: every function of the orchestrator keeps them well
formed and never takes progress back (`CountsUp`). The second says that a page holds a
version and a state that were stored together, or has a save under way that makes them so.
Two saves under way break exactly this, and section 6 shows what becomes of it.

The external monitor: `NoticesAreTrueHolds`, for any cooldown, any number of runs in a
period, runs of any duration and any failures; the run checks one run in a period that is
over within it. A run knows what happened before only from the window of the last
`ScanLimit` runs, so `MonitorInv` says what the window still tells. `AlertInWindow`: within
the cooldown, the run that sent the last alert is in it, is the newest that sent one, and has
no more runs before it than the schedule can have started since; with `ScanAssumption` it
cannot have left the window, which is what the scan's length is for. `RecoveryIsOwed`: an outage that
the last run recorded has not been announced as over, except by the run at hand.
`OutageInWindow`: the newest runs, as many as the outage has, are the outage, and the oldest of
them has its start and its cause.

**`ServiceCallsProofs`** has no theorem of its own, but the lemmas on which the proofs about
the services rest: what admission, `begin()`, a statement, `complete()`, `fail()` and a fault
do to the call, to the other calls and to the records.

**`StaffProofs`** holds the proofs about what the staff do. The review: `LoopIsSoundHolds`, `PublishedClosesItemHolds`, `ItemsMoveLegallyHolds`,
from any items and feedback that the services can have left behind (`Past`; the rows
`MCInit` starts from are among them). `CallInv` says what is still true of the item, the
feedback and the new assignment at each statement: item versions only grow and each new
status has a new version (`StatusSeen`, `OriginSeen`), feedback once published is never a
draft again (`NoteSeen`), and nobody else touches what a call has inserted (`Made`). So the
status read before `begin()` may be stale, but then the version is too, and the guarded
UPDATE refuses.

Staff access: `MembershipsAreSoundHolds`, `StaffLoginsAreSoundHolds`,
`AdministratorRemainsHolds`, for any tenants, people, invitations, calls and visits, from any
accounts, memberships, invitations and sessions that the services can have left (`StaffPast`).
No service here opens a transaction, so `MembersInv` says at each statement what a call still
knows of the rows that earlier ones read (`Knows`). Some of it lasts for good: accounts and
memberships are not deleted, a password that was set stays (`RowsKept`); that is why
an acceptance that dies after `consume` leaves nobody active without one. The rest lasts as long as no other
call meets this one in the tenant (`Still`): the status that an invitation read, that nothing is pending, that
the caller and somebody else are active administrators. `overlap` is what the two properties
about races except, and `SameIn` is the step from one to the other: a write in a tenant
that is not in `overlap` afterwards met no other call there. `LoginsInv` says what a request
of a browser knows (`VisitFits`), and of each login outside `forked` that one request holds it between
its look-up and the write that ends its session, and holds the live one (`LoginOk`).
`LockedAtLimit` needs the accounts of the first invariant and the counts of the second.

**`StudentSupportProofs`**: `SupportIsSoundHolds`, `AcceptedTakesEffectOnceHolds`,
`SupportTeacherGoesFirstHolds`, `PathsAreTrueHolds`, for any staff with any roles, from any rows that the services
can have left (`Past`). Accepted proposals and corrected observations of the past are left out
of those rows: the model knows an effect and a correction by the call that made it. Each
step is first shown to be a move of one call that leaves the others alone (`Move`); the
invariant then has four parts. `RequestInv`: what a call was asked does not change and one
key stands for one request. `EffectInv`: a proposal's effects are none, or those of one
call, and a call whose statement has not run has left no row, which is what makes a retry
after a fault harmless. `ObservationInv`: a completed observe record has a row marked as
replayed, so that a supersede that is sent again marks the original with the observation that
its first try made. `ReviewSeen`: a class teacher past the look-up knew of no support
teacher, or one was assigned since (`lately`). `PathsAreTrue` is a fact of every state, not of
how it was reached: once the layers of `Resolve` are written out, a lock at one of them leaves
only the states that it allows, whatever the ones below it say, and a layer that is shadowed
changes nothing.

**`StudentSessionsProofs`**: `ClassesAreSoundHolds`, `StudentLoginsAreSoundHolds`,
`LeftIsFinalHolds`, for any classes, calls of staff and browsers, from any enrolments and
sessions that the services can have left (`Past`). Two invariants meet in the enrolments.
`RosterInv` says what each call of the staff still knows: no row has the name of a call that
has yet to insert it (`Fresh`), a call was sent about rows that exist (`Sent`), a class read
ACTIVE may be archived since but then the two calls overlapped (`Reads`, `CodesOk`), and no
alias is two enrolments'. `LoginInv` says what a visit still knows of the enrolment and of the
session it read (`VisitOk`), and that of a login outside `forked` only the session that every
rotation or logout under way found is live, and none once it is logged out (`LoginOk`). What a
call of the staff does to the enrolments a visit has read (they stay, and one that was left
stays left: `RowsKept`) is what the second needs of the first, and it is also `LeftIsFinal`.

**`OperationsProofs`**, the operations: `OperationsAreSoundHolds`, `SignalsAreTrueHolds`,
`SettledStaysHolds`, for any incidents, calls, keys, nonces, users and changes of configuration, from
any incidents, channel and keys that may be there at the start (`Scene`, which the five scenes of
the run are instances of). `OpsInv` has one part per concern. `PlaceInv`: where a call is and what
it has read. `TablesInv`: one open incident per deduplication key, which the partial index
enforces whatever `FindIncident` saw, and nothing names an incident that does not exist. `OnceInv`:
a report between `begin()` and its record owns the record of its key, so what has had its effect
is being served, completed or failed. `NonceInv` (`Remembered`): an accepted nonce is still in
the table or its timestamp can no longer be accepted, which is what ties `NonceRetention` to
`Tolerance` at their boundary. `CountInv`: a statement that counts an occurrence comes before the one
that logs it, so what is bounded by the count are the logged events together with those that
calls are about to log (`Occurrences`). `RecoveryInv`: whoever tells of a recovery has resolved the
incident itself, and no later call can find it open. `HostInv`: a row of presence is at most one
`CoalesceWindow` behind the last heartbeat. `AlertInv` says why alerts keep apart although the
cooldown is judged by the row that was handed in: an alert is noted in its incident before its
call is done (`Noted`), so a call that arrives later reads a row that says so (`Informed`). The
cooldown may be changed between two alerts, so `AlertsRespectCooldown` asks for one of the cooldowns
that administrators choose from; the run has a single one, for which it is that one.

## 5. What is only model-checked

The liveness properties (`ExecutionEnds`, `CompletionIsStored`, `DisturbancesAreTold`):
temporal reasoning under fairness is outside what the prover supports. What the engines'
`Replay` computes for every list of actions needs induction over an operator, which the provers
cannot instantiate, and with it `PagesAreSound`, `RecordedIsShown` and `EngineMatchesLog`: they
are checked on the published content. Every other property of the runs is proved.

## 6. Where the code and its documents differ

The first three were found as counterexamples of formulas at the end of the modules
(`AtMostOneConsolidated`, `ConsentIsForCurrentPlan`, and `NoProgressLost` with
`MaxInFlight = 2`):

* **A second consolidation.** `cross-runtime-reconciliation-service.ts:53` says later
  CONSOLIDATED rows "would represent a real conflict this service does not expect under
  FIRST_VALID_COMPLETION". With one attempt CONSOLIDATED the service answers
  AUTO_RESOLVABLE (line 57) and a second attempt is consolidated beside it, without any
  race.
* **Approval of another plan.** The contract (`quest-city-platform-openapi-v1_12.yaml:998`)
  says the fingerprint "Must match the current migration plan's fingerprint exactly".
  `approve` compares it with the plan of the row it read and transitions on the status; a
  preview published in between leaves the status as it was.
* **A save on a stale base.** `web-r3c3-durable-sequence-state-persistence.md:110` says
  "the version guard structurally prevents a second write on a stale base from ever
  succeeding". With two saves in flight a late reload brings an older state back, the
  answer of the other save lifts `versionRef`, and the next save passes the guard.

The others are stated as formulas at the end of the modules, and TLC refutes them when
they are added to a configuration of the module:

| formula | the document | the code |
|---|---|---|
| `ActionsOnlyInProgress` | openapi v1_4:158, ATTEMPT_RUNTIME_MISMATCH when "the attempt is not in attempt_state=IN_PROGRESS" | `actions/route.ts:133` decides on the state it read; a completion in between does not stop the insert |
| `NoActionMissing` | `final-client-sequence-guard.ts:7`, "to verify no in-flight action is missing before consolidating" | line 20 compares the highest sequence number, so a hole below it passes |
| `AlreadyConsolidatedIsAnotherKey` | openapi v1_4:234, "reserved exclusively for attempt_state=COMPLETED with a non-matching Idempotency-Key" | `complete/route.ts:67` answers it before the idempotency record is read, so also to a retry with the very key that completed the attempt |
| `AuditedOnce` | `orchestration-stage-entry/route.ts:33`, "only the call that flips CREATED -> IN_PROGRESS is audited" | line 81 audits whenever it had read CREATED and finds IN_PROGRESS, also if another call flipped it |
| `CurrentPlanIsLatest` | openapi v1_12:167, "always points to the most recently generated plan" | `convergence-preview-service.ts:138` ignores that its transition found nothing |
| `RetryResumes` | openapi v1_12:307, "A retry with the same Idempotency-Key resumes" | `convergence-execution-service.ts:58` moves the request to EXECUTING before `begin` (line 68), so a replayed or refused key leaves it there |
| `NoActiveAttemptAtStart` | `convergence-execution-service.ts:50`, classes "must have no CREATED/IN_PROGRESS attempt" | line 53 looks at the attempts recorded when the plan was made |
| `ChildRowsAreRepointed` | `convergence-execution-service.ts:275`, "every child row's `tenant_id` is repointed" | lines 312 on do not repoint the sessions of the students; the transaction of a class whose students have signed in cannot commit |
| `RacerReloads` | `sequence-runtime-state-repository.ts:95`, "the caller re-fetches via `findByAttempt`" | `SequenceHost.tsx:191` catches the conflict and goes on in memory |

Behaviour of the newer modules that a document or a comment describes otherwise, or that
the properties excuse:

* **Access codes and rosters.** Two concurrent `issueAccessCode`, or one racing with
  archive, leave two ACTIVE codes or an archived class with one
  (`school-class-management-service.ts:195`; the comments at 161 and 258 say otherwise).
  Two additions of an existing student enrol them twice; a NEW student's profile is
  inserted before the alias is found taken.
* **Sessions.** Two refreshes, or a refresh and a logout, leave a live session
  (`session-service.ts:240`, and the same in the staff services). A successful login lifts
  a lock set meanwhile. Refresh checks neither tenant nor membership; a switch of tenant
  ignores the target tenant's status and starts a new absolute limit.
* **Invitations.** Nothing ends an invitation: revoking an INVITED membership and then
  accepting the old token makes it ACTIVE, while `staff-tenant-membership-repository.ts`
  calls REVOKED "terminal until a fresh invitation". Two acceptances both succeed.
* **Administrators.** Two who suspend themselves at once leave a school without one
  (`staff-membership-service.ts:143`).
* **Platform.** `IndependentEducatorStatusService` says "A single transaction sets both";
  they are separate statements. A retried activation after a partial failure makes another
  tenant.
* **Feedback.** Publish and revoke check the status before `begin`, so a retry of what was
  done is refused instead of replayed; a crash after the publication leaves the review item
  open (`feedback-service.ts:183`). A retry after a partial failure makes a second
  assignment.
* **Learning paths.** `learning-path-policy-service.ts` says a shadowed row "is never
  silently stored" by its endpoint; a lock set between look-up and write stores one. It has
  no effect (`LockHolds`). Accepting an adjustment asks neither for the waiver capability
  nor whether the alternative exists.
* **Support.** `supportTeacherApply` supersedes and inserts without a transaction, so that
  a student may have no facilitation in between or after a crash (`FacilitationStays`, end
  of `StudentSupport.tla`, does not hold). An accepted FACILITATION with an unknown category
  has no effect.
* **Operations.** Two evaluations of one incident at once send two alerts, since the
  cooldown is judged by the row handed in (`alert-service.ts:142`); a failed delivery counts
  as notified; updating the configuration writes back a credential read earlier; rotating a
  key leaves a moment without a CURRENT one, while `provision-external-monitor-key.ts` says
  "atomically". `aggregatePlatformHealth` puts UNKNOWN before CRITICAL, its comment the
  other way round.
* **Monitor.** A recovery is lost for good when a step fails or a run without marker lies
  between; an outage longer than the scan is reported with a later start; an outage inside
  the cooldown of another is announced as over without having been alerted.
* **Pages.** `FullSequenceHost` completes the group just left with the client sequence of
  the next one when that has begun (`FullSequenceHost.tsx:291`); the completion is refused
  and not retried. After a lost action POST the page goes on and the recorded result may
  differ from the one shown. A page whose two saves share a version sends itself back.
* **Completions after a crash.** An attempt left in COMPLETION_SUBMITTED stays there
  (`AbandonedStaysSubmitted`, proved as part of `NoStepBack`).

## 7. What is not modelled

* Content loading and compatibility, engine metadata, presentation, schemas, translations
  and operator tools: pure or without shared state, and unit tests reach them.
* Content promotion always ends in CONTENT_NOT_FOUND at this commit.
* `redirectToRemediationTarget`, `abandonSequence`, `recordStageAttempt` and the durable
  store classes: nothing calls them outside tests.
* The dashboard's pages: they show lists, send one call per click and reload. What they
  send is modelled, how they look is not.
* Lists, overviews, metric samples and audit rows, except where a failing statement changes
  what a handler does.
* Changing one's display name: one UPDATE that nothing depends on.
* Password and PIN hashing, HTTP, cookies, the wording of messages.

## 8. Plan

The system's parts that keep shared state are modelled, and the properties of their runs are
proved but for those of section 5. What could be added:

1. `RecordedIsShown` for a page over any engine: the engine as a constant function with the
   algebra of `Replay` as its assumption, which `LearningEngines` would then have to meet.
2. `AlertsRespectCooldown` for the cooldown that was in force when the second alert was decided,
   which needs the configuration each call has read as a history variable.
