-------------------------- MODULE AttemptLifecycle --------------------------
(***************************************************************************)
(* The attempts of one student on one assignment, and the four API         *)
(* handlers that write them:                                               *)
(*                                                                         *)
(*   POST /assignments/{id}/launch-context            Launch...            *)
(*   POST /attempts/{id}/actions                      Action...            *)
(*   POST /attempts/{id}/orchestration-stage-entry    Entry...             *)
(*   POST /attempts/{id}/complete                     Complete...          *)
(*                                                                         *)
(* The handlers run in any number of API processes and open no database    *)
(* transaction: each SQL statement commits by itself.  One action below is *)
(* one statement together with the code up to the next one, so a handler   *)
(* can be overtaken by any other between the state it read and the state   *)
(* it writes.  A handler serves one request and then is done; a client's   *)
(* retry is another request with the same data.                            *)
(*                                                                         *)
(* Session, CSRF and schema checks precede every handler and change no     *)
(* attempt: the requests here are the ones that passed them.               *)
(***************************************************************************)
EXTENDS Integers, IdempotencyRecord

CONSTANTS
    Attempts,        \* creation idempotency keys, and the attempts they create
    Actions,         \* the semantic actions of the clients: [id, seq]
    EvaluatedLogs,   \* the sets of actions on which the engine reports a score
    Keys,            \* Idempotency-Key values of completion requests
    Submissions,     \* the completion requests: [attempt, key, claim]
    NonInteractive,  \* the content has no interactive stage
    Launchers, Actors, Entrants, Completers,   \* the requests of each kind
    Faults           \* statements may fail and processes may die

ASSUME BooleanAssumption == NonInteractive \in BOOLEAN /\ Faults \in BOOLEAN
ASSUME ActionsAssumption == \A x \in Actions : x.seq \in Nat
ASSUME EvaluatedAssumption == EvaluatedLogs \subseteq SUBSET Actions
ASSUME SubmissionsAssumption ==
    \A s \in Submissions :
        s.attempt \in Attempts /\ s.key \in Keys /\ s.claim \in Nat \union {-1}
ASSUME KindsAssumption ==       \* a request is of one kind
    /\ Launchers \intersect (Actors \union Entrants \union Completers) = {}
    /\ Actors \intersect (Entrants \union Completers) = {}
    /\ Entrants \intersect Completers = {}
ASSUME NullOutside ==
    /\ Null \notin Attempts \union Actions \union Keys \union Submissions
    /\ \A S \in SUBSET Actions : Null # S
    /\ Null \notin Nat \union {-1}
    /\ Null \notin {"ACCEPTED_NOT_CONSOLIDATED", "RECONCILIATION_REQUIRED", "CONSOLIDATED", "ACCEPTED", "DUPLICATE"}

VARIABLES
    attempt,         \* learning_attempt
    log,             \* semantic_action_log, by attempt
    response,        \* attempt_response: the actions it was computed from
    captured,        \* learning_path_snapshot rows, by attempt
    audits,          \* audit_event rows of stage entries, by attempt
    idem,            \* idempotency_record, scope attempt_completion
    req              \* the requests being served

tables == <<attempt, log, response, captured, audits, idem>>
vars == <<attempt, log, response, captured, audits, idem, req>>

Requests == Launchers \union Actors \union Entrants \union Completers

AttemptStates == {"ABSENT", "CREATED", "IN_PROGRESS", "COMPLETION_SUBMITTED", "COMPLETED"}

CompletionStatuses ==
    {Null, "ACCEPTED_NOT_CONSOLIDATED", "RECONCILIATION_REQUIRED", "CONSOLIDATED"}

AttemptRows == [state      : AttemptStates,
                completion : CompletionStatuses,
                outcome    : {Null} \union SUBSET Actions]

NoAttempt == [state |-> "ABSENT", completion |-> Null, outcome |-> Null]

Locations == {"start", "gate", "create", "capture",
              "dedup", "begin", "insert", "reread", "audit",
              "fetch", "upsert", "classify", "evaluate", "submit", "score",
              "consolidate", "settle", "fail", "done"}

Replies == {Null, "OK", "ACCEPTED", "NOT_FOUND", "ERROR",
            "LEARNING_PATH_RESOURCE_NOT_AVAILABLE", "ATTEMPT_RUNTIME_MISMATCH",
            "ORCHESTRATION_STAGE_ENTRY_NOT_APPLICABLE",
            "ATTEMPT_ALREADY_CONSOLIDATED", "ATTEMPT_NOT_COMPLETABLE",
            "CROSS_RUNTIME_ATTEMPT_CONFLICT", "FAILED_TERMINAL", "DUPLICATE",
            "RECONCILIATION_REQUIRED", "CONSOLIDATED"}

\* What a completion writes into response_json of its idempotency record.
StoredResponses == [attempt : Attempts,
                    status  : {"RECONCILIATION_REQUIRED", "CONSOLIDATED", "DUPLICATE"}]

\* The payload of a completion request is its finalClientSequence; -1 is the
\* payload without one, which claims nothing.
Payloads == {s.claim : s \in Submissions}

\* The local variables of a handler.
Locals ==
    [at         : Locations,
     attempt    : Attempts \union {Null},
     action     : Actions \union {Null},
     order      : Submissions \union {Null},
     seen       : AttemptStates,               \* the state the handler read
     snapshot   : SUBSET Actions,              \* the log the handler read
     generation : Nat,
     verdict    : Replies,                     \* what it will answer
     reply      : Replies]                     \* what it answered

Unsent == [at |-> "start", attempt |-> Null, action |-> Null, order |-> Null,
           seen |-> "ABSENT", snapshot |-> {}, generation |-> 0,
           verdict |-> Null, reply |-> Null]

TypeOK ==
    /\ attempt \in [Attempts -> AttemptRows]
    /\ log \in [Attempts -> SUBSET Actions]
    /\ response \in [Attempts -> {Null} \union SUBSET Actions]
    /\ captured \in [Attempts -> BOOLEAN]
    /\ audits \in [Attempts -> Nat]
    /\ idem \in [Keys -> Rows(Payloads, StoredResponses)]
    /\ req \in [Requests -> Locals]

Init ==
    /\ attempt = [a \in Attempts |-> NoAttempt]
    /\ log = [a \in Attempts |-> {}]
    /\ response = [a \in Attempts |-> Null]
    /\ captured = [a \in Attempts |-> FALSE]
    /\ audits = [a \in Attempts |-> 0]
    /\ idem = [k \in Keys |-> NoRow]
    /\ req = [r \in Requests |-> Unsent]

----------------------------------------------------------------------------
(* Handlers: moving on, answering                                          *)

Goto(r, location) == req' = [req EXCEPT ![r] = [@ EXCEPT !.at = location]]

\* What the handler read is forgotten, but for what the client can observe.
Reply(r, code) ==
    req' = [req EXCEPT ![r] = [@ EXCEPT !.at = "done", !.reply = code,
                       !.seen = "ABSENT", !.generation = 0, !.verdict = Null]]

----------------------------------------------------------------------------
(* POST /assignments/{assignmentId}/launch-context                         *)

\* findByCreationKey: a replay returns the attempt that exists.
LaunchLookup(r, a) ==
    /\ req[r].at = "start"
    /\ req' = [req EXCEPT ![r] = [@ EXCEPT !.attempt = a,
                          !.at    = IF attempt[a].state = "ABSENT" THEN "gate" ELSE "done",
                          !.reply = IF attempt[a].state = "ABSENT" THEN Null ELSE "OK"]]
    /\ UNCHANGED tables

\* The effective availability of the resource, resolved for a new attempt only.
LaunchGate(r) ==
    /\ req[r].at = "gate"
    /\ \/ Goto(r, "create")
       \/ Reply(r, "LEARNING_PATH_RESOURCE_NOT_AVAILABLE")
    /\ UNCHANGED tables

\* INSERT INTO learning_attempt; a second row for the key violates
\* learning_attempt's unique constraint and surfaces as an internal error.
LaunchCreate(r) ==
    LET a == req[r].attempt
    IN /\ req[r].at = "create"
       /\ \/ /\ attempt[a].state = "ABSENT"
             /\ attempt' = [attempt EXCEPT ![a] = [@ EXCEPT !.state = "CREATED"]]
             /\ Goto(r, "capture")
          \/ /\ attempt[a].state # "ABSENT"
             /\ Reply(r, "ERROR")
             /\ UNCHANGED attempt
       /\ UNCHANGED <<log, response, captured, audits, idem>>

\* The path snapshot is best effort: a failure is logged, not thrown.
LaunchCapture(r) ==
    LET a == req[r].attempt
    IN /\ req[r].at = "capture"
       /\ \/ captured' = [captured EXCEPT ![a] = TRUE]
          \/ Faults /\ UNCHANGED captured
       /\ Reply(r, "OK")
       /\ UNCHANGED <<attempt, log, response, audits, idem>>

----------------------------------------------------------------------------
(* POST /attempts/{attemptId}/actions                                      *)

ActionRead(r, a, x) ==
    /\ req[r].at = "start"
    /\ req' = [req EXCEPT ![r] = [@ EXCEPT !.attempt = a, !.action = x, !.seen = attempt[a].state,
                          !.at    = IF attempt[a].state = "ABSENT" THEN "done" ELSE "dedup",
                          !.reply = IF attempt[a].state = "ABSENT" THEN "NOT_FOUND" ELSE Null]]
    /\ UNCHANGED tables

Logged(a, x) == \E y \in log[a] : y.id = x.id

WrongDedupWithoutBegin(r) ==      \* a CREATED attempt takes actions right away
    LET a == req[r].attempt
    IN /\ req[r].at = "dedup"
       /\ \/ Logged(a, req[r].action) /\ Reply(r, "ACCEPTED")
          \/ ~Logged(a, req[r].action) /\ Goto(r, "insert")
       /\ UNCHANGED tables

\* findByAttemptAndActionId, then the branch on the state read before it.
ActionDedup(r) ==
    LET a == req[r].attempt
    IN /\ req[r].at = "dedup"
       /\ \/ Logged(a, req[r].action) /\ Reply(r, "ACCEPTED")
          \/ /\ ~Logged(a, req[r].action)
             /\ \/ req[r].seen = "CREATED" /\ Goto(r, "begin")
                \/ req[r].seen = "IN_PROGRESS" /\ Goto(r, "insert")
                \/ /\ req[r].seen \notin {"CREATED", "IN_PROGRESS"}
                   /\ Reply(r, "ATTEMPT_RUNTIME_MISMATCH")
       /\ UNCHANGED tables

\* UPDATE ... SET attempt_state = 'IN_PROGRESS' WHERE attempt_state = 'CREATED'.
TransitionToInProgress(a) ==
    attempt' = IF attempt[a].state = "CREATED"
               THEN [attempt EXCEPT ![a] = [@ EXCEPT !.state = "IN_PROGRESS"]]
               ELSE attempt

\* The handler ignores whether the transition was the one it asked for.
ActionBegin(r) ==
    /\ req[r].at = "begin" /\ r \in Actors
    /\ TransitionToInProgress(req[r].attempt)
    /\ Goto(r, "insert")
    /\ UNCHANGED <<log, response, captured, audits, idem>>

\* INSERT INTO semantic_action_log; (attempt, action_id) and
\* (attempt, client_sequence) are unique.  The state is not looked at again.
ActionInsert(r) ==
    LET a == req[r].attempt
        x == req[r].action
    IN /\ req[r].at = "insert"
       /\ \/ /\ \A y \in log[a] : y.id # x.id /\ y.seq # x.seq
             /\ log' = [log EXCEPT ![a] = @ \union {x}]
             /\ Reply(r, "ACCEPTED")
          \/ /\ \E y \in log[a] : y.id = x.id \/ y.seq = x.seq
             /\ Reply(r, "ERROR")
             /\ UNCHANGED log
       /\ UNCHANGED <<attempt, response, captured, audits, idem>>

----------------------------------------------------------------------------
(* POST /attempts/{attemptId}/orchestration-stage-entry                    *)

EntryRead(r, a) ==
    LET code == CASE attempt[a].state = "ABSENT" -> "NOT_FOUND"
                  [] attempt[a].state # "ABSENT" /\ ~NonInteractive
                       -> "ORCHESTRATION_STAGE_ENTRY_NOT_APPLICABLE"
                  [] OTHER -> "OK"
        starts == code = "OK" /\ attempt[a].state = "CREATED"
    IN /\ req[r].at = "start"
       /\ req' = [req EXCEPT ![r] = [@ EXCEPT !.attempt = a, !.seen = attempt[a].state,
                             !.at    = IF starts THEN "begin" ELSE "done",
                             !.reply = IF starts THEN Null ELSE code]]
       /\ UNCHANGED tables

EntryBegin(r) ==
    LET a == req[r].attempt
    IN /\ req[r].at = "begin" /\ r \in Entrants
       /\ TransitionToInProgress(a)
       /\ Goto(r, IF attempt[a].state = "CREATED" THEN "audit" ELSE "reread")
       /\ UNCHANGED <<log, response, captured, audits, idem>>

\* transitionToInProgress found no CREATED row: it returns the current one.
EntryReread(r) ==
    /\ req[r].at = "reread"
    /\ \/ attempt[req[r].attempt].state = "IN_PROGRESS" /\ Goto(r, "audit")
       \/ attempt[req[r].attempt].state # "IN_PROGRESS" /\ Reply(r, "OK")
    /\ UNCHANGED tables

EntryAudit(r) ==
    /\ req[r].at = "audit"
    /\ audits' = [audits EXCEPT ![req[r].attempt] = @ + 1]
    /\ Reply(r, "OK")
    /\ UNCHANGED <<attempt, log, response, captured, idem>>

----------------------------------------------------------------------------
(* POST /attempts/{attemptId}/complete                                     *)

\* The state checks, before idempotency_record is touched.
CompleteRead(r, s) ==
    LET state == attempt[s.attempt].state
        code  == CASE state = "ABSENT"    -> "NOT_FOUND"
                   [] state = "COMPLETED" -> "ATTEMPT_ALREADY_CONSOLIDATED"
                   [] state = "CREATED"   -> "ATTEMPT_NOT_COMPLETABLE"
                   [] OTHER               -> Null
    IN /\ req[r].at = "start"
       /\ req' = [req EXCEPT ![r] = [@ EXCEPT !.attempt = s.attempt, !.order = s, !.seen = state,
                             !.at    = IF code = Null THEN "fetch" ELSE "done",
                             !.reply = code]]
       /\ UNCHANGED tables

\* checkFinalClientSequence: the claim against the greatest persisted sequence.
SequenceReached(claim, S) == claim <= -1 \/ \E x \in S : claim <= x.seq

\* The log is read once; the check and the score both use this copy.
CompleteFetch(r) ==
    LET S == log[req[r].attempt]
    IN /\ req[r].at = "fetch"
       /\ \/ /\ SequenceReached(req[r].order.claim, S)
             /\ req' = [req EXCEPT ![r] = [@ EXCEPT !.snapshot = S, !.at = "upsert"]]
          \/ /\ ~SequenceReached(req[r].order.claim, S)
             /\ Reply(r, "ATTEMPT_NOT_COMPLETABLE")
       /\ UNCHANGED tables

\* idempotency.begin(), first statement.
CompleteUpsert(r) ==
    LET k == req[r].order.key
        h == req[r].order.claim
    IN /\ req[r].at = "upsert"
       /\ \/ /\ Claims(idem[k], h)
             /\ idem' = [idem EXCEPT ![k] = Claim(@, h)]
             /\ req' = [req EXCEPT ![r] = [@ EXCEPT !.generation = idem[k].generation + 1,
                                   !.at = "evaluate"]]
          \/ /\ ~Claims(idem[k], h)
             /\ Goto(r, "classify")
             /\ UNCHANGED idem
       /\ UNCHANGED <<attempt, log, response, captured, audits>>

\* idempotency.begin(), second statement, and the answer to each outcome.
CompleteClassify(r) ==
    LET outcome == Classify(idem[req[r].order.key], req[r].order.claim)
    IN /\ req[r].at = "classify"
       /\ Reply(r, CASE outcome = "DUPLICATE_SAME_PAYLOAD" -> "DUPLICATE"
                     [] outcome = "FAILED_TERMINAL"        -> "FAILED_TERMINAL"
                     [] OTHER -> "CROSS_RUNTIME_ATTEMPT_CONFLICT")
       /\ UNCHANGED tables

Consolidated == {a \in Attempts : attempt[a].completion = "CONSOLIDATED"}
Pending == {a \in Attempts : attempt[a].state \in {"COMPLETION_SUBMITTED", "IN_PROGRESS"}}

\* CrossRuntimeReconciliationService.evaluate: AUTO_RESOLVABLE and NONE_PENDING
\* are the same to the handler.
ReconciliationRequired ==
    \/ \E a, b \in Consolidated : a # b
    \/ Consolidated = {} /\ \E a, b \in Pending : a # b

CompleteEvaluate(r) ==
    /\ req[r].at = "evaluate"
    /\ req' = [req EXCEPT ![r] = [@ EXCEPT !.at = "submit",
                          !.verdict = IF ReconciliationRequired
                                         THEN "RECONCILIATION_REQUIRED" ELSE "CONSOLIDATED"]]
    /\ UNCHANGED tables

WrongSubmitUnguarded(r) ==        \* no WHERE attempt_state = 'IN_PROGRESS'
    LET a == req[r].attempt
    IN /\ req[r].at = "submit"
       /\ attempt' = [attempt EXCEPT ![a] = [@ EXCEPT !.state = "COMPLETION_SUBMITTED",
                                     !.completion = "ACCEPTED_NOT_CONSOLIDATED"]]
       /\ Goto(r, "score")
       /\ UNCHANGED <<log, response, captured, audits, idem>>

WrongSubmitThenConsolidate(r) ==  \* consolidates without computeOutcome
    LET a == req[r].attempt
    IN /\ req[r].at = "submit" /\ attempt[a].state = "IN_PROGRESS"
       /\ attempt' = [attempt EXCEPT ![a] = [@ EXCEPT !.state = "COMPLETION_SUBMITTED",
                                             !.completion = "ACCEPTED_NOT_CONSOLIDATED"]]
       /\ Goto(r, "consolidate")
       /\ UNCHANGED <<log, response, captured, audits, idem>>

WrongSubmitScoresAnyway(r) ==     \* no early return on RECONCILIATION_REQUIRED
    LET a == req[r].attempt
    IN /\ req[r].at = "submit" /\ attempt[a].state = "IN_PROGRESS"
       /\ attempt' = [attempt EXCEPT ![a] = [@ EXCEPT
               !.state = "COMPLETION_SUBMITTED",
               !.completion = IF req[r].verdict = "RECONCILIATION_REQUIRED"
                                 THEN "RECONCILIATION_REQUIRED" ELSE "ACCEPTED_NOT_CONSOLIDATED"]]
       /\ Goto(r, "score")
       /\ UNCHANGED <<log, response, captured, audits, idem>>

\* UPDATE ... SET attempt_state = 'COMPLETION_SUBMITTED', completion_status = $3
\* WHERE attempt_state = 'IN_PROGRESS'; no row updated throws.
CompleteSubmit(r) ==
    LET a == req[r].attempt
        reconcile == req[r].verdict = "RECONCILIATION_REQUIRED"
    IN /\ req[r].at = "submit"
       /\ \/ /\ attempt[a].state = "IN_PROGRESS"
             /\ attempt' = [attempt EXCEPT ![a] = [@ EXCEPT
                     !.state = "COMPLETION_SUBMITTED",
                     !.completion = IF reconcile THEN "RECONCILIATION_REQUIRED"
                                       ELSE "ACCEPTED_NOT_CONSOLIDATED"]]
             /\ Goto(r, IF reconcile THEN "settle" ELSE "score")
          \/ /\ attempt[a].state # "IN_PROGRESS"
             /\ Goto(r, "fail")
             /\ UNCHANGED attempt
       /\ UNCHANGED <<log, response, captured, audits, idem>>

\* computeOutcome: an evaluated log yields an attempt_response row, inserted
\* ON CONFLICT DO NOTHING before the attempt itself is consolidated.
CompleteScore(r) ==
    LET a == req[r].attempt
    IN /\ req[r].at = "score"
       /\ response' = [response EXCEPT
               ![a] = IF req[r].snapshot \in EvaluatedLogs /\ @ = Null
                      THEN req[r].snapshot ELSE @]
       /\ Goto(r, "consolidate")
       /\ UNCHANGED <<attempt, log, captured, audits, idem>>

\* UPDATE ... SET attempt_state = 'COMPLETED', completion_status = 'CONSOLIDATED',
\* outcome = $3 WHERE attempt_state = 'COMPLETION_SUBMITTED'; when that updates no
\* row, the attempt is read again: COMPLETED is a DUPLICATE, anything else throws.
CompleteConsolidate(r) ==
    LET a == req[r].attempt
        submitted == attempt[a].state = "COMPLETION_SUBMITTED"
    IN /\ req[r].at = "consolidate"
       /\ attempt' = IF submitted
                     THEN [attempt EXCEPT ![a] = [state      |-> "COMPLETED",
                                                  completion |-> "CONSOLIDATED",
                                                  outcome    |-> req[r].snapshot]]
                     ELSE attempt
       /\ req' = [req EXCEPT ![r] = [@ EXCEPT
               !.at = IF submitted \/ attempt[a].state = "COMPLETED" THEN "settle" ELSE "fail",
               !.verdict = IF submitted THEN "CONSOLIDATED" ELSE "DUPLICATE"]]
       /\ UNCHANGED <<log, response, captured, audits, idem>>

WrongSettledRecord(r) ==          \* one stored answer for every verdict
    Complete(idem[req[r].order.key], req[r].generation,
             [attempt |-> req[r].attempt, status |-> "CONSOLIDATED"])

SettledRecord(r) ==
    Complete(idem[req[r].order.key], req[r].generation,
             [attempt |-> req[r].attempt, status |-> req[r].verdict])

\* idempotency.complete(), then the answer, COMMITTED or STALE_GENERATION alike.
CompleteSettle(r) ==
    /\ req[r].at = "settle"
    /\ idem' = [idem EXCEPT ![req[r].order.key] = SettledRecord(r)]
    /\ Reply(r, req[r].verdict)
    /\ UNCHANGED <<attempt, log, response, captured, audits>>

\* The catch: idempotency.fail(retryable), then the error is rethrown.
CompleteFail(r) ==
    /\ req[r].at = "fail"
    /\ idem' = [idem EXCEPT ![req[r].order.key] = Fail(@, req[r].generation, TRUE, Null)]
    /\ Reply(r, "ERROR")
    /\ UNCHANGED <<attempt, log, response, captured, audits>>

\* A statement of the try block fails, or its acknowledgement is lost.
CompleteThrow(r) ==
    /\ Faults
    /\ req[r].at \in {"evaluate", "submit", "score", "consolidate", "settle"}
    /\ Goto(r, "fail")
    /\ idem' \in {idem} \union
           (IF req[r].at = "settle"
            THEN {[idem EXCEPT ![req[r].order.key] = SettledRecord(r)]} ELSE {})
    /\ UNCHANGED <<attempt, log, response, captured, audits>>

----------------------------------------------------------------------------
\* The process serving the request dies, or the statement fails where no catch
\* does more than answer: the tables stay as they are.
Die(r) ==
    /\ Faults
    /\ req[r].at \notin {"start", "done"}
    /\ Reply(r, "ERROR")
    /\ UNCHANGED tables

\* RETRY_WINDOW_SECONDS pass since a failed completion.
RetryWindowElapses(k) ==
    /\ idem[k].status = "FAILED" /\ ~idem[k].aged
    /\ idem' = [idem EXCEPT ![k] = Age(@)]
    /\ UNCHANGED <<attempt, log, response, captured, audits, req>>

\* A request arrives.
Arrive(r) ==
    \/ r \in Launchers  /\ \E a \in Attempts : LaunchLookup(r, a)
    \/ r \in Actors     /\ \E a \in Attempts, x \in Actions : ActionRead(r, a, x)
    \/ r \in Entrants   /\ \E a \in Attempts : EntryRead(r, a)
    \/ r \in Completers /\ \E s \in Submissions : CompleteRead(r, s)

\* The handler of a request takes its next step.
Proceed(r) ==
    \/ LaunchGate(r) \/ LaunchCreate(r) \/ LaunchCapture(r)
    \/ ActionDedup(r) \/ ActionBegin(r) \/ ActionInsert(r)
    \/ EntryBegin(r) \/ EntryReread(r) \/ EntryAudit(r)
    \/ CompleteFetch(r) \/ CompleteUpsert(r) \/ CompleteClassify(r)
    \/ CompleteEvaluate(r) \/ CompleteSubmit(r) \/ CompleteScore(r)
    \/ CompleteConsolidate(r) \/ CompleteSettle(r) \/ CompleteFail(r)

Next ==
    \/ \E r \in Requests : Arrive(r) \/ Proceed(r) \/ CompleteThrow(r) \/ Die(r)
    \/ \E k \in Keys : RetryWindowElapses(k)

Spec == Init /\ [][Next]_vars

----------------------------------------------------------------------------
(***************************************************************************)
(* Properties                                                              *)
(***************************************************************************)
Rank(state) == CASE state = "ABSENT" -> 0 [] state = "CREATED" -> 1
                 [] state = "IN_PROGRESS" -> 2 [] state = "COMPLETION_SUBMITTED" -> 3
                 [] state = "COMPLETED" -> 4

\* No interleaving of stale handlers moves an attempt backwards, and a completed
\* attempt keeps its outcome for good.
LifecycleMonotone ==
    [][\A a \in Attempts :
          /\ Rank(attempt[a].state) <= Rank(attempt'[a].state)
          /\ attempt[a].state = "COMPLETED" => attempt'[a] = attempt[a]]_vars

\* The rows every handler leaves satisfy learning_attempt's lifecycle CHECK.
LifecycleConstraint ==
    \A a \in Attempts :
        /\ attempt[a].state \in {"ABSENT", "CREATED", "IN_PROGRESS"} <=>
               attempt[a].completion = Null
        /\ attempt[a].state = "COMPLETED" <=> attempt[a].completion = "CONSOLIDATED"
        /\ attempt[a].state = "COMPLETED" <=> attempt[a].outcome # Null

\* The request whose own UPDATE submitted the attempt: it alone may score it.
Scoring(r) == r \in Completers /\ req[r].at \in {"score", "consolidate"}

\* However many completions race on an attempt, with the same key or others, at
\* most one ever computes its outcome, and it finds the attempt as it left it.
OneScorer ==
    \A r \in Requests : Scoring(r) =>
        /\ attempt[req[r].attempt].state = "COMPLETION_SUBMITTED"
        /\ attempt[req[r].attempt].completion = "ACCEPTED_NOT_CONSOLIDATED"
        /\ \A q \in Requests : Scoring(q) /\ req[q].attempt = req[r].attempt => q = r

\* The scored response and the outcome of an attempt come from the same actions
\* although they are two statements and the response is inserted ON CONFLICT DO
\* NOTHING; and no attempt still open has one.
ResponseMatchesOutcome ==
    \A a \in Attempts :
        /\ attempt[a].state = "COMPLETED" =>
               response[a] = (IF attempt[a].outcome \in EvaluatedLogs
                              THEN attempt[a].outcome ELSE Null)
        /\ response[a] # Null => attempt[a].state \in {"COMPLETION_SUBMITTED", "COMPLETED"}

\* An attempt parked for reconciliation is never consolidated by a handler that
\* evaluated earlier: consolidate() looks at attempt_state only.
ParkedStaysParked ==
    [][\A a \in Attempts : attempt[a].completion = "RECONCILIATION_REQUIRED" =>
           attempt'[a] = attempt[a]]_vars

\* An attempt whose completion was cut off after it had been submitted stays that way: no
\* retry, with whatever key, and no other handler takes over the scoring of that attempt.
AbandonedStaysSubmitted ==
    [][\A a \in Attempts :
          /\ attempt[a].state = "COMPLETION_SUBMITTED"
          /\ \A r \in Requests : Scoring(r) => req[r].attempt # a
          => /\ attempt'[a] = attempt[a] /\ response'[a] = response[a]
             /\ \A r \in Requests : Scoring(r)' => req'[r].attempt # a]_vars

\* A completion is answered CONSOLIDATED only if the attempt carries the outcome
\* of exactly the actions that handler read.
ConsolidatedAnswerIsTrue ==
    \A r \in Completers : req[r].reply = "CONSOLIDATED" =>
        attempt[req[r].attempt].outcome = req[r].snapshot

\* A completion that holds a key works on the current generation of its record.
TryBlock == {"evaluate", "submit", "score", "consolidate", "settle", "fail"}

KeyHeldOnce ==
    \A r, q \in Completers :
        /\ req[r].at \in TryBlock /\ req[q].at \in TryBlock
        /\ req[r].order.key = req[q].order.key
        => r = q

\* A settled record speaks the truth about the attempt it was settled for.
SettledRecordIsTrue ==
    \A k \in Keys : idem[k].status = "COMPLETED" =>
        attempt[idem[k].response.attempt].completion =
            IF idem[k].response.status = "RECONCILIATION_REQUIRED"
            THEN "RECONCILIATION_REQUIRED" ELSE "CONSOLIDATED"

\* A completion answered DUPLICATE is one of an attempt that was submitted, when
\* each key is used for one attempt.
DuplicateAnswerIsTrue ==
    \A r \in Completers : req[r].reply = "DUPLICATE" =>
        attempt[req[r].attempt].state \in {"COMPLETION_SUBMITTED", "COMPLETED"}

\* An action answered 202 is in the log, once, under its id and under its
\* sequence number; and only an attempt that was started has a log.
AcceptedIsLogged ==
    /\ \A r \in Actors : req[r].reply = "ACCEPTED" => Logged(req[r].attempt, req[r].action)
    /\ \A a \in Attempts : \A x, y \in log[a] : x.id = y.id \/ x.seq = y.seq => x = y
    /\ \A a \in Attempts : log[a] # {} => attempt[a].state \notin {"ABSENT", "CREATED"}

\* Types, the CHECK on the rows, logged answers and keys held by one handler each, and
\* answers that are true: the state four handlers leave, however they interleave.
RowsAreSound ==
    /\ TypeOK /\ LifecycleConstraint /\ AcceptedIsLogged
    /\ KeyHeldOnce /\ DuplicateAnswerIsTrue /\ ConsolidatedAnswerIsTrue

\* No handler, acting on what it read before, takes an attempt back: not to an earlier
\* state, not out of COMPLETED, not out of a reconciliation it was parked for, and not out
\* of a completion that was cut off half way.
NoStepBack == LifecycleMonotone /\ ParkedStaysParked /\ AbandonedStaysSubmitted

----------------------------------------------------------------------------
(* Statements of the documentation that this model refutes                 *)

\* Actions are logged while the attempt is in progress, as the API contract says
\* of the 409 that refuses the others.
ActionsOnlyInProgress ==
    [][\A a \in Attempts : log'[a] # log[a] => attempt[a].state = "IN_PROGRESS"]_vars

\* FIRST_VALID_COMPLETION: a second attempt at the same assignment is not
\* consolidated beside the first.
AtMostOneConsolidated == \A a, b \in Consolidated : a = b

\* An attempt is consolidated on a log without holes: every action up to the
\* sequence number the client claims is there.
NoActionMissing ==
    \A r \in Completers : req[r].reply = "CONSOLIDATED" =>
        \A n \in 0 .. req[r].order.claim : \E e \in req[r].snapshot : e.seq = n

\* ATTEMPT_ALREADY_CONSOLIDATED is for another Idempotency-Key than the one that
\* completed the attempt.
AlreadyConsolidatedIsAnotherKey ==
    \A r \in Completers : req[r].reply = "ATTEMPT_ALREADY_CONSOLIDATED" =>
        LET row == idem[req[r].order.key]
        IN ~(row.status = "COMPLETED" /\ row.response.attempt = req[r].attempt)

\* The one CREATED -> IN_PROGRESS transition of an attempt is audited once.
AuditedOnce == \A a \in Attempts : audits[a] <= 1
=============================================================================
