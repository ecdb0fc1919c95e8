----------------------- MODULE AttemptLifecycleProofs -----------------------
(***************************************************************************)
(* Proofs about AttemptLifecycle, for any number of attempts, requests,    *)
(* keys and actions, with and without faults.                              *)
(***************************************************************************)
EXTENDS AttemptLifecycle, TLAPS

Completing == {"fetch", "upsert", "classify", "evaluate", "submit", "score",
               "consolidate", "settle", "fail"}

\* What a handler's variables hold at each of its statements.
Placed(r, v) ==
    /\ v.at # "start" => v.attempt \in Attempts
    /\ v.at # "done" => v.reply = Null
    /\ v.at \in {"dedup", "insert"} \/ (v.at = "begin" /\ r \in Actors) => v.action \in Actions
    /\ v.at \in Completing => /\ r \in Completers
                              /\ v.order \in Submissions
                              /\ v.attempt = v.order.attempt
    /\ v.at = "submit" => v.verdict \in {"RECONCILIATION_REQUIRED", "CONSOLIDATED"}
    /\ v.at \in {"score", "consolidate"} => v.verdict = "CONSOLIDATED"
    /\ v.at = "settle" => v.verdict \in {"RECONCILIATION_REQUIRED", "CONSOLIDATED", "DUPLICATE"}

AllPlaced == \A r \in Requests : Placed(r, req[r])

\* The row operators keep rows rows.
LEMMA RowOperators ==
    ASSUME NEW H, NEW R, NEW row \in Rows(H, R), NEW h \in H, NEW r \in R \union {Null},
           NEW g \in Nat, NEW b \in BOOLEAN
    PROVE  /\ Claim(row, h) \in Rows(H, R)
           /\ Complete(row, g, r) \in Rows(H, R)
           /\ Fail(row, g, b, r) \in Rows(H, R)
           /\ Age(row) \in Rows(H, R)
<1> USE DEF Rows, Statuses
<1>1. Claim(row, h) \in Rows(H, R)
  BY DEF Claim
<1>2. Complete(row, g, r) \in Rows(H, R)
  BY DEF Complete
<1>3. Fail(row, g, b, r) \in Rows(H, R)
  BY DEF Fail
<1>4. Age(row) \in Rows(H, R)
  BY DEF Age
<1> QED  BY <1>1, <1>2, <1>3, <1>4

\* Every submission names an attempt, a key and a payload of the instance.
LEMMA SubmissionParts ==
    ASSUME NEW s \in Submissions
    PROVE  s.attempt \in Attempts /\ s.key \in Keys /\ s.claim \in Payloads
  BY SubmissionsAssumption DEF Payloads

\* TypeOK and AllPlaced hold initially.
LEMMA TypeInit == Init => TypeOK /\ AllPlaced
<1> SUFFICES ASSUME Init PROVE TypeOK /\ AllPlaced
  OBVIOUS
<1>1. Unsent \in Locals
  BY DEF Unsent, Locals, Locations, AttemptStates, Replies
<1>2. \A r \in Requests : Placed(r, Unsent)
  BY DEF Placed, Unsent, Completing
<1>3. NoRow \in Rows(Payloads, StoredResponses) /\ NoAttempt \in AttemptRows
  BY DEF NoRow, Rows, Statuses, NoAttempt, AttemptRows, AttemptStates, CompletionStatuses
<1>4. TypeOK
  BY <1>1, <1>3 DEF Init, TypeOK
<1>5. AllPlaced
  BY <1>2 DEF Init, AllPlaced
<1> QED  BY <1>4, <1>5

\* A step of one handler, with the tables typed.
LEMMA TypeMove ==
    ASSUME TypeOK, AllPlaced, NEW r \in Requests, NEW v \in Locals, Placed(r, v),
           req' = [req EXCEPT ![r] = v],
           attempt' \in [Attempts -> AttemptRows],
           log' \in [Attempts -> SUBSET Actions],
           response' \in [Attempts -> {Null} \union SUBSET Actions],
           captured' \in [Attempts -> BOOLEAN],
           audits' \in [Attempts -> Nat],
           idem' \in [Keys -> Rows(Payloads, StoredResponses)]
    PROVE  TypeOK' /\ AllPlaced'
<1>1. TypeOK'
  BY DEF TypeOK
<1>2. \A q \in Requests : req'[q] = IF q = r THEN v ELSE req[q]
  BY DEF TypeOK
<1>3. AllPlaced'
  BY <1>2 DEF AllPlaced, Placed
<1> QED  BY <1>1, <1>3

\* Where Goto and Reply leave a handler.
Moved(v, location) == [v EXCEPT !.at = location]
Replied(v, code) == [v EXCEPT !.at = "done", !.reply = code, !.seen = "ABSENT",
                              !.generation = 0, !.verdict = Null]

\* A handler that moves to another statement keeps its variables.
LEMMA MovedTyped ==
    ASSUME NEW v \in Locals, NEW location \in Locations
    PROVE  /\ Moved(v, location) \in Locals
           /\ Moved(v, location).at = location
           /\ Moved(v, location).attempt = v.attempt
           /\ Moved(v, location).action = v.action
           /\ Moved(v, location).order = v.order
           /\ Moved(v, location).seen = v.seen
           /\ Moved(v, location).snapshot = v.snapshot
           /\ Moved(v, location).generation = v.generation
           /\ Moved(v, location).verdict = v.verdict
           /\ Moved(v, location).reply = v.reply
  BY DEF Moved, Locals

\* A handler that answers forgets what it read, not what the client observes.
LEMMA RepliedTyped ==
    ASSUME NEW v \in Locals, NEW code \in Replies
    PROVE  /\ Replied(v, code) \in Locals
           /\ Replied(v, code).at = "done"
           /\ Replied(v, code).attempt = v.attempt
           /\ Replied(v, code).action = v.action
           /\ Replied(v, code).order = v.order
           /\ Replied(v, code).snapshot = v.snapshot
           /\ Replied(v, code).reply = code
<1>1. "done" \in Locations /\ "ABSENT" \in AttemptStates /\ Null \in Replies /\ 0 \in Nat
  BY DEF Locations, AttemptStates, Replies
<1> QED  BY <1>1 DEF Replied, Locals

\* Goto is Moved.
LEMMA GotoMoves ==
    ASSUME NEW r, NEW location, Goto(r, location)
    PROVE  req' = [req EXCEPT ![r] = Moved(req[r], location)]
  BY DEF Goto, Moved

\* Reply is Replied.
LEMMA ReplyMoves ==
    ASSUME NEW r, NEW code, Reply(r, code)
    PROVE  req' = [req EXCEPT ![r] = Replied(req[r], code)]
  BY DEF Reply, Replied

\* A handler that has begun may always answer, and leave the tables typed.
LEMMA TypeReply ==
    ASSUME TypeOK, AllPlaced, NEW r \in Requests, req[r].at # "start",
           NEW code \in Replies, Reply(r, code),
           attempt' \in [Attempts -> AttemptRows],
           log' \in [Attempts -> SUBSET Actions],
           response' \in [Attempts -> {Null} \union SUBSET Actions],
           captured' \in [Attempts -> BOOLEAN],
           audits' \in [Attempts -> Nat],
           idem' \in [Keys -> Rows(Payloads, StoredResponses)]
    PROVE  TypeOK' /\ AllPlaced'
<1>1. req[r] \in Locals /\ Placed(r, req[r])
  BY DEF TypeOK, AllPlaced
<1>2. /\ Replied(req[r], code) \in Locals
      /\ Replied(req[r], code).at = "done"
      /\ Replied(req[r], code).attempt = req[r].attempt
  BY <1>1, RepliedTyped
<1>3. Placed(r, Replied(req[r], code))
  BY <1>1, <1>2 DEF Placed, Completing
<1> QED  BY <1>2, <1>3, ReplyMoves, TypeMove

\* A handler may go on to a statement whose variables it has.
LEMMA TypeGoto ==
    ASSUME TypeOK, AllPlaced, NEW r \in Requests, req[r].at \notin {"start", "done"},
           NEW location \in Locations \ {"start", "done"}, Goto(r, location),
           location \in Completing => req[r].at \in Completing,
           location \in {"dedup", "insert"} \/ (location = "begin" /\ r \in Actors)
               => req[r].action \in Actions,
           location = "submit" => req[r].verdict \in {"RECONCILIATION_REQUIRED", "CONSOLIDATED"},
           location \in {"score", "consolidate"} => req[r].verdict = "CONSOLIDATED",
           location = "settle"
               => req[r].verdict \in {"RECONCILIATION_REQUIRED", "CONSOLIDATED", "DUPLICATE"},
           attempt' \in [Attempts -> AttemptRows],
           log' \in [Attempts -> SUBSET Actions],
           response' \in [Attempts -> {Null} \union SUBSET Actions],
           captured' \in [Attempts -> BOOLEAN],
           audits' \in [Attempts -> Nat],
           idem' \in [Keys -> Rows(Payloads, StoredResponses)]
    PROVE  TypeOK' /\ AllPlaced'
<1>1. req[r] \in Locals /\ Placed(r, req[r])
  BY DEF TypeOK, AllPlaced
<1> DEFINE v == Moved(req[r], location)
<1>2. /\ v \in Locals /\ v.at = location /\ v.attempt = req[r].attempt
      /\ v.action = req[r].action /\ v.order = req[r].order /\ v.verdict = req[r].verdict
      /\ v.reply = req[r].reply
  BY <1>1, MovedTyped
<1> HIDE DEF v
<1>3. Placed(r, v)
  BY <1>1, <1>2 DEF Placed
<1>4. req' = [req EXCEPT ![r] = v]
  BY GotoMoves DEF v
<1> QED  BY <1>2, <1>3, <1>4, TypeMove

\* A request that arrives.
LEMMA TypeArrive ==
    ASSUME TypeOK, AllPlaced, NEW r \in Requests, Arrive(r)
    PROVE  TypeOK' /\ AllPlaced'
<1>0. /\ req[r] \in Locals /\ Placed(r, req[r]) /\ req[r].at = "start" /\ req[r].reply = Null
      /\ attempt \in [Attempts -> AttemptRows] /\ UNCHANGED tables
  BY DEF TypeOK, AllPlaced, Placed, Arrive, LaunchLookup, ActionRead, EntryRead, CompleteRead
<1>1. /\ \A a \in Attempts : attempt[a].state \in AttemptStates
      /\ {Null, "OK", "NOT_FOUND", "ORCHESTRATION_STAGE_ENTRY_NOT_APPLICABLE",
          "ATTEMPT_ALREADY_CONSOLIDATED", "ATTEMPT_NOT_COMPLETABLE"} \subseteq Replies
      /\ {"gate", "dedup", "begin", "fetch", "done"} \subseteq Locations
  BY <1>0 DEF AttemptRows, Replies, Locations
<1>2. SUFFICES \E v \in Locals : Placed(r, v) /\ req' = [req EXCEPT ![r] = v]
  BY <1>0, TypeMove DEF TypeOK, tables
<1>3. ASSUME NEW a \in Attempts, r \in Launchers, LaunchLookup(r, a)
      PROVE  \E v \in Locals : Placed(r, v) /\ req' = [req EXCEPT ![r] = v]
  <2> DEFINE v == [req[r] EXCEPT !.attempt = a,
                          !.at    = IF attempt[a].state = "ABSENT" THEN "gate" ELSE "done",
                          !.reply = IF attempt[a].state = "ABSENT" THEN Null ELSE "OK"]
  <2>1. v \in Locals
    BY <1>0, <1>1 DEF Locals
  <2>2. Placed(r, v)
    BY <1>0, <1>1 DEF Locals, Placed, Completing
  <2> QED  BY <2>1, <2>2, <1>3 DEF LaunchLookup
<1>4. ASSUME NEW a \in Attempts, NEW x \in Actions, r \in Actors, ActionRead(r, a, x)
      PROVE  \E v \in Locals : Placed(r, v) /\ req' = [req EXCEPT ![r] = v]
  <2> DEFINE v == [req[r] EXCEPT !.attempt = a, !.action = x, !.seen = attempt[a].state,
                          !.at    = IF attempt[a].state = "ABSENT" THEN "done" ELSE "dedup",
                          !.reply = IF attempt[a].state = "ABSENT" THEN "NOT_FOUND" ELSE Null]
  <2>1. v \in Locals
    BY <1>0, <1>1 DEF Locals
  <2>2. Placed(r, v)
    BY <1>0, <1>1 DEF Locals, Placed, Completing
  <2> QED  BY <2>1, <2>2, <1>4 DEF ActionRead
<1>5. ASSUME NEW a \in Attempts, r \in Entrants, EntryRead(r, a)
      PROVE  \E v \in Locals : Placed(r, v) /\ req' = [req EXCEPT ![r] = v]
  <2>1. PICK at \in {"begin", "done"}, reply \in Replies :
            /\ req' = [req EXCEPT ![r] = [@ EXCEPT !.attempt = a, !.seen = attempt[a].state,
                                                   !.at = at, !.reply = reply]]
            /\ at = "begin" => reply = Null
    BY <1>5, <1>1 DEF EntryRead
  <2> DEFINE v == [req[r] EXCEPT !.attempt = a, !.seen = attempt[a].state, !.at = at, !.reply = reply]
  <2>2. v \in Locals
    BY <1>0, <1>1 DEF Locals
  <2>3. r \notin Actors
    BY <1>5, KindsAssumption
  <2>4. Placed(r, v)
    BY <1>0, <1>1, <2>1, <2>3 DEF Locals, Placed, Completing
  <2> QED  BY <2>1, <2>2, <2>4
<1>6. ASSUME NEW s \in Submissions, r \in Completers, CompleteRead(r, s)
      PROVE  \E v \in Locals : Placed(r, v) /\ req' = [req EXCEPT ![r] = v]
  <2>1. PICK at \in {"fetch", "done"}, reply \in Replies :
            /\ req' = [req EXCEPT ![r] = [@ EXCEPT !.attempt = s.attempt, !.order = s,
                                                   !.seen = attempt[s.attempt].state,
                                                   !.at = at, !.reply = reply]]
            /\ at = "fetch" => reply = Null
    BY <1>6, <1>1 DEF CompleteRead
  <2> DEFINE v == [req[r] EXCEPT !.attempt = s.attempt, !.order = s,
                                 !.seen = attempt[s.attempt].state, !.at = at, !.reply = reply]
  <2>2. v \in Locals
    BY <1>0, <1>1, SubmissionParts DEF Locals
  <2>3. Placed(r, v)
    BY <1>0, <1>1, <1>6, <2>1, SubmissionParts DEF Locals, Placed, Completing
  <2> QED  BY <2>1, <2>2, <2>3
<1> QED  BY <1>3, <1>4, <1>5, <1>6 DEF Arrive

\* Every step keeps the types, and every handler the variables it needs.
LEMMA TypeStep == TypeOK /\ AllPlaced /\ [Next]_vars => TypeOK' /\ AllPlaced'
<1> SUFFICES ASSUME TypeOK, AllPlaced, [Next]_vars PROVE TypeOK' /\ AllPlaced'
  OBVIOUS
<1>a. /\ attempt \in [Attempts -> AttemptRows]
      /\ log \in [Attempts -> SUBSET Actions]
      /\ response \in [Attempts -> {Null} \union SUBSET Actions]
      /\ captured \in [Attempts -> BOOLEAN]
      /\ audits \in [Attempts -> Nat]
      /\ idem \in [Keys -> Rows(Payloads, StoredResponses)]
  BY DEF TypeOK
<1>b. ASSUME NEW r \in Requests PROVE req[r] \in Locals /\ Placed(r, req[r])
  BY DEF TypeOK, AllPlaced
<1>c. \A loc \in {"create", "capture", "begin", "insert", "reread", "audit", "upsert", "classify",
                 "evaluate", "submit", "score", "consolidate", "settle", "fail"} : loc \in Locations
  BY DEF Locations
<1>d. /\ Null \in Replies /\ "OK" \in Replies /\ "ACCEPTED" \in Replies /\ "ERROR" \in Replies
      /\ "LEARNING_PATH_RESOURCE_NOT_AVAILABLE" \in Replies /\ "ATTEMPT_RUNTIME_MISMATCH" \in Replies
      /\ "ATTEMPT_NOT_COMPLETABLE" \in Replies /\ "CROSS_RUNTIME_ATTEMPT_CONFLICT" \in Replies
      /\ "FAILED_TERMINAL" \in Replies /\ "DUPLICATE" \in Replies
      /\ "RECONCILIATION_REQUIRED" \in Replies /\ "CONSOLIDATED" \in Replies
  BY DEF Replies
<1>e. ASSUME NEW r \in Requests, req[r].at \in Completing
      PROVE  /\ req[r].order \in Submissions /\ req[r].order.key \in Keys
             /\ req[r].order.claim \in Payloads /\ req[r].order.attempt \in Attempts
             /\ req[r].attempt \in Attempts /\ req[r].attempt = req[r].order.attempt
             /\ req[r].generation \in Nat /\ r \in Completers
             /\ req[r].snapshot \in SUBSET Actions
  BY <1>b, <1>e, SubmissionParts DEF Placed, Locals
<1>f. ASSUME NEW r \in Requests, req[r].at # "start" PROVE req[r].attempt \in Attempts
  BY <1>b, <1>f DEF Placed
<1>g. ASSUME NEW r \in Requests, req[r].at \in {"dedup", "insert"} \/ (req[r].at = "begin" /\ r \in Actors)
      PROVE  req[r].action \in Actions
  BY <1>b, <1>g DEF Placed
<1>h. ASSUME NEW a \in Attempts, NEW st \in AttemptStates
      PROVE [attempt EXCEPT ![a] = [@ EXCEPT !.state = st]] \in [Attempts -> AttemptRows]
  BY <1>a DEF AttemptRows
<1>i. ASSUME NEW r \in Requests, TransitionToInProgress(req[r].attempt), req[r].attempt \in Attempts
      PROVE attempt' \in [Attempts -> AttemptRows]
  BY <1>a, <1>h, <1>i DEF TransitionToInProgress, AttemptStates
<1>1. ASSUME NEW r \in Requests, Arrive(r) PROVE TypeOK' /\ AllPlaced'
  BY <1>1, TypeArrive
<1>2. ASSUME NEW r \in Requests, LaunchGate(r) PROVE TypeOK' /\ AllPlaced'
  <2>1. CASE Goto(r, "create")
    BY <1>2, <2>1, <1>a, <1>c, TypeGoto DEF LaunchGate, tables, Completing
  <2>2. CASE Reply(r, "LEARNING_PATH_RESOURCE_NOT_AVAILABLE")
    BY <1>2, <2>2, <1>a, <1>d, TypeReply DEF LaunchGate, tables
  <2> QED  BY <1>2, <2>1, <2>2 DEF LaunchGate
<1>3. ASSUME NEW r \in Requests, LaunchCreate(r) PROVE TypeOK' /\ AllPlaced'
  <2>1. CASE Goto(r, "capture") /\ attempt' = [attempt EXCEPT ![req[r].attempt] = [@ EXCEPT !.state = "CREATED"]]
    <3>1. attempt' \in [Attempts -> AttemptRows]
      BY <1>3, <2>1, <1>f, <1>h DEF LaunchCreate, AttemptStates
    <3> QED  BY <1>3, <2>1, <3>1, <1>a, <1>c, TypeGoto DEF LaunchCreate, Completing
  <2>2. CASE Reply(r, "ERROR") /\ UNCHANGED attempt
    BY <1>3, <2>2, <1>a, <1>d, TypeReply DEF LaunchCreate
  <2> QED  BY <1>3, <2>1, <2>2 DEF LaunchCreate
<1>4. ASSUME NEW r \in Requests, LaunchCapture(r) PROVE TypeOK' /\ AllPlaced'
  <2>1. captured' \in [Attempts -> BOOLEAN]
    BY <1>4, <1>a DEF LaunchCapture
  <2> QED  BY <1>4, <2>1, <1>a, <1>d, TypeReply DEF LaunchCapture
<1>5. ASSUME NEW r \in Requests, ActionDedup(r) PROVE TypeOK' /\ AllPlaced'
  <2>1. ASSUME NEW code \in {"ACCEPTED", "ATTEMPT_RUNTIME_MISMATCH"}, Reply(r, code) PROVE TypeOK' /\ AllPlaced'
    BY <1>5, <2>1, <1>a, <1>d, TypeReply DEF ActionDedup, tables
  <2>2. ASSUME NEW loc \in {"begin", "insert"}, Goto(r, loc) PROVE TypeOK' /\ AllPlaced'
    BY <1>5, <2>2, <1>a, <1>c, <1>g, TypeGoto DEF ActionDedup, tables, Completing
  <2> QED  BY <1>5, <2>1, <2>2 DEF ActionDedup
<1>6. ASSUME NEW r \in Requests, ActionBegin(r) PROVE TypeOK' /\ AllPlaced'
  BY <1>6, <1>a, <1>c, <1>f, <1>g, <1>i, TypeGoto DEF ActionBegin, Completing
<1>7. ASSUME NEW r \in Requests, ActionInsert(r) PROVE TypeOK' /\ AllPlaced'
  <2>1. log' \in [Attempts -> SUBSET Actions]
    BY <1>7, <1>a, <1>f, <1>g DEF ActionInsert
  <2> QED  BY <1>7, <2>1, <1>a, <1>d, TypeReply DEF ActionInsert
<1>8. ASSUME NEW r \in Requests, EntryBegin(r) PROVE TypeOK' /\ AllPlaced'
  <2>1. r \notin Actors
    BY <1>8, KindsAssumption DEF EntryBegin
  <2>2. PICK loc \in {"audit", "reread"} : Goto(r, loc)
    BY <1>8 DEF EntryBegin
  <2> QED  BY <1>8, <2>1, <2>2, <1>a, <1>c, <1>f, <1>i, TypeGoto DEF EntryBegin, Completing
<1>9. ASSUME NEW r \in Requests, EntryReread(r) PROVE TypeOK' /\ AllPlaced'
  <2>1. CASE Goto(r, "audit")
    BY <1>9, <2>1, <1>a, <1>c, TypeGoto DEF EntryReread, tables, Completing
  <2>2. CASE Reply(r, "OK")
    BY <1>9, <2>2, <1>a, <1>d, TypeReply DEF EntryReread, tables
  <2> QED  BY <1>9, <2>1, <2>2 DEF EntryReread
<1>10. ASSUME NEW r \in Requests, EntryAudit(r) PROVE TypeOK' /\ AllPlaced'
  <2>1. audits' \in [Attempts -> Nat]
    BY <1>10, <1>a, <1>f DEF EntryAudit
  <2> QED  BY <1>10, <2>1, <1>a, <1>d, TypeReply DEF EntryAudit
<1>11. ASSUME NEW r \in Requests, CompleteFetch(r) PROVE TypeOK' /\ AllPlaced'
  <2>0. req[r].at \in Completing
    BY <1>11 DEF CompleteFetch, Completing
  <2>1. CASE Reply(r, "ATTEMPT_NOT_COMPLETABLE")
    BY <1>11, <2>1, <1>a, <1>d, TypeReply DEF CompleteFetch, tables
  <2>2. CASE req' = [req EXCEPT ![r] = [@ EXCEPT !.snapshot = log[req[r].attempt], !.at = "upsert"]]
    <3> DEFINE v == [req[r] EXCEPT !.snapshot = log[req[r].attempt], !.at = "upsert"]
    <3>1. log[req[r].attempt] \in SUBSET Actions
      BY <2>0, <1>a, <1>e
    <3>2. v \in Locals
      BY <3>1, <1>b, <1>c DEF Locals
    <3>3. v.at = "upsert" /\ v.attempt = req[r].attempt /\ v.order = req[r].order /\ v.reply = req[r].reply
      BY <1>b DEF Locals
    <3> HIDE DEF v
    <3>4. Placed(r, v)
      BY <1>11, <3>3, <1>b, <1>e, <2>0 DEF Placed, CompleteFetch
    <3>5. req' = [req EXCEPT ![r] = v]
      BY <2>2 DEF v
    <3> QED  BY <1>11, <3>2, <3>4, <3>5, <1>a, TypeMove DEF CompleteFetch, tables
  <2> QED  BY <1>11, <2>1, <2>2 DEF CompleteFetch
<1>12. ASSUME NEW r \in Requests, CompleteUpsert(r) PROVE TypeOK' /\ AllPlaced'
  <2>0. req[r].at \in Completing
    BY <1>12 DEF CompleteUpsert, Completing
  <2> DEFINE k == req[r].order.key
             h == req[r].order.claim
  <2>1. CASE /\ idem' = [idem EXCEPT ![k] = Claim(@, h)]
             /\ req' = [req EXCEPT ![r] = [@ EXCEPT !.generation = idem[k].generation + 1, !.at = "evaluate"]]
    <3> DEFINE v == [req[r] EXCEPT !.generation = idem[k].generation + 1, !.at = "evaluate"]
    <3>0. idem[k] \in Rows(Payloads, StoredResponses) /\ idem[k].generation + 1 \in Nat
      BY <2>0, <1>a, <1>e DEF Rows
    <3>1. Claim(idem[k], h) \in Rows(Payloads, StoredResponses)
      BY <3>0, <2>0, <1>e, RowOperators
    <3>2. v \in Locals
      BY <3>0, <1>b, <1>c DEF Locals
    <3>3. v.at = "evaluate" /\ v.attempt = req[r].attempt /\ v.order = req[r].order /\ v.reply = req[r].reply
      BY <1>b DEF Locals
    <3> HIDE DEF v
    <3>4. Placed(r, v)
      BY <1>12, <3>3, <1>b, <1>e, <2>0 DEF Placed, CompleteUpsert
    <3>5. req' = [req EXCEPT ![r] = v]
      BY <2>1 DEF v
    <3>6. idem' \in [Keys -> Rows(Payloads, StoredResponses)]
      BY <2>1, <3>1, <1>a
    <3> QED  BY <1>12, <3>2, <3>4, <3>5, <3>6, <1>a, TypeMove DEF CompleteUpsert
  <2>2. CASE Goto(r, "classify") /\ UNCHANGED idem
    BY <1>12, <2>0, <2>2, <1>a, <1>c, TypeGoto DEF CompleteUpsert, Completing
  <2> QED  BY <1>12, <2>1, <2>2 DEF CompleteUpsert
<1>13. ASSUME NEW r \in Requests, CompleteClassify(r) PROVE TypeOK' /\ AllPlaced'
  <2>1. PICK code \in Replies : Reply(r, code)
    BY <1>13, <1>d DEF CompleteClassify
  <2> QED  BY <1>13, <2>1, <1>a, TypeReply DEF CompleteClassify, tables
<1>14. ASSUME NEW r \in Requests, CompleteEvaluate(r) PROVE TypeOK' /\ AllPlaced'
  <2>0. req[r].at \in Completing
    BY <1>14 DEF CompleteEvaluate, Completing
  <2>1. PICK verdict \in {"RECONCILIATION_REQUIRED", "CONSOLIDATED"} :
            req' = [req EXCEPT ![r] = [@ EXCEPT !.at = "submit", !.verdict = verdict]]
    BY <1>14 DEF CompleteEvaluate
  <2> DEFINE v == [req[r] EXCEPT !.at = "submit", !.verdict = verdict]
  <2>2. v \in Locals
    BY <1>b, <1>c, <1>d DEF Locals
  <2>3. /\ v.at = "submit" /\ v.attempt = req[r].attempt /\ v.order = req[r].order
        /\ v.reply = req[r].reply /\ v.verdict = verdict
    BY <1>b DEF Locals
  <2> HIDE DEF v
  <2>4. Placed(r, v)
    BY <1>14, <2>0, <2>3, <1>b, <1>e DEF Placed, CompleteEvaluate
  <2>5. req' = [req EXCEPT ![r] = v]
    BY <2>1 DEF v
  <2> QED  BY <1>14, <2>2, <2>4, <2>5, <1>a, TypeMove DEF CompleteEvaluate, tables
<1>15. ASSUME NEW r \in Requests, CompleteSubmit(r) PROVE TypeOK' /\ AllPlaced'
  <2>0. /\ req[r].at \in Completing /\ req[r].at \notin {"start", "done"}
        /\ req[r].verdict \in {"RECONCILIATION_REQUIRED", "CONSOLIDATED"}
    BY <1>15, <1>b DEF CompleteSubmit, Completing, Placed
  <2>1. CASE UNCHANGED attempt /\ Goto(r, "fail")
    BY <1>15, <2>0, <2>1, <1>a, <1>c, TypeGoto DEF CompleteSubmit, Completing
  <2>2. CASE attempt[req[r].attempt].state = "IN_PROGRESS"
    <3>1. PICK c \in CompletionStatuses :
              attempt' = [attempt EXCEPT ![req[r].attempt] = [@ EXCEPT !.state = "COMPLETION_SUBMITTED",
                                                                       !.completion = c]]
      BY <1>15, <2>2 DEF CompleteSubmit, CompletionStatuses
    <3>a. "COMPLETION_SUBMITTED" \in AttemptStates
      BY DEF AttemptStates
    <3>2. attempt' \in [Attempts -> AttemptRows]
      BY <3>1, <3>a, <2>0, <1>a, <1>e DEF AttemptRows
    <3>3. PICK loc \in {"settle", "score"} : /\ Goto(r, loc)
                                            /\ loc = "score" => req[r].verdict = "CONSOLIDATED"
      BY <1>15, <2>0, <2>2 DEF CompleteSubmit
    <3> QED  BY <1>15, <2>0, <3>2, <3>3, <1>a, <1>c, TypeGoto DEF CompleteSubmit, Completing
  <2> QED  BY <1>15, <2>1, <2>2 DEF CompleteSubmit
<1>16. ASSUME NEW r \in Requests, CompleteScore(r) PROVE TypeOK' /\ AllPlaced'
  <2>0. /\ req[r].at \in Completing /\ req[r].at \notin {"start", "done"}
        /\ req[r].verdict = "CONSOLIDATED"
    BY <1>16, <1>b DEF CompleteScore, Completing, Placed
  <2>1. response' \in [Attempts -> {Null} \union SUBSET Actions]
    BY <1>16, <2>0, <1>a, <1>e DEF CompleteScore
  <2> QED  BY <1>16, <2>0, <2>1, <1>a, <1>c, TypeGoto DEF CompleteScore, Completing
<1>17. ASSUME NEW r \in Requests, CompleteConsolidate(r) PROVE TypeOK' /\ AllPlaced'
  <2>0. /\ req[r].at \in Completing /\ req[r].verdict = "CONSOLIDATED"
    BY <1>17, <1>b DEF CompleteConsolidate, Completing, Placed
  <2>1. attempt' \in [Attempts -> AttemptRows]
    <3>1. "COMPLETED" \in AttemptStates /\ "CONSOLIDATED" \in CompletionStatuses
      BY DEF AttemptStates, CompletionStatuses
    <3>2. [state |-> "COMPLETED", completion |-> "CONSOLIDATED", outcome |-> req[r].snapshot] \in AttemptRows
      BY <3>1, <2>0, <1>e DEF AttemptRows
    <3> QED  BY <1>17, <3>2, <1>a DEF CompleteConsolidate
  <2>2. PICK loc \in {"settle", "fail"}, verdict \in {"CONSOLIDATED", "DUPLICATE"} :
            req' = [req EXCEPT ![r] = [@ EXCEPT !.at = loc, !.verdict = verdict]]
    BY <1>17, <2>0, <1>b DEF CompleteConsolidate, Locals
  <2> DEFINE v == [req[r] EXCEPT !.at = loc, !.verdict = verdict]
  <2>3. v \in Locals
    BY <1>b, <1>c, <1>d DEF Locals
  <2>4. /\ v.at = loc /\ v.attempt = req[r].attempt /\ v.order = req[r].order
        /\ v.reply = req[r].reply /\ v.verdict = verdict
    BY <1>b DEF Locals
  <2> HIDE DEF v
  <2>5. Placed(r, v)
    BY <1>17, <2>0, <2>2, <2>4, <1>b, <1>e DEF Placed, CompleteConsolidate
  <2>6. req' = [req EXCEPT ![r] = v]
    BY <2>2 DEF v
  <2> QED  BY <1>17, <2>1, <2>3, <2>5, <2>6, <1>a, TypeMove DEF CompleteConsolidate
<1>j. ASSUME NEW r \in Requests, req[r].at = "settle"
      PROVE  [idem EXCEPT ![req[r].order.key] = SettledRecord(r)] \in [Keys -> Rows(Payloads, StoredResponses)]
  <2>1. [attempt |-> req[r].attempt, status |-> req[r].verdict] \in StoredResponses
    BY <1>j, <1>b, <1>e DEF StoredResponses, Placed, Completing
  <2>2. idem[req[r].order.key] \in Rows(Payloads, StoredResponses) /\ req[r].generation \in Nat
    BY <1>j, <1>a, <1>e DEF Completing
  <2>3. \E h \in Payloads : TRUE
    BY <1>j, <1>e DEF Completing
  <2>4. SettledRecord(r) \in Rows(Payloads, StoredResponses)
    BY <2>1, <2>2, <2>3, RowOperators DEF SettledRecord
  <2> QED  BY <2>4, <1>a
<1>18. ASSUME NEW r \in Requests, CompleteSettle(r) PROVE TypeOK' /\ AllPlaced'
  <2>1. req[r].verdict \in Replies
    BY <1>b DEF Locals
  <2> QED  BY <1>18, <2>1, <1>a, <1>j, TypeReply DEF CompleteSettle
<1>19. ASSUME NEW r \in Requests, CompleteFail(r) PROVE TypeOK' /\ AllPlaced'
  <2>1. idem[req[r].order.key] \in Rows(Payloads, StoredResponses) /\ req[r].generation \in Nat
    BY <1>19, <1>a, <1>e DEF CompleteFail, Completing
  <2>2. \E h \in Payloads : TRUE
    BY <1>19, <1>e DEF CompleteFail, Completing
  <2>3. Fail(idem[req[r].order.key], req[r].generation, TRUE, Null) \in Rows(Payloads, StoredResponses)
    BY <2>1, <2>2, RowOperators
  <2>4. idem' \in [Keys -> Rows(Payloads, StoredResponses)]
    BY <1>19, <2>3, <1>a DEF CompleteFail
  <2> QED  BY <1>19, <2>4, <1>a, <1>d, TypeReply DEF CompleteFail
<1>20. ASSUME NEW r \in Requests, CompleteThrow(r) PROVE TypeOK' /\ AllPlaced'
  <2>1. idem' \in [Keys -> Rows(Payloads, StoredResponses)]
    BY <1>20, <1>a, <1>j DEF CompleteThrow
  <2> QED  BY <1>20, <2>1, <1>a, <1>c, TypeGoto DEF CompleteThrow, Completing
<1>21. ASSUME NEW r \in Requests, Die(r) PROVE TypeOK' /\ AllPlaced'
  BY <1>21, <1>a, <1>d, TypeReply DEF Die, tables
<1>22. ASSUME NEW k \in Keys, RetryWindowElapses(k) PROVE TypeOK' /\ AllPlaced'
  <2>1. Age(idem[k]) \in Rows(Payloads, StoredResponses)
    BY <1>a DEF Age, Rows
  <2> QED  BY <1>22, <2>1 DEF RetryWindowElapses, TypeOK, AllPlaced
<1>23. CASE UNCHANGED vars
  BY <1>23 DEF vars, TypeOK, AllPlaced
<1>24. ASSUME NEW r \in Requests, Proceed(r) PROVE TypeOK' /\ AllPlaced'
  BY <1>24, <1>2, <1>3, <1>4, <1>5, <1>6, <1>7, <1>8, <1>9, <1>10, <1>11, <1>12, <1>13,
     <1>14, <1>15, <1>16, <1>17, <1>18, <1>19 DEF Proceed
<1> QED  BY <1>1, <1>20, <1>21, <1>22, <1>23, <1>24 DEF Next

\* The tables and the variables of every handler keep their types, whatever the
\* requests and the faults.
THEOREM TypeCorrect == Spec => []TypeOK
<1>1. Init => TypeOK /\ AllPlaced
  BY TypeInit
<1>2. TypeOK /\ AllPlaced /\ [Next]_vars => (TypeOK /\ AllPlaced)'
  BY TypeStep
<1> QED  BY <1>1, <1>2, PTL DEF Spec

----------------------------------------------------------------------------
(***************************************************************************)
(* The rows of attempts.  OneScorer is not inductive: that a second        *)
(* completion cannot reach "score" follows from the attempt_state the      *)
(* first one wrote, and that the row stays as the scorer left it follows   *)
(* from nobody else scoring it.                                            *)
(***************************************************************************)
Scored(S) == IF S \in EvaluatedLogs THEN S ELSE Null

\* What a completion between its UPDATE and its answer relies on.
Fits(v) ==
    LET row == attempt[v.attempt]
    IN /\ v.at \in {"score", "consolidate"} => /\ row.state = "COMPLETION_SUBMITTED"
                                              /\ row.completion = "ACCEPTED_NOT_CONSOLIDATED"
       /\ v.at = "score" => response[v.attempt] = Null
       /\ v.at = "consolidate" => response[v.attempt] = Scored(v.snapshot)
       /\ v.at = "settle" /\ v.verdict = "RECONCILIATION_REQUIRED"
              => row.completion = "RECONCILIATION_REQUIRED"
       /\ v.at = "settle" /\ v.verdict # "RECONCILIATION_REQUIRED" => row.state = "COMPLETED"
       /\ v.at = "settle" /\ v.verdict = "CONSOLIDATED" => row.outcome = v.snapshot
       /\ v.reply = "CONSOLIDATED" => row.state = "COMPLETED" /\ row.outcome = v.snapshot

Sound(a) ==
    LET row == attempt[a]
    IN /\ row.state \in {"ABSENT", "CREATED", "IN_PROGRESS"} <=> row.completion = Null
       /\ row.state = "COMPLETED" <=> row.completion = "CONSOLIDATED"
       /\ row.state = "COMPLETED" <=> row.outcome # Null
       /\ row.state = "COMPLETED" => response[a] = Scored(row.outcome)
       /\ response[a] # Null => row.state \in {"COMPLETION_SUBMITTED", "COMPLETED"}

OnlyScorer ==
    \A r, q \in Requests :
        /\ req[r].at \in {"score", "consolidate"} /\ req[q].at \in {"score", "consolidate"}
        /\ req[r].attempt = req[q].attempt
        => r = q

RowInv ==
    /\ \A r \in Requests : Fits(req[r])
    /\ \A a \in Attempts : Sound(a)
    /\ OnlyScorer

\* A handler that neither scores nor settles moves on; no row changes.
LEMMA RowQuiet ==
    ASSUME TypeOK, TypeOK', RowInv, NEW r \in Requests,
           \A q \in Requests \ {r} : req'[q] = req[q],
           req'[r].at \notin {"score", "consolidate", "settle"},
           req'[r].reply # "CONSOLIDATED",
           UNCHANGED <<attempt, response>>
    PROVE  RowInv'
<1>1. \A q \in Requests : Fits(req[q])'
  BY DEF RowInv, Fits
<1>2. \A a \in Attempts : Sound(a)'
  BY DEF RowInv, Sound
<1>3. OnlyScorer'
  BY DEF RowInv, OnlyScorer
<1> QED  BY <1>1, <1>2, <1>3 DEF RowInv

\* A row that no completion has submitted advances, before or by a submission.
LEMMA RowAdvance ==
    ASSUME TypeOK, TypeOK', AllPlaced, RowInv, NEW r \in Requests,
           req[r].at # "start", req'[r].attempt = req[r].attempt,
           \A q \in Requests \ {r} : req'[q] = req[q],
           NEW row, attempt' = [attempt EXCEPT ![req[r].attempt] = row], UNCHANGED response,
           attempt[req[r].attempt].state \in {"ABSENT", "CREATED", "IN_PROGRESS"},
           row.state \in {"CREATED", "IN_PROGRESS", "COMPLETION_SUBMITTED"},
           row.state \in {"CREATED", "IN_PROGRESS"} <=> row.completion = Null,
           row.completion # "CONSOLIDATED",
           row.outcome = attempt[req[r].attempt].outcome,
           Fits(req[r])'
    PROVE  RowInv'
<1> DEFINE a == req[r].attempt
<1>0. /\ a \in Attempts /\ attempt'[a] = row /\ \A b \in Attempts \ {a} : attempt'[b] = attempt[b]
      /\ attempt \in [Attempts -> AttemptRows]
  BY DEF AllPlaced, Placed, TypeOK
<1>1. Sound(a) /\ \A q \in Requests : Fits(req[q])
  BY <1>0 DEF RowInv
<1>2. attempt[a].outcome = Null /\ response[a] = Null
  BY <1>1 DEF Sound
<1>3. ASSUME NEW q \in Requests \ {r} PROVE Fits(req[q])'
  <2>1. CASE req[q].attempt = a
    BY <1>0, <1>1, <1>3, <2>1, NullOutside DEF Fits, Sound
  <2>2. CASE req[q].attempt # a /\ req[q].attempt \in Attempts
    BY <1>0, <1>1, <2>2 DEF Fits
  <2>3. CASE req[q].attempt \notin Attempts
    BY <1>3, <2>3, NullOutside DEF AllPlaced, Placed, Fits
  <2> QED  BY <2>1, <2>2, <2>3
<1>4. Sound(a)'
  BY <1>0, <1>2 DEF Sound
<1>5. ASSUME NEW b \in Attempts PROVE Sound(b)'
  BY <1>0, <1>4 DEF RowInv, Sound
<1>6. OnlyScorer'
  <2>1. ASSUME NEW q \in Requests, req[q].attempt = a PROVE req[q].at \notin {"score", "consolidate"}
    BY <1>1, <2>1 DEF Fits
  <2> QED  BY <2>1 DEF RowInv, OnlyScorer
<1> QED  BY <1>3, <1>5, <1>6 DEF RowInv

\* What a Goto of one handler does to all of them.
LEMMA AfterGoto ==
    ASSUME TypeOK, NEW r \in Requests, NEW location \in Locations, Goto(r, location)
    PROVE  /\ \A q \in Requests \ {r} : req'[q] = req[q]
           /\ req'[r].at = location
           /\ req'[r].attempt = req[r].attempt /\ req'[r].action = req[r].action
           /\ req'[r].order = req[r].order /\ req'[r].seen = req[r].seen
           /\ req'[r].snapshot = req[r].snapshot /\ req'[r].generation = req[r].generation
           /\ req'[r].verdict = req[r].verdict /\ req'[r].reply = req[r].reply
<1>1. req' = [req EXCEPT ![r] = Moved(req[r], location)] /\ req \in [Requests -> Locals]
  BY GotoMoves DEF TypeOK
<1>2. req'[r] = Moved(req[r], location) /\ req[r] \in Locals
  BY <1>1
<1> QED  BY <1>1, <1>2, MovedTyped

\* What a Reply of one handler does to all of them.
LEMMA AfterReply ==
    ASSUME TypeOK, NEW r \in Requests, NEW code \in Replies, Reply(r, code)
    PROVE  /\ \A q \in Requests \ {r} : req'[q] = req[q]
           /\ req'[r].at = "done" /\ req'[r].reply = code
           /\ req'[r].attempt = req[r].attempt /\ req'[r].action = req[r].action
           /\ req'[r].order = req[r].order /\ req'[r].snapshot = req[r].snapshot
<1>1. req' = [req EXCEPT ![r] = Replied(req[r], code)] /\ req \in [Requests -> Locals]
  BY ReplyMoves DEF TypeOK
<1>2. req'[r] = Replied(req[r], code) /\ req[r] \in Locals
  BY <1>1
<1> QED  BY <1>1, <1>2, RepliedTyped

\* What the arrival of a request does: it is at its first statement or answered.
LEMMA AfterArrive ==
    ASSUME TypeOK, AllPlaced, NEW r \in Requests, Arrive(r)
    PROVE  /\ UNCHANGED tables
           /\ \A q \in Requests \ {r} : req'[q] = req[q]
           /\ req'[r].at \in {"gate", "dedup", "begin", "fetch", "done"}
           /\ req'[r].reply \notin {"CONSOLIDATED", "ACCEPTED"}
           /\ req'[r].at = "dedup" => req'[r].seen = attempt[req'[r].attempt].state
<1>0. req \in [Requests -> Locals] /\ req[r] \in Locals /\ Placed(r, req[r])
  BY DEF TypeOK, AllPlaced
<1>1. ASSUME NEW a \in Attempts, LaunchLookup(r, a)
      PROVE  /\ req'[r].at \in {"gate", "done"} /\ req'[r].reply \in {Null, "OK"}
             /\ UNCHANGED tables /\ \A q \in Requests \ {r} : req'[q] = req[q]
  BY <1>0, <1>1 DEF LaunchLookup, Locals
<1>2. ASSUME NEW a \in Attempts, NEW x \in Actions, ActionRead(r, a, x)
      PROVE  /\ req'[r].at \in {"dedup", "done"} /\ req'[r].reply \in {Null, "NOT_FOUND"}
             /\ req'[r].seen = attempt[req'[r].attempt].state
             /\ UNCHANGED tables /\ \A q \in Requests \ {r} : req'[q] = req[q]
  BY <1>0, <1>2 DEF ActionRead, Locals
<1>3. ASSUME NEW a \in Attempts, EntryRead(r, a)
      PROVE  /\ req'[r].at \in {"begin", "done"}
             /\ req'[r].reply \in {Null, "OK", "NOT_FOUND", "ORCHESTRATION_STAGE_ENTRY_NOT_APPLICABLE"}
             /\ UNCHANGED tables /\ \A q \in Requests \ {r} : req'[q] = req[q]
  BY <1>0, <1>3 DEF EntryRead, Locals
<1>4. ASSUME NEW s \in Submissions, CompleteRead(r, s)
      PROVE  /\ req'[r].at \in {"fetch", "done"}
             /\ req'[r].reply \in {Null, "NOT_FOUND", "ATTEMPT_ALREADY_CONSOLIDATED", "ATTEMPT_NOT_COMPLETABLE"}
             /\ UNCHANGED tables /\ \A q \in Requests \ {r} : req'[q] = req[q]
  BY <1>0, <1>4 DEF CompleteRead, Locals
<1> QED  BY <1>1, <1>2, <1>3, <1>4, NullOutside DEF Arrive

\* The steps that neither touch the rows of attempts nor lead to one that does.
Quiet(r) ==
    /\ \A q \in Requests \ {r} : req'[q] = req[q]
    /\ req'[r].at \notin {"score", "consolidate", "settle"}
    /\ req'[r].reply # "CONSOLIDATED"
    /\ UNCHANGED <<attempt, response>>

QuietStep(r) ==
    \/ Arrive(r) \/ LaunchGate(r) \/ LaunchCapture(r) \/ ActionDedup(r) \/ ActionInsert(r)
    \/ EntryReread(r) \/ EntryAudit(r) \/ CompleteFetch(r) \/ CompleteUpsert(r)
    \/ CompleteClassify(r) \/ CompleteEvaluate(r) \/ CompleteFail(r)
    \/ CompleteThrow(r) \/ Die(r)

\* The quiet steps, and the two guarded UPDATEs that find no row, are Quiet.
LEMMA QuietSteps ==
    ASSUME TypeOK, AllPlaced, NEW r \in Requests,
           \/ QuietStep(r)
           \/ LaunchCreate(r) /\ UNCHANGED attempt
           \/ CompleteSubmit(r) /\ UNCHANGED attempt /\ Goto(r, "fail")
    PROVE  Quiet(r)
<1>0. req \in [Requests -> Locals] /\ req[r] \in Locals /\ Placed(r, req[r])
  BY DEF TypeOK, AllPlaced
<1>a. ASSUME NEW location \in Locations \ {"score", "consolidate", "settle"}, Goto(r, location),
             req[r].at # "done", UNCHANGED <<attempt, response>>
      PROVE  Quiet(r)
  BY <1>0, <1>a, AfterGoto, NullOutside DEF Quiet, Placed
<1>b. ASSUME NEW code \in Replies \ {"CONSOLIDATED"}, Reply(r, code), UNCHANGED <<attempt, response>>
      PROVE  Quiet(r)
  BY <1>b, AfterReply DEF Quiet
<1>c. \A loc \in {"create", "capture", "begin", "insert", "reread", "audit", "upsert", "classify",
                 "evaluate", "submit", "fail"} : loc \in Locations \ {"score", "consolidate", "settle"}
  BY DEF Locations
<1>d. \A code \in {"OK", "ACCEPTED", "ERROR", "LEARNING_PATH_RESOURCE_NOT_AVAILABLE",
                  "ATTEMPT_RUNTIME_MISMATCH", "ATTEMPT_NOT_COMPLETABLE",
                  "CROSS_RUNTIME_ATTEMPT_CONFLICT", "FAILED_TERMINAL", "DUPLICATE"} :
            code \in Replies \ {"CONSOLIDATED"}
  BY DEF Replies
<1>1. CASE Arrive(r)
  BY <1>1, AfterArrive DEF Quiet, tables
<1>2. CASE LaunchGate(r)
  BY <1>2, <1>a, <1>b, <1>c, <1>d DEF LaunchGate, tables
<1>3. CASE LaunchCreate(r) /\ UNCHANGED attempt
  BY <1>3, <1>a, <1>b, <1>c, <1>d DEF LaunchCreate
<1>4. CASE LaunchCapture(r)
  BY <1>4, <1>b, <1>d DEF LaunchCapture
<1>5. CASE ActionDedup(r)
  BY <1>5, <1>a, <1>b, <1>c, <1>d DEF ActionDedup, tables
<1>6. CASE ActionInsert(r)
  BY <1>6, <1>b, <1>d DEF ActionInsert
<1>7. CASE EntryReread(r)
  BY <1>7, <1>a, <1>b, <1>c, <1>d DEF EntryReread, tables
<1>8. CASE EntryAudit(r)
  BY <1>8, <1>b, <1>d DEF EntryAudit
<1>9. CASE CompleteFetch(r)
  <2>1. CASE Reply(r, "ATTEMPT_NOT_COMPLETABLE")
    BY <1>9, <2>1, <1>b, <1>d DEF CompleteFetch, tables
  <2>2. CASE req' = [req EXCEPT ![r] = [@ EXCEPT !.snapshot = log[req[r].attempt], !.at = "upsert"]]
    BY <1>0, <1>9, <2>2, NullOutside DEF CompleteFetch, tables, Quiet, Locals, Placed
  <2> QED  BY <1>9, <2>1, <2>2 DEF CompleteFetch
<1>10. CASE CompleteUpsert(r)
  <2>1. CASE Goto(r, "classify")
    BY <1>10, <2>1, <1>a, <1>c DEF CompleteUpsert
  <2>2. CASE req' = [req EXCEPT ![r] = [@ EXCEPT !.generation = idem[req[r].order.key].generation + 1,
                                                !.at = "evaluate"]]
    BY <1>0, <1>10, <2>2, NullOutside DEF CompleteUpsert, Quiet, Locals, Placed
  <2> QED  BY <1>10, <2>1, <2>2 DEF CompleteUpsert
<1>11. CASE CompleteClassify(r)
  <2>1. PICK code \in Replies \ {"CONSOLIDATED"} : Reply(r, code)
    BY <1>11, <1>d DEF CompleteClassify
  <2> QED  BY <1>11, <2>1, <1>b DEF CompleteClassify, tables
<1>12. CASE CompleteEvaluate(r)
  BY <1>0, <1>12, NullOutside DEF CompleteEvaluate, tables, Quiet, Locals, Placed
<1>13. CASE CompleteSubmit(r) /\ UNCHANGED attempt /\ Goto(r, "fail")
  BY <1>13, <1>a, <1>c DEF CompleteSubmit
<1>14. CASE CompleteFail(r)
  BY <1>14, <1>b, <1>d DEF CompleteFail
<1>15. CASE CompleteThrow(r)
  BY <1>15, <1>a, <1>c DEF CompleteThrow
<1>16. CASE Die(r)
  BY <1>16, <1>b, <1>d DEF Die, tables
<1> QED  BY <1>1, <1>2, <1>3, <1>4, <1>5, <1>6, <1>7, <1>8, <1>9, <1>10, <1>11, <1>12, <1>13,
            <1>14, <1>15, <1>16 DEF QuietStep

\* The other steps, and which rows they find and leave.
LEMMA RowStep ==
    ASSUME TypeOK, AllPlaced, TypeOK', RowInv, [Next]_vars
    PROVE  RowInv'
<1>a. ASSUME NEW r \in Requests
      PROVE  /\ req \in [Requests -> Locals] /\ req[r] \in Locals /\ Placed(r, req[r])
             /\ Fits(req[r]) /\ attempt \in [Attempts -> AttemptRows]
             /\ req[r].at # "start" => req[r].attempt \in Attempts /\ Sound(req[r].attempt)
  BY DEF TypeOK, AllPlaced, RowInv, Placed
<1>b. {"capture", "insert", "audit", "reread", "settle", "score", "consolidate"} \subseteq Locations
  BY DEF Locations
<1>1. ASSUME NEW r \in Requests, Quiet(r) PROVE RowInv'
  BY <1>1, RowQuiet DEF Quiet
<1>2. ASSUME NEW r \in Requests, LaunchCreate(r) PROVE RowInv'
  <2>1. CASE UNCHANGED attempt
    BY <1>2, <2>1, <1>1, QuietSteps
  <2>2. CASE attempt[req[r].attempt].state = "ABSENT"
    <3> DEFINE row == [attempt[req[r].attempt] EXCEPT !.state = "CREATED"]
    <3>1. /\ attempt' = [attempt EXCEPT ![req[r].attempt] = row]
          /\ Goto(r, "capture") /\ UNCHANGED response /\ req[r].at = "create"
      BY <1>2, <2>2 DEF LaunchCreate
    <3>2. /\ row.state = "CREATED" /\ row.completion = attempt[req[r].attempt].completion
          /\ row.outcome = attempt[req[r].attempt].outcome
          /\ attempt[req[r].attempt].completion = Null
      BY <3>1, <2>2, <1>a DEF AttemptRows, Sound
    <3> HIDE DEF row
    <3>3. Fits(req[r])'
      BY <3>1, <1>a, <1>b, AfterGoto, NullOutside DEF Fits, Placed
    <3> QED  BY <3>1, <3>2, <3>3, <2>2, <1>b, AfterGoto, RowAdvance, NullOutside
  <2> QED  BY <1>2, <2>1, <2>2 DEF LaunchCreate
<1>3. ASSUME NEW r \in Requests, NEW location \in {"insert", "audit", "reread"}, req[r].at = "begin",
             TransitionToInProgress(req[r].attempt), Goto(r, location), UNCHANGED response
      PROVE  RowInv'
  <2>1. CASE UNCHANGED attempt
    BY <1>3, <2>1, <1>a, <1>b, AfterGoto, RowQuiet, NullOutside DEF Placed
  <2>2. CASE attempt[req[r].attempt].state = "CREATED"
    <3> DEFINE row == [attempt[req[r].attempt] EXCEPT !.state = "IN_PROGRESS"]
    <3>1. attempt' = [attempt EXCEPT ![req[r].attempt] = row]
      BY <1>3, <2>2 DEF TransitionToInProgress
    <3>2. /\ row.state = "IN_PROGRESS" /\ row.completion = attempt[req[r].attempt].completion
          /\ row.outcome = attempt[req[r].attempt].outcome
          /\ attempt[req[r].attempt].completion = Null
      BY <1>3, <2>2, <1>a DEF AttemptRows, Sound
    <3> HIDE DEF row
    <3>3. Fits(req[r])'
      BY <1>3, <1>a, <1>b, AfterGoto, NullOutside DEF Fits, Placed
    <3> QED  BY <1>3, <3>1, <3>2, <3>3, <2>2, <1>b, AfterGoto, RowAdvance, NullOutside
  <2> QED  BY <1>3, <2>1, <2>2 DEF TransitionToInProgress
<1>4. ASSUME NEW r \in Requests, CompleteSubmit(r) PROVE RowInv'
  <2>1. CASE UNCHANGED attempt /\ Goto(r, "fail")
    BY <1>4, <2>1, <1>1, QuietSteps
  <2>2. CASE attempt[req[r].attempt].state = "IN_PROGRESS"
    <3> DEFINE reconcile == req[r].verdict = "RECONCILIATION_REQUIRED"
               row == [attempt[req[r].attempt] EXCEPT !.state = "COMPLETION_SUBMITTED",
                           !.completion = IF reconcile THEN "RECONCILIATION_REQUIRED"
                                          ELSE "ACCEPTED_NOT_CONSOLIDATED"]
               location == IF reconcile THEN "settle" ELSE "score"
    <3>1. /\ attempt' = [attempt EXCEPT ![req[r].attempt] = row]
          /\ Goto(r, location) /\ UNCHANGED response /\ req[r].at = "submit"
      BY <1>4, <2>2 DEF CompleteSubmit
    <3>2. /\ row.state = "COMPLETION_SUBMITTED"
          /\ row.completion = IF reconcile THEN "RECONCILIATION_REQUIRED" ELSE "ACCEPTED_NOT_CONSOLIDATED"
          /\ row.outcome = attempt[req[r].attempt].outcome
          /\ response[req[r].attempt] = Null
          /\ attempt'[req[r].attempt] = row
      BY <3>1, <2>2, <1>a DEF AttemptRows, Sound
    <3>4. location \in Locations
      BY <1>b
    <3>5. location \in {"settle", "score"} /\ (location = "settle" <=> reconcile)
      OBVIOUS
    <3>6. req[r].reply = Null
      BY <3>1, <1>a DEF Placed
    <3> HIDE DEF row, location
    <3>3. Fits(req[r])'
      BY <3>1, <3>2, <3>4, <3>5, <3>6, AfterGoto, NullOutside DEF Fits
    <3> QED  BY <3>1, <3>2, <3>3, <3>4, <2>2, AfterGoto, RowAdvance, NullOutside
  <2> QED  BY <1>4, <2>1, <2>2 DEF CompleteSubmit
<1>c. ASSUME NEW r \in Requests, NEW q \in Requests \ {r},
             req[r].at \in {"score", "consolidate"}, req[q].attempt = req[r].attempt
      PROVE  /\ req[q].at \notin {"score", "consolidate", "settle"}
             /\ req[q].reply # "CONSOLIDATED"
  <2>1. req[q].at \notin {"score", "consolidate"}
    BY <1>c DEF RowInv, OnlyScorer
  <2>2. Fits(req[q]) /\ Fits(req[r])
    BY <1>a
  <2> QED  BY <1>c, <2>1, <2>2 DEF Fits
<1>5. ASSUME NEW r \in Requests, CompleteScore(r) PROVE RowInv'
  <2> DEFINE a == req[r].attempt
  <2>1. /\ req[r].at = "score" /\ a \in Attempts /\ Goto(r, "consolidate") /\ UNCHANGED attempt
        /\ response[a] = Null /\ attempt[a].state = "COMPLETION_SUBMITTED"
        /\ attempt[a].completion = "ACCEPTED_NOT_CONSOLIDATED"
        /\ response \in [Attempts -> {Null} \union SUBSET Actions]
        /\ response' = [response EXCEPT ![a] = Scored(req[r].snapshot)]
        /\ req[r].reply = Null
    BY <1>5, <1>a DEF CompleteScore, Fits, Placed, Scored, TypeOK
  <2>2. /\ response'[a] = Scored(req[r].snapshot)
        /\ \A b \in Attempts \ {a} : response'[b] = response[b]
    BY <2>1
  <2>3. /\ req'[r].at = "consolidate" /\ req'[r].attempt = a /\ req'[r].snapshot = req[r].snapshot
        /\ req'[r].reply = Null /\ \A q \in Requests \ {r} : req'[q] = req[q]
    BY <2>1, <1>b, AfterGoto
  <2> HIDE DEF a
  <2>4. ASSUME NEW q \in Requests PROVE Fits(req[q])'
    <3>1. CASE q = r
      BY <2>1, <2>2, <2>3, <3>1, NullOutside DEF Fits
    <3>2. CASE q # r /\ req[q].attempt = a
      BY <2>1, <2>3, <3>2, <1>c, NullOutside DEF Fits, a
    <3>3. CASE q # r /\ req[q].attempt # a /\ req[q].attempt \in Attempts
      BY <2>1, <2>2, <2>3, <3>3, <1>a DEF Fits
    <3>4. CASE q # r /\ req[q].attempt \notin Attempts
      BY <2>3, <3>4, <1>a, NullOutside DEF Placed, Fits
    <3> QED  BY <3>1, <3>2, <3>3, <3>4
  <2>5. ASSUME NEW b \in Attempts PROVE Sound(b)'
    <3>1. Sound(b)
      BY DEF RowInv
    <3>2. CASE b = a
      BY <2>1, <3>1, <3>2 DEF Sound
    <3>3. CASE b # a
      BY <2>1, <2>2, <3>1, <3>3 DEF Sound
    <3> QED  BY <3>2, <3>3
  <2>6. OnlyScorer'
    BY <2>1, <2>3, <1>c DEF RowInv, OnlyScorer, a
  <2> QED  BY <2>4, <2>5, <2>6 DEF RowInv
<1>6. ASSUME NEW r \in Requests, CompleteConsolidate(r) PROVE RowInv'
  <2> DEFINE a == req[r].attempt
             row == [state |-> "COMPLETED", completion |-> "CONSOLIDATED", outcome |-> req[r].snapshot]
  <2>1. /\ req[r].at = "consolidate" /\ a \in Attempts
        /\ attempt[a].state = "COMPLETION_SUBMITTED"
        /\ response[a] = Scored(req[r].snapshot) /\ req[r].reply = Null
        /\ req[r].snapshot \in SUBSET Actions
        /\ attempt \in [Attempts -> AttemptRows]
    BY <1>6, <1>a DEF CompleteConsolidate, Fits, Placed, Locals
  <2>2. /\ attempt' = [attempt EXCEPT ![a] = row]
        /\ req' = [req EXCEPT ![r] = [@ EXCEPT !.at = "settle", !.verdict = "CONSOLIDATED"]]
        /\ UNCHANGED response
    BY <1>6, <2>1 DEF CompleteConsolidate
  <2>3. /\ attempt'[a] = row /\ \A b \in Attempts \ {a} : attempt'[b] = attempt[b]
        /\ row.state = "COMPLETED" /\ row.completion = "CONSOLIDATED" /\ row.outcome = req[r].snapshot
        /\ row.outcome # Null
    BY <2>1, <2>2, NullOutside
  <2>4. /\ req'[r].at = "settle" /\ req'[r].attempt = a /\ req'[r].snapshot = req[r].snapshot
        /\ req'[r].reply = Null /\ req'[r].verdict = "CONSOLIDATED"
        /\ \A q \in Requests \ {r} : req'[q] = req[q]
    BY <2>1, <2>2, <1>a DEF Locals
  <2> HIDE DEF a, row
  <2>5. ASSUME NEW q \in Requests PROVE Fits(req[q])'
    <3>1. CASE q = r
      BY <2>3, <2>4, <3>1, NullOutside DEF Fits
    <3>2. CASE q # r /\ req[q].attempt = a
      BY <2>1, <2>4, <3>2, <1>c, NullOutside DEF Fits, a
    <3>3. CASE q # r /\ req[q].attempt # a /\ req[q].attempt \in Attempts
      BY <2>2, <2>3, <2>4, <3>3, <1>a DEF Fits
    <3>4. CASE q # r /\ req[q].attempt \notin Attempts
      BY <2>4, <3>4, <1>a, NullOutside DEF Placed, Fits
    <3> QED  BY <3>1, <3>2, <3>3, <3>4
  <2>6. ASSUME NEW b \in Attempts PROVE Sound(b)'
    <3>1. Sound(b)
      BY DEF RowInv
    <3>2. CASE b = a
      BY <2>1, <2>2, <2>3, <3>2, NullOutside DEF Sound
    <3>3. CASE b # a
      BY <2>2, <2>3, <3>1, <3>3 DEF Sound
    <3> QED  BY <3>2, <3>3
  <2>7. OnlyScorer'
    BY <2>4 DEF RowInv, OnlyScorer
  <2> QED  BY <2>5, <2>6, <2>7 DEF RowInv
<1>7. ASSUME NEW r \in Requests, CompleteSettle(r) PROVE RowInv'
  <2>1. /\ req[r].at = "settle" /\ Reply(r, req[r].verdict) /\ req[r].verdict \in Replies
        /\ UNCHANGED <<attempt, response>>
    BY <1>7, <1>a DEF CompleteSettle, Locals
  <2>2. /\ req'[r].at = "done" /\ req'[r].reply = req[r].verdict /\ req'[r].attempt = req[r].attempt
        /\ req'[r].snapshot = req[r].snapshot /\ \A q \in Requests \ {r} : req'[q] = req[q]
    BY <2>1, AfterReply
  <2>3. Fits(req[r])'
    BY <2>1, <2>2, <1>a DEF Fits
  <2>4. \A q \in Requests : Fits(req[q])'
    BY <2>1, <2>2, <2>3, <1>a DEF Fits
  <2>5. OnlyScorer' /\ \A b \in Attempts : Sound(b)'
    BY <2>1, <2>2 DEF RowInv, OnlyScorer, Sound
  <2> QED  BY <2>4, <2>5 DEF RowInv
<1>8. ASSUME NEW r \in Requests, QuietStep(r)
      PROVE  RowInv'
  <2>1. Quiet(r)
    BY <1>8, QuietSteps
  <2> QED  BY <2>1, <1>1
<1>9. ASSUME NEW r \in Requests, ActionBegin(r) \/ EntryBegin(r) PROVE RowInv'
  <2>1. PICK location \in {"insert", "audit", "reread"} :
            /\ req[r].at = "begin" /\ TransitionToInProgress(req[r].attempt)
            /\ Goto(r, location) /\ UNCHANGED response
    BY <1>9 DEF ActionBegin, EntryBegin
  <2> QED  BY <2>1, <1>3
<1>10. ASSUME NEW r \in Requests, Proceed(r) PROVE RowInv'
  BY <1>10, <1>2, <1>4, <1>5, <1>6, <1>7, <1>8, <1>9 DEF Proceed, QuietStep
<1>11. CASE \E k \in Keys : RetryWindowElapses(k)
  BY <1>11 DEF RetryWindowElapses, RowInv, Fits, Sound, OnlyScorer
<1>12. CASE UNCHANGED vars
  BY <1>12 DEF vars, RowInv, Fits, Sound, OnlyScorer
<1> QED  BY <1>8, <1>10, <1>11, <1>12 DEF Next, QuietStep

\* RowInv holds initially: nothing was read or written yet.
LEMMA RowInit == Init => RowInv
<1> SUFFICES ASSUME Init PROVE RowInv
  OBVIOUS
<1>1. /\ \A r \in Requests : req[r] = Unsent
      /\ \A a \in Attempts : attempt[a] = NoAttempt /\ response[a] = Null
  BY DEF Init
<1>2. \A r \in Requests : Fits(req[r])
  BY <1>1, NullOutside DEF Fits, Unsent
<1>3. \A a \in Attempts : Sound(a)
  BY <1>1, NullOutside DEF Sound, NoAttempt
<1>4. OnlyScorer
  BY <1>1 DEF OnlyScorer, Unsent
<1> QED  BY <1>2, <1>3, <1>4 DEF RowInv

\* The invariant under which the rows of attempts are argued about.
AttemptInv == TypeOK /\ AllPlaced /\ RowInv

\* AttemptInv is an invariant of the specification.
THEOREM AttemptInvariance == Spec => []AttemptInv
<1>1. Init => AttemptInv
  BY TypeInit, RowInit DEF AttemptInv
<1>2. AttemptInv /\ [Next]_vars => AttemptInv'
  BY TypeStep, RowStep DEF AttemptInv
<1> QED  BY <1>1, <1>2, PTL DEF Spec

\* However many completions race, one request at most computes the outcome of an
\* attempt, and nobody changes the row under it.
THEOREM OneScorerHolds == Spec => []OneScorer
<1>1. AttemptInv => OneScorer
  BY DEF AttemptInv, RowInv, Fits, OnlyScorer, OneScorer, Scoring
<1> QED  BY <1>1, AttemptInvariance, PTL

\* No handler leaves a row that learning_attempt's lifecycle CHECK refuses.
THEOREM LifecycleConstraintHolds == Spec => []LifecycleConstraint
<1>1. AttemptInv => LifecycleConstraint
  BY DEF AttemptInv, RowInv, Sound, LifecycleConstraint
<1> QED  BY <1>1, AttemptInvariance, PTL

\* The response and the outcome of an attempt come from the same actions.
THEOREM ResponseMatchesOutcomeHolds == Spec => []ResponseMatchesOutcome
<1>1. AttemptInv => ResponseMatchesOutcome
  BY DEF AttemptInv, RowInv, Sound, Scored, ResponseMatchesOutcome
<1> QED  BY <1>1, AttemptInvariance, PTL

\* CONSOLIDATED is answered by the handler whose actions are the outcome.
THEOREM ConsolidatedAnswerIsTrueHolds == Spec => []ConsolidatedAnswerIsTrue
<1>1. AttemptInv => ConsolidatedAnswerIsTrue
  BY DEF AttemptInv, RowInv, Fits, ConsolidatedAnswerIsTrue, Requests
<1> QED  BY <1>1, AttemptInvariance, PTL

----------------------------------------------------------------------------
(***************************************************************************)
(* What a step may do to the row of an attempt.                            *)
(***************************************************************************)
RowMove(a) ==
    \/ attempt'[a] = attempt[a]
    \/ attempt[a].state = "ABSENT" /\ attempt'[a].state = "CREATED"
    \/ attempt[a].state = "CREATED" /\ attempt'[a].state = "IN_PROGRESS"
    \/ attempt[a].state = "IN_PROGRESS" /\ attempt'[a].state = "COMPLETION_SUBMITTED"
    \/ /\ attempt[a].state = "COMPLETION_SUBMITTED" /\ attempt'[a].state = "COMPLETED"
       /\ attempt[a].completion = "ACCEPTED_NOT_CONSOLIDATED"

\* Every step of the specification moves each row along its lifecycle or not at all.
LEMMA RowMoves ==
    ASSUME AttemptInv, [Next]_vars, NEW a \in Attempts
    PROVE  RowMove(a)
<1>0. attempt \in [Attempts -> AttemptRows] /\ attempt[a] \in AttemptRows
  BY DEF AttemptInv, TypeOK
<1>a. ASSUME NEW r \in Requests
      PROVE  Fits(req[r]) /\ (req[r].at # "start" => req[r].attempt \in Attempts)
  BY DEF AttemptInv, RowInv, AllPlaced, Placed
<1>1. ASSUME NEW r \in Requests, QuietStep(r)
      PROVE  RowMove(a)
  <2>1. Quiet(r)
    BY <1>1, QuietSteps DEF AttemptInv
  <2> QED  BY <2>1 DEF Quiet, RowMove
<1>2. ASSUME NEW r \in Requests, LaunchCreate(r) PROVE RowMove(a)
  BY <1>0, <1>2, <1>a DEF LaunchCreate, RowMove, AttemptRows
<1>3. ASSUME NEW r \in Requests, ActionBegin(r) \/ EntryBegin(r) PROVE RowMove(a)
  <2>1. TransitionToInProgress(req[r].attempt)
    BY <1>3 DEF ActionBegin, EntryBegin
  <2> QED  BY <1>0, <2>1 DEF TransitionToInProgress, RowMove, AttemptRows
<1>4. ASSUME NEW r \in Requests, CompleteSubmit(r) PROVE RowMove(a)
  <2>1. CASE UNCHANGED attempt
    BY <2>1 DEF RowMove
  <2>2. CASE attempt[req[r].attempt].state = "IN_PROGRESS"
    <3>1. PICK c : attempt' = [attempt EXCEPT ![req[r].attempt] =
                                   [@ EXCEPT !.state = "COMPLETION_SUBMITTED", !.completion = c]]
      BY <1>4, <2>2 DEF CompleteSubmit
    <3> QED  BY <1>0, <2>2, <3>1 DEF RowMove, AttemptRows
  <2> QED  BY <1>4, <2>1, <2>2 DEF CompleteSubmit
<1>5. ASSUME NEW r \in Requests, CompleteScore(r) \/ CompleteSettle(r) PROVE RowMove(a)
  BY <1>5 DEF CompleteScore, CompleteSettle, RowMove
<1>6. ASSUME NEW r \in Requests, CompleteConsolidate(r) PROVE RowMove(a)
  <2>1. /\ attempt[req[r].attempt].state = "COMPLETION_SUBMITTED"
        /\ attempt[req[r].attempt].completion = "ACCEPTED_NOT_CONSOLIDATED"
    BY <1>6, <1>a DEF CompleteConsolidate, Fits
  <2>2. attempt' = [attempt EXCEPT ![req[r].attempt] =
                       [state |-> "COMPLETED", completion |-> "CONSOLIDATED", outcome |-> req[r].snapshot]]
    BY <1>6, <2>1 DEF CompleteConsolidate
  <2> QED  BY <1>0, <2>1, <2>2 DEF RowMove
<1>7. ASSUME NEW r \in Requests, Proceed(r) PROVE RowMove(a)
  BY <1>7, <1>1, <1>2, <1>3, <1>4, <1>5, <1>6 DEF Proceed, QuietStep
<1>8. CASE (\E k \in Keys : RetryWindowElapses(k)) \/ UNCHANGED vars
  BY <1>8 DEF RetryWindowElapses, vars, RowMove
<1> QED  BY <1>1, <1>7, <1>8 DEF Next, QuietStep

\* No interleaving moves an attempt backwards or rewrites a completed one.
THEOREM LifecycleMonotoneHolds == Spec => LifecycleMonotone
<1>1. ASSUME AttemptInv, [Next]_vars, NEW a \in Attempts
      PROVE  /\ Rank(attempt[a].state) <= Rank(attempt'[a].state)
             /\ attempt[a].state = "COMPLETED" => attempt'[a] = attempt[a]
  <2>1. RowMove(a) /\ attempt[a].state \in AttemptStates
    BY <1>1, RowMoves DEF AttemptInv, TypeOK, AttemptRows
  <2>2. /\ Rank("ABSENT") = 0 /\ Rank("CREATED") = 1 /\ Rank("IN_PROGRESS") = 2
        /\ Rank("COMPLETION_SUBMITTED") = 3 /\ Rank("COMPLETED") = 4
    BY DEF Rank
  <2>3. Rank(attempt[a].state) \in Nat
    BY <2>1, <2>2 DEF AttemptStates
  <2> QED  BY <2>1, <2>2, <2>3 DEF RowMove
<1>2. AttemptInv /\ [Next]_vars =>
          [\A a \in Attempts :
              /\ Rank(attempt[a].state) <= Rank(attempt'[a].state)
              /\ attempt[a].state = "COMPLETED" => attempt'[a] = attempt[a]]_vars
  BY <1>1
<1> QED  BY <1>2, AttemptInvariance, PTL DEF Spec, LifecycleMonotone

\* A parked attempt stays as it is, whatever an earlier evaluation concluded.
THEOREM ParkedStaysParkedHolds == Spec => ParkedStaysParked
<1>1. ASSUME AttemptInv, [Next]_vars, NEW a \in Attempts,
             attempt[a].completion = "RECONCILIATION_REQUIRED"
      PROVE  attempt'[a] = attempt[a]
  <2>1. Sound(a)
    BY <1>1 DEF AttemptInv, RowInv
  <2>2. attempt[a].state \notin {"ABSENT", "CREATED", "IN_PROGRESS"}
    BY <1>1, <2>1, NullOutside DEF Sound
  <2> QED  BY <1>1, <2>2, RowMoves DEF RowMove
<1>2. AttemptInv /\ [Next]_vars =>
          [\A a \in Attempts : attempt[a].completion = "RECONCILIATION_REQUIRED" =>
               attempt'[a] = attempt[a]]_vars
  BY <1>1
<1> QED  BY <1>2, AttemptInvariance, PTL DEF Spec, ParkedStaysParked

\* A step of a handler on another attempt, or of one that neither comes to score nor changes
\* the row or the response, leaves an attempt that nobody scores alone.
LEMMA NotTakenUp ==
    ASSUME NEW a \in Attempts, NEW r \in Requests,
           \A q \in Requests : Scoring(q) => req[q].attempt # a,
           \A q \in Requests \ {r} : req'[q] = req[q],
           req'[r].attempt # a \/ req'[r].at \notin {"score", "consolidate"},
           attempt'[a] = attempt[a], response'[a] = response[a]
    PROVE  /\ attempt'[a] = attempt[a] /\ response'[a] = response[a]
           /\ \A q \in Requests : Scoring(q)' => req'[q].attempt # a
BY DEF Scoring

\* No step takes up the scoring of a submitted attempt: only the UPDATE that submits it
\* leads to its score.
LEMMA AbandonedStep ==
    ASSUME AttemptInv, [Next]_vars, NEW a \in Attempts, attempt[a].state = "COMPLETION_SUBMITTED",
           \A r \in Requests : Scoring(r) => req[r].attempt # a
    PROVE  /\ attempt'[a] = attempt[a] /\ response'[a] = response[a]
           /\ \A r \in Requests : Scoring(r)' => req'[r].attempt # a
<1> DEFINE Left == /\ attempt'[a] = attempt[a] /\ response'[a] = response[a]
                   /\ \A r \in Requests : Scoring(r)' => req'[r].attempt # a
<1>0. /\ TypeOK /\ AllPlaced /\ attempt \in [Attempts -> AttemptRows]
      /\ req \in [Requests -> Locals] /\ DOMAIN response = Attempts
  BY DEF AttemptInv, TypeOK
<1>a. ASSUME NEW r \in Requests PROVE req[r] \in Locals /\ Placed(r, req[r]) /\ Fits(req[r])
  BY <1>0 DEF AllPlaced, AttemptInv, RowInv
<1>b. {"capture", "insert", "audit", "reread", "settle", "score", "consolidate", "fail"} \subseteq Locations
  BY DEF Locations
<1>1. ASSUME NEW r \in Requests, Quiet(r) PROVE Left
  BY <1>1, NotTakenUp DEF Quiet
<1>2. ASSUME NEW r \in Requests, LaunchCreate(r) PROVE Left
  <2>1. CASE UNCHANGED attempt
    BY <1>0, <1>1, <1>2, <2>1, QuietSteps
  <2>2. CASE /\ attempt[req[r].attempt].state = "ABSENT" /\ Goto(r, "capture")
             /\ attempt' = [attempt EXCEPT ![req[r].attempt] = [@ EXCEPT !.state = "CREATED"]]
    <3>1. req[r].attempt # a /\ attempt'[a] = attempt[a]
      BY <1>0, <2>2
    <3>2. req'[r].at = "capture" /\ \A q \in Requests \ {r} : req'[q] = req[q]
      BY <1>0, <1>b, <2>2, AfterGoto
    <3> QED  BY <1>2, <3>1, <3>2, NotTakenUp DEF LaunchCreate
  <2> QED  BY <1>2, <2>1, <2>2 DEF LaunchCreate
<1>3. ASSUME NEW r \in Requests, ActionBegin(r) \/ EntryBegin(r) PROVE Left
  <2>1. attempt'[a] = attempt[a] /\ UNCHANGED response
    BY <1>0, <1>3 DEF ActionBegin, EntryBegin, TransitionToInProgress
  <2>2. PICK loc \in {"insert", "audit", "reread"} : Goto(r, loc)
    BY <1>3 DEF ActionBegin, EntryBegin
  <2>3. req'[r].at = loc /\ \A q \in Requests \ {r} : req'[q] = req[q]
    BY <1>0, <1>b, <2>2, AfterGoto
  <2> QED  BY <2>1, <2>3, NotTakenUp
<1>4. ASSUME NEW r \in Requests, CompleteSubmit(r) PROVE Left
  <2>1. CASE UNCHANGED attempt /\ Goto(r, "fail")
    BY <1>0, <1>1, <1>4, <2>1, QuietSteps
  <2>2. CASE attempt[req[r].attempt].state = "IN_PROGRESS"
    <3>1. PICK row : attempt' = [attempt EXCEPT ![req[r].attempt] = row]
      BY <1>4, <2>2 DEF CompleteSubmit
    <3>2. PICK loc \in {"settle", "score"} : Goto(r, loc)
      BY <1>4, <2>2 DEF CompleteSubmit
    <3>3. req[r].attempt # a /\ attempt'[a] = attempt[a] /\ UNCHANGED response
      BY <1>0, <1>4, <2>2, <3>1 DEF CompleteSubmit
    <3>4. req'[r].attempt = req[r].attempt /\ \A q \in Requests \ {r} : req'[q] = req[q]
      BY <1>0, <1>b, <3>2, AfterGoto
    <3> QED  BY <3>3, <3>4, NotTakenUp
  <2> QED  BY <1>4, <2>1, <2>2 DEF CompleteSubmit
<1>5. ASSUME NEW r \in Requests, CompleteScore(r) PROVE Left
  <2>1. r \in Completers /\ req[r].attempt # a
    BY <1>5, <1>a DEF CompleteScore, Completing, Placed, Scoring
  <2>2. /\ req'[r].attempt = req[r].attempt /\ \A q \in Requests \ {r} : req'[q] = req[q]
    BY <1>0, <1>5, <1>b, AfterGoto DEF CompleteScore
  <2>3. attempt' = attempt /\ response'[a] = response[a]
    BY <1>0, <1>5, <2>1 DEF CompleteScore
  <2> QED  BY <2>1, <2>2, <2>3, NotTakenUp
<1>6. ASSUME NEW r \in Requests, CompleteConsolidate(r) PROVE Left
  <2>1. r \in Completers /\ req[r].attempt # a
    BY <1>6, <1>a DEF CompleteConsolidate, Completing, Placed, Scoring
  <2>2. PICK loc, verdict :
            req' = [req EXCEPT ![r] = [@ EXCEPT !.at = loc, !.verdict = verdict]]
    BY <1>6 DEF CompleteConsolidate
  <2>3. req'[r].attempt = req[r].attempt /\ \A q \in Requests \ {r} : req'[q] = req[q]
    BY <1>0, <1>a, <2>2 DEF Locals
  <2>4. attempt'[a] = attempt[a] /\ UNCHANGED response
    BY <1>0, <1>6, <2>1 DEF CompleteConsolidate
  <2> QED  BY <2>1, <2>3, <2>4, NotTakenUp
<1>7. ASSUME NEW r \in Requests, CompleteSettle(r) PROVE Left
  <2>1. PICK code \in Replies : Reply(r, code)
    BY <1>7, <1>a DEF CompleteSettle, Placed, Replies
  <2>2. req'[r].at = "done" /\ \A q \in Requests \ {r} : req'[q] = req[q]
    BY <1>0, <2>1, AfterReply
  <2>3. UNCHANGED <<attempt, response>>
    BY <1>7 DEF CompleteSettle
  <2> QED  BY <2>2, <2>3, NotTakenUp
<1>8. ASSUME NEW r \in Requests, QuietStep(r) PROVE Left
  BY <1>0, <1>1, <1>8, QuietSteps
<1>9. ASSUME NEW r \in Requests, Proceed(r) PROVE Left
  BY <1>9, <1>2, <1>3, <1>4, <1>5, <1>6, <1>7, <1>8 DEF Proceed, QuietStep
<1>10. CASE (\E k \in Keys : RetryWindowElapses(k)) \/ UNCHANGED vars
  BY <1>10 DEF RetryWindowElapses, vars, Scoring
<1> QED  BY <1>8, <1>9, <1>10 DEF Next, QuietStep

\* A completion cut off after its UPDATE to COMPLETION_SUBMITTED leaves the attempt there for
\* good: a retry fails at that UPDATE, and nothing else leads to the score.
THEOREM AbandonedStaysSubmittedHolds == Spec => AbandonedStaysSubmitted
<1>1. AttemptInv /\ [Next]_vars =>
          [\A a \in Attempts :
              /\ attempt[a].state = "COMPLETION_SUBMITTED"
              /\ \A r \in Requests : Scoring(r) => req[r].attempt # a
              => /\ attempt'[a] = attempt[a] /\ response'[a] = response[a]
                 /\ \A r \in Requests : Scoring(r)' => req'[r].attempt # a]_vars
  BY AbandonedStep
<1> QED  BY <1>1, AttemptInvariance, PTL DEF Spec, AbandonedStaysSubmitted

\* The three together: no request, retry or late evaluation takes an attempt a step back, out
\* of COMPLETED, out of the reconciliation it was parked for, or out of a completion that was
\* cut off.
THEOREM NoStepBackHolds == Spec => NoStepBack
BY LifecycleMonotoneHolds, ParkedStaysParkedHolds, AbandonedStaysSubmittedHolds DEF NoStepBack

----------------------------------------------------------------------------
(***************************************************************************)
(* The idempotency records of completions.  A key is held by one request   *)
(* because a record that is held is PENDING or, once settled, COMPLETED,   *)
(* and begin() claims neither.  That a settled record stays true rests on  *)
(* the rows: a parked or consolidated attempt never changes again.         *)
(***************************************************************************)
Holds(v) == v.at \in TryBlock

\* The record of a key that is held is the one its holder claimed.
HeldRecord(v) ==
    Holds(v) =>
        /\ idem[v.order.key].generation = v.generation
        /\ idem[v.order.key].status \in {"PENDING", "COMPLETED"}
        /\ v.at # "fail" => idem[v.order.key].status = "PENDING"

OneHolder ==
    \A r, q \in Requests : Holds(req[r]) /\ Holds(req[q]) /\ req[r].order.key = req[q].order.key => r = q

Settled(row) ==
    row.status = "COMPLETED" =>
        /\ row.response \in StoredResponses
        /\ attempt[row.response.attempt].completion =
               IF row.response.status = "RECONCILIATION_REQUIRED"
               THEN "RECONCILIATION_REQUIRED" ELSE "CONSOLIDATED"

KeyInv ==
    /\ \A r \in Requests : HeldRecord(req[r])
    /\ OneHolder
    /\ \A k \in Keys : Settled(idem[k])

\* A settled record is true of every later row of its attempt.
LEMMA SettledStays ==
    ASSUME AttemptInv, [Next]_vars, NEW row, Settled(row)
    PROVE  Settled(row)'
<1> SUFFICES ASSUME row.status = "COMPLETED" PROVE Settled(row)'
  BY DEF Settled
<1>1. /\ row.response \in StoredResponses /\ row.response.attempt \in Attempts
      /\ attempt[row.response.attempt].completion \in {"RECONCILIATION_REQUIRED", "CONSOLIDATED"}
  BY DEF Settled, StoredResponses
<1>2. Sound(row.response.attempt) /\ RowMove(row.response.attempt)
  BY <1>1, RowMoves DEF AttemptInv, RowInv
<1>3. attempt'[row.response.attempt] = attempt[row.response.attempt]
  BY <1>1, <1>2, NullOutside DEF RowMove, Sound
<1> QED  BY <1>1, <1>3 DEF Settled

\* A handler moves on without touching the record of its key.
KeyQuiet(r) ==
    /\ UNCHANGED idem
    /\ \A q \in Requests \ {r} : req'[q] = req[q]
    /\ \/ ~Holds(req'[r])
       \/ /\ Holds(req[r]) /\ Holds(req'[r])
          /\ req'[r].order = req[r].order /\ req'[r].generation = req[r].generation
          /\ req[r].at = "fail" => req'[r].at = "fail"

\* A step that leaves the records alone preserves KeyInv.
LEMMA KeyQuietStep ==
    ASSUME AttemptInv, [Next]_vars, KeyInv, NEW r \in Requests, KeyQuiet(r)
    PROVE  KeyInv'
<1>1. \A q \in Requests : HeldRecord(req[q])'
  BY DEF KeyInv, KeyQuiet, HeldRecord, Holds
<1>2. OneHolder'
  BY DEF KeyInv, KeyQuiet, OneHolder, Holds
<1>3. \A k \in Keys : Settled(idem[k])'
  <2>1. TAKE k \in Keys
  <2>2. Settled(idem[k]) /\ idem'[k] = idem[k]
    BY DEF KeyInv, KeyQuiet
  <2>3. ASSUME NEW row, Settled(row) PROVE Settled(row)'
    BY <2>3, SettledStays
  <2> QED  BY <2>2, <2>3 DEF Settled
<1> QED  BY <1>1, <1>2, <1>3 DEF KeyInv

\* The steps outside the try block of a completion, and those inside that leave
\* the record alone.
LEMMA KeyQuietSteps ==
    ASSUME AttemptInv, NEW r \in Requests,
           \/ Arrive(r) \/ Proceed(r) \/ CompleteThrow(r) \/ Die(r),
           UNCHANGED idem
    PROVE  KeyQuiet(r)
<1>0. /\ TypeOK /\ AllPlaced /\ req \in [Requests -> Locals] /\ req[r] \in Locals
      /\ Placed(r, req[r])
  BY DEF AttemptInv, TypeOK, AllPlaced
<1>a. ASSUME NEW location \in Locations, Goto(r, location),
             location \notin TryBlock \/ (Holds(req[r]) /\ req[r].at # "fail")
      PROVE  KeyQuiet(r)
  BY <1>0, <1>a, AfterGoto DEF KeyQuiet, Holds
<1>b. ASSUME NEW code \in Replies, Reply(r, code) PROVE KeyQuiet(r)
  BY <1>0, <1>b, AfterReply DEF KeyQuiet, Holds, TryBlock
<1>c. \A loc \in {"create", "capture", "begin", "insert", "reread", "audit", "upsert", "classify"} :
          loc \in Locations /\ loc \notin TryBlock
  BY DEF Locations, TryBlock
<1>d. \A loc \in {"submit", "score", "consolidate", "settle", "fail"} : loc \in Locations
  BY DEF Locations
<1>e. \A loc \in {"evaluate", "submit", "score", "consolidate", "settle"} : loc \in TryBlock /\ loc # "fail"
  BY DEF TryBlock
<1>f. \A code \in {"OK", "ACCEPTED", "ERROR", "LEARNING_PATH_RESOURCE_NOT_AVAILABLE",
                  "ATTEMPT_RUNTIME_MISMATCH", "ATTEMPT_NOT_COMPLETABLE",
                  "CROSS_RUNTIME_ATTEMPT_CONFLICT", "FAILED_TERMINAL", "DUPLICATE"} : code \in Replies
  BY DEF Replies
<1>1. CASE Arrive(r)
  BY <1>0, <1>1, AfterArrive DEF KeyQuiet, Holds, TryBlock
<1>2. CASE LaunchGate(r)
  BY <1>2, <1>a, <1>b, <1>c, <1>f DEF LaunchGate
<1>3. CASE LaunchCreate(r)
  BY <1>3, <1>a, <1>b, <1>c, <1>f DEF LaunchCreate
<1>4. CASE LaunchCapture(r) \/ ActionInsert(r) \/ EntryAudit(r) \/ CompleteFail(r) \/ Die(r)
  BY <1>4, <1>b, <1>f DEF LaunchCapture, ActionInsert, EntryAudit, CompleteFail, Die
<1>5. CASE ActionDedup(r)
  BY <1>5, <1>a, <1>b, <1>c, <1>f DEF ActionDedup
<1>6. CASE ActionBegin(r) \/ EntryBegin(r) \/ EntryReread(r)
  BY <1>6, <1>a, <1>b, <1>c, <1>f DEF ActionBegin, EntryBegin, EntryReread
<1>7. CASE CompleteFetch(r)
  <2>1. CASE req' = [req EXCEPT ![r] = [@ EXCEPT !.snapshot = log[req[r].attempt], !.at = "upsert"]]
    BY <1>0, <2>1 DEF KeyQuiet, Holds, TryBlock, Locals
  <2> QED  BY <1>7, <2>1, <1>b, <1>f DEF CompleteFetch
<1>8. CASE CompleteUpsert(r)
  <2>1. CASE Goto(r, "classify")
    BY <1>8, <2>1, <1>a, <1>c DEF CompleteUpsert
  <2>2. CASE Claims(idem[req[r].order.key], req[r].order.claim)
    <3>1. req[r].order.key \in Keys /\ idem \in [Keys -> Rows(Payloads, StoredResponses)]
      BY <1>0, <1>8, SubmissionParts DEF TypeOK, Placed, Completing, CompleteUpsert
    <3>2. /\ idem'[req[r].order.key].generation = idem[req[r].order.key].generation + 1
          /\ idem[req[r].order.key].generation \in Nat
      BY <1>8, <2>2, <3>1 DEF CompleteUpsert, Claim, Rows, Claims, Reopenable
    <3> QED  BY <3>2
  <2> QED  BY <1>8, <2>1, <2>2 DEF CompleteUpsert
<1>9. CASE CompleteClassify(r)
  <2>1. PICK code \in Replies : Reply(r, code)
    BY <1>9, <1>f DEF CompleteClassify
  <2> QED  BY <2>1, <1>b
<1>10. CASE CompleteEvaluate(r)
  <2>1. PICK verdict : req' = [req EXCEPT ![r] = [@ EXCEPT !.at = "submit", !.verdict = verdict]]
    BY <1>10 DEF CompleteEvaluate
  <2> QED  BY <1>0, <1>10, <2>1 DEF CompleteEvaluate, KeyQuiet, Holds, TryBlock, Locals
<1>11. CASE CompleteSubmit(r)
  <2>1. PICK loc \in {"settle", "score", "fail"} : Goto(r, loc)
    BY <1>11 DEF CompleteSubmit
  <2> QED  BY <1>11, <2>1, <1>a, <1>d, <1>e DEF CompleteSubmit, Holds
<1>12. CASE CompleteScore(r)
  BY <1>12, <1>a, <1>d, <1>e DEF CompleteScore, Holds
<1>13. CASE CompleteConsolidate(r)
  <2>1. PICK loc \in {"settle", "fail"}, verdict \in {"CONSOLIDATED", "DUPLICATE"} :
            req' = [req EXCEPT ![r] = [@ EXCEPT !.at = loc, !.verdict = verdict]]
    BY <1>13 DEF CompleteConsolidate
  <2> QED  BY <1>0, <1>13, <2>1 DEF CompleteConsolidate, KeyQuiet, Holds, TryBlock, Locals
<1>14. CASE CompleteSettle(r)
  <2>1. req[r].verdict \in Replies
    BY <1>0 DEF Locals
  <2> QED  BY <1>14, <2>1, <1>b DEF CompleteSettle
<1>15. CASE CompleteThrow(r)
  BY <1>15, <1>a, <1>d, <1>e DEF CompleteThrow, Holds
<1> QED  BY <1>1, <1>2, <1>3, <1>4, <1>5, <1>6, <1>7, <1>8, <1>9, <1>10, <1>11, <1>12, <1>13,
            <1>14, <1>15 DEF Proceed

\* The holder of a key and what it finds there.
LEMMA Holder ==
    ASSUME AttemptInv, KeyInv, NEW r \in Requests, Holds(req[r])
    PROVE  /\ r \in Completers /\ req[r].order.key \in Keys
           /\ req[r].attempt \in Attempts /\ req[r].generation \in Nat
           /\ idem \in [Keys -> Rows(Payloads, StoredResponses)]
           /\ idem[req[r].order.key] \in Rows(Payloads, StoredResponses)
           /\ idem[req[r].order.key].generation = req[r].generation
           /\ \A q \in Requests \ {r} : Holds(req[q]) => req[q].order.key # req[r].order.key
<1>1. r \in Completers /\ req[r].order \in Submissions /\ req[r].attempt \in Attempts
  BY DEF AttemptInv, AllPlaced, Placed, Holds, TryBlock, Completing
<1>2. req[r].order.key \in Keys
  BY <1>1, SubmissionParts
<1> QED  BY <1>1, <1>2 DEF AttemptInv, TypeOK, Locals, KeyInv, HeldRecord, OneHolder

\* One record changes; its holder moves on or lets go, and nobody else holds it.
LEMMA KeyChange ==
    ASSUME AttemptInv, AttemptInv', [Next]_vars, KeyInv, NEW r \in Requests, NEW k \in Keys, NEW row,
           idem' = [idem EXCEPT ![k] = row],
           \A q \in Requests \ {r} : req'[q] = req[q],
           \A q \in Requests \ {r} : Holds(req[q]) => req[q].order.key # k,
           Holds(req'[r]) => /\ req'[r].order.key = k
                             /\ row.generation = req'[r].generation
                             /\ row.status \in {"PENDING", "COMPLETED"}
                             /\ req'[r].at # "fail" => row.status = "PENDING",
           Settled(row)'
    PROVE  KeyInv'
<1>0. /\ idem \in [Keys -> Rows(Payloads, StoredResponses)]
      /\ idem'[k] = row /\ \A j \in Keys \ {k} : idem'[j] = idem[j]
  BY DEF AttemptInv, TypeOK
<1>1. ASSUME NEW q \in Requests PROVE HeldRecord(req[q])'
  <2>1. CASE q = r
    BY <2>1, <1>0 DEF HeldRecord, Holds
  <2>2. CASE q # r /\ Holds(req[q])
    <3>1. req[q].order.key \in Keys \ {k}
      BY <2>2, Holder
    <3> QED  BY <1>0, <2>2, <3>1 DEF KeyInv, HeldRecord, Holds
  <2>3. CASE q # r /\ ~Holds(req[q])
    BY <2>3 DEF HeldRecord, Holds
  <2> QED  BY <2>1, <2>2, <2>3
<1>2. OneHolder'
  BY DEF KeyInv, OneHolder, Holds
<1>3. ASSUME NEW j \in Keys PROVE Settled(idem[j])'
  <2>1. CASE j = k
    BY <2>1, <1>0 DEF Settled
  <2>2. CASE j # k
    <3>1. Settled(idem[j]) /\ idem'[j] = idem[j]
      BY <1>0, <2>2 DEF KeyInv
    <3>2. ASSUME NEW x, Settled(x) PROVE Settled(x)'
      BY <3>2, SettledStays
    <3> QED  BY <3>1, <3>2 DEF Settled
  <2> QED  BY <2>1, <2>2
<1> QED  BY <1>1, <1>2, <1>3 DEF KeyInv

\* complete() by the holder of the key settles it with a true answer.
LEMMA SettleIsTrue ==
    ASSUME AttemptInv, KeyInv, [Next]_vars, NEW r \in Requests, req[r].at = "settle",
           NEW row, row = SettledRecord(r)
    PROVE  row.status = "COMPLETED" /\ row.generation = req[r].generation /\ Settled(row)'
<1> DEFINE k == req[r].order.key
           answer == [attempt |-> req[r].attempt, status |-> req[r].verdict]
<1>0. Holds(req[r])
  BY DEF Holds, TryBlock
<1>1. /\ idem[k] \in Rows(Payloads, StoredResponses) /\ req[r].attempt \in Attempts
      /\ idem[k].generation = req[r].generation
      /\ idem[k].status = "PENDING"
  BY <1>0, Holder DEF KeyInv, HeldRecord
<1>2. /\ req[r].verdict \in {"RECONCILIATION_REQUIRED", "CONSOLIDATED", "DUPLICATE"}
      /\ Fits(req[r]) /\ Sound(req[r].attempt)
  BY <1>1 DEF AttemptInv, AllPlaced, Placed, RowInv
<1>3. /\ answer \in StoredResponses
      /\ answer.attempt = req[r].attempt /\ answer.status = req[r].verdict
  BY <1>1, <1>2 DEF StoredResponses
<1>4. attempt[req[r].attempt].completion =
          IF req[r].verdict = "RECONCILIATION_REQUIRED" THEN "RECONCILIATION_REQUIRED" ELSE "CONSOLIDATED"
  BY <1>2 DEF Fits, Sound
<1>5. row.status = "COMPLETED" /\ row.generation = req[r].generation /\ row.response = answer
  BY <1>1 DEF SettledRecord, Complete, Current, Rows
<1> HIDE DEF answer
<1>6. Settled(row)
  BY <1>3, <1>4, <1>5 DEF Settled
<1>7. Settled(row)'
  BY <1>6, SettledStays
<1> QED  BY <1>5, <1>7

\* KeyInv is preserved.
LEMMA KeyStep ==
    ASSUME AttemptInv, AttemptInv', KeyInv, [Next]_vars
    PROVE  KeyInv'
<1>0. TypeOK /\ req \in [Requests -> Locals] /\ idem \in [Keys -> Rows(Payloads, StoredResponses)]
  BY DEF AttemptInv, TypeOK
<1>1. ASSUME NEW r \in Requests, Arrive(r) \/ Proceed(r) \/ CompleteThrow(r) \/ Die(r), UNCHANGED idem
      PROVE  KeyInv'
  <2>1. KeyQuiet(r)
    BY <1>1, KeyQuietSteps
  <2> QED  BY <2>1, KeyQuietStep
<1>2. ASSUME NEW r \in Requests, CompleteUpsert(r) PROVE KeyInv'
  <2> DEFINE k == req[r].order.key
             row == Claim(idem[k], req[r].order.claim)
  <2>1. CASE UNCHANGED idem
    BY <1>1, <1>2, <2>1 DEF Proceed
  <2>2. CASE Claims(idem[k], req[r].order.claim)
    <3>1. k \in Keys
      BY <1>2, SubmissionParts DEF AttemptInv, AllPlaced, Placed, Completing, CompleteUpsert
    <3>2. /\ idem' = [idem EXCEPT ![k] = row]
          /\ req' = [req EXCEPT ![r] = [@ EXCEPT !.generation = idem[k].generation + 1, !.at = "evaluate"]]
      BY <1>2, <2>2 DEF CompleteUpsert
    <3>3. /\ \A q \in Requests \ {r} : req'[q] = req[q]
          /\ req'[r].at = "evaluate" /\ req'[r].order = req[r].order
          /\ req'[r].generation = idem[k].generation + 1
      BY <1>0, <3>2 DEF Locals
    <3>4. row.status = "PENDING" /\ row.generation = idem[k].generation + 1
      BY DEF Claim
    <3>5. ASSUME NEW q \in Requests \ {r}, Holds(req[q]) PROVE req[q].order.key # k
      <4>1. idem[req[q].order.key].status \in {"PENDING", "COMPLETED"}
        BY <3>5 DEF KeyInv, HeldRecord
      <4>2. idem[k].status \in {"ABSENT", "FAILED"}
        BY <2>2 DEF Claims, Reopenable
      <4> QED  BY <4>1, <4>2
    <3>6. PICK v : v = row
      OBVIOUS
    <3>7. Settled(v)'
      BY <3>4, <3>6 DEF Settled
    <3>8. PICK j \in Keys : j = k
      BY <3>1
    <3>9. /\ idem' = [idem EXCEPT ![j] = v] /\ req'[r].order.key = j
          /\ v.status = "PENDING" /\ v.generation = req'[r].generation /\ req'[r].at # "fail"
          /\ \A q \in Requests \ {r} : Holds(req[q]) => req[q].order.key # j
      BY <3>2, <3>3, <3>4, <3>5, <3>6, <3>8
    <3> QED  BY <3>3, <3>7, <3>9, KeyChange
  <2> QED  BY <1>2, <2>1, <2>2 DEF CompleteUpsert
<1>3. ASSUME NEW r \in Requests, req[r].at = "settle",
             idem' = [idem EXCEPT ![req[r].order.key] = SettledRecord(r)],
             Reply(r, req[r].verdict) \/ Goto(r, "fail")
      PROVE  KeyInv'
  <2>1. PICK v : v = SettledRecord(r)
    OBVIOUS
  <2>2. v.status = "COMPLETED" /\ v.generation = req[r].generation /\ Settled(v)'
    BY <1>3, <2>1, SettleIsTrue
  <2>3. /\ req[r].order.key \in Keys
        /\ \A q \in Requests \ {r} : Holds(req[q]) => req[q].order.key # req[r].order.key
    BY <1>3, Holder DEF Holds, TryBlock
  <2>4. /\ \A q \in Requests \ {r} : req'[q] = req[q]
        /\ Holds(req'[r]) => /\ req'[r].at = "fail" /\ req'[r].order = req[r].order
                             /\ req'[r].generation = req[r].generation
    <3>1. req[r].verdict \in Replies /\ "fail" \in Locations
      BY <1>0 DEF Locals, Locations
    <3>2. CASE Reply(r, req[r].verdict)
      BY <1>0, <3>1, <3>2, AfterReply DEF Holds, TryBlock
    <3>3. CASE Goto(r, "fail")
      BY <1>0, <3>1, <3>3, AfterGoto
    <3> QED  BY <1>3, <3>2, <3>3
  <2> QED  BY <1>3, <2>1, <2>2, <2>3, <2>4, KeyChange
<1>4. ASSUME NEW r \in Requests, CompleteFail(r) PROVE KeyInv'
  <2>0. req[r].at = "fail" /\ Holds(req[r]) /\ "ERROR" \in Replies
    BY <1>4 DEF CompleteFail, Holds, TryBlock, Replies
  <2>1. PICK v : v = Fail(idem[req[r].order.key], req[r].generation, TRUE, Null)
    OBVIOUS
  <2>2. /\ req[r].order.key \in Keys
        /\ \A q \in Requests \ {r} : Holds(req[q]) => req[q].order.key # req[r].order.key
        /\ idem[req[r].order.key] \in Rows(Payloads, StoredResponses)
    BY <2>0, Holder
  <2>3. Settled(v)'
    <3>1. Settled(idem[req[r].order.key])
      BY <2>2 DEF KeyInv
    <3>2. v.status = "FAILED" \/ v = idem[req[r].order.key]
      BY <2>1, <2>2 DEF Fail, Rows
    <3>3. Settled(v)
      BY <3>1, <3>2 DEF Settled
    <3> QED  BY <3>3, SettledStays
  <2>4. /\ \A q \in Requests \ {r} : req'[q] = req[q]
        /\ ~Holds(req'[r])
    BY <1>0, <1>4, <2>0, AfterReply DEF CompleteFail, Holds, TryBlock
  <2>5. idem' = [idem EXCEPT ![req[r].order.key] = v]
    BY <1>4, <2>1 DEF CompleteFail
  <2> QED  BY <2>2, <2>3, <2>4, <2>5, KeyChange
<1>5. ASSUME NEW r \in Requests, CompleteSettle(r) \/ CompleteThrow(r) PROVE KeyInv'
  <2>1. CASE CompleteSettle(r)
    BY <2>1, <1>3 DEF CompleteSettle
  <2>2. CASE CompleteThrow(r) /\ UNCHANGED idem
    BY <2>2, <1>1
  <2>3. CASE CompleteThrow(r) /\ ~UNCHANGED idem
    BY <2>3, <1>3 DEF CompleteThrow
  <2> QED  BY <1>5, <2>1, <2>2, <2>3
<1>6. ASSUME NEW r \in Requests, Arrive(r) \/ Die(r) PROVE KeyInv'
  <2>1. UNCHANGED idem
    BY <1>6, AfterArrive DEF AttemptInv, Die, tables
  <2> QED  BY <1>6, <2>1, <1>1
<1>7. ASSUME NEW r \in Requests, Proceed(r) PROVE KeyInv'
  <2>1. \/ CompleteUpsert(r) \/ CompleteSettle(r) \/ CompleteFail(r) \/ UNCHANGED idem
    BY <1>7 DEF Proceed, LaunchGate, LaunchCreate, LaunchCapture, ActionDedup, ActionBegin, ActionInsert,
          EntryBegin, EntryReread, EntryAudit, CompleteFetch, CompleteClassify, CompleteEvaluate,
          CompleteSubmit, CompleteScore, CompleteConsolidate, tables
  <2> QED  BY <1>7, <2>1, <1>1, <1>2, <1>4, <1>5
<1>8. ASSUME NEW k \in Keys, RetryWindowElapses(k) PROVE KeyInv'
  <2>1. /\ idem[k].status = "FAILED" /\ idem' = [idem EXCEPT ![k] = Age(idem[k])] /\ UNCHANGED req
        /\ idem[k] \in Rows(Payloads, StoredResponses)
    BY <1>8, <1>0 DEF RetryWindowElapses
  <2>2. Age(idem[k]).status = "FAILED" /\ idem'[k].status = "FAILED"
    BY <1>0, <2>1 DEF Age, Rows
  <2>3. ASSUME NEW q \in Requests PROVE HeldRecord(req[q])'
    <3>1. CASE Holds(req[q])
      <4>1. req[q].order.key \in Keys /\ req[q].order.key # k
        BY <2>1, <3>1, Holder DEF KeyInv, HeldRecord
      <4> QED  BY <1>0, <2>1, <4>1 DEF KeyInv, HeldRecord, Holds
    <3>2. CASE ~Holds(req[q])
      BY <2>1, <3>2 DEF HeldRecord, Holds
    <3> QED  BY <3>1, <3>2
  <2>4. OneHolder'
    BY <2>1 DEF KeyInv, OneHolder, Holds
  <2>5. ASSUME NEW j \in Keys PROVE Settled(idem[j])'
    <3>1. CASE j = k
      BY <3>1, <2>2 DEF Settled
    <3>2. CASE j # k
      BY <1>0, <1>8, <2>1, <3>2 DEF KeyInv, Settled, RetryWindowElapses
    <3> QED  BY <3>1, <3>2
  <2> QED  BY <2>3, <2>4, <2>5 DEF KeyInv
<1>9. CASE UNCHANGED vars
  BY <1>9 DEF vars, KeyInv, HeldRecord, Holds, OneHolder, Settled
<1> QED  BY <1>5, <1>6, <1>7, <1>8, <1>9 DEF Next

\* KeyInv holds initially: no key is held and no record exists.
LEMMA KeyInit == Init => KeyInv
<1> SUFFICES ASSUME Init PROVE KeyInv
  OBVIOUS
<1>1. (\A r \in Requests : req[r] = Unsent) /\ (\A k \in Keys : idem[k] = NoRow)
  BY DEF Init
<1>2. ~Holds(Unsent) /\ Settled(NoRow)
  BY DEF Holds, TryBlock, Unsent, Settled, NoRow
<1> QED  BY <1>1, <1>2 DEF KeyInv, HeldRecord, OneHolder

\* KeyInv is an invariant of the specification.
THEOREM KeyInvariance == Spec => []KeyInv
<1>1. Init => KeyInv
  BY KeyInit
<1>2. AttemptInv /\ AttemptInv' /\ KeyInv /\ [Next]_vars => KeyInv'
  BY KeyStep
<1> QED  BY <1>1, <1>2, AttemptInvariance, PTL DEF Spec

\* Two completions never execute under the same Idempotency-Key at once.
THEOREM KeyHeldOnceHolds == Spec => []KeyHeldOnce
<1>1. KeyInv => KeyHeldOnce
  BY DEF KeyInv, OneHolder, Holds, KeyHeldOnce, Requests
<1> QED  BY <1>1, KeyInvariance, PTL

\* A settled record is true of the attempt it was settled for, for good.
THEOREM SettledRecordIsTrueHolds == Spec => []SettledRecordIsTrue
<1>1. KeyInv => SettledRecordIsTrue
  BY DEF KeyInv, Settled, SettledRecordIsTrue
<1> QED  BY <1>1, KeyInvariance, PTL

----------------------------------------------------------------------------
(***************************************************************************)
(* The log.  The handler of an action inserts without looking at the state *)
(* again; that it never logs into an attempt nobody started follows from   *)
(* what it read, because rows only move forward.                           *)
(***************************************************************************)
Started(a) == attempt[a].state \notin {"ABSENT", "CREATED"}

\* What the handler of an action still knows of the attempt it read.
Reads(v) ==
    /\ v.at \in {"dedup", "begin"} => attempt[v.attempt].state # "ABSENT"
    /\ v.at = "dedup" /\ v.seen = "IN_PROGRESS" => Started(v.attempt)
    /\ v.at = "insert" => Started(v.attempt)
    /\ v.reply = "ACCEPTED" => Logged(v.attempt, v.action)

LogShape(a) ==
    /\ \A x, y \in log[a] : x.id = y.id \/ x.seq = y.seq => x = y
    /\ log[a] # {} => Started(a)

LogInv ==
    /\ \A r \in Requests : Reads(req[r])
    /\ \A a \in Attempts : LogShape(a)

\* What a handler knows stays true while rows move forward and logs grow.
LEMMA ReadsStay ==
    ASSUME AttemptInv, [Next]_vars, \A a \in Attempts : log[a] \subseteq log'[a],
           NEW v, v.at # "start" => v.attempt \in Attempts, v.at = "start" => v.reply = Null, Reads(v)
    PROVE  Reads(v)'
<1>1. CASE v.at = "start"
  BY <1>1, NullOutside DEF Reads
<1>2. CASE v.at # "start"
  <2>1. RowMove(v.attempt) /\ log[v.attempt] \subseteq log'[v.attempt]
    BY <1>2, RowMoves
  <2>2. Started(v.attempt) => Started(v.attempt)'
    BY <2>1 DEF RowMove, Started
  <2>3. attempt[v.attempt].state # "ABSENT" => attempt'[v.attempt].state # "ABSENT"
    BY <2>1 DEF RowMove
  <2>4. Logged(v.attempt, v.action) => Logged(v.attempt, v.action)'
    BY <2>1 DEF Logged
  <2> QED  BY <2>2, <2>3, <2>4 DEF Reads
<1> QED  BY <1>1, <1>2

\* The handlers that do not serve an action, and those of actions that only answer.
LogQuiet(r) ==
    /\ UNCHANGED log
    /\ \A q \in Requests \ {r} : req'[q] = req[q]
    /\ req'[r].at \notin {"dedup", "begin", "insert"}
    /\ req'[r].reply # "ACCEPTED"

LEMMA LogQuietSteps ==
    ASSUME AttemptInv, NEW r \in Requests,
           \/ LaunchGate(r) \/ LaunchCreate(r) \/ LaunchCapture(r)
           \/ EntryBegin(r) \/ EntryReread(r) \/ EntryAudit(r)
           \/ CompleteFetch(r) \/ CompleteUpsert(r) \/ CompleteClassify(r)
           \/ CompleteEvaluate(r) \/ CompleteSubmit(r) \/ CompleteScore(r)
           \/ CompleteConsolidate(r) \/ CompleteSettle(r) \/ CompleteFail(r)
           \/ CompleteThrow(r) \/ Die(r)
    PROVE  LogQuiet(r)
<1>0. /\ TypeOK /\ req \in [Requests -> Locals] /\ req[r] \in Locals /\ Placed(r, req[r])
  BY DEF AttemptInv, TypeOK, AllPlaced
<1>a. ASSUME NEW location \in Locations \ {"dedup", "begin", "insert"}, Goto(r, location),
             req[r].at # "done", UNCHANGED log
      PROVE  LogQuiet(r)
  BY <1>0, <1>a, AfterGoto, NullOutside DEF LogQuiet, Placed
<1>b. ASSUME NEW code \in Replies \ {"ACCEPTED"}, Reply(r, code), UNCHANGED log
      PROVE  LogQuiet(r)
  BY <1>0, <1>b, AfterReply DEF LogQuiet
<1>c. \A loc \in {"create", "capture", "reread", "audit", "upsert", "classify", "evaluate", "submit",
                  "score", "consolidate", "settle", "fail"} : loc \in Locations \ {"dedup", "begin", "insert"}
  BY DEF Locations
<1>d. \A code \in {"OK", "ERROR", "LEARNING_PATH_RESOURCE_NOT_AVAILABLE", "ATTEMPT_NOT_COMPLETABLE",
                   "CROSS_RUNTIME_ATTEMPT_CONFLICT", "FAILED_TERMINAL", "DUPLICATE",
                   "RECONCILIATION_REQUIRED", "CONSOLIDATED"} : code \in Replies \ {"ACCEPTED"}
  BY DEF Replies
<1>1. CASE LaunchGate(r)
  BY <1>1, <1>a, <1>b, <1>c, <1>d DEF LaunchGate, tables
<1>2. CASE LaunchCreate(r)
  BY <1>2, <1>a, <1>b, <1>c, <1>d DEF LaunchCreate
<1>3. CASE LaunchCapture(r) \/ EntryAudit(r) \/ CompleteFail(r) \/ Die(r)
  BY <1>3, <1>b, <1>d DEF LaunchCapture, EntryAudit, CompleteFail, Die, tables
<1>4. CASE EntryBegin(r) \/ EntryReread(r)
  BY <1>4, <1>a, <1>b, <1>c, <1>d DEF EntryBegin, EntryReread, tables
<1>5. CASE CompleteFetch(r)
  <2>1. CASE req' = [req EXCEPT ![r] = [@ EXCEPT !.snapshot = log[req[r].attempt], !.at = "upsert"]]
    BY <1>0, <1>5, <2>1, NullOutside DEF CompleteFetch, tables, LogQuiet, Locals, Placed
  <2> QED  BY <1>5, <2>1, <1>b, <1>d DEF CompleteFetch, tables
<1>6. CASE CompleteUpsert(r)
  <2>1. CASE Goto(r, "classify")
    BY <1>6, <2>1, <1>a, <1>c DEF CompleteUpsert
  <2>2. CASE req' = [req EXCEPT ![r] = [@ EXCEPT !.generation = idem[req[r].order.key].generation + 1,
                                                !.at = "evaluate"]]
    BY <1>0, <1>6, <2>2, NullOutside DEF CompleteUpsert, LogQuiet, Locals, Placed
  <2> QED  BY <1>6, <2>1, <2>2 DEF CompleteUpsert
<1>7. CASE CompleteClassify(r)
  <2>1. PICK code \in Replies \ {"ACCEPTED"} : Reply(r, code)
    BY <1>7, <1>d DEF CompleteClassify
  <2> QED  BY <1>7, <2>1, <1>b DEF CompleteClassify, tables
<1>8. CASE CompleteEvaluate(r)
  BY <1>0, <1>8, NullOutside DEF CompleteEvaluate, tables, LogQuiet, Locals, Placed
<1>9. CASE CompleteSubmit(r)
  <2>1. PICK loc \in {"settle", "score", "fail"} : Goto(r, loc)
    BY <1>9 DEF CompleteSubmit
  <2> QED  BY <1>9, <2>1, <1>a, <1>c DEF CompleteSubmit
<1>10. CASE CompleteScore(r)
  BY <1>10, <1>a, <1>c DEF CompleteScore
<1>11. CASE CompleteConsolidate(r)
  <2>1. PICK loc \in {"settle", "fail"}, verdict \in {"CONSOLIDATED", "DUPLICATE"} :
            req' = [req EXCEPT ![r] = [@ EXCEPT !.at = loc, !.verdict = verdict]]
    BY <1>11 DEF CompleteConsolidate
  <2> QED  BY <1>0, <1>11, <2>1, NullOutside DEF CompleteConsolidate, LogQuiet, Locals, Placed
<1>12. CASE CompleteSettle(r)
  <2>1. req[r].verdict \in {"RECONCILIATION_REQUIRED", "CONSOLIDATED", "DUPLICATE"}
    BY <1>0, <1>12 DEF CompleteSettle, Placed
  <2> QED  BY <1>12, <2>1, <1>b, <1>d DEF CompleteSettle
<1>13. CASE CompleteThrow(r)
  BY <1>13, <1>a, <1>c DEF CompleteThrow
<1> QED  BY <1>1, <1>2, <1>3, <1>4, <1>5, <1>6, <1>7, <1>8, <1>9, <1>10, <1>11, <1>12, <1>13

\* LogInv is preserved.
LEMMA LogStep ==
    ASSUME AttemptInv, AttemptInv', [Next]_vars, LogInv
    PROVE  LogInv'
<1>0. /\ TypeOK /\ AllPlaced /\ req \in [Requests -> Locals] /\ log \in [Attempts -> SUBSET Actions]
      /\ attempt \in [Attempts -> AttemptRows]
  BY DEF AttemptInv, TypeOK
<1>a. ASSUME NEW r \in Requests
      PROVE  /\ req[r] \in Locals /\ Placed(r, req[r]) /\ Reads(req[r])
             /\ req[r].at # "start" => req[r].attempt \in Attempts
             /\ req[r].at = "start" => req[r].reply = Null
  BY <1>0 DEF AllPlaced, LogInv, Placed
<1>b. ASSUME NEW r \in Requests, \A a \in Attempts : log[a] \subseteq log'[a],
             \A q \in Requests \ {r} : req'[q] = req[q], Reads(req[r])'
      PROVE  \A q \in Requests : Reads(req[q])'
  <2>1. ASSUME NEW q \in Requests \ {r} PROVE Reads(req[q])'
    <3>1. ASSUME NEW v, v = req[q] PROVE Reads(v)'
      BY <1>a, <1>b, <3>1, ReadsStay
    <3> QED  BY <1>b, <3>1 DEF Reads
  <2> QED  BY <1>b, <2>1
<1>c. ASSUME NEW a \in Attempts, log'[a] = log[a] PROVE LogShape(a)'
  BY <1>c, RowMoves DEF LogInv, LogShape, RowMove, Started
<1>1. ASSUME NEW r \in Requests, LogQuiet(r) PROVE LogInv'
  BY <1>1, <1>b, <1>c DEF LogQuiet, Reads, LogInv
<1>2. ASSUME NEW r \in Requests, Arrive(r) PROVE LogInv'
  <2>0. /\ UNCHANGED tables /\ \A q \in Requests \ {r} : req'[q] = req[q]
        /\ req'[r].at \in {"gate", "dedup", "begin", "fetch", "done"}
        /\ req'[r].reply # "ACCEPTED"
        /\ req'[r].at = "dedup" => req'[r].seen = attempt[req'[r].attempt].state
    BY <1>0, <1>2, AfterArrive
  <2>1. req'[r].at \in {"dedup", "begin"} => attempt[req'[r].attempt].state # "ABSENT"
    <3>1. ASSUME NEW a \in Attempts, LaunchLookup(r, a) PROVE req'[r].at \in {"gate", "done"}
      BY <1>0, <1>a, <3>1 DEF LaunchLookup, Locals
    <3>2. ASSUME NEW a \in Attempts, NEW x \in Actions, ActionRead(r, a, x)
          PROVE  req'[r].at = "done" \/ attempt[req'[r].attempt].state # "ABSENT"
      BY <1>0, <1>a, <3>2 DEF ActionRead, Locals
    <3>3. ASSUME NEW a \in Attempts, EntryRead(r, a)
          PROVE  req'[r].at = "done" \/ attempt[req'[r].attempt].state # "ABSENT"
      BY <1>0, <1>a, <3>3 DEF EntryRead, Locals
    <3>4. ASSUME NEW s \in Submissions, CompleteRead(r, s) PROVE req'[r].at \in {"fetch", "done"}
      BY <1>0, <1>a, <3>4 DEF CompleteRead, Locals
    <3> QED  BY <1>2, <2>0, <3>1, <3>2, <3>3, <3>4 DEF Arrive
  <2>2. Reads(req[r])'
    BY <2>0, <2>1 DEF Reads, Started, tables
  <2> QED  BY <2>0, <2>2, <1>b, <1>c DEF tables, LogInv
<1>3. ASSUME NEW r \in Requests, ActionDedup(r) PROVE LogInv'
  <2>0. UNCHANGED <<attempt, log>> /\ req[r].at = "dedup"
    BY <1>3 DEF ActionDedup, tables
  <2>1. CASE Logged(req[r].attempt, req[r].action) /\ Reply(r, "ACCEPTED")
    <3>1. /\ req'[r].at = "done" /\ req'[r].attempt = req[r].attempt /\ req'[r].action = req[r].action
          /\ \A q \in Requests \ {r} : req'[q] = req[q]
      BY <1>0, <2>1, AfterReply DEF Replies
    <3>2. Reads(req[r])'
      BY <2>0, <2>1, <3>1 DEF Reads, Logged
    <3> QED  BY <2>0, <3>1, <3>2, <1>b, <1>c DEF LogInv
  <2>2. ASSUME NEW loc \in {"begin", "insert"}, Goto(r, loc),
               loc = "insert" => req[r].seen = "IN_PROGRESS"
        PROVE  LogInv'
    <3>1. /\ req'[r].at = loc /\ req'[r].attempt = req[r].attempt /\ req'[r].reply = req[r].reply
          /\ \A q \in Requests \ {r} : req'[q] = req[q]
      BY <1>0, <2>2, AfterGoto DEF Locations
    <3>2. Reads(req[r])'
      BY <2>0, <2>2, <3>1, <1>a, NullOutside DEF Reads, Placed, Started
    <3> QED  BY <2>0, <3>1, <3>2, <1>b, <1>c DEF LogInv
  <2>3. CASE Reply(r, "ATTEMPT_RUNTIME_MISMATCH")
    <3>1. LogQuiet(r)
      BY <1>0, <2>0, <2>3, AfterReply DEF Replies, LogQuiet
    <3> QED  BY <3>1, <1>1
  <2> QED  BY <1>3, <2>1, <2>2, <2>3 DEF ActionDedup
<1>4. ASSUME NEW r \in Requests, ActionBegin(r) PROVE LogInv'
  <2>1. /\ req[r].at = "begin" /\ UNCHANGED log /\ TransitionToInProgress(req[r].attempt)
        /\ Goto(r, "insert")
    BY <1>4 DEF ActionBegin
  <2>2. /\ req'[r].at = "insert" /\ req'[r].attempt = req[r].attempt /\ req'[r].reply = req[r].reply
        /\ \A q \in Requests \ {r} : req'[q] = req[q]
    BY <1>0, <2>1, AfterGoto DEF Locations
  <2>3. Started(req[r].attempt)'
    <3>1. req[r].attempt \in Attempts /\ attempt[req[r].attempt].state # "ABSENT"
      BY <2>1, <1>a DEF Reads
    <3>2. RowMove(req[r].attempt)
      BY <3>1, RowMoves
    <3>3. attempt'[req[r].attempt].state \notin {"ABSENT", "CREATED"}
      BY <1>0, <2>1, <3>1, <3>2 DEF TransitionToInProgress, AttemptRows
    <3> QED  BY <2>2, <3>3 DEF Started
  <2>4. Reads(req[r])'
    BY <2>1, <2>2, <2>3, <1>a, NullOutside DEF Reads, Placed, Started
  <2> QED  BY <2>1, <2>2, <2>4, <1>b, <1>c DEF LogInv
<1>5. ASSUME NEW r \in Requests, ActionInsert(r) PROVE LogInv'
  <2>a. req[r].at = "insert" /\ UNCHANGED attempt /\ req[r].attempt \in Attempts /\ req[r].action \in Actions
    BY <1>5, <1>a DEF ActionInsert, Placed
  <2>b. PICK a \in Attempts, x \in Actions : a = req[r].attempt /\ x = req[r].action
    BY <2>a
  <2>0. req[r].at = "insert" /\ UNCHANGED attempt /\ Started(a) /\ LogShape(a)
    BY <2>a, <2>b, <1>a DEF Reads, LogInv, Started
  <2>1. CASE Reply(r, "ERROR") /\ UNCHANGED log
    <3>1. LogQuiet(r)
      BY <1>0, <2>0, <2>1, AfterReply DEF Replies, LogQuiet
    <3> QED  BY <3>1, <1>1
  <2>2. CASE /\ \A y \in log[a] : y.id # x.id /\ y.seq # x.seq
             /\ log' = [log EXCEPT ![a] = @ \union {x}]
             /\ Reply(r, "ACCEPTED")
    <3>1. /\ req'[r].at = "done" /\ req'[r].attempt = a /\ req'[r].action = x
          /\ \A q \in Requests \ {r} : req'[q] = req[q]
      BY <1>0, <2>b, <2>2, AfterReply DEF Replies
    <3>2. log'[a] = log[a] \union {x} /\ \A b \in Attempts \ {a} : log'[b] = log[b]
      BY <1>0, <2>0, <2>2
    <3>3. Reads(req[r])'
      BY <3>1, <3>2 DEF Reads, Logged
    <3>4. LogShape(a)'
      <4>1. a \in Attempts /\ Started(a)' /\ LogShape(a) /\ \A y \in log[a] : y.id # x.id /\ y.seq # x.seq
        BY <2>0, <2>2 DEF Started
      <4> QED  BY <4>1, <3>2 DEF LogShape
    <3>5. \A b \in Attempts : LogShape(b)'
      BY <3>2, <3>4, <1>c
    <3>6. \A b \in Attempts : log[b] \subseteq log'[b]
      BY <3>2
    <3> QED  BY <3>1, <3>3, <3>5, <3>6, <1>b DEF LogInv
  <2> QED  BY <1>5, <2>b, <2>1, <2>2 DEF ActionInsert
<1>6. CASE (\E k \in Keys : RetryWindowElapses(k)) \/ UNCHANGED vars
  <2>1. UNCHANGED <<attempt, log, req>>
    BY <1>6 DEF RetryWindowElapses, vars
  <2> QED  BY <2>1 DEF LogInv, LogShape, Reads, Started, Logged
<1>7. ASSUME NEW r \in Requests, Proceed(r) \/ CompleteThrow(r) \/ Die(r) PROVE LogInv'
  BY <1>7, <1>1, <1>3, <1>4, <1>5, LogQuietSteps DEF Proceed
<1> QED  BY <1>2, <1>6, <1>7 DEF Next

\* LogInv is an invariant of the specification.
THEOREM LogInvariance == Spec => []LogInv
<1>1. Init => LogInv
  <2> SUFFICES ASSUME Init PROVE LogInv
    OBVIOUS
  <2>1. (\A r \in Requests : req[r] = Unsent) /\ (\A a \in Attempts : log[a] = {})
    BY DEF Init
  <2> QED  BY <2>1, NullOutside DEF LogInv, Reads, LogShape, Unsent
<1>2. AttemptInv /\ AttemptInv' /\ LogInv /\ [Next]_vars => LogInv'
  BY LogStep
<1> QED  BY <1>1, <1>2, AttemptInvariance, PTL DEF Spec

----------------------------------------------------------------------------
(***************************************************************************)
(* The answer DUPLICATE, read off the record of the key or off the row.    *)
(* When a client uses a key for one attempt, the record tells of the       *)
(* attempt that is asked about.                                            *)
(***************************************************************************)
KeyPerAttempt == \A s, t \in Submissions : s.key = t.key => s.attempt = t.attempt

Submitted(a) == attempt[a].state \in {"COMPLETION_SUBMITTED", "COMPLETED"}

\* The answer stored under a key is about an attempt the key was sent for.
Keyed(k) ==
    idem[k].status = "COMPLETED" =>
        \E s \in Submissions : s.key = k /\ s.attempt = idem[k].response.attempt

AnswerInv ==
    /\ \A r \in Requests : req[r].reply = "DUPLICATE" => Submitted(req[r].attempt)
    /\ \A k \in Keys : Keyed(k)

\* complete(), whatever record it finds, stores the attempt of the submission.
LEMMA SettledIsKeyed ==
    ASSUME AttemptInv, NEW r \in Requests, req[r].at = "settle", NEW k \in Keys, k = req[r].order.key,
           Keyed(k), NEW j \in Keys,
           idem' = [idem EXCEPT ![req[r].order.key] = SettledRecord(r)], Keyed(j)
    PROVE  Keyed(j)'
<1>1. /\ idem \in [Keys -> Rows(Payloads, StoredResponses)] /\ idem[k] \in Rows(Payloads, StoredResponses)
      /\ req[r].order \in Submissions /\ req[r].attempt = req[r].order.attempt
  BY DEF AttemptInv, TypeOK, AllPlaced, Placed, Completing
<1>2. CASE j # k
  BY <1>1, <1>2 DEF Keyed
<1>3. CASE j = k /\ ~Current(idem[k], req[r].generation)
  BY <1>1, <1>3 DEF Keyed, SettledRecord, Complete
<1>4. CASE j = k /\ Current(idem[k], req[r].generation)
  <2>1. idem'[j].response.attempt = req[r].attempt
    BY <1>1, <1>4 DEF SettledRecord, Complete, Rows
  <2> QED  BY <1>1, <1>4, <2>1 DEF Keyed
<1> QED  BY <1>2, <1>3, <1>4

\* The records keep telling of the attempts their keys were sent for.
LEMMA KeyedStep ==
    ASSUME AttemptInv, [Next]_vars, \A k \in Keys : Keyed(k), NEW j \in Keys
    PROVE  Keyed(j)'
<1>0. idem \in [Keys -> Rows(Payloads, StoredResponses)] /\ idem[j] \in Rows(Payloads, StoredResponses)
  BY DEF AttemptInv, TypeOK
<1>a. ASSUME NEW r \in Requests, req[r].at \in Completing
      PROVE  req[r].order.key \in Keys
  BY <1>a, SubmissionParts DEF AttemptInv, AllPlaced, Placed
<1>1. CASE UNCHANGED idem
  BY <1>1 DEF Keyed
<1>2. ASSUME NEW r \in Requests, CompleteUpsert(r), idem' # idem PROVE Keyed(j)'
  <2>1. idem' = [idem EXCEPT ![req[r].order.key] = Claim(@, req[r].order.claim)]
    BY <1>2 DEF CompleteUpsert
  <2> QED  BY <1>0, <2>1 DEF Keyed, Claim
<1>3. ASSUME NEW r \in Requests, CompleteSettle(r) \/ CompleteThrow(r), idem' # idem PROVE Keyed(j)'
  <2>1. req[r].at = "settle" /\ idem' = [idem EXCEPT ![req[r].order.key] = SettledRecord(r)]
    BY <1>3 DEF CompleteSettle, CompleteThrow
  <2>2. req[r].order.key \in Keys
    BY <2>1, <1>a DEF Completing
  <2> QED  BY <2>1, <2>2, SettledIsKeyed
<1>4. ASSUME NEW r \in Requests, CompleteFail(r) PROVE Keyed(j)'
  BY <1>0, <1>4 DEF CompleteFail, Fail, Keyed, Rows
<1>5. ASSUME NEW k \in Keys, RetryWindowElapses(k) PROVE Keyed(j)'
  BY <1>0, <1>5 DEF RetryWindowElapses, Age, Keyed, Rows
<1>6. ASSUME NEW r \in Requests, Arrive(r) \/ Proceed(r) \/ CompleteThrow(r) \/ Die(r), idem' # idem
      PROVE  CompleteUpsert(r) \/ CompleteSettle(r) \/ CompleteThrow(r) \/ CompleteFail(r)
  <2>1. Arrive(r) => UNCHANGED idem
    BY DEF Arrive, LaunchLookup, ActionRead, EntryRead, CompleteRead, tables
  <2>2. LaunchGate(r) \/ LaunchCreate(r) \/ LaunchCapture(r) \/ ActionDedup(r) \/ ActionBegin(r)
        \/ ActionInsert(r) \/ EntryBegin(r) \/ EntryReread(r) \/ EntryAudit(r) => UNCHANGED idem
    BY DEF LaunchGate, LaunchCreate, LaunchCapture, ActionDedup, ActionBegin, ActionInsert,
           EntryBegin, EntryReread, EntryAudit, tables
  <2>3. CompleteFetch(r) \/ CompleteClassify(r) \/ CompleteEvaluate(r) \/ CompleteSubmit(r)
        \/ CompleteScore(r) \/ CompleteConsolidate(r) \/ Die(r) => UNCHANGED idem
    BY DEF CompleteFetch, CompleteClassify, CompleteEvaluate, CompleteSubmit, CompleteScore,
           CompleteConsolidate, Die, tables
  <2> QED  BY <1>6, <2>1, <2>2, <2>3 DEF Proceed
<1> QED  BY <1>1, <1>2, <1>3, <1>4, <1>5, <1>6 DEF Next, vars

\* Who answers DUPLICATE: a completion that found the answer or the row settled.
LEMMA WhoAnswersDuplicate ==
    ASSUME AttemptInv, NEW r \in Requests, Arrive(r) \/ Proceed(r) \/ CompleteThrow(r) \/ Die(r),
           req'[r].reply = "DUPLICATE"
    PROVE  \/ /\ req[r].at = "classify" /\ req'[r].attempt = req[r].attempt
              /\ Classify(idem[req[r].order.key], req[r].order.claim) = "DUPLICATE_SAME_PAYLOAD"
           \/ /\ req[r].at = "settle" /\ req'[r].attempt = req[r].attempt
              /\ req[r].verdict = "DUPLICATE"
<1>0. /\ TypeOK /\ AllPlaced /\ req \in [Requests -> Locals] /\ req[r] \in Locals /\ Placed(r, req[r])
  BY DEF AttemptInv, TypeOK, AllPlaced
<1>a. ASSUME NEW location \in Locations, Goto(r, location), req[r].at # "done" PROVE FALSE
  BY <1>0, <1>a, AfterGoto, NullOutside DEF Placed
<1>b. ASSUME NEW code \in Replies \ {"DUPLICATE"}, Reply(r, code) PROVE FALSE
  BY <1>0, <1>b, AfterReply
<1>c. \A loc \in {"create", "capture", "begin", "insert", "reread", "audit", "upsert", "classify",
                  "submit", "score", "consolidate", "settle", "fail"} : loc \in Locations
  BY DEF Locations
<1>d. \A code \in {"OK", "ACCEPTED", "ERROR", "LEARNING_PATH_RESOURCE_NOT_AVAILABLE",
                   "ATTEMPT_RUNTIME_MISMATCH", "ATTEMPT_NOT_COMPLETABLE",
                   "CROSS_RUNTIME_ATTEMPT_CONFLICT", "FAILED_TERMINAL"} : code \in Replies \ {"DUPLICATE"}
  BY DEF Replies
<1>1. ~Arrive(r)
  <2>1. ASSUME NEW a \in Attempts, LaunchLookup(r, a) PROVE FALSE
    BY <1>0, <2>1, NullOutside DEF LaunchLookup, Locals
  <2>2. ASSUME NEW a \in Attempts, NEW x \in Actions, ActionRead(r, a, x) PROVE FALSE
    BY <1>0, <2>2, NullOutside DEF ActionRead, Locals
  <2>3. ASSUME NEW a \in Attempts, EntryRead(r, a) PROVE FALSE
    BY <1>0, <2>3, NullOutside DEF EntryRead, Locals
  <2>4. ASSUME NEW s \in Submissions, CompleteRead(r, s) PROVE FALSE
    BY <1>0, <2>4, NullOutside DEF CompleteRead, Locals
  <2> QED  BY <2>1, <2>2, <2>3, <2>4 DEF Arrive
<1>2. ~(LaunchGate(r) \/ LaunchCreate(r) \/ LaunchCapture(r))
  BY <1>a, <1>b, <1>c, <1>d DEF LaunchGate, LaunchCreate, LaunchCapture
<1>3. ~(ActionDedup(r) \/ ActionBegin(r) \/ ActionInsert(r))
  BY <1>a, <1>b, <1>c, <1>d DEF ActionDedup, ActionBegin, ActionInsert
<1>4. ~(EntryBegin(r) \/ EntryReread(r) \/ EntryAudit(r))
  BY <1>a, <1>b, <1>c, <1>d DEF EntryBegin, EntryReread, EntryAudit
<1>5. ~CompleteFetch(r)
  <2>1. ASSUME NEW S, CompleteFetch(r), req' = [req EXCEPT ![r] = [@ EXCEPT !.snapshot = S, !.at = "upsert"]]
        PROVE  FALSE
    BY <1>0, <2>1, NullOutside DEF CompleteFetch, Locals, Placed
  <2> QED  BY <2>1, <1>b, <1>d DEF CompleteFetch
<1>6. ~CompleteUpsert(r)
  <2>1. ASSUME NEW g, CompleteUpsert(r), req' = [req EXCEPT ![r] = [@ EXCEPT !.generation = g, !.at = "evaluate"]]
        PROVE  FALSE
    BY <1>0, <2>1, NullOutside DEF CompleteUpsert, Locals, Placed
  <2>2. ~Goto(r, "classify") \/ req[r].at # "upsert"
    BY <1>a, <1>c
  <2> QED  BY <2>1, <2>2 DEF CompleteUpsert
<1>7. ~(CompleteEvaluate(r) \/ CompleteConsolidate(r))
  <2>1. ASSUME NEW loc, NEW verdict, req[r].at # "done",
               req' = [req EXCEPT ![r] = [@ EXCEPT !.at = loc, !.verdict = verdict]]
        PROVE  FALSE
    BY <1>0, <2>1, NullOutside DEF Locals, Placed
  <2>2. ASSUME CompleteEvaluate(r)
        PROVE  \E loc, verdict : req' = [req EXCEPT ![r] = [@ EXCEPT !.at = loc, !.verdict = verdict]]
    BY <2>2 DEF CompleteEvaluate
  <2>3. ASSUME CompleteConsolidate(r)
        PROVE  \E loc, verdict : req' = [req EXCEPT ![r] = [@ EXCEPT !.at = loc, !.verdict = verdict]]
    BY <2>3 DEF CompleteConsolidate
  <2>4. CompleteEvaluate(r) \/ CompleteConsolidate(r) => req[r].at # "done"
    BY DEF CompleteEvaluate, CompleteConsolidate
  <2> QED  BY <2>1, <2>2, <2>3, <2>4
<1>8. ~(CompleteSubmit(r) \/ CompleteScore(r) \/ CompleteThrow(r))
  <2>1. CompleteSubmit(r) => \E loc \in {"settle", "score", "fail"} : Goto(r, loc)
    BY DEF CompleteSubmit
  <2> QED  BY <2>1, <1>a, <1>c DEF CompleteSubmit, CompleteScore, CompleteThrow
<1>9. ~(CompleteFail(r) \/ Die(r))
  BY <1>b, <1>d DEF CompleteFail, Die
<1>10. ASSUME CompleteClassify(r)
       PROVE  /\ req[r].at = "classify" /\ req'[r].attempt = req[r].attempt
              /\ Classify(idem[req[r].order.key], req[r].order.claim) = "DUPLICATE_SAME_PAYLOAD"
  <2>1. PICK code \in Replies : Reply(r, code)
    BY <1>10 DEF CompleteClassify, Replies
  <2> QED  BY <1>0, <1>10, <1>b, <1>d, <2>1, AfterReply DEF CompleteClassify
<1>11. ASSUME CompleteSettle(r)
       PROVE  req[r].at = "settle" /\ req'[r].attempt = req[r].attempt /\ req[r].verdict = "DUPLICATE"
  BY <1>0, <1>11, AfterReply DEF CompleteSettle, Locals
<1> QED  BY <1>1, <1>2, <1>3, <1>4, <1>5, <1>6, <1>7, <1>8, <1>9, <1>10, <1>11 DEF Proceed

\* A step of one handler leaves the variables of the others alone.
LEMMA OthersWait ==
    ASSUME NEW r \in Requests, Arrive(r) \/ Proceed(r) \/ CompleteThrow(r) \/ Die(r),
           AttemptInv, NEW q \in Requests \ {r}
    PROVE  req'[q] = req[q]
<1>0. req \in [Requests -> Locals]
  BY DEF AttemptInv, TypeOK
<1>1. Arrive(r) => req'[q] = req[q]
  BY <1>0, AfterArrive DEF AttemptInv
<1>2. Proceed(r) \/ CompleteThrow(r) \/ Die(r) => req'[q] = req[q]
  BY <1>0 DEF Proceed, Goto, Reply, LaunchGate, LaunchCreate, LaunchCapture, ActionDedup, ActionBegin,
         ActionInsert, EntryBegin, EntryReread, EntryAudit, CompleteFetch, CompleteUpsert,
         CompleteClassify, CompleteEvaluate, CompleteSubmit, CompleteScore, CompleteConsolidate,
         CompleteSettle, CompleteFail, CompleteThrow, Die
<1> QED  BY <1>1, <1>2

\* AnswerInv is preserved.
LEMMA AnswerStep ==
    ASSUME KeyPerAttempt, AttemptInv, [Next]_vars, KeyInv, AnswerInv
    PROVE  AnswerInv'
<1>0. /\ TypeOK /\ AllPlaced /\ req \in [Requests -> Locals]
      /\ idem \in [Keys -> Rows(Payloads, StoredResponses)]
  BY DEF AttemptInv, TypeOK
<1>a. ASSUME NEW a \in Attempts, Submitted(a) PROVE Submitted(a)'
  BY <1>a, RowMoves DEF Submitted, RowMove
<1>b. ASSUME NEW q \in Requests, req'[q] = req[q], req[q].reply = "DUPLICATE"
      PROVE  Submitted(req[q].attempt)'
  <2>1. req[q].attempt \in Attempts
    BY <1>0, <1>b, NullOutside DEF AllPlaced, Placed
  <2>2. PICK a \in Attempts : a = req[q].attempt
    BY <2>1
  <2>3. Submitted(a)
    BY <1>b, <2>2 DEF AnswerInv
  <2> QED  BY <1>a, <1>b, <2>2, <2>3 DEF Submitted
<1>1. ASSUME NEW r \in Requests, Arrive(r) \/ Proceed(r) \/ CompleteThrow(r) \/ Die(r),
             req'[r].reply = "DUPLICATE"
      PROVE  Submitted(req[r].attempt)'
  <2>1. CASE /\ req[r].at = "classify" /\ req'[r].attempt = req[r].attempt
             /\ Classify(idem[req[r].order.key], req[r].order.claim) = "DUPLICATE_SAME_PAYLOAD"
    <3>1. /\ req[r].order \in Submissions /\ req[r].attempt = req[r].order.attempt
          /\ req[r].order.key \in Keys /\ req[r].attempt \in Attempts
      BY <1>0, <2>1, SubmissionParts DEF AllPlaced, Placed, Completing
    <3>2. PICK k \in Keys, a \in Attempts : k = req[r].order.key /\ a = req[r].attempt
      BY <3>1
    <3>3. idem[k].status = "COMPLETED"
      BY <2>1, <3>2 DEF Classify
    <3>4. idem[k].response.attempt = a
      BY <3>1, <3>2, <3>3 DEF AnswerInv, Keyed, KeyPerAttempt
    <3>5. attempt[a].completion \in {"RECONCILIATION_REQUIRED", "CONSOLIDATED"}
      BY <3>2, <3>3, <3>4 DEF KeyInv, Settled
    <3>6. Submitted(a)
      BY <3>5, NullOutside DEF AttemptInv, RowInv, Sound, Submitted, TypeOK, AttemptRows, AttemptStates
    <3> QED  BY <2>1, <3>2, <3>6, <1>a DEF Submitted
  <2>2. CASE req[r].at = "settle" /\ req'[r].attempt = req[r].attempt /\ req[r].verdict = "DUPLICATE"
    <3>1. req[r].attempt \in Attempts /\ Fits(req[r])
      BY <1>0, <2>2 DEF AllPlaced, Placed, AttemptInv, RowInv
    <3>2. PICK a \in Attempts : a = req[r].attempt
      BY <3>1
    <3>3. Submitted(a)
      BY <2>2, <3>1, <3>2 DEF Fits, Submitted
    <3> QED  BY <2>2, <3>2, <3>3, <1>a DEF Submitted
  <2> QED  BY <1>1, <2>1, <2>2, WhoAnswersDuplicate
<1>2. ASSUME NEW r \in Requests, Arrive(r) \/ Proceed(r) \/ CompleteThrow(r) \/ Die(r), NEW q \in Requests \ {r}
      PROVE  req'[q] = req[q]
  BY <1>2, OthersWait
<1>3. CASE (\E k \in Keys : RetryWindowElapses(k)) \/ UNCHANGED vars
  <2>1. UNCHANGED req
    BY <1>3 DEF RetryWindowElapses, vars
  <2> QED  BY <2>1, <1>b, KeyedStep DEF AnswerInv
<1> QED  BY <1>1, <1>2, <1>3, <1>b, KeyedStep DEF AnswerInv, Next

\* AnswerInv is an invariant of the specification.
LEMMA AnswerInvariance ==
    ASSUME KeyPerAttempt
    PROVE  Spec => []AnswerInv
<1>1. Init => AnswerInv
  <2> SUFFICES ASSUME Init PROVE AnswerInv
    OBVIOUS
  <2>1. (\A r \in Requests : req[r] = Unsent) /\ (\A k \in Keys : idem[k] = NoRow)
    BY DEF Init
  <2> QED  BY <2>1, NullOutside DEF AnswerInv, Keyed, Unsent, NoRow
<1>2. AttemptInv /\ KeyInv /\ AnswerInv /\ [Next]_vars => AnswerInv'
  BY AnswerStep
<1> QED  BY <1>1, <1>2, AttemptInvariance, KeyInvariance, PTL DEF Spec

----------------------------------------------------------------------------
\* The state four handlers leave is sound, however they interleave and whatever
\* fails: types, the lifecycle CHECK, logged answers, one holder per key and true
\* answers, for clients that use an Idempotency-Key for one attempt.
THEOREM RowsAreSoundHolds ==
    ASSUME KeyPerAttempt
    PROVE  Spec => []RowsAreSound
<1>1. LogInv => AcceptedIsLogged
  BY DEF LogInv, Reads, LogShape, Started, AcceptedIsLogged, Requests
<1>2. AnswerInv => DuplicateAnswerIsTrue
  BY DEF AnswerInv, Submitted, DuplicateAnswerIsTrue, Requests
<1>3. TypeOK /\ LifecycleConstraint /\ AcceptedIsLogged /\ KeyHeldOnce
      /\ DuplicateAnswerIsTrue /\ ConsolidatedAnswerIsTrue => RowsAreSound
  BY DEF RowsAreSound
<1> QED  BY <1>1, <1>2, <1>3, TypeCorrect, LifecycleConstraintHolds, LogInvariance, KeyHeldOnceHolds,
            AnswerInvariance, ConsolidatedAnswerIsTrueHolds, PTL

=============================================================================
