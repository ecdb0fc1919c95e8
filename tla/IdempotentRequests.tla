------------------------- MODULE IdempotentRequests -------------------------
(***************************************************************************)
(* The pattern every idempotent write of the platform follows: begin() the *)
(* record of the Idempotency-Key, run the operation inside try, complete() *)
(* the record with the response, and in the catch fail() it, retryable or  *)
(* not.  Requests of any number of API processes interleave between any    *)
(* two SQL statements, may die between them, may lose the acknowledgement  *)
(* of a statement that was applied, and are retried by their clients with  *)
(* the same key, whenever and as often as they like.                       *)
(***************************************************************************)
EXTENDS IdempotencyRecord

CONSTANTS Workers,          \* API request handlers that can be in flight
          RecordKeys,       \* (scope, scope_key) pairs
          Hashes,           \* request payload hashes
          Responses,        \* what the operation can answer
          Nobody,           \* the holder of a key nobody works on
          MaxGeneration     \* bound: how often one key may be claimed

ASSUME MaxGenerationAssumption == MaxGeneration \in Nat
ASSUME NullAssumption == Null \notin Hashes /\ Null \notin Responses
ASSUME NobodyAssumption == Nobody \notin Workers

VARIABLES record,           \* RecordKeys -> row of idempotency_record
          worker,           \* Workers -> the request it serves, and where it is
          effects           \* RecordKeys -> what executions of the operation have done

vars == <<record, worker, effects>>

Outcomes == {"NONE", "COMMITTED", "ERROR", "DUPLICATE_SAME_PAYLOAD",
             "CONFLICT_DIFFERENT_PAYLOAD", "FAILED_TERMINAL", "RETRY_TOO_SOON"}

Locations == {"idle", "upsert", "classify", "apply", "complete", "fail"}

Requests ==
    [at         : Locations,
     key        : RecordKeys \union {Null},
     hash       : Hashes \union {Null},
     generation : Nat,
     retryable  : BOOLEAN,                      \* what the catch will report
     response   : Responses \union {Null},
     outcome    : Outcomes]                     \* what the client was told

Effects == [generation : Nat, hash : Hashes, response : Responses]

Resting == [at |-> "idle", key |-> Null, hash |-> Null, generation |-> 0,
            retryable |-> FALSE, response |-> Null, outcome |-> "NONE"]

TypeOK ==
    /\ record \in [RecordKeys -> Rows(Hashes, Responses)]
    /\ worker \in [Workers -> Requests]
    /\ \A w \in Workers : worker[w].at # "idle" =>
           worker[w].key \in RecordKeys /\ worker[w].hash \in Hashes
    /\ \A w \in Workers : worker[w].at = "complete" => worker[w].response \in Responses
    /\ effects \in [RecordKeys -> SUBSET Effects]

Init ==
    /\ record = [k \in RecordKeys |-> NoRow]
    /\ worker = [w \in Workers |-> Resting]
    /\ effects = [k \in RecordKeys |-> {}]

----------------------------------------------------------------------------
\* A client sends, or resends, a request.
Send(w, k, h) ==
    /\ worker[w].at = "idle"
    /\ worker' = [worker EXCEPT ![w] = [Resting EXCEPT !.at = "upsert", !.key = k, !.hash = h]]
    /\ UNCHANGED <<record, effects>>

\* The request is answered.
Reply(w, outcome, response) ==
    worker' = [worker EXCEPT ![w] = [@ EXCEPT !.at = "idle", !.outcome = outcome, !.response = response]]

\* begin(), first statement.
BeginUpsert(w) ==
    LET k == worker[w].key
        h == worker[w].hash
    IN /\ worker[w].at = "upsert"
       /\ \/ /\ Claims(record[k], h)
             /\ record[k].generation < MaxGeneration
             /\ record' = [record EXCEPT ![k] = Claim(record[k], h)]
             /\ worker' = [worker EXCEPT ![w] = [@ EXCEPT !.at = "apply",
                                         !.generation = record[k].generation + 1]]
          \/ /\ ~Claims(record[k], h)
             /\ worker' = [worker EXCEPT ![w] = [@ EXCEPT !.at = "classify"]]
             /\ UNCHANGED record
       /\ UNCHANGED effects

\* begin(), second statement; the row may have changed since the first.
BeginClassify(w) ==
    LET k == worker[w].key
    IN /\ worker[w].at = "classify"
       /\ Reply(w, Classify(record[k], worker[w].hash), record[k].response)
       /\ UNCHANGED <<record, effects>>

\* The operation itself takes effect and has a response.
Apply(w) ==
    LET k == worker[w].key
    IN /\ worker[w].at = "apply"
       /\ \E r \in Responses :
            /\ effects' = [effects EXCEPT ![k] = @ \union
                  {[generation |-> worker[w].generation, hash |-> worker[w].hash, response |-> r]}]
            /\ worker' = [worker EXCEPT ![w] = [@ EXCEPT !.at = "complete", !.response = r]]
       /\ UNCHANGED record

\* A statement of the try block fails: the operation refuses (a domain error,
\* often reported as not retryable) or the database does.
Throw(w) ==
    /\ worker[w].at \in {"apply", "complete"}
    /\ \E retryable \in BOOLEAN :
          /\ worker[w].at = "complete" => retryable
          /\ worker' = [worker EXCEPT ![w] = [@ EXCEPT !.at = "fail", !.retryable = retryable]]
    /\ UNCHANGED <<record, effects>>

\* complete(), acknowledged.
CompleteRequest(w) ==
    LET k == worker[w].key
    IN /\ worker[w].at = "complete"
       /\ record' = [record EXCEPT ![k] = Complete(@, worker[w].generation, worker[w].response)]
       /\ Reply(w, "COMMITTED", worker[w].response)
       /\ UNCHANGED effects

\* complete() is applied but a later statement of the try block, or its own
\* acknowledgement, fails: the catch runs on a record already COMPLETED.
CompleteRequestThenThrow(w) ==
    LET k == worker[w].key
    IN /\ worker[w].at = "complete"
       /\ record' = [record EXCEPT ![k] = Complete(@, worker[w].generation, worker[w].response)]
       /\ worker' = [worker EXCEPT ![w] = [@ EXCEPT !.at = "fail", !.retryable = TRUE]]
       /\ UNCHANGED effects

\* fail() in the catch, then the error is rethrown.
FailRequest(w) ==
    LET k == worker[w].key
    IN /\ worker[w].at = "fail"
       /\ record' = [record EXCEPT ![k] = Fail(@, worker[w].generation, worker[w].retryable, Null)]
       /\ Reply(w, "ERROR", Null)
       /\ UNCHANGED effects

\* The process serving the request dies, or the connection to the database
\* does while no catch is left to run: the record stays as it is.
Die(w) ==
    /\ worker[w].at # "idle"
    /\ Reply(w, "ERROR", Null)
    /\ UNCHANGED <<record, effects>>

\* RETRY_WINDOW_SECONDS have passed since the record was last written.
RetryWindowElapses(k) ==
    /\ record[k].status = "FAILED" /\ ~record[k].aged
    /\ record' = [record EXCEPT ![k] = Age(@)]
    /\ UNCHANGED <<worker, effects>>

Step(w) ==
    \/ BeginUpsert(w)
    \/ BeginClassify(w)
    \/ Apply(w)
    \/ Throw(w)
    \/ CompleteRequest(w)
    \/ CompleteRequestThenThrow(w)
    \/ FailRequest(w)

Next ==
    \/ \E w \in Workers :
          \/ \E k \in RecordKeys, h \in Hashes : Send(w, k, h)
          \/ Step(w)
          \/ Die(w)
    \/ \E k \in RecordKeys : RetryWindowElapses(k)

Spec == Init /\ [][Next]_vars

----------------------------------------------------------------------------
(***************************************************************************)
(* Properties                                                              *)
(***************************************************************************)
Holds(w, k) == worker[w].key = k /\ worker[w].at \in {"apply", "complete", "fail"}

\* "Postgres's own row-level locking makes concurrent callers on the same key
\* race safely; at most one gets NEW/REOPENED per generation": the guarded
\* operation of a key is never executed by two requests at the same time,
\* whatever dies, retries and ages in between.
MutualExclusion ==
    \A k \in RecordKeys, w1, w2 \in Workers : Holds(w1, k) /\ Holds(w2, k) => w1 = w2

\* A record is never completed under a request that still works on it: the one
\* who holds a key finds it PENDING in its own generation, except that its own
\* complete() may have been applied without it knowing.
HolderIsCurrent ==
    \A k \in RecordKeys, w \in Workers : Holds(w, k) =>
        /\ record[k].generation = worker[w].generation
        /\ record[k].hash = worker[w].hash
        /\ \/ record[k].status = "PENDING"
           \/ record[k].status = "COMPLETED" /\ worker[w].at = "fail"

\* A completed record keeps the answer of an execution that really took place,
\* for the payload the record was opened with.
CompletedByExecution ==
    \A k \in RecordKeys : record[k].status = "COMPLETED" =>
        \E e \in effects[k] : /\ e.generation = record[k].generation
                              /\ e.hash = record[k].hash
                              /\ e.response = record[k].response

\* Types; one holder per key, on the current generation of its record; and completed
\* records that tell of an execution that took place (begin, complete and fail).
RecordsAreSound == TypeOK /\ MutualExclusion /\ HolderIsCurrent /\ CompletedByExecution

\* A client told DUPLICATE_SAME_PAYLOAD is handed the response of an execution
\* of its own payload, even though the response is read by a second statement.
ReplayIsAuthentic ==
    \A w \in Workers :
        worker[w].at = "idle" /\ worker[w].outcome = "DUPLICATE_SAME_PAYLOAD" =>
            \E e \in effects[worker[w].key] :
                e.hash = worker[w].hash /\ e.response = worker[w].response

\* No generation of a key ever executes the operation twice, and none executes
\* it after the record is settled.
OneExecutionPerGeneration ==
    \A k \in RecordKeys : \A e1, e2 \in effects[k] :
        e1.generation = e2.generation => e1 = e2

\* Once a key is settled no execution of its operation ever takes effect again.
NoExecutionOnceSettled ==
    [][\A k \in RecordKeys : record[k].status = "COMPLETED" =>
           record'[k] = record[k] /\ effects'[k] = effects[k]]_vars

\* A key whose request died between begin() and complete() is lost: no retry, clock or late
\* statement of another request ever frees its record, since nothing reads expires_at.
AbandonedStaysPending ==
    [][\A k \in RecordKeys : record[k].status = "PENDING" /\ (\A w \in Workers : ~Holds(w, k)) =>
           /\ record'[k] = record[k] /\ effects'[k] = effects[k]
           /\ \A w \in Workers : ~Holds(w, k)']_vars

\* The two together: an operation that was settled, or whose outcome nobody knows, is not
\* executed a second time, whoever retries it with the key.
NoSecondExecution == NoExecutionOnceSettled /\ AbandonedStaysPending

----------------------------------------------------------------------------
(* What makes the properties inductive.                                    *)

\* A handler about to complete the record has executed the operation, and one
\* about to execute it is the first of its generation.
ExecutionIsOwn ==
    \A w \in Workers :
        /\ worker[w].at = "complete" =>
              [generation |-> worker[w].generation, hash |-> worker[w].hash,
               response |-> worker[w].response] \in effects[worker[w].key]
        /\ worker[w].at = "apply" =>
              \A e \in effects[worker[w].key] : e.generation # worker[w].generation

\* Nothing was ever executed for a generation still to come.
ExecutionsArePast ==
    \A k \in RecordKeys : \A e \in effects[k] : e.generation <= record[k].generation

\* The inductive invariant: every property above is a conjunct of it.
IInv ==
    /\ TypeOK
    /\ HolderIsCurrent
    /\ MutualExclusion
    /\ CompletedByExecution
    /\ ReplayIsAuthentic
    /\ OneExecutionPerGeneration
    /\ ExecutionIsOwn
    /\ ExecutionsArePast

----------------------------------------------------------------------------
(***************************************************************************)
(* The record as the slot of the contract.                                 *)
(***************************************************************************)
SlotOf(row) ==
    CASE row.status = "ABSENT"    -> "FREE"
      [] row.status = "PENDING"   -> "HELD"
      [] row.status = "COMPLETED" -> "SETTLED"
      [] row.status = "FAILED"    -> IF row.retryable THEN "FREE" ELSE "REFUSED"

slotBar   == [k \in RecordKeys |-> SlotOf(record[k])]
answerBar == [k \in RecordKeys |-> IF record[k].status = "COMPLETED" THEN record[k].response ELSE Null]
holderBar == [k \in RecordKeys |-> IF \E w \in Workers : Holds(w, k)
                             THEN CHOOSE w \in Workers : Holds(w, k)
                             ELSE Nobody]

Contract == INSTANCE IdempotencyContract
                WITH Keys <- RecordKeys, slot <- slotBar, holder <- holderBar, answer <- answerBar

\* The idempotency records implement the contract the services rely on.
ImplementsContract == Contract!Spec
=============================================================================
