------------------------- MODULE IdempotencyRecord -------------------------
(***************************************************************************)
(* One row of the idempotency_record table and the statements that         *)
(* IdempotencyRecordRepository runs against it                             *)
(* (packages/attempts/src/repository/idempotency-record-repository.ts).    *)
(* Every operator below is one SQL statement, hence atomic; begin() is TWO *)
(* statements (the upsert, then the classifying SELECT), and the modules   *)
(* that use these operators take them as two steps.                        *)
(*                                                                         *)
(* A row that was never inserted is NoRow.  The clock is abstracted to one *)
(* bit: "aged" says that updated_at is more than RETRY_WINDOW_SECONDS old. *)
(* expires_at is written by the code and never read, so it is left out.    *)
(*                                                                         *)
(* In all modules an operator whose name starts with Wrong is a broken     *)
(* variant of the definition after it, the way the code could be broken;   *)
(* substituted for that definition, it must violate a property.            *)
(***************************************************************************)
EXTENDS Naturals

CONSTANT Null      \* SQL NULL

Statuses == {"ABSENT", "PENDING", "COMPLETED", "FAILED"}

NoRow == [status     |-> "ABSENT",
          generation |-> 0,
          hash       |-> Null,
          response   |-> Null,
          retryable  |-> FALSE,
          aged       |-> FALSE]

\* The rows over a set of request hashes and a set of stored responses.
Rows(Hashes, Responses) ==
    [status     : Statuses,
     generation : Nat,
     hash       : Hashes \union {Null},
     response   : Responses \union {Null},
     retryable  : BOOLEAN,
     aged       : BOOLEAN]

(***************************************************************************)
(* begin(), first statement:  INSERT ... ON CONFLICT DO UPDATE ... WHERE.  *)
(***************************************************************************)
WrongReopenPending(row, hash) ==       \* reopens a record still in flight
    row.hash = hash /\ (row.status = "PENDING" \/ (row.status = "FAILED" /\ row.retryable /\ row.aged))

WrongReopenTerminal(row, hash) ==      \* forgets failure_retryable
    row.status = "FAILED" /\ row.hash = hash /\ row.aged

\* The WHERE clause of the DO UPDATE.
Reopenable(row, hash) ==
    /\ row.status = "FAILED"
    /\ row.retryable
    /\ row.hash = hash
    /\ row.aged

\* The upsert returns a row: a fresh INSERT (NEW) or a reopened one (REOPENED).
Claims(row, hash) == row.status = "ABSENT" \/ Reopenable(row, hash)

Claim(row, hash) ==
    [status     |-> "PENDING",
     generation |-> row.generation + 1,
     hash       |-> hash,
     response   |-> Null,
     retryable  |-> FALSE,
     aged       |-> FALSE]

(***************************************************************************)
(* begin(), second statement: the outcome read off the existing row.       *)
(***************************************************************************)
WrongClassifyIgnoringHash(row, hash) == \* any completed record is a duplicate
    IF row.status = "COMPLETED" THEN "DUPLICATE_SAME_PAYLOAD" ELSE "RETRY_TOO_SOON"

Classify(row, hash) ==
    CASE row.hash # hash           -> "CONFLICT_DIFFERENT_PAYLOAD"
      [] row.hash = hash /\ row.status = "COMPLETED" -> "DUPLICATE_SAME_PAYLOAD"
      [] row.hash = hash /\ row.status = "FAILED" /\ ~row.retryable -> "FAILED_TERMINAL"
      [] OTHER                     -> "RETRY_TOO_SOON"

(***************************************************************************)
(* complete() and fail(): UPDATE ... WHERE status = 'PENDING' AND          *)
(* generation = $expected.  Zero rows updated is STALE_GENERATION.         *)
(***************************************************************************)
Current(row, generation) ==
    row.status = "PENDING" /\ row.generation = generation

Complete(row, generation, response) ==
    IF Current(row, generation)
    THEN [row EXCEPT !.status = "COMPLETED", !.response = response,
                     !.retryable = FALSE, !.aged = FALSE]
    ELSE row

WrongFailAnyStatus(row, generation, retryable, response) == \* no WHERE status = 'PENDING'
    [row EXCEPT !.status = "FAILED", !.retryable = retryable, !.response = response, !.aged = FALSE]

Fail(row, generation, retryable, response) ==
    IF Current(row, generation)
    THEN [row EXCEPT !.status = "FAILED", !.response = response,
                     !.retryable = retryable, !.aged = FALSE]
    ELSE row

\* Time passes: the retry window of a failed row is over.
Age(row) == [row EXCEPT !.aged = TRUE]
=============================================================================
