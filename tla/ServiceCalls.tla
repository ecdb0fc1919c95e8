---------------------------- MODULE ServiceCalls ----------------------------
(***************************************************************************)
(* The frame of the staff and platform endpoints that write: a route that  *)
(* admits the request, begin() on its idempotency record, the body of the  *)
(* service in a try block, complete(), and fail() in the catch block.      *)
(* The services differ in the body and in which failures may be retried;   *)
(* their modules extend this one.                                          *)
(*                                                                         *)
(* begin() is one step here.  Its two statements, and what happens between *)
(* them, are the subject of IdempotentRequests.                            *)
(***************************************************************************)
EXTENDS IdempotencyRecord

CONSTANTS
    Calls,         \* the requests being served, each served once
    Keys,          \* Idempotency-Key values
    Faults         \* TRUE: statements may fail and processes may die

VARIABLES
    idem,          \* idempotency_record: the rows by operation (scope) and key
    call           \* the local state of each request

callVars == <<idem, call>>

Idle == [at |-> "idle", op |-> Null, arg |-> Null, key |-> Null, generation |-> 0,
         got |-> Null]

\* The requests still to come are in coming; the others are of the past.
CallsInit(coming) ==
    /\ idem = [s \in {} |-> NoRow]
    /\ call = [h \in Calls |-> IF h \in coming THEN Idle ELSE [Idle EXCEPT !.at = "done"]]

CallRows(Ops, Args, Gots, Places) ==
    [at         : Places \union {"idle", "begin", "complete", "fail", "done"},
     op         : Ops \union {Null},
     arg        : Args \union {Null},
     key        : Keys \union {Null},
     generation : Nat,
     got        : Gots \union {Null, "retryable", "terminal"}]

CallsTypeOK(Ops, Args, Gots, Places) ==
    /\ DOMAIN idem \subseteq Ops \X Keys
    /\ \A s \in DOMAIN idem : idem[s] \in Rows(Args, {"OK", "ERROR"})
    /\ call \in [Calls -> CallRows(Ops, Args, Gots, Places)]

Scope(h) == <<call[h].op, call[h].key>>
Record(s) == IF s \in DOMAIN idem THEN idem[s] ELSE NoRow
Write(s, row) == [r \in DOMAIN idem \union {s} |-> IF r = s THEN row ELSE idem[r]]

\* The request goes on to the statement at another place, with what it read.
Goto(h, place, got) == call' = [call EXCEPT ![h] = [@ EXCEPT !.at = place, !.got = got]]

\* The answer leaves the server; its code is named for the reader only.
Answer(h, code) == call' = [call EXCEPT ![h] = [Idle EXCEPT !.at = "done"]]

\* An error thrown in the try block, on its way to fail().
Throws(h, code, retryable) ==
    Goto(h, "fail", IF retryable THEN "retryable" ELSE "terminal")

\* The route: an identity without the right is refused, and nothing is written.
Admit(h, op, arg, key, entitled, place) ==
    /\ call[h].at = "idle"
    /\ \/ entitled /\ call' = [call EXCEPT ![h] = [Idle EXCEPT !.at = place, !.op = op, !.arg = arg, !.key = key]]
       \/ ~entitled /\ Answer(h, "STAFF_FORBIDDEN")
    /\ UNCHANGED idem

\* begin() and the four outcomes that leave the service at once.
Begin(h, place) ==
    LET row  == Record(Scope(h))
        hash == call[h].arg
    IN /\ call[h].at = "begin"
       /\ \/ /\ Claims(row, hash)
             /\ idem' = Write(Scope(h), Claim(row, hash))
             /\ call' = [call EXCEPT ![h] = [@ EXCEPT !.at = place, !.generation = row.generation + 1]]
          \/ /\ ~Claims(row, hash)
             /\ Answer(h, CASE Classify(row, hash) = "DUPLICATE_SAME_PAYLOAD" -> "REPLAY"
                            [] Classify(row, hash) = "CONFLICT_DIFFERENT_PAYLOAD" -> "IDEMPOTENCY_CONFLICT"
                            [] OTHER -> "IDEMPOTENCY_IN_PROGRESS")
             /\ UNCHANGED idem

\* complete().  Should the audit row after it fail, fail() changes nothing any more.
CompleteRecord(h) ==
    /\ call[h].at = "complete"
    /\ idem' = [idem EXCEPT ![Scope(h)] = Complete(@, call[h].generation, "OK")]
    /\ Answer(h, "OK")

\* fail() in the catch block; the error is thrown on.
FailRecord(h) ==
    /\ call[h].at = "fail"
    /\ idem' = [idem EXCEPT ![Scope(h)] =
                  Fail(@, call[h].generation, call[h].got = "retryable", "ERROR")]
    /\ Answer(h, "ERROR")

\* A statement of the try block fails, or its acknowledgement is lost.
StatementFails(h) ==
    /\ Faults
    /\ call[h].at \notin {"idle", "begin", "fail", "done"}
    /\ call[h].generation > 0
    /\ Throws(h, "ERROR", TRUE)
    /\ UNCHANGED idem

\* The process dies: the record, if begun, stays PENDING.
ProcessDies(h) ==
    /\ Faults
    /\ call[h].at \notin {"idle", "done"}
    /\ Answer(h, "ERROR")
    /\ UNCHANGED idem

\* The retry window of a failed record is over.
RetryWindowEnds ==
    \E s \in DOMAIN idem :
        /\ idem[s].status = "FAILED" /\ ~idem[s].aged
        /\ idem' = [idem EXCEPT ![s] = Age(@)]
        /\ UNCHANGED call
=============================================================================
