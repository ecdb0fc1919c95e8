------------------------- MODULE ServiceCallsProofs -------------------------
(***************************************************************************)
(* What each step of the common frame does to the request that takes it,   *)
(* to the other requests and to the idempotency records, for any sets of   *)
(* operations, arguments and places.  The proofs about the services that   *)
(* extend ServiceCalls rest on these.                                      *)
(***************************************************************************)
EXTENDS ServiceCalls, TLAPS

\* The other requests stay where they are.
OthersStay(h) == \A g \in Calls \ {h} : call'[g] = call[g]

\* The request of h is still the same one.
SameRequest(h) ==
    /\ call'[h].op = call[h].op /\ call'[h].arg = call[h].arg
    /\ call'[h].key = call[h].key /\ call'[h].generation = call[h].generation

\* Every record completed afterwards was completed before, or is one of S.
CompletesAtMost(S) ==
    \A s \in DOMAIN idem' : idem'[s].status = "COMPLETED" =>
        s \in S \/ (s \in DOMAIN idem /\ idem[s].status = "COMPLETED")

LEMMA InitTyped ==
    ASSUME NEW Ops, NEW Args, NEW Gots, NEW Places, NEW coming, CallsInit(coming)
    PROVE  CallsTypeOK(Ops, Args, Gots, Places)
<1>1. DOMAIN idem = {}
  BY DEF CallsInit
<1>2. \A h \in Calls : call[h] \in CallRows(Ops, Args, Gots, Places)
  BY DEF CallsInit, CallRows, Idle
<1>3. call \in [Calls -> CallRows(Ops, Args, Gots, Places)]
  BY <1>2 DEF CallsInit
<1> QED  BY <1>1, <1>3 DEF CallsTypeOK

LEMMA GotoEffect ==
    ASSUME NEW Ops, NEW Args, NEW Gots, NEW Places, CallsTypeOK(Ops, Args, Gots, Places),
           NEW h \in Calls, NEW place \in Places \union {"begin", "complete", "fail"},
           NEW got \in Gots \union {Null, "retryable", "terminal"}, Goto(h, place, got)
    PROVE  /\ call' \in [Calls -> CallRows(Ops, Args, Gots, Places)]
           /\ OthersStay(h) /\ SameRequest(h) /\ call'[h].at = place /\ call'[h].got = got
<1>1. call[h] \in CallRows(Ops, Args, Gots, Places)
  BY DEF CallsTypeOK
<1>2. PICK c : c = [call[h] EXCEPT !.at = place, !.got = got]
  OBVIOUS
<1>3. /\ c \in CallRows(Ops, Args, Gots, Places) /\ c.at = place /\ c.got = got
      /\ c.op = call[h].op /\ c.arg = call[h].arg /\ c.key = call[h].key /\ c.generation = call[h].generation
  BY <1>1, <1>2 DEF CallRows
<1>4. call' = [call EXCEPT ![h] = c]
  BY <1>2 DEF Goto, CallsTypeOK
<1>5. call'[h] = c /\ call' \in [Calls -> CallRows(Ops, Args, Gots, Places)] /\ OthersStay(h)
  BY <1>3, <1>4 DEF CallsTypeOK, OthersStay
<1> QED  BY <1>3, <1>5 DEF SameRequest

LEMMA AnswerEffect ==
    ASSUME NEW Ops, NEW Args, NEW Gots, NEW Places, CallsTypeOK(Ops, Args, Gots, Places),
           NEW h \in Calls, NEW code, Answer(h, code)
    PROVE  /\ call' \in [Calls -> CallRows(Ops, Args, Gots, Places)]
           /\ OthersStay(h) /\ call'[h].at = "done"
<1>1. PICK c : c = [Idle EXCEPT !.at = "done"]
  OBVIOUS
<1>2. c \in CallRows(Ops, Args, Gots, Places) /\ c.at = "done"
  BY <1>1 DEF CallRows, Idle
<1>3. call' = [call EXCEPT ![h] = c]
  BY <1>1 DEF Answer
<1> QED  BY <1>2, <1>3 DEF CallsTypeOK, OthersStay

\* The route: the request is refused, or it starts as it was sent.
LEMMA AdmitEffect ==
    ASSUME NEW Ops, NEW Args, NEW Gots, NEW Places, CallsTypeOK(Ops, Args, Gots, Places),
           NEW h \in Calls, NEW op \in Ops, NEW arg \in Args, NEW key \in Keys \union {Null}, NEW entitled,
           NEW place \in Places \union {"begin"}, Admit(h, op, arg, key, entitled, place)
    PROVE  /\ CallsTypeOK(Ops, Args, Gots, Places)' /\ OthersStay(h) /\ call[h].at = "idle" /\ idem' = idem
           /\ \/ call'[h].at = "done"
              \/ /\ entitled /\ call'[h].at = place /\ call'[h].op = op /\ call'[h].arg = arg
                 /\ call'[h].key = key /\ call'[h].got = Null
<1>1. call[h].at = "idle" /\ idem' = idem
  BY DEF Admit
<1>2. CASE Answer(h, "STAFF_FORBIDDEN")
  BY <1>1, <1>2, AnswerEffect DEF CallsTypeOK
<1>3. CASE entitled /\ call' = [call EXCEPT ![h] = [Idle EXCEPT !.at = place, !.op = op, !.arg = arg, !.key = key]]
  <2>1. PICK c : c = [Idle EXCEPT !.at = place, !.op = op, !.arg = arg, !.key = key]
    OBVIOUS
  <2>2. /\ c \in CallRows(Ops, Args, Gots, Places)
        /\ c.at = place /\ c.op = op /\ c.arg = arg /\ c.key = key /\ c.got = Null
    BY <2>1 DEF CallRows, Idle
  <2>3. call' = [call EXCEPT ![h] = c]
    BY <1>3, <2>1
  <2>4. call'[h] = c /\ call' \in [Calls -> CallRows(Ops, Args, Gots, Places)] /\ OthersStay(h)
    BY <2>2, <2>3 DEF CallsTypeOK, OthersStay
  <2> QED  BY <1>1, <1>3, <2>2, <2>4 DEF CallsTypeOK
<1> QED  BY <1>2, <1>3 DEF Admit

\* begin(): the request goes on with a record of its own, or it is answered.
LEMMA BeginEffect ==
    ASSUME NEW Ops, NEW Args, NEW Gots, NEW Places, CallsTypeOK(Ops, Args, Gots, Places),
           NEW h \in Calls, call[h].op \in Ops, call[h].arg \in Args, call[h].key \in Keys,
           NEW place \in Places, Begin(h, place)
    PROVE  /\ CallsTypeOK(Ops, Args, Gots, Places)' /\ OthersStay(h) /\ call[h].at = "begin"
           /\ CompletesAtMost({})
           /\ \/ call'[h].at = "done"
              \/ /\ call'[h].at = place /\ call'[h].op = call[h].op /\ call'[h].arg = call[h].arg
                 /\ call'[h].key = call[h].key /\ call'[h].got = call[h].got
<1> DEFINE s == Scope(h)
           row == Record(s)
           hash == call[h].arg
<1>1. call[h].at = "begin" /\ s \in Ops \X Keys /\ NoRow \in Rows(Args, {"OK", "ERROR"})
  BY DEF Begin, Scope, NoRow, Rows, Statuses
<1>2. row \in Rows(Args, {"OK", "ERROR"}) /\ row.generation + 1 \in Nat
  BY <1>1 DEF Record, CallsTypeOK, Rows
<1>3. ASSUME idem' = Write(s, Claim(row, hash)),
             call' = [call EXCEPT ![h] = [@ EXCEPT !.at = place, !.generation = row.generation + 1]]
      PROVE  /\ CallsTypeOK(Ops, Args, Gots, Places)' /\ OthersStay(h) /\ CompletesAtMost({})
             /\ call'[h].at = place /\ call'[h].op = call[h].op /\ call'[h].arg = call[h].arg
             /\ call'[h].key = call[h].key /\ call'[h].got = call[h].got
  <2>1. PICK new : new = Claim(row, hash)
    OBVIOUS
  <2>2. new \in Rows(Args, {"OK", "ERROR"}) /\ new.status # "COMPLETED"
    BY <1>2, <2>1 DEF Claim, Rows, Statuses
  <2>3. /\ DOMAIN idem' = DOMAIN idem \union {s} /\ idem'[s] = new
        /\ \A r \in DOMAIN idem \ {s} : idem'[r] = idem[r]
    BY <1>3, <2>1 DEF Write
  <2>4. PICK c : c = [call[h] EXCEPT !.at = place, !.generation = row.generation + 1]
    OBVIOUS
  <2>5. /\ c \in CallRows(Ops, Args, Gots, Places) /\ c.at = place /\ c.op = call[h].op /\ c.arg = call[h].arg
        /\ c.key = call[h].key /\ c.got = call[h].got
    BY <1>2, <2>4 DEF CallsTypeOK, CallRows
  <2>6. call' = [call EXCEPT ![h] = c]
    BY <1>3, <2>4 DEF CallsTypeOK
  <2>7. call'[h] = c /\ call' \in [Calls -> CallRows(Ops, Args, Gots, Places)] /\ OthersStay(h)
    BY <2>5, <2>6 DEF CallsTypeOK, OthersStay
  <2>8. CompletesAtMost({})
    BY <2>2, <2>3 DEF CompletesAtMost
  <2>9. CallsTypeOK(Ops, Args, Gots, Places)'
    BY <1>1, <2>2, <2>3, <2>7 DEF CallsTypeOK
  <2> QED  BY <2>5, <2>7, <2>8, <2>9
<1>4. ASSUME NEW code, Answer(h, code), idem' = idem
      PROVE  /\ CallsTypeOK(Ops, Args, Gots, Places)' /\ OthersStay(h) /\ CompletesAtMost({}) /\ call'[h].at = "done"
  <2>1. call' \in [Calls -> CallRows(Ops, Args, Gots, Places)] /\ OthersStay(h) /\ call'[h].at = "done"
    BY <1>4, AnswerEffect
  <2> QED  BY <1>4, <2>1 DEF CallsTypeOK, CompletesAtMost
<1> QED  BY <1>1, <1>3, <1>4 DEF Begin

\* complete() and fail(): the request is answered, and only complete() completes.
LEMMA SettleEffect ==
    ASSUME NEW Ops, NEW Args, NEW Gots, NEW Places, CallsTypeOK(Ops, Args, Gots, Places),
           NEW h \in Calls, CompleteRecord(h) \/ FailRecord(h)
    PROVE  /\ CallsTypeOK(Ops, Args, Gots, Places)' /\ OthersStay(h) /\ call'[h].at = "done"
           /\ call[h].at \in {"complete", "fail"}
           /\ CompletesAtMost(IF call[h].at = "complete" THEN {Scope(h)} ELSE {})
<1> DEFINE s == Scope(h)
           g == call[h].generation
<1>1. g \in Nat
  BY DEF CallsTypeOK, CallRows
<1>2. "OK" \in {"OK", "ERROR"} \union {Null} /\ "ERROR" \in {"OK", "ERROR"} \union {Null}
  OBVIOUS
<1>3. call' \in [Calls -> CallRows(Ops, Args, Gots, Places)] /\ OthersStay(h) /\ call'[h].at = "done"
  BY AnswerEffect DEF CompleteRecord, FailRecord
<1>4. CASE CompleteRecord(h)
  <2>1. call[h].at = "complete" /\ idem' = [idem EXCEPT ![s] = Complete(@, g, "OK")]
    BY <1>4 DEF CompleteRecord
  <2>2. ASSUME NEW r \in DOMAIN idem
        PROVE  /\ idem'[r] \in Rows(Args, {"OK", "ERROR"})
               /\ r # s => idem'[r] = idem[r]
    <3>1. PICK row : row = idem[r]
      OBVIOUS
    <3>2. row \in Rows(Args, {"OK", "ERROR"})
      BY <3>1 DEF CallsTypeOK
    <3>3. Complete(row, g, "OK") \in Rows(Args, {"OK", "ERROR"})
      BY <1>1, <3>2 DEF Complete, Rows, Statuses
    <3> QED  BY <2>1, <3>1, <3>2, <3>3
  <2>3. DOMAIN idem' = DOMAIN idem
    BY <2>1
  <2>4. CallsTypeOK(Ops, Args, Gots, Places)'
    BY <1>3, <2>2, <2>3 DEF CallsTypeOK
  <2>5. CompletesAtMost({s})
    BY <2>2, <2>3 DEF CompletesAtMost
  <2> QED  BY <1>3, <2>1, <2>4, <2>5
<1>5. CASE FailRecord(h)
  <2>1. PICK b \in BOOLEAN : b = (call[h].got = "retryable")
    OBVIOUS
  <2>2. call[h].at = "fail" /\ idem' = [idem EXCEPT ![s] = Fail(@, g, b, "ERROR")]
    BY <1>5, <2>1 DEF FailRecord
  <2>3. ASSUME NEW r \in DOMAIN idem
        PROVE  /\ idem'[r] \in Rows(Args, {"OK", "ERROR"})
               /\ idem'[r].status = "COMPLETED" => idem[r].status = "COMPLETED"
    <3>1. PICK row : row = idem[r]
      OBVIOUS
    <3>2. row \in Rows(Args, {"OK", "ERROR"})
      BY <3>1 DEF CallsTypeOK
    <3>3. /\ Fail(row, g, b, "ERROR") \in Rows(Args, {"OK", "ERROR"})
          /\ Fail(row, g, b, "ERROR").status = "COMPLETED" => row.status = "COMPLETED"
      BY <1>1, <3>2 DEF Fail, Rows, Statuses
    <3> QED  BY <2>2, <3>1, <3>2, <3>3
  <2>4. DOMAIN idem' = DOMAIN idem
    BY <2>2
  <2>5. CallsTypeOK(Ops, Args, Gots, Places)'
    BY <1>3, <2>3, <2>4 DEF CallsTypeOK
  <2>6. CompletesAtMost({})
    BY <2>3, <2>4 DEF CompletesAtMost
  <2> QED  BY <1>3, <2>2, <2>5, <2>6
<1> QED  BY <1>4, <1>5

\* A statement fails, or the process dies.
LEMMA FaultEffect ==
    ASSUME NEW Ops, NEW Args, NEW Gots, NEW Places, CallsTypeOK(Ops, Args, Gots, Places),
           NEW h \in Calls, StatementFails(h) \/ ProcessDies(h)
    PROVE  /\ CallsTypeOK(Ops, Args, Gots, Places)' /\ OthersStay(h) /\ idem' = idem
           /\ call[h].at \notin {"idle", "done"}
           /\ call'[h].at = "done" \/ (call'[h].at = "fail" /\ SameRequest(h) /\ call[h].at # "begin")
<1>1. idem' = idem /\ call[h].at \notin {"idle", "done"}
  BY DEF StatementFails, ProcessDies
<1>2. CASE StatementFails(h)
  <2>1. Goto(h, "fail", "retryable") /\ call[h].at # "begin"
    BY <1>2 DEF StatementFails, Throws
  <2>2. /\ call' \in [Calls -> CallRows(Ops, Args, Gots, Places)]
        /\ OthersStay(h) /\ SameRequest(h) /\ call'[h].at = "fail"
    BY <2>1, GotoEffect
  <2> QED  BY <1>1, <2>1, <2>2 DEF CallsTypeOK
<1>3. CASE ProcessDies(h)
  <2>1. /\ call' \in [Calls -> CallRows(Ops, Args, Gots, Places)]
        /\ OthersStay(h) /\ call'[h].at = "done"
    BY <1>3, AnswerEffect DEF ProcessDies
  <2> QED  BY <1>1, <2>1 DEF CallsTypeOK
<1> QED  BY <1>2, <1>3

LEMMA RetryWindowEffect ==
    ASSUME NEW Ops, NEW Args, NEW Gots, NEW Places, CallsTypeOK(Ops, Args, Gots, Places), RetryWindowEnds
    PROVE  CallsTypeOK(Ops, Args, Gots, Places)' /\ call' = call /\ CompletesAtMost({})
<1>1. PICK s \in DOMAIN idem : idem' = [idem EXCEPT ![s] = Age(@)] /\ call' = call
  BY DEF RetryWindowEnds
<1>2. ASSUME NEW r \in DOMAIN idem
      PROVE  idem'[r] \in Rows(Args, {"OK", "ERROR"}) /\ idem'[r].status = idem[r].status
  <2>1. PICK row : row = idem[r]
    OBVIOUS
  <2>2. row \in Rows(Args, {"OK", "ERROR"})
    BY <2>1 DEF CallsTypeOK
  <2>3. Age(row) \in Rows(Args, {"OK", "ERROR"}) /\ Age(row).status = row.status
    BY <2>2 DEF Age, Rows
  <2> QED  BY <1>1, <2>1, <2>2, <2>3
<1>3. DOMAIN idem' = DOMAIN idem
  BY <1>1
<1> QED  BY <1>1, <1>2, <1>3 DEF CallsTypeOK, CompletesAtMost
=============================================================================
