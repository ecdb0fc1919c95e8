------------------------- MODULE ConvergenceProofs -------------------------
(***************************************************************************)
(* Proofs about convergence, for any number of schools, classes, calls and *)
(* keys, with and without faults: first about ConvergenceRequests, up to   *)
(* the approval, then about Convergence, from the first request to the     *)
(* review of a partial execution.                                          *)
(*                                                                         *)
(* What the first part shows of the handlers that lead to the approval is  *)
(* used as it stands in the second: an execution moves no request that is  *)
(* not decided, and a decided request is moved by nothing else.            *)
(*                                                                         *)
(* The invariant of an execution has four layers, each kept with the help  *)
(* of the ones before it: the types; who holds a request; which execution  *)
(* row belongs to it, and who may change its status; what the checkpoints  *)
(* say.                                                                    *)
(***************************************************************************)
EXTENDS Convergence, FiniteSetTheorems, TLAPS

-----------------------------------------------------------------------------
(* Up to the approval: what a handler's variables hold                     *)

\* What a handler's variables hold once it has begun.
Placed(h, v) ==
    v.at \notin {"start", "done"} =>
        /\ h \in Creators => v.school \in Schools /\ v.key \in CreateKeys
        /\ h \in Previewers => v.id \in Creators /\ v.row.status \in {"REQUESTED", "PREVIEW_READY"}
        /\ h \in Approvers => /\ v.id \in Creators /\ v.row.status \in {"PREVIEW_READY", "AWAITING_APPROVALS"}
                              /\ v.at # "reject" => v.plan \in Previewers
                              /\ v.at \in {"record", "stamp"} => v.row.plan = v.plan

TablesTyped(Executions) ==
    /\ request \in [Creators -> RequestRows(Executions)]
    /\ plan \in [Previewers -> PlanRows]
    /\ consent \subseteq [id : Creators, plan : Previewers, side : {"teacher", "school"}]
    /\ created \in [CreateKeys -> Rows(Schools, Creators)]

AllPlaced == \A h \in Calls : Placed(h, call[h])

\* Where Goto and Reply leave a handler.
Moved(v, location) == [v EXCEPT !.at = location]
Replied(v, code) == [Idle EXCEPT !.at = "done", !.reply = code, !.id = v.id]

Locations == {"start", "lookup", "member", "upsert", "classify", "insert", "complete",
              "fail", "winner", "verify", "block", "generate", "publish",
              "match", "record", "stamp", "reject", "done"}

\* A handler that moves to another statement keeps its variables.
LEMMA MovedTyped ==
    ASSUME NEW Executions, NEW v \in Locals(Executions), NEW location \in Locations
    PROVE  /\ Moved(v, location) \in Locals(Executions)
           /\ Moved(v, location).at = location
           /\ Moved(v, location).id = v.id /\ Moved(v, location).row = v.row
           /\ Moved(v, location).school = v.school /\ Moved(v, location).key = v.key
           /\ Moved(v, location).generation = v.generation
           /\ Moved(v, location).plan = v.plan /\ Moved(v, location).ballot = v.ballot
  BY DEF Moved, Locals, Locations

\* A handler that has not begun, and one that has answered, know nothing.
LEMMA IdleTyped ==
    ASSUME NEW Executions
    PROVE  /\ NoRequest \in RequestRows(Executions) /\ Idle \in Locals(Executions) /\ Idle.at = "start"
           /\ NoPlan \in PlanRows
  BY DEF RequestRows, RequestStatuses, NoRequest, Locals, Idle, NoPlan, PlanRows

LEMMA RepliedTyped ==
    ASSUME NEW Executions, NEW v \in Locals(Executions), NEW code \in {"OK", "REFUSED", "ERROR"}
    PROVE  Replied(v, code) \in Locals(Executions) /\ Replied(v, code).at = "done"
<1>1. v.id \in Creators \union {Null} /\ NoRequest \in RequestRows(Executions)
  BY IdleTyped DEF Locals
<1> QED  BY <1>1 DEF Replied, Idle, Locals

\* A step of one handler, with the tables typed.
LEMMA TypeMove ==
    ASSUME NEW Executions, ApprovalTypeOK(Executions), AllPlaced, NEW h \in Calls, NEW v \in Locals(Executions), Placed(h, v),
           call' = [call EXCEPT ![h] = v],
           TablesTyped(Executions)', UNCHANGED world
    PROVE  ApprovalTypeOK(Executions)' /\ AllPlaced'
<1>1. call' \in [Calls -> Locals(Executions)]
  BY DEF ApprovalTypeOK
<1>2. ApprovalTypeOK(Executions)'
  BY <1>1 DEF ApprovalTypeOK, TablesTyped, world
<1>3. \A q \in Calls : call'[q] = IF q = h THEN v ELSE call[q]
  BY DEF ApprovalTypeOK
<1>4. AllPlaced'
  BY <1>3 DEF AllPlaced, Placed
<1> QED  BY <1>2, <1>4

\* A handler may always answer, and move on where its variables fit.
LEMMA TypeReply ==
    ASSUME NEW Executions, ApprovalTypeOK(Executions), AllPlaced, NEW h \in Calls, NEW code \in {"OK", "REFUSED", "ERROR"},
           Reply(h, code),
           TablesTyped(Executions)', UNCHANGED world
    PROVE  ApprovalTypeOK(Executions)' /\ AllPlaced'
<1> DEFINE v == Replied(call[h], code)
<1>1. call[h] \in Locals(Executions)
  BY DEF ApprovalTypeOK
<1>2. v \in Locals(Executions) /\ v.at = "done"
  BY <1>1, RepliedTyped
<1>3. call' = [call EXCEPT ![h] = v]
  BY DEF Reply, Replied
<1> HIDE DEF v
<1>4. Placed(h, v)
  BY <1>2 DEF Placed
<1> QED  BY <1>2, <1>3, <1>4, TypeMove

LEMMA TypeGoto ==
    ASSUME NEW Executions, ApprovalTypeOK(Executions), AllPlaced, NEW h \in Calls, NEW location \in Locations, Goto(h, location),
           call[h].at \notin {"start", "done"}, location # "start",
           call[h].at = "reject" => location = "reject",
           location \in {"record", "stamp"} /\ h \in Approvers => call[h].row.plan = call[h].plan,
           TablesTyped(Executions)', UNCHANGED world
    PROVE  ApprovalTypeOK(Executions)' /\ AllPlaced'
<1> DEFINE v == Moved(call[h], location)
<1>1. call[h] \in Locals(Executions) /\ Placed(h, call[h])
  BY DEF ApprovalTypeOK, AllPlaced
<1>2. /\ v \in Locals(Executions) /\ v.at = location /\ v.id = call[h].id /\ v.row = call[h].row
      /\ v.school = call[h].school /\ v.key = call[h].key /\ v.plan = call[h].plan
  BY <1>1, MovedTyped
<1>3. call' = [call EXCEPT ![h] = v]
  BY DEF Goto, Moved
<1> HIDE DEF v
<1>4. Placed(h, v)
  BY <1>1, <1>2 DEF Placed
<1> QED  BY <1>2, <1>3, <1>4, TypeMove

\* The one writer of request states keeps rows rows.
LEMMA TransitionTyped ==
    ASSUME NEW Executions, request \in [Creators -> RequestRows(Executions)],
           NEW id \in Creators, NEW expected, NEW row \in RequestRows(Executions), Transition(id, expected, row)
    PROVE  request' \in [Creators -> RequestRows(Executions)]
  BY DEF Transition

\* TypeOKApproval and AllPlaced hold initially.
LEMMA TypeInit ==
    ASSUME NEW Executions, ApprovalInit
    PROVE  ApprovalTypeOK(Executions) /\ AllPlaced
<1>1. NoRow \in Rows(Schools, Creators)
  BY DEF NoRow, Rows, Statuses
<1>2. ApprovalTypeOK(Executions)
  BY <1>1, IdleTyped DEF ApprovalTypeOK, ApprovalInit, Tenants
<1>3. AllPlaced
  BY IdleTyped DEF AllPlaced, Placed, ApprovalInit
<1> QED  BY <1>2, <1>3

\* The handlers of create, preview, approve and reject keep the types.
LEMMA TypeCreate ==
    ASSUME NEW Executions, ApprovalTypeOK(Executions), AllPlaced, NEW h \in Creators, Creating(h)
    PROVE  ApprovalTypeOK(Executions)' /\ AllPlaced'
<1>0. /\ h \in Calls /\ call[h] \in Locals(Executions) /\ Placed(h, call[h]) /\ TablesTyped(Executions)
      /\ h \notin Previewers /\ h \notin Approvers
      /\ call[h].at \notin {"start", "done"} =>
             /\ call[h].school \in Schools /\ call[h].key \in CreateKeys
             /\ created[call[h].key] \in Rows(Schools, Creators)
  BY CallsAssumption DEF ApprovalTypeOK, AllPlaced, Placed, TablesTyped, Calls
<1>a. ASSUME NEW code \in {"OK", "REFUSED", "ERROR"}, Reply(h, code), TablesTyped(Executions)', UNCHANGED world
      PROVE  ApprovalTypeOK(Executions)' /\ AllPlaced'
  BY <1>0, <1>a, TypeReply
<1>b. ASSUME NEW location \in Locations \ {"start"}, Goto(h, location), TablesTyped(Executions)', UNCHANGED world,
             call[h].at \notin {"start", "done", "reject"}
      PROVE  ApprovalTypeOK(Executions)' /\ AllPlaced'
  BY <1>0, <1>b, TypeGoto
<1>c. ASSUME NEW v \in Locals(Executions), Placed(h, v), call' = [call EXCEPT ![h] = v], TablesTyped(Executions)', UNCHANGED world
      PROVE  ApprovalTypeOK(Executions)' /\ AllPlaced'
  BY <1>0, <1>c, TypeMove
<1>d. UNCHANGED <<request, plan, consent, created>> => TablesTyped(Executions)'
  BY <1>0 DEF TablesTyped
<1>e. {"lookup", "member", "upsert", "classify", "insert", "complete", "fail", "winner"} \subseteq Locations \ {"start"}
  BY DEF Locations
<1>1. ASSUME NEW school \in Schools, NEW key \in CreateKeys, CreateCheck(h, school, key)
      PROVE  ApprovalTypeOK(Executions)' /\ AllPlaced'
  <2>1. CASE Reply(h, "REFUSED")
    BY <1>1, <2>1, <1>a, <1>d DEF CreateCheck
  <2>2. CASE call' = [call EXCEPT ![h] = [@ EXCEPT !.at = "lookup", !.school = school, !.key = key]]
    <3> DEFINE v == [call[h] EXCEPT !.at = "lookup", !.school = school, !.key = key]
    <3>1. v \in Locals(Executions) /\ v.school = school /\ v.key = key
      BY <1>0 DEF Locals
    <3> HIDE DEF v
    <3>2. Placed(h, v)
      BY <1>0, <3>1 DEF Placed
    <3>3. call' = [call EXCEPT ![h] = v]
      BY <2>2 DEF v
    <3> QED  BY <1>1, <3>1, <3>2, <3>3, <1>c, <1>d DEF CreateCheck
  <2> QED  BY <1>1, <2>1, <2>2 DEF CreateCheck
<1>2. CASE CreateLookup(h)
  BY <1>2, <1>a, <1>b, <1>d, <1>e DEF CreateLookup
<1>3. CASE CreateMember(h)
  BY <1>3, <1>a, <1>b, <1>d, <1>e DEF CreateMember
<1>4. CASE CreateUpsert(h)
  <2>1. CASE Goto(h, "classify") /\ UNCHANGED created
    BY <1>4, <2>1, <1>b, <1>d, <1>e DEF CreateUpsert
  <2>2. CASE /\ created' = [created EXCEPT ![call[h].key] = Claim(@, call[h].school)]
             /\ call' = [call EXCEPT ![h] = [@ EXCEPT !.at = "insert",
                                                      !.generation = created[call[h].key].generation + 1]]
    <3> DEFINE g == created[call[h].key].generation + 1
               v == [call[h] EXCEPT !.at = "insert", !.generation = g]
    <3>0. /\ call[h].school \in Schools /\ call[h].key \in CreateKeys
          /\ created[call[h].key] \in Rows(Schools, Creators)
          /\ g \in Nat
      BY <1>0, <1>4 DEF CreateUpsert, Rows
    <3> HIDE DEF g
    <3>1. /\ v \in Locals(Executions) /\ v.school = call[h].school /\ v.key = call[h].key
      BY <1>0, <3>0 DEF Locals
    <3> HIDE DEF v
    <3>2. Placed(h, v)
      BY <1>0, <3>0, <3>1 DEF Placed
    <3>3. call' = [call EXCEPT ![h] = v]
      BY <2>2 DEF v, g
    <3>4. Claim(created[call[h].key], call[h].school) \in Rows(Schools, Creators)
      BY <3>0 DEF Claim, Rows, Statuses
    <3>5. TablesTyped(Executions)'
      BY <1>0, <1>4, <2>2, <3>4 DEF TablesTyped, CreateUpsert
    <3> QED  BY <1>4, <3>1, <3>2, <3>3, <3>5, <1>c DEF CreateUpsert
  <2> QED  BY <1>4, <2>1, <2>2 DEF CreateUpsert
<1>5. CASE CreateClassify(h)
  BY <1>5, <1>a, <1>d DEF CreateClassify
<1>6. CASE CreateInsert(h)
  <2>1. request' \in [Creators -> RequestRows(Executions)]
    <3>1. [NoRequest EXCEPT !.status = "REQUESTED", !.school = call[h].school] \in RequestRows(Executions)
      BY <1>0, <1>6, IdleTyped DEF CreateInsert, RequestRows, RequestStatuses
    <3> QED  BY <1>0, <1>6, <3>1 DEF CreateInsert, TablesTyped
  <2>2. TablesTyped(Executions)'
    BY <1>0, <1>6, <2>1 DEF CreateInsert, TablesTyped
  <2> QED  BY <1>6, <2>2, <1>b, <1>e DEF CreateInsert
<1>7. CASE CreateComplete(h)
  <2>1. Complete(created[call[h].key], call[h].generation, h) \in Rows(Schools, Creators)
    BY <1>0, <1>7 DEF CreateComplete, Complete, Rows, Statuses
  <2>2. TablesTyped(Executions)'
    BY <1>0, <1>7, <2>1 DEF CreateComplete, TablesTyped
  <2> QED  BY <1>7, <2>2, <1>a DEF CreateComplete
<1>8. CASE CreateFail(h)
  <2>1. Fail(created[call[h].key], call[h].generation, TRUE, Null) \in Rows(Schools, Creators)
    BY <1>0, <1>8 DEF CreateFail, Fail, Rows, Statuses
  <2>2. TablesTyped(Executions)'
    BY <1>0, <1>8, <2>1 DEF CreateFail, TablesTyped
  <2> QED  BY <1>8, <2>2, <1>b, <1>e DEF CreateFail
<1>9. CASE CreateWinner(h)
  BY <1>9, <1>a, <1>d DEF CreateWinner
<1> QED  BY <1>1, <1>2, <1>3, <1>4, <1>5, <1>6, <1>7, <1>8, <1>9 DEF Creating

LEMMA TypePreview ==
    ASSUME NEW Executions, ApprovalTypeOK(Executions), AllPlaced, NEW h \in Previewers, Previewing(h)
    PROVE  ApprovalTypeOK(Executions)' /\ AllPlaced'
<1>0. /\ h \in Calls /\ call[h] \in Locals(Executions) /\ Placed(h, call[h]) /\ TablesTyped(Executions)
      /\ h \notin Creators /\ h \notin Approvers
      /\ call[h].at \notin {"start", "done"} => call[h].id \in Creators /\ request[call[h].id] \in RequestRows(Executions)
      /\ busy \subseteq Classes
  BY CallsAssumption DEF ApprovalTypeOK, AllPlaced, Placed, TablesTyped, Calls
<1>a. ASSUME NEW code \in {"OK", "REFUSED", "ERROR"}, Reply(h, code), TablesTyped(Executions)', UNCHANGED world
      PROVE  ApprovalTypeOK(Executions)' /\ AllPlaced'
  BY <1>0, <1>a, TypeReply
<1>b. ASSUME NEW location \in Locations \ {"start"}, Goto(h, location), TablesTyped(Executions)', UNCHANGED world,
             call[h].at \notin {"start", "done", "reject"}
      PROVE  ApprovalTypeOK(Executions)' /\ AllPlaced'
  BY <1>0, <1>b, TypeGoto
<1>d. UNCHANGED <<request, plan, consent, created>> => TablesTyped(Executions)'
  BY <1>0 DEF TablesTyped
<1>1. ASSUME NEW id \in Creators, PreviewRead(h, id)
      PROVE  ApprovalTypeOK(Executions)' /\ AllPlaced'
  <2>1. CASE Reply(h, "REFUSED")
    BY <1>1, <2>1, <1>a, <1>d DEF PreviewRead
  <2>2. CASE /\ request[id].status \in {"REQUESTED", "PREVIEW_READY"}
             /\ call' = [call EXCEPT ![h] = [@ EXCEPT !.at = "verify", !.id = id, !.row = request[id]]]
    <3> DEFINE v == [call[h] EXCEPT !.at = "verify", !.id = id, !.row = request[id]]
    <3>1. v \in Locals(Executions) /\ v.id = id /\ v.row = request[id]
      BY <1>0 DEF Locals, TablesTyped
    <3> HIDE DEF v
    <3>2. Placed(h, v)
      BY <1>0, <2>2, <3>1 DEF Placed
    <3>3. call' = [call EXCEPT ![h] = v]
      BY <2>2 DEF v
    <3> QED  BY <1>0, <1>1, <3>1, <3>2, <3>3, <1>d, TypeMove DEF PreviewRead
  <2> QED  BY <1>1, <2>1, <2>2 DEF PreviewRead
<1>2. CASE PreviewVerify(h)
  BY <1>2, <1>b, <1>d DEF PreviewVerify, Locations
<1>3. ASSUME NEW row \in RequestRows(Executions), NEW code \in {"OK", "REFUSED"}, Reply(h, code),
             call[h].at \notin {"start", "done"},
             Transition(call[h].id, call[h].row.status, row), UNCHANGED <<plan, consent, created, world>>
      PROVE  ApprovalTypeOK(Executions)' /\ AllPlaced'
  <2>1. request' \in [Creators -> RequestRows(Executions)]
    BY <1>0, <1>3, TransitionTyped DEF TablesTyped
  <2> QED  BY <1>0, <1>3, <2>1, <1>a DEF TablesTyped
<1>4. CASE PreviewBlock(h)
  <2>1. [request[call[h].id] EXCEPT !.status = "BLOCKED"] \in RequestRows(Executions)
    BY <1>0, <1>4 DEF PreviewBlock, RequestRows, RequestStatuses
  <2> QED  BY <1>4, <2>1, <1>3 DEF PreviewBlock
<1>5. CASE PreviewGenerate(h)
  <2> DEFINE considered == {c \in Classes : home[c] = Source}
             n == Cardinality({p \in Previewers : plan[p].status # "ABSENT"})
  <2>1. n \in Nat
    <3>1. IsFiniteSet({p \in Previewers : plan[p].status # "ABSENT"})
      BY FiniteAssumption, FS_Subset
    <3> QED  BY <3>1, FS_CardinalityType
  <2> HIDE DEF n
  <2>2. [status |-> "DRAFT", id |-> call[h].id, rank |-> 1 + n, considered |-> considered,
         blocking |-> busy \intersect considered, decisions |-> NoDecisions] \in PlanRows
    BY <1>0, <1>5, <2>1 DEF PreviewGenerate, PlanRows
  <2>3. TablesTyped(Executions)'
    BY <1>0, <1>5, <2>2 DEF PreviewGenerate, TablesTyped, n
  <2> QED  BY <1>5, <2>3, <1>b DEF PreviewGenerate, Locations
<1>6. CASE PreviewPublish(h)
  <2>1. [request[call[h].id] EXCEPT !.status = "PREVIEW_READY", !.plan = h] \in RequestRows(Executions)
    BY <1>0, <1>6 DEF PreviewPublish, RequestRows, RequestStatuses
  <2> QED  BY <1>6, <2>1, <1>3 DEF PreviewPublish
<1> QED  BY <1>1, <1>2, <1>4, <1>5, <1>6 DEF Previewing

LEMMA TypeApprove ==
    ASSUME NEW Executions, ApprovalTypeOK(Executions), AllPlaced, NEW h \in Approvers, Approving(h)
    PROVE  ApprovalTypeOK(Executions)' /\ AllPlaced'
<1>0. /\ h \in Calls /\ call[h] \in Locals(Executions) /\ Placed(h, call[h]) /\ TablesTyped(Executions)
      /\ h \notin Creators /\ h \notin Previewers
      /\ call[h].at \notin {"start", "done"} => call[h].id \in Creators /\ request[call[h].id] \in RequestRows(Executions)
      /\ call[h].at \notin {"start", "done", "reject"} => call[h].plan \in Previewers /\ plan[call[h].plan] \in PlanRows
  BY CallsAssumption DEF ApprovalTypeOK, AllPlaced, Placed, TablesTyped, Calls
<1>a. ASSUME NEW code \in {"OK", "REFUSED", "ERROR"}, Reply(h, code), TablesTyped(Executions)', UNCHANGED world
      PROVE  ApprovalTypeOK(Executions)' /\ AllPlaced'
  BY <1>0, <1>a, TypeReply
<1>c. ASSUME NEW v \in Locals(Executions), Placed(h, v), call' = [call EXCEPT ![h] = v],
             UNCHANGED <<request, plan, consent, created, world>>
      PROVE  ApprovalTypeOK(Executions)' /\ AllPlaced'
  BY <1>0, <1>c, TypeMove DEF TablesTyped
<1>d. UNCHANGED <<request, plan, consent, created>> => TablesTyped(Executions)'
  BY <1>0 DEF TablesTyped
<1>1. ASSUME NEW id \in Creators, NEW p \in Previewers, NEW ballot \in Ballots \union {NoDecisions},
             ApproveRead(h, id, p, ballot)
      PROVE  ApprovalTypeOK(Executions)' /\ AllPlaced'
  <2>1. CASE Reply(h, "REFUSED")
    BY <1>1, <2>1, <1>a, <1>d DEF ApproveRead
  <2>2. CASE /\ request[id].status \in {"PREVIEW_READY", "AWAITING_APPROVALS"}
             /\ call' = [call EXCEPT ![h] = [@ EXCEPT !.at = "match", !.id = id, !.row = request[id],
                                                      !.plan = p, !.ballot = ballot]]
    <3> DEFINE v == [call[h] EXCEPT !.at = "match", !.id = id, !.row = request[id], !.plan = p, !.ballot = ballot]
    <3>1. v \in Locals(Executions) /\ v.at = "match" /\ v.id = id /\ v.row = request[id] /\ v.plan = p
      BY <1>0 DEF Locals, TablesTyped
    <3> HIDE DEF v
    <3>2. Placed(h, v)
      BY <1>0, <2>2, <3>1 DEF Placed
    <3>3. call' = [call EXCEPT ![h] = v]
      BY <2>2 DEF v
    <3> QED  BY <1>1, <3>1, <3>2, <3>3, <1>c DEF ApproveRead
  <2> QED  BY <1>1, <2>1, <2>2 DEF ApproveRead
<1>2. CASE ApproveMatch(h)
  <2>1. CASE Reply(h, "REFUSED")
    BY <1>2, <2>1, <1>a, <1>d DEF ApproveMatch
  <2>2. CASE ~Reply(h, "REFUSED")
    <3> DEFINE ballot == IF call[h].ballot = NoDecisions THEN plan[call[h].row.plan].decisions ELSE call[h].ballot
               v == [call[h] EXCEPT !.at = "record", !.ballot = ballot]
    <3>0. call[h].row.plan = call[h].plan /\ call[h].at = "match"
      BY <1>2, <2>2 DEF ApproveMatch
    <3>1. ballot \in Ballots \union {NoDecisions}
      BY <1>0, <3>0 DEF Locals, PlanRows
    <3>2. call' = [call EXCEPT ![h] = v]
      BY <1>2, <2>2 DEF ApproveMatch
    <3> HIDE DEF ballot
    <3>3. /\ v \in Locals(Executions) /\ v.at = "record" /\ v.id = call[h].id /\ v.row = call[h].row
          /\ v.plan = call[h].plan
      BY <1>0, <3>1 DEF Locals
    <3> HIDE DEF v
    <3>4. Placed(h, v)
      BY <1>0, <3>0, <3>3 DEF Placed
    <3> QED  BY <1>2, <3>2, <3>3, <3>4, <1>c DEF ApproveMatch
  <2> QED  BY <2>1, <2>2
<1>3. CASE ApproveRecord(h)
  <2>1. [plan[call[h].plan] EXCEPT !.status = "CONFIRMED", !.decisions = call[h].ballot] \in PlanRows
    BY <1>0, <1>3 DEF ApproveRecord, PlanRows, Locals
  <2>2. TablesTyped(Executions)'
    BY <1>0, <1>3, <2>1 DEF ApproveRecord, TablesTyped
  <2>3. call[h].row.plan = call[h].plan
    BY <1>0, <1>3 DEF ApproveRecord, Placed
  <2> QED  BY <1>0, <1>3, <2>2, <2>3, TypeGoto DEF ApproveRecord, Locations
<1>4. CASE ApproveStamp(h)
  <2> DEFINE row == [request[call[h].id] EXCEPT !.status  = IF Approved(h) THEN "APPROVED" ELSE "AWAITING_APPROVALS",
                                                !.teacher = @ \/ Side(h) = "teacher",
                                                !.admin   = @ \/ Side(h) = "school"]
  <2>1. row \in RequestRows(Executions)
    BY <1>0, <1>4 DEF ApproveStamp, RequestRows, RequestStatuses
  <2>2. request' \in [Creators -> RequestRows(Executions)]
    <3>1. Transition(call[h].id, call[h].row.status, row)
      BY <1>4 DEF ApproveStamp
    <3> HIDE DEF row
    <3> QED  BY <1>0, <1>4, <2>1, <3>1, TransitionTyped DEF TablesTyped, ApproveStamp
  <2>3. consent' \subseteq [id : Creators, plan : Previewers, side : {"teacher", "school"}]
    BY <1>0, <1>4 DEF ApproveStamp, TablesTyped, Side
  <2>4. TablesTyped(Executions)'
    BY <1>0, <1>4, <2>2, <2>3 DEF TablesTyped, ApproveStamp
  <2>5. PICK code \in {"OK", "REFUSED"} : Reply(h, code)
    BY <1>4 DEF ApproveStamp, Answer
  <2> QED  BY <1>4, <2>4, <2>5, <1>a DEF ApproveStamp
<1>5. ASSUME NEW id \in Creators, RejectRead(h, id)
      PROVE  ApprovalTypeOK(Executions)' /\ AllPlaced'
  <2>1. CASE Reply(h, "REFUSED")
    BY <1>5, <2>1, <1>a, <1>d DEF RejectRead
  <2>2. CASE /\ request[id].status \in {"PREVIEW_READY", "AWAITING_APPROVALS"}
             /\ call' = [call EXCEPT ![h] = [@ EXCEPT !.at = "reject", !.id = id, !.row = request[id]]]
    <3> DEFINE v == [call[h] EXCEPT !.at = "reject", !.id = id, !.row = request[id]]
    <3>1. v \in Locals(Executions) /\ v.at = "reject" /\ v.id = id /\ v.row = request[id]
      BY <1>0 DEF Locals, TablesTyped
    <3> HIDE DEF v
    <3>2. Placed(h, v)
      BY <1>0, <2>2, <3>1 DEF Placed
    <3>3. call' = [call EXCEPT ![h] = v]
      BY <2>2 DEF v
    <3> QED  BY <1>5, <3>1, <3>2, <3>3, <1>c DEF RejectRead
  <2> QED  BY <1>5, <2>1, <2>2 DEF RejectRead
<1>6. CASE Reject(h)
  <2>1. [request[call[h].id] EXCEPT !.status = "REJECTED"] \in RequestRows(Executions)
    BY <1>0, <1>6 DEF Reject, RequestRows, RequestStatuses
  <2>2. request' \in [Creators -> RequestRows(Executions)]
    BY <1>0, <1>6, <2>1, TransitionTyped DEF TablesTyped, Reject
  <2>3. PICK code \in {"OK", "REFUSED"} : Reply(h, code)
    BY <1>6 DEF Reject, Answer
  <2> QED  BY <1>0, <1>6, <2>2, <2>3, <1>a DEF TablesTyped, Reject
<1> QED  BY <1>1, <1>2, <1>3, <1>4, <1>5, <1>6 DEF Approving

\* Tenants, memberships, sign-ins and the retry window.
LEMMA TypeMeanwhile ==
    ASSUME NEW Executions, ApprovalTypeOK(Executions), AllPlaced, Meanwhile
    PROVE  ApprovalTypeOK(Executions)' /\ AllPlaced'
<1> USE DEF ApprovalTypeOK, AllPlaced
<1>1. ASSUME NEW t \in Tenants, TenantStatusChange(t) PROVE ApprovalTypeOK(Executions)' /\ AllPlaced'
  BY <1>1 DEF TenantStatusChange
<1>2. ASSUME NEW t \in Tenants, MembershipChange(t) PROVE ApprovalTypeOK(Executions)' /\ AllPlaced'
  BY <1>2 DEF MembershipChange
<1>3. ASSUME NEW c \in Classes, SignIn(c) PROVE ApprovalTypeOK(Executions)' /\ AllPlaced'
  BY <1>3, VolatileAssumption DEF SignIn
<1>4. ASSUME NEW c \in Classes, AttemptsChange(c) PROVE ApprovalTypeOK(Executions)' /\ AllPlaced'
  BY <1>4 DEF AttemptsChange
<1>5. ASSUME NEW k \in CreateKeys, CreateWindowElapses(k) PROVE ApprovalTypeOK(Executions)' /\ AllPlaced'
  <2>1. Age(created[k]) \in Rows(Schools, Creators)
    BY DEF Age, Rows
  <2> QED  BY <1>5, <2>1 DEF CreateWindowElapses, world
<1> QED  BY <1>1, <1>2, <1>3, <1>4, <1>5 DEF Meanwhile

LEMMA TypeStep ==
    ASSUME NEW Executions, ApprovalTypeOK(Executions), AllPlaced, [ApprovalNext]_approvalVars
    PROVE  ApprovalTypeOK(Executions)' /\ AllPlaced'
<1>1. ASSUME NEW h \in Calls, CallDies(h) PROVE ApprovalTypeOK(Executions)' /\ AllPlaced'
  <2>1. TablesTyped(Executions)'
    BY <1>1 DEF ApprovalTypeOK, TablesTyped, CallDies
  <2> QED  BY <1>1, <2>1, TypeReply DEF CallDies
<1>2. CASE UNCHANGED approvalVars
  BY <1>2 DEF ApprovalTypeOK, AllPlaced, approvalVars, world
<1> QED  BY <1>1, <1>2, TypeCreate, TypePreview, TypeApprove, TypeMeanwhile DEF ApprovalNext

\* The tables and the variables of every handler keep their types.
THEOREM TypeCorrect == ApprovalSpec => []TypeOKApproval
<1>1. ApprovalInit => TypeOKApproval /\ AllPlaced
  BY TypeInit DEF TypeOKApproval
<1>2. TypeOKApproval /\ AllPlaced /\ [ApprovalNext]_approvalVars => TypeOKApproval' /\ AllPlaced'
  BY TypeStep DEF TypeOKApproval
<1> QED  BY <1>1, <1>2, PTL DEF ApprovalSpec

-----------------------------------------------------------------------------
(* What a step may do to a request and to a plan                           *)

Consented(id, side) == \E p \in Previewers : [id |-> id, plan |-> p, side |-> side] \in consent

Opened(id) ==
    /\ request[id].status = "ABSENT"
    /\ \E school \in Schools :
           /\ ActiveFor(school) = {}
           /\ request'[id] = [NoRequest EXCEPT !.status = "REQUESTED", !.school = school]

Previewed(id) ==
    /\ request[id].status \in {"REQUESTED", "PREVIEW_READY"}
    /\ \/ request'[id] = [request[id] EXCEPT !.status = "BLOCKED"]
       \/ \E p \in Previewers : request'[id] = [request[id] EXCEPT !.status = "PREVIEW_READY", !.plan = p]

FirstApproval(id) ==
    /\ request[id].status = "PREVIEW_READY"
    /\ \E side \in {"teacher", "school"} :
           /\ request'[id] = [request[id] EXCEPT !.status  = "AWAITING_APPROVALS",
                                                 !.teacher = (side = "teacher"),
                                                 !.admin   = (side = "school")]
           /\ \E p \in Previewers : [id |-> id, plan |-> p, side |-> side] \in consent'

SecondApproval(id) ==
    /\ request[id].status = "AWAITING_APPROVALS"
    /\ plan[request[id].plan].status = "CONFIRMED"
    /\ request'[id] = [request[id] EXCEPT !.status = "APPROVED", !.teacher = TRUE, !.admin = TRUE]
    /\ \E side \in {"teacher", "school"} :
           /\ [id |-> id, plan |-> request[id].plan, side |-> side] \in consent'
           /\ side = "teacher" => request[id].admin
           /\ side = "school" => request[id].teacher

Rejected(id) ==
    /\ request[id].status \in {"PREVIEW_READY", "AWAITING_APPROVALS"}
    /\ request'[id] = [request[id] EXCEPT !.status = "REJECTED"]

\* What execute and rollback review may do to a request: see ConvergenceProofs.
Executed(id) ==
    /\ request[id].status \in Decided \ TerminalStatuses
    /\ request'[id].status \in Decided \ {"APPROVED"}
    /\ request'[id].school = request[id].school /\ request'[id].plan = request[id].plan
    /\ request'[id].teacher = request[id].teacher /\ request'[id].admin = request[id].admin

RequestMove(id) == Executed(id) \/ Opened(id) \/ Previewed(id) \/ FirstApproval(id) \/ SecondApproval(id) \/ Rejected(id)

PlanMove(p) ==
    \/ plan'[p] = plan[p]
    \/ plan[p].status = "ABSENT" /\ plan'[p].status = "DRAFT"
    \/ plan[p].status = "DRAFT" /\ plan'[p].status = "CONFIRMED"

\* One request at a time moves, plans only move forward, and a consent stays.
Moves ==
    /\ \/ request' = request
       \/ \E id \in Creators : /\ RequestMove(id)
                               /\ \A other \in Creators \ {id} : request'[other] = request[other]
    /\ \A p \in Previewers : PlanMove(p)
    /\ consent \subseteq consent'

-----------------------------------------------------------------------------
(* The inductive invariant: a request by its state, a handler by what may  *)
(* have happened since it read                                             *)

RequestInv(id) ==
    /\ IF request[id].status = "ABSENT" THEN request[id].school = Null ELSE request[id].school \in Schools
    /\ request[id].status \in {"ABSENT", "REQUESTED", "PREVIEW_READY"} =>
           ~request[id].teacher /\ ~request[id].admin
    /\ request[id].status \in {"PREVIEW_READY", "AWAITING_APPROVALS"} \union Decided =>
           request[id].plan \in Previewers
    /\ request[id].status = "AWAITING_APPROVALS" => request[id].teacher # request[id].admin
    /\ request[id].teacher => Consented(id, "teacher")
    /\ request[id].admin => Consented(id, "school")
    /\ request[id].status \in Decided =>
           /\ request[id].teacher /\ request[id].admin
           /\ plan[request[id].plan].status = "CONFIRMED"
           /\ \E side \in {"teacher", "school"} :
                  [id |-> id, plan |-> request[id].plan, side |-> side] \in consent

Alone == \A i, j \in Creators : /\ request[i].status \notin TerminalStatuses
                                /\ request[j].status \notin TerminalStatuses
                                /\ request[i].school = request[j].school
                                /\ request[i].school # Null
                                => i = j

PlanInv(p) == plan[p].status = "ABSENT" => plan[p].id = Null

\* A row number is inserted once.
CreatorInv(h) ==
    call[h].at \in {"start", "lookup", "member", "upsert", "classify", "insert"} =>
        request[h].status = "ABSENT"

PreviewerInv(h) ==
    call[h].at \in {"start", "verify", "block", "generate"} => plan[h].status = "ABSENT"

\* A row read while it awaited the second approval is the row, as long as it awaits it.
ApproverInv(h) ==
    /\ call[h].at \in {"match", "record"} => plan[call[h].plan].status # "ABSENT"
    /\ call[h].at = "stamp" => plan[call[h].plan].status = "CONFIRMED"
    /\ call[h].at \in {"match", "record", "stamp"} =>
           /\ call[h].row.status = "PREVIEW_READY" => ~call[h].row.teacher /\ ~call[h].row.admin
           /\ call[h].row.status = "AWAITING_APPROVALS" =>
                  /\ request[call[h].id].status \in {"AWAITING_APPROVALS", "REJECTED"} \union Decided
                  /\ request[call[h].id].status = "AWAITING_APPROVALS" => request[call[h].id] = call[h].row

HandlerInv(h) ==
    /\ h \in Creators => CreatorInv(h)
    /\ h \in Previewers => PreviewerInv(h)
    /\ h \in Approvers => ApproverInv(h)

ApprovalInv(Executions) ==
    /\ ApprovalTypeOK(Executions) /\ AllPlaced
    /\ Alone
    /\ \A id \in Creators : RequestInv(id)
    /\ \A p \in Previewers : PlanInv(p)
    /\ \A h \in Calls : HandlerInv(h)

LEMMA InvInit ==
    ASSUME NEW Executions, ApprovalInit
    PROVE  ApprovalInv(Executions)
<1>1. \A id \in Creators : RequestInv(id)
  BY DEF ApprovalInit, RequestInv, NoRequest, Decided
<1>2. \A h \in Calls : HandlerInv(h)
  BY DEF ApprovalInit, HandlerInv, CreatorInv, PreviewerInv, ApproverInv, NoRequest, NoPlan, Idle
<1>3. Alone /\ \A p \in Previewers : PlanInv(p)
  BY DEF ApprovalInit, Alone, PlanInv, NoRequest, NoPlan
<1> QED  BY <1>1, <1>2, <1>3, TypeInit DEF ApprovalInv

\* A handler that takes no step keeps its invariant whatever the others do.
LEMMA HandlerStays ==
    ASSUME NEW Executions, ApprovalInv(Executions), Moves, NEW h \in Calls, call'[h] = call[h],
           h \in Creators /\ request[h].status = "ABSENT" => request'[h].status = "ABSENT",
           h \in Previewers /\ plan[h].status = "ABSENT" => plan'[h].status = "ABSENT"
    PROVE  HandlerInv(h)'
<1>1. HandlerInv(h) /\ Placed(h, call[h])
  BY DEF ApprovalInv, AllPlaced
<1>2. CASE h \in Creators
  BY <1>1, <1>2, CallsAssumption DEF HandlerInv, CreatorInv
<1>3. CASE h \in Previewers
  BY <1>1, <1>3, CallsAssumption DEF HandlerInv, PreviewerInv
<1>4. CASE h \in Approvers
  <2>1. ASSUME call[h].at \in {"match", "record", "stamp"}
        PROVE  /\ call[h].at \in {"match", "record"} => plan'[call[h].plan].status # "ABSENT"
               /\ call[h].at = "stamp" => plan'[call[h].plan].status = "CONFIRMED"
    <3>1. call[h].plan \in Previewers /\ PlanMove(call[h].plan)
      BY <1>1, <1>4, <2>1 DEF Moves, Placed
    <3> QED  BY <1>1, <1>4, <2>1, <3>1 DEF PlanMove, HandlerInv, ApproverInv
  <2>2. ASSUME call[h].at \in {"match", "record", "stamp"}, call[h].row.status = "AWAITING_APPROVALS"
        PROVE  /\ request'[call[h].id].status \in {"AWAITING_APPROVALS", "REJECTED"} \union Decided
               /\ request'[call[h].id].status = "AWAITING_APPROVALS" => request'[call[h].id] = call[h].row
    <3> DEFINE id == call[h].id
    <3>1. /\ id \in Creators
          /\ request[id].status \in {"AWAITING_APPROVALS", "REJECTED"} \union Decided
          /\ request[id].status = "AWAITING_APPROVALS" => request[id] = call[h].row
      BY <1>1, <1>4, <2>2 DEF Placed, HandlerInv, ApproverInv
    <3>2. CASE request'[id] = request[id]
      BY <3>1, <3>2
    <3>3. CASE RequestMove(id)
      <4>1. request[id] \in RequestRows(Executions)
        BY <3>1 DEF ApprovalInv, ApprovalTypeOK
      <4>2. request'[id].status \in {"REJECTED"} \union Decided
        <5>1. CASE Executed(id)
          BY <5>1 DEF Executed
        <5>2. CASE ~Executed(id)
          BY <3>1, <3>3, <4>1, <5>2 DEF RequestMove, Opened, Previewed, FirstApproval, SecondApproval, Rejected,
                                        Decided, RequestRows
        <5> QED  BY <5>1, <5>2
      <4> QED  BY <4>2 DEF Decided
    <3> QED  BY <3>1, <3>2, <3>3 DEF Moves
  <2> QED  BY <1>1, <1>4, <2>1, <2>2, CallsAssumption DEF HandlerInv, ApproverInv
<1> QED  BY <1>2, <1>3, <1>4 DEF Calls, Approvers

\* Whoever moves it, a request keeps its invariant.
LEMMA RequestKept ==
    ASSUME NEW Executions, ApprovalInv(Executions), Moves, NEW id \in Creators
    PROVE  RequestInv(id)'
<1>1. RequestInv(id) /\ request[id] \in RequestRows(Executions)
  BY DEF ApprovalInv, ApprovalTypeOK
<1>2. \A side \in {"teacher", "school"} : Consented(id, side) => Consented(id, side)'
  BY DEF Moves, Consented
<1>3. \A p \in Previewers : plan[p].status = "CONFIRMED" => plan'[p].status = "CONFIRMED"
  BY DEF Moves, PlanMove
<1>4. CASE request'[id] = request[id]
  <2>1. ASSUME request[id].status \in Decided
        PROVE  \E side \in {"teacher", "school"} :
                  [id |-> id, plan |-> request[id].plan, side |-> side] \in consent'
    BY <1>1, <2>1 DEF RequestInv, Moves
  <2>2. request[id].status \in Decided => plan'[request[id].plan].status = "CONFIRMED"
    BY <1>1, <1>3 DEF RequestInv
  <2> QED  BY <1>1, <1>2, <1>4, <2>1, <2>2 DEF RequestInv
<1>5. CASE Opened(id)
  BY <1>5 DEF Opened, RequestInv, NoRequest, Decided
<1>6. CASE Previewed(id)
  BY <1>1, <1>6 DEF Previewed, RequestInv, RequestRows, Decided
<1>7. CASE FirstApproval(id)
  BY <1>1, <1>7 DEF FirstApproval, RequestInv, Consented, RequestRows, Decided
<1>8. CASE SecondApproval(id)
  <2>1. /\ request'[id].status = "APPROVED" /\ request'[id].teacher /\ request'[id].admin
        /\ request'[id].plan = request[id].plan /\ request[id].plan \in Previewers
        /\ request'[id].school \in Schools
    BY <1>1, <1>8 DEF SecondApproval, RequestInv, RequestRows
  <2>2. Consented(id, "teacher")' /\ Consented(id, "school")'
    BY <1>1, <1>2, <1>8, <2>1 DEF SecondApproval, RequestInv, Consented
  <2>3. plan'[request[id].plan].status = "CONFIRMED"
    BY <1>3, <1>8, <2>1 DEF SecondApproval
  <2>4. request'[id].status \notin {"ABSENT", "REQUESTED", "PREVIEW_READY", "AWAITING_APPROVALS"}
    BY <2>1
  <2> QED  BY <1>8, <2>1, <2>2, <2>3, <2>4 DEF SecondApproval, RequestInv
<1>9. CASE Rejected(id)
  BY <1>1, <1>2, <1>9 DEF Rejected, RequestInv, RequestRows, Decided
<1>10. CASE Executed(id)
  <2>1. /\ request[id].status \in Decided /\ request'[id].status \in Decided
        /\ request'[id].plan = request[id].plan /\ request[id].plan \in Previewers
        /\ request'[id].teacher /\ request'[id].admin /\ request'[id].school \in Schools
    BY <1>1, <1>10 DEF Executed, RequestInv, Decided
  <2>2. Consented(id, "teacher")' /\ Consented(id, "school")'
    BY <1>1, <1>2, <2>1 DEF RequestInv
  <2>3. \E side \in {"teacher", "school"} : [id |-> id, plan |-> request'[id].plan, side |-> side] \in consent'
    BY <1>1, <2>1 DEF RequestInv, Moves
  <2>4. plan'[request'[id].plan].status = "CONFIRMED"
    BY <1>1, <1>3, <2>1 DEF RequestInv
  <2>5. request'[id].status \notin {"ABSENT", "REQUESTED", "PREVIEW_READY", "AWAITING_APPROVALS"}
    BY <2>1 DEF Decided
  <2> QED  BY <2>1, <2>2, <2>3, <2>4, <2>5 DEF RequestInv
<1> QED  BY <1>4, <1>5, <1>6, <1>7, <1>8, <1>9, <1>10 DEF Moves, RequestMove

\* The index: a request opens only for a school that has none under way.
LEMMA AloneKept ==
    ASSUME NEW Executions, ApprovalInv(Executions), Moves
    PROVE  Alone'
<1> SUFFICES ASSUME NEW i \in Creators, NEW j \in Creators,
                    request'[i].status \notin TerminalStatuses,
                    request'[j].status \notin TerminalStatuses,
                    request'[i].school = request'[j].school, request'[i].school # Null
             PROVE  i = j
  BY DEF Alone
<1>1. Alone /\ \A k \in Creators : request[k] \in RequestRows(Executions) /\ RequestInv(k)
  BY DEF ApprovalInv, ApprovalTypeOK
<1>2. ASSUME NEW k \in Creators, RequestMove(k), ~Opened(k)
      PROVE  request[k].status \notin TerminalStatuses /\ request'[k].school = request[k].school
  BY <1>1, <1>2 DEF RequestMove, Executed, Previewed, FirstApproval, SecondApproval, Rejected, RequestRows,
                    TerminalStatuses
<1>3. ASSUME NEW k \in Creators, NEW l \in Creators \ {k}, Opened(k), request'[l] = request[l],
             request'[l].status \notin TerminalStatuses, request'[l].school # Null
      PROVE  request'[k].school # request'[l].school
  BY <1>1, <1>3 DEF Opened, ActiveFor, NoRequest
<1>4. CASE request' = request
  BY <1>1, <1>4 DEF Alone
<1>5. ASSUME NEW id \in Creators, RequestMove(id),
             \A other \in Creators \ {id} : request'[other] = request[other], i # j
      PROVE  FALSE
  <2>1. CASE Opened(id)
    <3>1. CASE i # id /\ j # id
      BY <1>1, <1>5, <3>1 DEF Alone
    <3> QED  BY <1>3, <1>5, <2>1, <3>1
  <2>2. CASE ~Opened(id)
    BY <1>1, <1>2, <1>5, <2>2 DEF Alone
  <2> QED  BY <2>1, <2>2
<1> QED  BY <1>4, <1>5 DEF Moves

\* A step that keeps the three tables moves nothing.
LEMMA QuietMoves == UNCHANGED <<request, plan, consent>> => Moves
  BY DEF Moves, PlanMove

-----------------------------------------------------------------------------
(* Every handler's statement is such a step                                *)

LEMMA CreateMoves ==
    ASSUME NEW Executions, ApprovalInv(Executions), NEW h \in Creators, Creating(h)
    PROVE  /\ Moves /\ plan' = plan
           /\ \A other \in Creators \ {h} : request'[other] = request[other]
           /\ \A q \in Calls \ {h} : call'[q] = call[q]
           /\ HandlerInv(h)'
<1> DEFINE Opening == {"start", "lookup", "member", "upsert", "classify", "insert"}
<1>0. /\ call \in [Calls -> Locals(Executions)] /\ request \in [Creators -> RequestRows(Executions)]
      /\ h \in Calls /\ h \notin Previewers /\ h \notin Approvers
      /\ Placed(h, call[h]) /\ (call[h].at \in Opening => request[h].status = "ABSENT")
  BY CallsAssumption DEF ApprovalInv, ApprovalTypeOK, Calls, AllPlaced, HandlerInv, CreatorInv
<1>1. HandlerInv(h)' <=> (call'[h].at \in Opening => request'[h].status = "ABSENT")
  BY <1>0 DEF HandlerInv, CreatorInv
<1>a. ASSUME NEW v, call' = [call EXCEPT ![h] = v], UNCHANGED <<request, plan, consent>>,
             v.at \in Opening => call[h].at \in Opening
      PROVE  /\ Moves /\ plan' = plan /\ request' = request
             /\ \A q \in Calls \ {h} : call'[q] = call[q]
             /\ HandlerInv(h)'
  BY <1>0, <1>1, <1>a, QuietMoves
<1>b. ASSUME NEW code, Reply(h, code), UNCHANGED <<request, plan, consent>>
      PROVE  /\ Moves /\ plan' = plan /\ request' = request
             /\ \A q \in Calls \ {h} : call'[q] = call[q]
             /\ HandlerInv(h)'
  <2>1. Replied(call[h], code).at = "done" /\ call' = [call EXCEPT ![h] = Replied(call[h], code)]
    BY <1>b DEF Reply, Replied, Idle
  <2> QED  BY <1>a, <1>b, <2>1
<1>c. ASSUME NEW location \in Locations, Goto(h, location), UNCHANGED <<request, plan, consent>>,
             location \in Opening => call[h].at \in Opening
      PROVE  /\ Moves /\ plan' = plan /\ request' = request
             /\ \A q \in Calls \ {h} : call'[q] = call[q]
             /\ HandlerInv(h)'
  <2>1. Moved(call[h], location).at = location /\ call' = [call EXCEPT ![h] = Moved(call[h], location)]
    BY <1>0, <1>c, MovedTyped DEF Goto, Moved
  <2> QED  BY <1>a, <1>c, <2>1
<1>2. ASSUME NEW school \in Schools, NEW key \in CreateKeys, CreateCheck(h, school, key)
      PROVE  /\ Moves /\ plan' = plan /\ request' = request
             /\ \A q \in Calls \ {h} : call'[q] = call[q]
             /\ HandlerInv(h)'
  <2>1. CASE Reply(h, "REFUSED")
    BY <1>2, <2>1, <1>b DEF CreateCheck
  <2>2. CASE call' = [call EXCEPT ![h] = [@ EXCEPT !.at = "lookup", !.school = school, !.key = key]]
    BY <1>2, <2>2, <1>a DEF CreateCheck
  <2> QED  BY <1>2, <2>1, <2>2 DEF CreateCheck
<1>3. CASE CreateLookup(h)
  BY <1>3, <1>b, <1>c DEF CreateLookup, Locations
<1>4. CASE CreateMember(h)
  BY <1>4, <1>b, <1>c DEF CreateMember, Locations
<1>5. CASE CreateUpsert(h)
  <2>1. CASE Goto(h, "classify")
    BY <1>5, <2>1, <1>c DEF CreateUpsert, Locations
  <2>2. CASE call' = [call EXCEPT ![h] = [@ EXCEPT !.at = "insert",
                                                   !.generation = created[call[h].key].generation + 1]]
    BY <1>5, <2>2, <1>a DEF CreateUpsert
  <2> QED  BY <1>5, <2>1, <2>2 DEF CreateUpsert
<1>6. CASE CreateClassify(h)
  BY <1>6, <1>b DEF CreateClassify
<1>7. CASE CreateInsert(h)
  <2>1. CASE UNCHANGED request
    BY <1>7, <2>1, <1>c DEF CreateInsert, Locations
  <2>2. CASE /\ ActiveFor(call[h].school) = {}
             /\ request' = [request EXCEPT ![h] =
                              [NoRequest EXCEPT !.status = "REQUESTED", !.school = call[h].school]]
             /\ Goto(h, "complete")
    <3>1. Opened(h) /\ \A other \in Creators \ {h} : request'[other] = request[other]
      BY <1>0, <1>7, <2>2 DEF CreateInsert, Opened, Placed
    <3>2. Moves
      BY <1>7, <3>1 DEF Moves, RequestMove, PlanMove, CreateInsert
    <3>3. call' = [call EXCEPT ![h] = Moved(call[h], "complete")] /\ Moved(call[h], "complete").at = "complete"
      BY <1>0, <2>2, MovedTyped DEF Goto, Moved, Locations
    <3> QED  BY <1>0, <1>1, <1>7, <3>1, <3>2, <3>3 DEF CreateInsert
  <2> QED  BY <1>7, <2>1, <2>2 DEF CreateInsert
<1>8. CASE CreateComplete(h)
  BY <1>8, <1>b DEF CreateComplete
<1>9. CASE CreateFail(h)
  BY <1>9, <1>c DEF CreateFail, Locations
<1>10. CASE CreateWinner(h)
  BY <1>10, <1>b DEF CreateWinner
<1> QED  BY <1>2, <1>3, <1>4, <1>5, <1>6, <1>7, <1>8, <1>9, <1>10 DEF Creating

\* A transition moves one request, or none.
LEMMA TransitionMoves ==
    ASSUME DOMAIN request = Creators, NEW id \in Creators, NEW expected, NEW row,
           Transition(id, expected, row)
    PROVE  /\ \A other \in Creators \ {id} : request'[other] = request[other]
           /\ \/ request' = request
              \/ request[id].status = expected /\ request'[id] = row
  BY DEF Transition

LEMMA PreviewMoves ==
    ASSUME NEW Executions, ApprovalInv(Executions), NEW h \in Previewers, Previewing(h)
    PROVE  /\ Moves
           /\ \A p \in Previewers \ {h} : plan'[p] = plan[p]
           /\ \A q \in Calls \ {h} : call'[q] = call[q]
           /\ HandlerInv(h)'
<1> DEFINE Drafting == {"start", "verify", "block", "generate"}
           Kept == /\ \A p \in Previewers \ {h} : plan'[p] = plan[p]
                   /\ \A q \in Calls \ {h} : call'[q] = call[q]
                   /\ HandlerInv(h)'
<1>0. /\ call \in [Calls -> Locals(Executions)] /\ request \in [Creators -> RequestRows(Executions)] /\ plan \in [Previewers -> PlanRows]
      /\ h \in Calls /\ h \notin Creators /\ h \notin Approvers
      /\ (call[h].at \in Drafting => plan[h].status = "ABSENT")
      /\ call[h].at \notin {"start", "done"} => /\ call[h].id \in Creators
                                                /\ call[h].row.status \in {"REQUESTED", "PREVIEW_READY"}
  BY CallsAssumption DEF ApprovalInv, ApprovalTypeOK, Calls, AllPlaced, HandlerInv, PreviewerInv, Placed
<1>1. HandlerInv(h)' <=> (call'[h].at \in Drafting => plan'[h].status = "ABSENT")
  BY <1>0 DEF HandlerInv, PreviewerInv
<1>a. ASSUME NEW v, call' = [call EXCEPT ![h] = v], UNCHANGED plan,
             v.at \in Drafting => call[h].at \in Drafting
      PROVE  Kept
  BY <1>0, <1>1, <1>a
<1>b. ASSUME NEW code, Reply(h, code), UNCHANGED plan
      PROVE  Kept
  <2>1. Replied(call[h], code).at = "done" /\ call' = [call EXCEPT ![h] = Replied(call[h], code)]
    BY <1>b DEF Reply, Replied, Idle
  <2> QED  BY <1>a, <1>b, <2>1
<1>c. ASSUME NEW location \in Locations, Goto(h, location)
      PROVE  \E v : call' = [call EXCEPT ![h] = v] /\ v.at = location
  <2>1. Moved(call[h], location).at = location /\ call' = [call EXCEPT ![h] = Moved(call[h], location)]
    BY <1>0, <1>c, MovedTyped DEF Goto, Moved
  <2> QED  BY <2>1
<1> HIDE DEF Kept
<1>2. ASSUME NEW id \in Creators, PreviewRead(h, id)
      PROVE  Moves /\ Kept
  <2>1. CASE Reply(h, "REFUSED")
    BY <1>2, <2>1, <1>b, QuietMoves DEF PreviewRead
  <2>2. CASE call' = [call EXCEPT ![h] = [@ EXCEPT !.at = "verify", !.id = id, !.row = request[id]]]
    BY <1>2, <2>2, <1>a, QuietMoves DEF PreviewRead
  <2> QED  BY <1>2, <2>1, <2>2 DEF PreviewRead
<1>3. CASE PreviewVerify(h)
  <2>1. PICK location \in {"generate", "block"} : Goto(h, location)
    BY <1>3 DEF PreviewVerify
  <2>2. PICK v : call' = [call EXCEPT ![h] = v] /\ v.at = location
    BY <1>c, <2>1 DEF Locations
  <2> QED  BY <1>3, <2>2, <1>a, QuietMoves DEF PreviewVerify, Kept
<1>4. ASSUME NEW id \in Creators, RequestMove(id) \/ request' = request, UNCHANGED <<plan, consent>>,
             \A other \in Creators \ {id} : request'[other] = request[other]
      PROVE  Moves
  BY <1>4 DEF Moves, PlanMove
<1>5. CASE PreviewBlock(h)
  <2>1. RequestMove(call[h].id) \/ request' = request
    BY <1>0, <1>5, TransitionMoves DEF PreviewBlock, RequestMove, Previewed
  <2>2. \A other \in Creators \ {call[h].id} : request'[other] = request[other]
    BY <1>0, <1>5, TransitionMoves DEF PreviewBlock
  <2> QED  BY <1>0, <1>5, <1>b, <1>4, <2>1, <2>2 DEF PreviewBlock, Kept
<1>6. CASE PreviewGenerate(h)
  <2>1. plan'[h].status = "DRAFT" /\ \A p \in Previewers \ {h} : plan'[p] = plan[p]
    BY <1>0, <1>6 DEF PreviewGenerate
  <2>2. Moves
    BY <1>0, <1>6, <2>1 DEF Moves, PlanMove, PreviewGenerate
  <2>3. PICK v : call' = [call EXCEPT ![h] = v] /\ v.at = "publish"
    BY <1>6, <1>c DEF PreviewGenerate, Locations
  <2> QED  BY <1>0, <1>1, <2>1, <2>2, <2>3 DEF Kept
<1>7. CASE PreviewPublish(h)
  <2> DEFINE published == [request[call[h].id] EXCEPT !.status = "PREVIEW_READY", !.plan = h]
  <2>0. /\ Transition(call[h].id, call[h].row.status, published)
        /\ call[h].id \in Creators /\ call[h].row.status \in {"REQUESTED", "PREVIEW_READY"}
    BY <1>0, <1>7 DEF PreviewPublish
  <2> HIDE DEF published
  <2>3. \/ request' = request
        \/ request[call[h].id].status = call[h].row.status /\ request'[call[h].id] = published
    BY <1>0, <2>0, TransitionMoves
  <2>1. RequestMove(call[h].id) \/ request' = request
    BY <2>0, <2>3 DEF RequestMove, Previewed, published
  <2>2. \A other \in Creators \ {call[h].id} : request'[other] = request[other]
    BY <1>0, <1>7, TransitionMoves DEF PreviewPublish
  <2> QED  BY <1>0, <1>7, <1>b, <1>4, <2>1, <2>2 DEF PreviewPublish, Kept
<1> QED  BY <1>2, <1>3, <1>5, <1>6, <1>7 DEF Previewing, Kept

\* The stamp, on a row that is still in the state the approver read.
LEMMA StampMoves ==
    ASSUME NEW Executions, ApprovalInv(Executions), NEW h \in Approvers, ApproveStamp(h)
    PROVE  Moves
<1> DEFINE id == call[h].id
           side == Side(h)
           row == [request[id] EXCEPT !.status  = IF Approved(h) THEN "APPROVED" ELSE "AWAITING_APPROVALS",
                                      !.teacher = @ \/ Side(h) = "teacher",
                                      !.admin   = @ \/ Side(h) = "school"]
<1>0. /\ request \in [Creators -> RequestRows(Executions)] /\ id \in Creators /\ request[id] \in RequestRows(Executions)
      /\ call[h].row.status \in {"PREVIEW_READY", "AWAITING_APPROVALS"}
      /\ call[h].plan \in Previewers /\ call[h].row.plan = call[h].plan
      /\ plan[call[h].plan].status = "CONFIRMED"
      /\ call[h].row.status = "PREVIEW_READY" => ~call[h].row.teacher /\ ~call[h].row.admin
      /\ call[h].row.status = "AWAITING_APPROVALS" /\ request[id].status = "AWAITING_APPROVALS" =>
             request[id] = call[h].row
      /\ RequestInv(id)
      /\ side \in {"teacher", "school"}
  BY CallsAssumption DEF ApprovalInv, ApprovalTypeOK, Calls, AllPlaced, HandlerInv, ApproverInv, Placed,
                         ApproveStamp, Side
<1>1. Transition(id, call[h].row.status, row)
  BY <1>0 DEF ApproveStamp
<1>2. CASE request[id].status # call[h].row.status
  BY <1>2 DEF ApproveStamp, Transition, Moves, PlanMove
<1>3. CASE request[id].status = call[h].row.status
  <2>1. /\ request'[id] = row /\ \A other \in Creators \ {id} : request'[other] = request[other]
        /\ plan' = plan
        /\ consent' = consent \union {[id |-> id, plan |-> call[h].plan, side |-> side]}
    BY <1>0, <1>3 DEF ApproveStamp, Transition
  <2>2. \E p \in Previewers : [id |-> id, plan |-> p, side |-> side] \in consent'
    BY <1>0, <2>1
  <2>3. ASSUME RequestMove(id) \/ request' = request PROVE Moves
    BY <1>0, <2>1, <2>3 DEF Moves, PlanMove
  <2>4. CASE call[h].row.status = "PREVIEW_READY"
    <3>1. ~Approved(h) /\ ~request[id].teacher /\ ~request[id].admin
      BY <1>0, <1>3, <2>4 DEF Approved, RequestInv
    <3>2. row = [request[id] EXCEPT !.status  = "AWAITING_APPROVALS",
                                    !.teacher = (side = "teacher"),
                                    !.admin   = (side = "school")]
      BY <1>0, <3>1 DEF RequestRows
    <3>3. FirstApproval(id)
      BY <1>0, <1>3, <2>1, <2>2, <2>4, <3>2 DEF FirstApproval
    <3> QED  BY <2>3, <3>3 DEF RequestMove
  <2>5. CASE call[h].row.status = "AWAITING_APPROVALS"
    <3>1. /\ request[id] = call[h].row /\ request[id].status = "AWAITING_APPROVALS"
          /\ request[id].plan = call[h].plan
          /\ request[id].teacher # request[id].admin
      BY <1>0, <1>3, <2>5 DEF RequestInv
    <3>2. CASE Approved(h)
      <4>1. /\ side = "teacher" => request[id].admin
            /\ side = "school" => request[id].teacher
        BY <1>0, <3>1, <3>2 DEF Approved
      <4>2. row = [request[id] EXCEPT !.status = "APPROVED", !.teacher = TRUE, !.admin = TRUE]
        BY <1>0, <3>1, <3>2, <4>1 DEF RequestRows
      <4>3. SecondApproval(id)
        BY <1>0, <2>1, <3>1, <4>1, <4>2 DEF SecondApproval
      <4> QED  BY <2>3, <4>3 DEF RequestMove
    <3>3. CASE ~Approved(h)
      <4>1. row = request[id]
        BY <1>0, <3>1, <3>3 DEF Approved, RequestRows
      <4>2. request' = request
        BY <1>0, <1>1, <1>3, <4>1 DEF Transition
      <4> QED  BY <2>3, <4>2
    <3> QED  BY <3>2, <3>3
  <2> QED  BY <1>0, <2>4, <2>5
<1> QED  BY <1>2, <1>3

LEMMA ApproveMoves ==
    ASSUME NEW Executions, ApprovalInv(Executions), NEW h \in Approvers, Approving(h)
    PROVE  /\ Moves
           /\ \A q \in Calls \ {h} : call'[q] = call[q]
           /\ HandlerInv(h)'
<1> DEFINE Kept == /\ \A q \in Calls \ {h} : call'[q] = call[q]
                   /\ HandlerInv(h)'
           Deciding == {"match", "record", "stamp"}
<1>0. /\ call \in [Calls -> Locals(Executions)] /\ request \in [Creators -> RequestRows(Executions)] /\ plan \in [Previewers -> PlanRows]
      /\ h \in Calls /\ h \notin Creators /\ h \notin Previewers
      /\ call[h] \in Locals(Executions) /\ Placed(h, call[h]) /\ ApproverInv(h)
      /\ call[h].at \notin {"start", "done"} => call[h].id \in Creators
      /\ \A id \in Creators : RequestInv(id)
      /\ \A p \in Previewers : PlanInv(p)
  BY CallsAssumption DEF ApprovalInv, ApprovalTypeOK, Calls, AllPlaced, HandlerInv, Placed
<1>1. HandlerInv(h)' <=> ApproverInv(h)'
  BY <1>0 DEF HandlerInv
<1>a. ASSUME NEW code, Reply(h, code)
      PROVE  Kept
  <2>1. Replied(call[h], code).at = "done" /\ call' = [call EXCEPT ![h] = Replied(call[h], code)]
    BY <1>a DEF Reply, Replied, Idle
  <2>2. call'[h].at = "done"
    BY <1>0, <2>1
  <2> QED  BY <1>0, <1>1, <2>1, <2>2 DEF ApproverInv
<1>b. ASSUME NEW v, call' = [call EXCEPT ![h] = v], v.at = "reject"
      PROVE  Kept
  <2>1. call'[h].at = "reject"
    BY <1>0, <1>b
  <2> QED  BY <1>0, <1>1, <1>b, <2>1 DEF ApproverInv
<1> HIDE DEF Kept
<1>2. ASSUME NEW id \in Creators, NEW p \in Previewers, NEW ballot \in Ballots \union {NoDecisions},
             ApproveRead(h, id, p, ballot)
      PROVE  Moves /\ Kept
  <2>1. CASE Reply(h, "REFUSED")
    BY <1>2, <2>1, <1>a, QuietMoves DEF ApproveRead
  <2>2. CASE call' = [call EXCEPT ![h] = [@ EXCEPT !.at = "match", !.id = id, !.row = request[id],
                                                   !.plan = p, !.ballot = ballot]]
    <3>1. call'[h].at = "match" /\ call'[h].id = id /\ call'[h].row = request[id] /\ call'[h].plan = p
      BY <1>0, <2>2 DEF Locals
    <3>2. plan[p].status # "ABSENT"
      BY <1>0, <1>2, CallsAssumption DEF ApproveRead, PlanInv, Calls
    <3>3. ApproverInv(h)'
      BY <1>0, <1>2, <3>1, <3>2 DEF ApproverInv, ApproveRead, RequestInv
    <3> QED  BY <1>0, <1>1, <1>2, <2>2, <3>3, QuietMoves DEF ApproveRead, Kept
  <2> QED  BY <1>2, <2>1, <2>2 DEF ApproveRead
<1>3. CASE ApproveMatch(h)
  <2>1. CASE Reply(h, "REFUSED")
    BY <1>3, <2>1, <1>a, QuietMoves DEF ApproveMatch, Kept
  <2>2. CASE ~Reply(h, "REFUSED")
    <3>1. PICK ballot : call' = [call EXCEPT ![h] = [@ EXCEPT !.at = "record", !.ballot = ballot]]
      BY <1>3, <2>2 DEF ApproveMatch
    <3>2. /\ call'[h].at = "record" /\ call'[h].id = call[h].id /\ call'[h].row = call[h].row
          /\ call'[h].plan = call[h].plan /\ call[h].at = "match"
      BY <1>0, <1>3, <3>1 DEF Locals, ApproveMatch
    <3>3. ApproverInv(h)'
      BY <1>0, <1>3, <3>2 DEF ApproverInv, ApproveMatch
    <3> QED  BY <1>0, <1>1, <1>3, <3>1, <3>3, QuietMoves DEF ApproveMatch, Kept
  <2> QED  BY <2>1, <2>2 DEF Kept
<1>4. CASE ApproveRecord(h)
  <2>1. /\ call'[h].at = "stamp" /\ call'[h].id = call[h].id /\ call'[h].row = call[h].row
        /\ call'[h].plan = call[h].plan /\ call[h].at = "record"
        /\ \A q \in Calls \ {h} : call'[q] = call[q]
    BY <1>0, <1>4 DEF Locals, ApproveRecord, Goto
  <2>2. call[h].plan \in Previewers /\ plan[call[h].plan].status \in {"DRAFT", "CONFIRMED"}
    BY <1>0, <2>1 DEF Placed, ApproverInv, PlanRows
  <2>3. /\ \A p \in Previewers : PlanMove(p)
        /\ plan'[call[h].plan].status = "CONFIRMED"
    BY <1>0, <1>4, <2>2 DEF ApproveRecord, PlanMove, PlanRows
  <2>4. ApproverInv(h)'
    BY <1>0, <1>4, <2>1, <2>3 DEF ApproverInv, ApproveRecord
  <2> QED  BY <1>1, <1>4, <2>1, <2>3, <2>4 DEF Moves, ApproveRecord, Kept
<1>5. CASE ApproveStamp(h)
  <2>1. PICK code : Reply(h, code)
    BY <1>5 DEF ApproveStamp, Answer
  <2> QED  BY <1>5, <2>1, <1>a, StampMoves DEF Kept
<1>6. ASSUME NEW id \in Creators, RejectRead(h, id)
      PROVE  Moves /\ Kept
  <2>1. CASE Reply(h, "REFUSED")
    BY <1>6, <2>1, <1>a, QuietMoves DEF RejectRead
  <2>2. CASE call' = [call EXCEPT ![h] = [@ EXCEPT !.at = "reject", !.id = id, !.row = request[id]]]
    <3>1. [call[h] EXCEPT !.at = "reject", !.id = id, !.row = request[id]].at = "reject"
      BY <1>0 DEF Locals
    <3> QED  BY <1>6, <2>2, <3>1, <1>b, QuietMoves DEF RejectRead
  <2> QED  BY <1>6, <2>1, <2>2 DEF RejectRead
<1>7. CASE Reject(h)
  <2> DEFINE rejected == [request[call[h].id] EXCEPT !.status = "REJECTED"]
  <2>0. /\ Transition(call[h].id, call[h].row.status, rejected)
        /\ call[h].id \in Creators /\ call[h].row.status \in {"PREVIEW_READY", "AWAITING_APPROVALS"}
    BY <1>0, <1>7 DEF Reject, Placed
  <2> HIDE DEF rejected
  <2>1. /\ \/ request' = request
           \/ request[call[h].id].status = call[h].row.status /\ request'[call[h].id] = rejected
        /\ \A other \in Creators \ {call[h].id} : request'[other] = request[other]
    BY <1>0, <2>0, TransitionMoves
  <2>2. RequestMove(call[h].id) \/ request' = request
    BY <2>0, <2>1 DEF RequestMove, Rejected, rejected
  <2>3. Moves
    BY <1>7, <2>0, <2>1, <2>2 DEF Moves, PlanMove, Reject
  <2>4. PICK code : Reply(h, code)
    BY <1>7 DEF Reject, Answer
  <2> QED  BY <2>3, <2>4, <1>a DEF Kept
<1> QED  BY <1>2, <1>3, <1>4, <1>5, <1>6, <1>7 DEF Approving, Kept

\* Only create opens a request, and only preview drafts a plan.
LEMMA OnlyCreateOpens ==
    ASSUME NEW Executions, ApprovalInv(Executions), NEW h \in Previewers \union Approvers, Previewing(h) \/ Approving(h),
           NEW id \in Creators, request[id].status = "ABSENT"
    PROVE  request'[id] = request[id]
<1>0. /\ request \in [Creators -> RequestRows(Executions)] /\ h \in Calls /\ Placed(h, call[h])
      /\ call[h].at \notin {"start", "done"} => call[h].row.status # "ABSENT" /\ call[h].id \in Creators
  BY CallsAssumption DEF ApprovalInv, ApprovalTypeOK, Calls, AllPlaced, Placed
<1>1. CASE UNCHANGED request
  BY <1>1
<1>2. ASSUME NEW row, call[h].at \notin {"start", "done"}, Transition(call[h].id, call[h].row.status, row)
      PROVE  request'[id] = request[id]
  BY <1>0, <1>2 DEF Transition
<1>3. CASE Previewing(h)
  BY <1>1, <1>2, <1>3 DEF Previewing, PreviewRead, PreviewVerify, PreviewBlock, PreviewGenerate,
                          PreviewPublish
<1>4. CASE Approving(h)
  BY <1>1, <1>2, <1>4 DEF Approving, ApproveRead, ApproveMatch, ApproveRecord, ApproveStamp, RejectRead,
                          Reject
<1> QED  BY <1>3, <1>4

LEMMA OnlyPreviewDrafts ==
    ASSUME NEW Executions, ApprovalInv(Executions), NEW h \in Approvers, Approving(h), NEW p \in Previewers, plan[p].status = "ABSENT"
    PROVE  plan'[p] = plan[p]
<1>1. plan \in [Previewers -> PlanRows]
  BY DEF ApprovalInv, ApprovalTypeOK
<1>2. CASE ApproveRecord(h)
  BY <1>1, <1>2 DEF ApproveRecord
<1> QED  BY <1>2 DEF Approving, ApproveRead, ApproveMatch, ApproveStamp, RejectRead, Reject

\* Every step moves at most one request, and keeps what every handler knows.
LEMMA StepMoves ==
    ASSUME NEW Executions, ApprovalInv(Executions), [ApprovalNext]_approvalVars
    PROVE  Moves /\ \A q \in Calls : HandlerInv(q)'
<1>0. /\ call \in [Calls -> Locals(Executions)]
      /\ Creators \intersect Previewers = {} /\ Creators \subseteq Calls /\ Previewers \subseteq Calls
      /\ Creators \intersect Approvers = {} /\ Previewers \intersect Approvers = {} /\ Approvers \subseteq Calls
  BY CallsAssumption DEF ApprovalInv, ApprovalTypeOK, Calls
<1>1. ASSUME Moves, NEW h \in Calls, HandlerInv(h)', \A q \in Calls \ {h} : call'[q] = call[q],
             \A q \in Creators \ {h} : request[q].status = "ABSENT" => request'[q].status = "ABSENT",
             \A q \in Previewers \ {h} : plan[q].status = "ABSENT" => plan'[q].status = "ABSENT"
      PROVE  Moves /\ \A q \in Calls : HandlerInv(q)'
  BY <1>1, HandlerStays
<1>2. ASSUME UNCHANGED <<request, plan, consent, call>>
      PROVE  Moves /\ \A q \in Calls : HandlerInv(q)'
  <2>1. Moves
    BY <1>2, QuietMoves
  <2> QED  BY <1>2, <2>1, HandlerStays
<1>3. ASSUME NEW h \in Creators, Creating(h)
      PROVE  Moves /\ \A q \in Calls : HandlerInv(q)'
  BY <1>0, <1>1, <1>3, CreateMoves
<1>4. ASSUME NEW h \in Previewers, Previewing(h)
      PROVE  Moves /\ \A q \in Calls : HandlerInv(q)'
  <2>1. \A q \in Creators : request[q].status = "ABSENT" => request'[q].status = "ABSENT"
    BY <1>4, OnlyCreateOpens
  <2> QED  BY <1>0, <1>1, <1>4, <2>1, PreviewMoves
<1>5. ASSUME NEW h \in Approvers, Approving(h)
      PROVE  Moves /\ \A q \in Calls : HandlerInv(q)'
  <2>1. \A q \in Creators : request[q].status = "ABSENT" => request'[q].status = "ABSENT"
    BY <1>5, OnlyCreateOpens
  <2>2. \A q \in Previewers : plan[q].status = "ABSENT" => plan'[q].status = "ABSENT"
    BY <1>5, OnlyPreviewDrafts
  <2> QED  BY <1>0, <1>1, <1>5, <2>1, <2>2, ApproveMoves
<1>6. ASSUME NEW h \in Calls, CallDies(h)
      PROVE  Moves /\ \A q \in Calls : HandlerInv(q)'
  <2>1. call' = [call EXCEPT ![h] = Replied(call[h], "ERROR")] /\ Replied(call[h], "ERROR").at = "done"
    BY <1>6 DEF CallDies, Reply, Replied, Idle
  <2>2. call'[h].at = "done" /\ \A q \in Calls \ {h} : call'[q] = call[q]
    BY <1>0, <2>1
  <2>3. HandlerInv(h)'
    BY <2>2 DEF HandlerInv, CreatorInv, PreviewerInv, ApproverInv
  <2>4. Moves /\ UNCHANGED <<request, plan>>
    BY <1>6, QuietMoves DEF CallDies
  <2> QED  BY <1>1, <2>2, <2>3, <2>4
<1>7. CASE Meanwhile
  BY <1>2, <1>7 DEF Meanwhile, TenantStatusChange, MembershipChange, SignIn, AttemptsChange,
                    CreateWindowElapses
<1>8. CASE UNCHANGED approvalVars
  BY <1>2, <1>8 DEF approvalVars
<1> QED  BY <1>3, <1>4, <1>5, <1>6, <1>7, <1>8 DEF ApprovalNext

\* Up to the approval nothing touches a request that is decided, or moves a class.
LEMMA DecidedUntouched ==
    ASSUME NEW Executions, ApprovalInv(Executions), [ApprovalNext]_approvalVars
    PROVE  /\ \A id \in Creators : request[id].status \in Decided => request'[id] = request[id]
           /\ home' = home
           /\ \A t \in Tenants : member[t] # "NONE" => member'[t] # "NONE"
<1>0. /\ request \in [Creators -> RequestRows(Executions)] /\ member \in [Tenants -> {"NONE", "ACTIVE", "SUSPENDED"}]
      /\ Creators \subseteq Calls /\ Previewers \subseteq Calls /\ Approvers \subseteq Calls
      /\ \A h \in Calls : HandlerInv(h) /\ Placed(h, call[h])
  BY CallsAssumption DEF ApprovalInv, ApprovalTypeOK, Calls, AllPlaced
<1>1. CASE UNCHANGED <<request, home, member>>
  BY <1>1
<1>2. ASSUME NEW id \in Creators, NEW expected, NEW row, expected \notin Decided, Transition(id, expected, row),
             UNCHANGED <<home, member>>
      PROVE  /\ \A other \in Creators : request[other].status \in Decided => request'[other] = request[other]
             /\ home' = home
             /\ \A t \in Tenants : member[t] # "NONE" => member'[t] # "NONE"
  BY <1>0, <1>2 DEF Transition
<1>3. ASSUME NEW h \in Creators, Creating(h)
      PROVE  /\ \A id \in Creators : request[id].status \in Decided => request'[id] = request[id]
             /\ home' = home
             /\ \A t \in Tenants : member[t] # "NONE" => member'[t] # "NONE"
  <2>1. CASE CreateInsert(h)
    <3>1. request[h].status = "ABSENT"
      BY <1>0, <2>1 DEF CreateInsert, HandlerInv, CreatorInv
    <3> QED  BY <1>0, <2>1, <3>1 DEF CreateInsert, Decided, world
  <2> QED  BY <1>1, <1>3, <2>1 DEF Creating, CreateCheck, CreateLookup, CreateMember, CreateUpsert, CreateClassify,
                                   CreateComplete, CreateFail, CreateWinner, world
<1>4. ASSUME NEW h \in Previewers, Previewing(h)
      PROVE  /\ \A id \in Creators : request[id].status \in Decided => request'[id] = request[id]
             /\ home' = home
             /\ \A t \in Tenants : member[t] # "NONE" => member'[t] # "NONE"
  <2>1. call[h].at \notin {"start", "done"} => call[h].id \in Creators /\ call[h].row.status \notin Decided
    BY <1>0 DEF Placed, Decided
  <2> QED  BY <1>1, <1>2, <1>4, <2>1 DEF Previewing, PreviewRead, PreviewVerify, PreviewBlock, PreviewGenerate,
                                         PreviewPublish, world
<1>5. ASSUME NEW h \in Approvers, Approving(h)
      PROVE  /\ \A id \in Creators : request[id].status \in Decided => request'[id] = request[id]
             /\ home' = home
             /\ \A t \in Tenants : member[t] # "NONE" => member'[t] # "NONE"
  <2>1. call[h].at \notin {"start", "done"} => call[h].id \in Creators /\ call[h].row.status \notin Decided
    BY <1>0 DEF Placed, Decided
  <2> QED  BY <1>1, <1>2, <1>5, <2>1 DEF Approving, ApproveRead, ApproveMatch, ApproveRecord, ApproveStamp,
                                         RejectRead, Reject, world
<1>6. CASE Meanwhile
  BY <1>0, <1>6 DEF Meanwhile, TenantStatusChange, MembershipChange, SignIn, AttemptsChange,
                    CreateWindowElapses, world
<1>7. CASE UNCHANGED approvalVars \/ \E h \in Calls : CallDies(h)
  BY <1>1, <1>7 DEF approvalVars, CallDies, world
<1> QED  BY <1>3, <1>4, <1>5, <1>6, <1>7 DEF ApprovalNext

LEMMA PlansKept ==
    ASSUME NEW Executions, ApprovalInv(Executions), [ApprovalNext]_approvalVars
    PROVE  \A p \in Previewers : PlanInv(p)'
<1> SUFFICES ASSUME NEW p \in Previewers, plan'[p].status = "ABSENT" PROVE plan'[p].id = Null
  BY DEF PlanInv
<1>1. PlanMove(p) /\ PlanInv(p)
  BY StepMoves DEF Moves, ApprovalInv
<1> QED  BY <1>1 DEF PlanMove, PlanInv

LEMMA InvStep ==
    ASSUME NEW Executions, ApprovalInv(Executions), [ApprovalNext]_approvalVars
    PROVE  ApprovalInv(Executions)'
<1>1. Moves /\ \A q \in Calls : HandlerInv(q)'
  BY StepMoves
<1>2. \A id \in Creators : RequestInv(id)'
  BY <1>1, RequestKept
<1>3. Alone'
  BY <1>1, AloneKept
<1>4. ApprovalTypeOK(Executions)' /\ AllPlaced'
  BY TypeStep DEF ApprovalInv
<1> QED  BY <1>1, <1>2, <1>3, <1>4, PlansKept DEF ApprovalInv

-----------------------------------------------------------------------------
(* The theorems                                                            *)

THEOREM ApprovalInvariance == ApprovalSpec => []ApprovalInv({})
<1>1. ApprovalInit => ApprovalInv({})
  BY InvInit
<1>2. ApprovalInv({}) /\ [ApprovalNext]_approvalVars => ApprovalInv({})'
  BY InvStep
<1> QED  BY <1>1, <1>2, PTL DEF ApprovalSpec

\* A school has at most one request under way, for any number of racing creates.
THEOREM RequestsAreSoundHolds == ApprovalSpec => []RequestsAreSound
<1>1. ApprovalInv({}) => RequestsAreSound
  <2> SUFFICES ASSUME ApprovalInv({}), NEW school \in Schools PROVE Cardinality(ActiveFor(school)) <= 1
    BY DEF RequestsAreSound, OneActiveRequest, ApprovalInv, TypeOKApproval
  <2>1. school # Null
    BY SourceAssumption DEF Tenants
  <2>2. \A i, j \in ActiveFor(school) : i = j
    BY <2>1 DEF ApprovalInv, Alone, ActiveFor
  <2>3. CASE ActiveFor(school) = {}
    BY <2>3, FS_EmptySet
  <2>4. CASE ActiveFor(school) # {}
    <3>1. PICK i : i \in ActiveFor(school)
      BY <2>4
    <3>2. ActiveFor(school) = {i}
      BY <2>2, <3>1
    <3>3. Cardinality({i}) = 1
      BY FS_Singleton
    <3> QED  BY <3>2, <3>3
  <2> QED  BY <2>3, <2>4
<1> QED  BY <1>1, ApprovalInvariance, PTL

\* A request that got past AWAITING_APPROVALS was approved by both sides, and its plan is
\* CONFIRMED, however approvals, rejections and previews interleave.
THEOREM ApprovedByBothSidesHolds == ApprovalSpec => []ApprovedByBothSides
<1>1. ApprovalInv({}) => ApprovedByBothSides
  BY DEF ApprovalInv, ApprovedByBothSides, Decided, RequestInv, Consented
<1> QED  BY <1>1, ApprovalInvariance, PTL

\* No handler that read the request before changes what was approved: the current plan,
\* its decisions, the end of a request.
THEOREM ApprovedStaysApprovedHolds == ApprovalSpec => ApprovedStaysApproved
<1>1. ASSUME ApprovalInv({}), [ApprovalNext]_approvalVars, NEW id \in Creators
      PROVE  /\ request[id].status \in Decided \union {"AWAITING_APPROVALS"} =>
                    request'[id].plan = request[id].plan
             /\ request[id].status \in TerminalStatuses => request'[id] = request[id]
  <2>1. request[id] \in RequestRows({}) /\ Moves
    BY <1>1, StepMoves DEF ApprovalInv, ApprovalTypeOK
  <2>2. CASE RequestMove(id)
    BY <2>1, <2>2 DEF RequestMove, Executed, Opened, Previewed, FirstApproval, SecondApproval, Rejected,
                      Decided, TerminalStatuses, RequestRows
  <2> QED  BY <2>1, <2>2 DEF Moves
<1>2. ASSUME ApprovalInv({}), [ApprovalNext]_approvalVars, NEW p \in Previewers, plan[p].status = "CONFIRMED"
      PROVE  plan'[p] = plan[p]
  BY <1>2, StepMoves DEF Moves, PlanMove
<1>3. ApprovalInv({}) /\ [ApprovalNext]_approvalVars =>
         /\ [\A id \in Creators : request[id].status \in Decided \union {"AWAITING_APPROVALS"}
                                      => request'[id].plan = request[id].plan]_approvalVars
         /\ [\A p \in Previewers : plan[p].status = "CONFIRMED" => plan'[p] = plan[p]]_approvalVars
         /\ [\A id \in Creators : request[id].status \in TerminalStatuses
                                      => request'[id] = request[id]]_approvalVars
  BY <1>1, <1>2
<1> QED  BY <1>3, ApprovalInvariance, PTL DEF ApprovalSpec, ApprovedStaysApproved, CurrentPlanFrozen,
                                              DecisionsFixed, TerminalIsFinal

-----------------------------------------------------------------------------
(* Execution and rollback review: what a call's variables hold             *)

Fetched == {"resume", "open", "link", "member", "join", "note", "units", "settle", "complete"}

\* What a call's variables hold once it has begun.
RunPlaced(h, v) ==
    v.at \notin {"start", "done"} =>
        /\ v.id \in Creators
        /\ h \in Executors => /\ v.at \notin {"resolve", "reopen"}
                              /\ v.key \in ExecuteKeys
                              /\ v.row.status \in {"APPROVED", "READY_TO_EXECUTE"}
                              /\ v.row.school \in Schools
                              /\ v.at \in Fetched => v.execution \in Executors
        /\ h \in Reviewers => /\ v.at \in {"resolve", "reopen"}
                              /\ v.execution \in Executors
                              /\ v.decision \in {"ACCEPT_PARTIAL", "RETRY_REMAINING"}

AllRunsPlaced == \A h \in Runs : RunPlaced(h, run[h])

-----------------------------------------------------------------------------
(* Who holds a request: from the lock to the last transition               *)

Holding == Working \union {"upsert", "classify"}

Holds(h, id) == run[h].at \in Holding /\ run[h].id = id

HoldInv ==
    \A h \in Executors :
        run[h].at \in Holding =>
            /\ request[run[h].id].status = "EXECUTING"
            /\ \A g \in Executors : Holds(g, run[h].id) => g = h

\* What was read of a decided request stays true of it.
RowInv ==
    \A h \in Executors :
        run[h].at \notin {"start", "done"} =>
            /\ request[run[h].id].status \in Decided
            /\ run[h].row.school = request[run[h].id].school
            /\ run[h].row.plan = request[run[h].id].plan

-----------------------------------------------------------------------------
(* The execution row of a request, and who may change its status           *)

Fresh(id) == \A e \in Executors : execution[e].id # id

\* Whoever still holds the request has failed and is about to settle.
Idling(id) == \A h \in Executors : Holds(h, id) => run[h].at = "settle" /\ run[h].failed

RequestRun(id) ==
    /\ request[id].status \notin {"EXECUTING", "COMPLETED", "ROLLBACK_REVIEW_REQUIRED", "READY_TO_EXECUTE"} =>
           Fresh(id) /\ request[id].execution = Null
    /\ request[id].status \in {"COMPLETED", "ROLLBACK_REVIEW_REQUIRED", "READY_TO_EXECUTE"} =>
           request[id].execution # Null
    /\ request[id].execution # Null => execution[request[id].execution].id = id
    /\ request[id].status = "READY_TO_EXECUTE" => execution[request[id].execution].status = "PENDING"

ExecutionInv(e) ==
    /\ execution[e].id = Null => execution[e] = NoExecution
    /\ execution[e].status = "ROLLBACK_REVIEW_REQUIRED" =>
           /\ request[execution[e].id].status \in {"EXECUTING", "ROLLBACK_REVIEW_REQUIRED"}
           /\ Idling(execution[e].id)

ExecutorInv(h) ==
    LET id == run[h].id
        e  == run[h].execution
    IN /\ run[h].at \in {"start", "lock", "upsert", "classify", "prior", "open"} => execution[h] = NoExecution
       /\ run[h].at = "lock" =>
              IF run[h].row.status = "APPROVED" THEN run[h].row.execution = Null
              ELSE run[h].row.execution = request[id].execution /\ run[h].row.execution # Null
       /\ run[h].at \in {"upsert", "classify", "prior"} =>
              /\ run[h].row.execution = request[id].execution
              /\ IF run[h].row.execution = Null THEN Fresh(id)
                 ELSE execution[run[h].row.execution].status = "PENDING"
       /\ run[h].at = "resume" => request[id].execution = e /\ execution[e].status = "PENDING"
       /\ run[h].at = "open" => e = h /\ Fresh(id) /\ request[id].execution = Null
       /\ run[h].at = "link" =>
              /\ e = h /\ request[id].execution = Null
              /\ execution[h].id = id /\ execution[h].status = "IN_PROGRESS"
       /\ run[h].at \in {"member", "join", "note", "units"} =>
              request[id].execution = e /\ execution[e].status = "IN_PROGRESS"
       /\ run[h].at = "settle" =>
              request[id].execution = e /\ (~run[h].failed => execution[e].status = "COMPLETED")

ReviewerInv(w) ==
    LET id == run[w].id
        e  == run[w].execution
        accepts == run[w].decision = "ACCEPT_PARTIAL"
    IN /\ run[w].at \in {"resolve", "reopen"} => request[id].execution = e
       /\ run[w].at = "reopen" =>
              /\ request[id].status \in {"EXECUTING", "ROLLBACK_REVIEW_REQUIRED"} /\ Idling(id)
              /\ execution[e].status = IF accepts THEN "COMPLETED" ELSE "PENDING"
              /\ accepts => execution[e].review = "ACCEPTED_PARTIAL"
              /\ \A v \in Reviewers : run[v].at = "reopen" /\ run[v].id = id => v = w

StageInv ==
    /\ OneRunPerRequest
    /\ \A id \in Creators : RequestRun(id)
    /\ \A e \in Executors : ExecutionInv(e)
    /\ \A h \in Executors : ExecutorInv(h)
    /\ \A w \in Reviewers : ReviewerInv(w)

-----------------------------------------------------------------------------
(* What the checkpoints say                                                *)

Agreed(id) == plan[request[id].plan].decisions

\* The entries of a list are true of the request.
Sound(list, id) ==
    /\ list["membership"] \in Settled => member[request[id].school] # "NONE"
    /\ \A c \in Classes : /\ list[c] = "MIGRATED" => home[c] = request[id].school
                          /\ list[c] = "RETAINED" => c \notin Agreed(id).transfer

Whole(id) ==
    /\ member[request[id].school] # "NONE"
    /\ \A c \in Agreed(id).transfer : home[c] = request[id].school

UnitsInv(h) ==
    /\ Sound(run[h].prior, run[h].id) /\ Sound(run[h].checkpoint, run[h].id)
    /\ run[h].joined => member[request[run[h].id].school] # "NONE"
    /\ ~run[h].failed => \A u \in Units : run[h].checkpoint[u] # "FAILED"
    /\ \A u \in Units : run[h].checkpoint[u] # "NONE" /\ run[h].prior[u] \in Settled =>
                            run[h].checkpoint[u] = run[h].prior[u]

ListInv(h) ==
    /\ run[h].at \in Holding => UnitsInv(h)
    /\ run[h].at \in {"start", "lock"} \union (Holding \ {"note", "units", "settle"}) =>
           run[h].checkpoint = Blank /\ ~run[h].failed /\ ~run[h].joined
    /\ run[h].at \in {"start", "lock", "upsert", "classify", "prior"} => run[h].prior = Blank
    /\ run[h].at \in {"note", "units", "settle"} => run[h].checkpoint["membership"] # "NONE"
    /\ run[h].at \in {"units", "settle"} => execution[run[h].execution].checkpoint = run[h].checkpoint
    /\ run[h].at = "settle" => Remaining(h) = {}
    /\ run[h].at = "join" => run[h].prior["membership"] \notin Settled

DataInv ==
    /\ \A h \in Executors : ListInv(h)
    /\ \A e \in Executors : execution[e].id # Null => Sound(execution[e].checkpoint, execution[e].id)
    /\ \A id \in Creators :
           request[id].status = "COMPLETED" /\ execution[request[id].execution].review # "ACCEPTED_PARTIAL" =>
               Whole(id)
    /\ \A c \in Classes :
           home[c] # Source =>
               /\ member[home[c]] # "NONE"
               /\ \E id \in Creators :
                      /\ request[id].school = home[c]
                      /\ request[id].status \in Decided \ {"APPROVED"}
                      /\ c \in Agreed(id).transfer

-----------------------------------------------------------------------------
(* Types                                                                   *)

RunTyped == run \in [Runs -> RunLocals]

ExecutionTyped ==
    /\ execution \in [Executors -> ExecutionRows]
    /\ executed \in [Creators \X ExecuteKeys -> Rows(Creators, Executors)]

TypeInv == ApprovalInv(Executors) /\ ExecutionTyped /\ RunTyped /\ AllRunsPlaced

RunLocations == {"start", "lock", "upsert", "classify", "prior", "resume", "open", "link", "member", "join",
                 "note", "units", "settle", "complete", "resolve", "reopen", "done"}

\* The call that takes the step, and the others.
Others(h) == \A q \in Runs \ {h} : run'[q] = run[q]

\* Every variable of the call but its place.
SameBut(h) == /\ run'[h].id = run[h].id /\ run'[h].row = run[h].row /\ run'[h].key = run[h].key
              /\ run'[h].generation = run[h].generation /\ run'[h].execution = run[h].execution
              /\ run'[h].prior = run[h].prior /\ run'[h].checkpoint = run[h].checkpoint
              /\ run'[h].failed = run[h].failed /\ run'[h].joined = run[h].joined
              /\ run'[h].decision = run[h].decision

LEMMA RunToEffect ==
    ASSUME RunTyped, NEW h \in Runs, NEW location \in RunLocations, RunTo(h, location)
    PROVE  RunTyped' /\ Others(h) /\ run'[h].at = location /\ SameBut(h)
<1>1. run[h] \in RunLocals
  BY DEF RunTyped
<1> DEFINE v == [run[h] EXCEPT !.at = location]
<1>2. v \in RunLocals
  BY <1>1 DEF RunLocals, RunLocations
<1>3. /\ v.at = location /\ v.id = run[h].id /\ v.row = run[h].row /\ v.key = run[h].key
      /\ v.generation = run[h].generation /\ v.execution = run[h].execution
      /\ v.prior = run[h].prior /\ v.checkpoint = run[h].checkpoint
      /\ v.failed = run[h].failed /\ v.joined = run[h].joined /\ v.decision = run[h].decision
  BY <1>1 DEF RunLocals
<1>4. run' = [run EXCEPT ![h] = v]
  BY DEF RunTo
<1> HIDE DEF v
<1>5. run'[h] = v /\ Others(h)
  BY <1>4 DEF RunTyped, Others
<1> QED  BY <1>2, <1>3, <1>4, <1>5 DEF RunTyped, SameBut

LEMMA BlankTyped == Blank \in Checkpoints /\ Resting \in RunLocals /\ Resting.at = "start"
                    /\ NoExecution \in ExecutionRows
<1>1. Blank \in Checkpoints
  BY DEF Blank, Checkpoints
<1>2. NoRequest \in RequestRows(Executors)
  BY IdleTyped
<1>3. Resting \in RunLocals /\ Resting.at = "start"
  BY <1>1, <1>2 DEF Resting, RunLocals
<1>4. NoExecution \in ExecutionRows
  BY <1>1 DEF NoExecution, ExecutionRows
<1> QED  BY <1>1, <1>3, <1>4

ReplyCodes == {"OK", "REFUSED", "ERROR", "DUPLICATE", "IDEMPOTENCY_IN_PROGRESS",
               "CONVERGENCE_ACTIVE_ATTEMPTS_PENDING", "CONVERGENCE_EXECUTION_IN_PROGRESS"}

LEMMA RunReplyEffect ==
    ASSUME RunTyped, NEW h \in Runs, NEW code \in ReplyCodes, RunReply(h, code)
    PROVE  RunTyped' /\ Others(h) /\ run'[h].at = "done"
<1>1. run[h].id \in Creators \union {Null}
  BY DEF RunTyped, RunLocals
<1> DEFINE v == [Resting EXCEPT !.at = "done", !.reply = code, !.id = run[h].id]
<1>2. NoRequest \in RequestRows(Executors) /\ Blank \in Checkpoints
  BY IdleTyped, BlankTyped
<1>3. v \in RunLocals /\ v.at = "done"
  BY <1>1, <1>2 DEF Resting, RunLocals, ReplyCodes
<1>4. run' = [run EXCEPT ![h] = v]
  BY DEF RunReply
<1> HIDE DEF v
<1> QED  BY <1>3, <1>4 DEF RunTyped, Others

\* An execution moves at most one request, and one that is decided.
LEMMA ApprovalFrame ==
    ASSUME ApprovalInv(Executors), UNCHANGED <<plan, consent, created, suspended, visited, busy, call>>,
           member' \in [Tenants -> {"NONE", "ACTIVE", "SUSPENDED"}], home' \in [Classes -> Tenants],
           request' \in [Creators -> RequestRows(Executors)],
           \/ request' = request
           \/ \E id \in Creators : /\ Executed(id)
                                   /\ \A other \in Creators \ {id} : request'[other] = request[other]
    PROVE  ApprovalInv(Executors)'
<1>1. Moves
  BY DEF Moves, RequestMove, PlanMove
<1>2. \A id \in Creators : RequestInv(id)'
  BY <1>1, RequestKept
<1>3. Alone'
  BY <1>1, AloneKept
<1>4. \A h \in Creators : request[h].status = "ABSENT" => request'[h].status = "ABSENT"
  BY DEF Executed, Decided
<1>5. \A h \in Calls : HandlerInv(h)'
  BY <1>1, <1>4, HandlerStays
<1>6. ApprovalTypeOK(Executors)' /\ AllPlaced' /\ \A p \in Previewers : PlanInv(p)'
  BY DEF ApprovalInv, ApprovalTypeOK, AllPlaced, PlanInv
<1> QED  BY <1>2, <1>3, <1>5, <1>6 DEF ApprovalInv

-----------------------------------------------------------------------------
(* What the statements that do more than move on leave in the call         *)

Before(h) == /\ run'[h].prior = run[h].prior /\ run'[h].checkpoint = run[h].checkpoint
             /\ run'[h].failed = run[h].failed /\ run'[h].joined = run[h].joined

LEMMA ReadEffect ==
    ASSUME TypeInv, NEW h \in Executors, NEW id \in Creators, NEW key \in ExecuteKeys, ExecuteRead(h, id, key)
    PROVE  /\ RunTyped' /\ Others(h) /\ Before(h) /\ UNCHANGED <<approvalVars, execution, executed>>
           /\ \/ run'[h].at = "done"
              \/ /\ run[h].at = "start" /\ run'[h].at = "lock" /\ run'[h].id = id /\ run'[h].key = key
                 /\ run'[h].row = request[id] /\ request[id].status \in {"APPROVED", "READY_TO_EXECUTE"}
<1>0. run[h] \in RunLocals /\ request[id] \in RequestRows(Executors) /\ NoRequest \in RequestRows(Executors) /\ h \in Runs
  BY IdleTyped DEF TypeInv, RunTyped, ApprovalInv, ApprovalTypeOK, Runs
<1>1. PICK code \in {Null, "CONVERGENCE_EXECUTION_IN_PROGRESS", "REFUSED", "CONVERGENCE_ACTIVE_ATTEMPTS_PENDING"} :
          /\ run' = [run EXCEPT ![h] = [@ EXCEPT !.id = id, !.reply = code,
                                        !.at  = IF code = Null THEN "lock" ELSE "done",
                                        !.row = IF code = Null THEN request[id] ELSE NoRequest,
                                        !.key = IF code = Null THEN key ELSE Null]]
          /\ code = Null => request[id].status \in {"APPROVED", "READY_TO_EXECUTE"}
  BY <1>0, RepliesAssumption DEF ExecuteRead
<1> DEFINE v == [run[h] EXCEPT !.id = id, !.reply = code,
                               !.at  = IF code = Null THEN "lock" ELSE "done",
                               !.row = IF code = Null THEN request[id] ELSE NoRequest,
                               !.key = IF code = Null THEN key ELSE Null]
<1>2. v \in RunLocals
  BY <1>0 DEF RunLocals
<1>3. /\ v.id = id /\ v.at = (IF code = Null THEN "lock" ELSE "done") /\ v.prior = run[h].prior
      /\ v.row = (IF code = Null THEN request[id] ELSE NoRequest)
      /\ v.key = (IF code = Null THEN key ELSE Null)
      /\ v.checkpoint = run[h].checkpoint /\ v.failed = run[h].failed /\ v.joined = run[h].joined
  BY <1>0 DEF RunLocals
<1>4. run' = [run EXCEPT ![h] = v]
  BY <1>1
<1> HIDE DEF v
<1>5. run'[h] = v /\ Others(h) /\ RunTyped'
  BY <1>0, <1>2, <1>4 DEF TypeInv, RunTyped, Others
<1> QED  BY <1>1, <1>3, <1>5 DEF Before, ExecuteRead

LEMMA UpsertEffect ==
    ASSUME TypeInv, NEW h \in Executors, ExecuteUpsert(h)
    PROVE  /\ RunTyped' /\ Others(h) /\ ExecutionTyped' /\ UNCHANGED <<approvalVars, execution>>
           /\ run'[h].at \in {"prior", "classify"} /\ Before(h)
           /\ run'[h].id = run[h].id /\ run'[h].row = run[h].row /\ run'[h].key = run[h].key
<1> DEFINE k == <<run[h].id, run[h].key>>
<1>0. /\ run[h] \in RunLocals /\ run[h].id \in Creators /\ run[h].key \in ExecuteKeys
      /\ executed[k] \in Rows(Creators, Executors) /\ h \in Runs
  BY DEF TypeInv, RunTyped, ExecutionTyped, Runs, AllRunsPlaced, RunPlaced, ExecuteUpsert
<1>1. CASE RunTo(h, "classify") /\ UNCHANGED executed
  BY <1>0, <1>1, RunToEffect DEF TypeInv, RunLocations, SameBut, Before, ExecuteUpsert, ExecutionTyped
<1>2. CASE /\ executed' = [executed EXCEPT ![k] = Claim(@, run[h].id)]
           /\ run' = [run EXCEPT ![h] = [@ EXCEPT !.at = "prior", !.generation = executed[k].generation + 1]]
  <2> DEFINE g == executed[k].generation + 1
             v == [run[h] EXCEPT !.at = "prior", !.generation = g]
  <2>1. g \in Nat /\ Claim(executed[k], run[h].id) \in Rows(Creators, Executors)
    BY <1>0 DEF Rows, Claim, Statuses
  <2>2. run' = [run EXCEPT ![h] = v]
    BY <1>2
  <2> HIDE DEF g
  <2>3. /\ v \in RunLocals /\ v.at = "prior" /\ v.id = run[h].id /\ v.row = run[h].row /\ v.key = run[h].key
        /\ v.prior = run[h].prior /\ v.checkpoint = run[h].checkpoint
        /\ v.failed = run[h].failed /\ v.joined = run[h].joined
    BY <1>0, <2>1 DEF RunLocals
  <2> HIDE DEF v
  <2>4. run'[h] = v /\ Others(h) /\ RunTyped'
    BY <1>0, <2>2, <2>3 DEF TypeInv, RunTyped, Others
  <2>5. ExecutionTyped'
    BY <1>0, <1>2, <2>1 DEF TypeInv, ExecutionTyped, ExecuteUpsert
  <2> QED  BY <2>3, <2>4, <2>5 DEF Before, ExecuteUpsert
<1> QED  BY <1>1, <1>2 DEF ExecuteUpsert

LEMMA PriorEffect ==
    ASSUME TypeInv, NEW h \in Executors, ExecutePrior(h)
    PROVE  /\ RunTyped' /\ Others(h) /\ UNCHANGED <<approvalVars, execution, executed>>
           /\ run'[h].id = run[h].id /\ run'[h].row = run[h].row /\ run'[h].key = run[h].key
           /\ run'[h].checkpoint = run[h].checkpoint /\ run'[h].failed = run[h].failed
           /\ run'[h].joined = run[h].joined
           /\ \/ /\ run[h].row.execution \in Executors /\ execution[run[h].row.execution].status = "PENDING"
                 /\ run'[h].at = "resume" /\ run'[h].execution = run[h].row.execution
                 /\ run'[h].prior = execution[run[h].row.execution].checkpoint
              \/ /\ ~(run[h].row.execution # Null /\ execution[run[h].row.execution].status = "PENDING")
                 /\ run'[h].at = "open" /\ run'[h].execution = h /\ run'[h].prior = Blank
<1> DEFINE e == run[h].row.execution
           resumes == e # Null /\ execution[e].status = "PENDING"
           target == IF resumes THEN e ELSE h
           list == IF resumes THEN execution[e].checkpoint ELSE Blank
           v == [run[h] EXCEPT !.at = IF resumes THEN "resume" ELSE "open", !.execution = target, !.prior = list]
<1>0. run[h] \in RunLocals /\ h \in Runs /\ e \in Executors \union {Null}
  BY DEF TypeInv, RunTyped, Runs, RunLocals, RequestRows
<1>1. target \in Executors /\ list \in Checkpoints
  BY <1>0, BlankTyped DEF TypeInv, ExecutionTyped, ExecutionRows
<1>2. run' = [run EXCEPT ![h] = v]
  BY DEF ExecutePrior
<1> HIDE DEF target, list
<1>3. /\ v \in RunLocals /\ v.at = (IF resumes THEN "resume" ELSE "open") /\ v.id = run[h].id
      /\ v.row = run[h].row /\ v.key = run[h].key /\ v.execution = target /\ v.prior = list
      /\ v.checkpoint = run[h].checkpoint /\ v.failed = run[h].failed /\ v.joined = run[h].joined
  BY <1>0, <1>1 DEF RunLocals
<1> HIDE DEF v
<1>4. run'[h] = v /\ Others(h) /\ RunTyped'
  BY <1>0, <1>2, <1>3 DEF TypeInv, RunTyped, Others
<1> QED  BY <1>0, <1>3, <1>4 DEF ExecutePrior, target, list

\* A unit's outcome is written into the call's own list.
Recorded(h, unit, outcome, failed, joined) ==
    /\ run'[h].at = "note" /\ run'[h].id = run[h].id /\ run'[h].row = run[h].row /\ run'[h].key = run[h].key
    /\ run'[h].execution = run[h].execution /\ run'[h].prior = run[h].prior
    /\ run'[h].checkpoint[unit] = outcome
    /\ \A u \in Units \ {unit} : run'[h].checkpoint[u] = run[h].checkpoint[u]
    /\ run'[h].failed = failed /\ run'[h].joined = joined

LEMMA RecordEffect ==
    ASSUME RunTyped, NEW h \in Runs, NEW unit \in Units, NEW outcome \in Settled \union {"FAILED"},
           NEW failed \in BOOLEAN, NEW joined \in BOOLEAN,
           run' = [run EXCEPT ![h] = [@ EXCEPT !.at = "note", !.joined = joined, !.failed = failed,
                                               !.checkpoint[unit] = outcome]]
    PROVE  RunTyped' /\ Others(h) /\ Recorded(h, unit, outcome, failed, joined)
<1> DEFINE list == [run[h].checkpoint EXCEPT ![unit] = outcome]
           v == [run[h] EXCEPT !.at = "note", !.joined = joined, !.failed = failed,
                          !.checkpoint[unit] = outcome]
<1>0. run[h] \in RunLocals /\ run[h].checkpoint \in Checkpoints
  BY DEF RunTyped, RunLocals
<1>1. /\ list \in Checkpoints /\ list[unit] = outcome
      /\ \A u \in Units \ {unit} : list[u] = run[h].checkpoint[u]
  BY <1>0 DEF Checkpoints
<1>2. run' = [run EXCEPT ![h] = v]
  OBVIOUS
<1>3. /\ v \in RunLocals /\ v.at = "note" /\ v.id = run[h].id /\ v.row = run[h].row /\ v.key = run[h].key
      /\ v.execution = run[h].execution /\ v.prior = run[h].prior /\ v.checkpoint = list
      /\ v.failed = failed /\ v.joined = joined
  BY <1>0, <1>1 DEF RunLocals
<1> HIDE DEF v
<1>4. run'[h] = v /\ Others(h) /\ RunTyped'
  BY <1>2, <1>3 DEF RunTyped, Others
<1> QED  BY <1>1, <1>3, <1>4 DEF Recorded

LEMMA OutcomeEffect ==
    ASSUME RunTyped, NEW h \in Runs, NEW unit \in Units, NEW outcome \in Settled \union {"FAILED"},
           NEW failed \in BOOLEAN, Outcome(h, unit, outcome, failed, "note")
    PROVE  RunTyped' /\ Others(h) /\ Recorded(h, unit, outcome, run[h].failed \/ failed, run[h].joined)
<1> DEFINE all == run[h].failed \/ failed
<1>0. run[h] \in RunLocals
  BY DEF RunTyped
<1>1. all \in BOOLEAN /\ run[h].joined \in BOOLEAN
  BY <1>0 DEF RunLocals
<1>2. run' = [run EXCEPT ![h] = [@ EXCEPT !.at = "note", !.checkpoint[unit] = outcome, !.failed = all]]
  BY DEF Outcome
<1> HIDE DEF all
<1>3. run' = [run EXCEPT ![h] = [@ EXCEPT !.at = "note", !.joined = run[h].joined, !.failed = all,
                                          !.checkpoint[unit] = outcome]]
  BY <1>0, <1>2 DEF RunLocals
<1>4. RunTyped' /\ Others(h) /\ Recorded(h, unit, outcome, all, run[h].joined)
  BY <1>1, <1>3, RecordEffect
<1> QED  BY <1>4 DEF all

LEMMA MemberEffect ==
    ASSUME RunTyped, NEW h \in Runs, ExecuteMember(h)
    PROVE  \/ /\ RunTo(h, "join")
              /\ run[h].prior["membership"] \notin Settled /\ member[run[h].row.school] # "ACTIVE"
           \/ /\ RunTyped' /\ Others(h)
              /\ Recorded(h, "membership",
                          IF run[h].prior["membership"] \in Settled THEN run[h].prior["membership"] ELSE "RETAINED",
                          run[h].failed, member[run[h].row.school] = "ACTIVE")
              /\ run[h].prior["membership"] \in Settled \/ member[run[h].row.school] = "ACTIVE"
<1>1. CASE RunTo(h, "join") /\ run[h].prior["membership"] \notin Settled /\ member[run[h].row.school] # "ACTIVE"
  BY <1>1
<1>2. CASE ~(RunTo(h, "join") /\ run[h].prior["membership"] \notin Settled /\ member[run[h].row.school] # "ACTIVE")
  <2> DEFINE outcome == IF run[h].prior["membership"] \in Settled THEN run[h].prior["membership"] ELSE "RETAINED"
             found == member[run[h].row.school] = "ACTIVE"
  <2>0. run[h] \in RunLocals
    BY DEF RunTyped
  <2>1. outcome \in Settled \union {"FAILED"} /\ found \in BOOLEAN /\ "membership" \in Units /\ run[h].failed \in BOOLEAN
    BY <2>0 DEF Settled, Units, RunLocals
  <2>2. /\ run' = [run EXCEPT ![h] = [@ EXCEPT !.at = "note", !.joined = found, !.checkpoint["membership"] = outcome]]
        /\ run[h].prior["membership"] \in Settled \/ found
    BY <1>2 DEF ExecuteMember
  <2> HIDE DEF outcome, found
  <2>3. run' = [run EXCEPT ![h] = [@ EXCEPT !.at = "note", !.joined = found, !.failed = run[h].failed,
                                            !.checkpoint["membership"] = outcome]]
    BY <2>0, <2>2 DEF RunLocals
  <2>4. RunTyped' /\ Others(h) /\ Recorded(h, "membership", outcome, run[h].failed, found)
    BY <2>1, <2>3, RecordEffect
  <2> QED  BY <2>2, <2>4 DEF outcome, found
<1> QED  BY <1>1, <1>2

LEMMA JoinEffect ==
    ASSUME RunTyped, NEW h \in Runs, ExecuteJoin(h)
    PROVE  /\ RunTyped' /\ Others(h)
           /\ \/ /\ \E failed \in BOOLEAN : Recorded(h, "membership", "MIGRATED", failed, TRUE)
                 /\ member' = [member EXCEPT ![run[h].row.school] = "ACTIVE"]
              \/ /\ Recorded(h, "membership", "FAILED", TRUE, run[h].joined)
                 /\ member' = member
<1>0. "membership" \in Units /\ {"FAILED", "MIGRATED"} \subseteq Settled \union {"FAILED"} /\ Faults \in BOOLEAN
  BY SourceAssumption DEF Units, Settled
<1>1. CASE Outcome(h, "membership", "FAILED", TRUE, "note") /\ member' = member
  BY <1>0, <1>1, OutcomeEffect DEF Recorded
<1>2. CASE \E failed \in {FALSE, Faults} :
               /\ run' = [run EXCEPT ![h] = [@ EXCEPT !.at = "note", !.joined = TRUE, !.failed = failed,
                                                      !.checkpoint["membership"] = "MIGRATED"]]
               /\ member' = [member EXCEPT ![run[h].row.school] = "ACTIVE"]
  <2>1. PICK failed \in BOOLEAN :
               run' = [run EXCEPT ![h] = [@ EXCEPT !.at = "note", !.joined = TRUE, !.failed = failed,
                                                   !.checkpoint["membership"] = "MIGRATED"]]
    BY <1>0, <1>2
  <2>2. RunTyped' /\ Others(h) /\ Recorded(h, "membership", "MIGRATED", failed, TRUE)
    BY <1>0, <2>1, RecordEffect
  <2> QED  BY <1>2, <2>2
<1> QED  BY <1>1, <1>2 DEF ExecuteJoin

LEMMA ReviewReadEffect ==
    ASSUME TypeInv, NEW w \in Reviewers, NEW id \in Creators,
           NEW decision \in {"ACCEPT_PARTIAL", "RETRY_REMAINING"}, ReviewRead(w, id, decision)
    PROVE  /\ RunTyped' /\ Others(w) /\ UNCHANGED <<approvalVars, execution, executed>>
           /\ \/ run'[w].at = "done"
              \/ /\ run'[w].at = "resolve" /\ run'[w].id = id /\ run'[w].decision = decision
                 /\ run'[w].execution = request[id].execution /\ request[id].execution \in Executors
<1>0. run[w] \in RunLocals /\ w \in Runs /\ request[id].execution \in Executors \union {Null}
  BY DEF TypeInv, RunTyped, Runs, ApprovalInv, ApprovalTypeOK, RequestRows
<1>1. CASE RunReply(w, "REFUSED")
  BY <1>0, <1>1, RunReplyEffect DEF ReviewRead, TypeInv, ReplyCodes
<1>2. CASE /\ request[id].execution # Null
           /\ run' = [run EXCEPT ![w] = [@ EXCEPT !.at = "resolve", !.id = id, !.decision = decision,
                                                  !.execution = request[id].execution]]
  <2> DEFINE v == [run[w] EXCEPT !.at = "resolve", !.id = id, !.decision = decision,
                                 !.execution = request[id].execution]
  <2>1. /\ v \in RunLocals /\ v.at = "resolve" /\ v.id = id /\ v.decision = decision
        /\ v.execution = request[id].execution
    BY <1>0, <1>2 DEF RunLocals
  <2>2. run' = [run EXCEPT ![w] = v]
    BY <1>2
  <2> HIDE DEF v
  <2>3. run'[w] = v /\ Others(w) /\ RunTyped'
    BY <1>0, <2>1, <2>2 DEF TypeInv, RunTyped, Others
  <2> QED  BY <1>0, <1>2, <2>1, <2>3 DEF ReviewRead
<1> QED  BY <1>1, <1>2 DEF ReviewRead

\* The transitions of execute and rollback review.
LEMMA RunTransition ==
    ASSUME TypeInv, NEW id \in Creators, NEW expected \in Decided \ TerminalStatuses, NEW row \in RequestRows(Executors),
           Transition(id, expected, row), UNCHANGED <<plan, consent, created, world, call>>,
           row.status \in Decided \ {"APPROVED"}, row.school = request[id].school, row.plan = request[id].plan,
           row.teacher = request[id].teacher, row.admin = request[id].admin
    PROVE  /\ ApprovalInv(Executors)'
           /\ request'[id] = IF request[id].status = expected THEN row ELSE request[id]
           /\ \A other \in Creators \ {id} : request'[other] = request[other]
<1>1. request \in [Creators -> RequestRows(Executors)] /\ member \in [Tenants -> {"NONE", "ACTIVE", "SUSPENDED"}]
      /\ home \in [Classes -> Tenants] /\ ApprovalInv(Executors)
  BY DEF TypeInv, ApprovalInv, ApprovalTypeOK
<1>2. /\ request' \in [Creators -> RequestRows(Executors)]
      /\ request'[id] = IF request[id].status = expected THEN row ELSE request[id]
      /\ \A other \in Creators \ {id} : request'[other] = request[other]
  BY <1>1 DEF Transition
<1>3. request' = request \/ Executed(id)
  BY <1>1, <1>2 DEF Transition, Executed
<1> QED  BY <1>1, <1>2, <1>3, ApprovalFrame DEF world

LEMMA RunMoveTyped ==
    ASSUME TypeInv, NEW h \in Runs, RunTyped', Others(h), run'[h].at = "done" \/ RunPlaced(h, run'[h]),
           ApprovalInv(Executors)', ExecutionTyped'
    PROVE  TypeInv'
<1>1. RunPlaced(h, run'[h])
  BY DEF RunPlaced
<1>2. AllRunsPlaced'
  BY <1>1 DEF TypeInv, AllRunsPlaced, Others, RunPlaced
<1> QED  BY <1>2 DEF TypeInv

LEMMA ExecuteTyped ==
    ASSUME TypeInv, NEW h \in Executors, Executing(h)
    PROVE  TypeInv' /\ Others(h)
<1>0. /\ h \in Runs /\ h \notin Reviewers /\ run[h] \in RunLocals /\ RunPlaced(h, run[h])
      /\ run[h].at \notin {"start", "done"} =>
             run[h].id \in Creators /\ request[run[h].id] \in RequestRows(Executors)
      /\ run[h].at \in Fetched => run[h].execution \in Executors /\ execution[run[h].execution] \in ExecutionRows
  BY RunsAssumption DEF TypeInv, RunTyped, AllRunsPlaced, RunPlaced, Runs, ApprovalInv, ApprovalTypeOK, ExecutionTyped, Fetched
<1>a. ASSUME UNCHANGED approvalVars
      PROVE  ApprovalInv(Executors)'
  BY <1>a, InvStep DEF TypeInv
<1>b. ASSUME UNCHANGED <<execution, executed>>
      PROVE  ExecutionTyped'
  BY <1>b DEF TypeInv, ExecutionTyped
<1>c. ASSUME NEW code \in ReplyCodes, RunReply(h, code), ApprovalInv(Executors)', ExecutionTyped'
      PROVE  TypeInv' /\ Others(h)
  BY <1>0, <1>c, RunReplyEffect, RunMoveTyped DEF TypeInv
<1>d. ASSUME NEW location \in RunLocations, RunTo(h, location), run[h].at \notin {"start", "done"},
             location \notin {"resolve", "reopen"}, location \in Fetched => run[h].at \in Fetched,
             ApprovalInv(Executors)', ExecutionTyped'
      PROVE  TypeInv' /\ Others(h)
  <2>1. RunTyped' /\ Others(h) /\ run'[h].at = location /\ SameBut(h)
    BY <1>0, <1>d, RunToEffect DEF TypeInv
  <2>2. RunPlaced(h, run'[h])
    BY <1>0, <1>d, <2>1 DEF RunPlaced, SameBut
  <2> QED  BY <1>0, <1>d, <2>1, <2>2, RunMoveTyped
<1>e. ASSUME NEW unit, NEW outcome, NEW failed, NEW joined, Recorded(h, unit, outcome, failed, joined),
             RunTyped', Others(h), run[h].at \in Fetched, ApprovalInv(Executors)', ExecutionTyped'
      PROVE  TypeInv' /\ Others(h)
  <2>1. RunPlaced(h, run'[h])
    BY <1>0, <1>e DEF RunPlaced, Fetched, Recorded
  <2> QED  BY <1>0, <1>e, <2>1, RunMoveTyped
<1>1. ASSUME NEW id \in Creators, NEW key \in ExecuteKeys, ExecuteRead(h, id, key)
      PROVE  TypeInv' /\ Others(h)
  <2>0. request[id].status \in {"APPROVED", "READY_TO_EXECUTE"} => request[id].school \in Schools
    BY DEF TypeInv, ApprovalInv, RequestInv
  <2>1. run'[h].at = "done" \/ RunPlaced(h, run'[h])
    BY <1>0, <1>1, <2>0, ReadEffect DEF RunPlaced, Fetched
  <2> QED  BY <1>0, <1>1, <1>a, <1>b, <2>1, ReadEffect, RunMoveTyped
<1>2. CASE ExecuteLock(h)
  <2>1. [request[run[h].id] EXCEPT !.status = "EXECUTING"] \in RequestRows(Executors)
    BY <1>0, <1>2 DEF ExecuteLock, RequestRows, RequestStatuses
  <2>2. run[h].row.status \in Decided \ TerminalStatuses /\ "EXECUTING" \in Decided
    BY <1>0, <1>2 DEF ExecuteLock, RunPlaced, Decided, TerminalStatuses
  <2>3. ApprovalInv(Executors)'
    <3> DEFINE row == [request[run[h].id] EXCEPT !.status = "EXECUTING"]
    <3>1. /\ row.status = "EXECUTING" /\ row.school = request[run[h].id].school /\ row.plan = request[run[h].id].plan
          /\ row.teacher = request[run[h].id].teacher /\ row.admin = request[run[h].id].admin
          /\ Transition(run[h].id, run[h].row.status, row)
      BY <1>0, <1>2 DEF ExecuteLock, RequestRows
    <3> HIDE DEF row
    <3>2. row \in RequestRows(Executors)
      BY <2>1 DEF row
    <3> QED  BY <1>0, <1>2, <2>2, <3>1, <3>2, RunTransition DEF ExecuteLock
  <2>4. ExecutionTyped'
    BY <1>2, <1>b DEF ExecuteLock
  <2>5. "upsert" \in RunLocations /\ "upsert" \notin Fetched /\ "CONVERGENCE_EXECUTION_IN_PROGRESS" \in ReplyCodes
    BY DEF RunLocations, Fetched, ReplyCodes
  <2> QED  BY <1>2, <2>3, <2>4, <2>5, <1>c, <1>d DEF ExecuteLock
<1>3. CASE ExecuteUpsert(h)
  <2>1. RunPlaced(h, run'[h])
    BY <1>0, <1>3, UpsertEffect DEF RunPlaced, ExecuteUpsert, Fetched
  <2> QED  BY <1>0, <1>3, <1>a, <2>1, UpsertEffect, RunMoveTyped
<1>4. CASE ExecuteClassify(h)
  <2>1. PICK code \in ReplyCodes : RunReply(h, code)
    BY <1>4 DEF ExecuteClassify, ReplyCodes
  <2> QED  BY <1>4, <2>1, <1>a, <1>b, <1>c DEF ExecuteClassify
<1>5. CASE ExecutePrior(h)
  <2>1. RunPlaced(h, run'[h])
    BY <1>0, <1>5, PriorEffect DEF RunPlaced, ExecutePrior, Fetched
  <2> QED  BY <1>0, <1>5, <1>a, <1>b, <2>1, PriorEffect, RunMoveTyped
<1>6. CASE ExecuteResume(h)
  <2>1. [execution[run[h].execution] EXCEPT !.status = "IN_PROGRESS"] \in ExecutionRows
    BY <1>0, <1>6 DEF ExecuteResume, Fetched, ExecutionRows
  <2>2. ExecutionTyped'
    BY <1>0, <1>6, <2>1 DEF ExecuteResume, TypeInv, ExecutionTyped
  <2> QED  BY <1>6, <2>2, <1>a, <1>c, <1>d DEF ExecuteResume, RunLocations, Fetched, ReplyCodes
<1>7. CASE ExecuteOpen(h)
  <2>1. [NoExecution EXCEPT !.status = "IN_PROGRESS", !.id = run[h].id] \in ExecutionRows
    BY <1>0, <1>7, BlankTyped DEF ExecuteOpen, ExecutionRows, NoExecution
  <2>2. ExecutionTyped'
    BY <1>0, <1>7, <2>1 DEF ExecuteOpen, TypeInv, ExecutionTyped
  <2> QED  BY <1>7, <2>2, <1>a, <1>d DEF ExecuteOpen, RunLocations, Fetched
<1>8. ASSUME NEW expected \in {"EXECUTING"}, NEW row \in RequestRows(Executors), Transition(run[h].id, expected, row),
             UNCHANGED <<plan, consent, created, world, call, execution, executed>>, run[h].at \notin {"start", "done"},
             row.status \in {"EXECUTING", "COMPLETED", "ROLLBACK_REVIEW_REQUIRED"} \/ row.status = request[run[h].id].status,
             row.school = request[run[h].id].school, row.plan = request[run[h].id].plan,
             row.teacher = request[run[h].id].teacher, row.admin = request[run[h].id].admin,
             NEW location \in RunLocations, RunTo(h, location), run[h].at \in Fetched,
             location \notin {"resolve", "reopen"}
      PROVE  TypeInv' /\ Others(h)
  <2>1. expected \in Decided \ TerminalStatuses
    BY DEF Decided, TerminalStatuses
  <2>2. CASE request[run[h].id].status = expected
    BY <1>0, <1>8, <1>b, <1>d, <2>1, <2>2, RunTransition DEF Decided
  <2>3. CASE request[run[h].id].status # expected
    <3>1. UNCHANGED approvalVars
      BY <1>8, <2>3 DEF Transition, approvalVars
    <3> QED  BY <1>8, <3>1, <1>a, <1>b, <1>d
  <2> QED  BY <2>2, <2>3
<1>9. CASE ExecuteLink(h)
  <2> DEFINE row == [request[run[h].id] EXCEPT !.execution = h]
  <2>1. /\ row \in RequestRows(Executors) /\ row.status = request[run[h].id].status
        /\ row.school = request[run[h].id].school /\ row.plan = request[run[h].id].plan
        /\ row.teacher = request[run[h].id].teacher /\ row.admin = request[run[h].id].admin
        /\ Transition(run[h].id, "EXECUTING", row)
    BY <1>0, <1>9 DEF ExecuteLink, RequestRows
  <2> HIDE DEF row
  <2> QED  BY <1>9, <2>1, <1>8 DEF ExecuteLink, RunLocations, Fetched
<1>10. CASE ExecuteSettle(h)
  <2> DEFINE row == [request[run[h].id] EXCEPT !.status = Ending(h)]
  <2>1. Ending(h) \in {"COMPLETED", "ROLLBACK_REVIEW_REQUIRED"}
    BY DEF Ending
  <2>2. /\ row \in RequestRows(Executors) /\ row.status = Ending(h)
        /\ row.school = request[run[h].id].school /\ row.plan = request[run[h].id].plan
        /\ row.teacher = request[run[h].id].teacher /\ row.admin = request[run[h].id].admin
        /\ Transition(run[h].id, "EXECUTING", row)
    BY <1>0, <1>10, <2>1 DEF ExecuteSettle, RequestRows, RequestStatuses
  <2> HIDE DEF row
  <2> QED  BY <1>10, <2>1, <2>2, <1>8 DEF ExecuteSettle, RunLocations, Fetched
<1>11. CASE ExecuteMember(h)
  <2>1. CASE RunTo(h, "join")
    BY <1>11, <2>1, <1>a, <1>b, <1>d DEF ExecuteMember, RunLocations, Fetched
  <2>2. CASE ~RunTo(h, "join")
    <3>1. PICK outcome, found : RunTyped' /\ Others(h) /\ Recorded(h, "membership", outcome, run[h].failed, found)
      BY <1>0, <1>11, <2>2, MemberEffect DEF TypeInv
    <3> QED  BY <1>11, <3>1, <1>a, <1>b, <1>e DEF ExecuteMember, Fetched
  <2> QED  BY <2>1, <2>2
<1>12. ASSUME NEW unit \in Units, NEW outcome \in Settled \union {"FAILED"}, NEW failed \in BOOLEAN,
              Outcome(h, unit, outcome, failed, "note"),
              run[h].at \in Fetched, ApprovalInv(Executors)', ExecutionTyped'
       PROVE  TypeInv' /\ Others(h)
  BY <1>0, <1>12, <1>e, OutcomeEffect DEF TypeInv
<1>13. CASE ExecuteJoin(h)
  <2>0. run[h].at \in Fetched /\ ExecutionTyped'
    BY <1>13, <1>b DEF ExecuteJoin, Fetched
  <2>1. ApprovalInv(Executors)'
    <3>1. /\ ApprovalInv(Executors) /\ request \in [Creators -> RequestRows(Executors)]
          /\ member \in [Tenants -> {"NONE", "ACTIVE", "SUSPENDED"}] /\ home \in [Classes -> Tenants]
      BY DEF TypeInv, ApprovalInv, ApprovalTypeOK
    <3>2. member' \in [Tenants -> {"NONE", "ACTIVE", "SUSPENDED"}]
      BY <1>13, <3>1 DEF ExecuteJoin
    <3> QED  BY <1>13, <3>1, <3>2, ApprovalFrame DEF ExecuteJoin
  <2>2. PICK outcome, failed, joined : RunTyped' /\ Others(h) /\ Recorded(h, "membership", outcome, failed, joined)
    BY <1>0, <1>13, JoinEffect DEF TypeInv
  <2> QED  BY <2>0, <2>1, <2>2, <1>e
<1>14. CASE ExecuteNote(h)
  <2>1. [execution[run[h].execution] EXCEPT !.checkpoint = run[h].checkpoint] \in ExecutionRows
    BY <1>0, <1>14 DEF ExecuteNote, Fetched, ExecutionRows, RunLocals
  <2>2. ExecutionTyped'
    BY <1>0, <1>14, <2>1 DEF ExecuteNote, TypeInv, ExecutionTyped
  <2> QED  BY <1>14, <2>2, <1>a, <1>d DEF ExecuteNote, RunLocations, Fetched
<1>15. ASSUME NEW c \in Classes, ExecuteCarry(h, c)
       PROVE  TypeInv' /\ Others(h)
  <2>1. PICK outcome \in Settled \union {"FAILED"}, failed \in BOOLEAN : Outcome(h, c, outcome, failed, "note")
    BY <1>15 DEF ExecuteCarry, Settled
  <2> QED  BY <1>15, <2>1, <1>12, <1>a, <1>b DEF ExecuteCarry, Units, Fetched
<1>16. ASSUME NEW c \in Classes, ExecuteTransfer(h, c)
       PROVE  TypeInv' /\ Others(h)
  <2>1. PICK outcome \in Settled \union {"FAILED"}, failed \in BOOLEAN : Outcome(h, c, outcome, failed, "note")
    BY <1>16, SourceAssumption DEF ExecuteTransfer, Settled
  <2>2. ApprovalInv(Executors)'
    <3>1. /\ ApprovalInv(Executors) /\ request \in [Creators -> RequestRows(Executors)]
          /\ member \in [Tenants -> {"NONE", "ACTIVE", "SUSPENDED"}] /\ home \in [Classes -> Tenants]
      BY DEF TypeInv, ApprovalInv, ApprovalTypeOK
    <3>2. run[h].row.school \in Tenants
      BY <1>0, <1>16 DEF ExecuteTransfer, RunPlaced, Tenants
    <3>3. home' \in [Classes -> Tenants]
      BY <1>16, <3>1, <3>2 DEF ExecuteTransfer
    <3> QED  BY <1>16, <3>1, <3>3, ApprovalFrame DEF ExecuteTransfer
  <2> QED  BY <1>16, <2>1, <2>2, <1>12, <1>b DEF ExecuteTransfer, Units, Fetched
<1>17. CASE ExecuteFinish(h)
  <2>1. [execution[run[h].execution] EXCEPT !.status = Ending(h),
                     !.review = IF run[h].failed THEN "PENDING" ELSE execution[run[h].execution].review] \in ExecutionRows
    BY <1>0, <1>17 DEF ExecuteFinish, Fetched, ExecutionRows, Ending
  <2>2. ExecutionTyped'
    BY <1>0, <1>17, <2>1 DEF ExecuteFinish, TypeInv, ExecutionTyped
  <2> QED  BY <1>17, <2>2, <1>a, <1>d DEF ExecuteFinish, RunLocations, Fetched
<1>18. CASE ExecuteComplete(h)
  <2> DEFINE k == <<run[h].id, run[h].key>>
  <2>1. run[h].key \in ExecuteKeys /\ executed[k] \in Rows(Creators, Executors) /\ run[h].execution \in Executors
    BY <1>0, <1>18 DEF ExecuteComplete, RunPlaced, TypeInv, ExecutionTyped, Fetched
  <2>2. Complete(executed[k], run[h].generation, run[h].execution) \in Rows(Creators, Executors)
    BY <2>1 DEF Complete, Rows, Statuses
  <2>3. ExecutionTyped'
    BY <1>0, <1>18, <2>1, <2>2 DEF ExecuteComplete, TypeInv, ExecutionTyped
  <2> QED  BY <1>18, <2>3, <1>a, <1>c DEF ExecuteComplete, ReplyCodes
<1> QED  BY <1>1, <1>2, <1>3, <1>4, <1>5, <1>6, <1>7, <1>9, <1>10, <1>11, <1>13, <1>14, <1>15, <1>16, <1>17, <1>18 DEF Executing

LEMMA ReviewTyped ==
    ASSUME TypeInv, NEW w \in Reviewers, Reviewing(w)
    PROVE  TypeInv' /\ Others(w)
<1>0. /\ w \in Runs /\ w \notin Executors /\ run[w] \in RunLocals /\ RunPlaced(w, run[w])
      /\ run[w].at \notin {"start", "done"} =>
             /\ run[w].id \in Creators /\ request[run[w].id] \in RequestRows(Executors)
             /\ run[w].execution \in Executors /\ execution[run[w].execution] \in ExecutionRows
  BY RunsAssumption DEF TypeInv, RunTyped, AllRunsPlaced, RunPlaced, Runs, ApprovalInv, ApprovalTypeOK, ExecutionTyped
<1>a. ASSUME UNCHANGED approvalVars
      PROVE  ApprovalInv(Executors)'
  BY <1>a, InvStep DEF TypeInv
<1>b. ASSUME UNCHANGED <<execution, executed>>
      PROVE  ExecutionTyped'
  BY <1>b DEF TypeInv, ExecutionTyped
<1>c. ASSUME NEW code \in ReplyCodes, RunReply(w, code), ApprovalInv(Executors)', ExecutionTyped'
      PROVE  TypeInv' /\ Others(w)
  BY <1>0, <1>c, RunReplyEffect, RunMoveTyped DEF TypeInv
<1>1. ASSUME NEW id \in Creators, NEW decision \in {"ACCEPT_PARTIAL", "RETRY_REMAINING"}, ReviewRead(w, id, decision)
      PROVE  TypeInv' /\ Others(w)
  <2>1. run'[w].at = "done" \/ RunPlaced(w, run'[w])
    BY <1>0, <1>1, ReviewReadEffect DEF RunPlaced
  <2> QED  BY <1>0, <1>1, <2>1, <1>a, <1>b, ReviewReadEffect, RunMoveTyped
<1>2. CASE ReviewResolve(w)
  <2> DEFINE e == run[w].execution
             accepts == run[w].decision = "ACCEPT_PARTIAL"
             row == [execution[e] EXCEPT !.status = IF accepts THEN "COMPLETED" ELSE "PENDING",
                                         !.review = IF accepts THEN "ACCEPTED_PARTIAL" ELSE "RETRY_SCHEDULED"]
  <2>1. row \in ExecutionRows
    BY <1>0, <1>2 DEF ReviewResolve, ExecutionRows
  <2>2. execution' = execution \/ execution' = [execution EXCEPT ![e] = row]
    BY <1>2 DEF ReviewResolve
  <2> HIDE DEF row
  <2>3. ExecutionTyped'
    BY <1>2, <2>1, <2>2 DEF ReviewResolve, TypeInv, ExecutionTyped
  <2>4. ApprovalInv(Executors)'
    BY <1>2, <1>a DEF ReviewResolve
  <2>5. CASE RunReply(w, "REFUSED")
    BY <2>3, <2>4, <2>5, <1>c DEF ReplyCodes
  <2>6. CASE RunTo(w, "reopen")
    <3>1. RunTyped' /\ Others(w) /\ run'[w].at = "reopen" /\ SameBut(w)
      BY <1>0, <2>6, RunToEffect DEF TypeInv, RunLocations
    <3>2. RunPlaced(w, run'[w])
      BY <1>0, <1>2, <3>1 DEF RunPlaced, SameBut, ReviewResolve
    <3> QED  BY <1>0, <2>3, <2>4, <3>1, <3>2, RunMoveTyped
  <2> QED  BY <1>2, <2>5, <2>6 DEF ReviewResolve
<1>3. CASE ReviewReopen(w)
  <2> DEFINE target == IF run[w].decision = "ACCEPT_PARTIAL" THEN "COMPLETED" ELSE "READY_TO_EXECUTE"
             row == [request[run[w].id] EXCEPT !.status = target]
  <2>1. target \in {"COMPLETED", "READY_TO_EXECUTE"} /\ Transition(run[w].id, "ROLLBACK_REVIEW_REQUIRED", row)
    BY <1>3 DEF ReviewReopen
  <2> HIDE DEF target
  <2>2. /\ row \in RequestRows(Executors) /\ row.status = target
        /\ row.school = request[run[w].id].school /\ row.plan = request[run[w].id].plan
        /\ row.teacher = request[run[w].id].teacher /\ row.admin = request[run[w].id].admin
    BY <1>0, <1>3, <2>1 DEF ReviewReopen, RequestRows, RequestStatuses
  <2> HIDE DEF row
  <2>3. "ROLLBACK_REVIEW_REQUIRED" \in Decided \ TerminalStatuses /\ row.status \in Decided \ {"APPROVED"}
    BY <2>1, <2>2 DEF Decided, TerminalStatuses
  <2>4. ApprovalInv(Executors)'
    BY <1>0, <1>3, <2>1, <2>2, <2>3, RunTransition DEF ReviewReopen
  <2>5. PICK code \in ReplyCodes : RunReply(w, code)
    BY <1>3 DEF ReviewReopen, ReplyCodes
  <2> QED  BY <1>3, <2>4, <2>5, <1>b, <1>c DEF ReviewReopen
<1> QED  BY <1>1, <1>2, <1>3 DEF Reviewing

LEMMA RunTypes ==
    ASSUME TypeInv, [Next]_vars
    PROVE  TypeInv'
<1>1. CASE UNCHANGED executionVars /\ [ApprovalNext]_approvalVars
  <2>1. ApprovalInv(Executors)'
    BY <1>1, InvStep DEF TypeInv
  <2> QED  BY <1>1, <2>1 DEF TypeInv, ExecutionTyped, RunTyped, AllRunsPlaced, RunPlaced, executionVars
<1>2. ASSUME NEW h \in Runs, RunDies(h)
      PROVE  TypeInv'
  <2>1. ApprovalInv(Executors)' /\ ExecutionTyped'
    BY <1>2, InvStep DEF TypeInv, RunDies, ExecutionTyped
  <2> QED  BY <1>2, <2>1, RunReplyEffect, RunMoveTyped DEF RunDies, ReplyCodes, TypeInv
<1> QED  BY <1>1, <1>2, ExecuteTyped, ReviewTyped DEF Next, vars

-----------------------------------------------------------------------------
(* What no step takes back                                                 *)

\* A request that is decided, and its plan.
Kept(id) ==
    request[id].status \in Decided =>
        /\ request'[id].status \in Decided
        /\ request'[id].status = "APPROVED" => request[id].status = "APPROVED"
        /\ request'[id].school = request[id].school /\ request'[id].plan = request[id].plan
        /\ plan'[request[id].plan] = plan[request[id].plan]

\* A membership, and the school of a class that has moved.
Lasting ==
    /\ \A id \in Creators : Kept(id)
    /\ \A t \in Tenants : member[t] # "NONE" => member'[t] # "NONE"
    /\ \A c \in Classes : home[c] # Source => home'[c] = home[c]

LEMMA QuietLasts ==
    ASSUME UNCHANGED <<plan, member, home>>,
           \/ request' = request
           \/ \E id \in Creators : /\ request[id].status \in Decided => Executed(id)
                                   /\ \A other \in Creators \ {id} : request'[other] = request[other]
    PROVE  Lasting
  BY DEF Lasting, Kept, Executed

LEMMA StepLasts ==
    ASSUME TypeInv, [Next]_vars
    PROVE  Lasting
<1>0. /\ request \in [Creators -> RequestRows(Executors)] /\ home \in [Classes -> Tenants]
      /\ member \in [Tenants -> {"NONE", "ACTIVE", "SUSPENDED"}]
  BY DEF TypeInv, ApprovalInv, ApprovalTypeOK
<1>1. CASE [ApprovalNext]_approvalVars
  <2>1. /\ \A id \in Creators : request[id].status \in Decided => request'[id] = request[id]
        /\ home' = home
        /\ \A t \in Tenants : member[t] # "NONE" => member'[t] # "NONE"
        /\ Moves
    BY <1>1, DecidedUntouched, StepMoves DEF TypeInv
  <2>2. ASSUME NEW id \in Creators, request[id].status \in Decided
        PROVE  plan'[request[id].plan] = plan[request[id].plan]
    <3>1. plan[request[id].plan].status = "CONFIRMED" /\ request[id].plan \in Previewers
      BY <2>2 DEF TypeInv, ApprovalInv, RequestInv
    <3> QED  BY <2>1, <3>1 DEF Moves, PlanMove
  <2> QED  BY <2>1, <2>2 DEF Lasting, Kept
<1>2. ASSUME NEW h \in Executors, Executing(h)
      PROVE  Lasting
  <2>0. /\ run[h] \in RunLocals /\ RunPlaced(h, run[h])
        /\ run[h].at \notin {"start", "done"} => run[h].id \in Creators
    BY <1>2 DEF TypeInv, RunTyped, AllRunsPlaced, RunPlaced, Runs
  <2>1. CASE ExecuteLock(h)
    <3>1. \/ request' = request
          \/ /\ request[run[h].id].status = run[h].row.status
             /\ request' = [request EXCEPT ![run[h].id] = [request[run[h].id] EXCEPT !.status = "EXECUTING"]]
      BY <2>1 DEF ExecuteLock, Transition
    <3>2. request' = request \/ Executed(run[h].id)
      BY <1>0, <2>0, <2>1, <3>1 DEF Executed, ExecuteLock, RunPlaced, Decided, TerminalStatuses, RequestRows
    <3> QED  BY <1>0, <2>0, <2>1, <3>1, <3>2, QuietLasts DEF ExecuteLock, world
  <2>2. CASE ExecuteLink(h)
    <3>1. \/ request' = request
          \/ /\ request[run[h].id].status = "EXECUTING"
             /\ request' = [request EXCEPT ![run[h].id] = [request[run[h].id] EXCEPT !.execution = h]]
      BY <2>2 DEF ExecuteLink, Transition
    <3>2. request' = request \/ Executed(run[h].id)
      BY <1>0, <2>0, <2>2, <3>1 DEF Executed, ExecuteLink, RunPlaced, Decided, TerminalStatuses, RequestRows
    <3> QED  BY <1>0, <2>0, <2>2, <3>1, <3>2, QuietLasts DEF ExecuteLink, world
  <2>3. CASE ExecuteSettle(h)
    <3>1. \/ request' = request
          \/ /\ request[run[h].id].status = "EXECUTING"
             /\ request' = [request EXCEPT ![run[h].id] = [request[run[h].id] EXCEPT !.status = Ending(h)]]
      BY <2>3 DEF ExecuteSettle, Transition
    <3>2. request' = request \/ Executed(run[h].id)
      BY <1>0, <2>0, <2>3, <3>1 DEF Executed, ExecuteSettle, RunPlaced, Decided, TerminalStatuses, RequestRows, Ending
    <3> QED  BY <1>0, <2>0, <2>3, <3>1, <3>2, QuietLasts DEF ExecuteSettle, world
  <2>4. CASE ExecuteJoin(h)
    BY <1>0, <2>4 DEF ExecuteJoin, Lasting, Kept
  <2>5. ASSUME NEW c \in Classes, ExecuteTransfer(h, c)
        PROVE  Lasting
    BY <1>0, <2>5 DEF ExecuteTransfer, Lasting, Kept, Transferable
  <2> QED  BY <1>2, <2>1, <2>2, <2>3, <2>4, <2>5, QuietLasts
           DEF Executing, ExecuteRead, ExecuteUpsert, ExecuteClassify, ExecutePrior, ExecuteResume, ExecuteOpen,
               ExecuteMember, ExecuteNote, ExecuteCarry, ExecuteFinish, ExecuteComplete, approvalVars, world
<1>3. ASSUME NEW w \in Reviewers, Reviewing(w)
      PROVE  Lasting
  <2>1. CASE ReviewReopen(w)
    <3> DEFINE target == IF run[w].decision = "ACCEPT_PARTIAL" THEN "COMPLETED" ELSE "READY_TO_EXECUTE"
    <3>0. run[w].id \in Creators /\ target \in {"COMPLETED", "READY_TO_EXECUTE"}
      BY <2>1 DEF ReviewReopen, TypeInv, AllRunsPlaced, RunPlaced, Runs
    <3>1. \/ request' = request
          \/ /\ request[run[w].id].status = "ROLLBACK_REVIEW_REQUIRED"
             /\ request' = [request EXCEPT ![run[w].id] = [request[run[w].id] EXCEPT !.status = target]]
      BY <2>1 DEF ReviewReopen, Transition
    <3> HIDE DEF target
    <3>2. request' = request \/ Executed(run[w].id)
      BY <1>0, <3>0, <3>1 DEF Executed, Decided, TerminalStatuses, RequestRows
    <3> QED  BY <1>0, <2>1, <3>0, <3>1, <3>2, QuietLasts DEF ReviewReopen, world
  <2> QED  BY <1>3, <2>1, QuietLasts DEF Reviewing, ReviewRead, ReviewResolve, approvalVars, world
<1>4. CASE \E h \in Runs : RunDies(h)
  BY <1>4, QuietLasts DEF RunDies, approvalVars, world
<1> QED  BY <1>1, <1>2, <1>3, <1>4 DEF Next, vars

-----------------------------------------------------------------------------
(* One holder of a request                                                 *)

\* A call that takes no request, and leaves every status as it is.
LEMMA HoldQuiet ==
    ASSUME TypeInv, HoldInv, RowInv, Lasting, NEW h \in Runs, Others(h),
           \A id \in Creators : request'[id].status = request[id].status,
           run'[h].at \in Holding => run[h].at \in Holding /\ run'[h].id = run[h].id,
           h \in Executors /\ run'[h].at \notin {"start", "done"} =>
               \/ run[h].at \notin {"start", "done"} /\ run'[h].id = run[h].id /\ run'[h].row = run[h].row
               \/ /\ run'[h].id \in Creators /\ request[run'[h].id].status \in Decided
                  /\ run'[h].row = request[run'[h].id]
    PROVE  HoldInv' /\ RowInv'
<1>0. \A g \in Executors : run[g].at \notin {"start", "done"} => run[g].id \in Creators
  BY DEF TypeInv, AllRunsPlaced, RunPlaced, Runs
<1>1. \A g \in Executors : run[g].at \in Holding => run[g].id \in Creators
  BY <1>0 DEF Holding, Working
<1>2. \A g \in Executors : run'[g].at \in Holding => run[g].at \in Holding /\ run'[g].id = run[g].id
  BY DEF Others, Runs
<1>3. HoldInv'
  BY <1>1, <1>2 DEF HoldInv, Holds
<1>4. RowInv'
  BY <1>0 DEF RowInv, Lasting, Kept, Others, Runs
<1> QED  BY <1>3, <1>4

\* The place of a call and what it read, after a statement of execute.
LEMMA ExecuteMovesOn ==
    ASSUME TypeInv, NEW h \in Executors, Executing(h)
    PROVE  /\ run'[h].at \notin {"start", "done"} =>
                  \/ run[h].at \notin {"start", "done"} /\ run'[h].id = run[h].id /\ run'[h].row = run[h].row
                  \/ /\ run'[h].id \in Creators /\ request[run'[h].id].status \in Decided
                     /\ run'[h].row = request[run'[h].id]
           /\ run'[h].at \in Holding =>
                  run'[h].id = run[h].id /\ (run[h].at \in Holding \/ ExecuteLock(h))
<1>0. h \in Runs /\ run[h] \in RunLocals /\ RunTyped
  BY DEF TypeInv, RunTyped, Runs
<1> USE DEF Holding, Working
<1>1. ASSUME NEW id \in Creators, NEW key \in ExecuteKeys, ExecuteRead(h, id, key)
      PROVE  \/ run'[h].at = "done"
             \/ /\ run'[h].id \in Creators /\ request[run'[h].id].status \in Decided
                /\ run'[h].row = request[run'[h].id] /\ run'[h].at = "lock"
  BY <1>1, ReadEffect DEF Decided
<1>2. ASSUME NEW location \in RunLocations, RunTo(h, location)
      PROVE  run'[h].id = run[h].id /\ run'[h].row = run[h].row /\ run'[h].at = location
  BY <1>0, <1>2, RunToEffect DEF SameBut
<1>3. ASSUME NEW code \in ReplyCodes, RunReply(h, code)
      PROVE  run'[h].at = "done"
  BY <1>0, <1>3, RunReplyEffect
<1>4. ASSUME NEW unit, NEW outcome, NEW failed, NEW joined, Recorded(h, unit, outcome, failed, joined)
      PROVE  run'[h].id = run[h].id /\ run'[h].row = run[h].row /\ run'[h].at = "note"
  BY <1>4 DEF Recorded
<1>5. CASE ExecuteMember(h)
  <2>1. CASE RunTo(h, "join")
    BY <1>2, <1>5, <2>1 DEF ExecuteMember, RunLocations
  <2>2. CASE ~RunTo(h, "join")
    BY <1>0, <1>4, <1>5, <2>2, MemberEffect DEF ExecuteMember
  <2> QED  BY <2>1, <2>2
<1>6. CASE ExecuteJoin(h)
  <2>1. PICK outcome, failed, joined : Recorded(h, "membership", outcome, failed, joined)
    BY <1>0, <1>6, JoinEffect
  <2> QED  BY <1>4, <1>6, <2>1 DEF ExecuteJoin
<1>7. ASSUME NEW c \in Classes, ExecuteCarry(h, c) \/ ExecuteTransfer(h, c)
      PROVE  run'[h].id = run[h].id /\ run'[h].row = run[h].row /\ run'[h].at = "note" /\ run[h].at = "units"
  <2>1. PICK outcome \in Settled \union {"FAILED"}, failed \in BOOLEAN : Outcome(h, c, outcome, failed, "note")
    BY <1>7, SourceAssumption DEF ExecuteCarry, ExecuteTransfer, Settled
  <2>2. c \in Units
    BY DEF Units
  <2> QED  BY <1>0, <1>4, <1>7, <2>1, <2>2, OutcomeEffect DEF ExecuteCarry, ExecuteTransfer
<1>8. CASE ExecuteUpsert(h)
  BY <1>8, UpsertEffect DEF ExecuteUpsert
<1>9. CASE ExecutePrior(h)
  BY <1>9, PriorEffect DEF ExecutePrior
<1>10. CASE ExecuteLock(h)
  BY <1>2, <1>3, <1>10 DEF ExecuteLock, RunLocations, ReplyCodes
<1>11. CASE ExecuteClassify(h)
  <2>1. PICK code \in ReplyCodes : RunReply(h, code)
    BY <1>11 DEF ExecuteClassify, ReplyCodes
  <2> QED  BY <2>1, <1>3
<1>12. CASE ExecuteResume(h)
  BY <1>2, <1>3, <1>12 DEF ExecuteResume, RunLocations, ReplyCodes
<1>13. CASE ExecuteOpen(h) \/ ExecuteLink(h) \/ ExecuteNote(h) \/ ExecuteFinish(h) \/ ExecuteSettle(h)
  BY <1>2, <1>13 DEF ExecuteOpen, ExecuteLink, ExecuteNote, ExecuteFinish, ExecuteSettle, RunLocations
<1>14. CASE ExecuteComplete(h)
  BY <1>3, <1>14 DEF ExecuteComplete, ReplyCodes
<1> QED  BY <1>1, <1>5, <1>6, <1>7, <1>8, <1>9, <1>10, <1>11, <1>12, <1>13, <1>14 DEF Executing

LEMMA HoldStep ==
    ASSUME TypeInv, HoldInv, RowInv, [Next]_vars
    PROVE  HoldInv' /\ RowInv'
<1>0. /\ Lasting /\ request \in [Creators -> RequestRows(Executors)] /\ RunTyped
      /\ \A g \in Executors : run[g].at \notin {"start", "done"} => run[g].id \in Creators
  BY StepLasts DEF TypeInv, ApprovalInv, ApprovalTypeOK, AllRunsPlaced, RunPlaced, Runs
<1>1. CASE UNCHANGED executionVars /\ [ApprovalNext]_approvalVars
  <2>1. \A id \in Creators : request[id].status \in Decided => request'[id] = request[id]
    BY <1>1, DecidedUntouched DEF TypeInv
  <2>2. HoldInv'
    BY <1>0, <1>1, <2>1 DEF HoldInv, Holds, Holding, Working, executionVars, Decided
  <2>3. RowInv'
    BY <1>0, <1>1, <2>1 DEF RowInv, executionVars
  <2> QED  BY <2>2, <2>3
<1>2. ASSUME NEW h \in Executors, Executing(h)
      PROVE  HoldInv' /\ RowInv'
  <2>0. /\ h \in Runs /\ Others(h) /\ RunPlaced(h, run[h])
        /\ run'[h].at \notin {"start", "done"} =>
                  \/ run[h].at \notin {"start", "done"} /\ run'[h].id = run[h].id /\ run'[h].row = run[h].row
                  \/ /\ run'[h].id \in Creators /\ request[run'[h].id].status \in Decided
                     /\ run'[h].row = request[run'[h].id]
        /\ run'[h].at \in Holding =>
                  run'[h].id = run[h].id /\ (run[h].at \in Holding \/ ExecuteLock(h))
    BY <1>2, ExecuteTyped, ExecuteMovesOn DEF Runs, TypeInv, AllRunsPlaced
  <2>1. RowInv'
    BY <1>0, <2>0 DEF RowInv, Lasting, Kept, Others, Runs
  <2>2. CASE ExecuteLock(h)
    <3>0. PICK id \in Creators : id = run[h].id /\ run[h].at = "lock" /\ "lock" \notin Holding
      BY <1>0, <2>2 DEF ExecuteLock, Holding, Working
    <3>1. CASE request[id].status # run[h].row.status
      <4>1. request' = request /\ run'[h].at = "done"
        BY <2>0, <2>2, <3>0, <3>1, RunReplyEffect, <1>0 DEF ExecuteLock, Transition, ReplyCodes
      <4> QED  BY <1>0, <2>0, <4>1, HoldQuiet DEF Holding, Working
    <3>2. CASE request[id].status = run[h].row.status
      <4>1. /\ request[id].status # "EXECUTING" /\ request'[id].status = "EXECUTING"
            /\ \A other \in Creators \ {id} : request'[other] = request[other]
        BY <1>0, <2>0, <2>2, <3>0, <3>2 DEF ExecuteLock, Transition, RunPlaced, RequestRows
      <4>2. \A g \in Executors : ~Holds(g, id)
        BY <3>0, <4>1 DEF HoldInv, Holds
      <4>3. \A g \in Executors : Holds(g, id)' => g = h
        BY <4>2, <2>0 DEF Holds, Others, Runs
      <4>4. ASSUME NEW g \in Executors, run'[g].at \in Holding, g # h
            PROVE  /\ request'[run'[g].id].status = "EXECUTING"
                   /\ \A q \in Executors : run'[q].at \in Holding /\ run'[q].id = run'[g].id => q = g
        <5>1. run'[g] = run[g] /\ run[g].at \in Holding /\ run[g].id # id /\ run[g].id \in Creators
          BY <1>0, <2>0, <4>4, <4>2 DEF Others, Runs, Holds, Holding, Working
        <5> QED  BY <1>0, <2>0, <3>0, <4>1, <5>1 DEF HoldInv, Holds, Others, Runs, Holding, Working
      <4>5. HoldInv'
        BY <2>0, <3>0, <4>1, <4>3, <4>4 DEF HoldInv, Holds
      <4> QED  BY <2>1, <4>5
    <3> QED  BY <3>1, <3>2
  <2>3. CASE ExecuteSettle(h)
    <3>0. PICK id \in Creators : id = run[h].id /\ run[h].at = "settle" /\ Holds(h, id) /\ run'[h].at \notin Holding
      <4>1. run'[h].at = "complete"
        BY <2>0, <2>3, <1>0, RunToEffect DEF ExecuteSettle, RunLocations
      <4> QED  BY <1>0, <2>3, <4>1 DEF ExecuteSettle, Holds, Holding, Working
    <3>1. \A other \in Creators \ {id} : request'[other] = request[other]
      BY <1>0, <2>3, <3>0 DEF ExecuteSettle, Transition
    <3>2. \A g \in Executors : run'[g].at \in Holding => g # h /\ run'[g] = run[g] /\ run[g].id # id
      BY <2>0, <3>0 DEF HoldInv, Holds, Others, Runs
    <3>3. HoldInv'
      BY <1>0, <3>1, <3>2 DEF HoldInv, Holds, Holding, Working
    <3> QED  BY <2>1, <3>3
  <2>4. CASE ~ExecuteLock(h) /\ ~ExecuteSettle(h)
    <3>1. \A id \in Creators : request'[id].status = request[id].status
      <4>1. CASE ExecuteLink(h)
        BY <1>0, <4>1 DEF ExecuteLink, Transition, RequestRows
      <4>2. CASE ~ExecuteLink(h)
        BY <1>2, <2>4, <4>2
           DEF Executing, ExecuteRead, ExecuteUpsert, ExecuteClassify, ExecutePrior, ExecuteResume, ExecuteOpen,
               ExecuteMember, ExecuteJoin, ExecuteNote, ExecuteCarry, ExecuteTransfer, ExecuteFinish, ExecuteComplete,
               approvalVars
      <4> QED  BY <4>1, <4>2
    <3> QED  BY <1>0, <2>0, <2>4, <3>1, HoldQuiet
  <2> QED  BY <2>2, <2>3, <2>4
<1>3. ASSUME NEW w \in Reviewers, Reviewing(w)
      PROVE  HoldInv' /\ RowInv'
  <2>0. Others(w) /\ w \notin Executors
    BY <1>3, ReviewTyped, RunsAssumption
  <2>1. \A g \in Executors : run'[g] = run[g]
    BY <2>0 DEF Others, Runs
  <2>2. \A id \in Creators : request[id].status = "EXECUTING" => request'[id].status = "EXECUTING"
    BY <1>0, <1>3 DEF Reviewing, ReviewRead, ReviewResolve, ReviewReopen, Transition, approvalVars, RequestRows
  <2>3. HoldInv'
    BY <1>0, <2>1, <2>2 DEF HoldInv, Holds, Holding, Working
  <2>4. RowInv'
    BY <1>0, <2>1 DEF RowInv, Lasting, Kept
  <2> QED  BY <2>3, <2>4
<1>4. ASSUME NEW h \in Runs, RunDies(h)
      PROVE  HoldInv' /\ RowInv'
  <2>1. Others(h) /\ run'[h].at = "done"
    BY <1>0, <1>4, RunReplyEffect DEF RunDies, ReplyCodes
  <2> QED  BY <1>0, <1>4, <2>1, HoldQuiet DEF RunDies, approvalVars, Holding, Working
<1> QED  BY <1>1, <1>2, <1>3, <1>4 DEF Next, vars

-----------------------------------------------------------------------------
(* One execution row for a request, and who may change its status          *)

\* What the names of calls, requests and execution rows refer to.
Named ==
    /\ Null \notin Executors /\ Null \notin Creators /\ Executors \intersect Reviewers = {}
    /\ request \in [Creators -> RequestRows(Executors)] /\ execution \in [Executors -> ExecutionRows]
    /\ \A i \in Creators : request[i].execution \in Executors \union {Null}
    /\ \A d \in Executors : execution[d].id \in Creators \union {Null}
    /\ \A g \in Executors :
           /\ run[g].row.execution \in Executors \union {Null}
           /\ run[g].at \notin {"start", "done"} => run[g].id \in Creators
           /\ run[g].at \notin {"resolve", "reopen"}
           /\ run[g].at \in Fetched => run[g].execution \in Executors
    /\ \A v \in Reviewers :
           /\ run[v].at \in {"start", "done", "resolve", "reopen"}
           /\ run[v].at \in {"resolve", "reopen"} => run[v].id \in Creators /\ run[v].execution \in Executors

LEMMA NamedHolds == ASSUME TypeInv PROVE Named
<1>1. Null \notin Executors /\ Null \notin Creators /\ Executors \intersect Reviewers = {}
  BY RunsAssumption, CallsAssumption DEF Calls
<1>2. /\ request \in [Creators -> RequestRows(Executors)] /\ execution \in [Executors -> ExecutionRows]
      /\ run \in [Runs -> RunLocals] /\ AllRunsPlaced
  BY DEF TypeInv, ApprovalInv, ApprovalTypeOK, ExecutionTyped, RunTyped
<1>3. /\ \A i \in Creators : request[i].execution \in Executors \union {Null}
      /\ \A d \in Executors : execution[d].id \in Creators \union {Null}
  BY <1>2 DEF RequestRows, ExecutionRows
<1>4. ASSUME NEW g \in Executors
      PROVE  /\ run[g].row.execution \in Executors \union {Null}
             /\ run[g].at \notin {"start", "done"} => run[g].id \in Creators
             /\ run[g].at \notin {"resolve", "reopen"}
             /\ run[g].at \in Fetched => run[g].execution \in Executors
  <2>1. run[g] \in RunLocals /\ RunPlaced(g, run[g])
    BY <1>2 DEF Runs, AllRunsPlaced
  <2>2. run[g].row \in RequestRows(Executors)
    BY <2>1 DEF RunLocals
  <2> QED  BY <2>1, <2>2 DEF RequestRows, RunPlaced, Fetched
<1>5. ASSUME NEW v \in Reviewers
      PROVE  /\ run[v].at \in {"start", "done", "resolve", "reopen"}
             /\ run[v].at \in {"resolve", "reopen"} => run[v].id \in Creators /\ run[v].execution \in Executors
  BY <1>2 DEF Runs, AllRunsPlaced, RunPlaced
<1> QED  BY <1>1, <1>2, <1>3, <1>4, <1>5 DEF Named

\* The columns of the execution rows that say whose they are and how they stand.
SameRows == \A d \in Executors : /\ execution'[d].status = execution[d].status /\ execution'[d].id = execution[d].id
                                 /\ execution'[d].review = execution[d].review
                                 /\ execution[d].id = Null => execution'[d] = execution[d]

SameRequests == \A i \in Creators : /\ request'[i].status = request[i].status
                                    /\ request'[i].execution = request[i].execution

\* A call that moves on within execute or review, or leaves it.
Passing(h) ==
    /\ Others(h)
    /\ h \in Executors /\ run'[h].at \in Holding => run[h].at \in Holding \ {"settle"} /\ run'[h].id = run[h].id
    /\ h \in Reviewers => run'[h].at # "reopen"

LEMMA StageQuiet ==
    ASSUME Named, StageInv, NEW h \in Runs, Passing(h), SameRows, SameRequests,
           h \in Executors => ExecutorInv(h)', h \in Reviewers => ReviewerInv(h)'
    PROVE  StageInv'
<1>1. OneRunPerRequest'
  BY DEF StageInv, OneRunPerRequest, SameRows
<1>2. ASSUME NEW i \in Creators PROVE RequestRun(i)' /\ (Fresh(i) => Fresh(i)')
  BY DEF Named, StageInv, RequestRun, Fresh, SameRows, SameRequests
<1>3. \A i \in Creators : Idling(i) => Idling(i)'
  BY DEF Idling, Holds, Passing, Others, Runs
<1>4. ASSUME NEW d \in Executors PROVE ExecutionInv(d)'
  <2>1. ExecutionInv(d) /\ (execution[d].id = Null => execution'[d] = NoExecution)
    BY DEF StageInv, ExecutionInv, SameRows
  <2>2. execution[d].id = Null => execution[d].status # "ROLLBACK_REVIEW_REQUIRED"
    BY <2>1 DEF ExecutionInv, NoExecution
  <2> QED  BY <1>3, <2>1, <2>2 DEF ExecutionInv, Named, SameRows, SameRequests
<1>5. ASSUME NEW g \in Executors, g # h PROVE ExecutorInv(g)'
  <2>1. run'[g] = run[g] /\ ExecutorInv(g)
    BY <1>5 DEF Passing, Others, Runs, StageInv
  <2>2. execution[g] = NoExecution => execution'[g] = NoExecution
    BY DEF SameRows, NoExecution
  <2> QED  BY <1>2, <2>1, <2>2 DEF ExecutorInv, Named, SameRows, SameRequests, Fetched
<1>6. ASSUME NEW w \in Reviewers, w # h PROVE ReviewerInv(w)'
  <2>1. run'[w] = run[w] /\ ReviewerInv(w)
    BY <1>6 DEF Passing, Others, Runs, StageInv
  <2>2. \A v \in Reviewers : run'[v].at = "reopen" => run'[v] = run[v]
    BY DEF Passing, Others, Runs
  <2> QED  BY <1>3, <2>1, <2>2 DEF ReviewerInv, Named, SameRows, SameRequests
<1> QED  BY <1>1, <1>2, <1>4, <1>5, <1>6 DEF StageInv, Runs

\* The lock: nobody holds the request, nobody reviews its execution.
LEMMA StageLock ==
    ASSUME Named, HoldInv, StageInv, NEW h \in Executors, NEW id \in Creators, Others(h),
           run[h].id = id, run[h].at = "lock", run[h].row.status = request[id].status,
           run[h].row.status \in {"APPROVED", "READY_TO_EXECUTE"},
           run'[h].at = "upsert", run'[h].id = id, run'[h].row = run[h].row, execution' = execution,
           request'[id].status = "EXECUTING", request'[id].execution = request[id].execution,
           \A i \in Creators \ {id} : request'[i] = request[i]
    PROVE  StageInv'
<1>1. OneRunPerRequest'
  BY DEF StageInv, OneRunPerRequest
<1>2. ASSUME NEW i \in Creators PROVE RequestRun(i)' /\ (Fresh(i) <=> Fresh(i)')
  BY DEF StageInv, RequestRun, Fresh
<1>3. \A i \in Creators \ {id} : Idling(i) => Idling(i)'
  BY DEF Idling, Holds, Others, Runs
<1>4. ASSUME NEW d \in Executors PROVE ExecutionInv(d)'
  <2>1. ExecutionInv(d) /\ (execution[d].id = Null => execution[d].status # "ROLLBACK_REVIEW_REQUIRED")
    BY DEF StageInv, ExecutionInv, NoExecution
  <2> QED  BY <1>3, <2>1 DEF ExecutionInv, Named
<1>5. ASSUME NEW g \in Executors, g # h PROVE ExecutorInv(g)'
  <2>1. run'[g] = run[g] /\ ExecutorInv(g)
    BY <1>5 DEF Others, Runs, StageInv
  <2>2. \A i \in Creators : request'[i].execution = request[i].execution
    OBVIOUS
  <2> QED  BY <1>2, <2>1, <2>2 DEF ExecutorInv, Named, Fetched
<1>6. ExecutorInv(h)'
  <2>1. ExecutorInv(h) /\ RequestRun(id)
    BY DEF StageInv
  <2> QED  BY <1>2, <2>1 DEF ExecutorInv, RequestRun
<1>7. ASSUME NEW w \in Reviewers PROVE ReviewerInv(w)'
  <2>1. \A v \in Reviewers : run'[v] = run[v] /\ ReviewerInv(v)
    BY DEF Others, Runs, StageInv, Named
  <2> QED  BY <1>3, <2>1 DEF ReviewerInv, Named
<1> QED  BY <1>1, <1>2, <1>4, <1>5, <1>6, <1>7 DEF StageInv

\* A row that is PENDING is put back to work, by the holder of its request.
LEMMA StageResume ==
    ASSUME Named, HoldInv, StageInv, NEW h \in Executors, NEW id \in Creators, NEW e \in Executors, Others(h),
           run[h].id = id, run[h].at = "resume", run[h].execution = e, execution[e].status = "PENDING",
           run'[h].at = "member", run'[h].id = id, run'[h].execution = e, request' = request,
           execution'[e].status = "IN_PROGRESS", execution'[e].id = execution[e].id,
           \A d \in Executors \ {e} : execution'[d] = execution[d]
    PROVE  StageInv'
<1>0. /\ execution[e].id = id /\ request[id].execution = e /\ request[id].status = "EXECUTING" /\ Holds(h, id)
      /\ \A g \in Executors : Holds(g, id) => g = h
  BY DEF StageInv, ExecutorInv, RequestRun, Named, HoldInv, Holds, Holding, Working
<1>1. OneRunPerRequest'
  BY DEF StageInv, OneRunPerRequest
<1>2. ASSUME NEW i \in Creators PROVE RequestRun(i)' /\ (Fresh(i) <=> Fresh(i)')
  <2>1. request[i].execution = e => i = id
    BY <1>0 DEF StageInv, RequestRun, Named
  <2> QED  BY <1>0, <2>1 DEF StageInv, RequestRun, Fresh, Named
<1>3. \A i \in Creators : Idling(i) => Idling(i)'
  BY <1>0 DEF Idling, Holds, Others, Runs
<1>4. ASSUME NEW d \in Executors PROVE ExecutionInv(d)'
  <2>1. ExecutionInv(d) /\ (execution[d].id = Null => execution[d].status # "ROLLBACK_REVIEW_REQUIRED")
    BY DEF StageInv, ExecutionInv, NoExecution
  <2> QED  BY <1>0, <1>3, <2>1 DEF ExecutionInv, Named
<1>5. ASSUME NEW g \in Executors, g # h PROVE ExecutorInv(g)'
  <2>1. run'[g] = run[g] /\ ExecutorInv(g) /\ ~Holds(g, id)
    BY <1>0, <1>5 DEF Others, Runs, StageInv
  <2>2. ASSUME NEW i \in Creators, request[i].execution = e PROVE i = id
    BY <1>0, <2>2 DEF StageInv, RequestRun, Named
  <2>3. execution[g] = NoExecution => g # e
    BY DEF NoExecution
  <2> QED  BY <1>2, <2>1, <2>2, <2>3 DEF ExecutorInv, Named, Fetched, Holds, Holding, Working
<1>6. ExecutorInv(h)'
  BY <1>0 DEF ExecutorInv
<1>7. ASSUME NEW w \in Reviewers PROVE ReviewerInv(w)'
  <2>1. \A v \in Reviewers : run'[v] = run[v] /\ ReviewerInv(v)
    BY DEF Others, Runs, StageInv, Named
  <2>2. run[w].at = "reopen" => run[w].execution # e
    <3>1. ASSUME run[w].at = "reopen", run[w].execution = e PROVE FALSE
      <4>1. request[run[w].id].execution = e /\ Idling(run[w].id) /\ run[w].id \in Creators
        BY <2>1, <3>1 DEF ReviewerInv, Named
      <4>2. run[w].id = id
        BY <1>0, <4>1 DEF StageInv, RequestRun, Named
      <4> QED  BY <1>0, <4>1, <4>2 DEF Idling
    <3> QED  BY <3>1
  <2> QED  BY <1>3, <2>1, <2>2 DEF ReviewerInv, Named
<1> QED  BY <1>1, <1>2, <1>4, <1>5, <1>6, <1>7 DEF StageInv

\* The first execution of a request opens the row of this call.
LEMMA StageOpen ==
    ASSUME Named, HoldInv, StageInv, NEW h \in Executors, NEW id \in Creators, Others(h),
           run[h].id = id, run[h].at = "open", run[h].execution = h,
           run'[h].at = "link", run'[h].id = id, run'[h].execution = h, request' = request,
           execution'[h].status = "IN_PROGRESS", execution'[h].id = id,
           \A d \in Executors \ {h} : execution'[d] = execution[d]
    PROVE  StageInv'
<1>0. /\ execution[h] = NoExecution /\ Fresh(id) /\ request[id].execution = Null
      /\ request[id].status = "EXECUTING" /\ Holds(h, id)
      /\ \A g \in Executors : Holds(g, id) => g = h
      /\ execution[h].status = "ABSENT" /\ execution[h].id = Null
  BY DEF StageInv, ExecutorInv, HoldInv, Holds, Holding, Working, NoExecution
<1>1. OneRunPerRequest'
  BY <1>0 DEF StageInv, OneRunPerRequest, Fresh
<1>2. ASSUME NEW i \in Creators
      PROVE  /\ RequestRun(i)' /\ (i # id /\ Fresh(i) => Fresh(i)')
             /\ request[i].execution # h
  <2>1. request[i].execution # h
    BY <1>0 DEF StageInv, RequestRun, Named
  <2>2. i # id /\ Fresh(i) => Fresh(i)'
    BY DEF Fresh
  <2> QED  BY <1>0, <2>1, <2>2 DEF StageInv, RequestRun, Named
<1>3. \A i \in Creators : Idling(i) => Idling(i)'
  BY <1>0 DEF Idling, Holds, Others, Runs
<1>4. ASSUME NEW d \in Executors PROVE ExecutionInv(d)'
  <2>1. ExecutionInv(d) /\ (execution[d].id = Null => execution[d].status # "ROLLBACK_REVIEW_REQUIRED")
    BY DEF StageInv, ExecutionInv, NoExecution
  <2> QED  BY <1>0, <1>3, <2>1 DEF ExecutionInv, Named
<1>5. ASSUME NEW g \in Executors, g # h PROVE ExecutorInv(g)'
  <2>1. run'[g] = run[g] /\ ExecutorInv(g) /\ ~Holds(g, id)
    BY <1>0, <1>5 DEF Others, Runs, StageInv
  <2> QED  BY <1>0, <1>2, <1>5, <2>1 DEF ExecutorInv, Named, Fetched, Holds, Holding, Working
<1>6. ExecutorInv(h)'
  BY <1>0 DEF ExecutorInv
<1>7. ASSUME NEW w \in Reviewers PROVE ReviewerInv(w)'
  <2>1. \A v \in Reviewers : run'[v] = run[v] /\ ReviewerInv(v)
    BY DEF Others, Runs, StageInv, Named
  <2> QED  BY <1>2, <1>3, <2>1 DEF ReviewerInv, Named
<1> QED  BY <1>1, <1>2, <1>4, <1>5, <1>6, <1>7 DEF StageInv

\* The request is pointed to the row of this call.
LEMMA StageLink ==
    ASSUME Named, HoldInv, StageInv, NEW h \in Executors, NEW id \in Creators, Others(h),
           run[h].id = id, run[h].at = "link", run[h].execution = h,
           run'[h].at = "member", run'[h].id = id, run'[h].execution = h, execution' = execution,
           request'[id].status = "EXECUTING", request'[id].execution = h,
           \A i \in Creators \ {id} : request'[i] = request[i]
    PROVE  StageInv'
<1>0. /\ execution[h].id = id /\ execution[h].status = "IN_PROGRESS" /\ request[id].execution = Null
      /\ request[id].status = "EXECUTING" /\ Holds(h, id)
      /\ \A g \in Executors : Holds(g, id) => g = h
  BY DEF StageInv, ExecutorInv, HoldInv, Holds, Holding, Working
<1>1. OneRunPerRequest'
  BY DEF StageInv, OneRunPerRequest
<1>2. ASSUME NEW i \in Creators PROVE RequestRun(i)' /\ (Fresh(i) <=> Fresh(i)')
  BY <1>0 DEF StageInv, RequestRun, Fresh
<1>3. \A i \in Creators : Idling(i) => Idling(i)'
  BY <1>0 DEF Idling, Holds, Others, Runs
<1>4. ASSUME NEW d \in Executors PROVE ExecutionInv(d)'
  <2>1. ExecutionInv(d) /\ (execution[d].id = Null => execution[d].status # "ROLLBACK_REVIEW_REQUIRED")
    BY DEF StageInv, ExecutionInv, NoExecution
  <2> QED  BY <1>0, <1>3, <2>1 DEF ExecutionInv, Named
<1>5. ASSUME NEW g \in Executors, g # h PROVE ExecutorInv(g)'
  <2>1. run'[g] = run[g] /\ ExecutorInv(g) /\ ~Holds(g, id)
    BY <1>0, <1>5 DEF Others, Runs, StageInv
  <2> QED  BY <1>0, <1>2, <2>1 DEF ExecutorInv, Named, Fetched, Holds, Holding, Working
<1>6. ExecutorInv(h)'
  BY <1>0 DEF ExecutorInv
<1>7. ASSUME NEW w \in Reviewers PROVE ReviewerInv(w)'
  <2>1. \A v \in Reviewers : run'[v] = run[v] /\ ReviewerInv(v)
    BY DEF Others, Runs, StageInv, Named
  <2> QED  BY <1>0, <1>3, <2>1 DEF ReviewerInv, Named
<1> QED  BY <1>1, <1>2, <1>4, <1>5, <1>6, <1>7 DEF StageInv

\* The units are done: the row says how, before the request does.
LEMMA StageFinish ==
    ASSUME Named, HoldInv, StageInv, NEW h \in Executors, NEW id \in Creators, NEW e \in Executors, Others(h),
           run[h].id = id, run[h].at = "units", run[h].execution = e,
           run'[h].at = "settle", run'[h].id = id, run'[h].execution = e, run'[h].failed = run[h].failed,
           request' = request, execution'[e].status = Ending(h), execution'[e].id = execution[e].id,
           \A d \in Executors \ {e} : execution'[d] = execution[d]
    PROVE  StageInv'
<1>0. /\ execution[e].id = id /\ execution[e].status = "IN_PROGRESS" /\ request[id].execution = e
      /\ request[id].status = "EXECUTING" /\ Holds(h, id)
      /\ \A g \in Executors : Holds(g, id) => g = h
  BY DEF StageInv, ExecutorInv, RequestRun, Named, HoldInv, Holds, Holding, Working
<1>1. OneRunPerRequest'
  BY DEF StageInv, OneRunPerRequest
<1>2. ASSUME NEW i \in Creators
      PROVE  RequestRun(i)' /\ (Fresh(i) <=> Fresh(i)') /\ (request[i].execution = e => i = id)
  <2>1. request[i].execution = e => i = id
    BY <1>0 DEF StageInv, RequestRun, Named
  <2> QED  BY <1>0, <2>1 DEF StageInv, RequestRun, Fresh, Named
<1>3. \A i \in Creators : Idling(i) => Idling(i)'
  BY <1>0 DEF Idling, Holds, Others, Runs
<1>4. ASSUME NEW d \in Executors PROVE ExecutionInv(d)'
  <2>1. ExecutionInv(d) /\ (execution[d].id = Null => execution[d].status # "ROLLBACK_REVIEW_REQUIRED")
    BY DEF StageInv, ExecutionInv, NoExecution
  <2>2. CASE d # e
    BY <1>3, <2>1, <2>2 DEF ExecutionInv, Named
  <2>3. CASE d = e
    <3>1. run[h].failed => Idling(id)'
      BY <1>0 DEF Idling, Holds, Others, Runs
    <3> QED  BY <1>0, <2>3, <3>1 DEF ExecutionInv, Ending, Named
  <2> QED  BY <2>2, <2>3
<1>5. ASSUME NEW g \in Executors, g # h PROVE ExecutorInv(g)'
  <2>1. run'[g] = run[g] /\ ExecutorInv(g) /\ ~Holds(g, id)
    BY <1>0, <1>5 DEF Others, Runs, StageInv
  <2>2. execution[g] = NoExecution => g # e
    BY <1>0 DEF NoExecution
  <2> QED  BY <1>0, <1>2, <2>1, <2>2 DEF ExecutorInv, Named, Fetched, Holds, Holding, Working
<1>6. ExecutorInv(h)'
  BY <1>0 DEF ExecutorInv, Ending
<1>7. ASSUME NEW w \in Reviewers PROVE ReviewerInv(w)'
  <2>1. \A v \in Reviewers : run'[v] = run[v] /\ ReviewerInv(v)
    BY DEF Others, Runs, StageInv, Named
  <2>2. ASSUME run[w].at = "reopen", run[w].execution = e PROVE FALSE
    <3>1. request[run[w].id].execution = e /\ Idling(run[w].id) /\ run[w].id \in Creators
      BY <2>1, <2>2 DEF ReviewerInv, Named
    <3> QED  BY <1>0, <1>2, <3>1 DEF Idling
  <2> QED  BY <1>3, <2>1, <2>2 DEF ReviewerInv, Named
<1> QED  BY <1>1, <1>2, <1>4, <1>5, <1>6, <1>7 DEF StageInv

\* The request follows, and is let go.
LEMMA StageSettle ==
    ASSUME Named, HoldInv, StageInv, NEW h \in Executors, NEW id \in Creators, Others(h),
           run[h].id = id, run[h].at = "settle", run'[h].at = "complete", execution' = execution,
           request'[id].status = Ending(h), request'[id].execution = request[id].execution,
           \A i \in Creators \ {id} : request'[i] = request[i]
    PROVE  StageInv'
<1> DEFINE e == request[id].execution
<1>0. /\ e = run[h].execution /\ e \in Executors /\ execution[e].id = id
      /\ ~run[h].failed => execution[e].status = "COMPLETED"
      /\ request[id].status = "EXECUTING" /\ Holds(h, id)
      /\ \A g \in Executors : Holds(g, id) => g = h
  BY DEF StageInv, ExecutorInv, RequestRun, Named, HoldInv, Holds, Holding, Working, Fetched
<1>1. OneRunPerRequest'
  BY DEF StageInv, OneRunPerRequest
<1>2. ASSUME NEW i \in Creators PROVE RequestRun(i)' /\ (Fresh(i) <=> Fresh(i)')
  BY <1>0 DEF StageInv, RequestRun, Fresh, Named, Ending
<1>3. \A i \in Creators : Idling(i) => Idling(i)'
  BY DEF Idling, Holds, Others, Runs, Holding, Working
<1>4. ASSUME NEW d \in Executors PROVE ExecutionInv(d)'
  <2>1. ExecutionInv(d) /\ (execution[d].id = Null => execution[d].status # "ROLLBACK_REVIEW_REQUIRED")
    BY DEF StageInv, ExecutionInv, NoExecution
  <2>2. execution[d].id = id => d = e
    BY <1>0 DEF StageInv, OneRunPerRequest, Named
  <2> QED  BY <1>0, <1>3, <2>1, <2>2 DEF ExecutionInv, Named, Ending
<1>5. ASSUME NEW g \in Executors PROVE ExecutorInv(g)'
  <2>1. CASE g = h
    BY <2>1 DEF ExecutorInv
  <2>2. CASE g # h
    <3>1. run'[g] = run[g] /\ ExecutorInv(g)
      BY <2>2 DEF Others, Runs, StageInv
    <3>2. \A i \in Creators : request'[i].execution = request[i].execution
      OBVIOUS
    <3> QED  BY <1>2, <3>1, <3>2 DEF ExecutorInv, Named, Fetched
  <2> QED  BY <2>1, <2>2
<1>7. ASSUME NEW w \in Reviewers PROVE ReviewerInv(w)'
  <2>1. \A v \in Reviewers : run'[v] = run[v] /\ ReviewerInv(v)
    BY DEF Others, Runs, StageInv, Named
  <2>2. Idling(id) => run[h].failed
    BY <1>0 DEF Idling
  <2> QED  BY <1>3, <2>1, <2>2 DEF ReviewerInv, Named, Ending
<1> QED  BY <1>1, <1>2, <1>4, <1>5, <1>7 DEF StageInv

\* A review resolves the row; the request follows later.
LEMMA StageResolve ==
    ASSUME Named, HoldInv, StageInv, NEW w \in Reviewers, NEW id \in Creators, NEW e \in Executors, Others(w),
           run[w].id = id, run[w].at = "resolve", run[w].execution = e,
           execution[e].status = "ROLLBACK_REVIEW_REQUIRED",
           run'[w].at = "reopen", run'[w].id = id, run'[w].execution = e, run'[w].decision = run[w].decision,
           request' = request,
           execution'[e].id = execution[e].id,
           IF run[w].decision = "ACCEPT_PARTIAL"
           THEN execution'[e].status = "COMPLETED" /\ execution'[e].review = "ACCEPTED_PARTIAL"
           ELSE execution'[e].status = "PENDING",
           \A d \in Executors \ {e} : execution'[d] = execution[d]
    PROVE  StageInv'
<1>0. /\ request[id].execution = e /\ execution[e].id = id /\ Idling(id)
      /\ request[id].status \in {"EXECUTING", "ROLLBACK_REVIEW_REQUIRED"}
  BY DEF StageInv, ReviewerInv, RequestRun, ExecutionInv, Named
<1>1. OneRunPerRequest'
  BY DEF StageInv, OneRunPerRequest
<1>2. ASSUME NEW i \in Creators
      PROVE  RequestRun(i)' /\ (Fresh(i) <=> Fresh(i)') /\ (request[i].execution = e => i = id)
  <2>1. request[i].execution = e => i = id
    BY <1>0 DEF StageInv, RequestRun, Named
  <2> QED  BY <1>0, <2>1 DEF StageInv, RequestRun, Fresh, Named
<1>3. \A i \in Creators : Idling(i) => Idling(i)'
  BY DEF Idling, Holds, Others, Runs, Named
<1>4. ASSUME NEW d \in Executors PROVE ExecutionInv(d)'
  <2>1. ExecutionInv(d) /\ (execution[d].id = Null => execution[d].status # "ROLLBACK_REVIEW_REQUIRED")
    BY DEF StageInv, ExecutionInv, NoExecution
  <2> QED  BY <1>0, <1>3, <2>1 DEF ExecutionInv, Named
<1>5. ASSUME NEW g \in Executors PROVE ExecutorInv(g)'
  <2>1. run'[g] = run[g] /\ ExecutorInv(g)
    BY DEF Others, Runs, StageInv, Named
  <2>2. execution[g] = NoExecution => g # e
    BY DEF NoExecution
  <2> QED  BY <1>2, <2>1, <2>2 DEF ExecutorInv, Named, Fetched
<1>6. ASSUME NEW v \in Reviewers, run[v].at = "reopen"
      PROVE  run[v].execution # e /\ run[v].id # id
  BY <1>0, <1>6 DEF StageInv, ReviewerInv, Named
<1>7. ASSUME NEW v \in Reviewers PROVE ReviewerInv(v)'
  <2>1. CASE v = w
    <3>1. \A u \in Reviewers : run'[u].at = "reopen" /\ run'[u].id = id => u = w
      BY <1>6 DEF Others, Runs
    <3> QED  BY <1>0, <1>3, <2>1, <3>1 DEF ReviewerInv
  <2>2. CASE v # w
    <3>1. run'[v] = run[v] /\ ReviewerInv(v) /\ (run[v].at = "reopen" => run[v].execution # e /\ run[v].id # id)
      BY <1>6, <2>2 DEF Others, Runs, StageInv
    <3>2. \A u \in Reviewers : run'[u].at = "reopen" => run'[u] = run[u] \/ run'[u].id = id
      BY DEF Others, Runs
    <3> QED  BY <1>3, <3>1, <3>2 DEF ReviewerInv, Named
  <2> QED  BY <2>1, <2>2
<1> QED  BY <1>1, <1>2, <1>4, <1>5, <1>7 DEF StageInv

\* The request follows the row that a review resolved.
LEMMA StageReopen ==
    ASSUME Named, HoldInv, StageInv, NEW w \in Reviewers, NEW id \in Creators, Others(w),
           run[w].id = id, run[w].at = "reopen", run'[w].at = "done", execution' = execution,
           run[w].decision \in {"ACCEPT_PARTIAL", "RETRY_REMAINING"},
           request[id].status = "ROLLBACK_REVIEW_REQUIRED",
           request'[id].status = (IF run[w].decision = "ACCEPT_PARTIAL" THEN "COMPLETED" ELSE "READY_TO_EXECUTE"),
           request'[id].execution = request[id].execution,
           \A i \in Creators \ {id} : request'[i] = request[i]
    PROVE  StageInv'
<1> DEFINE e == request[id].execution
<1>0. /\ e = run[w].execution /\ e \in Executors /\ execution[e].id = id
      /\ execution[e].status = (IF run[w].decision = "ACCEPT_PARTIAL" THEN "COMPLETED" ELSE "PENDING")
      /\ \A v \in Reviewers : run[v].at = "reopen" /\ run[v].id = id => v = w
  BY DEF StageInv, ReviewerInv, RequestRun, Named
<1>1. OneRunPerRequest'
  BY DEF StageInv, OneRunPerRequest
<1>2. ASSUME NEW i \in Creators PROVE RequestRun(i)' /\ (Fresh(i) <=> Fresh(i)')
  BY <1>0 DEF StageInv, RequestRun, Fresh, Named
<1>3. \A i \in Creators : Idling(i) => Idling(i)'
  BY DEF Idling, Holds, Others, Runs, Named
<1>4. ASSUME NEW d \in Executors PROVE ExecutionInv(d)'
  <2>1. ExecutionInv(d) /\ (execution[d].id = Null => execution[d].status # "ROLLBACK_REVIEW_REQUIRED")
    BY DEF StageInv, ExecutionInv, NoExecution
  <2>2. execution[d].id = id => d = e
    BY <1>0 DEF StageInv, OneRunPerRequest, Named
  <2> QED  BY <1>0, <1>3, <2>1, <2>2 DEF ExecutionInv, Named
<1>5. ASSUME NEW g \in Executors PROVE ExecutorInv(g)'
  <2>1. run'[g] = run[g] /\ ExecutorInv(g)
    BY DEF Others, Runs, StageInv, Named
  <2>2. \A i \in Creators : request'[i].execution = request[i].execution
    OBVIOUS
  <2> QED  BY <1>2, <2>1, <2>2 DEF ExecutorInv, Named, Fetched
<1>7. ASSUME NEW v \in Reviewers PROVE ReviewerInv(v)'
  <2>1. CASE v = w
    BY <2>1 DEF ReviewerInv
  <2>2. CASE v # w
    <3>1. run'[v] = run[v] /\ ReviewerInv(v) /\ (run[v].at = "reopen" => run[v].id # id)
      BY <1>0, <2>2 DEF Others, Runs, StageInv
    <3>2. \A u \in Reviewers : run'[u].at = "reopen" => run'[u] = run[u]
      BY DEF Others, Runs
    <3>3. \A i \in Creators : request'[i].execution = request[i].execution
      OBVIOUS
    <3> QED  BY <1>3, <3>1, <3>2, <3>3 DEF ReviewerInv, Named
  <2> QED  BY <2>1, <2>2
<1> QED  BY <1>1, <1>2, <1>4, <1>5, <1>7 DEF StageInv

\* What the handlers before the approval do is no matter of an execution.
LEMMA StageApproval ==
    ASSUME TypeInv, Named, RowInv, StageInv, [ApprovalNext]_approvalVars, UNCHANGED executionVars
    PROVE  StageInv'
<1>0. /\ Moves /\ execution' = execution /\ run' = run
      /\ \A i \in Creators : request[i].status \in Decided => request'[i] = request[i]
  BY DecidedUntouched, StepMoves DEF TypeInv, executionVars
<1>1. OneRunPerRequest'
  BY <1>0 DEF StageInv, OneRunPerRequest
<1>2. ASSUME NEW i \in Creators
      PROVE  /\ RequestRun(i)' /\ (Fresh(i) <=> Fresh(i)')
             /\ request[i].execution # Null => request'[i] = request[i]
  <2>1. CASE request[i].status \in Decided
    BY <1>0, <2>1 DEF StageInv, RequestRun, Fresh
  <2>2. CASE request[i].status \notin Decided
    <3>1. request[i].execution = Null /\ Fresh(i)
      BY <2>2 DEF StageInv, RequestRun, Decided
    <3>2. request'[i].execution = Null
          /\ request'[i].status \notin {"EXECUTING", "COMPLETED", "ROLLBACK_REVIEW_REQUIRED", "READY_TO_EXECUTE"}
      <4>1. CASE request'[i] = request[i]
        BY <2>2, <3>1, <4>1 DEF Decided
      <4>2. CASE RequestMove(i)
        <5>0. request[i] \in RequestRows(Executors) /\ ~Executed(i)
          BY <2>2 DEF Named, Executed
        <5>1. CASE Opened(i)
          BY <5>1 DEF Opened, NoRequest
        <5>2. CASE Previewed(i)
          BY <3>1, <5>0, <5>2 DEF Previewed, RequestRows
        <5>3. CASE FirstApproval(i) \/ SecondApproval(i) \/ Rejected(i)
          BY <3>1, <5>0, <5>3 DEF FirstApproval, SecondApproval, Rejected, RequestRows
        <5> QED  BY <4>2, <5>0, <5>1, <5>2, <5>3 DEF RequestMove
      <4> QED  BY <1>0, <4>1, <4>2 DEF Moves
    <3> QED  BY <1>0, <3>1, <3>2 DEF RequestRun, Fresh
  <2> QED  BY <2>1, <2>2
<1>3. \A i \in Creators : Idling(i) => Idling(i)'
  BY <1>0 DEF Idling, Holds
<1>4. ASSUME NEW d \in Executors PROVE ExecutionInv(d)'
  <2>1. ExecutionInv(d) /\ (execution[d].id = Null => execution[d].status # "ROLLBACK_REVIEW_REQUIRED")
    BY DEF StageInv, ExecutionInv, NoExecution
  <2> QED  BY <1>0, <1>3, <2>1 DEF ExecutionInv, Named, Decided
<1>5. ASSUME NEW g \in Executors PROVE ExecutorInv(g)'
  <2>1. run'[g] = run[g] /\ ExecutorInv(g)
    BY <1>0 DEF StageInv
  <2>2. run[g].at \notin {"start", "done"} => request'[run[g].id] = request[run[g].id]
    BY <1>0 DEF RowInv, Named
  <2> QED  BY <1>0, <1>2, <2>1, <2>2 DEF ExecutorInv, Named, Fetched
<1>7. ASSUME NEW w \in Reviewers PROVE ReviewerInv(w)'
  <2>1. \A v \in Reviewers : run'[v] = run[v] /\ ReviewerInv(v)
    BY <1>0 DEF StageInv
  <2> QED  BY <1>0, <1>2, <1>3, <2>1 DEF ReviewerInv, Named
<1> QED  BY <1>1, <1>2, <1>4, <1>5, <1>7 DEF StageInv

LEMMA StageExecute ==
    ASSUME TypeInv, Named, HoldInv, RowInv, StageInv, NEW h \in Executors, Executing(h)
    PROVE  StageInv'
<1>0. /\ h \in Runs /\ h \notin Reviewers /\ RunTyped /\ Others(h) /\ ExecutorInv(h)
      /\ run[h] \in RunLocals /\ RunPlaced(h, run[h])
  BY ExecuteTyped DEF Runs, Named, TypeInv, RunTyped, AllRunsPlaced, StageInv
<1>a. ASSUME UNCHANGED <<request, execution>> PROVE SameRows /\ SameRequests
  BY <1>a DEF SameRows, SameRequests
<1>b. ASSUME run'[h].at \in Holding => run[h].at \in Holding \ {"settle"} /\ run'[h].id = run[h].id,
             ExecutorInv(h)', SameRows, SameRequests
      PROVE  StageInv'
  BY <1>0, <1>b, StageQuiet DEF Passing
<1>c. ASSUME NEW code \in ReplyCodes, RunReply(h, code), UNCHANGED <<request, execution>>
      PROVE  StageInv'
  <2>1. run'[h].at = "done"
    BY <1>0, <1>c, RunReplyEffect
  <2>2. ExecutorInv(h)'
    BY <2>1 DEF ExecutorInv
  <2> QED  BY <1>a, <1>b, <1>c, <2>1, <2>2 DEF Holding, Working
<1>d. ASSUME NEW location \in RunLocations, RunTo(h, location)
      PROVE  run'[h].at = location /\ SameBut(h)
  BY <1>0, <1>d, RunToEffect
<1>e. ASSUME NEW unit, NEW outcome, NEW failed, NEW joined, Recorded(h, unit, outcome, failed, joined),
             run[h].at \in {"member", "join", "units"}, UNCHANGED <<request, execution>>
      PROVE  StageInv'
  <2>1. ExecutorInv(h)'
    BY <1>0, <1>e DEF ExecutorInv, Recorded
  <2> QED  BY <1>a, <1>b, <1>e, <2>1 DEF Recorded, Holding, Working
<1>1. ASSUME NEW id \in Creators, NEW key \in ExecuteKeys, ExecuteRead(h, id, key)
      PROVE  StageInv'
  <2>0. run[h].at = "start" /\ RequestRun(id) /\ UNCHANGED <<request, execution>> /\ execution[h] = NoExecution
    BY <1>0, <1>1 DEF ExecuteRead, approvalVars, ExecutorInv, StageInv
  <2>1. CASE run'[h].at = "done"
    BY <1>a, <1>b, <2>0, <2>1 DEF Holding, Working, ExecutorInv
  <2>2. CASE run'[h].at # "done"
    <3>1. /\ run'[h].at = "lock" /\ run'[h].id = id
          /\ run'[h].row = request[id] /\ request[id].status \in {"APPROVED", "READY_TO_EXECUTE"}
      BY <1>1, <2>2, ReadEffect
    <3>2. ExecutorInv(h)'
      BY <2>0, <3>1 DEF ExecutorInv, RequestRun
    <3> QED  BY <1>a, <1>b, <2>0, <3>1, <3>2 DEF Holding, Working
  <2> QED  BY <2>1, <2>2
<1>2. CASE ExecuteLock(h)
  <2>0. PICK id \in Creators : id = run[h].id /\ run[h].at = "lock"
    BY <1>2 DEF ExecuteLock, Named
  <2>1. CASE request[id].status # run[h].row.status
    <3>1. request' = request /\ execution' = execution /\ RunReply(h, "CONVERGENCE_EXECUTION_IN_PROGRESS")
      BY <1>2, <2>0, <2>1 DEF ExecuteLock, Transition
    <3> QED  BY <3>1, <1>c DEF ReplyCodes
  <2>2. CASE request[id].status = run[h].row.status
    <3>1. /\ run'[h].at = "upsert" /\ SameBut(h) /\ execution' = execution
          /\ request' = [request EXCEPT ![id] = [request[id] EXCEPT !.status = "EXECUTING"]]
      BY <1>2, <1>d, <2>0, <2>2 DEF ExecuteLock, Transition, RunLocations
    <3>2. /\ request'[id].status = "EXECUTING" /\ request'[id].execution = request[id].execution
          /\ \A i \in Creators \ {id} : request'[i] = request[i]
      BY <3>1 DEF Named, RequestRows
    <3>3. run[h].row.status \in {"APPROVED", "READY_TO_EXECUTE"}
      BY <1>0, <2>0 DEF RunPlaced
    <3> QED  BY <1>0, <2>0, <2>2, <3>1, <3>2, <3>3, StageLock DEF SameBut
  <2> QED  BY <2>1, <2>2
<1>3. CASE ExecuteUpsert(h)
  <2>1. /\ run[h].at = "upsert" /\ run'[h].at \in {"prior", "classify"} /\ run'[h].id = run[h].id
        /\ run'[h].row = run[h].row /\ UNCHANGED <<request, execution>>
    BY <1>3, UpsertEffect DEF ExecuteUpsert, approvalVars
  <2>2. ExecutorInv(h)'
    BY <1>0, <2>1 DEF ExecutorInv, Fresh
  <2> QED  BY <1>a, <1>b, <2>1, <2>2 DEF Holding, Working
<1>4. CASE ExecuteClassify(h)
  <2>1. PICK code \in ReplyCodes : RunReply(h, code)
    BY <1>4 DEF ExecuteClassify, ReplyCodes
  <2> QED  BY <1>4, <2>1, <1>c DEF ExecuteClassify, approvalVars
<1>5. CASE ExecutePrior(h)
  <2>0. run[h].at = "prior" /\ UNCHANGED <<request, execution>>
    BY <1>5 DEF ExecutePrior, approvalVars
  <2>1. ExecutorInv(h)'
    <3>1. /\ run'[h].id = run[h].id
          /\ \/ /\ run'[h].at = "resume" /\ run'[h].execution = run[h].row.execution
                /\ run[h].row.execution # Null
                /\ execution[run[h].row.execution].status = "PENDING"
             \/ /\ run'[h].at = "open" /\ run'[h].execution = h
                /\ ~(run[h].row.execution # Null /\ execution[run[h].row.execution].status = "PENDING")
      BY <1>5, PriorEffect DEF Named
    <3> QED  BY <1>0, <2>0, <3>1 DEF ExecutorInv, Fresh
  <2> QED  BY <1>a, <1>b, <1>5, <2>0, <2>1, PriorEffect DEF Holding, Working
<1>6. CASE ExecuteResume(h)
  <2>0. PICK id \in Creators, e \in Executors :
            id = run[h].id /\ e = run[h].execution /\ run[h].at = "resume" /\ execution[e].status = "PENDING"
    BY <1>0, <1>6 DEF ExecuteResume, Named, Fetched, ExecutorInv
  <2>1. /\ execution' = [execution EXCEPT ![e] = [execution[e] EXCEPT !.status = "IN_PROGRESS"]] /\ request' = request
        /\ run'[h].at = "member" /\ SameBut(h)
    BY <1>6, <1>d, <2>0 DEF ExecuteResume, RunLocations, approvalVars
  <2>2. /\ execution'[e].status = "IN_PROGRESS" /\ execution'[e].id = execution[e].id
        /\ \A d \in Executors \ {e} : execution'[d] = execution[d]
    BY <2>1 DEF Named, ExecutionRows
  <2> QED  BY <1>0, <2>0, <2>1, <2>2, StageResume DEF SameBut
<1>7. CASE ExecuteOpen(h)
  <2>0. PICK id \in Creators : id = run[h].id /\ run[h].at = "open" /\ run[h].execution = h
    BY <1>0, <1>7 DEF ExecuteOpen, Named, ExecutorInv
  <2>1. /\ execution' = [execution EXCEPT ![h] = [NoExecution EXCEPT !.status = "IN_PROGRESS", !.id = id]]
        /\ request' = request /\ run'[h].at = "link" /\ SameBut(h)
    BY <1>7, <1>d, <2>0 DEF ExecuteOpen, RunLocations, approvalVars
  <2>2. /\ execution'[h].status = "IN_PROGRESS" /\ execution'[h].id = id
        /\ \A d \in Executors \ {h} : execution'[d] = execution[d]
    BY <2>1 DEF Named, NoExecution
  <2> QED  BY <1>0, <2>0, <2>1, <2>2, StageOpen DEF SameBut
<1>8. CASE ExecuteLink(h)
  <2>0. PICK id \in Creators : /\ id = run[h].id /\ run[h].at = "link" /\ run[h].execution = h
                               /\ request[id].status = "EXECUTING"
    BY <1>0, <1>8 DEF ExecuteLink, Named, ExecutorInv, HoldInv, Holding, Working
  <2>1. /\ request' = [request EXCEPT ![id] = [request[id] EXCEPT !.execution = h]]
        /\ execution' = execution /\ run'[h].at = "member" /\ SameBut(h)
    BY <1>8, <1>d, <2>0 DEF ExecuteLink, Transition, RunLocations
  <2>2. /\ request'[id].status = "EXECUTING" /\ request'[id].execution = h
        /\ \A i \in Creators \ {id} : request'[i] = request[i]
    BY <2>0, <2>1 DEF Named, RequestRows
  <2> QED  BY <1>0, <2>0, <2>1, <2>2, StageLink DEF SameBut
<1>9. CASE ExecuteMember(h)
  <2>0. run[h].at = "member" /\ UNCHANGED <<request, execution>>
    BY <1>9 DEF ExecuteMember, approvalVars
  <2>1. CASE RunTo(h, "join")
    <3>1. run'[h].at = "join" /\ SameBut(h)
      BY <1>d, <2>1 DEF RunLocations
    <3>2. ExecutorInv(h)'
      BY <1>0, <2>0, <3>1 DEF ExecutorInv, SameBut
    <3> QED  BY <1>a, <1>b, <2>0, <3>1, <3>2 DEF SameBut, Holding, Working
  <2>2. CASE ~RunTo(h, "join")
    <3>1. PICK outcome, found : Recorded(h, "membership", outcome, run[h].failed, found)
      BY <1>0, <1>9, <2>2, MemberEffect
    <3> QED  BY <1>e, <2>0, <3>1
  <2> QED  BY <2>1, <2>2
<1>10. CASE ExecuteJoin(h)
  <2>1. PICK outcome, failed, joined : Recorded(h, "membership", outcome, failed, joined)
    BY <1>0, <1>10, JoinEffect
  <2> QED  BY <1>e, <1>10, <2>1 DEF ExecuteJoin
<1>11. ASSUME NEW c \in Classes, ExecuteCarry(h, c) \/ ExecuteTransfer(h, c)
       PROVE  StageInv'
  <2>1. PICK outcome \in Settled \union {"FAILED"}, failed \in BOOLEAN : Outcome(h, c, outcome, failed, "note")
    BY <1>11, SourceAssumption DEF ExecuteCarry, ExecuteTransfer, Settled
  <2>2. Recorded(h, c, outcome, run[h].failed \/ failed, run[h].joined)
    BY <1>0, <2>1, OutcomeEffect DEF Units
  <2>3. run[h].at = "units" /\ UNCHANGED <<request, execution>>
    BY <1>11 DEF ExecuteCarry, ExecuteTransfer, approvalVars
  <2> QED  BY <1>e, <2>2, <2>3
<1>12. CASE ExecuteNote(h)
  <2>0. PICK e \in Executors : /\ e = run[h].execution /\ run[h].at = "note" /\ execution[e].id = run[h].id
                               /\ run[h].id \in Creators
    BY <1>0, <1>12 DEF ExecuteNote, Named, Fetched, ExecutorInv, StageInv, RequestRun
  <2>1. /\ execution' = [execution EXCEPT ![e] = [execution[e] EXCEPT !.checkpoint = run[h].checkpoint]]
        /\ request' = request /\ run'[h].at = "units" /\ SameBut(h)
    BY <1>12, <1>d, <2>0 DEF ExecuteNote, RunLocations, approvalVars
  <2>2. SameRows
    BY <2>0, <2>1 DEF SameRows, Named, ExecutionRows
  <2>3. SameRequests
    BY <2>1 DEF SameRequests
  <2>4. ExecutorInv(h)'
    BY <1>0, <2>0, <2>1, <2>2 DEF ExecutorInv, SameBut, SameRows
  <2> QED  BY <1>b, <2>0, <2>1, <2>2, <2>3, <2>4 DEF SameBut, Holding, Working
<1>13. CASE ExecuteFinish(h)
  <2>0. PICK id \in Creators, e \in Executors : id = run[h].id /\ e = run[h].execution /\ run[h].at = "units"
    BY <1>13 DEF ExecuteFinish, Named, Fetched
  <2>1. /\ execution' = [execution EXCEPT ![e] =
               [execution[e] EXCEPT !.status = Ending(h),
                                    !.review = IF run[h].failed THEN "PENDING" ELSE execution[e].review]]
        /\ request' = request /\ run'[h].at = "settle" /\ SameBut(h)
    BY <1>13, <1>d, <2>0 DEF ExecuteFinish, RunLocations, approvalVars
  <2>2. /\ execution'[e].status = Ending(h) /\ execution'[e].id = execution[e].id
        /\ \A d \in Executors \ {e} : execution'[d] = execution[d]
    BY <2>1 DEF Named, ExecutionRows
  <2> QED  BY <1>0, <2>0, <2>1, <2>2, StageFinish DEF SameBut
<1>14. CASE ExecuteSettle(h)
  <2>0. PICK id \in Creators : id = run[h].id /\ run[h].at = "settle" /\ request[id].status = "EXECUTING"
    BY <1>14 DEF ExecuteSettle, Named, HoldInv, Holding, Working
  <2>1. /\ request' = [request EXCEPT ![id] = [request[id] EXCEPT !.status = Ending(h)]]
        /\ execution' = execution /\ run'[h].at = "complete" /\ SameBut(h)
    BY <1>14, <1>d, <2>0 DEF ExecuteSettle, Transition, RunLocations
  <2>2. /\ request'[id].status = Ending(h) /\ request'[id].execution = request[id].execution
        /\ \A i \in Creators \ {id} : request'[i] = request[i]
    BY <2>1 DEF Named, RequestRows
  <2> QED  BY <1>0, <2>0, <2>1, <2>2, StageSettle
<1>15. CASE ExecuteComplete(h)
  BY <1>c, <1>15 DEF ExecuteComplete, ReplyCodes, approvalVars
<1> QED  BY <1>1, <1>2, <1>3, <1>4, <1>5, <1>6, <1>7, <1>8, <1>9, <1>10, <1>11, <1>12, <1>13, <1>14, <1>15 DEF Executing

LEMMA StageReview ==
    ASSUME TypeInv, Named, HoldInv, RowInv, StageInv, NEW w \in Reviewers, Reviewing(w)
    PROVE  StageInv'
<1>0. /\ w \in Runs /\ w \notin Executors /\ RunTyped /\ Others(w) /\ ReviewerInv(w)
      /\ run[w] \in RunLocals /\ RunPlaced(w, run[w])
  BY ReviewTyped DEF Runs, Named, TypeInv, RunTyped, AllRunsPlaced, StageInv
<1>a. ASSUME UNCHANGED <<request, execution>> PROVE SameRows /\ SameRequests
  BY <1>a DEF SameRows, SameRequests
<1>c. ASSUME NEW code \in ReplyCodes, RunReply(w, code), UNCHANGED <<request, execution>>
      PROVE  StageInv'
  <2>1. run'[w].at = "done"
    BY <1>0, <1>c, RunReplyEffect
  <2>2. ReviewerInv(w)'
    BY <2>1 DEF ReviewerInv
  <2> QED  BY <1>0, <1>a, <1>c, <2>1, <2>2, StageQuiet DEF Passing
<1>1. ASSUME NEW id \in Creators, NEW decision \in {"ACCEPT_PARTIAL", "RETRY_REMAINING"}, ReviewRead(w, id, decision)
      PROVE  StageInv'
  <2>0. UNCHANGED <<request, execution>>
    BY <1>1 DEF ReviewRead, approvalVars
  <2>1. \/ run'[w].at = "done"
        \/ run'[w].at = "resolve" /\ run'[w].id = id /\ run'[w].execution = request[id].execution
    BY <1>1, ReviewReadEffect
  <2>2. ReviewerInv(w)'
    BY <2>0, <2>1 DEF ReviewerInv
  <2> QED  BY <1>0, <1>a, <2>0, <2>1, <2>2, StageQuiet DEF Passing
<1>2. CASE ReviewResolve(w)
  <2> DEFINE accepts == run[w].decision = "ACCEPT_PARTIAL"
  <2>0. PICK id \in Creators, e \in Executors : id = run[w].id /\ e = run[w].execution /\ run[w].at = "resolve"
    BY <1>2 DEF ReviewResolve, Named
  <2>1. CASE execution[e].status # "ROLLBACK_REVIEW_REQUIRED"
    BY <1>2, <1>c, <2>0, <2>1 DEF ReviewResolve, ReplyCodes, approvalVars
  <2>2. CASE execution[e].status = "ROLLBACK_REVIEW_REQUIRED"
    <3>1. /\ execution' = [execution EXCEPT ![e] =
                 [execution[e] EXCEPT !.status = IF accepts THEN "COMPLETED" ELSE "PENDING",
                                      !.review = IF accepts THEN "ACCEPTED_PARTIAL" ELSE "RETRY_SCHEDULED"]]
          /\ request' = request /\ RunTo(w, "reopen")
      BY <1>2, <2>0, <2>2 DEF ReviewResolve, approvalVars
    <3>2. run'[w].at = "reopen" /\ SameBut(w)
      BY <1>0, <3>1, RunToEffect DEF RunLocations
    <3>3. /\ execution'[e].id = execution[e].id
          /\ IF accepts THEN execution'[e].status = "COMPLETED" /\ execution'[e].review = "ACCEPTED_PARTIAL"
             ELSE execution'[e].status = "PENDING"
          /\ \A d \in Executors \ {e} : execution'[d] = execution[d]
      BY <3>1 DEF Named, ExecutionRows
    <3> QED  BY <1>0, <2>0, <2>2, <3>1, <3>2, <3>3, StageResolve DEF SameBut
  <2> QED  BY <2>1, <2>2
<1>3. CASE ReviewReopen(w)
  <2> DEFINE target == IF run[w].decision = "ACCEPT_PARTIAL" THEN "COMPLETED" ELSE "READY_TO_EXECUTE"
  <2>0. PICK id \in Creators : id = run[w].id /\ run[w].at = "reopen"
    BY <1>3 DEF ReviewReopen, Named
  <2>1. PICK code \in ReplyCodes : RunReply(w, code)
    BY <1>3 DEF ReviewReopen, ReplyCodes
  <2>2. CASE request[id].status # "ROLLBACK_REVIEW_REQUIRED"
    <3>1. UNCHANGED <<request, execution>>
      BY <1>3, <2>0, <2>2 DEF ReviewReopen, Transition
    <3> QED  BY <1>c, <2>1, <3>1
  <2>3. CASE request[id].status = "ROLLBACK_REVIEW_REQUIRED"
    <3>1. /\ request' = [request EXCEPT ![id] = [request[id] EXCEPT !.status = target]] /\ execution' = execution
          /\ run'[w].at = "done"
      BY <1>0, <1>3, <2>0, <2>1, <2>3, RunReplyEffect DEF ReviewReopen, Transition
    <3>2. /\ request'[id].status = target /\ request'[id].execution = request[id].execution
          /\ \A i \in Creators \ {id} : request'[i] = request[i]
      BY <3>1 DEF Named, RequestRows
    <3>3. run[w].decision \in {"ACCEPT_PARTIAL", "RETRY_REMAINING"}
      BY <1>0, <2>0 DEF RunPlaced
    <3> QED  BY <1>0, <2>0, <2>3, <3>1, <3>2, <3>3, StageReopen
  <2> QED  BY <2>2, <2>3
<1> QED  BY <1>1, <1>2, <1>3 DEF Reviewing

LEMMA StageStep ==
    ASSUME TypeInv, HoldInv, RowInv, StageInv, [Next]_vars
    PROVE  StageInv'
<1>0. Named
  BY NamedHolds
<1>1. ASSUME NEW h \in Runs, RunDies(h)
      PROVE  StageInv'
  <2>1. run'[h].at = "done" /\ Others(h)
    BY <1>1, RunReplyEffect DEF RunDies, ReplyCodes, TypeInv
  <2>2. SameRows /\ SameRequests
    BY <1>1 DEF RunDies, approvalVars, SameRows, SameRequests
  <2>3. ExecutorInv(h)' /\ ReviewerInv(h)' /\ Passing(h)
    BY <2>1 DEF ExecutorInv, ReviewerInv, Passing, Holding, Working
  <2> QED  BY <1>0, <2>2, <2>3, StageQuiet
<1> QED  BY <1>0, <1>1, StageApproval, StageExecute, StageReview DEF Next, vars

-----------------------------------------------------------------------------
(* The checkpoints, the classes and the memberships                        *)

\* Sound and Whole after the step.
SoundNext(list, id) ==
    /\ list["membership"] \in Settled => member'[request'[id].school] # "NONE"
    /\ \A c \in Classes : /\ list[c] = "MIGRATED" => home'[c] = request'[id].school
                          /\ list[c] = "RETAINED" => c \notin plan'[request'[id].plan].decisions.transfer

WholeNext(id) ==
    /\ member'[request'[id].school] # "NONE"
    /\ \A c \in plan'[request'[id].plan].decisions.transfer : home'[c] = request'[id].school

\* What is true of a request stays true of it.
LEMMA SoundLasts ==
    ASSUME TypeInv, Lasting, NEW id \in Creators, request[id].status \in Decided
    PROVE  /\ \A list : Sound(list, id) => SoundNext(list, id)
           /\ Whole(id) => WholeNext(id)
           /\ request[id].school \in Tenants /\ request[id].school # Source
           /\ Agreed(id).transfer \subseteq Classes /\ Agreed(id).transfer \intersect Agreed(id).retain = {}
           /\ Agreed(id).retain \subseteq Classes
           /\ member'[request[id].school] # "NONE" \/ member[request[id].school] = "NONE"
<1>1. request[id].school \in Schools /\ request[id].plan \in Previewers
  BY DEF TypeInv, ApprovalInv, RequestInv, Decided
<1>2. request[id].school \in Tenants /\ request[id].school # Source
  BY <1>1, SourceAssumption DEF Tenants
<1>3. /\ request'[id].school = request[id].school /\ request'[id].plan = request[id].plan
      /\ plan'[request[id].plan] = plan[request[id].plan]
  BY DEF Lasting, Kept
<1>4. Agreed(id) \in Ballots \union {NoDecisions}
  BY <1>1 DEF Agreed, TypeInv, ApprovalInv, ApprovalTypeOK, PlanRows
<1>5. /\ Agreed(id).transfer \subseteq Classes /\ Agreed(id).transfer \intersect Agreed(id).retain = {}
      /\ Agreed(id).retain \subseteq Classes
  BY <1>4, BallotsAssumption DEF NoDecisions
<1>6. ASSUME NEW list, Sound(list, id) PROVE SoundNext(list, id)
  BY <1>2, <1>3, <1>6 DEF Sound, SoundNext, Agreed, Lasting
<1>7. Whole(id) => WholeNext(id)
  BY <1>2, <1>3, <1>5 DEF Whole, WholeNext, Agreed, Lasting
<1> QED  BY <1>2, <1>5, <1>6, <1>7 DEF Lasting

\* The request of an execution row is decided.
LEMMA RowsDecided ==
    ASSUME Named, StageInv, NEW d \in Executors, execution[d].id # Null
    PROVE  execution[d].id \in Creators /\ request[execution[d].id].status \in Decided
<1>1. PICK i \in Creators : i = execution[d].id
  BY DEF Named
<1>2. RequestRun(i) /\ ~Fresh(i)
  BY <1>1 DEF StageInv, Fresh
<1> QED  BY <1>1, <1>2 DEF RequestRun, Decided

\* What a step has to show of the lists: its own, and the row it writes.
Written(h, d) ==
    /\ h \in Executors /\ run[h].at \in Holding /\ execution[d].id \in {Null, run[h].id}
    /\ SoundNext(execution'[d].checkpoint, execution'[d].id)

LEMMA ListsStay ==
    ASSUME TypeInv, Named, HoldInv, RowInv, StageInv, DataInv, Lasting, NEW g \in Executors, run'[g] = run[g],
           \A d \in Executors : \/ execution'[d].checkpoint = execution[d].checkpoint
                                \/ \E h \in Executors \ {g} : Written(h, d)
    PROVE  ListInv(g)'
<1>0. run'[g] = run[g] /\ ListInv(g)
  BY DEF DataInv
<1>1. CASE run[g].at \notin Holding
  <2>1. run[g].at \notin {"note", "units", "settle", "join"}
    BY <1>1 DEF Holding, Working
  <2> QED  BY <1>0, <1>1, <2>1 DEF ListInv
<1>2. CASE run[g].at \in Holding
  <2>0. PICK id \in Creators : id = run[g].id /\ request[id].status \in Decided
    BY <1>2 DEF Named, RowInv, Holding, Working
  <2>1. /\ run[g].row.plan = request[id].plan /\ request'[id].plan = request[id].plan
        /\ plan'[request[id].plan] = plan[request[id].plan]
        /\ request'[id].school = request[id].school /\ request[id].school \in Tenants
    BY <1>2, <2>0, SoundLasts DEF RowInv, Lasting, Kept, Holding, Working
  <2>2. run[g].at = "settle" => Remaining(g)' = {}
    BY <1>0, <2>1 DEF ListInv, Remaining, Decisions
  <2>3. ASSUME run[g].at \in {"units", "settle"}
        PROVE  execution'[run[g].execution].checkpoint = run[g].checkpoint
    <3>1. PICK e \in Executors : e = run[g].execution
      BY <2>3 DEF Named, Fetched
    <3>2. request[id].execution = e /\ execution[e].id = id /\ id # Null
      BY <2>0, <2>3, <3>1 DEF StageInv, ExecutorInv, RequestRun, Named
    <3>3. ASSUME NEW h \in Executors \ {g}, Written(h, e) PROVE FALSE
      <4>1. h \in Executors /\ Holds(h, id)
        BY <3>2, <3>3 DEF Written, Holds
      <4> QED  BY <1>2, <2>0, <3>3, <4>1 DEF HoldInv
    <3> QED  BY <1>0, <2>3, <3>1, <3>3 DEF ListInv
  <2>4. /\ \A list : Sound(list, id) => SoundNext(list, id)
        /\ member[request[id].school] # "NONE" => member'[request'[id].school] # "NONE"
    BY <2>0, <2>1, SoundLasts DEF Lasting
  <2>5. Sound(run[g].prior, run[g].id)' /\ Sound(run[g].checkpoint, run[g].id)'
    BY <1>0, <1>2, <2>0, <2>4 DEF ListInv, UnitsInv, Sound, SoundNext, Agreed
  <2>6. run'[g].joined => member'[request'[run'[g].id].school] # "NONE"
    BY <1>0, <1>2, <2>0, <2>4 DEF ListInv, UnitsInv
  <2> QED  BY <1>0, <1>2, <2>2, <2>3, <2>5, <2>6 DEF ListInv, UnitsInv
<1> QED  BY <1>1, <1>2

LEMMA DataParts ==
    ASSUME TypeInv, Named, HoldInv, RowInv, StageInv, DataInv, Lasting,
           \A g \in Executors : ListInv(g)',
           \A d \in Executors :
               \/ execution'[d].checkpoint = execution[d].checkpoint /\ execution'[d].id = execution[d].id
               \/ \E h \in Executors : Written(h, d),
           \A i \in Creators :
               request'[i].status = "COMPLETED" =>
                   \/ WholeNext(i) \/ execution'[request'[i].execution].review = "ACCEPTED_PARTIAL"
                   \/ /\ request[i].status = "COMPLETED" /\ request'[i].execution = request[i].execution
                      /\ execution'[request[i].execution].review = execution[request[i].execution].review,
           \A c \in Classes :
               \/ home'[c] = home[c]
               \/ \E i \in Creators :
                      /\ request[i].status \in Decided \ {"APPROVED"} /\ home'[c] = request[i].school
                      /\ c \in Agreed(i).transfer /\ member[request[i].school] # "NONE"
    PROVE  DataInv'
<1>2. ASSUME NEW d \in Executors, execution'[d].id # Null
      PROVE  Sound(execution[d].checkpoint, execution[d].id)'
  <2>1. SoundNext(execution'[d].checkpoint, execution'[d].id)
    <3>1. CASE execution'[d].checkpoint = execution[d].checkpoint /\ execution'[d].id = execution[d].id
      BY <1>2, <3>1, RowsDecided, SoundLasts DEF DataInv
    <3>2. CASE \E h \in Executors : Written(h, d)
      BY <3>2 DEF Written
    <3> QED  BY <3>1, <3>2
  <2> QED  BY <2>1 DEF Sound, SoundNext, Agreed
<1>3. ASSUME NEW i \in Creators, request'[i].status = "COMPLETED",
             execution'[request'[i].execution].review # "ACCEPTED_PARTIAL"
      PROVE  Whole(i)'
  <2>1. WholeNext(i)
    <3>1. CASE WholeNext(i)
      BY <3>1
    <3>2. CASE /\ request[i].status = "COMPLETED" /\ request'[i].execution = request[i].execution
               /\ execution'[request[i].execution].review = execution[request[i].execution].review
      <4>1. Whole(i) /\ request[i].status \in Decided
        BY <1>3, <3>2 DEF DataInv, Decided
      <4> QED  BY <4>1, SoundLasts
    <3> QED  BY <1>3, <3>1, <3>2
  <2> QED  BY <2>1 DEF Whole, WholeNext, Agreed
<1>4. ASSUME NEW c \in Classes, home'[c] # Source
      PROVE  /\ member'[home'[c]] # "NONE"
             /\ \E id \in Creators :
                    /\ request'[id].school = home'[c]
                    /\ request'[id].status \in Decided \ {"APPROVED"}
                    /\ c \in plan'[request'[id].plan].decisions.transfer
  <2>1. PICK i \in Creators :
            /\ request[i].status \in Decided \ {"APPROVED"} /\ home'[c] = request[i].school
            /\ c \in Agreed(i).transfer /\ member[request[i].school] # "NONE"
    BY <1>4 DEF DataInv
  <2>2. Kept(i) /\ request[i].school \in Tenants
    BY <2>1, SoundLasts DEF Lasting
  <2>3. member'[home'[c]] # "NONE"
    BY <2>1, <2>2 DEF Lasting
  <2> QED  BY <2>1, <2>2, <2>3 DEF Kept, Agreed
<1> QED  BY <1>2, <1>3, <1>4 DEF DataInv, Agreed

\* The requests that are COMPLETED, and the reviews of their executions.
CompletedSame ==
    \A i \in Creators :
        request'[i].status = "COMPLETED" =>
            /\ request[i].status = "COMPLETED" /\ request'[i].execution = request[i].execution
            /\ execution'[request[i].execution].review = execution[request[i].execution].review

\* A step of one call.
LEMMA DataMove ==
    ASSUME TypeInv, Named, HoldInv, RowInv, StageInv, DataInv, Lasting, NEW h \in Runs, Others(h),
           h \in Executors => ListInv(h)',
           \A d \in Executors :
               \/ execution'[d].checkpoint = execution[d].checkpoint /\ execution'[d].id = execution[d].id
               \/ Written(h, d),
           \/ CompletedSame
           \/ \A i \in Creators :
                  request'[i].status = "COMPLETED" =>
                      \/ WholeNext(i) \/ execution'[request'[i].execution].review = "ACCEPTED_PARTIAL"
                      \/ /\ request[i].status = "COMPLETED" /\ request'[i].execution = request[i].execution
                         /\ execution'[request[i].execution].review = execution[request[i].execution].review,
           \/ home' = home
           \/ \A c \in Classes :
                  \/ home'[c] = home[c]
                  \/ \E i \in Creators :
                         /\ request[i].status \in Decided \ {"APPROVED"} /\ home'[c] = request[i].school
                         /\ c \in Agreed(i).transfer /\ member[request[i].school] # "NONE"
    PROVE  DataInv'
<1>1. ASSUME NEW g \in Executors PROVE ListInv(g)'
  <2>1. CASE g = h
    BY <2>1
  <2>2. CASE g # h
    <3>1. run'[g] = run[g]
      BY <2>2 DEF Others, Runs
    <3>2. \A d \in Executors : \/ execution'[d].checkpoint = execution[d].checkpoint
                               \/ \E q \in Executors \ {g} : Written(q, d)
      BY <2>2 DEF Written
    <3> QED  BY <3>1, <3>2, ListsStay
  <2> QED  BY <2>1, <2>2
<1>2. \A d \in Executors :
          \/ execution'[d].checkpoint = execution[d].checkpoint /\ execution'[d].id = execution[d].id
          \/ \E q \in Executors : Written(q, d)
  BY DEF Written
<1>3. \A i \in Creators :
          request'[i].status = "COMPLETED" =>
              \/ WholeNext(i) \/ execution'[request'[i].execution].review = "ACCEPTED_PARTIAL"
              \/ /\ request[i].status = "COMPLETED" /\ request'[i].execution = request[i].execution
                 /\ execution'[request[i].execution].review = execution[request[i].execution].review
  BY DEF CompletedSame
<1> QED  BY <1>1, <1>2, <1>3, DataParts

\* The call's own list: as it was, empty, or with one more outcome.
LEMMA UnitsKept ==
    ASSUME TypeInv, Lasting, NEW h \in Executors, NEW id \in Creators, request[id].status \in Decided,
           run[h].id = id, run'[h].id = id, Before(h), UnitsInv(h)
    PROVE  UnitsInv(h)'
<1>1. /\ \A list : Sound(list, id) => SoundNext(list, id)
      /\ member[request[id].school] # "NONE" => member'[request'[id].school] # "NONE"
  BY SoundLasts DEF Lasting, Kept
<1>2. Sound(run[h].prior, run[h].id)' /\ Sound(run[h].checkpoint, run[h].id)'
  BY <1>1 DEF UnitsInv, Before, Sound, SoundNext, Agreed
<1> QED  BY <1>1, <1>2 DEF UnitsInv, Before

LEMMA UnitsBlank ==
    ASSUME NEW h \in Executors, run'[h].checkpoint = Blank, ~run'[h].failed, ~run'[h].joined,
           Sound(run[h].prior, run[h].id)'
    PROVE  UnitsInv(h)'
<1>1. \A u \in Units : Blank[u] = "NONE"
  BY DEF Blank
<1>2. Blank["membership"] = "NONE" /\ \A c \in Classes : Blank[c] = "NONE"
  BY <1>1 DEF Units
<1>3. Sound(run[h].checkpoint, run[h].id)'
  BY <1>2 DEF Sound, Settled
<1> QED  BY <1>1, <1>3 DEF UnitsInv

LEMMA BlankSound == \A id : Sound(Blank, id) /\ SoundNext(Blank, id)
<1>1. Blank["membership"] = "NONE" /\ \A c \in Classes : Blank[c] = "NONE"
  BY DEF Blank, Units
<1> QED  BY <1>1 DEF Sound, SoundNext, Settled

LEMMA UnitsRecorded ==
    ASSUME TypeInv, Lasting, NEW h \in Executors, NEW id \in Creators, request[id].status \in Decided,
           run[h].id = id, UnitsInv(h),
           NEW unit \in Units, NEW outcome \in Settled \union {"FAILED"}, NEW failed \in BOOLEAN, NEW joined \in BOOLEAN,
           Recorded(h, unit, outcome, failed, joined),
           outcome = "FAILED" => failed, run[h].failed => failed,
           joined => member'[request[id].school] # "NONE",
           run[h].prior[unit] \in Settled => outcome = run[h].prior[unit],
           unit = "membership" /\ outcome \in Settled => member'[request[id].school] # "NONE",
           unit \in Classes /\ outcome = "MIGRATED" => home'[unit] = request[id].school,
           unit \in Classes /\ outcome = "RETAINED" => unit \notin Agreed(id).transfer
    PROVE  UnitsInv(h)'
<1>1. /\ \A list : Sound(list, id) => SoundNext(list, id)
      /\ request'[id].school = request[id].school /\ request'[id].plan = request[id].plan
      /\ plan'[request[id].plan] = plan[request[id].plan]
  BY SoundLasts DEF Lasting, Kept
<1>2. Sound(run[h].prior, run[h].id)' /\ SoundNext(run[h].checkpoint, id)
  BY <1>1 DEF UnitsInv, Recorded, Sound, SoundNext, Agreed
<1>3. /\ run'[h].id = id /\ run'[h].prior = run[h].prior /\ run'[h].checkpoint[unit] = outcome
      /\ \A u \in Units \ {unit} : run'[h].checkpoint[u] = run[h].checkpoint[u]
      /\ run'[h].failed = failed /\ run'[h].joined = joined
  BY DEF Recorded
<1>4. run'[h].checkpoint["membership"] \in Settled => member'[request'[id].school] # "NONE"
  BY <1>1, <1>2, <1>3 DEF SoundNext, Units
<1>5. ASSUME NEW c \in Classes
      PROVE  /\ run'[h].checkpoint[c] = "MIGRATED" => home'[c] = request'[id].school
             /\ run'[h].checkpoint[c] = "RETAINED" => c \notin plan'[request'[id].plan].decisions.transfer
  <2>1. CASE c = unit
    BY <1>1, <1>3, <2>1 DEF Agreed
  <2>2. CASE c # unit
    BY <1>2, <1>3, <2>2 DEF SoundNext, Units
  <2> QED  BY <2>1, <2>2
<1>6. Sound(run[h].checkpoint, run[h].id)'
  BY <1>3, <1>4, <1>5 DEF Sound, Agreed
<1>7. ~run'[h].failed => \A u \in Units : run'[h].checkpoint[u] # "FAILED"
  BY <1>3 DEF UnitsInv
<1>8. \A u \in Units : run'[h].checkpoint[u] # "NONE" /\ run'[h].prior[u] \in Settled =>
                            run'[h].checkpoint[u] = run'[h].prior[u]
  BY <1>3 DEF UnitsInv
<1> QED  BY <1>1, <1>2, <1>3, <1>6, <1>7, <1>8 DEF UnitsInv

LEMMA OwnList ==
    ASSUME TypeInv, Named, HoldInv, RowInv, StageInv, DataInv, Lasting, NEW h \in Executors, Executing(h)
    PROVE  ListInv(h)'
<1>0. h \in Runs /\ RunTyped /\ ListInv(h) /\ run[h] \in RunLocals /\ RunPlaced(h, run[h])
  BY DEF Runs, TypeInv, RunTyped, AllRunsPlaced, DataInv
<1>a. ASSUME run'[h].at \in {"done", "complete"} PROVE ListInv(h)'
  BY <1>a DEF ListInv, Holding, Working
<1>b. ASSUME NEW code \in ReplyCodes, RunReply(h, code) PROVE ListInv(h)'
  BY <1>0, <1>a, <1>b, RunReplyEffect
<1>c. ASSUME NEW location \in RunLocations, RunTo(h, location)
      PROVE  run'[h].at = location /\ SameBut(h) /\ Before(h)
  BY <1>0, <1>c, RunToEffect DEF SameBut, Before
<1>d. run[h].at \in Holding \union {"lock"} =>
          \E id \in Creators : /\ id = run[h].id /\ request[id].status \in Decided
                               /\ run[h].row.school = request[id].school /\ run[h].row.plan = request[id].plan
  BY DEF Named, RowInv, Holding, Working
<1>e. ASSUME run[h].at \in Holding, run'[h].id = run[h].id, Before(h) PROVE UnitsInv(h)'
  <2>1. PICK id \in Creators : id = run[h].id /\ request[id].status \in Decided
    BY <1>d, <1>e
  <2> QED  BY <1>0, <1>e, <2>1, UnitsKept DEF ListInv
<1>1. ASSUME NEW id \in Creators, NEW key \in ExecuteKeys, ExecuteRead(h, id, key)
      PROVE  ListInv(h)'
  <2>1. CASE run'[h].at = "done"
    BY <1>a, <2>1
  <2>2. CASE run'[h].at # "done"
    BY <1>0, <1>1, <2>2, ReadEffect DEF ListInv, ExecuteRead, Before, Holding, Working
  <2> QED  BY <2>1, <2>2
<1>2. CASE ExecuteLock(h)
  <2>1. CASE RunReply(h, "CONVERGENCE_EXECUTION_IN_PROGRESS")
    BY <1>b, <2>1 DEF ReplyCodes
  <2>2. CASE RunTo(h, "upsert")
    <3>1. /\ run'[h].at = "upsert" /\ run'[h].checkpoint = Blank /\ ~run'[h].failed /\ ~run'[h].joined
          /\ run'[h].prior = Blank
      BY <1>0, <1>2, <1>c, <2>2 DEF ListInv, ExecuteLock, Before, RunLocations
    <3>2. Sound(run[h].prior, run[h].id)'
      BY <3>1, BlankSound DEF Sound, SoundNext, Agreed
    <3> QED  BY <3>1, <3>2, UnitsBlank DEF ListInv
  <2> QED  BY <1>2, <2>1, <2>2 DEF ExecuteLock
<1>3. CASE ExecuteUpsert(h)
  <2>1. run[h].at = "upsert" /\ run'[h].at \in {"prior", "classify"} /\ Before(h) /\ run'[h].id = run[h].id
    BY <1>3, UpsertEffect DEF ExecuteUpsert
  <2>2. UnitsInv(h)'
    BY <1>e, <2>1 DEF Holding, Working
  <2> QED  BY <1>0, <2>1, <2>2 DEF ListInv, Before, Holding, Working
<1>4. CASE ExecuteClassify(h)
  <2>1. PICK code \in ReplyCodes : RunReply(h, code)
    BY <1>4 DEF ExecuteClassify, ReplyCodes
  <2> QED  BY <1>b, <2>1
<1>5. CASE ExecutePrior(h)
  <2>0. PICK id \in Creators : id = run[h].id /\ request[id].status \in Decided /\ run[h].at = "prior"
    BY <1>5, <1>d DEF ExecutePrior, Holding, Working
  <2>1. /\ run'[h].id = id /\ run'[h].checkpoint = run[h].checkpoint /\ run'[h].failed = run[h].failed
        /\ run'[h].joined = run[h].joined /\ run'[h].at \in {"resume", "open"}
        /\ \/ run[h].row.execution \in Executors /\ run'[h].prior = execution[run[h].row.execution].checkpoint
           \/ run'[h].prior = Blank
    BY <1>5, <2>0, PriorEffect
  <2>2. run'[h].checkpoint = Blank /\ ~run'[h].failed /\ ~run'[h].joined
    BY <1>0, <2>0, <2>1 DEF ListInv, Holding, Working
  <2>3. SoundNext(run'[h].prior, id)
    <3>1. CASE run'[h].prior = Blank
      BY <3>1, BlankSound
    <3>2. CASE run'[h].prior # Blank
      <4>1. PICK e \in Executors : e = run[h].row.execution /\ run'[h].prior = execution[e].checkpoint
        BY <2>1, <3>2
      <4>2. request[id].execution = e /\ execution[e].id = id
        BY <2>0, <4>1 DEF StageInv, ExecutorInv, RequestRun, Named
      <4>3. Sound(execution[e].checkpoint, id)
        BY <4>2 DEF DataInv, Named
      <4> QED  BY <2>0, <4>1, <4>3, SoundLasts
    <3> QED  BY <3>1, <3>2
  <2>4. Sound(run[h].prior, run[h].id)'
    BY <2>1, <2>3 DEF Sound, SoundNext, Agreed
  <2>5. UnitsInv(h)'
    BY <2>2, <2>4, UnitsBlank
  <2> QED  BY <2>1, <2>2, <2>5 DEF ListInv
<1>6. CASE ExecuteResume(h)
  <2>1. CASE RunReply(h, "ERROR")
    BY <1>b, <2>1 DEF ReplyCodes
  <2>2. CASE RunTo(h, "member")
    <3>1. run[h].at = "resume" /\ run'[h].at = "member" /\ Before(h) /\ run'[h].id = run[h].id
      BY <1>6, <1>c, <2>2 DEF ExecuteResume, SameBut, RunLocations
    <3>2. UnitsInv(h)'
      BY <1>e, <3>1 DEF Holding, Working
    <3> QED  BY <1>0, <3>1, <3>2 DEF ListInv, Before, Holding, Working
  <2> QED  BY <1>6, <2>1, <2>2 DEF ExecuteResume
<1>7. CASE ExecuteOpen(h) \/ ExecuteLink(h)
  <2>1. /\ run[h].at \in {"open", "link"} /\ run'[h].at \in {"link", "member"} /\ Before(h)
        /\ run'[h].id = run[h].id
    BY <1>7, <1>c DEF ExecuteOpen, ExecuteLink, SameBut, RunLocations
  <2>2. UnitsInv(h)'
    BY <1>e, <2>1 DEF Holding, Working
  <2> QED  BY <1>0, <2>1, <2>2 DEF ListInv, Before, Holding, Working
<1>8. CASE ExecuteMember(h)
  <2>0. PICK id \in Creators : /\ id = run[h].id /\ request[id].status \in Decided /\ run[h].at = "member"
                               /\ run[h].row.school = request[id].school
    BY <1>8, <1>d DEF ExecuteMember, Holding, Working
  <2>1. CASE RunTo(h, "join")
    <3>1. run'[h].at = "join" /\ Before(h) /\ run'[h].id = run[h].id /\ run'[h].prior["membership"] \notin Settled
      <4>1. run[h].prior["membership"] \notin Settled
        <5>1. CASE ~(run[h].prior["membership"] \notin Settled)
          <6>1. run'[h].at = "note"
            BY <1>0, <1>8, <5>1, MemberEffect DEF Recorded
          <6> QED  BY <1>c, <2>1, <6>1 DEF RunLocations
        <5> QED  BY <5>1
      <4> QED  BY <1>c, <2>1, <4>1 DEF SameBut, RunLocations
    <3>2. UnitsInv(h)'
      BY <1>e, <2>0, <3>1 DEF Holding, Working
    <3> QED  BY <1>0, <2>0, <3>1, <3>2 DEF ListInv, Before, Holding, Working
  <2>2. CASE ~RunTo(h, "join")
    <3> DEFINE outcome == IF run[h].prior["membership"] \in Settled THEN run[h].prior["membership"] ELSE "RETAINED"
               found == member[run[h].row.school] = "ACTIVE"
    <3>1. /\ Recorded(h, "membership", outcome, run[h].failed, found)
          /\ run[h].prior["membership"] \in Settled \/ found
      BY <1>0, <1>8, <2>2, MemberEffect
    <3>2. outcome \in Settled /\ found \in BOOLEAN /\ run[h].failed \in BOOLEAN /\ "membership" \in Units
          /\ "membership" \notin Classes
      BY <1>0, RunsAssumption DEF Settled, Units, RunLocals
    <3>3. run[h].prior["membership"] \in Settled \/ found => member'[request[id].school] # "NONE"
      <4>1. Sound(run[h].prior, id)
        BY <1>0, <2>0 DEF ListInv, UnitsInv, Holding, Working
      <4> QED  BY <2>0, <4>1, SoundLasts DEF Sound
    <3>4. UnitsInv(h)
      BY <1>0, <2>0 DEF ListInv, Holding, Working
    <3>5. run[h].prior["membership"] \in Settled => outcome = run[h].prior["membership"]
      OBVIOUS
    <3>6. outcome # "FAILED" /\ outcome # "NONE"
      BY <3>2 DEF Settled
    <3> HIDE DEF outcome, found
    <3>7. UnitsInv(h)'
      BY <2>0, <3>1, <3>2, <3>3, <3>4, <3>5, <3>6, UnitsRecorded
    <3> QED  BY <3>1, <3>6, <3>7 DEF ListInv, Recorded, Holding, Working
  <2> QED  BY <2>1, <2>2
<1>9. CASE ExecuteJoin(h)
  <2>0. PICK id \in Creators : /\ id = run[h].id /\ request[id].status \in Decided /\ run[h].at = "join"
                               /\ run[h].row.school = request[id].school
    BY <1>9, <1>d DEF ExecuteJoin, Holding, Working
  <2>1. /\ UnitsInv(h) /\ run[h].prior["membership"] \notin Settled /\ run[h].failed = FALSE
        /\ run[h].joined = FALSE /\ run[h].failed \in BOOLEAN
    BY <1>0, <2>0 DEF ListInv, Holding, Working, RunLocals
  <2>2. ASSUME NEW outcome \in {"MIGRATED", "FAILED"}, NEW failed \in BOOLEAN, NEW joined \in BOOLEAN,
               Recorded(h, "membership", outcome, failed, joined), outcome = "FAILED" => failed,
               joined \/ outcome = "MIGRATED" => member'[request[id].school] # "NONE"
        PROVE  ListInv(h)'
    <3>1. "membership" \in Units /\ "membership" \notin Classes /\ outcome \in Settled \union {"FAILED"} /\ outcome # "NONE"
      BY RunsAssumption DEF Units, Settled
    <3>2. outcome \in Settled => outcome = "MIGRATED"
      BY DEF Settled
    <3>3. UnitsInv(h)'
      BY <2>0, <2>1, <2>2, <3>1, <3>2, UnitsRecorded
    <3> QED  BY <2>2, <3>1, <3>3 DEF ListInv, Recorded, Holding, Working
  <2>3. CASE /\ Recorded(h, "membership", "FAILED", TRUE, run[h].joined) /\ member' = member
    <3>1. Recorded(h, "membership", "FAILED", TRUE, FALSE)
      BY <2>1, <2>3
    <3>2. TRUE \in BOOLEAN /\ FALSE \in BOOLEAN /\ "FAILED" \in {"MIGRATED", "FAILED"} /\ "FAILED" # "MIGRATED"
      OBVIOUS
    <3> QED  BY <2>2, <3>1, <3>2
  <2>4. CASE /\ \E failed \in BOOLEAN : Recorded(h, "membership", "MIGRATED", failed, TRUE)
             /\ member' = [member EXCEPT ![run[h].row.school] = "ACTIVE"]
    <3>1. PICK failed \in BOOLEAN : Recorded(h, "membership", "MIGRATED", failed, TRUE)
      BY <2>4
    <3>2. member'[request[id].school] # "NONE"
      <4>1. request[id].school \in Tenants /\ member \in [Tenants -> {"NONE", "ACTIVE", "SUSPENDED"}]
        BY <2>0, SoundLasts DEF TypeInv, ApprovalInv, ApprovalTypeOK
      <4> QED  BY <2>0, <2>4, <4>1
    <3>3. TRUE \in BOOLEAN /\ "MIGRATED" \in {"MIGRATED", "FAILED"} /\ "FAILED" # "MIGRATED"
      OBVIOUS
    <3> QED  BY <2>2, <3>1, <3>2, <3>3
  <2> QED  BY <1>0, <1>9, <2>3, <2>4, JoinEffect
<1>10. CASE ExecuteNote(h)
  <2>1. run[h].at = "note" /\ run'[h].at = "units" /\ Before(h) /\ run'[h].id = run[h].id /\ run'[h].execution = run[h].execution
    BY <1>10, <1>c DEF ExecuteNote, SameBut, RunLocations
  <2>2. UnitsInv(h)'
    BY <1>e, <2>1 DEF Holding, Working
  <2>3. execution'[run[h].execution].checkpoint = run[h].checkpoint
    <3>1. PICK e \in Executors : e = run[h].execution
      BY <2>1 DEF Named, Fetched
    <3>2. execution[e] \in ExecutionRows
      BY DEF Named
    <3> QED  BY <1>10, <3>1, <3>2 DEF ExecuteNote, Named, ExecutionRows
  <2> QED  BY <1>0, <2>1, <2>2, <2>3 DEF ListInv, Before, Holding, Working
<1>11. ASSUME NEW c \in Classes, NEW outcome \in Settled \union {"FAILED"}, NEW failed \in BOOLEAN,
              Outcome(h, c, outcome, failed, "note"), run[h].at = "units", NEW id \in Creators, id = run[h].id,
              outcome = "FAILED" => failed,
              run[h].prior[c] \in Settled => outcome = run[h].prior[c],
              outcome = "MIGRATED" => home'[c] = request[id].school,
              outcome = "RETAINED" => c \notin Agreed(id).transfer
       PROVE  ListInv(h)'
  <2> DEFINE all == run[h].failed \/ failed
  <2>0. c \in Units /\ c # "membership" /\ request[id].status \in Decided
    BY <1>d, <1>11, RunsAssumption DEF Units, Holding, Working
  <2>1. all \in BOOLEAN /\ run[h].joined \in BOOLEAN /\ (outcome = "FAILED" => all) /\ (run[h].failed => all)
    BY <1>0, <1>11 DEF RunLocals
  <2>2. Recorded(h, c, outcome, all, run[h].joined)
    BY <1>0, <1>11, <2>0, OutcomeEffect
  <2> HIDE DEF all
  <2>3. UnitsInv(h) /\ run[h].checkpoint["membership"] # "NONE"
    BY <1>0, <1>11 DEF ListInv, Holding, Working
  <2>4. run[h].joined => member'[request[id].school] # "NONE"
    BY <1>11, <2>0, <2>3, SoundLasts DEF UnitsInv
  <2>5. UnitsInv(h)'
    BY <1>11, <2>0, <2>1, <2>2, <2>3, <2>4, UnitsRecorded
  <2>6. run'[h].checkpoint["membership"] # "NONE"
    BY <2>0, <2>2, <2>3 DEF Recorded, Units
  <2> QED  BY <2>2, <2>5, <2>6 DEF ListInv, Recorded, Holding, Working
<1>12. ASSUME NEW c \in Classes, ExecuteCarry(h, c)
       PROVE  ListInv(h)'
  <2>0. PICK id \in Creators : /\ id = run[h].id /\ request[id].status \in Decided /\ run[h].at = "units"
                               /\ run[h].row.plan = request[id].plan
    BY <1>12, <1>d DEF ExecuteCarry, Holding, Working
  <2>1. Sound(run[h].prior, id) /\ home'[c] = home[c]
    BY <1>0, <1>12, <2>0 DEF ListInv, UnitsInv, Holding, Working, ExecuteCarry, approvalVars, world
  <2>2. CASE run[h].prior[c] \in Settled /\ Outcome(h, c, run[h].prior[c], FALSE, "note")
    <3>1. /\ run[h].prior[c] \in Settled \union {"FAILED"} /\ run[h].prior[c] # "FAILED"
          /\ run[h].prior[c] = "MIGRATED" => home'[c] = request[id].school
          /\ run[h].prior[c] = "RETAINED" => c \notin Agreed(id).transfer
      BY <2>1, <2>2 DEF Sound, Settled
    <3> DEFINE outcome == run[h].prior[c]
    <3>2. outcome = run[h].prior[c]
      OBVIOUS
    <3> HIDE DEF outcome
    <3> QED  BY <2>0, <2>2, <3>1, <3>2, <1>11
  <2>3. CASE run[h].prior[c] \notin Settled /\ c \in Decisions(h).retain /\ Outcome(h, c, "RETAINED", FALSE, "note")
    <3>1. c \notin Agreed(id).transfer
      BY <2>0, <2>3, SoundLasts DEF Decisions, Agreed
    <3> QED  BY <2>0, <2>3, <3>1, <1>11 DEF Settled
  <2>4. CASE run[h].prior[c] \notin Settled /\ Outcome(h, c, "FAILED", TRUE, "note")
    BY <2>0, <2>4, <1>11
  <2> QED  BY <1>12, <2>2, <2>3, <2>4 DEF ExecuteCarry
<1>13. ASSUME NEW c \in Classes, ExecuteTransfer(h, c)
       PROVE  ListInv(h)'
  <2>0. PICK id \in Creators : /\ id = run[h].id /\ request[id].status \in Decided /\ run[h].at = "units"
                               /\ run[h].row.school = request[id].school
    BY <1>13, <1>d DEF ExecuteTransfer, Holding, Working
  <2>1. run[h].prior[c] \notin Settled
    BY <1>13 DEF ExecuteTransfer, ToTransfer
  <2>2. CASE Outcome(h, c, "FAILED", TRUE, "note")
    <3>1. "FAILED" \in Settled \union {"FAILED"} /\ "MIGRATED" # "FAILED" /\ "FAILED" # "RETAINED" /\ TRUE \in BOOLEAN
      OBVIOUS
    <3> QED  BY <2>0, <2>1, <2>2, <3>1, <1>11
  <2>3. CASE /\ home' = [home EXCEPT ![c] = run[h].row.school]
             /\ \E failed \in {FALSE, Faults} : Outcome(h, c, "MIGRATED", failed, "note")
    <3>1. home'[c] = request[id].school
      BY <2>0, <2>3 DEF TypeInv, ApprovalInv, ApprovalTypeOK
    <3>2. PICK failed \in BOOLEAN : Outcome(h, c, "MIGRATED", failed, "note")
      BY <2>3, SourceAssumption
    <3>3. "MIGRATED" \in Settled \union {"FAILED"} /\ "MIGRATED" # "FAILED" /\ "MIGRATED" # "RETAINED"
      BY DEF Settled
    <3> QED  BY <2>0, <2>1, <3>1, <3>2, <3>3, <1>11
  <2> QED  BY <1>13, <2>2, <2>3 DEF ExecuteTransfer
<1>14. CASE ExecuteFinish(h)
  <2>1. /\ run[h].at = "units" /\ run'[h].at = "settle" /\ Before(h) /\ SameBut(h) /\ Remaining(h) = {}
        /\ UNCHANGED plan
    BY <1>14, <1>c DEF ExecuteFinish, SameBut, RunLocations, approvalVars
  <2>2. UnitsInv(h)'
    BY <1>e, <2>1 DEF Holding, Working, SameBut
  <2>3. execution'[run[h].execution].checkpoint = execution[run[h].execution].checkpoint
    <3>1. PICK e \in Executors : e = run[h].execution
      BY <2>1 DEF Named, Fetched
    <3>2. execution[e] \in ExecutionRows
      BY DEF Named
    <3> QED  BY <1>14, <3>1, <3>2 DEF ExecuteFinish, Named, ExecutionRows
  <2>4. Remaining(h)' = {}
    BY <2>1 DEF Remaining, Decisions, SameBut
  <2> QED  BY <1>0, <2>1, <2>2, <2>3, <2>4 DEF ListInv, SameBut, Holding, Working
<1>15. CASE ExecuteSettle(h)
  BY <1>a, <1>c, <1>15 DEF ExecuteSettle, RunLocations
<1>16. CASE ExecuteComplete(h)
  BY <1>b, <1>16 DEF ExecuteComplete, ReplyCodes
<1> QED  BY <1>1, <1>2, <1>3, <1>4, <1>5, <1>6, <1>7, <1>8, <1>9, <1>10, <1>12, <1>13, <1>14, <1>15, <1>16 DEF Executing

\* The handlers that lead to the approval: what is decided they leave alone.
LEMMA DataApproval ==
    ASSUME TypeInv, Named, HoldInv, RowInv, StageInv, DataInv, Lasting,
           [ApprovalNext]_approvalVars, UNCHANGED executionVars
    PROVE  DataInv'
<1>0. /\ Moves /\ execution' = execution /\ run' = run /\ home' = home
      /\ \A i \in Creators : request[i].status \in Decided => request'[i] = request[i]
  BY DecidedUntouched, StepMoves DEF TypeInv, executionVars
<1>1. \A g \in Executors : ListInv(g)'
  BY <1>0, ListsStay
<1>2. ASSUME NEW i \in Creators, request'[i].status = "COMPLETED"
      PROVE  request'[i] = request[i]
  <2>0. request[i] \in RequestRows(Executors)
    BY DEF Named
  <2>1. CASE request[i].status \in Decided
    BY <1>0, <2>1
  <2>2. CASE RequestMove(i) /\ request[i].status \notin Decided
    <3>1. CASE Opened(i)
      BY <1>2, <3>1 DEF Opened, NoRequest
    <3>2. CASE Previewed(i)
      BY <1>2, <2>0, <3>2 DEF Previewed, RequestRows
    <3>3. CASE FirstApproval(i) \/ SecondApproval(i) \/ Rejected(i)
      BY <1>2, <2>0, <3>3 DEF FirstApproval, SecondApproval, Rejected, RequestRows
    <3> QED  BY <2>2, <3>1, <3>2, <3>3 DEF RequestMove, Executed
  <2> QED  BY <1>0, <2>1, <2>2 DEF Moves
<1> QED  BY <1>0, <1>1, <1>2, DataParts

\* A call that settles without a failed unit has done all that was agreed.
LEMMA SettledIsWhole ==
    ASSUME TypeInv, Named, RowInv, DataInv, NEW h \in Executors, NEW id \in Creators, run[h].id = id,
           run[h].at = "settle", ~run[h].failed
    PROVE  Whole(id)
<1>0. run[h].checkpoint \in Checkpoints
  BY DEF TypeInv, RunTyped, RunLocals, Runs
<1>1. run[h].row.plan = request[id].plan
  BY DEF RowInv
<1>2. UnitsInv(h) /\ run[h].checkpoint["membership"] # "NONE" /\ Remaining(h) = {}
  BY DEF DataInv, ListInv, Holding, Working
<1>3. "membership" \in Units /\ \A c \in Classes : c \in Units
  BY DEF Units
<1>4. \A u \in Units : run[h].checkpoint[u] # "NONE" => run[h].checkpoint[u] \in Settled
  BY <1>0, <1>2 DEF UnitsInv, Checkpoints
<1>5. member[request[id].school] # "NONE"
  BY <1>2, <1>3, <1>4 DEF UnitsInv, Sound
<1>6. Agreed(id).transfer \subseteq Classes
  <2>1. request[id].plan \in Previewers
    <3>1. request[id].status \in Decided
      BY DEF RowInv
    <3> QED  BY <3>1 DEF TypeInv, ApprovalInv, RequestInv
  <2>2. Agreed(id) \in Ballots \union {NoDecisions}
    BY <2>1 DEF Agreed, TypeInv, ApprovalInv, ApprovalTypeOK, PlanRows
  <2> QED  BY <2>2, BallotsAssumption DEF NoDecisions
<1>7. ASSUME NEW c \in Agreed(id).transfer PROVE home[c] = request[id].school
  <2>1. c \in Classes /\ run[h].checkpoint[c] # "NONE"
    BY <1>1, <1>2, <1>6 DEF Remaining, Decisions, Agreed
  <2>2. run[h].checkpoint[c] \in {"MIGRATED", "RETAINED"}
    BY <1>3, <1>4, <2>1 DEF Settled
  <2> QED  BY <1>2, <2>1, <2>2 DEF UnitsInv, Sound
<1> QED  BY <1>5, <1>7 DEF Whole

LEMMA DataExecute ==
    ASSUME TypeInv, Named, HoldInv, RowInv, StageInv, DataInv, Lasting, NEW h \in Executors, Executing(h)
    PROVE  DataInv'
<1>0. h \in Runs /\ Others(h) /\ RunTyped /\ ListInv(h)' /\ ListInv(h)
  BY ExecuteTyped, OwnList DEF Runs, TypeInv, DataInv
<1>a. ASSUME UNCHANGED <<execution, request>>
      PROVE  /\ CompletedSame
             /\ \A d \in Executors : execution'[d].checkpoint = execution[d].checkpoint /\ execution'[d].id = execution[d].id
  BY <1>a DEF CompletedSame
<1>b. ASSUME UNCHANGED <<execution, request>>, home' = home
      PROVE  DataInv'
  BY <1>0, <1>a, <1>b, DataMove
<1>c. run[h].at \in Holding =>
          \E id \in Creators : /\ id = run[h].id /\ request[id].status = "EXECUTING" /\ request[id].status \in Decided
                               /\ run[h].row.school = request[id].school /\ run[h].row.plan = request[id].plan
  BY DEF Named, RowInv, HoldInv, Holding, Working, Decided
<1>d. ASSUME NEW id \in Creators, \A i \in Creators \ {id} : request'[i] = request[i],
             request'[id].status # "COMPLETED", execution' = execution
      PROVE  CompletedSame
  BY <1>d DEF CompletedSame
<1>e. ASSUME request' = request, \A d \in Executors : execution'[d].review = execution[d].review
      PROVE  CompletedSame
  <2>1. \A i \in Creators : request[i].status = "COMPLETED" => request[i].execution \in Executors
    BY DEF StageInv, RequestRun, Named
  <2> QED  BY <1>e, <2>1 DEF CompletedSame
<1>1. CASE ExecuteLock(h)
  <2>0. PICK id \in Creators : id = run[h].id /\ run[h].row.status \in {"APPROVED", "READY_TO_EXECUTE"}
    BY <1>0, <1>1 DEF ExecuteLock, TypeInv, AllRunsPlaced, RunPlaced
  <2>1. execution' = execution /\ home' = home
    BY <1>1 DEF ExecuteLock, world
  <2>2. /\ request'[id].status # "COMPLETED" \/ request' = request
        /\ \A i \in Creators \ {id} : request'[i] = request[i]
    BY <1>1, <2>0 DEF ExecuteLock, Transition, Named, RequestRows
  <2>3. CompletedSame
    BY <1>a, <1>d, <2>1, <2>2
  <2> QED  BY <1>0, <2>1, <2>3, DataMove
<1>2. CASE ExecuteLink(h)
  <2>0. PICK id \in Creators : id = run[h].id /\ request[id].status = "EXECUTING"
    BY <1>2, <1>c DEF ExecuteLink, Holding, Working
  <2>1. execution' = execution /\ home' = home
    BY <1>2 DEF ExecuteLink, world
  <2>2. request'[id].status # "COMPLETED" /\ \A i \in Creators \ {id} : request'[i] = request[i]
    BY <1>2, <2>0 DEF ExecuteLink, Transition, Named, RequestRows
  <2>3. CompletedSame
    BY <1>d, <2>1, <2>2
  <2> QED  BY <1>0, <2>1, <2>3, DataMove
<1>3. CASE ExecuteSettle(h)
  <2>0. PICK id \in Creators : id = run[h].id /\ request[id].status = "EXECUTING" /\ request[id].status \in Decided
    BY <1>3, <1>c DEF ExecuteSettle, Holding, Working
  <2>1. execution' = execution /\ home' = home /\ run[h].at = "settle"
    BY <1>3 DEF ExecuteSettle, world
  <2>2. request'[id].status = Ending(h) /\ \A i \in Creators \ {id} : request'[i] = request[i]
    BY <1>3, <2>0 DEF ExecuteSettle, Transition, Named, RequestRows
  <2>3. CASE run[h].failed
    <3>1. CompletedSame
      BY <1>d, <2>1, <2>2, <2>3 DEF Ending
    <3> QED  BY <1>0, <2>1, <3>1, DataMove
  <2>4. CASE ~run[h].failed
    <3>1. WholeNext(id)
      BY <2>0, <2>1, <2>4, SettledIsWhole, SoundLasts
    <3> QED  BY <1>0, <2>1, <2>2, <3>1, DataMove
  <2> QED  BY <2>3, <2>4
<1>4. CASE ExecuteResume(h)
  <2>0. PICK e \in Executors : e = run[h].execution
    BY <1>4 DEF ExecuteResume, Named, Fetched
  <2>1. /\ request' = request /\ home' = home
        /\ \A d \in Executors : /\ execution'[d].checkpoint = execution[d].checkpoint
                                /\ execution'[d].id = execution[d].id /\ execution'[d].review = execution[d].review
    BY <1>4, <2>0 DEF ExecuteResume, approvalVars, world, Named, ExecutionRows
  <2>2. CompletedSame
    BY <1>e, <2>1
  <2> QED  BY <1>0, <2>1, <2>2, DataMove
<1>5. CASE ExecuteOpen(h)
  <2>0. /\ execution[h] = NoExecution /\ NoExecution.id = Null /\ NoExecution.review = Null
        /\ NoExecution.checkpoint = Blank /\ run[h].at = "open" /\ run[h].at \in Holding
    BY <1>5 DEF ExecuteOpen, StageInv, ExecutorInv, NoExecution, Holding, Working
  <2>1. /\ request' = request /\ home' = home /\ \A d \in Executors \ {h} : execution'[d] = execution[d]
        /\ execution'[h].checkpoint = Blank /\ execution'[h].id = run[h].id /\ execution'[h].review = Null
    BY <1>5 DEF ExecuteOpen, approvalVars, world, Named, NoExecution
  <2>2. Written(h, h)
    BY <2>0, <2>1, BlankSound DEF Written
  <2>3. CompletedSame
    BY <1>e, <2>0, <2>1
  <2> QED  BY <1>0, <2>1, <2>2, <2>3, DataMove
<1>6. CASE ExecuteNote(h)
  <2>0. PICK id \in Creators : id = run[h].id /\ request[id].status \in Decided /\ run[h].at = "note" /\ run[h].at \in Holding
    BY <1>6, <1>c DEF ExecuteNote, Holding, Working
  <2>1. PICK e \in Executors : e = run[h].execution
    BY <2>0 DEF Named, Fetched
  <2>2. request[id].execution = e /\ execution[e].id = id
    BY <2>0, <2>1 DEF StageInv, ExecutorInv, RequestRun, Named
  <2>3. /\ request' = request /\ home' = home /\ \A d \in Executors \ {e} : execution'[d] = execution[d]
        /\ execution'[e].checkpoint = run[h].checkpoint /\ execution'[e].id = id
        /\ execution'[e].review = execution[e].review
    BY <1>6, <2>1, <2>2 DEF ExecuteNote, approvalVars, world, Named, ExecutionRows
  <2>4. SoundNext(run[h].checkpoint, id)
    BY <1>0, <2>0, SoundLasts DEF ListInv, UnitsInv
  <2>5. Written(h, e)
    BY <2>0, <2>2, <2>3, <2>4 DEF Written
  <2>6. CompletedSame
    BY <1>e, <2>3
  <2> QED  BY <1>0, <2>3, <2>5, <2>6, DataMove
<1>7. CASE ExecuteFinish(h)
  <2>0. PICK id \in Creators : id = run[h].id /\ request[id].status = "EXECUTING" /\ run[h].at = "units"
    BY <1>7, <1>c DEF ExecuteFinish, Holding, Working
  <2>1. PICK e \in Executors : e = run[h].execution
    BY <2>0 DEF Named, Fetched
  <2>2. request[id].execution = e /\ execution[e].id = id
    BY <2>0, <2>1 DEF StageInv, ExecutorInv, RequestRun, Named
  <2>3. /\ request' = request /\ home' = home /\ \A d \in Executors \ {e} : execution'[d] = execution[d]
        /\ execution'[e].checkpoint = execution[e].checkpoint /\ execution'[e].id = execution[e].id
    BY <1>7, <2>1 DEF ExecuteFinish, approvalVars, world, Named, ExecutionRows
  <2>4. ASSUME NEW i \in Creators, request[i].status = "COMPLETED"
        PROVE  request[i].execution \in Executors \ {e}
    <3>1. request[i].execution \in Executors /\ execution[request[i].execution].id = i
      BY <2>4 DEF StageInv, RequestRun, Named
    <3> QED  BY <2>0, <2>2, <2>4, <3>1
  <2>5. CompletedSame
    BY <2>3, <2>4 DEF CompletedSame
  <2> QED  BY <1>0, <2>3, <2>5, DataMove
<1>8. ASSUME NEW c \in Classes, ExecuteTransfer(h, c)
      PROVE  DataInv'
  <2>0. PICK id \in Creators : /\ id = run[h].id /\ request[id].status = "EXECUTING" /\ run[h].at = "units"
                               /\ run[h].row.school = request[id].school /\ run[h].row.plan = request[id].plan
    BY <1>8, <1>c DEF ExecuteTransfer, Holding, Working
  <2>1. UNCHANGED <<execution, request>> /\ (home' = home \/ home' = [home EXCEPT ![c] = request[id].school])
    BY <1>8, <2>0 DEF ExecuteTransfer
  <2>2. c \in Agreed(id).transfer /\ run[h].joined
    BY <1>8, <2>0 DEF ExecuteTransfer, ToTransfer, Decisions, Agreed
  <2>3. member[request[id].school] # "NONE"
    BY <1>0, <2>0, <2>2 DEF ListInv, UnitsInv, Holding, Working
  <2>4. home \in [Classes -> Tenants]
    BY DEF TypeInv, ApprovalInv, ApprovalTypeOK
  <2>5. \A k \in Classes : \/ home'[k] = home[k]
                           \/ k = c /\ home'[k] = request[id].school
    BY <2>1, <2>4
  <2>6. request[id].status \in Decided \ {"APPROVED"}
    BY <2>0 DEF Decided
  <2> QED  BY <1>0, <1>a, <2>1, <2>2, <2>3, <2>5, <2>6, DataMove
<1>9. CASE ExecuteJoin(h)
  BY <1>9, <1>b DEF ExecuteJoin
<1>10. CASE \/ \E id \in Creators, key \in ExecuteKeys : ExecuteRead(h, id, key)
            \/ ExecuteUpsert(h) \/ ExecuteClassify(h) \/ ExecutePrior(h) \/ ExecuteMember(h)
            \/ \E c \in Classes : ExecuteCarry(h, c)
            \/ ExecuteComplete(h)
  BY <1>10, <1>b DEF ExecuteRead, ExecuteUpsert, ExecuteClassify, ExecutePrior, ExecuteMember, ExecuteCarry,
                     ExecuteComplete, approvalVars, world
<1> QED  BY <1>1, <1>2, <1>3, <1>4, <1>5, <1>6, <1>7, <1>8, <1>9, <1>10 DEF Executing

LEMMA DataReview ==
    ASSUME TypeInv, Named, HoldInv, RowInv, StageInv, DataInv, Lasting, NEW w \in Reviewers, Reviewing(w)
    PROVE  DataInv'
<1>0. w \in Runs /\ w \notin Executors /\ Others(w) /\ ReviewerInv(w)
  BY ReviewTyped DEF Runs, Named, StageInv
<1>a. ASSUME UNCHANGED <<execution, request>>, home' = home
      PROVE  DataInv'
  BY <1>0, <1>a, DataMove DEF CompletedSame
<1>1. ASSUME NEW id \in Creators, NEW decision \in {"ACCEPT_PARTIAL", "RETRY_REMAINING"}, ReviewRead(w, id, decision)
      PROVE  DataInv'
  BY <1>1, <1>a DEF ReviewRead, approvalVars, world
<1>2. CASE ReviewResolve(w)
  <2> DEFINE accepts == run[w].decision = "ACCEPT_PARTIAL"
  <2>0. PICK id \in Creators, e \in Executors : id = run[w].id /\ e = run[w].execution /\ run[w].at = "resolve"
    BY <1>2 DEF ReviewResolve, Named
  <2>1. CASE execution[e].status # "ROLLBACK_REVIEW_REQUIRED"
    BY <1>2, <1>a, <2>0, <2>1 DEF ReviewResolve, approvalVars, world
  <2>2. CASE execution[e].status = "ROLLBACK_REVIEW_REQUIRED"
    <3>1. request' = request /\ home' = home
      BY <1>2 DEF ReviewResolve, approvalVars, world
    <3>2. /\ \A d \in Executors \ {e} : execution'[d] = execution[d]
          /\ execution'[e].checkpoint = execution[e].checkpoint /\ execution'[e].id = execution[e].id
      <4>1. execution' = [execution EXCEPT ![e] =
                 [execution[e] EXCEPT !.status = IF accepts THEN "COMPLETED" ELSE "PENDING",
                                      !.review = IF accepts THEN "ACCEPTED_PARTIAL" ELSE "RETRY_SCHEDULED"]]
        BY <1>2, <2>0, <2>2 DEF ReviewResolve
      <4> QED  BY <4>1 DEF Named, ExecutionRows
    <3>3. request[execution[e].id].status \in {"EXECUTING", "ROLLBACK_REVIEW_REQUIRED"}
      BY <2>2 DEF StageInv, ExecutionInv
    <3>4. ASSUME NEW i \in Creators, request[i].status = "COMPLETED"
          PROVE  request[i].execution \in Executors \ {e}
      <4>1. request[i].execution \in Executors /\ execution[request[i].execution].id = i
        BY <3>4 DEF StageInv, RequestRun, Named
      <4> QED  BY <3>3, <3>4, <4>1
    <3>5. CompletedSame
      BY <3>1, <3>2, <3>4 DEF CompletedSame
    <3> QED  BY <1>0, <3>1, <3>2, <3>5, DataMove
  <2> QED  BY <2>1, <2>2
<1>3. CASE ReviewReopen(w)
  <2>0. PICK id \in Creators : id = run[w].id /\ run[w].at = "reopen"
    BY <1>3 DEF ReviewReopen, Named
  <2>1. execution' = execution /\ home' = home /\ \A i \in Creators \ {id} : request'[i] = request[i]
    BY <1>3, <2>0 DEF ReviewReopen, Transition, world, Named
  <2>2. request'[id].execution = request[id].execution
    BY <1>3, <2>0 DEF ReviewReopen, Transition, Named, RequestRows
  <2>3. request'[id] = request[id] \/ request'[id].status # "COMPLETED" \/ run[w].decision = "ACCEPT_PARTIAL"
    BY <1>3, <2>0 DEF ReviewReopen, Transition, Named, RequestRows
  <2>4. run[w].decision = "ACCEPT_PARTIAL" => execution[request[id].execution].review = "ACCEPTED_PARTIAL"
    BY <1>0, <2>0 DEF ReviewerInv
  <2> QED  BY <1>0, <2>1, <2>2, <2>3, <2>4, DataMove
<1> QED  BY <1>1, <1>2, <1>3 DEF Reviewing

LEMMA DataStep ==
    ASSUME TypeInv, HoldInv, RowInv, StageInv, DataInv, [Next]_vars
    PROVE  DataInv'
<1>0. Named /\ Lasting
  BY NamedHolds, StepLasts
<1>1. ASSUME NEW h \in Runs, RunDies(h)
      PROVE  DataInv'
  <2>1. run'[h].at = "done" /\ Others(h)
    BY <1>1, RunReplyEffect DEF RunDies, ReplyCodes, TypeInv
  <2>2. ListInv(h)'
    BY <2>1 DEF ListInv, Holding, Working
  <2>3. UNCHANGED <<execution, request, home>>
    BY <1>1 DEF RunDies, approvalVars, world
  <2> QED  BY <1>0, <2>1, <2>2, <2>3, DataMove DEF CompletedSame
<1> QED  BY <1>0, <1>1, DataApproval, DataExecute, DataReview DEF Next, vars

-----------------------------------------------------------------------------
(* The theorems                                                            *)

ConvergenceInv == TypeInv /\ HoldInv /\ RowInv /\ StageInv /\ DataInv

LEMMA ConvergenceInit ==
    ASSUME Init
    PROVE  ConvergenceInv
<1>0. /\ \A id \in Creators : request[id] = NoRequest
      /\ \A h \in Runs : run[h] = Resting
      /\ \A e \in Executors : execution[e] = NoExecution
      /\ \A c \in Classes : home[c] = Source
  BY DEF Init, ApprovalInit
<1>1. ApprovalInv(Executors)
  BY InvInit DEF Init
<1>2. NoExecution \in ExecutionRows /\ NoExecution.id = Null /\ NoExecution.status = "ABSENT"
  BY BlankTyped DEF NoExecution, ExecutionRows
<1>3. NoRow \in Rows(Creators, Executors)
  BY DEF NoRow, Rows, Statuses
<1>4. TypeInv
  BY <1>1, <1>2, <1>3, BlankTyped DEF Init, TypeInv, ExecutionTyped, RunTyped, AllRunsPlaced, RunPlaced
<1>5. /\ \A h \in Runs : /\ run[h].at = "start" /\ run[h].checkpoint = Blank /\ run[h].prior = Blank
                         /\ ~run[h].failed /\ ~run[h].joined
      /\ \A id \in Creators : request[id].status = "ABSENT" /\ request[id].execution = Null
  BY <1>0 DEF Resting, NoRequest
<1>6. HoldInv /\ RowInv
  BY <1>5 DEF HoldInv, RowInv, Holding, Working, Runs
<1>7. StageInv
  <2>1. Null \notin Creators
    BY CallsAssumption DEF Calls
  <2>2. OneRunPerRequest
    BY <1>0, <1>2 DEF OneRunPerRequest
  <2>3. \A id \in Creators : RequestRun(id)
    BY <1>0, <1>2, <1>5, <2>1 DEF RequestRun, Fresh
  <2>4. \A e \in Executors : ExecutionInv(e)
    BY <1>0, <1>2 DEF ExecutionInv
  <2>5. \A h \in Executors : ExecutorInv(h)
    BY <1>0, <1>5 DEF ExecutorInv, Runs
  <2>6. \A w \in Reviewers : ReviewerInv(w)
    BY <1>5 DEF ReviewerInv, Runs
  <2> QED  BY <2>2, <2>3, <2>4, <2>5, <2>6 DEF StageInv
<1>8. DataInv
  BY <1>0, <1>2, <1>5 DEF DataInv, ListInv, Holding, Working, Runs
<1> QED  BY <1>4, <1>6, <1>7, <1>8 DEF ConvergenceInv

\* The invariant of execute and rollback review, with the handlers that lead to them.
THEOREM ConvergenceInvariance == Spec => []ConvergenceInv
<1>1. Init => ConvergenceInv
  BY ConvergenceInit
<1>2. ConvergenceInv /\ [Next]_vars => ConvergenceInv'
  BY RunTypes, HoldStep, StageStep, DataStep DEF ConvergenceInv
<1> QED  BY <1>1, <1>2, PTL DEF Spec

\* "Never two parallel executions of the same request", and one execution row in the
\* life of a request, for any number of calls, keys, faults and reviews.
THEOREM ExecutionsAreSoundHolds == Spec => []ExecutionsAreSound
<1>1. ASSUME ConvergenceInv
      PROVE  ExecutionsAreSound
  <2>1. TypeOK
    BY <1>1 DEF ConvergenceInv, TypeInv, ApprovalInv, ExecutionTyped, RunTyped, TypeOK
  <2>2. OneExecution
    BY <1>1 DEF ConvergenceInv, HoldInv, Holds, Holding, OneExecution
  <2>3. OneRunPerRequest
    BY <1>1 DEF ConvergenceInv, StageInv
  <2> QED  BY <2>1, <2>2, <2>3 DEF ExecutionsAreSound
<1>2. ConvergenceInv => ExecutionsAreSound
  BY <1>1
<1> QED  BY <1>2, ConvergenceInvariance, PTL

\* A resumed execution writes its list from an empty one, and loses no unit that an
\* earlier execution settled.
THEOREM ResumeKeepsSettledUnitsHolds == Spec => []ResumeKeepsSettledUnits
<1>1. ASSUME ConvergenceInv
      PROVE  ResumeKeepsSettledUnits
  <2> SUFFICES ASSUME NEW h \in Executors, run[h].at = "settle", NEW u \in Units, run[h].prior[u] \in Settled,
                      u = "membership" \/ u \in Decisions(h).transfer \union Decisions(h).retain
               PROVE  execution[run[h].execution].checkpoint[u] = run[h].prior[u]
    BY DEF ResumeKeepsSettledUnits
  <2>1. /\ UnitsInv(h) /\ run[h].checkpoint["membership"] # "NONE" /\ Remaining(h) = {}
        /\ execution[run[h].execution].checkpoint = run[h].checkpoint
    BY <1>1 DEF ConvergenceInv, DataInv, ListInv, Holding, Working
  <2>2. run[h].checkpoint[u] # "NONE"
    BY <2>1 DEF Remaining
  <2> QED  BY <2>1, <2>2 DEF UnitsInv
<1>2. ConvergenceInv => ResumeKeepsSettledUnits
  BY <1>1
<1> QED  BY <1>2, ConvergenceInvariance, PTL

\* Where the classes are agrees with what was consented to, with the checkpoints and with
\* the requests that are COMPLETED, whatever is cut off, fails, is retried or accepted.
THEOREM MovesAreTrueHolds == Spec => []MovesAreTrue
<1>1. ASSUME ConvergenceInv
      PROVE  MovesAreTrue
  <2>0. TypeInv /\ StageInv /\ DataInv /\ Named
    BY <1>1, NamedHolds DEF ConvergenceInv
  <2>1. MovedByConsent
    <3> SUFFICES ASSUME NEW c \in Classes, home[c] # Source
                 PROVE  /\ member[home[c]] # "NONE"
                        /\ \E id \in Creators :
                               /\ request[id].school = home[c]
                               /\ request[id].status \in {"EXECUTING", "ROLLBACK_REVIEW_REQUIRED",
                                                          "READY_TO_EXECUTE", "COMPLETED"}
                               /\ request[id].teacher /\ request[id].admin
                               /\ plan[request[id].plan].status = "CONFIRMED"
                               /\ c \in plan[request[id].plan].decisions.transfer
      BY DEF MovedByConsent
    <3>1. PICK id \in Creators : /\ request[id].school = home[c] /\ request[id].status \in Decided \ {"APPROVED"}
                                 /\ c \in Agreed(id).transfer
      BY <2>0 DEF DataInv
    <3>2. request[id].teacher /\ request[id].admin /\ plan[request[id].plan].status = "CONFIRMED"
      BY <2>0, <3>1 DEF TypeInv, ApprovalInv, RequestInv
    <3>3. request[id].status \in {"EXECUTING", "ROLLBACK_REVIEW_REQUIRED", "READY_TO_EXECUTE", "COMPLETED"}
      BY <3>1 DEF Decided
    <3> QED  BY <2>0, <3>1, <3>2, <3>3 DEF DataInv, Agreed
  <2>2. CheckpointIsTrue
    <3> SUFFICES ASSUME NEW e \in Executors, NEW c \in Classes, execution[e].checkpoint[c] = "MIGRATED"
                 PROVE  home[c] = request[execution[e].id].school
      BY DEF CheckpointIsTrue
    <3>1. execution[e].id # Null
      <4>1. Blank[c] = "NONE" /\ NoExecution.checkpoint = Blank
        BY DEF Blank, Units, NoExecution
      <4> QED  BY <2>0, <4>1 DEF StageInv, ExecutionInv
    <3> QED  BY <2>0, <3>1 DEF DataInv, Sound
  <2>3. CompletedIsWhole
    BY <2>0 DEF DataInv, Whole, Agreed, CompletedIsWhole
  <2> QED  BY <2>1, <2>2, <2>3 DEF MovesAreTrue
<1>2. ConvergenceInv => MovesAreTrue
  BY <1>1
<1> QED  BY <1>2, ConvergenceInvariance, PTL

=============================================================================
