--------------------------- MODULE OperationsProofs ---------------------------
(***************************************************************************)
(* Two proofs that share the rows of idempotency_record.  First            *)
(* IdempotentRequests, the pattern of every idempotent write, for any      *)
(* number of keys, requests, payloads and generations; then Operations,    *)
(* whose requests follow that pattern, for any number of incidents, calls  *)
(* and nonces.                                                             *)
(*                                                                         *)
(* The inductive invariant of IdempotentRequests is IInv.                  *)
(* MutualExclusion alone is not inductive: a claim must know that nobody   *)
(* holds a FAILED or absent record, which is what HolderIsCurrent says;    *)
(* and HolderIsCurrent survives another request's complete() or fail()     *)
(* only because there is no other holder.                                  *)
(***************************************************************************)
EXTENDS IdempotentRequests, Operations, ServiceCallsProofs, FiniteSetTheorems

\* The row operators keep rows rows.
LEMMA RowOperators ==
    ASSUME NEW H, NEW R, NEW row \in Rows(H, R), NEW h \in H, NEW r \in R \union {Null},
           NEW g \in Nat, NEW b \in BOOLEAN
    PROVE  /\ Claim(row, h) \in Rows(H, R)
           /\ Complete(row, g, r) \in Rows(H, R)
           /\ Fail(row, g, b, r) \in Rows(H, R)
           /\ Age(row) \in Rows(H, R)
<1> USE DEF Rows, Statuses
<1>1. Claim(row, h) \in Rows(H, R)
  BY DEF Claim
<1>2. Complete(row, g, r) \in Rows(H, R)
  BY DEF Complete
<1>3. Fail(row, g, b, r) \in Rows(H, R)
  BY DEF Fail
<1>4. Age(row) \in Rows(H, R)
  BY DEF Age
<1> QED  BY <1>1, <1>2, <1>3, <1>4

\* The classification of a row is one of the answers a client can get.
LEMMA ClassifyOutcome ==
    ASSUME NEW row, NEW h
    PROVE  Classify(row, h) \in Outcomes
  BY DEF Classify, Outcomes

\* TypeOK holds initially.
LEMMA TypeInit == Init => TypeOK
  BY DEF Init, TypeOK, NoRow, Rows, Statuses, Resting, Requests, Locations, Outcomes, Effects

\* A step that writes one handler's variables keeps the types of the others'.
LEMMA TypeMove ==
    ASSUME TypeOK,
           NEW w \in Workers, NEW v \in Requests,
           v.at # "idle" => v.key \in RecordKeys /\ v.hash \in Hashes,
           v.at = "complete" => v.response \in Responses,
           worker' = [worker EXCEPT ![w] = v],
           record' \in [RecordKeys -> Rows(Hashes, Responses)],
           effects' \in [RecordKeys -> SUBSET Effects]
    PROVE  TypeOK'
  BY DEF TypeOK

\* Every step keeps the types of the table and of the handlers' variables.
LEMMA TypeStep == TypeOK /\ [Next]_vars => TypeOK'
<1> SUFFICES ASSUME TypeOK, [Next]_vars PROVE TypeOK'
  OBVIOUS
<1>a. /\ record \in [RecordKeys -> Rows(Hashes, Responses)]
      /\ worker \in [Workers -> Requests]
      /\ effects \in [RecordKeys -> SUBSET Effects]
  BY DEF TypeOK
<1>b. ASSUME NEW w \in Workers, worker[w].at # "idle"
      PROVE  /\ worker[w].key \in RecordKeys /\ worker[w].hash \in Hashes
             /\ worker[w].generation \in Nat /\ worker[w].retryable \in BOOLEAN
             /\ worker[w].response \in Responses \union {Null}
             /\ worker[w] \in Requests
             /\ record[worker[w].key] \in Rows(Hashes, Responses)
  BY <1>a, <1>b DEF TypeOK, Requests
<1>1. ASSUME NEW w \in Workers, NEW k \in RecordKeys, NEW h \in Hashes, Send(w, k, h)
      PROVE  TypeOK'
  <2> DEFINE v == [Resting EXCEPT !.at = "upsert", !.key = k, !.hash = h]
  <2>1. v \in Requests /\ v.at = "upsert" /\ v.key \in RecordKeys /\ v.hash \in Hashes
    BY DEF Resting, Requests, Locations, Outcomes
  <2> HIDE DEF v
  <2> QED  BY <1>1, <1>a, <2>1, TypeMove DEF Send, v
<1>2. ASSUME NEW w \in Workers, BeginUpsert(w)
      PROVE  TypeOK'
  <2> DEFINE k == worker[w].key
             h == worker[w].hash
  <2>1. worker[w].at # "idle"
    BY <1>2 DEF BeginUpsert
  <2>2. CASE /\ Claims(record[k], h)
             /\ record' = [record EXCEPT ![k] = Claim(record[k], h)]
             /\ worker' = [worker EXCEPT ![w] = [@ EXCEPT !.at = "apply",
                                         !.generation = record[k].generation + 1]]
    <3> DEFINE v == [worker[w] EXCEPT !.at = "apply", !.generation = record[k].generation + 1]
    <3>1. record[k].generation + 1 \in Nat
      BY <1>b, <2>1 DEF Rows
    <3>2. /\ v \in Requests /\ v.at = "apply"
          /\ v.key \in RecordKeys /\ v.hash \in Hashes
      BY <1>b, <2>1, <3>1 DEF Requests, Locations
    <3>3. Claim(record[k], h) \in Rows(Hashes, Responses)
      BY <1>b, <2>1 DEF Claim, Rows, Statuses
    <3>4. record' \in [RecordKeys -> Rows(Hashes, Responses)]
      BY <1>a, <2>2, <3>3
    <3>5. worker' = [worker EXCEPT ![w] = v]
      BY <2>2
    <3>6. effects' = effects
      BY <1>2 DEF BeginUpsert
    <3> HIDE DEF v
    <3> QED  BY <1>a, <3>2, <3>4, <3>5, <3>6, TypeMove
  <2>3. CASE /\ worker' = [worker EXCEPT ![w] = [@ EXCEPT !.at = "classify"]]
             /\ UNCHANGED record
    <3> DEFINE v == [worker[w] EXCEPT !.at = "classify"]
    <3>1. /\ v \in Requests /\ v.at = "classify"
          /\ v.key \in RecordKeys /\ v.hash \in Hashes
      BY <1>b, <2>1 DEF Requests, Locations
    <3>2. worker' = [worker EXCEPT ![w] = v]
      BY <2>3
    <3>3. effects' = effects
      BY <1>2 DEF BeginUpsert
    <3> HIDE DEF v
    <3> QED  BY <1>a, <2>3, <3>1, <3>2, <3>3, TypeMove
  <2> QED  BY <1>2, <2>2, <2>3 DEF BeginUpsert
<1>c. ASSUME NEW w \in Workers, NEW out \in Outcomes, NEW res \in Responses \union {Null},
             Reply(w, out, res),
             record' \in [RecordKeys -> Rows(Hashes, Responses)], effects' = effects
      PROVE  TypeOK'
  <2> DEFINE v == [worker[w] EXCEPT !.at = "idle", !.outcome = out, !.response = res]
  <2>1. v \in Requests /\ v.at = "idle"
    BY <1>a DEF Requests, Locations
  <2>2. worker' = [worker EXCEPT ![w] = v]
    BY <1>c DEF Reply
  <2> HIDE DEF v
  <2> QED  BY <1>a, <1>c, <2>1, <2>2, TypeMove
<1>3. ASSUME NEW w \in Workers, BeginClassify(w)
      PROVE  TypeOK'
  <2> DEFINE out == Classify(record[worker[w].key], worker[w].hash)
             res == record[worker[w].key].response
  <2>1. out \in Outcomes
    BY ClassifyOutcome
  <2>2. res \in Responses \union {Null}
    BY <1>3, <1>b DEF BeginClassify, Rows
  <2>3. Reply(w, out, res) /\ record' = record /\ effects' = effects
    BY <1>3 DEF BeginClassify
  <2> HIDE DEF out, res
  <2> QED  BY <1>a, <1>c, <2>1, <2>2, <2>3
<1>4. ASSUME NEW w \in Workers, Apply(w)
      PROVE  TypeOK'
  <2>1. PICK r \in Responses :
          /\ effects' = [effects EXCEPT ![worker[w].key] = @ \union
                {[generation |-> worker[w].generation, hash |-> worker[w].hash, response |-> r]}]
          /\ worker' = [worker EXCEPT ![w] = [@ EXCEPT !.at = "complete", !.response = r]]
    BY <1>4 DEF Apply
  <2>2. worker[w].at # "idle"
    BY <1>4 DEF Apply
  <2>3. [generation |-> worker[w].generation, hash |-> worker[w].hash, response |-> r] \in Effects
    BY <1>b, <2>2 DEF Effects
  <2>4. effects' \in [RecordKeys -> SUBSET Effects]
    BY <1>a, <2>1, <2>3
  <2> DEFINE v == [worker[w] EXCEPT !.at = "complete", !.response = r]
  <2>5. /\ v \in Requests /\ v.at = "complete" /\ v.response \in Responses
        /\ v.key \in RecordKeys /\ v.hash \in Hashes
    BY <1>b, <2>2 DEF Requests, Locations
  <2>6. worker' = [worker EXCEPT ![w] = v]
    BY <2>1
  <2>7. record' = record
    BY <1>4 DEF Apply
  <2> HIDE DEF v
  <2> QED  BY <1>a, <2>4, <2>5, <2>6, <2>7, TypeMove
<1>d. ASSUME NEW w \in Workers, worker[w].at # "idle", NEW b \in BOOLEAN,
             worker' = [worker EXCEPT ![w] = [@ EXCEPT !.at = "fail", !.retryable = b]],
             record' \in [RecordKeys -> Rows(Hashes, Responses)], effects' = effects
      PROVE  TypeOK'
  <2> DEFINE v == [worker[w] EXCEPT !.at = "fail", !.retryable = b]
  <2>1. /\ v \in Requests /\ v.at = "fail"
        /\ v.key \in RecordKeys /\ v.hash \in Hashes
    BY <1>b, <1>d DEF Requests, Locations
  <2>2. worker' = [worker EXCEPT ![w] = v]
    BY <1>d
  <2> HIDE DEF v
  <2> QED  BY <1>a, <1>d, <2>1, <2>2, TypeMove
<1>5. ASSUME NEW w \in Workers, Throw(w)
      PROVE  TypeOK'
  <2>1. PICK b \in BOOLEAN :
           worker' = [worker EXCEPT ![w] = [@ EXCEPT !.at = "fail", !.retryable = b]]
    BY <1>5 DEF Throw
  <2>2. worker[w].at # "idle" /\ record' = record /\ effects' = effects
    BY <1>5 DEF Throw
  <2> QED  BY <1>a, <1>d, <2>1, <2>2
<1>e. ASSUME NEW w \in Workers, worker[w].at # "idle", NEW row \in Rows(Hashes, Responses),
             record' = [record EXCEPT ![worker[w].key] = row]
      PROVE  record' \in [RecordKeys -> Rows(Hashes, Responses)]
  BY <1>a, <1>b, <1>e
<1>6. ASSUME NEW w \in Workers, CompleteRequest(w)
      PROVE  TypeOK'
  <2> DEFINE row == Complete(record[worker[w].key], worker[w].generation, worker[w].response)
  <2>1. worker[w].at # "idle"
    BY <1>6 DEF CompleteRequest
  <2>2. row \in Rows(Hashes, Responses)
    BY <1>b, <2>1, RowOperators
  <2>3. /\ record' = [record EXCEPT ![worker[w].key] = row]
        /\ Reply(w, "COMMITTED", worker[w].response) /\ effects' = effects
    BY <1>6 DEF CompleteRequest
  <2> HIDE DEF row
  <2>4. record' \in [RecordKeys -> Rows(Hashes, Responses)]
    BY <1>e, <2>1, <2>2, <2>3
  <2>5. "COMMITTED" \in Outcomes /\ worker[w].response \in Responses \union {Null}
    BY <1>b, <2>1 DEF Outcomes
  <2> QED  BY <1>c, <2>3, <2>4, <2>5
<1>7. ASSUME NEW w \in Workers, CompleteRequestThenThrow(w)
      PROVE  TypeOK'
  <2> DEFINE row == Complete(record[worker[w].key], worker[w].generation, worker[w].response)
  <2>1. worker[w].at # "idle"
    BY <1>7 DEF CompleteRequestThenThrow
  <2>2. row \in Rows(Hashes, Responses)
    BY <1>b, <2>1, RowOperators
  <2>3. /\ record' = [record EXCEPT ![worker[w].key] = row]
        /\ worker' = [worker EXCEPT ![w] = [@ EXCEPT !.at = "fail", !.retryable = TRUE]]
        /\ effects' = effects
    BY <1>7 DEF CompleteRequestThenThrow
  <2> HIDE DEF row
  <2>4. record' \in [RecordKeys -> Rows(Hashes, Responses)]
    BY <1>e, <2>1, <2>2, <2>3
  <2> QED  BY <1>d, <2>1, <2>3, <2>4
<1>8. ASSUME NEW w \in Workers, FailRequest(w)
      PROVE  TypeOK'
  <2> DEFINE row == Fail(record[worker[w].key], worker[w].generation, worker[w].retryable, Null)
  <2>1. worker[w].at # "idle"
    BY <1>8 DEF FailRequest
  <2>2. row \in Rows(Hashes, Responses)
    BY <1>b, <2>1, RowOperators
  <2>3. /\ record' = [record EXCEPT ![worker[w].key] = row]
        /\ Reply(w, "ERROR", Null) /\ effects' = effects
    BY <1>8 DEF FailRequest
  <2> HIDE DEF row
  <2>4. record' \in [RecordKeys -> Rows(Hashes, Responses)]
    BY <1>e, <2>1, <2>2, <2>3
  <2>5. "ERROR" \in Outcomes
    BY DEF Outcomes
  <2> QED  BY <1>c, <2>3, <2>4, <2>5
<1>9. ASSUME NEW w \in Workers, Die(w)
      PROVE  TypeOK'
  <2>1. "ERROR" \in Outcomes /\ Reply(w, "ERROR", Null) /\ record' = record /\ effects' = effects
    BY <1>9 DEF Outcomes, Die
  <2> QED  BY <1>a, <1>c, <2>1
<1>10. ASSUME NEW k \in RecordKeys, RetryWindowElapses(k)
       PROVE  TypeOK'
  <2>1. Age(record[k]) \in Rows(Hashes, Responses)
    BY <1>a DEF Age, Rows
  <2>2. record' \in [RecordKeys -> Rows(Hashes, Responses)]
    BY <1>10, <1>a, <2>1 DEF RetryWindowElapses
  <2> QED  BY <1>10, <2>2 DEF RetryWindowElapses, TypeOK
<1>11. CASE UNCHANGED vars
  BY <1>11 DEF vars, TypeOK
<1> QED
  BY <1>1, <1>2, <1>3, <1>4, <1>5, <1>6, <1>7, <1>8, <1>9, <1>10, <1>11 DEF Next, Step

\* Type correctness of the idempotency pattern.
THEOREM TypeCorrect == Spec => []TypeOK
  BY TypeInit, TypeStep, PTL DEF Spec
----------------------------------------------------------------------------
\* Initially nobody holds a key and nothing was executed.
LEMMA InvInit == Init => IInv
<1> SUFFICES ASSUME Init PROVE IInv
  OBVIOUS
<1>1. TypeOK
  BY TypeInit
<1> QED
  BY <1>1 DEF Init, IInv, HolderIsCurrent, MutualExclusion, CompletedByExecution,
       ReplayIsAuthentic, OneExecutionPerGeneration, ExecutionIsOwn, ExecutionsArePast,
       Holds, Resting, NoRow

\* The invariant without its type part.
Core ==
    /\ HolderIsCurrent /\ MutualExclusion /\ CompletedByExecution /\ ReplayIsAuthentic
    /\ OneExecutionPerGeneration /\ ExecutionIsOwn /\ ExecutionsArePast

\* Every step keeps the invariant.
LEMMA InvStep == IInv /\ [Next]_vars => IInv'
<1> SUFFICES ASSUME IInv, [Next]_vars PROVE Core'
  BY TypeStep DEF IInv, Core
<1>t. TypeOK
  BY DEF IInv
<1>a. /\ record \in [RecordKeys -> Rows(Hashes, Responses)]
      /\ worker \in [Workers -> Requests]
      /\ effects \in [RecordKeys -> SUBSET Effects]
  BY <1>t DEF TypeOK
<1>b. ASSUME NEW w \in Workers, worker[w].at # "idle"
      PROVE  /\ worker[w].key \in RecordKeys /\ worker[w].hash \in Hashes
             /\ worker[w].generation \in Nat
             /\ worker[w] \in Requests
             /\ record[worker[w].key] \in Rows(Hashes, Responses)
             /\ record[worker[w].key].generation \in Nat
  BY <1>a, <1>b, <1>t DEF TypeOK, Requests, Rows
<1>c. Core
  BY DEF IInv, Core
<1> USE DEF Core, HolderIsCurrent, MutualExclusion, CompletedByExecution, ReplayIsAuthentic,
            OneExecutionPerGeneration, ExecutionIsOwn, ExecutionsArePast, Holds
<1>1. ASSUME NEW w \in Workers, NEW k \in RecordKeys, NEW h \in Hashes, Send(w, k, h)
      PROVE  Core'
  <2>1. /\ worker'[w].at = "upsert"
        /\ \A v \in Workers \ {w} : worker'[v] = worker[v]
        /\ record' = record /\ effects' = effects
    BY <1>1, <1>a DEF Send, Resting
  <2> QED  BY <1>c, <2>1
<1>2. ASSUME NEW w \in Workers, BeginUpsert(w)
      PROVE  Core'
  <2> DEFINE k == worker[w].key
             h == worker[w].hash
  <2>1. worker[w].at = "upsert" /\ effects' = effects
    BY <1>2 DEF BeginUpsert
  <2>2. CASE /\ Claims(record[k], h)
             /\ record' = [record EXCEPT ![k] = Claim(record[k], h)]
             /\ worker' = [worker EXCEPT ![w] = [@ EXCEPT !.at = "apply",
                                         !.generation = record[k].generation + 1]]
    <3>1. /\ worker'[w].at = "apply" /\ worker'[w].key = k /\ worker'[w].hash = h
          /\ worker'[w].generation = record[k].generation + 1
          /\ \A v \in Workers \ {w} : worker'[v] = worker[v]
      BY <1>a, <1>b, <2>1, <2>2 DEF Requests
    <3>2. /\ record'[k].status = "PENDING" /\ record'[k].hash = h
          /\ record'[k].generation = record[k].generation + 1
          /\ \A j \in RecordKeys \ {k} : record'[j] = record[j]
      BY <1>a, <1>b, <2>1, <2>2 DEF Claim
    <3>3. record[k].status \in {"ABSENT", "FAILED"} /\ k \in RecordKeys /\ record[k].generation \in Nat
      BY <1>b, <2>1, <2>2 DEF Claims, Reopenable
    <3>4. \A v \in Workers : ~Holds(v, k)
      BY <1>c, <3>3
    <3>5. \A e \in effects[k] : e.generation \in Nat /\ e.generation <= record[k].generation
      BY <1>a, <1>c, <3>3 DEF Effects
    <3> HIDE DEF k, h
    <3>6. HolderIsCurrent' /\ MutualExclusion'
      BY <1>c, <3>1, <3>2, <3>3, <3>4
    <3>7. CompletedByExecution' /\ ReplayIsAuthentic' /\ OneExecutionPerGeneration'
      BY <1>c, <2>1, <3>1, <3>2
    <3>8. ExecutionsArePast'
      BY <1>c, <2>1, <3>2, <3>3, <3>5
    <3>9. ExecutionIsOwn'
      BY <1>c, <2>1, <3>1, <3>3, <3>5
    <3> QED  BY <3>6, <3>7, <3>8, <3>9
  <2>3. CASE /\ worker' = [worker EXCEPT ![w] = [@ EXCEPT !.at = "classify"]]
             /\ UNCHANGED record
    <3>1. worker'[w].at = "classify" /\ \A v \in Workers \ {w} : worker'[v] = worker[v]
      BY <1>a, <2>3 DEF Requests
    <3>2. /\ HolderIsCurrent'
          /\ MutualExclusion'
          /\ ExecutionIsOwn'
      <4>1. HolderIsCurrent'
        BY <1>c, <2>1, <2>3, <3>1
      <4>2. MutualExclusion'
        BY <1>c, <2>1, <2>3, <3>1
      <4>3. ExecutionIsOwn'
        <5>1. \A v \in Workers : worker'[v].at \in {"apply", "complete"} => worker'[v] = worker[v]
          BY <3>1
        <5> QED  BY <1>c, <2>1, <5>1 DEF ExecutionIsOwn
      <4> QED  BY <4>1, <4>2, <4>3
    <3>3. ReplayIsAuthentic'
      BY <1>c, <2>1, <2>3, <3>1
    <3>4. CompletedByExecution' /\ OneExecutionPerGeneration' /\ ExecutionsArePast'
      BY <1>c, <2>1, <2>3
    <3> QED  BY <3>2, <3>3, <3>4
  <2> QED  BY <1>2, <2>2, <2>3 DEF BeginUpsert
<1>3. ASSUME NEW w \in Workers, BeginClassify(w)
      PROVE  Core'
  <2> DEFINE k == worker[w].key
             out == Classify(record[k], worker[w].hash)
  <2>1. worker[w].at = "classify" /\ record' = record /\ effects' = effects
    BY <1>3 DEF BeginClassify
  <2>2. /\ worker'[w].at = "idle" /\ worker'[w].key = k /\ worker'[w].hash = worker[w].hash
        /\ worker'[w].outcome = out /\ worker'[w].response = record[k].response
        /\ \A v \in Workers \ {w} : worker'[v] = worker[v]
    BY <1>3, <1>a DEF BeginClassify, Reply, Requests
  <2>3. k \in RecordKeys
    BY <1>b, <2>1
  <2>4. out = "DUPLICATE_SAME_PAYLOAD" => record[k].status = "COMPLETED" /\ record[k].hash = worker[w].hash
    BY DEF Classify
  <2> HIDE DEF k, out
  <2>5. ReplayIsAuthentic'
    BY <1>c, <2>1, <2>2, <2>3, <2>4
  <2>6. HolderIsCurrent' /\ MutualExclusion' /\ ExecutionIsOwn'
    BY <1>c, <2>1, <2>2
  <2> QED  BY <1>c, <2>1, <2>5, <2>6
<1>4. ASSUME NEW w \in Workers, Apply(w)
      PROVE  Core'
  <2> DEFINE k == worker[w].key
  <2>1. PICK r \in Responses :
          /\ effects' = [effects EXCEPT ![worker[w].key] = @ \union
                {[generation |-> worker[w].generation, hash |-> worker[w].hash, response |-> r]}]
          /\ worker' = [worker EXCEPT ![w] = [@ EXCEPT !.at = "complete", !.response = r]]
    BY <1>4 DEF Apply
  <2> DEFINE e0 == [generation |-> worker[w].generation, hash |-> worker[w].hash, response |-> r]
  <2>2. worker[w].at = "apply" /\ record' = record /\ k \in RecordKeys
    BY <1>4, <1>b DEF Apply
  <2>3. /\ worker'[w].at = "complete" /\ worker'[w].key = k /\ worker'[w].hash = worker[w].hash
        /\ worker'[w].generation = worker[w].generation /\ worker'[w].response = r
        /\ \A v \in Workers \ {w} : worker'[v] = worker[v]
    BY <1>a, <2>1 DEF Requests
  <2>4. /\ effects'[k] = effects[k] \union {e0}
        /\ \A j \in RecordKeys \ {k} : effects'[j] = effects[j]
    BY <1>a, <2>1, <2>2
  <2>5. /\ record[k].status = "PENDING" /\ record[k].generation = worker[w].generation
        /\ \A v \in Workers : Holds(v, k) => v = w
        /\ \A e \in effects[k] : e.generation # worker[w].generation
    <3>1. Holds(w, k)
      BY <2>2
    <3>2. record[k].status = "PENDING" /\ record[k].generation = worker[w].generation
      BY <1>c, <2>2, <3>1
    <3>3. \A v \in Workers : Holds(v, k) => v = w
      BY <1>c, <2>2, <3>1
    <3>4. \A e \in effects[k] : e.generation # worker[w].generation
      BY <1>c, <2>2
    <3> QED  BY <3>2, <3>3, <3>4
  <2>6. e0.generation = worker[w].generation /\ e0.generation \in Nat
    BY <1>b, <2>2
  <2>10. [generation |-> worker'[w].generation, hash |-> worker'[w].hash,
          response |-> worker'[w].response] = e0
    BY <2>3
  <2> HIDE DEF k, e0
  <2>7. HolderIsCurrent' /\ MutualExclusion'
    BY <1>c, <2>2, <2>3 DEF k
  <2>8. CompletedByExecution' /\ OneExecutionPerGeneration' /\ ExecutionsArePast'
    BY <1>c, <2>2, <2>4, <2>5, <2>6
  <2>9. ReplayIsAuthentic'
    <3> SUFFICES ASSUME NEW v \in Workers,
                        worker'[v].at = "idle", worker'[v].outcome = "DUPLICATE_SAME_PAYLOAD"
                 PROVE  \E e \in effects'[worker'[v].key] :
                            e.hash = worker'[v].hash /\ e.response = worker'[v].response
      OBVIOUS
    <3>1. v # w /\ worker'[v] = worker[v]
      BY <2>3
    <3>2. PICK e \in effects[worker[v].key] : e.hash = worker[v].hash /\ e.response = worker[v].response
      BY <1>c, <3>1
    <3>3. e \in effects'[worker[v].key]
      BY <1>a, <2>1, <3>2
    <3> QED  BY <3>1, <3>2, <3>3
  <2>11. ExecutionIsOwn'
    <3> SUFFICES ASSUME NEW v \in Workers
                 PROVE  /\ worker'[v].at = "complete" =>
                            [generation |-> worker'[v].generation, hash |-> worker'[v].hash,
                             response |-> worker'[v].response] \in effects'[worker'[v].key]
                        /\ worker'[v].at = "apply" =>
                            \A e \in effects'[worker'[v].key] : e.generation # worker'[v].generation
      OBVIOUS
    <3>1. CASE v = w
      BY <2>3, <2>4, <2>10, <3>1
    <3>2. CASE v # w /\ worker[v].at \in {"apply", "complete"}
      <4>1. worker'[v] = worker[v] /\ worker[v].key \in RecordKeys /\ worker[v].key # k
        BY <1>b, <2>3, <2>5, <3>2
      <4> QED  BY <1>c, <2>4, <3>2, <4>1
    <3>3. CASE v # w /\ worker[v].at \notin {"apply", "complete"}
      BY <2>3, <3>3
    <3> QED  BY <3>1, <3>2, <3>3
  <2> QED  BY <2>7, <2>8, <2>9, <2>11
<1>5. ASSUME NEW w \in Workers, Throw(w)
      PROVE  Core'
  <2>1. /\ worker'[w].at = "fail" /\ worker'[w].key = worker[w].key
        /\ worker'[w].hash = worker[w].hash /\ worker'[w].generation = worker[w].generation
        /\ \A v \in Workers \ {w} : worker'[v] = worker[v]
    BY <1>5, <1>a DEF Throw, Requests
  <2>2. worker[w].at \in {"apply", "complete"} /\ record' = record /\ effects' = effects
    BY <1>5 DEF Throw
  <2> QED  BY <1>c, <2>1, <2>2
<1>6. ASSUME NEW w \in Workers, NEW at, worker[w].at = "complete",
             worker'[w].at = at, at \in {"idle", "fail"},
             at = "idle" => worker'[w].outcome = "COMMITTED",
             worker'[w].key = worker[w].key, worker'[w].hash = worker[w].hash,
             worker'[w].generation = worker[w].generation,
             \A v \in Workers \ {w} : worker'[v] = worker[v],
             record' = [record EXCEPT ![worker[w].key] =
                           Complete(@, worker[w].generation, worker[w].response)],
             effects' = effects
      PROVE  Core'
  <2> DEFINE k == worker[w].key
  <2>1. k \in RecordKeys /\ Holds(w, k) /\ record[k].status = "PENDING"
        /\ record[k].generation = worker[w].generation
    BY <1>6, <1>b, <1>c
  <2>2. /\ record'[k].status = "COMPLETED" /\ record'[k].response = worker[w].response
        /\ record'[k].generation = record[k].generation /\ record'[k].hash = record[k].hash
        /\ \A j \in RecordKeys \ {k} : record'[j] = record[j]
    BY <1>6, <1>a, <2>1 DEF Complete, Current, Rows
  <2>3. \A v \in Workers : Holds(v, k) => v = w
    BY <1>c, <2>1
  <2>4. record[k].hash = worker[w].hash
    BY <1>c, <2>1
  <2>5. \E e \in effects[k] : /\ e.generation = worker[w].generation
                              /\ e.hash = worker[w].hash /\ e.response = worker[w].response
    <3> DEFINE e0 == [generation |-> worker[w].generation, hash |-> worker[w].hash,
                      response |-> worker[w].response]
    <3>1. e0 \in effects[k]
      BY <1>c, <1>6
    <3> QED  BY <3>1
  <2> HIDE DEF k
  <2>6. HolderIsCurrent' /\ MutualExclusion'
    BY <1>c, <1>6, <2>1, <2>2, <2>3, <2>4 DEF k
  <2>7. CompletedByExecution'
    BY <1>c, <1>6, <2>1, <2>2, <2>4, <2>5
  <2>8. /\ ReplayIsAuthentic'
        /\ OneExecutionPerGeneration'
        /\ ExecutionIsOwn'
    <3>1. ReplayIsAuthentic'
      BY <1>c, <1>6
    <3>2. OneExecutionPerGeneration'
      BY <1>c, <1>6
    <3>3. ExecutionIsOwn'
      BY <1>c, <1>6
    <3> QED  BY <3>1, <3>2, <3>3
  <2>9. ExecutionsArePast'
    BY <1>c, <1>6, <2>2
  <2> QED  BY <2>6, <2>7, <2>8, <2>9
<1>7. ASSUME NEW w \in Workers, CompleteRequest(w)
      PROVE  Core'
  <2>1. /\ worker[w].at = "complete" /\ worker'[w].at = "idle" /\ worker'[w].outcome = "COMMITTED"
        /\ worker'[w].key = worker[w].key /\ worker'[w].hash = worker[w].hash
        /\ worker'[w].generation = worker[w].generation
        /\ \A v \in Workers \ {w} : worker'[v] = worker[v]
    BY <1>7, <1>a DEF CompleteRequest, Reply, Requests
  <2> QED  BY <1>6, <1>7, <2>1 DEF CompleteRequest
<1>8. ASSUME NEW w \in Workers, CompleteRequestThenThrow(w)
      PROVE  Core'
  <2>1. /\ worker[w].at = "complete" /\ worker'[w].at = "fail"
        /\ worker'[w].key = worker[w].key /\ worker'[w].hash = worker[w].hash
        /\ worker'[w].generation = worker[w].generation
        /\ \A v \in Workers \ {w} : worker'[v] = worker[v]
    BY <1>8, <1>a DEF CompleteRequestThenThrow, Requests
  <2> QED  BY <1>6, <1>8, <2>1 DEF CompleteRequestThenThrow
<1>9. ASSUME NEW w \in Workers, FailRequest(w)
      PROVE  Core'
  <2> DEFINE k == worker[w].key
  <2>1. /\ worker[w].at = "fail" /\ worker'[w].at = "idle" /\ worker'[w].outcome = "ERROR"
        /\ \A v \in Workers \ {w} : worker'[v] = worker[v]
        /\ effects' = effects
    BY <1>9, <1>a DEF FailRequest, Reply, Requests
  <2>2. k \in RecordKeys /\ Holds(w, k)
    BY <1>b, <2>1
  <2>3. \A v \in Workers : Holds(v, k) => v = w
    BY <1>c, <2>2
  <2>4. /\ record'[k].generation = record[k].generation
        /\ record'[k] # record[k] => record'[k].status = "FAILED"
        /\ \A j \in RecordKeys \ {k} : record'[j] = record[j]
    BY <1>9, <1>a, <2>2 DEF FailRequest, Fail, Rows
  <2> HIDE DEF k
  <2>5. HolderIsCurrent' /\ MutualExclusion'
    BY <1>c, <2>1, <2>3, <2>4 DEF k
  <2>6. CompletedByExecution' /\ ExecutionsArePast'
    BY <1>c, <2>1, <2>2, <2>4
  <2>7. ReplayIsAuthentic' /\ OneExecutionPerGeneration' /\ ExecutionIsOwn'
    BY <1>c, <2>1
  <2> QED  BY <2>5, <2>6, <2>7
<1>10. ASSUME NEW w \in Workers, Die(w)
       PROVE  Core'
  <2>1. /\ worker'[w].at = "idle" /\ worker'[w].outcome = "ERROR"
        /\ \A v \in Workers \ {w} : worker'[v] = worker[v]
        /\ record' = record /\ effects' = effects
    BY <1>10, <1>a DEF Die, Reply, Requests
  <2> QED  BY <1>c, <2>1
<1>11. ASSUME NEW k \in RecordKeys, RetryWindowElapses(k)
       PROVE  Core'
  <2>1. /\ record[k].status = "FAILED" /\ record'[k].status = "FAILED"
        /\ record'[k].generation = record[k].generation
        /\ \A j \in RecordKeys \ {k} : record'[j] = record[j]
        /\ worker' = worker /\ effects' = effects
    BY <1>11, <1>a DEF RetryWindowElapses, Age, Rows
  <2>2. \A w \in Workers : ~Holds(w, k)
    BY <1>c, <2>1
  <2> QED  BY <1>c, <2>1, <2>2
<1>12. CASE UNCHANGED vars
  BY <1>c, <1>12 DEF vars
<1> QED
  BY <1>1, <1>2, <1>3, <1>4, <1>5, <1>7, <1>8, <1>9, <1>10, <1>11, <1>12 DEF Next, Step

\* The inductive invariant holds throughout.
THEOREM Invariance == Spec => []IInv
  BY InvInit, InvStep, PTL DEF Spec

\* The operation guarded by a key is never executed by two requests at once,
\* for any number of requests, retries and deaths.
THEOREM MutualExclusionHolds == Spec => []MutualExclusion
  BY Invariance, PTL DEF IInv

\* A holder's generation is never overtaken: STALE_GENERATION can only be the
\* answer to a holder whose own complete() was applied before.
THEOREM HolderIsCurrentHolds == Spec => []HolderIsCurrent
  BY Invariance, PTL DEF IInv

\* Whatever is replayed to a client was executed for its payload.
THEOREM ReplayIsAuthenticHolds == Spec => []ReplayIsAuthentic
  BY Invariance, PTL DEF IInv
\* The records are sound whoever dies, retries or overtakes: typed, with one holder
\* per key on the current generation, and completed only by an execution.
THEOREM RecordsAreSoundHolds == Spec => []RecordsAreSound
  BY Invariance, PTL DEF IInv, RecordsAreSound

\* No step touches a settled record, or executes its operation again.
LEMMA SettledStep ==
    IInv /\ [Next]_vars =>
        \A k \in RecordKeys : record[k].status = "COMPLETED" =>
            record'[k] = record[k] /\ effects'[k] = effects[k]
<1> SUFFICES ASSUME IInv, [Next]_vars, NEW k \in RecordKeys, record[k].status = "COMPLETED"
             PROVE  record'[k] = record[k] /\ effects'[k] = effects[k]
  OBVIOUS
<1>a. /\ record \in [RecordKeys -> Rows(Hashes, Responses)]
      /\ effects \in [RecordKeys -> SUBSET Effects]
      /\ \A w \in Workers : worker[w].at # "idle" => worker[w].key \in RecordKeys
  BY DEF IInv, TypeOK
<1>1. ASSUME NEW w \in Workers, BeginUpsert(w)
      PROVE  record'[k] = record[k] /\ effects'[k] = effects[k]
  <2>1. ~Claims(record[k], worker[w].hash)
    BY DEF Claims, Reopenable
  <2> QED  BY <1>1, <1>a, <2>1 DEF BeginUpsert
<1>2. ASSUME NEW w \in Workers, Apply(w)
      PROVE  record'[k] = record[k] /\ effects'[k] = effects[k]
  <2>1. worker[w].key # k
    BY <1>2 DEF Apply, IInv, HolderIsCurrent, Holds
  <2> QED  BY <1>2, <1>a, <2>1 DEF Apply
<1>3. ASSUME NEW w \in Workers, CompleteRequest(w) \/ CompleteRequestThenThrow(w)
      PROVE  record'[k] = record[k] /\ effects'[k] = effects[k]
  BY <1>3, <1>a DEF CompleteRequest, CompleteRequestThenThrow, Complete, Current
<1>4. ASSUME NEW w \in Workers, FailRequest(w)
      PROVE  record'[k] = record[k] /\ effects'[k] = effects[k]
  BY <1>4, <1>a DEF FailRequest, Fail, Current
<1>5. ASSUME NEW j \in RecordKeys, RetryWindowElapses(j)
      PROVE  record'[k] = record[k] /\ effects'[k] = effects[k]
  BY <1>5, <1>a DEF RetryWindowElapses
<1>6. ASSUME NEW w \in Workers,
             \/ \E j \in RecordKeys, h \in Hashes : Send(w, j, h)
             \/ BeginClassify(w) \/ Throw(w) \/ Die(w)
      PROVE  record'[k] = record[k] /\ effects'[k] = effects[k]
  BY <1>6 DEF Send, BeginClassify, Throw, Die
<1>7. CASE UNCHANGED vars
  BY <1>7 DEF vars
<1> QED  BY <1>1, <1>2, <1>3, <1>4, <1>5, <1>6, <1>7 DEF Next, Step

\* Once an operation is settled it is never executed again, whoever retries.
THEOREM NoExecutionOnceSettledHolds == Spec => NoExecutionOnceSettled
<1>1. IInv /\ [Next]_vars =>
        [\A k \in RecordKeys : record[k].status = "COMPLETED" =>
            record'[k] = record[k] /\ effects'[k] = effects[k]]_vars
  BY SettledStep
<1> QED  BY Invariance, <1>1, PTL DEF Spec, NoExecutionOnceSettled

\* No step takes up a record that is PENDING and that no request holds: begin() claims no
\* PENDING row, and complete() and fail() are only reached by a request that holds its key.
LEMMA AbandonedStep ==
    IInv /\ [Next]_vars =>
        \A k \in RecordKeys : record[k].status = "PENDING" /\ (\A w \in Workers : ~Holds(w, k)) =>
            /\ record'[k] = record[k] /\ effects'[k] = effects[k]
            /\ \A w \in Workers : ~Holds(w, k)'
<1> SUFFICES ASSUME IInv, [Next]_vars, NEW k \in RecordKeys, record[k].status = "PENDING",
                    \A w \in Workers : ~Holds(w, k)
             PROVE  /\ record'[k] = record[k] /\ effects'[k] = effects[k]
                    /\ \A w \in Workers : ~Holds(w, k)'
  OBVIOUS
<1> DEFINE Goal == /\ record'[k] = record[k] /\ effects'[k] = effects[k]
                   /\ \A w \in Workers : ~Holds(w, k)'
<1>a. /\ record \in [RecordKeys -> Rows(Hashes, Responses)]
      /\ effects \in [RecordKeys -> SUBSET Effects]
      /\ worker \in [Workers -> Requests]
      /\ \A w \in Workers : worker[w].at # "idle" => worker[w].key \in RecordKeys
  BY DEF IInv, TypeOK
<1>b. ASSUME NEW w \in Workers, \A v \in Workers \ {w} : worker'[v] = worker[v],
             worker'[w].key # k \/ worker'[w].at \in {"idle", "upsert", "classify"}
      PROVE  \A v \in Workers : ~Holds(v, k)'
  BY <1>b DEF Holds
<1>1. ASSUME NEW w \in Workers, BeginUpsert(w) PROVE Goal
  <2>1. CASE worker[w].key = k
    <3>1. ~Claims(record[k], worker[w].hash)
      BY DEF Claims, Reopenable
    <3>2. /\ record' = record /\ effects' = effects /\ worker'[w].at = "classify"
          /\ \A v \in Workers \ {w} : worker'[v] = worker[v]
      BY <1>1, <1>a, <2>1, <3>1 DEF BeginUpsert, Requests
    <3> QED  BY <1>b, <3>2
  <2>2. CASE worker[w].key # k
    <3>1. /\ record'[k] = record[k] /\ effects' = effects /\ worker'[w].key # k
          /\ \A v \in Workers \ {w} : worker'[v] = worker[v]
      BY <1>1, <1>a, <2>2 DEF BeginUpsert, Requests
    <3> QED  BY <1>b, <3>1
  <2> QED  BY <2>1, <2>2
<1>2. ASSUME NEW w \in Workers,
             Apply(w) \/ Throw(w) \/ CompleteRequest(w) \/ CompleteRequestThenThrow(w) \/ FailRequest(w)
      PROVE  Goal
  <2>1. worker[w].key # k
    BY <1>2 DEF Apply, Throw, CompleteRequest, CompleteRequestThenThrow, FailRequest, Holds
  <2>2. worker'[w].key = worker[w].key /\ \A v \in Workers \ {w} : worker'[v] = worker[v]
    <3>1. CASE Apply(w)
      BY <3>1, <1>a DEF Apply, Requests
    <3>2. CASE Throw(w)
      BY <3>2, <1>a DEF Throw, Requests
    <3>3. CASE CompleteRequest(w)
      BY <3>3, <1>a DEF CompleteRequest, Reply, Requests
    <3>4. CASE CompleteRequestThenThrow(w)
      BY <3>4, <1>a DEF CompleteRequestThenThrow, Requests
    <3>5. CASE FailRequest(w)
      BY <3>5, <1>a DEF FailRequest, Reply, Requests
    <3> QED  BY <1>2, <3>1, <3>2, <3>3, <3>4, <3>5
  <2>3. record'[k] = record[k] /\ effects'[k] = effects[k]
    BY <1>2, <1>a, <2>1 DEF Apply, Throw, CompleteRequest, CompleteRequestThenThrow, FailRequest
  <2> QED  BY <1>b, <2>1, <2>2, <2>3
<1>3. ASSUME NEW w \in Workers,
             (\E j \in RecordKeys, h \in Hashes : Send(w, j, h)) \/ BeginClassify(w) \/ Die(w)
      PROVE  Goal
  <2>1. /\ record' = record /\ effects' = effects /\ worker'[w].at \in {"idle", "upsert"}
        /\ \A v \in Workers \ {w} : worker'[v] = worker[v]
    <3>1. ASSUME NEW j \in RecordKeys, NEW h \in Hashes, Send(w, j, h)
          PROVE  /\ record' = record /\ effects' = effects /\ worker'[w].at = "upsert"
                 /\ \A v \in Workers \ {w} : worker'[v] = worker[v]
      BY <3>1, <1>a DEF Send, Resting
    <3>2. BeginClassify(w) =>
              /\ record' = record /\ effects' = effects /\ worker'[w].at = "idle"
              /\ \A v \in Workers \ {w} : worker'[v] = worker[v]
      BY <1>a DEF BeginClassify, Reply, Requests
    <3>3. Die(w) =>
              /\ record' = record /\ effects' = effects /\ worker'[w].at = "idle"
              /\ \A v \in Workers \ {w} : worker'[v] = worker[v]
      BY <1>a DEF Die, Reply, Requests
    <3> QED  BY <1>3, <3>1, <3>2, <3>3
  <2> QED  BY <1>b, <2>1
<1>4. ASSUME NEW j \in RecordKeys, RetryWindowElapses(j) PROVE Goal
  BY <1>4, <1>a DEF RetryWindowElapses, Holds
<1>5. CASE UNCHANGED vars
  BY <1>5 DEF vars, Holds
<1> QED  BY <1>1, <1>2, <1>3, <1>4, <1>5 DEF Next, Step

\* A record whose request died between begin() and complete() stays PENDING for good: the
\* table's expires_at is written by begin() and read by nothing.
THEOREM AbandonedStaysPendingHolds == Spec => AbandonedStaysPending
<1>1. IInv /\ [Next]_vars =>
        [\A k \in RecordKeys : record[k].status = "PENDING" /\ (\A w \in Workers : ~Holds(w, k)) =>
            /\ record'[k] = record[k] /\ effects'[k] = effects[k]
            /\ \A w \in Workers : ~Holds(w, k)']_vars
  BY AbandonedStep
<1> QED  BY Invariance, <1>1, PTL DEF Spec, AbandonedStaysPending

\* No retry executes an operation again that complete() has settled, or that a request which
\* died may or may not have executed.
THEOREM NoSecondExecutionHolds == Spec => NoSecondExecution
BY NoExecutionOnceSettledHolds, AbandonedStaysPendingHolds DEF NoSecondExecution

----------------------------------------------------------------------------
(***************************************************************************)
(* The records implement the contract.                                     *)
(***************************************************************************)
AnswerOf(row) == IF row.status = "COMPLETED" THEN row.response ELSE Null

\* Under mutual exclusion the abstract holder is the request that holds the key.
LEMMA HolderIs ==
    ASSUME MutualExclusion, NEW k \in RecordKeys
    PROVE  /\ \A w \in Workers : Holds(w, k) => holderBar[k] = w
           /\ (\A w \in Workers : ~Holds(w, k)) => holderBar[k] = Nobody
  BY DEF MutualExclusion, holderBar

\* The same in the state after a step.
LEMMA HolderIsNext ==
    ASSUME MutualExclusion', NEW k \in RecordKeys
    PROVE  /\ \A w \in Workers : Holds(w, k)' => holderBar'[k] = w
           /\ (\A w \in Workers : ~Holds(w, k)') => holderBar'[k] = Nobody
  BY DEF MutualExclusion, holderBar

\* A step in which no record changes its slot or answer and no key its holders
\* is a stutter of the contract.
LEMMA Stutter ==
    ASSUME \A k \in RecordKeys : /\ SlotOf(record'[k]) = SlotOf(record[k])
                           /\ AnswerOf(record'[k]) = AnswerOf(record[k])
                           /\ \A w \in Workers : Holds(w, k)' <=> Holds(w, k),
           MutualExclusion, MutualExclusion'
    PROVE  UNCHANGED <<slotBar, holderBar, answerBar>>
<1>1. slotBar' = slotBar /\ answerBar' = answerBar
  BY DEF slotBar, answerBar, AnswerOf
<1>2. ASSUME NEW k \in RecordKeys PROVE holderBar'[k] = holderBar[k]
  BY HolderIs, HolderIsNext, Zenon
<1>3. holderBar' = holderBar
  BY <1>2 DEF holderBar
<1> QED  BY <1>1, <1>3

\* A step that touches one key changes the abstract functions at that key only.
LEMMA OneKey ==
    ASSUME NEW k \in RecordKeys, MutualExclusion, MutualExclusion',
           \A j \in RecordKeys \ {k} : record'[j] = record[j],
           \A j \in RecordKeys \ {k}, v \in Workers : Holds(v, j)' <=> Holds(v, j)
    PROVE  /\ slotBar' = [slotBar EXCEPT ![k] = SlotOf(record'[k])]
           /\ answerBar' = [answerBar EXCEPT ![k] = AnswerOf(record'[k])]
           /\ holderBar' = [holderBar EXCEPT ![k] = holderBar'[k]]
           /\ slotBar[k] = SlotOf(record[k]) /\ answerBar[k] = AnswerOf(record[k])
<1>1. /\ slotBar' = [slotBar EXCEPT ![k] = SlotOf(record'[k])]
      /\ answerBar' = [answerBar EXCEPT ![k] = AnswerOf(record'[k])]
      /\ slotBar[k] = SlotOf(record[k]) /\ answerBar[k] = AnswerOf(record[k])
  BY DEF slotBar, answerBar, AnswerOf
<1>2. ASSUME NEW j \in RecordKeys \ {k} PROVE holderBar'[j] = holderBar[j]
  BY HolderIs, HolderIsNext, Zenon
<1>3. holderBar' = [j \in RecordKeys |-> holderBar'[j]] /\ holderBar = [j \in RecordKeys |-> holderBar[j]]
  BY DEF holderBar
<1> HIDE DEF holderBar
<1>4. holderBar' = [holderBar EXCEPT ![k] = holderBar'[k]]
  BY <1>2, <1>3
<1> QED  BY <1>1, <1>4

\* The initial tables are the contract's initial slots.
LEMMA RefInit == Init => Contract!Init
  BY DEF Init, Contract!Init, slotBar, answerBar, holderBar, SlotOf, NoRow, Resting, Holds

\* Every step of the handlers is a step of the contract, or none at all.
LEMMA RefStep ==
    IInv /\ IInv' /\ [Next]_vars => [Contract!Next]_<<slotBar, holderBar, answerBar>>
<1> SUFFICES ASSUME IInv, IInv', [Next]_vars
             PROVE  Contract!Next \/ UNCHANGED <<slotBar, holderBar, answerBar>>
  OBVIOUS
<1>a. /\ record \in [RecordKeys -> Rows(Hashes, Responses)]
      /\ worker \in [Workers -> Requests]
      /\ \A w \in Workers : worker[w].at # "idle" => worker[w].key \in RecordKeys
      /\ \A w \in Workers : worker[w].at = "complete" => worker[w].response \in Responses
  BY DEF IInv, TypeOK
<1>m. MutualExclusion /\ MutualExclusion' /\ HolderIsCurrent
  BY DEF IInv
<1>1. ASSUME NEW w \in Workers, NEW k \in RecordKeys, NEW h \in Hashes, Send(w, k, h)
      PROVE  UNCHANGED <<slotBar, holderBar, answerBar>>
  <2>1. /\ worker[w].at = "idle" /\ worker'[w].at = "upsert" /\ record' = record
        /\ \A v \in Workers \ {w} : worker'[v] = worker[v]
    BY <1>1, <1>a DEF Send, Resting
  <2> QED  BY <1>m, <2>1, Stutter DEF Holds
<1>2. ASSUME NEW w \in Workers, BeginUpsert(w)
      PROVE  Contract!Next \/ UNCHANGED <<slotBar, holderBar, answerBar>>
  <2>0. PICK k \in RecordKeys : k = worker[w].key
    BY <1>2, <1>a DEF BeginUpsert
  <2> DEFINE h == worker[w].hash
  <2>1. worker[w].at = "upsert" /\ k \in RecordKeys
    BY <1>2 DEF BeginUpsert
  <2>2. CASE /\ Claims(record[k], h)
             /\ record' = [record EXCEPT ![k] = Claim(record[k], h)]
             /\ worker' = [worker EXCEPT ![w] = [@ EXCEPT !.at = "apply",
                                         !.generation = record[k].generation + 1]]
    <3>1. /\ worker'[w].at = "apply" /\ worker'[w].key = k
          /\ \A v \in Workers \ {w} : worker'[v] = worker[v]
      BY <1>a, <2>0, <2>2 DEF Requests
    <3>2. record'[k].status = "PENDING" /\ \A j \in RecordKeys \ {k} : record'[j] = record[j]
      BY <1>a, <2>1, <2>2 DEF Claim
    <3>3. SlotOf(record[k]) = "FREE" /\ AnswerOf(record[k]) = Null /\ record[k].status \in {"ABSENT", "FAILED"}
      BY <2>2 DEF Claims, Reopenable, SlotOf, AnswerOf
    <3>4. SlotOf(record'[k]) = "HELD" /\ AnswerOf(record'[k]) = Null
      BY <3>2 DEF SlotOf, AnswerOf
    <3> HIDE DEF h
    <3>5. \A v \in Workers : ~Holds(v, k)
      BY <1>m, <2>1, <3>3 DEF HolderIsCurrent
    <3>6. Holds(w, k)'
      BY <3>1 DEF Holds
    <3>7. holderBar[k] = Nobody /\ holderBar'[k] = w
      BY <1>m, <2>1, <3>5, <3>6, HolderIs, HolderIsNext
    <3>8. \A j \in RecordKeys \ {k}, v \in Workers : Holds(v, j)' <=> Holds(v, j)
      BY <2>0, <2>1, <3>1 DEF Holds
    <3>9. /\ slotBar' = [slotBar EXCEPT ![k] = "HELD"]
          /\ holderBar' = [holderBar EXCEPT ![k] = w]
          /\ slotBar[k] = "FREE"
      BY <1>m, <2>1, <3>2, <3>3, <3>4, <3>7, <3>8, OneKey
    <3>10. answerBar' = answerBar
      BY <3>2, <3>3 DEF answerBar
    <3>11. Contract!Acquire(k, w)
      BY <3>7, <3>9, <3>10 DEF Contract!Acquire
    <3> QED  BY <2>1, <3>11 DEF Contract!Next
  <2>3. CASE /\ worker' = [worker EXCEPT ![w] = [@ EXCEPT !.at = "classify"]]
             /\ UNCHANGED record
    <3>1. worker'[w].at = "classify" /\ \A v \in Workers \ {w} : worker'[v] = worker[v]
      BY <1>a, <2>3 DEF Requests
    <3> QED  BY <1>m, <2>1, <2>3, <3>1, Stutter DEF Holds
  <2> QED  BY <1>2, <2>0, <2>2, <2>3 DEF BeginUpsert
<1>3. ASSUME NEW w \in Workers, BeginClassify(w)
      PROVE  UNCHANGED <<slotBar, holderBar, answerBar>>
  <2>1. /\ worker[w].at = "classify" /\ worker'[w].at = "idle" /\ record' = record
        /\ \A v \in Workers \ {w} : worker'[v] = worker[v]
    BY <1>3, <1>a DEF BeginClassify, Reply, Requests
  <2> QED  BY <1>m, <2>1, Stutter DEF Holds
<1>4. ASSUME NEW w \in Workers, Apply(w)
      PROVE  UNCHANGED <<slotBar, holderBar, answerBar>>
  <2>1. /\ worker[w].at = "apply" /\ worker'[w].at = "complete" /\ record' = record
        /\ worker'[w].key = worker[w].key
        /\ \A v \in Workers \ {w} : worker'[v] = worker[v]
    BY <1>4, <1>a DEF Apply, Requests
  <2> QED  BY <1>m, <2>1, Stutter DEF Holds
<1>5. ASSUME NEW w \in Workers, Throw(w)
      PROVE  UNCHANGED <<slotBar, holderBar, answerBar>>
  <2>1. /\ worker[w].at \in {"apply", "complete"} /\ worker'[w].at = "fail" /\ record' = record
        /\ worker'[w].key = worker[w].key
        /\ \A v \in Workers \ {w} : worker'[v] = worker[v]
    BY <1>5, <1>a DEF Throw, Requests
  <2> QED  BY <1>m, <2>1, Stutter DEF Holds
<1>6. ASSUME NEW w \in Workers, worker[w].at = "complete",
             worker'[w].at \in {"idle", "fail"}, worker'[w].key = worker[w].key,
             \A v \in Workers \ {w} : worker'[v] = worker[v],
             record' = [record EXCEPT ![worker[w].key] =
                           Complete(@, worker[w].generation, worker[w].response)]
      PROVE  Contract!Next
  <2>0. PICK k \in RecordKeys, r \in Responses : k = worker[w].key /\ r = worker[w].response
    BY <1>6, <1>a
  <2>1. k \in RecordKeys /\ Holds(w, k) /\ r \in Responses
    BY <1>6, <2>0 DEF Holds
  <2>2. record[k].status = "PENDING" /\ record[k].generation = worker[w].generation
    BY <1>m, <1>6, <2>1 DEF HolderIsCurrent
  <2>3. /\ record'[k].status = "COMPLETED" /\ record'[k].response = r
        /\ \A j \in RecordKeys \ {k} : record'[j] = record[j]
    BY <1>6, <1>a, <2>0, <2>1, <2>2 DEF Complete, Current, Rows
  <2>4. SlotOf(record[k]) = "HELD" /\ SlotOf(record'[k]) = "SETTLED" /\ AnswerOf(record'[k]) = r
    BY <2>2, <2>3 DEF SlotOf, AnswerOf
  <2>5. \A j \in RecordKeys \ {k}, v \in Workers : Holds(v, j)' <=> Holds(v, j)
    BY <1>6, <2>0 DEF Holds
  <2>6. holderBar[k] = w
    BY <1>m, <2>1, HolderIs
  <2>7. holderBar'[k] \in {w, Nobody}
    <3>1. CASE worker'[w].at = "fail"
      BY <1>6, <1>m, <2>0, <3>1, HolderIsNext DEF Holds
    <3>2. CASE worker'[w].at = "idle"
      <4>1. \A v \in Workers : ~Holds(v, k)'
        BY <1>6, <1>m, <2>1, <3>2 DEF Holds, MutualExclusion
      <4> QED  BY <1>m, <2>1, <4>1, HolderIsNext
    <3> QED  BY <1>6, <3>1, <3>2
  <2>8. /\ slotBar' = [slotBar EXCEPT ![k] = "SETTLED"]
        /\ answerBar' = [answerBar EXCEPT ![k] = r]
        /\ holderBar' = [holderBar EXCEPT ![k] = holderBar'[k]]
        /\ slotBar[k] = "HELD"
    BY <1>m, <2>1, <2>3, <2>4, <2>5, OneKey
  <2>9. holderBar = [holderBar EXCEPT ![k] = w]
    BY <2>1, <2>6 DEF holderBar
  <2>10. Contract!Settle(k, w, r)
    BY <2>6, <2>7, <2>8, <2>9 DEF Contract!Settle
  <2> QED  BY <2>1, <2>10 DEF Contract!Next
<1>7. ASSUME NEW w \in Workers, CompleteRequest(w)
      PROVE  Contract!Next
  <2>1. /\ worker[w].at = "complete" /\ worker'[w].at = "idle" /\ worker'[w].key = worker[w].key
        /\ \A v \in Workers \ {w} : worker'[v] = worker[v]
    BY <1>7, <1>a DEF CompleteRequest, Reply, Requests
  <2>2. record' = [record EXCEPT ![worker[w].key] =
                      Complete(@, worker[w].generation, worker[w].response)]
    BY <1>7 DEF CompleteRequest
  <2> QED  BY <1>6, <2>1, <2>2
<1>8. ASSUME NEW w \in Workers, CompleteRequestThenThrow(w)
      PROVE  Contract!Next
  <2>1. /\ worker[w].at = "complete" /\ worker'[w].at = "fail" /\ worker'[w].key = worker[w].key
        /\ \A v \in Workers \ {w} : worker'[v] = worker[v]
    BY <1>8, <1>a DEF CompleteRequestThenThrow, Requests
  <2> QED  BY <1>6, <1>8, <2>1 DEF CompleteRequestThenThrow
<1>l. ASSUME NEW w \in Workers, NEW k \in RecordKeys, Holds(w, k), worker'[w].at = "idle",
             \A v \in Workers \ {w} : worker'[v] = worker[v], record' = record
      PROVE  Contract!Leave(k, w)
  <2>1. \A v \in Workers : ~Holds(v, k)'
    BY <1>l, <1>m DEF Holds, MutualExclusion
  <2>2. \A j \in RecordKeys \ {k}, v \in Workers : Holds(v, j)' <=> Holds(v, j)
    BY <1>l DEF Holds
  <2>3. holderBar[k] = w /\ holderBar'[k] = Nobody
    BY <1>l, <1>m, <2>1, HolderIs, HolderIsNext
  <2>4. holderBar' = [holderBar EXCEPT ![k] = Nobody]
    BY <1>l, <1>m, <2>2, <2>3, OneKey
  <2>5. slotBar' = slotBar /\ answerBar' = answerBar
    BY <1>l DEF slotBar, answerBar
  <2> QED  BY <2>3, <2>4, <2>5 DEF Contract!Leave
<1>9. ASSUME NEW w \in Workers, FailRequest(w)
      PROVE  Contract!Next
  <2>0. PICK k \in RecordKeys : k = worker[w].key
    BY <1>9, <1>a DEF FailRequest
  <2>1. /\ worker[w].at = "fail" /\ worker'[w].at = "idle"
        /\ \A v \in Workers \ {w} : worker'[v] = worker[v]
    BY <1>9, <1>a DEF FailRequest, Reply, Requests
  <2>2. k \in RecordKeys /\ Holds(w, k)
    BY <2>0, <2>1 DEF Holds
  <2>3. CASE Current(record[k], worker[w].generation)
    <3>1. /\ record'[k].status = "FAILED"
          /\ \A j \in RecordKeys \ {k} : record'[j] = record[j]
      BY <1>9, <1>a, <2>0, <2>3 DEF FailRequest, Fail, Rows
    <3>2. /\ SlotOf(record[k]) = "HELD" /\ AnswerOf(record[k]) = Null
          /\ SlotOf(record'[k]) \in {"FREE", "REFUSED"} /\ AnswerOf(record'[k]) = Null
      BY <2>3, <3>1 DEF SlotOf, AnswerOf, Current
    <3>3. \A v \in Workers : ~Holds(v, k)'
      BY <1>m, <2>1, <2>2 DEF Holds, MutualExclusion
    <3>4. \A j \in RecordKeys \ {k}, v \in Workers : Holds(v, j)' <=> Holds(v, j)
      BY <2>0, <2>1 DEF Holds
    <3>5. holderBar[k] = w /\ holderBar'[k] = Nobody
      BY <1>m, <2>2, <3>3, HolderIs, HolderIsNext
    <3>6. /\ slotBar' = [slotBar EXCEPT ![k] = SlotOf(record'[k])]
          /\ holderBar' = [holderBar EXCEPT ![k] = Nobody]
          /\ slotBar[k] = "HELD"
      BY <1>m, <2>2, <3>1, <3>2, <3>4, <3>5, OneKey
    <3>7. answerBar' = answerBar
      BY <2>3, <3>1 DEF answerBar, Current
    <3>8. Contract!GiveBack(k, w)
      BY <3>2, <3>5, <3>6, <3>7 DEF Contract!GiveBack
    <3> QED  BY <2>2, <3>8 DEF Contract!Next
  <2>4. CASE ~Current(record[k], worker[w].generation)
    <3>1. record' = record
      BY <1>9, <1>a, <2>0, <2>4 DEF FailRequest, Fail
    <3>2. Contract!Leave(k, w)
      BY <1>l, <2>1, <2>2, <3>1
    <3> QED  BY <2>2, <3>2 DEF Contract!Next
  <2> QED  BY <2>3, <2>4
<1>10. ASSUME NEW w \in Workers, Die(w)
       PROVE  Contract!Next \/ UNCHANGED <<slotBar, holderBar, answerBar>>
  <2>1. /\ worker[w].at # "idle" /\ worker'[w].at = "idle" /\ record' = record
        /\ worker[w].key \in RecordKeys
        /\ \A v \in Workers \ {w} : worker'[v] = worker[v]
    BY <1>10, <1>a DEF Die, Reply, Requests
  <2>2. CASE Holds(w, worker[w].key)
    BY <1>l, <2>1, <2>2 DEF Contract!Next
  <2>3. CASE ~Holds(w, worker[w].key)
    BY <1>m, <2>1, <2>3, Stutter DEF Holds
  <2> QED  BY <2>2, <2>3
<1>11. ASSUME NEW k \in RecordKeys, RetryWindowElapses(k)
       PROVE  UNCHANGED <<slotBar, holderBar, answerBar>>
  <2>1. /\ record[k].status = "FAILED" /\ record'[k].status = "FAILED"
        /\ record'[k].retryable = record[k].retryable
        /\ \A j \in RecordKeys \ {k} : record'[j] = record[j]
        /\ worker' = worker
    BY <1>11, <1>a DEF RetryWindowElapses, Age, Rows
  <2>2. \A j \in RecordKeys : /\ SlotOf(record'[j]) = SlotOf(record[j])
                        /\ AnswerOf(record'[j]) = AnswerOf(record[j])
    BY <2>1 DEF SlotOf, AnswerOf
  <2> QED  BY <1>m, <2>1, <2>2, Stutter DEF Holds
<1>12. CASE UNCHANGED vars
  BY <1>12, <1>m, Stutter DEF vars, Holds
<1> QED
  BY <1>1, <1>2, <1>3, <1>4, <1>5, <1>7, <1>8, <1>9, <1>10, <1>11, <1>12 DEF Next, Step

\* The idempotency records implement the contract: one holder at a time, one
\* answer for good.
THEOREM Refinement == Spec => ImplementsContract
  BY Invariance, RefInit, RefStep, PTL DEF Spec, ImplementsContract, Contract!Spec, Contract!vars

-----------------------------------------------------------------------------
(***************************************************************************)
(* Operations.  The inductive invariant is OpsInv, a conjunction of what   *)
(* each concern needs: where a call is and what it holds (PlaceInv), the   *)
(* incidents and what refers to them (TablesInv), the host (HostInv), one  *)
(* effect per observation (OnceInv), the nonces that are remembered        *)
(* (NonceInv), the occurrences that are counted or still to be logged      *)
(* (CountInv) and the recoveries told (RecoveryInv).  AlertInv says what   *)
(* keeps alerts apart, where the channel has one of the administrators'    *)
(* cooldowns from the start.                                               *)
(***************************************************************************)
Places == {"find", "occur", "create", "resolve", "event", "config", "deliver", "send", "notified", "run",
           "upsert", "health"}

\* The places of a call that monitors, and the events of the timeline that it writes.
Monitoring == {"find", "occur", "create", "resolve", "event", "config", "deliver", "notified"}
Events == {"OPENED", "OCCURRENCE", "RESOLVED"}

HeldRows == [incident : Ids \union {Null}, notified : Times \union {Never}, count : Nat, event : Events \union {Null},
             service : {"API", "POSTGRES", Null}, critical : BOOLEAN, credential : BOOLEAN]

Active(h) == call[h].at \notin {"idle", "done"}

\* What a call is about, and where it can be.
CallOk(h) ==
    Active(h) =>
        /\ call[h].op \in Ops /\ call[h].arg \in Bodies
        /\ IF call[h].op = "probe" THEN call[h].key = Null ELSE call[h].key \in Keys
        /\ call[h].op = "report" => call[h].arg.key \in ReportKeys /\ call[h].arg.state \in {"DETECTED", "RECOVERED"}
        /\ call[h].op = "acknowledge" => call[h].arg.incident \in Ids
        /\ call[h].op = "configure" => call[h].arg.cooldown \in Cooldowns
        /\ At(h, "begin") => call[h].op # "probe"
        /\ At(h, "health") => call[h].op = "probe"
        /\ call[h].at \in {"run", "upsert"} => call[h].op \notin {"report", "probe"}
        /\ At(h, "send") => call[h].op \in {"report", "probe", "test"}
        /\ call[h].at \in Monitoring => call[h].op \in {"report", "probe"}

\* What a call has read where it is.
HeldOk(h) ==
    /\ call[h].op = "probe" /\ call[h].at \in Monitoring \union {"send"} =>
           /\ held[h].service \in {"API", "POSTGRES"}
           /\ held[h].service = "API" => ~held[h].critical
    /\ call[h].at \in {"occur", "resolve", "event", "config", "deliver", "notified"} => held[h].incident \in Ids
    /\ At(h, "occur") => Detected(h)
    /\ At(h, "resolve") => ~Detected(h)
    /\ At(h, "create") => Detected(h) \/ Backfill(h)
    /\ At(h, "event") => held[h].event \in Events
    /\ At(h, "send") => IF call[h].op = "test" THEN delivery[h].kind # "ALERT" ELSE held[h].incident \in Ids

PlaceInv ==
    /\ CallsTypeOK(Ops, Bodies, {}, Places) /\ held \in [Calls -> HeldRows] /\ now \in Times
    /\ \A h \in Calls : CallOk(h) /\ HeldOk(h)
    /\ past \in [Calls -> SUBSET Calls] /\ \A h \in Calls : \A g \in past[h] : At(g, "done")
    /\ failed \subseteq Calls

\* A call that may still create an incident has not created one.
Unborn(h) ==
    \/ call[h].at \in {"idle", "begin", "health", "find", "create"}
    \/ call[h].op = "probe" /\ Active(h) /\ held[h].service = "API"
Exists(i) == i \in Ids /\ incident[i].status # "ABSENT"

\* The call has told somebody of an incident.
Told(h) == delivery[h].kind \in {"ALERT", "RECOVERY"}

\* One open incident of a condition, and whatever names an incident names one that exists.
TablesInv ==
    /\ incident \in [Ids -> IncidentRows] /\ config \in ConfigRows
    /\ delivery \in [Calls -> DeliveryRows(Ids \union {Null})]
    /\ log \subseteq Ids \X {"OPENED", "OCCURRENCE", "ACKNOWLEDGED", "RESOLVED"} \X (Calls \union {Null})
    /\ \A i, j \in Ids : IsOpen(incident[i]) /\ IsOpen(incident[j]) /\ incident[i].key = incident[j].key => i = j
    /\ \A i \in Ids : incident[i].status = "RESOLVED" => incident[i].resolvedAt # Never
    /\ \A h \in Calls : Unborn(h) => ~Exists(h)
    /\ \A h \in Calls : held[h].incident # Null => Exists(held[h].incident)
    /\ \A h \in Calls : call[h].op = "acknowledge" /\ Active(h) => Exists(call[h].arg.incident)
    /\ \A e \in log : /\ Exists(e[1])
                      /\ e[2] = "ACKNOWLEDGED" => incident[e[1]].status # "OPEN"
    /\ \A h \in Calls : Told(h) => Exists(delivery[h].incident)
    /\ OneAcknowledgement

\* The rows of the host; who beats is at most one coalescing window ahead of the row.
HostInv ==
    /\ DOMAIN health \subseteq CriticalServices /\ \A s \in DOMAIN health : health[s] \in HealthRows
    /\ DOMAIN presence \subseteq Actors /\ DOMAIN beat = DOMAIN presence
    /\ \A a \in DOMAIN presence : /\ presence[a] \in Times \union {Never} /\ beat[a] \in Times \union {Never}
                                  /\ presence[a] # Never => presence[a] <= now
                                  /\ beat[a] # Never => presence[a] # Never /\ beat[a] <= presence[a] + CoalesceWindow
    /\ DOMAIN keyStatus \subseteq KeyIds /\ \A k \in DOMAIN keyStatus : keyStatus[k] \in {"ABSENT", "CURRENT", "PREVIOUS"}
    /\ \A j, k \in DOMAIN keyStatus : keyStatus[j] = "CURRENT" /\ keyStatus[k] = "CURRENT" => j = k

\* The report is being served, and the record of its key is its own.
Reporting(h) == call[h].op = "report" /\ call[h].at \notin {"idle", "begin", "done"}
Owns(h) == /\ Scope(h) \in DOMAIN idem /\ idem[Scope(h)].status = "PENDING"
           /\ idem[Scope(h)].generation = call[h].generation
Completed(k) == <<"report", k>> \in DOMAIN idem /\ idem[<<"report", k>>].status = "COMPLETED"

\* One report of a key at a time; what has had its effect is being served, completed or failed.
OnceInv ==
    /\ \A h \in Calls : Reporting(h) => Owns(h)
    /\ \A g, h \in Calls : Reporting(g) /\ Reporting(h) /\ call[g].key = call[h].key => g = h
    /\ wrote \subseteq Calls \X (Keys \union {Null})
    /\ \A w \in wrote : \/ w[2] = Null \/ w[1] \in failed \/ Completed(w[2])
                        \/ Reporting(w[1]) /\ call[w[1]].key = w[2]
    /\ ObservationTakesEffectOnce

\* A nonce that was accepted is still remembered, or its timestamp is too old.
Remembered(c) == \/ \E n \in nonces : n[1] = c.keyId /\ n[2] = c.nonce /\ c.timestamp <= n[3] + Tolerance
                 \/ now > c.timestamp + Tolerance
NonceInv ==
    /\ DOMAIN accepted = Calls /\ \A n \in nonces : n[3] \in Times
    /\ \A h \in Calls : accepted[h].keyId # Null => accepted[h] \in Credentials /\ Remembered(accepted[h])
    /\ NonceAcceptedOnce

\* The occurrences in the timeline of an incident, and those that are counted and still to be logged.
Counted(i) == {e \in log : e[1] = i /\ e[2] \in {"OPENED", "OCCURRENCE"}}
Counting(i) == {h \in Calls : At(h, "event") /\ held[h].incident = i /\ held[h].event \in {"OPENED", "OCCURRENCE"}}
Occurrences(i) == Counted(i) \union {<<i, held[h].event, h>> : h \in Counting(i)}
CountInv == \A i \in Ids : IsFiniteSet(Occurrences(i)) /\ Cardinality(Occurrences(i)) <= incident[i].count

\* The incident has it that the alert of a call was made.
Noted(g) == LET notified == incident[delivery[g].incident].notified
            IN notified # Never /\ delivery[g].at <= notified

\* An alert of another call that h has to take account of, if it is of the same incident.
Earlier(g, h) == g \in past[h] \ failed /\ delivery[g].kind = "ALERT"

\* What the alert of a call, and what a call that is about to alert, know of the incident.
AlertOk(g) ==
    /\ delivery[g].at <= now
    /\ At(g, "notified") => delivery[g].kind = "ALERT"
    /\ delivery[g].kind = "ALERT" =>
           /\ ~At(g, "idle") /\ (At(g, "done") \/ call[g].op \in {"report", "probe"})
           /\ call[g].at \in {"send", "notified"} => delivery[g].incident = held[g].incident
           /\ call[g].at \in {"send", "notified", "fail"} \/ g \in failed \/ Noted(g)
    /\ At(g, "deliver") /\ Detected(g) => held[g].notified = Never \/ \E c \in Cooldowns : now - held[g].notified >= c

\* A call that serves an incident has read it after every earlier alert of it was noted.
Informed(h) ==
    \A g \in Calls :
        Earlier(g, h) /\ call[h].at \in {"event", "config", "deliver"} /\ held[h].incident = delivery[g].incident
        => held[h].notified # Never /\ delivery[g].at <= held[h].notified
Spaced(h) ==
    \A g \in Calls :
        Earlier(g, h) /\ delivery[h].kind = "ALERT" /\ delivery[g].incident = delivery[h].incident
        => \E c \in Cooldowns : delivery[h].at - delivery[g].at >= c
AlertInv == config.cooldown \in Cooldowns /\ \A h \in Calls : AlertOk(h) /\ Informed(h) /\ Spaced(h)

\* A recovery is of an incident that is resolved, which no later call can find open.
RecoveryOk(h) ==
    /\ At(h, "idle") => held[h].incident = Null /\ delivery[h].kind # "RECOVERY"
    /\ call[h].at \in {"event", "config", "deliver"} /\ ~Detected(h) => incident[held[h].incident].status = "RESOLVED"
    /\ delivery[h].kind = "RECOVERY" => incident[delivery[h].incident].status = "RESOLVED"
    /\ \A g \in past[h] :
           delivery[g].kind = "RECOVERY" =>
               /\ held[h].incident # delivery[g].incident
               /\ delivery[h].kind = "RECOVERY" => delivery[g].incident # delivery[h].incident
RecoveryInv == \A h \in Calls : RecoveryOk(h)

-----------------------------------------------------------------------------
(* Types *)

\* What the dashboard and the monitor send has the type of a body.
LEMMA BodyTypes ==
    /\ NoBody \in Bodies
    /\ \A i \in Ids : /\ AcknowledgeOperationsIncident(i) \in Bodies
                      /\ AcknowledgeOperationsIncident(i).incident = i
    /\ \A e \in BOOLEAN, t \in Thresholds, c \in Cooldowns :
          UpdateAlertConfiguration(e, t, c) \in Bodies /\ UpdateAlertConfiguration(e, t, c).cooldown = c
    /\ \A k \in ReportKeys, s \in {"DETECTED", "RECOVERED"}, b \in BOOLEAN :
          /\ ReportBody(k, s, b) \in Bodies /\ ReportBody(k, s, b).key = k /\ ReportBody(k, s, b).state = s
<1>0. NoBody \in Bodies
  BY DEF NoBody, Bodies
<1> DEFINE B == NoBody
<1>1. B \in [key : ReportKeys \union {Null}, state : {"DETECTED", "RECOVERED", Null}, backfill : BOOLEAN,
               incident : Ids \union {Null}, enabled : BOOLEAN, threshold : 1 .. 4, cooldown : Cooldowns \union {0}]
  BY <1>0 DEF Bodies
<1> HIDE DEF B
<1>2. ASSUME NEW i \in Ids
      PROVE  [B EXCEPT !.incident = i] \in Bodies /\ [B EXCEPT !.incident = i].incident = i
  BY <1>1 DEF Bodies
<1>3. ASSUME NEW e \in BOOLEAN, NEW t \in Thresholds, NEW c \in Cooldowns
      PROVE  /\ [B EXCEPT !.enabled = e, !.threshold = t, !.cooldown = c] \in Bodies
             /\ [B EXCEPT !.enabled = e, !.threshold = t, !.cooldown = c].cooldown = c
  BY <1>1, OperationsAssumption DEF Bodies
<1>4. \A i \in Ids : /\ AcknowledgeOperationsIncident(i) \in Bodies
                     /\ AcknowledgeOperationsIncident(i).incident = i
  BY <1>2 DEF B, AcknowledgeOperationsIncident
<1>5. \A e \in BOOLEAN, t \in Thresholds, c \in Cooldowns :
          UpdateAlertConfiguration(e, t, c) \in Bodies /\ UpdateAlertConfiguration(e, t, c).cooldown = c
  BY <1>3 DEF B, UpdateAlertConfiguration
<1>6. \A k \in ReportKeys, s \in {"DETECTED", "RECOVERED"}, b \in BOOLEAN :
          /\ ReportBody(k, s, b) \in Bodies /\ ReportBody(k, s, b).key = k /\ ReportBody(k, s, b).state = s
  <2> SUFFICES ASSUME NEW k \in ReportKeys, NEW s \in {"DETECTED", "RECOVERED"}, NEW b \in BOOLEAN
               PROVE  /\ ReportBody(k, s, b) \in Bodies
                      /\ ReportBody(k, s, b).key = k /\ ReportBody(k, s, b).state = s
    OBVIOUS
  <2>1. ReportBody(k, s, b) = [B EXCEPT !.key = k, !.state = s, !.backfill = b]
    BY DEF B, ReportBody
  <2>2. /\ [B EXCEPT !.key = k, !.state = s, !.backfill = b] \in Bodies
        /\ [B EXCEPT !.key = k, !.state = s, !.backfill = b].key = k
        /\ [B EXCEPT !.key = k, !.state = s, !.backfill = b].state = s
    BY <1>1 DEF Bodies
  <2> QED  BY <2>1, <2>2
<1> QED  BY <1>0, <1>4, <1>5, <1>6

\* A call that has read nothing, and the times.
LEMMA HeldTypes ==
    /\ NoneHeld \in HeldRows /\ NoneHeld.incident = Null
    /\ Never = MaxNow + 1 /\ Never \in Nat /\ MaxNow \in Nat /\ Times \subseteq Nat /\ 0 \in Times /\ Never \notin Times
    /\ \A t \in Times : t <= MaxNow
<1>1. MaxNow \in Nat
  BY OperationsAssumption
<1> QED  BY <1>1 DEF NoneHeld, HeldRows, Times, Never

-----------------------------------------------------------------------------
(* The calls *)

\* A step of h that leaves what the others hold and deliver alone.
OthersHold(h) == \A g \in Calls \ {h} : held'[g] = held[g] /\ delivery'[g] = delivery[g]

\* A step of one call: the others stay where they are, and this one is where it can be.
LEMMA PlaceStep ==
    ASSUME PlaceInv, NEW h \in Calls, ~At(h, "done"), OthersStay(h), OthersHold(h), CallsTypeOK(Ops, Bodies, {}, Places)',
           held' \in [Calls -> HeldRows], now' = now, failed' \subseteq Calls,
           past' = past \/ (At(h, "idle") /\ past' = [past EXCEPT ![h] = {g \in Calls : At(g, "done")}]),
           CallOk(h)', HeldOk(h)'
    PROVE  PlaceInv'
<1>1. ASSUME NEW g \in Calls
      PROVE  CallOk(g)' /\ HeldOk(g)'
  <2>1. CASE g = h
    BY <2>1
  <2>2. CASE g # h
    <3>1. call'[g] = call[g] /\ held'[g] = held[g] /\ delivery'[g] = delivery[g]
      BY <2>2 DEF OthersStay, OthersHold
    <3>2. CallOk(g)'
      BY <3>1 DEF PlaceInv, CallOk, At, Active
    <3>3. HeldOk(g)'
      BY <3>1 DEF PlaceInv, HeldOk, At, Active, Detected, Backfill
    <3> QED  BY <3>2, <3>3
  <2> QED  BY <2>1, <2>2
<1>2. past' \in [Calls -> SUBSET Calls]
  BY DEF PlaceInv
<1>3. ASSUME NEW f \in Calls, NEW g \in past'[f]
      PROVE  At(g, "done")'
  <2>1. g \in Calls /\ At(g, "done")
    BY <1>2 DEF PlaceInv
  <2>2. g # h
    BY <2>1
  <2> QED  BY <2>1, <2>2 DEF OthersStay, At
<1> QED  BY <1>1, <1>2, <1>3 DEF PlaceInv

\* The row a call holds.
LEMMA HoldEffect ==
    ASSUME NEW h \in Calls, held \in [Calls -> HeldRows], NEW row \in HeldRows, Hold(h, row), delivery' = delivery
    PROVE  held' \in [Calls -> HeldRows] /\ OthersHold(h) /\ held'[h] = row
  BY DEF Hold, OthersHold

\* A step that reads and delivers nothing leaves that alone for every call.
LEMMA NothingHeldAnew ==
    ASSUME PlaceInv, held' = held, delivery' = delivery
    PROVE  held' \in [Calls -> HeldRows] /\ \A h \in Calls : OthersHold(h)
  BY DEF PlaceInv, OthersHold

\* A request comes in: it is refused, or it starts.
Joins(h) ==
    /\ OthersStay(h) /\ At(h, "idle") /\ idem' = idem
    /\ UNCHANGED <<incidentVars, alertVars, hostVars, keyStatus, now, failed, held>>
    /\ past' = [past EXCEPT ![h] = {g \in Calls : At(g, "done")}]
    /\ \/ At(h, "done")'
       \/ /\ call'[h].at \in {"begin", "health"}
          /\ call'[h].op = "acknowledge" => Exists(call'[h].arg.incident)

\* A call arrives: it joins those that are served, with a body it may have.
LEMMA Arrival ==
    ASSUME PlaceInv, NEW h \in Calls, (\E key \in Keys : Routes(h, key)) \/ RunProbe(h)
    PROVE  PlaceInv' /\ Joins(h)
<1> DEFINE Typed == CallsTypeOK(Ops, Bodies, {}, Places)
<1>0. Typed
  BY DEF PlaceInv
<1>1. ASSUME NEW op \in Ops, NEW body \in Bodies, NEW key \in Keys \union {Null}, NEW entitled,
             NEW place \in {"begin", "health"}, Admit(h, op, body, key, entitled, place), Arrives(h),
             IF op = "probe" THEN key = Null ELSE key \in Keys, place = "health" <=> op = "probe",
             op = "report" => body.key \in ReportKeys /\ body.state \in {"DETECTED", "RECOVERED"},
             op = "acknowledge" => Exists(body.incident),
             op = "configure" => body.cooldown \in Cooldowns, keyStatus' = keyStatus
      PROVE  PlaceInv' /\ Joins(h)
  <2>1. /\ Typed' /\ OthersStay(h) /\ call[h].at = "idle" /\ idem' = idem
        /\ \/ call'[h].at = "done"
           \/ /\ call'[h].at = place /\ call'[h].op = op /\ call'[h].arg = body /\ call'[h].key = key
    <3>1. place \in Places \union {"begin"}
      BY DEF Places
    <3> HIDE DEF Typed
    <3> QED  BY <1>0, <1>1, <3>1, AdmitEffect DEF Typed
  <2>2. /\ UNCHANGED <<incidentVars, alertVars, hostVars, now, failed, held>>
        /\ past' = [past EXCEPT ![h] = {g \in Calls : At(g, "done")}]
    BY <1>1 DEF Arrives, At
  <2>3. CallOk(h)'
    BY <2>1, <1>1 DEF CallOk, Active, At, Monitoring, Exists
  <2>4. HeldOk(h)'
    BY <2>1, <1>1 DEF HeldOk, Active, At, Monitoring
  <2>5. held' \in [Calls -> HeldRows] /\ OthersHold(h)
    BY <2>2, NothingHeldAnew DEF alertVars
  <2>6. PlaceInv'
    <3>1. ~At(h, "done") /\ At(h, "idle") /\ now' = now /\ failed' \subseteq Calls
      BY <2>1, <2>2 DEF At, PlaceInv
    <3> QED  BY <2>1, <2>2, <2>3, <2>4, <2>5, <3>1, PlaceStep
  <2> QED  BY <1>1, <2>1, <2>2, <2>6 DEF Joins, At
<1>2. CASE RunProbe(h)
  <2>1. Admit(h, "probe", NoBody, Null, TRUE, "health") /\ Arrives(h) /\ keyStatus' = keyStatus
    BY <1>2 DEF RunProbe, Asks, authVars
  <2> QED  BY <2>1, <1>1, BodyTypes DEF Ops
<1>3. ASSUME NEW key \in Keys, NEW k \in ReportKeys, NEW state \in {"DETECTED", "RECOVERED"}, NEW backfill \in BOOLEAN,
             NEW c \in Credentials, PostMonitorReport(h, key, ReportBody(k, state, backfill), c)
      PROVE  PlaceInv' /\ Joins(h)
  <2> DEFINE body == ReportBody(k, state, backfill)
  <2>1. Admit(h, "report", body, key, Verify(c, body), "begin") /\ Arrives(h) /\ keyStatus' = keyStatus
    BY <1>3 DEF PostMonitorReport
  <2>2. body \in Bodies /\ body.key = k /\ body.state = state
    BY BodyTypes
  <2> HIDE DEF body
  <2> QED  BY <2>1, <2>2, <1>1 DEF Ops
<1>4. ASSUME NEW key \in Keys, NEW i \in Ids, incident[i].status # "ABSENT", PostAcknowledge(h, key, i)
      PROVE  PlaceInv' /\ Joins(h)
  <2> DEFINE body == AcknowledgeOperationsIncident(i)
  <2>1. Admit(h, "acknowledge", body, key, TRUE, "begin") /\ Arrives(h) /\ keyStatus' = keyStatus
    BY <1>4 DEF PostAcknowledge, Asks, authVars
  <2>2. body \in Bodies /\ Exists(body.incident)
    BY <1>4, BodyTypes DEF Exists
  <2> HIDE DEF body
  <2> QED  BY <2>1, <2>2, <1>1 DEF Ops
<1>5. ASSUME NEW key \in Keys, NEW e \in BOOLEAN, NEW t \in Thresholds, NEW c \in Cooldowns,
             PutAlertConfiguration(h, key, e, t, c)
      PROVE  PlaceInv' /\ Joins(h)
  <2> DEFINE body == UpdateAlertConfiguration(e, t, c)
  <2>1. Admit(h, "configure", body, key, TRUE, "begin") /\ Arrives(h) /\ keyStatus' = keyStatus
    BY <1>5 DEF PutAlertConfiguration, Asks, authVars
  <2>2. body \in Bodies /\ body.cooldown \in Cooldowns
    BY BodyTypes
  <2> HIDE DEF body
  <2> QED  BY <2>1, <2>2, <1>1 DEF Ops
<1>6. ASSUME NEW key \in Keys, PostAlertTest(h, key)
      PROVE  PlaceInv' /\ Joins(h)
  <2>1. Admit(h, "test", NoBody, key, TRUE, "begin") /\ Arrives(h) /\ keyStatus' = keyStatus
    BY <1>6 DEF PostAlertTest, Asks, authVars
  <2> QED  BY <2>1, <1>1, BodyTypes DEF Ops
<1> QED  BY <1>2, <1>3, <1>4, <1>5, <1>6 DEF Routes

\* A call ends, or goes on with its request at one of these places.
Steps(h, places) ==
    OthersStay(h) /\ ((At(h, "done")' /\ call[h].op = "probe") \/ (SameRequest(h) /\ call'[h].at \in places))

\* The step starts at one of these places.
From(h, places) == call[h].at \in places

\* A call goes on to another place of its request.
LEMMA GoesOn ==
    ASSUME PlaceInv, NEW h \in Calls, NEW place \in Places \union {"complete", "fail"}, NEW got \in {Null, "retryable", "terminal"},
           Goto(h, place, got), idem' = idem
    PROVE  CallsTypeOK(Ops, Bodies, {}, Places)' /\ OthersStay(h) /\ SameRequest(h) /\ call'[h].at = place
<1> DEFINE Typed == CallsTypeOK(Ops, Bodies, {}, Places)
<1>1. Typed
  BY DEF PlaceInv
<1>2. place \in Places \union {"begin", "complete", "fail"} /\ got \in {} \union {Null, "retryable", "terminal"}
  OBVIOUS
<1>3. /\ call' \in [Calls -> CallRows(Ops, Bodies, {}, Places)]
      /\ OthersStay(h) /\ SameRequest(h) /\ call'[h].at = place
  BY <1>1, <1>2, GotoEffect
<1> QED  BY <1>1, <1>3 DEF CallsTypeOK

\* A call whose statement is refused goes to the catch.
LEMMA Throwing ==
    ASSUME PlaceInv, NEW h \in Calls, NEW code, NEW retryable \in BOOLEAN, Throws(h, code, retryable), idem' = idem
    PROVE  CallsTypeOK(Ops, Bodies, {}, Places)' /\ OthersStay(h) /\ SameRequest(h) /\ call'[h].at = "fail"
<1>1. CASE retryable
  BY <1>1, GoesOn DEF Throws
<1>2. CASE ~retryable
  BY <1>2, GoesOn DEF Throws
<1> QED  BY <1>1, <1>2

\* A call that is answered is done.
LEMMA Answering ==
    ASSUME PlaceInv, NEW h \in Calls, NEW code, Answer(h, code), idem' = idem
    PROVE  CallsTypeOK(Ops, Bodies, {}, Places)' /\ OthersStay(h) /\ call'[h].at = "done"
<1> DEFINE Typed == CallsTypeOK(Ops, Bodies, {}, Places)
<1>1. Typed
  BY DEF PlaceInv
<1>2. call' \in [Calls -> CallRows(Ops, Bodies, {}, Places)] /\ OthersStay(h) /\ call'[h].at = "done"
  BY <1>1, AnswerEffect
<1> QED  BY <1>1, <1>2 DEF CallsTypeOK

\* Where a call goes when its work is done: to its record, to the next service, or to its end.
LEMMA DoneEffect ==
    ASSUME PlaceInv, NEW h \in Calls, Done(h), idem' = idem
    PROVE  /\ CallsTypeOK(Ops, Bodies, {}, Places)' /\ OthersStay(h)
           /\ \/ At(h, "done")' /\ call[h].op = "probe"
              \/ At(h, "complete")' /\ SameRequest(h) /\ call[h].op # "probe"
              \/ At(h, "health")' /\ SameRequest(h) /\ call[h].op = "probe" /\ held[h].service = "API"
<1>1. CASE call[h].op # "probe"
  BY <1>1, GoesOn DEF Done, At
<1>2. CASE call[h].op = "probe" /\ held[h].service = "API"
  BY <1>2, GoesOn DEF Done, At, Places
<1>3. CASE call[h].op = "probe" /\ held[h].service # "API"
  BY <1>3, Answering DEF Done, At
<1> QED  BY <1>1, <1>2, <1>3

\* A call goes on from where it is served.
LEMMA PlaceMove ==
    ASSUME PlaceInv, NEW h \in Calls, Active(h), OthersStay(h), OthersHold(h), CallsTypeOK(Ops, Bodies, {}, Places)',
           held' \in [Calls -> HeldRows], UNCHANGED <<now, past>>, failed' \subseteq Calls,
           \/ At(h, "done")'
           \/ /\ SameRequest(h) /\ HeldOk(h)'
              /\ call'[h].at # "begin"
              /\ At(h, "health")' => call[h].op = "probe"
              /\ call'[h].at \in {"run", "upsert"} => call[h].op \notin {"report", "probe"}
              /\ At(h, "send")' => call[h].op \in {"report", "probe", "test"}
              /\ call'[h].at \in Monitoring => call[h].op \in {"report", "probe"}
    PROVE  PlaceInv'
<1>1. ~At(h, "done") /\ CallOk(h)
  BY DEF Active, PlaceInv, At
<1>2. CASE At(h, "done")'
  <2>1. CallOk(h)' /\ HeldOk(h)'
    BY <1>2 DEF CallOk, HeldOk, Active, At, Monitoring
  <2> QED  BY <1>1, <2>1, PlaceStep
<1>3. CASE SameRequest(h) /\ HeldOk(h)' /\ ~At(h, "done")'
  <2>1. CallOk(h)'
    BY <1>1, <1>3 DEF CallOk, Active, At, SameRequest
  <2> QED  BY <1>1, <1>3, <2>1, PlaceStep
<1> QED  BY <1>2, <1>3

\* Where a call holds on to what it had, Detected and Backfill stay what they were.
LEMMA SameKind ==
    ASSUME NEW h \in Calls, SameRequest(h), held'[h].critical = held[h].critical
    PROVE  Detected(h)' = Detected(h) /\ Backfill(h)' = Backfill(h)
  BY DEF Detected, Backfill, SameRequest

-----------------------------------------------------------------------------
(* Each step of a call *)

\* begin(): the call is answered at once, or goes on to its work.
LEMMA Starting ==
    ASSUME PlaceInv, NEW h \in Calls, BeginReport(h) \/ BeginAcknowledge(h) \/ BeginConfigure(h) \/ BeginTest(h)
    PROVE  /\ PlaceInv' /\ UNCHANGED opsVars /\ At(h, "begin") /\ OthersStay(h)
           /\ \/ At(h, "done")'
              \/ /\ call'[h].at \in {"find", "run"} /\ call'[h].op = call[h].op /\ call'[h].arg = call[h].arg
                 /\ call'[h].key = call[h].key /\ (At(h, "find")' => call[h].op = "report")
                 /\ At(h, "run")' => call[h].op # "report"
<1> DEFINE Typed == CallsTypeOK(Ops, Bodies, {}, Places)
<1>1. UNCHANGED opsVars
  BY DEF BeginReport, BeginAcknowledge, BeginConfigure, BeginTest
<1>2. Typed /\ CallOk(h)
  BY DEF PlaceInv
<1>3. ASSUME NEW place \in {"find", "run"}, Begin(h, place), call[h].op # "probe", place = "find" <=> call[h].op = "report"
      PROVE  /\ PlaceInv' /\ At(h, "begin") /\ OthersStay(h)
             /\ \/ At(h, "done")'
                \/ /\ call'[h].at \in {"find", "run"} /\ call'[h].op = call[h].op /\ call'[h].arg = call[h].arg
                   /\ call'[h].key = call[h].key /\ (At(h, "find")' => call[h].op = "report")
                   /\ At(h, "run")' => call[h].op # "report"
  <2>1. call[h].at = "begin"
    BY <1>3 DEF Begin
  <2>2. call[h].op \in Ops /\ call[h].arg \in Bodies /\ call[h].key \in Keys /\ place \in Places
    BY <1>2, <1>3, <2>1 DEF CallOk, Active, Places
  <2>3. /\ Typed' /\ OthersStay(h)
        /\ \/ call'[h].at = "done"
           \/ /\ call'[h].at = place /\ call'[h].op = call[h].op /\ call'[h].arg = call[h].arg
              /\ call'[h].key = call[h].key
    <3> HIDE DEF Typed
    <3> QED  BY <1>2, <1>3, <2>2, BeginEffect DEF Typed
  <2>4. CallOk(h)'
    BY <1>2, <1>3, <2>1, <2>3 DEF CallOk, Active, At, Monitoring
  <2>5. HeldOk(h)'
    <3>1. held' = held
      BY <1>1 DEF opsVars
    <3> QED  BY <1>3, <2>3, <3>1 DEF HeldOk, At, Monitoring
  <2>6. PlaceInv'
    <3>1. ~At(h, "done") /\ now' = now /\ past' = past /\ failed' \subseteq Calls /\ held' \in [Calls -> HeldRows] /\ OthersHold(h)
      BY <1>1, <2>1, NothingHeldAnew DEF At, PlaceInv, opsVars, timeVars, alertVars
    <3> QED  BY <2>3, <2>4, <2>5, <3>1, PlaceStep
  <2> QED  BY <1>3, <2>1, <2>3, <2>6 DEF At
<1>4. CASE BeginReport(h)
  BY <1>1, <1>3, <1>4 DEF BeginReport
<1>5. CASE BeginAcknowledge(h) \/ BeginConfigure(h) \/ BeginTest(h)
  BY <1>1, <1>3, <1>5 DEF BeginAcknowledge, BeginConfigure, BeginTest
<1> QED  BY <1>4, <1>5

\* The probe has observed the next service and looks for its incident.
LEMMA HealthRecorded ==
    ASSUME PlaceInv, NEW h \in Calls, RecordHealth(h)
    PROVE  /\ PlaceInv' /\ OthersHold(h) /\ From(h, {"health"}) /\ Steps(h, {"find"})
           /\ held'[h].incident = Null /\ call[h].op = "probe" /\ held'[h].service \in {"API", "POSTGRES"}
<1>1. PICK s \in {"API", "POSTGRES"}, state \in {"HEALTHY", "CRITICAL"} :
        /\ s = "API" => state = "HEALTHY"
        /\ Hold(h, [NoneHeld EXCEPT !.service = s, !.critical = state = "CRITICAL"])
  BY DEF RecordHealth
<1>2. PICK c \in BOOLEAN : c = (state = "CRITICAL")
  OBVIOUS
<1>3. PICK row : row = [NoneHeld EXCEPT !.service = s, !.critical = c]
  OBVIOUS
<1>4. row \in HeldRows /\ row.service = s /\ (s = "API" => ~row.critical) /\ row.incident = Null
  BY <1>1, <1>2, <1>3, HeldTypes DEF HeldRows
<1>5. held' \in [Calls -> HeldRows] /\ OthersHold(h) /\ held'[h] = row
  BY <1>1, <1>2, <1>3, <1>4, HoldEffect DEF PlaceInv, RecordHealth, alertVars
<1>6. At(h, "health") /\ Goto(h, "find", Null) /\ UNCHANGED <<now, past, failed, idem>>
  BY DEF RecordHealth, timeVars
<1>7. CallsTypeOK(Ops, Bodies, {}, Places)' /\ OthersStay(h) /\ SameRequest(h) /\ call'[h].at = "find"
  BY <1>6, GoesOn DEF Places
<1>8. Active(h) /\ call[h].op = "probe"
  BY <1>6 DEF Active, At, PlaceInv, CallOk
<1>9. HeldOk(h)'
  BY <1>4, <1>5, <1>7 DEF HeldOk, At, Monitoring
<1>10. PlaceInv'
  <2>1. failed' \subseteq Calls
    BY <1>6 DEF PlaceInv
  <2> QED  BY <1>5, <1>6, <1>7, <1>8, <1>9, <2>1, PlaceMove DEF At, Monitoring
<1> QED  BY <1>4, <1>5, <1>6, <1>7, <1>8, <1>10 DEF Steps, From, At

\* The parts of the row of an incident.
LEMMA RowTypes ==
    ASSUME TablesInv, NEW i \in Ids
    PROVE  /\ incident[i] \in IncidentRows /\ incident[i].count \in Nat /\ incident[i].count <= MaxCount
           /\ incident[i].notified \in Times \union {Never}
<1>1. MaxCount \in Nat
  BY SeverityAssumption
<1> QED  BY <1>1 DEF TablesInv, IncidentRows

\* What is found, if anything, is open, and the call goes on by what it has to report.
LEMMA Finding ==
    ASSUME PlaceInv, TablesInv, NEW h \in Calls, FindIncident(h)
    PROVE  /\ PlaceInv' /\ OthersHold(h) /\ From(h, {"find"}) /\ Steps(h, {"occur", "create", "resolve", "complete", "health", "fail"})
           /\ held'[h].incident = Null \/ (held'[h].incident \in Ids /\ IsOpen(incident[held'[h].incident]))
           /\ held'[h].service = held[h].service /\ held'[h].critical = held[h].critical
           /\ call[h].op \in {"report", "probe"} /\ (At(h, "health")' => held[h].service = "API")
<1> DEFINE open == OpenFor(incident, Sought(h))
<1>1. /\ At(h, "find") /\ UNCHANGED <<now, past, failed, idem>>
      /\ Active(h) /\ CallOk(h) /\ HeldOk(h) /\ held[h] \in HeldRows /\ call[h].op \in {"report", "probe"}
  BY DEF FindIncident, timeVars, Active, At, PlaceInv, CallOk, Monitoring
<1>2. \A i \in open : i \in Ids /\ IsOpen(incident[i]) /\ incident[i].count \in Nat
  BY RowTypes DEF OpenFor, TablesInv
<1>3. PICK row : /\ row \in HeldRows /\ Hold(h, row) /\ row.service = held[h].service /\ row.critical = held[h].critical
                 /\ \/ open = {} /\ row.incident = Null
                    \/ open # {} /\ row.incident \in Ids /\ IsOpen(incident[row.incident])
  <2>1. CASE open # {}
    <3>1. PICK i \in open : Hold(h, [held[h] EXCEPT !.incident = i, !.count = incident[i].count])
      BY <2>1 DEF FindIncident
    <3>2. PICK row : row = [held[h] EXCEPT !.incident = i, !.count = incident[i].count]
      OBVIOUS
    <3>3. row \in HeldRows /\ row.incident = i /\ row.service = held[h].service /\ row.critical = held[h].critical
      BY <1>1, <1>2, <3>2 DEF HeldRows
    <3> QED  BY <1>2, <2>1, <3>1, <3>2, <3>3
  <2>2. CASE open = {}
    <3>1. Hold(h, [held[h] EXCEPT !.incident = Null])
      BY <2>2 DEF FindIncident
    <3>2. PICK row : row = [held[h] EXCEPT !.incident = Null]
      OBVIOUS
    <3>3. row \in HeldRows /\ row.incident = Null /\ row.service = held[h].service /\ row.critical = held[h].critical
      BY <1>1, <3>2 DEF HeldRows
    <3> QED  BY <2>2, <3>1, <3>2, <3>3
  <2> QED  BY <2>1, <2>2
<1>4. held' \in [Calls -> HeldRows] /\ OthersHold(h) /\ held'[h] = row
  BY <1>3, HoldEffect DEF PlaceInv, FindIncident, alertVars
<1>5. /\ CallsTypeOK(Ops, Bodies, {}, Places)' /\ OthersStay(h)
      /\ \/ At(h, "done")' /\ call[h].op = "probe"
         \/ /\ SameRequest(h)
            /\ \/ call'[h].at = "occur" /\ Detected(h) /\ open # {}
               \/ call'[h].at = "resolve" /\ ~Detected(h) /\ open # {}
               \/ call'[h].at = "create" /\ (Detected(h) \/ Backfill(h)) /\ open = {}
               \/ call'[h].at \in {"complete", "fail"}
               \/ call'[h].at = "health" /\ call[h].op = "probe" /\ held[h].service = "API"
  <2>1. CASE open # {} /\ Detected(h)
    <3>1. Goto(h, "occur", Null) /\ "occur" \in Places
      BY <2>1 DEF FindIncident, Places
    <3> QED  BY <1>1, <2>1, <3>1, GoesOn
  <2>2. CASE open # {} /\ ~Detected(h)
    <3>1. Goto(h, "resolve", Null) /\ "resolve" \in Places
      BY <2>2 DEF FindIncident, Places
    <3> QED  BY <1>1, <2>2, <3>1, GoesOn
  <2>3. CASE open = {} /\ (Detected(h) \/ Backfill(h))
    <3>1. Goto(h, "create", Null) /\ "create" \in Places
      BY <2>3 DEF FindIncident, Places
    <3> QED  BY <1>1, <2>3, <3>1, GoesOn
  <2>4. CASE open = {} /\ ~(Detected(h) \/ Backfill(h)) /\ call[h].op = "report"
    <3>1. Throws(h, "EXTERNAL_MONITOR_PAYLOAD_INVALID", TRUE)
      BY <2>4 DEF FindIncident
    <3> QED  BY <1>1, <2>4, <3>1, Throwing
  <2>5. CASE open = {} /\ ~(Detected(h) \/ Backfill(h)) /\ call[h].op # "report"
    <3>1. Done(h)
      BY <2>5 DEF FindIncident
    <3> QED  BY <1>1, <2>5, <3>1, DoneEffect DEF At
  <2> QED  BY <2>1, <2>2, <2>3, <2>4, <2>5
<1>6. HeldOk(h)' \/ At(h, "done")'
  <2> SUFFICES ASSUME ~At(h, "done")'
               PROVE  HeldOk(h)'
    OBVIOUS
  <2>1. SameRequest(h) /\ Detected(h)' = Detected(h) /\ Backfill(h)' = Backfill(h)
    BY <1>3, <1>4, <1>5, SameKind DEF At
  <2> QED  BY <1>1, <1>3, <1>4, <1>5, <2>1 DEF HeldOk, At, Monitoring, SameRequest
<1>7. PlaceInv'
  <2>1. failed' \subseteq Calls
    BY <1>1 DEF PlaceInv
  <2> QED  BY <1>1, <1>4, <1>5, <1>6, <2>1, PlaceMove DEF At, Monitoring
<1> QED  BY <1>1, <1>3, <1>4, <1>5, <1>7 DEF Steps, From, At

\* The statements that write an incident.
LEMMA Writing ==
    ASSUME PlaceInv, NEW h \in Calls, NEW i \in Ids, NEW row \in IncidentRows, NEW event \in Events, Writes(h, i, row, event),
           From(h, {"occur", "create", "resolve"})
    PROVE  /\ PlaceInv' /\ OthersHold(h) /\ Steps(h, {"event", "complete", "health"})
           /\ held'[h].incident = i /\ held'[h].notified = row.notified
           /\ held'[h].service = held[h].service /\ held'[h].critical = held[h].critical
           /\ At(h, "event")' => held'[h].event = event /\ ~Backfill(h)
           /\ call[h].op \in {"report", "probe"} /\ (At(h, "health")' => held[h].service = "API")
<1>1. /\ UNCHANGED <<now, past, failed, idem>>
      /\ Active(h) /\ CallOk(h) /\ HeldOk(h) /\ held[h] \in HeldRows /\ call[h].op \in {"report", "probe"}
  BY DEF Writes, timeVars, Active, At, PlaceInv, CallOk, Monitoring, From
<1>2. PICK new : new = [held[h] EXCEPT !.incident = i, !.notified = row.notified, !.event = event]
  OBVIOUS
<1>3. /\ new \in HeldRows /\ new.incident = i /\ new.notified = row.notified /\ new.event = event
      /\ new.service = held[h].service /\ new.critical = held[h].critical
  BY <1>1, <1>2 DEF HeldRows, IncidentRows
<1>4. held' \in [Calls -> HeldRows] /\ OthersHold(h) /\ held'[h] = new
  BY <1>2, <1>3, HoldEffect DEF PlaceInv, Writes, alertVars
<1>5. /\ CallsTypeOK(Ops, Bodies, {}, Places)' /\ OthersStay(h)
      /\ \/ At(h, "done")' /\ call[h].op = "probe"
         \/ /\ SameRequest(h)
            /\ \/ call'[h].at = "event" /\ ~Backfill(h)
               \/ call'[h].at = "complete"
               \/ call'[h].at = "health" /\ call[h].op = "probe" /\ held[h].service = "API"
  <2>1. CASE Backfill(h)
    <3>1. Done(h)
      BY <2>1 DEF Writes
    <3> QED  BY <1>1, <3>1, DoneEffect DEF At
  <2>2. CASE ~Backfill(h)
    <3>1. Goto(h, "event", Null) /\ "event" \in Places
      BY <2>2 DEF Writes, Places
    <3> QED  BY <1>1, <2>2, <3>1, GoesOn
  <2> QED  BY <2>1, <2>2
<1>6. HeldOk(h)' \/ At(h, "done")'
  BY <1>1, <1>3, <1>4, <1>5 DEF HeldOk, At, Monitoring, SameRequest, From
<1>7. PlaceInv'
  <2>1. failed' \subseteq Calls
    BY <1>1 DEF PlaceInv
  <2> QED  BY <1>1, <1>4, <1>5, <1>6, <2>1, PlaceMove DEF At, Monitoring
<1> QED  BY <1>1, <1>3, <1>4, <1>5, <1>7 DEF Steps, At

\* Steps of a call with what it has read: they go on to a place, or the call ends.
LEMMA Continuing ==
    ASSUME PlaceInv, NEW h \in Calls, Active(h), UNCHANGED <<now, past, failed, idem, held>>,
           \A g \in Calls \ {h} : delivery'[g] = delivery[g],
           \/ Done(h)
           \/ \E place \in Places \union {"complete"} : Goto(h, place, Null)
           \/ \E code : Throws(h, code, TRUE),
           call'[h].at \notin {"find", "occur", "create", "resolve", "event"},
           At(h, "health")' => call[h].op = "probe",
           call'[h].at \in {"run", "upsert"} => call[h].op \notin {"report", "probe"},
           At(h, "send")' => IF call[h].op = "test" THEN delivery'[h].kind # "ALERT"
                             ELSE call[h].op \in {"report", "probe"} /\ call[h].at \in Monitoring /\ held[h].incident \in Ids,
           call'[h].at \in Monitoring =>
               call[h].op \in {"report", "probe"} /\ call[h].at \in Monitoring \union {"send"} /\ held[h].incident \in Ids
    PROVE  PlaceInv' /\ OthersHold(h) /\ Steps(h, (Places \ {"find", "occur", "create", "resolve", "event"}) \union {"complete", "fail"})
<1>1. CallOk(h) /\ HeldOk(h) /\ held' \in [Calls -> HeldRows] /\ OthersHold(h) /\ failed' \subseteq Calls
  BY DEF PlaceInv, OthersHold
<1>2. /\ CallsTypeOK(Ops, Bodies, {}, Places)' /\ OthersStay(h)
      /\ (At(h, "done")' /\ call[h].op = "probe") \/ (SameRequest(h) /\ call'[h].at \in Places \union {"complete", "fail"})
  <2>1. CASE Done(h)
    BY <2>1, DoneEffect DEF At, Places
  <2>2. ASSUME NEW place \in Places \union {"complete"}, Goto(h, place, Null)
        PROVE  /\ CallsTypeOK(Ops, Bodies, {}, Places)' /\ OthersStay(h)
               /\ SameRequest(h) /\ call'[h].at \in Places \union {"complete", "fail"}
    BY <2>2, GoesOn
  <2>3. ASSUME NEW code, Throws(h, code, TRUE)
        PROVE  /\ CallsTypeOK(Ops, Bodies, {}, Places)' /\ OthersStay(h)
               /\ SameRequest(h) /\ call'[h].at \in Places \union {"complete", "fail"}
    BY <2>3, Throwing
  <2> QED  BY <2>1, <2>2, <2>3
<1>3. HeldOk(h)' \/ At(h, "done")'
  <2>1. held'[h] = held[h]
    OBVIOUS
  <2> QED  BY <1>1, <1>2, <2>1 DEF HeldOk, At, Monitoring, SameRequest
<1>4. call'[h].at # "begin" \/ At(h, "done")'
  BY <1>2 DEF Places, At
<1>5. PlaceInv'
  BY <1>1, <1>2, <1>3, <1>4, PlaceMove DEF At
<1> QED  BY <1>1, <1>2, <1>5 DEF Steps

\* Where a call that monitors is.
LEMMA Served ==
    ASSUME PlaceInv, NEW h \in Calls, call[h].at \in Monitoring \union {"send", "run", "upsert", "complete", "fail", "health"}
    PROVE  /\ Active(h) /\ CallOk(h) /\ HeldOk(h)
           /\ call[h].at \in Monitoring => call[h].op \in {"report", "probe"}
           /\ call[h].at \in {"occur", "resolve", "event", "config", "deliver", "notified"} => held[h].incident \in Ids
  BY DEF PlaceInv, CallOk, HeldOk, Active, Monitoring

\* What a step after a write does to the calls.
Continues(h, from, places) ==
    /\ PlaceInv' /\ OthersHold(h) /\ From(h, from) /\ Steps(h, places) /\ held' = held /\ UNCHANGED <<idem, now, past, failed>>

\* The event of a statement is logged after it, and the channel is read next.
LEMMA EventRecorded ==
    ASSUME PlaceInv, NEW h \in Calls, RecordEvent(h)
    PROVE  /\ Continues(h, {"event"}, {"config"}) /\ SameRequest(h) /\ At(h, "config")' /\ held[h].incident \in Ids
           /\ held[h].event \in Events /\ log' = log \union {<<held[h].incident, held[h].event, h>>}
           /\ UNCHANGED <<incident, wrote, config, delivery>>
<1>1. /\ At(h, "event") /\ Goto(h, "config", Null) /\ UNCHANGED <<now, past, failed, idem, held, delivery, incident, wrote, config>>
      /\ log' = log \union {<<held[h].incident, held[h].event, h>>}
  BY DEF RecordEvent, timeVars, alertVars
<1>2. OthersStay(h) /\ SameRequest(h) /\ call'[h].at = "config"
  BY <1>1, GoesOn DEF Places
<1>3. Active(h) /\ call[h].op \in {"report", "probe"} /\ held[h].incident \in Ids /\ "config" \in Places /\ held[h].event \in Events
  BY <1>1, Served DEF At, Monitoring, Places, HeldOk
<1>4. PlaceInv' /\ OthersHold(h)
  BY <1>1, <1>2, <1>3, Continuing DEF At, Monitoring
<1> QED  BY <1>1, <1>2, <1>3, <1>4 DEF Continues, From, Steps, At

\* The call decides to alert or has done its work.
LEMMA ConfigurationRead ==
    ASSUME PlaceInv, NEW h \in Calls, ReadConfiguration(h)
    PROVE  /\ Continues(h, {"config"}, {"deliver", "complete", "health"}) /\ UNCHANGED <<incident, log, wrote, config, delivery>>
           /\ At(h, "health")' => held[h].service = "API"
<1>1. At(h, "config") /\ UNCHANGED <<now, past, failed, idem, held, delivery, config, incident, log, wrote>>
  BY DEF ReadConfiguration, opsVars, timeVars, alertVars, incidentVars
<1>2. Goto(h, "deliver", Null) \/ Done(h)
  BY DEF ReadConfiguration
<1>3. /\ OthersStay(h)
      /\ (At(h, "done")' /\ call[h].op = "probe") \/ (SameRequest(h) /\ call'[h].at \in {"deliver", "complete", "health"}
                            /\ (At(h, "health")' => call[h].op = "probe" /\ held[h].service = "API"))
  <2>1. CASE Goto(h, "deliver", Null)
    BY <1>1, <2>1, GoesOn DEF Places, At
  <2>2. CASE Done(h)
    BY <1>1, <2>2, DoneEffect DEF At
  <2> QED  BY <1>2, <2>1, <2>2
<1>4. Active(h) /\ call[h].op \in {"report", "probe"} /\ held[h].incident \in Ids /\ "deliver" \in Places
  BY <1>1, Served DEF At, Monitoring, Places
<1>5. PlaceInv' /\ OthersHold(h)
  BY <1>1, <1>2, <1>3, <1>4, Continuing DEF At, Monitoring
<1> QED  BY <1>1, <1>3, <1>5 DEF Continues, From, Steps, At

Deliveries == [Calls -> DeliveryRows(Ids \union {Null})]

\* The delivery of one call is written.
LEMMA DeliveryWritten ==
    ASSUME TablesInv, NEW h \in Calls, NEW row \in DeliveryRows(Ids \union {Null}), delivery' = [delivery EXCEPT ![h] = row]
    PROVE  delivery' \in Deliveries /\ delivery'[h] = row /\ \A g \in Calls \ {h} : delivery'[g] = delivery[g]
  BY DEF TablesInv, Deliveries

\* The delivery row of an alert, or of a recovery, is inserted before it is sent.
LEMMA DeliveryCreated ==
    ASSUME PlaceInv, TablesInv, NEW h \in Calls, CreateDelivery(h)
    PROVE  /\ Continues(h, {"deliver"}, {"send"}) /\ SameRequest(h) /\ At(h, "send")' /\ delivery' \in Deliveries
           /\ delivery'[h].kind = (IF Detected(h) THEN "ALERT" ELSE "RECOVERY")
           /\ delivery'[h].incident = held[h].incident /\ held[h].incident \in Ids /\ delivery'[h].at = now
           /\ UNCHANGED <<incident, log, wrote, config>>
<1>1. /\ At(h, "deliver") /\ Goto(h, "send", Null) /\ UNCHANGED <<now, past, failed, idem, held, incident, log, wrote, config>>
  BY DEF CreateDelivery, timeVars, incidentVars
<1>2. OthersStay(h) /\ SameRequest(h) /\ call'[h].at = "send"
  BY <1>1, GoesOn DEF Places
<1>3. /\ Active(h) /\ call[h].op \in {"report", "probe"} /\ held[h].incident \in Ids /\ "send" \in Places
  BY <1>1, Served DEF At, Monitoring, Places
<1>4. PICK kind : kind = (IF Detected(h) THEN "ALERT" ELSE "RECOVERY")
  OBVIOUS
<1>5. PICK row : row = [kind |-> kind, incident |-> held[h].incident, status |-> "PENDING", at |-> now]
  OBVIOUS
<1>6. row \in DeliveryRows(Ids \union {Null}) /\ row.kind = kind /\ row.incident = held[h].incident /\ row.at = now
  BY <1>3, <1>4, <1>5 DEF DeliveryRows, PlaceInv
<1>7. delivery' = [delivery EXCEPT ![h] = row]
  BY <1>4, <1>5 DEF CreateDelivery
<1>8. delivery' \in Deliveries /\ delivery'[h] = row /\ \A g \in Calls \ {h} : delivery'[g] = delivery[g]
  BY <1>6, <1>7, DeliveryWritten
<1>9. PlaceInv' /\ OthersHold(h)
  BY <1>1, <1>2, <1>3, <1>8, Continuing DEF At, Monitoring
<1> QED  BY <1>1, <1>2, <1>3, <1>4, <1>6, <1>8, <1>9 DEF Continues, From, Steps, At

\* The delivery row of a test alert.
LEMMA TestCreated ==
    ASSUME PlaceInv, TablesInv, NEW h \in Calls, CreateTest(h)
    PROVE  /\ Continues(h, {"run"}, {"send"}) /\ delivery' \in Deliveries /\ delivery'[h].kind = "TEST" /\ delivery'[h].at = now
           /\ UNCHANGED <<incident, log, wrote, config>> /\ call[h].op = "test"
<1>1. /\ call[h].op = "test" /\ At(h, "run") /\ Goto(h, "send", Null)
      /\ UNCHANGED <<now, past, failed, idem, held, incident, log, wrote, config>>
  BY DEF CreateTest, timeVars, incidentVars
<1>2. OthersStay(h) /\ SameRequest(h) /\ call'[h].at = "send"
  BY <1>1, GoesOn DEF Places
<1>3. Active(h) /\ "send" \in Places
  BY <1>1 DEF At, Active, Places
<1>4. PICK row : row = [kind |-> "TEST", incident |-> Null, status |-> "PENDING", at |-> now]
  OBVIOUS
<1>5. row \in DeliveryRows(Ids \union {Null}) /\ row.kind = "TEST" /\ row.at = now
  BY <1>4 DEF DeliveryRows, PlaceInv
<1>6. delivery' \in Deliveries /\ delivery'[h] = row /\ \A g \in Calls \ {h} : delivery'[g] = delivery[g]
  BY <1>4, <1>5, DeliveryWritten DEF CreateTest
<1>7. PlaceInv' /\ OthersHold(h)
  BY <1>1, <1>2, <1>3, <1>5, <1>6, Continuing DEF At, Monitoring
<1> QED  BY <1>1, <1>2, <1>5, <1>6, <1>7 DEF Continues, From, Steps, At

\* The provider has answered: an alert is noted next, also when it was not sent.
LEMMA MessageSent ==
    ASSUME PlaceInv, TablesInv, NEW h \in Calls, SendMessage(h)
    PROVE  /\ Continues(h, {"send"}, {"notified", "complete", "health"}) /\ delivery' \in Deliveries
           /\ delivery'[h].kind = delivery[h].kind /\ delivery'[h].incident = delivery[h].incident
           /\ delivery'[h].at = delivery[h].at
           /\ UNCHANGED <<incident, log, wrote, config>>
           /\ delivery[h].kind = "ALERT" => At(h, "notified")' /\ SameRequest(h)
           /\ At(h, "notified")' => delivery[h].kind = "ALERT"
           /\ At(h, "health")' => held[h].service = "API"
<1>1. At(h, "send") /\ UNCHANGED <<now, past, failed, idem, held, incident, log, wrote, config>>
  BY DEF SendMessage, timeVars, incidentVars
<1>2. PICK status \in {"SENT", "FAILED"} : delivery' = [delivery EXCEPT ![h] = [@ EXCEPT !.status = status]]
  BY DEF SendMessage
<1>3. PICK row : row = [delivery[h] EXCEPT !.status = status]
  OBVIOUS
<1>4. /\ row \in DeliveryRows(Ids \union {Null}) /\ row.kind = delivery[h].kind /\ row.incident = delivery[h].incident
      /\ row.at = delivery[h].at
  BY <1>3 DEF DeliveryRows, TablesInv
<1>5. delivery' = [delivery EXCEPT ![h] = row]
  BY <1>2, <1>3 DEF TablesInv
<1>6. delivery' \in Deliveries /\ delivery'[h] = row /\ \A g \in Calls \ {h} : delivery'[g] = delivery[g]
  BY <1>4, <1>5, DeliveryWritten
<1>7. IF delivery[h].kind = "ALERT" THEN Goto(h, "notified", Null) ELSE Done(h)
  BY DEF SendMessage
<1>8. Active(h) /\ CallOk(h) /\ HeldOk(h) /\ "notified" \in Places /\ call[h].op \in {"report", "probe", "test"}
  BY <1>1, Served DEF At, Places, CallOk
<1>9. /\ OthersStay(h)
      /\ IF delivery[h].kind = "ALERT" THEN SameRequest(h) /\ call'[h].at = "notified"
         ELSE (At(h, "done")' /\ call[h].op = "probe") \/ (SameRequest(h) /\ call'[h].at \in {"complete", "health"}
                                 /\ (At(h, "health")' => call[h].op = "probe" /\ held[h].service = "API"))
  <2>1. CASE delivery[h].kind = "ALERT"
    BY <1>1, <1>7, <2>1, GoesOn DEF Places
  <2>2. CASE delivery[h].kind # "ALERT"
    BY <1>1, <1>7, <2>2, DoneEffect DEF At
  <2> QED  BY <2>1, <2>2
<1>10. delivery[h].kind = "ALERT" => call[h].op \in {"report", "probe"} /\ held[h].incident \in Ids
  BY <1>1, <1>8 DEF HeldOk
<1>11. PlaceInv' /\ OthersHold(h)
  <2>1. Goto(h, "notified", Null) \/ Done(h)
    BY <1>7
  <2> QED  BY <1>1, <1>6, <1>8, <1>9, <1>10, <2>1, Continuing DEF At, Monitoring
<1> QED  BY <1>1, <1>4, <1>6, <1>9, <1>11 DEF Continues, From, Steps, At

\* The incident is told that its alert was made.
LEMMA NotificationRecorded ==
    ASSUME PlaceInv, NEW h \in Calls, RecordNotified(h)
    PROVE  /\ Continues(h, {"notified"}, {"complete", "health"}) /\ held[h].incident \in Ids
           /\ UNCHANGED <<log, wrote, config, delivery>> /\ (At(h, "health")' => held[h].service = "API")
           /\ incident' = [incident EXCEPT ![held[h].incident] = Notified(@, now)]
<1>1. /\ At(h, "notified") /\ Done(h) /\ UNCHANGED <<now, past, failed, idem, held, log, wrote, config, delivery>>
      /\ incident' = [incident EXCEPT ![held[h].incident] = Notified(@, now)]
  BY DEF RecordNotified, timeVars, alertVars
<1>2. /\ OthersStay(h)
      /\ (At(h, "done")' /\ call[h].op = "probe") \/ (SameRequest(h) /\ call'[h].at \in {"complete", "health"})
      /\ At(h, "health")' => call[h].op = "probe" /\ held[h].service = "API"
  BY <1>1, DoneEffect DEF At
<1>3. Active(h) /\ held[h].incident \in Ids
  BY <1>1, Served DEF At, Monitoring
<1>4. PlaceInv' /\ OthersHold(h)
  BY <1>1, <1>2, <1>3, Continuing DEF At, Monitoring
<1> QED  BY <1>1, <1>2, <1>3, <1>4 DEF Continues, From, Steps, At

\* The acknowledgement has found its incident, or has failed.
LEMMA OpenIncidentRead ==
    ASSUME PlaceInv, NEW h \in Calls, ReadOpenIncident(h)
    PROVE  /\ Continues(h, {"run"}, {"upsert", "fail"}) /\ UNCHANGED <<incident, log, wrote, config, delivery>>
           /\ call[h].op = "acknowledge"
<1>1. /\ At(h, "run") /\ call[h].op = "acknowledge"
      /\ UNCHANGED <<now, past, failed, idem, held, incident, log, wrote, config, delivery>>
  BY DEF ReadOpenIncident, opsVars, timeVars, alertVars, incidentVars
<1>2. Goto(h, "upsert", Null) \/ Throws(h, "INCIDENT_ALREADY_ACKNOWLEDGED", TRUE)
  BY DEF ReadOpenIncident
<1>3. OthersStay(h) /\ SameRequest(h) /\ call'[h].at \in {"upsert", "fail"}
  <2>1. CASE Goto(h, "upsert", Null)
    BY <1>1, <2>1, GoesOn DEF Places
  <2>2. CASE Throws(h, "INCIDENT_ALREADY_ACKNOWLEDGED", TRUE)
    BY <1>1, <2>2, Throwing
  <2> QED  BY <1>2, <2>1, <2>2
<1>4. Active(h) /\ "upsert" \in Places
  BY <1>1 DEF At, Active, Places
<1>5. PlaceInv' /\ OthersHold(h)
  BY <1>1, <1>2, <1>3, <1>4, Continuing DEF At, Monitoring
<1> QED  BY <1>1, <1>3, <1>5 DEF Continues, From, Steps, At

\* An acknowledgement changes the row and the timeline together, or neither.
LEMMA Acknowledging ==
    ASSUME PlaceInv, NEW h \in Calls, AcknowledgeIncident(h)
    PROVE  /\ Continues(h, {"upsert"}, {"complete", "fail"}) /\ UNCHANGED <<wrote, config, delivery>>
           /\ call[h].op = "acknowledge"
           /\ LET i == call[h].arg.incident
              IN /\ i \in Ids
                 /\ \/ UNCHANGED <<incident, log>>
                    \/ /\ incident' = [incident EXCEPT ![i] = Acknowledged(@)]
                       /\ log' = log \union {<<i, "ACKNOWLEDGED", h>>} /\ Acknowledged(incident[i]) # incident[i]
<1> DEFINE i == call[h].arg.incident
<1>1. /\ At(h, "upsert") /\ call[h].op = "acknowledge"
      /\ UNCHANGED <<now, past, failed, idem, held, wrote, config, delivery>>
  BY DEF AcknowledgeIncident, timeVars, alertVars
<1>2. \/ /\ incident' = [incident EXCEPT ![i] = Acknowledged(@)] /\ log' = log \union {<<i, "ACKNOWLEDGED", h>>}
         /\ Goto(h, "complete", Null) /\ Acknowledged(incident[i]) # incident[i]
      \/ Throws(h, "INCIDENT_ALREADY_ACKNOWLEDGED", TRUE) /\ UNCHANGED <<incident, log>>
  BY DEF AcknowledgeIncident
<1>3. OthersStay(h) /\ SameRequest(h) /\ call'[h].at \in {"complete", "fail"}
  <2>1. CASE Goto(h, "complete", Null)
    BY <1>1, <2>1, GoesOn DEF Places
  <2>2. CASE Throws(h, "INCIDENT_ALREADY_ACKNOWLEDGED", TRUE)
    BY <1>1, <2>2, Throwing
  <2> QED  BY <1>2, <2>1, <2>2
<1>4. Active(h) /\ i \in Ids
  BY <1>1 DEF At, Active, PlaceInv, CallOk
<1>5. PlaceInv' /\ OthersHold(h)
  BY <1>1, <1>2, <1>3, <1>4, Continuing DEF At, Monitoring
<1> QED  BY <1>1, <1>2, <1>3, <1>4, <1>5 DEF Continues, From, Steps, At

\* The row of the channel is read before it is replaced.
LEMMA ChannelRead ==
    ASSUME PlaceInv, TablesInv, NEW h \in Calls, ReadChannel(h)
    PROVE  /\ PlaceInv' /\ OthersHold(h) /\ From(h, {"run"}) /\ Steps(h, {"upsert"}) /\ call[h].op = "configure"
           /\ held'[h].incident = Null
           /\ UNCHANGED <<idem, now, past, failed, incident, log, wrote, config, delivery>>
<1>1. /\ At(h, "run") /\ call[h].op = "configure" /\ Goto(h, "upsert", Null)
      /\ UNCHANGED <<idem, now, past, failed, incident, log, wrote, config, delivery>>
  BY DEF ReadChannel, timeVars, alertVars, incidentVars
<1>2. PICK c \in BOOLEAN : c = config.credential
  BY DEF TablesInv, ConfigRows
<1>3. PICK row : row = [NoneHeld EXCEPT !.credential = c]
  OBVIOUS
<1>4. row \in HeldRows /\ row.incident = Null
  BY <1>3, HeldTypes DEF HeldRows
<1>5. held' \in [Calls -> HeldRows] /\ OthersHold(h) /\ held'[h] = row
  BY <1>1, <1>2, <1>3, <1>4, HoldEffect DEF PlaceInv, ReadChannel
<1>6. CallsTypeOK(Ops, Bodies, {}, Places)' /\ OthersStay(h) /\ SameRequest(h) /\ call'[h].at = "upsert"
  BY <1>1, GoesOn DEF Places
<1>7. HeldOk(h)'
  BY <1>1, <1>6 DEF HeldOk, At, Monitoring, SameRequest
<1>8. PlaceInv'
  <2>1. Active(h) /\ failed' \subseteq Calls
    BY <1>1 DEF Active, At, PlaceInv
  <2> QED  BY <1>1, <1>5, <1>6, <1>7, <2>1, PlaceMove DEF At, Monitoring
<1> QED  BY <1>1, <1>4, <1>5, <1>6, <1>8 DEF From, Steps, At

\* The upsert writes what the administrator chose and the credential that was read before.
LEMMA ConfigurationWritten ==
    ASSUME PlaceInv, TablesInv, NEW h \in Calls, UpsertConfiguration(h)
    PROVE  /\ Continues(h, {"upsert"}, {"complete"}) /\ UNCHANGED <<incident, log, wrote, delivery>>
           /\ call[h].op = "configure" /\ config' \in ConfigRows /\ config'.cooldown \in Cooldowns
           /\ config'.credential = held[h].credential
<1>1. /\ At(h, "upsert") /\ call[h].op = "configure" /\ Goto(h, "complete", Null)
      /\ UNCHANGED <<idem, now, past, failed, held, incident, log, wrote, delivery>>
      /\ config' = Upserted(call[h].arg.enabled, call[h].arg.threshold, call[h].arg.cooldown, held[h].credential)
  BY DEF UpsertConfiguration, timeVars, incidentVars
<1>2. OthersStay(h) /\ SameRequest(h) /\ call'[h].at = "complete"
  BY <1>1, GoesOn
<1>3. /\ Active(h) /\ call[h].arg \in Bodies /\ call[h].arg.cooldown \in Cooldowns /\ held[h] \in HeldRows
  BY <1>1 DEF Active, At, PlaceInv, CallOk
<1>4. PICK e \in BOOLEAN, c \in BOOLEAN : e = call[h].arg.enabled /\ c = held[h].credential
  BY <1>3 DEF Bodies, HeldRows
<1>5. PICK row : row = [exists |-> TRUE, enabled |-> e, threshold |-> call[h].arg.threshold,
                        cooldown |-> call[h].arg.cooldown, credential |-> c]
  OBVIOUS
<1>6. row \in ConfigRows /\ row.cooldown = call[h].arg.cooldown /\ row.credential = c
  <2>1. call[h].arg.threshold \in 1 .. 4 /\ call[h].arg.cooldown \in Nat
    BY <1>3, OperationsAssumption DEF Bodies
  <2> QED  BY <1>5, <2>1 DEF ConfigRows
<1>7. config' = row
  BY <1>1, <1>4, <1>5 DEF Upserted
<1>8. PlaceInv' /\ OthersHold(h)
  BY <1>1, <1>2, <1>3, Continuing DEF At, Monitoring
<1> QED  BY <1>1, <1>2, <1>3, <1>4, <1>6, <1>7, <1>8 DEF Continues, From, Steps, At

\* The record of a call is completed or failed, and the call is done.
LEMMA Settling ==
    ASSUME PlaceInv, NEW h \in Calls, SettleReport(h) \/ SettleAcknowledge(h) \/ SettleConfigure(h) \/ SettleTest(h)
    PROVE  /\ PlaceInv' /\ OthersHold(h) /\ From(h, {"complete", "fail"}) /\ OthersStay(h) /\ At(h, "done")'
           /\ held'[h].incident \in {Null, held[h].incident}
           /\ \/ failed' = failed /\ (call[h].op = "report" => CompleteRecord(h))
              \/ failed' = failed \union {h} /\ FailRecord(h)
           /\ call[h].at = "fail" /\ call[h].op = "report" => failed' = failed \union {h}
           /\ UNCHANGED <<now, past, incident, log, wrote, config, delivery>>
           /\ CompleteRecord(h) \/ FailRecord(h)
<1> DEFINE Typed == CallsTypeOK(Ops, Bodies, {}, Places)
<1>1. Typed /\ held \in [Calls -> HeldRows] /\ failed \subseteq Calls
  BY DEF PlaceInv
<1>2. CompleteRecord(h) \/ FailRecord(h)
  BY DEF SettleReport, SettleAcknowledge, SettleConfigure, SettleTest
<1>3. Typed' /\ OthersStay(h) /\ call'[h].at = "done" /\ call[h].at \in {"complete", "fail"}
  BY <1>1, <1>2, SettleEffect
<1>4. /\ UNCHANGED <<now, past, incident, log, wrote, config, delivery>>
      /\ Hold(h, NoneHeld) \/ held' = held
      /\ \/ failed' = failed /\ (call[h].op = "report" => CompleteRecord(h))
         \/ failed' = failed \union {h} /\ FailRecord(h)
  BY DEF SettleReport, SettleAcknowledge, SettleConfigure, SettleTest, opsVars, timeVars, alertVars, incidentVars
<1>5. held' \in [Calls -> HeldRows] /\ OthersHold(h) /\ held'[h].incident \in {Null, held[h].incident}
  <2>1. CASE Hold(h, NoneHeld)
    BY <1>1, <1>4, <2>1, HoldEffect, HeldTypes
  <2>2. CASE held' = held
    BY <1>4, <2>2, NothingHeldAnew
  <2> QED  BY <1>4, <2>1, <2>2
<1>6. PlaceInv'
  <2>1. Active(h) /\ failed' \subseteq Calls
    BY <1>1, <1>3, <1>4 DEF Active
  <2> QED  BY <1>3, <1>4, <1>5, <2>1, PlaceMove DEF At
<1>7. call[h].at = "fail" /\ call[h].op = "report" => failed' = failed \union {h}
  BY <1>4 DEF CompleteRecord
<1> QED  BY <1>2, <1>3, <1>4, <1>5, <1>6, <1>7 DEF From, At

\* A statement fails and the catch goes on, or the process dies.
LEMMA Failing ==
    ASSUME PlaceInv, NEW h \in Calls, Fault(h)
    PROVE  /\ PlaceInv' /\ OthersHold(h) /\ Active(h) /\ OthersStay(h) /\ idem' = idem
           /\ held'[h].incident \in {Null, held[h].incident}
           /\ \/ held' = held /\ failed' = failed /\ SameRequest(h) /\ ~At(h, "begin") /\ At(h, "fail")'
              \/ failed' = failed \union {h} /\ At(h, "done")'
           /\ UNCHANGED <<now, past, incident, log, wrote, config, delivery>>
<1> DEFINE Typed == CallsTypeOK(Ops, Bodies, {}, Places)
<1>1. Typed /\ held \in [Calls -> HeldRows] /\ failed \subseteq Calls
  BY DEF PlaceInv
<1>2. /\ Typed' /\ OthersStay(h) /\ idem' = idem /\ Active(h)
      /\ call'[h].at = "done" \/ (call'[h].at = "fail" /\ SameRequest(h) /\ call[h].at # "begin")
  BY <1>1, FaultEffect DEF Fault, Active
<1>3. UNCHANGED <<now, past, incident, log, wrote, config, delivery>>
  BY DEF Fault, opsVars, timeVars, alertVars, incidentVars
<1>4. CASE StatementFails(h) /\ UNCHANGED opsVars
  <2>1. Throws(h, "ERROR", TRUE) /\ held' = held /\ failed' = failed
    BY <1>4 DEF StatementFails, opsVars, timeVars
  <2>2. call'[h].at = "fail" /\ SameRequest(h) /\ call[h].at # "begin"
    BY <1>2, <2>1, Throwing
  <2>3. held' \in [Calls -> HeldRows] /\ OthersHold(h)
    BY <1>3, <2>1, NothingHeldAnew
  <2>4. HeldOk(h)'
    BY <2>2 DEF HeldOk, At, Monitoring
  <2>5. PlaceInv'
    BY <1>1, <1>2, <1>3, <2>1, <2>2, <2>3, <2>4, PlaceMove DEF At, Monitoring
  <2> QED  BY <1>2, <1>3, <2>1, <2>2, <2>3, <2>5 DEF At
<1>5. CASE ProcessDies(h) /\ failed' = failed \union {h} /\ Hold(h, NoneHeld)
  <2>1. held' \in [Calls -> HeldRows] /\ OthersHold(h) /\ held'[h].incident = Null
    BY <1>1, <1>3, <1>5, HoldEffect, HeldTypes
  <2>2. call'[h].at = "done"
    BY <1>2, <1>5, Answering DEF ProcessDies
  <2>3. PlaceInv'
    BY <1>1, <1>2, <1>3, <1>5, <2>1, <2>2, PlaceMove DEF At
  <2> QED  BY <1>2, <1>3, <1>5, <2>1, <2>2, <2>3 DEF At
<1> QED  BY <1>4, <1>5 DEF Fault

-----------------------------------------------------------------------------
(* The tables *)

LogRows == Ids \X {"OPENED", "OCCURRENCE", "ACKNOWLEDGED", "RESOLVED"} \X (Calls \union {Null})

\* An entry of the timeline that is added.
Logs(e) ==
    /\ log' = log \union {e} /\ e \in LogRows /\ Exists(e[1])'
    /\ e[2] = "ACKNOWLEDGED" => /\ incident'[e[1]].status # "OPEN"
                                /\ \A d \in log : d[1] = e[1] => d[2] # "ACKNOWLEDGED"

\* What a statement may do to the row of an incident.
RowStep(h, i) ==
    /\ Exists(i)' /\ (Exists(i) \/ i = h)
    /\ incident'[i].status = "RESOLVED" => incident'[i].resolvedAt # Never
    /\ IsOpen(incident'[i]) =>
           \/ IsOpen(incident[i]) /\ incident[i].key = incident'[i].key
           \/ \A j \in Ids : IsOpen(incident[j]) => incident[j].key # incident'[i].key
    /\ incident'[i].status = "OPEN" => incident[i].status \in {"OPEN", "ABSENT"}

\* What h refers to exists, and what it may still create does not.
Refers(h) ==
    /\ Unborn(h) => ~Exists(h)
    /\ held[h].incident # Null => Exists(held[h].incident)
    /\ call[h].op = "acknowledge" /\ Active(h) => Exists(call[h].arg.incident)
    /\ Told(h) => Exists(delivery[h].incident)

\* A step that writes one incident at most, and what its call refers to afterwards.
LEMMA TablesStep ==
    ASSUME TablesInv, NEW h \in Calls, OthersStay(h), OthersHold(h), NEW i \in Ids,
           incident' \in [Ids -> IncidentRows], \A j \in Ids \ {i} : incident'[j] = incident[j],
           incident'[i] = incident[i] \/ RowStep(h, i),
           log' = log \/ \E e : Logs(e),
           config' \in ConfigRows, delivery' \in Deliveries, Refers(h)'
    PROVE  TablesInv'
<1>1. \A j \in Ids : Exists(j) => Exists(j)'
  BY DEF Exists, RowStep
<1>2. log' \subseteq LogRows
  BY DEF TablesInv, Logs, LogRows
<1>3. ASSUME NEW j \in Ids, NEW k \in Ids, IsOpen(incident'[j]), IsOpen(incident'[k]), incident'[j].key = incident'[k].key
      PROVE  j = k
  <2>1. ASSUME NEW m \in Ids, NEW n \in Ids, m # i, n = i, IsOpen(incident'[m]), IsOpen(incident'[n]),
               incident'[m].key = incident'[n].key
        PROVE  FALSE
    BY <2>1 DEF TablesInv, RowStep
  <2> QED  BY <1>3, <2>1 DEF TablesInv
<1>4. \A j \in Ids : incident'[j].status = "RESOLVED" => incident'[j].resolvedAt # Never
  BY DEF TablesInv, RowStep
<1>5. ASSUME NEW g \in Calls
      PROVE  Refers(g)'
  <2>1. CASE g = h
    BY <2>1
  <2>2. CASE g # h
    <3>1. call'[g] = call[g] /\ held'[g] = held[g] /\ delivery'[g] = delivery[g]
      BY <2>2 DEF OthersStay, OthersHold
    <3>2. Unborn(g)' => ~Exists(g)'
      <4>1. Unborn(g)' => Unborn(g)
        BY <3>1 DEF Unborn, Active
      <4>2. Unborn(g) => ~Exists(g)
        BY DEF TablesInv
      <4>3. ~Exists(g) => ~Exists(g)'
        BY <2>2 DEF Exists, RowStep, Ids
      <4> QED  BY <4>1, <4>2, <4>3
    <3>3. held'[g].incident # Null => Exists(held[g].incident)'
      BY <1>1, <3>1 DEF TablesInv, Exists
    <3>4. call'[g].op = "acknowledge" /\ Active(g)' => Exists(call[g].arg.incident)'
      BY <1>1, <3>1 DEF TablesInv, Exists, Active
    <3>5. Told(g)' => Exists(delivery[g].incident)'
      BY <1>1, <3>1 DEF TablesInv, Exists, Told
    <3> QED  BY <3>2, <3>3, <3>4, <3>5 DEF Refers
  <2> QED  BY <2>1, <2>2
<1>6. ASSUME NEW e \in log'
      PROVE  Exists(e[1])' /\ (e[2] = "ACKNOWLEDGED" => incident'[e[1]].status # "OPEN")
  <2>1. CASE e \in log
    <3>1. Exists(e[1]) /\ (e[2] = "ACKNOWLEDGED" => incident[e[1]].status # "OPEN")
      BY <2>1 DEF TablesInv
    <3>2. e[1] \in Ids
      BY <3>1 DEF Exists
    <3> QED  BY <1>1, <3>1, <3>2 DEF RowStep, Exists
  <2>2. CASE e \notin log
    BY <1>6, <2>2 DEF Logs
  <2> QED  BY <2>1, <2>2
<1>7. OneAcknowledgement'
  BY DEF TablesInv, OneAcknowledgement, Logs
<1> HIDE DEF Exists
<1> QED  BY <1>2, <1>3, <1>4, <1>5, <1>6, <1>7 DEF TablesInv, Refers, LogRows, Deliveries

\* A step that writes no incident.
LEMMA TablesQuiet ==
    ASSUME PlaceInv, TablesInv, NEW h \in Calls, OthersStay(h), OthersHold(h), UNCHANGED <<incident, log>>,
           config' \in ConfigRows, delivery' \in Deliveries,
           Unborn(h)' => ~Exists(h), held'[h].incident # Null => Exists(held'[h].incident),
           call'[h].op = "acknowledge" /\ Active(h)' => Exists(call'[h].arg.incident),
           Told(h)' => Exists(delivery'[h].incident)
    PROVE  TablesInv'
<1>1. \A j : Exists(j)' = Exists(j)
  BY DEF Exists
<1>2. Refers(h)'
  BY <1>1 DEF Refers
<1>3. h \in Ids /\ incident' \in [Ids -> IncidentRows] /\ \A j \in Ids : incident'[j] = incident[j]
  BY DEF TablesInv, Ids
<1> QED  BY <1>2, <1>3, TablesStep

\* What the invariant of the tables says of one call.
LEMMA ReferencesKept ==
    ASSUME PlaceInv, TablesInv, NEW h \in Calls
    PROVE  /\ Refers(h) /\ config \in ConfigRows /\ delivery \in Deliveries
           /\ incident \in [Ids -> IncidentRows] /\ h \in Ids
  BY DEF TablesInv, Refers, Deliveries, Ids

\* A call that goes on with its request refers to what it referred to.
LEMMA SameReferences ==
    ASSUME PlaceInv, TablesInv, NEW h \in Calls, Active(h),
           At(h, "done")' \/ (SameRequest(h) /\ Active(h)), NEW places, Steps(h, places)
    PROVE  call'[h].op = "acknowledge" /\ Active(h)' => Exists(call'[h].arg.incident)
  BY ReferencesKept DEF Refers, Active, At, SameRequest

\* The steps that write no incident and deliver nothing.
LEMMA TablesCalls ==
    ASSUME PlaceInv, TablesInv, NEW h \in Calls,
           \/ (\E key \in Keys : Routes(h, key)) \/ RunProbe(h)
           \/ BeginReport(h) \/ BeginAcknowledge(h) \/ BeginConfigure(h) \/ BeginTest(h)
           \/ RecordHealth(h) \/ FindIncident(h) \/ ReadConfiguration(h) \/ ReadOpenIncident(h) \/ ReadChannel(h)
           \/ SettleReport(h) \/ SettleAcknowledge(h) \/ SettleConfigure(h) \/ SettleTest(h) \/ Fault(h)
    PROVE  TablesInv'
<1>1. Refers(h) /\ config \in ConfigRows /\ delivery \in Deliveries
  BY ReferencesKept
<1>2. CASE (\E key \in Keys : Routes(h, key)) \/ RunProbe(h)
  <2>1. PlaceInv' /\ Joins(h)
    BY <1>2, Arrival
  <2>2. OthersStay(h) /\ OthersHold(h) /\ UNCHANGED <<incident, log, config, delivery, held>> /\ ~Exists(h)
    BY <1>1, <2>1 DEF Joins, incidentVars, alertVars, OthersHold, Refers, Unborn, At
  <2>3. call'[h].op = "acknowledge" /\ Active(h)' => Exists(call'[h].arg.incident)
    BY <2>1 DEF Joins, Active, At
  <2> QED  BY <1>1, <2>2, <2>3, TablesQuiet DEF Refers, Told
<1>3. CASE BeginReport(h) \/ BeginAcknowledge(h) \/ BeginConfigure(h) \/ BeginTest(h)
  <2>1. /\ PlaceInv' /\ UNCHANGED opsVars /\ At(h, "begin") /\ OthersStay(h)
        /\ \/ At(h, "done")'
           \/ call'[h].op = call[h].op /\ call'[h].arg = call[h].arg
    BY <1>3, Starting
  <2>2. OthersHold(h) /\ UNCHANGED <<incident, log, config, delivery, held>> /\ ~Exists(h)
    BY <1>1, <2>1 DEF opsVars, incidentVars, alertVars, OthersHold, Refers, Unborn, At
  <2>3. call'[h].op = "acknowledge" /\ Active(h)' => Exists(call'[h].arg.incident)
    BY <1>1, <2>1 DEF Refers, Active, At
  <2> QED  BY <1>1, <2>1, <2>2, <2>3, TablesQuiet DEF Refers, Told
<1>4. CASE RecordHealth(h)
  <2>1. /\ OthersHold(h) /\ OthersStay(h) /\ UNCHANGED <<incident, log, config, delivery>> /\ ~Exists(h) /\ held'[h].incident = Null
        /\ call[h].op = "probe" /\ (At(h, "done")' \/ SameRequest(h))
    BY <1>1, <1>4, HealthRecorded DEF RecordHealth, incidentVars, alertVars, Refers, Unborn, From, Steps
  <2>2. ~(call'[h].op = "acknowledge" /\ Active(h)')
    BY <2>1 DEF Active, At, SameRequest
  <2> QED  BY <1>1, <2>1, <2>2, TablesQuiet DEF Refers, Told
<1>5. CASE FindIncident(h)
  <2>1. /\ OthersHold(h) /\ OthersStay(h) /\ UNCHANGED <<incident, log, config, delivery>> /\ ~Exists(h)
        /\ held'[h].incident # Null => Exists(held'[h].incident)
        /\ call[h].op \in {"report", "probe"} /\ (At(h, "done")' \/ SameRequest(h))
    BY <1>1, <1>5, Finding DEF FindIncident, incidentVars, alertVars, Refers, Unborn, From, Steps, IsOpen, Exists
  <2>2. ~(call'[h].op = "acknowledge" /\ Active(h)')
    BY <2>1 DEF Active, At, SameRequest
  <2> QED  BY <1>1, <2>1, <2>2, TablesQuiet DEF Refers, Told
<1>6. CASE ReadConfiguration(h)
  <2>1. /\ Continues(h, {"config"}, {"deliver", "complete", "health"}) /\ UNCHANGED <<incident, log, config, delivery>>
        /\ At(h, "health")' => held[h].service = "API"
    BY <1>6, ConfigurationRead
  <2>2. call[h].op \in {"report", "probe"} /\ Active(h)
    BY <2>1, Served DEF Continues, From, Monitoring
  <2>3. ~(call'[h].op = "acknowledge" /\ Active(h)')
    BY <2>1, <2>2 DEF Continues, Steps, Active, At, SameRequest
  <2>4. Unborn(h)' => Unborn(h)
    BY <2>1, <2>2 DEF Continues, Steps, Unborn, Active, At, SameRequest, From, PlaceInv, CallOk
  <2> QED  BY <1>1, <2>1, <2>3, <2>4, TablesQuiet DEF Refers, Told, Continues, Steps
<1>7. CASE ReadOpenIncident(h)
  <2>1. /\ Continues(h, {"run"}, {"upsert", "fail"}) /\ UNCHANGED <<incident, log, config, delivery>> /\ call[h].op = "acknowledge"
    BY <1>7, OpenIncidentRead
  <2>2. Active(h)
    BY <2>1 DEF Continues, From, Active
  <2>3. call'[h].op = "acknowledge" /\ Active(h)' => Exists(call'[h].arg.incident)
    BY <1>1, <2>1, <2>2 DEF Continues, Steps, Active, At, SameRequest, Refers
  <2>4. ~Unborn(h)'
    BY <2>1 DEF Continues, Steps, Unborn, Active, At, SameRequest
  <2> QED  BY <1>1, <2>1, <2>3, <2>4, TablesQuiet DEF Refers, Told, Continues, Steps
<1>8. CASE ReadChannel(h)
  <2>1. /\ OthersHold(h) /\ Steps(h, {"upsert"}) /\ call[h].op = "configure" /\ held'[h].incident = Null
        /\ UNCHANGED <<incident, log, config, delivery>>
    BY <1>8, ChannelRead
  <2>2. ~(call'[h].op = "acknowledge" /\ Active(h)')
    BY <2>1 DEF Steps, Active, At, SameRequest
  <2>3. ~Unborn(h)'
    BY <2>1 DEF Steps, Unborn, Active, At, SameRequest
  <2> QED  BY <1>1, <2>1, <2>2, <2>3, TablesQuiet DEF Refers, Told, Steps
<1>9. CASE SettleReport(h) \/ SettleAcknowledge(h) \/ SettleConfigure(h) \/ SettleTest(h)
  <2>1. /\ OthersHold(h) /\ OthersStay(h) /\ At(h, "done")' /\ held'[h].incident \in {Null, held[h].incident}
        /\ UNCHANGED <<incident, log, config, delivery>>
    BY <1>9, Settling
  <2>2. ~Active(h)' /\ ~Unborn(h)'
    BY <2>1 DEF Active, At, Unborn
  <2> QED  BY <1>1, <2>1, <2>2, TablesQuiet DEF Refers, Told
<1>10. CASE Fault(h)
  <2>1. /\ OthersHold(h) /\ Active(h) /\ OthersStay(h) /\ held'[h].incident \in {Null, held[h].incident}
        /\ (held' = held /\ SameRequest(h) /\ At(h, "fail")') \/ At(h, "done")'
        /\ UNCHANGED <<incident, log, config, delivery>>
    BY <1>10, Failing
  <2>2. call'[h].op = "acknowledge" /\ Active(h)' => Exists(call'[h].arg.incident)
    BY <1>1, <2>1 DEF Active, At, SameRequest, Refers
  <2>3. Unborn(h)' => Unborn(h)
    BY <2>1 DEF Unborn, Active, At, SameRequest
  <2> QED  BY <1>1, <2>1, <2>2, <2>3, TablesQuiet DEF Refers, Told
<1> QED  BY <1>2, <1>3, <1>4, <1>5, <1>6, <1>7, <1>8, <1>9, <1>10

\* The steps that write a delivery.
LEMMA TablesDeliveries ==
    ASSUME PlaceInv, TablesInv, NEW h \in Calls, CreateDelivery(h) \/ CreateTest(h) \/ SendMessage(h)
    PROVE  TablesInv'
<1>1. Refers(h) /\ config \in ConfigRows /\ delivery \in Deliveries
  BY ReferencesKept
<1>2. CASE CreateDelivery(h)
  <2>1. /\ Continues(h, {"deliver"}, {"send"}) /\ SameRequest(h) /\ At(h, "send")' /\ delivery' \in Deliveries
        /\ delivery'[h].incident = held[h].incident /\ held[h].incident \in Ids
        /\ UNCHANGED <<incident, log, config>>
    BY <1>2, DeliveryCreated
  <2>2. call[h].op \in {"report", "probe"} /\ Active(h) /\ held[h].incident # Null
    BY <2>1, Served, OperationsAssumption DEF Continues, From, Monitoring
  <2>3. ~(call'[h].op = "acknowledge" /\ Active(h)') /\ (Unborn(h)' => Unborn(h))
    BY <2>1, <2>2 DEF Active, At, SameRequest, Unborn, Continues
  <2> QED  BY <1>1, <2>1, <2>2, <2>3, TablesQuiet DEF Refers, Continues, Steps
<1>3. CASE CreateTest(h)
  <2>1. /\ Continues(h, {"run"}, {"send"}) /\ delivery' \in Deliveries /\ delivery'[h].kind = "TEST"
        /\ UNCHANGED <<incident, log, config>> /\ call[h].op = "test"
    BY <1>3, TestCreated
  <2>2. ~(call'[h].op = "acknowledge" /\ Active(h)') /\ ~Unborn(h)' /\ ~Told(h)'
    BY <2>1 DEF Active, At, SameRequest, Unborn, Continues, Steps, Told
  <2> QED  BY <1>1, <2>1, <2>2, TablesQuiet DEF Refers, Continues, Steps
<1>4. CASE SendMessage(h)
  <2>1. /\ Continues(h, {"send"}, {"notified", "complete", "health"}) /\ delivery' \in Deliveries
        /\ delivery'[h].kind = delivery[h].kind /\ delivery'[h].incident = delivery[h].incident
        /\ UNCHANGED <<incident, log, config>> /\ (At(h, "health")' => held[h].service = "API")
    BY <1>4, MessageSent
  <2>2. call[h].op \in {"report", "probe", "test"} /\ Active(h)
    BY <2>1, Served DEF Continues, From, CallOk, At
  <2>3. ~(call'[h].op = "acknowledge" /\ Active(h)')
    BY <2>1, <2>2 DEF Continues, Steps, Active, At, SameRequest
  <2>4. PlaceInv' /\ (At(h, "health")' => call'[h].op = "probe")
    BY <2>1 DEF Continues, PlaceInv, CallOk, Active, At
  <2>5. Unborn(h)' => Unborn(h)
    BY <2>1, <2>2, <2>4 DEF Continues, Steps, Unborn, Active, At, SameRequest, From
  <2> QED  BY <1>1, <2>1, <2>3, <2>5, TablesQuiet DEF Refers, Told, Continues, Steps
<1> QED  BY <1>2, <1>3, <1>4

\* What the statements make of a row.
LEMMA RowEffects ==
    ASSUME NEW row \in IncidentRows, NEW t \in Times
    PROVE  /\ \A r : row.count < MaxCount =>
                  /\ Occurred(row, r) \in IncidentRows /\ Occurred(row, r).count = row.count + 1
                  /\ Occurred(row, r).status = row.status /\ Occurred(row, r).key = row.key
                  /\ Occurred(row, r).notified = row.notified /\ Occurred(row, r).resolvedAt = row.resolvedAt
           /\ \A new \in {Resolved(row, t), ResolvedBackfilled(row, t)} :
                  /\ new \in IncidentRows /\ new.count = row.count /\ new.status = "RESOLVED" /\ new.key = row.key
                  /\ new.notified = row.notified /\ new.resolvedAt = t
           /\ /\ Notified(row, t) \in IncidentRows /\ Notified(row, t).count = row.count
              /\ Notified(row, t).status = row.status /\ Notified(row, t).key = row.key
              /\ Notified(row, t).notified = t /\ Notified(row, t).resolvedAt = row.resolvedAt
           /\ /\ Acknowledged(row) \in IncidentRows /\ Acknowledged(row).count = row.count
              /\ Acknowledged(row).key = row.key /\ Acknowledged(row).notified = row.notified
              /\ Acknowledged(row).resolvedAt = row.resolvedAt
              /\ Acknowledged(row) # row => row.status = "OPEN" /\ Acknowledged(row).status = "ACKNOWLEDGED"
<1>1. t \in Nat /\ row.count \in Nat /\ MaxCount \in Nat
  BY HeldTypes, SeverityAssumption DEF IncidentRows
<1>2. ASSUME NEW r, row.count < MaxCount
      PROVE  /\ Occurred(row, r) \in IncidentRows /\ Occurred(row, r).count = row.count + 1
             /\ Occurred(row, r).status = row.status /\ Occurred(row, r).key = row.key
             /\ Occurred(row, r).notified = row.notified /\ Occurred(row, r).resolvedAt = row.resolvedAt
  <2>1. row.count + 1 \in 0 .. MaxCount
    BY <1>1, <1>2
  <2> QED  BY <2>1 DEF Occurred, IncidentRows
<1>3. PICK new : new = [row EXCEPT !.status = "RESOLVED", !.resolvedAt = t]
  OBVIOUS
<1>4. /\ new \in IncidentRows /\ new.count = row.count /\ new.status = "RESOLVED" /\ new.key = row.key
      /\ new.notified = row.notified /\ new.resolvedAt = t
  BY <1>3 DEF IncidentRows, IncidentStatuses
<1>5. Resolved(row, t) = new /\ ResolvedBackfilled(row, t) = new
  BY <1>3 DEF Resolved, ResolvedBackfilled
<1>6. /\ Notified(row, t) \in IncidentRows /\ Notified(row, t).count = row.count
      /\ Notified(row, t).status = row.status /\ Notified(row, t).key = row.key
      /\ Notified(row, t).notified = t /\ Notified(row, t).resolvedAt = row.resolvedAt
  BY DEF Notified, IncidentRows
<1>7. /\ Acknowledged(row) \in IncidentRows /\ Acknowledged(row).count = row.count
      /\ Acknowledged(row).key = row.key /\ Acknowledged(row).notified = row.notified
      /\ Acknowledged(row).resolvedAt = row.resolvedAt
      /\ Acknowledged(row) # row => row.status = "OPEN" /\ Acknowledged(row).status = "ACKNOWLEDGED"
  BY DEF Acknowledged, IncidentRows, IncidentStatuses
<1> QED  BY <1>2, <1>4, <1>5, <1>6, <1>7

\* The rows that are inserted.
LEMMA NewRows ==
    ASSUME NEW key \in DedupKeys, NEW t \in Times
    PROVE  \A row \in {NewIncident(key, t), Backfilled(key, 0, Never), Backfilled(key, 0, t)} :
               /\ row \in IncidentRows /\ row.key = key /\ row.count = 1 /\ row.notified = Never
               /\ row.status \in {"OPEN", "RESOLVED"} /\ (row.status = "RESOLVED" => row.resolvedAt # Never)
<1>1. 1 \in 0 .. MaxCount /\ 0 \in 0 .. MaxCount
  BY SeverityAssumption
<1>2. ASSUME NEW d \in Times
      PROVE  /\ NewIncident(key, d) \in IncidentRows /\ NewIncident(key, d).key = key /\ NewIncident(key, d).count = 1
             /\ NewIncident(key, d).notified = Never /\ NewIncident(key, d).status = "OPEN"
             /\ NewIncident(key, d).resolvedAt = Never
  <2>1. PICK none : none = NoIncident(key)
    OBVIOUS
  <2>2. none \in IncidentRows /\ none.key = key /\ none.notified = Never /\ none.resolvedAt = Never
    BY <1>1, <2>1, HeldTypes DEF NoIncident, IncidentRows
  <2>3. NewIncident(key, d) = [none EXCEPT !.status = "OPEN", !.count = 1, !.detectedAt = d]
    BY <2>1 DEF NewIncident
  <2> QED  BY <1>1, <2>2, <2>3 DEF IncidentRows, IncidentStatuses
<1>3. PICK new : new = NewIncident(key, 0)
  OBVIOUS
<1>4. /\ new \in IncidentRows /\ new.key = key /\ new.count = 1 /\ new.notified = Never /\ new.status = "OPEN"
  BY <1>2, <1>3, HeldTypes
<1>5. ASSUME NEW r \in Times \union {Never}
      PROVE  LET row == Backfilled(key, 0, r)
             IN /\ row \in IncidentRows /\ row.key = key /\ row.count = 1 /\ row.notified = Never
                /\ row.status \in {"OPEN", "RESOLVED"} /\ (row.status = "RESOLVED" => row.resolvedAt # Never)
  <2>1. PICK status \in {"OPEN", "RESOLVED"} : status = (IF r = Never THEN "OPEN" ELSE "RESOLVED")
    OBVIOUS
  <2>2. Backfilled(key, 0, r) = [new EXCEPT !.backfilled = TRUE, !.resolvedAt = r, !.status = status]
    BY <1>3, <2>1 DEF Backfilled
  <2>3. PICK row : row = [new EXCEPT !.backfilled = TRUE, !.resolvedAt = r, !.status = status]
    OBVIOUS
  <2>4. /\ row \in IncidentRows /\ row.key = key /\ row.count = 1 /\ row.notified = Never
        /\ row.status = status /\ row.resolvedAt = r
    BY <1>4, <1>5, <2>3 DEF IncidentRows, IncidentStatuses
  <2> QED  BY <2>1, <2>2, <2>3, <2>4
<1> QED  BY <1>2, <1>5

\* The condition a call monitors has a deduplication key.
LEMMA SoughtTyped ==
    ASSUME PlaceInv, NEW h \in Calls, call[h].at \in Monitoring
    PROVE  Sought(h) \in DedupKeys
<1>1. CASE call[h].op = "probe"
  BY <1>1, OperationsAssumption DEF Sought, PlaceInv, HeldOk
<1>2. CASE call[h].op # "probe"
  <2>1. call[h].op = "report" /\ Active(h)
    BY <1>2 DEF PlaceInv, CallOk, Active, Monitoring
  <2>2. call[h].arg.key \in ReportKeys
    BY <2>1 DEF PlaceInv, CallOk
  <2> QED  BY <1>2, <2>2, OperationsAssumption DEF Sought
<1> QED  BY <1>1, <1>2

\* What the three statements write, on which row.
Wrote(h, i, row, event) ==
    /\ incident' = [incident EXCEPT ![i] = row] /\ wrote' = wrote \union {<<h, call[h].key>>}
    /\ i \in Ids /\ row \in IncidentRows /\ event \in Events
    /\ UNCHANGED <<log, config, delivery, idem, now, past, failed>>
    /\ held'[h].incident = i /\ held'[h].notified = row.notified
    /\ At(h, "event")' => held'[h].event = event

\* recordOccurrence adds one to the count of an incident that exists.
LEMMA OccurrenceRecorded ==
    ASSUME PlaceInv, TablesInv, NEW h \in Calls, RecordOccurrence(h)
    PROVE  \E i, row : /\ Wrote(h, i, row, "OCCURRENCE") /\ Exists(i) /\ Writes(h, i, row, "OCCURRENCE") /\ From(h, {"occur"})
                       /\ row.count = incident[i].count + 1 /\ row.status = incident[i].status /\ row.key = incident[i].key
                       /\ row.notified = incident[i].notified /\ row.resolvedAt = incident[i].resolvedAt /\ Detected(h)
<1> DEFINE i == held[h].incident
           row == Occurred(incident[i], held[h].count)
<1>1. At(h, "occur") /\ incident[i].count < MaxCount /\ Writes(h, i, row, "OCCURRENCE")
  BY DEF RecordOccurrence
<1>2. i \in Ids /\ Detected(h) /\ Refers(h) /\ i # Null /\ incident[i] \in IncidentRows
  <2>1. i \in Ids /\ HeldOk(h)
    BY <1>1, Served DEF At, Monitoring
  <2>2. Detected(h)
    BY <1>1, <2>1 DEF HeldOk
  <2> QED  BY <2>1, <2>2, ReferencesKept, RowTypes, OperationsAssumption
<1>3. /\ row \in IncidentRows /\ row.count = incident[i].count + 1 /\ row.status = incident[i].status /\ row.key = incident[i].key
      /\ row.notified = incident[i].notified /\ row.resolvedAt = incident[i].resolvedAt
  <2>1. 0 \in Times
    BY HeldTypes
  <2> QED  BY <1>1, <1>2, <2>1, RowEffects
<1>4. From(h, {"occur"}) /\ From(h, {"occur", "create", "resolve"}) /\ "OCCURRENCE" \in Events
  BY <1>1 DEF From, At, Events
<1> HIDE DEF row, i
<1>5. held'[h].incident = i /\ held'[h].notified = row.notified /\ (At(h, "event")' => held'[h].event = "OCCURRENCE")
  BY <1>1, <1>2, <1>3, <1>4, Writing
<1>6. Wrote(h, i, row, "OCCURRENCE")
  BY <1>1, <1>2, <1>3, <1>4, <1>5 DEF Wrote, Writes, alertVars, timeVars
<1> QED  BY <1>1, <1>2, <1>3, <1>4, <1>6 DEF Refers, i

\* resolve ends an incident that exists.
LEMMA IncidentResolved ==
    ASSUME PlaceInv, TablesInv, NEW h \in Calls, ResolveIncident(h)
    PROVE  \E i, row : /\ Wrote(h, i, row, "RESOLVED") /\ Exists(i) /\ Writes(h, i, row, "RESOLVED") /\ From(h, {"resolve"})
                       /\ row.count = incident[i].count /\ row.status = "RESOLVED" /\ row.key = incident[i].key
                       /\ row.notified = incident[i].notified /\ row.resolvedAt # Never /\ ~Detected(h)
<1> DEFINE i == held[h].incident
<1>1. PICK row \in {Resolved(incident[i], now), ResolvedBackfilled(incident[i], now)} :
         At(h, "resolve") /\ Writes(h, i, row, "RESOLVED")
  BY DEF ResolveIncident
<1>2. i \in Ids /\ ~Detected(h) /\ Refers(h) /\ i # Null /\ incident[i] \in IncidentRows /\ now \in Times
  <2>1. i \in Ids /\ HeldOk(h)
    BY <1>1, Served DEF At, Monitoring
  <2>2. ~Detected(h)
    BY <1>1, <2>1 DEF HeldOk
  <2> QED  BY <2>1, <2>2, ReferencesKept, RowTypes, OperationsAssumption DEF PlaceInv
<1>3. /\ row \in IncidentRows /\ row.count = incident[i].count /\ row.status = "RESOLVED" /\ row.key = incident[i].key
      /\ row.notified = incident[i].notified /\ row.resolvedAt = now /\ now # Never
  <2>1. PICK old \in IncidentRows, t \in Times : old = incident[i] /\ t = now
    BY <1>2
  <2>2. \A new \in {Resolved(old, t), ResolvedBackfilled(old, t)} :
           /\ new \in IncidentRows /\ new.count = old.count /\ new.status = "RESOLVED" /\ new.key = old.key
           /\ new.notified = old.notified /\ new.resolvedAt = t
    BY RowEffects
  <2>3. now # Never
    BY <1>2, HeldTypes
  <2> QED  BY <1>1, <2>1, <2>2, <2>3
<1>4. From(h, {"resolve"}) /\ From(h, {"occur", "create", "resolve"}) /\ "RESOLVED" \in Events
  BY <1>1 DEF From, At, Events
<1> HIDE DEF i
<1>5. held'[h].incident = i /\ held'[h].notified = row.notified /\ (At(h, "event")' => held'[h].event = "RESOLVED")
  BY <1>1, <1>2, <1>3, <1>4, Writing
<1>6. Wrote(h, i, row, "RESOLVED")
  BY <1>1, <1>2, <1>3, <1>4, <1>5 DEF Wrote, Writes, alertVars, timeVars
<1> QED  BY <1>1, <1>2, <1>3, <1>4, <1>6 DEF Refers, i

\* The index refuses the row, or there is no other open one.
LEMMA IncidentCreated ==
    ASSUME PlaceInv, TablesInv, NEW h \in Calls, CreateIncident(h)
    PROVE  \/ /\ Continues(h, {"create"}, {"fail"}) /\ UNCHANGED opsVars
              /\ call[h].op \in {"report", "probe"}
           \/ \E row : /\ Wrote(h, h, row, "OPENED") /\ ~Exists(h) /\ Writes(h, h, row, "OPENED") /\ From(h, {"create"})
                       /\ row.count = 1 /\ row.status \in {"OPEN", "RESOLVED"} /\ row.notified = Never
                       /\ row.status = "RESOLVED" => row.resolvedAt # Never
                       /\ \A j \in Ids : IsOpen(row) /\ IsOpen(incident[j]) => incident[j].key # row.key
                       /\ Detected(h) \/ Backfill(h)
<1>1. PICK row \in {NewIncident(Sought(h), now), Backfilled(Sought(h), 0, Never), Backfilled(Sought(h), 0, now)} :
        /\ At(h, "create")
        /\ IF IsOpen(row) /\ OpenFor(incident, Sought(h)) # {}
           THEN /\ IF call[h].op = "probe" THEN Answer(h, "ERROR") ELSE Throws(h, "ERROR", TRUE)
                /\ UNCHANGED <<opsVars, idem>>
           ELSE Writes(h, h, row, "OPENED")
  BY DEF CreateIncident
<1>2. /\ call[h].at \in Monitoring /\ Active(h) /\ Sought(h) \in DedupKeys /\ now \in Times /\ Refers(h) /\ h \in Ids
      /\ call[h].op \in {"report", "probe"}
      /\ Detected(h) \/ Backfill(h)
  BY <1>1, Served, SoughtTyped, ReferencesKept DEF At, Monitoring, PlaceInv, HeldOk
<1>3. /\ row \in IncidentRows /\ row.key = Sought(h) /\ row.count = 1 /\ row.notified = Never
      /\ row.status \in {"OPEN", "RESOLVED"} /\ (row.status = "RESOLVED" => row.resolvedAt # Never)
  BY <1>1, <1>2, NewRows
<1>4. From(h, {"create"}) /\ From(h, {"occur", "create", "resolve"}) /\ "OPENED" \in Events /\ ~Exists(h)
  BY <1>1, <1>2 DEF From, At, Events, Refers, Unborn
<1>5. CASE IsOpen(row) /\ OpenFor(incident, Sought(h)) # {}
  <2>1. UNCHANGED <<opsVars, idem>>
    BY <1>1, <1>5
  <2>2. UNCHANGED <<idem, now, past, failed, held, delivery>>
    BY <2>1 DEF opsVars, timeVars, alertVars
  <2>3. /\ CallsTypeOK(Ops, Bodies, {}, Places)' /\ OthersStay(h)
        /\ (At(h, "done")' /\ call[h].op = "probe") \/ (SameRequest(h) /\ call'[h].at = "fail")
    <3>1. CASE call[h].op = "probe"
      BY <1>1, <1>5, <2>2, <3>1, Answering DEF At
    <3>2. CASE call[h].op # "probe"
      BY <1>1, <1>5, <2>2, <3>2, Throwing
    <3> QED  BY <3>1, <3>2
  <2>4. held' \in [Calls -> HeldRows] /\ OthersHold(h) /\ failed' \subseteq Calls
    BY <2>2, NothingHeldAnew DEF PlaceInv
  <2>5. PlaceInv'
    <3>1. HeldOk(h)' \/ At(h, "done")'
      BY <2>3 DEF HeldOk, At, Monitoring
    <3> QED  BY <1>2, <2>2, <2>3, <2>4, <3>1, PlaceMove DEF At, Monitoring
  <2> QED  BY <1>2, <1>4, <2>1, <2>2, <2>3, <2>4, <2>5 DEF Continues, Steps
<1>6. CASE ~(IsOpen(row) /\ OpenFor(incident, Sought(h)) # {})
  <2>1. Writes(h, h, row, "OPENED")
    BY <1>1, <1>6
  <2>2. held'[h].incident = h /\ held'[h].notified = row.notified /\ (At(h, "event")' => held'[h].event = "OPENED")
    BY <1>2, <1>3, <1>4, <2>1, Writing
  <2>3. Wrote(h, h, row, "OPENED")
    BY <1>2, <1>3, <1>4, <2>1, <2>2 DEF Wrote, Writes, alertVars, timeVars
  <2>4. \A j \in Ids : IsOpen(row) /\ IsOpen(incident[j]) => incident[j].key # row.key
    BY <1>3, <1>6, ReferencesKept DEF OpenFor
  <2> QED  BY <1>2, <1>3, <1>4, <2>1, <2>3, <2>4
<1> QED  BY <1>5, <1>6

\* A call that writes an incident has no other, and refers to that one from then on.
LEMMA TablesWrote ==
    ASSUME PlaceInv, TablesInv, NEW h \in Calls, NEW i, NEW row, NEW event, Wrote(h, i, row, event), Writes(h, i, row, event),
           From(h, {"occur", "create", "resolve"}), Exists(i) \/ (i = h /\ From(h, {"create"}) /\ ~Exists(h)),
           row.status # "ABSENT", row.status = "RESOLVED" => row.resolvedAt # Never,
           IsOpen(row) => \/ IsOpen(incident[i]) /\ incident[i].key = row.key
                          \/ \A j \in Ids : IsOpen(incident[j]) => incident[j].key # row.key,
           row.status = "OPEN" => incident[i].status \in {"OPEN", "ABSENT"}
    PROVE  TablesInv'
<1>1. /\ i \in Ids /\ row \in IncidentRows /\ event \in Events /\ incident' = [incident EXCEPT ![i] = row]
      /\ UNCHANGED <<log, config, delivery>>
  BY DEF Wrote
<1>2. /\ PlaceInv' /\ OthersHold(h) /\ OthersStay(h) /\ held'[h].incident = i
      /\ At(h, "done")' \/ (SameRequest(h) /\ call'[h].at \in {"event", "complete", "health"})
      /\ held'[h].service = held[h].service /\ held'[h].critical = held[h].critical /\ call[h].op \in {"report", "probe"}
      /\ At(h, "health")' => held[h].service = "API"
  BY <1>1, Writing DEF Steps
<1>3. /\ Refers(h) /\ config \in ConfigRows /\ delivery \in Deliveries /\ incident \in [Ids -> IncidentRows]
      /\ Active(h) /\ HeldOk(h) /\ CallOk(h)
  BY ReferencesKept DEF From, Active, PlaceInv
<1>4. /\ incident' \in [Ids -> IncidentRows] /\ incident'[i] = row /\ \A j \in Ids \ {i} : incident'[j] = incident[j]
  BY <1>1, <1>3
<1>5. RowStep(h, i)
  BY <1>1, <1>3, <1>4 DEF RowStep, Exists
<1>6. \A j \in Ids : Exists(j) => Exists(j)'
  BY <1>1, <1>4 DEF Exists
<1>7. Refers(h)'
  <2>1. Unborn(h)' => ~Exists(h)'
    <3> SUFFICES ASSUME Unborn(h)'
                 PROVE  ~Exists(h)'
      OBVIOUS
    <3>1. Active(h)' /\ SameRequest(h) /\ call[h].op = "probe" /\ held[h].service = "API"
      BY <1>2, <1>3 DEF Unborn, Active, At, PlaceInv, CallOk, SameRequest
    <3>2. ~From(h, {"create"})
      <4>1. ~held[h].critical \/ ~From(h, {"create"})
        BY <1>3, <3>1 DEF HeldOk, From, Monitoring
      <4> QED  BY <1>3, <3>1, <4>1 DEF HeldOk, From, Detected, Backfill, At
    <3>3. Unborn(h)
      BY <1>3, <3>1 DEF Unborn
    <3>4. ~Exists(h) /\ i # h
      BY <1>3, <3>2, <3>3 DEF Refers
    <3> QED  BY <1>4, <3>4 DEF Exists
  <2>2. held'[h].incident # Null => Exists(held[h].incident)'
    BY <1>1, <1>2, <1>4 DEF Exists
  <2>3. ~(call'[h].op = "acknowledge" /\ Active(h)')
    BY <1>2 DEF Active, At, SameRequest
  <2>4. Told(h)' => Exists(delivery[h].incident)'
    BY <1>1, <1>3, <1>6 DEF Refers, Told, Exists
  <2> QED  BY <2>1, <2>2, <2>3, <2>4 DEF Refers
<1> QED  BY <1>1, <1>2, <1>3, <1>4, <1>5, <1>7, TablesStep

\* The statements that insert an incident, count an occurrence or resolve.
LEMMA TablesWrites ==
    ASSUME PlaceInv, TablesInv, NEW h \in Calls, RecordOccurrence(h) \/ CreateIncident(h) \/ ResolveIncident(h)
    PROVE  PlaceInv' /\ TablesInv'
<1>1. CASE RecordOccurrence(h)
  <2>1. PICK i, row : /\ Wrote(h, i, row, "OCCURRENCE") /\ Exists(i) /\ Writes(h, i, row, "OCCURRENCE") /\ From(h, {"occur"})
                      /\ row.status = incident[i].status /\ row.key = incident[i].key
                      /\ row.resolvedAt = incident[i].resolvedAt
    BY <1>1, OccurrenceRecorded
  <2>2. From(h, {"occur", "create", "resolve"}) /\ row.status # "ABSENT" /\ (row.status = "RESOLVED" => row.resolvedAt # Never)
    BY <2>1 DEF From, Exists, TablesInv
  <2>3. IsOpen(row) => IsOpen(incident[i])
    BY <2>1 DEF IsOpen
  <2>4. TablesInv'
    BY <2>1, <2>2, <2>3, TablesWrote
  <2> QED  BY <2>1, <2>2, <2>4, Writing DEF Wrote
<1>2. CASE ResolveIncident(h)
  <2>1. PICK i, row : /\ Wrote(h, i, row, "RESOLVED") /\ Exists(i) /\ Writes(h, i, row, "RESOLVED") /\ From(h, {"resolve"})
                      /\ row.status = "RESOLVED" /\ row.resolvedAt # Never
    BY <1>2, IncidentResolved
  <2>2. From(h, {"occur", "create", "resolve"}) /\ ~IsOpen(row)
    BY <2>1 DEF From, IsOpen
  <2>3. TablesInv'
    BY <2>1, <2>2, TablesWrote
  <2> QED  BY <2>1, <2>2, <2>3, Writing DEF Wrote
<1>3. ASSUME NEW row, Wrote(h, h, row, "OPENED"), ~Exists(h), Writes(h, h, row, "OPENED"), From(h, {"create"}),
             row.status \in {"OPEN", "RESOLVED"}, row.status = "RESOLVED" => row.resolvedAt # Never,
             \A j \in Ids : IsOpen(row) /\ IsOpen(incident[j]) => incident[j].key # row.key
      PROVE  PlaceInv' /\ TablesInv'
  <2>1. From(h, {"occur", "create", "resolve"}) /\ row.status # "ABSENT" /\ h \in Ids /\ incident[h].status = "ABSENT"
    BY <1>3 DEF From, Exists, Ids
  <2>2. TablesInv'
    BY <1>3, <2>1, TablesWrote
  <2> QED  BY <1>3, <2>1, <2>2, Writing DEF Wrote
<1>4. CASE Continues(h, {"create"}, {"fail"}) /\ UNCHANGED opsVars /\ call[h].op \in {"report", "probe"}
  <2>1. UNCHANGED <<incident, log, config, delivery, held>>
    BY <1>4 DEF opsVars, incidentVars, alertVars
  <2>2. Refers(h) /\ config \in ConfigRows /\ delivery \in Deliveries
    BY ReferencesKept
  <2>3. ~(call'[h].op = "acknowledge" /\ Active(h)') /\ ~Exists(h)
    BY <1>4, <2>2 DEF Continues, Steps, Active, At, SameRequest, From, Unborn, Refers
  <2>4. TablesInv'
    BY <1>4, <2>1, <2>2, <2>3, TablesQuiet DEF Continues, Steps, Refers, Told
  <2> QED  BY <1>4, <2>4 DEF Continues
<1>5. CASE CreateIncident(h)
  BY <1>3, <1>4, <1>5, IncidentCreated
<1> QED  BY <1>1, <1>2, <1>5

\* The statements that log, note, acknowledge and configure.
LEMMA TablesRecords ==
    ASSUME PlaceInv, TablesInv, NEW h \in Calls,
           RecordEvent(h) \/ RecordNotified(h) \/ AcknowledgeIncident(h) \/ UpsertConfiguration(h)
    PROVE  TablesInv'
<1>1. /\ Refers(h) /\ config \in ConfigRows /\ delivery \in Deliveries /\ incident \in [Ids -> IncidentRows] /\ h \in Ids
      /\ Null \notin Ids
  BY ReferencesKept, OperationsAssumption
<1>2. CASE RecordEvent(h)
  <2>1. /\ Continues(h, {"event"}, {"config"}) /\ SameRequest(h) /\ At(h, "config")' /\ held[h].incident \in Ids
        /\ held[h].event \in Events /\ log' = log \union {<<held[h].incident, held[h].event, h>>}
        /\ UNCHANGED <<incident, wrote, config, delivery>>
    BY <1>2, EventRecorded
  <2>2. call[h].op \in {"report", "probe"} /\ Active(h)
    BY <2>1, Served DEF Continues, From, Monitoring
  <2>3. PICK e : e = <<held[h].incident, held[h].event, h>>
    OBVIOUS
  <2>4. e \in LogRows /\ e[1] = held[h].incident /\ e[2] = held[h].event
    BY <2>1, <2>3 DEF LogRows, Events
  <2>5. Logs(e)
    BY <1>1, <2>1, <2>3, <2>4 DEF Logs, Refers, Exists, Events
  <2>6. Refers(h)'
    BY <1>1, <2>1, <2>2 DEF Refers, Exists, Told, Unborn, Continues, SameRequest, Active, At
  <2> QED  BY <1>1, <2>1, <2>5, <2>6, TablesStep DEF Continues, Steps
<1>3. CASE RecordNotified(h)
  <2>0. PICK i : i = held[h].incident
    OBVIOUS
  <2>1. /\ Continues(h, {"notified"}, {"complete", "health"}) /\ i \in Ids
        /\ UNCHANGED <<log, config, delivery>> /\ (At(h, "health")' => held[h].service = "API")
        /\ incident' = [incident EXCEPT ![i] = Notified(@, now)]
    BY <1>3, <2>0, NotificationRecorded
  <2>2. call[h].op \in {"report", "probe"} /\ Active(h) /\ now \in Times
    BY <2>1, Served DEF Continues, From, Monitoring, PlaceInv
  <2>3. PICK row : row = Notified(incident[i], now)
    OBVIOUS
  <2>4. /\ row \in IncidentRows /\ row.status = incident[i].status /\ row.key = incident[i].key
        /\ row.resolvedAt = incident[i].resolvedAt
    BY <1>1, <2>1, <2>2, <2>3, RowEffects
  <2>5. incident' \in [Ids -> IncidentRows] /\ incident'[i] = row /\ \A j \in Ids \ {i} : incident'[j] = incident[j]
    BY <1>1, <2>1, <2>3, <2>4
  <2>6. RowStep(h, i)
    <3>1. Exists(i)
      BY <1>1, <2>0, <2>1 DEF Refers
    <3>2. incident[i].status = "RESOLVED" => incident[i].resolvedAt # Never
      BY <2>1 DEF TablesInv
    <3> QED  BY <2>1, <2>4, <2>5, <3>1, <3>2 DEF RowStep, Exists, IsOpen
  <2>7. \A j : Exists(j)' = Exists(j)
    BY <2>4, <2>5 DEF Exists
  <2>8. PlaceInv' /\ (At(h, "health")' => call'[h].op = "probe")
    BY <2>1 DEF Continues, PlaceInv, CallOk, Active, At
  <2>9. Unborn(h)' => Unborn(h)
    BY <2>1, <2>2, <2>8 DEF Continues, Steps, Unborn, Active, At, SameRequest
  <2>10. ~(call'[h].op = "acknowledge" /\ Active(h)')
    BY <2>1, <2>2 DEF Continues, Steps, Active, At, SameRequest
  <2>11. Refers(h)'
    BY <1>1, <2>1, <2>7, <2>9, <2>10 DEF Refers, Told, Continues
  <2> QED  BY <1>1, <2>1, <2>5, <2>6, <2>11, TablesStep DEF Continues, Steps
<1>4. CASE AcknowledgeIncident(h)
  <2>0. PICK i : i = call[h].arg.incident
    OBVIOUS
  <2>1. /\ Continues(h, {"upsert"}, {"complete", "fail"}) /\ UNCHANGED <<config, delivery>>
        /\ call[h].op = "acknowledge" /\ i \in Ids
        /\ \/ UNCHANGED <<incident, log>>
           \/ /\ incident' = [incident EXCEPT ![i] = Acknowledged(@)]
              /\ log' = log \union {<<i, "ACKNOWLEDGED", h>>} /\ Acknowledged(incident[i]) # incident[i]
    BY <1>4, <2>0, Acknowledging
  <2>2. Active(h) /\ Exists(i)
    BY <1>1, <2>0, <2>1 DEF Continues, From, Active, Refers
  <2>3. /\ call'[h].op = "acknowledge" /\ Active(h)' => call'[h].arg.incident = i
        /\ ~Unborn(h)'
    BY <2>0, <2>1, <2>2 DEF Continues, Steps, Active, At, SameRequest, Unborn
  <2>4. CASE UNCHANGED <<incident, log>>
    BY <1>1, <2>1, <2>2, <2>3, <2>4, TablesQuiet DEF Continues, Steps, Refers, Told
  <2>5. CASE /\ incident' = [incident EXCEPT ![i] = Acknowledged(@)]
             /\ log' = log \union {<<i, "ACKNOWLEDGED", h>>} /\ Acknowledged(incident[i]) # incident[i]
    <3>1. PICK row : row = Acknowledged(incident[i])
      OBVIOUS
    <3>2. /\ row \in IncidentRows /\ incident[i].status = "OPEN" /\ row.status = "ACKNOWLEDGED" /\ row.key = incident[i].key
      <4>1. 0 \in Times
        BY HeldTypes
      <4> QED  BY <1>1, <2>1, <2>5, <3>1, <4>1, RowEffects
    <3>3. incident' \in [Ids -> IncidentRows] /\ incident'[i] = row /\ \A j \in Ids \ {i} : incident'[j] = incident[j]
      BY <1>1, <2>1, <2>5, <3>1, <3>2
    <3>4. RowStep(h, i)
      <4>1. Exists(i)' /\ incident'[i].status # "RESOLVED" /\ incident'[i].status # "OPEN"
        BY <2>1, <3>2, <3>3 DEF Exists
      <4>2. IsOpen(incident[i]) /\ incident[i].key = incident'[i].key
        BY <3>2, <3>3 DEF IsOpen
      <4> QED  BY <2>2, <4>1, <4>2 DEF RowStep
    <3>5. \A j \in Ids : Exists(j) => Exists(j)'
      BY <2>1, <3>2, <3>3 DEF Exists
    <3>6. PICK e : e = <<i, "ACKNOWLEDGED", h>>
      OBVIOUS
    <3>7. e \in LogRows /\ e[1] = i
      BY <2>1, <3>6 DEF LogRows
    <3>8. Logs(e)
      <4>1. \A d \in log : d[1] = i => d[2] # "ACKNOWLEDGED"
        BY <3>2 DEF TablesInv
      <4> QED  BY <2>1, <2>5, <3>2, <3>3, <3>6, <3>7, <4>1 DEF Logs, Exists
    <3>9. Refers(h)'
      <4>1. call'[h].op = "acknowledge" /\ Active(h)' => Exists(i)'
        BY <2>1, <2>2, <2>3, <3>5
      <4>2. held'[h].incident # Null => Exists(held[h].incident)'
        BY <1>1, <2>1, <3>5 DEF Refers, Exists, Continues
      <4>3. Told(h)' => Exists(delivery[h].incident)'
        BY <1>1, <2>1, <3>5 DEF Refers, Exists, Told
      <4> QED  BY <2>3, <4>1, <4>2, <4>3 DEF Refers
    <3> QED  BY <1>1, <2>1, <3>3, <3>4, <3>8, <3>9, TablesStep DEF Continues, Steps
  <2> QED  BY <2>1, <2>4, <2>5
<1>5. CASE UpsertConfiguration(h)
  <2>1. /\ Continues(h, {"upsert"}, {"complete"}) /\ UNCHANGED <<incident, log, wrote, delivery>>
        /\ call[h].op = "configure" /\ config' \in ConfigRows
    BY <1>5, ConfigurationWritten
  <2>2. ~(call'[h].op = "acknowledge" /\ Active(h)') /\ ~Unborn(h)'
    BY <2>1 DEF Continues, Steps, Active, At, SameRequest, Unborn
  <2> QED  BY <1>1, <2>1, <2>2, TablesQuiet DEF Continues, Steps, Refers, Told
<1> QED  BY <1>2, <1>3, <1>4, <1>5

-----------------------------------------------------------------------------
(* The steps that are no call's, and all steps together *)

Beside ==
    \/ RetryWindowEnds /\ UNCHANGED opsVars
    \/ ProvisionChannel \/ DemoteKey \/ InsertKey \/ PurgeNonces
    \/ \E a \in DOMAIN presence : PostHeartbeat(a)
    \/ Tick
    \/ UNCHANGED operationVars

\* What no request does: provisioning, rotation, purging, heartbeats and the clock.
LEMMA BesideEffect ==
    ASSUME PlaceInv, TablesInv, Beside
    PROVE  /\ PlaceInv' /\ TablesInv' /\ UNCHANGED <<call, held, incident, log, delivery, wrote, past, failed, accepted, offered>>
           /\ config' \in ConfigRows /\ config'.cooldown = config.cooldown /\ (config.credential => config'.credential)
           /\ now' \in Times /\ now' >= now /\ (now' = now \/ nonces' = nonces)
<1>1. CallsTypeOK(Ops, Bodies, {}, Places)' /\ call' = call
  <2> DEFINE Typed == CallsTypeOK(Ops, Bodies, {}, Places)
  <2>1. Typed
    BY DEF PlaceInv
  <2>2. CASE RetryWindowEnds
    <3> HIDE DEF Typed
    <3> QED  BY <2>1, <2>2, RetryWindowEffect DEF Typed
  <2>3. CASE UNCHANGED callVars
    BY <2>1, <2>3 DEF callVars, CallsTypeOK
  <2> QED  BY <2>2, <2>3 DEF Beside, ProvisionChannel, DemoteKey, InsertKey, PurgeNonces, PostHeartbeat, Tick, operationVars
<1>2. /\ UNCHANGED <<held, incident, log, delivery, wrote, past, failed, accepted, offered>>
      /\ \/ config' = config
         \/ config' = Provisioned(config)
      /\ \/ now' = now
         \/ now < MaxNow /\ now' = now + 1 /\ nonces' = nonces
  BY DEF Beside, ProvisionChannel, DemoteKey, InsertKey, PurgeNonces, PostHeartbeat, Tick, operationVars,
         opsVars, timeVars, alertVars, incidentVars, authVars, hostVars
<1>3. config' \in ConfigRows /\ config'.cooldown = config.cooldown /\ (config.credential => config'.credential)
  BY <1>2 DEF TablesInv, ConfigRows, Provisioned
<1>4. now' \in Times /\ now' >= now
  BY <1>2, HeldTypes DEF PlaceInv, Times
<1>5. PlaceInv'
  <2>1. \A h \in Calls : CallOk(h)' /\ HeldOk(h)'
    <3> SUFFICES ASSUME NEW h \in Calls
                 PROVE  CallOk(h)' /\ HeldOk(h)'
      OBVIOUS
    <3>1. CallOk(h) /\ HeldOk(h)
      BY DEF PlaceInv
    <3>2. CallOk(h)'
      BY <1>1, <3>1 DEF CallOk, Active, At
    <3>3. HeldOk(h)'
      BY <1>1, <1>2, <3>1 DEF HeldOk, At, Detected, Backfill
    <3> QED  BY <3>2, <3>3
  <2>2. \A h \in Calls : \A g \in past'[h] : At(g, "done")'
    BY <1>1, <1>2 DEF PlaceInv, At
  <2> QED  BY <1>1, <1>2, <1>4, <2>1, <2>2 DEF PlaceInv
<1>6. TablesInv'
  <2>1. /\ \A i : Exists(i)' = Exists(i)
        /\ \A h : Unborn(h)' = Unborn(h) /\ Told(h)' = Told(h) /\ Active(h)' = Active(h)
    BY <1>1, <1>2 DEF Exists, Unborn, Told, Active
  <2>2. OneAcknowledgement' = OneAcknowledgement
    BY <1>2 DEF OneAcknowledgement
  <2> HIDE DEF Exists, Unborn, Told, Active, OneAcknowledgement
  <2> QED  BY <1>1, <1>2, <1>3, <2>1, <2>2 DEF TablesInv
<1> QED  BY <1>1, <1>2, <1>3, <1>4, <1>5, <1>6

Calling(h) == (\E key \in Keys : Routes(h, key)) \/ RunProbe(h) \/ Services(h) \/ Fault(h)

\* A step is one of a call or of what is beside the calls.
LEMMA NextSplits == [OpsNext]_operationVars <=> (\E h \in Calls : Calling(h)) \/ Beside
BY DEF OpsNext, Calling, Beside

\* Every step keeps every call where it can be and every reference good.
LEMMA PlaceTables ==
    ASSUME PlaceInv, TablesInv, [OpsNext]_operationVars
    PROVE  PlaceInv' /\ TablesInv'
<1>1. CASE Beside
  BY <1>1, BesideEffect
<1>2. ASSUME NEW h \in Calls, Calling(h)
      PROVE  PlaceInv' /\ TablesInv'
  <2>1. CASE (\E key \in Keys : Routes(h, key)) \/ RunProbe(h)
    BY <2>1, Arrival, TablesCalls
  <2>2. CASE BeginReport(h) \/ BeginAcknowledge(h) \/ BeginConfigure(h) \/ BeginTest(h)
    BY <2>2, Starting, TablesCalls
  <2>3. CASE RecordHealth(h) \/ FindIncident(h) \/ ReadConfiguration(h) \/ ReadOpenIncident(h) \/ ReadChannel(h)
    BY <2>3, HealthRecorded, Finding, ConfigurationRead, OpenIncidentRead, ChannelRead, TablesCalls DEF Continues
  <2>4. CASE RecordOccurrence(h) \/ CreateIncident(h) \/ ResolveIncident(h)
    BY <2>4, TablesWrites
  <2>5. CASE RecordEvent(h) \/ RecordNotified(h) \/ AcknowledgeIncident(h) \/ UpsertConfiguration(h)
    BY <2>5, EventRecorded, NotificationRecorded, Acknowledging, ConfigurationWritten, TablesRecords DEF Continues
  <2>6. CASE CreateDelivery(h) \/ CreateTest(h) \/ SendMessage(h)
    BY <2>6, DeliveryCreated, TestCreated, MessageSent, TablesDeliveries DEF Continues
  <2>7. CASE SettleReport(h) \/ SettleAcknowledge(h) \/ SettleConfigure(h) \/ SettleTest(h)
    BY <2>7, Settling, TablesCalls
  <2>8. CASE Fault(h)
    BY <2>8, Failing, TablesCalls
  <2> QED  BY <1>2, <2>1, <2>2, <2>3, <2>4, <2>5, <2>6, <2>7, <2>8 DEF Calling, Services
<1> QED  BY <1>1, <1>2, NextSplits

-----------------------------------------------------------------------------
(* The host: health, presence and the keys *)

\* What the step of a call leaves alone.
LEMMA CallsLeave ==
    ASSUME PlaceInv, NEW h \in Calls, Calling(h)
    PROVE  /\ UNCHANGED <<presence, beat, keyStatus, now, offered>>
           /\ health' = health \/ RecordHealth(h)
           /\ UNCHANGED <<nonces, accepted>> \/ At(h, "idle")
<1>1. CASE (\E key \in Keys : Routes(h, key)) \/ RunProbe(h)
  <2>1. PlaceInv' /\ Joins(h)
    BY <1>1, Arrival
  <2>2. offered' = offered
    BY <1>1 DEF Routes, RunProbe, PostMonitorReport, PostAcknowledge, PutAlertConfiguration, PostAlertTest, Asks, Arrives
  <2> QED  BY <2>1, <2>2 DEF Joins, hostVars
<1>2. CASE BeginReport(h) \/ BeginAcknowledge(h) \/ BeginConfigure(h) \/ BeginTest(h)
  BY <1>2 DEF BeginReport, BeginAcknowledge, BeginConfigure, BeginTest, opsVars, hostVars, authVars, timeVars
<1>3. CASE RecordHealth(h) \/ FindIncident(h) \/ ReadConfiguration(h) \/ ReadOpenIncident(h) \/ ReadChannel(h)
  BY <1>3 DEF RecordHealth, FindIncident, ReadConfiguration, ReadOpenIncident, ReadChannel, opsVars, hostVars, authVars, timeVars
<1>4. CASE RecordOccurrence(h) \/ CreateIncident(h) \/ ResolveIncident(h)
  BY <1>4 DEF RecordOccurrence, CreateIncident, ResolveIncident, Writes, opsVars, hostVars, authVars, timeVars
<1>5. CASE RecordEvent(h) \/ RecordNotified(h) \/ AcknowledgeIncident(h) \/ UpsertConfiguration(h)
  BY <1>5 DEF RecordEvent, RecordNotified, AcknowledgeIncident, UpsertConfiguration, opsVars, hostVars, authVars, timeVars
<1>6. CASE CreateDelivery(h) \/ CreateTest(h) \/ SendMessage(h)
  BY <1>6 DEF CreateDelivery, CreateTest, SendMessage, hostVars, authVars, timeVars
<1>7. CASE SettleReport(h) \/ SettleAcknowledge(h) \/ SettleConfigure(h) \/ SettleTest(h)
  BY <1>7 DEF SettleReport, SettleAcknowledge, SettleConfigure, SettleTest, opsVars, hostVars, authVars, timeVars
<1>8. CASE Fault(h)
  BY <1>8 DEF Fault, opsVars, hostVars, authVars, timeVars
<1> QED  BY <1>1, <1>2, <1>3, <1>4, <1>5, <1>6, <1>7, <1>8 DEF Calling, Services

\* Every step keeps the rows of the host.
LEMMA HostStep ==
    ASSUME PlaceInv, TablesInv, HostInv, [OpsNext]_operationVars
    PROVE  HostInv'
<1>0. now \in Times /\ now \in Nat /\ CoalesceWindow \in Nat
  BY OperationsAssumption, HeldTypes DEF PlaceInv
<1>1. ASSUME UNCHANGED <<presence, beat, keyStatus>>, now' \in Times, now' >= now,
             DOMAIN health' \subseteq CriticalServices /\ \A s \in DOMAIN health' : health'[s] \in HealthRows
      PROVE  HostInv'
  <2>1. ASSUME NEW a \in DOMAIN presence', presence'[a] # Never
        PROVE  presence'[a] <= now'
    <3>1. presence[a] \in Nat /\ presence[a] <= now /\ now' \in Nat
      BY <1>1, <2>1, HeldTypes DEF HostInv
    <3> QED  BY <1>0, <1>1, <3>1
  <2> QED  BY <1>0, <1>1, <2>1, HeldTypes DEF HostInv
<1>2. ASSUME NEW h \in Calls, Calling(h)
      PROVE  HostInv'
  <2>1. UNCHANGED <<presence, beat, keyStatus, now>> /\ (health' = health \/ RecordHealth(h))
    BY <1>2, CallsLeave
  <2>2. ASSUME RecordHealth(h)
        PROVE  DOMAIN health' \subseteq CriticalServices /\ \A s \in DOMAIN health' : health'[s] \in HealthRows
    <3>1. PICK s \in {"API", "POSTGRES"}, state \in {"HEALTHY", "CRITICAL"} :
            health' = [t \in DOMAIN health \union {s} |-> IF t = s THEN [state |-> state, at |-> now] ELSE health[t]]
      BY <2>2 DEF RecordHealth
    <3>2. [state |-> state, at |-> now] \in HealthRows
      BY <1>0 DEF HealthRows
    <3> QED  BY <3>1, <3>2 DEF HostInv, CriticalServices
  <2> QED  BY <1>0, <1>1, <2>1, <2>2 DEF HostInv
<1>3. CASE Beside
  <2>1. now' \in Times /\ now' >= now
    BY <1>3, BesideEffect
  <2>2. CASE DemoteKey \/ InsertKey
    <3>1. UNCHANGED <<health, presence, beat, now>>
      BY <2>2 DEF DemoteKey, InsertKey, hostVars, timeVars
    <3>2. /\ DOMAIN keyStatus' \subseteq KeyIds
          /\ \A k \in DOMAIN keyStatus' : keyStatus'[k] \in {"ABSENT", "CURRENT", "PREVIOUS"}
          /\ \A j, k \in DOMAIN keyStatus' : keyStatus'[j] = "CURRENT" /\ keyStatus'[k] = "CURRENT" => j = k
      BY <2>2 DEF DemoteKey, InsertKey, HostInv
    <3> QED  BY <3>1, <3>2 DEF HostInv
  <2>3. ASSUME NEW a \in DOMAIN presence, PostHeartbeat(a)
        PROVE  HostInv'
    <3>1. /\ UNCHANGED <<health, keyStatus, now>>
          /\ presence' = [presence EXCEPT ![a] = Heartbeat(@, now, CoalesceWindow)]
          /\ beat' = [beat EXCEPT ![a] = now]
      BY <2>3 DEF PostHeartbeat, authVars, timeVars
    <3>2. /\ DOMAIN presence' = DOMAIN presence /\ DOMAIN beat' = DOMAIN beat /\ beat'[a] = now
          /\ presence'[a] = Heartbeat(presence[a], now, CoalesceWindow)
          /\ \A b \in DOMAIN presence \ {a} : presence'[b] = presence[b] /\ beat'[b] = beat[b]
      BY <3>1 DEF HostInv
    <3>3. /\ presence'[a] \in Times /\ presence'[a] # Never /\ beat'[a] <= presence'[a] + CoalesceWindow
          /\ presence'[a] <= now
      <4>1. presence[a] \in Times \union {Never} /\ now # Never
        BY <1>0, HeldTypes DEF HostInv
      <4>3. CASE presence[a] = Never \/ now - presence[a] > CoalesceWindow
        BY <1>0, <3>2, <4>1, <4>3, HeldTypes DEF Heartbeat
      <4>4. CASE presence[a] # Never /\ ~(now - presence[a] > CoalesceWindow)
        <5>1. presence[a] \in Nat /\ presence'[a] = presence[a] /\ presence[a] \in Times
          BY <3>2, <4>1, <4>4, HeldTypes DEF Heartbeat
        <5>2. presence[a] <= now
          BY <4>4 DEF HostInv
        <5> QED  BY <1>0, <3>2, <4>4, <5>1, <5>2, HeldTypes
      <4> QED  BY <4>3, <4>4
    <3>4. \A b \in DOMAIN presence' : /\ presence'[b] \in Times \union {Never} /\ beat'[b] \in Times \union {Never}
                                      /\ presence'[b] # Never => presence'[b] <= now
                                      /\ beat'[b] # Never => presence'[b] # Never /\ beat'[b] <= presence'[b] + CoalesceWindow
      BY <1>0, <3>2, <3>3 DEF HostInv
    <3> QED  BY <3>1, <3>2, <3>4 DEF HostInv
  <2>4. CASE UNCHANGED <<health, presence, beat, keyStatus>>
    BY <1>1, <2>1, <2>4 DEF HostInv
  <2> QED  BY <1>3, <2>2, <2>3, <2>4 DEF Beside, ProvisionChannel, PurgeNonces, Tick, operationVars, opsVars, hostVars, authVars
<1> QED  BY <1>2, <1>3, NextSplits

-----------------------------------------------------------------------------
(* The observations *)

\* The statements between begin() and the end of a call.
Works(h) ==
    \/ RecordHealth(h) \/ FindIncident(h) \/ ReadConfiguration(h) \/ ReadOpenIncident(h) \/ ReadChannel(h)
    \/ RecordOccurrence(h) \/ CreateIncident(h) \/ ResolveIncident(h)
    \/ RecordEvent(h) \/ RecordNotified(h) \/ AcknowledgeIncident(h) \/ UpsertConfiguration(h)
    \/ CreateDelivery(h) \/ CreateTest(h) \/ SendMessage(h)

Starts(h) == BeginReport(h) \/ BeginAcknowledge(h) \/ BeginConfigure(h) \/ BeginTest(h)
Settles(h) == SettleReport(h) \/ SettleAcknowledge(h) \/ SettleConfigure(h) \/ SettleTest(h)

\* The steps of a call: it arrives, starts, works, settles or fails.
LEMMA CallingSplits ==
    ASSUME NEW h \in Calls
    PROVE  Calling(h) <=> (\E key \in Keys : Routes(h, key)) \/ RunProbe(h) \/ Starts(h) \/ Works(h) \/ Settles(h) \/ Fault(h)
BY DEF Calling, Services, Starts, Works, Settles

\* What the statements between begin() and the record have in common.
LEMMA Working ==
    ASSUME PlaceInv, TablesInv, NEW h \in Calls, Works(h)
    PROVE  /\ PlaceInv' /\ OthersHold(h) /\ OthersStay(h) /\ Active(h) /\ ~At(h, "begin") /\ CallOk(h) /\ HeldOk(h)
           /\ UNCHANGED <<idem, now, past, failed>>
           /\ \/ At(h, "done")' /\ call[h].op = "probe"
              \/ SameRequest(h) /\ call'[h].at \notin {"idle", "begin", "done"}
           /\ \/ wrote' = wrote
              \/ wrote' = wrote \union {<<h, call[h].key>>} /\ call[h].op \in {"report", "probe"}
<1> DEFINE Goes == /\ PlaceInv' /\ OthersHold(h) /\ OthersStay(h) /\ Active(h) /\ ~At(h, "begin")
                   /\ UNCHANGED <<idem, now, past, failed>>
                   /\ \/ At(h, "done")' /\ call[h].op = "probe"
                      \/ SameRequest(h) /\ call'[h].at \notin {"idle", "begin", "done"}
           Quiet == wrote' = wrote
<1>0. CallOk(h) /\ HeldOk(h)
  BY DEF PlaceInv
<1>1. ASSUME NEW from \in SUBSET (Places \union {"complete", "fail"}), NEW places \in SUBSET (Places \union {"complete", "fail"}),
             PlaceInv', OthersHold(h), From(h, from), Steps(h, places), UNCHANGED <<idem, now, past, failed>>
      PROVE  Goes
  BY <1>1 DEF From, Steps, Active, At, Places
<1>2. ASSUME NEW from \in SUBSET (Places \union {"complete", "fail"}), NEW places \in SUBSET (Places \union {"complete", "fail"}),
             Continues(h, from, places)
      PROVE  Goes
  BY <1>1, <1>2 DEF Continues
<1>3. CASE RecordHealth(h)
  <2>1. Quiet /\ UNCHANGED <<idem, now, past, failed>>
    BY <1>3 DEF RecordHealth, incidentVars, timeVars
  <2>2. PlaceInv' /\ OthersHold(h) /\ From(h, {"health"}) /\ Steps(h, {"find"})
    BY <1>3, HealthRecorded
  <2>3. Goes
    <3> HIDE DEF Goes
    <3> QED  BY <1>1, <2>1, <2>2 DEF Places
  <2> QED  BY <1>0, <2>1, <2>3
<1>4. CASE FindIncident(h)
  <2>1. Quiet /\ UNCHANGED <<idem, now, past, failed>>
    BY <1>4 DEF FindIncident, incidentVars, timeVars
  <2>2. PlaceInv' /\ OthersHold(h) /\ From(h, {"find"}) /\ Steps(h, {"occur", "create", "resolve", "complete", "health", "fail"})
    BY <1>4, Finding
  <2>3. Goes
    <3> HIDE DEF Goes
    <3> QED  BY <1>1, <2>1, <2>2 DEF Places
  <2> QED  BY <1>0, <2>1, <2>3
<1>5. CASE ReadChannel(h)
  <2>1. /\ Quiet /\ UNCHANGED <<idem, now, past, failed>>
        /\ PlaceInv' /\ OthersHold(h) /\ From(h, {"run"}) /\ Steps(h, {"upsert"})
    BY <1>5, ChannelRead
  <2>2. Goes
    <3> HIDE DEF Goes
    <3> QED  BY <1>1, <2>1 DEF Places
  <2> QED  BY <1>0, <2>1, <2>2
<1>6. ASSUME NEW i, NEW row, NEW event, Wrote(h, i, row, event), Writes(h, i, row, event), From(h, {"occur", "create", "resolve"})
      PROVE  Goes /\ wrote' = wrote \union {<<h, call[h].key>>} /\ call[h].op \in {"report", "probe"}
  <2>1. /\ UNCHANGED <<idem, now, past, failed>> /\ wrote' = wrote \union {<<h, call[h].key>>}
        /\ i \in Ids /\ row \in IncidentRows /\ event \in Events
    BY <1>6 DEF Wrote
  <2>2. PlaceInv' /\ OthersHold(h) /\ Steps(h, {"event", "complete", "health"}) /\ call[h].op \in {"report", "probe"}
    BY <1>6, <2>1, Writing
  <2>3. Goes
    <3> HIDE DEF Goes
    <3> QED  BY <1>1, <1>6, <2>1, <2>2 DEF Places
  <2> QED  BY <2>1, <2>2, <2>3
<1>7. CASE RecordOccurrence(h)
  <2>1. PICK i, row : Wrote(h, i, row, "OCCURRENCE") /\ Writes(h, i, row, "OCCURRENCE") /\ From(h, {"occur"})
    BY <1>7, OccurrenceRecorded
  <2> HIDE DEF Goes
  <2> QED  BY <1>0, <1>6, <2>1 DEF From, Goes
<1>8. CASE ResolveIncident(h)
  <2>1. PICK i, row : Wrote(h, i, row, "RESOLVED") /\ Writes(h, i, row, "RESOLVED") /\ From(h, {"resolve"})
    BY <1>8, IncidentResolved
  <2> HIDE DEF Goes
  <2> QED  BY <1>0, <1>6, <2>1 DEF From, Goes
<1>9. CASE CreateIncident(h)
  <2>1. CASE Continues(h, {"create"}, {"fail"}) /\ UNCHANGED opsVars
    <3>1. Quiet
      BY <2>1 DEF opsVars, incidentVars
    <3>2. Goes
      <4> HIDE DEF Goes
      <4> QED  BY <1>2, <2>1 DEF Places
    <3> QED  BY <1>0, <3>1, <3>2
  <2>2. ASSUME NEW row, Wrote(h, h, row, "OPENED"), Writes(h, h, row, "OPENED"), From(h, {"create"})
        PROVE  Goes /\ wrote' = wrote \union {<<h, call[h].key>>} /\ call[h].op \in {"report", "probe"}
    <3> HIDE DEF Goes
    <3> QED  BY <1>6, <2>2 DEF From
  <2> QED  BY <1>0, <1>9, <2>1, <2>2, IncidentCreated
<1>10. CASE RecordEvent(h) \/ RecordNotified(h) \/ CreateDelivery(h) \/ SendMessage(h) \/ CreateTest(h)
  <2>1. /\ Quiet
        /\ \/ Continues(h, {"event"}, {"config"})
           \/ Continues(h, {"notified"}, {"complete", "health"})
           \/ Continues(h, {"deliver"}, {"send"})
           \/ Continues(h, {"send"}, {"notified", "complete", "health"})
           \/ Continues(h, {"run"}, {"send"})
    BY <1>10, EventRecorded, NotificationRecorded, DeliveryCreated, MessageSent, TestCreated
  <2>2. Goes
    <3> HIDE DEF Goes
    <3> QED  BY <1>2, <2>1 DEF Places
  <2> QED  BY <1>0, <2>1, <2>2
<1>11. CASE ReadConfiguration(h) \/ ReadOpenIncident(h) \/ AcknowledgeIncident(h) \/ UpsertConfiguration(h)
  <2>1. /\ Quiet
        /\ \/ Continues(h, {"config"}, {"deliver", "complete", "health"})
           \/ Continues(h, {"run"}, {"upsert", "fail"})
           \/ Continues(h, {"upsert"}, {"complete", "fail"})
           \/ Continues(h, {"upsert"}, {"complete"})
    BY <1>11, ConfigurationRead, OpenIncidentRead, Acknowledging, ConfigurationWritten
  <2>2. Goes
    <3> HIDE DEF Goes
    <3> QED  BY <1>2, <2>1 DEF Places
  <2> QED  BY <1>0, <2>1, <2>2
<1> QED  BY <1>3, <1>4, <1>5, <1>7, <1>8, <1>9, <1>10, <1>11 DEF Works

\* The records stay what they are, those of S excepted, and a completed record stays so.
Keeps(S) ==
    \A s \in DOMAIN idem :
        /\ s \in DOMAIN idem' /\ (idem[s].status = "COMPLETED" => idem'[s].status = "COMPLETED")
        /\ s \notin S => idem'[s].status = idem[s].status /\ idem'[s].generation = idem[s].generation

\* begin() writes no other record than its own, and never one that is COMPLETED.
LEMMA StartingKeeps ==
    ASSUME PlaceInv, NEW h \in Calls, Starts(h), NEW s, s = Scope(h)
    PROVE  \/ idem' = idem /\ At(h, "done")'
           \/ /\ Keeps({s}) /\ s \in DOMAIN idem' /\ idem'[s].status = "PENDING" /\ idem'[s].generation = call'[h].generation
              /\ s \in DOMAIN idem => idem[s].status \in {"ABSENT", "FAILED"}
              /\ call'[h].op = call[h].op /\ call'[h].key = call[h].key
<1>1. PICK place \in {"find", "run"} : Begin(h, place)
  BY DEF Starts, BeginReport, BeginAcknowledge, BeginConfigure, BeginTest
<1> DEFINE row == Record(s)
           hash == call[h].arg
<1>2. CallsTypeOK(Ops, Bodies, {}, Places)
  BY DEF PlaceInv
<1>3. CASE /\ Claims(row, hash) /\ idem' = Write(s, Claim(row, hash))
           /\ call' = [call EXCEPT ![h] = [@ EXCEPT !.at = place, !.generation = row.generation + 1]]
  <2>1. PICK new : new = Claim(row, hash)
    OBVIOUS
  <2>2. new.status = "PENDING" /\ new.generation = row.generation + 1
    BY <2>1 DEF Claim
  <2>3. /\ DOMAIN idem' = DOMAIN idem \union {s} /\ idem'[s] = new
        /\ \A r \in DOMAIN idem \ {s} : idem'[r] = idem[r]
    BY <1>3, <2>1 DEF Write
  <2>4. row.status \in {"ABSENT", "FAILED"} /\ (s \in DOMAIN idem => row = idem[s])
    BY <1>3 DEF Claims, Reopenable, Record
  <2>5. call'[h].generation = row.generation + 1 /\ call'[h].op = call[h].op /\ call'[h].key = call[h].key
    BY <1>2, <1>3 DEF CallsTypeOK, CallRows
  <2>6. Keeps({s})
    BY <2>3, <2>4 DEF Keeps
  <2> QED  BY <2>2, <2>3, <2>4, <2>5, <2>6
<1>4. ASSUME NEW code, Answer(h, code), idem' = idem
      PROVE  idem' = idem /\ At(h, "done")'
  BY <1>2, <1>4, Answering DEF At
<1> QED  BY <1>1, <1>3, <1>4 DEF Begin

\* complete() and fail() write no other record than their own.
LEMMA SettlingKeeps ==
    ASSUME PlaceInv, NEW h \in Calls, CompleteRecord(h) \/ FailRecord(h), NEW s, s = Scope(h)
    PROVE  /\ Keeps({s})
           /\ CompleteRecord(h) /\ Owns(h) => s \in DOMAIN idem' /\ idem'[s].status = "COMPLETED"
<1> DEFINE g == call[h].generation
<1>1. \A r \in DOMAIN idem : idem[r] \in Rows(Bodies, {"OK", "ERROR"})
  BY DEF PlaceInv, CallsTypeOK
<1>2. CASE CompleteRecord(h)
  <2>1. idem' = [idem EXCEPT ![s] = Complete(@, g, "OK")]
    BY <1>2 DEF CompleteRecord
  <2>2. /\ DOMAIN idem' = DOMAIN idem /\ \A r \in DOMAIN idem \ {s} : idem'[r] = idem[r]
        /\ s \in DOMAIN idem => idem'[s] = Complete(idem[s], g, "OK")
    BY <2>1
  <2>3. ASSUME s \in DOMAIN idem
        PROVE  /\ idem[s].status = "COMPLETED" => idem'[s].status = "COMPLETED"
               /\ Current(idem[s], g) => idem'[s].status = "COMPLETED"
    <3>1. PICK row \in Rows(Bodies, {"OK", "ERROR"}) : row = idem[s]
      BY <1>1, <2>3
    <3>2. /\ row.status = "COMPLETED" => Complete(row, g, "OK").status = "COMPLETED"
          /\ Current(row, g) => Complete(row, g, "OK").status = "COMPLETED"
      BY DEF Complete, Current, Rows
    <3> QED  BY <2>2, <2>3, <3>1, <3>2
  <2>4. Keeps({s})
    BY <2>2, <2>3 DEF Keeps
  <2> QED  BY <2>2, <2>3, <2>4 DEF Owns, Current
<1>3. CASE FailRecord(h)
  <2>1. PICK b \in BOOLEAN : b = (call[h].got = "retryable")
    OBVIOUS
  <2>2. idem' = [idem EXCEPT ![s] = Fail(@, g, b, "ERROR")]
    BY <1>3, <2>1 DEF FailRecord
  <2>3. /\ DOMAIN idem' = DOMAIN idem /\ \A r \in DOMAIN idem \ {s} : idem'[r] = idem[r]
        /\ s \in DOMAIN idem => idem'[s] = Fail(idem[s], g, b, "ERROR")
    BY <2>2
  <2>4. s \in DOMAIN idem /\ idem[s].status = "COMPLETED" => idem'[s].status = "COMPLETED"
    BY <2>3 DEF Fail, Current
  <2>5. ~CompleteRecord(h)
    BY <1>3 DEF FailRecord, CompleteRecord
  <2> QED  BY <2>3, <2>4, <2>5 DEF Keeps
<1> QED  BY <1>2, <1>3

\* The retry window changes no status and no generation.
LEMMA AgeingKeeps ==
    ASSUME PlaceInv, RetryWindowEnds
    PROVE  Keeps({})
<1>1. PICK s \in DOMAIN idem : idem' = [idem EXCEPT ![s] = Age(@)]
  BY DEF RetryWindowEnds
<1>2. idem[s] \in Rows(Bodies, {"OK", "ERROR"})
  BY DEF PlaceInv, CallsTypeOK
<1>3. Age(idem[s]).status = idem[s].status /\ Age(idem[s]).generation = idem[s].generation
  BY <1>2 DEF Age, Rows
<1> QED  BY <1>1, <1>3 DEF Keeps

\* A step of one call, the records it may write and what it may add to the effects.
LEMMA OnceStep ==
    ASSUME PlaceInv, OnceInv, NEW h \in Calls, OthersStay(h), NEW S, Keeps(S), failed \subseteq failed',
           \A g \in Calls \ {h} : Reporting(g) => Scope(g) \notin S,
           Reporting(h)' => Owns(h)',
           Reporting(h)' => \A g \in Calls \ {h} : Reporting(g) => call[g].key # call'[h].key,
           NEW k, k = call[h].key,
           \/ wrote' = wrote
           \/ wrote' = wrote \union {<<h, k>>} /\ (Reporting(h) \/ k = Null),
           Reporting(h) => \/ Reporting(h)' /\ call'[h].key = k
                           \/ h \in failed' \/ Completed(k)'
    PROVE  OnceInv'
<1>1. ASSUME NEW g \in Calls, g # h
      PROVE  call'[g] = call[g] /\ Reporting(g)' = Reporting(g) /\ Scope(g)' = Scope(g)
  BY <1>1 DEF OthersStay, Reporting, Scope
<1>2. \A g \in Calls : Reporting(g)' => Owns(g)'
  <2> SUFFICES ASSUME NEW g \in Calls, Reporting(g)', g # h
               PROVE  Owns(g)'
    OBVIOUS
  <2>1. Reporting(g) /\ Scope(g)' = Scope(g) /\ call'[g] = call[g]
    BY <1>1
  <2>2. Owns(g) /\ Scope(g) \notin S
    BY <2>1 DEF OnceInv
  <2> QED  BY <2>1, <2>2 DEF Owns, Keeps
<1>3. \A f, g \in Calls : Reporting(f)' /\ Reporting(g)' /\ call'[f].key = call'[g].key => f = g
  BY <1>1 DEF OnceInv
<1>4. k \in Keys \union {Null} /\ wrote' \subseteq Calls \X (Keys \union {Null})
  BY DEF PlaceInv, CallsTypeOK, CallRows, OnceInv
<1>5. \A key : Completed(key) => Completed(key)'
  BY DEF Completed, Keeps
<1>6. Reporting(h) => ~Completed(k)
  <2>1. Reporting(h) => Owns(h) /\ Scope(h) = <<"report", k>>
    BY DEF OnceInv, Reporting, Scope
  <2> QED  BY <2>1 DEF Owns, Completed
<1>7. ASSUME NEW w \in wrote'
      PROVE  \/ w[2] = Null \/ w[1] \in failed' \/ Completed(w[2])'
             \/ Reporting(w[1])' /\ call'[w[1]].key = w[2]
  <2>1. CASE w = <<h, k>> /\ (Reporting(h) \/ k = Null)
    BY <2>1
  <2>2. CASE w \in wrote
    <3>1. w[1] \in Calls /\ (\/ w[2] = Null \/ w[1] \in failed \/ Completed(w[2])
                             \/ Reporting(w[1]) /\ call[w[1]].key = w[2])
      BY <2>2 DEF OnceInv
    <3>2. CASE w[1] = h
      BY <1>5, <3>1, <3>2
    <3>3. CASE w[1] # h
      BY <1>1, <1>5, <3>1, <3>3
    <3> QED  BY <3>2, <3>3
  <2> QED  BY <2>1, <2>2
<1>8. ObservationTakesEffectOnce'
  <2>1. ASSUME NEW v \in wrote, NEW w, w = <<h, k>>, v # w, v[2] = k, k # Null, Reporting(h)
        PROVE  v[1] \in failed
    <3>1. v[1] \in Calls /\ v = <<v[1], v[2]>>
      BY <2>1 DEF OnceInv
    <3>2. v[1] # h
      BY <2>1, <3>1
    <3>3. ~(Reporting(v[1]) /\ call[v[1]].key = k)
      BY <2>1, <3>1, <3>2 DEF OnceInv
    <3> QED  BY <1>6, <2>1, <3>3 DEF OnceInv
  <2>2. ASSUME NEW v \in wrote', NEW w \in wrote', v # w, v[2] = w[2], v[2] # Null
        PROVE  v[1] \in failed' \/ w[1] \in failed'
    <3>1. CASE v \in wrote /\ w \in wrote
      BY <2>2, <3>1 DEF OnceInv, ObservationTakesEffectOnce
    <3>2. CASE ~(v \in wrote /\ w \in wrote)
      BY <2>1, <2>2, <3>2
    <3> QED  BY <3>1, <3>2
  <2> QED  BY <2>2 DEF ObservationTakesEffectOnce
<1> QED  BY <1>2, <1>3, <1>4, <1>7, <1>8 DEF OnceInv

\* Every step keeps the records of the reports with those that hold them.
LEMMA OnceKept ==
    ASSUME PlaceInv, TablesInv, OnceInv, [OpsNext]_operationVars
    PROVE  OnceInv'
<1>0. idem' = idem => Keeps({})
  BY DEF Keeps
<1>1. ASSUME NEW h \in Calls, (\E key \in Keys : Routes(h, key)) \/ RunProbe(h)
      PROVE  OnceInv'
  <2>1. PlaceInv' /\ Joins(h)
    BY <1>1, Arrival
  <2>2. OthersStay(h) /\ idem' = idem /\ failed' = failed /\ wrote' = wrote /\ ~Reporting(h)
    BY <2>1 DEF Joins, Reporting, At, incidentVars
  <2>3. ~Reporting(h)'
    BY <2>1 DEF Joins, Reporting, At, PlaceInv, CallOk, Active
  <2> QED  BY <1>0, <2>2, <2>3, OnceStep
<1>2. ASSUME NEW h \in Calls, Starts(h)
      PROVE  OnceInv'
  <2>0. PICK s : s = Scope(h)
    OBVIOUS
  <2>1. UNCHANGED opsVars /\ At(h, "begin") /\ OthersStay(h)
    BY <1>2, Starting DEF Starts
  <2>2. failed' = failed /\ wrote' = wrote /\ ~Reporting(h)
    BY <2>1 DEF Reporting, At, opsVars, timeVars, incidentVars
  <2>3. CASE idem' = idem /\ At(h, "done")'
    <3>1. ~Reporting(h)'
      BY <2>3 DEF Reporting, At
    <3> QED  BY <1>0, <2>1, <2>2, <2>3, <3>1, OnceStep
  <2>4. CASE /\ Keeps({s}) /\ s \in DOMAIN idem' /\ idem'[s].status = "PENDING" /\ idem'[s].generation = call'[h].generation
             /\ s \in DOMAIN idem => idem[s].status \in {"ABSENT", "FAILED"}
             /\ call'[h].op = call[h].op /\ call'[h].key = call[h].key
    <3>1. \A g \in Calls \ {h} : Reporting(g) => Scope(g) # s
      BY <2>4 DEF OnceInv, Owns
    <3>2. Scope(h)' = s
      BY <2>0, <2>4 DEF Scope
    <3>3. Owns(h)'
      BY <2>4, <3>2 DEF Owns
    <3>4. Reporting(h)' => \A g \in Calls \ {h} : Reporting(g) => call[g].key # call'[h].key
      <4>1. \A g \in Calls : Reporting(g) => Scope(g) = <<"report", call[g].key>>
        BY DEF Reporting, Scope
      <4>2. Reporting(h)' => s = <<"report", call'[h].key>>
        BY <3>2 DEF Reporting, Scope
      <4> QED  BY <3>1, <4>1, <4>2
    <3> QED  BY <2>1, <2>2, <2>4, <3>1, <3>3, <3>4, OnceStep
  <2> QED  BY <1>2, <2>0, <2>3, <2>4, StartingKeeps
<1>3. ASSUME NEW h \in Calls, Works(h)
      PROVE  OnceInv'
  <2>1. /\ OthersStay(h) /\ Active(h) /\ ~At(h, "begin") /\ CallOk(h) /\ UNCHANGED <<idem, failed>>
        /\ \/ At(h, "done")' /\ call[h].op = "probe"
           \/ SameRequest(h) /\ call'[h].at \notin {"idle", "begin", "done"}
        /\ \/ wrote' = wrote
           \/ wrote' = wrote \union {<<h, call[h].key>>} /\ call[h].op \in {"report", "probe"}
    BY <1>3, Working
  <2>2. PICK k : k = call[h].key
    OBVIOUS
  <2>3. Reporting(h) <=> call[h].op = "report"
    BY <2>1 DEF Reporting, Active, At
  <2>4. call[h].op = "probe" => k = Null
    BY <2>1, <2>2 DEF CallOk
  <2>5. Reporting(h)' <=> Reporting(h)
    BY <2>1 DEF Reporting, Active, At, SameRequest
  <2>6. Reporting(h) => call'[h].key = k /\ Scope(h)' = Scope(h) /\ call'[h].generation = call[h].generation
    BY <2>1, <2>2, <2>3 DEF SameRequest, Scope
  <2>7. Reporting(h)' => Owns(h)'
    BY <2>1, <2>5, <2>6 DEF Owns, OnceInv
  <2>8. Reporting(h)' => \A g \in Calls \ {h} : Reporting(g) => call[g].key # call'[h].key
    BY <2>2, <2>5, <2>6 DEF OnceInv
  <2>9. wrote' = wrote \/ (wrote' = wrote \union {<<h, k>>} /\ (Reporting(h) \/ k = Null))
    BY <2>1, <2>2, <2>3, <2>4
  <2> HIDE DEF Reporting, Owns
  <2> QED  BY <1>0, <2>1, <2>2, <2>5, <2>6, <2>7, <2>8, <2>9, OnceStep
<1>4. ASSUME NEW h \in Calls, Settles(h)
      PROVE  OnceInv'
  <2>0. PICK s, k : s = Scope(h) /\ k = call[h].key
    OBVIOUS
  <2>1. /\ From(h, {"complete", "fail"}) /\ OthersStay(h) /\ At(h, "done")' /\ wrote' = wrote
        /\ \/ failed' = failed /\ (call[h].op = "report" => CompleteRecord(h))
           \/ failed' = failed \union {h} /\ FailRecord(h)
        /\ CompleteRecord(h) \/ FailRecord(h)
    BY <1>4, Settling DEF Settles
  <2>2. Keeps({s}) /\ (CompleteRecord(h) /\ Owns(h) => s \in DOMAIN idem' /\ idem'[s].status = "COMPLETED")
    BY <2>0, <2>1, SettlingKeeps
  <2>3. ~Reporting(h)' /\ Active(h) /\ CallOk(h)
    BY <2>1 DEF Reporting, At, From, Active, PlaceInv
  <2>4. ASSUME NEW g \in Calls \ {h}, Reporting(g)
        PROVE  Scope(g) # s
    <3>1. CASE call[h].op = "report"
      <4>1. Reporting(h)
        BY <2>1, <3>1 DEF Reporting, From
      <4>2. call[g].key # call[h].key
        BY <2>4, <4>1 DEF OnceInv
      <4> QED  BY <2>0, <4>2 DEF Scope
    <3>2. CASE call[h].op # "report"
      BY <2>0, <2>4, <3>2 DEF Scope, Reporting
    <3> QED  BY <3>1, <3>2
  <2>5. Reporting(h) => h \in failed' \/ Completed(k)'
    <3> SUFFICES ASSUME Reporting(h), h \notin failed'
                 PROVE  Completed(k)'
      OBVIOUS
    <3>1. CompleteRecord(h) /\ Owns(h) /\ s = <<"report", k>>
      BY <2>0, <2>1 DEF Reporting, OnceInv, Scope
    <3> QED  BY <2>2, <3>1 DEF Completed
  <2>6. failed \subseteq failed'
    BY <2>1
  <2> HIDE DEF Reporting
  <2> QED  BY <2>0, <2>1, <2>2, <2>3, <2>4, <2>5, <2>6, OnceStep
<1>5. ASSUME NEW h \in Calls, Fault(h)
      PROVE  OnceInv'
  <2>1. /\ Active(h) /\ OthersStay(h) /\ idem' = idem /\ wrote' = wrote
        /\ \/ failed' = failed /\ SameRequest(h) /\ ~At(h, "begin") /\ At(h, "fail")'
           \/ failed' = failed \union {h} /\ At(h, "done")'
    BY <1>5, Failing
  <2>2. CASE failed' = failed /\ SameRequest(h) /\ ~At(h, "begin") /\ At(h, "fail")'
    <3>1. Reporting(h)' <=> Reporting(h)
      BY <2>1, <2>2 DEF Reporting, Active, At, SameRequest
    <3>2. call'[h].key = call[h].key /\ Scope(h)' = Scope(h) /\ call'[h].generation = call[h].generation
      BY <2>2 DEF SameRequest, Scope
    <3>3. Reporting(h)' => Owns(h)'
      BY <2>1, <3>1, <3>2 DEF Owns, OnceInv
    <3>4. Reporting(h)' => \A g \in Calls \ {h} : Reporting(g) => call[g].key # call'[h].key
      BY <3>1, <3>2 DEF OnceInv
    <3> HIDE DEF Reporting, Owns
    <3> QED  BY <1>0, <2>1, <2>2, <3>1, <3>2, <3>3, <3>4, OnceStep
  <2>3. CASE failed' = failed \union {h} /\ At(h, "done")'
    <3>1. ~Reporting(h)'
      BY <2>3 DEF Reporting, At
    <3> QED  BY <1>0, <2>1, <2>3, <3>1, OnceStep
  <2> QED  BY <2>1, <2>2, <2>3
<1>6. CASE Beside
  <2>1. UNCHANGED <<call, wrote, failed>>
    BY <1>6, BesideEffect
  <2>2. Keeps({})
    BY <1>0, <1>6, AgeingKeeps DEF Beside, ProvisionChannel, DemoteKey, InsertKey, PurgeNonces, PostHeartbeat, Tick, operationVars, callVars
  <2>3. \A g \in Calls : Reporting(g)' = Reporting(g) /\ (Owns(g) => Owns(g)')
    <3> SUFFICES ASSUME NEW g \in Calls
                 PROVE  Reporting(g)' = Reporting(g) /\ (Owns(g) => Owns(g)')
      OBVIOUS
    <3>1. Reporting(g)' = Reporting(g) /\ Scope(g)' = Scope(g) /\ call'[g] = call[g]
      BY <2>1 DEF Reporting, Scope
    <3> QED  BY <2>2, <3>1 DEF Owns, Keeps
  <2>4. \A k : Completed(k) => Completed(k)'
    BY <2>2 DEF Completed, Keeps
  <2>5. ObservationTakesEffectOnce'
    BY <2>1 DEF OnceInv, ObservationTakesEffectOnce
  <2> HIDE DEF Reporting, Owns, Completed
  <2> QED  BY <2>1, <2>3, <2>4, <2>5 DEF OnceInv
<1> QED  BY <1>1, <1>2, <1>3, <1>4, <1>5, <1>6, NextSplits, CallingSplits

-----------------------------------------------------------------------------
(* The nonces *)

\* A report is accepted only with a nonce that nobody was accepted with.
LEMMA ReportAccepted ==
    ASSUME PlaceInv, NonceInv, NEW h \in Calls, NEW c \in Credentials, NEW body, NEW key, PostMonitorReport(h, key, body, c), now' = now
    PROVE  NonceInv'
<1>0. /\ now \in Nat /\ now \in Times /\ Tolerance \in Nat /\ c.timestamp \in Nat
      /\ \A n \in nonces : n[3] \in Nat
      /\ \A d \in Credentials : /\ d.timestamp \in Nat
                                /\ d.keyId = c.keyId /\ d.nonce = c.nonce => d.timestamp = c.timestamp
  BY OperationsAssumption, HeldTypes DEF PlaceInv, NonceInv
<1> DEFINE fresh == Verifiable(c) /\ Within(c.timestamp) /\ ~Seen(c)
<1>1. /\ accepted' = [accepted EXCEPT ![h] = Verified(c, body)]
      /\ nonces' = IF fresh THEN nonces \union {<<c.keyId, c.nonce, now>>} ELSE nonces
  BY DEF PostMonitorReport
<1>2. /\ DOMAIN accepted' = Calls /\ accepted'[h] = Verified(c, body)
      /\ \A g \in Calls \ {h} : accepted'[g] = accepted[g]
  BY <1>1 DEF NonceInv
<1>3. (Verified(c, body) = c /\ fresh) \/ Verified(c, body).keyId = Null
  BY DEF Verified, Verify, NoCredentials
<1>4. \A n \in nonces' : n[3] \in Times
  BY <1>0, <1>1 DEF NonceInv
<1>5. \A d : Remembered(d) => Remembered(d)'
  BY <1>1 DEF Remembered
<1>6. ASSUME fresh
      PROVE  Remembered(c)'
  <2>1. c.timestamp <= now + Tolerance
    BY <1>6 DEF Within
  <2>2. <<c.keyId, c.nonce, now>> \in nonces'
    BY <1>1, <1>6
  <2> QED  BY <2>1, <2>2 DEF Remembered
<1>7. ASSUME NEW g \in Calls, accepted'[g].keyId # Null
      PROVE  \E d \in Credentials : d = accepted'[g] /\ Remembered(d)'
  <2>1. CASE g = h
    BY <1>2, <1>3, <1>6, <1>7, <2>1
  <2>2. CASE g # h
    <3>1. PICK d : d = accepted[g]
      OBVIOUS
    <3>2. accepted'[g] = d /\ d \in Credentials /\ Remembered(d)
      BY <1>2, <1>7, <2>2, <3>1 DEF NonceInv
    <3> QED  BY <1>5, <3>2
  <2> QED  BY <2>1, <2>2
<1>8. ASSUME NEW g \in Calls, g # h, accepted[g].keyId # Null, accepted[g].keyId = c.keyId, accepted[g].nonce = c.nonce, fresh
      PROVE  FALSE
  <2>1. accepted[g] \in Credentials /\ Remembered(accepted[g])
    BY <1>8 DEF NonceInv
  <2>2. accepted[g].timestamp = c.timestamp
    BY <1>0, <1>8, <2>1
  <2>3. ~(\E n \in nonces : n[1] = c.keyId /\ n[2] = c.nonce)
    BY <1>8 DEF Seen
  <2>4. now > c.timestamp + Tolerance
    BY <1>8, <2>1, <2>2, <2>3 DEF Remembered
  <2>5. now <= c.timestamp + Tolerance
    BY <1>8 DEF Within
  <2> QED  BY <1>0, <2>4, <2>5
<1>9. NonceAcceptedOnce'
  <2> SUFFICES ASSUME NEW f \in Calls, NEW g \in Calls, f # g, accepted'[f].keyId # Null,
                      accepted'[f].keyId = accepted'[g].keyId, accepted'[f].nonce = accepted'[g].nonce
               PROVE  FALSE
    BY DEF NonceAcceptedOnce
  <2>1. CASE f = h
    BY <1>2, <1>3, <1>8, <2>1
  <2>2. CASE g = h
    BY <1>2, <1>3, <1>8, <2>2
  <2>3. CASE f # h /\ g # h
    BY <1>2, <2>3 DEF NonceInv, NonceAcceptedOnce
  <2> QED  BY <2>1, <2>2, <2>3
<1>10. \A g \in Calls : accepted'[g].keyId # Null => accepted'[g] \in Credentials /\ Remembered(accepted[g])'
  BY <1>7 DEF Remembered
<1> QED  BY <1>2, <1>4, <1>9, <1>10 DEF NonceInv

\* Every step keeps the nonces of what was accepted, or their timestamps are too old.
LEMMA NonceKept ==
    ASSUME PlaceInv, TablesInv, NonceInv, [OpsNext]_operationVars
    PROVE  NonceInv'
<1>0. /\ now \in Nat /\ Tolerance \in Nat /\ NonceRetention \in Nat /\ NonceRetention >= 2 * Tolerance
      /\ \A n \in nonces : n[3] \in Nat
      /\ \A c \in Credentials : c.timestamp \in Nat
  BY OperationsAssumption, WindowAssumption, HeldTypes DEF PlaceInv, NonceInv
<1>1. ASSUME accepted' = accepted, nonces' \subseteq nonces,
             \A c \in Credentials : Remembered(c) => Remembered(c)'
      PROVE  NonceInv'
  <2>1. \A g \in Calls : accepted'[g].keyId # Null => accepted'[g] \in Credentials /\ Remembered(accepted[g])'
    <3> SUFFICES ASSUME NEW g \in Calls, accepted'[g].keyId # Null
                 PROVE  accepted'[g] \in Credentials /\ Remembered(accepted[g])'
      OBVIOUS
    <3>1. PICK c : c = accepted[g]
      OBVIOUS
    <3>2. c \in Credentials /\ Remembered(c)'
      BY <1>1, <3>1 DEF NonceInv
    <3> QED  BY <1>1, <3>1, <3>2 DEF Remembered
  <2>2. NonceAcceptedOnce'
    BY <1>1 DEF NonceInv, NonceAcceptedOnce
  <2> HIDE DEF Remembered
  <2> QED  BY <1>1, <2>1, <2>2 DEF NonceInv
<1>2. ASSUME UNCHANGED <<accepted, nonces, now>>
      PROVE  NonceInv'
  BY <1>1, <1>2 DEF Remembered
<1>3. ASSUME NEW h \in Calls, Calling(h)
      PROVE  NonceInv'
  <2>1. now' = now
    BY <1>3, CallsLeave
  <2>2. CASE UNCHANGED <<nonces, accepted>>
    BY <1>2, <2>1, <2>2
  <2>3. ASSUME NEW key \in Keys, NEW k \in ReportKeys, NEW state \in {"DETECTED", "RECOVERED"}, NEW backfill \in BOOLEAN,
               NEW c \in Credentials, PostMonitorReport(h, key, ReportBody(k, state, backfill), c)
        PROVE  NonceInv'
    BY <2>1, <2>3, ReportAccepted
  <2>4. CASE ~(UNCHANGED <<nonces, accepted>>)
    <3>1. At(h, "idle")
      BY <1>3, <2>4, CallsLeave
    <3>2. ~(Starts(h) \/ Works(h) \/ Settles(h) \/ Fault(h))
      <4>1. ~Active(h) /\ ~From(h, {"complete", "fail"})
        BY <3>1 DEF Active, At, From
      <4>2. ~At(h, "begin")
        BY <3>1 DEF At
      <4> QED  BY <4>1, <4>2, Working, Starting, Settling, Failing DEF Starts, Settles
    <3>3. (\E key \in Keys : Routes(h, key)) \/ RunProbe(h)
      BY <1>3, <3>2, CallingSplits
    <3>4. ~RunProbe(h) /\ (\A key \in Keys : /\ \A i \in Ids : ~PostAcknowledge(h, key, i)
                                             /\ \A e \in BOOLEAN, t \in Thresholds, c \in Cooldowns : ~PutAlertConfiguration(h, key, e, t, c)
                                             /\ ~PostAlertTest(h, key))
      BY <2>4 DEF RunProbe, PostAcknowledge, PutAlertConfiguration, PostAlertTest, Asks, authVars
    <3> QED  BY <2>3, <3>3, <3>4 DEF Routes
  <2> QED  BY <2>2, <2>4
<1>4. CASE Beside
  <2>1. accepted' = accepted /\ now' \in Nat /\ now' >= now /\ (now' = now \/ nonces' = nonces)
    BY <1>4, BesideEffect, HeldTypes
  <2>2. CASE nonces' = nonces
    <3>1. \A c \in Credentials : Remembered(c) => Remembered(c)'
      BY <1>0, <2>1, <2>2 DEF Remembered
    <3> QED  BY <1>1, <2>1, <2>2, <3>1
  <2>3. CASE PurgeNonces
    <3>1. nonces' = {n \in nonces : n[3] + NonceRetention >= now} /\ now' = now
      BY <2>3 DEF PurgeNonces, timeVars
    <3>2. ASSUME NEW c \in Credentials, Remembered(c)
          PROVE  Remembered(c)'
      <4>1. CASE now > c.timestamp + Tolerance
        BY <3>1, <4>1 DEF Remembered
      <4>2. ASSUME NEW n \in nonces, n[1] = c.keyId, n[2] = c.nonce, c.timestamp <= n[3] + Tolerance
            PROVE  Remembered(c)'
        <5>1. CASE n[3] + NonceRetention >= now
          BY <3>1, <4>2, <5>1 DEF Remembered
        <5>2. CASE ~(n[3] + NonceRetention >= now)
          <6>1. now > c.timestamp + Tolerance
            <7>1. n[3] \in Nat /\ c.timestamp \in Nat
              BY <1>0
            <7> QED  BY <1>0, <4>2, <5>2, <7>1
          <6> QED  BY <3>1, <6>1 DEF Remembered
        <5> QED  BY <5>1, <5>2
      <4> QED  BY <3>2, <4>1, <4>2 DEF Remembered
    <3> QED  BY <1>1, <2>1, <3>1, <3>2
  <2> QED  BY <1>4, <2>2, <2>3
       DEF Beside, ProvisionChannel, DemoteKey, InsertKey, PostHeartbeat, Tick, operationVars, opsVars, authVars
<1> QED  BY <1>3, <1>4, NextSplits

-----------------------------------------------------------------------------
(* The occurrences *)

\* A step by which h does not come to the event of a statement.
LEMMA CountStep ==
    ASSUME TablesInv, TablesInv', CountInv, NEW h \in Calls, OthersStay(h), OthersHold(h), ~At(h, "event")',
           \A i \in Ids : incident'[i].count >= incident[i].count /\ Counted(i)' \subseteq Occurrences(i)
    PROVE  CountInv'
<1> SUFFICES ASSUME NEW i \in Ids
             PROVE  IsFiniteSet(Occurrences(i)') /\ Cardinality(Occurrences(i)') <= incident'[i].count
  BY DEF CountInv
<1>1. Occurrences(i)' \subseteq Occurrences(i)
  <2>1. \A g \in Counting(i)' : g \in Counting(i) /\ held'[g] = held[g]
    BY DEF Counting, At, OthersStay, OthersHold
  <2>2. {<<i, held'[g].event, g>> : g \in Counting(i)'} \subseteq Occurrences(i)
    BY <2>1 DEF Occurrences
  <2> QED  BY <2>2 DEF Occurrences
<1>2. /\ IsFiniteSet(Occurrences(i)') /\ Cardinality(Occurrences(i)') <= Cardinality(Occurrences(i))
      /\ Cardinality(Occurrences(i)') \in Nat /\ Cardinality(Occurrences(i)) \in Nat
  BY <1>1, FS_Subset, FS_CardinalityType DEF CountInv
<1>3. Cardinality(Occurrences(i)) <= incident[i].count /\ incident[i].count \in Nat /\ incident'[i].count \in Nat
  BY RowTypes, SeverityAssumption DEF CountInv, TablesInv, IncidentRows
<1>4. incident'[i].count >= incident[i].count
  OBVIOUS
<1> HIDE DEF Occurrences
<1> QED  BY <1>2, <1>3, <1>4

\* A statement that counts an occurrence makes place for one event.
LEMMA CountWrote ==
    ASSUME TablesInv, TablesInv', CountInv, NEW h \in Calls, OthersStay(h), OthersHold(h), ~At(h, "event"),
           NEW i, NEW row, NEW event, Wrote(h, i, row, event),
           \/ event = "RESOLVED" /\ row.count = incident[i].count
           \/ row.count = incident[i].count + 1
           \/ ~Exists(i) /\ row.count = 1
    PROVE  CountInv'
<1>1. /\ incident' = [incident EXCEPT ![i] = row] /\ i \in Ids /\ row \in IncidentRows /\ log' = log
      /\ held'[h].incident = i /\ (At(h, "event")' => held'[h].event = event)
  BY DEF Wrote
<1>2. /\ incident'[i] = row /\ \A j \in Ids \ {i} : incident'[j] = incident[j]
      /\ incident[i].count \in Nat /\ row.count \in Nat
  BY <1>1, SeverityAssumption DEF TablesInv, IncidentRows
<1>3. ASSUME NEW j \in Ids, j # i \/ event = "RESOLVED"
      PROVE  Occurrences(j)' \subseteq Occurrences(j)
  <2>1. \A g \in Counting(j)' : g \in Counting(j) /\ held'[g] = held[g]
    BY <1>1, <1>3 DEF Counting, At, OthersStay, OthersHold
  <2>2. Counted(j)' = Counted(j)
    BY <1>1 DEF Counted
  <2> QED  BY <2>1, <2>2 DEF Occurrences
<1>4. Occurrences(i)' \subseteq Occurrences(i) \union {<<i, event, h>>}
  <2>1. \A g \in Counting(i)' : \/ g \in Counting(i) /\ held'[g] = held[g]
                                \/ g = h /\ held'[g].event = event
    BY <1>1 DEF Counting, At, OthersStay, OthersHold
  <2>2. Counted(i)' = Counted(i)
    BY <1>1 DEF Counted
  <2> QED  BY <2>1, <2>2 DEF Occurrences
<1>5. ASSUME NEW j \in Ids, Occurrences(j)' \subseteq Occurrences(j), incident'[j].count = incident[j].count
      PROVE  IsFiniteSet(Occurrences(j)') /\ Cardinality(Occurrences(j)') <= incident'[j].count
  <2>1. IsFiniteSet(Occurrences(j)) /\ Cardinality(Occurrences(j)) <= incident[j].count /\ incident[j].count \in Nat
    BY SeverityAssumption DEF CountInv, TablesInv, IncidentRows
  <2>2. /\ IsFiniteSet(Occurrences(j)') /\ Cardinality(Occurrences(j)') <= Cardinality(Occurrences(j))
        /\ Cardinality(Occurrences(j)') \in Nat /\ Cardinality(Occurrences(j)) \in Nat
    BY <1>5, <2>1, FS_Subset, FS_CardinalityType
  <2> HIDE DEF Occurrences
  <2> QED  BY <1>5, <2>1, <2>2
<1>6. ASSUME NEW j \in Ids, j # i \/ (event = "RESOLVED" /\ row.count = incident[i].count)
      PROVE  IsFiniteSet(Occurrences(j)') /\ Cardinality(Occurrences(j)') <= incident'[j].count
  <2>1. incident'[j].count = incident[j].count
    BY <1>2, <1>6
  <2>2. Occurrences(j)' \subseteq Occurrences(j)
    BY <1>3, <1>6
  <2> HIDE DEF Occurrences
  <2> QED  BY <1>5, <2>1, <2>2
<1>7. ASSUME row.count = incident[i].count + 1
      PROVE  IsFiniteSet(Occurrences(i)') /\ Cardinality(Occurrences(i)') <= incident'[i].count
  <2> DEFINE S == Occurrences(i)
             T == Occurrences(i)'
             e == <<i, event, h>>
  <2>1. IsFiniteSet(S) /\ Cardinality(S) <= incident[i].count
    BY <1>1 DEF CountInv
  <2>2. T \subseteq S \union {e}
    BY <1>4
  <2> HIDE DEF S, T, e
  <2>3. IsFiniteSet(S \union {e}) /\ Cardinality(S \union {e}) \in Nat /\ Cardinality(S) \in Nat
        /\ Cardinality(S \union {e}) <= Cardinality(S) + 1
    <3>1. IsFiniteSet(S \union {e}) /\ (Cardinality(S \union {e}) = Cardinality(S) \/ Cardinality(S \union {e}) = Cardinality(S) + 1)
      BY <2>1, FS_AddElement
    <3>2. Cardinality(S \union {e}) \in Nat /\ Cardinality(S) \in Nat
      BY <2>1, <3>1, FS_CardinalityType
    <3> QED  BY <3>1, <3>2
  <2>4. IsFiniteSet(T) /\ Cardinality(T) <= Cardinality(S \union {e}) /\ Cardinality(T) \in Nat
    BY <2>2, <2>3, FS_Subset, FS_CardinalityType
  <2>5. IsFiniteSet(T) /\ Cardinality(T) <= row.count
    BY <1>2, <1>7, <2>1, <2>3, <2>4
  <2> QED  BY <1>2, <2>5 DEF T
<1>8. ASSUME ~Exists(i), row.count = 1
      PROVE  IsFiniteSet(Occurrences(i)') /\ Cardinality(Occurrences(i)') <= incident'[i].count
  <2> DEFINE T == Occurrences(i)'
             e == <<i, event, h>>
  <2>1. Occurrences(i) = {}
    <3>1. \A d \in log : d[1] # i
      BY <1>8 DEF TablesInv
    <3>2. \A g \in Calls : held[g].incident # i
      BY <1>1, <1>8, OperationsAssumption DEF TablesInv
    <3> QED  BY <3>1, <3>2 DEF Occurrences, Counted, Counting
  <2>2. T \subseteq {e}
    BY <1>4, <2>1
  <2> HIDE DEF T, e
  <2>3. IsFiniteSet({e}) /\ Cardinality({e}) = 1
    BY FS_Singleton
  <2>4. IsFiniteSet(T) /\ Cardinality(T) <= 1
    BY <2>2, <2>3, FS_Subset
  <2> QED  BY <1>2, <1>8, <2>4 DEF T
<1>9. ASSUME NEW j \in Ids
      PROVE  IsFiniteSet(Occurrences(j)') /\ Cardinality(Occurrences(j)') <= incident'[j].count
  <2>1. CASE j = i
    <3>1. IsFiniteSet(Occurrences(i)') /\ Cardinality(Occurrences(i)') <= incident'[i].count
      BY <1>1, <1>6, <1>7, <1>8
    <3> QED  BY <2>1, <3>1 DEF Occurrences, Counted, Counting
  <2>2. CASE j # i
    BY <1>6, <2>2
  <2> QED  BY <2>1, <2>2
<1> QED  BY <1>9 DEF CountInv

\* Every step keeps the occurrences within the count.
LEMMA CountKept ==
    ASSUME PlaceInv, TablesInv, CountInv, [OpsNext]_operationVars
    PROVE  CountInv'
<1>0. TablesInv' /\ \A i \in Ids : incident[i].count \in Nat
  BY PlaceTables, RowTypes
<1>1. ASSUME NEW h \in Calls, OthersStay(h), OthersHold(h), ~At(h, "event")', UNCHANGED <<incident, log>>
      PROVE  CountInv'
  <2>1. \A i \in Ids : incident'[i].count >= incident[i].count /\ Counted(i)' \subseteq Occurrences(i)
    BY <1>0, <1>1 DEF Counted, Occurrences
  <2> QED  BY <1>0, <1>1, <2>1, CountStep
<1>2. ASSUME NEW h \in Calls, (\E key \in Keys : Routes(h, key)) \/ RunProbe(h) \/ Starts(h) \/ Settles(h) \/ Fault(h)
      PROVE  CountInv'
  <2>1. CASE (\E key \in Keys : Routes(h, key)) \/ RunProbe(h)
    <3>1. Joins(h)
      BY <2>1, Arrival
    <3> QED  BY <1>1, <3>1 DEF Joins, incidentVars, alertVars, OthersHold, At
  <2>2. CASE Starts(h)
    <3>1. UNCHANGED opsVars /\ OthersStay(h) /\ (At(h, "done")' \/ call'[h].at \in {"find", "run"})
      BY <2>2, Starting DEF Starts
    <3> QED  BY <1>1, <3>1 DEF opsVars, incidentVars, alertVars, OthersHold, At
  <2>3. CASE Settles(h)
    <3>1. OthersHold(h) /\ OthersStay(h) /\ At(h, "done")' /\ UNCHANGED <<incident, log>>
      BY <2>3, Settling DEF Settles
    <3> QED  BY <1>1, <3>1 DEF At
  <2>4. CASE Fault(h)
    <3>1. OthersHold(h) /\ OthersStay(h) /\ (At(h, "done")' \/ At(h, "fail")') /\ UNCHANGED <<incident, log>>
      BY <2>4, Failing
    <3> QED  BY <1>1, <3>1 DEF At
  <2> QED  BY <1>2, <2>1, <2>2, <2>3, <2>4
<1>3. ASSUME NEW h \in Calls,
             \/ RecordHealth(h) \/ FindIncident(h) \/ ReadConfiguration(h) \/ ReadOpenIncident(h) \/ ReadChannel(h)
             \/ CreateDelivery(h) \/ CreateTest(h) \/ SendMessage(h) \/ UpsertConfiguration(h)
      PROVE  CountInv'
  <2>1. CASE RecordHealth(h) \/ FindIncident(h) \/ ReadChannel(h)
    <3>1. UNCHANGED <<incident, log>>
      BY <2>1 DEF RecordHealth, FindIncident, ReadChannel, incidentVars
    <3>2. OthersStay(h) /\ OthersHold(h) /\ ~At(h, "event")'
      BY <2>1, HealthRecorded, Finding, ChannelRead DEF Steps, At
    <3> QED  BY <1>1, <3>1, <3>2
  <2>2. CASE ReadConfiguration(h) \/ ReadOpenIncident(h) \/ CreateDelivery(h) \/ CreateTest(h) \/ SendMessage(h) \/ UpsertConfiguration(h)
    <3>1. UNCHANGED <<incident, log>> /\ OthersStay(h) /\ OthersHold(h) /\ ~At(h, "event")'
      BY <2>2, ConfigurationRead, OpenIncidentRead, DeliveryCreated, TestCreated, MessageSent, ConfigurationWritten
         DEF Continues, Steps, At
    <3> QED  BY <1>1, <3>1
  <2> QED  BY <1>3, <2>1, <2>2
<1>4. ASSUME NEW h \in Calls, RecordOccurrence(h) \/ CreateIncident(h) \/ ResolveIncident(h)
      PROVE  CountInv'
  <2>1. OthersStay(h) /\ OthersHold(h)
    BY <1>4, Working DEF Works
  <2>2. CASE RecordOccurrence(h)
    <3>1. PICK i, row : Wrote(h, i, row, "OCCURRENCE") /\ From(h, {"occur"}) /\ row.count = incident[i].count + 1
      BY <2>2, OccurrenceRecorded
    <3> QED  BY <1>0, <2>1, <3>1, CountWrote DEF From, At
  <2>3. CASE ResolveIncident(h)
    <3>1. PICK i, row : Wrote(h, i, row, "RESOLVED") /\ From(h, {"resolve"}) /\ row.count = incident[i].count
      BY <2>3, IncidentResolved
    <3> QED  BY <1>0, <2>1, <3>1, CountWrote DEF From, At
  <2>4. CASE CreateIncident(h)
    <3>1. CASE Continues(h, {"create"}, {"fail"}) /\ UNCHANGED opsVars
      BY <1>1, <2>1, <3>1 DEF Continues, Steps, At, opsVars, incidentVars
    <3>2. ASSUME NEW row, Wrote(h, h, row, "OPENED"), ~Exists(h), From(h, {"create"}), row.count = 1
          PROVE  CountInv'
      BY <1>0, <2>1, <3>2, CountWrote DEF From, At
    <3> QED  BY <2>4, <3>1, <3>2, IncidentCreated
  <2> QED  BY <1>4, <2>2, <2>3, <2>4
<1>5. ASSUME NEW h \in Calls, RecordEvent(h) \/ RecordNotified(h) \/ AcknowledgeIncident(h)
      PROVE  CountInv'
  <2>1. CASE RecordEvent(h)
    <3>1. /\ Continues(h, {"event"}, {"config"}) /\ At(h, "config")' /\ held[h].incident \in Ids
          /\ log' = log \union {<<held[h].incident, held[h].event, h>>} /\ incident' = incident
      BY <2>1, EventRecorded
    <3>2. ASSUME NEW i \in Ids
          PROVE  Counted(i)' \subseteq Occurrences(i)
      <4>1. ASSUME NEW e \in Counted(i)'
            PROVE  e \in Occurrences(i)
        <5>1. e \in log' /\ e[1] = i /\ e[2] \in {"OPENED", "OCCURRENCE"}
          BY <4>1 DEF Counted
        <5>2. CASE e \in log
          BY <5>1, <5>2 DEF Occurrences, Counted
        <5>3. CASE e = <<held[h].incident, held[h].event, h>>
          <6>1. held[h].incident = i /\ held[h].event \in {"OPENED", "OCCURRENCE"}
            BY <5>1, <5>3
          <6>2. h \in Counting(i)
            BY <3>1, <6>1 DEF Counting, Continues, From, At
          <6> QED  BY <5>3, <6>1, <6>2 DEF Occurrences
        <5> QED  BY <3>1, <5>1, <5>2, <5>3
      <4> QED  BY <4>1
    <3>3. \A i \in Ids : incident'[i].count >= incident[i].count /\ Counted(i)' \subseteq Occurrences(i)
      BY <1>0, <3>1, <3>2
    <3> QED  BY <1>0, <3>1, <3>3, CountStep DEF Continues, Steps, At
  <2>2. CASE RecordNotified(h)
    <3>1. /\ Continues(h, {"notified"}, {"complete", "health"}) /\ held[h].incident \in Ids /\ log' = log
          /\ incident' = [incident EXCEPT ![held[h].incident] = Notified(@, now)]
      BY <2>2, NotificationRecorded
    <3>2. \A i \in Ids : incident'[i].count = incident[i].count
      BY <3>1 DEF Notified, TablesInv, IncidentRows
    <3>3. \A i \in Ids : incident'[i].count >= incident[i].count /\ Counted(i)' \subseteq Occurrences(i)
      BY <1>0, <3>1, <3>2 DEF Counted, Occurrences
    <3> QED  BY <1>0, <3>1, <3>3, CountStep DEF Continues, Steps, At
  <2>3. CASE AcknowledgeIncident(h)
    <3>0. PICK i : i = call[h].arg.incident
      OBVIOUS
    <3>1. /\ Continues(h, {"upsert"}, {"complete", "fail"}) /\ i \in Ids
          /\ \/ UNCHANGED <<incident, log>>
             \/ /\ incident' = [incident EXCEPT ![i] = Acknowledged(@)]
                /\ log' = log \union {<<i, "ACKNOWLEDGED", h>>}
      BY <2>3, <3>0, Acknowledging
    <3>2. \A j \in Ids : incident'[j].count = incident[j].count
      BY <3>1 DEF Acknowledged, TablesInv, IncidentRows
    <3>3. \A j \in Ids : Counted(j)' \subseteq Occurrences(j)
      BY <3>1 DEF Counted, Occurrences
    <3>4. \A j \in Ids : incident'[j].count >= incident[j].count /\ Counted(j)' \subseteq Occurrences(j)
      BY <1>0, <3>2, <3>3
    <3> QED  BY <1>0, <3>1, <3>4, CountStep DEF Continues, Steps, At
  <2> QED  BY <1>5, <2>1, <2>2, <2>3
<1>6. CASE Beside
  <2>1. UNCHANGED <<call, held, incident, log>>
    BY <1>6, BesideEffect
  <2> QED  BY <2>1 DEF CountInv, Occurrences, Counted, Counting, At
<1>7. ASSUME NEW h \in Calls, Works(h)
      PROVE  CountInv'
  BY <1>3, <1>4, <1>5, <1>7 DEF Works
<1> QED  BY <1>2, <1>6, <1>7, NextSplits, CallingSplits

-----------------------------------------------------------------------------
(* What any step may do to an incident, and to the channel *)

\* No step reopens an incident, and what is noted in it is the present.
LEMMA RowsMove ==
    ASSUME PlaceInv, TablesInv, [OpsNext]_operationVars, NEW i \in Ids
    PROVE  /\ incident[i].status = "RESOLVED" => incident'[i].status = "RESOLVED"
           /\ Exists(i) => incident'[i].notified \in {incident[i].notified, now}
<1>0. incident \in [Ids -> IncidentRows]
  BY DEF TablesInv
<1>1. CASE incident' = incident
  BY <1>1
<1>2. ASSUME NEW h \in Calls, RecordOccurrence(h) \/ CreateIncident(h) \/ ResolveIncident(h)
      PROVE  \/ incident' = incident
             \/ \E j, row : /\ incident' = [incident EXCEPT ![j] = row]
                            /\ incident[j].status = "RESOLVED" => row.status = "RESOLVED"
                            /\ Exists(j) => row.notified = incident[j].notified
  <2>1. CASE RecordOccurrence(h)
    <3>1. PICK j, row : Wrote(h, j, row, "OCCURRENCE") /\ row.status = incident[j].status /\ row.notified = incident[j].notified
      BY <2>1, OccurrenceRecorded
    <3> QED  BY <3>1 DEF Wrote
  <2>2. CASE ResolveIncident(h)
    <3>1. PICK j, row : Wrote(h, j, row, "RESOLVED") /\ row.status = "RESOLVED" /\ row.notified = incident[j].notified
      BY <2>2, IncidentResolved
    <3> QED  BY <3>1 DEF Wrote
  <2>3. CASE CreateIncident(h)
    <3>1. CASE UNCHANGED opsVars
      BY <3>1 DEF opsVars, incidentVars
    <3>2. ASSUME NEW row, Wrote(h, h, row, "OPENED"), ~Exists(h)
          PROVE  \E j : /\ incident' = [incident EXCEPT ![j] = row]
                        /\ incident[j].status = "RESOLVED" => row.status = "RESOLVED"
                        /\ Exists(j) => row.notified = incident[j].notified
      BY <3>2 DEF Wrote, Exists
    <3> QED  BY <2>3, <3>1, <3>2, IncidentCreated
  <2> QED  BY <1>2, <2>1, <2>2, <2>3
<1>3. ASSUME NEW h \in Calls, RecordNotified(h) \/ AcknowledgeIncident(h)
      PROVE  \/ incident' = incident
             \/ \E j \in Ids : incident' = [incident EXCEPT ![j] = Notified(@, now)]
             \/ \E j \in Ids : incident' = [incident EXCEPT ![j] = Acknowledged(@)]
  BY <1>3, NotificationRecorded, Acknowledging
<1>4. ASSUME NEW j, NEW row, incident' = [incident EXCEPT ![j] = row],
             incident[j].status = "RESOLVED" => row.status = "RESOLVED", Exists(j) => row.notified = incident[j].notified
      PROVE  /\ incident[i].status = "RESOLVED" => incident'[i].status = "RESOLVED"
             /\ Exists(i) => incident'[i].notified \in {incident[i].notified, now}
  BY <1>0, <1>4
<1>5. ASSUME NEW j \in Ids, incident' = [incident EXCEPT ![j] = Notified(@, now)]
      PROVE  /\ incident[i].status = "RESOLVED" => incident'[i].status = "RESOLVED"
             /\ incident'[i].notified \in {incident[i].notified, now}
  BY <1>0, <1>5 DEF Notified, IncidentRows
<1>6. ASSUME NEW j \in Ids, incident' = [incident EXCEPT ![j] = Acknowledged(@)]
      PROVE  /\ incident[i].status = "RESOLVED" => incident'[i].status = "RESOLVED"
             /\ incident'[i].notified = incident[i].notified
  BY <1>0, <1>6 DEF Acknowledged, IncidentRows
<1>7. CASE Beside
  BY <1>1, <1>7, BesideEffect
<1>8. ASSUME NEW h \in Calls, Calling(h)
      PROVE  \/ incident' = incident
             \/ RecordOccurrence(h) \/ CreateIncident(h) \/ ResolveIncident(h) \/ RecordNotified(h) \/ AcknowledgeIncident(h)
  <2>1. CASE (\E key \in Keys : Routes(h, key)) \/ RunProbe(h)
    BY <2>1, Arrival DEF Joins, incidentVars
  <2>2. CASE Starts(h)
    BY <2>2, Starting DEF Starts, opsVars, incidentVars
  <2>3. CASE Settles(h)
    BY <2>3, Settling DEF Settles
  <2>4. CASE Fault(h)
    BY <2>4, Failing
  <2>5. CASE RecordHealth(h) \/ FindIncident(h) \/ ReadConfiguration(h) \/ ReadOpenIncident(h) \/ ReadChannel(h)
    BY <2>5 DEF RecordHealth, FindIncident, ReadConfiguration, ReadOpenIncident, ReadChannel, opsVars, incidentVars
  <2>6. CASE RecordEvent(h) \/ UpsertConfiguration(h) \/ CreateDelivery(h) \/ CreateTest(h) \/ SendMessage(h)
    BY <2>6 DEF RecordEvent, UpsertConfiguration, CreateDelivery, CreateTest, SendMessage, incidentVars
  <2> QED  BY <1>8, <2>1, <2>2, <2>3, <2>4, <2>5, <2>6, CallingSplits DEF Works
<1> QED  BY <1>1, <1>2, <1>3, <1>4, <1>5, <1>6, <1>7, <1>8, NextSplits

\* Nobody but a configuration changes the cooldown or drops the credential.
LEMMA ChannelMoves ==
    ASSUME PlaceInv, TablesInv, [OpsNext]_operationVars
    PROVE  \/ config'.cooldown = config.cooldown /\ (config.credential => config'.credential)
           \/ \E h \in Calls : UpsertConfiguration(h)
<1>1. CASE Beside
  BY <1>1, BesideEffect
<1>2. ASSUME NEW h \in Calls, Calling(h)
      PROVE  config' = config \/ UpsertConfiguration(h)
  <2>1. CASE (\E key \in Keys : Routes(h, key)) \/ RunProbe(h)
    BY <2>1, Arrival DEF Joins, alertVars
  <2>2. CASE Starts(h)
    BY <2>2, Starting DEF Starts, opsVars, alertVars
  <2>3. CASE Settles(h)
    BY <2>3, Settling DEF Settles
  <2>4. CASE Fault(h)
    BY <2>4, Failing
  <2>5. CASE RecordHealth(h) \/ FindIncident(h) \/ ReadConfiguration(h) \/ ReadOpenIncident(h) \/ ReadChannel(h)
    BY <2>5 DEF RecordHealth, FindIncident, ReadConfiguration, ReadOpenIncident, ReadChannel, opsVars, alertVars
  <2>6. CASE RecordOccurrence(h) \/ CreateIncident(h) \/ ResolveIncident(h)
    BY <2>6 DEF RecordOccurrence, CreateIncident, ResolveIncident, Writes, opsVars, alertVars
  <2>7. CASE RecordEvent(h) \/ RecordNotified(h) \/ AcknowledgeIncident(h) \/ CreateDelivery(h) \/ CreateTest(h) \/ SendMessage(h)
    BY <2>7 DEF RecordEvent, RecordNotified, AcknowledgeIncident, CreateDelivery, CreateTest, SendMessage, alertVars
  <2> QED  BY <1>2, <2>1, <2>2, <2>3, <2>4, <2>5, <2>6, <2>7, CallingSplits DEF Works
<1> QED  BY <1>1, <1>2, NextSplits

-----------------------------------------------------------------------------
(* The alerts *)

\* The channel has one of the cooldowns that administrators choose from.
LEMMA CooldownKept ==
    ASSUME PlaceInv, TablesInv, AlertInv, [OpsNext]_operationVars
    PROVE  config'.cooldown \in Cooldowns
<1>1. CASE config'.cooldown = config.cooldown
  BY <1>1 DEF AlertInv
<1>2. ASSUME NEW h \in Calls, UpsertConfiguration(h)
      PROVE  config'.cooldown \in Cooldowns
  BY <1>2, ConfigurationWritten DEF AlertInv
<1> QED  BY <1>1, <1>2, ChannelMoves

\* The types of what an alert is about.
LEMMA AlertTypes ==
    ASSUME PlaceInv, TablesInv, AlertInv
    PROVE  /\ now \in Nat /\ config.cooldown \in Nat
           /\ \A h \in Calls : /\ delivery[h].at \in Nat /\ delivery[h].at <= now
                               /\ held[h].notified \in Nat /\ (Told(h) => delivery[h].incident \in Ids)
           /\ \A i \in Ids : incident[i].notified \in Nat
<1>1. \A h \in Calls : delivery[h] \in DeliveryRows(Ids \union {Null}) /\ held[h] \in HeldRows /\ AlertOk(h)
  BY DEF PlaceInv, TablesInv, AlertInv
<1>2. \A h \in Calls : delivery[h].at \in Times /\ delivery[h].at <= now /\ held[h].notified \in Times \union {Never}
  BY <1>1 DEF DeliveryRows, HeldRows, AlertOk
<1>3. \A i \in Ids : incident[i].notified \in Times \union {Never}
  BY DEF TablesInv, IncidentRows
<1>4. \A h \in Calls : Told(h) => delivery[h].incident \in Ids
  BY DEF TablesInv, Exists
<1> QED  BY <1>2, <1>3, <1>4, HeldTypes DEF PlaceInv, TablesInv, ConfigRows

\* What has been noted of an alert stays.
LEMMA NotedKept ==
    ASSUME PlaceInv, TablesInv, AlertInv, [OpsNext]_operationVars, NEW g \in Calls, Told(g), Noted(g),
           delivery'[g].incident = delivery[g].incident, delivery'[g].at = delivery[g].at
    PROVE  Noted(g)'
<1>1. PICK i : i = delivery[g].incident
  OBVIOUS
<1>2. Exists(i)
  BY <1>1 DEF TablesInv
<1>3. incident'[i].notified \in {incident[i].notified, now}
  BY <1>2, RowsMove DEF Exists
<1>4. incident[i].notified # Never /\ delivery[g].at <= incident[i].notified
  BY <1>1 DEF Noted
<1>5. delivery[g].at <= now /\ now # Never
  BY AlertTypes, HeldTypes DEF PlaceInv
<1>6. incident'[i].notified # Never /\ delivery'[g].at <= incident'[i].notified
  BY <1>3, <1>4, <1>5
<1> QED  BY <1>1, <1>6 DEF Noted

\* A step of h is none of the other calls.
LEMMA AlertStep ==
    ASSUME PlaceInv, TablesInv, AlertInv, [OpsNext]_operationVars, NEW h \in Calls, ~At(h, "done"), OthersStay(h), OthersHold(h),
           now' = now, failed \subseteq failed', \A f \in Calls \ {h} : past'[f] = past[f],
           config'.cooldown \in Cooldowns,
           AlertOk(h)', Informed(h)', Spaced(h)'
    PROVE  AlertInv'
<1>1. ASSUME NEW f \in Calls \ {h}
      PROVE  AlertOk(f)' /\ Informed(f)' /\ Spaced(f)'
  <2>1. call'[f] = call[f] /\ held'[f] = held[f] /\ delivery'[f] = delivery[f] /\ past'[f] = past[f]
    BY DEF OthersStay, OthersHold
  <2>2. AlertOk(f) /\ Informed(f) /\ Spaced(f)
    BY DEF AlertInv
  <2>3. ASSUME NEW g \in Calls, Earlier(g, f)'
        PROVE  Earlier(g, f) /\ delivery'[g] = delivery[g]
    <3>1. g \in past[f]
      BY <2>1, <2>3 DEF Earlier
    <3>2. g # h
      BY <3>1 DEF PlaceInv
    <3> QED  BY <2>1, <2>3, <3>2 DEF Earlier, OthersHold
  <2>4. Informed(f)'
    BY <2>1, <2>2, <2>3 DEF Informed
  <2>5. Spaced(f)'
    BY <2>1, <2>2, <2>3 DEF Spaced
  <2>6. Detected(f)' = Detected(f)
    BY <2>1 DEF Detected
  <2>7. delivery'[f].kind = "ALERT" /\ Noted(f) => Noted(f)'
    BY <2>1, NotedKept DEF Told
  <2>8. AlertOk(f)'
    <3> HIDE DEF Noted, Detected
    <3> QED  BY <2>1, <2>2, <2>6, <2>7 DEF AlertOk, At
  <2> QED  BY <2>4, <2>5, <2>8
<1>2. \A f \in Calls : AlertOk(f)' /\ Informed(f)' /\ Spaced(f)'
  <2> SUFFICES ASSUME NEW f \in Calls
               PROVE  AlertOk(f)' /\ Informed(f)' /\ Spaced(f)'
    OBVIOUS
  <2>1. CASE f = h
    BY <2>1
  <2>2. CASE f # h
    BY <1>1, <2>2
  <2> QED  BY <2>1, <2>2
<1> HIDE DEF AlertOk, Informed, Spaced
<1> QED  BY <1>2 DEF AlertInv

\* A call that goes on with what it has read is informed as before.
LEMMA InformedKept ==
    ASSUME PlaceInv, AlertInv, NEW h \in Calls, ~At(h, "done"), OthersHold(h), past' = past, failed \subseteq failed',
           call'[h].at \in {"event", "config", "deliver"} => held'[h] = held[h] /\ call[h].at \in {"event", "config", "deliver"}
    PROVE  Informed(h)'
<1>1. ASSUME NEW g \in Calls, Earlier(g, h)'
      PROVE  Earlier(g, h) /\ delivery'[g] = delivery[g]
  <2>1. g \in past[h]
    BY <1>1 DEF Earlier
  <2>2. g # h
    BY <2>1 DEF PlaceInv
  <2> QED  BY <1>1, <2>2 DEF Earlier, OthersHold
<1>2. Informed(h)
  BY DEF AlertInv
<1> QED  BY <1>1, <1>2 DEF Informed

\* A step that leaves the alert of the call as it is.
LEMMA AlertQuiet ==
    ASSUME PlaceInv, TablesInv, AlertInv, [OpsNext]_operationVars, NEW h \in Calls, ~At(h, "done"), OthersStay(h), OthersHold(h),
           UNCHANGED <<now, past>>, failed \subseteq failed',
           config'.cooldown \in Cooldowns,
           At(h, "done")' \/ (call'[h].op = call[h].op /\ ~At(h, "idle")'),
           delivery'[h].kind = delivery[h].kind, delivery'[h].incident = delivery[h].incident, delivery'[h].at = delivery[h].at,
           call'[h].at \in {"send", "notified"} => At(h, "send") /\ held'[h] = held[h],
           At(h, "notified")' => delivery[h].kind = "ALERT",
           delivery[h].kind = "ALERT" /\ call[h].at \in {"send", "notified", "fail"} =>
               call'[h].at \in {"send", "notified", "fail"} \/ h \in failed' \/ Noted(h)',
           At(h, "deliver")' /\ Detected(h)' => held'[h].notified = Never \/ \E c \in Cooldowns : now - held'[h].notified >= c,
           Informed(h)'
    PROVE  AlertInv'
<1>0. AlertOk(h) /\ Spaced(h)
  BY DEF AlertInv
<1>1. Spaced(h)'
  <2>1. ASSUME NEW g \in Calls, Earlier(g, h)'
        PROVE  Earlier(g, h) /\ delivery'[g] = delivery[g]
    <3>1. g \in past[h]
      BY <2>1 DEF Earlier
    <3>2. g # h
      BY <3>1 DEF PlaceInv
    <3> QED  BY <2>1, <3>2 DEF Earlier, OthersHold
  <2> QED  BY <1>0, <2>1 DEF Spaced
<1>2. delivery'[h].kind = "ALERT" /\ Noted(h) => Noted(h)'
  BY NotedKept DEF Told
<1>3. AlertOk(h)'
  <2> HIDE DEF Noted, Detected
  <2>1. delivery'[h].at <= now' /\ (At(h, "notified")' => delivery'[h].kind = "ALERT")
    BY <1>0 DEF AlertOk
  <2>2. ASSUME delivery'[h].kind = "ALERT"
        PROVE  /\ ~At(h, "idle")' /\ (At(h, "done")' \/ call'[h].op \in {"report", "probe"})
               /\ call'[h].at \in {"send", "notified"} => delivery'[h].incident = held'[h].incident
               /\ call'[h].at \in {"send", "notified", "fail"} \/ h \in failed' \/ Noted(h)'
    BY <1>0, <1>2, <2>2 DEF AlertOk, At
  <2>3. At(h, "deliver")' /\ Detected(h)' => held'[h].notified = Never \/ \E c \in Cooldowns : now' - held'[h].notified >= c
    OBVIOUS
  <2> QED  BY <2>1, <2>2, <2>3 DEF AlertOk
<1>4. \A f \in Calls \ {h} : past'[f] = past[f]
  OBVIOUS
<1> HIDE DEF AlertOk, Informed, Spaced
<1> QED  BY <1>1, <1>3, <1>4, AlertStep

\* A statement that writes an incident tells its call what had been noted of it.
LEMMA AlertWrote ==
    ASSUME PlaceInv, PlaceInv', TablesInv, AlertInv, [OpsNext]_operationVars, NEW h \in Calls, OthersStay(h), OthersHold(h),
           call[h].at \in {"occur", "create", "resolve"}, config'.cooldown \in Cooldowns,
           At(h, "done")' \/ (SameRequest(h) /\ call'[h].at \in {"event", "complete", "health"}),
           NEW i, NEW row, NEW event, Wrote(h, i, row, event),
           (Exists(i) /\ row.notified = incident[i].notified) \/ ~Exists(i)
    PROVE  AlertInv'
<1>1. /\ ~At(h, "done") /\ UNCHANGED <<now, past, failed, delivery, config>>
      /\ held'[h].incident = i /\ held'[h].notified = row.notified
  BY DEF Wrote, At
<1>2. Informed(h)'
  <2> SUFFICES ASSUME NEW g \in Calls, Earlier(g, h)', delivery'[g].incident = i
               PROVE  held'[h].notified # Never /\ delivery'[g].at <= held'[h].notified
    BY <1>1 DEF Informed
  <2>1. delivery[g].kind = "ALERT" /\ delivery[g].incident = i /\ g \notin failed /\ At(g, "done")
    BY <1>1 DEF Earlier, PlaceInv
  <2>2. Noted(g)
    BY <2>1 DEF AlertInv, AlertOk, At
  <2>3. Exists(i)
    BY <2>1 DEF TablesInv, Told
  <2> QED  BY <1>1, <2>1, <2>2, <2>3 DEF Noted
<1>3. At(h, "done")' \/ (call'[h].op = call[h].op /\ ~At(h, "idle")')
  BY DEF SameRequest, At
<1>4. call'[h].at \notin {"send", "notified", "deliver"}
  BY DEF At
<1> HIDE DEF Informed, Noted, Detected
<1> QED  BY <1>1, <1>2, <1>3, <1>4, AlertQuiet DEF At

\* An alert is made: every earlier one of its incident is a cooldown ago.
LEMMA AlertDelivered ==
    ASSUME PlaceInv, TablesInv, AlertInv, [OpsNext]_operationVars, NEW h \in Calls, CreateDelivery(h),
           config'.cooldown \in Cooldowns
    PROVE  AlertInv'
<1>1. /\ Continues(h, {"deliver"}, {"send"}) /\ SameRequest(h) /\ At(h, "send")'
      /\ delivery'[h].kind = (IF Detected(h) THEN "ALERT" ELSE "RECOVERY")
      /\ delivery'[h].incident = held[h].incident /\ delivery'[h].at = now
  BY DeliveryCreated
<1>2. /\ ~At(h, "done") /\ At(h, "deliver") /\ OthersStay(h) /\ OthersHold(h) /\ UNCHANGED <<held, now, past, failed>>
      /\ call[h].op \in {"report", "probe"}
  BY <1>1, Served DEF Continues, From, Steps, At, Monitoring
<1>3. AlertOk(h) /\ Informed(h)
  BY DEF AlertInv
<1>4. Informed(h)'
  BY <1>1 DEF Informed, At
<1>5. AlertOk(h)'
  <2>1. delivery'[h].at <= now'
    BY <1>1, <1>2, AlertTypes
  <2> HIDE DEF Noted, Detected
  <2> QED  BY <1>1, <1>2, <2>1 DEF AlertOk, At, SameRequest
<1>6. Spaced(h)'
  <2> SUFFICES ASSUME NEW g \in Calls, Earlier(g, h)', delivery'[h].kind = "ALERT", delivery'[g].incident = held[h].incident
               PROVE  \E c \in Cooldowns : delivery'[h].at - delivery'[g].at >= c
    BY <1>1 DEF Spaced
  <2>1. Detected(h)
    BY <1>1
  <2>2. g # h
    BY <1>2 DEF Earlier, PlaceInv
  <2>3. delivery'[g] = delivery[g] /\ Earlier(g, h)
    BY <1>2, <2>2 DEF OthersHold, Earlier
  <2>4. held[h].notified # Never /\ delivery[g].at <= held[h].notified
    BY <1>2, <1>3, <2>3 DEF Informed, At
  <2>5. PICK c \in Cooldowns : now - held[h].notified >= c
    BY <1>2, <1>3, <2>1, <2>4 DEF AlertOk
  <2>6. c \in Nat
    BY OperationsAssumption
  <2> QED  BY <1>1, <2>3, <2>4, <2>5, <2>6, AlertTypes
<1> HIDE DEF AlertOk, Informed, Spaced
<1> QED  BY <1>2, <1>4, <1>5, <1>6, AlertStep

\* A test alert is of no incident.
LEMMA AlertTested ==
    ASSUME PlaceInv, TablesInv, AlertInv, [OpsNext]_operationVars, NEW h \in Calls, CreateTest(h),
           config'.cooldown \in Cooldowns
    PROVE  AlertInv'
<1>1. /\ Continues(h, {"run"}, {"send"}) /\ delivery'[h].kind = "TEST" /\ delivery'[h].at = now /\ call[h].op = "test"
  BY TestCreated
<1>2. /\ ~At(h, "done") /\ OthersStay(h) /\ OthersHold(h) /\ UNCHANGED <<held, now, past, failed>> /\ At(h, "send")'
  BY <1>1 DEF Continues, From, Steps, At
<1>3. Informed(h)' /\ Spaced(h)'
  BY <1>1, <1>2 DEF Informed, Spaced, At
<1>4. AlertOk(h)'
  <2>1. delivery'[h].at <= now'
    BY <1>1, <1>2, AlertTypes
  <2> QED  BY <1>1, <1>2, <2>1 DEF AlertOk, At
<1> HIDE DEF AlertOk, Informed, Spaced
<1> QED  BY <1>2, <1>3, <1>4, AlertStep

\* The alert of the call is noted in its incident.
LEMMA AlertNoted ==
    ASSUME PlaceInv, TablesInv, AlertInv, [OpsNext]_operationVars, NEW h \in Calls, RecordNotified(h),
           config'.cooldown \in Cooldowns
    PROVE  AlertInv'
<1>1. /\ Continues(h, {"notified"}, {"complete", "health"}) /\ held[h].incident \in Ids /\ delivery' = delivery
      /\ incident' = [incident EXCEPT ![held[h].incident] = Notified(@, now)]
  BY NotificationRecorded
<1>2. /\ ~At(h, "done") /\ At(h, "notified") /\ OthersStay(h) /\ OthersHold(h) /\ UNCHANGED <<held, now, past, failed>>
      /\ At(h, "done")' \/ (SameRequest(h) /\ call'[h].at \in {"complete", "health"})
  BY <1>1 DEF Continues, From, Steps, At
<1>3. Noted(h)'
  <2>1. PICK i : i = held[h].incident
    OBVIOUS
  <2>2. delivery[h].incident = i /\ delivery[h].at <= now /\ i \in Ids
    BY <1>1, <1>2, <2>1 DEF AlertInv, AlertOk, At
  <2>3. incident'[i].notified = now
    BY <1>1, <2>1, <2>2 DEF TablesInv, IncidentRows, Notified
  <2>4. now # Never
    BY HeldTypes DEF PlaceInv
  <2> QED  BY <1>1, <2>2, <2>3, <2>4 DEF Noted
<1>4. Informed(h)'
  BY <1>2 DEF Informed, At
<1>5. /\ At(h, "done")' \/ (call'[h].op = call[h].op /\ ~At(h, "idle")')
      /\ call'[h].at \notin {"send", "notified", "deliver"}
  BY <1>2 DEF SameRequest, At
<1> HIDE DEF Informed, Noted, Detected
<1> QED  BY <1>1, <1>2, <1>3, <1>4, <1>5, AlertQuiet DEF At

\* The alert goes on to be noted.
LEMMA AlertSent ==
    ASSUME PlaceInv, TablesInv, AlertInv, [OpsNext]_operationVars, NEW h \in Calls, SendMessage(h),
           config'.cooldown \in Cooldowns
    PROVE  AlertInv'
<1>1. /\ Continues(h, {"send"}, {"notified", "complete", "health"})
      /\ delivery'[h].kind = delivery[h].kind /\ delivery'[h].incident = delivery[h].incident
      /\ delivery'[h].at = delivery[h].at
      /\ delivery[h].kind = "ALERT" => At(h, "notified")'
      /\ At(h, "notified")' => delivery[h].kind = "ALERT"
  BY MessageSent
<1>2. /\ ~At(h, "done") /\ At(h, "send") /\ OthersStay(h) /\ OthersHold(h) /\ UNCHANGED <<held, now, past, failed>>
      /\ At(h, "done")' \/ (SameRequest(h) /\ call'[h].at \in {"notified", "complete", "health"})
  BY <1>1 DEF Continues, From, Steps, At
<1>3. Informed(h)'
  BY <1>2 DEF Informed, At
<1>4. /\ At(h, "done")' \/ (call'[h].op = call[h].op /\ ~At(h, "idle")')
      /\ call'[h].at \notin {"send", "deliver"}
  BY <1>2 DEF SameRequest, At
<1> HIDE DEF Informed, Noted, Detected
<1> QED  BY <1>1, <1>2, <1>3, <1>4, AlertQuiet DEF At

\* The call decides by what it has read of the incident.
LEMMA AlertDecided ==
    ASSUME PlaceInv, TablesInv, AlertInv, [OpsNext]_operationVars, NEW h \in Calls, ReadConfiguration(h),
           config'.cooldown \in Cooldowns
    PROVE  AlertInv'
<1>1. Continues(h, {"config"}, {"deliver", "complete", "health"}) /\ UNCHANGED <<config, delivery>>
  BY ConfigurationRead
<1>2. /\ ~At(h, "done") /\ At(h, "config") /\ OthersStay(h) /\ OthersHold(h) /\ UNCHANGED <<held, now, past, failed>>
      /\ At(h, "done")' \/ (SameRequest(h) /\ call'[h].at \in {"deliver", "complete", "health"})
  BY <1>1 DEF Continues, From, Steps, At
<1>3. Informed(h)'
  BY <1>2, InformedKept DEF At
<1>4. /\ At(h, "done")' \/ (call'[h].op = call[h].op /\ ~At(h, "idle")')
      /\ call'[h].at \notin {"send", "notified"}
  BY <1>2 DEF SameRequest, At
<1>5. ASSUME At(h, "deliver")', Detected(h)'
      PROVE  held'[h].notified = Never \/ \E c \in Cooldowns : now - held'[h].notified >= c
  <2>1. SameRequest(h)
    BY <1>2, <1>5 DEF At
  <2>2. Detected(h)
    BY <1>2, <1>5, <2>1, SameKind
  <2>3. CASE ShouldAlert(config, Sought(h), held[h].notified, now)
    BY <1>2, <2>3 DEF ShouldAlert, AlertInv
  <2>4. CASE ~ShouldAlert(config, Sought(h), held[h].notified, now)
    <3>1. Done(h)
      BY <2>2, <2>4 DEF ReadConfiguration
    <3> QED  BY <1>1, <1>5, <3>1, DoneEffect DEF At, Continues
  <2> QED  BY <2>3, <2>4
<1> HIDE DEF Informed, Noted, Detected
<1> QED  BY <1>1, <1>2, <1>3, <1>4, <1>5, AlertQuiet DEF At

\* What a step of a call that makes no alert comes to.
LEMMA AlertElsewhere ==
    ASSUME PlaceInv, TablesInv, AlertInv, [OpsNext]_operationVars, NEW h \in Calls, ~At(h, "done"), OthersStay(h), OthersHold(h),
           UNCHANGED <<now, past, delivery>>, failed \subseteq failed',
           config'.cooldown \in Cooldowns,
           At(h, "done")' \/ (call'[h].op = call[h].op /\ ~At(h, "idle")'),
           \/ call'[h].at \notin {"event", "config", "deliver", "send", "notified"}
           \/ At(h, "event") /\ At(h, "config")' /\ held' = held,
           \/ call[h].at \notin {"send", "notified", "fail"} \/ At(h, "fail")' \/ h \in failed'
           \/ delivery[h].kind # "ALERT"
    PROVE  AlertInv'
<1>1. Informed(h)'
  BY InformedKept DEF At
<1>2. call'[h].at \notin {"send", "notified", "deliver"}
  BY DEF At
<1> HIDE DEF Informed, Noted, Detected
<1> QED  BY <1>1, <1>2, AlertQuiet DEF At

\* Every step keeps alerts apart.
LEMMA AlertKept ==
    ASSUME PlaceInv, TablesInv, AlertInv, [OpsNext]_operationVars
    PROVE  AlertInv'
<1>0. config'.cooldown \in Cooldowns
  BY CooldownKept
<1>1. ASSUME NEW h \in Calls, (\E key \in Keys : Routes(h, key)) \/ RunProbe(h)
      PROVE  AlertInv'
  <2>1. /\ OthersStay(h) /\ At(h, "idle") /\ UNCHANGED <<now, failed, held, delivery>>
        /\ \A f \in Calls \ {h} : past'[f] = past[f]
        /\ At(h, "done")' \/ call'[h].at \in {"begin", "health"}
    BY <1>1, Arrival DEF Joins, alertVars, PlaceInv
  <2>2. delivery[h].kind # "ALERT" /\ delivery[h].at <= now
    BY <2>1 DEF AlertInv, AlertOk
  <2>3. AlertOk(h)' /\ Informed(h)' /\ Spaced(h)'
    BY <2>1, <2>2 DEF AlertOk, Informed, Spaced, At
  <2>4. OthersHold(h) /\ ~At(h, "done")
    BY <2>1 DEF OthersHold, At
  <2> HIDE DEF AlertOk, Informed, Spaced
  <2> QED  BY <1>0, <2>1, <2>3, <2>4, AlertStep
<1>2. ASSUME NEW h \in Calls, Starts(h)
      PROVE  AlertInv'
  <2>1. /\ UNCHANGED opsVars /\ At(h, "begin") /\ OthersStay(h)
        /\ \/ At(h, "done")'
           \/ call'[h].at \in {"find", "run"} /\ call'[h].op = call[h].op
    BY <1>2, Starting DEF Starts
  <2>2. UNCHANGED <<now, past, failed, held, delivery>>
    BY <2>1 DEF opsVars, timeVars, alertVars
  <2> QED  BY <1>0, <2>1, <2>2, AlertElsewhere DEF At, OthersHold
<1>3. ASSUME NEW h \in Calls, Settles(h)
      PROVE  AlertInv'
  <2>1. /\ OthersHold(h) /\ From(h, {"complete", "fail"}) /\ OthersStay(h) /\ At(h, "done")'
        /\ failed' = failed \/ failed' = failed \union {h}
        /\ call[h].at = "fail" /\ call[h].op = "report" => failed' = failed \union {h}
        /\ UNCHANGED <<now, past, delivery>>
    BY <1>3, Settling DEF Settles
  <2>2. call[h].op # "probe" /\ ~At(h, "done")
    BY <1>3, <2>1 DEF Settles, SettleReport, SettleAcknowledge, SettleConfigure, SettleTest, From, At
  <2>3. delivery[h].kind = "ALERT" => call[h].op = "report"
    BY <2>2 DEF AlertInv, AlertOk
  <2> QED  BY <1>0, <2>1, <2>2, <2>3, AlertElsewhere DEF From, At
<1>4. ASSUME NEW h \in Calls, Fault(h)
      PROVE  AlertInv'
  <2>1. /\ OthersHold(h) /\ Active(h) /\ OthersStay(h) /\ UNCHANGED <<now, past, delivery>>
        /\ \/ failed' = failed /\ SameRequest(h) /\ At(h, "fail")'
           \/ failed' = failed \union {h} /\ At(h, "done")'
    BY <1>4, Failing
  <2> QED  BY <1>0, <2>1, AlertElsewhere DEF Active, At, SameRequest
<1>5. ASSUME NEW h \in Calls, Works(h)
      PROVE  AlertInv'
  <2>1. /\ PlaceInv' /\ OthersHold(h) /\ OthersStay(h) /\ Active(h) /\ ~At(h, "done")
        /\ UNCHANGED <<now, past, failed>>
        /\ At(h, "done")' \/ (call'[h].op = call[h].op /\ ~At(h, "idle")')
    BY <1>5, Working DEF Active, At, SameRequest
  <2>2. CASE RecordHealth(h) \/ FindIncident(h) \/ ReadChannel(h)
    <3>1. /\ From(h, {"health", "find", "run"})
          /\ At(h, "done")' \/ call'[h].at \in {"find", "occur", "create", "resolve", "complete", "health", "fail", "upsert"}
      BY <2>2, HealthRecorded, Finding, ChannelRead DEF From, Steps
    <3>2. delivery' = delivery
      BY <2>2 DEF RecordHealth, FindIncident, ReadChannel, alertVars
    <3> QED  BY <1>0, <2>1, <3>1, <3>2, AlertElsewhere DEF From, At
  <2>3. CASE ReadOpenIncident(h) \/ AcknowledgeIncident(h) \/ UpsertConfiguration(h)
    <3>1. /\ From(h, {"run", "upsert"}) /\ delivery' = delivery
          /\ At(h, "done")' \/ call'[h].at \in {"upsert", "complete", "fail"}
      BY <2>3, OpenIncidentRead, Acknowledging, ConfigurationWritten DEF Continues, From, Steps
    <3> QED  BY <1>0, <2>1, <3>1, AlertElsewhere DEF From, At
  <2>4. CASE RecordEvent(h)
    <3>1. At(h, "event") /\ At(h, "config")' /\ held' = held /\ delivery' = delivery
      BY <2>4, EventRecorded DEF Continues, From, At
    <3> QED  BY <1>0, <2>1, <3>1, AlertElsewhere DEF At
  <2>5. CASE RecordOccurrence(h)
    <3>1. PICK i, row : Wrote(h, i, row, "OCCURRENCE") /\ Exists(i) /\ Writes(h, i, row, "OCCURRENCE") /\ From(h, {"occur"})
                        /\ row.notified = incident[i].notified
      BY <2>5, OccurrenceRecorded
    <3>2. Steps(h, {"event", "complete", "health"})
      BY <3>1, Writing DEF Wrote, From
    <3> QED  BY <1>0, <2>1, <3>1, <3>2, AlertWrote DEF Steps, From
  <2>6. CASE ResolveIncident(h)
    <3>1. PICK i, row : Wrote(h, i, row, "RESOLVED") /\ Exists(i) /\ Writes(h, i, row, "RESOLVED") /\ From(h, {"resolve"})
                        /\ row.notified = incident[i].notified
      BY <2>6, IncidentResolved
    <3>2. Steps(h, {"event", "complete", "health"})
      BY <3>1, Writing DEF Wrote, From
    <3> QED  BY <1>0, <2>1, <3>1, <3>2, AlertWrote DEF Steps, From
  <2>7. CASE CreateIncident(h)
    <3>1. CASE Continues(h, {"create"}, {"fail"}) /\ UNCHANGED opsVars
      <4>1. From(h, {"create"}) /\ (At(h, "done")' \/ call'[h].at = "fail") /\ delivery' = delivery
        BY <3>1 DEF Continues, Steps, opsVars, alertVars
      <4> QED  BY <1>0, <2>1, <4>1, AlertElsewhere DEF From, At
    <3>2. ASSUME NEW row, Wrote(h, h, row, "OPENED"), ~Exists(h), Writes(h, h, row, "OPENED"), From(h, {"create"})
          PROVE  AlertInv'
      <4>1. Steps(h, {"event", "complete", "health"})
        BY <3>2, Writing DEF Wrote, From
      <4> QED  BY <1>0, <2>1, <3>2, <4>1, AlertWrote DEF Steps, From
    <3> QED  BY <2>7, <3>1, <3>2, IncidentCreated
  <2>8. CASE CreateDelivery(h) \/ CreateTest(h) \/ SendMessage(h) \/ RecordNotified(h) \/ ReadConfiguration(h)
    BY <1>0, <2>8, AlertDelivered, AlertTested, AlertSent, AlertNoted, AlertDecided
  <2> QED  BY <1>5, <2>2, <2>3, <2>4, <2>5, <2>6, <2>7, <2>8 DEF Works
<1>6. CASE Beside
  <2>1. /\ UNCHANGED <<call, held, incident, delivery, past, failed>> /\ now' \in Times /\ now' >= now
    BY <1>6, BesideEffect
  <2>2. ASSUME NEW h \in Calls
        PROVE  AlertOk(h)'
    <3>1. AlertOk(h) /\ now' \in Nat /\ now \in Nat /\ delivery[h].at \in Nat /\ held[h].notified \in Nat
      BY <2>1, AlertTypes, HeldTypes DEF AlertInv
    <3>2. Noted(h)' = Noted(h) /\ Detected(h)' = Detected(h)
      BY <2>1 DEF Noted, Detected
    <3>3. /\ delivery'[h].at <= now'
          /\ At(h, "deliver") /\ Detected(h) => held'[h].notified = Never \/ \E c \in Cooldowns : now' - held'[h].notified >= c
      <4>1. delivery[h].at <= now' /\ now' - held[h].notified >= now - held[h].notified
        BY <2>1, <3>1 DEF AlertOk
      <4>2. \A c \in Cooldowns : now - held[h].notified >= c => now' - held[h].notified >= c
        BY <2>1, <3>1, OperationsAssumption
      <4> HIDE DEF Noted, Detected
      <4> QED  BY <2>1, <3>1, <4>1, <4>2 DEF AlertOk
    <3> HIDE DEF Noted, Detected
    <3> QED  BY <2>1, <3>1, <3>2, <3>3 DEF AlertOk, At
  <2>3. ASSUME NEW h \in Calls
        PROVE  Informed(h)' /\ Spaced(h)'
    <3>1. Informed(h) /\ Spaced(h)
      BY DEF AlertInv
    <3> QED  BY <1>0, <2>1, <3>1 DEF Informed, Spaced, Earlier
  <2> HIDE DEF AlertOk, Informed, Spaced
  <2> QED  BY <1>0, <2>2, <2>3 DEF AlertInv
<1> QED  BY <1>1, <1>2, <1>3, <1>4, <1>5, <1>6, NextSplits, CallingSplits

-----------------------------------------------------------------------------
(* The recoveries *)

\* What a recovery was told of is resolved, and not open again.
LEMMA RecoveredIds ==
    ASSUME TablesInv, NEW h \in Calls, delivery[h].kind = "RECOVERY"
    PROVE  Exists(delivery[h].incident) /\ delivery[h].incident \in Ids /\ delivery[h].incident # Null
  BY OperationsAssumption DEF TablesInv, Told, Exists

\* A step of h is none of the other calls.
LEMMA RecoveryStep ==
    ASSUME PlaceInv, TablesInv, RecoveryInv, [OpsNext]_operationVars, NEW h \in Calls, ~At(h, "done"), OthersStay(h), OthersHold(h),
           \A f \in Calls \ {h} : past'[f] = past[f], RecoveryOk(h)'
    PROVE  RecoveryInv'
<1>1. ASSUME NEW f \in Calls \ {h}
      PROVE  RecoveryOk(f)'
  <2>1. call'[f] = call[f] /\ held'[f] = held[f] /\ delivery'[f] = delivery[f] /\ past'[f] = past[f]
    BY DEF OthersStay, OthersHold
  <2>2. RecoveryOk(f) /\ HeldOk(f) /\ Detected(f)' = Detected(f)
    BY <2>1 DEF RecoveryInv, PlaceInv, Detected
  <2>3. call[f].at \in {"event", "config", "deliver"} /\ ~Detected(f) => incident'[held[f].incident].status = "RESOLVED"
    BY <2>2, RowsMove DEF RecoveryOk, HeldOk
  <2>4. delivery[f].kind = "RECOVERY" => incident'[delivery[f].incident].status = "RESOLVED"
    BY <2>2, RowsMove, RecoveredIds DEF RecoveryOk
  <2>5. \A g \in past[f] : delivery'[g] = delivery[g]
    <3>1. \A g \in past[f] : g \in Calls \ {h}
      BY DEF PlaceInv
    <3> QED  BY <3>1 DEF OthersHold
  <2> HIDE DEF Detected
  <2> QED  BY <2>1, <2>2, <2>3, <2>4, <2>5 DEF RecoveryOk, At
<1>2. ASSUME NEW f \in Calls
      PROVE  RecoveryOk(f)'
  <2>1. CASE f = h
    BY <2>1
  <2>2. CASE f # h
    BY <1>1, <2>2
  <2> QED  BY <2>1, <2>2
<1> HIDE DEF RecoveryOk
<1> QED  BY <1>2 DEF RecoveryInv

\* A step that tells nobody of a recovery and finds no incident told of before.
LEMMA RecoveryElsewhere ==
    ASSUME PlaceInv, TablesInv, RecoveryInv, [OpsNext]_operationVars, NEW h \in Calls, ~At(h, "done"), OthersStay(h), OthersHold(h),
           past' = past, ~At(h, "idle")',
           delivery'[h].kind = "RECOVERY" => delivery[h].kind = "RECOVERY" /\ delivery'[h].incident = delivery[h].incident,
           \A g \in past[h] : delivery[g].kind = "RECOVERY" => held'[h].incident # delivery[g].incident,
           call'[h].at \in {"event", "config", "deliver"} /\ ~Detected(h)' => incident'[held'[h].incident].status = "RESOLVED"
    PROVE  RecoveryInv'
<1>1. RecoveryOk(h)
  BY DEF RecoveryInv
<1>2. \A g \in past[h] : delivery'[g] = delivery[g]
  <2>1. \A g \in past[h] : g \in Calls \ {h}
    BY DEF PlaceInv
  <2> QED  BY <2>1 DEF OthersHold
<1>3. delivery'[h].kind = "RECOVERY" => incident'[delivery'[h].incident].status = "RESOLVED"
  BY <1>1, RowsMove, RecoveredIds DEF RecoveryOk
<1>4. RecoveryOk(h)'
  <2> HIDE DEF Detected
  <2> QED  BY <1>1, <1>2, <1>3 DEF RecoveryOk
<1> HIDE DEF RecoveryOk, Detected
<1> QED  BY <1>4, RecoveryStep

\* A call that goes on with what it has read.
LEMMA RecoveryGoesOn ==
    ASSUME PlaceInv, TablesInv, RecoveryInv, [OpsNext]_operationVars, NEW h \in Calls, ~At(h, "done"), OthersStay(h), OthersHold(h),
           past' = past, ~At(h, "idle")',
           delivery'[h].kind = "RECOVERY" => delivery[h].kind = "RECOVERY" /\ delivery'[h].incident = delivery[h].incident,
           held'[h].incident \in {Null, held[h].incident},
           \/ call'[h].at \notin {"event", "config", "deliver"}
           \/ call[h].at \in {"event", "config", "deliver"} /\ SameRequest(h) /\ held' = held
    PROVE  RecoveryInv'
<1>1. RecoveryOk(h) /\ HeldOk(h)
  BY DEF RecoveryInv, PlaceInv
<1>2. \A g \in past[h] : delivery[g].kind = "RECOVERY" => held'[h].incident # delivery[g].incident
  <2>1. \A g \in past[h] : g \in Calls
    BY DEF PlaceInv
  <2> QED  BY <1>1, <2>1, RecoveredIds DEF RecoveryOk
<1>3. ASSUME call'[h].at \in {"event", "config", "deliver"}, ~Detected(h)'
      PROVE  incident'[held'[h].incident].status = "RESOLVED"
  <2>1. ~Detected(h) /\ held'[h] = held[h] /\ call[h].at \in {"event", "config", "deliver"}
    BY <1>3, SameKind
  <2>2. held[h].incident \in Ids /\ incident[held[h].incident].status = "RESOLVED"
    BY <1>1, <2>1 DEF RecoveryOk, HeldOk
  <2> QED  BY <2>1, <2>2, RowsMove
<1> HIDE DEF Detected
<1> QED  BY <1>2, <1>3, RecoveryElsewhere

\* The incident a statement writes is the one its call holds afterwards.
LEMMA WritesWhere ==
    ASSUME PlaceInv, NEW h \in Calls, NEW i, NEW row, NEW event, Writes(h, i, row, event)
    PROVE  held'[h].incident = i
<1>1. PICK new : new = [held[h] EXCEPT !.incident = i, !.notified = row.notified, !.event = event]
  OBVIOUS
<1>2. held[h] \in HeldRows /\ held \in [Calls -> HeldRows]
  BY DEF PlaceInv
<1>3. new.incident = i
  BY <1>1, <1>2 DEF HeldRows
<1>4. Hold(h, new)
  BY <1>1 DEF Writes
<1>5. held'[h] = new
  BY <1>2, <1>4 DEF Hold
<1> QED  BY <1>3, <1>5

\* A statement that writes an incident writes none that was told to have recovered.
LEMMA RecoveryWrote ==
    ASSUME PlaceInv, TablesInv, RecoveryInv, [OpsNext]_operationVars, NEW h \in Calls, OthersStay(h), OthersHold(h),
           NEW i, NEW row, NEW event, Wrote(h, i, row, event), Writes(h, i, row, event), From(h, {"occur", "create", "resolve"}),
           i = held[h].incident \/ ~Exists(i), row.status = "RESOLVED" \/ Detected(h) \/ Backfill(h)
    PROVE  RecoveryInv'
<1>1. /\ UNCHANGED <<past, delivery>> /\ held'[h].incident = i /\ i \in Ids /\ incident' = [incident EXCEPT ![i] = row]
      /\ row \in IncidentRows /\ event \in Events
  BY DEF Wrote
<1>2. /\ Steps(h, {"event", "complete", "health"}) /\ held'[h].critical = held[h].critical
      /\ At(h, "event")' => ~Backfill(h)
  BY <1>1, Writing
<1>3. \A g \in past[h] : delivery[g].kind = "RECOVERY" => held'[h].incident # delivery[g].incident
  <2>1. \A g \in past[h] : g \in Calls
    BY DEF PlaceInv
  <2> QED  BY <1>1, <2>1, RecoveredIds DEF RecoveryInv, RecoveryOk
<1>4. ~At(h, "done") /\ ~At(h, "idle")'
  BY <1>2 DEF From, Steps, At
<1>5. ASSUME call'[h].at \in {"event", "config", "deliver"}, ~Detected(h)'
      PROVE  incident'[held'[h].incident].status = "RESOLVED"
  <2>1. SameRequest(h) /\ At(h, "event")'
    BY <1>2, <1>5 DEF Steps, At
  <2>2. ~Detected(h) /\ ~Backfill(h)
    BY <1>2, <1>5, <2>1, SameKind
  <2>3. row.status = "RESOLVED"
    BY <2>2
  <2> QED  BY <1>1, <2>3 DEF TablesInv
<1> HIDE DEF Detected
<1> QED  BY <1>1, <1>3, <1>4, <1>5, RecoveryElsewhere

\* A recovery is told by a call that has resolved the incident itself.
LEMMA RecoveryDelivered ==
    ASSUME PlaceInv, TablesInv, RecoveryInv, [OpsNext]_operationVars, NEW h \in Calls, CreateDelivery(h)
    PROVE  RecoveryInv'
<1>1. /\ Continues(h, {"deliver"}, {"send"}) /\ At(h, "send")'
      /\ delivery'[h].kind = (IF Detected(h) THEN "ALERT" ELSE "RECOVERY")
      /\ delivery'[h].incident = held[h].incident /\ held[h].incident \in Ids
  BY DeliveryCreated
<1>2. /\ ~At(h, "done") /\ At(h, "deliver") /\ OthersStay(h) /\ OthersHold(h) /\ UNCHANGED <<held, past>>
      /\ RecoveryOk(h)
  BY <1>1 DEF Continues, From, Steps, At, RecoveryInv
<1>3. \A g \in past[h] : delivery'[g] = delivery[g]
  <2>1. \A g \in past[h] : g \in Calls \ {h}
    BY <1>2 DEF PlaceInv
  <2> QED  BY <1>2, <2>1 DEF OthersHold
<1>4. delivery'[h].kind = "RECOVERY" => incident'[delivery'[h].incident].status = "RESOLVED"
  <2>1. delivery'[h].kind = "RECOVERY" => incident[held[h].incident].status = "RESOLVED"
    BY <1>1, <1>2 DEF RecoveryOk, At
  <2> QED  BY <1>1, <2>1, RowsMove
<1>5. RecoveryOk(h)'
  <2> HIDE DEF Detected
  <2> QED  BY <1>1, <1>2, <1>3, <1>4 DEF RecoveryOk, At
<1> HIDE DEF RecoveryOk
<1> QED  BY <1>2, <1>5, RecoveryStep

\* What is found is open, so nobody was told of its recovery.
LEMMA RecoveryFound ==
    ASSUME PlaceInv, TablesInv, RecoveryInv, [OpsNext]_operationVars, NEW h \in Calls, FindIncident(h)
    PROVE  RecoveryInv'
<1>1. /\ OthersHold(h) /\ From(h, {"find"}) /\ Steps(h, {"occur", "create", "resolve", "complete", "health", "fail"})
      /\ held'[h].incident = Null \/ (held'[h].incident \in Ids /\ IsOpen(incident[held'[h].incident]))
  BY Finding
<1>2. UNCHANGED <<past, delivery>>
  BY DEF FindIncident, timeVars, alertVars
<1>3. ~At(h, "done") /\ ~At(h, "idle")' /\ OthersStay(h) /\ call'[h].at \notin {"event", "config", "deliver"}
  BY <1>1 DEF From, Steps, At
<1>4. \A g \in past[h] : delivery[g].kind = "RECOVERY" => held'[h].incident # delivery[g].incident
  <2>1. \A g \in past[h] : g \in Calls
    BY DEF PlaceInv
  <2> QED  BY <1>1, <2>1, RecoveredIds DEF RecoveryInv, RecoveryOk, IsOpen
<1> HIDE DEF Detected
<1> QED  BY <1>1, <1>2, <1>3, <1>4, RecoveryElsewhere

\* Every step keeps the recoveries.
LEMMA RecoveryKept ==
    ASSUME PlaceInv, TablesInv, RecoveryInv, [OpsNext]_operationVars
    PROVE  RecoveryInv'
<1>1. ASSUME NEW h \in Calls, (\E key \in Keys : Routes(h, key)) \/ RunProbe(h)
      PROVE  RecoveryInv'
  <2>1. /\ OthersStay(h) /\ At(h, "idle") /\ UNCHANGED <<held, delivery>>
        /\ past' = [past EXCEPT ![h] = {g \in Calls : At(g, "done")}]
        /\ At(h, "done")' \/ call'[h].at \in {"begin", "health"}
    BY <1>1, Arrival DEF Joins, alertVars, PlaceInv
  <2>2. held[h].incident = Null /\ delivery[h].kind # "RECOVERY"
    BY <2>1 DEF RecoveryInv, RecoveryOk
  <2>3. past'[h] \subseteq Calls /\ \A f \in Calls \ {h} : past'[f] = past[f]
    BY <2>1 DEF PlaceInv
  <2>4. \A g \in past'[h] : delivery[g].kind = "RECOVERY" => delivery[g].incident # Null
    BY <2>3, RecoveredIds
  <2>5. RecoveryOk(h)'
    <3> HIDE DEF Detected
    <3> QED  BY <2>1, <2>2, <2>4 DEF RecoveryOk, At
  <2>6. OthersHold(h) /\ ~At(h, "done")
    BY <2>1 DEF OthersHold, At
  <2> HIDE DEF RecoveryOk
  <2> QED  BY <2>1, <2>3, <2>5, <2>6, RecoveryStep
<1>2. ASSUME NEW h \in Calls, Starts(h)
      PROVE  RecoveryInv'
  <2>1. /\ UNCHANGED opsVars /\ At(h, "begin") /\ OthersStay(h)
        /\ At(h, "done")' \/ call'[h].at \in {"find", "run"}
    BY <1>2, Starting DEF Starts
  <2>2. UNCHANGED <<past, held, delivery>>
    BY <2>1 DEF opsVars, timeVars, alertVars
  <2> QED  BY <2>1, <2>2, RecoveryGoesOn DEF At, OthersHold
<1>3. ASSUME NEW h \in Calls, Settles(h)
      PROVE  RecoveryInv'
  <2>1. /\ OthersHold(h) /\ From(h, {"complete", "fail"}) /\ OthersStay(h) /\ At(h, "done")'
        /\ held'[h].incident \in {Null, held[h].incident} /\ UNCHANGED <<past, delivery>>
    BY <1>3, Settling DEF Settles
  <2> QED  BY <2>1, RecoveryGoesOn DEF From, At
<1>4. ASSUME NEW h \in Calls, Fault(h)
      PROVE  RecoveryInv'
  <2>1. /\ OthersHold(h) /\ Active(h) /\ OthersStay(h) /\ UNCHANGED <<past, delivery>>
        /\ held'[h].incident \in {Null, held[h].incident}
        /\ At(h, "fail")' \/ At(h, "done")'
    BY <1>4, Failing
  <2> QED  BY <2>1, RecoveryGoesOn DEF Active, At
<1>5. ASSUME NEW h \in Calls, Works(h)
      PROVE  RecoveryInv'
  <2>1. /\ OthersHold(h) /\ OthersStay(h) /\ ~At(h, "done") /\ past' = past /\ ~At(h, "idle")'
    BY <1>5, Working DEF Active, At, SameRequest
  <2>2. CASE RecordHealth(h) \/ ReadChannel(h)
    <3>1. held'[h].incident = Null /\ (At(h, "done")' \/ call'[h].at \in {"find", "upsert"})
      BY <2>2, HealthRecorded, ChannelRead DEF Steps
    <3>2. delivery' = delivery
      BY <2>2 DEF RecordHealth, ReadChannel, alertVars
    <3> QED  BY <2>1, <3>1, <3>2, RecoveryGoesOn DEF At
  <2>3. CASE ReadOpenIncident(h) \/ AcknowledgeIncident(h) \/ UpsertConfiguration(h) \/ RecordNotified(h)
    <3>1. /\ held' = held /\ delivery' = delivery
          /\ At(h, "done")' \/ call'[h].at \in {"upsert", "complete", "fail", "health"}
      BY <2>3, OpenIncidentRead, Acknowledging, ConfigurationWritten, NotificationRecorded DEF Continues, Steps
    <3> QED  BY <2>1, <3>1, RecoveryGoesOn DEF At
  <2>4. CASE RecordEvent(h) \/ ReadConfiguration(h)
    <3>1. /\ From(h, {"event", "config"}) /\ held' = held /\ delivery' = delivery
          /\ At(h, "done")' \/ SameRequest(h)
      BY <2>4, EventRecorded, ConfigurationRead DEF Continues, From, Steps
    <3> QED  BY <2>1, <3>1, RecoveryGoesOn DEF From, At
  <2>5. CASE CreateTest(h)
    <3>1. /\ held' = held /\ delivery'[h].kind = "TEST" /\ (At(h, "done")' \/ call'[h].at = "send")
      BY <2>5, TestCreated DEF Continues, Steps
    <3> QED  BY <2>1, <3>1, RecoveryGoesOn DEF At
  <2>6. CASE SendMessage(h)
    <3>1. /\ held' = held /\ delivery'[h].kind = delivery[h].kind /\ delivery'[h].incident = delivery[h].incident
          /\ At(h, "done")' \/ call'[h].at \in {"notified", "complete", "health"}
      BY <2>6, MessageSent DEF Continues, Steps
    <3> QED  BY <2>1, <3>1, RecoveryGoesOn DEF At
  <2>7. CASE RecordOccurrence(h)
    <3>1. PICK i, row : Wrote(h, i, row, "OCCURRENCE") /\ Writes(h, i, row, "OCCURRENCE") /\ From(h, {"occur"}) /\ Detected(h)
      BY <2>7, OccurrenceRecorded
    <3>2. PICK new : Writes(h, held[h].incident, new, "OCCURRENCE")
      BY <2>7 DEF RecordOccurrence
    <3>3. i = held[h].incident
      BY <3>1, <3>2, WritesWhere DEF Wrote
    <3> HIDE DEF Detected
    <3> QED  BY <2>1, <3>1, <3>3, RecoveryWrote DEF From
  <2>8. CASE ResolveIncident(h)
    <3>1. PICK i, row : Wrote(h, i, row, "RESOLVED") /\ Writes(h, i, row, "RESOLVED") /\ From(h, {"resolve"})
                        /\ row.status = "RESOLVED"
      BY <2>8, IncidentResolved
    <3>2. PICK new : Writes(h, held[h].incident, new, "RESOLVED")
      BY <2>8 DEF ResolveIncident
    <3>3. i = held[h].incident
      BY <3>1, <3>2, WritesWhere DEF Wrote
    <3> QED  BY <2>1, <3>1, <3>3, RecoveryWrote DEF From
  <2>9. CASE CreateIncident(h)
    <3>1. CASE Continues(h, {"create"}, {"fail"}) /\ UNCHANGED opsVars
      <4>1. held' = held /\ (At(h, "done")' \/ call'[h].at = "fail") /\ delivery' = delivery
        BY <3>1 DEF Continues, Steps, opsVars, alertVars
      <4> QED  BY <2>1, <4>1, RecoveryGoesOn DEF At
    <3>2. ASSUME NEW row, Wrote(h, h, row, "OPENED"), ~Exists(h), Writes(h, h, row, "OPENED"), From(h, {"create"}),
                 Detected(h) \/ Backfill(h)
          PROVE  RecoveryInv'
      <4> HIDE DEF Detected, Backfill
      <4> QED  BY <2>1, <3>2, RecoveryWrote DEF From
    <3> QED  BY <2>9, <3>1, <3>2, IncidentCreated
  <2> QED  BY <1>5, <2>2, <2>3, <2>4, <2>5, <2>6, <2>7, <2>8, <2>9, RecoveryDelivered, RecoveryFound DEF Works
<1>6. CASE Beside
  <2>1. UNCHANGED <<call, held, incident, delivery, past>>
    BY <1>6, BesideEffect
  <2> QED  BY <2>1 DEF RecoveryInv, RecoveryOk, At, Detected
<1> QED  BY <1>1, <1>2, <1>3, <1>4, <1>5, <1>6, NextSplits, CallingSplits
\* A set without two elements.
LEMMA OneAtMost ==
    ASSUME NEW S, \A x, y \in S : x = y
    PROVE  Cardinality(S) <= 1
<1>1. CASE S = {}
  BY <1>1, FS_EmptySet
<1>2. CASE S # {}
  <2>1. PICK x : S = {x}
    BY <1>2
  <2> QED  BY <2>1, FS_Singleton
<1> QED  BY <1>1, <1>2

-----------------------------------------------------------------------------
(* The start *)

\* What the system can start with: incidents with a count, one that is open at most for a key;
\* one key of the monitor besides the one to rotate in.
Scene(incidents, configuration, coming, ops, keys, users) ==
    /\ incidents \in [Known -> IncidentRows] /\ configuration \in ConfigRows
    /\ coming \subseteq Calls /\ ops \subseteq Ops /\ users \subseteq Actors
    /\ \A i \in Known : /\ incidents[i].status \in IncidentStatuses /\ incidents[i].count > 0
                        /\ incidents[i].status = "RESOLVED" => incidents[i].resolvedAt # Never
    /\ \A i, j \in Known : IsOpen(incidents[i]) /\ IsOpen(incidents[j]) /\ incidents[i].key = incidents[j].key => i = j
    /\ keys \subseteq KeyIds /\ \A j, k \in keys \ {NextKey} : j = k

\* At the start nobody is served and nothing was told.
LEMMA SceneBegins ==
    ASSUME NEW incidents, NEW configuration, NEW coming, NEW ops, NEW keys, NEW users,
           Scene(incidents, configuration, coming, ops, keys, users),
           OpsInit(incidents, configuration, coming, ops, keys, users)
    PROVE  /\ \A h \in Calls : /\ call[h].at \in {"idle", "done"} /\ call[h].op = Null
                               /\ held[h] = NoneHeld /\ delivery[h] = NoDelivery /\ past[h] = {} /\ ~Exists(h)
           /\ \A h \in Calls : ~Active(h) /\ ~Told(h) /\ held[h].incident = Null /\ delivery[h].kind = "NONE" /\ delivery[h].at = 0
           /\ now = 0 /\ 0 \in Times
<1>1. now = 0 /\ 0 \in Times
  BY HeldTypes DEF OpsInit
<1>2. ASSUME NEW h \in Calls
      PROVE  /\ call[h].at \in {"idle", "done"} /\ call[h].op = Null
             /\ held[h] = NoneHeld /\ delivery[h] = NoDelivery /\ past[h] = {}
  BY DEF OpsInit, CallsInit, Idle
<1>3. ASSUME NEW h \in Calls
      PROVE  ~Exists(h)
  <2>1. h \in Ids /\ h \notin Known
    BY OperationsAssumption DEF Ids
  <2>2. incident[h] = NoIncident(CHOOSE k \in DedupKeys : TRUE)
    BY <2>1 DEF OpsInit
  <2> QED  BY <2>2 DEF Exists, NoIncident
<1>4. ASSUME NEW h \in Calls
      PROVE  ~Active(h) /\ ~Told(h) /\ held[h].incident = Null /\ delivery[h].kind = "NONE" /\ delivery[h].at = 0
  BY <1>2 DEF Active, Told, NoneHeld, NoDelivery
<1> QED  BY <1>1, <1>2, <1>3, <1>4

\* The calls of a scene.
LEMMA PlaceInit ==
    ASSUME NEW incidents, NEW configuration, NEW coming, NEW ops, NEW keys, NEW users,
           Scene(incidents, configuration, coming, ops, keys, users),
           OpsInit(incidents, configuration, coming, ops, keys, users)
    PROVE  PlaceInv
<1>1. CallsTypeOK(Ops, Bodies, {}, Places)
  BY InitTyped DEF OpsInit
<1>2. held \in [Calls -> HeldRows] /\ past \in [Calls -> SUBSET Calls] /\ failed \subseteq Calls
  BY HeldTypes DEF OpsInit
<1>3. ASSUME NEW h \in Calls
      PROVE  CallOk(h) /\ HeldOk(h) /\ past[h] = {}
  BY SceneBegins DEF CallOk, HeldOk, At, Active, Monitoring
<1> QED  BY <1>1, <1>2, <1>3, SceneBegins DEF PlaceInv

\* The incidents at the start and their entries.
LEMMA IncidentsBegin ==
    ASSUME NEW incidents, NEW configuration, NEW coming, NEW ops, NEW keys, NEW users,
           Scene(incidents, configuration, coming, ops, keys, users),
           OpsInit(incidents, configuration, coming, ops, keys, users)
    PROVE  /\ incident \in [Ids -> IncidentRows]
           /\ \A i \in Ids : Exists(i) => i \in Known /\ incident[i] = incidents[i] /\ incident[i].count > 0
           /\ \A e \in log : Exists(e[1]) /\ e[1] \in Ids /\ e = <<e[1], "OPENED", Null>>
<1>1. PICK none : none = NoIncident(CHOOSE k \in DedupKeys : TRUE)
  OBVIOUS
<1>2. none \in IncidentRows /\ none.status = "ABSENT"
  <2>1. PICK k : k = (CHOOSE j \in DedupKeys : TRUE)
    OBVIOUS
  <2>2. k \in DedupKeys
    BY <2>1, OperationsAssumption
  <2>3. 0 \in 0 .. MaxCount
    BY SeverityAssumption
  <2> QED  BY <1>1, <2>1, <2>2, <2>3, HeldTypes DEF NoIncident, IncidentRows
<1>3. incident = [i \in Ids |-> IF i \in Known THEN incidents[i] ELSE none]
  BY <1>1 DEF OpsInit
<1>4. incident \in [Ids -> IncidentRows]
  BY <1>2, <1>3 DEF Scene
<1>5. \A i \in Ids : Exists(i) => i \in Known /\ incident[i] = incidents[i] /\ incident[i].count > 0
  BY <1>2, <1>3 DEF Exists, Scene
<1>6. ASSUME NEW e \in log
      PROVE  Exists(e[1]) /\ e[1] \in Ids /\ e = <<e[1], "OPENED", Null>>
  <2>1. e \in {<<i, "OPENED", Null>> : i \in {i \in Ids : incident[i].status # "ABSENT"}}
    BY DEF OpsInit
  <2>2. PICK i \in Ids : incident[i].status # "ABSENT" /\ e = <<i, "OPENED", Null>>
    BY <2>1
  <2> QED  BY <2>2 DEF Exists
<1> QED  BY <1>4, <1>5, <1>6

\* The incidents of a scene.
LEMMA TablesInit ==
    ASSUME NEW incidents, NEW configuration, NEW coming, NEW ops, NEW keys, NEW users,
           Scene(incidents, configuration, coming, ops, keys, users),
           OpsInit(incidents, configuration, coming, ops, keys, users)
    PROVE  TablesInv
<1>1. incident \in [Ids -> IncidentRows] /\ config \in ConfigRows
  BY IncidentsBegin DEF OpsInit, Scene
<1>2. delivery \in [Calls -> DeliveryRows(Ids \union {Null})]
  BY HeldTypes DEF OpsInit, DeliveryRows, NoDelivery
<1>3. /\ log \subseteq Ids \X {"OPENED", "OCCURRENCE", "ACKNOWLEDGED", "RESOLVED"} \X (Calls \union {Null})
      /\ \A e \in log : Exists(e[1]) /\ e[2] # "ACKNOWLEDGED"
  <2>1. ASSUME NEW e \in log
        PROVE  /\ e \in Ids \X {"OPENED", "OCCURRENCE", "ACKNOWLEDGED", "RESOLVED"} \X (Calls \union {Null})
               /\ Exists(e[1]) /\ e[2] # "ACKNOWLEDGED"
    <3>1. PICK i \in Ids : e = <<i, "OPENED", Null>>
      BY IncidentsBegin
    <3> QED  BY <3>1, IncidentsBegin
  <2> QED  BY <2>1
<1>4. /\ \A i, j \in Ids : IsOpen(incident[i]) /\ IsOpen(incident[j]) /\ incident[i].key = incident[j].key => i = j
      /\ \A i \in Ids : incident[i].status = "RESOLVED" => incident[i].resolvedAt # Never
  <2>1. \A i \in Ids : IsOpen(incident[i]) \/ incident[i].status = "RESOLVED" => Exists(i)
    BY DEF IsOpen, Exists
  <2> QED  BY <2>1, IncidentsBegin DEF Scene
<1>5. OneAcknowledgement
  BY <1>3 DEF OneAcknowledgement
<1>6. \A h \in Calls : ~Exists(h) /\ held[h].incident = Null /\ ~Active(h) /\ ~Told(h)
  BY SceneBegins
<1> HIDE DEF Exists, Active, Told, OneAcknowledgement
<1> QED  BY <1>1, <1>2, <1>3, <1>4, <1>5, <1>6 DEF TablesInv

\* The host, the records, the nonces and the deliveries of a scene.
LEMMA HostInit ==
    ASSUME NEW incidents, NEW configuration, NEW coming, NEW ops, NEW keys, NEW users,
           Scene(incidents, configuration, coming, ops, keys, users),
           OpsInit(incidents, configuration, coming, ops, keys, users)
    PROVE  HostInv /\ OnceInv /\ NonceInv /\ RecoveryInv /\ offered \subseteq Ops
           /\ (config.cooldown \in Cooldowns => AlertInv)
<1>1. HostInv
  <2>1. DOMAIN health = {} /\ presence = [a \in users |-> Never] /\ beat = [a \in users |-> Never]
    BY DEF OpsInit
  <2>2. /\ DOMAIN keyStatus = keys /\ \A k \in keys : keyStatus[k] \in {"ABSENT", "CURRENT"}
        /\ \A k \in keys : keyStatus[k] = "CURRENT" => k # NextKey
    BY DEF OpsInit
  <2> QED  BY <2>1, <2>2 DEF HostInv, Scene
<1>2. OnceInv
  <2>1. \A h \in Calls : ~Reporting(h)
    BY SceneBegins DEF Reporting
  <2>2. wrote = {}
    BY DEF OpsInit
  <2>3. ObservationTakesEffectOnce
    BY <2>2 DEF ObservationTakesEffectOnce
  <2> HIDE DEF Reporting, ObservationTakesEffectOnce
  <2> QED  BY <2>1, <2>2, <2>3 DEF OnceInv
<1>3. NonceInv
  <2>1. nonces = {} /\ DOMAIN accepted = Calls /\ \A h \in Calls : accepted[h].keyId = Null
    BY DEF OpsInit, NoCredentials
  <2> QED  BY <2>1 DEF NonceInv, NonceAcceptedOnce
<1>4. RecoveryInv
  BY SceneBegins DEF RecoveryInv, RecoveryOk, At
<1>5. ASSUME config.cooldown \in Cooldowns
      PROVE  AlertInv
  <2>1. \A h \in Calls : AlertOk(h) /\ Informed(h) /\ Spaced(h)
    BY SceneBegins DEF AlertOk, Informed, Spaced, Earlier, At
  <2> QED  BY <1>5, <2>1 DEF AlertInv
<1> QED  BY <1>1, <1>2, <1>3, <1>4, <1>5 DEF OpsInit, Scene

\* Each incident of a scene was opened once.
LEMMA CountInit ==
    ASSUME NEW incidents, NEW configuration, NEW coming, NEW ops, NEW keys, NEW users,
           Scene(incidents, configuration, coming, ops, keys, users),
           OpsInit(incidents, configuration, coming, ops, keys, users)
    PROVE  CountInv
<1> SUFFICES ASSUME NEW i \in Ids
             PROVE  IsFiniteSet(Occurrences(i)) /\ Cardinality(Occurrences(i)) <= incident[i].count
  BY DEF CountInv
<1>1. incident[i].count \in Nat
  BY IncidentsBegin, SeverityAssumption DEF IncidentRows
<1>2. Occurrences(i) = Counted(i)
  BY SceneBegins DEF Occurrences, Counting, At
<1>3. \A e \in Counted(i) : e = <<i, "OPENED", Null>> /\ Exists(i)
  BY IncidentsBegin DEF Counted
<1>4. CASE Exists(i)
  <2>1. Counted(i) \subseteq {<<i, "OPENED", Null>>} /\ incident[i].count > 0
    BY <1>3, <1>4, IncidentsBegin
  <2>2. IsFiniteSet({<<i, "OPENED", Null>>}) /\ Cardinality({<<i, "OPENED", Null>>}) = 1
    BY FS_Singleton
  <2>3. IsFiniteSet(Counted(i)) /\ Cardinality(Counted(i)) <= 1 /\ Cardinality(Counted(i)) \in Nat
    BY <2>1, <2>2, FS_Subset, FS_CardinalityType
  <2> HIDE DEF Counted, Occurrences
  <2> QED  BY <1>1, <1>2, <2>1, <2>3
<1>5. CASE ~Exists(i)
  <2>1. Counted(i) = {}
    BY <1>3, <1>5
  <2>2. IsFiniteSet(Counted(i)) /\ Cardinality(Counted(i)) = 0
    BY <2>1, FS_EmptySet
  <2> HIDE DEF Counted, Occurrences
  <2> QED  BY <1>1, <1>2, <2>2
<1> QED  BY <1>4, <1>5

-----------------------------------------------------------------------------
(* What is proved of the operations *)

\* All that one step of the operations preserves.
OpsInv ==
    /\ PlaceInv /\ TablesInv /\ HostInv /\ OnceInv /\ NonceInv /\ CountInv /\ RecoveryInv
    /\ offered \subseteq Ops

OpsBehaviour(incidents, configuration, coming, ops, keys, users) ==
    /\ Scene(incidents, configuration, coming, ops, keys, users)
    /\ OpsInit(incidents, configuration, coming, ops, keys, users)
    /\ [][OpsNext]_operationVars

\* OpsInv is inductive.
LEMMA OpsStep ==
    ASSUME OpsInv, [OpsNext]_operationVars
    PROVE  OpsInv'
<1>1. offered' = offered
  BY NextSplits, CallsLeave, BesideEffect DEF OpsInv
<1> QED  BY <1>1, PlaceTables, HostStep, OnceKept, NonceKept, CountKept, RecoveryKept DEF OpsInv

\* OpsInv holds in every behaviour from a scene.
LEMMA OpsInvariance ==
    ASSUME NEW incidents, NEW configuration, NEW coming, NEW ops, NEW keys, NEW users
    PROVE  OpsBehaviour(incidents, configuration, coming, ops, keys, users) => []OpsInv
<1>1. Scene(incidents, configuration, coming, ops, keys, users)
      /\ OpsInit(incidents, configuration, coming, ops, keys, users) => OpsInv
  BY PlaceInit, TablesInit, HostInit, CountInit DEF OpsInv
<1>2. OpsInv /\ [OpsNext]_operationVars => OpsInv'
  BY OpsStep
<1> QED  BY <1>1, <1>2, PTL DEF OpsBehaviour

\* The types follow: at most one open incident per condition, at most one current key.
LEMMA OpsTyped ==
    ASSUME OpsInv
    PROVE  OpsTypeOK
<1>1. \A k \in DedupKeys : Cardinality(OpenFor(incident, k)) <= 1
  <2> SUFFICES ASSUME NEW k \in DedupKeys
               PROVE  Cardinality(OpenFor(incident, k)) <= 1
    OBVIOUS
  <2>1. \A i, j \in OpenFor(incident, k) : i = j
    BY DEF OpsInv, TablesInv, OpenFor
  <2> QED  BY <2>1, OneAtMost
<1>2. Cardinality({k \in DOMAIN keyStatus : keyStatus[k] = "CURRENT"}) <= 1
  <2>1. \A j, k \in {m \in DOMAIN keyStatus : keyStatus[m] = "CURRENT"} : j = k
    BY DEF OpsInv, HostInv
  <2> QED  BY <2>1, OneAtMost
<1>3. CallsTypeOK(Ops, Bodies, {}, {"find", "occur", "create", "resolve", "event", "config", "deliver", "send",
                                     "notified", "run", "upsert", "health"})
  BY DEF OpsInv, PlaceInv, Places
<1>4. /\ incident \in [Ids -> IncidentRows]
      /\ \A i \in Ids : incident[i].status = "RESOLVED" => incident[i].resolvedAt # Never
      /\ log \subseteq Ids \X {"OPENED", "OCCURRENCE", "ACKNOWLEDGED", "RESOLVED"} \X (Calls \union {Null})
      /\ config \in ConfigRows /\ delivery \in [Calls -> DeliveryRows(Ids \union {Null})]
  BY DEF OpsInv, TablesInv
<1>5. /\ DOMAIN health \subseteq CriticalServices /\ \A s \in DOMAIN health : health[s] \in HealthRows
      /\ DOMAIN presence \subseteq Actors /\ \A a \in DOMAIN presence : presence[a] \in Times \union {Never}
      /\ DOMAIN keyStatus \subseteq KeyIds
      /\ \A k \in DOMAIN keyStatus : keyStatus[k] \in {"ABSENT", "CURRENT", "PREVIOUS"}
  BY DEF OpsInv, HostInv
<1>6. now \in Times /\ offered \subseteq Ops
  BY DEF OpsInv, PlaceInv
<1> QED  BY <1>1, <1>2, <1>3, <1>4, <1>5, <1>6 DEF OpsTypeOK

\* What is logged is part of the occurrences that are counted.
LEMMA CountedInTime ==
    ASSUME OpsInv
    PROVE  LoggedIsCounted
<1> SUFFICES ASSUME NEW i \in Ids
             PROVE  Cardinality(Counted(i)) <= incident[i].count
  BY DEF LoggedIsCounted, Counted
<1>1. IsFiniteSet(Occurrences(i)) /\ Cardinality(Occurrences(i)) <= incident[i].count
  BY DEF OpsInv, CountInv
<1>2. Counted(i) \subseteq Occurrences(i)
  BY DEF Occurrences
<1>3. incident[i].count \in Nat
  BY RowTypes DEF OpsInv, TablesInv
<1> HIDE DEF Counted, Occurrences
<1>4. /\ Cardinality(Counted(i)) <= Cardinality(Occurrences(i))
      /\ Cardinality(Counted(i)) \in Nat /\ Cardinality(Occurrences(i)) \in Nat
  BY <1>1, <1>2, FS_Subset, FS_CardinalityType
<1> QED  BY <1>1, <1>3, <1>4

\* A row is at most one coalescing window older than the last heartbeat.
LEMMA ShownOnline ==
    ASSUME OpsInv
    PROVE  BeatingIsOnline
<1> SUFFICES ASSUME NEW a \in DOMAIN presence, beat[a] # Never, now - beat[a] <= OnlineThreshold - CoalesceWindow
             PROVE  DerivePresenceState(presence[a], now, OnlineThreshold, IdleThreshold) = "ONLINE"
  BY DEF BeatingIsOnline
<1>1. now \in Nat /\ CoalesceWindow \in Nat /\ OnlineThreshold \in Nat /\ IdleThreshold \in Nat
  BY OperationsAssumption, HeldTypes DEF OpsInv, PlaceInv
<1>2. /\ presence[a] # Never /\ presence[a] \in Nat /\ beat[a] \in Nat /\ beat[a] <= presence[a] + CoalesceWindow
  BY HeldTypes DEF OpsInv, HostInv
<1>3. now - presence[a] <= OnlineThreshold
  BY <1>1, <1>2
<1>4. ~(now - presence[a] > OnlineThreshold)
  BY <1>1, <1>2, <1>3
<1> QED  BY <1>2, <1>3, <1>4 DEF DerivePresenceState

\* When all that was observed is stale, the stale services are in the majority.
LEMMA KnownWhenFresh ==
    ASSUME OpsInv
    PROVE  KnownMeansFresh
<1> SUFFICES ASSUME DOMAIN health # {}, \A s \in DOMAIN health : ~(now - health[s].at <= StaleAfter)
             PROVE  PlatformStatus = "UNKNOWN"
  BY DEF KnownMeansFresh
<1>1. now \in Nat /\ StaleAfter \in Nat /\ \A s \in DOMAIN health : health[s].at \in Nat
  <2>1. \A s \in DOMAIN health : health[s].at \in Times
    BY DEF OpsInv, HostInv, HealthRows
  <2> QED  BY <2>1, OperationsAssumption, HeldTypes DEF OpsInv, PlaceInv
<1>2. Stale = DOMAIN health
  BY <1>1 DEF Stale
<1>3. PICK S : S = DOMAIN health
  OBVIOUS
<1>4. IsFiniteSet(S)
  <2>1. IsFiniteSet(CriticalServices)
    <3>1. IsFiniteSet({}) /\ \A T, x : IsFiniteSet(T) => IsFiniteSet(T \union {x})
      BY FS_EmptySet, FS_AddElement
    <3>2. IsFiniteSet((((({} \union {"API"}) \union {"POSTGRES"}) \union {"REVERSE_PROXY"}) \union {"STUDENT_WEB"}) \union {"DASHBOARD"})
      BY <3>1
    <3>3. CriticalServices = ((((({} \union {"API"}) \union {"POSTGRES"}) \union {"REVERSE_PROXY"}) \union {"STUDENT_WEB"}) \union {"DASHBOARD"})
      BY DEF CriticalServices
    <3> QED  BY <3>2, <3>3
  <2>2. S \subseteq CriticalServices
    BY <1>3 DEF OpsInv, HostInv
  <2> QED  BY <2>1, <2>2, FS_Subset
<1>5. Cardinality(S) \in Nat /\ Cardinality(S) # 0
  BY <1>3, <1>4, FS_EmptySet, FS_CardinalityType
<1>6. 2 * Cardinality(S) > Cardinality(S)
  BY <1>5
<1> QED  BY <1>2, <1>3, <1>6 DEF PlatformStatus, AggregatePlatformHealth

\* The recoveries, from what is known of each call.
LEMMA RecoveriesTold ==
    ASSUME OpsInv
    PROVE  RecoveryToldOnce
<1>1. \A h \in Calls : RecoveryOk(h)
  BY DEF OpsInv, RecoveryInv
<1> QED  BY <1>1 DEF RecoveryOk, RecoveryToldOnce

\* The alerts, from what is known of each call.
LEMMA AlertsApart ==
    ASSUME AlertInv
    PROVE  AlertsRespectCooldown
<1>1. \A h \in Calls : Spaced(h)
  BY DEF AlertInv
<1> QED  BY <1>1 DEF Spaced, Earlier, AlertsRespectCooldown

\* From every scene the operations keep their types, and what must happen once happens once, for
\* any number of incidents, calls, keys and nonces, whatever requests overlap, fail, die or are
\* repeated: one open incident per deduplication key and one current key of the monitor, one
\* acknowledgement (IncidentService.acknowledge), one effect of an observation sent under one
\* key unless its request failed (ExternalMonitorReportService), and no nonce accepted twice while the
\* clock of the monitor is within the tolerance (ExternalMonitorAuthService, purgeOlderThan).
THEOREM OperationsAreSoundHolds ==
    ASSUME NEW incidents, NEW configuration, NEW coming, NEW ops, NEW keys, NEW users
    PROVE  OpsBehaviour(incidents, configuration, coming, ops, keys, users) => []OperationsAreSound
<1>1. OpsInv => OperationsAreSound
  BY OpsTyped DEF OpsInv, TablesInv, OnceInv, NonceInv, OperationsAreSound
<1> QED  BY <1>1, OpsInvariance, PTL

\* From every scene whose channel has a cooldown that administrators choose from, what operators are
\* told is so: no event of the timeline without its count (IncidentService), no alert of an incident within
\* a cooldown of an earlier one that was made and noted (AlertService.evaluateAndNotify), one recovery of
\* what is resolved, ONLINE for whoever beats in time although heartbeats are dropped
\* (PresenceService), and UNKNOWN for a platform whose probe has stopped (HealthProbeService).
THEOREM SignalsAreTrueHolds ==
    ASSUME NEW incidents, NEW configuration, NEW coming, NEW ops, NEW keys, NEW users
    PROVE  OpsBehaviour(incidents, configuration, coming, ops, keys, users) /\ config.cooldown \in Cooldowns
           => []SignalsAreTrue
<1>1. Scene(incidents, configuration, coming, ops, keys, users)
      /\ OpsInit(incidents, configuration, coming, ops, keys, users) /\ config.cooldown \in Cooldowns => AlertInv
  BY HostInit
<1>2. OpsInv /\ AlertInv /\ [OpsNext]_operationVars => AlertInv'
  BY AlertKept DEF OpsInv
<1>3. OpsInv /\ AlertInv => SignalsAreTrue
  BY CountedInTime, AlertsApart, RecoveriesTold, ShownOnline, KnownWhenFresh DEF SignalsAreTrue
<1>4. OpsBehaviour(incidents, configuration, coming, ops, keys, users) => []OpsInv
  BY OpsInvariance
<1> QED  BY <1>1, <1>2, <1>3, <1>4, PTL DEF OpsBehaviour

\* From every scene a resolved incident stays resolved, whatever acknowledgement raced its resolution,
\* and the channel loses its credential only to a configuration that read the row before it was
\* provisioned (IncidentService, AlertService.updateConfiguration).
THEOREM SettledStaysHolds ==
    ASSUME NEW incidents, NEW configuration, NEW coming, NEW ops, NEW keys, NEW users
    PROVE  OpsBehaviour(incidents, configuration, coming, ops, keys, users) => SettledStays
<1>1. OpsInv /\ [OpsNext]_operationVars =>
        [\A i \in Ids : incident[i].status = "RESOLVED" => incident'[i].status = "RESOLVED"]_operationVars
  BY RowsMove DEF OpsInv
<1>2. OpsInv /\ [OpsNext]_operationVars =>
        [config.credential /\ ~config'.credential => \E h \in Calls : call[h].op = "configure" /\ ~held[h].credential]_operationVars
  <2> SUFFICES ASSUME OpsInv, [OpsNext]_operationVars, config.credential, ~config'.credential
               PROVE  \E h \in Calls : call[h].op = "configure" /\ ~held[h].credential
    OBVIOUS
  <2>1. PICK h \in Calls : UpsertConfiguration(h)
    BY ChannelMoves DEF OpsInv
  <2> QED  BY <2>1, ConfigurationWritten DEF OpsInv
<1>3. OpsBehaviour(incidents, configuration, coming, ops, keys, users) => []OpsInv /\ [][OpsNext]_operationVars
  BY OpsInvariance DEF OpsBehaviour
<1> QED  BY <1>1, <1>2, <1>3, PTL DEF SettledStays, ResolvedIsFinal, CredentialStays
=============================================================================
