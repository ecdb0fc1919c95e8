------------------------ MODULE StudentSupportProofs ------------------------
(***************************************************************************)
(* Proofs about StudentSupport: for any staff and roles, students, calls   *)
(* and keys, with and without faults, from any rows that the services can  *)
(* have left.                                                              *)
(*                                                                         *)
(* The invariant has four parts: what the calls are about; what accepted   *)
(* proposals have done; which observations correct which; what a reviewer  *)
(* still knows of the support teacher.  Every step of a call is first      *)
(* described as a move of that call (Move); each part is then shown to be  *)
(* kept by the moves and by the few steps that write its tables.           *)
(***************************************************************************)
EXTENDS StudentSupport, ServiceCallsProofs, FiniteSetTheorems

Locations == {"read", "run", "insert", "mark", "once"}

\* Until its statement has run, a call has inserted nothing.
Early == {"idle", "read", "once", "begin", "run", "insert"}

\* What a proposal, or the body that asks for one, says.
Proposable(row) ==
    /\ row.type \in ProposalTypes
    /\ row.type = "LEARNING_PATH_ADJUSTMENT" =>
           /\ row.student \in Students /\ row.state \in States \ {"UNAVAILABLE_FOR_USE"}
           /\ row.state = "DISABLED_WITH_ALTERNATIVE" => row.ref \in Refs

BodyOk(name, body) ==
    /\ name = "review" => body.target \in Ids /\ body.decision \in {"ACCEPT", "REJECT"}
    /\ name = "propose" => Proposable(body)
    /\ name = "policy" => body.place \in Places /\ body.state \in States
    /\ name = "register" => body.ref \in Refs

\* What the routes admit.
RequestOk(r) ==
    /\ r \in Requests /\ r.who \in Staff /\ r.op \in Ops
    /\ r.op # Named("plain") => r.key \in Keys
    /\ r.about # Null => r.op = Named("observe")
    /\ BodyOk(r.op[1], r.body)

Sent(h) ==
    /\ call[h].at = "idle" => asked[h] = NotAsked
    /\ call[h].at \notin {"idle", "done"} =>
           /\ RequestOk(asked[h]) /\ call[h].op = asked[h].op
           /\ call[h].arg = asked[h].body /\ call[h].key = asked[h].key

RequestInv ==
    /\ CallsTypeOK(Ops, Bodies, Ids, Locations) /\ asked \in [Calls -> Requests]
    /\ \A h \in Calls : Sent(h)
    /\ \A g, h \in Calls : asked[g].key = asked[h].key /\ asked[g].key # Null => asked[g] = asked[h]

\* The effects of a proposal.
Effects(p) == {i \in Ids : profile[i].from = p} \union {i \in Ids : override[i].from = p}
              \union {h \in Calls : <<h, p>> \in adjusted}

EffectOk(p) ==
    IF proposal[p].status = "ACCEPTED" /\ HasEffect(proposal[p]) THEN \E h \in Calls : Effects(p) = {h}
    ELSE Effects(p) = {}

NotOwnReviewer(row) == row.reviewer # Null => AccountOf[row.reviewer] # row.author

EffectInv ==
    /\ \A p \in Ids : /\ proposal[p].status # "ABSENT" => Proposable(proposal[p])
                      /\ EffectOk(p) /\ NotOwnReviewer(proposal[p])
    /\ \A h \in Calls : call[h].at \in Early =>
           proposal[h] = NoProposal /\ profile[h].from = Null /\ override[h].from = Null

\* An observation that a call made is about what the call was asked.
MadeOk(i) ==
    observation[i].scope # Null =>
        /\ i \in Calls /\ observation[i].scope = <<asked[i].op, asked[i].key>>
        /\ observation[i].student = asked[i].body.student /\ observation[i].author = AccountOf[asked[i].who]

ByOk(i) ==
    observation[i].by # Null =>
        LET by == observation[i].by
        IN by \in Calls /\ asked[by].about = i /\ observation[by].scope # Null

\* A call that corrects an observation has the author and the student of it.
AboutOk(h) ==
    asked[h].about # Null =>
        LET original == observation[asked[h].about]
        IN /\ asked[h].who \in Staff /\ original.author = AccountOf[asked[h].who]
           /\ original.student = asked[h].body.student

Observes(h) ==
    /\ call[h].at \in Early => observation[h] = NoObservation
    /\ call[h].at = "complete" /\ Op(h) = "observe" => observation[h].scope = Scope(h) /\ ~observation[h].replayed
    /\ call[h].at = "mark" => /\ Op(h) = "observe" /\ asked[h].about # Null
                              /\ call[h].got \in Calls /\ observation[call[h].got].scope = Scope(h)

ObservationInv ==
    /\ \A i \in Ids : MadeOk(i) /\ ByOk(i)
    /\ \A h \in Calls : AboutOk(h) /\ Observes(h)
    /\ \A s \in DOMAIN idem : idem[s].status = "COMPLETED" /\ s[1] = Named("observe") =>
           \E i \in Ids : observation[i].scope = s /\ observation[i].replayed

\* A class teacher who got past the look-up knew of no support teacher, and if there is
\* one now, it came since.
ReviewSeen(h) ==
    Op(h) = "review" /\ call[h].at \in {"begin", "run"} =>
        LET p == Body(h).target
        IN /\ proposal[p].status # "ABSENT"
           /\ RoleOf[Who(h)] = "TEACHER" => ~HasSupportTeacher(proposal[p].student) \/ lately[h]

TablesOK ==
    /\ PathsTypeOK(Ids)
    /\ support \in [Ids -> SupportRows] /\ proposal \in [Ids -> ProposalRows]
    /\ profile \in [Ids -> ProfileRows] /\ override \in [Ids -> OverrideRows]
    /\ observation \in [Ids -> ObservationRows((Ops \X Keys) \union {Null})]
    /\ event \in [Ids -> EventRows]
    /\ lately \in [Calls -> BOOLEAN]
    /\ adjusted \subseteq Calls \X Ids

SupportInv ==
    TablesOK /\ RequestInv /\ EffectInv /\ ObservationInv /\ \A h \in Calls : ReviewSeen(h)

-----------------------------------------------------------------------------
(* The operations                                                          *)

OpNames == {"assign", "propose", "review", "apply", "difficulty", "observe", "policy", "inherit", "register",
            "plain", "event"}

LEMMA OpParts ==
    ASSUME NEW op \in Ops
    PROVE  /\ op # Null /\ op[1] \in OpNames /\ op[1] # Null
           /\ op[1] = "observe" => op = Named("observe")
           /\ op[1] = "plain" => op = Named("plain")
           /\ op[1] = "event" => op[2] \in Accounts /\ op[3] \in Attempts
<1>1. op # Null /\ op[1] # Null
  BY NullOutside
<1>2. CASE op \in {"event"} \X Accounts \X Attempts
  BY <1>1, <1>2 DEF OpNames
<1>3. ASSUME NEW n \in OpNames \ {"event"}, op = Named(n)
      PROVE  op[1] = n
  BY <1>3 DEF Named
<1>4. op \in {"event"} \X Accounts \X Attempts \/ \E n \in OpNames \ {"event"} : op = Named(n)
  BY DEF Ops, OpNames
<1> QED  BY <1>1, <1>2, <1>3, <1>4 DEF OpNames

LEMMA NamedOps ==
    /\ \A n \in OpNames \ {"event"} : Named(n) \in Ops /\ Named(n)[1] = n
    /\ \A n \in OpNames \ {"plain"} : \A op \in Ops : op[1] = n => op # Named("plain")
<1>1. ASSUME NEW n \in OpNames \ {"event"} PROVE Named(n) \in Ops /\ Named(n)[1] = n
  BY DEF Named, Ops, OpNames
<1>2. Named("plain")[1] = "plain"
  BY DEF Named
<1> QED  BY <1>1, <1>2 DEF OpNames

\* A request under way is one that a route admitted.
LEMMA RequestFacts ==
    ASSUME RequestInv, NEW h \in Calls, call[h].at \notin {"idle", "done"}
    PROVE  /\ RequestOk(asked[h]) /\ Who(h) \in Staff /\ Account(h) \in Accounts
           /\ call[h].op = asked[h].op /\ call[h].arg = Body(h) /\ call[h].key = asked[h].key
           /\ call[h].op \in Ops /\ Body(h) \in Bodies /\ Op(h) = call[h].op[1] /\ Op(h) \in OpNames
           /\ Op(h) # "plain" => call[h].key \in Keys
           /\ BodyOk(Op(h), Body(h))
<1>1. Sent(h)
  BY DEF RequestInv
<1>2. /\ RequestOk(asked[h]) /\ call[h].op = asked[h].op
      /\ call[h].arg = asked[h].body /\ call[h].key = asked[h].key
  BY <1>1 DEF Sent
<1>3. /\ call[h].op \in Ops /\ asked[h].who \in Staff /\ asked[h].body \in Bodies
      /\ call[h].op # Named("plain") => call[h].key \in Keys
      /\ BodyOk(call[h].op[1], asked[h].body)
  BY <1>2 DEF RequestOk, Requests
<1>4. call[h].op # Null /\ call[h].op[1] \in OpNames /\ (call[h].op = Named("plain") => call[h].op[1] = "plain")
  BY <1>3, OpParts, NamedOps DEF OpNames
<1>5. Op(h) = call[h].op[1]
  BY <1>4 DEF Op
<1> QED  BY <1>2, <1>3, <1>4, <1>5 DEF Who, Account, Body, Accounts

-----------------------------------------------------------------------------
(* The moves of a call                                                     *)

\* No record of an observation is completed.
ObservesNone ==
    \A s \in DOMAIN idem' : idem'[s].status = "COMPLETED" /\ s[1] = Named("observe") =>
        s \in DOMAIN idem /\ idem[s].status = "COMPLETED"

Move(h) ==
    /\ OthersStay(h) /\ \A g \in Calls \ {h} : asked'[g] = asked[g]
    /\ call[h].at # "idle" => asked' = asked
    /\ call'[h].at # "idle" /\ call[h].at # "done"
    /\ call'[h].at \in Early => call[h].at \in Early
    /\ call[h].at # "idle" /\ call'[h].at # "done" =>
           call'[h].op = call[h].op /\ call'[h].arg = call[h].arg /\ call'[h].key = call[h].key
    /\ call'[h].at = "complete" /\ Op(h)' = "observe" => CreateObservation(h)
    /\ call'[h].at = "mark" => BeginObserve(h) \/ CompleteObservation(h)
    /\ call'[h].at \in {"begin", "run"} /\ Op(h)' = "review" =>
           ReadReviewer(h) \/ (call[h].at = "begin" /\ call'[h].at = "run" /\ Op(h) = "review")
    /\ ObservesNone \/ CompleteObservation(h)

LEMMA AskMoves ==
    ASSUME RequestInv, NEW h \in Calls, NEW request, RequestOk(request), NEW entitled,
           NEW place \in {"read", "once", "begin"}, place = "begin" => request.op[1] # "review",
           request.op = Named("plain") => request.key = Null,
           Asks(h, request, entitled, place)
    PROVE  RequestInv' /\ Move(h)
<1>1. /\ Admit(h, request.op, request.body, request.key, entitled, place)
      /\ \A g \in Calls : asked[g].key = request.key /\ request.key # Null => asked[g] = request
      /\ asked' = [asked EXCEPT ![h] = IF entitled THEN request ELSE NotAsked]
  BY DEF Asks
<1>2. /\ request \in Requests /\ request.op \in Ops /\ request.body \in Bodies /\ request.key \in Keys \union {Null}
      /\ place \in Locations \union {"begin"}
  BY DEF RequestOk, Requests, Locations
<1>3. CallsTypeOK(Ops, Bodies, Ids, Locations)
  BY DEF RequestInv
<1>4. /\ CallsTypeOK(Ops, Bodies, Ids, Locations)' /\ OthersStay(h) /\ call[h].at = "idle" /\ idem' = idem
      /\ \/ call'[h].at = "done"
         \/ /\ entitled /\ call'[h].at = place /\ call'[h].op = request.op /\ call'[h].arg = request.body
            /\ call'[h].key = request.key
  BY <1>1, <1>2, <1>3, AdmitEffect
<1>5. NotAsked \in Requests /\ NotAsked.key = Null
  BY ConstantsAssumption DEF NotAsked, Requests, NoBody, Bodies
<1>6. /\ asked' \in [Calls -> Requests] /\ \A g \in Calls \ {h} : asked'[g] = asked[g]
      /\ asked'[h] = IF entitled THEN request ELSE NotAsked
  BY <1>1, <1>2, <1>5 DEF RequestInv
<1>7. ASSUME NEW g \in Calls PROVE Sent(g)'
  <2>1. CASE g = h
    BY <1>4, <1>6, <2>1 DEF Sent
  <2>2. CASE g # h
    BY <1>4, <1>6, <2>2 DEF Sent, OthersStay, RequestInv
  <2> QED  BY <2>1, <2>2
<1>8. ASSUME NEW f \in Calls, NEW g \in Calls, asked'[f].key = asked'[g].key, asked'[f].key # Null
      PROVE  asked'[f] = asked'[g]
  BY <1>1, <1>5, <1>6, <1>8 DEF RequestInv
<1>9. Move(h)
  <2>1. Op(h)' = "review" => call'[h].at # "begin"
    BY <1>2, <1>4, OpParts DEF Op
  <2>2. ObservesNone
    BY <1>4 DEF ObservesNone
  <2> QED  BY <1>4, <1>6, <2>1, <2>2 DEF Move, Early
<1> QED  BY <1>4, <1>6, <1>7, <1>8, <1>9 DEF RequestInv

\* asked stays, and so does what the calls under way have of it.
LEMMA AskedStays ==
    ASSUME RequestInv, NEW h \in Calls, OthersStay(h), asked' = asked, CallsTypeOK(Ops, Bodies, Ids, Locations)',
           \/ call'[h].at = "done"
           \/ /\ call[h].at \notin {"idle", "done"} /\ call'[h].at # "idle"
              /\ call'[h].op = call[h].op /\ call'[h].arg = call[h].arg /\ call'[h].key = call[h].key
    PROVE  RequestInv'
<1>1. ASSUME NEW g \in Calls PROVE Sent(g)'
  <2>1. CASE g = h
    BY <2>1 DEF Sent, RequestInv
  <2>2. CASE g # h
    BY <2>2 DEF Sent, OthersStay, RequestInv
  <2> QED  BY <2>1, <2>2
<1> QED  BY <1>1 DEF RequestInv

LEMMA AnswerMoves ==
    ASSUME RequestInv, NEW h \in Calls, call[h].at # "done", NEW code, Answer(h, code), idem' = idem, asked' = asked
    PROVE  RequestInv' /\ Move(h)
<1>1. CallsTypeOK(Ops, Bodies, Ids, Locations)
  BY DEF RequestInv
<1>2. call' \in [Calls -> CallRows(Ops, Bodies, Ids, Locations)] /\ OthersStay(h) /\ call'[h].at = "done"
  BY <1>1, AnswerEffect
<1>3. CallsTypeOK(Ops, Bodies, Ids, Locations)'
  BY <1>1, <1>2 DEF CallsTypeOK
<1>4. ObservesNone
  BY DEF ObservesNone
<1> QED  BY <1>2, <1>3, <1>4, AskedStays DEF Move, Early

\* Going on to another statement; what is left to show of the move is where to.
LEMMA GotoMoves ==
    ASSUME RequestInv, NEW h \in Calls, call[h].at \notin {"idle", "done"}, idem' = idem, asked' = asked,
           NEW place \in Locations \union {"begin", "complete", "fail"},
           NEW got \in Ids \union {Null, "retryable", "terminal"}, Goto(h, place, got),
           place \in Early => call[h].at \in Early,
           place = "complete" /\ Op(h) = "observe" => CreateObservation(h),
           place = "mark" => BeginObserve(h) \/ CompleteObservation(h),
           place \in {"begin", "run"} /\ Op(h) = "review" => ReadReviewer(h)
    PROVE  RequestInv' /\ Move(h) /\ call'[h].at = place /\ call'[h].got = got
<1>1. CallsTypeOK(Ops, Bodies, Ids, Locations)
  BY DEF RequestInv
<1>2. /\ call' \in [Calls -> CallRows(Ops, Bodies, Ids, Locations)]
      /\ OthersStay(h) /\ SameRequest(h) /\ call'[h].at = place /\ call'[h].got = got
  BY <1>1, GotoEffect
<1>3. CallsTypeOK(Ops, Bodies, Ids, Locations)'
  BY <1>1, <1>2 DEF CallsTypeOK
<1>4. ObservesNone
  BY DEF ObservesNone
<1>5. Op(h)' = Op(h) /\ place # "idle"
  BY <1>2 DEF SameRequest, Op, Locations
<1>6. Move(h)
  BY <1>2, <1>4, <1>5 DEF Move, SameRequest
<1> QED  BY <1>2, <1>3, <1>5, <1>6, AskedStays DEF SameRequest

LEMMA BeginMoves ==
    ASSUME RequestInv, NEW h \in Calls, Op(h) # "plain", asked' = asked, Begin(h, "run")
    PROVE  /\ RequestInv' /\ Move(h) /\ call'[h].at \in {"run", "done"} /\ call[h].at = "begin"
<1>1. call[h].at = "begin"
  BY DEF Begin
<1>2. call[h].op \in Ops /\ call[h].arg \in Bodies /\ call[h].key \in Keys /\ "run" \in Locations
  BY <1>1, RequestFacts DEF Locations
<1>3. CallsTypeOK(Ops, Bodies, Ids, Locations)
  BY DEF RequestInv
<1>4. /\ CallsTypeOK(Ops, Bodies, Ids, Locations)' /\ OthersStay(h) /\ CompletesAtMost({})
      /\ \/ call'[h].at = "done"
         \/ /\ call'[h].at = "run" /\ call'[h].op = call[h].op /\ call'[h].arg = call[h].arg
            /\ call'[h].key = call[h].key
  BY <1>2, <1>3, BeginEffect
<1>5. ObservesNone
  BY <1>4 DEF ObservesNone, CompletesAtMost
<1>6. call'[h].at = "run" => Op(h)' = Op(h)
  BY <1>4 DEF Op
<1>7. RequestInv'
  BY <1>1, <1>4, AskedStays
<1>8. Move(h)
  BY <1>1, <1>4, <1>5, <1>6 DEF Move, Early
<1> QED  BY <1>1, <1>4, <1>7, <1>8

LEMMA SettleMoves ==
    ASSUME RequestInv, NEW h \in Calls, asked' = asked,
           (Op(h) # "observe" /\ Op(h) \in OpNames /\ CompleteRecord(h)) \/ FailRecord(h)
    PROVE  RequestInv' /\ Move(h) /\ call'[h].at = "done" /\ call[h].at \in {"complete", "fail"}
<1>1. CallsTypeOK(Ops, Bodies, Ids, Locations)
  BY DEF RequestInv
<1>2. PICK S : S = IF call[h].at = "complete" THEN {Scope(h)} ELSE {}
  OBVIOUS
<1>3. /\ CallsTypeOK(Ops, Bodies, Ids, Locations)' /\ OthersStay(h) /\ call'[h].at = "done"
      /\ call[h].at \in {"complete", "fail"} /\ CompletesAtMost(S)
  BY <1>1, <1>2, SettleEffect
<1>4. ASSUME NEW s \in S PROVE s[1] # Named("observe")
  <2>1. call[h].at = "complete" /\ s = Scope(h)
    BY <1>2
  <2>2. Op(h) # "observe"
    BY <2>1 DEF FailRecord
  <2>3. s[1] = call[h].op /\ Op(h) = call[h].op[1]
    BY <2>1, RequestFacts DEF Scope
  <2> QED  BY <2>2, <2>3 DEF Named
<1>5. ObservesNone
  BY <1>3, <1>4 DEF ObservesNone, CompletesAtMost
<1>6. RequestInv'
  BY <1>3, AskedStays
<1> QED  BY <1>3, <1>5, <1>6 DEF Move, Early

LEMMA FaultMoves ==
    ASSUME RequestInv, NEW h \in Calls, asked' = asked, StatementFails(h) \/ ProcessDies(h)
    PROVE  RequestInv' /\ Move(h)
<1>1. CallsTypeOK(Ops, Bodies, Ids, Locations)
  BY DEF RequestInv
<1>2. /\ CallsTypeOK(Ops, Bodies, Ids, Locations)' /\ OthersStay(h) /\ idem' = idem
      /\ call[h].at \notin {"idle", "done"}
      /\ call'[h].at = "done" \/ (call'[h].at = "fail" /\ SameRequest(h))
  BY <1>1, FaultEffect
<1>3. ObservesNone
  BY <1>2 DEF ObservesNone
<1>4. RequestInv'
  BY <1>2, AskedStays DEF SameRequest
<1> QED  BY <1>2, <1>3, <1>4 DEF Move, Early, SameRequest

-----------------------------------------------------------------------------
(* The routes                                                              *)

LEMMA RequestsOk ==
    ASSUME NEW who \in Staff, NEW op \in Ops, NEW body \in Bodies, BodyOk(op[1], body), NEW key \in Keys \union {Null},
           op # Named("plain") => key \in Keys, NEW about \in Ids \union {Null}, about # Null => op = Named("observe"),
           NEW version \in 0 .. MaxVersion
    PROVE  /\ RequestOk(Request(who, op, body, key, about, version))
           /\ Request(who, op, body, key, about, version).op = op /\ Request(who, op, body, key, about, version).key = key
<1>1. PICK r : r = Request(who, op, body, key, about, version)
  OBVIOUS
<1>2. r = [who |-> who, op |-> op, body |-> body, key |-> key, about |-> about, version |-> version]
  BY <1>1 DEF Request
<1>3. r \in Requests /\ r.who = who /\ r.op = op /\ r.body = body /\ r.key = key /\ r.about = about
  BY <1>2 DEF Requests
<1> QED  BY <1>1, <1>3 DEF RequestOk

\* A route with a key and nothing to say about what it is about.
LEMMA KeyedAsk ==
    ASSUME RequestInv, NEW h \in Calls, NEW who \in Staff, NEW op \in Ops, op # Named("plain"),
           NEW body \in Bodies, BodyOk(op[1], body), NEW key \in Keys, NEW about \in Ids \union {Null},
           about # Null => op = Named("observe"), NEW version \in 0 .. MaxVersion, NEW entitled,
           NEW place \in {"read", "begin"}, place = "begin" => op[1] # "review",
           Asks(h, Request(who, op, body, key, about, version), entitled, place)
    PROVE  RequestInv' /\ Move(h)
<1>1. PICK r : r = Request(who, op, body, key, about, version)
  OBVIOUS
<1>2. RequestOk(r) /\ r.op = op /\ r.key = key
  BY <1>1, RequestsOk
<1>3. Asks(h, r, entitled, place)
  BY <1>1
<1> QED  BY <1>2, <1>3, AskMoves

LEMMA ProposalBodiesOk ==
    ASSUME NEW student \in Students, NEW body \in ProposalBodies(student)
    PROVE  body \in Bodies /\ Proposable(body)
<1>1. ASSUME NEW type \in ProposalTypes, NEW c \in {"TOOLS", "OTHER", Null}, NEW state \in States \union {Null},
             NEW r \in Refs \union {Null}, body = CreateFacilitationProposal(student, type, c, state, r),
             type = "LEARNING_PATH_ADJUSTMENT" => /\ state \in States \ {"UNAVAILABLE_FOR_USE"}
                                                  /\ state = "DISABLED_WITH_ALTERNATIVE" => r \in Refs
      PROVE  body \in Bodies /\ Proposable(body)
  <2>1. /\ body = [student |-> student, member |-> Null, type |-> type, category |-> c, state |-> state, ref |-> r,
                   target |-> Null, decision |-> Null, place |-> Null]
    BY <1>1 DEF CreateFacilitationProposal, NoBody
  <2>2. body \in Bodies
    BY <2>1 DEF Bodies
  <2> QED  BY <1>1, <2>1, <2>2 DEF Proposable
<1>2. \/ \E c \in {"TOOLS", "OTHER"} : body = CreateFacilitationProposal(student, "FACILITATION", c, Null, Null)
      \/ body = CreateFacilitationProposal(student, "DIFFICULTY", Null, Null, Null)
      \/ \E state \in Offered \ {"UNAVAILABLE_FOR_USE"} : \E r \in RefOf(state) :
            body = CreateFacilitationProposal(student, "LEARNING_PATH_ADJUSTMENT", Null, state, r)
  BY DEF ProposalBodies
<1>3. CASE \E c \in {"TOOLS", "OTHER"} : body = CreateFacilitationProposal(student, "FACILITATION", c, Null, Null)
  BY <1>1, <1>3 DEF ProposalTypes
<1>4. CASE body = CreateFacilitationProposal(student, "DIFFICULTY", Null, Null, Null)
  BY <1>1, <1>4 DEF ProposalTypes
<1>5. ASSUME NEW state \in Offered \ {"UNAVAILABLE_FOR_USE"}, NEW r \in RefOf(state),
             body = CreateFacilitationProposal(student, "LEARNING_PATH_ADJUSTMENT", Null, state, r)
      PROVE  body \in Bodies /\ Proposable(body)
  <2>1. state \in States /\ r \in Refs \union {Null} /\ (state = "DISABLED_WITH_ALTERNATIVE" => r \in Refs)
    BY ConstantsAssumption DEF RefOf
  <2>2. "LEARNING_PATH_ADJUSTMENT" \in ProposalTypes
    BY DEF ProposalTypes
  <2> QED  BY <1>1, <1>5, <2>1, <2>2
<1> QED  BY <1>2, <1>3, <1>4, <1>5

LEMMA RoutesMove ==
    ASSUME TablesOK, RequestInv, NEW h \in Calls, NEW who \in Staff, Routes(h, who)
    PROVE  RequestInv' /\ Move(h)
<1>0. 0 \in 0 .. MaxVersion /\ MaxVersion \in Nat
  BY ConstantsAssumption
<1>1. ASSUME NEW key \in Keys, NEW student \in Students, NEW member \in Staff,
             PostSupportAssignment(h, who, key, member, student)
      PROVE  RequestInv' /\ Move(h)
  <2>1. CreateSupportStudentAssignment(member, student) \in Bodies
    BY DEF CreateSupportStudentAssignment, Bodies, NoBody
  <2>2. BodyOk(Named("assign")[1], CreateSupportStudentAssignment(member, student))
    BY NamedOps DEF BodyOk, OpNames
  <2>3. Named("assign") \in Ops /\ Named("assign") # Named("plain")
    BY NamedOps DEF OpNames
  <2> QED  BY <1>0, <1>1, <2>1, <2>2, <2>3, KeyedAsk DEF PostSupportAssignment
<1>2. ASSUME NEW key \in Keys, NEW student \in Students, AsksObservation(h, who, key, student)
      PROVE  RequestInv' /\ Move(h)
  <2>1. ObservationRequest(student) \in Bodies
    BY DEF ObservationRequest, Bodies, NoBody
  <2>2. BodyOk(Named("observe")[1], ObservationRequest(student))
    BY NamedOps DEF BodyOk, OpNames
  <2>3. Named("observe") \in Ops /\ Named("observe") # Named("plain")
    BY NamedOps DEF OpNames
  <2> QED  BY <1>0, <1>2, <2>1, <2>2, <2>3, KeyedAsk DEF AsksObservation
<1>3. ASSUME NEW key \in Keys, NEW student \in Students, NEW body \in ProposalBodies(student), AsksProposal(h, who, key, body)
      PROVE  RequestInv' /\ Move(h)
  <2>1. body \in Bodies /\ Proposable(body)
    BY ProposalBodiesOk
  <2>2. BodyOk(Named("propose")[1], body)
    BY <2>1, NamedOps DEF BodyOk, OpNames
  <2>3. Named("propose") \in Ops /\ Named("propose") # Named("plain")
    BY NamedOps DEF OpNames
  <2> QED  BY <1>0, <1>3, <2>1, <2>2, <2>3, KeyedAsk DEF AsksProposal
<1>4. ASSUME NEW key \in Keys, NEW student \in Students, PostApply(h, who, key, student, "TOOLS")
      PROVE  RequestInv' /\ Move(h)
  <2>1. ApplySupportTeacherFacilitation(student, "TOOLS") \in Bodies
    BY DEF ApplySupportTeacherFacilitation, Bodies, NoBody
  <2>2. BodyOk(Named("apply")[1], ApplySupportTeacherFacilitation(student, "TOOLS"))
    BY NamedOps DEF BodyOk, OpNames
  <2>3. Named("apply") \in Ops /\ Named("apply") # Named("plain")
    BY NamedOps DEF OpNames
  <2> QED  BY <1>0, <1>4, <2>1, <2>2, <2>3, KeyedAsk DEF PostApply
<1>5. ASSUME NEW key \in Keys, NEW student \in Students, PostDifficultyOverride(h, who, key, student)
      PROVE  RequestInv' /\ Move(h)
  <2>1. CreateSupportTeacherDifficultyOverride(student) \in Bodies
    BY DEF CreateSupportTeacherDifficultyOverride, Bodies, NoBody
  <2>2. BodyOk(Named("difficulty")[1], CreateSupportTeacherDifficultyOverride(student))
    BY NamedOps DEF BodyOk, OpNames
  <2>3. Named("difficulty") \in Ops /\ Named("difficulty") # Named("plain")
    BY NamedOps DEF OpNames
  <2> QED  BY <1>0, <1>5, <2>1, <2>2, <2>3, KeyedAsk DEF PostDifficultyOverride
<1>6. ASSUME NEW key \in Keys, NEW attempt \in Attempts, AsksSupportEvent(h, who, key, attempt)
      PROVE  RequestInv' /\ Move(h)
  <2>1. CreateSupportEvent(attempt) \in Bodies
    BY ConstantsAssumption DEF CreateSupportEvent, Bodies, NoBody
  <2>2. PICK op : op = <<"event", AccountOf[who], attempt>>
    OBVIOUS
  <2>3. op \in Ops /\ op[1] = "event"
    BY <2>2 DEF Ops, Accounts
  <2>4. BodyOk(op[1], CreateSupportEvent(attempt)) /\ op # Named("plain")
    BY <2>3, NamedOps DEF BodyOk, OpNames
  <2> QED  BY <1>0, <1>6, <2>1, <2>2, <2>3, <2>4, KeyedAsk DEF AsksSupportEvent
<1>7. ASSUME NEW key \in Keys, NEW ref \in Refs, PostAlternative(h, who, key, ref)
      PROVE  RequestInv' /\ Move(h)
  <2>1. CreateLearningPathAlternative(ref) \in Bodies /\ CreateLearningPathAlternative(ref).ref = ref
    BY DEF CreateLearningPathAlternative, Bodies, NoBody
  <2>2. BodyOk(Named("register")[1], CreateLearningPathAlternative(ref))
    BY <2>1, NamedOps DEF BodyOk, OpNames
  <2>3. Named("register") \in Ops /\ Named("register") # Named("plain") /\ Named("register")[1] # "review"
    BY NamedOps DEF OpNames
  <2> QED  BY <1>0, <1>7, <2>1, <2>2, <2>3, KeyedAsk DEF PostAlternative
<1>8. ASSUME NEW key \in Keys, NEW place \in Places, NEW state \in Offered, NEW ref \in RefOf(state),
             PostPolicy(h, who, key, place, state, ref)
      PROVE  RequestInv' /\ Move(h)
  <2>0. state \in States /\ ref \in Refs \union {Null}
    BY ConstantsAssumption DEF RefOf
  <2>1. PICK body : body = CreateLearningPathPolicy(place, state, ref)
    OBVIOUS
  <2>2. body \in Bodies /\ body.place = place /\ body.state = state
    BY <2>0, <2>1 DEF CreateLearningPathPolicy, Bodies, NoBody
  <2>3. BodyOk(Named("policy")[1], body)
    BY <2>0, <2>2, NamedOps DEF BodyOk, OpNames
  <2>4. Named("policy") \in Ops /\ Named("policy") # Named("plain")
    BY NamedOps DEF OpNames
  <2> QED  BY <1>0, <1>8, <2>1, <2>2, <2>3, <2>4, KeyedAsk DEF PostPolicy
<1>9. ASSUME NEW key \in Keys, NEW i \in Ids, AsksSupersede(h, who, key, i)
      PROVE  RequestInv' /\ Move(h)
  <2>0. observation[i].student \in Students \union {Null}
    BY DEF TablesOK, ObservationRows
  <2>1. SupersedeObservation(i) \in Bodies
    BY <2>0 DEF SupersedeObservation, Bodies, NoBody
  <2>2. BodyOk(Named("observe")[1], SupersedeObservation(i))
    BY NamedOps DEF BodyOk, OpNames
  <2>3. Named("observe") \in Ops /\ Named("observe") # Named("plain")
    BY NamedOps DEF OpNames
  <2> QED  BY <1>0, <1>9, <2>1, <2>2, <2>3, KeyedAsk DEF AsksSupersede
<1>10. ASSUME NEW key \in Keys, NEW p \in Ids, NEW decision \in {"ACCEPT", "REJECT"}, NEW version \in 1 .. proposal[p].version,
              PostReview(h, who, key, p, decision, version)
       PROVE  RequestInv' /\ Move(h)
  <2>0. version \in 0 .. MaxVersion
    <3>1. proposal[p].version \in 1 .. MaxVersion
      BY DEF TablesOK, ProposalRows
    <3> QED  BY <1>0, <3>1
  <2>1. PICK body : body = ReviewFacilitationProposal(p, decision)
    OBVIOUS
  <2>2. body \in Bodies /\ body.target = p /\ body.decision = decision
    BY <2>1 DEF ReviewFacilitationProposal, Bodies, NoBody
  <2>3. BodyOk(Named("review")[1], body)
    BY <2>2, NamedOps DEF BodyOk, OpNames
  <2>4. Named("review") \in Ops /\ Named("review") # Named("plain")
    BY NamedOps DEF OpNames
  <2> QED  BY <1>10, <2>0, <2>1, <2>2, <2>3, <2>4, KeyedAsk DEF PostReview
<1>11. ASSUME NEW key \in Keys, NEW i \in Ids, DeletePolicyRoute(h, who, key, i)
       PROVE  RequestInv' /\ Move(h)
  <2>1. DeleteLearningPathPolicy(i) \in Bodies
    BY DEF DeleteLearningPathPolicy, Bodies, NoBody
  <2>2. BodyOk(Named("inherit")[1], DeleteLearningPathPolicy(i))
    BY NamedOps DEF BodyOk, OpNames
  <2>3. Named("inherit") \in Ops /\ Named("inherit") # Named("plain")
    BY NamedOps DEF OpNames
  <2> QED  BY <1>0, <1>11, <2>1, <2>2, <2>3, KeyedAsk DEF DeletePolicyRoute
<1>12. ASSUME NEW student \in Students, PostApplyTemporary(h, who, student)
       PROVE  RequestInv' /\ Move(h)
  <2>1. ApplyAsacomFacilitationTemporary(student) \in Bodies
    BY DEF ApplyAsacomFacilitationTemporary, Bodies, NoBody
  <2>2. Named("plain") \in Ops /\ Named("plain")[1] = "plain"
    BY NamedOps DEF OpNames
  <2>3. BodyOk(Named("plain")[1], ApplyAsacomFacilitationTemporary(student))
    BY <2>2 DEF BodyOk
  <2>4. PICK r : r = Request(who, Named("plain"), ApplyAsacomFacilitationTemporary(student), Null, Null, 0)
    OBVIOUS
  <2>5. RequestOk(r) /\ r.key = Null
    BY <1>0, <2>1, <2>2, <2>3, <2>4, RequestsOk
  <2> QED  BY <1>12, <2>4, <2>5, AskMoves DEF PostApplyTemporary
<1>13. ASSUME NEW i \in Ids, NEW status, EndAssignment(h, who, i, status) \/ WithdrawProposal(h, who, i)
       PROVE  RequestInv' /\ Move(h)
  BY <1>13, AnswerMoves DEF EndAssignment, WithdrawProposal, historyVars
<1> QED
  BY <1>1, <1>2, <1>3, <1>4, <1>5, <1>6, <1>7, <1>8, <1>9, <1>10, <1>11, <1>12, <1>13
     DEF Routes, PostAsacomSupportEvent, PostSupportTeacherSupportEvent, PostAsacomObservation, PostSupportTeacherObservation,
         PostAsacomSupersede, PostSupportTeacherSupersede, PostAsacomProposal, PostSupportTeacherProposal

-----------------------------------------------------------------------------
(* The services                                                            *)

LEMMA ChecksMove ==
    ASSUME RequestInv, NEW h \in Calls, NEW op, op # "review", NEW ok, Checks(h, op, ok)
    PROVE  RequestInv' /\ Move(h)
<1>1. call[h].at = "read" /\ Op(h) = op /\ idem' = idem /\ asked' = asked
  BY DEF Checks, At, historyVars
<1>2. CASE Goto(h, "begin", Null)
  BY <1>1, <1>2, GotoMoves DEF Early
<1>3. CASE Answer(h, "SUPPORT_STUDENT_NOT_ASSIGNED")
  BY <1>1, <1>3, AnswerMoves
<1> QED  BY <1>2, <1>3 DEF Checks

LEMMA ReadsMove ==
    ASSUME RequestInv, NEW h \in Calls,
           \/ ReadMembership(h) \/ ReadEventScope(h) \/ ReadObserver(h) \/ ReadProposer(h) \/ ReadApplier(h)
           \/ ReadCalibrator(h) \/ ReadExisting(h) \/ ReadTemporary(h) \/ ReadPolicyParent(h) \/ ReadReviewer(h)
    PROVE  RequestInv' /\ Move(h)
<1>1. CASE ReadMembership(h)
  BY <1>1, ChecksMove DEF ReadMembership
<1>2. CASE ReadEventScope(h)
  BY <1>2, ChecksMove DEF ReadEventScope
<1>3. CASE ReadObserver(h)
  BY <1>3, ChecksMove DEF ReadObserver
<1>4. CASE ReadProposer(h)
  BY <1>4, ChecksMove DEF ReadProposer
<1>5. CASE ReadApplier(h)
  BY <1>5, ChecksMove DEF ReadApplier
<1>6. CASE ReadCalibrator(h)
  BY <1>6, ChecksMove DEF ReadCalibrator
<1>7. CASE ReadExisting(h)
  BY <1>7, ChecksMove DEF ReadExisting
<1>8. CASE ReadTemporary(h)
  <2>1. call[h].at = "once" /\ idem' = idem /\ asked' = asked
    BY <1>8 DEF ReadTemporary, At, historyVars
  <2>2. CASE Goto(h, "insert", Null)
    BY <2>1, <2>2, GotoMoves DEF Early, Locations
  <2>3. CASE Answer(h, "SUPPORT_STUDENT_NOT_ASSIGNED")
    BY <2>1, <2>3, AnswerMoves
  <2> QED  BY <1>8, <2>2, <2>3 DEF ReadTemporary
<1>9. CASE ReadPolicyParent(h)
  <2>1. call[h].at = "read" /\ Op(h) = "policy" /\ idem' = idem /\ asked' = asked
    BY <1>9 DEF ReadPolicyParent, ReadParent, At, historyVars
  <2>2. CASE Goto(h, "begin", Null)
    BY <2>1, <2>2, GotoMoves DEF Early
  <2>3. ASSUME NEW code, Answer(h, code) PROVE RequestInv' /\ Move(h)
    BY <2>1, <2>3, AnswerMoves
  <2> QED  BY <1>9, <2>2, <2>3 DEF ReadPolicyParent, ReadParent
<1>10. CASE ReadReviewer(h)
  <2>1. call[h].at = "read" /\ Op(h) = "review" /\ idem' = idem /\ asked' = asked
    BY <1>10 DEF ReadReviewer, At
  <2>2. CASE Goto(h, "begin", Null)
    BY <1>10, <2>1, <2>2, GotoMoves DEF Early
  <2>3. ASSUME NEW code, Answer(h, code) PROVE RequestInv' /\ Move(h)
    BY <2>1, <2>3, AnswerMoves
  <2> QED  BY <1>10, <2>2, <2>3 DEF ReadReviewer
<1> QED  BY <1>1, <1>2, <1>3, <1>4, <1>5, <1>6, <1>7, <1>8, <1>9, <1>10

\* A statement that writes is the last one of its try block, or throws.
LEMMA WriteMoves ==
    ASSUME RequestInv, NEW h \in Calls, call[h].at \in {"run", "insert"}, Op(h) # "observe", asked' = asked, idem' = idem,
           Goto(h, "complete", Null) \/ Throws(h, "ERROR", TRUE) \/ Throws(h, "ETAG_MISMATCH", FALSE)
           \/ Throws(h, "VALIDATION_ERROR", FALSE)
    PROVE  RequestInv' /\ Move(h) /\ call'[h].at \in {"complete", "fail"}
<1>1. CASE Goto(h, "complete", Null)
  BY <1>1, GotoMoves DEF Early
<1>2. ASSUME NEW got \in {"retryable", "terminal"}, Goto(h, "fail", got)
      PROVE  RequestInv' /\ Move(h) /\ call'[h].at \in {"complete", "fail"}
  BY <1>2, GotoMoves DEF Early
<1> QED  BY <1>1, <1>2 DEF Throws

LEMMA WritesMove ==
    ASSUME RequestInv, NEW h \in Calls,
           \/ CreateAssignment(h) \/ CreateEvent(h) \/ CreateProposal(h) \/ InsertProfile(h) \/ CreateOverride(h)
           \/ ReviewInTransaction(h) \/ CreatePolicy(h) \/ RevertToInherit(h) \/ RegisterAlternative(h)
    PROVE  RequestInv' /\ Move(h) /\ call'[h].at \in {"complete", "fail"}
<1>1. CASE CreateAssignment(h)
  BY <1>1, WriteMoves DEF CreateAssignment, At
<1>2. CASE CreateEvent(h)
  BY <1>2, WriteMoves DEF CreateEvent, At, historyVars
<1>3. CASE CreateProposal(h)
  BY <1>3, WriteMoves DEF CreateProposal, At, historyVars
<1>4. CASE InsertProfile(h)
  BY <1>4, WriteMoves DEF InsertProfile, At, historyVars
<1>5. CASE CreateOverride(h)
  BY <1>5, WriteMoves DEF CreateOverride, At, historyVars
<1>6. CASE ReviewInTransaction(h)
  BY <1>6, WriteMoves DEF ReviewInTransaction, At
<1>7. CASE CreatePolicy(h)
  BY <1>7, WriteMoves DEF CreatePolicy, UpsertPolicy, At, historyVars
<1>8. CASE RevertToInherit(h)
  BY <1>8, WriteMoves DEF RevertToInherit, DeletePolicy, At, historyVars
<1>9. CASE RegisterAlternative(h)
  BY <1>9, WriteMoves DEF RegisterAlternative, CreateAlternative, At, historyVars
<1> QED  BY <1>1, <1>2, <1>3, <1>4, <1>5, <1>6, <1>7, <1>8, <1>9

LEMMA StepsMove ==
    ASSUME RequestInv, NEW h \in Calls, InsertTemporary(h) \/ SupersedeProfile(h) \/ CreateObservation(h) \/ MarkSuperseded(h)
    PROVE  RequestInv' /\ Move(h)
<1>1. CASE InsertTemporary(h)
  BY <1>1, AnswerMoves DEF InsertTemporary, At, historyVars
<1>2. CASE SupersedeProfile(h)
  <2>1. call[h].at = "run" /\ Op(h) = "apply" /\ idem' = idem /\ asked' = asked /\ Goto(h, "insert", Null)
    BY <1>2 DEF SupersedeProfile, At, historyVars
  <2> QED  BY <2>1, GotoMoves DEF Early, Locations
<1>3. CASE CreateObservation(h)
  <2>1. call[h].at = "run" /\ Op(h) = "observe" /\ idem' = idem /\ asked' = asked /\ Goto(h, "complete", Null)
    BY <1>3 DEF CreateObservation, At, historyVars
  <2> QED  BY <1>3, <2>1, GotoMoves DEF Early
<1>4. CASE MarkSuperseded(h)
  BY <1>4, AnswerMoves DEF MarkSuperseded, At, historyVars
<1> QED  BY <1>1, <1>2, <1>3, <1>4

\* A record that answers a call is one that was completed.
LEMMA DuplicateIsCompleted ==
    ASSUME NEW s, NEW hash, Classify(Record(s), hash) = "DUPLICATE_SAME_PAYLOAD"
    PROVE  s \in DOMAIN idem /\ idem[s].status = "COMPLETED"
<1>1. Record(s).status = "COMPLETED"
  BY DEF Classify
<1> QED  BY <1>1 DEF Record, NoRow

\* A supersede() that is answered from the record goes on with the observation that its
\* first try has made.
LEMMA AnsweredBy ==
    ASSUME RequestInv, ObservationInv, NEW h \in Calls, At(h, "observe", "begin"),
           Classify(Record(Scope(h)), Body(h)) = "DUPLICATE_SAME_PAYLOAD",
           NEW got, got = CHOOSE i \in Ids : observation[i].scope = Scope(h) /\ observation[i].replayed
    PROVE  got \in Calls /\ observation[got].scope = Scope(h)
<1>1. Scope(h) \in DOMAIN idem /\ idem[Scope(h)].status = "COMPLETED"
  BY DuplicateIsCompleted
<1>2. call[h].op \in Ops /\ call[h].key \in Keys /\ call[h].op[1] = "observe"
  BY RequestFacts DEF At
<1>3. Scope(h)[1] = Named("observe") /\ Scope(h) # Null
  BY <1>2, OpParts, NullOutside DEF Scope
<1>4. \E i \in Ids : observation[i].scope = Scope(h) /\ observation[i].replayed
  BY <1>1, <1>3 DEF ObservationInv
<1>5. got \in Ids /\ observation[got].scope = Scope(h)
  BY <1>4
<1>6. MadeOk(got)
  BY <1>5 DEF ObservationInv
<1> QED  BY <1>3, <1>5, <1>6 DEF MadeOk

LEMMA BeginObserveMoves ==
    ASSUME RequestInv, ObservationInv, NEW h \in Calls, BeginObserve(h), asked' = asked
    PROVE  RequestInv' /\ Move(h)
<1>1. call[h].at = "begin" /\ Op(h) = "observe"
  BY DEF BeginObserve, At
<1>2. CASE Classify(Record(Scope(h)), Body(h)) = "DUPLICATE_SAME_PAYLOAD" /\ asked[h].about # Null
  <2>1. PICK got : got = CHOOSE i \in Ids : observation[i].scope = Scope(h) /\ observation[i].replayed
    OBVIOUS
  <2>2. got \in Calls
    BY <1>2, <2>1, AnsweredBy DEF BeginObserve
  <2>3. Goto(h, "mark", got) /\ idem' = idem /\ got \in Ids /\ "mark" \in Locations
    BY <1>2, <2>1, <2>2 DEF BeginObserve, Ids, Locations
  <2> QED  BY <1>1, <2>3, GotoMoves DEF Early
<1>3. CASE ~(Classify(Record(Scope(h)), Body(h)) = "DUPLICATE_SAME_PAYLOAD" /\ asked[h].about # Null)
  <2>1. Begin(h, "run")
    BY <1>3 DEF BeginObserve
  <2> QED  BY <1>1, <2>1, BeginMoves
<1> QED  BY <1>2, <1>3

\* complete() leaves a record a record.
LEMMA CompletedTyped ==
    ASSUME CallsTypeOK(Ops, Bodies, Ids, Locations), NEW g \in Nat, NEW s,
           idem' = [idem EXCEPT ![s] = Complete(idem[s], g, "OK")]
    PROVE  /\ DOMAIN idem' = DOMAIN idem
           /\ \A r \in DOMAIN idem : idem'[r] \in Rows(Bodies, {"OK", "ERROR"}) /\ (r # s => idem'[r] = idem[r])
<1>1. DOMAIN idem' = DOMAIN idem
  OBVIOUS
<1>2. ASSUME NEW r \in DOMAIN idem
      PROVE  idem'[r] \in Rows(Bodies, {"OK", "ERROR"}) /\ (r # s => idem'[r] = idem[r])
  <2>1. PICK row : row = idem[r]
    OBVIOUS
  <2>2. row \in Rows(Bodies, {"OK", "ERROR"})
    BY <2>1 DEF CallsTypeOK
  <2>3. Complete(row, g, "OK") \in Rows(Bodies, {"OK", "ERROR"})
    BY <2>2 DEF Complete, Rows, Statuses
  <2> QED  BY <2>1, <2>2, <2>3
<1> QED  BY <1>1, <1>2

LEMMA CompleteObservationMoves ==
    ASSUME RequestInv, NEW h \in Calls, CompleteObservation(h)
    PROVE  /\ RequestInv' /\ Move(h) /\ call[h].at = "complete" /\ Op(h) = "observe"
           /\ DOMAIN idem' = DOMAIN idem /\ \A r \in DOMAIN idem : r # Scope(h) => idem'[r] = idem[r]
           /\ call'[h].at # "done" => /\ call'[h].at = "mark" /\ call'[h].got = h /\ asked[h].about # Null
                                      /\ Op(h)' = Op(h) /\ Scope(h)' = Scope(h)
<1>1. /\ call[h].at = "complete" /\ Op(h) = "observe" /\ asked' = asked
      /\ idem' = [idem EXCEPT ![Scope(h)] = Complete(idem[Scope(h)], call[h].generation, "OK")]
      /\ (asked[h].about = Null /\ Answer(h, "OK")) \/ (asked[h].about # Null /\ Goto(h, "mark", h))
  BY DEF CompleteObservation, At, historyVars
<1>2. CallsTypeOK(Ops, Bodies, Ids, Locations) /\ call[h].generation \in Nat
  BY DEF RequestInv, CallsTypeOK, CallRows
<1>3. /\ DOMAIN idem' = DOMAIN idem
      /\ \A r \in DOMAIN idem : /\ idem'[r] \in Rows(Bodies, {"OK", "ERROR"})
                                /\ r # Scope(h) => idem'[r] = idem[r]
  BY <1>1, <1>2, CompletedTyped
<1>4. /\ call' \in [Calls -> CallRows(Ops, Bodies, Ids, Locations)] /\ OthersStay(h)
      /\ \/ call'[h].at = "done"
         \/ call'[h].at = "mark" /\ call'[h].got = h /\ SameRequest(h) /\ asked[h].about # Null
  <2>1. CASE Answer(h, "OK")
    BY <1>2, <2>1, AnswerEffect
  <2>2. CASE Goto(h, "mark", h) /\ asked[h].about # Null
    <3>1. "mark" \in Locations /\ h \in Ids
      BY DEF Locations, Ids
    <3> QED  BY <1>2, <2>2, <3>1, GotoEffect
  <2> QED  BY <1>1, <2>1, <2>2
<1>5. CallsTypeOK(Ops, Bodies, Ids, Locations)'
  BY <1>2, <1>3, <1>4 DEF CallsTypeOK
<1>6. RequestInv'
  BY <1>1, <1>4, <1>5, AskedStays DEF SameRequest
<1>7. SameRequest(h) => Op(h)' = Op(h) /\ Scope(h)' = Scope(h)
  BY DEF SameRequest, Op, Scope
<1>8. Move(h)
  BY <1>1, <1>4, <1>7 DEF Move, Early, SameRequest
<1> QED  BY <1>1, <1>3, <1>4, <1>6, <1>7, <1>8

LEMMA FramesMove ==
    ASSUME RequestInv, ObservationInv, NEW h \in Calls, asked' = asked,
           \/ BeginAssign(h) \/ BeginEvent(h) \/ BeginObserve(h) \/ BeginPropose(h) \/ BeginReview(h) \/ BeginApply(h)
           \/ BeginDifficulty(h) \/ BeginPolicy(h) \/ BeginInherit(h) \/ BeginRegister(h)
           \/ SettleAssign(h) \/ SettleEvent(h) \/ SettleObserve(h) \/ SettlePropose(h) \/ SettleReview(h) \/ SettleApply(h)
           \/ SettleDifficulty(h) \/ SettlePolicy(h) \/ SettleInherit(h) \/ SettleRegister(h)
           \/ StatementFails(h) \/ ProcessDies(h)
    PROVE  RequestInv' /\ Move(h)
<1>1. ASSUME NEW n \in OpNames, n # "plain", Op(h) = n, Begin(h, "run")
      PROVE  RequestInv' /\ Move(h)
  BY <1>1, BeginMoves
<1>2. CASE \/ BeginAssign(h) \/ BeginEvent(h) \/ BeginPropose(h) \/ BeginReview(h) \/ BeginApply(h)
           \/ BeginDifficulty(h) \/ BeginPolicy(h) \/ BeginInherit(h) \/ BeginRegister(h)
  BY <1>1, <1>2 DEF OpNames, BeginAssign, BeginEvent, BeginPropose, BeginReview, BeginApply, BeginDifficulty,
                    BeginPolicy, BeginInherit, BeginRegister
<1>3. ASSUME NEW n \in OpNames, n # "observe", Settle(h, n)
      PROVE  RequestInv' /\ Move(h)
  BY <1>3, SettleMoves DEF Settle
<1>4. CASE \/ SettleAssign(h) \/ SettleEvent(h) \/ SettlePropose(h) \/ SettleReview(h) \/ SettleApply(h)
           \/ SettleDifficulty(h) \/ SettlePolicy(h) \/ SettleInherit(h) \/ SettleRegister(h)
  BY <1>3, <1>4 DEF OpNames, SettleAssign, SettleEvent, SettlePropose, SettleReview, SettleApply, SettleDifficulty,
                    SettlePolicy, SettleInherit, SettleRegister
<1>5. CASE SettleObserve(h)
  BY <1>5, SettleMoves DEF SettleObserve
<1>6. CASE BeginObserve(h)
  BY <1>6, BeginObserveMoves
<1>7. CASE StatementFails(h) \/ ProcessDies(h)
  BY <1>7, FaultMoves
<1> QED  BY <1>2, <1>4, <1>5, <1>6, <1>7

LEMMA ServicesMove ==
    ASSUME RequestInv, ObservationInv, NEW h \in Calls, Services(h)
    PROVE  RequestInv' /\ Move(h)
<1>1. CASE \/ ReadMembership(h) \/ ReadEventScope(h) \/ ReadObserver(h) \/ ReadProposer(h) \/ ReadApplier(h)
           \/ ReadCalibrator(h) \/ ReadExisting(h) \/ ReadTemporary(h) \/ ReadPolicyParent(h) \/ ReadReviewer(h)
  BY <1>1, ReadsMove
<1>2. CASE \/ CreateAssignment(h) \/ CreateEvent(h) \/ CreateProposal(h) \/ InsertProfile(h) \/ CreateOverride(h)
           \/ ReviewInTransaction(h) \/ CreatePolicy(h) \/ RevertToInherit(h) \/ RegisterAlternative(h)
  BY <1>2, WritesMove
<1>3. CASE InsertTemporary(h) \/ SupersedeProfile(h) \/ CreateObservation(h) \/ MarkSuperseded(h)
  BY <1>3, StepsMove
<1>4. CASE CompleteObservation(h)
  BY <1>4, CompleteObservationMoves
<1> QED  BY <1>1, <1>2, <1>3, <1>4, FramesMove DEF Services, historyVars

LEMMA NextMoves ==
    ASSUME SupportInv, NEW h \in Calls, (\E who \in Staff : Routes(h, who)) \/ Services(h)
    PROVE  RequestInv' /\ Move(h)
  BY RoutesMove, ServicesMove DEF SupportInv

-----------------------------------------------------------------------------
(* What a step leaves alone                                                *)

Asking(h) ==
    /\ call[h].at = "idle" /\ UNCHANGED <<tableVars, adjusted, pathVars>>
    /\ lately' = [lately EXCEPT ![h] = FALSE] /\ AboutOk(h)'

Calm == UNCHANGED <<tableVars, historyVars, pathVars>>

\* A supersede() asks for the student and the author of the original.
LEMMA SupersedeAsks ==
    ASSUME TablesOK, RequestInv, NEW h \in Calls, NEW who \in Staff, NEW key \in Keys, NEW i \in Ids, AsksSupersede(h, who, key, i)
    PROVE  Asking(h)
<1>1. PICK entitled : entitled = (/\ observation[i].author = AccountOf[who] /\ observation[i].by = Null
                                  /\ Capable(who, "asacom.observation.record", "support_teacher.observation.record"))
  OBVIOUS
<1>2. PICK r : r = Request(who, Named("observe"), SupersedeObservation(i), key, i, 0)
  OBVIOUS
<1>3. Asks(h, r, entitled, "read")
  BY <1>1, <1>2 DEF AsksSupersede
<1>4. /\ call[h].at = "idle" /\ UNCHANGED <<tableVars, adjusted, pathVars>> /\ lately' = [lately EXCEPT ![h] = FALSE]
      /\ asked' = [asked EXCEPT ![h] = IF entitled THEN r ELSE NotAsked]
  BY <1>3 DEF Asks, Admit
<1>5. observation' = observation
  BY <1>4 DEF tableVars
<1>6. /\ r.about = i /\ r.who = who /\ r.body.student = observation[i].student
      /\ NotAsked.about = Null /\ i # Null
  BY <1>2, NullOutside DEF Request, SupersedeObservation, NoBody, NotAsked
<1>7. asked'[h] = IF entitled THEN r ELSE NotAsked
  BY <1>4 DEF RequestInv
<1>8. AboutOk(h)'
  BY <1>1, <1>5, <1>6, <1>7 DEF AboutOk
<1> QED  BY <1>4, <1>8 DEF Asking

LEMMA PlainAsks ==
    ASSUME RequestInv, NEW h \in Calls, NEW who, NEW op, NEW body, NEW key, NEW version, NEW entitled, NEW place,
           Asks(h, Request(who, op, body, key, Null, version), entitled, place)
    PROVE  Asking(h)
<1>1. PICK r : r = Request(who, op, body, key, Null, version)
  OBVIOUS
<1>2. Asks(h, r, entitled, place)
  BY <1>1
<1>3. /\ call[h].at = "idle" /\ UNCHANGED <<tableVars, adjusted, pathVars>> /\ lately' = [lately EXCEPT ![h] = FALSE]
      /\ asked' = [asked EXCEPT ![h] = IF entitled THEN r ELSE NotAsked]
  BY <1>2 DEF Asks, Admit
<1>4. r.about = Null /\ NotAsked.about = Null
  BY <1>1 DEF Request, NotAsked
<1>5. asked'[h].about = Null
  BY <1>3, <1>4 DEF RequestInv
<1> QED  BY <1>3, <1>5 DEF Asking, AboutOk

LEMMA RouteKinds ==
    ASSUME TablesOK, RequestInv, NEW h \in Calls, NEW who \in Staff, Routes(h, who)
    PROVE  \/ Asking(h)
           \/ \E i \in Ids : WithdrawProposal(h, who, i) \/ \E status \in {"ENDED", "REVOKED"} : EndAssignment(h, who, i, status)
<1>1. ASSUME NEW key, NEW student, NEW member,
             PostSupportAssignment(h, who, key, member, student) \/ AsksObservation(h, who, key, student)
             \/ PostApply(h, who, key, student, "TOOLS") \/ PostDifficultyOverride(h, who, key, student)
             \/ PostApplyTemporary(h, who, student)
      PROVE  Asking(h)
  BY <1>1, PlainAsks DEF PostSupportAssignment, AsksObservation, PostApply, PostDifficultyOverride, PostApplyTemporary
<1>2. ASSUME NEW key, NEW body, AsksProposal(h, who, key, body) PROVE Asking(h)
  BY <1>2, PlainAsks DEF AsksProposal
<1>3. ASSUME NEW key, NEW attempt, NEW ref, AsksSupportEvent(h, who, key, attempt) \/ PostAlternative(h, who, key, ref)
      PROVE  Asking(h)
  BY <1>3, PlainAsks DEF AsksSupportEvent, PostAlternative
<1>4. ASSUME NEW key, NEW place, NEW state, NEW ref, PostPolicy(h, who, key, place, state, ref) PROVE Asking(h)
  BY <1>4, PlainAsks DEF PostPolicy
<1>5. ASSUME NEW key, NEW i, NEW decision, NEW version,
             PostReview(h, who, key, i, decision, version) \/ DeletePolicyRoute(h, who, key, i)
      PROVE  Asking(h)
  BY <1>5, PlainAsks DEF PostReview, DeletePolicyRoute
<1> QED
  BY <1>1, <1>2, <1>3, <1>4, <1>5, SupersedeAsks
     DEF Routes, PostAsacomSupportEvent, PostSupportTeacherSupportEvent, PostAsacomObservation, PostSupportTeacherObservation,
         PostAsacomSupersede, PostSupportTeacherSupersede, PostAsacomProposal, PostSupportTeacherProposal

LEMMA ServiceKinds ==
    ASSUME NEW h \in Calls, Services(h)
    PROVE  \/ Calm \/ ReadReviewer(h) \/ CreateAssignment(h) \/ CreateEvent(h)
           \/ CreateObservation(h) \/ CompleteObservation(h) \/ MarkSuperseded(h) \/ CreateProposal(h)
           \/ InsertTemporary(h) \/ SupersedeProfile(h) \/ InsertProfile(h) \/ CreateOverride(h)
           \/ ReviewInTransaction(h) \/ CreatePolicy(h) \/ RevertToInherit(h) \/ RegisterAlternative(h)
<1>1. ASSUME NEW op, NEW ok, Checks(h, op, ok) PROVE Calm
  BY <1>1 DEF Checks, Calm
<1>2. CASE \/ ReadMembership(h) \/ ReadEventScope(h) \/ ReadObserver(h) \/ ReadProposer(h) \/ ReadApplier(h)
           \/ ReadCalibrator(h) \/ ReadExisting(h)
  BY <1>1, <1>2 DEF ReadMembership, ReadEventScope, ReadObserver, ReadProposer, ReadApplier, ReadCalibrator, ReadExisting
<1>3. CASE ReadTemporary(h) \/ ReadPolicyParent(h)
  BY <1>3 DEF ReadTemporary, ReadPolicyParent, ReadParent, Calm
<1> QED  BY <1>2, <1>3 DEF Services, Calm

-----------------------------------------------------------------------------
(* The effects of accepted proposals                                       *)

\* Every effect stays that of the same proposal.
SameEffects ==
    /\ \A i \in Ids : profile'[i].from = profile[i].from /\ override'[i].from = override[i].from
    /\ adjusted' = adjusted

LEMMA EffectsStay ==
    ASSUME SameEffects, NEW p \in Ids
    PROVE  Effects(p)' = Effects(p)
  BY DEF SameEffects, Effects

\* A step that writes neither proposals nor effects.
LEMMA EffectQuiet ==
    ASSUME SupportInv, NEW h \in Calls, Move(h), proposal' = proposal, SameEffects
    PROVE  EffectInv'
<1>1. ASSUME NEW p \in Ids
      PROVE  (/\ proposal[p].status # "ABSENT" => Proposable(proposal[p])
              /\ EffectOk(p) /\ NotOwnReviewer(proposal[p]))'
  <2>1. Effects(p)' = Effects(p) /\ proposal'[p] = proposal[p]
    BY EffectsStay
  <2>2. proposal[p].status # "ABSENT" => Proposable(proposal[p])
    BY DEF SupportInv, EffectInv
  <2>3. EffectOk(p) /\ NotOwnReviewer(proposal[p])
    BY DEF SupportInv, EffectInv
  <2>4. EffectOk(p)'
    BY <2>1, <2>3 DEF EffectOk, HasEffect
  <2> QED  BY <2>1, <2>2, <2>3, <2>4 DEF NotOwnReviewer, Proposable
<1>2. ASSUME NEW g \in Calls, call'[g].at \in Early
      PROVE  (proposal[g] = NoProposal /\ profile[g].from = Null /\ override[g].from = Null)'
  <2>1. call[g].at \in Early
    BY <1>2 DEF Move, OthersStay
  <2>2. proposal[g] = NoProposal /\ profile[g].from = Null /\ override[g].from = Null
    BY <2>1 DEF SupportInv, EffectInv
  <2> QED  BY <2>2 DEF SameEffects, Ids, NoProposal
<1> QED  BY <1>1, <1>2 DEF EffectInv

\* A proposal that is not accepted, before and after, in a step without effects.
LEMMA EffectUndecided ==
    ASSUME SupportInv, NEW h \in Calls, Move(h), SameEffects, NEW p \in Ids,
           \A q \in Ids \ {p} : proposal'[q] = proposal[q],
           proposal[p].status # "ACCEPTED", proposal'[p].status # "ACCEPTED",
           Proposable(proposal'[p]), NotOwnReviewer(proposal'[p]),
           proposal[p] # NoProposal \/ (p = h /\ call'[h].at \notin Early)
    PROVE  EffectInv'
<1>1. ASSUME NEW q \in Ids
      PROVE  (/\ proposal[q].status # "ABSENT" => Proposable(proposal[q])
              /\ EffectOk(q) /\ NotOwnReviewer(proposal[q]))'
  <2>1. Effects(q)' = Effects(q)
    BY EffectsStay
  <2>2. EffectOk(q)
    BY DEF SupportInv, EffectInv
  <2>3. CASE q = p
    BY <2>1, <2>2, <2>3 DEF EffectOk, NotOwnReviewer, Proposable
  <2>4. CASE q # p
    <3>1. proposal'[q] = proposal[q]
      BY <2>4
    <3>2. (proposal[q].status # "ABSENT" => Proposable(proposal[q])) /\ NotOwnReviewer(proposal[q])
      BY DEF SupportInv, EffectInv
    <3>3. EffectOk(q)'
      BY <2>1, <2>2, <3>1 DEF EffectOk, HasEffect
    <3> QED  BY <3>1, <3>2, <3>3 DEF NotOwnReviewer, Proposable
  <2> QED  BY <2>3, <2>4
<1>2. ASSUME NEW g \in Calls, call'[g].at \in Early
      PROVE  (proposal[g] = NoProposal /\ profile[g].from = Null /\ override[g].from = Null)'
  <2>1. call[g].at \in Early
    BY <1>2 DEF Move, OthersStay
  <2>2. proposal[g] = NoProposal /\ profile[g].from = Null /\ override[g].from = Null
    BY <2>1 DEF SupportInv, EffectInv
  <2>3. g # p
    BY <1>2, <2>2
  <2> QED  BY <2>2, <2>3 DEF SameEffects, Ids, NoProposal
<1> QED  BY <1>1, <1>2 DEF EffectInv

LEMMA CreateProposalEffect ==
    ASSUME SupportInv, NEW h \in Calls, Move(h), CreateProposal(h), call'[h].at \notin Early
    PROVE  EffectInv'
<1>1. /\ call[h].at = "run" /\ Op(h) = "propose" /\ SameEffects
      /\ proposal' = [proposal EXCEPT ![h] = NewProposal(Account(h), Body(h))]
  BY DEF CreateProposal, At, historyVars, SameEffects
<1>2. h \in Ids /\ proposal \in [Ids -> ProposalRows]
  BY DEF Ids, SupportInv, TablesOK
<1>3. PICK new : new = NewProposal(Account(h), Body(h))
  OBVIOUS
<1>4. new = [status |-> "SUBMITTED", type |-> Body(h).type, student |-> Body(h).student, author |-> Account(h),
             category |-> Body(h).category, state |-> Body(h).state, ref |-> Body(h).ref, reviewer |-> Null, version |-> 1]
  BY <1>3 DEF NewProposal, NoProposal
<1>5. Proposable(Body(h))
  BY <1>1, RequestFacts DEF SupportInv, BodyOk
<1>6. Proposable(new) /\ NotOwnReviewer(new) /\ new.status # "ACCEPTED"
  BY <1>4, <1>5 DEF Proposable, NotOwnReviewer
<1>7. proposal'[h] = new /\ \A q \in Ids \ {h} : proposal'[q] = proposal[q]
  BY <1>1, <1>2, <1>3
<1>8. proposal[h].status # "ACCEPTED"
  BY <1>1 DEF SupportInv, EffectInv, Early, NoProposal
<1> QED  BY <1>1, <1>2, <1>6, <1>7, <1>8, EffectUndecided

LEMMA WithdrawEffect ==
    ASSUME SupportInv, NEW h \in Calls, Move(h), NEW who \in Staff, NEW p \in Ids, WithdrawProposal(h, who, p)
    PROVE  EffectInv'
<1>1. proposal[p].status = "SUBMITTED" /\ SameEffects
  BY DEF WithdrawProposal, historyVars, SameEffects
<1>2. PICK row : row = proposal[p]
  OBVIOUS
<1>3. row \in ProposalRows /\ Proposable(row) /\ NotOwnReviewer(row)
  BY <1>1, <1>2 DEF SupportInv, TablesOK, EffectInv
<1>4. PICK new : new = [row EXCEPT !.status = "WITHDRAWN", !.version = row.version + 1]
  OBVIOUS
<1>5. Proposable(new) /\ NotOwnReviewer(new) /\ new.status = "WITHDRAWN"
  BY <1>3, <1>4 DEF ProposalRows, Proposable, NotOwnReviewer
<1>6. proposal'[p] = new /\ \A q \in Ids \ {p} : proposal'[q] = proposal[q]
  <2>1. proposal' = [proposal EXCEPT ![p] = [proposal[p] EXCEPT !.status = "WITHDRAWN", !.version = proposal[p].version + 1]]
    BY DEF WithdrawProposal
  <2>2. proposal' = [proposal EXCEPT ![p] = new]
    BY <1>2, <1>4, <2>1
  <2> QED  BY <2>2 DEF SupportInv, TablesOK
<1>7. proposal[p] # NoProposal
  BY <1>1 DEF NoProposal
<1> QED  BY <1>1, <1>5, <1>6, <1>7, EffectUndecided

\* What a review writes in its transaction.
LEMMA ReviewFacts ==
    ASSUME SupportInv, NEW h \in Calls, ReviewInTransaction(h), NEW p, p = Body(h).target
    PROVE  /\ p \in Ids /\ p # Null /\ call[h].at = "run" /\ Op(h) = "review"
           /\ asked' = asked /\ lately' = lately /\ support' = support /\ observation' = observation /\ event' = event
           /\ alternative' = alternative
           /\ \/ UNCHANGED <<proposal, profile, override, policy, adjusted>>
              \/ /\ proposal[p].status = "SUBMITTED" /\ Account(h) # proposal[p].author
                 /\ \A q \in Ids \ {p} : proposal'[q] = proposal[q]
                 /\ proposal' \in [Ids -> ProposalRows]
                 /\ proposal'[p].reviewer = Who(h) /\ proposal'[p].author = proposal[p].author
                 /\ proposal'[p].type = proposal[p].type /\ proposal'[p].student = proposal[p].student
                 /\ proposal'[p].category = proposal[p].category /\ proposal'[p].state = proposal[p].state
                 /\ proposal'[p].ref = proposal[p].ref
                 /\ \/ proposal'[p].status = "REJECTED" /\ UNCHANGED <<profile, override, policy, adjusted>>
                    \/ proposal'[p].status = "ACCEPTED" /\ TakesEffect(h, p)
<1>1. /\ call[h].at = "run" /\ Op(h) = "review" /\ proposal[p].version < MaxVersion
      /\ asked' = asked /\ lately' = lately /\ support' = support /\ observation' = observation /\ event' = event
      /\ alternative' = alternative
  BY DEF ReviewInTransaction, At
<1>2. p \in Ids /\ p # Null /\ Who(h) \in Staff
  BY <1>1, RequestFacts, NullOutside DEF SupportInv, BodyOk
<1>3. CASE UNCHANGED <<proposal, profile, override, policy, adjusted>>
  BY <1>1, <1>2, <1>3
<1>4. ASSUME CanReview(h, p), NEW status \in {"ACCEPTED", "REJECTED"}, proposal' = [proposal EXCEPT ![p] = Reviewed(h, @, status)],
             \/ status = "REJECTED" /\ UNCHANGED <<profile, override, policy, adjusted>>
             \/ status = "ACCEPTED" /\ TakesEffect(h, p)
      PROVE  /\ proposal[p].status = "SUBMITTED" /\ Account(h) # proposal[p].author
             /\ \A q \in Ids \ {p} : proposal'[q] = proposal[q]
             /\ proposal' \in [Ids -> ProposalRows]
             /\ proposal'[p].reviewer = Who(h) /\ proposal'[p].author = proposal[p].author
             /\ proposal'[p].type = proposal[p].type /\ proposal'[p].student = proposal[p].student
             /\ proposal'[p].category = proposal[p].category /\ proposal'[p].state = proposal[p].state
             /\ proposal'[p].ref = proposal[p].ref /\ proposal'[p].status = status
  <2>1. proposal[p].status = "SUBMITTED" /\ Account(h) # proposal[p].author
    BY <1>4 DEF CanReview, IsAuthor
  <2>2. PICK row : row = proposal[p]
    OBVIOUS
  <2>3. row \in ProposalRows
    BY <1>2, <2>2 DEF SupportInv, TablesOK
  <2>4. PICK new : new = Reviewed(h, row, status)
    OBVIOUS
  <2>5. row.version \in Nat /\ row.version + 1 \in 1 .. MaxVersion
    BY <1>1, <2>2, <2>3, ConstantsAssumption DEF ProposalRows
  <2>6. new = [row EXCEPT !.status = status, !.reviewer = Who(h), !.version = @ + 1]
    BY <2>4 DEF Reviewed
  <2>7. /\ new \in ProposalRows /\ new.reviewer = Who(h) /\ new.author = row.author /\ new.type = row.type
        /\ new.student = row.student /\ new.category = row.category /\ new.state = row.state /\ new.ref = row.ref
        /\ new.status = status
    BY <1>2, <2>3, <2>5, <2>6 DEF ProposalRows
  <2>8. proposal'[p] = new /\ proposal' \in [Ids -> ProposalRows] /\ \A q \in Ids \ {p} : proposal'[q] = proposal[q]
    BY <1>2, <1>4, <2>2, <2>4, <2>7 DEF SupportInv, TablesOK
  <2> QED  BY <2>1, <2>2, <2>7, <2>8
<1>5. \/ UNCHANGED <<proposal, profile, override, policy, adjusted>>
      \/ CanReview(h, p) /\ \E status \in {"ACCEPTED", "REJECTED"} :
            /\ proposal' = [proposal EXCEPT ![p] = Reviewed(h, @, status)]
            /\ \/ status = "REJECTED" /\ UNCHANGED <<profile, override, policy, adjusted>>
               \/ status = "ACCEPTED" /\ TakesEffect(h, p)
  BY DEF ReviewInTransaction
<1> QED  BY <1>1, <1>2, <1>3, <1>4, <1>5

\* Superseding a facilitation keeps where it came from.
LEMMA SupersededKeeps ==
    ASSUME TablesOK, NEW student, NEW category
    PROVE  /\ Superseded(student, category) \in [Ids -> ProfileRows]
           /\ \A i \in Ids : Superseded(student, category)[i].from = profile[i].from
<1>1. ASSUME NEW i \in Ids
      PROVE  /\ Superseded(student, category)[i] \in ProfileRows
             /\ Superseded(student, category)[i].from = profile[i].from
  <2>1. PICK row : row = profile[i]
    OBVIOUS
  <2>2. row \in ProfileRows
    BY <2>1 DEF TablesOK
  <2>3. [row EXCEPT !.status = "SUPERSEDED"] \in ProfileRows /\ [row EXCEPT !.status = "SUPERSEDED"].from = row.from
    BY <2>2 DEF ProfileRows
  <2> QED  BY <2>1, <2>2, <2>3 DEF Superseded
<1>2. Superseded(student, category) \in [Ids -> ProfileRows]
  BY <1>1 DEF Superseded
<1> QED  BY <1>1, <1>2

\* The transaction of an acceptance adds one effect to the proposal, or none, and to no
\* other.
LEMMA AcceptanceAdds ==
    ASSUME SupportInv, NEW h \in Calls, call[h].at = "run", NEW p \in Ids, Proposable(proposal[p]), TakesEffect(h, p)
    PROVE  /\ Effects(p)' = Effects(p) \union (IF HasEffect(proposal[p]) THEN {h} ELSE {})
           /\ \A q \in Ids \ {p} : Effects(q)' = Effects(q)
           /\ \A i \in Ids \ {h} : profile'[i].from = profile[i].from /\ override'[i].from = override[i].from
<1>0. h \in Ids /\ TablesOK /\ profile[h].from = Null /\ override[h].from = Null /\ p # Null
  BY NullOutside DEF Ids, SupportInv, EffectInv, Early
<1> DEFINE row == proposal[p]
<1>1. CASE row.type = "FACILITATION"
  <2>1. override' = override /\ adjusted' = adjusted
    BY <1>1 DEF TakesEffect
  <2>2. CASE HasEffect(row)
    <3>1. profile' = [Superseded(row.student, row.category) EXCEPT ![h] = NewProfile(row.student, row.category, "PROFILE_LEVEL", p)]
      BY <1>1, <2>2 DEF TakesEffect
    <3>2. NewProfile(row.student, row.category, "PROFILE_LEVEL", p).from = p
      BY DEF NewProfile
    <3>3. profile'[h].from = p /\ \A i \in Ids \ {h} : profile'[i].from = profile[i].from
      BY <1>0, <3>1, <3>2, SupersededKeeps
    <3> QED  BY <1>0, <2>1, <2>2, <3>3 DEF Effects
  <2>3. CASE ~HasEffect(row)
    <3>1. profile' = profile
      BY <2>3 DEF TakesEffect
    <3> QED  BY <2>1, <2>3, <3>1 DEF Effects
  <2> QED  BY <2>2, <2>3
<1>2. CASE row.type = "DIFFICULTY"
  <2>1. /\ profile' = profile /\ adjusted' = adjusted /\ override' = [override EXCEPT ![h] = NewOverride(row.student, p)]
        /\ HasEffect(row)
    BY <1>2 DEF TakesEffect, HasEffect
  <2>2. NewOverride(row.student, p).from = p
    BY DEF NewOverride
  <2>3. override'[h].from = p /\ \A i \in Ids \ {h} : override'[i].from = override[i].from
    BY <1>0, <2>1, <2>2 DEF TablesOK
  <2> QED  BY <1>0, <2>1, <2>3 DEF Effects
<1>3. CASE row.type = "LEARNING_PATH_ADJUSTMENT"
  <2>1. /\ profile' = profile /\ override' = override /\ adjusted' = adjusted \union {<<h, p>>} /\ HasEffect(row)
    BY <1>3 DEF TakesEffect, HasEffect
  <2>2. \A g \in Calls, q \in Ids : <<g, q>> = <<h, p>> <=> g = h /\ q = p
    OBVIOUS
  <2> QED  BY <2>1, <2>2 DEF Effects
<1> QED  BY <1>1, <1>2, <1>3 DEF Proposable, ProposalTypes

LEMMA ReviewEffect ==
    ASSUME SupportInv, NEW h \in Calls, Move(h), ReviewInTransaction(h), call'[h].at \notin Early
    PROVE  EffectInv'
<1>1. PICK p : p = Body(h).target
  OBVIOUS
<1>2. CASE UNCHANGED <<proposal, profile, override, policy, adjusted>>
  BY <1>2, EffectQuiet DEF SameEffects
<1>3. CASE ~UNCHANGED <<proposal, profile, override, policy, adjusted>>
  <2>1. /\ p \in Ids /\ call[h].at = "run"
        /\ proposal[p].status = "SUBMITTED" /\ Account(h) # proposal[p].author
        /\ \A q \in Ids \ {p} : proposal'[q] = proposal[q]
        /\ proposal'[p].reviewer = Who(h) /\ proposal'[p].author = proposal[p].author
        /\ proposal'[p].type = proposal[p].type /\ proposal'[p].student = proposal[p].student
        /\ proposal'[p].category = proposal[p].category /\ proposal'[p].state = proposal[p].state
        /\ proposal'[p].ref = proposal[p].ref
        /\ \/ proposal'[p].status = "REJECTED" /\ UNCHANGED <<profile, override, policy, adjusted>>
           \/ proposal'[p].status = "ACCEPTED" /\ TakesEffect(h, p)
    BY <1>1, <1>3, ReviewFacts
  <2>2. proposal[p] # NoProposal
    BY <2>1 DEF NoProposal
  <2>3. Proposable(proposal[p])
    BY <2>1 DEF SupportInv, EffectInv
  <2>4. Proposable(proposal'[p]) /\ NotOwnReviewer(proposal'[p])
    BY <2>1, <2>3 DEF Proposable, NotOwnReviewer, Account
  <2>5. CASE proposal'[p].status = "REJECTED" /\ UNCHANGED <<profile, override, policy, adjusted>>
    BY <2>1, <2>2, <2>4, <2>5, EffectUndecided DEF SameEffects
  <2>6. CASE proposal'[p].status = "ACCEPTED" /\ TakesEffect(h, p)
    <3>1. /\ Effects(p)' = Effects(p) \union (IF HasEffect(proposal[p]) THEN {h} ELSE {})
          /\ \A q \in Ids \ {p} : Effects(q)' = Effects(q)
          /\ \A i \in Ids \ {h} : profile'[i].from = profile[i].from /\ override'[i].from = override[i].from
      BY <2>1, <2>3, <2>6, AcceptanceAdds
    <3>2. Effects(p) = {}
      BY <2>1 DEF SupportInv, EffectInv, EffectOk
    <3>3. HasEffect(proposal'[p]) <=> HasEffect(proposal[p])
      BY <2>1 DEF HasEffect
    <3>4. EffectOk(p)'
      BY <2>6, <3>1, <3>2, <3>3 DEF EffectOk, HasEffect
    <3>5. ASSUME NEW q \in Ids \ {p}
          PROVE  (/\ proposal[q].status # "ABSENT" => Proposable(proposal[q])
                  /\ EffectOk(q) /\ NotOwnReviewer(proposal[q]))'
      <4>1. (proposal[q].status # "ABSENT" => Proposable(proposal[q])) /\ EffectOk(q) /\ NotOwnReviewer(proposal[q])
        BY DEF SupportInv, EffectInv
      <4>2. proposal'[q] = proposal[q] /\ Effects(q)' = Effects(q)
        BY <2>1, <3>1
      <4>3. EffectOk(q)'
        BY <4>1, <4>2 DEF EffectOk, HasEffect
      <4> QED  BY <4>1, <4>2, <4>3 DEF NotOwnReviewer, Proposable
    <3>6. ASSUME NEW g \in Calls, call'[g].at \in Early
          PROVE  (proposal[g] = NoProposal /\ profile[g].from = Null /\ override[g].from = Null)'
      <4>1. call[g].at \in Early /\ g # h
        BY <3>6 DEF Move, OthersStay
      <4>2. proposal[g] = NoProposal /\ profile[g].from = Null /\ override[g].from = Null
        BY <4>1 DEF SupportInv, EffectInv
      <4>3. g # p /\ g \in Ids
        BY <2>2, <4>2 DEF Ids
      <4> QED  BY <2>1, <3>1, <4>1, <4>2, <4>3 DEF NoProposal
    <3> QED  BY <2>4, <3>4, <3>5, <3>6 DEF EffectInv, Proposable, NotOwnReviewer
  <2> QED  BY <2>1, <2>5, <2>6
<1> QED  BY <1>2, <1>3

\* A row that a call inserts of its own, before which it had no effect.
LEMMA OwnRowsKeep ==
    ASSUME SupportInv, NEW h \in Calls, InsertTemporary(h) \/ InsertProfile(h) \/ CreateOverride(h)
    PROVE  SameEffects /\ proposal' = proposal
<1>1. /\ h \in Ids /\ profile[h].from = Null /\ override[h].from = Null
      /\ profile \in [Ids -> ProfileRows] /\ override \in [Ids -> OverrideRows]
  <2>1. call[h].at \in Early
    BY DEF InsertTemporary, InsertProfile, CreateOverride, At, Early
  <2> QED  BY <2>1 DEF SupportInv, TablesOK, EffectInv, Ids
<1>2. ASSUME NEW row, row.from = Null, profile' = [profile EXCEPT ![h] = row], override' = override, adjusted' = adjusted
      PROVE  SameEffects
  BY <1>1, <1>2 DEF SameEffects
<1>3. CASE InsertTemporary(h)
  <2>1. PICK row : row = NewProfile(Supported(h), Body(h).category, "SESSION_ONLY", Null)
    OBVIOUS
  <2>2. row.from = Null
    BY <2>1 DEF NewProfile
  <2> QED  BY <1>2, <1>3, <2>1, <2>2 DEF InsertTemporary, historyVars
<1>4. CASE InsertProfile(h)
  <2>1. PICK row : row = NewProfile(Supported(h), Body(h).category, "PROFILE_LEVEL", Null)
    OBVIOUS
  <2>2. row.from = Null
    BY <2>1 DEF NewProfile
  <2>3. proposal' = proposal /\ override' = override /\ adjusted' = adjusted
    BY <1>4 DEF InsertProfile, historyVars
  <2>4. CASE profile' = profile
    BY <2>3, <2>4 DEF SameEffects
  <2>5. CASE profile' = [profile EXCEPT ![h] = row]
    BY <1>2, <2>2, <2>3, <2>5
  <2> QED  BY <1>4, <2>1, <2>3, <2>4, <2>5 DEF InsertProfile
<1>5. CASE CreateOverride(h)
  <2>1. PICK row : row = NewOverride(Supported(h), Null)
    OBVIOUS
  <2>2. row.from = Null
    BY <2>1 DEF NewOverride
  <2>3. proposal' = proposal /\ profile' = profile /\ adjusted' = adjusted /\ override' = [override EXCEPT ![h] = row]
    BY <1>5, <2>1 DEF CreateOverride, historyVars
  <2> QED  BY <1>1, <2>2, <2>3 DEF SameEffects
<1> QED  BY <1>3, <1>4, <1>5

\* The steps that write neither.
LEMMA OthersKeepEffects ==
    ASSUME NEW h \in Calls,
           \/ Asking(h) \/ Calm \/ ReadReviewer(h) \/ CreateAssignment(h) \/ CreateEvent(h)
           \/ CreateObservation(h) \/ CompleteObservation(h) \/ MarkSuperseded(h)
           \/ CreatePolicy(h) \/ RevertToInherit(h) \/ RegisterAlternative(h)
           \/ \E who, i, status : EndAssignment(h, who, i, status)
    PROVE  SameEffects /\ proposal' = proposal
<1> USE DEF SameEffects, tableVars, historyVars
<1>1. CASE Asking(h) \/ Calm \/ ReadReviewer(h) \/ CreateAssignment(h) \/ CreateEvent(h)
  BY <1>1 DEF Asking, Calm, ReadReviewer, CreateAssignment, CreateEvent
<1>2. CASE CreateObservation(h) \/ CompleteObservation(h) \/ MarkSuperseded(h)
  BY <1>2 DEF CreateObservation, CompleteObservation, MarkSuperseded
<1>3. CASE CreatePolicy(h) \/ RevertToInherit(h) \/ RegisterAlternative(h)
  BY <1>3 DEF CreatePolicy, RevertToInherit, RegisterAlternative
<1>4. CASE \E who, i, status : EndAssignment(h, who, i, status)
  BY <1>4 DEF EndAssignment
<1> QED  BY <1>1, <1>2, <1>3, <1>4

LEMMA EffectKept ==
    ASSUME SupportInv, NEW h \in Calls, (\E who \in Staff : Routes(h, who)) \/ Services(h)
    PROVE  EffectInv'
<1>1. Move(h)
  BY NextMoves
<1>2. CASE proposal' = proposal /\ SameEffects
  BY <1>1, <1>2, EffectQuiet
<1>3. ASSUME NEW who \in Staff, NEW i \in Ids, WithdrawProposal(h, who, i) PROVE EffectInv'
  BY <1>1, <1>3, WithdrawEffect
<1>4. CASE SupersedeProfile(h)
  <2>1. /\ profile' = Superseded(Supported(h), Body(h).category)
        /\ proposal' = proposal /\ override' = override /\ adjusted' = adjusted
    BY <1>4 DEF SupersedeProfile, historyVars
  <2>2. SameEffects
    BY <2>1, SupersededKeeps DEF SupportInv, SameEffects
  <2> QED  BY <1>2, <2>1, <2>2
<1>5. CASE CreateProposal(h) \/ ReviewInTransaction(h)
  <2>1. call'[h].at \notin Early
    BY <1>5, WritesMove DEF SupportInv, Early
  <2> QED  BY <1>1, <1>5, <2>1, CreateProposalEffect, ReviewEffect
<1>6. CASE InsertTemporary(h) \/ InsertProfile(h) \/ CreateOverride(h)
  BY <1>2, <1>6, OwnRowsKeep
<1>7. CASE \/ Asking(h) \/ Calm \/ ReadReviewer(h) \/ CreateAssignment(h) \/ CreateEvent(h)
           \/ CreateObservation(h) \/ CompleteObservation(h) \/ MarkSuperseded(h)
           \/ CreatePolicy(h) \/ RevertToInherit(h) \/ RegisterAlternative(h)
           \/ \E who, i, status : EndAssignment(h, who, i, status)
  BY <1>2, <1>7, OthersKeepEffects
<1>8. CASE Services(h)
  BY <1>4, <1>5, <1>6, <1>7, <1>8, ServiceKinds
<1>9. ASSUME NEW who \in Staff, Routes(h, who) PROVE EffectInv'
  BY <1>3, <1>7, <1>9, RouteKinds DEF SupportInv
<1> QED  BY <1>8, <1>9

-----------------------------------------------------------------------------
(* The observations and their corrections                                  *)

SameRow(i) ==
    /\ observation'[i].student = observation[i].student /\ observation'[i].author = observation[i].author
    /\ observation'[i].scope = observation[i].scope

\* A step changes no row but the one that it inserts, other than by marking it.
ObservationsKept(h) ==
    \A i \in Ids : SameRow(i) \/ (i = h /\ observation[h] = NoObservation /\ CreateObservation(h))

LEMMA MadeStays ==
    ASSUME SupportInv, NEW h \in Calls, Move(h), ObservationsKept(h), NEW i \in Ids, observation[i].scope # Null
    PROVE  i \in Calls /\ SameRow(i) /\ asked'[i] = asked[i]
<1>1. i \in Calls
  BY DEF SupportInv, ObservationInv, MadeOk
<1>2. observation[i] # NoObservation
  BY DEF NoObservation
<1>3. call[i].at # "idle"
  BY <1>1, <1>2 DEF SupportInv, ObservationInv, Observes, Early
<1>4. asked'[i] = asked[i]
  BY <1>1, <1>3 DEF Move
<1> QED  BY <1>1, <1>2, <1>4 DEF ObservationsKept

LEMMA MadeKept ==
    ASSUME SupportInv, NEW h \in Calls, Move(h), ObservationsKept(h), NEW i \in Ids
    PROVE  MadeOk(i)'
<1>1. CASE observation[i].scope # Null
  <2>1. i \in Calls /\ SameRow(i) /\ asked'[i] = asked[i]
    BY <1>1, MadeStays
  <2>2. MadeOk(i)
    BY DEF SupportInv, ObservationInv
  <2> QED  BY <1>1, <2>1, <2>2 DEF MadeOk, SameRow
<1>2. CASE observation[i].scope = Null /\ SameRow(i)
  BY <1>2 DEF MadeOk, SameRow
<1>3. CASE i = h /\ CreateObservation(h)
  <2>1. /\ observation' = [observation EXCEPT ![h] = NewObservation(Supported(h), Account(h), Scope(h))]
        /\ call[h].at = "run" /\ asked' = asked
    BY <1>3 DEF CreateObservation, At, historyVars
  <2>2. PICK new : new = NewObservation(Supported(h), Account(h), Scope(h))
    OBVIOUS
  <2>3. new.student = Supported(h) /\ new.author = Account(h) /\ new.scope = Scope(h)
    BY <2>2 DEF NewObservation, NoObservation
  <2>4. observation'[h] = new
    BY <1>3, <2>1, <2>2 DEF SupportInv, TablesOK
  <2>5. Scope(h) = <<asked[h].op, asked[h].key>>
    BY <2>1, RequestFacts DEF SupportInv, Scope
  <2> QED  BY <1>3, <2>1, <2>3, <2>4, <2>5 DEF MadeOk, Supported, Account, Who, Body
<1> QED  BY <1>1, <1>2, <1>3 DEF ObservationsKept

LEMMA ByKept ==
    ASSUME SupportInv, NEW h \in Calls, Move(h), ObservationsKept(h), NEW i \in Ids, observation'[i].by = observation[i].by
    PROVE  ByOk(i)'
<1>1. CASE observation[i].by # Null
  <2>1. PICK by : by = observation[i].by
    OBVIOUS
  <2>2. by \in Calls /\ asked[by].about = i /\ observation[by].scope # Null
    BY <1>1, <2>1 DEF SupportInv, ObservationInv, ByOk
  <2>3. SameRow(by) /\ asked'[by] = asked[by]
    BY <2>2, MadeStays DEF Ids
  <2> QED  BY <2>1, <2>2, <2>3 DEF ByOk, SameRow
<1> QED  BY <1>1 DEF ByOk

\* The original that a request is about is there, and belongs to an account.
LEMMA OriginalIsThere ==
    ASSUME SupportInv, NEW g \in Calls, asked[g].about # Null
    PROVE  asked[g].about \in Ids /\ observation[asked[g].about].author # Null
<1>1. asked[g] \in Requests
  BY DEF SupportInv, RequestInv
<1>2. asked[g].about \in Ids
  BY <1>1 DEF Requests
<1>3. asked[g].who \in Staff /\ observation[asked[g].about].author = AccountOf[asked[g].who]
  BY DEF SupportInv, ObservationInv, AboutOk
<1>4. AccountOf[asked[g].who] \in Accounts
  BY <1>3 DEF Accounts
<1> QED  BY <1>2, <1>3, <1>4, NullOutside

LEMMA AboutKept ==
    ASSUME SupportInv, NEW h \in Calls, Move(h), ObservationsKept(h), NEW g \in Calls, asked'[g] = asked[g]
    PROVE  AboutOk(g)'
<1>1. CASE asked[g].about # Null
  <2>1. asked[g].about \in Ids /\ observation[asked[g].about].author # Null
    BY <1>1, OriginalIsThere
  <2>2. SameRow(asked[g].about)
    BY <2>1 DEF ObservationsKept, NoObservation
  <2>3. AboutOk(g)
    BY DEF SupportInv, ObservationInv
  <2> QED  BY <1>1, <2>2, <2>3 DEF AboutOk, SameRow
<1> QED  BY <1>1 DEF AboutOk

LEMMA OtherObserves ==
    ASSUME SupportInv, NEW h \in Calls, Move(h), ObservationsKept(h), NEW g \in Calls \ {h},
           call[g].at \in Early => observation'[g] = observation[g],
           observation'[g].replayed = observation[g].replayed
    PROVE  Observes(g)'
<1>1. call'[g] = call[g] /\ asked'[g] = asked[g]
  BY DEF Move, OthersStay
<1>2. Op(g)' = Op(g) /\ Scope(g)' = Scope(g)
  BY <1>1 DEF Op, Scope
<1>3. Observes(g)
  BY DEF SupportInv, ObservationInv
<1>4. CASE call[g].at \in Early
  <2>1. observation'[g] = NoObservation
    BY <1>3, <1>4 DEF Observes
  <2>2. NoObservation' = NoObservation
    BY DEF NoObservation
  <2> QED  BY <1>1, <1>4, <2>1, <2>2 DEF Observes, Early
<1>5. CASE call[g].at = "complete" /\ Op(g) = "observe"
  <2>1. SameRow(g)
    BY DEF ObservationsKept, Ids
  <2>2. observation'[g].scope = Scope(g) /\ ~observation'[g].replayed
    BY <1>3, <1>5, <2>1 DEF Observes, SameRow
  <2> QED  BY <1>1, <1>2, <1>5, <2>2 DEF Observes, Early
<1>6. CASE call[g].at = "mark"
  <2>1. /\ Op(g) = "observe" /\ asked[g].about # Null
        /\ call[g].got \in Calls /\ observation[call[g].got].scope = Scope(g)
    BY <1>3, <1>6 DEF Observes
  <2>2. Scope(g) # Null
    BY <1>6, <2>1, RequestFacts, NullOutside DEF SupportInv, Scope
  <2>3. observation'[call[g].got].scope = Scope(g)
    BY <2>1, <2>2, MadeStays DEF Ids, SameRow
  <2> QED  BY <1>1, <1>2, <1>6, <2>1, <2>3 DEF Observes, Early
<1>7. CASE ~(call[g].at \in Early) /\ ~(call[g].at = "complete" /\ Op(g) = "observe") /\ call[g].at # "mark"
  BY <1>1, <1>2, <1>7 DEF Observes
<1> QED  BY <1>4, <1>5, <1>6, <1>7

RecordsObserved ==
    \A s \in DOMAIN idem : idem[s].status = "COMPLETED" /\ s[1] = Named("observe") =>
        \E i \in Ids : observation[i].scope = s /\ observation[i].replayed

LEMMA RecordsKept ==
    ASSUME SupportInv, NEW h \in Calls, ObservesNone, ObservationsKept(h),
           \A i \in Ids : observation[i].replayed => observation'[i].replayed
    PROVE  RecordsObserved'
<1>1. ASSUME NEW s \in DOMAIN idem', idem'[s].status = "COMPLETED", s[1] = Named("observe")
      PROVE  \E i \in Ids : observation'[i].scope = s /\ observation'[i].replayed
  <2>1. s \in DOMAIN idem /\ idem[s].status = "COMPLETED"
    BY <1>1 DEF ObservesNone
  <2>2. PICK i \in Ids : observation[i].scope = s /\ observation[i].replayed
    BY <1>1, <2>1 DEF SupportInv, ObservationInv
  <2>3. SameRow(i)
    <3>1. observation[i] # NoObservation
      BY <2>2 DEF NoObservation
    <3> QED  BY <3>1 DEF ObservationsKept
  <2> QED  BY <2>2, <2>3 DEF SameRow
<1> QED  BY <1>1 DEF RecordsObserved, Named

\* A step that leaves the observations alone; it may take its call to the mark.
LEMMA ObservationQuiet ==
    ASSUME SupportInv, NEW h \in Calls, Move(h), observation' = observation, AboutOk(h)' \/ call[h].at # "idle",
           ~CreateObservation(h), ~CompleteObservation(h),
           call'[h].at = "mark" => /\ Op(h)' = "observe" /\ asked[h].about # Null /\ asked' = asked
                                   /\ call'[h].got \in Calls /\ observation[call'[h].got].scope = Scope(h)'
    PROVE  ObservationInv'
<1>1. ObservationsKept(h)
  BY DEF ObservationsKept, SameRow
<1>2. \A i \in Ids : MadeOk(i)' /\ ByOk(i)'
  BY <1>1, MadeKept, ByKept
<1>3. AboutOk(h)'
  BY <1>1, AboutKept DEF Move
<1>4. \A g \in Calls \ {h} : AboutOk(g)' /\ Observes(g)'
  BY <1>1, AboutKept, OtherObserves DEF Move
<1>5. Observes(h)'
  <2>1. call'[h].at \in Early => observation[h] = NoObservation
    BY DEF Move, SupportInv, ObservationInv, Observes
  <2>2. ~(call'[h].at = "complete" /\ Op(h)' = "observe")
    BY DEF Move
  <2>3. NoObservation' = NoObservation
    BY DEF NoObservation
  <2> QED  BY <2>1, <2>2, <2>3 DEF Observes
<1>6. RecordsObserved'
  BY <1>1, RecordsKept DEF Move
<1> QED  BY <1>2, <1>3, <1>4, <1>5, <1>6 DEF ObservationInv, RecordsObserved

\* A supersede() that begins: its own row, or the one its first try has made.
LEMMA BeginObserveKeeps ==
    ASSUME SupportInv, NEW h \in Calls, Move(h), BeginObserve(h), observation' = observation, asked' = asked
    PROVE  ObservationInv'
<1>1. call[h].at = "begin" /\ Op(h) = "observe" /\ ~CreateObservation(h) /\ ~CompleteObservation(h)
  BY DEF BeginObserve, At, CreateObservation, CompleteObservation
<1>2. CASE Classify(Record(Scope(h)), Body(h)) = "DUPLICATE_SAME_PAYLOAD" /\ asked[h].about # Null
  <2>1. PICK got : got = CHOOSE i \in Ids : observation[i].scope = Scope(h) /\ observation[i].replayed
    OBVIOUS
  <2>2. got \in Calls /\ observation[got].scope = Scope(h)
    BY <1>2, <2>1, AnsweredBy DEF BeginObserve, SupportInv
  <2>3. Goto(h, "mark", got)
    BY <1>2, <2>1 DEF BeginObserve
  <2>4. CallsTypeOK(Ops, Bodies, Ids, Locations) /\ got \in Ids /\ "mark" \in Locations
    BY <2>2 DEF SupportInv, RequestInv, Ids, Locations
  <2>5. call'[h].got = got /\ SameRequest(h)
    BY <2>3, <2>4, GotoEffect
  <2>6. Op(h)' = Op(h) /\ Scope(h)' = Scope(h)
    BY <2>5 DEF SameRequest, Op, Scope
  <2> QED  BY <1>1, <1>2, <2>2, <2>5, <2>6, ObservationQuiet
<1>3. CASE ~(Classify(Record(Scope(h)), Body(h)) = "DUPLICATE_SAME_PAYLOAD" /\ asked[h].about # Null)
  <2>1. Begin(h, "run")
    BY <1>3 DEF BeginObserve
  <2>2. call'[h].at \in {"run", "done"}
    BY <1>1, <2>1, BeginMoves DEF SupportInv
  <2> QED  BY <1>1, <2>2, ObservationQuiet
<1> QED  BY <1>2, <1>3

LEMMA CreateObservationKeeps ==
    ASSUME SupportInv, NEW h \in Calls, Move(h), CreateObservation(h)
    PROVE  ObservationInv'
<1>1. /\ call[h].at = "run" /\ Op(h) = "observe" /\ asked' = asked /\ Goto(h, "complete", Null)
      /\ observation' = [observation EXCEPT ![h] = NewObservation(Supported(h), Account(h), Scope(h))]
  BY DEF CreateObservation, At, historyVars
<1>2. PICK new : new = NewObservation(Supported(h), Account(h), Scope(h))
  OBVIOUS
<1>3. new.scope = Scope(h) /\ new.by = Null /\ new.replayed = FALSE
  BY <1>2 DEF NewObservation, NoObservation
<1>4. observation[h] = NoObservation /\ h \in Ids
  BY <1>1 DEF SupportInv, ObservationInv, Observes, Early, Ids
<1>5. observation'[h] = new /\ \A i \in Ids \ {h} : observation'[i] = observation[i]
  BY <1>1, <1>2, <1>4 DEF SupportInv, TablesOK
<1>6. ObservationsKept(h)
  BY <1>4, <1>5 DEF ObservationsKept, SameRow
<1>7. \A i \in Ids : MadeOk(i)' /\ ByOk(i)'
  <2>1. \A i \in Ids : observation'[i].by = observation[i].by
    BY <1>3, <1>4, <1>5 DEF NoObservation
  <2> QED  BY <1>6, <2>1, MadeKept, ByKept
<1>8. \A g \in Calls : AboutOk(g)'
  BY <1>1, <1>6, AboutKept
<1>9. \A g \in Calls \ {h} : Observes(g)'
  BY <1>5, <1>6, OtherObserves DEF Ids
<1>10. Observes(h)'
  <2>1. CallsTypeOK(Ops, Bodies, Ids, Locations)
    BY DEF SupportInv, RequestInv
  <2>2. call'[h].at = "complete" /\ SameRequest(h)
    BY <1>1, <2>1, GotoEffect
  <2>3. Scope(h)' = Scope(h)
    BY <2>2 DEF SameRequest, Scope
  <2> QED  BY <1>3, <1>5, <2>2, <2>3 DEF Observes, Early
<1>11. RecordsObserved'
  <2>1. ObservesNone
    BY <1>1 DEF Move, CompleteObservation, At
  <2>2. \A i \in Ids : observation[i].replayed => observation'[i].replayed
    BY <1>4, <1>5 DEF NoObservation
  <2> QED  BY <1>6, <2>1, <2>2, RecordsKept
<1> QED  BY <1>7, <1>8, <1>9, <1>10, <1>11 DEF ObservationInv, RecordsObserved

\* complete(): the record that is completed here is answered with this row; one that was
\* completed before, with the row that completed it.
LEMMA CompleteObservationKeeps ==
    ASSUME SupportInv, NEW h \in Calls, Move(h), CompleteObservation(h)
    PROVE  ObservationInv'
<1>1. PICK done : done = Complete(idem[Scope(h)], call[h].generation, "OK")
  OBVIOUS
<1>2. /\ idem' = [idem EXCEPT ![Scope(h)] = done] /\ asked' = asked
      /\ observation' = [observation EXCEPT ![h].replayed = (done # idem[Scope(h)])]
  BY <1>1 DEF CompleteObservation, historyVars
<1>3. /\ call[h].at = "complete" /\ Op(h) = "observe"
      /\ DOMAIN idem' = DOMAIN idem /\ \A r \in DOMAIN idem : r # Scope(h) => idem'[r] = idem[r]
      /\ call'[h].at # "done" => /\ call'[h].at = "mark" /\ call'[h].got = h /\ asked[h].about # Null
                                 /\ Op(h)' = Op(h) /\ Scope(h)' = Scope(h)
  BY CompleteObservationMoves DEF SupportInv
<1>4. observation[h].scope = Scope(h) /\ ~observation[h].replayed /\ h \in Ids
  BY <1>3 DEF SupportInv, ObservationInv, Observes, Ids
<1>5. /\ \A i \in Ids \ {h} : observation'[i] = observation[i]
      /\ SameRow(h) /\ observation'[h].by = observation[h].by
      /\ observation'[h].replayed = (done # idem[Scope(h)])
  <2>1. observation \in [Ids -> ObservationRows((Ops \X Keys) \union {Null})]
    BY DEF SupportInv, TablesOK
  <2>2. observation'[h] = [observation[h] EXCEPT !.replayed = (done # idem[Scope(h)])]
    BY <1>2, <1>4, <2>1
  <2> QED  BY <1>2, <1>4, <2>1, <2>2 DEF SameRow, ObservationRows
<1>6. ObservationsKept(h)
  BY <1>5 DEF ObservationsKept, SameRow
<1>7. \A i \in Ids : MadeOk(i)' /\ ByOk(i)'
  BY <1>5, <1>6, MadeKept, ByKept
<1>8. \A g \in Calls : AboutOk(g)'
  BY <1>2, <1>6, AboutKept
<1>9. \A g \in Calls \ {h} : Observes(g)'
  BY <1>5, <1>6, OtherObserves DEF Ids
<1>10. Observes(h)'
  <2>1. observation'[h].scope = Scope(h)
    BY <1>4, <1>5 DEF SameRow
  <2> QED  BY <1>2, <1>3, <2>1 DEF Observes, Early
<1>11. RecordsObserved'
  <2>1. ASSUME NEW s \in DOMAIN idem', idem'[s].status = "COMPLETED", s[1] = Named("observe")
        PROVE  \E i \in Ids : observation'[i].scope = s /\ observation'[i].replayed
    <3>1. CASE s = Scope(h) /\ done # idem[s]
      BY <1>4, <1>5, <3>1 DEF SameRow
    <3>2. CASE ~(s = Scope(h) /\ done # idem[s])
      <4>1. idem'[s] = idem[s]
        BY <1>2, <1>3, <2>1, <3>2
      <4>2. PICK i \in Ids : observation[i].scope = s /\ observation[i].replayed
        BY <1>3, <2>1, <4>1 DEF SupportInv, ObservationInv
      <4> QED  BY <1>4, <1>5, <4>2
    <3> QED  BY <3>1, <3>2
  <2> QED  BY <2>1 DEF RecordsObserved, Named
<1> QED  BY <1>7, <1>8, <1>9, <1>10, <1>11 DEF ObservationInv, RecordsObserved

\* markSuperseded: a key is that of one request, so what the record answered with was
\* made for the original as well.
LEMMA MarkSupersededKeeps ==
    ASSUME SupportInv, NEW h \in Calls, Move(h), MarkSuperseded(h)
    PROVE  ObservationInv'
<1>1. PICK got, about : got = call[h].got /\ about = asked[h].about
  OBVIOUS
<1>2. /\ call[h].at = "mark" /\ Op(h) = "observe" /\ asked' = asked /\ Answer(h, "OK")
      /\ observation' = [observation EXCEPT ![about].by = got]
  BY <1>1 DEF MarkSuperseded, At, historyVars
<1>3. about # Null /\ got \in Calls /\ observation[got].scope = Scope(h)
  BY <1>1, <1>2 DEF SupportInv, ObservationInv, Observes
<1>4. about \in Ids /\ observation[about].author # Null
  BY <1>1, <1>3, OriginalIsThere
<1>5. /\ \A i \in Ids : SameRow(i) /\ observation'[i].replayed = observation[i].replayed
      /\ \A i \in Ids \ {about} : observation'[i] = observation[i]
      /\ observation'[about].by = got
  <2>1. observation \in [Ids -> ObservationRows((Ops \X Keys) \union {Null})]
    BY DEF SupportInv, TablesOK
  <2>2. observation'[about] = [observation[about] EXCEPT !.by = got]
    BY <1>2, <1>4, <2>1
  <2> QED  BY <1>2, <1>4, <2>1, <2>2 DEF SameRow, ObservationRows
<1>6. ObservationsKept(h)
  BY <1>5 DEF ObservationsKept
<1>7. call'[h].at = "done"
  <2>1. CallsTypeOK(Ops, Bodies, Ids, Locations)
    BY DEF SupportInv, RequestInv
  <2> QED  BY <1>2, <2>1, AnswerEffect
<1>8. ByOk(about)'
  <2>1. Scope(h) # Null /\ call[h].key \in Keys /\ Scope(h) = <<asked[h].op, asked[h].key>> /\ asked[h].key = call[h].key
    BY <1>2, RequestFacts, NullOutside DEF SupportInv, Scope
  <2>2. observation[got].scope = <<asked[got].op, asked[got].key>> /\ observation'[got].scope # Null
    <3>1. MadeOk(got)
      BY <1>3 DEF SupportInv, ObservationInv, Ids
    <3>2. SameRow(got)
      BY <1>3, <1>5 DEF Ids
    <3> QED  BY <1>3, <2>1, <3>1, <3>2 DEF MadeOk, SameRow
  <2>3. asked[got].key = asked[h].key
    BY <1>3, <2>1, <2>2
  <2>4. asked[got] = asked[h]
    BY <1>3, <2>1, <2>3, NullOutside DEF SupportInv, RequestInv
  <2> QED  BY <1>1, <1>2, <1>3, <1>5, <2>2, <2>4 DEF ByOk
<1>9. \A i \in Ids : MadeOk(i)' /\ ByOk(i)'
  BY <1>5, <1>6, <1>8, MadeKept, ByKept
<1>10. \A g \in Calls : AboutOk(g)'
  BY <1>2, <1>6, AboutKept
<1>11. ASSUME NEW g \in Calls \ {h} PROVE Observes(g)'
  <2>1. call[g].at \in Early => g # about
    BY <1>4 DEF SupportInv, ObservationInv, Observes, NoObservation
  <2> QED  BY <1>5, <1>6, <2>1, OtherObserves DEF Ids
<1>12. Observes(h)'
  BY <1>7 DEF Observes, Early
<1>13. RecordsObserved'
  <2>1. ObservesNone
    BY <1>2 DEF Move, CompleteObservation, At
  <2> QED  BY <1>5, <1>6, <2>1, RecordsKept
<1> QED  BY <1>9, <1>10, <1>11, <1>12, <1>13 DEF ObservationInv, RecordsObserved

LEMMA ObservationKept ==
    ASSUME SupportInv, NEW h \in Calls, (\E who \in Staff : Routes(h, who)) \/ Services(h)
    PROVE  ObservationInv'
<1>1. Move(h)
  BY NextMoves
<1>2. ASSUME observation' = observation, asked' = asked \/ AboutOk(h)',
             call[h].at \notin {"begin", "complete"}, ~CreateObservation(h)
      PROVE  ObservationInv'
  <2>1. ~BeginObserve(h) /\ ~CompleteObservation(h)
    BY <1>2 DEF BeginObserve, CompleteObservation, At
  <2>2. AboutOk(h)'
    BY <1>2, AboutKept, <1>1 DEF ObservationsKept, SameRow
  <2> QED  BY <1>1, <1>2, <2>1, <2>2, ObservationQuiet DEF Move
<1>3. CASE Calm
  <2>1. observation' = observation /\ asked' = asked
    BY <1>3 DEF Calm, tableVars, historyVars
  <2>2. CASE BeginObserve(h)
    BY <1>1, <2>1, <2>2, BeginObserveKeeps
  <2>3. CASE CompleteObservation(h)
    BY <1>1, <2>3, CompleteObservationKeeps
  <2>4. CASE CreateObservation(h)
    BY <1>1, <2>4, CreateObservationKeeps
  <2>5. CASE ~BeginObserve(h) /\ ~CompleteObservation(h) /\ ~CreateObservation(h)
    <3>1. AboutOk(h)'
      BY <1>1, <2>1, AboutKept DEF ObservationsKept, SameRow
    <3> QED  BY <1>1, <2>1, <2>5, <3>1, ObservationQuiet DEF Move
  <2> QED  BY <2>2, <2>3, <2>4, <2>5
<1>4. CASE CreateObservation(h) \/ CompleteObservation(h) \/ MarkSuperseded(h)
  BY <1>1, <1>4, CreateObservationKeeps, CompleteObservationKeeps, MarkSupersededKeeps
<1>5. CASE \/ ReadReviewer(h) \/ CreateAssignment(h) \/ CreateEvent(h) \/ CreateProposal(h)
           \/ InsertTemporary(h) \/ SupersedeProfile(h) \/ InsertProfile(h) \/ CreateOverride(h)
  <2>1. observation' = observation /\ asked' = asked
    BY <1>5 DEF ReadReviewer, CreateAssignment, CreateEvent, CreateProposal, InsertTemporary, SupersedeProfile,
                InsertProfile, CreateOverride, tableVars, historyVars
  <2>2. call[h].at \notin {"begin", "complete"} /\ ~CreateObservation(h)
    BY <1>5 DEF At, ReadReviewer, CreateAssignment, CreateEvent, CreateProposal, InsertTemporary, SupersedeProfile,
                InsertProfile, CreateOverride, CreateObservation
  <2> QED  BY <1>2, <2>1, <2>2
<1>6. CASE ReviewInTransaction(h) \/ CreatePolicy(h) \/ RevertToInherit(h) \/ RegisterAlternative(h)
  <2>1. observation' = observation /\ asked' = asked
    BY <1>6 DEF ReviewInTransaction, CreatePolicy, RevertToInherit, RegisterAlternative, tableVars, historyVars
  <2>2. call[h].at \notin {"begin", "complete"} /\ ~CreateObservation(h)
    BY <1>6 DEF At, ReviewInTransaction, CreatePolicy, RevertToInherit, RegisterAlternative, CreateObservation
  <2> QED  BY <1>2, <2>1, <2>2
<1>7. CASE Services(h)
  BY <1>3, <1>4, <1>5, <1>6, <1>7, ServiceKinds
<1>8. ASSUME NEW who \in Staff, Routes(h, who) PROVE ObservationInv'
  <2>1. CASE Asking(h)
    BY <1>2, <2>1 DEF Asking, tableVars, CreateObservation, At
  <2>2. ASSUME NEW i \in Ids, NEW status, WithdrawProposal(h, who, i) \/ EndAssignment(h, who, i, status)
        PROVE  ObservationInv'
    BY <1>2, <2>2 DEF WithdrawProposal, EndAssignment, historyVars, CreateObservation, At
  <2> QED  BY <1>8, <2>1, <2>2, RouteKinds DEF SupportInv
<1> QED  BY <1>7, <1>8

-----------------------------------------------------------------------------
(* Who reviews before whom                                                 *)

ProposalsStay ==
    \A p \in Ids : proposal[p].status # "ABSENT" =>
        proposal'[p].status # "ABSENT" /\ proposal'[p].student = proposal[p].student

\* Support teachers come only where every call takes note of it.
TeachersNoticed ==
    (\A student : HasSupportTeacher(student)' => HasSupportTeacher(student)) \/ \A g \in Calls : lately'[g]

LEMMA SeenKept ==
    ASSUME SupportInv, NEW h \in Calls, Move(h), ProposalsStay, TeachersNoticed, NEW g \in Calls,
           call[g].at # "idle" /\ lately[g] => lately'[g], g # h \/ ~ReadReviewer(h)
    PROVE  ReviewSeen(g)'
<1> SUFFICES ASSUME Op(g)' = "review", call'[g].at \in {"begin", "run"}
             PROVE  ReviewSeen(g)'
  BY DEF ReviewSeen
<1>1. Op(g) = "review" /\ call[g].at \in {"begin", "run"} /\ asked'[g] = asked[g]
  <2>1. CASE g = h
    BY <2>1 DEF Move
  <2>2. CASE g # h
    BY <2>2 DEF Move, OthersStay, Op
  <2> QED  BY <2>1, <2>2
<1>2. PICK p : p = asked[g].body.target
  OBVIOUS
<1>3. /\ proposal[p].status # "ABSENT"
      /\ RoleOf[asked[g].who] = "TEACHER" => ~HasSupportTeacher(proposal[p].student) \/ lately[g]
  BY <1>1, <1>2 DEF SupportInv, ReviewSeen, Body, Who
<1>4. p \in Ids
  BY <1>1, <1>2, RequestFacts DEF SupportInv, BodyOk, Body
<1>5. proposal'[p].status # "ABSENT" /\ proposal'[p].student = proposal[p].student
  BY <1>3, <1>4 DEF ProposalsStay
<1>6. PICK student : student = proposal[p].student
  OBVIOUS
<1>7. (HasSupportTeacher(student)' => HasSupportTeacher(student)) \/ lately'[g]
  BY DEF TeachersNoticed, HasSupportTeacher, HasAssignment, IsActiveFor
<1>8. RoleOf[asked[g].who] = "TEACHER" => ~HasSupportTeacher(student)' \/ lately'[g]
  BY <1>1, <1>3, <1>6, <1>7
<1>9. /\ asked'[g].body.target = p /\ asked'[g].who = asked[g].who /\ proposal'[p].student = student
      /\ proposal'[p].status # "ABSENT"
  BY <1>1, <1>2, <1>5, <1>6
<1> QED  BY <1>8, <1>9 DEF ReviewSeen, Body, Who, HasSupportTeacher, HasAssignment, IsActiveFor

\* The look-up: the class teacher is let through only where there is no support teacher.
LEMMA ReviewerSees ==
    ASSUME SupportInv, NEW h \in Calls, ReadReviewer(h)
    PROVE  ReviewSeen(h)'
<1>1. PICK p : p = Body(h).target
  OBVIOUS
<1>2. /\ call[h].at = "read" /\ Op(h) = "review" /\ asked' = asked /\ UNCHANGED tableVars
      /\ \/ \E code : Answer(h, code)
         \/ proposal[p].status # "ABSENT" /\ Reviewable(Who(h), proposal[p].student) /\ Goto(h, "begin", Null)
  BY <1>1 DEF ReadReviewer, At
<1>3. CallsTypeOK(Ops, Bodies, Ids, Locations)
  BY DEF SupportInv, RequestInv
<1>4. ASSUME NEW code, Answer(h, code) PROVE ReviewSeen(h)'
  <2>1. call'[h].at = "done"
    BY <1>3, <1>4, AnswerEffect
  <2> QED  BY <2>1 DEF ReviewSeen
<1>5. CASE proposal[p].status # "ABSENT" /\ Reviewable(Who(h), proposal[p].student)
  <2>1. RoleOf[Who(h)] = "TEACHER" => ~HasSupportTeacher(proposal[p].student)
    BY <1>5 DEF Reviewable
  <2>2. proposal' = proposal /\ support' = support
    BY <1>2 DEF tableVars
  <2> QED  BY <1>1, <1>2, <1>5, <2>1, <2>2 DEF ReviewSeen, Body, Who, HasSupportTeacher, HasAssignment
<1> QED  BY <1>2, <1>4, <1>5

LEMMA AssignmentNoticed ==
    ASSUME SupportInv, NEW h \in Calls, CreateAssignment(h)
    PROVE  /\ TeachersNoticed /\ \A g \in Calls : lately[g] => lately'[g]
           /\ lately' \in [Calls -> BOOLEAN] /\ support' \in [Ids -> SupportRows]
<1>1. PICK member, student : member = Body(h).member /\ student = Supported(h)
  OBVIOUS
<1>2. PICK new : new = NewSupport(member, student)
  OBVIOUS
<1>3. h \in Ids /\ support \in [Ids -> SupportRows] /\ lately \in [Calls -> BOOLEAN]
  BY DEF Ids, SupportInv, TablesOK
<1>4. /\ call[h].at = "run"
      /\ \/ UNCHANGED <<support, lately>>
         \/ /\ support' = [support EXCEPT ![h] = new]
            /\ lately' = [g \in Calls |-> lately[g] \/ RoleOf[member] = "SUPPORT_TEACHER"]
  BY <1>1, <1>2 DEF CreateAssignment, At
<1>5. new \in SupportRows /\ new.member = member
  <2>1. Body(h) \in Bodies
    BY <1>4, RequestFacts DEF SupportInv
  <2>2. member \in Staff \union {Null} /\ student \in Students \union {Null}
    BY <1>1, <2>1 DEF Bodies, Supported
  <2>3. new = [member |-> member, student |-> student, status |-> "ACTIVE"]
    BY <1>2 DEF NewSupport
  <2> QED  BY <2>2, <2>3 DEF SupportRows
<1>6. CASE UNCHANGED <<support, lately>>
  <2>1. \A s : HasSupportTeacher(s)' => HasSupportTeacher(s)
    BY <1>6 DEF HasSupportTeacher, HasAssignment
  <2> QED  BY <1>3, <1>6, <2>1 DEF TeachersNoticed
<1>7. CASE /\ support' = [support EXCEPT ![h] = new]
           /\ lately' = [g \in Calls |-> lately[g] \/ RoleOf[member] = "SUPPORT_TEACHER"]
  <2>1. CASE RoleOf[member] = "SUPPORT_TEACHER"
    BY <1>3, <1>5, <1>7, <2>1 DEF TeachersNoticed
  <2>2. CASE RoleOf[member] # "SUPPORT_TEACHER"
    <3>1. ASSUME NEW s, HasSupportTeacher(s)' PROVE HasSupportTeacher(s)
      <4>1. PICK m \in Staff, i \in Ids : RoleOf[m] = "SUPPORT_TEACHER" /\ IsActiveFor(support'[i], m, s)
        BY <3>1 DEF HasSupportTeacher, HasAssignment, IsActiveFor
      <4>2. i # h
        BY <1>3, <1>5, <1>7, <2>2, <4>1 DEF IsActiveFor
      <4>3. support'[i] = support[i]
        BY <1>3, <1>7, <4>2
      <4> QED  BY <4>1, <4>3 DEF HasSupportTeacher, HasAssignment
    <3> QED  BY <1>3, <1>5, <1>7, <3>1 DEF TeachersNoticed
  <2> QED  BY <2>1, <2>2
<1> QED  BY <1>4, <1>6, <1>7

LEMMA EndingNoticed ==
    ASSUME SupportInv, NEW h \in Calls, NEW who, NEW i \in Ids, NEW status \in {"ENDED", "REVOKED"}, EndAssignment(h, who, i, status)
    PROVE  TeachersNoticed /\ support' \in [Ids -> SupportRows]
<1>1. support \in [Ids -> SupportRows]
  BY DEF SupportInv, TablesOK
<1>2. PICK row, st : row = support[i] /\ st = IF row.status = "ACTIVE" THEN status ELSE row.status
  OBVIOUS
<1>3. PICK new : new = [row EXCEPT !.status = st]
  OBVIOUS
<1>4. new \in SupportRows /\ new.status # "ACTIVE"
  BY <1>1, <1>2, <1>3 DEF SupportRows
<1>5. support' = [support EXCEPT ![i] = new]
  BY <1>2, <1>3 DEF EndAssignment
<1>6. ASSUME NEW s, HasSupportTeacher(s)' PROVE HasSupportTeacher(s)
  <2>1. PICK m \in Staff, j \in Ids : RoleOf[m] = "SUPPORT_TEACHER" /\ IsActiveFor(support'[j], m, s)
    BY <1>6 DEF HasSupportTeacher, HasAssignment, IsActiveFor
  <2>2. j # i
    BY <1>1, <1>4, <1>5, <2>1 DEF IsActiveFor
  <2>3. support'[j] = support[j]
    BY <1>1, <1>5, <2>2
  <2> QED  BY <2>1, <2>3 DEF HasSupportTeacher, HasAssignment
<1> QED  BY <1>1, <1>4, <1>5, <1>6 DEF TeachersNoticed

\* A step that inserts or changes no assignment, and takes no note of one either.
LEMMA SupportQuiet ==
    ASSUME support' = support PROVE TeachersNoticed
<1>1. \A s : HasSupportTeacher(s)' => HasSupportTeacher(s)
  BY DEF HasSupportTeacher, HasAssignment, IsActiveFor
<1> QED  BY <1>1 DEF TeachersNoticed

LEMMA FirstKept ==
    ASSUME SupportInv, NEW h \in Calls, (\E who \in Staff : Routes(h, who)) \/ Services(h), NEW g \in Calls
    PROVE  ReviewSeen(g)'
<1>1. Move(h) /\ lately \in [Calls -> BOOLEAN]
  BY NextMoves DEF SupportInv, TablesOK
<1>2. ASSUME support' = support, lately' = lately, proposal' = proposal, ~ReadReviewer(h)
      PROVE  ReviewSeen(g)'
  <2>1. ProposalsStay
    BY <1>2 DEF ProposalsStay
  <2> QED  BY <1>1, <1>2, <2>1, SupportQuiet, SeenKept
<1>3. CASE ReadReviewer(h)
  <2>1. CASE g = h
    BY <1>3, <2>1, ReviewerSees
  <2>2. CASE g # h
    <3>1. support' = support /\ proposal' = proposal /\ lately' = [lately EXCEPT ![h] = FALSE]
      BY <1>3 DEF ReadReviewer, tableVars
    <3>2. ProposalsStay /\ (lately[g] => lately'[g])
      BY <1>1, <2>2, <3>1 DEF ProposalsStay
    <3> QED  BY <1>1, <2>2, <3>1, <3>2, SupportQuiet, SeenKept
  <2> QED  BY <2>1, <2>2
<1>4. CASE Asking(h)
  <2>1. /\ support' = support /\ proposal' = proposal /\ lately' = [lately EXCEPT ![h] = FALSE]
        /\ call[h].at = "idle"
    BY <1>4 DEF Asking, tableVars
  <2>2. ProposalsStay /\ (call[g].at # "idle" /\ lately[g] => lately'[g]) /\ ~ReadReviewer(h)
    BY <1>1, <2>1 DEF ProposalsStay, ReadReviewer, At
  <2> QED  BY <1>1, <2>1, <2>2, SupportQuiet, SeenKept
<1>5. CASE CreateAssignment(h)
  <2>1. ProposalsStay /\ ~ReadReviewer(h)
    BY <1>5 DEF CreateAssignment, ReadReviewer, At, ProposalsStay
  <2> QED  BY <1>1, <1>5, <2>1, AssignmentNoticed, SeenKept
<1>6. ASSUME NEW who \in Staff, NEW i \in Ids, NEW status \in {"ENDED", "REVOKED"}, EndAssignment(h, who, i, status)
      PROVE  ReviewSeen(g)'
  <2>1. ProposalsStay /\ ~ReadReviewer(h) /\ lately' = lately
    BY <1>6 DEF EndAssignment, ReadReviewer, At, ProposalsStay, historyVars
  <2> QED  BY <1>1, <1>6, <2>1, EndingNoticed, SeenKept
<1>7. ASSUME NEW who \in Staff, NEW i \in Ids, WithdrawProposal(h, who, i) PROVE ReviewSeen(g)'
  <2>1. /\ support' = support /\ lately' = lately /\ ~ReadReviewer(h)
        /\ proposal' = [proposal EXCEPT ![i] = [proposal[i] EXCEPT !.status = "WITHDRAWN", !.version = proposal[i].version + 1]]
    BY <1>7 DEF WithdrawProposal, ReadReviewer, At, historyVars
  <2>2. PICK row, new : row = proposal[i] /\ new = [row EXCEPT !.status = "WITHDRAWN", !.version = row.version + 1]
    OBVIOUS
  <2>3. row \in ProposalRows /\ proposal' = [proposal EXCEPT ![i] = new]
    BY <2>1, <2>2 DEF SupportInv, TablesOK
  <2>4. new.status = "WITHDRAWN" /\ new.student = row.student
    BY <2>2, <2>3 DEF ProposalRows
  <2>5. ProposalsStay
    BY <2>2, <2>3, <2>4 DEF SupportInv, TablesOK, ProposalsStay
  <2> QED  BY <1>1, <2>1, <2>5, SupportQuiet, SeenKept
<1>8. CASE CreateProposal(h)
  <2>1. /\ support' = support /\ lately' = lately /\ ~ReadReviewer(h) /\ call[h].at = "run"
        /\ proposal' = [proposal EXCEPT ![h] = NewProposal(Account(h), Body(h))]
    BY <1>8 DEF CreateProposal, ReadReviewer, At, historyVars
  <2>2. proposal[h].status = "ABSENT"
    BY <2>1 DEF SupportInv, EffectInv, Early, NoProposal
  <2>3. ProposalsStay
    BY <2>1, <2>2 DEF SupportInv, TablesOK, ProposalsStay
  <2> QED  BY <1>1, <2>1, <2>3, SupportQuiet, SeenKept
<1>9. CASE ReviewInTransaction(h)
  <2>1. PICK p : p = Body(h).target
    OBVIOUS
  <2>2. support' = support /\ lately' = lately /\ ~ReadReviewer(h)
    BY <1>9 DEF ReviewInTransaction, ReadReviewer, At
  <2>3. \/ proposal' = proposal
        \/ /\ p \in Ids /\ \A q \in Ids \ {p} : proposal'[q] = proposal[q]
           /\ proposal'[p].student = proposal[p].student /\ proposal'[p].status \in {"REJECTED", "ACCEPTED"}
    BY <1>9, <2>1, ReviewFacts
  <2>4. ProposalsStay
    BY <2>3 DEF ProposalsStay
  <2> QED  BY <1>1, <2>2, <2>4, SupportQuiet, SeenKept
<1>10. CASE \/ CreateEvent(h) \/ CreateObservation(h) \/ CompleteObservation(h) \/ MarkSuperseded(h)
            \/ InsertTemporary(h) \/ SupersedeProfile(h) \/ InsertProfile(h) \/ CreateOverride(h)
  <2>1. support' = support /\ lately' = lately /\ proposal' = proposal
    BY <1>10 DEF CreateEvent, CreateObservation, CompleteObservation, MarkSuperseded, InsertTemporary, SupersedeProfile,
                 InsertProfile, CreateOverride, historyVars
  <2> QED  BY <1>2, <1>3, <2>1
<1>11. CASE Calm \/ CreatePolicy(h) \/ RevertToInherit(h) \/ RegisterAlternative(h)
  <2>1. support' = support /\ lately' = lately /\ proposal' = proposal
    BY <1>11 DEF Calm, CreatePolicy, RevertToInherit, RegisterAlternative, tableVars, historyVars
  <2> QED  BY <1>2, <1>3, <2>1
<1>12. CASE Services(h)
  BY <1>3, <1>5, <1>8, <1>9, <1>10, <1>11, <1>12, ServiceKinds
<1>13. ASSUME NEW who \in Staff, Routes(h, who) PROVE ReviewSeen(g)'
  BY <1>4, <1>6, <1>7, <1>13, RouteKinds DEF SupportInv
<1> QED  BY <1>12, <1>13

-----------------------------------------------------------------------------
(* The rows of the tables                                                  *)

LEMMA PathsStay ==
    ASSUME TablesOK, UNCHANGED pathVars PROVE PathsTypeOK(Ids)'
  BY DEF TablesOK, PathsTypeOK, pathVars, PolicyCheck

LEMMA BodyTyped ==
    ASSUME RequestInv, NEW h \in Calls, call[h].at \notin {"idle", "done"}
    PROVE  /\ h \in Ids /\ Body(h) \in Bodies /\ Supported(h) \in Students \union {Null}
           /\ Body(h).category \in {"TOOLS", "OTHER", Null} /\ Body(h).ref \in Refs \union {Null}
           /\ Body(h).state \in States \union {Null} /\ Body(h).type \in ProposalTypes \union {Null}
           /\ Account(h) \in Accounts
<1>1. Body(h) \in Bodies /\ Account(h) \in Accounts
  BY RequestFacts
<1> QED  BY <1>1 DEF Bodies, Supported, Ids

\* Calls that write at most what they remember of the support teacher.
LEMMA TablesStay ==
    ASSUME TablesOK, UNCHANGED <<tableVars, adjusted, pathVars>>, lately' \in [Calls -> BOOLEAN]
    PROVE  TablesOK'
<1>1. PathsTypeOK(Ids)'
  BY PathsStay
<1> QED  BY <1>1 DEF TablesOK, tableVars

LEMMA SupportTables ==
    ASSUME SupportInv, NEW h \in Calls,
           CreateAssignment(h) \/ \E who \in Staff, i \in Ids, status \in {"ENDED", "REVOKED"} : EndAssignment(h, who, i, status)
    PROVE  TablesOK'
<1>1. CASE CreateAssignment(h)
  <2>1. PathsTypeOK(Ids)'
    BY <1>1, PathsStay DEF SupportInv, CreateAssignment
  <2>2. support' \in [Ids -> SupportRows] /\ lately' \in [Calls -> BOOLEAN]
    BY <1>1, AssignmentNoticed
  <2> QED  BY <1>1, <2>1, <2>2 DEF SupportInv, TablesOK, CreateAssignment
<1>2. ASSUME NEW who, NEW i \in Ids, NEW status \in {"ENDED", "REVOKED"}, EndAssignment(h, who, i, status)
      PROVE  TablesOK'
  <2>1. PathsTypeOK(Ids)'
    BY <1>2, PathsStay DEF SupportInv, EndAssignment
  <2>2. support' \in [Ids -> SupportRows]
    BY <1>2, EndingNoticed
  <2> QED  BY <1>2, <2>1, <2>2 DEF SupportInv, TablesOK, EndAssignment, historyVars
<1> QED  BY <1>1, <1>2

LEMMA ObservationTables ==
    ASSUME SupportInv, NEW h \in Calls, CreateObservation(h) \/ CompleteObservation(h) \/ MarkSuperseded(h)
    PROVE  TablesOK'
<1> DEFINE Os == ObservationRows((Ops \X Keys) \union {Null})
<1>1. RequestInv /\ TablesOK /\ observation \in [Ids -> Os]
  BY DEF SupportInv, TablesOK
<1>2. /\ PathsTypeOK(Ids)'
      /\ UNCHANGED <<support, proposal, profile, override, event, historyVars>>
  BY <1>1, PathsStay DEF CreateObservation, CompleteObservation, MarkSuperseded
<1>3. CASE CreateObservation(h)
  <2>1. call[h].at = "run" /\ observation' = [observation EXCEPT ![h] = NewObservation(Supported(h), Account(h), Scope(h))]
    BY <1>3 DEF CreateObservation, At
  <2>2. Supported(h) \in Students \union {Null} /\ Account(h) \in Accounts /\ h \in Ids
    BY <1>1, <2>1, BodyTyped
  <2>3. Scope(h) \in Ops \X Keys
    <3>1. Op(h) # "plain"
      BY <1>3 DEF CreateObservation, At
    <3> QED  BY <1>1, <2>1, <3>1, RequestFacts DEF Scope
  <2>4. PICK new : new = NewObservation(Supported(h), Account(h), Scope(h))
    OBVIOUS
  <2>5. new = [student |-> Supported(h), author |-> Account(h), by |-> Null, scope |-> Scope(h), replayed |-> FALSE]
    BY <2>4 DEF NewObservation, NoObservation
  <2>6. new \in Os
    BY <2>2, <2>3, <2>5 DEF ObservationRows
  <2>7. observation' \in [Ids -> Os]
    BY <1>1, <2>1, <2>2, <2>4, <2>6
  <2> QED  BY <1>1, <1>2, <2>7 DEF TablesOK, historyVars
<1>4. CASE CompleteObservation(h)
  <2>1. PICK replayed \in BOOLEAN : observation' = [observation EXCEPT ![h].replayed = replayed]
    BY <1>4 DEF CompleteObservation
  <2>2. PICK new : new = [observation[h] EXCEPT !.replayed = replayed]
    OBVIOUS
  <2>3. h \in Ids /\ observation[h] \in Os
    BY <1>1 DEF Ids
  <2>4. new \in Os
    BY <2>2, <2>3 DEF ObservationRows
  <2>5. observation' = [observation EXCEPT ![h] = new]
    BY <2>1, <2>2
  <2>6. observation' \in [Ids -> Os]
    BY <1>1, <2>4, <2>5
  <2> QED  BY <1>1, <1>2, <2>6 DEF TablesOK, historyVars
<1>5. CASE MarkSuperseded(h)
  <2>1. PICK got, about : got = call[h].got /\ about = asked[h].about
    OBVIOUS
  <2>2. call[h].at = "mark" /\ observation' = [observation EXCEPT ![about].by = got]
    BY <1>5, <2>1 DEF MarkSuperseded, At
  <2>3. got \in Ids /\ about \in Ids
    <3>1. got \in Calls /\ about # Null
      BY <2>1, <2>2 DEF SupportInv, ObservationInv, Observes
    <3> QED  BY <2>1, <3>1, OriginalIsThere DEF Ids
  <2>4. PICK new : new = [observation[about] EXCEPT !.by = got]
    OBVIOUS
  <2>5. new \in Os
    BY <1>1, <2>3, <2>4 DEF ObservationRows
  <2>6. observation' = [observation EXCEPT ![about] = new]
    BY <2>2, <2>4
  <2>7. observation' \in [Ids -> Os]
    BY <1>1, <2>5, <2>6
  <2> QED  BY <1>1, <1>2, <2>7 DEF TablesOK, historyVars
<1> QED  BY <1>3, <1>4, <1>5

LEMMA NewProfileTyped ==
    ASSUME NEW student \in Students \union {Null}, NEW category \in {"TOOLS", "OTHER", Null},
           NEW level \in {"SESSION_ONLY", "PROFILE_LEVEL"}, NEW from \in Ids \union {Null}
    PROVE  NewProfile(student, category, level, from) \in ProfileRows
<1>1. PICK new : new = NewProfile(student, category, level, from)
  OBVIOUS
<1>2. new = [student |-> student, category |-> category, level |-> level, status |-> "ACTIVE", from |-> from]
  BY <1>1 DEF NewProfile
<1>3. new \in ProfileRows
  BY <1>2 DEF ProfileRows
<1> QED  BY <1>1, <1>3

LEMMA RowTables ==
    ASSUME SupportInv, NEW h \in Calls,
           CreateEvent(h) \/ InsertTemporary(h) \/ SupersedeProfile(h) \/ InsertProfile(h) \/ CreateOverride(h)
    PROVE  TablesOK'
<1>1. /\ TablesOK /\ call[h].at \notin {"idle", "done"} /\ RequestInv
  BY DEF SupportInv, CreateEvent, InsertTemporary, SupersedeProfile, InsertProfile, CreateOverride, At
<1>2. /\ h \in Ids /\ Supported(h) \in Students \union {Null} /\ Body(h).category \in {"TOOLS", "OTHER", Null}
      /\ Account(h) \in Accounts
  BY <1>1, BodyTyped
<1>3. PathsTypeOK(Ids)' /\ UNCHANGED <<support, proposal, observation, historyVars>>
  BY <1>1, PathsStay DEF CreateEvent, InsertTemporary, SupersedeProfile, InsertProfile, CreateOverride
<1>4. ASSUME profile' \in [Ids -> ProfileRows], override' \in [Ids -> OverrideRows], event' \in [Ids -> EventRows]
      PROVE  TablesOK'
  BY <1>1, <1>3, <1>4 DEF TablesOK, historyVars
<1>5. profile \in [Ids -> ProfileRows] /\ override \in [Ids -> OverrideRows] /\ event \in [Ids -> EventRows]
  BY <1>1 DEF TablesOK
<1>6. CASE CreateEvent(h)
  <2>1. /\ event' = [event EXCEPT ![h] = NewEvent(call[h].op[3], Account(h))]
        /\ profile' = profile /\ override' = override /\ Op(h) = "event"
    BY <1>6 DEF CreateEvent, At
  <2>2. call[h].op[3] \in Attempts
    BY <1>1, <2>1, RequestFacts, OpParts
  <2>3. PICK new : new = NewEvent(call[h].op[3], Account(h))
    OBVIOUS
  <2>4. new \in EventRows
    BY <1>2, <2>2, <2>3 DEF NewEvent, EventRows
  <2>5. event' \in [Ids -> EventRows]
    BY <1>2, <1>5, <2>1, <2>3, <2>4
  <2> QED  BY <1>4, <1>5, <2>1, <2>5
<1>7. CASE InsertTemporary(h)
  <2>1. PICK new : new = NewProfile(Supported(h), Body(h).category, "SESSION_ONLY", Null)
    OBVIOUS
  <2>2. new \in ProfileRows
    BY <1>2, <2>1, NewProfileTyped
  <2>3. profile' = [profile EXCEPT ![h] = new] /\ override' = override /\ event' = event
    BY <1>7, <2>1 DEF InsertTemporary
  <2>4. profile' \in [Ids -> ProfileRows]
    BY <1>2, <1>5, <2>2, <2>3
  <2> QED  BY <1>4, <1>5, <2>3, <2>4
<1>8. CASE SupersedeProfile(h)
  <2>1. profile' = Superseded(Supported(h), Body(h).category) /\ override' = override /\ event' = event
    BY <1>8 DEF SupersedeProfile
  <2>2. profile' \in [Ids -> ProfileRows]
    BY <1>1, <2>1, SupersededKeeps
  <2> QED  BY <1>4, <1>5, <2>1, <2>2
<1>9. CASE InsertProfile(h)
  <2>1. PICK new : new = NewProfile(Supported(h), Body(h).category, "PROFILE_LEVEL", Null)
    OBVIOUS
  <2>2. new \in ProfileRows
    BY <1>2, <2>1, NewProfileTyped
  <2>3. (profile' = profile \/ profile' = [profile EXCEPT ![h] = new]) /\ override' = override /\ event' = event
    BY <1>9, <2>1 DEF InsertProfile
  <2>4. profile' \in [Ids -> ProfileRows]
    BY <1>2, <1>5, <2>2, <2>3
  <2> QED  BY <1>4, <1>5, <2>3, <2>4
<1>10. CASE CreateOverride(h)
  <2>1. override' = [override EXCEPT ![h] = NewOverride(Supported(h), Null)] /\ profile' = profile /\ event' = event
    BY <1>10 DEF CreateOverride
  <2>2. PICK new : new = NewOverride(Supported(h), Null)
    OBVIOUS
  <2>3. new \in OverrideRows
    BY <1>2, <2>2 DEF NewOverride, OverrideRows
  <2>4. override' \in [Ids -> OverrideRows]
    BY <1>2, <1>5, <2>1, <2>2, <2>3
  <2> QED  BY <1>4, <1>5, <2>1, <2>4
<1> QED  BY <1>6, <1>7, <1>8, <1>9, <1>10

LEMMA ProposalTables ==
    ASSUME SupportInv, NEW h \in Calls, CreateProposal(h) \/ \E who \in Staff, p \in Ids : WithdrawProposal(h, who, p)
    PROVE  TablesOK'
<1>1. TablesOK /\ proposal \in [Ids -> ProposalRows] /\ RequestInv
  BY DEF SupportInv, TablesOK
<1>2. PathsTypeOK(Ids)' /\ UNCHANGED <<support, profile, override, observation, event, historyVars>>
  BY <1>1, PathsStay DEF CreateProposal, WithdrawProposal
<1>3. ASSUME proposal' \in [Ids -> ProposalRows] PROVE TablesOK'
  BY <1>1, <1>2, <1>3 DEF TablesOK, historyVars
<1>4. CASE CreateProposal(h)
  <2>1. call[h].at = "run" /\ proposal' = [proposal EXCEPT ![h] = NewProposal(Account(h), Body(h))]
    BY <1>4 DEF CreateProposal, At
  <2>2. PICK new : new = NewProposal(Account(h), Body(h))
    OBVIOUS
  <2>3. new = [status |-> "SUBMITTED", type |-> Body(h).type, student |-> Body(h).student, author |-> Account(h),
               category |-> Body(h).category, state |-> Body(h).state, ref |-> Body(h).ref, reviewer |-> Null, version |-> 1]
    BY <2>2 DEF NewProposal, NoProposal
  <2>4. /\ h \in Ids /\ Body(h).student \in Students \union {Null} /\ Body(h).category \in {"TOOLS", "OTHER", Null}
        /\ Body(h).ref \in Refs \union {Null} /\ Body(h).state \in States \union {Null}
        /\ Body(h).type \in ProposalTypes \union {Null} /\ Account(h) \in Accounts /\ 1 \in 1 .. MaxVersion
    BY <1>1, <2>1, BodyTyped, ConstantsAssumption DEF Supported
  <2>5. new \in ProposalRows
    BY <2>3, <2>4 DEF ProposalRows
  <2> QED  BY <1>1, <1>3, <2>1, <2>2, <2>4, <2>5
<1>5. ASSUME NEW who, NEW p \in Ids, WithdrawProposal(h, who, p) PROVE TablesOK'
  <2>1. /\ proposal[p].version < MaxVersion
        /\ proposal' = [proposal EXCEPT ![p] = [proposal[p] EXCEPT !.status = "WITHDRAWN", !.version = proposal[p].version + 1]]
    BY <1>5 DEF WithdrawProposal
  <2>2. PICK row, new : row = proposal[p] /\ new = [row EXCEPT !.status = "WITHDRAWN", !.version = row.version + 1]
    OBVIOUS
  <2>3. row \in ProposalRows /\ proposal' = [proposal EXCEPT ![p] = new]
    BY <1>1, <2>1, <2>2
  <2>4. row.version + 1 \in 1 .. MaxVersion
    BY <2>1, <2>2, <2>3, ConstantsAssumption DEF ProposalRows
  <2>5. new \in ProposalRows
    BY <2>2, <2>3, <2>4 DEF ProposalRows
  <2> QED  BY <1>1, <1>3, <2>3, <2>5
<1> QED  BY <1>4, <1>5

-----------------------------------------------------------------------------
(* The policies                                                            *)

LEMMA UpsertedTyped ==
    ASSUME TablesOK, NEW place \in Places, NEW id \in Ids, NEW state \in States, NEW ref \in Refs \union {Null},
           policy[place].version < MaxVersion
    PROVE  Upserted(policy[place], id, state, ref) \in PolicyRows(Ids \union {Null})
<1>1. PICK row : row = policy[place]
  OBVIOUS
<1>2. row \in PolicyRows(Ids \union {Null})
  BY <1>1 DEF TablesOK, PathsTypeOK
<1>3. row.id \in Ids \union {Null} /\ row.version + 1 \in 0 .. MaxVersion
  BY <1>1, <1>2, ConstantsAssumption DEF PolicyRows
<1>4. PICK new : new = Upserted(row, id, state, ref)
  OBVIOUS
<1>5. PICK kept \in Ids \union {Null} : new = [state |-> state, id |-> kept, alternative |-> ref, version |-> row.version + 1]
  BY <1>3, <1>4 DEF Upserted
<1>6. new \in PolicyRows(Ids \union {Null})
  BY <1>3, <1>5 DEF PolicyRows
<1> QED  BY <1>1, <1>4, <1>6

LEMMA PolicyWritten ==
    ASSUME TablesOK, NEW place \in Places, NEW row \in PolicyRows(Ids \union {Null}), PolicyCheck(place, row),
           policy' = [policy EXCEPT ![place] = row], alternative' = alternative
    PROVE  PathsTypeOK(Ids)'
<1>1. policy \in [Places -> PolicyRows(Ids \union {Null})] /\ alternative \subseteq Refs
  BY DEF TablesOK, PathsTypeOK
<1>2. policy' \in [Places -> PolicyRows(Ids \union {Null})]
  BY <1>1
<1>3. ASSUME NEW p \in Places PROVE PolicyCheck(p, policy'[p])
  <2>1. CASE p = place
    BY <1>1, <2>1
  <2>2. CASE p # place
    <3>1. policy'[p] = policy[p] /\ PolicyCheck(p, policy[p])
      BY <1>1, <2>2 DEF TablesOK, PathsTypeOK
    <3> QED  BY <3>1
  <2> QED  BY <2>1, <2>2
<1>4. (\A p \in Places : PolicyCheck(p, policy[p]))'
  BY <1>3 DEF PolicyCheck
<1> QED  BY <1>1, <1>2, <1>4 DEF PathsTypeOK

\* An acceptance writes what the proposal may say: never UNAVAILABLE_FOR_USE, and an
\* alternative exactly with the state that has one.
LEMMA AdjustedTyped ==
    ASSUME TablesOK, NEW h \in Calls, NEW student \in Students, NEW state \in States \ {"UNAVAILABLE_FOR_USE"},
           NEW ref \in Refs \union {Null}, state = "DISABLED_WITH_ALTERNATIVE" => ref \in Refs,
           \A place \in Places : policy[place].version < MaxVersion,
           policy' = Adjusted(student, h, state, ref), alternative' = alternative
    PROVE  PathsTypeOK(Ids)'
<1>1. PICK place, given : /\ place = <<"STUDENT", student>>
                          /\ given = IF state = "DISABLED_WITH_ALTERNATIVE" THEN ref ELSE Null
  OBVIOUS
<1>2. place \in Places /\ given \in Refs \union {Null} /\ h \in Ids
  BY <1>1 DEF Places, Ids
<1>3. PICK row : row = Upserted(policy[place], h, state, given)
  OBVIOUS
<1>4. row \in PolicyRows(Ids \union {Null})
  BY <1>2, <1>3, UpsertedTyped
<1>5. PolicyCheck(place, row)
  <2>1. row.state = state /\ row.alternative = given
    BY <1>3 DEF Upserted
  <2>2. given # Null <=> state = "DISABLED_WITH_ALTERNATIVE"
    BY <1>1, NullOutside
  <2> QED  BY <2>1, <2>2 DEF PolicyCheck
<1>6. policy' = [policy EXCEPT ![place] = row]
  BY <1>1, <1>3 DEF Adjusted
<1> QED  BY <1>2, <1>4, <1>5, <1>6, PolicyWritten

LEMMA PathTables ==
    ASSUME SupportInv, NEW h \in Calls, CreatePolicy(h) \/ RevertToInherit(h) \/ RegisterAlternative(h)
    PROVE  TablesOK'
<1>1. TablesOK /\ RequestInv /\ call[h].at = "run" /\ UNCHANGED <<tableVars, historyVars>>
  BY DEF SupportInv, CreatePolicy, RevertToInherit, RegisterAlternative, At
<1>2. ASSUME PathsTypeOK(Ids)' PROVE TablesOK'
  BY <1>1, <1>2 DEF TablesOK, tableVars, historyVars
<1>3. policy \in [Places -> PolicyRows(Ids \union {Null})] /\ alternative \subseteq Refs
  BY <1>1 DEF TablesOK, PathsTypeOK
<1>4. CASE CreatePolicy(h)
  <2>1. PICK place, row : place = Body(h).place /\ row = Upserted(policy[place], h, call[h].arg.state, call[h].arg.ref)
    OBVIOUS
  <2>2. /\ Op(h) = "policy" /\ policy[place].version < MaxVersion /\ alternative' = alternative
        /\ \/ PolicyCheck(place, row) /\ policy' = [policy EXCEPT ![place] = row]
           \/ policy' = policy
    BY <1>4, <2>1 DEF CreatePolicy, UpsertPolicy, At
  <2>3. place \in Places /\ call[h].arg.state \in States /\ call[h].arg.ref \in Refs \union {Null} /\ h \in Ids
    <3>1. call[h].arg = Body(h) /\ BodyOk("policy", Body(h))
      BY <1>1, <2>2, RequestFacts
    <3> QED  BY <1>1, <2>1, <3>1, BodyTyped DEF BodyOk
  <2>4. row \in PolicyRows(Ids \union {Null})
    BY <1>1, <2>1, <2>2, <2>3, UpsertedTyped
  <2>5. CASE policy' = policy
    BY <1>1, <1>2, <2>2, <2>5, PathsStay DEF pathVars
  <2>6. CASE PolicyCheck(place, row) /\ policy' = [policy EXCEPT ![place] = row]
    BY <1>1, <1>2, <2>2, <2>3, <2>4, <2>6, PolicyWritten
  <2> QED  BY <2>2, <2>5, <2>6
<1>5. CASE RevertToInherit(h)
  <2>1. PICK id : id = Body(h).target
    OBVIOUS
  <2>2. /\ alternative' = alternative
        /\ \/ policy' = [p \in Places |-> IF policy[p].id = id THEN NoPolicy ELSE policy[p]]
           \/ policy' = policy
    BY <1>5, <2>1 DEF RevertToInherit, DeletePolicy
  <2>3. NoPolicy \in PolicyRows(Ids \union {Null}) /\ \A p \in Places : PolicyCheck(p, NoPolicy)
    BY ConstantsAssumption DEF NoPolicy, PolicyRows, PolicyCheck
  <2>4. CASE policy' = policy
    BY <1>1, <1>2, <2>2, <2>4, PathsStay DEF pathVars
  <2>5. CASE policy' = [p \in Places |-> IF policy[p].id = id THEN NoPolicy ELSE policy[p]]
    <3>1. policy' \in [Places -> PolicyRows(Ids \union {Null})]
      BY <1>3, <2>3, <2>5
    <3>2. ASSUME NEW p \in Places PROVE PolicyCheck(p, policy'[p])
      <4>1. policy'[p] = NoPolicy \/ policy'[p] = policy[p]
        BY <2>5
      <4>2. PolicyCheck(p, policy[p])
        BY <1>1 DEF TablesOK, PathsTypeOK
      <4> QED  BY <2>3, <4>1, <4>2
    <3>3. (\A p \in Places : PolicyCheck(p, policy[p]))'
      BY <3>2 DEF PolicyCheck
    <3> QED  BY <1>2, <1>3, <2>2, <3>1, <3>3 DEF PathsTypeOK
  <2> QED  BY <2>2, <2>4, <2>5
<1>6. CASE RegisterAlternative(h)
  <2>1. policy' = policy /\ alternative' = alternative \union {call[h].arg.ref} /\ Op(h) = "register"
    BY <1>6 DEF RegisterAlternative, CreateAlternative, At
  <2>2. call[h].arg.ref \in Refs
    <3>1. call[h].arg = Body(h) /\ BodyOk("register", Body(h))
      BY <1>1, <2>1, RequestFacts
    <3> QED  BY <3>1 DEF BodyOk
  <2>3. PathsTypeOK(Ids)'
    BY <1>1, <2>1, <2>2 DEF TablesOK, PathsTypeOK, PolicyCheck
  <2> QED  BY <1>2, <2>3
<1> QED  BY <1>4, <1>5, <1>6

LEMMA ReviewTables ==
    ASSUME SupportInv, NEW h \in Calls, ReviewInTransaction(h)
    PROVE  TablesOK'
<1>1. PICK p : p = Body(h).target
  OBVIOUS
<1>2. /\ p \in Ids /\ h \in Ids /\ TablesOK
      /\ lately' = lately /\ support' = support /\ observation' = observation /\ event' = event /\ alternative' = alternative
      /\ \A place \in Places : policy[place].version < MaxVersion
  BY <1>1, ReviewFacts DEF Ids, SupportInv, ReviewInTransaction
<1>3. ASSUME proposal' \in [Ids -> ProposalRows], profile' \in [Ids -> ProfileRows], override' \in [Ids -> OverrideRows],
             adjusted' \subseteq Calls \X Ids, PathsTypeOK(Ids)'
      PROVE  TablesOK'
  BY <1>2, <1>3 DEF TablesOK
<1>4. /\ proposal \in [Ids -> ProposalRows] /\ profile \in [Ids -> ProfileRows]
      /\ override \in [Ids -> OverrideRows] /\ adjusted \subseteq Calls \X Ids
  BY <1>2 DEF TablesOK
<1>5. CASE UNCHANGED <<proposal, profile, override, policy, adjusted>>
  BY <1>2, <1>3, <1>4, <1>5, PathsStay DEF pathVars
<1>6. CASE ~UNCHANGED <<proposal, profile, override, policy, adjusted>>
  <2>1. /\ proposal[p].status = "SUBMITTED" /\ proposal' \in [Ids -> ProposalRows]
        /\ UNCHANGED <<profile, override, policy, adjusted>> \/ TakesEffect(h, p)
    BY <1>1, <1>6, ReviewFacts
  <2>2. CASE UNCHANGED <<profile, override, policy, adjusted>>
    BY <1>2, <1>3, <1>4, <2>1, <2>2, PathsStay DEF pathVars
  <2>3. CASE TakesEffect(h, p)
    <3>1. PICK row : row = proposal[p]
      OBVIOUS
    <3>2. row \in ProposalRows /\ Proposable(row)
      BY <1>2, <1>4, <2>1, <3>1 DEF SupportInv, EffectInv
    <3>3. /\ row.student \in Students \union {Null} /\ row.category \in {"TOOLS", "OTHER", Null}
          /\ row.ref \in Refs \union {Null}
      BY <3>2 DEF ProposalRows
    <3>4. profile' \in [Ids -> ProfileRows]
      <4>1. PICK new : new = NewProfile(row.student, row.category, "PROFILE_LEVEL", p)
        OBVIOUS
      <4>2. new \in ProfileRows
        BY <1>2, <3>3, <4>1, NewProfileTyped
      <4>3. profile' = profile \/ profile' = [Superseded(row.student, row.category) EXCEPT ![h] = new]
        BY <2>3, <3>1, <4>1 DEF TakesEffect
      <4>4. Superseded(row.student, row.category) \in [Ids -> ProfileRows]
        BY <1>2, SupersededKeeps
      <4> QED  BY <1>2, <1>4, <4>2, <4>3, <4>4
    <3>5. override' \in [Ids -> OverrideRows]
      <4>1. PICK new : new = NewOverride(row.student, p)
        OBVIOUS
      <4>2. new \in OverrideRows
        BY <1>2, <3>3, <4>1 DEF NewOverride, OverrideRows
      <4>3. override' = override \/ override' = [override EXCEPT ![h] = new]
        BY <2>3, <3>1, <4>1 DEF TakesEffect
      <4> QED  BY <1>2, <1>4, <4>2, <4>3
    <3>6. adjusted' \subseteq Calls \X Ids
      <4>1. adjusted' = adjusted \/ adjusted' = adjusted \union {<<h, p>>}
        BY <2>3 DEF TakesEffect
      <4> QED  BY <1>2, <1>4, <4>1
    <3>7. PathsTypeOK(Ids)'
      <4>1. CASE row.type # "LEARNING_PATH_ADJUSTMENT"
        <5>1. policy' = policy
          BY <2>3, <3>1, <4>1 DEF TakesEffect
        <5> QED  BY <1>2, <5>1, PathsStay DEF pathVars
      <4>2. CASE row.type = "LEARNING_PATH_ADJUSTMENT"
        <5>1. policy' = Adjusted(row.student, h, row.state, row.ref)
          BY <2>3, <3>1, <4>2 DEF TakesEffect
        <5>2. /\ row.student \in Students /\ row.state \in States \ {"UNAVAILABLE_FOR_USE"}
              /\ row.state = "DISABLED_WITH_ALTERNATIVE" => row.ref \in Refs
          BY <3>2, <4>2 DEF Proposable
        <5> QED  BY <1>2, <3>3, <5>1, <5>2, AdjustedTyped
      <4> QED  BY <4>1, <4>2
    <3> QED  BY <1>3, <2>1, <3>4, <3>5, <3>6, <3>7
  <2> QED  BY <2>1, <2>2, <2>3
<1> QED  BY <1>5, <1>6

LEMMA TablesKept ==
    ASSUME SupportInv, NEW h \in Calls, (\E who \in Staff : Routes(h, who)) \/ Services(h)
    PROVE  TablesOK'
<1>1. TablesOK /\ RequestInv /\ lately \in [Calls -> BOOLEAN]
  BY DEF SupportInv, TablesOK
<1>2. CASE Asking(h) \/ Calm \/ ReadReviewer(h)
  <2>1. UNCHANGED <<tableVars, adjusted, pathVars>>
    BY <1>2 DEF Asking, Calm, ReadReviewer, historyVars
  <2>2. lately' = lately \/ lately' = [lately EXCEPT ![h] = FALSE]
    BY <1>2 DEF Asking, Calm, ReadReviewer, historyVars
  <2> QED  BY <1>1, <2>1, <2>2, TablesStay
<1>3. CASE Services(h)
  BY <1>2, <1>3, ServiceKinds, SupportTables, RowTables, ObservationTables, ProposalTables, ReviewTables, PathTables
<1>4. ASSUME NEW who \in Staff, Routes(h, who) PROVE TablesOK'
  BY <1>1, <1>2, <1>4, RouteKinds, SupportTables, ProposalTables
<1> QED  BY <1>3, <1>4

-----------------------------------------------------------------------------
(* The invariant                                                           *)

LEMMA SupportStep ==
    ASSUME SupportInv, NEW h \in Calls, (\E who \in Staff : Routes(h, who)) \/ Services(h)
    PROVE  SupportInv'
<1>1. RequestInv'
  BY NextMoves
<1>2. TablesOK'
  BY TablesKept
<1>3. EffectInv'
  BY EffectKept
<1>4. ObservationInv'
  BY ObservationKept
<1>5. \A g \in Calls : ReviewSeen(g)'
  BY FirstKept
<1> QED  BY <1>1, <1>2, <1>3, <1>4, <1>5 DEF SupportInv

\* Nothing but the records changes, and none of them is completed.
LEMMA SupportIdles ==
    ASSUME SupportInv, UNCHANGED <<tableVars, historyVars, pathVars>>, call' = call,
           CallsTypeOK(Ops, Bodies, Ids, Locations)', CompletesAtMost({})
    PROVE  SupportInv'
<1>1. UNCHANGED <<support, proposal, profile, override, observation, event, asked, lately, adjusted, call>>
  BY DEF tableVars, historyVars
<1>2. TablesOK'
  BY TablesStay DEF SupportInv, TablesOK, historyVars
<1>3. RequestInv'
  BY <1>1 DEF SupportInv, RequestInv, Sent
<1>4. EffectInv'
  <2>1. ASSUME NEW p \in Ids
        PROVE  (/\ proposal[p].status # "ABSENT" => Proposable(proposal[p])
                /\ EffectOk(p) /\ NotOwnReviewer(proposal[p]))'
    <3>1. (proposal[p].status # "ABSENT" => Proposable(proposal[p])) /\ EffectOk(p) /\ NotOwnReviewer(proposal[p])
      BY DEF SupportInv, EffectInv
    <3>2. EffectOk(p)'
      BY <1>1, <3>1 DEF EffectOk, Effects, HasEffect
    <3> QED  BY <1>1, <3>1, <3>2 DEF Proposable, NotOwnReviewer
  <2>2. (\A h \in Calls : call[h].at \in Early =>
           proposal[h] = NoProposal /\ profile[h].from = Null /\ override[h].from = Null)'
    BY <1>1 DEF SupportInv, EffectInv, NoProposal
  <2> QED  BY <2>1, <2>2 DEF EffectInv
<1>5. ObservationInv'
  <2>1. ASSUME NEW i \in Ids PROVE MadeOk(i)' /\ ByOk(i)'
    <3>1. MadeOk(i) /\ ByOk(i)
      BY DEF SupportInv, ObservationInv
    <3> QED  BY <1>1, <3>1 DEF MadeOk, ByOk
  <2>2. ASSUME NEW h \in Calls PROVE AboutOk(h)' /\ Observes(h)'
    <3>1. AboutOk(h) /\ Observes(h)
      BY DEF SupportInv, ObservationInv
    <3>2. Op(h)' = Op(h) /\ Scope(h)' = Scope(h) /\ NoObservation' = NoObservation
      BY <1>1 DEF Op, Scope, NoObservation
    <3>3. AboutOk(h)'
      BY <1>1, <3>1 DEF AboutOk
    <3> QED  BY <1>1, <3>1, <3>2, <3>3 DEF Observes
  <2>3. ASSUME NEW s \in DOMAIN idem', idem'[s].status = "COMPLETED", s[1] = Named("observe")
        PROVE  \E i \in Ids : observation'[i].scope = s /\ observation'[i].replayed
    <3>1. s \in DOMAIN idem /\ idem[s].status = "COMPLETED"
      BY <2>3 DEF CompletesAtMost
    <3> QED  BY <1>1, <2>3, <3>1 DEF SupportInv, ObservationInv
  <2> QED  BY <2>1, <2>2, <2>3 DEF ObservationInv, Named
<1>6. ASSUME NEW h \in Calls PROVE ReviewSeen(h)'
  <2>1. ReviewSeen(h)
    BY DEF SupportInv
  <2> QED  BY <1>1, <2>1 DEF ReviewSeen, Op, Body, Who, HasSupportTeacher, HasAssignment, IsActiveFor
<1> QED  BY <1>2, <1>3, <1>4, <1>5, <1>6 DEF SupportInv

LEMMA NextSupports == SupportInv /\ [Next]_vars => SupportInv'
<1>1. ASSUME SupportInv, NEW h \in Calls, (\E who \in Staff : Routes(h, who)) \/ Services(h) PROVE SupportInv'
  BY <1>1, SupportStep
<1>2. ASSUME SupportInv, RetryWindowEnds, UNCHANGED <<tableVars, historyVars, pathVars>> PROVE SupportInv'
  <2>1. CallsTypeOK(Ops, Bodies, Ids, Locations)
    BY <1>2 DEF SupportInv, RequestInv
  <2>2. CallsTypeOK(Ops, Bodies, Ids, Locations)' /\ call' = call /\ CompletesAtMost({})
    BY <1>2, <2>1, RetryWindowEffect
  <2> QED  BY <1>2, <2>2, SupportIdles
<1>3. ASSUME SupportInv, UNCHANGED vars PROVE SupportInv'
  <2>1. UNCHANGED <<tableVars, historyVars, pathVars>> /\ idem' = idem /\ call' = call
    BY <1>3 DEF vars, callVars
  <2>2. CallsTypeOK(Ops, Bodies, Ids, Locations)' /\ CompletesAtMost({})
    BY <1>3, <2>1 DEF SupportInv, RequestInv, CallsTypeOK, CompletesAtMost
  <2> QED  BY <1>3, <2>1, <2>2, SupportIdles
<1> QED  BY <1>1, <1>2, <1>3 DEF Next

\* The rows that there can be at the start.  What an accepted proposal has done belongs
\* to its call: of the past there are the proposals that nobody accepted, and what
\* somebody made under a key is not asked for again.
Past(policies, rows) ==
    /\ policies \in [Places -> PolicyRows(Ids \union {Null})] /\ \A place \in Places : PolicyCheck(place, policies[place])
    /\ \A i \in DOMAIN rows.support : i \in Seeds /\ rows.support[i] \in SupportRows
    /\ \A i \in DOMAIN rows.proposal :
           /\ i \in Seeds /\ rows.proposal[i] \in ProposalRows /\ NotOwnReviewer(rows.proposal[i])
           /\ rows.proposal[i].status # "ACCEPTED"
           /\ rows.proposal[i].status # "ABSENT" => Proposable(rows.proposal[i])
    /\ \A i \in DOMAIN rows.profile : i \in Seeds /\ rows.profile[i] \in ProfileRows /\ rows.profile[i].from = Null
    /\ \A i \in DOMAIN rows.observation :
           /\ i \in Seeds /\ rows.observation[i] \in ObservationRows((Ops \X Keys) \union {Null})
           /\ rows.observation[i].by = Null /\ rows.observation[i].scope = Null

LEMMA InitTables ==
    ASSUME NEW policies, NEW rows, NEW coming, Past(policies, rows), SupportInit(policies, rows, coming)
    PROVE  TablesOK
<1>1. PathsTypeOK(Ids)
  BY DEF PathsTypeOK, Past, SupportInit
<1>2. support \in [Ids -> SupportRows]
  <2>1. NoSupport \in SupportRows
    BY DEF NoSupport, SupportRows
  <2> QED  BY <2>1 DEF Past, SupportInit
<1>3. proposal \in [Ids -> ProposalRows]
  <2>1. NoProposal \in ProposalRows
    BY ConstantsAssumption DEF NoProposal, ProposalRows
  <2> QED  BY <2>1 DEF Past, SupportInit
<1>4. profile \in [Ids -> ProfileRows] /\ override \in [Ids -> OverrideRows] /\ event \in [Ids -> EventRows]
  <2>1. NoProfile \in ProfileRows /\ NoOverride \in OverrideRows /\ NoEvent \in EventRows
    BY DEF NoProfile, ProfileRows, NoOverride, OverrideRows, NoEvent, EventRows
  <2> QED  BY <2>1 DEF Past, SupportInit
<1>5. observation \in [Ids -> ObservationRows((Ops \X Keys) \union {Null})]
  <2>1. NoObservation \in ObservationRows((Ops \X Keys) \union {Null})
    BY DEF NoObservation, ObservationRows
  <2> QED  BY <2>1 DEF Past, SupportInit
<1>6. lately \in [Calls -> BOOLEAN] /\ adjusted \subseteq Calls \X Ids
  BY DEF SupportInit
<1> QED  BY <1>1, <1>2, <1>3, <1>4, <1>5, <1>6 DEF TablesOK

LEMMA InitSupport ==
    ASSUME NEW policies, NEW rows, NEW coming, Past(policies, rows), SupportInit(policies, rows, coming)
    PROVE  SupportInv
<1>1. /\ CallsInit(coming) /\ adjusted = {} /\ DOMAIN idem = {}
      /\ \A h \in Calls : call[h].at \in {"idle", "done"} /\ asked[h] = NotAsked
  BY DEF SupportInit, CallsInit, Idle
<1>2. RequestInv
  <2>1. CallsTypeOK(Ops, Bodies, Ids, Locations)
    BY <1>1, InitTyped
  <2>2. NotAsked \in Requests
    BY ConstantsAssumption DEF NotAsked, Requests, NoBody, Bodies
  <2>3. asked \in [Calls -> Requests]
    BY <2>2 DEF SupportInit
  <2> QED  BY <1>1, <2>1, <2>3 DEF RequestInv, Sent
<1>3. \A i \in Ids : profile[i].from = Null /\ override[i].from = Null
  BY DEF Past, SupportInit, NoProfile, NoOverride
<1>4. \A p \in Ids : Effects(p) = {}
  BY <1>1, <1>3, NullOutside DEF Effects
<1>5. ASSUME NEW p \in Ids
      PROVE  /\ proposal[p].status # "ABSENT" => Proposable(proposal[p])
             /\ proposal[p].status # "ACCEPTED" /\ NotOwnReviewer(proposal[p])
  <2>1. CASE p \in DOMAIN rows.proposal
    BY <2>1 DEF Past, SupportInit
  <2>2. CASE p \notin DOMAIN rows.proposal
    BY <2>2 DEF SupportInit, NoProposal, NotOwnReviewer
  <2> QED  BY <2>1, <2>2
<1>6. EffectInv
  <2>1. \A h \in Calls : proposal[h] = NoProposal
    BY ConstantsAssumption DEF Past, SupportInit, Ids
  <2>2. \A p \in Ids : EffectOk(p)
    BY <1>4, <1>5 DEF EffectOk
  <2> QED  BY <1>3, <1>5, <2>1, <2>2 DEF EffectInv, Ids
<1>7. ObservationInv
  <2>1. \A i \in Ids : observation[i].by = Null /\ observation[i].scope = Null
    BY DEF Past, SupportInit, NoObservation
  <2>2. \A h \in Calls : observation[h] = NoObservation
    BY ConstantsAssumption DEF Past, SupportInit, Ids
  <2>3. \A i \in Ids : MadeOk(i) /\ ByOk(i)
    BY <2>1 DEF MadeOk, ByOk
  <2>4. \A h \in Calls : AboutOk(h) /\ Observes(h)
    BY <1>1, <2>2 DEF AboutOk, Observes, NotAsked, Early
  <2> QED  BY <1>1, <2>3, <2>4 DEF ObservationInv
<1>8. \A h \in Calls : ReviewSeen(h)
  BY <1>1 DEF ReviewSeen
<1> QED  BY <1>2, <1>6, <1>7, <1>8, InitTables DEF SupportInv

-----------------------------------------------------------------------------
(* The paths                                                               *)

Scopes == {"PLATFORM", "SCHOOL", "CLASS", "STUDENT"}
Chains == [Scopes -> States \union {"INHERIT"}]

\* The loop over the scopes has come to the i-th: the lowest restriction so far decides,
\* and the permissions below one are shadowed.
Reached(at, i, acc) ==
    LET locks == {j \in 1 .. i : at[ScopeOrder[j]] \in Restrictions}
    IN /\ acc.state \in States /\ (acc.state \in Restrictions <=> locks # {})
       /\ locks # {} => \E j \in locks : acc.source = ScopeOrder[j] /\ \A k \in locks : k <= j
       /\ acc.shadowed = {ScopeOrder[j] : j \in {k \in 1 .. i : /\ at[ScopeOrder[k]] = "ENABLED"
                                                               /\ \E l \in locks : l < k}}

LEMMA ScopeOrderIs ==
    /\ ScopeOrder[1] = "PLATFORM" /\ ScopeOrder[2] = "SCHOOL" /\ ScopeOrder[3] = "CLASS" /\ ScopeOrder[4] = "STUDENT"
    /\ Range(ScopeOrder) = Scopes
    /\ \A i, j \in 1 .. 4 : ScopeOrder[i] = ScopeOrder[j] => i = j
    /\ \A i \in 1 .. 4 : ScopeOrder[i] \in Scopes
<1>1. /\ ScopeOrder[1] = "PLATFORM" /\ ScopeOrder[2] = "SCHOOL" /\ ScopeOrder[3] = "CLASS" /\ ScopeOrder[4] = "STUDENT"
      /\ DOMAIN ScopeOrder = 1 .. 4
  BY DEF ScopeOrder
<1>2. \A i \in 1 .. 4 : i = 1 \/ i = 2 \/ i = 3 \/ i = 4
  OBVIOUS
<1>3. Range(ScopeOrder) = Scopes
  BY <1>1, <1>2 DEF Range, Scopes
<1> QED  BY <1>1, <1>2, <1>3 DEF Scopes

LEMMA LayerReaches ==
    ASSUME NEW at \in Chains, NEW i \in 0 .. 3, NEW acc, Reached(at, i, acc),
           acc = [state |-> acc.state, source |-> acc.source, shadowed |-> acc.shadowed]
    PROVE  LET next == Layer(acc, ScopeOrder[i + 1], at[ScopeOrder[i + 1]])
           IN /\ Reached(at, i + 1, next)
              /\ next = [state |-> next.state, source |-> next.source, shadowed |-> next.shadowed]
<1> DEFINE scope == ScopeOrder[i + 1]
           next == Layer(acc, scope, at[scope])
           locks == {j \in 1 .. i : at[ScopeOrder[j]] \in Restrictions}
           after == {j \in 1 .. (i + 1) : at[ScopeOrder[j]] \in Restrictions}
<1>1. i + 1 \in 1 .. 4 /\ scope \in Scopes /\ at[scope] \in States \union {"INHERIT"}
  BY ScopeOrderIs DEF Chains
<1>2. \A j : j \in 1 .. (i + 1) <=> j \in 1 .. i \/ j = i + 1
  OBVIOUS
<1>3. \A j \in 1 .. i : j < i + 1
  OBVIOUS
<1>4. "INHERIT" \notin Restrictions /\ "ENABLED" \notin Restrictions
  BY DEF Restrictions
<1>5. CASE at[scope] = "INHERIT"
  <2>1. next = acc /\ after = locks
    BY <1>2, <1>4, <1>5 DEF Layer
  <2>2. {k \in 1 .. (i + 1) : at[ScopeOrder[k]] = "ENABLED" /\ \E l \in after : l < k}
        = {k \in 1 .. i : at[ScopeOrder[k]] = "ENABLED" /\ \E l \in locks : l < k}
    BY <1>2, <1>5, <2>1
  <2> QED  BY <2>1, <2>2 DEF Reached
<1>6. CASE at[scope] = "ENABLED" /\ acc.state \in Restrictions
  <2>1. next = [acc EXCEPT !.shadowed = @ \union {scope}] /\ after = locks /\ locks # {}
    BY <1>2, <1>4, <1>6 DEF Layer, Reached
  <2>2. next = [state |-> acc.state, source |-> acc.source, shadowed |-> acc.shadowed \union {scope}]
    BY <2>1
  <2>3. {k \in 1 .. (i + 1) : at[ScopeOrder[k]] = "ENABLED" /\ \E l \in after : l < k}
        = {k \in 1 .. i : at[ScopeOrder[k]] = "ENABLED" /\ \E l \in locks : l < k} \union {i + 1}
    BY <1>2, <1>3, <1>6, <2>1
  <2> QED  BY <2>1, <2>2, <2>3 DEF Reached
<1>7. CASE at[scope] = "ENABLED" /\ acc.state \notin Restrictions
  <2>1. next = [acc EXCEPT !.state = at[scope], !.source = scope] /\ after = locks /\ locks = {}
    BY <1>2, <1>4, <1>7 DEF Layer, Reached
  <2>2. next = [state |-> "ENABLED", source |-> scope, shadowed |-> acc.shadowed]
    BY <1>7, <2>1
  <2>3. {k \in 1 .. (i + 1) : at[ScopeOrder[k]] = "ENABLED" /\ \E l \in after : l < k}
        = {k \in 1 .. i : at[ScopeOrder[k]] = "ENABLED" /\ \E l \in locks : l < k}
    BY <2>1
  <2>4. next.state \in States /\ next.state \notin Restrictions
    BY <1>4, <2>2 DEF States
  <2>5. next.shadowed = {ScopeOrder[j] : j \in {k \in 1 .. (i + 1) : at[ScopeOrder[k]] = "ENABLED" /\ \E l \in after : l < k}}
    BY <2>2, <2>3 DEF Reached
  <2>6. Reached(at, i + 1, next)
    <3> HIDE DEF next
    <3> QED  BY <2>1, <2>4, <2>5 DEF Reached
  <2> QED  BY <2>2, <2>6
<1>8. CASE at[scope] \in Restrictions
  <2>1. next = [acc EXCEPT !.state = at[scope], !.source = scope] /\ after = locks \union {i + 1}
    BY <1>2, <1>4, <1>8 DEF Layer
  <2>2. next = [state |-> at[scope], source |-> scope, shadowed |-> acc.shadowed]
    BY <2>1
  <2>3. {k \in 1 .. (i + 1) : at[ScopeOrder[k]] = "ENABLED" /\ \E l \in after : l < k}
        = {k \in 1 .. i : at[ScopeOrder[k]] = "ENABLED" /\ \E l \in locks : l < k}
    BY <1>2, <1>3, <1>4, <1>8, <2>1
  <2>4. i + 1 \in after /\ \A k \in after : k <= i + 1
    BY <1>1, <2>1
  <2>5. next.state \in States /\ next.state \in Restrictions /\ after # {} /\ next.source = ScopeOrder[i + 1]
    BY <1>8, <2>2, <2>4 DEF States
  <2>6. next.shadowed = {ScopeOrder[j] : j \in {k \in 1 .. (i + 1) : at[ScopeOrder[k]] = "ENABLED" /\ \E l \in after : l < k}}
    BY <2>2, <2>3 DEF Reached
  <2>7. Reached(at, i + 1, next)
    <3> HIDE DEF next
    <3> QED  BY <2>4, <2>5, <2>6 DEF Reached
  <2> QED  BY <2>2, <2>7
<1> QED  BY <1>1, <1>5, <1>6, <1>7, <1>8 DEF States

\* What the resolution says of the chain of the policies.
LEMMA ResolveIs ==
    ASSUME NEW at \in Chains
    PROVE  LET locks == {j \in 1 .. 4 : at[ScopeOrder[j]] \in Restrictions}
               r == Resolve(at)
           IN /\ r.available \in BOOLEAN /\ (r.available <=> locks = {})
              /\ locks # {} => \E j \in locks : r.source = ScopeOrder[j] /\ \A k \in locks : k <= j
              /\ r.shadowed = {ScopeOrder[j] : j \in {k \in 1 .. 4 : /\ at[ScopeOrder[k]] = "ENABLED"
                                                                     /\ \E l \in locks : l < k}}
<1> DEFINE turn(acc, scope) == Layer(acc, scope, at[scope])
           start == [state |-> "ENABLED", source |-> "PLATFORM", shadowed |-> {}]
           platform == turn(start, "PLATFORM")
           school == turn(platform, "SCHOOL")
           class == turn(school, "CLASS")
           end == turn(class, "STUDENT")
           Shaped(acc) == acc = [state |-> acc.state, source |-> acc.source, shadowed |-> acc.shadowed]
<1>1. Reached(at, 0, start) /\ Shaped(start)
  BY DEF Reached, States, Restrictions
<1>2. 0 \in 0 .. 3 /\ 1 \in 0 .. 3 /\ 2 \in 0 .. 3 /\ 3 \in 0 .. 3 /\ 0 + 1 = 1 /\ 1 + 1 = 2 /\ 2 + 1 = 3 /\ 3 + 1 = 4
  OBVIOUS
<1>3. Reached(at, 1, platform) /\ Shaped(platform)
  <2> HIDE DEF start
  <2> QED  BY <1>1, <1>2, LayerReaches, ScopeOrderIs
<1>4. Reached(at, 2, school) /\ Shaped(school)
  <2> HIDE DEF platform
  <2> QED  BY <1>2, <1>3, LayerReaches, ScopeOrderIs
<1>5. Reached(at, 3, class) /\ Shaped(class)
  <2> HIDE DEF school
  <2> QED  BY <1>2, <1>4, LayerReaches, ScopeOrderIs
<1>6. Reached(at, 4, end)
  <2> HIDE DEF class
  <2> QED  BY <1>2, <1>5, LayerReaches, ScopeOrderIs
<1>7. /\ Resolve(at).available = (end.state = "ENABLED") /\ Resolve(at).source = end.source
      /\ Resolve(at).shadowed = end.shadowed
  BY DEF Resolve
<1> HIDE DEF end
<1>8. end.state = "ENABLED" <=> end.state \notin Restrictions
  BY <1>6 DEF Reached, States, Restrictions
<1> QED  BY <1>6, <1>7, <1>8 DEF Reached

\* Where a scope of the chain of a student has its policy.
PlaceOf(scope, class, student) ==
    CASE scope = "CLASS" -> <<scope, class>> [] scope = "STUDENT" -> <<scope, student>> [] OTHER -> <<scope, Null>>

LEMMA PlacesAre ==
    /\ <<"PLATFORM", Null>> \in Places /\ <<"SCHOOL", Null>> \in Places
    /\ \A c : <<"CLASS", c>> \in Places <=> c \in Classes
    /\ \A s : <<"STUDENT", s>> \in Places <=> s \in Students
  BY DEF Places, Scopes

LEMMA PlaceParts ==
    ASSUME NEW p \in Places
    PROVE  /\ p = <<p[1], p[2]>> /\ p[1] \in Scopes
           /\ p[1] \in {"PLATFORM", "SCHOOL"} => p[2] = Null
           /\ p[1] = "CLASS" => p[2] \in Classes
           /\ p[1] = "STUDENT" => p[2] \in Students
<1>1. CASE p \in {<<"PLATFORM", Null>>, <<"SCHOOL", Null>>}
  BY <1>1 DEF Scopes
<1>2. CASE p \in {"CLASS"} \X Classes
  BY <1>2 DEF Scopes
<1>3. CASE p \in {"STUDENT"} \X Students
  BY <1>3 DEF Scopes
<1> QED  BY <1>1, <1>2, <1>3 DEF Places

LEMMA StatesAt ==
    ASSUME PathsTypeOK(Ids)
    PROVE  /\ \A p \in Places : policy[p].state \in States \union {"INHERIT"}
           /\ NoPolicy.state = "INHERIT"
<1>1. ASSUME NEW p \in Places  PROVE policy[p].state \in States \union {"INHERIT"}
  <2>1. policy[p] \in PolicyRows(Ids \union {Null})
    BY DEF PathsTypeOK
  <2> QED  BY <2>1 DEF PolicyRows
<1> QED  BY <1>1 DEF NoPolicy

LEMMA ChainIs ==
    ASSUME PathsTypeOK(Ids), NEW class \in Classes \union {Null}, NEW student \in Students \union {Null}
    PROVE  LET at == PoliciesByScope(class, student)
           IN /\ at \in Chains
              /\ \A scope \in Scopes : at[scope] = IF PlaceOf(scope, class, student) \in Places
                                                  THEN policy[PlaceOf(scope, class, student)].state ELSE "INHERIT"
<1> DEFINE at == PoliciesByScope(class, student)
           place(scope) == PlaceOf(scope, class, student)
<1>1. at = [s \in Scopes |->
        CASE s = "CLASS"   -> IF class = Null THEN "INHERIT" ELSE policy[<<s, class>>].state
          [] s = "STUDENT" -> IF student = Null THEN "INHERIT" ELSE policy[<<s, student>>].state
          [] OTHER         -> policy[<<s, Null>>].state]
  BY ScopeOrderIs DEF PoliciesByScope
<1>2. Null \notin Students \union Classes
  BY NullOutside
<1>3. ASSUME NEW scope \in Scopes  PROVE at[scope] = IF place(scope) \in Places THEN policy[place(scope)].state ELSE "INHERIT"
  <2>1. CASE scope = "CLASS"
    BY <1>1, <1>2, <2>1, PlacesAre DEF PlaceOf
  <2>2. CASE scope = "STUDENT"
    BY <1>1, <1>2, <2>2, PlacesAre DEF PlaceOf
  <2>3. CASE scope \in {"PLATFORM", "SCHOOL"}
    BY <1>1, <2>3, PlacesAre DEF PlaceOf
  <2> QED  BY <2>1, <2>2, <2>3 DEF Scopes
<1>4. DOMAIN at = Scopes /\ at = [s \in Scopes |-> at[s]]
  BY <1>1
<1>5. at \in Chains
  <2> HIDE DEF at
  <2> QED  BY <1>3, <1>4, StatesAt DEF Chains, States
<1> QED  BY <1>3, <1>5

\* The theorem of the hard lock, of the policies as they stand.
LEMMA LocksHold ==
    ASSUME PathsTypeOK(Ids)
    PROVE  LockHolds
<1> SUFFICES ASSUME NEW student \in Students
             PROVE  LET at == PoliciesByScope(StudentClass[student], student)
                        effective == EffectiveFor(student)
                        locks == {i \in 1 .. 4 : at[ScopeOrder[i]] \in Restrictions}
                    IN /\ effective.available <=> locks = {}
                       /\ locks # {} => /\ effective.source = ScopeOrder[Max(locks)]
                                        /\ effective.shadowed = {ScopeOrder[i] : i \in {j \in 1 .. 4 : j > Min(locks) /\ at[ScopeOrder[j]] = "ENABLED"}}
  BY DEF LockHolds
<1> DEFINE at == PoliciesByScope(StudentClass[student], student)
           locks == {i \in 1 .. 4 : at[ScopeOrder[i]] \in Restrictions}
           r == Resolve(at)
<1>1. at \in Chains /\ EffectiveFor(student) = r
  BY ChainIs, ConstantsAssumption DEF EffectiveFor
<1> HIDE DEF at
<1>2. /\ r.available <=> locks = {}
      /\ locks # {} => \E j \in locks : r.source = ScopeOrder[j] /\ \A k \in locks : k <= j
      /\ r.shadowed = {ScopeOrder[j] : j \in {k \in 1 .. 4 : at[ScopeOrder[k]] = "ENABLED" /\ \E l \in locks : l < k}}
  BY <1>1, ResolveIs
<1> HIDE DEF r
<1>3. ASSUME locks # {}  PROVE r.source = ScopeOrder[Max(locks)]
  <2>1. PICK j \in locks : r.source = ScopeOrder[j] /\ \A k \in locks : k <= j
    BY <1>2, <1>3
  <2>2. \A k \in locks : k \in Int
    OBVIOUS
  <2>3. Max(locks) \in locks /\ \A k \in locks : Max(locks) >= k
    BY <2>1, <2>2 DEF Max
  <2>4. Max(locks) = j
    BY <2>1, <2>2, <2>3
  <2> QED  BY <2>1, <2>4
<1>4. ASSUME locks # {}  PROVE \A k \in 1 .. 4 : k > Min(locks) <=> \E l \in locks : l < k
  <2>1. \A k \in locks : k \in {1, 2, 3, 4}
    OBVIOUS
  <2>2. \E j \in locks : \A k \in locks : j <= k
    <3> HIDE DEF locks
    <3> QED  BY <1>4, <2>1
  <2>3. Min(locks) \in locks /\ \A k \in locks : Min(locks) <= k
    BY <2>1, <2>2 DEF Min
  <2> HIDE DEF locks
  <2> QED  BY <2>1, <2>3
<1>5. ASSUME locks # {}
      PROVE  {k \in 1 .. 4 : at[ScopeOrder[k]] = "ENABLED" /\ \E l \in locks : l < k} = {j \in 1 .. 4 : j > Min(locks) /\ at[ScopeOrder[j]] = "ENABLED"}
  BY <1>4, <1>5
<1> QED  BY <1>1, <1>2, <1>3, <1>5 DEF at

\* The rows that reach a class or its students have at most one at each scope.
LEMMA RowsAt ==
    ASSUME NEW scope \in Scopes, NEW class, NEW student, NEW students, scope = "STUDENT" => students = {student}
    PROVE  {p \in RowsReaching(class, students) : p[1] = scope}
           = {p \in {PlaceOf(scope, class, student)} : p \in Places /\ policy[p] # NoPolicy}
<1> DEFINE place == PlaceOf(scope, class, student)
<1>1. place[1] = scope
  BY DEF PlaceOf
<1>2. ASSUME NEW p \in RowsReaching(class, students), p[1] = scope
      PROVE  p = place /\ p \in Places /\ policy[p] # NoPolicy
  <2>1. p \in Places /\ policy[p] # NoPolicy /\ (p[1] = "CLASS" => p[2] = class) /\ (p[1] = "STUDENT" => p[2] \in students)
    BY <1>2 DEF RowsReaching
  <2>2. p = <<p[1], p[2]>> /\ p[1] \in Scopes /\ (p[1] \in {"PLATFORM", "SCHOOL"} => p[2] = Null)
    BY <2>1, PlaceParts
  <2>3. p = place
    BY <1>2, <2>1, <2>2 DEF PlaceOf, Scopes
  <2> QED  BY <2>1, <2>3
<1>3. ASSUME place \in Places, policy[place] # NoPolicy
      PROVE  place \in RowsReaching(class, students)
  <2>1. (place[1] = "CLASS" => place[2] = class) /\ (place[1] = "STUDENT" => place[2] \in students)
    BY <1>1 DEF PlaceOf
  <2> QED  BY <1>3, <2>1 DEF RowsReaching
<1> HIDE DEF place
<1> QED  BY <1>1, <1>2, <1>3 DEF place

LEMMA RowAlone ==
    ASSUME NEW rows, NEW scope \in Scopes, NEW p, {q \in rows : q[1] = scope} = {p}
    PROVE  ByScope(rows)[scope] = policy[p].state
<1>1. \A x \in {p} : x = p
  OBVIOUS
<1>2. (CHOOSE q \in {p} : TRUE) = p
  OBVIOUS
<1> QED  BY <1>2, ScopeOrderIs DEF ByScope

LEMMA NoRowThere ==
    ASSUME NEW rows, NEW scope \in Scopes, {q \in rows : q[1] = scope} = {}
    PROVE  ByScope(rows)[scope] = "INHERIT"
  BY ScopeOrderIs DEF ByScope

\* What staff are shown of a student is read from the rows the launch gate reads; without
\* the rows of drop it is the same chain, with these scopes inheriting.
LEMMA RowsAreTheChain ==
    ASSUME PathsTypeOK(Ids), NEW class \in Classes \union {Null}, NEW student \in Students, NEW drop
    PROVE  ByScope(RowsReaching(class, {student}) \ drop)
           = [scope \in Scopes |-> IF PlaceOf(scope, class, student) \in drop THEN "INHERIT"
                                   ELSE PoliciesByScope(class, student)[scope]]
<1> DEFINE rows == RowsReaching(class, {student}) \ drop
           place(scope) == PlaceOf(scope, class, student)
<1>1. ASSUME NEW scope \in Scopes
      PROVE  ByScope(rows)[scope] = IF place(scope) \in drop THEN "INHERIT" ELSE PoliciesByScope(class, student)[scope]
  <2>1. {p \in rows : p[1] = scope} = {p \in {place(scope)} : p \in Places /\ policy[p] # NoPolicy /\ p \notin drop}
    BY RowsAt
  <2>2. PoliciesByScope(class, student)[scope] = IF place(scope) \in Places THEN policy[place(scope)].state ELSE "INHERIT"
    BY ChainIs
  <2>3. CASE place(scope) \in Places /\ policy[place(scope)] # NoPolicy /\ place(scope) \notin drop
    <3> HIDE DEF place, rows
    <3>1. {p \in rows : p[1] = scope} = {place(scope)}
      BY <2>1, <2>3
    <3> QED  BY <2>2, <2>3, <3>1, RowAlone
  <2>4. CASE ~(place(scope) \in Places /\ policy[place(scope)] # NoPolicy /\ place(scope) \notin drop)
    <3> HIDE DEF place, rows
    <3>1. {p \in rows : p[1] = scope} = {}
      BY <2>1, <2>4
    <3> QED  BY <2>2, <2>4, <3>1, NoRowThere, StatesAt
  <2> QED  BY <2>3, <2>4
<1>2. ByScope(rows) = [scope \in Scopes |-> ByScope(rows)[scope]]
  BY ScopeOrderIs DEF ByScope
<1> HIDE DEF rows, place
<1> QED  BY <1>1, <1>2 DEF rows, place

LEMMA ClassRowsAreTheChain ==
    ASSUME PathsTypeOK(Ids), NEW class \in Classes, NEW students
    PROVE  ByScope({p \in RowsReaching(class, students) : p[1] # "STUDENT"}) = PoliciesByScope(class, Null)
<1> DEFINE rows == {p \in RowsReaching(class, students) : p[1] # "STUDENT"}
           place(scope) == PlaceOf(scope, class, Null)
<1>1. ASSUME NEW scope \in Scopes  PROVE ByScope(rows)[scope] = PoliciesByScope(class, Null)[scope]
  <2>1. PoliciesByScope(class, Null)[scope] = IF place(scope) \in Places THEN policy[place(scope)].state ELSE "INHERIT"
    BY ChainIs
  <2>2. CASE scope = "STUDENT"
    <3>1. place(scope) \notin Places
      BY <2>2, PlacesAre, NullOutside DEF PlaceOf
    <3>2. {p \in rows : p[1] = scope} = {}
      BY <2>2
    <3> HIDE DEF rows, place
    <3> QED  BY <2>1, <3>1, <3>2, NoRowThere
  <2>3. CASE scope # "STUDENT"
    <3>1. {p \in rows : p[1] = scope} = {p \in RowsReaching(class, students) : p[1] = scope}
      BY <2>3
    <3>2. {p \in rows : p[1] = scope} = {p \in {place(scope)} : p \in Places /\ policy[p] # NoPolicy}
      BY <2>3, <3>1, RowsAt
    <3> HIDE DEF rows, place
    <3>3. CASE place(scope) \in Places /\ policy[place(scope)] # NoPolicy
      <4>1. {p \in rows : p[1] = scope} = {place(scope)}
        BY <3>2, <3>3
      <4> QED  BY <2>1, <3>3, <4>1, RowAlone
    <3>4. CASE ~(place(scope) \in Places /\ policy[place(scope)] # NoPolicy)
      <4>1. {p \in rows : p[1] = scope} = {}
        BY <3>2, <3>4
      <4> QED  BY <2>1, <3>4, <4>1, NoRowThere, StatesAt
    <3> QED  BY <3>3, <3>4
  <2> QED  BY <2>2, <2>3
<1>2. ByScope(rows) = [scope \in Scopes |-> ByScope(rows)[scope]]
  BY ScopeOrderIs DEF ByScope
<1>3. PoliciesByScope(class, Null) = [scope \in Scopes |-> PoliciesByScope(class, Null)[scope]]
  BY ScopeOrderIs DEF PoliciesByScope
<1> HIDE DEF rows
<1> QED  BY <1>1, <1>2, <1>3 DEF rows

\* A permission below a lock is without effect.
LEMMA ShadowedIsIdle ==
    ASSUME NEW at \in Chains, NEW k \in 1 .. 4, NEW l \in 1 .. 4, l < k,
           at[ScopeOrder[k]] = "ENABLED", at[ScopeOrder[l]] \in Restrictions
    PROVE  LET without == Resolve([scope \in Scopes |-> IF scope = ScopeOrder[k] THEN "INHERIT" ELSE at[scope]])
           IN without.available = Resolve(at).available /\ without.source = Resolve(at).source
<1> DEFINE less == [scope \in Scopes |-> IF scope = ScopeOrder[k] THEN "INHERIT" ELSE at[scope]]
           locks == {j \in 1 .. 4 : at[ScopeOrder[j]] \in Restrictions}
           left == {j \in 1 .. 4 : less[ScopeOrder[j]] \in Restrictions}
<1>1. less \in Chains
  BY DEF Chains
<1>2. left = locks
  <2>1. "INHERIT" \notin Restrictions /\ "ENABLED" \notin Restrictions
    BY DEF Restrictions
  <2>2. \A j \in 1 .. 4 : less[ScopeOrder[j]] \in Restrictions <=> at[ScopeOrder[j]] \in Restrictions
    BY <2>1, ScopeOrderIs
  <2> HIDE DEF less
  <2> QED  BY <2>2
<1> HIDE DEF less
<1>3. /\ Resolve(less).available \in BOOLEAN /\ (Resolve(less).available <=> left = {})
      /\ left # {} => \E j \in left : Resolve(less).source = ScopeOrder[j] /\ \A i \in left : i <= j
  BY <1>1, ResolveIs
<1>4. /\ Resolve(at).available \in BOOLEAN /\ (Resolve(at).available <=> locks = {})
      /\ locks # {} => \E j \in locks : Resolve(at).source = ScopeOrder[j] /\ \A i \in locks : i <= j
  BY ResolveIs
<1>5. l \in locks /\ \A i \in locks : i \in Int
  OBVIOUS
<1> HIDE DEF left, locks
<1>6. PICK j \in locks : Resolve(less).source = ScopeOrder[j] /\ \A i \in locks : i <= j
  BY <1>2, <1>3, <1>5
<1>7. PICK m \in locks : Resolve(at).source = ScopeOrder[m] /\ \A i \in locks : i <= m
  BY <1>4, <1>5
<1>8. j = m
  BY <1>5, <1>6, <1>7
<1> QED  BY <1>2, <1>3, <1>4, <1>6, <1>7, <1>8 DEF less

LEMMA PreviewsHold ==
    ASSUME PathsTypeOK(Ids)
    PROVE  PreviewsAreTrue
<1>0. \A s \in Students : StudentClass[s] \in Classes \union {Null}
  BY ConstantsAssumption
<1>1. ASSUME NEW s \in Students  PROVE PreviewStudent(s) \subseteq {EffectiveFor(s)}
  <2> DEFINE rows == RowsReaching(StudentClass[s], {s})
             at == PoliciesByScope(StudentClass[s], s)
  <2>1. ASSUME NEW drop
        PROVE  ByScope(rows \ drop) = [scope \in Scopes |-> IF PlaceOf(scope, StudentClass[s], s) \in drop THEN "INHERIT" ELSE at[scope]]
    BY <1>0, RowsAreTheChain
  <2>2. at = [scope \in Scopes |-> at[scope]]
    BY ScopeOrderIs DEF PoliciesByScope
  <2> HIDE DEF rows, at
  <2>3. ASSUME NEW none, none = {}  PROVE ByScope(rows \ none) = at
    <3>1. ByScope(rows \ none) = [scope \in Scopes |-> IF PlaceOf(scope, StudentClass[s], s) \in none THEN "INHERIT" ELSE at[scope]]
      BY <2>1
    <3>2. \A scope \in Scopes : PlaceOf(scope, StudentClass[s], s) \notin none
      BY <2>3
    <3> QED  BY <2>2, <3>1, <3>2
  <2>4. rows \ {} = rows
    OBVIOUS
  <2> QED  BY <2>3, <2>4 DEF PreviewStudent, EffectiveFor, rows, at
<1>2. ASSUME NEW c \in Classes, NEW r \in PreviewClass(c), ~r.available, NEW s \in Students, StudentClass[s] = c
      PROVE  ~EffectiveFor(s).available
  <2> DEFINE above == PoliciesByScope(c, Null)
             at == PoliciesByScope(c, s)
  <2>1. r = Resolve(above)
    <3> DEFINE shown == {p \in RowsReaching(c, {t \in Students : StudentClass[t] = c}) : p[1] # "STUDENT"}
    <3>1. r = Resolve(ByScope(shown))
      BY <1>2 DEF PreviewClass
    <3> QED  BY <3>1, ClassRowsAreTheChain
  <2>2. above \in Chains /\ at \in Chains
    BY ChainIs
  <2>3. PICK j \in 1 .. 4 : above[ScopeOrder[j]] \in Restrictions
    <3> HIDE DEF above
    <3> QED  BY <1>2, <2>1, <2>2, ResolveIs
  <2>4. at[ScopeOrder[j]] = above[ScopeOrder[j]]
    <3>1. ScopeOrder[j] \in Scopes /\ "INHERIT" \notin Restrictions
      BY ScopeOrderIs DEF Restrictions
    <3> QED  BY <2>3, <3>1, ScopeOrderIs DEF PoliciesByScope
  <2>5. ~Resolve(at).available
    <3> HIDE DEF at
    <3> QED  BY <2>2, <2>3, <2>4, ResolveIs
  <2> QED  BY <1>2, <2>5 DEF EffectiveFor
<1>3. ASSUME NEW p \in Shadowed, NEW s \in Students
      PROVE  LET without == Resolve(ByScope(RowsReaching(StudentClass[s], {s}) \ {p}))
             IN without.available = EffectiveFor(s).available /\ without.source = EffectiveFor(s).source
  <2> DEFINE student == IF p[1] = "STUDENT" THEN p[2] ELSE Null
             class == CASE p[1] = "STUDENT" -> StudentClass[student] [] p[1] = "CLASS" -> p[2] [] OTHER -> Null
             its == PoliciesByScope(class, student)
             at == PoliciesByScope(StudentClass[s], s)
             less == [scope \in Scopes |-> IF PlaceOf(scope, StudentClass[s], s) \in {p} THEN "INHERIT" ELSE at[scope]]
  <2>1. p \in Places /\ p[1] \in Resolve(its).shadowed
    BY DEF Shadowed
  <2>2. /\ p = <<p[1], p[2]>> /\ p[1] \in Scopes
        /\ p[1] \in {"PLATFORM", "SCHOOL"} => p[2] = Null
        /\ p[1] = "CLASS" => p[2] \in Classes
        /\ p[1] = "STUDENT" => p[2] \in Students
    BY <2>1, PlaceParts
  <2>3. class \in Classes \union {Null} /\ student \in Students \union {Null}
    BY <1>0, <2>2
  <2>4. its \in Chains /\ at \in Chains
    BY <1>0, <2>3, ChainIs
  <2>5. PICK k \in 1 .. 4, l \in 1 .. 4 : /\ p[1] = ScopeOrder[k] /\ its[ScopeOrder[k]] = "ENABLED"
                                        /\ l < k /\ its[ScopeOrder[l]] \in Restrictions
    <3> HIDE DEF its
    <3> QED  BY <2>1, <2>4, ResolveIs
  <2>6. ByScope(RowsReaching(StudentClass[s], {s}) \ {p}) = less
    BY <1>0, RowsAreTheChain
  <2>7. at = [scope \in Scopes |-> at[scope]]
    BY ScopeOrderIs DEF PoliciesByScope
  <2>8. CASE PlaceOf(p[1], StudentClass[s], s) # p
    <3>1. \A scope \in Scopes : PlaceOf(scope, StudentClass[s], s) # p
      <4>1. \A scope \in Scopes : PlaceOf(scope, StudentClass[s], s)[1] = scope
        BY DEF PlaceOf
      <4> QED  BY <2>8, <4>1
    <3> HIDE DEF at
    <3>2. less = at
      BY <2>7, <3>1
    <3> QED  BY <2>6, <3>2 DEF EffectiveFor, at
  <2>9. CASE PlaceOf(p[1], StudentClass[s], s) = p
    <3>1. \A scope \in Scopes : PlaceOf(scope, StudentClass[s], s) = p <=> scope = ScopeOrder[k]
      <4>1. \A scope \in Scopes : PlaceOf(scope, StudentClass[s], s)[1] = scope
        BY DEF PlaceOf
      <4> QED  BY <2>5, <2>9, <4>1
    <3>2. at[ScopeOrder[k]] = its[ScopeOrder[k]] /\ at[ScopeOrder[l]] = its[ScopeOrder[l]]
      <4>1. /\ p[1] = "STUDENT" => student = s /\ class = StudentClass[s]
            /\ p[1] = "CLASS" => class = StudentClass[s]
        BY <2>2, <2>9 DEF PlaceOf
      <4>2. CASE p[1] = "STUDENT"
        BY <2>5, <4>1, <4>2
      <4>3. CASE p[1] # "STUDENT"
        <5>1. \A scope \in Scopes \ {"STUDENT"} : (scope = "CLASS" => p[1] = "CLASS") => at[scope] = its[scope]
          BY <4>1, ScopeOrderIs DEF PoliciesByScope
        <5>2. /\ ScopeOrder[k] \in Scopes \ {"STUDENT"} /\ (ScopeOrder[k] = "CLASS" => p[1] = "CLASS")
              /\ ScopeOrder[l] \in Scopes \ {"STUDENT"} /\ (ScopeOrder[l] = "CLASS" => p[1] = "CLASS")
          BY <2>5, <4>3, ScopeOrderIs
        <5> HIDE DEF at, its
        <5> QED  BY <5>1, <5>2
      <4> QED  BY <4>2, <4>3
    <3> HIDE DEF at
    <3>3. less = [scope \in Scopes |-> IF scope = ScopeOrder[k] THEN "INHERIT" ELSE at[scope]]
      BY <3>1
    <3> HIDE DEF less
    <3>4. Resolve(less).available = Resolve(at).available /\ Resolve(less).source = Resolve(at).source
      BY <2>4, <2>5, <3>2, <3>3, ShadowedIsIdle
    <3> QED  BY <2>6, <3>4 DEF EffectiveFor, at
  <2> QED  BY <2>8, <2>9
<1> QED  BY <1>1, <1>2, <1>3 DEF PreviewsAreTrue

-----------------------------------------------------------------------------
(* Theorems                                                                *)

\* From any rows of the past, whichever calls come and however they fail.
Behaviour(policies, rows, coming) ==
    Past(policies, rows) /\ SupportInit(policies, rows, coming) /\ [][Next]_vars

\* The invariant holds in every reachable state: what the calls are about, what accepted
\* proposals have done, what corrects what, and what a reviewer still knows
\* (packages/student-support).
THEOREM SupportInvariance ==
    ASSUME NEW CONSTANT policies, NEW CONSTANT rows, NEW CONSTANT coming
    PROVE  Behaviour(policies, rows, coming) => []SupportInv
<1>1. Past(policies, rows) /\ SupportInit(policies, rows, coming) => SupportInv
  BY InitSupport
<1> QED  BY <1>1, NextSupports, PTL DEF Behaviour

\* Types hold; nobody decides on their own proposal, with whichever of their roles; and
\* what supersedes an observation was made to correct it, by the same author and about
\* the same student (FacilitationProposalService.review, ObservationService.supersede).
THEOREM SupportIsSoundHolds ==
    ASSUME NEW CONSTANT policies, NEW CONSTANT rows, NEW CONSTANT coming
    PROVE  Behaviour(policies, rows, coming) => []SupportIsSound
<1>1. SupportInv => TypeOK
  BY DEF SupportInv, TablesOK, RequestInv, TypeOK, Locations
<1>2. SupportInv => NoSelfReview
  BY DEF SupportInv, EffectInv, NotOwnReviewer, NoSelfReview
<1>3. SupportInv => CorrectionsAreCorrections
  <2> SUFFICES ASSUME SupportInv, NEW i \in Ids, observation[i].by # Null, NEW by, by = observation[i].by
               PROVE  /\ by \in Calls /\ asked[by].about = i
                      /\ observation[by].student = observation[i].student /\ observation[by].author = observation[i].author
    BY DEF CorrectionsAreCorrections
  <2>1. by \in Calls /\ asked[by].about = i /\ observation[by].scope # Null
    BY DEF SupportInv, ObservationInv, ByOk
  <2>2. observation[by].student = asked[by].body.student /\ observation[by].author = AccountOf[asked[by].who]
    BY <2>1 DEF SupportInv, ObservationInv, MadeOk, Ids
  <2>3. observation[i].author = AccountOf[asked[by].who] /\ observation[i].student = asked[by].body.student
    BY <2>1, NullOutside DEF SupportInv, ObservationInv, AboutOk
  <2> QED  BY <2>1, <2>2, <2>3
<1>4. SupportInv => SupportIsSound
  BY <1>1, <1>2, <1>3 DEF SupportIsSound
<1> QED  BY <1>4, SupportInvariance, PTL

\* A proposal that was accepted has taken effect once, whichever reviews raced, died
\* after the commit or were sent again; one that was not has none (reviewInTransaction).
THEOREM AcceptedTakesEffectOnceHolds ==
    ASSUME NEW CONSTANT policies, NEW CONSTANT rows, NEW CONSTANT coming
    PROVE  Behaviour(policies, rows, coming) => []AcceptedTakesEffectOnce
<1>1. SupportInv => AcceptedTakesEffectOnce
  <2> SUFFICES ASSUME SupportInv, NEW p \in Ids
               PROVE  Cardinality(Effects(p)) = IF proposal[p].status = "ACCEPTED" /\ HasEffect(proposal[p]) THEN 1 ELSE 0
    BY DEF AcceptedTakesEffectOnce, Effects
  <2>1. EffectOk(p)
    BY DEF SupportInv, EffectInv
  <2>2. Cardinality({}) = 0 /\ \A h : Cardinality({h}) = 1
    BY FS_EmptySet, FS_Singleton
  <2> QED  BY <2>1, <2>2 DEF EffectOk
<1> QED  BY <1>1, SupportInvariance, PTL

\* Where the student has a support teacher, the class teacher decides only if the
\* support teacher was assigned after the call had looked
\* (resolveReviewableStudentProfileIds).
THEOREM SupportTeacherGoesFirstHolds ==
    ASSUME NEW CONSTANT policies, NEW CONSTANT rows, NEW CONSTANT coming
    PROVE  Behaviour(policies, rows, coming) => SupportTeacherGoesFirst
<1> DEFINE First(p) == proposal'[p].reviewer # proposal[p].reviewer /\ RoleOf[proposal'[p].reviewer] = "TEACHER" =>
                          ~HasSupportTeacher(proposal[p].student) \/ \E h \in Calls : lately[h] /\ Who(h) = proposal'[p].reviewer
<1>1. ASSUME SupportInv, NEW h \in Calls, NEW p \in Ids, proposal'[p].reviewer # proposal[p].reviewer,
             (\E who \in Staff : Routes(h, who)) \/ Services(h)
      PROVE  ReviewInTransaction(h)
  <2>1. TablesOK /\ RequestInv /\ proposal' # proposal
    BY <1>1 DEF SupportInv
  <2>2. CASE \/ Asking(h) \/ Calm \/ ReadReviewer(h) \/ CreateAssignment(h) \/ CreateEvent(h)
             \/ CreateObservation(h) \/ CompleteObservation(h) \/ MarkSuperseded(h)
             \/ CreatePolicy(h) \/ RevertToInherit(h) \/ RegisterAlternative(h)
             \/ \E who, i, status : EndAssignment(h, who, i, status)
    BY <2>1, <2>2, OthersKeepEffects
  <2>3. CASE InsertTemporary(h) \/ SupersedeProfile(h) \/ InsertProfile(h) \/ CreateOverride(h)
    BY <2>1, <2>3 DEF InsertTemporary, SupersedeProfile, InsertProfile, CreateOverride
  <2>4. ~CreateProposal(h)
    <3> SUFFICES ASSUME CreateProposal(h) PROVE FALSE
      OBVIOUS
    <3>1. call[h].at = "run" /\ proposal' = [proposal EXCEPT ![h] = NewProposal(Account(h), Body(h))]
      BY DEF CreateProposal, At
    <3>2. PICK new : new = NewProposal(Account(h), Body(h))
      OBVIOUS
    <3>3. new.reviewer = Null
      BY <3>2 DEF NewProposal, NoProposal
    <3>4. proposal[h].reviewer = Null
      BY <1>1, <3>1 DEF SupportInv, EffectInv, Early, NoProposal
    <3> QED  BY <1>1, <2>1, <3>1, <3>2, <3>3, <3>4 DEF TablesOK
  <2>5. ASSUME NEW who, NEW i \in Ids, WithdrawProposal(h, who, i) PROVE FALSE
    <3>1. proposal' = [proposal EXCEPT ![i] = [proposal[i] EXCEPT !.status = "WITHDRAWN", !.version = proposal[i].version + 1]]
      BY <2>5 DEF WithdrawProposal
    <3>2. PICK row, new : row = proposal[i] /\ new = [row EXCEPT !.status = "WITHDRAWN", !.version = row.version + 1]
      OBVIOUS
    <3>3. row \in ProposalRows /\ proposal' = [proposal EXCEPT ![i] = new]
      BY <2>1, <3>1, <3>2 DEF TablesOK
    <3>4. new.reviewer = row.reviewer
      BY <3>2, <3>3 DEF ProposalRows
    <3> QED  BY <1>1, <2>1, <3>2, <3>3, <3>4 DEF TablesOK
  <2>6. CASE Services(h)
    BY <2>2, <2>3, <2>4, <2>6, ServiceKinds
  <2>7. ASSUME NEW who \in Staff, Routes(h, who) PROVE ReviewInTransaction(h)
    BY <2>1, <2>2, <2>5, <2>7, RouteKinds
  <2> QED  BY <1>1, <2>6, <2>7
<1>2. ASSUME SupportInv, NEW h \in Calls, ReviewInTransaction(h), NEW p \in Ids, proposal'[p].reviewer # proposal[p].reviewer
      PROVE  First(p)
  <2>1. PICK q : q = Body(h).target
    OBVIOUS
  <2>2. /\ p = q /\ call[h].at = "run" /\ Op(h) = "review" /\ proposal'[p].reviewer = Who(h)
    BY <1>2, <2>1, ReviewFacts
  <2>3. RoleOf[Who(h)] = "TEACHER" => ~HasSupportTeacher(proposal[p].student) \/ lately[h]
    BY <1>2, <2>1, <2>2 DEF SupportInv, ReviewSeen
  <2> QED  BY <2>2, <2>3
<1>3. SupportInv /\ [Next]_vars => [\A p \in Ids : First(p)]_vars
  <2> SUFFICES ASSUME SupportInv, Next, NEW p \in Ids, proposal'[p].reviewer # proposal[p].reviewer PROVE First(p)
    OBVIOUS
  <2>1. PICK h \in Calls : (\E who \in Staff : Routes(h, who)) \/ Services(h)
    BY DEF Next, tableVars
  <2> QED  BY <1>1, <1>2, <2>1
<1> QED  BY <1>3, SupportInvariance, PTL DEF SupportTeacherGoesFirst, Behaviour

\* The path a student meets is what the policies say, and what staff are shown of it: a
\* restriction at any scope closes the content whatever is stored below it, the previews
\* agree with the launch gate, and a row listed as shadowed could as well be absent
\* (resolveEffectiveAvailability, previewClass, previewStudent, computeShadowed).
THEOREM PathsAreTrueHolds ==
    ASSUME NEW CONSTANT policies, NEW CONSTANT rows, NEW CONSTANT coming
    PROVE  Behaviour(policies, rows, coming) => []PathsAreTrue
<1>1. SupportInv => PathsAreTrue
  BY LocksHold, PreviewsHold DEF SupportInv, TablesOK, PathsAreTrue
<1> QED  BY <1>1, SupportInvariance, PTL
=============================================================================
