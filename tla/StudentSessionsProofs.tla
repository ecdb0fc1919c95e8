----------------------- MODULE StudentSessionsProofs -----------------------
(***************************************************************************)
(* Proofs about StudentSessions: for any visits, calls of the staff,       *)
(* aliases, limits and durations, with and without faults, from any        *)
(* enrolments and sessions that the past can have left.                    *)
(*                                                                         *)
(* The invariant has two halves.  RosterInv is about the calls of the      *)
(* staff: what each still knows of the class, the code or the enrolment    *)
(* that it has read.  LoginInv is about the visits: what each still knows  *)
(* of its session, and who may end a login.  They meet in the enrolments,  *)
(* which both write.                                                       *)
(***************************************************************************)
EXTENDS StudentSessions, ServiceCallsProofs, FiniteSetTheorems

Locations == {"run", "find", "commit", "collide", "insert", "leave"}
RosterGots == CodeIds \union Students \union EnrollmentIds

\* Until its statement has run, a call has inserted nothing.
Early == Locations \union {"idle", "begin"}

Fresh(h) ==
    call[h].at \in Early => class[h] = "ABSENT" /\ code[h] = NoCode /\ enrollment[h] = NoEnrollment

\* The body of a request that was admitted.
Sent(h) ==
    /\ call[h].op \in Ops /\ call[h].arg \in Args /\ call[h].key \in Keys
    /\ call[h].op # "create" => Target(h) \in ClassIds
    /\ call[h].op = "add" => call[h].arg.alias \in Aliases

\* What a call has read, at each of its statements.
Reads(h) ==
    /\ call[h].at \in {"find", "commit"} => call[h].op \in {"issue", "archive"} /\ class[Target(h)] # "ABSENT"
    /\ call[h].at = "commit" => call[h].got = Null \/ (call[h].got \in CodeIds /\ code[call[h].got].class = Target(h))
    /\ call[h].at \in {"collide", "insert"} => call[h].op = "add" /\ call[h].got \in Students
    /\ call[h].at = "leave" => call[h].op = "remove" /\ call[h].got \in EnrollmentIds /\ enrollment[call[h].got].status # "ABSENT"

\* A transaction on the codes of a class.
OnCodes(h, c) == call[h].at \in {"find", "commit"} /\ Target(h) = c

\* Where no two of them overlapped, the one under way has seen the code there is.
CodesOk(c) ==
    /\ \A g, h \in Calls : OnCodes(g, c) /\ OnCodes(h, c) => g = h
    /\ \A j, k \in ActiveCodes(c) : j = k
    /\ class[c] # "ACTIVE" => ActiveCodes(c) = {}
    /\ \A h \in Calls : OnCodes(h, c) =>
           /\ class[c] = "ACTIVE"
           /\ call[h].at = "commit" => \A k \in ActiveCodes(c) : k = call[h].got

EnrollmentOk(row) ==
    /\ row.status = "ABSENT" => row = NoEnrollment
    /\ row.failedPinCount >= MaxFailedPinAttempts => row.pinLockedUntil # Null

RosterInv ==
    /\ RosterTypeOK(Times)
    /\ \A h \in Calls : Fresh(h) /\ (call[h].at \notin {"idle", "done"} => Sent(h)) /\ Reads(h)
    /\ \A c \in ClassIds \ overlap : CodesOk(c)
    /\ \A e \in EnrollmentIds : EnrollmentOk(enrollment[e])
    /\ OneEnrollmentPerAlias

\* What a visit has read, at each of its statements.
VisitOk(v) ==
    /\ visit[v].at \in {"lookup", "code", "limit", "alias"} => visit[v].code \in CodeIds
    /\ visit[v].at \in {"code", "limit", "alias"} => visit[v].alias \in Aliases
    /\ visit[v].at \in {"failed", "reset", "activate", "create"} =>
           visit[v].row \in EnrollmentIds /\ enrollment[visit[v].row].status # "ABSENT"
    /\ visit[v].at \in {"resolve", "rotate", "revoke", "touch"} =>
           visit[v].session \in Visits /\ session[visit[v].session].login # Null
    /\ visit[v].at = "resolve" => visit[v].op \in {"refresh", "logout", "context", "request"}
    /\ visit[v].at # "done" => session[v] = NoSession /\ \A s \in Visits : session[s].login # v

\* A rotation or a logout past its look-up.
Ends(v, login) == visit[v].at \in {"rotate", "revoke"} /\ session[visit[v].session].login = login

\* Where no two of them overlapped, only the session that one of them found is live.
LoginOk(login) ==
    /\ \A s, t \in Visits : session[s].login = login /\ session[t].login = login =>
           /\ session[s].live /\ session[t].live => s = t
           /\ session[s].revokedReason = "USER_LOGOUT" => ~session[t].live
    /\ \A u, v \in Visits : Ends(u, login) /\ Ends(v, login) => u = v
    /\ \A v, s \in Visits : Ends(v, login) /\ session[s].login = login =>
           /\ session[s].revokedReason # "USER_LOGOUT"
           /\ s # visit[v].session => ~session[s].live

LoginInv ==
    /\ now \in 0 .. MaxTime /\ tenant \in {"ACTIVE", "SUSPENDED"} /\ window \in [Buckets -> Nat]
    /\ session \in [Visits -> SessionRows] /\ visit \in [Visits -> VisitLocals] /\ forked \subseteq Visits
    /\ \A v \in Visits : VisitOk(v)
    /\ RotationKeepsTheLimit
    /\ \A login \in Visits \ forked : LoginOk(login)

\* The enrolments and sessions of the past: what the services leave behind.
Past(rows, coming, logins) ==
    /\ rows \in [SeedEnrollments -> EnrollmentRows(Times)]
    /\ \A e \in SeedEnrollments : rows[e].status # "ABSENT" /\ EnrollmentOk(rows[e])
    /\ \A d, e \in SeedEnrollments : rows[d].class = rows[e].class /\ rows[d].alias = rows[e].alias => d = e
    /\ DOMAIN logins \subseteq Visits \ coming /\ coming \subseteq Visits
    /\ \A s \in DOMAIN logins : /\ logins[s] \in SessionRows /\ logins[s].login \in DOMAIN logins
                                /\ logins[s].expiresAt = logins[s].loginAt + AbsoluteTtl
    /\ \A s, t \in DOMAIN logins : logins[s].login = logins[t].login =>
           /\ logins[s].live /\ logins[t].live => s = t
           /\ logins[s].revokedReason = "USER_LOGOUT" => ~logins[t].live

Behaviour(rows, calls, coming, logins, time, used) ==
    /\ Past(rows, coming, logins) /\ time \in 0 .. MaxTime
    /\ RosterInit(rows, calls) /\ SessionsInit(coming, logins, time, used)
    /\ [][Next]_vars

-----------------------------------------------------------------------------
(* The steps of a call of the staff                                        *)

RosterTables == <<class, code, profile, enrollment, overlap>>

\* A step of call h leaves the other calls alone, and never takes h back.
Move(h) ==
    /\ CallsTypeOK(Ops, Args, RosterGots, Locations)' /\ OthersStay(h)
    /\ call'[h].at \in Early => call[h].at \in Early
    /\ call'[h].at \notin {"idle", "done"} => Sent(h)'

LEMMA CallsTyped ==
    ASSUME RosterInv
    PROVE  CallsTypeOK(Ops, Args, RosterGots, Locations)
  BY DEF RosterInv, RosterTypeOK, RosterGots, Locations

LEMMA CallIsTyped ==
    ASSUME RosterInv, NEW h \in Calls
    PROVE  /\ call[h] \in CallRows(Ops, Args, RosterGots, Locations)
           /\ call[h].at \in Locations \union {"idle", "begin", "complete", "fail", "done"}
           /\ Fresh(h) /\ (call[h].at \notin {"idle", "done"} => Sent(h)) /\ Reads(h)
<1>1. call[h] \in CallRows(Ops, Args, RosterGots, Locations)
  BY CallsTyped DEF CallsTypeOK
<1> QED  BY <1>1 DEF CallRows, RosterInv

LEMMA GotoMoves ==
    ASSUME RosterInv, NEW h \in Calls, call[h].at \in Locations, NEW place \in Locations \union {"complete", "fail"},
           NEW got \in RosterGots \union {Null, "retryable", "terminal"}, Goto(h, place, got), UNCHANGED idem
    PROVE  /\ Move(h) /\ call'[h].at = place /\ call'[h].got = got
           /\ call'[h].op = call[h].op /\ call'[h].arg = call[h].arg
<1>1. /\ call' \in [Calls -> CallRows(Ops, Args, RosterGots, Locations)]
      /\ OthersStay(h) /\ SameRequest(h) /\ call'[h].at = place /\ call'[h].got = got
  BY CallsTyped, GotoEffect
<1>2. CallsTypeOK(Ops, Args, RosterGots, Locations)'
  BY <1>1, CallsTyped DEF CallsTypeOK
<1>3. Sent(h)
  BY CallIsTyped DEF Locations
<1>4. Sent(h)'
  BY <1>1, <1>3 DEF SameRequest, Sent, Target
<1> QED  BY <1>1, <1>2, <1>4 DEF Move, SameRequest, Early

LEMMA ThrowMoves ==
    ASSUME RosterInv, NEW h \in Calls, call[h].at \in Locations, NEW reason, NEW retryable, Throws(h, reason, retryable), UNCHANGED idem
    PROVE  Move(h) /\ call'[h].at = "fail"
<1>1. PICK got \in {"retryable", "terminal"} : Goto(h, "fail", got)
  BY DEF Throws
<1> QED  BY <1>1, GotoMoves

LEMMA AskMoves ==
    ASSUME RosterInv, NEW h \in Calls, RosterRoutes(h)
    PROVE  Move(h) /\ call'[h].at \in {"done", "begin"}
<1>1. ASSUME NEW op \in Ops, NEW c \in ClassIds \union {Null}, NEW s \in Students \union {Null}, NEW a \in Aliases \union {Null},
             NEW key \in Keys, NEW entitled, Admit(h, op, Body(c, s, a), key, entitled, "begin"),
             op # "create" => c \in ClassIds, op = "add" => a \in Aliases
      PROVE  Move(h) /\ call'[h].at \in {"done", "begin"}
  <2>1. PICK arg : arg = Body(c, s, a)
    OBVIOUS
  <2>2. arg \in Args /\ arg.class = c /\ arg.alias = a
    BY <2>1 DEF Body, Args
  <2>3. Admit(h, op, arg, key, entitled, "begin")
    BY <1>1, <2>1
  <2>4. /\ CallsTypeOK(Ops, Args, RosterGots, Locations)' /\ OthersStay(h) /\ call[h].at = "idle"
        /\ \/ call'[h].at = "done"
           \/ call'[h].at = "begin" /\ call'[h].op = op /\ call'[h].arg = arg /\ call'[h].key = key
    <3>1. key \in Keys \union {Null} /\ "begin" \in Locations \union {"begin"}
      OBVIOUS
    <3> QED  BY <2>2, <2>3, <3>1, CallsTyped, AdmitEffect
  <2> QED  BY <1>1, <2>2, <2>4 DEF Move, Sent, Target, Early
<1>2. PICK by \in Staff, key \in Keys :
        \/ PostClasses(h, by, key)
        \/ \E c \in Known({k \in ClassIds : class[k] # "ABSENT"}, h) :
              \/ PatchClass(h, by, key, c)
              \/ PostClassArchive(h, by, key, c)
              \/ PostClassAccessCode(h, by, key, c)
              \/ \E s \in Known(profile, h) \union {Null}, a \in Aliases : PostClassStudents(h, by, key, c, s, a)
              \/ \E s \in Known(profile, h) : DeleteClassStudent(h, by, key, c, s)
  BY DEF RosterRoutes
<1>3. Known({k \in ClassIds : class[k] # "ABSENT"}, h) \subseteq ClassIds /\ Known(profile, h) \subseteq Students
  BY DEF Known, ClassIds, Students, RosterInv, RosterTypeOK
<1>4. CASE PostClasses(h, by, key)
  BY <1>1, <1>4 DEF PostClasses, NewClassRequest, Ops
<1>5. ASSUME NEW c \in ClassIds, PatchClass(h, by, key, c) PROVE Move(h) /\ call'[h].at \in {"done", "begin"}
  BY <1>1, <1>5 DEF PatchClass, RenameClass, Ops
<1>6. ASSUME NEW c \in ClassIds, PostClassArchive(h, by, key, c) PROVE Move(h) /\ call'[h].at \in {"done", "begin"}
  BY <1>1, <1>6 DEF PostClassArchive, ArchiveRequest, Ops
<1>7. ASSUME NEW c \in ClassIds, PostClassAccessCode(h, by, key, c) PROVE Move(h) /\ call'[h].at \in {"done", "begin"}
  BY <1>1, <1>7 DEF PostClassAccessCode, RegenerateClassAccessCode, Ops
<1>8. ASSUME NEW c \in ClassIds, NEW s \in Students \union {Null}, NEW a \in Aliases, PostClassStudents(h, by, key, c, s, a)
      PROVE  Move(h) /\ call'[h].at \in {"done", "begin"}
  BY <1>1, <1>8 DEF PostClassStudents, AddStudentToRoster, Ops
<1>9. ASSUME NEW c \in ClassIds, NEW s \in Students, DeleteClassStudent(h, by, key, c, s)
      PROVE  Move(h) /\ call'[h].at \in {"done", "begin"}
  BY <1>1, <1>9 DEF DeleteClassStudent, RemoveStudentFromRoster, Ops
<1> QED  BY <1>2, <1>3, <1>4, <1>5, <1>6, <1>7, <1>8, <1>9

\* The steps of the frame.
LEMMA FrameMoves ==
    ASSUME RosterInv, NEW h \in Calls,
           \/ RosterRoutes(h) \/ StatementFails(h) \/ ProcessDies(h)
           \/ BeginClassCall(h) \/ BeginAdd(h) \/ BeginRemove(h)
           \/ SettleClassCall(h) \/ SettleAdd(h) \/ SettleRemove(h)
    PROVE  Move(h) /\ call'[h].at \in {"done", "begin", "run", "fail"}
<1>1. CASE RosterRoutes(h)
  BY <1>1, AskMoves
<1>2. CASE StatementFails(h) \/ ProcessDies(h)
  <2>1. /\ CallsTypeOK(Ops, Args, RosterGots, Locations)' /\ OthersStay(h) /\ call[h].at \notin {"idle", "done"}
        /\ call'[h].at = "done" \/ (call'[h].at = "fail" /\ SameRequest(h))
    BY <1>2, CallsTyped, FaultEffect
  <2>2. Sent(h)
    BY <2>1, CallIsTyped
  <2> QED  BY <2>1, <2>2 DEF Move, SameRequest, Sent, Target, Early, Locations
<1>3. CASE BeginClassCall(h) \/ BeginAdd(h) \/ BeginRemove(h)
  <2>1. Begin(h, "run")
    BY <1>3 DEF BeginClassCall, BeginAdd, BeginRemove
  <2>2. call[h].at = "begin" /\ Sent(h)
    BY <2>1, CallIsTyped DEF Begin
  <2>3. /\ CallsTypeOK(Ops, Args, RosterGots, Locations)' /\ OthersStay(h)
        /\ \/ call'[h].at = "done"
           \/ /\ call'[h].at = "run" /\ call'[h].op = call[h].op /\ call'[h].arg = call[h].arg
              /\ call'[h].key = call[h].key
    <3>1. call[h].op \in Ops /\ call[h].arg \in Args /\ call[h].key \in Keys /\ "run" \in Locations
      BY <2>2 DEF Sent, Locations
    <3> QED  BY <2>1, <3>1, CallsTyped, BeginEffect
  <2> QED  BY <2>2, <2>3 DEF Move, Sent, Target, Early, Locations
<1>4. CASE SettleClassCall(h) \/ SettleAdd(h) \/ SettleRemove(h)
  <2>1. CompleteRecord(h) \/ FailRecord(h)
    BY <1>4 DEF SettleClassCall, SettleAdd, SettleRemove
  <2>2. CallsTypeOK(Ops, Args, RosterGots, Locations)' /\ OthersStay(h) /\ call'[h].at = "done"
    BY <2>1, CallsTyped, SettleEffect
  <2> QED  BY <2>2 DEF Move, Early, Locations
<1> QED  BY <1>1, <1>2, <1>3, <1>4

-----------------------------------------------------------------------------
(* The statements that read                                                *)

LEMMA NullApart ==
    /\ \A c \in ClassIds : c # Null
    /\ \A e \in EnrollmentIds : e # Null
    /\ \A a \in Aliases : a # Null
    /\ \A h \in Calls : h \notin SeedClasses /\ h \notin SeedEnrollments /\ h \in ClassIds /\ h \in EnrollmentIds
    /\ CodeIds = ClassIds /\ Students = EnrollmentIds
  BY RosterAssumption DEF ClassIds, CodeIds, Students, EnrollmentIds

\* The other calls know what they knew while the rows they know of stay.
LEMMA OthersRead ==
    ASSUME RosterInv, NEW h \in Calls, Move(h), NEW g \in Calls \ {h},
           \A c \in ClassIds : class[c] # "ABSENT" => class'[c] # "ABSENT",
           \A k \in CodeIds : code[k].class # Null => code'[k].class = code[k].class,
           \A e \in EnrollmentIds : enrollment[e].status # "ABSENT" => enrollment'[e].status # "ABSENT"
    PROVE  (call'[g].at \notin {"idle", "done"} => Sent(g)') /\ Reads(g)'
<1>1. call'[g] = call[g]
  BY DEF Move, OthersStay
<1>2. (call[g].at \notin {"idle", "done"} => Sent(g)) /\ Reads(g)
  BY CallIsTyped
<1>3. call'[g].at \notin {"idle", "done"} => Sent(g)'
  BY <1>1, <1>2 DEF Sent, Target
<1>4. call[g].at \in {"find", "commit"} => Target(g) \in ClassIds
  BY <1>2 DEF Reads, Sent
<1>5. Reads(g)'
  BY <1>1, <1>2, <1>4, NullApart DEF Reads, Target
<1> QED  BY <1>3, <1>5

\* A statement that writes neither classes, nor codes, nor enrolments.
LEMMA ReadKeeps ==
    ASSUME RosterInv, NEW h \in Calls, Move(h), UNCHANGED <<class, code, enrollment>>,
           profile' \subseteq Students, overlap' \subseteq ClassIds, Reads(h)',
           \A c \in ClassIds \ overlap' : CodesOk(c)'
    PROVE  RosterInv'
<1>1. RosterTypeOK(Times)'
  BY DEF RosterInv, RosterTypeOK, Move, RosterGots, Locations
<1>2. ASSUME NEW g \in Calls  PROVE Fresh(g)'
  <2>1. Fresh(g)
    BY CallIsTyped
  <2> QED  BY <2>1 DEF Fresh, Move, OthersStay
<1>3. ASSUME NEW g \in Calls  PROVE (call'[g].at \notin {"idle", "done"} => Sent(g)') /\ Reads(g)'
  <2>1. CASE g = h
    BY <2>1 DEF Move
  <2>2. CASE g # h
    BY <2>2, OthersRead
  <2> QED  BY <2>1, <2>2
<1>4. (\A e \in EnrollmentIds : EnrollmentOk(enrollment'[e])) /\ OneEnrollmentPerAlias'
  BY DEF RosterInv, OneEnrollmentPerAlias
<1> QED  BY <1>1, <1>2, <1>3, <1>4 DEF RosterInv

\* What a call finds out about other things than codes.
LEMMA CodesQuiet ==
    ASSUME RosterInv, NEW h \in Calls, Move(h), UNCHANGED <<class, code>>, call'[h].at \notin {"find", "commit"},
           NEW c \in ClassIds \ overlap
    PROVE  CodesOk(c)'
<1>1. CodesOk(c) /\ ActiveCodes(c)' = ActiveCodes(c)
  BY DEF RosterInv, ActiveCodes
<1>2. \A g \in Calls : OnCodes(g, c)' => OnCodes(g, c) /\ call'[g] = call[g]
  BY DEF OnCodes, Move, OthersStay, Target
<1> HIDE DEF Move
<1> QED  BY <1>1, <1>2 DEF CodesOk

\* A call that has not read anything, or has done with it.
LEMMA FrameKeeps ==
    ASSUME RosterInv, NEW h \in Calls, UNCHANGED RosterTables,
           Move(h), call'[h].at \in {"done", "begin", "run", "complete", "fail"}
    PROVE  RosterInv'
<1>1. UNCHANGED <<class, code, enrollment>> /\ profile' = profile /\ overlap' = overlap
  BY DEF RosterTables
<1>2. Reads(h)'
  BY DEF Reads
<1>3. \A c \in ClassIds \ overlap' : CodesOk(c)'
  BY <1>1, CodesQuiet
<1> QED  BY <1>1, <1>2, <1>3, ReadKeeps DEF RosterInv, RosterTypeOK

LEMMA ReadClassKeeps ==
    ASSUME RosterInv, NEW h \in Calls, ReadClass(h)
    PROVE  RosterInv'
<1>1. /\ call[h].op \in {"issue", "archive"} /\ call[h].at = "run" /\ UNCHANGED <<class, code, profile, enrollment, idem>>
      /\ overlap' = IF \E g \in Calls \ {h} : /\ call[g].op \in {"issue", "archive"}
                                              /\ call[g].at \in {"find", "commit"}
                                              /\ Target(g) = Target(h)
                    THEN overlap \union {Target(h)} ELSE overlap
  BY DEF ReadClass, At
<1>2. Target(h) \in ClassIds /\ class[Target(h)] \in ClassStatuses
  BY <1>1, CallIsTyped DEF Sent, RosterInv, RosterTypeOK
<1>3. \/ \E reason : Throws(h, reason, FALSE)
      \/ class[Target(h)] = "ACTIVE" /\ Goto(h, "find", Null)
  BY <1>1, <1>2 DEF ReadClass, ClassStatuses
<1>4. call[h].at \in Locations
  BY <1>1 DEF Locations
<1>5. CASE \E reason : Throws(h, reason, FALSE)
  <2>1. Move(h) /\ call'[h].at = "fail"
    BY <1>1, <1>4, <1>5, ThrowMoves
  <2>2. Reads(h)'
    BY <2>1 DEF Reads
  <2>3. overlap \subseteq overlap' /\ overlap' \subseteq ClassIds
    BY <1>1, <1>2 DEF RosterInv, RosterTypeOK
  <2>4. \A c \in ClassIds \ overlap' : CodesOk(c)'
    BY <1>1, <2>1, <2>3, CodesQuiet
  <2> QED  BY <1>1, <2>1, <2>2, <2>3, <2>4, ReadKeeps DEF RosterInv, RosterTypeOK
<1>6. CASE class[Target(h)] = "ACTIVE" /\ Goto(h, "find", Null)
  <2>1. Move(h) /\ call'[h].at = "find" /\ call'[h].op = call[h].op /\ call'[h].arg = call[h].arg
    <3>1. "find" \in Locations
      BY DEF Locations
    <3> QED  BY <1>1, <1>4, <1>6, <3>1, GotoMoves
  <2>2. Reads(h)'
    BY <1>1, <1>6, <2>1 DEF Reads, Target
  <2>3. overlap \subseteq overlap' /\ overlap' \subseteq ClassIds
    BY <1>1, <1>2 DEF RosterInv, RosterTypeOK
  <2>4. ASSUME NEW c \in ClassIds \ overlap'  PROVE CodesOk(c)'
    <3>1. CodesOk(c) /\ ActiveCodes(c)' = ActiveCodes(c)
      BY <1>1, <2>3 DEF RosterInv, ActiveCodes
    <3>2. \A g \in Calls \ {h} : OnCodes(g, c)' => OnCodes(g, c) /\ call'[g] = call[g]
      BY <2>1 DEF OnCodes, Move, OthersStay, Target
    <3>3. OnCodes(h, c)' => c = Target(h) /\ call'[h].at # "commit"
      BY <2>1 DEF OnCodes, Target
    <3>4. \A g \in Calls \ {h} : OnCodes(g, c) => c # Target(h)
      <4>1. \A g \in Calls \ {h} : OnCodes(g, c) => call[g].op \in {"issue", "archive"} /\ call[g].at \in {"find", "commit"} /\ Target(g) = c
        BY CallIsTyped DEF OnCodes, Reads
      <4> QED  BY <1>1, <4>1
    <3> HIDE DEF OnCodes, ActiveCodes, Move
    <3> QED  BY <1>1, <1>6, <3>1, <3>2, <3>3, <3>4 DEF CodesOk
  <2> QED  BY <1>1, <2>1, <2>2, <2>3, <2>4, ReadKeeps DEF RosterInv, RosterTypeOK
<1> QED  BY <1>3, <1>5, <1>6

LEMMA FindActiveCodeKeeps ==
    ASSUME RosterInv, NEW h \in Calls, FindActiveCode(h)
    PROVE  RosterInv'
<1>1. /\ call[h].op \in {"issue", "archive"} /\ call[h].at = "find" /\ UNCHANGED <<class, code, profile, enrollment, overlap, idem>>
      /\ call[h].at \in Locations
  BY DEF FindActiveCode, At, Locations
<1>2. PICK got \in CodeIds \union {Null} : /\ Goto(h, "commit", got)
                                           /\ got \in ActiveCodes(Target(h)) \/ (got = Null /\ ActiveCodes(Target(h)) = {})
  BY DEF FindActiveCode, ActiveCodes
<1>3. Move(h) /\ call'[h].at = "commit" /\ call'[h].got = got /\ call'[h].op = call[h].op /\ call'[h].arg = call[h].arg
  <2>1. /\ "commit" \in Locations \union {"complete", "fail"}
        /\ got \in RosterGots \union {Null, "retryable", "terminal"}
    BY DEF Locations, RosterGots
  <2> QED  BY <1>1, <1>2, <2>1, GotoMoves
<1>4. Reads(h)'
  <2>1. class[Target(h)] # "ABSENT"
    BY <1>1, CallIsTyped DEF Reads
  <2> QED  BY <1>1, <1>2, <1>3, <2>1 DEF Reads, ActiveCodes, Target
<1>5. ASSUME NEW c \in ClassIds \ overlap'  PROVE CodesOk(c)'
  <2>1. CodesOk(c) /\ ActiveCodes(c)' = ActiveCodes(c)
    BY <1>1 DEF RosterInv, ActiveCodes
  <2>2. \A g \in Calls \ {h} : OnCodes(g, c)' => OnCodes(g, c) /\ call'[g] = call[g]
    BY <1>3 DEF OnCodes, Move, OthersStay, Target
  <2>3. OnCodes(h, c)' => OnCodes(h, c) /\ c = Target(h)
    BY <1>1, <1>3 DEF OnCodes, Target
  <2>4. c = Target(h) => \A k \in ActiveCodes(c) : k = got
    BY <1>2, <2>1 DEF CodesOk
  <2> HIDE DEF OnCodes, ActiveCodes, Move
  <2> QED  BY <1>1, <1>3, <2>1, <2>2, <2>3, <2>4 DEF CodesOk
<1> QED  BY <1>1, <1>3, <1>4, <1>5, ReadKeeps DEF RosterInv, RosterTypeOK

LEMMA UpdateClassKeeps ==
    ASSUME RosterInv, NEW h \in Calls, UpdateClass(h)
    PROVE  RosterInv'
<1>1. call[h].at = "run" /\ UNCHANGED RosterTables /\ UNCHANGED idem
  BY DEF UpdateClass, At, RosterTables
<1>2. call[h].at \in Locations /\ Null \in RosterGots \union {Null, "retryable", "terminal"} /\ "complete" \in Locations \union {"complete", "fail"}
  BY <1>1 DEF Locations
<1>3. Throws(h, "CLASS_ACCESS_DENIED", FALSE) \/ Goto(h, "complete", Null)
  BY DEF UpdateClass
<1>4. Move(h) /\ call'[h].at \in {"fail", "complete"}
  BY <1>1, <1>2, <1>3, ThrowMoves, GotoMoves
<1> QED  BY <1>1, <1>4, FrameKeeps

LEMMA AddStudentProfileKeeps ==
    ASSUME RosterInv, NEW h \in Calls, AddStudentProfile(h)
    PROVE  RosterInv'
<1>1. /\ call[h].op = "add" /\ call[h].at = "run" /\ UNCHANGED <<class, code, enrollment, overlap, idem>>
      /\ call[h].at \in Locations
  BY DEF AddStudentProfile, At, Locations
<1>2. profile' \subseteq Students
  BY NullApart DEF AddStudentProfile, NewProfile, RosterInv, RosterTypeOK
<1>3. \/ \E reason : Throws(h, reason, FALSE)
      \/ \E s \in Students : Goto(h, "collide", s)
  BY NullApart DEF AddStudentProfile, RosterInv, RosterTypeOK
<1>4. \/ Move(h) /\ call'[h].at = "fail"
      \/ Move(h) /\ call'[h].at = "collide" /\ call'[h].got \in Students /\ call'[h].op = "add"
  <2>1. ASSUME NEW s \in Students, Goto(h, "collide", s)
        PROVE  Move(h) /\ call'[h].at = "collide" /\ call'[h].got = s /\ call'[h].op = call[h].op
    <3>1. /\ "collide" \in Locations \union {"complete", "fail"}
          /\ s \in RosterGots \union {Null, "retryable", "terminal"}
      BY DEF Locations, RosterGots
    <3> QED  BY <1>1, <2>1, <3>1, GotoMoves
  <2>2. CASE \E reason : Throws(h, reason, FALSE)
    BY <1>1, <2>2, ThrowMoves
  <2> QED  BY <1>1, <1>3, <2>1, <2>2
<1>5. Reads(h)'
  BY <1>4 DEF Reads
<1>6. \A c \in ClassIds \ overlap' : CodesOk(c)'
  BY <1>1, <1>4, CodesQuiet
<1> QED  BY <1>1, <1>2, <1>4, <1>5, <1>6, ReadKeeps DEF RosterInv, RosterTypeOK

LEMMA CheckCollisionsKeeps ==
    ASSUME RosterInv, NEW h \in Calls, CheckCollisions(h)
    PROVE  RosterInv'
<1>1. /\ call[h].op = "add" /\ call[h].at = "collide" /\ UNCHANGED <<class, code, profile, enrollment, overlap, idem>>
      /\ call[h].at \in Locations
  BY DEF CheckCollisions, At, Locations
<1>2. call[h].got \in Students
  BY <1>1, CallIsTyped DEF Reads
<1>3. Throws(h, "STUDENT_ALREADY_ENROLLED", FALSE) \/ Goto(h, "insert", call[h].got)
  BY DEF CheckCollisions
<1>4. \/ Move(h) /\ call'[h].at = "fail"
      \/ Move(h) /\ call'[h].at = "insert" /\ call'[h].got \in Students /\ call'[h].op = "add"
  <2>1. CASE Goto(h, "insert", call[h].got)
    <3>1. /\ "insert" \in Locations \union {"complete", "fail"}
          /\ call[h].got \in RosterGots \union {Null, "retryable", "terminal"}
      BY <1>2 DEF Locations, RosterGots
    <3> QED  BY <1>1, <1>2, <2>1, <3>1, GotoMoves
  <2>2. CASE Throws(h, "STUDENT_ALREADY_ENROLLED", FALSE)
    BY <1>1, <2>2, ThrowMoves
  <2> QED  BY <1>3, <2>1, <2>2
<1>5. Reads(h)'
  BY <1>4 DEF Reads
<1>6. \A c \in ClassIds \ overlap' : CodesOk(c)'
  BY <1>1, <1>4, CodesQuiet
<1> QED  BY <1>1, <1>4, <1>5, <1>6, ReadKeeps DEF RosterInv, RosterTypeOK

\* A row that is found in a class is there.
LEMMA FoundIsThere ==
    ASSUME RosterInv, NEW e \in EnrollmentIds, enrollment[e].class # Null \/ enrollment[e].alias # Null
    PROVE  enrollment[e].status # "ABSENT"
<1>1. EnrollmentOk(enrollment[e])
  BY DEF RosterInv
<1> QED  BY <1>1 DEF EnrollmentOk, NoEnrollment

LEMMA ReadEnrollmentKeeps ==
    ASSUME RosterInv, NEW h \in Calls, ReadEnrollment(h)
    PROVE  RosterInv'
<1>1. /\ call[h].op = "remove" /\ call[h].at = "run" /\ UNCHANGED <<class, code, profile, enrollment, overlap, idem>>
      /\ call[h].at \in Locations
  BY DEF ReadEnrollment, At, Locations
<1>2. Target(h) \in ClassIds
  BY <1>1, CallIsTyped DEF Sent
<1>3. \/ \E reason : Throws(h, reason, FALSE)
      \/ \E e \in EnrollmentIds : enrollment[e].class = Target(h) /\ Goto(h, "leave", e)
  BY DEF ReadEnrollment, InClass
<1>4. \/ Move(h) /\ call'[h].at = "fail"
      \/ /\ Move(h) /\ call'[h].at = "leave" /\ call'[h].op = "remove"
         /\ call'[h].got \in EnrollmentIds /\ enrollment[call'[h].got].status # "ABSENT"
  <2>1. ASSUME NEW e \in EnrollmentIds, Goto(h, "leave", e)
        PROVE  Move(h) /\ call'[h].at = "leave" /\ call'[h].got = e /\ call'[h].op = call[h].op
    <3>1. /\ "leave" \in Locations \union {"complete", "fail"}
          /\ e \in RosterGots \union {Null, "retryable", "terminal"}
      BY DEF Locations, RosterGots
    <3> QED  BY <1>1, <2>1, <3>1, GotoMoves
  <2>2. \A e \in EnrollmentIds : enrollment[e].class = Target(h) => enrollment[e].status # "ABSENT"
    BY <1>2, FoundIsThere, NullApart
  <2>3. CASE \E reason : Throws(h, reason, FALSE)
    BY <1>1, <2>3, ThrowMoves
  <2> QED  BY <1>1, <1>3, <2>1, <2>2, <2>3
<1>5. Reads(h)'
  BY <1>1, <1>4 DEF Reads
<1>6. \A c \in ClassIds \ overlap' : CodesOk(c)'
  BY <1>1, <1>4, CodesQuiet
<1> QED  BY <1>1, <1>4, <1>5, <1>6, ReadKeeps DEF RosterInv, RosterTypeOK

-----------------------------------------------------------------------------
(* The statements that write classes and codes                             *)

\* A call whose statement has run is on its way to complete().
LEMMA DoneMoves ==
    ASSUME RosterInv, NEW h \in Calls, call[h].at \in Locations, Goto(h, "complete", Null), UNCHANGED idem
    PROVE  Move(h) /\ call'[h].at = "complete" /\ Reads(h)'
<1>1. Move(h) /\ call'[h].at = "complete"
  <2>1. "complete" \in Locations \union {"complete", "fail"} /\ Null \in RosterGots \union {Null, "retryable", "terminal"}
    OBVIOUS
  <2> QED  BY <2>1, GotoMoves
<1> QED  BY <1>1 DEF Reads

LEMMA OthersOnCodes ==
    ASSUME NEW h \in Calls, Move(h), call'[h].at = "complete"
    PROVE  \A g \in Calls, c \in ClassIds : OnCodes(g, c)' => g # h /\ OnCodes(g, c) /\ call'[g] = call[g]
  BY DEF OnCodes, Move, OthersStay, Target

\* A statement that leaves profiles and enrolments alone.
LEMMA CodeWriteKeeps ==
    ASSUME RosterInv, NEW h \in Calls, call[h].at \in Locations, Goto(h, "complete", Null),
           UNCHANGED <<profile, enrollment, overlap, idem>>,
           class' \in [ClassIds -> ClassStatuses], code' \in [CodeIds -> CodeRows],
           \A c \in ClassIds : class[c] # "ABSENT" => class'[c] # "ABSENT",
           \A k \in CodeIds : code[k].class # Null => code'[k].class = code[k].class,
           \A g \in Calls \ {h} : Fresh(g) => Fresh(g)',
           \A c \in ClassIds \ overlap : CodesOk(c)'
    PROVE  RosterInv'
<1>1. Move(h) /\ call'[h].at = "complete" /\ Reads(h)'
  BY DoneMoves
<1>2. RosterTypeOK(Times)'
  BY <1>1 DEF RosterInv, RosterTypeOK, Move, RosterGots, Locations
<1>3. ASSUME NEW g \in Calls  PROVE Fresh(g)'
  <2>1. CASE g = h
    BY <1>1, <2>1 DEF Fresh, Early, Locations
  <2>2. CASE g # h
    BY <2>2, CallIsTyped
  <2> QED  BY <2>1, <2>2
<1>4. ASSUME NEW g \in Calls  PROVE (call'[g].at \notin {"idle", "done"} => Sent(g)') /\ Reads(g)'
  <2>1. CASE g = h
    BY <1>1, <2>1 DEF Move
  <2>2. CASE g # h
    BY <1>1, <2>2, OthersRead
  <2> QED  BY <2>1, <2>2
<1>5. (\A e \in EnrollmentIds : EnrollmentOk(enrollment'[e])) /\ OneEnrollmentPerAlias'
  BY DEF RosterInv, OneEnrollmentPerAlias
<1> QED  BY <1>2, <1>3, <1>4, <1>5 DEF RosterInv

LEMMA CreateClassKeeps ==
    ASSUME RosterInv, NEW h \in Calls, CreateClass(h)
    PROVE  RosterInv'
<1>1. /\ call[h].at \in Locations /\ Goto(h, "complete", Null) /\ UNCHANGED <<profile, enrollment, overlap, idem>>
      /\ class' = [class EXCEPT ![h] = "ACTIVE"] /\ code' = [code EXCEPT ![h] = NewCode(h)]
  BY DEF CreateClass, At, Locations
<1>2. /\ class \in [ClassIds -> ClassStatuses] /\ code \in [CodeIds -> CodeRows] /\ h \in ClassIds /\ h \in CodeIds
      /\ CodeIds = ClassIds
  BY NullApart DEF RosterInv, RosterTypeOK
<1>3. class[h] = "ABSENT" /\ code[h].class = Null /\ code[h].status = "ABSENT"
  BY <1>1, CallIsTyped DEF Fresh, Early, NoCode
<1>4. PICK new : new = NewCode(h)
  OBVIOUS
<1>5. new \in CodeRows /\ new.status = "ACTIVE" /\ new.class = h
  BY <1>2, <1>4 DEF NewCode, CodeRows
<1>6. /\ class' \in [ClassIds -> ClassStatuses] /\ code' \in [CodeIds -> CodeRows]
      /\ class'[h] = "ACTIVE" /\ code'[h] = new
      /\ \A c \in ClassIds \ {h} : class'[c] = class[c] /\ code'[c] = code[c]
  BY <1>1, <1>2, <1>4, <1>5 DEF ClassStatuses
<1>7. \A k \in CodeIds : code[k].class # Null => code'[k].class = code[k].class
  BY <1>2, <1>3, <1>6
<1>8. Move(h) /\ call'[h].at = "complete"
  BY <1>1, DoneMoves
<1>9. \A g \in Calls \ {h} : Fresh(g) => Fresh(g)'
  BY <1>1, <1>6, <1>8, NullApart DEF Fresh, Move, OthersStay
<1>10. ASSUME NEW c \in ClassIds \ overlap  PROVE CodesOk(c)'
  <2>1. CodesOk(c)
    BY DEF RosterInv
  <2>2. \A g \in Calls : OnCodes(g, c)' => OnCodes(g, c) /\ call'[g] = call[g]
    BY <1>8, OthersOnCodes
  <2>3. CASE c = h
    <3>1. ActiveCodes(h) = {} /\ \A g \in Calls : ~OnCodes(g, h)
      BY <1>3, <2>1, <2>3 DEF CodesOk
    <3>2. ActiveCodes(h)' = {h}
      BY <1>2, <1>5, <1>6, <3>1 DEF ActiveCodes
    <3> QED  BY <1>6, <2>2, <2>3, <3>1, <3>2 DEF CodesOk
  <2>4. CASE c # h
    <3>1. ActiveCodes(c)' = ActiveCodes(c)
      BY <1>2, <1>3, <1>5, <1>6, <2>4 DEF ActiveCodes
    <3> HIDE DEF OnCodes, ActiveCodes
    <3> QED  BY <1>6, <2>1, <2>2, <2>4, <3>1 DEF CodesOk
  <2> QED  BY <2>3, <2>4
<1> QED  BY <1>1, <1>6, <1>7, <1>9, <1>10, CodeWriteKeeps

\* What the transaction of an issue or an archive does to the current code.
LEMMA RevokeEffect ==
    ASSUME NEW codes \in [CodeIds -> CodeRows], NEW existing \in CodeIds \union {Null}
    PROVE  /\ Revoke(codes, existing) \in [CodeIds -> CodeRows]
           /\ \A k \in CodeIds : /\ Revoke(codes, existing)[k].class = codes[k].class
                                 /\ k = existing => Revoke(codes, existing)[k].status = "REVOKED"
                                 /\ k # existing => Revoke(codes, existing)[k] = codes[k]
<1>1. Null \notin CodeIds
  BY NullApart
<1>2. CASE existing = Null
  BY <1>1, <1>2 DEF Revoke
<1>3. CASE existing \in CodeIds
  <2>1. PICK row \in CodeRows : row = codes[existing]
    BY <1>3
  <2>2. PICK new : new = [row EXCEPT !.status = "REVOKED"]
    OBVIOUS
  <2>3. new \in CodeRows /\ new.status = "REVOKED" /\ new.class = row.class
    BY <2>2 DEF CodeRows
  <2>4. Revoke(codes, existing) = [codes EXCEPT ![existing] = new]
    BY <1>1, <1>3, <2>1, <2>2 DEF Revoke
  <2> QED  BY <1>3, <2>1, <2>3, <2>4
<1> QED  BY <1>2, <1>3

LEMMA CommitFacts ==
    ASSUME RosterInv, NEW h \in Calls, call[h].at = "commit"
    PROVE  /\ Target(h) \in ClassIds /\ OnCodes(h, Target(h)) /\ call[h].got \in CodeIds \union {Null}
           /\ call[h].got # Null => code[call[h].got].class = Target(h)
           /\ class[Target(h)] # "ABSENT" /\ code[h] = NoCode
<1>1. Sent(h) /\ Reads(h) /\ Fresh(h)
  BY CallIsTyped
<1>2. Target(h) \in ClassIds /\ OnCodes(h, Target(h))
  BY <1>1 DEF Sent, Reads, OnCodes
<1>3. code[h] = NoCode
  BY <1>1 DEF Fresh, Early, Locations
<1> QED  BY <1>1, <1>2, <1>3 DEF Reads

LEMMA IssueAccessCodeKeeps ==
    ASSUME RosterInv, NEW h \in Calls, IssueAccessCode(h)
    PROVE  RosterInv'
<1> DEFINE c0 == Target(h)
           got == call[h].got
<1>1. /\ call[h].at = "commit" /\ call[h].at \in Locations /\ Goto(h, "complete", Null)
      /\ UNCHANGED <<class, profile, enrollment, overlap, idem>>
      /\ code' = [Revoke(code, got) EXCEPT ![h] = NewCode(c0)]
  BY DEF IssueAccessCode, At, Locations
<1>2. /\ c0 \in ClassIds /\ OnCodes(h, c0) /\ got \in CodeIds \union {Null} /\ (got # Null => code[got].class = c0)
      /\ code[h] = NoCode
  BY <1>1, CommitFacts
<1>3. code \in [CodeIds -> CodeRows] /\ h \in CodeIds /\ CodeIds = ClassIds /\ class \in [ClassIds -> ClassStatuses]
  BY NullApart DEF RosterInv, RosterTypeOK
<1>4. PICK new : new = NewCode(c0)
  OBVIOUS
<1>5. new \in CodeRows /\ new.status = "ACTIVE" /\ new.class = c0 /\ code[h].class = Null /\ c0 # Null
  BY <1>2, <1>4, NullApart DEF NewCode, CodeRows, NoCode
<1>6. got # h
  BY <1>2, <1>3, <1>5, NullApart
<1>7. PICK revoked : revoked = Revoke(code, got)
  OBVIOUS
<1>8. /\ revoked \in [CodeIds -> CodeRows]
      /\ \A k \in CodeIds : /\ revoked[k].class = code[k].class
                            /\ k = got => revoked[k].status = "REVOKED"
                            /\ k # got => revoked[k] = code[k]
  BY <1>2, <1>3, <1>7, RevokeEffect
<1>9. /\ code' \in [CodeIds -> CodeRows] /\ code'[h] = new
      /\ \A k \in CodeIds \ {h} : code'[k] = revoked[k]
  BY <1>1, <1>3, <1>4, <1>5, <1>7, <1>8
<1>10. \A k \in CodeIds : code[k].class # Null => code'[k].class = code[k].class
  BY <1>5, <1>8, <1>9
<1>11. Move(h) /\ call'[h].at = "complete"
  BY <1>1, DoneMoves
<1>12. ASSUME NEW g \in Calls \ {h}, Fresh(g)  PROVE Fresh(g)'
  <2>1. g \in CodeIds /\ call'[g] = call[g]
    BY <1>11, NullApart DEF Move, OthersStay
  <2>2. code[g] = NoCode => g # got
    BY <1>2, <1>5, <2>1, NullApart DEF NoCode
  <2>3. code[g] = NoCode => code'[g] = NoCode
    BY <1>8, <1>9, <2>1, <2>2
  <2> QED  BY <1>1, <1>12, <2>1, <2>3 DEF Fresh
<1>13. ASSUME NEW c \in ClassIds \ overlap  PROVE CodesOk(c)'
  <2>1. CodesOk(c)
    BY DEF RosterInv
  <2>2. \A g \in Calls : OnCodes(g, c)' => g # h /\ OnCodes(g, c) /\ call'[g] = call[g]
    BY <1>11, OthersOnCodes
  <2>3. CASE c = c0
    <3>1. class[c] = "ACTIVE" /\ (\A k \in ActiveCodes(c) : k = got) /\ \A g \in Calls : ~OnCodes(g, c)'
      BY <1>1, <1>2, <2>1, <2>2, <2>3 DEF CodesOk
    <3>2. \A k \in ActiveCodes(c)' : k = h
      BY <1>8, <1>9, <3>1 DEF ActiveCodes
    <3> HIDE DEF OnCodes, ActiveCodes
    <3> QED  BY <1>1, <3>1, <3>2 DEF CodesOk
  <2>4. CASE c # c0
    <3>1. ActiveCodes(c)' = ActiveCodes(c)
      BY <1>2, <1>3, <1>5, <1>8, <1>9, <2>4, NullApart DEF ActiveCodes
    <3> HIDE DEF OnCodes, ActiveCodes
    <3> QED  BY <1>1, <2>1, <2>2, <3>1 DEF CodesOk
  <2> QED  BY <2>3, <2>4
<1> QED  BY <1>1, <1>3, <1>9, <1>10, <1>12, <1>13, CodeWriteKeeps

LEMMA ArchiveClassKeeps ==
    ASSUME RosterInv, NEW h \in Calls, ArchiveClass(h)
    PROVE  RosterInv'
<1> DEFINE c0 == Target(h)
           got == call[h].got
<1>1. /\ call[h].at = "commit" /\ call[h].at \in Locations /\ Goto(h, "complete", Null)
      /\ UNCHANGED <<profile, enrollment, overlap, idem>>
      /\ class' = [class EXCEPT ![c0] = "ARCHIVED"] /\ code' = Revoke(code, got)
  BY DEF ArchiveClass, SetArchived, At, Locations
<1>2. /\ c0 \in ClassIds /\ OnCodes(h, c0) /\ got \in CodeIds \union {Null} /\ (got # Null => code[got].class = c0)
      /\ class[c0] # "ABSENT"
  BY <1>1, CommitFacts
<1>3. code \in [CodeIds -> CodeRows] /\ CodeIds = ClassIds /\ class \in [ClassIds -> ClassStatuses]
  BY NullApart DEF RosterInv, RosterTypeOK
<1>4. /\ code' \in [CodeIds -> CodeRows]
      /\ \A k \in CodeIds : /\ code'[k].class = code[k].class
                            /\ k = got => code'[k].status = "REVOKED"
                            /\ k # got => code'[k] = code[k]
  BY <1>1, <1>2, <1>3, RevokeEffect
<1>5. /\ class' \in [ClassIds -> ClassStatuses] /\ class'[c0] = "ARCHIVED"
      /\ \A c \in ClassIds \ {c0} : class'[c] = class[c]
  BY <1>1, <1>2, <1>3 DEF ClassStatuses
<1>6. Move(h) /\ call'[h].at = "complete"
  BY <1>1, DoneMoves
<1>7. ASSUME NEW g \in Calls \ {h}, Fresh(g)  PROVE Fresh(g)'
  <2>1. g \in ClassIds /\ call'[g] = call[g]
    BY <1>6, NullApart DEF Move, OthersStay
  <2>2. class[g] = "ABSENT" => class'[g] = "ABSENT"
    BY <1>2, <1>5, <2>1
  <2>3. code[g] = NoCode => code'[g] = NoCode
    BY <1>2, <1>3, <1>4, <2>1, NullApart DEF NoCode
  <2> QED  BY <1>1, <1>7, <2>1, <2>2, <2>3 DEF Fresh
<1>8. ASSUME NEW c \in ClassIds \ overlap  PROVE CodesOk(c)'
  <2>1. CodesOk(c)
    BY DEF RosterInv
  <2>2. \A g \in Calls : OnCodes(g, c)' => g # h /\ OnCodes(g, c) /\ call'[g] = call[g]
    BY <1>6, OthersOnCodes
  <2>3. CASE c = c0
    <3>1. (\A k \in ActiveCodes(c) : k = got) /\ \A g \in Calls : ~OnCodes(g, c)'
      BY <1>1, <1>2, <2>1, <2>2, <2>3 DEF CodesOk
    <3>2. ActiveCodes(c)' = {}
      BY <1>4, <3>1 DEF ActiveCodes
    <3> HIDE DEF OnCodes
    <3> QED  BY <3>1, <3>2 DEF CodesOk
  <2>4. CASE c # c0
    <3>1. ActiveCodes(c)' = ActiveCodes(c)
      BY <1>2, <1>3, <1>4, <2>4, NullApart DEF ActiveCodes
    <3> HIDE DEF OnCodes, ActiveCodes
    <3> QED  BY <1>5, <2>1, <2>2, <2>4, <3>1 DEF CodesOk
  <2> QED  BY <2>3, <2>4
<1> QED  BY <1>1, <1>4, <1>5, <1>7, <1>8, CodeWriteKeeps

-----------------------------------------------------------------------------
(* The statements that write enrolments                                    *)

\* A row that is there is written over, and keeps its class and its alias.
Rewrites(e, row) ==
    /\ enrollment[e].status # "ABSENT" /\ row.status # "ABSENT"
    /\ row \in EnrollmentRows(Times) /\ EnrollmentOk(row)
    /\ row.class = enrollment[e].class /\ row.alias = enrollment[e].alias
    /\ enrollment' = [enrollment EXCEPT ![e] = row]

\* What both halves of the system leave of the enrolments.
RowsKept ==
    /\ enrollment' \in [EnrollmentIds -> EnrollmentRows(Times)]
    /\ \A e \in EnrollmentIds : EnrollmentOk(enrollment'[e])
    /\ OneEnrollmentPerAlias'
    /\ \A e \in EnrollmentIds : enrollment[e].status # "ABSENT" => enrollment'[e].status # "ABSENT"

LEMMA RewriteKeeps ==
    ASSUME RosterInv, NEW e \in EnrollmentIds, NEW row, Rewrites(e, row)
    PROVE  /\ RowsKept
           /\ \A g \in Calls : enrollment[g] = NoEnrollment => enrollment'[g] = NoEnrollment
<1>1. enrollment \in [EnrollmentIds -> EnrollmentRows(Times)]
  BY DEF RosterInv, RosterTypeOK
<1>2. enrollment'[e] = row /\ \A d \in EnrollmentIds \ {e} : enrollment'[d] = enrollment[d]
  BY <1>1 DEF Rewrites
<1>3. enrollment' \in [EnrollmentIds -> EnrollmentRows(Times)]
  BY <1>1 DEF Rewrites
<1>4. \A d \in EnrollmentIds : EnrollmentOk(enrollment'[d])
  BY <1>2 DEF RosterInv, Rewrites
<1>5. \A d \in EnrollmentIds : /\ enrollment'[d].class = enrollment[d].class /\ enrollment'[d].alias = enrollment[d].alias
                               /\ enrollment'[d].status = "ABSENT" <=> enrollment[d].status = "ABSENT"
  BY <1>2 DEF Rewrites
<1>6. OneEnrollmentPerAlias'
  BY <1>5 DEF RosterInv, OneEnrollmentPerAlias
<1>7. \A g \in Calls : enrollment[g] = NoEnrollment => enrollment'[g] = NoEnrollment
  BY <1>2, NullApart DEF Rewrites, NoEnrollment
<1> QED  BY <1>3, <1>4, <1>5, <1>6, <1>7 DEF RowsKept

\* A statement of a call that writes enrolments only.
LEMMA EnrollmentWriteKeeps ==
    ASSUME RosterInv, NEW h \in Calls, call[h].at \in Locations, Goto(h, "complete", Null),
           UNCHANGED <<class, code, profile, overlap, idem>>, RowsKept,
           \A g \in Calls \ {h} : enrollment[g] = NoEnrollment => enrollment'[g] = NoEnrollment
    PROVE  RosterInv'
<1>1. Move(h) /\ call'[h].at = "complete" /\ Reads(h)'
  BY DoneMoves
<1>2. RosterTypeOK(Times)'
  BY <1>1 DEF RosterInv, RosterTypeOK, Move, RosterGots, Locations, RowsKept
<1>3. ASSUME NEW g \in Calls  PROVE Fresh(g)'
  <2>1. CASE g = h
    BY <1>1, <2>1 DEF Fresh, Early, Locations
  <2>2. CASE g # h
    <3>1. Fresh(g) /\ call'[g] = call[g]
      BY <1>1, <2>2, CallIsTyped DEF Move, OthersStay
    <3> QED  BY <2>2, <3>1 DEF Fresh
  <2> QED  BY <2>1, <2>2
<1>4. ASSUME NEW g \in Calls  PROVE (call'[g].at \notin {"idle", "done"} => Sent(g)') /\ Reads(g)'
  <2>1. CASE g = h
    BY <1>1, <2>1 DEF Move
  <2>2. CASE g # h
    BY <1>1, <2>2, OthersRead DEF RowsKept
  <2> QED  BY <2>1, <2>2
<1>5. \A c \in ClassIds \ overlap' : CodesOk(c)'
  BY <1>1, CodesQuiet
<1> QED  BY <1>2, <1>3, <1>4, <1>5 DEF RosterInv, RowsKept

LEMMA InsertEnrollmentKeeps ==
    ASSUME RosterInv, NEW h \in Calls, InsertEnrollment(h)
    PROVE  RosterInv' /\ RowsKept
<1>1. /\ call[h].op = "add" /\ call[h].at = "insert" /\ call[h].at \in Locations /\ UNCHANGED <<class, code, profile, overlap, idem>>
  BY DEF InsertEnrollment, At, Locations
<1>2. CASE Throws(h, "ERROR", TRUE) /\ enrollment' = enrollment
  <2>1. Move(h) /\ call'[h].at = "fail"
    BY <1>1, <1>2, ThrowMoves
  <2>2. UNCHANGED RosterTables
    BY <1>1, <1>2 DEF RosterTables
  <2>3. RowsKept
    BY <1>2 DEF RosterInv, RosterTypeOK, RowsKept, OneEnrollmentPerAlias
  <2> QED  BY <2>1, <2>2, <2>3, FrameKeeps
<1> DEFINE c == Target(h)
           a == call[h].arg.alias
           s == call[h].got
<1>3. CASE /\ ~AliasTaken(c, a) /\ Goto(h, "complete", Null)
           /\ enrollment' = [enrollment EXCEPT ![h] = NewEnrollment(c, s, a)]
  <2>1. c \in ClassIds /\ a \in Aliases /\ s \in Students /\ enrollment[h] = NoEnrollment
    BY <1>1, CallIsTyped DEF Sent, Reads, Fresh, Early, Locations
  <2>2. PICK row : row = NewEnrollment(c, s, a)
    OBVIOUS
  <2>3. /\ row.status = "ACTIVE" /\ row.class = c /\ row.alias = a /\ row.student = s
        /\ row.failedPinCount = 0 /\ row.pinLockedUntil = Null /\ row \in EnrollmentRows(Times)
    BY <2>1, <2>2 DEF NewEnrollment, NoEnrollment, EnrollmentRows
  <2>4. enrollment \in [EnrollmentIds -> EnrollmentRows(Times)] /\ h \in EnrollmentIds
    BY NullApart DEF RosterInv, RosterTypeOK
  <2>5. enrollment'[h] = row /\ \A d \in EnrollmentIds \ {h} : enrollment'[d] = enrollment[d]
    BY <1>3, <2>2, <2>4
  <2>6. enrollment' \in [EnrollmentIds -> EnrollmentRows(Times)]
    BY <1>3, <2>2, <2>3, <2>4
  <2>7. \A d \in EnrollmentIds : EnrollmentOk(enrollment'[d])
    BY <2>3, <2>5, DurationsAssumption DEF RosterInv, EnrollmentOk
  <2>8. \A d \in EnrollmentIds : ~(enrollment[d].class = c /\ enrollment[d].alias = a)
    BY <1>3 DEF AliasTaken, FindByAlias
  <2>9. OneEnrollmentPerAlias'
    BY <2>3, <2>5, <2>8 DEF RosterInv, OneEnrollmentPerAlias
  <2>10. RowsKept
    BY <2>3, <2>5, <2>6, <2>7, <2>9 DEF RowsKept
  <2>11. \A g \in Calls \ {h} : enrollment[g] = NoEnrollment => enrollment'[g] = NoEnrollment
    BY <2>5, NullApart
  <2> QED  BY <1>1, <1>3, <2>10, <2>11, EnrollmentWriteKeeps
<1> QED  BY <1>2, <1>3 DEF InsertEnrollment

\* setStatus of a row that is there.
LEMMA SetStatusRewrites ==
    ASSUME RosterInv, NEW e \in EnrollmentIds, enrollment[e].status # "ABSENT", NEW status \in {"ACTIVE", "LEFT"},
           enrollment' = SetStatus(e, status)
    PROVE  \E row : Rewrites(e, row) /\ row.status = status
<1>1. PICK old \in EnrollmentRows(Times) : old = enrollment[e]
  BY DEF RosterInv, RosterTypeOK
<1>2. PICK row : row = [old EXCEPT !.status = status]
  OBVIOUS
<1>3. /\ row \in EnrollmentRows(Times) /\ row.status = status /\ row.class = old.class /\ row.alias = old.alias
      /\ row.failedPinCount = old.failedPinCount /\ row.pinLockedUntil = old.pinLockedUntil
  BY <1>2 DEF EnrollmentRows
<1>4. enrollment' = [enrollment EXCEPT ![e] = row]
  BY <1>1, <1>2 DEF SetStatus
<1>5. EnrollmentOk(row)
  BY <1>1, <1>3 DEF RosterInv, EnrollmentOk
<1> QED  BY <1>1, <1>3, <1>4, <1>5 DEF Rewrites

LEMMA LeaveClassKeeps ==
    ASSUME RosterInv, NEW h \in Calls, LeaveClass(h)
    PROVE  RosterInv' /\ RowsKept
<1>1. /\ call[h].at = "leave" /\ call[h].at \in Locations /\ UNCHANGED <<class, code, profile, overlap, idem>>
      /\ enrollment' = SetStatus(call[h].got, "LEFT") /\ Goto(h, "complete", Null)
  BY DEF LeaveClass, At, Locations
<1>2. call[h].got \in EnrollmentIds /\ enrollment[call[h].got].status # "ABSENT"
  BY <1>1, CallIsTyped DEF Reads
<1>3. PICK row : Rewrites(call[h].got, row)
  BY <1>1, <1>2, SetStatusRewrites
<1>4. RowsKept /\ \A g \in Calls : enrollment[g] = NoEnrollment => enrollment'[g] = NoEnrollment
  BY <1>2, <1>3, RewriteKeeps
<1> QED  BY <1>1, <1>4, EnrollmentWriteKeeps

\* Every step of the staff keeps the invariant of the rosters, and no enrolment is lost.
LEMMA RosterStep ==
    ASSUME RosterInv, RosterNext
    PROVE  RosterInv' /\ RowsKept
<1>1. ASSUME enrollment' = enrollment, RosterInv'  PROVE RowsKept
  BY <1>1 DEF RosterInv, RosterTypeOK, RowsKept
<1>2. ASSUME NEW h \in Calls, RosterServices(h)  PROVE RosterInv' /\ RowsKept
  <2>1. CASE CreateClass(h)
    BY <1>1, <2>1, CreateClassKeeps DEF CreateClass
  <2>2. CASE ReadClass(h)
    BY <1>1, <2>2, ReadClassKeeps DEF ReadClass
  <2>3. CASE FindActiveCode(h)
    BY <1>1, <2>3, FindActiveCodeKeeps DEF FindActiveCode
  <2>4. CASE IssueAccessCode(h)
    BY <1>1, <2>4, IssueAccessCodeKeeps DEF IssueAccessCode
  <2>5. CASE ArchiveClass(h)
    BY <1>1, <2>5, ArchiveClassKeeps DEF ArchiveClass
  <2>6. CASE UpdateClass(h)
    BY <1>1, <2>6, UpdateClassKeeps DEF UpdateClass
  <2>7. CASE AddStudentProfile(h)
    BY <1>1, <2>7, AddStudentProfileKeeps DEF AddStudentProfile
  <2>8. CASE CheckCollisions(h)
    BY <1>1, <2>8, CheckCollisionsKeeps DEF CheckCollisions
  <2>9. CASE InsertEnrollment(h)
    BY <2>9, InsertEnrollmentKeeps
  <2>10. CASE ReadEnrollment(h)
    BY <1>1, <2>10, ReadEnrollmentKeeps DEF ReadEnrollment
  <2>11. CASE LeaveClass(h)
    BY <2>11, LeaveClassKeeps
  <2>12. CASE /\ \/ RosterRoutes(h) \/ StatementFails(h) \/ ProcessDies(h)
                 \/ BeginClassCall(h) \/ BeginAdd(h) \/ BeginRemove(h)
                 \/ SettleClassCall(h) \/ SettleAdd(h) \/ SettleRemove(h)
              /\ UNCHANGED <<class, code, profile, enrollment, overlap>>
    <3>1. UNCHANGED RosterTables
      BY <2>12 DEF RosterTables
    <3>2. Move(h) /\ call'[h].at \in {"done", "begin", "run", "fail"}
      BY <2>12, FrameMoves
    <3> QED  BY <1>1, <2>12, <3>1, <3>2, FrameKeeps
  <2> QED  BY <1>2, <2>1, <2>2, <2>3, <2>4, <2>5, <2>6, <2>7, <2>8, <2>9, <2>10, <2>11, <2>12 DEF RosterServices
<1>3. ASSUME RetryWindowEnds, UNCHANGED <<class, code, profile, enrollment, overlap>>
      PROVE  RosterInv' /\ RowsKept
  <2>1. CallsTypeOK(Ops, Args, RosterGots, Locations)' /\ call' = call
    BY <1>3, CallsTyped, RetryWindowEffect
  <2>2. RosterTypeOK(Times)'
    BY <1>3, <2>1 DEF RosterInv, RosterTypeOK, RosterGots, Locations
  <2>3. \A h \in Calls : Fresh(h)' /\ (call'[h].at \notin {"idle", "done"} => Sent(h)') /\ Reads(h)'
    BY <1>3, <2>1 DEF RosterInv, Fresh, Sent, Reads, Target
  <2>4. \A c \in ClassIds \ overlap' : CodesOk(c)'
    BY <1>3, <2>1 DEF RosterInv, CodesOk, OnCodes, ActiveCodes, Target
  <2>5. (\A e \in EnrollmentIds : EnrollmentOk(enrollment'[e])) /\ OneEnrollmentPerAlias'
    BY <1>3 DEF RosterInv, OneEnrollmentPerAlias
  <2> QED  BY <1>1, <1>3, <2>2, <2>3, <2>4, <2>5 DEF RosterInv
<1> QED  BY <1>2, <1>3 DEF RosterNext

-----------------------------------------------------------------------------
(* The steps of a visit                                                    *)

\* A step of visit v leaves the other visits alone, and never takes v back.
Steps(v, locals) ==
    /\ locals \in VisitLocals /\ visit' = [visit EXCEPT ![v] = locals] /\ visit[v].at # "done"

LEMMA VisitIsTyped ==
    ASSUME LoginInv, NEW v \in Visits
    PROVE  /\ visit[v] \in VisitLocals /\ VisitOk(v)
           /\ session[v] \in SessionRows
           /\ Null \notin Visits /\ Null \notin Nat
  BY DurationsAssumption DEF LoginInv

LEMMA StepsAlone ==
    ASSUME LoginInv, NEW v \in Visits, NEW locals, Steps(v, locals)
    PROVE  /\ visit' \in [Visits -> VisitLocals] /\ visit'[v] = locals
           /\ \A u \in Visits \ {v} : visit'[u] = visit[u]
  BY DEF LoginInv, Steps

\* VisitTo changes the place only.
LEMMA VisitToSteps ==
    ASSUME LoginInv, NEW v \in Visits, visit[v].at # "done",
           NEW place \in {"limit", "alias", "create", "activate", "rotate", "revoke", "touch"}, VisitTo(v, place)
    PROVE  \E locals : /\ Steps(v, locals) /\ locals.at = place /\ locals.code = visit[v].code /\ locals.alias = visit[v].alias
                       /\ locals.row = visit[v].row /\ locals.session = visit[v].session /\ locals.op = visit[v].op
<1>1. PICK old \in VisitLocals : old = visit[v]
  BY VisitIsTyped
<1>2. PICK locals : locals = [old EXCEPT !.at = place]
  OBVIOUS
<1>3. /\ locals \in VisitLocals /\ locals.at = place /\ locals.code = old.code /\ locals.alias = old.alias
      /\ locals.row = old.row /\ locals.session = old.session /\ locals.op = old.op
  BY <1>2 DEF VisitLocals
<1>4. visit' = [visit EXCEPT ![v] = locals]
  BY <1>1, <1>2 DEF VisitTo, LoginInv
<1> QED  BY <1>1, <1>3, <1>4 DEF Steps

LEMMA VisitEndsSteps ==
    ASSUME LoginInv, NEW v \in Visits, visit[v].at # "done", NEW answer, VisitEnds(v, answer)
    PROVE  \E locals : Steps(v, locals) /\ locals.at = "done"
<1>1. PICK locals : locals = [Away EXCEPT !.at = "done"]
  OBVIOUS
<1>2. locals \in VisitLocals /\ locals.at = "done"
  BY <1>1 DEF Away, VisitLocals
<1> QED  BY <1>1, <1>2 DEF VisitEnds, Steps

\* A bucket is raised.
LEMMA WindowTyped ==
    ASSUME LoginInv, NEW kind \in Kinds, NEW key \in Aliases \union {Null},
           window' = [window EXCEPT ![<<kind, key>>] = Least(@ + 1, Limits[kind] + 1)]
    PROVE  window' \in [Buckets -> Nat]
<1>1. PICK n \in Nat : n = Least(window[<<kind, key>>] + 1, Limits[kind] + 1)
  BY DurationsAssumption DEF LoginInv, Buckets, Least
<1>2. window' = [window EXCEPT ![<<kind, key>>] = n]
  BY <1>1 DEF LoginInv, Buckets
<1> QED  BY <1>2 DEF LoginInv

\* What the other visits know stays, while the enrolments and the logins they know of
\* stay, and no session appears in their name.
LEMMA OtherVisits ==
    ASSUME LoginInv, NEW v \in Visits, NEW locals, Steps(v, locals), NEW u \in Visits \ {v},
           \A e \in EnrollmentIds : enrollment[e].status # "ABSENT" => enrollment'[e].status # "ABSENT",
           \A s \in Visits : session[s].login # Null => session'[s].login = session[s].login,
           (\A s \in Visits : session[s].login # u) => \A s \in Visits : session'[s].login # u,
           session[u] = NoSession => session'[u] = NoSession
    PROVE  VisitOk(u)'
<1>1. visit'[u] = visit[u] /\ VisitOk(u)
  BY StepsAlone, VisitIsTyped
<1>2. visit'[u].at \in {"failed", "reset", "activate", "create"} =>
           visit'[u].row \in EnrollmentIds /\ enrollment'[visit'[u].row].status # "ABSENT"
  BY <1>1 DEF VisitOk
<1>3. visit'[u].at \in {"resolve", "rotate", "revoke", "touch"} =>
           visit'[u].session \in Visits /\ session'[visit'[u].session].login # Null
  BY <1>1 DEF VisitOk
<1>4. visit'[u].at # "done" => session'[u] = NoSession /\ \A s \in Visits : session'[s].login # u
  BY <1>1 DEF VisitOk
<1> QED  BY <1>1, <1>2, <1>3, <1>4 DEF VisitOk

\* A login stays sound where no session of it came alive and nobody began to end it.
LEMMA LoginStays ==
    ASSUME NEW login \in Visits, LoginOk(login),
           \A s \in Visits : session'[s].login = login =>
               /\ session[s].login = login /\ (session'[s].live => session[s].live)
               /\ session'[s].revokedReason = "USER_LOGOUT" => session[s].revokedReason = "USER_LOGOUT",
           \A u \in Visits : Ends(u, login)' => Ends(u, login) /\ visit'[u].session = visit[u].session
    PROVE  LoginOk(login)'
<1>1. ASSUME NEW s \in Visits, NEW t \in Visits, session'[s].login = login, session'[t].login = login
      PROVE  /\ session'[s].live /\ session'[t].live => s = t
             /\ session'[s].revokedReason = "USER_LOGOUT" => ~session'[t].live
  BY <1>1 DEF LoginOk
<1>2. \A u, v \in Visits : Ends(u, login)' /\ Ends(v, login)' => u = v
  BY DEF LoginOk
<1>3. ASSUME NEW v \in Visits, NEW s \in Visits, Ends(v, login)', session'[s].login = login
      PROVE  /\ session'[s].revokedReason # "USER_LOGOUT"
             /\ s # visit'[v].session => ~session'[s].live
  <2> HIDE DEF Ends
  <2> QED  BY <1>3 DEF LoginOk
<1> HIDE DEF Ends
<1> QED  BY <1>1, <1>2, <1>3 DEF LoginOk

\* A step of a visit that writes no session.
LEMMA QuietStep ==
    ASSUME LoginInv, NEW v \in Visits, NEW locals, Steps(v, locals), locals.at \notin {"rotate", "revoke"},
           \A e \in EnrollmentIds : enrollment[e].status # "ABSENT" => enrollment'[e].status # "ABSENT",
           UNCHANGED <<now, tenant, session, forked>>, window' \in [Buckets -> Nat], VisitOk(v)'
    PROVE  LoginInv'
<1>1. visit' \in [Visits -> VisitLocals] /\ visit'[v] = locals /\ \A u \in Visits \ {v} : visit'[u] = visit[u]
  BY StepsAlone
<1>2. ASSUME NEW u \in Visits  PROVE VisitOk(u)'
  BY OtherVisits
<1>3. ASSUME NEW login \in Visits \ forked'  PROVE LoginOk(login)'
  <2>1. \A u \in Visits : Ends(u, login)' => Ends(u, login) /\ visit'[u].session = visit[u].session
    BY <1>1 DEF Ends
  <2>2. LoginOk(login)
    BY DEF LoginInv
  <2> QED  BY <2>1, <2>2, LoginStays
<1>4. RotationKeepsTheLimit'
  BY DEF LoginInv, RotationKeepsTheLimit
<1> QED  BY <1>1, <1>2, <1>3, <1>4 DEF LoginInv

\* The answer leaves the server, and no session was written.
LEMMA EndsQuietly ==
    ASSUME LoginInv, NEW v \in Visits, visit[v].at # "done", NEW answer, VisitEnds(v, answer),
           \A e \in EnrollmentIds : enrollment[e].status # "ABSENT" => enrollment'[e].status # "ABSENT",
           UNCHANGED <<now, tenant, session, forked>>, window' \in [Buckets -> Nat]
    PROVE  LoginInv'
<1>1. PICK locals : Steps(v, locals) /\ locals.at = "done"
  BY VisitEndsSteps
<1>2. visit'[v] = locals
  BY <1>1, StepsAlone
<1>3. VisitOk(v)'
  BY <1>1, <1>2 DEF VisitOk
<1> QED  BY <1>1, <1>3, QuietStep

\* The next statement needs no more than this one knew.
LEMMA GoesQuietly ==
    ASSUME LoginInv, NEW v \in Visits, visit[v].at # "done",
           NEW place \in {"limit", "alias", "create", "activate", "touch"}, VisitTo(v, place),
           place \in {"limit", "alias"} => visit[v].at \in {"code", "limit"},
           place \in {"create", "activate"} => visit[v].at \in {"failed", "reset", "activate"},
           place = "touch" => visit[v].at = "resolve",
           \A e \in EnrollmentIds : enrollment[e].status # "ABSENT" => enrollment'[e].status # "ABSENT",
           UNCHANGED <<now, tenant, session, forked>>, window' \in [Buckets -> Nat]
    PROVE  LoginInv'
<1>1. PICK locals : /\ Steps(v, locals) /\ locals.at = place /\ locals.code = visit[v].code /\ locals.alias = visit[v].alias
                    /\ locals.row = visit[v].row /\ locals.session = visit[v].session /\ locals.op = visit[v].op
  BY VisitToSteps
<1>2. visit'[v] = locals /\ VisitOk(v)
  BY <1>1, StepsAlone, VisitIsTyped
<1>3. VisitOk(v)'
  BY <1>1, <1>2 DEF VisitOk
<1> QED  BY <1>1, <1>3, QuietStep

-----------------------------------------------------------------------------
(* The steps of a login                                                    *)

LEMMA ResolveClassCodeKeeps ==
    ASSUME LoginInv, NEW v \in Visits, NEW k \in CodeIds, ResolveClassCode(v, k)
    PROVE  LoginInv'
<1>1. /\ visit[v].at = "idle" /\ UNCHANGED <<class, code, profile, enrollment, overlap, idem, call, now, tenant, session, forked>>
      /\ window' \in [Buckets -> Nat]
      /\ \/ visit' = [visit EXCEPT ![v] = [@ EXCEPT !.at = "lookup", !.code = k]]
         \/ VisitEnds(v, "RATE_LIMITED")
  BY WindowTyped DEF ResolveClassCode, CheckFixedWindow, Kinds, rosterVars
<1>2. CASE VisitEnds(v, "RATE_LIMITED")
  BY <1>1, <1>2, EndsQuietly
<1>3. CASE visit' = [visit EXCEPT ![v] = [@ EXCEPT !.at = "lookup", !.code = k]]
  <2>1. PICK old \in VisitLocals : old = visit[v]
    BY VisitIsTyped
  <2>2. PICK locals : locals = [old EXCEPT !.at = "lookup", !.code = k]
    OBVIOUS
  <2>3. locals \in VisitLocals /\ locals.at = "lookup" /\ locals.code = k
    BY <2>2 DEF VisitLocals
  <2>4. Steps(v, locals)
    BY <1>1, <1>3, <2>1, <2>2, <2>3 DEF Steps, LoginInv
  <2>5. visit'[v] = locals /\ VisitOk(v)
    BY <2>4, StepsAlone, VisitIsTyped
  <2>6. VisitOk(v)'
    BY <1>1, <2>3, <2>5 DEF VisitOk
  <2> QED  BY <1>1, <2>3, <2>4, <2>6, QuietStep
<1> QED  BY <1>1, <1>2, <1>3

LEMMA LookupClassCodeKeeps ==
    ASSUME LoginInv, NEW v \in Visits, LookupClassCode(v)
    PROVE  LoginInv'
<1>1. /\ visit[v].at = "lookup" /\ UNCHANGED <<class, code, profile, enrollment, overlap, idem, call, now, tenant, session, forked>>
      /\ window' \in [Buckets -> Nat]
      /\ \E answer : VisitEnds(v, answer)
  BY WindowTyped DEF LookupClassCode, CheckFixedWindow, Kinds, rosterVars
<1> QED  BY <1>1, EndsQuietly

LEMMA StartVisitKeeps ==
    ASSUME LoginInv, NEW v \in Visits, NEW k \in CodeIds, NEW alias \in Aliases, NEW pin \in {"right", "wrong"},
           StartVisit(v, k, alias, pin)
    PROVE  LoginInv'
<1>1. /\ visit[v].at = "idle" /\ UNCHANGED <<class, code, profile, enrollment, overlap, idem, call, now, tenant, session, forked>>
      /\ window' \in [Buckets -> Nat]
      /\ \/ visit' = [visit EXCEPT ![v] = [@ EXCEPT !.at = "code", !.op = "start", !.code = k, !.alias = alias, !.pin = pin]]
         \/ VisitEnds(v, "RATE_LIMITED")
  BY WindowTyped DEF StartVisit, CheckFixedWindow, Kinds, rosterVars
<1>2. CASE VisitEnds(v, "RATE_LIMITED")
  BY <1>1, <1>2, EndsQuietly
<1>3. CASE visit' = [visit EXCEPT ![v] = [@ EXCEPT !.at = "code", !.op = "start", !.code = k, !.alias = alias, !.pin = pin]]
  <2>1. PICK old \in VisitLocals : old = visit[v]
    BY VisitIsTyped
  <2>2. PICK locals : locals = [old EXCEPT !.at = "code", !.op = "start", !.code = k, !.alias = alias, !.pin = pin]
    OBVIOUS
  <2>3. locals \in VisitLocals /\ locals.at = "code" /\ locals.code = k /\ locals.alias = alias
    BY <2>2 DEF VisitLocals
  <2>4. Steps(v, locals)
    BY <1>1, <1>3, <2>1, <2>2, <2>3 DEF Steps, LoginInv
  <2>5. visit'[v] = locals /\ VisitOk(v)
    BY <2>4, StepsAlone, VisitIsTyped
  <2>6. VisitOk(v)'
    BY <1>1, <2>3, <2>5 DEF VisitOk
  <2> QED  BY <1>1, <2>3, <2>4, <2>6, QuietStep
<1> QED  BY <1>1, <1>2, <1>3

LEMMA StartCodeKeeps ==
    ASSUME LoginInv, NEW v \in Visits, StartCode(v)
    PROVE  LoginInv'
<1>1. /\ visit[v].at = "code" /\ UNCHANGED <<class, code, profile, enrollment, overlap, idem, call, now, tenant, window, session, forked>>
      /\ (\E answer : VisitEnds(v, answer)) \/ VisitTo(v, "limit")
  BY DEF StartCode, rosterVars
<1>2. window' \in [Buckets -> Nat]
  BY <1>1 DEF LoginInv
<1>3. CASE \E answer : VisitEnds(v, answer)
  BY <1>1, <1>2, <1>3, EndsQuietly
<1>4. CASE VisitTo(v, "limit")
  BY <1>1, <1>2, <1>4, GoesQuietly
<1> QED  BY <1>1, <1>3, <1>4

LEMMA StartLimitKeeps ==
    ASSUME LoginInv, NEW v \in Visits, StartLimit(v)
    PROVE  LoginInv'
<1>1. visit[v].alias \in Aliases \union {Null} /\ "SESSION_START_ENROLLMENT" \in Kinds
  BY VisitIsTyped DEF VisitLocals, Kinds
<1>2. /\ visit[v].at = "limit" /\ UNCHANGED <<class, code, profile, enrollment, overlap, idem, call, now, tenant, session, forked>>
      /\ window' \in [Buckets -> Nat]
      /\ VisitEnds(v, "RATE_LIMITED") \/ VisitTo(v, "alias")
  BY <1>1, WindowTyped DEF StartLimit, CheckFixedWindow, rosterVars
<1>3. CASE VisitEnds(v, "RATE_LIMITED")
  BY <1>2, <1>3, EndsQuietly
<1>4. CASE VisitTo(v, "alias")
  BY <1>2, <1>4, GoesQuietly
<1> QED  BY <1>2, <1>3, <1>4

LEMMA StartAliasKeeps ==
    ASSUME RosterInv, LoginInv, NEW v \in Visits, StartAlias(v)
    PROVE  LoginInv'
<1> DEFINE c == code[visit[v].code].class
           a == visit[v].alias
           found == FindByAlias(c, a)
<1>1. /\ visit[v].at = "alias" /\ UNCHANGED <<class, code, profile, enrollment, overlap, idem, call, now, tenant, window, session, forked>>
      /\ \/ \E answer : VisitEnds(v, answer)
         \/ \E e \in found : \E place, invited :
               /\ visit' = [visit EXCEPT ![v] = [@ EXCEPT !.row = e, !.invited = invited, !.at = place]]
               /\ invited \in BOOLEAN /\ place \in {"failed", "reset", "activate", "create"}
  BY DEF StartAlias, rosterVars, AfterPin
<1>2. window' \in [Buckets -> Nat]
  BY <1>1 DEF LoginInv
<1>3. CASE \E answer : VisitEnds(v, answer)
  BY <1>1, <1>2, <1>3, EndsQuietly
<1>4. ASSUME NEW e \in found, NEW place \in {"failed", "reset", "activate", "create"}, NEW invited \in BOOLEAN,
             visit' = [visit EXCEPT ![v] = [@ EXCEPT !.row = e, !.invited = invited, !.at = place]]
      PROVE  LoginInv'
  <2>1. PICK old \in VisitLocals : old = visit[v]
    BY VisitIsTyped
  <2>2. e \in EnrollmentIds /\ enrollment[e].alias = a
    BY DEF FindByAlias
  <2>3. a \in Aliases
    BY <1>1, VisitIsTyped DEF VisitOk
  <2>4. enrollment[e].status # "ABSENT"
    BY <2>2, <2>3, NullApart DEF RosterInv, EnrollmentOk, NoEnrollment
  <2>5. PICK locals : locals = [old EXCEPT !.row = e, !.invited = invited, !.at = place]
    OBVIOUS
  <2>6. locals \in VisitLocals /\ locals.at = place /\ locals.row = e
    BY <2>2, <2>5 DEF VisitLocals
  <2>7. Steps(v, locals)
    BY <1>1, <1>4, <2>1, <2>5, <2>6 DEF Steps, LoginInv
  <2>8. visit'[v] = locals /\ VisitOk(v)
    BY <2>7, StepsAlone, VisitIsTyped
  <2>9. VisitOk(v)'
    BY <1>1, <2>2, <2>4, <2>6, <2>8 DEF VisitOk
  <2> QED  BY <1>1, <1>2, <2>6, <2>7, <2>9, QuietStep
<1> QED  BY <1>1, <1>3, <1>4

LEMMA RosterQuiet ==
    ASSUME RosterInv, UNCHANGED rosterVars
    PROVE  RosterInv' /\ RowsKept
<1>1. RosterTypeOK(Times)'
  BY DEF RosterInv, RosterTypeOK, CallsTypeOK, rosterVars
<1>2. \A h \in Calls : Fresh(h)' /\ (call'[h].at \notin {"idle", "done"} => Sent(h)') /\ Reads(h)'
  BY DEF RosterInv, Fresh, Sent, Reads, Target, rosterVars
<1>3. \A c \in ClassIds \ overlap' : CodesOk(c)'
  BY DEF RosterInv, CodesOk, OnCodes, ActiveCodes, Target, rosterVars
<1>4. (\A e \in EnrollmentIds : EnrollmentOk(enrollment'[e])) /\ OneEnrollmentPerAlias'
  BY DEF RosterInv, OneEnrollmentPerAlias, rosterVars
<1> QED  BY <1>1, <1>2, <1>3, <1>4 DEF RosterInv, RosterTypeOK, RowsKept, rosterVars

\* A visit writes over an enrolment that is there.
LEMMA VisitRewrites ==
    ASSUME RosterInv, NEW e \in EnrollmentIds, NEW row, Rewrites(e, row),
           UNCHANGED <<class, code, profile, overlap, idem, call>>
    PROVE  RosterInv' /\ RowsKept
<1>1. RowsKept /\ \A g \in Calls : enrollment[g] = NoEnrollment => enrollment'[g] = NoEnrollment
  BY RewriteKeeps
<1>2. RosterTypeOK(Times)'
  BY <1>1 DEF RosterInv, RosterTypeOK, CallsTypeOK, RowsKept
<1>3. ASSUME NEW h \in Calls
      PROVE  Fresh(h)' /\ (call'[h].at \notin {"idle", "done"} => Sent(h)') /\ Reads(h)'
  <2>1. Fresh(h) /\ (call[h].at \notin {"idle", "done"} => Sent(h)) /\ Reads(h)
    BY CallIsTyped
  <2>2. Fresh(h)'
    BY <1>1, <2>1 DEF Fresh
  <2>3. call'[h].at \notin {"idle", "done"} => Sent(h)'
    BY <2>1 DEF Sent, Target
  <2>4. Reads(h)'
    BY <1>1, <2>1 DEF Reads, Target, RowsKept
  <2> QED  BY <2>2, <2>3, <2>4
<1>4. \A c \in ClassIds \ overlap' : CodesOk(c)'
  BY DEF RosterInv, CodesOk, OnCodes, ActiveCodes, Target
<1> QED  BY <1>1, <1>2, <1>3, <1>4 DEF RosterInv, RowsKept

\* recordFailedPin and recordSuccessfulPin keep the status of the enrolment.
LEMMA PinRewrites ==
    ASSUME RosterInv, LoginInv, NEW e \in EnrollmentIds, enrollment[e].status # "ABSENT",
           \/ enrollment' = [enrollment EXCEPT ![e] = PinFailed(@)]
           \/ enrollment' = [enrollment EXCEPT ![e] = PinReset(@)]
    PROVE  \E row : Rewrites(e, row) /\ row.status = enrollment[e].status
<1>1. PICK old \in EnrollmentRows(Times) : old = enrollment[e]
  BY DEF RosterInv, RosterTypeOK
<1>2. old.failedPinCount \in Nat
  BY DEF EnrollmentRows
<1>3. CASE enrollment' = [enrollment EXCEPT ![e] = PinFailed(@)]
  <2>1. PICK count \in Nat : count = old.failedPinCount + 1
    BY <1>2
  <2>2. PICK failed \in Nat : failed = Least(count, MaxFailedPinAttempts + 1)
    BY <2>1, DurationsAssumption DEF Least
  <2>3. PICK until : until = IF count >= MaxFailedPinAttempts THEN now + LockoutDuration ELSE old.pinLockedUntil
    OBVIOUS
  <2>4. until \in Times \union {Null}
    <3>1. now + LockoutDuration \in Times
      BY DurationsAssumption DEF LoginInv, Times
    <3> QED  BY <2>3, <3>1 DEF EnrollmentRows
  <2>5. failed >= MaxFailedPinAttempts => until # Null
    BY <2>1, <2>2, <2>3, DurationsAssumption DEF Least, LoginInv
  <2>6. PICK row : row = [old EXCEPT !.failedPinCount = failed, !.pinLockedUntil = until]
    OBVIOUS
  <2>7. /\ row \in EnrollmentRows(Times) /\ row.status = old.status /\ row.class = old.class /\ row.alias = old.alias
        /\ row.failedPinCount = failed /\ row.pinLockedUntil = until
    BY <2>2, <2>4, <2>6 DEF EnrollmentRows
  <2>8. enrollment' = [enrollment EXCEPT ![e] = row]
    BY <1>1, <1>3, <2>1, <2>2, <2>3, <2>6 DEF PinFailed
  <2> QED  BY <1>1, <2>5, <2>7, <2>8 DEF Rewrites, EnrollmentOk
<1>4. CASE enrollment' = [enrollment EXCEPT ![e] = PinReset(@)]
  <2>1. PICK row : row = [old EXCEPT !.failedPinCount = 0, !.pinLockedUntil = Null]
    OBVIOUS
  <2>2. /\ row \in EnrollmentRows(Times) /\ row.status = old.status /\ row.class = old.class /\ row.alias = old.alias
        /\ row.failedPinCount = 0
    BY <2>1 DEF EnrollmentRows
  <2>3. enrollment' = [enrollment EXCEPT ![e] = row]
    BY <1>1, <1>4, <2>1 DEF PinReset
  <2>4. EnrollmentOk(row)
    BY <1>1, <2>2, DurationsAssumption DEF EnrollmentOk
  <2> QED  BY <1>1, <2>2, <2>3, <2>4 DEF Rewrites
<1> QED  BY <1>3, <1>4

LEMMA RecordFailedPinKeeps ==
    ASSUME RosterInv, LoginInv, NEW v \in Visits, RecordFailedPin(v)
    PROVE  RosterInv' /\ LoginInv'
<1> DEFINE e == visit[v].row
<1>1. /\ visit[v].at = "failed" /\ UNCHANGED <<class, code, profile, overlap, idem, call, now, tenant, window, session, forked>>
      /\ enrollment' = [enrollment EXCEPT ![e] = PinFailed(@)] /\ \E answer : VisitEnds(v, answer)
  BY DEF RecordFailedPin
<1>2. e \in EnrollmentIds /\ enrollment[e].status # "ABSENT"
  BY <1>1, VisitIsTyped DEF VisitOk
<1>3. PICK row : Rewrites(e, row)
  BY <1>1, <1>2, PinRewrites
<1>4. RosterInv' /\ RowsKept
  BY <1>1, <1>2, <1>3, VisitRewrites
<1>5. window' \in [Buckets -> Nat]
  BY <1>1 DEF LoginInv
<1> QED  BY <1>1, <1>4, <1>5, EndsQuietly DEF RowsKept

LEMMA RecordSuccessfulPinKeeps ==
    ASSUME RosterInv, LoginInv, NEW v \in Visits, RecordSuccessfulPin(v)
    PROVE  RosterInv' /\ LoginInv'
<1> DEFINE e == visit[v].row
<1>1. /\ visit[v].at = "reset" /\ UNCHANGED <<class, code, profile, overlap, idem, call, now, tenant, window, session, forked>>
      /\ enrollment' = [enrollment EXCEPT ![e] = PinReset(@)]
      /\ VisitTo(v, "activate") \/ VisitTo(v, "create")
  BY DEF RecordSuccessfulPin, AfterPin
<1>2. e \in EnrollmentIds /\ enrollment[e].status # "ABSENT"
  BY <1>1, VisitIsTyped DEF VisitOk
<1>3. PICK row : Rewrites(e, row)
  BY <1>1, <1>2, PinRewrites
<1>4. RosterInv' /\ RowsKept
  BY <1>1, <1>2, <1>3, VisitRewrites
<1>5. window' \in [Buckets -> Nat]
  BY <1>1 DEF LoginInv
<1> QED  BY <1>1, <1>4, <1>5, GoesQuietly DEF RowsKept

LEMMA ActivateIfInvitedKeeps ==
    ASSUME RosterInv, LoginInv, NEW v \in Visits, ActivateIfInvited(v)
    PROVE  RosterInv' /\ LoginInv'
<1> DEFINE e == visit[v].row
<1>1. /\ visit[v].at = "activate" /\ UNCHANGED <<class, code, profile, overlap, idem, call, now, tenant, window, session, forked>>
      /\ enrollment' = SetStatus(e, "ACTIVE") \/ enrollment' = enrollment
      /\ VisitTo(v, "create")
  BY DEF ActivateIfInvited
<1>2. e \in EnrollmentIds /\ enrollment[e].status # "ABSENT"
  BY <1>1, VisitIsTyped DEF VisitOk
<1>3. RosterInv' /\ RowsKept
  <2>1. CASE enrollment' = SetStatus(e, "ACTIVE")
    <3>1. PICK row : Rewrites(e, row)
      BY <1>2, <2>1, SetStatusRewrites
    <3> QED  BY <1>1, <1>2, <3>1, VisitRewrites
  <2>2. CASE enrollment' = enrollment
    BY <1>1, <2>2, RosterQuiet DEF rosterVars
  <2> QED  BY <1>1, <2>1, <2>2
<1>4. window' \in [Buckets -> Nat]
  BY <1>1 DEF LoginInv
<1> QED  BY <1>1, <1>3, <1>4, GoesQuietly DEF RowsKept

-----------------------------------------------------------------------------
(* The steps that write sessions                                           *)

\* A step of a visit that writes sessions and ends, or goes on.
LEMMA WritingStep ==
    ASSUME LoginInv, NEW v \in Visits, NEW locals, Steps(v, locals),
           UNCHANGED <<enrollment, now, tenant, window>>, forked' \subseteq Visits,
           session' \in [Visits -> SessionRows],
           \A s \in Visits : session[s].login # Null => session'[s].login = session[s].login,
           \A u \in Visits \ {v} : (\A s \in Visits : session[s].login # u) => \A s \in Visits : session'[s].login # u,
           \A u \in Visits \ {v} : session[u] = NoSession => session'[u] = NoSession,
           VisitOk(v)', RotationKeepsTheLimit', \A login \in Visits \ forked' : LoginOk(login)'
    PROVE  LoginInv'
<1>1. visit' \in [Visits -> VisitLocals]
  BY StepsAlone
<1>2. ASSUME NEW u \in Visits  PROVE VisitOk(u)'
  BY OtherVisits
<1> QED  BY <1>1, <1>2 DEF LoginInv

\* The sessions a visit knows of have a login, and its own has none yet.
LEMMA KnownSessions ==
    ASSUME LoginInv, NEW u \in Visits, NEW login \in Visits, Ends(u, login)
    PROVE  /\ visit[u].session \in Visits /\ session[visit[u].session].login = login
           /\ session[u] = NoSession /\ (\A s \in Visits : session[s].login # u)
  BY VisitIsTyped DEF Ends, VisitOk

\* Whoever is past its look-up after the step of another was so before.
LEMMA EndsBefore ==
    ASSUME LoginInv, NEW v \in Visits, NEW locals, Steps(v, locals), locals.at \notin {"rotate", "revoke"},
           \A s \in Visits : session[s].login # Null => session'[s].login = session[s].login,
           NEW u \in Visits, NEW login \in Visits, Ends(u, login)'
    PROVE  u # v /\ Ends(u, login) /\ visit'[u].session = visit[u].session
<1>1. u # v /\ visit'[u] = visit[u]
  BY StepsAlone DEF Ends
<1>2. visit[u].session \in Visits /\ session[visit[u].session].login # Null
  BY <1>1, VisitIsTyped DEF Ends, VisitOk
<1> QED  BY <1>1, <1>2 DEF Ends

LEMMA CreateSessionKeeps ==
    ASSUME LoginInv, NEW v \in Visits, CreateSession(v)
    PROVE  LoginInv'
<1>1. /\ visit[v].at = "create" /\ UNCHANGED <<enrollment, now, tenant, window, forked>>
      /\ session' = [session EXCEPT ![v] = NewSession(v, visit[v].row)] /\ VisitEnds(v, "OK")
  BY DEF CreateSession, rosterVars
<1>2. PICK locals : Steps(v, locals) /\ locals.at = "done"
  BY <1>1, VisitEndsSteps
<1>3. visit'[v].at = "done" /\ \A u \in Visits \ {v} : visit'[u] = visit[u]
  BY <1>2, StepsAlone
<1>4. /\ session[v] = NoSession /\ (\A s \in Visits : session[s].login # v) /\ visit[v].row \in EnrollmentIds
      /\ session \in [Visits -> SessionRows]
  BY <1>1, VisitIsTyped DEF VisitOk, LoginInv
<1>5. PICK new : new = NewSession(v, visit[v].row)
  OBVIOUS
<1>6. /\ new \in SessionRows /\ new.login = v /\ new.live /\ new.revokedReason = Null
      /\ new.expiresAt = new.loginAt + AbsoluteTtl
  <2>1. now \in Times /\ now + AbsoluteTtl \in Times
    BY DurationsAssumption DEF LoginInv, Times
  <2> QED  BY <1>4, <1>5, <2>1 DEF NewSession, SessionRows
<1>7. session'[v] = new /\ \A s \in Visits \ {v} : session'[s] = session[s]
  BY <1>1, <1>4, <1>5
<1>8. session' \in [Visits -> SessionRows]
  BY <1>1, <1>4, <1>5, <1>6
<1>9. \A s \in Visits : session[s].login # Null => session'[s].login = session[s].login
  <2>1. session[v].login = Null
    BY <1>4 DEF NoSession
  <2> QED  BY <1>7, <2>1
<1>10. ASSUME NEW login \in Visits \ forked'  PROVE LoginOk(login)'
  <2>1. LoginOk(login)
    BY <1>1 DEF LoginInv
  <2>2. \A u \in Visits : Ends(u, login)' => u # v /\ Ends(u, login) /\ visit'[u].session = visit[u].session
    BY <1>2, <1>9, EndsBefore
  <2>3. CASE login # v
    BY <1>6, <1>7, <2>1, <2>2, <2>3, LoginStays
  <2>4. CASE login = v
    <3>1. \A s \in Visits : session'[s].login = login => s = v
      BY <1>4, <1>7, <2>4
    <3>2. \A u \in Visits : ~Ends(u, login)'
      BY <1>4, <2>2, <2>4, KnownSessions
    <3> HIDE DEF Ends
    <3> QED  BY <1>6, <1>7, <3>1, <3>2, DurationsAssumption DEF LoginOk
  <2> QED  BY <2>3, <2>4
<1>11. RotationKeepsTheLimit'
  BY <1>6, <1>7 DEF LoginInv, RotationKeepsTheLimit
<1>12. VisitOk(v)'
  BY <1>3 DEF VisitOk
<1>13. forked' \subseteq Visits
  BY <1>1 DEF LoginInv
<1>14. \A u \in Visits \ {v} : (\A s \in Visits : session[s].login # u) => \A s \in Visits : session'[s].login # u
  BY <1>6, <1>7
<1>15. \A u \in Visits \ {v} : session[u] = NoSession => session'[u] = NoSession
  BY <1>7
<1> QED  BY <1>1, <1>2, <1>8, <1>9, <1>10, <1>11, <1>12, <1>13, <1>14, <1>15, WritingStep

\* revoke(): a live session ends with the reason, and nothing else changes.
LEMMA RevokeSessionIs ==
    ASSUME LoginInv, NEW s \in Visits,
           NEW reason \in {"ROTATED", "USER_LOGOUT", "ABSOLUTE_EXPIRY", "INACTIVITY_TIMEOUT", "ADMIN_REVOKED"},
           NEW rows, rows = RevokeSession(session, s, reason)
    PROVE  /\ rows \in [Visits -> SessionRows] /\ ~rows[s].live
           /\ \A t \in Visits : /\ rows[t].login = session[t].login
                                /\ rows[t].expiresAt = session[t].expiresAt /\ rows[t].loginAt = session[t].loginAt
                                /\ rows[t].live => session[t].live
                                /\ rows[t].revokedReason \in {session[t].revokedReason, reason}
           /\ \A t \in Visits \ {s} : rows[t] = session[t]
           /\ ~session[s].live => rows[s] = session[s]
<1>1. session \in [Visits -> SessionRows]
  BY DEF LoginInv
<1>2. PICK old \in SessionRows : old = session[s]
  BY <1>1
<1>3. PICK new : new = IF old.live THEN [old EXCEPT !.live = FALSE, !.revokedReason = reason] ELSE old
  OBVIOUS
<1>4. /\ new \in SessionRows /\ new.login = old.login /\ new.expiresAt = old.expiresAt /\ new.loginAt = old.loginAt
      /\ ~new.live /\ new.revokedReason \in {old.revokedReason, reason} /\ (~old.live => new = old)
  <2>1. CASE old.live
    BY <1>3, <2>1 DEF SessionRows
  <2>2. CASE ~old.live
    BY <1>3, <2>2
  <2> QED  BY <2>1, <2>2
<1>5. rows = [session EXCEPT ![s] = new]
  BY <1>1, <1>2, <1>3 DEF RevokeSession
<1> QED  BY <1>1, <1>2, <1>4, <1>5

LEMMA RotateKeeps ==
    ASSUME LoginInv, NEW v \in Visits, Rotate(v)
    PROVE  LoginInv'
<1> DEFINE s == visit[v].session
<1>1. /\ visit[v].at = "rotate" /\ UNCHANGED <<enrollment, now, tenant, window, forked>> /\ VisitEnds(v, "OK")
      /\ session' = [RevokeSession(session, s, "ROTATED") EXCEPT ![v] =
                       [session[s] EXCEPT !.live = TRUE, !.revokedReason = Null, !.lastSeenAt = now]]
  BY DEF Rotate, rosterVars
<1>2. PICK locals : Steps(v, locals) /\ locals.at = "done"
  BY <1>1, VisitEndsSteps
<1>3. visit'[v].at = "done"
  BY <1>2, StepsAlone
<1>4. /\ session[v] = NoSession /\ (\A t \in Visits : session[t].login # v)
      /\ s \in Visits /\ session[s].login # Null /\ session[s] \in SessionRows
  BY <1>1, VisitIsTyped DEF VisitOk, LoginInv
<1>5. s # v /\ session[v].login = Null
  BY <1>4 DEF NoSession
<1>6. PICK login \in Visits : login = session[s].login
  BY <1>4 DEF SessionRows
<1>7. PICK rows : rows = RevokeSession(session, s, "ROTATED")
  OBVIOUS
<1>8. /\ rows \in [Visits -> SessionRows] /\ ~rows[s].live
      /\ \A t \in Visits : /\ rows[t].login = session[t].login
                           /\ rows[t].expiresAt = session[t].expiresAt /\ rows[t].loginAt = session[t].loginAt
                           /\ rows[t].revokedReason \in {session[t].revokedReason, "ROTATED"}
      /\ \A t \in Visits \ {s} : rows[t] = session[t]
  BY <1>4, <1>7, RevokeSessionIs
<1>9. PICK old \in SessionRows : old = session[s]
  BY <1>4
<1>10. PICK new : new = [old EXCEPT !.live = TRUE, !.revokedReason = Null, !.lastSeenAt = now]
  OBVIOUS
<1>11. /\ new \in SessionRows /\ new.login = login /\ new.revokedReason = Null
       /\ new.expiresAt = session[s].expiresAt /\ new.loginAt = session[s].loginAt
  <2>1. now \in Times
    BY DurationsAssumption DEF LoginInv, Times
  <2> QED  BY <1>6, <1>9, <1>10, <2>1 DEF SessionRows
<1>12. session' = [rows EXCEPT ![v] = new]
  BY <1>1, <1>7, <1>9, <1>10
<1>13. /\ session' \in [Visits -> SessionRows] /\ session'[v] = new
       /\ \A t \in Visits \ {v} : session'[t] = rows[t]
  BY <1>8, <1>11, <1>12
<1>14. \A t \in Visits : session[t].login # Null => session'[t].login = session[t].login
  BY <1>5, <1>8, <1>13
<1>15. ASSUME NEW l \in Visits \ forked'  PROVE LoginOk(l)'
  <2>1. LoginOk(l)
    BY <1>1 DEF LoginInv
  <2>2. \A u \in Visits : Ends(u, l)' => u # v /\ Ends(u, l) /\ visit'[u].session = visit[u].session
    BY <1>2, <1>14, EndsBefore
  <2>3. CASE l # login
    <3>1. \A t \in Visits : session'[t].login = l => t # v /\ t # s /\ session'[t] = session[t]
      BY <1>5, <1>6, <1>8, <1>11, <1>13, <2>3
    <3> QED  BY <2>1, <2>2, <3>1, LoginStays
  <2>4. CASE l = login
    <3>1. Ends(v, l)
      BY <1>1, <1>6, <2>4 DEF Ends
    <3>2. \A u \in Visits : ~Ends(u, l)'
      BY <2>1, <2>2, <3>1 DEF LoginOk
    <3>3. \A t \in Visits : session[t].login = l => session[t].revokedReason # "USER_LOGOUT" /\ (t # s => ~session[t].live)
      BY <2>1, <3>1 DEF LoginOk
    <3>4. ASSUME NEW t \in Visits, session'[t].login = l
          PROVE  session'[t].revokedReason # "USER_LOGOUT" /\ (t # v => ~session'[t].live)
      <4>1. CASE t = v
        BY <1>11, <1>13, <4>1, DurationsAssumption
      <4>2. CASE t # v
        BY <1>8, <1>13, <3>3, <3>4, <4>2
      <4> QED  BY <4>1, <4>2
    <3> HIDE DEF Ends
    <3> QED  BY <3>2, <3>4 DEF LoginOk
  <2> QED  BY <2>3, <2>4
<1>16. RotationKeepsTheLimit'
  <2>1. ASSUME NEW t \in Visits, session'[t].login # Null
        PROVE  session'[t].expiresAt = session'[t].loginAt + AbsoluteTtl
    <3>1. CASE t = v
      BY <1>4, <1>11, <1>13, <3>1 DEF LoginInv, RotationKeepsTheLimit
    <3>2. CASE t # v
      BY <1>8, <1>13, <2>1, <3>2 DEF LoginInv, RotationKeepsTheLimit
    <3> QED  BY <3>1, <3>2
  <2> QED  BY <2>1 DEF RotationKeepsTheLimit
<1>17. VisitOk(v)'
  BY <1>3 DEF VisitOk
<1>18. \A u \in Visits \ {v} : (\A t \in Visits : session[t].login # u) => \A t \in Visits : session'[t].login # u
  BY <1>4, <1>6, <1>8, <1>11, <1>13
<1>19. \A u \in Visits \ {v} : session[u] = NoSession => session'[u] = NoSession
  BY <1>4, <1>8, <1>13 DEF NoSession
<1>20. forked' \subseteq Visits
  BY <1>1 DEF LoginInv
<1> QED  BY <1>1, <1>2, <1>13, <1>14, <1>15, <1>16, <1>17, <1>18, <1>19, <1>20, WritingStep

LEMMA LogoutKeeps ==
    ASSUME LoginInv, NEW v \in Visits, Logout(v)
    PROVE  LoginInv'
<1> DEFINE s == visit[v].session
<1>1. /\ visit[v].at = "revoke" /\ UNCHANGED <<enrollment, now, tenant, window, forked>> /\ VisitEnds(v, "OK")
      /\ session' = RevokeSession(session, s, "USER_LOGOUT")
  BY DEF Logout, rosterVars
<1>2. PICK locals : Steps(v, locals) /\ locals.at = "done"
  BY <1>1, VisitEndsSteps
<1>3. s \in Visits /\ session[s].login # Null
  BY <1>1, VisitIsTyped DEF VisitOk
<1>4. /\ session' \in [Visits -> SessionRows] /\ ~session'[s].live
      /\ \A t \in Visits : /\ session'[t].login = session[t].login
                           /\ session'[t].expiresAt = session[t].expiresAt /\ session'[t].loginAt = session[t].loginAt
                           /\ session'[t].live => session[t].live
      /\ \A t \in Visits \ {s} : session'[t] = session[t]
  BY <1>1, <1>3, RevokeSessionIs
<1>5. ASSUME NEW l \in Visits \ forked'  PROVE LoginOk(l)'
  <2>1. LoginOk(l)
    BY <1>1 DEF LoginInv
  <2>2. \A u \in Visits : Ends(u, l)' => u # v /\ Ends(u, l) /\ visit'[u].session = visit[u].session
    BY <1>2, <1>4, EndsBefore
  <2>3. CASE l # session[s].login
    <3>1. \A t \in Visits : session'[t].login = l => session'[t] = session[t]
      BY <1>4, <2>3
    <3> QED  BY <2>1, <2>2, <3>1, LoginStays
  <2>4. CASE l = session[s].login
    <3>1. Ends(v, l)
      BY <1>1, <2>4 DEF Ends
    <3>2. \A u \in Visits : ~Ends(u, l)'
      BY <2>1, <2>2, <3>1 DEF LoginOk
    <3>3. \A t \in Visits : session[t].login = l => (t # s => ~session[t].live)
      BY <2>1, <3>1 DEF LoginOk
    <3>4. \A t \in Visits : session'[t].login = l => ~session'[t].live
      BY <1>4, <3>3
    <3> HIDE DEF Ends
    <3> QED  BY <3>2, <3>4 DEF LoginOk
  <2> QED  BY <2>3, <2>4
<1>6. RotationKeepsTheLimit'
  BY <1>4 DEF LoginInv, RotationKeepsTheLimit
<1>7. visit'[v].at = "done"
  BY <1>2, StepsAlone
<1>8. VisitOk(v)'
  BY <1>7 DEF VisitOk
<1>9. \A u \in Visits \ {v} : session[u] = NoSession => session'[u] = NoSession
  BY <1>3, <1>4 DEF NoSession
<1>10. forked' \subseteq Visits
  BY <1>1 DEF LoginInv
<1> QED  BY <1>1, <1>2, <1>4, <1>5, <1>6, <1>8, <1>9, <1>10, WritingStep

LEMMA TouchLastSeenKeeps ==
    ASSUME LoginInv, NEW v \in Visits, TouchLastSeen(v)
    PROVE  LoginInv'
<1> DEFINE s == visit[v].session
<1>1. /\ visit[v].at = "touch" /\ UNCHANGED <<enrollment, now, tenant, window, forked>> /\ VisitEnds(v, "OK")
      /\ session' = [session EXCEPT ![s] = [@ EXCEPT !.lastSeenAt = now]]
  BY DEF TouchLastSeen, rosterVars
<1>2. PICK locals : Steps(v, locals) /\ locals.at = "done"
  BY <1>1, VisitEndsSteps
<1>3. s \in Visits /\ session[s].login # Null /\ session \in [Visits -> SessionRows]
  BY <1>1, VisitIsTyped DEF VisitOk, LoginInv
<1>4. PICK old \in SessionRows : old = session[s]
  BY <1>3
<1>5. PICK new : new = [old EXCEPT !.lastSeenAt = now]
  OBVIOUS
<1>6. /\ new \in SessionRows /\ new.login = old.login /\ new.expiresAt = old.expiresAt /\ new.loginAt = old.loginAt
      /\ new.live = old.live /\ new.revokedReason = old.revokedReason
  <2>1. now \in Times
    BY DurationsAssumption DEF LoginInv, Times
  <2> QED  BY <1>5, <2>1 DEF SessionRows
<1>7. session' = [session EXCEPT ![s] = new]
  BY <1>1, <1>4, <1>5
<1>8. /\ session' \in [Visits -> SessionRows] /\ session'[s] = new /\ \A t \in Visits \ {s} : session'[t] = session[t]
  BY <1>3, <1>6, <1>7
<1>9. \A t \in Visits : /\ session'[t].login = session[t].login /\ session'[t].live = session[t].live
                        /\ session'[t].expiresAt = session[t].expiresAt /\ session'[t].loginAt = session[t].loginAt
                        /\ session'[t].revokedReason = session[t].revokedReason
  BY <1>4, <1>6, <1>8
<1>10. ASSUME NEW l \in Visits \ forked'  PROVE LoginOk(l)'
  <2>1. LoginOk(l)
    BY <1>1 DEF LoginInv
  <2>2. \A u \in Visits : Ends(u, l)' => u # v /\ Ends(u, l) /\ visit'[u].session = visit[u].session
    BY <1>2, <1>9, EndsBefore
  <2> QED  BY <1>9, <2>1, <2>2, LoginStays
<1>11. RotationKeepsTheLimit'
  BY <1>9 DEF LoginInv, RotationKeepsTheLimit
<1>12. visit'[v].at = "done"
  BY <1>2, StepsAlone
<1>13. VisitOk(v)'
  BY <1>12 DEF VisitOk
<1>14. \A u \in Visits \ {v} : session[u] = NoSession => session'[u] = NoSession
  BY <1>3, <1>8 DEF NoSession
<1>15. forked' \subseteq Visits
  BY <1>1 DEF LoginInv
<1> QED  BY <1>1, <1>2, <1>8, <1>9, <1>10, <1>11, <1>13, <1>14, <1>15, WritingStep

LEMMA LapsedIs ==
    ASSUME LoginInv, NEW s \in Visits
    PROVE  Lapsed(s) \in {"ABSOLUTE_EXPIRY", "INACTIVITY_TIMEOUT", "ADMIN_REVOKED", Null}
<1> DEFINE late == session[s].expiresAt <= now
           still == session[s].expiresAt > now
           idle == now - session[s].lastSeenAt >= InactivityTtl
           seen == now - session[s].lastSeenAt < InactivityTtl
<1>1. ~(late /\ still) /\ ~(idle /\ seen)
  <2>1. session[s].expiresAt \in Int /\ session[s].lastSeenAt \in Int /\ now \in Int /\ InactivityTtl \in Int
    BY VisitIsTyped, DurationsAssumption DEF LoginInv, SessionRows, Times
  <2> QED  BY <2>1
<1> HIDE DEF late, still, idle, seen
<1>2. Lapsed(s) = CASE late -> "ABSOLUTE_EXPIRY" [] still /\ idle -> "INACTIVITY_TIMEOUT"
                    [] still /\ seen /\ tenant # "ACTIVE" -> "ADMIN_REVOKED" [] OTHER -> Null
  BY DEF Lapsed, late, still, idle, seen
<1> QED  BY <1>1, <1>2

\* What a request does with the session that it looks up: it is refused, and the session
\* revoked if it lapsed; or the session is live and the request goes on.
LEMMA ResolveIsOneOf ==
    ASSUME LoginInv, NEW v \in Visits, ResolveActiveSession(v), NEW s, s = visit[v].session
    PROVE  /\ visit[v].at = "resolve" /\ s \in Visits /\ session[s].login \in Visits
           /\ UNCHANGED <<rosterVars, now, tenant, window>>
           /\ forked' = forked \/ forked' = forked \union {session[s].login}
           /\ \/ /\ \E answer : VisitEnds(v, answer)
                 /\ \/ session' = session
                    \/ \E reason \in {"ABSOLUTE_EXPIRY", "INACTIVITY_TIMEOUT", "ADMIN_REVOKED"} :
                           session' = RevokeSession(session, s, reason)
              \/ /\ session' = session
                 /\ \/ VisitTo(v, "touch")
                    \/ /\ VisitTo(v, "rotate") \/ VisitTo(v, "revoke")
                       /\ session[s].live
                       /\ \/ session[s].login \in forked'
                          \/ \A u \in Visits \ {v} : ~(visit[u].at \in {"rotate", "revoke"} /\ visit[u].session = s)
<1>1. visit[v].at = "resolve" /\ UNCHANGED <<rosterVars, now, tenant, window>>
  BY DEF ResolveActiveSession
<1>2. s \in Visits /\ session[s].login \in Visits /\ visit[v].op \in {"refresh", "logout", "context", "request"}
  BY <1>1, VisitIsTyped DEF VisitOk, LoginInv, SessionRows
<1>3. Lapsed(s) \in {"ABSOLUTE_EXPIRY", "INACTIVITY_TIMEOUT", "ADMIN_REVOKED", Null}
  BY <1>2, LapsedIs
<1>4. \/ forked' = forked /\ \A u \in Visits \ {v} : ~(visit[u].at \in {"rotate", "revoke"} /\ visit[u].session = s)
      \/ forked' = forked \union {session[s].login}
  BY DEF ResolveActiveSession
<1> DEFINE gone == ~session[s].live \/ Lapsed(s) # Null
<1>5. session' = IF Lapsed(s) = Null THEN session ELSE RevokeSession(session, s, Lapsed(s))
  BY DEF ResolveActiveSession
<1>6. CASE gone
  <2>1. \E answer : VisitEnds(v, answer)
    BY <1>6 DEF ResolveActiveSession
  <2> QED  BY <1>1, <1>2, <1>3, <1>4, <1>5, <2>1
<1>7. CASE ~gone
  <2>1. session' = session /\ session[s].live
    BY <1>5, <1>7
  <2>2. \/ \E answer : VisitEnds(v, answer)
        \/ VisitTo(v, "touch") \/ VisitTo(v, "rotate") \/ VisitTo(v, "revoke")
    BY <1>2, <1>7, VisitIsTyped DEF ResolveActiveSession, VisitLocals
  <2> QED  BY <1>1, <1>2, <1>4, <2>1, <2>2
<1> QED  BY <1>6, <1>7

LEMMA ResolveActiveSessionKeeps ==
    ASSUME LoginInv, NEW v \in Visits, ResolveActiveSession(v)
    PROVE  LoginInv'
<1>1. PICK s : s = visit[v].session
  OBVIOUS
<1>2. /\ visit[v].at = "resolve" /\ s \in Visits /\ session[s].login \in Visits
      /\ UNCHANGED <<rosterVars, now, tenant, window>>
      /\ forked' = forked \/ forked' = forked \union {session[s].login}
  BY <1>1, ResolveIsOneOf
<1>3. UNCHANGED enrollment /\ forked \subseteq forked' /\ forked' \subseteq Visits
  BY <1>2 DEF rosterVars, LoginInv
<1>4. CASE /\ \E answer : VisitEnds(v, answer)
           /\ \/ session' = session
              \/ \E reason \in {"ABSOLUTE_EXPIRY", "INACTIVITY_TIMEOUT", "ADMIN_REVOKED"} :
                     session' = RevokeSession(session, s, reason)
  <2>1. PICK locals : Steps(v, locals) /\ locals.at = "done"
    BY <1>2, <1>4, VisitEndsSteps
  <2>2. /\ session' \in [Visits -> SessionRows]
        /\ \A t \in Visits : /\ session'[t].login = session[t].login /\ (session'[t].live => session[t].live)
                             /\ session'[t].expiresAt = session[t].expiresAt /\ session'[t].loginAt = session[t].loginAt
                             /\ session'[t].revokedReason = "USER_LOGOUT" => session[t].revokedReason = "USER_LOGOUT"
        /\ \A t \in Visits \ {s} : session'[t] = session[t]
    <3>1. CASE session' = session
      BY <3>1 DEF LoginInv
    <3>2. ASSUME NEW reason \in {"ABSOLUTE_EXPIRY", "INACTIVITY_TIMEOUT", "ADMIN_REVOKED"},
                 session' = RevokeSession(session, s, reason)
          PROVE  /\ session' \in [Visits -> SessionRows]
                 /\ \A t \in Visits : /\ session'[t].login = session[t].login /\ (session'[t].live => session[t].live)
                                      /\ session'[t].expiresAt = session[t].expiresAt /\ session'[t].loginAt = session[t].loginAt
                                      /\ session'[t].revokedReason \in {session[t].revokedReason, reason}
                 /\ \A t \in Visits \ {s} : session'[t] = session[t]
      BY <1>2, <3>2, RevokeSessionIs
    <3> QED  BY <1>4, <3>1, <3>2
  <2>3. ASSUME NEW l \in Visits \ forked'  PROVE LoginOk(l)'
    <3>1. LoginOk(l)
      BY <1>3 DEF LoginInv
    <3>2. \A u \in Visits : Ends(u, l)' => u # v /\ Ends(u, l) /\ visit'[u].session = visit[u].session
      BY <2>1, <2>2, EndsBefore
    <3> QED  BY <2>2, <3>1, <3>2, LoginStays
  <2>4. RotationKeepsTheLimit'
    BY <2>2 DEF LoginInv, RotationKeepsTheLimit
  <2>5. visit'[v].at = "done"
    BY <2>1, StepsAlone
  <2>6. VisitOk(v)'
    BY <2>5 DEF VisitOk
  <2>7. \A u \in Visits \ {v} : session[u] = NoSession => session'[u] = NoSession
    BY <1>2, <2>2, VisitIsTyped DEF NoSession
  <2> QED  BY <1>2, <1>3, <2>1, <2>2, <2>3, <2>4, <2>6, <2>7, WritingStep
<1>5. ASSUME NEW place \in {"touch", "rotate", "revoke"}, VisitTo(v, place), session' = session,
             place # "touch" =>
                /\ session[s].live
                /\ \/ session[s].login \in forked'
                   \/ \A u \in Visits \ {v} : ~(visit[u].at \in {"rotate", "revoke"} /\ visit[u].session = s)
      PROVE  LoginInv'
  <2>1. PICK locals : Steps(v, locals) /\ locals.at = place /\ locals.session = s
    BY <1>1, <1>2, <1>5, VisitToSteps
  <2>2. visit'[v] = locals /\ (\A u \in Visits \ {v} : visit'[u] = visit[u]) /\ VisitOk(v)
    BY <2>1, StepsAlone, VisitIsTyped
  <2>3. VisitOk(v)'
    BY <1>1, <1>2, <1>5, <2>1, <2>2 DEF VisitOk
  <2>4. ASSUME NEW l \in Visits \ forked'  PROVE LoginOk(l)'
    <3>1. LoginOk(l)
      BY <1>3 DEF LoginInv
    <3>2. \A u \in Visits \ {v} : Ends(u, l)' <=> Ends(u, l)
      BY <1>5, <2>2 DEF Ends
    <3>3. ~Ends(v, l)
      BY <1>2 DEF Ends
    <3>4. CASE ~Ends(v, l)'
      BY <1>5, <2>2, <3>1, <3>2, <3>4, LoginStays
    <3>5. CASE Ends(v, l)'
      <4>1. place # "touch" /\ l = session[s].login
        BY <1>5, <2>1, <2>2, <3>5 DEF Ends
      <4>2. session[s].live /\ \A u \in Visits \ {v} : ~(visit[u].at \in {"rotate", "revoke"} /\ visit[u].session = s)
        BY <1>5, <4>1
      <4>3. \A u \in Visits : ~Ends(u, l)
        <5>1. ASSUME NEW u \in Visits, Ends(u, l)  PROVE FALSE
          <6>1. u # v /\ visit[u].session # s
            BY <3>3, <4>2, <5>1 DEF Ends
          <6>2. \A t \in Visits : session[t].login = l => (t # visit[u].session => ~session[t].live)
            BY <3>1, <5>1 DEF LoginOk
          <6> QED  BY <1>2, <4>1, <4>2, <6>1, <6>2
        <5> QED  BY <5>1
      <4>4. \A u \in Visits : Ends(u, l)' => u = v /\ visit'[u].session = s
        BY <2>1, <2>2, <3>2, <4>3
      <4>5. \A t \in Visits : session'[t].login = l =>
                session'[t].revokedReason # "USER_LOGOUT" /\ (t # s => ~session'[t].live)
        BY <1>2, <1>5, <3>1, <4>1, <4>2 DEF LoginOk
      <4>6. \A t, r \in Visits : session'[t].login = l /\ session'[r].login = l =>
               /\ session'[t].live /\ session'[r].live => t = r
               /\ session'[t].revokedReason = "USER_LOGOUT" => ~session'[r].live
        BY <1>5, <3>1 DEF LoginOk
      <4> HIDE DEF Ends
      <4> QED  BY <4>4, <4>5, <4>6 DEF LoginOk
    <3> QED  BY <3>4, <3>5
  <2>5. RotationKeepsTheLimit' /\ session' \in [Visits -> SessionRows]
    BY <1>5 DEF LoginInv, RotationKeepsTheLimit
  <2> QED  BY <1>2, <1>3, <1>5, <2>1, <2>3, <2>4, <2>5, WritingStep
<1> QED  BY <1>1, <1>4, <1>5, ResolveIsOneOf

LEMMA OpenVisitKeeps ==
    ASSUME LoginInv, NEW v \in Visits, NEW op \in {"refresh", "logout", "context", "request"}, NEW s \in Visits,
           NEW csrf \in BOOLEAN, OpenVisit(v, op, s, csrf)
    PROVE  LoginInv'
<1>1. /\ visit[v].at = "idle" /\ session[s].login # Null
      /\ visit' = [visit EXCEPT ![v] = [@ EXCEPT !.at = "resolve", !.op = op, !.session = s, !.csrf = csrf]]
      /\ UNCHANGED <<enrollment, now, tenant, window, session, forked>>
  BY DEF OpenVisit, rosterVars
<1>2. PICK old \in VisitLocals : old = visit[v]
  BY VisitIsTyped
<1>3. PICK locals : locals = [old EXCEPT !.at = "resolve", !.op = op, !.session = s, !.csrf = csrf]
  OBVIOUS
<1>4. locals \in VisitLocals /\ locals.at = "resolve" /\ locals.op = op /\ locals.session = s
  BY <1>3 DEF VisitLocals
<1>5. Steps(v, locals)
  BY <1>1, <1>2, <1>3, <1>4 DEF Steps, LoginInv
<1>6. visit'[v] = locals /\ VisitOk(v)
  BY <1>5, StepsAlone, VisitIsTyped
<1>7. VisitOk(v)'
  BY <1>1, <1>4, <1>6 DEF VisitOk
<1>8. window' \in [Buckets -> Nat]
  BY <1>1 DEF LoginInv
<1> QED  BY <1>1, <1>4, <1>5, <1>7, <1>8, QuietStep

\* The steps that are no visit's: the clock, the tenant, the calls of the staff.
LEMMA VisitsRest ==
    ASSUME LoginInv, UNCHANGED <<session, visit, forked>>,
           now' \in 0 .. MaxTime, tenant' \in {"ACTIVE", "SUSPENDED"}, window' \in [Buckets -> Nat],
           \A e \in EnrollmentIds : enrollment[e].status # "ABSENT" => enrollment'[e].status # "ABSENT"
    PROVE  LoginInv'
<1>1. ASSUME NEW v \in Visits  PROVE VisitOk(v)'
  BY DEF LoginInv, VisitOk
<1>2. RotationKeepsTheLimit'
  BY DEF LoginInv, RotationKeepsTheLimit
<1>3. ASSUME NEW login \in Visits \ forked'  PROVE LoginOk(login)'
  BY DEF LoginInv, LoginOk, Ends
<1> QED  BY <1>1, <1>2, <1>3 DEF LoginInv

-----------------------------------------------------------------------------
(* The invariant                                                           *)

\* The statements of a visit that touch no enrolment.
VisitReads(v) ==
    \/ \E k \in CodeIds : \/ ResolveClassCode(v, k)
                          \/ \E alias \in Aliases, pin \in {"right", "wrong"} : StartVisit(v, k, alias, pin)
    \/ LookupClassCode(v) \/ StartCode(v) \/ StartLimit(v) \/ StartAlias(v) \/ CreateSession(v)
    \/ \E s \in Visits, csrf \in BOOLEAN, op \in {"refresh", "logout", "context", "request"} : OpenVisit(v, op, s, csrf)
    \/ ResolveActiveSession(v) \/ Rotate(v) \/ Logout(v) \/ TouchLastSeen(v)

LEMMA VisitIsOneOf ==
    ASSUME NEW v \in Visits, VisitNext(v)
    PROVE  VisitReads(v) \/ RecordFailedPin(v) \/ RecordSuccessfulPin(v) \/ ActivateIfInvited(v)
<1>1. ASSUME NEW s \in Visits,
             \/ \E csrf \in BOOLEAN : PostSessionRefresh(v, s, csrf) \/ PostLogout(v, s, csrf)
             \/ GetStudentContext(v, s) \/ OtherRequest(v, s)
      PROVE  \E csrf \in BOOLEAN, op \in {"refresh", "logout", "context", "request"} : OpenVisit(v, op, s, csrf)
  BY <1>1 DEF PostSessionRefresh, PostLogout, GetStudentContext, OtherRequest
<1> QED  BY <1>1 DEF VisitNext, VisitReads

LEMMA VisitReadsQuiet ==
    ASSUME NEW v \in Visits, VisitReads(v)
    PROVE  UNCHANGED rosterVars
<1>1. CASE \E s \in Visits, csrf \in BOOLEAN, op \in {"refresh", "logout", "context", "request"} : OpenVisit(v, op, s, csrf)
  BY <1>1 DEF OpenVisit
<1>2. CASE \E k \in CodeIds : \/ ResolveClassCode(v, k)
                              \/ \E alias \in Aliases, pin \in {"right", "wrong"} : StartVisit(v, k, alias, pin)
  BY <1>2 DEF ResolveClassCode, StartVisit
<1>3. CASE LookupClassCode(v) \/ StartCode(v) \/ StartLimit(v) \/ StartAlias(v) \/ CreateSession(v)
  BY <1>3 DEF LookupClassCode, StartCode, StartLimit, StartAlias, CreateSession
<1>4. CASE ResolveActiveSession(v) \/ Rotate(v) \/ Logout(v) \/ TouchLastSeen(v)
  BY <1>4 DEF ResolveActiveSession, Rotate, Logout, TouchLastSeen
<1> QED  BY <1>1, <1>2, <1>3, <1>4 DEF VisitReads

LEMMA VisitStep ==
    ASSUME RosterInv, LoginInv, NEW v \in Visits, VisitNext(v)
    PROVE  RosterInv' /\ LoginInv'
<1>1. CASE VisitReads(v)
  <2>1. RosterInv'
    BY <1>1, VisitReadsQuiet, RosterQuiet
  <2>2. LoginInv'
    BY <1>1, ResolveClassCodeKeeps, StartVisitKeeps, LookupClassCodeKeeps, StartCodeKeeps, StartLimitKeeps,
       StartAliasKeeps, CreateSessionKeeps, OpenVisitKeeps, ResolveActiveSessionKeeps, RotateKeeps, LogoutKeeps,
       TouchLastSeenKeeps DEF VisitReads
  <2> QED  BY <2>1, <2>2
<1>2. CASE RecordFailedPin(v) \/ RecordSuccessfulPin(v) \/ ActivateIfInvited(v)
  BY <1>2, RecordFailedPinKeeps, RecordSuccessfulPinKeeps, ActivateIfInvitedKeeps
<1> QED  BY <1>1, <1>2, VisitIsOneOf

LEMMA StudentStep ==
    ASSUME RosterInv, LoginInv, [Next]_vars
    PROVE  RosterInv' /\ LoginInv'
<1>1. CASE \E v \in Visits : VisitNext(v)
  BY <1>1, VisitStep
<1>2. CASE RosterNext /\ UNCHANGED sessionVars
  <2>1. RosterInv' /\ RowsKept
    BY <1>2, RosterStep
  <2>2. LoginInv'
    BY <1>2, <2>1, VisitsRest DEF sessionVars, RowsKept, LoginInv
  <2> QED  BY <2>1, <2>2
<1>3. CASE Tick
  <2>1. UNCHANGED rosterVars /\ UNCHANGED <<tenant, session, visit, forked>>
    BY <1>3 DEF Tick
  <2>2. now' \in 0 .. MaxTime /\ window' \in [Buckets -> Nat]
    BY <1>3, DurationsAssumption DEF Tick, LoginInv
  <2>3. LoginInv'
    BY <2>1, <2>2, VisitsRest DEF LoginInv, rosterVars
  <2> QED  BY <2>1, <2>3, RosterQuiet
<1>4. CASE TenantChanges
  <2>1. UNCHANGED rosterVars /\ UNCHANGED <<now, window, session, visit, forked>> /\ tenant' \in {"ACTIVE", "SUSPENDED"}
    BY <1>4 DEF TenantChanges
  <2>2. LoginInv'
    BY <2>1, VisitsRest DEF LoginInv, rosterVars
  <2> QED  BY <2>1, <2>2, RosterQuiet
<1>5. CASE UNCHANGED vars
  <2>1. UNCHANGED rosterVars /\ UNCHANGED sessionVars
    BY <1>5 DEF vars
  <2>2. LoginInv'
    BY <2>1, VisitsRest DEF LoginInv, rosterVars, sessionVars
  <2> QED  BY <2>1, <2>2, RosterQuiet
<1> QED  BY <1>1, <1>2, <1>3, <1>4, <1>5 DEF Next

LEMMA InitRoster ==
    ASSUME NEW rows, NEW calls, NEW coming, NEW logins, Past(rows, coming, logins), RosterInit(rows, calls)
    PROVE  RosterInv
<1>1. CallsTypeOK(Ops, Args, RosterGots, Locations)
  BY InitTyped DEF RosterInit
<1>2. \A e \in SeedEnrollments : /\ rows[e] \in EnrollmentRows(Times) /\ rows[e].status # "ABSENT" /\ EnrollmentOk(rows[e])
                                 /\ enrollment[e] = rows[e]
  BY DEF Past, RosterInit, EnrollmentIds
<1>3. \A e \in EnrollmentIds \ SeedEnrollments : enrollment[e] = NoEnrollment
  BY DEF RosterInit
<1>4. NoEnrollment \in EnrollmentRows(Times) /\ EnrollmentOk(NoEnrollment) /\ NoEnrollment.status = "ABSENT"
  BY DurationsAssumption DEF NoEnrollment, EnrollmentRows, EnrollmentOk
<1>5. /\ DOMAIN enrollment = EnrollmentIds
      /\ \A e \in EnrollmentIds : enrollment[e] \in EnrollmentRows(Times) /\ EnrollmentOk(enrollment[e])
  BY <1>2, <1>3, <1>4 DEF RosterInit
<1>6. enrollment \in [EnrollmentIds -> EnrollmentRows(Times)]
  BY <1>5 DEF RosterInit
<1>7. OneEnrollmentPerAlias
  BY <1>2, <1>3, <1>4 DEF OneEnrollmentPerAlias, Past
<1>8. \A k \in CodeIds : /\ code[k] \in CodeRows
                         /\ k \in SeedClasses => code[k].class = k
                         /\ k \notin SeedClasses => code[k] = NoCode
                         /\ code[k].status = "ACTIVE" => k \in SeedClasses
  BY DEF RosterInit, NewCode, NoCode, CodeRows, ClassIds, CodeIds
<1>9. code \in [CodeIds -> CodeRows] /\ class \in [ClassIds -> ClassStatuses]
  BY <1>8 DEF RosterInit, ClassStatuses
<1>10. RosterTypeOK(Times)
  BY <1>1, <1>6, <1>9 DEF RosterInit, RosterTypeOK, RosterGots, Locations, Students
<1>11. \A h \in Calls : call[h].at \in {"idle", "done"}
  BY DEF RosterInit, CallsInit, Idle
<1>12. ASSUME NEW h \in Calls  PROVE Fresh(h) /\ Reads(h)
  <2>1. class[h] = "ABSENT" /\ code[h] = NoCode /\ enrollment[h] = NoEnrollment
    BY <1>3, <1>8, NullApart DEF RosterInit
  <2> QED  BY <1>11, <2>1 DEF Fresh, Reads
<1>13. ASSUME NEW c \in ClassIds  PROVE CodesOk(c)
  <2>1. \A h \in Calls : ~OnCodes(h, c)
    BY <1>11 DEF OnCodes
  <2>2. \A k \in ActiveCodes(c) : k = c /\ c \in SeedClasses
    BY <1>8 DEF ActiveCodes
  <2>3. class[c] # "ACTIVE" => c \notin SeedClasses
    BY DEF RosterInit
  <2> HIDE DEF OnCodes, ActiveCodes
  <2> QED  BY <2>1, <2>2, <2>3 DEF CodesOk
<1> QED  BY <1>5, <1>7, <1>10, <1>11, <1>12, <1>13 DEF RosterInv

LEMMA InitLogins ==
    ASSUME NEW rows, NEW calls, NEW coming, NEW logins, NEW time \in 0 .. MaxTime, NEW used, Past(rows, coming, logins),
           RosterInit(rows, calls), SessionsInit(coming, logins, time, used)
    PROVE  LoginInv
<1>1. NoSession \in SessionRows /\ Away \in VisitLocals
  BY DurationsAssumption DEF NoSession, SessionRows, Times, Away, VisitLocals
<1>2. PICK gone : gone = [Away EXCEPT !.at = "done"]
  OBVIOUS
<1>3. gone \in VisitLocals /\ gone.at = "done" /\ Away.at = "idle"
  BY <1>2 DEF Away, VisitLocals
<1>4. visit = [v \in Visits |-> IF v \in coming THEN Away ELSE gone]
  BY <1>2 DEF SessionsInit
<1>5. /\ visit \in [Visits -> VisitLocals]
      /\ \A v \in Visits : visit[v].at \in {"idle", "done"} /\ (visit[v].at = "idle" => v \in coming)
  BY <1>1, <1>3, <1>4
<1>6. /\ \A s \in DOMAIN logins : /\ logins[s] \in SessionRows /\ logins[s].login \in DOMAIN logins
                                  /\ logins[s].expiresAt = logins[s].loginAt + AbsoluteTtl
      /\ DOMAIN logins \subseteq Visits \ coming
  BY DEF Past
<1>7. \A s \in Visits : /\ s \in DOMAIN logins => session[s] = logins[s]
                        /\ s \notin DOMAIN logins => session[s] = NoSession
  BY DEF SessionsInit
<1>8. session \in [Visits -> SessionRows]
  BY <1>1, <1>6 DEF SessionsInit
<1>9. NoSession.login = Null /\ Null \notin Visits
  BY DurationsAssumption DEF NoSession
<1>10. ASSUME NEW v \in Visits  PROVE VisitOk(v)
  BY <1>5, <1>6, <1>7, <1>9 DEF VisitOk
<1>11. RotationKeepsTheLimit
  BY <1>6, <1>7, <1>9 DEF RotationKeepsTheLimit
<1>12. ASSUME NEW login \in Visits  PROVE LoginOk(login)
  <2>1. \A u \in Visits : ~Ends(u, login)
    BY <1>5 DEF Ends
  <2>2. \A s, t \in Visits : session[s].login = login /\ session[t].login = login =>
             /\ session[s].live /\ session[t].live => s = t
             /\ session[s].revokedReason = "USER_LOGOUT" => ~session[t].live
    BY <1>7, <1>9 DEF Past
  <2> HIDE DEF Ends
  <2> QED  BY <2>1, <2>2 DEF LoginOk
<1>13. window \in [Buckets -> Nat]
  BY DurationsAssumption DEF SessionsInit, Buckets
<1> QED  BY <1>5, <1>8, <1>10, <1>11, <1>12, <1>13 DEF LoginInv, SessionsInit

\* Every step, of the staff, of a visit, of the clock or of a fault, keeps what the requests
\* under way have read true enough for what they go on to write, in the class services, the
\* roster services, startSession, refresh, logout and the look-up of a session.
THEOREM StudentInvariance ==
    ASSUME NEW rows, NEW calls, NEW coming, NEW logins, NEW time, NEW used
    PROVE  Behaviour(rows, calls, coming, logins, time, used) => [](RosterInv /\ LoginInv)
<1>1. Past(rows, coming, logins) /\ time \in 0 .. MaxTime /\ RosterInit(rows, calls) /\ SessionsInit(coming, logins, time, used)
      => RosterInv /\ LoginInv
  BY InitRoster, InitLogins
<1>2. RosterInv /\ LoginInv /\ [Next]_vars => (RosterInv /\ LoginInv)'
  BY StudentStep
<1> QED  BY <1>1, <1>2, PTL DEF Behaviour

-----------------------------------------------------------------------------
(* What follows                                                            *)

\* A set whose members are all the same has at most one.
LEMMA AtMostOne ==
    ASSUME NEW S, \A x, y \in S : x = y
    PROVE  Cardinality(S) <= 1
<1>1. CASE S = {}
  BY <1>1, FS_EmptySet
<1>2. CASE S # {}
  <2>1. PICK x : S = {x}
    BY <1>2
  <2> QED  BY <2>1, FS_Singleton
<1> QED  BY <1>1, <1>2

\* Whatever calls of the staff race with each other and with logins, and fail or die at any
\* statement: a class where no two transactions on its codes overlapped has at most one ACTIVE
\* code, and none once it is archived, and an alias of a class is one enrolment's
\* (issueAccessCode, archive, addStudent).
THEOREM ClassesAreSoundHolds ==
    ASSUME NEW rows, NEW calls, NEW coming, NEW logins, NEW time, NEW used
    PROVE  Behaviour(rows, calls, coming, logins, time, used) => []ClassesAreSound
<1>1. RosterInv /\ LoginInv => TypeOK
  BY DEF RosterInv, LoginInv, TypeOK
<1>2. RosterInv => OneCodeUnlessOverlap
  <2> SUFFICES ASSUME RosterInv, NEW c \in ClassIds \ overlap
               PROVE  Cardinality(ActiveCodes(c)) <= 1 /\ (class[c] = "ARCHIVED" => ActiveCodes(c) = {})
    BY DEF OneCodeUnlessOverlap
  <2>1. CodesOk(c)
    BY DEF RosterInv
  <2> HIDE DEF ActiveCodes
  <2> QED  BY <2>1, AtMostOne DEF CodesOk
<1>3. RosterInv /\ LoginInv => ClassesAreSound
  BY <1>1, <1>2 DEF ClassesAreSound, RosterInv
<1> QED  BY <1>3, StudentInvariance, PTL

\* However many refreshes, logouts and requests race: the limit of a login stays what it was when
\* the student signed in; a login has one live session at most, and none after its logout, unless
\* two of its rotations or logouts overlapped; and no run of wrong PINs skips the lock (refresh,
\* logout, resolveActiveSession, recordFailedPin).
THEOREM StudentLoginsAreSoundHolds ==
    ASSUME NEW rows, NEW calls, NEW coming, NEW logins, NEW time, NEW used
    PROVE  Behaviour(rows, calls, coming, logins, time, used) => []StudentLoginsAreSound
<1>1. LoginInv => OneLiveSessionPerLogin
  <2> SUFFICES ASSUME LoginInv, NEW login \in Visits \ forked,
                      NEW chain, chain = {s \in Visits : session[s].login = login}
               PROVE  /\ Cardinality({s \in chain : session[s].live}) <= 1
                      /\ (\E s \in chain : session[s].revokedReason = "USER_LOGOUT") => \A s \in chain : ~session[s].live
    BY DEF OneLiveSessionPerLogin
  <2>1. \A s, t \in chain : /\ session[s].live /\ session[t].live => s = t
                            /\ session[s].revokedReason = "USER_LOGOUT" => ~session[t].live
    BY DEF LoginInv, LoginOk
  <2>2. \A s, t \in {r \in chain : session[r].live} : s = t
    BY <2>1
  <2>3. Cardinality({s \in chain : session[s].live}) <= 1
    BY <2>2, AtMostOne
  <2> QED  BY <2>1, <2>3
<1>2. RosterInv => LockNotMissed
  BY DEF RosterInv, EnrollmentOk, LockNotMissed
<1>3. RosterInv /\ LoginInv => StudentLoginsAreSound
  BY <1>1, <1>2 DEF StudentLoginsAreSound, LoginInv
<1> QED  BY <1>3, StudentInvariance, PTL

\* No step of a visit brings back an enrolment that left.
LEMMA VisitKeepsLeft ==
    ASSUME RosterInv, LoginInv, NEW v \in Visits, VisitNext(v), NEW e \in EnrollmentIds, enrollment[e].status = "LEFT"
    PROVE  enrollment'[e].status = "LEFT"
<1> DEFINE d == visit[v].row
<1>1. CASE VisitReads(v)
  BY <1>1, VisitReadsQuiet DEF rosterVars
<1>2. CASE RecordFailedPin(v) \/ RecordSuccessfulPin(v)
  <2>1. d \in EnrollmentIds /\ enrollment[d].status # "ABSENT"
    BY <1>2, VisitIsTyped DEF RecordFailedPin, RecordSuccessfulPin, VisitOk
  <2>2. PICK row : Rewrites(d, row) /\ row.status = enrollment[d].status
    BY <1>2, <2>1, PinRewrites DEF RecordFailedPin, RecordSuccessfulPin
  <2> QED  BY <2>1, <2>2 DEF Rewrites, RosterInv, RosterTypeOK
<1>3. CASE ActivateIfInvited(v)
  <2>1. d \in EnrollmentIds
    BY <1>3, VisitIsTyped DEF ActivateIfInvited, VisitOk
  <2>2. \/ enrollment' = enrollment
        \/ enrollment[d].status = "INVITED" /\ enrollment' = SetStatus(d, "ACTIVE")
    BY <1>3 DEF ActivateIfInvited
  <2>3. CASE enrollment[d].status = "INVITED" /\ enrollment' = SetStatus(d, "ACTIVE")
    <3>1. PICK row : Rewrites(d, row)
      BY <2>1, <2>3, SetStatusRewrites
    <3> QED  BY <2>1, <2>3, <3>1 DEF Rewrites, RosterInv, RosterTypeOK
  <2> QED  BY <2>2, <2>3
<1> QED  BY <1>1, <1>2, <1>3, VisitIsOneOf

\* No call of the staff does.
LEMMA StaffKeepLeft ==
    ASSUME RosterInv, RosterNext, NEW e \in EnrollmentIds, enrollment[e].status = "LEFT"
    PROVE  enrollment'[e].status = "LEFT"
<1>1. ASSUME NEW h \in Calls, InsertEnrollment(h)  PROVE enrollment'[e].status = "LEFT"
  <2>1. call[h].at = "insert" /\ enrollment[h] = NoEnrollment
    BY <1>1, CallIsTyped DEF InsertEnrollment, At, Fresh, Early, Locations
  <2>2. e # h
    BY <2>1 DEF NoEnrollment
  <2> QED  BY <1>1, <2>2 DEF InsertEnrollment, RosterInv, RosterTypeOK
<1>2. ASSUME NEW h \in Calls, LeaveClass(h)  PROVE enrollment'[e].status = "LEFT"
  <2>1. /\ call[h].got \in EnrollmentIds /\ enrollment[call[h].got].status # "ABSENT"
        /\ enrollment' = SetStatus(call[h].got, "LEFT")
    BY <1>2, CallIsTyped DEF LeaveClass, At, Reads
  <2>2. PICK row : Rewrites(call[h].got, row) /\ row.status = "LEFT"
    BY <2>1, SetStatusRewrites
  <2> QED  BY <2>1, <2>2 DEF Rewrites, RosterInv, RosterTypeOK
<1>3. ASSUME NEW h \in Calls, RosterServices(h), ~InsertEnrollment(h), ~LeaveClass(h)  PROVE enrollment' = enrollment
  BY <1>3 DEF RosterServices, CreateClass, ReadClass, FindActiveCode, IssueAccessCode, ArchiveClass, UpdateClass,
     AddStudentProfile, CheckCollisions, ReadEnrollment
<1> QED  BY <1>1, <1>2, <1>3 DEF RosterNext

\* A student who was taken off a roster stays off it, though a login that read the enrolment
\* before goes on to its PIN counters, to activateIfInvited and to a session (removeStudent).
THEOREM LeftIsFinalHolds ==
    ASSUME NEW rows, NEW calls, NEW coming, NEW logins, NEW time, NEW used
    PROVE  Behaviour(rows, calls, coming, logins, time, used) => LeftIsFinal
<1>1. RosterInv /\ LoginInv /\ [Next]_vars =>
        [\A e \in EnrollmentIds : enrollment[e].status = "LEFT" => enrollment'[e].status = "LEFT"]_vars
  <2> SUFFICES ASSUME RosterInv, LoginInv, Next, NEW e \in EnrollmentIds, enrollment[e].status = "LEFT"
               PROVE  enrollment'[e].status = "LEFT"
    OBVIOUS
  <2>1. CASE \E v \in Visits : VisitNext(v)
    BY <2>1, VisitKeepsLeft
  <2>2. CASE RosterNext
    BY <2>2, StaffKeepLeft
  <2>3. CASE Tick \/ TenantChanges
    BY <2>3 DEF Tick, TenantChanges, rosterVars
  <2> QED  BY <2>1, <2>2, <2>3 DEF Next
<1>2. Behaviour(rows, calls, coming, logins, time, used) => [](RosterInv /\ LoginInv) /\ [][Next]_vars
  BY StudentInvariance DEF Behaviour
<1> QED  BY <1>1, <1>2, PTL DEF LeftIsFinal
=============================================================================
