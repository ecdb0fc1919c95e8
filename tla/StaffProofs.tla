---------------------------- MODULE StaffProofs ----------------------------
(***************************************************************************)
(* Proofs about what the staff do: ReviewLoop, for any staff, attempts,    *)
(* items, notes, calls and keys, from any items and notes that the         *)
(* services can have left; and StaffSessions with StaffMemberships, for    *)
(* any tenants, emails, classes, invitations, calls and visits, from any   *)
(* accounts, memberships and sessions that the services can have left.     *)
(*                                                                         *)
(* The invariants say, of every call at every statement, what is still     *)
(* true of the rows it read.  In a review: item versions only grow and a   *)
(* new status is a new version; a note is never unpublished; what a call   *)
(* has made so far is its own.  In a school: accounts and memberships are  *)
(* never deleted and a password is never unset; the status that a call     *)
(* read is still the status unless another call met it in the tenant.  Of  *)
(* a login: who holds a session between its look-up and the write that     *)
(* ends the request.                                                       *)
(***************************************************************************)
EXTENDS ReviewLoop, StaffSessions, ServiceCallsProofs, FiniteSetTheorems

-----------------------------------------------------------------------------
(* What a review knows                                                     *)

Places == {"read", "run", "origin", "resolve", "channels", "link"}

\* A note has one version for each step of its life.
NoteVersion(n) ==
    /\ n.publicationStatus = "ABSENT" => n.recovery = Null
    /\ n.publicationStatus = "DRAFT" => n.version = 1
    /\ n.publicationStatus = "PUBLISHED" => n.version = 2

\* A request under way names what it is about.
Placed(h) == call[h].at \notin {"idle", "done"} =>
    /\ call[h].op \in Ops /\ call[h].key \in Keys /\ call[h].arg \in Args
    /\ Op(h) = "status" => call[h].arg.target \in ItemStatuses
    /\ Op(h) = "create" => call[h].arg.origin \in Items \union {Null}
    /\ Op(h) = "recovery" => call[h].arg.origin \in NoteIds

\* The version that a call acts on was that of the item, and as long as it is, the
\* status is the one that the call read.
StatusSeen(h) == Op(h) = "status" =>
    /\ call[h].at \in {"read", "begin", "run"} => seen[h] <= item[Subject(h)].version
    /\ call[h].at \in {"begin", "run"} => /\ call[h].got \in ItemStatuses
                                          /\ seen[h] = item[Subject(h)].version => call[h].got = item[Subject(h)].status

OriginSeen(h) == Op(h) = "publish" =>
    /\ call[h].at \in {"origin", "resolve"} => Origin(h) # Null
    /\ call[h].at \in {"resolve", "complete"} /\ Origin(h) # Null => seen[h] <= item[Origin(h)].version
    /\ call[h].at = "resolve" /\ seen[h] = item[Origin(h)].version => Active(item[Origin(h)].status)
    /\ call[h].at = "complete" /\ Origin(h) # Null =>
           ~Active(item[Origin(h)].status) \/ seen[h] < item[Origin(h)].version

\* A note that a call found exists for good, and stays published once it was.
Out(n) == feedback[n].publicationStatus \in {"PUBLISHED", "REVOKED"}

NoteSeen(h) ==
    /\ Op(h) \in {"publish", "revoke"} /\ call[h].at \in {"begin", "run", "origin", "resolve", "complete"} =>
           feedback[Subject(h)].publicationStatus # "ABSENT"
    /\ Op(h) = "recovery" /\ call[h].at \in {"begin", "run", "channels", "link", "complete"} =>
           Out(Source(h)) /\ feedback[Source(h)].attempt = Subject(h)
    /\ call[h].at \notin {"complete", "fail", "done"} => feedback[h].publicationStatus = "ABSENT"

\* An assignment that is whole, for the record it was made under.
Whole(s, h) ==
    /\ assignment[h].scope = s /\ assignment[h].channels
    /\ s[1][1] = "recovery" => assignment[h].note \in NoteIds /\ feedback[assignment[h].note].recovery # Null

\* What a call has made so far.
Made(h) ==
    /\ call[h].at \in {"idle", "read", "begin", "run"} => assignment[h] = NoAssignment
    /\ call[h].at \in {"channels", "link"} =>
           /\ assignment[h].scope = Scope(h) /\ Op(h) \in {"recovery", "general"}
           /\ Op(h) = "recovery" => assignment[h].note = Source(h)
           /\ call[h].at = "link" => assignment[h].channels /\ Op(h) = "recovery"
    /\ call[h].at = "complete" /\ Op(h) \in {"recovery", "general"} => Whole(Scope(h), h)
    /\ assignment[h].originType = "RECOVERY_FROM_REVIEW" =>
           /\ assignment[h].note \in NoteIds /\ Out(assignment[h].note)
           /\ feedback[assignment[h].note].attempt = assignment[h].attempt

CallInv(h) == Placed(h) /\ StatusSeen(h) /\ OriginSeen(h) /\ NoteSeen(h) /\ Made(h)

ReviewInv ==
    /\ TypeOK
    /\ \A n \in NoteIds : NoteVersion(feedback[n])
    /\ \A h \in Calls : CallInv(h)
    /\ \A s \in DOMAIN idem : idem[s].status = "COMPLETED" /\ s[1][1] \in {"recovery", "general"} =>
           \E h \in Calls : Whole(s, h)

-----------------------------------------------------------------------------
(* What the names of a request mean                                        *)

OpNames == {"status", "create", "publish", "revoke", "recovery", "general"}

LEMMA OpParts ==
    ASSUME NEW op \in Ops
    PROVE  /\ op # Null /\ op[1] \in OpNames
           /\ op[1] = "status" => op[2] \in Items
           /\ op[1] \in {"create", "recovery"} => op[2] \in Attempts
           /\ op[1] \in {"publish", "revoke"} => op[2] \in NoteIds
<1>1. op # Null
  BY NullOutside
<1>2. CASE op \in {"status"} \X Items
  BY <1>1, <1>2 DEF OpNames
<1>3. CASE op \in {"create", "recovery"} \X Attempts
  BY <1>1, <1>3 DEF OpNames
<1>4. CASE op \in {"publish", "revoke"} \X NoteIds
  BY <1>1, <1>4 DEF OpNames
<1>5. CASE op = <<"general", Null>>
  BY <1>1, <1>5 DEF OpNames
<1> QED  BY <1>2, <1>3, <1>4, <1>5 DEF Ops

\* A request that is not under way has no operation that a service looks for.
LEMMA NamedOp ==
    ASSUME NEW h, call[h].op = Null
    PROVE  Op(h) \notin OpNames
  BY NullOutside DEF Op, OpNames

LEMMA RequestFacts ==
    ASSUME ReviewInv, NEW h \in Calls, call[h].at \notin {"idle", "done"}
    PROVE  /\ call[h].op \in Ops /\ call[h].key \in Keys /\ call[h].arg \in Args
           /\ Op(h) = call[h].op[1] /\ Op(h) \in OpNames
           /\ Op(h) = "status" => Subject(h) \in Items /\ call[h].arg.target \in ItemStatuses
           /\ Op(h) \in {"create", "recovery"} => Subject(h) \in Attempts
           /\ Op(h) = "create" => call[h].arg.origin \in Items \union {Null}
           /\ Op(h) = "recovery" => Source(h) \in NoteIds
           /\ Op(h) \in {"publish", "revoke"} => Subject(h) \in NoteIds /\ Origin(h) \in Items \union {Null}
<1>1. Placed(h)
  BY DEF ReviewInv, CallInv
<1>2. /\ call[h].op \in Ops /\ call[h].key \in Keys /\ call[h].arg \in Args
      /\ Op(h) = "status" => call[h].arg.target \in ItemStatuses
      /\ Op(h) = "create" => call[h].arg.origin \in Items \union {Null}
      /\ Op(h) = "recovery" => call[h].arg.origin \in NoteIds
  BY <1>1 DEF Placed
<1>3. Op(h) = call[h].op[1] /\ Subject(h) = call[h].op[2] /\ Source(h) = call[h].arg.origin
  BY <1>2, OpParts DEF Op, Subject, Source
<1>4. \A n \in NoteIds : feedback[n].origin \in Items \union {Null}
  BY DEF ReviewInv, TypeOK, NoteRows
<1> QED  BY <1>2, <1>3, <1>4, OpParts DEF Origin

\* The names stay those of the request.
LEMMA SameNames ==
    ASSUME NEW h, call'[h].op = call[h].op, call'[h].arg = call[h].arg, call'[h].key = call[h].key
    PROVE  /\ Op(h)' = Op(h) /\ Subject(h)' = Subject(h) /\ Source(h)' = Source(h) /\ Scope(h)' = Scope(h)
           /\ Origin(h)' = feedback'[Subject(h)].origin
  BY DEF Op, Subject, Source, Scope, Origin

-----------------------------------------------------------------------------
(* A step of one call, as the others see it                                *)

ItemsGrow == \A i \in Items : item'[i] = item[i] \/ item'[i].version > item[i].version

NotesGrow(h) == \A n \in NoteIds :
    /\ feedback[n].publicationStatus = "ABSENT" /\ n # h => feedback'[n].publicationStatus = "ABSENT"
    /\ feedback[n].publicationStatus # "ABSENT" =>
           /\ feedback'[n].publicationStatus # "ABSENT"
           /\ feedback'[n].attempt = feedback[n].attempt /\ feedback'[n].origin = feedback[n].origin
    /\ Out(n) => Out(n)'
    /\ feedback[n].recovery # Null => feedback'[n].recovery # Null

\* An assignment that has its channels stays what it is.
OwnAssignment(h) ==
    /\ \A g \in Calls \ {h} : assignment'[g] = assignment[g]
    /\ assignment[h].channels => /\ assignment'[h].channels /\ assignment'[h].scope = assignment[h].scope
                                 /\ assignment'[h].note = assignment[h].note

Moves(h) ==
    /\ OthersStay(h) /\ (\A g \in Calls \ {h} : seen'[g] = seen[g])
    /\ ItemsGrow /\ NotesGrow(h) /\ OwnAssignment(h)

LEMMA QuietMoves ==
    ASSUME NEW h \in Calls, OthersStay(h), \A g \in Calls \ {h} : seen'[g] = seen[g],
           UNCHANGED <<item, feedback, assignment>>
    PROVE  Moves(h)
  BY DEF Moves, ItemsGrow, NotesGrow, OwnAssignment, Out

LEMMA OthersKeep ==
    ASSUME ReviewInv, TypeOK', NEW h \in Calls, Moves(h), NEW g \in Calls, g # h
    PROVE  CallInv(g)'
<1>1. /\ call'[g] = call[g] /\ seen'[g] = seen[g] /\ assignment'[g] = assignment[g]
      /\ ItemsGrow /\ NotesGrow(h) /\ CallInv(g)
  BY DEF Moves, OthersStay, OwnAssignment, ReviewInv
<1>2. Op(g)' = Op(g) /\ Subject(g)' = Subject(g) /\ Source(g)' = Source(g) /\ Scope(g)' = Scope(g)
  BY <1>1, SameNames
<1>3. /\ \A i \in Items : item[i].version \in Nat /\ item'[i].version \in Nat
      /\ seen[g] \in Nat
  BY ConstantsAssumption DEF ReviewInv, TypeOK, ItemRows
<1>4. Placed(g)'
  BY <1>1, <1>2 DEF CallInv, Placed
<1>5. StatusSeen(g)'
  <2>1. SUFFICES ASSUME Op(g) = "status", call[g].at \in {"read", "begin", "run"} PROVE StatusSeen(g)'
    BY <1>1, <1>2 DEF StatusSeen
  <2>2. PICK i \in Items : i = Subject(g)
    BY <2>1, RequestFacts
  <2>3. item'[i] = item[i] \/ item'[i].version > item[i].version
    BY <1>1 DEF ItemsGrow
  <2>4. /\ seen[g] <= item[i].version
        /\ call[g].at \in {"begin", "run"} => /\ call[g].got \in ItemStatuses
                                              /\ seen[g] = item[i].version => call[g].got = item[i].status
    BY <1>1, <2>1, <2>2 DEF CallInv, StatusSeen
  <2>5. /\ seen[g] <= item'[i].version
        /\ call[g].at \in {"begin", "run"} => /\ call[g].got \in ItemStatuses
                                              /\ seen[g] = item'[i].version => call[g].got = item'[i].status
    BY <1>3, <2>3, <2>4
  <2> QED  BY <1>1, <1>2, <2>2, <2>5 DEF StatusSeen
<1>6. OriginSeen(g)'
  <2>1. SUFFICES ASSUME Op(g) = "publish", call[g].at \in {"origin", "resolve", "complete"} PROVE OriginSeen(g)'
    BY <1>1, <1>2 DEF OriginSeen
  <2>2. PICK n \in NoteIds : n = Subject(g)
    BY <2>1, RequestFacts
  <2>3. feedback[n].publicationStatus # "ABSENT"
    BY <1>1, <2>1, <2>2 DEF CallInv, NoteSeen
  <2>4. feedback'[n].origin = feedback[n].origin /\ Origin(g) = feedback[n].origin
    BY <1>1, <2>2, <2>3 DEF NotesGrow, Origin
  <2>5. Origin(g)' = Origin(g)
    BY <1>1, <2>2, <2>4, SameNames
  <2>6. Origin(g) \in Items \union {Null}
    BY <2>1, RequestFacts
  <2>7. ASSUME NEW i \in Items, i = Origin(g), i # Null
        PROVE  /\ call[g].at \in {"resolve", "complete"} => seen[g] <= item'[i].version
               /\ call[g].at = "resolve" /\ seen[g] = item'[i].version => Active(item'[i].status)
               /\ call[g].at = "complete" => ~Active(item'[i].status) \/ seen[g] < item'[i].version
    <3>1. item'[i] = item[i] \/ item'[i].version > item[i].version
      BY <1>1 DEF ItemsGrow
    <3>2. /\ call[g].at \in {"resolve", "complete"} => seen[g] <= item[i].version
          /\ call[g].at = "resolve" /\ seen[g] = item[i].version => Active(item[i].status)
          /\ call[g].at = "complete" => ~Active(item[i].status) \/ seen[g] < item[i].version
      BY <1>1, <2>1, <2>7 DEF CallInv, OriginSeen
    <3> QED  BY <1>3, <3>1, <3>2
  <2>8. call[g].at \in {"origin", "resolve"} => Origin(g) # Null
    BY <1>1, <2>1 DEF CallInv, OriginSeen
  <2> QED  BY <1>1, <1>2, <2>5, <2>6, <2>7, <2>8 DEF OriginSeen
<1>7. NoteSeen(g)'
  <2>1. g \in NoteIds /\ NoteSeen(g)
    BY <1>1 DEF NoteIds, CallInv
  <2>2. call[g].at \notin {"complete", "fail", "done"} => feedback'[g].publicationStatus = "ABSENT"
    BY <1>1, <2>1 DEF NoteSeen, NotesGrow
  <2>3. ASSUME Op(g) \in {"publish", "revoke"}, call[g].at \in {"begin", "run", "origin", "resolve", "complete"}
        PROVE  feedback'[Subject(g)].publicationStatus # "ABSENT"
    <3>1. Subject(g) \in NoteIds
      BY <2>3, RequestFacts
    <3> QED  BY <1>1, <2>1, <2>3, <3>1 DEF NoteSeen, NotesGrow
  <2>4. ASSUME Op(g) = "recovery", call[g].at \in {"begin", "run", "channels", "link", "complete"}
        PROVE  Out(Source(g))' /\ feedback'[Source(g)].attempt = Subject(g)
    <3>1. PICK n \in NoteIds : n = Source(g)
      BY <2>4, RequestFacts
    <3>2. Out(n) /\ feedback[n].attempt = Subject(g)
      BY <2>1, <2>4, <3>1 DEF NoteSeen
    <3>3. Out(n)' /\ feedback'[n].attempt = feedback[n].attempt
      BY <1>1, <3>2 DEF NotesGrow, Out
    <3> QED  BY <1>2, <3>1, <3>2, <3>3 DEF Out
  <2> QED  BY <1>1, <1>2, <2>2, <2>3, <2>4 DEF NoteSeen, Out
<1>8. Made(g)'
  <2>1. Made(g)
    BY <1>1 DEF CallInv
  <2>2. Whole(Scope(g), g) => Whole(Scope(g), g)'
    BY <1>1, <1>2 DEF Whole, NotesGrow
  <2>3. ASSUME assignment[g].originType = "RECOVERY_FROM_REVIEW"
        PROVE  /\ assignment[g].note \in NoteIds /\ Out(assignment[g].note)'
               /\ feedback'[assignment[g].note].attempt = assignment[g].attempt
    <3>1. PICK n \in NoteIds : n = assignment[g].note
      BY <2>1, <2>3 DEF Made
    <3>2. Out(n) /\ feedback[n].attempt = assignment[g].attempt
      BY <2>1, <2>3, <3>1 DEF Made
    <3>3. Out(n)' /\ feedback'[n].attempt = feedback[n].attempt
      BY <1>1, <3>2 DEF NotesGrow, Out
    <3> QED  BY <1>1, <3>1, <3>2, <3>3 DEF Out
  <2> QED  BY <1>1, <1>2, <2>1, <2>2, <2>3 DEF Made, Out
<1> QED  BY <1>4, <1>5, <1>6, <1>7, <1>8 DEF CallInv

LEMMA RecordsKept ==
    ASSUME ReviewInv, NEW h \in Calls, Moves(h), NEW S, CompletesAtMost(S),
           \A s \in S : s[1][1] \in {"recovery", "general"} => Whole(s, h)
    PROVE  \A s \in DOMAIN idem' : idem'[s].status = "COMPLETED" /\ s[1][1] \in {"recovery", "general"} =>
               \E g \in Calls : Whole(s, g)'
<1> SUFFICES ASSUME NEW s \in DOMAIN idem', idem'[s].status = "COMPLETED", s[1][1] \in {"recovery", "general"}
             PROVE  \E g \in Calls : Whole(s, g)'
  OBVIOUS
<1>1. PICK g \in Calls : Whole(s, g)
  BY DEF CompletesAtMost, ReviewInv
<1>2. /\ assignment'[g].scope = assignment[g].scope /\ assignment'[g].channels
      /\ assignment'[g].note = assignment[g].note
  BY <1>1 DEF Moves, OwnAssignment, Whole
<1>3. Whole(s, g)'
  BY <1>1, <1>2 DEF Whole, Moves, NotesGrow
<1> QED  BY <1>3

\* What a step of one call has to show.
LEMMA StepKeeps ==
    ASSUME ReviewInv, NEW h \in Calls, Moves(h), TypeOK', \A n \in NoteIds : NoteVersion(feedback'[n]), CallInv(h)',
           NEW S, CompletesAtMost(S), \A s \in S : s[1][1] \in {"recovery", "general"} => Whole(s, h)
    PROVE  ReviewInv'
<1>1. \A g \in Calls : CallInv(g)'
  BY OthersKeep
<1>2. \A s \in DOMAIN idem' : idem'[s].status = "COMPLETED" /\ s[1][1] \in {"recovery", "general"} =>
          \E g \in Calls : Whole(s, g)'
  BY RecordsKept
<1> QED  BY <1>1, <1>2 DEF ReviewInv

\* The tables keep their types, and a record that is not touched stays as it is.
LEMMA QuietTypes ==
    ASSUME ReviewInv, UNCHANGED <<item, feedback, assignment>>,
           CallsTypeOK(Ops, Args, ItemStatuses, Places)',
           actor' \in [Calls -> Staff \union {Null}], seen' \in [Calls -> 0 .. MaxVersion]
    PROVE  TypeOK' /\ \A n \in NoteIds : NoteVersion(feedback'[n])
  BY DEF ReviewInv, TypeOK, Places

\* A call that is answered, or on its way to fail(), owes nothing but what it has made.
LEMMA EndedOwes ==
    ASSUME ReviewInv, NEW h \in Calls, UNCHANGED <<feedback, assignment>>,
           \/ call'[h].at = "done"
           \/ /\ call'[h].at = "fail" /\ call[h].at \notin {"idle", "done"}
              /\ call'[h].op = call[h].op /\ call'[h].arg = call[h].arg /\ call'[h].key = call[h].key
    PROVE  CallInv(h)'
<1>1. CallInv(h)
  BY DEF ReviewInv
<1>2. Placed(h)'
  <2>1. CASE call'[h].at = "done"
    BY <2>1 DEF Placed
  <2>2. CASE call'[h].at = "fail"
    BY <1>1, <2>2, SameNames DEF CallInv, Placed
  <2> QED  BY <2>1, <2>2
<1>3. StatusSeen(h)' /\ OriginSeen(h)' /\ NoteSeen(h)'
  BY DEF StatusSeen, OriginSeen, NoteSeen
<1>4. Made(h)'
  BY <1>1 DEF CallInv, Made, Out
<1> QED  BY <1>2, <1>3, <1>4 DEF CallInv

LEMMA CallTypes == ReviewInv => CallsTypeOK(Ops, Args, ItemStatuses, Places)
  BY DEF ReviewInv, TypeOK, Places

\* begin(), the ends of the try blocks, and failures: the tables stay.
LEMMA FrameKeeps ==
    ASSUME ReviewInv, NEW h \in Calls, UNCHANGED reviewVars,
           \/ BeginStatus(h) \/ BeginCreate(h) \/ BeginPublish(h) \/ BeginRevoke(h) \/ BeginRecovery(h) \/ BeginGeneral(h)
           \/ CompleteRecord(h) \/ FailRecord(h) \/ StatementFails(h) \/ ProcessDies(h)
    PROVE  ReviewInv'
<1>0. /\ CallsTypeOK(Ops, Args, ItemStatuses, Places) /\ UNCHANGED <<item, feedback, assignment, actor, seen>>
      /\ actor' \in [Calls -> Staff \union {Null}] /\ seen' \in [Calls -> 0 .. MaxVersion]
  BY CallTypes DEF reviewVars, ReviewInv, TypeOK
<1>1. CASE CompleteRecord(h) \/ FailRecord(h)
  <2>1. PICK S : S = IF call[h].at = "complete" THEN {Scope(h)} ELSE {}
    OBVIOUS
  <2>2. /\ CallsTypeOK(Ops, Args, ItemStatuses, Places)' /\ OthersStay(h) /\ call'[h].at = "done"
        /\ call[h].at \in {"complete", "fail"} /\ CompletesAtMost(S)
    BY <1>0, <1>1, <2>1, SettleEffect
  <2>3. ASSUME NEW s \in S, s[1][1] \in {"recovery", "general"} PROVE Whole(s, h)
    <3>1. s = Scope(h) /\ call[h].at = "complete"
      BY <2>1, <2>3
    <3>2. s[1][1] = Op(h)
      BY <3>1, RequestFacts DEF Scope
    <3> QED  BY <2>3, <3>1, <3>2 DEF ReviewInv, CallInv, Made
  <2>4. Moves(h)
    BY <1>0, <2>2, QuietMoves
  <2>5. TypeOK' /\ \A n \in NoteIds : NoteVersion(feedback'[n])
    BY <1>0, <2>2, QuietTypes
  <2>6. CallInv(h)'
    BY <1>0, <2>2, EndedOwes
  <2> QED  BY <2>2, <2>3, <2>4, <2>5, <2>6, StepKeeps
<1>2. CASE StatementFails(h) \/ ProcessDies(h)
  <2>1. /\ CallsTypeOK(Ops, Args, ItemStatuses, Places)' /\ OthersStay(h) /\ idem' = idem
        /\ call[h].at \notin {"idle", "done"}
        /\ call'[h].at = "done" \/ (call'[h].at = "fail" /\ SameRequest(h))
    BY <1>0, <1>2, FaultEffect
  <2>2. CompletesAtMost({})
    BY <2>1 DEF CompletesAtMost
  <2>3. Moves(h)
    BY <1>0, <2>1, QuietMoves
  <2>4. TypeOK' /\ \A n \in NoteIds : NoteVersion(feedback'[n])
    BY <1>0, <2>1, QuietTypes
  <2>5. CallInv(h)'
    BY <1>0, <2>1, EndedOwes DEF SameRequest
  <2> QED  BY <2>2, <2>3, <2>4, <2>5, StepKeeps
<1>3. CASE \/ BeginStatus(h) \/ BeginCreate(h) \/ BeginPublish(h) \/ BeginRevoke(h) \/ BeginRecovery(h)
           \/ BeginGeneral(h)
  <2>1. Begin(h, "run") /\ "run" \in Places
    BY <1>3 DEF BeginStatus, BeginCreate, BeginPublish, BeginRevoke, BeginRecovery, BeginGeneral, Places
  <2>2. call[h].at = "begin"
    BY <2>1 DEF Begin
  <2>3. call[h].op \in Ops /\ call[h].arg \in Args /\ call[h].key \in Keys
    BY <2>2, RequestFacts
  <2>4. /\ CallsTypeOK(Ops, Args, ItemStatuses, Places)' /\ OthersStay(h) /\ CompletesAtMost({})
        /\ \/ call'[h].at = "done"
           \/ /\ call'[h].at = "run" /\ call'[h].op = call[h].op /\ call'[h].arg = call[h].arg
              /\ call'[h].key = call[h].key /\ call'[h].got = call[h].got
    BY <1>0, <2>1, <2>3, BeginEffect
  <2>5. Moves(h)
    BY <1>0, <2>4, QuietMoves
  <2>6. TypeOK' /\ \A n \in NoteIds : NoteVersion(feedback'[n])
    BY <1>0, <2>4, QuietTypes
  <2>7. CallInv(h)'
    <3>1. CASE call'[h].at = "done"
      BY <1>0, <3>1, EndedOwes
    <3>2. CASE call'[h].at = "run"
      <4>1. /\ Op(h)' = Op(h) /\ Subject(h)' = Subject(h) /\ Source(h)' = Source(h) /\ CallInv(h)
            /\ call'[h].op = call[h].op /\ call'[h].arg = call[h].arg
            /\ call'[h].key = call[h].key /\ call'[h].got = call[h].got
        BY <2>4, <3>2, SameNames DEF ReviewInv
      <4>2. Placed(h)'
        BY <2>2, <4>1 DEF CallInv, Placed
      <4>3. StatusSeen(h)' /\ OriginSeen(h)'
        BY <1>0, <2>2, <3>2, <4>1 DEF CallInv, StatusSeen, OriginSeen
      <4>4. NoteSeen(h)'
        BY <1>0, <2>2, <3>2, <4>1 DEF CallInv, NoteSeen, Out
      <4>5. Made(h)'
        BY <1>0, <2>2, <3>2, <4>1 DEF CallInv, Made, Out
      <4> QED  BY <4>2, <4>3, <4>4, <4>5 DEF CallInv
    <3> QED  BY <2>4, <3>1, <3>2
  <2> QED  BY <2>4, <2>5, <2>6, <2>7, StepKeeps
<1> QED  BY <1>1, <1>2, <1>3

-----------------------------------------------------------------------------
(* The routes                                                              *)

LEMMA AsksKeeps ==
    ASSUME ReviewInv, NEW h \in Calls, NEW who \in Staff, NEW key \in Keys, NEW op \in OpNames, NEW id,
           NEW body \in Args, NEW entitled, NEW version \in 0 .. MaxVersion, NEW place \in {"read", "begin"},
           <<op, id>> \in Ops, op # "general" => place = "read",
           op = "status" => body.target \in ItemStatuses /\ id \in Items /\ version <= item[id].version,
           op = "create" => body.origin \in Items \union {Null},
           op = "recovery" => body.origin \in NoteIds,
           Asks(h, who, op, id, body, key, entitled, version, place)
    PROVE  ReviewInv'
<1>1. /\ Admit(h, <<op, id>>, body, key, entitled, place) /\ UNCHANGED <<item, feedback, assignment>>
      /\ actor' = [actor EXCEPT ![h] = who] /\ seen' = [seen EXCEPT ![h] = version]
  BY DEF Asks
<1>2. PICK o \in Ops : o = <<op, id>>
  OBVIOUS
<1>3. /\ CallsTypeOK(Ops, Args, ItemStatuses, Places)' /\ OthersStay(h) /\ call[h].at = "idle" /\ idem' = idem
      /\ \/ call'[h].at = "done"
         \/ /\ entitled /\ call'[h].at = place /\ call'[h].op = o /\ call'[h].arg = body
            /\ call'[h].key = key /\ call'[h].got = Null
  <2>1. place \in Places \union {"begin"} /\ Admit(h, o, body, key, entitled, place)
    BY <1>1, <1>2 DEF Places
  <2> QED  BY <2>1, CallTypes, AdmitEffect
<1>4. /\ actor' \in [Calls -> Staff \union {Null}] /\ seen' \in [Calls -> 0 .. MaxVersion]
      /\ seen'[h] = version /\ \A g \in Calls \ {h} : seen'[g] = seen[g]
  BY <1>1 DEF ReviewInv, TypeOK
<1>5. Moves(h)
  BY <1>1, <1>3, <1>4, QuietMoves
<1>6. TypeOK' /\ \A n \in NoteIds : NoteVersion(feedback'[n])
  BY <1>1, <1>3, <1>4, QuietTypes
<1>7. CompletesAtMost({})
  BY <1>3 DEF CompletesAtMost
<1>8. CallInv(h)'
  <2>1. CASE call'[h].at = "done"
    BY <1>1, <2>1, EndedOwes
  <2>2. CASE /\ call'[h].at = place /\ call'[h].op = o /\ call'[h].arg = body
             /\ call'[h].key = key /\ call'[h].got = Null
    <3>1. Op(h)' = op /\ Subject(h)' = id
      BY <1>2, <2>2, OpParts DEF Op, Subject
    <3>2. Placed(h)'
      BY <2>2, <3>1 DEF Placed
    <3>3. StatusSeen(h)'
      BY <1>1, <1>4, <2>2, <3>1 DEF StatusSeen
    <3>4. OriginSeen(h)'
      BY <2>2, <3>1 DEF OriginSeen
    <3>5. feedback'[h].publicationStatus = "ABSENT"
      BY <1>1, <1>3 DEF ReviewInv, CallInv, NoteSeen
    <3>6. NoteSeen(h)'
      BY <2>2, <3>1, <3>5 DEF NoteSeen, OpNames
    <3>7. assignment'[h] = NoAssignment
      BY <1>1, <1>3 DEF ReviewInv, CallInv, Made
    <3>8. NoAssignment.originType # "RECOVERY_FROM_REVIEW"
      BY NullOutside DEF NoAssignment
    <3>9. Made(h)'
      BY <2>2, <3>7, <3>8 DEF Made
    <3> QED  BY <3>2, <3>3, <3>4, <3>6, <3>9 DEF CallInv
  <2> QED  BY <1>3, <2>1, <2>2
<1> QED  BY <1>5, <1>6, <1>7, <1>8, StepKeeps

LEMMA RoutesKeep ==
    ASSUME ReviewInv, NEW h \in Calls, NEW who \in Staff, NEW key \in Keys, Routes(h, who, key)
    PROVE  ReviewInv'
<1>0. /\ MaxVersion \in Nat /\ 0 \in 0 .. MaxVersion /\ (1 .. MaxVersion) \subseteq (0 .. MaxVersion)
      /\ NoBody \in Args /\ "read" \in {"read", "begin"} /\ "begin" \in {"read", "begin"}
  BY ConstantsAssumption DEF NoBody, Args
<1>1. CASE \E i \in Items, target \in ItemStatuses, version \in 1 .. MaxVersion :
              version <= item[i].version /\ PostReviewStatus(h, who, key, i, target, version)
  <2>1. PICK i \in Items, target \in ItemStatuses, version \in 1 .. MaxVersion :
              version <= item[i].version /\ PostReviewStatus(h, who, key, i, target, version)
    BY <1>1
  <2>2. PICK body : body = TransitionReviewItemStatus(target)
    OBVIOUS
  <2>3. body \in Args /\ body.target = target
    BY <2>2 DEF TransitionReviewItemStatus, NoBody, Args
  <2>4. Asks(h, who, "status", i, body, key, TRUE, version, "read")
    BY <2>1, <2>2 DEF PostReviewStatus
  <2>5. <<"status", i>> \in Ops /\ "status" \in OpNames /\ version \in 0 .. MaxVersion
    BY <1>0 DEF Ops, OpNames
  <2> QED  BY <1>0, <2>1, <2>3, <2>4, <2>5, AsksKeeps
<1>2. CASE \E a \in Attempts, origin \in Items \union {Null} : PostAttemptFeedback(h, who, key, a, origin)
  <2>1. PICK a \in Attempts, origin \in Items \union {Null} : PostAttemptFeedback(h, who, key, a, origin)
    BY <1>2
  <2>2. PICK body : body = CreateTeacherFeedback(origin)
    OBVIOUS
  <2>3. body \in Args /\ body.origin = origin
    BY <2>2 DEF CreateTeacherFeedback, NoBody, Args
  <2>4. Asks(h, who, "create", a, body, key, TRUE, 0, "read")
    BY <2>1, <2>2 DEF PostAttemptFeedback
  <2>5. <<"create", a>> \in Ops /\ "create" \in OpNames
    BY DEF Ops, OpNames
  <2> QED  BY <1>0, <2>3, <2>4, <2>5, AsksKeeps
<1>3. CASE \E n \in NoteIds, version \in 1 .. MaxVersion :
              /\ version <= feedback[n].version
              /\ PostFeedbackPublish(h, who, key, n, version) \/ PostFeedbackRevoke(h, who, key, n, version)
  <2>1. PICK n \in NoteIds, version \in 1 .. MaxVersion :
              PostFeedbackPublish(h, who, key, n, version) \/ PostFeedbackRevoke(h, who, key, n, version)
    BY <1>3
  <2>2. version \in 0 .. MaxVersion
    BY <1>0
  <2>3. <<"publish", n>> \in Ops /\ <<"revoke", n>> \in Ops /\ "publish" \in OpNames /\ "revoke" \in OpNames
    BY DEF Ops, OpNames
  <2>4. CASE Asks(h, who, "publish", n, NoBody, key, TRUE, version, "read")
    BY <1>0, <2>2, <2>3, <2>4, AsksKeeps
  <2>5. CASE Asks(h, who, "revoke", n, NoBody, key, TRUE, version, "read")
    BY <1>0, <2>2, <2>3, <2>5, AsksKeeps
  <2> QED  BY <2>1, <2>4, <2>5 DEF PostFeedbackPublish, PostFeedbackRevoke
<1>4. CASE \E a \in Attempts, n \in NoteIds, bundle \in Bundles : PostRecoveryAssignment(h, who, key, a, n, bundle)
  <2>1. PICK a \in Attempts, n \in NoteIds, bundle \in Bundles : PostRecoveryAssignment(h, who, key, a, n, bundle)
    BY <1>4
  <2>2. PICK body : body = CreateRecoveryAssignment(n, bundle)
    OBVIOUS
  <2>3. body \in Args /\ body.origin = n
    BY <2>2 DEF CreateRecoveryAssignment, NoBody, Args
  <2>4. Asks(h, who, "recovery", a, body, key, TRUE, 0, "read")
    BY <2>1, <2>2 DEF PostRecoveryAssignment
  <2>5. <<"recovery", a>> \in Ops /\ "recovery" \in OpNames
    BY DEF Ops, OpNames
  <2> QED  BY <1>0, <2>3, <2>4, <2>5, AsksKeeps
<1>5. CASE \E class \in Classes, bundle \in Bundles : PostAssignments(h, who, key, class, bundle)
  <2>1. PICK class \in Classes, bundle \in Bundles : PostAssignments(h, who, key, class, bundle)
    BY <1>5
  <2>2. PICK body : body = CreateGeneralAssignment(bundle, class)
    OBVIOUS
  <2>3. body \in Args
    BY <2>2 DEF CreateGeneralAssignment, NoBody, Args
  <2>4. PICK entitled : entitled = (/\ HasStaffCapability(StaffRole[who], "assignment.create")
                                    /\ IsClassInScope(StaffRole[who], StaffScope[who], class))
    OBVIOUS
  <2>5. Asks(h, who, "general", Null, body, key, entitled, 0, "begin")
    BY <2>1, <2>2, <2>4 DEF PostAssignments
  <2>6. <<"general", Null>> \in Ops /\ "general" \in OpNames
    BY DEF Ops, OpNames
  <2> QED  BY <1>0, <2>3, <2>5, <2>6, AsksKeeps
<1> QED  BY <1>1, <1>2, <1>3, <1>4, <1>5 DEF Routes

-----------------------------------------------------------------------------
(* The statements of the services                                          *)

\* A request that goes on keeps its names.
LEMMA GotoNames ==
    ASSUME ReviewInv, NEW h \in Calls, NEW place \in Places \union {"begin", "complete", "fail"},
           NEW got \in ItemStatuses \union {Null, "retryable", "terminal"}, Goto(h, place, got)
    PROVE  /\ call' \in [Calls -> CallRows(Ops, Args, ItemStatuses, Places)] /\ OthersStay(h)
           /\ call'[h].at = place /\ call'[h].got = got
           /\ call'[h].op = call[h].op /\ call'[h].arg = call[h].arg /\ call'[h].key = call[h].key
           /\ Op(h)' = Op(h) /\ Subject(h)' = Subject(h) /\ Source(h)' = Source(h) /\ Scope(h)' = Scope(h)
           /\ Origin(h)' = feedback'[Subject(h)].origin
<1>1. /\ call' \in [Calls -> CallRows(Ops, Args, ItemStatuses, Places)] /\ OthersStay(h)
      /\ SameRequest(h) /\ call'[h].at = place /\ call'[h].got = got
  BY CallTypes, GotoEffect
<1> QED  BY <1>1, SameNames DEF SameRequest

\* The tables after a step.
TablesOK ==
    /\ item \in [Items -> ItemRows] /\ feedback \in [NoteIds -> NoteRows]
    /\ \A n \in NoteIds : NoteCheck(feedback[n]) /\ NoteVersion(feedback[n])
    /\ assignment \in [Calls -> AssignmentRows((Ops \X Keys) \union {<<Null, Null>>})]
    /\ actor \in [Calls -> Staff \union {Null}] /\ seen \in [Calls -> 0 .. MaxVersion]

LEMMA TablesTyped == ReviewInv => TablesOK
  BY DEF ReviewInv, TypeOK, TablesOK

LEMMA GotoKeeps ==
    ASSUME ReviewInv, NEW h \in Calls, call[h].at \notin {"idle", "done"},
           NEW place \in Places \union {"begin", "complete"}, NEW got \in ItemStatuses \union {Null},
           Goto(h, place, got), idem' = idem, TablesOK',
           \A g \in Calls \ {h} : seen'[g] = seen[g], ItemsGrow, NotesGrow(h), OwnAssignment(h),
           StatusSeen(h)', OriginSeen(h)', NoteSeen(h)', Made(h)'
    PROVE  ReviewInv'
<1>1. /\ call' \in [Calls -> CallRows(Ops, Args, ItemStatuses, Places)] /\ OthersStay(h)
      /\ call'[h].op = call[h].op /\ call'[h].arg = call[h].arg /\ call'[h].key = call[h].key
      /\ Op(h)' = Op(h)
  BY GotoNames
<1>2. CallsTypeOK(Ops, Args, ItemStatuses, Places)'
  BY <1>1, CallTypes DEF CallsTypeOK
<1>3. TypeOK' /\ \A n \in NoteIds : NoteVersion(feedback'[n])
  BY <1>2 DEF TypeOK, TablesOK, Places
<1>4. Placed(h)'
  BY <1>1 DEF ReviewInv, CallInv, Placed
<1>5. Moves(h) /\ CompletesAtMost({})
  BY <1>1 DEF Moves, CompletesAtMost
<1>6. CallInv(h)'
  BY <1>4 DEF CallInv
<1> QED  BY <1>3, <1>5, <1>6, StepKeeps

\* A request that is answered early, or whose statement throws.
LEMMA LeavesKeep ==
    ASSUME ReviewInv, NEW h \in Calls, call[h].at \notin {"idle", "done"},
           UNCHANGED <<item, feedback, assignment, actor, seen, idem>>, NEW code, NEW retryable \in BOOLEAN,
           Answer(h, code) \/ Throws(h, code, retryable)
    PROVE  ReviewInv'
<1>1. /\ call' \in [Calls -> CallRows(Ops, Args, ItemStatuses, Places)] /\ OthersStay(h)
      /\ \/ call'[h].at = "done"
         \/ /\ call'[h].at = "fail"
            /\ call'[h].op = call[h].op /\ call'[h].arg = call[h].arg /\ call'[h].key = call[h].key
  <2>1. CASE Answer(h, code)
    BY <2>1, CallTypes, AnswerEffect
  <2>2. CASE Throws(h, code, retryable)
    <3>1. PICK got \in {"retryable", "terminal"} : Goto(h, "fail", got)
      BY <2>2 DEF Throws
    <3> QED  BY <3>1, GotoNames
  <2> QED  BY <2>1, <2>2
<1>2. CallsTypeOK(Ops, Args, ItemStatuses, Places)'
  BY <1>1, CallTypes DEF CallsTypeOK
<1>3. TypeOK' /\ \A n \in NoteIds : NoteVersion(feedback'[n])
  BY <1>2, TablesTyped, QuietTypes DEF TablesOK
<1>4. Moves(h) /\ CompletesAtMost({})
  BY <1>1, QuietMoves DEF CompletesAtMost
<1>5. CallInv(h)'
  BY <1>1, EndedOwes
<1> QED  BY <1>3, <1>4, <1>5, StepKeeps

\* What was read holds still.
LEMMA ReadKeeps ==
    ASSUME ReviewInv, NEW h \in Calls, call[h].at = "read",
           UNCHANGED <<item, feedback, assignment, actor, seen, idem>>,
           NEW got \in ItemStatuses \union {Null}, Goto(h, "begin", got),
           Op(h) = "status" => got = item[Subject(h)].status /\ Subject(h) \in Items,
           Op(h) \in {"publish", "revoke"} => feedback[Subject(h)].publicationStatus # "ABSENT",
           Op(h) = "recovery" => Out(Source(h)) /\ feedback[Source(h)].attempt = Subject(h)
    PROVE  ReviewInv'
<1>1. /\ call'[h].at = "begin" /\ call'[h].got = got
      /\ Op(h)' = Op(h) /\ Subject(h)' = Subject(h) /\ Source(h)' = Source(h) /\ Scope(h)' = Scope(h)
  BY GotoNames
<1>2. ItemsGrow /\ NotesGrow(h) /\ OwnAssignment(h) /\ \A g \in Calls \ {h} : seen'[g] = seen[g]
  BY DEF ItemsGrow, NotesGrow, OwnAssignment, Out
<1>3. TablesOK'
  BY TablesTyped DEF TablesOK
<1>4. CallInv(h)
  BY DEF ReviewInv
<1>5. StatusSeen(h)'
  <2>1. Op(h) = "status" => got \in ItemStatuses /\ seen[h] <= item[Subject(h)].version
    BY <1>4, TablesTyped DEF CallInv, StatusSeen, TablesOK, ItemRows
  <2> QED  BY <1>1, <2>1 DEF StatusSeen
<1>6. OriginSeen(h)'
  BY <1>1 DEF OriginSeen
<1>7. NoteSeen(h)'
  BY <1>1, <1>4 DEF CallInv, NoteSeen, Out
<1>8. Made(h)'
  BY <1>1, <1>4 DEF CallInv, Made, Out
<1> QED  BY <1>2, <1>3, <1>5, <1>6, <1>7, <1>8, GotoKeeps

LEMMA ReadsKeep ==
    ASSUME ReviewInv, NEW h \in Calls,
           \/ ReadItem(h) \/ ResolveAttemptScope(h) \/ ReadDraft(h) \/ ReadPublished(h) \/ ReadSource(h)
    PROVE  ReviewInv'
<1>0. /\ UNCHANGED <<item, feedback, assignment, actor, seen, idem>> /\ call[h].at = "read"
      /\ call[h].at \notin {"idle", "done"} /\ TRUE \in BOOLEAN /\ Null \in ItemStatuses \union {Null}
  BY DEF ReadItem, ResolveAttemptScope, ReadDraft, ReadPublished, ReadFeedback, ReadSource, At
<1>1. ASSUME NEW code, Answer(h, code) PROVE ReviewInv'
  BY <1>0, <1>1, LeavesKeep
<1>2. CASE ReadItem(h)
  <2>1. Op(h) = "status" /\ Subject(h) \in Items
    BY <1>0, <1>2, RequestFacts DEF ReadItem, At
  <2>2. PICK got : got = item[Subject(h)].status
    OBVIOUS
  <2>3. got \in ItemStatuses \union {Null}
    BY <2>1, <2>2, TablesTyped DEF TablesOK, ItemRows
  <2>4. CASE Goto(h, "begin", got)
    BY <1>0, <2>1, <2>2, <2>3, <2>4, ReadKeeps
  <2> QED  BY <1>1, <1>2, <2>2, <2>4 DEF ReadItem
<1>3. CASE ResolveAttemptScope(h)
  <2>1. Op(h) = "create"
    BY <1>3 DEF ResolveAttemptScope, At
  <2>2. CASE Goto(h, "begin", Null)
    BY <1>0, <2>1, <2>2, ReadKeeps
  <2> QED  BY <1>1, <1>3, <2>2 DEF ResolveAttemptScope
<1>4. CASE ReadDraft(h) \/ ReadPublished(h)
  <2>1. Op(h) \in {"publish", "revoke"}
    BY <1>4 DEF ReadDraft, ReadPublished, ReadFeedback, At
  <2>2. CASE feedback[Subject(h)].publicationStatus # "ABSENT" /\ Goto(h, "begin", Null)
    BY <1>0, <2>1, <2>2, ReadKeeps
  <2> QED  BY <1>1, <1>4, <2>2 DEF ReadDraft, ReadPublished, ReadFeedback
<1>5. CASE ReadSource(h)
  <2>1. Op(h) = "recovery"
    BY <1>5 DEF ReadSource, At
  <2>2. CASE /\ feedback[Source(h)].publicationStatus = "PUBLISHED" /\ feedback[Source(h)].attempt = Subject(h)
             /\ Goto(h, "begin", Null)
    BY <1>0, <2>1, <2>2, ReadKeeps DEF Out
  <2> QED  BY <1>1, <1>5, <2>2 DEF ReadSource
<1> QED  BY <1>2, <1>3, <1>4, <1>5

LEMMA QuietTables ==
    ASSUME NEW h
    PROVE  /\ item' = item => ItemsGrow
           /\ feedback' = feedback => NotesGrow(h)
           /\ assignment' = assignment => OwnAssignment(h)
  BY DEF ItemsGrow, NotesGrow, OwnAssignment, Out

LEMMA TransitionEffect ==
    ASSUME NEW row \in ItemRows, row.version < MaxVersion, NEW version, NEW status \in ItemStatuses,
           NEW who \in Staff \union {Null}, NEW moved, moved = Transition(row, version, status, who)
    PROVE  /\ moved \in ItemRows
           /\ row.version # version => moved = row
           /\ row.version = version => moved # row /\ moved.status = status /\ moved.version = row.version + 1
<1>1. row.version \in 1 .. MaxVersion /\ row.version + 1 \in 1 .. MaxVersion
  BY ConstantsAssumption DEF ItemRows
<1>2. CASE row.version # version
  BY <1>2 DEF Transition
<1>3. CASE row.version = version
  <2>1. PICK reviewer \in Staff \union {Null} : reviewer = IF status = "OPEN" THEN Null ELSE who
    OBVIOUS
  <2>2. moved = [row EXCEPT !.status = status, !.version = @ + 1, !.reviewer = reviewer]
    BY <1>3, <2>1 DEF Transition
  <2>3. moved \in ItemRows /\ moved.status = status /\ moved.version = row.version + 1
    BY <1>1, <2>2 DEF ItemRows
  <2> QED  BY <1>1, <1>3, <2>3
<1> QED  BY <1>2, <1>3

\* A statement on an item alone.
LEMMA ItemWritten ==
    ASSUME ReviewInv, NEW i \in Items, NEW row \in ItemRows, row = item[i] \/ row.version = item[i].version + 1,
           item' = [item EXCEPT ![i] = row], UNCHANGED <<feedback, assignment, actor, seen>>
    PROVE  /\ TablesOK' /\ ItemsGrow /\ item'[i] = row
           /\ \A j \in Items \ {i} : item'[j] = item[j]
<1>1. TablesOK /\ item \in [Items -> ItemRows] /\ item[i].version \in Nat
  <2>1. TablesOK /\ item \in [Items -> ItemRows] /\ item[i] \in ItemRows
    BY TablesTyped DEF TablesOK
  <2>2. \A r \in ItemRows : r.version \in Nat
    BY ConstantsAssumption DEF ItemRows
  <2> QED  BY <2>1, <2>2
<1>2. item' \in [Items -> ItemRows] /\ item'[i] = row /\ \A j \in Items \ {i} : item'[j] = item[j]
  BY <1>1
<1>3. TablesOK'
  BY <1>1, <1>2 DEF TablesOK
<1>4. item'[i] = item[i] \/ item'[i].version > item[i].version
  BY <1>1, <1>2
<1>5. ItemsGrow
  BY <1>2, <1>4 DEF ItemsGrow
<1> QED  BY <1>2, <1>3, <1>5

LEMMA TransitionItemKeeps ==
    ASSUME ReviewInv, NEW h \in Calls, TransitionItem(h)
    PROVE  ReviewInv'
<1>1. /\ call[h].at = "run" /\ Op(h) = "status" /\ call[h].at \notin {"idle", "done"}
      /\ item[Subject(h)].version < MaxVersion /\ UNCHANGED <<feedback, assignment, actor, seen, idem>>
      /\ TRUE \in BOOLEAN /\ FALSE \in BOOLEAN
  BY DEF TransitionItem, At
<1>2. Subject(h) \in Items /\ call[h].arg.target \in ItemStatuses
  BY <1>1, RequestFacts
<1>3. PICK i \in Items : i = Subject(h)
  BY <1>2
<1>4. PICK target \in ItemStatuses : target = call[h].arg.target
  BY <1>2
<1>5. PICK row : row = Transition(item[i], seen[h], target, actor[h])
  OBVIOUS
<1>6. item[i] \in ItemRows /\ actor[h] \in Staff \union {Null} /\ item[i].version \in Nat /\ seen[h] \in Nat
  BY ConstantsAssumption, TablesTyped DEF TablesOK, ItemRows
<1>7. ASSUME NEW code, NEW retryable \in BOOLEAN, Throws(h, code, retryable), UNCHANGED item PROVE ReviewInv'
  BY <1>1, <1>7, LeavesKeep
<1>8. CASE row # item[i] /\ item' = [item EXCEPT ![i] = row] /\ Goto(h, "complete", Null)
  <2>1. row \in ItemRows /\ row.version = item[i].version + 1
    BY <1>1, <1>3, <1>5, <1>6, <1>8, TransitionEffect
  <2>2. TablesOK' /\ ItemsGrow
    BY <1>1, <1>8, <2>1, ItemWritten
  <2>3. /\ call'[h].at = "complete" /\ Op(h)' = "status" /\ \A g \in Calls \ {h} : seen'[g] = seen[g]
        /\ NotesGrow(h) /\ OwnAssignment(h)
    BY <1>1, <1>8, GotoNames, QuietTables
  <2>4. StatusSeen(h)' /\ OriginSeen(h)' /\ NoteSeen(h)'
    BY <2>3 DEF StatusSeen, OriginSeen, NoteSeen
  <2>5. Made(h)'
    BY <1>1, <2>3 DEF ReviewInv, CallInv, Made, Out
  <2> QED  BY <1>1, <1>8, <2>2, <2>3, <2>4, <2>5, GotoKeeps
<1> QED  BY <1>1, <1>3, <1>4, <1>5, <1>7, <1>8 DEF TransitionItem

\* A statement on the feedback alone, of a call that is done with it.
LEMMA NoteWritten ==
    ASSUME ReviewInv, NEW h \in Calls, call[h].at \notin {"idle", "done"}, NEW n \in NoteIds, NEW note \in NoteRows,
           NoteCheck(note), NoteVersion(note), feedback' = [feedback EXCEPT ![n] = note],
           note.publicationStatus # "ABSENT",
           \/ n = h /\ feedback[n].publicationStatus = "ABSENT"
           \/ /\ feedback[n].publicationStatus # "ABSENT"
              /\ note.attempt = feedback[n].attempt /\ note.origin = feedback[n].origin
              /\ Out(n) => note.publicationStatus \in {"PUBLISHED", "REVOKED"}
              /\ feedback[n].recovery # Null => note.recovery # Null,
           UNCHANGED <<item, assignment, actor, seen>>
    PROVE  /\ TablesOK' /\ ItemsGrow /\ NotesGrow(h) /\ OwnAssignment(h)
           /\ feedback'[n] = note /\ \A m \in NoteIds \ {n} : feedback'[m] = feedback[m]
<1>1. TablesOK
  BY TablesTyped
<1>2. feedback'[n] = note /\ (\A m \in NoteIds \ {n} : feedback'[m] = feedback[m]) /\ TablesOK'
  BY <1>1 DEF TablesOK
<1>3. feedback[n].publicationStatus = "ABSENT" => feedback[n].recovery = Null /\ ~Out(n)
  BY <1>1 DEF TablesOK, NoteVersion, Out
<1>4. NotesGrow(h)
  BY <1>2, <1>3 DEF NotesGrow, Out
<1> QED  BY <1>2, <1>4, QuietTables

LEMMA CreateFeedbackKeeps ==
    ASSUME ReviewInv, NEW h \in Calls, CreateFeedback(h)
    PROVE  ReviewInv'
<1>1. /\ call[h].at = "run" /\ Op(h) = "create" /\ call[h].at \notin {"idle", "done"}
      /\ UNCHANGED <<item, assignment, actor, seen, idem>> /\ Goto(h, "complete", Null)
      /\ Null \in ItemStatuses \union {Null} /\ h \in NoteIds
  BY DEF CreateFeedback, At, NoteIds
<1>2. PICK a \in Attempts : a = Subject(h)
  BY <1>1, RequestFacts
<1>3. PICK o \in Items \union {Null} : o = call[h].arg.origin
  BY <1>1, RequestFacts
<1>4. PICK note : note = NewNote(a, o)
  OBVIOUS
<1>5. note \in NoteRows /\ NoteCheck(note) /\ NoteVersion(note) /\ note.publicationStatus # "ABSENT"
  <2>1. note = [publicationStatus |-> "DRAFT", deliveryStatus |-> "NOT_APPLICABLE", version |-> 1,
                attempt |-> a, origin |-> o, recovery |-> Null]
    BY <1>4 DEF NewNote, NoNote
  <2>2. 1 \in 1 .. MaxVersion
    BY ConstantsAssumption
  <2>3. note \in NoteRows
    BY <2>1, <2>2 DEF NoteRows
  <2> QED  BY <2>1, <2>3 DEF NoteCheck, NoteVersion
<1>6. feedback' = [feedback EXCEPT ![h] = note]
  BY <1>2, <1>3, <1>4 DEF CreateFeedback
<1>7. CallInv(h) /\ feedback[h].publicationStatus = "ABSENT"
  BY <1>1 DEF ReviewInv, CallInv, NoteSeen
<1>8. TablesOK' /\ ItemsGrow /\ NotesGrow(h) /\ OwnAssignment(h)
  BY <1>1, <1>5, <1>6, <1>7, NoteWritten
<1>9. call'[h].at = "complete" /\ Op(h)' = "create" /\ \A g \in Calls \ {h} : seen'[g] = seen[g]
  BY <1>1, GotoNames
<1>10. StatusSeen(h)' /\ OriginSeen(h)' /\ NoteSeen(h)'
  BY <1>9 DEF StatusSeen, OriginSeen, NoteSeen
<1>11. assignment[h] = NoAssignment /\ NoAssignment.originType # "RECOVERY_FROM_REVIEW"
  BY <1>1, <1>7, NullOutside DEF CallInv, Made, NoAssignment
<1>12. Made(h)'
  BY <1>1, <1>9, <1>11 DEF Made
<1> QED  BY <1>1, <1>8, <1>9, <1>10, <1>12, GotoKeeps

LEMMA PublishFeedbackKeeps ==
    ASSUME ReviewInv, NEW h \in Calls, PublishFeedback(h)
    PROVE  ReviewInv'
<1>1. /\ call[h].at = "run" /\ Op(h) = "publish" /\ call[h].at \notin {"idle", "done"}
      /\ UNCHANGED <<item, assignment, actor, seen, idem>> /\ TRUE \in BOOLEAN
      /\ Null \in ItemStatuses \union {Null}
  BY DEF PublishFeedback, At
<1>2. PICK n \in NoteIds : n = Subject(h)
  BY <1>1, RequestFacts
<1>3. CallInv(h) /\ TablesOK
  BY TablesTyped DEF ReviewInv
<1>4. CASE Throws(h, "ETAG_MISMATCH", TRUE) /\ UNCHANGED feedback
  BY <1>1, <1>4, LeavesKeep
<1>5. CASE /\ feedback[n].publicationStatus = "DRAFT" /\ feedback' = [feedback EXCEPT ![n] = Publish(@)]
           /\ Goto(h, IF feedback[n].origin = Null THEN "complete" ELSE "origin", Null)
  <2>1. PICK note : note = Publish(feedback[n])
    OBVIOUS
  <2>2. feedback[n] \in NoteRows /\ feedback[n].version = 1
    BY <1>3, <1>5 DEF TablesOK, NoteVersion
  <2>3. /\ note \in NoteRows /\ note.publicationStatus = "PUBLISHED" /\ note.deliveryStatus = "PENDING"
        /\ note.version = 2 /\ note.attempt = feedback[n].attempt /\ note.origin = feedback[n].origin
        /\ note.recovery = feedback[n].recovery
    <3>1. 1 + 1 \in 1 .. MaxVersion /\ 1 + 1 = 2
      BY ConstantsAssumption
    <3> QED  BY <2>1, <2>2, <3>1 DEF Publish, NoteRows
  <2>4. NoteCheck(note) /\ NoteVersion(note) /\ note.publicationStatus # "ABSENT"
    BY <2>3 DEF NoteCheck, NoteVersion
  <2>5. /\ feedback' = [feedback EXCEPT ![n] = note] /\ feedback[n].publicationStatus # "ABSENT" /\ ~Out(n)
        /\ feedback[n].recovery # Null => note.recovery # Null
    BY <1>5, <2>1, <2>3 DEF Out
  <2>6. /\ TablesOK' /\ ItemsGrow /\ NotesGrow(h) /\ OwnAssignment(h)
        /\ feedback'[n] = note /\ \A m \in NoteIds \ {n} : feedback'[m] = feedback[m]
    BY <1>1, <2>3, <2>4, <2>5, NoteWritten
  <2>7. PICK place \in {"complete", "origin"} : place = IF feedback[n].origin = Null THEN "complete" ELSE "origin"
    OBVIOUS
  <2>8. Goto(h, place, Null) /\ place \in Places \union {"begin", "complete"}
    BY <1>5, <2>7 DEF Places
  <2>9. /\ call'[h].at = place /\ Op(h)' = "publish" /\ Subject(h)' = n /\ Origin(h)' = feedback[n].origin
        /\ Source(h)' = Source(h)
    BY <1>1, <1>2, <2>3, <2>6, <2>8, GotoNames
  <2>10. StatusSeen(h)'
    BY <2>9 DEF StatusSeen
  <2>11. OriginSeen(h)'
    BY <2>7, <2>9 DEF OriginSeen
  <2>12. NoteSeen(h)'
    <3>1. h \in NoteIds /\ feedback[h].publicationStatus = "ABSENT"
      BY <1>1, <1>3 DEF CallInv, NoteSeen, NoteIds
    <3>2. h # n /\ feedback'[h].publicationStatus = "ABSENT"
      BY <2>5, <2>6, <3>1
    <3> QED  BY <2>3, <2>6, <2>9, <3>2 DEF NoteSeen
  <2>13. Made(h)'
    <3>1. assignment[h] = NoAssignment /\ NoAssignment.originType # "RECOVERY_FROM_REVIEW"
      BY <1>1, <1>3, NullOutside DEF CallInv, Made, NoAssignment
    <3> QED  BY <1>1, <2>9, <3>1 DEF Made
  <2> QED  BY <1>1, <2>6, <2>8, <2>10, <2>11, <2>12, <2>13, GotoKeeps
<1> QED  BY <1>1, <1>2, <1>4, <1>5 DEF PublishFeedback

LEMMA RevokeFeedbackKeeps ==
    ASSUME ReviewInv, NEW h \in Calls, RevokeFeedback(h)
    PROVE  ReviewInv'
<1>1. /\ call[h].at = "run" /\ Op(h) = "revoke" /\ call[h].at \notin {"idle", "done"}
      /\ UNCHANGED <<item, assignment, actor, seen, idem>> /\ TRUE \in BOOLEAN
      /\ Null \in ItemStatuses \union {Null}
  BY DEF RevokeFeedback, At
<1>2. PICK n \in NoteIds : n = Subject(h)
  BY <1>1, RequestFacts
<1>3. CallInv(h) /\ TablesOK
  BY TablesTyped DEF ReviewInv
<1>4. CASE Throws(h, "ETAG_MISMATCH", TRUE) /\ UNCHANGED feedback
  BY <1>1, <1>4, LeavesKeep
<1>5. CASE /\ feedback[n].publicationStatus = "PUBLISHED" /\ feedback' = [feedback EXCEPT ![n] = RevokeNote(@)]
           /\ Goto(h, "complete", Null)
  <2>1. PICK note : note = RevokeNote(feedback[n])
    OBVIOUS
  <2>2. /\ feedback[n] \in NoteRows /\ feedback[n].version = 2
        /\ feedback[n].deliveryStatus # "NOT_APPLICABLE"
    BY <1>3, <1>5 DEF TablesOK, NoteVersion, NoteCheck
  <2>3. /\ note \in NoteRows /\ note.publicationStatus = "REVOKED" /\ note.deliveryStatus # "NOT_APPLICABLE"
        /\ note.attempt = feedback[n].attempt /\ note.origin = feedback[n].origin
        /\ note.recovery = feedback[n].recovery
    <3>1. 2 + 1 \in 1 .. MaxVersion
      BY ConstantsAssumption
    <3> QED  BY <2>1, <2>2, <3>1 DEF RevokeNote, NoteRows
  <2>4. NoteCheck(note) /\ NoteVersion(note) /\ note.publicationStatus # "ABSENT"
    BY <2>3 DEF NoteCheck, NoteVersion
  <2>5. /\ feedback' = [feedback EXCEPT ![n] = note] /\ feedback[n].publicationStatus # "ABSENT"
        /\ feedback[n].recovery # Null => note.recovery # Null
        /\ note.publicationStatus \in {"PUBLISHED", "REVOKED"}
    BY <1>5, <2>1, <2>3
  <2>6. TablesOK' /\ ItemsGrow /\ NotesGrow(h) /\ OwnAssignment(h) /\ feedback'[n] = note
    BY <1>1, <2>3, <2>4, <2>5, NoteWritten
  <2>7. call'[h].at = "complete" /\ Op(h)' = "revoke" /\ Subject(h)' = n
    BY <1>1, <1>2, <1>5, GotoNames
  <2>8. StatusSeen(h)' /\ OriginSeen(h)' /\ NoteSeen(h)'
    BY <2>4, <2>6, <2>7 DEF StatusSeen, OriginSeen, NoteSeen
  <2>9. Made(h)'
    <3>1. assignment[h] = NoAssignment /\ NoAssignment.originType # "RECOVERY_FROM_REVIEW"
      BY <1>1, <1>3, NullOutside DEF CallInv, Made, NoAssignment
    <3> QED  BY <1>1, <2>7, <3>1 DEF Made
  <2> QED  BY <1>1, <1>5, <2>6, <2>8, <2>9, GotoKeeps
<1> QED  BY <1>1, <1>2, <1>4, <1>5 DEF RevokeFeedback

\* What a publication has when it comes to the item.
LEMMA OriginNamed ==
    ASSUME ReviewInv, NEW h \in Calls, Op(h) = "publish", call[h].at \in {"origin", "resolve"}
    PROVE  /\ Origin(h) \in Items /\ Subject(h) \in NoteIds
           /\ feedback[Subject(h)].publicationStatus # "ABSENT" /\ feedback[h].publicationStatus = "ABSENT"
<1>1. call[h].at \notin {"idle", "done"} /\ CallInv(h)
  BY DEF ReviewInv
<1>2. Origin(h) \in Items \union {Null} /\ Subject(h) \in NoteIds
  BY <1>1, RequestFacts
<1>3. Origin(h) # Null
  BY <1>1 DEF CallInv, OriginSeen
<1>4. feedback[Subject(h)].publicationStatus # "ABSENT" /\ feedback[h].publicationStatus = "ABSENT"
  BY <1>1 DEF CallInv, NoteSeen
<1> QED  BY <1>2, <1>3, <1>4

LEMMA ReadOriginKeeps ==
    ASSUME ReviewInv, NEW h \in Calls, ReadOrigin(h)
    PROVE  ReviewInv'
<1>1. /\ call[h].at = "origin" /\ Op(h) = "publish" /\ call[h].at \notin {"idle", "done"}
      /\ UNCHANGED <<item, feedback, assignment, actor, idem>> /\ Null \in ItemStatuses \union {Null}
      /\ seen' = [seen EXCEPT ![h] = item[Origin(h)].version]
  BY DEF ReadOrigin, At
<1>2. PICK i \in Items : i = Origin(h)
  BY <1>1, OriginNamed
<1>3. PICK place \in {"resolve", "complete"} : place = IF Active(item[i].status) THEN "resolve" ELSE "complete"
  OBVIOUS
<1>4. Goto(h, place, Null) /\ place \in Places \union {"begin", "complete"}
  BY <1>2, <1>3 DEF ReadOrigin, Places
<1>5. /\ call'[h].at = place /\ Op(h)' = "publish" /\ Subject(h)' = Subject(h) /\ Origin(h)' = i
  BY <1>1, <1>2, <1>4, GotoNames DEF Origin
<1>6. TablesOK /\ item[i].version \in 1 .. MaxVersion /\ MaxVersion \in Nat
  BY TablesTyped, ConstantsAssumption DEF TablesOK, ItemRows
<1>7. /\ seen'[h] = item[i].version /\ seen' \in [Calls -> 0 .. MaxVersion]
      /\ \A g \in Calls \ {h} : seen'[g] = seen[g]
  BY <1>1, <1>2, <1>6 DEF TablesOK
<1>8. TablesOK' /\ ItemsGrow /\ NotesGrow(h) /\ OwnAssignment(h)
  BY <1>1, <1>6, <1>7, QuietTables DEF TablesOK
<1>9. StatusSeen(h)'
  BY <1>5 DEF StatusSeen
<1>10. OriginSeen(h)'
  <2>1. item[i].version <= item[i].version /\ i # Null
    BY <1>1, <1>2, <1>6 DEF ReviewInv, CallInv, OriginSeen
  <2> QED  BY <1>1, <1>3, <1>5, <1>7, <2>1 DEF OriginSeen
<1>11. NoteSeen(h)'
  BY <1>1, <1>5, OriginNamed DEF NoteSeen
<1>12. Made(h)'
  BY <1>1, <1>3, <1>5 DEF ReviewInv, CallInv, Made, Out
<1> QED  BY <1>1, <1>4, <1>7, <1>8, <1>9, <1>10, <1>11, <1>12, GotoKeeps

LEMMA ResolveOriginKeeps ==
    ASSUME ReviewInv, NEW h \in Calls, ResolveOrigin(h)
    PROVE  ReviewInv'
<1>1. /\ call[h].at = "resolve" /\ Op(h) = "publish" /\ call[h].at \notin {"idle", "done"}
      /\ UNCHANGED <<feedback, assignment, actor, seen, idem>> /\ Null \in ItemStatuses \union {Null}
      /\ Goto(h, "complete", Null) /\ "RESOLVED" \in ItemStatuses
  BY DEF ResolveOrigin, At, ItemStatuses
<1>2. PICK i \in Items : i = Origin(h)
  BY <1>1, OriginNamed
<1>3. PICK row : row = Transition(item[i], seen[h], "RESOLVED", actor[h])
  OBVIOUS
<1>4. item[i].version < MaxVersion /\ item' = [item EXCEPT ![i] = row]
  BY <1>2, <1>3 DEF ResolveOrigin
<1>5. item[i] \in ItemRows /\ actor[h] \in Staff \union {Null} /\ item[i].version \in Nat /\ seen[h] \in Nat
  <2>1. item[i] \in ItemRows /\ actor[h] \in Staff \union {Null} /\ seen[h] \in 0 .. MaxVersion
    BY TablesTyped DEF TablesOK
  <2> QED  BY <2>1, ConstantsAssumption DEF ItemRows
<1>6. /\ row \in ItemRows
      /\ item[i].version # seen[h] => row = item[i]
      /\ item[i].version = seen[h] => row.status = "RESOLVED" /\ row.version = item[i].version + 1
  BY <1>1, <1>3, <1>4, <1>5, TransitionEffect
<1>7. TablesOK' /\ ItemsGrow /\ item'[i] = row
  BY <1>1, <1>4, <1>6, ItemWritten
<1>8. /\ call'[h].at = "complete" /\ Op(h)' = "publish" /\ Subject(h)' = Subject(h) /\ Origin(h)' = i
      /\ NotesGrow(h) /\ OwnAssignment(h) /\ \A g \in Calls \ {h} : seen'[g] = seen[g]
  BY <1>1, <1>2, GotoNames, QuietTables DEF Origin
<1>9. StatusSeen(h)'
  BY <1>8 DEF StatusSeen
<1>10. OriginSeen(h)'
  <2>1. seen[h] <= item[i].version
    BY <1>1, <1>2 DEF ReviewInv, CallInv, OriginSeen
  <2>2. item[i].version # seen[h] => seen[h] < row.version
    BY <1>5, <1>6, <2>1
  <2>3. seen[h] < row.version /\ seen[h] <= row.version
    BY <1>5, <1>6, <2>1, <2>2
  <2> QED  BY <1>1, <1>7, <1>8, <2>3 DEF OriginSeen
<1>11. NoteSeen(h)'
  BY <1>1, <1>8, OriginNamed DEF NoteSeen
<1>12. Made(h)'
  BY <1>1, <1>8 DEF ReviewInv, CallInv, Made, Out
<1> QED  BY <1>1, <1>7, <1>8, <1>9, <1>10, <1>11, <1>12, GotoKeeps

AllScopes == (Ops \X Keys) \union {<<Null, Null>>}

\* A statement on the assignment of the call alone.
LEMMA AssignmentWritten ==
    ASSUME ReviewInv, NEW h \in Calls, NEW row \in AssignmentRows(AllScopes),
           assignment' = [assignment EXCEPT ![h] = row],
           assignment[h].channels => row.channels /\ row.scope = assignment[h].scope /\ row.note = assignment[h].note,
           UNCHANGED <<item, feedback, actor, seen>>
    PROVE  /\ TablesOK' /\ ItemsGrow /\ NotesGrow(h) /\ OwnAssignment(h) /\ assignment'[h] = row
           /\ \A g \in Calls \ {h} : seen'[g] = seen[g]
<1>1. TablesOK
  BY TablesTyped
<1>2. assignment'[h] = row /\ \A g \in Calls \ {h} : assignment'[g] = assignment[g]
  BY <1>1 DEF TablesOK
<1>3. assignment' \in [Calls -> AssignmentRows(AllScopes)]
  BY <1>1 DEF TablesOK, AllScopes
<1>4. TablesOK'
  BY <1>1, <1>3 DEF TablesOK, AllScopes
<1>5. OwnAssignment(h)
  BY <1>2 DEF OwnAssignment
<1> QED  BY <1>2, <1>4, <1>5, QuietTables

LEMMA CreateRecoveryKeeps ==
    ASSUME ReviewInv, NEW h \in Calls, CreateRecovery(h)
    PROVE  ReviewInv'
<1>1. /\ call[h].at = "run" /\ Op(h) = "recovery" /\ call[h].at \notin {"idle", "done"}
      /\ UNCHANGED <<item, feedback, actor, seen, idem>> /\ Null \in ItemStatuses \union {Null}
      /\ Goto(h, "channels", Null) /\ "channels" \in Places \union {"begin", "complete"}
  BY DEF CreateRecovery, At, Places
<1>2. PICK a \in Attempts : a = Subject(h)
  BY <1>1, RequestFacts
<1>3. PICK n \in NoteIds : n = Source(h)
  BY <1>1, RequestFacts
<1>4. PICK s \in AllScopes : s = Scope(h)
  BY <1>1, RequestFacts DEF AllScopes, Scope
<1>5. PICK row : row = [NoAssignment EXCEPT !.originType = "RECOVERY_FROM_REVIEW", !.attempt = a,
                                            !.class = AttemptClass[a], !.note = n, !.scope = s]
  OBVIOUS
<1>6. /\ row \in AssignmentRows(AllScopes) /\ row.originType = "RECOVERY_FROM_REVIEW" /\ row.attempt = a
      /\ row.note = n /\ row.scope = s
  <2>1. row = [originType |-> "RECOVERY_FROM_REVIEW", class |-> AttemptClass[a], attempt |-> a, note |-> n,
               channels |-> FALSE, scope |-> s]
    BY <1>5 DEF NoAssignment
  <2>2. AttemptClass[a] \in Classes
    BY ConstantsAssumption
  <2> QED  BY <2>1, <2>2 DEF AssignmentRows
<1>7. assignment' = [assignment EXCEPT ![h] = row]
  BY <1>2, <1>3, <1>4, <1>5 DEF CreateRecovery
<1>8. CallInv(h) /\ assignment[h].channels = FALSE
  <2>1. CallInv(h)
    BY DEF ReviewInv
  <2>2. assignment[h] = NoAssignment
    BY <1>1, <2>1 DEF CallInv, Made
  <2> QED  BY <2>1, <2>2 DEF NoAssignment
<1>9. /\ TablesOK' /\ ItemsGrow /\ NotesGrow(h) /\ OwnAssignment(h) /\ assignment'[h] = row
      /\ \A g \in Calls \ {h} : seen'[g] = seen[g]
  BY <1>1, <1>6, <1>7, <1>8, AssignmentWritten
<1>10. /\ call'[h].at = "channels" /\ Op(h)' = "recovery" /\ Source(h)' = n /\ Subject(h)' = a /\ Scope(h)' = s
  BY <1>1, <1>2, <1>3, <1>4, GotoNames
<1>11. StatusSeen(h)' /\ OriginSeen(h)'
  BY <1>10 DEF StatusSeen, OriginSeen
<1>12. Out(n) /\ Out(n)' /\ feedback'[n].attempt = a
  BY <1>1, <1>2, <1>3, <1>8 DEF CallInv, NoteSeen, Out
<1>13. NoteSeen(h)'
  BY <1>1, <1>8, <1>10, <1>12 DEF CallInv, NoteSeen, Out
<1>14. Made(h)'
  BY <1>6, <1>9, <1>10, <1>12 DEF Made, Out
<1> QED  BY <1>1, <1>9, <1>11, <1>13, <1>14, GotoKeeps

LEMMA CreateGeneralKeeps ==
    ASSUME ReviewInv, NEW h \in Calls, CreateGeneral(h)
    PROVE  ReviewInv'
<1>1. /\ call[h].at = "run" /\ Op(h) = "general" /\ call[h].at \notin {"idle", "done"}
      /\ UNCHANGED <<item, feedback, actor, seen, idem>> /\ Null \in ItemStatuses \union {Null}
      /\ "channels" \in Places \union {"begin", "complete"} /\ FALSE \in BOOLEAN
  BY DEF CreateGeneral, At, Places
<1>2. CallInv(h) /\ assignment[h].channels = FALSE
  <2>1. CallInv(h)
    BY DEF ReviewInv
  <2>2. assignment[h] = NoAssignment
    BY <1>1, <2>1 DEF CallInv, Made
  <2> QED  BY <2>1, <2>2 DEF NoAssignment
<1>3. PICK s \in AllScopes : s = Scope(h)
  BY <1>1, RequestFacts DEF AllScopes, Scope
<1>4. PICK class \in Classes \union {Null} : class = call[h].arg.class
  BY <1>1, RequestFacts DEF Args
<1>5. CASE Throws(h, "ASSIGNMENT_CONTENT_NOT_PUBLISHED", FALSE) /\ UNCHANGED assignment
  BY <1>1, <1>5, LeavesKeep
<1>6. CASE /\ assignment' = [assignment EXCEPT ![h] =
                               [NoAssignment EXCEPT !.originType = "STAFF_GENERAL", !.class = class, !.scope = s]]
           /\ Goto(h, "channels", Null)
  <2>1. PICK row : row = [NoAssignment EXCEPT !.originType = "STAFF_GENERAL", !.class = class, !.scope = s]
    OBVIOUS
  <2>2. row = [originType |-> "STAFF_GENERAL", class |-> class, attempt |-> Null, note |-> Null,
               channels |-> FALSE, scope |-> s]
    BY <2>1 DEF NoAssignment
  <2>3. row \in AssignmentRows(AllScopes) /\ row.originType = "STAFF_GENERAL" /\ row.scope = s
    BY <2>2 DEF AssignmentRows
  <2>4. assignment' = [assignment EXCEPT ![h] = row]
    BY <1>6, <2>1
  <2>5. /\ TablesOK' /\ ItemsGrow /\ NotesGrow(h) /\ OwnAssignment(h) /\ assignment'[h] = row
        /\ \A g \in Calls \ {h} : seen'[g] = seen[g]
    BY <1>1, <1>2, <2>3, <2>4, AssignmentWritten
  <2>6. call'[h].at = "channels" /\ Op(h)' = "general" /\ Scope(h)' = s
    BY <1>1, <1>3, <1>6, GotoNames
  <2>7. StatusSeen(h)' /\ OriginSeen(h)'
    BY <2>6 DEF StatusSeen, OriginSeen
  <2>8. NoteSeen(h)'
    BY <1>1, <1>2, <2>6 DEF CallInv, NoteSeen
  <2>9. Made(h)'
    BY <2>3, <2>5, <2>6 DEF Made
  <2> QED  BY <1>1, <1>6, <2>5, <2>7, <2>8, <2>9, GotoKeeps
<1> QED  BY <1>1, <1>3, <1>4, <1>5, <1>6 DEF CreateGeneral

LEMMA InsertChannelsKeeps ==
    ASSUME ReviewInv, NEW h \in Calls, InsertChannels(h)
    PROVE  ReviewInv'
<1>1. /\ call[h].at = "channels" /\ call[h].at \notin {"idle", "done"} /\ CallInv(h)
      /\ UNCHANGED <<item, feedback, actor, seen, idem>> /\ Null \in ItemStatuses \union {Null}
  BY DEF InsertChannels, ReviewInv
<1>2. /\ Op(h) \in {"recovery", "general"} /\ assignment[h].scope = Scope(h)
      /\ Op(h) = "recovery" => assignment[h].note = Source(h)
      /\ assignment[h].originType = "RECOVERY_FROM_REVIEW" =>
             /\ assignment[h].note \in NoteIds /\ Out(assignment[h].note)
             /\ feedback[assignment[h].note].attempt = assignment[h].attempt
  BY <1>1 DEF CallInv, Made
<1>3. PICK place \in {"link", "complete"} : place = IF Op(h) = "recovery" THEN "link" ELSE "complete"
  OBVIOUS
<1>4. Goto(h, place, Null) /\ place \in Places \union {"begin", "complete"}
  BY <1>3 DEF InsertChannels, Places
<1>5. PICK row : row = [assignment[h] EXCEPT !.channels = TRUE]
  OBVIOUS
<1>6. /\ row \in AssignmentRows(AllScopes) /\ row.channels /\ row.scope = assignment[h].scope
      /\ row.note = assignment[h].note /\ row.originType = assignment[h].originType
      /\ row.attempt = assignment[h].attempt
  <2>1. assignment[h] \in AssignmentRows(AllScopes)
    BY TablesTyped DEF TablesOK, AllScopes
  <2> QED  BY <1>5, <2>1 DEF AssignmentRows
<1>7. assignment' = [assignment EXCEPT ![h] = row]
  BY <1>5 DEF InsertChannels
<1>8. /\ TablesOK' /\ ItemsGrow /\ NotesGrow(h) /\ OwnAssignment(h) /\ assignment'[h] = row
      /\ \A g \in Calls \ {h} : seen'[g] = seen[g]
  BY <1>1, <1>6, <1>7, AssignmentWritten
<1>9. /\ call'[h].at = place /\ Op(h)' = Op(h) /\ Source(h)' = Source(h) /\ Subject(h)' = Subject(h)
      /\ Scope(h)' = Scope(h)
  BY <1>4, GotoNames
<1>10. StatusSeen(h)' /\ OriginSeen(h)'
  BY <1>2, <1>9 DEF StatusSeen, OriginSeen
<1>11. NoteSeen(h)'
  BY <1>1, <1>2, <1>3, <1>9 DEF CallInv, NoteSeen, Out
<1>12. Made(h)'
  <2>1. \A n \in NoteIds : Out(n) => Out(n)'
    BY <1>1 DEF Out
  <2>2. row.originType = "RECOVERY_FROM_REVIEW" =>
            row.note \in NoteIds /\ Out(row.note)' /\ feedback'[row.note].attempt = row.attempt
    BY <1>1, <1>2, <1>6, <2>1
  <2>3. CASE Op(h) = "recovery"
    BY <1>2, <1>3, <1>6, <1>8, <1>9, <2>2, <2>3 DEF Made, Out
  <2>4. CASE Op(h) = "general"
    <3>1. Scope(h)[1][1] = "general"
      BY <1>1, <2>4, RequestFacts DEF Scope
    <3>2. Whole(Scope(h), h)'
      BY <1>2, <1>6, <1>8, <1>9, <3>1 DEF Whole
    <3> QED  BY <1>3, <1>8, <1>9, <2>2, <2>4, <3>2 DEF Made, Out
  <2> QED  BY <1>2, <2>3, <2>4
<1> QED  BY <1>1, <1>4, <1>8, <1>10, <1>11, <1>12, GotoKeeps

LEMMA SetRecoveryAssignmentKeeps ==
    ASSUME ReviewInv, NEW h \in Calls, SetRecoveryAssignment(h)
    PROVE  ReviewInv'
<1>1. /\ call[h].at = "link" /\ Op(h) = "recovery" /\ call[h].at \notin {"idle", "done"} /\ CallInv(h)
      /\ UNCHANGED <<item, assignment, actor, seen, idem>> /\ Null \in ItemStatuses \union {Null}
      /\ Goto(h, "complete", Null) /\ h # Null
  BY NullOutside DEF SetRecoveryAssignment, At, ReviewInv
<1>2. PICK n \in NoteIds : n = Source(h)
  BY <1>1, RequestFacts
<1>3. /\ assignment[h].scope = Scope(h) /\ assignment[h].note = n /\ assignment[h].channels
      /\ Out(n) /\ feedback[n].attempt = Subject(h)
      /\ assignment[h].originType = "RECOVERY_FROM_REVIEW" => feedback[n].attempt = assignment[h].attempt
  BY <1>1, <1>2 DEF CallInv, Made, NoteSeen
<1>4. PICK note : note = [feedback[n] EXCEPT !.recovery = h]
  OBVIOUS
<1>5. /\ note \in NoteRows /\ note.publicationStatus = feedback[n].publicationStatus
      /\ note.deliveryStatus = feedback[n].deliveryStatus /\ note.version = feedback[n].version
      /\ note.attempt = feedback[n].attempt /\ note.origin = feedback[n].origin /\ note.recovery = h
  <2>1. feedback[n] \in NoteRows
    BY TablesTyped DEF TablesOK
  <2> QED  BY <1>4, <2>1 DEF NoteRows
<1>6. NoteCheck(note) /\ NoteVersion(note) /\ note.publicationStatus \in {"PUBLISHED", "REVOKED"}
  <2>1. NoteCheck(feedback[n]) /\ NoteVersion(feedback[n])
    BY TablesTyped DEF TablesOK
  <2> QED  BY <1>3, <1>5, <2>1 DEF NoteCheck, NoteVersion, Out
<1>7. feedback' = [feedback EXCEPT ![n] = note] /\ feedback[n].publicationStatus # "ABSENT"
  BY <1>2, <1>3, <1>4 DEF SetRecoveryAssignment, Out
<1>8. TablesOK' /\ ItemsGrow /\ NotesGrow(h) /\ OwnAssignment(h) /\ feedback'[n] = note
  BY <1>1, <1>5, <1>6, <1>7, NoteWritten
<1>9. /\ call'[h].at = "complete" /\ Op(h)' = "recovery" /\ Source(h)' = n /\ Subject(h)' = Subject(h)
      /\ Scope(h)' = Scope(h)
  BY <1>1, <1>2, GotoNames
<1>10. StatusSeen(h)' /\ OriginSeen(h)'
  BY <1>9 DEF StatusSeen, OriginSeen
<1>11. Out(n)' /\ feedback'[n].attempt = feedback[n].attempt /\ feedback'[n].recovery # Null
  BY <1>1, <1>5, <1>6, <1>8 DEF Out
<1>12. NoteSeen(h)'
  BY <1>3, <1>9, <1>11 DEF NoteSeen
<1>13. Made(h)'
  <2>1. Whole(Scope(h), h)'
    BY <1>1, <1>3, <1>9, <1>11 DEF Whole
  <2> QED  BY <1>1, <1>3, <1>9, <1>11, <2>1 DEF Made
<1> QED  BY <1>1, <1>8, <1>10, <1>12, <1>13, GotoKeeps

LEMMA RetryWindowKeeps ==
    ASSUME ReviewInv, RetryWindowEnds, UNCHANGED reviewVars
    PROVE  ReviewInv'
<1>1. /\ CallsTypeOK(Ops, Args, ItemStatuses, Places)' /\ call' = call /\ CompletesAtMost({})
      /\ UNCHANGED <<item, feedback, assignment, actor, seen>>
  BY CallTypes, RetryWindowEffect DEF reviewVars
<1>2. TypeOK' /\ \A n \in NoteIds : NoteVersion(feedback'[n])
  BY <1>1, TablesTyped, QuietTypes DEF TablesOK
<1>3. ASSUME NEW h \in Calls PROVE CallInv(h)'
  <2>1. CallInv(h) /\ call'[h] = call[h]
    BY <1>1 DEF ReviewInv
  <2>2. /\ Op(h)' = Op(h) /\ Subject(h)' = Subject(h) /\ Source(h)' = Source(h) /\ Scope(h)' = Scope(h)
        /\ Origin(h)' = Origin(h)
    BY <1>1, <2>1, SameNames DEF Origin
  <2> QED  BY <1>1, <2>1, <2>2 DEF CallInv, Placed, StatusSeen, OriginSeen, NoteSeen, Made, Whole, Out
<1>4. ASSUME NEW s \in DOMAIN idem', idem'[s].status = "COMPLETED", s[1][1] \in {"recovery", "general"}
      PROVE  \E h \in Calls : Whole(s, h)'
  <2>1. s \in DOMAIN idem /\ idem[s].status = "COMPLETED"
    BY <1>1, <1>4 DEF CompletesAtMost
  <2>2. PICK h \in Calls : Whole(s, h)
    BY <1>4, <2>1 DEF ReviewInv
  <2> QED  BY <1>1, <2>2 DEF Whole
<1> QED  BY <1>2, <1>3, <1>4 DEF ReviewInv

LEMMA ServicesKeep ==
    ASSUME ReviewInv, NEW h \in Calls, Services(h)
    PROVE  ReviewInv'
<1>1. CASE \/ ReadItem(h) \/ ResolveAttemptScope(h) \/ ReadDraft(h) \/ ReadPublished(h) \/ ReadSource(h)
  BY <1>1, ReadsKeep
<1>2. CASE TransitionItem(h) \/ CreateFeedback(h) \/ PublishFeedback(h) \/ RevokeFeedback(h)
  BY <1>2, TransitionItemKeeps, CreateFeedbackKeeps, PublishFeedbackKeeps, RevokeFeedbackKeeps
<1>3. CASE ReadOrigin(h) \/ ResolveOrigin(h)
  BY <1>3, ReadOriginKeeps, ResolveOriginKeeps
<1>4. CASE CreateRecovery(h) \/ InsertChannels(h) \/ SetRecoveryAssignment(h) \/ CreateGeneral(h)
  BY <1>4, CreateRecoveryKeeps, InsertChannelsKeeps, SetRecoveryAssignmentKeeps, CreateGeneralKeeps
<1>5. CASE /\ \/ BeginStatus(h) \/ BeginCreate(h) \/ BeginPublish(h) \/ BeginRevoke(h) \/ BeginRecovery(h)
              \/ BeginGeneral(h)
              \/ CompleteRecord(h) \/ FailRecord(h) \/ StatementFails(h) \/ ProcessDies(h)
           /\ UNCHANGED reviewVars
  BY <1>5, FrameKeeps
<1> QED  BY <1>1, <1>2, <1>3, <1>4, <1>5
         DEF Services, SettleStatus, SettleCreate, SettlePublish, SettleRevoke, SettleRecovery, SettleGeneral

LEMMA NextKeeps == ReviewInv /\ [Next]_vars => ReviewInv'
<1> SUFFICES ASSUME ReviewInv, [Next]_vars PROVE ReviewInv'
  OBVIOUS
<1>1. CASE Next
  BY <1>1, RoutesKeep, ServicesKeep, RetryWindowKeeps DEF Next
<1>2. CASE UNCHANGED vars
  <2>1. UNCHANGED <<item, feedback, assignment, actor, seen, idem, call>>
    BY <1>2 DEF vars, reviewVars, callVars
  <2>2. TypeOK' /\ \A n \in NoteIds : NoteVersion(feedback'[n])
    BY <2>1 DEF ReviewInv, TypeOK, CallsTypeOK
  <2>3. ASSUME NEW h \in Calls PROVE CallInv(h)'
    <3>1. CallInv(h) /\ call'[h] = call[h]
      BY <2>1 DEF ReviewInv
    <3>2. /\ Op(h)' = Op(h) /\ Subject(h)' = Subject(h) /\ Source(h)' = Source(h) /\ Scope(h)' = Scope(h)
          /\ Origin(h)' = Origin(h)
      BY <2>1, <3>1, SameNames DEF Origin
    <3> QED  BY <2>1, <3>1, <3>2 DEF CallInv, Placed, StatusSeen, OriginSeen, NoteSeen, Made, Whole, Out
  <2>4. \A s : \A h \in Calls : Whole(s, h) => Whole(s, h)'
    BY <2>1 DEF Whole
  <2> QED  BY <2>1, <2>2, <2>3, <2>4 DEF ReviewInv
<1> QED  BY <1>1, <1>2

-----------------------------------------------------------------------------
(* The theorems                                                            *)

\* The items and notes that the services can have left.
Past(items, notes) ==
    /\ items \in [Items -> ItemRows] /\ notes \in [Notes -> NoteRows]
    /\ \A n \in Notes : NoteCheck(notes[n]) /\ NoteVersion(notes[n])

LEMMA InitReview ==
    ASSUME NEW items, NEW notes, NEW coming, Past(items, notes), ReviewInit(items, notes, coming)
    PROVE  ReviewInv
<1>0. 1 \in 1 .. MaxVersion /\ 0 \in 0 .. MaxVersion
  BY ConstantsAssumption
<1>1. NoNote \in NoteRows /\ NoteCheck(NoNote) /\ NoteVersion(NoNote)
  BY <1>0 DEF NoNote, NoteRows, NoteCheck, NoteVersion
<1>2. NoAssignment \in AssignmentRows(AllScopes) /\ NoAssignment.originType # "RECOVERY_FROM_REVIEW"
  BY NullOutside DEF NoAssignment, AssignmentRows, AllScopes
<1>3. /\ item = items /\ feedback = [n \in NoteIds |-> IF n \in Notes THEN notes[n] ELSE NoNote]
      /\ assignment = [h \in Calls |-> NoAssignment] /\ actor = [h \in Calls |-> Null]
      /\ seen = [h \in Calls |-> 0] /\ CallsInit(coming)
  BY DEF ReviewInit
<1>4. ASSUME NEW n \in NoteIds
      PROVE  feedback[n] \in NoteRows /\ NoteCheck(feedback[n]) /\ NoteVersion(feedback[n])
  BY <1>1, <1>3 DEF Past
<1>5. TablesOK
  BY <1>0, <1>2, <1>3, <1>4 DEF TablesOK, Past, AllScopes
<1>6. CallsTypeOK(Ops, Args, ItemStatuses, Places)
  BY <1>3, InitTyped
<1>7. TypeOK
  BY <1>5, <1>6 DEF TypeOK, TablesOK, Places
<1>8. ASSUME NEW h \in Calls PROVE CallInv(h)
  <2>1. call[h].at \in {"idle", "done"} /\ call[h].op = Null
    BY <1>3 DEF CallsInit, Idle
  <2>2. feedback[h].publicationStatus = "ABSENT"
    BY <1>3, ConstantsAssumption DEF NoteIds, NoNote
  <2>3. assignment[h] = NoAssignment
    BY <1>3
  <2>4. StatusSeen(h) /\ OriginSeen(h)
    BY <2>1 DEF StatusSeen, OriginSeen
  <2>5. NoteSeen(h)
    BY <2>1, <2>2 DEF NoteSeen
  <2>6. Placed(h) /\ Made(h)
    BY <1>2, <2>1, <2>3 DEF Placed, Made
  <2> QED  BY <2>4, <2>5, <2>6 DEF CallInv
<1>9. DOMAIN idem = {}
  BY <1>3 DEF CallsInit
<1> QED  BY <1>5, <1>7, <1>8, <1>9 DEF ReviewInv, TablesOK

\* From any items and notes of the past, whichever calls come and however they fail.
Behaviour(items, notes, coming) ==
    Past(items, notes) /\ ReviewInit(items, notes, coming) /\ [][Next]_vars

THEOREM ReviewInvariance ==
    ASSUME NEW CONSTANT items, NEW CONSTANT notes, NEW CONSTANT coming
    PROVE  Behaviour(items, notes, coming) => []ReviewInv
<1>1. Past(items, notes) /\ ReviewInit(items, notes, coming) => ReviewInv
  BY InitReview
<1> QED  BY <1>1, NextKeeps, PTL DEF Behaviour

\* Types hold; a completed record of an assignment stands for a row with its channels
\* and, for a recovery, for the link from the feedback; a recovery comes from feedback
\* that was published, on the same attempt (RecoveryAssignmentService,
\* GeneralAssignmentService).
THEOREM LoopIsSoundHolds ==
    ASSUME NEW CONSTANT items, NEW CONSTANT notes, NEW CONSTANT coming
    PROVE  Behaviour(items, notes, coming) => []LoopIsSound
<1>1. ReviewInv => CompletedAssignmentIsWhole
  BY DEF ReviewInv, CompletedAssignmentIsWhole, Whole
<1>2. ReviewInv => RecoveryFromPublished
  BY DEF ReviewInv, CallInv, Made, RecoveryFromPublished, Out
<1>3. ReviewInv => LoopIsSound
  BY <1>1, <1>2 DEF ReviewInv, LoopIsSound
<1> QED  BY <1>3, ReviewInvariance, PTL

\* A publication that is about to be answered with success has closed the item it came
\* from, or found it closed, or somebody moved the item since it was read
\* (FeedbackService.publish).
THEOREM PublishedClosesItemHolds ==
    ASSUME NEW CONSTANT items, NEW CONSTANT notes, NEW CONSTANT coming
    PROVE  Behaviour(items, notes, coming) => []PublishedClosesItem
<1>1. ReviewInv => PublishedClosesItem
  <2> SUFFICES ASSUME ReviewInv, NEW h \in Calls, At(h, "publish", "complete"), Origin(h) # Null
               PROVE  ~Active(item[Origin(h)].status) \/ item[Origin(h)].version > seen[h]
    BY DEF PublishedClosesItem
  <2>1. Op(h) = "publish" /\ call[h].at = "complete" /\ call[h].at \notin {"idle", "done"}
    BY DEF At
  <2>2. PICK i \in Items : i = Origin(h)
    BY <2>1, RequestFacts
  <2>3. item[i] \in ItemRows /\ seen[h] \in 0 .. MaxVersion
    BY TablesTyped DEF TablesOK
  <2>4. item[i].version \in Nat /\ seen[h] \in Nat
    BY <2>3, ConstantsAssumption DEF ItemRows
  <2>5. ~Active(item[i].status) \/ seen[h] < item[i].version
    BY <2>1, <2>2 DEF ReviewInv, CallInv, OriginSeen
  <2> QED  BY <2>2, <2>4, <2>5
<1> QED  BY <1>1, ReviewInvariance, PTL

\* An item that a step changes moves along the transitions of the review protocol, by
\* one version, although its status was read before begin() and a publication may have
\* closed it since (ReviewService.transitionStatus, FeedbackService.publish).
THEOREM ItemsMoveLegallyHolds ==
    ASSUME NEW CONSTANT items, NEW CONSTANT notes, NEW CONSTANT coming
    PROVE  Behaviour(items, notes, coming) => ItemsMoveLegally
<1> DEFINE Legal(i) == item'[i] # item[i] => /\ item'[i].status \in AllowedTransitions[item[i].status]
                                             /\ item'[i].version = item[i].version + 1
<1>1. ReviewInv /\ [Next]_vars => [\A i \in Items : Legal(i)]_vars
  <2> SUFFICES ASSUME ReviewInv, Next, NEW i \in Items, item'[i] # item[i] PROVE Legal(i)
    OBVIOUS
  <2>1. PICK h \in Calls : TransitionItem(h) \/ ResolveOrigin(h)
    <3>1. ASSUME NEW h \in Calls, NEW who \in Staff, NEW key \in Keys, Routes(h, who, key) PROVE item' = item
      BY <3>1 DEF Routes, PostReviewStatus, PostAttemptFeedback, PostFeedbackPublish, PostFeedbackRevoke,
                  PostRecoveryAssignment, PostAssignments, Asks
    <3>2. ASSUME NEW h \in Calls, Services(h), ~TransitionItem(h), ~ResolveOrigin(h) PROVE item' = item
      <4>1. UNCHANGED reviewVars => item' = item
        BY DEF reviewVars
      <4>2. ReadDraft(h) \/ ReadPublished(h) => item' = item
        BY DEF ReadDraft, ReadPublished, ReadFeedback
      <4>3. ReadItem(h) \/ ResolveAttemptScope(h) \/ ReadOrigin(h) \/ ReadSource(h) => item' = item
        BY DEF ReadItem, ResolveAttemptScope, ReadOrigin, ReadSource
      <4>4. CreateFeedback(h) \/ PublishFeedback(h) \/ RevokeFeedback(h) => item' = item
        BY DEF CreateFeedback, PublishFeedback, RevokeFeedback
      <4>5. (CreateRecovery(h) \/ InsertChannels(h) \/ SetRecoveryAssignment(h) \/ CreateGeneral(h)) => item' = item
        BY DEF CreateRecovery, InsertChannels, SetRecoveryAssignment, CreateGeneral
      <4> QED  BY <3>2, <4>1, <4>2, <4>3, <4>4, <4>5 DEF Services
    <3>3. UNCHANGED reviewVars => item' = item
      BY DEF reviewVars
    <3> QED  BY <3>1, <3>2, <3>3 DEF Next
  <2>2. item[i] \in ItemRows /\ actor[h] \in Staff \union {Null} /\ item \in [Items -> ItemRows]
    BY TablesTyped DEF TablesOK
  <2>3. CASE TransitionItem(h)
    <3>1. PICK target : target = call[h].arg.target
      OBVIOUS
    <3>2. PICK row : row = Transition(item[Subject(h)], seen[h], target, actor[h])
      OBVIOUS
    <3>3. /\ call[h].at = "run" /\ Op(h) = "status" /\ item[Subject(h)].version < MaxVersion
          /\ item' = [item EXCEPT ![Subject(h)] = row] /\ target \in AllowedTransitions[call[h].got]
          /\ row # item[Subject(h)]
      BY <2>3, <3>1, <3>2 DEF TransitionItem, At
    <3>4. i = Subject(h) /\ item'[i] = row
      BY <2>2, <3>3
    <3>5. target \in ItemStatuses
      BY <3>1, <3>3, RequestFacts
    <3>6. seen[h] = item[i].version /\ row.status = target /\ row.version = item[i].version + 1
      BY <2>2, <3>2, <3>3, <3>4, <3>5, TransitionEffect
    <3>7. call[h].got = item[i].status
      BY <3>3, <3>4, <3>6 DEF ReviewInv, CallInv, StatusSeen
    <3> QED  BY <3>3, <3>4, <3>6, <3>7
  <2>4. CASE ResolveOrigin(h)
    <3>1. PICK row : row = Transition(item[Origin(h)], seen[h], "RESOLVED", actor[h])
      OBVIOUS
    <3>2. /\ call[h].at = "resolve" /\ Op(h) = "publish" /\ item[Origin(h)].version < MaxVersion
          /\ item' = [item EXCEPT ![Origin(h)] = row] /\ "RESOLVED" \in ItemStatuses
      BY <2>4, <3>1 DEF ResolveOrigin, At, ItemStatuses
    <3>3. i = Origin(h) /\ item'[i] = row
      BY <2>2, <3>2
    <3>4. seen[h] = item[i].version /\ row.status = "RESOLVED" /\ row.version = item[i].version + 1
      BY <2>2, <3>1, <3>2, <3>3, TransitionEffect
    <3>5. Active(item[i].status)
      BY <3>2, <3>3, <3>4 DEF ReviewInv, CallInv, OriginSeen
    <3>6. "RESOLVED" \in AllowedTransitions[item[i].status]
      BY <3>5 DEF Active, AllowedTransitions
    <3> QED  BY <3>3, <3>4, <3>6
  <2> QED  BY <2>1, <2>3, <2>4
<1>2. ItemsMoveLegally <=> [][\A i \in Items : Legal(i)]_vars
  BY DEF ItemsMoveLegally
<1>3. Behaviour(items, notes, coming) => [][Next]_vars
  BY DEF Behaviour
<1> QED  BY <1>1, <1>2, <1>3, ReviewInvariance, PTL

-----------------------------------------------------------------------------
(* What a call of the staff services knows                                 *)

MemberPlaces == {"run", "account", "member", "create", "pending", "reinvite", "issue", "password",
                 "consume", "activate", "count", "write", "insert", "tenant", "memberships"}
Outcomes == MembershipStatuses \union {Null, "retryable", "terminal"}

\* The fields that a request of each service has.
Member(h) == <<call[h].arg.email, call[h].arg.tenant, call[h].arg.role>>

Fits(service, arg) ==
    /\ service = "invite" => arg.email \in Emails /\ arg.role \in Roles
    /\ service \in {"status", "assign", "unassign"} => <<arg.email, arg.tenant, arg.role>> \in Memberships
    /\ service = "status" => arg.verb \in {"SUSPEND", "REACTIVATE", "REVOKE"}
    /\ service \in {"assign", "unassign"} => arg.class \in SchoolClasses
    /\ service = "accept" => arg.invitation \in InvitationIds
    /\ service \in {"schoolAdmin", "educator"} => arg.email \in Emails
    /\ service = "schoolAdmin" => arg.role = "SCHOOL_ADMIN"
    /\ service \in {"schoolAdmin", "tenantStatus", "educatorStatus"} => arg.tenant \in Tenants
    /\ service \in {"tenantStatus", "educatorStatus"} => arg.verb \in {"ACTIVE", "SUSPENDED"}

Asked(h) ==
    /\ call[h].op \in MemberOps /\ call[h].arg \in MemberArgs /\ Fits(Service(h), call[h].arg)
    /\ call[h].at = "begin" => call[h].key \in Keys

\* A place from which a call may still write a membership.
Going(place) == place \notin {"idle", "complete", "fail", "done"}

Opened(e) == account[e].status # "ABSENT"
NeedsPassword(m) == account[m[1]].requiresPasswordSetup
Invitable(m) == m[3] \in {"TEACHER", "SUPPORT_TEACHER", "ASACOM"}

\* True, or another call met this one in the tenant.
Still(h, fact) == Home(h) \in overlap \/ fact

\* An invitation: the account, the membership that it found or made, and no other invitation.
InviteKnows(h, place, got) == Service(h) = "invite" =>
    /\ place \in {"member", "create", "pending", "reinvite", "issue"} => Opened(Email(h))
    /\ place \in {"pending", "reinvite", "issue"} => Exists(Target(h))
    /\ place = "pending" => got \in {"INVITED", "REVOKED"} /\ Still(h, membership[Target(h)] = got)
    /\ place = "reinvite" => Still(h, membership[Target(h)] = "REVOKED")
    /\ place \in {"reinvite", "issue"} => Still(h, Pending(Target(h)) = {})

AcceptKnows(h, place) == Service(h) = "accept" =>
    /\ place \in {"account", "password", "consume", "activate"} => invitation[Token(h)].for # Null
    /\ place \in {"consume", "activate"} => ~NeedsPassword(Target(h))

\* A change of status: the administrator who asked for it still is one, and leaves another
\* behind who goes himself.
StatusKnows(h, place) == Service(h) = "status" =>
    /\ Going(place) => /\ caller[h] \in Emails
                       /\ Still(h, IsActive(<<caller[h], Home(h), "SCHOOL_ADMIN">>))
    /\ place \in {"count", "write"} =>
           /\ Found(h)
           /\ call[h].arg.verb \in {"SUSPEND", "REACTIVATE"} /\ Invitable(Target(h)) => ~NeedsPassword(Target(h))
    /\ place = "write" /\ OwnAdmin(h) =>
           Still(h, \E e \in Emails \ {caller[h]} : IsActive(<<e, Home(h), "SCHOOL_ADMIN">>))

OthersKnow(h, place) ==
    /\ Service(h) = "assign" /\ place = "insert" => ClassFound(h) /\ Target(h)[2] = Home(h) /\ Target(h)[3] = "TEACHER"
    /\ Service(h) = "schoolAdmin" /\ place \in {"member", "create", "activate"} => Opened(Email(h))
    /\ Service(h) = "educator" /\ place \in {"memberships", "tenant", "create"} => Opened(Email(h))

Knows(h, place, got) ==
    InviteKnows(h, place, got) /\ AcceptKnows(h, place) /\ StatusKnows(h, place) /\ OthersKnow(h, place)

CallKnows(h) ==
    /\ call[h].at \notin {"complete", "fail", "done"} => invitation[h] = NoInvitation
    /\ call[h].at \notin {"idle", "done"} => Asked(h)
    /\ Knows(h, call[h].at, call[h].got)

AccountOk(row) == row.failedLoginCount >= MaxFailedLoginAttempts => row.lockedUntil # Null

TablesInv ==
    /\ \A m \in DOMAIN membership : Opened(m[1])
    /\ \A i \in InvitationIds : invitation[i].for # Null => Exists(invitation[i].for)
    /\ \A m \in Memberships : m[2] \notin overlap => \A i, j \in Pending(m) : i = j
    /\ MemberCanSignIn /\ TaughtInTenant
    /\ \A e \in Emails : AccountOk(account[e])

MembersInv == MembersTypeOK(Times) /\ TablesInv /\ \A h \in Calls : CallKnows(h)

-----------------------------------------------------------------------------
(* What the names of a call mean                                           *)

StaffTablesTyped ==
    /\ tenant \in [Tenants -> TenantRows] /\ account \in [Emails -> AccountRows(Times)]
    /\ DOMAIN membership \subseteq Memberships
    /\ \A m \in DOMAIN membership : membership[m] \in MembershipStatuses
    /\ invitation \in [InvitationIds -> InvitationRows]
    /\ taught \subseteq (Memberships \X SchoolClasses) /\ overlap \subseteq Tenants

MemberCallsTyped == CallsTypeOK(MemberOps, MemberArgs, MembershipStatuses, MemberPlaces)

LEMMA MembersTyped ==
    MembersTypeOK(Times) <=> StaffTablesTyped /\ caller \in [Calls -> Emails \union {Null}] /\ MemberCallsTyped
  BY DEF MembersTypeOK, StaffTablesTyped, MemberCallsTyped, MemberPlaces

LEMMA MemberCallTyped ==
    ASSUME MembersInv, NEW h \in Calls
    PROVE  /\ call[h] \in CallRows(MemberOps, MemberArgs, MembershipStatuses, MemberPlaces)
           /\ call[h].at \in MemberPlaces \union {"idle", "begin", "complete", "fail", "done"}
           /\ CallKnows(h)
<1>1. call[h] \in CallRows(MemberOps, MemberArgs, MembershipStatuses, MemberPlaces)
  BY MembersTyped DEF MembersInv, MemberCallsTyped, CallsTypeOK
<1> QED  BY <1>1 DEF CallRows, MembersInv

\* The service of a request is its operation's, and its tenant is known from it.
LEMMA ServiceNamed ==
    ASSUME NEW h \in Calls, call[h].op \in MemberOps
    PROVE  /\ Service(h) = call[h].op[1] /\ Service(h) \in StaffOps \union PlatformOps \union {"accept"}
           /\ Service(h) \in StaffOps => call[h].op[2] \in Tenants /\ Home(h) = call[h].op[2]
           /\ Service(h) = "accept" =>
                  Home(h) = IF invitation[Token(h)].for = Null THEN Null ELSE invitation[Token(h)].for[2]
           /\ Service(h) = "educator" => Home(h) = h /\ h \in Tenants
           /\ Service(h) \in {"provision", "tenantStatus", "schoolAdmin", "educatorStatus"} => Home(h) = call[h].arg.tenant
<1>1. Service(h) = call[h].op[1]
  BY MembershipAssumption DEF Service
<1>2. Service(h) \in StaffOps \union PlatformOps \union {"accept"}
  BY <1>1 DEF MemberOps
<1>3. Service(h) \in StaffOps => call[h].op[2] \in Tenants
  BY <1>1 DEF MemberOps, StaffOps, PlatformOps
<1> QED  BY <1>1, <1>2, <1>3 DEF Home, StaffOps, PlatformOps, Tenants

\* The membership that a call works on, by its service.
LEMMA TargetNamed ==
    ASSUME NEW h \in Calls, Asked(h)
    PROVE  /\ Service(h) = "invite" => Target(h) = <<Email(h), Home(h), call[h].arg.role>> /\ Target(h) \in Memberships
           /\ Service(h) \in {"status", "assign", "unassign"} => Target(h) = Member(h) /\ Target(h) \in Memberships
           /\ Service(h) = "schoolAdmin" => Target(h) = <<Email(h), Home(h), "SCHOOL_ADMIN">> /\ Target(h) \in Memberships
           /\ Service(h) = "educator" => Target(h) = <<Email(h), Home(h), "INDEPENDENT_EDUCATOR">> /\ Target(h) \in Memberships
           /\ Service(h) = "accept" => Target(h) = invitation[Token(h)].for
           /\ Service(h) \in {"invite", "schoolAdmin", "educator"} => Target(h)[1] = Email(h) /\ Target(h)[2] = Home(h)
<1>1. call[h].op \in MemberOps /\ Fits(Service(h), call[h].arg)
  BY DEF Asked
<1>2. "SCHOOL_ADMIN" \in Roles /\ "INDEPENDENT_EDUCATOR" \in Roles
  BY DEF Roles
<1>3. CASE Service(h) = "invite"
  <2>1. Target(h) = <<Email(h), Home(h), call[h].arg.role>>
    BY <1>3 DEF Target
  <2>2. Email(h) \in Emails /\ call[h].arg.role \in Roles
    BY <1>1, <1>3 DEF Fits, Email
  <2>3. Home(h) \in Tenants
    BY <1>1, <1>3, ServiceNamed DEF StaffOps
  <2>4. Target(h) \in Memberships
    BY <2>1, <2>2, <2>3 DEF Memberships
  <2> QED  BY <1>3, <2>1, <2>4
<1>4. CASE Service(h) \in {"status", "assign", "unassign"}
  <2>1. Target(h) = Member(h)
    BY <1>4 DEF Target, Member, Email
  <2>2. Member(h) \in Memberships
    BY <1>1, <1>4 DEF Fits, Member
  <2> QED  BY <1>4, <2>1, <2>2
<1>5. CASE Service(h) = "schoolAdmin"
  <2>1. Target(h) = <<Email(h), Home(h), "SCHOOL_ADMIN">>
    BY <1>1, <1>5 DEF Target, Fits
  <2>2. Email(h) \in Emails /\ call[h].arg.tenant \in Tenants
    BY <1>1, <1>5 DEF Fits, Email
  <2>3. Home(h) \in Tenants
    BY <1>1, <1>5, <2>2, ServiceNamed
  <2>4. Target(h) \in Memberships
    BY <1>2, <2>1, <2>2, <2>3 DEF Memberships
  <2> QED  BY <1>5, <2>1, <2>4
<1>6. CASE Service(h) = "educator"
  <2>1. Target(h) = <<Email(h), Home(h), "INDEPENDENT_EDUCATOR">>
    BY <1>6 DEF Target
  <2>2. Email(h) \in Emails
    BY <1>1, <1>6 DEF Fits, Email
  <2>3. Home(h) \in Tenants
    BY <1>1, <1>6, ServiceNamed
  <2>4. Target(h) \in Memberships
    BY <1>2, <2>1, <2>2, <2>3 DEF Memberships
  <2> QED  BY <1>6, <2>1, <2>4
<1>7. CASE Service(h) = "accept"
  BY <1>7 DEF Target
<1>8. CASE Service(h) \notin {"invite", "status", "assign", "unassign", "schoolAdmin", "educator", "accept"}
  BY <1>8
<1> QED  BY <1>3, <1>4, <1>5, <1>6, <1>7, <1>8

\* The same request keeps its names, as long as the invitation it accepts is for the same.
LEMMA NamesKept ==
    ASSUME NEW h \in Calls, call'[h].op = call[h].op, call'[h].arg = call[h].arg,
           Service(h) = "accept" => invitation'[Token(h)].for = invitation[Token(h)].for
    PROVE  /\ Service(h)' = Service(h) /\ Email(h)' = Email(h) /\ Token(h)' = Token(h) /\ Member(h)' = Member(h)
           /\ Home(h)' = Home(h) /\ Target(h)' = Target(h)
           /\ caller'[h] = caller[h] => OwnAdmin(h)' = OwnAdmin(h)
           /\ ClassFound(h)' = ClassFound(h)
<1>1. Service(h)' = Service(h) /\ Email(h)' = Email(h) /\ Token(h)' = Token(h) /\ Member(h)' = Member(h)
  BY DEF Service, Email, Token, Member
<1>2. Home(h)' = Home(h)
  BY <1>1 DEF Home
<1>3. Target(h)' = Target(h)
  BY <1>1, <1>2 DEF Target
<1>4. ClassFound(h)' = ClassFound(h)
  BY <1>2 DEF ClassFound
<1>5. caller'[h] = caller[h] => OwnAdmin(h)' = OwnAdmin(h)
  BY <1>3 DEF OwnAdmin
<1> QED  BY <1>1, <1>2, <1>3, <1>4, <1>5

-----------------------------------------------------------------------------
(* What a step leaves to the other calls                                   *)

RowsKept ==
    /\ \A e \in Emails : Opened(e) =>
           Opened(e)' /\ (~account[e].requiresPasswordSetup => ~account'[e].requiresPasswordSetup)
    /\ \A m \in DOMAIN membership : Opened(m[1])
    /\ DOMAIN membership \subseteq DOMAIN membership' /\ overlap \subseteq overlap'
    /\ \A i \in InvitationIds : invitation[i].for # Null => invitation'[i].for = invitation[i].for

\* No membership of the tenant changes, and no invitation to one is added.
SameIn(t) ==
    \A m \in Memberships : m[2] = t =>
        /\ Exists(m)' = Exists(m) /\ (Exists(m) => membership'[m] = membership[m])
        /\ Pending(m)' \subseteq Pending(m)

LeavesTo(h) ==
    /\ RowsKept
    /\ invitation[h] = NoInvitation => invitation'[h] = NoInvitation
    /\ Going(call[h].at) /\ Home(h) \notin overlap' => SameIn(Home(h))

LEMMA SetupKept ==
    ASSUME RowsKept, StaffTablesTyped, NEW m \in DOMAIN membership, ~NeedsPassword(m)
    PROVE  ~NeedsPassword(m)'
<1>1. m[1] \in Emails
  BY DEF StaffTablesTyped, Memberships
<1> QED  BY <1>1 DEF RowsKept, NeedsPassword

\* What a call knows is about rows that stay, or about its own tenant.
LEMMA KnowledgeKept ==
    ASSUME MembersInv, NEW h \in Calls, LeavesTo(h), call'[h].op = call[h].op, call'[h].arg = call[h].arg,
           caller'[h] = caller[h], call[h].at \notin {"idle", "done"}, Going(call[h].at),
           NEW place \in MemberPlaces \union {"begin"}, NEW got, Knows(h, place, got)
    PROVE  Knows(h, place, got)'
<1>1. Asked(h) /\ StaffTablesTyped
  BY MemberCallTyped, MembersTyped DEF CallKnows, MembersInv
<1>2. CASE Service(h) = "accept"
  <2>1. CASE place \in {"account", "password", "consume", "activate"}
    <3>1. invitation[Token(h)].for # Null /\ Token(h) \in InvitationIds
      BY <1>1, <1>2, <2>1 DEF Knows, AcceptKnows, Asked, Fits, Token
    <3>2. invitation'[Token(h)].for = invitation[Token(h)].for
      BY <3>1 DEF LeavesTo, RowsKept
    <3>3. Service(h)' = "accept" /\ Target(h)' = Target(h) /\ Token(h)' = Token(h) /\ Target(h) = invitation[Token(h)].for
      BY <1>1, <1>2, <3>2, NamesKept, TargetNamed
    <3>4. Target(h) \in DOMAIN membership
      BY <3>1, <3>3 DEF MembersInv, TablesInv, Exists
    <3>5. AcceptKnows(h, place)'
      BY <1>1, <1>2, <3>1, <3>2, <3>3, <3>4, SetupKept DEF Knows, AcceptKnows, LeavesTo, NeedsPassword
    <3> QED  BY <3>3, <3>5 DEF Knows, InviteKnows, StatusKnows, OthersKnow
  <2>2. CASE place \notin {"account", "password", "consume", "activate"}
    <3>1. Service(h)' = "accept"
      BY <1>2 DEF Service
    <3> QED  BY <2>2, <3>1 DEF Knows, InviteKnows, AcceptKnows, StatusKnows, OthersKnow
  <2> QED  BY <2>1, <2>2
<1>3. CASE Service(h) = "invite"
  <2>1. /\ Service(h)' = "invite" /\ Email(h)' = Email(h) /\ Home(h)' = Home(h) /\ Target(h)' = Target(h)
        /\ Target(h) \in Memberships /\ Target(h)[2] = Home(h) /\ Email(h) \in Emails
    BY <1>1, <1>3, NamesKept, TargetNamed DEF Asked, Fits, Email
  <2>2. Home(h) \in overlap => Home(h) \in overlap'
    BY DEF LeavesTo, RowsKept
  <2>3. Home(h) \notin overlap' =>
          /\ Exists(Target(h)) => membership'[Target(h)] = membership[Target(h)]
          /\ Pending(Target(h))' \subseteq Pending(Target(h))
    BY <2>1 DEF LeavesTo, SameIn
  <2>4. Exists(Target(h)) => Exists(Target(h))'
    BY <2>1 DEF LeavesTo, RowsKept, Exists
  <2>5. Opened(Email(h)) => Opened(Email(h))'
    BY <2>1 DEF LeavesTo, RowsKept, Opened
  <2>6. InviteKnows(h, place, got)'
    <3> HIDE DEF Pending
    <3>1. InviteKnows(h, place, got)
      BY DEF Knows
    <3>2. Pending(Target(h)') = Pending(Target(h))
      BY <2>1
    <3> QED  BY <1>3, <2>1, <2>2, <2>3, <2>4, <2>5, <3>1 DEF InviteKnows, Still
  <2> QED  BY <2>1, <2>6 DEF Knows, AcceptKnows, StatusKnows, OthersKnow
<1>4. CASE Service(h) = "status"
  <2>1. /\ Service(h)' = "status" /\ Home(h)' = Home(h) /\ Target(h)' = Target(h)
        /\ Target(h) \in Memberships /\ OwnAdmin(h)' = OwnAdmin(h) /\ Home(h) \in Tenants
    BY <1>1, <1>4, NamesKept, TargetNamed, ServiceNamed DEF Asked, StaffOps
  <2>2. Home(h) \in overlap => Home(h) \in overlap'
    BY DEF LeavesTo, RowsKept
  <2>3. ASSUME NEW e \in Emails, IsActive(<<e, Home(h), "SCHOOL_ADMIN">>), Home(h) \notin overlap'
        PROVE  IsActive(<<e, Home(h), "SCHOOL_ADMIN">>)'
    <3>1. <<e, Home(h), "SCHOOL_ADMIN">> \in Memberships
      BY <2>1 DEF Memberships, Roles
    <3>2. PICK m \in Memberships : m = <<e, Home(h), "SCHOOL_ADMIN">> /\ m[2] = Home(h)
      BY <3>1
    <3>3. Exists(m)' = Exists(m) /\ (Exists(m) => membership'[m] = membership[m])
      BY <2>3, <3>2 DEF LeavesTo, SameIn
    <3>4. IsActive(m) /\ <<e, Home(h)', "SCHOOL_ADMIN">> = m
      BY <2>1, <2>3, <3>2
    <3>5. IsActive(m)'
      BY <3>3, <3>4 DEF IsActive
    <3> QED  BY <3>4, <3>5 DEF IsActive, Exists
  <2>4. Found(h) => Found(h)'
    BY <2>1 DEF LeavesTo, RowsKept, Found, Exists
  <2>5. Found(h) /\ ~NeedsPassword(Target(h)) => ~NeedsPassword(Target(h))'
    <3>1. PICK m : m = Target(h)
      OBVIOUS
    <3>2. Found(h) /\ ~NeedsPassword(m) => ~NeedsPassword(m)'
      BY <1>1, <3>1, SetupKept DEF LeavesTo, Found, Exists
    <3> QED  BY <2>1, <3>1, <3>2 DEF NeedsPassword
  <2>6. StatusKnows(h, place)
    BY DEF Knows
  <2>7. StatusKnows(h, place)'
    <3>1. Going(place) => /\ caller'[h] \in Emails
                          /\ Home(h)' \in overlap' \/ IsActive(<<caller[h], Home(h), "SCHOOL_ADMIN">>)'
      BY <1>4, <2>1, <2>2, <2>3, <2>6 DEF StatusKnows, Still, IsActive, Exists
    <3>2. place \in {"count", "write"} =>
           /\ Found(h)'
           /\ call'[h].arg.verb \in {"SUSPEND", "REACTIVATE"} /\ Invitable(Target(h)') => ~NeedsPassword(Target(h))'
      BY <1>4, <2>1, <2>4, <2>5, <2>6 DEF StatusKnows
    <3>3. place = "write" /\ OwnAdmin(h)' =>
           Home(h)' \in overlap' \/ \E e \in Emails \ {caller'[h]} : IsActive(<<e, Home(h), "SCHOOL_ADMIN">>)'
      BY <1>4, <2>1, <2>2, <2>3, <2>6 DEF StatusKnows, Still, IsActive, Exists
    <3> QED  BY <2>1, <3>1, <3>2, <3>3 DEF StatusKnows, Still, Invitable
  <2> QED  BY <2>1, <2>7 DEF Knows, InviteKnows, AcceptKnows, OthersKnow
<1>5. CASE Service(h) \notin {"accept", "invite", "status"}
  <2>1. /\ Service(h)' = Service(h) /\ Home(h)' = Home(h) /\ Target(h)' = Target(h) /\ Email(h)' = Email(h)
        /\ ClassFound(h)' = ClassFound(h)
    BY <1>5, NamesKept
  <2>2. Service(h) \in {"schoolAdmin", "educator"} => Email(h) \in Emails
    BY <1>1 DEF Asked, Fits, Email
  <2>3. Service(h) \in {"schoolAdmin", "educator"} /\ Opened(Email(h)) => Opened(Email(h))'
    BY <2>1, <2>2 DEF LeavesTo, RowsKept, Opened
  <2>4. OthersKnow(h, place)'
    BY <2>1, <2>3 DEF Knows, OthersKnow
  <2> QED  BY <1>5, <2>1, <2>4 DEF Knows, InviteKnows, AcceptKnows, StatusKnows
<1> QED  BY <1>2, <1>3, <1>4, <1>5

-----------------------------------------------------------------------------
(* The steps of a call                                                     *)

LEMMA NothingKnown ==
    ASSUME NEW h \in Calls, NEW got, NEW place \in {"idle", "complete", "fail", "done"}
    PROVE  Knows(h, place, got)
  BY DEF Knows, InviteKnows, AcceptKnows, StatusKnows, OthersKnow, Going

\* A call that stays where it is knows what it knew.
LEMMA BystanderKnows ==
    ASSUME MembersInv, NEW h \in Calls, LeavesTo(h), call'[h] = call[h], caller'[h] = caller[h]
    PROVE  CallKnows(h)'
<1>1. /\ call[h].at \in MemberPlaces \union {"idle", "begin", "complete", "fail", "done"} /\ CallKnows(h)
  BY MemberCallTyped
<1>2. Knows(h, call[h].at, call[h].got)'
  <2>1. CASE Going(call[h].at)
    <3>1. call[h].at \in MemberPlaces \union {"begin"} /\ call[h].at \notin {"idle", "done"}
      BY <1>1, <2>1 DEF Going
    <3>2. PICK place \in MemberPlaces \union {"begin"} : place = call[h].at
      BY <3>1
    <3>. PICK got : got = call[h].got
      OBVIOUS
    <3>3. Knows(h, place, got)
      BY <1>1, <3>2 DEF CallKnows
    <3>4. Knows(h, place, got)'
      BY <2>1, <3>1, <3>3, KnowledgeKept
    <3> QED  BY <3>2, <3>4
  <2>2. CASE ~Going(call[h].at)
    BY <2>2 DEF Going, Knows, InviteKnows, AcceptKnows, StatusKnows, OthersKnow
  <2> QED  BY <2>1, <2>2
<1>3. call[h].at \notin {"idle", "done"} => Asked(h)'
  BY <1>1 DEF CallKnows, Asked, Service
<1>4. call[h].at \notin {"complete", "fail", "done"} => invitation'[h] = NoInvitation
  BY <1>1 DEF CallKnows, LeavesTo
<1> QED  BY <1>2, <1>3, <1>4 DEF CallKnows

LEMMA MemberStep ==
    ASSUME MembersInv, NEW h \in Calls, OthersStay(h), StaffTablesTyped', MemberCallsTyped', TablesInv', CallKnows(h)',
           caller' \in [Calls -> Emails \union {Null}], \A g \in Calls \ {h} : caller'[g] = caller[g] /\ LeavesTo(g)
    PROVE  MembersInv'
<1>1. \A g \in Calls \ {h} : CallKnows(g)'
  BY BystanderKnows DEF OthersStay
<1>2. MembersTypeOK(Times)'
  BY DEF StaffTablesTyped, MemberCallsTyped, MembersTypeOK, MemberPlaces
<1> QED  BY <1>1, <1>2 DEF MembersInv

\* A step that leaves the rows alone.
LEMMA QuietRows ==
    ASSUME MembersInv, UNCHANGED <<account, membership, invitation, taught, overlap>>, tenant' \in [Tenants -> TenantRows]
    PROVE  StaffTablesTyped' /\ TablesInv' /\ RowsKept /\ \A g \in Calls : LeavesTo(g)
<1>1. StaffTablesTyped /\ TablesInv
  BY MembersTyped DEF MembersInv
<1>2. StaffTablesTyped'
  BY <1>1 DEF StaffTablesTyped
<1>3. TablesInv'
  BY <1>1 DEF TablesInv, Opened, Exists, Pending, MemberCanSignIn, TaughtInTenant
<1>4. RowsKept
  BY <1>1 DEF RowsKept, Opened, TablesInv
<1>5. \A t : SameIn(t)
  BY DEF SameIn, Exists, Pending
<1> QED  BY <1>2, <1>3, <1>4, <1>5 DEF LeavesTo

\* The request of a call goes on.
LEMMA MemberGoto ==
    ASSUME MembersInv, NEW h \in Calls, call[h].at \in MemberPlaces, NEW place \in MemberPlaces \union {"complete", "fail"},
           NEW got \in Outcomes, Goto(h, place, got), UNCHANGED idem
    PROVE  /\ MemberCallsTyped' /\ OthersStay(h) /\ call'[h].at = place /\ call'[h].got = got /\ Asked(h) /\ Asked(h)'
           /\ call'[h].op = call[h].op /\ call'[h].arg = call[h].arg
<1>1. MemberCallsTyped /\ Asked(h)
  BY MembersTyped, MemberCallTyped DEF MembersInv, CallKnows, MemberPlaces
<1>2. /\ call' \in [Calls -> CallRows(MemberOps, MemberArgs, MembershipStatuses, MemberPlaces)]
      /\ OthersStay(h) /\ SameRequest(h) /\ call'[h].at = place /\ call'[h].got = got
  BY <1>1, GotoEffect DEF MemberCallsTyped, Outcomes
<1>3. MemberCallsTyped'
  BY <1>1, <1>2 DEF MemberCallsTyped, CallsTypeOK
<1>4. Asked(h)'
  BY <1>1, <1>2 DEF SameRequest, Asked, Service, MemberPlaces
<1> QED  BY <1>1, <1>2, <1>3, <1>4 DEF SameRequest

LEMMA MemberGoes ==
    ASSUME MembersInv, NEW h \in Calls, call[h].at \in MemberPlaces, NEW place \in MemberPlaces \union {"complete", "fail"},
           NEW got \in Outcomes, Goto(h, place, got), UNCHANGED <<idem, caller>>,
           StaffTablesTyped', TablesInv', \A g \in Calls \ {h} : LeavesTo(g),
           place \in {"complete", "fail"} \/ (invitation'[h] = NoInvitation /\ Knows(h, place, got)')
    PROVE  MembersInv'
<1>1. /\ MemberCallsTyped' /\ OthersStay(h) /\ call'[h].at = place /\ call'[h].got = got /\ Asked(h)'
  BY MemberGoto
<1>2. Knows(h, call[h].at, call[h].got)'
  <2>1. CASE place \in {"complete", "fail"}
    BY <1>1, <2>1 DEF Going, Knows, InviteKnows, AcceptKnows, StatusKnows, OthersKnow
  <2>2. CASE Knows(h, place, got)'
    BY <1>1, <2>2
  <2> QED  BY <2>1, <2>2
<1>3. CallKnows(h)'
  BY <1>1, <1>2 DEF CallKnows
<1>4. caller' \in [Calls -> Emails \union {Null}]
  BY MembersTyped DEF MembersInv
<1> QED  BY <1>1, <1>3, <1>4, MemberStep

LEMMA MemberAnswers ==
    ASSUME MembersInv, NEW h \in Calls, NEW code, Answer(h, code), UNCHANGED <<idem, caller>>,
           StaffTablesTyped', TablesInv', \A g \in Calls \ {h} : LeavesTo(g)
    PROVE  MembersInv'
<1>1. MemberCallsTyped /\ caller \in [Calls -> Emails \union {Null}]
  BY MembersTyped DEF MembersInv
<1>2. /\ call' \in [Calls -> CallRows(MemberOps, MemberArgs, MembershipStatuses, MemberPlaces)]
      /\ OthersStay(h) /\ call'[h].at = "done"
  BY <1>1, AnswerEffect DEF MemberCallsTyped
<1>3. MemberCallsTyped'
  BY <1>1, <1>2 DEF MemberCallsTyped, CallsTypeOK
<1>4. CallKnows(h)'
  BY <1>2 DEF CallKnows, Going, Knows, InviteKnows, AcceptKnows, StatusKnows, OthersKnow
<1> QED  BY <1>1, <1>2, <1>3, <1>4, MemberStep

\* A statement that reads, or writes a tenant.
LEMMA ReaderGoes ==
    ASSUME MembersInv, NEW h \in Calls, call[h].at \in MemberPlaces, NEW place \in MemberPlaces \union {"complete", "fail"},
           NEW got \in Outcomes, Goto(h, place, got), Knows(h, place, got), tenant' \in [Tenants -> TenantRows],
           UNCHANGED <<account, membership, invitation, taught, caller, overlap, idem>>
    PROVE  MembersInv'
<1>1. StaffTablesTyped' /\ TablesInv' /\ \A g \in Calls : LeavesTo(g)
  BY QuietRows
<1>2. CASE place \in {"complete", "fail"}
  BY <1>1, <1>2, MemberGoes
<1>3. CASE place \in MemberPlaces
  <2>1. call'[h].op = call[h].op /\ call'[h].arg = call[h].arg
    BY MemberGoto
  <2>2. Going(call[h].at) /\ call[h].at \notin {"idle", "done", "complete", "fail"}
    BY DEF Going, MemberPlaces
  <2>3. Knows(h, place, got)'
    BY <1>1, <1>3, <2>1, <2>2, KnowledgeKept
  <2>4. invitation'[h] = NoInvitation
    BY <2>2, MemberCallTyped DEF CallKnows
  <2> QED  BY <1>1, <2>3, <2>4, MemberGoes
<1> QED  BY <1>2, <1>3

LEMMA ReaderThrows ==
    ASSUME MembersInv, NEW h \in Calls, call[h].at \in MemberPlaces, NEW code, NEW retryable, Throws(h, code, retryable),
           tenant' \in [Tenants -> TenantRows], UNCHANGED <<account, membership, invitation, taught, caller, overlap, idem>>
    PROVE  MembersInv'
<1>1. PICK got \in Outcomes : Goto(h, "fail", got)
  BY DEF Throws, Outcomes
<1>2. Knows(h, "fail", got)
  BY NothingKnown
<1> QED  BY <1>1, <1>2, ReaderGoes

LEMMA ReaderAnswers ==
    ASSUME MembersInv, NEW h \in Calls, NEW code, Answer(h, code),
           tenant' \in [Tenants -> TenantRows], UNCHANGED <<account, membership, invitation, taught, caller, overlap, idem>>
    PROVE  MembersInv'
  BY QuietRows, MemberAnswers

LEMMA ReaderRefuses ==
    ASSUME MembersInv, NEW h \in Calls, call[h].at \in MemberPlaces, NEW code, NEW retryable, Refuses(h, code, retryable),
           tenant' \in [Tenants -> TenantRows], UNCHANGED <<account, membership, invitation, taught, caller, overlap, idem>>
    PROVE  MembersInv'
  BY ReaderThrows, ReaderAnswers DEF Refuses

\* What a statement of a service begins from.
LEMMA ServingFacts ==
    ASSUME MembersInv, NEW h \in Calls, NEW service, NEW place \in MemberPlaces, Serving(h, service, place)
    PROVE  /\ call[h].at = place /\ call[h].at \in MemberPlaces /\ Service(h) = service /\ Asked(h) /\ StaffTablesTyped /\ TablesInv
           /\ Knows(h, place, call[h].got) /\ invitation[h] = NoInvitation /\ tenant \in [Tenants -> TenantRows]
<1>1. CallKnows(h) /\ StaffTablesTyped /\ TablesInv
  BY MemberCallTyped, MembersTyped DEF MembersInv
<1>2. call[h].at = place /\ Service(h) = service /\ place \notin {"idle", "complete", "fail", "done"}
  BY DEF Serving, MemberPlaces
<1> QED  BY <1>1, <1>2 DEF CallKnows, StaffTablesTyped

-----------------------------------------------------------------------------
(* The statements that only read, or write a tenant                        *)

LEMMA FindAccountKeeps ==
    ASSUME MembersInv, NEW h \in Calls, NEW service \in {"invite", "schoolAdmin", "educator"}, NEW place \in MemberPlaces,
           Serving(h, service, place), NEW retryable, NEW found \in {"member", "memberships"}, FindAccount(h, retryable, found),
           UNCHANGED <<tenant, account, membership, invitation, taught, caller, overlap, idem>>
    PROVE  MembersInv'
<1>1. /\ call[h].at \in MemberPlaces /\ Service(h) = service /\ Asked(h) /\ StaffTablesTyped /\ tenant \in [Tenants -> TenantRows]
  BY ServingFacts
<1>2. Null \in Outcomes /\ "account" \in MemberPlaces /\ found \in MemberPlaces
  BY DEF Outcomes, MemberPlaces
<1>3. Email(h) \in Emails /\ account[Email(h)].status \in {"ABSENT", "ACTIVE", "SUSPENDED"}
  BY <1>1 DEF Asked, Fits, Email, StaffTablesTyped, AccountRows
<1>4. CASE account[Email(h)].status = "ABSENT"
  <2>1. Goto(h, "account", Null)
    BY <1>4 DEF FindAccount
  <2>2. Knows(h, "account", Null)
    BY <1>1 DEF Knows, InviteKnows, AcceptKnows, StatusKnows, OthersKnow
  <2> QED  BY <1>1, <1>2, <2>1, <2>2, ReaderGoes
<1>5. CASE account[Email(h)].status = "SUSPENDED"
  BY <1>1, <1>5, ReaderRefuses DEF FindAccount
<1>6. CASE account[Email(h)].status = "ACTIVE"
  <2>1. Goto(h, found, Null)
    BY <1>6 DEF FindAccount
  <2>2. Knows(h, found, Null)
    BY <1>1, <1>6 DEF Knows, InviteKnows, AcceptKnows, StatusKnows, OthersKnow, Opened
  <2> QED  BY <1>1, <1>2, <2>1, <2>2, ReaderGoes
<1> QED  BY <1>3, <1>4, <1>5, <1>6

LEMMA InviteReadsKeep ==
    ASSUME MembersInv, NEW h \in Calls, InviteFindAccount(h) \/ InviteFindMembership(h) \/ InviteFindPending(h)
    PROVE  MembersInv'
<1>1. {"run", "member", "pending", "create", "reinvite", "issue"} \subseteq MemberPlaces /\ Null \in Outcomes
  BY DEF MemberPlaces, Outcomes
<1>2. CASE InviteFindAccount(h)
  BY <1>1, <1>2, FindAccountKeeps DEF InviteFindAccount
<1>3. CASE InviteFindMembership(h)
  <2>1. /\ call[h].at = "member" /\ call[h].at \in MemberPlaces /\ Service(h) = "invite" /\ StaffTablesTyped
        /\ Knows(h, "member", call[h].got) /\ tenant \in [Tenants -> TenantRows]
        /\ UNCHANGED <<tenant, account, membership, invitation, taught, caller, overlap, idem>>
    BY <1>1, <1>3, ServingFacts DEF InviteFindMembership
  <2>2. Opened(Email(h))
    BY <2>1 DEF Knows, InviteKnows
  <2>3. CASE ~Exists(Target(h))
    <3>1. Goto(h, "create", Null)
      BY <1>3, <2>3 DEF InviteFindMembership
    <3>2. Knows(h, "create", Null)
      BY <2>1, <2>2 DEF Knows, InviteKnows, AcceptKnows, StatusKnows, OthersKnow
    <3> QED  BY <1>1, <2>1, <3>1, <3>2, ReaderGoes
  <2>4. CASE Exists(Target(h)) /\ membership[Target(h)] \in {"ACTIVE", "SUSPENDED"}
    <3>1. Throws(h, "MEMBERSHIP_ALREADY_ACTIVE", FALSE)
      BY <1>3, <2>4 DEF InviteFindMembership
    <3> QED  BY <2>1, <3>1, ReaderThrows
  <2>5. CASE Exists(Target(h)) /\ membership[Target(h)] \notin {"ACTIVE", "SUSPENDED"}
    <3>1. Goto(h, "pending", membership[Target(h)])
      BY <1>3, <2>5 DEF InviteFindMembership
    <3>2. membership[Target(h)] \in {"INVITED", "REVOKED"}
      BY <2>1, <2>5 DEF StaffTablesTyped, Exists, MembershipStatuses
    <3>3. PICK got \in {"INVITED", "REVOKED"} : got = membership[Target(h)]
      BY <3>2
    <3>4. got \in Outcomes /\ Goto(h, "pending", got)
      BY <3>1, <3>3 DEF Outcomes, MembershipStatuses
    <3>5. Knows(h, "pending", got)
      BY <2>1, <2>2, <2>5, <3>3 DEF Knows, InviteKnows, AcceptKnows, StatusKnows, OthersKnow, Still
    <3> QED  BY <1>1, <2>1, <3>4, <3>5, ReaderGoes
  <2> QED  BY <2>3, <2>4, <2>5
<1>4. CASE InviteFindPending(h)
  <2>1. /\ call[h].at = "pending" /\ call[h].at \in MemberPlaces /\ Service(h) = "invite"
        /\ Knows(h, "pending", call[h].got) /\ tenant \in [Tenants -> TenantRows]
        /\ UNCHANGED <<tenant, account, membership, invitation, taught, caller, overlap, idem>>
    BY <1>1, <1>4, ServingFacts DEF InviteFindPending
  <2>2. CASE Pending(Target(h)) # {}
    <3>1. Throws(h, "INVITATION_ALREADY_PENDING", FALSE)
      BY <1>4, <2>2 DEF InviteFindPending
    <3> QED  BY <2>1, <3>1, ReaderThrows
  <2>3. CASE Pending(Target(h)) = {}
    <3>1. PICK place \in {"reinvite", "issue"} : place = (IF call[h].got = "REVOKED" THEN "reinvite" ELSE "issue")
      OBVIOUS
    <3>2. Goto(h, place, Null)
      BY <1>4, <2>3, <3>1 DEF InviteFindPending
    <3>3. Knows(h, place, Null)
      BY <2>1, <2>3, <3>1 DEF Knows, InviteKnows, AcceptKnows, StatusKnows, OthersKnow, Still
    <3> QED  BY <1>1, <2>1, <3>2, <3>3, ReaderGoes
  <2> QED  BY <2>2, <2>3
<1> QED  BY <1>2, <1>3, <1>4

LEMMA AcceptReadsKeep ==
    ASSUME MembersInv, NEW h \in Calls, AcceptFindInvitation(h) \/ AcceptFindAccount(h)
    PROVE  MembersInv'
<1>1. {"run", "account", "password", "consume"} \subseteq MemberPlaces /\ Null \in Outcomes
  BY DEF MemberPlaces, Outcomes
<1>2. CASE AcceptFindInvitation(h)
  <2>1. /\ call[h].at \in MemberPlaces /\ Service(h) = "accept" /\ tenant \in [Tenants -> TenantRows] /\ StaffTablesTyped
        /\ UNCHANGED <<tenant, account, membership, invitation, taught, caller, overlap, idem>>
    BY <1>1, <1>2, ServingFacts DEF AcceptFindInvitation
  <2>2. CASE \E code : Answer(h, code)
    BY <2>1, <2>2, ReaderAnswers
  <2>3. CASE invitation[Token(h)].for # Null /\ Goto(h, "account", Null)
    <3>1. Knows(h, "account", Null)
      BY <2>1, <2>3 DEF Knows, InviteKnows, AcceptKnows, StatusKnows, OthersKnow
    <3> QED  BY <1>1, <2>1, <2>3, <3>1, ReaderGoes
  <2> QED  BY <1>2, <2>2, <2>3 DEF AcceptFindInvitation
<1>3. CASE AcceptFindAccount(h)
  <2>1. /\ call[h].at \in MemberPlaces /\ Service(h) = "accept" /\ tenant \in [Tenants -> TenantRows] /\ StaffTablesTyped
        /\ Knows(h, "account", call[h].got)
        /\ UNCHANGED <<tenant, account, membership, invitation, taught, caller, overlap, idem>>
    BY <1>1, <1>3, ServingFacts DEF AcceptFindAccount
  <2>2. invitation[Token(h)].for # Null
    BY <2>1 DEF Knows, AcceptKnows
  <2>3. \/ \E code : Answer(h, code)
        \/ Goto(h, IF account[Target(h)[1]].requiresPasswordSetup THEN "password" ELSE "consume", Null)
    BY <1>3 DEF AcceptFindAccount
  <2>4. CASE \E code : Answer(h, code)
    BY <2>1, <2>4, ReaderAnswers
  <2>5. CASE Goto(h, IF account[Target(h)[1]].requiresPasswordSetup THEN "password" ELSE "consume", Null)
    <3>1. PICK place \in {"password", "consume"} :
              place = (IF account[Target(h)[1]].requiresPasswordSetup THEN "password" ELSE "consume")
      OBVIOUS
    <3>2. Goto(h, place, Null)
      BY <2>5, <3>1
    <3>3. Knows(h, place, Null)
      BY <2>1, <2>2, <3>1 DEF Knows, InviteKnows, AcceptKnows, StatusKnows, OthersKnow, NeedsPassword
    <3> QED  BY <1>1, <2>1, <3>2, <3>3, ReaderGoes
  <2> QED  BY <2>3, <2>4, <2>5
<1> QED  BY <1>2, <1>3

\* More than one is one besides.
LEMMA AnotherOne ==
    ASSUME NEW S, NEW x, ~(Cardinality(S) <= 1)
    PROVE  \E y \in S : y # x
<1> SUFFICES ASSUME \A y \in S : y = x  PROVE FALSE
  OBVIOUS
<1>1. S = {} \/ S = {x}
  OBVIOUS
<1> QED  BY <1>1, FS_EmptySet, FS_Singleton

LEMMA StatusReadsKeep ==
    ASSUME MembersInv, NEW h \in Calls, StatusReadTarget(h) \/ StatusCountAdmins(h)
    PROVE  MembersInv'
<1>1. {"run", "count", "write"} \subseteq MemberPlaces /\ Null \in Outcomes
  BY DEF MemberPlaces, Outcomes
<1>2. CASE StatusReadTarget(h)
  <2>1. /\ call[h].at \in MemberPlaces /\ Service(h) = "status" /\ Asked(h) /\ StaffTablesTyped /\ TablesInv
        /\ Knows(h, "run", call[h].got) /\ tenant \in [Tenants -> TenantRows]
        /\ UNCHANGED <<tenant, account, membership, invitation, taught, caller, overlap, idem>>
    BY <1>1, <1>2, ServingFacts DEF StatusReadTarget
  <2>2. CASE \E code : Throws(h, code, FALSE)
    BY <2>1, <2>2, ReaderThrows
  <2>3. CASE /\ Found(h) /\ membership[Target(h)] \in LegalSourceStatuses[call[h].arg.verb]
             /\ Goto(h, IF OwnAdmin(h) THEN "count" ELSE "write", Null)
    <3>1. PICK place \in {"count", "write"} : place = (IF OwnAdmin(h) THEN "count" ELSE "write")
      OBVIOUS
    <3>2. Goto(h, place, Null)
      BY <2>3, <3>1
    <3>3. call[h].arg.verb \in {"SUSPEND", "REACTIVATE", "REVOKE"}
      BY <2>1 DEF Asked, Fits
    <3>4. call[h].arg.verb \in {"SUSPEND", "REACTIVATE"} => membership[Target(h)] \in {"ACTIVE", "SUSPENDED"}
      BY <2>3, <3>3 DEF LegalSourceStatuses
    <3>5. call[h].arg.verb \in {"SUSPEND", "REACTIVATE"} /\ Invitable(Target(h)) => ~NeedsPassword(Target(h))
      BY <2>1, <2>3, <3>4 DEF TablesInv, MemberCanSignIn, Found, Exists, Invitable, NeedsPassword
    <3>6. Going("run") /\ "run" \notin {"count", "write"}
      BY DEF Going
    <3>7. StatusKnows(h, place)
      BY <2>1, <2>3, <3>1, <3>5, <3>6 DEF Knows, StatusKnows
    <3>8. Knows(h, place, Null)
      BY <2>1, <3>7 DEF Knows, InviteKnows, AcceptKnows, OthersKnow
    <3> QED  BY <1>1, <2>1, <3>2, <3>8, ReaderGoes
  <2>4. \/ \E code : Throws(h, code, FALSE)
        \/ /\ Found(h) /\ membership[Target(h)] \in LegalSourceStatuses[call[h].arg.verb]
           /\ Goto(h, IF OwnAdmin(h) THEN "count" ELSE "write", Null)
    BY <1>2 DEF StatusReadTarget
  <2> QED  BY <2>2, <2>3, <2>4
<1>3. CASE StatusCountAdmins(h)
  <2>1. /\ call[h].at \in MemberPlaces /\ Service(h) = "status" /\ Asked(h)
        /\ Knows(h, "count", call[h].got) /\ tenant \in [Tenants -> TenantRows]
        /\ UNCHANGED <<tenant, account, membership, invitation, taught, caller, overlap, idem>>
    BY <1>1, <1>3, ServingFacts DEF StatusCountAdmins
  <2>2. CASE Cardinality(ActiveSchoolAdmins(Home(h))) <= 1
    BY <1>3, <2>1, <2>2, ReaderThrows DEF StatusCountAdmins
  <2>3. CASE ~(Cardinality(ActiveSchoolAdmins(Home(h))) <= 1)
    <3>1. \E e \in ActiveSchoolAdmins(Home(h)) : e # caller[h]
      BY <2>3, AnotherOne
    <3>2. \E e \in Emails \ {caller[h]} : IsActive(<<e, Home(h), "SCHOOL_ADMIN">>)
      BY <3>1 DEF ActiveSchoolAdmins
    <3>3. Goto(h, "write", Null)
      BY <1>3, <2>3 DEF StatusCountAdmins
    <3>4. Going("count")
      BY DEF Going
    <3>5. StatusKnows(h, "write")
      BY <2>1, <3>2, <3>4 DEF Knows, StatusKnows, Still
    <3>6. Knows(h, "write", Null)
      BY <2>1, <3>5 DEF Knows, InviteKnows, AcceptKnows, OthersKnow
    <3> QED  BY <1>1, <2>1, <3>3, <3>6, ReaderGoes
  <2> QED  BY <2>2, <2>3
<1> QED  BY <1>2, <1>3

LEMMA AssignReadKeeps ==
    ASSUME MembersInv, NEW h \in Calls, AssignRead(h)
    PROVE  MembersInv'
<1>1. {"run", "insert"} \subseteq MemberPlaces /\ Null \in Outcomes
  BY DEF MemberPlaces, Outcomes
<1>2. /\ call[h].at \in MemberPlaces /\ Service(h) = "assign" /\ tenant \in [Tenants -> TenantRows]
      /\ UNCHANGED <<tenant, account, membership, invitation, taught, caller, overlap, idem>>
  BY <1>1, ServingFacts DEF AssignRead
<1>3. \/ \E code : Throws(h, code, FALSE)
      \/ ClassFound(h) /\ Found(h) /\ Target(h)[3] = "TEACHER" /\ Goto(h, "insert", Null)
  BY DEF AssignRead
<1>4. CASE \E code : Throws(h, code, FALSE)
  BY <1>2, <1>4, ReaderThrows
<1>5. CASE ClassFound(h) /\ Found(h) /\ Target(h)[3] = "TEACHER" /\ Goto(h, "insert", Null)
  <2>1. Knows(h, "insert", Null)
    BY <1>2, <1>5 DEF Knows, InviteKnows, AcceptKnows, StatusKnows, OthersKnow, Found
  <2> QED  BY <1>1, <1>2, <1>5, <2>1, ReaderGoes
<1> QED  BY <1>3, <1>4, <1>5

\* Where a call knows of nothing yet.
LEMMA NothingYet ==
    ASSUME NEW h \in Calls, NEW place, NEW got,
           Service(h) = "tenantStatus" \/ Service(h) = "educatorStatus" \/ Service(h) = "provision"
           \/ (Service(h) = "schoolAdmin" /\ place \in {"tenant", "account"})
           \/ (Service(h) = "educator" /\ place = "account")
    PROVE  Knows(h, place, got)
  BY DEF Knows, InviteKnows, AcceptKnows, StatusKnows, OthersKnow

LEMMA SetTenantTyped ==
    ASSUME tenant \in [Tenants -> TenantRows], NEW t \in Tenants, NEW status \in {"ACTIVE", "SUSPENDED"}
    PROVE  SetTenant(t, status) \in [Tenants -> TenantRows]
<1>1. PICK row \in TenantRows : row = tenant[t]
  OBVIOUS
<1>2. PICK new : new = [row EXCEPT !.status = status]
  OBVIOUS
<1>3. new \in TenantRows
  BY <1>2 DEF TenantRows
<1>4. SetTenant(t, status) = [tenant EXCEPT ![t] = new]
  BY <1>1, <1>2 DEF SetTenant
<1> QED  BY <1>3, <1>4

LEMMA TenantStepsKeep ==
    ASSUME MembersInv, NEW h \in Calls,
           CreateSchoolTenant(h) \/ TenantStatusRead(h) \/ TenantStatusWrite(h)
           \/ EducatorStatusRead(h) \/ EducatorStatusWriteTenant(h)
    PROVE  MembersInv'
<1>1. {"run", "write", "memberships"} \subseteq MemberPlaces /\ Null \in Outcomes
  BY DEF MemberPlaces, Outcomes
<1>2. CASE CreateSchoolTenant(h)
  <2>1. /\ call[h].at \in MemberPlaces /\ Service(h) = "provision" /\ tenant \in [Tenants -> TenantRows]
        /\ UNCHANGED <<account, membership, invitation, taught, caller, overlap, idem>>
        /\ Goto(h, "complete", Null) /\ tenant' = [tenant EXCEPT ![h] = NewTenant("SCHOOL")]
    BY <1>1, <1>2, ServingFacts DEF CreateSchoolTenant
  <2>2. tenant' \in [Tenants -> TenantRows]
    BY <2>1 DEF NewTenant, TenantRows
  <2> QED  BY <1>1, <2>1, <2>2, NothingYet, ReaderGoes
<1>3. CASE TenantStatusRead(h)
  <2>1. /\ call[h].at \in MemberPlaces /\ Service(h) = "tenantStatus" /\ tenant \in [Tenants -> TenantRows]
        /\ UNCHANGED <<tenant, account, membership, invitation, taught, caller, overlap, idem>>
        /\ (\E code : Answer(h, code)) \/ Goto(h, "write", Null)
    BY <1>1, <1>3, ServingFacts DEF TenantStatusRead
  <2> QED  BY <1>1, <2>1, NothingYet, ReaderGoes, ReaderAnswers
<1>4. CASE TenantStatusWrite(h)
  <2>1. /\ call[h].at \in MemberPlaces /\ Service(h) = "tenantStatus" /\ tenant \in [Tenants -> TenantRows] /\ Asked(h)
        /\ UNCHANGED <<account, membership, invitation, taught, caller, overlap, idem>>
        /\ tenant' = SetTenant(Home(h), call[h].arg.verb) /\ Answer(h, "OK")
    BY <1>1, <1>4, ServingFacts DEF TenantStatusWrite
  <2>2. Home(h) \in Tenants /\ call[h].arg.verb \in {"ACTIVE", "SUSPENDED"}
    BY <2>1, ServiceNamed DEF Asked, Fits
  <2>3. tenant' \in [Tenants -> TenantRows]
    BY <2>1, <2>2, SetTenantTyped
  <2> QED  BY <2>1, <2>3, ReaderAnswers
<1>5. CASE EducatorStatusRead(h)
  <2>1. /\ call[h].at \in MemberPlaces /\ Service(h) = "educatorStatus" /\ tenant \in [Tenants -> TenantRows]
        /\ UNCHANGED <<tenant, account, membership, invitation, taught, caller, overlap, idem>>
        /\ (\E code : Answer(h, code)) \/ Goto(h, "write", Null)
    BY <1>1, <1>5, ServingFacts DEF EducatorStatusRead
  <2> QED  BY <1>1, <2>1, NothingYet, ReaderGoes, ReaderAnswers
<1>6. CASE EducatorStatusWriteTenant(h)
  <2>1. /\ call[h].at \in MemberPlaces /\ Service(h) = "educatorStatus" /\ tenant \in [Tenants -> TenantRows] /\ Asked(h)
        /\ UNCHANGED <<account, membership, invitation, taught, caller, overlap, idem>>
        /\ tenant' = SetTenant(Home(h), call[h].arg.verb) /\ Goto(h, "memberships", Null)
    BY <1>1, <1>6, ServingFacts DEF EducatorStatusWriteTenant
  <2>2. Home(h) \in Tenants /\ call[h].arg.verb \in {"ACTIVE", "SUSPENDED"}
    BY <2>1, ServiceNamed DEF Asked, Fits
  <2>3. tenant' \in [Tenants -> TenantRows]
    BY <2>1, <2>2, SetTenantTyped
  <2> QED  BY <1>1, <2>1, <2>3, NothingYet, ReaderGoes
<1> QED  BY <1>2, <1>3, <1>4, <1>5, <1>6

LEMMA AdminReadsKeep ==
    ASSUME MembersInv, NEW h \in Calls, AdminReadTenant(h) \/ AdminFindAccount(h) \/ AdminFindMembership(h)
    PROVE  MembersInv'
<1>1. {"run", "tenant", "member", "create", "activate"} \subseteq MemberPlaces /\ Null \in Outcomes
  BY DEF MemberPlaces, Outcomes
<1>2. CASE AdminReadTenant(h)
  <2>1. /\ call[h].at \in MemberPlaces /\ Service(h) = "schoolAdmin" /\ tenant \in [Tenants -> TenantRows] /\ Asked(h)
        /\ UNCHANGED <<tenant, account, membership, invitation, taught, caller, overlap, idem>>
    BY <1>1, <1>2, ServingFacts DEF AdminReadTenant
  <2>2. Home(h) \in Tenants
    BY <2>1, ServiceNamed DEF Asked, Fits
  <2>3. tenant[Home(h)].status \in {"ABSENT", "ACTIVE", "SUSPENDED"}
    BY <2>1, <2>2 DEF TenantRows
  <2>4. (\E code : Answer(h, code)) \/ Goto(h, "tenant", Null)
    BY <1>2, <2>3 DEF AdminReadTenant
  <2> QED  BY <1>1, <2>1, <2>4, NothingYet, ReaderGoes, ReaderAnswers
<1>3. CASE AdminFindAccount(h)
  BY <1>1, <1>3, FindAccountKeeps DEF AdminFindAccount
<1>4. CASE AdminFindMembership(h)
  <2>1. /\ call[h].at \in MemberPlaces /\ Service(h) = "schoolAdmin" /\ tenant \in [Tenants -> TenantRows]
        /\ Knows(h, "member", call[h].got)
        /\ UNCHANGED <<tenant, account, membership, invitation, taught, caller, overlap, idem>>
        /\ (\E code : Answer(h, code)) \/ (\E place \in {"create", "activate"} : Goto(h, place, Null))
    BY <1>1, <1>4, ServingFacts DEF AdminFindMembership
  <2>2. \A place \in {"create", "activate"} : Knows(h, place, Null)
    BY <2>1 DEF Knows, InviteKnows, AcceptKnows, StatusKnows, OthersKnow
  <2> QED  BY <1>1, <2>1, <2>2, ReaderGoes, ReaderAnswers
<1> QED  BY <1>2, <1>3, <1>4

LEMMA EducatorReadsKeep ==
    ASSUME MembersInv, NEW h \in Calls, EducatorFindAccount(h) \/ EducatorFindMemberships(h) \/ EducatorCreateTenant(h)
    PROVE  MembersInv'
<1>1. {"run", "tenant", "memberships", "create"} \subseteq MemberPlaces /\ Null \in Outcomes
  BY DEF MemberPlaces, Outcomes
<1>2. CASE EducatorFindAccount(h)
  BY <1>1, <1>2, FindAccountKeeps DEF EducatorFindAccount
<1>3. CASE EducatorFindMemberships(h)
  <2>1. /\ call[h].at \in MemberPlaces /\ Service(h) = "educator" /\ tenant \in [Tenants -> TenantRows]
        /\ Knows(h, "memberships", call[h].got)
        /\ UNCHANGED <<tenant, account, membership, invitation, taught, caller, overlap, idem>>
        /\ Throws(h, "INDEPENDENT_EDUCATOR_ALREADY_ACTIVE", TRUE) \/ Goto(h, "tenant", Null)
    BY <1>1, <1>3, ServingFacts DEF EducatorFindMemberships
  <2>2. Knows(h, "tenant", Null)
    BY <2>1 DEF Knows, InviteKnows, AcceptKnows, StatusKnows, OthersKnow
  <2> QED  BY <1>1, <2>1, <2>2, ReaderGoes, ReaderThrows
<1>4. CASE EducatorCreateTenant(h)
  <2>1. /\ call[h].at \in MemberPlaces /\ Service(h) = "educator" /\ tenant \in [Tenants -> TenantRows]
        /\ Knows(h, "tenant", call[h].got)
        /\ UNCHANGED <<account, membership, invitation, taught, caller, overlap, idem>>
        /\ Goto(h, "create", Null) /\ tenant' = [tenant EXCEPT ![h] = NewTenant("INDEPENDENT_EDUCATOR")]
    BY <1>1, <1>4, ServingFacts DEF EducatorCreateTenant
  <2>2. tenant' \in [Tenants -> TenantRows]
    BY <2>1 DEF NewTenant, TenantRows
  <2>3. Knows(h, "create", Null)
    BY <2>1 DEF Knows, InviteKnows, AcceptKnows, StatusKnows, OthersKnow
  <2> QED  BY <1>1, <2>1, <2>2, <2>3, ReaderGoes
<1> QED  BY <1>2, <1>3, <1>4

-----------------------------------------------------------------------------
(* The frame: begin(), complete(), fail() and the faults                   *)

LEMMA FrameStepKeeps ==
    ASSUME MembersInv, NEW h \in Calls, OthersStay(h), MemberCallsTyped',
           UNCHANGED <<tenant, account, membership, invitation, taught, caller, overlap>>,
           call[h].at \notin {"idle", "done"},
           call'[h].at \in {"done", "fail"}
           \/ (call[h].at = "begin" /\ call'[h].at = "run" /\ call'[h].got = call[h].got),
           call'[h].at # "done" => call'[h].op = call[h].op /\ call'[h].arg = call[h].arg
    PROVE  MembersInv'
<1>1. CallKnows(h) /\ StaffTablesTyped /\ caller \in [Calls -> Emails \union {Null}]
  BY MemberCallTyped, MembersTyped DEF MembersInv
<1>2. StaffTablesTyped' /\ TablesInv' /\ \A g \in Calls : LeavesTo(g)
  BY <1>1, QuietRows DEF StaffTablesTyped
<1>3. CASE call'[h].at \in {"done", "fail"}
  <2>1. Knows(h, call[h].at, call[h].got)'
    BY <1>3 DEF Going, Knows, InviteKnows, AcceptKnows, StatusKnows, OthersKnow
  <2>2. call'[h].at # "done" => Asked(h)'
    BY <1>1, <1>3 DEF CallKnows, Asked, Service
  <2>3. CallKnows(h)'
    BY <1>3, <2>1, <2>2 DEF CallKnows
  <2> QED  BY <1>1, <1>2, <2>3, MemberStep
<1>4. CASE call[h].at = "begin" /\ call'[h].at = "run" /\ call'[h].got = call[h].got
  <2>1. PICK got : got = call[h].got
    OBVIOUS
  <2>2. Knows(h, "begin", got) /\ Going("begin") /\ Going("run")
    BY <1>1, <1>4, <2>1 DEF CallKnows, Going
  <2>3. Knows(h, "run", got)
    BY <2>2 DEF Knows, InviteKnows, AcceptKnows, StatusKnows, OthersKnow
  <2>4. "run" \in MemberPlaces
    BY DEF MemberPlaces
  <2>5. Knows(h, "run", got)'
    BY <1>1, <1>2, <1>4, <2>2, <2>3, <2>4, KnowledgeKept
  <2>6. Asked(h)'
    BY <1>1, <1>4 DEF CallKnows, Asked, Service
  <2>7. CallKnows(h)'
    BY <1>1, <1>4, <2>1, <2>5, <2>6 DEF CallKnows
  <2> QED  BY <1>1, <1>2, <2>7, MemberStep
<1> QED  BY <1>3, <1>4

LEMMA MemberFrameKeeps ==
    ASSUME MembersInv, NEW h \in Calls, UNCHANGED <<tenant, account, membership, invitation, taught, caller, overlap>>,
           \/ StatementFails(h) \/ ProcessDies(h)
           \/ BeginInvite(h) \/ BeginMemberStatus(h) \/ BeginTeaching(h) \/ BeginProvision(h) \/ BeginEducator(h)
           \/ SettleInvite(h) \/ SettleMemberStatus(h) \/ SettleTeaching(h) \/ SettleProvision(h) \/ SettleEducator(h)
    PROVE  MembersInv'
<1>1. MemberCallsTyped /\ CallKnows(h)
  BY MembersTyped, MemberCallTyped DEF MembersInv
<1>2. CASE StatementFails(h) \/ ProcessDies(h)
  <2>1. /\ MemberCallsTyped' /\ OthersStay(h) /\ call[h].at \notin {"idle", "done"}
        /\ call'[h].at = "done" \/ (call'[h].at = "fail" /\ SameRequest(h))
    BY <1>1, <1>2, FaultEffect DEF MemberCallsTyped
  <2> QED  BY <2>1, FrameStepKeeps DEF SameRequest
<1>3. CASE Begin(h, "run")
  <2>1. call[h].at = "begin" /\ "run" \in MemberPlaces
    BY <1>3 DEF Begin, MemberPlaces
  <2>2. call[h].op \in MemberOps /\ call[h].arg \in MemberArgs /\ call[h].key \in Keys
    BY <1>1, <2>1 DEF CallKnows, Asked
  <2>3. /\ MemberCallsTyped' /\ OthersStay(h)
        /\ \/ call'[h].at = "done"
           \/ /\ call'[h].at = "run" /\ call'[h].op = call[h].op /\ call'[h].arg = call[h].arg
              /\ call'[h].got = call[h].got
    BY <1>1, <1>3, <2>1, <2>2, BeginEffect DEF MemberCallsTyped
  <2> QED  BY <2>1, <2>3, FrameStepKeeps
<1>4. CASE CompleteRecord(h) \/ FailRecord(h)
  <2>1. MemberCallsTyped' /\ OthersStay(h) /\ call'[h].at = "done" /\ call[h].at \in {"complete", "fail"}
    BY <1>1, <1>4, SettleEffect DEF MemberCallsTyped
  <2> QED  BY <2>1, FrameStepKeeps
<1> QED
  BY <1>2, <1>3, <1>4 DEF BeginInvite, BeginMemberStatus, BeginTeaching, BeginProvision, BeginEducator,
     SettleInvite, SettleMemberStatus, SettleTeaching, SettleProvision, SettleEducator

-----------------------------------------------------------------------------
(* The statements that write an account                                    *)

LEMMA AccountWritten ==
    ASSUME MembersInv, NEW e \in Emails, NEW row \in AccountRows(Times), account' = [account EXCEPT ![e] = row],
           Opened(e) => row.status # "ABSENT" /\ (~account[e].requiresPasswordSetup => ~row.requiresPasswordSetup),
           AccountOk(row), UNCHANGED <<tenant, membership, invitation, taught, overlap>>
    PROVE  StaffTablesTyped' /\ TablesInv' /\ \A g \in Calls : LeavesTo(g)
<1>1. StaffTablesTyped /\ TablesInv
  BY MembersTyped DEF MembersInv
<1>2. account' \in [Emails -> AccountRows(Times)] /\ account'[e] = row /\ \A d \in Emails \ {e} : account'[d] = account[d]
  BY <1>1 DEF StaffTablesTyped
<1>3. StaffTablesTyped'
  BY <1>1, <1>2 DEF StaffTablesTyped
<1>4. \A d \in Emails : Opened(d) => Opened(d)' /\ (~account[d].requiresPasswordSetup => ~account'[d].requiresPasswordSetup)
  BY <1>2 DEF Opened
<1>5. RowsKept
  BY <1>1, <1>4 DEF RowsKept, TablesInv
<1>6. \A t : SameIn(t)
  BY DEF SameIn, Exists, Pending
<1>7. \A m \in DOMAIN membership : m[1] \in Emails
  BY <1>1 DEF StaffTablesTyped, Memberships
<1>8. MemberCanSignIn'
  <2>1. \A m \in DOMAIN membership : ~NeedsPassword(m) => ~NeedsPassword(m)'
    BY <1>1, <1>4, <1>7 DEF NeedsPassword, TablesInv
  <2> QED  BY <1>1, <2>1 DEF TablesInv, MemberCanSignIn, NeedsPassword
<1>9. \A d \in Emails : AccountOk(account[d])'
  <2>1. TAKE d \in Emails
  <2>2. account'[d] = row \/ account'[d] = account[d]
    BY <1>2
  <2>3. AccountOk(account[d]) /\ AccountOk(row)
    BY <1>1 DEF TablesInv
  <2> QED  BY <2>2, <2>3 DEF AccountOk
<1>10. TablesInv'
  BY <1>1, <1>4, <1>7, <1>8, <1>9 DEF TablesInv, Exists, Pending, TaughtInTenant
<1> QED  BY <1>3, <1>5, <1>6, <1>10 DEF LeavesTo

LEMMA NewAccountOk ==
    ASSUME NEW setup \in BOOLEAN
    PROVE  NewAccount(setup) \in AccountRows(Times) /\ NewAccount(setup).status = "ACTIVE" /\ AccountOk(NewAccount(setup))
<1>1. PICK row : row = NewAccount(setup)
  OBVIOUS
<1>2. row = [status |-> "ACTIVE", requiresPasswordSetup |-> setup, failedLoginCount |-> 0, lockedUntil |-> Null]
  BY <1>1 DEF NewAccount, NoAccount
<1>3. row \in AccountRows(Times) /\ row.status = "ACTIVE"
  BY <1>2 DEF AccountRows
<1>4. ~(row.failedLoginCount >= MaxFailedLoginAttempts)
  BY <1>2, StaffDurationsAssumption
<1> QED  BY <1>1, <1>3, <1>4 DEF AccountOk

LEMMA InsertAccountKeeps ==
    ASSUME MembersInv, NEW h \in Calls, NEW service \in {"invite", "schoolAdmin", "educator"},
           Serving(h, service, "account"), NEW setup \in BOOLEAN,
           NEW place \in MemberPlaces, place = IF service = "educator" THEN "tenant" ELSE "member",
           InsertAccount(h, setup, place), UNCHANGED <<tenant, membership, invitation, taught, caller, overlap, idem>>
    PROVE  MembersInv'
<1>1. "account" \in MemberPlaces /\ Null \in Outcomes
  BY DEF MemberPlaces, Outcomes
<1>2. /\ call[h].at \in MemberPlaces /\ Service(h) = service /\ Asked(h) /\ tenant \in [Tenants -> TenantRows]
      /\ invitation[h] = NoInvitation
  BY <1>1, ServingFacts
<1>3. Email(h) \in Emails
  BY <1>2 DEF Asked, Fits, Email
<1>4. CASE account[Email(h)].status = "ABSENT"
  <2>1. account' = [account EXCEPT ![Email(h)] = NewAccount(setup)] /\ Goto(h, place, Null)
    BY <1>4 DEF InsertAccount
  <2>2. /\ NewAccount(setup) \in AccountRows(Times) /\ NewAccount(setup).status = "ACTIVE" /\ AccountOk(NewAccount(setup))
        /\ ~Opened(Email(h))
    BY <1>4, NewAccountOk DEF Opened
  <2>3. StaffTablesTyped' /\ TablesInv' /\ \A g \in Calls : LeavesTo(g)
    BY <1>3, <2>1, <2>2, AccountWritten
  <2>4. Service(h)' = service /\ Email(h)' = Email(h)
    BY <1>1, <1>2, <2>1, MemberGoto DEF Service, Email
  <2>5. account'[Email(h)].status = "ACTIVE"
    BY <1>3, <2>1, <2>2, MembersTyped DEF MembersInv, StaffTablesTyped
  <2>6. Opened(Email(h))'
    BY <2>4, <2>5 DEF Opened
  <2>7. Knows(h, place, Null)'
    BY <2>4, <2>6 DEF Knows, InviteKnows, AcceptKnows, StatusKnows, OthersKnow
  <2>8. invitation'[h] = NoInvitation
    BY <1>2
  <2> QED  BY <1>1, <1>2, <2>1, <2>3, <2>7, <2>8, MemberGoes
<1>5. CASE account[Email(h)].status # "ABSENT"
  BY <1>2, <1>5, ReaderRefuses DEF InsertAccount
<1> QED  BY <1>4, <1>5

LEMMA AccountStepsKeep ==
    ASSUME MembersInv, NEW h \in Calls,
           InviteCreateAccount(h) \/ AdminCreateAccount(h) \/ EducatorCreateAccount(h) \/ AcceptSetPassword(h)
    PROVE  MembersInv'
<1>1. {"member", "tenant", "password", "consume"} \subseteq MemberPlaces /\ Null \in Outcomes
  BY DEF MemberPlaces, Outcomes
<1>2. CASE InviteCreateAccount(h)
  BY <1>1, <1>2, InsertAccountKeeps DEF InviteCreateAccount
<1>3. CASE AdminCreateAccount(h)
  BY <1>1, <1>3, InsertAccountKeeps DEF AdminCreateAccount
<1>4. CASE EducatorCreateAccount(h)
  BY <1>1, <1>4, InsertAccountKeeps DEF EducatorCreateAccount
<1>5. CASE AcceptSetPassword(h)
  <2>1. /\ call[h].at \in MemberPlaces /\ Service(h) = "accept" /\ Asked(h) /\ StaffTablesTyped /\ TablesInv
        /\ invitation[h] = NoInvitation /\ Knows(h, "password", call[h].got)
    BY <1>1, <1>5, ServingFacts DEF AcceptSetPassword
  <2>2. /\ account' = [account EXCEPT ![Target(h)[1]] = SetPasswordAndClearSetupFlag(@)] /\ Goto(h, "consume", Null)
        /\ UNCHANGED <<tenant, membership, invitation, taught, caller, overlap, idem>>
    BY <1>5 DEF AcceptSetPassword
  <2>3. Target(h) = invitation[Token(h)].for /\ Token(h) \in InvitationIds /\ invitation[Token(h)].for # Null
    BY <2>1, TargetNamed DEF Knows, AcceptKnows, Asked, Fits, Token
  <2>4. Target(h) \in DOMAIN membership
    BY <2>1, <2>3 DEF TablesInv, Exists
  <2>5. PICK e \in Emails : e = Target(h)[1]
    BY <2>1, <2>4 DEF StaffTablesTyped, Memberships
  <2>6. PICK old \in AccountRows(Times) : old = account[e]
    BY <2>1 DEF StaffTablesTyped
  <2>7. PICK row : row = [old EXCEPT !.requiresPasswordSetup = FALSE]
    OBVIOUS
  <2>8. /\ row \in AccountRows(Times) /\ row.status = old.status /\ ~row.requiresPasswordSetup
        /\ row.failedLoginCount = old.failedLoginCount /\ row.lockedUntil = old.lockedUntil
    BY <2>7 DEF AccountRows
  <2>9. account' = [account EXCEPT ![e] = row]
    BY <2>2, <2>5, <2>6, <2>7 DEF SetPasswordAndClearSetupFlag
  <2>10. AccountOk(row)
    BY <2>1, <2>6, <2>8 DEF TablesInv, AccountOk
  <2>11. StaffTablesTyped' /\ TablesInv' /\ \A g \in Calls : LeavesTo(g)
    BY <2>2, <2>6, <2>8, <2>9, <2>10, AccountWritten DEF Opened
  <2>12. call'[h].op = call[h].op /\ call'[h].arg = call[h].arg
    BY <1>1, <2>1, <2>2, MemberGoto
  <2>13. Service(h)' = "accept" /\ Token(h)' = Token(h) /\ Target(h)' = Target(h)
    BY <2>1, <2>2, <2>12, NamesKept
  <2>14. ~account'[e].requiresPasswordSetup
    BY <2>1, <2>8, <2>9 DEF StaffTablesTyped
  <2>15. AcceptKnows(h, "consume")'
    BY <2>2, <2>3, <2>5, <2>13, <2>14 DEF AcceptKnows, NeedsPassword
  <2>16. Knows(h, "consume", Null)'
    BY <2>13, <2>15 DEF Knows, InviteKnows, StatusKnows, OthersKnow
  <2>17. invitation'[h] = NoInvitation
    BY <2>1, <2>2
  <2> QED  BY <1>1, <2>1, <2>2, <2>11, <2>16, <2>17, MemberGoes
<1> QED  BY <1>2, <1>3, <1>4, <1>5

-----------------------------------------------------------------------------
(* The statements that write memberships                                   *)

\* What a write may do to the memberships of a tenant.
WritesIn(t) ==
    /\ DOMAIN membership \subseteq DOMAIN membership' /\ DOMAIN membership' \subseteq Memberships
    /\ \A m \in DOMAIN membership' :
          \/ m \in DOMAIN membership /\ membership'[m] = membership[m]
          \/ /\ m[2] = t /\ membership'[m] \in MembershipStatuses /\ Opened(m[1])
             /\ membership'[m] \in {"ACTIVE", "SUSPENDED"} /\ Invitable(m) => ~NeedsPassword(m)

\* Every other call that is under way in the tenant has met this one.
LEMMA MeetsTells ==
    ASSUME NEW h \in Calls, Meets(h), MembersInv, Home(h) \in Tenants
    PROVE  /\ overlap' \subseteq Tenants /\ overlap \subseteq overlap'
           /\ \A g \in Calls \ {h} : Going(call[g].at) /\ Home(g) = Home(h) => Home(h) \in overlap'
<1>1. overlap \subseteq Tenants
  BY MembersTyped DEF MembersInv, StaffTablesTyped
<1>2. CASE \E g \in Calls \ {h} : call[g].at \notin {"idle", "complete", "fail", "done"} /\ Home(g) = Home(h)
  BY <1>1, <1>2 DEF Meets
<1>3. CASE ~\E g \in Calls \ {h} : call[g].at \notin {"idle", "complete", "fail", "done"} /\ Home(g) = Home(h)
  BY <1>1, <1>3 DEF Meets, Going
<1> QED  BY <1>2, <1>3

LEMMA MembershipWritten ==
    ASSUME MembersInv, NEW h \in Calls, Meets(h), Home(h) \in Tenants, UNCHANGED <<tenant, account, invitation, taught>>,
           WritesIn(Home(h))
    PROVE  StaffTablesTyped' /\ TablesInv' /\ RowsKept /\ \A g \in Calls \ {h} : LeavesTo(g)
<1>1. StaffTablesTyped /\ TablesInv
  BY MembersTyped DEF MembersInv
<1>2. /\ overlap' \subseteq Tenants /\ overlap \subseteq overlap'
      /\ \A g \in Calls \ {h} : Going(call[g].at) /\ Home(g) = Home(h) => Home(h) \in overlap'
  BY MeetsTells
<1>3. StaffTablesTyped'
  BY <1>1, <1>2 DEF StaffTablesTyped, WritesIn
<1>4. RowsKept
  BY <1>1, <1>2 DEF RowsKept, TablesInv, WritesIn, Opened
<1>5. \A t : t # Home(h) => SameIn(t)
  BY DEF SameIn, WritesIn, Exists, Pending
<1>6. TablesInv'
  <2>1. \A m \in DOMAIN membership' : Opened(m[1])'
    BY <1>1 DEF WritesIn, TablesInv, Opened
  <2>2. \A i \in InvitationIds : invitation'[i].for # Null => Exists(invitation[i].for)'
    BY <1>1 DEF WritesIn, TablesInv, Exists
  <2>3. \A m \in Memberships : m[2] \notin overlap' => \A i, j \in Pending(m)' : i = j
    BY <1>1, <1>2 DEF TablesInv, Pending
  <2>4. MemberCanSignIn'
    BY <1>1 DEF WritesIn, TablesInv, MemberCanSignIn, Invitable, NeedsPassword
  <2>5. TaughtInTenant' /\ \A e \in Emails : AccountOk(account[e])'
    BY <1>1 DEF TablesInv, TaughtInTenant, AccountOk
  <2> QED  BY <2>1, <2>2, <2>3, <2>4, <2>5 DEF TablesInv
<1>7. \A g \in Calls \ {h} : LeavesTo(g)
  BY <1>2, <1>4, <1>5 DEF LeavesTo
<1> QED  BY <1>3, <1>4, <1>6, <1>7

\* One membership is inserted or updated.
LEMMA SetMembershipWrites ==
    ASSUME MembersInv, NEW m \in Memberships, NEW status \in MembershipStatuses, membership' = SetMembership(m, status),
           Opened(m[1]), status \in {"ACTIVE", "SUSPENDED"} /\ Invitable(m) => ~NeedsPassword(m)
    PROVE  WritesIn(m[2]) /\ Exists(m)' /\ membership'[m] = status
<1>1. StaffTablesTyped
  BY MembersTyped DEF MembersInv
<1>2. DOMAIN membership' = DOMAIN membership \union {m} /\ \A n \in DOMAIN membership \union {m} :
          membership'[n] = IF n = m THEN status ELSE membership[n]
  BY DEF SetMembership
<1> QED  BY <1>1, <1>2 DEF WritesIn, StaffTablesTyped, Exists

\* A membership is written, and the request goes on to nothing it would have to know, or ends.
LEMMA MembershipWriterEnds ==
    ASSUME MembersInv, NEW h \in Calls, call[h].at \in MemberPlaces, Meets(h), Home(h) \in Tenants, WritesIn(Home(h)),
           UNCHANGED <<tenant, account, invitation, taught, caller, idem>>,
           (\E code : Answer(h, code)) \/ Goto(h, "complete", Null)
    PROVE  MembersInv'
<1>1. StaffTablesTyped' /\ TablesInv' /\ \A g \in Calls \ {h} : LeavesTo(g)
  BY MembershipWritten
<1>2. Null \in Outcomes
  BY DEF Outcomes
<1> QED  BY <1>1, <1>2, MemberGoes, MemberAnswers

\* An insert that lost writes nothing; its caller's tenant may still have been met.
LEMMA LostInsertKeeps ==
    ASSUME MembersInv, NEW h \in Calls, call[h].at \in MemberPlaces, Meets(h), Home(h) \in Tenants, Refuses(h, "ERROR", TRUE),
           UNCHANGED <<tenant, account, membership, invitation, taught, caller, idem>>
    PROVE  MembersInv'
<1>1. WritesIn(Home(h))
  BY MembersTyped DEF MembersInv, StaffTablesTyped, WritesIn
<1>2. StaffTablesTyped' /\ TablesInv' /\ \A g \in Calls \ {h} : LeavesTo(g)
  BY <1>1, MembershipWritten
<1>3. CASE \E code : Answer(h, code)
  BY <1>2, <1>3, MemberAnswers
<1>4. CASE Goto(h, "fail", "retryable")
  BY <1>2, <1>4, MemberGoes DEF Outcomes
<1> QED  BY <1>3, <1>4 DEF Refuses, Throws

LEMMA InviteMemberKeeps ==
    ASSUME MembersInv, NEW h \in Calls, InviteMember(h)
    PROVE  MembersInv'
<1>1. {"create", "reinvite", "issue"} \subseteq MemberPlaces /\ Null \in Outcomes /\ "INVITED" \in MembershipStatuses
  BY DEF MemberPlaces, Outcomes, MembershipStatuses
<1>2. PICK place \in {"create", "reinvite"} : Serving(h, "invite", place)
  BY DEF InviteMember
<1>3. /\ call[h].at \in MemberPlaces /\ Service(h) = "invite" /\ Asked(h) /\ TablesInv /\ Knows(h, place, call[h].got)
      /\ invitation[h] = NoInvitation /\ Meets(h) /\ UNCHANGED <<tenant, account, invitation, taught, caller, idem>>
  BY <1>1, <1>2, ServingFacts DEF InviteMember
<1>4. /\ Target(h) \in Memberships /\ Target(h)[1] = Email(h) /\ Target(h)[2] = Home(h) /\ Home(h) \in Tenants
      /\ Opened(Email(h)) /\ StaffTablesTyped
  BY <1>2, <1>3, TargetNamed, ServiceNamed, MembersTyped DEF Knows, InviteKnows, Asked, StaffOps, MembersInv
<1>5. \/ Refuses(h, "ERROR", TRUE) /\ UNCHANGED membership
      \/ /\ membership' = SetMembership(Target(h), "INVITED") /\ Goto(h, "issue", Null)
         /\ ~Exists(Target(h)) \/ place = "reinvite"
  BY <1>2 DEF InviteMember, InsertMembership, Serving
<1>6. CASE Refuses(h, "ERROR", TRUE) /\ UNCHANGED membership
  BY <1>3, <1>4, <1>6, LostInsertKeeps
<1>7. CASE /\ membership' = SetMembership(Target(h), "INVITED") /\ Goto(h, "issue", Null)
           /\ ~Exists(Target(h)) \/ place = "reinvite"
  <2>1. WritesIn(Home(h)) /\ Exists(Target(h))'
    <3>1. PICK m \in Memberships : m = Target(h)
      BY <1>4
    <3>2. WritesIn(m[2]) /\ Target(h)' = Target(h) /\ m \in DOMAIN membership'
      BY <1>1, <1>3, <1>4, <1>7, <3>1, SetMembershipWrites, MemberGoto, NamesKept DEF Exists
    <3> QED  BY <1>4, <3>1, <3>2 DEF Exists
  <2>2. StaffTablesTyped' /\ TablesInv' /\ RowsKept /\ \A g \in Calls \ {h} : LeavesTo(g)
    BY <1>3, <1>4, <2>1, MembershipWritten
  <2>3. Service(h)' = "invite" /\ Email(h)' = Email(h) /\ Target(h)' = Target(h) /\ Home(h)' = Home(h)
    BY <1>1, <1>3, <1>7, MemberGoto, NamesKept
  <2>4. Home(h) \in overlap \/ Pending(Target(h)) = {}
    <3>1. ~Exists(Target(h)) => Pending(Target(h)) = {}
      <4>1. ASSUME NEW i \in InvitationIds, invitation[i].for = Target(h), ~Exists(Target(h))
            PROVE  FALSE
        <5>1. Target(h) # Null
          BY <1>4, MembershipAssumption
        <5> QED  BY <1>3, <4>1, <5>1 DEF TablesInv
      <4> QED  BY <4>1 DEF Pending
    <3>2. place = "reinvite" => Home(h) \in overlap \/ Pending(Target(h)) = {}
      BY <1>3 DEF Knows, InviteKnows, Still
    <3> QED  BY <1>7, <3>1, <3>2
  <2>5. Still(h, Pending(Target(h)) = {})'
    <3>1. Pending(Target(h))' = Pending(Target(h))
      BY <1>3, <2>3 DEF Pending
    <3> QED  BY <2>2, <2>3, <2>4, <3>1 DEF Still, RowsKept
  <2>6. InviteKnows(h, "issue", Null)'
    BY <1>3, <1>4, <2>1, <2>3, <2>5 DEF InviteKnows, Opened
  <2>7. Knows(h, "issue", Null)'
    BY <2>3, <2>6 DEF Knows, AcceptKnows, StatusKnows, OthersKnow
  <2>8. invitation'[h] = NoInvitation
    BY <1>3
  <2> QED  BY <1>1, <1>3, <1>7, <2>2, <2>7, <2>8, MemberGoes
<1> QED  BY <1>5, <1>6, <1>7

LEMMA MembershipStepsKeep ==
    ASSUME MembersInv, NEW h \in Calls, AcceptActivate(h) \/ StatusWrite(h)
    PROVE  MembersInv'
<1>1. {"activate", "write"} \subseteq MemberPlaces /\ {"ACTIVE", "SUSPENDED", "REVOKED"} \subseteq MembershipStatuses
  BY DEF MemberPlaces, MembershipStatuses
<1>2. StaffTablesTyped /\ TablesInv
  BY MembersTyped DEF MembersInv
<1>3. CASE AcceptActivate(h)
  <2>1. /\ call[h].at \in MemberPlaces /\ Service(h) = "accept" /\ Asked(h) /\ Knows(h, "activate", call[h].got)
        /\ membership' = SetMembership(Target(h), "ACTIVE") /\ Answer(h, "OK") /\ Meets(h)
        /\ UNCHANGED <<tenant, account, invitation, taught, caller, idem>>
    BY <1>1, <1>3, ServingFacts DEF AcceptActivate
  <2>2. /\ Token(h) \in InvitationIds /\ invitation[Token(h)].for # Null /\ Target(h) = invitation[Token(h)].for
        /\ ~NeedsPassword(Target(h)) /\ Home(h) = invitation[Token(h)].for[2]
    BY <2>1, TargetNamed, ServiceNamed DEF Knows, AcceptKnows, Asked, Fits, Token
  <2>3. PICK m \in DOMAIN membership : m = Target(h) /\ Home(h) = m[2]
    BY <1>2, <2>2 DEF TablesInv, Exists
  <2>4. m \in Memberships /\ Opened(m[1]) /\ ~NeedsPassword(m) /\ m[2] \in Tenants
    BY <1>2, <2>2, <2>3 DEF StaffTablesTyped, TablesInv, Memberships
  <2>5. WritesIn(m[2])
    BY <1>1, <2>1, <2>3, <2>4, SetMembershipWrites
  <2> QED  BY <2>1, <2>3, <2>4, <2>5, MembershipWriterEnds
<1>4. CASE StatusWrite(h)
  <2>1. /\ call[h].at \in MemberPlaces /\ Service(h) = "status" /\ Asked(h) /\ Knows(h, "write", call[h].got)
        /\ membership' = SetMembership(Target(h), NewStatusByAction[call[h].arg.verb]) /\ Goto(h, "complete", Null) /\ Meets(h)
        /\ UNCHANGED <<tenant, account, invitation, taught, caller, idem>>
    BY <1>1, <1>4, ServingFacts DEF StatusWrite
  <2>2. /\ Found(h) /\ call[h].arg.verb \in {"SUSPEND", "REACTIVATE", "REVOKE"} /\ Home(h) \in Tenants
        /\ call[h].arg.verb \in {"SUSPEND", "REACTIVATE"} /\ Invitable(Target(h)) => ~NeedsPassword(Target(h))
    BY <2>1, ServiceNamed DEF Knows, StatusKnows, Asked, Fits, StaffOps
  <2>3. PICK m \in DOMAIN membership : m = Target(h) /\ Home(h) = m[2]
    BY <2>2 DEF Found, Exists
  <2>4. PICK status \in {"ACTIVE", "SUSPENDED", "REVOKED"} : status = NewStatusByAction[call[h].arg.verb]
    BY <2>2 DEF NewStatusByAction
  <2>5. status \in {"ACTIVE", "SUSPENDED"} => call[h].arg.verb \in {"SUSPEND", "REACTIVATE"}
    BY <2>2, <2>4 DEF NewStatusByAction
  <2>6. m \in Memberships /\ Opened(m[1]) /\ m[2] \in Tenants
    BY <1>2, <2>3 DEF StaffTablesTyped, TablesInv, Memberships
  <2>7. status \in {"ACTIVE", "SUSPENDED"} /\ Invitable(m) => ~NeedsPassword(m)
    BY <2>2, <2>3, <2>5
  <2>8. WritesIn(m[2])
    BY <1>1, <2>1, <2>3, <2>4, <2>6, <2>7, SetMembershipWrites
  <2> QED  BY <2>1, <2>3, <2>6, <2>8, MembershipWriterEnds
<1> QED  BY <1>3, <1>4

LEMMA ActivationsKeep ==
    ASSUME MembersInv, NEW h \in Calls, AdminActivate(h) \/ EducatorCreateMembership(h)
    PROVE  MembersInv'
<1>1. {"activate", "create"} \subseteq MemberPlaces /\ "ACTIVE" \in MembershipStatuses
  BY DEF MemberPlaces, MembershipStatuses
<1>2. PICK service \in {"schoolAdmin", "educator"}, place \in {"activate", "create"} :
          Serving(h, service, place) /\ (service = "educator" => place = "create")
  BY DEF AdminActivate, EducatorCreateMembership
<1>3. /\ call[h].at \in MemberPlaces /\ Service(h) = service /\ Asked(h) /\ Knows(h, place, call[h].got) /\ Meets(h)
      /\ UNCHANGED <<tenant, account, invitation, taught, caller, idem>>
  BY <1>1, <1>2, ServingFacts DEF AdminActivate, EducatorCreateMembership
<1>4. /\ Target(h) \in Memberships /\ Target(h)[1] = Email(h) /\ Target(h)[2] = Home(h)
      /\ Target(h)[3] \in {"SCHOOL_ADMIN", "INDEPENDENT_EDUCATOR"} /\ Opened(Email(h)) /\ Home(h) \in Tenants
  BY <1>2, <1>3, TargetNamed, ServiceNamed DEF Knows, OthersKnow, Asked, Fits
<1>5. \/ Refuses(h, "ERROR", TRUE) /\ UNCHANGED membership
      \/ /\ membership' = SetMembership(Target(h), "ACTIVE")
         /\ (\E code : Answer(h, code)) \/ Goto(h, "complete", Null)
  BY DEF AdminActivate, EducatorCreateMembership, InsertMembership
<1>6. CASE Refuses(h, "ERROR", TRUE) /\ UNCHANGED membership
  BY <1>3, <1>4, <1>6, LostInsertKeeps
<1>7. CASE /\ membership' = SetMembership(Target(h), "ACTIVE")
           /\ (\E code : Answer(h, code)) \/ Goto(h, "complete", Null)
  <2>1. PICK m \in Memberships : m = Target(h) /\ Opened(m[1]) /\ m[2] = Home(h) /\ ~Invitable(m)
    BY <1>4 DEF Invitable
  <2>2. WritesIn(m[2])
    BY <1>1, <1>7, <2>1, SetMembershipWrites
  <2> QED  BY <1>3, <1>4, <1>7, <2>1, <2>2, MembershipWriterEnds
<1> QED  BY <1>5, <1>6, <1>7

LEMMA EducatorMembershipKeeps ==
    ASSUME MembersInv, NEW h \in Calls, EducatorStatusWriteMembership(h)
    PROVE  MembersInv'
<1> DEFINE held == {m \in DOMAIN membership : m[2] = Home(h) /\ m[3] = "INDEPENDENT_EDUCATOR"}
<1>1. "memberships" \in MemberPlaces
  BY DEF MemberPlaces
<1>2. /\ call[h].at \in MemberPlaces /\ Service(h) = "educatorStatus" /\ Asked(h) /\ StaffTablesTyped /\ TablesInv
      /\ membership' = [m \in DOMAIN membership |-> IF m \in held THEN call[h].arg.verb ELSE membership[m]]
      /\ Answer(h, "OK") /\ Meets(h) /\ UNCHANGED <<tenant, account, invitation, taught, caller, idem>>
  BY <1>1, ServingFacts DEF EducatorStatusWriteMembership
<1>3. call[h].arg.verb \in {"ACTIVE", "SUSPENDED"} /\ Home(h) \in Tenants
  BY <1>2, ServiceNamed DEF Asked, Fits
<1>4. PICK status \in {"ACTIVE", "SUSPENDED"} : status = call[h].arg.verb
  BY <1>3
<1>5. DOMAIN membership' = DOMAIN membership /\ \A m \in DOMAIN membership :
          membership'[m] = IF m \in held THEN status ELSE membership[m]
  BY <1>2, <1>4
<1>6. ASSUME NEW m \in held
      PROVE  m[2] = Home(h) /\ Opened(m[1]) /\ ~Invitable(m) /\ membership'[m] \in MembershipStatuses
  BY <1>2, <1>4, <1>5 DEF TablesInv, Invitable, MembershipStatuses
<1> HIDE DEF held
<1>7. WritesIn(Home(h))
  BY <1>2, <1>5, <1>6 DEF WritesIn, StaffTablesTyped
<1> QED  BY <1>2, <1>3, <1>7, MembershipWriterEnds

-----------------------------------------------------------------------------
(* The statements that write an invitation, or who teaches a class         *)

LEMMA IssueInvitationKeeps ==
    ASSUME MembersInv, NEW h \in Calls, IssueInvitation(h)
    PROVE  MembersInv'
<1>1. "issue" \in MemberPlaces /\ Null \in Outcomes
  BY DEF MemberPlaces, Outcomes
<1>2. /\ call[h].at \in MemberPlaces /\ Service(h) = "invite" /\ Asked(h) /\ Knows(h, "issue", call[h].got)
      /\ invitation[h] = NoInvitation /\ StaffTablesTyped /\ TablesInv
      /\ invitation' = [invitation EXCEPT ![h] = NewInvitation(Target(h))] /\ Goto(h, "complete", Null) /\ Meets(h)
      /\ UNCHANGED <<tenant, account, membership, taught, caller, idem>>
  BY <1>1, ServingFacts DEF IssueInvitation
<1>3. PICK m \in Memberships : m = Target(h) /\ m[2] = Home(h) /\ Home(h) \in Tenants /\ h \in InvitationIds
  BY <1>2, TargetNamed, ServiceNamed DEF Asked, StaffOps, InvitationIds
<1>4. Exists(m) /\ (Home(h) \in overlap \/ Pending(m) = {})
  BY <1>2, <1>3 DEF Knows, InviteKnows, Still
<1>5. PICK row : row = NewInvitation(m)
  OBVIOUS
<1>6. row \in InvitationRows /\ row.for = m
  <2>1. row = [for |-> m, consumed |-> FALSE, expired |-> FALSE]
    BY <1>5 DEF NewInvitation, NoInvitation
  <2> QED  BY <2>1 DEF InvitationRows
<1>7. invitation' = [invitation EXCEPT ![h] = row]
  BY <1>2, <1>3, <1>5
<1>8. invitation'[h] = row /\ \A i \in InvitationIds \ {h} : invitation'[i] = invitation[i]
  BY <1>2, <1>3, <1>7 DEF StaffTablesTyped
<1>9. invitation[h].for = Null
  BY <1>2 DEF NoInvitation
<1>10. /\ overlap' \subseteq Tenants /\ overlap \subseteq overlap'
       /\ \A g \in Calls \ {h} : Going(call[g].at) /\ Home(g) = Home(h) => Home(h) \in overlap'
  BY <1>2, <1>3, MeetsTells
<1>11. StaffTablesTyped'
  BY <1>2, <1>3, <1>6, <1>7, <1>10 DEF StaffTablesTyped
<1>12. RowsKept
  <2>1. \A i \in InvitationIds : invitation[i].for # Null => invitation'[i].for = invitation[i].for
    BY <1>8, <1>9
  <2> QED  BY <1>2, <1>10, <2>1 DEF RowsKept, TablesInv, Opened
<1>13. \A n \in Memberships : n # m => Pending(n)' = Pending(n)
  <2>1. TAKE n \in Memberships
  <2>2. HAVE n # m
  <2>3. n # Null
    BY MembershipAssumption
  <2>4. \A i \in InvitationIds : i \in Pending(n)' <=> i \in Pending(n)
    BY <1>6, <1>8, <1>9, <2>2, <2>3 DEF Pending
  <2> QED  BY <2>4 DEF Pending
<1>14. \A i \in Pending(m)' : i = h \/ i \in Pending(m)
  BY <1>8 DEF Pending
<1>15. \A t : t # Home(h) => SameIn(t)
  BY <1>2, <1>3, <1>13 DEF SameIn, Exists
<1>16. \A g \in Calls \ {h} : LeavesTo(g)
  <2>1. TAKE g \in Calls \ {h}
  <2>2. invitation'[g] = invitation[g]
    BY <1>8 DEF InvitationIds
  <2> QED  BY <1>10, <1>12, <1>15, <2>2 DEF LeavesTo
<1>17. TablesInv'
  <2>1. \A i \in InvitationIds : invitation'[i].for # Null => Exists(invitation'[i].for)
    <3>1. TAKE i \in InvitationIds
    <3>2. CASE i = h
      BY <1>4, <1>6, <1>8, <3>2
    <3>3. CASE i # h
      BY <1>2, <1>8, <3>3 DEF TablesInv
    <3> QED  BY <3>2, <3>3
  <2>2. ASSUME NEW n \in Memberships, n[2] \notin overlap'
        PROVE  \A i, j \in Pending(n)' : i = j
    <3>1. CASE n = m
      <4>1. Pending(m) = {}
        BY <1>3, <1>4, <1>10, <2>2, <3>1
      <4> QED  BY <1>14, <3>1, <4>1
    <3>2. CASE n # m
      BY <1>2, <1>10, <1>13, <2>2, <3>2 DEF TablesInv
    <3> QED  BY <3>1, <3>2
  <2> QED  BY <1>2, <2>1, <2>2 DEF TablesInv, Exists, Opened, MemberCanSignIn, TaughtInTenant, AccountOk
<1> QED  BY <1>1, <1>2, <1>11, <1>16, <1>17, MemberGoes

\* An invitation is used up, or its time is over.
LEMMA InvitationWithers ==
    ASSUME MembersInv, NEW i \in InvitationIds, invitation[i].for # Null, NEW row \in InvitationRows,
           row.for = invitation[i].for, ~row.consumed /\ ~row.expired => ~invitation[i].consumed /\ ~invitation[i].expired,
           invitation' = [invitation EXCEPT ![i] = row], UNCHANGED <<tenant, account, membership, taught, overlap>>
    PROVE  StaffTablesTyped' /\ TablesInv' /\ \A g \in Calls : LeavesTo(g)
<1>1. StaffTablesTyped /\ TablesInv
  BY MembersTyped DEF MembersInv
<1>2. invitation'[i] = row /\ \A j \in InvitationIds \ {i} : invitation'[j] = invitation[j]
  BY <1>1 DEF StaffTablesTyped
<1>3. StaffTablesTyped'
  BY <1>1 DEF StaffTablesTyped
<1>4. \A j \in InvitationIds : invitation'[j].for = invitation[j].for
  BY <1>2
<1>5. \A m : Pending(m)' \subseteq Pending(m)
  BY <1>2 DEF Pending
<1>6. RowsKept /\ \A t : SameIn(t)
  BY <1>1, <1>4, <1>5 DEF RowsKept, TablesInv, Opened, SameIn, Exists
<1>7. TablesInv'
  <2>1. \A m \in Memberships : m[2] \notin overlap' => \A j, k \in Pending(m)' : j = k
    BY <1>1, <1>5 DEF TablesInv
  <2> QED  BY <1>1, <1>4, <2>1 DEF TablesInv, Exists, Opened, MemberCanSignIn, TaughtInTenant, AccountOk
<1>8. \A g \in Calls : invitation[g] = NoInvitation => invitation'[g] = NoInvitation
  BY <1>2 DEF NoInvitation, InvitationIds
<1> QED  BY <1>3, <1>6, <1>7, <1>8 DEF LeavesTo

LEMMA AcceptConsumeKeeps ==
    ASSUME MembersInv, NEW h \in Calls, AcceptConsume(h)
    PROVE  MembersInv'
<1>1. {"consume", "activate"} \subseteq MemberPlaces /\ Null \in Outcomes
  BY DEF MemberPlaces, Outcomes
<1>2. /\ call[h].at \in MemberPlaces /\ Service(h) = "accept" /\ Asked(h) /\ Knows(h, "consume", call[h].got)
      /\ invitation[h] = NoInvitation /\ StaffTablesTyped /\ call[h].at = "consume"
      /\ invitation' = [invitation EXCEPT ![Token(h)] = Consume(@)] /\ Goto(h, "activate", Null)
      /\ UNCHANGED <<tenant, account, membership, taught, caller, overlap, idem>>
  BY <1>1, ServingFacts DEF AcceptConsume
<1>3. PICK i \in InvitationIds : i = Token(h) /\ invitation[i].for # Null
  BY <1>2 DEF Knows, AcceptKnows, Asked, Fits, Token
<1>4. PICK old \in InvitationRows : old = invitation[i]
  BY <1>2 DEF StaffTablesTyped
<1>5. PICK row : row = [old EXCEPT !.consumed = TRUE]
  OBVIOUS
<1>6. row \in InvitationRows /\ row.for = old.for /\ row.consumed
  BY <1>5 DEF InvitationRows
<1>7. invitation' = [invitation EXCEPT ![i] = row]
  BY <1>2, <1>3, <1>4, <1>5 DEF Consume
<1>8. StaffTablesTyped' /\ TablesInv' /\ \A g \in Calls : LeavesTo(g)
  BY <1>2, <1>3, <1>4, <1>6, <1>7, InvitationWithers
<1>9. Knows(h, "activate", Null)
  BY <1>2 DEF Knows, InviteKnows, AcceptKnows, StatusKnows, OthersKnow
<1>10. call'[h].op = call[h].op /\ call'[h].arg = call[h].arg
  BY <1>1, <1>2, MemberGoto
<1>11. Going(call[h].at) /\ call[h].at \notin {"idle", "done"}
  BY <1>2 DEF Going
<1>12. Knows(h, "activate", Null)'
  BY <1>1, <1>2, <1>8, <1>9, <1>10, <1>11, KnowledgeKept
<1>13. invitation'[h] = NoInvitation
  BY <1>2, <1>8 DEF LeavesTo
<1> QED  BY <1>1, <1>2, <1>8, <1>12, <1>13, MemberGoes

LEMMA InvitationExpiresKeeps ==
    ASSUME MembersInv, NEW i \in InvitationIds, InvitationExpires(i)
    PROVE  MembersInv'
<1>1. /\ invitation[i].for # Null /\ UNCHANGED <<tenant, account, membership, taught, caller, overlap, idem, call>>
      /\ invitation' = [invitation EXCEPT ![i] = [@ EXCEPT !.expired = TRUE]]
  BY DEF InvitationExpires
<1>2. StaffTablesTyped /\ caller \in [Calls -> Emails \union {Null}] /\ MemberCallsTyped
  BY MembersTyped DEF MembersInv
<1>3. PICK old \in InvitationRows : old = invitation[i]
  BY <1>2 DEF StaffTablesTyped
<1>4. PICK row : row = [old EXCEPT !.expired = TRUE]
  OBVIOUS
<1>5. row \in InvitationRows /\ row.for = old.for /\ row.expired
  BY <1>4 DEF InvitationRows
<1>6. invitation' = [invitation EXCEPT ![i] = row]
  BY <1>1, <1>3, <1>4
<1>7. StaffTablesTyped' /\ TablesInv' /\ \A g \in Calls : LeavesTo(g)
  BY <1>1, <1>3, <1>5, <1>6, InvitationWithers
<1>8. \A g \in Calls : CallKnows(g)'
  BY <1>1, <1>7, BystanderKnows
<1>9. MemberCallsTyped' /\ caller' \in [Calls -> Emails \union {Null}]
  BY <1>1, <1>2 DEF MemberCallsTyped, CallsTypeOK
<1>10. MembersTypeOK(Times)'
  BY <1>7, <1>9 DEF StaffTablesTyped, MemberCallsTyped, MembersTypeOK, MemberPlaces
<1> QED  BY <1>7, <1>8, <1>10 DEF MembersInv

LEMMA TaughtWritten ==
    ASSUME MembersInv, taught' \subseteq Memberships \X SchoolClasses, TaughtInTenant',
           UNCHANGED <<tenant, account, membership, invitation, overlap>>
    PROVE  StaffTablesTyped' /\ TablesInv' /\ \A g \in Calls : LeavesTo(g)
<1>1. StaffTablesTyped /\ TablesInv
  BY MembersTyped DEF MembersInv
<1>2. RowsKept /\ \A t : SameIn(t)
  BY <1>1 DEF RowsKept, TablesInv, Opened, SameIn, Exists, Pending
<1>3. StaffTablesTyped'
  BY <1>1 DEF StaffTablesTyped
<1>4. TablesInv'
  BY <1>1 DEF TablesInv, Opened, Exists, Pending, MemberCanSignIn, AccountOk
<1> QED  BY <1>2, <1>3, <1>4 DEF LeavesTo

LEMMA TeachingKeeps ==
    ASSUME MembersInv, NEW h \in Calls, AssignInsert(h) \/ UnassignTeacher(h)
    PROVE  MembersInv'
<1>1. {"run", "insert"} \subseteq MemberPlaces /\ Null \in Outcomes /\ "retryable" \in Outcomes
  BY DEF MemberPlaces, Outcomes
<1>2. CASE AssignInsert(h)
  <2>1. /\ call[h].at \in MemberPlaces /\ Service(h) = "assign" /\ Asked(h) /\ Knows(h, "insert", call[h].got)
        /\ StaffTablesTyped /\ TablesInv /\ tenant \in [Tenants -> TenantRows]
        /\ UNCHANGED <<tenant, account, membership, invitation, caller, overlap, idem>>
    BY <1>1, <1>2, ServingFacts DEF AssignInsert
  <2>2. \/ Throws(h, "ERROR", TRUE) /\ UNCHANGED taught
        \/ taught' = Assigned(Lesson(h)) /\ Goto(h, "complete", Null)
    BY <1>2 DEF AssignInsert
  <2>3. CASE Throws(h, "ERROR", TRUE) /\ UNCHANGED taught
    BY <2>1, <2>3, ReaderThrows
  <2>4. CASE taught' = Assigned(Lesson(h)) /\ Goto(h, "complete", Null)
    <3>1. Target(h) \in Memberships /\ call[h].arg.class \in SchoolClasses
      BY <2>1, TargetNamed DEF Asked, Fits
    <3>2. Target(h)[2] = ClassTenant[call[h].arg.class] /\ Target(h)[3] = "TEACHER"
      BY <2>1 DEF Knows, OthersKnow, ClassFound
    <3>3. PICK m \in Memberships, c \in SchoolClasses :
              m = Target(h) /\ c = call[h].arg.class /\ m[2] = ClassTenant[c] /\ m[3] = "TEACHER"
      BY <3>1, <3>2
    <3> DEFINE lesson == <<m, c>>
    <3>4. taught' = taught \union {lesson}
      BY <2>4, <3>3 DEF Assigned, Lesson
    <3>5. taught' \subseteq Memberships \X SchoolClasses /\ TaughtInTenant'
      BY <2>1, <3>3, <3>4 DEF StaffTablesTyped, TablesInv, TaughtInTenant
    <3> QED  BY <1>1, <2>1, <2>4, <3>5, TaughtWritten, MemberGoes
  <2> QED  BY <2>2, <2>3, <2>4
<1>3. CASE UnassignTeacher(h)
  <2>1. /\ call[h].at \in MemberPlaces /\ StaffTablesTyped /\ TablesInv /\ tenant \in [Tenants -> TenantRows]
        /\ UNCHANGED <<tenant, account, membership, invitation, caller, overlap, idem>>
    BY <1>1, <1>3, ServingFacts DEF UnassignTeacher
  <2>2. \/ (\E code : Throws(h, code, FALSE)) /\ UNCHANGED taught
        \/ taught' = Deleted(Lesson(h)) /\ Goto(h, "complete", Null)
    BY <1>3 DEF UnassignTeacher
  <2>3. CASE (\E code : Throws(h, code, FALSE)) /\ UNCHANGED taught
    BY <2>1, <2>3, ReaderThrows
  <2>4. CASE taught' = Deleted(Lesson(h)) /\ Goto(h, "complete", Null)
    <3>1. taught' \subseteq taught
      BY <2>4 DEF Deleted
    <3>2. taught' \subseteq Memberships \X SchoolClasses /\ TaughtInTenant'
      BY <2>1, <3>1 DEF StaffTablesTyped, TablesInv, TaughtInTenant
    <3> QED  BY <1>1, <2>1, <2>4, <3>2, TaughtWritten, MemberGoes
  <2> QED  BY <2>2, <2>3, <2>4
<1> QED  BY <1>2, <1>3

-----------------------------------------------------------------------------
(* The routes                                                              *)

\* A request is admitted, or refused, under an identity.
LEMMA AdmitKeeps ==
    ASSUME MembersInv, NEW h \in Calls, NEW op \in MemberOps, NEW arg \in MemberArgs, NEW key \in Keys \union {Null},
           NEW entitled, NEW place \in {"run", "begin"}, Admit(h, op, arg, key, entitled, place),
           place = "begin" => key \in Keys, entitled => Fits(op[1], arg),
           caller' \in [Calls -> Emails \union {Null}], \A g \in Calls \ {h} : caller'[g] = caller[g],
           entitled /\ op[1] = "status" => caller'[h] \in Emails /\ IsActive(<<caller'[h], op[2], "SCHOOL_ADMIN">>),
           UNCHANGED <<tenant, account, membership, invitation, taught, overlap>>
    PROVE  MembersInv'
<1>1. StaffTablesTyped /\ MemberCallsTyped /\ CallKnows(h) /\ "run" \in MemberPlaces
  BY MembersTyped, MemberCallTyped DEF MembersInv, MemberPlaces
<1>2. StaffTablesTyped' /\ TablesInv' /\ \A g \in Calls : LeavesTo(g)
  BY <1>1, QuietRows DEF StaffTablesTyped
<1>3. /\ MemberCallsTyped' /\ OthersStay(h) /\ call[h].at = "idle"
      /\ \/ call'[h].at = "done"
         \/ /\ entitled /\ call'[h].at = place /\ call'[h].op = op /\ call'[h].arg = arg
            /\ call'[h].key = key /\ call'[h].got = Null
  BY <1>1, AdmitEffect DEF MemberCallsTyped
<1>4. invitation'[h] = NoInvitation
  BY <1>1, <1>3 DEF CallKnows
<1>5. CASE call'[h].at = "done"
  <2>1. CallKnows(h)'
    BY <1>5 DEF CallKnows, Going, Knows, InviteKnows, AcceptKnows, StatusKnows, OthersKnow
  <2> QED  BY <1>2, <1>3, <2>1, MemberStep
<1>6. CASE /\ entitled /\ call'[h].at = place /\ call'[h].op = op /\ call'[h].arg = arg
           /\ call'[h].key = key /\ call'[h].got = Null
  <2>1. Service(h)' = op[1]
    BY <1>6, MembershipAssumption DEF Service
  <2>2. Asked(h)'
    BY <1>6, <2>1 DEF Asked
  <2>3. op[1] = "status" => Home(h)' = op[2]
    BY <1>6, <2>1 DEF Home, StaffOps
  <2>4. PICK e, m : e = caller'[h] /\ m = <<e, op[2], "SCHOOL_ADMIN">>
    OBVIOUS
  <2>5. op[1] = "status" => e \in Emails /\ IsActive(m)'
    BY <1>6, <2>4 DEF IsActive, Exists
  <2>6. StatusKnows(h, place)'
    BY <2>1, <2>3, <2>4, <2>5 DEF StatusKnows, Still
  <2>7. Knows(h, place, Null)'
    BY <2>1, <2>6 DEF Knows, InviteKnows, AcceptKnows, OthersKnow
  <2>8. CallKnows(h)'
    BY <1>4, <1>6, <2>2, <2>7 DEF CallKnows
  <2> QED  BY <1>2, <1>3, <2>8, MemberStep
<1> QED  BY <1>3, <1>5, <1>6

LEMMA BodyFits ==
    ASSUME NEW email \in Emails \union {Null}, NEW t \in Tenants \union {Null}, NEW role \in Roles \union {Null},
           NEW class \in SchoolClasses \union {Null}, NEW i \in InvitationIds \union {Null},
           NEW verb \in {Null, "SUSPEND", "REACTIVATE", "REVOKE", "ACTIVE", "SUSPENDED", "password", "none"}, NEW arg,
           arg = [email |-> email, tenant |-> t, role |-> role, class |-> class, invitation |-> i, verb |-> verb]
    PROVE  /\ arg \in MemberArgs /\ arg.email = email /\ arg.tenant = t /\ arg.role = role /\ arg.class = class
           /\ arg.invitation = i /\ arg.verb = verb
  BY DEF MemberArgs

LEMMA StaffCallKeeps ==
    ASSUME MembersInv, NEW h \in Calls, NEW m \in Memberships, IsActive(m), NEW op \in StaffOps, NEW body \in MemberArgs,
           NEW key \in Keys, NEW capability, StaffCall(h, Identity(m), op, body, key, capability), Fits(op, body),
           op = "status" => capability \in {"staff.membership.revoke", "staff.membership.suspend"},
           UNCHANGED <<tenant, account, membership, invitation, taught, overlap>>
    PROVE  MembersInv'
<1>1. m[1] \in Emails /\ m[2] \in Tenants /\ m[3] \in Roles /\ m = <<m[1], m[2], m[3]>>
  BY DEF Memberships
<1>2. PICK entitled : entitled = HasStaffCapability(m[3], capability)
  OBVIOUS
<1>3. /\ Admit(h, <<op, m[2]>>, body, key, entitled, "begin") /\ caller' = [caller EXCEPT ![h] = m[1]]
  BY <1>2 DEF StaffCall, Identity
<1>4. caller \in [Calls -> Emails \union {Null}]
  BY MembersTyped DEF MembersInv
<1>5. caller' \in [Calls -> Emails \union {Null}] /\ caller'[h] = m[1] /\ \A g \in Calls \ {h} : caller'[g] = caller[g]
  BY <1>1, <1>3, <1>4
<1>6. <<op, m[2]>> \in MemberOps
  BY <1>1 DEF MemberOps
<1>7. entitled /\ op = "status" => m[3] = "SCHOOL_ADMIN"
  BY <1>1, <1>2 DEF HasStaffCapability, Roles, TeacherCapabilities, IndependentEducatorCapabilities,
                    AsacomCapabilities, SupportTeacherCapabilities
<1>8. entitled /\ op = "status" => m = <<m[1], m[2], "SCHOOL_ADMIN">>
  BY <1>1, <1>7
<1>9. PICK o \in MemberOps : o = <<op, m[2]>> /\ o[1] = op /\ o[2] = m[2]
  BY <1>6
<1>10. /\ Admit(h, o, body, key, entitled, "begin") /\ Fits(o[1], body)
       /\ entitled /\ o[1] = "status" => caller'[h] \in Emails /\ IsActive(<<caller'[h], o[2], "SCHOOL_ADMIN">>)
  BY <1>1, <1>3, <1>5, <1>8, <1>9
<1> QED  BY <1>5, <1>10, AdmitKeeps

LEMMA StaffRoutesKeep ==
    ASSUME MembersInv, NEW h \in Calls, NEW m \in Memberships, IsActive(m), NEW key \in Keys,
           StaffRoutes(h, Identity(m), key), UNCHANGED <<tenant, account, membership, invitation, taught, overlap>>
    PROVE  MembersInv'
<1>1. CASE \E e \in Emails, r \in InviteRoles : PostInvitations(h, Identity(m), key, e, r)
  <2>1. PICK e \in Emails, r \in InviteRoles : PostInvitations(h, Identity(m), key, e, r)
    BY <1>1
  <2>2. r \in Roles
    BY MembershipAssumption
  <2>3. PICK body : body = InviteStaffMember(e, r)
    OBVIOUS
  <2>4. body = [email |-> e, tenant |-> Null, role |-> r, class |-> Null, invitation |-> Null, verb |-> Null]
    BY <2>3 DEF InviteStaffMember, EmptyBody
  <2>5. body \in MemberArgs /\ body.email = e /\ body.role = r
    BY <2>2, <2>4, BodyFits
  <2>6. Fits("invite", body)
    BY <2>2, <2>5 DEF Fits
  <2>7. StaffCall(h, Identity(m), "invite", body, key, "staff.invite")
    BY <2>1, <2>3 DEF PostInvitations
  <2> QED  BY <2>5, <2>6, <2>7, StaffCallKeeps DEF StaffOps
<1>2. ASSUME NEW n \in DOMAIN membership
      PROVE  n \in Memberships /\ n[1] \in Emails /\ n[2] \in Tenants /\ n[3] \in Roles /\ <<n[1], n[2], n[3]>> \in Memberships
  BY MembersTyped DEF MembersInv, StaffTablesTyped, Memberships
<1>3. CASE \E n \in DOMAIN membership, action \in {"SUSPEND", "REACTIVATE", "REVOKE"} :
              PatchMember(h, Identity(m), key, n, action)
  <2>1. PICK n \in DOMAIN membership, action \in {"SUSPEND", "REACTIVATE", "REVOKE"} :
            PatchMember(h, Identity(m), key, n, action)
    BY <1>3
  <2>2. PICK body : body = UpdateStaffMembershipStatus(n, action)
    OBVIOUS
  <2>3. body = [email |-> n[1], tenant |-> n[2], role |-> n[3], class |-> Null, invitation |-> Null, verb |-> action]
    BY <2>2 DEF UpdateStaffMembershipStatus, MemberBody, EmptyBody
  <2>4. body \in MemberArgs /\ body.email = n[1] /\ body.tenant = n[2] /\ body.role = n[3] /\ body.verb = action
    <3>1. PICK e \in Emails, t \in Tenants, r \in Roles : e = n[1] /\ t = n[2] /\ r = n[3]
      BY <1>2
    <3> QED  BY <2>3, <3>1, BodyFits
  <2>5. Fits("status", body)
    BY <1>2, <2>4 DEF Fits
  <2>6. PICK capability \in {"staff.membership.revoke", "staff.membership.suspend"} :
            StaffCall(h, Identity(m), "status", body, key, capability)
    BY <2>1, <2>2 DEF PatchMember
  <2> QED  BY <2>4, <2>5, <2>6, StaffCallKeeps DEF StaffOps
<1>4. CASE \E n \in DOMAIN membership, c \in SchoolClasses :
              PostClassTeachers(h, Identity(m), key, n, c) \/ DeleteClassTeacher(h, Identity(m), key, n, c)
  <2>1. PICK n \in DOMAIN membership, c \in SchoolClasses :
            PostClassTeachers(h, Identity(m), key, n, c) \/ DeleteClassTeacher(h, Identity(m), key, n, c)
    BY <1>4
  <2>2. PICK body : body = AssignTeacherToClass(n, c)
    OBVIOUS
  <2>3. body = [email |-> n[1], tenant |-> n[2], role |-> n[3], class |-> c, invitation |-> Null, verb |-> Null]
    BY <2>2 DEF AssignTeacherToClass, MemberBody, EmptyBody
  <2>4. body \in MemberArgs /\ body.email = n[1] /\ body.tenant = n[2] /\ body.role = n[3] /\ body.class = c
    <3>1. PICK e \in Emails, t \in Tenants, r \in Roles : e = n[1] /\ t = n[2] /\ r = n[3]
      BY <1>2
    <3> QED  BY <2>3, <3>1, BodyFits
  <2>5. PICK op \in {"assign", "unassign"} : StaffCall(h, Identity(m), op, body, key, "class.teacher.assign")
    BY <2>1, <2>2 DEF PostClassTeachers, DeleteClassTeacher, AssignTeacherToClass, UnassignTeacherFromClass
  <2>6. Fits(op, body)
    BY <1>2, <2>4 DEF Fits
  <2> QED  BY <2>4, <2>5, <2>6, StaffCallKeeps DEF StaffOps
<1> QED  BY <1>1, <1>3, <1>4 DEF StaffRoutes

LEMMA PlatformCallKeeps ==
    ASSUME MembersInv, NEW h \in Calls, NEW admin \in Emails, NEW op \in PlatformOps, NEW body \in MemberArgs,
           NEW key \in Keys \union {Null}, NEW capability, NEW place \in {"run", "begin"}, place = "begin" => key \in Keys,
           PlatformCall(h, admin, op, body, key, capability, place), Fits(op, body),
           UNCHANGED <<tenant, account, membership, invitation, taught, overlap>>
    PROVE  MembersInv'
<1>1. PICK entitled : entitled = AssertCapability(admin, capability)
  OBVIOUS
<1>2. caller \in [Calls -> Emails \union {Null}]
  BY MembersTyped DEF MembersInv
<1>3. PICK o \in MemberOps : o = <<op, admin>> /\ o[1] = op
  <2>1. <<op, admin>> \in MemberOps
    BY DEF MemberOps
  <2> QED  BY <2>1
<1>4. Admit(h, o, body, key, entitled, place) /\ caller' = [caller EXCEPT ![h] = admin]
  BY <1>1, <1>3 DEF PlatformCall
<1>5. caller' \in [Calls -> Emails \union {Null}] /\ \A g \in Calls \ {h} : caller'[g] = caller[g]
  BY <1>2, <1>4
<1>6. o[1] # "status" /\ Fits(o[1], body)
  <2>1. op # "status"
    BY DEF PlatformOps
  <2> QED  BY <1>3, <2>1
<1>7. /\ entitled => Fits(o[1], body)
      /\ entitled /\ o[1] = "status" => caller'[h] \in Emails /\ IsActive(<<caller'[h], o[2], "SCHOOL_ADMIN">>)
  BY <1>6
<1> QED  BY <1>4, <1>5, <1>7, AdmitKeeps

LEMMA PlatformRoutesKeep ==
    ASSUME MembersInv, NEW h \in Calls, NEW admin \in Emails, NEW key \in Keys,
           PlatformRoutes(h, admin, key), UNCHANGED <<tenant, account, membership, invitation, taught, overlap>>
    PROVE  MembersInv'
<1>1. CASE PostTenants(h, admin, key)
  <2>1. EmptyBody \in MemberArgs /\ Fits("provision", EmptyBody)
    BY DEF EmptyBody, MemberArgs, Fits
  <2> QED  BY <1>1, <2>1, PlatformCallKeeps DEF PostTenants, PlatformOps
<1>2. CASE \E e \in Emails : PostIndependentEducators(h, admin, key, e)
  <2>1. PICK e \in Emails : PostIndependentEducators(h, admin, key, e)
    BY <1>2
  <2>2. PICK body : body = ActivateIndependentEducator(e)
    OBVIOUS
  <2>3. body = [email |-> e, tenant |-> Null, role |-> Null, class |-> Null, invitation |-> Null, verb |-> Null]
    BY <2>2 DEF ActivateIndependentEducator, EmptyBody
  <2>4. body \in MemberArgs /\ body.email = e
    BY <2>3, BodyFits
  <2>5. Fits("educator", body)
    BY <2>4 DEF Fits
  <2>6. PlatformCall(h, admin, "educator", body, key, "independent_educator.activate", "begin")
    BY <2>1, <2>2 DEF PostIndependentEducators
  <2> QED  BY <2>4, <2>5, <2>6, PlatformCallKeeps DEF PlatformOps
<1>3. CASE \E t \in Tenants, e \in Emails : PostSchoolAdmins(h, admin, t, e)
  <2>1. PICK t \in Tenants, e \in Emails : PostSchoolAdmins(h, admin, t, e)
    BY <1>3
  <2>2. PICK body : body = ActivateSchoolAdmin(t, e)
    OBVIOUS
  <2>3. body = [email |-> e, tenant |-> t, role |-> "SCHOOL_ADMIN", class |-> Null, invitation |-> Null, verb |-> Null]
    BY <2>2 DEF ActivateSchoolAdmin, EmptyBody
  <2>4. body \in MemberArgs /\ body.email = e /\ body.tenant = t /\ body.role = "SCHOOL_ADMIN"
    BY <2>3, BodyFits DEF Roles
  <2>5. Fits("schoolAdmin", body)
    BY <2>4 DEF Fits
  <2>6. PlatformCall(h, admin, "schoolAdmin", body, Null, "school_admin.activate", "run")
    BY <2>1, <2>2 DEF PostSchoolAdmins
  <2> QED  BY <2>4, <2>5, <2>6, PlatformCallKeeps DEF PlatformOps
<1>4. CASE \E t \in Tenants, status \in {"ACTIVE", "SUSPENDED"} :
              PatchTenantStatus(h, admin, t, status) \/ PatchEducatorStatus(h, admin, t, status)
  <2>1. PICK t \in Tenants, status \in {"ACTIVE", "SUSPENDED"} :
            PatchTenantStatus(h, admin, t, status) \/ PatchEducatorStatus(h, admin, t, status)
    BY <1>4
  <2>2. PICK body : body = SetTenantStatus(t, status)
    OBVIOUS
  <2>3. body = [email |-> Null, tenant |-> t, role |-> Null, class |-> Null, invitation |-> Null, verb |-> status]
    BY <2>2 DEF SetTenantStatus, EmptyBody
  <2>4. body \in MemberArgs /\ body.tenant = t /\ body.verb = status
    BY <2>3, BodyFits
  <2>5. PICK op \in {"tenantStatus", "educatorStatus"}, capability \in {"tenant.suspend", "independent_educator.status.manage"} :
            PlatformCall(h, admin, op, body, Null, capability, "run")
    BY <2>1, <2>2 DEF PatchTenantStatus, PatchEducatorStatus, SetTenantStatus, SetIndependentEducatorStatus
  <2>6. Fits(op, body)
    BY <2>4, <2>5 DEF Fits
  <2> QED  BY <2>4, <2>5, <2>6, PlatformCallKeeps DEF PlatformOps
<1>5. {u \in Tenants : tenant[u].status # "ABSENT"} \union {h} \subseteq Tenants
  BY DEF Tenants
<1>6. \/ \E t \in Tenants, e \in Emails : PostSchoolAdmins(h, admin, t, e)
      \/ \E t \in Tenants, status \in {"ACTIVE", "SUSPENDED"} :
              PatchTenantStatus(h, admin, t, status) \/ PatchEducatorStatus(h, admin, t, status)
      \/ PostTenants(h, admin, key) \/ \E e \in Emails : PostIndependentEducators(h, admin, key, e)
  BY <1>5 DEF PlatformRoutes
<1> QED  BY <1>1, <1>2, <1>3, <1>4, <1>6

LEMMA InviteeRoutesKeep ==
    ASSUME MembersInv, NEW h \in Calls, InviteeRoutes(h),
           UNCHANGED <<tenant, account, membership, invitation, taught, overlap>>
    PROVE  MembersInv'
<1>1. PICK i \in {j \in InvitationIds : invitation[j].for # Null} \union {h}, password \in {"password", "none"} :
          PostAcceptInvitation(h, i, password)
  BY DEF InviteeRoutes
<1>2. i \in InvitationIds /\ caller \in [Calls -> Emails \union {Null}]
  BY MembersTyped DEF MembersInv, InvitationIds
<1>3. PICK body : body = AcceptStaffInvitation(i, password)
  OBVIOUS
<1>4. body = [email |-> Null, tenant |-> Null, role |-> Null, class |-> Null, invitation |-> i, verb |-> password]
  BY <1>3 DEF AcceptStaffInvitation, EmptyBody
<1>5. body \in MemberArgs /\ body.invitation = i
  BY <1>2, <1>4, BodyFits
<1>6. PICK op \in MemberOps : op = <<"accept", Null>> /\ op[1] = "accept"
  <2>1. <<"accept", Null>> \in MemberOps
    BY DEF MemberOps
  <2> QED  BY <2>1
<1>7. Fits(op[1], body)
  BY <1>2, <1>5, <1>6 DEF Fits
<1>8. PICK key \in Keys \union {Null} : key = Null
  OBVIOUS
<1>9. Admit(h, op, body, key, TRUE, "run") /\ caller' = caller
  BY <1>1, <1>3, <1>6, <1>8 DEF PostAcceptInvitation
<1> QED  BY <1>2, <1>5, <1>6, <1>7, <1>9, AdmitKeeps

-----------------------------------------------------------------------------
(* Every step of the services                                              *)

LEMMA MembersNextKeeps ==
    ASSUME MembersInv, MembersNext
    PROVE  MembersInv'
<1>1. ASSUME NEW h \in Calls, MemberServices(h)
      PROVE  MembersInv'
  <2>1. CASE InviteFindAccount(h) \/ InviteFindMembership(h) \/ InviteFindPending(h)
    BY <2>1, InviteReadsKeep
  <2>2. CASE InviteCreateAccount(h) \/ AdminCreateAccount(h) \/ EducatorCreateAccount(h) \/ AcceptSetPassword(h)
    BY <2>2, AccountStepsKeep
  <2>3. CASE InviteMember(h) \/ IssueInvitation(h)
    BY <2>3, InviteMemberKeeps, IssueInvitationKeeps
  <2>4. CASE AcceptFindInvitation(h) \/ AcceptFindAccount(h)
    BY <2>4, AcceptReadsKeep
  <2>5. CASE AcceptConsume(h)
    BY <2>5, AcceptConsumeKeeps
  <2>6. CASE AcceptActivate(h) \/ StatusWrite(h)
    BY <2>6, MembershipStepsKeep
  <2>7. CASE StatusReadTarget(h) \/ StatusCountAdmins(h)
    BY <2>7, StatusReadsKeep
  <2>8. CASE AssignRead(h)
    BY <2>8, AssignReadKeeps
  <2>9. CASE AssignInsert(h) \/ UnassignTeacher(h)
    BY <2>9, TeachingKeeps
  <2>10. CASE \/ CreateSchoolTenant(h) \/ TenantStatusRead(h) \/ TenantStatusWrite(h)
              \/ EducatorStatusRead(h) \/ EducatorStatusWriteTenant(h)
    BY <2>10, TenantStepsKeep
  <2>11. CASE AdminReadTenant(h) \/ AdminFindAccount(h) \/ AdminFindMembership(h)
    BY <2>11, AdminReadsKeep
  <2>12. CASE AdminActivate(h) \/ EducatorCreateMembership(h)
    BY <2>12, ActivationsKeep
  <2>13. CASE EducatorFindAccount(h) \/ EducatorFindMemberships(h) \/ EducatorCreateTenant(h)
    BY <2>13, EducatorReadsKeep
  <2>14. CASE EducatorStatusWriteMembership(h)
    BY <2>14, EducatorMembershipKeeps
  <2>15. CASE /\ \/ StatementFails(h) \/ ProcessDies(h)
                 \/ BeginInvite(h) \/ BeginMemberStatus(h) \/ BeginTeaching(h) \/ BeginProvision(h) \/ BeginEducator(h)
                 \/ SettleInvite(h) \/ SettleMemberStatus(h) \/ SettleTeaching(h) \/ SettleProvision(h) \/ SettleEducator(h)
              /\ UNCHANGED <<tenant, account, membership, invitation, taught, caller, overlap>>
    BY <2>15, MemberFrameKeeps
  <2> QED  BY <1>1, <2>1, <2>2, <2>3, <2>4, <2>5, <2>6, <2>7, <2>8, <2>9, <2>10, <2>11, <2>12, <2>13, <2>14, <2>15
           DEF MemberServices
<1>2. ASSUME NEW i \in InvitationIds, InvitationExpires(i)
      PROVE  MembersInv'
  BY <1>2, InvitationExpiresKeeps
<1>3. CASE RetryWindowEnds /\ UNCHANGED <<tenant, account, membership, invitation, taught, caller, overlap>>
  <2>1. StaffTablesTyped /\ MemberCallsTyped /\ caller \in [Calls -> Emails \union {Null}]
    BY MembersTyped DEF MembersInv
  <2>2. MemberCallsTyped' /\ call' = call
    BY <1>3, <2>1, RetryWindowEffect DEF MemberCallsTyped
  <2>3. StaffTablesTyped' /\ TablesInv' /\ \A g \in Calls : LeavesTo(g)
    BY <1>3, <2>1, QuietRows DEF StaffTablesTyped
  <2>4. \A g \in Calls : CallKnows(g)'
    BY <1>3, <2>2, <2>3, BystanderKnows
  <2>5. MembersTypeOK(Times)'
    BY <1>3, <2>1, <2>2, <2>3 DEF StaffTablesTyped, MemberCallsTyped, MembersTypeOK, MemberPlaces
  <2> QED  BY <2>3, <2>4, <2>5 DEF MembersInv
<1> QED  BY <1>1, <1>2, <1>3 DEF MembersNext

\* A login counts its failures in the account, and touches nothing else of the members.
LEMMA LoginWriteKeeps ==
    ASSUME MembersInv, NEW e \in Emails, NEW row \in AccountRows(Times), account' = [account EXCEPT ![e] = row],
           row.status = account[e].status, row.requiresPasswordSetup = account[e].requiresPasswordSetup, AccountOk(row),
           UNCHANGED <<tenant, membership, invitation, taught, caller, overlap, idem, call>>
    PROVE  MembersInv'
<1>1. MemberCallsTyped /\ caller \in [Calls -> Emails \union {Null}]
  BY MembersTyped DEF MembersInv
<1>2. StaffTablesTyped' /\ TablesInv' /\ \A g \in Calls : LeavesTo(g)
  BY AccountWritten DEF Opened
<1>3. \A g \in Calls : CallKnows(g)'
  BY <1>2, BystanderKnows
<1>4. MembersTypeOK(Times)'
  BY <1>1, <1>2 DEF StaffTablesTyped, MemberCallsTyped, MembersTypeOK, MemberPlaces, CallsTypeOK
<1> QED  BY <1>2, <1>3, <1>4 DEF MembersInv

LEMMA MembersStay ==
    ASSUME MembersInv, UNCHANGED memberVars
    PROVE  MembersInv'
<1>1. UNCHANGED <<tenant, account, membership, invitation, taught, caller, overlap, idem, call>>
  BY DEF memberVars
<1>2. StaffTablesTyped /\ MemberCallsTyped /\ caller \in [Calls -> Emails \union {Null}]
  BY MembersTyped DEF MembersInv
<1>3. StaffTablesTyped' /\ TablesInv' /\ \A g \in Calls : LeavesTo(g)
  BY <1>1, <1>2, QuietRows DEF StaffTablesTyped
<1>4. \A g \in Calls : CallKnows(g)'
  BY <1>1, <1>3, BystanderKnows
<1>5. MembersTypeOK(Times)'
  BY <1>1, <1>2, <1>3 DEF StaffTablesTyped, MemberCallsTyped, MembersTypeOK, MemberPlaces, CallsTypeOK
<1> QED  BY <1>3, <1>4, <1>5 DEF MembersInv

-----------------------------------------------------------------------------
(* A school keeps an administrator                                         *)

AdminStays(t) == ActiveSchoolAdmins(t) # {} /\ t \notin overlap' => ActiveSchoolAdmins(t)' # {}

LEMMA AdminKept ==
    ASSUME NEW t \in Tenants, NEW e \in Emails,
           LET a == <<e, t, "SCHOOL_ADMIN">> IN a \in DOMAIN membership' /\ membership'[a] = "ACTIVE"
    PROVE  AdminStays(t)
<1>1. e \in ActiveSchoolAdmins(t)'
  BY DEF ActiveSchoolAdmins, IsActive, Exists
<1> QED  BY <1>1 DEF AdminStays

\* A write to one membership takes nothing from the administrators of other tenants, nor
\* from an administrator it is not about or activates.
LEMMA SetKeepsAdmin ==
    ASSUME NEW m, NEW status, membership' = SetMembership(m, status), NEW t \in Tenants, NEW e \in Emails,
           IsActive(<<e, t, "SCHOOL_ADMIN">>), m # <<e, t, "SCHOOL_ADMIN">> \/ status = "ACTIVE"
    PROVE  AdminStays(t)
<1>1. LET a == <<e, t, "SCHOOL_ADMIN">> IN a \in DOMAIN membership' /\ membership'[a] = "ACTIVE"
  BY DEF SetMembership, IsActive, Exists
<1> QED  BY <1>1, AdminKept

LEMMA MembershipsUnchangedKeepAdmins ==
    ASSUME UNCHANGED membership, NEW t \in Tenants
    PROVE  AdminStays(t)
  BY DEF AdminStays, ActiveSchoolAdmins, IsActive, Exists

LEMMA StatusWriteKeepsAdmins ==
    ASSUME MembersInv, NEW h \in Calls, StatusWrite(h), NEW t \in Tenants
    PROVE  AdminStays(t)
<1>1. "write" \in MemberPlaces
  BY DEF MemberPlaces
<1>2. /\ Service(h) = "status" /\ Asked(h) /\ Knows(h, "write", call[h].got) /\ Meets(h)
      /\ membership' = SetMembership(Target(h), NewStatusByAction[call[h].arg.verb])
  BY <1>1, ServingFacts DEF StatusWrite
<1>3. Going("write")
  BY DEF Going
<1>4. Target(h)[2] = Home(h) /\ Home(h) \in Tenants /\ Target(h) \in Memberships
  BY <1>2, TargetNamed, ServiceNamed DEF Knows, StatusKnows, Found, Asked, StaffOps
<1>5. overlap \subseteq overlap'
  BY <1>2, <1>4, MeetsTells
<1>6. SUFFICES ASSUME ActiveSchoolAdmins(t) # {}, t \notin overlap'
               PROVE  AdminStays(t)
  BY DEF AdminStays
<1>7. PICK e \in Emails : IsActive(<<e, t, "SCHOOL_ADMIN">>)
  BY <1>6 DEF ActiveSchoolAdmins
<1>8. CASE t # Home(h)
  <2>1. Target(h) # <<e, t, "SCHOOL_ADMIN">>
    BY <1>4, <1>8
  <2> QED  BY <1>2, <1>7, <2>1, SetKeepsAdmin
<1>9. CASE t = Home(h)
  <2>1. caller[h] \in Emails /\ IsActive(<<caller[h], t, "SCHOOL_ADMIN">>)
    BY <1>2, <1>3, <1>5, <1>6, <1>9 DEF Knows, StatusKnows, Still
  <2>2. CASE OwnAdmin(h)
    <3>1. PICK d \in Emails \ {caller[h]} : IsActive(<<d, t, "SCHOOL_ADMIN">>)
      BY <1>2, <1>5, <1>6, <1>9, <2>2 DEF Knows, StatusKnows, Still
    <3>2. Target(h) # <<d, t, "SCHOOL_ADMIN">>
      BY <2>2, <3>1 DEF OwnAdmin
    <3> QED  BY <1>2, <3>1, <3>2, SetKeepsAdmin
  <2>3. CASE ~OwnAdmin(h)
    <3>1. call[h].arg.verb \in {"SUSPEND", "REACTIVATE", "REVOKE"}
      BY <1>2 DEF Asked, Fits
    <3>2. CASE call[h].arg.verb = "REACTIVATE"
      <4>1. NewStatusByAction[call[h].arg.verb] = "ACTIVE"
        BY <3>2 DEF NewStatusByAction
      <4> QED  BY <1>2, <2>1, <4>1, SetKeepsAdmin
    <3>3. CASE call[h].arg.verb # "REACTIVATE"
      <4>1. Target(h) # <<caller[h], t, "SCHOOL_ADMIN">>
        BY <2>3, <3>1, <3>3 DEF OwnAdmin
      <4> QED  BY <1>2, <2>1, <4>1, SetKeepsAdmin
    <3> QED  BY <3>2, <3>3
  <2> QED  BY <2>2, <2>3
<1> QED  BY <1>8, <1>9

LEMMA InviteMemberKeepsAdmins ==
    ASSUME MembersInv, NEW h \in Calls, InviteMember(h), NEW t \in Tenants
    PROVE  AdminStays(t)
<1>1. {"create", "reinvite"} \subseteq MemberPlaces
  BY DEF MemberPlaces
<1>2. PICK place \in {"create", "reinvite"} : Serving(h, "invite", place)
  BY DEF InviteMember
<1>3. /\ Service(h) = "invite" /\ Asked(h) /\ Knows(h, place, call[h].got) /\ Meets(h)
  BY <1>1, <1>2, ServingFacts DEF InviteMember
<1>4. Target(h) \in Memberships /\ Target(h)[2] = Home(h) /\ Home(h) \in Tenants
  BY <1>3, TargetNamed, ServiceNamed DEF Asked, StaffOps
<1>5. overlap \subseteq overlap'
  BY <1>3, <1>4, MeetsTells
<1>6. \/ UNCHANGED membership
      \/ membership' = SetMembership(Target(h), "INVITED") /\ (~Exists(Target(h)) \/ place = "reinvite")
  BY <1>2 DEF InviteMember, InsertMembership, Serving
<1>7. CASE UNCHANGED membership
  BY <1>7, MembershipsUnchangedKeepAdmins
<1>8. CASE membership' = SetMembership(Target(h), "INVITED") /\ (~Exists(Target(h)) \/ place = "reinvite")
  <2>1. SUFFICES ASSUME ActiveSchoolAdmins(t) # {}, t \notin overlap'
                 PROVE  AdminStays(t)
    BY DEF AdminStays
  <2>2. PICK e \in Emails : IsActive(<<e, t, "SCHOOL_ADMIN">>)
    BY <2>1 DEF ActiveSchoolAdmins
  <2>3. Target(h) # <<e, t, "SCHOOL_ADMIN">>
    <3>1. PICK a : a = <<e, t, "SCHOOL_ADMIN">> /\ IsActive(a) /\ a[2] = t
      BY <2>2
    <3>2. ASSUME Target(h) = a
          PROVE  FALSE
      <4>1. Exists(a) /\ membership[a] = "ACTIVE"
        BY <3>1 DEF IsActive
      <4>2. t = Home(h) /\ place = "reinvite"
        BY <1>4, <1>8, <3>1, <3>2, <4>1
      <4>3. membership[Target(h)] = "REVOKED"
        BY <1>3, <1>5, <2>1, <4>2 DEF Knows, InviteKnows, Still
      <4> QED  BY <3>2, <4>1, <4>3
    <3> QED  BY <3>1, <3>2
  <2> QED  BY <1>8, <2>2, <2>3, SetKeepsAdmin
<1> QED  BY <1>6, <1>7, <1>8

LEMMA AdministratorsStay ==
    ASSUME MembersInv, MembersNext, NEW t \in Tenants
    PROVE  AdminStays(t)
<1>1. CASE UNCHANGED membership
  BY <1>1, MembershipsUnchangedKeepAdmins
<1>2. ASSUME NEW h \in Calls, NEW m, membership' = SetMembership(m, "ACTIVE")
      PROVE  AdminStays(t)
  <2>1. SUFFICES ASSUME ActiveSchoolAdmins(t) # {}
                 PROVE  AdminStays(t)
    BY DEF AdminStays
  <2>2. PICK e \in Emails : IsActive(<<e, t, "SCHOOL_ADMIN">>)
    BY <2>1 DEF ActiveSchoolAdmins
  <2> QED  BY <1>2, <2>2, SetKeepsAdmin
<1>3. ASSUME NEW h \in Calls, EducatorStatusWriteMembership(h)
      PROVE  AdminStays(t)
  <2>1. SUFFICES ASSUME ActiveSchoolAdmins(t) # {}
                 PROVE  AdminStays(t)
    BY DEF AdminStays
  <2>2. PICK e \in Emails : IsActive(<<e, t, "SCHOOL_ADMIN">>)
    BY <2>1 DEF ActiveSchoolAdmins
  <2>3. PICK a \in DOMAIN membership : a = <<e, t, "SCHOOL_ADMIN">> /\ membership[a] = "ACTIVE" /\ a[3] # "INDEPENDENT_EDUCATOR"
    BY <2>2 DEF IsActive, Exists
  <2>4. a \in DOMAIN membership' /\ membership'[a] = "ACTIVE"
    BY <1>3, <2>3 DEF EducatorStatusWriteMembership
  <2> QED  BY <2>3, <2>4, AdminKept
<1>4. ASSUME NEW h \in Calls, MemberServices(h)
      PROVE  AdminStays(t)
  <2>1. CASE StatusWrite(h)
    BY <2>1, StatusWriteKeepsAdmins
  <2>2. CASE InviteMember(h)
    BY <2>2, InviteMemberKeepsAdmins
  <2>3. CASE AcceptActivate(h) \/ AdminActivate(h) \/ EducatorCreateMembership(h)
    <3>1. UNCHANGED membership \/ \E m : membership' = SetMembership(m, "ACTIVE")
      BY <2>3 DEF AcceptActivate, AdminActivate, EducatorCreateMembership, InsertMembership
    <3> QED  BY <1>1, <1>2, <3>1
  <2>4. CASE EducatorStatusWriteMembership(h)
    BY <1>3, <2>4
  <2>5. CASE \/ InviteFindAccount(h) \/ InviteCreateAccount(h) \/ InviteFindMembership(h) \/ InviteFindPending(h)
             \/ IssueInvitation(h) \/ AcceptFindInvitation(h) \/ AcceptFindAccount(h) \/ AcceptSetPassword(h) \/ AcceptConsume(h)
             \/ StatusReadTarget(h) \/ StatusCountAdmins(h) \/ AssignRead(h) \/ AssignInsert(h) \/ UnassignTeacher(h)
             \/ CreateSchoolTenant(h) \/ TenantStatusRead(h) \/ TenantStatusWrite(h)
             \/ AdminReadTenant(h) \/ AdminFindAccount(h) \/ AdminCreateAccount(h) \/ AdminFindMembership(h)
             \/ EducatorFindAccount(h) \/ EducatorFindMemberships(h) \/ EducatorCreateAccount(h) \/ EducatorCreateTenant(h)
             \/ EducatorStatusRead(h) \/ EducatorStatusWriteTenant(h)
             \/ UNCHANGED <<tenant, account, membership, invitation, taught, caller, overlap>>
    <3>1. UNCHANGED membership
      BY <2>5 DEF InviteFindAccount, InviteCreateAccount, InviteFindMembership, InviteFindPending, IssueInvitation,
         AcceptFindInvitation, AcceptFindAccount, AcceptSetPassword, AcceptConsume, StatusReadTarget, StatusCountAdmins,
         AssignRead, AssignInsert, UnassignTeacher, CreateSchoolTenant, TenantStatusRead, TenantStatusWrite, AdminReadTenant,
         AdminFindAccount, AdminCreateAccount, AdminFindMembership, EducatorFindAccount, EducatorFindMemberships,
         EducatorCreateAccount, EducatorCreateTenant, EducatorStatusRead, EducatorStatusWriteTenant
    <3> QED  BY <1>1, <3>1
  <2> QED  BY <1>4, <2>1, <2>2, <2>3, <2>4, <2>5 DEF MemberServices
<1>5. ASSUME NEW i \in InvitationIds, InvitationExpires(i)
      PROVE  AdminStays(t)
  BY <1>1, <1>5 DEF InvitationExpires
<1> QED  BY <1>1, <1>4, <1>5 DEF MembersNext

-----------------------------------------------------------------------------
(* Logins                                                                  *)

\* Between resolveActiveSession and the write that ends the request.
TellPlaces == {"tenant", "membership", "touch", "switch", "rotate", "revoke"}
Tells(v) == visit[v].at \in TellPlaces
Holds(v, login) == Tells(v) /\ session[visit[v].session].login = login

\* What a visit with the local state c has read, at each of its statements.
VisitFits(v, c) ==
    /\ c.at \in {"limit", "account", "failed", "resolve", "standing", "create", "reset"} => c.email \in Emails
    /\ c.at \in {"standing", "create"} /\ c.surface = "staff" => c.member \in Memberships /\ c.member[1] = c.email
    /\ c.at = "valid" \/ c.at \in TellPlaces => c.session \in Visits /\ session[c.session].login # Null
    /\ c.at = "valid" => c.op \in {"refresh", "logout", "context", "switch"}
    /\ c.at \in {"tenant", "membership", "touch"} => c.op \in {"context", "switch"}
    /\ c.at = "switch" => c.op = "switch"
    /\ c.at = "rotate" => c.op \in {"refresh", "switch"}
    /\ c.at = "rotate" /\ c.op = "switch" => c.member \in Memberships /\ c.member[1] = session[c.session].account
    /\ c.at \notin {"reset", "done"} => session[v] = NoSession /\ \A s \in Visits : session[s].login # v

\* A login has one live session and one request about to end or touch it, which holds that session.
LoginOk(login) ==
    /\ \A s, t \in Visits : session[s].login = login /\ session[s].live /\ session[t].login = login /\ session[t].live => s = t
    /\ \A u, v \in Visits : Holds(u, login) /\ Holds(v, login) => u = v
    /\ \A v, s \in Visits : Holds(v, login) /\ session[s].login = login /\ session[s].live => s = visit[v].session

SessionRows == StaffSessionRows \union PlatformAdminSessionRows \union {NoSession}

LoginsInv ==
    /\ now \in 0 .. MaxTime /\ grant \in [Emails -> {"ABSENT", "ACTIVE", "SUSPENDED"}] /\ limited \subseteq {"IP", "EMAIL"}
    /\ session \in [Visits -> SessionRows] /\ visit \in [Visits -> VisitLocals] /\ forked \subseteq Visits
    /\ \A v \in Visits : VisitFits(v, visit[v])
    /\ OwnMembership /\ LimitFromLogin
    /\ \A login \in Visits \ forked : LoginOk(login)

\* A session keeps what it is, and does not come back.
SessionKept(s) ==
    /\ session'[s].login = session[s].login /\ session'[s].surface = session[s].surface
    /\ session'[s].account = session[s].account /\ session'[s].member = session[s].member
    /\ session'[s].loginAt = session[s].loginAt /\ session'[s].expiresAt = session[s].expiresAt
    /\ session'[s].live => session[s].live
    /\ session[s] = NoSession => session'[s] = NoSession

SettingTyped ==
    /\ now \in 0 .. MaxTime /\ grant \in [Emails -> {"ABSENT", "ACTIVE", "SUSPENDED"}] /\ limited \subseteq {"IP", "EMAIL"}
    /\ session \in [Visits -> SessionRows] /\ visit \in [Visits -> VisitLocals] /\ forked \subseteq Visits

LEMMA RowsOfSessions ==
    ASSUME NEW row \in SessionRows, row.login # Null
    PROVE  /\ row.surface \in Surfaces /\ row.account \in Emails /\ row.login \in Visits
           /\ row \in StaffSessionRows \/ row \in PlatformAdminSessionRows
<1>1. row # NoSession
  BY DEF NoSession
<1> QED  BY <1>1 DEF SessionRows, StaffSessionRows, PlatformAdminSessionRows, Surfaces

LEMMA FitsKept ==
    ASSUME NEW v \in Visits, NEW c, VisitFits(v, c), \A s \in Visits : SessionKept(s)
    PROVE  VisitFits(v, c)'
<1>1. c.at = "valid" \/ c.at \in TellPlaces =>
          /\ c.session \in Visits /\ session'[c.session].login # Null
          /\ session'[c.session].account = session[c.session].account
  BY DEF VisitFits, SessionKept
<1>2. c.at = "rotate" => c.at \in TellPlaces
  BY DEF TellPlaces
<1>3. c.at \notin {"reset", "done"} => session'[v] = NoSession /\ \A s \in Visits : session'[s].login # v
  BY DEF VisitFits, SessionKept
<1> QED  BY <1>1, <1>2, <1>3 DEF VisitFits

\* Nobody comes to hold a login, and no session comes to life.
LEMMA LoginKept ==
    ASSUME LoginsInv, NEW login \in Visits, LoginOk(login), \A s \in Visits : SessionKept(s),
           \A u \in Visits : Tells(u)' => Tells(u) /\ visit'[u].session = visit[u].session
    PROVE  LoginOk(login)'
<1>1. \A u \in Visits : Holds(u, login)' => Holds(u, login) /\ visit'[u].session = visit[u].session
  <2>1. TAKE u \in Visits
  <2>2. HAVE Holds(u, login)'
  <2>3. Tells(u) /\ visit'[u].session = visit[u].session
    BY <2>2 DEF Holds
  <2>4. visit[u].session \in Visits
    BY <2>3 DEF LoginsInv, VisitFits, Tells
  <2> QED  BY <2>2, <2>3, <2>4 DEF Holds, SessionKept
<1>2. \A s \in Visits : session'[s].login = login /\ session'[s].live => session[s].login = login /\ session[s].live
  BY DEF SessionKept
<1> QED  BY <1>1, <1>2 DEF LoginOk

LEMMA SoundKept ==
    ASSUME LoginsInv, \A s \in Visits : SessionKept(s)
    PROVE  OwnMembership' /\ LimitFromLogin'
  BY DEF LoginsInv, OwnMembership, LimitFromLogin, SessionKept

\* A step of one visit that leaves the sessions what they are.
LEMMA VisitGoes ==
    ASSUME LoginsInv, NEW v \in Visits, NEW c \in VisitLocals, visit' = [visit EXCEPT ![v] = c],
           \A s \in Visits : SessionKept(s), session' \in [Visits -> SessionRows], UNCHANGED <<now, grant, limited>>,
           forked \subseteq forked', forked' \subseteq Visits, VisitFits(v, c),
           c.at \in TellPlaces => Tells(v) /\ c.session = visit[v].session
    PROVE  LoginsInv'
<1>1. SettingTyped /\ \A u \in Visits : VisitFits(u, visit[u])
  BY DEF LoginsInv, SettingTyped
<1>2. visit'[v] = c /\ \A u \in Visits \ {v} : visit'[u] = visit[u]
  BY <1>1 DEF SettingTyped
<1>3. SettingTyped'
  BY <1>1 DEF SettingTyped
<1>4. \A u \in Visits : VisitFits(u, visit[u])'
  <2>1. TAKE u \in Visits
  <2>2. PICK d : d = visit'[u] /\ VisitFits(u, d)
    BY <1>1, <1>2
  <2>3. VisitFits(u, d)'
    BY <2>2, FitsKept
  <2> QED  BY <2>2, <2>3 DEF VisitFits
<1>5. \A u \in Visits : Tells(u)' => Tells(u) /\ visit'[u].session = visit[u].session
  BY <1>2 DEF Tells
<1>6. \A login \in Visits \ forked' : LoginOk(login)'
  BY <1>5, LoginKept DEF LoginsInv
<1>7. OwnMembership' /\ LimitFromLogin'
  BY SoundKept
<1> QED  BY <1>3, <1>4, <1>6, <1>7 DEF LoginsInv, SettingTyped

LEMMA SameSessionsKept ==
    ASSUME UNCHANGED session
    PROVE  \A s \in Visits : SessionKept(s)
  BY DEF SessionKept

\* The local states that a visit goes to.
LEMMA VisitToEffect ==
    ASSUME LoginsInv, NEW v \in Visits,
           NEW place \in {"idle", "limit", "account", "failed", "resolve", "standing", "create", "reset", "valid", "tenant",
                          "membership", "touch", "switch", "rotate", "revoke", "done"}, VisitTo(v, place)
    PROVE  \E c \in VisitLocals : /\ visit' = [visit EXCEPT ![v] = c] /\ c.at = place /\ c.surface = visit[v].surface
                                  /\ c.op = visit[v].op /\ c.email = visit[v].email /\ c.member = visit[v].member
                                  /\ c.session = visit[v].session
<1>1. PICK d \in VisitLocals : d = visit[v]
  BY DEF LoginsInv
<1>2. PICK c : c = [d EXCEPT !.at = place]
  OBVIOUS
<1>3. c \in VisitLocals /\ c.at = place /\ c.surface = d.surface /\ c.op = d.op /\ c.email = d.email
      /\ c.member = d.member /\ c.session = d.session
  BY <1>2 DEF VisitLocals
<1>4. visit' = [visit EXCEPT ![v] = c]
  BY <1>1, <1>2 DEF VisitTo
<1> QED  BY <1>1, <1>3, <1>4

LEMMA DoneFits ==
    \E c \in VisitLocals : c = [Away EXCEPT !.at = "done"] /\ c.at = "done" /\ \A v : VisitFits(v, c)
<1>1. PICK c : c = [Away EXCEPT !.at = "done"]
  OBVIOUS
<1>2. c \in VisitLocals /\ c.at = "done"
  BY <1>1 DEF Away, VisitLocals
<1>3. \A v : VisitFits(v, c)
  BY <1>2 DEF VisitFits, TellPlaces
<1> QED  BY <1>1, <1>2, <1>3

LEMMA VisitEnded ==
    ASSUME LoginsInv, NEW v \in Visits, NEW answer, VisitEnds(v, answer),
           \A s \in Visits : SessionKept(s), session' \in [Visits -> SessionRows], UNCHANGED <<now, grant, limited>>,
           forked \subseteq forked', forked' \subseteq Visits
    PROVE  LoginsInv'
<1>1. PICK c \in VisitLocals : c = [Away EXCEPT !.at = "done"] /\ c.at = "done" /\ VisitFits(v, c)
  BY DoneFits
<1>2. visit' = [visit EXCEPT ![v] = c] /\ c.at \notin TellPlaces
  BY <1>1 DEF VisitEnds, TellPlaces
<1> QED  BY <1>1, <1>2, VisitGoes

LEMMA ReadEnds ==
    ASSUME LoginsInv, NEW v \in Visits, NEW answer, VisitEnds(v, answer), UNCHANGED <<now, grant, limited, forked, session>>
    PROVE  LoginsInv'
<1>1. session' \in [Visits -> SessionRows] /\ forked' \subseteq Visits
  BY DEF LoginsInv
<1> QED  BY <1>1, SameSessionsKept, VisitEnded

\* On to a statement that needs no more than is known already.
LEMMA ReadGoes ==
    ASSUME LoginsInv, NEW v \in Visits, NEW c \in VisitLocals, visit' = [visit EXCEPT ![v] = c], VisitFits(v, c),
           c.at \in TellPlaces => Tells(v) /\ c.session = visit[v].session, UNCHANGED <<now, grant, limited, forked, session>>
    PROVE  LoginsInv'
<1>1. session' \in [Visits -> SessionRows] /\ forked' \subseteq Visits
  BY DEF LoginsInv
<1> QED  BY <1>1, SameSessionsKept, VisitGoes

\* What a request that has not ended knows of itself.
LEMMA VisitFacts ==
    ASSUME LoginsInv, NEW v \in Visits
    PROVE  VisitFits(v, visit[v]) /\ visit[v] \in VisitLocals /\ session \in [Visits -> SessionRows]
  BY DEF LoginsInv

-----------------------------------------------------------------------------
(* The statements of a login                                               *)

LEMMA OpensKeeps ==
    ASSUME LoginsInv, NEW v \in Visits, NEW e \in Emails, NEW right \in BOOLEAN, NEW surface \in Surfaces,
           NEW asked \in Tenants \union Memberships \union {Null}, Opens(v, surface, e, right, asked)
    PROVE  LoginsInv'
<1>1. PICK d \in VisitLocals : d = visit[v] /\ d.at = "idle" /\ VisitFits(v, d)
  BY VisitFacts DEF Opens
<1>2. UNCHANGED <<now, grant, limited, forked, session>>
  BY DEF Opens
<1>3. CASE VisitEnds(v, "RATE_LIMITED")
  BY <1>2, <1>3, ReadEnds
<1>4. CASE visit' = [visit EXCEPT ![v] = [@ EXCEPT !.at = "limit", !.surface = surface, !.op = "start",
                                                   !.email = e, !.right = right, !.asked = asked]]
  <2>1. PICK c : c = [d EXCEPT !.at = "limit", !.surface = surface, !.op = "start", !.email = e, !.right = right, !.asked = asked]
    OBVIOUS
  <2>2. c \in VisitLocals /\ c.at = "limit" /\ c.email = e
    BY <2>1 DEF VisitLocals
  <2>3. visit' = [visit EXCEPT ![v] = c]
    BY <1>1, <1>4, <2>1
  <2>4. VisitFits(v, c) /\ c.at \notin TellPlaces
    BY <1>1, <2>2 DEF VisitFits, TellPlaces
  <2> QED  BY <1>2, <2>2, <2>3, <2>4, ReadGoes
<1> QED  BY <1>3, <1>4 DEF Opens

LEMMA StartReadsKeep ==
    ASSUME LoginsInv, NEW v \in Visits,
           StartEmailLimit(v) \/ StaffStartAccount(v) \/ PlatformStartAccount(v) \/ StartTenant(v) \/ StartGrant(v)
    PROVE  LoginsInv'
<1> DEFINE places == {"account", "failed", "resolve", "standing", "create"}
<1>1. UNCHANGED <<now, grant, limited, forked, session>>
  BY DEF StartEmailLimit, StaffStartAccount, PlatformStartAccount, CheckAccount, StartTenant, StartGrant
<1>2. VisitFits(v, visit[v])
  BY VisitFacts
<1>3. \/ \E answer : VisitEnds(v, answer)
      \/ \E place \in places : /\ VisitTo(v, place) /\ visit[v].at \in {"limit", "account", "standing"}
                               /\ place = "standing" => visit[v].surface = "platform"
                               /\ place = "create" => visit[v].at = "standing"
  BY DEF StartEmailLimit, StaffStartAccount, PlatformStartAccount, CheckAccount, StartTenant, StartGrant
<1>4. ASSUME NEW place \in places, VisitTo(v, place), visit[v].at \in {"limit", "account", "standing"},
             place = "standing" => visit[v].surface = "platform", place = "create" => visit[v].at = "standing"
      PROVE  LoginsInv'
  <2>1. PICK c \in VisitLocals : /\ visit' = [visit EXCEPT ![v] = c] /\ c.at = place /\ c.surface = visit[v].surface
                                 /\ c.op = visit[v].op /\ c.email = visit[v].email /\ c.member = visit[v].member
                                 /\ c.session = visit[v].session
    BY <1>4, VisitToEffect
  <2>2. c.at \in places
    BY <2>1
  <2>3. VisitFits(v, c) /\ c.at \notin TellPlaces
    BY <1>2, <1>4, <2>1, <2>2 DEF VisitFits, TellPlaces
  <2> QED  BY <1>1, <2>1, <2>3, ReadGoes
<1> QED  BY <1>1, <1>3, <1>4, ReadEnds

LEMMA OneIsThere ==
    ASSUME NEW S, Cardinality(S) = 1
    PROVE  (CHOOSE m \in S : TRUE) \in S
<1>1. S # {}
  BY FS_EmptySet
<1> QED  BY <1>1

LEMMA ResolvedHeld ==
    ASSUME NEW e \in Emails, NEW asked, Resolved(e, asked) # Null
    PROVE  Resolved(e, asked) \in Held(e)
<1> DEFINE one(S) == IF Cardinality(S) = 1 THEN CHOOSE m \in S : TRUE ELSE Null
           active == {m \in Held(e) : membership[m] = "ACTIVE"}
<1>1. \A S : one(S) # Null => one(S) \in S
  BY OneIsThere
<1>2. active \subseteq Held(e) /\ {m \in Held(e) : m[2] = asked} \subseteq Held(e)
  OBVIOUS
<1>3. Resolved(e, asked) = CASE asked \in Memberships -> IF asked \in Held(e) THEN asked ELSE Null
                             [] asked \in Tenants     -> one({m \in Held(e) : m[2] = asked})
                             [] OTHER                 -> IF one(Held(e)) # Null THEN one(Held(e)) ELSE one(active)
  BY DEF Resolved
<1> HIDE DEF one, active
<1> QED  BY <1>1, <1>2, <1>3

LEMMA StartResolveKeeps ==
    ASSUME LoginsInv, MembersInv, NEW v \in Visits, StartResolve(v)
    PROVE  LoginsInv'
<1>1. PICK d \in VisitLocals : d = visit[v] /\ d.at = "resolve" /\ VisitFits(v, d)
  BY VisitFacts DEF StartResolve
<1>2. UNCHANGED <<now, grant, limited, forked, session>>
  BY DEF StartResolve
<1>3. PICK m : m = Resolved(d.email, d.asked)
  OBVIOUS
<1>4. CASE m = Null
  BY <1>1, <1>2, <1>3, <1>4, ReadEnds DEF StartResolve
<1>5. CASE m # Null
  <2>1. m \in Held(d.email) /\ d.email \in Emails
    BY <1>1, <1>3, <1>5, ResolvedHeld DEF VisitFits
  <2>2. m \in Memberships /\ m[1] = d.email
    BY <2>1, MembersTyped DEF Held, MembersInv, StaffTablesTyped
  <2>3. PICK right \in BOOLEAN : right = (membership[m] = "ACTIVE")
    OBVIOUS
  <2>4. PICK c : c = [d EXCEPT !.at = "standing", !.member = m, !.right = right]
    OBVIOUS
  <2>5. c \in VisitLocals /\ c.at = "standing" /\ c.member = m /\ c.email = d.email
    BY <2>2, <2>4 DEF VisitLocals
  <2>6. visit' = [visit EXCEPT ![v] = c]
    BY <1>1, <1>3, <1>5, <2>3, <2>4 DEF StartResolve
  <2>7. VisitFits(v, c) /\ c.at \notin TellPlaces
    BY <1>1, <2>1, <2>2, <2>5 DEF VisitFits, TellPlaces
  <2> QED  BY <1>2, <2>5, <2>6, <2>7, ReadGoes
<1> QED  BY <1>4, <1>5

\* A new row of a login that has no other live session any more, and no other request that
\* holds one.
LEMMA SessionOpened ==
    ASSUME LoginsInv, NEW v \in Visits, NEW row \in SessionRows, NEW c \in VisitLocals,
           visit' = [visit EXCEPT ![v] = c], session' \in [Visits -> SessionRows], session'[v] = row, session[v] = NoSession,
           row.login \in Visits, \A u \in Visits \ {v} : visit[u].at \notin {"reset", "done"} => row.login # u,
           row.surface = "staff" => row.member[1] = row.account, row.expiresAt = row.loginAt + AbsoluteTtl,
           \A s \in Visits \ {v} : SessionKept(s), c.at \in {"reset", "done"}, c.at = "reset" => c.email \in Emails,
           row.login \notin forked =>
               /\ \A s \in Visits \ {v} : session'[s].login = row.login => ~session'[s].live
               /\ \A u \in Visits \ {v} : ~Holds(u, row.login),
           UNCHANGED <<now, grant, limited, forked>>
    PROVE  LoginsInv'
<1>1. SettingTyped /\ \A u \in Visits : VisitFits(u, visit[u])
  BY DEF LoginsInv, SettingTyped
<1>2. visit'[v] = c /\ \A u \in Visits \ {v} : visit'[u] = visit[u]
  BY <1>1 DEF SettingTyped
<1>3. SettingTyped'
  BY <1>1 DEF SettingTyped
<1>4. ~Tells(v)'
  BY <1>2 DEF Tells, TellPlaces
<1>5. ASSUME NEW u \in Visits \ {v}, visit[u].at = "valid" \/ visit[u].at \in TellPlaces
      PROVE  visit[u].session \in Visits \ {v} /\ session[visit[u].session].login # Null
  BY <1>1, <1>5 DEF VisitFits, NoSession
<1>6. \A u \in Visits : VisitFits(u, visit[u])'
  <2>1. TAKE u \in Visits
  <2>2. CASE u = v
    BY <1>2, <2>2 DEF VisitFits, TellPlaces
  <2>3. CASE u # v
    <3>1. PICK d : d = visit[u] /\ d = visit'[u] /\ VisitFits(u, d)
      BY <1>1, <1>2, <2>3
    <3>2. d.at = "valid" \/ d.at \in TellPlaces =>
              /\ d.session \in Visits /\ session'[d.session].login # Null
              /\ session'[d.session].account = session[d.session].account
      BY <1>5, <2>3, <3>1 DEF SessionKept
    <3>3. d.at \notin {"reset", "done"} => session'[u] = NoSession /\ \A s \in Visits : session'[s].login # u
      <4>1. SUFFICES ASSUME d.at \notin {"reset", "done"}
                     PROVE  session'[u] = NoSession /\ \A s \in Visits : session'[s].login # u
        OBVIOUS
      <4>2. session[u] = NoSession /\ \A s \in Visits : session[s].login # u
        BY <3>1, <4>1 DEF VisitFits
      <4>3. row.login # u
        BY <2>3, <3>1, <4>1
      <4> QED  BY <2>3, <4>2, <4>3 DEF SessionKept
    <3>4. d.at = "rotate" => d.at \in TellPlaces
      BY DEF TellPlaces
    <3>5. VisitFits(u, d)'
      BY <3>1, <3>2, <3>3, <3>4 DEF VisitFits
    <3> QED  BY <3>1, <3>5 DEF VisitFits
  <2> QED  BY <2>2, <2>3
<1>7. \A u \in Visits : \A login : Holds(u, login)' => Holds(u, login) /\ u # v /\ visit'[u] = visit[u]
  <2>1. TAKE u \in Visits
  <2>. TAKE login
  <2>2. HAVE Holds(u, login)'
  <2>3. u # v /\ visit'[u] = visit[u] /\ visit[u].at \in TellPlaces
    BY <1>2, <1>4, <2>2 DEF Holds, Tells
  <2>4. visit[u].session \in Visits \ {v}
    BY <1>5, <2>3
  <2> QED  BY <2>2, <2>3, <2>4 DEF Holds, Tells, SessionKept
<1>8. \A login \in Visits \ forked' : LoginOk(login)'
  <2>1. TAKE login \in Visits \ forked'
  <2>2. LoginOk(login)
    BY DEF LoginsInv
  <2>3. CASE login = row.login
    <3>1. \A s \in Visits : session'[s].login = login /\ session'[s].live => s = v
      BY <2>3
    <3>2. \A u \in Visits : ~Holds(u, login)'
      BY <1>7, <2>3
    <3> QED  BY <3>1, <3>2 DEF LoginOk
  <2>4. CASE login # row.login
    <3>1. \A s \in Visits : session'[s].login = login /\ session'[s].live => session[s].login = login /\ session[s].live
      BY <2>4 DEF SessionKept
    <3> QED  BY <1>7, <2>2, <3>1 DEF LoginOk
  <2> QED  BY <2>3, <2>4
<1>9. OwnMembership' /\ LimitFromLogin'
  <2>1. ASSUME NEW s \in Visits
        PROVE  /\ session'[s].surface = "staff" => session'[s].member[1] = session'[s].account
               /\ session'[s].login # Null => session'[s].expiresAt = session'[s].loginAt + AbsoluteTtl
    <3>1. CASE s = v
      BY <3>1
    <3>2. CASE s # v
      BY <3>2 DEF SessionKept, LoginsInv, OwnMembership, LimitFromLogin
    <3> QED  BY <3>1, <3>2
  <2> QED  BY <2>1 DEF OwnMembership, LimitFromLogin
<1> QED  BY <1>3, <1>6, <1>8, <1>9 DEF LoginsInv, SettingTyped

LEMMA NewRows ==
    ASSUME LoginsInv, NEW e \in Emails, NEW login \in Visits
    PROVE  /\ \A m \in Memberships : NewStaffSession(e, m, login) \in StaffSessionRows
           /\ NewPlatformAdminSession(e, login) \in PlatformAdminSessionRows
<1>1. now \in Times /\ now + AbsoluteTtl \in Times
  BY StaffDurationsAssumption DEF LoginsInv, Times
<1> QED  BY <1>1 DEF NewStaffSession, NewPlatformAdminSession, StaffSessionRows, PlatformAdminSessionRows

LEMMA StartCreateKeeps ==
    ASSUME LoginsInv, NEW v \in Visits, StartCreateStaff(v) \/ StartCreatePlatform(v)
    PROVE  LoginsInv'
<1>1. PICK d \in VisitLocals : d = visit[v] /\ d.at = "create" /\ VisitFits(v, d)
  BY VisitFacts DEF StartCreateStaff, StartCreatePlatform
<1>2. UNCHANGED <<now, grant, limited, forked>> /\ VisitTo(v, "reset")
  BY DEF StartCreateStaff, StartCreatePlatform
<1>3. PICK c \in VisitLocals : visit' = [visit EXCEPT ![v] = c] /\ c.at = "reset" /\ c.email = d.email
  BY <1>1, <1>2, VisitToEffect
<1>4. d.email \in Emails /\ session[v] = NoSession /\ \A s \in Visits : session[s].login # v
  BY <1>1 DEF VisitFits
<1>5. PICK row \in SessionRows : /\ session' = [session EXCEPT ![v] = row] /\ row.login = v
                                 /\ row.surface = "staff" => row.member[1] = row.account
                                 /\ row.expiresAt = row.loginAt + AbsoluteTtl
  <2>1. CASE StartCreateStaff(v)
    <3>1. d.member \in Memberships /\ d.member[1] = d.email
      BY <1>1, <2>1 DEF VisitFits, StartCreateStaff
    <3>2. PICK row : row = NewStaffSession(d.email, d.member, v)
      OBVIOUS
    <3>3. row \in SessionRows
      BY <1>4, <3>1, <3>2, NewRows DEF SessionRows
    <3>4. row.login = v /\ row.member = d.member /\ row.account = d.email /\ row.expiresAt = row.loginAt + AbsoluteTtl
      BY <3>2 DEF NewStaffSession
    <3>5. session' = [session EXCEPT ![v] = row]
      BY <1>1, <2>1, <3>2 DEF StartCreateStaff
    <3> QED  BY <3>1, <3>3, <3>4, <3>5
  <2>2. CASE StartCreatePlatform(v)
    <3>1. PICK row : row = NewPlatformAdminSession(d.email, v)
      OBVIOUS
    <3>2. row \in SessionRows
      BY <1>4, <3>1, NewRows DEF SessionRows
    <3>3. row.login = v /\ row.surface # "staff" /\ row.expiresAt = row.loginAt + AbsoluteTtl
      BY <3>1 DEF NewPlatformAdminSession
    <3>4. session' = [session EXCEPT ![v] = row]
      BY <1>1, <2>2, <3>1 DEF StartCreatePlatform
    <3> QED  BY <3>2, <3>3, <3>4
  <2> QED  BY <2>1, <2>2
<1>6. session' \in [Visits -> SessionRows] /\ session'[v] = row /\ \A s \in Visits \ {v} : session'[s] = session[s]
  BY <1>5, VisitFacts
<1>7. \A s \in Visits \ {v} : SessionKept(s) /\ session'[s].login # v
  BY <1>4, <1>6 DEF SessionKept
<1>8. \A u \in Visits \ {v} : ~Holds(u, v)
  <2>1. \A u \in Visits : Tells(u) => visit[u].session \in Visits
    BY DEF LoginsInv, VisitFits, Tells
  <2> QED  BY <1>4, <2>1 DEF Holds
<1> QED  BY <1>2, <1>3, <1>4, <1>5, <1>6, <1>7, <1>8, SessionOpened

-----------------------------------------------------------------------------
(* The requests of somebody who is signed in                               *)

\* revoke() ends a session, and no other.
LEMMA RevokeEffect ==
    ASSUME LoginsInv, NEW s \in Visits, session[s].login # Null, NEW reason \in RevokedReasons, NEW rows,
           rows = RevokeSession(session, s, reason)
    PROVE  /\ rows \in [Visits -> SessionRows] /\ \A t \in Visits \ {s} : rows[t] = session[t]
           /\ rows[s].login = session[s].login /\ rows[s].surface = session[s].surface
           /\ rows[s].account = session[s].account /\ rows[s].member = session[s].member
           /\ rows[s].loginAt = session[s].loginAt /\ rows[s].expiresAt = session[s].expiresAt /\ ~rows[s].live
<1>1. PICK old \in SessionRows : old = session[s]
  BY VisitFacts
<1>2. old \in StaffSessionRows \/ old \in PlatformAdminSessionRows
  BY <1>1, RowsOfSessions
<1>3. PICK row : row = IF old.live THEN [old EXCEPT !.live = FALSE, !.revokedReason = reason] ELSE old
  OBVIOUS
<1>4. /\ row \in SessionRows /\ row.login = old.login /\ row.surface = old.surface /\ row.account = old.account
      /\ row.member = old.member /\ row.loginAt = old.loginAt /\ row.expiresAt = old.expiresAt /\ ~row.live
  <2>1. CASE old.live
    <3>1. row = [old EXCEPT !.live = FALSE, !.revokedReason = reason]
      BY <1>3, <2>1
    <3>2. CASE old \in StaffSessionRows
      BY <3>1, <3>2 DEF SessionRows, StaffSessionRows
    <3>3. CASE old \in PlatformAdminSessionRows
      BY <3>1, <3>3 DEF SessionRows, PlatformAdminSessionRows
    <3> QED  BY <1>2, <3>2, <3>3
  <2>2. CASE ~old.live
    BY <1>1, <1>3, <2>2
  <2> QED  BY <2>1, <2>2
<1>5. rows = [session EXCEPT ![s] = row]
  BY <1>1, <1>3 DEF RevokeSession
<1> QED  BY <1>1, <1>4, <1>5, VisitFacts

LEMMA RevokeKeeps ==
    ASSUME LoginsInv, NEW s \in Visits, session[s].login # Null, NEW reason \in RevokedReasons,
           session' = RevokeSession(session, s, reason)
    PROVE  session' \in [Visits -> SessionRows] /\ \A t \in Visits : SessionKept(t)
<1>1. PICK rows : rows = RevokeSession(session, s, reason)
  OBVIOUS
<1>2. /\ rows \in [Visits -> SessionRows] /\ \A t \in Visits \ {s} : rows[t] = session[t]
      /\ rows[s].login = session[s].login /\ rows[s].surface = session[s].surface
      /\ rows[s].account = session[s].account /\ rows[s].member = session[s].member
      /\ rows[s].loginAt = session[s].loginAt /\ rows[s].expiresAt = session[s].expiresAt /\ ~rows[s].live
  BY <1>1, RevokeEffect
<1>3. session[s] # NoSession
  BY DEF NoSession
<1> QED  BY <1>1, <1>2, <1>3 DEF SessionKept

\* lastSeenAt is no part of what a session is.
LEMMA TouchKeeps ==
    ASSUME LoginsInv, NEW s \in Visits, session[s].login # Null, session' = [session EXCEPT ![s] = [@ EXCEPT !.lastSeenAt = now]]
    PROVE  session' \in [Visits -> SessionRows] /\ \A t \in Visits : SessionKept(t)
<1>1. PICK old \in SessionRows : old = session[s]
  BY VisitFacts
<1>2. old \in StaffSessionRows \/ old \in PlatformAdminSessionRows
  BY <1>1, RowsOfSessions
<1>3. now \in Times
  BY StaffDurationsAssumption DEF LoginsInv, Times
<1>4. PICK row : row = [old EXCEPT !.lastSeenAt = now]
  OBVIOUS
<1>5. /\ row \in SessionRows /\ row.login = old.login /\ row.surface = old.surface /\ row.account = old.account
      /\ row.member = old.member /\ row.loginAt = old.loginAt /\ row.expiresAt = old.expiresAt /\ row.live = old.live
  <2>1. CASE old \in StaffSessionRows
    BY <1>3, <1>4, <2>1 DEF SessionRows, StaffSessionRows
  <2>2. CASE old \in PlatformAdminSessionRows
    BY <1>3, <1>4, <2>2 DEF SessionRows, PlatformAdminSessionRows
  <2> QED  BY <1>2, <2>1, <2>2
<1>6. session' = [session EXCEPT ![s] = row]
  BY <1>1, <1>4
<1>7. session' \in [Visits -> SessionRows] /\ session'[s] = row /\ \A t \in Visits \ {s} : session'[t] = session[t]
  BY <1>5, <1>6, VisitFacts
<1>8. session[s] # NoSession
  BY DEF NoSession
<1> QED  BY <1>1, <1>5, <1>7, <1>8 DEF SessionKept

LEMMA ReturnsKeeps ==
    ASSUME LoginsInv, NEW v \in Visits, NEW s \in Visits, NEW op \in {"refresh", "logout", "context", "switch"},
           NEW csrf \in BOOLEAN, NEW asked \in Tenants \union Memberships \union {Null}, Returns(v, op, s, csrf, asked)
    PROVE  LoginsInv'
<1>1. PICK d \in VisitLocals : d = visit[v] /\ d.at = "idle" /\ VisitFits(v, d)
  BY VisitFacts DEF Returns
<1>2. UNCHANGED <<now, grant, limited, forked, session>> /\ session[s].login # Null
  BY DEF Returns
<1>3. PICK surface \in Surfaces : surface = session[s].surface
  BY <1>2, VisitFacts, RowsOfSessions
<1>4. PICK c : c = [d EXCEPT !.at = "valid", !.op = op, !.session = s, !.csrf = csrf, !.asked = asked, !.surface = surface]
  OBVIOUS
<1>5. c \in VisitLocals /\ c.at = "valid" /\ c.op = op /\ c.session = s
  BY <1>4 DEF VisitLocals
<1>6. visit' = [visit EXCEPT ![v] = c]
  BY <1>1, <1>3, <1>4 DEF Returns
<1>7. VisitFits(v, c) /\ c.at \notin TellPlaces
  BY <1>1, <1>2, <1>5 DEF VisitFits, TellPlaces
<1> QED  BY <1>2, <1>5, <1>6, <1>7, ReadGoes

\* A request begins to hold the session it resolved.
LEMMA VisitHolds ==
    ASSUME LoginsInv, NEW v \in Visits, NEW c \in VisitLocals, visit' = [visit EXCEPT ![v] = c], visit[v].at = "valid",
           c.at \in TellPlaces, c.session = visit[v].session, VisitFits(v, c), session[c.session].live,
           UNCHANGED <<now, grant, limited, session>>, forked \subseteq forked', forked' \subseteq Visits,
           \A u \in Visits \ {v} : Tells(u) /\ visit[u].session = c.session => session[c.session].login \in forked'
    PROVE  LoginsInv'
<1>1. SettingTyped /\ \A u \in Visits : VisitFits(u, visit[u])
  BY DEF LoginsInv, SettingTyped
<1>2. visit'[v] = c /\ \A u \in Visits \ {v} : visit'[u] = visit[u]
  BY <1>1 DEF SettingTyped
<1>3. SettingTyped'
  BY <1>1 DEF SettingTyped
<1>4. \A s \in Visits : SessionKept(s)
  BY SameSessionsKept
<1>5. \A u \in Visits : VisitFits(u, visit[u])'
  <2>1. TAKE u \in Visits
  <2>2. PICK d : d = visit'[u] /\ VisitFits(u, d)
    BY <1>1, <1>2
  <2>3. VisitFits(u, d)'
    BY <1>4, <2>2, FitsKept
  <2> QED  BY <2>2, <2>3 DEF VisitFits
<1>6. PICK s \in Visits : s = c.session /\ session[s].live /\ session[s].login \in Visits
  BY <1>1, RowsOfSessions DEF VisitFits, SettingTyped
<1>7. ~Tells(v) /\ \A u \in Visits \ {v} : \A login : Holds(u, login)' <=> Holds(u, login)
  BY <1>2 DEF Tells, Holds, TellPlaces
<1>8. \A login \in Visits \ forked' : LoginOk(login)'
  <2>1. TAKE login \in Visits \ forked'
  <2>2. LoginOk(login)
    BY DEF LoginsInv
  <2>3. CASE login = session[s].login
    <3>1. \A u \in Visits : ~Holds(u, login)
      <4>1. TAKE u \in Visits
      <4>2. SUFFICES ASSUME Holds(u, login)
                     PROVE  FALSE
        OBVIOUS
      <4>3. visit[u].session = s
        BY <1>6, <2>2, <2>3, <4>2 DEF LoginOk
      <4>4. u # v /\ Tells(u)
        BY <1>7, <4>2 DEF Holds
      <4> QED  BY <1>6, <2>3, <4>3, <4>4
    <3>2. \A u \in Visits : Holds(u, login)' => u = v
      BY <1>7, <3>1
    <3>3. \A t \in Visits : session'[t].login = login /\ session'[t].live => t = visit'[v].session
      BY <1>2, <1>6, <2>2, <2>3 DEF LoginOk
    <3> QED  BY <2>2, <3>2, <3>3 DEF LoginOk
  <2>4. CASE login # session[s].login
    <3>1. ~Holds(v, login)'
      BY <1>2, <1>6, <2>4 DEF Holds
    <3>2. \A u \in Visits : Holds(u, login)' => Holds(u, login) /\ visit'[u] = visit[u]
      BY <1>2, <1>7, <3>1
    <3> QED  BY <2>2, <3>2 DEF LoginOk
  <2> QED  BY <2>3, <2>4
<1>9. OwnMembership' /\ LimitFromLogin'
  BY <1>4, SoundKept
<1> QED  BY <1>3, <1>5, <1>8, <1>9 DEF LoginsInv, SettingTyped

LEMMA ResolveActiveSessionKeeps ==
    ASSUME LoginsInv, NEW v \in Visits, ResolveActiveSession(v)
    PROVE  LoginsInv'
<1>1. PICK d \in VisitLocals : d = visit[v] /\ d.at = "valid" /\ VisitFits(v, d)
  BY VisitFacts DEF ResolveActiveSession
<1>2. PICK s \in Visits : s = d.session /\ session[s].login # Null
  BY <1>1 DEF VisitFits
<1>3. d.op \in {"refresh", "logout", "context", "switch"}
  BY <1>1 DEF VisitFits
<1>4. UNCHANGED <<now, grant, limited>>
  BY DEF ResolveActiveSession
<1>5. session[s].login \in Visits /\ forked \subseteq Visits
  BY <1>2, VisitFacts, RowsOfSessions DEF LoginsInv
<1>6. forked' = IF \E u \in Visits \ {v} : Tells(u) /\ visit[u].session = s THEN forked \union {session[s].login} ELSE forked
  BY <1>1, <1>2 DEF ResolveActiveSession, Tells, TellPlaces
<1>7. forked \subseteq forked' /\ forked' \subseteq Visits
  BY <1>5, <1>6
<1>8. CASE Lapsed(s) # Null
  <2>1. Lapsed(s) \in RevokedReasons
    BY <1>8 DEF Lapsed, RevokedReasons
  <2>2. session' = RevokeSession(session, s, Lapsed(s))
    BY <1>1, <1>2, <1>8 DEF ResolveActiveSession
  <2>3. session' \in [Visits -> SessionRows] /\ \A t \in Visits : SessionKept(t)
    BY <1>2, <2>1, <2>2, RevokeKeeps
  <2>4. ~Usable(s)
    BY <1>8 DEF Usable
  <2>5. \E answer : VisitEnds(v, answer)
    BY <1>1, <1>2, <2>4 DEF ResolveActiveSession
  <2> QED  BY <1>4, <1>7, <2>3, <2>5, VisitEnded
<1>9. CASE Lapsed(s) = Null
  <2>1. session' = session
    BY <1>1, <1>2, <1>9 DEF ResolveActiveSession
  <2>2. session' \in [Visits -> SessionRows] /\ \A t \in Visits : SessionKept(t)
    BY <2>1, SameSessionsKept, VisitFacts
  <2>3. \/ \E answer : VisitEnds(v, answer)
        \/ \E place \in {"rotate", "revoke", "tenant"} :
              /\ Usable(s) /\ VisitTo(v, place)
              /\ place = "rotate" => d.op = "refresh"
              /\ place = "tenant" => d.op \in {"context", "switch"}
    BY <1>1, <1>2, <1>3 DEF ResolveActiveSession
  <2>4. CASE \E answer : VisitEnds(v, answer)
    BY <1>4, <1>7, <2>2, <2>4, VisitEnded
  <2>5. CASE \E place \in {"rotate", "revoke", "tenant"} :
              /\ Usable(s) /\ VisitTo(v, place)
              /\ place = "rotate" => d.op = "refresh"
              /\ place = "tenant" => d.op \in {"context", "switch"}
    <3>1. PICK place \in {"rotate", "revoke", "tenant"} :
              /\ Usable(s) /\ VisitTo(v, place)
              /\ place = "rotate" => d.op = "refresh"
              /\ place = "tenant" => d.op \in {"context", "switch"}
      BY <2>5
    <3>2. PICK c \in VisitLocals : /\ visit' = [visit EXCEPT ![v] = c] /\ c.at = place /\ c.op = d.op /\ c.session = d.session
      BY <1>1, <3>1, VisitToEffect
    <3>3. VisitFits(v, c) /\ c.at \in TellPlaces
      BY <1>1, <1>2, <3>1, <3>2 DEF VisitFits, TellPlaces
    <3>4. session[c.session].live
      BY <1>2, <3>1, <3>2 DEF Usable
    <3>5. \A u \in Visits \ {v} : Tells(u) /\ visit[u].session = c.session => session[c.session].login \in forked'
      BY <1>2, <1>6, <3>2
    <3> QED  BY <1>1, <1>4, <1>7, <2>1, <3>2, <3>3, <3>4, <3>5, VisitHolds
  <2> QED  BY <2>3, <2>4, <2>5
<1> QED  BY <1>8, <1>9

\* The reads after it go on with the same session.
LEMMA ResolveReadsKeep ==
    ASSUME LoginsInv, NEW v \in Visits, ResolveGrant(v) \/ ResolveMembership(v)
    PROVE  LoginsInv'
<1>1. PICK d \in VisitLocals : d = visit[v] /\ d.at \in {"tenant", "membership"} /\ VisitFits(v, d)
  BY VisitFacts DEF ResolveGrant, ResolveMembership
<1>2. UNCHANGED <<now, grant, limited, forked, session>>
  BY DEF ResolveGrant, ResolveMembership
<1>3. (\E answer : VisitEnds(v, answer)) \/ VisitTo(v, "touch")
  BY DEF ResolveGrant, ResolveMembership
<1>4. CASE VisitTo(v, "touch")
  <2>1. PICK c \in VisitLocals : /\ visit' = [visit EXCEPT ![v] = c] /\ c.at = "touch" /\ c.op = d.op /\ c.session = d.session
    BY <1>1, <1>4, VisitToEffect
  <2>2. VisitFits(v, c) /\ Tells(v)
    BY <1>1, <2>1 DEF VisitFits, TellPlaces, Tells
  <2> QED  BY <1>1, <1>2, <2>1, <2>2, ReadGoes
<1> QED  BY <1>2, <1>3, <1>4, ReadEnds

LEMMA ResolveTenantKeeps ==
    ASSUME LoginsInv, NEW v \in Visits, ResolveTenant(v)
    PROVE  LoginsInv'
<1>1. PICK d \in VisitLocals : d = visit[v] /\ d.at = "tenant" /\ VisitFits(v, d)
  BY VisitFacts DEF ResolveTenant
<1>2. d.session \in Visits /\ session[d.session].login # Null /\ "ADMIN_REVOKED" \in RevokedReasons
  BY <1>1 DEF VisitFits, TellPlaces, RevokedReasons
<1>3. UNCHANGED <<now, grant, limited, forked>> /\ forked' \subseteq Visits
  BY DEF ResolveTenant, LoginsInv
<1>4. \/ session' = RevokeSession(session, d.session, "ADMIN_REVOKED") /\ VisitEnds(v, "TENANT_SUSPENDED")
      \/ VisitTo(v, "membership") /\ UNCHANGED session
  BY <1>1 DEF ResolveTenant
<1>5. CASE session' = RevokeSession(session, d.session, "ADMIN_REVOKED") /\ VisitEnds(v, "TENANT_SUSPENDED")
  BY <1>2, <1>3, <1>5, RevokeKeeps, VisitEnded
<1>6. CASE VisitTo(v, "membership") /\ UNCHANGED session
  <2>1. PICK c \in VisitLocals : /\ visit' = [visit EXCEPT ![v] = c] /\ c.at = "membership" /\ c.op = d.op /\ c.session = d.session
    BY <1>1, <1>6, VisitToEffect
  <2>2. VisitFits(v, c) /\ Tells(v)
    BY <1>1, <2>1 DEF VisitFits, TellPlaces, Tells
  <2> QED  BY <1>1, <1>3, <1>6, <2>1, <2>2, ReadGoes
<1> QED  BY <1>4, <1>5, <1>6

LEMMA TouchLastSeenKeeps ==
    ASSUME LoginsInv, NEW v \in Visits, TouchLastSeen(v)
    PROVE  LoginsInv'
<1>1. PICK d \in VisitLocals : d = visit[v] /\ d.at = "touch" /\ VisitFits(v, d)
  BY VisitFacts DEF TouchLastSeen
<1>2. d.session \in Visits /\ session[d.session].login # Null /\ d.op \in {"context", "switch"}
  BY <1>1 DEF VisitFits, TellPlaces
<1>3. UNCHANGED <<now, grant, limited, forked>> /\ forked' \subseteq Visits
  BY DEF TouchLastSeen, LoginsInv
<1>4. session' \in [Visits -> SessionRows] /\ \A t \in Visits : SessionKept(t)
  BY <1>1, <1>2, TouchKeeps DEF TouchLastSeen
<1>5. (\E answer : VisitEnds(v, answer)) \/ (VisitTo(v, "switch") /\ d.op = "switch")
  BY <1>1, <1>2 DEF TouchLastSeen
<1>6. CASE VisitTo(v, "switch") /\ d.op = "switch"
  <2>1. PICK c \in VisitLocals : /\ visit' = [visit EXCEPT ![v] = c] /\ c.at = "switch" /\ c.op = d.op /\ c.session = d.session
    BY <1>1, <1>6, VisitToEffect
  <2>2. VisitFits(v, c) /\ Tells(v)
    BY <1>1, <1>6, <2>1 DEF VisitFits, TellPlaces, Tells
  <2> QED  BY <1>1, <1>3, <1>4, <2>1, <2>2, VisitGoes
<1> QED  BY <1>3, <1>4, <1>5, <1>6, VisitEnded

LEMMA SwitchTargetHeld ==
    ASSUME NEW e, NEW asked, SwitchTarget(e, asked) # Null, DOMAIN membership \subseteq Memberships
    PROVE  SwitchTarget(e, asked) \in Memberships /\ SwitchTarget(e, asked)[1] = e
<1> DEFINE active == {m \in Held(e) : m[2] = asked /\ membership[m] = "ACTIVE"}
<1>1. active \subseteq Held(e)
  OBVIOUS
<1>2. SwitchTarget(e, asked) = IF asked \in Memberships
                               THEN IF asked[1] = e /\ IsActive(asked) THEN asked ELSE Null
                               ELSE IF Cardinality(active) = 1 THEN CHOOSE m \in active : TRUE ELSE Null
  BY DEF SwitchTarget
<1> HIDE DEF active
<1>3. CASE asked \in Memberships
  BY <1>2, <1>3
<1>4. CASE asked \notin Memberships
  <2>1. SwitchTarget(e, asked) \in active
    BY <1>2, <1>4, OneIsThere
  <2> QED  BY <1>1, <2>1 DEF Held
<1> QED  BY <1>3, <1>4

LEMMA SwitchFindKeeps ==
    ASSUME LoginsInv, MembersInv, NEW v \in Visits, SwitchFind(v)
    PROVE  LoginsInv'
<1>1. PICK d \in VisitLocals : d = visit[v] /\ d.at = "switch" /\ VisitFits(v, d)
  BY VisitFacts DEF SwitchFind
<1>2. UNCHANGED <<now, grant, limited, forked, session>>
  BY DEF SwitchFind
<1>3. d.session \in Visits /\ session[d.session].login # Null
  BY <1>1 DEF VisitFits, TellPlaces
<1>4. PICK e, m : e = session[d.session].account /\ m = SwitchTarget(e, d.asked)
  OBVIOUS
<1>5. CASE m = Null
  BY <1>1, <1>2, <1>4, <1>5, ReadEnds DEF SwitchFind
<1>6. CASE m # Null
  <2>1. m \in Memberships /\ m[1] = e
    BY <1>4, <1>6, SwitchTargetHeld, MembersTyped DEF MembersInv, StaffTablesTyped
  <2>2. PICK c : c = [d EXCEPT !.at = "rotate", !.member = m]
    OBVIOUS
  <2>3. c \in VisitLocals /\ c.at = "rotate" /\ c.member = m /\ c.session = d.session /\ c.op = d.op
    BY <2>1, <2>2 DEF VisitLocals
  <2>4. visit' = [visit EXCEPT ![v] = c]
    BY <1>1, <1>4, <1>6, <2>2 DEF SwitchFind
  <2>5. VisitFits(v, c) /\ Tells(v)
    BY <1>1, <1>4, <2>1, <2>3 DEF VisitFits, TellPlaces, Tells
  <2> QED  BY <1>1, <1>2, <2>3, <2>4, <2>5, ReadGoes
<1> QED  BY <1>5, <1>6

\* The new row takes the place of the old one.
LEMMA RotatedKeeps ==
    ASSUME LoginsInv, NEW v \in Visits, NEW s \in Visits, s = visit[v].session, visit[v].at = "rotate",
           NEW row \in SessionRows, session' = [RevokeSession(session, s, "ROTATED") EXCEPT ![v] = row],
           row.login = session[s].login, row.surface = "staff" => row.member[1] = row.account,
           row.expiresAt = row.loginAt + AbsoluteTtl, VisitEnds(v, "OK"), UNCHANGED <<now, grant, limited, forked>>
    PROVE  LoginsInv'
<1>1. VisitFits(v, visit[v]) /\ Tells(v)
  BY VisitFacts DEF Tells, TellPlaces
<1>2. session[s].login # Null /\ session[v] = NoSession /\ (\A t \in Visits : session[t].login # v) /\ s # v
  BY <1>1 DEF VisitFits, TellPlaces, NoSession
<1>3. session[s].login \in Visits
  BY <1>2, VisitFacts, RowsOfSessions
<1>4. PICK rows : rows = RevokeSession(session, s, "ROTATED")
  OBVIOUS
<1>5. /\ rows \in [Visits -> SessionRows] /\ \A t \in Visits \ {s} : rows[t] = session[t]
      /\ rows[s].login = session[s].login /\ rows[s].surface = session[s].surface
      /\ rows[s].account = session[s].account /\ rows[s].member = session[s].member
      /\ rows[s].loginAt = session[s].loginAt /\ rows[s].expiresAt = session[s].expiresAt /\ ~rows[s].live
  BY <1>2, <1>4, RevokeEffect DEF RevokedReasons
<1>6. session' \in [Visits -> SessionRows] /\ session'[v] = row /\ \A t \in Visits \ {v} : session'[t] = rows[t]
  BY <1>4, <1>5
<1>7. session[s] # NoSession
  BY <1>2 DEF NoSession
<1>8. \A t \in Visits \ {v} : SessionKept(t)
  <2>1. TAKE t \in Visits \ {v}
  <2>2. CASE t = s
    BY <1>2, <1>5, <1>6, <1>7, <2>2 DEF SessionKept
  <2>3. CASE t # s
    BY <1>5, <1>6, <2>3 DEF SessionKept
  <2> QED  BY <2>2, <2>3
<1>9. \A u \in Visits \ {v} : visit[u].at \notin {"reset", "done"} => row.login # u
  BY DEF LoginsInv, VisitFits
<1>10. ASSUME row.login \notin forked
       PROVE  /\ \A t \in Visits \ {v} : session'[t].login = row.login => ~session'[t].live
              /\ \A u \in Visits \ {v} : ~Holds(u, row.login)
  <2>1. LoginOk(row.login) /\ Holds(v, row.login)
    BY <1>1, <1>3, <1>10 DEF LoginsInv, Holds
  <2>2. \A u \in Visits \ {v} : ~Holds(u, row.login)
    BY <2>1 DEF LoginOk
  <2>3. ASSUME NEW t \in Visits \ {v}, session'[t].login = row.login, session'[t].live
        PROVE  FALSE
    <3>1. t # s
      BY <1>2, <1>5, <1>6, <2>3
    <3>2. session[t].login = row.login /\ session[t].live
      BY <1>5, <1>6, <2>3, <3>1
    <3> QED  BY <2>1, <3>1, <3>2 DEF LoginOk
  <2> QED  BY <2>2, <2>3
<1>11. PICK c \in VisitLocals : c = [Away EXCEPT !.at = "done"] /\ c.at = "done"
  BY DoneFits
<1>12. visit' = [visit EXCEPT ![v] = c]
  BY <1>11 DEF VisitEnds
<1>13. row.login \in Visits
  BY <1>3
<1> QED  BY <1>2, <1>6, <1>8, <1>9, <1>10, <1>11, <1>12, <1>13, SessionOpened

LEMMA RotationsKeep ==
    ASSUME LoginsInv, NEW v \in Visits, Rotate(v) \/ SwitchTenant(v)
    PROVE  LoginsInv'
<1>1. PICK d \in VisitLocals : d = visit[v] /\ d.at = "rotate" /\ VisitFits(v, d)
  BY VisitFacts DEF Rotate, SwitchTenant
<1>2. UNCHANGED <<now, grant, limited, forked>> /\ VisitEnds(v, "OK")
  BY DEF Rotate, SwitchTenant
<1>3. PICK s \in Visits : s = d.session /\ session[s].login # Null
  BY <1>1 DEF VisitFits, TellPlaces
<1>4. PICK old \in SessionRows : old = session[s]
  BY VisitFacts
<1>5. old \in StaffSessionRows \/ old \in PlatformAdminSessionRows
  BY <1>3, <1>4, RowsOfSessions
<1>6. old.login \in Visits /\ old.account \in Emails /\ now \in Times
  BY <1>3, <1>4, RowsOfSessions, StaffDurationsAssumption DEF LoginsInv, Times
<1>7. CASE Rotate(v)
  <2>1. PICK row : row = [old EXCEPT !.live = TRUE, !.revokedReason = Null, !.lastSeenAt = now]
    OBVIOUS
  <2>2. /\ row \in SessionRows /\ row.login = old.login /\ row.surface = old.surface /\ row.account = old.account
        /\ row.member = old.member /\ row.loginAt = old.loginAt /\ row.expiresAt = old.expiresAt
    <3>1. CASE old \in StaffSessionRows
      BY <1>6, <2>1, <3>1 DEF SessionRows, StaffSessionRows
    <3>2. CASE old \in PlatformAdminSessionRows
      BY <1>6, <2>1, <3>2 DEF SessionRows, PlatformAdminSessionRows
    <3> QED  BY <1>5, <3>1, <3>2
  <2>3. session' = [RevokeSession(session, s, "ROTATED") EXCEPT ![v] = row]
    BY <1>1, <1>3, <1>4, <1>7, <2>1 DEF Rotate
  <2>4. (row.surface = "staff" => row.member[1] = row.account) /\ row.expiresAt = row.loginAt + AbsoluteTtl
    BY <1>3, <1>4, <2>2 DEF LoginsInv, OwnMembership, LimitFromLogin
  <2> QED  BY <1>1, <1>2, <1>3, <1>4, <2>2, <2>3, <2>4, RotatedKeeps
<1>8. CASE SwitchTenant(v)
  <2>1. d.member \in Memberships /\ d.member[1] = old.account
    BY <1>1, <1>3, <1>4, <1>8 DEF VisitFits, SwitchTenant
  <2>2. PICK row : row = NewStaffSession(old.account, d.member, old.login)
    OBVIOUS
  <2>3. row \in SessionRows
    BY <1>6, <2>1, <2>2, NewRows DEF SessionRows
  <2>4. /\ row.login = old.login /\ row.member = d.member /\ row.account = old.account
        /\ row.expiresAt = row.loginAt + AbsoluteTtl
    BY <2>2 DEF NewStaffSession
  <2>5. session' = [RevokeSession(session, s, "ROTATED") EXCEPT ![v] = row]
    BY <1>1, <1>3, <1>4, <1>8, <2>2 DEF SwitchTenant
  <2> QED  BY <1>1, <1>2, <1>3, <1>4, <2>1, <2>3, <2>4, <2>5, RotatedKeeps
<1> QED  BY <1>7, <1>8

LEMMA LogoutKeeps ==
    ASSUME LoginsInv, NEW v \in Visits, Logout(v)
    PROVE  LoginsInv'
<1>1. PICK d \in VisitLocals : d = visit[v] /\ d.at = "revoke" /\ VisitFits(v, d)
  BY VisitFacts DEF Logout
<1>2. d.session \in Visits /\ session[d.session].login # Null /\ "USER_LOGOUT" \in RevokedReasons
  BY <1>1 DEF VisitFits, TellPlaces, RevokedReasons
<1>3. UNCHANGED <<now, grant, limited, forked>> /\ VisitEnds(v, "OK") /\ forked' \subseteq Visits
      /\ session' = RevokeSession(session, d.session, "USER_LOGOUT")
  BY <1>1 DEF Logout, LoginsInv
<1> QED  BY <1>2, <1>3, RevokeKeeps, VisitEnded

-----------------------------------------------------------------------------
(* The counts of wrong passwords                                           *)

LEMMA LoginRecordsKeep ==
    ASSUME LoginsInv, MembersInv, NEW v \in Visits, RecordFailedLogin(v) \/ RecordSuccessfulLogin(v)
    PROVE  LoginsInv' /\ MembersInv'
<1>1. PICK d \in VisitLocals : d = visit[v] /\ d.at \in {"failed", "reset"} /\ VisitFits(v, d)
  BY VisitFacts DEF RecordFailedLogin, RecordSuccessfulLogin
<1>2. PICK e \in Emails : e = d.email
  BY <1>1 DEF VisitFits
<1>3. LoginsInv'
  BY ReadEnds DEF RecordFailedLogin, RecordSuccessfulLogin
<1>4. UNCHANGED <<tenant, membership, invitation, taught, caller, overlap, idem, call>>
  BY DEF RecordFailedLogin, RecordSuccessfulLogin
<1>5. PICK old \in AccountRows(Times) : old = account[e]
  BY MembersTyped DEF MembersInv, StaffTablesTyped
<1>6. old.failedLoginCount \in Nat /\ old.lockedUntil \in Times \union {Null} /\ AccountOk(old)
  BY <1>5 DEF AccountRows, MembersInv, TablesInv
<1>7. Null \notin Times /\ now + LockoutDuration \in Times
  BY StaffDurationsAssumption DEF LoginsInv, Times
<1>8. CASE RecordFailedLogin(v)
  <2>1. PICK count \in Nat : count = old.failedLoginCount + 1
    BY <1>6
  <2>2. PICK number \in Nat : number = Least(count, MaxFailedLoginAttempts + 1)
    BY <2>1, StaffDurationsAssumption DEF Least
  <2>3. PICK until \in Times \union {Null} :
            until = IF count >= MaxFailedLoginAttempts THEN now + LockoutDuration ELSE old.lockedUntil
    BY <1>6, <1>7
  <2>4. PICK row : row = [old EXCEPT !.failedLoginCount = number, !.lockedUntil = until]
    OBVIOUS
  <2>5. /\ row \in AccountRows(Times) /\ row.status = old.status
        /\ row.requiresPasswordSetup = old.requiresPasswordSetup /\ row.failedLoginCount = number /\ row.lockedUntil = until
    BY <2>4 DEF AccountRows
  <2>6. LoginFailed(old) = row
    BY <2>1, <2>2, <2>3, <2>4 DEF LoginFailed
  <2>7. account' = [account EXCEPT ![e] = row]
    BY <1>1, <1>2, <1>5, <1>8, <2>6 DEF RecordFailedLogin
  <2>8. number >= MaxFailedLoginAttempts => count >= MaxFailedLoginAttempts
    BY <2>1, <2>2, StaffDurationsAssumption DEF Least
  <2>9. AccountOk(row)
    BY <1>7, <2>3, <2>5, <2>8 DEF AccountOk
  <2> QED  BY <1>3, <1>4, <1>5, <2>5, <2>7, <2>9, LoginWriteKeeps
<1>9. CASE RecordSuccessfulLogin(v)
  <2>1. PICK row : row = LoginReset(old)
    OBVIOUS
  <2>2. /\ row \in AccountRows(Times) /\ row.status = old.status
        /\ row.requiresPasswordSetup = old.requiresPasswordSetup /\ row.failedLoginCount = 0
    BY <2>1 DEF LoginReset, AccountRows
  <2>3. account' = [account EXCEPT ![e] = row]
    BY <1>1, <1>2, <1>5, <1>9, <2>1 DEF RecordSuccessfulLogin
  <2>4. AccountOk(row)
    BY <2>2, StaffDurationsAssumption DEF AccountOk
  <2> QED  BY <1>3, <1>4, <1>5, <2>2, <2>3, <2>4, LoginWriteKeeps
<1> QED  BY <1>8, <1>9

-----------------------------------------------------------------------------
(* Every step                                                              *)

\* A step that is no visit's.
LEMMA VisitsStay ==
    ASSUME LoginsInv, UNCHANGED <<visit, grant, forked>>, \A s \in Visits : SessionKept(s),
           session' \in [Visits -> SessionRows], now' \in 0 .. MaxTime, limited' \subseteq {"IP", "EMAIL"}
    PROVE  LoginsInv'
<1>1. SettingTyped /\ \A u \in Visits : VisitFits(u, visit[u])
  BY DEF LoginsInv, SettingTyped
<1>2. SettingTyped'
  BY <1>1 DEF SettingTyped
<1>3. \A u \in Visits : VisitFits(u, visit[u])'
  <2>1. TAKE u \in Visits
  <2>2. PICK d : d = visit[u] /\ VisitFits(u, d)
    BY <1>1
  <2>3. VisitFits(u, d)'
    BY <2>2, FitsKept
  <2> QED  BY <2>2, <2>3 DEF VisitFits
<1>4. \A u \in Visits : Tells(u)' => Tells(u) /\ visit'[u].session = visit[u].session
  BY DEF Tells
<1>5. \A login \in Visits \ forked' : LoginOk(login)'
  BY <1>4, LoginKept DEF LoginsInv
<1>6. OwnMembership' /\ LimitFromLogin'
  BY SoundKept
<1> QED  BY <1>2, <1>3, <1>5, <1>6 DEF LoginsInv, SettingTyped

LEMMA LoginsStay ==
    ASSUME LoginsInv, UNCHANGED staffSessionVars
    PROVE  LoginsInv'
<1>1. UNCHANGED <<now, grant, limited, session, visit, forked>>
  BY DEF staffSessionVars
<1> QED  BY <1>1, SameSessionsKept, VisitsStay DEF LoginsInv

LEMMA TickKeeps ==
    ASSUME LoginsInv, MembersInv, Tick
    PROVE  LoginsInv' /\ MembersInv'
<1>1. now' \in 0 .. MaxTime /\ limited' \subseteq {"IP", "EMAIL"} /\ UNCHANGED <<session, visit, grant, forked>>
  BY StaffDurationsAssumption DEF Tick, LoginsInv
<1>2. UNCHANGED memberVars
  BY DEF Tick
<1> QED  BY <1>1, <1>2, SameSessionsKept, VisitsStay, MembersStay DEF LoginsInv

\* What a client may name is a tenant or a membership.
LEMMA NamesAsked ==
    ASSUME MembersInv
    PROVE  /\ SeedTenants \union DOMAIN membership \subseteq Tenants \union Memberships \union {Null}
           /\ \A e : SeedTenants \union Held(e) \union {Null} \subseteq Tenants \union Memberships \union {Null}
<1>1. DOMAIN membership \subseteq Memberships
  BY MembersTyped DEF MembersInv, StaffTablesTyped
<1> QED  BY <1>1 DEF Tenants, Held

LEMMA ArrivalsKeep ==
    ASSUME LoginsInv, MembersInv, NEW v \in Visits,
           \/ \E e \in Emails, right \in BOOLEAN :
                 \/ \E asked \in SeedTenants \union Held(e) \union {Null} : StaffStart(v, e, right, asked)
                 \/ PlatformStart(v, e, right)
           \/ \E s \in Visits :
                 \/ \E csrf \in BOOLEAN :
                       \/ StaffRefresh(v, s, csrf) \/ StaffLogout(v, s, csrf)
                       \/ PlatformRefresh(v, s, csrf) \/ PlatformLogout(v, s, csrf)
                       \/ \E asked \in SeedTenants \union DOMAIN membership : PostSwitchTenant(v, s, csrf, asked)
                 \/ GetStaffContext(v, s) \/ GetPlatformContext(v, s)
    PROVE  LoginsInv' /\ UNCHANGED memberVars
<1>1. ASSUME NEW e \in Emails, NEW right \in BOOLEAN, NEW asked \in SeedTenants \union Held(e) \union {Null},
             StaffStart(v, e, right, asked)
      PROVE  LoginsInv' /\ UNCHANGED memberVars
  <2>1. Opens(v, "staff", e, right, asked) /\ "staff" \in Surfaces
    BY <1>1 DEF StaffStart, Surfaces
  <2>2. asked \in Tenants \union Memberships \union {Null}
    BY NamesAsked
  <2>3. UNCHANGED memberVars
    BY <2>1 DEF Opens
  <2> QED  BY <2>1, <2>2, <2>3, OpensKeeps
<1>2. ASSUME NEW e \in Emails, NEW right \in BOOLEAN, PlatformStart(v, e, right)
      PROVE  LoginsInv' /\ UNCHANGED memberVars
  <2>1. Opens(v, "platform", e, right, Null) /\ "platform" \in Surfaces
    BY <1>2 DEF PlatformStart, Surfaces
  <2>2. UNCHANGED memberVars
    BY <2>1 DEF Opens
  <2> QED  BY <2>1, <2>2, OpensKeeps
<1>3. ASSUME NEW s \in Visits, NEW csrf \in BOOLEAN, NEW asked \in Tenants \union Memberships \union {Null},
             NEW op \in {"refresh", "logout", "context", "switch"}, Returns(v, op, s, csrf, asked)
      PROVE  LoginsInv' /\ UNCHANGED memberVars
  <2>1. UNCHANGED memberVars
    BY <1>3 DEF Returns
  <2> QED  BY <1>3, <2>1, ReturnsKeeps
<1>4. ASSUME NEW s \in Visits, NEW csrf \in BOOLEAN,
             \/ StaffRefresh(v, s, csrf) \/ StaffLogout(v, s, csrf) \/ PlatformRefresh(v, s, csrf) \/ PlatformLogout(v, s, csrf)
      PROVE  LoginsInv' /\ UNCHANGED memberVars
  <2>1. Returns(v, "refresh", s, csrf, Null) \/ Returns(v, "logout", s, csrf, Null)
    BY <1>4 DEF StaffRefresh, StaffLogout, PlatformRefresh, PlatformLogout
  <2> QED  BY <1>3, <2>1
<1>5. ASSUME NEW s \in Visits, NEW csrf \in BOOLEAN, NEW asked \in SeedTenants \union DOMAIN membership,
             PostSwitchTenant(v, s, csrf, asked)
      PROVE  LoginsInv' /\ UNCHANGED memberVars
  <2>1. asked \in Tenants \union Memberships \union {Null}
    BY NamesAsked
  <2> QED  BY <1>3, <1>5, <2>1 DEF PostSwitchTenant
<1>6. ASSUME NEW s \in Visits, GetStaffContext(v, s) \/ GetPlatformContext(v, s)
      PROVE  LoginsInv' /\ UNCHANGED memberVars
  <2>1. Returns(v, "context", s, TRUE, Null) /\ TRUE \in BOOLEAN
    BY <1>6 DEF GetStaffContext, GetPlatformContext
  <2> QED  BY <1>3, <2>1
<1> QED  BY <1>1, <1>2, <1>4, <1>5, <1>6

LEMMA StatementsKeep ==
    ASSUME LoginsInv, MembersInv, NEW v \in Visits,
           \/ StartEmailLimit(v) \/ StaffStartAccount(v) \/ PlatformStartAccount(v)
           \/ StartResolve(v) \/ StartTenant(v) \/ StartGrant(v) \/ StartCreateStaff(v) \/ StartCreatePlatform(v)
           \/ StaffResolveActiveSession(v) \/ PlatformResolveActiveSession(v)
           \/ ResolveTenant(v) \/ ResolveGrant(v) \/ ResolveMembership(v) \/ TouchLastSeen(v)
           \/ SwitchFind(v) \/ SwitchTenant(v)
           \/ RotateStaff(v) \/ RotatePlatform(v) \/ LogoutStaff(v) \/ LogoutPlatform(v)
    PROVE  LoginsInv' /\ UNCHANGED memberVars
<1>1. CASE StartEmailLimit(v) \/ StaffStartAccount(v) \/ PlatformStartAccount(v) \/ StartTenant(v) \/ StartGrant(v)
  <2>1. UNCHANGED memberVars
    BY <1>1 DEF StartEmailLimit, StaffStartAccount, PlatformStartAccount, CheckAccount, StartTenant, StartGrant
  <2> QED  BY <1>1, <2>1, StartReadsKeep
<1>2. CASE StartResolve(v) \/ SwitchFind(v)
  <2>1. UNCHANGED memberVars
    BY <1>2 DEF StartResolve, SwitchFind
  <2> QED  BY <1>2, <2>1, StartResolveKeeps, SwitchFindKeeps
<1>3. CASE StartCreateStaff(v) \/ StartCreatePlatform(v)
  <2>1. UNCHANGED memberVars
    BY <1>3 DEF StartCreateStaff, StartCreatePlatform
  <2> QED  BY <1>3, <2>1, StartCreateKeeps
<1>4. CASE StaffResolveActiveSession(v) \/ PlatformResolveActiveSession(v)
  <2>1. ResolveActiveSession(v)
    BY <1>4 DEF StaffResolveActiveSession, PlatformResolveActiveSession
  <2>2. UNCHANGED memberVars
    BY <2>1 DEF ResolveActiveSession
  <2> QED  BY <2>1, <2>2, ResolveActiveSessionKeeps
<1>5. CASE ResolveTenant(v) \/ ResolveGrant(v) \/ ResolveMembership(v) \/ TouchLastSeen(v)
  <2>1. UNCHANGED memberVars
    BY <1>5 DEF ResolveTenant, ResolveGrant, ResolveMembership, TouchLastSeen
  <2> QED  BY <1>5, <2>1, ResolveTenantKeeps, ResolveReadsKeep, TouchLastSeenKeeps
<1>6. CASE RotateStaff(v) \/ RotatePlatform(v) \/ SwitchTenant(v)
  <2>1. Rotate(v) \/ SwitchTenant(v)
    BY <1>6 DEF RotateStaff, RotatePlatform
  <2>2. UNCHANGED memberVars
    BY <2>1 DEF Rotate, SwitchTenant
  <2> QED  BY <2>1, <2>2, RotationsKeep
<1>7. CASE LogoutStaff(v) \/ LogoutPlatform(v)
  <2>1. Logout(v)
    BY <1>7 DEF LogoutStaff, LogoutPlatform
  <2>2. UNCHANGED memberVars
    BY <2>1 DEF Logout
  <2> QED  BY <2>1, <2>2, LogoutKeeps
<1> QED  BY <1>1, <1>2, <1>3, <1>4, <1>5, <1>6, <1>7

LEMMA VisitIsOneOfThese ==
    ASSUME LoginsInv, MembersInv, NEW v \in Visits, VisitNext(v)
    PROVE  (LoginsInv' /\ UNCHANGED memberVars) \/ RecordFailedLogin(v) \/ RecordSuccessfulLogin(v)
  BY ArrivalsKeep, StatementsKeep DEF VisitNext

LEMMA VisitNextKeeps ==
    ASSUME LoginsInv, MembersInv, NEW v \in Visits, VisitNext(v)
    PROVE  LoginsInv' /\ MembersInv'
<1>1. CASE LoginsInv' /\ UNCHANGED memberVars
  BY <1>1, MembersStay
<1> QED  BY <1>1, VisitIsOneOfThese, LoginRecordsKeep

\* A call is made under the membership or the account of a session that resolves.
LEMMA CalledKeeps ==
    ASSUME LoginsInv, MembersInv, NEW h \in Calls, NEW s \in Visits, Called(h, s),
           UNCHANGED <<tenant, account, membership, invitation, taught, overlap>>
    PROVE  MembersInv' /\ session[s].login # Null
<1>1. PICK key \in Keys : \/ RequireStaffIdentity(s) /\ StaffRoutes(h, Identity(session[s].member), key)
                          \/ RequirePlatformIdentity(s) /\ PlatformRoutes(h, session[s].account, key)
  BY DEF Called
<1>2. PICK row \in SessionRows : row = session[s]
  BY DEF LoginsInv
<1>3. row.surface \in Surfaces
  BY <1>1, <1>2 DEF RequireStaffIdentity, RequirePlatformIdentity, Surfaces
<1>4. row # NoSession
  BY <1>3, StaffDurationsAssumption DEF NoSession, Surfaces
<1>5. row \in StaffSessionRows \union PlatformAdminSessionRows
  BY <1>4 DEF SessionRows
<1>6. row.account \in Emails /\ row.login # Null
  BY <1>5, StaffDurationsAssumption DEF StaffSessionRows, PlatformAdminSessionRows
<1>7. CASE RequireStaffIdentity(s) /\ StaffRoutes(h, Identity(session[s].member), key)
  <2>1. IsActive(row.member)
    BY <1>2, <1>7 DEF RequireStaffIdentity
  <2>2. row.member \in Memberships
    BY <2>1, MembersTyped DEF IsActive, Exists, MembersInv, StaffTablesTyped
  <2> QED  BY <1>2, <1>6, <1>7, <2>1, <2>2, StaffRoutesKeep
<1>8. CASE RequirePlatformIdentity(s) /\ PlatformRoutes(h, session[s].account, key)
  BY <1>2, <1>6, <1>8, PlatformRoutesKeep
<1> QED  BY <1>1, <1>7, <1>8

LEMMA CallsUnderSessionsKeep ==
    ASSUME LoginsInv, MembersInv, CallsUnderSessions
    PROVE  LoginsInv' /\ MembersInv'
<1>1. UNCHANGED <<tenant, account, membership, invitation, taught, overlap, now, grant, limited, visit, forked>>
  BY DEF CallsUnderSessions
<1>2. PICK h \in Calls :
        \/ \E s \in Visits : Called(h, s) /\ session' = [session EXCEPT ![s] = [@ EXCEPT !.lastSeenAt = now]]
        \/ InviteeRoutes(h) /\ UNCHANGED session
  BY DEF CallsUnderSessions
<1>3. CASE \E s \in Visits : Called(h, s) /\ session' = [session EXCEPT ![s] = [@ EXCEPT !.lastSeenAt = now]]
  <2>1. PICK s \in Visits : Called(h, s) /\ session' = [session EXCEPT ![s] = [@ EXCEPT !.lastSeenAt = now]]
    BY <1>3
  <2>2. MembersInv' /\ session[s].login # Null
    BY <1>1, <2>1, CalledKeeps
  <2>3. session' \in [Visits -> SessionRows] /\ \A t \in Visits : SessionKept(t)
    BY <2>1, <2>2, TouchKeeps
  <2> QED  BY <1>1, <2>2, <2>3, VisitsStay DEF LoginsInv
<1>4. CASE InviteeRoutes(h) /\ UNCHANGED session
  <2>1. MembersInv'
    BY <1>1, <1>4, InviteeRoutesKeep
  <2>2. LoginsInv'
    BY <1>1, <1>4, LoginsStay DEF staffSessionVars
  <2> QED  BY <2>1, <2>2
<1> QED  BY <1>2, <1>3, <1>4

LEMMA StaffStep ==
    ASSUME LoginsInv, MembersInv, [StaffNext]_staffVars
    PROVE  LoginsInv' /\ MembersInv'
<1>1. CASE \E v \in Visits : VisitNext(v)
  BY <1>1, VisitNextKeeps
<1>2. CASE CallsUnderSessions
  BY <1>2, CallsUnderSessionsKeep
<1>3. CASE MembersNext /\ UNCHANGED staffSessionVars
  BY <1>3, MembersNextKeeps, LoginsStay
<1>4. CASE Tick
  BY <1>4, TickKeeps
<1>5. CASE UNCHANGED staffVars
  BY <1>5, LoginsStay, MembersStay DEF staffVars
<1> QED  BY <1>1, <1>2, <1>3, <1>4, <1>5 DEF StaffNext

\* What the services can have left: accounts with their memberships, one pending invitation of a
\* membership, sessions of logins whose requests are over.
StaffPast(tenants, accounts, members, invited, coming, logins) ==
    /\ \A t \in SeedTenants : tenants[t] \in TenantRows
    /\ \A e \in Emails \intersect DOMAIN accounts : accounts[e] \in AccountRows(Times) /\ AccountOk(accounts[e])
    /\ \A m \in DOMAIN members :
          /\ m \in Memberships /\ members[m] \in MembershipStatuses
          /\ m[1] \in DOMAIN accounts /\ accounts[m[1]].status # "ABSENT"
          /\ Invitable(m) /\ members[m] \in {"ACTIVE", "SUSPENDED"} => ~accounts[m[1]].requiresPasswordSetup
    /\ \A i \in SeedInvitations : invited[i] \in DOMAIN members
    /\ \A i, j \in SeedInvitations : invited[i] = invited[j] => i = j
    /\ DOMAIN logins \subseteq Visits \ coming
    /\ \A s \in DOMAIN logins :
          /\ logins[s] \in StaffSessionRows \union PlatformAdminSessionRows /\ logins[s].login \in Visits \ coming
          /\ logins[s].surface = "staff" => logins[s].member[1] = logins[s].account
          /\ logins[s].expiresAt = logins[s].loginAt + AbsoluteTtl
    /\ \A s, t \in DOMAIN logins : logins[s].login = logins[t].login /\ logins[s].live /\ logins[t].live => s = t

StaffBehaviour(tenants, accounts, members, invited, calls, coming, logins, grants, time, used) ==
    /\ StaffPast(tenants, accounts, members, invited, coming, logins)
    /\ time \in 0 .. MaxTime /\ used \subseteq {"IP", "EMAIL"}
    /\ MembersInit(tenants, accounts, members, invited, calls) /\ SessionsInit(coming, logins, grants, time, used)
    /\ [][StaffNext]_staffVars

-----------------------------------------------------------------------------
(* The start                                                               *)

LEMMA InitMembers ==
    ASSUME NEW tenants, NEW accounts, NEW members, NEW invited, NEW calls, NEW coming, NEW logins,
           StaffPast(tenants, accounts, members, invited, coming, logins),
           MembersInit(tenants, accounts, members, invited, calls)
    PROVE  MembersInv
<1>1. MemberCallsTyped /\ \A h \in Calls : call[h].at \in {"idle", "done"}
  BY InitTyped DEF MembersInit, CallsInit, Idle, MemberCallsTyped
<1>2. tenant \in [Tenants -> TenantRows]
  BY DEF MembersInit, StaffPast, NoTenant, TenantRows
<1>3. NoAccount \in AccountRows(Times) /\ AccountOk(NoAccount)
  BY StaffDurationsAssumption DEF NoAccount, AccountRows, AccountOk
<1>4. \A e \in Emails : account[e] \in AccountRows(Times) /\ AccountOk(account[e])
  BY <1>3 DEF MembersInit, StaffPast
<1>5. account \in [Emails -> AccountRows(Times)]
  BY <1>4 DEF MembersInit
<1>6. /\ DOMAIN membership \subseteq Memberships
      /\ \A m \in DOMAIN membership : /\ membership[m] \in MembershipStatuses
                                      /\ m[1] \in Emails /\ account[m[1]].status # "ABSENT"
                                      /\ Invitable(m) /\ membership[m] \in {"ACTIVE", "SUSPENDED"}
                                         => ~account[m[1]].requiresPasswordSetup
  BY DEF MembersInit, StaffPast, Memberships
<1>7. /\ \A i \in InvitationIds \ SeedInvitations : invitation[i] = NoInvitation
      /\ \A i \in SeedInvitations : invitation[i] = NewInvitation(invited[i]) /\ invited[i] \in DOMAIN membership
  BY DEF MembersInit, StaffPast, InvitationIds
<1>8. NoInvitation \in InvitationRows /\ NoInvitation.for = Null /\ \A m \in Memberships : NewInvitation(m) \in InvitationRows
  BY DEF NoInvitation, NewInvitation, InvitationRows
<1>9. \A m : NewInvitation(m).for = m
  BY DEF NoInvitation, NewInvitation
<1>10. invitation \in [InvitationIds -> InvitationRows]
  <2>1. \A i \in InvitationIds : invitation[i] \in InvitationRows
    BY <1>6, <1>7, <1>8
  <2> QED  BY <2>1 DEF MembersInit
<1>11. caller \in [Calls -> Emails \union {Null}] /\ taught = {} /\ overlap = {}
  BY DEF MembersInit
<1>12. StaffTablesTyped
  BY <1>2, <1>5, <1>6, <1>10, <1>11 DEF StaffTablesTyped
<1>13. TablesInv
  <2>1. \A m \in DOMAIN membership : Opened(m[1])
    BY <1>6 DEF Opened
  <2>2. \A i \in InvitationIds : invitation[i].for # Null => Exists(invitation[i].for)
    BY <1>7, <1>8, <1>9 DEF Exists
  <2>3. ASSUME NEW m \in Memberships, NEW i \in Pending(m), NEW j \in Pending(m)
        PROVE  i = j
    <3>1. m # Null
      BY MembershipAssumption
    <3>2. i \in SeedInvitations /\ j \in SeedInvitations /\ invited[i] = m /\ invited[j] = m
      BY <1>7, <1>8, <1>9, <3>1 DEF Pending
    <3> QED  BY <3>2 DEF StaffPast
  <2>4. MemberCanSignIn /\ TaughtInTenant
    BY <1>6, <1>11 DEF MemberCanSignIn, TaughtInTenant, Invitable
  <2> QED  BY <1>4, <2>1, <2>2, <2>3, <2>4 DEF TablesInv
<1>14. ASSUME NEW h \in Calls
       PROVE  CallKnows(h)
  <2>1. call[h].at \in {"idle", "done"}
    BY <1>1
  <2>2. invitation[h] = NoInvitation
    BY <1>7, MembershipAssumption DEF InvitationIds
  <2>3. Knows(h, call[h].at, call[h].got)
    BY <2>1 DEF Knows, InviteKnows, AcceptKnows, StatusKnows, OthersKnow, Going
  <2>4. call[h].at # "begin"
    BY <2>1
  <2>5. call[h].at = "idle" \/ call[h].at = "done"
    BY <2>1
  <2> QED  BY <2>2, <2>3, <2>5 DEF CallKnows
<1> QED  BY <1>1, <1>11, <1>12, <1>13, <1>14, MembersTyped DEF MembersInv

LEMMA InitLogins ==
    ASSUME NEW tenants, NEW accounts, NEW members, NEW invited, NEW coming, NEW logins, NEW grants,
           NEW time \in 0 .. MaxTime, NEW used \in SUBSET {"IP", "EMAIL"},
           StaffPast(tenants, accounts, members, invited, coming, logins), SessionsInit(coming, logins, grants, time, used)
    PROVE  LoginsInv
<1>1. now \in 0 .. MaxTime /\ limited \subseteq {"IP", "EMAIL"} /\ forked = {}
      /\ grant \in [Emails -> {"ABSENT", "ACTIVE", "SUSPENDED"}]
  BY DEF SessionsInit
<1>2. PICK gone : gone = [Away EXCEPT !.at = "done"]
  OBVIOUS
<1>3. Away \in VisitLocals /\ gone \in VisitLocals /\ gone.at = "done" /\ Away.at = "idle"
  BY <1>2 DEF Away, VisitLocals
<1>4. visit = [v \in Visits |-> IF v \in coming THEN Away ELSE gone]
  BY <1>2 DEF SessionsInit
<1>5. /\ visit \in [Visits -> VisitLocals]
      /\ \A v \in Visits : visit[v].at \in {"idle", "done"} /\ (visit[v].at = "idle" => v \in coming)
  BY <1>3, <1>4
<1>6. \A s \in DOMAIN logins : /\ logins[s] \in StaffSessionRows \union PlatformAdminSessionRows
                               /\ logins[s].login \in Visits \ coming
                               /\ logins[s].surface = "staff" => logins[s].member[1] = logins[s].account
                               /\ logins[s].expiresAt = logins[s].loginAt + AbsoluteTtl
  BY DEF StaffPast
<1>7. \A s \in Visits : /\ s \in DOMAIN logins => session[s] = logins[s]
                        /\ s \notin DOMAIN logins => session[s] = NoSession
  BY DEF SessionsInit
<1>8. \A s \in Visits : session[s] \in SessionRows
  BY <1>6, <1>7 DEF SessionRows
<1>9. session \in [Visits -> SessionRows]
  BY <1>8 DEF SessionsInit
<1>10. NoSession.login = Null /\ NoSession.surface = Null /\ Null \notin Visits /\ Null # "staff" /\ ~NoSession.live
  BY StaffDurationsAssumption DEF NoSession
<1>11. ASSUME NEW v \in Visits
       PROVE  VisitFits(v, visit[v])
  <2>1. PICK c : c = visit[v] /\ c.at \in {"idle", "done"} /\ (c.at = "idle" => v \in coming)
    BY <1>5
  <2>2. v \in coming => session[v] = NoSession /\ \A s \in Visits : session[s].login # v
    BY <1>6, <1>7, <1>10 DEF StaffPast
  <2> QED  BY <2>1, <2>2 DEF VisitFits, TellPlaces
<1>12. OwnMembership
  BY <1>6, <1>7, <1>10 DEF OwnMembership
<1>13. LimitFromLogin
  BY <1>6, <1>7, <1>10 DEF LimitFromLogin
<1>14. ASSUME NEW login \in Visits
       PROVE  LoginOk(login)
  <2>1. \A v \in Visits : ~Tells(v)
    BY <1>5 DEF Tells, TellPlaces
  <2>2. \A s, t \in Visits : session[s].login = login /\ session[s].live /\ session[t].login = login /\ session[t].live => s = t
    BY <1>7, <1>10 DEF StaffPast
  <2> QED  BY <2>1, <2>2 DEF LoginOk, Holds
<1> QED  BY <1>1, <1>5, <1>9, <1>11, <1>12, <1>13, <1>14 DEF LoginsInv

-----------------------------------------------------------------------------
(* What follows                                                            *)

\* Every step, of a call at any statement, of a login or a request of a session, of the clock or
\* of a fault, keeps what the requests under way have read true enough for what they go on to
\* write, in the staff services and the two authentication services.
THEOREM StaffInvariance ==
    ASSUME NEW tenants, NEW accounts, NEW members, NEW invited, NEW calls, NEW coming, NEW logins, NEW grants, NEW time, NEW used
    PROVE  StaffBehaviour(tenants, accounts, members, invited, calls, coming, logins, grants, time, used)
           => [](MembersInv /\ LoginsInv)
<1>1. /\ StaffPast(tenants, accounts, members, invited, coming, logins)
      /\ time \in 0 .. MaxTime /\ used \subseteq {"IP", "EMAIL"}
      /\ MembersInit(tenants, accounts, members, invited, calls) /\ SessionsInit(coming, logins, grants, time, used)
      => MembersInv /\ LoginsInv
  BY InitMembers, InitLogins
<1>2. MembersInv /\ LoginsInv /\ [StaffNext]_staffVars => (MembersInv /\ LoginsInv)'
  BY StaffStep
<1> QED  BY <1>1, <1>2, PTL DEF StaffBehaviour

\* A set whose members are all the same has at most one.
LEMMA AtMostOne ==
    ASSUME NEW S, \A x, y \in S : x = y
    PROVE  Cardinality(S) <= 1
<1>1. CASE S = {}
  BY <1>1, FS_EmptySet
<1>2. CASE S # {}
  <2>1. PICK x : S = {x}
    BY <1>2
  <2> QED  BY <2>1, FS_Singleton
<1> QED  BY <1>1, <1>2

\* Whatever invitations, acceptances, activations and changes of status race, fail or die at any
\* statement: a membership has one pending invitation at most unless calls of its school met,
\* whoever an invitation activated has a password of their own, a class is taught by teachers of
\* its tenant, and a session is its account's own membership through any rotations and switches
\* (createInvitation, acceptInvitation, assignTeacher, switchTenant).
THEOREM MembershipsAreSoundHolds ==
    ASSUME NEW tenants, NEW accounts, NEW members, NEW invited, NEW calls, NEW coming, NEW logins, NEW grants, NEW time, NEW used
    PROVE  StaffBehaviour(tenants, accounts, members, invited, calls, coming, logins, grants, time, used)
           => []MembershipsAreSound
<1>1. MembersInv /\ LoginsInv => StaffTypeOK
  BY DEF MembersInv, LoginsInv, StaffTypeOK, SessionRows
<1>2. MembersInv => OnePendingInvitation
  <2> SUFFICES ASSUME MembersInv, NEW m \in DOMAIN membership, m[2] \notin overlap
               PROVE  Cardinality(Pending(m)) <= 1
    BY DEF OnePendingInvitation
  <2>1. m \in Memberships
    BY MembersTyped DEF MembersInv, StaffTablesTyped
  <2>2. \A i, j \in Pending(m) : i = j
    BY <2>1 DEF MembersInv, TablesInv
  <2> QED  BY <2>2, AtMostOne
<1>3. MembersInv /\ LoginsInv => MembershipsAreSound
  BY <1>1, <1>2 DEF MembersInv, TablesInv, LoginsInv, MembershipsAreSound
<1> QED  BY <1>3, StaffInvariance, PTL

\* However many refreshes, switches, logouts and requests race: the limit of a session counts from
\* its login or last switch, a login has one live session at most unless two of its requests that
\* end one overlapped, and no mix of staff and platform logins with wrong passwords passes the
\* limit without a lock (refresh, switchTenant, logout, recordFailedLogin).
THEOREM StaffLoginsAreSoundHolds ==
    ASSUME NEW tenants, NEW accounts, NEW members, NEW invited, NEW calls, NEW coming, NEW logins, NEW grants, NEW time, NEW used
    PROVE  StaffBehaviour(tenants, accounts, members, invited, calls, coming, logins, grants, time, used)
           => []StaffLoginsAreSound
<1>1. LoginsInv => OneLiveSession
  <2> SUFFICES ASSUME LoginsInv, NEW login \in Visits \ forked
               PROVE  Cardinality({s \in Visits : session[s].login = login /\ session[s].live}) <= 1
    BY DEF OneLiveSession
  <2>1. LoginOk(login)
    BY DEF LoginsInv
  <2>2. \A s, t \in {u \in Visits : session[u].login = login /\ session[u].live} : s = t
    BY <2>1 DEF LoginOk
  <2> QED  BY <2>2, AtMostOne
<1>2. MembersInv => LockedAtLimit
  BY DEF MembersInv, TablesInv, AccountOk, LockedAtLimit
<1>3. MembersInv /\ LoginsInv => StaffLoginsAreSound
  BY <1>1, <1>2 DEF LoginsInv, StaffLoginsAreSound
<1> QED  BY <1>3, StaffInvariance, PTL

\* A school that has an active administrator keeps one through every step, also one where the
\* administrator who asked leaves, as long as no membership of the school changed while another
\* call was under way in it (updateStatus).
THEOREM AdministratorRemainsHolds ==
    ASSUME NEW tenants, NEW accounts, NEW members, NEW invited, NEW calls, NEW coming, NEW logins, NEW grants, NEW time, NEW used
    PROVE  StaffBehaviour(tenants, accounts, members, invited, calls, coming, logins, grants, time, used)
           => AdministratorRemains
<1>1. MembersInv /\ LoginsInv /\ [StaffNext]_staffVars =>
        [\A t \in Tenants : ActiveSchoolAdmins(t) # {} /\ t \notin overlap' => ActiveSchoolAdmins(t)' # {}]_memberVars
  <2> SUFFICES ASSUME MembersInv, LoginsInv, StaffNext, NEW t \in Tenants
               PROVE  AdminStays(t)
    BY DEF AdminStays, staffVars
  <2>1. CASE \E v \in Visits : VisitNext(v)
    <3>1. PICK v \in Visits : VisitNext(v)
      BY <2>1
    <3>2. UNCHANGED membership
      BY <3>1, VisitIsOneOfThese DEF memberVars, RecordFailedLogin, RecordSuccessfulLogin
    <3> QED  BY <3>2, MembershipsUnchangedKeepAdmins
  <2>2. CASE CallsUnderSessions
    BY <2>2, MembershipsUnchangedKeepAdmins DEF CallsUnderSessions
  <2>3. CASE MembersNext
    BY <2>3, AdministratorsStay
  <2>4. CASE Tick
    BY <2>4, MembershipsUnchangedKeepAdmins DEF Tick, memberVars
  <2> QED  BY <2>1, <2>2, <2>3, <2>4 DEF StaffNext
<1>2. StaffBehaviour(tenants, accounts, members, invited, calls, coming, logins, grants, time, used)
      => [](MembersInv /\ LoginsInv) /\ [][StaffNext]_staffVars
  BY StaffInvariance DEF StaffBehaviour
<1> QED  BY <1>1, <1>2, PTL DEF AdministratorRemains
=============================================================================
