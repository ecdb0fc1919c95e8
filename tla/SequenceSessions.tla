-------------------------- MODULE SequenceSessions --------------------------
(***************************************************************************)
(* The progress of one attempt through the stages of its sequence: the     *)
(* stage orchestrator, the pages that run it, and the stored copy.         *)
(*                                                                         *)
(* A tab is one mount of SequenceHost; a reload of the page is another     *)
(* tab.  It keeps the state it shows and the version it believes to be     *)
(* stored (versionRef), and calls the three handlers of                    *)
(* /attempts/{id}/sequence-runtime-state.  A call is sent, served by one   *)
(* SQL statement, and answered; the student may go on clicking between     *)
(* any two of these.  Each click starts a persist() of its own, so up to   *)
(* MaxInFlight of them are under way in one tab.                           *)
(*                                                                         *)
(* Every interactive stage has a progression rule and resolves to an       *)
(* engine, as in all published sequences.  What it answers is a choice.    *)
(***************************************************************************)
EXTENDS Integers

CONSTANTS
    N,              \* the number of stages, numbered by their order
    Definition,     \* SequenceDefinition: what each stage declares
    Tabs,           \* the mounts of the page
    MaxInFlight,    \* bound: calls under way in one tab
    MaxTries,       \* bound: evaluations of one stage
    Faults,         \* calls may fail and pages may be left
    Null

Stages == 1 .. N
Slots == 1 .. MaxInFlight

Triggers == {"ON_ENGINE_EVALUATION_CORRECT", "ON_ENGINE_EVALUATION_ANY", "ON_STAGE_CONFIRM",
             "MANUAL"}

\* hints 0: no hintPolicy; tries 0: no maxAttemptsBeforeRemediation.
StageDefinitions == [interactive : BOOLEAN, trigger : Triggers, hints : Nat, tries : Nat,
                     remediation : BOOLEAN, checkpoint : BOOLEAN]

ASSUME SizeAssumption == N \in Nat \ {0} /\ MaxInFlight \in Nat \ {0} /\ MaxTries \in Nat
ASSUME DefinitionAssumption == Definition \in [Stages -> StageDefinitions] /\ Faults \in BOOLEAN

StageStates == [status : {"IN_PROGRESS", "COMPLETED"}, hintLevel : Nat, hintCount : Nat,
                attempts : Nat, remediation : BOOLEAN, checkpoint : BOOLEAN]

SequenceStates == [current    : Stages,
                   stages     : [Stages -> StageStates \union {Null}],
                   completion : {"IN_PROGRESS", "COMPLETED"}]

Rows == [state : SequenceStates, version : Nat \ {0}]

ASSUME NullOutside == Null \notin StageStates \union SequenceStates \union Rows \union Nat

----------------------------------------------------------------------------
(* The stage orchestrator                                                  *)

Entered(tries) == [status |-> "IN_PROGRESS", hintLevel |-> 0, hintCount |-> 0,
                   attempts |-> tries, remediation |-> FALSE, checkpoint |-> FALSE]

InitializeSequence ==
    [current    |-> 1,
     stages     |-> [s \in Stages |-> IF s = 1 THEN Entered(0) ELSE Null],
     completion |-> "IN_PROGRESS"]

\* withStageState: the entry of a stage, or the one made for it.
StageEntry(st, s, tries) == IF st.stages[s] = Null THEN Entered(tries) ELSE st.stages[s]

WithStage(st, s, entry) == [st EXCEPT !.stages = [@ EXCEPT ![s] = entry]]

MarkStageComplete(st, s) ==
    WithStage(st, s, [st.stages[s] EXCEPT !.status = "COMPLETED",
                                          !.checkpoint = @ \/ Definition[s].checkpoint])

AdvanceStage(st) ==
    LET done  == MarkStageComplete(st, st.current)
        next  == st.current + 1
        entry == [StageEntry(done, next, 0) EXCEPT !.status = "IN_PROGRESS"]
    IN IF st.current = N
       THEN [done EXCEPT !.completion = "COMPLETED"]
       ELSE [WithStage(done, next, entry) EXCEPT !.current = next]

\* receiveEngineResult, and the advanceStage that its caller adds to ADVANCED.
ReceiveEngineResult(st, correct) ==
    LET s == st.current
        rule == Definition[s]
        tries == StageEntry(st, s, 1).attempts + 1
        advances == \/ rule.trigger \in {"ON_ENGINE_EVALUATION_ANY", "ON_STAGE_CONFIRM"}
                    \/ rule.trigger = "ON_ENGINE_EVALUATION_CORRECT" /\ correct
        remediates == /\ rule.trigger = "ON_ENGINE_EVALUATION_CORRECT" /\ ~correct
                      /\ rule.tries # 0 /\ tries >= rule.tries /\ rule.remediation
        counted == WithStage(st, s, [StageEntry(st, s, 1) EXCEPT
                                         !.attempts = tries, !.remediation = @ \/ remediates])
    IN IF advances THEN AdvanceStage(counted) ELSE counted

RequestHint(st) ==
    LET s == st.current
        advanced == st.stages[s].hintLevel < Definition[s].hints
    IN WithStage(st, s, [st.stages[s] EXCEPT !.hintCount = @ + 1,
                                             !.hintLevel = IF advanced THEN @ + 1 ELSE @])

----------------------------------------------------------------------------
VARIABLES
    row,        \* sequence_runtime_state of the attempt, or Null
    tab,        \* the pages
    call,       \* their calls, by tab and slot
    failed      \* history: the tabs one of whose calls failed or was not made

vars == <<row, tab, call, failed>>

TabStates == [phase    : {"new", "loading", "open", "left"},
              durable  : BOOLEAN,                      \* durableRef
              version  : Nat,                          \* versionRef; 0 is undefined
              state    : SequenceStates \union {Null},
              notified : BOOLEAN]                      \* completeNotifiedRef

\* A call: GET ("load", "reload"), POST ("create") or PUT ("put") on its way to
\* the server, or its answer on the way back.
CallStates == [at      : {"idle", "load", "loaded", "create", "created", "refused",
                          "put", "saved", "conflict", "reload", "reloaded"},
               state   : SequenceStates \union {Null},
               version : Nat]

Idle == [at |-> "idle", state |-> Null, version |-> 0]

TypeOK ==
    /\ row \in Rows \union {Null}
    /\ tab \in [Tabs -> TabStates]
    /\ call \in [Tabs -> [Slots -> CallStates]]
    /\ failed \subseteq Tabs

Init ==
    /\ row = Null
    /\ tab = [t \in Tabs |-> [phase |-> "new", durable |-> FALSE, version |-> 0,
                              state |-> Null, notified |-> FALSE]]
    /\ call = [t \in Tabs |-> [i \in Slots |-> Idle]]
    /\ failed = {}

SetCall(t, i, c) == call' = [call EXCEPT ![t] = [@ EXCEPT ![i] = c]]

Complete(st) == st.completion = "COMPLETED"

\* setState, and the effect that calls onComplete once a complete state shows.
Showing(v, st) == [v EXCEPT !.phase = "open", !.state = st, !.notified = @ \/ Complete(st)]

----------------------------------------------------------------------------
(* bootstrap()                                                             *)

\* Without a CSRF token the page runs in memory.
Open(t) ==
    /\ tab[t].phase = "new"
    /\ \/ /\ tab' = [tab EXCEPT ![t] = [@ EXCEPT !.phase = "loading"]]
          /\ SetCall(t, 1, [Idle EXCEPT !.at = "load"])
       \/ /\ Faults
          /\ tab' = [tab EXCEPT ![t] = Showing(@, InitializeSequence)]
          /\ UNCHANGED call
    /\ UNCHANGED <<row, failed>>

\* The answer to the GET: adopt the stored state, or create one.
BootstrapLoaded(t, i) ==
    LET c == call[t][i]
    IN /\ c.at = "loaded" /\ tab[t].phase = "loading"
       /\ \/ /\ c.state # Null
             /\ tab' = [tab EXCEPT ![t] = Showing([@ EXCEPT !.durable = TRUE, !.version = c.version],
                                                  c.state)]
             /\ SetCall(t, i, Idle)
          \/ /\ c.state = Null
             /\ SetCall(t, i, [at |-> "create", state |-> InitializeSequence, version |-> 0])
             /\ UNCHANGED tab
       /\ UNCHANGED <<row, failed>>

\* The answer to the POST; a 409 is caught like any failure: in memory.
BootstrapCreated(t, i) ==
    LET c == call[t][i]
    IN /\ c.at \in {"created", "refused"} /\ tab[t].phase = "loading"
       /\ tab' = [tab EXCEPT ![t] =
              IF c.at = "created"
              THEN Showing([@ EXCEPT !.durable = TRUE, !.version = c.version], c.state)
              ELSE Showing(@, InitializeSequence)]
       /\ SetCall(t, i, Idle)
       /\ UNCHANGED <<row, failed>>

----------------------------------------------------------------------------
(* The three handlers of the page, and persist()                           *)

WrongPersistOpen(t, st) ==        \* the last state is not worth a write
    \/ /\ tab[t].durable /\ ~Complete(st)
       /\ \E i \in Slots : /\ call[t][i] = Idle
                           /\ SetCall(t, i, [at |-> "put", state |-> st, version |-> tab[t].version])
       /\ UNCHANGED failed
    \/ /\ ~tab[t].durable \/ Complete(st)
       /\ UNCHANGED <<call, failed>>

\* persist(nextState) up to its first await.  A free slot is the bound.
Persist(t, st) ==
    \/ /\ tab[t].durable
       /\ \E i \in Slots : /\ call[t][i] = Idle
                           /\ SetCall(t, i, [at |-> "put", state |-> st, version |-> tab[t].version])
       /\ UNCHANGED failed
    \/ /\ tab[t].durable /\ Faults             \* the CSRF token is gone
       /\ failed' = failed \union {t}
       /\ UNCHANGED call
    \/ /\ ~tab[t].durable
       /\ UNCHANGED <<call, failed>>

Mutate(t, st) ==
    /\ tab' = [tab EXCEPT ![t] = Showing(@, st)]
    /\ Persist(t, st)
    /\ UNCHANGED row

\* What the page offers: nothing once the sequence is complete.
Playing(t) == tab[t].phase = "open" /\ ~Complete(tab[t].state)

HandleEvaluated(t, correct) ==
    LET st == tab[t].state
    IN /\ Playing(t) /\ Definition[st.current].interactive
       /\ st.stages[st.current].attempts < MaxTries
       /\ Mutate(t, ReceiveEngineResult(st, correct))

\* What is rendered for the current stage: the continue button of a stage without
\* an engine, the hint button of one with a hintPolicy, enabled below its last level.
OffersContinue(t) == Playing(t) /\ ~Definition[tab[t].state.current].interactive

OffersHint(t) ==
    LET st == tab[t].state
    IN /\ Playing(t) /\ Definition[st.current].interactive
       /\ st.stages[st.current].hintLevel < Definition[st.current].hints

HandleContinue(t) ==
    /\ OffersContinue(t)
    /\ Mutate(t, AdvanceStage(tab[t].state))

HandleRequestHint(t) == OffersHint(t) /\ Mutate(t, RequestHint(tab[t].state))

PersistSaved(t, i) ==
    /\ call[t][i].at = "saved" /\ tab[t].phase = "open"
    /\ tab' = [tab EXCEPT ![t] = [@ EXCEPT !.version = call[t][i].version]]
    /\ SetCall(t, i, Idle)
    /\ UNCHANGED <<row, failed>>

\* SEQUENCE_RUNTIME_STATE_VERSION_CONFLICT: the stored state is asked for.
PersistConflict(t, i) ==
    /\ call[t][i].at = "conflict" /\ tab[t].phase = "open"
    /\ SetCall(t, i, [Idle EXCEPT !.at = "reload"])
    /\ UNCHANGED <<row, tab, failed>>

WrongReloadVersionOnly(t, i) ==   \* the version is adopted, the state is not
    /\ call[t][i].at = "reloaded" /\ tab[t].phase = "open"
    /\ tab' = [tab EXCEPT ![t] = [@ EXCEPT !.version = call[t][i].version]]
    /\ SetCall(t, i, Idle)
    /\ UNCHANGED <<row, failed>>

PersistReloaded(t, i) ==
    LET c == call[t][i]
    IN /\ c.at = "reloaded" /\ tab[t].phase = "open"
       /\ tab' = [tab EXCEPT ![t] = Showing([@ EXCEPT !.version = c.version], c.state)]
       /\ SetCall(t, i, Idle)
       /\ UNCHANGED <<row, failed>>

----------------------------------------------------------------------------
(* The handlers of /attempts/{id}/sequence-runtime-state                   *)

\* SequenceRuntimeStateRepository: its three statements.
FindByAttempt == IF row = Null THEN [state |-> Null, version |-> 0] ELSE row

\* INSERT; (tenant_id, learning_attempt_id) is unique.
Create(st) == row = Null /\ row' = [state |-> st, version |-> 1]

WrongSave(version, st) ==         \* no AND version = $3
    row' = [state |-> st, version |-> row.version + 1]

\* UPDATE ... SET version = version + 1 WHERE version = $3.
Save(version, st) == version = row.version /\ row' = [state |-> st, version |-> row.version + 1]

ServeGet(t, i) ==
    /\ call[t][i].at \in {"load", "reload"}
    /\ SetCall(t, i, [at      |-> IF call[t][i].at = "load" THEN "loaded" ELSE "reloaded",
                      state   |-> FindByAttempt.state,
                      version |-> FindByAttempt.version])
    /\ UNCHANGED <<row, tab, failed>>

\* A row that exists already is a 409.
ServePost(t, i) ==
    LET c == call[t][i]
    IN /\ c.at = "create"
       /\ \/ /\ Create(c.state)
             /\ SetCall(t, i, [c EXCEPT !.at = "created", !.version = 1])
          \/ /\ row # Null
             /\ SetCall(t, i, [Idle EXCEPT !.at = "refused"])
             /\ UNCHANGED row
       /\ UNCHANGED <<tab, failed>>

\* No row updated is a version conflict.
ServePut(t, i) ==
    LET c == call[t][i]
    IN /\ c.at = "put"
       /\ \/ /\ Save(c.version, c.state)
             /\ SetCall(t, i, [c EXCEPT !.at = "saved", !.version = row'.version])
          \/ /\ c.version # row.version
             /\ SetCall(t, i, [Idle EXCEPT !.at = "conflict"])
             /\ UNCHANGED row
       /\ UNCHANGED <<tab, failed>>

----------------------------------------------------------------------------
(* Failures                                                                *)

\* A call fails before or after it is served.  bootstrap() falls back to memory,
\* persist() leaves things as they are.
CallFails(t, i) ==
    /\ Faults /\ call[t][i] # Idle
    /\ SetCall(t, i, Idle)
    /\ failed' = failed \union {t}
    /\ tab' = [tab EXCEPT ![t] = IF @.phase = "loading" THEN Showing(@, InitializeSequence) ELSE @]
    /\ UNCHANGED row

\* The page is left or reloaded; calls already sent may still be served.
Leave(t) ==
    /\ Faults /\ tab[t].phase \in {"loading", "open"}
    /\ tab' = [tab EXCEPT ![t] = [@ EXCEPT !.phase = "left"]]
    /\ UNCHANGED <<row, call, failed>>

Serve(t, i) == ServeGet(t, i) \/ ServePost(t, i) \/ ServePut(t, i)

Receive(t, i) ==
    \/ BootstrapLoaded(t, i) \/ BootstrapCreated(t, i)
    \/ PersistSaved(t, i) \/ PersistConflict(t, i) \/ PersistReloaded(t, i)

Next ==
    \E t \in Tabs :
        \/ Open(t) \/ HandleContinue(t) \/ HandleRequestHint(t) \/ Leave(t)
        \/ \E correct \in BOOLEAN : HandleEvaluated(t, correct)
        \/ \E i \in Slots : Serve(t, i) \/ Receive(t, i) \/ CallFails(t, i)

Spec == Init /\ [][Next]_vars

\* The server serves what reaches it and the page receives what is answered;
\* students are not obliged to click.
FairSpec == Spec /\ \A t \in Tabs, i \in Slots : WF_vars(Serve(t, i)) /\ WF_vars(Receive(t, i))

----------------------------------------------------------------------------
(***************************************************************************)
(* Properties                                                              *)
(***************************************************************************)
\* The states that pages show, that travel and that are stored.
AllStates ==
    {tab[t].state : t \in Tabs} \union {call[t][i].state : t \in Tabs, i \in Slots}
        \union {IF row = Null THEN Null ELSE row.state}

\* In a sequence state the stages before the current one are completed and those
\* after it were never entered; an interactive stage was completed by an
\* evaluation and a non-interactive one by none; hint levels keep to the policy,
\* and remediation follows the declared number of failures.
WellFormed(st) ==
    /\ \A s \in Stages : (st.stages[s] # Null) <=> (s <= st.current)
    /\ \A s \in 1 .. st.current :
           LET e == st.stages[s]
               d == Definition[s]
           IN /\ (e.status = "COMPLETED") <=> (s < st.current \/ Complete(st))
              /\ e.checkpoint <=> (d.checkpoint /\ e.status = "COMPLETED")
              /\ e.hintLevel = e.hintCount /\ e.hintLevel <= d.hints
              /\ d.interactive /\ e.status = "COMPLETED" => e.attempts > 0
              /\ ~d.interactive => e.attempts = 0
              /\ e.remediation => d.tries # 0 /\ e.attempts >= d.tries
    /\ Complete(st) => st.current = N

\* Whatever is clicked, lost or reloaded, no page ever shows, sends or stores a
\* state that the orchestrator's rules do not allow.
SequenceShape == \A st \in AllStates \ {Null} : WellFormed(st)

\* st has all the progress that base has.
Ahead(st, base) ==
    /\ st.current >= base.current
    /\ Complete(base) => Complete(st)
    /\ \A s \in 1 .. base.current :
           /\ st.stages[s].attempts >= base.stages[s].attempts
           /\ st.stages[s].hintCount >= base.stages[s].hintCount
           /\ base.stages[s].remediation => st.stages[s].remediation

\* No save takes stored progress away: the version guard refuses every write that
\* is based on another state than the stored one.  It holds when a page waits
\* for each save before the next click.
NoProgressLost ==
    [][row # Null => Ahead(row'.state, row.state)]_row

\* A page that believes to be at the stored version shows that state or one that
\* follows it, so that its next save is one that the guard rightly accepts.
VersionMeansBase ==
    \A t \in Tabs :
        tab[t].phase = "open" /\ tab[t].durable /\ tab[t].version = row.version
            => Ahead(tab[t].state, row.state)

\* Types, the shape of every state, and the base that a version stands for, whatever
\* is clicked, lost, left or reloaded (the orchestrator, persist() and bootstrap()).
SessionsAreSound == TypeOK /\ SequenceShape /\ VersionMeansBase

\* A page that reaches the end of the sequence has it stored, unless one of its
\* calls failed, it was left, or it gave way to what another page had stored.
CompletionIsStored ==
    \A t \in Tabs :
        tab[t].phase = "open" /\ tab[t].durable /\ Complete(tab[t].state)
            ~> \/ row # Null /\ Complete(row.state)
               \/ t \in failed \/ tab[t].phase # "open" \/ ~Complete(tab[t].state)

----------------------------------------------------------------------------
(* Statements of the documentation that this model refutes                 *)

\* A page that loses the race to create the row re-fetches it: only a failure
\* makes a page run in memory.
RacerReloads ==
    \A t \in Tabs : tab[t].phase = "open" /\ call[t][1] = Idle /\ ~tab[t].durable => t \in failed
=============================================================================
