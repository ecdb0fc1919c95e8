--------------------------- MODULE ActivityPages ---------------------------
(***************************************************************************)
(* The two pages a student works in: the page of one activity              *)
(* (ActivityPage around a SequenceHost) and the full sequence              *)
(* (FullSequenceHost), which launches the attempt of each group of stages  *)
(* as it gets there.  Both run the engine of the stage locally, mirror     *)
(* every accepted action to POST /attempts/{id}/actions without waiting,   *)
(* save the stage pointer after every evaluation, and complete the attempt *)
(* when its last stage is left.  The server scores what has reached it.    *)
(*                                                                         *)
(* A page is reloaded any time: what is in memory is lost, sessionStorage  *)
(* stays, and calls under way still arrive.  The attempt of a bundle is    *)
(* the bundle: a launch repeated with the key of sessionStorage answers    *)
(* the same attempt (IdempotentRequests).  Attempt and stage states are    *)
(* those of AttemptLifecycle and SequenceSessions, cut down to what the    *)
(* page can tell apart.                                                    *)
(***************************************************************************)
EXTENDS ActivityContent

CONSTANTS
    Scenes,         \* the page, its activity, the stage it is resumed at, and bounds on the
                    \* actions of an attempt, the saves under way, the reloads and the faults
    Clicks(_),      \* the answers tried on a configuration
    MaxEntries,     \* bound: stage entries under way when another stage is entered
    MaxHints        \* bound: hints asked for in one mount

ASSUME BoundsAssumption == MaxEntries \in Nat /\ MaxHints \in Nat
ASSUME ScenesAssumption ==
    \A s \in Scenes : /\ {s.maxActions, s.maxSaves, s.maxReloads, s.maxFaults} \subseteq Nat
                      /\ \/ s.host = "ActivityPage" /\ s.bundle \in DOMAIN ACTIVITY_REGISTRY
                         \/ s.host = "FullSequenceHost" /\ s.bundle = Null

VARIABLES
    scene,          \* which page this is
    page,           \* its state and refs
    storage,        \* sessionStorage: the last client sequence of each attempt, or -1
    posts,          \* action POSTs under way
    saves,          \* PUTs of the stage pointer, and the GETs after a conflict
    entries,        \* orchestration-stage-entry POSTs under way
    completions,    \* completions waiting for action POSTs, or sent
    row,            \* sequence_runtime_state, or Null
    server,         \* the attempts
    faults,         \* calls failed so far
    shown,          \* history: the last result the page showed for each attempt
    disturbed       \* history: attempts an action of which was lost, made after completion, or
                    \* outlived its page (or whose completion did), or whose page a version
                    \* conflict sent back to an earlier stage

calls == <<posts, saves, entries, completions>>
vars == <<scene, page, storage, calls, row, server, faults, shown, disturbed>>

FullGroups == [i \in 1 .. Len(WEB_TRANCHE6_FULL_SEQUENCE) |-> ResolveStageGroup(i)]

InActivity == scene.host = "ActivityPage"
Course == IF InActivity THEN ACTIVITY_REGISTRY[scene.bundle] ELSE WEB_TRANCHE6_FULL_SEQUENCE
GroupOf(i) == IF InActivity THEN scene.bundle ELSE FullGroups[i]
Complete(i) == i > Len(Course)

TypeOK ==
    /\ scene \in Scenes
    /\ page.phase \in {"new", "launched", "open", "result"}
    /\ page.pointer \in 1 .. Len(Course) + 1 /\ page.refs \subseteq Bundles
    /\ page.group \in Bundles \union {Null} /\ page.version \in Nat /\ page.mount \in Nat
    /\ page.last \in Nat \union {Null} /\ page.completing \in BOOLEAN
    /\ page.pending \subseteq Bundles \X Nat
    /\ storage \in [Bundles -> Nat \union {-1}]
    /\ \A p \in posts : /\ p.bundle \in Bundles /\ p.seq \in Nat /\ p.mount \in 0 .. scene.maxReloads
                        /\ p.seq <= storage[p.bundle]
    /\ \A i \in DOMAIN saves : saves[i].at \in {"put", "reload"}
    /\ \A i \in DOMAIN completions : completions[i].at \in {"waiting", "sent"}
    /\ \A b \in Bundles : /\ server[b].state \in {"ABSENT", "CREATED", "IN_PROGRESS", "COMPLETED"}
                          /\ server[b].result \in {Null, "CORRECT", "INCORRECT"}
                          /\ DOMAIN server[b].log \subseteq Nat
    /\ faults \in 0 .. scene.maxFaults /\ disturbed \subseteq Bundles

FreshPage(mount) ==
    [phase |-> "new", mount |-> mount, pointer |-> 1, refs |-> {}, version |-> 0,
     group |-> Null, resolving |-> Null, initial |-> <<>>, engine |-> Null,
     last |-> Null, pending |-> {}, notified |-> {}, completing |-> FALSE, hints |-> 0]

Absent == [state |-> "ABSENT", log |-> <<>>, result |-> Null]

Init ==
    /\ scene \in Scenes
    /\ page = FreshPage(0)
    /\ storage = [b \in Bundles |-> -1]
    /\ posts = {} /\ saves = <<>> /\ entries = {} /\ completions = <<>>
    /\ row = IF scene.start = 1 THEN Null
             ELSE [pointer |-> scene.start, refs |-> {}, version |-> 1]
    /\ server = [b \in Bundles |-> Absent]
    /\ faults = 0
    /\ shown = [b \in Bundles |-> Null]
    /\ disturbed = {}

----------------------------------------------------------------------------
(* What a page does                                                        *)

Stage(p) == Course[p.pointer]

\* The group of the stage is loaded: the page shows the stage, not a message.
Shows(p) == /\ p.phase = "open" /\ ~Complete(p.pointer) /\ p.group = GroupOf(p.pointer)
            /\ p.resolving = Null

WrongMounted(p) ==                \* the engine starts afresh
    IF ~Shows(p) THEN Null
    ELSE IF Stage(p).config = Null THEN Null ELSE InitState(Stage(p).config)

\* EngineHost: mounted when its stage is, with the actions fetched before.
Mounted(p) ==
    IF ~Shows(p) THEN Null
    ELSE IF Stage(p).config = Null THEN Null
    ELSE Replay(Stage(p).config, p.initial)

Ordered(log) == LET seqs == SetToSortSeq(DOMAIN log, <)
                IN [i \in DOMAIN seqs |-> log[seqs[i]]]

\* GET /attempts/{attemptId}/actions, of the student's own attempt.
GetActions(bundle) == Ordered(server[bundle].log)

\* The effect that announces a stage without an engine, once per stage.
Announces(p) == /\ Shows(p) /\ Stage(p).config = Null /\ Stage(p).id \notin p.notified

Announced(p) == IF Announces(p) THEN [p EXCEPT !.notified = @ \union {Stage(p).id}] ELSE p

Entry(p) == IF Announces(p)
            THEN {[bundle |-> p.group, stage |-> Stage(p).id, mount |-> p.mount]} ELSE {}

\* The effect of FullSequenceHost that resolves the group of a new stage.
Resolving(p) ==
    IF InActivity \/ Complete(p.pointer) THEN Null
    ELSE IF GroupOf(p.pointer) = p.group THEN Null
    ELSE [group |-> GroupOf(p.pointer), from |-> p.pointer, refs |-> p.refs]

\* persist(): nothing is saved without a version.
Persisted(p) == IF p.version = 0 THEN saves
                ELSE Append(saves, [at |-> "put", pointer |-> p.pointer, refs |-> p.refs,
                                    version |-> p.version, mount |-> p.mount])

CanSave == Len(saves) < scene.maxSaves

\* onComplete of SequenceHost and maybeCompleteOutgoingGroup of FullSequenceHost:
\* the last stage of the attempt has been left.
Leaves(p, group) ==
    IF InActivity THEN Complete(p.pointer) /\ ~p.completing
    ELSE Complete(p.pointer) \/ GroupOf(p.pointer) # group

WrongCompleting(p, group) ==      \* does not wait for the POSTs under way
    IF Leaves(p, group)
    THEN Append(completions, [bundle |-> group, waiting |-> {}, at |-> "waiting",
                              final |-> Null, mount |-> p.mount])
    ELSE completions

Completing(p, group) ==
    IF Leaves(p, group)
    THEN Append(completions, [bundle |-> group, waiting |-> p.pending, at |-> "waiting",
                              final |-> Null, mount |-> p.mount])
    ELSE completions

\* The page after setState: stage effects, completion, and (when asked) a save.
SetState(p, left, save) ==
    LET q == [p EXCEPT !.resolving = Resolving(p), !.engine = Null,
                       !.completing = @ \/ (InActivity /\ Complete(p.pointer))]
        r == Announced([q EXCEPT !.engine = Mounted(q)])
    IN /\ page' = r
       /\ entries' = entries \union Entry(q)
       /\ completions' = IF left = Null THEN completions ELSE Completing(p, left)
       /\ saves' = IF save THEN Persisted(p) ELSE saves

\* ActivityPage: launchActivity, then getAttemptActions.
Launched(b) == [server EXCEPT ![b] = IF @.state = "ABSENT" THEN [@ EXCEPT !.state = "CREATED"] ELSE @]

LaunchActivity ==
    /\ InActivity /\ page.phase = "new"
    /\ server' = Launched(scene.bundle)
    /\ page' = [page EXCEPT !.phase = "launched", !.group = scene.bundle,
                            !.initial = GetActions(scene.bundle)]
    /\ UNCHANGED <<scene, storage, calls, row, faults, shown, disturbed>>

\* Both hosts load the stored state, or create it.
Bootstrap ==
    /\ page.phase = IF InActivity THEN "launched" ELSE "new"
    /\ LET stored == IF row = Null THEN [pointer |-> 1, refs |-> {}, version |-> 1] ELSE row
       IN /\ row' = stored
          /\ SetState([page EXCEPT !.phase = "open", !.pointer = stored.pointer,
                                   !.refs = stored.refs, !.version = stored.version],
                      IF InActivity THEN page.group ELSE Null, FALSE)
    /\ UNCHANGED <<scene, storage, posts, server, faults, shown, disturbed>>

\* SequenceHost goes on in memory; FullSequenceHost shows an error.
BootstrapFails ==
    /\ InActivity /\ page.phase = "launched" /\ faults < scene.maxFaults
    /\ faults' = faults + 1
    /\ SetState([page EXCEPT !.phase = "open"], page.group, FALSE)
    /\ UNCHANGED <<scene, storage, posts, row, server, shown, disturbed>>

\* resolveGroup, first part: launch the attempt unless it is referred to, and
\* save the reference added to the state the effect started from.
LaunchGroup ==
    LET g == page.resolving
    IN /\ ~InActivity /\ g # Null /\ g.group \notin g.refs /\ CanSave
       /\ server' = Launched(g.group)
       /\ LET p == [page EXCEPT !.refs = g.refs \union {g.group}, !.pointer = g.from,
                                !.resolving.refs = @ \union {g.group}]
          IN /\ page' = p
             /\ saves' = Persisted(p)
       /\ UNCHANGED <<scene, storage, posts, entries, completions, row, faults, shown, disturbed>>

\* resolveGroup, second part: the actions of the attempt arrive.
GroupReady ==
    LET g == page.resolving
    IN /\ ~InActivity /\ g # Null /\ g.group \in g.refs
       /\ SetState([page EXCEPT !.group = g.group, !.initial = GetActions(g.group),
                                !.last = Null, !.pending = {}], Null, FALSE)
       /\ UNCHANGED <<scene, storage, posts, row, server, faults, shown, disturbed>>

WrongNextClientSequence(b) == IF page.last = Null THEN 0 ELSE page.last + 1    \* per mount

\* readNextClientSequence: the counter lives in sessionStorage.
NextClientSequence(b) == storage[b] + 1

\* The buttons each view offers; a number typed is any of those the student tries.
BalanceMachineView(c) == {PlaceToken(t, side) : t \in TokenIds(c), side \in {1, 2}}

DragAndDropView(c) == {PlaceOnTarget(i, t) : i \in Range(c.items), t \in Range(c.targets)}

QuickQuestionView(c, st) ==
    LET item == CurrentItem(c, st)
    IN IF item = Null THEN {}
       ELSE IF item.mode = "OPTION_SELECTION" THEN {SelectOption(o) : o \in Range(item.options)}
       ELSE {a \in Clicks(c) : a.actionType = "ENTER_VALUE"}

Buttons(c, st) ==
    {Confirm, ResetStage} \union
        CASE c.engine = "QUICK-QUESTION"  -> QuickQuestionView(c, st)
          [] c.engine = "DRAG-DROP"       -> DragAndDropView(c)
          [] c.engine = "BALANCE-MACHINE" -> BalanceMachineView(c)

\* handleAction(): mirror the action to the server.
Mirrored(a, seq) == [bundle |-> page.group, seq |-> seq, action |-> a, mount |-> page.mount]

\* receiveEngineResult() in handleEvaluated(): does the stage advance?
Advances(verdict) == verdict # Null /\ (Stage(page).trigger = OnAny \/ verdict = "CORRECT")

\* dispatch() or confirmAndEvaluate() of EngineHost, with what they call in the page.
Click(a) ==
    /\ Shows(page) /\ Stage(page).config # Null /\ CanSave
    /\ storage[page.group] + 1 < scene.maxActions
    /\ LET b == page.group
           c == Stage(page).config
           seq == NextClientSequence(b)
           engine == Apply(page.engine, c, a)
           verdict == IF a = Confirm THEN Evaluate(engine, c) ELSE Null
           p == [page EXCEPT !.engine = engine, !.last = seq, !.pending = @ \union {<<b, seq>>}]
       IN /\ ValidateConfig(c) /\ Accepts(page.engine, c, a)
          /\ storage' = [storage EXCEPT ![b] = seq]
          /\ posts' = posts \union {Mirrored(a, seq)}
          /\ shown' = [shown EXCEPT ![b] = IF verdict = Null THEN @ ELSE verdict]
          /\ IF Advances(verdict) THEN SetState([p EXCEPT !.pointer = @ + 1], b, TRUE)
             ELSE /\ page' = p
                  /\ saves' = IF verdict = Null THEN saves ELSE Persisted(p)
                  /\ UNCHANGED <<entries, completions>>
          /\ disturbed' = IF server[b].state = "COMPLETED" THEN disturbed \union {b} ELSE disturbed
    /\ UNCHANGED <<scene, row, server, faults>>

\* handleContinue: the button of a stage without an engine.
Continue ==
    /\ Shows(page) /\ Stage(page).config = Null /\ CanSave /\ Cardinality(entries) <= MaxEntries
    /\ SetState([page EXCEPT !.pointer = @ + 1], page.group, TRUE)
    /\ UNCHANGED <<scene, storage, posts, row, server, faults, shown, disturbed>>

\* handleRequestHint: what is shown is in SequenceSessions; here, one more save.
HintRequested ==
    /\ Shows(page) /\ page.hints < Stage(page).hints /\ page.hints < MaxHints /\ CanSave
    /\ saves' = Persisted(page)
    /\ page' = [page EXCEPT !.hints = @ + 1]
    /\ UNCHANGED <<scene, storage, posts, entries, completions, row, server, faults, shown,
                   disturbed>>

\* Whatever was in memory is gone; what is on its way still arrives.
Reload ==
    /\ page.mount < scene.maxReloads /\ page.phase # "result"
    /\ page' = FreshPage(page.mount + 1)
    /\ completions' = SelectSeq(completions, LAMBDA c : c.at = "sent")
    /\ disturbed' = disturbed \union {p.bundle : p \in posts}
                    \union {completions[i].bundle : i \in DOMAIN completions}
    /\ UNCHANGED <<scene, storage, posts, saves, entries, row, server, faults, shown>>

----------------------------------------------------------------------------
(* The calls                                                               *)

Settled(p) == /\ posts' = posts \ {p}
              /\ page' = [page EXCEPT !.pending = @ \ {<<p.bundle, p.seq>>}]

\* POST /attempts/{id}/actions.  A completed attempt takes no action.
PostArrives(p) ==
    LET a == server[p.bundle]
    IN /\ p \in posts
       /\ Settled(p)
       /\ server' = IF a.state # "COMPLETED" /\ p.seq \notin DOMAIN a.log
                    THEN [server EXCEPT ![p.bundle] = [@ EXCEPT !.state = "IN_PROGRESS",
                                                                !.log = (p.seq :> p.action) @@ @]]
                    ELSE server
       /\ UNCHANGED <<scene, storage, saves, entries, completions, row, faults, shown, disturbed>>

\* The error is shown; the promise is settled all the same.
PostLost(p) ==
    /\ p \in posts /\ faults < scene.maxFaults
    /\ Settled(p)
    /\ faults' = faults + 1
    /\ disturbed' = disturbed \union {p.bundle}
    /\ UNCHANGED <<scene, storage, saves, entries, completions, row, server, shown>>

\* PUT sequence-runtime-state, guarded by the version; a conflict is followed by a GET.
SaveArrives(i) ==
    LET s == saves[i]
        fits == row # Null /\ s.version = row.version
        here == s.mount = page.mount
    IN /\ i \in DOMAIN saves /\ s.at = "put"
       /\ row' = IF fits THEN [pointer |-> s.pointer, refs |-> s.refs, version |-> row.version + 1]
                   ELSE row
       /\ page' = IF fits /\ here THEN [page EXCEPT !.version = s.version + 1] ELSE page
       /\ saves' = IF ~fits /\ here THEN [saves EXCEPT ![i] = [@ EXCEPT !.at = "reload"]]
                   ELSE RemoveAt(saves, i)
       /\ UNCHANGED <<scene, storage, posts, entries, completions, server, faults, shown, disturbed>>

\* The page adopts the stored state: it may go back to an earlier stage.
ReloadArrives(i) ==
    LET s == saves[i]
        moved == row.pointer # page.pointer
        p == [page EXCEPT !.pointer = row.pointer, !.refs = row.refs, !.version = row.version]
        q == [p EXCEPT !.resolving = IF moved THEN Resolving(p) ELSE @]
        r == [q EXCEPT !.engine = IF moved THEN Mounted(q) ELSE @,
                       !.completing = @ \/ (InActivity /\ Complete(q.pointer))]
    IN /\ i \in DOMAIN saves /\ s.at = "reload"
       /\ saves' = RemoveAt(saves, i)
       /\ IF s.mount # page.mount THEN UNCHANGED <<page, entries, completions, disturbed>>
          ELSE /\ page' = Announced(r)
               /\ entries' = entries \union Entry(r)
               /\ completions' = IF InActivity THEN Completing(p, p.group) ELSE completions
               /\ disturbed' = IF moved THEN Bundles ELSE disturbed
       /\ UNCHANGED <<scene, storage, posts, row, server, faults, shown>>

SaveLost(i) ==
    /\ i \in DOMAIN saves /\ faults < scene.maxFaults
    /\ faults' = faults + 1
    /\ saves' = RemoveAt(saves, i)
    /\ UNCHANGED <<scene, page, storage, posts, entries, completions, row, server, shown, disturbed>>

\* POST orchestration-stage-entry: 422 unless the whole bundle has no engine.
EntryArrives(e) ==
    LET a == server[e.bundle]
        starts == WhollyNonInteractive(e.bundle)
    IN /\ e \in entries
       /\ entries' = entries \ {e}
       /\ server' = IF starts /\ a.state = "CREATED"
                    THEN [server EXCEPT ![e.bundle].state = "IN_PROGRESS"] ELSE server
       /\ page' = IF ~starts /\ e.mount = page.mount
                  THEN [page EXCEPT !.notified = @ \ {e.stage}] ELSE page
       /\ UNCHANGED <<scene, storage, posts, saves, completions, row, faults, shown, disturbed>>

EntryLost(e) ==
    /\ e \in entries /\ faults < scene.maxFaults
    /\ faults' = faults + 1
    /\ entries' = entries \ {e}
    /\ page' = IF e.mount = page.mount THEN [page EXCEPT !.notified = @ \ {e.stage}] ELSE page
    /\ UNCHANGED <<scene, storage, posts, saves, completions, row, server, shown, disturbed>>

\* The POSTs it waited for are settled; lastClientSequenceRef is read only now.
CompletionSends(i) ==
    LET c == completions[i]
    IN /\ i \in DOMAIN completions /\ c.at = "waiting"
       /\ \A p \in posts : <<p.bundle, p.seq>> \notin c.waiting
       /\ completions' = [completions EXCEPT ![i] = [@ EXCEPT !.at = "sent", !.final = page.last,
                                                              !.waiting = {}]]
       /\ UNCHANGED <<scene, page, storage, posts, saves, entries, row, server, faults, shown,
                      disturbed>>

\* POST /attempts/{id}/complete: checkFinalClientSequence, then the score of the log.
CompletionArrives(i) ==
    LET c == completions[i]
        a == server[c.bundle]
        reached == c.final = Null \/ \E s \in DOMAIN a.log : s >= c.final
        scored == a.state = "IN_PROGRESS" /\ reached
        answered == scored \/ a.state = "COMPLETED"
    IN /\ i \in DOMAIN completions /\ c.at = "sent"
       /\ completions' = RemoveAt(completions, i)
       /\ server' = IF scored
                    THEN [server EXCEPT ![c.bundle] =
                            [@ EXCEPT !.state = "COMPLETED",
                                      !.result = ComputeOutcome(c.bundle, Ordered(a.log))]]
                    ELSE server
       /\ page' = IF InActivity /\ answered /\ c.mount = page.mount
                  THEN [page EXCEPT !.phase = "result"] ELSE page
       /\ UNCHANGED <<scene, storage, posts, saves, entries, row, faults, shown, disturbed>>

CompletionLost(i) ==
    /\ i \in DOMAIN completions /\ completions[i].at = "sent" /\ faults < scene.maxFaults
    /\ faults' = faults + 1
    /\ completions' = RemoveAt(completions, i)
    /\ UNCHANGED <<scene, page, storage, posts, saves, entries, row, server, shown, disturbed>>

----------------------------------------------------------------------------
Works ==
    \/ LaunchActivity \/ Bootstrap \/ LaunchGroup \/ GroupReady
    \/ /\ Shows(page) /\ Stage(page).config # Null
       /\ LET c == Stage(page).config
          IN \E a \in Buttons(c, page.engine) \intersect (Clicks(c) \union {Confirm, ResetStage}) :
                Click(a)
    \/ Continue \/ HintRequested

Delivers ==
    \/ \E p \in posts : PostArrives(p)
    \/ \E i \in DOMAIN saves : SaveArrives(i) \/ ReloadArrives(i)
    \/ \E e \in entries : EntryArrives(e)
    \/ \E i \in DOMAIN completions : CompletionSends(i) \/ CompletionArrives(i)

Fails ==
    \/ BootstrapFails \/ Reload
    \/ \E p \in posts : PostLost(p)
    \/ \E i \in DOMAIN saves : SaveLost(i)
    \/ \E e \in entries : EntryLost(e)
    \/ \E i \in DOMAIN completions : CompletionLost(i)

Next == Works \/ Delivers \/ Fails

Spec == Init /\ [][Next]_vars

----------------------------------------------------------------------------
(* Properties                                                              *)

\* What the attempt is recorded with is what the student was shown, unless an
\* action was lost, made after completion, or under way when its page was left:
\* completion waits for every action, so none made before it is refused, and the
\* server's replay is the page's own computation.
RecordedIsShown ==
    \A b \in Bundles \ disturbed :
        server[b].state = "COMPLETED" /\ (\A p \in posts : p.bundle # b)
            => server[b].result = shown[b]

\* A client sequence is used once for an attempt, across reloads: (attempt_id,
\* client_sequence) is unique and a reused one would be refused.
ClientSequencesAreFresh ==
    \A p \in posts : /\ p.seq \notin DOMAIN server[p.bundle].log
                     /\ \A q \in posts : q.bundle = p.bundle /\ q.seq = p.seq => q = p

\* With nothing under way, the engine the student works on, resumed or not, is in
\* the state the server's replay of the attempt's log would reach.
EngineMatchesLog ==
    LET b == page.group
    IN Shows(page) /\ page.engine # Null /\ b \notin disturbed /\ (\A p \in posts : p.bundle # b)
          => page.engine = Replay(Stage(page).config, Ordered(server[b].log))

\* The pages are well-formed, the client sequences fresh, and a stage is only shown
\* once the attempt of its group, and not of another one, has been launched.
PagesAreSound ==
    /\ TypeOK
    /\ ClientSequencesAreFresh
    /\ Shows(page) => server[page.group].state # "ABSENT"
=============================================================================
