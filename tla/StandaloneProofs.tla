--------------------------- MODULE StandaloneProofs ---------------------------
(***************************************************************************)
(* Proofs about the two components that keep their state apart from the    *)
(* services: the page that saves a sequence, and the external monitor.     *)
(*                                                                         *)
(* SequenceSessions: for any number of stages, any definition of them, any *)
(* number of pages, with and without faults.  What concerns the version    *)
(* guard is proved for pages that wait for each save (MaxInFlight = 1),    *)
(* the rest for any number of calls under way.                             *)
(*                                                                         *)
(* ExternalMonitor: for any cooldown, any number of runs in a period, runs *)
(* of any duration, any failures, and any scan that they fit in.           *)
(***************************************************************************)
EXTENDS SequenceSessions, ExternalMonitor, SequenceTheorems, TLAPS

-----------------------------------------------------------------------------
(* The stage orchestrator                                                  *)

Good(st) == st \in SequenceStates /\ WellFormed(st)

\* The stages that were entered have an entry.
LEMMA Entries ==
    ASSUME NEW st, Good(st)
    PROVE  /\ st.current \in Stages /\ st.current \in 1 .. N /\ N \in Nat
           /\ \A s \in 1 .. st.current : /\ s \in Stages /\ st.stages[s] \in StageStates
                                         /\ st.stages[s].attempts \in Nat /\ st.stages[s].hintCount \in Nat
                                         /\ st.stages[s].hintLevel \in Nat
                                         /\ Definition[s] \in StageDefinitions
           /\ st.completion \in {"IN_PROGRESS", "COMPLETED"}
<1>1. st.current \in Stages /\ N \in Nat /\ st.stages \in [Stages -> StageStates \union {Null}]
  BY SizeAssumption DEF Good, SequenceStates
<1>2. \A s \in 1 .. st.current : s \in Stages
  BY <1>1 DEF Stages
<1>3. \A s \in 1 .. st.current : st.stages[s] \in StageStates
  BY <1>1, <1>2 DEF Good, WellFormed
<1>4. \A s \in Stages : Definition[s] \in StageDefinitions
  BY DefinitionAssumption
<1> QED  BY <1>1, <1>2, <1>3, <1>4 DEF StageStates, Stages, Good, SequenceStates

LEMMA AheadReflexive ==
    ASSUME NEW st, Good(st)
    PROVE  Ahead(st, st)
  BY Entries DEF Ahead, Stages

LEMMA AheadTransitive ==
    ASSUME NEW a, NEW b, NEW c, Good(a), Good(b), Good(c), Ahead(a, b), Ahead(b, c)
    PROVE  Ahead(a, c)
<1>1. a.current \in Nat /\ b.current \in Nat /\ c.current \in Nat /\ a.current >= c.current
  BY Entries DEF Ahead
<1>2. ASSUME NEW s \in 1 .. c.current
      PROVE  /\ a.stages[s].attempts >= c.stages[s].attempts
             /\ a.stages[s].hintCount >= c.stages[s].hintCount
             /\ c.stages[s].remediation => a.stages[s].remediation
  <2>1. s \in 1 .. b.current /\ s \in 1 .. a.current
    BY <1>1 DEF Ahead
  <2> QED  BY <2>1, Entries DEF Ahead
<1> QED  BY <1>1, <1>2 DEF Ahead

\* withStageState.
LEMMA WithStageEffect ==
    ASSUME NEW st \in SequenceStates, NEW s \in Stages, NEW entry \in StageStates
    PROVE  /\ WithStage(st, s, entry) \in SequenceStates
           /\ WithStage(st, s, entry).current = st.current
           /\ WithStage(st, s, entry).completion = st.completion
           /\ WithStage(st, s, entry).stages[s] = entry
           /\ \A q \in Stages \ {s} : WithStage(st, s, entry).stages[q] = st.stages[q]
  BY DEF WithStage, SequenceStates

LEMMA InitialGood == Good(InitializeSequence)
<1>1. 1 \in Stages /\ N \in Nat
  BY SizeAssumption DEF Stages
<1>2. Entered(0) \in StageStates
  BY DEF Entered, StageStates
<1>3. InitializeSequence \in SequenceStates
  BY <1>1, <1>2 DEF InitializeSequence, SequenceStates
<1>4. /\ InitializeSequence.current = 1 /\ ~Complete(InitializeSequence)
      /\ InitializeSequence.stages[1] = Entered(0)
      /\ \A s \in Stages : (InitializeSequence.stages[s] # Null) <=> s = 1
  BY <1>1, <1>2, NullOutside DEF InitializeSequence, Complete
<1>5. Definition[1] \in StageDefinitions
  BY <1>1, DefinitionAssumption
<1>6. WellFormed(InitializeSequence)
  BY <1>1, <1>4, <1>5 DEF WellFormed, Entered, StageDefinitions, Stages
<1> QED  BY <1>3, <1>6 DEF Good

\* advanceStage, on a stage that may be completed.
LEMMA AdvanceGood ==
    ASSUME NEW st, Good(st), ~Complete(st),
           Definition[st.current].interactive => st.stages[st.current].attempts > 0
    PROVE  Good(AdvanceStage(st)) /\ Ahead(AdvanceStage(st), st)
<1> DEFINE c == st.current
           d == [st.stages[c] EXCEPT !.status = "COMPLETED", !.checkpoint = @ \/ Definition[c].checkpoint]
           done == WithStage(st, c, d)
<1>0. /\ st \in SequenceStates /\ c \in Stages /\ c \in 1 .. N /\ N \in Nat /\ c \in 1 .. c
      /\ st.stages[c] \in StageStates /\ Definition[c] \in StageDefinitions
      /\ st.stages[c].status = "IN_PROGRESS" /\ st.stages[c].checkpoint = FALSE
  <2>1. st \in SequenceStates /\ c \in Stages /\ c \in 1 .. N /\ N \in Nat /\ c \in 1 .. c
    BY Entries DEF Good
  <2>2. st.stages[c] \in StageStates /\ Definition[c] \in StageDefinitions
    BY <2>1, Entries
  <2> QED  BY <2>1, <2>2 DEF Good, WellFormed, StageStates
<1>1. /\ d \in StageStates /\ d.status = "COMPLETED" /\ d.checkpoint = Definition[c].checkpoint
      /\ d.hintLevel = st.stages[c].hintLevel /\ d.hintCount = st.stages[c].hintCount
      /\ d.attempts = st.stages[c].attempts /\ d.remediation = st.stages[c].remediation
  BY <1>0 DEF StageStates, StageDefinitions
<1>2. MarkStageComplete(st, c) = done
  BY DEF MarkStageComplete
<1> HIDE DEF d
<1>3. /\ done \in SequenceStates /\ done.current = c /\ done.completion = st.completion /\ done.stages[c] = d
      /\ \A q \in Stages \ {c} : done.stages[q] = st.stages[q]
  BY <1>0, <1>1, WithStageEffect
<1> HIDE DEF done
<1>4. ASSUME NEW r \in SequenceStates, r.stages[c] = d, \A s \in Stages : s < c => r.stages[s] = st.stages[s],
             r.current >= c, r.current \in Nat
      PROVE  /\ \A s \in 1 .. c :
                    /\ r.stages[s].status = "COMPLETED"
                    /\ r.stages[s].checkpoint <=> (Definition[s].checkpoint /\ r.stages[s].status = "COMPLETED")
                    /\ r.stages[s].hintLevel = r.stages[s].hintCount /\ r.stages[s].hintLevel <= Definition[s].hints
                    /\ Definition[s].interactive /\ r.stages[s].status = "COMPLETED" => r.stages[s].attempts > 0
                    /\ ~Definition[s].interactive => r.stages[s].attempts = 0
                    /\ r.stages[s].remediation => Definition[s].tries # 0 /\ r.stages[s].attempts >= Definition[s].tries
                    /\ r.stages[s] # Null
             /\ Complete(r) \/ ~Complete(st) => Ahead(r, st)
  <2>1. ASSUME NEW s \in 1 .. c, s # c
        PROVE  s \in Stages /\ s < c /\ r.stages[s] = st.stages[s] /\ st.stages[s].status = "COMPLETED"
    <3>1. s \in Stages /\ s < c /\ s \in 1 .. st.current
      BY <1>0, <2>1 DEF Stages
    <3>2. st.stages[s].status = "COMPLETED"
      BY <3>1 DEF Good, WellFormed
    <3> QED  BY <1>4, <3>1, <3>2
  <2>2. d # Null
    BY <1>1, NullOutside
  <2>3. ASSUME NEW s \in 1 .. c
        PROVE  /\ r.stages[s].status = "COMPLETED"
               /\ r.stages[s].checkpoint <=> (Definition[s].checkpoint /\ r.stages[s].status = "COMPLETED")
               /\ r.stages[s].hintLevel = r.stages[s].hintCount /\ r.stages[s].hintLevel <= Definition[s].hints
               /\ Definition[s].interactive /\ r.stages[s].status = "COMPLETED" => r.stages[s].attempts > 0
               /\ ~Definition[s].interactive => r.stages[s].attempts = 0
               /\ r.stages[s].remediation => Definition[s].tries # 0 /\ r.stages[s].attempts >= Definition[s].tries
               /\ r.stages[s] # Null
    <3>0. /\ st.stages[c].hintLevel = st.stages[c].hintCount /\ st.stages[c].hintLevel <= Definition[c].hints
          /\ ~Definition[c].interactive => st.stages[c].attempts = 0
          /\ st.stages[c].remediation => Definition[c].tries # 0 /\ st.stages[c].attempts >= Definition[c].tries
      BY <1>0 DEF Good, WellFormed
    <3>1. CASE s = c
      <4>1. r.stages[s] = d
        BY <1>4, <3>1
      <4> QED  BY <1>0, <1>1, <2>2, <3>0, <3>1, <4>1
    <3>2. CASE s # c
      BY <2>1, <3>2 DEF Good, WellFormed
    <3> QED  BY <3>1, <3>2
  <2>4. ASSUME NEW s \in 1 .. c
        PROVE  /\ r.stages[s].attempts = st.stages[s].attempts /\ r.stages[s].hintCount = st.stages[s].hintCount
               /\ r.stages[s].remediation = st.stages[s].remediation
    BY <1>1, <1>4, <2>1
  <2>5. Ahead(r, st)
    BY <1>0, <1>4, <2>4, Entries DEF Ahead
  <2> QED  BY <2>3, <2>5
<1>5. CASE c = N
  <2> DEFINE r == [done EXCEPT !.completion = "COMPLETED"]
  <2>1. r \in SequenceStates /\ r.current = c /\ r.stages = done.stages /\ Complete(r)
    BY <1>3 DEF SequenceStates, Complete
  <2>2. AdvanceStage(st) = r
    BY <1>2, <1>5 DEF AdvanceStage
  <2> HIDE DEF r
  <2>3. r.stages[c] = d /\ \A s \in Stages : s # c => r.stages[s] = st.stages[s]
    BY <1>3, <2>1
  <2>4. \A s \in Stages : (r.stages[s] # Null) <=> (s <= r.current)
    BY <1>0, <1>1, <1>5, <2>1, <2>3, NullOutside DEF Good, WellFormed
  <2>5. Good(r) /\ Ahead(r, st)
    BY <1>0, <1>4, <1>5, <2>1, <2>3, <2>4 DEF Good, WellFormed, Stages
  <2> QED  BY <2>2, <2>5
<1>6. CASE c # N
  <2> DEFINE next == c + 1
             r == [WithStage(done, next, Entered(0)) EXCEPT !.current = next]
  <2>0. next \in Stages /\ next # c /\ Entered(0) \in StageStates /\ Entered(0) # Null /\ next \in Nat
    <3>1. Entered(0) \in StageStates
      BY DEF Entered, StageStates
    <3> QED  BY <1>0, <1>6, <3>1, NullOutside DEF Stages
  <2>1. /\ WithStage(done, next, Entered(0)) \in SequenceStates
        /\ WithStage(done, next, Entered(0)).completion = st.completion
        /\ WithStage(done, next, Entered(0)).stages[next] = Entered(0)
        /\ \A q \in Stages \ {next} : WithStage(done, next, Entered(0)).stages[q] = done.stages[q]
    BY <1>3, <2>0, WithStageEffect
  <2>2. /\ r \in SequenceStates /\ r.current = next /\ r.completion = st.completion /\ r.stages[next] = Entered(0)
        /\ \A q \in Stages \ {next} : r.stages[q] = done.stages[q]
    BY <2>0, <2>1 DEF SequenceStates
  <2>3. AdvanceStage(st) = r
    <3>1. done.stages[next] = Null
      BY <1>0, <1>3, <2>0 DEF Good, WellFormed
    <3>2. [StageEntry(done, next, 0) EXCEPT !.status = "IN_PROGRESS"] = Entered(0)
      BY <3>1 DEF StageEntry, Entered
    <3> QED  BY <1>2, <1>6, <3>2 DEF AdvanceStage
  <2> HIDE DEF r
  <2>4. r.stages[c] = d /\ ~Complete(r) /\ \A s \in Stages : s < c => r.stages[s] = st.stages[s]
    BY <1>0, <1>3, <2>0, <2>2 DEF Complete
  <2>5. \A s \in Stages : (r.stages[s] # Null) <=> (s <= r.current)
    <3>1. ASSUME NEW s \in Stages PROVE (r.stages[s] # Null) <=> (s <= r.current)
      <4>1. CASE s = next \/ s = c
        BY <1>0, <1>1, <2>0, <2>2, <2>4, <4>1, NullOutside
      <4>2. CASE s # next /\ s # c
        BY <1>0, <1>3, <2>0, <2>2, <4>2 DEF Good, WellFormed, Stages
      <4> QED  BY <4>1, <4>2
    <3> QED  BY <3>1
  <2>6. Definition[next] \in StageDefinitions
    BY <2>0, DefinitionAssumption
  <2>7. Ahead(r, st) /\ \A s \in 1 .. c :
                    /\ r.stages[s].status = "COMPLETED"
                    /\ r.stages[s].checkpoint <=> (Definition[s].checkpoint /\ r.stages[s].status = "COMPLETED")
                    /\ r.stages[s].hintLevel = r.stages[s].hintCount /\ r.stages[s].hintLevel <= Definition[s].hints
                    /\ Definition[s].interactive /\ r.stages[s].status = "COMPLETED" => r.stages[s].attempts > 0
                    /\ ~Definition[s].interactive => r.stages[s].attempts = 0
                    /\ r.stages[s].remediation => Definition[s].tries # 0 /\ r.stages[s].attempts >= Definition[s].tries
    BY <1>0, <1>4, <2>0, <2>2, <2>4
  <2>8. ASSUME NEW s \in 1 .. r.current
        PROVE  /\ (r.stages[s].status = "COMPLETED") <=> (s < r.current \/ Complete(r))
               /\ r.stages[s].checkpoint <=> (Definition[s].checkpoint /\ r.stages[s].status = "COMPLETED")
               /\ r.stages[s].hintLevel = r.stages[s].hintCount /\ r.stages[s].hintLevel <= Definition[s].hints
               /\ Definition[s].interactive /\ r.stages[s].status = "COMPLETED" => r.stages[s].attempts > 0
               /\ ~Definition[s].interactive => r.stages[s].attempts = 0
               /\ r.stages[s].remediation => Definition[s].tries # 0 /\ r.stages[s].attempts >= Definition[s].tries
    <3>1. CASE s = next
      BY <2>2, <2>4, <2>6, <3>1 DEF Entered, StageDefinitions
    <3>2. CASE s # next
      <4>1. s \in 1 .. c /\ s < r.current
        BY <1>0, <2>0, <2>2, <3>2
      <4> QED  BY <2>4, <2>7, <4>1
    <3> QED  BY <3>1, <3>2
  <2>9. Good(r) /\ Ahead(r, st)
    BY <2>2, <2>4, <2>5, <2>7, <2>8 DEF Good, WellFormed
  <2> QED  BY <2>3, <2>9
<1> QED  BY <1>5, <1>6

\* What the current stage of a well-formed state says of its entry.
LEMMA CurrentEntry ==
    ASSUME NEW st, Good(st), ~Complete(st)
    PROVE  /\ st \in SequenceStates /\ st.current \in Stages /\ st.current \in Nat
           /\ st.stages[st.current] \in StageStates /\ Definition[st.current] \in StageDefinitions
           /\ st.stages[st.current] # Null
           /\ st.stages[st.current].status = "IN_PROGRESS" /\ st.stages[st.current].checkpoint = FALSE
           /\ st.stages[st.current].hintLevel = st.stages[st.current].hintCount
           /\ st.stages[st.current].hintLevel <= Definition[st.current].hints
           /\ ~Definition[st.current].interactive => st.stages[st.current].attempts = 0
           /\ st.stages[st.current].remediation => /\ Definition[st.current].tries # 0
                                                   /\ st.stages[st.current].attempts >= Definition[st.current].tries
<1> DEFINE c == st.current
<1>1. st \in SequenceStates /\ c \in Stages /\ c \in 1 .. N /\ N \in Nat /\ c \in 1 .. c /\ c \in Nat
  BY Entries DEF Good
<1>2. st.stages[c] \in StageStates /\ Definition[c] \in StageDefinitions
  BY <1>1, Entries
<1>3. /\ (st.stages[c].status = "COMPLETED") <=> (c < st.current \/ Complete(st))
      /\ st.stages[c].checkpoint <=> (Definition[c].checkpoint /\ st.stages[c].status = "COMPLETED")
      /\ st.stages[c].hintLevel = st.stages[c].hintCount /\ st.stages[c].hintLevel <= Definition[c].hints
      /\ ~Definition[c].interactive => st.stages[c].attempts = 0
      /\ st.stages[c].remediation => Definition[c].tries # 0 /\ st.stages[c].attempts >= Definition[c].tries
  BY <1>1 DEF Good, WellFormed
<1>4. st.stages[c] # Null
  BY <1>2, NullOutside
<1>5. st.stages[c].status = "IN_PROGRESS"
  BY <1>1, <1>2, <1>3 DEF StageStates
<1>6. st.stages[c].checkpoint = FALSE
  BY <1>2, <1>3, <1>5 DEF StageStates
<1> QED  BY <1>1, <1>2, <1>3, <1>4, <1>5, <1>6

\* e may follow the entry of the current stage of st before it is completed.
CountsUp(st, e) ==
    /\ e \in StageStates /\ e.status = "IN_PROGRESS" /\ e.checkpoint = FALSE
    /\ e.hintLevel = e.hintCount /\ e.hintLevel <= Definition[st.current].hints
    /\ ~Definition[st.current].interactive => e.attempts = 0
    /\ e.remediation => /\ Definition[st.current].tries # 0
                        /\ e.attempts >= Definition[st.current].tries
    /\ e.attempts >= st.stages[st.current].attempts /\ e.hintCount >= st.stages[st.current].hintCount
    /\ st.stages[st.current].remediation => e.remediation

LEMMA TouchedGood ==
    ASSUME NEW st, Good(st), ~Complete(st), NEW e, CountsUp(st, e),
           NEW r, r = WithStage(st, st.current, e)
    PROVE  Good(r) /\ Ahead(r, st) /\ ~Complete(r) /\ r.current = st.current /\ r.stages[st.current] = e
<1> DEFINE c == st.current
<1>0. /\ e \in StageStates /\ e.status = "IN_PROGRESS" /\ e.checkpoint = FALSE
      /\ e.hintLevel = e.hintCount /\ e.hintLevel <= Definition[c].hints
      /\ ~Definition[c].interactive => e.attempts = 0
      /\ e.remediation => Definition[c].tries # 0 /\ e.attempts >= Definition[c].tries
      /\ e.attempts >= st.stages[c].attempts /\ e.hintCount >= st.stages[c].hintCount
      /\ st.stages[c].remediation => e.remediation
  BY DEF CountsUp
<1>1. /\ st \in SequenceStates /\ c \in Stages /\ st.stages[c] \in StageStates
      /\ c \in Nat /\ Definition[c] \in StageDefinitions /\ st.stages[c] # Null
  BY CurrentEntry
<1>2. /\ r \in SequenceStates /\ r.current = c /\ r.completion = st.completion /\ r.stages[c] = e
      /\ \A q \in Stages \ {c} : r.stages[q] = st.stages[q]
  BY <1>0, <1>1, WithStageEffect
<1>3. ~Complete(r)
  BY <1>2 DEF Complete
<1>4. e # Null
  BY <1>0, NullOutside
<1>5. ASSUME NEW s \in Stages PROVE (r.stages[s] # Null) <=> (s <= r.current)
  <2>1. (st.stages[s] # Null) <=> (s <= st.current)
    BY DEF Good, WellFormed
  <2> QED  BY <1>1, <1>2, <1>4, <2>1
<1>6. ASSUME NEW s \in 1 .. c
      PROVE  /\ (r.stages[s].status = "COMPLETED") <=> (s < r.current \/ Complete(r))
             /\ r.stages[s].checkpoint <=> (Definition[s].checkpoint /\ r.stages[s].status = "COMPLETED")
             /\ r.stages[s].hintLevel = r.stages[s].hintCount /\ r.stages[s].hintLevel <= Definition[s].hints
             /\ Definition[s].interactive /\ r.stages[s].status = "COMPLETED" => r.stages[s].attempts > 0
             /\ ~Definition[s].interactive => r.stages[s].attempts = 0
             /\ r.stages[s].remediation => Definition[s].tries # 0 /\ r.stages[s].attempts >= Definition[s].tries
  <2>1. CASE s = c
    <3>1. r.stages[s] = e
      BY <1>2, <2>1
    <3> QED  BY <1>0, <1>1, <1>2, <1>3, <2>1, <3>1
  <2>2. CASE s # c
    <3>1. s \in Stages /\ r.stages[s] = st.stages[s]
      BY <1>2, <2>2, Entries
    <3>2. /\ (st.stages[s].status = "COMPLETED") <=> (s < st.current \/ Complete(st))
          /\ st.stages[s].checkpoint <=> (Definition[s].checkpoint /\ st.stages[s].status = "COMPLETED")
          /\ st.stages[s].hintLevel = st.stages[s].hintCount /\ st.stages[s].hintLevel <= Definition[s].hints
          /\ Definition[s].interactive /\ st.stages[s].status = "COMPLETED" => st.stages[s].attempts > 0
          /\ ~Definition[s].interactive => st.stages[s].attempts = 0
          /\ st.stages[s].remediation => Definition[s].tries # 0 /\ st.stages[s].attempts >= Definition[s].tries
      BY DEF Good, WellFormed
    <3> QED  BY <1>2, <1>3, <3>1, <3>2
  <2> QED  BY <2>1, <2>2
<1>7. Good(r)
  BY <1>2, <1>3, <1>5, <1>6 DEF Good, WellFormed
<1>8. ASSUME NEW s \in 1 .. c
      PROVE  /\ r.stages[s].attempts >= st.stages[s].attempts
             /\ r.stages[s].hintCount >= st.stages[s].hintCount
             /\ st.stages[s].remediation => r.stages[s].remediation
  <2>1. CASE s = c
    BY <1>0, <1>2, <2>1
  <2>2. CASE s # c
    <3>1. /\ r.stages[s] = st.stages[s] /\ st.stages[s].attempts \in Nat /\ st.stages[s].hintCount \in Nat
      BY <1>2, <2>2, Entries
    <3> QED  BY <3>1
  <2> QED  BY <2>1, <2>2
<1>9. Ahead(r, st)
  BY <1>1, <1>2, <1>8 DEF Ahead
<1> QED  BY <1>2, <1>3, <1>7, <1>9

\* receiveEngineResult on the current, interactive stage.
LEMMA EvaluationGood ==
    ASSUME NEW st, Good(st), ~Complete(st), Definition[st.current].interactive, NEW correct \in BOOLEAN
    PROVE  Good(ReceiveEngineResult(st, correct)) /\ Ahead(ReceiveEngineResult(st, correct), st)
<1> DEFINE c == st.current
           rule == Definition[c]
           tries == st.stages[c].attempts + 1
           remediates == /\ rule.trigger = "ON_ENGINE_EVALUATION_CORRECT" /\ ~correct
                         /\ rule.tries # 0 /\ tries >= rule.tries /\ rule.remediation
           e == [st.stages[c] EXCEPT !.attempts = tries, !.remediation = @ \/ remediates]
           counted == WithStage(st, c, e)
<1>1. /\ st.stages[c] \in StageStates /\ st.stages[c] # Null /\ rule \in StageDefinitions
      /\ st.stages[c].status = "IN_PROGRESS" /\ st.stages[c].checkpoint = FALSE
      /\ st.stages[c].hintLevel = st.stages[c].hintCount /\ st.stages[c].hintLevel <= rule.hints
      /\ st.stages[c].remediation => rule.tries # 0 /\ st.stages[c].attempts >= rule.tries
  BY CurrentEntry
<1>2. /\ tries \in Nat /\ st.stages[c].attempts \in Nat /\ st.stages[c].hintCount \in Nat
      /\ st.stages[c].remediation \in BOOLEAN /\ rule.tries \in Nat
  BY <1>1 DEF StageStates, StageDefinitions
<1>3. StageEntry(st, c, 1) = st.stages[c]
  BY <1>1 DEF StageEntry
<1>4. /\ e \in StageStates /\ e.status = "IN_PROGRESS" /\ e.checkpoint = FALSE
      /\ e.hintLevel = st.stages[c].hintLevel /\ e.hintCount = st.stages[c].hintCount
      /\ e.attempts = tries /\ e.remediation = (st.stages[c].remediation \/ remediates)
  BY <1>1, <1>2 DEF StageStates
<1>5. e.remediation => rule.tries # 0 /\ e.attempts >= rule.tries
  BY <1>1, <1>2, <1>4
<1>6. e.attempts >= st.stages[c].attempts /\ e.attempts > 0 /\ e.hintCount >= st.stages[c].hintCount
  BY <1>1, <1>2, <1>4
<1>7. ReceiveEngineResult(st, correct) \in {counted, AdvanceStage(counted)}
  BY <1>3 DEF ReceiveEngineResult
<1> HIDE DEF e
<1>8. /\ Good(counted) /\ Ahead(counted, st) /\ ~Complete(counted)
      /\ counted.current = c /\ counted.stages[c] = e
  <2>1. /\ e.hintLevel = e.hintCount /\ e.hintLevel <= Definition[c].hints
        /\ ~Definition[c].interactive => e.attempts = 0
        /\ st.stages[c].remediation => e.remediation
    BY <1>1, <1>4
  <2>2. e \in StageStates /\ e.status = "IN_PROGRESS" /\ e.checkpoint = FALSE
    BY <1>4
  <2>3. PICK r : r = counted
    OBVIOUS
  <2>4. r = WithStage(st, st.current, e)
    BY <2>3
  <2>5. CountsUp(st, e)
    BY <1>5, <1>6, <2>1, <2>2 DEF CountsUp
  <2>6. Good(r) /\ Ahead(r, st) /\ ~Complete(r) /\ r.current = st.current /\ r.stages[st.current] = e
    BY <2>4, <2>5, TouchedGood
  <2> QED  BY <2>3, <2>6
<1> HIDE DEF counted
<1>9. Good(AdvanceStage(counted)) /\ Ahead(AdvanceStage(counted), counted)
  BY <1>6, <1>8, AdvanceGood
<1>10. Ahead(AdvanceStage(counted), st)
  BY <1>8, <1>9, AheadTransitive
<1> QED  BY <1>7, <1>8, <1>9, <1>10

\* requestHint below the last level of the policy, where the page offers it.
LEMMA HintGood ==
    ASSUME NEW st, Good(st), ~Complete(st),
           st.stages[st.current].hintLevel < Definition[st.current].hints
    PROVE  Good(RequestHint(st)) /\ Ahead(RequestHint(st), st)
<1> DEFINE c == st.current
           e == [st.stages[c] EXCEPT !.hintCount = @ + 1, !.hintLevel = @ + 1]
<1>1. /\ st.stages[c] \in StageStates /\ Definition[c] \in StageDefinitions
      /\ st.stages[c].status = "IN_PROGRESS" /\ st.stages[c].checkpoint = FALSE
      /\ st.stages[c].hintLevel = st.stages[c].hintCount
      /\ ~Definition[c].interactive => st.stages[c].attempts = 0
      /\ st.stages[c].remediation => Definition[c].tries # 0 /\ st.stages[c].attempts >= Definition[c].tries
  BY CurrentEntry
<1>2. /\ st.stages[c].hintLevel \in Nat /\ st.stages[c].hintCount \in Nat /\ st.stages[c].attempts \in Nat
      /\ Definition[c].hints \in Nat
  BY <1>1 DEF StageStates, StageDefinitions
<1>3. /\ e \in StageStates /\ e.status = "IN_PROGRESS" /\ e.checkpoint = FALSE
      /\ e.hintLevel = st.stages[c].hintLevel + 1 /\ e.hintCount = st.stages[c].hintCount + 1
      /\ e.attempts = st.stages[c].attempts /\ e.remediation = st.stages[c].remediation
  <2>1. st.stages[c].hintLevel + 1 \in Nat /\ st.stages[c].hintCount + 1 \in Nat
    BY <1>2
  <2> QED  BY <1>1, <2>1 DEF StageStates
<1>4. RequestHint(st) = WithStage(st, c, e)
  BY DEF RequestHint
<1> HIDE DEF e
<1>5. /\ e.hintLevel <= Definition[c].hints /\ e.hintCount >= st.stages[c].hintCount /\ e.hintLevel = e.hintCount
      /\ e.attempts >= st.stages[c].attempts
      /\ ~Definition[c].interactive => e.attempts = 0
      /\ e.remediation => Definition[c].tries # 0 /\ e.attempts >= Definition[c].tries
      /\ st.stages[c].remediation => e.remediation
  BY <1>1, <1>2, <1>3
<1>6. e \in StageStates /\ e.status = "IN_PROGRESS" /\ e.checkpoint = FALSE
  BY <1>3
<1>7. CountsUp(st, e)
  BY <1>5, <1>6 DEF CountsUp
<1>8. PICK r : r = RequestHint(st)
  OBVIOUS
<1>9. r = WithStage(st, st.current, e)
  BY <1>4, <1>8
<1>10. Good(r) /\ Ahead(r, st)
  BY <1>7, <1>9, TouchedGood
<1> QED  BY <1>8, <1>10

-----------------------------------------------------------------------------
(* Types and shape: whatever the pages show, send or have stored is a state *)
(* of the orchestrator, for any number of calls under way.                 *)

\* Only a page that found or made a row is durable, and an open page shows a state.
TabOk(v, r) ==
    /\ v \in TabStates
    /\ v.state # Null => WellFormed(v.state)
    /\ v.phase = "open" => v.state # Null
    /\ v.phase \in {"new", "loading"} => ~v.durable
    /\ v.durable => r # Null

\* A call carries the answer that its place in the code says.
CallOk(c, r) ==
    /\ c \in CallStates
    /\ c.state # Null => WellFormed(c.state)
    /\ c.at \in {"create", "created", "put", "saved", "reloaded"} => c.state # Null
    /\ c.at \in {"created", "put", "saved", "conflict", "reload", "reloaded"} => r # Null
    /\ c.at = "loaded" /\ c.state # Null => r # Null

RowOk(r) == r \in Rows \union {Null} /\ (r # Null => WellFormed(r.state))

ShapeInv ==
    /\ tab \in [Tabs -> TabStates] /\ call \in [Tabs -> [Slots -> CallStates]] /\ failed \subseteq Tabs
    /\ RowOk(row)
    /\ \A t \in Tabs : TabOk(tab[t], row)
    /\ \A t \in Tabs, i \in Slots : CallOk(call[t][i], row)

LEMMA ShapeImplies == ShapeInv => TypeOK /\ SequenceShape
<1> SUFFICES ASSUME ShapeInv PROVE TypeOK /\ SequenceShape
  OBVIOUS
<1>1. TypeOK
  BY DEF ShapeInv, TypeOK, RowOk
<1>2. ASSUME NEW st \in AllStates, st # Null PROVE WellFormed(st)
  <2>1. CASE \E t \in Tabs : st = tab[t].state
    BY <1>2, <2>1 DEF ShapeInv, TabOk
  <2>2. CASE \E t \in Tabs, i \in Slots : st = call[t][i].state
    BY <1>2, <2>2 DEF ShapeInv, CallOk
  <2>3. CASE st = IF row = Null THEN Null ELSE row.state
    BY <1>2, <2>3 DEF ShapeInv, RowOk
  <2> QED  BY <1>2, <2>1, <2>2, <2>3 DEF AllStates
<1> QED  BY <1>1, <1>2 DEF SequenceShape

\* The states that the invariant speaks of.
LEMMA ShapeGood ==
    ASSUME ShapeInv, NEW t \in Tabs
    PROVE  /\ tab[t].state # Null => Good(tab[t].state)
           /\ \A i \in Slots : call[t][i].state # Null => Good(call[t][i].state)
           /\ row # Null => row \in Rows /\ Good(row.state)
<1>1. tab[t].state # Null => Good(tab[t].state)
  BY DEF ShapeInv, TabOk, TabStates, Good
<1>2. ASSUME NEW i \in Slots PROVE call[t][i].state # Null => Good(call[t][i].state)
  BY DEF ShapeInv, CallOk, CallStates, Good
<1>3. row # Null => row \in Rows /\ Good(row.state)
  BY DEF ShapeInv, RowOk, Rows, Good
<1> QED  BY <1>1, <1>2, <1>3

LEMMA IdleOk == ASSUME NEW r PROVE CallOk(Idle, r) /\ Idle \in CallStates
  BY DEF CallOk, Idle, CallStates

LEMMA ShapeInit == Init => ShapeInv
<1> SUFFICES ASSUME Init PROVE ShapeInv
  OBVIOUS
<1>1. DefinitionAssumption /\ Idle \in CallStates
  BY IdleOk, DefinitionAssumption
<1>2. ASSUME NEW t \in Tabs PROVE TabOk(tab[t], row)
  BY DEF Init, TabOk, TabStates
<1>3. ASSUME NEW t \in Tabs, NEW i \in Slots PROVE CallOk(call[t][i], row)
  BY IdleOk DEF Init
<1>4. tab \in [Tabs -> TabStates]
  BY <1>2 DEF Init, TabStates
<1>5. call \in [Tabs -> [Slots -> CallStates]]
  BY IdleOk DEF Init
<1> QED  BY <1>2, <1>3, <1>4, <1>5 DEF Init, ShapeInv, RowOk

\* One page and one of its calls change; a row is never deleted.
LEMMA ShapeFrame ==
    ASSUME ShapeInv, NEW t \in Tabs, NEW v, NEW i \in Slots, NEW c,
           tab' = [tab EXCEPT ![t] = v], call' = [call EXCEPT ![t] = [@ EXCEPT ![i] = c]],
           TabOk(v, row'), CallOk(c, row'), RowOk(row'), row # Null => row' # Null,
           failed' \subseteq Tabs
    PROVE  ShapeInv'
<1>1. v \in TabStates /\ c \in CallStates
  BY DEF TabOk, CallOk
<1>2. tab' \in [Tabs -> TabStates] /\ call' \in [Tabs -> [Slots -> CallStates]]
  BY <1>1 DEF ShapeInv
<1>3. ASSUME NEW u \in Tabs PROVE TabOk(tab'[u], row')
  <2>1. CASE u = t
    <3>1. tab'[u] = v
      BY <2>1 DEF ShapeInv
    <3> QED  BY <3>1
  <2>2. CASE u # t
    <3>1. tab'[u] = tab[u] /\ TabOk(tab[u], row)
      BY <2>2 DEF ShapeInv
    <3> QED  BY <3>1 DEF TabOk
  <2> QED  BY <2>1, <2>2
<1>4. ASSUME NEW u \in Tabs, NEW j \in Slots PROVE CallOk(call'[u][j], row')
  <2>1. CASE u = t /\ j = i
    <3>1. call'[u][j] = c
      BY <2>1 DEF ShapeInv
    <3> QED  BY <3>1
  <2>2. CASE ~(u = t /\ j = i)
    <3>1. call'[u][j] = call[u][j] /\ CallOk(call[u][j], row)
      BY <2>2 DEF ShapeInv
    <3> QED  BY <3>1 DEF CallOk
  <2> QED  BY <2>1, <2>2
<1> QED  BY <1>2, <1>3, <1>4 DEF ShapeInv

\* The same when no call changes.
LEMMA ShapeFrameTab ==
    ASSUME ShapeInv, NEW t \in Tabs, NEW v, tab' = [tab EXCEPT ![t] = v], UNCHANGED <<row, call>>,
           TabOk(v, row), failed' \subseteq Tabs
    PROVE  ShapeInv'
<1>1. 1 \in Slots
  BY SizeAssumption DEF Slots
<1>2. PICK c : c = call[t][1]
  OBVIOUS
<1>3. call' = [call EXCEPT ![t] = [@ EXCEPT ![1] = c]]
  BY <1>1, <1>2 DEF ShapeInv
<1>4. CallOk(c, row') /\ RowOk(row') /\ TabOk(v, row')
  BY <1>1, <1>2 DEF ShapeInv
<1> QED  BY <1>1, <1>3, <1>4, ShapeFrame

\* Showing() a good state.
LEMMA ShowingOk ==
    ASSUME NEW v \in TabStates, NEW st, Good(st), NEW r, v.durable => r # Null
    PROVE  /\ TabOk(Showing(v, st), r)
           /\ Showing(v, st).phase = "open" /\ Showing(v, st).state = st
           /\ Showing(v, st).durable = v.durable /\ Showing(v, st).version = v.version
<1>1. st \in SequenceStates /\ WellFormed(st) /\ st # Null
  BY NullOutside DEF Good
<1>2. Complete(st) \in BOOLEAN /\ v.notified \in BOOLEAN /\ (v.notified \/ Complete(st)) \in BOOLEAN
  BY DEF Complete, TabStates
<1>3. /\ Showing(v, st) \in TabStates
      /\ Showing(v, st).phase = "open" /\ Showing(v, st).state = st
      /\ Showing(v, st).durable = v.durable /\ Showing(v, st).version = v.version
  BY <1>1, <1>2 DEF Showing, TabStates
<1> QED  BY <1>1, <1>3 DEF TabOk

\* persist(nextState), as each of the three handlers calls it.
LEMMA MutateShape ==
    ASSUME ShapeInv, NEW t \in Tabs, tab[t].phase = "open", NEW st, Good(st), Mutate(t, st)
    PROVE  ShapeInv'
<1>1. tab[t] \in TabStates /\ TabOk(tab[t], row) /\ tab[t].version \in Nat /\ (tab[t].durable => row # Null)
  BY DEF ShapeInv, TabOk, TabStates
<1>2. PICK v : v = Showing(tab[t], st)
  OBVIOUS
<1>3. tab' = [tab EXCEPT ![t] = v] /\ row' = row
  BY <1>2 DEF Mutate, ShapeInv
<1>4. TabOk(v, row)
  BY <1>1, <1>2, ShowingOk
<1>5. st \in SequenceStates /\ WellFormed(st) /\ st # Null
  BY NullOutside DEF Good
<1>6. CASE /\ tab[t].durable
           /\ \E i \in Slots : /\ call[t][i] = Idle
                               /\ SetCall(t, i, [at |-> "put", state |-> st, version |-> tab[t].version])
           /\ UNCHANGED failed
  <2>1. PICK i \in Slots : SetCall(t, i, [at |-> "put", state |-> st, version |-> tab[t].version])
    BY <1>6
  <2>2. PICK c : c = [at |-> "put", state |-> st, version |-> tab[t].version]
    OBVIOUS
  <2>3. CallOk(c, row)
    BY <1>1, <1>5, <1>6, <2>2 DEF CallOk, CallStates
  <2>4. call' = [call EXCEPT ![t] = [@ EXCEPT ![i] = c]]
    BY <2>1, <2>2 DEF SetCall
  <2>5. RowOk(row') /\ failed' \subseteq Tabs /\ CallOk(c, row') /\ TabOk(v, row')
    BY <1>3, <1>4, <1>6, <2>3 DEF ShapeInv
  <2> QED  BY <1>3, <2>4, <2>5, ShapeFrame
<1>7. CASE failed' \subseteq Tabs /\ UNCHANGED call
  BY <1>3, <1>4, <1>7, ShapeFrameTab
<1> QED  BY <1>6, <1>7 DEF Mutate, Persist, ShapeInv

LEMMA HandlersShape ==
    ASSUME ShapeInv, NEW t \in Tabs, NEW correct \in BOOLEAN,
           HandleEvaluated(t, correct) \/ HandleContinue(t) \/ HandleRequestHint(t)
    PROVE  /\ ShapeInv'
           /\ \E st : Good(st) /\ Ahead(st, tab[t].state) /\ Mutate(t, st)
           /\ tab[t].phase = "open" /\ Good(tab[t].state)
<1>1. Playing(t)
  BY DEF HandleEvaluated, HandleContinue, HandleRequestHint, OffersContinue, OffersHint
<1>2. PICK old : old = tab[t].state
  OBVIOUS
<1>3. tab[t].phase = "open" /\ ~Complete(old)
  BY <1>1, <1>2 DEF Playing
<1>4. Good(old)
  BY <1>2, <1>3, ShapeGood DEF ShapeInv, TabOk
<1>5. \E st : Good(st) /\ Ahead(st, old) /\ Mutate(t, st)
  <2>1. CASE HandleEvaluated(t, correct)
    <3>1. Definition[old.current].interactive /\ Mutate(t, ReceiveEngineResult(old, correct))
      BY <1>2, <2>1 DEF HandleEvaluated
    <3>2. Good(ReceiveEngineResult(old, correct)) /\ Ahead(ReceiveEngineResult(old, correct), old)
      BY <1>3, <1>4, <3>1, EvaluationGood
    <3> QED  BY <3>1, <3>2
  <2>2. CASE HandleContinue(t)
    <3>1. ~Definition[old.current].interactive /\ Mutate(t, AdvanceStage(old))
      BY <1>2, <2>2 DEF HandleContinue, OffersContinue
    <3>2. Good(AdvanceStage(old)) /\ Ahead(AdvanceStage(old), old)
      BY <1>3, <1>4, <3>1, AdvanceGood
    <3> QED  BY <3>1, <3>2
  <2>3. CASE HandleRequestHint(t)
    <3>1. old.stages[old.current].hintLevel < Definition[old.current].hints /\ Mutate(t, RequestHint(old))
      BY <1>2, <2>3 DEF HandleRequestHint, OffersHint
    <3>2. Good(RequestHint(old)) /\ Ahead(RequestHint(old), old)
      BY <1>3, <1>4, <3>1, HintGood
    <3> QED  BY <3>1, <3>2
  <2> QED  BY <2>1, <2>2, <2>3
<1>6. PICK st : Good(st) /\ Ahead(st, old) /\ Mutate(t, st)
  BY <1>5
<1>7. ShapeInv'
  BY <1>3, <1>6, MutateShape
<1> QED  BY <1>2, <1>3, <1>4, <1>6, <1>7

LEMMA BootstrapShape ==
    ASSUME ShapeInv, NEW t \in Tabs, NEW i \in Slots,
           BootstrapLoaded(t, i) \/ BootstrapCreated(t, i)
    PROVE  ShapeInv'
<1>1. PICK c : c = call[t][i]
  OBVIOUS
<1>2. PICK old : old = tab[t]
  OBVIOUS
<1>3. /\ CallOk(c, row) /\ c \in CallStates /\ c.version \in Nat
      /\ old \in TabStates /\ (old.durable => row # Null) /\ RowOk(row) /\ failed \subseteq Tabs
  BY <1>1, <1>2 DEF ShapeInv, CallOk, TabOk, CallStates
<1>4. /\ row' = row /\ failed' = failed
  BY DEF BootstrapLoaded, BootstrapCreated
<1>5. Good(InitializeSequence) /\ WellFormed(InitializeSequence) /\ InitializeSequence \in SequenceStates
      /\ InitializeSequence # Null
  BY InitialGood, NullOutside DEF Good
<1>6. [old EXCEPT !.durable = TRUE, !.version = c.version] \in TabStates
  BY <1>3 DEF TabStates
<1>7. ASSUME BootstrapLoaded(t, i), c.state # Null PROVE ShapeInv'
  <2>1. PICK v : v = Showing([old EXCEPT !.durable = TRUE, !.version = c.version], c.state)
    OBVIOUS
  <2>2. tab' = [tab EXCEPT ![t] = v] /\ SetCall(t, i, Idle) /\ c.at = "loaded"
    BY <1>1, <1>2, <1>7, <2>1 DEF BootstrapLoaded, ShapeInv
  <2>3. Good(c.state) /\ row # Null
    BY <1>1, <1>3, <1>7, <2>2, ShapeGood DEF CallOk
  <2>4. TabOk(v, row)
    BY <1>6, <2>1, <2>3, ShowingOk
  <2>5. CallOk(Idle, row)
    BY IdleOk
  <2> QED  BY <1>3, <1>4, <2>2, <2>4, <2>5, ShapeFrame DEF SetCall
<1>8. ASSUME BootstrapLoaded(t, i), c.state = Null PROVE ShapeInv'
  <2>1. PICK d : d = [at |-> "create", state |-> InitializeSequence, version |-> 0]
    OBVIOUS
  <2>2. CallOk(d, row)
    BY <1>5, <2>1 DEF CallOk, CallStates
  <2>3. SetCall(t, i, d) /\ tab' = tab
    BY <1>1, <1>8, <2>1 DEF BootstrapLoaded
  <2>4. tab' = [tab EXCEPT ![t] = old] /\ TabOk(old, row)
    BY <1>2, <2>3 DEF ShapeInv
  <2>5. call' = [call EXCEPT ![t] = [@ EXCEPT ![i] = d]]
    BY <2>3 DEF SetCall
  <2> QED  BY <1>3, <1>4, <2>2, <2>4, <2>5, ShapeFrame
<1>9. ASSUME BootstrapCreated(t, i) PROVE ShapeInv'
  <2>1. PICK v : v = IF c.at = "created"
                     THEN Showing([old EXCEPT !.durable = TRUE, !.version = c.version], c.state)
                     ELSE Showing(old, InitializeSequence)
    OBVIOUS
  <2>2. tab' = [tab EXCEPT ![t] = v] /\ SetCall(t, i, Idle)
    BY <1>1, <1>2, <1>9, <2>1 DEF BootstrapCreated, ShapeInv
  <2>3. TabOk(v, row)
    <3>1. CASE c.at = "created"
      <4>1. Good(c.state) /\ row # Null
        BY <1>1, <1>3, <3>1, ShapeGood DEF CallOk
      <4>2. v = Showing([old EXCEPT !.durable = TRUE, !.version = c.version], c.state)
        BY <2>1, <3>1
      <4> QED  BY <1>6, <4>1, <4>2, ShowingOk
    <3>2. CASE c.at # "created"
      <4>1. v = Showing(old, InitializeSequence)
        BY <2>1, <3>2
      <4> QED  BY <1>3, <1>5, <4>1, ShowingOk
    <3> QED  BY <3>1, <3>2
  <2>4. CallOk(Idle, row)
    BY IdleOk
  <2> QED  BY <1>3, <1>4, <2>2, <2>3, <2>4, ShapeFrame DEF SetCall
<1> QED  BY <1>7, <1>8, <1>9

LEMMA PersistShape ==
    ASSUME ShapeInv, NEW t \in Tabs, NEW i \in Slots,
           PersistSaved(t, i) \/ PersistConflict(t, i) \/ PersistReloaded(t, i)
    PROVE  ShapeInv'
<1>1. PICK c : c = call[t][i]
  OBVIOUS
<1>2. PICK old : old = tab[t]
  OBVIOUS
<1>3. /\ CallOk(c, row) /\ c \in CallStates /\ c.version \in Nat
      /\ old \in TabStates /\ TabOk(old, row) /\ RowOk(row) /\ failed \subseteq Tabs
  BY <1>1, <1>2 DEF ShapeInv, CallOk, TabOk, CallStates
<1>4. /\ row' = row /\ failed' = failed
  BY DEF PersistSaved, PersistConflict, PersistReloaded
<1>5. [old EXCEPT !.version = c.version] \in TabStates
  BY <1>3 DEF TabStates
<1>6. ASSUME PersistSaved(t, i) PROVE ShapeInv'
  <2>1. PICK v : v = [old EXCEPT !.version = c.version]
    OBVIOUS
  <2>2. tab' = [tab EXCEPT ![t] = v] /\ SetCall(t, i, Idle)
    BY <1>1, <1>2, <1>6, <2>1 DEF PersistSaved, ShapeInv
  <2>3. TabOk(v, row)
    BY <1>3, <1>5, <2>1 DEF TabOk, TabStates
  <2>4. CallOk(Idle, row)
    BY IdleOk
  <2> QED  BY <1>3, <1>4, <2>2, <2>3, <2>4, ShapeFrame DEF SetCall
<1>7. ASSUME PersistConflict(t, i) PROVE ShapeInv'
  <2>1. PICK d : d = [Idle EXCEPT !.at = "reload"]
    OBVIOUS
  <2>2. tab' = tab /\ call' = [call EXCEPT ![t] = [@ EXCEPT ![i] = d]] /\ c.at = "conflict"
    BY <1>1, <1>7, <2>1 DEF PersistConflict, SetCall
  <2>3. CallOk(d, row)
    BY <1>3, <2>1, <2>2 DEF CallOk, CallStates, Idle
  <2>4. tab' = [tab EXCEPT ![t] = old]
    BY <1>2, <2>2 DEF ShapeInv
  <2> QED  BY <1>3, <1>4, <2>2, <2>3, <2>4, ShapeFrame
<1>8. ASSUME PersistReloaded(t, i) PROVE ShapeInv'
  <2>1. PICK v : v = Showing([old EXCEPT !.version = c.version], c.state)
    OBVIOUS
  <2>2. tab' = [tab EXCEPT ![t] = v] /\ SetCall(t, i, Idle) /\ c.at = "reloaded"
    BY <1>1, <1>2, <1>8, <2>1 DEF PersistReloaded, ShapeInv
  <2>3. Good(c.state) /\ row # Null
    BY <1>1, <1>3, <2>2, ShapeGood DEF CallOk
  <2>4. TabOk(v, row)
    BY <1>5, <2>1, <2>3, ShowingOk
  <2>5. CallOk(Idle, row)
    BY IdleOk
  <2> QED  BY <1>3, <1>4, <2>2, <2>4, <2>5, ShapeFrame DEF SetCall
<1> QED  BY <1>6, <1>7, <1>8

LEMMA ServeShape ==
    ASSUME ShapeInv, NEW t \in Tabs, NEW i \in Slots, Serve(t, i)
    PROVE  ShapeInv'
<1>1. PICK c : c = call[t][i]
  OBVIOUS
<1>2. PICK old : old = tab[t]
  OBVIOUS
<1>3. /\ CallOk(c, row) /\ c \in CallStates /\ c.version \in Nat
      /\ TabOk(old, row) /\ RowOk(row) /\ failed \subseteq Tabs /\ tab = [tab EXCEPT ![t] = old]
      /\ (row # Null => row \in Rows /\ Good(row.state))
  BY <1>1, <1>2, ShapeGood DEF ShapeInv, CallOk, CallStates
<1>4. tab' = [tab EXCEPT ![t] = old] /\ failed' = failed
  BY <1>3 DEF Serve, ServeGet, ServePost, ServePut
<1>5. ASSUME ServeGet(t, i) PROVE ShapeInv'
  <2>1. PICK d : d = [at      |-> IF c.at = "load" THEN "loaded" ELSE "reloaded",
                      state   |-> FindByAttempt.state, version |-> FindByAttempt.version]
    OBVIOUS
  <2>2. c.at \in {"load", "reload"} /\ row' = row /\ call' = [call EXCEPT ![t] = [@ EXCEPT ![i] = d]]
    BY <1>1, <1>5, <2>1 DEF ServeGet, SetCall
  <2>3. CallOk(d, row)
    <3>1. CASE row = Null
      <4>1. d = [at |-> IF c.at = "load" THEN "loaded" ELSE "reloaded", state |-> Null, version |-> 0]
        BY <2>1, <3>1 DEF FindByAttempt
      <4>2. c.at = "load"
        BY <1>3, <2>2, <3>1 DEF CallOk
      <4> QED  BY <4>1, <4>2 DEF CallOk, CallStates
    <3>2. CASE row # Null
      <4>1. /\ d = [at |-> IF c.at = "load" THEN "loaded" ELSE "reloaded",
                    state |-> row.state, version |-> row.version]
            /\ row.state \in SequenceStates /\ row.version \in Nat /\ WellFormed(row.state) /\ row.state # Null
        BY <1>3, <2>1, <3>2, NullOutside DEF FindByAttempt, Rows, Good
      <4> QED  BY <2>2, <3>2, <4>1 DEF CallOk, CallStates
    <3> QED  BY <3>1, <3>2
  <2> QED  BY <1>3, <1>4, <2>2, <2>3, ShapeFrame
<1>6. ASSUME ServePost(t, i) PROVE ShapeInv'
  <2>1. c.at = "create" /\ c.state \in SequenceStates /\ WellFormed(c.state) /\ c.state # Null
    BY <1>1, <1>3, <1>6 DEF ServePost, CallOk, CallStates
  <2>2. CASE Create(c.state) /\ SetCall(t, i, [c EXCEPT !.at = "created", !.version = 1])
    <3>1. PICK d : d = [c EXCEPT !.at = "created", !.version = 1]
      OBVIOUS
    <3>2. row' = [state |-> c.state, version |-> 1] /\ call' = [call EXCEPT ![t] = [@ EXCEPT ![i] = d]]
      BY <2>2, <3>1 DEF Create, SetCall
    <3>3. row' \in Rows /\ row'.state = c.state
      BY <2>1, <3>2 DEF Rows
    <3>4. row' # Null
      BY <3>3, NullOutside
    <3>5. RowOk(row') /\ CallOk(d, row') /\ TabOk(old, row')
      BY <1>3, <2>1, <3>1, <3>3, <3>4 DEF RowOk, CallOk, TabOk, CallStates
    <3> QED  BY <1>3, <1>4, <3>2, <3>4, <3>5, ShapeFrame
  <2>3. CASE row # Null /\ SetCall(t, i, [Idle EXCEPT !.at = "refused"]) /\ UNCHANGED row
    <3>1. PICK d : d = [Idle EXCEPT !.at = "refused"]
      OBVIOUS
    <3>2. CallOk(d, row)
      BY <3>1 DEF CallOk, CallStates, Idle
    <3>3. call' = [call EXCEPT ![t] = [@ EXCEPT ![i] = d]] /\ row' = row
      BY <2>3, <3>1 DEF SetCall
    <3> QED  BY <1>3, <1>4, <3>2, <3>3, ShapeFrame
  <2> QED  BY <1>1, <1>6, <2>2, <2>3 DEF ServePost
<1>7. ASSUME ServePut(t, i) PROVE ShapeInv'
  <2>1. /\ c.at = "put" /\ c.state \in SequenceStates /\ WellFormed(c.state) /\ c.state # Null
        /\ row # Null /\ row \in Rows /\ row.version \in Nat
    BY <1>1, <1>3, <1>7 DEF ServePut, CallOk, CallStates, Rows
  <2>2. CASE Save(c.version, c.state) /\ SetCall(t, i, [c EXCEPT !.at = "saved", !.version = row'.version])
    <3>1. PICK n : n = row.version + 1
      OBVIOUS
    <3>2. n \in Nat /\ n # 0 /\ row' = [state |-> c.state, version |-> n]
      BY <2>1, <2>2, <3>1 DEF Save
    <3>3. row' \in Rows /\ row'.state = c.state /\ row'.version = n
      BY <2>1, <3>2 DEF Rows
    <3>4. PICK d : d = [c EXCEPT !.at = "saved", !.version = n]
      OBVIOUS
    <3>5. call' = [call EXCEPT ![t] = [@ EXCEPT ![i] = d]]
      BY <2>2, <3>3, <3>4 DEF SetCall
    <3>6. row' # Null
      BY <3>3, NullOutside
    <3>7. RowOk(row') /\ CallOk(d, row') /\ TabOk(old, row')
      BY <1>3, <2>1, <3>2, <3>3, <3>4, <3>6 DEF RowOk, CallOk, TabOk, CallStates
    <3> QED  BY <1>3, <1>4, <3>5, <3>6, <3>7, ShapeFrame
  <2>3. CASE SetCall(t, i, [Idle EXCEPT !.at = "conflict"]) /\ UNCHANGED row
    <3>1. PICK d : d = [Idle EXCEPT !.at = "conflict"]
      OBVIOUS
    <3>2. CallOk(d, row)
      BY <2>1, <3>1 DEF CallOk, CallStates, Idle
    <3>3. call' = [call EXCEPT ![t] = [@ EXCEPT ![i] = d]] /\ row' = row
      BY <2>3, <3>1 DEF SetCall
    <3> QED  BY <1>3, <1>4, <3>2, <3>3, ShapeFrame
  <2> QED  BY <1>1, <1>7, <2>2, <2>3 DEF ServePut
<1> QED  BY <1>5, <1>6, <1>7 DEF Serve

LEMMA OpenShape ==
    ASSUME ShapeInv, NEW t \in Tabs, Open(t) \/ Leave(t)
    PROVE  ShapeInv'
<1>1. PICK old : old = tab[t]
  OBVIOUS
<1>2. TabOk(old, row) /\ old \in TabStates /\ RowOk(row) /\ failed \subseteq Tabs /\ 1 \in Slots
  BY <1>1, SizeAssumption DEF ShapeInv, TabOk, Slots
<1>3. row' = row /\ failed' = failed
  BY DEF Open, Leave
<1>4. CASE Leave(t)
  <2>1. PICK v : v = [old EXCEPT !.phase = "left"]
    OBVIOUS
  <2>2. tab' = [tab EXCEPT ![t] = v] /\ UNCHANGED <<row, call>>
    BY <1>1, <1>4, <2>1 DEF Leave, ShapeInv
  <2>3. TabOk(v, row)
    BY <1>2, <2>1 DEF TabOk, TabStates
  <2> QED  BY <1>2, <1>3, <2>2, <2>3, ShapeFrameTab
<1>5. CASE Open(t) /\ UNCHANGED call
  <2>1. PICK v : v = Showing(old, InitializeSequence)
    OBVIOUS
  <2>2. \/ tab' = [tab EXCEPT ![t] = v]
        \/ SetCall(t, 1, [Idle EXCEPT !.at = "load"]) /\ tab' = [tab EXCEPT ![t] = [old EXCEPT !.phase = "loading"]]
    BY <1>1, <1>5, <2>1 DEF Open, ShapeInv
  <2>3. TabOk(v, row)
    BY <1>2, <2>1, InitialGood, ShowingOk DEF TabOk
  <2>4. CASE tab' = [tab EXCEPT ![t] = v]
    BY <1>2, <1>3, <1>5, <2>3, <2>4, ShapeFrameTab
  <2>5. CASE tab' = [tab EXCEPT ![t] = [old EXCEPT !.phase = "loading"]]
    <3>1. PICK w : w = [old EXCEPT !.phase = "loading"]
      OBVIOUS
    <3>2. TabOk(w, row)
      <4>1. Open(t) => old.phase = "new"
        BY <1>1 DEF Open
      <4> QED  BY <1>2, <1>5, <3>1, <4>1 DEF TabOk, TabStates
    <3> QED  BY <1>2, <1>3, <1>5, <2>5, <3>1, <3>2, ShapeFrameTab
  <2> QED  BY <2>2, <2>4, <2>5
<1>6. CASE /\ Open(t) /\ tab' = [tab EXCEPT ![t] = [old EXCEPT !.phase = "loading"]]
           /\ SetCall(t, 1, [Idle EXCEPT !.at = "load"])
  <2>1. PICK w : w = [old EXCEPT !.phase = "loading"]
    OBVIOUS
  <2>2. old.phase = "new"
    BY <1>1, <1>6 DEF Open
  <2>3. TabOk(w, row)
    BY <1>2, <2>1, <2>2 DEF TabOk, TabStates
  <2>4. PICK c : c = [Idle EXCEPT !.at = "load"]
    OBVIOUS
  <2>5. CallOk(c, row)
    BY <2>4 DEF CallOk, CallStates, Idle
  <2>6. tab' = [tab EXCEPT ![t] = w] /\ call' = [call EXCEPT ![t] = [@ EXCEPT ![1] = c]]
    BY <1>6, <2>1, <2>4 DEF SetCall
  <2> QED  BY <1>2, <1>3, <2>3, <2>5, <2>6, ShapeFrame
<1> QED  BY <1>1, <1>4, <1>5, <1>6 DEF Open, ShapeInv

LEMMA CallFailsShape ==
    ASSUME ShapeInv, NEW t \in Tabs, NEW i \in Slots, CallFails(t, i)
    PROVE  ShapeInv'
<1>1. PICK old : old = tab[t]
  OBVIOUS
<1>2. TabOk(old, row) /\ old \in TabStates /\ RowOk(row) /\ failed \subseteq Tabs
  BY <1>1 DEF ShapeInv, TabOk
<1>3. PICK v : v = IF old.phase = "loading" THEN Showing(old, InitializeSequence) ELSE old
  OBVIOUS
<1>4. /\ tab' = [tab EXCEPT ![t] = v] /\ row' = row /\ failed' = failed \union {t}
      /\ call' = [call EXCEPT ![t] = [@ EXCEPT ![i] = Idle]]
  BY <1>1, <1>3 DEF CallFails, SetCall, ShapeInv
<1>5. TabOk(v, row)
  <2>1. TabOk(Showing(old, InitializeSequence), row)
    BY <1>2, InitialGood, ShowingOk DEF TabOk
  <2> QED  BY <1>2, <1>3, <2>1
<1>6. CallOk(Idle, row)
  BY IdleOk
<1> QED  BY <1>2, <1>4, <1>5, <1>6, ShapeFrame

LEMMA ShapeNext == ShapeInv /\ [Next]_vars => ShapeInv'
<1> SUFFICES ASSUME ShapeInv, [Next]_vars PROVE ShapeInv'
  OBVIOUS
<1>1. CASE UNCHANGED vars
  BY <1>1 DEF vars, ShapeInv
<1>2. CASE Next
  <2>1. PICK t \in Tabs :
            \/ Open(t) \/ HandleContinue(t) \/ HandleRequestHint(t) \/ Leave(t)
            \/ \E correct \in BOOLEAN : HandleEvaluated(t, correct)
            \/ \E i \in Slots : Serve(t, i) \/ Receive(t, i) \/ CallFails(t, i)
    BY <1>2 DEF Next
  <2>2. TRUE \in BOOLEAN
    OBVIOUS
  <2>3. CASE Open(t) \/ Leave(t)
    BY <2>3, OpenShape
  <2>4. CASE HandleContinue(t) \/ HandleRequestHint(t) \/ \E correct \in BOOLEAN : HandleEvaluated(t, correct)
    BY <2>2, <2>4, HandlersShape
  <2>5. CASE \E i \in Slots : Serve(t, i)
    BY <2>5, ServeShape
  <2>6. CASE \E i \in Slots : Receive(t, i)
    BY <2>6, BootstrapShape, PersistShape DEF Receive
  <2>7. CASE \E i \in Slots : CallFails(t, i)
    BY <2>7, CallFailsShape
  <2> QED  BY <2>1, <2>3, <2>4, <2>5, <2>6, <2>7
<1> QED  BY <1>1, <1>2

THEOREM ShapeInvariance == Spec => []ShapeInv
  BY ShapeInit, ShapeNext, PTL DEF Spec

\* Whatever is clicked, lost, left or reloaded, with any number of saves under
\* way, every state that a page shows, sends or has stored is one that the
\* rules of the orchestrator allow.
THEOREM SequenceShapeHolds == Spec => [](TypeOK /\ SequenceShape)
  BY ShapeInvariance, ShapeImplies, PTL

-----------------------------------------------------------------------------
(* What a version stands for, when a page waits for each save: MaxInFlight  *)
(* = 1.  (With two saves under way, a reload answered between them can put  *)
(* an old state under the version of the second.)                           *)

\* A page, its one call and the row: no version is above the stored one, and
\* whoever has the stored version has the stored state or one that follows it.
VersionOk(v, c, r) ==
    /\ v.phase = "new" => c = Idle
    /\ v.durable => v.version <= r.version
    /\ v.phase = "open" /\ v.durable /\ v.version = r.version => Ahead(v.state, r.state)
    /\ c.at = "put" => c.version <= r.version /\ (c.version = r.version => Ahead(c.state, r.state))
    /\ c.at \in {"created", "saved", "reloaded"} \/ (c.at = "loaded" /\ c.state # Null) =>
           c.version <= r.version /\ (c.version = r.version => c.state = r.state)
    /\ c.at \in {"put", "saved"} /\ v.phase = "open" => Ahead(v.state, c.state)

VersionInv ==
    /\ ShapeInv
    /\ \A t \in Tabs : VersionOk(tab[t], call[t][1], row)

LEMMA VersionImplies == VersionInv => SessionsAreSound
<1> SUFFICES ASSUME VersionInv PROVE SessionsAreSound
  OBVIOUS
<1>1. TypeOK /\ SequenceShape
  BY ShapeImplies DEF VersionInv
<1>2. VersionMeansBase
  BY DEF VersionInv, VersionOk, VersionMeansBase
<1> QED  BY <1>1, <1>2 DEF SessionsAreSound

LEMMA VersionInit == Init => VersionInv
<1> SUFFICES ASSUME Init PROVE VersionInv
  OBVIOUS
<1>1. 1 \in Slots
  BY SizeAssumption DEF Slots
<1>2. ASSUME NEW t \in Tabs PROVE VersionOk(tab[t], call[t][1], row)
  BY <1>1 DEF Init, VersionOk, Idle
<1> QED  BY <1>2, ShapeInit DEF VersionInv

\* One page and its call change, and the row stays.
LEMMA VersionFrame ==
    ASSUME VersionInv, NEW t \in Tabs, NEW v, NEW c, row' = row,
           tab' = [tab EXCEPT ![t] = v], call'[t][1] = c, \A u \in Tabs \ {t} : call'[u] = call[u],
           VersionOk(v, c, row)
    PROVE  \A u \in Tabs : VersionOk(tab'[u], call'[u][1], row')
<1>1. ASSUME NEW u \in Tabs, u = t PROVE VersionOk(tab'[u], call'[u][1], row')
  <2>1. tab'[u] = v
    BY <1>1 DEF VersionInv, ShapeInv
  <2> QED  BY <1>1, <2>1
<1>2. ASSUME NEW u \in Tabs, u # t PROVE VersionOk(tab'[u], call'[u][1], row')
  <2>1. tab'[u] = tab[u] /\ call'[u] = call[u] /\ VersionOk(tab[u], call[u][1], row)
    BY <1>2 DEF VersionInv, ShapeInv
  <2> QED  BY <2>1
<1> QED  BY <1>1, <1>2

\* A new row above the old one leaves nobody at the stored version.
LEMMA VersionNewer ==
    ASSUME NEW v, NEW c, NEW r, NEW s, VersionOk(v, c, r), TabOk(v, r), CallOk(c, r),
           r # Null => r.version \in Nat /\ s.version = r.version + 1
    PROVE  VersionOk(v, c, s)
<1>1. v.version \in Nat /\ c.version \in Nat
  BY DEF TabOk, TabStates, CallOk, CallStates
<1>2. v.durable => r # Null /\ v.version < s.version
  BY <1>1 DEF VersionOk, TabOk
<1>3. c.at \in {"put", "created", "saved", "reloaded"} \/ (c.at = "loaded" /\ c.state # Null)
        => r # Null /\ c.version < s.version
  BY <1>1 DEF VersionOk, CallOk
<1>4. (v.durable => s.version \in Nat) /\ (c.at \in {"put", "created", "saved", "reloaded"} \/ (c.at = "loaded" /\ c.state # Null) => s.version \in Nat)
  BY <1>2, <1>3
<1> QED  BY <1>1, <1>2, <1>3, <1>4 DEF VersionOk

LEMMA OneCall ==
    ASSUME ShapeInv, NEW t \in Tabs, NEW c, SetCall(t, 1, c)
    PROVE  call'[t][1] = c /\ \A u \in Tabs \ {t} : call'[u] = call[u]
<1>1. 1 \in Slots
  BY SizeAssumption DEF Slots
<1> QED  BY <1>1 DEF SetCall, ShapeInv

LEMMA OneSlot == ASSUME MaxInFlight = 1, NEW i \in Slots PROVE i = 1
  BY DEF Slots

\* What the invariant says of one page, with the types it needs.
LEMMA PageFacts ==
    ASSUME VersionInv, NEW t \in Tabs, NEW v, v = tab[t], NEW c, c = call[t][1]
    PROVE  /\ VersionOk(v, c, row) /\ TabOk(v, row) /\ CallOk(c, row)
           /\ v \in TabStates /\ c \in CallStates /\ v.version \in Nat /\ c.version \in Nat
           /\ row # Null => row.version \in Nat /\ Good(row.state)
           /\ v.state # Null => Good(v.state)
           /\ c.state # Null => Good(c.state)
<1>1. 1 \in Slots /\ ShapeInv
  BY SizeAssumption DEF Slots, VersionInv
<1>2. VersionOk(v, c, row)
  BY DEF VersionInv
<1>3. TabOk(v, row) /\ CallOk(c, row)
  BY <1>1 DEF ShapeInv
<1>4. v \in TabStates /\ c \in CallStates /\ v.version \in Nat /\ c.version \in Nat
  BY <1>3 DEF TabOk, CallOk, TabStates, CallStates
<1>5. /\ row # Null => row \in Rows /\ Good(row.state)
      /\ v.state # Null => Good(v.state)
      /\ c.state # Null => Good(c.state)
  BY <1>1, ShapeGood
<1> QED  BY <1>2, <1>3, <1>4, <1>5 DEF Rows

LEMMA MutateVersion ==
    ASSUME MaxInFlight = 1, VersionInv, NEW t \in Tabs, tab[t].phase = "open", Good(tab[t].state),
           NEW st, Good(st), Ahead(st, tab[t].state), Mutate(t, st)
    PROVE  \A u \in Tabs : VersionOk(tab'[u], call'[u][1], row')
<1>1. PICK old : old = tab[t]
  OBVIOUS
<1>2. PICK c : c = call[t][1]
  OBVIOUS
<1>3. /\ VersionOk(old, c, row) /\ TabOk(old, row) /\ CallOk(c, row)
      /\ old \in TabStates /\ old.version \in Nat
      /\ row # Null => row.version \in Nat /\ Good(row.state)
      /\ c.state # Null => Good(c.state)
  BY <1>1, <1>2, PageFacts
<1>4. PICK v : v = Showing(old, st)
  OBVIOUS
<1>5. ShapeInv /\ tab' = [tab EXCEPT ![t] = v] /\ row' = row
  BY <1>1, <1>4 DEF Mutate, ShapeInv, VersionInv
<1>6. v.phase = "open" /\ v.state = st /\ v.durable = old.durable /\ v.version = old.version
  BY <1>3, <1>4, ShowingOk DEF TabOk
<1>7. old.durable /\ old.version = row.version => Ahead(st, row.state)
  <2>1. old.durable /\ old.version = row.version => row # Null /\ Ahead(old.state, row.state)
    BY <1>1, <1>3 DEF VersionOk, TabOk
  <2> QED  BY <1>1, <1>3, <2>1, AheadTransitive
<1>8. c.at \in {"put", "saved"} => Ahead(st, c.state)
  <2>1. c.at \in {"put", "saved"} => c.state # Null /\ Ahead(old.state, c.state)
    BY <1>1, <1>3 DEF VersionOk, CallOk
  <2> QED  BY <1>1, <1>3, <2>1, AheadTransitive
<1>9. CASE /\ tab[t].durable
           /\ \E i \in Slots : /\ call[t][i] = Idle
                               /\ SetCall(t, i, [at |-> "put", state |-> st, version |-> tab[t].version])
  <2>1. PICK d : d = [at |-> "put", state |-> st, version |-> old.version]
    OBVIOUS
  <2>2. SetCall(t, 1, d) /\ old.durable
    BY <1>1, <1>9, <2>1, OneSlot
  <2>3. call'[t][1] = d /\ \A u \in Tabs \ {t} : call'[u] = call[u]
    BY <1>5, <2>2, OneCall
  <2>4. VersionOk(v, d, row)
    <3>1. d.at = "put" /\ d.state = st /\ d.version = old.version
      BY <2>1
    <3>2. Ahead(st, st)
      BY AheadReflexive
    <3>3. old.version <= row.version
      BY <1>3, <2>2 DEF VersionOk
    <3> QED  BY <1>6, <1>7, <2>2, <3>1, <3>2, <3>3 DEF VersionOk
  <2> QED  BY <1>5, <2>3, <2>4, VersionFrame
<1>10. CASE UNCHANGED call
  <2>1. VersionOk(v, c, row)
    BY <1>1, <1>3, <1>6, <1>7, <1>8 DEF VersionOk
  <2>2. call'[t][1] = c /\ \A u \in Tabs \ {t} : call'[u] = call[u]
    BY <1>2, <1>10
  <2> QED  BY <1>5, <2>1, <2>2, VersionFrame
<1> QED  BY <1>9, <1>10 DEF Mutate, Persist

LEMMA BootstrapVersion ==
    ASSUME MaxInFlight = 1, VersionInv, NEW t \in Tabs, NEW i \in Slots,
           BootstrapLoaded(t, i) \/ BootstrapCreated(t, i)
    PROVE  \A u \in Tabs : VersionOk(tab'[u], call'[u][1], row')
<1>0. i = 1 /\ ShapeInv
  BY OneSlot DEF VersionInv
<1>1. PICK old : old = tab[t]
  OBVIOUS
<1>2. PICK c : c = call[t][1]
  OBVIOUS
<1>3. /\ VersionOk(old, c, row) /\ TabOk(old, row) /\ CallOk(c, row)
      /\ old \in TabStates /\ c.version \in Nat
      /\ row # Null => row.version \in Nat /\ Good(row.state)
      /\ c.state # Null => Good(c.state)
  BY <1>1, <1>2, PageFacts
<1>4. row' = row /\ old.phase = "loading" /\ ~old.durable
  BY <1>1, <1>3 DEF BootstrapLoaded, BootstrapCreated, TabOk
\* The page adopts a state of the row.
<1>5. ASSUME NEW v, v = Showing([old EXCEPT !.durable = TRUE, !.version = c.version], c.state),
             (c.at = "loaded" /\ c.state # Null) \/ c.at = "created",
             tab' = [tab EXCEPT ![t] = v], SetCall(t, 1, Idle)
      PROVE  \A u \in Tabs : VersionOk(tab'[u], call'[u][1], row')
  <2>1. [old EXCEPT !.durable = TRUE, !.version = c.version] \in TabStates
    BY <1>3 DEF TabStates
  <2>2. Good(c.state) /\ row # Null
    BY <1>3, <1>5 DEF CallOk
  <2>3. v.phase = "open" /\ v.state = c.state /\ v.version = c.version
    <3>1. PICK w : w = [old EXCEPT !.durable = TRUE, !.version = c.version]
      OBVIOUS
    <3>2. w \in TabStates /\ w.version = c.version
      BY <1>3, <2>1, <3>1 DEF TabStates
    <3>3. v = Showing(w, c.state)
      BY <1>5, <3>1
    <3> QED  BY <2>2, <3>2, <3>3, ShowingOk
  <2>4. c.version <= row.version /\ (c.version = row.version => c.state = row.state)
    BY <1>3, <1>5 DEF VersionOk
  <2>5. VersionOk(v, Idle, row)
    <3>1. Ahead(c.state, c.state)
      BY <2>2, AheadReflexive
    <3> QED  BY <2>3, <2>4, <3>1 DEF VersionOk, Idle
  <2>6. call'[t][1] = Idle /\ \A u \in Tabs \ {t} : call'[u] = call[u]
    BY <1>0, <1>5, OneCall
  <2> QED  BY <1>4, <1>5, <2>5, <2>6, VersionFrame
<1>6. ASSUME BootstrapLoaded(t, i), c.state # Null
      PROVE  \A u \in Tabs : VersionOk(tab'[u], call'[u][1], row')
  <2>1. PICK v : v = Showing([old EXCEPT !.durable = TRUE, !.version = c.version], c.state)
    OBVIOUS
  <2>2. tab' = [tab EXCEPT ![t] = v] /\ SetCall(t, 1, Idle) /\ c.at = "loaded"
    BY <1>0, <1>1, <1>2, <1>6, <2>1 DEF BootstrapLoaded, ShapeInv
  <2> QED  BY <1>5, <1>6, <2>1, <2>2
<1>7. ASSUME BootstrapLoaded(t, i), c.state = Null
      PROVE  \A u \in Tabs : VersionOk(tab'[u], call'[u][1], row')
  <2>1. PICK d : d = [at |-> "create", state |-> InitializeSequence, version |-> 0]
    OBVIOUS
  <2>2. tab' = tab /\ SetCall(t, 1, d)
    BY <1>0, <1>2, <1>7, <2>1 DEF BootstrapLoaded
  <2>3. call'[t][1] = d /\ \A u \in Tabs \ {t} : call'[u] = call[u]
    BY <1>0, <2>2, OneCall
  <2>4. VersionOk(old, d, row)
    BY <1>4, <2>1 DEF VersionOk
  <2>5. tab' = [tab EXCEPT ![t] = old]
    BY <1>0, <1>1, <2>2 DEF ShapeInv
  <2> QED  BY <1>4, <2>3, <2>4, <2>5, VersionFrame
<1>8. ASSUME BootstrapCreated(t, i), c.at = "created"
      PROVE  \A u \in Tabs : VersionOk(tab'[u], call'[u][1], row')
  <2>1. PICK v : v = Showing([old EXCEPT !.durable = TRUE, !.version = c.version], c.state)
    OBVIOUS
  <2>2. tab' = [tab EXCEPT ![t] = v] /\ SetCall(t, 1, Idle)
    BY <1>0, <1>1, <1>2, <1>8, <2>1 DEF BootstrapCreated, ShapeInv
  <2> QED  BY <1>5, <1>8, <2>1, <2>2
<1>9. ASSUME BootstrapCreated(t, i), c.at # "created"
      PROVE  \A u \in Tabs : VersionOk(tab'[u], call'[u][1], row')
  <2>1. PICK v : v = Showing(old, InitializeSequence)
    OBVIOUS
  <2>2. tab' = [tab EXCEPT ![t] = v] /\ SetCall(t, 1, Idle)
    BY <1>0, <1>1, <1>2, <1>9, <2>1 DEF BootstrapCreated, ShapeInv
  <2>3. call'[t][1] = Idle /\ \A u \in Tabs \ {t} : call'[u] = call[u]
    BY <1>0, <2>2, OneCall
  <2>4. v.phase = "open" /\ ~v.durable
    BY <1>3, <1>4, <2>1, InitialGood, ShowingOk
  <2>5. VersionOk(v, Idle, row)
    BY <2>4 DEF VersionOk, Idle
  <2> QED  BY <1>4, <2>2, <2>3, <2>5, VersionFrame
<1> QED  BY <1>6, <1>7, <1>8, <1>9

LEMMA PersistVersion ==
    ASSUME MaxInFlight = 1, VersionInv, NEW t \in Tabs, NEW i \in Slots,
           PersistSaved(t, i) \/ PersistConflict(t, i) \/ PersistReloaded(t, i)
    PROVE  \A u \in Tabs : VersionOk(tab'[u], call'[u][1], row')
<1>0. i = 1 /\ ShapeInv
  BY OneSlot DEF VersionInv
<1>1. PICK old : old = tab[t]
  OBVIOUS
<1>2. PICK c : c = call[t][1]
  OBVIOUS
<1>3. /\ VersionOk(old, c, row) /\ TabOk(old, row) /\ CallOk(c, row)
      /\ old \in TabStates /\ c.version \in Nat
      /\ row # Null => row.version \in Nat /\ Good(row.state)
      /\ c.state # Null => Good(c.state)
  BY <1>1, <1>2, PageFacts
<1>4. row' = row /\ old.phase = "open"
  BY <1>1 DEF PersistSaved, PersistConflict, PersistReloaded
<1>5. PICK w : w = [old EXCEPT !.version = c.version]
  OBVIOUS
<1>6. w \in TabStates /\ w.version = c.version /\ w.phase = "open" /\ w.state = old.state /\ w.durable = old.durable
  BY <1>3, <1>4, <1>5 DEF TabStates
<1>7. ASSUME PersistSaved(t, i)
      PROVE  \A u \in Tabs : VersionOk(tab'[u], call'[u][1], row')
  <2>1. tab' = [tab EXCEPT ![t] = w] /\ SetCall(t, 1, Idle) /\ c.at = "saved"
    BY <1>0, <1>1, <1>2, <1>5, <1>7 DEF PersistSaved, ShapeInv
  <2>2. call'[t][1] = Idle /\ \A u \in Tabs \ {t} : call'[u] = call[u]
    BY <1>0, <2>1, OneCall
  <2>3. c.version <= row.version /\ (c.version = row.version => c.state = row.state) /\ Ahead(old.state, c.state)
    BY <1>3, <1>4, <2>1 DEF VersionOk
  <2>4. VersionOk(w, Idle, row)
    BY <1>6, <2>3 DEF VersionOk, Idle
  <2> QED  BY <1>4, <2>1, <2>2, <2>4, VersionFrame
<1>8. ASSUME PersistConflict(t, i)
      PROVE  \A u \in Tabs : VersionOk(tab'[u], call'[u][1], row')
  <2>1. PICK d : d = [Idle EXCEPT !.at = "reload"]
    OBVIOUS
  <2>2. tab' = tab /\ SetCall(t, 1, d)
    BY <1>0, <1>8, <2>1 DEF PersistConflict
  <2>3. call'[t][1] = d /\ \A u \in Tabs \ {t} : call'[u] = call[u]
    BY <1>0, <2>2, OneCall
  <2>4. VersionOk(old, d, row)
    BY <1>3, <1>4, <2>1 DEF VersionOk, Idle
  <2>5. tab' = [tab EXCEPT ![t] = old]
    BY <1>0, <1>1, <2>2 DEF ShapeInv
  <2> QED  BY <1>4, <2>3, <2>4, <2>5, VersionFrame
<1>9. ASSUME PersistReloaded(t, i)
      PROVE  \A u \in Tabs : VersionOk(tab'[u], call'[u][1], row')
  <2>1. PICK v : v = Showing(w, c.state)
    OBVIOUS
  <2>2. tab' = [tab EXCEPT ![t] = v] /\ SetCall(t, 1, Idle) /\ c.at = "reloaded"
    BY <1>0, <1>1, <1>2, <1>5, <1>9, <2>1 DEF PersistReloaded, ShapeInv
  <2>3. call'[t][1] = Idle /\ \A u \in Tabs \ {t} : call'[u] = call[u]
    BY <1>0, <2>2, OneCall
  <2>4. Good(c.state) /\ row # Null /\ c.version <= row.version /\ (c.version = row.version => c.state = row.state)
    BY <1>3, <2>2 DEF VersionOk, CallOk
  <2>5. v.phase = "open" /\ v.state = c.state /\ v.version = c.version
    BY <1>6, <2>1, <2>4, ShowingOk
  <2>6. Ahead(c.state, c.state)
    BY <2>4, AheadReflexive
  <2>7. VersionOk(v, Idle, row)
    BY <2>4, <2>5, <2>6 DEF VersionOk, Idle
  <2> QED  BY <1>4, <2>2, <2>3, <2>7, VersionFrame
<1> QED  BY <1>7, <1>8, <1>9

LEMMA PageVersion ==
    ASSUME MaxInFlight = 1, VersionInv, NEW t \in Tabs, NEW i \in Slots,
           Open(t) \/ Leave(t) \/ CallFails(t, i)
    PROVE  \A u \in Tabs : VersionOk(tab'[u], call'[u][1], row')
<1>0. i = 1 /\ ShapeInv
  BY OneSlot DEF VersionInv
<1>1. PICK old : old = tab[t]
  OBVIOUS
<1>2. PICK c : c = call[t][1]
  OBVIOUS
<1>3. VersionOk(old, c, row) /\ TabOk(old, row) /\ CallOk(c, row) /\ old \in TabStates
  BY <1>1, <1>2, PageFacts
<1>4. row' = row
  BY DEF Open, Leave, CallFails
<1>5. PICK s : s = Showing(old, InitializeSequence)
  OBVIOUS
<1>6. s.phase = "open" /\ s.durable = old.durable
  BY <1>3, <1>5, InitialGood, ShowingOk DEF TabOk
<1>7. PICK w : w = [old EXCEPT !.phase = "loading"]
  OBVIOUS
<1>8. PICK l : l = [old EXCEPT !.phase = "left"]
  OBVIOUS
<1>9. PICK d : d = [Idle EXCEPT !.at = "load"]
  OBVIOUS
<1>10. ASSUME Leave(t) PROVE \A u \in Tabs : VersionOk(tab'[u], call'[u][1], row')
  <2>1. tab' = [tab EXCEPT ![t] = l] /\ call' = call
    BY <1>1, <1>8, <1>10 DEF Leave, ShapeInv
  <2>2. l.phase = "left" /\ l.durable = old.durable /\ l.version = old.version
    BY <1>3, <1>8 DEF TabStates
  <2>3. VersionOk(l, c, row)
    BY <1>3, <2>2 DEF VersionOk
  <2> QED  BY <1>2, <1>4, <2>1, <2>3, VersionFrame
<1>11. ASSUME Open(t), tab' = [tab EXCEPT ![t] = w], SetCall(t, 1, d)
       PROVE  \A u \in Tabs : VersionOk(tab'[u], call'[u][1], row')
  <2>1. old.phase = "new" /\ ~old.durable
    BY <1>1, <1>3, <1>11 DEF Open, TabOk
  <2>2. w.phase = "loading" /\ ~w.durable
    BY <1>3, <1>7, <2>1 DEF TabStates
  <2>3. VersionOk(w, d, row)
    BY <1>9, <2>2 DEF VersionOk, Idle
  <2>4. call'[t][1] = d /\ \A u \in Tabs \ {t} : call'[u] = call[u]
    BY <1>0, <1>11, OneCall
  <2> QED  BY <1>4, <1>11, <2>3, <2>4, VersionFrame
<1>12. ASSUME Open(t), tab' = [tab EXCEPT ![t] = s], call' = call
       PROVE  \A u \in Tabs : VersionOk(tab'[u], call'[u][1], row')
  <2>1. old.phase = "new" /\ ~old.durable /\ c = Idle
    BY <1>1, <1>3, <1>12 DEF Open, TabOk, VersionOk
  <2>2. VersionOk(s, c, row)
    BY <1>6, <2>1 DEF VersionOk, Idle
  <2> QED  BY <1>2, <1>4, <1>12, <2>2, VersionFrame
<1>13. ASSUME CallFails(t, i)
       PROVE  \A u \in Tabs : VersionOk(tab'[u], call'[u][1], row')
  <2>1. PICK v : v = IF old.phase = "loading" THEN s ELSE old
    OBVIOUS
  <2>2. tab' = [tab EXCEPT ![t] = v] /\ SetCall(t, 1, Idle)
    BY <1>0, <1>1, <1>5, <1>13, <2>1 DEF CallFails, ShapeInv
  <2>3. call'[t][1] = Idle /\ \A u \in Tabs \ {t} : call'[u] = call[u]
    BY <1>0, <2>2, OneCall
  <2>4. VersionOk(v, Idle, row)
    BY <1>3, <1>6, <2>1 DEF VersionOk, TabOk, Idle
  <2> QED  BY <1>4, <2>2, <2>3, <2>4, VersionFrame
<1>14. Open(t) => \/ tab' = [tab EXCEPT ![t] = w] /\ SetCall(t, 1, d)
                  \/ tab' = [tab EXCEPT ![t] = s] /\ call' = call
  BY <1>0, <1>1, <1>5, <1>7, <1>9 DEF Open, ShapeInv
<1> QED  BY <1>10, <1>11, <1>12, <1>13, <1>14

\* A row that is made or overwritten has a version that no page knows yet; it
\* carries on from the row that it replaces.
LEMMA WriteVersion ==
    ASSUME VersionInv, NEW t \in Tabs, NEW c, c = call[t][1], NEW d, NEW n,
           c.state # Null, row # Null => c.version = row.version /\ c.at = "put" /\ n = row.version + 1,
           row' = [state |-> c.state, version |-> n], n \in Nat,
           tab' = tab, SetCall(t, 1, d), d.version = n, d.state = c.state,
           d.at \in {"created", "saved"},
           c.at \in {"create", "put"}, d.at = "saved" <=> c.at = "put"
    PROVE  /\ \A u \in Tabs : VersionOk(tab'[u], call'[u][1], row')
           /\ row # Null => Ahead(row'.state, row.state)
<1>0. ShapeInv /\ row'.version = n /\ row'.state = c.state
  BY DEF VersionInv
<1>1. call'[t][1] = d /\ \A u \in Tabs \ {t} : call'[u] = call[u]
  BY <1>0, OneCall
<1>2. ASSUME NEW u \in Tabs PROVE VersionOk(tab[u], call[u][1], row')
  <2>1. PICK v : v = tab[u]
    OBVIOUS
  <2>2. PICK e : e = call[u][1]
    OBVIOUS
  <2>3. /\ VersionOk(v, e, row) /\ TabOk(v, row) /\ CallOk(e, row)
        /\ row # Null => row.version \in Nat
    BY <2>1, <2>2, PageFacts
  <2>4. PICK s : s = [state |-> c.state, version |-> n]
    OBVIOUS
  <2>5. row # Null => row.version \in Nat /\ s.version = row.version + 1
    BY <2>3, <2>4
  <2>6. VersionOk(v, e, s)
    BY <2>3, <2>5, VersionNewer
  <2> QED  BY <2>1, <2>2, <2>4, <2>6
<1>3. ASSUME NEW u \in Tabs, u # t PROVE VersionOk(tab'[u], call'[u][1], row')
  BY <1>1, <1>2, <1>3
<1>4. VersionOk(tab'[t], call'[t][1], row')
  <2>1. PICK v : v = tab[t]
    OBVIOUS
  <2>2. VersionOk(v, c, row')
    BY <1>2, <2>1
  <2>3. PICK s : s = [state |-> c.state, version |-> n]
    OBVIOUS
  <2>4. VersionOk(v, c, s)
    BY <2>2, <2>3
  <2>5. v.phase # "new"
    BY <2>1, <1>0 DEF VersionInv, VersionOk, Idle
  <2>6. d.at = "saved" /\ v.phase = "open" => Ahead(v.state, d.state)
    BY <2>4 DEF VersionOk
  <2>7. s.version = n /\ s.state = c.state
    BY <2>3
  <2>8. VersionOk(v, d, s)
    BY <2>4, <2>5, <2>6, <2>7 DEF VersionOk
  <2> QED  BY <1>1, <2>1, <2>3, <2>8
<1>5. row # Null => Ahead(c.state, row.state)
  BY DEF VersionInv, VersionOk
<1> QED  BY <1>0, <1>3, <1>4, <1>5

LEMMA ServeVersion ==
    ASSUME MaxInFlight = 1, VersionInv, NEW t \in Tabs, NEW i \in Slots, Serve(t, i)
    PROVE  /\ \A u \in Tabs : VersionOk(tab'[u], call'[u][1], row')
           /\ row # Null => row' = row \/ Ahead(row'.state, row.state)
<1>0. i = 1 /\ ShapeInv
  BY OneSlot DEF VersionInv
<1>1. PICK old : old = tab[t]
  OBVIOUS
<1>2. PICK c : c = call[t][1]
  OBVIOUS
<1>3. /\ VersionOk(old, c, row) /\ TabOk(old, row) /\ CallOk(c, row)
      /\ old \in TabStates /\ c \in CallStates /\ c.version \in Nat
      /\ row # Null => row.version \in Nat /\ Good(row.state)
      /\ c.state # Null => Good(c.state)
  BY <1>1, <1>2, PageFacts
<1>4. tab' = tab /\ tab' = [tab EXCEPT ![t] = old]
  BY <1>0, <1>1 DEF Serve, ServeGet, ServePost, ServePut, ShapeInv
\* An answer that carries no row.
<1>5. ASSUME NEW d, SetCall(t, 1, d), row' = row, d.at \in {"loaded", "refused", "conflict"}, d.state = Null,
             c # Idle
      PROVE  \A u \in Tabs : VersionOk(tab'[u], call'[u][1], row')
  <2>1. VersionOk(old, d, row)
    BY <1>3, <1>5 DEF VersionOk
  <2>2. call'[t][1] = d /\ \A u \in Tabs \ {t} : call'[u] = call[u]
    BY <1>0, <1>5, OneCall
  <2> QED  BY <1>4, <1>5, <2>1, <2>2, VersionFrame
<1>6. ASSUME ServeGet(t, i)
      PROVE  row' = row /\ \A u \in Tabs : VersionOk(tab'[u], call'[u][1], row')
  <2>1. PICK d : d = [at      |-> IF c.at = "load" THEN "loaded" ELSE "reloaded",
                      state   |-> FindByAttempt.state, version |-> FindByAttempt.version]
    OBVIOUS
  <2>2. c.at \in {"load", "reload"} /\ row' = row /\ SetCall(t, 1, d) /\ c # Idle
    BY <1>0, <1>2, <1>6, <2>1 DEF ServeGet, Idle
  <2>3. CASE row = Null
    <3>1. c.at = "load"
      BY <1>3, <2>2, <2>3 DEF CallOk
    <3>2. d.at = "loaded" /\ d.state = Null
      BY <2>1, <2>3, <3>1 DEF FindByAttempt
    <3> QED  BY <1>5, <2>2, <3>2
  <2>4. CASE row # Null
    <3>1. d.at \in {"loaded", "reloaded"} /\ d.state = row.state /\ d.version = row.version
      BY <2>1, <2>4 DEF FindByAttempt
    <3>2. VersionOk(old, d, row)
      BY <1>3, <2>2, <2>4, <3>1 DEF VersionOk
    <3>3. call'[t][1] = d /\ \A u \in Tabs \ {t} : call'[u] = call[u]
      BY <1>0, <2>2, OneCall
    <3> QED  BY <1>4, <2>2, <3>2, <3>3, VersionFrame
  <2> QED  BY <2>3, <2>4
<1>7. ASSUME ServePost(t, i)
      PROVE  /\ \A u \in Tabs : VersionOk(tab'[u], call'[u][1], row')
             /\ row # Null => row' = row
  <2>1. c.at = "create" /\ c.state # Null /\ c # Idle
    BY <1>0, <1>2, <1>3, <1>7 DEF ServePost, CallOk, Idle
  <2>2. CASE Create(c.state) /\ SetCall(t, 1, [c EXCEPT !.at = "created", !.version = 1])
    <3>1. PICK d : d = [c EXCEPT !.at = "created", !.version = 1]
      OBVIOUS
    <3>2. SetCall(t, 1, d) /\ row = Null /\ row' = [state |-> c.state, version |-> 1]
      BY <2>2, <3>1 DEF Create
    <3>3. d.version = 1 /\ d.state = c.state /\ d.at = "created"
      BY <1>3, <3>1 DEF CallStates
    <3>4. \A u \in Tabs : VersionOk(tab'[u], call'[u][1], row')
      BY <1>2, <1>4, <2>1, <3>2, <3>3, WriteVersion
    <3> QED  BY <3>2, <3>4
  <2>3. CASE row # Null /\ SetCall(t, 1, [Idle EXCEPT !.at = "refused"]) /\ UNCHANGED row
    <3>1. PICK d : d = [Idle EXCEPT !.at = "refused"]
      OBVIOUS
    <3>2. d.at = "refused" /\ d.state = Null
      BY <3>1 DEF Idle
    <3> QED  BY <1>5, <2>1, <2>3, <3>1, <3>2
  <2> QED  BY <1>0, <1>2, <1>7, <2>2, <2>3 DEF ServePost
<1>8. ASSUME ServePut(t, i)
      PROVE  /\ \A u \in Tabs : VersionOk(tab'[u], call'[u][1], row')
             /\ row # Null => row' = row \/ Ahead(row'.state, row.state)
  <2>1. c.at = "put" /\ c.state # Null /\ c # Idle /\ row # Null
    BY <1>0, <1>2, <1>3, <1>8 DEF ServePut, CallOk, Idle
  <2>2. CASE Save(c.version, c.state) /\ SetCall(t, 1, [c EXCEPT !.at = "saved", !.version = row'.version])
    <3>1. PICK n : n = row.version + 1
      OBVIOUS
    <3>2. n \in Nat /\ row' = [state |-> c.state, version |-> n] /\ row'.version = n /\ c.version = row.version
      BY <1>3, <2>1, <2>2, <3>1 DEF Save
    <3>3. PICK d : d = [c EXCEPT !.at = "saved", !.version = n]
      OBVIOUS
    <3>4. d.version = n /\ d.state = c.state /\ d.at = "saved" /\ SetCall(t, 1, d)
      BY <1>3, <2>2, <3>2, <3>3 DEF CallStates
    <3> QED  BY <1>2, <1>4, <2>1, <3>1, <3>2, <3>4, WriteVersion
  <2>3. CASE SetCall(t, 1, [Idle EXCEPT !.at = "conflict"]) /\ UNCHANGED row
    <3>1. PICK d : d = [Idle EXCEPT !.at = "conflict"]
      OBVIOUS
    <3>2. d.at = "conflict" /\ d.state = Null
      BY <3>1 DEF Idle
    <3> QED  BY <1>5, <2>1, <2>3, <3>1, <3>2
  <2> QED  BY <1>0, <1>2, <1>8, <2>2, <2>3 DEF ServePut
<1> QED  BY <1>6, <1>7, <1>8 DEF Serve

LEMMA VersionNext ==
    ASSUME MaxInFlight = 1, VersionInv, [Next]_vars
    PROVE  VersionInv' /\ [row # Null => Ahead(row'.state, row.state)]_row
<1>1. ShapeInv'
  BY ShapeNext DEF VersionInv
<1>2. CASE UNCHANGED vars
  BY <1>1, <1>2 DEF vars, VersionInv
<1>3. CASE Next
  <2>1. PICK t \in Tabs :
            \/ Open(t) \/ HandleContinue(t) \/ HandleRequestHint(t) \/ Leave(t)
            \/ \E correct \in BOOLEAN : HandleEvaluated(t, correct)
            \/ \E i \in Slots : Serve(t, i) \/ Receive(t, i) \/ CallFails(t, i)
    BY <1>3 DEF Next
  <2>2. TRUE \in BOOLEAN /\ 1 \in Slots /\ ShapeInv
    BY SizeAssumption DEF Slots, VersionInv
  <2>3. CASE Open(t) \/ Leave(t)
    <3>1. row' = row
      BY <2>3 DEF Open, Leave
    <3> QED  BY <1>1, <2>2, <2>3, <3>1, PageVersion DEF VersionInv
  <2>4. CASE HandleContinue(t) \/ HandleRequestHint(t) \/ \E correct \in BOOLEAN : HandleEvaluated(t, correct)
    <3>1. /\ \E st : Good(st) /\ Ahead(st, tab[t].state) /\ Mutate(t, st)
          /\ tab[t].phase = "open" /\ Good(tab[t].state)
      BY <2>2, <2>4, HandlersShape
    <3>2. row' = row
      BY <3>1 DEF Mutate
    <3> QED  BY <1>1, <3>1, <3>2, MutateVersion DEF VersionInv
  <2>5. CASE \E i \in Slots : Serve(t, i)
    BY <1>1, <2>5, ServeVersion DEF VersionInv
  <2>6. CASE \E i \in Slots : Receive(t, i)
    <3>1. row' = row
      BY <2>6 DEF Receive, BootstrapLoaded, BootstrapCreated, PersistSaved, PersistConflict, PersistReloaded
    <3> QED  BY <1>1, <2>6, <3>1, BootstrapVersion, PersistVersion DEF Receive, VersionInv
  <2>7. CASE \E i \in Slots : CallFails(t, i)
    <3>1. row' = row
      BY <2>7 DEF CallFails
    <3> QED  BY <1>1, <2>7, <3>1, PageVersion DEF VersionInv
  <2> QED  BY <2>1, <2>3, <2>4, <2>5, <2>6, <2>7
<1> QED  BY <1>2, <1>3

\* While a page waits for each of its saves, a page at the stored version shows
\* the stored state or one that follows it, for any number of pages, stages,
\* failures and reloads.
THEOREM SessionsAreSoundHolds == ASSUME MaxInFlight = 1 PROVE Spec => []SessionsAreSound
<1>1. VersionInv /\ [Next]_vars => VersionInv'
  BY VersionNext
<1> QED  BY <1>1, VersionInit, VersionImplies, PTL DEF Spec

\* No save takes stored progress away.
THEOREM NoProgressLostHolds == ASSUME MaxInFlight = 1 PROVE Spec => NoProgressLost
<1>1. VersionInv /\ [Next]_vars => VersionInv' /\ [row # Null => Ahead(row'.state, row.state)]_row
  BY VersionNext
<1> QED  BY <1>1, VersionInit, PTL DEF Spec, NoProgressLost

-----------------------------------------------------------------------------
(* The external monitor: what the window of runs still tells               *)

\* The values of the run at hand.
RunRows ==
    [at : Steps \union {"none"}, age : 0 .. RunTicks, reachable : BOOLEAN,
     condition : Level1Conditions \union {None}, level2 : SUBSET Level2Conditions,
     marked : BOOLEAN, alertSent : BOOLEAN, inCooldown : BOOLEAN,
     startedAge : Ages \union {None}, lastCondition : Level1Conditions \union {None}]

MonitorTyped ==
    /\ target \in Targets /\ faults \in 0 .. MaxFaults
    /\ runs \in Seq(CompletedRun) /\ Len(runs) <= ScanLimit
    /\ run \in RunRows /\ started \in 0 .. RunsPerTick
    /\ reported \subseteq Reports /\ sinceAlert \in Ages /\ owed \in BOOLEAN
    /\ outage \in [runs : 0 .. ScanLimit + 1, age : Ages, condition : Level1Conditions \union {None}]

\* What a run has at each of its steps.
RunFollowsProbe ==
    /\ run.at = "none" => run = NoRun
    /\ run.at = "history" => (run.reachable <=> run.condition = None)
    /\ run.at \in {"detected", "alert"} => run.condition # None
    /\ run.marked => run.at = "alert"
    /\ ~run.alertSent

\* The runs that began since the last alert, the one at hand excepted, are newer in the
\* window than the run that sent it, and no more of them began than the schedule allows.
AlertAt(i) ==
    /\ i \in DOMAIN runs /\ runs[i].alertSent /\ runs[i].updated = sinceAlert
    /\ \A j \in 1 .. i - 1 : ~runs[j].alertSent
    /\ i + (IF run.at = "none" THEN 0 ELSE 1) <= 1 + sinceAlert * RunsPerTick + started

AlertInWindow ==
    /\ sinceAlert < Cooldown => \E i \in 1 .. ScanLimit : AlertAt(i)
    /\ run.at \in {"detected", "alert"} => run.inCooldown \/ sinceAlert >= Cooldown
    /\ run.at = "alert" => ~run.inCooldown

\* An outage recorded by the last run is still to be announced as recovered, unless the
\* run at hand has just done so.
RecoveryIsOwed ==
    /\ LastRunLevel1Active(runs) => owed \/ run.at \in {"backfill", "level2"}
    /\ run.at = "recovery" \/ run.marked => owed
    /\ recoveries = 0

\* The newest runs of the window are those of the present outage, as far as it reaches.
OutageInWindow ==
    /\ \A i \in DOMAIN runs : i <= outage.runs => runs[i].condition # None
    /\ outage.runs <= ScanLimit =>
          /\ outage.runs <= Len(runs)
          /\ outage.runs < Len(runs) => runs[outage.runs + 1].condition = None
          /\ outage.runs > 0 => /\ runs[outage.runs].created = outage.age
                                /\ runs[outage.runs].condition = outage.condition
    /\ run.at \in {"recovery", "backfill"} /\ outage.runs \in 1 .. ScanLimit =>
          run.startedAge = outage.age /\ run.lastCondition = outage.condition

MonitorInv == MonitorTyped /\ RunFollowsProbe /\ AlertInWindow /\ RecoveryIsOwed /\ OutageInWindow

LEMMA Sizes ==
    /\ ScanLimit \in Nat \ {0} /\ Cooldown \in Nat \ {0} /\ RunsPerTick \in Nat \ {0} /\ MaxAge \in Nat \ {0}
    /\ RunTicks \in Nat /\ MaxFaults \in Nat /\ RunTicks <= MaxAge /\ Cooldown <= MaxAge
    /\ None \notin Ages /\ None \notin Level1Conditions
<1>1. /\ ScanLimit \in Nat \ {0} /\ Cooldown \in Nat \ {0} /\ RunsPerTick \in Nat \ {0} /\ MaxAge \in Nat \ {0}
      /\ RunTicks \in Nat /\ MaxFaults \in Nat
  BY ScanAssumption
<1>2. MaxAge >= Cooldown + RunTicks /\ None \notin Nat /\ None \notin Level1Conditions
  BY ScanAssumption
<1> QED  BY <1>1, <1>2 DEF Ages

LEMMA OlderAge ==
    ASSUME NEW age \in Ages
    PROVE  Older(age) \in Ages /\ Older(age) = IF age = MaxAge THEN MaxAge ELSE age + 1
  BY Sizes DEF Older, Ages

\* What began in the ticks of a cooldown, and the run at hand, fit in the window.
LEMMA CooldownFits ==
    ASSUME NEW age \in Nat, age < Cooldown, NEW s \in 0 .. RunsPerTick, NEW i \in Nat,
           i <= 1 + age * RunsPerTick + s
    PROVE  i <= ScanLimit
<1>1. /\ RunsPerTick \in Nat \ {0} /\ Cooldown \in Nat \ {0} /\ ScanLimit \in Nat
      /\ ScanLimit >= (Cooldown + 1) * RunsPerTick
  BY ScanAssumption
<1>2. PICK d \in Nat : Cooldown = age + 1 + d
  <2>1. Cooldown - age - 1 \in Nat /\ Cooldown = age + 1 + (Cooldown - age - 1)
    BY <1>1
  <2> QED  BY <2>1
<1>3. (Cooldown + 1) * RunsPerTick = age * RunsPerTick + RunsPerTick + RunsPerTick + d * RunsPerTick
  BY <1>1, <1>2
<1>4. d * RunsPerTick \in Nat /\ age * RunsPerTick \in Nat
  BY <1>1, <1>2
<1>5. s \in Nat /\ s <= RunsPerTick /\ RunsPerTick >= 1
  BY <1>1
<1> HIDE <1>2
<1> QED  BY <1>1, <1>3, <1>4, <1>5

\* The API lists the newest run first and forgets those beyond the scan.
LEMMA WindowSlides ==
    ASSUME NEW x \in CompletedRun, runs \in Seq(CompletedRun), Len(runs) <= ScanLimit,
           NEW new, new = RecentRuns(<<x>> \o runs)
    PROVE  /\ new \in Seq(CompletedRun) /\ Len(new) <= ScanLimit /\ Len(new) >= 1 /\ new[1] = x
           /\ Len(new) <= Len(runs) + 1
           /\ \A i \in DOMAIN runs : i + 1 <= ScanLimit => i + 1 <= Len(new) /\ new[i + 1] = runs[i]
<1> DEFINE listed == <<x>> \o runs
           n == IF Len(listed) < ScanLimit THEN Len(listed) ELSE ScanLimit
<1>1. /\ listed \in Seq(CompletedRun) /\ Len(listed) = Len(runs) + 1 /\ listed[1] = x
      /\ \A i \in 1 .. Len(runs) : listed[i + 1] = runs[i]
  OBVIOUS
<1>2. ScanLimit \in Nat \ {0} /\ Len(runs) \in Nat /\ DOMAIN runs = 1 .. Len(runs)
  BY Sizes
<1>3. n \in 1 .. Len(listed) /\ n <= ScanLimit
  BY <1>1, <1>2
<1>4. new = SubSeq(listed, 1, n)
  BY DEF RecentRuns
<1> HIDE DEF listed, n
<1>5. new \in Seq(CompletedRun) /\ Len(new) = n /\ \A i \in 1 .. n : new[i] = listed[i]
  <2>1. 1 \in Int /\ n \in Int /\ 1 <= n /\ n - 1 + 1 = n /\ \A i \in 1 .. n : 1 + i - 1 = i /\ listed[i] \in CompletedRun
    BY <1>1, <1>2, <1>3
  <2>2. /\ new \in Seq(CompletedRun) /\ Len(new) = IF 1 <= n THEN n - 1 + 1 ELSE 0
        /\ \A i \in 1 .. n - 1 + 1 : new[i] = listed[1 + i - 1]
    BY <1>4, <2>1, SubSeqProperties
  <2> QED  BY <2>1, <2>2
<1>6. \A i \in 1 .. Len(runs) : i + 1 <= ScanLimit => i + 1 <= n
  BY <1>1, <1>2 DEF n
<1> QED  BY <1>1, <1>2, <1>3, <1>5, <1>6

\* Whatever ended it, a run that is over leaves a window that still tells of the last
\* alert in its cooldown, of the recovery owed and of the present outage.
LEMMA EndRunKeeps ==
    ASSUME MonitorInv, NEW r \in RunRows, EndRun(r), r.marked => r.condition # None /\ owed',
           target' \in Targets, faults' \in 0 .. MaxFaults, started' \in 0 .. RunsPerTick,
           reported' \subseteq Reports, owed' \in BOOLEAN, recoveries' = 0,
           \/ r.alertSent /\ sinceAlert' = 0
           \/ /\ ~r.alertSent /\ sinceAlert' = sinceAlert
              /\ started' >= started + (IF run.at = "none" THEN 1 ELSE 0)
    PROVE  MonitorInv'
<1> DEFINE marker == IF r.marked THEN r.condition ELSE None
           x == [condition |-> marker, alertSent |-> r.alertSent,
                 created |-> IF r.marked THEN r.age ELSE None,
                 updated |-> IF r.alertSent THEN 0 ELSE None]
           k == outage.runs
<1>1. /\ runs' = RecentRuns(<<x>> \o runs) /\ run' = NoRun
      /\ outage' = IF marker = None THEN NoOutage
                   ELSE IF outage.runs = 0 THEN [runs |-> 1, age |-> r.age, condition |-> marker]
                   ELSE [outage EXCEPT !.runs = IF @ > ScanLimit THEN @ ELSE @ + 1]
  BY DEF EndRun
<1>2. r.age \in Ages /\ 0 \in Ages
  BY Sizes DEF RunRows, Ages
<1>3. x \in CompletedRun
  BY <1>2 DEF RunRows, CompletedRun
<1>4. x.condition = marker /\ x.alertSent = r.alertSent /\ (r.marked => x.created = r.age) /\ (r.alertSent => x.updated = 0)
  OBVIOUS
<1>5. runs \in Seq(CompletedRun) /\ Len(runs) <= ScanLimit /\ ScanLimit \in Nat \ {0} /\ Len(runs) \in Nat
  BY Sizes DEF MonitorInv, MonitorTyped
<1> HIDE DEF x
<1>6. /\ runs' \in Seq(CompletedRun) /\ Len(runs') <= ScanLimit /\ Len(runs') >= 1 /\ runs'[1] = x
      /\ Len(runs') \in Nat /\ Len(runs') <= Len(runs) + 1 /\ DOMAIN runs' = 1 .. Len(runs')
      /\ \A i \in DOMAIN runs : i + 1 <= ScanLimit => i + 1 <= Len(runs') /\ runs'[i + 1] = runs[i]
  BY <1>1, <1>3, <1>5, WindowSlides
<1>7. /\ k \in 0 .. ScanLimit + 1 /\ outage.age \in Ages /\ outage.condition \in Level1Conditions \union {None}
      /\ outage \in [runs : 0 .. ScanLimit + 1, age : Ages, condition : Level1Conditions \union {None}]
  BY DEF MonitorInv, MonitorTyped
<1>8. marker \in Level1Conditions \union {None}
  BY DEF RunRows
<1>9. /\ outage' \in [runs : 0 .. ScanLimit + 1, age : Ages, condition : Level1Conditions \union {None}]
      /\ \A i \in DOMAIN runs' : i <= outage'.runs => runs'[i].condition # None
      /\ outage'.runs <= ScanLimit =>
          /\ outage'.runs <= Len(runs')
          /\ outage'.runs < Len(runs') => runs'[outage'.runs + 1].condition = None
          /\ outage'.runs > 0 => /\ runs'[outage'.runs].created = outage'.age
                                 /\ runs'[outage'.runs].condition = outage'.condition
  <2>1. ASSUME marker # None, NEW i \in DOMAIN runs', i <= k + 1
        PROVE  runs'[i].condition # None
    <3>1. CASE i = 1
      BY <1>4, <1>6, <2>1, <3>1
    <3>2. CASE i # 1
      <4>1. PICK j \in Nat \ {0} : i = j + 1
        <5>1. i - 1 \in Nat \ {0} /\ i = (i - 1) + 1
          BY <1>6, <3>2
        <5> QED  BY <5>1
      <4>2. j \in DOMAIN runs /\ j + 1 <= ScanLimit /\ j <= k
        BY <1>5, <1>6, <1>7, <2>1, <4>1
      <4> QED  BY <1>6, <4>1, <4>2 DEF MonitorInv, OutageInWindow
    <3> QED  BY <3>1, <3>2
  <2>2. CASE marker = None
    <3>1. outage' = [runs |-> 0, age |-> 0, condition |-> None]
      BY <1>1, <2>2 DEF NoOutage
    <3>2. runs'[1].condition = None
      BY <1>4, <1>6, <2>2
    <3> QED  BY <1>2, <1>5, <1>6, <3>1, <3>2
  <2>3. CASE marker # None /\ k = 0
    <3>1. outage' = [runs |-> 1, age |-> r.age, condition |-> marker]
      BY <1>1, <2>3
    <3>2. runs'[1].condition = marker /\ runs'[1].created = r.age
      BY <1>4, <1>6, <2>3
    <3>3. 1 < Len(runs') => runs'[2].condition = None
      <4>1. 0 < Len(runs) => runs[1].condition = None
        BY <1>5, <2>3 DEF MonitorInv, OutageInWindow
      <4>2. 1 < Len(runs') => 1 \in DOMAIN runs /\ 1 + 1 <= ScanLimit
        BY <1>5, <1>6
      <4> QED  BY <1>5, <1>6, <4>1, <4>2
    <3> QED  BY <1>2, <1>5, <1>6, <1>8, <2>3, <3>1, <3>2, <3>3
  <2>4. CASE marker # None /\ k \in 1 .. ScanLimit
    <3>1. outage' = [outage EXCEPT !.runs = k + 1]
      BY <1>1, <1>5, <2>4
    <3>2. outage'.runs = k + 1 /\ outage'.age = outage.age /\ outage'.condition = outage.condition
      BY <1>7, <3>1
    <3>3. outage' \in [runs : 0 .. ScanLimit + 1, age : Ages, condition : Level1Conditions \union {None}]
      BY <1>5, <1>7, <2>4, <3>1
    <3>4. /\ k <= Len(runs) /\ runs[k].created = outage.age /\ runs[k].condition = outage.condition
          /\ k < Len(runs) => runs[k + 1].condition = None
      BY <1>5, <2>4 DEF MonitorInv, OutageInWindow
    <3>5. ASSUME k + 1 <= ScanLimit
          PROVE  /\ k + 1 <= Len(runs') /\ runs'[k + 1] = runs[k]
                 /\ k + 1 < Len(runs') => runs'[k + 2].condition = None
      <4>1. k \in DOMAIN runs
        BY <1>5, <2>4, <3>4
      <4>2. ASSUME k + 1 < Len(runs')
            PROVE  runs'[k + 2].condition = None
        <5>1. k + 1 \in DOMAIN runs /\ (k + 1) + 1 <= ScanLimit /\ k + 2 = (k + 1) + 1 /\ k < Len(runs)
          BY <1>5, <1>6, <2>4, <4>2
        <5>2. runs'[(k + 1) + 1] = runs[k + 1]
          BY <1>6, <5>1
        <5> QED  BY <3>4, <5>1, <5>2
      <4> QED  BY <1>6, <3>5, <4>1, <4>2
    <3>6. (k + 1) + 1 = k + 2 /\ k \in Nat
      BY <2>4
    <3>7. \A i \in DOMAIN runs' : i <= k + 1 => runs'[i].condition # None
      BY <2>4, <2>1
    <3> QED  BY <3>2, <3>3, <3>4, <3>5, <3>6, <3>7
  <2>5. CASE marker # None /\ k = ScanLimit + 1
    <3>1. outage' = outage
      BY <1>1, <1>5, <1>7, <2>5
    <3>2. ~(outage'.runs <= ScanLimit) /\ \A i \in DOMAIN runs' : i <= k + 1
      BY <1>5, <1>6, <2>5, <3>1
    <3> QED  BY <1>7, <2>5, <2>1, <3>1, <3>2
  <2> QED  BY <1>5, <1>7, <2>2, <2>3, <2>4, <2>5
<1>10. run'.at = "none" /\ run' \in RunRows /\ ~run'.alertSent /\ ~run'.marked
  BY <1>1, <1>2, Sizes DEF NoRun, RunRows
<1>11. OutageInWindow'
  BY <1>9, <1>10 DEF OutageInWindow
<1>12. MonitorTyped'
  <2>1. sinceAlert' \in Ages
    BY <1>2 DEF MonitorInv, MonitorTyped
  <2> QED  BY <1>6, <1>9, <1>10, <2>1 DEF MonitorTyped
<1>13. RunFollowsProbe'
  BY <1>1, <1>10 DEF RunFollowsProbe
<1>14. RecoveryIsOwed'
  <2>1. LastRunLevel1Active(runs') => r.marked
    BY <1>4, <1>6 DEF LastRunLevel1Active
  <2> QED  BY <1>10, <2>1 DEF RecoveryIsOwed
<1>15. sinceAlert' < Cooldown => \E i \in 1 .. ScanLimit : AlertAt(i)'
  <2>1. CASE r.alertSent /\ sinceAlert' = 0
    <3>1. 1 \in DOMAIN runs' /\ runs'[1].alertSent /\ runs'[1].updated = sinceAlert'
      <4>1. runs'[1].alertSent /\ runs'[1].updated = sinceAlert'
        BY <1>4, <1>6, <2>1
      <4>2. 1 \in 1 .. Len(runs')
        BY <1>6
      <4> QED  BY <1>6, <4>1, <4>2
    <3>2. sinceAlert' * RunsPerTick = 0 /\ 1 + 0 <= 1 + sinceAlert' * RunsPerTick + started' /\ 1 \in 1 .. ScanLimit
      <4>1. started' \in Nat /\ RunsPerTick \in Nat
        BY Sizes
      <4>2. 0 * RunsPerTick = 0
        BY <4>1
      <4>3. sinceAlert' * RunsPerTick = 0
        BY <2>1, <4>2
      <4> QED  BY <1>5, <4>1, <4>3
    <3>3. \A j \in 1 .. 1 - 1 : ~runs'[j].alertSent
      OBVIOUS
    <3>4. AlertAt(1)'
      BY <1>10, <3>1, <3>2, <3>3 DEF AlertAt
    <3> QED  BY <3>2, <3>4
  <2>2. CASE ~r.alertSent /\ sinceAlert' = sinceAlert /\ started' >= started + (IF run.at = "none" THEN 1 ELSE 0)
    <3> SUFFICES ASSUME sinceAlert < Cooldown  PROVE \E i \in 1 .. ScanLimit : AlertAt(i)'
      BY <2>2
    <3>1. PICK i \in 1 .. ScanLimit : AlertAt(i)
      BY DEF MonitorInv, AlertInWindow
    <3>2. /\ i \in DOMAIN runs /\ runs[i].alertSent /\ runs[i].updated = sinceAlert
          /\ \A j \in 1 .. i - 1 : ~runs[j].alertSent
          /\ i + (IF run.at = "none" THEN 0 ELSE 1) <= 1 + sinceAlert * RunsPerTick + started
      BY <3>1 DEF AlertAt
    <3>3. sinceAlert \in Nat /\ started \in Nat /\ sinceAlert * RunsPerTick \in Nat
      BY Sizes DEF MonitorInv, MonitorTyped, Ages
    <3>4. i + 1 <= 1 + sinceAlert * RunsPerTick + started'
      <4>1. CASE run.at = "none"
        BY <2>2, <3>2, <3>3, <4>1
      <4>2. CASE run.at # "none"
        BY <2>2, <3>2, <3>3, <4>2
      <4> QED  BY <4>1, <4>2
    <3>5. i + 1 <= ScanLimit
      BY <3>3, <3>4, CooldownFits
    <3>6. i + 1 <= Len(runs') /\ runs'[i + 1] = runs[i]
      BY <1>6, <3>2, <3>5
    <3>7. ASSUME NEW j \in 1 .. (i + 1) - 1  PROVE ~runs'[j].alertSent
      <4>1. CASE j = 1
        BY <1>4, <1>6, <2>2, <4>1
      <4>2. CASE j # 1
        <5>1. PICK l \in 1 .. i - 1 : j = l + 1
          <6>1. j - 1 \in 1 .. i - 1 /\ j = (j - 1) + 1
            BY <4>2
          <6> QED  BY <6>1
        <5>2. l \in DOMAIN runs /\ l + 1 <= ScanLimit
          BY <1>5, <3>2, <3>5
        <5> QED  BY <1>6, <3>2, <5>1, <5>2
      <4> QED  BY <4>1, <4>2
    <3>8. (i + 1) + 0 = i + 1 /\ i + 1 \in 1 .. Len(runs') /\ i + 1 \in 1 .. ScanLimit
      BY <1>6, <3>5, <3>6
    <3>9. AlertAt(i + 1)'
      BY <1>6, <1>10, <2>2, <3>2, <3>4, <3>6, <3>7, <3>8 DEF AlertAt
    <3> QED  BY <3>8, <3>9
  <2> QED  BY <2>1, <2>2
<1>16. AlertInWindow'
  BY <1>10, <1>15 DEF AlertInWindow
<1> QED  BY <1>11, <1>12, <1>13, <1>14, <1>16 DEF MonitorInv

\* A step of the run at hand that does not end it, given what it leads to.
LEMMA MoveKeeps ==
    ASSUME MonitorInv, run.at # "none",
           runs' = runs, outage' = outage, started' = started, sinceAlert' = sinceAlert, target' = target,
           faults' \in 0 .. MaxFaults, reported' \subseteq Reports, owed' \in BOOLEAN, recoveries' = 0,
           run' \in RunRows, run'.at # "none", RunFollowsProbe',
           run'.at \in {"detected", "alert"} => run'.inCooldown \/ sinceAlert >= Cooldown,
           run'.at = "alert" => ~run'.inCooldown,
           LastRunLevel1Active(runs) => owed' \/ run'.at \in {"backfill", "level2"},
           run'.at = "recovery" \/ run'.marked => owed',
           run'.at \in {"recovery", "backfill"} /\ outage.runs \in 1 .. ScanLimit =>
               run'.startedAge = outage.age /\ run'.lastCondition = outage.condition
    PROVE  MonitorInv'
<1>1. MonitorTyped'
  BY DEF MonitorInv, MonitorTyped
<1>2. ASSUME NEW i, AlertAt(i)  PROVE AlertAt(i)'
  BY <1>2 DEF AlertAt
<1>3. AlertInWindow'
  BY <1>2 DEF MonitorInv, AlertInWindow
<1>4. RecoveryIsOwed'
  BY DEF RecoveryIsOwed
<1>5. OutageInWindow'
  BY DEF MonitorInv, OutageInWindow
<1> QED  BY <1>1, <1>3, <1>4, <1>5 DEF MonitorInv

\* What a run reads back: an alert of the cooldown, a recovery owed, and the outage as
\* far as the window reaches.
LEMMA HistoryReads ==
    ASSUME MonitorInv, NEW h, h = GetMonitorHistory(runs)
    PROVE  /\ h.inCooldown \in BOOLEAN /\ (h.inCooldown \/ sinceAlert >= Cooldown)
           /\ h.wasActive = LastRunLevel1Active(runs) /\ h.wasActive \in BOOLEAN
           /\ h.startedAge \in Ages \union {None} /\ h.lastCondition \in Level1Conditions \union {None}
           /\ outage.runs \in 1 .. ScanLimit => h.startedAge = outage.age /\ h.lastCondition = outage.condition
<1> DEFINE streak == Streak(runs)
           Ends(k) == /\ \A i \in 1 .. k : runs[i].condition # None
                      /\ k < Len(runs) => runs[k + 1].condition = None
           k0 == IF outage.runs <= ScanLimit THEN outage.runs ELSE Len(runs)
<1>1. /\ runs \in Seq(CompletedRun) /\ Len(runs) \in Nat /\ DOMAIN runs = 1 .. Len(runs)
      /\ outage.runs \in 0 .. ScanLimit + 1 /\ ScanLimit \in Nat \ {0} /\ Len(runs) <= ScanLimit
  BY Sizes DEF MonitorInv, MonitorTyped
<1>2. k0 \in 0 .. Len(runs) /\ Ends(k0)
  BY <1>1 DEF MonitorInv, OutageInWindow
<1>3. ASSUME NEW k \in 0 .. Len(runs), Ends(k)
      PROVE  k = k0
  <2> HIDE DEF k0
  <2>1. CASE k < k0
    <3>1. k + 1 \in 1 .. k0 /\ k < Len(runs)
      BY <1>1, <1>2, <2>1
    <3> QED  BY <1>2, <1>3, <3>1
  <2>2. CASE k0 < k
    <3>1. k0 + 1 \in 1 .. k /\ k0 < Len(runs)
      BY <1>1, <1>2, <2>2
    <3> QED  BY <1>2, <1>3, <3>1
  <2> QED  BY <1>1, <1>2, <2>1, <2>2
<1>4. streak = SubSeq(runs, 1, k0)
  <2>1. (CHOOSE k \in 0 .. Len(runs) : Ends(k)) = k0
    BY <1>2, <1>3
  <2> QED  BY <2>1 DEF Streak
<1> HIDE DEF streak, k0
<1>5. Len(streak) = k0 /\ (k0 > 0 => streak[k0] = runs[k0]) /\ (streak = <<>> <=> k0 = 0) /\ k0 \in Nat
  <2>1. 1 \in Int /\ k0 \in Int /\ k0 - 1 + 1 = k0 /\ \A i \in 1 .. k0 : 1 + i - 1 = i /\ runs[i] \in CompletedRun
    BY <1>1, <1>2
  <2>2. /\ streak \in Seq(CompletedRun) /\ Len(streak) = IF 1 <= k0 THEN k0 - 1 + 1 ELSE 0
        /\ \A i \in 1 .. k0 - 1 + 1 : streak[i] = runs[1 + i - 1]
    BY <1>4, <2>1, SubSeqProperties
  <2> QED  BY <1>1, <1>2, <2>1, <2>2
<1>6. /\ h.inCooldown = IsInCooldown(LastAlertAge(runs)) /\ h.wasActive = LastRunLevel1Active(runs)
      /\ h.startedAge = IF k0 = 0 THEN None ELSE runs[k0].created
      /\ h.lastCondition = IF k0 = 0 THEN None ELSE runs[k0].condition
  BY <1>5 DEF GetMonitorHistory, streak
<1>7. k0 # 0 => runs[k0] \in CompletedRun
  BY <1>1, <1>2
<1>8. h.startedAge \in Ages \union {None} /\ h.lastCondition \in Level1Conditions \union {None}
  BY <1>6, <1>7 DEF CompletedRun
<1>9. outage.runs \in 1 .. ScanLimit => h.startedAge = outage.age /\ h.lastCondition = outage.condition
  <2> SUFFICES ASSUME outage.runs \in 1 .. ScanLimit
               PROVE  h.startedAge = outage.age /\ h.lastCondition = outage.condition
    OBVIOUS
  <2>1. k0 = outage.runs /\ k0 # 0
    BY <1>1 DEF k0
  <2>2. runs[k0].created = outage.age /\ runs[k0].condition = outage.condition
    BY <1>1, <2>1 DEF MonitorInv, OutageInWindow
  <2> QED  BY <1>6, <2>1, <2>2
<1>10. ASSUME sinceAlert < Cooldown
       PROVE  h.inCooldown
  <2> DEFINE alerted == {i \in DOMAIN runs : runs[i].alertSent}
  <2>1. PICK i \in 1 .. ScanLimit : AlertAt(i)
    BY <1>10 DEF MonitorInv, AlertInWindow
  <2>2. i \in alerted /\ runs[i].updated = sinceAlert /\ \A j \in 1 .. i - 1 : ~runs[j].alertSent
    BY <2>1 DEF AlertAt
  <2>3. \A j \in alerted : i <= j
    BY <1>1, <2>2
  <2>4. (CHOOSE m \in alerted : \A j \in alerted : m <= j) = i
    <3>1. \A m \in alerted : (\A j \in alerted : m <= j) => m = i
      BY <1>1, <2>2, <2>3
    <3> HIDE DEF alerted
    <3> QED  BY <2>2, <2>3, <3>1
  <2>5. LastAlertAge(runs) = sinceAlert
    BY <2>2, <2>4 DEF LastAlertAge
  <2>6. sinceAlert # None
    BY Sizes DEF MonitorInv, MonitorTyped
  <2> QED  BY <1>6, <1>10, <2>5, <2>6 DEF IsInCooldown
<1>11. sinceAlert < Cooldown \/ sinceAlert >= Cooldown
  BY Sizes DEF MonitorInv, MonitorTyped, Ages
<1> QED  BY <1>6, <1>8, <1>9, <1>10, <1>11 DEF IsInCooldown, LastRunLevel1Active

LEMMA MonitorBegins ==
    MonitorInit => MonitorInv
<1> SUFFICES ASSUME MonitorInit  PROVE MonitorInv
  OBVIOUS
<1>1. runs = <<>> /\ runs \in Seq(CompletedRun) /\ Len(runs) = 0 /\ DOMAIN runs = {}
  BY DEF MonitorInit
<1>2. run \in RunRows
  BY Sizes DEF MonitorInit, NoRun, RunRows, Ages, Steps
<1>3. outage \in [runs : 0 .. ScanLimit + 1, age : Ages, condition : Level1Conditions \union {None}]
  BY Sizes DEF MonitorInit, NoOutage, Ages
<1>4. MonitorTyped
  <2>1. faults \in 0 .. MaxFaults /\ started \in 0 .. RunsPerTick /\ sinceAlert \in Ages
    BY Sizes DEF MonitorInit, Ages
  <2>2. target \in Targets /\ reported \subseteq Reports /\ owed \in BOOLEAN
    BY Zenon DEF MonitorInit
  <2>3. Len(runs) <= ScanLimit
    BY <1>1, Sizes
  <2> QED  BY <1>1, <1>2, <1>3, <2>1, <2>2, <2>3 DEF MonitorTyped
<1>5. RunFollowsProbe
  BY DEF MonitorInit, NoRun, RunFollowsProbe
<1>6. AlertInWindow
  BY Sizes DEF MonitorInit, NoRun, AlertInWindow
<1>7. RecoveryIsOwed
  BY DEF MonitorInit, NoRun, RecoveryIsOwed, LastRunLevel1Active
<1>8. OutageInWindow
  BY <1>1, Sizes DEF MonitorInit, NoRun, NoOutage, OutageInWindow
<1> QED  BY <1>4, <1>5, <1>6, <1>7, <1>8 DEF MonitorInv

-----------------------------------------------------------------------------
(* The steps of a run, and of the world around it                          *)

\* What every step but the last of a run leaves of its invariant, in one place.
LEMMA RunIs ==
    ASSUME MonitorInv
    PROVE  /\ run \in RunRows /\ runs \in Seq(CompletedRun) /\ started \in 0 .. RunsPerTick /\ started \in Nat
           /\ faults \in 0 .. MaxFaults /\ target \in Targets /\ reported \subseteq Reports /\ owed \in BOOLEAN
           /\ sinceAlert \in Ages /\ recoveries = 0 /\ ~run.alertSent /\ (run = NoRun <=> run.at = "none")
           /\ (run.marked => run.at = "alert" /\ owed /\ run.condition # None)
<1>1. NoRun.at = "none"
  BY DEF NoRun
<1>2. started \in 0 .. RunsPerTick => started \in Nat
  BY Sizes
<1> QED  BY <1>1, <1>2 DEF MonitorInv, MonitorTyped, RunFollowsProbe, RecoveryIsOwed

LEMMA FaultCounts ==
    ASSUME MonitorInv, Fault \/ UNCHANGED faults
    PROVE  faults' \in 0 .. MaxFaults
  BY RunIs, Sizes DEF Fault

LEMMA StartRunKeeps ==
    ASSUME MonitorInv, StartRun
    PROVE  MonitorInv'
<1>1. /\ run = NoRun /\ run.at = "none" /\ started' = started + 1 /\ started' \in 0 .. RunsPerTick
      /\ runs' = runs /\ outage' = outage /\ sinceAlert' = sinceAlert /\ owed' = owed /\ recoveries' = recoveries
  BY RunIs, Sizes DEF StartRun, Unsaid
<1>2. PICK r : r = [NoRun EXCEPT !.at = "tcp"]
  OBVIOUS
<1>3. /\ r \in RunRows /\ r.at = "tcp" /\ ~r.marked /\ ~r.alertSent /\ run' = r
  BY <1>1, <1>2, RunIs DEF StartRun, NoRun, RunRows, Steps
<1>4. MonitorTyped'
  BY <1>1, <1>3 DEF MonitorInv, MonitorTyped, StartRun
<1>5. ASSUME NEW i \in 1 .. ScanLimit, AlertAt(i)  PROVE AlertAt(i)'
  <2>1. sinceAlert * RunsPerTick \in Nat
    BY RunIs, Sizes DEF Ages
  <2>2. i + 0 <= 1 + sinceAlert * RunsPerTick + started
    BY <1>1, <1>5 DEF AlertAt
  <2>3. i + 1 <= 1 + sinceAlert * RunsPerTick + started'
    BY <1>1, <2>1, <2>2, RunIs
  <2> QED  BY <1>1, <1>3, <1>5, <2>3 DEF AlertAt
<1>6. AlertInWindow'
  BY <1>1, <1>3, <1>5 DEF MonitorInv, AlertInWindow
<1>7. RunFollowsProbe' /\ RecoveryIsOwed' /\ OutageInWindow'
  BY <1>1, <1>3 DEF MonitorInv, RunFollowsProbe, RecoveryIsOwed, OutageInWindow
<1> QED  BY <1>4, <1>6, <1>7 DEF MonitorInv

LEMMA SkippedRunKeeps ==
    ASSUME MonitorInv, SkippedRun
    PROVE  MonitorInv'
<1>1. NoRun \in RunRows /\ ~NoRun.marked /\ ~NoRun.alertSent
  BY Sizes DEF NoRun, RunRows, Ages
<1>2. /\ run.at = "none" /\ started' = started + 1 /\ started' \in 0 .. RunsPerTick
      /\ started' >= started + 1
  BY RunIs, Sizes DEF SkippedRun
<1>3. faults' \in 0 .. MaxFaults
  BY FaultCounts DEF SkippedRun
<1> QED  BY <1>1, <1>2, <1>3, RunIs, EndRunKeeps DEF SkippedRun, Unsaid

\* A run that ends where it is, whatever it sends meanwhile.
LEMMA RunEndsKeeps ==
    ASSUME MonitorInv, run.at # "none", EndRun(run), target' = target, started' = started, sinceAlert' = sinceAlert,
           faults' \in 0 .. MaxFaults, reported' \subseteq Reports, recoveries' = 0,
           owed' = owed \/ (owed' = FALSE /\ run.at = "recovery")
    PROVE  MonitorInv'
<1>1. (run.marked => run.condition # None /\ owed') /\ owed' \in BOOLEAN
  <2>1. owed \in BOOLEAN /\ (run.marked => run.at = "alert" /\ owed /\ run.condition # None) /\ "alert" # "recovery"
    BY RunIs
  <2> QED  BY <2>1, Zenon
<1>2. started' >= started + (IF run.at = "none" THEN 1 ELSE 0)
  BY RunIs
<1> QED  BY <1>1, <1>2, RunIs, EndRunKeeps

LEMMA RunFailsKeeps ==
    ASSUME MonitorInv, RunFails
    PROVE  MonitorInv'
<1>1. faults' \in 0 .. MaxFaults
  BY FaultCounts DEF RunFails
<1> QED  BY <1>1, RunIs, RunEndsKeeps DEF RunFails, Unsaid

LEMMA ProbeKeeps ==
    ASSUME MonitorInv, CheckTcpReachable \/ CheckTlsHandshake \/ CheckHttpHealth
    PROVE  MonitorInv'
<1>1. /\ run.at \in {"tcp", "tls", "http"} /\ runs' = runs /\ outage' = outage /\ started' = started
      /\ sinceAlert' = sinceAlert /\ target' = target /\ faults' = faults /\ reported' = reported
      /\ owed' = owed /\ recoveries' = recoveries
  BY DEF CheckTcpReachable, CheckTlsHandshake, CheckHttpHealth, Goto, Unsaid, World
<1>2. \/ \E l \in SUBSET Level2Conditions : run' = [run EXCEPT !.at = "tls"] \/ run' = [run EXCEPT !.at = "http", !.level2 = l]
      \/ \E l \in SUBSET Level2Conditions, c \in Level1Conditions \union {None} :
            run' = [run EXCEPT !.at = "history", !.reachable = (c = None), !.condition = c, !.level2 = l]
  <2>1. CASE CheckTcpReachable
    BY <2>1 DEF CheckTcpReachable, Goto, Unreachable, Probed, Level1Conditions
  <2>2. CASE CheckTlsHandshake
    BY <2>2 DEF CheckTlsHandshake, Goto, Unreachable, Probed, Level1Conditions, Level2Conditions
  <2>3. CASE CheckHttpHealth
    <3>1. CASE ~Reachable(target)
      BY <2>3, <3>1 DEF CheckHttpHealth, Goto, Unreachable, Probed, Level1Conditions
    <3>2. CASE Reachable(target)
      <4> DEFINE l == run.level2 \cup IF target.slow THEN {"EXTERNAL_HTTP_DEGRADED"} ELSE {}
      <4>1. l \in SUBSET Level2Conditions
        BY RunIs DEF RunRows, Level2Conditions
      <4>2. run' = [run EXCEPT !.at = "history", !.reachable = (None = None), !.condition = None, !.level2 = l]
        BY <2>3, <3>2 DEF CheckHttpHealth, Goto, ProbeResult, Probed
      <4> HIDE DEF l
      <4> QED  BY <4>1, <4>2
    <3> QED  BY <3>1, <3>2
  <2> QED  BY <2>1, <2>2, <2>3
<1>3. run \in RunRows
  BY RunIs
<1>4. /\ run' \in RunRows /\ run'.at \in {"tls", "http", "history"} /\ run'.marked = run.marked /\ run'.alertSent = run.alertSent
      /\ run'.at = "history" => (run'.reachable <=> run'.condition = None)
  <2>1. ASSUME NEW l \in SUBSET Level2Conditions,
               run' = [run EXCEPT !.at = "tls"] \/ run' = [run EXCEPT !.at = "http", !.level2 = l]
        PROVE  /\ run' \in RunRows /\ run'.at \in {"tls", "http"} /\ run'.marked = run.marked
               /\ run'.alertSent = run.alertSent
    BY <1>3, <2>1 DEF RunRows, Steps
  <2>2. ASSUME NEW l \in SUBSET Level2Conditions, NEW c \in Level1Conditions \union {None},
               run' = [run EXCEPT !.at = "history", !.reachable = (c = None), !.condition = c, !.level2 = l]
        PROVE  /\ run' \in RunRows /\ run'.at = "history" /\ run'.marked = run.marked
               /\ run'.alertSent = run.alertSent /\ (run'.reachable <=> run'.condition = None)
    <3>1. PICK b \in BOOLEAN : b = (c = None)
      OBVIOUS
    <3>2. run' = [run EXCEPT !.at = "history", !.reachable = b, !.condition = c, !.level2 = l]
      BY <2>2, <3>1
    <3>3. /\ run' \in RunRows /\ run'.at = "history" /\ run'.marked = run.marked
          /\ run'.alertSent = run.alertSent /\ run'.reachable = b /\ run'.condition = c
      BY <1>3, <3>2 DEF RunRows, Steps
    <3> QED  BY <3>1, <3>3
  <2> QED  BY <1>2, <2>1, <2>2
<1>5. ~run'.marked /\ ~run'.alertSent
  BY <1>1, <1>4, RunIs
<1>6. RunFollowsProbe'
  BY <1>4, <1>5 DEF RunFollowsProbe
<1>7. LastRunLevel1Active(runs) => owed'
  BY <1>1 DEF MonitorInv, RecoveryIsOwed
<1> QED  BY <1>1, <1>4, <1>5, <1>6, <1>7, RunIs, MoveKeeps

LEMMA QueryHistoryKeeps ==
    ASSUME MonitorInv, QueryHistory
    PROVE  MonitorInv'
<1>1. PICK h : h = GetMonitorHistory(runs)
  OBVIOUS
<1>2. /\ h.inCooldown \in BOOLEAN /\ (h.inCooldown \/ sinceAlert >= Cooldown)
      /\ h.wasActive = LastRunLevel1Active(runs) /\ h.wasActive \in BOOLEAN
      /\ h.startedAge \in Ages \union {None} /\ h.lastCondition \in Level1Conditions \union {None}
      /\ outage.runs \in 1 .. ScanLimit => h.startedAge = outage.age /\ h.lastCondition = outage.condition
  BY <1>1, HistoryReads
<1>3. /\ run.at = "history" /\ runs' = runs /\ outage' = outage /\ started' = started
      /\ sinceAlert' = sinceAlert /\ target' = target /\ faults' = faults /\ reported' = reported
      /\ owed' = owed /\ recoveries' = recoveries
  BY DEF QueryHistory, Goto, Unsaid, World
<1>4. run' = IF ~run.reachable THEN [run EXCEPT !.at = "detected", !.inCooldown = h.inCooldown]
             ELSE IF h.wasActive
             THEN [run EXCEPT !.at = "recovery", !.startedAge = h.startedAge, !.lastCondition = h.lastCondition]
             ELSE [run EXCEPT !.at = "level2"]
  BY <1>1 DEF QueryHistory, Goto
<1>5. run \in RunRows /\ ~run.marked /\ ~run.alertSent /\ (run.reachable <=> run.condition = None)
  BY <1>3, RunIs DEF MonitorInv, RunFollowsProbe
<1>6. LastRunLevel1Active(runs) => owed'
  BY <1>3 DEF MonitorInv, RecoveryIsOwed
<1>7. CASE ~run.reachable
  <2>1. run' = [run EXCEPT !.at = "detected", !.inCooldown = h.inCooldown]
    BY <1>4, <1>7
  <2>2. /\ run' \in RunRows /\ run'.at = "detected" /\ run'.inCooldown = h.inCooldown /\ ~run'.marked
        /\ ~run'.alertSent /\ run'.condition # None
    BY <1>2, <1>5, <1>7, <2>1 DEF RunRows, Steps
  <2>3. RunFollowsProbe'
    BY <2>2 DEF RunFollowsProbe
  <2> QED  BY <1>2, <1>3, <1>6, <2>2, <2>3, RunIs, MoveKeeps
<1>8. CASE run.reachable /\ h.wasActive
  <2>1. run' = [run EXCEPT !.at = "recovery", !.startedAge = h.startedAge, !.lastCondition = h.lastCondition]
    BY <1>4, <1>8
  <2>2. /\ run' \in RunRows /\ run'.at = "recovery" /\ run'.startedAge = h.startedAge
        /\ run'.lastCondition = h.lastCondition /\ ~run'.marked /\ ~run'.alertSent
    BY <1>2, <1>5, <2>1 DEF RunRows, Steps
  <2>3. RunFollowsProbe'
    BY <2>2 DEF RunFollowsProbe
  <2>4. owed'
    BY <1>2, <1>6, <1>8
  <2> QED  BY <1>2, <1>3, <2>2, <2>3, <2>4, RunIs, MoveKeeps
<1>9. CASE run.reachable /\ ~h.wasActive
  <2>1. run' = [run EXCEPT !.at = "level2"]
    BY <1>4, <1>9
  <2>2. run' \in RunRows /\ run'.at = "level2" /\ ~run'.marked /\ ~run'.alertSent
    BY <1>5, <2>1 DEF RunRows, Steps
  <2>3. RunFollowsProbe'
    BY <2>2 DEF RunFollowsProbe
  <2> QED  BY <1>3, <1>6, <2>2, <2>3, RunIs, MoveKeeps
<1> QED  BY <1>7, <1>8, <1>9

LEMMA Level1DetectedKeeps ==
    ASSUME MonitorInv, Level1Detected
    PROVE  MonitorInv'
<1>1. PICK r : r = [run EXCEPT !.marked = TRUE, !.at = "alert"]
  OBVIOUS
<1>2. /\ run.at = "detected" /\ owed' = TRUE /\ reported' = reported /\ sinceAlert' = sinceAlert
      /\ recoveries' = recoveries /\ target' = target /\ faults' = faults /\ started' = started
      /\ IF run.inCooldown THEN EndRun(r) ELSE run' = r /\ UNCHANGED <<runs, outage>>
  BY <1>1 DEF Level1Detected, Goto, World
<1>3. /\ r \in RunRows /\ r.at = "alert" /\ r.condition = run.condition /\ r.condition # None
      /\ ~r.alertSent /\ r.inCooldown = run.inCooldown
  BY <1>1, <1>2, RunIs DEF RunRows, Steps, MonitorInv, RunFollowsProbe
<1>4. run.inCooldown \/ sinceAlert >= Cooldown
  BY <1>2 DEF MonitorInv, AlertInWindow
<1>5. CASE run.inCooldown
  <2>1. EndRun(r) /\ owed' /\ owed' \in BOOLEAN
    BY <1>2, <1>5
  <2>2. started' >= started + (IF run.at = "none" THEN 1 ELSE 0)
    BY <1>2, RunIs
  <2> QED  BY <1>2, <1>3, <2>1, <2>2, RunIs, EndRunKeeps
<1>6. CASE ~run.inCooldown
  <2>1. run' = r /\ runs' = runs /\ outage' = outage /\ owed' /\ owed' \in BOOLEAN
    BY <1>2, <1>6
  <2>2. RunFollowsProbe'
    BY <1>3, <2>1 DEF RunFollowsProbe
  <2> QED  BY <1>2, <1>3, <1>4, <1>6, <2>1, <2>2, RunIs, MoveKeeps
<1> QED  BY <1>5, <1>6

LEMMA Level1AlertKeeps ==
    ASSUME MonitorInv, Level1Alert
    PROVE  MonitorInv'
<1>1. PICK r : r = [run EXCEPT !.alertSent = TRUE]
  OBVIOUS
<1>2. /\ EndRun(r) /\ sinceAlert' = 0 /\ owed' = owed /\ reported' = reported
      /\ recoveries' = recoveries /\ target' = target /\ faults' = faults /\ started' = started
  BY <1>1 DEF Level1Alert, World
<1>3. r \in RunRows /\ r.condition = run.condition /\ r.alertSent /\ r.marked = run.marked
  BY <1>1, RunIs DEF RunRows
<1>4. r.marked => r.condition # None /\ owed'
  BY <1>2, <1>3, RunIs
<1> QED  BY <1>2, <1>3, <1>4, RunIs, EndRunKeeps

LEMMA Level1RecoveryKeeps ==
    ASSUME MonitorInv, Level1Recovery
    PROVE  MonitorInv'
<1>1. run.at = "recovery" /\ owed
  BY DEF Level1Recovery, MonitorInv, RecoveryIsOwed
<1>2. PICK r : r = [run EXCEPT !.at = "backfill"]
  OBVIOUS
<1>3. /\ Sends(r) /\ owed' = FALSE /\ recoveries' = 0 /\ reported' = reported /\ sinceAlert' = sinceAlert
      /\ target' = target /\ started' = started
  BY <1>1, <1>2, RunIs DEF Level1Recovery
<1>4. faults' \in 0 .. MaxFaults
  BY <1>3, FaultCounts DEF Sends
<1>5. CASE EndRun(run)
  BY <1>1, <1>3, <1>4, <1>5, RunIs, RunEndsKeeps
<1>6. CASE Goto(r)
  <2>1. run' = r /\ runs' = runs /\ outage' = outage
    BY <1>6 DEF Goto
  <2>2. /\ run' \in RunRows /\ run'.at = "backfill" /\ run'.startedAge = run.startedAge
        /\ run'.lastCondition = run.lastCondition /\ ~run'.marked /\ ~run'.alertSent
    BY <1>1, <1>2, <2>1, RunIs DEF RunRows, Steps
  <2>3. RunFollowsProbe'
    BY <2>2 DEF RunFollowsProbe
  <2>4. outage.runs \in 1 .. ScanLimit => run'.startedAge = outage.age /\ run'.lastCondition = outage.condition
    BY <1>1, <2>2 DEF MonitorInv, OutageInWindow
  <2>5. owed' \in BOOLEAN
    BY <1>3
  <2> QED  BY <1>1, <1>3, <1>4, <2>1, <2>2, <2>3, <2>4, <2>5, RunIs, MoveKeeps
<1> QED  BY <1>3, <1>5, <1>6 DEF Sends

LEMMA Level1BackfillKeeps ==
    ASSUME MonitorInv, Level1Backfill
    PROVE  MonitorInv'
<1>1. PICK r : r = [run EXCEPT !.at = "level2", !.startedAge = None, !.lastCondition = None]
  OBVIOUS
<1>2. /\ run.at = "backfill" /\ Sends(r) /\ owed' = owed /\ recoveries' = recoveries /\ sinceAlert' = sinceAlert
      /\ target' = target /\ started' = started /\ reported' = {Report(run.lastCondition, "RECOVERED")}
  BY <1>1 DEF Level1Backfill, Unsaid
<1>3. reported' \subseteq Reports
  BY <1>2, RunIs DEF Report, Reports, RunRows
<1>4. faults' \in 0 .. MaxFaults
  BY <1>2, FaultCounts DEF Sends
<1>5. CASE EndRun(run)
  BY <1>2, <1>3, <1>4, <1>5, RunIs, RunEndsKeeps
<1>6. CASE Goto(r)
  <2>1. run' = r /\ runs' = runs /\ outage' = outage
    BY <1>6 DEF Goto
  <2>2. run' \in RunRows /\ run'.at = "level2" /\ ~run'.marked /\ ~run'.alertSent
    BY <1>1, <1>2, <2>1, RunIs DEF RunRows, Steps
  <2>3. RunFollowsProbe'
    BY <2>2 DEF RunFollowsProbe
  <2> QED  BY <1>2, <1>3, <1>4, <2>1, <2>2, <2>3, RunIs, MoveKeeps
<1> QED  BY <1>2, <1>5, <1>6 DEF Sends

LEMMA Level2SubmitKeeps ==
    ASSUME MonitorInv, Level2Submit
    PROVE  MonitorInv'
<1>1. PICK some \in SUBSET run.level2 : /\ Fault \/ UNCHANGED faults
                                        /\ reported' = {Report(c, "DETECTED") : c \in some}
  BY DEF Level2Submit, Submits
<1>2. faults' \in 0 .. MaxFaults
  BY <1>1, FaultCounts
<1>3. reported' \subseteq Reports
  <2>1. run.level2 \subseteq Level2Conditions
    BY RunIs DEF RunRows
  <2> QED  BY <1>1, <2>1 DEF Report, Reports
<1> QED  BY <1>2, <1>3, RunIs, RunEndsKeeps DEF Level2Submit, Unsaid

LEMMA TargetChangesKeeps ==
    ASSUME MonitorInv, TargetChanges
    PROVE  MonitorInv'
<1>1. /\ target' \in Targets /\ faults' = faults /\ runs' = runs /\ run' = run /\ started' = started
      /\ reported' = reported /\ sinceAlert' = sinceAlert /\ owed' = owed /\ recoveries' = recoveries
      /\ outage' = outage
  BY DEF TargetChanges
<1>2. MonitorTyped' /\ RunFollowsProbe' /\ RecoveryIsOwed' /\ OutageInWindow'
  BY <1>1 DEF MonitorInv, MonitorTyped, RunFollowsProbe, RecoveryIsOwed, OutageInWindow
<1>3. AlertInWindow'
  BY <1>1 DEF MonitorInv, AlertInWindow, AlertAt
<1> QED  BY <1>2, <1>3 DEF MonitorInv

\* A period passes: every age grows alike, and with the alert's the runs it may be away.
LEMMA TickKeeps ==
    ASSUME MonitorInv, Tick
    PROVE  MonitorInv'
<1>1. /\ runs' = [i \in DOMAIN runs |-> [runs[i] EXCEPT !.created = Older(@), !.updated = Older(@)]]
      /\ run' = IF run = NoRun THEN NoRun ELSE [run EXCEPT !.age = Older(@), !.startedAge = Older(@)]
      /\ outage' = IF outage.runs = 0 THEN NoOutage ELSE [outage EXCEPT !.age = Older(@)]
  BY DEF Tick
<1>2. /\ sinceAlert' = Older(sinceAlert) /\ started' = 0 /\ target' = target /\ reported' = reported
      /\ owed' = owed /\ recoveries' = recoveries
  BY DEF Tick
<1>3. /\ runs \in Seq(CompletedRun) /\ Len(runs) \in Nat /\ DOMAIN runs = 1 .. Len(runs) /\ Len(runs) <= ScanLimit
      /\ outage \in [runs : 0 .. ScanLimit + 1, age : Ages, condition : Level1Conditions \union {None}]
      /\ ScanLimit \in Nat \ {0}
  BY Sizes DEF MonitorInv, MonitorTyped
<1>4. \A a \in Ages \union {None} : Older(a) \in Ages \union {None} /\ (a # None => Older(a) \in Ages)
  BY OlderAge DEF Older
<1>5. ASSUME NEW i \in DOMAIN runs
      PROVE  /\ runs'[i] \in CompletedRun /\ runs'[i].condition = runs[i].condition
             /\ runs'[i].alertSent = runs[i].alertSent /\ runs'[i].created = Older(runs[i].created)
             /\ runs'[i].updated = Older(runs[i].updated)
  <2>1. PICK a, b : a = Older(runs[i].created) /\ b = Older(runs[i].updated)
    OBVIOUS
  <2>2. runs[i] \in CompletedRun
    BY <1>3
  <2>3. a \in Ages \union {None} /\ b \in Ages \union {None}
    BY <1>4, <2>1, <2>2 DEF CompletedRun
  <2>4. runs'[i] = [runs[i] EXCEPT !.created = a, !.updated = b]
    BY <1>1, <2>1
  <2> QED  BY <2>1, <2>2, <2>3, <2>4 DEF CompletedRun
<1>6. runs' \in Seq(CompletedRun) /\ Len(runs') = Len(runs) /\ DOMAIN runs' = DOMAIN runs
  <2>1. DOMAIN runs' = 1 .. Len(runs) /\ runs' \in [1 .. Len(runs) -> CompletedRun]
    BY <1>1, <1>3, <1>5
  <2> QED  BY <1>3, <2>1, IsASeq
<1>7. /\ run' \in RunRows /\ run'.at = run.at /\ run'.reachable = run.reachable /\ run'.condition = run.condition
      /\ run'.marked = run.marked /\ run'.alertSent = run.alertSent /\ run'.inCooldown = run.inCooldown
      /\ run'.lastCondition = run.lastCondition /\ (run # NoRun => run'.startedAge = Older(run.startedAge))
      /\ (run = NoRun => run' = NoRun)
  <2>1. CASE run = NoRun
    BY <1>1, <2>1, RunIs
  <2>2. CASE run # NoRun
    <3>1. PICK a, b : a = Older(run.age) /\ b = Older(run.startedAge)
      OBVIOUS
    <3>2. run' = [run EXCEPT !.age = a, !.startedAge = b]
      BY <1>1, <2>2, <3>1
    <3>3. run \in RunRows /\ run.age < RunTicks
      BY <2>2, RunIs DEF Tick
    <3>4. a \in 0 .. RunTicks
      <4>1. run.age \in 0 .. RunTicks /\ run.age < MaxAge /\ run.age \in Ages
        BY <3>3, Sizes DEF RunRows, Ages
      <4>2. a = run.age + 1
        BY <3>1, <4>1, OlderAge
      <4> QED  BY <3>3, <4>1, <4>2, Sizes
    <3>5. b \in Ages \union {None}
      BY <1>4, <3>1, <3>3 DEF RunRows
    <3> QED  BY <2>2, <3>1, <3>2, <3>3, <3>4, <3>5 DEF RunRows
  <2> QED  BY <2>1, <2>2
<1>8. /\ outage' \in [runs : 0 .. ScanLimit + 1, age : Ages, condition : Level1Conditions \union {None}]
      /\ outage'.runs = outage.runs
      /\ outage.runs > 0 => outage'.age = Older(outage.age) /\ outage'.condition = outage.condition
  <2>1. CASE outage.runs = 0
    <3>1. outage' = NoOutage
      BY <1>1, <2>1
    <3>2. 0 \in Ages /\ 0 \in 0 .. ScanLimit + 1
      BY Sizes DEF Ages
    <3> QED  BY <2>1, <3>1, <3>2 DEF NoOutage
  <2>2. CASE outage.runs # 0
    <3>1. PICK a : a = Older(outage.age)
      OBVIOUS
    <3>2. outage' = [outage EXCEPT !.age = a] /\ a \in Ages
      BY <1>1, <1>3, <2>2, <3>1, OlderAge
    <3> QED  BY <1>3, <3>1, <3>2
  <2> QED  BY <2>1, <2>2
<1>9. faults' \in 0 .. MaxFaults
  BY FaultCounts DEF Tick
<1>10. sinceAlert' \in Ages /\ sinceAlert' = IF sinceAlert = MaxAge THEN MaxAge ELSE sinceAlert + 1
  <2>1. sinceAlert \in Ages
    BY RunIs
  <2> QED  BY <1>2, <2>1, OlderAge
<1>11. MonitorTyped'
  <2>1. started' \in 0 .. RunsPerTick
    BY <1>2, Sizes
  <2> QED  BY <1>2, <1>3, <1>6, <1>7, <1>8, <1>9, <1>10, <2>1, RunIs DEF MonitorTyped
<1>12. RunFollowsProbe'
  BY <1>7 DEF MonitorInv, RunFollowsProbe
<1>13. RecoveryIsOwed'
  <2>1. LastRunLevel1Active(runs') => LastRunLevel1Active(runs)
    <3>1. runs' # <<>> => runs # <<>> /\ 1 \in DOMAIN runs
      BY <1>3, <1>6
    <3> QED  BY <1>5, <3>1 DEF LastRunLevel1Active
  <2> QED  BY <1>7, <1>2, <2>1 DEF MonitorInv, RecoveryIsOwed
<1>14. OutageInWindow'
  <2> DEFINE k == outage.runs
  <2>1. \A i \in DOMAIN runs' : i <= k => runs'[i].condition # None
    BY <1>5, <1>6 DEF MonitorInv, OutageInWindow
  <2>2. ASSUME k <= ScanLimit
        PROVE  /\ k <= Len(runs') /\ (k < Len(runs') => runs'[k + 1].condition = None)
               /\ k > 0 => runs'[k].created = outage'.age /\ runs'[k].condition = outage'.condition
    <3>1. /\ k <= Len(runs) /\ (k < Len(runs) => runs[k + 1].condition = None)
          /\ k > 0 => runs[k].created = outage.age /\ runs[k].condition = outage.condition
      BY <2>2 DEF MonitorInv, OutageInWindow
    <3>2. (k < Len(runs) => k + 1 \in DOMAIN runs) /\ (k > 0 => k \in DOMAIN runs)
      BY <1>3, <3>1
    <3> QED  BY <1>5, <1>6, <1>8, <3>1, <3>2
  <2>3. ASSUME run'.at \in {"recovery", "backfill"}, k \in 1 .. ScanLimit
        PROVE  run'.startedAge = outage'.age /\ run'.lastCondition = outage'.condition
    <3>1. run.startedAge = outage.age /\ run.lastCondition = outage.condition /\ run # NoRun /\ k > 0
      BY <1>7, <2>3, RunIs DEF MonitorInv, OutageInWindow
    <3> QED  BY <1>7, <1>8, <3>1
  <2> QED  BY <1>8, <2>1, <2>2, <2>3 DEF OutageInWindow
<1>15. AlertInWindow'
  <2>1. sinceAlert \in Nat /\ MaxAge \in Nat /\ Cooldown \in Nat /\ Cooldown <= MaxAge /\ RunsPerTick \in Nat
    BY RunIs, Sizes DEF Ages
  <2>2. sinceAlert >= Cooldown => sinceAlert' >= Cooldown
    BY <1>10, <2>1
  <2>3. ASSUME sinceAlert' < Cooldown
        PROVE  \E i \in 1 .. ScanLimit : AlertAt(i)'
    <3>1. sinceAlert < Cooldown /\ sinceAlert' = sinceAlert + 1
      BY <1>10, <2>1, <2>3
    <3>2. PICK i \in 1 .. ScanLimit : AlertAt(i)
      BY <3>1 DEF MonitorInv, AlertInWindow
    <3>3. /\ i \in DOMAIN runs /\ runs[i].alertSent /\ runs[i].updated = sinceAlert
          /\ \A j \in 1 .. i - 1 : ~runs[j].alertSent
          /\ i + (IF run.at = "none" THEN 0 ELSE 1) <= 1 + sinceAlert * RunsPerTick + started
      BY <3>2 DEF AlertAt
    <3>4. (sinceAlert + 1) * RunsPerTick = sinceAlert * RunsPerTick + RunsPerTick /\ sinceAlert * RunsPerTick \in Nat
      BY <2>1
    <3>5. i + (IF run'.at = "none" THEN 0 ELSE 1) <= 1 + sinceAlert' * RunsPerTick + started'
      <4>1. sinceAlert' * RunsPerTick = sinceAlert * RunsPerTick + RunsPerTick
        BY <3>1, <3>4
      <4>2. started <= RunsPerTick /\ started \in Nat /\ started' = 0 /\ run'.at = run.at
        BY <1>7, <1>2, RunIs, Sizes
      <4>3. CASE run.at = "none"
        BY <2>1, <3>3, <3>4, <4>1, <4>2, <4>3
      <4>4. CASE run.at # "none"
        BY <2>1, <3>3, <3>4, <4>1, <4>2, <4>4
      <4> QED  BY <4>3, <4>4
    <3>6. \A j \in 1 .. i - 1 : j \in DOMAIN runs
      BY <1>3, <3>3
    <3>7. runs'[i].alertSent /\ runs'[i].updated = sinceAlert' /\ \A j \in 1 .. i - 1 : ~runs'[j].alertSent
      BY <1>5, <1>2, <3>3, <3>6
    <3>8. AlertAt(i)'
      BY <1>6, <3>3, <3>5, <3>7 DEF AlertAt
    <3> QED  BY <3>8
  <2> QED  BY <1>7, <2>2, <2>3 DEF MonitorInv, AlertInWindow
<1> QED  BY <1>11, <1>12, <1>13, <1>14, <1>15 DEF MonitorInv

LEMMA MonitorStepKeeps ==
    ASSUME MonitorInv, [MonitorNext]_monitorVars
    PROVE  MonitorInv'
<1>1. CASE RunStep
  BY <1>1, ProbeKeeps, QueryHistoryKeeps, Level1DetectedKeeps, Level1AlertKeeps, Level1RecoveryKeeps,
     Level1BackfillKeeps, Level2SubmitKeeps DEF RunStep
<1>2. CASE UNCHANGED monitorVars
  <2>1. /\ target' = target /\ faults' = faults /\ runs' = runs /\ run' = run /\ started' = started
        /\ reported' = reported /\ sinceAlert' = sinceAlert /\ owed' = owed /\ recoveries' = recoveries
        /\ outage' = outage
    BY <1>2 DEF monitorVars
  <2>2. MonitorTyped' /\ RunFollowsProbe' /\ RecoveryIsOwed' /\ OutageInWindow'
    BY <2>1 DEF MonitorInv, MonitorTyped, RunFollowsProbe, RecoveryIsOwed, OutageInWindow
  <2>3. AlertInWindow'
    BY <2>1 DEF MonitorInv, AlertInWindow, AlertAt
  <2> QED  BY <2>2, <2>3 DEF MonitorInv
<1> QED  BY <1>1, <1>2, StartRunKeeps, SkippedRunKeeps, RunFailsKeeps, TargetChangesKeeps, TickKeeps DEF MonitorNext

\* The invariant holds in every reachable state: what the window tells of the last alert,
\* of the recovery owed and of the present outage (cooldown.mjs).
THEOREM MonitorInvariance == MonitorSpec => []MonitorInv
<1>1. MonitorInit => MonitorInv
  BY MonitorBegins
<1>2. MonitorInv /\ [MonitorNext]_monitorVars => MonitorInv'
  BY MonitorStepKeeps
<1> QED  BY <1>1, <1>2, PTL DEF MonitorSpec

\* For any cooldown, schedule, duration of a run and failures, with a scan that the
\* cooldown and the schedule fit in: alerts are spaced by the cooldown, a recovery is told
\* once and for an outage that was recorded, and the outage that is reported after it has
\* the start and the cause it had (getMonitorHistory, isInCooldown, lastRunLevel1Active).
THEOREM NoticesAreTrueHolds == MonitorSpec => []NoticesAreTrue
<1>1. ASSUME MonitorInv  PROVE NoticesAreTrue
  <2>1. MonitorTypeOK
    BY <1>1 DEF MonitorInv, MonitorTyped, MonitorTypeOK, RunRows
  <2>2. AlertsAreSpaced
    BY <1>1 DEF MonitorInv, AlertInWindow, AlertsAreSpaced
  <2>3. RecoveryOncePerOutage
    BY <1>1 DEF MonitorInv, RecoveryIsOwed, RecoveryOncePerOutage
  <2>4. BackfillTellsTheOutage
    BY <1>1 DEF MonitorInv, OutageInWindow, BackfillTellsTheOutage
  <2> QED  BY <2>1, <2>2, <2>3, <2>4 DEF NoticesAreTrue
<1> QED  BY <1>1, MonitorInvariance, PTL
===============================================================================
