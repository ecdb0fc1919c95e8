-------------------------- MODULE ActivityContent --------------------------
(***************************************************************************)
(* The published activities: the configuration of every interactive stage, *)
(* the stage sequence of every activity and of the full sequence, and what *)
(* the server dispatches a completed attempt to.                           *)
(*                                                                         *)
(* A bundle is named after its tranche.  Options A to D are 1 to 4.        *)
(***************************************************************************)
EXTENDS LearningEngines

Letters == <<1, 2, 3, 4>>

Token(id, weight) == [tokenId |-> id, weight |-> weight]
Pair(item, target) == [item |-> item, target |-> target]

WEB_M4_CONFIG == BalanceConfig(<<Token(1, 15), Token(2, 11), Token(3, 4)>>)

WEB_TRANCHE1_CONFIG == QuickConfig("ENTER_VALUE", <<ValueItem(1, 7, 0)>>)

WEB_TRANCHE2_CONFIG ==
    QuickConfig("ITEM_SET", <<OptionItem(3, Letters, 2), OptionItem(4, Letters, 4),
                              ValueItem(6, 13, 0), ValueItem(7, 6, 0),
                              ValueItem(9, 4, 0), ValueItem(10, 5, 0)>>)

WEB_TRANCHE3_CONFIG ==
    QuickConfig("ITEM_SET", <<OptionItem(1, Letters, 1), OptionItem(2, Letters, 3)>>)

WEB_TRANCHE4_CONFIG == DragConfig(<<1, 2>>, <<1, 2>>, <<Pair(1, 1), Pair(2, 2)>>)

----------------------------------------------------------------------------
(* A stage: the engine configuration the page gives it (Null when it is    *)
(* not interactive), when it is passed, and its number of hint levels.     *)

Interactive(id, config, trigger, hints) ==
    [id |-> id, config |-> config, trigger |-> trigger, hints |-> hints]

Reading(id) == [id |-> id, config |-> Null, trigger |-> "MANUAL", hints |-> 0]

OnCorrect == "ON_ENGINE_EVALUATION_CORRECT"
OnAny == "ON_ENGINE_EVALUATION_ANY"

WEB_M4_SEQUENCE == <<Interactive("balance-verification", WEB_M4_CONFIG, OnCorrect, 0)>>

WEB_TRANCHE1_SEQUENCE ==
    <<Interactive("guided-practice", WEB_TRANCHE1_CONFIG, OnCorrect, 4),
      Reading("reflection-and-result")>>

WEB_TRANCHE2_SEQUENCE == <<Interactive("quick-question-set", WEB_TRANCHE2_CONFIG, OnAny, 0)>>

MICRO_LESSON_STEPS ==
    <<Reading("micro-lesson-equilibrium"),    Reading("micro-lesson-example-step-1"),
      Reading("micro-lesson-example-step-2"), Reading("micro-lesson-example-step-3"),
      Reading("micro-lesson-example-step-4"), Reading("micro-lesson-example-step-5"),
      Reading("micro-lesson-example-step-6")>>

WEB_TRANCHE3_SEQUENCE ==
    <<Interactive("prerequisite-check", WEB_TRANCHE3_CONFIG, OnAny, 0)>> \o MICRO_LESSON_STEPS

WEB_TRANCHE4_SEQUENCE ==
    <<Interactive("interactive-exercise", WEB_TRANCHE4_CONFIG, OnCorrect, 0)>>

WEB_TRANCHE5_SEQUENCE == <<Reading("intro-hook")>>

WEB_TRANCHE6_REFLECTION_SEQUENCE == <<Reading("reflection-and-result")>>

WEB_TRANCHE6_FULL_SEQUENCE ==
    LET guided(stage) == stage.id = "guided-practice"
    IN WEB_TRANCHE5_SEQUENCE \o WEB_TRANCHE3_SEQUENCE \o WEB_TRANCHE2_SEQUENCE
         \o SelectSeq(WEB_TRANCHE1_SEQUENCE, guided) \o WEB_TRANCHE4_SEQUENCE
         \o WEB_M4_SEQUENCE \o WEB_TRANCHE6_REFLECTION_SEQUENCE

Bundles == {"M4", "TRANCHE1", "TRANCHE2", "TRANCHE3", "TRANCHE4", "TRANCHE5", "TRANCHE6"}

\* ACTIVITY_REGISTRY: the page of one activity; the reflection has none.
ACTIVITY_REGISTRY ==
    [M4       |-> WEB_M4_SEQUENCE,       TRANCHE1 |-> WEB_TRANCHE1_SEQUENCE,
     TRANCHE2 |-> WEB_TRANCHE2_SEQUENCE, TRANCHE3 |-> WEB_TRANCHE3_SEQUENCE,
     TRANCHE4 |-> WEB_TRANCHE4_SEQUENCE, TRANCHE5 |-> WEB_TRANCHE5_SEQUENCE]

WEB_TRANCHE6_STAGE_GROUPS ==
    [TRANCHE5 |-> "intro-hook",           TRANCHE3 |-> "prerequisite-check",
     TRANCHE2 |-> "quick-question-set",   TRANCHE1 |-> "guided-practice",
     TRANCHE4 |-> "interactive-exercise", M4       |-> "balance-verification",
     TRANCHE6 |-> "reflection-and-result"]

\* The group of the i-th stage: the last one whose head is at or before it.
ResolveStageGroup(i) ==
    LET head(b) == SelectInSeq(WEB_TRANCHE6_FULL_SEQUENCE,
                               LAMBDA stage : stage.id = WEB_TRANCHE6_STAGE_GROUPS[b])
    IN CHOOSE b \in Bundles : /\ head(b) <= i
                              /\ \A other \in Bundles : head(other) <= i => head(other) <= head(b)

\* KNOWN_CONTENT_DISPATCH; the intro and the reflection have no engine.
KNOWN_CONTENT_DISPATCH ==
    [M4       |-> WEB_M4_CONFIG,       TRANCHE1 |-> WEB_TRANCHE1_CONFIG,
     TRANCHE2 |-> WEB_TRANCHE2_CONFIG, TRANCHE3 |-> WEB_TRANCHE3_CONFIG,
     TRANCHE4 |-> WEB_TRANCHE4_CONFIG, TRANCHE5 |-> Null, TRANCHE6 |-> Null]

WhollyNonInteractive(b) == b \in {"TRANCHE5", "TRANCHE6"}

\* computeOutcome: the score of a log, Null when nothing was evaluated.
ComputeOutcome(b, actions) ==
    LET config == KNOWN_CONTENT_DISPATCH[b]
    IN IF config = Null THEN Null
       ELSE IF ~ValidateConfig(config) THEN Null
       ELSE Evaluate(Replay(config, actions), config)
=============================================================================
