------------------------- MODULE MCSequenceSessions -------------------------
(* Two stages: one with an engine, hints and remediation, one to read.     *)
EXTENDS SequenceSessions

MCDefinition ==
    <<[interactive |-> TRUE, trigger |-> "ON_ENGINE_EVALUATION_CORRECT", hints |-> 1, tries |-> 1,
       remediation |-> TRUE, checkpoint |-> TRUE],
      [interactive |-> FALSE, trigger |-> "ON_STAGE_CONFIRM", hints |-> 0, tries |-> 0,
       remediation |-> FALSE, checkpoint |-> FALSE]>>
=============================================================================
