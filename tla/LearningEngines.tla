-------------------------- MODULE LearningEngines --------------------------
(***************************************************************************)
(* The three production engines (quick question, drag and drop, balance    *)
(* machine) and the replay of an action log, shared by the page and by the *)
(* server that scores a completed attempt.                                 *)
(*                                                                         *)
(* Identifiers and entered values are integers; the texts an engine only   *)
(* shows are left out.  An action is                                       *)
(*    [actionType, targetRole, item, value]                                *)
(* where item is the token or item moved and value the option, the number, *)
(* the target or the side (1 left, 2 right) chosen.                        *)
(***************************************************************************)
EXTENDS Integers, Sequences, FiniteSets, SequencesExt, FiniteSetsExt, Functions

CONSTANT Null

Do(type, role, item, value) ==
    [actionType |-> type, targetRole |-> role, item |-> item, value |-> value]

Confirm == Do("CONFIRM_SOLUTION", "confirm-button", Null, Null)
ResetStage == Do("RESET_STAGE", Null, Null, Null)
EnterValue(v) == Do("ENTER_VALUE", "value-input", Null, v)
SelectOption(o) == Do("SELECT_OPTION", "option", Null, o)
PlaceToken(t, side) == Do("PLACE_ITEM", "weight-token", t, side)
PlaceOnTarget(i, t) == Do("PLACE_ITEM", "drop-target", i, t)

----------------------------------------------------------------------------
(* Quick question.  A single question is a set of one item whose mode is   *)
(* that of the configuration.                                              *)

OptionItem(id, options, correct) ==
    [itemId |-> id, mode |-> "OPTION_SELECTION", options |-> options,
     correctOptionId |-> correct, expectedValue |-> Null, tolerance |-> 0]

ValueItem(id, expected, tolerance) ==
    [itemId |-> id, mode |-> "ENTER_VALUE", options |-> <<>>,
     correctOptionId |-> Null, expectedValue |-> expected, tolerance |-> tolerance]

QuickConfig(mode, items) == [engine |-> "QUICK-QUESTION", mode |-> mode, items |-> items]

ValidItem(item) ==
    \/ /\ item.mode = "OPTION_SELECTION"
       /\ Len(item.options) >= 2 /\ IsInjective(item.options)
       /\ item.correctOptionId \in Range(item.options)
    \/ /\ item.mode = "ENTER_VALUE"
       /\ item.tolerance >= 0

ValidQuick(c) ==
    /\ Len(c.items) >= 1
    /\ \A i \in DOMAIN c.items : ValidItem(c.items[i])
    /\ \/ c.mode = "ITEM_SET" /\ IsInjective([i \in DOMAIN c.items |-> c.items[i].itemId])
       \/ c.mode = c.items[1].mode /\ Len(c.items) = 1

InitQuick == [selected |-> Null, entered |-> Null, confirmed |-> FALSE, index |-> 0,
              results |-> <<>>]

\* currentSetItem, and the configuration itself outside ITEM_SET.
CurrentItem(c, st) == IF st.index < Len(c.items) THEN c.items[st.index + 1] ELSE Null

ItemCorrect(item, st) ==
    \/ item.mode = "OPTION_SELECTION" /\ st.selected = item.correctOptionId
    \/ /\ item.mode = "ENTER_VALUE" /\ st.entered # Null
       /\ (st.entered - item.expectedValue) \in (-item.tolerance) .. item.tolerance

HasAnswer(item, st) == IF item.mode = "OPTION_SELECTION" THEN st.selected # Null
                       ELSE st.entered # Null

AcceptsQuick(st, c, a) ==
    LET item == CurrentItem(c, st)
    IN \/ a.actionType = "RESET_STAGE"
       \/ /\ a.actionType = "SELECT_OPTION" /\ a.targetRole = "option" /\ item # Null
          /\ item.mode = "OPTION_SELECTION" /\ a.value \in Range(item.options)
       \/ /\ a.actionType = "ENTER_VALUE" /\ a.targetRole = "value-input" /\ item # Null
          /\ item.mode = "ENTER_VALUE" /\ a.value \in Int
       \/ /\ a.actionType = "CONFIRM_SOLUTION" /\ a.targetRole = "confirm-button"
          /\ item # Null /\ HasAnswer(item, st)

ConfirmItem(st, c) ==
    [selected  |-> Null, entered |-> Null, index |-> st.index + 1,
     confirmed |-> st.index + 1 >= Len(c.items),
     results   |-> Append(st.results, ItemCorrect(CurrentItem(c, st), st))]

ApplyQuick(st, c, a) ==
    CASE a.actionType = "RESET_STAGE"   -> InitQuick
      [] a.actionType = "SELECT_OPTION" -> [st EXCEPT !.selected = a.value, !.confirmed = FALSE]
      [] a.actionType = "ENTER_VALUE"   -> [st EXCEPT !.entered = a.value, !.confirmed = FALSE]
      [] OTHER -> IF c.mode = "ITEM_SET" THEN ConfirmItem(st, c) ELSE [st EXCEPT !.confirmed = TRUE]

QuickEvaluated(st, c) ==
    /\ st.confirmed
    /\ IF c.mode = "ITEM_SET" THEN Len(st.results) >= Len(c.items)
       ELSE HasAnswer(c.items[1], st)

QuickCorrect(st, c) == IF c.mode = "ITEM_SET" THEN \A i \in DOMAIN st.results : st.results[i]
                       ELSE ItemCorrect(c.items[1], st)

----------------------------------------------------------------------------
(* Placing engines: tokens on the sides of the balance, items on targets.  *)
(* placements is a function on what has been placed.                       *)

InitPlacing == [placements |-> <<>>, confirmed |-> FALSE]

Place(st, a) == [placements |-> (a.item :> a.value) @@ st.placements, confirmed |-> FALSE]

ConfirmPlacing(st) == [st EXCEPT !.confirmed = TRUE]

ApplyPlacing(st, a) ==
    CASE a.actionType = "RESET_STAGE"      -> InitPlacing
      [] a.actionType = "CONFIRM_SOLUTION" -> ConfirmPlacing(st)
      [] OTHER                             -> Place(st, a)

AcceptsConfirm(st, a) == /\ a.actionType = "CONFIRM_SOLUTION" /\ a.targetRole = "confirm-button"
                         /\ DOMAIN st.placements # {}

DragConfig(items, targets, mapping) ==
    [engine |-> "DRAG-DROP", items |-> items, targets |-> targets, mapping |-> mapping]

ValidDrag(c) ==
    /\ Len(c.items) > 0 /\ IsInjective(c.items)
    /\ Len(c.targets) > 0 /\ IsInjective(c.targets)
    /\ Len(c.mapping) > 0
    /\ \A i \in DOMAIN c.mapping : /\ c.mapping[i].item \in Range(c.items)
                                   /\ c.mapping[i].target \in Range(c.targets)

AcceptsDrag(st, c, a) ==
    \/ a.actionType = "RESET_STAGE"
    \/ AcceptsConfirm(st, a)
    \/ /\ a.actionType \in {"PLACE_ITEM", "MOVE_ITEM"} /\ a.targetRole = "drop-target"
       /\ a.item \in Range(c.items) /\ a.value \in Range(c.targets)

DragCorrect(st, c) ==
    \A i \in DOMAIN c.mapping : /\ c.mapping[i].item \in DOMAIN st.placements
                                /\ st.placements[c.mapping[i].item] = c.mapping[i].target

BalanceConfig(tokens) == [engine |-> "BALANCE-MACHINE", tokens |-> tokens]

ValidBalance(c) ==
    /\ Len(c.tokens) > 0
    /\ IsInjective([i \in DOMAIN c.tokens |-> c.tokens[i].tokenId])
    /\ \A i \in DOMAIN c.tokens : c.tokens[i].weight > 0

TokenIds(c) == {c.tokens[i].tokenId : i \in DOMAIN c.tokens}

AcceptsBalance(st, c, a) ==
    \/ a.actionType = "RESET_STAGE"
    \/ AcceptsConfirm(st, a)
    \/ /\ a.actionType = "PLACE_ITEM" /\ a.targetRole = "weight-token"
       /\ a.item \in TokenIds(c) /\ a.value \in {1, 2}

Weight(st, c, side) ==
    LET on == {i \in DOMAIN c.tokens : /\ c.tokens[i].tokenId \in DOMAIN st.placements
                                       /\ st.placements[c.tokens[i].tokenId] = side}
        weight(i) == c.tokens[i].weight
    IN MapThenSumSet(weight, on)

BalanceCorrect(st, c) == Weight(st, c, 1) = Weight(st, c, 2)

\* Every placed token is one of the configuration: AcceptsBalance saw to it.
PlacingEvaluated(st) == st.confirmed /\ DOMAIN st.placements # {}

----------------------------------------------------------------------------
(* EngineRuntimeRegistry: the engine of a configuration.                   *)

ValidateConfig(c) == CASE c.engine = "QUICK-QUESTION"  -> ValidQuick(c)
                       [] c.engine = "DRAG-DROP"       -> ValidDrag(c)
                       [] c.engine = "BALANCE-MACHINE" -> ValidBalance(c)

InitState(c) == IF c.engine = "QUICK-QUESTION" THEN InitQuick ELSE InitPlacing

Accepts(st, c, a) == CASE c.engine = "QUICK-QUESTION"  -> AcceptsQuick(st, c, a)
                       [] c.engine = "DRAG-DROP"       -> AcceptsDrag(st, c, a)
                       [] c.engine = "BALANCE-MACHINE" -> AcceptsBalance(st, c, a)

Apply(st, c, a) == IF c.engine = "QUICK-QUESTION" THEN ApplyQuick(st, c, a)
                   ELSE ApplyPlacing(st, a)

\* The correctness an engine reports, or Null when there is nothing to report.
Evaluate(st, c) ==
    LET quick == c.engine = "QUICK-QUESTION"
        correct == CASE quick                  -> QuickCorrect(st, c)
                     [] c.engine = "DRAG-DROP" -> DragCorrect(st, c)
                     [] OTHER                  -> BalanceCorrect(st, c)
    IN IF ~(IF quick THEN QuickEvaluated(st, c) ELSE PlacingEvaluated(st)) THEN Null
       ELSE IF correct THEN "CORRECT" ELSE "INCORRECT"

\* replayActions: a rejected action is skipped.
Replay(c, actions) ==
    LET step(st, a) == IF Accepts(st, c, a) THEN Apply(st, c, a) ELSE st
    IN FoldLeft(step, InitState(c), actions)
=============================================================================
