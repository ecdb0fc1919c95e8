-------------------------- MODULE MCActivityPages --------------------------
(***************************************************************************)
(* The published activities.  A page of its own for the two questions and  *)
(* the reading after them, the exercise, the page to read and the balance; *)
(* and the full sequence resumed at the question with hints (two groups    *)
(* follow) and at the balance (the end follows).  The student tries the    *)
(* right answers and wrong ones, and may always reset.                     *)
(***************************************************************************)
EXTENDS ActivityPages

Scene(host, bundle, start, maxActions, maxSaves, maxReloads, maxFaults) ==
    [host |-> host, bundle |-> bundle, start |-> start, maxActions |-> maxActions,
     maxSaves |-> maxSaves, maxReloads |-> maxReloads, maxFaults |-> maxFaults]

StageNumber(id) == CHOOSE i \in DOMAIN WEB_TRANCHE6_FULL_SEQUENCE :
                       WEB_TRANCHE6_FULL_SEQUENCE[i].id = id

MCScenes == {Scene("ActivityPage", "TRANCHE3", 1, 4, 1, 1, 0),
             Scene("ActivityPage", "TRANCHE4", 1, 3, 2, 1, 1),
             Scene("ActivityPage", "TRANCHE5", 1, 0, 2, 1, 1),
             Scene("ActivityPage", "M4", 1, 4, 1, 1, 1),
             Scene("FullSequenceHost", Null, StageNumber("guided-practice"), 2, 2, 1, 0),
             Scene("FullSequenceHost", Null, StageNumber("balance-verification"), 4, 1, 1, 0)}

MCClicks(c) ==
    CASE c.engine = "BALANCE-MACHINE" -> {PlaceToken(1, 1), PlaceToken(2, 2), PlaceToken(3, 2)}
      [] c.engine = "DRAG-DROP" -> {PlaceOnTarget(1, 1), PlaceOnTarget(2, 2), PlaceOnTarget(2, 1)}
      [] c = WEB_TRANCHE1_CONFIG -> {EnterValue(7), EnterValue(0)}
      [] c = WEB_TRANCHE2_CONFIG -> {}
      [] OTHER -> {SelectOption(1), SelectOption(3)}

Solution(b) ==
    CASE b = "M4" -> <<PlaceToken(1, 1), PlaceToken(2, 2), PlaceToken(3, 2), Confirm>>
      [] b = "TRANCHE1" -> <<EnterValue(7), Confirm>>
      [] b = "TRANCHE2" -> <<SelectOption(2), Confirm, SelectOption(4), Confirm, EnterValue(13), Confirm,
                             EnterValue(6), Confirm, EnterValue(4), Confirm, EnterValue(5), Confirm>>
      [] b = "TRANCHE3" -> <<SelectOption(1), Confirm, SelectOption(3), Confirm>>
      [] b = "TRANCHE4" -> <<PlaceOnTarget(1, 1), PlaceOnTarget(2, 2), Confirm>>
      [] OTHER -> <<>>

\* Every published configuration is valid, its solution is scored as correct, and
\* anything short of it is not.
ASSUME ContentIsSolvable ==
    \A b \in Bundles : KNOWN_CONTENT_DISPATCH[b] # Null =>
        /\ ValidateConfig(KNOWN_CONTENT_DISPATCH[b])
        /\ ComputeOutcome(b, Solution(b)) = "CORRECT"
        /\ \A n \in 1 .. Len(Solution(b)) - 1 :
               ComputeOutcome(b, SubSeq(Solution(b), 1, n)) # "CORRECT"
=============================================================================
