--------------------------- MODULE MCExternalMonitor ---------------------------
(***************************************************************************)
(* The monitor as it is configured: a cooldown of three periods (fifteen   *)
(* minutes, every five), one run in each, with the smallest scan that the  *)
(* cooldown allows, so that outages longer than it and alerts at its edge  *)
(* both happen.  A target that goes down in the middle of a probe shows    *)
(* all three Level 1 conditions.                                           *)
(***************************************************************************)
EXTENDS ExternalMonitor

Up(expiring, slow) == [down |-> None, expiring |-> expiring, slow |-> slow]
Down(layer) == [down |-> layer, expiring |-> FALSE, slow |-> FALSE]

MCTargets == {Up(TRUE, TRUE), Down("HOST")}

=============================================================================
