---------------------------- MODULE MCOperations ----------------------------
(* Five scenes.  An open incident of the monitor with reports and          *)
(* acknowledgements; an acknowledged one of the probe with more probes and *)
(* changes of configuration; changes of a channel that is being set up;    *)
(* any one request while keys are rotated; users who come and go.          *)
EXTENDS Operations, TLC

CONSTANTS degraded, pgdown, apidown, i0, kOld, kNew, n1, n2, u1, h1, h2, o1, o2

Severity == (degraded :> 3) @@ (pgdown :> 1) @@ (apidown :> 1)
Probed == [API |-> apidown, POSTGRES |-> pgdown]

\* The clock of the monitor is one tick ahead of the server's at the start.
Sent == {[keyId |-> k, nonce |-> n, timestamp |-> 1, secret |-> s] :
           k \in {kOld, kNew}, n \in {n1, n2}, s \in {"CURRENT", "PREVIOUS"}}

Enabled == Upserted(TRUE, 3, 2, TRUE)

MCInit ==
    \/ OpsInit([i \in Known |-> NewIncident(degraded, 0)], Enabled, Calls, {"report", "acknowledge"}, {kOld}, {})
    \/ OpsInit([i \in Known |-> [NewIncident(pgdown, 0) EXCEPT !.status = "ACKNOWLEDGED"]], Enabled, Calls,
               {"probe", "configure"}, {}, {})
    \/ OpsInit([i \in Known |-> Backfilled(degraded, 0, 0)], NoConfig, Calls, {"test", "configure"}, {}, {})
    \/ \E h \in Calls : OpsInit([i \in Known |-> Backfilled(degraded, 0, 0)], NoConfig, {h}, Ops, {kOld, kNew}, {})
    \/ OpsInit([i \in Known |-> Backfilled(degraded, 0, 0)], NoConfig, {}, {}, {}, {u1})
MCSpec == MCInit /\ [][OpsNext]_operationVars

Interchangeable == Permutations(Keys) \union Permutations(Calls) \union Permutations({n1, n2})
=============================================================================
