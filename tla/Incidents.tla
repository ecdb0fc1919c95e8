----------------------------- MODULE Incidents -----------------------------
(***************************************************************************)
(* The tables of packages/operations and the statements that its           *)
(* repositories run against them: incidents, the alert channel and its     *)
(* deliveries, the presence of users, the health of services.  An operator *)
(* is one statement on one row.                                            *)
(*                                                                         *)
(* The deduplication key (type, service, source) of an incident is one     *)
(* value, which has a severity, 1 for SEV-1.  Times are numbers of ticks.  *)
(***************************************************************************)
EXTENDS Naturals, FiniteSets

CONSTANTS
    DedupKeys, SeverityOf,    \* condition-mapping.ts and severity.ts
    MaxNow, MaxCount          \* bounds on the clock and on occurrence_count

ASSUME SeverityAssumption == SeverityOf \in [DedupKeys -> 1 .. 4] /\ MaxCount \in Nat \ {0}

Times == 0 .. MaxNow
Never == MaxNow + 1           \* a time column that is NULL

IncidentStatuses == {"OPEN", "ACKNOWLEDGED", "RESOLVED"}
IncidentRows == [status : IncidentStatuses \union {"ABSENT"}, key : DedupKeys, count : 0 .. MaxCount,
                 notified : Times \union {Never}, detectedAt : Times, resolvedAt : Times \union {Never},
                 backfilled : BOOLEAN]
NoIncident(key) == [status |-> "ABSENT", key |-> key, count |-> 0, notified |-> Never, detectedAt |-> 0,
                    resolvedAt |-> Never, backfilled |-> FALSE]
NewIncident(key, now) == [NoIncident(key) EXCEPT !.status = "OPEN", !.count = 1, !.detectedAt = now]

\* createBackfilled: the times are the caller's; a resolution time makes it RESOLVED.
Backfilled(key, detectedAt, resolvedAt) ==
    [NewIncident(key, detectedAt) EXCEPT !.backfilled = TRUE, !.resolvedAt = resolvedAt,
                                         !.status = IF resolvedAt = Never THEN "OPEN" ELSE "RESOLVED"]

\* recordOccurrence, resolve and resolveBackfilled name the row and no status.
Occurred(row, read) == [row EXCEPT !.count = @ + 1]
Resolved(row, now) == [row EXCEPT !.status = "RESOLVED", !.resolvedAt = now]
ResolvedBackfilled(row, resolvedAt) == [row EXCEPT !.status = "RESOLVED", !.resolvedAt = resolvedAt]
Notified(row, now) == [row EXCEPT !.notified = now]

Acknowledged(row) == IF row.status = "OPEN" THEN [row EXCEPT !.status = "ACKNOWLEDGED"] ELSE row

IsOpen(row) == row.status \in {"OPEN", "ACKNOWLEDGED"}
OpenFor(incident, key) == {i \in DOMAIN incident : IsOpen(incident[i]) /\ incident[i].key = key}

----------------------------------------------------------------------------
(* alert_configuration and alert_delivery *)

ConfigRows == [exists : BOOLEAN, enabled : BOOLEAN, threshold : 1 .. 4, cooldown : Nat, credential : BOOLEAN]
NoConfig == [exists |-> FALSE, enabled |-> FALSE, threshold |-> 2, cooldown |-> 2, credential |-> FALSE]

WrongUpserted(enabled, threshold, cooldown, credential) ==          \* credential_ref is left out
    [exists |-> TRUE, enabled |-> enabled, threshold |-> threshold, cooldown |-> cooldown, credential |-> FALSE]
Upserted(enabled, threshold, cooldown, credential) ==
    [exists |-> TRUE, enabled |-> enabled, threshold |-> threshold, cooldown |-> cooldown, credential |-> credential]

\* provisionCredentialReferences leaves what the administrators chose alone.
Provisioned(row) == [row EXCEPT !.exists = TRUE, !.credential = TRUE]

MeetsThreshold(severity, threshold) == severity <= threshold

\* The three conditions of evaluateAndNotify; notified is of the row it was given.
ShouldAlert(row, key, notified, now) ==
    /\ row.exists /\ row.enabled
    /\ MeetsThreshold(SeverityOf[key], row.threshold)
    /\ notified = Never \/ now - notified >= row.cooldown

DeliveryRows(Ids) == [kind : {"NONE", "ALERT", "RECOVERY", "TEST"}, incident : Ids,
                      status : {"PENDING", "SENT", "FAILED"}, at : Times]

----------------------------------------------------------------------------
(* service_health_state: the latest row of each service *)

CriticalServices == {"API", "POSTGRES", "REVERSE_PROXY", "STUDENT_WEB", "DASHBOARD"}
HealthRows == [state : {"HEALTHY", "DEGRADED", "CRITICAL"}, at : Times]

\* aggregatePlatformHealth, as its callers use it: for critical services alone.
AggregatePlatformHealth(health, stale) ==
    IF stale # {} /\ 2 * Cardinality(stale) > Cardinality(DOMAIN health) THEN "UNKNOWN"
    ELSE IF \E s \in DOMAIN health : health[s].state = "CRITICAL" THEN "CRITICAL"
    ELSE IF \E s \in DOMAIN health : health[s].state = "DEGRADED" THEN "DEGRADED"
    ELSE "HEALTHY"

----------------------------------------------------------------------------
(* user_presence *)

\* A write within the window of the last one is dropped.
Heartbeat(lastSeen, now, coalesce) ==
    IF lastSeen = Never \/ now - lastSeen > coalesce THEN now ELSE lastSeen

DerivePresenceState(lastSeen, now, online, idle) ==
    CASE lastSeen = Never -> "OFFLINE"
      [] lastSeen # Never /\ now - lastSeen <= online -> "ONLINE"
      [] lastSeen # Never /\ now - lastSeen > online /\ now - lastSeen <= idle -> "IDLE"
      [] OTHER -> "OFFLINE"
=============================================================================
