----------------------------- MODULE Operations -----------------------------
(***************************************************************************)
(* The operations control center: reports of the external monitor          *)
(* (ExternalMonitorAuthService, ExternalMonitorReportService), the probe    *)
(* of the host (HealthProbeService, tools/operations-health-probe.ts), the *)
(* administrators' acknowledgements, configuration and test alerts         *)
(* (IncidentService, AlertService), key rotation and heartbeats.           *)
(*                                                                         *)
(* Every statement is a step, except that a report is authenticated in one *)
(* step: the clock does not tick between its timestamp check and its nonce *)
(* check.  Incidents and deliveries have the name of the call that inserts *)
(* them.  A key stands for an observationId, or for an administrator with  *)
(* an Idempotency-Key.                                                     *)
(***************************************************************************)
EXTENDS ServiceCalls, Incidents

CONSTANTS
    Known,               \* incidents that exist at the start
    ReportKeys,          \* the deduplication keys the monitor may report
    ProbeKey,            \* the deduplication key of each service that is probed
    Credentials,         \* what a report is signed with: [keyId, nonce, timestamp, secret]
    KeyIds, NextKey,     \* external_monitor_key_metadata; the key to rotate in
    Tolerance,           \* of timestamps
    NonceRetention,      \* how long nonces are kept
    Thresholds, Cooldowns, CooldownFloor,   \* what administrators choose from
    Actors, CoalesceWindow, OnlineThreshold, IdleThreshold, StaleAfter

ASSUME WindowAssumption ==
    /\ NonceRetention >= 2 * Tolerance     \* 10 minutes, 300 seconds either way
    /\ CoalesceWindow <= OnlineThreshold /\ OnlineThreshold <= IdleThreshold

Ids == Known \union Calls

\* The monitor makes a nonce for each request, and its timestamp with it (level2-submit.mjs).
ASSUME OperationsAssumption ==
    /\ Known \intersect Calls = {} /\ Null \notin Ids /\ IsFiniteSet(Ids)
    /\ DedupKeys # {} /\ ReportKeys \subseteq DedupKeys /\ ProbeKey \in [{"API", "POSTGRES"} -> DedupKeys]
    /\ IsFiniteSet(KeyIds) /\ \A c \in Credentials : c.timestamp \in Nat
    /\ \A c, d \in Credentials : c.keyId = d.keyId /\ c.nonce = d.nonce => c.timestamp = d.timestamp
    /\ Thresholds \subseteq 1 .. 4 /\ Cooldowns \subseteq Nat
    /\ {MaxNow, Tolerance, NonceRetention, CoalesceWindow, OnlineThreshold, IdleThreshold, StaleAfter} \subseteq Nat

VARIABLES
    incident,      \* operational_incident
    log,           \* operational_incident_event: <<incident, type, call>>, Null: before
    config,        \* alert_configuration, of the one channel
    delivery,      \* alert_delivery, by call
    health,        \* service_health_state, the latest by service
    presence,      \* user_presence.last_seen_at
    nonces,        \* external_monitor_nonce_seen: <<keyId, nonce, seen_at>>
    keyStatus,     \* external_monitor_key_metadata
    now,
    offered,       \* the operations that are asked for, which never changes
    held,          \* what a call has read
    \* for the properties:
    past,          \* the calls that had ended when a call arrived
    accepted,      \* the credentials a call was accepted with
    wrote,         \* the calls that changed an incident, with their observation
    failed,        \* the calls that failed or died
    beat           \* the last heartbeat of an actor

incidentVars == <<incident, log, wrote>>
alertVars == <<config, delivery>>
hostVars == <<health, presence, beat>>
authVars == <<nonces, keyStatus, accepted>>
timeVars == <<now, past, failed, offered>>
opsVars == <<incidentVars, alertVars, hostVars, authVars, timeVars, held>>
operationVars == <<opsVars, callVars>>

Ops == {"report", "acknowledge", "configure", "test", "probe"}
NoBody == [key |-> Null, state |-> Null, backfill |-> FALSE, incident |-> Null,
           enabled |-> FALSE, threshold |-> 2, cooldown |-> 0]
Bodies == [key : ReportKeys \union {Null}, state : {"DETECTED", "RECOVERED", Null}, backfill : BOOLEAN,
           incident : Ids \union {Null}, enabled : BOOLEAN, threshold : 1 .. 4, cooldown : Cooldowns \union {0}]
NoneHeld == [incident |-> Null, notified |-> Never, count |-> 0, event |-> Null, service |-> Null,
             critical |-> FALSE, credential |-> FALSE]
NoDelivery == [kind |-> "NONE", incident |-> Null, status |-> "PENDING", at |-> 0]
NoCredentials == [keyId |-> Null, nonce |-> Null, timestamp |-> 0, secret |-> Null]

\* The keys and the users of a scene may be none.
OpsInit(incidents, configuration, coming, ops, keys, users) ==
    /\ offered = ops
    /\ incident = [i \in Ids |-> IF i \in Known THEN incidents[i] ELSE NoIncident(CHOOSE k \in DedupKeys : TRUE)]
    /\ log = {<<i, "OPENED", Null>> : i \in {i \in Ids : incident[i].status # "ABSENT"}}
    /\ config = configuration
    /\ delivery = [h \in Calls |-> NoDelivery]
    /\ health = [s \in {} |-> 0]
    /\ presence = [a \in users |-> Never] /\ beat = [a \in users |-> Never]
    /\ nonces = {} /\ keyStatus = [k \in keys |-> IF k = NextKey THEN "ABSENT" ELSE "CURRENT"]
    /\ now = 0
    /\ held = [h \in Calls |-> NoneHeld]
    /\ past = [h \in Calls |-> {}] /\ accepted = [h \in Calls |-> NoCredentials]
    /\ wrote = {} /\ failed = {}
    /\ CallsInit(coming)

OpsTypeOK ==
    /\ incident \in [Ids -> IncidentRows]
    /\ \A k \in DedupKeys : Cardinality(OpenFor(incident, k)) <= 1     \* the partial unique index
    /\ \A i \in Ids : incident[i].status = "RESOLVED" => incident[i].resolvedAt # Never
    /\ log \subseteq Ids \X {"OPENED", "OCCURRENCE", "ACKNOWLEDGED", "RESOLVED"} \X (Calls \union {Null})
    /\ config \in ConfigRows
    /\ delivery \in [Calls -> DeliveryRows(Ids \union {Null})]
    /\ DOMAIN health \subseteq CriticalServices /\ \A s \in DOMAIN health : health[s] \in HealthRows
    /\ DOMAIN presence \subseteq Actors /\ \A a \in DOMAIN presence : presence[a] \in Times \union {Never}
    /\ DOMAIN keyStatus \subseteq KeyIds /\ \A k \in DOMAIN keyStatus : keyStatus[k] \in {"ABSENT", "CURRENT", "PREVIOUS"}
    /\ Cardinality({k \in DOMAIN keyStatus : keyStatus[k] = "CURRENT"}) <= 1     \* the partial unique index
    /\ now \in Times /\ offered \subseteq Ops
    /\ CallsTypeOK(Ops, Bodies, {}, {"find", "occur", "create", "resolve", "event", "config", "deliver", "send",
                                     "notified", "run", "upsert", "health"})

----------------------------------------------------------------------------
(* Arrivals *)

Arrives(h) ==
    /\ past' = [past EXCEPT ![h] = {g \in Calls : call[g].at = "done"}]
    /\ UNCHANGED <<incidentVars, alertVars, hostVars, now, failed, offered, held>>

\* What the dashboard's client sends, with a new key for every call, and what the monitor sends.
AcknowledgeOperationsIncident(i) == [NoBody EXCEPT !.incident = i]
UpdateAlertConfiguration(enabled, threshold, cooldown) ==
    [NoBody EXCEPT !.enabled = enabled, !.threshold = threshold, !.cooldown = cooldown]
ReportBody(k, state, backfill) == [NoBody EXCEPT !.key = k, !.state = state, !.backfill = backfill]

\* A platform administrator with the capability the route asks for.
Asks(h, op, body, key, place) ==
    op \in offered /\ Admit(h, op, body, key, TRUE, place) /\ Arrives(h) /\ UNCHANGED authVars

PostAcknowledge(h, key, i) == Asks(h, "acknowledge", AcknowledgeOperationsIncident(i), key, "begin")
PutAlertConfiguration(h, key, enabled, threshold, cooldown) ==
    /\ cooldown >= CooldownFloor            \* otherwise ALERT_CONFIGURATION_INVALID
    /\ Asks(h, "configure", UpdateAlertConfiguration(enabled, threshold, cooldown),
            key, "begin")
PostAlertTest(h, key) == config.exists /\ Asks(h, "test", NoBody, key, "begin")
RunProbe(h) == Asks(h, "probe", NoBody, Null, "health")

Within(timestamp) == now <= timestamp + Tolerance /\ timestamp <= now + Tolerance
Seen(c) == \E n \in nonces : n[1] = c.keyId /\ n[2] = c.nonce
Verifiable(c) == c.keyId \in DOMAIN keyStatus /\ keyStatus[c.keyId] \in {"CURRENT", "PREVIOUS"}

\* What is signed, and a signature: nobody forges one without the secret.  The server keeps a
\* secret for the current key and one for the previous key; the secret of the credentials is the
\* one of these that the monitor was deployed with.
Canonical(c, body) == <<c.timestamp, c.nonce, body>>
Signature(secret, canonical) == <<secret, canonical>>
SignRequest(c, body) == Signature(c.secret, Canonical(c, body))
SignaturesMatch(c, body) == SignRequest(c, body) = Signature(keyStatus[c.keyId], Canonical(c, body))

Verify(c, body) == Verifiable(c) /\ Within(c.timestamp) /\ ~Seen(c) /\ SignaturesMatch(c, body)

\* What is known of the caller; a rejection is audited and leaves nothing else.
Verified(c, body) == IF Verify(c, body) THEN c ELSE NoCredentials

\* A nonce is used up once key and timestamp are in order, whatever the signature.
PostMonitorReport(h, observation, body, c) ==
    /\ "report" \in offered
    /\ Admit(h, "report", body, observation, Verify(c, body), "begin")
    /\ accepted' = [accepted EXCEPT ![h] = Verified(c, body)]
    /\ nonces' = IF Verifiable(c) /\ Within(c.timestamp) /\ ~Seen(c)
                 THEN nonces \union {<<c.keyId, c.nonce, now>>} ELSE nonces
    /\ Arrives(h) /\ UNCHANGED keyStatus

----------------------------------------------------------------------------
(* IncidentService.recordCondition and resolveByDedupKey, submitBackfill; a  *)
(* probe of the host runs through them once for each service.                *)

At(h, place) == call[h].at = place
Hold(h, row) == held' = [held EXCEPT ![h] = row]
Backfill(h) == call[h].op = "report" /\ call[h].arg.backfill
Detected(h) == IF call[h].op = "probe" THEN held[h].critical ELSE call[h].arg.state = "DETECTED"
Sought(h) == IF call[h].op = "probe" THEN ProbeKey[held[h].service] ELSE call[h].arg.key

\* What follows when the incidents and the alerts are dealt with.
Done(h) ==
    IF call[h].op # "probe" THEN Goto(h, "complete", Null)
    ELSE IF held[h].service = "API" THEN Goto(h, "health", Null)
    ELSE Answer(h, "OK")

BeginReport(h) == call[h].op = "report" /\ Begin(h, "find") /\ UNCHANGED opsVars

\* runProbes: that this code runs shows that the API is up.
RecordHealth(h) ==
    LET s == IF held[h].service = Null THEN "API" ELSE "POSTGRES"
    IN /\ At(h, "health")
       /\ \E state \in IF s = "API" THEN {"HEALTHY"} ELSE {"HEALTHY", "CRITICAL"} :
             /\ health' = [t \in DOMAIN health \union {s} |-> IF t = s THEN [state |-> state, at |-> now] ELSE health[t]]
             /\ Hold(h, [NoneHeld EXCEPT !.service = s, !.critical = state = "CRITICAL"])
       /\ Goto(h, "find", Null)
       /\ UNCHANGED <<incidentVars, alertVars, presence, beat, authVars, timeVars, idem>>

\* findOpenOrAcknowledgedByDedupKey, and what the services do about what it finds.
FindIncident(h) ==
    LET open == OpenFor(incident, Sought(h))
    IN /\ At(h, "find")
       /\ IF open # {} THEN \E i \in open : Hold(h, [held[h] EXCEPT !.incident = i, !.count = incident[i].count])
          ELSE Hold(h, [held[h] EXCEPT !.incident = Null])
       /\ IF open # {} THEN Goto(h, IF Detected(h) THEN "occur" ELSE "resolve", Null)
          ELSE IF Detected(h) \/ Backfill(h) THEN Goto(h, "create", Null)
          ELSE IF call[h].op = "report" THEN Throws(h, "EXTERNAL_MONITOR_PAYLOAD_INVALID", TRUE)
          ELSE Done(h)
       /\ UNCHANGED <<incidentVars, alertVars, hostVars, authVars, timeVars, idem>>

\* The row a statement returns goes to the event and to the alert.
Writes(h, i, row, event) ==
    /\ incident' = [incident EXCEPT ![i] = row]
    /\ wrote' = wrote \union {<<h, call[h].key>>}
    /\ Hold(h, [held[h] EXCEPT !.incident = i, !.notified = row.notified, !.event = event])
    /\ IF Backfill(h) THEN Done(h) ELSE Goto(h, "event", Null)
    /\ UNCHANGED <<log, alertVars, hostVars, authVars, timeVars, idem>>

RecordOccurrence(h) ==
    /\ At(h, "occur") /\ incident[held[h].incident].count < MaxCount
    /\ Writes(h, held[h].incident, Occurred(incident[held[h].incident], held[h].count), "OCCURRENCE")

\* The partial unique index refuses a second open row.
CreateIncident(h) ==
    LET row == CASE Backfill(h) /\ Detected(h) -> Backfilled(Sought(h), 0, Never)
                 [] Backfill(h) /\ ~Detected(h) -> Backfilled(Sought(h), 0, now)
                 [] OTHER -> NewIncident(Sought(h), now)
    IN /\ At(h, "create")
       /\ IF IsOpen(row) /\ OpenFor(incident, Sought(h)) # {}
          THEN /\ IF call[h].op = "probe" THEN Answer(h, "ERROR") ELSE Throws(h, "ERROR", TRUE)
               /\ UNCHANGED <<opsVars, idem>>
          ELSE Writes(h, h, row, "OPENED")

ResolveIncident(h) ==
    /\ At(h, "resolve")
    /\ LET i == held[h].incident
       IN Writes(h, i, IF Backfill(h) THEN ResolvedBackfilled(incident[i], now) ELSE Resolved(incident[i], now),
                 "RESOLVED")

RecordEvent(h) ==
    /\ At(h, "event")
    /\ log' = log \union {<<held[h].incident, held[h].event, h>>}
    /\ Goto(h, "config", Null)
    /\ UNCHANGED <<incident, wrote, alertVars, hostVars, authVars, timeVars, held, idem>>

----------------------------------------------------------------------------
(* AlertService: evaluateAndNotify, notifyRecovery *)

\* A recovery needs an enabled channel alone.
ReadConfiguration(h) ==
    /\ At(h, "config")
    /\ IF IF Detected(h) THEN ShouldAlert(config, Sought(h), held[h].notified, now)
                         ELSE config.exists /\ config.enabled
       THEN Goto(h, "deliver", Null) ELSE Done(h)
    /\ UNCHANGED <<opsVars, idem>>

CreateDelivery(h) ==
    /\ At(h, "deliver")
    /\ delivery' = [delivery EXCEPT ![h] = [kind |-> IF Detected(h) THEN "ALERT" ELSE "RECOVERY",
                                            incident |-> held[h].incident, status |-> "PENDING", at |-> now]]
    /\ Goto(h, "send", Null)
    /\ UNCHANGED <<incidentVars, config, hostVars, authVars, timeVars, held, idem>>

\* The channel answers, refuses or times out; recordAttempt writes down which.
SendMessage(h) ==
    /\ At(h, "send")
    /\ \E status \in {"SENT", "FAILED"} : delivery' = [delivery EXCEPT ![h] = [@ EXCEPT !.status = status]]
    /\ IF delivery[h].kind = "ALERT" THEN Goto(h, "notified", Null) ELSE Done(h)
    /\ UNCHANGED <<incidentVars, config, hostVars, authVars, timeVars, held, idem>>

WrongRecordNotified(h) ==              \* only the delivery is written
    /\ At(h, "notified")
    /\ Done(h)
    /\ UNCHANGED <<opsVars, idem>>

\* Also after a failed delivery.
RecordNotified(h) ==
    /\ At(h, "notified")
    /\ incident' = [incident EXCEPT ![held[h].incident] = Notified(@, now)]
    /\ Done(h)
    /\ UNCHANGED <<log, wrote, alertVars, hostVars, authVars, timeVars, held, idem>>

SettleReport(h) ==
    /\ call[h].op = "report"
    /\ \/ CompleteRecord(h) /\ UNCHANGED failed
       \/ FailRecord(h) /\ failed' = failed \union {h}
    /\ Hold(h, NoneHeld)
    /\ UNCHANGED <<incidentVars, alertVars, hostVars, authVars, now, past, offered>>

----------------------------------------------------------------------------
(* IncidentService.acknowledge *)

BeginAcknowledge(h) == call[h].op = "acknowledge" /\ Begin(h, "run") /\ UNCHANGED opsVars

\* findById: the incident must be OPEN.
ReadOpenIncident(h) ==
    /\ call[h].op = "acknowledge" /\ At(h, "run")
    /\ IF incident[call[h].arg.incident].status = "OPEN" THEN Goto(h, "upsert", Null)
       ELSE Throws(h, "INCIDENT_ALREADY_ACKNOWLEDGED", TRUE)
    /\ UNCHANGED <<opsVars, idem>>

\* The UPDATE, and the event after it.
AcknowledgeIncident(h) ==
    LET i == call[h].arg.incident
    IN /\ call[h].op = "acknowledge" /\ At(h, "upsert")
       /\ IF Acknowledged(incident[i]) # incident[i]
          THEN /\ incident' = [incident EXCEPT ![i] = Acknowledged(@)]
               /\ log' = log \union {<<i, "ACKNOWLEDGED", h>>}
               /\ Goto(h, "complete", Null)
          ELSE Throws(h, "INCIDENT_ALREADY_ACKNOWLEDGED", TRUE) /\ UNCHANGED <<incident, log>>
       /\ UNCHANGED <<wrote, alertVars, hostVars, authVars, timeVars, held, idem>>

SettleAcknowledge(h) ==
    /\ call[h].op = "acknowledge" /\ (CompleteRecord(h) \/ FailRecord(h)) /\ UNCHANGED opsVars

(* AlertService.updateConfiguration *)

BeginConfigure(h) == call[h].op = "configure" /\ Begin(h, "run") /\ UNCHANGED opsVars

ReadChannel(h) ==
    /\ call[h].op = "configure" /\ At(h, "run")
    /\ Hold(h, [NoneHeld EXCEPT !.credential = config.credential])
    /\ Goto(h, "upsert", Null)
    /\ UNCHANGED <<incidentVars, alertVars, hostVars, authVars, timeVars, idem>>

\* Recipient and credential are written back as they were read.
UpsertConfiguration(h) ==
    /\ call[h].op = "configure" /\ At(h, "upsert")
    /\ config' = Upserted(call[h].arg.enabled, call[h].arg.threshold, call[h].arg.cooldown, held[h].credential)
    /\ Goto(h, "complete", Null)
    /\ UNCHANGED <<incidentVars, delivery, hostVars, authVars, timeVars, held, idem>>

SettleConfigure(h) ==
    /\ call[h].op = "configure" /\ (CompleteRecord(h) \/ FailRecord(h)) /\ Hold(h, NoneHeld)
    /\ UNCHANGED <<incidentVars, alertVars, hostVars, authVars, timeVars>>

(* AlertService.sendTest *)

BeginTest(h) == call[h].op = "test" /\ Begin(h, "run") /\ UNCHANGED opsVars

CreateTest(h) ==
    /\ call[h].op = "test" /\ At(h, "run")
    /\ delivery' = [delivery EXCEPT ![h] = [kind |-> "TEST", incident |-> Null, status |-> "PENDING", at |-> now]]
    /\ Goto(h, "send", Null)
    /\ UNCHANGED <<incidentVars, config, hostVars, authVars, timeVars, held, idem>>

SettleTest(h) == call[h].op = "test" /\ (CompleteRecord(h) \/ FailRecord(h)) /\ UNCHANGED opsVars

----------------------------------------------------------------------------
(* Tools, clients and the clock *)

\* tools/provision-telegram-alert-channel.ts
ProvisionChannel ==
    /\ ~config.credential
    /\ config' = Provisioned(config)
    /\ UNCHANGED <<incidentVars, delivery, hostVars, authVars, timeVars, held, callVars>>

\* rotateIn, run on the pool: two statements.
DemoteKey ==
    /\ NextKey \in DOMAIN keyStatus /\ keyStatus[NextKey] = "ABSENT"
    /\ \E k \in DOMAIN keyStatus : keyStatus[k] = "CURRENT" /\ keyStatus' = [keyStatus EXCEPT ![k] = "PREVIOUS"]
    /\ UNCHANGED <<incidentVars, alertVars, hostVars, nonces, accepted, timeVars, held, callVars>>

InsertKey ==
    /\ NextKey \in DOMAIN keyStatus /\ keyStatus[NextKey] = "ABSENT"
    /\ \A k \in DOMAIN keyStatus : keyStatus[k] # "CURRENT"
    /\ keyStatus' = [keyStatus EXCEPT ![NextKey] = "CURRENT"]
    /\ UNCHANGED <<incidentVars, alertVars, hostVars, nonces, accepted, timeVars, held, callVars>>

WrongPurgeNonces ==                    \* <= for <
    /\ \E n \in nonces : n[3] + NonceRetention <= now
    /\ nonces' = {n \in nonces : n[3] + NonceRetention > now}
    /\ UNCHANGED <<incidentVars, alertVars, hostVars, keyStatus, accepted, timeVars, held, callVars>>

\* The last step of tools/operations-health-probe.ts.
PurgeNonces ==
    /\ \E n \in nonces : n[3] + NonceRetention < now
    /\ nonces' = {n \in nonces : n[3] + NonceRetention >= now}
    /\ UNCHANGED <<incidentVars, alertVars, hostVars, keyStatus, accepted, timeVars, held, callVars>>

\* POST /presence/heartbeat, in any of the three session domains.
PostHeartbeat(a) ==
    /\ presence' = [presence EXCEPT ![a] = Heartbeat(@, now, CoalesceWindow)]
    /\ beat' = [beat EXCEPT ![a] = now]
    /\ UNCHANGED <<incidentVars, alertVars, health, authVars, timeVars, held, callVars>>

Tick ==
    /\ now < MaxNow
    /\ now' = now + 1
    /\ UNCHANGED <<incidentVars, alertVars, hostVars, authVars, past, failed, offered, held, callVars>>

Fault(h) ==
    \/ StatementFails(h) /\ UNCHANGED opsVars
    \/ /\ ProcessDies(h)
       /\ failed' = failed \union {h}
       /\ Hold(h, NoneHeld)
       /\ UNCHANGED <<incidentVars, alertVars, hostVars, authVars, now, past, offered>>

Routes(h, key) ==
    \/ \E k \in ReportKeys, state \in {"DETECTED", "RECOVERED"}, backfill \in BOOLEAN, c \in Credentials :
          PostMonitorReport(h, key, ReportBody(k, state, backfill), c)
    \/ \E i \in Ids : incident[i].status # "ABSENT" /\ PostAcknowledge(h, key, i)
    \/ \E enabled \in BOOLEAN, threshold \in Thresholds, cooldown \in Cooldowns :
          PutAlertConfiguration(h, key, enabled, threshold, cooldown)
    \/ PostAlertTest(h, key)

Services(h) ==
    \/ BeginReport(h) \/ RecordHealth(h) \/ FindIncident(h) \/ RecordOccurrence(h) \/ CreateIncident(h)
    \/ ResolveIncident(h) \/ RecordEvent(h) \/ ReadConfiguration(h) \/ CreateDelivery(h) \/ SendMessage(h)
    \/ RecordNotified(h) \/ SettleReport(h)
    \/ BeginAcknowledge(h) \/ ReadOpenIncident(h) \/ AcknowledgeIncident(h) \/ SettleAcknowledge(h)
    \/ BeginConfigure(h) \/ ReadChannel(h) \/ UpsertConfiguration(h) \/ SettleConfigure(h)
    \/ BeginTest(h) \/ CreateTest(h) \/ SettleTest(h)

OpsNext ==
    \/ \E h \in Calls : (\E key \in Keys : Routes(h, key)) \/ RunProbe(h) \/ Services(h) \/ Fault(h)
    \/ RetryWindowEnds /\ UNCHANGED opsVars
    \/ ProvisionChannel \/ DemoteKey \/ InsertKey \/ PurgeNonces
    \/ \E a \in DOMAIN presence : PostHeartbeat(a)
    \/ Tick

----------------------------------------------------------------------------
(* Properties *)

\* Monitoring alone ends an incident, and what is resolved stays so: an acknowledgement that
\* raced the resolution does not reopen it (IncidentService, "ACK never equals RESOLVED").
ResolvedIsFinal ==
    [][\A i \in Ids : incident[i].status = "RESOLVED" => incident'[i].status = "RESOLVED"]_operationVars

\* Every occurrence in the timeline of an incident has been counted, also when reports of the same
\* condition overlap, fail between the two statements or are repeated.
LoggedIsCounted ==
    \A i \in Ids : Cardinality({e \in log : e[1] = i /\ e[2] \in {"OPENED", "OCCURRENCE"}}) <= incident[i].count

\* Of several administrators who acknowledge an incident at once, one does.
OneAcknowledgement ==
    \A d, e \in log : d[1] = e[1] /\ d[2] = "ACKNOWLEDGED" /\ e[2] = "ACKNOWLEDGED" => d = e

\* Two requests with the same observation change an incident twice only if one of them failed:
\* the other was its retry.
ObservationTakesEffectOnce ==
    \A v, w \in wrote : v # w /\ v[2] = w[2] /\ v[2] # Null => v[1] \in failed \/ w[1] \in failed

\* No request is accepted twice: a nonce is forgotten only when its timestamp has become too old,
\* also if the clock of the monitor is ahead (ExternalMonitorAuthService, purgeOlderThan).
NonceAcceptedOnce ==
    \A g, h \in Calls :
        g # h /\ accepted[g].keyId # Null => <<accepted[g].keyId, accepted[g].nonce>> # <<accepted[h].keyId, accepted[h].nonce>>

\* Who reports after an alert of the same incident has been made and noted does not alert again
\* before a cooldown is over that an administrator had chosen, however the configuration changes
\* between the two (shouldAlert).
AlertsRespectCooldown ==
    \A g, h \in Calls :
        /\ g \in past[h] \ failed
        /\ delivery[g].kind = "ALERT" /\ delivery[h].kind = "ALERT"
        /\ delivery[g].incident = delivery[h].incident
        => \E c \in Cooldowns : delivery[h].at - delivery[g].at >= c

\* A recovery is told of an incident that is resolved, and told twice only by calls that overlapped.
RecoveryToldOnce ==
    /\ \A h \in Calls : delivery[h].kind = "RECOVERY" => incident[delivery[h].incident].status = "RESOLVED"
    /\ \A g, h \in Calls :
          delivery[g].kind = "RECOVERY" /\ delivery[h].kind = "RECOVERY" /\ g \in past[h]
          => delivery[g].incident # delivery[h].incident

\* The channel loses its credential only to a change of configuration that read the row before it was
\* provisioned.
CredentialStays ==
    [][config.credential /\ ~config'.credential => \E h \in Calls : call[h].op = "configure" /\ ~held[h].credential]_operationVars

\* A user whose client beats at least every OnlineThreshold - CoalesceWindow is shown ONLINE, although
\* heartbeats are dropped.
BeatingIsOnline ==
    \A a \in DOMAIN presence :
        beat[a] # Never /\ now - beat[a] <= OnlineThreshold - CoalesceWindow
        => DerivePresenceState(presence[a], now, OnlineThreshold, IdleThreshold) = "ONLINE"

\* The overview of the control center.
Stale == {s \in DOMAIN health : now - health[s].at > StaleAfter}
PlatformStatus == AggregatePlatformHealth(health, Stale)

\* A platform whose probe has stopped is not shown as healthy.
KnownMeansFresh ==
    DOMAIN health # {} /\ PlatformStatus # "UNKNOWN" => \E s \in DOMAIN health : now - health[s].at <= StaleAfter

\* Types, and what must happen once happens once: an acknowledgement, the effect of an
\* observation sent under one key, the acceptance of a nonce.
OperationsAreSound ==
    OpsTypeOK /\ OneAcknowledgement /\ ObservationTakesEffectOnce /\ NonceAcceptedOnce

\* What operators are told is so: counted occurrences, alerts apart from each other, one
\* recovery, presence of who is beating, and health from fresh observations only.
SignalsAreTrue ==
    /\ LoggedIsCounted /\ AlertsRespectCooldown /\ RecoveryToldOnce
    /\ BeatingIsOnline /\ KnownMeansFresh

\* A resolved incident stays resolved, and a provisioned credential stays in place.
SettledStays == ResolvedIsFinal /\ CredentialStays
=============================================================================
