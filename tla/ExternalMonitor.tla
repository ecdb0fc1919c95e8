---------------------------- MODULE ExternalMonitor ----------------------------
(***************************************************************************)
(* The external uptime monitor: a workflow that runs every five minutes    *)
(* outside the platform, one run at a time.  A run probes the target       *)
(* (TCP, then TLS, then HTTP) and either alerts directly (Level 1: the     *)
(* target is unreachable) or reports degraded conditions to the Control    *)
(* Center (Level 2).  It has no storage: what a run knows of the earlier   *)
(* ones is what it reads back from their step conclusions, so the cooldown *)
(* between alerts, the announcement of a recovery and the outage that is   *)
(* reported after it all come out of a window on the last ScanLimit runs.  *)
(*                                                                         *)
(* Time is counted in ticks of one cron period and kept as ages (of a run, *)
(* of an outage) up to MaxAge.  Every step of a run happens on its own:    *)
(* the target changes between two probes, the runner dies between two      *)
(* steps, and a step that fails ends the run, since the `if` of the next   *)
(* ones implies success().                                                 *)
(***************************************************************************)
EXTENDS Naturals, Sequences, FiniteSets

CONSTANTS
    None,
    Targets,        \* what the target can be: see Target
    ScanLimit,      \* EXTERNAL_MONITOR_MAX_RUNS_TO_SCAN
    Cooldown,       \* EXTERNAL_MONITOR_COOLDOWN_MINUTES, in ticks
    RunsPerTick,    \* runs that start in one tick (cron and manual dispatch)
    MaxFaults,      \* bound on those failures
    RunTicks,       \* timeout-minutes, in ticks
    MaxAge          \* ages are not told apart from here on

Level1Conditions == {"VPS_UNREACHABLE", "TLS_HANDSHAKE_FAILURE", "REVERSE_PROXY_UNREACHABLE"}
Level2Conditions == {"TLS_EXPIRY_WARNING", "EXTERNAL_HTTP_DEGRADED"}
Ages == 0 .. MaxAge

\* The target as seen from outside: the first layer that does not answer, and
\* when every layer does, whether its certificate expires soon and its health
\* endpoint answers slowly.
Target == [down : {"HOST", "TLS", "REVERSE_PROXY", None}, expiring : BOOLEAN, slow : BOOLEAN]

\* A scan that is too short forgets an alert that is still in its cooldown:
\* the runs of a cooldown, and those of the ticks it starts and ends in, must
\* fit in it.
ASSUME ScanAssumption ==
    /\ Targets \subseteq Target
    /\ {ScanLimit, Cooldown, RunsPerTick, MaxAge} \subseteq Nat \ {0} /\ {RunTicks, MaxFaults} \subseteq Nat
    /\ ScanLimit >= (Cooldown + 1) * RunsPerTick
    /\ MaxAge >= Cooldown + RunTicks
    /\ None \notin Nat /\ None \notin Level1Conditions

VARIABLES
    target,     \* the target now
    faults,     \* failures of the environment still to come
    reliable,   \* history: nothing fails in this behaviour
    runs,       \* the completed runs the API lists, newest first
    run,        \* the run in progress
    started,    \* runs started in this tick
    reported,   \* what the last run told the Control Center in its last report
    sinceAlert, \* history: age of the last alert whose step succeeded
    owed,       \* history: an outage was recorded and no recovery announced since
    recoveries, \* history: recoveries announced with none owed
    told,       \* history: the present outage was alerted
    outage      \* history: the runs in a row, up to the last, that recorded an outage

monitorVars == <<target, faults, reliable, runs, run, started, reported, sinceAlert, owed,
          recoveries, told, outage>>

-----------------------------------------------------------------------------
(* Runs and what they leave behind.                                        *)

\* What later runs read of a run: the condition in the name of its "Level 1
\* condition detected" step, if that step succeeded, and whether its alert step did.
\* When it was created only matters with the one, when it ended with the other.
CompletedRun == [condition : Level1Conditions \cup {None}, alertSent : BOOLEAN,
                 created : Ages \cup {None}, updated : Ages \cup {None}]

Steps == {"tcp", "tls", "http", "history", "detected", "alert", "recovery",
          "backfill", "level2"}

NoRun == [at |-> "none", age |-> 0, reachable |-> FALSE, condition |-> None,
          level2 |-> {}, marked |-> FALSE, alertSent |-> FALSE,
          inCooldown |-> FALSE, startedAge |-> None, lastCondition |-> None]

NoOutage == [runs |-> 0, age |-> 0, condition |-> None]

Older(age) == IF age = None THEN None ELSE IF age = MaxAge THEN MaxAge ELSE age + 1

Reachable(t) == t.down = None

\* What a report says to the Control Center.
Report(condition, state) == [condition |-> condition, state |-> state]
Reports == [condition : Level1Conditions \cup Level2Conditions \cup {None}, state : {"DETECTED", "RECOVERED"}]

-----------------------------------------------------------------------------
(* The history a run reads back (cooldown.mjs).                            *)

\* The API lists the newest perPage runs.
RecentRuns(listed) ==
    SubSeq(listed, 1, IF Len(listed) < ScanLimit THEN Len(listed) ELSE ScanLimit)

\* A scan that goes on past the end of the outage.
WrongStreak(rs) == SelectSeq(rs, LAMBDA r : r.condition # None)

\* The runs, from the newest on, that recorded an outage without a gap.
Streak(rs) ==
    LET k == CHOOSE k \in 0 .. Len(rs) :
                /\ \A i \in 1 .. k : rs[i].condition # None
                /\ k < Len(rs) => rs[k + 1].condition = None
    IN  SubSeq(rs, 1, k)

\* Age of the newest run that sent an alert; None when the window has none.
LastAlertAge(rs) ==
    LET alerted == {i \in DOMAIN rs : rs[i].alertSent}
    IN  IF alerted = {} THEN None
        ELSE rs[CHOOSE i \in alerted : \A j \in alerted : i <= j].updated

\* Only a run that sent an alert counts as an outage.
WrongLastRunLevel1Active(rs) == rs # <<>> /\ rs[1].condition # None /\ rs[1].alertSent

LastRunLevel1Active(rs) == rs # <<>> /\ rs[1].condition # None

IsInCooldown(age) == age # None /\ age < Cooldown

\* The outage started with the oldest run of the streak, whose condition wins.
GetMonitorHistory(rs) ==
    LET streak == Streak(rs)
        oldest == streak[Len(streak)]
    IN  [inCooldown |-> IsInCooldown(LastAlertAge(rs)),
         wasActive |-> LastRunLevel1Active(rs),
         startedAge |-> IF streak = <<>> THEN None ELSE oldest.created,
         lastCondition |-> IF streak = <<>> THEN None ELSE oldest.condition]

-----------------------------------------------------------------------------
(* The steps of a run (run.mjs, the workflow's steps).                     *)

\* The run is over, whatever its conclusion: its successful steps stay readable.
EndRun(r) ==
    LET marker == IF r.marked THEN r.condition ELSE None
        listed == <<[condition |-> marker, alertSent |-> r.alertSent,
                     created |-> IF r.marked THEN r.age ELSE None,
                     updated |-> IF r.alertSent THEN 0 ELSE None]>> \o runs
    IN  /\ runs' = RecentRuns(listed)
        /\ run' = NoRun
        /\ outage' = IF marker = None THEN NoOutage
                     ELSE IF outage.runs = 0 THEN [runs |-> 1, age |-> r.age, condition |-> marker]
                     ELSE [outage EXCEPT !.runs = IF @ > ScanLimit THEN @ ELSE @ + 1]

Goto(r) == run' = r /\ UNCHANGED <<runs, outage>>

Unsaid == UNCHANGED <<sinceAlert, owed, recoveries, told>>
World == UNCHANGED <<target, faults, reliable, started>>

\* One of the failures the environment has left; a run that fails is not repeated.
Fault == faults > 0 /\ faults' = faults - 1

\* The cron schedule or a manual dispatch; the concurrency group keeps runs serial.
StartRun ==
    /\ run = NoRun
    /\ started < RunsPerTick
    /\ started' = started + 1
    /\ run' = [NoRun EXCEPT !.at = "tcp"]
    /\ reported' = {}
    /\ UNCHANGED <<target, faults, reliable, runs, outage>>
    /\ Unsaid

\* A run without any step: no target configured, or no runner for it.
SkippedRun ==
    /\ Fault
    /\ run = NoRun
    /\ started < RunsPerTick
    /\ started' = started + 1
    /\ EndRun(NoRun)
    /\ reported' = {}
    /\ UNCHANGED <<target, reliable>>
    /\ Unsaid

\* The runner dies, the job times out, or the step at hand fails without effect.
RunFails ==
    /\ Fault
    /\ run # NoRun
    /\ EndRun(run)
    /\ UNCHANGED reported
    /\ Unsaid
    /\ UNCHANGED <<target, reliable, started>>

\* The probe step is over: its outputs.
Probed(condition, level2) ==
    [run EXCEPT !.at = "history", !.reachable = (condition = None), !.condition = condition,
                !.level2 = level2]

\* The first layer that does not answer ends the probe and names the condition.
Unreachable(condition) == Probed(condition, {})

\* Every layer answered: the certificate was looked at in the handshake.
ProbeResult(t, expiring) == Probed(None, expiring \cup IF t.slow THEN {"EXTERNAL_HTTP_DEGRADED"} ELSE {})

CheckTcpReachable ==
    /\ run.at = "tcp"
    /\ Goto(IF target.down = "HOST" THEN Unreachable("VPS_UNREACHABLE")
            ELSE [run EXCEPT !.at = "tls"])
    /\ UNCHANGED reported
    /\ Unsaid
    /\ World

CheckTlsHandshake ==
    /\ run.at = "tls"
    /\ Goto(IF target.down \in {"HOST", "TLS"} THEN Unreachable("TLS_HANDSHAKE_FAILURE")
            ELSE [run EXCEPT !.at = "http",
                             !.level2 = IF target.expiring THEN {"TLS_EXPIRY_WARNING"} ELSE {}])
    /\ UNCHANGED reported
    /\ Unsaid
    /\ World

CheckHttpHealth ==
    /\ run.at = "http"
    /\ Goto(IF ~Reachable(target) THEN Unreachable("REVERSE_PROXY_UNREACHABLE")
            ELSE ProbeResult(target, run.level2))
    /\ UNCHANGED reported
    /\ Unsaid
    /\ World

\* What it reads decides which step comes next, and only that step uses it.
QueryHistory ==
    /\ run.at = "history"
    /\ LET h == GetMonitorHistory(runs)
       IN  Goto(IF ~run.reachable
                THEN [run EXCEPT !.at = "detected", !.inCooldown = h.inCooldown]
                ELSE IF h.wasActive
                THEN [run EXCEPT !.at = "recovery", !.startedAge = h.startedAge,
                                 !.lastCondition = h.lastCondition]
                ELSE [run EXCEPT !.at = "level2"])
    /\ UNCHANGED reported
    /\ Unsaid
    /\ World

\* The step whose name carries the condition.  In the cooldown nothing follows it.
Level1Detected ==
    /\ run.at = "detected"
    /\ LET marked == [run EXCEPT !.marked = TRUE, !.at = "alert"]
       IN  IF run.inCooldown THEN EndRun(marked) ELSE Goto(marked)
    /\ owed' = TRUE
    /\ UNCHANGED <<reported, sinceAlert, recoveries, told>>
    /\ World

\* A message or report goes out; its answer arrives and the run goes on, or is lost
\* and the step fails.
Sends(next) ==
    \/ UNCHANGED faults /\ Goto(next)
    \/ Fault /\ EndRun(run)

\* The reports of several conditions: some may fail.
Submits(conditions) ==
    \E submitted \in SUBSET conditions :
        /\ IF submitted = conditions THEN UNCHANGED faults ELSE Fault
        /\ reported' = {Report(c, "DETECTED") : c \in submitted}

\* The message is out and the step knows it.
Level1Alert ==
    /\ run.at = "alert"
    /\ EndRun([run EXCEPT !.alertSent = TRUE])
    /\ sinceAlert' = 0
    /\ told' = ~Reachable(target)
    /\ UNCHANGED <<reported, owed, recoveries>>
    /\ World

\* The message, if it left at all, may have arrived; the step fails only afterwards.
Level1Recovery ==
    /\ run.at = "recovery"
    /\ Sends([run EXCEPT !.at = "backfill"])
    /\ owed' = FALSE
    /\ recoveries' = IF owed THEN recoveries ELSE 1
    /\ UNCHANGED <<reported, sinceAlert, told>>
    /\ UNCHANGED <<target, reliable, started>>

\* The report of the outage that is over, from its first run to the recovery.  The
\* report may arrive and its answer be lost.
Level1Backfill ==
    /\ run.at = "backfill"
    /\ Sends([run EXCEPT !.at = "level2", !.startedAge = None, !.lastCondition = None])
    /\ reported' = {Report(run.lastCondition, "RECOVERED")}
    /\ Unsaid
    /\ UNCHANGED <<target, reliable, started>>

\* One report per degraded condition; a failed one does not stop the loop.
Level2Submit ==
    /\ run.at = "level2"
    /\ Submits(run.level2)
    /\ EndRun(run)
    /\ Unsaid
    /\ UNCHANGED <<target, reliable, started>>

-----------------------------------------------------------------------------
(* The world around the monitor.                                           *)

TargetChanges ==
    /\ target' \in Targets \ {target}
    /\ told' = (told /\ ~Reachable(target'))
    /\ UNCHANGED <<faults, reliable, runs, run, started, reported, sinceAlert, owed,
                   recoveries, outage>>

\* One cron period passes; a run lasts at most RunTicks.  A period without a run is
\* a failure of the schedule.
Tick ==
    /\ IF started = 0 /\ run = NoRun THEN Fault ELSE UNCHANGED faults
    /\ run.at # "none" => run.age < RunTicks
    /\ runs' = [i \in DOMAIN runs |-> [runs[i] EXCEPT !.created = Older(@), !.updated = Older(@)]]
    /\ run' = IF run = NoRun THEN NoRun
              ELSE [run EXCEPT !.age = Older(@), !.startedAge = Older(@)]
    /\ outage' = IF outage.runs = 0 THEN NoOutage ELSE [outage EXCEPT !.age = Older(@)]
    /\ sinceAlert' = Older(sinceAlert)
    /\ started' = 0
    /\ UNCHANGED <<target, reliable, reported, owed, recoveries, told>>

MonitorInit ==
    /\ target \in Targets
    /\ faults \in {0, MaxFaults}
    /\ reliable = (faults = 0)
    /\ runs = <<>>
    /\ run = NoRun
    /\ started = 0
    /\ reported = {}
    /\ sinceAlert = MaxAge
    /\ owed = FALSE
    /\ recoveries = 0
    /\ told = FALSE
    /\ outage = NoOutage

RunStep ==
    \/ CheckTcpReachable
    \/ CheckTlsHandshake
    \/ CheckHttpHealth
    \/ QueryHistory
    \/ Level1Detected
    \/ Level1Alert
    \/ Level1Recovery
    \/ Level1Backfill
    \/ Level2Submit

MonitorNext ==
    \/ StartRun
    \/ SkippedRun
    \/ RunFails
    \/ RunStep
    \/ TargetChanges
    \/ Tick

\* The schedule goes on, time passes, and a run that is started comes to its end.
\* A send that fails is not tried again in its run; Telegram, the runner and the
\* Actions API are not broken for ever (MaxFaults).
Fairness == WF_monitorVars(StartRun) /\ WF_monitorVars(RunStep) /\ WF_monitorVars(Tick)

MonitorSpec == MonitorInit /\ [][MonitorNext]_monitorVars /\ Fairness

-----------------------------------------------------------------------------
(* Properties.                                                             *)

MonitorTypeOK ==
    /\ target \in Targets
    /\ faults \in 0 .. MaxFaults
    /\ runs \in Seq(CompletedRun) /\ Len(runs) <= ScanLimit
    /\ run.at \in Steps \cup {"none"} /\ run.age \in 0 .. RunTicks
    /\ run.startedAge \in Ages \cup {None}
    /\ started \in 0 .. RunsPerTick
    /\ reported \subseteq Reports
    /\ sinceAlert \in Ages
    /\ outage.runs \in 0 .. ScanLimit + 1

\* Anti-storm: no alert goes out within Cooldown of the last alert the monitor
\* knows it sent, however the target flaps and whichever runs die in between;
\* each run only has the window of step conclusions to tell.
AlertsAreSpaced == run.at = "alert" => sinceAlert >= Cooldown

\* A recovery is announced only for an outage a run recorded, and once, although
\* the announcing run may die before or after the message without leaving a mark.
RecoveryOncePerOutage == recoveries = 0

\* The outage reported to the Control Center is the one that was there: the age and
\* the condition of its first run, unless it is longer than the scan reaches.
BackfillTellsTheOutage ==
    (run.at = "backfill" /\ outage.runs \in 1 .. ScanLimit)
        => run.startedAge = outage.age /\ run.lastCondition = outage.condition

\* An outage that lasts is alerted, even one that begins in the cooldown of another
\* and whatever failed at first: a failed alert leaves the next run free to send it.
OutageIsAlerted == ~Reachable(target) ~> (told \/ Reachable(target))

\* When no step fails, an outage that was recorded and is over is announced as
\* recovered, or the target goes down again.
RecoveryIsAnnounced == (reliable /\ owed /\ Reachable(target)) ~> (~owed \/ ~Reachable(target))

\* When no step fails, each of the conditions a target keeps degraded by is reported.
DegradationIsReported ==
    \A c \in Level2Conditions :
        LET degraded == /\ Reachable(target)
                        /\ IF c = "TLS_EXPIRY_WARNING" THEN target.expiring ELSE target.slow
        IN  (reliable /\ degraded) ~> (Report(c, "DETECTED") \in reported \/ ~degraded)

\* Types, and notices that are true: alerts apart, recoveries of recorded outages told
\* once, and outages reported with the start and the cause they had.
NoticesAreTrue == MonitorTypeOK /\ AlertsAreSpaced /\ RecoveryOncePerOutage /\ BackfillTellsTheOutage

\* What lasts is told: an outage in any case; a recovery and a degradation when no step
\* fails.
DisturbancesAreTold == OutageIsAlerted /\ RecoveryIsAnnounced /\ DegradationIsReported
=============================================================================
