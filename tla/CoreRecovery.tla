------------------------------ MODULE CoreRecovery ------------------------------
(***************************************************************************)
(* Watchdog and recovery of the hourly core acquisition.  The watchdog     *)
(* reads the runtime control that runs of the ingestion workflow publish,  *)
(* and keeps one incident issue.  The recovery guard, started by hand,     *)
(* classifies the same control and then looks at the runs of the workflow: *)
(* it dispatches a manual recovery when the core is CRITICAL, nothing is   *)
(* active and nothing has begun a short while ago.                         *)
(*                                                                         *)
(* Sources: .github/workflows/v6-scheduler-watchdog.yml,                   *)
(* v6-core-recovery-guard.yml and, in runtime_v6/domains/control_plane,    *)
(* scheduler_watchdog.py, scheduler_recovery.py, runtime_control.py.       *)
(*                                                                         *)
(* How ingestion runs publish is the subject of RuntimePublication; here a *)
(* run ends with a publication or without one.                             *)
(***************************************************************************)
EXTENDS Naturals

CONSTANTS
  Triggers,  \* the events that start ingestion runs
  Settle,    \* governed_event_settle_minutes
  Cooldown,  \* recovery_cooldown_minutes
  Warning,   \* warning_after_minutes
  Critical,  \* critical_after_minutes
  Page,      \* per_page: how many of the newest runs the guard is shown
  RunTime,   \* how old an ingestion run gets
  MaxTime,   \* bound: time
  MaxRuns    \* bound: ingestion runs

Kinds == {"chatgpt_scheduler", "master_orchestrated", "other"} \* prefetch, recovery
Slotted == {"chatgpt_scheduler", "master_orchestrated"}
Events == {"issues", "issue_comment", "workflow_dispatch"}

\* The event of a run and what it was asked for; "none" for a comment without a
\* command, whose run has no job.
AllTriggers ==
  {<<"issues", "chatgpt_scheduler">>, <<"issue_comment", "none">>,
   <<"issue_comment", "other">>, <<"workflow_dispatch", "master_orchestrated">>,
   <<"workflow_dispatch", "other">>}

ASSUME RecoveryAssumption ==
  /\ Triggers \subseteq AllTriggers
  /\ Settle \in Nat /\ Cooldown \in Nat /\ Page \in Nat /\ RunTime \in Nat
  /\ Warning \in Nat /\ Critical \in Nat /\ Warning < Critical
  /\ MaxTime \in Nat /\ MaxRuns \in Nat

VARIABLES
  now,      \* time
  control,  \* schedule_kind and expected_cycle_at of the published runtime control
  run,      \* ingestion runs, in the order of their creation
  made,     \* how many there are
  guard,    \* the run of the recovery guard in progress, and whether one waits
  monitor,  \* the run of the watchdog: what it has read of the state of the core
  incident  \* whether its incident issue is open

vars == <<now, control, run, made, guard, monitor, incident>>

Runs == 1..MaxRuns
States == {"HEALTHY", "WARNING", "CRITICAL"}
InProgress == {"control", "list", "dispatch"}

RecoveryTypeOK ==
  /\ now \in 0..MaxTime
  /\ control \in [kind : Kinds \cup {"none"}, slot : 0..MaxTime]
  /\ run \in [Runs ->
       [event : Events \cup {"none"}, kind : Kinds \cup {"none"}, at : 0..MaxTime,
        slot : 0..MaxTime, status : {"none", "active", "completed"}, guard : BOOLEAN]]
  /\ made \in 0..MaxRuns
  /\ guard \in [pc : InProgress \cup {"idle"}, critical : BOOLEAN, waiting : BOOLEAN]
  /\ monitor \in States \cup {"idle"}
  /\ incident \in BOOLEAN

Init ==
  /\ now = 0
  /\ control = [kind |-> "none", slot |-> 0]
  /\ run = [i \in Runs |->
       [event |-> "none", kind |-> "none", at |-> 0, slot |-> 0, status |-> "none", guard |-> FALSE]]
  /\ made = 0
  /\ guard = [pc |-> "idle", critical |-> FALSE, waiting |-> FALSE]
  /\ monitor = "idle"
  /\ incident = FALSE

-----------------------------------------------------------------------------
(* The ingestion workflow *)

Active(i) == run[i].status = "active"

\* Jobs have timeouts: 15 and 5 minutes up to the publication, 5 for the guard,
\* which is less than a unit of time.
Elapse ==
  /\ now < MaxTime
  /\ \A i \in Runs : Active(i) => now < run[i].at + RunTime
  /\ guard.pc = "idle"
  /\ now' = now + 1
  /\ UNCHANGED <<control, run, made, guard, monitor, incident>>

NewRun(event, kind, slot, g) ==
  /\ made < MaxRuns
  /\ made' = made + 1
  /\ run' = [run EXCEPT ![made + 1] =
       [event |-> event, kind |-> kind, at |-> now, slot |-> slot,
        status |-> IF kind = "none" THEN "completed" ELSE "active", guard |-> g]]

\* The scheduler edits the title of issue #431, somebody comments or dispatches; the
\* logical slot may lie an hour back.
Trigger(event, kind, slot) ==
  /\ IF kind \in Slotted THEN slot <= now /\ now <= slot + 1 ELSE slot = 0
  /\ NewRun(event, kind, slot, FALSE)
  /\ UNCHANGED <<now, control, guard, monitor, incident>>

\* Mutant: the slot that is expected is the next one.
Finish_Next(i) ==
  /\ Active(i)
  /\ run' = [run EXCEPT ![i].status = "completed"]
  /\ control' \in {control, [kind |-> run[i].kind, slot |-> run[i].slot + 1]}
  /\ UNCHANGED <<now, made, guard, monitor, incident>>

\* It publishes, or fails; expected_cycle_at is null without a slot.
Finish(i) ==
  /\ Active(i)
  /\ run' = [run EXCEPT ![i].status = "completed"]
  /\ control' \in {control, [kind |-> run[i].kind, slot |-> run[i].slot]}
  /\ UNCHANGED <<now, made, guard, monitor, incident>>

-----------------------------------------------------------------------------
(* The watchdog *)

Age(t) == now - t

\* proof_is_authoritative
IsProof == control.kind = "chatgpt_scheduler"

\* classify_scheduler_watchdog
State ==
  IF ~IsProof \/ Age(control.slot) > Critical THEN "CRITICAL"
  ELSE IF Age(control.slot) > Warning THEN "WARNING"
  ELSE "HEALTHY"

\* A new run of the watchdog cancels the one in progress.
MonitorReads ==
  /\ monitor' = State
  /\ UNCHANGED <<now, control, run, made, guard, incident>>

\* Mutant: a WARNING is no incident.
MonitorWrites_Critical ==
  /\ monitor # "idle"
  /\ incident' = (monitor = "CRITICAL")
  /\ monitor' = "idle"
  /\ UNCHANGED <<now, control, run, made, guard>>

\* Open or update the incident, or close it.
MonitorWrites ==
  /\ monitor # "idle"
  /\ incident' = (monitor # "HEALTHY")
  /\ monitor' = "idle"
  /\ UNCHANGED <<now, control, run, made, guard>>

-----------------------------------------------------------------------------
(* The recovery guard *)

\* One run of the guard at a time; a newer one takes the place of the one that waits.
StartGuard ==
  /\ guard' = IF guard.pc = "idle" THEN [guard EXCEPT !.pc = "control"]
              ELSE [guard EXCEPT !.waiting = TRUE]
  /\ UNCHANGED <<now, control, run, made, monitor, incident>>

GuardEnds ==
  guard' = [pc |-> IF guard.waiting THEN "control" ELSE "idle",
            critical |-> FALSE, waiting |-> FALSE]

\* The control is read and classified ...
ReadControl ==
  /\ guard.pc = "control"
  /\ guard' = [guard EXCEPT !.pc = "list", !.critical = (State = "CRITICAL")]
  /\ UNCHANGED <<now, control, run, made, monitor, incident>>

Shown == {i \in 1..made : i + Page > made}

\* Mutant: the cooldown is that of comments, not of dispatches.
Blocked_Comments ==
  \E i \in Shown :
    \/ Active(i)
    \/ run[i].event = "issues" /\ Age(run[i].at) < Settle
    \/ run[i].event = "issue_comment" /\ Age(run[i].at) < Cooldown

\* Mutant: there is no settle window.
Blocked_Unsettled ==
  \E i \in Shown :
    \/ Active(i)
    \/ run[i].event = "workflow_dispatch" /\ Age(run[i].at) < Cooldown

\* INGESTION_ALREADY_ACTIVE, RECENT_GOVERNED_CORE_EVENT_SETTLING,
\* RECOVERY_COOLDOWN_ACTIVE
Blocked ==
  \E i \in Shown :
    \/ Active(i)
    \/ run[i].event \in {"issues", "issue_comment"} /\ Age(run[i].at) < Settle
    \/ run[i].event = "workflow_dispatch" /\ Age(run[i].at) < Cooldown

\* ... then the runs are listed and the decision is taken ...
Decide ==
  /\ guard.pc = "list"
  /\ IF guard.critical /\ ~Blocked
     THEN guard' = [guard EXCEPT !.pc = "dispatch"]
     ELSE GuardEnds
  /\ UNCHANGED <<now, control, run, made, monitor, incident>>

\* ... and then the recovery is dispatched, whatever has begun meanwhile.
Dispatch ==
  /\ guard.pc = "dispatch"
  /\ NewRun("workflow_dispatch", "other", 0, TRUE)
  /\ GuardEnds
  /\ UNCHANGED <<now, control, monitor, incident>>

\* A call fails or the job times out.
GuardFails ==
  /\ guard.pc \in InProgress
  /\ GuardEnds
  /\ UNCHANGED <<now, control, run, made, monitor, incident>>

GuardStep == ReadControl \/ Decide \/ Dispatch \/ GuardFails

Next ==
  \/ Elapse
  \/ \E t \in Triggers, s \in 0..now : Trigger(t[1], t[2], s)
  \/ \E i \in Runs : Finish(i)
  \/ MonitorReads \/ MonitorWrites
  \/ StartGuard \/ GuardStep

Spec == Init /\ [][Next]_vars

\* The watchdog has a schedule, every hour; a run of it is over in minutes.
FairSpec == Spec /\ WF_vars(MonitorReads) /\ WF_vars(MonitorWrites)
-----------------------------------------------------------------------------
(* Properties *)

\* Recoveries are a cooldown apart, however often and by how many the guard is
\* started ("may dispatch exactly one governed manual_recovery").
RecoveriesAreSpaced ==
  \A i, j \in 1..made :
    i < j /\ run[i].guard /\ run[j].guard => run[i].at + Cooldown <= run[j].at

\* What the watchdog calls healthy is a proof of the scheduler itself, for a slot not
\* older than the warning threshold; no prefetch, master dispatch or recovery is
\* taken for one.
HealthyIsProven ==
  State = "HEALTHY" =>
    \E i \in 1..made :
      /\ run[i].event = "issues" /\ run[i].status = "completed"
      /\ now <= run[i].slot + Warning

\* A recovery is decided on while the watchdog calls the core CRITICAL and no run is
\* active: the control is read before the runs are, and a proof published in between
\* is one of a run that is still settling, provided runs are over by then (RunTime).
RecoveryIsNeeded ==
  [][guard.pc = "list" /\ guard'.pc = "dispatch" =>
       State = "CRITICAL" /\ \A i \in Runs : ~Active(i)]_vars

\* The incident follows the state of the core: open while it is not healthy, closed
\* again when it is.
IncidentFollows == []<>(incident <=> State # "HEALTHY")
=============================================================================
