---------------------------- MODULE OccurrenceDelivery ----------------------------
(***************************************************************************)
(* Who triggers a report occurrence, and what becomes of it.  Runs of the  *)
(* GitHub clock (scheduled, manual, or started by an external scheduler)   *)
(* resolve the due occurrence and dispatch a fallback run; the fallback    *)
(* refreshes the core and dispatches the occurrence orchestrator unless a  *)
(* run of that title exists; the audit of a clock run plans a recovery of  *)
(* an occurrence nobody triggered; the owner ticks by comment.  All meet   *)
(* in the one concurrency group of the orchestrator.                       *)
(*                                                                         *)
(* Sources: .github/workflows/fpl-github-clock.yml,                        *)
(* fpl-external-clock-fallback.yml, fpl-master-occurrence-orchestrator.yml,*)
(* ops/render_external_clock.py, external_clock_gate.py,                   *)
(* audit_due_occurrences.py, occurrence_reconciliation.py,                 *)
(* clock_cadence.py, recovery_plan.py and recovery_dispatch.py.            *)
(*                                                                         *)
(* A concurrency group has one run in progress and one waiting; a newer    *)
(* run takes the place of the waiting one, which is cancelled (the source  *)
(* says so where it works around it: orchestrator, lines 301-303).         *)
(* Comments of workflows trigger nothing: they use GITHUB_TOKEN.           *)
(***************************************************************************)
EXTENDS Naturals, FiniteSets

CONSTANTS
  Occurrences, \* the current occurrence of each mode
  Due,         \* when an occurrence is due, in units of half an hour
  None,
  ResolverHi,  \* RESOLVER_WINDOW_MINUTES[1]
  Grace,       \* PIPELINE_GRACE: the age at which silence is MISSING
  MaxOverdue,  \* MAX_OVERDUE_MINUTES
  Origins,     \* who starts clock runs
  Recovery,    \* FPL_RECOVERY_DISPATCH is ENABLED
  Faults,      \* whether steps fail and runs die
  MaxTime,     \* bound: time
  MaxTriggers, \* bound: clock runs and ticks of the owner
  MaxComments  \* bound: other comments of people

ASSUME DeliveryAssumption ==
  /\ None \notin Occurrences
  /\ Due \in [Occurrences -> Nat]
  /\ \A o, q \in Occurrences : Due[o] = Due[q] => o = q
  /\ ResolverHi \in Nat /\ Grace \in Nat /\ MaxOverdue \in Nat /\ ResolverHi < Grace
  /\ Origins \subseteq {"schedule", "manual", "external"}
  /\ Recovery \in BOOLEAN /\ Faults \in BOOLEAN
  /\ MaxTime \in Nat /\ MaxTriggers \in Nat /\ MaxComments \in Nat

Clocks == 1..MaxTriggers
MaxRuns == 2 * MaxTriggers + MaxComments
Runs == 1..MaxRuns

VARIABLES
  now,      \* half hours
  clock,    \* runs of the clock, with the fallback run and the recovery of each
  ticked,   \* occurrences in whose window a scheduled clock run was created
  run,      \* runs of the orchestrator workflow, in the order of their creation
  made,     \* how many there are
  receipts, \* receipt comments on issue #431
  report,   \* the history directory of an occurrence
  latest    \* the occurrence of latest/delivery_status.json

vars == <<now, clock, ticked, run, made, receipts, report, latest>>
outcome == <<receipts, report, latest>>

\* Time starts at half past an hour; the logical slot of a tick is its hour.
Hour(t) == (t + 1) \div 2

Holding == {"core", "dispatch"}
TickStates == Holding \cup {"none", "queued", "waiting", "ended", "failed", "cancelled"}
InRecovery == {"list", "write"}
AuditStates == InRecovery \cup {"none", "evidence", "runs", "waiting", "ended", "cancelled"}

\* A clock run: its tick job with the fallback run it dispatches, its audit and
\* recovery jobs.
Clock ==
  [origin : {"none", "schedule", "manual", "external", "comment"},
   tick : TickStates, occ : Occurrences \cup {None}, hour : 0..Hour(MaxTime),
   audit : AuditStates, cand : SUBSET Occurrences]

Authors == {"schedule", "manual", "external", "recovery", "comment"}
Statuses == {"READY", "READY_REUSED", "FAILED"}

\* An orchestrator run; occ is None when the job is skipped.
Run ==
  [occ : Occurrences \cup {None}, by : Authors \cup {"none"},
   status : {"none", "pending", "active", "success", "failure", "cancelled", "skipped"},
   pc : {"guard", "report", "receipt"}, answer : Statuses]

TypeOK ==
  /\ now \in 0..MaxTime
  /\ clock \in [Clocks -> Clock]
  /\ ticked \subseteq Occurrences
  /\ run \in [Runs -> Run]
  /\ made \in 0..MaxRuns
  /\ receipts \subseteq [occ : Occurrences, run : Runs, status : Statuses]
  /\ report \in [Occurrences -> {"absent", "bad", "good"}]
  /\ latest \in Occurrences \cup {None}

Init ==
  /\ now = 0
  /\ clock = [c \in Clocks |->
       [origin |-> "none", tick |-> "none", occ |-> None, hour |-> 0,
        audit |-> "none", cand |-> {}]]
  /\ ticked = {}
  /\ run = [i \in Runs |->
       [occ |-> None, by |-> "none", status |-> "none", pc |-> "guard", answer |-> "FAILED"]]
  /\ made = 0
  /\ receipts = {}
  /\ report = [o \in Occurrences |-> "absent"]
  /\ latest = None

-----------------------------------------------------------------------------
(* The concurrency group of the orchestrator *)

\* Runs with the title of an occurrence; a run started by comment has another.
Titled(i, o) == run[i].occ = o /\ run[i].by \in Authors \ {"comment"}

Running(i) == run[i].status = "active"

\* Mutant: no concurrency group.
NewRun_Parallel(o, a) ==
  /\ made < MaxRuns
  /\ made' = made + 1
  /\ run' = [run EXCEPT ![made + 1].occ = o, ![made + 1].by = a, ![made + 1].status = "active"]

\* A new run starts, or waits in place of the one that waited.
NewRun(o, a) ==
  /\ made < MaxRuns
  /\ made' = made + 1
  /\ run' = [i \in Runs |->
       IF i = made + 1
       THEN [run[i] EXCEPT !.occ = o, !.by = a,
               !.status = IF \E j \in Runs : Running(j) THEN "pending" ELSE "active"]
       ELSE IF run[i].status = "pending" THEN [run[i] EXCEPT !.status = "cancelled"]
       ELSE run[i]]

\* Mutant: the job of a run without an occurrence is not skipped.
EndRun_Jobs(i, s) ==
  run' = [j \in Runs |->
    IF j = i THEN [run[j] EXCEPT !.status = s, !.pc = "guard", !.answer = "FAILED"]
    ELSE IF run[j].status = "pending" THEN [run[j] EXCEPT !.status = "active"]
    ELSE run[j]]

\* A run ends and the waiting one goes on; without a job it ends at once.
EndRun(i, s) ==
  run' = [j \in Runs |->
    IF j = i THEN [run[j] EXCEPT !.status = s, !.pc = "guard", !.answer = "FAILED"]
    ELSE IF run[j].status = "pending"
         THEN [run[j] EXCEPT !.status = IF run[j].occ = None THEN "skipped" ELSE "active"]
    ELSE run[j]]

\* A comment of a person that is no tick: a run without a job, which waits all
\* the same.
OtherComment ==
  /\ Cardinality({i \in 1..made : run[i].occ = None}) < MaxComments
  /\ \E i \in Runs : Running(i)
  /\ NewRun(None, "comment")
  /\ UNCHANGED <<now, clock, ticked, outcome>>

-----------------------------------------------------------------------------
(* The orchestrator, as the triggers see it *)

\* Mutant: the guard only looks at the latest publication.
Reusable_Latest(o) == latest = o

Reusable(o) ==
  \/ \E r \in receipts : r.occ = o /\ r.status # "FAILED"
  \/ latest = o

Guard(i) ==
  /\ Running(i) /\ run[i].pc = "guard"
  /\ run' = [run EXCEPT ![i] =
       IF Reusable(@.occ) THEN [@ EXCEPT !.pc = "receipt", !.answer = "READY_REUSED"]
                          ELSE [@ EXCEPT !.pc = "report"]]
  /\ UNCHANGED <<now, clock, ticked, made, outcome>>

\* The report is published.  It is verified, or its run fails after the push, or
\* the verification finds it wanting (FAILED_REPORT, FAILED_VERIFY).
Publish(i, q, a) ==
  /\ Running(i) /\ run[i].pc = "report"
  /\ a = "READY" => q = "good"
  /\ a = "FAILED" => Faults
  /\ report' = [report EXCEPT ![run[i].occ] = q]
  /\ latest' = run[i].occ
  /\ run' = [run EXCEPT ![i].pc = "receipt", ![i].answer = a]
  /\ UNCHANGED <<now, clock, ticked, made, receipts>>

\* FAILED_PREFETCH, FAILED_REPORT
ReportFails(i) ==
  /\ Faults
  /\ Running(i) /\ run[i].pc = "report"
  /\ run' = [run EXCEPT ![i].pc = "receipt", ![i].answer = "FAILED"]
  /\ UNCHANGED <<now, clock, ticked, made, outcome>>

PostReceipt(i) ==
  /\ Running(i) /\ run[i].pc = "receipt"
  /\ receipts' = receipts \cup {[occ |-> run[i].occ, run |-> i, status |-> run[i].answer]}
  /\ EndRun(i, IF run[i].answer = "FAILED" THEN "failure" ELSE "success")
  /\ UNCHANGED <<now, clock, ticked, made, report, latest>>

\* The runner dies, the job is cancelled or times out, the comment fails.
Die(i) ==
  /\ Faults
  /\ Running(i)
  /\ EndRun(i, "failure")
  /\ UNCHANGED <<now, clock, ticked, made, outcome>>

-----------------------------------------------------------------------------
(* Clock and fallback *)

Elapse ==
  /\ now < MaxTime
  /\ now' = now + 1
  /\ UNCHANGED <<clock, ticked, run, made, outcome>>

InWindow(t) == {o \in Occurrences : Due[o] <= t /\ t <= Due[o] + ResolverHi}

NextTrigger(c) ==
  clock[c].tick = "none" /\ \A d \in Clocks : d < c => clock[d].tick # "none"

\* The owner ticks a due occurrence by comment.
CommentTick(c, o) ==
  /\ NextTrigger(c)
  /\ Due[o] <= now
  /\ clock' = [clock EXCEPT ![c].origin = "comment", ![c].tick = "ended", ![c].audit = "ended"]
  /\ NewRun(o, "comment")
  /\ UNCHANGED <<now, ticked, outcome>>

CreateClock(c, g) ==
  /\ NextTrigger(c)
  /\ clock' = [clock EXCEPT ![c].origin = g, ![c].tick = "queued",
                            ![c].audit = IF g = "external" THEN "ended" ELSE "evidence"]
  /\ ticked' = IF g = "schedule" THEN ticked \cup InWindow(now) ELSE ticked
  /\ UNCHANGED <<now, run, made, outcome>>

\* resolve_tick: the nearest occurrence in its window, if there is one.
Resolve(t) ==
  LET near == {o \in InWindow(t) : \A q \in InWindow(t) : Due[q] <= Due[o]}
  IN  IF near = {} THEN {None} ELSE near

\* The gate of an external tick: any run of the title, whatever its end.
GateBlocks(o) == o = None \/ \E i \in Runs : Titled(i, o)

InGroup(d, h) == clock[d].hour = h /\ clock[d].tick \in Holding

\* The fallback run of hour h starts, or waits in place of the one that waited.
FallbackEnters(c, o, h) ==
  clock' = [d \in Clocks |->
    IF d = c
    THEN [clock[d] EXCEPT !.occ = o, !.hour = h,
            !.tick = IF \E e \in Clocks : InGroup(e, h) THEN "waiting" ELSE "core"]
    ELSE IF clock[d].tick = "waiting" /\ clock[d].hour = h
         THEN [clock[d] EXCEPT !.tick = "cancelled", !.occ = None, !.hour = 0]
    ELSE clock[d]]

FallbackEnds(c, s) ==
  clock' = [d \in Clocks |->
    IF d = c THEN [clock[d] EXCEPT !.tick = s, !.occ = None, !.hour = 0]
    ELSE IF clock[d].tick = "waiting" /\ clock[d].hour = clock[c].hour
         THEN [clock[d] EXCEPT !.tick = "core"]
    ELSE clock[d]]

\* The tick job: resolve, gate, dispatch of the fallback.
TickJob(c) ==
  /\ clock[c].tick = "queued"
  /\ \E o \in Resolve(now) :
       IF clock[c].origin = "external" /\ GateBlocks(o)
       THEN clock' = [clock EXCEPT ![c].tick = "ended"]
       ELSE FallbackEnters(c, o, Hour(now))
  /\ UNCHANGED <<now, ticked, run, made, outcome>>

\* Mutant: the check does not look at the occurrence.
ActiveOrDone_Any(o) == \E i \in Runs : run[i].status \in {"active", "success"}

\* The last run of the title is queued, in progress or successful; one that
\* waits for its group is "pending", which the check does not know.
ActiveOrDone(o) ==
  \E i \in Runs :
    /\ Titled(i, o) /\ run[i].status \in {"active", "success"}
    /\ \A j \in Runs : Titled(j, o) => j <= i

\* The core refresh has succeeded; without a report there is nothing to do.
CheckExisting(c) ==
  /\ clock[c].tick = "core"
  /\ IF clock[c].occ = None \/ ActiveOrDone(clock[c].occ)
     THEN FallbackEnds(c, "ended")
     ELSE clock' = [clock EXCEPT ![c].tick = "dispatch"]
  /\ UNCHANGED <<now, ticked, run, made, outcome>>

DispatchFallback(c) ==
  /\ clock[c].tick = "dispatch"
  /\ NewRun(clock[c].occ, clock[c].origin)
  /\ FallbackEnds(c, "ended")
  /\ UNCHANGED <<now, ticked, outcome>>

\* The core refresh or a call fails, the runner dies; a tick job that fails before
\* its dispatch leaves no other trace.
FallbackFails(c) ==
  /\ Faults
  /\ clock[c].tick \in Holding
  /\ FallbackEnds(c, "failed")
  /\ UNCHANGED <<now, ticked, run, made, outcome>>

-----------------------------------------------------------------------------
(* Audit and recovery *)

\* Mutant: silence is MISSING from the start of the window.
Overdue_Early(o, t) == t >= Due[o] /\ t <= Due[o] + MaxOverdue

Overdue(o, t) == t >= Due[o] + Grace /\ t <= Due[o] + MaxOverdue

\* The audit reads the private repository first ...
AuditEvidence(c) ==
  /\ clock[c].audit = "evidence"
  /\ clock' = [clock EXCEPT ![c].audit = "runs",
       ![c].cand = {o \in Occurrences : Overdue(o, now) /\ report[o] = "absent"}]
  /\ UNCHANGED <<now, ticked, run, made, outcome>>

\* ... and then the runs of the orchestrator (a successful one counts for
\* nothing) and of the scheduled clock.
RunEvidence(o) ==
  \E i \in Runs :
    Titled(i, o) /\ run[i].status \in {"pending", "active", "failure", "cancelled"}

\* The newest candidate of the plan.
Selected(c) ==
  LET ok == {o \in clock[c].cand : ~RunEvidence(o) /\ o \notin ticked}
  IN  {o \in ok : \A q \in ok : Due[q] <= Due[o]}

\* The recovery job waits for its group; a newer one takes the place of the one
\* that waits.
AuditRuns(c) ==
  /\ clock[c].audit = "runs"
  /\ clock' = [d \in Clocks |->
       IF d = c
       THEN [clock[d] EXCEPT !.cand = Selected(c),
               !.audit = IF ~Recovery THEN "ended"
                         ELSE IF \E e \in Clocks : clock[e].audit \in InRecovery THEN "waiting"
                         ELSE "list"]
       ELSE IF Recovery /\ clock[d].audit = "waiting" THEN [clock[d] EXCEPT !.audit = "cancelled", !.cand = {}]
       ELSE clock[d]]
  /\ UNCHANGED <<now, ticked, run, made, outcome>>

RecoveryEnds(c) ==
  clock' = [d \in Clocks |->
    IF d = c THEN [clock[d] EXCEPT !.audit = "ended", !.cand = {}]
    ELSE IF clock[d].audit = "waiting" THEN [clock[d] EXCEPT !.audit = "list"]
    ELSE clock[d]]

\* Mutant: only an active or successful run is an attempt.
AlreadyAttempted_Live(o) ==
  \E i \in Runs : Titled(i, o) /\ run[i].status \in {"pending", "active", "success"}

AlreadyAttempted(o) == \E i \in Runs : Titled(i, o)

\* The list of runs, read once before the announcement and once after it: what
\* the first shows, the second shows too.
RecoveryList(c) ==
  /\ clock[c].audit = "list"
  /\ IF \E o \in clock[c].cand : ~AlreadyAttempted(o)
     THEN clock' = [clock EXCEPT ![c].audit = "write"]
     ELSE RecoveryEnds(c)
  /\ UNCHANGED <<now, ticked, run, made, outcome>>

RecoveryDispatch(c) ==
  /\ clock[c].audit = "write"
  /\ \E o \in clock[c].cand : NewRun(o, "recovery")
  /\ RecoveryEnds(c)
  /\ UNCHANGED <<now, ticked, outcome>>

\* Evidence could not be read (UNKNOWN is no candidate), a call fails or the runner
\* dies: nothing is dispatched, nothing is retried.
RecoveryFails(c) ==
  /\ Faults
  /\ clock[c].audit \in InRecovery
  /\ RecoveryEnds(c)
  /\ UNCHANGED <<now, ticked, run, made, outcome>>

-----------------------------------------------------------------------------
RunStep(i) ==
  \/ Guard(i) \/ ReportFails(i)
  \/ \E q \in {"good", "bad"}, a \in {"READY", "FAILED"} : Publish(i, q, a)
  \/ PostReceipt(i) \/ Die(i)

FallbackStep(c) ==
  \/ TickJob(c) \/ CheckExisting(c) \/ DispatchFallback(c)
  \/ FallbackFails(c)

AuditStep(c) ==
  \/ AuditEvidence(c) \/ AuditRuns(c) \/ RecoveryList(c) \/ RecoveryDispatch(c)
  \/ RecoveryFails(c)

Next ==
  \/ Elapse
  \/ OtherComment
  \/ \E c \in Clocks, o \in Occurrences : CommentTick(c, o)
  \/ \E c \in Clocks, g \in Origins : CreateClock(c, g)
  \/ \E c \in Clocks : FallbackStep(c) \/ AuditStep(c)
  \/ \E i \in Runs : RunStep(i)

Spec == Init /\ [][Next]_vars

\* Jobs have timeouts: what has begun goes on.  Nothing forces a clock run, a
\* comment or the passing of time.
FairSpec ==
  /\ Spec
  /\ \A c \in Clocks : WF_vars(FallbackStep(c)) /\ WF_vars(AuditStep(c))
  /\ WF_vars(\E i \in Runs : RunStep(i))
-----------------------------------------------------------------------------
(* Properties *)

\* An occurrence is reported READY by one run only, however many runs clocks,
\* recovery and owner dispatch for it.
OneReadyReceipt ==
  \A r, q \in receipts : r.occ = q.occ /\ r.status = "READY" /\ q.status = "READY" => r = q

\* The recovery never dispatches an occurrence twice, whatever became of the run
\* and however old the audit was it decided on.
RecoveredOnce ==
  \A i, j \in Runs :
    run[i].by = "recovery" /\ run[j].by = "recovery" /\ run[i].occ = run[j].occ => i = j

\* An occurrence that is recovered is one the scheduled clock has missed for good:
\* no tick was or will be created in its window.
RecoveryFillsAGap == \A i \in Runs : run[i].by = "recovery" => run[i].occ \notin ticked

\* The delivery promises what OccurrenceOnce says: nothing follows a READY answer.
Answer(o) ==
  LET said == {r.status : r \in {q \in receipts : q.occ = o}}
  IN  IF said \ {"FAILED"} # {} THEN "ready" ELSE IF said # {} THEN "failed" ELSE "none"

Once == INSTANCE OccurrenceOnce WITH answer <- [o \in Occurrences |-> Answer(o)]
ImplementsOnce == Once!Spec

\* A fallback run for an occurrence leads to an end of all runs of the occurrence,
\* the one that waits for the group included, and to a READY answer unless some
\* run has failed or was cancelled: checks and groups alone lose no occurrence.
Disturbed ==
  \/ \E c \in Clocks : clock[c].tick \in {"failed", "cancelled"}
  \/ \E i \in Runs : run[i].status \in {"failure", "cancelled"}

Settled(o) == \A i \in Runs : run[i].occ = o => run[i].status \notin {"pending", "active"}

TickIsServed ==
  \A o \in Occurrences :
    (\E c \in Clocks : clock[c].tick = "core" /\ clock[c].occ = o)
      ~> (Settled(o) /\ (Answer(o) = "ready" \/ Disturbed))

\* The documentation of the external clock: no automatic retry after a failed or
\* cancelled attempt (docs/v12/EXTERNAL_CLOCK_ARCHITECTURE_20261025.md, line 29).
ExternalNeverRetries ==
  [][\A i, j \in Runs :
       /\ run[i].status = "none" /\ run'[i].by = "external"
       /\ Titled(j, run'[i].occ)
       => run[j].status \notin {"failure", "cancelled"}]_vars
=============================================================================
