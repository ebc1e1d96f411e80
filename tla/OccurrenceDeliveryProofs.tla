----------------------- MODULE OccurrenceDeliveryProofs -----------------------
(***************************************************************************)
(* Proofs about OccurrenceDelivery for every set of occurrences and any    *)
(* number of clock runs, ticks and comments, whatever the windows are.     *)
(***************************************************************************)
EXTENDS OccurrenceDelivery, TLAPS

RunsType == run \in [Runs -> Run] /\ made \in 0..MaxRuns

\* A tick job or fallback is of a clock run, and one that dispatches has a report to.
Ticking ==
  {k \in Clock :
     /\ k.tick \in {"queued", "waiting", "core", "dispatch"} =>
          k.origin \in {"schedule", "manual", "external"}
     /\ k.tick = "dispatch" => k.occ \in Occurrences}

ClocksType == clock \in [Clocks -> Ticking]

\* There are finitely many runs.
LEMMA MaxRunsType == MaxRuns \in Nat
BY DeliveryAssumption DEF MaxRuns

-----------------------------------------------------------------------------
(* What a step does to the runs of the orchestrator *)

\* A run is created: it waits when another is in progress and replaces what waited.
LEMMA NewRunStep ==
  ASSUME RunsType, NEW o \in Occurrences \cup {None}, NEW a \in Authors, NewRun(o, a)
  PROVE  /\ RunsType' /\ made' = made + 1 /\ made + 1 \in Runs
         /\ run'[made + 1].occ = o /\ run'[made + 1].by = a
         /\ run'[made + 1].pc = run[made + 1].pc
         /\ run'[made + 1].status = IF \E j \in Runs : Running(j) THEN "pending" ELSE "active"
         /\ \A i \in Runs \ {made + 1} :
              /\ run'[i].occ = run[i].occ /\ run'[i].by = run[i].by /\ run'[i].pc = run[i].pc
              /\ run'[i].answer = run[i].answer
              /\ run'[i].status = IF run[i].status = "pending" THEN "cancelled" ELSE run[i].status
<1> DEFINE st == IF \E j \in Runs : Running(j) THEN "pending" ELSE "active"
           new == [run[made + 1] EXCEPT !.occ = o, !.by = a, !.status = st]
           old(i) == IF run[i].status = "pending" THEN [run[i] EXCEPT !.status = "cancelled"] ELSE run[i]
<1>1. made' = made + 1 /\ made + 1 \in Runs /\ made' \in 0..MaxRuns
  <2>1. made' = made + 1 /\ made < MaxRuns
    BY DEF NewRun
  <2> QED BY <2>1, MaxRunsType DEF RunsType, Runs
<1>2. run' = [i \in Runs |-> IF i = made + 1 THEN new ELSE old(i)]
  BY DEF NewRun
<1>3. /\ new \in Run /\ new.occ = o /\ new.by = a /\ new.pc = run[made + 1].pc /\ new.status = st
  <2>1. st \in {"pending", "active"} /\ run[made + 1] \in Run
    BY <1>1 DEF RunsType
  <2> HIDE DEF st
  <2> QED BY <2>1 DEF Run, Authors
<1>4. ASSUME NEW i \in Runs
      PROVE  /\ old(i) \in Run /\ old(i).occ = run[i].occ /\ old(i).by = run[i].by
             /\ old(i).pc = run[i].pc /\ old(i).answer = run[i].answer
             /\ old(i).status = IF run[i].status = "pending" THEN "cancelled" ELSE run[i].status
  <2>1. run[i] \in Run
    BY DEF RunsType
  <2> QED BY <2>1 DEF Run
<1> HIDE DEF new, old
<1>5. run' \in [Runs -> Run] /\ run'[made + 1] = new /\ \A i \in Runs \ {made + 1} : run'[i] = old(i)
  BY <1>1, <1>2, <1>3, <1>4
<1> QED BY <1>1, <1>3, <1>4, <1>5 DEF RunsType

\* A run ends, and what waits starts at its guard.
LEMMA EndRunStep ==
  ASSUME RunsType, made' = made, NEW i \in Runs, NEW s \in {"success", "failure"}, EndRun(i, s)
  PROVE  /\ RunsType'
         /\ \A j \in Runs : run'[j].occ = run[j].occ /\ run'[j].by = run[j].by
         /\ run'[i].status = s /\ run'[i].pc = "guard"
         /\ \A j \in Runs \ {i} :
              /\ run'[j].pc = run[j].pc /\ run'[j].answer = run[j].answer
              /\ run'[j].status =
                   IF run[j].status = "pending" THEN IF run[j].occ = None THEN "skipped" ELSE "active"
                   ELSE run[j].status
<1> DEFINE new == [run[i] EXCEPT !.status = s, !.pc = "guard", !.answer = "FAILED"]
           st(j) == IF run[j].occ = None THEN "skipped" ELSE "active"
           old(j) == IF run[j].status = "pending" THEN [run[j] EXCEPT !.status = st(j)] ELSE run[j]
<1>2. run' = [j \in Runs |-> IF j = i THEN new ELSE old(j)]
  BY DEF EndRun
<1>3. new \in Run /\ new.occ = run[i].occ /\ new.by = run[i].by /\ new.pc = "guard" /\ new.status = s
  <2>1. run[i] \in Run
    BY DEF RunsType
  <2> QED BY <2>1 DEF Run, Statuses
<1>4. ASSUME NEW j \in Runs
      PROVE  /\ old(j) \in Run /\ old(j).occ = run[j].occ /\ old(j).by = run[j].by
             /\ old(j).pc = run[j].pc /\ old(j).answer = run[j].answer
             /\ old(j).status = IF run[j].status = "pending" THEN st(j) ELSE run[j].status
  <2>1. run[j] \in Run
    BY DEF RunsType
  <2> QED BY <2>1 DEF Run
<1> HIDE DEF new, old
<1>5. run' \in [Runs -> Run] /\ run'[i] = new /\ \A j \in Runs \ {i} : run'[j] = old(j)
  BY <1>2, <1>3, <1>4
<1> QED BY <1>3, <1>4, <1>5 DEF RunsType

\* A run in progress that goes on: from p to q.
Moves(i, p, q) ==
  /\ Running(i) /\ run[i].pc = p /\ run'[i].pc = q
  /\ run'[i].status = run[i].status /\ run'[i].occ = run[i].occ /\ run'[i].by = run[i].by
  /\ \A j \in Runs \ {i} : run'[j] = run[j]

\* A run in progress goes from one step to the next.
LEMMA MoveStep ==
  ASSUME RunsType, made' = made, NEW i \in Runs, Running(i),
         NEW q \in {"guard", "report", "receipt"}, NEW a \in Statuses,
         run' = [run EXCEPT ![i] = [run[i] EXCEPT !.pc = q, !.answer = a]]
  PROVE  RunsType' /\ Moves(i, run[i].pc, q) /\ run'[i].answer = a
<1> DEFINE new == [run[i] EXCEPT !.pc = q, !.answer = a]
<1>1. run[i] \in Run
  BY DEF RunsType
<1>2. /\ new \in Run /\ new.pc = q /\ new.answer = a /\ new.status = run[i].status
      /\ new.occ = run[i].occ /\ new.by = run[i].by
  BY <1>1 DEF Run
<1> HIDE DEF new
<1> QED BY <1>2 DEF RunsType, Moves, new

\* The guard leads to the receipt when a READY is to be reused, else to the report.
LEMMA GuardMoves ==
  ASSUME RunsType, NEW i \in Runs, Guard(i)
  PROVE  /\ RunsType'
         /\ \/ Moves(i, "guard", "receipt") /\ Reusable(run[i].occ) /\ run'[i].answer = "READY_REUSED"
            \/ Moves(i, "guard", "report") /\ ~Reusable(run[i].occ)
<1>1. Running(i) /\ run[i].pc = "guard" /\ made' = made /\ run[i] \in Run /\ run[i].answer \in Statuses
  BY DEF Guard, RunsType, Run
<1>2. CASE Reusable(run[i].occ)
  <2>1. run' = [run EXCEPT ![i] = [run[i] EXCEPT !.pc = "receipt", !.answer = "READY_REUSED"]]
    BY <1>2 DEF Guard
  <2>2. "READY_REUSED" \in Statuses
    BY DEF Statuses
  <2> QED BY <1>1, <1>2, <2>1, <2>2, MoveStep
<1>3. CASE ~Reusable(run[i].occ)
  <2>1. run' = [run EXCEPT ![i] = [run[i] EXCEPT !.pc = "report"]]
    BY <1>3 DEF Guard
  <2>2. [run[i] EXCEPT !.pc = "report"] = [run[i] EXCEPT !.pc = "report", !.answer = run[i].answer]
    BY <1>1 DEF Run
  <2>3. run' = [run EXCEPT ![i] = [run[i] EXCEPT !.pc = "report", !.answer = run[i].answer]]
    BY <2>1, <2>2
  <2>4. RunsType' /\ Moves(i, run[i].pc, "report")
    BY <1>1, <2>3, MoveStep
  <2> QED BY <1>1, <1>3, <2>4
<1> QED BY <1>2, <1>3

\* A report that was published leads to its receipt.
LEMMA PublishMoves ==
  ASSUME RunsType, NEW i \in Runs, NEW q \in {"good", "bad"}, NEW a \in {"READY", "FAILED"},
         Publish(i, q, a)
  PROVE  RunsType' /\ Moves(i, "report", "receipt") /\ run'[i].answer = a
<1>1. Running(i) /\ run[i].pc = "report" /\ made' = made /\ a \in Statuses
  BY DEF Publish, Statuses
<1>2. run' = [run EXCEPT ![i] = [run[i] EXCEPT !.pc = "receipt", !.answer = a]]
  BY DEF Publish, RunsType
<1> QED BY <1>1, <1>2, MoveStep

\* A report that failed leads to a receipt that says so.
LEMMA ReportFailsMoves ==
  ASSUME RunsType, NEW i \in Runs, ReportFails(i)
  PROVE  RunsType' /\ Moves(i, "report", "receipt") /\ run'[i].answer = "FAILED"
<1>1. Running(i) /\ run[i].pc = "report" /\ made' = made /\ "FAILED" \in Statuses
  BY DEF ReportFails, Statuses
<1>2. run' = [run EXCEPT ![i] = [run[i] EXCEPT !.pc = "receipt", !.answer = "FAILED"]]
  BY DEF ReportFails, RunsType
<1> QED BY <1>1, <1>2, MoveStep

-----------------------------------------------------------------------------
(* What a step does to the clock runs *)

\* The hours of the clock are numbers.
LEMMA HourType == /\ Hour(MaxTime) \in Nat /\ 0 \in 0..Hour(MaxTime)
                  /\ \A t \in 0..MaxTime : Hour(t) \in 0..Hour(MaxTime)
BY DeliveryAssumption DEF Hour

\* The tick side of a clock run: audits and recoveries stay as they are.
SameAudits ==
  \A d \in Clocks : clock'[d].audit = clock[d].audit /\ clock'[d].cand = clock[d].cand

\* A clock run is created with its audit ahead of it, an external one without.
LEMMA CreateClockStep ==
  ASSUME ClocksType, NEW c \in Clocks, NEW g \in Origins, CreateClock(c, g)
  PROVE  /\ ClocksType' /\ clock'[c].audit \in {"ended", "evidence"}
         /\ \A d \in Clocks \ {c} : clock'[d].audit = clock[d].audit /\ clock'[d].cand = clock[d].cand
<1> DEFINE au == IF g = "external" THEN "ended" ELSE "evidence"
           new == [clock[c] EXCEPT !.origin = g, !.tick = "queued", !.audit = au]
<1>1. clock[c] \in Ticking /\ au \in {"ended", "evidence"} /\ g \in {"schedule", "manual", "external"}
  BY DeliveryAssumption DEF ClocksType
<1>2. clock' = [clock EXCEPT ![c] = new]
  BY DEF CreateClock
<1> HIDE DEF au
<1>3. new \in Ticking /\ new.audit = au
  BY <1>1 DEF Ticking, Clock, TickStates, AuditStates
<1> HIDE DEF new
<1> QED BY <1>1, <1>2, <1>3 DEF ClocksType

\* A comment ticks without an audit.
LEMMA CommentTickStep ==
  ASSUME ClocksType, NEW c \in Clocks, NEW o \in Occurrences, CommentTick(c, o)
  PROVE  /\ ClocksType' /\ clock'[c].audit = "ended"
         /\ \A d \in Clocks \ {c} : clock'[d].audit = clock[d].audit /\ clock'[d].cand = clock[d].cand
<1> DEFINE new == [clock[c] EXCEPT !.origin = "comment", !.tick = "ended", !.audit = "ended"]
<1>1. clock[c] \in Ticking
  BY DEF ClocksType
<1>2. clock' = [clock EXCEPT ![c] = new]
  BY DEF CommentTick
<1>3. new \in Ticking /\ new.audit = "ended"
  BY <1>1 DEF Ticking, Clock, TickStates, AuditStates
<1> HIDE DEF new
<1> QED BY <1>1, <1>2, <1>3 DEF ClocksType

\* The end of a tick leaves the audits alone.
LEMMA FallbackEndsStep ==
  ASSUME ClocksType, NEW c \in Clocks, NEW s \in {"ended", "failed"}, FallbackEnds(c, s)
  PROVE  ClocksType' /\ SameAudits
<1> DEFINE new == [clock[c] EXCEPT !.tick = s, !.occ = None, !.hour = 0]
           old(d) == IF clock[d].tick = "waiting" /\ clock[d].hour = clock[c].hour
                     THEN [clock[d] EXCEPT !.tick = "core"] ELSE clock[d]
<1>1. \A d \in Clocks : clock[d] \in Ticking
  BY DEF ClocksType
<1>2. clock' = [d \in Clocks |-> IF d = c THEN new ELSE old(d)]
  BY DEF FallbackEnds
<1>3. new \in Ticking /\ new.audit = clock[c].audit /\ new.cand = clock[c].cand
  BY <1>1, HourType DEF Ticking, Clock, TickStates
<1>4. ASSUME NEW d \in Clocks
      PROVE  old(d) \in Ticking /\ old(d).audit = clock[d].audit /\ old(d).cand = clock[d].cand
  BY <1>1 DEF Ticking, Clock, TickStates, Holding
<1> HIDE DEF new, old
<1> QED BY <1>2, <1>3, <1>4 DEF ClocksType, SameAudits

\* A tick that enters the fallback leaves the audits alone.
LEMMA FallbackEntersStep ==
  ASSUME ClocksType, NEW c \in Clocks, NEW o \in Occurrences \cup {None},
         NEW h \in 0..Hour(MaxTime), clock[c].tick = "queued", FallbackEnters(c, o, h)
  PROVE  ClocksType' /\ SameAudits
<1> DEFINE st == IF \E e \in Clocks : InGroup(e, h) THEN "waiting" ELSE "core"
           new == [clock[c] EXCEPT !.occ = o, !.hour = h, !.tick = st]
           old(d) == IF clock[d].tick = "waiting" /\ clock[d].hour = h
                     THEN [clock[d] EXCEPT !.tick = "cancelled", !.occ = None, !.hour = 0]
                     ELSE clock[d]
<1>1. \A d \in Clocks : clock[d] \in Ticking
  BY DEF ClocksType
<1>2. clock' = [d \in Clocks |-> IF d = c THEN new ELSE old(d)]
  BY DEF FallbackEnters
<1>s. st \in {"waiting", "core"}
  OBVIOUS
<1> HIDE DEF st
<1>3. new \in Ticking /\ new.audit = clock[c].audit /\ new.cand = clock[c].cand
  BY <1>1, <1>s DEF Ticking, Clock, TickStates, Holding
<1>4. ASSUME NEW d \in Clocks
      PROVE  old(d) \in Ticking /\ old(d).audit = clock[d].audit /\ old(d).cand = clock[d].cand
  BY <1>1, HourType DEF Ticking, Clock, TickStates
<1> HIDE DEF new, old
<1> QED BY <1>2, <1>3, <1>4 DEF ClocksType, SameAudits

\* No step of a tick touches an audit.
LEMMA FallbackStepClock ==
  ASSUME ClocksType, now \in 0..MaxTime, NEW c \in Clocks, FallbackStep(c)
  PROVE  ClocksType' /\ SameAudits
<1>1. CASE TickJob(c)
  <2> DEFINE new == [clock[c] EXCEPT !.tick = "ended"]
  <2>1. \/ clock' = [clock EXCEPT ![c] = new]
        \/ \E o \in Resolve(now) : FallbackEnters(c, o, Hour(now))
    BY <1>1 DEF TickJob
  <2>2. Resolve(now) \subseteq Occurrences \cup {None}
    BY DEF Resolve, InWindow
  <2>3. clock[c] \in Ticking
    BY DEF ClocksType
  <2>4. new \in Ticking /\ new.audit = clock[c].audit /\ new.cand = clock[c].cand
    BY <2>3 DEF Ticking, Clock, TickStates
  <2> HIDE DEF new
  <2>5. CASE clock' = [clock EXCEPT ![c] = new]
    BY <2>4, <2>5 DEF ClocksType, SameAudits
  <2>6. CASE \E o \in Resolve(now) : FallbackEnters(c, o, Hour(now))
    BY <1>1, <2>2, <2>6, HourType, FallbackEntersStep DEF TickJob
  <2> QED BY <2>1, <2>5, <2>6
<1>2. CASE CheckExisting(c)
  <2> DEFINE new == [clock[c] EXCEPT !.tick = "dispatch"]
  <2>1. \/ clock' = [clock EXCEPT ![c] = new] /\ clock[c].tick = "core" /\ clock[c].occ # None
        \/ FallbackEnds(c, "ended")
    BY <1>2 DEF CheckExisting
  <2>2. clock[c] \in Ticking
    BY DEF ClocksType
  <2>3. clock[c].tick = "core" /\ clock[c].occ # None =>
          new \in Ticking /\ new.audit = clock[c].audit /\ new.cand = clock[c].cand
    BY <2>2 DEF Ticking, Clock, TickStates, Holding
  <2> HIDE DEF new
  <2>4. CASE clock' = [clock EXCEPT ![c] = new] /\ clock[c].tick = "core" /\ clock[c].occ # None
    BY <2>3, <2>4 DEF ClocksType, SameAudits
  <2> QED BY <2>1, <2>4, FallbackEndsStep
<1>3. CASE DispatchFallback(c) \/ FallbackFails(c)
  BY <1>3, FallbackEndsStep DEF DispatchFallback, FallbackFails
<1> QED BY <1>1, <1>2, <1>3 DEF FallbackStep

\* The audit collects what is overdue and has no report.
LEMMA AuditEvidenceStep ==
  ASSUME ClocksType, NEW c \in Clocks, AuditEvidence(c)
  PROVE  /\ ClocksType' /\ clock'[c].audit = "runs"
         /\ clock'[c].cand = {o \in Occurrences : Overdue(o, now) /\ report[o] = "absent"}
         /\ \A d \in Clocks \ {c} : clock'[d].audit = clock[d].audit /\ clock'[d].cand = clock[d].cand
<1> DEFINE os == {o \in Occurrences : Overdue(o, now) /\ report[o] = "absent"}
           new == [clock[c] EXCEPT !.audit = "runs", !.cand = os]
<1>1. clock[c] \in Ticking /\ os \in SUBSET Occurrences
  BY DEF ClocksType
<1>2. clock' = [clock EXCEPT ![c] = new]
  BY DEF AuditEvidence
<1> HIDE DEF os
<1>3. new \in Ticking /\ new.audit = "runs" /\ new.cand = os
  BY <1>1 DEF Ticking, Clock, AuditStates
<1> HIDE DEF new
<1> QED BY <1>1, <1>2, <1>3 DEF ClocksType, os

\* What the audit selects is one occurrence, if any: due times differ.
LEMMA SelectedOne ==
  ASSUME ClocksType, NEW c \in Clocks
  PROVE  /\ Selected(c) \subseteq clock[c].cand /\ Selected(c) \cap ticked = {}
         /\ \A o, q \in Selected(c) : o = q
<1>1. Selected(c) \subseteq clock[c].cand /\ Selected(c) \cap ticked = {}
  BY DEF Selected
<1>2. clock[c].cand \subseteq Occurrences
  BY DEF ClocksType, Ticking, Clock
<1>3. ASSUME NEW o \in Selected(c), NEW q \in Selected(c) PROVE o = q
  <2>1. Due[o] <= Due[q] /\ Due[q] <= Due[o]
    BY DEF Selected
  <2>2. o \in Occurrences /\ q \in Occurrences
    BY <1>1, <1>2
  <2>3. Due[o] \in Nat /\ Due[q] \in Nat
    BY <2>2, DeliveryAssumption
  <2>4. Due[o] = Due[q]
    BY <2>1, <2>3
  <2> QED BY <2>2, <2>4, DeliveryAssumption
<1> QED BY <1>1, <1>3

\* The audit keeps what nothing is in progress for, and queues its recovery.
LEMMA AuditRunsStep ==
  ASSUME ClocksType, NEW c \in Clocks, AuditRuns(c)
  PROVE  /\ ClocksType' /\ clock'[c].cand = Selected(c)
         /\ \/ clock'[c].audit = "ended"
               /\ \A d \in Clocks \ {c} : clock'[d] = clock[d]
            \/ /\ clock'[c].audit =
                    IF \E e \in Clocks : clock[e].audit \in InRecovery THEN "waiting" ELSE "list"
               /\ \A d \in Clocks \ {c} :
                    /\ clock'[d].audit =
                         IF clock[d].audit = "waiting" THEN "cancelled" ELSE clock[d].audit
                    /\ clock'[d].cand = IF clock[d].audit = "waiting" THEN {} ELSE clock[d].cand
<1> DEFINE st == IF ~Recovery THEN "ended"
                 ELSE IF \E e \in Clocks : clock[e].audit \in InRecovery THEN "waiting" ELSE "list"
           os == Selected(c)
           new == [clock[c] EXCEPT !.cand = os, !.audit = st]
           old(d) == IF Recovery /\ clock[d].audit = "waiting"
                     THEN [clock[d] EXCEPT !.audit = "cancelled", !.cand = {}] ELSE clock[d]
<1>1. \A d \in Clocks : clock[d] \in Ticking
  BY DEF ClocksType
<1>2. clock' = [d \in Clocks |-> IF d = c THEN new ELSE old(d)]
  BY DEF AuditRuns
<1>s. st \in {"ended", "waiting", "list"} /\ os \in SUBSET Occurrences
  BY SelectedOne DEF ClocksType, Ticking, Clock
<1>t. st = IF ~Recovery THEN "ended"
           ELSE IF \E e \in Clocks : clock[e].audit \in InRecovery THEN "waiting" ELSE "list"
  OBVIOUS
<1> HIDE DEF st, os
<1>3. new \in Ticking /\ new.audit = st /\ new.cand = os
  BY <1>1, <1>s DEF Ticking, Clock, AuditStates, InRecovery
<1>4. ASSUME NEW d \in Clocks
      PROVE  /\ old(d) \in Ticking
             /\ ~Recovery => old(d) = clock[d]
             /\ Recovery =>
                  /\ old(d).audit = IF clock[d].audit = "waiting" THEN "cancelled" ELSE clock[d].audit
                  /\ old(d).cand = IF clock[d].audit = "waiting" THEN {} ELSE clock[d].cand
  BY <1>1 DEF Ticking, Clock, AuditStates
<1> HIDE DEF new, old
<1>5. clock' \in [Clocks -> Ticking] /\ clock'[c] = new /\ \A d \in Clocks \ {c} : clock'[d] = old(d)
  BY <1>2, <1>3, <1>4
<1>6. CASE Recovery
  BY <1>3, <1>4, <1>5, <1>6, <1>t DEF ClocksType, os
<1>7. CASE ~Recovery
  BY <1>3, <1>4, <1>5, <1>7, <1>t DEF ClocksType, os
<1> QED BY <1>6, <1>7

\* A recovery that ends lets the waiting one begin.
LEMMA RecoveryEndsStep ==
  ASSUME ClocksType, NEW c \in Clocks, RecoveryEnds(c)
  PROVE  /\ ClocksType' /\ clock'[c].audit = "ended" /\ clock'[c].cand = {}
         /\ \A d \in Clocks \ {c} :
              /\ clock'[d].audit = IF clock[d].audit = "waiting" THEN "list" ELSE clock[d].audit
              /\ clock'[d].cand = clock[d].cand
<1> DEFINE new == [clock[c] EXCEPT !.audit = "ended", !.cand = {}]
           old(d) == IF clock[d].audit = "waiting" THEN [clock[d] EXCEPT !.audit = "list"] ELSE clock[d]
<1>1. \A d \in Clocks : clock[d] \in Ticking
  BY DEF ClocksType
<1>2. clock' = [d \in Clocks |-> IF d = c THEN new ELSE old(d)]
  BY DEF RecoveryEnds
<1>3. new \in Ticking /\ new.audit = "ended" /\ new.cand = {}
  BY <1>1 DEF Ticking, Clock, AuditStates
<1>4. ASSUME NEW d \in Clocks
      PROVE  /\ old(d) \in Ticking /\ old(d).cand = clock[d].cand
             /\ old(d).audit = IF clock[d].audit = "waiting" THEN "list" ELSE clock[d].audit
  BY <1>1 DEF Ticking, Clock, AuditStates, InRecovery
<1> HIDE DEF new, old
<1> QED BY <1>2, <1>3, <1>4 DEF ClocksType

\* The recovery goes on with what was not attempted yet, or ends.
LEMMA RecoveryListStep ==
  ASSUME ClocksType, NEW c \in Clocks, RecoveryList(c)
  PROVE  \/ RecoveryEnds(c)
         \/ /\ ClocksType' /\ clock'[c].audit = "write" /\ clock'[c].cand = clock[c].cand
            /\ \E o \in clock[c].cand : ~AlreadyAttempted(o)
            /\ \A d \in Clocks \ {c} : clock'[d] = clock[d]
<1> DEFINE new == [clock[c] EXCEPT !.audit = "write"]
<1>1. \/ RecoveryEnds(c)
      \/ clock' = [clock EXCEPT ![c] = new] /\ \E o \in clock[c].cand : ~AlreadyAttempted(o)
  BY DEF RecoveryList
<1>2. clock[c] \in Ticking
  BY DEF ClocksType
<1>3. new \in Ticking /\ new.audit = "write" /\ new.cand = clock[c].cand
  BY <1>2 DEF Ticking, Clock, AuditStates, InRecovery
<1> HIDE DEF new
<1> QED BY <1>1, <1>3 DEF ClocksType

-----------------------------------------------------------------------------
(* Types *)

\* A run in progress has an occurrence, and its answer is one of a receipt.
Active(i) == Running(i) => run[i].occ \in Occurrences

\* Runs that do not exist yet.
Unborn == \A i \in Runs : i > made => run[i].status = "none"

TypeInv == TypeOK /\ ClocksType /\ Unborn /\ \A i \in Runs : Active(i)

\* Initially every variable has its type.
LEMMA TypeInit == Init => TypeInv
<1> SUFFICES ASSUME Init PROVE TypeInv
  OBVIOUS
<1>1. run \in [Runs -> Run]
  BY DEF Init, Run, Statuses
<1>2. ClocksType /\ clock \in [Clocks -> Clock]
  BY HourType DEF Init, ClocksType, Ticking, Clock, TickStates, AuditStates
<1>3. now \in 0..MaxTime /\ made \in 0..MaxRuns
  BY DeliveryAssumption, MaxRunsType DEF Init
<1>4. ticked \subseteq Occurrences /\ latest \in Occurrences \cup {None}
      /\ receipts \subseteq [occ : Occurrences, run : Runs, status : Statuses]
      /\ report \in [Occurrences -> {"absent", "bad", "good"}]
  BY DEF Init
<1>5. \A i \in Runs : run[i].status = "none"
  BY DEF Init
<1> QED BY <1>1, <1>2, <1>3, <1>4, <1>5 DEF TypeInv, TypeOK, Unborn, Active, Running

\* A new run of the orchestrator.
LEMMA NewRunType ==
  ASSUME TypeInv, NEW o \in Occurrences \cup {None}, NEW a \in Authors, NewRun(o, a),
         o # None \/ \E j \in Runs : Running(j)
  PROVE  RunsType' /\ Unborn' /\ \A i \in Runs : Active(i)'
<1>1. RunsType /\ Unborn /\ \A i \in Runs : Active(i)
  BY DEF TypeInv, TypeOK, RunsType
<1>2. RunsType' /\ made' = made + 1 /\ made + 1 \in Runs /\ run'[made + 1].occ = o
      /\ run'[made + 1].status = (IF \E j \in Runs : Running(j) THEN "pending" ELSE "active")
      /\ \A i \in Runs \ {made + 1} :
           /\ run'[i].occ = run[i].occ
           /\ run'[i].status = IF run[i].status = "pending" THEN "cancelled" ELSE run[i].status
  BY <1>1, NewRunStep
<1>3. Unborn'
  <2> SUFFICES ASSUME NEW i \in Runs, i > made' PROVE run'[i].status = "none"
    BY DEF Unborn
  <2>1. i > made /\ i # made + 1
    BY <1>1, <1>2, MaxRunsType DEF RunsType, Runs
  <2> QED BY <1>1, <1>2, <2>1 DEF Unborn
<1>4. ASSUME NEW i \in Runs PROVE Active(i)'
  <2>1. CASE i = made + 1
    BY <1>2, <2>1 DEF Active, Running
  <2>2. CASE i # made + 1
    BY <1>1, <1>2, <2>2 DEF Active, Running
  <2> QED BY <2>1, <2>2
<1> QED BY <1>2, <1>3, <1>4

\* The end of a run.
LEMMA EndRunType ==
  ASSUME TypeInv, made' = made, NEW i \in Runs, Running(i), NEW s \in {"success", "failure"},
         EndRun(i, s)
  PROVE  RunsType' /\ Unborn' /\ \A j \in Runs : Active(j)'
<1>1. RunsType /\ Unborn /\ \A j \in Runs : Active(j) /\ run[j] \in Run
  BY DEF TypeInv, TypeOK, RunsType
<1>2. /\ RunsType' /\ run'[i].status = s
      /\ \A j \in Runs : run'[j].occ = run[j].occ
      /\ \A j \in Runs \ {i} :
           run'[j].status =
             IF run[j].status = "pending" THEN IF run[j].occ = None THEN "skipped" ELSE "active"
             ELSE run[j].status
  BY <1>1, EndRunStep
<1>3. Unborn'
  <2> SUFFICES ASSUME NEW j \in Runs, j > made PROVE run'[j].status = "none"
    BY DEF Unborn
  <2>1. run[j].status = "none" /\ j # i
    BY <1>1 DEF Unborn, Running
  <2> QED BY <1>2, <2>1
<1>4. ASSUME NEW j \in Runs PROVE Active(j)'
  <2>1. CASE j = i
    BY <1>2, <2>1 DEF Active, Running
  <2>2. CASE j # i
    BY <1>1, <1>2, <2>2 DEF Active, Running, Run
  <2> QED BY <2>1, <2>2
<1> QED BY <1>2, <1>3, <1>4

\* A run that moves on keeps the types of the runs.
LEMMA MovesType ==
  ASSUME TypeInv, made' = made, NEW i \in Runs, NEW p, NEW q, RunsType', Moves(i, p, q)
  PROVE  RunsType' /\ Unborn' /\ \A j \in Runs : Active(j)'
<1>1. Unborn /\ \A j \in Runs : Active(j)
  BY DEF TypeInv
<1>2. \A j \in Runs : run'[j].status = run[j].status /\ run'[j].occ = run[j].occ
  BY DEF Moves
<1> QED BY <1>1, <1>2 DEF Unborn, Active, Running

\* Every step keeps the types.
LEMMA TypeNext == TypeInv /\ [Next]_vars => TypeInv'
<1> SUFFICES ASSUME TypeInv, [Next]_vars PROVE TypeInv'
  OBVIOUS
<1>t. /\ RunsType /\ ClocksType /\ Unborn /\ \A i \in Runs : Active(i)
      /\ now \in 0..MaxTime /\ ticked \subseteq Occurrences
      /\ receipts \subseteq [occ : Occurrences, run : Runs, status : Statuses]
      /\ report \in [Occurrences -> {"absent", "bad", "good"}] /\ latest \in Occurrences \cup {None}
  BY DEF TypeInv, TypeOK, RunsType, ClocksType
<1>r. ASSUME UNCHANGED <<run, made>>
      PROVE  RunsType' /\ Unborn' /\ \A i \in Runs : Active(i)'
  BY <1>r, <1>t DEF RunsType, Unborn, Active, Running
<1>c. ASSUME UNCHANGED clock PROVE ClocksType'
  BY <1>c, <1>t DEF ClocksType
<1>q. ASSUME RunsType', Unborn', \A i \in Runs : Active(i)', ClocksType',
             now' \in 0..MaxTime, ticked' \subseteq Occurrences,
             receipts' \subseteq [occ : Occurrences, run : Runs, status : Statuses],
             report' \in [Occurrences -> {"absent", "bad", "good"}],
             latest' \in Occurrences \cup {None}
      PROVE  TypeInv'
  <2>1. clock' \in [Clocks -> Clock]
    BY <1>q DEF ClocksType, Ticking
  <2> QED BY <1>q, <2>1 DEF TypeInv, TypeOK, RunsType
<1>1. CASE Elapse
  <2>1. now' \in 0..MaxTime /\ UNCHANGED <<clock, ticked, run, made, outcome>>
    BY <1>1, <1>t, DeliveryAssumption DEF Elapse
  <2> QED BY <1>t, <1>r, <1>c, <1>q, <2>1 DEF outcome
<1>2. CASE OtherComment
  <2>1. /\ NewRun(None, "comment") /\ \E j \in Runs : Running(j)
        /\ UNCHANGED <<now, clock, ticked, outcome>> /\ "comment" \in Authors
    BY <1>2 DEF OtherComment, Authors
  <2>2. RunsType' /\ Unborn' /\ \A i \in Runs : Active(i)'
    BY <2>1, NewRunType
  <2> QED BY <1>t, <1>c, <1>q, <2>1, <2>2 DEF outcome
<1>3. ASSUME NEW c \in Clocks, NEW o \in Occurrences, CommentTick(c, o) PROVE TypeInv'
  <2>1. /\ NewRun(o, "comment") /\ UNCHANGED <<now, ticked, outcome>> /\ "comment" \in Authors
        /\ o # None
    BY <1>3, DeliveryAssumption DEF CommentTick, Authors
  <2>2. RunsType' /\ Unborn' /\ \A i \in Runs : Active(i)'
    BY <2>1, NewRunType
  <2>3. ClocksType'
    BY <1>3, <1>t, CommentTickStep
  <2> QED BY <1>t, <1>q, <2>1, <2>2, <2>3 DEF outcome
<1>4. ASSUME NEW c \in Clocks, NEW g \in Origins, CreateClock(c, g) PROVE TypeInv'
  <2>1. UNCHANGED <<now, run, made, outcome>> /\ ticked' \subseteq Occurrences
    BY <1>4, <1>t DEF CreateClock, InWindow
  <2>2. ClocksType'
    BY <1>4, <1>t, CreateClockStep
  <2> QED BY <1>t, <1>r, <1>q, <2>1, <2>2 DEF outcome
<1>5. ASSUME NEW c \in Clocks, FallbackStep(c) PROVE TypeInv'
  <2>1. ClocksType'
    BY <1>5, <1>t, FallbackStepClock
  <2>2. UNCHANGED <<now, ticked, outcome>>
    BY <1>5 DEF FallbackStep, TickJob, CheckExisting, DispatchFallback, FallbackFails
  <2>3. CASE TickJob(c) \/ CheckExisting(c) \/ FallbackFails(c)
    <3>1. UNCHANGED <<run, made>>
      BY <2>3 DEF TickJob, CheckExisting, FallbackFails
    <3> QED BY <1>t, <1>r, <1>q, <2>1, <2>2, <3>1 DEF outcome
  <2>4. CASE DispatchFallback(c)
    <3>1. NewRun(clock[c].occ, clock[c].origin) /\ clock[c].tick = "dispatch"
      BY <2>4 DEF DispatchFallback
    <3>2. clock[c].occ \in Occurrences /\ clock[c].origin \in Authors /\ clock[c].occ # None
      BY <1>t, <3>1, DeliveryAssumption DEF ClocksType, Ticking, Authors
    <3>3. RunsType' /\ Unborn' /\ \A i \in Runs : Active(i)'
      BY <3>1, <3>2, NewRunType
    <3> QED BY <1>t, <1>q, <2>1, <2>2, <3>3 DEF outcome
  <2> QED BY <1>5, <2>3, <2>4 DEF FallbackStep
<1>6. ASSUME NEW c \in Clocks, AuditStep(c) PROVE TypeInv'
  <2>1. UNCHANGED <<now, ticked, outcome>>
    BY <1>6 DEF AuditStep, AuditEvidence, AuditRuns, RecoveryList, RecoveryDispatch, RecoveryFails
  <2>2. CASE AuditEvidence(c) \/ AuditRuns(c) \/ RecoveryList(c) \/ RecoveryFails(c)
    <3>1. UNCHANGED <<run, made>>
      BY <2>2 DEF AuditEvidence, AuditRuns, RecoveryList, RecoveryFails
    <3>2. ClocksType'
      BY <2>2, <1>t, AuditEvidenceStep, AuditRunsStep, RecoveryListStep, RecoveryEndsStep
         DEF RecoveryFails
    <3> QED BY <1>t, <1>r, <1>q, <2>1, <3>1, <3>2 DEF outcome
  <2>3. CASE RecoveryDispatch(c)
    <3>1. PICK o \in clock[c].cand : NewRun(o, "recovery")
      BY <2>3 DEF RecoveryDispatch
    <3>2. o \in Occurrences /\ "recovery" \in Authors /\ o # None
      BY <1>t, DeliveryAssumption DEF ClocksType, Ticking, Clock, Authors
    <3>3. RunsType' /\ Unborn' /\ \A i \in Runs : Active(i)'
      BY <3>1, <3>2, NewRunType
    <3>4. ClocksType'
      BY <1>t, <2>3, RecoveryEndsStep DEF RecoveryDispatch
    <3> QED BY <1>t, <1>q, <2>1, <3>3, <3>4 DEF outcome
  <2> QED BY <1>6, <2>2, <2>3 DEF AuditStep
<1>7. ASSUME NEW i \in Runs, RunStep(i) PROVE TypeInv'
  <2>1. UNCHANGED <<now, clock, ticked, made>>
    BY <1>7 DEF RunStep, Guard, Publish, ReportFails, PostReceipt, Die
  <2>2. CASE Guard(i) \/ ReportFails(i)
    <3>1. RunsType' /\ \E p, q \in {"guard", "report", "receipt"} : Moves(i, p, q)
      BY <2>2, <1>t, GuardMoves, ReportFailsMoves
    <3>2. RunsType' /\ Unborn' /\ \A j \in Runs : Active(j)'
      BY <2>1, <3>1, MovesType
    <3>3. UNCHANGED outcome
      BY <2>2 DEF Guard, ReportFails
    <3> QED BY <1>t, <1>c, <1>q, <2>1, <3>2, <3>3 DEF outcome
  <2>3. ASSUME NEW q \in {"good", "bad"}, NEW a \in {"READY", "FAILED"}, Publish(i, q, a)
        PROVE  TypeInv'
    <3>1. RunsType' /\ Moves(i, "report", "receipt")
      BY <2>3, <1>t, PublishMoves
    <3>2. RunsType' /\ Unborn' /\ \A j \in Runs : Active(j)'
      BY <2>1, <3>1, MovesType
    <3>3. run[i].occ \in Occurrences
      BY <1>t, <3>1 DEF Active, Moves
    <3>4. /\ receipts' = receipts /\ report' = [report EXCEPT ![run[i].occ] = q]
          /\ latest' = run[i].occ
      BY <2>3 DEF Publish
    <3> QED BY <1>t, <1>c, <1>q, <2>1, <3>2, <3>3, <3>4
  <2>4. CASE PostReceipt(i)
    <3>1. Running(i) /\ UNCHANGED <<report, latest>>
          /\ receipts' = receipts \cup {[occ |-> run[i].occ, run |-> i, status |-> run[i].answer]}
      BY <2>4 DEF PostReceipt
    <3>2. PICK s \in {"success", "failure"} : EndRun(i, s)
      BY <2>4 DEF PostReceipt
    <3>3. RunsType' /\ Unborn' /\ \A j \in Runs : Active(j)'
      BY <2>1, <3>1, <3>2, EndRunType
    <3>4. run[i].occ \in Occurrences /\ run[i].answer \in Statuses
      BY <1>t, <3>1 DEF Active, RunsType, Run
    <3> QED BY <1>t, <1>c, <1>q, <2>1, <3>1, <3>3, <3>4
  <2>5. CASE Die(i)
    <3>1. Running(i) /\ EndRun(i, "failure") /\ UNCHANGED outcome
      BY <2>5 DEF Die
    <3>2. RunsType' /\ Unborn' /\ \A j \in Runs : Active(j)'
      BY <2>1, <3>1, EndRunType
    <3> QED BY <1>t, <1>c, <1>q, <2>1, <3>1, <3>2 DEF outcome
  <2> QED BY <1>7, <2>2, <2>3, <2>4, <2>5 DEF RunStep
<1>8. CASE UNCHANGED vars
  BY <1>8, <1>t, <1>r, <1>c, <1>q DEF vars
<1> QED BY <1>1, <1>2, <1>3, <1>4, <1>5, <1>6, <1>7, <1>8 DEF Next

\* Every variable keeps its type.
THEOREM TypeCorrect == Spec => []TypeOK
<1>1. TypeInv => TypeOK
  BY DEF TypeInv
<1> QED BY <1>1, TypeInit, TypeNext, PTL DEF Spec

-----------------------------------------------------------------------------
(* One answer *)

\* The concurrency group runs one run at a time, with one waiting.
Group ==
  \A i, j \in Runs :
    (Running(i) /\ Running(j)) \/ (run[i].status = "pending" /\ run[j].status = "pending") => i = j

Ready(o) == \E r \in receipts : r.occ = o /\ r.status # "FAILED"

\* What a run in progress has found out still holds: the guard sees what the runs
\* before it have posted, and no other run posts meanwhile.
Fresh(i) ==
  /\ ~Running(i) => run[i].pc = "guard"
  /\ Running(i) /\ (run[i].pc = "report" \/ (run[i].pc = "receipt" /\ run[i].answer # "READY_REUSED"))
       => ~Ready(run[i].occ)
  /\ Running(i) /\ run[i].pc = "receipt" /\ run[i].answer # "FAILED"
       => report[run[i].occ] # "absent"

Reported ==
  /\ latest # None => report[latest] # "absent"
  /\ \A o \in Occurrences : Ready(o) => report[o] # "absent"

GroupInv == Group /\ Reported /\ (\A i \in Runs : Fresh(i)) /\ OneReadyReceipt

\* Initially there is no run.
LEMMA GroupInit == Init => GroupInv
BY DEF Init, GroupInv, Group, Reported, Ready, Fresh, Running, OneReadyReceipt

\* New runs and ends of runs leave the group what it is, and all but the run in
\* progress at its guard.
LEMMA NewRunGroup ==
  ASSUME TypeInv, GroupInv, NEW o \in Occurrences \cup {None}, NEW a \in Authors, NewRun(o, a),
         UNCHANGED outcome
  PROVE  GroupInv'
<1>1. RunsType /\ Unborn /\ Group /\ \A i \in Runs : Fresh(i)
  BY DEF TypeInv, TypeOK, RunsType, GroupInv
<1>2. /\ made + 1 \in Runs /\ run'[made + 1].pc = run[made + 1].pc
      /\ run'[made + 1].status = (IF \E j \in Runs : Running(j) THEN "pending" ELSE "active")
      /\ \A i \in Runs \ {made + 1} :
           /\ run'[i].occ = run[i].occ /\ run'[i].pc = run[i].pc /\ run'[i].answer = run[i].answer
           /\ run'[i].status = IF run[i].status = "pending" THEN "cancelled" ELSE run[i].status
  BY <1>1, NewRunStep
<1>3. run[made + 1].status = "none"
  <2>1. made + 1 > made
    BY <1>1, MaxRunsType DEF RunsType
  <2> QED BY <1>1, <1>2, <2>1 DEF Unborn
<1>4. Group'
  <2>1. ASSUME NEW i \in Runs, Running(i)' PROVE i = made + 1 \/ Running(i)
    BY <1>2, <2>1 DEF Running
  <2>2. run'[made + 1].status = "active" => \A i \in Runs : ~Running(i)
    BY <1>2 DEF Running
  <2>3. \A i \in Runs : run'[i].status = "pending" => i = made + 1
    BY <1>2
  <2>4. ASSUME NEW i \in Runs, NEW j \in Runs, Running(i)', Running(j)' PROVE i = j
    BY <1>1, <2>1, <2>2, <2>4 DEF Group, Running
  <2>5. ASSUME NEW i \in Runs, NEW j \in Runs, run'[i].status = "pending", run'[j].status = "pending"
        PROVE  i = j
    BY <2>3, <2>5
  <2> QED BY <2>4, <2>5 DEF Group
<1>5. ASSUME NEW i \in Runs PROVE Fresh(i)'
  <2>1. CASE i = made + 1
    <3>1. run'[i].pc = "guard"
      BY <1>1, <1>2, <1>3, <2>1 DEF Fresh, Running
    <3> QED BY <3>1 DEF Fresh
  <2>2. CASE i # made + 1
    <3>1. Running(i)' <=> Running(i)
      BY <1>2, <2>2 DEF Running
    <3>2. run'[i].occ = run[i].occ /\ run'[i].pc = run[i].pc /\ run'[i].answer = run[i].answer
      BY <1>2, <2>2
    <3> QED BY <1>1, <3>1, <3>2 DEF Fresh, Ready, outcome
  <2> QED BY <2>1, <2>2
<1>6. Reported' /\ OneReadyReceipt'
  BY DEF GroupInv, Reported, Ready, OneReadyReceipt, outcome
<1> QED BY <1>4, <1>5, <1>6 DEF GroupInv

\* The end of a run leaves one in progress at most, at its guard.
LEMMA EndRunGroup ==
  ASSUME TypeInv, Group, \A j \in Runs : Fresh(j), made' = made, NEW i \in Runs, Running(i),
         NEW s \in {"success", "failure"}, EndRun(i, s)
  PROVE  Group' /\ \A j \in Runs : run'[j].pc = "guard"
<1>1. RunsType
  BY DEF TypeInv, TypeOK, RunsType
<1>2. /\ run'[i].status = s /\ run'[i].pc = "guard"
      /\ \A j \in Runs \ {i} :
           /\ run'[j].pc = run[j].pc
           /\ run'[j].status =
                IF run[j].status = "pending" THEN IF run[j].occ = None THEN "skipped" ELSE "active"
                ELSE run[j].status
  BY <1>1, EndRunStep
<1>3. \A j \in Runs \ {i} : ~Running(j) /\ run[j].pc = "guard"
  BY DEF Group, Fresh
<1>4. \A j \in Runs : run'[j].pc = "guard"
  BY <1>2, <1>3
<1>5. \A j \in Runs : Running(j)' => run[j].status = "pending"
  BY <1>2, <1>3 DEF Running
<1>6. \A j \in Runs : run'[j].status # "pending"
  BY <1>2
<1> QED BY <1>4, <1>5, <1>6 DEF Group

\* A run in progress goes on while nothing but it changes.
LEMMA MovesGroup ==
  ASSUME Group, \A j \in Runs : Fresh(j), NEW i \in Runs, NEW p, NEW q, Moves(i, p, q)
  PROVE  Group' /\ \A j \in Runs \ {i} : ~Running(j)' /\ run'[j].pc = "guard"
<1>1. \A j \in Runs : run'[j].status = run[j].status
  BY DEF Moves
<1>2. \A j \in Runs \ {i} : ~Running(j) /\ run[j].pc = "guard"
  BY DEF Group, Fresh, Moves
<1> QED BY <1>1, <1>2 DEF Group, Running, Moves

\* Every step keeps the group and what its guard saw.
LEMMA GroupNext == TypeInv /\ GroupInv /\ [Next]_vars => GroupInv'
<1> SUFFICES ASSUME TypeInv, GroupInv, [Next]_vars PROVE GroupInv'
  OBVIOUS
<1>t. /\ RunsType /\ ClocksType /\ Unborn /\ \A i \in Runs : Active(i)
      /\ report \in [Occurrences -> {"absent", "bad", "good"}]
      /\ receipts \subseteq [occ : Occurrences, run : Runs, status : Statuses]
      /\ latest \in Occurrences \cup {None}
  BY DEF TypeInv, TypeOK, RunsType
<1>g. Group /\ Reported /\ (\A i \in Runs : Fresh(i)) /\ OneReadyReceipt
  BY DEF GroupInv
<1>u. ASSUME UNCHANGED <<run, outcome>> PROVE GroupInv'
  BY <1>u, <1>g DEF GroupInv, Group, Reported, Ready, Fresh, Running, OneReadyReceipt, outcome
<1>1. CASE Elapse \/ (\E c \in Clocks, g \in Origins : CreateClock(c, g)) \/ UNCHANGED vars
  BY <1>1, <1>u DEF Elapse, CreateClock, vars, outcome
<1>2. CASE OtherComment
  <2>1. NewRun(None, "comment") /\ "comment" \in Authors /\ UNCHANGED outcome
    BY <1>2 DEF OtherComment, Authors
  <2> QED BY <2>1, NewRunGroup
<1>3. ASSUME NEW c \in Clocks, NEW o \in Occurrences, CommentTick(c, o) PROVE GroupInv'
  <2>1. NewRun(o, "comment") /\ "comment" \in Authors /\ UNCHANGED outcome
    BY <1>3 DEF CommentTick, Authors
  <2> QED BY <2>1, NewRunGroup
<1>4. ASSUME NEW c \in Clocks, FallbackStep(c) PROVE GroupInv'
  <2>1. CASE TickJob(c) \/ CheckExisting(c) \/ FallbackFails(c)
    BY <2>1, <1>u DEF TickJob, CheckExisting, FallbackFails
  <2>2. CASE DispatchFallback(c)
    <3>1. NewRun(clock[c].occ, clock[c].origin) /\ clock[c].tick = "dispatch" /\ UNCHANGED outcome
      BY <2>2 DEF DispatchFallback
    <3>2. clock[c].occ \in Occurrences /\ clock[c].origin \in Authors
      BY <1>t, <3>1 DEF ClocksType, Ticking, Authors
    <3> QED BY <3>1, <3>2, NewRunGroup
  <2> QED BY <1>4, <2>1, <2>2 DEF FallbackStep
<1>5. ASSUME NEW c \in Clocks, AuditStep(c) PROVE GroupInv'
  <2>1. CASE AuditEvidence(c) \/ AuditRuns(c) \/ RecoveryList(c) \/ RecoveryFails(c)
    BY <2>1, <1>u DEF AuditEvidence, AuditRuns, RecoveryList, RecoveryFails
  <2>2. CASE RecoveryDispatch(c)
    <3>1. (\E o \in clock[c].cand : NewRun(o, "recovery")) /\ UNCHANGED outcome
      BY <2>2 DEF RecoveryDispatch
    <3>2. clock[c].cand \subseteq Occurrences /\ "recovery" \in Authors
      BY <1>t DEF ClocksType, Ticking, Clock, Authors
    <3> QED BY <3>1, <3>2, NewRunGroup
  <2> QED BY <1>5, <2>1, <2>2 DEF AuditStep
<1>6. ASSUME NEW i \in Runs, Guard(i) PROVE GroupInv'
  <2>1. UNCHANGED outcome
    BY <1>6 DEF Guard
  <2>2. \/ Moves(i, "guard", "receipt") /\ Reusable(run[i].occ) /\ run'[i].answer = "READY_REUSED"
        \/ Moves(i, "guard", "report") /\ ~Reusable(run[i].occ)
    BY <1>6, <1>t, GuardMoves
  <2>3. Group' /\ \A j \in Runs \ {i} : ~Running(j)' /\ run'[j].pc = "guard"
    BY <1>g, <2>2, MovesGroup
  <2>4. run[i].occ \in Occurrences /\ run'[i].occ = run[i].occ /\ Running(i)'
    BY <1>t, <2>2 DEF Moves, Active, Running
  <2>5. Reusable(run[i].occ) => report[run[i].occ] # "absent"
    BY <1>g, <2>4, DeliveryAssumption DEF Reported, Ready, Reusable
  <2>6. ~Reusable(run[i].occ) => ~Ready(run[i].occ)
    BY DEF Reusable, Ready
  <2>7. Fresh(i)'
    BY <2>1, <2>2, <2>4, <2>5, <2>6 DEF Moves, Fresh, Ready, outcome
  <2>8. Reported' /\ OneReadyReceipt'
    BY <1>g, <2>1 DEF Reported, Ready, OneReadyReceipt, outcome
  <2> QED BY <2>3, <2>7, <2>8 DEF GroupInv, Fresh
<1>7. ASSUME NEW i \in Runs, ReportFails(i) PROVE GroupInv'
  <2>1. UNCHANGED outcome
    BY <1>7 DEF ReportFails
  <2>2. Moves(i, "report", "receipt") /\ run'[i].answer = "FAILED"
    BY <1>7, <1>t, ReportFailsMoves
  <2>3. Group' /\ \A j \in Runs \ {i} : ~Running(j)' /\ run'[j].pc = "guard"
    BY <1>g, <2>2, MovesGroup
  <2>4. Fresh(i)'
    BY <1>g, <2>1, <2>2 DEF Moves, Fresh, Ready, outcome, Running
  <2>5. Reported' /\ OneReadyReceipt'
    BY <1>g, <2>1 DEF Reported, Ready, OneReadyReceipt, outcome
  <2> QED BY <2>3, <2>4, <2>5 DEF GroupInv, Fresh
<1>8. ASSUME NEW i \in Runs, NEW q \in {"good", "bad"}, NEW a \in {"READY", "FAILED"},
             Publish(i, q, a)
      PROVE  GroupInv'
  <2>1. Moves(i, "report", "receipt") /\ run'[i].answer = a
    BY <1>8, <1>t, PublishMoves
  <2>2. /\ receipts' = receipts /\ latest' = run[i].occ
        /\ report' = [report EXCEPT ![run[i].occ] = q]
    BY <1>8 DEF Publish
  <2>3. Group' /\ \A j \in Runs \ {i} : ~Running(j)' /\ run'[j].pc = "guard"
    BY <1>g, <2>1, MovesGroup
  <2>4. run[i].occ \in Occurrences /\ run'[i].occ = run[i].occ
    BY <1>t, <2>1 DEF Moves, Active
  <2>5. /\ report'[run[i].occ] # "absent"
        /\ \A o \in Occurrences : report[o] # "absent" => report'[o] # "absent"
    BY <1>t, <2>2, <2>4
  <2>6. ~Ready(run[i].occ)
    BY <1>g, <2>1 DEF Moves, Fresh
  <2>7. Fresh(i)'
    BY <2>1, <2>2, <2>4, <2>5, <2>6 DEF Moves, Fresh, Ready, Running
  <2>8. Reported' /\ OneReadyReceipt'
    BY <1>g, <2>2, <2>4, <2>5 DEF Reported, Ready, OneReadyReceipt
  <2> QED BY <2>3, <2>7, <2>8 DEF GroupInv, Fresh
<1>9. ASSUME NEW i \in Runs, PostReceipt(i) PROVE GroupInv'
  <2> DEFINE new == [occ |-> run[i].occ, run |-> i, status |-> run[i].answer]
  <2>1. /\ Running(i) /\ run[i].pc = "receipt" /\ UNCHANGED <<made, report, latest>>
        /\ receipts' = receipts \cup {new}
    BY <1>9 DEF PostReceipt
  <2>2. PICK s \in {"success", "failure"} : EndRun(i, s)
    BY <1>9 DEF PostReceipt
  <2>3. Group' /\ \A j \in Runs : run'[j].pc = "guard"
    BY <1>g, <2>1, <2>2, EndRunGroup
  <2>4. \A j \in Runs : Fresh(j)'
    BY <2>3 DEF Fresh
  <2>5. run[i].occ \in Occurrences /\ new.occ = run[i].occ /\ new.status = run[i].answer
    BY <1>t, <2>1 DEF Active
  <2> HIDE DEF new
  <2>6. Reported'
    <3>1. ASSUME NEW o \in Occurrences, Ready(o)' PROVE report[o] # "absent"
      <4>1. PICK r \in receipts' : r.occ = o /\ r.status # "FAILED"
        BY <3>1 DEF Ready
      <4>2. CASE r \in receipts
        BY <1>g, <4>1, <4>2 DEF Reported, Ready
      <4>3. CASE r = new
        BY <1>g, <2>1, <2>5, <4>1, <4>3 DEF Fresh
      <4> QED BY <2>1, <4>1, <4>2, <4>3
    <3> QED BY <1>g, <2>1, <3>1 DEF Reported
  <2>7. OneReadyReceipt'
    <3>1. new.status = "READY" => \A r \in receipts : ~(r.occ = new.occ /\ r.status = "READY")
      BY <1>g, <2>1, <2>5 DEF Fresh, Ready
    <3> QED BY <1>g, <2>1, <3>1 DEF OneReadyReceipt
  <2> QED BY <2>3, <2>4, <2>6, <2>7 DEF GroupInv
<1>10. ASSUME NEW i \in Runs, Die(i) PROVE GroupInv'
  <2>1. Running(i) /\ EndRun(i, "failure") /\ UNCHANGED outcome /\ made' = made
    BY <1>10 DEF Die
  <2>2. Group' /\ \A j \in Runs : run'[j].pc = "guard"
    BY <1>g, <2>1, EndRunGroup
  <2>3. \A j \in Runs : Fresh(j)'
    BY <2>2 DEF Fresh
  <2>4. Reported' /\ OneReadyReceipt'
    BY <1>g, <2>1 DEF Reported, Ready, OneReadyReceipt, outcome
  <2> QED BY <2>2, <2>3, <2>4 DEF GroupInv
<1> QED BY <1>1, <1>2, <1>3, <1>4, <1>5, <1>6, <1>7, <1>8, <1>9, <1>10 DEF Next, RunStep

\* They hold throughout.
LEMMA GroupCorrect == Spec => [](TypeInv /\ GroupInv)
BY TypeInit, TypeNext, GroupInit, GroupNext, PTL DEF Spec

\* No two runs report an occurrence READY, however many are dispatched for it.
THEOREM OneAnswer == Spec => []OneReadyReceipt
<1>1. GroupInv => OneReadyReceipt
  BY DEF GroupInv
<1> QED BY <1>1, GroupCorrect, PTL

-----------------------------------------------------------------------------
(* The delivery implements OccurrenceOnce *)

\* What has been said of an occurrence in a set of receipts.
LEMMA Said ==
  ASSUME NEW rs, NEW o
  PROVE  LET said == {r.status : r \in {q \in rs : q.occ = o}}
         IN  /\ said \ {"FAILED"} # {} <=> \E r \in rs : r.occ = o /\ r.status # "FAILED"
             /\ said # {} <=> \E r \in rs : r.occ = o
OBVIOUS

\* The answer of an occurrence, by its receipts.
LEMMA AnswerNow ==
  ASSUME NEW o
  PROVE  Answer(o) = IF Ready(o) THEN "ready"
                     ELSE IF \E r \in receipts : r.occ = o THEN "failed" ELSE "none"
BY Said DEF Answer, Ready

\* The same after a step.
LEMMA AnswerNext ==
  ASSUME NEW o
  PROVE  Answer(o)' = IF Ready(o)' THEN "ready"
                      ELSE IF \E r \in receipts' : r.occ = o THEN "failed" ELSE "none"
BY Said DEF Answer, Ready

\* An initial state is one of the abstract specification.
LEMMA OnceInit == Init => Once!Init
<1> SUFFICES ASSUME Init PROVE Once!Init
  OBVIOUS
<1>1. ASSUME NEW o \in Occurrences PROVE Answer(o) = "none"
  BY AnswerNow DEF Init, Ready
<1>2. report = [o \in Occurrences |-> "absent"]
  BY DEF Init
<1> QED BY <1>1, <1>2 DEF Once!Init

\* A step is one of the abstract specification or a stutter.
LEMMA OnceNext == TypeInv /\ GroupInv /\ [Next]_vars => [Once!Next]_(Once!once)
<1> SUFFICES ASSUME TypeInv, GroupInv, [Next]_vars PROVE Once!Next \/ UNCHANGED Once!once
  OBVIOUS
<1>t. /\ RunsType /\ (\A i \in Runs : Active(i) /\ Fresh(i)) /\ Reported
      /\ report \in [Occurrences -> {"absent", "bad", "good"}]
  BY DEF TypeInv, TypeOK, RunsType, GroupInv
<1> DEFINE answer == [o \in Occurrences |-> Answer(o)]
<1>u. ASSUME receipts' = receipts PROVE answer' = answer
  BY <1>u DEF Answer
<1>1. CASE UNCHANGED <<receipts, report>>
  BY <1>1, <1>u DEF Once!once
<1>2. ASSUME NEW i \in Runs, NEW q \in {"good", "bad"}, NEW a \in {"READY", "FAILED"},
             Publish(i, q, a)
      PROVE  Once!Next
  <2>1. /\ Running(i) /\ run[i].pc = "report" /\ receipts' = receipts
        /\ report' = [report EXCEPT ![run[i].occ] = q]
    BY <1>2 DEF Publish
  <2>2. run[i].occ \in Occurrences /\ ~Ready(run[i].occ)
    BY <1>t, <2>1 DEF Active, Fresh
  <2>3. answer[run[i].occ] # "ready"
    BY <2>2, AnswerNow
  <2>4. answer' = answer
    BY <1>u, <2>1
  <2> QED BY <2>1, <2>2, <2>3, <2>4 DEF Once!Next, Once!Publish
<1>3. ASSUME NEW i \in Runs, PostReceipt(i) PROVE Once!Next \/ UNCHANGED Once!once
  <2>o. PICK o : o = run[i].occ
    OBVIOUS
  <2> DEFINE new == [occ |-> o, run |-> i, status |-> run[i].answer]
  <2>1. /\ Running(i) /\ run[i].pc = "receipt" /\ UNCHANGED report
        /\ receipts' = receipts \cup {new}
    BY <1>3, <2>o DEF PostReceipt
  <2>2. o \in Occurrences /\ new.occ = o /\ new.status = run[i].answer
    BY <1>t, <2>o, <2>1 DEF Active
  <2> HIDE DEF new
  <2>3. ASSUME NEW p \in Occurrences, p # o PROVE Answer(p)' = Answer(p)
    <3>1. Ready(p)' <=> Ready(p)
      BY <2>1, <2>2, <2>3 DEF Ready
    <3>2. (\E r \in receipts' : r.occ = p) <=> \E r \in receipts : r.occ = p
      BY <2>1, <2>2, <2>3
    <3> QED BY <3>1, <3>2, AnswerNow, AnswerNext
  <2>4. CASE run[i].answer = "FAILED"
    <3>1. ~Ready(o)
      BY <1>t, <2>o, <2>1, <2>4 DEF Fresh
    <3>2. ~\E r \in receipts' : r.occ = o /\ r.status # "FAILED"
      BY <2>1, <2>2, <2>4, <3>1 DEF Ready
    <3>3. \E r \in receipts' : r.occ = o
      BY <2>1, <2>2
    <3>4. Answer(o)' = "failed"
      BY <3>2, <3>3, Said DEF Answer
    <3>5. Answer(o) \in {"none", "failed"}
      BY <3>1, AnswerNow
    <3>6. answer' = [answer EXCEPT ![o] = "failed"]
      BY <2>2, <2>3, <3>4
    <3>7. CASE Answer(o) = "none"
      BY <2>1, <2>2, <3>6, <3>7 DEF Once!Next, Once!AnswerFailed
    <3>8. CASE Answer(o) = "failed"
      <4>1. answer' = answer
        BY <2>2, <3>6, <3>8
      <4> QED BY <2>1, <4>1 DEF Once!once
    <3> QED BY <3>5, <3>7, <3>8
  <2>5. CASE run[i].answer # "FAILED"
    <3>1. report[o] # "absent"
      BY <1>t, <2>o, <2>1, <2>5 DEF Fresh
    <3>2. \E r \in receipts' : r.occ = o /\ r.status # "FAILED"
      BY <2>1, <2>2, <2>5
    <3>3. Answer(o)' = "ready"
      BY <3>2, Said DEF Answer
    <3>4. answer' = [answer EXCEPT ![o] = "ready"]
      BY <2>2, <2>3, <3>3
    <3>5. CASE Answer(o) # "ready"
      BY <2>1, <2>2, <3>1, <3>4, <3>5 DEF Once!Next, Once!AnswerReady
    <3>6. CASE Answer(o) = "ready"
      <4>1. answer' = answer
        BY <2>2, <3>4, <3>6
      <4> QED BY <2>1, <4>1 DEF Once!once
    <3> QED BY <3>5, <3>6
  <2> QED BY <2>4, <2>5
<1>4. CASE Elapse \/ OtherComment \/ (\E c \in Clocks, o \in Occurrences : CommentTick(c, o))
             \/ (\E c \in Clocks, g \in Origins : CreateClock(c, g)) \/ UNCHANGED vars
  BY <1>4, <1>1 DEF Elapse, OtherComment, CommentTick, CreateClock, outcome, vars
<1>5. ASSUME NEW c \in Clocks, FallbackStep(c) \/ AuditStep(c) PROVE Once!Next \/ UNCHANGED Once!once
  BY <1>5, <1>1 DEF FallbackStep, TickJob, CheckExisting, DispatchFallback, FallbackFails,
     AuditStep, AuditEvidence, AuditRuns, RecoveryList, RecoveryDispatch, RecoveryFails, outcome
<1>6. ASSUME NEW i \in Runs, Guard(i) \/ ReportFails(i) \/ Die(i)
      PROVE  Once!Next \/ UNCHANGED Once!once
  BY <1>6, <1>1 DEF Guard, ReportFails, Die, outcome
<1> QED BY <1>2, <1>3, <1>4, <1>5, <1>6 DEF Next, RunStep

\* However occurrences are triggered, recovered and retried, nothing is published or
\* posted for an occurrence after it was answered READY.
THEOREM Refinement == Spec => ImplementsOnce
BY OnceInit, OnceNext, GroupCorrect, PTL DEF Spec, ImplementsOnce, Once!Spec

-----------------------------------------------------------------------------
(* Recovery *)

\* One recovery job in progress, with one waiting.
OneRecovery ==
  \A c, d \in Clocks :
    \/ clock[c].audit \in InRecovery /\ clock[d].audit \in InRecovery
    \/ clock[c].audit = "waiting" /\ clock[d].audit = "waiting"
    => c = d

\* An occurrence whose window is over, and which no tick was created in.
Missed(o) == o \in Occurrences /\ o \notin ticked /\ Due[o] + Grace <= now

Recovered(o) == \E i \in Runs : run[i].by = "recovery" /\ run[i].occ = o

\* What an audit has found out still holds: time goes on, and no other recovery
\* dispatches.
Sound(c) ==
  /\ clock[c].audit = "runs" => \A o \in clock[c].cand : Due[o] + Grace <= now
  /\ clock[c].audit \in {"list", "write", "waiting"} =>
       (\A o \in clock[c].cand : Missed(o)) /\ (\A o, q \in clock[c].cand : o = q)
  /\ clock[c].audit = "write" => \A o \in clock[c].cand : ~Recovered(o)

RecoveryInv ==
  /\ OneRecovery
  /\ \A c \in Clocks : Sound(c)
  /\ \A i \in Runs : run[i].by = "recovery" => Missed(run[i].occ)
  /\ RecoveredOnce

\* Initially nothing is recovered.
LEMMA RecoveryInit == Init => RecoveryInv
BY DEF Init, RecoveryInv, OneRecovery, InRecovery, Sound, RecoveredOnce

\* A new run of another author is no recovery.
LEMMA OtherNewRun ==
  ASSUME TypeInv, NEW o \in Occurrences \cup {None}, NEW a \in Authors, a # "recovery", NewRun(o, a)
  PROVE  \A i \in Runs : run'[i].by = "recovery" => run[i].by = "recovery" /\ run'[i].occ = run[i].occ
<1>1. RunsType
  BY DEF TypeInv, TypeOK, RunsType
<1>2. /\ made + 1 \in Runs /\ run'[made + 1].by = a
      /\ \A i \in Runs \ {made + 1} : run'[i].occ = run[i].occ /\ run'[i].by = run[i].by
  BY <1>1, NewRunStep
<1> QED BY <1>2

\* What is missed stays missed ...
Onward ==
  \A o \in Occurrences :
    /\ Missed(o) => Missed(o)'
    /\ Due[o] + Grace <= now => Due[o] + Grace <= now'

\* ... and nothing is recovered.
Quiet ==
  /\ Onward
  /\ \A i \in Runs : run'[i].by = "recovery" => run[i].by = "recovery" /\ run'[i].occ = run[i].occ

\* A step that dispatches no recovery makes none, and what was missed stays missed.
LEMMA QuietRuns ==
  ASSUME RecoveryInv, Quiet
  PROVE  /\ (\A i \in Runs : run[i].by = "recovery" => Missed(run[i].occ))'
         /\ RecoveredOnce'
         /\ \A o \in Occurrences : Recovered(o)' => Recovered(o)
<1>1. \A i \in Runs : run[i].by = "recovery" => Missed(run[i].occ) /\ run[i].occ \in Occurrences
  BY DEF RecoveryInv, Missed
<1>2. ASSUME NEW i \in Runs, run'[i].by = "recovery" PROVE Missed(run[i].occ)'
  <2>1. run'[i].occ = run[i].occ /\ Missed(run[i].occ) /\ run[i].occ \in Occurrences
    BY <1>1, <1>2 DEF Quiet
  <2> QED BY <2>1 DEF Quiet, Onward
<1>3. RecoveredOnce'
  BY DEF RecoveryInv, Quiet, RecoveredOnce
<1>4. \A o \in Occurrences : Recovered(o)' => Recovered(o)
  BY DEF Quiet, Recovered
<1> QED BY <1>2, <1>3, <1>4

\* A step of the clock that leaves audits alone or ends them.
LEMMA QuietAudits ==
  ASSUME TypeInv, RecoveryInv, Quiet, NEW c \in Clocks,
         clock'[c].audit = clock[c].audit /\ clock'[c].cand = clock[c].cand
  PROVE  Sound(c)'
<1>1. Sound(c) /\ clock[c].cand \subseteq Occurrences
  BY DEF RecoveryInv, TypeInv, ClocksType, Ticking, Clock
<1>2. \A o \in clock[c].cand : Recovered(o)' => Recovered(o)
  BY <1>1, QuietRuns
<1>3. \A o \in clock[c].cand : (Missed(o) => Missed(o)')
        /\ (Due[o] + Grace <= now => Due[o] + Grace <= now')
  BY <1>1 DEF Quiet, Onward
<1> QED BY <1>1, <1>2, <1>3 DEF Sound

\* The steps that change no audit.
LEMMA QuietStep ==
  ASSUME TypeInv, RecoveryInv, Quiet,
         \A c \in Clocks : \/ clock'[c].audit \in {"ended", "evidence"}
                           \/ clock'[c].audit = clock[c].audit /\ clock'[c].cand = clock[c].cand
  PROVE  RecoveryInv'
<1>1. OneRecovery'
  BY DEF RecoveryInv, OneRecovery, InRecovery
<1>2. \A c \in Clocks : Sound(c)'
  <2> SUFFICES ASSUME NEW c \in Clocks PROVE Sound(c)'
    OBVIOUS
  <2>1. CASE clock'[c].audit \in {"ended", "evidence"}
    BY <2>1 DEF Sound
  <2>2. CASE clock'[c].audit = clock[c].audit /\ clock'[c].cand = clock[c].cand
    BY <2>2, QuietAudits
  <2> QED BY <2>1, <2>2
<1> QED BY <1>1, <1>2, QuietRuns DEF RecoveryInv

\* A recovery job ends, and the one that waits goes on.
LEMMA EndsAudits ==
  ASSUME TypeInv, RecoveryInv, Onward, NEW c \in Clocks, clock[c].audit \in InRecovery,
         RecoveryEnds(c)
  PROVE  OneRecovery' /\ \A d \in Clocks : Sound(d)'
<1>0. ClocksType /\ OneRecovery
  BY DEF TypeInv, RecoveryInv
<1>1. /\ clock'[c].audit = "ended" /\ clock'[c].cand = {}
      /\ \A d \in Clocks \ {c} :
           /\ clock'[d].audit = IF clock[d].audit = "waiting" THEN "list" ELSE clock[d].audit
           /\ clock'[d].cand = clock[d].cand
  BY <1>0, RecoveryEndsStep
<1>2. \A d \in Clocks \ {c} : clock[d].audit \notin InRecovery
  BY <1>0 DEF OneRecovery
<1>3. OneRecovery'
  <2>1. \A d \in Clocks : clock'[d].audit \in InRecovery => clock[d].audit = "waiting"
    BY <1>1, <1>2 DEF InRecovery
  <2>2. \A d \in Clocks : clock'[d].audit # "waiting"
    BY <1>1
  <2> QED BY <1>0, <2>1, <2>2 DEF OneRecovery
<1>4. ASSUME NEW d \in Clocks PROVE Sound(d)'
  <2>1. CASE d = c
    BY <1>1, <2>1 DEF Sound
  <2>2. CASE d # c /\ clock[d].audit # "waiting"
    <3>1. clock'[d].audit \notin {"list", "write", "waiting"} /\ clock'[d].cand = clock[d].cand
          /\ clock'[d].audit = clock[d].audit
      BY <1>1, <1>2, <2>2 DEF InRecovery
    <3>2. Sound(d) /\ clock[d].cand \subseteq Occurrences
      BY <1>0 DEF RecoveryInv, ClocksType, Ticking, Clock
    <3> QED BY <3>1, <3>2 DEF Sound, Onward
  <2>3. CASE d # c /\ clock[d].audit = "waiting"
    <3>1. clock'[d].audit = "list" /\ clock'[d].cand = clock[d].cand
      BY <1>1, <2>3
    <3>2. Sound(d) /\ clock[d].cand \subseteq Occurrences
      BY <1>0 DEF RecoveryInv, ClocksType, Ticking, Clock
    <3>3. \A o \in clock[d].cand : Missed(o) => Missed(o)'
      BY <3>2 DEF Onward
    <3> QED BY <2>3, <3>1, <3>2, <3>3 DEF Sound
  <2> QED BY <2>1, <2>2, <2>3
<1> QED BY <1>3, <1>4

\* Every step keeps the recovery invariant.
LEMMA RecoveryNext == TypeInv /\ RecoveryInv /\ [Next]_vars => RecoveryInv'
<1> SUFFICES ASSUME TypeInv, RecoveryInv, [Next]_vars PROVE RecoveryInv'
  OBVIOUS
<1>t. /\ RunsType /\ ClocksType /\ now \in Nat
      /\ \A o \in Occurrences : Due[o] \in Nat /\ Due[o] + Grace \in Nat
  BY DeliveryAssumption DEF TypeInv, TypeOK, RunsType
<1>i. OneRecovery /\ \A c \in Clocks : Sound(c) /\ clock[c].cand \subseteq Occurrences
  BY <1>t DEF RecoveryInv, ClocksType, Ticking, Clock
<1>o. ASSUME UNCHANGED <<now, ticked>> PROVE Onward
  BY <1>o DEF Onward, Missed
<1>q. ASSUME Onward, UNCHANGED run PROVE Quiet
  BY <1>q DEF Quiet
<1>1. CASE Elapse
  <2>1. now' = now + 1 /\ UNCHANGED <<clock, ticked, run>>
    BY <1>1 DEF Elapse
  <2>2. Onward
    BY <1>t, <2>1 DEF Onward, Missed
  <2> QED BY <1>q, <2>1, <2>2, QuietStep
<1>2. CASE OtherComment \/ UNCHANGED vars
  <2>1. UNCHANGED <<now, ticked, clock>> /\ (NewRun(None, "comment") \/ UNCHANGED run)
    BY <1>2 DEF OtherComment, vars
  <2>2. Quiet
    BY <1>o, <1>q, <2>1, OtherNewRun DEF Quiet, Authors
  <2> QED BY <2>1, <2>2, QuietStep
<1>3. ASSUME NEW c \in Clocks, NEW o \in Occurrences, CommentTick(c, o) PROVE RecoveryInv'
  <2>1. UNCHANGED <<now, ticked>> /\ NewRun(o, "comment")
    BY <1>3 DEF CommentTick
  <2>2. Quiet
    BY <1>o, <2>1, OtherNewRun DEF Quiet, Authors
  <2>3. \A d \in Clocks : \/ clock'[d].audit \in {"ended", "evidence"}
                          \/ clock'[d].audit = clock[d].audit /\ clock'[d].cand = clock[d].cand
    BY <1>3, <1>t, CommentTickStep
  <2> QED BY <2>2, <2>3, QuietStep
<1>4. ASSUME NEW c \in Clocks, NEW g \in Origins, CreateClock(c, g) PROVE RecoveryInv'
  <2>1. UNCHANGED <<now, run>> /\ ticked' \subseteq ticked \cup InWindow(now)
    BY <1>4 DEF CreateClock
  <2>2. \A o \in Occurrences : Due[o] + Grace <= now => o \notin InWindow(now)
    BY <1>t, DeliveryAssumption DEF InWindow
  <2>3. Quiet
    BY <1>q, <2>1, <2>2 DEF Onward, Missed
  <2>4. \A d \in Clocks : \/ clock'[d].audit \in {"ended", "evidence"}
                          \/ clock'[d].audit = clock[d].audit /\ clock'[d].cand = clock[d].cand
    BY <1>4, <1>t, CreateClockStep
  <2> QED BY <2>3, <2>4, QuietStep
<1>5. ASSUME NEW c \in Clocks, FallbackStep(c) PROVE RecoveryInv'
  <2>1. UNCHANGED <<now, ticked>>
    BY <1>5 DEF FallbackStep, TickJob, CheckExisting, DispatchFallback, FallbackFails
  <2>a. SameAudits
    BY <1>5, <1>t, FallbackStepClock DEF TypeInv, TypeOK
  <2>q. SUFFICES Quiet
    BY <2>a, QuietStep DEF SameAudits
  <2>2. CASE DispatchFallback(c)
    <3>1. NewRun(clock[c].occ, clock[c].origin) /\ clock[c].tick = "dispatch"
      BY <2>2 DEF DispatchFallback
    <3>2. clock[c].occ \in Occurrences /\ clock[c].origin \in Authors /\ clock[c].origin # "recovery"
      BY <1>t, <3>1 DEF ClocksType, Ticking, Authors
    <3> QED BY <1>o, <2>1, <3>1, <3>2, OtherNewRun DEF Quiet
  <2>3. CASE ~DispatchFallback(c)
    <3>1. UNCHANGED run
      BY <1>5, <2>3 DEF FallbackStep, TickJob, CheckExisting, FallbackFails
    <3> QED BY <1>o, <1>q, <2>1, <3>1
  <2> QED BY <2>2, <2>3
<1>6. ASSUME NEW c \in Clocks, AuditEvidence(c) PROVE RecoveryInv'
  <2>1. Onward /\ Quiet
    BY <1>6, <1>o, <1>q DEF AuditEvidence
  <2>2. /\ clock'[c].audit = "runs" /\ now' = now
        /\ clock'[c].cand = {o \in Occurrences : Overdue(o, now) /\ report[o] = "absent"}
        /\ \A d \in Clocks \ {c} : clock'[d].audit = clock[d].audit /\ clock'[d].cand = clock[d].cand
    BY <1>6, <1>t, AuditEvidenceStep DEF AuditEvidence
  <2>3. OneRecovery'
    BY <1>i, <2>2 DEF OneRecovery, InRecovery
  <2>4. \A o \in clock'[c].cand : Due[o] + Grace <= now'
    BY <1>t, <2>2, DeliveryAssumption DEF Overdue
  <2>5. ASSUME NEW d \in Clocks PROVE Sound(d)'
    <3>1. CASE d = c
      BY <2>2, <2>4, <3>1 DEF Sound
    <3>2. CASE d # c
      BY <2>1, <2>2, <3>2, QuietAudits
    <3> QED BY <3>1, <3>2
  <2> QED BY <2>1, <2>3, <2>5, QuietRuns DEF RecoveryInv
<1>7. ASSUME NEW c \in Clocks, AuditRuns(c) PROVE RecoveryInv'
  <2>1. Onward /\ Quiet /\ clock[c].audit = "runs" /\ UNCHANGED <<now, ticked>>
    BY <1>7, <1>o, <1>q DEF AuditRuns
  <2>2. clock'[c].cand = Selected(c)
    BY <1>7, <1>t, AuditRunsStep
  <2>3. \/ clock'[c].audit = "ended" /\ \A d \in Clocks \ {c} : clock'[d] = clock[d]
        \/ /\ clock'[c].audit =
                IF \E e \in Clocks : clock[e].audit \in InRecovery THEN "waiting" ELSE "list"
           /\ \A d \in Clocks \ {c} :
                /\ clock'[d].audit =
                     IF clock[d].audit = "waiting" THEN "cancelled" ELSE clock[d].audit
                /\ clock'[d].cand = IF clock[d].audit = "waiting" THEN {} ELSE clock[d].cand
    BY <1>7, <1>t, AuditRunsStep
  <2>4. OneRecovery'
    BY <1>i, <2>3 DEF OneRecovery, InRecovery
  <2>5. ASSUME NEW d \in Clocks PROVE Sound(d)'
    <3>1. CASE d = c
      <4>1. /\ Selected(c) \subseteq clock[c].cand /\ Selected(c) \cap ticked = {}
            /\ \A o, q \in Selected(c) : o = q
        BY <1>t, SelectedOne
      <4>2. \A o \in Selected(c) : Missed(o)'
        BY <1>i, <2>1, <4>1 DEF Missed, Sound
      <4>3. clock'[c].audit \notin {"runs", "write"}
        BY <2>3
      <4> QED BY <2>2, <3>1, <4>1, <4>2, <4>3 DEF Sound
    <3>2. CASE d # c /\ clock'[d].audit = clock[d].audit /\ clock'[d].cand = clock[d].cand
      BY <2>1, <3>2, QuietAudits
    <3>3. CASE d # c /\ clock'[d].audit = "cancelled"
      BY <3>3 DEF Sound
    <3> QED BY <2>3, <3>1, <3>2, <3>3
  <2> QED BY <2>1, <2>4, <2>5, QuietRuns DEF RecoveryInv
<1>8. ASSUME NEW c \in Clocks, RecoveryList(c) PROVE RecoveryInv'
  <2>1. Onward /\ Quiet /\ clock[c].audit = "list" /\ UNCHANGED run
    BY <1>8, <1>o, <1>q DEF RecoveryList
  <2>2. CASE RecoveryEnds(c)
    <3>1. clock[c].audit \in InRecovery
      BY <2>1 DEF InRecovery
    <3> QED BY <2>1, <2>2, <3>1, EndsAudits, QuietRuns DEF RecoveryInv
  <2>3. CASE /\ clock'[c].audit = "write" /\ clock'[c].cand = clock[c].cand
             /\ \E o \in clock[c].cand : ~AlreadyAttempted(o)
             /\ \A d \in Clocks \ {c} : clock'[d] = clock[d]
    <3>1. OneRecovery'
      BY <1>i, <2>1, <2>3 DEF OneRecovery, InRecovery
    <3>2. \A o \in clock[c].cand : ~Recovered(o)
      <4>1. PICK o \in clock[c].cand : ~AlreadyAttempted(o)
        BY <2>3
      <4>2. ~Recovered(o)
        BY <4>1 DEF AlreadyAttempted, Titled, Recovered, Authors
      <4>3. \A p \in clock[c].cand : p = o
        BY <1>i, <2>1, <4>1 DEF Sound
      <4> QED BY <4>2, <4>3
    <3>3. \A o \in clock[c].cand : ~Recovered(o)' /\ Missed(o)'
      BY <1>i, <2>1, <3>2 DEF Recovered, Sound, Onward
    <3>4. ASSUME NEW d \in Clocks PROVE Sound(d)'
      <4>1. CASE d = c
        BY <1>i, <2>1, <2>3, <3>3, <4>1 DEF Sound
      <4>2. CASE d # c
        BY <2>1, <2>3, <4>2, QuietAudits
      <4> QED BY <4>1, <4>2
    <3> QED BY <2>1, <3>1, <3>4, QuietRuns DEF RecoveryInv
  <2> QED BY <1>8, <1>t, <2>2, <2>3, RecoveryListStep
<1>9. ASSUME NEW c \in Clocks, RecoveryDispatch(c) PROVE RecoveryInv'
  <2>1. Onward /\ clock[c].audit = "write" /\ RecoveryEnds(c)
    BY <1>9, <1>o DEF RecoveryDispatch
  <2>2. PICK o \in clock[c].cand : NewRun(o, "recovery")
    BY <1>9 DEF RecoveryDispatch
  <2>3. OneRecovery' /\ \A d \in Clocks : Sound(d)'
    BY <2>1, EndsAudits DEF InRecovery
  <2>4. o \in Occurrences /\ Missed(o)' /\ ~Recovered(o)
    BY <1>i, <2>1 DEF Sound, Onward
  <2>5. /\ made + 1 \in Runs /\ run'[made + 1].occ = o /\ run'[made + 1].by = "recovery"
        /\ \A i \in Runs \ {made + 1} : run'[i].occ = run[i].occ /\ run'[i].by = run[i].by
    BY <1>t, <2>2, <2>4, NewRunStep DEF Authors
  <2>6. (\A i \in Runs : run[i].by = "recovery" => Missed(run[i].occ))'
    <3> SUFFICES ASSUME NEW i \in Runs, run'[i].by = "recovery" PROVE Missed(run[i].occ)'
      OBVIOUS
    <3>1. CASE i = made + 1
      BY <2>4, <2>5, <3>1 DEF Missed
    <3>2. CASE i # made + 1
      <4>1. Missed(run[i].occ) /\ run'[i].occ = run[i].occ
        BY <2>5, <3>2 DEF RecoveryInv
      <4> QED BY <2>1, <4>1 DEF Onward, Missed
    <3> QED BY <3>1, <3>2
  <2>7. RecoveredOnce'
    BY <2>4, <2>5 DEF RecoveredOnce, Recovered, RecoveryInv
  <2> QED BY <2>3, <2>6, <2>7 DEF RecoveryInv
<1>10. ASSUME NEW c \in Clocks, RecoveryFails(c) PROVE RecoveryInv'
  <2>1. Onward /\ Quiet /\ clock[c].audit \in InRecovery /\ RecoveryEnds(c)
    BY <1>10, <1>o, <1>q DEF RecoveryFails
  <2> QED BY <2>1, EndsAudits, QuietRuns DEF RecoveryInv
<1>11. ASSUME NEW i \in Runs, RunStep(i) PROVE RecoveryInv'
  <2>1. UNCHANGED <<now, ticked, clock, made>>
    BY <1>11 DEF RunStep, Guard, Publish, ReportFails, PostReceipt, Die
  <2>2. \A j \in Runs : run'[j].by = run[j].by /\ run'[j].occ = run[j].occ
    <3>1. CASE \E p, q \in {"guard", "report", "receipt"} : Moves(i, p, q)
      BY <3>1 DEF Moves
    <3>2. CASE \E s \in {"success", "failure"} : EndRun(i, s)
      BY <1>t, <2>1, <3>2, EndRunStep
    <3>3. \/ \E p, q \in {"guard", "report", "receipt"} : Moves(i, p, q)
          \/ \E s \in {"success", "failure"} : EndRun(i, s)
      BY <1>11, <1>t, GuardMoves, PublishMoves, ReportFailsMoves DEF RunStep, PostReceipt, Die
    <3> QED BY <3>1, <3>2, <3>3
  <2>3. Quiet
    BY <1>o, <2>1, <2>2 DEF Quiet
  <2> QED BY <2>1, <2>3, QuietStep
<1> QED BY <1>1, <1>2, <1>3, <1>4, <1>5, <1>6, <1>7, <1>8, <1>9, <1>10, <1>11 DEF Next, AuditStep

\* It holds throughout.
LEMMA RecoveryCorrect == Spec => [](TypeInv /\ RecoveryInv)
BY TypeInit, TypeNext, RecoveryInit, RecoveryNext, PTL DEF Spec

\* The recovery dispatches an occurrence once, whatever becomes of the run.
THEOREM OneRecoveryRun == Spec => []RecoveredOnce
<1>1. RecoveryInv => RecoveredOnce
  BY DEF RecoveryInv
<1> QED BY <1>1, RecoveryCorrect, PTL

\* What is recovered is what the scheduled clock has missed for good.
THEOREM RecoveredWasMissed == Spec => []RecoveryFillsAGap
<1>1. RecoveryInv => RecoveryFillsAGap
  BY DEF RecoveryInv, RecoveryFillsAGap, Missed
<1> QED BY <1>1, RecoveryCorrect, PTL
=============================================================================
