-------------------------- MODULE CoreRecoveryProofs --------------------------
(***************************************************************************)
(* Proofs about CoreRecovery for every number of runs, every length of the *)
(* windows and of the page, and every set of triggers.                     *)
(***************************************************************************)
EXTENDS CoreRecovery, TLAPS

\* A trigger pairs an event with a kind, and only title edits are of the scheduler.
LEMMA TriggerType ==
  ASSUME NEW t \in Triggers
  PROVE  /\ t[1] \in Events /\ t[2] \in Kinds \cup {"none"}
         /\ t[2] = "chatgpt_scheduler" => t[1] = "issues"
BY RecoveryAssumption DEF AllTriggers, Events, Kinds

\* What a new run changes: its own entry.
LEMMA NewRunStep ==
  ASSUME RecoveryTypeOK, NEW event \in Events, NEW kind \in Kinds \cup {"none"},
         NEW slot \in 0..MaxTime, NEW g \in BOOLEAN, NewRun(event, kind, slot, g)
  PROVE  /\ made + 1 \in Runs /\ made' = made + 1
         /\ run'[made + 1] = [event |-> event, kind |-> kind, at |-> now, slot |-> slot,
              status |-> IF kind = "none" THEN "completed" ELSE "active", guard |-> g]
         /\ \A i \in Runs \ {made + 1} : run'[i] = run[i]
         /\ made' \in 0..MaxRuns
         /\ run' \in [Runs ->
              [event : Events \cup {"none"}, kind : Kinds \cup {"none"}, at : 0..MaxTime,
               slot : 0..MaxTime, status : {"none", "active", "completed"}, guard : BOOLEAN]]
<1>1. made \in Nat /\ made < MaxRuns /\ made' = made + 1 /\ made + 1 \in Runs /\ made' \in 0..MaxRuns
  BY RecoveryAssumption DEF RecoveryTypeOK, NewRun, Runs
<1> DEFINE new == [event |-> event, kind |-> kind, at |-> now, slot |-> slot,
              status |-> IF kind = "none" THEN "completed" ELSE "active", guard |-> g]
<1>2. run' = [run EXCEPT ![made + 1] = new]
  BY DEF NewRun
<1>3. new \in [event : Events \cup {"none"}, kind : Kinds \cup {"none"}, at : 0..MaxTime,
               slot : 0..MaxTime, status : {"none", "active", "completed"}, guard : BOOLEAN]
  BY DEF RecoveryTypeOK
<1> QED BY <1>1, <1>2, <1>3 DEF RecoveryTypeOK

\* What the end of a run changes: its status and, if it publishes, the control.
LEMMA FinishStep ==
  ASSUME RecoveryTypeOK, NEW i \in Runs, Finish(i)
  PROVE  /\ run[i].status = "active" /\ run'[i] = [run[i] EXCEPT !.status = "completed"]
         /\ \A j \in Runs \ {i} : run'[j] = run[j]
         /\ control' = control \/ control' = [kind |-> run[i].kind, slot |-> run[i].slot]
         /\ run' \in [Runs ->
              [event : Events \cup {"none"}, kind : Kinds \cup {"none"}, at : 0..MaxTime,
               slot : 0..MaxTime, status : {"none", "active", "completed"}, guard : BOOLEAN]]
         /\ control' \in [kind : Kinds \cup {"none"}, slot : 0..MaxTime]
<1>1. run[i].status = "active" /\ run' = [run EXCEPT ![i] = [@ EXCEPT !.status = "completed"]]
  BY DEF Finish, Active, RecoveryTypeOK
<1>2. control' = control \/ control' = [kind |-> run[i].kind, slot |-> run[i].slot]
  BY DEF Finish
<1>3. control' \in [kind : Kinds \cup {"none"}, slot : 0..MaxTime]
  BY <1>2 DEF RecoveryTypeOK
<1>4. [run[i] EXCEPT !.status = "completed"] \in
         [event : Events \cup {"none"}, kind : Kinds \cup {"none"}, at : 0..MaxTime,
          slot : 0..MaxTime, status : {"none", "active", "completed"}, guard : BOOLEAN]
  BY DEF RecoveryTypeOK
<1> QED BY <1>1, <1>2, <1>3, <1>4 DEF RecoveryTypeOK

\* How the record of the guard stays one.
GuardRecord == [pc : InProgress \cup {"idle"}, critical : BOOLEAN, waiting : BOOLEAN]

\* The guard stays a record of its type.
LEMMA GuardType ==
  /\ \A p \in InProgress \cup {"idle"}, b, w \in BOOLEAN :
       [pc |-> p, critical |-> b, waiting |-> w] \in GuardRecord
  /\ \A g \in GuardRecord :
       /\ g.pc \in InProgress \cup {"idle"} /\ g.critical \in BOOLEAN /\ g.waiting \in BOOLEAN
       /\ \A p \in InProgress \cup {"idle"} : [g EXCEPT !.pc = p] \in GuardRecord
BY DEF GuardRecord

\* Nothing but Decide brings the guard to its dispatch.
LEMMA GuardStepType ==
  ASSUME guard \in GuardRecord,
         StartGuard \/ ReadControl \/ Decide \/ GuardFails \/ Dispatch
  PROVE  /\ guard' \in GuardRecord
         /\ guard'.pc = "dispatch" => Decide \/ guard.pc = "dispatch"
<1>1. /\ guard.pc \in InProgress \cup {"idle"} /\ guard.critical \in BOOLEAN
      /\ guard.waiting \in BOOLEAN
  BY GuardType
<1>2. CASE StartGuard
  <2>1. guard' = [guard EXCEPT !.pc = "control"] \/ guard' = [guard EXCEPT !.waiting = TRUE]
    BY <1>2 DEF StartGuard
  <2>2. guard' \in GuardRecord
    <3>1. [guard EXCEPT !.pc = "control"] \in GuardRecord
      BY DEF GuardRecord, InProgress
    <3>2. [guard EXCEPT !.waiting = TRUE] \in GuardRecord
      BY DEF GuardRecord
    <3> QED BY <2>1, <3>1, <3>2, Zenon
  <2>3. guard'.pc \in {"control", guard.pc}
    BY <2>1 DEF GuardRecord
  <2> QED BY <2>2, <2>3
<1>3. CASE GuardEnds
  <2>1. guard'.pc \in {"control", "idle"} /\ guard' \in GuardRecord
    <3>1. PICK p \in {"control", "idle"} :
            guard' = [pc |-> p, critical |-> FALSE, waiting |-> FALSE]
      BY <1>3 DEF GuardEnds
    <3>2. p \in InProgress \cup {"idle"} /\ FALSE \in BOOLEAN
      BY DEF InProgress
    <3>3. guard' \in GuardRecord
      BY <3>1, <3>2, GuardType
    <3>4. guard'.pc = p
      BY <3>1
    <3> QED BY <3>3, <3>4
  <2> QED BY <2>1
<1>4. CASE ReadControl
  <2>1. guard' = [guard EXCEPT !.pc = "list", !.critical = (State = "CRITICAL")]
    BY <1>4 DEF ReadControl
  <2>2. (State = "CRITICAL") \in BOOLEAN
    OBVIOUS
  <2>3. guard' \in GuardRecord /\ guard'.pc = "list"
    <3> DEFINE c == (State = "CRITICAL")
    <3>1. c \in BOOLEAN /\ guard' = [guard EXCEPT !.pc = "list", !.critical = c]
      BY <2>1, <2>2
    <3> HIDE DEF c
    <3>2. [guard EXCEPT !.pc = "list", !.critical = c] \in GuardRecord
      BY <3>1 DEF GuardRecord, InProgress
    <3>3. [guard EXCEPT !.pc = "list", !.critical = c].pc = "list"
      BY DEF GuardRecord
    <3> QED BY <3>1, <3>2, <3>3, Zenon
  <2> QED BY <2>3
<1>5. CASE Decide /\ guard' = [guard EXCEPT !.pc = "dispatch"]
  <2>1. "dispatch" \in InProgress \cup {"idle"}
    BY DEF InProgress
  <2> QED BY <1>5, <2>1, GuardType
<1> QED BY <1>2, <1>3, <1>4, <1>5 DEF Decide, GuardFails, Dispatch

\* Initially every variable has its type.
LEMMA TypeInit == Init => RecoveryTypeOK
<1> SUFFICES ASSUME Init PROVE RecoveryTypeOK
  OBVIOUS
<1> USE RecoveryAssumption
<1>1. /\ now \in 0..MaxTime /\ made \in 0..MaxRuns /\ monitor \in States \cup {"idle"}
      /\ control \in [kind : Kinds \cup {"none"}, slot : 0..MaxTime]
  BY DEF Init
<1>4. incident \in BOOLEAN
  BY Zenon DEF Init
<1>2. guard \in GuardRecord
  <2>1. [pc |-> "idle", critical |-> FALSE, waiting |-> FALSE] \in GuardRecord
    BY DEF GuardRecord
  <2> QED BY <2>1, Zenon DEF Init
<1>3. run \in [Runs ->
        [event : Events \cup {"none"}, kind : Kinds \cup {"none"}, at : 0..MaxTime,
         slot : 0..MaxTime, status : {"none", "active", "completed"}, guard : BOOLEAN]]
  <2> DEFINE fresh == [event |-> "none", kind |-> "none", at |-> 0, slot |-> 0,
                       status |-> "none", guard |-> FALSE]
  <2>1. fresh \in [event : Events \cup {"none"}, kind : Kinds \cup {"none"}, at : 0..MaxTime,
                  slot : 0..MaxTime, status : {"none", "active", "completed"}, guard : BOOLEAN]
    <3>1. 0 \in 0..MaxTime
      OBVIOUS
    <3> QED BY <3>1, Zenon
  <2> HIDE DEF fresh
  <2>2. run = [i \in Runs |-> fresh]
    BY Zenon DEF Init, fresh
  <2> QED BY <2>1, <2>2
<1> QED BY <1>1, <1>2, <1>3, <1>4 DEF RecoveryTypeOK, GuardRecord

\* Every step keeps the types.
LEMMA TypeStep == RecoveryTypeOK /\ [Next]_vars => RecoveryTypeOK'
<1> SUFFICES ASSUME RecoveryTypeOK, [Next]_vars PROVE RecoveryTypeOK'
  OBVIOUS
<1>1. CASE Elapse
  BY <1>1, RecoveryAssumption DEF Elapse, RecoveryTypeOK
<1>2. ASSUME NEW t \in Triggers, NEW s \in 0..now, Trigger(t[1], t[2], s) PROVE RecoveryTypeOK'
  <2>1. s \in 0..MaxTime
    BY RecoveryAssumption DEF RecoveryTypeOK
  <2>2. NewRun(t[1], t[2], s, FALSE)
    BY <1>2 DEF Trigger
  <2> QED BY <1>2, <2>1, <2>2, TriggerType, NewRunStep DEF RecoveryTypeOK, Trigger
<1>3. ASSUME NEW i \in Runs, Finish(i) PROVE RecoveryTypeOK'
  <2>1. /\ run' \in [Runs ->
              [event : Events \cup {"none"}, kind : Kinds \cup {"none"}, at : 0..MaxTime,
               slot : 0..MaxTime, status : {"none", "active", "completed"}, guard : BOOLEAN]]
        /\ control' \in [kind : Kinds \cup {"none"}, slot : 0..MaxTime]
    BY <1>3, FinishStep
  <2> QED BY <1>3, <2>1 DEF RecoveryTypeOK, Finish
<1>4. CASE MonitorReads \/ MonitorWrites
  BY <1>4 DEF MonitorReads, MonitorWrites, RecoveryTypeOK, State, States
<1>5. CASE StartGuard \/ ReadControl \/ Decide \/ GuardFails
  <2>1. guard' \in GuardRecord
    BY <1>5, GuardStepType DEF RecoveryTypeOK, GuardRecord
  <2>2. UNCHANGED <<now, control, run, made, monitor, incident>>
    BY <1>5 DEF StartGuard, ReadControl, Decide, GuardFails
  <2> QED BY <2>1, <2>2 DEF RecoveryTypeOK, GuardRecord
<1>6. CASE Dispatch
  <2>1. NewRun("workflow_dispatch", "other", 0, TRUE)
    BY <1>6 DEF Dispatch
  <2>2. 0 \in 0..MaxTime
    BY RecoveryAssumption
  <2> HIDE DEF NewRun
  <2>3. /\ made' \in 0..MaxRuns
        /\ run' \in [Runs ->
              [event : Events \cup {"none"}, kind : Kinds \cup {"none"}, at : 0..MaxTime,
               slot : 0..MaxTime, status : {"none", "active", "completed"}, guard : BOOLEAN]]
    BY <2>1, <2>2, NewRunStep DEF Events, Kinds
  <2>4. guard' \in GuardRecord
    BY <1>6, GuardStepType DEF RecoveryTypeOK, GuardRecord
  <2>5. UNCHANGED <<now, control, monitor, incident>>
    BY <1>6 DEF Dispatch
  <2> QED BY <2>3, <2>4, <2>5 DEF RecoveryTypeOK, GuardRecord
<1>7. CASE UNCHANGED vars
  BY <1>7 DEF vars, RecoveryTypeOK
<1> QED BY <1>1, <1>2, <1>3, <1>4, <1>5, <1>6, <1>7 DEF Next, GuardStep

\* Type correctness, for any number of ingestion runs and any windows.
THEOREM TypeCorrect == Spec => []RecoveryTypeOK
BY TypeInit, TypeStep, PTL DEF Spec

-----------------------------------------------------------------------------
(* Where runs and the control come from *)

\* A run that is active is young; what claims to be the scheduler's is a title edit;
\* what the guard has started is a dispatch.
Born(i) ==
  /\ run[i].status # "none" => i <= made /\ run[i].at <= now
  /\ run[i].status = "active" => now <= run[i].at + RunTime
  /\ run[i].kind = "chatgpt_scheduler" => run[i].event = "issues"
  /\ run[i].guard => run[i].event = "workflow_dispatch"
  /\ i <= made => run[i].status # "none"

\* A scheduler's control was published by a run that has ended.
Proven ==
  control.kind = "chatgpt_scheduler" =>
    \E i \in Runs :
      /\ run[i].event = "issues" /\ run[i].status = "completed"
      /\ run[i].slot = control.slot

BaseInv == RecoveryTypeOK /\ Proven /\ \A i \in Runs : Born(i)

\* Initially the published control is proven.
LEMMA BaseInit == Init => BaseInv
<1> SUFFICES ASSUME Init PROVE BaseInv
  OBVIOUS
<1>1. RecoveryTypeOK
  BY TypeInit
<1>2. Proven
  BY DEF Init, Proven
<1>3. \A i \in Runs : Born(i)
  BY RecoveryAssumption DEF Init, Born, Runs
<1> QED BY <1>1, <1>2, <1>3 DEF BaseInv

\* Every step keeps it so, and the list of runs in the order of their age.
LEMMA BaseStep == BaseInv /\ [Next]_vars => BaseInv'
<1> SUFFICES ASSUME BaseInv, [Next]_vars PROVE BaseInv'
  OBVIOUS
<1> USE RecoveryAssumption DEF BaseInv
<1>0. RecoveryTypeOK /\ RecoveryTypeOK'
  BY TypeStep
<1>n. now \in Nat /\ made \in Nat /\ \A i \in Runs : i \in Nat /\ run[i].at \in Nat
  BY <1>0 DEF RecoveryTypeOK, Runs
<1>1. CASE Elapse
  <2>1. \A i \in Runs : run[i].status = "active" => now < run[i].at + RunTime
    BY <1>1 DEF Elapse, Active
  <2> QED BY <1>0, <1>n, <1>1, <2>1 DEF Elapse, Proven, Born
<1>2. ASSUME NEW event \in Events, NEW kind \in Kinds \cup {"none"}, NEW s \in 0..MaxTime,
             NEW g \in BOOLEAN, NewRun(event, kind, s, g),
             kind = "chatgpt_scheduler" => event = "issues",
             g => event = "workflow_dispatch",
             UNCHANGED <<now, control>>
      PROVE  BaseInv'
  <2>1. /\ made + 1 \in Runs /\ made' = made + 1
        /\ run'[made + 1] = [event |-> event, kind |-> kind, at |-> now, slot |-> s,
             status |-> IF kind = "none" THEN "completed" ELSE "active", guard |-> g]
        /\ \A i \in Runs \ {made + 1} : run'[i] = run[i]
    BY <1>0, <1>2, NewRunStep
  <2>2. run[made + 1].status = "none"
    BY <1>0, <1>n, <2>1 DEF Born
  <2>3. \A i \in Runs : Born(i)'
    <3> SUFFICES ASSUME NEW i \in Runs PROVE Born(i)'
      OBVIOUS
    <3>1. CASE i = made + 1
      BY <1>2, <1>n, <2>1, <3>1 DEF Born
    <3>2. CASE i # made + 1
      BY <1>2, <1>n, <2>1, <3>2 DEF Born
    <3> QED BY <3>1, <3>2
  <2>4. Proven'
    BY <1>2, <2>1, <2>2 DEF Proven
  <2> QED BY <1>0, <2>3, <2>4
<1>3. ASSUME NEW i \in Runs, Finish(i) PROVE BaseInv'
  <2>1. /\ run[i].status = "active" /\ run'[i] = [run[i] EXCEPT !.status = "completed"]
        /\ \A j \in Runs \ {i} : run'[j] = run[j]
        /\ control' = control \/ control' = [kind |-> run[i].kind, slot |-> run[i].slot]
    BY <1>0, <1>3, FinishStep
  <2>2. /\ run'[i].event = run[i].event /\ run'[i].kind = run[i].kind /\ run'[i].at = run[i].at
        /\ run'[i].slot = run[i].slot /\ run'[i].guard = run[i].guard
        /\ run'[i].status = "completed"
    BY <1>0, <2>1 DEF RecoveryTypeOK
  <2>3. \A j \in Runs : Born(j)'
    BY <1>3, <2>1, <2>2 DEF Born, Finish
  <2>4. CASE control' = control
    <3>1. Proven'
      BY <2>1, <2>2, <2>4 DEF Proven
    <3> QED BY <1>0, <2>3, <3>1
  <2>5. CASE control' = [kind |-> run[i].kind, slot |-> run[i].slot]
    <3>1. control'.kind = run[i].kind /\ control'.slot = run[i].slot
      BY <2>5
    <3>2. run[i].kind = "chatgpt_scheduler" => run[i].event = "issues"
      BY DEF Born
    <3>3. Proven'
      BY <2>2, <3>1, <3>2 DEF Proven
    <3> QED BY <1>0, <2>3, <3>3
  <2> QED BY <2>1, <2>4, <2>5
<1>4. CASE \E t \in Triggers, s \in 0..now : Trigger(t[1], t[2], s)
  <2>1. PICK t \in Triggers, s \in 0..now : Trigger(t[1], t[2], s)
    BY <1>4
  <2>2. s \in 0..MaxTime
    BY <1>0 DEF RecoveryTypeOK
  <2>3. NewRun(t[1], t[2], s, FALSE) /\ UNCHANGED <<now, control>>
    BY <2>1 DEF Trigger
  <2> QED BY <1>2, <2>2, <2>3, TriggerType
<1>5. CASE Dispatch
  <2>1. NewRun("workflow_dispatch", "other", 0, TRUE) /\ UNCHANGED <<now, control>>
    BY <1>5 DEF Dispatch
  <2>2. 0 \in 0..MaxTime /\ "workflow_dispatch" \in Events /\ "other" \in Kinds
    BY DEF Events, Kinds
  <2> QED BY <1>2, <2>1, <2>2
<1>6. CASE UNCHANGED <<now, control, run, made>>
  BY <1>0, <1>6 DEF Proven, Born
<1>7. CASE MonitorReads \/ MonitorWrites \/ StartGuard \/ ReadControl \/ Decide \/ GuardFails
           \/ UNCHANGED vars
  BY <1>6, <1>7 DEF MonitorReads, MonitorWrites, StartGuard, ReadControl, Decide, GuardFails, vars
<1> QED BY <1>1, <1>3, <1>4, <1>5, <1>7 DEF Next, GuardStep

\* It holds throughout.
LEMMA BaseInvariant == Spec => []BaseInv
BY BaseInit, BaseStep, PTL DEF Spec

\* What the watchdog calls healthy is a proof of the scheduler itself that is not
\* older than the warning threshold.
THEOREM HealthIsProven == Spec => []HealthyIsProven
<1>1. BaseInv => HealthyIsProven
  <2> SUFFICES ASSUME BaseInv, State = "HEALTHY"
               PROVE  \E i \in 1..made :
                        /\ run[i].event = "issues" /\ run[i].status = "completed"
                        /\ now <= run[i].slot + Warning
    BY DEF HealthyIsProven
  <2>1. control.kind = "chatgpt_scheduler" /\ ~(Age(control.slot) > Warning)
    BY DEF State, IsProof
  <2>2. PICK i \in Runs : /\ run[i].event = "issues" /\ run[i].status = "completed"
                          /\ run[i].slot = control.slot
    BY <2>1 DEF BaseInv, Proven
  <2>3. i \in 1..made /\ now \in Nat /\ control.slot \in Nat
    BY <2>2, RecoveryAssumption DEF BaseInv, Born, RecoveryTypeOK, Runs
  <2>4. now <= control.slot + Warning
    BY <2>1, <2>3, RecoveryAssumption DEF Age
  <2> QED BY <2>2, <2>3, <2>4
<1> QED BY <1>1, BaseInvariant, PTL

-----------------------------------------------------------------------------
(* Recoveries *)

\* The page the guard is shown is long enough: fewer than Page runs of the workflow
\* begin within a cooldown.
PageSuffices == \A i \in 1..made : i + Page <= made => run[i].at + Cooldown <= now

\* Once a recovery is decided on, every one before is a cooldown away.
SpacedInv ==
  guard.pc = "dispatch" => \A i \in 1..made : run[i].guard => run[i].at + Cooldown <= now

\* What Decide saw holds until the dispatch.
LEMMA SpacedStep ==
  BaseInv /\ BaseInv' /\ PageSuffices /\ RecoveriesAreSpaced /\ SpacedInv /\ [Next]_vars
    => RecoveriesAreSpaced' /\ SpacedInv'
<1> SUFFICES ASSUME BaseInv, BaseInv', PageSuffices, RecoveriesAreSpaced, SpacedInv, [Next]_vars
             PROVE  RecoveriesAreSpaced' /\ SpacedInv'
  OBVIOUS
<1> USE RecoveryAssumption
<1>0. RecoveryTypeOK /\ \A i \in Runs : Born(i)
  BY DEF BaseInv
<1>n. /\ now \in Nat /\ made \in 0..MaxRuns
      /\ \A i \in Runs : i \in Nat /\ run[i].at \in Nat
      /\ \A i \in 1..made : i \in Runs
  BY <1>0 DEF RecoveryTypeOK, Runs
<1>1. CASE Elapse
  BY <1>1 DEF Elapse, RecoveriesAreSpaced, SpacedInv
<1>2. ASSUME NEW event \in Events, NEW kind \in Kinds \cup {"none"}, NEW s \in 0..MaxTime,
             NEW g \in BOOLEAN, NewRun(event, kind, s, g)
      PROVE  /\ made' = made + 1 /\ run'[made + 1].guard = g /\ run'[made + 1].at = now
             /\ \A i \in 1..made : run'[i] = run[i]
  <2>1. /\ made + 1 \in Runs /\ made' = made + 1
        /\ run'[made + 1] = [event |-> event, kind |-> kind, at |-> now, slot |-> s,
             status |-> IF kind = "none" THEN "completed" ELSE "active", guard |-> g]
        /\ \A i \in Runs \ {made + 1} : run'[i] = run[i]
    BY <1>0, <1>2, NewRunStep
  <2> QED BY <1>n, <2>1
<1>3. CASE \E t \in Triggers, s \in 0..now : Trigger(t[1], t[2], s)
  <2>1. PICK t \in Triggers, s \in 0..now : Trigger(t[1], t[2], s)
    BY <1>3
  <2>2. s \in 0..MaxTime
    BY <1>0 DEF RecoveryTypeOK
  <2>3. NewRun(t[1], t[2], s, FALSE) /\ UNCHANGED <<now, guard>>
    BY <2>1 DEF Trigger
  <2>4. /\ made' = made + 1 /\ run'[made + 1].guard = FALSE
        /\ \A i \in 1..made : run'[i] = run[i]
    BY <1>2, <2>2, <2>3, TriggerType
  <2> QED BY <1>n, <2>3, <2>4 DEF RecoveriesAreSpaced, SpacedInv
<1>4. ASSUME NEW i \in Runs, Finish(i) PROVE RecoveriesAreSpaced' /\ SpacedInv'
  <2>1. /\ run'[i] = [run[i] EXCEPT !.status = "completed"]
        /\ \A j \in Runs \ {i} : run'[j] = run[j]
    BY <1>0, <1>4, FinishStep
  <2>2. \A j \in Runs : run'[j].at = run[j].at /\ run'[j].guard = run[j].guard
    BY <1>0, <2>1 DEF RecoveryTypeOK
  <2> QED BY <1>4, <1>n, <2>2 DEF Finish, RecoveriesAreSpaced, SpacedInv
<1>5. CASE Decide
  <2>1. CASE guard.critical /\ ~Blocked
    <3>1. \A i \in 1..made : run[i].guard => run[i].at + Cooldown <= now
      <4> SUFFICES ASSUME NEW i \in 1..made, run[i].guard PROVE run[i].at + Cooldown <= now
        OBVIOUS
      <4>1. run[i].event = "workflow_dispatch" /\ run[i].at \in Nat
        BY <1>0, <1>n DEF Born
      <4>2. CASE i \in Shown
        BY <1>n, <2>1, <4>1, <4>2 DEF Blocked, Age
      <4>3. CASE i \notin Shown
        BY <1>n, <4>3 DEF Shown, PageSuffices
      <4> QED BY <4>2, <4>3
    <3> QED BY <1>5, <3>1 DEF Decide, RecoveriesAreSpaced, SpacedInv
  <2>2. CASE ~(guard.critical /\ ~Blocked)
    BY <1>5, <2>2 DEF Decide, GuardEnds, RecoveriesAreSpaced, SpacedInv
  <2> QED BY <2>1, <2>2
<1>6. CASE Dispatch
  <2>1. NewRun("workflow_dispatch", "other", 0, TRUE) /\ guard.pc = "dispatch" /\ GuardEnds
    BY <1>6 DEF Dispatch
  <2>2. 0 \in 0..MaxTime /\ "workflow_dispatch" \in Events /\ "other" \in Kinds
    BY DEF Events, Kinds
  <2>3. /\ made' = made + 1 /\ run'[made + 1].at = now
        /\ \A i \in 1..made : run'[i] = run[i]
    BY <1>2, <2>1, <2>2
  <2>4. RecoveriesAreSpaced'
    BY <1>n, <2>1, <2>3 DEF RecoveriesAreSpaced, SpacedInv
  <2>5. SpacedInv'
    BY <2>1 DEF GuardEnds, SpacedInv
  <2> QED BY <2>4, <2>5
<1>7. CASE (StartGuard \/ ReadControl \/ GuardFails) /\ ~Decide
  <2>1. guard'.pc = "dispatch" => guard.pc = "dispatch"
    BY <1>0, <1>7, GuardStepType DEF RecoveryTypeOK, GuardRecord
  <2>2. UNCHANGED <<now, run, made>>
    BY <1>7 DEF StartGuard, ReadControl, GuardFails
  <2> QED BY <2>1, <2>2 DEF RecoveriesAreSpaced, SpacedInv
<1>8. CASE MonitorReads \/ MonitorWrites \/ UNCHANGED vars
  BY <1>8 DEF MonitorReads, MonitorWrites, vars, RecoveriesAreSpaced, SpacedInv
<1> QED BY <1>1, <1>3, <1>4, <1>5, <1>6, <1>7, <1>8 DEF Next, GuardStep

\* Recoveries are a cooldown apart, however often the guard is started, as long as the
\* page the guard is shown covers a cooldown.
THEOREM RecoveriesSpaced == Spec /\ []PageSuffices => []RecoveriesAreSpaced
<1>1. Init => RecoveriesAreSpaced /\ SpacedInv
  BY DEF Init, RecoveriesAreSpaced, SpacedInv
<1> QED BY <1>1, BaseInvariant, SpacedStep, PTL DEF Spec

-----------------------------------------------------------------------------
(* Recoveries are needed *)

\* A core that was critical when the guard read the control still is, or the proof
\* that changed it is of a run still settling.
StillCritical ==
  guard.pc = "list" /\ guard.critical =>
    \/ State = "CRITICAL"
    \/ \E i \in 1..made : run[i].event = "issues" /\ now < run[i].at + Settle

\* What the guard read as critical stays so unless a recent run repairs it.
LEMMA CriticalStep ==
  ASSUME RunTime < Settle
  PROVE  BaseInv /\ StillCritical /\ [Next]_vars => StillCritical'
<1> SUFFICES ASSUME BaseInv, StillCritical, [Next]_vars, (guard.pc = "list" /\ guard.critical)'
             PROVE  \/ (State = "CRITICAL")'
                    \/ \E i \in 1..made' : run'[i].event = "issues" /\ now' < run'[i].at + Settle
  BY DEF StillCritical
<1> USE RecoveryAssumption
<1>0. RecoveryTypeOK /\ \A i \in Runs : Born(i)
  BY DEF BaseInv
<1>n. /\ now \in Nat /\ made \in 0..MaxRuns
      /\ \A i \in Runs : i \in Nat /\ run[i].at \in Nat
      /\ \A i \in 1..made : i \in Runs
  BY <1>0 DEF RecoveryTypeOK, Runs
<1>1. CASE Elapse
  BY <1>1 DEF Elapse
<1>2. CASE \E t \in Triggers, s \in 0..now : Trigger(t[1], t[2], s)
  <2>1. PICK t \in Triggers, s \in 0..now : Trigger(t[1], t[2], s)
    BY <1>2
  <2>2. s \in 0..MaxTime
    BY <1>0 DEF RecoveryTypeOK
  <2>3. NewRun(t[1], t[2], s, FALSE) /\ UNCHANGED <<now, control, guard>>
    BY <2>1 DEF Trigger
  <2>4. made' = made + 1 /\ \A i \in 1..made : run'[i] = run[i]
    <3>1. t[1] \in Events /\ t[2] \in Kinds \cup {"none"}
      BY TriggerType
    <3>2. made' = made + 1 /\ \A i \in Runs \ {made + 1} : run'[i] = run[i]
      BY <1>0, <2>2, <2>3, <3>1, NewRunStep
    <3> QED BY <1>n, <3>2
  <2>5. State' = State
    BY <2>3 DEF State, IsProof, Age
  <2> QED BY <1>n, <2>3, <2>4, <2>5 DEF StillCritical
<1>3. ASSUME NEW i \in Runs, Finish(i)
      PROVE  \/ (State = "CRITICAL")'
             \/ \E j \in 1..made' : run'[j].event = "issues" /\ now' < run'[j].at + Settle
  <2>1. /\ run[i].status = "active" /\ run'[i] = [run[i] EXCEPT !.status = "completed"]
        /\ \A j \in Runs \ {i} : run'[j] = run[j]
        /\ control' = control \/ control' = [kind |-> run[i].kind, slot |-> run[i].slot]
    BY <1>0, <1>3, FinishStep
  <2>2. \A j \in Runs : run'[j].at = run[j].at /\ run'[j].event = run[j].event
    BY <1>0, <2>1 DEF RecoveryTypeOK
  <2>3. UNCHANGED <<now, made, guard>>
    BY <1>3 DEF Finish
  <2>4. CASE control' = control
    <3>1. State' = State
      BY <2>3, <2>4 DEF State, IsProof, Age
    <3> QED BY <1>n, <2>2, <2>3, <3>1 DEF StillCritical
  <2>5. CASE control'.kind = run[i].kind /\ run[i].kind = "chatgpt_scheduler"
    <3>1. run[i].event = "issues" /\ now <= run[i].at + RunTime /\ i \in 1..made
      BY <1>0, <1>n, <2>1, <2>5 DEF Born, Runs
    <3>2. now' < run'[i].at + Settle
      BY <1>n, <2>2, <2>3, <3>1
    <3> QED BY <2>2, <2>3, <3>1, <3>2
  <2>6. CASE control'.kind = run[i].kind /\ run[i].kind # "chatgpt_scheduler"
    BY <2>6 DEF State, IsProof
  <2> QED BY <2>1, <2>4, <2>5, <2>6
<1>4. CASE ReadControl
  <2>1. guard'.critical = (State = "CRITICAL") /\ UNCHANGED <<now, control>>
    BY <1>0, <1>4 DEF ReadControl, RecoveryTypeOK
  <2>2. State' = State
    BY <2>1 DEF State, IsProof, Age
  <2> QED BY <2>1, <2>2
<1>5. CASE Decide \/ Dispatch \/ GuardFails
  <2>1. GuardEnds \/ guard' = [guard EXCEPT !.pc = "dispatch"]
    BY <1>5 DEF Decide, Dispatch, GuardFails
  <2>2. guard'.pc # "list"
    BY <1>0, <2>1 DEF GuardEnds, RecoveryTypeOK
  <2> QED BY <2>2
<1>6. CASE StartGuard \/ MonitorReads \/ MonitorWrites \/ UNCHANGED vars
  <2>1. UNCHANGED <<now, control, run, made>> /\ guard.pc = "list" /\ guard.critical
    BY <1>0, <1>6 DEF StartGuard, MonitorReads, MonitorWrites, vars, RecoveryTypeOK
  <2>2. State' = State
    BY <2>1 DEF State, IsProof, Age
  <2> QED BY <2>1, <2>2 DEF StillCritical
<1> QED BY <1>1, <1>2, <1>3, <1>4, <1>5, <1>6 DEF Next, GuardStep

\* When a recovery is decided on the core is critical and idle at that moment, as long
\* as runs are over within the settle window and the page covers a cooldown.
THEOREM RecoveryNeeded ==
  ASSUME RunTime < Settle, Settle <= Cooldown
  PROVE  Spec /\ []PageSuffices => RecoveryIsNeeded
<1>1. Init => StillCritical
  BY DEF Init, StillCritical
<1>2. BaseInv /\ StillCritical /\ PageSuffices /\ [Next]_vars =>
        (guard.pc = "list" /\ guard'.pc = "dispatch" =>
           State = "CRITICAL" /\ \A i \in Runs : ~Active(i))
  <2> SUFFICES ASSUME BaseInv, StillCritical, PageSuffices, [Next]_vars,
                      guard.pc = "list", guard'.pc = "dispatch"
               PROVE  State = "CRITICAL" /\ \A i \in Runs : ~Active(i)
    OBVIOUS
  <2> USE RecoveryAssumption
  <2>0. RecoveryTypeOK /\ \A i \in Runs : Born(i)
    BY DEF BaseInv
  <2>n. /\ now \in Nat /\ made \in 0..MaxRuns
        /\ \A i \in Runs : i \in Nat /\ run[i].at \in Nat
        /\ \A i \in 1..made : i \in Runs
    BY <2>0 DEF RecoveryTypeOK, Runs
  <2>1. Decide
    <3>1. guard' # guard
      OBVIOUS
    <3>2. StartGuard \/ ReadControl \/ Decide \/ GuardFails \/ Dispatch
      BY <3>1 DEF Next, GuardStep, Elapse, Trigger, Finish, MonitorReads, MonitorWrites, vars
    <3> QED BY <2>0, <3>2, GuardStepType DEF RecoveryTypeOK, GuardRecord
  <2>2. guard.critical /\ ~Blocked
    BY <2>1 DEF Decide, GuardEnds
  <2>3. \A i \in 1..made : i \notin Shown => run[i].at + Cooldown <= now
    BY <2>n DEF Shown, PageSuffices
  <2>4. ~\E i \in 1..made : run[i].event = "issues" /\ now < run[i].at + Settle
    BY <2>n, <2>2, <2>3 DEF Blocked, Age
  <2>5. ASSUME NEW i \in Runs, Active(i) PROVE FALSE
    <3>1. i \in 1..made /\ now <= run[i].at + RunTime /\ now < run[i].at + Cooldown
      BY <2>0, <2>n, <2>5 DEF Active, Born, Runs
    <3> QED BY <2>n, <2>2, <2>3, <2>5, <3>1 DEF Blocked
  <2> QED BY <2>2, <2>4, <2>5 DEF StillCritical
<1> QED BY <1>1, <1>2, BaseInvariant, CriticalStep, PTL DEF Spec, RecoveryIsNeeded
=============================================================================
