-------------------------- MODULE RuntimePublication --------------------------
(***************************************************************************)
(* The runs of the V6 ingestion workflow and the branch runtime-data-v6    *)
(* they publish to.  A run hydrates the last snapshot of the branch,       *)
(* decides whether its logical slot is already done, derives a candidate   *)
(* snapshot (runtime control and the ledger of operational slots) and      *)
(* force-pushes it with a lease on the tip it fetched just before.         *)
(*                                                                         *)
(* Sources: .github/workflows/v6-natural-data-ingestion.yml and, in        *)
(* runtime_v6/domains, control_plane/runtime_control.py,                   *)
(* control_plane/workflow_control.py, observability/operational_ledger.py. *)
(*                                                                         *)
(* A logical slot is the number of its hour, 0 no slot.  A commit is       *)
(* identified by the run that made it: a run makes one candidate and its   *)
(* retries push the same one.  data/v6 on the runner is first the hydrated *)
(* snapshot and then, derived in place, the candidate; runners are not     *)
(* reused.                                                                 *)
(***************************************************************************)
EXTENDS Integers, FiniteSets

CONSTANTS
  Proofs,       \* runs of a title edit of issue #431: kind chatgpt_scheduler
  Masters,      \* dispatched runs of kind master_orchestrated
  Others,       \* runs of kind report_prefetch and manual_recovery
  Absent,       \* no row for the slot, no commit
  Missing,      \* a row fulfilled_by MISSING
  MaxSlot,      \* bound: logical slots
  Window,       \* window_size=48
  PushAttempts, \* for attempt in 1 2 3
  Faults,       \* whether a push may fail, before or after it took effect
  SingleWriter  \* whether something outside the code keeps runs apart

Runs == Proofs \cup Masters \cup Others
Slots == 1..MaxSlot

ASSUME RunsAssumption ==
  /\ Proofs \cap Masters = {} /\ Proofs \cap Others = {} /\ Masters \cap Others = {}
  /\ Absent \notin Runs /\ Missing \notin Runs /\ Absent # Missing
ASSUME BoundsAssumption ==
  /\ MaxSlot \in Nat \ {0} /\ Window \in Nat \ {0} /\ PushAttempts \in Nat \ {0}
  /\ Faults \in BOOLEAN /\ SingleWriter \in BOOLEAN

VARIABLES
  tip,      \* the commit at the tip of runtime-data-v6
  branch,   \* its snapshot
  title,    \* the slot in the title of issue #431, 0 when it holds none
  pc,       \* where each run is
  slot,     \* the logical slot a run was triggered for, 0 for none
  twice,    \* whether its title edit repeated the slot of the old title
  work,     \* data/v6 on its runner
  lease,    \* RUNTIME_BASE_SHA
  att,      \* pushes that failed
  first     \* history: per slot, the first proof whose candidate landed

remote == <<tip, branch>>
runner == <<work, lease, att>>
vars   == <<remote, title, pc, slot, twice, runner, first>>

\* The published state: last_chatgpt_scheduler_cycle_at and
\* last_operational_cycle_at of runtime_control; slots,
\* auxiliary_operational_slots and duplicate_core_attempts of the ledger.
Snapshot ==
  [chat : 0..MaxSlot, oper : 0..MaxSlot,
   rows : [Slots -> Proofs \cup {Missing, Absent}],
   aux  : [Slots -> Masters \cup {Absent}],
   dups : SUBSET (Slots \X Proofs)]

EmptySnapshot ==
  [chat |-> 0, oper |-> 0, rows |-> [s \in Slots |-> Absent],
   aux |-> [s \in Slots |-> Absent], dups |-> {}]

InFlight == {"build", "lease", "push", "verify"}
Ended == {"done", "skipped", "failed", "cancelled"}
Locations == {"idle", "pending", "hydrate"} \cup InFlight \cup Ended

TypeOK ==
  /\ tip \in Runs \cup {Absent}
  /\ branch \in Snapshot
  /\ title \in 0..MaxSlot
  /\ pc \in [Runs -> Locations]
  /\ slot \in [Runs -> 0..MaxSlot]
  /\ twice \in [Runs -> BOOLEAN]
  /\ work \in [Runs -> Snapshot]
  /\ lease \in [Runs -> Runs \cup {Absent}]
  /\ att \in [Runs -> 0..(PushAttempts - 1)]
  /\ first \in [Slots -> Proofs \cup {Absent}]

Init ==
  /\ tip = Absent /\ branch = EmptySnapshot
  /\ title = 0
  /\ pc = [r \in Runs |-> "idle"]
  /\ slot = [r \in Runs |-> 0]
  /\ twice = [r \in Runs |-> FALSE]
  /\ work = [r \in Runs |-> EmptySnapshot]
  /\ lease = [r \in Runs |-> Absent]
  /\ att = [r \in Runs |-> 0]
  /\ first = [s \in Slots |-> Absent]

-----------------------------------------------------------------------------
(* The candidate a run derives from the snapshot it hydrated *)

Later(s, t) == IF s > t THEN s ELSE t

\* Mutant: a generic master dispatch advances the scheduler proof as well.
LastProof_Master(r, old) == IF r \in Proofs \cup Masters THEN Later(old, slot[r]) ELSE old

\* last_chatgpt_scheduler_cycle: only a proof advances it.
LastProof(r, old) == IF r \in Proofs THEN Later(old, slot[r]) ELSE old

\* last_operational_cycle: a proof or a master dispatch advances it.
LastOperational(r, old) ==
  IF r \in Proofs \cup Masters THEN Later(old, slot[r]) ELSE old

\* Mutant: the rows are rebuilt for every proof rather than extended.
WithProof_Rebuilt(r, rows) ==
  IF r \in Proofs THEN [s \in Slots |-> IF s = slot[r] THEN r ELSE Absent] ELSE rows

\* The row of a proof, when its slot has no row yet.
WithProof(r, rows) ==
  IF r \in Proofs /\ rows[slot[r]] = Absent THEN [rows EXCEPT ![slot[r]] = r] ELSE rows

\* Mutant: densifying also overwrites rows between the first and the last.
Densify_Over(rows) ==
  [s \in Slots |->
     IF \E a, b \in Slots : a < s /\ s < b /\ rows[a] # Absent /\ rows[b] # Absent
     THEN Missing ELSE rows[s]]

\* _densify_chatgpt_rows: a slot between two rows has a row too.
Densify(rows) ==
  [s \in Slots |->
     IF /\ rows[s] = Absent
        /\ \E a, b \in Slots : a < s /\ s < b /\ rows[a] # Absent /\ rows[b] # Absent
     THEN Missing ELSE rows[s]]

\* [-window_size:] of rows that have no gap.
Trim(rows) ==
  [s \in Slots |->
     IF \E t \in Slots : t >= s + Window /\ rows[t] # Absent THEN Absent ELSE rows[s]]

\* The auxiliary row of a master dispatch replaces an older one of its slot;
\* the newest Window of them are kept.
WithAuxiliary(r, aux) ==
  LET added == IF r \in Masters THEN [aux EXCEPT ![slot[r]] = r] ELSE aux
  IN  [s \in Slots |->
         IF Cardinality({t \in Slots : t > s /\ added[t] # Absent}) >= Window
         THEN Absent ELSE added[s]]

\* apply_runtime_control and build_operational_slots.  A proof whose slot has a
\* row already is recorded as a duplicate attempt.
Candidate(r, old) ==
  [chat |-> LastProof(r, old.chat),
   oper |-> LastOperational(r, old.oper),
   rows |-> Trim(Densify(WithProof(r, old.rows))),
   aux  |-> WithAuxiliary(r, old.aux),
   dups |-> IF r \in Proofs /\ old.rows[slot[r]] # Absent
            THEN old.dups \cup {<<slot[r], r>>} ELSE old.dups]

\* scheduled_slot_already_completed.
AlreadyDone(r, old) ==
  \/ r \in Proofs /\ old.chat # 0 /\ old.chat >= slot[r]
  \/ r \in Masters /\ old.oper # 0 /\ old.oper >= slot[r]

-----------------------------------------------------------------------------
(* Triggers *)

Goto(r, l) == pc' = [pc EXCEPT ![r] = l]

\* The scheduler edits the title of the issue.
EditTitle(r, s) ==
  /\ r \in Proofs /\ pc[r] = "idle"
  /\ title' = s
  /\ slot' = [slot EXCEPT ![r] = s]
  /\ twice' = [twice EXCEPT ![r] = (title = s)]
  /\ Goto(r, "hydrate")
  /\ UNCHANGED <<remote, runner, first>>

\* The other runs of the concurrency group of a dispatch.
Group(r, s) == {q \in (Masters \cup Others) \ {r} : slot[q] = s}
Busy(group) == \E q \in group : pc[q] \in {"hydrate"} \cup InFlight

\* A dispatched run waits while the group of its slot is busy, and replaces the
\* one that was waiting.
Dispatch(r, s) ==
  /\ r \in Masters \cup Others /\ pc[r] = "idle"
  /\ slot' = [slot EXCEPT ![r] = s]
  /\ IF Busy(Group(r, s))
     THEN pc' = [q \in Runs |->
                   IF q = r THEN "pending"
                   ELSE IF q \in Group(r, s) /\ pc[q] = "pending" THEN "cancelled"
                   ELSE pc[q]]
     ELSE Goto(r, "hydrate")
  /\ UNCHANGED <<remote, title, twice, runner, first>>

\* The waiting run starts when the group is free.
Start(r) ==
  /\ pc[r] = "pending" /\ ~Busy(Group(r, slot[r]))
  /\ Goto(r, "hydrate")
  /\ UNCHANGED <<remote, title, slot, twice, runner, first>>

\* A comment asks for a prefetch or a recovery; its group is its own.
Comment(r) ==
  /\ r \in Others /\ pc[r] = "idle"
  /\ Goto(r, "hydrate")
  /\ UNCHANGED <<remote, title, slot, twice, runner, first>>

-----------------------------------------------------------------------------
(* The collect job and the publish job *)

\* The run ends and its runner is gone.
End(r, l) ==
  /\ Goto(r, l)
  /\ work' = [work EXCEPT ![r] = EmptySnapshot]
  /\ lease' = [lease EXCEPT ![r] = Absent]
  /\ att' = [att EXCEPT ![r] = 0]

\* Mutant: a repeated title edit is not turned away.
SlotDone_Repeats(r) == AlreadyDone(r, branch)

\* slot-guard, on the snapshot hydrated by the same job.
SlotDone(r) == twice[r] \/ AlreadyDone(r, branch)

\* Hydrate the last-good snapshot, then slot-guard.
Hydrate(r) ==
  /\ pc[r] = "hydrate"
  /\ SingleWriter => \A q \in Runs : pc[q] \notin InFlight
  /\ IF SlotDone(r)
     THEN Goto(r, "skipped") /\ UNCHANGED work
     ELSE Goto(r, "build") /\ work' = [work EXCEPT ![r] = branch]
  /\ UNCHANGED <<remote, title, slot, twice, lease, att, first>>

\* Acquire, apply runtime control, freeze and validate the candidate.
Collect(r) ==
  /\ pc[r] = "build"
  /\ work' = [work EXCEPT ![r] = Candidate(r, @)]
  /\ Goto(r, "lease")
  /\ UNCHANGED <<remote, title, slot, twice, lease, att, first>>

\* Refresh the lease: fetch the tip.
FetchLease(r) ==
  /\ pc[r] = "lease"
  /\ lease' = [lease EXCEPT ![r] = tip]
  /\ Goto(r, "push")
  /\ UNCHANGED <<remote, title, slot, twice, work, att, first>>

\* The candidate of r becomes the tip.
Land(r) ==
  /\ tip' = r
  /\ branch' = work[r]
  /\ first' = IF r \in Proofs /\ first[slot[r]] = Absent
              THEN [first EXCEPT ![slot[r]] = r] ELSE first

\* Mutant: one attempt too many.
AfterFailedPush_Long(r) ==
  IF att[r] < PushAttempts
  THEN Goto(r, "lease") /\ att' = [att EXCEPT ![r] = @ + 1] /\ UNCHANGED <<work, lease>>
  ELSE End(r, "failed")

\* Mutant: the loop does not count a failed push.
AfterFailedPush_Uncounted(r) == Goto(r, "lease") /\ UNCHANGED runner

\* The next attempt, or the publish job fails.
AfterFailedPush(r) ==
  IF att[r] + 1 < PushAttempts
  THEN Goto(r, "lease") /\ att' = [att EXCEPT ![r] = @ + 1] /\ UNCHANGED <<work, lease>>
  ELSE End(r, "failed")

\* push --force-with-lease onto the fetched tip.
PushLands(r) ==
  /\ pc[r] = "push" /\ lease[r] = tip
  /\ Land(r)
  /\ \/ Goto(r, "verify") /\ UNCHANGED runner
     \/ Faults /\ AfterFailedPush(r)
  /\ UNCHANGED <<title, slot, twice>>

\* The tip has moved since it was fetched, or the push fails.
PushRefused(r) ==
  /\ pc[r] = "push" /\ (lease[r] # tip \/ Faults)
  /\ AfterFailedPush(r)
  /\ UNCHANGED <<remote, title, slot, twice, first>>

\* The published head must be the commit just pushed.
Verify(r) ==
  /\ pc[r] = "verify"
  /\ End(r, IF tip = r THEN "done" ELSE "failed")
  /\ UNCHANGED <<remote, title, slot, twice, first>>

\* A step fails (no last-good snapshot, acquisition, integrity, token), a job
\* times out or the run is cancelled.
Abort(r) ==
  /\ pc[r] \in {"pending", "hydrate"} \cup InFlight
  /\ End(r, "failed")
  /\ UNCHANGED <<remote, title, slot, twice, first>>

Step(r) ==
  \/ Start(r) \/ Hydrate(r) \/ Collect(r) \/ FetchLease(r)
  \/ PushLands(r) \/ PushRefused(r) \/ Verify(r)

Next ==
  \E r \in Runs :
    \/ \E s \in Slots : EditTitle(r, s) \/ Dispatch(r, s)
    \/ Comment(r) \/ Step(r) \/ Abort(r)

Spec == Init /\ [][Next]_vars

\* Jobs have a timeout, so a run that was triggered takes its next step.
FairSpec == Spec /\ \A r \in Runs : WF_vars(Step(r))

-----------------------------------------------------------------------------
(* What the published state promises *)

Owned(rows) == {s \in Slots : rows[s] \in Proofs}
Newest(S) == IF S = {} THEN 0 ELSE CHOOSE s \in S : \A t \in S : t <= s

\* The manifest and the ledger are computed by different functions from
\* different files of the hydrated tree; in every published snapshot the last
\* proof of the manifest is the newest fulfilled row of the ledger, and the last
\* operational slot the newest of the fulfilled and the auxiliary rows.
ControlMatchesLedger ==
  /\ branch.chat = Newest(Owned(branch.rows))
  /\ branch.oper = Newest(Owned(branch.rows) \cup {s \in Slots : branch.aux[s] # Absent})

\* Missing slots are retrospective: a MISSING row exists only below a row that
\* a proof owns, and the rows have no gap between the oldest and the newest.
MissingIsRetrospective ==
  \A s \in Slots : branch.rows[s] = Missing =>
    \E t \in Slots : t > s /\ branch.rows[t] \in Proofs
                     /\ \A u \in s..t : branch.rows[u] # Absent

\* No success is synthetic: an owned row names a scheduler run that was
\* triggered for exactly that slot and whose candidate has been pushed.
OwnersAreProofs ==
  \A s \in Slots : branch.rows[s] \in Proofs =>
    LET r == branch.rows[s]
    IN  slot[r] = s /\ ~twice[r] /\ first[s] # Absent

\* A duplicate or out-of-order proof is turned away by the slot guard, before
\* the ledger would have to record it.
DuplicatesAreSkipped == branch.dups = {}

\* Core-slot ownership is first-writer-wins and nothing published is lost: the
\* row of a slot within the window is the first proof that landed for it.
NothingLost ==
  \A s \in Slots :
    first[s] # Absent /\ (\A t \in Slots : first[t] # Absent => t < s + Window)
      => branch.rows[s] = first[s]

\* The ledger is factual: a MISSING row, which says that no scheduler proof was
\* there before a later slot, is a slot for which none had landed.
MissingIsFactual ==
  \A s \in Slots : branch.rows[s] = Missing => first[s] = Absent

\* The scheduler proof only advances, whatever kind of run publishes.
ProofNeverRegresses == [][branch'.chat >= branch.chat]_vars

\* Every run that was triggered ends, waiting runs included.
RunsEnd == \A r \in Runs : pc[r] # "idle" ~> pc[r] \in Ended
-----------------------------------------------------------------------------
(* The abstract ledger it implements *)

Ledger ==
  INSTANCE SlotLedger WITH
    Slot        <- Slots,
    Proof       <- Proofs,
    Empty       <- Absent,
    Gap         <- Missing,
    last        <- branch.chat,
    operational <- branch.oper,
    row         <- branch.rows

\* Runs that are kept apart are one ledger, whatever they hydrate, derive and
\* push again: each publication enters a proof, serves a slot or changes nothing.
ImplementsLedger == Ledger!Spec
=============================================================================
