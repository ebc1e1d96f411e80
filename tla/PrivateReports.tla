----------------------------- MODULE PrivateReports -----------------------------
(***************************************************************************)
(* Runs of the integrated report runner and the private repository they    *)
(* publish a DEEP report to.  A run checks the repository out, generates   *)
(* its report, commits it as the history of its slot and as latest/*,      *)
(* pushes (rebasing when refused), reads its commit back and records the   *)
(* readback in a second commit.                                            *)
(*                                                                         *)
(* Sources: .github/workflows/v12-integrated-report-runner.yml and         *)
(* src/engines/v12_private_publisher.py.                                   *)
(*                                                                         *)
(* The content of a file is the run that wrote it: what a run writes names *)
(* it by time, run id and hashes.  Mixed is a file merged of two versions, *)
(* which no hash names.  The planning week of a slot does not change, so a *)
(* slot has one history directory.  The repository has no other writer of  *)
(* these files; pushes of other files only move its tip.                   *)
(***************************************************************************)
EXTENDS Integers, FiniteSets

CONSTANTS
  Runs,         \* runs of the report runner
  None,         \* no file, no run
  Mixed,        \* a file merged of two versions
  MaxSlot,      \* bound: report slots
  PushAttempts, \* for push_attempt in 1 2 3
  OtherPushes,  \* bound: pushes of other files
  Faults,       \* whether steps may fail for reasons outside the code
  Reruns        \* whether a slot may be run more than once

Slots == 1..MaxSlot

ASSUME RunsAssumption == None \notin Runs /\ Mixed \notin Runs /\ None # Mixed
ASSUME BoundsAssumption ==
  /\ MaxSlot \in Nat \ {0} /\ PushAttempts \in Nat \ {0} /\ OtherPushes \in Nat
  /\ Faults \in BOOLEAN /\ Reruns \in BOOLEAN

VARIABLES
  hist,    \* the history directory of each slot
  latest,  \* latest/*
  rev,     \* the number of commits on main
  pc,      \* where each run is
  slot,    \* its report slot, 0 before it is triggered
  kind,    \* what triggered it
  report,  \* what it generated
  base,    \* the files of its slot and latest/* in the parent of its commit
  mine,    \* the same files in its commit
  parent,  \* the number of that parent, then of the commit it pushed
  att,     \* pushes that failed
  others,  \* pushes of other files so far
  readback \* history: the bodies whose readback a second commit recorded

repo   == <<hist, latest, rev>>
runner == <<pc, slot, kind, report, base, mine, parent, att>>
reportVars == <<repo, runner, others, readback>>

\* "bundle" stands for report_bundle.json and execution_proof_private.json,
\* which the digest and stage3_acceptance.json are bound to by hash; "body" is
\* serving_report.md, "status" delivery_status.json, "receipt"
\* delivery_receipt.json.  Of latest/*: deep.json, report.md,
\* delivery_status.json and native_content.manifest.json.
HistFiles   == {"bundle", "digest", "stage3", "body", "status", "receipt"}
LatestFiles == {"latest digest", "latest report", "latest status", "latest manifest"}
Files == HistFiles \cup LatestFiles

\* A manifest names a body and says whether its remote readback has passed.
Manifest == [body : Runs, pass : BOOLEAN]
Content == Runs \cup {None, Mixed} \cup Manifest
ASSUME ContentAssumption == (Runs \cup {None, Mixed}) \cap Manifest = {}

\* What a report claims to be, whether that stands up to the terminality
\* checks (Stage3, governed degradation, presentation QA), and whether it has
\* native content; READY_FULL always has (NATIVE_CONTENT_PARITY_FAILED).
Report ==
  {q \in [claim : {"READY_FULL", "READY_DEGRADED"}, sound : BOOLEAN, native : BOOLEAN] :
     q.claim = "READY_FULL" => q.native}

View(s) == [f \in Files |-> IF f \in HistFiles THEN hist[s][f] ELSE latest[f]]

Locations ==
  {"idle", "pending", "checkout", "generate", "push", "rebase", "readback", "second",
   "finish", "passed", "failed", "cancelled"}
Ended == {"passed", "failed", "cancelled"}

ReportTypeOK ==
  /\ hist \in [Slots -> [HistFiles -> Content]]
  /\ latest \in [LatestFiles -> Content]
  /\ rev \in Nat
  /\ pc \in [Runs -> Locations]
  /\ slot \in [Runs -> 0..MaxSlot]
  /\ kind \in [Runs -> {"dispatch", "comment"}]
  /\ report \in [Runs -> Report]
  /\ base \in [Runs -> [Files -> Content]]
  /\ mine \in [Runs -> [Files -> Content]]
  /\ parent \in [Runs -> Nat]
  /\ att \in [Runs -> 0..PushAttempts]
  /\ others \in 0..OtherPushes
  /\ readback \subseteq Runs

NoFiles == [f \in Files |-> None]

ReportInit ==
  /\ hist = [s \in Slots |-> [f \in HistFiles |-> None]]
  /\ latest = [f \in LatestFiles |-> None]
  /\ rev = 0
  /\ pc = [r \in Runs |-> "idle"]
  /\ slot = [r \in Runs |-> 0]
  /\ kind = [r \in Runs |-> "dispatch"]
  /\ report = [r \in Runs |-> [claim |-> "READY_DEGRADED", sound |-> FALSE, native |-> FALSE]]
  /\ base = [r \in Runs |-> NoFiles]
  /\ mine = [r \in Runs |-> NoFiles]
  /\ parent = [r \in Runs |-> 0]
  /\ att = [r \in Runs |-> 0]
  /\ others = 0
  /\ readback = {}

Goto(r, l) == pc' = [pc EXCEPT ![r] = l]

\* The run ends and its runner is discarded.
End(r, l) ==
  /\ Goto(r, l)
  /\ base' = [base EXCEPT ![r] = NoFiles]
  /\ mine' = [mine EXCEPT ![r] = NoFiles]
  /\ parent' = [parent EXCEPT ![r] = 0]
  /\ att' = [att EXCEPT ![r] = 0]

-----------------------------------------------------------------------------
(* Triggers and the concurrency block *)

\* Mutant: no concurrency block.
SameGroup_None(k, s, r) == FALSE

\* The group of a run: the event, the commit (the same one for all) and the
\* issue number or the slot; all comments of issue #431 are one group.
SameGroup(k, s, r) == kind[r] = k /\ (k = "comment" \/ slot[r] = s)

\* A run of kind k for slot s is queued; it replaces a pending run of its group.
Trigger(r, k, s) ==
  /\ pc[r] = "idle"
  /\ Reruns \/ \A q \in Runs : slot[q] # s
  /\ pc' = [q \in Runs |-> IF q = r THEN "pending"
                           ELSE IF pc[q] = "pending" /\ SameGroup(k, s, q) THEN "cancelled"
                           ELSE pc[q]]
  /\ slot' = [slot EXCEPT ![r] = s]
  /\ kind' = [kind EXCEPT ![r] = k]
  /\ UNCHANGED <<repo, report, base, mine, parent, att, others, readback>>

\* The job starts when no run of its group is in progress.
Start(r) ==
  /\ pc[r] = "pending"
  /\ \A q \in Runs :
       q # r /\ SameGroup(kind[r], slot[r], q) => pc[q] \in {"idle", "pending"} \cup Ended
  /\ Goto(r, "checkout")
  /\ UNCHANGED <<repo, slot, kind, report, base, mine, parent, att, others, readback>>

-----------------------------------------------------------------------------
(* One run *)

Checkout(r) ==
  /\ pc[r] = "checkout"
  /\ base' = [base EXCEPT ![r] = View(slot[r])]
  /\ parent' = [parent EXCEPT ![r] = rev]
  /\ Goto(r, "generate")
  /\ UNCHANGED <<repo, slot, kind, report, mine, att, others, readback>>

\* What the checkout puts on the disk: sparse-checkout of personal and latest.
OnDisk == LatestFiles

\* _safe_write_exact refuses a file that exists with other content, unless the
\* report upgrades a degraded one of the same occurrence (recovery_upgrade).
MayWrite(r, q) ==
  LET existing == {f \in HistFiles \cap OnDisk : base[r][f] # None}
      bundle   == base[r]["bundle"]
  IN  \/ existing = {}
      \/ /\ "bundle" \in existing /\ bundle \in Runs
         /\ report[bundle].claim = "READY_DEGRADED" /\ q.claim = "READY_FULL"

\* publish_private_output: all files are the run's; a report without native
\* content removes the manifest.
Published(r, q) ==
  [f \in Files |-> IF f # "latest manifest" THEN r
                   ELSE IF q.native THEN [body |-> r, pass |-> FALSE] ELSE None]

Publish(r) ==
  /\ pc[r] = "generate"
  /\ \E q \in Report :
       /\ MayWrite(r, q)
       /\ report' = [report EXCEPT ![r] = q]
       /\ mine' = [mine EXCEPT ![r] = Published(r, q)]
  /\ Goto(r, "push")
  /\ UNCHANGED <<repo, slot, kind, base, parent, att, others, readback>>

\* The history files of the run's slot and latest/* become its own.
Publishes(r) ==
  /\ hist' = [hist EXCEPT ![slot[r]] = [f \in HistFiles |-> mine[r][f]]]
  /\ latest' = [f \in LatestFiles |-> mine[r][f]]
  /\ rev' = rev + 1

Land(r) == Publishes(r) /\ parent' = [parent EXCEPT ![r] = rev + 1]

\* git push of the first commit; with nothing of its own left to push (base is
\* mine) it reports success and changes nothing.
PushLands(r) ==
  /\ pc[r] = "push" /\ parent[r] = rev
  /\ IF base[r] = mine[r] THEN UNCHANGED <<repo, parent>> ELSE Land(r)
  /\ Goto(r, "readback")
  /\ UNCHANGED <<slot, kind, report, base, mine, att, others, readback>>

\* Refused, or failed before or after it took effect; the last attempt is not
\* followed by a rebase.
PushFails(r) ==
  /\ pc[r] = "push"
  /\ \/ /\ parent[r] # rev \/ Faults
        /\ UNCHANGED <<repo, parent, base>>
     \/ /\ parent[r] = rev /\ base[r] # mine[r] /\ Faults
        /\ Land(r)
        /\ base' = [base EXCEPT ![r] = mine[r]]
  /\ att' = [att EXCEPT ![r] = @ + 1]
  /\ att[r] + 1 < PushAttempts
  /\ Goto(r, "rebase")
  /\ UNCHANGED <<slot, kind, report, mine, others, readback>>

LastPushFails(r) ==
  /\ pc[r] = "push" /\ att[r] + 1 = PushAttempts
  /\ \/ /\ parent[r] # rev \/ Faults
        /\ UNCHANGED repo
     \/ /\ parent[r] = rev /\ base[r] # mine[r] /\ Faults
        /\ Publishes(r)
  /\ End(r, "failed")
  /\ UNCHANGED <<slot, kind, report, others, readback>>

-----------------------------------------------------------------------------
(* git rebase --strategy-option=theirs: b is the merge base, t the fetched    *)
(* version and m the replayed one                                            *)

BothChanged(b, t, m) == t # b /\ m # b

\* One side changed the file, the other deleted it: the rebase stops.
Conflict(b, t, m) == BothChanged(b, t, m) /\ b # None /\ (t = None \/ m = None)

\* In conflicting regions m wins; when some of t's lines remain elsewhere, a text
\* is mixed and a manifest may keep t's word that the readback passed.  Two
\* added files conflict as a whole.
Resolve(b, t, m, remain) ==
  IF t = b THEN m
  ELSE IF m = b THEN t
  ELSE IF b = None \/ ~remain THEN m
  ELSE IF m \in Manifest
    THEN [m EXCEPT !.pass = IF b.pass = m.pass THEN t.pass ELSE m.pass]
    ELSE Mixed

\* A rebase that stops leaves HEAD without the run's commit; what follows ends
\* in failure, at the latest when git refuses to commit unmerged files.
Rebase(r) ==
  /\ pc[r] = "rebase"
  /\ LET theirs == View(slot[r])
         merged == {f \in Files : base[r][f] # None /\ BothChanged(base[r][f], theirs[f], mine[r][f])}
     IN  IF \E f \in Files : Conflict(base[r][f], theirs[f], mine[r][f])
         THEN End(r, "failed")
         ELSE /\ \E remain \in SUBSET merged :
                   mine' = [mine EXCEPT ![r] =
                              [f \in Files |-> Resolve(base[r][f], theirs[f], @[f], f \in remain)]]
              /\ base' = [base EXCEPT ![r] = theirs]
              /\ parent' = [parent EXCEPT ![r] = rev]
              /\ Goto(r, "push")
              /\ UNCHANGED att
  /\ UNCHANGED <<repo, slot, kind, report, others, readback>>

\* git fetch failed: the rebase is onto what was fetched before.
FetchFails(r) ==
  /\ pc[r] = "rebase" /\ Faults
  /\ Goto(r, "push")
  /\ UNCHANGED <<repo, slot, kind, report, base, mine, parent, att, others, readback>>

-----------------------------------------------------------------------------
(* Readback *)

\* The receipt names the hashes of bundle, digest and body, latest has the same
\* digest, and a manifest exactly when the report is native or READY_FULL.
ReadsBack(t) ==
  \E v \in Runs :
    /\ t["receipt"] = v /\ t["bundle"] = v /\ t["digest"] = v /\ t["body"] = v
    /\ t["latest digest"] = v
    /\ IF report[v].native
       THEN t["latest manifest"] \in Manifest /\ t["latest manifest"].body = v
       ELSE t["latest manifest"] = None

\* Mutant: the second commit records the receipt only.
Recorded_ReceiptOnly(t) == t

\* What the second commit writes: receipt and manifest say that readback passed.
Recorded(t) ==
  IF t["latest manifest"] = None THEN t ELSE [t EXCEPT !["latest manifest"].pass = TRUE]

\* git ls-remote names a commit the checkout does not have when another push
\* came in between; otherwise the commit read back is the run's own.
Readback(r) ==
  /\ pc[r] = "readback"
  /\ IF parent[r] = rev /\ ReadsBack(View(slot[r]))
     THEN /\ mine' = [mine EXCEPT ![r] = Recorded(View(slot[r]))]
          /\ Goto(r, "second")
          /\ UNCHANGED <<base, parent, att>>
     ELSE End(r, "failed")
  /\ UNCHANGED <<repo, slot, kind, report, others, readback>>

\* The second commit is pushed once.
SecondPush(r) ==
  /\ pc[r] = "second"
  /\ IF parent[r] = rev
     THEN /\ Land(r) /\ readback' = readback \cup {mine[r]["body"]}
          /\ Goto(r, "finish")
          /\ UNCHANGED <<base, mine, att>>
     ELSE End(r, "failed") /\ UNCHANGED <<repo, readback>>
  /\ UNCHANGED <<slot, kind, report, others>>

\* ls-remote once more, and the public proof.
Finish(r) ==
  /\ pc[r] = "finish"
  /\ End(r, IF parent[r] = rev THEN "passed" ELSE "failed")
  /\ UNCHANGED <<repo, slot, kind, report, others, readback>>

\* A step fails, or the run is cancelled or times out; a report may also be
\* refused by its own gates.
Fail(r) ==
  /\ pc[r] \notin {"idle"} \cup Ended
  /\ Faults \/ pc[r] = "generate"
  /\ End(r, "failed")
  /\ UNCHANGED <<repo, slot, kind, report, others, readback>>

\* A push of other files: the personal snapshot, the credential.
OtherPush ==
  /\ others < OtherPushes
  /\ others' = others + 1
  /\ rev' = rev + 1
  /\ UNCHANGED <<hist, latest, runner, readback>>

RunStep(r) ==
  \/ Start(r) \/ Checkout(r) \/ Publish(r) \/ PushLands(r) \/ PushFails(r) \/ LastPushFails(r)
  \/ Rebase(r) \/ FetchFails(r) \/ Readback(r) \/ SecondPush(r) \/ Finish(r)

-----------------------------------------------------------------------------
(* A property of the repository *)

\* latest/* is one occurrence: what the publisher's comment says of it, that it
\* never retains native transport of an older occurrence.  No run checks it: a
\* Rebase that keeps the manifest another occurrence has just added breaks it
\* until the next report is published, and the Readback of that run fails.
LatestIsCoherent ==
  latest["latest manifest"] # None => latest["latest manifest"].body = latest["latest digest"]
=============================================================================
