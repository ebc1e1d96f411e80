# Specifications of the FPL engine's control core

The repository is a scheduled data and report service that runs entirely in
GitHub Actions: an external ChatGPT task edits an issue title every hour, a
workflow acquires and publishes a data snapshot, other workflows turn it into
reports and deliver them to a private repository. Almost all of its Python code
is sequential arithmetic and rendering. What can go wrong in a way no unit test
sees is where independent workflow runs meet: on Git branches, on one rotating
credential, on concurrency groups, and with pushes or requests whose outcome
the client never learns. These modules specify those places.

Paths below are relative to the repository root.

## Components

| Component | State it keeps | Operations | Status |
|---|---|---|---|
| OIDC credential rotation: `runtime_v6/domains/acquisition/rotating_oidc.py`, `git_oidc_store.py`, `report_plane/oidc_hourly_renewal.py` | one encrypted credential file on `main` of the private repository | `get_access_token`, `check_hourly`, `enroll_once`, `load`, `compare_and_swap` | modelled: `CredentialRotation`, `OneShotGrant` |
| V6 runtime publication: `.github/workflows/v6-natural-data-ingestion.yml`, `control_plane/runtime_control.py`, `workflow_control.py`, `observability/operational_ledger.py` | branch `runtime-data-v6`: manifest, runtime control, ledger of operational slots; the title of issue #431 | hydrate, slot guard, derive, lease, push, verify | `RuntimePublication`, `SlotLedger` (acquisition, command parsing and private jobs abstracted or left out) |
| Report runner and private publisher: `v12-integrated-report-runner.yml`, `src/engines/v12_private_publisher.py` | the runner's checkout; `reports/...` (history of a slot) and `latest/*` of the private repository | queue, check out, generate, write once, push and rebase, read back, record the readback | `PrivateReports`, for DEEP reports |
| Occurrence orchestrator: `fpl-master-occurrence-orchestrator.yml`, `v12_occurrence_terminality.py` | the run in progress, receipts on #431 | idempotency guard, dispatch and watch a report, verify, receipt, pointer step | `VerifiedServing` (prefetch reduced to its outcome); the waiting run in `OccurrenceDelivery` |
| Verified pointer: `ops/verified_pointer.py`, `verify_occurrence` of `ops/audit_due_occurrences.py` | `latest/verified.json` | `verify_occurrence`, `build_entry`, `merge_pointer`, `advance` | `VerifiedServing`, `AnnouncedReports`, for one mode |
| Occurrence triggering: `fpl-github-clock.yml`, `fpl-external-clock-fallback.yml`, `ops/*.py` | GitHub's lists of runs, comments on #431 | resolve the due slot, look for an existing run, dispatch, plan and dispatch recoveries, audit | `OccurrenceDelivery`, `OccurrenceOnce`, for the current DEEP and PRICE occurrence |
| Watchdog and recovery: `control_plane/scheduler_watchdog.py`, `scheduler_recovery.py`, `v6-scheduler-watchdog.yml`, `v6-core-recovery-guard.yml` | the incident issue; reads the published control and the list of runs | classify, keep the incident, decide, dispatch `manual_recovery` | modelled: `CoreRecovery` |
| Personal snapshot: job `orchestration-fulfillment` | `personal/current_team.json` and its snapshots | read the team, commit, fetch, compare `generated_at`, rebase, push | modelled: `PersonalSnapshot`, `DatedRecord` |
| Report recovery and delivery: `report_plane/report_*.py`, `engines/v12_delivery_*.py` | none of their own: plans, proofs and receipts are computed from arguments | plan a retry, build and validate proofs | not modelled: no workflow of `main` calls the planners; what the runner takes from them is part of `Publish` in `PrivateReports` |
| Acquisition: `acquisition/collector.py`, `polling.py`, `fotmob_backfill.py`, `adapters.py`, `http_client.py` | the file of a source in the published snapshot: archived details, requests reserved today, slot of the last poll | decide, skip and carry, fetch with retries, merge the last good, backfill | `MatchArchive`, for the FotMob source; the other sources, which are fetched and replaced whole or archived in the same form, normalisation and the identity bridges are left out |
| Analytics, optimisers, rendering | none that is shared | pure computation over reals and text | not modelled |
| `runtime_v3` | none that a workflow of `main` drives | - | not modelled |

How they interact: a title edit, comment or dispatch starts an ingestion run;
the run publishes to `runtime-data-v6`; its hourly maintenance job and the report
prefetch renew the credential; the fallback workflow dispatches an ingestion run
and then the orchestrator; the orchestrator prefetches (an ingestion run of kind
`report_prefetch`), runs the report, verifies what the publisher wrote, comments
a receipt and advances the verified pointer; the watchdog reads the published
control, and the recovery guard may dispatch a recovery, again an ingestion run;
the private job of an ingestion run pushes the owner's team to the repository the
credential and the reports are in.

What makes each correct, and what is hard about it, is listed per hazard in
`PROJECT.json`. In short:

* **Credential**: a refresh token may be used once. Runs race for it, may die
  between claiming it, sending it and storing the replacement, and Git may
  report failure for a push that landed. A replay locks the account out; a lost
  replacement needs the owner.
* **Publication**: the ledger must only tell facts, the proof of a slot belongs
  to the first run, progress never goes back; runs of different triggers overlap.
* **Pointer and publisher**: the pointer never goes back and only names what was
  verified, though reports are published, verified and pointed to by runs that
  share nothing but a branch read one file at a time.
* **Occurrences**: each due report is reported READY once, by whichever of clock,
  external scheduler, recovery or owner triggers it, and none is dropped silently.
* **Snapshot**: the team on the branch never goes back in time, and what a job says
  it has published stays, although the files of two jobs are merged hunk by hunk.
* **Archive**: match details are collected over many runs within a daily quota, though a
  run knows of the earlier ones only what the snapshot it hydrated says.
* **Recovery**: a recovery is decided on only when the core is critical and idle,
  and not again within the cooldown, from two lists read one after the other.

## CredentialRotation

`cred` is the credential in the commit at the tip of `main`, `head` the number of
that commit. A process is one call in one run: `Prefetch` calls
`get_access_token()` (90 s window), `Hourly` calls `check_hourly` (15 min window,
then `get_access_token`), `Owners` call `enroll_once`. Every load, fetch, push,
POST and readback is an action; the code between two of them belongs to the
first. `pc` is the position; `val`, `rev`, `att` are `value`, `revision` and the
loop counter of `compare_and_swap`.

| Actions | Code |
|---|---|
| `HourlyLoad`, `HourlyReadback` | `check_hourly` before and after `get_access_token` |
| `InitialLoad`, `LeasedLoad`, `ConfirmMarker`, `GrantAnswered`, `GrantFailed`, `ConfirmRenewal` | `get_access_token`; `CASLease.acquire` locks nothing, so nothing separates two callers |
| `CasFetch`, `PushLands`, `PushRefused`, `PushDelayed` | one iteration of `compare_and_swap`: fetch and compare, then the push's fate |
| `EnrollLoad`, `ConfirmEnrollment` | `enroll_once` |
| `GitBlocked` | a Git command before the push raises `RotationBlocked` |
| `DelayedPushLands`, `Crash`, `OtherPublish`, `Expire` | environment: a late push, a dead runner, publishers of other files, time |

Assumed of the environment: the provider honours a refresh token once and issues
a fresh pair; a new login gives a token never seen; transaction ids
(`secrets.token_hex(16)`) are unique; a push that is not a fast-forward of the tip
is refused (the code never forces); the store starts empty or enrolled.

Properties:

* `GrantAtMostOnce`: no refresh token is POSTed twice, under every interleaving,
  crash, delayed push and re-enrollment.
* `ReturnedIsDurable`: an access token handed out, or an enrollment reported,
  has been in a commit.
* `CredentialLineage` (action property): the file changes only by claim,
  replacement of the claimed token, or login, one version at a time.
* `MarkerBeforeGrant` (proved, so no run checks it): a POST is preceded by a commit
  claiming the token.
* `LostOnlyToContention`: with a reliable Git a replacement is lost only to an
  enrollment or to as many foreign pushes as there are attempts.
* `CallsEnd` (liveness): every call that has begun ends.
* `ImplementsOneShot` (refinement): through the mapping at the end of the module
  the whole protocol implements `OneShotGrant`: a holder of one token that is
  claimed, used and replaced, or replaced by a login.

Runs: `faults` has one call of each kind, Git faults and crashes; it is where the
replay would appear, and is also checked against `OneShotGrant`.
It is `FairSpec`, so `CallsEnd` is checked in the same instance.
`contention` has no faults, the code's four attempts and four foreign pushes: five
pushes would add no case, since a call gives up after four.
Three callers are enough for a claimant, a competitor and an owner between
them; the proofs below remove the bound.

Fairness: each Git command and the POST have a timeout, so a call that has begun
takes its next step (weak fairness of `Call` per process); nothing forces a run to
begin, a push to succeed, time to pass or a delayed push to land.

## RuntimePublication

A run is a run of the ingestion workflow: `Proofs` are title edits
(`chatgpt_scheduler`), `Masters` dispatches of kind `master_orchestrated`,
`Others` prefetches and manual recoveries, dispatched or by comment. `branch` is
the published snapshot reduced to what the ledger and the control say: the last
proof (`chat`), the last operational slot (`oper`), the rows, the auxiliary rows
and the duplicate attempts. `work` is `data/v6` on the runner, `lease` is
`RUNTIME_BASE_SHA`.

| Actions | Code |
|---|---|
| `EditTitle`, `Dispatch`, `Start`, `Comment` | the triggers and the `concurrency` block: a group per slot for dispatches with one pending run that a newer one replaces, none for edits and comments |
| `Hydrate` | hydrate step and `slot-guard` (same job; the snapshot does not change between them) |
| `Collect` | `apply_runtime_control` and `build_operational_slots` on the hydrated tree |
| `FetchLease`, `PushLands`, `PushRefused` | one attempt of the publish loop |
| `Verify`, `Abort` | the provenance check; any failing step, timeout or cancellation |

`SingleWriter` says whether something outside the code keeps runs from
overlapping between hydration and the end of publication. The code does not: it
is an assumption of the `single` run, false in the others.

Properties of every published snapshot, whatever overlaps (`concurrent`):
`ControlMatchesLedger` (two functions computing from two files agree),
`OwnersAreProofs`, and `RunsEnd` (liveness: every triggered run ends, including one
waiting for its group). With non-overlapping runs (`single`), and pushes that fail before
or after taking effect: `MissingIsFactual` and `ImplementsLedger`. Proved, so no run checks
them: `MissingIsRetrospective` and `DuplicatesAreSkipped` (the guard leaves the ledger's
duplicate branch unreachable) for overlapping runs, `ProofNeverRegresses` and `NothingLost`
(first writer wins, within the window) for runs kept apart.

`ImplementsLedger` is the refinement of `SlotLedger`: a log in which a proof is entered
once, beyond the last one, the slots it steps over become gaps, the window drops the oldest
rows and no other row changes. Its `last`, `operational` and `row` are the `chat`, `oper`
and `rows` of the published snapshot, so the log says of each single publication what
hydration, `_densify`, the trim, the lease and the loop of attempts together amount to.

**Finding** (`stale`): with overlapping runs `MissingIsFactual` is violated. The
candidate is derived from the snapshot hydrated at the start of the run, but the
lease is refreshed to the current tip right before each push, so the
compare-and-swap does not protect what the candidate was derived from. A proof
published in between is overwritten; once a later slot is proved, `_densify`
files a MISSING row for it with the reason
`NO_CHATGPT_MASTER_SCHEDULER_PROOF_BEFORE_LATER_SLOT`, in a ledger whose manifest
says `operational_slot_ledger_is_factual_only`. The shortest behaviour has three
proofs; a prefetch (minutes long, requested around the half hour) overlapping the
hourly proof does the same.

Bounds: three slots are the smallest number with a gap between two rows; window 2
makes the trim bite. `Faults` is separate from `SingleWriter` so that neither
masks the other; two attempts contain a failed and a repeated push (the code has
three, and nothing depends on the number but when the run gives up). The
`concurrent` run has no `Others`: with respect to the ledger they are dispatches
that write no row; `single` and `stale` contain them.

Fairness: jobs have `timeout-minutes`, so a triggered run takes its next step
(`Step`, weak fairness per run); `Abort` is not fair and triggers are not forced.

## PrivateReports and VerifiedServing

`PrivateReports` is the repository of reports and the runs that publish to it;
`VerifiedServing` extends it with the orchestrator and the pointer. The content of
a file is the run that wrote it, because the hashes, ids and times in the files
tell no less and the checks compare nothing else. `hist[s]` is the history
directory of slot `s`, `latest` is `latest/*`, `rev` the number of commits. For
each run, `mine` is what its commit holds, `base` the same files in the parent it
was made on, `parent` the number of that parent. A report is what it claims
(`READY_FULL`, `READY_DEGRADED`), whether the terminality checks would confirm it
(`sound`), and whether it has native content and with it a manifest.

`orch` is the orchestrator run in progress (its concurrency group lets one run at
a time), `orch.got` the files it has read in the current phase, `ptr` the pointer
entry of mode DEEP, `wire` the PUTs whose client has given up.

| Actions | Code |
|---|---|
| `Trigger`, `Start` | dispatch or comment and the `concurrency` block: a group per slot for dispatches, one for all comments; one pending run, which a newer one replaces |
| `Checkout`, `Publish` | the sparse checkout, then `publish_private_output` on it: write-once rule, `latest/*`, manifest written or removed |
| `PushLands`, `PushFails`, `LastPushFails`, `Rebase`, `FetchFails` | one attempt of the push loop: push, then fetch and `rebase --strategy-option=theirs` file by file |
| `Readback`, `SecondPush`, `Finish` | `ls-remote` and the checks on the commit read back; the commit that records it, pushed once; the last `ls-remote` |
| `Tick`, `Guard`, `DispatchReport`, `Watch` | an orchestrator run up to the end of its report |
| `Verify`, `PostReceipt` | seven reads, one action each, then `classify_occurrence`; the comment |
| `Audit`, `BuildEntry` | `verify_occurrence` and `build_entry`, again one action per read, from the tip of `main` |
| `GetPointer`, `PutLands`, `PutConflict` | one attempt of `advance`: read and merge, then the conditional PUT |
| `PutLost`, `LatePut`, `StepFails`, `OrchDies`, `Fail`, `OtherPush` | lost answers, failed steps, dead runners, publishers of other files |

Properties:

* `PointerAdvances` (action property): the pointer moves to a later slot only,
  counts its moves and names what it supersedes, with PUTs repeated, lost or late.
* `PointerMatchesReceipt`: the pointer's terminality is the one in the receipt of
  its run, though receipt and entry come from different reads.
* `PointedIsVerified`: the body named belongs to the slot and stands up to the
  terminality stated.
* `PointedWasReadBack`: its remote readback was recorded, as the entry says.
* `PointerResolves` (proved, so no run checks it): the body at the path named is the one
  whose hash is named.
* `ImplementsOutlet` (refinement): the whole implements `AnnouncedReports`: a report may be
  written and rewritten until it is announced READY; that happens once, with the status
  its own digest claims; then its directory stays as it is, and the pointer moves forward
  from announced report to announced report and carries the body found there. In it
  nothing is read, nothing is verified and nothing is late. `filed` is `hist` with the
  claim of the body that is in it, `announced` the READY receipts.
* `ReceiptIsFactual`: a READY receipt names a terminality that some report of its
  slot stands up to, and that report was read back.
* `ReceiptIsServed` (liveness): without failures a READY receipt is followed by a
  pointer to its slot or a later one.

Which of them hold depends on who starts runs, so the constants name the cases:
`Faults` (steps, pushes and calls may fail), `Reruns` (a slot may be run more than
once), `Comments` (the owner starts reports by comment, outside the dispatch
group), `Forced` (the owner ticks with `force=true`, which skips the guard).

| Run | Constants | Shows |
|---|---|---|
| `serving` | `Faults`, `Reruns` | with reports orphaned by a dead orchestrator and retried, and PUTs refused, lost or late, guard and concurrency groups make of all this one outlet (`ImplementsOutlet`): a report announced once, left in place from then on, the pointer equal to its receipt and moving forward |
| `serving_concurrent` | `Comments`, a foreign push | reports of another slot are published between any two reads of a verification: the pointer still names a verified, read-back body |
| `serving_live` | a foreign push, `FairSpec` | `ReceiptIsServed` |

`PointerAdvances` also holds under forced ticks and comments: it is proved for
every value of the constants.

**Disagreements** of code and documentation that other instances show, by a violation
of the property named (they have no run in `PROJECT.json`):

1. `PointerResolves`, with `Reruns`, `Forced`, one slot and two compare-and-swap
   attempts: the runner checks out `personal` and `latest` only (line 156), so the
   history directory of a slot that has a report is never on disk, and
   `_safe_write_exact` cannot see the "idempotency collision" it is there to refuse. A
   forced rerun replaces the body `verified.json` names; `merge_pointer` refuses the
   new one (`REFUSED_IMMUTABLE_CONFLICT`), so the pointer stays on a hash nothing has.
   `README.md:16` calls the path immutable.
2. `PointedIsVerified`, with `Reruns`, `Comments`, one slot and one attempt:
   `build_entry` (`verified_pointer.py:166`) keeps the terminality `verify_occurrence`
   computed and reads digest, body and `latest/*` again; nothing ties the two sets of
   reads. A run of the same slot started by comment may publish in between, and an
   entry exists for what was never verified, against lines 6-8 of that file.
3. `PointedWasReadBack` in the same instance: `remote_readback` of an entry is the
   literal `PASS`. Only a manifest is checked for its readback; a body without native
   content that was pushed and not yet read back is accepted.
4. `LatestIsCoherent` (at the end of `PrivateReports`) in the instance of
   `serving_concurrent`: a report without native content has nothing to remove when
   it checks out before another occurrence publishes a manifest; its rebase keeps
   that manifest beside its own digest. The readback notices, after the push.

Assumed and abstracted: the planning week of a slot does not change, so a slot has
one history directory; all dispatches are of one commit, so the group of a slot
is one group; a text file merged of two versions is `Mixed`, which no hash names;
the prefetch only succeeds or fails; the QA and presentation gates pass for
whatever the readback accepted; the manifest in the history directory, `origin`
labels, PRICE and MATCH reports and the P(start) receipts are
left out. A waiting orchestrator run is `OccurrenceDelivery`'s: here a tick happens
when the group is free.

Bounds: two slots are what it takes for `latest/*` to move on to another
occurrence; two report runs for a run and its competitor, or a report and its
rerun; two orchestrator runs for a failed one and its retry, or for two PUTs that
meet. Two push attempts contain a refused push, a rebase and a push that gives up
(the code has three); two compare-and-swap attempts a conflict and a second merge.

Fairness: every job has `timeout-minutes` and every call of the pointer a timeout,
so the orchestrator run (`OrchStep`) and each queued report run (`RunStep`) go on;
`Fail`, triggers, late PUTs and foreign pushes are not forced.

## OccurrenceDelivery

Who triggers an occurrence. `clock[c]` is a run of the clock workflow with the
fallback run its tick job dispatches (`tick`) and its audit and recovery jobs
(`audit`, `cand` the occurrences they would recover); `run` is the list of
orchestrator runs GitHub shows, in the order of their creation, with their place in
the orchestrator's concurrency group; `receipts`, `report` and `latest` are what an
orchestrator run leaves. How a report is produced and verified is `VerifiedServing`'s:
here it is published `good` or `bad` and answered READY or FAILED.

| Actions | Code |
|---|---|
| `CreateClock`, `CommentTick`, `OtherComment` | a scheduled, manual or external run of the clock; the owner's tick; any other comment, whose orchestrator run has no job but takes the waiting place |
| `TickJob` | `resolve_tick`, the gate of external ticks, the fallback dispatched into the group of its logical slot |
| `CheckExisting`, `DispatchFallback`, `FallbackFails` | the fallback after the core refresh: list the runs, then dispatch |
| `NewRun`, `EndRun` | the concurrency group: one run, one waiting run that a newer one replaces |
| `Guard`, `Publish`, `ReportFails`, `PostReceipt`, `Die` | the orchestrator run |
| `AuditEvidence`, `AuditRuns` | `audit`: first the private repository, then runs and clock ticks; plan and `select` |
| `RecoveryList`, `RecoveryDispatch`, `RecoveryFails` | the recovery job: its two looks at the runs, the announcement, the dispatch |

Properties:

* `OneReadyReceipt`: no two runs report an occurrence READY, however many of them are
  dispatched (fallbacks of two hours are in two groups and check before they act).
* `RecoveredOnce`: an occurrence is recovered once, whatever became of the run.
* `RecoveryFillsAGap`: no scheduled tick falls, or will still fall, into the window of
  an occurrence that is recovered.
* `ImplementsOnce` (refinement): the whole implements `OccurrenceOnce`, in which nothing
  is published or posted for an occurrence after it was answered READY.
* `TickIsServed` (liveness): a fallback of an occurrence is followed by the end of all
  its runs, with a READY answer unless some run failed or was replaced.

**Disagreement** without a run of its own: `ExternalNeverRetries` is violated in this
instance. The external clock's documentation
(`docs/v12/EXTERNAL_CLOCK_ARCHITECTURE_20261025.md:29`) excludes an automatic retry after
a failed or cancelled attempt. The gate knows that rule, but it
decides before the fallback waits for its group and for the core; the check of the
fallback knows only queued, in-progress and successful runs. An attempt that appears
and fails in between is retried.

Other disagreements: the same line counts on "the orchestrator group (no cancel)",
but `cancel-in-progress: false` only protects the run in progress: a third run, or a
comment, replaces the waiting one (the workflow says so at lines 301-303). The comment
at `recovery_dispatch.py:104` says the scheduled path cannot select an overdue slot; a
fallback of that slot may still be waiting. An audit that reads the private repository
before a run publishes and the list of runs after it ended calls the occurrence MISSING;
the looks of the recovery at the runs, and the guard, make that harmless.
READY_REUSED is said of a publication whose verification failed (line 253).

Time is in half hours, DEEP due at 0, PRICE an hour later; windows and grace are rounded
to that unit with their order kept, and the five minutes before the due time in which
a tick resolves too are left out. There is one current occurrence per mode; MATCH and owner-controlled
occurrences, `force=true` and reports that outlive their orchestrator are left out
(the last two are in `VerifiedServing`). Comments of workflows trigger nothing, since
they use `GITHUB_TOKEN`. Two triggers, whose clock runs both have an audit, and a stray
comment give up to five orchestrator runs: what it takes for one to run, one to wait
and one to replace it.

Fairness: jobs have timeouts, so fallbacks, audits, recoveries and the orchestrator run
in progress go on; no trigger and no passing of time is forced.

## PersonalSnapshot

`main` is the tip of the private repository: `generated_at` (`gen`) and the squad of
`personal/current_team.json`, the squads in `personal/snapshots`, and the commits.
`current_team.json` is indented with sorted keys, so Git merges it hunk by hunk: `gen`
and `squad` are two hunks. `last` is a history variable, the last time a squad was the
official one.

| Actions | Code |
|---|---|
| `Checkout`, `Stamp`, `ReadTeam`, `RefreshFails` | checkout; the prefetch takes `generated_at` when it starts and reads the team later; nothing is written without authentication |
| `Commit` | split into the private files, `git add`, `git commit` |
| `FetchAndRebase` | fetch, comparison with the remote `generated_at`, `rebase --strategy-option=theirs` |
| `Push`, `PushFails` | one push, whose answer may be lost; the loop of attempts |
| `Edit`, `Elapse`, `OtherPush`, `Die` | the owner's changes, time, other publishers, dead jobs |

Properties: `NeverBackdated` (the published `generated_at` never decreases; proved, so no
run checks it), `PassIsServed` (a job that says PASS, or STALE_LOCAL_BLOCKED, finds a snapshot at least
as new on the branch, and its own stays in `personal/snapshots`), `SnapshotsAreAsOf` (a
squad in `personal/snapshots` was the official one at the time in the file's name or
later), `CommitIsServed` (liveness), and `ImplementsRecord`, the refinement of
`DatedRecord`: each change of the branch enters one squad at one time, no earlier than the
latest entry, true at that time or later, and leaves every other entry as it was. There
`latest` is `gen` and `record` is `personal/snapshots`: a file merged of two jobs' trees
must be no mixture of them.

**Disagreement** without a run of its own: `SquadIsAsOf`, the same of `current_team.json`,
is violated in this instance. A job whose commit leaves the squad as it was checked out
rebases onto a commit with another squad, and publishes its own `generated_at` beside that
squad: the file is put together from two snapshots. This takes an owner who returns to an
earlier squad while two jobs overlap, or three overlapping jobs. The file in
`personal/snapshots` of that time, and the `current_team_sha256` of the receipt
(`private_boundary.py:203`), then disagree with `current_team.json`, against the comment at
lines 900-902 of the workflow ("Preserve newer remote evidence rather than
backdating/stomping it").

Two jobs, a foreign push and two attempts contain a refused push, a rebase, and a push
that landed unseen; the proofs below remove the bound. The reports the
same job may write, and the writer of acceptance runs on branches other than `main`
(`v12-integrated-report-runner.yml`, which has no order check), are left out.
Fairness: the job has a timeout, so once begun it goes on.

## CoreRecovery

`control` is the published runtime control as the watchdog reads it: the kind of the last
publication and its `expected_cycle_at`. `run` is GitHub's list of ingestion runs; how
they publish is `RuntimePublication`'s, here one `Finish`es with or without a
publication. `guard` is the recovery guard, `monitor` the watchdog, `incident` its issue.

| Actions | Code |
|---|---|
| `Trigger`, `Finish`, `Elapse` | ingestion runs of every trigger, those without a job included |
| `MonitorReads`, `MonitorWrites` | the watchdog: read and classify; open, update or close the incident. A new run cancels the one in progress |
| `StartGuard`, `ReadControl`, `Decide`, `Dispatch`, `GuardFails` | the guard: classify the control, then list the newest 20 runs and decide, then dispatch |

Properties: `RecoveriesAreSpaced` (no two recoveries within the cooldown, however often
the guard is started), `RecoveryIsNeeded` (action property: when a recovery is decided on
the core is still CRITICAL and no run is active, although the control was read before the
runs were), `HealthyIsProven` (HEALTHY only with a finished title-edit run of a slot
within the threshold; proved, so no run checks it), `IncidentFollows` (liveness: the incident infinitely often agrees
with the state).

`RecoveryIsNeeded` rests on a relation of the code's timeouts: a run is over (collect 15
minutes, publish 5) within the settle window (20). With `RunTime` beyond `Settle`, as when
runs wait for a runner, TLC finds a recovery decided on right after a proof was published,
against `docs/V6_WAVE2_SAFE_RECOVERY_CONTINUITY.md:19-24` ("only when all of these are
true"). `RecoveriesAreSpaced` rests on the page: comments on any issue create ingestion
runs, and twenty of them within a cooldown hide the last recovery from the guard. A run
that starts between `Decide` and `Dispatch` still overlaps the recovery; the publish loop
of `RuntimePublication` is what meets it.

Other disagreements: `docs/V6_WAVE1_CONTROL_PLANE_RELIABILITY.md:15-21` classifies by the
age of the scheduler's proof, but after any prefetch, master or manual publication the
state is CRITICAL, however fresh `last_chatgpt_scheduler_cycle_at` is; the WAVE2 document
gives the guard a cron, the workflow is dispatched by hand only.

Three runs are a proof, a recovery and another. Of the windows (90, 135, 20 and 60
minutes) the run keeps `RunTime < Settle < Cooldown` and `Warning < Critical`; warning and
critical are short against settle and cooldown so that a proof goes stale within the
bound, and no condition of the code compares the two pairs. Fairness: the watchdog has an
hourly schedule and ends in minutes; nothing else is forced.

## MatchArchive

`branch` is the file of the FotMob source in `runtime-data-v6`: `archive` the matches
whose details it holds, `league` the finished matches its last good league lists, `used`
the requests reserved on the day of its last poll and `today` whether that day is
today's, `polled` and `chat` how many slots ago the source was polled and the last proof
was for. `work` is that file on each runner, `todo` the details a run has scheduled and
not yet asked for, `sent` what it has sent. Time is counted in slots relative to now, so
behaviours are infinite and a day begins every `Hours` slots. `spent` is a history
variable: the requests that published runs sent on today's account.

| Actions | Code |
|---|---|
| `Tick`, `Finish` | a slot goes by, with it perhaps the WIB day; the league page lists one more finished match |
| `Trigger`, `Hydrate` | title edits (`Hourly`), prefetches and manual recoveries (`Forced`); the last-good snapshot and the slot guard |
| `Skip`, `Poll` | `poll_decision`, then `carry_forward_skipped`, or the league (fetched, or the last good one of `_merge_last_good`) and the first part of `collect_fotmob`: retained details, missing matches in order, reservation |
| `Fetch` | `fetch_detail` of one scheduled match: API, then the public page, each with its retries |
| `Publish`, `Lose` | the candidate lands; a step fails, a job times out, every push fails |

A poll knows from the hydrated file only what was asked for before. The counter is
therefore charged ahead with the most a match can cost (`PerMatch`), and not with what
was sent. Properties (run `archive`): `QuotaKept` (what published runs sent on a day's
account is within its budget, with polls that straddle midnight and are published by
another run than the one that follows), `ArchiveKept` (action property: details once
published stay), `MatchesArchived` (liveness: every match that ends and whose details
exist is archived, with one dead match ahead of it in the order).

`SingleWriter` is the assumption of `RuntimePublication`: that one run at a time is
between hydration and publication, which the code does not ensure.

**Disagreements** without a run of their own, each found by changing a constant:

* With `SingleWriter = FALSE` both `QuotaKept` and `ArchiveKept` are violated. Two
  overlapping runs hydrate the same counter and each reserves from it; the one that lands
  later puts its own count and its own archive in the place of the other's.
  `docs/V6_ADAPTIVE_INGESTION_POLICY.md:62` relies on the snapshot to carry "the budget
  counter across ephemeral runners", and
  `docs/audits/P0_COACH_FORMATION_ROLE_EVIDENCE_20261015.md:134-135` calls the responses
  "immutable in the V6 source-native snapshot".
* Requests of a run that is not published are charged to nobody. `spent` counts published
  runs only; of all requests together the budget bounds nothing.
* With as many dead matches as a day's first poll may ask for (`Dead = {1, 2}`)
  `MatchesArchived` is violated without its hypothesis: `missing[:slots]` asks for the
  same matches at every poll, and no other is ever asked for.

Assumed of the provider: a league that was fetched lists every match that an earlier one
listed (one that omits a match would drop its details). Left out: the league's own
request and redirects, which the counter does not include; an exception out of
`collect_fotmob` itself, which `collector.run` would turn into a file without archive and
counter; runs of kind `master_orchestrated`, which differ from `Hourly` in the proof the
slot guard looks at; intervals that change in the deadline window; and
`daily_request_budget` of a whole source, which no source of
`config/v6/source_registry.json` sets.

Bounds: three matches are a dead one, one archived with it and one left over; a budget of
two matches a day with a cap of two makes a forced poll on the same day find the budget
used up; `Interval` 2 makes the second hourly run of an interval skip; a run may be a slot
late, so a poll's slot, its day and its publication differ. The code has a budget of 80, a
cap of 8 and two attempts; the proofs remove the bounds of the safety properties.
Fairness: slots go by, the scheduler keeps asking, and a job takes its next step before it
times out (`Tick` waits for a run that is `Late`). Finishing, forced runs and faults are
not forced; `MaxFaults` bounds the failures, since a match that fails forever is a dead one.

## Proofs

`CredentialRotationProofs` proves for every number of callers, tokens and
attempts, from the two assumptions of the module on its constants:
`TypeCorrect`, `NoReplay`, `MarkedGrants`, `DurableReturns`, `LineageKept`, `Refinement`
and `LostToContention`.

The invariant is `IInv`. `GrantAtMostOnce` alone is not inductive: a process about
to POST must be the only one that can, for its token. The strengthening says that
a token's claim is settled by commits, not by processes: `claimant` is the process
whose IN_FLIGHT commit landed and never changes once set; a process past its
confirmed marker is that claimant and has not yet posted; a proposal that can
still land (in `push` at the tip, or on the wire) is one version above the stored
credential, and claims a token nobody has claimed or carries a token not stored
before. Each action is one step of the proof; the cases that matter are
`PushLands`, `DelayedPushLands` and `ConfirmMarker`. `DurableReturns` has an
invariant of its own, `DurableInv`: every access token in a proposal is durable or
comes with the refresh token of the same grant, and a renewal reaches its
confirmation only after it was a commit. `LostToContention` counts: every commit is a
version of the credential or a foreign push (`TipOK`), and as long as nothing has overtaken
a renewal that is not durable yet, each push attempt it has used was paid for by a foreign
push (`PaidInv`). A refused push means that the tip had moved; it was not the credential
that moved it, or the renewal would have been overtaken. So all attempts are used up after
as many foreign pushes.

`RuntimePublicationProofs` proves for every set of runs and any number of slots,
window and attempts, from the assumptions on the constants:

* however the runs overlap: `TypeCorrect`, `ControlAndLedgerAgree`,
  `MissingBelowProof`, `OwnersProved`, `NoDuplicateRecorded`. The argument is that a
  snapshot is sound on its own (`SnapOK`: newest row, no gap, newest operational
  slot), that a candidate derived behind the slot guard from a sound snapshot is
  sound (`CandidateSound`, from `DensifyTrim` and `AuxiliaryKept`), and that a branch
  only ever holds candidates so derived; no order of pushes matters.
* assuming `SingleWriter`: `SingleNothingLost`, `SingleFactual`, `SingleAdvances`. The
  invariant `SingleInv` adds that only one run is in flight, that its `work` is what
  is published or the candidate of exactly that (`DerivedOK`), and that the ledger
  has the first proof of every slot the window keeps (`LedgerOK`). The `stale` run
  shows that `DerivedOK` is what overlapping runs break, so the assumption cannot
  be dropped.
* assuming the same, `OneLedger`, the refinement of `SlotLedger`. From `SingleInv` what
  lands is derived from exactly what it replaces; `CandidateRows` computes the rows of a
  candidate slot by slot, `TrimmedHolds` shows that what the window leaves behind was
  empty or is dropped, and `LandedEnters` that the two together are one entry of the log.
  A push repeated after it landed unseen is a stutter.

`VerifiedServingProofs` proves, for any number of report runs, orchestrator runs,
slots and attempts and any set of faults, `PointerAlwaysAdvances`, from
`BoundsAssumption`, `ServingAssumption` and `PointerAssumption`. `PointerAdvances` is
about what a PUT replaces, and a PUT was computed earlier, from a pointer that may
be gone. The invariant `IInv` therefore speaks of the pointer a PUT was merged
with: an entry about to be PUT supersedes the one read (`PutOK`), and what a late
PUT would write advances the one it was merged with (`WireOK`). That the PUT only
takes effect when the pointer is that one does the rest. What is verified, and
what other runs publish meanwhile, does not matter to it.

The rest of `VerifiedServing` does depend on that, and rests on what
`PrivateReportsProofs` proves of the repository, from `ContentAssumption` (a run, a
manifest and the mark of a torn body are different things): the history files of a slot
are only written by runs of that slot which have generated their report (`Authors`,
`Trees`), and a report once generated does not change. Reads are file by file, so what a
verification has read may be of several moments; three invariants say how much of it can
be relied on, each under the hypothesis it needs, the one `serving` or
`serving_concurrent` sets:

* `BaseInv`, always: `TypeCorrect`. What has been read came from the files of the slot.
* `FactInv`, assuming `~Reruns`: `PointerIsVerified`, `PointerWasReadBack` and
  `ReceiptFactual`. A slot has one author, so whatever was read file by file, and at
  whatever times, names that one report. With reruns two of
  the three are false (disagreements 2 and 3 above), so the hypothesis cannot be dropped.
* `AgreedInv`, assuming `~Comments`: `PointerAgrees`. Between the verification that gives
  the receipt and that for the pointer no file of the slot changes: the orchestrator's
  group keeps the next run of the slot out, and the watch waits for its own report run to
  end. A report started by comment is in neither.
* `StayInv`, assuming also `~Forced`: `PointerStaysResolved`. A slot with a READY receipt
  is quiet for good: the guard ends every later unforced tick of it before it dispatches.
* `StayInv` and `UnsaidInv`, under the same hypotheses: `OneOutlet`, the refinement of
  `AnnouncedReports`. `UnsaidInv` is what `StayInv` leaves open: from the guard to the
  receipt nobody has said READY of the run's slot, and when the run is about to, the
  digest it verified is of the body that is there (`VerifyBinds`). A READY receipt is
  therefore the first of its slot and states the claim on file; from then on what is filed
  does not change (`FiledStays`), so an entry built from it in several reads, and PUT at
  whatever time, is that of the report announced (`OutletSteps`).

`OccurrenceDeliveryProofs` proves for any occurrences and due times and any number of
triggers and comments, from `DeliveryAssumption`: `TypeCorrect`, `OneAnswer`,
`Refinement`, `OneRecoveryRun` and `RecoveredWasMissed`. Two invariants carry them.
`GroupInv`: the orchestrator's group has one run in progress and one waiting (`Group`);
so what the guard saw of an occurrence stays true until its own run posts (`Fresh`), and
READY was said only of something published (`Reported`). The refinement follows from it
step by step. `RecoveryInv`: one recovery job is in progress and one waits; the occurrence
it carries is out of every tick's window and untouched (`Missed`), which time and other
runs cannot undo, and once it is about to dispatch no recovery of it exists (`Sound`).
`ResolverHi < Grace` is the relation of the code's constants (`RESOLVER_WINDOW_MINUTES`
and `PIPELINE_GRACE`) `RecoveredWasMissed` needs. That due times differ makes the choice
of the resolver and of the plan unique.

`PersonalSnapshotProofs` proves for any jobs, attempts, foreign pushes, squads and any
time, from `SnapshotAssumption`: `TypeCorrect`, `SnapshotNeverBackdated`, `PassServed`
and `SnapshotsTruthful`. The order check alone carries none of them, since the branch may
move between the comparison and the push. `OrderInv` says what each job has in hand: its
checkout is an ancestor of the branch and its head keeps what the checkout has (`Based`);
from its commit on the head has its snapshot or a newer one (`Kept`); a push that is a
fast-forward adds one commit to exactly the tree the head was rebased on, or nothing
(`Pushable`); what landed stays served (`Served`). Each step either leaves the branch
alone or `Advances` it, and `Unmoved` says that advancing harms no other job. `AsOfInv`
is separate: the two trees a rebase picks a file of `personal/snapshots` from are both as
of their times, and a team read after its stamp was official at the stamp or later. That
does not extend to `current_team.json`, whose `gen` and `squad` may be picked from
different trees: `SquadIsAsOf` cannot be proved because it is false. `OneRecord`, the
refinement of `DatedRecord`, holds for the directory all the same. `EntryInv` says why: what
a job has committed differs from the branch it has in hand in the team of its own time
only. A rebase keeps it so (`RebasedEntry`), so a push that is a fast-forward of exactly that
branch enters one team (`PushEnters`), which `AsOfInv` makes a true one.

`CoreRecoveryProofs` proves for any triggers, windows and number of runs, from
`RecoveryAssumption`: `TypeCorrect` and `HealthIsProven`, from an invariant (`BaseInv`)
that ties the published control to a finished run of its slot (`Proven`) and the age of a
run to its place in the list (`Born`). `RecoveriesSpaced` and `RecoveryNeeded` assume in
addition, of the whole behaviour, `PageSuffices`: fewer than `Page` runs of the workflow
begin within a cooldown; `RecoveryNeeded` also that `RunTime < Settle` and
`Settle <= Cooldown`. These are stated as hypotheses of the theorems because nothing in
the code enforces them. Between the guard's two reads the core can only be repaired by a
run of the scheduler that ends, which began less than `RunTime` ago and is therefore seen
by the list as too recent (`StillCritical`); the spacing needs that what `Decide` saw
still holds at the dispatch (`SpacedInv`).

`MatchArchiveProofs` proves for any matches, runs, retries, intervals, caps, budgets and
length of day, from `ArchiveAssumption`: `TypeCorrect` however runs overlap, and, assuming
`SingleWriter`, `QuotaHolds` and `ArchiveSurvives`. The quota is not inductive: a run that
publishes adds all it sent at once. `Covered` says that the published counter covers what
was spent (`BranchCovers`) and that a run in flight has what is published and has reserved
what it sent plus the most its scheduled matches can still cost (`RunCovers`): `Fetch`
takes from the second what it adds to the first (`Released`), a poll starts both from the
published counter (`PollCovered`), and a new day clears all of them (`TickCovered`). The
archive stays because a poll retains what its league lists, and every league it may use
lists what is archived (`Listed`).

Model-checked only: `CallsEnd`, `RunsEnd`, `ReceiptIsServed`, `TickIsServed`,
`CommitIsServed`, `IncidentFollows` and `MatchesArchived`: liveness under fairness is out of
the prover's reach. Every invariant, action property and refinement that a passing run
checks is also a theorem.

## Plan

Done: `CredentialRotation` over `OneShotGrant`; `RuntimePublication` over `SlotLedger`;
`PrivateReports` composed into `VerifiedServing`, over `AnnouncedReports`;
`OccurrenceDelivery` over `OccurrenceOnce`; `PersonalSnapshot` over `DatedRecord`;
`CoreRecovery`; `MatchArchive`. The last two have no abstract specification of their own:
what one could say of them is what `RecoveriesAreSpaced` and `RecoveryIsNeeded`, `QuotaKept`
and `ArchiveKept` already do.

Left: MATCH occurrences, and reports that outlive their orchestrator, in
`OccurrenceDelivery`.
