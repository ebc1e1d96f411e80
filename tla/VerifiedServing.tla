---------------------------- MODULE VerifiedServing ----------------------------
(***************************************************************************)
(* The occurrence orchestrator and the verified pointer, composed with the *)
(* report runs of PrivateReports.  An orchestrator run dispatches the      *)
(* report of its slot, verifies what was published, comments a receipt on  *)
(* issue #431 and advances latest/verified.json by compare-and-swap.       *)
(*                                                                         *)
(* Sources: .github/workflows/fpl-master-occurrence-orchestrator.yml,      *)
(* ops/verified_pointer.py, verify_occurrence of                           *)
(* ops/audit_due_occurrences.py and classify_occurrence of                 *)
(* src/engines/v12_occurrence_terminality.py, for mode DEEP.               *)
(*                                                                         *)
(* Files are read one by one from the tip of main.  Orchestrator runs are  *)
(* one concurrency group, so one at a time is in progress.                 *)
(* READY_DEGRADED_PUBLIC_FIRST is a status of PRICE reports.               *)
(***************************************************************************)
EXTENDS PrivateReports, Sequences

CONSTANTS
  MaxOrch,     \* bound: orchestrator runs
  CasAttempts, \* MAX_CAS_ATTEMPTS
  Comments,    \* whether the owner starts report runs by comment
  Forced       \* whether the owner ticks with force=true

ASSUME ServingAssumption ==
  /\ MaxOrch \in Nat /\ CasAttempts \in Nat \ {0}
  /\ Comments \in BOOLEAN /\ Forced \in BOOLEAN

VARIABLES
  ptr,      \* modes.DEEP of latest/verified.json
  wire,     \* PUTs whose client has given up and that may yet land
  receipts, \* receipt comments on issue #431
  runid,    \* the number of orchestrator runs so far
  orch      \* the run in progress

serving == <<ptr, wire, receipts, runid, orch>>
vars == <<reportVars, serving>>

Publishable == {"READY_FULL", "READY_DEGRADED"}

Entry == [slot : Slots, body : Runs, claim : Publishable, run : 1..MaxOrch]
Pointer == [slot : Slots, body : Runs, claim : Publishable, run : 1..MaxOrch,
            sequence : Nat, supersedes : 0..MaxSlot]
ASSUME PointerAssumption == None \notin Pointer

Receipt == [slot : Slots, run : 1..MaxOrch,
            status : Publishable \cup {"READY_REUSED", "FAILED"}]

OrchLocations ==
  {"idle", "guard", "report", "watch", "verify", "receipt", "audit", "entry", "get", "put"}

ServingTypeOK ==
  /\ ReportTypeOK
  /\ ptr \in Pointer \cup {None}
  /\ wire \subseteq [seen : Pointer \cup {None}, new : Pointer]
  /\ receipts \subseteq Receipt
  /\ runid \in 0..MaxOrch
  /\ orch.pc \in OrchLocations
  /\ orch.slot \in 0..MaxSlot
  /\ orch.force \in BOOLEAN
  /\ orch.run \in Runs \cup {None}
  /\ orch.status \in {"READY_REUSED", "FAILED"} \cup Publishable
  /\ orch.tries \in 0..(CasAttempts - 1)
  /\ orch.seen \in Pointer \cup {None}
  /\ orch.entry \in Entry \cup {None}
  /\ DOMAIN orch.got \subseteq Files
  /\ \A f \in DOMAIN orch.got : orch.got[f] \in Content

Nothing == [f \in {} |-> None]

Idle ==
  [pc |-> "idle", slot |-> 0, force |-> FALSE, run |-> None, status |-> "FAILED",
   tries |-> 0, seen |-> None, entry |-> None, got |-> Nothing]

Init ==
  /\ ReportInit
  /\ ptr = None
  /\ wire = {}
  /\ receipts = {}
  /\ runid = 0
  /\ orch = Idle

-----------------------------------------------------------------------------
(* The orchestrator *)

\* A clock, the fallback, a recovery or the owner ticks an occurrence; the run
\* waits for the group and starts.
Tick(s, f) ==
  /\ orch.pc = "idle" /\ runid < MaxOrch
  /\ runid' = runid + 1
  /\ orch' = [Idle EXCEPT !.pc = "guard", !.slot = s, !.force = f]
  /\ UNCHANGED <<reportVars, ptr, wire, receipts>>

\* The idempotency guard: a READY receipt, or latest/delivery_status.json of the
\* occurrence (whose delivery_status is always one of the READY ones).
Reusable ==
  /\ ~orch.force
  /\ \/ \E c \in receipts : c.slot = orch.slot /\ c.status # "FAILED"
     \/ latest["latest status"] \in Runs /\ slot[latest["latest status"]] = orch.slot

Guard ==
  /\ orch.pc = "guard"
  /\ orch' = IF Reusable THEN [orch EXCEPT !.pc = "receipt", !.status = "READY_REUSED"]
                         ELSE [orch EXCEPT !.pc = "report"]
  /\ UNCHANGED <<reportVars, ptr, wire, receipts, runid>>

\* The prefetch has succeeded or may be done without; the report is dispatched.
DispatchReport(r) ==
  /\ orch.pc = "report"
  /\ Trigger(r, "dispatch", orch.slot)
  /\ orch' = [orch EXCEPT !.pc = "watch", !.run = r]
  /\ UNCHANGED <<ptr, wire, receipts, runid>>

\* Mutant: the verification does not wait for a successful end.
Watch_AnyEnd ==
  /\ orch.pc = "watch" /\ pc[orch.run] \in Ended
  /\ orch' = [orch EXCEPT !.pc = "verify"]
  /\ UNCHANGED <<reportVars, ptr, wire, receipts, runid>>

\* gh run watch --exit-status
Watch ==
  /\ orch.pc = "watch" /\ pc[orch.run] \in Ended
  /\ orch' = [orch EXCEPT !.pc = IF pc[orch.run] = "passed" THEN "verify" ELSE "receipt"]
  /\ UNCHANGED <<reportVars, ptr, wire, receipts, runid>>

VerifyReads ==
  <<"latest digest", "latest status", "receipt", "digest", "stage3", "body", "latest report">>

\* The reads of one phase, in their order.
ReadNext(reads) ==
  LET n == Cardinality(DOMAIN orch.got)
      f == reads[n + 1]
  IN  /\ n < Len(reads)
      /\ orch' = [orch EXCEPT !.got =
                    [g \in DOMAIN @ \cup {f} |-> IF g = f THEN View(orch.slot)[f] ELSE @[g]]]

AllRead(reads) == Cardinality(DOMAIN orch.got) = Len(reads)

\* Mutant: a verification that trusts what Stage3 let through.
Terminal_AnyStage3(g, v, w) ==
  /\ v \in Runs /\ w \in Runs /\ slot[v] = orch.slot /\ slot[w] = orch.slot
  /\ g["receipt"] = v /\ g["digest"] = v /\ g["body"] = v
  /\ report[w].claim = report[v].claim

\* classify_occurrence on the collected evidence: the hashes of body, receipt
\* and digest agree with the serving digest v, the status w is this occurrence's
\* and fits the digest, and Stage3 allows the claim.
Terminal(g, v, w) ==
  /\ v \in Runs /\ w \in Runs /\ slot[v] = orch.slot /\ slot[w] = orch.slot
  /\ g["receipt"] = v /\ g["digest"] = v /\ g["body"] = v
  /\ report[w].claim = report[v].claim
  /\ g["stage3"] \in Runs /\ report[g["stage3"]].sound

Classified(g) ==
  Terminal(g, g["latest digest"], g["latest status"]) /\ g["latest report"] = g["body"]

Verify ==
  /\ orch.pc = "verify"
  /\ \/ ReadNext(VerifyReads)
     \/ /\ AllRead(VerifyReads)
        /\ orch' = [orch EXCEPT !.pc = "receipt", !.got = Nothing,
                      !.status = IF Classified(orch.got)
                                 THEN report[orch.got["latest status"]].claim ELSE "FAILED"]
  /\ UNCHANGED <<reportVars, ptr, wire, receipts, runid>>

\* The receipt is commented; the pointer step follows only a verification.
PostReceipt ==
  /\ orch.pc = "receipt"
  /\ receipts' = receipts \cup {[slot |-> orch.slot, run |-> runid, status |-> orch.status]}
  /\ orch' = IF orch.status \in Publishable THEN [orch EXCEPT !.pc = "audit"] ELSE Idle
  /\ UNCHANGED <<reportVars, ptr, wire, runid>>

-----------------------------------------------------------------------------
(* ops/verified_pointer.py *)

AuditReads ==
  <<"digest", "receipt", "stage3", "body", "latest digest", "latest report", "status", "bundle">>

\* latest/* holds this occurrence, or has moved on to a later one.
LatestAdvanced(g) ==
  LET d == g["latest digest"]
  IN  /\ d \in Runs
      /\ \/ slot[d] > orch.slot
         \/ slot[d] = orch.slot /\ g["latest report"] = g["body"]

\* verify_occurrence, with binding_failures.
Audited(g) ==
  /\ Terminal(g, g["digest"], g["status"]) /\ LatestAdvanced(g)
  /\ g["bundle"] = g["digest"] /\ g["stage3"] = g["bundle"]

ReceiptPresent ==
  \E c \in receipts : c.slot = orch.slot /\ c.run = runid /\ c.status \in Publishable

\* The terminality is kept for the entry; what build_entry needs it reads again.
Audit ==
  /\ orch.pc = "audit"
  /\ \/ ReadNext(AuditReads)
     \/ /\ AllRead(AuditReads)
        /\ orch' = IF ReceiptPresent /\ Audited(orch.got)
                   THEN [orch EXCEPT !.pc = "entry", !.got = Nothing,
                                     !.status = report[orch.got["status"]].claim]
                   ELSE Idle
  /\ UNCHANGED <<reportVars, ptr, wire, receipts, runid>>

EntryReads == <<"digest", "body", "latest digest", "latest report", "latest manifest">>

\* build_entry after verify_occurrence, QA and presentation gates passing.
EntryBound(g) ==
  /\ g["digest"] \in Runs /\ g["body"] = g["digest"]
  /\ g["latest digest"] = g["body"] /\ g["latest report"] = g["body"]
  /\ g["latest manifest"] # None =>
       g["latest manifest"].body = g["body"] /\ g["latest manifest"].pass

BuildEntry ==
  /\ orch.pc = "entry"
  /\ \/ ReadNext(EntryReads)
     \/ /\ AllRead(EntryReads)
        /\ orch' = IF EntryBound(orch.got)
                   THEN [orch EXCEPT !.pc = "get", !.got = Nothing, !.entry =
                           [slot |-> orch.slot, body |-> orch.got["body"],
                            claim |-> orch.status, run |-> runid]]
                   ELSE Idle
  /\ UNCHANGED <<reportVars, ptr, wire, receipts, runid>>

\* merge_pointer: an older slot and another body of the same one are refused,
\* the same body is a no-op.
Supersedes(e, cur) == cur = None \/ e.slot > cur.slot

Merged(e, cur) ==
  [slot |-> e.slot, body |-> e.body, claim |-> e.claim, run |-> e.run,
   sequence |-> IF cur = None THEN 1 ELSE cur.sequence + 1,
   supersedes |-> IF cur = None THEN 0 ELSE cur.slot]

GetPointer ==
  /\ orch.pc = "get"
  /\ orch' = IF Supersedes(orch.entry, ptr) THEN [orch EXCEPT !.pc = "put", !.seen = ptr] ELSE Idle
  /\ UNCHANGED <<reportVars, ptr, wire, receipts, runid>>

\* Mutant: the PUT carries no blob sha.
CasMatches_Blind(seen) == TRUE

\* The PUT names the blob sha that was read; the sha is that of the content.
CasMatches(seen) == ptr = seen

SetPointer(new) ==
  /\ ptr' = new
  /\ rev' = rev + 1
  /\ UNCHANGED <<hist, latest, runner, others, readback>>

PutLands ==
  /\ orch.pc = "put" /\ CasMatches(orch.seen)
  /\ SetPointer(Merged(orch.entry, orch.seen))
  /\ orch' = Idle
  /\ UNCHANGED <<wire, receipts, runid>>

\* Mutant: one attempt too many.
LastAttempt_Late == orch.tries = CasAttempts

LastAttempt == orch.tries + 1 = CasAttempts

\* HTTP 409 or 422: the blob is another one, or the branch was moving.
PutConflict ==
  /\ orch.pc = "put" /\ (~CasMatches(orch.seen) \/ Faults)
  /\ orch' = IF LastAttempt THEN Idle
             ELSE [orch EXCEPT !.pc = "get", !.tries = @ + 1]
  /\ UNCHANGED <<reportVars, ptr, wire, receipts, runid>>

\* The call times out or the runner dies with the PUT on its way.
PutLost ==
  /\ orch.pc = "put" /\ Faults
  /\ wire' = wire \cup {[seen |-> orch.seen, new |-> Merged(orch.entry, orch.seen)]}
  /\ orch' = Idle
  /\ UNCHANGED <<reportVars, ptr, receipts, runid>>

LatePut ==
  \E w \in wire :
    /\ CasMatches(w.seen)
    /\ SetPointer(w.new)
    /\ wire' = wire \ {w}
    /\ UNCHANGED <<receipts, runid, orch>>

-----------------------------------------------------------------------------
(* What may go wrong at any step of an orchestrator run *)

\* The prefetch, the watch or a read fails: the receipt says so.
StepFails ==
  /\ orch.pc \in {"report", "watch", "verify"} /\ (Faults \/ orch.pc = "report")
  /\ orch' = [orch EXCEPT !.pc = "receipt", !.got = Nothing, !.status = "FAILED"]
  /\ UNCHANGED <<reportVars, ptr, wire, receipts, runid>>

\* A read of the pointer step fails, the comment does, or the run is cancelled
\* or times out; a report run it dispatched goes on.
OrchDies ==
  /\ orch.pc # "idle" /\ Faults
  /\ orch' = Idle
  /\ receipts' \in {receipts} \cup
       (IF orch.pc = "receipt"
        THEN {receipts \cup {[slot |-> orch.slot, run |-> runid, status |-> orch.status]}} ELSE {})
  /\ UNCHANGED <<reportVars, ptr, wire, runid>>

OrchStep ==
  \/ Guard \/ (\E r \in Runs : DispatchReport(r)) \/ Watch \/ Verify \/ PostReceipt
  \/ Audit \/ BuildEntry \/ GetPointer \/ PutLands \/ PutConflict \/ PutLost
  \/ StepFails \/ OrchDies

Next ==
  \/ \E s \in Slots, f \in BOOLEAN : (f => Forced) /\ Tick(s, f)
  \/ OrchStep
  \/ LatePut
  \/ \E r \in Runs : (RunStep(r) \/ Fail(r)) /\ UNCHANGED serving
  \/ \E r \in Runs, s \in Slots : Comments /\ Trigger(r, "comment", s) /\ UNCHANGED serving
  \/ OtherPush /\ UNCHANGED serving

Spec == Init /\ [][Next]_vars

\* Jobs and calls have timeouts: what is in progress goes on.  Nothing forces a
\* trigger, a late PUT or a foreign push.
FairSpec ==
  /\ Spec
  /\ WF_vars(OrchStep)
  /\ \A r \in Runs : WF_vars(RunStep(r) /\ UNCHANGED serving)

-----------------------------------------------------------------------------
(* Properties *)

Advances(old, new) ==
  IF old = None THEN new.sequence = 1 /\ new.supersedes = 0
  ELSE /\ new.slot > old.slot
       /\ new.sequence = old.sequence + 1
       /\ new.supersedes = old.slot

\* The pointer moves to a later slot only, counts its moves and names what it
\* supersedes, whatever PUTs are repeated, lost or late.
PointerAdvances == [][ptr' # None /\ Advances(ptr, ptr')]_ptr

\* A pointer says of its slot what the READY receipt of its orchestrator run
\* says, though the two were read from the repository at different times.
PointerMatchesReceipt ==
  ptr # None =>
    [slot |-> ptr.slot, run |-> ptr.run, status |-> ptr.claim] \in receipts

\* The body a pointer names belongs to its slot and stands up to the terminality
\* the pointer states.
PointedIsVerified ==
  ptr # None =>
    /\ slot[ptr.body] = ptr.slot
    /\ report[ptr.body].sound /\ report[ptr.body].claim = ptr.claim

\* The remote readback of the body a pointer names was recorded, as the pointer
\* says (remote_readback PASS).
PointedWasReadBack == ptr # None => ptr.body \in readback

\* The consumer's check: the body at body_path has the hash the pointer names.
PointerResolves == ptr # None => hist[ptr.slot]["body"] = ptr.body

\* A READY receipt names a terminality some report of its slot stands up to and
\* that was read back.
ReceiptIsFactual ==
  \A c \in receipts :
    c.status \in Publishable =>
      \E v \in readback : slot[v] = c.slot /\ report[v].sound /\ report[v].claim = c.status

\* Nothing in between, a READY receipt is followed by a pointer to its slot or
\* a later one.
ReceiptIsServed ==
  \A s \in Slots :
    (\E c \in receipts : c.slot = s /\ c.status \in Publishable)
      ~> (ptr # None /\ ptr.slot >= s)
-----------------------------------------------------------------------------
(* The abstract outlet it implements *)

ReadyReceipts == {c \in receipts : c.status \in Publishable}

\* A slot's directory, its body, and the status its digest gives of that body.
Filed(s) ==
  LET body == hist[s]["body"]
  IN  [files |-> hist[s], body |-> body,
       claim |-> IF body \in Runs /\ hist[s]["digest"] = body
                 THEN report[body].claim ELSE None]

Outlet ==
  INSTANCE AnnouncedReports WITH
    Slot      <- Slots,
    Nowhere   <- None,
    filed     <- [s \in Slots |-> Filed(s)],
    announced <- ReadyReceipts,
    pointer   <- ptr

\* As long as nobody starts reports by comment or forces a tick, the publisher's
\* runs, the orchestrator and the pointer step together are one outlet, though
\* each reads the repository file by file, may die anywhere and may PUT late.
ImplementsOutlet == Outlet!Spec
=============================================================================
