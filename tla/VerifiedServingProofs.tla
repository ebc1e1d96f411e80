-------------------------- MODULE VerifiedServingProofs --------------------------
(***************************************************************************)
(* What holds of the verified pointer and of the receipts for any number   *)
(* of report runs, orchestrator runs, slots, compare-and-swap attempts and *)
(* late PUTs: the pointer only moves forward; without reruns of a slot it  *)
(* names what was verified and read back, as a receipt does; without       *)
(* reports started by comment it agrees with its receipt, and without      *)
(* forced ticks its body stays where it is.                                *)
(***************************************************************************)
EXTENDS VerifiedServing, PrivateReportsProofs, FiniteSetTheorems, TLAPS

OrchFields == {"pc", "slot", "force", "run", "status", "tries", "seen", "entry", "got"}

\* Every report has the shape of a report.
ReportsOK == report \in [Runs -> Report]

\* An orchestrator run in progress has a slot and a number.
OrchOK ==
  /\ OrchFields \subseteq DOMAIN orch
  /\ runid \in 0..MaxOrch
  /\ orch.pc # "idle" => orch.slot \in Slots /\ runid \in 1..MaxOrch
  /\ orch.pc = "entry" => orch.status \in Publishable
  /\ orch.pc \in {"get", "put"} => orch.entry \in Entry

\* The entry about to be PUT supersedes the pointer it was compared with.
PutOK ==
  orch.pc = "put" => orch.seen \in Pointer \cup {None} /\ Supersedes(orch.entry, orch.seen)

\* What a late PUT would write advances the pointer it was merged with.
WireOK == \A w \in wire : w.new \in Pointer /\ Advances(w.seen, w.new)

IInv == ReportsOK /\ OrchOK /\ ptr \in Pointer \cup {None} /\ PutOK /\ WireOK

-----------------------------------------------------------------------------
\* merge_pointer of an entry that supersedes the current pointer is a pointer,
\* and one that advances it.
LEMMA MergedAdvances ==
  ASSUME NEW e \in Entry, NEW cur \in Pointer \cup {None}, Supersedes(e, cur)
  PROVE  Merged(e, cur) \in Pointer /\ Advances(cur, Merged(e, cur))
<1>1. CASE cur = None
  BY <1>1, BoundsAssumption DEF Merged, Advances, Entry, Pointer
<1>2. CASE cur # None
  <2>1. cur \in Pointer
    BY <1>2
  <2>2. cur.slot \in 1..MaxSlot /\ cur.sequence \in Nat
    BY <2>1 DEF Pointer, Slots
  <2>3. e.slot > cur.slot
    BY <1>2 DEF Supersedes
  <2>. QED
    BY <1>2, <2>2, <2>3 DEF Merged, Advances, Entry, Pointer
<1>. QED
  BY <1>1, <1>2

\* A step of the report runs alone keeps every report a report.
LEMMA ReportsKept ==
  ASSUME ReportsOK,
         \/ \E r \in Runs : RunStep(r) \/ Fail(r)
         \/ \E r \in Runs, s \in Slots : Trigger(r, "comment", s)
         \/ OtherPush
  PROVE  ReportsOK'
<1>1. ASSUME NEW r \in Runs, Publish(r) PROVE ReportsOK'
  BY <1>1 DEF ReportsOK, Publish
<1>. QED
  BY <1>1 DEF ReportsOK, RunStep, Start, Checkout, PushLands, PushFails, LastPushFails,
     Rebase, FetchFails, Readback, SecondPush, Finish, Fail, Trigger, OtherPush, runner

-----------------------------------------------------------------------------
\* The initial state satisfies the invariant.
LEMMA InitIInv == Init => IInv
<1>. SUFFICES ASSUME Init PROVE IInv
  OBVIOUS
<1>1. ReportsOK
  BY DEF Init, ReportInit, ReportsOK, Report
<1>2. OrchOK
  BY BoundsAssumption, ServingAssumption DEF Init, OrchOK, OrchFields, Idle
<1>. QED
  BY <1>1, <1>2 DEF Init, IInv, PutOK, WireOK, Idle

\* Every step preserves it.
LEMMA NextIInv == IInv /\ [Next]_vars => IInv'
<1>. SUFFICES ASSUME IInv, [Next]_vars PROVE IInv'
  OBVIOUS
<1>. USE DEF IInv
<1>1. ASSUME UNCHANGED vars PROVE IInv'
  BY <1>1 DEF vars, reportVars, serving, runner, ReportsOK, OrchOK, PutOK, WireOK
<1>2. ASSUME UNCHANGED serving, ReportsOK' PROVE IInv'
  BY <1>2 DEF serving, OrchOK, PutOK, WireOK
<1>3. ASSUME NEW s \in Slots, NEW f \in BOOLEAN, Tick(s, f) PROVE IInv'
  <2>1. ReportsOK'
    BY <1>3 DEF Tick, reportVars, runner, ReportsOK
  <2>2. OrchOK'
    BY <1>3, ServingAssumption DEF Tick, OrchOK, OrchFields, Idle
  <2>. QED
    BY <1>3, <2>1, <2>2 DEF Tick, PutOK, WireOK, Idle
<1>4. CASE Guard
  BY <1>4 DEF Guard, reportVars, runner, ReportsOK, OrchOK, OrchFields, PutOK, WireOK
<1>5. ASSUME NEW r \in Runs, DispatchReport(r) PROVE IInv'
  BY <1>5 DEF DispatchReport, Trigger, ReportsOK, OrchOK, OrchFields, PutOK, WireOK
<1>6. CASE Watch
  BY <1>6 DEF Watch, reportVars, runner, ReportsOK, OrchOK, OrchFields, PutOK, WireOK
<1>7. CASE Verify
  BY <1>7 DEF Verify, ReadNext, reportVars, runner, ReportsOK, OrchOK, OrchFields, PutOK, WireOK
<1>8. CASE PostReceipt
  BY <1>8 DEF PostReceipt, reportVars, runner, ReportsOK, OrchOK, OrchFields, PutOK, WireOK, Idle
<1>9. CASE Audit
  <2>1. CASE ReadNext(AuditReads)
    BY <1>9, <2>1 DEF Audit, ReadNext, reportVars, runner, ReportsOK, OrchOK, OrchFields, PutOK, WireOK
  <2>2. CASE ReceiptPresent /\ Audited(orch.got)
    <3>1. orch.got["status"] \in Runs
      BY <2>2 DEF Audited, Terminal
    <3>2. report[orch.got["status"]].claim \in Publishable
      BY <3>1 DEF ReportsOK, Report, Publishable
    <3>. QED
      BY <1>9, <2>1, <2>2, <3>2
         DEF Audit, reportVars, runner, ReportsOK, OrchOK, OrchFields, PutOK, WireOK
  <2>3. CASE ~(ReceiptPresent /\ Audited(orch.got))
    BY <1>9, <2>1, <2>3
       DEF Audit, reportVars, runner, ReportsOK, OrchOK, OrchFields, PutOK, WireOK, Idle
  <2>. QED
    BY <2>2, <2>3
<1>10. CASE BuildEntry
  <2>1. CASE ReadNext(EntryReads)
    BY <1>10, <2>1
       DEF BuildEntry, ReadNext, reportVars, runner, ReportsOK, OrchOK, OrchFields, PutOK, WireOK
  <2>2. CASE EntryBound(orch.got)
    <3>1. orch.got["body"] \in Runs
      BY <2>2 DEF EntryBound
    <3>. DEFINE e == [slot |-> orch.slot, body |-> orch.got["body"],
                      claim |-> orch.status, run |-> runid]
    <3>2. e \in Entry
      BY <1>10, <3>1 DEF BuildEntry, OrchOK, Entry
    <3>3. CASE orch' = [orch EXCEPT !.pc = "get", !.got = Nothing, !.entry = e]
      BY <1>10, <3>2, <3>3
         DEF BuildEntry, reportVars, runner, ReportsOK, OrchOK, OrchFields, PutOK, WireOK
    <3>. QED
      BY <1>10, <2>1, <2>2, <3>3 DEF BuildEntry
  <2>3. CASE ~EntryBound(orch.got)
    BY <1>10, <2>1, <2>3
       DEF BuildEntry, reportVars, runner, ReportsOK, OrchOK, OrchFields, PutOK, WireOK, Idle
  <2>. QED
    BY <2>2, <2>3
<1>11. CASE GetPointer
  BY <1>11 DEF GetPointer, reportVars, runner, ReportsOK, OrchOK, OrchFields, PutOK, WireOK, Idle
<1>12. CASE PutLands
  <2>1. ReportsOK'
    BY <1>12 DEF PutLands, SetPointer, runner, ReportsOK
  <2>2. OrchOK' /\ PutOK' /\ WireOK'
    BY <1>12 DEF PutLands, OrchOK, OrchFields, PutOK, WireOK, Idle
  <2>3. ptr' \in Pointer
    BY <1>12, MergedAdvances DEF PutLands, SetPointer, OrchOK, PutOK
  <2>. QED
    BY <2>1, <2>2, <2>3
<1>13. CASE PutConflict
  BY <1>13 DEF PutConflict, reportVars, runner, ReportsOK, OrchOK, OrchFields, PutOK, WireOK, Idle
<1>14. CASE PutLost
  <2>1. ReportsOK' /\ OrchOK' /\ PutOK' /\ ptr' = ptr
    BY <1>14 DEF PutLost, reportVars, runner, ReportsOK, OrchOK, OrchFields, PutOK, Idle
  <2>2. /\ Merged(orch.entry, orch.seen) \in Pointer
        /\ Advances(orch.seen, Merged(orch.entry, orch.seen))
    BY <1>14, MergedAdvances DEF PutLost, OrchOK, PutOK
  <2>3. WireOK'
    BY <1>14, <2>2 DEF PutLost, WireOK
  <2>. QED
    BY <2>1, <2>3
<1>15. CASE LatePut
  <2>1. ReportsOK' /\ ptr' \in Pointer /\ WireOK'
    BY <1>15 DEF LatePut, SetPointer, runner, ReportsOK, WireOK
  <2>2. OrchOK' /\ PutOK'
    BY <1>15 DEF LatePut, OrchOK, PutOK
  <2>. QED
    BY <2>1, <2>2
<1>16. CASE StepFails
  BY <1>16 DEF StepFails, reportVars, runner, ReportsOK, OrchOK, OrchFields, PutOK, WireOK
<1>17. CASE OrchDies
  BY <1>17 DEF OrchDies, reportVars, runner, ReportsOK, OrchOK, OrchFields, PutOK, WireOK, Idle
<1>18. CASE OrchStep
  BY <1>18, <1>4, <1>5, <1>6, <1>7, <1>8, <1>9, <1>10, <1>11, <1>12, <1>13, <1>14, <1>16, <1>17
     DEF OrchStep
<1>. QED
  BY <1>1, <1>2, <1>3, <1>15, <1>18, ReportsKept DEF Next

\* The invariant holds throughout.
THEOREM ServingInvariant == Spec => []IInv
  BY InitIInv, NextIInv, PTL DEF Spec

\* A step that moves the pointer is a PUT, in time or late, whose compare has
\* succeeded; it writes what was merged with the pointer it replaces.
LEMMA PointerStep ==
  ASSUME IInv, [Next]_vars, ptr' # ptr
  PROVE  ptr' # None /\ Advances(ptr, ptr')
<1>1. CASE PutLands
  BY <1>1, MergedAdvances, PointerAssumption
     DEF PutLands, SetPointer, CasMatches, IInv, OrchOK, PutOK
<1>2. CASE LatePut
  BY <1>2, PointerAssumption DEF LatePut, SetPointer, CasMatches, IInv, WireOK
<1>3. CASE ~PutLands /\ ~LatePut
  BY <1>3 DEF Next, vars, serving, Tick, OrchStep, Guard, DispatchReport, Watch, Verify, PostReceipt,
     Audit, BuildEntry, GetPointer, PutConflict, PutLost, StepFails, OrchDies
<1>. QED
  BY <1>1, <1>2, <1>3

\* The pointer moves to a later slot only, counts its moves and names what it
\* supersedes, for every number of runs, slots, retries and late PUTs:
\* merge_pointer under the compare-and-swap of advance.
THEOREM PointerAlwaysAdvances == Spec => PointerAdvances
<1>1. IInv /\ [Next]_vars => [ptr' # None /\ Advances(ptr, ptr')]_ptr
  BY PointerStep
<1>. QED
  BY <1>1, ServingInvariant, PTL DEF Spec, PointerAdvances

-----------------------------------------------------------------------------
(* Reading files one by one *)

\* The files a phase reads.
Named(reads) == {reads[i] : i \in 1..Len(reads)}

ReadsOf(l) ==
  IF l = "verify" THEN VerifyReads ELSE IF l = "audit" THEN AuditReads
  ELSE IF l = "entry" THEN EntryReads ELSE << >>

\* What was read is what the phase reads, and was written for the slot.
GotOK ==
  /\ DOMAIN orch.got \subseteq Named(ReadsOf(orch.pc))
  /\ \A f \in DOMAIN orch.got :
       IF f \in HistFiles THEN orch.got[f] \in Provenance(orch.slot) ELSE orch.got[f] \in KindOf(f)

\* The rest of the type invariant.
RestOK ==
  /\ wire \subseteq [seen : Pointer \cup {None}, new : Pointer]
  /\ receipts \subseteq Receipt
  /\ orch.pc \in OrchLocations
  /\ orch.slot \in 0..MaxSlot
  /\ orch.force \in BOOLEAN
  /\ orch.run \in Runs \cup {None}
  /\ orch.status \in {"READY_REUSED", "FAILED"} \cup Publishable
  /\ orch.tries \in 0..(CasAttempts - 1)
  /\ orch.seen \in Pointer \cup {None}
  /\ orch.entry \in Entry \cup {None}

\* Everything that holds without a further assumption.
BaseInv == ReportInv /\ IInv /\ RestOK /\ GotOK

\* The reads of every phase are of files, among them all that its check compares.
LEMMA ReadsAreFiles ==
  /\ VerifyReads \in Seq(Files) /\ AuditReads \in Seq(Files) /\ EntryReads \in Seq(Files)
  /\ Len(VerifyReads) = 7 /\ Len(AuditReads) = 8 /\ Len(EntryReads) = 5
  /\ {"latest digest", "latest status", "receipt", "digest", "stage3", "body", "latest report"}
       \subseteq Named(VerifyReads)
  /\ {"digest", "receipt", "stage3", "body", "latest digest", "latest report", "status", "bundle"}
       \subseteq Named(AuditReads)
  /\ {"digest", "body", "latest digest", "latest report", "latest manifest"} \subseteq Named(EntryReads)
<1>1. VerifyReads \in Seq(Files) /\ AuditReads \in Seq(Files) /\ EntryReads \in Seq(Files)
  BY DEF VerifyReads, AuditReads, EntryReads, Files, HistFiles, LatestFiles
<1>2. Len(VerifyReads) = 7 /\ Len(AuditReads) = 8 /\ Len(EntryReads) = 5
  BY DEF VerifyReads, AuditReads, EntryReads
<1>3. {"latest digest", "latest status", "receipt", "digest", "stage3", "body", "latest report"}
        \subseteq Named(VerifyReads)
  <2>1. /\ VerifyReads[1] = "latest digest" /\ VerifyReads[2] = "latest status" /\ VerifyReads[3] = "receipt"
        /\ VerifyReads[4] = "digest" /\ VerifyReads[5] = "stage3" /\ VerifyReads[6] = "body"
        /\ VerifyReads[7] = "latest report"
    BY DEF VerifyReads
  <2>. HIDE DEF VerifyReads
  <2>2. \A i \in 1..7 : VerifyReads[i] \in Named(VerifyReads)
    BY <1>2 DEF Named
  <2>3. 1 \in 1..7 /\ 2 \in 1..7 /\ 3 \in 1..7 /\ 4 \in 1..7 /\ 5 \in 1..7 /\ 6 \in 1..7 /\ 7 \in 1..7
    OBVIOUS
  <2>. QED
    BY <2>1, <2>2, <2>3
<1>4. {"digest", "receipt", "stage3", "body", "latest digest", "latest report", "status", "bundle"}
        \subseteq Named(AuditReads)
  <2>1. /\ AuditReads[1] = "digest" /\ AuditReads[2] = "receipt" /\ AuditReads[3] = "stage3"
        /\ AuditReads[4] = "body" /\ AuditReads[5] = "latest digest" /\ AuditReads[6] = "latest report"
        /\ AuditReads[7] = "status" /\ AuditReads[8] = "bundle"
    BY DEF AuditReads
  <2>. HIDE DEF AuditReads
  <2>2. \A i \in 1..8 : AuditReads[i] \in Named(AuditReads)
    BY <1>2 DEF Named
  <2>3. 1 \in 1..8 /\ 2 \in 1..8 /\ 3 \in 1..8 /\ 4 \in 1..8 /\ 5 \in 1..8 /\ 6 \in 1..8 /\ 7 \in 1..8 /\ 8 \in 1..8
    OBVIOUS
  <2>. QED
    BY <2>1, <2>2, <2>3
<1>5. {"digest", "body", "latest digest", "latest report", "latest manifest"} \subseteq Named(EntryReads)
  <2>1. /\ EntryReads[1] = "digest" /\ EntryReads[2] = "body" /\ EntryReads[3] = "latest digest"
        /\ EntryReads[4] = "latest report" /\ EntryReads[5] = "latest manifest"
    BY DEF EntryReads
  <2>. HIDE DEF EntryReads
  <2>2. \A i \in 1..5 : EntryReads[i] \in Named(EntryReads)
    BY <1>2 DEF Named
  <2>3. 1 \in 1..5 /\ 2 \in 1..5 /\ 3 \in 1..5 /\ 4 \in 1..5 /\ 5 \in 1..5
    OBVIOUS
  <2>. QED
    BY <2>1, <2>2, <2>3
<1>. QED
  BY <1>1, <1>2, <1>3, <1>4, <1>5

\* The files of a phase are finitely many, at most as many as its reads.
LEMMA NamedFinite ==
  ASSUME NEW reads \in Seq(Files)
  PROVE  IsFiniteSet(Named(reads)) /\ Cardinality(Named(reads)) <= Len(reads)
<1>. DEFINE f == [i \in 1..Len(reads) |-> reads[i]]
<1>1. IsFiniteSet(1..Len(reads)) /\ Cardinality(1..Len(reads)) = Len(reads)
  <2>1. Len(reads) \in Nat
    OBVIOUS
  <2>. QED
    BY <2>1, FS_Interval
<1>2. f \in Surjection(1..Len(reads), Named(reads))
  BY DEF Surjection, Named
<1>. QED
  BY <1>1, <1>2, FS_Surjection

\* Once as many files were read as the phase has reads, all were.
LEMMA AllWereRead ==
  ASSUME NEW reads \in Seq(Files), DOMAIN orch.got \subseteq Named(reads), AllRead(reads)
  PROVE  DOMAIN orch.got = Named(reads)
<1>1. /\ Cardinality(DOMAIN orch.got) <= Cardinality(Named(reads))
      /\ Cardinality(Named(reads)) = Cardinality(DOMAIN orch.got) => Named(reads) = DOMAIN orch.got
  BY NamedFinite, FS_Subset
<1>2. Cardinality(Named(reads)) \in Nat
  BY NamedFinite, FS_CardinalityType
<1>. QED
  BY <1>1, <1>2, NamedFinite DEF AllRead

\* A read adds a file of the phase, as it is on main now.
LEMMA ReadAdds ==
  ASSUME NEW reads \in Seq(Files), DOMAIN orch.got \subseteq Named(reads), ReadNext(reads),
         OrchFields \subseteq DOMAIN orch
  PROVE  \E f \in Named(reads) :
           /\ f \in Files
           /\ DOMAIN orch'.got = DOMAIN orch.got \cup {f}
           /\ orch'.got[f] = View(orch.slot)[f]
           /\ \A g \in DOMAIN orch.got : g # f => orch'.got[g] = orch.got[g]
<1>. DEFINE n == Cardinality(DOMAIN orch.got)
            f == reads[n + 1]
<1>1. n \in Nat /\ n < Len(reads)
  BY NamedFinite, FS_Subset, FS_CardinalityType DEF ReadNext
<1>2. f \in Named(reads) /\ f \in Files
  BY <1>1 DEF Named
<1>3. orch'.got = [g \in DOMAIN orch.got \cup {f} |->
                     IF g = f THEN View(orch.slot)[f] ELSE orch.got[g]]
  BY DEF ReadNext, OrchFields
<1>. HIDE DEF f
<1>. QED
  BY <1>2, <1>3

-----------------------------------------------------------------------------
(* What holds without a further assumption *)

\* What a file read one by one holds is of its kind and of its slot.
LEMMA ReadKeeps ==
  ASSUME BaseInv, orch.pc \in {"verify", "audit", "entry"}, ReadNext(ReadsOf(orch.pc)),
         UNCHANGED <<reportVars, wire, receipts>>
  PROVE  GotOK' /\ RestOK'
<1>. USE DEF BaseInv
<1>1. OrchFields \subseteq DOMAIN orch /\ orch.slot \in Slots
  BY DEF IInv, OrchOK
<1>2. PICK f \in Named(ReadsOf(orch.pc)) :
        /\ f \in Files
        /\ DOMAIN orch'.got = DOMAIN orch.got \cup {f}
        /\ orch'.got[f] = View(orch.slot)[f]
        /\ \A g \in DOMAIN orch.got : g # f => orch'.got[g] = orch.got[g]
  BY <1>1, ReadAdds, ReadsAreFiles DEF GotOK, ReadsOf
<1>3. /\ orch'.pc = orch.pc /\ orch'.slot = orch.slot /\ orch'.force = orch.force
      /\ orch'.run = orch.run /\ orch'.status = orch.status /\ orch'.tries = orch.tries
      /\ orch'.seen = orch.seen /\ orch'.entry = orch.entry
  BY <1>1 DEF ReadNext, OrchFields
<1>4. RestOK'
  BY <1>3 DEF RestOK
<1>5. IF f \in HistFiles THEN View(orch.slot)[f] \in Provenance(orch.slot)
                         ELSE View(orch.slot)[f] \in KindOf(f)
  BY <1>1, <1>2 DEF ReportInv, TreesOK, Trees, Files
<1>6. \A s : Provenance(s)' = Provenance(s)
  BY DEF Provenance, Authors, reportVars, runner
<1>. QED
  BY <1>2, <1>3, <1>4, <1>5, <1>6 DEF GotOK

\* The steps of the orchestrator that read nothing keep what was read, or drop it.
LEMMA GotKept ==
  ASSUME GotOK, Keeps, orch'.slot = orch.slot,
         \/ DOMAIN orch'.got = {}
         \/ orch'.pc = orch.pc /\ orch'.got = orch.got
         \/ orch.pc \notin {"verify", "audit", "entry"} /\ orch'.got = orch.got
  PROVE  GotOK'
<1>1. Provenance(orch.slot) \subseteq Provenance(orch.slot)'
  BY Grows DEF Provenance
<1>2. Named(<< >>) = {}
  BY DEF Named
<1>3. orch.pc \notin {"verify", "audit", "entry"} => DOMAIN orch.got = {}
  BY <1>2 DEF GotOK, ReadsOf
<1>. QED
  BY <1>1, <1>3 DEF GotOK

\* With nothing read there is nothing to keep.
LEMMA NothingRead == DOMAIN Nothing = {} /\ DOMAIN Idle.got = {}
  BY DEF Nothing, Idle

\* Nor is there after a step that drops what was read.
LEMMA GotEmpty == ASSUME DOMAIN orch'.got = {} PROVE GotOK'
  BY DEF GotOK

\* The repository's part of any step.
LEMMA RepoStep ==
  ASSUME BaseInv, [Next]_vars
  PROVE  /\ ReportInv' /\ Keeps /\ readback \subseteq readback'
         /\ \A r \in Runs : pc[r] # "idle" => pc'[r] # "idle" /\ slot'[r] = slot[r]
<1>1. ReportStep
  <2>1. ASSUME NEW r \in Runs, DispatchReport(r) PROVE ReportStep
    <3>1. orch.slot \in Slots
      BY <2>1 DEF DispatchReport, BaseInv, IInv, OrchOK
    <3>. QED
      BY <2>1, <3>1 DEF DispatchReport, ReportStep
  <2>2. ASSUME NEW new, SetPointer(new) PROVE ReportStep
    BY <2>2 DEF SetPointer, ReportStep, TipMoves, BaseInv, ReportInv, ReportTypeOK
  <2>3. CASE OtherPush
    BY <2>3, BoundsAssumption DEF OtherPush, ReportStep, TipMoves, BaseInv, ReportInv, ReportTypeOK
  <2>4. CASE UNCHANGED reportVars
    BY <2>4 DEF ReportStep
  <2>5. CASE (\E r \in Runs : RunStep(r) \/ Fail(r))
             \/ (\E r \in Runs, s \in Slots : Trigger(r, "comment", s))
    BY <2>5 DEF ReportStep
  <2>. QED
    BY <2>1, <2>2, <2>3, <2>4, <2>5
       DEF Next, OrchStep, vars, Tick, Guard, Watch, Verify, PostReceipt, Audit, BuildEntry, GetPointer,
           PutLands, PutConflict, PutLost, StepFails, OrchDies, LatePut
<1>2. readback \subseteq readback'
  BY <1>1 DEF ReportStep, TipMoves, reportVars, RunStep, Start, Checkout, Publish, PushLands, PushFails,
     LastPushFails, Rebase, FetchFails, Readback, SecondPush, Finish, Fail, Trigger
<1>. QED
  BY <1>1, <1>2, ReportSteps, SlotsStay DEF BaseInv

\* Initially nothing was read and nothing is on its way.
LEMMA InitBase == Init => BaseInv
<1>. SUFFICES ASSUME Init PROVE BaseInv
  OBVIOUS
<1>1. ReportInv /\ IInv
  BY ReportInitInv, InitIInv DEF Init
<1>2. RestOK
  BY ServingAssumption, BoundsAssumption DEF Init, Idle, RestOK, OrchLocations
<1>3. GotOK
  BY NothingRead DEF Init, GotOK
<1>. QED
  BY <1>1, <1>2, <1>3 DEF BaseInv

\* Every step keeps the types and what was read.
LEMMA NextBase == BaseInv /\ [Next]_vars => BaseInv'
<1>. SUFFICES ASSUME BaseInv, [Next]_vars PROVE BaseInv'
  OBVIOUS
<1>1. IInv'
  BY NextIInv DEF BaseInv
<1>2. ReportInv' /\ Keeps
  BY RepoStep
<1>. DEFINE Goal == RestOK' /\ GotOK'
<1>. SUFFICES Goal
  BY <1>1, <1>2 DEF BaseInv
<1>3. OrchFields \subseteq DOMAIN orch
  BY DEF BaseInv, IInv, OrchOK
<1>4. RestOK /\ GotOK
  BY DEF BaseInv
<1>5. CASE UNCHANGED serving
  BY <1>2, <1>4, <1>5, GotKept DEF serving, RestOK
<1>6. ASSUME NEW s \in Slots, NEW f \in BOOLEAN, Tick(s, f) PROVE Goal
  <2>1. DOMAIN orch'.got = {}
    BY <1>6, NothingRead DEF Tick, Idle
  <2>2. RestOK'
    BY <1>4, <1>6, ServingAssumption, BoundsAssumption DEF Tick, Idle, RestOK, OrchLocations, Slots
  <2>. QED
    BY <2>1, <2>2, GotEmpty
<1>7. ASSUME orch' = Idle PROVE GotOK' /\ (wire' = wire /\ receipts' = receipts => RestOK')
  <2>1. DOMAIN orch'.got = {}
    BY <1>7, NothingRead
  <2>2. wire' = wire /\ receipts' = receipts => RestOK'
    BY <1>4, <1>7, ServingAssumption, BoundsAssumption DEF Idle, RestOK, OrchLocations
  <2>. QED
    BY <2>1, <2>2, GotEmpty
<1>8. CASE Guard
  <2>1. RestOK'
    BY <1>3, <1>4, <1>8 DEF Guard, RestOK, OrchLocations, OrchFields
  <2>. QED
    BY <1>2, <1>3, <1>4, <1>8, <2>1, GotKept DEF Guard, OrchFields
<1>9. ASSUME NEW r \in Runs, DispatchReport(r) PROVE Goal
  <2>1. RestOK'
    BY <1>3, <1>4, <1>9 DEF DispatchReport, RestOK, OrchLocations, OrchFields
  <2>. QED
    BY <1>2, <1>3, <1>4, <1>9, <2>1, GotKept DEF DispatchReport, OrchFields
<1>10. CASE Watch
  <2>1. RestOK'
    BY <1>3, <1>4, <1>10 DEF Watch, RestOK, OrchLocations, OrchFields
  <2>. QED
    BY <1>2, <1>3, <1>4, <1>10, <2>1, GotKept DEF Watch, OrchFields
<1>11. CASE Verify
  <2>1. CASE ReadNext(VerifyReads)
    BY <1>11, <2>1, ReadKeeps DEF Verify, ReadsOf
  <2>2. CASE ~ReadNext(VerifyReads)
    <3>. DEFINE ok == Classified(orch.got)
                claim == report[orch.got["latest status"]].claim
    <3>1. orch' = [orch EXCEPT !.pc = "receipt", !.got = Nothing,
                               !.status = IF ok THEN claim ELSE "FAILED"]
      BY <1>11, <2>2 DEF Verify
    <3>2. ok => claim \in Publishable
      BY DEF Classified, Terminal, BaseInv, ReportInv, ReportTypeOK, Report, Publishable
    <3>. HIDE DEF ok, claim
    <3>3. RestOK'
      BY <1>3, <1>4, <1>11, <3>1, <3>2 DEF Verify, RestOK, OrchLocations, OrchFields
    <3>4. DOMAIN orch'.got = {}
      BY <1>3, <3>1, NothingRead DEF OrchFields
    <3>. QED
      BY <3>3, <3>4, GotEmpty
  <2>. QED
    BY <2>1, <2>2
<1>12. CASE PostReceipt
  <2>1. receipts' \subseteq Receipt
    BY <1>4, <1>12 DEF PostReceipt, RestOK, Receipt, BaseInv, IInv, OrchOK
  <2>2. CASE orch.status \in Publishable
    <3>1. RestOK'
      BY <1>3, <1>4, <1>12, <2>1, <2>2 DEF PostReceipt, RestOK, OrchLocations, OrchFields
    <3>. QED
      BY <1>2, <1>3, <1>4, <1>12, <2>2, <3>1, GotKept DEF PostReceipt, OrchFields
  <2>3. CASE orch.status \notin Publishable
    BY <1>4, <1>7, <1>12, <2>1, <2>3, ServingAssumption, BoundsAssumption
       DEF PostReceipt, RestOK, Idle, OrchLocations
  <2>. QED
    BY <2>2, <2>3
<1>13. CASE Audit
  <2>1. CASE ReadNext(AuditReads)
    BY <1>13, <2>1, ReadKeeps DEF Audit, ReadsOf
  <2>2. CASE orch' = Idle
    BY <1>7, <1>13, <2>2 DEF Audit
  <2>3. CASE ~ReadNext(AuditReads) /\ orch' # Idle
    <3>. DEFINE claim == report[orch.got["status"]].claim
    <3>1. /\ Audited(orch.got)
          /\ orch' = [orch EXCEPT !.pc = "entry", !.got = Nothing, !.status = claim]
      BY <1>13, <2>3 DEF Audit
    <3>2. claim \in Publishable
      BY <3>1 DEF Audited, Terminal, BaseInv, ReportInv, ReportTypeOK, Report, Publishable
    <3>. HIDE DEF claim
    <3>3. RestOK'
      BY <1>3, <1>4, <1>13, <3>1, <3>2 DEF Audit, RestOK, OrchLocations, OrchFields
    <3>4. DOMAIN orch'.got = {}
      BY <1>3, <3>1, NothingRead DEF OrchFields
    <3>. QED
      BY <3>3, <3>4, GotEmpty
  <2>. QED
    BY <2>1, <2>2, <2>3
<1>14. CASE BuildEntry
  <2>1. CASE ReadNext(EntryReads)
    BY <1>14, <2>1, ReadKeeps DEF BuildEntry, ReadsOf
  <2>2. CASE orch' = Idle
    BY <1>7, <1>14, <2>2 DEF BuildEntry
  <2>3. CASE ~ReadNext(EntryReads) /\ orch' # Idle
    <3>. DEFINE e == [slot |-> orch.slot, body |-> orch.got["body"],
                      claim |-> orch.status, run |-> runid]
    <3>1. orch' = [orch EXCEPT !.pc = "get", !.got = Nothing, !.entry = e]
      BY <1>14, <2>3 DEF BuildEntry
    <3>. HIDE DEF e
    <3>2. e \in Entry
      BY <1>1, <1>3, <3>1 DEF IInv, OrchOK, OrchFields
    <3>3. RestOK'
      BY <1>3, <1>4, <1>14, <3>1, <3>2 DEF BuildEntry, RestOK, OrchLocations, OrchFields
    <3>4. DOMAIN orch'.got = {}
      BY <1>3, <3>1, NothingRead DEF OrchFields
    <3>. QED
      BY <3>3, <3>4, GotEmpty
  <2>. QED
    BY <2>1, <2>2, <2>3
<1>15. CASE GetPointer
  <2>1. CASE orch' = Idle
    BY <1>7, <1>15, <2>1 DEF GetPointer
  <2>2. CASE orch' # Idle
    <3>1. RestOK'
      BY <1>3, <1>4, <1>15, <2>2 DEF GetPointer, RestOK, OrchLocations, OrchFields, BaseInv, IInv
    <3>. QED
      BY <1>2, <1>3, <1>4, <1>15, <2>2, <3>1, GotKept DEF GetPointer, OrchFields
  <2>. QED
    BY <2>1, <2>2
<1>16. CASE PutLands
  BY <1>7, <1>16 DEF PutLands
<1>17. CASE PutConflict
  <2>1. CASE orch' = Idle
    BY <1>7, <1>17, <2>1 DEF PutConflict
  <2>2. CASE orch' # Idle
    <3>1. orch' = [orch EXCEPT !.pc = "get", !.tries = orch.tries + 1] /\ ~LastAttempt
      BY <1>17, <2>2 DEF PutConflict
    <3>2. orch.tries + 1 \in 0..(CasAttempts - 1)
      BY <1>4, <3>1, ServingAssumption DEF LastAttempt, RestOK
    <3>3. RestOK'
      BY <1>3, <1>4, <1>17, <3>1, <3>2 DEF PutConflict, RestOK, OrchLocations, OrchFields
    <3>. QED
      BY <1>2, <1>3, <1>4, <1>17, <3>1, <3>3, GotKept DEF PutConflict, OrchFields
  <2>. QED
    BY <2>1, <2>2
<1>18. CASE PutLost
  <2>1. wire' \subseteq [seen : Pointer \cup {None}, new : Pointer]
    BY <1>4, <1>18, MergedAdvances DEF PutLost, RestOK, BaseInv, IInv, OrchOK, PutOK
  <2>2. RestOK'
    BY <1>4, <1>18, <2>1, ServingAssumption, BoundsAssumption
       DEF PutLost, RestOK, Idle, OrchLocations
  <2>. QED
    BY <1>7, <1>18, <2>2 DEF PutLost
<1>19. CASE LatePut
  BY <1>2, <1>4, <1>19, GotKept DEF LatePut, RestOK
<1>20. CASE StepFails
  <2>1. RestOK'
    BY <1>3, <1>4, <1>20 DEF StepFails, RestOK, OrchLocations, OrchFields
  <2>2. DOMAIN orch'.got = {}
    BY <1>3, <1>20, NothingRead DEF StepFails, OrchFields
  <2>. QED
    BY <2>1, <2>2, GotEmpty
<1>21. CASE OrchDies
  <2>1. receipts' \subseteq Receipt
    BY <1>4, <1>21 DEF OrchDies, RestOK, Receipt, BaseInv, IInv, OrchOK
  <2>2. RestOK'
    BY <1>4, <1>21, <2>1, ServingAssumption, BoundsAssumption
       DEF OrchDies, RestOK, Idle, OrchLocations
  <2>. QED
    BY <1>7, <1>21, <2>2 DEF OrchDies
<1>22. CASE OrchStep
  BY <1>22, <1>8, <1>9, <1>10, <1>11, <1>12, <1>13, <1>14, <1>15, <1>16, <1>17, <1>18, <1>20, <1>21
     DEF OrchStep
<1>. QED
  BY <1>5, <1>6, <1>19, <1>22 DEF Next, vars

\* What was read is well-formed throughout.
LEMMA BaseHolds == Spec => []BaseInv
  BY InitBase, NextBase, PTL DEF Spec

\* Every variable keeps its type, the reads of a phase and its retries their bounds.
THEOREM TypeCorrect == Spec => []ServingTypeOK
<1>1. BaseInv => ServingTypeOK
  <2>. SUFFICES ASSUME BaseInv PROVE ServingTypeOK
    OBVIOUS
  <2>1. << >> \in Seq(Files)
    OBVIOUS
  <2>. ReadsOf(orch.pc) \in Seq(Files)
    BY <2>1, ReadsAreFiles DEF ReadsOf
  <2>2. DOMAIN orch.got \subseteq Files
    BY DEF BaseInv, GotOK, Named
  <2>3. \A f \in DOMAIN orch.got : orch.got[f] \in Content
    BY DEF BaseInv, GotOK, Provenance, Authors, KindOf, Content
  <2>. QED
    BY <2>2, <2>3 DEF BaseInv, ReportInv, IInv, OrchOK, RestOK, ServingTypeOK
<1>. QED
  BY <1>1, BaseHolds, PTL

-----------------------------------------------------------------------------
(* Without reruns of a slot *)

\* A body of a slot stands up to a claim and was read back.
Fact(s, v, c) == v \in Authors(s) /\ v \in readback /\ report[v].sound /\ report[v].claim = c

\* A READY about the slot is about to be said or was, by this orchestrator run.
SaysReady ==
  \/ orch.pc \in {"audit", "entry"}
  \/ orch.pc = "receipt" /\ orch.status \in Publishable

\* What is said of a slot is a fact from the verification to the pointer.
FactInv ==
  /\ orch.pc \in {"guard", "report", "watch", "verify"} => orch.status \notin Publishable
  /\ orch.pc = "watch" =>
       orch.run \in Runs /\ pc[orch.run] # "idle" /\ slot[orch.run] = orch.slot
  /\ orch.pc = "verify" => \E v \in Authors(orch.slot) : v \in readback
  /\ SaysReady => \E v \in Runs : Fact(orch.slot, v, orch.status)
  /\ orch.pc \in {"get", "put"} => Fact(orch.entry.slot, orch.entry.body, orch.entry.claim)
  /\ \A w \in wire : Fact(w.new.slot, w.new.body, w.new.claim)
  /\ ptr # None => Fact(ptr.slot, ptr.body, ptr.claim)
  /\ \A c \in receipts : c.status \in Publishable => \E v \in Runs : Fact(c.slot, v, c.status)

\* A fact stays one.
LEMMA FactStays ==
  ASSUME Keeps, readback \subseteq readback', NEW s, NEW v, NEW c, Fact(s, v, c)
  PROVE  Fact(s, v, c)'
  BY Grows DEF Fact, Keeps, Authors

\* A slot has one author.
LEMMA OneAuthor ==
  ASSUME ~Reruns, BaseInv, NEW s \in Slots, NEW u \in Authors(s), NEW v \in Authors(s)
  PROVE  u = v
  BY DEF BaseInv, ReportInv, OneRunPerSlot, Authors

\* What was read of a history file and names a run names an author of the slot.
LEMMA ReadAuthor ==
  ASSUME BaseInv, NEW f \in HistFiles, f \in DOMAIN orch.got, orch.got[f] \in Runs
  PROVE  orch.got[f] \in Authors(orch.slot)
  BY RunsAssumption DEF BaseInv, GotOK, Provenance

\* The verification says READY of a body that is sound and was read back.
LEMMA VerifyFact ==
  ASSUME ~Reruns, BaseInv, FactInv, orch.pc = "verify", AllRead(VerifyReads), Classified(orch.got)
  PROVE  \E v \in Runs : Fact(orch.slot, v, report[orch.got["latest status"]].claim)
<1>. DEFINE g == orch.got
            v == g["latest digest"]
<1>1. {"receipt", "stage3"} \subseteq DOMAIN g
  BY AllWereRead, ReadsAreFiles DEF BaseInv, GotOK, ReadsOf
<1>2. /\ v \in Runs /\ g["receipt"] = v
      /\ report[g["latest status"]].claim = report[v].claim
      /\ g["stage3"] \in Runs /\ report[g["stage3"]].sound
  BY DEF Classified, Terminal
<1>3. g["receipt"] \in Authors(orch.slot) /\ g["stage3"] \in Authors(orch.slot)
  BY <1>1, <1>2, ReadAuthor DEF HistFiles
<1>4. orch.slot \in Slots
  BY DEF BaseInv, IInv, OrchOK
<1>5. PICK u \in Authors(orch.slot) : u \in readback
  BY DEF FactInv
<1>6. g["stage3"] = v /\ u = v
  BY <1>2, <1>3, <1>4, <1>5, OneAuthor
<1>. QED
  BY <1>2, <1>3, <1>5, <1>6 DEF Fact

\* The audit finds the same body, and says of it what the receipt did.
LEMMA AuditFact ==
  ASSUME ~Reruns, BaseInv, FactInv, orch.pc = "audit", AllRead(AuditReads), Audited(orch.got)
  PROVE  \E v \in Runs : Fact(orch.slot, v, report[orch.got["status"]].claim)
<1>. DEFINE g == orch.got
            v == g["digest"]
<1>1. "digest" \in DOMAIN g
  BY AllWereRead, ReadsAreFiles DEF BaseInv, GotOK, ReadsOf
<1>2. v \in Runs /\ report[g["status"]].claim = report[v].claim
  BY DEF Audited, Terminal
<1>3. v \in Authors(orch.slot)
  BY <1>1, <1>2, ReadAuthor DEF HistFiles
<1>4. orch.slot \in Slots
  BY DEF BaseInv, IInv, OrchOK
<1>5. PICK u \in Runs : Fact(orch.slot, u, orch.status)
  BY DEF FactInv, SaysReady
<1>6. u = v
  BY <1>3, <1>4, <1>5, OneAuthor DEF Fact
<1>. QED
  BY <1>2, <1>5, <1>6 DEF Fact

\* The entry names that body.
LEMMA EntryFact ==
  ASSUME ~Reruns, BaseInv, FactInv, orch.pc = "entry", AllRead(EntryReads), EntryBound(orch.got)
  PROVE  Fact(orch.slot, orch.got["body"], orch.status)
<1>1. "body" \in DOMAIN orch.got
  BY AllWereRead, ReadsAreFiles DEF BaseInv, GotOK, ReadsOf
<1>2. orch.got["body"] \in Authors(orch.slot)
  BY <1>1, ReadAuthor DEF EntryBound, HistFiles
<1>3. orch.slot \in Slots
  BY DEF BaseInv, IInv, OrchOK
<1>4. PICK u \in Runs : Fact(orch.slot, u, orch.status)
  BY DEF FactInv, SaysReady
<1>. QED
  BY <1>2, <1>3, <1>4, OneAuthor DEF Fact

\* Initially nothing is said.
LEMMA InitFact == Init => FactInv
  BY DEF Init, FactInv, SaysReady, Idle, Publishable

\* Every step keeps what is said a fact.
LEMMA NextFact == ASSUME ~Reruns PROVE BaseInv /\ FactInv /\ [Next]_vars => FactInv'
<1>. SUFFICES ASSUME BaseInv, FactInv, [Next]_vars PROVE FactInv'
  OBVIOUS
<1>1. Keeps /\ readback \subseteq readback'
  BY RepoStep
<1>2. \A s, v, c : Fact(s, v, c) => Fact(s, v, c)'
  BY <1>1, FactStays
<1>3. /\ \A w \in wire : Fact(w.new.slot, w.new.body, w.new.claim)'
      /\ ptr # None => /\ Fact(ptr.slot, ptr.body, ptr.claim)
                       /\ \A s, v, c : s = ptr.slot /\ v = ptr.body /\ c = ptr.claim => Fact(s, v, c)'
      /\ \A c \in receipts : c.status \in Publishable => \E v \in Runs : Fact(c.slot, v, c.status)'
  BY <1>2 DEF FactInv
<1>4. OrchFields \subseteq DOMAIN orch
  BY DEF BaseInv, IInv, OrchOK
\* What is said beside the run in progress.
<1>. DEFINE Kept == wire' = wire /\ ptr' = ptr /\ receipts' = receipts
<1>5. ASSUME Kept, orch'.pc \notin {"watch", "verify", "get", "put"}, ~SaysReady',
              orch'.pc \in {"guard", "report"} => orch'.status \notin Publishable
       PROVE  FactInv'
  BY <1>3, <1>5 DEF FactInv
<1>6. ASSUME Kept, orch' = Idle PROVE FactInv'
  BY <1>5, <1>6 DEF Idle, SaysReady
<1>7. CASE UNCHANGED serving
  <2>1. orch.pc = "watch" =>
          orch.run \in Runs /\ pc'[orch.run] # "idle" /\ slot'[orch.run] = orch.slot
    BY RepoStep DEF FactInv
  <2>2. orch.pc = "verify" => \E v \in Authors(orch.slot)' : v \in readback'
    BY <1>1, <1>7, Grows DEF FactInv, serving
  <2>. QED
    BY <1>2, <1>3, <1>7, <2>1, <2>2 DEF FactInv, serving, SaysReady
<1>8. ASSUME NEW s \in Slots, NEW f \in BOOLEAN, Tick(s, f) PROVE FactInv'
  <2>1. orch'.pc = "guard" /\ orch'.status = "FAILED"
    BY <1>8 DEF Tick, Idle
  <2>. QED
    BY <1>5, <1>8, <2>1 DEF Tick, SaysReady, Publishable
<1>9. CASE Guard
  <2>1. \/ orch'.pc = "report" /\ orch'.status = orch.status
        \/ orch'.pc = "receipt" /\ orch'.status = "READY_REUSED"
    BY <1>4, <1>9 DEF Guard, OrchFields
  <2>. QED
    BY <1>5, <1>9, <2>1 DEF Guard, SaysReady, Publishable, FactInv
<1>10. ASSUME NEW r \in Runs, DispatchReport(r) PROVE FactInv'
  <2>1. /\ orch'.pc = "watch" /\ orch'.run = r /\ orch'.slot = orch.slot
        /\ orch'.status = orch.status
    BY <1>4, <1>10 DEF DispatchReport, OrchFields
  <2>2. pc'[r] = "pending" /\ slot'[r] = orch.slot
    BY <1>10 DEF DispatchReport, Trigger, BaseInv, ReportInv, ReportTypeOK
  <2>. QED
    BY <1>3, <1>10, <2>1, <2>2 DEF DispatchReport, FactInv, SaysReady
<1>11. CASE Watch
  <2>1. CASE pc[orch.run] = "passed"
    <3>1. orch'.pc = "verify" /\ orch'.slot = orch.slot /\ orch'.status = orch.status
      BY <1>4, <1>11, <2>1 DEF Watch, OrchFields
    <3>2. \E v \in Authors(orch.slot)' : v \in readback'
      BY <1>1, <1>11, <2>1, Grows DEF Watch, FactInv, BaseInv, ReportInv, ReadbackOK
    <3>. QED
      BY <1>3, <1>11, <3>1, <3>2 DEF Watch, FactInv, SaysReady
  <2>2. CASE pc[orch.run] # "passed"
    <3>1. orch'.pc = "receipt" /\ orch'.status = orch.status
      BY <1>4, <1>11, <2>2 DEF Watch, OrchFields
    <3>. QED
      BY <1>5, <1>11, <3>1 DEF Watch, SaysReady, FactInv
  <2>. QED
    BY <2>1, <2>2
\* The files are read on.
<1>12. ASSUME orch.pc \in {"verify", "audit", "entry"}, UNCHANGED <<reportVars, ptr, wire, receipts>>,
              orch'.pc = orch.pc, orch'.slot = orch.slot, orch'.status = orch.status
       PROVE  FactInv'
  <2>1. orch.pc = "verify" => \E v \in Authors(orch.slot)' : v \in readback'
    BY <1>1, <1>12, Grows DEF FactInv
  <2>2. SaysReady' => \E v \in Runs : Fact(orch.slot, v, orch.status)'
    BY <1>2, <1>12 DEF FactInv, SaysReady
  <2>. QED
    BY <1>3, <1>12, <2>1, <2>2 DEF FactInv
<1>13. ASSUME NEW reads, ReadNext(reads)
       PROVE  orch'.pc = orch.pc /\ orch'.slot = orch.slot /\ orch'.status = orch.status
  BY <1>4, <1>13 DEF ReadNext, OrchFields
<1>14. CASE Verify
  <2>1. CASE ReadNext(VerifyReads)
    BY <1>12, <1>13, <1>14, <2>1 DEF Verify
  <2>2. CASE ~ReadNext(VerifyReads)
    <3>. DEFINE ok == Classified(orch.got)
                claim == report[orch.got["latest status"]].claim
    <3>1. orch' = [orch EXCEPT !.pc = "receipt", !.got = Nothing,
                               !.status = IF ok THEN claim ELSE "FAILED"]
      BY <1>14, <2>2 DEF Verify
    <3>2. ok => \E v \in Runs : Fact(orch.slot, v, claim)
      BY <1>14, <2>2, VerifyFact DEF Verify
    <3>. HIDE DEF ok, claim
    <3>3. orch'.pc = "receipt" /\ orch'.slot = orch.slot /\ orch'.status = IF ok THEN claim ELSE "FAILED"
      BY <1>4, <3>1 DEF OrchFields
    <3>4. SaysReady' => \E v \in Runs : Fact(orch.slot, v, orch.status)'
      BY <1>2, <3>2, <3>3 DEF SaysReady, Publishable
    <3>. QED
      BY <1>3, <1>14, <3>3, <3>4 DEF Verify, FactInv
  <2>. QED
    BY <2>1, <2>2
<1>15. CASE PostReceipt
  <2>. DEFINE c == [slot |-> orch.slot, run |-> runid, status |-> orch.status]
  <2>1. orch.status \in Publishable => \E v \in Runs : Fact(orch.slot, v, orch.status)
    BY <1>15 DEF PostReceipt, FactInv, SaysReady
  <2>2. receipts' = receipts \cup {c} /\ UNCHANGED <<ptr, wire>>
    BY <1>15 DEF PostReceipt
  <2>3. \A d \in receipts' : d.status \in Publishable => \E v \in Runs : Fact(d.slot, v, d.status)'
    BY <1>2, <1>3, <2>1, <2>2
  <2>4. CASE orch.status \in Publishable
    <3>1. orch'.pc = "audit" /\ orch'.slot = orch.slot /\ orch'.status = orch.status
      BY <1>4, <1>15, <2>4 DEF PostReceipt, OrchFields
    <3>2. \E v \in Runs : Fact(orch.slot, v, orch.status)'
      BY <1>2, <2>1, <2>4, <3>1
    <3>. QED
      BY <1>3, <2>2, <2>3, <3>1, <3>2 DEF FactInv
  <2>5. CASE orch.status \notin Publishable
    <3>1. orch'.pc = "idle"
      BY <1>15, <2>5 DEF PostReceipt, Idle
    <3>. QED
      BY <1>3, <2>2, <2>3, <3>1 DEF FactInv, SaysReady
  <2>. QED
    BY <2>4, <2>5
<1>16. CASE Audit
  <2>1. CASE ReadNext(AuditReads)
    BY <1>12, <1>13, <1>16, <2>1 DEF Audit
  <2>2. CASE orch' = Idle
    BY <1>6, <1>16, <2>2 DEF Audit
  <2>3. CASE ~ReadNext(AuditReads) /\ orch' # Idle
    <3>. DEFINE claim == report[orch.got["status"]].claim
    <3>1. orch' = [orch EXCEPT !.pc = "entry", !.got = Nothing, !.status = claim]
      BY <1>16, <2>3 DEF Audit
    <3>2. \E v \in Runs : Fact(orch.slot, v, claim)
      BY <1>16, <2>3, AuditFact DEF Audit
    <3>. HIDE DEF claim
    <3>3. orch'.pc = "entry" /\ orch'.slot = orch.slot /\ orch'.status = claim
      BY <1>4, <3>1 DEF OrchFields
    <3>4. \E v \in Runs : Fact(orch.slot, v, orch.status)'
      BY <1>2, <3>2, <3>3
    <3>. QED
      BY <1>3, <1>16, <3>3, <3>4 DEF Audit, FactInv
  <2>. QED
    BY <2>1, <2>2, <2>3
<1>17. CASE BuildEntry
  <2>1. CASE ReadNext(EntryReads)
    BY <1>12, <1>13, <1>17, <2>1 DEF BuildEntry
  <2>2. CASE orch' = Idle
    BY <1>6, <1>17, <2>2 DEF BuildEntry
  <2>3. CASE ~ReadNext(EntryReads) /\ orch' # Idle
    <3>. DEFINE e == [slot |-> orch.slot, body |-> orch.got["body"],
                      claim |-> orch.status, run |-> runid]
    <3>1. orch' = [orch EXCEPT !.pc = "get", !.got = Nothing, !.entry = e]
      BY <1>17, <2>3 DEF BuildEntry
    <3>2. Fact(e.slot, e.body, e.claim)
      BY <1>17, <2>3, EntryFact DEF BuildEntry
    <3>. HIDE DEF e
    <3>3. orch'.pc = "get" /\ orch'.entry = e
      BY <1>4, <3>1 DEF OrchFields
    <3>4. Fact(orch.entry.slot, orch.entry.body, orch.entry.claim)'
      BY <1>2, <3>2, <3>3
    <3>. QED
      BY <1>3, <1>17, <3>3, <3>4 DEF BuildEntry, FactInv, SaysReady
  <2>. QED
    BY <2>1, <2>2, <2>3
\* The entry is about to be written.
<1>18. ASSUME Kept, orch.pc \in {"get", "put"}, orch'.pc \in {"get", "put"}, orch'.entry = orch.entry
       PROVE  FactInv'
  <2>1. Fact(orch.entry.slot, orch.entry.body, orch.entry.claim)'
    BY <1>2, <1>18 DEF FactInv
  <2>. QED
    BY <1>3, <1>18, <2>1 DEF FactInv, SaysReady
<1>19. CASE GetPointer
  <2>1. CASE orch' # Idle
    BY <1>4, <1>18, <1>19, <2>1 DEF GetPointer, OrchFields
  <2>. QED
    BY <1>6, <1>19, <2>1 DEF GetPointer
<1>20. ASSUME orch.pc = "put", NEW new, new = Merged(orch.entry, orch.seen)
       PROVE  Fact(new.slot, new.body, new.claim)
  BY <1>20 DEF FactInv, Merged
<1>21. CASE PutLands
  <2>1. Fact(ptr.slot, ptr.body, ptr.claim)'
    BY <1>2, <1>20, <1>21 DEF PutLands, SetPointer
  <2>. QED
    BY <1>3, <1>21, <2>1 DEF PutLands, FactInv, Idle, SaysReady
<1>22. CASE PutConflict
  <2>1. CASE orch' # Idle
    BY <1>4, <1>18, <1>22, <2>1 DEF PutConflict, OrchFields
  <2>. QED
    BY <1>6, <1>22, <2>1 DEF PutConflict
<1>23. CASE PutLost
  <2>1. \A w \in wire' : Fact(w.new.slot, w.new.body, w.new.claim)'
    BY <1>2, <1>3, <1>20, <1>23 DEF PutLost
  <2>. QED
    BY <1>3, <1>23, <2>1 DEF PutLost, FactInv, Idle, SaysReady
<1>24. CASE LatePut
  <2>1. Fact(ptr.slot, ptr.body, ptr.claim)' /\ orch' = orch /\ receipts' = receipts
    BY <1>3, <1>24 DEF LatePut, SetPointer
  <2>2. \A w \in wire' : Fact(w.new.slot, w.new.body, w.new.claim)'
    BY <1>3, <1>24 DEF LatePut
  <2>3. UNCHANGED <<pc, slot>>
    BY <1>24 DEF LatePut, SetPointer, runner
  <2>4. orch.pc = "verify" => \E v \in Authors(orch.slot)' : v \in readback'
    BY <1>1, <2>1, Grows DEF FactInv
  <2>. QED
    BY <1>2, <1>3, <2>1, <2>2, <2>3, <2>4 DEF FactInv, SaysReady
<1>25. CASE StepFails
  <2>1. orch'.pc = "receipt" /\ orch'.status = "FAILED"
    BY <1>4, <1>25 DEF StepFails, OrchFields
  <2>. QED
    BY <1>5, <1>25, <2>1 DEF StepFails, SaysReady, Publishable
<1>26. CASE OrchDies
  <2>1. /\ orch'.pc = "idle" /\ UNCHANGED <<ptr, wire>>
        /\ \A c \in receipts' \ receipts :
             /\ orch.pc = "receipt"
             /\ c = [slot |-> orch.slot, run |-> runid, status |-> orch.status]
    BY <1>26 DEF OrchDies, Idle
  <2>2. \A c \in receipts' : c.status \in Publishable => \E v \in Runs : Fact(c.slot, v, c.status)'
    BY <1>2, <1>3, <2>1 DEF FactInv, SaysReady
  <2>. QED
    BY <1>3, <2>1, <2>2 DEF FactInv, SaysReady
<1>27. CASE OrchStep
  BY <1>27, <1>9, <1>10, <1>11, <1>14, <1>15, <1>16, <1>17, <1>19, <1>21, <1>22, <1>23, <1>25, <1>26
     DEF OrchStep
<1>. QED
  BY <1>7, <1>8, <1>24, <1>27 DEF Next, vars

\* Without reruns what is said is a fact throughout.
LEMMA FactHolds == ASSUME ~Reruns PROVE Spec => []FactInv
  BY BaseHolds, InitFact, NextFact, PTL DEF Spec

\* Without reruns, what a pointer names belongs to its slot and stands up to what
\* the pointer says: verify_occurrence and build_entry, file by file.
THEOREM PointerIsVerified == ASSUME ~Reruns PROVE Spec => []PointedIsVerified
<1>1. FactInv => PointedIsVerified
  BY DEF FactInv, Fact, Authors, PointedIsVerified
<1>. QED
  BY <1>1, FactHolds, PTL

\* Without reruns, the readback of the body a pointer names was recorded, as
\* build_entry says.
THEOREM PointerWasReadBack == ASSUME ~Reruns PROVE Spec => []PointedWasReadBack
<1>1. FactInv => PointedWasReadBack
  BY DEF FactInv, Fact, PointedWasReadBack
<1>. QED
  BY <1>1, FactHolds, PTL

\* Without reruns, a READY receipt names what a report of its slot stands up to.
THEOREM ReceiptFactual == ASSUME ~Reruns PROVE Spec => []ReceiptIsFactual
<1>1. FactInv => ReceiptIsFactual
  BY DEF FactInv, Fact, Authors, ReceiptIsFactual
<1>. QED
  BY <1>1, FactHolds, PTL

-----------------------------------------------------------------------------
(* Without reports started by comment *)

Busy(q) == pc[q] \notin {"idle"} \cup Ended

\* No run of the slot is queued or in progress.
Quiet(s) == \A q \in Runs : slot[q] = s => ~Busy(q)

\* The run the orchestrator watches was started; no other of its slot can follow.
Started == Locations \ {"idle", "pending", "failed", "cancelled"}

\* The orchestrator's own run is the only one of its slot, and what is said of the
\* slot is what its files say.
AgreedInv ==
  /\ \A q \in Runs : kind[q] = "dispatch"
  /\ orch.pc \in {"guard", "report", "watch", "verify"} => orch.status \notin Publishable
  /\ orch.pc = "watch" =>
       /\ orch.run \in Runs /\ pc[orch.run] # "idle" /\ slot[orch.run] = orch.slot
       /\ \A q \in Runs \ {orch.run} :
            slot[q] = orch.slot => pc[q] # "pending" /\ (pc[orch.run] \in Started => ~Busy(q))
  /\ SaysReady \/ orch.pc = "verify" => Quiet(orch.slot)
  /\ \A f \in DOMAIN orch.got \cap HistFiles : orch.got[f] = hist[orch.slot][f]
  /\ SaysReady => LET d == hist[orch.slot]["digest"]
                  IN  d \in Runs /\ report[d].claim = orch.status
  /\ orch.pc \in {"audit", "entry"} =>
       [slot |-> orch.slot, run |-> runid, status |-> orch.status] \in receipts
  /\ orch.pc \in {"get", "put"} =>
       [slot |-> orch.entry.slot, run |-> orch.entry.run, status |-> orch.entry.claim] \in receipts
  /\ \A w \in wire : [slot |-> w.new.slot, run |-> w.new.run, status |-> w.new.claim] \in receipts
  /\ PointerMatchesReceipt

\* A step of a run changes the files of its slot only, and is one of a busy run.
LEMMA StepOfBusy ==
  ASSUME ReportInv, NEW r \in Runs, RunStep(r) \/ Fail(r)
  PROVE  /\ Busy(r) /\ pc'[r] # "pending"
         /\ pc[r] \notin Started /\ pc'[r] \in Started => Start(r)
         /\ UNCHANGED <<slot, kind>>
         /\ \A q \in Runs \ {r} : pc'[q] = pc[q] /\ report'[q] = report[q]
         /\ \A s \in Slots \ {slot[r]} : hist'[s] = hist[s]
<1>. USE DEF ReportInv, ReportTypeOK
<1>1. Busy(r) /\ UNCHANGED <<slot, kind>>
  BY DEF Busy, Ended, RunStep, Start, Checkout, Publish, PushLands, PushFails,
     LastPushFails, Rebase, FetchFails, Readback, SecondPush, Finish, Fail
<1>2. pc'[r] # "pending" /\ \A q \in Runs \ {r} : pc'[q] = pc[q]
  BY DEF RunStep, Start, Checkout, Publish, PushLands, PushFails,
     LastPushFails, Rebase, FetchFails, Readback, SecondPush, Finish, Fail, End, Goto
<1>3. pc[r] \notin Started /\ pc'[r] \in Started => Start(r)
  BY DEF Started, Locations, RunStep, Start, Checkout, Publish, PushLands, PushFails,
     LastPushFails, Rebase, FetchFails, Readback, SecondPush, Finish, Fail, End, Goto
<1>4. \A q \in Runs \ {r} : report'[q] = report[q]
  BY DEF RunStep, Start, Checkout, Publish, PushLands, PushFails,
     LastPushFails, Rebase, FetchFails, Readback, SecondPush, Finish, Fail
<1>5. \A s \in Slots \ {slot[r]} : hist'[s] = hist[s]
  <2>1. UNCHANGED hist \/ Publishes(r)
    BY DEF RunStep, Start, Checkout, Publish, PushLands, PushFails, repo, Land,
       LastPushFails, Rebase, FetchFails, Readback, SecondPush, Finish, Fail
  <2>. QED
    BY <2>1 DEF Publishes
<1>. QED
  BY <1>1, <1>2, <1>3, <1>4, <1>5

\* Nothing happens to the files of a quiet slot by themselves.
LEMMA QuietStays ==
  ASSUME ReportInv, NEW r \in Runs, RunStep(r) \/ Fail(r), NEW s \in Slots, Quiet(s)
  PROVE  Quiet(s)' /\ hist'[s] = hist[s]
  BY StepOfBusy DEF Quiet, Busy

\* The verification reports the claim of the digest the slot has.
LEMMA VerifyAgrees ==
  ASSUME BaseInv, AgreedInv, orch.pc = "verify", AllRead(VerifyReads), Classified(orch.got)
  PROVE  LET d == hist[orch.slot]["digest"]
         IN  d \in Runs /\ report[d].claim = report[orch.got["latest status"]].claim
<1>1. "digest" \in DOMAIN orch.got
  BY AllWereRead, ReadsAreFiles DEF BaseInv, GotOK, ReadsOf
<1>2. orch.got["digest"] = hist[orch.slot]["digest"]
  BY <1>1 DEF AgreedInv, HistFiles
<1>. QED
  BY <1>2 DEF Classified, Terminal

\* The audit finds the claim the receipt states.
LEMMA AuditAgrees ==
  ASSUME BaseInv, AgreedInv, orch.pc = "audit", AllRead(AuditReads), Audited(orch.got)
  PROVE  report[orch.got["status"]].claim = orch.status
<1>1. "digest" \in DOMAIN orch.got
  BY AllWereRead, ReadsAreFiles DEF BaseInv, GotOK, ReadsOf
<1>2. orch.got["digest"] = hist[orch.slot]["digest"]
  BY <1>1 DEF AgreedInv, HistFiles
<1>. QED
  BY <1>2 DEF Audited, Terminal, AgreedInv, SaysReady

\* Initially nothing is said and nothing runs.
LEMMA InitAgreed == Init => AgreedInv
  BY NothingRead
     DEF Init, ReportInit, AgreedInv, SaysReady, Idle, Publishable, PointerMatchesReceipt

\* Every step keeps the slot of the orchestrator to itself.
LEMMA NextAgreed == ASSUME ~Comments PROVE BaseInv /\ AgreedInv /\ [Next]_vars => AgreedInv'
<1>. SUFFICES ASSUME BaseInv, AgreedInv, [Next]_vars PROVE AgreedInv'
  OBVIOUS
<1>1. Keeps /\ BaseInv'
  BY RepoStep, NextBase
<1>2. OrchFields \subseteq DOMAIN orch
  BY DEF BaseInv, IInv, OrchOK
<1>3. ASSUME orch'.pc \notin {"verify", "audit", "entry"} PROVE DOMAIN orch'.got = {}
  BY <1>1, <1>3 DEF BaseInv, GotOK, ReadsOf, Named
<1>. DEFINE Kept == wire' = wire /\ ptr' = ptr /\ UNCHANGED <<hist, runner>>
<1>4. ASSUME Kept, receipts \subseteq receipts', orch'.pc \notin {"watch", "verify", "get", "put"},
             ~SaysReady', orch'.pc \in {"guard", "report"} => orch'.status \notin Publishable
      PROVE  AgreedInv'
  <2>1. DOMAIN orch'.got = {}
    BY <1>3, <1>4 DEF SaysReady
  <2>2. PointerMatchesReceipt'
    BY <1>4 DEF AgreedInv, PointerMatchesReceipt
  <2>3. orch'.pc \notin {"audit", "entry"}
    BY <1>4 DEF SaysReady
  <2>. QED
    BY <1>4, <2>1, <2>2, <2>3 DEF AgreedInv, runner
<1>5. ASSUME Kept, receipts \subseteq receipts', orch' = Idle PROVE AgreedInv'
  BY <1>4, <1>5 DEF Idle, SaysReady
<1>6. ASSUME NEW r \in Runs, RunStep(r) \/ Fail(r), UNCHANGED serving PROVE AgreedInv'
  <2>. USE <1>6 DEF serving
  <2>1. ReportInv
    BY DEF BaseInv
  <2>2. \A q \in Runs : kind'[q] = "dispatch"
    BY <2>1, StepOfBusy DEF AgreedInv
  <2>3. ASSUME orch.pc = "watch"
        PROVE  /\ orch.run \in Runs /\ pc'[orch.run] # "idle" /\ slot'[orch.run] = orch.slot
               /\ \A q \in Runs \ {orch.run} :
                    slot'[q] = orch.slot =>
                      pc'[q] # "pending" /\ (pc'[orch.run] \in Started => ~Busy(q)')
    <3>. DEFINE w == orch.run
    <3>1. /\ w \in Runs /\ pc[w] # "idle" /\ slot[w] = orch.slot
          /\ \A q \in Runs \ {w} :
               slot[q] = orch.slot => pc[q] # "pending" /\ (pc[w] \in Started => ~Busy(q))
      BY <2>3 DEF AgreedInv
    <3>2. slot' = slot /\ pc'[w] # "idle"
      BY <2>1, <3>1, StepOfBusy, RepoStep
    <3>3. ASSUME NEW q \in Runs \ {w}, slot[q] = orch.slot
          PROVE  pc'[q] # "pending" /\ (pc'[w] \in Started => ~Busy(q)')
      <4>1. CASE q = r
        BY <2>1, <3>1, <3>3, <4>1, StepOfBusy DEF Busy
      <4>2. CASE q # r /\ (w # r \/ pc[w] \in Started)
        BY <2>1, <3>1, <3>3, <4>2, StepOfBusy DEF Busy
      <4>3. CASE q # r /\ w = r /\ pc[w] \notin Started /\ pc'[w] \in Started
        <5>1. Start(r)
          BY <2>1, <4>3, StepOfBusy
        <5>2. SameGroup(kind[r], slot[r], q)
          BY <3>1, <3>3, <4>3 DEF SameGroup, AgreedInv
        <5>3. ~Busy(q)
          BY <3>1, <3>3, <4>3, <5>1, <5>2 DEF Start, Busy
        <5>. QED
          BY <2>1, <3>1, <3>3, <4>3, <5>3, StepOfBusy DEF Busy
      <4>4. CASE q # r /\ w = r /\ pc'[w] \notin Started
        BY <2>1, <3>1, <3>3, <4>4, StepOfBusy DEF Busy
      <4>. QED
        BY <4>1, <4>2, <4>3, <4>4
    <3>. QED
      BY <3>1, <3>2, <3>3
  <2>4. ASSUME SaysReady \/ orch.pc = "verify"
        PROVE  Quiet(orch.slot)' /\ hist'[orch.slot] = hist[orch.slot]
    <3>1. orch.slot \in Slots /\ Quiet(orch.slot)
      BY <2>4 DEF AgreedInv, BaseInv, IInv, OrchOK, SaysReady
    <3>. QED
      BY <2>1, <3>1, QuietStays DEF Quiet
  <2>5. ASSUME SaysReady
        PROVE  LET d == hist'[orch.slot]["digest"]
               IN  d \in Runs /\ report'[d].claim = orch.status
    <3>. DEFINE d == hist[orch.slot]["digest"]
    <3>1. d \in Runs /\ report[d].claim = orch.status /\ orch.slot \in Slots
      BY <2>5 DEF AgreedInv, BaseInv, IInv, OrchOK, SaysReady
    <3>2. View(orch.slot)["digest"] = d
      BY DEF View, Files, HistFiles
    <3>3. d \in Authors(orch.slot)
      BY <2>1, <3>1, <3>2, RunsAssumption DEF ReportInv, TreesOK, Trees, Provenance, HistFiles
    <3>4. report'[d] = report[d]
      BY <1>1, <3>3 DEF Keeps, Authors
    <3>. QED
      BY <2>4, <2>5, <3>1, <3>4
  <2>6. \A f \in DOMAIN orch.got \cap HistFiles : orch.got[f] = hist'[orch.slot][f]
    <3>1. CASE orch.pc \in {"verify", "audit", "entry"}
      BY <2>4, <3>1 DEF AgreedInv, SaysReady
    <3>2. CASE orch.pc \notin {"verify", "audit", "entry"}
      BY <1>3, <3>2
    <3>. QED
      BY <3>1, <3>2
  <2>7. PointerMatchesReceipt'
    BY DEF AgreedInv, PointerMatchesReceipt
  <2>. QED
    BY <2>2, <2>3, <2>4, <2>5, <2>6, <2>7 DEF AgreedInv, SaysReady, Quiet
<1>7. ASSUME UNCHANGED <<hist, runner, serving>> PROVE AgreedInv'
  BY <1>7 DEF AgreedInv, SaysReady, Quiet, Busy, PointerMatchesReceipt, serving, runner
<1>8. ASSUME NEW s \in Slots, NEW f \in BOOLEAN, Tick(s, f) PROVE AgreedInv'
  <2>1. orch'.pc = "guard" /\ orch'.status = "FAILED"
    BY <1>8 DEF Tick, Idle
  <2>. QED
    BY <1>4, <1>8, <2>1 DEF Tick, SaysReady, Publishable, reportVars, repo
<1>9. CASE Guard
  <2>1. \/ orch'.pc = "report" /\ orch'.status = orch.status
        \/ orch'.pc = "receipt" /\ orch'.status = "READY_REUSED"
    BY <1>2, <1>9 DEF Guard, OrchFields
  <2>. QED
    BY <1>4, <1>9, <2>1 DEF Guard, SaysReady, Publishable, AgreedInv, reportVars, repo
<1>10. ASSUME NEW r \in Runs, DispatchReport(r) PROVE AgreedInv'
  <2>1. /\ orch'.pc = "watch" /\ orch'.run = r /\ orch'.slot = orch.slot
        /\ orch'.status = orch.status
    BY <1>2, <1>10 DEF DispatchReport, OrchFields
  <2>2. /\ pc'[r] = "pending" /\ slot'[r] = orch.slot /\ kind'[r] = "dispatch"
        /\ \A q \in Runs \ {r} :
             /\ slot'[q] = slot[q] /\ kind'[q] = kind[q]
             /\ pc'[q] = IF pc[q] = "pending" /\ SameGroup("dispatch", orch.slot, q)
                         THEN "cancelled" ELSE pc[q]
    BY <1>10 DEF DispatchReport, Trigger, BaseInv, ReportInv, ReportTypeOK
  <2>3. \A q \in Runs \ {r} : slot'[q] = orch.slot => pc'[q] # "pending"
    BY <2>2 DEF SameGroup, AgreedInv
  <2>4. \A q \in Runs : kind'[q] = "dispatch"
    BY <2>2 DEF AgreedInv
  <2>5. pc'[r] \notin Started
    BY <2>2 DEF Started
  <2>6. DOMAIN orch'.got = {}
    BY <1>3, <2>1
  <2>7. UNCHANGED <<wire, ptr, receipts>>
    BY <1>10 DEF DispatchReport
  <2>8. orch'.status \notin Publishable
    BY <1>10, <2>1 DEF DispatchReport, AgreedInv
  <2>9. PointerMatchesReceipt'
    BY <2>7 DEF AgreedInv, PointerMatchesReceipt
  <2>. QED
    BY <2>1, <2>2, <2>3, <2>4, <2>5, <2>6, <2>7, <2>8, <2>9 DEF AgreedInv, SaysReady
<1>11. CASE Watch
  <2>1. CASE pc[orch.run] = "passed"
    <3>1. orch'.pc = "verify" /\ orch'.slot = orch.slot /\ orch'.status = orch.status
          /\ orch'.got = orch.got
      BY <1>2, <1>11, <2>1 DEF Watch, OrchFields
    <3>2. Quiet(orch.slot)
      BY <1>11, <2>1 DEF Watch, AgreedInv, Quiet, Busy, Started, Locations, Ended
    <3>3. Quiet(orch.slot)'
      BY <1>11, <3>1, <3>2 DEF Watch, Quiet, Busy, reportVars, runner
    <3>4. DOMAIN orch'.got = {}
      BY <1>11, <3>1 DEF Watch, BaseInv, GotOK, ReadsOf, Named
    <3>5. UNCHANGED <<hist, runner, wire, ptr, receipts>>
      BY <1>11 DEF Watch, reportVars, repo
    <3>6. PointerMatchesReceipt'
      BY <3>5 DEF AgreedInv, PointerMatchesReceipt
    <3>7. orch'.status \notin Publishable
      BY <1>11, <3>1 DEF Watch, AgreedInv
    <3>. QED
      BY <3>1, <3>3, <3>4, <3>5, <3>6, <3>7 DEF AgreedInv, SaysReady, runner
  <2>2. CASE pc[orch.run] # "passed"
    <3>1. orch'.pc = "receipt" /\ orch'.status = orch.status
      BY <1>2, <1>11, <2>2 DEF Watch, OrchFields
    <3>. QED
      BY <1>4, <1>11, <3>1 DEF Watch, SaysReady, AgreedInv, reportVars, repo
  <2>. QED
    BY <2>1, <2>2
\* The files of a quiet slot are read on.
<1>12. ASSUME orch.pc \in {"verify", "audit", "entry"}, NEW reads \in Seq(Files), ReadNext(reads),
              DOMAIN orch.got \subseteq Named(reads),
              UNCHANGED <<reportVars, ptr, wire, receipts, runid>>
       PROVE  AgreedInv'
  <2>1. PICK f \in Files :
          /\ DOMAIN orch'.got = DOMAIN orch.got \cup {f}
          /\ orch'.got[f] = View(orch.slot)[f]
          /\ \A g \in DOMAIN orch.got : g # f => orch'.got[g] = orch.got[g]
    BY <1>2, <1>12, ReadAdds
  <2>2. orch'.pc = orch.pc /\ orch'.slot = orch.slot /\ orch'.status = orch.status
    BY <1>2, <1>12 DEF ReadNext, OrchFields
  <2>3. UNCHANGED <<hist, runner>>
    BY <1>12 DEF reportVars, repo
  <2>4. f \in HistFiles => View(orch.slot)[f] = hist[orch.slot][f]
    BY <2>1 DEF View
  <2>5. \A g \in DOMAIN orch'.got \cap HistFiles : orch'.got[g] = hist'[orch.slot][g]
    BY <2>1, <2>3, <2>4 DEF AgreedInv
  <2>6. PointerMatchesReceipt'
    BY <1>12 DEF AgreedInv, PointerMatchesReceipt
  <2>. QED
    BY <1>12, <2>2, <2>3, <2>5, <2>6 DEF AgreedInv, SaysReady, Quiet, Busy, runner
<1>13. CASE Verify
  <2>1. CASE ReadNext(VerifyReads)
    BY <1>12, <1>13, <2>1, ReadsAreFiles DEF Verify, BaseInv, GotOK, ReadsOf
  <2>2. CASE ~ReadNext(VerifyReads)
    <3>. DEFINE ok == Classified(orch.got)
                claim == report[orch.got["latest status"]].claim
                d == hist[orch.slot]["digest"]
    <3>1. orch' = [orch EXCEPT !.pc = "receipt", !.got = Nothing,
                               !.status = IF ok THEN claim ELSE "FAILED"]
      BY <1>13, <2>2 DEF Verify
    <3>2. ok => d \in Runs /\ report[d].claim = claim
      BY <1>13, <2>2, VerifyAgrees DEF Verify
    <3>. HIDE DEF ok, claim
    <3>3. orch'.pc = "receipt" /\ orch'.slot = orch.slot /\ orch'.status = IF ok THEN claim ELSE "FAILED"
      BY <1>2, <3>1 DEF OrchFields
    <3>4. UNCHANGED <<hist, runner, wire, ptr, receipts>>
      BY <1>13 DEF Verify, reportVars, repo
    <3>5. DOMAIN orch'.got = {}
      BY <1>3, <3>3
    <3>6. PointerMatchesReceipt'
      BY <3>4 DEF AgreedInv, PointerMatchesReceipt
    <3>7. Quiet(orch.slot)'
      BY <1>13, <3>3, <3>4 DEF Verify, AgreedInv, Quiet, Busy, runner
    <3>8. SaysReady' => hist'[orch'.slot]["digest"] \in Runs
                        /\ report'[hist'[orch'.slot]["digest"]].claim = orch'.status
      BY <3>2, <3>3, <3>4 DEF SaysReady, Publishable, runner
    <3>. QED
      BY <3>3, <3>4, <3>5, <3>6, <3>7, <3>8 DEF AgreedInv, runner
  <2>. QED
    BY <2>1, <2>2
<1>14. CASE PostReceipt
  <2>. DEFINE c == [slot |-> orch.slot, run |-> runid, status |-> orch.status]
  <2>1. /\ receipts' = receipts \cup {c} /\ UNCHANGED <<ptr, wire, runid, hist, runner>>
        /\ orch.pc = "receipt"
    BY <1>14 DEF PostReceipt, reportVars, repo
  <2>2. CASE orch.status \in Publishable
    <3>1. orch'.pc = "audit" /\ orch'.slot = orch.slot /\ orch'.status = orch.status
          /\ orch'.got = orch.got
      BY <1>2, <1>14, <2>2 DEF PostReceipt, OrchFields
    <3>2. SaysReady
      BY <2>1, <2>2 DEF SaysReady
    <3>3. PointerMatchesReceipt'
      BY <2>1 DEF AgreedInv, PointerMatchesReceipt
    <3>4. Quiet(orch.slot)'
      BY <2>1, <3>1, <3>2 DEF AgreedInv, Quiet, Busy, runner
    <3>. QED
      BY <2>1, <3>1, <3>2, <3>3, <3>4 DEF AgreedInv, runner
  <2>3. CASE orch.status \notin Publishable
    BY <1>5, <1>14, <2>1, <2>3 DEF PostReceipt
  <2>. QED
    BY <2>2, <2>3
<1>15. CASE Audit
  <2>1. CASE ReadNext(AuditReads)
    BY <1>12, <1>15, <2>1, ReadsAreFiles DEF Audit, BaseInv, GotOK, ReadsOf
  <2>2. CASE orch' = Idle
    BY <1>5, <1>15, <2>2 DEF Audit, reportVars, repo
  <2>3. CASE ~ReadNext(AuditReads) /\ orch' # Idle
    <3>. DEFINE claim == report[orch.got["status"]].claim
    <3>1. orch' = [orch EXCEPT !.pc = "entry", !.got = Nothing, !.status = claim]
      BY <1>15, <2>3 DEF Audit
    <3>2. claim = orch.status
      BY <1>15, <2>3, AuditAgrees DEF Audit
    <3>. HIDE DEF claim
    <3>3. orch'.pc = "entry" /\ orch'.slot = orch.slot /\ orch'.status = orch.status
      BY <1>2, <3>1, <3>2 DEF OrchFields
    <3>4. DOMAIN orch'.got = {}
      BY <1>2, <3>1, NothingRead DEF OrchFields
    <3>5. UNCHANGED <<hist, runner, wire, ptr, receipts, runid>> /\ orch.pc = "audit"
      BY <1>15 DEF Audit, reportVars, repo
    <3>6. PointerMatchesReceipt'
      BY <3>5 DEF AgreedInv, PointerMatchesReceipt
    <3>7. Quiet(orch.slot)'
      BY <3>3, <3>5 DEF AgreedInv, SaysReady, Quiet, Busy, runner
    <3>. QED
      BY <3>3, <3>4, <3>5, <3>6, <3>7 DEF AgreedInv, SaysReady, runner
  <2>. QED
    BY <2>1, <2>2, <2>3
<1>16. CASE BuildEntry
  <2>1. CASE ReadNext(EntryReads)
    BY <1>12, <1>16, <2>1, ReadsAreFiles DEF BuildEntry, BaseInv, GotOK, ReadsOf
  <2>2. CASE orch' = Idle
    BY <1>5, <1>16, <2>2 DEF BuildEntry, reportVars, repo
  <2>3. CASE ~ReadNext(EntryReads) /\ orch' # Idle
    <3>. DEFINE e == [slot |-> orch.slot, body |-> orch.got["body"],
                      claim |-> orch.status, run |-> runid]
    <3>1. orch' = [orch EXCEPT !.pc = "get", !.got = Nothing, !.entry = e]
      BY <1>16, <2>3 DEF BuildEntry
    <3>2. [slot |-> e.slot, run |-> e.run, status |-> e.claim] \in receipts
      BY <1>16 DEF BuildEntry, AgreedInv
    <3>. HIDE DEF e
    <3>3. orch'.pc = "get" /\ orch'.entry = e
      BY <1>2, <3>1 DEF OrchFields
    <3>4. DOMAIN orch'.got = {}
      BY <1>3, <3>3
    <3>5. UNCHANGED <<hist, runner, wire, ptr, receipts>>
      BY <1>16 DEF BuildEntry, reportVars, repo
    <3>6. PointerMatchesReceipt'
      BY <3>5 DEF AgreedInv, PointerMatchesReceipt
    <3>. QED
      BY <3>2, <3>3, <3>4, <3>5, <3>6 DEF AgreedInv, SaysReady, runner
  <2>. QED
    BY <2>1, <2>2, <2>3
\* The entry is about to be written.
<1>17. ASSUME Kept, receipts' = receipts, orch.pc \in {"get", "put"}, orch'.pc \in {"get", "put"},
              orch'.entry = orch.entry
       PROVE  AgreedInv'
  <2>1. DOMAIN orch'.got = {}
    BY <1>3, <1>17
  <2>2. PointerMatchesReceipt'
    BY <1>17 DEF AgreedInv, PointerMatchesReceipt
  <2>. QED
    BY <1>17, <2>1, <2>2 DEF AgreedInv, SaysReady, runner
<1>18. CASE GetPointer
  <2>1. CASE orch' # Idle
    BY <1>2, <1>17, <1>18, <2>1 DEF GetPointer, OrchFields, reportVars, repo
  <2>. QED
    BY <1>5, <1>18, <2>1 DEF GetPointer, reportVars, repo
<1>19. CASE PutConflict
  <2>1. CASE orch' # Idle
    BY <1>2, <1>17, <1>19, <2>1 DEF PutConflict, OrchFields, reportVars, repo
  <2>. QED
    BY <1>5, <1>19, <2>1 DEF PutConflict, reportVars, repo
<1>20. ASSUME orch.pc = "put", NEW new, new = Merged(orch.entry, orch.seen)
       PROVE  [slot |-> new.slot, run |-> new.run, status |-> new.claim] \in receipts
  BY <1>20 DEF AgreedInv, Merged
<1>21. ASSUME orch' = Idle, UNCHANGED <<hist, runner, receipts>>, PointerMatchesReceipt',
              \A w \in wire' : [slot |-> w.new.slot, run |-> w.new.run, status |-> w.new.claim] \in receipts
       PROVE  AgreedInv'
  <2>1. orch'.pc = "idle" /\ DOMAIN orch'.got = {}
    BY <1>21, NothingRead DEF Idle
  <2>. QED
    BY <1>21, <2>1 DEF AgreedInv, SaysReady, runner
<1>22. CASE PutLands
  <2>1. PointerMatchesReceipt'
    BY <1>20, <1>22 DEF PutLands, SetPointer, PointerMatchesReceipt
  <2>. QED
    BY <1>21, <1>22, <2>1 DEF PutLands, SetPointer, AgreedInv
<1>23. CASE PutLost
  <2>1. PointerMatchesReceipt'
    BY <1>23 DEF PutLost, AgreedInv, PointerMatchesReceipt
  <2>2. \A w \in wire' : [slot |-> w.new.slot, run |-> w.new.run, status |-> w.new.claim] \in receipts
    <3>1. \A w \in wire : [slot |-> w.new.slot, run |-> w.new.run, status |-> w.new.claim] \in receipts
      BY DEF AgreedInv
    <3>2. \A w \in wire' : w \in wire \/ w.new = Merged(orch.entry, orch.seen)
      BY <1>23 DEF PutLost
    <3>. QED
      BY <1>20, <1>23, <3>1, <3>2 DEF PutLost
  <2>. QED
    BY <1>21, <1>23, <2>1, <2>2 DEF PutLost, reportVars, repo
<1>24. CASE LatePut
  <2>1. PointerMatchesReceipt'
    BY <1>24 DEF LatePut, SetPointer, AgreedInv, PointerMatchesReceipt
  <2>2. UNCHANGED <<hist, runner, receipts, runid, orch>> /\ wire' \subseteq wire
    BY <1>24 DEF LatePut, SetPointer
  <2>. QED
    BY <2>1, <2>2 DEF AgreedInv, SaysReady, Quiet, Busy, runner
<1>25. CASE StepFails
  <2>1. orch'.pc = "receipt" /\ orch'.status = "FAILED"
    BY <1>2, <1>25 DEF StepFails, OrchFields
  <2>. QED
    BY <1>4, <1>25, <2>1 DEF StepFails, SaysReady, Publishable, reportVars, repo
<1>26. CASE OrchDies
  BY <1>5, <1>26 DEF OrchDies, reportVars, repo
<1>27. CASE OrchStep
  BY <1>27, <1>9, <1>10, <1>11, <1>13, <1>14, <1>15, <1>16, <1>18, <1>19, <1>22, <1>23, <1>25, <1>26
     DEF OrchStep
<1>28. CASE OtherPush /\ UNCHANGED serving
  BY <1>7, <1>28 DEF OtherPush
<1>29. CASE UNCHANGED vars
  BY <1>7, <1>29 DEF vars, reportVars, repo
<1>. QED
  BY <1>6, <1>8, <1>24, <1>27, <1>28, <1>29 DEF Next

\* Without comments the slot is the orchestrator's own throughout.
LEMMA AgreedHolds == ASSUME ~Comments PROVE Spec => []AgreedInv
  BY BaseHolds, InitAgreed, NextAgreed, PTL DEF Spec

\* Without reports started by comment, the pointer says of its slot what its
\* receipt says: the group of the slot and the watch keep other runs from writing
\* between the verification of the receipt and that of the pointer.
THEOREM PointerAgrees == ASSUME ~Comments PROVE Spec => []PointerMatchesReceipt
<1>1. AgreedInv => PointerMatchesReceipt
  BY DEF AgreedInv
<1>. QED
  BY <1>1, AgreedHolds, PTL

-----------------------------------------------------------------------------
(* Without forced ticks either *)

\* Once a READY receipt is there nothing writes its slot again, so the body a
\* pointer names stays.
StayInv ==
  /\ ~orch.force
  /\ \A c \in receipts :
       c.status \in Publishable => Quiet(c.slot) /\ (orch.pc = "report" => orch.slot # c.slot)
  /\ orch.pc \in {"get", "put"} => hist[orch.entry.slot]["body"] = orch.entry.body
  /\ \A w \in wire : hist[w.new.slot]["body"] = w.new.body
  /\ PointerResolves

\* Initially nothing is there.
LEMMA InitStay == Init => StayInv
  BY DEF Init, StayInv, Idle, PointerResolves

\* Every step keeps the slots that have a READY receipt as they are.
LEMMA NextStay ==
  ASSUME ~Comments, ~Forced
  PROVE  BaseInv /\ AgreedInv /\ StayInv /\ [Next]_vars => StayInv'
<1>. SUFFICES ASSUME BaseInv, AgreedInv, StayInv, [Next]_vars PROVE StayInv'
  OBVIOUS
<1>1. OrchFields \subseteq DOMAIN orch
  BY DEF BaseInv, IInv, OrchOK
<1>2. \A c \in receipts : c.slot \in Slots
  BY DEF BaseInv, RestOK, Receipt
\* The files of what was said and what is being written do not change.
<1>3. ASSUME \A c \in receipts : c.status \in Publishable => Quiet(c.slot)' /\ hist'[c.slot] = hist[c.slot],
             orch'.pc = "report" => orch.pc = "report" /\ orch'.slot = orch.slot,
             orch'.force => orch.force,
             orch'.pc \in {"get", "put"} =>
               orch.pc \in {"get", "put"} /\ orch'.entry = orch.entry,
             receipts' = receipts, wire' \subseteq wire, ptr' = ptr
      PROVE  StayInv'
  <2>1. /\ orch.pc \in {"get", "put"} => hist'[orch.entry.slot] = hist[orch.entry.slot]
        /\ \A w \in wire : hist'[w.new.slot] = hist[w.new.slot]
        /\ ptr # None => hist'[ptr.slot] = hist[ptr.slot]
    <3>1. /\ orch.pc \in {"get", "put"} => orch.entry.claim \in Publishable
          /\ \A w \in wire : w.new.claim \in Publishable
          /\ ptr # None => ptr.claim \in Publishable
      BY DEF BaseInv, IInv, OrchOK, WireOK, Pointer, Entry
    <3>2. ASSUME NEW c \in receipts, c.status \in Publishable PROVE hist'[c.slot] = hist[c.slot]
      BY <1>3, <3>2
    <3>. QED
      BY <3>1, <3>2 DEF AgreedInv, PointerMatchesReceipt
  <2>. QED
    BY <1>3, <2>1 DEF StayInv, PointerResolves
<1>4. ASSUME UNCHANGED <<hist, runner>>
      PROVE  \A c \in receipts : c.status \in Publishable => Quiet(c.slot)' /\ hist'[c.slot] = hist[c.slot]
  BY <1>4 DEF StayInv, Quiet, Busy, runner
<1>5. ASSUME NEW r \in Runs, RunStep(r) \/ Fail(r), UNCHANGED serving PROVE StayInv'
  <2>1. ASSUME NEW c \in receipts, c.status \in Publishable
        PROVE  Quiet(c.slot)' /\ hist'[c.slot] = hist[c.slot]
    <3>1. c.slot \in Slots /\ Quiet(c.slot)
      BY <1>2, <2>1 DEF StayInv
    <3>2. c' = c
      OBVIOUS
    <3>. QED
      BY <1>5, <3>1, QuietStays DEF BaseInv, Quiet
  <2>. QED
    BY <1>3, <1>5, <2>1 DEF serving
\* Nothing but the run in progress changes.
<1>6. ASSUME UNCHANGED <<hist, runner, receipts, ptr, wire>>,
             orch'.pc \notin {"report", "get", "put"}, orch'.force => orch.force
      PROVE  StayInv'
  BY <1>3, <1>4, <1>6
<1>7. ASSUME UNCHANGED <<hist, runner, receipts, ptr, wire>>, orch' = Idle PROVE StayInv'
  BY <1>6, <1>7 DEF Idle
<1>8. ASSUME NEW s \in Slots, NEW f \in BOOLEAN, f => Forced, Tick(s, f) PROVE StayInv'
  <2>1. orch'.pc = "guard" /\ ~orch'.force
    BY <1>8 DEF Tick, Idle
  <2>. QED
    BY <1>6, <1>8, <2>1 DEF Tick, reportVars, repo
<1>9. CASE Guard
  <2>1. CASE Reusable
    <3>1. orch'.pc = "receipt" /\ orch'.force = orch.force
      BY <1>1, <1>9, <2>1 DEF Guard, OrchFields
    <3>. QED
      BY <1>6, <1>9, <3>1 DEF Guard, reportVars, repo
  <2>2. CASE ~Reusable
    <3>1. orch'.pc = "report" /\ orch'.force = orch.force /\ orch'.slot = orch.slot
      BY <1>1, <1>9, <2>2 DEF Guard, OrchFields
    <3>2. \A c \in receipts : c.status \in Publishable => orch.slot # c.slot
      BY <2>2 DEF Reusable, StayInv, Publishable
    <3>3. UNCHANGED <<hist, runner, receipts, ptr, wire>>
      BY <1>9 DEF Guard, reportVars, repo
    <3>. QED
      BY <1>4, <3>1, <3>2, <3>3 DEF StayInv, PointerResolves
  <2>. QED
    BY <2>1, <2>2
<1>10. ASSUME NEW r \in Runs, DispatchReport(r) PROVE StayInv'
  <2>1. orch'.pc = "watch" /\ orch'.force = orch.force
    BY <1>1, <1>10 DEF DispatchReport, OrchFields
  <2>2. /\ slot'[r] = orch.slot /\ orch.pc = "report" /\ UNCHANGED <<hist, receipts, wire, ptr>>
        /\ \A q \in Runs \ {r} : /\ slot'[q] = slot[q]
                                 /\ pc'[q] = pc[q] \/ pc'[q] = "cancelled"
    BY <1>10 DEF DispatchReport, Trigger, repo, BaseInv, ReportInv, ReportTypeOK
  <2>3. ASSUME NEW c \in receipts, c.status \in Publishable PROVE Quiet(c.slot)'
    <3>1. Quiet(c.slot) /\ orch.slot # c.slot
      BY <2>2, <2>3 DEF StayInv
    <3>. QED
      BY <2>2, <3>1 DEF Quiet, Busy, Ended
  <2>. QED
    BY <1>3, <2>1, <2>2, <2>3
<1>11. CASE Watch
  <2>1. orch'.pc \in {"verify", "receipt"} /\ orch'.force = orch.force
    BY <1>1, <1>11 DEF Watch, OrchFields
  <2>. QED
    BY <1>6, <1>11, <2>1 DEF Watch, reportVars, repo
<1>12. CASE Verify
  <2>1. orch'.pc \in {"verify", "receipt"} /\ orch'.force = orch.force
    BY <1>1, <1>12 DEF Verify, ReadNext, OrchFields
  <2>. QED
    BY <1>6, <1>12, <2>1 DEF Verify, reportVars, repo
\* A receipt that says READY says it of a quiet slot.
<1>13. ASSUME UNCHANGED <<hist, runner, ptr, wire>>, receipts \subseteq receipts',
              \A c \in receipts' \ receipts :
                /\ orch.pc = "receipt"
                /\ c = [slot |-> orch.slot, run |-> runid, status |-> orch.status],
              orch'.pc \in {"idle", "audit"}, ~orch'.force
       PROVE  StayInv'
  <2>1. \A c \in receipts' : c.status \in Publishable => Quiet(c.slot)
    BY <1>13 DEF StayInv, AgreedInv, SaysReady
  <2>2. \A c \in receipts' : c.status \in Publishable => Quiet(c.slot)'
    BY <1>13, <2>1 DEF Quiet, Busy, runner
  <2>. QED
    BY <1>13, <2>2 DEF StayInv, PointerResolves
<1>14. CASE PostReceipt
  <2>1. orch'.pc \in {"idle", "audit"} /\ ~orch'.force
    BY <1>1, <1>14 DEF PostReceipt, Idle, OrchFields, StayInv
  <2>. QED
    BY <1>13, <1>14, <2>1 DEF PostReceipt, reportVars, repo
<1>15. CASE OrchDies
  <2>1. orch'.pc = "idle" /\ ~orch'.force
    BY <1>15 DEF OrchDies, Idle
  <2>2. /\ receipts \subseteq receipts'
        /\ \A c \in receipts' \ receipts :
             /\ orch.pc = "receipt"
             /\ c = [slot |-> orch.slot, run |-> runid, status |-> orch.status]
    BY <1>15 DEF OrchDies
  <2>. QED
    BY <1>13, <1>15, <2>1, <2>2 DEF OrchDies, reportVars, repo
<1>16. CASE Audit
  <2>1. orch'.pc \in {"audit", "entry", "idle"} /\ (orch'.force => orch.force)
    <3>1. CASE ReadNext(AuditReads)
      BY <1>1, <1>16, <3>1 DEF Audit, ReadNext, OrchFields
    <3>2. CASE orch' = Idle
      BY <3>2 DEF Idle
    <3>3. CASE ~ReadNext(AuditReads) /\ orch' # Idle
      BY <1>1, <1>16, <3>3 DEF Audit, OrchFields
    <3>. QED
      BY <3>1, <3>2, <3>3
  <2>. QED
    BY <1>6, <1>16, <2>1 DEF Audit, reportVars, repo
<1>17. CASE BuildEntry
  <2>1. CASE ReadNext(EntryReads)
    <3>1. orch'.pc = "entry" /\ orch'.force = orch.force
      BY <1>1, <1>17, <2>1 DEF BuildEntry, ReadNext, OrchFields
    <3>. QED
      BY <1>6, <1>17, <3>1 DEF BuildEntry, reportVars, repo
  <2>2. CASE orch' = Idle
    BY <1>7, <1>17, <2>2 DEF BuildEntry, reportVars, repo
  <2>3. CASE ~ReadNext(EntryReads) /\ orch' # Idle
    <3>. DEFINE e == [slot |-> orch.slot, body |-> orch.got["body"],
                      claim |-> orch.status, run |-> runid]
    <3>1. orch' = [orch EXCEPT !.pc = "get", !.got = Nothing, !.entry = e]
      BY <1>17, <2>3 DEF BuildEntry
    <3>2. hist[e.slot]["body"] = e.body
      <4>1. "body" \in DOMAIN orch.got
        BY <1>17, <2>3, AllWereRead, ReadsAreFiles DEF BuildEntry, BaseInv, GotOK, ReadsOf
      <4>. QED
        BY <4>1 DEF AgreedInv, HistFiles
    <3>. HIDE DEF e
    <3>3. orch'.pc = "get" /\ orch'.entry = e /\ orch'.force = orch.force
      BY <1>1, <3>1 DEF OrchFields
    <3>4. UNCHANGED <<hist, runner, wire, ptr, receipts>>
      BY <1>17 DEF BuildEntry, reportVars, repo
    <3>. QED
      BY <1>4, <3>2, <3>3, <3>4 DEF StayInv, PointerResolves
  <2>. QED
    BY <2>1, <2>2, <2>3
<1>18. CASE GetPointer
  <2>1. CASE orch' # Idle
    <3>1. /\ orch.pc = "get" /\ orch'.pc = "put" /\ orch'.entry = orch.entry
          /\ orch'.force = orch.force
      BY <1>1, <1>18, <2>1 DEF GetPointer, OrchFields
    <3>. QED
      BY <1>3, <1>4, <1>18, <3>1 DEF GetPointer, reportVars, repo
  <2>. QED
    BY <1>7, <1>18, <2>1 DEF GetPointer, reportVars, repo
<1>19. CASE PutConflict
  <2>1. CASE orch' # Idle
    <3>1. /\ orch.pc = "put" /\ orch'.pc = "get" /\ orch'.entry = orch.entry
          /\ orch'.force = orch.force
      BY <1>1, <1>19, <2>1 DEF PutConflict, OrchFields
    <3>. QED
      BY <1>3, <1>4, <1>19, <3>1 DEF PutConflict, reportVars, repo
  <2>. QED
    BY <1>7, <1>19, <2>1 DEF PutConflict, reportVars, repo
<1>20. ASSUME orch.pc = "put", NEW new, new = Merged(orch.entry, orch.seen)
       PROVE  hist[new.slot]["body"] = new.body
  BY <1>20 DEF StayInv, Merged
<1>21. ASSUME UNCHANGED <<hist, runner, receipts>>, PointerResolves', ~orch'.force,
              orch' = Idle \/ orch' = orch,
              \A w \in wire' : hist[w.new.slot]["body"] = w.new.body
       PROVE  StayInv'
  <2>1. CASE orch' = Idle
    BY <1>4, <1>21, <2>1 DEF StayInv, Idle
  <2>2. CASE orch' = orch
    BY <1>4, <1>21, <2>2 DEF StayInv
  <2>. QED
    BY <1>21, <2>1, <2>2
<1>22. CASE PutLands
  <2>1. PointerResolves'
    BY <1>20, <1>22 DEF PutLands, SetPointer, PointerResolves
  <2>. QED
    BY <1>21, <1>22, <2>1 DEF PutLands, SetPointer, StayInv, Idle
<1>23. CASE PutLost
  <2>1. \A w \in wire' : w \in wire \/ w.new = Merged(orch.entry, orch.seen)
    BY <1>23 DEF PutLost
  <2>2. \A w \in wire' : hist[w.new.slot]["body"] = w.new.body
    BY <1>20, <1>23, <2>1 DEF PutLost, StayInv
  <2>3. PointerResolves'
    BY <1>23 DEF PutLost, StayInv, PointerResolves, reportVars, repo
  <2>. QED
    BY <1>21, <1>23, <2>2, <2>3 DEF PutLost, reportVars, repo, Idle
<1>24. CASE LatePut
  <2>1. PointerResolves'
    BY <1>24 DEF LatePut, SetPointer, StayInv, PointerResolves
  <2>. QED
    BY <1>21, <1>24, <2>1 DEF LatePut, SetPointer, StayInv
<1>25. CASE StepFails
  <2>1. orch'.pc = "receipt" /\ orch'.force = orch.force
    BY <1>1, <1>25 DEF StepFails, OrchFields
  <2>. QED
    BY <1>6, <1>25, <2>1 DEF StepFails, reportVars, repo
<1>26. CASE OrchStep
  BY <1>26, <1>9, <1>10, <1>11, <1>12, <1>14, <1>15, <1>16, <1>17, <1>18, <1>19, <1>22, <1>23, <1>25
     DEF OrchStep
<1>27. ASSUME UNCHANGED <<hist, runner, serving>> PROVE StayInv'
  BY <1>3, <1>4, <1>27 DEF serving
<1>28. CASE OtherPush /\ UNCHANGED serving
  BY <1>27, <1>28 DEF OtherPush
<1>29. CASE UNCHANGED vars
  BY <1>27, <1>29 DEF vars, reportVars, repo
<1>. QED
  BY <1>5, <1>8, <1>24, <1>26, <1>28, <1>29 DEF Next

LEMMA StayHolds == ASSUME ~Comments, ~Forced PROVE Spec => [](BaseInv /\ AgreedInv /\ StayInv)
<1>1. Init => BaseInv /\ AgreedInv /\ StayInv
  BY InitBase, InitAgreed, InitStay
<1>2. BaseInv /\ AgreedInv /\ StayInv /\ [Next]_vars => (BaseInv /\ AgreedInv /\ StayInv)'
  BY NextBase, NextAgreed, NextStay
<1>. QED
  BY <1>1, <1>2, PTL DEF Spec

\* Without forced ticks and reports started by comment, the body a pointer names
\* stays where the pointer says: the guard and the watch keep every later run of
\* the slot from writing, although the publisher's own check does not.
THEOREM PointerStaysResolved == ASSUME ~Comments, ~Forced PROVE Spec => []PointerResolves
<1>1. StayInv => PointerResolves
  BY DEF StayInv
<1>. QED
  BY <1>1, StayHolds, PTL

-----------------------------------------------------------------------------
(* One outlet *)

\* From the guard to the receipt nobody has said READY of the orchestrator's slot,
\* and when it is about to, the digest of the slot is of the body there.
SayingReady == orch.pc = "receipt" /\ orch.status \in Publishable
UnsaidInv ==
  /\ orch.pc \in {"report", "watch", "verify"} \/ SayingReady =>
       \A c \in ReadyReceipts : c.slot # orch.slot
  /\ SayingReady => hist[orch.slot]["body"] = hist[orch.slot]["digest"]

\* What a classification that passes has read of the slot is still there.
LEMMA VerifyBinds ==
  ASSUME BaseInv, AgreedInv, orch.pc = "verify", AllRead(VerifyReads), Classified(orch.got)
  PROVE  hist[orch.slot]["body"] = hist[orch.slot]["digest"]
<1>1. {"digest", "body"} \subseteq DOMAIN orch.got
  BY AllWereRead, ReadsAreFiles DEF BaseInv, GotOK, ReadsOf
<1>2. /\ orch.got["digest"] = hist[orch.slot]["digest"]
      /\ orch.got["body"] = hist[orch.slot]["body"]
  BY <1>1 DEF AgreedInv, HistFiles
<1>. QED
  BY <1>2 DEF Classified, Terminal

\* A step before the receipt is posted says nothing, and keeps what is to be said.
LEMMA UnsaidStep ==
  ASSUME BaseInv, AgreedInv, StayInv, StayInv', UnsaidInv, ~Comments, [Next]_vars
  PROVE  UnsaidInv'
<1>1. OrchFields \subseteq DOMAIN orch
  BY DEF BaseInv, IInv, OrchOK
<1>2. ASSUME orch'.pc \in {"idle", "guard", "audit", "entry", "get", "put"} PROVE UnsaidInv'
  BY <1>2 DEF UnsaidInv, SayingReady
<1>3. ASSUME receipts' = receipts, orch'.slot = orch.slot, orch'.status \notin Publishable,
             orch.pc \in {"report", "watch", "verify"}
      PROVE  UnsaidInv'
  BY <1>3 DEF UnsaidInv, SayingReady, ReadyReceipts
<1>4. ASSUME UNCHANGED <<hist, receipts, orch>> PROVE UnsaidInv'
  BY <1>4 DEF UnsaidInv, SayingReady, ReadyReceipts
<1>5. ASSUME NEW r \in Runs, RunStep(r) \/ Fail(r), UNCHANGED serving PROVE UnsaidInv'
  <2>1. orch.pc = "receipt" /\ orch.status \in Publishable => hist'[orch.slot] = hist[orch.slot]
    <3>1. ASSUME orch.pc = "receipt", orch.status \in Publishable
          PROVE  orch.slot \in Slots /\ Quiet(orch.slot)
      BY <3>1 DEF AgreedInv, SaysReady, BaseInv, IInv, OrchOK
    <3>. QED
      BY <1>5, <3>1, QuietStays DEF BaseInv
  <2>. QED
    BY <1>5, <2>1 DEF UnsaidInv, SayingReady, ReadyReceipts, serving
<1>6. CASE Guard
  <2>1. CASE Reusable
    <3>1. orch'.pc = "receipt" /\ orch'.status = "READY_REUSED"
      BY <1>1, <1>6, <2>1 DEF Guard, OrchFields
    <3>. QED
      BY <3>1 DEF UnsaidInv, SayingReady, Publishable
  <2>2. CASE ~Reusable
    <3>1. orch'.pc = "report" /\ orch'.status = orch.status /\ receipts' = receipts
      BY <1>1, <1>6, <2>2 DEF Guard, OrchFields
    <3>2. \A c \in ReadyReceipts' : c.slot # orch'.slot
      BY <3>1 DEF StayInv, ReadyReceipts
    <3>. QED
      BY <3>1, <3>2 DEF UnsaidInv, SayingReady
  <2>. QED
    BY <2>1, <2>2
<1>7. ASSUME NEW r \in Runs, DispatchReport(r) PROVE UnsaidInv'
  <2>1. /\ orch.pc = "report" /\ orch'.status = orch.status /\ orch'.slot = orch.slot
        /\ receipts' = receipts
    BY <1>1, <1>7 DEF DispatchReport, OrchFields
  <2>. QED
    BY <1>3, <2>1 DEF AgreedInv
<1>8. CASE Watch
  <2>1. /\ orch.pc = "watch" /\ orch'.status = orch.status /\ orch'.slot = orch.slot
        /\ receipts' = receipts
    BY <1>1, <1>8 DEF Watch, OrchFields
  <2>. QED
    BY <1>3, <2>1 DEF AgreedInv
<1>9. CASE Verify
  <2>1. CASE ReadNext(VerifyReads)
    <3>1. /\ orch.pc = "verify" /\ orch'.status = orch.status /\ orch'.slot = orch.slot
          /\ receipts' = receipts
      BY <1>1, <1>9, <2>1 DEF Verify, ReadNext, OrchFields
    <3>. QED
      BY <1>3, <3>1 DEF AgreedInv
  <2>2. CASE ~ReadNext(VerifyReads)
    <3>. DEFINE ok == Classified(orch.got)
                claim == report[orch.got["latest status"]].claim
    <3>1. /\ orch.pc = "verify" /\ receipts' = receipts /\ hist' = hist
          /\ orch' = [orch EXCEPT !.pc = "receipt", !.got = Nothing,
                                  !.status = IF ok THEN claim ELSE "FAILED"]
      BY <1>9, <2>2 DEF Verify, reportVars, repo
    <3>2. ok => hist[orch.slot]["body"] = hist[orch.slot]["digest"]
      BY <1>9, <2>2, VerifyBinds DEF Verify
    <3>. HIDE DEF ok, claim
    <3>3. orch'.pc = "receipt" /\ orch'.slot = orch.slot /\ orch'.status = IF ok THEN claim ELSE "FAILED"
      BY <1>1, <3>1 DEF OrchFields
    <3>4. CASE ok
      <4>1. /\ orch.pc = "verify" /\ receipts' = receipts /\ hist' = hist
            /\ hist[orch.slot]["body"] = hist[orch.slot]["digest"]
        BY <3>1, <3>2, <3>4
      <4>2. \A c \in ReadyReceipts : c.slot # orch.slot
        BY <4>1 DEF UnsaidInv, SayingReady
      <4>. QED
        BY <3>3, <4>1, <4>2 DEF UnsaidInv, SayingReady, ReadyReceipts
    <3>5. CASE ~ok
      BY <1>3, <3>1, <3>3, <3>5 DEF Publishable
    <3>. QED
      BY <3>4, <3>5
  <2>. QED
    BY <2>1, <2>2
<1>10. CASE StepFails
  <2>1. /\ orch.pc \in {"report", "watch", "verify"} /\ orch'.status = "FAILED"
        /\ orch'.slot = orch.slot /\ receipts' = receipts
    BY <1>1, <1>10 DEF StepFails, OrchFields
  <2>. QED
    BY <1>3, <2>1 DEF Publishable
<1>11. CASE PostReceipt \/ OrchDies \/ Audit \/ BuildEntry \/ GetPointer \/ PutLands \/ PutConflict \/ PutLost
  <2>1. CASE PostReceipt
    BY <1>1, <1>2, <2>1 DEF PostReceipt, Idle, OrchFields
  <2>2. CASE Audit
    <3>1. CASE ReadNext(AuditReads)
      BY <1>1, <1>2, <2>2, <3>1 DEF Audit, ReadNext, OrchFields
    <3>2. CASE orch' = Idle
      BY <1>2, <3>2 DEF Idle
    <3>3. CASE ~ReadNext(AuditReads) /\ orch' # Idle
      <4>. DEFINE claim == report[orch.got["status"]].claim
      <4>1. orch' = [orch EXCEPT !.pc = "entry", !.got = Nothing, !.status = claim]
        BY <2>2, <3>3 DEF Audit
      <4>. HIDE DEF claim
      <4>. QED
        BY <1>1, <1>2, <4>1 DEF OrchFields
    <3>. QED
      BY <3>1, <3>2, <3>3
  <2>3. CASE BuildEntry
    <3>1. CASE ReadNext(EntryReads)
      BY <1>1, <1>2, <2>3, <3>1 DEF BuildEntry, ReadNext, OrchFields
    <3>2. CASE orch' = Idle
      BY <1>2, <3>2 DEF Idle
    <3>3. CASE ~ReadNext(EntryReads) /\ orch' # Idle
      <4>. DEFINE entry == [slot |-> orch.slot, body |-> orch.got["body"], claim |-> orch.status, run |-> runid]
      <4>1. orch' = [orch EXCEPT !.pc = "get", !.got = Nothing, !.entry = entry]
        BY <2>3, <3>3 DEF BuildEntry
      <4>. HIDE DEF entry
      <4>. QED
        BY <1>1, <1>2, <4>1 DEF OrchFields
    <3>. QED
      BY <3>1, <3>2, <3>3
  <2>4. CASE GetPointer
    BY <1>1, <1>2, <2>4 DEF GetPointer, Idle, OrchFields
  <2>5. CASE PutConflict
    BY <1>1, <1>2, <2>5 DEF PutConflict, Idle, OrchFields
  <2>6. CASE OrchDies \/ PutLands \/ PutLost
    BY <1>2, <2>6 DEF OrchDies, PutLands, PutLost, Idle
  <2>. QED
    BY <1>11, <2>1, <2>2, <2>3, <2>4, <2>5, <2>6
<1>12. ASSUME NEW s \in Slots, NEW f \in BOOLEAN, Tick(s, f) PROVE UnsaidInv'
  BY <1>2, <1>12 DEF Tick, Idle
<1>13. CASE LatePut \/ (OtherPush /\ UNCHANGED serving) \/ UNCHANGED vars
  BY <1>4, <1>13 DEF LatePut, SetPointer, OtherPush, vars, serving, reportVars, repo
<1>. QED
  BY <1>5, <1>6, <1>7, <1>8, <1>9, <1>10, <1>11, <1>12, <1>13 DEF Next, OrchStep

LEMMA UnsaidHolds == ASSUME ~Comments, ~Forced PROVE Spec => []UnsaidInv
<1>1. Init => UnsaidInv
  BY DEF Init, UnsaidInv, SayingReady, Idle
<1>2. BaseInv /\ AgreedInv /\ StayInv /\ (BaseInv /\ AgreedInv /\ StayInv)' /\ UnsaidInv /\ [Next]_vars
        => UnsaidInv'
  BY UnsaidStep
<1>. QED
  BY <1>1, <1>2, StayHolds, PTL DEF Spec

\* What is filed of a slot with a READY receipt does not change.
LEMMA FiledStays ==
  ASSUME BaseInv, StayInv, ~Comments, [Next]_vars, NEW c \in ReadyReceipts
  PROVE  Filed(c.slot)' = Filed(c.slot)
<1>. DEFINE s == c.slot
            v == hist[s]["body"]
<1>1. /\ c \in receipts /\ s \in Slots /\ Quiet(s)
  BY DEF ReadyReceipts, StayInv, BaseInv, RestOK, Receipt
<1>2. v \in Runs => slot[v] = s /\ ~Busy(v)
  <2>1. View(s)["body"] \in Provenance(s) /\ View(s)["body"] = v
    BY <1>1 DEF BaseInv, ReportInv, TreesOK, Trees, HistFiles, View, Files
  <2>. QED
    BY <1>1, <2>1, RunsAssumption DEF Provenance, Authors, Quiet
<1>. HIDE DEF s
<1>3. ASSUME hist'[s] = hist[s], v \in Runs => report'[v] = report[v]
      PROVE  Filed(s)' = Filed(s)
  BY <1>3 DEF Filed
<1>4. ASSUME NEW r \in Runs, RunStep(r) \/ Fail(r)
      PROVE  hist'[s] = hist[s] /\ (v \in Runs => report'[v] = report[v])
  BY <1>1, <1>2, <1>4, StepOfBusy, QuietStays DEF BaseInv, Quiet
<1>5. \/ \E r \in Runs : RunStep(r) \/ Fail(r)
      \/ UNCHANGED <<hist, report>>
  BY DEF Next, vars, serving, Tick, OrchStep, Guard, DispatchReport, Trigger, Watch, Verify, PostReceipt,
     Audit, BuildEntry, GetPointer, PutLands, PutConflict, PutLost, LatePut, SetPointer, StepFails,
     OrchDies, OtherPush, reportVars, repo, runner
<1>6. Filed(s)' = Filed(s)
  BY <1>3, <1>4, <1>5
<1>. QED
  BY <1>6 DEF s

\* A step posts a receipt, moves the pointer, or leaves both alone.
LEMMA OutletSteps ==
  ASSUME BaseInv, [Next]_vars
  PROVE  \/ UNCHANGED <<receipts, ptr>>
         \/ /\ UNCHANGED <<hist, report, ptr>> /\ orch.pc = "receipt"
            /\ receipts' = receipts \cup
                 {[slot |-> orch.slot, run |-> runid, status |-> orch.status]}
         \/ UNCHANGED <<hist, report, receipts>> /\ ptr' # ptr
<1>1. CASE PostReceipt \/ OrchDies
  BY <1>1 DEF PostReceipt, OrchDies, reportVars, repo, runner
<1>2. CASE PutLands \/ LatePut
  BY <1>2 DEF PutLands, LatePut, SetPointer, reportVars, repo, runner
<1>. QED
  BY <1>1, <1>2 DEF Next, vars, serving, Tick, OrchStep, Guard, DispatchReport, Watch, Verify,
     Audit, BuildEntry, GetPointer, PutConflict, PutLost, StepFails

\* Without reports started by comment and forced ticks, orchestrator, report runs
\* and pointer are one outlet: what is announced is announced once and of what
\* is there, stays there, and is what the pointer moves along.
THEOREM OneOutlet == ASSUME ~Comments, ~Forced PROVE Spec => ImplementsOutlet
<1>1. Init => Outlet!Init
  BY DEF Init, Outlet!Init, ReadyReceipts
<1>2. BaseInv /\ AgreedInv /\ StayInv /\ UnsaidInv /\ (BaseInv /\ AgreedInv /\ StayInv)' /\ [Next]_vars
        => [Outlet!Next]_(Outlet!outlet)
  <2>. SUFFICES ASSUME BaseInv, AgreedInv, StayInv, UnsaidInv, BaseInv', AgreedInv', StayInv',
                       [Next]_vars
                PROVE  [Outlet!Next]_(Outlet!outlet)
    OBVIOUS
  <2>. DEFINE filed == [s \in Slots |-> Filed(s)]
  <2>1. \A c \in ReadyReceipts : c.slot \in Slots
    BY DEF ReadyReceipts, BaseInv, RestOK, Receipt
  <2>2. DOMAIN filed' = Slots /\ \A s \in Slots : Outlet!Announced(s) => filed'[s] = filed[s]
    BY <2>1, FiledStays DEF Outlet!Announced
  <2>3. CASE UNCHANGED <<receipts, ptr>>
    <3>1. UNCHANGED <<ReadyReceipts, ptr>>
      BY <2>3 DEF ReadyReceipts
    <3>. QED
      BY <2>2, <3>1 DEF Outlet!Next, Outlet!File
  <2>4. ASSUME UNCHANGED <<hist, report, ptr>>, orch.pc = "receipt",
               receipts' = receipts \cup {[slot |-> orch.slot, run |-> runid, status |-> orch.status]}
        PROVE  [Outlet!Next]_(Outlet!outlet)
    <3>. DEFINE c == [slot |-> orch.slot, run |-> runid, status |-> orch.status]
    <3>1. filed' = filed
      BY <2>4 DEF Filed
    <3>2. CASE orch.status \notin Publishable
      <4>1. UNCHANGED ReadyReceipts
        BY <2>4, <3>2 DEF ReadyReceipts
      <4>. QED
        BY <2>4, <3>1, <4>1 DEF Outlet!outlet
    <3>3. CASE orch.status \in Publishable
      <4>1. ReadyReceipts' = ReadyReceipts \cup {c}
        BY <2>4, <3>3 DEF ReadyReceipts
      <4>2. orch.slot \in Slots /\ ~Outlet!Announced(orch.slot)
        BY <2>4, <3>3 DEF UnsaidInv, SayingReady, Outlet!Announced, BaseInv, IInv, OrchOK
      <4>3. c.slot = orch.slot /\ c.status = filed[orch.slot].claim
        <5>1. /\ hist[orch.slot]["digest"] \in Runs
              /\ hist[orch.slot]["body"] = hist[orch.slot]["digest"]
              /\ report[hist[orch.slot]["digest"]].claim = orch.status
          BY <2>4, <3>3 DEF AgreedInv, SaysReady, UnsaidInv, SayingReady
        <5>. QED
          BY <4>2, <5>1 DEF Filed
      <4>4. Outlet!Announce(orch.slot)
        BY <2>4, <3>1, <4>1, <4>2, <4>3 DEF Outlet!Announce
      <4>. QED
        BY <4>2, <4>4 DEF Outlet!Next
    <3>. QED
      BY <3>2, <3>3
  <2>5. ASSUME UNCHANGED <<hist, report, receipts>>, ptr' # ptr
        PROVE  Outlet!Next
    <3>. DEFINE c == [slot |-> ptr'.slot, run |-> ptr'.run, status |-> ptr'.claim]
    <3>1. UNCHANGED <<filed, ReadyReceipts>>
      BY <2>5 DEF Filed, ReadyReceipts
    <3>2. ptr' \in Pointer /\ Advances(ptr, ptr')
      BY <2>5, PointerStep DEF BaseInv, IInv
    <3>3. c \in ReadyReceipts /\ c.slot \in Slots
      BY <2>5, <3>2, PointerAssumption
         DEF AgreedInv, PointerMatchesReceipt, ReadyReceipts, Pointer
    <3>4. ptr'.body = filed[c.slot].body
      BY <2>5, <3>2, <3>3, PointerAssumption DEF StayInv, PointerResolves, Filed
    <3>5. ptr' = [slot |-> c.slot, run |-> c.run, claim |-> c.status, body |-> filed[c.slot].body,
                  sequence |-> IF ptr = None THEN 1 ELSE ptr.sequence + 1,
                  supersedes |-> IF ptr = None THEN 0 ELSE ptr.slot]
      BY <3>2, <3>4 DEF Pointer, Advances
    <3>6. ptr = None \/ c.slot > ptr.slot
      BY <3>2 DEF Advances
    <3>. QED
      BY <3>1, <3>3, <3>5, <3>6 DEF Outlet!Next, Outlet!Advance
  <2>. QED
    BY <2>3, <2>4, <2>5, OutletSteps
<1>. QED
  BY <1>1, <1>2, StayHolds, UnsaidHolds, PTL DEF Spec, ImplementsOutlet, Outlet!Spec
=============================================================================
