-------------------------- MODULE PrivateReportsProofs --------------------------
(***************************************************************************)
(* What holds of the report runs and of their repository, however they     *)
(* overlap and whatever fails: every file has content of its kind, and the *)
(* history of a slot is written by runs of that slot only, after they have *)
(* generated their report, which then no longer changes.                   *)
(***************************************************************************)
EXTENDS PrivateReports, TLAPS

\* A run here has generated no report yet.
Early == {"idle", "pending", "checkout", "generate"}

\* The runs of a slot whose report is settled.
Authors(s) == {r \in Runs : slot[r] = s /\ pc[r] \notin Early}

\* What the history files of a slot may hold.
Provenance(s) == Authors(s) \cup {None, Mixed}

\* What the files of latest/* may hold.
KindOf(f) == IF f = "latest manifest" THEN Manifest \cup {None} ELSE Runs \cup {None, Mixed}

\* The trees of a run of a slot: its history files and latest/*.
Trees(s) ==
  {t \in [Files -> Content] :
     /\ \A f \in HistFiles : t[f] \in Provenance(s)
     /\ \A f \in LatestFiles : t[f] \in KindOf(f)}

\* Before it is triggered a run has no files, after it a slot.
TriggerOK ==
  \A r \in Runs :
    IF pc[r] = "idle" THEN base[r] = NoFiles /\ mine[r] = NoFiles ELSE slot[r] \in Slots

\* The repository and what each run has of it.
TreesOK ==
  /\ \A s \in Slots : View(s) \in Trees(s)
  /\ \A r \in Runs : base[r] \in Trees(slot[r]) /\ mine[r] \in Trees(slot[r])

\* A run past its second commit has recorded the readback of a body of its slot.
ReadbackOK ==
  \A r \in Runs :
    /\ pc[r] = "second" => mine[r]["body"] \in Authors(slot[r])
    /\ pc[r] \in {"finish", "passed"} => \E v \in Authors(slot[r]) : v \in readback

\* Without reruns a slot has one run.
OneRunPerSlot ==
  ~Reruns => \A q, r \in Runs : slot[q] = slot[r] /\ slot[r] \in Slots => q = r

ReportInv == ReportTypeOK /\ TriggerOK /\ TreesOK /\ ReadbackOK /\ OneRunPerSlot

\* The tip of main moves by a push of other files.
TipMoves ==
  /\ rev' = rev + 1 /\ others' \in 0..OtherPushes
  /\ UNCHANGED <<hist, latest, runner, readback>>

\* What a step of anybody may do to runs and repository.
ReportStep ==
  \/ \E r \in Runs : RunStep(r) \/ Fail(r)
  \/ \E r \in Runs, k \in {"dispatch", "comment"}, s \in Slots : Trigger(r, k, s)
  \/ TipMoves
  \/ UNCHANGED reportVars

-----------------------------------------------------------------------------
(* Trees *)

\* An empty tree is one of every slot.
LEMMA NoFilesTree == ASSUME NEW s PROVE NoFiles \in Trees(s)
  BY DEF NoFiles, Trees, Provenance, KindOf, Content, Files

\* What is published from a tree of the slot is of the slot, and of no other.
LEMMA ViewTree ==
  ASSUME ReportTypeOK, NEW s \in Slots
  PROVE  /\ View(s) \in [Files -> Content]
         /\ \A f \in HistFiles : View(s)[f] = hist[s][f]
         /\ \A f \in LatestFiles : View(s)[f] = latest[f]
<1>1. /\ \A f \in HistFiles : hist[s][f] \in Content
      /\ \A f \in LatestFiles : latest[f] \in Content
  BY DEF ReportTypeOK
<1>. \A f \in LatestFiles : f \notin HistFiles
  BY DEF HistFiles, LatestFiles
<1>2. \A f \in Files : View(s)[f] = IF f \in HistFiles THEN hist[s][f] ELSE latest[f]
  BY DEF View
<1>3. View(s) \in [Files -> Content]
  BY <1>1 DEF View, Files
<1>. QED
  BY <1>1, <1>2, <1>3 DEF Files

\* What a run generates names that run, but for the manifest of a report without
\* native content.
LEMMA PublishedFiles ==
  ASSUME NEW r \in Runs, NEW q \in Report
  PROVE  /\ Published(r, q) \in [Files -> Content]
         /\ \A f \in HistFiles : Published(r, q)[f] = r
         /\ \A f \in LatestFiles : Published(r, q)[f] \in KindOf(f)
<1>. DEFINE t == Published(r, q)
<1>1. t["latest manifest"] \in Manifest \cup {None}
  BY DEF Published, Manifest, Files, LatestFiles
<1>2. \A f \in Files : f # "latest manifest" => t[f] = r
  BY DEF Published
<1>3. t \in [Files -> Content]
  BY <1>1, <1>2 DEF Published, Content
<1>4. "latest manifest" \notin HistFiles
  BY DEF HistFiles
<1>. QED
  BY <1>1, <1>2, <1>3, <1>4 DEF KindOf, Files

\* Recording a readback keeps a tree of the slot one, and its body.
LEMMA RecordedTree ==
  ASSUME NEW s, NEW t \in Trees(s)
  PROVE  Recorded(t) \in Trees(s) /\ Recorded(t)["body"] = t["body"]
<1>1. CASE t["latest manifest"] = None
  BY <1>1 DEF Recorded
<1>2. CASE t["latest manifest"] # None
  <2>1. t \in [Files -> Content] /\ t["latest manifest"] \in Manifest
    BY <1>2 DEF Trees, KindOf, LatestFiles
  <2>. DEFINE m == [t["latest manifest"] EXCEPT !.pass = TRUE]
  <2>2. m \in Manifest
    BY <2>1 DEF Manifest
  <2>3. Recorded(t) = [t EXCEPT !["latest manifest"] = m]
    BY <1>2 DEF Recorded
  <2>. HIDE DEF m
  <2>4. /\ Recorded(t) \in [Files -> Content]
        /\ Recorded(t)["latest manifest"] = m
        /\ \A f \in Files : f # "latest manifest" => Recorded(t)[f] = t[f]
    BY <2>1, <2>2, <2>3 DEF Files, LatestFiles, Content
  <2>. QED
    BY <2>1, <2>2, <2>4 DEF Trees, KindOf, Files, HistFiles, LatestFiles
<1>. QED
  BY <1>1, <1>2

\* A rebase that does not stop merges trees of the slot into one.
LEMMA ResolvedTree ==
  ASSUME NEW s, NEW b \in Trees(s), NEW t \in Trees(s), NEW m \in Trees(s), NEW remain,
         \A f \in Files : ~Conflict(b[f], t[f], m[f])
  PROVE  [f \in Files |-> Resolve(b[f], t[f], m[f], f \in remain)] \in Trees(s)
<1>. DEFINE R(f) == Resolve(b[f], t[f], m[f], f \in remain)
<1>1. ASSUME NEW f \in HistFiles PROVE R(f) \in Provenance(s)
  <2>1. b[f] \in Provenance(s) /\ t[f] \in Provenance(s) /\ m[f] \in Provenance(s)
    BY <1>1 DEF Trees
  <2>2. m[f] \notin Manifest
    BY <2>1, ContentAssumption DEF Provenance, Authors
  <2>. QED
    BY <2>1, <2>2 DEF Resolve, Provenance
<1>2. ASSUME NEW f \in LatestFiles PROVE R(f) \in KindOf(f)
  <2>1. b[f] \in KindOf(f) /\ t[f] \in KindOf(f) /\ m[f] \in KindOf(f)
    BY <1>2 DEF Trees
  <2>2. CASE f = "latest manifest"
    <3>1. b[f] \in Manifest \cup {None} /\ t[f] \in Manifest \cup {None} /\ m[f] \in Manifest \cup {None}
      BY <2>1, <2>2 DEF KindOf
    <3>2. CASE t[f] = b[f] \/ m[f] = b[f] \/ b[f] = None
      BY <2>2, <3>1, <3>2 DEF Resolve, KindOf
    <3>3. CASE ~(t[f] = b[f] \/ m[f] = b[f] \/ b[f] = None)
      <4>1. ~Conflict(b[f], t[f], m[f])
        BY <1>2 DEF Files
      <4>2. b[f] \in Manifest /\ t[f] \in Manifest /\ m[f] \in Manifest
        BY <3>1, <3>3, <4>1 DEF Conflict, BothChanged
      <4>3. [m[f] EXCEPT !.pass = IF b[f].pass = m[f].pass THEN t[f].pass ELSE m[f].pass] \in Manifest
        BY <4>2 DEF Manifest
      <4>. QED
        BY <2>2, <3>3, <4>2, <4>3 DEF Resolve, KindOf
    <3>. QED
      BY <3>2, <3>3
  <2>3. CASE f # "latest manifest"
    <3>1. m[f] \notin Manifest
      BY <2>1, <2>3, ContentAssumption DEF KindOf
    <3>. QED
      BY <2>1, <2>3, <3>1 DEF Resolve, KindOf
  <2>. QED
    BY <2>2, <2>3
<1>3. \A f \in Files : R(f) \in Content
  BY <1>1, <1>2 DEF Files, Provenance, Authors, KindOf, Content
<1>. HIDE DEF R
<1>4. [f \in Files |-> R(f)] \in Trees(s)
  BY <1>1, <1>2, <1>3 DEF Trees, Files
<1>. QED
  BY <1>4 DEF R

-----------------------------------------------------------------------------
(* Steps *)

\* Runs never go back to generating, and keep their slot and their report.
Keeps ==
  \A r \in Runs :
    pc[r] \notin Early => pc'[r] \notin Early /\ slot'[r] = slot[r] /\ report'[r] = report[r]

\* Authors, and so trees, only become more.
LEMMA Grows ==
  ASSUME Keeps
  PROVE  \A s : Authors(s) \subseteq Authors(s)' /\ Trees(s) \subseteq Trees(s)'
<1>1. \A s : Authors(s) \subseteq Authors(s)'
  BY DEF Keeps, Authors
<1>. QED
  BY <1>1 DEF Trees, Provenance

\* What a step of the run r has to do for the invariant.
LEMMA StepOfRun ==
  ASSUME ReportInv, Keeps, NEW r \in Runs,
         UNCHANGED <<slot, kind>>, pc[r] # "idle", pc'[r] # "idle",
         \A q \in Runs \ {r} : pc'[q] = pc[q] /\ base'[q] = base[q] /\ mine'[q] = mine[q],
         base'[r] \in Trees(slot[r])', mine'[r] \in Trees(slot[r])',
         \A s \in Slots : View(s)' \in Trees(s)',
         readback \subseteq readback',
         pc'[r] = "second" => mine'[r]["body"] \in Authors(slot[r])',
         pc'[r] \in {"finish", "passed"} => \E v \in Authors(slot[r])' : v \in readback'
  PROVE  TriggerOK' /\ TreesOK' /\ ReadbackOK' /\ OneRunPerSlot'
<1>. USE DEF ReportInv
<1>1. TriggerOK'
  BY DEF TriggerOK
<1>2. TreesOK'
  BY Grows DEF TreesOK
<1>3. ReadbackOK'
  BY Grows DEF ReadbackOK
<1>4. OneRunPerSlot'
  BY DEF OneRunPerSlot
<1>. QED
  BY <1>1, <1>2, <1>3, <1>4

\* A step that ends a run fails it, or passes what was read back.
LEMMA StepEnds ==
  ASSUME ReportInv, NEW r \in Runs, NEW l \in Ended, End(r, l),
         UNCHANGED <<slot, kind, report>>, pc[r] \notin {"idle"} \cup Ended,
         l = "passed" => pc[r] = "finish",
         \A s \in Slots : View(s)' \in Trees(s)',
         readback' = readback
  PROVE  Keeps /\ TriggerOK' /\ TreesOK' /\ ReadbackOK' /\ OneRunPerSlot'
<1>1. pc \in [Runs -> Locations] /\ base \in [Runs -> [Files -> Content]] /\ mine \in [Runs -> [Files -> Content]]
  BY DEF ReportInv, ReportTypeOK
<1>2. /\ pc'[r] = l /\ base'[r] = NoFiles /\ mine'[r] = NoFiles
      /\ \A q \in Runs \ {r} : pc'[q] = pc[q] /\ base'[q] = base[q] /\ mine'[q] = mine[q]
  BY <1>1 DEF End, Goto
<1>3. Keeps
  BY <1>2 DEF Keeps, Early, Ended
<1>4. l = "passed" => \E v \in Authors(slot[r])' : v \in readback'
  BY <1>3, Grows DEF ReportInv, ReadbackOK
<1>5. NoFiles \in Trees(slot[r])'
  BY NoFilesTree DEF Trees, Provenance, NoFiles, KindOf, Content, Files
<1>. QED
  BY <1>2, <1>3, <1>4, <1>5, StepOfRun DEF Ended

\* Files that do not change stay trees of their slots.
LEMMA RepoKept ==
  ASSUME TreesOK, Keeps, UNCHANGED <<hist, latest>>
  PROVE  \A s \in Slots : View(s)' \in Trees(s)'
  BY Grows DEF TreesOK, View

\* What a run publishes makes trees of every slot.
LEMMA RepoPublished ==
  ASSUME ReportTypeOK, TreesOK, Keeps, NEW r \in Runs, slot[r] \in Slots, slot' = slot,
         Publishes(r)
  PROVE  \A s \in Slots : View(s)' \in Trees(s)'
<1>. TAKE s \in Slots
<1>1. mine[r] \in Trees(slot[r])' /\ View(s) \in Trees(s)'
  BY Grows DEF TreesOK
<1>2. \A f \in LatestFiles : latest'[f] = mine[r][f] /\ f \notin HistFiles
  BY DEF Publishes, LatestFiles, HistFiles
<1>3. \A f \in HistFiles : hist'[s][f] = IF s = slot[r] THEN mine[r][f] ELSE hist[s][f]
  BY DEF Publishes, ReportTypeOK
<1>4. \A f \in HistFiles : View(s)[f] = hist[s][f]
  BY DEF View, Files
<1>5. \A f \in Files : View(s)'[f] = IF f \in HistFiles THEN hist'[s][f] ELSE latest'[f]
  BY DEF View
<1>6. ASSUME NEW f \in HistFiles PROVE View(s)'[f] \in Provenance(s)' /\ View(s)'[f] \in Content
  <2>1. CASE s = slot[r]
    BY <1>1, <1>3, <1>5, <2>1 DEF Trees, Files
  <2>2. CASE s # slot[r]
    BY <1>1, <1>3, <1>4, <1>5, <2>2 DEF Trees, Files
  <2>. QED
    BY <2>1, <2>2
<1>7. \A f \in LatestFiles : View(s)'[f] \in KindOf(f) /\ View(s)'[f] \in Content
  BY <1>1, <1>2, <1>5 DEF Trees, Files
<1>8. View(s)' \in [Files -> Content]
  BY <1>6, <1>7 DEF View, Files
<1>. QED
  BY <1>6, <1>7, <1>8 DEF Trees

-----------------------------------------------------------------------------
(* Types *)

\* Publishing keeps the files files.
LEMMA PublishesTypes ==
  ASSUME ReportTypeOK, NEW r \in Runs, Publishes(r)
  PROVE  /\ hist' \in [Slots -> [HistFiles -> Content]]
         /\ latest' \in [LatestFiles -> Content]
         /\ rev' \in Nat
<1>1. mine[r] \in [Files -> Content]
  BY DEF ReportTypeOK
<1>. DEFINE h == [f \in HistFiles |-> mine[r][f]]
<1>2. h \in [HistFiles -> Content] /\ [f \in LatestFiles |-> mine[r][f]] \in [LatestFiles -> Content]
  BY <1>1 DEF Files
<1>3. hist' = [hist EXCEPT ![slot[r]] = h]
  BY DEF Publishes
<1>. HIDE DEF h
<1>4. hist' \in [Slots -> [HistFiles -> Content]]
  BY <1>2, <1>3 DEF ReportTypeOK
<1>. QED
  BY <1>2, <1>4 DEF Publishes, ReportTypeOK

\* The end of a run keeps every type.
LEMMA EndTypes ==
  ASSUME ReportTypeOK, NEW r \in Runs, NEW l \in Ended, End(r, l)
  PROVE  /\ pc' \in [Runs -> Locations]
         /\ base' \in [Runs -> [Files -> Content]] /\ mine' \in [Runs -> [Files -> Content]]
         /\ parent' \in [Runs -> Nat] /\ att' \in [Runs -> 0..PushAttempts]
<1>1. NoFiles \in [Files -> Content]
  BY DEF NoFiles, Content
<1>2. l \in Locations /\ 0 \in 0..PushAttempts
  BY BoundsAssumption DEF Locations, Ended
<1>. QED
  BY <1>1, <1>2 DEF ReportTypeOK, End, Goto

\* Every step keeps every type.
LEMMA ReportTypes ==
  ASSUME ReportInv, ReportStep
  PROVE  ReportTypeOK'
<1>. USE DEF ReportInv
<1>1. ASSUME NEW r \in Runs, Start(r) PROVE ReportTypeOK'
  BY <1>1 DEF Start, Goto, repo, ReportTypeOK, Locations
<1>2. ASSUME NEW r \in Runs, Checkout(r) PROVE ReportTypeOK'
  <2>1. View(slot[r]) \in [Files -> Content]
    BY <1>2, ViewTree DEF Checkout, TriggerOK
  <2>. QED
    BY <1>2, <2>1 DEF Checkout, Goto, repo, ReportTypeOK, Locations
<1>3. ASSUME NEW r \in Runs, Publish(r) PROVE ReportTypeOK'
  <2>1. PICK q \in Report : /\ report' = [report EXCEPT ![r] = q]
                            /\ mine' = [mine EXCEPT ![r] = Published(r, q)]
    BY <1>3 DEF Publish
  <2>2. Published(r, q) \in [Files -> Content]
    BY DEF Published, Content, Manifest, Report
  <2>. QED
    BY <1>3, <2>1, <2>2 DEF Publish, Goto, repo, ReportTypeOK, Locations
<1>4. ASSUME NEW r \in Runs, PushLands(r) PROVE ReportTypeOK'
  <2>1. CASE UNCHANGED <<repo, parent>>
    BY <1>4, <2>1 DEF PushLands, Goto, repo, ReportTypeOK, Locations
  <2>2. CASE Land(r)
    <3>1. parent' \in [Runs -> Nat]
      BY <2>2 DEF Land, ReportTypeOK
    <3>. QED
      BY <1>4, <2>2, <3>1, PublishesTypes DEF PushLands, Land, Goto, ReportTypeOK, Locations
  <2>. QED
    BY <1>4, <2>1, <2>2 DEF PushLands
<1>5. ASSUME NEW r \in Runs, PushFails(r) PROVE ReportTypeOK'
  <2>1. att' \in [Runs -> 0..PushAttempts]
    BY <1>5, BoundsAssumption DEF PushFails, ReportTypeOK
  <2>2. CASE UNCHANGED <<repo, parent, base>>
    BY <1>5, <2>1, <2>2 DEF PushFails, Goto, repo, ReportTypeOK, Locations
  <2>3. CASE Land(r) /\ base' = [base EXCEPT ![r] = mine[r]]
    <3>1. parent' \in [Runs -> Nat] /\ base' \in [Runs -> [Files -> Content]]
      BY <2>3 DEF Land, ReportTypeOK
    <3>. QED
      BY <1>5, <2>1, <2>3, <3>1, PublishesTypes DEF PushFails, Land, Goto, ReportTypeOK, Locations
  <2>. QED
    BY <1>5, <2>2, <2>3 DEF PushFails
<1>6. ASSUME NEW r \in Runs, LastPushFails(r) PROVE ReportTypeOK'
  <2>1. CASE UNCHANGED repo
    BY <1>6, <2>1, EndTypes DEF LastPushFails, repo, ReportTypeOK, Ended
  <2>2. CASE Publishes(r)
    BY <1>6, <2>2, EndTypes, PublishesTypes DEF LastPushFails, ReportTypeOK, Ended
  <2>. QED
    BY <1>6, <2>1, <2>2 DEF LastPushFails
<1>7. ASSUME NEW r \in Runs, Rebase(r) PROVE ReportTypeOK'
  <2>1. CASE End(r, "failed")
    BY <1>7, <2>1, EndTypes DEF Rebase, repo, ReportTypeOK, Ended
  <2>2. CASE ~End(r, "failed")
    <3>. DEFINE theirs == View(slot[r])
    <3>1. /\ \A f \in Files : ~Conflict(base[r][f], theirs[f], mine[r][f])
          /\ base' = [base EXCEPT ![r] = theirs]
          /\ parent' = [parent EXCEPT ![r] = rev] /\ Goto(r, "push") /\ UNCHANGED att
      BY <1>7, <2>2 DEF Rebase
    <3>2. PICK remain : mine' = [mine EXCEPT ![r] =
                          [f \in Files |-> Resolve(base[r][f], theirs[f], mine[r][f], f \in remain)]]
      BY <1>7, <2>2 DEF Rebase, ReportTypeOK
    <3>3. slot[r] \in Slots
      BY <1>7 DEF Rebase, TriggerOK
    <3>4. theirs \in Trees(slot[r]) /\ base[r] \in Trees(slot[r]) /\ mine[r] \in Trees(slot[r])
      BY <3>3 DEF TreesOK
    <3>. HIDE DEF theirs
    <3>. DEFINE m == [f \in Files |-> Resolve(base[r][f], theirs[f], mine[r][f], f \in remain)]
    <3>5. m \in Trees(slot[r])
      BY <3>1, <3>4, ResolvedTree
    <3>6. theirs \in [Files -> Content] /\ m \in [Files -> Content]
      BY <3>4, <3>5 DEF Trees
    <3>. HIDE DEF m
    <3>7. mine' = [mine EXCEPT ![r] = m]
      BY <3>2 DEF m
    <3>. QED
      BY <1>7, <3>1, <3>6, <3>7 DEF Rebase, Goto, repo, ReportTypeOK, Locations
  <2>. QED
    BY <2>1, <2>2
<1>8. ASSUME NEW r \in Runs, FetchFails(r) PROVE ReportTypeOK'
  BY <1>8 DEF FetchFails, Goto, repo, ReportTypeOK, Locations
<1>9. ASSUME NEW r \in Runs, Readback(r) PROVE ReportTypeOK'
  <2>1. CASE End(r, "failed")
    BY <1>9, <2>1, EndTypes DEF Readback, repo, ReportTypeOK, Ended
  <2>2. CASE ~End(r, "failed")
    <3>1. View(slot[r]) \in Trees(slot[r])
      BY <1>9 DEF Readback, TriggerOK, TreesOK
    <3>2. Recorded(View(slot[r])) \in [Files -> Content]
      BY <3>1, RecordedTree DEF Trees
    <3>. QED
      BY <1>9, <2>2, <3>2 DEF Readback, Goto, repo, ReportTypeOK, Locations
  <2>. QED
    BY <2>1, <2>2
<1>10. ASSUME NEW r \in Runs, SecondPush(r) PROVE ReportTypeOK'
  <2>1. CASE End(r, "failed") /\ UNCHANGED <<repo, readback>>
    BY <1>10, <2>1, EndTypes DEF SecondPush, repo, ReportTypeOK, Ended
  <2>2. CASE Land(r) /\ readback' = readback \cup {mine[r]["body"]} /\ Goto(r, "finish")
             /\ UNCHANGED <<base, mine, att>>
    <3>1. parent' \in [Runs -> Nat]
      BY <2>2 DEF Land, ReportTypeOK
    <3>2. mine[r]["body"] \in Runs
      BY <1>10 DEF SecondPush, ReadbackOK, Authors
    <3>. QED
      BY <1>10, <2>2, <3>1, <3>2, PublishesTypes DEF SecondPush, Land, Goto, ReportTypeOK, Locations
  <2>. QED
    BY <1>10, <2>1, <2>2 DEF SecondPush
<1>11. ASSUME NEW r \in Runs, Finish(r) PROVE ReportTypeOK'
  BY <1>11, EndTypes DEF Finish, repo, ReportTypeOK, Ended
<1>12. ASSUME NEW r \in Runs, Fail(r) PROVE ReportTypeOK'
  BY <1>12, EndTypes DEF Fail, repo, ReportTypeOK, Ended
<1>13. ASSUME NEW r \in Runs, NEW k \in {"dispatch", "comment"}, NEW s \in Slots, Trigger(r, k, s)
       PROVE  ReportTypeOK'
  <2>1. pc' \in [Runs -> Locations]
    BY <1>13 DEF Trigger, ReportTypeOK, Locations
  <2>. QED
    BY <1>13, <2>1 DEF Trigger, repo, ReportTypeOK, Slots
<1>14. CASE TipMoves
  BY <1>14 DEF TipMoves, runner, ReportTypeOK
<1>15. CASE UNCHANGED reportVars
  BY <1>15 DEF reportVars, repo, runner, ReportTypeOK
<1>. QED
  BY <1>1, <1>2, <1>3, <1>4, <1>5, <1>6, <1>7, <1>8, <1>9, <1>10, <1>11, <1>12, <1>13, <1>14, <1>15
     DEF ReportStep, RunStep

-----------------------------------------------------------------------------
(* Every step keeps the invariant *)

\* A step that only moves a run on, without a second commit, keeps it.
LEMMA StepMoves ==
  ASSUME ReportInv, NEW r \in Runs, NEW l \in Locations \ (Early \cup Ended \cup {"second", "finish"}),
         Goto(r, l), UNCHANGED <<slot, kind, report, readback>>,
         pc[r] \notin Early \cup Ended,
         UNCHANGED <<hist, latest>> \/ Publishes(r),
         \A q \in Runs \ {r} : base'[q] = base[q] /\ mine'[q] = mine[q],
         base'[r] \in Trees(slot[r]), mine'[r] \in Trees(slot[r])
  PROVE  Keeps /\ TriggerOK' /\ TreesOK' /\ ReadbackOK' /\ OneRunPerSlot'
<1>1. pc'[r] = l /\ \A q \in Runs \ {r} : pc'[q] = pc[q]
  BY DEF Goto, ReportInv, ReportTypeOK
<1>2. Keeps
  BY <1>1 DEF Keeps
<1>3. slot[r] \in Slots
  BY DEF ReportInv, TriggerOK, Early
<1>4. \A s \in Slots : View(s)' \in Trees(s)'
  BY <1>2, <1>3, RepoKept, RepoPublished DEF ReportInv
<1>5. base'[r] \in Trees(slot[r])' /\ mine'[r] \in Trees(slot[r])'
  BY <1>2, Grows
<1>. QED
  BY <1>1, <1>2, <1>4, <1>5, StepOfRun DEF Early, Ended

\* A trigger gives a run that has nothing yet its slot.
LEMMA StepTrigger ==
  ASSUME ReportInv, NEW r \in Runs, NEW k \in {"dispatch", "comment"}, NEW s \in Slots,
         Trigger(r, k, s)
  PROVE  Keeps /\ TriggerOK' /\ TreesOK' /\ ReadbackOK' /\ OneRunPerSlot'
<1>. USE DEF ReportInv
<1>1. /\ pc[r] = "idle" /\ pc'[r] = "pending" /\ slot'[r] = s
      /\ \A q \in Runs \ {r} : /\ slot'[q] = slot[q]
                               /\ pc'[q] # pc[q] => pc[q] = "pending" /\ pc'[q] = "cancelled"
      /\ UNCHANGED <<hist, latest, report, base, mine, readback>>
  BY DEF Trigger, repo, ReportTypeOK
<1>2. Keeps
  BY <1>1 DEF Keeps, Early
<1>3. TriggerOK'
  BY <1>1 DEF TriggerOK
<1>4. TreesOK'
  <2>1. \A q \in Runs \ {r} : base'[q] \in Trees(slot[q])' /\ mine'[q] \in Trees(slot[q])'
    BY <1>1, <1>2, Grows DEF TreesOK
  <2>2. NoFiles \in Trees(s)'
    BY <1>2, NoFilesTree, Grows
  <2>3. base'[r] = NoFiles /\ mine'[r] = NoFiles
    BY <1>1 DEF TriggerOK
  <2>. QED
    BY <1>1, <1>2, <2>1, <2>2, <2>3, RepoKept DEF TreesOK
<1>5. ReadbackOK'
  BY <1>1, <1>2, Grows DEF ReadbackOK
<1>6. OneRunPerSlot'
  BY <1>1 DEF OneRunPerSlot, Trigger
<1>. QED
  BY <1>2, <1>3, <1>4, <1>5, <1>6

\* A step of a run keeps the invariant and what settled runs have said.
LEMMA RunSteps ==
  ASSUME ReportInv, NEW r \in Runs, RunStep(r) \/ Fail(r)
  PROVE  Keeps /\ TriggerOK' /\ TreesOK' /\ ReadbackOK' /\ OneRunPerSlot'
<1>. DEFINE Goal == Keeps /\ TriggerOK' /\ TreesOK' /\ ReadbackOK' /\ OneRunPerSlot'
<1>. USE DEF ReportInv
<1>1. base[r] \in Trees(slot[r]) /\ mine[r] \in Trees(slot[r])
  BY DEF TreesOK
<1>2. CASE Start(r)
  <2>1. /\ pc'[r] = "checkout" /\ pc[r] = "pending"
        /\ \A q \in Runs \ {r} : pc'[q] = pc[q] /\ base'[q] = base[q] /\ mine'[q] = mine[q]
        /\ UNCHANGED <<hist, latest, slot, kind, report, base, mine, readback>>
    BY <1>2 DEF Start, Goto, repo, ReportTypeOK
  <2>2. Keeps
    BY <2>1 DEF Keeps, Early
  <2>. QED
    BY <1>1, <2>1, <2>2, Grows, RepoKept, StepOfRun
<1>3. CASE Checkout(r)
  <2>1. /\ pc'[r] = "generate" /\ pc[r] = "checkout" /\ base'[r] = View(slot[r])
        /\ \A q \in Runs \ {r} : pc'[q] = pc[q] /\ base'[q] = base[q] /\ mine'[q] = mine[q]
        /\ UNCHANGED <<hist, latest, slot, kind, report, mine, readback>>
    BY <1>3 DEF Checkout, Goto, repo, ReportTypeOK
  <2>2. Keeps
    BY <2>1 DEF Keeps, Early
  <2>3. View(slot[r]) \in Trees(slot[r])
    BY <2>1 DEF TriggerOK, TreesOK
  <2>. QED
    BY <1>1, <2>1, <2>2, <2>3, Grows, RepoKept, StepOfRun
<1>4. CASE Publish(r)
  <2>1. PICK q \in Report : /\ report' = [report EXCEPT ![r] = q]
                            /\ mine' = [mine EXCEPT ![r] = Published(r, q)]
    BY <1>4 DEF Publish
  <2>2. /\ pc'[r] = "push" /\ pc[r] = "generate" /\ mine'[r] = Published(r, q)
        /\ \A p \in Runs \ {r} : /\ pc'[p] = pc[p] /\ base'[p] = base[p] /\ mine'[p] = mine[p]
                                 /\ report'[p] = report[p]
        /\ UNCHANGED <<hist, latest, slot, kind, base, readback>>
    BY <1>4, <2>1 DEF Publish, Goto, repo, ReportTypeOK
  <2>3. Keeps
    BY <2>2 DEF Keeps, Early
  <2>4. r \in Authors(slot[r])'
    BY <2>2 DEF Authors, Early
  <2>5. Published(r, q) \in Trees(slot[r])'
    BY <2>4, PublishedFiles DEF Trees, Provenance
  <2>. QED
    BY <1>1, <2>2, <2>3, <2>5, Grows, RepoKept, StepOfRun
<1>5. CASE PushLands(r)
  BY <1>1, <1>5, StepMoves DEF PushLands, Land, repo, Early, Ended, Locations
<1>6. CASE PushFails(r)
  <2>1. base'[r] \in Trees(slot[r]) /\ \A q \in Runs \ {r} : base'[q] = base[q]
    BY <1>1, <1>6 DEF PushFails, ReportTypeOK
  <2>. QED
    BY <1>1, <1>6, <2>1, StepMoves DEF PushFails, Land, repo, Early, Ended, Locations
<1>7. CASE LastPushFails(r)
  <2>1. Keeps /\ slot[r] \in Slots
    BY <1>7 DEF LastPushFails, End, Goto, Keeps, Early, TriggerOK, ReportTypeOK
  <2>2. \A s \in Slots : View(s)' \in Trees(s)'
    BY <1>7, <2>1, RepoKept, RepoPublished DEF LastPushFails, repo
  <2>. QED
    BY <1>7, <2>2, StepEnds DEF LastPushFails, Ended
<1>8. CASE Rebase(r)
  <2>1. CASE End(r, "failed")
    <3>1. Keeps
      BY <1>8, <2>1 DEF Rebase, End, Goto, Keeps, Early, ReportTypeOK
    <3>2. \A s \in Slots : View(s)' \in Trees(s)'
      BY <1>8, <3>1, RepoKept DEF Rebase, repo
    <3>. QED
      BY <1>8, <2>1, <3>2, StepEnds DEF Rebase, Ended
  <2>2. CASE ~End(r, "failed")
    <3>. DEFINE theirs == View(slot[r])
    <3>1. /\ \A f \in Files : ~Conflict(base[r][f], theirs[f], mine[r][f])
          /\ base' = [base EXCEPT ![r] = theirs] /\ Goto(r, "push")
      BY <1>8, <2>2 DEF Rebase
    <3>2. PICK remain : mine' = [mine EXCEPT ![r] =
                          [f \in Files |-> Resolve(base[r][f], theirs[f], mine[r][f], f \in remain)]]
      BY <1>8, <2>2 DEF Rebase, ReportTypeOK
    <3>3. theirs \in Trees(slot[r])
      BY <1>8 DEF Rebase, TriggerOK, TreesOK
    <3>. HIDE DEF theirs
    <3>. DEFINE m == [f \in Files |-> Resolve(base[r][f], theirs[f], mine[r][f], f \in remain)]
    <3>4. m \in Trees(slot[r])
      BY <1>1, <3>1, <3>3, ResolvedTree
    <3>. HIDE DEF m
    <3>5. mine' = [mine EXCEPT ![r] = m]
      BY <3>2 DEF m
    <3>6. /\ base'[r] \in Trees(slot[r]) /\ mine'[r] \in Trees(slot[r])
          /\ \A q \in Runs \ {r} : base'[q] = base[q] /\ mine'[q] = mine[q]
      BY <3>1, <3>3, <3>4, <3>5 DEF ReportTypeOK
    <3>. QED
      BY <1>8, <3>1, <3>6, StepMoves DEF Rebase, repo, Early, Ended, Locations
  <2>. QED
    BY <2>1, <2>2
<1>9. CASE FetchFails(r)
  BY <1>1, <1>9, StepMoves DEF FetchFails, repo, Early, Ended, Locations
<1>10. CASE Readback(r)
  <2>1. CASE End(r, "failed")
    <3>1. Keeps
      BY <1>10, <2>1 DEF Readback, End, Goto, Keeps, Early, ReportTypeOK
    <3>2. \A s \in Slots : View(s)' \in Trees(s)'
      BY <1>10, <3>1, RepoKept DEF Readback, repo
    <3>. QED
      BY <1>10, <2>1, <3>2, StepEnds DEF Readback, Ended
  <2>2. CASE ~End(r, "failed")
    <3>. DEFINE t == View(slot[r])
    <3>1. /\ ReadsBack(t) /\ mine' = [mine EXCEPT ![r] = Recorded(t)] /\ Goto(r, "second")
          /\ pc[r] = "readback" /\ UNCHANGED <<hist, latest, slot, kind, report, base, readback>>
      BY <1>10, <2>2 DEF Readback, repo
    <3>2. t \in Trees(slot[r])
      BY <3>1 DEF TriggerOK, TreesOK
    <3>3. t["body"] \in Authors(slot[r])
      BY <3>1, <3>2, RunsAssumption DEF ReadsBack, Trees, Provenance, HistFiles
    <3>. HIDE DEF t
    <3>4. Recorded(t) \in Trees(slot[r]) /\ Recorded(t)["body"] \in Authors(slot[r])
      BY <3>2, <3>3, RecordedTree
    <3>5. /\ pc'[r] = "second" /\ mine'[r] = Recorded(t)
          /\ \A q \in Runs \ {r} : pc'[q] = pc[q] /\ base'[q] = base[q] /\ mine'[q] = mine[q]
      BY <3>1 DEF Goto, ReportTypeOK
    <3>6. Keeps
      BY <3>1, <3>5 DEF Keeps, Early
    <3>. QED
      BY <1>1, <3>1, <3>4, <3>5, <3>6, Grows, RepoKept, StepOfRun
  <2>. QED
    BY <2>1, <2>2
<1>11. CASE SecondPush(r)
  <2>1. CASE End(r, "failed") /\ UNCHANGED <<repo, readback>>
    <3>1. Keeps
      BY <1>11, <2>1 DEF SecondPush, End, Goto, Keeps, Early, ReportTypeOK
    <3>2. \A s \in Slots : View(s)' \in Trees(s)'
      BY <2>1, <3>1, RepoKept DEF repo
    <3>. QED
      BY <1>11, <2>1, <3>2, StepEnds DEF SecondPush, Ended
  <2>2. CASE Land(r) /\ readback' = readback \cup {mine[r]["body"]} /\ Goto(r, "finish")
             /\ UNCHANGED <<base, mine, att>>
    <3>1. /\ pc'[r] = "finish" /\ pc[r] = "second" /\ UNCHANGED <<slot, kind, report>>
          /\ \A q \in Runs \ {r} : pc'[q] = pc[q] /\ base'[q] = base[q] /\ mine'[q] = mine[q]
      BY <1>11, <2>2 DEF SecondPush, Goto, ReportTypeOK
    <3>2. Keeps
      BY <3>1 DEF Keeps, Early
    <3>3. \A s \in Slots : View(s)' \in Trees(s)'
      BY <2>2, <3>1, <3>2, RepoPublished DEF Land, TriggerOK
    <3>4. \E v \in Authors(slot[r])' : v \in readback'
      BY <2>2, <3>1, <3>2, Grows DEF ReadbackOK
    <3>. QED
      BY <1>1, <2>2, <3>1, <3>2, <3>3, <3>4, Grows, StepOfRun
  <2>. QED
    BY <1>11, <2>1, <2>2 DEF SecondPush
<1>12. ASSUME NEW l \in {"passed", "failed"}, End(r, l), Finish(r) \/ Fail(r),
              l = "passed" => pc[r] = "finish"
       PROVE  Goal
  <2>1. Keeps /\ UNCHANGED <<hist, latest, slot, kind, report, readback>>
    BY <1>12 DEF Finish, Fail, End, Goto, Keeps, Early, Ended, repo, ReportTypeOK
  <2>2. \A s \in Slots : View(s)' \in Trees(s)'
    BY <2>1, RepoKept
  <2>. QED
    BY <1>12, <2>1, <2>2, StepEnds DEF Finish, Fail, Ended
<1>. QED
  BY <1>2, <1>3, <1>4, <1>5, <1>6, <1>7, <1>8, <1>9, <1>10, <1>11, <1>12 DEF RunStep, Finish, Fail

\* Every step keeps the invariant.
LEMMA ReportSteps ==
  ASSUME ReportInv, ReportStep
  PROVE  ReportInv' /\ Keeps
<1>1. ASSUME UNCHANGED <<hist, latest, runner, readback>> PROVE ReportInv' /\ Keeps
  BY <1>1, ReportTypes
     DEF runner, ReportInv, TriggerOK, TreesOK, ReadbackOK, OneRunPerSlot, Keeps, Authors, Provenance,
         Trees, View
<1>. QED
  BY <1>1, ReportTypes, RunSteps, StepTrigger DEF ReportStep, ReportInv, TipMoves, reportVars, repo

\* A run that was triggered stays so, for its slot.
LEMMA SlotsStay ==
  ASSUME ReportInv, ReportStep
  PROVE  \A r \in Runs : pc[r] # "idle" => pc'[r] # "idle" /\ slot'[r] = slot[r]
<1>. DEFINE Stay == \A r \in Runs : pc[r] # "idle" => pc'[r] # "idle" /\ slot'[r] = slot[r]
<1>1. ASSUME NEW r \in Runs, RunStep(r) \/ Fail(r) PROVE Stay
  BY <1>1 DEF ReportInv, ReportTypeOK, RunStep, Start, Checkout, Publish, PushLands, PushFails,
     LastPushFails, Rebase, FetchFails, Readback, SecondPush, Finish, Fail, End, Goto
<1>2. ASSUME NEW r \in Runs, NEW k, NEW s, Trigger(r, k, s) PROVE Stay
  BY <1>2 DEF Trigger, ReportInv, ReportTypeOK
<1>. QED
  BY <1>1, <1>2 DEF ReportStep, TipMoves, reportVars, runner

\* Initially no run has anything.
LEMMA ReportInitInv == ReportInit => ReportInv
<1>. SUFFICES ASSUME ReportInit PROVE ReportInv
  OBVIOUS
<1>1. ReportTypeOK
  BY BoundsAssumption DEF ReportInit, ReportTypeOK, Content, Locations, Report, NoFiles
<1>2. \A s \in Slots : View(s) = NoFiles
  BY DEF ReportInit, View, NoFiles, Files
<1>. QED
  BY <1>1, <1>2, NoFilesTree
     DEF ReportInit, ReportInv, TriggerOK, TreesOK, ReadbackOK, OneRunPerSlot, Slots
=============================================================================
