---------------------------- MODULE PersonalSnapshot ----------------------------
(***************************************************************************)
(* Publication of the owner's current team to the private repository.  The *)
(* private job of an ingestion run checks the repository out, reads the    *)
(* team of the official game, commits it, and pushes in a loop of fetch,   *)
(* comparison with the remote snapshot, rebase and push.  Jobs of several  *)
(* occurrences, and the publishers of reports and credentials, push to the *)
(* same branch.                                                            *)
(*                                                                         *)
(* Sources: .github/workflows/v6-natural-data-ingestion.yml, lines 64-77   *)
(* and 654-937, report_plane/private_boundary.py and report_prefetch.py.   *)
(*                                                                         *)
(* current_team.json is indented and sorted, so a rebase merges it hunk by *)
(* hunk: generated_at is one hunk here, the rows of the squad another.     *)
(***************************************************************************)
EXTENDS Naturals

CONSTANTS
  Runs,        \* private jobs of ingestion runs
  None,
  Attempts,    \* pushes a job tries
  OtherPushes, \* bound: pushes of the other publishers
  MaxTime,     \* bound: time
  Squads,      \* what the owner's team can be in the official game
  Faults       \* whether steps fail, answers are lost and jobs die

ASSUME SnapshotAssumption ==
  /\ None \notin Runs /\ None \notin Squads
  /\ Attempts \in Nat \ {0} /\ OtherPushes \in Nat /\ MaxTime \in Nat \ {0}
  /\ Squads # {} /\ Faults \in BOOLEAN

VARIABLES
  now,      \* time
  official, \* the team in the official game
  last,     \* history: when a squad was last the official one
  main,     \* the tip of the branch
  job       \* the private jobs

vars == <<now, official, last, main, job>>

Times == 1..MaxTime
Stamps == 0..MaxTime \* 0: there is no current_team.json yet
Commits == (Runs \X (1..Attempts)) \cup ({None} \X (1..OtherPushes))

\* personal/current_team.json, personal/snapshots/current_team_<generated_at>.json,
\* and the commits behind them.
Tree ==
  [gen : Stamps, squad : Squads \cup {None}, kept : [Times -> Squads \cup {None}], log : SUBSET Commits]

Open == {"stamp", "read", "commit", "fetch", "push"}
Ends == {"unavailable", "passed", "blocked", "failed"}

Job ==
  [pc : Open \cup Ends \cup {"idle"}, gen : Stamps, squad : Squads \cup {None}, try : 1..Attempts,
   base : Tree, head : Tree]

SnapshotTypeOK ==
  /\ now \in Times
  /\ official \in Squads
  /\ last \in [Squads -> Stamps]
  /\ main \in Tree
  /\ job \in [Runs -> Job]

Empty == [gen |-> 0, squad |-> None, kept |-> [t \in Times |-> None], log |-> {}]

Init ==
  /\ now = 1
  /\ official \in Squads
  /\ last = [s \in Squads |-> IF s = official THEN 1 ELSE 0]
  /\ main \in {Empty, [Empty EXCEPT !.gen = 1, !.squad = official, !.kept[1] = official]}
  /\ job = [r \in Runs |->
       [pc |-> "idle", gen |-> 0, squad |-> None, try |-> 1, base |-> Empty, head |-> Empty]]

-----------------------------------------------------------------------------
(* The game, the other publishers *)

Elapse ==
  /\ now < MaxTime
  /\ now' = now + 1
  /\ last' = [last EXCEPT ![official] = now + 1]
  /\ UNCHANGED <<official, main, job>>

Edit(s) ==
  /\ s # official
  /\ official' = s
  /\ last' = [last EXCEPT ![s] = now]
  /\ UNCHANGED <<now, main, job>>

\* Reports and credentials are other directories.
OtherPush(n) ==
  /\ <<None, n>> \notin main.log
  /\ \A k \in 1..(n - 1) : <<None, k>> \in main.log
  /\ main' = [main EXCEPT !.log = @ \cup {<<None, n>>}]
  /\ UNCHANGED <<now, official, last, job>>

-----------------------------------------------------------------------------
(* The private job *)

Checkout(r) ==
  /\ job[r].pc = "idle"
  /\ job' = [job EXCEPT ![r].pc = "stamp", ![r].base = main, ![r].head = main]
  /\ UNCHANGED <<now, official, last, main>>

\* generated_at is the time the prefetch starts at ...
Stamp(r) ==
  /\ job[r].pc = "stamp"
  /\ job' = [job EXCEPT ![r].pc = "read", ![r].gen = now]
  /\ UNCHANGED <<now, official, last, main>>

\* ... and the team is read later.
ReadTeam(r) ==
  /\ job[r].pc = "read"
  /\ job' = [job EXCEPT ![r].pc = "commit", ![r].squad = official]
  /\ UNCHANGED <<now, official, last, main>>

\* Without authentication nothing is written and there is NO_CHANGE to commit; the
\* prefetch or the validation of the snapshot may also fail.
RefreshFails(r) ==
  /\ job[r].pc \in {"stamp", "read", "commit"}
  /\ job' = [job EXCEPT ![r].pc = "unavailable"]
  /\ UNCHANGED <<now, official, last, main>>

\* The checkout with the snapshot committed on top.
Written(r) ==
  LET h == job[r].head
  IN  [gen |-> job[r].gen, squad |-> job[r].squad,
       kept |-> [h.kept EXCEPT ![job[r].gen] = job[r].squad], log |-> h.log \cup {<<r, 1>>}]

\* Mutant: generated_at is the time the files are written at.
Commit_Restamped(r) ==
  /\ job[r].pc = "commit"
  /\ job' = [job EXCEPT ![r].pc = "fetch", ![r].gen = now,
       ![r].head.gen = now, ![r].head.squad = job[r].squad,
       ![r].head.kept[now] = job[r].squad, ![r].head.log = @ \cup {<<r, 1>>}]
  /\ UNCHANGED <<now, official, last, main>>

Commit(r) ==
  /\ job[r].pc = "commit"
  /\ job' = [job EXCEPT ![r].pc = "fetch", ![r].head = Written(r)]
  /\ UNCHANGED <<now, official, last, main>>

\* Mutant: what both sides changed is taken from the remote side.
Pick_Ours(base, local, remote) == IF remote = base THEN local ELSE remote

\* --strategy-option=theirs: what the local commit changed is taken from it, every
\* other hunk from the remote side.
Pick(base, local, remote) == IF local = base THEN remote ELSE local

Rebased(r) ==
  LET b == job[r].base
      h == job[r].head
  IN  [gen |-> Pick(b.gen, h.gen, main.gen),
       squad |-> Pick(b.squad, h.squad, main.squad),
       kept |-> [t \in Times |-> Pick(b.kept[t], h.kept[t], main.kept[t])],
       log |-> main.log \cup {<<r, job[r].try>>}]

\* Mutant: the comparison is with the snapshot that was checked out.
Older_Checkout(r) == job[r].head.gen < job[r].base.gen

Older(r) == job[r].head.gen < main.gen

Landed(r) == \E k \in 1..Attempts : <<r, k>> \in main.log

\* fetch, comparison (STALE_LOCAL_BLOCKED) and rebase; nothing is left to rebase
\* of a commit that is on the branch already.
FetchAndRebase(r) ==
  /\ job[r].pc = "fetch"
  /\ job' = [job EXCEPT ![r] =
       IF Older(r) THEN [@ EXCEPT !.pc = "blocked"]
       ELSE [@ EXCEPT !.pc = "push", !.base = main,
                      !.head = IF Landed(r) THEN main ELSE Rebased(r)]]
  /\ UNCHANGED <<now, official, last, main>>

FastForward(r) == main.log = job[r].base.log

\* Mutant: the loop has no end.
Rejected_Uncounted(r) == [job[r] EXCEPT !.pc = "fetch"]

\* Mutant: one attempt too many.
Rejected_Late(r) ==
  IF job[r].try > Attempts THEN [job[r] EXCEPT !.pc = "failed"]
  ELSE [job[r] EXCEPT !.pc = "fetch", !.try = @ + 1]

\* REMOTE_MOVED_RETRY or RETRY_EXHAUSTED
Rejected(r) ==
  IF job[r].try = Attempts THEN [job[r] EXCEPT !.pc = "failed"]
  ELSE [job[r] EXCEPT !.pc = "fetch", !.try = @ + 1]

\* Mutant: the push is forced.
Push_Forced(r) ==
  /\ job[r].pc = "push"
  /\ main' = job[r].head
  /\ job' = [job EXCEPT ![r].pc = "passed"]
  /\ UNCHANGED <<now, official, last>>

Push(r) ==
  /\ job[r].pc = "push"
  /\ main' = IF FastForward(r) THEN job[r].head ELSE main
  /\ job' = [job EXCEPT ![r] =
       IF FastForward(r) THEN [@ EXCEPT !.pc = "passed"] ELSE Rejected(r)]
  /\ UNCHANGED <<now, official, last>>

\* The push fails, or lands and its answer is lost.
PushFails(r) ==
  /\ Faults
  /\ job[r].pc = "push"
  /\ main' \in {main, IF FastForward(r) THEN job[r].head ELSE main}
  /\ job' = [job EXCEPT ![r] = Rejected(r)]
  /\ UNCHANGED <<now, official, last>>

Die(r) ==
  /\ Faults
  /\ job[r].pc \in Open
  /\ job' = [job EXCEPT ![r].pc = "failed"]
  /\ UNCHANGED <<now, official, last, main>>

JobStep(r) ==
  \/ Stamp(r) \/ ReadTeam(r) \/ RefreshFails(r) \/ Commit(r)
  \/ FetchAndRebase(r) \/ Push(r) \/ PushFails(r) \/ Die(r)

Next ==
  \/ Elapse
  \/ \E s \in Squads : Edit(s)
  \/ \E n \in 1..OtherPushes : OtherPush(n)
  \/ \E r \in Runs : Checkout(r) \/ JobStep(r)

Spec == Init /\ [][Next]_vars

\* A job has a timeout: once begun it goes on.
FairSpec == Spec /\ \A r \in Runs : WF_vars(JobStep(r))
-----------------------------------------------------------------------------
(* Properties *)

\* The snapshot on the branch is never replaced by an older one ("Preserve newer
\* remote evidence rather than backdating/stomping it"), however pushes interleave.
NeverBackdated == [][main.gen <= main'.gen]_vars

\* A job that reports PASS, or that has been blocked, finds a snapshot on the branch
\* at least as new as its own; and what it passed stays on record.
PassIsServed ==
  \A r \in Runs :
    /\ job[r].pc \in {"passed", "blocked"} => main.gen >= job[r].gen
    /\ job[r].pc = "passed" => main.kept[job[r].gen] # None

\* A snapshot on record was the official team at its time or later, although the
\* time is taken before the team is read and the files are rebased.
SnapshotsAreAsOf ==
  \A t \in Times : main.kept[t] # None => last[main.kept[t]] >= t

\* A committed snapshot, or a newer one, comes to be on the branch unless the job
\* dies or uses up its attempts; no job pushes for ever.
CommitIsServed ==
  \A r \in Runs :
    job[r].pc = "fetch" ~> (main.gen >= job[r].gen \/ job[r].pc = "failed")

\* The same of current_team.json, whose hunks may come of two snapshots: the code
\* does not keep this (no run checks it; see the README).
SquadIsAsOf == main.gen # 0 => last[main.squad] >= main.gen
-----------------------------------------------------------------------------
(* The abstract record it implements *)

Record ==
  INSTANCE DatedRecord WITH
    Time     <- Times,
    Team     <- Squads,
    Nothing  <- None,
    lastSeen <- last,
    latest   <- main.gen,
    record   <- main.kept

\* Jobs that overtake each other, merge file by file, push again what has landed or
\* die are one record of dated teams: a push enters one team that is true, at its
\* time, and leaves all others alone.
ImplementsRecord == Record!Spec
=============================================================================
