------------------------ MODULE PersonalSnapshotProofs ------------------------
(***************************************************************************)
(* Proofs about PersonalSnapshot for every set of jobs, every number of    *)
(* attempts, foreign pushes and squads, and any time.                      *)
(***************************************************************************)
EXTENDS PersonalSnapshot, TLAPS

(* What a step does to the jobs *)

\* The parts of a tree have their types.
LEMMA TreeType ==
  /\ Empty \in Tree
  /\ \A v \in Tree :
       /\ v.gen \in Stamps /\ v.squad \in Squads \cup {None} /\ v.log \in SUBSET Commits
       /\ v.kept \in [Times -> Squads \cup {None}]
BY SnapshotAssumption DEF Tree, Empty, Stamps, Times

\* The tree of a commit.
LEMMA WrittenTree ==
  ASSUME SnapshotTypeOK, NEW r \in Runs, job[r].gen \in Times, job[r].squad \in Squads
  PROVE  /\ Written(r) \in Tree /\ Written(r).gen = job[r].gen
         /\ Written(r).log = job[r].head.log \cup {<<r, 1>>}
         /\ \A t \in Times :
              Written(r).kept[t] = IF t = job[r].gen THEN job[r].squad ELSE job[r].head.kept[t]
<1> DEFINE h == job[r].head
           k == [h.kept EXCEPT ![job[r].gen] = job[r].squad]
<1>1. h \in Tree
  BY DEF SnapshotTypeOK, Job
<1>2. k \in [Times -> Squads \cup {None}]
  BY <1>1, TreeType
<1>3. h.log \cup {<<r, 1>>} \in SUBSET Commits /\ job[r].gen \in Stamps
  BY <1>1, TreeType, SnapshotAssumption DEF Commits, Times, Stamps
<1>4. \A t \in Times : k[t] = IF t = job[r].gen THEN job[r].squad ELSE h.kept[t]
  BY <1>1, TreeType
<1>5. Written(r) = [gen |-> job[r].gen, squad |-> job[r].squad, kept |-> k,
                    log |-> h.log \cup {<<r, 1>>}]
  BY DEF Written
<1> HIDE DEF k
<1> QED BY <1>2, <1>3, <1>4, <1>5 DEF Tree

\* The tree of a rebased commit.
LEMMA RebasedTree ==
  ASSUME SnapshotTypeOK, NEW r \in Runs
  PROVE  /\ Rebased(r) \in Tree
         /\ Rebased(r).gen = Pick(job[r].base.gen, job[r].head.gen, main.gen)
         /\ Rebased(r).log = main.log \cup {<<r, job[r].try>>}
         /\ \A t \in Times :
              Rebased(r).kept[t] = Pick(job[r].base.kept[t], job[r].head.kept[t], main.kept[t])
<1> DEFINE b == job[r].base
           h == job[r].head
           k == [t \in Times |-> Pick(b.kept[t], h.kept[t], main.kept[t])]
<1>1. b \in Tree /\ h \in Tree /\ main \in Tree /\ job[r].try \in 1..Attempts
  BY DEF SnapshotTypeOK, Job
<1>2. /\ Pick(b.gen, h.gen, main.gen) \in Stamps
      /\ Pick(b.squad, h.squad, main.squad) \in Squads \cup {None}
  BY <1>1, TreeType DEF Pick
<1>3. k \in [Times -> Squads \cup {None}]
  BY <1>1, TreeType DEF Pick
<1>4. main.log \cup {<<r, job[r].try>>} \in SUBSET Commits
  BY <1>1, TreeType DEF Commits
<1>5. Rebased(r) = [gen |-> Pick(b.gen, h.gen, main.gen), squad |-> Pick(b.squad, h.squad, main.squad),
                    kept |-> k, log |-> main.log \cup {<<r, job[r].try>>}]
  BY DEF Rebased
<1> QED BY <1>2, <1>3, <1>4, <1>5 DEF Tree

\* One job takes a step; it may publish its head.
Others(r) == \A q \in Runs \ {r} : job'[q] = job[q]

\* A job checks the branch out.
LEMMA CheckoutStep ==
  ASSUME SnapshotTypeOK, NEW r \in Runs, Checkout(r)
  PROVE  /\ job' \in [Runs -> Job] /\ Others(r) /\ main' = main
         /\ job[r].pc = "idle" /\ job'[r].pc = "stamp"
         /\ job'[r].base = main /\ job'[r].head = main
<1> DEFINE new == [job[r] EXCEPT !.pc = "stamp", !.base = main, !.head = main]
<1>1. job[r] \in Job /\ main \in Tree
  BY DEF SnapshotTypeOK
<1>2. new \in Job /\ new.pc = "stamp" /\ new.base = main /\ new.head = main
  BY <1>1 DEF Job, Open
<1>3. job' = [job EXCEPT ![r] = new]
  BY DEF Checkout
<1> QED BY <1>2, <1>3 DEF Checkout, Others, SnapshotTypeOK

\* A job takes its time stamp.
LEMMA StampStep ==
  ASSUME SnapshotTypeOK, NEW r \in Runs, Stamp(r)
  PROVE  /\ job' \in [Runs -> Job] /\ Others(r) /\ main' = main
         /\ job[r].pc = "stamp" /\ job'[r].pc = "read" /\ job'[r].gen = now
         /\ job'[r].base = job[r].base /\ job'[r].head = job[r].head
<1> DEFINE new == [job[r] EXCEPT !.pc = "read", !.gen = now]
<1>1. job[r] \in Job /\ now \in Stamps
  BY SnapshotAssumption DEF SnapshotTypeOK, Times, Stamps
<1>2. new \in Job /\ new.pc = "read" /\ new.gen = now /\ new.base = job[r].base
      /\ new.head = job[r].head
  BY <1>1 DEF Job, Open
<1>3. job' = [job EXCEPT ![r] = new]
  BY DEF Stamp
<1> QED BY <1>2, <1>3 DEF Stamp, Others, SnapshotTypeOK

\* A job reads the team.
LEMMA ReadStep ==
  ASSUME SnapshotTypeOK, NEW r \in Runs, ReadTeam(r)
  PROVE  /\ job' \in [Runs -> Job] /\ Others(r) /\ main' = main
         /\ job[r].pc = "read" /\ job'[r].pc = "commit" /\ job'[r].squad = official
         /\ job'[r].gen = job[r].gen
         /\ job'[r].base = job[r].base /\ job'[r].head = job[r].head
<1> DEFINE new == [job[r] EXCEPT !.pc = "commit", !.squad = official]
<1>1. job[r] \in Job /\ official \in Squads
  BY DEF SnapshotTypeOK
<1>2. new \in Job /\ new.pc = "commit" /\ new.squad = official /\ new.gen = job[r].gen
      /\ new.base = job[r].base /\ new.head = job[r].head
  BY <1>1 DEF Job, Open
<1>3. job' = [job EXCEPT ![r] = new]
  BY DEF ReadTeam
<1> QED BY <1>2, <1>3 DEF ReadTeam, Others, SnapshotTypeOK

\* A job that stops leaves the branch alone.
LEMMA StopStep ==
  ASSUME SnapshotTypeOK, NEW r \in Runs, RefreshFails(r) \/ Die(r)
  PROVE  /\ job' \in [Runs -> Job] /\ Others(r) /\ main' = main
         /\ job'[r].pc \in {"unavailable", "failed"} /\ job'[r].gen = job[r].gen
         /\ job'[r].base = job[r].base /\ job'[r].head = job[r].head
<1>1. job[r] \in Job
  BY DEF SnapshotTypeOK
<1> DEFINE unavailable == [job[r] EXCEPT !.pc = "unavailable"]
           failed == [job[r] EXCEPT !.pc = "failed"]
<1>2. /\ unavailable \in Job /\ unavailable.pc = "unavailable" /\ unavailable.gen = job[r].gen
      /\ unavailable.base = job[r].base /\ unavailable.head = job[r].head
  BY <1>1 DEF Job, Ends
<1>3. /\ failed \in Job /\ failed.pc = "failed" /\ failed.gen = job[r].gen
      /\ failed.base = job[r].base /\ failed.head = job[r].head
  BY <1>1 DEF Job, Ends
<1>4. job' = [job EXCEPT ![r] = unavailable] \/ job' = [job EXCEPT ![r] = failed]
  BY DEF RefreshFails, Die
<1>5. main' = main
  BY DEF RefreshFails, Die
<1> HIDE DEF unavailable, failed
<1> QED BY <1>2, <1>3, <1>4, <1>5 DEF Others, SnapshotTypeOK

\* A job commits what it has read.
LEMMA CommitStep ==
  ASSUME SnapshotTypeOK, NEW r \in Runs, Commit(r), job[r].gen \in Times, job[r].squad \in Squads
  PROVE  /\ job' \in [Runs -> Job] /\ Others(r) /\ main' = main
         /\ job[r].pc = "commit" /\ job'[r].pc = "fetch" /\ job'[r].gen = job[r].gen
         /\ job'[r].base = job[r].base /\ job'[r].head = Written(r)
<1> DEFINE new == [job[r] EXCEPT !.pc = "fetch", !.head = Written(r)]
<1>1. job[r] \in Job /\ Written(r) \in Tree
  BY WrittenTree DEF SnapshotTypeOK
<1>2. job' = [job EXCEPT ![r] = new]
  BY DEF Commit
<1>3. /\ new \in Job /\ new.pc = "fetch" /\ new.gen = job[r].gen
      /\ new.base = job[r].base /\ new.head = Written(r)
  BY <1>1 DEF Job, Open
<1> HIDE DEF new
<1>4. job'[r] = new /\ job' \in [Runs -> Job] /\ Others(r)
  BY <1>2, <1>3 DEF SnapshotTypeOK, Others
<1>5. main' = main /\ job[r].pc = "commit"
  BY DEF Commit
<1> QED BY <1>3, <1>4, <1>5

\* A job finds the branch newer and stops, or rebases on it.
LEMMA FetchStep ==
  ASSUME SnapshotTypeOK, NEW r \in Runs, FetchAndRebase(r)
  PROVE  /\ job' \in [Runs -> Job] /\ Others(r) /\ main' = main
         /\ job[r].pc = "fetch" /\ job'[r].gen = job[r].gen
         /\ \/ /\ Older(r) /\ job'[r].pc = "blocked"
               /\ job'[r].base = job[r].base /\ job'[r].head = job[r].head
            \/ /\ ~Older(r) /\ job'[r].pc = "push" /\ job'[r].base = main
               /\ job'[r].try = job[r].try
               /\ job'[r].head = IF Landed(r) THEN main ELSE Rebased(r)
<1> DEFINE h == IF Landed(r) THEN main ELSE Rebased(r)
           blocked == [job[r] EXCEPT !.pc = "blocked"]
           new == [job[r] EXCEPT !.pc = "push", !.base = main, !.head = h]
<1>1. job[r] \in Job /\ main \in Tree /\ h \in Tree
  BY RebasedTree DEF SnapshotTypeOK
<1>2. job' = [job EXCEPT ![r] = IF Older(r) THEN blocked ELSE new]
  BY DEF FetchAndRebase
<1>3. main' = main /\ job[r].pc = "fetch"
  BY DEF FetchAndRebase
<1> HIDE DEF h
<1>4. blocked \in Job /\ blocked.pc = "blocked" /\ blocked.gen = job[r].gen
      /\ blocked.base = job[r].base /\ blocked.head = job[r].head
  BY <1>1 DEF Job, Ends
<1>5. new \in Job /\ new.pc = "push" /\ new.gen = job[r].gen /\ new.base = main /\ new.head = h
      /\ new.try = job[r].try
  BY <1>1 DEF Job, Open
<1> HIDE DEF blocked, new
<1>6. job' \in [Runs -> Job] /\ Others(r) /\ job'[r] = IF Older(r) THEN blocked ELSE new
  BY <1>2, <1>4, <1>5 DEF SnapshotTypeOK, Others
<1> QED BY <1>3, <1>4, <1>5, <1>6 DEF h

\* A push fails or moves the branch, which it can only as a fast-forward.
LEMMA PushStep ==
  ASSUME SnapshotTypeOK, NEW r \in Runs, Push(r) \/ PushFails(r)
  PROVE  /\ job' \in [Runs -> Job] /\ Others(r)
         /\ job[r].pc = "push" /\ job'[r].gen = job[r].gen
         /\ job'[r].base = job[r].base /\ job'[r].head = job[r].head
         /\ main' = main \/ (FastForward(r) /\ main' = job[r].head)
         /\ \/ job'[r].pc = "passed" /\ FastForward(r) /\ main' = job[r].head
            \/ job'[r].pc \in {"fetch", "failed"}
<1> DEFINE passed == [job[r] EXCEPT !.pc = "passed"]
           failed == [job[r] EXCEPT !.pc = "failed"]
           again == [job[r] EXCEPT !.pc = "fetch", !.try = @ + 1]
<1>1. job[r] \in Job
  BY DEF SnapshotTypeOK
<1>2. \/ job' = [job EXCEPT ![r] = passed] /\ FastForward(r) /\ main' = job[r].head
      \/ job' = [job EXCEPT ![r] = Rejected(r)]
  BY DEF Push, PushFails
<1>3. /\ main' = main \/ (FastForward(r) /\ main' = job[r].head)
      /\ job[r].pc = "push"
  BY DEF Push, PushFails
<1>4. passed \in Job /\ passed.pc = "passed" /\ passed.gen = job[r].gen
      /\ passed.base = job[r].base /\ passed.head = job[r].head
  BY <1>1 DEF Job, Ends
<1>5. Rejected(r) \in Job /\ Rejected(r).pc \in {"fetch", "failed"} /\ Rejected(r).gen = job[r].gen
      /\ Rejected(r).base = job[r].base /\ Rejected(r).head = job[r].head
  <2>1. failed \in Job /\ failed.pc = "failed" /\ failed.gen = job[r].gen
        /\ failed.base = job[r].base /\ failed.head = job[r].head
    BY <1>1 DEF Job, Ends
  <2>2. job[r].try # Attempts => job[r].try + 1 \in 1..Attempts
    BY <1>1, SnapshotAssumption DEF Job
  <2>3. job[r].try # Attempts =>
          /\ again \in Job /\ again.pc = "fetch" /\ again.gen = job[r].gen
          /\ again.base = job[r].base /\ again.head = job[r].head
    BY <1>1, <2>2 DEF Job, Open
  <2>4. Rejected(r) = IF job[r].try = Attempts THEN failed ELSE again
    BY DEF Rejected
  <2> HIDE DEF failed, again
  <2> QED BY <2>1, <2>3, <2>4
<1> HIDE DEF passed
<1> QED BY <1>2, <1>3, <1>4, <1>5 DEF SnapshotTypeOK, Others

-----------------------------------------------------------------------------
(* Types *)

\* What the types do not say: a team is stamped before it is written.
Stamped(q) ==
  /\ job[q].pc \in {"read", "commit", "fetch", "push"} => job[q].gen \in Times
  /\ job[q].pc = "commit" => job[q].squad \in Squads

TypeInv == SnapshotTypeOK /\ \A q \in Runs : Stamped(q)

\* The branch at first has no commit of a job.
LEMMA InitMain ==
  ASSUME Init
  PROVE  /\ main \in Tree /\ main.log = {}
         /\ \A t \in Times : main.kept[t] # None => t = 1 /\ main.kept[t] = official
<1> DEFINE k == [Empty.kept EXCEPT ![1] = official]
<1>0. official \in Squads /\ 1 \in Stamps
  BY SnapshotAssumption DEF Init, Stamps
<1>1. k \in [Times -> Squads \cup {None}]
  BY <1>0 DEF Empty
<1>2. \A t \in Times : k[t] # None => t = 1 /\ k[t] = official
  BY DEF Empty
<1>3. main = Empty \/ main = [gen |-> 1, squad |-> official, kept |-> k, log |-> {}]
  BY DEF Init, Empty
<1>4. Empty.log = {} /\ \A t \in Times : Empty.kept[t] = None
  BY DEF Empty
<1> HIDE DEF k
<1>5. CASE main = Empty
  BY <1>4, <1>5, TreeType
<1>6. CASE main = [gen |-> 1, squad |-> official, kept |-> k, log |-> {}]
  BY <1>0, <1>1, <1>2, <1>6 DEF Tree
<1> QED BY <1>3, <1>5, <1>6

\* A job at first has nothing.
LEMMA InitJob ==
  ASSUME Init, NEW q \in Runs
  PROVE  /\ job[q] \in Job /\ job[q].pc = "idle" /\ job[q].base = Empty /\ job[q].head = Empty
<1>1. job[q] = [pc |-> "idle", gen |-> 0, squad |-> None, try |-> 1, base |-> Empty, head |-> Empty]
  BY DEF Init
<1> QED BY <1>1, TreeType, SnapshotAssumption DEF Job, Stamps

\* Initially every variable has its type.
LEMMA TypeInit == Init => TypeInv
<1> SUFFICES ASSUME Init PROVE TypeInv
  OBVIOUS
<1>1. job \in [Runs -> Job]
  BY InitJob DEF Init
<1>2. now \in Times /\ official \in Squads
  BY SnapshotAssumption DEF Init, Times
<1>3. last \in [Squads -> Stamps]
  BY SnapshotAssumption DEF Init, Stamps
<1> QED BY <1>1, <1>2, <1>3, InitMain, InitJob DEF TypeInv, SnapshotTypeOK, Stamped

\* The other publishers leave the snapshot alone.
LEMMA OtherTree ==
  ASSUME SnapshotTypeOK, NEW n \in 1..OtherPushes, OtherPush(n)
  PROVE  /\ main' \in Tree /\ main'.gen = main.gen /\ main'.kept = main.kept
         /\ main'.log = main.log \cup {<<None, n>>} /\ <<None, n>> \notin main.log
<1> DEFINE l == main.log \cup {<<None, n>>}
           new == [gen |-> main.gen, squad |-> main.squad, kept |-> main.kept, log |-> l]
<1>1. main' = [main EXCEPT !.log = l] /\ <<None, n>> \notin main.log
  BY DEF OtherPush
<1>2. main \in Tree /\ l \in SUBSET Commits
  BY TreeType DEF SnapshotTypeOK, Commits
<1> HIDE DEF l
<1>3. main' = new
  BY <1>1, <1>2 DEF Tree
<1>4. new \in Tree
  BY <1>2, TreeType DEF Tree
<1> QED BY <1>1, <1>3, <1>4 DEF l

\* Every step keeps the types.
LEMMA TypeNext == TypeInv /\ [Next]_vars => TypeInv'
<1> SUFFICES ASSUME TypeInv, [Next]_vars PROVE TypeInv'
  OBVIOUS
<1>t. SnapshotTypeOK /\ \A q \in Runs : Stamped(q) /\ job[q] \in Job /\ job[q].head \in Tree
  BY DEF TypeInv, SnapshotTypeOK, Job
<1>1. CASE Elapse
  <2>1. now + 1 \in Times /\ now + 1 \in Stamps
    BY <1>1, <1>t, SnapshotAssumption DEF Elapse, SnapshotTypeOK, Times, Stamps
  <2> QED BY <1>1, <1>t, <2>1 DEF Elapse, TypeInv, SnapshotTypeOK, Stamped
<1>2. ASSUME NEW s \in Squads, Edit(s) PROVE TypeInv'
  <2>1. now \in Stamps
    BY <1>t DEF SnapshotTypeOK, Times, Stamps
  <2> QED BY <1>2, <1>t, <2>1 DEF Edit, TypeInv, SnapshotTypeOK, Stamped
<1>3. ASSUME NEW n \in 1..OtherPushes, OtherPush(n) PROVE TypeInv'
  <2>1. main' \in Tree
    BY <1>3, <1>t, OtherTree
  <2> QED BY <1>3, <1>t, <2>1 DEF OtherPush, TypeInv, SnapshotTypeOK, Stamped
<1>4. ASSUME NEW r \in Runs, Checkout(r) \/ JobStep(r) PROVE TypeInv'
  <2>1. UNCHANGED <<now, official, last>>
    BY <1>4 DEF Checkout, JobStep, Stamp, ReadTeam, RefreshFails, Commit, FetchAndRebase, Push,
        PushFails, Die
  <2>2. SUFFICES /\ job' \in [Runs -> Job] /\ Others(r) /\ main' \in Tree /\ Stamped(r)'
    BY <1>t, <2>1 DEF TypeInv, SnapshotTypeOK, Stamped, Others
  <2>m. main \in Tree /\ now \in Times /\ official \in Squads
    BY <1>t DEF SnapshotTypeOK
  <2>3. CASE Checkout(r)
    BY <1>t, <2>3, <2>m, CheckoutStep DEF Stamped
  <2>4. CASE Stamp(r)
    BY <1>t, <2>4, <2>m, StampStep DEF Stamped
  <2>5. CASE ReadTeam(r)
    BY <1>t, <2>5, <2>m, ReadStep DEF Stamped
  <2>6. CASE RefreshFails(r) \/ Die(r)
    BY <1>t, <2>6, <2>m, StopStep DEF Stamped
  <2>7. CASE Commit(r)
    <3>1. job[r].gen \in Times /\ job[r].squad \in Squads
      BY <1>t, <2>7 DEF Commit, Stamped
    <3> QED BY <1>t, <2>7, <2>m, <3>1, CommitStep DEF Stamped
  <2>8. CASE FetchAndRebase(r)
    BY <1>t, <2>8, <2>m, FetchStep DEF Stamped
  <2>9. CASE Push(r) \/ PushFails(r)
    BY <1>t, <2>9, <2>m, PushStep DEF Stamped
  <2> QED BY <1>4, <2>3, <2>4, <2>5, <2>6, <2>7, <2>8, <2>9 DEF JobStep
<1>5. CASE UNCHANGED vars
  BY <1>5, <1>t DEF vars, TypeInv, SnapshotTypeOK, Stamped
<1> QED BY <1>1, <1>2, <1>3, <1>4, <1>5 DEF Next

\* Every variable keeps its type.
THEOREM TypeCorrect == Spec => []SnapshotTypeOK
<1>1. TypeInv => SnapshotTypeOK
  BY DEF TypeInv
<1> QED BY <1>1, TypeInit, TypeNext, PTL DEF Spec

-----------------------------------------------------------------------------
(* The order of the snapshots on the branch *)

\* The checkout is an ancestor of the branch, and the head keeps what it has.
Based(q) ==
  /\ job[q].base.log \subseteq main.log
  /\ job[q].base.gen <= main.gen
  /\ \A t \in Times : job[q].base.kept[t] # None => main.kept[t] # None
  /\ \A t \in Times :
       job[q].head.kept[t] = job[q].base.kept[t] \/ job[q].head.kept[t] # None

\* A job publishes nothing before it commits; then its head has its snapshot or a
\* newer one.
Kept(q) ==
  /\ job[q].pc \in {"idle", "stamp", "read", "commit"} => ~Landed(q)
  /\ job[q].pc \in {"fetch", "push"} =>
       job[q].head.gen >= job[q].gen /\ job[q].head.kept[job[q].gen] # None

\* What a push that is a fast-forward does: it adds one commit to the branch.
Pushable(q) ==
  job[q].pc = "push" =>
    /\ job[q].head.gen >= job[q].base.gen
    /\ job[q].base.log = main.log => job[q].base = main
    /\ \/ job[q].head = job[q].base /\ Landed(q)
       \/ \E k \in 1..Attempts :
            /\ <<q, k>> \notin job[q].base.log
            /\ job[q].head.log = job[q].base.log \cup {<<q, k>>}

Served(q) ==
  /\ Landed(q) => /\ job[q].gen \in Times /\ main.gen >= job[q].gen
                  /\ main.kept[job[q].gen] # None
  /\ job[q].pc = "passed" => Landed(q)
  /\ job[q].pc = "blocked" => main.gen >= job[q].gen

OrderInv == \A q \in Runs : Based(q) /\ Kept(q) /\ Pushable(q) /\ Served(q)

\* The branch only advances.
Advances ==
  /\ main' \in Tree
  /\ main.gen <= main'.gen
  /\ main.log \subseteq main'.log
  /\ \A t \in Times : main.kept[t] # None => main'.kept[t] # None
  /\ main' = main \/ main'.log # main.log

\* Initially every job has an ancestor of the branch in hand.
LEMMA OrderInit == Init => OrderInv
<1> SUFFICES ASSUME Init, NEW q \in Runs PROVE Based(q) /\ Kept(q) /\ Pushable(q) /\ Served(q)
  BY DEF OrderInv
<1>1. /\ Empty.log = {} /\ Empty.gen = 0 /\ \A t \in Times : Empty.kept[t] = None
  BY DEF Empty
<1>2. ~Landed(q)
  BY InitMain DEF Landed
<1>3. main.gen \in Stamps
  BY InitMain, TreeType
<1>4. Based(q)
  BY <1>1, <1>3, InitJob, SnapshotAssumption DEF Based, Stamps
<1> QED BY <1>2, <1>4, InitJob DEF Kept, Pushable, Served

\* A job that does not step keeps its part, when the branch gets no commit of it.
LEMMA Unmoved ==
  ASSUME TypeInv, NEW q \in Runs, job'[q] = job[q], Advances, Landed(q)' <=> Landed(q),
         Based(q), Kept(q), Pushable(q), Served(q)
  PROVE  Based(q)' /\ Kept(q)' /\ Pushable(q)' /\ Served(q)'
<1>1. /\ main.gen \in Nat /\ main'.gen \in Nat /\ job[q].gen \in Nat /\ job[q].base.gen \in Nat
  BY TreeType, SnapshotAssumption DEF TypeInv, SnapshotTypeOK, Job, Stamps, Advances
<1>2. Based(q)'
  BY <1>1 DEF Based, Advances
<1>3. Kept(q)'
  BY DEF Kept
<1>4. Pushable(q)'
  BY DEF Pushable, Advances, Based
<1>5. Served(q)'
  BY <1>1 DEF Served, Advances
<1> QED BY <1>2, <1>3, <1>4, <1>5

\* The branch with the head of a job whose push is a fast-forward.
LEMMA Pushed ==
  ASSUME TypeInv, OrderInv, NEW r \in Runs, job[r].pc = "push",
         main' = main \/ (FastForward(r) /\ main' = job[r].head)
  PROVE  /\ Advances
         /\ \A q \in Runs \ {r} : \A k \in 1..Attempts : <<q, k>> \in main'.log => <<q, k>> \in main.log
         /\ main' # main => \E k \in 1..Attempts : <<r, k>> \in main'.log
<1>1. /\ main \in Tree /\ job[r].head \in Tree
  BY DEF TypeInv, SnapshotTypeOK, Job
<1>2. main.gen \in Nat
  BY <1>1, TreeType, SnapshotAssumption DEF Stamps
<1>3. CASE main' = main
  BY <1>1, <1>2, <1>3 DEF Advances
<1>4. CASE FastForward(r) /\ main' = job[r].head
  <2>1. job[r].base = main /\ job[r].head.gen >= main.gen /\ Based(r) /\ Pushable(r)
    BY <1>4 DEF OrderInv, Pushable, FastForward
  <2>2. \/ main' = main
        \/ \E k \in 1..Attempts : <<r, k>> \notin main.log /\ main'.log = main.log \cup {<<r, k>>}
    BY <1>4, <2>1 DEF Pushable
  <2>3. main'.gen \in Nat /\ main.gen <= main'.gen
    BY <1>1, <1>2, <1>4, <2>1, TreeType, SnapshotAssumption DEF Stamps
  <2>4. \A t \in Times : main.kept[t] # None => main'.kept[t] # None
    BY <1>4, <2>1 DEF Based
  <2> QED BY <1>1, <1>4, <2>2, <2>3, <2>4 DEF Advances
<1> QED BY <1>3, <1>4

\* The new head of a job that rebases.
LEMMA Rebases ==
  ASSUME TypeInv, OrderInv, NEW r \in Runs, FetchAndRebase(r), ~Older(r),
         NEW h, h = IF Landed(r) THEN main ELSE Rebased(r)
  PROVE  /\ h.gen >= main.gen /\ h.gen >= job[r].gen /\ h.kept[job[r].gen] # None
         /\ \A t \in Times : h.kept[t] = main.kept[t] \/ h.kept[t] # None
         /\ \/ h = main /\ Landed(r)
            \/ \E k \in 1..Attempts :
                 <<r, k>> \notin main.log /\ h.log = main.log \cup {<<r, k>>}
<1> DEFINE b == job[r].base
           g == job[r].gen
<1>1. /\ main \in Tree /\ job[r].head \in Tree /\ b \in Tree /\ job[r].try \in 1..Attempts
      /\ g \in Stamps
  BY DEF TypeInv, SnapshotTypeOK, Job
<1>2. main.gen \in Nat /\ job[r].head.gen \in Nat /\ b.gen \in Nat /\ g \in Nat
  BY <1>1, TreeType, SnapshotAssumption DEF Stamps
<1>3. job[r].pc = "fetch" /\ job[r].head.gen >= main.gen
  BY <1>2 DEF FetchAndRebase, Older
<1>4. /\ Based(r) /\ Served(r)
      /\ job[r].head.gen >= g /\ job[r].head.kept[g] # None /\ g \in Times
  BY <1>3 DEF OrderInv, Kept, TypeInv, Stamped
<1>5. CASE Landed(r)
  BY <1>2, <1>4, <1>5 DEF Served
<1>6. CASE ~Landed(r)
  <2>1. h = Rebased(r)
    BY <1>6
  <2>2. /\ h.gen = Pick(b.gen, job[r].head.gen, main.gen)
        /\ h.log = main.log \cup {<<r, job[r].try>>}
        /\ \A t \in Times : h.kept[t] = Pick(b.kept[t], job[r].head.kept[t], main.kept[t])
    BY <2>1, RebasedTree DEF TypeInv
  <2>3. h.gen >= main.gen /\ h.gen >= g
    BY <1>2, <1>3, <1>4, <2>2 DEF Pick, Based
  <2>4. \A t \in Times : h.kept[t] = main.kept[t] \/ h.kept[t] # None
    BY <1>4, <2>2 DEF Pick, Based
  <2>5. h.kept[g] # None
    BY <1>4, <2>2 DEF Pick, Based
  <2>6. <<r, job[r].try>> \notin main.log
    BY <1>1, <1>6 DEF Landed
  <2> QED BY <1>1, <2>2, <2>3, <2>4, <2>5, <2>6
<1> QED BY <1>5, <1>6

\* Every step keeps what each job has in hand.
LEMMA OrderNext == TypeInv /\ OrderInv /\ [Next]_vars => OrderInv'
<1> SUFFICES ASSUME TypeInv, OrderInv, [Next]_vars PROVE OrderInv'
  OBVIOUS
<1>t. /\ SnapshotTypeOK /\ main \in Tree /\ main.gen \in Nat
      /\ \A q \in Runs : Stamped(q) /\ job[q].gen \in Nat
  BY TreeType, SnapshotAssumption DEF TypeInv, SnapshotTypeOK, Job, Stamps
<1>i. \A q \in Runs : Based(q) /\ Kept(q) /\ Pushable(q) /\ Served(q)
  BY DEF OrderInv
<1>m. ASSUME main' = main PROVE Advances /\ \A q \in Runs : Landed(q)' <=> Landed(q)
  BY <1>m, <1>t DEF Advances, Landed
<1>1. CASE Elapse \/ (\E s \in Squads : Edit(s)) \/ UNCHANGED vars
  <2>1. main' = main /\ job' = job
    BY <1>1 DEF Elapse, Edit, vars
  <2> QED BY <1>m, <1>i, <2>1, Unmoved DEF OrderInv
<1>2. ASSUME NEW n \in 1..OtherPushes, OtherPush(n) PROVE OrderInv'
  <2>1. job' = job
    BY <1>2 DEF OtherPush
  <2>o. /\ main' \in Tree /\ main'.gen = main.gen /\ main'.kept = main.kept
        /\ main'.log = main.log \cup {<<None, n>>} /\ <<None, n>> \notin main.log
    BY <1>2, <1>t, OtherTree
  <2>2. Advances
    BY <1>t, <2>o DEF Advances
  <2>3. \A q \in Runs : Landed(q)' <=> Landed(q)
    BY <2>o, SnapshotAssumption DEF Landed
  <2> QED BY <1>i, <2>1, <2>2, <2>3, Unmoved DEF OrderInv
<1>3. ASSUME NEW r \in Runs, Checkout(r) \/ JobStep(r) PROVE OrderInv'
  <2>a. SUFFICES /\ Others(r) /\ Advances
                 /\ \A q \in Runs \ {r} : Landed(q)' <=> Landed(q)
                 /\ Based(r)' /\ Kept(r)' /\ Pushable(r)' /\ Served(r)'
    BY <1>i, Unmoved DEF OrderInv, Others
  <2>r. Based(r) /\ Kept(r) /\ Pushable(r) /\ Served(r)
    BY <1>i
  <2>1. CASE Checkout(r)
    <3>1. Others(r) /\ main' = main /\ job[r].pc = "idle" /\ job'[r].pc = "stamp"
          /\ job'[r].base = main /\ job'[r].head = main
      BY <1>t, <2>1, CheckoutStep
    <3>2. Advances /\ ~Landed(r)' /\ \A q \in Runs \ {r} : Landed(q)' <=> Landed(q)
      BY <1>m, <2>r, <3>1 DEF Kept
    <3>3. Based(r)'
      BY <1>t, <3>1 DEF Based
    <3> QED BY <3>1, <3>2, <3>3 DEF Kept, Pushable, Served
  <2>2. CASE Stamp(r)
    <3>1. /\ Others(r) /\ main' = main /\ job[r].pc = "stamp" /\ job'[r].pc = "read"
          /\ job'[r].base = job[r].base /\ job'[r].head = job[r].head
      BY <1>t, <2>2, StampStep
    <3>2. Advances /\ ~Landed(r)' /\ \A q \in Runs \ {r} : Landed(q)' <=> Landed(q)
      BY <1>m, <2>r, <3>1 DEF Kept
    <3> QED BY <2>r, <3>1, <3>2 DEF Based, Kept, Pushable, Served
  <2>3. CASE ReadTeam(r)
    <3>1. /\ Others(r) /\ main' = main /\ job[r].pc = "read" /\ job'[r].pc = "commit"
          /\ job'[r].base = job[r].base /\ job'[r].head = job[r].head
      BY <1>t, <2>3, ReadStep
    <3>2. Advances /\ ~Landed(r)' /\ \A q \in Runs \ {r} : Landed(q)' <=> Landed(q)
      BY <1>m, <2>r, <3>1 DEF Kept
    <3> QED BY <2>r, <3>1, <3>2 DEF Based, Kept, Pushable, Served
  <2>4. CASE RefreshFails(r) \/ Die(r)
    <3>1. /\ Others(r) /\ main' = main /\ job'[r].pc \in {"unavailable", "failed"}
          /\ job'[r].gen = job[r].gen
          /\ job'[r].base = job[r].base /\ job'[r].head = job[r].head
      BY <1>t, <2>4, StopStep
    <3>2. Advances /\ (Landed(r)' <=> Landed(r)) /\ \A q \in Runs \ {r} : Landed(q)' <=> Landed(q)
      BY <1>m, <3>1
    <3> QED BY <2>r, <3>1, <3>2 DEF Based, Kept, Pushable, Served
  <2>5. CASE Commit(r)
    <3>1. job[r].gen \in Times /\ job[r].squad \in Squads /\ job[r].pc = "commit"
      BY <1>t, <2>5 DEF Commit, Stamped
    <3>2. /\ Others(r) /\ main' = main /\ job'[r].pc = "fetch" /\ job'[r].gen = job[r].gen
          /\ job'[r].base = job[r].base /\ job'[r].head = Written(r)
      BY <1>t, <2>5, <3>1, CommitStep
    <3>3. Advances /\ ~Landed(r)' /\ \A q \in Runs \ {r} : Landed(q)' <=> Landed(q)
      BY <1>m, <2>r, <3>1, <3>2 DEF Kept
    <3>4. /\ Written(r).gen = job[r].gen /\ Written(r).kept[job[r].gen] # None
          /\ \A t \in Times : Written(r).kept[t] = job[r].base.kept[t] \/ Written(r).kept[t] # None
      BY <1>t, <2>r, <3>1, WrittenTree, SnapshotAssumption DEF Based
    <3>5. Based(r)'
      BY <2>r, <3>2, <3>4 DEF Based
    <3>6. Kept(r)'
      BY <1>t, <3>2, <3>4 DEF Kept
    <3> QED BY <3>2, <3>3, <3>5, <3>6 DEF Pushable, Served
  <2>6. CASE FetchAndRebase(r)
    <3>1. Others(r) /\ main' = main /\ job[r].pc = "fetch" /\ job'[r].gen = job[r].gen
      BY <1>t, <2>6, FetchStep
    <3>2. Advances /\ \A q \in Runs : Landed(q)' <=> Landed(q)
      BY <1>m, <3>1
    <3>3. CASE Older(r)
      <4>1. /\ job'[r].pc = "blocked" /\ job'[r].base = job[r].base /\ job'[r].head = job[r].head
        BY <1>t, <2>6, <3>3, FetchStep
      <4>2. job[r].head.gen \in Nat /\ job[r].head.gen >= job[r].gen /\ job[r].head.gen < main.gen
        BY <2>r, <3>1, <3>3, TreeType, SnapshotAssumption, <1>t DEF Kept, Older, SnapshotTypeOK, Job, Stamps
      <4>3. main'.gen >= job'[r].gen
        BY <1>t, <3>1, <4>2
      <4> QED BY <2>r, <3>1, <3>2, <4>1, <4>3 DEF Based, Kept, Pushable, Served
    <3>4. CASE ~Older(r)
      <4> DEFINE h == IF Landed(r) THEN main ELSE Rebased(r)
      <4>1. job'[r].pc = "push" /\ job'[r].base = main /\ job'[r].head = h
        BY <1>t, <2>6, <3>4, FetchStep
      <4>2. /\ h.gen >= main.gen /\ h.gen >= job[r].gen /\ h.kept[job[r].gen] # None
            /\ \A t \in Times : h.kept[t] = main.kept[t] \/ h.kept[t] # None
            /\ \/ h = main /\ Landed(r)
               \/ \E k \in 1..Attempts :
                    <<r, k>> \notin main.log /\ h.log = main.log \cup {<<r, k>>}
        BY <2>6, <3>4, Rebases
      <4> HIDE DEF h
      <4>3. Based(r)'
        BY <1>t, <3>1, <4>1, <4>2 DEF Based
      <4>4. Kept(r)'
        BY <3>1, <4>1, <4>2 DEF Kept
      <4>5. Pushable(r)'
        BY <3>1, <3>2, <4>1, <4>2 DEF Pushable
      <4>6. Served(r)'
        BY <2>r, <3>1, <3>2, <4>1 DEF Served
      <4> QED BY <3>1, <3>2, <4>3, <4>4, <4>5, <4>6
    <3> QED BY <3>3, <3>4
  <2>7. CASE Push(r) \/ PushFails(r)
    <3>1. /\ Others(r) /\ job[r].pc = "push" /\ job'[r].gen = job[r].gen
          /\ job'[r].base = job[r].base /\ job'[r].head = job[r].head
          /\ main' = main \/ (FastForward(r) /\ main' = job[r].head)
          /\ \/ job'[r].pc = "passed" /\ FastForward(r) /\ main' = job[r].head
             \/ job'[r].pc \in {"fetch", "failed"}
      BY <1>t, <2>7, PushStep
    <3>2. /\ Advances
          /\ \A q \in Runs \ {r} : \A k \in 1..Attempts : <<q, k>> \in main'.log => <<q, k>> \in main.log
          /\ main' # main => \E k \in 1..Attempts : <<r, k>> \in main'.log
      BY <3>1, Pushed
    <3>3. \A q \in Runs \ {r} : Landed(q)' <=> Landed(q)
      BY <3>2 DEF Landed, Advances
    <3>4. /\ job[r].gen \in Times /\ job[r].head.gen >= job[r].gen
          /\ job[r].head.kept[job[r].gen] # None
      BY <1>t, <2>r, <3>1 DEF Stamped, Kept
    <3>5. main'.gen \in Nat /\ job[r].base.gen \in Nat
      BY <1>t, <3>2, TreeType, SnapshotAssumption DEF Advances, Stamps, SnapshotTypeOK, Job
    <3>6. Based(r)'
      BY <1>t, <2>r, <3>1, <3>2, <3>5 DEF Based, Advances
    <3>7. Kept(r)' /\ Pushable(r)'
      BY <2>r, <3>1 DEF Kept, Pushable
    <3>8. Landed(r)' => main'.gen >= job[r].gen /\ main'.kept[job[r].gen] # None
      <4>1. CASE main' = main
        BY <1>m, <2>r, <4>1 DEF Served
      <4>2. CASE main' = job[r].head
        BY <3>4, <4>2
      <4> QED BY <3>1, <4>1, <4>2
    <3>9. job'[r].pc = "passed" => Landed(r)'
      <4> SUFFICES ASSUME job'[r].pc = "passed" PROVE Landed(r)'
        OBVIOUS
      <4>1. FastForward(r) /\ main' = job[r].head
        BY <3>1
      <4>2. CASE main' = main
        <5>1. job[r].head = job[r].base /\ Landed(r)
          BY <2>r, <3>1, <4>1, <4>2 DEF Pushable, FastForward
        <5> QED BY <1>m, <4>2, <5>1
      <4>3. CASE main' # main
        BY <3>2, <4>3 DEF Landed
      <4> QED BY <4>2, <4>3
    <3>10. Served(r)'
      BY <3>1, <3>4, <3>8, <3>9 DEF Served
    <3> QED BY <3>1, <3>2, <3>3, <3>6, <3>7, <3>10
  <2> QED BY <1>3, <2>1, <2>2, <2>3, <2>4, <2>5, <2>6, <2>7 DEF JobStep
<1> QED BY <1>1, <1>2, <1>3 DEF Next

\* They hold throughout.
LEMMA OrderCorrect == Spec => [](TypeInv /\ OrderInv)
BY TypeInit, TypeNext, OrderInit, OrderNext, PTL DEF Spec

\* The snapshot on the branch is never replaced by an older one.
THEOREM SnapshotNeverBackdated == Spec => NeverBackdated
<1>1. TypeInv /\ OrderInv /\ [Next]_vars => [main.gen <= main'.gen]_vars
  <2> SUFFICES ASSUME TypeInv, OrderInv, Next PROVE main.gen <= main'.gen
    BY DEF vars
  <2>t. SnapshotTypeOK /\ main.gen \in Nat
    BY TreeType, SnapshotAssumption DEF TypeInv, SnapshotTypeOK, Stamps
  <2>1. ASSUME NEW r \in Runs, Push(r) \/ PushFails(r) PROVE main.gen <= main'.gen
    BY <2>t, <2>1, PushStep, Pushed DEF Advances
  <2>2. ASSUME NEW n \in 1..OtherPushes, OtherPush(n) PROVE main.gen <= main'.gen
    <3>1. main'.gen = main.gen
      BY <2>t, <2>2, OtherTree
    <3> QED BY <2>t, <3>1
  <2>3. ASSUME main' = main PROVE main.gen <= main'.gen
    BY <2>t, <2>3
  <2> QED BY <2>1, <2>2, <2>3 DEF Next, Elapse, Edit, Checkout, JobStep, Stamp, ReadTeam,
        RefreshFails, Commit, FetchAndRebase, Die
<1> QED BY <1>1, OrderCorrect, PTL DEF Spec, NeverBackdated

\* What a job has passed is on the branch or followed by a newer one; what blocked
\* a job is newer.
THEOREM PassServed == Spec => []PassIsServed
<1>1. TypeInv /\ OrderInv => PassIsServed
  BY DEF OrderInv, Served, PassIsServed
<1> QED BY <1>1, OrderCorrect, PTL

-----------------------------------------------------------------------------
(* What a snapshot on record shows *)

AsOf(v) == \A t \in Times : v.kept[t] # None => last[v.kept[t]] >= t

\* A team read after the time it is stamped with was the official one at that time
\* or later.
ReadAfter(q) ==
  /\ job[q].pc \in {"read", "commit"} => job[q].gen <= now
  /\ job[q].pc = "commit" => last[job[q].squad] >= job[q].gen

AsOfInv ==
  /\ last[official] = now
  /\ \A s \in Squads : last[s] <= now
  /\ AsOf(main)
  /\ \A q \in Runs : AsOf(job[q].head) /\ ReadAfter(q)

\* Initially every kept squad is as of its time.
LEMMA AsOfInit == Init => AsOfInv
<1> SUFFICES ASSUME Init PROVE AsOfInv
  OBVIOUS
<1>1. now = 1 /\ official \in Squads /\ \A s \in Squads : last[s] = IF s = official THEN 1 ELSE 0
  BY DEF Init
<1>2. AsOf(main)
  BY <1>1, InitMain DEF AsOf
<1>3. ASSUME NEW q \in Runs PROVE AsOf(job[q].head) /\ ReadAfter(q)
  <2>1. job[q].pc = "idle" /\ job[q].head = Empty
    BY InitJob
  <2>2. \A t \in Times : Empty.kept[t] = None
    BY DEF Empty
  <2> QED BY <2>1, <2>2 DEF AsOf, ReadAfter
<1> QED BY <1>1, <1>2, <1>3 DEF AsOfInv

\* A snapshot stays what it was as the owner edits the team and time goes on.
LEMMA AsOfStays ==
  ASSUME SnapshotTypeOK, last' \in [Squads -> Stamps], \A s \in Squads : last[s] <= last'[s],
         NEW v \in Tree, AsOf(v)
  PROVE  \A t \in Times : v.kept[t] # None => last'[v.kept[t]] >= t
<1> SUFFICES ASSUME NEW t \in Times, v.kept[t] # None PROVE last'[v.kept[t]] >= t
  OBVIOUS
<1>1. v.kept[t] \in Squads
  BY TreeType
<1>2. last[v.kept[t]] \in Nat /\ last'[v.kept[t]] \in Nat /\ t \in Nat
  BY <1>1, SnapshotAssumption DEF SnapshotTypeOK, Stamps, Times
<1>3. last[v.kept[t]] >= t /\ last[v.kept[t]] <= last'[v.kept[t]]
  BY <1>1 DEF AsOf
<1> QED BY <1>2, <1>3

\* The team of the game is where it was; a tree changes to one that is as of its times.
LEMMA AsOfNext == TypeInv /\ AsOfInv /\ [Next]_vars => AsOfInv'
<1> SUFFICES ASSUME TypeInv, AsOfInv, [Next]_vars PROVE AsOfInv'
  OBVIOUS
<1>t. /\ SnapshotTypeOK /\ main \in Tree /\ official \in Squads /\ now \in Nat
      /\ \A s \in Squads : last[s] \in Nat
      /\ \A q \in Runs : Stamped(q) /\ job[q].gen \in Nat /\ job[q].head \in Tree
  BY SnapshotAssumption DEF TypeInv, SnapshotTypeOK, Job, Stamps, Times
<1>i. /\ last[official] = now /\ \A s \in Squads : last[s] <= now
      /\ AsOf(main) /\ \A q \in Runs : AsOf(job[q].head) /\ ReadAfter(q)
  BY DEF AsOfInv
<1>g. ASSUME main' = main, job' = job, now <= now', now' \in Nat,
             last' \in [Squads -> Stamps], \A s \in Squads : last[s] <= last'[s]
      PROVE  AsOf(main)' /\ \A q \in Runs : AsOf(job[q].head)' /\ ReadAfter(q)'
  <2>1. AsOf(main)'
    BY <1>g, <1>t, <1>i, AsOfStays DEF AsOf
  <2>2. ASSUME NEW q \in Runs PROVE AsOf(job[q].head)'
    BY <1>g, <1>t, <1>i, AsOfStays DEF AsOf
  <2>3. ASSUME NEW q \in Runs PROVE ReadAfter(q)'
    <3>1. CASE job[q].pc = "read"
      BY <1>g, <1>t, <1>i, <3>1 DEF ReadAfter
    <3>2. CASE job[q].pc = "commit"
      <4>1. job[q].squad \in Squads
        BY <1>t, <3>2 DEF Stamped
      <4>2. last'[job[q].squad] \in Nat
        BY <1>g, <4>1, SnapshotAssumption DEF Stamps
      <4>3. last[job[q].squad] \in Nat /\ last[job[q].squad] <= last'[job[q].squad]
        BY <1>g, <1>t, <4>1
      <4>4. last[job[q].squad] >= job[q].gen /\ job[q].gen <= now
        BY <1>i, <3>2 DEF ReadAfter
      <4>5. last'[job[q].squad] >= job[q].gen /\ job[q].gen <= now'
        BY <1>g, <1>t, <4>2, <4>3, <4>4
      <4> QED BY <1>g, <3>2, <4>5 DEF ReadAfter
    <3> QED BY <1>g, <3>1, <3>2 DEF ReadAfter
  <2> QED BY <2>1, <2>2, <2>3
<1>1. CASE Elapse
  <2>1. /\ now' = now + 1 /\ official' = official /\ main' = main /\ job' = job
        /\ last' = [last EXCEPT ![official] = now + 1] /\ now + 1 \in Stamps
    BY <1>1, <1>t, SnapshotAssumption DEF Elapse, Stamps
  <2>2. last' \in [Squads -> Stamps]
    BY <1>t, <2>1 DEF SnapshotTypeOK
  <2>3. \A s \in Squads : last'[s] = IF s = official THEN now + 1 ELSE last[s]
    BY <1>t, <2>1 DEF SnapshotTypeOK
  <2>4. \A s \in Squads : last[s] <= last'[s] /\ last'[s] <= now'
    BY <1>t, <1>i, <2>1, <2>3
  <2>5. last'[official'] = now'
    BY <1>t, <2>1, <2>3
  <2>6. now <= now' /\ now' \in Nat
    BY <1>t, <2>1
  <2> QED BY <1>g, <2>1, <2>2, <2>4, <2>5, <2>6 DEF AsOfInv
<1>2. ASSUME NEW s \in Squads, Edit(s) PROVE AsOfInv'
  <2>1. /\ now' = now /\ official' = s /\ main' = main /\ job' = job
        /\ last' = [last EXCEPT ![s] = now] /\ now \in Stamps
    BY <1>2, <1>t, SnapshotAssumption DEF Edit, SnapshotTypeOK, Stamps, Times
  <2>2. last' \in [Squads -> Stamps]
    BY <1>t, <2>1 DEF SnapshotTypeOK
  <2>3. \A q \in Squads : last'[q] = IF q = s THEN now ELSE last[q]
    BY <1>t, <2>1 DEF SnapshotTypeOK
  <2>4. \A q \in Squads : last[q] <= last'[q] /\ last'[q] <= now'
    BY <1>t, <1>i, <2>1, <2>3
  <2>5. last'[official'] = now'
    BY <2>1, <2>3
  <2>6. now <= now' /\ now' \in Nat
    BY <1>t, <2>1
  <2> QED BY <1>g, <2>1, <2>2, <2>4, <2>5, <2>6 DEF AsOfInv
<1>3. ASSUME NEW n \in 1..OtherPushes, OtherPush(n) PROVE AsOfInv'
  <2>1. main'.kept = main.kept
    BY <1>3, <1>t, OtherTree
  <2>2. UNCHANGED <<now, official, last, job>>
    BY <1>3 DEF OtherPush
  <2> QED BY <1>i, <2>1, <2>2 DEF AsOfInv, AsOf, ReadAfter
<1>4. ASSUME NEW r \in Runs, Checkout(r) \/ JobStep(r) PROVE AsOfInv'
  <2>1. UNCHANGED <<now, official, last>>
    BY <1>4 DEF Checkout, JobStep, Stamp, ReadTeam, RefreshFails, Commit, FetchAndRebase, Push,
        PushFails, Die
  <2>a. SUFFICES Others(r) /\ AsOf(main)' /\ AsOf(job[r].head)' /\ ReadAfter(r)'
    BY <1>i, <2>1 DEF AsOfInv, AsOf, ReadAfter, Others
  <2>m. ASSUME main' = main PROVE AsOf(main)'
    BY <1>i, <2>1, <2>m DEF AsOf
  <2>h. ASSUME job'[r].head = job[r].head PROVE AsOf(job[r].head)'
    BY <1>i, <2>1, <2>h DEF AsOf
  <2>3. CASE Checkout(r)
    <3>1. Others(r) /\ main' = main /\ job'[r].pc = "stamp" /\ job'[r].head = main
      BY <1>t, <2>3, CheckoutStep
    <3>2. AsOf(job[r].head)'
      BY <1>i, <2>1, <3>1 DEF AsOf
    <3> QED BY <2>m, <3>1, <3>2 DEF ReadAfter
  <2>4. CASE Stamp(r)
    <3>1. /\ Others(r) /\ main' = main /\ job'[r].pc = "read" /\ job'[r].gen = now
          /\ job'[r].head = job[r].head
      BY <1>t, <2>4, StampStep
    <3>2. job'[r].gen <= now'
      BY <1>t, <2>1, <3>1
    <3> QED BY <2>m, <2>h, <3>1, <3>2 DEF ReadAfter
  <2>5. CASE ReadTeam(r)
    <3>1. /\ Others(r) /\ main' = main /\ job[r].pc = "read" /\ job'[r].squad = official
          /\ job'[r].pc = "commit" /\ job'[r].gen = job[r].gen /\ job'[r].head = job[r].head
      BY <1>t, <2>5, ReadStep
    <3>2. job[r].gen <= now
      BY <1>i, <3>1 DEF ReadAfter
    <3>3. job'[r].gen <= now' /\ last'[job'[r].squad] >= job'[r].gen
      BY <1>t, <1>i, <2>1, <3>1, <3>2
    <3> QED BY <2>m, <2>h, <3>1, <3>3 DEF ReadAfter
  <2>6. CASE RefreshFails(r) \/ Die(r)
    <3>1. /\ Others(r) /\ main' = main /\ job'[r].pc \in {"unavailable", "failed"}
          /\ job'[r].head = job[r].head
      BY <1>t, <2>6, StopStep
    <3> QED BY <2>m, <2>h, <3>1 DEF ReadAfter
  <2>7. CASE Commit(r)
    <3>1. job[r].gen \in Times /\ job[r].squad \in Squads /\ job[r].pc = "commit"
      BY <1>t, <2>7 DEF Commit, Stamped
    <3>2. /\ Others(r) /\ main' = main /\ job'[r].pc = "fetch" /\ job'[r].head = Written(r)
      BY <1>t, <2>7, <3>1, CommitStep
    <3>3. \A t \in Times :
            Written(r).kept[t] = IF t = job[r].gen THEN job[r].squad ELSE job[r].head.kept[t]
      BY <1>t, <3>1, WrittenTree
    <3>4. last[job[r].squad] >= job[r].gen /\ AsOf(job[r].head)
      BY <1>i, <3>1 DEF ReadAfter
    <3>5. AsOf(job[r].head)'
      BY <2>1, <3>2, <3>3, <3>4 DEF AsOf
    <3> QED BY <2>m, <3>2, <3>5 DEF ReadAfter
  <2>8. CASE FetchAndRebase(r)
    <3>1. /\ Others(r) /\ main' = main /\ job'[r].pc \in {"blocked", "push"}
          /\ job'[r].head \in {job[r].head, main, Rebased(r)}
      BY <1>t, <2>8, FetchStep
    <3>2. \A t \in Times : Rebased(r).kept[t] \in {job[r].head.kept[t], main.kept[t]}
      BY <1>t, RebasedTree DEF Pick
    <3>3. AsOf(Rebased(r))
      BY <1>i, <3>2 DEF AsOf
    <3>4. AsOf(job[r].head)'
      BY <1>i, <2>1, <3>1, <3>3 DEF AsOf
    <3> QED BY <2>m, <3>1, <3>4 DEF ReadAfter
  <2>9. CASE Push(r) \/ PushFails(r)
    <3>1. /\ Others(r) /\ main' \in {main, job[r].head} /\ job'[r].head = job[r].head
          /\ job'[r].pc \in {"passed", "fetch", "failed"}
      BY <1>t, <2>9, PushStep
    <3>2. AsOf(main)'
      BY <1>i, <2>1, <3>1 DEF AsOf
    <3> QED BY <2>h, <3>1, <3>2 DEF ReadAfter
  <2> QED BY <1>4, <2>3, <2>4, <2>5, <2>6, <2>7, <2>8, <2>9 DEF JobStep
<1>5. CASE UNCHANGED vars
  BY <1>5, <1>i DEF vars, AsOfInv, AsOf, ReadAfter
<1> QED BY <1>1, <1>2, <1>3, <1>4, <1>5 DEF Next

\* Every snapshot on record was the official team at its time or later.
THEOREM SnapshotsTruthful == Spec => []SnapshotsAreAsOf
<1>1. AsOfInv => SnapshotsAreAsOf
  BY DEF AsOfInv, AsOf, SnapshotsAreAsOf
<1> QED BY <1>1, TypeInit, TypeNext, AsOfInit, AsOfNext, PTL DEF Spec

-----------------------------------------------------------------------------
(* One record *)

\* What a job pushes differs from the branch it has in hand by the team of its own
\* time only.
OneEntry(q) ==
  /\ job[q].pc \in {"stamp", "read", "commit"} => job[q].head.kept = job[q].base.kept
  /\ job[q].pc \in {"fetch", "push"} =>
       /\ job[q].head.gen = job[q].gen
       /\ \A t \in Times \ {job[q].gen} : job[q].head.kept[t] = job[q].base.kept[t]

EntryInv == \A q \in Runs : OneEntry(q)

LEMMA EntryInit == Init => EntryInv
BY InitJob DEF EntryInv, OneEntry

\* A rebase adds the job's own team to the branch, or finds it there.
LEMMA RebasedEntry ==
  ASSUME TypeInv, OrderInv, NEW r \in Runs, OneEntry(r), job[r].pc = "fetch", ~Older(r),
         NEW h, h = IF Landed(r) THEN main ELSE Rebased(r)
  PROVE  /\ h.gen = job[r].gen
         /\ \A t \in Times \ {job[r].gen} : h.kept[t] = main.kept[t]
<1>1. /\ main.gen \in Nat /\ job[r].gen \in Nat /\ job[r].base.gen \in Nat
  BY TreeType, SnapshotAssumption DEF TypeInv, SnapshotTypeOK, Job, Stamps
<1>2. /\ job[r].head.gen = job[r].gen
      /\ \A t \in Times \ {job[r].gen} : job[r].head.kept[t] = job[r].base.kept[t]
  BY DEF OneEntry
<1>3. main.gen <= job[r].gen
  BY <1>1, <1>2 DEF Older
<1>4. CASE Landed(r)
  <2>1. main.gen >= job[r].gen
    BY <1>4 DEF OrderInv, Served
  <2>. QED
    BY <1>1, <1>3, <1>4, <2>1
<1>5. CASE ~Landed(r)
  <2>1. /\ h.gen = Pick(job[r].base.gen, job[r].head.gen, main.gen)
        /\ \A t \in Times : h.kept[t] = Pick(job[r].base.kept[t], job[r].head.kept[t], main.kept[t])
    BY <1>5, RebasedTree DEF TypeInv
  <2>2. job[r].base.gen <= main.gen
    BY DEF OrderInv, Based
  <2>3. h.gen = job[r].gen
    BY <1>1, <1>2, <1>3, <2>1, <2>2 DEF Pick
  <2>4. \A t \in Times \ {job[r].gen} : h.kept[t] = main.kept[t]
    BY <1>2, <2>1 DEF Pick
  <2>. QED
    BY <2>3, <2>4
<1>. QED
  BY <1>4, <1>5

LEMMA EntryNext == TypeInv /\ OrderInv /\ EntryInv /\ [Next]_vars => EntryInv'
<1>. SUFFICES ASSUME TypeInv, OrderInv, EntryInv, [Next]_vars PROVE EntryInv'
  OBVIOUS
<1>t. SnapshotTypeOK /\ \A q \in Runs : Stamped(q) /\ OneEntry(q)
  BY DEF TypeInv, EntryInv
<1>1. ASSUME job' = job PROVE EntryInv'
  BY <1>t, <1>1 DEF EntryInv, OneEntry
<1>2. ASSUME NEW r \in Runs, Checkout(r) \/ JobStep(r) PROVE EntryInv'
  <2>o. ASSUME Others(r), OneEntry(r)' PROVE EntryInv'
    BY <1>t, <2>o DEF EntryInv, OneEntry, Others
  <2>r. OneEntry(r)
    BY <1>t
  <2>1. CASE Checkout(r)
    <3>1. Others(r) /\ job'[r].pc = "stamp" /\ job'[r].base = main /\ job'[r].head = main
      BY <1>t, <2>1, CheckoutStep
    <3>. QED
      BY <2>o, <3>1 DEF OneEntry
  <2>2. CASE Stamp(r)
    <3>1. /\ Others(r) /\ job[r].pc = "stamp" /\ job'[r].pc = "read"
          /\ job'[r].base = job[r].base /\ job'[r].head = job[r].head
      BY <1>t, <2>2, StampStep
    <3>. QED
      BY <2>o, <2>r, <3>1 DEF OneEntry
  <2>3. CASE ReadTeam(r)
    <3>1. /\ Others(r) /\ job[r].pc = "read" /\ job'[r].pc = "commit"
          /\ job'[r].base = job[r].base /\ job'[r].head = job[r].head
      BY <1>t, <2>3, ReadStep
    <3>. QED
      BY <2>o, <2>r, <3>1 DEF OneEntry
  <2>4. CASE RefreshFails(r) \/ Die(r)
    <3>1. Others(r) /\ job'[r].pc \in {"unavailable", "failed"}
      BY <1>t, <2>4, StopStep
    <3>. QED
      BY <2>o, <3>1 DEF OneEntry
  <2>5. CASE Commit(r)
    <3>1. job[r].gen \in Times /\ job[r].squad \in Squads /\ job[r].pc = "commit"
      BY <1>t, <2>5 DEF Commit, Stamped
    <3>2. /\ Others(r) /\ job'[r].pc = "fetch" /\ job'[r].gen = job[r].gen
          /\ job'[r].base = job[r].base /\ job'[r].head = Written(r)
      BY <1>t, <2>5, <3>1, CommitStep
    <3>3. /\ Written(r).gen = job[r].gen
          /\ \A t \in Times \ {job[r].gen} : Written(r).kept[t] = job[r].head.kept[t]
      BY <1>t, <3>1, WrittenTree
    <3>4. job[r].head.kept = job[r].base.kept
      BY <2>r, <3>1 DEF OneEntry
    <3>. QED
      BY <2>o, <3>2, <3>3, <3>4 DEF OneEntry
  <2>6. CASE FetchAndRebase(r)
    <3>1. Others(r) /\ job[r].pc = "fetch" /\ job'[r].gen = job[r].gen
      BY <1>t, <2>6, FetchStep
    <3>2. CASE Older(r)
      <4>1. job'[r].pc = "blocked"
        BY <1>t, <2>6, <3>2, FetchStep
      <4>. QED
        BY <2>o, <3>1, <4>1 DEF OneEntry
    <3>3. CASE ~Older(r)
      <4>. DEFINE h == IF Landed(r) THEN main ELSE Rebased(r)
      <4>1. job'[r].pc = "push" /\ job'[r].base = main /\ job'[r].head = h
        BY <1>t, <2>6, <3>3, FetchStep
      <4>2. h.gen = job[r].gen /\ \A t \in Times \ {job[r].gen} : h.kept[t] = main.kept[t]
        BY <2>r, <3>1, <3>3, RebasedEntry
      <4>. HIDE DEF h
      <4>. QED
        BY <2>o, <3>1, <4>1, <4>2 DEF OneEntry
    <3>. QED
      BY <3>2, <3>3
  <2>7. CASE Push(r) \/ PushFails(r)
    <3>1. /\ Others(r) /\ job[r].pc = "push" /\ job'[r].gen = job[r].gen
          /\ job'[r].base = job[r].base /\ job'[r].head = job[r].head
          /\ job'[r].pc \in {"passed", "fetch", "failed"}
      BY <1>t, <2>7, PushStep
    <3>. QED
      BY <2>o, <2>r, <3>1 DEF OneEntry
  <2>. QED
    BY <1>2, <2>1, <2>2, <2>3, <2>4, <2>5, <2>6, <2>7 DEF JobStep
<1>. QED
  BY <1>1, <1>2 DEF Next, vars, Elapse, Edit, OtherPush

\* A push enters the team of the job's time, or changes nothing.
LEMMA PushEnters ==
  ASSUME TypeInv, OrderInv, AsOfInv, EntryInv, NEW r \in Runs, Push(r) \/ PushFails(r),
         main' # main
  PROVE  Record!Next
<1>. DEFINE g == job[r].gen
            s == job[r].head.kept[g]
<1>1. /\ job[r].pc = "push" /\ FastForward(r) /\ main' = job[r].head /\ g \in Times
      /\ UNCHANGED last
  BY PushStep DEF TypeInv, Stamped, Push, PushFails
<1>2. job[r].base = main /\ main.gen <= g
  BY <1>1 DEF OrderInv, Pushable, Based, FastForward, EntryInv, OneEntry
<1>3. main.kept \in [Times -> Squads \cup {None}] /\ main'.kept \in [Times -> Squads \cup {None}]
  BY <1>1, TreeType DEF TypeInv, SnapshotTypeOK, Job
<1>4. main'.gen = g /\ \A t \in Times \ {g} : main'.kept[t] = main.kept[t]
  BY <1>1, <1>2 DEF EntryInv, OneEntry
<1>5. s # None /\ s \in Squads /\ last[s] >= g
  BY <1>1, <1>3 DEF OrderInv, Kept, AsOfInv, AsOf
<1>6. main'.kept = [main.kept EXCEPT ![g] = s]
  BY <1>1, <1>3, <1>4
<1>7. main.gen \in Nat /\ g \in Nat
  BY <1>1, TreeType, SnapshotAssumption DEF TypeInv, SnapshotTypeOK, Times, Stamps
<1>. QED
  BY <1>1, <1>2, <1>4, <1>5, <1>6, <1>7 DEF Record!Next, Record!Enter

\* The branch is one record of dated teams: every push enters a single team, one
\* that was the official one at its time or later, no earlier than the latest.
THEOREM OneRecord == Spec => ImplementsRecord
<1>1. Init => Record!Init
  <2>. SUFFICES ASSUME Init PROVE Record!Init
    OBVIOUS
  <2>1. main.kept \in [Times -> Squads \cup {None}]
    BY InitMain, TreeType
  <2>2. main.gen \in {0, 1} /\ \A t \in Times : main.kept[t] # None => t = main.gen
    <3>1. CASE main = Empty
      BY <3>1 DEF Empty
    <3>2. CASE main # Empty
      <4>1. main = [Empty EXCEPT !.gen = 1, !.squad = official, !.kept[1] = official]
        BY <3>2 DEF Init
      <4>2. main.gen = 1
        BY <4>1 DEF Empty
      <4>. QED
        BY <4>2, InitMain
    <3>. QED
      BY <3>1, <3>2
  <2>3. DOMAIN last = Squads
    BY DEF Init
  <2>. QED
    BY <2>1, <2>2, <2>3 DEF Record!Init
<1>2. TypeInv /\ OrderInv /\ AsOfInv /\ EntryInv /\ TypeInv' /\ [Next]_vars
        => [Record!Next]_<<last, main.gen, main.kept>>
  <2>. SUFFICES ASSUME TypeInv, OrderInv, AsOfInv, EntryInv, TypeInv', [Next]_vars
                PROVE  [Record!Next]_<<last, main.gen, main.kept>>
    OBVIOUS
  <2>t. /\ last \in [Squads -> Stamps] /\ last' \in [Squads -> Stamps]
        /\ now \in Nat /\ \A s \in Squads : last[s] \in Nat /\ last[s] <= now
    BY SnapshotAssumption DEF TypeInv, SnapshotTypeOK, Stamps, Times, AsOfInv
  <2>1. CASE Elapse
    <3>1. \A s \in Squads : last'[s] >= last[s]
      BY <2>1, <2>t DEF Elapse
    <3>. QED
      BY <2>1, <2>t, <3>1 DEF Elapse, Record!Next, Record!Live
  <2>2. ASSUME NEW s \in Squads, Edit(s) PROVE Record!Next
    <3>1. \A q \in Squads : last'[q] >= last[q]
      BY <2>2, <2>t DEF Edit
    <3>. QED
      BY <2>2, <2>t, <3>1 DEF Edit, Record!Next, Record!Live
  <2>3. ASSUME NEW n \in 1..OtherPushes, OtherPush(n)
        PROVE  UNCHANGED <<last, main.gen, main.kept>>
    BY <2>3, OtherTree DEF OtherPush, TypeInv
  <2>4. ASSUME NEW r \in Runs, Push(r) \/ PushFails(r), main' # main PROVE Record!Next
    BY <2>4, PushEnters
  <2>5. ASSUME UNCHANGED <<last, main>> PROVE UNCHANGED <<last, main.gen, main.kept>>
    BY <2>5
  <2>. QED
    BY <2>1, <2>2, <2>3, <2>4, <2>5 DEF Next, vars, Checkout, JobStep, Stamp, ReadTeam,
       RefreshFails, Commit, FetchAndRebase, Push, PushFails, Die
<1>. QED
  BY <1>1, <1>2, TypeInit, TypeNext, OrderInit, OrderNext, AsOfInit, AsOfNext, EntryInit, EntryNext, PTL
     DEF Spec, ImplementsRecord, Record!Spec
=============================================================================
