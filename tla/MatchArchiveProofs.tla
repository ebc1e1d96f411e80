--------------------------- MODULE MatchArchiveProofs ---------------------------
(***************************************************************************)
(* Proofs about MatchArchive: types however runs overlap; and, with one    *)
(* run at a time between hydration and publication, that the quota of a    *)
(* day is kept and that what is archived stays.                            *)
(***************************************************************************)
EXTENDS MatchArchive, FiniteSetTheorems, TLAPS

\* What a poll may reserve fits the budget.
LEMMA Affordable ==
  ASSUME NEW used \in 0..Budget, NEW n \in Nat, n <= SlotsLeft(used)
  PROVE  used + PerMatch * n \in 0..Budget
<1>. DEFINE left == Budget - used
            affordable == left \div PerMatch
<1>1. left \in Nat /\ PerMatch \in Nat \ {0}
  BY ArchiveAssumption DEF PerMatch
<1>2. \A a \in Nat, p \in Nat \ {0} : a \div p \in Nat /\ p * (a \div p) <= a
  OBVIOUS
<1>3. affordable \in Nat /\ PerMatch * affordable <= left
  BY <1>1, <1>2
<1>4. n <= affordable
  BY <1>1, <1>3, ArchiveAssumption DEF SlotsLeft
<1>5. \A p, a, b \in Nat : a <= b => p * a \in Nat /\ p * b \in Nat /\ p * a <= p * b
  OBVIOUS
<1>6. PerMatch * n \in Nat /\ PerMatch * n <= PerMatch * affordable /\ PerMatch * affordable \in Nat
  BY <1>1, <1>3, <1>4, <1>5
<1>. HIDE DEF affordable
<1>. QED
  BY <1>1, <1>3, <1>6, ArchiveAssumption

\* A match less to ask for frees what it may cost.
LEMMA Released ==
  ASSUME NEW S, IsFiniteSet(S), NEW m \in S, NEW n \in Requests
  PROVE  /\ n \in Nat
         /\ Cardinality(S) \in Nat /\ Cardinality(S \ {m}) \in Nat
         /\ PerMatch * Cardinality(S \ {m}) \in Nat
         /\ PerMatch * Cardinality(S \ {m}) + n <= PerMatch * Cardinality(S)
<1>1. n \in Nat /\ n <= PerMatch /\ PerMatch \in Nat
  BY ArchiveAssumption DEF Requests, PerMatch
<1>2. /\ Cardinality(S) \in Nat /\ Cardinality(S) # 0
      /\ Cardinality(S \ {m}) = Cardinality(S) - 1
  BY FS_CardinalityType, FS_EmptySet, FS_RemoveElement
<1>3. \A p, c, k \in Nat : c # 0 /\ k <= p => p * (c - 1) \in Nat /\ p * (c - 1) + k <= p * c
  OBVIOUS
<1>. QED
  BY <1>1, <1>2, <1>3

\* The matches are finitely many.
LEMMA FiniteMatches ==
  ASSUME NEW S, S \subseteq Matches
  PROVE  IsFiniteSet(S) /\ Cardinality(S) \in Nat
<1>1. IsFiniteSet(Matches)
  BY FS_Interval, ArchiveAssumption DEF Matches
<1>. QED
  BY <1>1, FS_Subset, FS_CardinalityType

\* A slot later a snapshot is one, and says the same but for its ages and its day.
LEMMA AgedSnapshot ==
  ASSUME NEW s \in Snapshot, NEW sameDay \in BOOLEAN
  PROVE  /\ Aged(s, sameDay) \in Snapshot
         /\ Aged(s, sameDay).archive = s.archive /\ Aged(s, sameDay).league = s.league
         /\ Aged(s, sameDay).used = s.used
         /\ Aged(s, sameDay).today = (s.today /\ sameDay)
<1>. DEFINE p == Older(s.polled)
            c == Older(s.chat)
<1>1. p \in 0..AgeCap /\ c \in 0..AgeCap
  BY ArchiveAssumption DEF Older, Snapshot, AgeCap
<1>. HIDE DEF p, c
<1>2. Aged(s, sameDay) = [s EXCEPT !.today = s.today /\ sameDay, !.polled = p, !.chat = c]
  BY DEF Aged, p, c
<1>3. (s.today /\ sameDay) \in BOOLEAN
  OBVIOUS
<1>. QED
  BY <1>1, <1>2, <1>3 DEF Snapshot

\* What a poll may make of a file.
LEMMA PolledSnapshot ==
  ASSUME ArchiveTypeOK, NEW r \in Runs, Poll(r)
  PROVE  \E league \in SUBSET Matches, used \in 0..Budget, scheduled \in SUBSET Matches :
           /\ league = finished \/ league = work[r].league
           /\ used = IF work[r].today THEN work[r].used ELSE 0
           /\ scheduled \subseteq league
           /\ todo' = [todo EXCEPT ![r] = scheduled]
           /\ work' = [work EXCEPT ![r] = Polled(@, league, used, scheduled, SlotOf(r))]
           /\ Polled(work[r], league, used, scheduled, SlotOf(r)) \in Snapshot
<1>1. work[r] \in Snapshot /\ late[r] \in 0..Late /\ finished \subseteq Matches
  BY DEF ArchiveTypeOK
<1>2. PICK league \in {finished, LastGood(work[r])} :
        LET used == IF work[r].today THEN work[r].used ELSE 0
            wanted == Wanted(work[r], league)
        IN  \E scheduled \in SUBSET wanted :
              /\ IsFirst(scheduled, wanted, SlotsLeft(used))
              /\ todo' = [todo EXCEPT ![r] = scheduled]
              /\ work' = [work EXCEPT ![r] = Polled(@, league, used, scheduled, SlotOf(r))]
  BY DEF Poll
<1>. DEFINE used == IF work[r].today THEN work[r].used ELSE 0
            wanted == Wanted(work[r], league)
<1>3. PICK scheduled \in SUBSET wanted :
              /\ IsFirst(scheduled, wanted, SlotsLeft(used))
              /\ todo' = [todo EXCEPT ![r] = scheduled]
              /\ work' = [work EXCEPT ![r] = Polled(@, league, used, scheduled, SlotOf(r))]
  BY <1>2
<1>4. /\ league \in SUBSET Matches /\ (league = finished \/ league = work[r].league)
      /\ scheduled \in SUBSET Matches /\ scheduled \subseteq league
      /\ used \in 0..Budget
  BY <1>1, <1>3, ArchiveAssumption DEF LastGood, Wanted, Snapshot
<1>5. used + PerMatch * Cardinality(scheduled) \in 0..Budget
  BY <1>3, <1>4, FiniteMatches, Affordable DEF IsFirst
<1>6. SlotOf(r) \in 0..AgeCap
  BY <1>1, ArchiveAssumption DEF AgeCap, SlotOf
<1>7. Polled(work[r], league, used, scheduled, SlotOf(r)) \in Snapshot
  <2>. DEFINE reserved == used + PerMatch * Cardinality(scheduled)
  <2>. HIDE DEF reserved, used
  <2>1. Polled(work[r], league, used, scheduled, SlotOf(r)) =
          [work[r] EXCEPT !.archive = @ \cap league, !.league = league,
                          !.used = reserved, !.today = TRUE, !.polled = SlotOf(r)]
    BY DEF Polled, reserved
  <2>2. reserved \in 0..Budget
    BY <1>5 DEF reserved
  <2>. QED
    BY <1>1, <1>4, <1>6, <2>1, <2>2 DEF Snapshot
<1>. QED
  BY <1>3, <1>4, <1>7

\* The empty snapshot is one.
LEMMA EmptyOK == EmptySnapshot \in Snapshot
  BY ArchiveAssumption DEF EmptySnapshot, Snapshot, AgeCap

\* Types hold at the start.
LEMMA InitType == Init => ArchiveTypeOK
  BY EmptyOK, ArchiveAssumption DEF Init, ArchiveTypeOK

\* Every step keeps the types.
LEMMA NextType == ArchiveTypeOK /\ [Next]_vars => ArchiveTypeOK'
<1>. SUFFICES ASSUME ArchiveTypeOK, [Next]_vars PROVE ArchiveTypeOK'
  OBVIOUS
<1>. USE DEF ArchiveTypeOK
<1>1. CASE UNCHANGED vars
  BY <1>1 DEF vars, run, time
<1>2. CASE Tick
  <2>1. hour' \in 0..(Hours - 1)
    BY <1>2, ArchiveAssumption DEF Tick
  <2>2. (hour' # 0) \in BOOLEAN
    OBVIOUS
  <2>3. branch' \in Snapshot /\ work' \in [Runs -> Snapshot]
    <3>. DEFINE sameDay == hour' # 0
    <3>1. \A s \in Snapshot : Aged(s, sameDay) \in Snapshot
      BY AgedSnapshot
    <3>. QED
      BY <1>2, <3>1 DEF Tick
  <2>4. late' \in [Runs -> 0..Late]
    BY <1>2, ArchiveAssumption DEF Tick
  <2>. QED
    BY <1>2, <2>1, <2>3, <2>4 DEF Tick
<1>3. ASSUME NEW m \in Matches, Finish(m) PROVE ArchiveTypeOK'
  BY <1>3 DEF Finish, run, time
<1>4. ASSUME NEW r \in Runs, Trigger(r) PROVE ArchiveTypeOK'
  BY <1>4 DEF Trigger
<1>5. ASSUME NEW r \in Runs, End(r)
      PROVE  /\ pc' \in [Runs -> {"idle", "hydrate"} \cup InFlight]
             /\ late' \in [Runs -> 0..Late] /\ work' \in [Runs -> Snapshot]
             /\ todo' \in [Runs -> SUBSET Matches] /\ sent' \in [Runs -> Nat]
  BY <1>5, EmptyOK, ArchiveAssumption DEF End
<1>0. ASSUME Fault \/ UNCHANGED faults PROVE faults' \in 0..MaxFaults
  BY <1>0, ArchiveAssumption DEF Fault
<1>6. ASSUME NEW r \in Runs, Lose(r) PROVE ArchiveTypeOK'
  BY <1>0, <1>5, <1>6 DEF Lose, time
<1>7. ASSUME NEW r \in Runs, Hydrate(r) PROVE ArchiveTypeOK'
  BY <1>5, <1>7 DEF Hydrate, InFlight, time
<1>8. ASSUME NEW r \in Runs, Skip(r) PROVE ArchiveTypeOK'
  BY <1>8 DEF Skip, InFlight, time
<1>9. ASSUME NEW r \in Runs, Poll(r) PROVE ArchiveTypeOK'
  <2>1. todo' \in [Runs -> SUBSET Matches] /\ work' \in [Runs -> Snapshot]
    BY <1>9, PolledSnapshot
  <2>2. faults' \in 0..MaxFaults
    BY <1>0, <1>9 DEF Poll
  <2>3. /\ pc' = [pc EXCEPT ![r] = "fetch"]
        /\ UNCHANGED <<finished, branch, late, sent, time, spent>>
    BY <1>9 DEF Poll
  <2>. QED
    BY <2>1, <2>2, <2>3 DEF InFlight, time
<1>10. ASSUME NEW r \in Runs, NEW m \in Matches, Fetch(r, m) PROVE ArchiveTypeOK'
  <2>1. \A n \in Requests : n \in Nat
    BY ArchiveAssumption DEF Requests
  <2>2. sent' \in [Runs -> Nat]
    BY <1>10, <2>1 DEF Fetch
  <2>. DEFINE archived == [work[r] EXCEPT !.archive = work[r].archive \cup {m}]
  <2>3. archived \in Snapshot
    BY DEF Snapshot
  <2>4. work' = work \/ work' = [work EXCEPT ![r] = archived]
    BY <1>10 DEF Fetch
  <2>5. work' \in [Runs -> Snapshot]
    <3>. HIDE DEF archived
    <3>. QED  BY <2>3, <2>4
  <2>6. faults' \in 0..MaxFaults
    BY <1>0, <1>10 DEF Fetch
  <2>7. todo' \in [Runs -> SUBSET Matches]
    BY <1>10 DEF Fetch
  <2>8. UNCHANGED <<finished, branch, pc, late, time, spent>>
    BY <1>10 DEF Fetch
  <2>. QED
    BY <2>2, <2>5, <2>6, <2>7, <2>8 DEF time
<1>11. ASSUME NEW r \in Runs, Publish(r) PROVE ArchiveTypeOK'
  <2>1. branch' \in Snapshot
    BY <1>11, ArchiveAssumption DEF Publish, Snapshot, AgeCap
  <2>2. spent' \in Nat
    BY <1>11 DEF Publish
  <2>. QED
    BY <1>5, <1>11, <2>1, <2>2 DEF Publish, time
<1>. QED
  BY <1>1, <1>2, <1>3, <1>4, <1>6, <1>7, <1>8, <1>9, <1>10, <1>11 DEF Next, Step

\* Every variable keeps its type and the counters their bounds, however runs
\* overlap: in particular no poll reserves past the budget it knows of.
THEOREM TypeCorrect == Spec => []ArchiveTypeOK
  BY InitType, NextType, PTL DEF Spec

-----------------------------------------------------------------------------
(* One run at a time *)

\* The requests a file says are reserved today.
Owed(s) == IF s.today THEN s.used ELSE 0

\* What publishing this run can still put on today's account.
Charge(r) == IF work[r].today THEN sent[r] + PerMatch * Cardinality(todo[r]) ELSE 0

\* At most one run is between its hydration and its publication.
Alone == \A q, r \in Runs : pc[q] \in InFlight /\ pc[r] \in InFlight => q = r

\* Archived details are of listed matches, and those have ended.
Listed(s) == s.archive \subseteq s.league /\ s.league \subseteq finished

\* The published file covers what was spent.
BranchCovers == Listed(branch) /\ spent <= Owed(branch)

\* A run in flight has what is published, and has reserved what it will spend.
RunCovers(r) ==
  /\ pc[r] # "fetch" => todo[r] = {} /\ sent[r] = 0
  /\ pc[r] = "poll" => work[r] = branch
  /\ pc[r] \in InFlight =>
       /\ Listed(work[r]) /\ branch.archive \subseteq work[r].archive
       /\ todo[r] \subseteq work[r].league
  /\ pc[r] = "fetch" => spent + Charge(r) <= Owed(work[r])

\* The quota is inductive only with what every run in flight has reserved.
Covered == ArchiveTypeOK /\ Alone /\ BranchCovers /\ \A r \in Runs : RunCovers(r)

\* A run that a step does not touch is covered as before.
LEMMA Untouched ==
  ASSUME NEW r \in Runs, RunCovers(r),
         pc'[r] = pc[r], work'[r] = work[r], todo'[r] = todo[r], sent'[r] = sent[r],
         finished \subseteq finished',
         \/ pc[r] \notin InFlight
         \/ branch' = branch /\ spent' = spent
  PROVE  RunCovers(r)'
  BY DEF RunCovers, Listed, Charge, InFlight

\* A run that has ended is covered.
LEMMA Ended ==
  ASSUME ArchiveTypeOK, NEW r \in Runs, End(r)
  PROVE  /\ RunCovers(r)' /\ pc'[r] = "idle"
         /\ \A q \in Runs \ {r} : /\ pc'[q] = pc[q] /\ work'[q] = work[q]
                                  /\ todo'[q] = todo[q] /\ sent'[q] = sent[q]
  BY DEF End, ArchiveTypeOK, RunCovers, InFlight

\* The requests of a run's poll in terms of what its file says.
LEMMA ChargeType ==
  ASSUME ArchiveTypeOK, NEW r \in Runs
  PROVE  /\ Charge(r) \in Nat /\ Owed(work[r]) \in 0..Budget /\ Owed(branch) \in 0..Budget
         /\ Cardinality(todo[r]) \in Nat /\ IsFiniteSet(todo[r])
<1>1. Cardinality(todo[r]) \in Nat /\ IsFiniteSet(todo[r])
  BY FiniteMatches DEF ArchiveTypeOK
<1>2. PerMatch * Cardinality(todo[r]) \in Nat
  <2>1. PerMatch \in Nat
    BY ArchiveAssumption DEF PerMatch
  <2>2. \A a, b \in Nat : a * b \in Nat
    OBVIOUS
  <2>. QED
    BY <1>1, <2>1, <2>2
<1>3. Owed(work[r]) \in 0..Budget /\ Owed(branch) \in 0..Budget
  BY ArchiveAssumption DEF ArchiveTypeOK, Snapshot, Owed
<1>. QED
  BY <1>1, <1>2, <1>3 DEF Charge, ArchiveTypeOK

\* At the start nothing is spent and nobody is in flight.
LEMMA InitCovered == Init => Covered
<1>. SUFFICES ASSUME Init PROVE Covered
  OBVIOUS
<1>1. ArchiveTypeOK
  BY InitType
<1>. QED
  BY <1>1 DEF Init, Covered, Alone, BranchCovers, RunCovers, Listed, Owed, InFlight, EmptySnapshot

\* A slot or a day later what was covered is covered.
LEMMA TickCovered == ASSUME Covered, Tick PROVE BranchCovers' /\ \A r \in Runs : RunCovers(r)'
<1>. DEFINE sameDay == hour' # 0
<1>1. sameDay \in BOOLEAN
  OBVIOUS
<1>2. /\ branch' = Aged(branch, sameDay) /\ spent' = (IF sameDay THEN spent ELSE 0)
      /\ UNCHANGED <<finished, pc, todo, sent>>
      /\ \A r \in Runs : pc[r] # "idle" => work'[r] = Aged(work[r], sameDay)
  BY DEF Tick
<1>3. branch \in Snapshot /\ \A r \in Runs : work[r] \in Snapshot
  BY DEF Covered, ArchiveTypeOK
<1>. HIDE DEF sameDay
<1>4. /\ branch'.archive = branch.archive /\ branch'.league = branch.league
      /\ Owed(branch') = IF sameDay THEN Owed(branch) ELSE 0
  BY <1>1, <1>2, <1>3, AgedSnapshot DEF Owed
<1>5. BranchCovers'
  BY <1>2, <1>4 DEF Covered, BranchCovers, Listed
<1>6. ASSUME NEW r \in Runs PROVE RunCovers(r)'
  <2>1. CASE pc[r] \notin InFlight
    BY <1>2, <2>1 DEF Covered, RunCovers, InFlight
  <2>2. CASE pc[r] \in InFlight
    <3>1. work'[r] = Aged(work[r], sameDay)
      BY <1>2, <2>2 DEF InFlight
    <3>2. /\ work'[r].archive = work[r].archive /\ work'[r].league = work[r].league
          /\ work'[r].used = work[r].used /\ work'[r].today = (work[r].today /\ sameDay)
      BY <1>1, <1>3, <3>1, AgedSnapshot
    <3>3. /\ Charge(r)' = (IF sameDay THEN Charge(r) ELSE 0)
          /\ Owed(work[r])' = (IF sameDay THEN Owed(work[r]) ELSE 0)
      BY <1>2, <3>2 DEF Charge, Owed
    <3>4. pc[r] = "poll" => work'[r] = branch'
      BY <1>2, <3>1 DEF Covered, RunCovers
    <3>5. pc'[r] = "fetch" => spent' + Charge(r)' <= Owed(work[r])'
      BY <1>2, <3>3 DEF Covered, RunCovers
    <3>. QED
      BY <1>2, <1>4, <3>2, <3>4, <3>5 DEF Covered, RunCovers, Listed
  <2>. QED
    BY <2>1, <2>2
<1>. QED
  BY <1>5, <1>6

\* A poll that reserves what it schedules, from what the published file says is
\* reserved, is covered; and it drops no details, for every league it may keep
\* or find lists them.
LEMMA PollCovered ==
  ASSUME Covered, NEW r \in Runs, Poll(r)
  PROVE  RunCovers(r)'
<1>1. PICK league \in SUBSET Matches, used \in 0..Budget, scheduled \in SUBSET Matches :
           /\ league = finished \/ league = work[r].league
           /\ used = IF work[r].today THEN work[r].used ELSE 0
           /\ scheduled \subseteq league
           /\ todo' = [todo EXCEPT ![r] = scheduled]
           /\ work' = [work EXCEPT ![r] = Polled(@, league, used, scheduled, SlotOf(r))]
           /\ Polled(work[r], league, used, scheduled, SlotOf(r)) \in Snapshot
  BY PolledSnapshot DEF Covered
<1>2. /\ pc[r] = "poll" /\ pc' = [pc EXCEPT ![r] = "fetch"]
      /\ UNCHANGED <<finished, branch, late, sent, time, spent>>
  BY DEF Poll
<1>3. work[r] = branch /\ sent[r] = 0 /\ Listed(work[r]) /\ spent <= Owed(branch)
  BY <1>2 DEF Covered, RunCovers, BranchCovers, InFlight
<1>4. work[r] \in Snapshot /\ pc'[r] = "fetch" /\ sent'[r] = 0
  BY <1>2, <1>3 DEF Covered, ArchiveTypeOK
<1>. DEFINE file == Polled(work[r], league, used, scheduled, SlotOf(r))
<1>5. /\ file.archive = work[r].archive \cap league /\ file.league = league
      /\ file.used = used + PerMatch * Cardinality(scheduled) /\ file.today = TRUE
  BY <1>4 DEF Polled, Snapshot
<1>6. work'[r] = file /\ todo'[r] = scheduled
  BY <1>1, <1>2 DEF Covered, ArchiveTypeOK
<1>. HIDE DEF file
<1>7. /\ file.archive = work[r].archive /\ Listed(file) /\ scheduled \subseteq file.league
  BY <1>1, <1>3, <1>5 DEF Listed
<1>8. spent' + Charge(r)' <= Owed(work[r])'
  <2>1. Charge(r)' = PerMatch * Cardinality(scheduled) /\ PerMatch * Cardinality(scheduled) \in Nat
    <3>1. Cardinality(scheduled) \in Nat
      BY FiniteMatches
    <3>2. PerMatch \in Nat
      BY ArchiveAssumption DEF PerMatch
    <3>3. \A a, b \in Nat : a * b \in Nat
      OBVIOUS
    <3>4. PerMatch * Cardinality(scheduled) \in Nat
      BY <3>1, <3>2, <3>3
    <3>5. Charge(r)' = 0 + PerMatch * Cardinality(scheduled)
      BY <1>4, <1>5, <1>6 DEF Charge
    <3>. QED
      BY <3>4, <3>5
  <2>2. Owed(work[r])' = used + PerMatch * Cardinality(scheduled)
    BY <1>5, <1>6 DEF Owed
  <2>3. spent' = spent /\ spent <= used /\ spent \in Nat
    BY <1>1, <1>2, <1>3 DEF Owed, Covered, ArchiveTypeOK
  <2>. QED
    BY <2>1, <2>2, <2>3
<1>. QED
  BY <1>2, <1>3, <1>4, <1>6, <1>7, <1>8 DEF RunCovers, Listed

\* What one match costs was reserved for it.
LEMMA FetchCovered ==
  ASSUME Covered, NEW r \in Runs, NEW m \in Matches, Fetch(r, m)
  PROVE  RunCovers(r)'
<1>1. /\ pc[r] = "fetch" /\ m \in todo[r] /\ todo' = [todo EXCEPT ![r] = @ \ {m}]
      /\ UNCHANGED <<finished, branch, pc, late, time, spent>>
  BY DEF Fetch
<1>2. PICK n \in Requests : sent' = [sent EXCEPT ![r] = @ + n]
  BY DEF Fetch
<1>3. /\ work[r] \in Snapshot /\ sent[r] \in Nat /\ spent \in Nat
      /\ todo'[r] = todo[r] \ {m} /\ sent'[r] = sent[r] + n
  BY <1>1, <1>2 DEF Covered, ArchiveTypeOK
<1>. DEFINE archived == [work[r] EXCEPT !.archive = work[r].archive \cup {m}]
<1>4. work'[r] = work[r] \/ work'[r] = archived
  BY DEF Fetch, Covered, ArchiveTypeOK
<1>5. /\ work'[r].league = work[r].league /\ work'[r].used = work[r].used
      /\ work'[r].today = work[r].today
      /\ work'[r].archive = work[r].archive \/ work'[r].archive = work[r].archive \cup {m}
  BY <1>3, <1>4 DEF Snapshot
<1>6. Charge(r)' \in Nat /\ Charge(r)' <= Charge(r)
  <2>1. IsFiniteSet(todo[r])
    BY ChargeType DEF Covered
  <2>2. /\ n \in Nat /\ Cardinality(todo[r]) \in Nat
        /\ PerMatch * Cardinality(todo[r] \ {m}) \in Nat
        /\ PerMatch * Cardinality(todo[r] \ {m}) + n <= PerMatch * Cardinality(todo[r])
    BY <1>1, <2>1, Released
  <2>3. PerMatch * Cardinality(todo[r]) \in Nat
    <3>1. PerMatch \in Nat
      BY ArchiveAssumption DEF PerMatch
    <3>2. \A a, b \in Nat : a * b \in Nat
      OBVIOUS
    <3>. QED
      BY <2>2, <3>1, <3>2
  <2>4. Charge(r)' = IF work[r].today
                     THEN (sent[r] + n) + PerMatch * Cardinality(todo[r] \ {m}) ELSE 0
    BY <1>3, <1>5 DEF Charge
  <2>. QED
    BY <1>3, <2>2, <2>3, <2>4 DEF Charge
<1>7. spent' + Charge(r)' <= Owed(work[r])'
  <2>1. Owed(work[r])' = Owed(work[r])
    BY <1>5 DEF Owed
  <2>2. Charge(r) \in Nat /\ Owed(work[r]) \in 0..Budget /\ spent + Charge(r) <= Owed(work[r])
    BY <1>1, ChargeType DEF Covered, RunCovers
  <2>. QED
    BY <1>1, <1>3, <1>6, <2>1, <2>2, ArchiveAssumption
<1>. QED
  BY <1>1, <1>3, <1>5, <1>7 DEF Covered, RunCovers, Listed, InFlight

\* Publishing puts on the account what was reserved, and drops no details.
LEMMA PublishCovered ==
  ASSUME Covered, NEW r \in Runs, Publish(r)
  PROVE  BranchCovers' /\ branch.archive \subseteq branch'.archive
<1>1. /\ pc[r] = "fetch" /\ todo[r] = {} /\ finished' = finished
      /\ spent' = spent + IF work[r].today THEN sent[r] ELSE 0
  BY DEF Publish
<1>2. work[r] \in Snapshot /\ sent[r] \in Nat
  BY DEF Covered, ArchiveTypeOK
<1>3. /\ branch'.archive = work[r].archive /\ branch'.league = work[r].league
      /\ branch'.used = work[r].used /\ branch'.today = work[r].today
  BY <1>2 DEF Publish, Snapshot
<1>4. Charge(r) = IF work[r].today THEN sent[r] ELSE 0
  <2>1. Cardinality(todo[r]) = 0
    BY <1>1, FS_EmptySet
  <2>2. PerMatch * 0 = 0
    BY ArchiveAssumption DEF PerMatch
  <2>. QED
    BY <1>2, <2>1, <2>2 DEF Charge
<1>5. spent + Charge(r) <= Owed(work[r])
  BY <1>1 DEF Covered, RunCovers
<1>6. Owed(branch') = Owed(work[r])
  BY <1>3 DEF Owed
<1>7. spent' <= Owed(branch')
  BY <1>1, <1>4, <1>5, <1>6
<1>. QED
  BY <1>1, <1>3, <1>7 DEF Covered, RunCovers, BranchCovers, Listed, InFlight

\* Every step of a run keeps what is covered when runs are kept apart.
LEMMA StepCovered ==
  ASSUME SingleWriter, Covered, ArchiveTypeOK', NEW r \in Runs, Step(r) \/ Lose(r) \/ Trigger(r)
  PROVE  Covered'
<1>1. ArchiveTypeOK /\ Alone /\ BranchCovers /\ \A q \in Runs : RunCovers(q)
  BY DEF Covered
<1>2. ASSUME UNCHANGED <<finished, branch, spent>> PROVE BranchCovers'
  BY <1>1, <1>2 DEF BranchCovers, Listed
\* What a run does alone leaves the others as they are.
<1>3. ASSUME finished' = finished,
             RunCovers(r)',
             \A q \in Runs \ {r} : /\ pc'[q] = pc[q] /\ work'[q] = work[q]
                                   /\ todo'[q] = todo[q] /\ sent'[q] = sent[q],
             BranchCovers',
             pc'[r] \in InFlight =>
               pc[r] \in InFlight \/ \A q \in Runs : pc[q] \notin InFlight,
             pc[r] \in InFlight \/ (branch' = branch /\ spent' = spent)
      PROVE  Covered'
  <2>1. Alone'
    BY <1>1, <1>3 DEF Alone
  <2>2. ASSUME NEW q \in Runs \ {r} PROVE RunCovers(q)'
    <3>1. pc[q] \notin InFlight \/ (branch' = branch /\ spent' = spent)
      BY <1>1, <1>3, <2>2 DEF Alone
    <3>2. RunCovers(q)
      BY <1>1, <2>2
    <3>. QED
      BY <1>3, <2>2, <3>1, <3>2, Untouched
  <2>. QED
    BY <1>3, <2>1, <2>2 DEF Covered
<1>4. ASSUME End(r), UNCHANGED <<finished, branch, spent>> PROVE Covered'
  <2>1. /\ RunCovers(r)' /\ pc'[r] \notin InFlight
        /\ \A q \in Runs \ {r} : /\ pc'[q] = pc[q] /\ work'[q] = work[q]
                                 /\ todo'[q] = todo[q] /\ sent'[q] = sent[q]
    BY <1>1, <1>4, Ended DEF InFlight
  <2>. QED
    BY <1>2, <1>3, <1>4, <2>1
<1>5. CASE Trigger(r)
  <2>1. /\ pc[r] = "idle" /\ pc' = [pc EXCEPT ![r] = "hydrate"]
        /\ UNCHANGED <<finished, branch, late, work, todo, sent, hour, spent, faults>>
    BY <1>5 DEF Trigger
  <2>2. RunCovers(r)' /\ pc'[r] = "hydrate"
    BY <1>1, <2>1 DEF RunCovers, InFlight, ArchiveTypeOK
  <2>3. \A q \in Runs \ {r} : pc'[q] = pc[q]
    BY <1>1, <2>1 DEF ArchiveTypeOK
  <2>. QED
    BY <1>2, <1>3, <2>1, <2>2, <2>3 DEF InFlight
<1>6. CASE Lose(r)
  BY <1>4, <1>6 DEF Lose
<1>7. CASE Hydrate(r)
  <2>1. /\ pc[r] = "hydrate" /\ UNCHANGED <<finished, branch, time, spent, faults>>
        /\ \A q \in Runs : pc[q] \notin InFlight
    BY <1>7 DEF Hydrate
  <2>2. CASE End(r)
    BY <1>4, <2>1, <2>2
  <2>3. CASE /\ pc' = [pc EXCEPT ![r] = "poll"]
             /\ work' = [work EXCEPT ![r] = branch]
             /\ UNCHANGED <<late, todo, sent>>
    <3>1. /\ pc'[r] = "poll" /\ work'[r] = branch /\ todo'[r] = {} /\ sent'[r] = 0
          /\ \A q \in Runs \ {r} : pc'[q] = pc[q] /\ work'[q] = work[q]
      BY <1>1, <2>1, <2>3 DEF ArchiveTypeOK, RunCovers
    <3>2. RunCovers(r)'
      BY <1>1, <2>1, <3>1 DEF RunCovers, BranchCovers, Listed
    <3>. QED
      BY <1>2, <1>3, <2>1, <2>3, <3>1, <3>2
  <2>. QED
    BY <1>7, <2>2, <2>3 DEF Hydrate
<1>8. CASE Skip(r)
  <2>1. /\ pc[r] = "poll" /\ pc' = [pc EXCEPT ![r] = "fetch"]
        /\ UNCHANGED <<finished, branch, late, work, todo, sent, time, spent, faults>>
    BY <1>8 DEF Skip
  <2>2. pc'[r] = "fetch" /\ \A q \in Runs \ {r} : pc'[q] = pc[q]
    BY <1>1, <2>1 DEF ArchiveTypeOK
  <2>3. spent' + Charge(r)' <= Owed(work[r])'
    <3>1. Cardinality(todo[r]) = 0 /\ PerMatch * 0 = 0 /\ sent[r] = 0 /\ work[r] = branch
      BY <1>1, <2>1, FS_EmptySet, ArchiveAssumption DEF RunCovers, PerMatch
    <3>2. Charge(r)' = 0
      BY <2>1, <3>1 DEF Charge
    <3>3. spent' = spent /\ spent \in Nat /\ Owed(work[r])' = Owed(branch)
      BY <1>1, <2>1, <3>1 DEF ArchiveTypeOK, Owed
    <3>4. spent <= Owed(branch) /\ Owed(branch) \in 0..Budget
      BY <1>1, ChargeType DEF BranchCovers
    <3>. QED
      BY <3>2, <3>3, <3>4, ArchiveAssumption
  <2>4. RunCovers(r)'
    BY <1>1, <2>1, <2>2, <2>3 DEF RunCovers, Listed, InFlight
  <2>. QED
    BY <1>2, <1>3, <2>1, <2>2, <2>4 DEF InFlight
<1>9. CASE Poll(r)
  <2>1. pc[r] \in InFlight /\ UNCHANGED <<finished, branch, spent>>
    BY <1>9 DEF Poll, InFlight
  <2>2. \A q \in Runs \ {r} : /\ pc'[q] = pc[q] /\ work'[q] = work[q]
                              /\ todo'[q] = todo[q] /\ sent'[q] = sent[q]
    BY <1>1, <1>9 DEF Poll, ArchiveTypeOK
  <2>. QED
    BY <1>2, <1>3, <1>9, <2>1, <2>2, PollCovered
<1>10. ASSUME NEW m \in Matches, Fetch(r, m) PROVE Covered'
  <2>1. pc[r] \in InFlight /\ UNCHANGED <<finished, branch, spent>>
    BY <1>10 DEF Fetch, InFlight
  <2>2. \A q \in Runs \ {r} : /\ pc'[q] = pc[q] /\ work'[q] = work[q]
                              /\ todo'[q] = todo[q] /\ sent'[q] = sent[q]
    BY <1>1, <1>10 DEF Fetch, ArchiveTypeOK
  <2>. QED
    BY <1>2, <1>3, <1>10, <2>1, <2>2, FetchCovered
<1>11. CASE Publish(r)
  <2>1. End(r) /\ finished' = finished /\ pc[r] \in InFlight
    BY <1>11 DEF Publish, InFlight
  <2>2. BranchCovers'
    BY <1>11, PublishCovered
  <2>3. /\ RunCovers(r)' /\ pc'[r] \notin InFlight
        /\ \A q \in Runs \ {r} : /\ pc'[q] = pc[q] /\ work'[q] = work[q]
                                 /\ todo'[q] = todo[q] /\ sent'[q] = sent[q]
    BY <1>1, <2>1, Ended DEF InFlight
  <2>. QED
    BY <1>3, <2>1, <2>2, <2>3
<1>. QED
  BY <1>5, <1>6, <1>7, <1>8, <1>9, <1>10, <1>11 DEF Step

\* Every step does.
LEMMA NextCovered == ASSUME SingleWriter, Covered, [Next]_vars PROVE Covered'
<1>1. ArchiveTypeOK' /\ ArchiveTypeOK
  BY NextType DEF Covered
<1>2. CASE UNCHANGED vars
  BY <1>1, <1>2, Untouched
     DEF vars, run, time, Covered, Alone, BranchCovers, RunCovers, Listed, Charge
<1>3. CASE Tick
  <2>1. Alone'
    BY <1>3 DEF Tick, Covered, Alone
  <2>. QED
    BY <1>1, <1>3, <2>1, TickCovered DEF Covered
<1>4. ASSUME NEW m \in Matches, Finish(m) PROVE Covered'
  <2>1. finished \subseteq finished' /\ UNCHANGED <<branch, run, time, spent, faults>>
    BY <1>4 DEF Finish
  <2>2. \A r \in Runs : RunCovers(r)'
    BY <2>1, Untouched DEF Covered, run
  <2>3. Alone' /\ BranchCovers'
    BY <2>1 DEF run, Covered, Alone, BranchCovers, Listed
  <2>. QED
    BY <1>1, <2>2, <2>3 DEF Covered
<1>5. ASSUME NEW r \in Runs, Trigger(r) \/ Step(r) \/ Lose(r) PROVE Covered'
  BY <1>1, <1>5, StepCovered
<1>. QED
  BY <1>2, <1>3, <1>4, <1>5 DEF Next

\* Nothing but a publication changes what is archived, and that keeps it.
LEMMA NextKeeps == ASSUME Covered, [Next]_vars PROVE branch.archive \subseteq branch'.archive
<1>1. CASE UNCHANGED branch
  BY <1>1
<1>2. CASE Tick
  <2>1. (hour' # 0) \in BOOLEAN /\ branch \in Snapshot
    BY DEF Covered, ArchiveTypeOK
  <2>2. branch' = Aged(branch, hour' # 0)
    BY <1>2 DEF Tick
  <2>. QED
    BY <2>1, <2>2, AgedSnapshot
<1>3. ASSUME NEW r \in Runs, Publish(r) PROVE branch.archive \subseteq branch'.archive
  BY <1>3, PublishCovered
<1>4. ASSUME NEW r \in Runs, Trigger(r) \/ Step(r) \/ Lose(r), ~Publish(r) PROVE UNCHANGED branch
  BY <1>4 DEF Trigger, Step, Lose, Hydrate, Skip, Poll, Fetch
<1>5. ASSUME NEW m \in Matches, Finish(m) PROVE UNCHANGED branch
  BY <1>5 DEF Finish
<1>. QED
  BY <1>1, <1>2, <1>3, <1>4, <1>5 DEF Next, vars

\* What is published covers what was spent, and every run in flight has reserved
\* what it still may.
THEOREM CoveredHolds == ASSUME SingleWriter PROVE Spec => []Covered
<1>1. Covered /\ [Next]_vars => Covered'
  BY NextCovered
<1>. QED
  BY <1>1, InitCovered, PTL DEF Spec

\* For any number of runs, matches and retries, and any budget and cap: the
\* requests that published runs sent on one day's account stay within the budget,
\* provided that one run at a time is between its hydration and its publication.
THEOREM QuotaHolds == ASSUME SingleWriter PROVE Spec => []QuotaKept
<1>1. Covered => QuotaKept
  <2>. SUFFICES ASSUME Covered PROVE QuotaKept
    OBVIOUS
  <2>1. spent \in Nat /\ spent <= Owed(branch) /\ branch \in Snapshot
    BY DEF Covered, ArchiveTypeOK, BranchCovers
  <2>2. Owed(branch) \in 0..Budget
    BY <2>1, ArchiveAssumption DEF Snapshot, Owed
  <2>. QED
    BY <2>1, <2>2, ArchiveAssumption DEF QuotaKept
<1>. QED
  BY <1>1, CoveredHolds, PTL

\* Under the same proviso, what is archived stays archived.
THEOREM ArchiveSurvives == ASSUME SingleWriter PROVE Spec => ArchiveKept
<1>1. Covered /\ [Next]_vars => [branch.archive \subseteq branch'.archive]_vars
  BY NextKeeps
<1>. QED
  BY <1>1, CoveredHolds, PTL DEF Spec, ArchiveKept
=============================================================================
