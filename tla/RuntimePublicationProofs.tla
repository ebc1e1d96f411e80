---------------------- MODULE RuntimePublicationProofs ----------------------
(***************************************************************************)
(* Proofs about RuntimePublication for every set of runs, every number of  *)
(* slots, every window and every number of push attempts.                  *)
(***************************************************************************)
EXTENDS RuntimePublication, FiniteSetTheorems, TLAPS

(* What makes a snapshot sound on its own, whoever derived it *)

Row == Proofs \cup {Missing, Absent}

\* The proof at c is the newest row.
Top(rows, c) ==
  /\ c # 0 => rows[c] \in Proofs
  /\ \A s \in Slots : rows[s] # Absent => s <= c

Dense(rows) ==
  \A s, t, u \in Slots :
    s < t /\ t < u /\ rows[s] # Absent /\ rows[u] # Absent => rows[t] # Absent

\* o is the newest slot with a proof or an auxiliary row.
OperOK(o, c, aux) ==
  /\ c <= o
  /\ o # c => o \in Slots /\ aux[o] # Absent
  /\ \A s \in Slots : aux[s] # Absent => s <= o

SnapOK(v) ==
  /\ Top(v.rows, v.chat) /\ Dense(v.rows)
  /\ OperOK(v.oper, v.chat, v.aux)
  /\ v.dups = {}

\* Densifying and trimming keep the newest row, close every gap, keep every row
\* of the window and let nothing older stay.
LEMMA DensifyTrim ==
  ASSUME NEW rows \in [Slots -> Row], NEW c \in 0..MaxSlot, Top(rows, c),
         NEW new, new = Trim(Densify(rows))
  PROVE  /\ new \in [Slots -> Row]
         /\ Top(new, c) /\ Dense(new)
         /\ \A s \in Slots :
              /\ new[s] \in {rows[s], Missing, Absent}
              /\ new[s] = Missing => rows[s] \in {Missing, Absent}
              /\ rows[s] # Absent /\ c < s + Window => new[s] = rows[s]
              /\ new[s] # Absent => c < s + Window
<1> USE RunsAssumption, BoundsAssumption DEF Slots, Row
<1> DEFINE mid == Densify(rows)
<1>1. mid \in [Slots -> Row] /\ new \in [Slots -> Row]
  BY DEF Densify, Trim
<1>2. \A s \in Slots :
        mid[s] = IF /\ rows[s] = Absent
                    /\ \E a, b \in Slots : a < s /\ s < b /\ rows[a] # Absent
                                             /\ rows[b] # Absent
                 THEN Missing ELSE rows[s]
  BY DEF Densify
<1>3. \A s \in Slots :
        new[s] = IF \E t \in Slots : t >= s + Window /\ mid[t] # Absent
                 THEN Absent ELSE mid[s]
  BY DEF Trim
<1> HIDE DEF mid
<1>0. Absent \notin Proofs
  BY DEF Runs
<1>4. /\ \A s \in Slots : mid[s] # Absent => s <= c
      /\ c # 0 => c \in Slots /\ mid[c] = rows[c] /\ mid[c] # Absent
  <2>1. ASSUME NEW s \in Slots, mid[s] # Absent PROVE s <= c
    <3>1. CASE rows[s] # Absent
      BY <3>1 DEF Top
    <3>2. CASE \E b \in Slots : s < b /\ rows[b] # Absent
      BY <3>2 DEF Top
    <3> QED BY <1>2, <2>1, <3>1, <3>2
  <2>2. c # 0 => c \in Slots /\ rows[c] # Absent
    BY <1>0 DEF Top
  <2> QED BY <1>2, <2>1, <2>2
<1>5. \A s \in Slots :
        (\E t \in Slots : t >= s + Window /\ mid[t] # Absent) <=> c >= s + Window
  BY <1>4
<1>6. \A s \in Slots : new[s] = IF c >= s + Window THEN Absent ELSE mid[s]
  BY <1>3, <1>5
<1>7. Top(new, c)
  BY <1>4, <1>6 DEF Top
<1>8. \A s, t, u \in Slots :
        s < t /\ t < u /\ mid[s] # Absent /\ mid[u] # Absent => mid[t] # Absent
  <2> SUFFICES ASSUME NEW s \in Slots, NEW t \in Slots, NEW u \in Slots,
                      s < t, t < u, mid[s] # Absent, mid[u] # Absent
               PROVE  mid[t] # Absent
    OBVIOUS
  <2>1. \E a \in Slots : a < t /\ rows[a] # Absent
    BY <1>2
  <2>2. \E b \in Slots : t < b /\ rows[b] # Absent
    BY <1>2
  <2> QED BY <1>2, <2>1, <2>2
<1>9. Dense(new)
  BY <1>6, <1>8 DEF Dense
<1>10. ASSUME NEW s \in Slots
       PROVE  /\ new[s] \in {rows[s], Missing, Absent}
              /\ new[s] = Missing => rows[s] \in {Missing, Absent}
              /\ rows[s] # Absent /\ c < s + Window => new[s] = rows[s]
              /\ new[s] # Absent => c < s + Window
  BY <1>2, <1>6
<1> QED BY <1>1, <1>7, <1>9, <1>10

\* The newest auxiliary row is always among those kept.
LEMMA AuxiliaryKept ==
  ASSUME NEW r \in Runs, NEW aux \in [Slots -> Masters \cup {Absent}],
         r \in Masters => slot[r] \in Slots,
         NEW added, added = IF r \in Masters THEN [aux EXCEPT ![slot[r]] = r] ELSE aux,
         NEW new, new = WithAuxiliary(r, aux)
  PROVE  /\ new \in [Slots -> Masters \cup {Absent}]
         /\ \A s \in Slots : new[s] \in {added[s], Absent}
         /\ \A o \in Slots :
              added[o] # Absent /\ (\A s \in Slots : added[s] # Absent => s <= o)
                => new[o] # Absent
<1> USE BoundsAssumption DEF Slots
<1>1. added \in [Slots -> Masters \cup {Absent}]
  OBVIOUS
<1>2. new = [s \in Slots |->
               IF Cardinality({t \in Slots : t > s /\ added[t] # Absent}) >= Window
               THEN Absent ELSE added[s]]
  BY DEF WithAuxiliary
<1>3. ASSUME NEW o \in Slots, added[o] # Absent,
             \A s \in Slots : added[s] # Absent => s <= o
      PROVE  new[o] # Absent
  <2>1. {t \in Slots : t > o /\ added[t] # Absent} = {}
    BY <1>3
  <2>2. Cardinality({t \in Slots : t > o /\ added[t] # Absent}) = 0
    BY <2>1, FS_EmptySet
  <2> QED BY <1>2, <1>3, <2>2
<1> QED BY <1>1, <1>2, <1>3

\* A run that the slot guard let through derives a sound snapshot from a sound
\* one.  A proof owns its slot, the newest; no row of the window changes hands,
\* and only a slot without a row becomes MISSING.
LEMMA CandidateSound ==
  ASSUME NEW r \in Runs, NEW v \in Snapshot, SnapOK(v), ~AlreadyDone(r, v),
         r \in Proofs \cup Masters => slot[r] \in Slots,
         NEW new, new = Candidate(r, v)
  PROVE  /\ new \in Snapshot /\ SnapOK(new)
         /\ v.chat <= new.chat
         /\ r \in Proofs => /\ v.chat < slot[r] /\ new.chat = slot[r]
                            /\ new.rows[slot[r]] = r
         /\ r \notin Proofs => new.chat = v.chat
         /\ \A s \in Slots :
              \/ r \in Proofs /\ s = slot[r]
              \/ /\ new.rows[s] \in {v.rows[s], Missing, Absent}
                 /\ new.rows[s] = Missing => v.rows[s] \in {Missing, Absent}
                 /\ v.rows[s] # Absent /\ new.chat < s + Window
                      => new.rows[s] = v.rows[s]
                 /\ new.rows[s] # Absent => new.chat < s + Window
<1> DEFINE rows == WithProof(r, v.rows)
           added == IF r \in Masters THEN [v.aux EXCEPT ![slot[r]] = r] ELSE v.aux
<1>0. /\ v.chat \in 0..MaxSlot /\ v.oper \in 0..MaxSlot /\ v.rows \in [Slots -> Row]
      /\ v.aux \in [Slots -> Masters \cup {Absent}] /\ v.dups = {}
      /\ Absent \notin Proofs /\ Absent \notin Masters /\ Missing \notin Proofs
      /\ r \in Proofs => r \notin Masters
      /\ \A s \in Slots : s \in 1..MaxSlot
      /\ MaxSlot \in Nat /\ Window \in Nat \ {0}
  BY RunsAssumption, BoundsAssumption DEF Snapshot, SnapOK, Row, Runs, Slots
<1>1. /\ Top(v.rows, v.chat) /\ Dense(v.rows) /\ OperOK(v.oper, v.chat, v.aux)
  BY DEF SnapOK
<1>2. /\ new.chat = LastProof(r, v.chat) /\ new.oper = LastOperational(r, v.oper)
      /\ new.rows = Trim(Densify(rows)) /\ new.aux = WithAuxiliary(r, v.aux)
      /\ new = [chat |-> new.chat, oper |-> new.oper, rows |-> new.rows,
                aux |-> new.aux, dups |-> new.dups]
      /\ new.dups = IF r \in Proofs /\ v.rows[slot[r]] # Absent
                    THEN v.dups \cup {<<slot[r], r>>} ELSE v.dups
  BY DEF Candidate
<1>3. /\ new.chat \in 0..MaxSlot /\ v.chat <= new.chat
      /\ r \in Proofs => v.chat < slot[r] /\ new.chat = slot[r]
      /\ r \notin Proofs => new.chat = v.chat
  BY <1>0, <1>2 DEF AlreadyDone, LastProof, Later
<1>4. /\ new.oper \in 0..MaxSlot /\ v.oper <= new.oper
      /\ r \in Proofs \cup Masters => slot[r] <= new.oper
      /\ r \in Masters => new.oper = slot[r]
      /\ r \notin Proofs \cup Masters => new.oper = v.oper
      /\ r \in Proofs => new.oper \in {v.oper, slot[r]}
  BY <1>0, <1>2 DEF AlreadyDone, LastOperational, Later
<1>5. r \in Proofs => v.rows[slot[r]] = Absent
  BY <1>0, <1>1, <1>3 DEF Top
<1>6. /\ rows \in [Slots -> Row]
      /\ r \in Proofs => rows[slot[r]] = r
      /\ \A s \in Slots : (r \in Proofs /\ s = slot[r]) \/ rows[s] = v.rows[s]
  BY <1>0, <1>5 DEF WithProof, Row
<1>7. Top(rows, new.chat)
  <2>1. CASE r \in Proofs
    <3>1. new.chat = slot[r] /\ rows[slot[r]] = r /\ v.chat < slot[r]
      BY <1>3, <1>6, <2>1
    <3>2. \A s \in Slots : rows[s] # Absent => s <= slot[r]
      BY <1>0, <1>1, <1>6, <2>1, <3>1 DEF Top
    <3> QED BY <2>1, <3>1, <3>2 DEF Top
  <2>2. CASE r \notin Proofs
    BY <1>1, <1>3, <2>2 DEF Top, WithProof
  <2> QED BY <2>1, <2>2
<1> HIDE DEF rows
<1>8. /\ new.rows \in [Slots -> Row]
      /\ Top(new.rows, new.chat) /\ Dense(new.rows)
      /\ \A s \in Slots :
           /\ new.rows[s] \in {rows[s], Missing, Absent}
           /\ new.rows[s] = Missing => rows[s] \in {Missing, Absent}
           /\ rows[s] # Absent /\ new.chat < s + Window => new.rows[s] = rows[s]
           /\ new.rows[s] # Absent => new.chat < s + Window
  BY <1>2, <1>3, <1>6, <1>7, DensifyTrim
<1>9. r \in Proofs => new.rows[slot[r]] = r
  BY <1>0, <1>3, <1>6, <1>8
<1>10. /\ new.aux \in [Slots -> Masters \cup {Absent}]
       /\ \A s \in Slots : new.aux[s] \in {added[s], Absent}
       /\ \A o \in Slots :
            added[o] # Absent /\ (\A s \in Slots : added[s] # Absent => s <= o)
              => new.aux[o] # Absent
  <2>1. added = IF r \in Masters THEN [v.aux EXCEPT ![slot[r]] = r] ELSE v.aux
    OBVIOUS
  <2>2. new.aux = WithAuxiliary(r, v.aux) /\ (r \in Masters => slot[r] \in Slots)
    BY <1>2
  <2> HIDE DEF added
  <2> QED BY <1>0, <2>1, <2>2, AuxiliaryKept
<1>11. OperOK(new.oper, new.chat, new.aux)
  <2>1. new.chat <= new.oper
    BY <1>0, <1>1, <1>3, <1>4 DEF OperOK
  <2>2. \A s \in Slots : added[s] # Absent => s <= new.oper
    BY <1>0, <1>1, <1>4 DEF OperOK
  <2>3. new.oper # new.chat => new.oper \in Slots /\ added[new.oper] # Absent
    <3>1. CASE r \in Masters
      BY <1>0, <1>4, <3>1
    <3>2. CASE r \notin Masters
      BY <1>0, <1>1, <1>3, <1>4, <3>2 DEF OperOK
    <3> QED BY <3>1, <3>2
  <2> HIDE DEF added
  <2>4. new.oper # new.chat => new.oper \in Slots /\ new.aux[new.oper] # Absent
    BY <1>10, <2>2, <2>3
  <2> QED BY <1>10, <2>1, <2>2, <2>4 DEF OperOK
<1>12. new.dups = {}
  BY <1>0, <1>2, <1>5
<1>13. new \in Snapshot /\ SnapOK(new)
  BY <1>2, <1>3, <1>4, <1>8, <1>10, <1>11, <1>12 DEF Snapshot, SnapOK, Row
<1> QED BY <1>3, <1>6, <1>8, <1>9, <1>13

-----------------------------------------------------------------------------
(* The inductive invariant of concurrent runs *)

\* Every row that is owned is owned by the proof of its slot, which has landed
\* unless it is r.
OwnersOK(v, r) ==
  \A s \in Slots : v.rows[s] \in Proofs =>
    /\ slot[v.rows[s]] = s /\ ~twice[v.rows[s]] /\ pc[v.rows[s]] # "idle"
    /\ first[s] # Absent \/ v.rows[s] = r

\* A run derives its candidate from a sound snapshot that does not have its slot
\* yet; the branch may have moved on since.
RunOK(r) ==
  /\ r \in Proofs \cup Masters /\ pc[r] # "idle" => slot[r] \in Slots
  /\ pc[r] \in InFlight => SnapOK(work[r]) /\ ~twice[r]
  /\ pc[r] = "build" => ~AlreadyDone(r, work[r]) /\ OwnersOK(work[r], Absent)
  /\ pc[r] \in {"lease", "push", "verify"} => OwnersOK(work[r], r)

IInv ==
  /\ TypeOK
  /\ SnapOK(branch) /\ OwnersOK(branch, Absent)
  /\ \A r \in Runs : RunOK(r)

LEMMA InitIInv == Init => IInv
<1> SUFFICES ASSUME Init PROVE IInv
  OBVIOUS
<1> USE RunsAssumption, BoundsAssumption DEF Init
<1>1. EmptySnapshot \in Snapshot /\ SnapOK(EmptySnapshot)
  BY DEF EmptySnapshot, Snapshot, SnapOK, Top, Dense, OperOK, Slots
<1>2. TypeOK
  BY <1>1 DEF TypeOK, Locations, InFlight, Ended
<1>3. OwnersOK(branch, Absent)
  BY DEF OwnersOK, EmptySnapshot, Runs
<1>4. \A r \in Runs : RunOK(r)
  BY DEF RunOK, InFlight
<1> QED BY <1>1, <1>2, <1>3, <1>4 DEF IInv

\* A run that is not idle keeps the slot it was triggered for, and a slot that
\* has had a proof keeps it.
Settled ==
  /\ \A o \in Runs : pc[o] # "idle" =>
       slot'[o] = slot[o] /\ twice'[o] = twice[o] /\ pc'[o] # "idle"
  /\ \A s \in Slots : first[s] # Absent => first'[s] # Absent

\* The run q takes no step, but may be replaced while it waits.
Unmoved(q) ==
  /\ slot'[q] = slot[q] /\ twice'[q] = twice[q] /\ work'[q] = work[q]
  /\ pc'[q] = pc[q] \/ (pc[q] = "pending" /\ pc'[q] = "cancelled")

LEMMA OwnersStay ==
  ASSUME Settled, NEW v, NEW r, OwnersOK(v, r) PROVE OwnersOK(v, r)'
BY DEF Settled, OwnersOK, Runs

\* What is known of a run is not disturbed by the others.
LEMMA RunStays ==
  ASSUME Settled, NEW q \in Runs, RunOK(q), Unmoved(q) PROVE RunOK(q)'
<1>1. pc'[q] # pc[q] => pc[q] # "idle" /\ pc'[q] = "cancelled"
  BY DEF Unmoved
<1>2. pc'[q] \in InFlight => pc'[q] = pc[q] /\ SnapOK(work[q])' /\ ~twice'[q]
  BY DEF RunOK, Unmoved, InFlight, SnapOK
<1>3. pc'[q] = "build" => ~AlreadyDone(q, work[q])' /\ OwnersOK(work[q], Absent)'
  BY OwnersStay DEF RunOK, Unmoved, AlreadyDone
<1>4. pc'[q] \in {"lease", "push", "verify"} => OwnersOK(work[q], q)'
  BY OwnersStay DEF RunOK, Unmoved
<1> QED BY <1>1, <1>2, <1>3, <1>4 DEF RunOK, Unmoved, Settled

LEMMA StepsSettle == ASSUME TypeOK, [Next]_vars PROVE Settled
<1> USE RunsAssumption
<1>0. /\ pc \in [Runs -> Locations] /\ slot \in [Runs -> 0..MaxSlot]
      /\ twice \in [Runs -> BOOLEAN] /\ first \in [Slots -> Proofs \cup {Absent}]
  BY DEF TypeOK
<1>1. CASE UNCHANGED vars
  BY <1>1 DEF vars, remote, runner, Settled
<1>2. ASSUME NEW r \in Runs, NEW s \in Slots, EditTitle(r, s) \/ Dispatch(r, s)
      PROVE  Settled
  <2>1. CASE EditTitle(r, s)
    BY <1>0, <2>1 DEF EditTitle, Goto, Settled
  <2>2. CASE Dispatch(r, s)
    <3>1. /\ pc[r] = "idle" /\ slot' = [slot EXCEPT ![r] = s]
          /\ UNCHANGED <<twice, first>>
      BY <2>2 DEF Dispatch
    <3>2. \A q \in Runs \ {r} : pc'[q] \in {pc[q], "cancelled"}
      BY <1>0, <2>2 DEF Dispatch, Goto
    <3> QED BY <1>0, <3>1, <3>2 DEF Settled
  <2> QED BY <1>2, <2>1, <2>2
<1>3. ASSUME NEW r \in Runs, Comment(r) \/ Step(r) \/ Abort(r) PROVE Settled
  <2>1. /\ UNCHANGED <<slot, twice>> /\ pc'[r] # "idle"
        /\ \A q \in Runs \ {r} : pc'[q] = pc[q]
    BY <1>0, <1>3
       DEF Comment, Step, Abort, Start, Hydrate, Collect, FetchLease, PushLands,
           PushRefused, Verify, AfterFailedPush, End, Goto
  <2>2. \A s \in Slots : first[s] # Absent => first'[s] # Absent
    <3>1. CASE PushLands(r)
      BY <1>0, <3>1 DEF PushLands, Land, Runs
    <3>2. CASE ~PushLands(r)
      BY <1>3, <3>2
         DEF Comment, Step, Abort, Start, Hydrate, Collect, FetchLease,
             PushRefused, Verify
    <3> QED BY <3>1, <3>2
  <2> QED BY <1>0, <2>1, <2>2 DEF Settled
<1> QED BY <1>1, <1>2, <1>3 DEF Next

LEMMA NextIInv == ASSUME IInv, [Next]_vars PROVE IInv'
<1> USE RunsAssumption, BoundsAssumption
<1>0. /\ TypeOK /\ SnapOK(branch) /\ OwnersOK(branch, Absent)
      /\ \A q \in Runs : RunOK(q)
      /\ pc \in [Runs -> Locations] /\ slot \in [Runs -> 0..MaxSlot]
      /\ twice \in [Runs -> BOOLEAN] /\ work \in [Runs -> Snapshot]
      /\ lease \in [Runs -> Runs \cup {Absent}]
      /\ att \in [Runs -> 0..(PushAttempts - 1)]
      /\ first \in [Slots -> Proofs \cup {Absent}] /\ branch \in Snapshot
  BY DEF IInv, TypeOK
<1>s. Settled
  BY <1>0, StepsSettle
<1>1. CASE UNCHANGED vars
  BY <1>1 DEF vars, remote, runner, IInv, TypeOK, SnapOK, OwnersOK, RunOK, AlreadyDone
<1>e. EmptySnapshot \in Snapshot
  BY DEF EmptySnapshot, Snapshot, Slots
<1>2. ASSUME UNCHANGED branch PROVE SnapOK(branch)' /\ OwnersOK(branch, Absent)'
  <2>1. OwnersOK(branch, Absent)'
    BY <1>0, <1>2, <1>s, OwnersStay
  <2> QED BY <1>0, <1>2, <2>1 DEF SnapOK
<1>3. ASSUME NEW r \in Runs, \A q \in Runs \ {r} : Unmoved(q), RunOK(r)'
      PROVE  \A q \in Runs : RunOK(q)'
  BY <1>0, <1>3, <1>s, RunStays
<1>4. ASSUME NEW r \in Runs, NEW s \in Slots, EditTitle(r, s) \/ Dispatch(r, s)
      PROVE  IInv'
  <2>1. /\ UNCHANGED <<remote, runner, first>>
        /\ pc[r] = "idle" /\ slot' = [slot EXCEPT ![r] = s]
        /\ pc'[r] \in {"hydrate", "pending"}
        /\ \A q \in Runs \ {r} : Unmoved(q)
    BY <1>0, <1>4
       DEF EditTitle, Dispatch, Goto, Unmoved, runner
  <2>2. TypeOK'
    <3>1. s \in 0..MaxSlot
      BY DEF Slots
    <3>2. pc' \in [Runs -> Locations] /\ slot' \in [Runs -> 0..MaxSlot]
      BY <1>0, <1>4, <3>1 DEF EditTitle, Dispatch, Goto, Locations, Ended
    <3>3. title' \in 0..MaxSlot /\ twice' \in [Runs -> BOOLEAN]
      BY <1>0, <1>4, <3>1 DEF EditTitle, Dispatch, TypeOK
    <3> QED BY <1>0, <2>1, <3>2, <3>3 DEF TypeOK, remote, runner
  <2>3. RunOK(r)'
    BY <1>0, <2>1 DEF RunOK, InFlight
  <2> QED BY <1>2, <1>3, <2>1, <2>2, <2>3 DEF IInv, remote
<1>5. ASSUME NEW r \in Runs, Comment(r) \/ Start(r) PROVE IInv'
  <2>1. /\ UNCHANGED <<remote, title, slot, twice, runner, first>>
        /\ pc' = [pc EXCEPT ![r] = "hydrate"] /\ \A q \in Runs \ {r} : Unmoved(q)
        /\ r \in Proofs \cup Masters => pc[r] # "idle"
    BY <1>0, <1>5 DEF Comment, Start, Goto, Unmoved, runner
  <2>2. TypeOK'
    BY <1>0, <2>1 DEF TypeOK, remote, runner, Locations
  <2>3. RunOK(r)'
    BY <1>0, <2>1 DEF RunOK, InFlight
  <2> QED BY <1>2, <1>3, <2>1, <2>2, <2>3 DEF IInv, remote
<1>6. ASSUME NEW r \in Runs, Hydrate(r) PROVE IInv'
  <2>1. /\ UNCHANGED <<remote, title, slot, twice, lease, att, first>>
        /\ pc[r] = "hydrate" /\ \A q \in Runs \ {r} : Unmoved(q)
    BY <1>0, <1>6 DEF Hydrate, Goto, Unmoved
  <2>2. CASE pc' = [pc EXCEPT ![r] = "skipped"] /\ UNCHANGED work
    <3>1. TypeOK'
      BY <1>0, <2>1, <2>2 DEF TypeOK, remote, Locations, Ended
    <3>2. RunOK(r)'
      BY <1>0, <2>1, <2>2 DEF RunOK, InFlight
    <3> QED BY <1>2, <1>3, <2>1, <3>1, <3>2 DEF IInv, remote
  <2>3. CASE /\ pc' = [pc EXCEPT ![r] = "build"] /\ work' = [work EXCEPT ![r] = branch]
             /\ ~SlotDone(r)
    <3>1. TypeOK'
      BY <1>0, <2>1, <2>3 DEF TypeOK, remote, Locations, InFlight
    <3>2. /\ pc'[r] = "build" /\ work'[r] = branch /\ ~twice[r]
          /\ ~AlreadyDone(r, branch) /\ OwnersOK(branch, Absent)'
      BY <1>0, <1>2, <2>1, <2>3 DEF SlotDone, remote
    <3>3. RunOK(r)'
      <4>1. ~AlreadyDone(r, work[r])'
        BY <2>1, <3>2 DEF AlreadyDone
      <4>2. OwnersOK(work[r], Absent)'
        BY <2>1, <3>2 DEF remote
      <4>3. SnapOK(work[r])' /\ ~twice'[r]
        BY <1>0, <2>1, <3>2 DEF SnapOK
      <4>4. r \in Proofs \cup Masters => slot'[r] \in Slots
        BY <1>0, <2>1 DEF RunOK
      <4> QED BY <3>2, <4>1, <4>2, <4>3, <4>4 DEF RunOK
    <3> QED BY <1>2, <1>3, <2>1, <3>1, <3>3 DEF IInv, remote
  <2> QED BY <1>6, <2>2, <2>3 DEF Hydrate, Goto
<1>7. ASSUME NEW r \in Runs, Collect(r) PROVE IInv'
  <2> DEFINE new == Candidate(r, work[r])
  <2>1. /\ UNCHANGED <<remote, title, slot, twice, lease, att, first>>
        /\ pc[r] = "build" /\ pc' = [pc EXCEPT ![r] = "lease"]
        /\ work' = [work EXCEPT ![r] = new]
        /\ \A q \in Runs \ {r} : Unmoved(q)
    BY <1>0, <1>7 DEF Collect, Goto, Unmoved
  <2>2. /\ SnapOK(work[r]) /\ ~twice[r] /\ ~AlreadyDone(r, work[r])
        /\ OwnersOK(work[r], Absent) /\ work[r] \in Snapshot
        /\ r \in Proofs \cup Masters => slot[r] \in Slots
    BY <1>0, <2>1 DEF RunOK, InFlight
  <2>3. /\ new \in Snapshot /\ SnapOK(new)
        /\ \A s \in Slots :
             \/ r \in Proofs /\ s = slot[r] /\ new.rows[s] = r
             \/ new.rows[s] \in {work[r].rows[s], Missing, Absent}
    <3> HIDE DEF new
    <3>1. new = Candidate(r, work[r])
      BY DEF new
    <3> QED BY <2>2, <3>1, CandidateSound
  <2>4. TypeOK'
    BY <1>0, <2>1, <2>3 DEF TypeOK, remote, Locations, InFlight
  <2>5. OwnersOK(new, r)
    BY <1>0, <2>1, <2>2, <2>3 DEF OwnersOK, Runs
  <2>7. RunOK(r)'
    <3>1. /\ work'[r] = new /\ pc'[r] = "lease"
          /\ UNCHANGED <<slot, twice, first>>
      BY <1>0, <2>1
    <3>2. OwnersOK(work[r], r)'
      BY <2>1, <2>5, <3>1 DEF OwnersOK
    <3>3. SnapOK(work[r])'
      BY <2>3, <3>1 DEF SnapOK
    <3> QED BY <2>2, <3>1, <3>2, <3>3 DEF RunOK
  <2> QED BY <1>2, <1>3, <2>1, <2>4, <2>7 DEF IInv, remote
<1>8. ASSUME NEW r \in Runs, FetchLease(r) PROVE IInv'
  <2>1. /\ UNCHANGED <<remote, title, slot, twice, work, att, first>>
        /\ pc[r] = "lease" /\ pc' = [pc EXCEPT ![r] = "push"]
        /\ lease' = [lease EXCEPT ![r] = tip] /\ tip \in Runs \cup {Absent}
        /\ \A q \in Runs \ {r} : Unmoved(q)
    BY <1>0, <1>8 DEF FetchLease, Goto, Unmoved, TypeOK
  <2>2. TypeOK'
    BY <1>0, <2>1 DEF TypeOK, remote, Locations, InFlight
  <2>3. OwnersOK(work[r], r)'
    BY <1>0, <2>1 DEF RunOK, OwnersOK
  <2>4. RunOK(r)'
    BY <1>0, <2>1, <2>3 DEF RunOK, InFlight, SnapOK
  <2> QED BY <1>2, <1>3, <2>1, <2>2, <2>4 DEF IInv, remote
<1>9. ASSUME NEW r \in Runs, pc[r] # "idle", UNCHANGED <<slot, twice>>,
             \/ pc[r] = "push" /\ AfterFailedPush(r)
             \/ \E l \in Ended : End(r, l)
      PROVE  /\ pc' \in [Runs -> Locations] /\ work' \in [Runs -> Snapshot]
             /\ lease' \in [Runs -> Runs \cup {Absent}]
             /\ att' \in [Runs -> 0..(PushAttempts - 1)]
             /\ RunOK(r)' /\ \A q \in Runs \ {r} : Unmoved(q)
  <2>1. CASE \E e \in Ended : End(r, e)
    <3>1. PICK e \in Ended : End(r, e)
      BY <2>1
    <3>2. pc' \in [Runs -> Locations] /\ pc'[r] \in Ended
      BY <1>0, <3>1 DEF End, Goto, Locations
    <3>3. /\ work' \in [Runs -> Snapshot] /\ lease' \in [Runs -> Runs \cup {Absent}]
          /\ att' \in [Runs -> 0..(PushAttempts - 1)]
      BY <1>0, <1>e, <3>1 DEF End
    <3>4. RunOK(r)'
      BY <1>0, <1>9, <3>2 DEF RunOK, InFlight, Ended
    <3>5. \A q \in Runs \ {r} : Unmoved(q)
      BY <1>0, <1>9, <3>1 DEF End, Goto, Unmoved
    <3> QED BY <3>2, <3>3, <3>4, <3>5
  <2>2. CASE /\ att[r] + 1 < PushAttempts /\ pc' = [pc EXCEPT ![r] = "lease"]
             /\ att' = [att EXCEPT ![r] = @ + 1] /\ UNCHANGED <<work, lease>>
             /\ pc[r] = "push"
    <3>1. OwnersOK(work[r], r)'
      <4>1. OwnersOK(work[r], r)
        BY <1>0, <2>2 DEF RunOK
      <4> QED BY <1>s, <2>2, <4>1 DEF OwnersOK, Settled, Runs
    <3>2. RunOK(r)'
      BY <1>0, <1>9, <2>2, <3>1 DEF RunOK, InFlight, SnapOK
    <3>3. \A q \in Runs \ {r} : Unmoved(q)
      BY <1>0, <1>9, <2>2 DEF Unmoved
    <3>4. att' \in [Runs -> 0..(PushAttempts - 1)]
      BY <1>0, <2>2
    <3> QED BY <1>0, <2>2, <3>2, <3>3, <3>4 DEF Locations, InFlight
  <2> QED BY <1>9, <2>1, <2>2 DEF AfterFailedPush, Goto, Ended
<1>10. ASSUME NEW r \in Runs, PushRefused(r) \/ Verify(r) \/ Abort(r) PROVE IInv'
  <2>1. UNCHANGED <<remote, title, slot, twice, first>>
    BY <1>10 DEF PushRefused, Verify, Abort
  <2>2. /\ pc[r] # "idle"
        /\ \/ pc[r] = "push" /\ AfterFailedPush(r)
           \/ \E l \in Ended : End(r, l)
    BY <1>10 DEF PushRefused, Verify, Abort, InFlight, Ended
  <2>3. TypeOK' /\ RunOK(r)' /\ \A q \in Runs \ {r} : Unmoved(q)
    BY <1>0, <1>9, <2>1, <2>2 DEF TypeOK, remote
  <2> QED BY <1>2, <1>3, <2>1, <2>3 DEF IInv, remote
<1>11. ASSUME NEW r \in Runs, PushLands(r) PROVE IInv'
  <2>1. /\ Land(r) /\ pc[r] = "push" /\ UNCHANGED <<title, slot, twice>>
    BY <1>11 DEF PushLands
  <2>2. /\ SnapOK(work[r]) /\ OwnersOK(work[r], r)
        /\ r \in Proofs => slot[r] \in Slots
    BY <1>0, <2>1 DEF RunOK, InFlight
  <2>3. /\ tip' = r /\ branch' = work[r]
        /\ first' \in [Slots -> Proofs \cup {Absent}]
        /\ r \in Proofs => first'[slot[r]] # Absent
    BY <1>0, <2>1, <2>2 DEF Land, Runs
  <2>4. SnapOK(branch)' /\ OwnersOK(branch, Absent)'
    <3>1. SnapOK(branch)'
      BY <2>2, <2>3 DEF SnapOK
    <3>2. OwnersOK(work[r], r) /\ branch' = work[r]
      BY <2>2, <2>3
    <3>3. OwnersOK(branch, Absent)'
      BY <1>s, <2>1, <2>3, <3>2 DEF OwnersOK, Settled, Runs
    <3> QED BY <3>1, <3>3
  <2>5. CASE /\ pc' = [pc EXCEPT ![r] = "verify"] /\ UNCHANGED runner
    <3>1. TypeOK'
      BY <1>0, <2>1, <2>3, <2>5 DEF TypeOK, runner, Locations, InFlight
    <3>2. \A q \in Runs \ {r} : Unmoved(q)
      BY <1>0, <2>1, <2>5 DEF Unmoved, runner
    <3>3. OwnersOK(work[r], r)'
      BY <1>s, <2>2, <2>5 DEF OwnersOK, Settled, Runs, runner
    <3>4. RunOK(r)'
      BY <1>0, <2>1, <2>2, <2>5, <3>3 DEF RunOK, InFlight, SnapOK, runner
    <3> QED BY <1>3, <2>4, <3>1, <3>2, <3>4 DEF IInv
  <2>6. CASE AfterFailedPush(r)
    <3>1. /\ pc' \in [Runs -> Locations] /\ work' \in [Runs -> Snapshot]
          /\ lease' \in [Runs -> Runs \cup {Absent}]
          /\ att' \in [Runs -> 0..(PushAttempts - 1)]
          /\ RunOK(r)' /\ \A q \in Runs \ {r} : Unmoved(q)
      BY <1>9, <2>1, <2>6
    <3>2. TypeOK'
      BY <1>0, <2>1, <2>3, <3>1 DEF TypeOK
    <3> QED BY <1>3, <2>4, <3>1, <3>2 DEF IInv
  <2> QED BY <1>11, <2>5, <2>6 DEF PushLands, Goto
<1> QED BY <1>1, <1>4, <1>5, <1>6, <1>7, <1>8, <1>10, <1>11 DEF Next, Step

\* The invariant of concurrent runs.
THEOREM InductiveInvariant == Spec => []IInv
<1> QED BY InitIInv, NextIInv, PTL DEF Spec

\* Every variable keeps its type, for every set of runs and every bound.
THEOREM TypeCorrect == Spec => []TypeOK
<1>1. IInv => TypeOK
  BY DEF IInv
<1> QED BY <1>1, InductiveInvariant, PTL

-----------------------------------------------------------------------------
(* What every published snapshot satisfies, however the runs interleave *)

\* A duplicate or late proof never reaches the ledger.
THEOREM NoDuplicateRecorded == Spec => []DuplicatesAreSkipped
<1>1. IInv => DuplicatesAreSkipped
  BY DEF IInv, SnapOK, DuplicatesAreSkipped
<1> QED BY <1>1, InductiveInvariant, PTL

\* No success is synthetic: an owner is a run that was triggered for the slot and
\* whose candidate landed.
THEOREM OwnersProved == Spec => []OwnersAreProofs
<1>1. IInv => OwnersAreProofs
  BY RunsAssumption DEF IInv, OwnersOK, OwnersAreProofs, Runs
<1> QED BY <1>1, InductiveInvariant, PTL

LEMMA NewestIs ==
  ASSUME NEW S \in SUBSET Slots, NEW n \in S, \A t \in S : t <= n
  PROVE  Newest(S) = n
<1>1. \A m \in S : (\A t \in S : t <= m) => m = n
  BY DEF Slots
<1>2. Newest(S) = CHOOSE s \in S : \A t \in S : t <= s
  BY DEF Newest
<1> QED BY <1>1, <1>2

\* The runtime control and the ledger, which two functions derive, agree in every
\* published snapshot.
THEOREM ControlAndLedgerAgree == Spec => []ControlMatchesLedger
<1>1. IInv => ControlMatchesLedger
  <2> SUFFICES ASSUME IInv PROVE ControlMatchesLedger
    OBVIOUS
  <2> DEFINE O == Owned(branch.rows)
             A == {s \in Slots : branch.aux[s] # Absent}
  <2>1. /\ Top(branch.rows, branch.chat)
        /\ OperOK(branch.oper, branch.chat, branch.aux)
        /\ branch.chat \in 0..MaxSlot /\ branch.oper \in 0..MaxSlot
        /\ MaxSlot \in Nat /\ Absent \notin Proofs
    BY RunsAssumption, BoundsAssumption DEF IInv, SnapOK, TypeOK, Snapshot, Runs
  <2>2. /\ O \in SUBSET Slots /\ A \in SUBSET Slots
        /\ \A t \in O : t <= branch.chat
        /\ branch.chat # 0 => branch.chat \in O
    BY <2>1 DEF Owned, Top, Slots
  <2>3. /\ \A t \in O \cup A : t <= branch.oper
        /\ branch.oper # 0 => branch.oper \in O \cup A
    BY <2>1, <2>2 DEF OperOK, Slots
  <2> HIDE DEF O, A
  <2>4. branch.chat = Newest(O)
    <3>1. CASE branch.chat = 0
      <4>1. O = {}
        BY <2>2, <3>1 DEF Slots
      <4> QED BY <3>1, <4>1 DEF Newest
    <3>2. CASE branch.chat # 0
      BY <2>2, <3>2, NewestIs
    <3> QED BY <3>1, <3>2
  <2>5. branch.oper = Newest(O \cup A)
    <3>1. CASE branch.oper = 0
      <4>1. O \cup A = {}
        BY <2>2, <2>3, <3>1 DEF Slots
      <4> QED BY <3>1, <4>1 DEF Newest
    <3>2. CASE branch.oper # 0
      BY <2>2, <2>3, <3>2, NewestIs
    <3> QED BY <3>1, <3>2
  <2> QED BY <2>4, <2>5 DEF O, A, ControlMatchesLedger
<1> QED BY <1>1, InductiveInvariant, PTL

\* A MISSING row is always below the row of a proof, with no gap between them.
THEOREM MissingBelowProof == Spec => []MissingIsRetrospective
<1>1. IInv => MissingIsRetrospective
  <2> SUFFICES ASSUME IInv, NEW s \in Slots, branch.rows[s] = Missing
               PROVE  \E t \in Slots : t > s /\ branch.rows[t] \in Proofs
                                       /\ \A u \in s..t : branch.rows[u] # Absent
    BY DEF MissingIsRetrospective
  <2>1. /\ Top(branch.rows, branch.chat) /\ Dense(branch.rows)
        /\ branch.chat \in 0..MaxSlot /\ MaxSlot \in Nat
        /\ Absent \notin Proofs /\ Missing \notin Proofs /\ Missing # Absent
    BY RunsAssumption, BoundsAssumption DEF IInv, SnapOK, TypeOK, Snapshot, Runs
  <2>2. /\ branch.chat \in Slots /\ branch.rows[branch.chat] \in Proofs
        /\ s < branch.chat
    BY <2>1 DEF Top, Slots
  <2>3. \A u \in s..branch.chat : branch.rows[u] # Absent
    BY <2>1, <2>2 DEF Dense, Slots
  <2> QED BY <2>2, <2>3
<1> QED BY <1>1, InductiveInvariant, PTL

-----------------------------------------------------------------------------
(* What holds when something keeps the runs apart *)

\* The run in flight derives its candidate from the snapshot that is published,
\* or has published it already.
DerivedOK(r) ==
  /\ pc[r] = "build" => work[r] = branch
  /\ pc[r] \in {"lease", "push", "verify"} =>
       \/ work[r] = branch /\ (r \in Proofs => first[slot[r]] # Absent)
       \/ work[r] = Candidate(r, branch) /\ ~AlreadyDone(r, branch)

Alone == \A p, q \in Runs : pc[p] \in InFlight /\ pc[q] \in InFlight => p = q

\* The first proof of a slot owns its row for as long as the row is kept.
LedgerOK ==
  \A s \in Slots :
    /\ first[s] # Absent => s <= branch.chat
    /\ first[s] # Absent /\ branch.chat < s + Window => branch.rows[s] = first[s]
    /\ branch.rows[s] = Missing => first[s] = Absent

SingleInv == Alone /\ LedgerOK /\ \A r \in Runs : DerivedOK(r)

LEMMA InitSingle == Init => SingleInv
<1> USE RunsAssumption
<1>1. Init => LedgerOK
  BY DEF Init, LedgerOK, EmptySnapshot
<1>2. Init => Alone /\ \A r \in Runs : DerivedOK(r)
  BY DEF Init, Alone, DerivedOK, InFlight
<1> QED BY <1>1, <1>2 DEF SingleInv

\* A run that keeps its slot has the same candidate and the same slot guard.
LEMMA SameCandidate ==
  ASSUME NEW r, slot'[r] = slot[r], UNCHANGED branch
  PROVE  /\ Candidate(r, branch)' = Candidate(r, branch)
         /\ AlreadyDone(r, branch)' <=> AlreadyDone(r, branch)
BY DEF Candidate, LastProof, LastOperational, Later, WithProof, Densify, Trim,
       WithAuxiliary, AlreadyDone

\* Only a push that lands moves the branch, and what it lands is the branch itself
\* or a candidate derived from it.
LEMMA BranchMoves ==
  ASSUME IInv, SingleInv, [Next]_vars
  PROVE  \/ UNCHANGED <<branch, first>>
         \/ \E r \in Runs : /\ PushLands(r) /\ work[r] = Candidate(r, branch)
                            /\ ~AlreadyDone(r, branch)
<1>0. /\ first \in [Slots -> Proofs \cup {Absent}] /\ \A r \in Runs : DerivedOK(r)
  BY DEF IInv, TypeOK, SingleInv
<1>1. ASSUME NEW r \in Runs, PushLands(r)
      PROVE  \/ UNCHANGED <<branch, first>>
             \/ work[r] = Candidate(r, branch) /\ ~AlreadyDone(r, branch)
  <2>1. /\ pc[r] = "push" /\ branch' = work[r]
        /\ first' = IF r \in Proofs /\ first[slot[r]] = Absent
                    THEN [first EXCEPT ![slot[r]] = r] ELSE first
    BY <1>1 DEF PushLands, Land
  <2> QED BY <1>0, <2>1 DEF DerivedOK
<1>2. ASSUME NEW r \in Runs, Comment(r) \/ Step(r) \/ Abort(r), ~PushLands(r)
      PROVE  UNCHANGED <<branch, first>>
  BY <1>2
     DEF Comment, Step, Abort, Start, Hydrate, Collect, FetchLease, PushRefused,
         Verify, remote
<1>3. ASSUME NEW r \in Runs, NEW s \in Slots, EditTitle(r, s) \/ Dispatch(r, s)
      PROVE  UNCHANGED <<branch, first>>
  BY <1>3 DEF EditTitle, Dispatch, remote
<1> QED BY <1>1, <1>2, <1>3 DEF Next, vars, remote

\* A candidate that lands keeps the ledger factual and complete.
LEMMA LedgerStep ==
  ASSUME IInv, SingleInv, [Next]_vars PROVE LedgerOK' /\ branch.chat <= branch'.chat
<1> USE RunsAssumption, BoundsAssumption
<1>0. /\ first \in [Slots -> Proofs \cup {Absent}] /\ branch \in Snapshot
      /\ branch.chat \in 0..MaxSlot /\ SnapOK(branch) /\ LedgerOK
      /\ \A r \in Runs : RunOK(r)
  BY DEF IInv, TypeOK, SingleInv, Snapshot
<1>1. CASE UNCHANGED <<branch, first>>
  BY <1>0, <1>1 DEF LedgerOK
<1>2. ASSUME NEW r \in Runs, PushLands(r), work[r] = Candidate(r, branch),
             ~AlreadyDone(r, branch)
      PROVE  LedgerOK' /\ branch.chat <= branch'.chat
  <2>1. /\ pc[r] = "push" /\ branch' = Candidate(r, branch)
        /\ first' = IF r \in Proofs /\ first[slot[r]] = Absent
                    THEN [first EXCEPT ![slot[r]] = r] ELSE first
    BY <1>2 DEF PushLands, Land
  <2>2. r \in Proofs \cup Masters => slot[r] \in Slots
    BY <1>0, <2>1 DEF RunOK
  <2> DEFINE new == Candidate(r, branch)
  <2> HIDE DEF new
  <2>3. /\ new \in Snapshot /\ new.chat \in 0..MaxSlot /\ branch.chat <= new.chat
        /\ r \in Proofs => /\ branch.chat < slot[r] /\ new.chat = slot[r]
                           /\ new.rows[slot[r]] = r
        /\ \A s \in Slots :
             \/ r \in Proofs /\ s = slot[r]
             \/ /\ new.rows[s] = Missing => branch.rows[s] \in {Missing, Absent}
                /\ branch.rows[s] # Absent /\ new.chat < s + Window
                     => new.rows[s] = branch.rows[s]
                /\ new.rows[s] # Absent => new.chat < s + Window
    <3>1. new = Candidate(r, branch)
      BY DEF new
    <3>2. new \in Snapshot => new.chat \in 0..MaxSlot
      BY DEF Snapshot
    <3> QED BY <1>0, <1>2, <2>2, <3>1, <3>2, CandidateSound
  <2>4. branch' = new
    BY <2>1 DEF new
  <2>5. /\ Absent \notin Proofs /\ Missing \notin Proofs /\ Missing # Absent
        /\ \A s \in Slots : s \in Nat
    BY DEF Runs, Slots
  <2>6. ASSUME NEW s \in Slots
        PROVE  /\ first'[s] # Absent => s <= new.chat
               /\ first'[s] # Absent /\ new.chat < s + Window
                    => new.rows[s] = first'[s]
               /\ new.rows[s] = Missing => first'[s] = Absent
    <3>1. CASE r \in Proofs /\ s = slot[r]
      <4>1. first[s] = Absent
        BY <1>0, <2>3, <2>5, <3>1 DEF LedgerOK
      <4>2. first'[s] = r
        BY <1>0, <2>1, <3>1, <4>1
      <4> QED BY <2>3, <2>5, <3>1, <4>2
    <3>2. CASE ~(r \in Proofs /\ s = slot[r])
      <4>1. first'[s] = first[s]
        BY <1>0, <2>1, <2>2, <3>2
      <4>2. branch.chat < s + Window \/ ~(new.chat < s + Window)
        BY <1>0, <2>3, <2>5
      <4>3. first[s] # Absent => s <= new.chat
        BY <1>0, <2>3, <2>5 DEF LedgerOK
      <4> QED BY <1>0, <2>3, <2>5, <3>2, <4>1, <4>2, <4>3 DEF LedgerOK
    <3> QED BY <3>1, <3>2
  <2> QED BY <2>3, <2>4, <2>6 DEF LedgerOK
<1> QED BY <1>1, <1>2, BranchMoves

\* How a run comes to be in flight, and how it goes on.
LEMMA FlightSteps ==
  ASSUME TypeOK, SingleWriter, [Next]_vars, NEW q \in Runs, pc'[q] \in InFlight
  PROVE  \/ pc[q] \in InFlight /\ pc'[q] = pc[q] /\ work'[q] = work[q]
         \/ /\ pc[q] = "hydrate" /\ pc'[q] = "build" /\ work'[q] = branch
            /\ UNCHANGED branch /\ \A p \in Runs : pc[p] \notin InFlight
            /\ \A p \in Runs \ {q} : pc'[p] = pc[p]
         \/ Collect(q) /\ pc'[q] = "lease"
         \/ /\ pc[q] \in {"lease", "push"} /\ pc'[q] \in {"lease", "push", "verify"}
            /\ work'[q] = work[q]
            /\ (UNCHANGED <<branch, first>> \/ PushLands(q))
<1> USE RunsAssumption
<1>0. pc \in [Runs -> Locations] /\ work \in [Runs -> Snapshot]
  BY DEF TypeOK
<1>1. CASE UNCHANGED vars
  BY <1>1 DEF vars, runner
<1>2. ASSUME NEW r \in Runs, NEW s \in Slots, EditTitle(r, s) \/ Dispatch(r, s)
      PROVE  pc'[q] = pc[q] /\ work'[q] = work[q]
  BY <1>0, <1>2 DEF EditTitle, Dispatch, Goto, runner, InFlight
<1>3. ASSUME NEW r \in Runs \ {q}, Comment(r) \/ Step(r) \/ Abort(r)
      PROVE  pc'[q] = pc[q] /\ work'[q] = work[q]
  BY <1>0, <1>3
     DEF Comment, Step, Abort, Start, Hydrate, Collect, FetchLease, PushLands,
         PushRefused, Verify, AfterFailedPush, End, Goto, runner
<1>4. CASE Comment(q) \/ Start(q) \/ Verify(q) \/ Abort(q)
  BY <1>0, <1>4 DEF Comment, Start, Verify, Abort, End, Goto, InFlight, Ended
<1>5. CASE Hydrate(q)
  BY <1>0, <1>5 DEF Hydrate, Goto, InFlight, remote
<1>6. CASE Collect(q)
  BY <1>0, <1>6 DEF Collect, Goto
<1>7. CASE FetchLease(q)
  BY <1>0, <1>7 DEF FetchLease, Goto, remote
<1>8. CASE PushLands(q) \/ PushRefused(q)
  <2>1. AfterFailedPush(q) => pc'[q] = "lease" /\ UNCHANGED work
    BY <1>0 DEF AfterFailedPush, End, Goto, InFlight
  <2> QED BY <1>0, <1>8, <2>1 DEF PushLands, PushRefused, Goto, runner, remote
<1> QED BY <1>1, <1>2, <1>3, <1>4, <1>5, <1>6, <1>7, <1>8 DEF Next, Step

LEMMA SingleStep ==
  ASSUME IInv, SingleInv, SingleWriter, [Next]_vars PROVE SingleInv'
<1> USE RunsAssumption
<1>0. /\ TypeOK /\ Alone /\ (\A r \in Runs : DerivedOK(r) /\ RunOK(r))
      /\ pc \in [Runs -> Locations] /\ work \in [Runs -> Snapshot]
      /\ first \in [Slots -> Proofs \cup {Absent}] /\ Settled
  BY StepsSettle DEF IInv, SingleInv, TypeOK
<1>1. Alone'
  <2> SUFFICES ASSUME NEW p \in Runs, NEW q \in Runs,
                      pc'[p] \in InFlight, pc'[q] \in InFlight
               PROVE  p = q
    BY DEF Alone
  <2>1. \A r \in Runs : pc'[r] \in InFlight =>
          \/ pc[r] \in InFlight
          \/ /\ \A x \in Runs : pc[x] \notin InFlight
             /\ \A x \in Runs \ {r} : pc'[x] = pc[x]
    BY <1>0, FlightSteps DEF InFlight, Collect
  <2> QED BY <1>0, <2>1 DEF Alone
<1>2. ASSUME NEW q \in Runs PROVE DerivedOK(q)'
  <2>1. CASE pc'[q] \notin InFlight
    BY <2>1 DEF DerivedOK, InFlight
  <2>2. CASE PushLands(q)
    <3>1. /\ pc[q] = "push" /\ branch' = work[q] /\ UNCHANGED slot
          /\ first' = IF q \in Proofs /\ first[slot[q]] = Absent
                      THEN [first EXCEPT ![slot[q]] = q] ELSE first
      BY <2>2 DEF PushLands, Land
    <3>2. q \in Proofs => first'[slot[q]] # Absent
      BY <1>0, <3>1 DEF RunOK, Runs
    <3>3. pc'[q] \in {"lease", "verify"} => work'[q] = work[q]
      BY <1>0, <2>2 DEF PushLands, AfterFailedPush, End, Goto, runner, Ended
    <3>4. pc'[q] \in {"lease", "verify", "failed"}
      BY <1>0, <2>2 DEF PushLands, AfterFailedPush, End, Goto
    <3> QED BY <3>1, <3>2, <3>3, <3>4 DEF DerivedOK
  <2>3. CASE pc'[q] \in InFlight /\ ~PushLands(q)
    <3>1. CASE pc[q] = "hydrate" /\ pc'[q] = "build" /\ work'[q] = branch
                 /\ UNCHANGED branch
      BY <3>1 DEF DerivedOK
    <3>2. CASE pc[q] \in InFlight
      <4>1. \A r \in Runs : PushLands(r) => r = q
        BY <1>0, <3>2 DEF PushLands, InFlight, Alone
      <4>2. UNCHANGED <<branch, first>>
        BY <2>3, <4>1, BranchMoves
      <4>3. slot'[q] = slot[q]
        BY <1>0, <3>2 DEF Settled, InFlight
      <4>4. /\ Candidate(q, branch)' = Candidate(q, branch)
            /\ AlreadyDone(q, branch)' <=> AlreadyDone(q, branch)
        BY <4>2, <4>3, SameCandidate
      <4>5. CASE Collect(q) /\ pc'[q] = "lease"
        <5>1. pc[q] = "build" /\ work'[q] = Candidate(q, work[q])
          BY <1>0, <4>5 DEF Collect
        <5>2. work[q] = branch /\ ~AlreadyDone(q, work[q])
          BY <1>0, <5>1 DEF DerivedOK, RunOK
        <5> QED BY <4>4, <4>5, <5>1, <5>2 DEF DerivedOK
      <4>6. CASE work'[q] = work[q] /\ (pc'[q] = pc[q] \/
                   /\ pc[q] \in {"lease", "push"}
                   /\ pc'[q] \in {"lease", "push", "verify"})
        BY <1>0, <4>2, <4>3, <4>4, <4>6 DEF DerivedOK
      <4> QED BY <1>0, <2>3, <3>2, <4>5, <4>6, FlightSteps DEF InFlight
    <3> QED BY <1>0, <2>3, <3>1, <3>2, FlightSteps DEF Collect, InFlight
  <2> QED BY <2>1, <2>2, <2>3
<1> QED BY <1>1, <1>2, LedgerStep DEF SingleInv

THEOREM SingleInvariant == ASSUME SingleWriter PROVE Spec => [](IInv /\ SingleInv)
<1>1. Init => IInv /\ SingleInv
  BY InitIInv, InitSingle
<1>2. IInv /\ SingleInv /\ [Next]_vars => (IInv /\ SingleInv)'
  BY NextIInv, SingleStep
<1> QED BY <1>1, <1>2, PTL DEF Spec

\* With one writer at a time, MISSING is said only of a slot no proof landed for.
THEOREM SingleFactual == ASSUME SingleWriter PROVE Spec => []MissingIsFactual
<1>1. SingleInv => MissingIsFactual
  BY DEF SingleInv, LedgerOK, MissingIsFactual
<1> QED BY <1>1, SingleInvariant, PTL

\* With one writer at a time, the first proof of a slot keeps its row as long as
\* the window reaches it.
THEOREM SingleNothingLost == ASSUME SingleWriter PROVE Spec => []NothingLost
<1>1. IInv /\ SingleInv => NothingLost
  <2> SUFFICES ASSUME IInv, SingleInv, NEW s \in Slots, first[s] # Absent,
                      \A t \in Slots : first[t] # Absent => t < s + Window
               PROVE  branch.rows[s] = first[s]
    BY DEF NothingLost
  <2>1. /\ LedgerOK /\ s <= branch.chat /\ branch.chat \in 0..MaxSlot
        /\ Top(branch.rows, branch.chat) /\ OwnersOK(branch, Absent)
    BY DEF IInv, SingleInv, LedgerOK, SnapOK, TypeOK, Snapshot
  <2>2. branch.chat \in Slots /\ branch.rows[branch.chat] \in Proofs
    BY <2>1 DEF Top, Slots
  <2>3. first[branch.chat] # Absent
    BY RunsAssumption, <2>1, <2>2 DEF OwnersOK, Runs
  <2> QED BY <2>1, <2>2, <2>3 DEF LedgerOK
<1> QED BY <1>1, SingleInvariant, PTL

\* With one writer at a time, the published scheduler proof never goes back.
THEOREM SingleAdvances == ASSUME SingleWriter PROVE Spec => ProofNeverRegresses
<1>1. IInv /\ SingleInv /\ [Next]_vars => [branch'.chat >= branch.chat]_vars
  <2> SUFFICES ASSUME IInv, SingleInv, [Next]_vars PROVE branch'.chat >= branch.chat
    OBVIOUS
  <2>1. branch.chat <= branch'.chat
    BY LedgerStep
  <2> QED BY <2>1
<1> QED BY <1>1, SingleInvariant, PTL DEF Spec, ProofNeverRegresses

-----------------------------------------------------------------------------
(* One ledger *)

\* Nothing is kept that the window has left behind.
Trimmed(v) == \A s \in Slots : v.rows[s] # Absent => v.chat < s + Window

\* The rows of a candidate, slot by slot.
LEMMA CandidateRows ==
  ASSUME NEW r \in Runs, NEW v \in Snapshot, SnapOK(v), ~AlreadyDone(r, v),
         r \in Proofs => slot[r] \in Slots,
         NEW new, new = Candidate(r, v)
  PROVE  new.rows =
           [t \in Slots |->
              IF t + Window <= new.chat THEN Absent
              ELSE IF r \in Proofs /\ t = slot[r] THEN r
              ELSE IF r \in Proofs /\ v.chat # 0 /\ v.chat < t /\ t < slot[r] THEN Missing
              ELSE v.rows[t]]
<1> USE RunsAssumption, BoundsAssumption DEF Slots
<1> DEFINE rows == WithProof(r, v.rows)
           mid  == Densify(rows)
           stepped(t) == r \in Proofs /\ v.chat # 0 /\ v.chat < t /\ t < slot[r]
<1>0. /\ v.chat \in 0..MaxSlot /\ v.rows \in [Slots -> Row]
      /\ Absent \notin Proofs /\ Missing # Absent
      /\ Top(v.rows, v.chat) /\ Dense(v.rows)
  BY DEF Snapshot, SnapOK, Row, Runs
<1>1. /\ new.chat = LastProof(r, v.chat) /\ new.rows = Trim(mid)
  BY DEF Candidate
<1>2. /\ new.chat \in 0..MaxSlot
      /\ r \in Proofs => v.chat < slot[r] /\ new.chat = slot[r] /\ v.rows[slot[r]] = Absent
      /\ r \notin Proofs => new.chat = v.chat
  BY <1>0, <1>1 DEF AlreadyDone, LastProof, Later, Top
<1>3. /\ rows \in [Slots -> Row]
      /\ \A t \in Slots : rows[t] = IF r \in Proofs /\ t = slot[r] THEN r ELSE v.rows[t]
  BY <1>0, <1>2 DEF WithProof, Row
<1> HIDE DEF rows
<1>4. \A t \in Slots :
        mid[t] = IF /\ rows[t] = Absent
                    /\ \E a, b \in Slots : a < t /\ t < b /\ rows[a] # Absent /\ rows[b] # Absent
                 THEN Missing ELSE rows[t]
  BY <1>3 DEF Densify
<1>5. \A t \in Slots :
        new.rows[t] = IF \E u \in Slots : u >= t + Window /\ mid[u] # Absent
                      THEN Absent ELSE mid[t]
  BY <1>1 DEF Trim
<1>6. DOMAIN new.rows = Slots /\ new.rows = [t \in Slots |-> new.rows[t]]
  BY <1>1 DEF Trim
<1> HIDE DEF mid
<1>7. ASSUME NEW t \in Slots
      PROVE  mid[t] = IF r \in Proofs /\ t = slot[r] THEN r
                      ELSE IF stepped(t) THEN Missing ELSE v.rows[t]
  <2>1. CASE r \in Proofs /\ t = slot[r]
    BY <1>0, <1>3, <1>4, <2>1
  <2>2. CASE stepped(t)
    <3>1. rows[t] = Absent
      BY <1>0, <1>3, <2>2 DEF Top
    <3>2. v.chat \in Slots /\ rows[v.chat] # Absent
      BY <1>0, <1>3, <2>2 DEF Top
    <3>3. slot[r] \in Slots /\ rows[slot[r]] # Absent
      BY <1>0, <1>3, <2>2
    <3>. QED
      BY <1>4, <2>2, <3>1, <3>2, <3>3
  <2>3. CASE ~(r \in Proofs /\ t = slot[r]) /\ ~stepped(t)
    <3>1. rows[t] = v.rows[t]
      BY <1>3, <2>3
    <3>2. ASSUME rows[t] = Absent, NEW a \in Slots, NEW b \in Slots,
                 a < t, t < b, rows[a] # Absent, rows[b] # Absent
          PROVE  FALSE
      <4>1. CASE t <= v.chat
        <5>1. v.rows[a] # Absent
          BY <1>0, <1>2, <1>3, <3>2, <4>1
        <5>2. v.chat \in Slots /\ v.rows[v.chat] # Absent
          BY <1>0, <4>1 DEF Top
        <5>3. t # v.chat
          BY <3>1, <3>2, <5>2
        <5>4. t < v.chat
          BY <4>1, <5>2, <5>3
        <5>5. v.rows[t] # Absent
          BY <1>0, <3>2, <5>1, <5>2, <5>4 DEF Dense
        <5>. QED
          BY <3>1, <3>2, <5>5
      <4>2. CASE t > v.chat
        <5>1. v.rows[b] = Absent
          BY <1>0, <3>2, <4>2 DEF Top
        <5>2. r \in Proofs /\ b = slot[r]
          BY <1>3, <3>2, <5>1
        <5>3. v.rows[a] # Absent
          BY <1>3, <3>2, <5>2
        <5>4. v.chat # 0
          BY <1>0, <5>3 DEF Top
        <5>. QED
          BY <2>3, <3>2, <4>2, <5>2, <5>4
      <4>. QED
        BY <1>0, <4>1, <4>2
    <3>. QED
      BY <1>4, <2>3, <3>1, <3>2
  <2>. QED
    BY <2>1, <2>2, <2>3
<1>8. ASSUME NEW t \in Slots
      PROVE  (\E u \in Slots : u >= t + Window /\ mid[u] # Absent) <=> new.chat >= t + Window
  <2>1. ASSUME NEW u \in Slots, mid[u] # Absent PROVE u <= new.chat
    BY <1>0, <1>2, <1>7, <2>1 DEF Top
  <2>2. new.chat # 0 => new.chat \in Slots /\ mid[new.chat] # Absent
    BY <1>0, <1>2, <1>7 DEF Top
  <2>. QED
    BY <1>2, <2>1, <2>2
<1>9. ASSUME NEW t \in Slots
      PROVE  new.rows[t] = IF t + Window <= new.chat THEN Absent
                           ELSE IF r \in Proofs /\ t = slot[r] THEN r
                           ELSE IF stepped(t) THEN Missing ELSE v.rows[t]
  BY <1>2, <1>5, <1>7, <1>8
<1>. QED
  BY <1>6, <1>9

LEMMA CandidateTrimmed ==
  ASSUME NEW r \in Runs, NEW v \in Snapshot, SnapOK(v), ~AlreadyDone(r, v),
         r \in Proofs => slot[r] \in Slots,
         NEW new, new = Candidate(r, v)
  PROVE  Trimmed(new)
<1>1. new.chat \in Nat /\ Window \in Nat
  BY BoundsAssumption DEF Candidate, LastProof, Later, Snapshot, Slots
<1>2. new.rows =
        [t \in Slots |->
           IF t + Window <= new.chat THEN Absent
           ELSE IF r \in Proofs /\ t = slot[r] THEN r
           ELSE IF r \in Proofs /\ v.chat # 0 /\ v.chat < t /\ t < slot[r] THEN Missing
           ELSE v.rows[t]]
  BY CandidateRows
<1>3. ASSUME NEW t \in Slots, t + Window <= new.chat PROVE new.rows[t] = Absent
  BY <1>2, <1>3
<1>. QED
  BY <1>1, <1>3 DEF Trimmed, Slots

\* With one writer at a time, the branch is trimmed.
LEMMA TrimmedHolds == ASSUME SingleWriter PROVE Spec => []Trimmed(branch)
<1>1. Init => Trimmed(branch)
  BY DEF Init, Trimmed, EmptySnapshot
<1>2. IInv /\ SingleInv /\ Trimmed(branch) /\ [Next]_vars => Trimmed(branch)'
  <2>. SUFFICES ASSUME IInv, SingleInv, Trimmed(branch), [Next]_vars PROVE Trimmed(branch)'
    OBVIOUS
  <2>1. CASE UNCHANGED <<branch, first>>
    BY <2>1 DEF Trimmed
  <2>2. ASSUME NEW r \in Runs, PushLands(r), work[r] = Candidate(r, branch), ~AlreadyDone(r, branch)
        PROVE  Trimmed(branch)'
    <3>1. branch' = Candidate(r, branch)
      BY <2>2 DEF PushLands, Land
    <3>2. branch \in Snapshot /\ SnapOK(branch) /\ (r \in Proofs => slot[r] \in Slots)
      BY <2>2 DEF IInv, TypeOK, RunOK, PushLands
    <3>. DEFINE new == branch'
    <3>3. new = Candidate(r, branch)
      BY <3>1
    <3>. HIDE DEF new
    <3>4. Trimmed(new)
      BY <2>2, <3>2, <3>3, CandidateTrimmed
    <3>. QED
      BY <3>4 DEF new, Trimmed
  <2>. QED
    BY <2>1, <2>2, BranchMoves
<1>. QED
  BY <1>1, <1>2, SingleInvariant, PTL DEF Spec

\* What a run lands that was let through enters its proof, serves its slot or
\* changes nothing a reader sees.
LEMMA LandedEnters ==
  ASSUME NEW r \in Runs, branch \in Snapshot, SnapOK(branch), Trimmed(branch),
         OwnersOK(branch, Absent), ~AlreadyDone(r, branch),
         r \in Proofs \cup Masters => slot[r] \in Slots,
         branch' = Candidate(r, branch)
  PROVE  [Ledger!Next]_(Ledger!ledger)
<1> USE RunsAssumption, BoundsAssumption
<1>0. /\ branch.chat \in 0..MaxSlot /\ branch.oper \in 0..MaxSlot
      /\ branch.rows \in [Slots -> Row]
  BY DEF Snapshot, Row
<1>1. branch'.chat = LastProof(r, branch.chat) /\ branch'.oper = LastOperational(r, branch.oper)
  BY DEF Candidate
<1>2. branch'.rows =
        [t \in Slots |->
           IF t + Window <= branch'.chat THEN Absent
           ELSE IF r \in Proofs /\ t = slot[r] THEN r
           ELSE IF r \in Proofs /\ branch.chat # 0 /\ branch.chat < t /\ t < slot[r] THEN Missing
           ELSE branch.rows[t]]
  BY CandidateRows
<1>3. CASE r \in Proofs
  <2>1. slot[r] > branch.chat /\ branch'.chat = slot[r]
    BY <1>0, <1>1, <1>3 DEF AlreadyDone, LastProof, Later, Slots
  <2>2. \A t \in Slots : branch.rows[t] # r
    <3>1. branch.rows[slot[r]] = Absent
      BY <1>0, <1>3, <2>1 DEF SnapOK, Top, Slots
    <3>. QED
      BY <1>3, <3>1 DEF OwnersOK, Runs
  <2>3. branch'.oper = IF slot[r] > branch.oper THEN slot[r] ELSE branch.oper
    BY <1>0, <1>1, <1>3 DEF LastOperational, Later, Slots
  <2>4. branch'.rows = Ledger!Entered(slot[r], r)
    BY <1>2, <1>3, <2>1 DEF Ledger!Entered
  <2>5. Ledger!Prove(slot[r], r)
    BY <2>1, <2>2, <2>3, <2>4 DEF Ledger!Prove
  <2>. QED
    BY <1>3, <2>5 DEF Ledger!Next
<1>4. CASE r \notin Proofs
  <2>1. branch'.chat = branch.chat
    BY <1>1, <1>4 DEF LastProof
  <2>2. branch'.rows = branch.rows
    <3>1. ASSUME NEW t \in Slots PROVE branch'.rows[t] = branch.rows[t]
      BY <1>0, <1>2, <1>4, <2>1, <3>1 DEF Trimmed, Slots
    <3>2. branch'.rows = [t \in Slots |-> branch'.rows[t]]
      BY <1>2
    <3>. QED
      BY <1>0, <3>1, <3>2
  <2>3. CASE r \in Masters
    <3>1. slot[r] > branch.oper /\ branch'.oper = slot[r]
      BY <1>0, <1>1, <1>4, <2>3 DEF AlreadyDone, LastOperational, Later, Slots
    <3>. QED
      BY <2>1, <2>2, <2>3, <3>1 DEF Ledger!Next, Ledger!Serve
  <2>4. CASE r \notin Masters
    <3>1. branch'.oper = branch.oper
      BY <1>1, <1>4, <2>4 DEF LastOperational
    <3>. QED
      BY <2>1, <2>2, <3>1 DEF Ledger!ledger
  <2>. QED
    BY <2>3, <2>4
<1>. QED
  BY <1>3, <1>4

\* With one writer at a time, what is published is one ledger: proofs enter it in
\* the order of their slots, each once, and nothing but the window takes any away.
THEOREM OneLedger == ASSUME SingleWriter PROVE Spec => ImplementsLedger
<1>1. Init => Ledger!Init
  BY DEF Init, Ledger!Init, EmptySnapshot
<1>2. IInv /\ SingleInv /\ Trimmed(branch) /\ [Next]_vars => [Ledger!Next]_(Ledger!ledger)
  <2>. SUFFICES ASSUME IInv, SingleInv, Trimmed(branch), [Next]_vars
                PROVE  [Ledger!Next]_(Ledger!ledger)
    OBVIOUS
  <2>1. CASE UNCHANGED <<branch, first>>
    BY <2>1 DEF Ledger!ledger
  <2>2. ASSUME NEW r \in Runs, PushLands(r), work[r] = Candidate(r, branch), ~AlreadyDone(r, branch)
        PROVE  [Ledger!Next]_(Ledger!ledger)
    <3>1. branch' = Candidate(r, branch)
      BY <2>2 DEF PushLands, Land
    <3>2. /\ branch \in Snapshot /\ SnapOK(branch) /\ OwnersOK(branch, Absent)
          /\ r \in Proofs \cup Masters => slot[r] \in Slots
      BY <2>2 DEF IInv, TypeOK, RunOK, PushLands
    <3>. QED
      BY <2>2, <3>1, <3>2, LandedEnters
  <2>. QED
    BY <2>1, <2>2, BranchMoves
<1>. QED
  BY <1>1, <1>2, SingleInvariant, TrimmedHolds, PTL DEF Spec, ImplementsLedger, Ledger!Spec
=============================================================================
