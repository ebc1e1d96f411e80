----------------------- MODULE CredentialRotationProofs -----------------------
(***************************************************************************)
(* Proofs about CredentialRotation for every set of runs, every number of  *)
(* tokens and attempts, and any number of pushes and failures.             *)
(***************************************************************************)
EXTENDS CredentialRotation, TLAPS

(* The inductive invariant *)

\* A write v that would move the credential from its present version: a marker
\* claims exactly the READY token, a renewal or enrollment brings a token nobody
\* has claimed, and a renewal answers the grant of the claimed token.
WriteOK(v) ==
  /\ v.phase \in {"READY", "IN_FLIGHT"}
  /\ v.refresh \in 1..issued
  /\ v.phase = "IN_FLIGHT" =>
       cred.phase = "READY" /\ v.refresh = cred.refresh /\ v.txn \in Procs
  /\ v.phase = "READY" => claimant[v.refresh] = None
  /\ v.phase = "READY" /\ v.access = 0 => parent[v.refresh] = 0
  /\ v.phase = "READY" /\ v.access # 0 =>
       cred.phase = "IN_FLIGHT" /\ parent[v.refresh] = cred.refresh

\* A READY token is unclaimed, an IN_FLIGHT one claimed by its transaction.
StoreOK ==
  /\ cred.phase # "EMPTY" => cred.refresh \in 1..issued
  /\ cred.phase = "EMPTY" => cred.refresh = 0
  /\ cred.phase = "READY" => claimant[cred.refresh] = None
  /\ cred.phase = "IN_FLIGHT" =>
       cred.txn \in Procs /\ claimant[cred.refresh] = cred.txn

\* Tokens still to be issued have no history.
UnissuedOK == \A t \in Tokens : t > issued => claimant[t] = None /\ parent[t] = 0

WireOK == \A v \in wire : v.version = cred.version + 1 /\ WriteOK(v)

GlobalOK ==
  StoreOK /\ UnissuedOK /\ WireOK /\ MarkerBeforeGrant /\ GrantAtMostOnce

\* A proposal in compare_and_swap is of a past version, where it can only fail,
\* or a sound write; at the push it is sound if the fetched tip is still the tip.
ProposalOK(p) ==
  /\ pc[p] \in InCas =>
       /\ att[p] < CasAttempts
       /\ val[p].phase \in {"READY", "IN_FLIGHT"}
       /\ val[p].version <= cred.version + 1
       /\ val[p].version = cred.version + 1 => WriteOK(val[p])
  /\ pc[p] = "push" =>
       rev[p] <= head /\ (rev[p] = head => val[p].version = cred.version + 1)

\* A marker carries its own process; a process about to send a grant holds the
\* claim.
ClaimOK(p) ==
  /\ pc[p] \in {"idle", "load1", "load2"} => val[p].phase = "EMPTY"
  /\ pc[p] \in InCas \cup {"confirm"} /\ val[p].phase = "IN_FLIGHT" =>
       val[p].txn = p
  /\ pc[p] = "post" =>
       /\ val[p].phase = "IN_FLIGHT"
       /\ val[p].refresh \in 1..issued
       /\ claimant[val[p].refresh] = p
       /\ val[p].version <= cred.version
       /\ val[p].version = cred.version =>
            cred.phase = "IN_FLIGHT" /\ cred.refresh = val[p].refresh

\* Whoever has not sent its grant yet owns no token that was sent.
UnsentOK(p) ==
  pc[p] \notin Ended /\ val[p].phase # "READY" =>
    \A t \in Tokens : claimant[t] = p => posts[t] = 0

ProcOK(p) == ProposalOK(p) /\ ClaimOK(p) /\ UnsentOK(p)

IInv == TypeOK /\ GlobalOK /\ \A p \in Procs : ProcOK(p)

-----------------------------------------------------------------------------
(* Steps that leave the store alone, and steps that move its tip *)

Same(q) ==
  /\ pc'[q] = pc[q] /\ val'[q] = val[q] /\ rev'[q] = rev[q] /\ att'[q] = att[q]

\* A step in which no credential lands, and p alone may send a grant for a token
\* it claimed, keeps what is known of the store and of every other process.
LEMMA QuietStep ==
  ASSUME IInv, NEW p, UNCHANGED <<cred, claimant>>, head' \in {head, head + 1},
         \A v \in wire' : v \in wire \/ (v.version = cred.version + 1 /\ WriteOK(v)),
         issued' \in Nat, issued <= issued',
         \A t \in 1..issued : parent'[t] = parent[t],
         \A t \in Tokens : t > issued' => parent'[t] = 0,
         \A t \in Tokens : \/ posts'[t] = posts[t]
                           \/ claimant[t] = p /\ p # None /\ posts'[t] = 1
  PROVE  GlobalOK' /\ \A q \in Procs \ {p} : Same(q) => ProcOK(q)'
<1>0. /\ TypeOK /\ issued \in Nat /\ head \in Nat /\ rev \in [Procs -> Nat]
  BY DEF IInv, TypeOK
<1>a. StoreOK'
  BY <1>0 DEF IInv, GlobalOK, StoreOK, TypeOK, Tokens
<1>b. UnissuedOK'
  BY <1>0 DEF IInv, GlobalOK, UnissuedOK, Tokens
<1>c. MarkerBeforeGrant' /\ GrantAtMostOnce'
  BY <1>0 DEF IInv, GlobalOK, MarkerBeforeGrant, GrantAtMostOnce
<1>2. ASSUME NEW v, WriteOK(v) PROVE WriteOK(v)'
  BY <1>0, <1>2 DEF WriteOK
<1>3. WireOK'
  BY <1>2 DEF IInv, GlobalOK, WireOK
<1>4. ASSUME NEW q \in Procs \ {p}, Same(q) PROVE ProcOK(q)'
  <2>1. ProposalOK(q)'
    BY <1>0, <1>2, <1>4 DEF IInv, ProcOK, ProposalOK, Same, InCas
  <2>2. ClaimOK(q)'
    BY <1>0, <1>4 DEF IInv, ProcOK, ClaimOK, Same, InCas
  <2>3. UnsentOK(q)'
    BY <1>4 DEF IInv, ProcOK, UnsentOK, Same
  <2> QED BY <2>1, <2>2, <2>3 DEF ProcOK
<1> QED BY <1>a, <1>b, <1>c, <1>3, <1>4 DEF GlobalOK

\* When a sound write lands, the claims and the store stay sound, and every
\* process it does not move now holds a past version and a past tip.
LEMMA LandStep ==
  ASSUME IInv, NEW v \in Credential, WriteOK(v), v.version = cred.version + 1,
         Land(v), UNCHANGED <<issued, posts, parent>>
  PROVE  /\ GlobalOK'
         /\ \A q \in Procs : Same(q) => ProcOK(q)'
         /\ \A t \in Tokens : claimant[t] # None => claimant'[t] = claimant[t]
<1> USE ProcsAssumption, BoundsAssumption
<1>0. /\ issued \in 0..MaxTokens /\ claimant \in [Tokens -> Procs \cup {None}]
      /\ cred \in Credential /\ posts \in [Tokens -> Nat] /\ head \in Nat
      /\ v.refresh \in Tokens
  BY DEF IInv, TypeOK, Tokens, WriteOK
<1>1. CASE v.phase = "IN_FLIGHT"
  <2>1. /\ cred' = v /\ head' = head + 1 /\ wire' = {}
        /\ claimant' = [claimant EXCEPT ![v.refresh] = v.txn]
        /\ claimant[v.refresh] = None /\ v.txn \in Procs /\ posts[v.refresh] = 0
    BY <1>0, <1>1 DEF Land, WriteOK, IInv, GlobalOK, StoreOK, MarkerBeforeGrant
  <2>2. StoreOK' /\ WireOK'
    BY <1>0, <1>1, <2>1 DEF StoreOK, WireOK, WriteOK
  <2>3. UnissuedOK' /\ MarkerBeforeGrant' /\ GrantAtMostOnce'
    BY <1>0, <2>1 DEF IInv, GlobalOK, UnissuedOK, MarkerBeforeGrant,
                       GrantAtMostOnce, WriteOK
  <2>4. ASSUME NEW q \in Procs, Same(q) PROVE ProcOK(q)'
    <3>1. ProposalOK(q)'
      <4>1. ProposalOK(q) /\ val[q].version \in Nat /\ cred.version \in Nat
              /\ rev[q] \in Nat
        BY DEF IInv, ProcOK, TypeOK, Credential
      <4> QED BY <1>0, <2>1, <2>4, <4>1 DEF ProposalOK, Same, InCas
    <3>2. ClaimOK(q)'
      <4>1. ClaimOK(q) /\ val[q].version \in Nat /\ cred.version \in Nat
        BY DEF IInv, ProcOK, TypeOK, Credential
      <4> QED BY <1>0, <2>1, <2>4, <4>1 DEF ClaimOK, Same, InCas, Tokens
    <3>3. UnsentOK(q)'
      BY <1>0, <2>1, <2>4 DEF IInv, ProcOK, UnsentOK, Same
    <3> QED BY <3>1, <3>2, <3>3 DEF ProcOK
  <2> QED BY <1>0, <2>1, <2>2, <2>3, <2>4 DEF GlobalOK
<1>2. CASE v.phase = "READY"
  <2>1. cred' = v /\ head' = head + 1 /\ wire' = {} /\ claimant' = claimant
    BY <1>2 DEF Land
  <2>2. StoreOK' /\ WireOK'
    BY <1>0, <1>2, <2>1 DEF StoreOK, WireOK, WriteOK
  <2>3. UnissuedOK' /\ MarkerBeforeGrant' /\ GrantAtMostOnce'
    BY <2>1 DEF IInv, GlobalOK, UnissuedOK, MarkerBeforeGrant, GrantAtMostOnce
  <2>4. ASSUME NEW q \in Procs, Same(q) PROVE ProcOK(q)'
    <3>1. /\ ProcOK(q) /\ val[q].version \in Nat /\ cred.version \in Nat
          /\ rev[q] \in Nat
      BY DEF IInv, TypeOK, Credential
    <3>2. ProposalOK(q)'
      BY <1>0, <2>1, <2>4, <3>1 DEF ProcOK, ProposalOK, Same, InCas
    <3>3. ClaimOK(q)' /\ UnsentOK(q)'
      BY <1>0, <2>1, <2>4, <3>1 DEF ProcOK, ClaimOK, UnsentOK, Same, InCas
    <3> QED BY <3>2, <3>3 DEF ProcOK
  <2> QED BY <2>1, <2>2, <2>3, <2>4 DEF GlobalOK
<1> QED BY <1>1, <1>2 DEF WriteOK

-----------------------------------------------------------------------------
(* The invariant holds initially and is inductive *)

LEMMA InitIInv == Init => IInv
<1> SUFFICES ASSUME Init PROVE IInv
  OBVIOUS
<1> USE ProcsAssumption, BoundsAssumption DEF Init
<1>1. TypeOK
  BY DEF TypeOK, Credential, EmptyCredential, EnrolledCredential, Tokens, Procs,
         Locations, InCas, Ended
<1>2. GlobalOK
  BY DEF GlobalOK, StoreOK, UnissuedOK, WireOK, MarkerBeforeGrant, GrantAtMostOnce,
         EmptyCredential, EnrolledCredential, Tokens
<1>3. ASSUME NEW p \in Procs PROVE ProcOK(p)
  BY DEF ProcOK, ProposalOK, ClaimOK, UnsentOK, EmptyCredential, InCas, Ended
<1> QED BY <1>1, <1>2, <1>3 DEF IInv

\* The credentials the processes propose have the right type.
LEMMA ProposalTypes ==
  ASSUME NEW c \in Credential, NEW p \in Procs, NEW t \in Tokens
  PROVE  /\ Marker(p, c) \in Credential
         /\ Renewed(c, t) \in Credential
         /\ EnrolledCredential(c.version + 1, t) \in Credential
BY BoundsAssumption
   DEF Credential, Marker, Renewed, EnrolledCredential, Tokens


\* What a process at the POST or at the push holds.
LEMMA HeldTokens ==
  ASSUME IInv, NEW p \in Procs
  PROVE  /\ pc[p] = "post" => val[p].refresh \in Tokens
         /\ pc[p] = "push" => att[p] + 1 \in 0..CasAttempts
         /\ pc[p] = "push" /\ rev[p] = head => val[p].refresh \in Tokens
<1>1. /\ issued \in 0..MaxTokens /\ MaxTokens \in Nat /\ CasAttempts \in Nat
      /\ att[p] \in 0..CasAttempts /\ ProcOK(p)
      /\ \A n \in 1..issued : n \in Tokens
  BY BoundsAssumption DEF IInv, TypeOK, Tokens
<1>2. CASE pc[p] = "post"
  BY <1>1, <1>2 DEF ProcOK, ClaimOK
<1>3. CASE pc[p] = "push"
  <2>1. att[p] < CasAttempts /\ (rev[p] = head => WriteOK(val[p]))
    BY <1>1, <1>3 DEF ProcOK, ProposalOK, InCas
  <2> QED BY <1>1, <1>3, <2>1 DEF WriteOK
<1> QED BY <1>2, <1>3

LEMMA NextTypeOK == ASSUME IInv, [Next]_vars PROVE TypeOK'
<1> USE BoundsAssumption
<1>0. TypeOK /\ cred \in Credential /\ cred.access \in 0..MaxTokens
  BY DEF IInv, TypeOK, Credential
<1>1. CASE UNCHANGED vars
  BY <1>0, <1>1 DEF TypeOK, vars, store, local, history
<1>2. ASSUME NEW p \in Procs, Call(p) PROVE TypeOK'
  <2>1. CASE HourlyLoad(p) \/ InitialLoad(p)
    BY <1>0, <2>1
       DEF HourlyLoad, InitialLoad, Return, Goto, TypeOK, store, history, Locations,
           InCas, Ended
  <2>2. CASE LeasedLoad(p)
    <3>1. Marker(p, cred) \in Credential
      BY <1>0, MaxTokens \in Nat \ {0}, 1 \in Tokens, ProposalTypes DEF Tokens
    <3> QED BY <1>0, <2>2, <3>1
            DEF LeasedLoad, Return, Propose, Goto, TypeOK, store, history,
                Locations, InCas, Ended
  <2>3. CASE ConfirmMarker(p) \/ ConfirmRenewal(p) \/ HourlyReadback(p)
               \/ ConfirmEnrollment(p) \/ GitBlocked(p) \/ CasFetch(p)
    <3>1. val[p].access \in 0..MaxTokens
      BY <1>0 DEF TypeOK, Credential
    <3> QED BY <1>0, <2>3, <3>1
            DEF ConfirmMarker, ConfirmRenewal, HourlyReadback, ConfirmEnrollment,
                GitBlocked, CasFetch, Return, Goto, TypeOK, store, history,
                Locations, InCas, Ended
  <2>4. CASE GrantAnswered(p)
    <3>1. issued + 1 \in Tokens /\ val[p] \in Credential /\ val[p].refresh \in Tokens
      BY <1>0, <2>4, HeldTokens DEF GrantAnswered, TypeOK, Tokens
    <3>2. Renewed(val[p], issued + 1) \in Credential
      BY <3>1, ProposalTypes
    <3>3. issued' \in 0..MaxTokens
      BY <3>1, <2>4 DEF GrantAnswered, Tokens
    <3>4. posts' \in [Tokens -> Nat]
      BY <1>0, <3>1, <2>4 DEF GrantAnswered, TypeOK
    <3>7. parent' \in [Tokens -> 0..MaxTokens]
      <4>1. val[p].refresh \in 0..MaxTokens
        BY <3>1 DEF Credential
      <4> QED BY <1>0, <3>1, <2>4, <4>1 DEF GrantAnswered, TypeOK
    <3>5. age' \in [Tokens -> 0..2]
      BY <1>0, <3>1, <2>4 DEF GrantAnswered, TypeOK
    <3>6. /\ val' \in [Procs -> Credential] /\ att' \in [Procs -> 0..CasAttempts]
          /\ pc' \in [Procs -> Locations]
      BY <1>0, <3>1, <3>2, <2>4
         DEF GrantAnswered, Propose, Goto, TypeOK, Locations, InCas
    <3> QED BY <1>0, <2>4, <3>3, <3>4, <3>5, <3>6, <3>7
            DEF GrantAnswered, TypeOK, store
  <2>5. CASE GrantFailed(p)
    <3>1. val[p].refresh \in Tokens
      BY <2>5, HeldTokens DEF GrantFailed
    <3> QED BY <1>0, <2>5, <3>1 DEF GrantFailed, Goto, TypeOK, store, Locations, Ended
  <2>6. CASE PushLands(p)
    <3>1. /\ val[p] \in Credential /\ pc[p] = "push" /\ att[p] + 1 \in 0..CasAttempts
          /\ val[p].refresh \in Tokens
      BY <1>0, <2>6, HeldTokens DEF PushLands, TypeOK
    <3>2. val[p].txn \in Procs \cup {None}
      BY <3>1 DEF Credential
    <3>3. /\ head' \in Nat /\ cred' \in Credential /\ wire' \subseteq Credential
          /\ claimant' \in [Tokens -> Procs \cup {None}] /\ saved' \subseteq Tokens
      BY <1>0, <2>6, <3>1, <3>2 DEF PushLands, Land, TypeOK
    <3>4. pc' \in [Procs -> Locations] /\ att' \in [Procs -> 0..CasAttempts]
      BY <1>0, <2>6, <3>1
         DEF PushLands, Goto, AfterFailedPush, TypeOK, Locations, InCas, Ended
    <3> QED BY <1>0, <2>6, <3>3, <3>4 DEF PushLands, TypeOK
  <2>7. CASE PushRefused(p) \/ PushDelayed(p)
    <3>1. pc[p] = "push" /\ att[p] + 1 \in 0..CasAttempts /\ val[p] \in Credential
      BY <1>0, <2>7, HeldTokens DEF PushRefused, PushDelayed, TypeOK
    <3> QED BY <1>0, <2>7, <3>1
            DEF PushRefused, PushDelayed, Goto, AfterFailedPush, TypeOK, store,
                history, Locations, InCas, Ended
  <2>8. CASE EnrollLoad(p)
    <3>1. CASE UNCHANGED <<issued, val, att>> /\ Goto(p, "failed")
      BY <1>0, <2>8, <3>1
         DEF EnrollLoad, Goto, TypeOK, store, history, Locations, Ended
    <3>2. CASE /\ issued < MaxTokens /\ issued' = issued + 1
               /\ Propose(p, EnrolledCredential(cred.version + 1, issued + 1))
      <4>1. issued + 1 \in Tokens
        BY <1>0, <3>2 DEF TypeOK, Tokens
      <4>2. EnrolledCredential(cred.version + 1, issued + 1) \in Credential
        BY <1>0, <4>1, ProposalTypes
      <4>3. /\ val' \in [Procs -> Credential] /\ att' \in [Procs -> 0..CasAttempts]
            /\ pc' \in [Procs -> Locations]
        BY <1>0, <3>2, <4>2 DEF Propose, Goto, TypeOK, Locations, InCas
      <4>4. issued' \in 0..MaxTokens
        BY <3>2, <4>1 DEF Tokens
      <4>5. UNCHANGED <<store, age, rev, ret, history>>
        BY <2>8 DEF EnrollLoad
      <4> QED BY <1>0, <4>3, <4>4, <4>5 DEF TypeOK, store, history
    <3> QED BY <2>8, <3>1, <3>2 DEF EnrollLoad
  <2> QED BY <1>2, <2>1, <2>2, <2>3, <2>4, <2>5, <2>6, <2>7, <2>8 DEF Call
<1>3. ASSUME NEW p \in Procs, Crash(p) PROVE TypeOK'
  BY <1>0, <1>3 DEF Crash, Goto, TypeOK, store, history, Locations, Ended
<1>4. ASSUME NEW v \in wire, DelayedPushLands(v) PROVE TypeOK'
  <2>1. v \in Credential /\ v.refresh \in Tokens /\ v.txn \in Procs \cup {None}
    BY <1>0 DEF IInv, GlobalOK, WireOK, WriteOK, TypeOK, Credential, Tokens
  <2> QED BY <1>0, <1>4, <2>1 DEF DelayedPushLands, Land, TypeOK, local
<1>5. CASE OtherPublish
  BY <1>0, <1>5 DEF OtherPublish, TypeOK, local, history
<1>6. CASE Expire
  <2>1. cred.access \in Tokens
    BY <1>0, <1>6 DEF Expire, Tokens
  <2>2. age' \in [Tokens -> 0..2]
    BY <1>0, <1>6, <2>1 DEF Expire, TypeOK
  <2> QED BY <1>0, <1>6, <2>2 DEF Expire, TypeOK, store, local, history
<1> QED BY <1>1, <1>2, <1>3, <1>4, <1>5, <1>6 DEF Next

\* When one process moves by itself, only what is known of it is left to prove.
LEMMA OneMoves ==
  ASSUME IInv, TypeOK', NEW p \in Procs, \A q \in Procs \ {p} : Same(q), ProcOK(p)',
         UNCHANGED <<head, cred, issued, posts, claimant, parent>>,
         \A v \in wire' : v \in wire \/ (v.version = cred.version + 1 /\ WriteOK(v))
  PROVE  IInv'
<1>1. /\ issued \in Nat
      /\ \A t \in Tokens : t > issued => parent[t] = 0
  BY DEF IInv, GlobalOK, UnissuedOK, TypeOK
<1>2. GlobalOK' /\ \A q \in Procs \ {p} : Same(q) => ProcOK(q)'
  BY <1>1, QuietStep
<1> QED BY <1>2 DEF IInv

LEMMA NextIInv == ASSUME IInv, [Next]_vars PROVE IInv'
<1> USE ProcsAssumption, BoundsAssumption
<1>0. TypeOK' /\ TypeOK /\ GlobalOK /\ \A p \in Procs : ProcOK(p)
  BY NextTypeOK DEF IInv
<1>1. CASE UNCHANGED vars
  <2>1. /\ None \notin Procs /\ issued \in Nat
        /\ \A t \in Tokens : t > issued => parent[t] = 0
    BY <1>0 DEF GlobalOK, UnissuedOK, TypeOK
  <2>2. /\ UNCHANGED <<cred, issued, posts, claimant, parent>>
        /\ head' \in {head, head + 1} /\ wire' \subseteq wire
        /\ \A q \in Procs : Same(q)
    BY <1>1 DEF vars, store, local, history, Same
  <2>3. GlobalOK' /\ \A q \in Procs \ {None} : Same(q) => ProcOK(q)'
    BY <2>1, <2>2, QuietStep
  <2> QED BY <1>0, <2>1, <2>2, <2>3 DEF IInv
<1>2. ASSUME NEW p \in Procs, Call(p) PROVE IInv'
  <2>0. /\ pc \in [Procs -> Locations] /\ val \in [Procs -> Credential]
        /\ att \in [Procs -> 0..CasAttempts] /\ rev \in [Procs -> Nat]
        /\ cred \in Credential /\ cred.version \in Nat /\ head \in Nat
        /\ val[p].version \in Nat /\ issued \in 0..MaxTokens /\ ProcOK(p)
        /\ posts \in [Tokens -> Nat] /\ parent \in [Tokens -> 0..MaxTokens]
        /\ claimant \in [Tokens -> Procs \cup {None}]
    BY <1>0 DEF TypeOK, Credential
  <2>1. CASE HourlyLoad(p) \/ InitialLoad(p)
    <3>1. /\ UNCHANGED <<head, cred, wire, issued, posts, claimant, parent>>
          /\ \A q \in Procs \ {p} : Same(q)
          /\ val'[p] = val[p] /\ val[p].phase = "EMPTY" /\ pc[p] \notin Ended
          /\ pc'[p] \in {"load1", "load2", "after", "done", "failed"}
      BY <2>0, <2>1
         DEF HourlyLoad, InitialLoad, Return, Goto, Same, store, history, ProcOK,
             ClaimOK, Ended
    <3>2. ProcOK(p)'
      BY <2>0, <3>1 DEF ProcOK, ProposalOK, ClaimOK, UnsentOK, InCas, Ended
    <3> QED BY <1>0, <3>1, <3>2, OneMoves
  <2>2. CASE ConfirmRenewal(p) \/ HourlyReadback(p) \/ ConfirmEnrollment(p)
               \/ GitBlocked(p)
    <3>1. /\ UNCHANGED <<head, cred, wire, issued, posts, claimant, parent>>
          /\ \A q \in Procs \ {p} : Same(q)
          /\ val'[p] = val[p] /\ pc[p] \notin Ended
          /\ pc'[p] \in {"after", "done", "failed"}
      BY <2>0, <2>2
         DEF ConfirmRenewal, HourlyReadback, ConfirmEnrollment, GitBlocked, Return,
             Goto, Same, store, history, Ended, InCas
    <3>2. ProcOK(p)'
      BY <2>0, <3>1 DEF ProcOK, ProposalOK, ClaimOK, UnsentOK, InCas, Ended
    <3> QED BY <1>0, <3>1, <3>2, OneMoves
  <2>3. CASE LeasedLoad(p)
    <3>1. /\ UNCHANGED <<head, cred, wire, issued, posts, claimant, parent>>
          /\ \A q \in Procs \ {p} : Same(q)
          /\ val[p].phase = "EMPTY" /\ pc[p] \notin Ended
      BY <2>0, <2>3
         DEF LeasedLoad, Return, Propose, Goto, Same, store, history, ProcOK,
             ClaimOK, Ended
    <3>2. CASE pc'[p] \in {"after", "done", "failed"} /\ val'[p] = val[p]
      <4>1. ProcOK(p)'
        BY <2>0, <3>1, <3>2 DEF ProcOK, ProposalOK, ClaimOK, UnsentOK, InCas, Ended
      <4> QED BY <1>0, <3>1, <4>1, OneMoves
    <3>3. CASE cred.phase = "READY" /\ Propose(p, Marker(p, cred))
      <4>1. /\ val'[p] = Marker(p, cred) /\ pc'[p] = "fetch" /\ att'[p] = 0
        BY <2>0, <3>3 DEF Propose, Goto
      <4>2. /\ val'[p].phase = "IN_FLIGHT" /\ val'[p].version = cred.version + 1
            /\ val'[p].refresh = cred.refresh /\ val'[p].txn = p
        BY <4>1 DEF Marker
      <4>3. WriteOK(val[p])'
        BY <1>0, <3>1, <3>3, <4>2 DEF WriteOK, GlobalOK, StoreOK
      <4>4. ProcOK(p)'
        BY <2>0, <3>1, <4>1, <4>2, <4>3
           DEF ProcOK, ProposalOK, ClaimOK, UnsentOK, InCas, Ended
      <4> QED BY <1>0, <3>1, <4>4, OneMoves
    <3> QED BY <2>0, <2>3, <3>2, <3>3 DEF LeasedLoad, Return, Goto
  <2>4. CASE ConfirmMarker(p)
    <3>1. /\ UNCHANGED <<head, cred, wire, issued, posts, claimant, parent>>
          /\ \A q \in Procs \ {p} : Same(q)
          /\ val'[p] = val[p] /\ pc[p] = "confirm" /\ val[p].phase = "IN_FLIGHT"
          /\ \/ pc'[p] = "failed"
             \/ /\ pc'[p] = "post" /\ cred.version = val[p].version
                /\ cred.phase = "IN_FLIGHT" /\ cred.txn = val[p].txn
                /\ cred.refresh = val[p].refresh
      BY <2>0, <2>4 DEF ConfirmMarker, Goto, Same, store, history
    <3>2. ProcOK(p)'
      BY <1>0, <2>0, <3>1
         DEF ProcOK, ProposalOK, ClaimOK, UnsentOK, InCas, Ended, GlobalOK, StoreOK
    <3> QED BY <1>0, <3>1, <3>2, OneMoves
  <2>5. CASE CasFetch(p)
    <3>1. /\ UNCHANGED <<head, cred, wire, issued, posts, claimant, parent>>
          /\ \A q \in Procs \ {p} : Same(q)
          /\ val'[p] = val[p] /\ att'[p] = att[p] /\ pc[p] = "fetch"
          /\ \/ pc'[p] \in {"confirm", "failed"}
             \/ /\ pc'[p] = "push" /\ cred.version + 1 = val[p].version
                /\ rev'[p] = head
      BY <2>0, <2>5 DEF CasFetch, Goto, Same, store, history
    <3>2. WriteOK(val[p]) => WriteOK(val[p])'
      BY <3>1 DEF WriteOK
    <3>3. ProcOK(p)'
      BY <2>0, <3>1, <3>2 DEF ProcOK, ProposalOK, ClaimOK, UnsentOK, InCas, Ended
    <3> QED BY <1>0, <3>1, <3>3, OneMoves
  <2>6. CASE PushRefused(p)
    <3>1. /\ UNCHANGED <<head, cred, wire, issued, posts, claimant, parent>>
          /\ \A q \in Procs \ {p} : Same(q)
          /\ val'[p] = val[p] /\ att'[p] = att[p] + 1 /\ pc[p] = "push"
          /\ \/ pc'[p] = "failed"
             \/ pc'[p] = "fetch" /\ att[p] + 1 < CasAttempts
      BY <2>0, <2>6 DEF PushRefused, AfterFailedPush, Goto, Same, store, history
    <3>2. WriteOK(val[p]) => WriteOK(val[p])'
      BY <3>1 DEF WriteOK
    <3>3. ProcOK(p)'
      BY <2>0, <3>1, <3>2 DEF ProcOK, ProposalOK, ClaimOK, UnsentOK, InCas, Ended
    <3> QED BY <1>0, <3>1, <3>3, OneMoves
  <2>7. CASE PushLands(p)
    <3>1. /\ Land(val[p]) /\ UNCHANGED <<issued, posts, parent>>
          /\ \A q \in Procs \ {p} : Same(q)
          /\ val'[p] = val[p] /\ pc[p] = "push" /\ rev[p] = head
          /\ pc'[p] \in {"confirm", "fetch", "failed"}
          /\ pc'[p] = "fetch" => att'[p] = att[p] + 1 /\ att'[p] < CasAttempts
      BY <2>0, <2>7 DEF PushLands, AfterFailedPush, Goto, Same
    <3>2. WriteOK(val[p]) /\ val[p].version = cred.version + 1
      BY <2>0, <3>1 DEF ProcOK, ProposalOK, InCas
    <3>3. val[p] \in Credential /\ cred' = val[p]
      BY <2>0, <3>1 DEF Land
    <3>4. ASSUME NEW t \in Tokens, val[p].phase = "IN_FLIGHT", claimant'[t] = p
          PROVE  posts[t] = 0
      <4>1. claimant[cred.refresh] = None /\ val[p].refresh = cred.refresh
        BY <1>0, <3>2, <3>4 DEF GlobalOK, StoreOK, WriteOK
      <4>2. claimant[t] = p \/ claimant[t] = None
        BY <2>0, <3>1, <3>4, <4>1 DEF Land
      <4> QED BY <1>0, <2>0, <3>1, <3>4, <4>2
              DEF GlobalOK, MarkerBeforeGrant, ProcOK, UnsentOK, Ended
    <3>5. ProcOK(p)'
      BY <2>0, <3>1, <3>2, <3>3, <3>4
         DEF ProcOK, ProposalOK, ClaimOK, UnsentOK, InCas, Ended
    <3> QED BY <1>0, <3>1, <3>2, <3>3, <3>5, LandStep DEF IInv
  <2>8. CASE PushDelayed(p)
    <3>1. /\ UNCHANGED <<head, cred, issued, posts, claimant, parent>>
          /\ wire' = wire \cup {val[p]} /\ pc[p] = "push" /\ rev[p] = head
          /\ \A q \in Procs \ {p} : Same(q)
          /\ val'[p] = val[p] /\ att'[p] = att[p] + 1
          /\ \/ pc'[p] = "failed"
             \/ pc'[p] = "fetch" /\ att[p] + 1 < CasAttempts
      BY <2>0, <2>8 DEF PushDelayed, AfterFailedPush, Goto, Same, history
    <3>2. WriteOK(val[p]) /\ val[p].version = cred.version + 1
      BY <2>0, <3>1 DEF ProcOK, ProposalOK, InCas
    <3>3. WriteOK(val[p])'
      BY <3>1, <3>2 DEF WriteOK
    <3>4. ProcOK(p)'
      BY <2>0, <3>1, <3>3 DEF ProcOK, ProposalOK, ClaimOK, UnsentOK, InCas, Ended
    <3> QED BY <1>0, <3>1, <3>2, <3>4, OneMoves
  <2>9. CASE GrantFailed(p)
    <3>1. /\ UNCHANGED <<head, cred, wire, issued, claimant, parent>>
          /\ \A q \in Procs \ {p} : Same(q)
          /\ posts' = [posts EXCEPT ![val[p].refresh] = @ + 1]
          /\ val'[p] = val[p] /\ pc[p] = "post" /\ pc'[p] = "failed"
      BY <2>0, <2>9 DEF GrantFailed, Goto, Same, store, history
    <3>2. posts[val[p].refresh] = 0 /\ claimant[val[p].refresh] = p /\ p # None
      BY <2>0, <3>1 DEF ProcOK, ClaimOK, UnsentOK, Ended, Tokens
    <3>3. \A t \in Tokens : \/ posts'[t] = posts[t]
                            \/ claimant[t] = p /\ p # None /\ posts'[t] = 1
      BY <2>0, <3>1, <3>2
    <3>4. \A t \in Tokens : t > issued => parent[t] = 0
      BY <1>0 DEF GlobalOK, UnissuedOK
    <3>5. GlobalOK' /\ \A q \in Procs \ {p} : Same(q) => ProcOK(q)'
      BY <2>0, <3>1, <3>3, <3>4, QuietStep
    <3>6. ProcOK(p)'
      BY <2>0, <3>1 DEF ProcOK, ProposalOK, ClaimOK, UnsentOK, InCas, Ended
    <3> QED BY <1>0, <3>1, <3>5, <3>6 DEF IInv
  <2>10. CASE GrantAnswered(p)
    <3> DEFINE new == issued + 1
    <3>1. /\ UNCHANGED <<head, cred, wire, claimant>>
          /\ \A q \in Procs \ {p} : Same(q)
          /\ posts' = [posts EXCEPT ![val[p].refresh] = @ + 1]
          /\ pc[p] = "post" /\ new \in Tokens /\ issued' = new
          /\ parent' = [parent EXCEPT ![new] = val[p].refresh]
          /\ val'[p] = Renewed(val[p], new) /\ pc'[p] = "fetch" /\ att'[p] = 0
      BY <2>0, <2>10 DEF GrantAnswered, Propose, Goto, Same, store, Tokens
    <3>2. posts[val[p].refresh] = 0 /\ claimant[val[p].refresh] = p /\ p # None
      BY <2>0, <2>10 DEF GrantAnswered, ProcOK, ClaimOK
    <3>3. \A t \in Tokens : \/ posts'[t] = posts[t]
                            \/ claimant[t] = p /\ p # None /\ posts'[t] = 1
      BY <2>0, <3>1, <3>2
    <3>4. /\ \A t \in 1..issued : parent'[t] = parent[t]
          /\ \A t \in Tokens : t > issued' => parent'[t] = 0
          /\ parent'[new] = val[p].refresh /\ claimant[new] = None
      <4>1. \A t \in Tokens : t > issued => claimant[t] = None /\ parent[t] = 0
        BY <1>0 DEF GlobalOK, UnissuedOK
      <4>2. \A t \in Tokens : t > issued' => t > issued /\ t # new
        BY <2>0, <3>1 DEF Tokens
      <4>3. \A t \in 1..issued : t # new
        BY <2>0
      <4> QED BY <2>0, <3>1, <4>1, <4>2, <4>3
    <3>5. GlobalOK' /\ \A q \in Procs \ {p} : Same(q) => ProcOK(q)'
      <4>1. issued' \in Nat /\ issued <= issued'
        BY <2>0, <3>1
      <4> QED BY <3>1, <3>3, <3>4, <4>1, QuietStep
    <3>6. /\ val'[p].version = val[p].version + 1 /\ val'[p].phase = "READY"
          /\ val'[p].refresh = new /\ val'[p].access = new
      BY <3>1 DEF Renewed
    <3>7. ASSUME val'[p].version = cred.version + 1 PROVE WriteOK(val[p])'
      BY <2>0, <3>1, <3>4, <3>6, <3>7 DEF WriteOK, ProcOK, ClaimOK
    <3>8. ProcOK(p)'
      BY <2>0, <3>1, <3>6, <3>7 DEF ProcOK, ProposalOK, ClaimOK, UnsentOK, InCas, Ended
    <3> QED BY <1>0, <3>1, <3>5, <3>8 DEF IInv
  <2>11. CASE EnrollLoad(p)
    <3>1. CASE UNCHANGED <<issued, val, att>> /\ Goto(p, "failed")
      <4>1. /\ UNCHANGED <<head, cred, wire, issued, posts, claimant, parent>>
            /\ \A q \in Procs \ {p} : Same(q)
            /\ val'[p] = val[p] /\ pc'[p] = "failed"
        BY <2>0, <2>11, <3>1 DEF EnrollLoad, Goto, Same, store, history
      <4>2. ProcOK(p)'
        BY <2>0, <4>1 DEF ProcOK, ProposalOK, ClaimOK, UnsentOK, InCas, Ended
      <4> QED BY <1>0, <4>1, <4>2, OneMoves
    <3>2. CASE /\ issued < MaxTokens /\ issued' = issued + 1
               /\ Propose(p, EnrolledCredential(cred.version + 1, issued + 1))
      <4>1. /\ UNCHANGED <<cred, posts, claimant, parent>>
            /\ head' \in {head, head + 1} /\ wire' \subseteq wire
            /\ \A q \in Procs \ {p} : Same(q)
            /\ issued' = issued + 1 /\ issued + 1 \in Tokens
            /\ val'[p] = EnrolledCredential(cred.version + 1, issued + 1)
            /\ pc'[p] = "fetch" /\ att'[p] = 0
        BY <2>0, <2>11, <3>2
           DEF EnrollLoad, Propose, Goto, Same, store, history, Tokens
      <4>2. /\ \A t \in Tokens : t > issued' => parent'[t] = 0
            /\ parent[issued + 1] = 0 /\ claimant[issued + 1] = None
        <5>1. \A t \in Tokens : t > issued => claimant[t] = None /\ parent[t] = 0
          BY <1>0 DEF GlobalOK, UnissuedOK
        <5>2. \A t \in Tokens : t > issued' => t > issued
          BY <2>0, <4>1 DEF Tokens
        <5> QED BY <2>0, <4>1, <5>1, <5>2
      <4>3. GlobalOK' /\ \A q \in Procs \ {p} : Same(q) => ProcOK(q)'
        <5>1. issued' \in Nat /\ issued <= issued' /\ UNCHANGED <<cred, claimant>>
          BY <2>0, <4>1
        <5>2. \A t \in 1..issued : parent'[t] = parent[t]
          BY <4>1
        <5>3. \A t \in Tokens : posts'[t] = posts[t]
          BY <4>1
        <5> QED BY <4>1, <4>2, <5>1, <5>2, <5>3, QuietStep
      <4>4. WriteOK(val[p])' /\ val'[p].version = cred.version + 1
              /\ val'[p].phase = "READY"
        BY <2>0, <4>1, <4>2 DEF WriteOK, EnrolledCredential
      <4>5. ProcOK(p)'
        BY <2>0, <4>1, <4>4
           DEF ProcOK, ProposalOK, ClaimOK, UnsentOK, InCas, Ended
      <4> QED BY <1>0, <4>1, <4>3, <4>5 DEF IInv
    <3> QED BY <2>11, <3>1, <3>2 DEF EnrollLoad
  <2> QED BY <1>2, <2>1, <2>2, <2>3, <2>4, <2>5, <2>6, <2>7, <2>8, <2>9, <2>10,
             <2>11 DEF Call
<1>3. ASSUME NEW p \in Procs, Crash(p) PROVE IInv'
  <2>1. /\ UNCHANGED <<head, cred, wire, issued, posts, claimant, parent>>
        /\ \A q \in Procs \ {p} : Same(q)
        /\ pc'[p] = "crashed"
    BY <1>0, <1>3 DEF Crash, Goto, Same, store, history, TypeOK
  <2>2. ProcOK(p)'
    BY <1>0, <2>1 DEF ProcOK, ProposalOK, ClaimOK, UnsentOK, InCas, Ended
  <2> QED BY <1>0, <2>1, <2>2, OneMoves
<1>4. ASSUME NEW v \in wire, DelayedPushLands(v) PROVE IInv'
  <2>1. /\ v \in Credential /\ WriteOK(v) /\ v.version = cred.version + 1
        /\ Land(v) /\ UNCHANGED <<issued, posts, parent>>
        /\ \A q \in Procs : Same(q)
    BY <1>0, <1>4 DEF DelayedPushLands, GlobalOK, WireOK, TypeOK, local, Same
  <2> QED BY <1>0, <2>1, LandStep DEF IInv
<1>5. CASE OtherPublish \/ Expire
  <2>1. /\ UNCHANGED <<cred, issued, posts, claimant, parent>>
        /\ head' \in {head, head + 1} /\ wire' \subseteq wire
        /\ \A q \in Procs : Same(q)
    BY <1>5 DEF OtherPublish, Expire, store, local, history, Same
  <2>2. /\ None \notin Procs /\ issued \in Nat
        /\ \A t \in Tokens : t > issued => parent[t] = 0
    BY <1>0 DEF GlobalOK, UnissuedOK, TypeOK
  <2>3. GlobalOK' /\ \A q \in Procs \ {None} : Same(q) => ProcOK(q)'
    BY <2>1, <2>2, QuietStep
  <2> QED BY <1>0, <2>1, <2>2, <2>3 DEF IInv
<1> QED BY <1>1, <1>2, <1>3, <1>4, <1>5 DEF Next

THEOREM InductiveInvariant == Spec => []IInv
<1>1. Init => IInv
  BY InitIInv
<1>2. IInv /\ [Next]_vars => IInv'
  BY NextIInv
<1> QED BY <1>1, <1>2, PTL DEF Spec

-----------------------------------------------------------------------------
(* What follows *)

\* Every variable keeps its type, for every set of runs and every bound.
THEOREM TypeCorrect == Spec => []TypeOK
<1>1. IInv => TypeOK
  BY DEF IInv
<1> QED BY <1>1, InductiveInvariant, PTL

\* No refresh token is ever sent to the provider twice.
THEOREM NoReplay == Spec => []GrantAtMostOnce
<1>1. IInv => GrantAtMostOnce
  BY DEF IInv, GlobalOK
<1> QED BY <1>1, InductiveInvariant, PTL

\* A grant follows its durable marker.
THEOREM MarkedGrants == Spec => []MarkerBeforeGrant
<1>1. IInv => MarkerBeforeGrant
  BY DEF IInv, GlobalOK
<1> QED BY <1>1, InductiveInvariant, PTL

-----------------------------------------------------------------------------
(* What a caller is given is durable *)

\* An access token in a proposal is durable already or comes with it.
AccessOK(v) ==
  v.access # 0 => v.access \in saved \/ (v.phase = "READY" /\ v.access = v.refresh)

StoredOK ==
  /\ cred.phase = "READY" => cred.refresh \in saved
  /\ cred.access # 0 => cred.access \in saved
  /\ \A v \in wire : AccessOK(v)

\* A renewal or enrollment at its confirmation has landed; an owner's run only
\* ever proposes an enrollment.
HeldOK(p) ==
  /\ AccessOK(val[p])
  /\ ret[p] # 0 => ret[p] \in saved
  /\ pc[p] = "confirm" /\ val[p].phase = "READY" => val[p].refresh \in saved
  /\ p \in Owners =>
       /\ pc[p] \in {"idle", "confirm"} \cup InCas \cup Ended
       /\ pc[p] \in InCas \cup {"confirm"} => val[p].phase = "READY"
       /\ pc[p] = "done" => val[p].refresh \in saved

DurableInv == TypeOK /\ StoredOK /\ \A p \in Procs : HeldOK(p)

\* What has been durable stays so, whatever the other runs do.
LEMMA HeldStays ==
  ASSUME NEW p, HeldOK(p), saved \subseteq saved',
         pc'[p] = pc[p], val'[p] = val[p], ret'[p] = ret[p]
  PROVE  HeldOK(p)'
BY DEF HeldOK, AccessOK

\* A sound proposal that lands makes its tokens durable.
LEMMA LandStored ==
  ASSUME StoredOK, NEW v, AccessOK(v), Land(v)
  PROVE  StoredOK' /\ saved \subseteq saved'
           /\ (v.phase = "READY" => v.refresh \in saved')
BY DEF StoredOK, AccessOK, Land

LEMMA DurableStep == ASSUME DurableInv, TypeOK', [Next]_vars PROVE DurableInv'
<1> USE ProcsAssumption
<1>0. /\ StoredOK /\ \A q \in Procs : HeldOK(q)
      /\ pc \in [Procs -> Locations] /\ val \in [Procs -> Credential]
      /\ ret \in [Procs -> 0..MaxTokens] /\ att \in [Procs -> 0..CasAttempts]
  BY DEF DurableInv, TypeOK
<1>1. CASE UNCHANGED vars
  BY <1>0, <1>1
     DEF DurableInv, StoredOK, HeldOK, AccessOK, vars, store, local, history
<1>2. ASSUME NEW p \in Procs, Call(p) PROVE DurableInv'
  <2>1. ASSUME UNCHANGED <<cred, saved>>, wire' \subseteq wire \cup {val[p]}
        PROVE  StoredOK'
    BY <1>0, <2>1 DEF StoredOK, HeldOK, AccessOK
  <2>2. ASSUME saved \subseteq saved',
               \A q \in Procs \ {p} : pc'[q] = pc[q] /\ val'[q] = val[q] /\ ret'[q] = ret[q]
        PROVE  \A q \in Procs \ {p} : HeldOK(q)'
    BY <1>0, <2>2, HeldStays
  <2>3. CASE HourlyLoad(p) \/ InitialLoad(p)
    <3>1. /\ UNCHANGED <<cred, saved, wire, val>> /\ p \in Workers
          /\ \A q \in Procs \ {p} : pc'[q] = pc[q] /\ ret'[q] = ret[q]
          /\ pc'[p] # "confirm" /\ ret'[p] \in {ret[p], cred.access}
      BY <1>0, <2>3
         DEF HourlyLoad, InitialLoad, Return, Goto, store, history, Workers
    <3>2. HeldOK(p)'
      BY <1>0, <3>1 DEF HeldOK, AccessOK, StoredOK
    <3> QED BY <2>1, <2>2, <3>1, <3>2 DEF DurableInv
  <2>4. CASE LeasedLoad(p)
    <3>1. p \in Workers
      BY <1>0, <2>4 DEF LeasedLoad, HeldOK, InCas, Ended, Procs
    <3>2. /\ UNCHANGED <<cred, saved, wire>>
          /\ \A q \in Procs \ {p} : pc'[q] = pc[q] /\ val'[q] = val[q] /\ ret'[q] = ret[q]
          /\ pc'[p] # "confirm" /\ ret'[p] \in {ret[p], cred.access}
          /\ val'[p] \in {val[p], Marker(p, cred)}
      BY <1>0, <2>4 DEF LeasedLoad, Return, Propose, Goto, store, history
    <3>3. HeldOK(p)'
      BY <1>0, <3>1, <3>2 DEF HeldOK, AccessOK, StoredOK, Marker
    <3> QED BY <2>1, <2>2, <3>2, <3>3 DEF DurableInv
  <2>5. CASE ConfirmMarker(p) \/ GrantFailed(p) \/ HourlyReadback(p)
               \/ PushRefused(p) \/ PushDelayed(p) \/ GitBlocked(p)
    <3>1. /\ UNCHANGED <<cred, saved, val, ret>> /\ wire' \subseteq wire \cup {val[p]}
          /\ \A q \in Procs \ {p} : pc'[q] = pc[q]
          /\ pc'[p] # "confirm" /\ (pc'[p] = "done" => pc[p] = "after")
          /\ pc'[p] \in {"post", "fetch", "done", "failed"}
          /\ pc'[p] = "post" => pc[p] = "confirm" /\ val[p].phase = "IN_FLIGHT"
          /\ pc'[p] = "fetch" => pc[p] = "push"
      BY <1>0, <2>5
         DEF ConfirmMarker, GrantFailed, HourlyReadback, PushRefused, PushDelayed,
             GitBlocked, Goto, AfterFailedPush, store, history
    <3>2. HeldOK(p)'
      BY <1>0, <3>1 DEF HeldOK, AccessOK, InCas, Ended
    <3> QED BY <2>1, <2>2, <3>1, <3>2 DEF DurableInv
  <2>6. CASE GrantAnswered(p)
    <3>1. /\ UNCHANGED <<cred, saved, wire, ret>> /\ pc[p] = "post"
          /\ \A q \in Procs \ {p} : pc'[q] = pc[q] /\ val'[q] = val[q]
          /\ pc'[p] = "fetch" /\ val'[p] = Renewed(val[p], issued + 1)
      BY <1>0, <2>6 DEF GrantAnswered, Propose, Goto, store
    <3>2. HeldOK(p)'
      BY <1>0, <3>1 DEF HeldOK, AccessOK, Renewed, InCas, Ended
    <3> QED BY <2>1, <2>2, <3>1, <3>2 DEF DurableInv
  <2>7. CASE ConfirmRenewal(p)
    <3>1. /\ UNCHANGED <<cred, saved, wire, val>> /\ p \in Workers
          /\ \A q \in Procs \ {p} : pc'[q] = pc[q] /\ ret'[q] = ret[q]
          /\ pc'[p] # "confirm" /\ ret'[p] \in {ret[p], cred.access}
      BY <1>0, <2>7 DEF ConfirmRenewal, Return, Goto, store, history
    <3>2. HeldOK(p)'
      BY <1>0, <3>1 DEF HeldOK, AccessOK, StoredOK
    <3> QED BY <2>1, <2>2, <3>1, <3>2 DEF DurableInv
  <2>8. CASE CasFetch(p) \/ ConfirmEnrollment(p)
    <3>1. /\ UNCHANGED <<cred, saved, wire, val, ret>>
          /\ \A q \in Procs \ {p} : pc'[q] = pc[q]
          /\ \/ pc'[p] = "push" /\ pc[p] = "fetch"
             \/ pc'[p] = "failed"
             \/ pc'[p] = "confirm" /\ cred = val[p] /\ pc[p] = "fetch"
             \/ pc'[p] = "done" /\ pc[p] = "confirm"
      BY <1>0, <2>8 DEF CasFetch, ConfirmEnrollment, Goto, store, history
    <3>2. HeldOK(p)'
      BY <1>0, <3>1 DEF HeldOK, AccessOK, StoredOK, InCas, Ended
    <3> QED BY <2>1, <2>2, <3>1, <3>2 DEF DurableInv
  <2>9. CASE PushLands(p)
    <3>1. /\ Land(val[p]) /\ UNCHANGED <<val, ret>> /\ pc[p] = "push"
          /\ \A q \in Procs \ {p} : pc'[q] = pc[q]
          /\ pc'[p] \in {"confirm", "fetch", "failed"}
      BY <1>0, <2>9 DEF PushLands, Goto, AfterFailedPush
    <3>2. /\ StoredOK' /\ saved \subseteq saved'
          /\ val[p].phase = "READY" => val[p].refresh \in saved'
      BY <1>0, <3>1, LandStored DEF HeldOK
    <3>3. HeldOK(p)'
      BY <1>0, <3>1, <3>2 DEF HeldOK, AccessOK, InCas, Ended
    <3> QED BY <2>2, <3>1, <3>2, <3>3 DEF DurableInv
  <2>10. CASE EnrollLoad(p)
    <3>1. /\ UNCHANGED <<cred, saved, wire, ret>>
          /\ \A q \in Procs \ {p} : pc'[q] = pc[q] /\ val'[q] = val[q]
          /\ \/ /\ pc'[p] = "fetch"
                /\ val'[p] = EnrolledCredential(cred.version + 1, issued + 1)
             \/ pc'[p] = "failed" /\ val'[p] = val[p]
      BY <1>0, <2>10 DEF EnrollLoad, Propose, Goto, store, history
    <3>2. HeldOK(p)'
      BY <1>0, <3>1 DEF HeldOK, AccessOK, EnrolledCredential, InCas, Ended
    <3> QED BY <2>1, <2>2, <3>1, <3>2 DEF DurableInv
  <2> QED BY <1>2, <2>3, <2>4, <2>5, <2>6, <2>7, <2>8, <2>9, <2>10 DEF Call
<1>3. ASSUME NEW p \in Procs, Crash(p) PROVE DurableInv'
  <2>1. /\ UNCHANGED <<cred, wire, saved, val, ret>> /\ pc'[p] = "crashed"
        /\ \A q \in Procs \ {p} : pc'[q] = pc[q]
    BY <1>0, <1>3 DEF Crash, Goto, store, history
  <2> QED BY <1>0, <2>1 DEF DurableInv, StoredOK, HeldOK, AccessOK, InCas, Ended
<1>4. ASSUME NEW v \in wire, DelayedPushLands(v) PROVE DurableInv'
  <2>1. AccessOK(v) /\ Land(v) /\ UNCHANGED <<pc, val, ret>>
    BY <1>0, <1>4 DEF StoredOK, DelayedPushLands, local
  <2> QED BY <1>0, <2>1, LandStored, HeldStays DEF DurableInv
<1>5. CASE OtherPublish \/ Expire
  <2>1. UNCHANGED <<cred, saved, pc, val, ret>> /\ wire' \subseteq wire
    BY <1>5 DEF OtherPublish, Expire, store, local, history
  <2> QED BY <1>0, <2>1 DEF DurableInv, StoredOK, HeldOK, AccessOK
<1> QED BY <1>1, <1>2, <1>3, <1>4, <1>5 DEF Next

LEMMA DurableInvariant == Spec => []DurableInv
<1>1. Init /\ TypeOK => DurableInv
  <2> SUFFICES ASSUME Init, TypeOK PROVE StoredOK /\ \A p \in Procs : HeldOK(p)
    BY DEF DurableInv
  <2>1. StoredOK
    BY DEF Init, StoredOK, EmptyCredential, EnrolledCredential
  <2>2. ASSUME NEW p \in Procs PROVE HeldOK(p)
    BY DEF Init, HeldOK, AccessOK, EmptyCredential, InCas, Ended
  <2> QED BY <2>1, <2>2
<1>2. DurableInv /\ TypeOK' /\ [Next]_vars => DurableInv'
  BY DurableStep
<1> QED BY <1>1, <1>2, TypeCorrect, PTL DEF Spec

\* Every access token a run is handed, and every enrollment reported as
\* persisted, belongs to a refresh token that has been durable in READY.
THEOREM DurableReturns == Spec => []ReturnedIsDurable
<1>1. DurableInv => ReturnedIsDurable
  BY DEF DurableInv, HeldOK, ReturnedIsDurable, Procs
<1> QED BY <1>1, DurableInvariant, PTL

-----------------------------------------------------------------------------
(* A renewal is lost only to contention *)

\* The tip moves with the credential or with a foreign push, and with nothing
\* else.
TipOK == head = cred.version + published

\* As long as nothing has overtaken a renewal that is not durable yet, each push
\* attempt it has used was paid for by a foreign push: by one before the tip it
\* fetched when it is about to push.
PaidOK(p) ==
  val[p].phase = "READY" /\ val[p].refresh \notin saved =>
    /\ pc[p] \notin {"confirm", "after"}
    /\ cred.version < val[p].version =>
         /\ pc[p] = "fetch" => att[p] <= published
         /\ pc[p] = "push" => att[p] + val[p].version <= rev[p] + 1
         /\ pc[p] = "failed" => CasAttempts <= published

PaidInv == TipOK /\ (~GitFaults => \A p \in Workers : PaidOK(p))

\* What was paid for stays so while the others move.
LEMMA PaidStays ==
  ASSUME TypeOK, TypeOK', NEW q \in Procs, PaidOK(q), Same(q), saved \subseteq saved',
         published <= published', cred.version <= cred'.version
  PROVE  PaidOK(q)'
<1>1. /\ published \in Nat /\ published' \in Nat /\ cred.version \in Nat
      /\ cred'.version \in Nat /\ val[q].version \in Nat /\ att[q] \in Nat
      /\ CasAttempts \in Nat
  BY BoundsAssumption DEF TypeOK, Credential
<1> QED BY <1>1 DEF PaidOK, Same

\* A foreign push or a credential that lands moves the tip by one.
LEMMA TipStep == ASSUME IInv, TipOK, [Next]_vars
                 PROVE  TipOK' /\ saved \subseteq saved'
                          /\ published <= published' /\ cred.version <= cred'.version
<1>0. /\ cred.version \in Nat /\ published \in Nat /\ head \in Nat
      /\ \A p \in Procs : ProcOK(p)
  BY DEF IInv, TypeOK, Credential
<1>1. ASSUME NEW v, v.version = cred.version + 1, Land(v), published' = published
      PROVE  TipOK' /\ saved \subseteq saved'
               /\ published <= published' /\ cred.version <= cred'.version
  BY <1>0, <1>1 DEF TipOK, Land
<1>2. ASSUME UNCHANGED <<head, cred, published, saved>>
      PROVE  TipOK' /\ saved \subseteq saved'
               /\ published <= published' /\ cred.version <= cred'.version
  BY <1>0, <1>2 DEF TipOK
<1>3. CASE UNCHANGED vars
  BY <1>2, <1>3 DEF vars, store, history
<1>4. ASSUME NEW p \in Procs, PushLands(p)
      PROVE  val[p].version = cred.version + 1 /\ Land(val[p]) /\ published' = published
  BY <1>0, <1>4 DEF PushLands, ProcOK, ProposalOK
<1>5. ASSUME NEW p \in Procs, Call(p), ~PushLands(p)
      PROVE  UNCHANGED <<head, cred, published, saved>>
  BY <1>5
     DEF Call, HourlyLoad, InitialLoad, LeasedLoad, ConfirmMarker, GrantAnswered,
         GrantFailed, ConfirmRenewal, HourlyReadback, CasFetch, PushRefused,
         PushDelayed, EnrollLoad, ConfirmEnrollment, GitBlocked, store, history
<1>6. ASSUME NEW p \in Procs, Crash(p) PROVE UNCHANGED <<head, cred, published, saved>>
  BY <1>6 DEF Crash, store, history
<1>7. ASSUME NEW v \in wire, DelayedPushLands(v)
      PROVE  v.version = cred.version + 1 /\ Land(v) /\ published' = published
  BY <1>7 DEF DelayedPushLands, IInv, GlobalOK, WireOK
<1>8. CASE OtherPublish
  BY <1>0, <1>8 DEF OtherPublish, TipOK, history
<1>9. CASE Expire
  BY <1>2, <1>9 DEF Expire, store, history
<1> QED BY <1>1, <1>2, <1>3, <1>4, <1>5, <1>6, <1>7, <1>8, <1>9 DEF Next

\* A worker's own step keeps its account: a refused push was refused because the
\* tip had moved, and unless the credential moved, a foreign push moved it.
LEMMA PaidOwnStep ==
  ASSUME IInv, IInv', DurableInv, TipOK, ~GitFaults,
         NEW p \in Workers, PaidOK(p), Call(p) \/ Crash(p)
  PROVE  PaidOK(p)'
<1> USE ProcsAssumption, BoundsAssumption
<1>0. /\ pc \in [Procs -> Locations] /\ val \in [Procs -> Credential]
      /\ att \in [Procs -> 0..CasAttempts] /\ rev \in [Procs -> Nat]
      /\ cred \in Credential /\ cred.version \in Nat /\ head \in Nat
      /\ published \in Nat /\ val[p].version \in Nat /\ p \in Procs
      /\ att[p] \in Nat /\ rev[p] \in Nat /\ p \notin Owners
      /\ ProcOK(p) /\ HeldOK(p) /\ StoredOK
  BY DEF IInv, TypeOK, Credential, DurableInv, Procs
<1>1. CASE HourlyLoad(p) \/ InitialLoad(p)
  <2>1. /\ val'[p] = val[p] /\ val[p].phase = "EMPTY"
    BY <1>0, <1>1 DEF HourlyLoad, InitialLoad, ProcOK, ClaimOK
  <2> QED BY <2>1 DEF PaidOK
<1>2. CASE LeasedLoad(p)
  <2>1. val'[p].phase # "READY"
    BY <1>0, <1>2 DEF LeasedLoad, Propose, Marker, ProcOK, ClaimOK
  <2> QED BY <2>1 DEF PaidOK
<1>3. CASE ConfirmMarker(p) \/ GrantFailed(p)
  <2>1. val'[p] = val[p] /\ val[p].phase = "IN_FLIGHT"
    BY <1>0, <1>3 DEF ConfirmMarker, GrantFailed, ProcOK, ClaimOK
  <2> QED BY <2>1 DEF PaidOK
<1>4. CASE GrantAnswered(p)
  <2>1. pc'[p] = "fetch" /\ att'[p] = 0 /\ published' = published
    BY <1>0, <1>4 DEF GrantAnswered, Propose, Goto, store
  <2> QED BY <1>0, <2>1 DEF PaidOK
<1>5. CASE ConfirmRenewal(p) \/ HourlyReadback(p)
  <2>1. val'[p] = val[p] /\ saved' = saved /\ pc[p] \in {"confirm", "after"}
    BY <1>0, <1>5 DEF ConfirmRenewal, HourlyReadback, history
  <2> QED BY <2>1 DEF PaidOK
<1>6. CASE CasFetch(p)
  <2>1. /\ UNCHANGED <<head, cred, published, saved, val, att>> /\ pc[p] = "fetch"
        /\ \/ cred.version + 1 = val[p].version /\ pc'[p] = "push" /\ rev'[p] = head
           \/ cred.version + 1 # val[p].version /\ pc'[p] = "failed"
           \/ cred = val[p] /\ pc'[p] = "confirm"
    BY <1>0, <1>6 DEF CasFetch, Goto, store, history
  <2>2. val[p].version <= cred.version + 1
    BY <1>0, <2>1 DEF ProcOK, ProposalOK, InCas
  <2>3. CASE cred = val[p]
    BY <1>0, <2>1, <2>3 DEF StoredOK, PaidOK
  <2>4. CASE cred.version + 1 # val[p].version
    BY <1>0, <2>1, <2>2, <2>3, <2>4 DEF PaidOK
  <2>5. CASE cred.version + 1 = val[p].version /\ pc'[p] = "push" /\ rev'[p] = head
    BY <1>0, <2>1, <2>5 DEF PaidOK, TipOK
  <2> QED BY <2>1, <2>3, <2>4, <2>5
<1>7. CASE PushLands(p)
  <2>1. val'[p] = val[p] /\ (val[p].phase = "READY" => val[p].refresh \in saved')
    BY <1>7 DEF PushLands, Land
  <2> QED BY <2>1 DEF PaidOK
<1>8. CASE PushRefused(p)
  <2>1. /\ UNCHANGED <<head, cred, published, saved, val>> /\ pc[p] = "push"
        /\ rev[p] # head /\ att'[p] = att[p] + 1
        /\ \/ pc'[p] = "fetch"
           \/ pc'[p] = "failed" /\ CasAttempts <= att[p] + 1
    BY <1>0, <1>8 DEF PushRefused, AfterFailedPush, Goto, store, history
  <2>2. rev[p] < head /\ val[p].version <= cred.version + 1
    BY <1>0, <2>1 DEF ProcOK, ProposalOK, InCas
  <2>3. ASSUME cred.version < val[p].version, att[p] + val[p].version <= rev[p] + 1
        PROVE  att[p] + 1 <= published
    BY <1>0, <2>2, <2>3 DEF TipOK
  <2> QED BY <1>0, <2>1, <2>3 DEF PaidOK
<1>9. CASE PushDelayed(p) \/ GitBlocked(p)
  BY <1>9 DEF PushDelayed, GitBlocked
<1>10. CASE EnrollLoad(p) \/ ConfirmEnrollment(p)
  BY <1>0, <1>10 DEF EnrollLoad, ConfirmEnrollment
<1>11. CASE Crash(p)
  <2>1. pc'[p] = "crashed" /\ val'[p] = val[p] /\ saved' = saved
    BY <1>0, <1>11 DEF Crash, Goto, history
  <2> QED BY <2>1 DEF PaidOK
<1> QED BY <1>1, <1>2, <1>3, <1>4, <1>5, <1>6, <1>7, <1>8, <1>9, <1>10, <1>11 DEF Call

LEMMA PaidStep ==
  ASSUME IInv, IInv', DurableInv, PaidInv, [Next]_vars PROVE PaidInv'
<1>1. /\ TipOK' /\ saved \subseteq saved'
      /\ published <= published' /\ cred.version <= cred'.version
  BY TipStep DEF PaidInv
<1>2. ASSUME ~GitFaults, NEW q \in Workers PROVE PaidOK(q)'
  <2>0. PaidOK(q) /\ TipOK /\ q \in Procs /\ TypeOK /\ TypeOK'
    BY <1>2 DEF PaidInv, Procs, IInv
  <2>1. CASE Call(q) \/ Crash(q)
    BY <1>2, <2>0, <2>1, PaidOwnStep
  <2>2. CASE Same(q)
    BY <1>1, <2>0, <2>2, PaidStays
  <2>3. Call(q) \/ Crash(q) \/ Same(q)
    <3>1. ASSUME NEW p \in Procs \ {q}, Call(p) \/ Crash(p) PROVE Same(q)
      BY <2>0, <3>1
         DEF Call, Crash, HourlyLoad, InitialLoad, LeasedLoad, ConfirmMarker,
             GrantAnswered, GrantFailed, ConfirmRenewal, HourlyReadback, CasFetch,
             PushLands, PushRefused, PushDelayed, EnrollLoad, ConfirmEnrollment,
             GitBlocked, Propose, Return, Goto, TypeOK, Same
    <3>2. ASSUME NEW v \in wire, DelayedPushLands(v) PROVE Same(q)
      BY <3>2 DEF DelayedPushLands, local, Same
    <3>3. CASE OtherPublish \/ Expire \/ UNCHANGED vars
      BY <3>3 DEF OtherPublish, Expire, vars, local, Same
    <3> QED BY <3>1, <3>2, <3>3 DEF Next
  <2> QED BY <2>1, <2>2, <2>3
<1> QED BY <1>1, <1>2 DEF PaidInv

\* When Git itself does not fail, compare_and_swap gives a renewal up only to an
\* enrollment that overtook it or after CasAttempts foreign pushes.
THEOREM LostToContention == Spec => []LostOnlyToContention
<1>1. Init /\ TypeOK => PaidInv
  <2> SUFFICES ASSUME Init, TypeOK PROVE TipOK /\ \A p \in Workers : PaidOK(p)
    BY DEF PaidInv
  <2>1. TipOK
    BY DEF Init, TipOK, TypeOK, EmptyCredential, EnrolledCredential
  <2>2. ASSUME NEW p \in Workers PROVE PaidOK(p)
    BY DEF Init, PaidOK, EmptyCredential, Procs
  <2> QED BY <2>1, <2>2
<1>2. IInv /\ IInv' /\ DurableInv /\ PaidInv /\ [Next]_vars => PaidInv'
  BY PaidStep
<1>3. TypeOK /\ PaidInv => LostOnlyToContention
  <2> SUFFICES ASSUME TypeOK, PaidInv, ~GitFaults, NEW p \in Workers, pc[p] = "failed",
                      val[p].phase = "READY", val[p].refresh \notin saved
               PROVE  cred.version >= val[p].version \/ published >= CasAttempts
    BY DEF LostOnlyToContention
  <2>1. p \in Procs /\ PaidOK(p)
    BY DEF PaidInv, Procs
  <2>2. /\ cred.version \in Nat /\ val[p].version \in Nat /\ published \in Nat
        /\ CasAttempts \in Nat
    BY <2>1, BoundsAssumption DEF TypeOK, Credential
  <2> QED BY <2>1, <2>2 DEF PaidOK
<1> QED BY <1>1, <1>2, <1>3, InductiveInvariant, TypeCorrect, DurableInvariant, PTL
        DEF Spec

-----------------------------------------------------------------------------
(* Every step as the abstract protocol sees it *)

\* A step lands a sound write, sends a grant, or changes nothing that
\* OneShotGrant or the lineage of the credential speaks of.
LEMMA StepKinds ==
  ASSUME IInv, [Next]_vars
  PROVE  \/ UNCHANGED <<cred, claimant, posts, parent>>
         \/ \E v \in Credential :
              /\ WriteOK(v) /\ v.version = cred.version + 1
              /\ Land(v) /\ UNCHANGED <<posts, parent>>
         \/ \E p \in Procs : GrantAnswered(p) \/ GrantFailed(p)
<1>0. TypeOK /\ GlobalOK /\ \A p \in Procs : ProcOK(p)
  BY DEF IInv
<1>1. CASE UNCHANGED vars
  BY <1>1 DEF vars, store, history
<1>2. ASSUME NEW p \in Procs, Call(p)
      PROVE  \/ UNCHANGED <<cred, claimant, posts, parent>>
             \/ PushLands(p) \/ GrantAnswered(p) \/ GrantFailed(p)
  BY <1>2
     DEF Call, HourlyLoad, InitialLoad, LeasedLoad, ConfirmMarker, ConfirmRenewal,
         HourlyReadback, CasFetch, PushRefused, PushDelayed, EnrollLoad,
         ConfirmEnrollment, GitBlocked, store, history
<1>3. ASSUME NEW p \in Procs, PushLands(p)
      PROVE  /\ val[p] \in Credential
             /\ WriteOK(val[p]) /\ val[p].version = cred.version + 1
             /\ Land(val[p]) /\ UNCHANGED <<posts, parent>>
  BY <1>0, <1>3 DEF PushLands, ProcOK, ProposalOK, TypeOK, InCas
<1>4. ASSUME NEW p \in Procs, Crash(p) PROVE UNCHANGED <<cred, claimant, posts, parent>>
  BY <1>4 DEF Crash, store, history
<1>5. ASSUME NEW v \in wire, DelayedPushLands(v)
      PROVE  /\ v \in Credential
             /\ WriteOK(v) /\ v.version = cred.version + 1
             /\ Land(v) /\ UNCHANGED <<posts, parent>>
  BY <1>0, <1>5 DEF DelayedPushLands, GlobalOK, WireOK, TypeOK
<1>6. CASE OtherPublish \/ Expire
  BY <1>6 DEF OtherPublish, Expire, store, history
<1> QED BY <1>1, <1>2, <1>3, <1>4, <1>5, <1>6 DEF Next

\* The stored credential changes only along its lineage: no stale, crashed or
\* delayed writer undoes a claim, a renewal or an enrollment.
THEOREM LineageKept == Spec => CredentialLineage
<1>1. IInv /\ [Next]_vars =>
        [cred' # cred =>
          /\ cred'.version = cred.version + 1
          /\ \/ /\ cred.phase = "READY" /\ cred'.phase = "IN_FLIGHT"
                /\ cred'.refresh = cred.refresh
             \/ /\ cred.phase = "IN_FLIGHT" /\ cred'.phase = "READY"
                /\ parent[cred'.refresh] = cred.refresh
             \/ /\ cred'.phase = "READY" /\ cred'.access = 0
                /\ parent[cred'.refresh] = 0]_vars
  <2> SUFFICES ASSUME IInv, [Next]_vars, cred' # cred
               PROVE  \E v \in Credential :
                        WriteOK(v) /\ v.version = cred.version + 1 /\ cred' = v
    BY DEF WriteOK
  <2>1. ASSUME NEW p \in Procs, GrantAnswered(p) \/ GrantFailed(p)
        PROVE  cred' = cred
    BY <2>1 DEF GrantAnswered, GrantFailed, store
  <2> QED BY <2>1, StepKinds DEF Land
<1> QED BY <1>1, InductiveInvariant, PTL DEF Spec, CredentialLineage

\* The runs, the Git store and its faults implement the one-shot grant.
THEOREM Refinement == Spec => ImplementsOneShot
<1> USE ProcsAssumption, BoundsAssumption
<1>1. Init => OneShot!Init
  BY DEF Init, OneShot!Init, EmptyCredential, EnrolledCredential, Tokens
<1>2. IInv /\ [Next]_vars => [OneShot!Next]_(OneShot!vars)
  <2> SUFFICES ASSUME IInv, [Next]_vars PROVE [OneShot!Next]_(OneShot!vars)
    OBVIOUS
  <2>0. TypeOK /\ GlobalOK /\ \A p \in Procs : ProcOK(p)
    BY DEF IInv
  <2>1. CASE UNCHANGED <<cred, claimant, posts, parent>>
    BY <2>1 DEF OneShot!vars
  <2>2. ASSUME NEW v \in Credential, WriteOK(v), v.version = cred.version + 1,
               Land(v), UNCHANGED <<posts, parent>>
        PROVE  OneShot!Next
    <3>1. /\ v.refresh \in Tokens
          /\ v.phase = "READY" => claimant[v.refresh] = None
          /\ cred' = v /\ claimant \in [Tokens -> Procs \cup {None}]
          /\ posts \in [Tokens -> Nat]
      <4>1. issued \in 0..MaxTokens /\ v.refresh \in 1..issued
        BY <2>0, <2>2 DEF WriteOK, TypeOK
      <4>2. v.refresh \in Tokens
        BY <4>1 DEF Tokens
      <4>3. v.phase = "READY" => claimant[v.refresh] = None
        BY <2>2 DEF WriteOK
      <4> QED BY <2>0, <2>2, <4>2, <4>3 DEF Land, TypeOK
    <3>2. \A t \in Tokens : claimant[t] = None => OneShot!Fresh(t)
      BY <2>0, <3>1 DEF OneShot!Fresh, GlobalOK, MarkerBeforeGrant
    <3>3. CASE v.phase = "READY"
      <4>1. OneShot!Hold(v.refresh)
        BY <2>2, <3>1, <3>2, <3>3 DEF OneShot!Hold, Land
      <4>2. CASE v.access = 0
        BY <2>2, <3>1, <3>3, <4>1, <4>2 DEF OneShot!Next, OneShot!Enroll, WriteOK
      <4>3. CASE v.access # 0
        BY <2>2, <3>1, <3>3, <4>1, <4>3 DEF OneShot!Next, OneShot!Replace, WriteOK
      <4> QED BY <4>2, <4>3
    <3>4. CASE v.phase = "IN_FLIGHT"
      <4>1. /\ cred.phase = "READY" /\ cred.refresh = v.refresh /\ v.txn # None
            /\ claimant[cred.refresh] = None
        BY <2>0, <2>2, <3>4 DEF WriteOK, GlobalOK, StoreOK
      <4>2. claimant' = [claimant EXCEPT ![cred.refresh] = v.txn]
        BY <2>2, <3>4, <4>1 DEF Land
      <4>3. {t \in Tokens : claimant'[t] # None}
              = {t \in Tokens : claimant[t] # None} \cup {cred.refresh}
        BY <3>1, <4>1, <4>2
      <4> QED BY <2>2, <3>1, <3>2, <3>4, <4>1, <4>3
              DEF OneShot!Next, OneShot!Claim
    <3> QED BY <2>2, <3>3, <3>4 DEF WriteOK
  <2>3. ASSUME NEW p \in Procs, GrantAnswered(p) \/ GrantFailed(p)
        PROVE  OneShot!Next
    <3> DEFINE old == val[p].refresh
    <3>1. /\ pc[p] = "post" /\ old \in Tokens /\ claimant[old] = p /\ p # None
          /\ posts \in [Tokens -> Nat] /\ posts[old] = 0
          /\ issued \in 0..MaxTokens
          /\ claimant \in [Tokens -> Procs \cup {None}]
          /\ parent \in [Tokens -> 0..MaxTokens]
      <4>1. pc[p] = "post" /\ ProcOK(p)
        BY <2>0, <2>3 DEF GrantAnswered, GrantFailed
      <4>2. /\ val[p].phase = "IN_FLIGHT" /\ old \in 1..issued
            /\ claimant[old] = p
        BY <4>1 DEF ProcOK, ClaimOK
      <4>3. issued \in 0..MaxTokens
        BY <2>0 DEF TypeOK
      <4>4. old \in Tokens
        BY <4>2, <4>3 DEF Tokens
      <4>5. posts[old] = 0
        BY <4>1, <4>2, <4>4 DEF ProcOK, UnsentOK, Ended
      <4> QED BY <2>0, <4>1, <4>2, <4>3, <4>4, <4>5 DEF TypeOK
    <3>2. /\ posts' = [posts EXCEPT ![old] = @ + 1]
          /\ UNCHANGED <<cred, claimant>>
      BY <2>3 DEF GrantAnswered, GrantFailed, store
    <3>3. {t \in Tokens : posts'[t] > 0} = {t \in Tokens : posts[t] > 0} \cup {old}
      BY <3>1, <3>2
    <3>4. old \in {t \in Tokens : claimant[t] # None} \ {t \in Tokens : posts[t] > 0}
      BY <3>1
    <3>5. CASE GrantFailed(p)
      <4>1. UNCHANGED parent
        BY <3>5 DEF GrantFailed
      <4> QED BY <3>2, <3>3, <3>4, <4>1 DEF OneShot!Next, OneShot!Use
    <3>6. CASE GrantAnswered(p)
      <4> DEFINE new == issued + 1
      <4>1. new \in Tokens /\ parent' = [parent EXCEPT ![new] = old]
        BY <3>1, <3>6 DEF GrantAnswered, Tokens
      <4>2. claimant[new] = None /\ parent[new] = 0 /\ posts[new] = 0
        BY <2>0, <3>1, <4>1 DEF GlobalOK, UnissuedOK, MarkerBeforeGrant
      <4>4. new # cred.refresh
        BY <2>0, <3>1 DEF GlobalOK, StoreOK
      <4>3. OneShot!Fresh(new)
        BY <4>1, <4>2 DEF OneShot!Fresh
      <4> QED BY <3>2, <3>3, <3>4, <4>1, <4>2, <4>3, <4>4
              DEF OneShot!Next, OneShot!Use
    <3> QED BY <2>3, <3>5, <3>6
  <2> QED BY <2>1, <2>2, <2>3, StepKinds
<1> QED BY <1>1, <1>2, InductiveInvariant, PTL DEF Spec, ImplementsOneShot, OneShot!Spec
===============================================================================
