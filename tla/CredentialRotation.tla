-------------------------- MODULE CredentialRotation --------------------------
(***************************************************************************)
(* The rotating OIDC credential of the private plane: an encrypted         *)
(* credential file in a Git repository, and the workflow runs that read    *)
(* it, claim its one-use refresh token, send the grant and write back the  *)
(* replacement.                                                            *)
(*                                                                         *)
(* Sources: runtime_v6/domains/acquisition/rotating_oidc.py and            *)
(* git_oidc_store.py, report_plane/oidc_hourly_renewal.py.                 *)
(*                                                                         *)
(* A process is one call in one workflow run: a report prefetch calling    *)
(* get_access_token, an hourly maintenance calling check_hourly, or the    *)
(* owner calling enroll_once.  A rerun is another process.  A token is a   *)
(* number, 0 the empty string; a grant's access and refresh token carry    *)
(* the same number.  A transaction id is the process that drew it.         *)
(***************************************************************************)
EXTENDS Integers, FiniteSets

CONSTANTS
  Prefetch,     \* calls of get_access_token() with the default 90 s window
  Hourly,       \* calls of check_hourly(), which renews 15 minutes early
  Owners,       \* calls of enroll_once()
  None,         \* the empty transaction id
  CasAttempts,  \* range(4) in compare_and_swap
  MaxTokens,    \* bound: tokens the provider issues
  MaxPublish,   \* bound: pushes of publishers that do not touch the credential
  GitFaults,    \* whether Git operations may fail, time out or be delayed
  Crashes       \* whether a run may be killed between two steps

Workers == Prefetch \cup Hourly
Procs == Workers \cup Owners
Tokens == 1..MaxTokens

ASSUME ProcsAssumption ==
  /\ None \notin Procs
  /\ Workers \cap Owners = {}
  /\ Prefetch \cap Hourly = {}
ASSUME BoundsAssumption ==
  /\ CasAttempts \in Nat \ {0}
  /\ MaxTokens \in Nat \ {0}
  /\ MaxPublish \in Nat
  /\ GitFaults \in BOOLEAN
  /\ Crashes \in BOOLEAN

VARIABLES
  head,       \* number of the commit at the tip of origin/main
  cred,       \* the credential in that commit
  wire,       \* credentials whose push onto the tip timed out but may still land
  published,  \* pushes by publishers that leave the credential alone
  issued,     \* number of tokens the provider has issued
  age,        \* per access token: 0 = over 15 min left, 1 = over 90 s, 2 = less
  pc,         \* where each process is
  val,        \* the credential a process last proposed to compare_and_swap
  rev,        \* the tip compare_and_swap fetched
  att,        \* push attempts compare_and_swap has used
  ret,        \* the access token get_access_token returned
  posts,      \* history: grants sent per refresh token
  claimant,   \* history: the process whose IN_FLIGHT commit claimed the token
  parent,     \* history: the token whose grant issued this one (0: a login)
  saved       \* history: refresh tokens that have been durable in READY

store   == <<head, cred, wire, published>>
local   == <<pc, val, rev, att, ret>>
history == <<posts, claimant, parent, saved>>
vars    == <<store, issued, age, local, history>>

Credential ==
  [version : Nat, phase : {"EMPTY", "READY", "IN_FLIGHT"},
   refresh : 0..MaxTokens, access : 0..MaxTokens, txn : Procs \cup {None}]

\* What _read returns when the credential file does not exist.
EmptyCredential ==
  [version |-> 0, phase |-> "EMPTY", refresh |-> 0, access |-> 0, txn |-> None]

\* What enroll_once proposes: READY, no access token yet.
EnrolledCredential(version, token) ==
  [version |-> version, phase |-> "READY", refresh |-> token, access |-> 0,
   txn |-> None]

\* replace(current, phase="IN_FLIGHT", transaction_id=...), at the next version.
Marker(p, current) ==
  [version |-> current.version + 1, phase |-> "IN_FLIGHT",
   refresh |-> current.refresh, access |-> current.access, txn |-> p]

\* replace(marked, phase="READY", ...) with the tokens of the reply.
Renewed(marked, token) ==
  [version |-> marked.version + 1, phase |-> "READY", refresh |-> token,
   access |-> token, txn |-> None]

Ended == {"done", "failed", "crashed"}
InCas == {"fetch", "push"}
Locations == {"idle", "load1", "load2", "confirm", "post", "after"}
               \cup InCas \cup Ended

TypeOK ==
  /\ head \in Nat /\ published \in Nat
  /\ cred \in Credential
  /\ wire \subseteq Credential
  /\ issued \in 0..MaxTokens
  /\ age \in [Tokens -> 0..2]
  /\ pc \in [Procs -> Locations]
  /\ val \in [Procs -> Credential]
  /\ rev \in [Procs -> Nat]
  /\ att \in [Procs -> 0..CasAttempts]
  /\ ret \in [Procs -> 0..MaxTokens]
  /\ posts \in [Tokens -> Nat]
  /\ claimant \in [Tokens -> Procs \cup {None}]
  /\ parent \in [Tokens -> 0..MaxTokens]
  /\ saved \subseteq Tokens

\* The store is either empty or was enrolled before the first call modelled.
Init ==
  /\ \/ cred = EmptyCredential /\ issued = 0 /\ saved = {}
     \/ cred = EnrolledCredential(1, 1) /\ issued = 1 /\ saved = {1}
  /\ head = cred.version
  /\ wire = {}
  /\ published = 0
  /\ age = [t \in Tokens |-> 0]
  /\ pc = [p \in Procs |-> "idle"]
  /\ val = [p \in Procs |-> EmptyCredential]
  /\ rev = [p \in Procs |-> 0]
  /\ att = [p \in Procs |-> 0]
  /\ ret = [p \in Procs |-> 0]
  /\ posts = [t \in Tokens |-> 0]
  /\ claimant = [t \in Tokens |-> None]
  /\ parent = [t \in Tokens |-> 0]

-----------------------------------------------------------------------------
(* Helpers *)

Goto(p, l) == pc' = [pc EXCEPT ![p] = l]

\* access_token and expires_at > clock() + refresh_before_seconds.
Reusable(p, c) ==
  /\ c.access # 0
  /\ age[c.access] < (IF p \in Hourly THEN 1 ELSE 2)

\* get_access_token returns: to the caller, or to the rest of check_hourly.
Return(p, token) ==
  /\ ret' = [ret EXCEPT ![p] = token]
  /\ Goto(p, IF p \in Hourly THEN "after" ELSE "done")

\* Entering compare_and_swap with the credential v.
Propose(p, v) ==
  /\ val' = [val EXCEPT ![p] = v]
  /\ att' = [att EXCEPT ![p] = 0]
  /\ Goto(p, "fetch")

\* Mutant: late pushes are rebased onto the new tip instead of refused.
Land_Rebased(v) ==
  /\ head' = head + 1
  /\ cred' = v
  /\ wire' = wire \ {v}
  /\ claimant' = IF v.phase = "IN_FLIGHT"
                 THEN [claimant EXCEPT ![v.refresh] = v.txn] ELSE claimant
  /\ saved' = IF v.phase = "READY" THEN saved \cup {v.refresh} ELSE saved

\* A commit that holds v becomes the tip; pushes onto the old tip are now
\* not fast-forward and can no longer land.
Land(v) ==
  /\ head' = head + 1
  /\ cred' = v
  /\ wire' = {}
  /\ claimant' = IF v.phase = "IN_FLIGHT"
                 THEN [claimant EXCEPT ![v.refresh] = v.txn] ELSE claimant
  /\ saved' = IF v.phase = "READY" THEN saved \cup {v.refresh} ELSE saved

\* Mutants: one attempt too few, one too many.
AfterFailedPush_Short(p) == IF att[p] + 2 < CasAttempts THEN "fetch" ELSE "failed"
AfterFailedPush_Long(p) == IF att[p] < CasAttempts THEN "fetch" ELSE "failed"

\* for attempt in range(4): the next attempt, or PERSISTENCE_UNCERTAIN.
AfterFailedPush(p) == IF att[p] + 1 < CasAttempts THEN "fetch" ELSE "failed"

-----------------------------------------------------------------------------
(* get_access_token and check_hourly *)

\* check_hourly: before = store.load(), its phase and reuse tests.
HourlyLoad(p) ==
  /\ p \in Hourly /\ pc[p] = "idle"
  /\ \/ cred.phase # "READY" /\ Goto(p, "failed")
     \/ cred.phase = "READY" /\ Reusable(p, cred) /\ Goto(p, "done")
     \/ cred.phase = "READY" /\ ~Reusable(p, cred) /\ Goto(p, "load1")
  /\ UNCHANGED <<store, issued, age, val, rev, att, ret, history>>

\* get_access_token: initial = store.load() and its two early exits.
InitialLoad(p) ==
  /\ \/ p \in Prefetch /\ pc[p] = "idle"
     \/ p \in Hourly /\ pc[p] = "load1"
  /\ \/ cred.phase # "READY" /\ Goto(p, "failed") /\ UNCHANGED ret
     \/ cred.phase = "READY" /\ Reusable(p, cred) /\ Return(p, cred.access)
     \/ /\ cred.phase = "READY" /\ ~Reusable(p, cred)
        /\ Goto(p, "load2")
        /\ UNCHANGED ret
  /\ UNCHANGED <<store, issued, age, val, rev, att, history>>

\* Under the lease, which locks nothing: load again, then propose the marker.
LeasedLoad(p) ==
  /\ pc[p] = "load2"
  /\ \/ cred.phase # "READY" /\ Goto(p, "failed") /\ UNCHANGED <<ret, val, att>>
     \/ /\ cred.phase = "READY" /\ Reusable(p, cred)
        /\ Return(p, cred.access)
        /\ UNCHANGED <<val, att>>
     \/ /\ cred.phase = "READY" /\ ~Reusable(p, cred)
        /\ Propose(p, Marker(p, cred))
        /\ UNCHANGED ret
  /\ UNCHANGED <<store, issued, age, rev, history>>

\* confirmed = store.load() after the marker: only the exact claim goes on.
ConfirmMarker(p) ==
  /\ pc[p] = "confirm" /\ val[p].phase = "IN_FLIGHT"
  /\ IF /\ cred.version = val[p].version
        /\ cred.phase = "IN_FLIGHT"
        /\ cred.txn = val[p].txn
        /\ cred.refresh = val[p].refresh
     THEN Goto(p, "post") ELSE Goto(p, "failed")
  /\ UNCHANGED <<store, issued, age, val, rev, att, ret, history>>

\* Mutant: the access token is returned before the replacement is written back.
GrantAnswered_Unsaved(p) ==
  /\ pc[p] = "post" /\ posts[val[p].refresh] = 0 /\ issued < MaxTokens
  /\ posts' = [posts EXCEPT ![val[p].refresh] = @ + 1]
  /\ issued' = issued + 1
  /\ parent' = [parent EXCEPT ![issued + 1] = val[p].refresh]
  /\ Return(p, issued + 1)
  /\ UNCHANGED <<store, age, val, rev, att, claimant, saved>>

\* The provider honours the grant and its reply arrives: propose the renewal.
GrantAnswered(p) ==
  /\ pc[p] = "post"
  /\ LET old == val[p].refresh
         new == issued + 1
     IN  /\ posts[old] = 0 /\ issued < MaxTokens
         /\ posts' = [posts EXCEPT ![old] = @ + 1]
         /\ issued' = new
         /\ parent' = [parent EXCEPT ![new] = old]
         /\ \E a \in 0..2 : age' = [age EXCEPT ![new] = a]
         /\ Propose(p, Renewed(val[p], new))
  /\ UNCHANGED <<store, rev, ret, claimant, saved>>

\* The grant is sent and fails: rejected, timed out, an unusable reply, or no
\* replacement token.  The provider may have consumed the token.
GrantFailed(p) ==
  /\ pc[p] = "post"
  /\ posts' = [posts EXCEPT ![val[p].refresh] = @ + 1]
  /\ Goto(p, "failed")
  /\ UNCHANGED <<store, issued, age, val, rev, att, ret, claimant, parent, saved>>

\* confirmed = store.load() after the renewal.
ConfirmRenewal(p) ==
  /\ pc[p] = "confirm" /\ val[p].phase = "READY" /\ p \in Workers
  /\ IF /\ cred.version = val[p].version
        /\ cred.phase = "READY"
        /\ cred.refresh = val[p].refresh
        /\ cred.access = val[p].access
     THEN Return(p, val[p].access)
     ELSE Goto(p, "failed") /\ UNCHANGED ret
  /\ UNCHANGED <<store, issued, age, val, rev, att, history>>

\* check_hourly: after = store.load() must hold the returned token with more
\* than 90 s left; then the private probe accepts it or not.
HourlyReadback(p) ==
  /\ pc[p] = "after"
  /\ \/ /\ cred.phase = "READY" /\ cred.access # 0
        /\ cred.access = ret[p] /\ age[cred.access] < 2
        /\ Goto(p, "done")
     \/ Goto(p, "failed")
  /\ UNCHANGED <<store, issued, age, val, rev, att, ret, history>>

-----------------------------------------------------------------------------
(* EncryptedGitCredentialStore.compare_and_swap *)

\* Mutant: the version read back is not compared with the one expected.
CasFetch_Unchecked(p) ==
  /\ pc[p] = "fetch"
  /\ rev' = [rev EXCEPT ![p] = head]
  /\ Goto(p, "push")
  /\ UNCHANGED <<store, issued, age, val, att, ret, history>>

\* Fetch the tip and read its credential: go on when the version is the one
\* expected, return when it already holds our own value, otherwise a conflict.
CasFetch(p) ==
  /\ pc[p] = "fetch"
  /\ \/ /\ cred.version + 1 = val[p].version
        /\ rev' = [rev EXCEPT ![p] = head]
        /\ Goto(p, "push")
     \/ /\ cred.version + 1 # val[p].version
        /\ Goto(p, IF cred = val[p] THEN "confirm" ELSE "failed")
        /\ UNCHANGED rev
  /\ UNCHANGED <<store, issued, age, val, att, ret, history>>

\* Mutant: push --force.
PushLands_Forced(p) ==
  /\ pc[p] = "push"
  /\ Land(val[p])
  /\ Goto(p, "confirm")
  /\ UNCHANGED <<published, issued, age, val, rev, att, ret, posts, parent>>

\* The push is a fast-forward and lands.  The client may still see a timeout,
\* or fail to remove its worktree afterwards.
PushLands(p) ==
  /\ pc[p] = "push" /\ rev[p] = head
  /\ Land(val[p])
  /\ \/ Goto(p, "confirm") /\ UNCHANGED att
     \/ /\ GitFaults
        /\ Goto(p, AfterFailedPush(p))
        /\ att' = [att EXCEPT ![p] = @ + 1]
     \/ GitFaults /\ Goto(p, "failed") /\ UNCHANGED att
  /\ UNCHANGED <<published, issued, age, val, rev, ret, posts, parent>>

\* Mutant: a refused push does not use up an attempt.
PushRefused_Uncounted(p) ==
  /\ pc[p] = "push"
  /\ rev[p] # head \/ GitFaults
  /\ Goto(p, "fetch")
  /\ UNCHANGED <<store, issued, age, val, rev, att, ret, history>>

\* The push does not land: not a fast-forward, or a failure.
PushRefused(p) ==
  /\ pc[p] = "push"
  /\ rev[p] # head \/ GitFaults
  /\ Goto(p, AfterFailedPush(p))
  /\ att' = [att EXCEPT ![p] = @ + 1]
  /\ UNCHANGED <<store, issued, age, val, rev, ret, history>>

\* The client gives up on a push the server may still apply.
PushDelayed(p) ==
  /\ GitFaults
  /\ pc[p] = "push" /\ rev[p] = head
  /\ wire' = wire \cup {val[p]}
  /\ Goto(p, AfterFailedPush(p))
  /\ att' = [att EXCEPT ![p] = @ + 1]
  /\ UNCHANGED <<head, cred, published, issued, age, val, rev, ret, history>>

\* Such a push lands at last.
DelayedPushLands(v) ==
  /\ v \in wire
  /\ Land(v)
  /\ UNCHANGED <<published, issued, age, local, posts, parent>>

-----------------------------------------------------------------------------
(* enroll_once *)

\* current = store.load(); an enrolled store is only replaced with --reenroll
\* and the owner's confirmation.  The token comes from a new login.
EnrollLoad(p) ==
  /\ p \in Owners /\ pc[p] = "idle"
  /\ \/ /\ issued < MaxTokens
        /\ issued' = issued + 1
        /\ Propose(p, EnrolledCredential(cred.version + 1, issued + 1))
     \/ cred.version > 0 /\ Goto(p, "failed") /\ UNCHANGED <<issued, val, att>>
  /\ UNCHANGED <<store, age, rev, ret, history>>

\* verified = store.load(): same version and READY.
ConfirmEnrollment(p) ==
  /\ pc[p] = "confirm" /\ p \in Owners
  /\ Goto(p, IF cred.version = val[p].version /\ cred.phase = "READY"
             THEN "done" ELSE "failed")
  /\ UNCHANGED <<store, issued, age, val, rev, att, ret, history>>

-----------------------------------------------------------------------------
(* The environment *)

\* A Git command of the call raises before it had any effect on the remote:
\* a fetch or read of load(), or the worktree, commit or checkout of the swap.
GitBlocked(p) ==
  /\ GitFaults
  /\ pc[p] \in {"idle", "load1", "load2", "confirm", "after"} \cup InCas
  /\ Goto(p, "failed")
  /\ UNCHANGED <<store, issued, age, val, rev, att, ret, history>>

\* The run is cancelled or its runner dies.
Crash(p) ==
  /\ Crashes
  /\ pc[p] \notin Ended \cup {"idle"}
  /\ Goto(p, "crashed")
  /\ UNCHANGED <<store, issued, age, val, rev, att, ret, history>>

\* A report or data publisher pushes to the same branch.
OtherPublish ==
  /\ published < MaxPublish
  /\ published' = published + 1
  /\ head' = head + 1
  /\ wire' = {}
  /\ UNCHANGED <<cred, issued, age, local, history>>

\* Time passes for the stored access token.
Expire ==
  /\ cred.access # 0 /\ age[cred.access] < 2
  /\ age' = [age EXCEPT ![cred.access] = @ + 1]
  /\ UNCHANGED <<store, issued, local, history>>

Call(p) ==
  \/ HourlyLoad(p) \/ InitialLoad(p) \/ LeasedLoad(p) \/ ConfirmMarker(p)
  \/ GrantAnswered(p) \/ GrantFailed(p) \/ ConfirmRenewal(p) \/ HourlyReadback(p)
  \/ CasFetch(p) \/ PushLands(p) \/ PushRefused(p) \/ PushDelayed(p)
  \/ EnrollLoad(p) \/ ConfirmEnrollment(p) \/ GitBlocked(p)

Next ==
  \/ \E p \in Procs : Call(p) \/ Crash(p)
  \/ \E v \in wire : DelayedPushLands(v)
  \/ OtherPublish
  \/ Expire

Spec == Init /\ [][Next]_vars

\* Every Git command and the POST have a timeout, so a call that has begun takes
\* its next step; nothing makes a run begin.
Fairness == \A p \in Procs : WF_vars(pc[p] # "idle" /\ Call(p))
FairSpec == Spec /\ Fairness
-----------------------------------------------------------------------------
(* What the protocol promises *)

\* A refresh token is sent to the provider at most once, whatever the order of
\* loads, claims, lost pushes, crashes and re-enrollments: the reason
\* compare_and_swap and the IN_FLIGHT marker exist ("NEVER automatically
\* replay it").
GrantAtMostOnce == \A t \in Tokens : posts[t] <= 1

\* A grant is sent only for a token whose claim has been a commit of main
\* ("the durable IN_FLIGHT marker is written BEFORE the external POST").
MarkerBeforeGrant == \A t \in Tokens : posts[t] > 0 => claimant[t] # None

\* An access token get_access_token hands out belongs to a refresh token that is
\* or was durable, and an enrollment reported as persisted was: no caller goes
\* on with a rotation that only its own memory knows.
ReturnedIsDurable ==
  /\ \A p \in Workers : ret[p] # 0 => ret[p] \in saved
  /\ \A p \in Owners : pc[p] = "done" => val[p].refresh \in saved

\* When Git itself never fails, a renewal that could not be written back was
\* overtaken by an enrollment or by at least as many foreign pushes as
\* compare_and_swap has attempts.
LostOnlyToContention ==
  ~GitFaults =>
    \A p \in Workers :
      pc[p] = "failed" /\ val[p].phase = "READY" /\ val[p].refresh \notin saved
        => cred.version >= val[p].version \/ published >= CasAttempts

\* The only ways the stored credential changes, one version at a time: a claim of
\* the READY token it holds, the replacement the provider issued for exactly the
\* claimed token, or an owner's login.  A late or stale writer never undoes an
\* enrollment, a claim or a renewal.
CredentialLineage ==
  [][cred' # cred =>
       /\ cred'.version = cred.version + 1
       /\ \/ /\ cred.phase = "READY" /\ cred'.phase = "IN_FLIGHT"
             /\ cred'.refresh = cred.refresh
          \/ /\ cred.phase = "IN_FLIGHT" /\ cred'.phase = "READY"
             /\ parent[cred'.refresh] = cred.refresh
          \/ /\ cred'.phase = "READY" /\ cred'.access = 0
             /\ parent[cred'.refresh] = 0]_vars

\* A call that has begun ends: the retries of compare_and_swap are bounded, so no
\* amount of contention or of failing pushes keeps a run going.
CallsEnd == \A p \in Procs : pc[p] # "idle" ~> pc[p] \in Ended
-----------------------------------------------------------------------------
(* The abstract protocol it implements *)

OneShot ==
  INSTANCE OneShotGrant WITH
    Token   <- Tokens,
    held    <- cred.refresh,
    ready   <- cred.phase = "READY",
    claimed <- {t \in Tokens : claimant[t] # None},
    used    <- {t \in Tokens : posts[t] > 0},
    source  <- parent

\* The store, the runs and Git together behave as a one-shot grant: every step,
\* including those of stale, crashed or delayed writers, is a step of
\* OneShotGrant or changes nothing it can see.
ImplementsOneShot == OneShot!Spec
===============================================================================
