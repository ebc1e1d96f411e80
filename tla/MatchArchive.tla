------------------------------ MODULE MatchArchive ------------------------------
(***************************************************************************)
(* The archive of FotMob match details that the V6 collector builds up     *)
(* over many runs: the polling decision of the source, the bounded         *)
(* backfill of one poll, and the counter of reserved requests, all of      *)
(* which a run knows from the snapshot it hydrated only.                   *)
(*                                                                         *)
(* Sources, in runtime_v6/domains/acquisition: polling.py,                 *)
(* fotmob_backfill.py, collector.py, adapters.py, http_client.py.          *)
(*                                                                         *)
(* Time is counted in scheduler slots and kept relative to now, so that    *)
(* behaviours do not end: a snapshot holds how many slots ago the source   *)
(* was polled, capped at AgeCap, which also stands for never.  How a run   *)
(* pushes is in RuntimePublication; here its candidate lands or is lost.   *)
(***************************************************************************)
EXTENDS Integers, FiniteSets

CONSTANTS
  MaxMatch,     \* bound: matches, numbered in the order they are asked for
  Dead,         \* matches of which neither the API nor the page has details
  Hourly,       \* the scheduler's runs
  Forced,       \* runs of kind report_prefetch or manual_recovery
  Interval,     \* the source's poll interval, in slots
  Retries,      \* client.retry_attempts
  Cap,          \* max_backfill_requests_per_cycle
  Budget,       \* daily_request_budget
  Hours,        \* slots per WIB day
  Late,         \* slots a run may lag behind, until its job times out
  MaxFaults,    \* bound: failed fetches, lost candidates and dead runs
  SingleWriter  \* whether something outside the code keeps runs apart

Matches == 1..MaxMatch
Runs == Hourly \cup Forced
AgeCap == Interval + Late

ASSUME ArchiveAssumption ==
  /\ MaxMatch \in Nat /\ Dead \subseteq Matches
  /\ Hourly \cap Forced = {}
  /\ Interval \in Nat \ {0} /\ Retries \in Nat \ {0} /\ Hours \in Nat \ {0}
  /\ Cap \in Nat /\ Budget \in Nat /\ Late \in Nat /\ MaxFaults \in Nat
  /\ SingleWriter \in BOOLEAN

VARIABLES
  finished,   \* the provider: matches its league page lists as finished
  branch,     \* runtime-data-v6: the file of the source, and the last proof
  pc,         \* where each run is
  late,       \* slots since the one each run was triggered for
  work,       \* data/v6 on its runner
  todo,       \* scheduled: the details it still has to ask for
  sent,       \* requests for details it has sent
  hour,       \* of the WIB day
  triggered,  \* the runs of this slot
  spent,      \* history: requests that published runs sent on today's account
  faults      \* failures that may still happen

run  == <<pc, late, work, todo, sent>>
time == <<hour, triggered>>
vars == <<finished, branch, run, time, spent, faults>>

\* A published file: the archived details, the league they belong to, the
\* requests reserved on the day of its last poll and whether that is today, the
\* slots since that poll and since the last scheduler proof.
Snapshot ==
  [archive : SUBSET Matches, league : SUBSET Matches, used : 0..Budget,
   today : BOOLEAN, polled : 0..AgeCap, chat : 0..AgeCap]

EmptySnapshot ==
  [archive |-> {}, league |-> {}, used |-> 0, today |-> FALSE,
   polled |-> AgeCap, chat |-> AgeCap]

InFlight == {"poll", "fetch"}

\* Each variable has its type, and no counter exceeds its bound.
ArchiveTypeOK ==
  /\ finished \subseteq Matches
  /\ branch \in Snapshot
  /\ pc \in [Runs -> {"idle", "hydrate"} \cup InFlight]
  /\ late \in [Runs -> 0..Late]
  /\ work \in [Runs -> Snapshot]
  /\ todo \in [Runs -> SUBSET Matches]
  /\ sent \in [Runs -> Nat]
  /\ hour \in 0..(Hours - 1)
  /\ triggered \subseteq Runs
  /\ spent \in Nat
  /\ faults \in 0..MaxFaults

Init ==
  /\ finished = {} /\ branch = EmptySnapshot
  /\ pc = [r \in Runs |-> "idle"]
  /\ late = [r \in Runs |-> 0]
  /\ work = [r \in Runs |-> EmptySnapshot]
  /\ todo = [r \in Runs |-> {}]
  /\ sent = [r \in Runs |-> 0]
  /\ hour = 0 /\ triggered = {}
  /\ spent = 0 /\ faults = MaxFaults

-----------------------------------------------------------------------------
(* Time and the provider *)

Older(age) == IF age < AgeCap THEN age + 1 ELSE AgeCap

\* A snapshot one slot later, on the same day or not.
Aged(s, sameDay) ==
  [s EXCEPT !.today = @ /\ sameDay, !.polled = Older(@), !.chat = Older(@)]

\* The next slot begins, and with every Hours of them a day.
Tick ==
  /\ \A r \in Runs : pc[r] # "idle" => late[r] < Late
  /\ hour' = (hour + 1) % Hours
  /\ LET sameDay == hour' # 0
     IN  /\ branch' = Aged(branch, sameDay)
         /\ work' = [r \in Runs |->
                       IF pc[r] = "idle" THEN work[r] ELSE Aged(work[r], sameDay)]
         /\ spent' = IF sameDay THEN spent ELSE 0
  /\ late' = [r \in Runs |-> IF pc[r] = "idle" THEN 0 ELSE late[r] + 1]
  /\ triggered' = {}
  /\ UNCHANGED <<finished, pc, todo, sent, faults>>

\* A match ends.
Finish(m) ==
  /\ m \notin finished /\ finished' = finished \cup {m}
  /\ UNCHANGED <<branch, run, time, spent, faults>>

\* Something fails.
Fault == faults > 0 /\ faults' = faults - 1

-----------------------------------------------------------------------------
(* The run *)

\* A title edit, a dispatch or a comment, at most one per run and slot.
Trigger(r) ==
  /\ pc[r] = "idle" /\ r \notin triggered
  /\ triggered' = triggered \cup {r}
  /\ pc' = [pc EXCEPT ![r] = "hydrate"]
  /\ UNCHANGED <<finished, branch, late, work, todo, sent, hour, spent, faults>>

\* The runner and what was on it is gone.
End(r) ==
  /\ pc' = [pc EXCEPT ![r] = "idle"]
  /\ late' = [late EXCEPT ![r] = 0]
  /\ work' = [work EXCEPT ![r] = EmptySnapshot]
  /\ todo' = [todo EXCEPT ![r] = {}]
  /\ sent' = [sent EXCEPT ![r] = 0]

\* scheduled_slot_already_completed: of this slot or a later one.
SlotDone(r) == r \in Hourly /\ branch.chat <= late[r]

\* Hydrate the last-good snapshot, then the slot guard.
Hydrate(r) ==
  /\ pc[r] = "hydrate"
  /\ SingleWriter => \A q \in Runs : pc[q] \notin InFlight
  /\ IF SlotDone(r)
     THEN End(r)
     ELSE /\ pc' = [pc EXCEPT ![r] = "poll"]
          /\ work' = [work EXCEPT ![r] = branch]
          /\ UNCHANGED <<late, todo, sent>>
  /\ UNCHANGED <<finished, branch, time, spent, faults>>

\* _now: how long ago the slot is in which the run evaluates its sources, which
\* is the governed one of a scheduler run and the current one of any other.
SlotOf(r) == IF r \in Hourly THEN late[r] ELSE 0

\* poll_decision: forced, or due by slot or by interval.
Due(r) ==
  \/ r \in Forced
  \/ Interval > 1 /\ work[r].polled - SlotOf(r) >= Interval
  \/ Interval = 1 /\ work[r].polled # SlotOf(r)

\* carry_forward_skipped: the file is published again as it is.
Skip(r) ==
  /\ pc[r] = "poll" /\ ~Due(r)
  /\ pc' = [pc EXCEPT ![r] = "fetch"]
  /\ UNCHANGED <<finished, branch, late, work, todo, sent, time, spent, faults>>

\* Mutant: the fallback to the page is not reserved.
PerMatch_ApiOnly == Retries

\* per_match_reservation: API and page, each with all its retries.
PerMatch == 2 * Retries

\* Mutant: whatever the budget, a poll may ask for the first match.
SlotsLeft_AtLeastOne(used) ==
  LET affordable == (Budget - used) \div PerMatch
  IN  IF affordable > Cap THEN Cap ELSE IF affordable > 0 THEN affordable ELSE 1

\* The details a poll may ask for when `used` requests are reserved already.
SlotsLeft(used) ==
  LET affordable == (Budget - used) \div PerMatch
  IN  IF affordable < Cap THEN affordable ELSE Cap

\* Mutant: a league that cannot be fetched is empty.
LastGood_Empty(s) == {}

\* _merge_last_good: the league kept when it cannot be fetched.
LastGood(s) == s.league

\* Mutant: archived details are asked for again.
Wanted_All(s, league) == league

\* The finished matches without details.
Wanted(s, league) == league \ s.archive

\* The first n of S, or all of S.
IsFirst(first, S, n) ==
  /\ first \subseteq S
  /\ Cardinality(first) <= n
  /\ Cardinality(first) = n \/ first = S
  /\ \A a \in first, b \in S \ first : a < b

\* The file after a poll in slot `age` that found this league and scheduled these
\* matches: archived details of its matches are retained.
Polled(s, league, used, scheduled, age) ==
  [s EXCEPT !.archive = @ \cap league,
            !.league = league,
            !.used = used + PerMatch * Cardinality(scheduled),
            !.today = TRUE,
            !.polled = age]

\* The league is asked for, or the last good one is kept; the first matches
\* without details are scheduled as far as today's budget goes.
Poll(r) ==
  /\ pc[r] = "poll" /\ Due(r)
  /\ \E league \in {finished, LastGood(work[r])} :
       /\ IF league = finished THEN UNCHANGED faults ELSE Fault
       /\ LET used == IF work[r].today THEN work[r].used ELSE 0
              wanted == Wanted(work[r], league)
          IN  \E scheduled \in SUBSET wanted :
                /\ IsFirst(scheduled, wanted, SlotsLeft(used))
                /\ todo' = [todo EXCEPT ![r] = scheduled]
                /\ work' = [work EXCEPT ![r] = Polled(@, league, used, scheduled, SlotOf(r))]
  /\ pc' = [pc EXCEPT ![r] = "fetch"]
  /\ UNCHANGED <<finished, branch, late, sent, time, spent>>

\* What one match may cost: the API answers at one of its attempts, or fails in
\* a way that the page is tried too.
Requests == {api + page : api \in 1..Retries, page \in 0..Retries}

\* fetch_detail: the details are archived if usable, which those of a dead match
\* never are and others are unless something fails.
Fetch(r, m) ==
  /\ pc[r] = "fetch" /\ m \in todo[r]
  /\ todo' = [todo EXCEPT ![r] = @ \ {m}]
  /\ \E n \in Requests : sent' = [sent EXCEPT ![r] = @ + n]
  /\ \/ /\ m \notin Dead
        /\ work' = [work EXCEPT ![r].archive = @ \cup {m}]
        /\ UNCHANGED faults
     \/ /\ IF m \in Dead THEN UNCHANGED faults ELSE Fault
        /\ UNCHANGED work
  /\ UNCHANGED <<finished, branch, pc, late, time, spent>>

\* The candidate is published; a scheduler run is the proof of its slot.
Publish(r) ==
  /\ pc[r] = "fetch" /\ todo[r] = {}
  /\ branch' = [work[r] EXCEPT
       !.chat = IF r \in Hourly /\ late[r] < @ THEN late[r] ELSE @]
  /\ spent' = spent + IF work[r].today THEN sent[r] ELSE 0
  /\ End(r)
  /\ UNCHANGED <<finished, time, faults>>

\* A step fails, the job times out, every push fails: nothing is published.
Lose(r) ==
  /\ pc[r] # "idle" /\ Fault
  /\ End(r)
  /\ UNCHANGED <<finished, branch, time, spent>>

Step(r) ==
  Hydrate(r) \/ Skip(r) \/ Poll(r) \/ (\E m \in Matches : Fetch(r, m)) \/ Publish(r)

Next ==
  \/ Tick
  \/ \E m \in Matches : Finish(m)
  \/ \E r \in Runs : Trigger(r) \/ Step(r) \/ Lose(r)

Spec == Init /\ [][Next]_vars

\* Slots go by, the scheduler keeps asking, and a job takes its next step before
\* it times out.
FairSpec ==
  /\ Spec /\ WF_vars(Tick)
  /\ \A r \in Hourly : WF_vars(Trigger(r))
  /\ \A r \in Runs : WF_vars(Step(r))

-----------------------------------------------------------------------------
(* What the archive promises *)

\* The counter in the published file is worth something although polls retry,
\* fall back to the page, straddle midnight, or are published by another run
\* than the one that follows: what published runs sent on one day's account
\* stays within the budget of that day.
QuotaKept == spent <= Budget

\* Once published, details stay published: through skipped polls, failed
\* fetches of the league, lost candidates and new days.
ArchiveKept == [][branch.archive \subseteq branch'.archive]_vars

\* As long as a day's first poll can ask for more matches than are dead, every
\* other match that ends is archived eventually: no match ahead of it in the
\* order keeps it out forever.
MatchesArchived ==
  Cardinality(Dead) < SlotsLeft(0) =>
    \A m \in Matches \ Dead : m \in finished ~> m \in branch.archive
=============================================================================
