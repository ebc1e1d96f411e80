------------------------------ MODULE DatedRecord ------------------------------
(***************************************************************************)
(* What the private repository promises of the owner's teams, without      *)
(* checkouts, commits or rebases: a record of teams by the time they are   *)
(* of.  Each entry is true when it is entered, no earlier than the latest  *)
(* one, and no entry is lost or changed by the entry of another time.      *)
(***************************************************************************)
EXTENDS Naturals

CONSTANTS Time, Team, Nothing

VARIABLES
  lastSeen, \* per team, when it was last the official one
  latest,   \* the time of the latest entry, 0 before the first
  record    \* per time, the team entered, or Nothing

\* At most the entry of time 1 is there.
Init ==
  /\ DOMAIN lastSeen = Team
  /\ latest \in {0, 1}
  /\ DOMAIN record = Time /\ \A t \in Time : record[t] # Nothing => t = latest

\* The owner edits the team, or time passes.
Live ==
  /\ DOMAIN lastSeen' = Team /\ \A s \in Team : lastSeen'[s] >= lastSeen[s]
  /\ UNCHANGED <<latest, record>>

Enter(t, s) ==
  /\ t >= latest /\ lastSeen[s] >= t
  /\ latest' = t
  /\ record' = [record EXCEPT ![t] = s]
  /\ UNCHANGED lastSeen

Next == Live \/ \E t \in Time, s \in Team : Enter(t, s)

Spec == Init /\ [][Next]_<<lastSeen, latest, record>>
=================================================================================
