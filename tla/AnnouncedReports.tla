---------------------------- MODULE AnnouncedReports ----------------------------
(***************************************************************************)
(* What the reports of one mode owe a reader, without runs, reads, retries *)
(* or lost answers: a report may be written and rewritten until it is      *)
(* announced READY; that happens once, with the status it claims;          *)
(* from then on it stays as it is; and one pointer moves forward from      *)
(* announced report to announced report.                                   *)
(***************************************************************************)
EXTENDS Naturals

CONSTANTS Slot, Nowhere  \* Nowhere: the pointer before it first moves

VARIABLES
  filed,     \* per slot, its files, its body and the status they give the body
  announced, \* what has been announced: slots, by whom and as what
  pointer    \* the latest report, or Nowhere

outlet == <<filed, announced, pointer>>

Announced(s) == \E c \in announced : c.slot = s

Init ==
  /\ DOMAIN filed = Slot
  /\ announced = {}
  /\ pointer = Nowhere

File ==
  /\ DOMAIN filed' = Slot
  /\ \A s \in Slot : Announced(s) => filed'[s] = filed[s]
  /\ UNCHANGED <<announced, pointer>>

Announce(s) ==
  /\ ~Announced(s)
  /\ \E c \in announced' :
       /\ c.slot = s /\ c.status = filed[s].claim
       /\ announced' = announced \cup {c}
  /\ UNCHANGED <<filed, pointer>>

Advance(c) ==
  /\ pointer = Nowhere \/ c.slot > pointer.slot
  /\ pointer' =
       [slot |-> c.slot, run |-> c.run, claim |-> c.status, body |-> filed[c.slot].body,
        sequence |-> IF pointer = Nowhere THEN 1 ELSE pointer.sequence + 1,
        supersedes |-> IF pointer = Nowhere THEN 0 ELSE pointer.slot]
  /\ UNCHANGED <<filed, announced>>

Next ==
  \/ File
  \/ \E s \in Slot : Announce(s)
  \/ \E c \in announced : Advance(c)

Spec == Init /\ [][Next]_outlet
=================================================================================
