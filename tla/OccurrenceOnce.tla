------------------------------ MODULE OccurrenceOnce ------------------------------
(***************************************************************************)
(* What the delivery of report occurrences promises, whoever triggers it   *)
(* and however often: an occurrence may be reported and fail any number of *)
(* times, but once it has been answered READY, nothing is published for it *)
(* again and no failure is posted, and READY was said of a report.         *)
(***************************************************************************)
CONSTANTS Occurrences

VARIABLES
  answer, \* what has been said of an occurrence: "none", "failed" or "ready"
  report  \* its published report: "absent", "bad" or "good" (stands verification)

once == <<answer, report>>

Init ==
  /\ answer = [o \in Occurrences |-> "none"]
  /\ report = [o \in Occurrences |-> "absent"]

Publish(o) ==
  /\ answer[o] # "ready"
  /\ \E q \in {"good", "bad"} : report' = [report EXCEPT ![o] = q]
  /\ UNCHANGED answer

AnswerFailed(o) ==
  /\ answer[o] = "none"
  /\ answer' = [answer EXCEPT ![o] = "failed"]
  /\ UNCHANGED report

\* An answer may reuse a report that was published but never verified.
AnswerReady(o) ==
  /\ answer[o] # "ready" /\ report[o] # "absent"
  /\ answer' = [answer EXCEPT ![o] = "ready"]
  /\ UNCHANGED report

Next == \E o \in Occurrences : Publish(o) \/ AnswerFailed(o) \/ AnswerReady(o)

Spec == Init /\ [][Next]_once
=============================================================================
