----------------------------- MODULE OneShotGrant -----------------------------
(***************************************************************************)
(* What the credential store promises a provider that issues one-use       *)
(* refresh tokens, without processes, Git or failures: one token is held;  *)
(* it is claimed before it is used, used at most once, and replaced only   *)
(* by the token its own use was answered with - unless the owner enrolls   *)
(* a token from a login.                                                   *)
(***************************************************************************)
EXTENDS Naturals

CONSTANT Token    \* the refresh tokens; 0 is none of them

VARIABLES
  held,      \* the token the store holds, 0 before the first enrollment
  ready,     \* whether it may be claimed
  claimed,   \* tokens that were claimed
  used,      \* tokens that were sent to the provider
  source     \* per token, the token whose use was answered with it, or 0

vars == <<held, ready, claimed, used, source>>

Fresh(t) == t \in Token \ (claimed \cup used)

Init ==
  /\ held \in Token \cup {0}
  /\ ready = (held # 0)
  /\ claimed = {}
  /\ used = {}
  /\ source = [t \in Token |-> 0]

Hold(t) == Fresh(t) /\ held' = t /\ ready' = TRUE /\ UNCHANGED <<claimed, used, source>>

\* The owner stores a token from a login, whatever state the store is in.
Enroll == \E t \in Token : source[t] = 0 /\ Hold(t)

\* The answer to the grant replaces the token it was for.
Replace == \E t \in Token : ~ready /\ source[t] = held /\ Hold(t)

Claim ==
  /\ ready /\ Fresh(held)
  /\ ready' = FALSE
  /\ claimed' = claimed \cup {held}
  /\ UNCHANGED <<held, used, source>>

\* A claimed token is sent to the provider, even if the store moved on since,
\* and may be answered with a new one.
Use ==
  \E t \in claimed \ used :
    /\ used' = used \cup {t}
    /\ \/ UNCHANGED source
       \/ \E n \in Token :
            /\ Fresh(n) /\ n # held /\ source[n] = 0
            /\ source' = [source EXCEPT ![n] = t]
    /\ UNCHANGED <<held, ready, claimed>>

Next == Enroll \/ Replace \/ Claim \/ Use

Spec == Init /\ [][Next]_vars
===============================================================================
