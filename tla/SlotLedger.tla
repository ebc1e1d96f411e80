------------------------------ MODULE SlotLedger ------------------------------
(***************************************************************************)
(* What the published control and ledger promise a reader, without runs,   *)
(* leases or snapshots: a log of scheduler proofs.  A proof is entered     *)
(* once, beyond the last one; the slots it steps over become gaps; what    *)
(* the window has left behind is dropped, and no other row ever changes.   *)
(***************************************************************************)
EXTENDS Naturals

CONSTANTS Slot, Proof, Empty, Gap, Window

VARIABLES
  last,        \* the slot of the last proof, 0 before the first
  operational, \* the last slot that was served at all
  row          \* per slot, its proof, Gap or Empty

ledger == <<last, operational, row>>

Init == last = 0 /\ operational = 0 /\ row = [s \in Slot |-> Empty]

Entered(s, p) ==
  [t \in Slot |->
     IF t + Window <= s THEN Empty
     ELSE IF t = s THEN p
     ELSE IF last # 0 /\ last < t /\ t < s THEN Gap
     ELSE row[t]]

Prove(s, p) ==
  /\ s > last /\ \A t \in Slot : row[t] # p
  /\ last' = s
  /\ operational' = IF s > operational THEN s ELSE operational
  /\ row' = Entered(s, p)

Serve(s) ==
  /\ s > operational
  /\ operational' = s
  /\ UNCHANGED <<last, row>>

Next == \E s \in Slot : Serve(s) \/ \E p \in Proof : Prove(s, p)

Spec == Init /\ [][Next]_ledger
=============================================================================
