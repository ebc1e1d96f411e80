------------------------- MODULE MCOccurrenceDelivery -------------------------
(* DEEP at 04:30 and PRICE an hour later (British summer time). *)
EXTENDS OccurrenceDelivery

CONSTANTS deep, price

DueTimes == [o \in {deep, price} |-> IF o = deep THEN 0 ELSE 2]
=============================================================================
