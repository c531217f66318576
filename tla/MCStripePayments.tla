------------------------- MODULE MCStripePayments -------------------------
(* TLC instances of StripePayments.                                        *)
EXTENDS StripePayments

CONSTANTS u1

ByOneUser == [p \in Payments |-> u1]
TwoEach   == [p \in Payments |-> 2]
AllRefs   == Payments \cup Events
===========================================================================
