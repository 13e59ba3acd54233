-------------------------- MODULE MCOutboxDelivery --------------------------
(* Instances of OutboxDelivery for TLC.                                    *)
EXTENDS OutboxDelivery

CONSTANTS e1, e2, d1, d2

OneEvent      == {e1}
TwoEvents     == {e1, e2}
OneDeliverer  == {d1}
TwoDeliverers == {d1, d2}
=============================================================================
