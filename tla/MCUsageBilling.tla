--------------------------- MODULE MCUsageBilling ---------------------------
(***************************************************************************)
(* Instances of UsageBilling for TLC: two uploads of which the limit       *)
(* admits one at a time, the one charged to an API key and of a usage kind *)
(* that control-api may not know, the other of an organization that it     *)
(* refuses.                                                                *)
(***************************************************************************)
EXTENDS UsageBilling

CONSTANTS u1, u2, d1, d2

OneUpload     == {u1}
TwoUploads    == {u1, u2}
OneDeliverer  == {d1}
TwoDeliverers == {d1, d2}
KeyedWork     == {u1}
UnknownWork   == {u1}
RefusedWork   == {u2}
Estimate      == [w \in Work |-> 2]
ActualPages   == [w \in Work |-> 1]
=============================================================================
