----------------------------- MODULE EventOutbox -----------------------------
(***************************************************************************)
(* What an outbox between two services promises, with no attempt, lease,   *)
(* batch, replica or lost answer in sight (the header of store/outbox.go,  *)
(* which the corpus's own outbox.py is modelled on: deliver at least once  *)
(* and consume by event id):                                               *)
(*                                                                         *)
(*   - an event exists from the transaction of the work it reports, and    *)
(*     only then may it have an effect at the consumer;                    *)
(*   - it takes effect at most once;                                       *)
(*   - it is recorded as delivered only after it has taken effect, and     *)
(*     that is final;                                                      *)
(*   - one that was given up may still take effect, since the request that *)
(*     was refused or lost need not have been the only one.                *)
(***************************************************************************)
EXTENDS Integers

CONSTANTS Events

VARIABLES
    status,     \* event -> none, open, delivered or dead
    effects     \* event -> how often the consumer has acted on it

outboxVars == <<status, effects>>

Init ==
    /\ status = [e \in Events |-> "none"]
    /\ effects = [e \in Events |-> 0]

Submit(e) ==
    /\ status[e] = "none"
    /\ status' = [status EXCEPT ![e] = "open"]
    /\ UNCHANGED effects

(* The consumer commits; where the answer is part of the same step, the    *)
(* row is delivered at once.                                               *)
TakeEffect(e) ==
    /\ status[e] # "none" /\ effects[e] = 0
    /\ effects' = [effects EXCEPT ![e] = 1]
    /\ status' \in {status, [status EXCEPT ![e] = "delivered"]}

Acknowledge(e) ==
    /\ status[e] \in {"open", "dead"} /\ effects[e] = 1
    /\ status' = [status EXCEPT ![e] = "delivered"]
    /\ UNCHANGED effects

GiveUp(e) ==
    /\ status[e] = "open"
    /\ status' = [status EXCEPT ![e] = "dead"]
    /\ UNCHANGED effects

Next == \E e \in Events : Submit(e) \/ TakeEffect(e) \/ Acknowledge(e) \/ GiveUp(e)

Spec == Init /\ [][Next]_outboxVars

=============================================================================
