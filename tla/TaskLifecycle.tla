---------------------------- MODULE TaskLifecycle ----------------------------
(***************************************************************************)
(* What the task queue promises to those who enqueue and cancel, with no   *)
(* worker, lease, heartbeat or process in sight (the state machine and the *)
(* promises in the docstring of models.Task):                              *)
(*                                                                         *)
(*   - an accepted task is taken a bounded number of times, and is taken   *)
(*     at least once before it succeeds or fails;                          *)
(*   - its end is written once and never rewritten;                        *)
(*   - its dedupe key is its own from acceptance to the end and is free    *)
(*     from then on.                                                       *)
(***************************************************************************)
EXTENDS Integers

CONSTANTS Tasks, Keys, NoKey, MaxAttempts

VARIABLES
    phase,    \* task -> absent, open or the end it came to
    owner,    \* task -> the dedupe key it holds, or NoKey
    takes     \* task -> how many times it was handed to a worker

vars == <<phase, owner, takes>>

Init ==
    /\ phase = [t \in Tasks |-> "absent"]
    /\ owner = [t \in Tasks |-> NoKey]
    /\ takes = [t \in Tasks |-> 0]

Accept(t, k) ==
    /\ phase[t] = "absent"
    /\ k = NoKey \/ \A u \in Tasks : owner[u] # k
    /\ phase' = [phase EXCEPT ![t] = "open"]
    /\ owner' = [owner EXCEPT ![t] = k]
    /\ UNCHANGED takes

Take(S) ==
    /\ \A t \in S : phase[t] = "open" /\ takes[t] < MaxAttempts
    /\ takes' = [t \in Tasks |-> IF t \in S THEN takes[t] + 1 ELSE takes[t]]
    /\ UNCHANGED <<phase, owner>>

Close(S, end) ==
    /\ \A t \in S : phase[t] = "open"
    /\ phase' = [t \in Tasks |-> IF t \in S THEN end ELSE phase[t]]
    /\ owner' = [t \in Tasks |-> IF t \in S THEN NoKey ELSE owner[t]]
    /\ UNCHANGED takes

Succeed(t) == takes[t] > 0 /\ Close({t}, "succeeded")
Fail(S)    == (\A t \in S : takes[t] > 0) /\ Close(S, "failed")
Cancel(t)  == Close({t}, "cancelled")

Next ==
    \/ \E t \in Tasks, k \in Keys \cup {NoKey} : Accept(t, k)
    \/ \E S \in SUBSET Tasks : Take(S) \/ Fail(S)
    \/ \E t \in Tasks : Succeed(t) \/ Cancel(t)

Spec == Init /\ [][Next]_vars

=============================================================================
