---------------------------- MODULE EventDelivery ----------------------------
(***************************************************************************)
(* What the sync outbox promises to the publisher of an event: the handler *)
(* of a published event takes effect at most once, and every event is      *)
(* delivered or given up, in the sight of an administrator who may put it  *)
(* back.  There are no dispatchers, leases or attempts here.  SyncOutbox   *)
(* is shown to implement it.                                               *)
(***************************************************************************)
EXTENDS Naturals

CONSTANTS Events    \* outbox events

VARIABLES
    stage,      \* how far each event is
    effects     \* how often the handler of an event took effect

vars == <<stage, effects>>

TypeOK ==
    /\ stage \in [Events -> {"absent", "queued", "delivered", "abandoned"}]
    /\ effects \in [Events -> Nat]

Init ==
    /\ stage = [e \in Events |-> "absent"]
    /\ effects = [e \in Events |-> 0]

Publish(e) ==
    /\ stage[e] = "absent"
    /\ stage' = [stage EXCEPT ![e] = "queued"]
    /\ UNCHANGED effects

\* The effect and the end of the event are one step.
Deliver(e) ==
    /\ stage[e] = "queued"
    /\ stage' = [stage EXCEPT ![e] = "delivered"]
    /\ effects' = [effects EXCEPT ![e] = @ + 1]

Abandon(e) ==
    /\ stage[e] = "queued"
    /\ stage' = [stage EXCEPT ![e] = "abandoned"]
    /\ UNCHANGED effects

Requeue(e) ==
    /\ stage[e] = "abandoned"
    /\ stage' = [stage EXCEPT ![e] = "queued"]
    /\ UNCHANGED effects

Next == \E e \in Events : Publish(e) \/ Deliver(e) \/ Abandon(e) \/ Requeue(e)

Spec == Init /\ [][Next]_vars

\* No published event is forgotten.
FairSpec == Spec /\ \A e \in Events : WF_vars(Deliver(e) \/ Abandon(e))

=============================================================================
