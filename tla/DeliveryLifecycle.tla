--------------------------- MODULE DeliveryLifecycle ---------------------------
(***************************************************************************)
(* What the webhooks module promises about its deliveries, without the     *)
(* rows, claims, clocks and statements that keep the promise: a delivery   *)
(* waits, is sent by one worker at a time and at most MaxAttempts times,   *)
(* and ends for good unless its owner replays it.                          *)
(*                                                                         *)
(* Deliveries live independently of each other, and one step may move      *)
(* several of them.                                                        *)
(***************************************************************************)
EXTENDS Naturals

CONSTANTS Deliveries, Workers, Nobody, MaxAttempts

VARIABLES
    stage,   \* [Deliveries -> {"unborn", "waiting", "succeeded", "failed", "deleted"}]
    tries,   \* completed attempts since the delivery was queued or replayed
    worker   \* who is sending it

vars == <<stage, tries, worker>>

Becomes(d, newStage, newTries, newWorker) ==
    /\ stage'[d] = newStage
    /\ tries'[d] = newTries
    /\ worker'[d] = newWorker

Queue(d) ==
    /\ stage[d] = "unborn"
    /\ Becomes(d, "waiting", 0, Nobody)

Begin(d) ==
    /\ stage[d] = "waiting"
    /\ worker[d] = Nobody
    /\ tries[d] < MaxAttempts
    /\ \E w \in Workers : Becomes(d, "waiting", tries[d], w)

Working(d) == stage[d] = "waiting" /\ worker[d] \in Workers

Retry(d) ==
    /\ Working(d)
    /\ tries[d] + 1 < MaxAttempts
    /\ Becomes(d, "waiting", tries[d] + 1, Nobody)

Finish(d) ==
    /\ Working(d)
    /\ \E end \in {"succeeded", "failed"} : Becomes(d, end, tries[d] + 1, Nobody)

\* The worker crashes, or cannot write down what became of its attempt.
GiveUp(d) ==
    /\ Working(d)
    /\ Becomes(d, "waiting", tries[d], Nobody)

Replay(d) ==
    /\ stage[d] \in {"succeeded", "failed"}
    /\ Becomes(d, "waiting", 0, Nobody)

Delete(d) == Becomes(d, "deleted", 0, Nobody)

Init ==
    /\ stage = [d \in Deliveries |-> "unborn"]
    /\ tries = [d \in Deliveries |-> 0]
    /\ worker = [d \in Deliveries |-> Nobody]

Next ==
    \A d \in Deliveries :
        \/ Queue(d) \/ Begin(d) \/ Retry(d) \/ Finish(d) \/ GiveUp(d)
        \/ Replay(d) \/ Delete(d)
        \/ Becomes(d, stage[d], tries[d], worker[d])

Spec == Init /\ [][Next]_vars

=============================================================================
