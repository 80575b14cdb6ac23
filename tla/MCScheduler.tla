----------------------------- MODULE MCScheduler -----------------------------
(* Small instances of Scheduler for TLC. *)
EXTENDS Scheduler

CONSTANTS w1, w2, c1, warp

Option(tag, priority, delay, interval, stoppable) ==
    [tag |-> tag, priority |-> priority, delay |-> delay,
     interval |-> interval, stoppable |-> stoppable]

\* A delayed one-shot task without a tag and a tagged periodic one that its
\* callback may stop.
MCOptions == {Option(NoTag, 0, 1, 0, FALSE), Option(warp, 0, 0, 1, TRUE)}

\* The periodic task alone, for the liveness properties: when its callback stops
\* it, it is a one-shot task as well.
LiveOptions == {Option(warp, 0, 0, 1, TRUE)}

\* An instance without cancellations, for the liveness properties: wait_all()
\* may miss the end of a cancelled task.
UncancelledSpec == Init /\ [][Next /\ cancelled_tasks' = {}]_vars /\ Fairness

Symmetry == Permutations({w1, w2})
=============================================================================
