---------------------------- MODULE TaskLifecycle ----------------------------
(***************************************************************************)
(* What the scheduler of core/scheduler.hpp promises about one task, free  *)
(* of threads, queues, locks and time.  A task that waits can be revoked,  *)
(* and a revoked task never runs; once it is committed to run no one can   *)
(* stop it, and it runs once.  A periodic task's next round is a new task, *)
(* born in the same step in which the previous round ends.                 *)
(***************************************************************************)
EXTENDS Naturals

CONSTANT Tasks

VARIABLE status

States == {"unborn", "waiting", "revoked", "committed", "running", "gone"}

TypeOK == status \in [Tasks -> States]

Init == status = [t \in Tasks |-> "unborn"]

Move(t, from, to) == status[t] = from /\ status' = [status EXCEPT ![t] = to]

Submit(t) == Move(t, "unborn", "waiting")
Reject(t) == Move(t, "unborn", "gone")
Revoke(ts) ==
    /\ \A t \in ts : status[t] = "waiting"
    /\ status' = [t \in Tasks |-> IF t \in ts THEN "revoked" ELSE status[t]]
Forget(t) == Move(t, "revoked", "gone")
Commit(t) == Move(t, "waiting", "committed")
Start(t)  == Move(t, "committed", "running")
Finish(t) == Move(t, "running", "gone")
Repeat(t, u) ==
    /\ status[t] = "running" /\ status[u] = "unborn"
    /\ status' = [status EXCEPT ![t] = "gone", ![u] = "waiting"]

Next ==
    \/ \E t \in Tasks :
          \/ Submit(t) \/ Reject(t) \/ Forget(t)
          \/ Commit(t) \/ Start(t) \/ Finish(t)
          \/ \E u \in Tasks : Repeat(t, u)
    \/ \E ts \in SUBSET Tasks : Revoke(ts)

Spec == Init /\ [][Next]_status
=============================================================================
