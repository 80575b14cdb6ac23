------------------------ MODULE ScriptSchedulerProofs ------------------------
(***************************************************************************)
(* Theorems about ScriptScheduler, for every set of delays and intervals   *)
(* and every bound.                                                        *)
(***************************************************************************)
EXTENDS ScriptScheduler, TLAPS

-----------------------------------------------------------------------------
(* Type correctness *)

\* elapsed is a difference of clock readings, and prev the earlier one.
TypeInv == TypeOK /\ prev <= now

\* The initial state has the right types.
LEMMA InitType == Init => TypeInv
  BY ScriptAssumption DEF Init, TypeInv, TypeOK, NoTask, Ids, NoId

\* Adding a task keeps the types, whatever its delay and interval are.
LEMMA AddType ==
    ASSUME TypeOK, NEW r \in Int, NEW i \in Int, NEW p \in BOOLEAN, Add(r, i, p)
    PROVE  TypeOK'
<1>1. next_id \in Ids /\ next_id' \in 1..(MaxId + 1)
  BY ScriptAssumption DEF Add, TypeOK, Ids
<1>2. [remaining |-> r, interval |-> i, periodic |-> p, cancelled |-> FALSE]
        \in [remaining : Int, interval : Int, periodic : BOOLEAN, cancelled : BOOLEAN]
  OBVIOUS
<1>3. task' \in [Ids -> [remaining : Int, interval : Int,
                         periodic : BOOLEAN, cancelled : BOOLEAN]]
  BY <1>1, <1>2 DEF Add, TypeOK
<1>4. due' \in [Ids -> Int] /\ tasks' \subseteq Ids
  <2>1. CountedFrom + r \in Int
    BY DEF CountedFrom, Add, ScriptRuns, TypeOK
  <2>. QED  BY <1>1, <2>1 DEF Add, TypeOK
<1>. QED  BY <1>1, <1>3, <1>4 DEF Add, TypeOK, clock

\* Every step of the script scheduler keeps the types.
LEMMA NextType == TypeInv /\ [Next]_vars => TypeInv'
<1> SUFFICES ASSUME TypeOK, prev <= now, [Next]_vars PROVE TypeOK' /\ prev' <= now'
  BY DEF TypeInv
<1>1. ASSUME NEW d \in Delays, Schedule(d) PROVE TypeOK'
  <2>1. d \in Int /\ 0 \in Int /\ FALSE \in BOOLEAN
    BY ScriptAssumption
  <2>2. Add(d, 0, FALSE)
    BY <1>1 DEF Schedule
  <2>. QED  BY <2>1, <2>2, AddType
<1>2. ASSUME NEW i \in Intervals, NEW d \in Delays, SchedulePeriodic(i, d)
      PROVE  TypeOK'
  <2>1. (IF d > 0 THEN d ELSE i) \in Int /\ i \in Int
    BY ScriptAssumption
  <2>. QED  BY <1>2, <2>1, AddType DEF SchedulePeriodic
<1>3. ASSUME NEW ids \in SUBSET Ids, MarkCancelled(ids) PROVE TypeOK'
  BY <1>3 DEF MarkCancelled, TypeOK, clock
<1>4. ASSUME NEW id \in Ids, Cancel(id) PROVE TypeOK'
  BY <1>3, <1>4 DEF Cancel
<1>5. ASSUME CancelAll PROVE TypeOK'
  BY <1>3, <1>5 DEF CancelAll, TypeOK
<1>6. CASE RunStart
  BY <1>6 DEF RunStart, TypeOK, store, history
<1>7. CASE LoopStart
  <2>1. prev <= now => now - prev \in Nat  BY DEF TypeOK
  <2>. QED  BY <1>7, <2>1 DEF LoopStart, TypeOK, store, history
<1>8. CASE UpdateBegin
  <2>1. task' \in [Ids -> [remaining : Int, interval : Int,
                           periodic : BOOLEAN, cancelled : BOOLEAN]]
    BY <1>8 DEF UpdateBegin, TypeOK
  <2>. QED  BY <1>8, <2>1 DEF UpdateBegin, TypeOK, clock
<1>9. ASSUME NEW id \in Ids, UpdateSkip(id) \/ UpdateCall(id) PROVE TypeOK'
  BY <1>9 DEF UpdateSkip, UpdateCall, TypeOK, store, clock, history
<1>10. ASSUME NEW r \in {"error", "false", "other"}, UpdateReturn(r)
       PROVE  TypeOK'
  <2>1. current \in Ids
    BY <1>10 DEF UpdateReturn, TypeOK
  <2>. QED  BY <1>10, <2>1 DEF UpdateReturn, TypeOK, clock
<1>11. CASE UpdateEnd
  BY <1>11 DEF UpdateEnd, TypeOK, NoTask, clock, history
<1>12. CASE Tick
  BY <1>12 DEF Tick, TypeOK, store, history
<1>13. CASE UNCHANGED vars
  BY <1>13 DEF vars, TypeOK, store, clock, history
<1>14. TypeOK'
  BY <1>1, <1>2, <1>4, <1>5, <1>6, <1>7, <1>8, <1>9, <1>10, <1>11, <1>12,
     <1>13 DEF Next, ScriptStep, LoopStep
<1>15. prev' <= now'
  BY DEF TypeOK, Next, ScriptStep, LoopStep, Schedule, SchedulePeriodic, Add,
         Cancel, CancelAll, MarkCancelled, RunStart, LoopStart, UpdateBegin,
         UpdateSkip, UpdateCall, UpdateReturn, UpdateEnd, Tick, clock, vars
<1>. QED  BY <1>14, <1>15

\* Every variable keeps its type in every reachable state.
THEOREM TypeCorrect == Spec => []TypeOK
<1>1. TypeInv => TypeOK
  BY DEF TypeInv
<1>. QED  BY <1>1, InitType, NextType, PTL DEF Spec

-----------------------------------------------------------------------------
(* The rounds *)

\* RoundClosed made inductive: the batch and the current task exist only inside
\* update(), and the current task is no longer in the batch.
RoundInv ==
    /\ RoundClosed
    /\ known <= next_id
    /\ \A id \in tasks : id < next_id
    /\ phase \notin {"batch", "callback"} => batch = {}
    /\ phase # "callback" => current = NoId
    /\ current \notin batch

\* RoundComplete made inductive: inside update() an expired task that the round
\* has not run yet is a one-shot that it will run.
Settled(id) ==
    \/ task[id].remaining > 0
    \/ task[id].periodic /\ task[id].interval <= 0

SettledInv ==
    /\ phase = "load" => known = 1
    /\ phase \in {"batch", "callback"} =>
         \A id \in tasks : id < known =>
            \/ task[id].cancelled
            \/ Settled(id)
            \/ id \in batch \cup {current} /\ ~task[id].periodic
    /\ RoundComplete

\* A cancelled periodic task is one that a script stopped.
StoppedInv ==
    \A id \in tasks : task[id].cancelled /\ task[id].periodic => id \in stopped

\* What adding a task means for the three invariants.
LEMMA AddKeeps ==
    ASSUME TypeInv, RoundInv, SettledInv, StoppedInv, NEW r \in Int, NEW i \in Int,
           NEW p \in BOOLEAN, Add(r, i, p)
    PROVE  RoundInv' /\ SettledInv' /\ StoppedInv'
<1>1. /\ next_id \in Ids /\ next_id' = next_id + 1 /\ next_id \notin tasks
      /\ known <= next_id
  BY ScriptAssumption DEF Add, TypeInv, TypeOK, Ids, RoundInv
<1>2. RoundInv'
  BY <1>1 DEF Add, RoundInv, RoundClosed, TypeInv, TypeOK, Ids, NoId, clock
<1>3. \A id \in tasks : task'[id] = task[id]
  BY <1>1 DEF Add, TypeInv, TypeOK
<1>4. task'[next_id].cancelled = FALSE
  BY <1>1 DEF Add, TypeInv, TypeOK
<1>5. phase' = phase /\ known' = known /\ batch' = batch /\ current' = current
      /\ tasks' = tasks \cup {next_id} /\ stopped' = stopped
  BY DEF Add
<1>6. \A id \in tasks' : id < known => id \in tasks
  BY <1>1, <1>5 DEF TypeInv, TypeOK, Ids
<1>7. SettledInv'
  BY <1>3, <1>5, <1>6 DEF SettledInv, Settled, RoundComplete, IsPending
<1>8. StoppedInv'
  BY <1>3, <1>4, <1>5 DEF StoppedInv
<1>. QED  BY <1>2, <1>7, <1>8

\* What cancelling tasks means for them.
LEMMA MarkKeeps ==
    ASSUME TypeInv, RoundInv, SettledInv, StoppedInv, NEW ids \in SUBSET Ids,
           MarkCancelled(ids)
    PROVE  RoundInv' /\ SettledInv' /\ StoppedInv'
<1>1. RoundInv'
  BY DEF MarkCancelled, RoundInv, RoundClosed, clock
<1>2. \A id \in Ids : /\ task'[id].remaining = task[id].remaining
                      /\ task'[id].interval = task[id].interval
                      /\ task'[id].periodic = task[id].periodic
                      /\ task'[id].cancelled = (id \in ids \/ task[id].cancelled)
  BY DEF MarkCancelled, TypeInv, TypeOK
<1>3. SettledInv'
  BY <1>2 DEF MarkCancelled, SettledInv, Settled, RoundComplete, ScriptRuns,
              TypeInv, TypeOK, clock
<1>4. StoppedInv'
  BY <1>2 DEF MarkCancelled, StoppedInv, TypeInv, TypeOK
<1>. QED  BY <1>1, <1>3, <1>4

\* Every step of the script scheduler keeps the three invariants.
LEMMA NextRound ==
    TypeInv /\ RoundInv /\ SettledInv /\ StoppedInv /\ [Next]_vars
       => RoundInv' /\ SettledInv' /\ StoppedInv'
<1> SUFFICES ASSUME TypeInv, RoundInv, SettledInv, StoppedInv, [Next]_vars
             PROVE  RoundInv' /\ SettledInv' /\ StoppedInv'
  OBVIOUS
<1> DEFINE Keeps == RoundInv' /\ SettledInv' /\ StoppedInv'
<1>1. ASSUME NEW d \in Delays, Schedule(d) PROVE Keeps
  <2>1. d \in Int /\ 0 \in Int /\ FALSE \in BOOLEAN
    BY ScriptAssumption
  <2>2. Add(d, 0, FALSE)
    BY <1>1 DEF Schedule
  <2>. QED  BY <2>1, <2>2, AddKeeps
<1>2. ASSUME NEW i \in Intervals, NEW d \in Delays, SchedulePeriodic(i, d)
      PROVE  Keeps
  <2>1. (IF d > 0 THEN d ELSE i) \in Int /\ i \in Int /\ TRUE \in BOOLEAN
    BY ScriptAssumption
  <2>. QED  BY <1>2, <2>1, AddKeeps DEF SchedulePeriodic
<1>3. ASSUME NEW id \in Ids, Cancel(id) PROVE Keeps
  <2>1. {id} \in SUBSET Ids  OBVIOUS
  <2>. QED  BY <1>3, <2>1, MarkKeeps DEF Cancel
<1>4. ASSUME CancelAll PROVE Keeps
  <2>1. tasks \in SUBSET Ids  BY DEF TypeInv, TypeOK
  <2>. QED  BY <1>4, <2>1, MarkKeeps DEF CancelAll
<1>5. ASSUME RunStart \/ LoopStart \/ Tick PROVE Keeps
  <2>1. RoundInv'
    BY <1>5 DEF RunStart, LoopStart, Tick, RoundInv, RoundClosed, store, history
  <2>2. SettledInv'
    <3>1. CASE RunStart
      <4>1. \A id \in tasks : ~(id < 1)
        BY DEF TypeInv, TypeOK, Ids
      <4>. QED
        BY <3>1, <4>1 DEF RunStart, SettledInv, RoundComplete, store, history
    <3>2. CASE LoopStart
      BY <3>2 DEF LoopStart, SettledInv, RoundComplete, history
    <3>3. CASE Tick
      BY <3>3 DEF Tick, SettledInv, Settled, RoundComplete, IsPending, store, history
    <3>. QED  BY <1>5, <3>1, <3>2, <3>3
  <2>3. StoppedInv'
    BY <1>5 DEF RunStart, LoopStart, Tick, StoppedInv, store, history
  <2>. QED  BY <2>1, <2>2, <2>3
<1>6. ASSUME UpdateBegin PROVE Keeps
  <2>1. RoundInv'
    BY <1>6 DEF UpdateBegin, RoundInv, RoundClosed, TypeInv, TypeOK, Ids, NoId, clock
  <2>2. \A id \in tasks :
          /\ task'[id].cancelled = task[id].cancelled
          /\ task'[id].periodic = task[id].periodic
          /\ task'[id].interval = task[id].interval
    BY <1>6 DEF UpdateBegin, TypeInv, TypeOK
  <2>3. ASSUME NEW id \in tasks, ~task[id].cancelled
        PROVE  Settled(id)' \/ (id \in batch' /\ ~task[id].periodic)
    <3>0. id \in Ids /\ elapsed \in Nat /\ task[id].remaining \in Int
          /\ task[id].interval \in Int
      BY DEF TypeInv, TypeOK
    <3>1. CASE Expired(id) /\ task[id].periodic
      <4>1. task'[id].remaining = task[id].interval
        BY <1>6, <2>3, <3>0, <3>1 DEF UpdateBegin, TypeInv, TypeOK
      <4>2. task'[id].periodic /\ task'[id].interval = task[id].interval
        BY <2>2, <3>1
      <4>. QED  BY <3>0, <4>1, <4>2 DEF Settled
    <3>2. CASE Expired(id) /\ ~task[id].periodic
      BY <1>6, <3>2 DEF UpdateBegin
    <3>3. CASE ~Expired(id)
      <4>1. task'[id].remaining = task[id].remaining - elapsed
        BY <1>6, <2>3, <3>0, <3>3 DEF UpdateBegin, TypeInv, TypeOK
      <4>2. task[id].remaining > elapsed
        BY <2>3, <3>0, <3>3 DEF Expired
      <4>3. task'[id].remaining > 0
        BY <3>0, <4>1, <4>2
      <4>. QED  BY <4>3 DEF Settled
    <3>. QED  BY <3>1, <3>2, <3>3
  <2>4. SettledInv'
    BY <1>6, <2>2, <2>3 DEF UpdateBegin, SettledInv, RoundComplete
  <2>5. StoppedInv'
    BY <1>6, <2>2 DEF UpdateBegin, StoppedInv
  <2>. QED  BY <2>1, <2>4, <2>5
<1>7. ASSUME NEW id \in Ids, UpdateSkip(id) \/ UpdateCall(id) PROVE Keeps
  <2>1. RoundInv'
    BY <1>7 DEF UpdateSkip, UpdateCall, First, RoundInv, RoundClosed, TypeInv,
                TypeOK, Ids, NoId, store, history
  <2>2. SettledInv'
    <3>1. CASE UpdateSkip(id)
      BY <3>1 DEF UpdateSkip, SettledInv, Settled, RoundComplete, store, history
    <3>2. CASE UpdateCall(id)
      <4>1. \A j \in tasks : j \in batch \cup {current} => j \in batch' \cup {current'}
        BY <3>2 DEF UpdateCall, RoundInv, TypeInv, TypeOK, Ids, NoId
      <4>2. /\ tasks' = tasks /\ task' = task /\ known' = known
            /\ phase = "batch" /\ phase' = "callback"
        BY <3>2 DEF UpdateCall, store, history
      <4>. QED  BY <4>1, <4>2 DEF SettledInv, Settled, RoundComplete
    <3>. QED  BY <1>7, <3>1, <3>2
  <2>3. StoppedInv'
    BY <1>7 DEF UpdateSkip, UpdateCall, StoppedInv, store, history
  <2>. QED  BY <2>1, <2>2, <2>3
<1>8. ASSUME NEW r \in {"error", "false", "other"}, UpdateReturn(r) PROVE Keeps
  <2>0. current \in Ids
    BY <1>8 DEF UpdateReturn, TypeInv, TypeOK
  <2>1. RoundInv'
    BY <1>8, <2>0 DEF UpdateReturn, RoundInv, RoundClosed, TypeInv, TypeOK, Ids,
                      NoId, clock
  <2>2. \A id \in Ids :
          /\ task'[id].remaining = task[id].remaining
          /\ task'[id].interval = task[id].interval
          /\ task'[id].periodic = task[id].periodic
          /\ id # current => task'[id].cancelled = task[id].cancelled
    BY <1>8, <2>0 DEF UpdateReturn, TypeInv, TypeOK
  <2>3. task'[current].cancelled =
          (\/ task[current].cancelled
           \/ r = "false" /\ task[current].periodic
           \/ ~task[current].periodic)
    BY <1>8, <2>0 DEF UpdateReturn, TypeInv, TypeOK
  <2>4. SettledInv'
    <3>1. ASSUME NEW id \in tasks, id < known
          PROVE  \/ task'[id].cancelled
                 \/ Settled(id)'
                 \/ id \in batch /\ ~task'[id].periodic
      <4>1. id \in Ids  BY DEF TypeInv, TypeOK
      <4>2. \/ task[id].cancelled
            \/ Settled(id)
            \/ id \in batch \cup {current} /\ ~task[id].periodic
        BY <1>8, <3>1 DEF UpdateReturn, SettledInv
      <4>3. Settled(id) => Settled(id)'
        BY <2>2, <4>1 DEF Settled
      <4>4. task[id].cancelled => task'[id].cancelled
        BY <2>2, <2>3, <4>1
      <4>5. id = current /\ ~task[id].periodic => task'[id].cancelled
        BY <2>3
      <4>. QED  BY <2>2, <4>1, <4>2, <4>3, <4>4, <4>5
    <3>. QED  BY <1>8, <3>1 DEF UpdateReturn, SettledInv, RoundComplete
  <2>5. StoppedInv'
    BY <1>8, <2>2, <2>3 DEF UpdateReturn, StoppedInv, TypeInv, TypeOK
  <2>. QED  BY <2>1, <2>4, <2>5
<1>9. ASSUME UpdateEnd PROVE Keeps
  <2>1. RoundInv'
    BY <1>9 DEF UpdateEnd, RoundInv, RoundClosed, clock, history
  <2>2. \A id \in tasks' : id \in tasks /\ task'[id] = task[id] /\ ~task[id].cancelled
    BY <1>9 DEF UpdateEnd, TypeInv, TypeOK
  <2>3. SettledInv'
    BY <1>9, <2>2 DEF UpdateEnd, SettledInv, Settled, RoundComplete, IsPending,
                      RoundInv, TypeInv, TypeOK, Ids, NoId, history
  <2>4. StoppedInv'
    BY <2>2 DEF StoppedInv
  <2>. QED  BY <2>1, <2>3, <2>4
<1>10. ASSUME UNCHANGED vars PROVE Keeps
  <2>1. RoundInv'
    BY <1>10 DEF vars, store, clock, history, RoundInv, RoundClosed
  <2>2. SettledInv'
    BY <1>10 DEF vars, store, clock, history, SettledInv, Settled,
                 RoundComplete, IsPending
  <2>3. StoppedInv'
    BY <1>10 DEF vars, store, clock, history, StoppedInv
  <2>. QED  BY <2>1, <2>2, <2>3
<1>. QED
  BY <1>1, <1>2, <1>3, <1>4, <1>5, <1>6, <1>7, <1>8, <1>9, <1>10
  DEF Next, ScriptStep, LoopStep

LEMMA RoundInvariant == Spec => [](TypeInv /\ RoundInv /\ SettledInv /\ StoppedInv)
<1>1. Init => RoundInv /\ SettledInv /\ StoppedInv
  BY ScriptAssumption DEF Init, RoundInv, RoundClosed, SettledInv, StoppedInv,
     RoundComplete, Ids, NoId
<1>. QED  BY <1>1, InitType, NextType, NextRound, PTL DEF Spec

\* update() never runs a task that was erased or added while it runs.
THEOREM RoundsClosed == Spec => []RoundClosed
<1>1. RoundInv => RoundClosed
  BY DEF RoundInv
<1>. QED  BY <1>1, RoundInvariant, PTL

\* No round leaves a cancelled or an expired task behind.
THEOREM RoundsComplete == Spec => []RoundComplete
<1>1. SettledInv => RoundComplete
  BY DEF SettledInv
<1>. QED  BY <1>1, RoundInvariant, PTL

\* A round is closed while it runs and complete when it ends.
THEOREM RoundsExact == Spec => []RoundExact
  BY RoundsClosed, RoundsComplete, PTL DEF RoundExact

\* A task that has ended, or been cancelled, is not called again.
THEOREM EndIsFinal == Spec => NeverAfterEnd
<1>1. TypeInv /\ RoundInv /\ [Next]_vars =>
        [\A id \in Ids :
           id < next_id /\ ~IsPending(id) /\ current # id => current' # id]_vars
  <2> SUFFICES ASSUME TypeInv, RoundInv, Next, NEW id \in Ids, current # id,
                      ~IsPending(id)
               PROVE  current' # id
    OBVIOUS
  <2>1. ASSUME NEW j \in Ids, UpdateCall(j) PROVE current' # id
    BY <2>1 DEF UpdateCall, First, RoundInv, RoundClosed, IsPending
  <2>2. ASSUME NEW r \in {"error", "false", "other"}, UpdateReturn(r)
        PROVE  current' # id
    BY <2>2 DEF UpdateReturn, Ids, NoId
  <2>3. ASSUME ScriptStep PROVE current' = current
    BY <2>3 DEF ScriptStep, Schedule, SchedulePeriodic, Add, Cancel, CancelAll,
                MarkCancelled
  <2>4. ASSUME RunStart \/ LoopStart \/ UpdateBegin \/ UpdateEnd \/ Tick
        PROVE  current' = current
    BY <2>4 DEF RunStart, LoopStart, UpdateBegin, UpdateEnd, Tick
  <2>5. ASSUME NEW j \in Ids, UpdateSkip(j) PROVE current' = current
    BY <2>5 DEF UpdateSkip
  <2>. QED  BY <2>1, <2>2, <2>3, <2>4, <2>5 DEF Next, LoopStep
<1>. QED  BY <1>1, RoundInvariant, PTL DEF Spec, NeverAfterEnd

\* Only a script ends a periodic task; an error in its callback does not.
THEOREM PeriodicContinues == Spec => PeriodicPersists
<1>1. TypeInv /\ StoppedInv /\ [Next]_vars =>
        [\A id \in tasks \ tasks' : task[id].periodic => id \in stopped]_vars
  <2> SUFFICES ASSUME TypeInv, StoppedInv, Next, NEW id \in tasks, id \notin tasks',
                      task[id].periodic
               PROVE  id \in stopped
    OBVIOUS
  <2>1. CASE UpdateEnd
    BY <2>1 DEF UpdateEnd, StoppedInv
  <2>2. CASE ScriptStep
    BY <2>2 DEF ScriptStep, Schedule, SchedulePeriodic, Add, Cancel, CancelAll,
                MarkCancelled
  <2>3. ASSUME RunStart \/ LoopStart \/ UpdateBegin \/ Tick PROVE tasks' = tasks
    BY <2>3 DEF RunStart, LoopStart, UpdateBegin, Tick, store
  <2>4. ASSUME NEW r \in {"error", "false", "other"}, UpdateReturn(r)
        PROVE  tasks' = tasks
    BY <2>4 DEF UpdateReturn
  <2>5. ASSUME NEW j \in Ids, UpdateSkip(j) \/ UpdateCall(j) PROVE tasks' = tasks
    BY <2>5 DEF UpdateSkip, UpdateCall, store
  <2>. QED  BY <2>1, <2>2, <2>3, <2>4, <2>5 DEF Next, LoopStep
<1>. QED  BY <1>1, RoundInvariant, PTL DEF Spec, PeriodicPersists

-----------------------------------------------------------------------------
(* The time tasks are charged *)

\* The moment up to which the tasks have been charged.
ChargedTo == IF phase = "events" THEN prev - elapsed ELSE prev

\* NeverEarly made inductive: what is left of a task's delay, counted from the
\* moment up to which it was charged, ends after its due time, until that has
\* come; and it has come for every task that update() collected.
ChargeInv ==
    /\ phase = "load" => now = prev
    /\ \A id \in tasks : due[id] <= prev \/ due[id] <= ChargedTo + task[id].remaining
    /\ \A id \in batch \cup ({current} \ {NoId}) : due[id] <= now

LEMMA AddCharge ==
    ASSUME TypeInv, RoundInv, ChargeInv, NEW r \in Int, NEW i \in Int,
           NEW p \in BOOLEAN, Add(r, i, p)
    PROVE  ChargeInv'
<1>1. next_id \in Ids /\ next_id \notin tasks /\ next_id # NoId
  BY ScriptAssumption DEF Add, TypeInv, TypeOK, Ids, NoId, RoundInv
<1>2. /\ phase' = phase /\ now' = now /\ prev' = prev /\ ChargedTo' = ChargedTo
      /\ batch' = batch /\ current' = current /\ tasks' = tasks \cup {next_id}
  BY DEF Add, clock, ChargedTo
<1>3. batch \cup ({current} \ {NoId}) \subseteq tasks
  BY DEF RoundInv, RoundClosed
<1>4. \A id \in tasks : task'[id] = task[id] /\ due'[id] = due[id]
  BY <1>1 DEF Add, TypeInv, TypeOK
<1>5. due'[next_id] = CountedFrom + r /\ task'[next_id].remaining = r
  BY <1>1 DEF Add, TypeInv, TypeOK
<1>6. CountedFrom = ChargedTo
  BY DEF CountedFrom, ChargedTo, Add, ScriptRuns, ChargeInv
<1>7. CountedFrom + r \in Int
  BY DEF CountedFrom, Add, ScriptRuns, TypeInv, TypeOK
<1>8. due'[next_id] <= ChargedTo' + task'[next_id].remaining
  BY <1>2, <1>5, <1>6, <1>7
<1>. QED  BY <1>2, <1>3, <1>4, <1>8 DEF ChargeInv

\* Every step of the script scheduler keeps it.
LEMMA NextCharge ==
    TypeInv /\ RoundInv /\ ChargeInv /\ [Next]_vars => ChargeInv'
<1> SUFFICES ASSUME TypeInv, RoundInv, ChargeInv, [Next]_vars PROVE ChargeInv'
  OBVIOUS
<1>1. ASSUME NEW d \in Delays, Schedule(d) PROVE ChargeInv'
  <2>1. d \in Int /\ 0 \in Int /\ FALSE \in BOOLEAN
    BY ScriptAssumption
  <2>. QED  BY <1>1, <2>1, AddCharge DEF Schedule
<1>2. ASSUME NEW i \in Intervals, NEW d \in Delays, SchedulePeriodic(i, d)
      PROVE  ChargeInv'
  <2>1. (IF d > 0 THEN d ELSE i) \in Int /\ i \in Int /\ TRUE \in BOOLEAN
    BY ScriptAssumption
  <2>. QED  BY <1>2, <2>1, AddCharge DEF SchedulePeriodic
<1>3. ASSUME NEW ids \in SUBSET Ids, MarkCancelled(ids) PROVE ChargeInv'
  <2>1. \A id \in Ids : task'[id].remaining = task[id].remaining
    BY <1>3 DEF MarkCancelled, TypeInv, TypeOK
  <2>. QED
    BY <1>3, <2>1 DEF MarkCancelled, ChargeInv, ChargedTo, TypeInv, TypeOK, clock
<1>4. ASSUME NEW id \in Ids, Cancel(id) PROVE ChargeInv'
  BY <1>3, <1>4 DEF Cancel
<1>5. CASE CancelAll
  BY <1>3, <1>5 DEF CancelAll, TypeInv, TypeOK
<1>6. CASE RunStart
  BY <1>6 DEF RunStart, ChargeInv, ChargedTo, store, history
<1>7. CASE LoopStart
  BY <1>7 DEF LoopStart, ChargeInv, ChargedTo, TypeInv, TypeOK, store, history, Ids
<1>8. CASE UpdateBegin
  <2>1. /\ phase = "events" /\ phase' \in {"top", "batch"} /\ tasks' = tasks
        /\ due' = due /\ now' = now /\ prev' = prev
        /\ batch' = {id \in tasks : Expired(id)} /\ current' = NoId
    BY <1>8 DEF UpdateBegin, clock, RoundInv
  <2>2. ASSUME NEW id \in tasks
        PROVE  /\ Expired(id) => due[id] <= prev
               /\ due[id] <= prev \/ due[id] <= prev + task'[id].remaining
    <3>1. /\ id \in Ids /\ elapsed \in Nat /\ prev \in Nat /\ due[id] \in Int
          /\ task[id].remaining \in Int
      BY DEF TypeInv, TypeOK
    <3>2. due[id] <= prev \/ due[id] <= prev - elapsed + task[id].remaining
      BY <2>1 DEF ChargeInv, ChargedTo
    <3>3. Expired(id) => due[id] <= prev
      BY <3>1, <3>2 DEF Expired
    <3>4. ~Expired(id) => \/ task'[id].remaining = task[id].remaining - elapsed
                          \/ task'[id].remaining = task[id].remaining
      BY <1>8, <3>1 DEF UpdateBegin, TypeInv, TypeOK
    <3>. QED  BY <3>1, <3>2, <3>3, <3>4
  <2>3. prev <= now /\ prev \in Nat /\ now \in Nat /\ \A id \in tasks : due[id] \in Int
    BY DEF TypeInv, TypeOK
  <2>. QED  BY <2>1, <2>2, <2>3 DEF ChargeInv, ChargedTo
<1>9. ASSUME NEW id \in Ids, UpdateSkip(id) \/ UpdateCall(id) PROVE ChargeInv'
  BY <1>9 DEF UpdateSkip, UpdateCall, First, ChargeInv, ChargedTo, store, clock,
              history
<1>10. ASSUME NEW r \in {"error", "false", "other"}, UpdateReturn(r)
       PROVE  ChargeInv'
  <2>1. \A id \in Ids : task'[id].remaining = task[id].remaining
    BY <1>10 DEF UpdateReturn, TypeInv, TypeOK
  <2>. QED
    BY <1>10, <2>1 DEF UpdateReturn, ChargeInv, ChargedTo, TypeInv, TypeOK, clock
<1>11. CASE UpdateEnd
  <2>1. \A id \in tasks' : id \in tasks /\ task'[id] = task[id]
    BY <1>11 DEF UpdateEnd, TypeInv, TypeOK
  <2>. QED
    BY <1>11, <2>1 DEF UpdateEnd, ChargeInv, ChargedTo, clock, history
<1>12. CASE Tick
  <2>1. \A id \in Ids : due[id] <= now => due[id] <= now + 1
    BY DEF TypeInv, TypeOK
  <2>2. batch \cup ({current} \ {NoId}) \subseteq Ids
    BY DEF RoundInv, RoundClosed, TypeInv, TypeOK
  <2>. QED
    BY <1>12, <2>1, <2>2 DEF Tick, ChargeInv, ChargedTo, store, history
<1>13. CASE UNCHANGED vars
  BY <1>13 DEF vars, store, clock, history, ChargeInv, ChargedTo
<1>. QED
  BY <1>1, <1>2, <1>4, <1>5, <1>6, <1>7, <1>8, <1>9, <1>10, <1>11, <1>12,
     <1>13 DEF Next, ScriptStep, LoopStep

\* No task runs before the time it is charged amounts to its delay.
THEOREM NotEarly == Spec => []NeverEarly
<1>1. Init => ChargeInv
  BY DEF Init, ChargeInv
<1>2. ChargeInv => NeverEarly
  BY DEF ChargeInv, NeverEarly
<1>. QED  BY <1>1, <1>2, RoundInvariant, NextCharge, PTL DEF Spec

=============================================================================
