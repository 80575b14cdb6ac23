--------------------------- MODULE SchedulerProofs ---------------------------
(***************************************************************************)
(* Theorems about Scheduler, for every pool, every set of tags and         *)
(* options, and every bound.                                               *)
(***************************************************************************)
EXTENDS Scheduler, FiniteSetTheorems, TLAPS

USE DEF Due, Cancelled

-----------------------------------------------------------------------------
(* Type correctness *)

LEMMA NotifiedType ==
    ASSUME NEW pc \in TimerPcs
    PROVE  TimerNotified(pc) \in TimerPcs
  BY DEF TimerNotified, TimerPcs

\* The initial state has the right types.
LEMMA InitType == Init => TypeOK
<1>. SUFFICES ASSUME Init PROVE TypeOK  OBVIOUS
<1>. USE SchedulerAssumption DEF Init
<1>1. task \in [Ids -> TaskRecord]
  BY DEF NoTask, TaskRecord
<1>2. /\ next_id \in 1..(MaxId + 1)
      /\ timer_pc \in TimerPcs
  BY DEF TimerPcs
<1>3. /\ ready_queue \in Seq(Ids)
      /\ tasks_by_tag \in [Tags -> SUBSET Ids]
  OBVIOUS
<1>4. /\ worker_pc \in [Workers -> {"loop", "lock", "wait", "run", "done"}]
      /\ worker_task \in [Workers -> Ids \cup {NoId}]
      /\ caller_pc \in [Callers -> {"out", "wait", "woken"}]
  OBVIOUS
<1>5. \A w \in Workers : worker_pc[w] # "run"
  OBVIOUS
<1>6. /\ task_queue \subseteq Ids /\ pending_tasks \subseteq Ids
      /\ cancelled_tasks \subseteq Ids /\ running_tasks \subseteq Ids
      /\ begun \subseteq Ids /\ unnotified \subseteq Ids
  OBVIOUS
<1>7. /\ active_tasks \in Int /\ promoted \in Nat /\ deadline \in Nat
      /\ now \in Nat /\ stop_pc \in {"no", "notify", "join", "done"}
  OBVIOUS
<1>8. running \in BOOLEAN /\ paused \in BOOLEAN
  OBVIOUS
<1>. QED  BY ONLY <1>1, <1>2, <1>3, <1>4, <1>5, <1>6, <1>7, <1>8 DEF TypeOK

\* Each step of a caller preserves the types.
LEMMA CallerType == TypeOK /\ CallerStep => TypeOK'
<1>. SUFFICES ASSUME TypeOK, CallerStep PROVE TypeOK'  OBVIOUS
<1>. USE SchedulerAssumption DEF TypeOK, store, timer, workers, flags, calls
<1>1. ASSUME NEW o \in Options, ScheduleBegin(o) PROVE TypeOK'
  <2>1. next_id \in Ids  BY <1>1 DEF ScheduleBegin, Ids
  <2>2. [tag |-> o.tag, priority |-> o.priority, at |-> now + o.delay,
         interval |-> o.interval, stoppable |-> o.stoppable,
         root |-> next_id] \in TaskRecord
    BY <2>1 DEF TaskRecord, Ids
  <2>3. task' \in [Ids -> TaskRecord]
    BY <1>1, <2>1, <2>2 DEF ScheduleBegin
  <2>. QED  BY <1>1, <2>1, <2>3 DEF ScheduleBegin, Ids
<1>2. ASSUME NEW id \in Ids, ScheduleCommit(id) PROVE TypeOK'
  BY <1>2 DEF ScheduleCommit, Tagged
<1>3. ASSUME NEW id \in Ids, ScheduleReject(id) PROVE TypeOK'
  <2>1. NoTask \in TaskRecord  BY DEF NoTask, TaskRecord
  <2>. QED  BY <1>3, <2>1 DEF ScheduleReject
<1>4. ASSUME NEW id \in Ids, ScheduleNotify(id) PROVE TypeOK'
  BY <1>4, NotifiedType DEF ScheduleNotify
<1>5. ASSUME NEW ids \in SUBSET Ids, Mark(ids) PROVE TypeOK'
  BY <1>5 DEF Mark
<1>6. CASE Pause  BY <1>6 DEF Pause
<1>7. CASE Resume
  BY <1>7, NotifiedType DEF Resume, AllWorkersNotified
<1>8. CASE StopFlag  BY <1>8 DEF StopFlag
<1>9. CASE StopNotify
  BY <1>9, NotifiedType DEF StopNotify, AllWorkersNotified
<1>10. CASE StopJoin  BY <1>10 DEF StopJoin
<1>11. ASSUME NEW c \in Callers, WaitAllEnter(c) \/ WaitAllWake(c) PROVE TypeOK'
  BY <1>11 DEF WaitAllEnter, WaitAllWake
<1>12. ASSUME NEW id \in Ids, Cancel(id) PROVE TypeOK'
  BY <1>5, <1>12 DEF Cancel
<1>13. ASSUME NEW t \in Tags, CancelByTag(t) PROVE TypeOK'
  BY <1>5, <1>13 DEF CancelByTag
<1>14. CASE CancelAll  BY <1>5, <1>14 DEF CancelAll
<1>. QED
  BY <1>1, <1>2, <1>3, <1>4, <1>6, <1>7, <1>8, <1>9, <1>10, <1>11, <1>12,
     <1>13, <1>14
     DEF CallerStep, ScheduleStep
\* Each step of the timer preserves the types.
LEMMA TimerType == TypeOK /\ TimerStep => TypeOK'
<1>. SUFFICES ASSUME TypeOK, TimerStep PROVE TypeOK'  OBVIOUS
<1>. USE SchedulerAssumption DEF TypeOK, store, timer, workers, flags, calls
<1>1. ASSUME NEW pc \in TimerPcs, TimerGoto(pc) PROVE TypeOK'
  BY <1>1 DEF TimerGoto
<1>2. ASSUME TimerLoop \/ TimerLock \/ TimerWakeEmpty PROVE TypeOK'
  BY <1>1, <1>2 DEF TimerLoop, TimerLock, TimerWakeEmpty, TimerPcs
<1>3. ASSUME TimerPauseCheck \/ TimerPausePred \/ TimerPauseBlock \/ TimerWakePause
      PROVE  TypeOK'
  BY <1>1, <1>3
     DEF TimerPauseCheck, TimerPausePred, TimerPauseBlock, TimerWakePause, TimerPcs
<1>4. ASSUME NEW id \in Ids, TimerDrop(id) PROVE TypeOK'
  <2>1. NoTask \in TaskRecord  BY DEF NoTask, TaskRecord
  <2>. QED  BY <1>4, <2>1 DEF TimerDrop, Untagged, TimerPcs
<1>5. ASSUME NEW id \in Ids, TimerPromote(id) PROVE TypeOK'
  <2>1. worker_pc' \in [Workers -> {"loop", "lock", "wait", "run", "done"}]
    BY <1>5 DEF TimerPromote, NotifyOneWorker
  <2>2. \A w \in Workers : worker_pc'[w] = "run" => worker_task'[w] \in Ids
    BY <1>5 DEF TimerPromote, NotifyOneWorker
  <2>3. ready_queue' \in Seq(Ids) /\ promoted' \in Nat
    BY <1>5 DEF TimerPromote
  <2>4. timer_pc' \in TimerPcs /\ task_queue' \subseteq Ids
    BY <1>5 DEF TimerPromote, TimerPcs
  <2>5. UNCHANGED <<task, pending_tasks, cancelled_tasks, running_tasks,
                    tasks_by_tag, active_tasks, next_id, deadline, worker_task,
                    running, paused, stop_pc, begun, unnotified, caller_pc, now>>
    BY <1>5 DEF TimerPromote
  <2>. QED  BY ONLY TypeOK, <2>1, <2>2, <2>3, <2>4, <2>5 DEF TypeOK
<1>6. ASSUME NEW id \in Ids, TimerSleep(id) PROVE TypeOK'
  <2>1. task[id].at \in Nat  BY DEF TaskRecord
  <2>. QED  BY <1>6, <2>1 DEF TimerSleep, TimerPcs
<1>7. CASE TimerTimeout
  BY <1>1, <1>7 DEF TimerTimeout, TimerPcs
<1>8. CASE TimerWakeTimed
  BY <1>8 DEF TimerWakeTimed, TimerPcs
<1>. QED
  BY <1>2, <1>3, <1>4, <1>5, <1>6, <1>7, <1>8 DEF TimerStep

\* Each step of a worker preserves the types.
LEMMA WorkerType == ASSUME NEW w \in Workers PROVE TypeOK /\ WorkerStep(w) => TypeOK'
<1>. SUFFICES ASSUME TypeOK, WorkerStep(w) PROVE TypeOK'  OBVIOUS
<1>. USE SchedulerAssumption DEF TypeOK, store, timer, workers, flags, calls
<1>0. NoTask \in TaskRecord  BY DEF NoTask, TaskRecord
<1>1. CASE WorkerLoop(w)  BY <1>1 DEF WorkerLoop, WorkerGoto
<1>2. CASE WorkerLock(w)  BY <1>2 DEF WorkerLock, WorkerGoto
<1>3. CASE WorkerTake(w)
  <2>1. Head(ready_queue) \in Ids /\ Tail(ready_queue) \in Seq(Ids)
    BY <1>3 DEF WorkerTake
  <2>2. /\ worker_pc' \in [Workers -> {"loop", "lock", "wait", "run", "done"}]
        /\ worker_task' \in [Workers -> Ids \cup {NoId}]
        /\ \A v \in Workers : worker_pc'[v] = "run" => worker_task'[v] \in Ids
    BY <1>3, <2>1 DEF WorkerTake
  <2>3. /\ pending_tasks' \subseteq Ids /\ running_tasks' \subseteq Ids
        /\ ready_queue' \in Seq(Ids) /\ active_tasks' \in Int
    BY <1>3, <2>1 DEF WorkerTake
  <2>. QED  BY <1>3, <2>2, <2>3 DEF WorkerTake
<1>4. CASE WorkerFinishLast(w)
  <2>1. task' \in [Ids -> TaskRecord]
    BY <1>0, <1>4 DEF WorkerFinishLast
  <2>2. caller_pc' \in [Callers -> {"out", "wait", "woken"}]
    BY <1>4 DEF WorkerFinishLast, AllCallersNotified
  <2>3. tasks_by_tag' \in [Tags -> SUBSET Ids]
    BY <1>4 DEF WorkerFinishLast, Untagged
  <2>. QED  BY <1>4, <2>1, <2>2, <2>3 DEF WorkerFinishLast, WorkerRelease
<1>5. CASE WorkerFinishAgain(w)
  <2>. DEFINE id == worker_task[w]
  <2>1. next_id \in Ids  BY <1>5 DEF WorkerFinishAgain, RoundLeft, Ids
  <2>2. id \in Ids
    BY <1>5 DEF WorkerFinishAgain, WorkerRelease
  <2>3. [task[id] EXCEPT !.at = now + task[id].interval] \in TaskRecord
    <3>1. task[id] \in TaskRecord  BY <2>2
    <3>2. now + task[id].interval \in Nat  BY <3>1 DEF TaskRecord
    <3>. QED  BY <3>1, <3>2 DEF TaskRecord
  <2>4. task' \in [Ids -> TaskRecord]
    BY <1>0, <1>5, <2>1, <2>3 DEF WorkerFinishAgain
  <2>5. tasks_by_tag' \in [Tags -> SUBSET Ids]
    BY <1>5, <2>1 DEF WorkerFinishAgain
  <2>6. next_id' \in 1..(MaxId + 1) /\ timer_pc' \in TimerPcs
    BY <1>5, <2>1, NotifiedType DEF WorkerFinishAgain, Ids
  <2>7. /\ worker_pc' \in [Workers -> {"loop", "lock", "wait", "run", "done"}]
        /\ worker_task' \in [Workers -> Ids \cup {NoId}]
        /\ \A v \in Workers : worker_pc'[v] = "run" => worker_task'[v] \in Ids
    BY <1>5 DEF WorkerFinishAgain, WorkerRelease
  <2>8. /\ pending_tasks' \subseteq Ids /\ cancelled_tasks' \subseteq Ids
        /\ running_tasks' \subseteq Ids /\ task_queue' \subseteq Ids
        /\ active_tasks' \in Int
    BY <1>5, <2>1 DEF WorkerFinishAgain, WorkerRelease
  <2>. QED
    BY <1>5, <2>4, <2>5, <2>6, <2>7, <2>8 DEF WorkerFinishAgain, WorkerRelease
<1>. QED
  BY <1>1, <1>2, <1>3, <1>4, <1>5 DEF WorkerStep, WorkerFinish

\* Every variable of the scheduler keeps its type.
THEOREM TypeCorrect == Spec => []TypeOK
<1>1. TypeOK /\ [Next]_vars => TypeOK'
  <2>. SUFFICES ASSUME TypeOK, [Next]_vars PROVE TypeOK'  OBVIOUS
  <2>1. CASE SpuriousStep \/ Tick
    BY <2>1, NotifiedType
       DEF TypeOK, SpuriousStep, SpuriousTimer, SpuriousWorker, SpuriousCaller,
           TimerGoto, WorkerGoto, Tick, store, timer, workers, flags, calls
  <2>2. CASE UNCHANGED vars
    BY <2>2 DEF TypeOK, vars, store, timer, workers, flags, calls
  <2>. QED
    BY <2>1, <2>2, CallerType, TimerType, WorkerType DEF Next, Stopped
<1>. QED  BY <1>1, InitType, PTL DEF Spec
-----------------------------------------------------------------------------
(* Waking up, pausing and stopping *)

\* What StopWakesAll, PauseHolds and TimerNotForgotten need to be inductive:
\* stop() clears running_ under the mutex, so not while the timer is between
\* its predicate and its sleep; and a timer that is about to promote under a
\* pause has not promoted since.
ControlInv ==
    /\ running <=> stop_pc = "no"
    /\ timer_pc = "pauseBlock" => running
    /\ StopWakesAll
    /\ paused => promoted = 0 \/ (promoted = 1 /\ timer_pc # "promote")
    /\ TimerNotForgotten

LEMMA ControlCaller == TypeOK /\ ControlInv /\ CallerStep => ControlInv'
<1>. SUFFICES ASSUME TypeOK, ControlInv, CallerStep PROVE ControlInv'  OBVIOUS
<1>. USE DEF TypeOK, ControlInv, StopWakesAll, TimerNotForgotten, MutexFree,
             TimerNotified, AllWorkersNotified, store, timer, workers, flags, calls
<1>1. ASSUME NEW o \in Options, ScheduleBegin(o) PROVE ControlInv'
  BY <1>1 DEF ScheduleBegin
<1>2. ASSUME NEW id \in Ids, ScheduleStep(id) PROVE ControlInv'
  BY <1>2 DEF ScheduleStep, ScheduleCommit, ScheduleReject, ScheduleNotify
<1>3. ASSUME NEW ids, Mark(ids) PROVE ControlInv'
  BY <1>3 DEF Mark
<1>4. CASE Pause \/ Resume
  BY <1>4 DEF Pause, Resume
<1>5. CASE StopFlag \/ StopNotify \/ StopJoin
  BY <1>5 DEF StopFlag, StopNotify, StopJoin
<1>6. ASSUME NEW c \in Callers, WaitAllEnter(c) \/ WaitAllWake(c) PROVE ControlInv'
  BY <1>6 DEF WaitAllEnter, WaitAllWake
<1>. QED
  BY <1>1, <1>2, <1>3, <1>4, <1>5, <1>6
     DEF CallerStep, Cancel, CancelByTag, CancelAll

LEMMA ControlTimer == TypeOK /\ ControlInv /\ TimerStep => ControlInv'
<1>. SUFFICES ASSUME TypeOK, ControlInv, TimerStep PROVE ControlInv'  OBVIOUS
<1>. USE DEF TypeOK, ControlInv, StopWakesAll, TimerNotForgotten,
             store, timer, workers, flags, calls
<1>1. CASE TimerLoop \/ TimerLock \/ TimerWakeEmpty
  BY <1>1 DEF TimerLoop, TimerLock, TimerWakeEmpty, TimerGoto
<1>2. CASE TimerPauseCheck \/ TimerPausePred \/ TimerPauseBlock \/ TimerWakePause
  BY <1>2
     DEF TimerPauseCheck, TimerPausePred, TimerPauseBlock, TimerWakePause, TimerGoto
<1>3. ASSUME NEW id \in Ids, TimerDrop(id) PROVE ControlInv'
  BY <1>3 DEF TimerDrop
<1>4. ASSUME NEW id \in Ids, TimerPromote(id) PROVE ControlInv'
  BY <1>4 DEF TimerPromote, NotifyOneWorker
<1>5. ASSUME NEW id \in Ids, TimerSleep(id) PROVE ControlInv'
  BY <1>5 DEF TimerSleep
<1>6. CASE TimerTimeout \/ TimerWakeTimed
  BY <1>6 DEF TimerTimeout, TimerWakeTimed, TimerGoto
<1>. QED
  BY <1>1, <1>2, <1>3, <1>4, <1>5, <1>6 DEF TimerStep

LEMMA ControlWorker ==
    ASSUME NEW w \in Workers
    PROVE  TypeOK /\ ControlInv /\ WorkerStep(w) => ControlInv'
<1>. SUFFICES ASSUME TypeOK, ControlInv, WorkerStep(w) PROVE ControlInv'  OBVIOUS
<1>. USE DEF TypeOK, ControlInv, StopWakesAll, TimerNotForgotten,
             store, timer, workers, flags, calls
<1>1. CASE WorkerLoop(w) \/ WorkerLock(w)
  BY <1>1 DEF WorkerLoop, WorkerLock, WorkerGoto
<1>2. CASE WorkerTake(w)
  BY <1>2 DEF WorkerTake
<1>3. CASE WorkerFinishLast(w)
  BY <1>3 DEF WorkerFinishLast, WorkerRelease
<1>4. CASE WorkerFinishAgain(w)
  BY <1>4 DEF WorkerFinishAgain, WorkerRelease, TimerNotified
<1>. QED  BY <1>1, <1>2, <1>3, <1>4 DEF WorkerStep, WorkerFinish

LEMMA ControlInductive == Spec => []ControlInv
<1>1. Init => ControlInv
  BY DEF Init, ControlInv, StopWakesAll, TimerNotForgotten
<1>2. TypeOK /\ ControlInv /\ [Next]_vars => ControlInv'
  <2>. SUFFICES ASSUME TypeOK, ControlInv, [Next]_vars PROVE ControlInv'  OBVIOUS
  <2>1. CASE SpuriousStep \/ Tick
    BY <2>1
       DEF TypeOK, ControlInv, StopWakesAll, TimerNotForgotten, TimerNotified,
           SpuriousStep, SpuriousTimer, SpuriousWorker, SpuriousCaller,
           TimerGoto, WorkerGoto, Tick, store, timer, workers, flags, calls
  <2>2. CASE UNCHANGED vars
    BY <2>2 DEF ControlInv, StopWakesAll, TimerNotForgotten, vars, store, timer,
                workers, flags, calls
  <2>. QED
    BY <2>1, <2>2, ControlCaller, ControlTimer, ControlWorker DEF Next, Stopped
<1>. QED  BY <1>1, <1>2, TypeCorrect, PTL DEF Spec

\* stop() never joins a sleeping thread.
THEOREM StopWakes == Spec => []StopWakesAll
  BY ControlInductive, PTL DEF ControlInv

\* After pause() at most one more task is promoted.
THEOREM PauseEffective == Spec => []PauseHolds
<1>1. ControlInv => PauseHolds  BY DEF ControlInv, PauseHolds
<1>. QED  BY <1>1, ControlInductive, PTL

\* The timer never sleeps for want of tasks while one waits for it, but for the
\* moment before the notification.
THEOREM TimerWakes == Spec => []TimerNotForgotten
  BY ControlInductive, PTL DEF ControlInv

\* No thread sleeps on when there is something to wake for.
THEOREM Sleepers == Spec => []SleepersWake
  BY StopWakes, TimerWakes, PTL DEF SleepersWake
-----------------------------------------------------------------------------
(* Bookkeeping *)

\* What push and pop do to the contents of the ready queue.
LEMMA PushContents ==
    ASSUME NEW S, NEW s \in Seq(S), NEW e \in S
    PROVE  /\ ToSet(Append(s, e)) = ToSet(s) \cup {e}
           /\ IsInjective(s) /\ e \notin ToSet(s) => IsInjective(Append(s, e))
<1>. USE DEF ToSet, IsInjective
<1>1. /\ Len(Append(s, e)) = Len(s) + 1
      /\ \A i \in 1..Len(s) : Append(s, e)[i] = s[i]
      /\ Append(s, e)[Len(s) + 1] = e
      /\ DOMAIN Append(s, e) = 1..(Len(s) + 1)
      /\ DOMAIN s = 1..Len(s) /\ Len(s) \in Nat
  OBVIOUS
<1>2. ToSet(Append(s, e)) \subseteq ToSet(s) \cup {e}
  BY <1>1
<1>3. ToSet(s) \cup {e} \subseteq ToSet(Append(s, e))
  BY <1>1
<1>4. ASSUME IsInjective(s), e \notin ToSet(s) PROVE IsInjective(Append(s, e))
  BY <1>1, <1>4
<1>. QED  BY <1>2, <1>3, <1>4

LEMMA PopContents ==
    ASSUME NEW S, NEW s \in Seq(S), s # <<>>, IsInjective(s)
    PROVE  /\ Head(s) \in ToSet(s)
           /\ ToSet(Tail(s)) = ToSet(s) \ {Head(s)}
           /\ IsInjective(Tail(s))
<1>. USE DEF ToSet, IsInjective
<1>1. /\ Len(s) \in Nat /\ Len(s) > 0 /\ Head(s) = s[1] /\ DOMAIN s = 1..Len(s)
      /\ DOMAIN Tail(s) = 1..(Len(s) - 1)
      /\ \A i \in 1..(Len(s) - 1) : Tail(s)[i] = s[i + 1]
  OBVIOUS
<1>2. ToSet(Tail(s)) \subseteq ToSet(s) \ {Head(s)}
  BY <1>1
<1>3. ASSUME NEW x \in ToSet(s), x # Head(s) PROVE x \in ToSet(Tail(s))
  <2>1. PICK i \in 1..Len(s) : x = s[i]  BY <1>1
  <2>2. i # 1  BY <2>1, <1>1, <1>3
  <2>3. i - 1 \in 1..(Len(s) - 1) /\ Tail(s)[i - 1] = x  BY <1>1, <2>1, <2>2
  <2>. QED  BY <1>1, <2>3
<1>4. IsInjective(Tail(s))  BY <1>1
<1>. QED  BY <1>1, <1>2, <1>3, <1>4

\* BookkeepingExact with what makes it inductive: ids are fresh, and marks are
\* on live tasks only.
StoreInv ==
    /\ BookkeepingExact
    /\ NoStaleCancellation
    /\ \A id \in begun \cup Live : id < next_id

LEMMA FiniteIds == ASSUME NEW S \in SUBSET Ids PROVE IsFiniteSet(S)
<1>1. IsFiniteSet(Ids)
  BY FS_Interval, SchedulerAssumption DEF Ids
<1>. QED  BY ONLY <1>1, FS_Subset, S \in SUBSET Ids

\* A step that touches neither the containers nor a running worker.
LEMMA StoreFrame ==
    ASSUME StoreInv, UNCHANGED <<store, worker_task, begun>>,
           \A w \in Workers : (worker_pc'[w] = "run") <=> (worker_pc[w] = "run")
    PROVE  StoreInv'
<1>1. UNCHANGED <<ready_queue, task_queue, pending_tasks, running_tasks,
                  cancelled_tasks, active_tasks, next_id, worker_task, begun>>
  BY DEF store
<1>. QED
  BY ONLY StoreInv, <1>1,
     \A w \in Workers : (worker_pc'[w] = "run") <=> (worker_pc[w] = "run")
     DEF StoreInv, BookkeepingExact, NoStaleCancellation, Live

LEMMA StoreCaller == TypeOK /\ StoreInv /\ CallerStep => StoreInv'
<1>. SUFFICES ASSUME TypeOK, StoreInv, CallerStep PROVE StoreInv'  OBVIOUS
<1>1. ASSUME NEW o \in Options, ScheduleBegin(o) PROVE StoreInv'
  BY <1>1
     DEF ScheduleBegin, TypeOK, StoreInv, BookkeepingExact, NoStaleCancellation,
         Live, Ids, workers
<1>2. ASSUME NEW id \in Ids, ScheduleCommit(id) PROVE StoreInv'
  BY <1>2
     DEF ScheduleCommit, StoreInv, BookkeepingExact, NoStaleCancellation, Live,
         workers
<1>3. ASSUME NEW id \in Ids, ScheduleReject(id) PROVE StoreInv'
  BY <1>3
     DEF ScheduleReject, StoreInv, BookkeepingExact, NoStaleCancellation, Live,
         workers
<1>4. ASSUME NEW id \in Ids, ScheduleNotify(id) PROVE StoreInv'
  BY <1>4, StoreFrame DEF ScheduleNotify, workers
<1>5. ASSUME NEW ids \in SUBSET pending_tasks, Mark(ids) PROVE StoreInv'
  BY <1>5
     DEF Mark, StoreInv, BookkeepingExact, NoStaleCancellation, Live, workers, calls
<1>6. CASE Pause
  BY <1>6, StoreFrame DEF Pause, workers, calls
<1>7. ASSUME Resume \/ StopNotify PROVE StoreInv'
  BY <1>7, StoreFrame DEF Resume, StopNotify, AllWorkersNotified, TypeOK, calls
<1>8. CASE StopFlag \/ StopJoin
  BY <1>8, StoreFrame DEF StopFlag, StopJoin, workers, calls
<1>9. ASSUME NEW c \in Callers, WaitAllEnter(c) \/ WaitAllWake(c) PROVE StoreInv'
  BY <1>9, StoreFrame DEF WaitAllEnter, WaitAllWake, workers, calls
<1>10. ASSUME NEW id \in Ids, Cancel(id) PROVE StoreInv'
  BY <1>5, <1>10 DEF Cancel
<1>11. ASSUME NEW t \in Tags, CancelByTag(t) PROVE StoreInv'
  BY <1>5, <1>11 DEF CancelByTag
<1>12. CASE CancelAll  BY <1>5, <1>12 DEF CancelAll
<1>. QED
  BY <1>1, <1>2, <1>3, <1>4, <1>6, <1>7, <1>8, <1>9, <1>10, <1>11, <1>12
     DEF CallerStep, ScheduleStep

LEMMA StoreTimer == TypeOK /\ StoreInv /\ TimerStep => StoreInv'
<1>. SUFFICES ASSUME TypeOK, StoreInv, TimerStep PROVE StoreInv'  OBVIOUS
<1>1. ASSUME NEW pc, TimerGoto(pc) PROVE StoreInv'
  BY <1>1, StoreFrame DEF TimerGoto, workers, calls
<1>2. ASSUME NEW id \in Ids, TimerDrop(id) PROVE StoreInv'
  BY <1>2
     DEF TimerDrop, Top, StoreInv, BookkeepingExact, NoStaleCancellation, Live,
         workers, calls
<1>3. ASSUME NEW id \in Ids, TimerPromote(id) PROVE StoreInv'
  <2>1. id \in task_queue /\ id \notin ToSet(ready_queue) /\ IsInjective(ready_queue)
    BY <1>3 DEF TimerPromote, Top, StoreInv, BookkeepingExact
  <2>2. /\ ToSet(ready_queue') = ToSet(ready_queue) \cup {id}
        /\ IsInjective(ready_queue')
    BY <1>3, <2>1, PushContents DEF TimerPromote, TypeOK
  <2>3. \A w \in Workers : (worker_pc'[w] = "run") <=> (worker_pc[w] = "run")
    BY <1>3 DEF TimerPromote, NotifyOneWorker, TypeOK
  <2>4. /\ task_queue' = task_queue \ {id}
        /\ UNCHANGED <<pending_tasks, cancelled_tasks, running_tasks, active_tasks,
                       next_id, worker_task, begun>>
    BY <1>3 DEF TimerPromote, calls
  <2>. QED
    BY ONLY StoreInv, <2>1, <2>2, <2>3, <2>4
       DEF StoreInv, BookkeepingExact, NoStaleCancellation, Live
<1>4. ASSUME NEW id \in Ids, TimerSleep(id) PROVE StoreInv'
  BY <1>4, StoreFrame DEF TimerSleep, workers, calls
<1>5. CASE TimerWakeTimed
  BY <1>5, StoreFrame DEF TimerWakeTimed, workers, calls
<1>. QED
  BY <1>1, <1>2, <1>3, <1>4, <1>5
     DEF TimerStep, TimerLoop, TimerLock, TimerWakeEmpty, TimerPauseCheck,
         TimerPausePred, TimerPauseBlock, TimerWakePause, TimerTimeout

LEMMA StoreWorker ==
    ASSUME NEW w \in Workers
    PROVE  TypeOK /\ StoreInv /\ WorkerStep(w) => StoreInv'
<1>. SUFFICES ASSUME TypeOK, StoreInv, WorkerStep(w) PROVE StoreInv'  OBVIOUS
<1>. USE DEF TypeOK, StoreInv, BookkeepingExact, NoStaleCancellation, Live, NoId,
             store, timer, workers, flags, calls
<1>1. CASE WorkerLoop(w) \/ WorkerLock(w)
  BY <1>1, StoreFrame DEF WorkerLoop, WorkerLock, WorkerGoto
<1>2. IsFiniteSet(running_tasks)
  BY FiniteIds
<1>3. CASE WorkerTake(w)
  <2>. DEFINE id == Head(ready_queue)
  <2>1. /\ id \in ToSet(ready_queue) /\ id \in Ids
        /\ ToSet(ready_queue') = ToSet(ready_queue) \ {id}
        /\ IsInjective(ready_queue')
    BY <1>3, PopContents DEF WorkerTake
  <2>2. active_tasks' = Cardinality(running_tasks')
    <3>1. /\ running_tasks' = running_tasks \cup {id} /\ id \notin running_tasks
          /\ active_tasks' = Cardinality(running_tasks) + 1
      BY <1>3, <2>1 DEF WorkerTake
    <3>. QED  BY ONLY <1>2, <3>1, FS_AddElement
  <2>3. running_tasks' = {worker_task'[v] : v \in Workers} \ {NoId}
    BY <1>3, <2>1 DEF WorkerTake, Ids
  <2>. QED  BY <1>3, <2>1, <2>2, <2>3 DEF WorkerTake, Ids
<1>4. ASSUME WorkerRelease(w)
      PROVE  /\ worker_task[w] \in running_tasks
             /\ active_tasks' = Cardinality(running_tasks')
             /\ running_tasks' = {worker_task'[v] : v \in Workers} \ {NoId}
             /\ \A v \in Workers :
                  /\ (worker_pc'[v] = "run") <=> (worker_task'[v] # NoId)
                  /\ \A u \in Workers : u # v /\ worker_pc'[v] = "run"
                                          => worker_task'[u] # worker_task'[v]
  <2>1. /\ worker_task[w] \in running_tasks
        /\ running_tasks' = running_tasks \ {worker_task[w]}
        /\ active_tasks' = Cardinality(running_tasks) - 1
    BY <1>4 DEF WorkerRelease, Ids
  <2>2. active_tasks' = Cardinality(running_tasks')
    BY ONLY <1>2, <2>1, FS_RemoveElement
  <2>3. \A v \in Workers :
          /\ worker_task'[v] = IF v = w THEN NoId ELSE worker_task[v]
          /\ worker_pc'[v] = IF v = w THEN "loop" ELSE worker_pc[v]
    BY <1>4 DEF WorkerRelease
  <2>4. running_tasks' = {worker_task'[v] : v \in Workers} \ {NoId}
    BY <1>4, <2>1, <2>3 DEF WorkerRelease, Ids
  <2>. QED  BY <2>1, <2>2, <2>3, <2>4
<1>5. CASE WorkerFinishLast(w)
  BY <1>4, <1>5 DEF WorkerFinishLast, WorkerRelease
<1>6. CASE WorkerFinishAgain(w)
  BY <1>4, <1>6 DEF WorkerFinishAgain, WorkerRelease, Ids
<1>. QED  BY <1>1, <1>3, <1>5, <1>6 DEF WorkerStep, WorkerFinish
LEMMA StoreStep == TypeOK /\ StoreInv /\ [Next]_vars => StoreInv'
<1>. SUFFICES ASSUME TypeOK, StoreInv, [Next]_vars PROVE StoreInv'  OBVIOUS
<1>1. CASE SpuriousStep \/ Tick
  BY <1>1, StoreFrame
     DEF SpuriousStep, SpuriousTimer, SpuriousWorker, SpuriousCaller, TimerGoto,
         WorkerGoto, Tick, TypeOK, workers, calls
<1>2. CASE UNCHANGED vars
  BY <1>2, StoreFrame DEF vars, workers, calls
<1>. QED
  BY <1>1, <1>2, StoreCaller, StoreTimer, StoreWorker DEF Next, Stopped

LEMMA StoreInductive == Spec => []StoreInv
<1>1. Init => StoreInv
  <2>. SUFFICES ASSUME Init PROVE StoreInv  OBVIOUS
  <2>1. ToSet(ready_queue) = {} /\ IsInjective(ready_queue)
    BY DEF Init, ToSet, IsInjective
  <2>2. {worker_task[w] : w \in Workers} \ {NoId} = {}
    BY DEF Init
  <2>. QED
    BY <2>1, <2>2, FS_EmptySet
       DEF Init, StoreInv, BookkeepingExact, NoStaleCancellation, Live
<1>. QED  BY <1>1, StoreStep, TypeCorrect, PTL DEF Spec

\* The containers and the workers always agree on where each task is.
THEOREM Bookkeeping == Spec => []BookkeepingExact
  BY StoreInductive, PTL DEF StoreInv

\* A cancellation mark never outlives its task.
THEOREM NoStaleMark == Spec => []NoStaleCancellation
  BY StoreInductive, PTL DEF StoreInv

-----------------------------------------------------------------------------
(* Tags, rounds and deadlines *)

\* TagIndexExact, OneLivePerChain and NeverEarly together with the freshness of
\* roots: a chain's root is the id of its first round, and ids are not reused.
ChainInv ==
    /\ TagIndexExact
    /\ \A i, j \in begun \cup Live : task[i].root = task[j].root => i = j
    /\ \A i \in begun \cup Live : task[i].root < next_id
    /\ NeverEarly

\* A step that touches none of what ChainInv speaks of, time aside.
LEMMA ChainFrame ==
    ASSUME TypeOK, ChainInv, now' \in Nat, now <= now',
           UNCHANGED <<task, ready_queue, pending_tasks, running_tasks,
                       tasks_by_tag, next_id, begun>>
    PROVE  ChainInv'
  BY SchedulerAssumption
     DEF ChainInv, TagIndexExact, NeverEarly, Live, TypeOK, TaskRecord, ToSet

LEMMA ChainCaller == TypeOK /\ StoreInv /\ ChainInv /\ CallerStep => ChainInv'
<1>. SUFFICES ASSUME TypeOK, StoreInv, ChainInv, CallerStep PROVE ChainInv'  OBVIOUS
<1>. USE DEF ChainInv, TagIndexExact, NeverEarly, Live
<1>1. ASSUME NEW o \in Options, ScheduleBegin(o) PROVE ChainInv'
  <2>1. /\ next_id \in Ids
        /\ \A id \in begun \cup Live : id # next_id /\ task'[id] = task[id]
        /\ task'[next_id].root = next_id
        /\ UNCHANGED <<ready_queue, pending_tasks, running_tasks, tasks_by_tag, now>>
        /\ begun' = begun \cup {next_id} /\ next_id' = next_id + 1
    BY <1>1 DEF ScheduleBegin, TypeOK, StoreInv, Ids
  <2>2. ToSet(ready_queue) \subseteq Live
    BY DEF StoreInv, BookkeepingExact
  <2>3. \A i \in begun \cup Live : task[i].root \in Int /\ task[i].root < next_id
    BY DEF TypeOK, TaskRecord
  <2>. QED  BY <2>1, <2>2, <2>3 DEF Ids
<1>2. ASSUME NEW id \in Ids, ScheduleCommit(id) PROVE ChainInv'
  BY <1>2 DEF ScheduleCommit, Tagged, StoreInv, BookkeepingExact, TypeOK, workers
<1>3. ASSUME NEW id \in Ids, ScheduleReject(id) PROVE ChainInv'
  BY <1>3 DEF ScheduleReject, StoreInv, BookkeepingExact, TypeOK, workers
<1>4. ASSUME NEW id \in Ids, ScheduleNotify(id) PROVE ChainInv'
  BY <1>4, ChainFrame DEF ScheduleNotify, store, TypeOK
<1>5. ASSUME NEW ids, Mark(ids) PROVE ChainInv'
  BY <1>5, ChainFrame DEF Mark, calls, TypeOK
<1>6. CASE Pause \/ Resume \/ StopFlag \/ StopNotify \/ StopJoin
  BY <1>6, ChainFrame
     DEF Pause, Resume, StopFlag, StopNotify, StopJoin, store, calls, TypeOK
<1>7. ASSUME NEW c \in Callers, WaitAllEnter(c) \/ WaitAllWake(c) PROVE ChainInv'
  BY <1>7, ChainFrame DEF WaitAllEnter, WaitAllWake, store, calls, TypeOK
<1>. QED
  BY <1>1, <1>2, <1>3, <1>4, <1>5, <1>6, <1>7
     DEF CallerStep, ScheduleStep, Cancel, CancelByTag, CancelAll

LEMMA ChainTimer == TypeOK /\ StoreInv /\ ChainInv /\ TimerStep => ChainInv'
<1>. SUFFICES ASSUME TypeOK, StoreInv, ChainInv, TimerStep PROVE ChainInv'  OBVIOUS
<1>1. ASSUME NEW pc, TimerGoto(pc) PROVE ChainInv'
  BY <1>1, ChainFrame DEF TimerGoto, store, calls, TypeOK
<1>2. ASSUME NEW id \in Ids, TimerDrop(id) PROVE ChainInv'
  <2>1. /\ pending_tasks' = pending_tasks \ {id} /\ id \notin running_tasks
        /\ id \notin ToSet(ready_queue) /\ id \notin begun
        /\ \A i \in Ids \ {id} : task'[i] = task[i]
        /\ UNCHANGED <<ready_queue, running_tasks, next_id, begun, now>>
    BY <1>2 DEF TimerDrop, Top, StoreInv, BookkeepingExact, Live, TypeOK, calls
  <2>2. TagIndexExact'
    BY <1>2, <2>1 DEF TimerDrop, Untagged, ChainInv, TagIndexExact, Live, TypeOK
  <2>. QED  BY <2>1, <2>2 DEF ChainInv, NeverEarly, Live, TypeOK, ToSet
<1>3. ASSUME NEW id \in Ids, TimerPromote(id) PROVE ChainInv'
  <2>1. ToSet(ready_queue') = ToSet(ready_queue) \cup {id}
    BY <1>3, PushContents DEF TimerPromote, TypeOK
  <2>. QED
    BY <1>3, <2>1 DEF TimerPromote, ChainInv, TagIndexExact, NeverEarly, Live, calls
<1>4. ASSUME NEW id \in Ids, TimerSleep(id) PROVE ChainInv'
  BY <1>4, ChainFrame DEF TimerSleep, store, calls, TypeOK
<1>5. CASE TimerWakeTimed
  BY <1>5, ChainFrame DEF TimerWakeTimed, store, calls, TypeOK
<1>. QED
  BY <1>1, <1>2, <1>3, <1>4, <1>5
     DEF TimerStep, TimerLoop, TimerLock, TimerWakeEmpty, TimerPauseCheck,
         TimerPausePred, TimerPauseBlock, TimerWakePause, TimerTimeout

LEMMA ChainWorker ==
    ASSUME NEW w \in Workers
    PROVE  TypeOK /\ StoreInv /\ ChainInv /\ WorkerStep(w) => ChainInv'
<1>. SUFFICES ASSUME TypeOK, StoreInv, ChainInv, WorkerStep(w) PROVE ChainInv'
  OBVIOUS
<1>1. CASE WorkerLoop(w) \/ WorkerLock(w)
  BY <1>1, ChainFrame DEF WorkerLoop, WorkerLock, WorkerGoto, store, calls, TypeOK
<1>2. CASE WorkerTake(w)
  <2>1. /\ Head(ready_queue) \in ToSet(ready_queue)
        /\ ToSet(ready_queue') = ToSet(ready_queue) \ {Head(ready_queue)}
    BY <1>2, PopContents DEF WorkerTake, TypeOK, StoreInv, BookkeepingExact
  <2>2. Live' = Live
    BY <1>2, <2>1 DEF WorkerTake, Live, StoreInv, BookkeepingExact
  <2>. QED
    BY <1>2, <2>1, <2>2 DEF WorkerTake, ChainInv, TagIndexExact, NeverEarly, calls
<1>3. ASSUME WorkerRelease(w)
      PROVE  /\ worker_task[w] \in running_tasks \ pending_tasks
             /\ worker_task[w] \in Ids
             /\ worker_task[w] \notin ToSet(ready_queue)
             /\ worker_task[w] \notin begun
             /\ running_tasks' = running_tasks \ {worker_task[w]}
             /\ UNCHANGED <<ready_queue, begun, now>>
  BY <1>3 DEF WorkerRelease, TypeOK, StoreInv, BookkeepingExact, Live, NoId, calls
<1>4. CASE WorkerFinishLast(w)
  <2>. DEFINE id == worker_task[w]
  <2>1. /\ Live' = Live \ {id} /\ \A i \in Ids \ {id} : task'[i] = task[i]
        /\ next_id' = next_id
    BY <1>3, <1>4 DEF WorkerFinishLast, TypeOK, Live
  <2>2. TagIndexExact'
    BY <1>3, <1>4, <2>1 DEF WorkerFinishLast, Untagged, ChainInv, TagIndexExact,
                            Live, TypeOK
  <2>. QED
    BY <1>3, <1>4, <2>1, <2>2
       DEF WorkerFinishLast, ChainInv, NeverEarly, Live, TypeOK, ToSet
<1>5. CASE WorkerFinishAgain(w)
  <2>. DEFINE id == worker_task[w]  new == next_id
  <2>0. /\ id \in running_tasks \ pending_tasks /\ id \in Ids
        /\ id \notin ToSet(ready_queue) /\ id \notin begun
        /\ running_tasks' = running_tasks \ {id}
        /\ UNCHANGED <<ready_queue, begun, now>>
    BY <1>3, <1>5 DEF WorkerFinishAgain
  <2>1. /\ Live' = (Live \ {id}) \cup {new}
        /\ new \in Ids /\ new \notin begun \cup Live /\ new # id
        /\ \A i \in Ids \ {id, new} : task'[i] = task[i]
        /\ task'[new].root = task[id].root /\ task'[new].tag = task[id].tag
        /\ next_id' = new + 1
    <3>1. /\ next_id \in Ids /\ next_id # id /\ next_id \notin begun \cup Live
          /\ id \in Ids
      BY <1>3, <1>5 DEF WorkerFinishAgain, RoundLeft, StoreInv, TypeOK, Ids, Live
    <3>2. Live' = (Live \ {id}) \cup {new}
      BY <1>3, <1>5, <3>1 DEF WorkerFinishAgain, Live
    <3>3. /\ task' = [task EXCEPT ![id] = NoTask,
                            ![new] = [task[id] EXCEPT !.at = now + task[id].interval]]
          /\ next_id' = new + 1
      BY <1>5 DEF WorkerFinishAgain
    <3>4. task[id] \in TaskRecord /\ task \in [Ids -> TaskRecord]
      BY <3>1 DEF TypeOK
    <3>5. /\ [task[id] EXCEPT !.at = now + task[id].interval].root = task[id].root
          /\ [task[id] EXCEPT !.at = now + task[id].interval].tag = task[id].tag
      BY <3>4 DEF TaskRecord
    <3>. QED  BY <3>1, <3>2, <3>3, <3>4, <3>5
  <2>2. TagIndexExact'
    BY <1>3, <1>5, <2>1 DEF WorkerFinishAgain, ChainInv, TagIndexExact, Live, TypeOK
  <2>3. /\ begun' \cup Live' = ((begun \cup Live) \ {id}) \cup {new}
        /\ id \in Live /\ begun \cup Live \subseteq Ids
        /\ \A i \in (begun \cup Live) \ {id} : task'[i].root = task[i].root
        /\ task'[new].root = task[id].root
    BY <2>0, <2>1 DEF Live, TypeOK
  <2>4. \A i, j \in begun' \cup Live' : task'[i].root = task'[j].root => i = j
    BY <2>1, <2>3 DEF ChainInv
  <2>5. \A i \in begun' \cup Live' : task'[i].root < next_id'
    <3>1. \A i \in begun \cup Live : task[i].root < new /\ task[i].root \in Int
      BY <2>3 DEF ChainInv, TypeOK, TaskRecord
    <3>. QED  BY <2>1, <2>3, <3>1 DEF Ids
  <2>6. NeverEarly'
    <3>1. ToSet(ready_queue)' \cup running_tasks' \subseteq
             (ToSet(ready_queue) \cup running_tasks) \ {id}
      BY <2>0
    <3>2. \A i \in ToSet(ready_queue) \cup running_tasks : i \in Live /\ i \in Ids
      BY DEF StoreInv, BookkeepingExact, Live, TypeOK
    <3>. QED  BY <2>0, <2>1, <3>1, <3>2 DEF ChainInv, NeverEarly
  <2>. QED  BY <2>2, <2>4, <2>5, <2>6 DEF ChainInv
<1>. QED  BY <1>1, <1>2, <1>4, <1>5 DEF WorkerStep, WorkerFinish
LEMMA ChainInductive == Spec => []ChainInv
<1>1. Init => ChainInv
  BY DEF Init, ChainInv, TagIndexExact, NeverEarly, Live, ToSet
<1>2. TypeOK /\ StoreInv /\ ChainInv /\ [Next]_vars => ChainInv'
  <2>. SUFFICES ASSUME TypeOK, StoreInv, ChainInv, [Next]_vars PROVE ChainInv'
    OBVIOUS
  <2>1. CASE SpuriousStep
    BY <2>1, ChainFrame
       DEF SpuriousStep, SpuriousTimer, SpuriousWorker, SpuriousCaller,
           TimerGoto, WorkerGoto, TypeOK, store, calls
  <2>2. CASE Tick
    BY <2>2, ChainFrame DEF Tick, TypeOK, store, calls
  <2>3. CASE UNCHANGED vars
    BY <2>3, ChainFrame DEF vars, TypeOK, store, calls
  <2>. QED
    BY <2>1, <2>2, <2>3, ChainCaller, ChainTimer, ChainWorker DEF Next, Stopped
<1>. QED  BY <1>1, <1>2, TypeCorrect, StoreInductive, PTL DEF Spec

\* The tag index lists exactly the live tasks of each tag.
THEOREM TagIndex == Spec => []TagIndexExact
  BY ChainInductive, PTL DEF ChainInv

\* A periodic task never overlaps itself.
THEOREM NoOverlap == Spec => []OneLivePerChain
<1>1. ChainInv => OneLivePerChain  BY DEF ChainInv, OneLivePerChain
<1>. QED  BY <1>1, ChainInductive, PTL

\* The three queries count the same ids.
THEOREM Counts == Spec => []CountsAgree
<1>1. TypeOK /\ BookkeepingExact /\ TagIndexExact => CountsAgree
  <2>. SUFFICES ASSUME TypeOK, BookkeepingExact, TagIndexExact  PROVE CountsAgree  OBVIOUS
  <2>1. \A id : IsPending(id) => id \in pending_tasks  BY DEF IsPending
  <2>2. ASSUME NEW t \in Tags
        PROVE  {id \in tasks_by_tag[t] : IsPending(id)}
                 = {id \in Ids : IsPending(id) /\ task[id].tag = t}
    BY <2>1 DEF TypeOK, TagIndexExact, Live
  <2>3. {id \in pending_tasks : ~Cancelled(id)} = {id \in Ids : IsPending(id)}
    BY DEF TypeOK, IsPending, Cancelled
  <2>. QED  BY <2>2, <2>3 DEF CountsAgree, PendingCount, PendingCountByTag
<1>. QED  BY <1>1, TypeCorrect, Bookkeeping, TagIndex, PTL

\* Every live task is in its queue or on its worker, under its tag, and a mark
\* hits no other task.
THEOREM Containers == Spec => []ContainersExact
  BY Bookkeeping, NoStaleMark, TagIndex, Counts, PTL DEF ContainersExact

\* No task is handed to the workers before its deadline.
THEOREM NotEarly == Spec => []NeverEarly
  BY ChainInductive, PTL DEF ChainInv
-----------------------------------------------------------------------------
(* Cancellation *)

\* A step that leaves alone the cancelled tasks of the priority queue.
LEMMA MarksStay ==
    ASSUME cancelled_tasks \subseteq cancelled_tasks', task_queue \subseteq task_queue',
           NEW id \in cancelled_tasks \cap task_queue
    PROVE  id \in cancelled_tasks' /\ id \in task_queue'
  OBVIOUS

LEMMA CancelSticksStep ==
    ASSUME TypeOK, StoreInv, [Next]_vars, NEW id \in cancelled_tasks \cap task_queue
    PROVE  \/ id \in cancelled_tasks' /\ id \in task_queue'
           \/ id \notin Live'
<1>1. CASE CallerStep
  BY <1>1, MarksStay
     DEF CallerStep, ScheduleBegin, ScheduleStep, ScheduleCommit, ScheduleReject,
         ScheduleNotify, Cancel, CancelByTag, CancelAll, Mark, Pause, Resume,
         StopFlag, StopNotify, StopJoin, WaitAllEnter, WaitAllWake, store
<1>2. ASSUME NEW j \in Ids, TimerDrop(j)
      PROVE  \/ id \in cancelled_tasks' /\ id \in task_queue'
             \/ id \notin Live'
  BY <1>2 DEF TimerDrop, StoreInv, BookkeepingExact, Live
<1>3. ASSUME NEW j \in Ids, TimerPromote(j) \/ TimerSleep(j)
      PROVE  id \in cancelled_tasks' /\ id \in task_queue'
  BY <1>3 DEF TimerPromote, TimerSleep, store
<1>4. CASE TimerWakeTimed
  BY <1>4 DEF TimerWakeTimed, store
<1>5. ASSUME NEW pc, TimerGoto(pc)
      PROVE  id \in cancelled_tasks' /\ id \in task_queue'
  BY <1>5 DEF TimerGoto, store
<1>6. ASSUME NEW w \in Workers, WorkerRelease(w), task_queue \subseteq task_queue'
      PROVE  id \in cancelled_tasks' /\ id \in task_queue'
  BY <1>6 DEF WorkerRelease, TypeOK, StoreInv, BookkeepingExact, NoId
<1>7. ASSUME NEW w \in Workers, WorkerStep(w)
      PROVE  id \in cancelled_tasks' /\ id \in task_queue'
  BY <1>6, <1>7
     DEF WorkerStep, WorkerLoop, WorkerLock, WorkerGoto, WorkerTake, WorkerFinish,
         WorkerFinishLast, WorkerFinishAgain, store
<1>8. CASE SpuriousStep \/ Tick \/ UNCHANGED vars
  BY <1>8
     DEF SpuriousStep, SpuriousTimer, SpuriousWorker, SpuriousCaller, TimerGoto,
         WorkerGoto, Tick, vars, store
<1>. QED
  BY <1>1, <1>2, <1>3, <1>4, <1>5, <1>7, <1>8
     DEF Next, Stopped, TimerStep, TimerLoop, TimerLock, TimerWakeEmpty,
         TimerPauseCheck, TimerPausePred, TimerPauseBlock, TimerWakePause, TimerTimeout

\* A task cancelled while it waits in the priority queue never reaches a worker.
THEOREM CancellationSticks == Spec => CancelSticks
<1>1. TypeOK /\ StoreInv /\ [Next]_vars =>
         [\A id \in cancelled_tasks \cap task_queue :
             \/ id \in cancelled_tasks' /\ id \in task_queue'
             \/ id \notin Live']_vars
  BY CancelSticksStep
<1>. QED  BY <1>1, TypeCorrect, StoreInductive, PTL DEF Spec, CancelSticks

LEMMA CancelEndsStep ==
    ASSUME TypeOK, StoreInv, ChainInv, [Next]_vars,
           NEW id \in cancelled_tasks, id \notin Live'
    PROVE  \A j \in Live' : task'[j].root # task[id].root
<1>0. id \in Live /\ id \in Ids
  BY DEF StoreInv, NoStaleCancellation, TypeOK
<1>1. SUFFICES /\ Live' = Live \ {id}
               /\ \A j \in Ids \ {id} : task'[j] = task[j]
  BY <1>0 DEF ChainInv, Live, TypeOK
<1>2. ASSUME pending_tasks \subseteq pending_tasks', running_tasks \subseteq running_tasks'
      PROVE  FALSE
  BY <1>0, <1>2 DEF Live
<1>3. ~CallerStep
  BY <1>2
     DEF CallerStep, ScheduleBegin, ScheduleStep, ScheduleCommit, ScheduleReject,
         ScheduleNotify, Cancel, CancelByTag, CancelAll, Mark, Pause, Resume,
         StopFlag, StopNotify, StopJoin, WaitAllEnter, WaitAllWake, store
<1>4. ASSUME NEW j \in Ids, TimerDrop(j)
      PROVE  /\ Live' = Live \ {id}
             /\ \A i \in Ids \ {id} : task'[i] = task[i]
  BY <1>0, <1>4 DEF TimerDrop, Top, Live, StoreInv, BookkeepingExact, TypeOK
<1>5. ASSUME NEW pc, TimerGoto(pc) PROVE FALSE
  BY <1>2, <1>5 DEF TimerGoto, store
<1>6. ASSUME NEW j \in Ids PROVE ~TimerPromote(j) /\ ~TimerSleep(j)
  BY <1>2 DEF TimerPromote, TimerSleep, store
<1>7. ~TimerWakeTimed
  BY <1>2 DEF TimerWakeTimed, store
<1>8. ASSUME NEW w \in Workers, WorkerStep(w)
      PROVE  /\ Live' = Live \ {id}
             /\ \A i \in Ids \ {id} : task'[i] = task[i]
  <2>1. ~WorkerLoop(w) /\ ~WorkerLock(w)
    BY <1>2 DEF WorkerLoop, WorkerLock, WorkerGoto, store
  <2>2. ~WorkerTake(w)
    <3>1. SUFFICES ASSUME WorkerTake(w) PROVE FALSE  OBVIOUS
    <3>2. Live \subseteq Live'
      BY <3>1 DEF WorkerTake, Live
    <3>. QED  BY <1>0, <3>2
  <2>3. ASSUME WorkerRelease(w), pending_tasks \subseteq pending_tasks'
        PROVE  worker_task[w] = id
    BY <1>0, <2>3 DEF WorkerRelease, Live
  <2>4. CASE WorkerFinishLast(w)
    BY <1>0, <2>3, <2>4
       DEF WorkerFinishLast, WorkerRelease, Live, StoreInv, BookkeepingExact, TypeOK
  <2>5. CASE WorkerFinishAgain(w)
    BY <2>3, <2>5 DEF WorkerFinishAgain
  <2>. QED
    BY <1>8, <2>1, <2>2, <2>4, <2>5 DEF WorkerStep, WorkerFinish
<1>9. ~SpuriousStep /\ ~Tick /\ ~UNCHANGED vars
  BY <1>2
     DEF SpuriousStep, SpuriousTimer, SpuriousWorker, SpuriousCaller, TimerGoto,
         WorkerGoto, Tick, vars, store
<1>. QED
  BY <1>3, <1>4, <1>5, <1>6, <1>7, <1>8, <1>9
     DEF Next, Stopped, TimerStep, TimerLoop, TimerLock, TimerWakeEmpty,
         TimerPauseCheck, TimerPausePred, TimerPauseBlock, TimerWakePause, TimerTimeout

\* Wherever the cancellation found it, a cancelled task is its chain's last.
THEOREM CancellationEnds == Spec => CancelEndsChain
<1>1. TypeOK /\ StoreInv /\ ChainInv /\ [Next]_vars =>
         [\A id \in cancelled_tasks : id \notin Live' =>
             \A j \in Live' : task'[j].root # task[id].root]_vars
  BY CancelEndsStep
<1>. QED
  BY <1>1, TypeCorrect, StoreInductive, ChainInductive, PTL
     DEF Spec, CancelEndsChain
-----------------------------------------------------------------------------
(* The scheduler implements TaskLifecycle *)

\* One task changes status, the others keep theirs.
LEMMA MoveStep ==
    ASSUME NEW id \in Ids, NEW from, NEW to,
           StatusOf(id) = from, StatusOf(id)' = to,
           \A j \in Ids \ {id} : StatusOf(j)' = StatusOf(j)
    PROVE  Lifecycle!Move(id, from, to)
<1>1. Status' = [j \in Ids |-> StatusOf(j)']  BY DEF Status
<1>2. Status' = [Status EXCEPT ![id] = to]  BY <1>1 DEF Status
<1>. QED  BY <1>2 DEF Lifecycle!Move, Status

LEMMA StutterStep ==
    ASSUME \A j \in Ids : StatusOf(j)' = StatusOf(j)
    PROVE  Status' = Status
  BY DEF Status

\* A step that leaves every container and every pending call alone.
LEMMA StatusFrame ==
    ASSUME UNCHANGED <<task_queue, ready_queue, running_tasks, begun, next_id,
                       cancelled_tasks>>
    PROVE  Status' = Status
  BY DEF Status, StatusOf

RefinedStep == Lifecycle!Next \/ Status' = Status

LEMMA RefineCaller == TypeOK /\ StoreInv /\ CallerStep => RefinedStep
<1>. SUFFICES ASSUME TypeOK, StoreInv, CallerStep PROVE RefinedStep  OBVIOUS
<1>. USE DEF RefinedStep
<1>1. ASSUME NEW o \in Options, ScheduleBegin(o) PROVE Status' = Status
  <2>1. \A j \in Ids : StatusOf(j)' = StatusOf(j)
    BY <1>1 DEF ScheduleBegin, StatusOf, StoreInv, BookkeepingExact, TypeOK, Ids, Live
  <2>. QED  BY <2>1, StutterStep
<1>2. ASSUME NEW id \in Ids, ScheduleCommit(id) PROVE Lifecycle!Submit(id)
  <2>1. id \notin Live /\ id \notin cancelled_tasks /\ id \in begun
    BY <1>2 DEF ScheduleCommit, StoreInv, BookkeepingExact, NoStaleCancellation
  <2>a. /\ id \notin running_tasks /\ id \notin ToSet(ready_queue)
        /\ id \notin task_queue
    BY <2>1 DEF Live, StoreInv, BookkeepingExact
  <2>2. StatusOf(id) = "unborn" /\ StatusOf(id)' = "waiting"
    BY <1>2, <2>1, <2>a DEF ScheduleCommit, StatusOf, TypeOK, Ids
  <2>3. \A j \in Ids \ {id} : StatusOf(j)' = StatusOf(j)
    BY <1>2 DEF ScheduleCommit, StatusOf
  <2>. QED  BY <2>2, <2>3, MoveStep DEF Lifecycle!Submit
<1>3. ASSUME NEW id \in Ids, ScheduleReject(id) PROVE Lifecycle!Reject(id)
  <2>1. id \notin Live /\ id \in begun /\ id < next_id
    BY <1>3 DEF ScheduleReject, StoreInv, BookkeepingExact
  <2>2. StatusOf(id) = "unborn" /\ StatusOf(id)' = "gone"
    BY <1>3, <2>1
       DEF ScheduleReject, StatusOf, StoreInv, BookkeepingExact, Live, TypeOK, Ids
  <2>3. \A j \in Ids \ {id} : StatusOf(j)' = StatusOf(j)
    BY <1>3 DEF ScheduleReject, StatusOf
  <2>. QED  BY <2>2, <2>3, MoveStep DEF Lifecycle!Reject
<1>4. ASSUME NEW ids \in SUBSET pending_tasks, Mark(ids)
      PROVE  \E ts \in SUBSET Ids : Lifecycle!Revoke(ts)
  <2>. DEFINE ts == (ids \cap task_queue) \ cancelled_tasks
  <2>1. ts \in SUBSET Ids  BY DEF TypeOK
  <2>a. \A j \in task_queue : j \notin running_tasks /\ j \notin ToSet(ready_queue)
    BY DEF StoreInv, BookkeepingExact
  <2>2. \A j \in ts : StatusOf(j) = "waiting"
    BY <2>a DEF StatusOf, TypeOK, Ids
  <2>b. /\ cancelled_tasks' = cancelled_tasks \cup ids
        /\ UNCHANGED <<task_queue, ready_queue, running_tasks, begun, next_id>>
    BY <1>4 DEF Mark, calls
  <2>3. \A j \in Ids : StatusOf(j)' = IF j \in ts THEN "revoked" ELSE StatusOf(j)
    BY <2>a, <2>b DEF StatusOf, TypeOK, Ids
  <2>4. Status' = [j \in Ids |-> IF j \in ts THEN "revoked" ELSE Status[j]]
    BY <2>3 DEF Status
  <2>5. \A j \in ts : Status[j] = "waiting"
    BY <2>1, <2>2 DEF Status
  <2>6. Lifecycle!Revoke(ts)  BY <2>4, <2>5 DEF Lifecycle!Revoke, Status
  <2>. QED  BY <2>1, <2>6
<1>5. ASSUME NEW id \in Ids, ScheduleNotify(id) PROVE Status' = Status
  BY <1>5, StatusFrame DEF ScheduleNotify, store
<1>6. ASSUME Pause \/ Resume \/ StopFlag \/ StopNotify \/ StopJoin
      PROVE  Status' = Status
  BY <1>6, StatusFrame
     DEF Pause, Resume, StopFlag, StopNotify, StopJoin, store, calls
<1>7. ASSUME NEW c \in Callers, WaitAllEnter(c) \/ WaitAllWake(c)
      PROVE  Status' = Status
  BY <1>7, StatusFrame DEF WaitAllEnter, WaitAllWake, store, calls
<1>8. ASSUME NEW id \in Ids, Cancel(id) PROVE \E ts \in SUBSET Ids : Lifecycle!Revoke(ts)
  BY <1>4, <1>8 DEF Cancel
<1>9. ASSUME NEW t \in Tags, CancelByTag(t)
      PROVE  \E ts \in SUBSET Ids : Lifecycle!Revoke(ts)
  BY <1>4, <1>9 DEF CancelByTag
<1>10. CASE CancelAll
  BY <1>4, <1>10 DEF CancelAll, Lifecycle!Next
<1>. QED
  BY <1>1, <1>2, <1>3, <1>5, <1>6, <1>7, <1>8, <1>9, <1>10
     DEF CallerStep, ScheduleStep, Lifecycle!Next

LEMMA RefineTimer == TypeOK /\ StoreInv /\ TimerStep => RefinedStep
<1>. SUFFICES ASSUME TypeOK, StoreInv, TimerStep PROVE RefinedStep  OBVIOUS
<1>. USE DEF RefinedStep
<1>1. ASSUME NEW pc, TimerGoto(pc) PROVE Status' = Status
  BY <1>1, StatusFrame DEF TimerGoto, store, calls
<1>2. ASSUME NEW id \in Ids, TimerDrop(id) PROVE Lifecycle!Forget(id)
  <2>1. /\ id \in task_queue /\ id \in cancelled_tasks /\ id \notin running_tasks
        /\ id \notin ToSet(ready_queue) /\ id \notin begun /\ id < next_id
    BY <1>2 DEF TimerDrop, Top, StoreInv, BookkeepingExact, Live
  <2>2. StatusOf(id) = "revoked" /\ StatusOf(id)' = "gone"
    BY <1>2, <2>1 DEF TimerDrop, StatusOf, TypeOK, Ids, calls
  <2>3. \A j \in Ids \ {id} : StatusOf(j)' = StatusOf(j)
    BY <1>2 DEF TimerDrop, StatusOf, calls
  <2>. QED  BY <2>2, <2>3, MoveStep DEF Lifecycle!Forget
<1>3. ASSUME NEW id \in Ids, TimerPromote(id) PROVE Lifecycle!Commit(id)
  <2>1. /\ id \in task_queue /\ id \notin cancelled_tasks /\ id \notin running_tasks
        /\ id \notin ToSet(ready_queue)
    BY <1>3 DEF TimerPromote, Top, StoreInv, BookkeepingExact
  <2>2. ToSet(ready_queue') = ToSet(ready_queue) \cup {id}
    BY <1>3, PushContents DEF TimerPromote, TypeOK
  <2>a. running_tasks' = running_tasks  BY <1>3 DEF TimerPromote
  <2>3. StatusOf(id) = "waiting" /\ StatusOf(id)' = "committed"
    BY <2>1, <2>2, <2>a DEF StatusOf, TypeOK, Ids
  <2>4. \A j \in Ids \ {id} : StatusOf(j)' = StatusOf(j)
    BY <1>3, <2>2 DEF TimerPromote, StatusOf, calls
  <2>. QED  BY <2>3, <2>4, MoveStep DEF Lifecycle!Commit
<1>4. ASSUME NEW id \in Ids, TimerSleep(id) PROVE Status' = Status
  BY <1>4, StatusFrame DEF TimerSleep, store, calls
<1>5. ASSUME TimerWakeTimed PROVE Status' = Status
  BY <1>5, StatusFrame DEF TimerWakeTimed, store, calls
<1>. QED
  BY <1>1, <1>2, <1>3, <1>4, <1>5
     DEF TimerStep, TimerLoop, TimerLock, TimerWakeEmpty, TimerPauseCheck,
         TimerPausePred, TimerPauseBlock, TimerWakePause, TimerTimeout,
         Lifecycle!Next

LEMMA RefineWorker ==
    ASSUME NEW w \in Workers
    PROVE  TypeOK /\ StoreInv /\ WorkerStep(w) => RefinedStep
<1>. SUFFICES ASSUME TypeOK, StoreInv, WorkerStep(w) PROVE RefinedStep  OBVIOUS
<1>. USE DEF RefinedStep
<1>1. ASSUME WorkerLoop(w) \/ WorkerLock(w) PROVE Status' = Status
  BY <1>1, StatusFrame DEF WorkerLoop, WorkerLock, WorkerGoto, store, calls
<1>2. ASSUME WorkerTake(w), NEW h \in Ids, h = Head(ready_queue)
      PROVE  Lifecycle!Start(h)
  <2>1. /\ h \in ToSet(ready_queue)
        /\ ToSet(ready_queue') = ToSet(ready_queue) \ {h}
    BY <1>2, PopContents DEF WorkerTake, TypeOK, StoreInv, BookkeepingExact
  <2>2. h \notin running_tasks /\ running_tasks' = running_tasks \cup {h}
    BY <1>2, <2>1 DEF WorkerTake, StoreInv, BookkeepingExact
  <2>3. StatusOf(h) = "committed" /\ StatusOf(h)' = "running"
    BY <2>1, <2>2 DEF StatusOf, TypeOK, Ids
  <2>4. \A j \in Ids \ {h} : StatusOf(j)' = StatusOf(j)
    BY <1>2, <2>1 DEF WorkerTake, StatusOf, calls
  <2>. QED  BY <2>3, <2>4, MoveStep DEF Lifecycle!Start
<1>3. ASSUME WorkerRelease(w), NEW id \in Ids, id = worker_task[w]
      PROVE  /\ id \in running_tasks /\ id \notin ToSet(ready_queue)
             /\ id \notin task_queue /\ id \notin begun /\ id < next_id
             /\ running_tasks' = running_tasks \ {id}
             /\ cancelled_tasks' = cancelled_tasks \ {id}
             /\ UNCHANGED <<ready_queue, begun>>
  BY <1>3 DEF WorkerRelease, TypeOK, StoreInv, BookkeepingExact, Live, NoId, calls
<1>4. ASSUME WorkerFinishLast(w), NEW id \in Ids, id = worker_task[w]
      PROVE  Lifecycle!Finish(id)
  <2>0. WorkerRelease(w) /\ UNCHANGED <<task_queue, next_id>>
    BY <1>4 DEF WorkerFinishLast
  <2>1. StatusOf(id) = "running" /\ StatusOf(id)' = "gone"
    BY <1>3, <1>4, <2>0 DEF StatusOf, TypeOK, Ids
  <2>2. \A j \in Ids \ {id} : StatusOf(j)' = StatusOf(j)
    BY <1>3, <1>4, <2>0 DEF StatusOf
  <2>. QED  BY <2>1, <2>2, MoveStep DEF Lifecycle!Finish
<1>5. ASSUME WorkerFinishAgain(w), NEW id \in Ids, id = worker_task[w],
             NEW new \in Ids, new = next_id
      PROVE  Lifecycle!Repeat(id, new)
  <2>0. /\ WorkerRelease(w) /\ task_queue' = task_queue \cup {new}
        /\ next_id' = new + 1
    BY <1>5 DEF WorkerFinishAgain
  <2>1. new # id /\ new \notin begun \cup Live
    BY <1>3, <2>0, <1>5 DEF StoreInv, TypeOK, Ids
  <2>2. /\ new \notin running_tasks /\ new \notin ToSet(ready_queue)
        /\ new \notin task_queue /\ new \notin cancelled_tasks
    BY <2>1 DEF StoreInv, BookkeepingExact, NoStaleCancellation, Live
  <2>3. StatusOf(id) = "running" /\ StatusOf(id)' = "gone"
    BY <1>3, <1>5, <2>0, <2>1 DEF StatusOf, Ids
  <2>4. StatusOf(new) = "unborn" /\ StatusOf(new)' = "waiting"
    BY <1>3, <1>5, <2>0, <2>1, <2>2 DEF StatusOf, Ids
  <2>5. \A j \in Ids \ {id, new} : StatusOf(j)' = StatusOf(j)
    BY <1>3, <1>5, <2>0, <2>1 DEF StatusOf, Ids
  <2>6. \A j \in Ids : StatusOf(j)' = IF j = new THEN "waiting"
                                      ELSE IF j = id THEN "gone" ELSE StatusOf(j)
    BY <2>1, <2>3, <2>4, <2>5
  <2>7. Status' = [j \in Ids |-> StatusOf(j)']  BY DEF Status
  <2>8. Status' = [Status EXCEPT ![id] = "gone", ![new] = "waiting"]
    BY <2>6, <2>7 DEF Status
  <2>. QED
    BY <2>3, <2>4, <2>8 DEF Lifecycle!Repeat, Status
<1>6. ASSUME WorkerFinishAgain(w) PROVE Lifecycle!Next
  <2>1. worker_task[w] \in Ids /\ next_id \in Ids
    BY <1>6 DEF WorkerFinishAgain, WorkerRelease, RoundLeft, TypeOK, Ids
  <2>. QED  BY <1>5, <1>6, <2>1 DEF Lifecycle!Next
<1>7. ASSUME WorkerFinishLast(w) PROVE Lifecycle!Next
  <2>1. worker_task[w] \in Ids
    BY <1>7 DEF WorkerFinishLast, WorkerRelease, TypeOK
  <2>. QED  BY <1>4, <1>7, <2>1 DEF Lifecycle!Next
<1>8. ASSUME WorkerTake(w) PROVE Lifecycle!Next
  <2>1. Head(ready_queue) \in Ids  BY <1>8 DEF WorkerTake, TypeOK
  <2>. QED  BY <1>2, <1>8, <2>1 DEF Lifecycle!Next
<1>. QED  BY <1>1, <1>6, <1>7, <1>8 DEF WorkerStep, WorkerFinish

\* The thread pool, with its two queues, its locks and its wakeups, implements
\* the life of a task as TaskLifecycle tells it.
THEOREM Implementation == Spec => ImplementsLifecycle
<1>1. Init => Lifecycle!Init
  BY DEF Init, Lifecycle!Init, Status, StatusOf, ToSet, Ids
<1>2. TypeOK /\ StoreInv /\ [Next]_vars => [UNCHANGED Status \/ Lifecycle!Next]_Status
  <2>. SUFFICES ASSUME TypeOK, StoreInv, [Next]_vars PROVE RefinedStep
    BY DEF RefinedStep
  <2>1. CASE SpuriousStep \/ Tick \/ UNCHANGED vars
    BY <2>1, StatusFrame
       DEF SpuriousStep, SpuriousTimer, SpuriousWorker, SpuriousCaller, TimerGoto,
           WorkerGoto, Tick, vars, store, calls, RefinedStep
  <2>. QED
    BY <2>1, RefineCaller, RefineTimer, RefineWorker DEF Next, Stopped
<1>. QED
  BY <1>1, <1>2, TypeCorrect, StoreInductive, PTL
     DEF Spec, ImplementsLifecycle, Status
-----------------------------------------------------------------------------
(* Workers and waiters *)

\* The workers that are on their way to the ready queue.
Awake == {w \in Workers : worker_pc[w] \in {"loop", "lock"}}

\* A set of workers that loses or gains one.
LEMMA CountWorkers ==
    ASSUME NEW S \in SUBSET Workers
    PROVE  /\ IsFiniteSet(S) /\ Cardinality(S) \in Nat
           /\ \A w \in S : Cardinality(S \ {w}) = Cardinality(S) - 1
           /\ \A w \in Workers \ S : Cardinality(S \cup {w}) = Cardinality(S) + 1
<1>1. IsFiniteSet(S)
  BY FS_Subset, SchedulerAssumption DEF SchedulerAssumption
<1>2. Cardinality(S) \in Nat
  BY <1>1, FS_CardinalityType
<1>3. \A w \in S : Cardinality(S \ {w}) = Cardinality(S) - 1
  BY <1>1, FS_RemoveElement
<1>4. \A w \in Workers \ S : Cardinality(S \cup {w}) = Cardinality(S) + 1
  BY <1>1, FS_AddElement
<1>. QED  BY <1>1, <1>2, <1>3, <1>4

\* A step that moves no worker and adds nothing to the ready queue, and does not
\* set running_.
LEMMA CoverFrame ==
    ASSUME WorkersCoverReady, UNCHANGED <<worker_pc, ready_queue>>, running' => running
    PROVE  WorkersCoverReady'
  BY DEF WorkersCoverReady

\* A worker that wakes up comes to those who are awake.
LEMMA CoverWoken ==
    ASSUME TypeOK, NEW w \in Workers, worker_pc[w] \notin {"loop", "lock"},
           NEW pc \in {"loop", "lock"}, worker_pc' = [worker_pc EXCEPT ![w] = pc]
    PROVE  /\ Cardinality(Awake') = Cardinality(Awake) + 1
           /\ (\E v \in Workers : worker_pc'[v] = "wait") => \E v \in Workers : worker_pc[v] = "wait"
<1>1. \A v \in Workers : worker_pc'[v] = IF v = w THEN pc ELSE worker_pc[v]
  BY DEF TypeOK
<1>2. Awake' = Awake \cup {w} /\ w \in Workers \ Awake
  BY <1>1 DEF Awake
<1>3. Cardinality(Awake') = Cardinality(Awake) + 1
  BY <1>2, CountWorkers DEF Awake
<1>. QED  BY <1>1, <1>3

\* Whoever calls the scheduler wakes all workers or none, and adds nothing to the
\* ready queue.
LEMMA CoverCaller == WorkersCoverReady /\ CallerStep => WorkersCoverReady'
<1>. SUFFICES ASSUME WorkersCoverReady, CallerStep PROVE WorkersCoverReady'  OBVIOUS
<1>. USE DEF store, timer, workers, flags, calls
<1>1. ASSUME Resume \/ StopNotify PROVE WorkersCoverReady'
  <2>1. \A w \in Workers : worker_pc'[w] # "wait"
    BY <1>1 DEF Resume, StopNotify, AllWorkersNotified
  <2>. QED  BY <2>1 DEF WorkersCoverReady
<1>2. ASSUME NEW o \in Options, ScheduleBegin(o) PROVE WorkersCoverReady'
  BY <1>2, CoverFrame DEF ScheduleBegin
<1>3. ASSUME NEW id \in Ids, ScheduleStep(id) \/ Cancel(id) PROVE WorkersCoverReady'
  BY <1>3, CoverFrame
     DEF ScheduleStep, ScheduleCommit, ScheduleReject, ScheduleNotify, Cancel, Mark
<1>4. CASE CancelAll \/ \E t \in Tags : CancelByTag(t)
  BY <1>4, CoverFrame DEF CancelAll, CancelByTag, Mark
<1>5. CASE Pause \/ StopFlag \/ StopJoin
  BY <1>5, CoverFrame DEF Pause, StopFlag, StopJoin
<1>6. ASSUME NEW c \in Callers, WaitAllEnter(c) \/ WaitAllWake(c) PROVE WorkersCoverReady'
  BY <1>6, CoverFrame DEF WaitAllEnter, WaitAllWake
<1>. QED  BY <1>1, <1>2, <1>3, <1>4, <1>5, <1>6 DEF CallerStep

\* The timer wakes a worker for each task it promotes, if one sleeps.
LEMMA CoverTimer == TypeOK /\ WorkersCoverReady /\ TimerStep => WorkersCoverReady'
<1>. SUFFICES ASSUME TypeOK, WorkersCoverReady, TimerStep PROVE WorkersCoverReady'  OBVIOUS
<1>. USE DEF store, timer, workers, flags, calls
<1>1. ASSUME NEW id \in Ids, TimerPromote(id) PROVE WorkersCoverReady'
  <2>1. /\ Len(ready_queue') = Len(ready_queue) + 1 /\ Len(ready_queue) \in Nat
        /\ running' = running
    BY <1>1 DEF TimerPromote, TypeOK
  <2>2. CASE \A w \in Workers : worker_pc[w] # "wait" /\ worker_pc' = worker_pc
    BY <2>2, SchedulerAssumption DEF WorkersCoverReady
  <2>3. ASSUME NEW w \in Workers, worker_pc[w] = "wait",
               worker_pc' = [worker_pc EXCEPT ![w] = "lock"]
        PROVE  WorkersCoverReady'
    <3>1. Cardinality(Awake') = Cardinality(Awake) + 1
      BY <2>3, CoverWoken
    <3>2. running => Len(ready_queue) <= Cardinality(Awake)
      BY <2>3 DEF WorkersCoverReady, Awake
    <3>3. Cardinality(Awake) \in Nat
      BY CountWorkers DEF Awake
    <3>4. running' => Len(ready_queue') <= Cardinality(Awake')
      BY <2>1, <3>1, <3>2, <3>3
    <3>. QED  BY <3>4 DEF WorkersCoverReady, Awake
  <2>. QED  BY <1>1, <2>2, <2>3 DEF TimerPromote, NotifyOneWorker
<1>2. ASSUME NEW id \in Ids, TimerDrop(id) \/ TimerSleep(id) PROVE WorkersCoverReady'
  BY <1>2, CoverFrame DEF TimerDrop, TimerSleep
<1>3. ASSUME NEW pc, TimerGoto(pc) PROVE WorkersCoverReady'
  BY <1>3, CoverFrame DEF TimerGoto
<1>4. CASE TimerWakeTimed
  BY <1>4, CoverFrame DEF TimerWakeTimed
<1>. QED
  BY <1>1, <1>2, <1>3, <1>4
     DEF TimerStep, TimerLoop, TimerLock, TimerWakeEmpty, TimerPauseCheck, TimerPausePred,
         TimerPauseBlock, TimerWakePause, TimerTimeout

\* A worker sleeps only where it finds the queue empty, and comes back after its task.
LEMMA CoverWorker ==
    ASSUME NEW w \in Workers
    PROVE  TypeOK /\ WorkersCoverReady /\ WorkerStep(w) => WorkersCoverReady'
<1>. SUFFICES ASSUME TypeOK, WorkersCoverReady, WorkerStep(w) PROVE WorkersCoverReady'  OBVIOUS
<1>. USE DEF store, timer, workers, flags, calls
<1>0. Cardinality(Awake) \in Nat /\ Len(ready_queue) \in Nat
  BY CountWorkers DEF Awake, TypeOK
<1>1. CASE WorkerLoop(w)
  <2>. SUFFICES ASSUME running' PROVE WorkersCoverReady'  BY DEF WorkersCoverReady
  <2>1. running /\ UNCHANGED ready_queue /\ worker_pc[w] = "loop"
        /\ worker_pc' = [worker_pc EXCEPT ![w] = "lock"]
    BY <1>1 DEF WorkerLoop, WorkerGoto
  <2>2. \A v \in Workers : worker_pc'[v] = IF v = w THEN "lock" ELSE worker_pc[v]
    BY <2>1 DEF TypeOK
  <2>3. Awake' = Awake  BY <2>1, <2>2 DEF Awake
  <2>4. (\E v \in Workers : worker_pc'[v] = "wait") => \E v \in Workers : worker_pc[v] = "wait"
    BY <2>2
  <2>. QED  BY <2>1, <2>3, <2>4 DEF WorkersCoverReady, Awake
<1>2. CASE WorkerLock(w)
  <2>1. Len(ready_queue') = 0 /\ Cardinality(Awake') \in Nat
    <3>1. Cardinality({v \in Workers : worker_pc'[v] \in {"loop", "lock"}}) \in Nat
      BY CountWorkers
    <3>. QED  BY <1>2, <3>1 DEF WorkerLock, WorkerGoto, Awake
  <2>2. Len(ready_queue') <= Cardinality(Awake')  BY <2>1
  <2>. QED  BY <2>2 DEF WorkersCoverReady, Awake
<1>3. CASE WorkerTake(w)
  <2>1. /\ Len(ready_queue') = Len(ready_queue) - 1 /\ running' = running
        /\ worker_pc[w] = "lock" /\ worker_pc' = [worker_pc EXCEPT ![w] = "run"]
    BY <1>3 DEF WorkerTake, TypeOK
  <2>2. \A v \in Workers : worker_pc'[v] = IF v = w THEN "run" ELSE worker_pc[v]
    BY <2>1 DEF TypeOK
  <2>3. Awake' = Awake \ {w} /\ w \in Awake  BY <2>1, <2>2 DEF Awake
  <2>4. Cardinality(Awake') = Cardinality(Awake) - 1
    BY <2>3, CountWorkers DEF Awake
  <2>5. (\E v \in Workers : worker_pc'[v] = "wait") => \E v \in Workers : worker_pc[v] = "wait"
    BY <2>2
  <2>6. running' /\ (\E v \in Workers : worker_pc'[v] = "wait")
           => Len(ready_queue) <= Cardinality(Awake)
    BY <2>1, <2>5 DEF WorkersCoverReady, Awake
  <2>7. running' /\ (\E v \in Workers : worker_pc'[v] = "wait")
           => Len(ready_queue') <= Cardinality(Awake')
    BY <1>0, <2>1, <2>4, <2>6
  <2>. QED  BY <2>7 DEF WorkersCoverReady, Awake
<1>4. CASE WorkerRelease(w)
  <2>1. /\ UNCHANGED <<ready_queue, running>> /\ worker_pc[w] = "run"
        /\ worker_pc' = [worker_pc EXCEPT ![w] = "loop"]
    BY <1>4 DEF WorkerRelease
  <2>2. /\ Cardinality(Awake') = Cardinality(Awake) + 1
        /\ (\E v \in Workers : worker_pc'[v] = "wait") => \E v \in Workers : worker_pc[v] = "wait"
    BY <2>1, CoverWoken
  <2>3. running' /\ (\E v \in Workers : worker_pc'[v] = "wait")
           => Len(ready_queue) <= Cardinality(Awake)
    BY <2>1, <2>2 DEF WorkersCoverReady, Awake
  <2>4. running' /\ (\E v \in Workers : worker_pc'[v] = "wait")
           => Len(ready_queue') <= Cardinality(Awake')
    BY <1>0, <2>1, <2>2, <2>3
  <2>. QED  BY <2>4 DEF WorkersCoverReady, Awake
<1>. QED
  BY <1>1, <1>2, <1>3, <1>4 DEF WorkerStep, WorkerFinish, WorkerFinishLast, WorkerFinishAgain

\* In a pool of any size no ready task is left to sleeping workers: every
\* notify_one wakes another worker, and one that goes back to sleep has seen the
\* queue empty under the mutex.
THEOREM CoverReady == Spec => []WorkersCoverReady
<1>1. Init => WorkersCoverReady
  BY DEF Init, WorkersCoverReady
<1>2. TypeOK /\ WorkersCoverReady /\ [Next]_vars => WorkersCoverReady'
  <2>. SUFFICES ASSUME TypeOK, WorkersCoverReady, [Next]_vars PROVE WorkersCoverReady'  OBVIOUS
  <2>. USE DEF store, timer, workers, flags, calls
  <2>1. ASSUME NEW w \in Workers, SpuriousWorker(w) PROVE WorkersCoverReady'
    <3>1. /\ Cardinality(Awake') = Cardinality(Awake) + 1
          /\ UNCHANGED <<ready_queue, running>> /\ worker_pc[w] = "wait"
      BY <2>1, CoverWoken DEF SpuriousWorker, WorkerGoto
    <3>2. running => Len(ready_queue) <= Cardinality(Awake)
      BY <3>1 DEF WorkersCoverReady, Awake
    <3>3. Cardinality(Awake) \in Nat /\ Len(ready_queue) \in Nat
      BY CountWorkers DEF Awake, TypeOK
    <3>4. running' => Len(ready_queue') <= Cardinality(Awake')
      BY <3>1, <3>2, <3>3
    <3>. QED  BY <3>4 DEF WorkersCoverReady, Awake
  <2>2. CASE SpuriousTimer \/ Tick \/ UNCHANGED vars
    BY <2>2, CoverFrame DEF SpuriousTimer, TimerGoto, Tick, vars
  <2>3. ASSUME NEW c \in Callers, SpuriousCaller(c) PROVE WorkersCoverReady'
    BY <2>3, CoverFrame DEF SpuriousCaller
  <2>. QED
    BY <2>1, <2>2, <2>3, CoverCaller, CoverTimer, CoverWorker DEF Next, SpuriousStep, Stopped
<1>. QED  BY <1>1, <1>2, TypeCorrect, PTL DEF Spec

\* The callers that a finished task notifies sleep no longer.
LEMMA NoneWaits ==
    ASSUME TypeOK, caller_pc' = AllCallersNotified
    PROVE  \A c \in Callers : caller_pc'[c] # "wait"
  BY DEF TypeOK, AllCallersNotified

\* Which steps leave the scheduler without tasks.
LEMMA IdleStep ==
    ASSUME TypeOK, [Next]_vars, ~AllIdle, AllIdle'
    PROVE  \/ \E id \in Ids : TimerDrop(id)
           \/ \E w \in Workers : WorkerFinishLast(w)
<1>. USE DEF AllIdle, store, timer, workers, flags, calls
<1>1. ~UNCHANGED <<pending_tasks, running_tasks>>  OBVIOUS
<1>2. CASE CallerStep
  <2>1. ASSUME NEW id \in Ids, ScheduleCommit(id) PROVE FALSE
    BY <2>1 DEF ScheduleCommit
  <2>2. CASE Pause \/ Resume \/ StopFlag \/ StopNotify \/ StopJoin
    BY <1>1, <2>2 DEF Pause, Resume, StopFlag, StopNotify, StopJoin
  <2>3. ASSUME NEW o \in Options, ScheduleBegin(o) PROVE FALSE
    BY <1>1, <2>3 DEF ScheduleBegin
  <2>4. ASSUME NEW id \in Ids, ScheduleReject(id) \/ ScheduleNotify(id) \/ Cancel(id) PROVE FALSE
    BY <1>1, <2>4 DEF ScheduleReject, ScheduleNotify, Cancel, Mark
  <2>5. CASE CancelAll \/ \E t \in Tags : CancelByTag(t)
    BY <1>1, <2>5 DEF CancelAll, CancelByTag, Mark
  <2>6. ASSUME NEW c \in Callers, WaitAllEnter(c) \/ WaitAllWake(c) PROVE FALSE
    BY <1>1, <2>6 DEF WaitAllEnter, WaitAllWake
  <2>. QED  BY <1>2, <2>1, <2>2, <2>3, <2>4, <2>5, <2>6 DEF CallerStep, ScheduleStep
<1>3. CASE TimerStep
  <2>1. ASSUME NEW pc, TimerGoto(pc) PROVE FALSE
    BY <1>1, <2>1 DEF TimerGoto
  <2>2. ASSUME NEW id \in Ids, TimerPromote(id) \/ TimerSleep(id) PROVE FALSE
    BY <1>1, <2>2 DEF TimerPromote, TimerSleep
  <2>3. ~TimerWakeTimed
    BY <1>1 DEF TimerWakeTimed
  <2>. QED
    BY <1>3, <2>1, <2>2, <2>3
       DEF TimerStep, TimerLoop, TimerLock, TimerWakeEmpty, TimerPauseCheck, TimerPausePred,
           TimerPauseBlock, TimerWakePause, TimerTimeout
<1>4. ASSUME NEW w \in Workers, WorkerStep(w) PROVE WorkerFinishLast(w)
  <2>1. ~WorkerLoop(w) /\ ~WorkerLock(w)
    BY <1>1 DEF WorkerLoop, WorkerLock, WorkerGoto
  <2>2. ~WorkerTake(w)  BY DEF WorkerTake
  <2>3. ~WorkerFinishAgain(w)  BY DEF WorkerFinishAgain
  <2>. QED  BY <1>4, <2>1, <2>2, <2>3 DEF WorkerStep, WorkerFinish
<1>5. ~SpuriousStep /\ ~Tick /\ ~UNCHANGED vars
  BY <1>1 DEF SpuriousStep, SpuriousTimer, SpuriousWorker, SpuriousCaller, TimerGoto, WorkerGoto,
              Tick, vars
<1>. QED  BY <1>2, <1>3, <1>4, <1>5 DEF Next, Stopped

\* When the last task ends, whichever worker ran it, every thread inside
\* wait_all() is notified; only the timer may forget a cancelled task in silence.
THEOREM IdleIsAnnounced == Spec => IdleAnnounced
<1>1. TypeOK /\ [Next]_vars =>
         [~AllIdle /\ AllIdle' /\ cancelled_tasks \cap task_queue = {} =>
             \A c \in Callers : caller_pc'[c] # "wait"]_vars
  <2>. SUFFICES ASSUME TypeOK, [Next]_vars, ~AllIdle, AllIdle',
                       cancelled_tasks \cap task_queue = {}
                PROVE  \A c \in Callers : caller_pc'[c] # "wait"
    OBVIOUS
  <2>1. ASSUME NEW id \in Ids, TimerDrop(id) PROVE FALSE
    BY <2>1 DEF TimerDrop, Top
  <2>2. ASSUME NEW w \in Workers, WorkerFinishLast(w) PROVE caller_pc' = AllCallersNotified
    BY <2>2 DEF WorkerFinishLast, AllIdle
  <2>. QED  BY <2>1, <2>2, IdleStep, NoneWaits
<1>. QED  BY <1>1, TypeCorrect, PTL DEF Spec, IdleAnnounced
=============================================================================
