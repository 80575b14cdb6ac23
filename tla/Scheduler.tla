------------------------------ MODULE Scheduler ------------------------------
(***************************************************************************)
(* The thread pool of core/scheduler.{hpp,cpp}: one timer thread promotes  *)
(* due tasks from the priority queue to the FIFO ready queue, the workers  *)
(* run them, and any thread (a task's own callback included) schedules,    *)
(* cancels, pauses, resumes, waits and stops.                              *)
(*                                                                         *)
(* Every critical section on mutex_ is one action, except in the timer,    *)
(* whose reads of the atomic paused_ are separate steps because pause()    *)
(* and resume() write it without the mutex.  MutexFree says the timer is   *)
(* not inside such a section.                                              *)
(***************************************************************************)
EXTENDS Integers, FiniteSets, SequencesExt

CONSTANTS
    Workers,   \* workers_: the pool's threads
    Callers,   \* threads that call wait_all()
    Tags,      \* the non-empty tags in use
    NoTag,     \* the empty tag
    Options,   \* the options callers schedule with
    MaxId,     \* bound on generate_id()
    MaxTime    \* bound on the clock

Ids == 1..MaxId
NoId == 0                       \* INVALID_TASK_ID

TaskRecord == [tag : Tags \cup {NoTag}, priority : Int, at : Nat,
               interval : Nat, stoppable : BOOLEAN, root : 0..MaxId]

ASSUME SchedulerAssumption ==
    /\ Workers # {} /\ IsFiniteSet(Workers)
    /\ NoTag \notin Tags
    /\ MaxId \in Nat /\ MaxTime \in Nat
    /\ \A o \in Options :
          o \in [tag : Tags \cup {NoTag}, priority : Int, delay : Nat,
                 interval : Nat, stoppable : BOOLEAN]

VARIABLES
    task,            \* the Task object behind each id
    task_queue,      \* ids in the priority queue
    ready_queue,     \* ids in the FIFO queue
    pending_tasks, cancelled_tasks, running_tasks, tasks_by_tag,
    active_tasks, next_id,
    running, paused, \* the atomic flags
    begun,           \* ids of schedule() calls that do not hold the mutex yet
    unnotified,      \* ids of schedule() calls before their notify_one
    timer_pc, deadline,
    worker_pc, worker_task,
    caller_pc,       \* threads inside wait_all()
    stop_pc,
    now,
    promoted         \* history: promotions since paused became true

store == <<task, task_queue, ready_queue, pending_tasks, cancelled_tasks,
           running_tasks, tasks_by_tag, active_tasks, next_id>>
timer == <<timer_pc, deadline>>
workers == <<worker_pc, worker_task>>
flags == <<running, paused, stop_pc, promoted>>
calls == <<begun, unnotified>>
vars == <<store, timer, workers, flags, calls, caller_pc, now>>

NoTask == [tag |-> NoTag, priority |-> 0, at |-> 0, interval |-> 0,
           stoppable |-> FALSE, root |-> 0]

Init ==
    /\ task = [id \in Ids |-> NoTask]
    /\ task_queue = {} /\ ready_queue = <<>>
    /\ pending_tasks = {} /\ cancelled_tasks = {} /\ running_tasks = {}
    /\ tasks_by_tag = [t \in Tags |-> {}]
    /\ active_tasks = 0 /\ next_id = 1
    /\ running = TRUE /\ paused = FALSE /\ promoted = 0
    /\ begun = {} /\ unnotified = {}
    /\ timer_pc = "loop" /\ deadline = 0
    /\ worker_pc = [w \in Workers |-> "loop"]
    /\ worker_task = [w \in Workers |-> NoId]
    /\ caller_pc = [c \in Callers |-> "out"]
    /\ stop_pc = "no"
    /\ now = 0

-----------------------------------------------------------------------------
(* Helpers *)

\* The timer is outside every section in which it keeps mutex_.
MutexFree == timer_pc \notin {"pauseCheck", "pausePred", "pauseBlock", "promote"}

\* Mutants, the operators named Mut...: the definition that follows each with
\* one mistake in it.  Every property is checked to notice one.

\* Mutant: timer_cv_ is never notified.
MutTimerNotified(pc) == pc

\* timer_cv_.notify_one/notify_all: only the timer waits there.
TimerNotified(pc) ==
    CASE pc = "emptyWait" -> "emptyWoken"
      [] pc = "pauseWait" -> "pauseWoken"
      [] pc = "timedWait" -> "timedWoken"
      [] OTHER -> pc

\* worker_cv_.notify_all and notify_one; a woken worker re-locks the mutex.
AllWorkersNotified ==
    [w \in Workers |-> IF worker_pc[w] = "wait" THEN "lock" ELSE worker_pc[w]]
\* Mutant: worker_cv_ is not notified of a promotion.
MutNotifyOneWorker == worker_pc' = worker_pc
NotifyOneWorker ==
    \/ /\ \A w \in Workers : worker_pc[w] # "wait"
       /\ worker_pc' = worker_pc
    \/ \E w \in Workers :
          /\ worker_pc[w] = "wait"
          /\ worker_pc' = [worker_pc EXCEPT ![w] = "lock"]

\* Mutant: wait_all() is not notified.
MutAllCallersNotified == caller_pc
\* idle_cv_.notify_all.
AllCallersNotified ==
    [c \in Callers |-> IF caller_pc[c] = "wait" THEN "woken" ELSE caller_pc[c]]

Tagged(tag, id) ==
    [t \in Tags |-> IF t = tag THEN tasks_by_tag[t] \cup {id} ELSE tasks_by_tag[t]]
\* Mutant: the tag index keeps finished tasks.
MutUntagged(tag, id) == tasks_by_tag
Untagged(tag, id) ==
    [t \in Tags |-> IF t = tag THEN tasks_by_tag[t] \ {id} ELSE tasks_by_tag[t]]

\* Task::operator>: i leaves the priority queue before j; ties are arbitrary.
Before(i, j) ==
    \/ task[i].at < task[j].at
    \/ task[i].at = task[j].at /\ task[i].priority < task[j].priority
Top(id) == id \in task_queue /\ \A j \in task_queue : ~Before(j, id)
\* Mutant: the cancellation is not looked at.
MutCancelled(id) == FALSE
Due(id) == task[id].at <= now
Cancelled(id) == id \in cancelled_tasks

\* The predicate of wait_all().
AllIdle == pending_tasks = {} /\ running_tasks = {}

IsPending(id) == id \in pending_tasks /\ ~Cancelled(id)
PendingCount == Cardinality({id \in pending_tasks : ~Cancelled(id)})
PendingCountByTag(t) == Cardinality({id \in tasks_by_tag[t] : IsPending(id)})

-----------------------------------------------------------------------------
(* schedule(), schedule_delayed(), schedule_periodic(), schedule_immediate() *)

\* The id and the deadline are taken before the mutex is.
ScheduleBegin(o) ==
    /\ next_id <= MaxId /\ now + o.delay <= MaxTime
    /\ task' = [task EXCEPT ![next_id] =
                  [tag |-> o.tag, priority |-> o.priority, at |-> now + o.delay,
                   interval |-> o.interval, stoppable |-> o.stoppable,
                   root |-> next_id]]
    /\ begun' = begun \cup {next_id}
    /\ next_id' = next_id + 1
    /\ UNCHANGED <<task_queue, ready_queue, pending_tasks, cancelled_tasks,
                   running_tasks, tasks_by_tag, active_tasks, unnotified,
                   timer, workers, flags, caller_pc, now>>

ScheduleCommit(id) ==
    /\ id \in begun /\ MutexFree /\ running
    /\ begun' = begun \ {id}
    /\ unnotified' = unnotified \cup {id}
    /\ pending_tasks' = pending_tasks \cup {id}
    /\ tasks_by_tag' = Tagged(task[id].tag, id)
    /\ task_queue' = task_queue \cup {id}
    /\ UNCHANGED <<task, ready_queue, cancelled_tasks, running_tasks,
                   active_tasks, next_id, timer, workers, flags, caller_pc, now>>

\* The scheduler was stopped meanwhile: INVALID_TASK_ID is returned.
ScheduleReject(id) ==
    /\ id \in begun /\ MutexFree /\ ~running
    /\ begun' = begun \ {id}
    /\ task' = [task EXCEPT ![id] = NoTask]
    /\ UNCHANGED <<task_queue, ready_queue, pending_tasks, cancelled_tasks,
                   running_tasks, tasks_by_tag, active_tasks, next_id,
                   unnotified, timer, workers, flags, caller_pc, now>>

ScheduleNotify(id) ==
    /\ id \in unnotified
    /\ unnotified' = unnotified \ {id}
    /\ timer_pc' = TimerNotified(timer_pc)
    /\ UNCHANGED <<store, begun, deadline, workers, flags, caller_pc, now>>

-----------------------------------------------------------------------------
(* cancel(), cancel_by_tag(), cancel_all() *)

Mark(ids) ==
    /\ MutexFree
    /\ cancelled_tasks' = cancelled_tasks \cup ids
    /\ UNCHANGED <<task, task_queue, ready_queue, pending_tasks, running_tasks,
                   tasks_by_tag, active_tasks, next_id, timer, workers, flags,
                   calls, caller_pc, now>>

Cancel(id) == id \in pending_tasks /\ Mark({id})
CancelByTag(t) == Mark(tasks_by_tag[t] \cap pending_tasks)
CancelAll == Mark(pending_tasks)

-----------------------------------------------------------------------------
(* pause(), resume(), stop(), wait_all() *)

\* No mutex and no notification.
Pause ==
    /\ ~paused
    /\ paused' = TRUE /\ promoted' = 0
    /\ UNCHANGED <<store, timer, workers, running, stop_pc, calls, caller_pc, now>>

\* No mutex: the store and the notification can both fall between the timer's
\* evaluation of its predicate and its going to sleep.
Resume ==
    /\ paused' = FALSE /\ promoted' = 0
    /\ timer_pc' = TimerNotified(timer_pc)
    /\ worker_pc' = AllWorkersNotified
    /\ UNCHANGED <<store, deadline, worker_task, running, stop_pc, calls,
                   caller_pc, now>>

\* Mutant: running_ is cleared without the mutex.
MutStopFlag ==
    /\ stop_pc = "no" /\ running
    /\ running' = FALSE /\ stop_pc' = "notify"
    /\ UNCHANGED <<store, timer, workers, paused, promoted, calls, caller_pc, now>>

StopFlag ==
    /\ stop_pc = "no" /\ running /\ MutexFree
    /\ running' = FALSE /\ stop_pc' = "notify"
    /\ UNCHANGED <<store, timer, workers, paused, promoted, calls, caller_pc, now>>

StopNotify ==
    /\ stop_pc = "notify"
    /\ stop_pc' = "join"
    /\ timer_pc' = TimerNotified(timer_pc)
    /\ worker_pc' = AllWorkersNotified
    /\ UNCHANGED <<store, deadline, worker_task, running, paused, promoted,
                   calls, caller_pc, now>>

StopJoin ==
    /\ stop_pc = "join" /\ timer_pc = "done"
    /\ \A w \in Workers : worker_pc[w] = "done"
    /\ stop_pc' = "done"
    /\ UNCHANGED <<store, timer, workers, running, paused, promoted, calls,
                   caller_pc, now>>

WaitAllEnter(c) ==
    /\ caller_pc[c] = "out" /\ MutexFree /\ ~AllIdle
    /\ caller_pc' = [caller_pc EXCEPT ![c] = "wait"]
    /\ UNCHANGED <<store, timer, workers, flags, calls, now>>

WaitAllWake(c) ==
    /\ caller_pc[c] = "woken" /\ MutexFree
    /\ caller_pc' = [caller_pc EXCEPT ![c] = IF AllIdle THEN "out" ELSE "wait"]
    /\ UNCHANGED <<store, timer, workers, flags, calls, now>>

-----------------------------------------------------------------------------
(* timer_thread() *)

TimerGoto(pc) ==
    /\ timer_pc' = pc
    /\ UNCHANGED <<store, deadline, workers, flags, calls, caller_pc, now>>

\* while (running_), read without the mutex.
TimerLoop == timer_pc = "loop" /\ TimerGoto(IF running THEN "lock" ELSE "done")

TimerLock ==
    /\ timer_pc = "lock"
    /\ TimerGoto(IF task_queue # {} THEN "pauseCheck"
                 ELSE IF running THEN "emptyWait" ELSE "done")

TimerWakeEmpty ==
    /\ timer_pc = "emptyWoken"
    /\ TimerGoto(IF ~running THEN "done"
                 ELSE IF task_queue # {} THEN "pauseCheck" ELSE "emptyWait")

TimerPauseCheck ==
    timer_pc = "pauseCheck" /\ TimerGoto(IF paused THEN "pausePred" ELSE "promote")

TimerPausePred ==
    /\ timer_pc = "pausePred"
    /\ TimerGoto(IF ~running THEN "done" ELSE IF paused THEN "pauseBlock" ELSE "loop")

TimerPauseBlock == timer_pc = "pauseBlock" /\ TimerGoto("pauseWait")
TimerWakePause == timer_pc = "pauseWoken" /\ TimerGoto("pausePred")

\* A due task that was cancelled is forgotten; idle_cv_ is not notified.
TimerDrop(id) ==
    /\ timer_pc = "promote" /\ Top(id) /\ Due(id) /\ Cancelled(id)
    /\ timer_pc' = "loop"
    /\ task_queue' = task_queue \ {id}
    /\ pending_tasks' = pending_tasks \ {id}
    /\ cancelled_tasks' = cancelled_tasks \ {id}
    /\ tasks_by_tag' = Untagged(task[id].tag, id)
    /\ task' = [task EXCEPT ![id] = NoTask]
    /\ UNCHANGED <<ready_queue, running_tasks, active_tasks, next_id, deadline,
                   workers, flags, calls, caller_pc, now>>

TimerPromote(id) ==
    /\ timer_pc = "promote" /\ Top(id) /\ Due(id) /\ ~Cancelled(id)
    /\ timer_pc' = "loop"
    /\ task_queue' = task_queue \ {id}
    /\ ready_queue' = Append(ready_queue, id)
    /\ NotifyOneWorker
    /\ promoted' = IF paused THEN promoted + 1 ELSE 0
    /\ UNCHANGED <<task, pending_tasks, cancelled_tasks, running_tasks,
                   tasks_by_tag, active_tasks, next_id, deadline, worker_task,
                   running, paused, stop_pc, calls, caller_pc, now>>

\* wait_for(lock, execute_at - now, !running_ || paused_).
TimerSleep(id) ==
    /\ timer_pc = "promote" /\ Top(id) /\ ~Due(id)
    /\ IF ~running \/ paused
         THEN timer_pc' = "loop" /\ deadline' = deadline
         ELSE timer_pc' = "timedWait" /\ deadline' = task[id].at
    /\ UNCHANGED <<store, workers, flags, calls, caller_pc, now>>

TimerTimeout ==
    timer_pc = "timedWait" /\ now >= deadline /\ TimerGoto("timedWoken")

\* Only the deadline, stop and pause end the wait: a task scheduled meanwhile
\* with an earlier deadline does not.
TimerWakeTimed ==
    /\ timer_pc = "timedWoken"
    /\ IF ~running \/ paused \/ now >= deadline
         THEN timer_pc' = "loop" /\ deadline' = 0
         ELSE timer_pc' = "timedWait" /\ deadline' = deadline
    /\ UNCHANGED <<store, workers, flags, calls, caller_pc, now>>

TimerStep ==
    \/ TimerLoop \/ TimerLock \/ TimerWakeEmpty
    \/ TimerPauseCheck \/ TimerPausePred \/ TimerPauseBlock \/ TimerWakePause
    \/ \E id \in Ids : TimerDrop(id) \/ TimerPromote(id) \/ TimerSleep(id)
    \/ TimerTimeout \/ TimerWakeTimed

-----------------------------------------------------------------------------
(* worker_thread() *)

WorkerGoto(w, pc) ==
    /\ worker_pc' = [worker_pc EXCEPT ![w] = pc]
    /\ UNCHANGED <<store, timer, worker_task, flags, calls, caller_pc, now>>

WorkerLoop(w) ==
    worker_pc[w] = "loop" /\ WorkerGoto(w, IF running THEN "lock" ELSE "done")

\* The predicate of worker_cv_.wait, with nothing to take.
WorkerLock(w) ==
    /\ worker_pc[w] = "lock" /\ MutexFree /\ ready_queue = <<>>
    /\ WorkerGoto(w, IF running THEN "wait" ELSE "done")

\* A ready task is taken even after stop(), and even when it was cancelled.
WorkerTake(w) ==
    /\ worker_pc[w] = "lock" /\ MutexFree /\ ready_queue # <<>>
    /\ LET id == Head(ready_queue) IN
          /\ worker_task' = [worker_task EXCEPT ![w] = id]
          /\ pending_tasks' = pending_tasks \ {id}
          /\ running_tasks' = running_tasks \cup {id}
    /\ worker_pc' = [worker_pc EXCEPT ![w] = "run"]
    /\ ready_queue' = Tail(ready_queue)
    /\ active_tasks' = active_tasks + 1
    /\ UNCHANGED <<task, task_queue, cancelled_tasks, tasks_by_tag, next_id,
                   timer, flags, calls, caller_pc, now>>

\* Mutant: the task stays in running_tasks_.
MutWorkerRelease(w) ==
    /\ worker_pc[w] = "run" /\ MutexFree
    /\ worker_pc' = [worker_pc EXCEPT ![w] = "loop"]
    /\ worker_task' = [worker_task EXCEPT ![w] = NoId]
    /\ active_tasks' = active_tasks - 1
    /\ cancelled_tasks' = cancelled_tasks \ {worker_task[w]}
    /\ UNCHANGED <<running_tasks, ready_queue, flags, calls, now, deadline>>

\* The callback has returned or thrown; what follows in either case.
WorkerRelease(w) ==
    /\ worker_pc[w] = "run" /\ MutexFree
    /\ worker_pc' = [worker_pc EXCEPT ![w] = "loop"]
    /\ worker_task' = [worker_task EXCEPT ![w] = NoId]
    /\ running_tasks' = running_tasks \ {worker_task[w]}
    /\ active_tasks' = active_tasks - 1
    /\ cancelled_tasks' = cancelled_tasks \ {worker_task[w]}
    /\ UNCHANGED <<ready_queue, flags, calls, now, deadline>>

\* The bounds allow the next round of a periodic task.
RoundLeft(t) == next_id <= MaxId /\ now + t.interval <= MaxTime

\* One-shot, cancelled, told to stop, or out of bounds.
WorkerFinishLast(w) ==
    /\ WorkerRelease(w)
    /\ LET id == worker_task[w]
           t == task[id] IN
          /\ \/ t.interval = 0 \/ Cancelled(id)
             \/ t.stoppable \/ ~RoundLeft(t)
          /\ task' = [task EXCEPT ![id] = NoTask]
          /\ tasks_by_tag' = Untagged(t.tag, id)
          /\ caller_pc' = IF pending_tasks = {} /\ running_tasks' = {}
                            THEN AllCallersNotified ELSE caller_pc
    /\ UNCHANGED <<task_queue, pending_tasks, next_id, timer_pc>>

\* A periodic task is scheduled again under a new id, whatever running_ says.
WorkerFinishAgain(w) ==
    /\ WorkerRelease(w)
    /\ LET id == worker_task[w]
           t == task[id] IN
          /\ t.interval > 0 /\ ~Cancelled(id) /\ RoundLeft(t)
          /\ task' = [task EXCEPT ![id] = NoTask,
                                  ![next_id] = [t EXCEPT !.at = now + t.interval]]
          /\ tasks_by_tag' =
                [tag \in Tags |-> IF tag = t.tag
                                    THEN (tasks_by_tag[tag] \ {id}) \cup {next_id}
                                    ELSE tasks_by_tag[tag]]
    /\ pending_tasks' = pending_tasks \cup {next_id}
    /\ task_queue' = task_queue \cup {next_id}
    /\ next_id' = next_id + 1
    /\ timer_pc' = TimerNotified(timer_pc)
    /\ UNCHANGED caller_pc

WorkerFinish(w) == WorkerFinishLast(w) \/ WorkerFinishAgain(w)
WorkerStep(w) ==
    WorkerLoop(w) \/ WorkerLock(w) \/ WorkerTake(w) \/ WorkerFinish(w)

-----------------------------------------------------------------------------
(* Time, spurious wakeups, and the end *)

Tick ==
    /\ now < MaxTime
    /\ now' = now + 1
    /\ UNCHANGED <<store, timer, workers, flags, calls, caller_pc>>

SpuriousTimer ==
    /\ timer_pc \in {"emptyWait", "pauseWait", "timedWait"}
    /\ TimerGoto(TimerNotified(timer_pc))
SpuriousWorker(w) == worker_pc[w] = "wait" /\ WorkerGoto(w, "lock")
SpuriousCaller(c) ==
    /\ caller_pc[c] = "wait"
    /\ caller_pc' = [caller_pc EXCEPT ![c] = "woken"]
    /\ UNCHANGED <<store, timer, workers, flags, calls, now>>

\* stop() has returned: nothing has to happen any more.
Stopped == stop_pc = "done" /\ UNCHANGED vars

ScheduleStep(id) == ScheduleCommit(id) \/ ScheduleReject(id) \/ ScheduleNotify(id)

CallerStep ==
    \/ \E o \in Options : ScheduleBegin(o)
    \/ \E id \in Ids : ScheduleStep(id) \/ Cancel(id)
    \/ \E t \in Tags : CancelByTag(t)
    \/ CancelAll \/ Pause \/ Resume
    \/ StopFlag \/ StopNotify \/ StopJoin
    \/ \E c \in Callers : WaitAllEnter(c) \/ WaitAllWake(c)

SpuriousStep ==
    \/ SpuriousTimer
    \/ \E w \in Workers : SpuriousWorker(w)
    \/ \E c \in Callers : SpuriousCaller(c)

Next ==
    \/ CallerStep
    \/ TimerStep
    \/ \E w \in Workers : WorkerStep(w)
    \/ SpuriousStep \/ Tick \/ Stopped

Spec == Init /\ [][Next]_vars

\* Threads run, callbacks return, time passes, and whoever waits for the mutex
\* while it keeps becoming free gets it.  Nobody is obliged to call anything.
Fairness ==
    /\ WF_vars(TimerStep)
    /\ \A w \in Workers : SF_vars(WorkerStep(w))
    /\ \A id \in Ids : SF_vars(ScheduleStep(id))
    /\ WF_vars(StopNotify) /\ WF_vars(StopJoin)
    /\ \A c \in Callers : SF_vars(WaitAllWake(c))
    /\ WF_vars(Tick)

FairSpec == Spec /\ Fairness

-----------------------------------------------------------------------------
(* Properties *)

TimerPcs == {"loop", "lock", "emptyWait", "emptyWoken", "pauseCheck",
             "pausePred", "pauseBlock", "pauseWait", "pauseWoken", "promote",
             "timedWait", "timedWoken", "done"}

\* Every variable of the scheduler keeps its type.
TypeOK ==
    /\ task \in [Ids -> TaskRecord]
    /\ task_queue \subseteq Ids
    /\ ready_queue \in Seq(Ids)
    /\ pending_tasks \subseteq Ids
    /\ cancelled_tasks \subseteq Ids
    /\ running_tasks \subseteq Ids
    /\ tasks_by_tag \in [Tags -> SUBSET Ids]
    /\ active_tasks \in Int /\ next_id \in 1..(MaxId + 1)
    /\ running \in BOOLEAN /\ paused \in BOOLEAN /\ promoted \in Nat
    /\ begun \subseteq Ids /\ unnotified \subseteq Ids
    /\ timer_pc \in TimerPcs /\ deadline \in Nat
    /\ worker_pc \in [Workers -> {"loop", "lock", "wait", "run", "done"}]
    /\ worker_task \in [Workers -> Ids \cup {NoId}]
    /\ \A w \in Workers : worker_pc[w] = "run" => worker_task[w] \in Ids
    /\ caller_pc \in [Callers -> {"out", "wait", "woken"}]
    /\ stop_pc \in {"no", "notify", "join", "done"}
    /\ now \in Nat

Live == pending_tasks \cup running_tasks

\* The five containers always tell one story: a pending id is in exactly one of
\* the two queues and once, a running id is on exactly one worker, and nothing
\* is pending and running, or not yet committed and already live.
BookkeepingExact ==
    /\ pending_tasks = task_queue \cup ToSet(ready_queue)
    /\ task_queue \cap ToSet(ready_queue) = {}
    /\ IsInjective(ready_queue)
    /\ \A w \in Workers :
          /\ (worker_pc[w] = "run") <=> (worker_task[w] # NoId)
          /\ \A v \in Workers : v # w /\ worker_pc[w] = "run"
                                  => worker_task[v] # worker_task[w]
    /\ running_tasks = {worker_task[w] : w \in Workers} \ {NoId}
    /\ active_tasks = Cardinality(running_tasks)
    /\ pending_tasks \cap running_tasks = {}
    /\ begun \cap Live = {}

\* A cancellation mark never outlives its task, so cancelled_tasks_ cannot grow
\* for ever, nor hit a later task.
NoStaleCancellation == cancelled_tasks \subseteq Live

\* The tag index lists exactly the live tasks of each tag: none leaks and
\* cancel_by_tag() misses none.
TagIndexExact ==
    \A t \in Tags : tasks_by_tag[t] = {id \in Live : task[id].tag = t}

\* The three counting queries agree: pending_count() is the number of ids
\* is_pending() accepts, and pending_count_by_tag() those of the tag.
CountsAgree ==
    /\ \A t \in Tags :
          PendingCountByTag(t) =
             Cardinality({id \in Ids : IsPending(id) /\ task[id].tag = t})
    /\ PendingCount = Cardinality({id \in Ids : IsPending(id)})

\* All that the scheduler keeps and says about its tasks agrees
\* (scheduler.hpp 69-75, 100-117).
ContainersExact ==
    BookkeepingExact /\ NoStaleCancellation /\ TagIndexExact /\ CountsAgree

\* A periodic task never overlaps itself: of the ids one schedule() call led
\* to, at most one is live.
OneLivePerChain ==
    \A i, j \in Live : task[i].root = task[j].root => i = j

\* No task is handed to the workers before its deadline.
NeverEarly ==
    \A id \in ToSet(ready_queue) \cup running_tasks : task[id].at <= now

\* No lost wakeup on worker_cv_: while a worker sleeps, enough others are on
\* their way to the ready queue to empty it.
WorkersCoverReady ==
    running /\ (\E w \in Workers : worker_pc[w] = "wait")
       => Len(ready_queue) <= Cardinality({w \in Workers : worker_pc[w] \in {"loop", "lock"}})

\* No lost wakeup on timer_cv_: the timer sleeps for want of tasks only while
\* there are none, or the caller that brought one is about to notify it.
TimerNotForgotten ==
    timer_pc = "emptyWait" => task_queue = {} \/ unnotified # {}

\* stop() never joins a sleeping thread: once it has notified, no thread goes
\* (back) to sleep on a condition variable.
StopWakesAll ==
    stop_pc \in {"join", "done"} =>
       /\ timer_pc \notin {"emptyWait", "pauseWait", "timedWait"}
       /\ \A w \in Workers : worker_pc[w] # "wait"

\* No thread sleeps on when there is something for it to wake for.
SleepersWake == TimerNotForgotten /\ StopWakesAll

\* After pause() at most one more task is promoted, the one the timer had
\* decided on when paused_ was set.
PauseHolds == paused => promoted <= 1

\* A task cancelled while in the priority queue stays cancelled there until it
\* is forgotten: it never reaches a worker.
CancelSticks ==
    [][\A id \in cancelled_tasks \cap task_queue :
          \/ id \in cancelled_tasks' /\ id \in task_queue'
          \/ id \notin Live']_vars

\* Wherever the cancellation found it, a cancelled task is the last of its
\* chain: when it leaves, no round of it is left or added.
CancelEndsChain ==
    [][\A id \in cancelled_tasks : id \notin Live' =>
          \A j \in Live' : task'[j].root # task[id].root]_vars

\* When the last task ends, every thread inside wait_all() is notified, unless
\* that task was cancelled and it was the timer that forgot it.
IdleAnnounced ==
    [][~AllIdle /\ AllIdle' /\ cancelled_tasks \cap task_queue = {} =>
          \A c \in Callers : caller_pc'[c] # "wait"]_vars

\* stop() returns, whatever the timer and the workers are doing when it starts.
StopReturns == (stop_pc = "notify") ~> (stop_pc = "done")

\* wait_all() returns when no one cancels, pauses or stops.
WaitAllReturns ==
    [](cancelled_tasks = {} /\ ~paused /\ running) =>
       \A c \in Callers : (caller_pc[c] # "out") ~> (caller_pc[c] = "out")

\* A pending task runs, unless it is cancelled or the scheduler stopped; this
\* supposes that pause() is never called (see Resume).
PendingRuns ==
    []~paused =>
       \A id \in Ids : (id \in pending_tasks)
          ~> (id \notin pending_tasks \/ id \in cancelled_tasks \/ ~running)

\* The scheduler implements TaskLifecycle: a cancellation that finds the task
\* in the priority queue revokes it, one that finds it promoted changes nothing.
StatusOf(id) ==
    IF id \in running_tasks THEN "running"
    ELSE IF id \in ToSet(ready_queue) THEN "committed"
    ELSE IF id \in task_queue
      THEN IF id \in cancelled_tasks THEN "revoked" ELSE "waiting"
    ELSE IF id \in begun \/ id >= next_id THEN "unborn" ELSE "gone"

Status == [id \in Ids |-> StatusOf(id)]

Lifecycle == INSTANCE TaskLifecycle WITH Tasks <- Ids, status <- Status

\* Lifecycle!Spec, with the stuttering steps, of which there are most, first.
ImplementsLifecycle ==
    Lifecycle!Init /\ [][UNCHANGED Status \/ Lifecycle!Next]_Status

=============================================================================
