--------------------------- MODULE ScriptScheduler ---------------------------
(***************************************************************************)
(* scripting/script_scheduler.{hpp,cpp}, the timers of the Lua scripts,    *)
(* driven by Core::run (core/core.cpp).  Everything runs on the main       *)
(* thread: scripts call the scheduler while they load, from event          *)
(* callbacks inside process(), and from the callbacks update() runs.       *)
(***************************************************************************)
EXTENDS Integers

CONSTANTS
    Delays,      \* delays of schedule()
    Intervals,   \* intervals of schedule_periodic()
    MaxId,       \* bound on generate_id()
    MaxTime      \* bound on the clock

ASSUME ScriptAssumption ==
    /\ Delays \subseteq Int /\ Intervals \subseteq Int
    /\ MaxId \in Nat /\ MaxTime \in Nat

Ids == 1..MaxId
NoId == 0

VARIABLES
    task,      \* the Task behind each id
    tasks,     \* tasks_; ids grow, so the vector is in the order of its ids
    next_id,
    batch,     \* what is left of update()'s tasks_to_execute
    current,   \* the task whose callback runs
    phase,     \* the main thread's place in Core::run and update()
    now, prev, elapsed,
    due,       \* history: when a task may first run, by when it was scheduled
    known,     \* history: next_id when update() began
    stopped    \* history: tasks a script cancelled or told to stop

store == <<task, tasks, next_id>>
clock == <<now, prev, elapsed>>
history == <<due, known, stopped>>
vars == <<store, batch, current, phase, clock, history>>

NoTask == [remaining |-> 0, interval |-> 0, periodic |-> FALSE, cancelled |-> FALSE]

Init ==
    /\ task = [id \in Ids |-> NoTask] /\ tasks = {} /\ next_id = 1
    /\ batch = {} /\ current = NoId /\ phase = "load"
    /\ now = 0 /\ prev = 0 /\ elapsed = 0
    /\ due = [id \in Ids |-> 0] /\ known = 1 /\ stopped = {}

IsPending(id) == id \in tasks /\ ~task[id].cancelled

-----------------------------------------------------------------------------
(* What scripts call: schedule(), schedule_periodic(), cancel(), cancel_all() *)

ScriptRuns == phase \in {"load", "events", "callback"}

\* The start of the time that update() will charge a task added now: the round
\* measured last in an event callback, the one being measured in update().
CountedFrom == CASE phase = "events" -> prev - elapsed
                 [] phase = "callback" -> prev
                 [] phase = "load" -> now

Add(remaining, interval, periodic) ==
    /\ ScriptRuns /\ next_id <= MaxId /\ now + remaining <= MaxTime
    /\ task' = [task EXCEPT ![next_id] =
                  [remaining |-> remaining, interval |-> interval,
                   periodic |-> periodic, cancelled |-> FALSE]]
    /\ tasks' = tasks \cup {next_id}
    /\ next_id' = next_id + 1
    /\ due' = [due EXCEPT ![next_id] = CountedFrom + remaining]
    /\ UNCHANGED <<batch, current, phase, clock, known, stopped>>

Schedule(delay) == Add(delay, 0, FALSE)
SchedulePeriodic(interval, initial_delay) ==
    Add(IF initial_delay > 0 THEN initial_delay ELSE interval, interval, TRUE)

\* Mutants, the operators named Mut...: the definition that follows each with
\* one mistake in it.  Every property is checked to notice one.

\* Mutant: a cancelled task is erased at once.
MutMarkCancelled(ids) ==
    /\ ScriptRuns
    /\ tasks' = tasks \ ids
    /\ task' = [id \in Ids |-> IF id \in ids THEN NoTask ELSE task[id]]
    /\ stopped' = stopped \cup ids
    /\ UNCHANGED <<next_id, batch, current, phase, clock, due, known>>

MarkCancelled(ids) ==
    /\ ScriptRuns
    /\ task' = [id \in Ids |-> IF id \in ids THEN [task[id] EXCEPT !.cancelled = TRUE]
                                             ELSE task[id]]
    /\ stopped' = stopped \cup ids
    /\ UNCHANGED <<tasks, next_id, batch, current, phase, clock, due, known>>

Cancel(id) == id \in tasks /\ MarkCancelled({id})
CancelAll == MarkCancelled(tasks)

-----------------------------------------------------------------------------
(* Core::run: measure the time since the last round, process, update *)

RunStart ==
    /\ phase = "load"
    /\ phase' = "top" /\ prev' = now
    /\ UNCHANGED <<store, batch, current, now, elapsed, history>>

\* Mutant: the start of the round is not taken.
MutLoopStartPrev ==
    /\ phase = "top"
    /\ phase' = "events" /\ prev' = prev /\ elapsed' = now - prev
    /\ UNCHANGED <<store, batch, current, now, history>>
LoopStart ==
    /\ phase = "top"
    /\ phase' = "events" /\ prev' = now /\ elapsed' = now - prev
    /\ UNCHANGED <<store, batch, current, now, history>>

-----------------------------------------------------------------------------
(* update() *)

Expired(id) == ~task[id].cancelled /\ task[id].remaining <= elapsed

\* Nothing is to be done without tasks; otherwise every live one loses the
\* elapsed time, and the expired ones are collected.
UpdateBegin ==
    /\ phase = "events"
    /\ phase' = IF tasks = {} THEN "top" ELSE "batch"
    /\ batch' = {id \in tasks : Expired(id)}
    /\ task' = [id \in Ids |->
                  IF id \notin tasks \/ task[id].cancelled THEN task[id]
                  ELSE [task[id] EXCEPT !.remaining =
                          IF Expired(id) /\ task[id].periodic
                            THEN task[id].interval ELSE @ - elapsed]]
    /\ known' = next_id
    /\ UNCHANGED <<tasks, next_id, current, clock, due, stopped>>

First(id) == id \in batch /\ \A j \in batch : id <= j

UpdateSkip(id) ==
    /\ phase = "batch" /\ First(id) /\ task[id].cancelled
    /\ batch' = batch \ {id}
    /\ UNCHANGED <<store, current, phase, clock, history>>

\* Mutant: a task cancelled meanwhile may be called.
MutUpdateCall(id) ==
    /\ phase = "batch" /\ First(id)
    /\ batch' = batch \ {id}
    /\ current' = id /\ phase' = "callback"
    /\ UNCHANGED <<store, clock, history>>

UpdateCall(id) ==
    /\ phase = "batch" /\ First(id) /\ ~task[id].cancelled
    /\ batch' = batch \ {id}
    /\ current' = id /\ phase' = "callback"
    /\ UNCHANGED <<store, clock, history>>

\* Mutant: an error ends a periodic task.
MutUpdateReturn(result) ==
    /\ phase = "callback"
    /\ phase' = "batch" /\ current' = NoId
    /\ task' = [task EXCEPT ![current].cancelled =
                  @ \/ result # "other" \/ ~task[current].periodic]
    /\ stopped' = IF result = "false" THEN stopped \cup {current} ELSE stopped
    /\ UNCHANGED <<tasks, next_id, batch, clock, due, known>>

\* The callback failed, returned false, or returned anything else.
UpdateReturn(result) ==
    /\ phase = "callback"
    /\ phase' = "batch" /\ current' = NoId
    /\ LET t == task[current]
           told == result = "false" /\ t.periodic IN
          /\ task' = [task EXCEPT ![current].cancelled = @ \/ told \/ ~t.periodic]
          /\ stopped' = IF told THEN stopped \cup {current} ELSE stopped
    /\ UNCHANGED <<tasks, next_id, batch, clock, due, known>>

\* Mutant: every one-shot is erased.
MutUpdateEndAll ==
    /\ phase = "batch" /\ batch = {}
    /\ phase' = "top"
    /\ tasks' = {id \in tasks : ~task[id].cancelled /\ task[id].periodic}
    /\ task' = [id \in Ids |-> IF id \in tasks' THEN task[id] ELSE NoTask]
    /\ UNCHANGED <<next_id, batch, current, clock, history>>

UpdateEnd ==
    /\ phase = "batch" /\ batch = {}
    /\ phase' = "top"
    /\ tasks' = {id \in tasks : ~task[id].cancelled}
    /\ task' = [id \in Ids |-> IF id \in tasks' THEN task[id] ELSE NoTask]
    /\ UNCHANGED <<next_id, batch, current, clock, history>>

-----------------------------------------------------------------------------
\* prev is first read after loading: the time that takes counts for no task.
Tick ==
    /\ now < MaxTime /\ phase # "load"
    /\ now' = now + 1
    /\ UNCHANGED <<store, batch, current, phase, prev, elapsed, history>>

ScriptStep ==
    \/ \E d \in Delays : Schedule(d)
    \/ \E i \in Intervals, d \in Delays : SchedulePeriodic(i, d)
    \/ \E id \in Ids : Cancel(id)
    \/ CancelAll

LoopStep ==
    \/ RunStart \/ LoopStart \/ UpdateBegin \/ UpdateEnd
    \/ \E id \in Ids : UpdateSkip(id) \/ UpdateCall(id)
    \/ \E r \in {"error", "false", "other"} : UpdateReturn(r)

Next == ScriptStep \/ LoopStep \/ Tick

Spec == Init /\ [][Next]_vars

\* The main thread never stops in its loop, callbacks return, time passes.
Fairness == WF_vars(LoopStep) /\ WF_vars(Tick)
FairSpec == Spec /\ Fairness

-----------------------------------------------------------------------------
(* Properties *)

\* Every variable of the script scheduler keeps its type.
TypeOK ==
    /\ task \in [Ids -> [remaining : Int, interval : Int,
                         periodic : BOOLEAN, cancelled : BOOLEAN]]
    /\ tasks \subseteq Ids /\ next_id \in 1..(MaxId + 1)
    /\ batch \subseteq Ids /\ current \in Ids \cup {NoId}
    /\ phase \in {"load", "top", "events", "batch", "callback"}
    /\ phase = "callback" => current \in Ids
    /\ now \in Nat /\ prev \in Nat /\ elapsed \in Nat
    /\ due \in [Ids -> Int] /\ known \in 1..(MaxId + 1) /\ stopped \subseteq Ids

\* While update() walks its copy no task object goes away under it, and none
\* that a callback adds is run in the same round: a callback that schedules
\* itself again does not spin.
RoundClosed ==
    /\ batch \cup ({current} \ {NoId}) \subseteq tasks
    /\ \A id \in batch \cup {current} : id < known

\* Between two rounds no cancelled or finished task is left in tasks_, and no
\* task has expired unnoticed.
RoundComplete ==
    phase = "top" =>
       \A id \in tasks : id < known =>
          /\ IsPending(id)
          /\ \/ task[id].remaining > 0
             \/ task[id].periodic /\ task[id].interval <= 0

\* The rounds of update(): closed while they run, complete when they end.
RoundExact == RoundClosed /\ RoundComplete

\* A task that was cancelled, by whatever callback runs before it in the same
\* round, or that has run as a one-shot, is never called again.
NeverAfterEnd ==
    [][\A id \in Ids :
          id < next_id /\ ~IsPending(id) /\ current # id => current' # id]_vars

\* A periodic task leaves only because a script cancelled it or its callback
\* returned false; an error in the callback does not stop it.
PeriodicPersists ==
    [][\A id \in tasks \ tasks' : task[id].periodic => id \in stopped]_vars

\* A one-shot task that no script cancels does run.
OneShotRuns ==
    \A id \in Ids : (IsPending(id) /\ ~task[id].periodic)
                       ~> (current = id \/ id \in stopped)

\* A task is never charged the same time twice.  Scheduled while scripts load it
\* does not run before its delay has passed; scheduled in a callback it may run
\* early, but by no more than the rounds under way have already taken.
NeverEarly == current # NoId => due[current] <= now

=============================================================================
