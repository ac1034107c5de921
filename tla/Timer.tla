------------------------------- MODULE Timer -------------------------------
(***************************************************************************)
(* The process-wide timer service (ihs_timer.c): a registry of timers, one *)
(* worker thread that walks them, and the tasks of each timer.  Clients    *)
(* and sessions create one timer each, from any application thread.        *)
(*                                                                         *)
(* state.lock guards the registry and the thread handle; the worker holds  *)
(* it for a whole walk.  timer->mutex guards the tasks of one timer and is *)
(* held while they run.  One action is one critical section of the inner   *)
(* lock it takes, so callers start and stop tasks between two timers of a  *)
(* walk but not within one.  Time is reduced to whether a task is due.     *)
(* Callbacks do not re-enter the timer they run on (client.h:149), except  *)
(* the end callback of an immediate stop, which runs unlocked.             *)
(***************************************************************************)
EXTENDS Integers, FiniteSets

CONSTANTS
    Callers,   \* application threads
    Creators,  \* those that create and destroy timers
    MaxTimers, \* timers ever created
    MaxTasks,  \* tasks ever started
    MaxRuns    \* times a task becomes due

ASSUME TimerAssumption ==
    Creators \subseteq Callers /\ MaxTimers \in Nat /\ MaxTasks \in Nat /\ MaxRuns \in Nat

Timers == 1 .. MaxTimers
Tasks == 1 .. MaxTasks

VARIABLES
    registry, \* state.timers
    thread,   \* state.thread, 0 for NULL
    worker,   \* state of the thread with each handle
    walk,     \* timers the current walk has still to execute
    queue,    \* the tasks of each timer
    owner,    \* the owner slot of each timer, 0 when empty
    owned,    \* tasks started for a slot
    due,      \* tasks whose nextExecution has passed
    stopping, \* tasks whose nextExecution is 0
    runs,     \* runCount of each task
    ended,    \* history: end callbacks made for each task
    timers, started,  \* timers created and tasks started so far
    pc, arg   \* what each caller is inside of, and the handle or task it holds

registryVars == <<registry, thread, worker, walk, timers>>
taskVars == <<queue, owner, owned, due, stopping, runs, ended, started>>
callers == <<pc, arg>>
vars == <<registryVars, taskVars, callers>>

Init ==
    /\ registry = {} /\ thread = 0 /\ walk = {} /\ timers = 0
    /\ worker = [h \in Timers |-> "none"]
    /\ queue = [t \in Timers |-> {}] /\ owner = [t \in Timers |-> 0]
    /\ owned = {} /\ due = {} /\ stopping = {} /\ started = 0
    /\ runs = [k \in Tasks |-> 0] /\ ended = [k \in Tasks |-> 0]
    /\ pc = [c \in Callers |-> "idle"] /\ arg = [c \in Callers |-> 0]

-----------------------------------------------------------------------------
Idle(c) == pc[c] = "idle"
Unlocked == \A h \in Timers : worker[h] # "walking"

\* The first handle that was never used: IHS_ThreadCreate succeeded.
Spawn ==
    IF thread # 0 THEN UNCHANGED <<thread, worker>>
    ELSE /\ thread' = timers + 1
         /\ worker' = [worker EXCEPT ![timers + 1] = "awake"]

\* IHS_TimerCreate that returns a timer.  The failing paths leave nothing behind.
Create(c) ==
    /\ c \in Creators /\ Idle(c) /\ Unlocked /\ timers < MaxTimers
    /\ timers' = timers + 1
    /\ registry' = registry \cup {timers + 1}
    /\ Spawn
    /\ UNCHANGED <<walk, taskVars, callers>>

Ended(gone) == [k \in Tasks |-> IF k \in gone THEN ended[k] + 1 ELSE ended[k]]

\* Mutant: destroying a timer forgets its tasks.
DestroyLeaks(c, t) ==
    /\ c \in Creators /\ Idle(c) /\ Unlocked /\ t \in registry
    /\ registry' = registry \ {t}
    /\ queue' = [queue EXCEPT ![t] = {}] /\ owner' = [owner EXCEPT ![t] = 0]
    /\ due' = due \ queue[t] /\ stopping' = stopping \ queue[t]
    /\ pc' = [pc EXCEPT ![c] = IF registry' = {} THEN "join" ELSE "idle"]
    /\ UNCHANGED <<thread, worker, walk, timers, owned, runs, ended, started, arg>>

\* Mutant: the registry is changed without state.lock.
DestroyUnlocked(c, t) ==
    /\ c \in Creators /\ Idle(c) /\ t \in registry
    /\ registry' = registry \ {t}
    /\ queue' = [queue EXCEPT ![t] = {}] /\ owner' = [owner EXCEPT ![t] = 0]
    /\ due' = due \ queue[t] /\ stopping' = stopping \ queue[t]
    /\ ended' = Ended(queue[t])
    /\ pc' = [pc EXCEPT ![c] = IF registry' = {} THEN "join" ELSE "idle"]
    /\ UNCHANGED <<thread, worker, walk, timers, owned, runs, started, arg>>

\* IHS_TimerDestroy up to the point where it releases state.lock.
Destroy(c, t) ==
    /\ c \in Creators /\ Idle(c) /\ Unlocked /\ t \in registry
    /\ registry' = registry \ {t}
    /\ queue' = [queue EXCEPT ![t] = {}] /\ owner' = [owner EXCEPT ![t] = 0]
    /\ due' = due \ queue[t] /\ stopping' = stopping \ queue[t]
    /\ ended' = Ended(queue[t])
    /\ pc' = [pc EXCEPT ![c] = IF registry' = {} THEN "join" ELSE "idle"]
    /\ UNCHANGED <<thread, worker, walk, timers, owned, runs, started, arg>>

\* IHS_ThreadJoin(state.thread): the handle is read without the lock.
Join(c) ==
    /\ pc[c] = "join"
    /\ arg' = [arg EXCEPT ![c] = thread]
    /\ pc' = [pc EXCEPT ![c] = "joining"]
    /\ UNCHANGED <<registryVars, taskVars>>

Joined(c) ==
    /\ pc[c] = "joining"
    /\ arg[c] # 0 => worker[arg[c]] = "exited"
    /\ arg' = [arg EXCEPT ![c] = 0]
    /\ pc' = [pc EXCEPT ![c] = "clear"]
    /\ UNCHANGED <<registryVars, taskVars>>

Clear(c) ==
    /\ pc[c] = "clear" /\ Unlocked
    /\ thread' = 0
    /\ pc' = [pc EXCEPT ![c] = "idle"]
    /\ UNCHANGED <<registry, worker, walk, timers, taskVars, arg>>

-----------------------------------------------------------------------------
(* Tasks, under timer->mutex.                                              *)

Enqueue(t) ==
    /\ started' = started + 1
    /\ queue' = [queue EXCEPT ![t] = @ \cup {started + 1}]

\* IHS_TimerTaskStart: a task nobody's slot refers to.
TaskStart(c, t) ==
    /\ Idle(c) /\ t \in registry /\ started < MaxTasks
    /\ Enqueue(t)
    /\ UNCHANGED <<registryVars, owner, owned, due, stopping, runs, ended, callers>>

\* IHS_TimerTaskStartOwned: refused while the slot is occupied.
TaskStartOwned(c, t) ==
    /\ Idle(c) /\ t \in registry /\ started < MaxTasks
    /\ owner[t] = 0
    /\ Enqueue(t)
    /\ owner' = [owner EXCEPT ![t] = started + 1]
    /\ owned' = owned \cup {started + 1}
    /\ UNCHANGED <<registryVars, due, stopping, runs, ended, callers>>

\* Remove one task and call its end function after the mutex is released.
Remove(c, t, k) ==
    /\ queue' = [queue EXCEPT ![t] = @ \ {k}]
    /\ due' = due \ {k} /\ stopping' = stopping \ {k}
    /\ pc' = [pc EXCEPT ![c] = "ending"] /\ arg' = [arg EXCEPT ![c] = k]
    /\ UNCHANGED <<registryVars, owned, runs, ended, started>>

TaskStopOwned(c, t) ==
    /\ Idle(c) /\ t \in registry /\ owner[t] # 0
    /\ owner' = [owner EXCEPT ![t] = 0]
    /\ Remove(c, t, owner[t])

\* Mutant: the slot keeps pointing at the freed task.
TaskStopImmediateStale(c, t, k) ==
    /\ Idle(c) /\ t \in registry /\ k \in queue[t]
    /\ UNCHANGED owner
    /\ Remove(c, t, k)

TaskStopImmediate(c, t, k) ==
    /\ Idle(c) /\ t \in registry /\ k \in queue[t]
    /\ owner' = [owner EXCEPT ![t] = IF @ = k THEN 0 ELSE @]
    /\ Remove(c, t, k)

\* The unlocked end callback of an immediate stop.
TaskEnd(c) ==
    /\ pc[c] = "ending"
    /\ ended' = Ended({arg[c]})
    /\ pc' = [pc EXCEPT ![c] = "idle"] /\ arg' = [arg EXCEPT ![c] = 0]
    /\ UNCHANGED <<registryVars, queue, owner, owned, due, stopping, runs, started>>

\* IHS_TimerTaskStop from a visitor, which finds the task through its slot.
TaskStop(c, t) ==
    /\ Idle(c) /\ t \in registry /\ owner[t] # 0
    /\ stopping' = stopping \cup {owner[t]}
    /\ UNCHANGED <<registryVars, queue, owner, owned, due, runs, ended, started, callers>>

Elapse(k) ==
    /\ \E t \in registry : k \in queue[t]
    /\ k \notin due /\ runs[k] < MaxRuns
    /\ due' = due \cup {k}
    /\ UNCHANGED <<registryVars, queue, owner, owned, stopping, runs, ended, started, callers>>

-----------------------------------------------------------------------------
(* The worker thread.                                                      *)

\* Mutant: the thread goes on with an empty registry.
WalkForever(h) ==
    /\ worker[h] = "awake" /\ Unlocked
    /\ walk' = registry
    /\ worker' = [worker EXCEPT ![h] = "walking"]
    /\ UNCHANGED <<registry, thread, timers, taskVars, callers>>

\* One round of TimerThreadWorker: it ends when the registry was empty.
Walk(h) ==
    /\ worker[h] = "awake" /\ Unlocked
    /\ walk' = registry
    /\ worker' = [worker EXCEPT ![h] = IF registry = {} THEN "exited" ELSE "walking"]
    /\ UNCHANGED <<registry, thread, timers, taskVars, callers>>

\* Mutant: a request to stop is looked at only when the task is due.
ExecuteLate(h, t, finished) ==
    LET ran == due \cap queue[t]
        gone == (stopping \cap ran) \cup finished IN
    /\ worker[h] = "walking" /\ t \in walk
    /\ finished \subseteq ran
    /\ queue' = [queue EXCEPT ![t] = @ \ gone]
    /\ owner' = [owner EXCEPT ![t] = IF @ \in gone THEN 0 ELSE @]
    /\ due' = due \ queue[t] /\ stopping' = stopping \ gone
    /\ runs' = [k \in Tasks |-> IF k \in ran THEN runs[k] + 1 ELSE runs[k]]
    /\ ended' = Ended(gone)
    /\ walk' = walk \ {t}
    /\ UNCHANGED <<registry, thread, worker, timers, owned, started, callers>>

\* TimerExecute on one timer: the tasks asked to stop end, the others that are due run,
\* and those whose run function returns 0 ("finished") end too.
Execute(h, t, finished) ==
    LET ran == (due \cap queue[t]) \ stopping
        gone == (stopping \cap queue[t]) \cup finished IN
    /\ worker[h] = "walking" /\ t \in walk
    /\ finished \subseteq ran
    /\ queue' = [queue EXCEPT ![t] = @ \ gone]
    /\ owner' = [owner EXCEPT ![t] = IF @ \in gone THEN 0 ELSE @]
    /\ due' = due \ queue[t] /\ stopping' = stopping \ gone
    /\ runs' = [k \in Tasks |-> IF k \in ran THEN runs[k] + 1 ELSE runs[k]]
    /\ ended' = Ended(gone)
    /\ walk' = walk \ {t}
    /\ UNCHANGED <<registry, thread, worker, timers, owned, started, callers>>

\* The walk is over: release state.lock and sleep.
Sleep(h) ==
    /\ worker[h] = "walking" /\ walk = {}
    /\ worker' = [worker EXCEPT ![h] = "awake"]
    /\ UNCHANGED <<registry, thread, walk, timers, taskVars, callers>>

-----------------------------------------------------------------------------
Thread(h) ==
    \/ Walk(h) \/ Sleep(h)
    \/ \E t \in Timers, finished \in SUBSET Tasks : Execute(h, t, finished)

Return(c) == Join(c) \/ Joined(c) \/ Clear(c) \/ TaskEnd(c)

Call(c) ==
    \/ Create(c)
    \/ \E t \in Timers :
          \/ Destroy(c, t) \/ TaskStart(c, t) \/ TaskStartOwned(c, t)
          \/ TaskStopOwned(c, t) \/ TaskStop(c, t)
          \/ \E k \in Tasks : TaskStopImmediate(c, t, k)

Next ==
    \/ \E h \in Timers : Thread(h)
    \/ \E c \in Callers : Call(c) \/ Return(c)
    \/ \E k \in Tasks : Elapse(k)

Spec == Init /\ [][Next]_vars

\* Threads inside the library go on; nobody has to call it.
Fairness ==
    /\ \A h \in Timers : WF_vars(Thread(h))
    /\ \A c \in Callers : WF_vars(Return(c))

FairSpec == Spec /\ Fairness

-----------------------------------------------------------------------------
\* Every variable keeps its type; no task is on two timers.
TypeOK ==
    /\ timers \in 0 .. MaxTimers /\ started \in 0 .. MaxTasks
    /\ registry \subseteq 1 .. timers /\ thread \in 0 .. timers
    /\ worker \in [Timers -> {"none", "awake", "walking", "exited"}]
    /\ walk \subseteq registry
    /\ queue \in [Timers -> SUBSET Tasks] /\ owner \in [Timers -> 0 .. started]
    /\ owned \subseteq 1 .. started
    /\ due \subseteq 1 .. started /\ stopping \subseteq 1 .. started
    /\ runs \in [Tasks -> Nat] /\ ended \in [Tasks -> Nat]
    /\ pc \in [Callers -> {"idle", "join", "joining", "clear", "ending"}]
    /\ arg \in [Callers -> Nat]

Queued(k) == \E t \in registry : k \in queue[t]

\* A task's context is released exactly once and never used afterwards: a started task is
\* on the queue of one registered timer, or in the hands of one caller that is about to call
\* its end function, or ended once, whatever stops, completes or destroys it.
ContextLife ==
    \A k \in 1 .. started :
        LET places == {t \in Timers : k \in queue[t]}
            enders == {c \in Callers : pc[c] = "ending" /\ arg[c] = k} IN
        /\ Cardinality(places) + Cardinality(enders) + ended[k] = 1
        /\ places \subseteq registry

\* The slot of a timer always refers to a task of its queue (the assertion at
\* ihs_timer.c:172), and an owned task that is queued is the one in the slot.
OwnerIsQueued ==
    \A t \in registry : (owned \cap queue[t]) \cup {0} = {owner[t], 0}

\* A registered timer has a thread that serves it ("Start timer thread if not started",
\* ihs_timer.h).
TimerHasThread ==
    registry # {} => \E h \in Timers : worker[h] \in {"awake", "walking"}

\* A task that is due runs or is removed, and one asked to stop ends without waiting until
\* it is due ("It will be ended and freed in next timer loop", ihs_timer.h).
Served ==
    /\ \A k \in Tasks : (k \in due) ~> (k \notin due)
    /\ \A k \in Tasks : (k \in stopping) ~> ~ Queued(k)

\* IHS_TimerDestroy of the last timer returns.
DestroyReturns ==
    \A c \in Callers : (pc[c] = "join") ~> (pc[c] = "idle")
=============================================================================
