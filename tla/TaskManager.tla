------------------------------ MODULE TaskManager ------------------------------
(***************************************************************************)
(* leigod::common::TaskManager with its Tasks (task_manager.cpp, task.cpp):*)
(* any thread enqueues, delays and cancels tasks, worker threads run them, *)
(* the delayed worker moves tasks whose delay is over, one owner thread    *)
(* starts and stops the manager.                                           *)
(*                                                                         *)
(* Four mutexes guard four things and no operation holds two of them, so   *)
(* a step is one mutex section or one operation on an atomic.  The wait    *)
(* predicate reads task_queue_ under mutex_ although queue_mutex_ guards   *)
(* it: it sees the queue as it is before or after a concurrent push.       *)
(*                                                                         *)
(* External: doTask(), doDelayedTask() and onRun() are the subclass's.     *)
(* doTask() runs the task, doDelayedTask() hands it to enqueue(), as the   *)
(* base class's contract ("true: the task was consumed") has them.         *)
(***************************************************************************)
EXTENDS Integers, Sequences, FiniteSets

CONSTANTS Tasks,        \* the Task objects
          Workers,      \* the num_threads of start()
          Delay,        \* [Tasks -> Nat]: passes a delayed task still has to wait
          MaxEnqueues,  \* bound: how often one task is enqueued, with reset() between
          MaxStarts,    \* bound: how often start() succeeds
          NoTask

ASSUME ManagerAssumption ==
  /\ IsFiniteSet(Workers) /\ Workers # {}
  /\ NoTask \notin Tasks
  /\ Delay \in [Tasks -> Nat]
  /\ MaxEnqueues \in Nat
  /\ MaxStarts \in Nat

VARIABLES
  owner,          \* where the owner is in start() and stop()
  starts,         \* how often start() succeeded
  running_,
  stop_,
  worker,         \* where each worker thread is in worker()
  current,        \* the task it holds
  delayedWorker,  \* where delayed_worker_ is in delayedWorker()
  batch,          \* its tasks_to_process
  caller,         \* how far the enqueue() or delayedEnqueue() of a task has come
  enqueues,       \* how often each task was enqueued
  task_queue_,
  delayed_tasks_,
  all_tasks_,
  status_,
  calls,          \* history: what became of each task, in order
  drained         \* history: the tasks stop() found in task_queue_

threads == <<worker, current>>
delayed == <<delayedWorker, batch, delayed_tasks_>>
task == <<status_, calls>>
admission == <<caller, enqueues>>
control == <<owner, starts, running_, stop_, drained>>
vars == <<control, threads, delayed, task, admission, task_queue_, all_tasks_>>

Statuses == {"NONE", "RUNNING", "SUCCESS", "FAILED", "CANCELED", "RELEASED"}
Callbacks == {"run", "error", "cancel", "release"}
Entries == [task : Tasks, delay : Nat]

InQueue(t) == \E i \in DOMAIN task_queue_ : task_queue_[i] = t
InBatch(t) == \E i \in DOMAIN batch : batch[i] = t
InDelayed(t) == \E i \in DOMAIN delayed_tasks_ : delayed_tasks_[i].task = t

TypeOK ==
  /\ owner \in {"stopped", "running", "join", "drainDelayed", "drainQueue"}
  /\ starts \in 0..MaxStarts
  /\ running_ \in BOOLEAN
  /\ stop_ \in BOOLEAN
  /\ worker \in [Workers -> {"off", "check", "waiting", "pop", "holding", "running", "erase"}]
  /\ current \in [Workers -> Tasks \cup {NoTask}]
  /\ delayedWorker \in {"off", "check", "sleep", "process", "push", "notify"}
  /\ batch \in Seq(Tasks)
  /\ caller \in [Tasks -> {"new", "delayed", "push", "notify", "done"}]
  /\ enqueues \in [Tasks -> 0..MaxEnqueues]
  /\ task_queue_ \in Seq(Tasks)
  /\ delayed_tasks_ \in Seq(Entries)
  /\ all_tasks_ \subseteq Tasks
  /\ status_ \in [Tasks -> Statuses]
  /\ calls \in [Tasks -> Seq(Callbacks)]
  /\ drained \subseteq Tasks

Init ==
  /\ owner = "stopped"
  /\ starts = 0
  /\ running_ = FALSE
  /\ stop_ = FALSE
  /\ worker = [w \in Workers |-> "off"]
  /\ current = [w \in Workers |-> NoTask]
  /\ delayedWorker = "off"
  /\ batch = <<>>
  /\ caller = [t \in Tasks |-> "new"]
  /\ enqueues = [t \in Tasks |-> 0]
  /\ task_queue_ = <<>>
  /\ delayed_tasks_ = <<>>
  /\ all_tasks_ = {}
  /\ status_ = [t \in Tasks |-> "NONE"]
  /\ calls = [t \in Tasks |-> <<>>]
  /\ drained = {}

-----------------------------------------------------------------------------
(* Task: the transitions of status_. *)

\* Task::cancel(): a store, whatever the status was.
CancelTask(t) ==
  /\ status_' = [status_ EXCEPT ![t] = "CANCELED"]
  /\ calls' = [calls EXCEPT ![t] = Append(@, "cancel")]

\* Task::release() of the tasks ts: those that never ran are released.
ReleaseTasks(ts) ==
  /\ status_' = [t \in Tasks |->
       IF t \in ts /\ status_[t] = "NONE" THEN "RELEASED" ELSE status_[t]]
  /\ calls' = [t \in Tasks |->
       IF t \in ts /\ status_[t] = "NONE" THEN Append(calls[t], "release") ELSE calls[t]]

\* Task::reset(), by whoever uses a finished task again.
Reset(t) ==
  /\ caller[t] = "done"
  /\ status_[t] \in {"SUCCESS", "FAILED"}
  /\ enqueues[t] < MaxEnqueues
  /\ status_' = [status_ EXCEPT ![t] = "NONE"]
  /\ caller' = [caller EXCEPT ![t] = "new"]
  /\ calls' = [calls EXCEPT ![t] = <<>>]
  /\ UNCHANGED <<control, threads, delayed, enqueues, task_queue_, all_tasks_>>

-----------------------------------------------------------------------------
(* enqueue(), delayedEnqueue(), cancel(): any thread. *)

\* Mutant: the task is not registered before it is pushed.
NotRegistered(t) == UNCHANGED all_tasks_

\* all_tasks_[task->getId()] = task
Register(t) == all_tasks_' = all_tasks_ \cup {t}

\* Mutant: notify_one() is forgotten.
NotifyNobody == UNCHANGED worker

\* condition_.notify_one(), holding mutex_
NotifyOne ==
  LET waiting == {w \in Workers : worker[w] = "waiting"} IN
    IF waiting = {} THEN UNCHANGED worker
    ELSE \E w \in waiting : worker' = [worker EXCEPT ![w] = "check"]

\* enqueue() begins, and has registered the task.
Enqueue(t) ==
  /\ caller[t] = "new"
  /\ enqueues[t] < MaxEnqueues
  /\ enqueues' = [enqueues EXCEPT ![t] = @ + 1]
  /\ caller' = [caller EXCEPT ![t] = "push"]
  /\ Register(t)
  /\ UNCHANGED <<control, threads, delayed, task, task_queue_>>

\* task_queue_.push_back(task)
Push(t) ==
  /\ caller[t] = "push"
  /\ task_queue_' = Append(task_queue_, t)
  /\ caller' = [caller EXCEPT ![t] = "notify"]
  /\ UNCHANGED <<control, threads, delayed, task, enqueues, all_tasks_>>

\* enqueue() notifies and returns.
Notify(t) ==
  /\ caller[t] = "notify"
  /\ caller' = [caller EXCEPT ![t] = "done"]
  /\ NotifyOne
  /\ UNCHANGED <<control, current, delayed, task, enqueues, task_queue_, all_tasks_>>

DelayedEnqueue(t) ==
  /\ caller[t] = "new"
  /\ enqueues[t] < MaxEnqueues
  /\ enqueues' = [enqueues EXCEPT ![t] = @ + 1]
  /\ caller' = [caller EXCEPT ![t] = "delayed"]
  /\ delayed_tasks_' = Append(delayed_tasks_, [task |-> t, delay |-> Delay[t]])
  /\ UNCHANGED <<control, threads, delayedWorker, batch, task, task_queue_, all_tasks_>>

\* cancel(): a task that is not registered is not found.
Cancel(t) ==
  /\ t \in all_tasks_
  /\ CancelTask(t)
  /\ all_tasks_' = all_tasks_ \ {t}
  /\ UNCHANGED <<control, threads, delayed, admission, task_queue_>>

-----------------------------------------------------------------------------
(* start() and stop(): the owner. *)

Start ==
  /\ owner = "stopped"
  /\ ~running_
  /\ starts < MaxStarts
  /\ starts' = starts + 1
  /\ running_' = TRUE
  /\ stop_' = FALSE
  /\ worker' = [w \in Workers |-> "check"]
  /\ delayedWorker' = "check"
  /\ owner' = "running"
  /\ UNCHANGED <<drained, current, batch, delayed_tasks_, task, admission,
                 task_queue_, all_tasks_>>

\* Mutant: notify_one() instead of notify_all().
StopWakesOne ==
  /\ owner = "running"
  /\ running_' = FALSE
  /\ stop_' = TRUE
  /\ LET waiting == {w \in Workers : worker[w] = "waiting"} IN
       IF waiting = {} THEN UNCHANGED worker
       ELSE \E w \in waiting : worker' = [worker EXCEPT ![w] = "check"]
  /\ owner' = "join"
  /\ UNCHANGED <<starts, drained, current, delayed, task, admission,
                 task_queue_, all_tasks_>>

\* running_ exchanged; stop_ set and everybody notified under mutex_.
Stop ==
  /\ owner = "running"
  /\ running_' = FALSE
  /\ stop_' = TRUE
  /\ worker' = [w \in Workers |-> IF worker[w] = "waiting" THEN "check" ELSE worker[w]]
  /\ owner' = "join"
  /\ UNCHANGED <<starts, drained, current, delayed, task, admission,
                 task_queue_, all_tasks_>>

\* Every thread is joined.
Join ==
  /\ owner = "join"
  /\ \A w \in Workers : worker[w] = "off"
  /\ delayedWorker = "off"
  /\ owner' = "drainDelayed"
  /\ UNCHANGED <<starts, running_, stop_, drained, threads, delayed, task,
                 admission, task_queue_, all_tasks_>>

\* Mutant: the delayed tasks are dropped, not released.
DrainDelayedSilently ==
  /\ owner = "drainDelayed"
  /\ delayed_tasks_' = <<>>
  /\ caller' = [t \in Tasks |-> IF InDelayed(t) THEN "done" ELSE caller[t]]
  /\ owner' = "drainQueue"
  /\ UNCHANGED <<starts, running_, stop_, drained, threads, delayedWorker, batch,
                 task, enqueues, task_queue_, all_tasks_>>

DrainDelayed ==
  /\ owner = "drainDelayed"
  /\ ReleaseTasks({t \in Tasks : InDelayed(t)})
  /\ delayed_tasks_' = <<>>
  /\ caller' = [t \in Tasks |-> IF InDelayed(t) THEN "done" ELSE caller[t]]
  /\ owner' = "drainQueue"
  /\ UNCHANGED <<starts, running_, stop_, drained, threads, delayedWorker, batch,
                 enqueues, task_queue_, all_tasks_>>

\* The loop releases front() and removes with pop_back(): the task at the front
\* is released once for every task in the queue, the others never.
DrainQueue ==
  /\ owner = "drainQueue"
  /\ ReleaseTasks(IF task_queue_ = <<>> THEN {} ELSE {Head(task_queue_)})
  /\ drained' = drained \cup {t \in Tasks : InQueue(t)}
  /\ task_queue_' = <<>>
  /\ owner' = "stopped"
  /\ UNCHANGED <<starts, running_, stop_, threads, delayed, admission, all_tasks_>>

-----------------------------------------------------------------------------
(* worker(). *)

\* condition_.wait(lock, stop_ || !task_queue_.empty())
Wait(w) ==
  /\ worker[w] = "check"
  /\ worker' = [worker EXCEPT ![w] =
       IF stop_ \/ task_queue_ # <<>> THEN "pop" ELSE "waiting"]
  /\ UNCHANGED <<control, current, delayed, task, admission, task_queue_, all_tasks_>>

SpuriousWakeup(w) ==
  /\ worker[w] = "waiting"
  /\ worker' = [worker EXCEPT ![w] = "check"]
  /\ UNCHANGED <<control, current, delayed, task, admission, task_queue_, all_tasks_>>

\* The section under queue_mutex_: leave, or take the front, or find it gone.
Pop(w) ==
  /\ worker[w] = "pop"
  /\ IF stop_ \/ task_queue_ = <<>>
     THEN /\ worker' = [worker EXCEPT ![w] = IF stop_ THEN "off" ELSE "check"]
          /\ UNCHANGED <<current, task_queue_>>
     ELSE /\ worker' = [worker EXCEPT ![w] = "holding"]
          /\ current' = [current EXCEPT ![w] = Head(task_queue_)]
          /\ task_queue_' = Tail(task_queue_)
  /\ UNCHANGED <<control, delayed, task, admission, all_tasks_>>

\* Mutant: status_ is not compared before it is exchanged.
RunAnyway(w) ==
  /\ worker[w] = "holding"
  /\ LET t == current[w] IN
       /\ status_' = [status_ EXCEPT ![t] = "RUNNING"]
       /\ calls' = [calls EXCEPT ![t] = Append(@, "run")]
       /\ worker' = [worker EXCEPT ![w] = "running"]
  /\ UNCHANGED <<control, current, delayed, admission, task_queue_, all_tasks_>>

\* Task::run(): onRun() is called unless the status is no longer NONE.
Run(w) ==
  /\ worker[w] = "holding"
  /\ LET t == current[w] IN
       IF status_[t] = "NONE"
       THEN /\ status_' = [status_ EXCEPT ![t] = "RUNNING"]
            /\ calls' = [calls EXCEPT ![t] = Append(@, "run")]
            /\ worker' = [worker EXCEPT ![w] = "running"]
       ELSE /\ worker' = [worker EXCEPT ![w] = "erase"]
            /\ UNCHANGED task
  /\ UNCHANGED <<control, current, delayed, admission, task_queue_, all_tasks_>>

\* onRun() succeeds, or the subclass calls Task::error(), which does nothing
\* unless the task is still RUNNING. Success is noted unless cancel() came first.
RunEnds(w) ==
  /\ worker[w] = "running"
  /\ LET t == current[w] IN
       \/ status_[t] = "RUNNING" /\ status_' = [status_ EXCEPT ![t] = "SUCCESS"]
            /\ UNCHANGED calls
       \/ status_[t] = "RUNNING" /\ status_' = [status_ EXCEPT ![t] = "FAILED"]
            /\ calls' = [calls EXCEPT ![t] = Append(@, "error")]
       \/ status_[t] # "RUNNING" /\ UNCHANGED task
  /\ worker' = [worker EXCEPT ![w] = "erase"]
  /\ UNCHANGED <<control, current, delayed, admission, task_queue_, all_tasks_>>

\* doTask() returned true: all_tasks_.erase(task->getId()).
Erase(w) ==
  /\ worker[w] = "erase"
  /\ all_tasks_' = all_tasks_ \ {current[w]}
  /\ worker' = [worker EXCEPT ![w] = "check"]
  /\ current' = [current EXCEPT ![w] = NoTask]
  /\ UNCHANGED <<control, delayed, task, admission, task_queue_>>

-----------------------------------------------------------------------------
(* delayedWorker(). *)

DelayedCheck ==
  /\ delayedWorker = "check"
  /\ delayedWorker' = IF stop_ THEN "off" ELSE "sleep"
  /\ UNCHANGED <<control, threads, batch, delayed_tasks_, task, admission,
                 task_queue_, all_tasks_>>

\* The entries of s at the positions P, in order (SelectSeq, in a form that
\* can be reasoned about).
Nth(P, k) == CHOOSE i \in P : Cardinality({j \in P : j <= i}) = k
EntriesAt(s, P) == [k \in 1..Cardinality(P) |-> s[Nth(P, k)]]

TasksOf(s) == [k \in DOMAIN s |-> s[k].task]
Counted(s) == [k \in DOMAIN s |-> [s[k] EXCEPT !.delay = @ - 1]]

Due == {i \in DOMAIN delayed_tasks_ : delayed_tasks_[i].delay = 0}
NotDue == DOMAIN delayed_tasks_ \ Due

\* Mutant: a task that is due stays in delayed_tasks_.
DelayedPassKeeps ==
  /\ delayedWorker = "sleep"
  /\ batch' = TasksOf(EntriesAt(delayed_tasks_, Due))
  /\ delayedWorker' = IF Due = {} THEN "check" ELSE "process"
  /\ UNCHANGED <<control, threads, delayed_tasks_, task, admission, task_queue_, all_tasks_>>

\* Mutant: every delay is decremented, also one that is over.
DelayedPassUnderflows ==
  /\ delayedWorker = "sleep"
  /\ delayed_tasks_' = [k \in DOMAIN delayed_tasks_ |-> [delayed_tasks_[k] EXCEPT !.delay = 0 - 1]]
  /\ delayedWorker' = "check"
  /\ UNCHANGED <<control, threads, batch, task, admission, task_queue_, all_tasks_>>

\* Mutant: it->delay is not decremented.
DelayedPassFrozen ==
  /\ delayedWorker = "sleep"
  /\ batch' = TasksOf(EntriesAt(delayed_tasks_, Due))
  /\ delayed_tasks_' = EntriesAt(delayed_tasks_, NotDue)
  /\ delayedWorker' = IF Due = {} THEN "check" ELSE "process"
  /\ UNCHANGED <<control, threads, task, admission, task_queue_, all_tasks_>>

\* One pass over delayed_tasks_ after the sleep.
DelayedPass ==
  /\ delayedWorker = "sleep"
  /\ batch' = TasksOf(EntriesAt(delayed_tasks_, Due))
  /\ delayed_tasks_' = Counted(EntriesAt(delayed_tasks_, NotDue))
  /\ delayedWorker' = IF Due = {} THEN "check" ELSE "process"
  /\ UNCHANGED <<control, threads, task, admission, task_queue_, all_tasks_>>

\* doDelayedTask() -> enqueue() of the next task of the batch, in its three steps.
DelayedRegister ==
  /\ delayedWorker = "process"
  /\ Register(Head(batch))
  /\ delayedWorker' = "push"
  /\ UNCHANGED <<control, threads, batch, delayed_tasks_, task, admission, task_queue_>>

DelayedPush ==
  /\ delayedWorker = "push"
  /\ task_queue_' = Append(task_queue_, Head(batch))
  /\ caller' = [caller EXCEPT ![Head(batch)] = "done"]
  /\ batch' = Tail(batch)
  /\ delayedWorker' = "notify"
  /\ UNCHANGED <<control, threads, delayed_tasks_, task, enqueues, all_tasks_>>

DelayedNotify ==
  /\ delayedWorker = "notify"
  /\ NotifyOne
  /\ delayedWorker' = IF batch = <<>> THEN "check" ELSE "process"
  /\ UNCHANGED <<control, current, batch, delayed_tasks_, task, admission,
                 task_queue_, all_tasks_>>

-----------------------------------------------------------------------------

CallerStep(t) == Push(t) \/ Notify(t)
OwnerStep == Join \/ DrainDelayed \/ DrainQueue
WorkerStep(w) == Wait(w) \/ Pop(w) \/ Run(w) \/ RunEnds(w) \/ Erase(w)
DelayedStep == DelayedCheck \/ DelayedPass \/ DelayedRegister \/ DelayedPush \/ DelayedNotify

Environment ==
  \/ Start \/ Stop
  \/ \E t \in Tasks : Enqueue(t) \/ DelayedEnqueue(t) \/ Cancel(t) \/ Reset(t)
  \/ \E w \in Workers : SpuriousWakeup(w)

Next ==
  \/ \E t \in Tasks : CallerStep(t)
  \/ OwnerStep
  \/ \E w \in Workers : WorkerStep(w)
  \/ DelayedStep
  \/ Environment

Spec == Init /\ [][Next]_vars

\* Threads are scheduled and onRun() returns.
Fairness ==
  /\ \A t \in Tasks : WF_vars(CallerStep(t))
  /\ WF_vars(OwnerStep)
  /\ \A w \in Workers : WF_vars(WorkerStep(w))
  /\ WF_vars(DelayedStep)

FairSpec == Spec /\ Fairness

-----------------------------------------------------------------------------
(* Properties *)

\* The race of run(), error(), release() and cancel() on status_ has one winner
\* each time: a task runs at most once, never after it was canceled or released,
\* is released only if it never ran, and fails only while it runs uncanceled.
Lifecycle ==
  \A t \in Tasks : \A i \in DOMAIN calls[t] :
    /\ calls[t][i] \in {"run", "release"} => i = 1
    /\ calls[t][i] = "error" => i = 2 /\ calls[t][1] = "run"

Holds(w, t) == worker[w] = "holding" /\ current[w] = t

\* Where a task waits to be run: every position it has in the queues and the
\* batch, the enqueue() that is to push it, the worker that has just popped it.
Places(t) ==
  {<<"delayed", i>> : i \in {i \in DOMAIN delayed_tasks_ : delayed_tasks_[i].task = t}}
    \cup {<<"batch", i>> : i \in {i \in DOMAIN batch : batch[i] = t}}
    \cup {<<"queue", i>> : i \in {i \in DOMAIN task_queue_ : task_queue_[i] = t}}
    \cup {<<"call", 0>> : c \in {c \in {"push"} : caller[t] = c}}
    \cup {<<"worker", w>> : w \in {w \in Workers : Holds(w, t)}}

\* A task that was enqueued or delayed and has not been settled is in exactly
\* one place, once, whatever the steps in between; only the loop at the end of
\* stop() loses some (see ReleasedByStop).
NoTaskLost ==
  \A t \in Tasks :
    caller[t] # "new" /\ status_[t] = "NONE" /\ t \notin drained
      => \E p \in Places(t) : Places(t) = {p}

\* cancel() reaches every task from the first step of enqueue() on: a task that
\* waits in task_queue_ or runs is registered, or was canceled already.  A task
\* that is reset and enqueued again may be erased by the worker of the first run.
Cancelable ==
  \A t \in Tasks :
    enqueues[t] <= 1
      /\ (InQueue(t) \/ \E w \in Workers : current[w] = t /\ worker[w] \in {"holding", "running"})
      => t \in all_tasks_ \/ status_[t] = "CANCELED"

\* No lost wake-up across mutex_ and queue_mutex_: all workers sleep only when
\* the queue is empty or a notify_one() is still to come.
NoLostWakeup ==
  (owner = "running" /\ \A w \in Workers : worker[w] = "waiting")
    => Len(task_queue_) <= Cardinality({t \in Tasks : caller[t] = "notify"})
                             + (IF delayedWorker = "notify" THEN 1 ELSE 0)

\* A delayed task that stop() finds in delayed_tasks_ is released.
DelayedReleased ==
  [][owner = "drainDelayed" /\ owner' # owner =>
       \A t \in Tasks : InDelayed(t) => status_'[t] # "NONE"]_vars

\* A task in the queue of a running manager is settled, unless it is stopped.
QueuedSettled ==
  \A t \in Tasks : (InQueue(t) /\ running_) ~> (status_[t] # "NONE" \/ stop_)

\* A delayed task is pushed once its delay is over, however many precede it.
DelayedHandedOn ==
  \A t \in Tasks : (caller[t] = "delayed" /\ running_) ~> (caller[t] = "done" \/ ~running_)

\* stop() returns: no thread sleeps through it.
StopReturns == (owner = "join") ~> (owner = "stopped")

\* handed over, and not yet given to onRun(), passed over or drained
Waits(t) ==
  \/ InDelayed(t) \/ InBatch(t) \/ caller[t] = "push" \/ InQueue(t)
  \/ \E w \in Workers : Holds(w, t)

Active == owner \in {"running", "join"}
WaitingTasks == {t \in Tasks : Waits(t)}
RunningTasks == {t \in Tasks : \E w \in Workers : worker[w] = "running" /\ current[w] = t}

\* Hiding the queues, the batch, the threads and their locks, the manager is the
\* runner its users rely on: whatever the steps between enqueue() and run(), one
\* step decides what becomes of a task, and only stop() drops any.
Runner == INSTANCE TaskRunner WITH
  active <- Active,
  waiting <- WaitingTasks,
  running <- RunningTasks,
  status <- status_

ImplementsTaskRunner == Runner!Spec

(* What the comments say and the code does not keep. *)

\* "处理剩余的任务" (deal with the remaining tasks, stop()): every task that
\* stop() finds in the queue is released.
ReleasedByStop ==
  owner = "stopped" => \A t \in drained : status_[t] # "NONE"
===============================================================================
