----------------------------- MODULE DelayedQueue -----------------------------
(***************************************************************************)
(* When TaskManager's delayed worker hands a task on (task_manager.cpp):   *)
(* the clock that TaskManager.tla leaves out.  The worker sleeps at least  *)
(* kCheckDelayQueueInterval, makes a pass over delayed_tasks_ and hands on *)
(* what is due, which takes as long as it takes.  A pass decrements the    *)
(* delays that are not over by one interval, however long it really slept. *)
(***************************************************************************)
EXTENDS Integers

CONSTANTS Tasks,
          kCheckDelayQueueInterval,
          Delays,     \* the delays given to delayedEnqueue()
          MaxTime     \* bound on the clock

ASSUME QueueAssumption ==
  /\ kCheckDelayQueueInterval \in Nat \ {0}
  /\ Delays \subseteq Int
  /\ MaxTime \in Nat

VARIABLES
  now,         \* the clock
  phase,       \* the delayed worker is in its "sleep" or in "process"
  sleepFrom,   \* when its last sleep began
  lastPass,    \* history: when it last looked at delayed_tasks_
  state,       \* per task: "new", "pending" in delayed_tasks_, "handedOn"
  delay,       \* its DelayedTask::delay, counting down
  asked,       \* history: the delay it was enqueued with
  enqueuedAt,  \* history: when it was enqueued
  handedOnAt   \* history: when it was handed on

vars == <<now, phase, sleepFrom, lastPass, state, delay, asked, enqueuedAt, handedOnAt>>
entry == <<state, delay, asked, enqueuedAt, handedOnAt>>

TypeOK ==
  /\ now \in Nat
  /\ phase \in {"sleep", "process"}
  /\ sleepFrom \in Nat
  /\ lastPass \in Nat
  /\ state \in [Tasks -> {"new", "pending", "handedOn"}]
  /\ delay \in [Tasks -> Int]
  /\ asked \in [Tasks -> Int]
  /\ enqueuedAt \in [Tasks -> Nat]
  /\ handedOnAt \in [Tasks -> Nat]

Init ==
  /\ now = 0
  /\ phase = "sleep"
  /\ sleepFrom = 0
  /\ lastPass = 0
  /\ state = [t \in Tasks |-> "new"]
  /\ delay = [t \in Tasks |-> 0]
  /\ asked = [t \in Tasks |-> 0]
  /\ enqueuedAt = [t \in Tasks |-> 0]
  /\ handedOnAt = [t \in Tasks |-> 0]

Tick ==
  /\ now < MaxTime
  /\ now' = now + 1
  /\ UNCHANGED <<phase, sleepFrom, lastPass, entry>>

delayedEnqueue(t, d) ==
  /\ state[t] = "new"
  /\ state' = [state EXCEPT ![t] = "pending"]
  /\ delay' = [delay EXCEPT ![t] = d]
  /\ asked' = [asked EXCEPT ![t] = d]
  /\ enqueuedAt' = [enqueuedAt EXCEPT ![t] = now]
  /\ UNCHANGED <<now, phase, sleepFrom, lastPass, handedOnAt>>

\* Mutant: a delay has to be over by a whole interval.
DueLate(t) == state[t] = "pending" /\ delay[t] <= 0 - kCheckDelayQueueInterval

\* Mutant: a delay that will be over before the next pass is over now.
DueSoon(t) == state[t] = "pending" /\ delay[t] <= kCheckDelayQueueInterval

\* it->delay.count() <= 0
Due(t) == state[t] = "pending" /\ delay[t] <= 0

\* sleep_for() is over, one pass over delayed_tasks_.
Pass ==
  /\ phase = "sleep"
  /\ now >= sleepFrom + kCheckDelayQueueInterval
  /\ phase' = "process"
  /\ lastPass' = now
  /\ state' = [t \in Tasks |-> IF Due(t) THEN "handedOn" ELSE state[t]]
  /\ handedOnAt' = [t \in Tasks |-> IF Due(t) THEN now ELSE handedOnAt[t]]
  /\ delay' = [t \in Tasks |->
       IF state[t] = "pending" /\ ~Due(t)
       THEN delay[t] - kCheckDelayQueueInterval ELSE delay[t]]
  /\ UNCHANGED <<now, sleepFrom, asked, enqueuedAt>>

\* tasks_to_process is done, the loop sleeps again.
Sleep ==
  /\ phase = "process"
  /\ phase' = "sleep"
  /\ sleepFrom' = now
  /\ UNCHANGED <<now, lastPass, entry>>

Next ==
  \/ Tick
  \/ \E t \in Tasks, d \in Delays : delayedEnqueue(t, d)
  \/ Pass
  \/ Sleep

Spec == Init /\ [][Next]_vars

-----------------------------------------------------------------------------
(* Properties *)

\* No task is handed on before its delay is over, wherever in the worker's sleep
\* it was enqueued, although a pass counts a whole interval for it.
NeverEarly ==
  \A t \in Tasks :
    state[t] = "handedOn" => handedOnAt[t] >= enqueuedAt[t] + asked[t]

\* Nor does it wait for more passes than it must: a task still in delayed_tasks_
\* has been passed over only while its delay, in whole sleeps, was not over, so
\* it is handed on at most two intervals of sleep after its delay.
NeverTwiceLate ==
  \A t \in Tasks :
    state[t] = "pending" /\ delay[t] < asked[t] => delay[t] > 0 - kCheckDelayQueueInterval

\* Why NeverEarly holds: what was subtracted from a delay had gone by, but for
\* one interval, at the last pass, and the next pass is an interval away.
Inv ==
  /\ TypeOK
  /\ sleepFrom <= now
  /\ lastPass <= now
  /\ phase = "sleep" => lastPass <= sleepFrom
  /\ \A t \in Tasks : state[t] = "pending" =>
       /\ enqueuedAt[t] <= now
       /\ delay[t] <= asked[t]
       /\ delay[t] < asked[t] =>
            lastPass + kCheckDelayQueueInterval >= enqueuedAt[t] + asked[t] - delay[t]
  /\ NeverEarly
=============================================================================
