------------------------------- MODULE TaskRunner -------------------------------
(***************************************************************************)
(* What leigod::common::TaskManager promises those who hand it tasks, with *)
(* no queues, threads or locks in sight: a task that was handed over waits *)
(* until one step decides what becomes of it.  It begins to run, at most   *)
(* once, never beside itself, never after cancel() or release(), and only  *)
(* while the manager is active; or a canceled task is passed over; or the  *)
(* stopped manager takes it back, which is the only time a task may be     *)
(* dropped.  TaskManager implements it.                                    *)
(***************************************************************************)
EXTENDS Sequences

CONSTANT Tasks

VARIABLES
  active,   \* between start() and the end of the threads in stop()
  waiting,  \* the tasks handed over about which nothing was decided
  running,  \* the tasks whose onRun() is under way
  status,
  calls     \* the callbacks of each task, in order

vars == <<active, waiting, running, status, calls>>

Init ==
  /\ active = FALSE
  /\ waiting = {}
  /\ running = {}
  /\ status = [t \in Tasks |-> "NONE"]
  /\ calls = [t \in Tasks |-> <<>>]

Open ==
  /\ ~active
  /\ active' = TRUE
  /\ UNCHANGED <<waiting, running, status, calls>>

\* Nothing runs when stop() has returned.
Close ==
  /\ active
  /\ running = {}
  /\ active' = FALSE
  /\ UNCHANGED <<waiting, running, status, calls>>

\* enqueue() or delayedEnqueue(): a task is handed over anew only after reset().
Submit(t) ==
  /\ t \notin waiting \cup running
  /\ status[t] \in {"NONE", "CANCELED"}
  /\ waiting' = waiting \cup {t}
  /\ UNCHANGED <<active, running, status, calls>>

Begin(t) ==
  /\ active
  /\ t \in waiting \ running
  /\ status[t] = "NONE"
  /\ waiting' = waiting \ {t}
  /\ running' = running \cup {t}
  /\ status' = [status EXCEPT ![t] = "RUNNING"]
  /\ calls' = [calls EXCEPT ![t] = Append(@, "run")]
  /\ UNCHANGED active

\* A canceled task is passed over.
Skip(t) ==
  /\ active
  /\ t \in waiting
  /\ status[t] = "CANCELED"
  /\ waiting' = waiting \ {t}
  /\ UNCHANGED <<active, running, status, calls>>

\* onRun() ends, and counts for nothing when cancel() came first.
Finish(t) ==
  /\ t \in running
  /\ running' = running \ {t}
  /\ \/ status[t] = "RUNNING" /\ status' = [status EXCEPT ![t] = "SUCCESS"]
          /\ UNCHANGED calls
     \/ status[t] = "RUNNING" /\ status' = [status EXCEPT ![t] = "FAILED"]
          /\ calls' = [calls EXCEPT ![t] = Append(@, "error")]
     \/ status[t] = "CANCELED" /\ UNCHANGED <<status, calls>>
  /\ UNCHANGED <<active, waiting>>

\* cancel() may come at any time.
Cancel(t) ==
  /\ status' = [status EXCEPT ![t] = "CANCELED"]
  /\ calls' = [calls EXCEPT ![t] = Append(@, "cancel")]
  /\ UNCHANGED <<active, waiting, running>>

\* The stopped manager gives up the tasks gone; those of released that nobody
\* canceled are told so.
GiveUp(gone, released) ==
  /\ ~active
  /\ gone \subseteq waiting
  /\ released \subseteq gone
  /\ waiting' = waiting \ gone
  /\ status' = [t \in Tasks |->
       IF t \in released /\ status[t] = "NONE" THEN "RELEASED" ELSE status[t]]
  /\ calls' = [t \in Tasks |->
       IF t \in released /\ status[t] = "NONE" THEN Append(calls[t], "release") ELSE calls[t]]
  /\ UNCHANGED <<active, running>>

Reset(t) ==
  /\ t \notin waiting \cup running
  /\ status[t] \in {"SUCCESS", "FAILED"}
  /\ status' = [status EXCEPT ![t] = "NONE"]
  /\ calls' = [calls EXCEPT ![t] = <<>>]
  /\ UNCHANGED <<active, waiting, running>>

Next ==
  \/ Open \/ Close
  \/ \E t \in Tasks : Submit(t) \/ Begin(t) \/ Skip(t) \/ Finish(t) \/ Cancel(t) \/ Reset(t)
  \/ \E gone \in SUBSET Tasks : \E released \in SUBSET gone : GiveUp(gone, released)

Spec == Init /\ [][Next]_vars
===============================================================================
