------------------------------ MODULE WorkerPool ------------------------------
(***************************************************************************)
(* The RPC worker pool of SauriApplication (GameToolClient.cpp): the pipe  *)
(* server's thread turns every rpc-request message into a task, worker     *)
(* threads run the tasks and send the responses, and the main thread       *)
(* starts the pool and, in the destructor, drains and joins it BEFORE it   *)
(* stops the pipe server.                                                  *)
(*                                                                         *)
(* Grain of atomicity: every access to tasks_ and shutdown_ is inside a    *)
(* task_mutex_ section, so one section is one step; the notifications are  *)
(* outside the section in the code and are steps of their own here.        *)
(*                                                                         *)
(* Bound functions return or throw: registerSelf()'s "exit", which ends    *)
(* the process, is not among Methods.                                      *)
(***************************************************************************)
EXTENDS Naturals, Sequences, FiniteSets, Functions

CONSTANTS Requests,    \* the rpc-request messages clients may ever send
          Workers,     \* the num_workers_ threads of worker_threads_
          Methods,     \* the method names a request may carry
          MethodOf,    \* [Requests -> Methods]: the method a request names
          Malformed,   \* the requests whose payload is no RpcRequest
          NoTask       \* what a worker with empty hands holds

ASSUME PoolAssumption ==
  /\ Workers # {}
  /\ IsFiniteSet(Workers)
  /\ MethodOf \in [Requests -> Methods]
  /\ Malformed \subseteq Requests
  /\ NoTask \notin Requests

VARIABLES
  main,           \* where the main thread is in initialize() or ~SauriApplication()
  server,         \* where serverThread_ is in the message handler
  connected,      \* server_->is_connected()
  function_map_,  \* the methods bound so far
  tasks_,         \* the task queue
  shutdown_,
  worker,         \* where each worker thread is in its loop
  current,        \* the task a worker has moved out of the queue
  code,           \* the code of the response a worker is about to send
  response,       \* per request: the response built for it and its fate
  accepted,       \* history: the requests in the order they were enqueued
  started,        \* history: the requests in the order they were dequeued
  cut             \* history: how many were enqueued before shutdown_ was set

vars == <<main, server, connected, function_map_, tasks_, shutdown_, worker,
          current, code, response, accepted, started, cut>>

NoCode == "none"
Codes == {"ok", "function_not_found", "function_internal_error", "payload_invalid"}
NoResponse == [code |-> NoCode, sent |-> FALSE]
MainPC == {"setup", "app", "notifyAll", "join", "stopServer", "joinServer", "destroyed"}
ServerPC == {"off", "idle", "handling", "notify", "ended"}
WorkerPC == {"off", "loop", "waiting", "woken", "running", "sending", "exited"}

Waiting == {w \in Workers : worker[w] = "waiting"}
Exited(w) == worker[w] = "exited"

TypeOK ==
  /\ main \in MainPC
  /\ server \in ServerPC
  /\ connected \in BOOLEAN
  /\ function_map_ \subseteq Methods
  /\ tasks_ \in Seq(Requests)
  /\ shutdown_ \in BOOLEAN
  /\ worker \in [Workers -> WorkerPC]
  /\ current \in [Workers -> Requests \cup {NoTask}]
  /\ code \in [Workers -> Codes \cup {NoCode}]
  /\ response \in [Requests -> [code : Codes \cup {NoCode}, sent : BOOLEAN]]
  /\ accepted \in Seq(Requests)
  /\ started \in Seq(Requests)
  /\ cut \in Nat

Init ==
  /\ main = "setup"
  /\ server = "off"
  /\ connected = FALSE
  /\ function_map_ = {}
  /\ tasks_ = <<>>
  /\ shutdown_ = FALSE
  /\ worker = [w \in Workers |-> "off"]
  /\ current = [w \in Workers |-> NoTask]
  /\ code = [w \in Workers |-> NoCode]
  /\ response = [r \in Requests |-> NoResponse]
  /\ accepted = <<>>
  /\ started = <<>>
  /\ cut = 0

history == <<accepted, started, cut>>
hands == <<worker, current, code, response>>

-----------------------------------------------------------------------------
(* The main thread. *)

\* bind(): before initialize() or after it.
Bind(m) ==
  /\ main \in {"setup", "app"}
  /\ m \notin function_map_
  /\ function_map_' = function_map_ \cup {m}
  /\ UNCHANGED <<main, server, connected, tasks_, shutdown_, hands, history>>

\* One iteration of the loop of startWorkerThreads().
SpawnWorker(w) ==
  /\ main = "setup"
  /\ worker[w] = "off"
  /\ worker' = [worker EXCEPT ![w] = "loop"]
  /\ UNCHANGED <<main, server, connected, function_map_, tasks_, shutdown_,
                 current, code, response, history>>

\* initialize() goes on to startPipeServer(), which starts serverThread_.
StartPipeServer ==
  /\ main = "setup"
  /\ \A w \in Workers : worker[w] # "off"
  /\ main' = "app"
  /\ server' = "idle"
  /\ UNCHANGED <<connected, function_map_, tasks_, shutdown_, hands, history>>

\* ~SauriApplication() -> stopWorkerThreads(): shutdown_ is set under the mutex.
Shutdown ==
  /\ main = "app"
  /\ shutdown_' = TRUE
  /\ main' = "notifyAll"
  /\ cut' = Len(accepted)
  /\ UNCHANGED <<server, connected, function_map_, tasks_, hands, accepted, started>>

\* Mutant: notify_one() instead of notify_all().
NotifyOnlyOne ==
  /\ main = "notifyAll"
  /\ \/ Waiting = {} /\ UNCHANGED worker
     \/ \E w \in Waiting : worker' = [worker EXCEPT ![w] = "woken"]
  /\ main' = "join"
  /\ UNCHANGED <<server, connected, function_map_, tasks_, shutdown_,
                 current, code, response, history>>

NotifyAll ==
  /\ main = "notifyAll"
  /\ worker' = [w \in Workers |-> IF worker[w] = "waiting" THEN "woken" ELSE worker[w]]
  /\ main' = "join"
  /\ UNCHANGED <<server, connected, function_map_, tasks_, shutdown_,
                 current, code, response, history>>

\* thread.join() on every worker, then worker_threads_.clear().
JoinWorkers ==
  /\ main = "join"
  /\ \A w \in Workers : Exited(w)
  /\ main' = "stopServer"
  /\ UNCHANGED <<server, connected, function_map_, tasks_, shutdown_, hands, history>>

\* server_->stop() and io_context_server_.stop().
StopServer ==
  /\ main = "stopServer"
  /\ connected' = FALSE
  /\ main' = "joinServer"
  /\ UNCHANGED <<server, function_map_, tasks_, shutdown_, hands, history>>

JoinServer ==
  /\ main = "joinServer"
  /\ server = "ended"
  /\ main' = "destroyed"
  /\ UNCHANGED <<server, connected, function_map_, tasks_, shutdown_, hands, history>>

-----------------------------------------------------------------------------
(* serverThread_: the read handler of the pipe server. *)

ServerStopped == main \in {"joinServer", "destroyed"}

\* A client connects or goes away (NamedPipeServer sets is_connected_).
ClientConnects ==
  /\ server \in {"idle", "handling", "notify"}
  /\ ~connected
  /\ ~ServerStopped
  /\ connected' = TRUE
  /\ UNCHANGED <<main, server, function_map_, tasks_, shutdown_, hands, history>>

ClientLeaves ==
  /\ connected
  /\ connected' = FALSE
  /\ UNCHANGED <<main, server, function_map_, tasks_, shutdown_, hands, history>>

\* A message is read and the message handler begins to parse it.
ReceiveMessage ==
  /\ server = "idle"
  /\ connected
  /\ ~ServerStopped
  /\ \E r \in Requests : r \notin Range(accepted)
  /\ server' = "handling"
  /\ UNCHANGED <<main, connected, function_map_, tasks_, shutdown_, hands, history>>

\* handleRpcRequest(): tasks_.emplace(...) under task_mutex_. Nothing here
\* looks at shutdown_.
HandleRpcRequest(r) ==
  /\ server = "handling"
  /\ r \notin Range(accepted)
  /\ tasks_' = Append(tasks_, r)
  /\ accepted' = Append(accepted, r)
  /\ server' = "notify"
  /\ UNCHANGED <<main, connected, function_map_, shutdown_, hands, started, cut>>

\* Mutant: notify_one() is forgotten.
NotifyNobody ==
  /\ server = "notify"
  /\ server' = "idle"
  /\ UNCHANGED <<main, connected, function_map_, tasks_, shutdown_, hands, history>>

\* task_cv_.notify_one(), after the mutex is released.
NotifyOne ==
  /\ server = "notify"
  /\ server' = "idle"
  /\ \/ /\ Waiting = {}
        /\ UNCHANGED worker
     \/ \E w \in Waiting : worker' = [worker EXCEPT ![w] = "woken"]
  /\ UNCHANGED <<main, connected, function_map_, tasks_, shutdown_,
                 current, code, response, history>>

\* io_context_server_.run() returns once the running handler is done.
ServerThreadEnds ==
  /\ server = "idle"
  /\ ServerStopped
  /\ server' = "ended"
  /\ UNCHANGED <<main, connected, function_map_, tasks_, shutdown_, hands, history>>

-----------------------------------------------------------------------------
(* A worker thread: the lambda of startWorkerThreads(). *)

AtLoopHead(w) == worker[w] \in {"loop", "woken"}

\* Mutant: front() without pop().
TakeTaskKeeps(w) ==
  /\ AtLoopHead(w)
  /\ tasks_ # <<>>
  /\ current' = [current EXCEPT ![w] = Head(tasks_)]
  /\ started' = Append(started, Head(tasks_))
  /\ worker' = [worker EXCEPT ![w] = "running"]
  /\ UNCHANGED <<main, server, connected, function_map_, tasks_, shutdown_, code,
                 response, accepted, cut>>

\* Mutant: the newest task is taken, as from a stack.
TakeTaskNewest(w) ==
  /\ AtLoopHead(w)
  /\ tasks_ # <<>>
  /\ current' = [current EXCEPT ![w] = tasks_[Len(tasks_)]]
  /\ tasks_' = SubSeq(tasks_, 1, Len(tasks_) - 1)
  /\ started' = Append(started, tasks_[Len(tasks_)])
  /\ worker' = [worker EXCEPT ![w] = "running"]
  /\ UNCHANGED <<main, server, connected, function_map_, shutdown_, code,
                 response, accepted, cut>>

\* The mutex section finds a task: front(), pop().
TakeTask(w) ==
  /\ AtLoopHead(w)
  /\ tasks_ # <<>>
  /\ current' = [current EXCEPT ![w] = Head(tasks_)]
  /\ tasks_' = Tail(tasks_)
  /\ started' = Append(started, Head(tasks_))
  /\ worker' = [worker EXCEPT ![w] = "running"]
  /\ UNCHANGED <<main, server, connected, function_map_, shutdown_, code,
                 response, accepted, cut>>

\* The mutex section finds nothing to do: task_cv_.wait releases the mutex.
WaitForTask(w) ==
  /\ AtLoopHead(w)
  /\ ~(shutdown_ \/ tasks_ # <<>>)
  /\ worker' = [worker EXCEPT ![w] = "waiting"]
  /\ UNCHANGED <<main, server, connected, function_map_, tasks_, shutdown_,
                 current, code, response, history>>

\* std::condition_variable may wake a waiter without a notification.
SpuriousWakeup(w) ==
  /\ worker[w] = "waiting"
  /\ worker' = [worker EXCEPT ![w] = "woken"]
  /\ UNCHANGED <<main, server, connected, function_map_, tasks_, shutdown_,
                 current, code, response, history>>

\* Mutant: if (shutdown_) return;
ExitThreadAtOnce(w) ==
  /\ AtLoopHead(w)
  /\ shutdown_
  /\ worker' = [worker EXCEPT ![w] = "exited"]
  /\ UNCHANGED <<main, server, connected, function_map_, tasks_, shutdown_,
                 current, code, response, history>>

\* if (shutdown_ && tasks_.empty()) return;
ExitThread(w) ==
  /\ AtLoopHead(w)
  /\ shutdown_ /\ tasks_ = <<>>
  /\ worker' = [worker EXCEPT ![w] = "exited"]
  /\ UNCHANGED <<main, server, connected, function_map_, tasks_, shutdown_,
                 current, code, response, history>>

\* Mutant: a payload error is reported with a code no client knows.
UnknownOutcome(r) ==
  IF r \in Malformed THEN {"parse_error"} ELSE {"ok", "function_internal_error"}

\* What the task's try blocks may make of request r; a bound function may throw.
Outcome(r) ==
  IF r \in Malformed THEN {"payload_invalid"}
  ELSE IF MethodOf[r] \in function_map_ THEN {"ok", "function_internal_error"}
  ELSE {"function_not_found"}

\* Mutant: a payload that cannot be parsed ends the task without a response.
RunTaskDropsInvalid(w) ==
  /\ worker[w] = "running"
  /\ IF current[w] \in Malformed
     THEN /\ current' = [current EXCEPT ![w] = NoTask]
          /\ worker' = [worker EXCEPT ![w] = "loop"]
          /\ UNCHANGED code
     ELSE /\ \E c \in Outcome(current[w]) : code' = [code EXCEPT ![w] = c]
          /\ worker' = [worker EXCEPT ![w] = "sending"]
          /\ UNCHANGED current
  /\ UNCHANGED <<main, server, connected, function_map_, tasks_, shutdown_,
                 response, history>>

\* task(): the request is parsed, the method looked up and called.
RunTask(w) ==
  /\ worker[w] = "running"
  /\ \E c \in Outcome(current[w]) : code' = [code EXCEPT ![w] = c]
  /\ worker' = [worker EXCEPT ![w] = "sending"]
  /\ UNCHANGED <<main, server, connected, function_map_, tasks_, shutdown_,
                 current, response, history>>

\* sendMessage(responseMessage): written if a client is connected, else dropped.
SendResponse(w) ==
  /\ worker[w] = "sending"
  /\ response' = [response EXCEPT ![current[w]] = [code |-> code[w], sent |-> connected]]
  /\ current' = [current EXCEPT ![w] = NoTask]
  /\ code' = [code EXCEPT ![w] = NoCode]
  /\ worker' = [worker EXCEPT ![w] = "loop"]
  /\ UNCHANGED <<main, server, connected, function_map_, tasks_, shutdown_, history>>

-----------------------------------------------------------------------------

MainStep ==
  \/ \E w \in Workers : SpawnWorker(w)
  \/ StartPipeServer \/ NotifyAll \/ JoinWorkers \/ StopServer \/ JoinServer

ServerStep ==
  \/ \E r \in Requests : HandleRpcRequest(r)
  \/ NotifyOne
  \/ ServerThreadEnds

WorkerStep(w) ==
  \/ TakeTask(w) \/ WaitForTask(w) \/ ExitThread(w) \/ RunTask(w) \/ SendResponse(w)

\* What nothing obliges to happen: the owner's calls and the clients.
Environment ==
  \/ \E m \in Methods : Bind(m)
  \/ Shutdown
  \/ ClientConnects \/ ClientLeaves \/ ReceiveMessage
  \/ \E w \in Workers : SpuriousWakeup(w)

\* The program has ended.
Terminated ==
  /\ main = "destroyed"
  /\ UNCHANGED vars

Next ==
  \/ MainStep
  \/ ServerStep
  \/ \E w \in Workers : WorkerStep(w)
  \/ Environment
  \/ Terminated

Spec == Init /\ [][Next]_vars

\* Every thread that can run is eventually scheduled, and bound functions return.
Fairness ==
  /\ WF_vars(MainStep)
  /\ WF_vars(ServerStep)
  /\ \A w \in Workers : WF_vars(WorkerStep(w))

FairSpec == Spec /\ Fairness

-----------------------------------------------------------------------------
(* Properties *)

Answered(r) == response[r].code # NoCode
HeldBy(r) == {w \in Workers : current[w] = r}

\* Tasks leave the queue in the order handleRpcRequest put them in, none is
\* skipped, duplicated or invented, whatever the workers' interleaving.
FifoOnce == accepted = started \o tasks_

\* A dequeued request is with exactly one worker until its response is built
\* and with none afterwards: no task is dropped between pop() and task().
NoRequestLost ==
  \A r \in Range(started) :
    IF Answered(r) THEN HeldBy(r) = {} ELSE \E w \in Workers : HeldBy(r) = {w}

\* No lost wake-up: while some worker sleeps in task_cv_.wait there are at
\* least as many wake-ups under way (workers at the loop head, or the pending
\* notify_one) as there are tasks in the queue.
WorkConserving ==
  Waiting # {} =>
    Len(tasks_) <= Cardinality({w \in Workers : AtLoopHead(w)})
                   + (IF server = "notify" THEN 1 ELSE 0)

\* When stopWorkerThreads() returns, every request that was enqueued before
\* shutdown_ was set has been run and answered; only later ones may be left.
DrainedOnJoin ==
  main \in {"stopServer", "joinServer", "destroyed"} =>
    \A i \in 1..cut : Answered(accepted[i])

\* Hiding the threads, the pool is the service its clients rely on: requests
\* served in order, each at most once, each answered at most once.
Service == INSTANCE RpcService WITH
  received <- Range(accepted),
  queue <- tasks_,
  inService <- {current[w] : w \in Workers} \ {NoTask}

ImplementsService == Service!Spec

\* A request enqueued while the pool is not shutting down is answered.
RequestAnswered ==
  \A r \in Requests : (r \in Range(accepted) /\ ~shutdown_) ~> Answered(r)

\* The destructor's joins of the workers and of serverThread_ return: no worker
\* sleeps through the shutdown.  (clientThread_ is DockLink's.)
DestructorReturns == shutdown_ ~> (main = "destroyed")
===============================================================================
