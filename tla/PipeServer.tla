------------------------------ MODULE PipeServer ------------------------------
(***************************************************************************)
(* NamedPipeServer (NamedPipeServer.cpp): one named pipe, one client at a  *)
(* time.  The io thread runs the asio handlers one after another, the main *)
(* thread calls start() before that thread exists and stop() while it      *)
(* runs, any thread may call write().                                      *)
(*                                                                         *)
(* A handler is one step except where it reads is_stopped_ and acts on it  *)
(* later (close_pipe(); if (!is_stopped_) create_pipe();                   *)
(* wait_for_connection()): stop() and clients interleave there, and `io`   *)
(* says how far the handler has come.  Completions reach the io thread in  *)
(* the order of the completion port (`ready`).                             *)
(*                                                                         *)
(* External, as the code uses it: the pipe instances of the kernel, whose  *)
(* pending connect, reads and writes complete when the handle is closed,   *)
(* and asio's completion queue.                                            *)
(***************************************************************************)
EXTENDS Naturals, Sequences

CONSTANTS MaxPipes,   \* bound: how often CreateNamedPipe may succeed
          MaxMsgs,    \* bound: how many messages write() may post
          Faults      \* which calls may fail, of FaultKinds

FaultKinds == {"create", "event", "wait", "oversize"}

ASSUME ServerAssumption ==
  /\ MaxPipes \in Nat \ {0}
  /\ MaxMsgs \in Nat
  /\ Faults \subseteq FaultKinds

VARIABLES
  main,          \* "starting", "app", "stopping", "stopped"
  io,            \* how far the running handler is: "idle" between handlers
  is_connected_,
  is_stopped_,
  pipe_,         \* the open pipe instance, 0 when pipe_ is not open
  nxt,           \* how many instances were created
  inst,          \* what each instance is like
  connecting,    \* instances whose ConnectNamedPipe is pending
  signalled,     \* instances whose connect event is set, wait not yet delivered
  reads,         \* async_read_some operations outstanding on pipe_
  writing,       \* messages of the async_write operations outstanding on pipe_
  write_queue_,
  ready,         \* completed operations and posted functions, oldest first
  timer,         \* "off", "armed", or its handler is "handling"
  posted,        \* history: how many messages write() has posted
  submitted      \* history: the messages given to async_write, in order

conn == <<is_connected_, pipe_, nxt, inst, connecting, signalled>>
ops == <<reads, writing, ready>>
hist == <<posted, submitted>>
vars == <<main, io, is_stopped_, conn, ops, write_queue_, timer, hist>>

Msgs == 1..MaxMsgs
Pipes == 1..MaxPipes
Results == {"ok", "broken", "aborted", "bad_descriptor", "other"}
Completions ==
  [op : {"read"}, res : Results] \cup [op : {"write"}, res : Results, msg : Msgs]
    \cup [op : {"event"}, pipe : Pipes] \cup [op : {"post"}, msg : Msgs]

Read(r) == [op |-> "read", res |-> r]
Wrote(m, r) == [op |-> "write", res |-> r, msg |-> m]
Connected(i) == [op |-> "event", pipe |-> i]
Posted(m) == [op |-> "post", msg |-> m]

TypeOK ==
  /\ main \in {"starting", "app", "stopping", "stopped"}
  /\ io \in {"idle", "closed", "create", "listen"}
  /\ is_connected_ \in BOOLEAN
  /\ is_stopped_ \in BOOLEAN
  /\ pipe_ \in Pipes \cup {0}
  /\ nxt \in Pipes \cup {0}
  /\ inst \in [Pipes -> {"unused", "listening", "connected", "broken", "closed"}]
  /\ connecting \subseteq Pipes
  /\ signalled \subseteq Pipes
  /\ reads \in Nat
  /\ writing \in Seq(Msgs)
  /\ write_queue_ \in Seq(Msgs)
  /\ ready \in Seq(Completions)
  /\ timer \in {"off", "armed", "handling"}
  /\ posted \in 0..MaxMsgs
  /\ submitted \in Seq(Msgs)

Init ==
  /\ main = "starting"
  /\ io = "create"
  /\ is_connected_ = FALSE
  /\ is_stopped_ = FALSE
  /\ pipe_ = 0
  /\ nxt = 0
  /\ inst = [i \in Pipes |-> "unused"]
  /\ connecting = {}
  /\ signalled = {}
  /\ reads = 0
  /\ writing = <<>>
  /\ write_queue_ = <<>>
  /\ ready = <<>>
  /\ timer = "off"
  /\ posted = 0
  /\ submitted = <<>>

-----------------------------------------------------------------------------
(* What the kernel says of an operation begun on pipe_. *)

Link == IF pipe_ = 0 THEN "none" ELSE inst[pipe_]

\* Mutant: the system error is handed on as it is, not as an asio error code.
UnmappedError(link) == link

\* The error an operation completes with at once on a link that is not connected.
LinkError(link) ==
  CASE link = "none" -> "bad_descriptor"
    [] link = "broken" -> "broken"
    [] link = "listening" -> "other"        \* ERROR_PIPE_LISTENING

Completed(op, res, s) == [k \in 1..Len(s) |-> IF op = "read" THEN Read(res) ELSE Wrote(s[k], res)]
Aborted(res) == Completed("read", res, [k \in 1..reads |-> 0])
AbortedWrites(res) == Completed("write", res, writing)

(* start_read(), its guard evaluated where is_connected_ is c, with q completions. *)
StartRead(c, q) ==
  IF is_stopped_ \/ ~c THEN UNCHANGED reads /\ ready' = q
  ELSE IF Link = "connected" THEN reads' = reads + 1 /\ ready' = q
  ELSE UNCHANGED reads /\ ready' = Append(q, Read(LinkError(Link)))

(* do_write() with write queue s and completions q. *)
DoWrite(s, q) ==
  IF is_stopped_ \/ ~is_connected_ \/ s = <<>>
  THEN UNCHANGED <<writing, submitted>> /\ ready' = q
  ELSE /\ submitted' = Append(submitted, Head(s))
       /\ IF Link = "connected"
          THEN writing' = Append(writing, Head(s)) /\ ready' = q
          ELSE UNCHANGED writing /\ ready' = Append(q, Wrote(Head(s), LinkError(Link)))

(* close_pipe(), with q completions: what was pending on pipe_ is aborted. *)
ClosePipe(q) ==
  /\ is_connected_' = FALSE
  /\ IF pipe_ = 0
     THEN ready' = q /\ UNCHANGED <<pipe_, inst, connecting, signalled, reads, writing>>
     ELSE /\ pipe_' = 0
          /\ inst' = [inst EXCEPT ![pipe_] = "closed"]
          /\ connecting' = connecting \ {pipe_}
          /\ signalled' = signalled \cup (connecting \cap {pipe_})
          /\ reads' = 0
          /\ writing' = <<>>
          /\ ready' = q \o Aborted("aborted") \o AbortedWrites("aborted")
  /\ UNCHANGED nxt

-----------------------------------------------------------------------------
(* create_pipe() and wait_for_connection(). *)

\* The first create_pipe() of start() is not inside an inner try: stop() follows.
FailsStart == main = "starting" /\ nxt = 0

CreatePipe ==
  /\ io = "create"
  /\ nxt < MaxPipes
  /\ nxt' = nxt + 1
  /\ pipe_' = nxt'
  /\ inst' = [inst EXCEPT ![nxt'] = "listening"]
  /\ io' = "listen"
  /\ UNCHANGED <<main, is_stopped_, is_connected_, connecting, signalled, ops,
                 write_queue_, timer, hist>>

\* CreateNamedPipe fails; the exception is logged, or ends start() in stop().
CreatePipeFails ==
  /\ io = "create"
  /\ "create" \in Faults
  /\ io' = "idle"
  /\ is_stopped_' = (is_stopped_ \/ FailsStart)
  /\ main' = IF FailsStart THEN "stopped" ELSE main
  /\ UNCHANGED <<conn, ops, write_queue_, timer, hist>>

\* CreateEvent fails: the pipe stays open and nobody waits for a client.
CreateEventFails ==
  /\ io = "listen"
  /\ "event" \in Faults
  /\ io' = "idle"
  /\ IF main = "starting" /\ nxt = 1
     THEN /\ is_stopped_' = TRUE
          /\ main' = "stopped"
          /\ ClosePipe(ready)
     ELSE UNCHANGED <<is_stopped_, main, conn, ops>>
  /\ UNCHANGED <<write_queue_, timer, hist>>

\* ConnectNamedPipe: ERROR_IO_PENDING.
ConnectPending ==
  /\ io = "listen"
  /\ Link = "listening"
  /\ connecting' = connecting \cup {pipe_}
  /\ io' = "idle"
  /\ UNCHANGED <<main, is_stopped_, is_connected_, pipe_, nxt, inst, signalled,
                 ops, write_queue_, timer, hist>>

\* Mutant: the client that was faster is not taken for connected.
ConnectImmediateMissed ==
  /\ io = "listen"
  /\ Link = "connected"
  /\ io' = "idle"
  /\ UNCHANGED <<main, is_stopped_, conn, ops, write_queue_, timer, hist>>

\* ConnectNamedPipe: ERROR_PIPE_CONNECTED, the client was faster.
ConnectImmediate ==
  /\ io = "listen"
  /\ Link = "connected"
  /\ is_connected_' = TRUE
  /\ StartRead(TRUE, ready)
  /\ io' = "idle"
  /\ UNCHANGED <<main, is_stopped_, pipe_, nxt, inst, connecting, signalled,
                 writing, write_queue_, timer, hist>>

\* ConnectNamedPipe: any other error (the client left again, or stop() closed).
ConnectFails ==
  /\ io = "listen"
  /\ Link \in {"broken", "none"}
  /\ ClosePipe(ready)
  /\ io' = "closed"
  /\ UNCHANGED <<main, is_stopped_, write_queue_, timer, hist>>

\* Mutant: the restart does not ask for is_stopped_.
AlwaysRestart ==
  /\ io = "closed"
  /\ io' = "create"
  /\ UNCHANGED <<main, is_stopped_, conn, ops, write_queue_, timer, hist>>

\* if (!is_stopped_) after a close_pipe() of the handler.
CheckStopped ==
  /\ io = "closed"
  /\ io' = IF is_stopped_ THEN "idle" ELSE "create"
  /\ UNCHANGED <<main, is_stopped_, conn, ops, write_queue_, timer, hist>>

\* start() goes on: start_client_check_timer(), then the io thread is started.
StartDone ==
  /\ main = "starting"
  /\ io = "idle"
  /\ main' = "app"
  /\ timer' = "armed"
  /\ UNCHANGED <<io, is_stopped_, conn, ops, write_queue_, hist>>

-----------------------------------------------------------------------------
(* The handlers the io thread runs, oldest completion first. *)

CanRun == main # "starting" /\ io = "idle" /\ timer # "handling"

Next_(op) == CanRun /\ ready # <<>> /\ Head(ready).op = op

DisconnectErrors == {"broken", "bad_descriptor"}

\* Mutant: a disconnect closes the pipe and nothing restarts it.
ErrorClosesOnly(res) ==
  IF res \in DisconnectErrors
  THEN ClosePipe(Tail(ready)) /\ UNCHANGED io
  ELSE ready' = Tail(ready) /\ UNCHANGED <<io, conn, reads, writing>>

\* handle_error(): a disconnect closes the pipe and restarts, the rest is reported.
HandleError(res) ==
  IF res \in DisconnectErrors
  THEN ClosePipe(Tail(ready)) /\ io' = "closed"
  ELSE ready' = Tail(ready) /\ UNCHANGED <<io, conn, reads, writing>>

ReadHandler ==
  /\ Next_("read")
  /\ IF Head(ready).res = "ok"
     THEN StartRead(is_connected_, Tail(ready)) /\ UNCHANGED <<io, conn, writing>>
     ELSE HandleError(Head(ready).res)
  /\ UNCHANGED <<main, is_stopped_, write_queue_, timer, hist>>

WriteHandler ==
  /\ Next_("write")
  /\ IF Head(ready).res = "ok"
     THEN /\ write_queue_' = Tail(write_queue_)
          /\ DoWrite(write_queue_', Tail(ready))
          /\ UNCHANGED <<io, conn, reads>>
     ELSE HandleError(Head(ready).res) /\ UNCHANGED <<write_queue_, submitted>>
  /\ UNCHANGED <<main, is_stopped_, timer, posted>>

\* Mutant: do_write() whether or not a write is in progress.
PostHandlerWrites ==
  /\ Next_("post")
  /\ write_queue_' = Append(write_queue_, Head(ready).msg)
  /\ DoWrite(write_queue_', Tail(ready))
  /\ UNCHANGED <<main, io, is_stopped_, conn, reads, timer, posted>>

\* Mutant: the test for a write in progress comes after the push_back.
PostHandlerTestsLate ==
  /\ Next_("post")
  /\ write_queue_' = Append(write_queue_, Head(ready).msg)
  /\ ready' = Tail(ready)
  /\ UNCHANGED <<main, io, is_stopped_, conn, reads, writing, timer, hist>>

\* The function write() posted: push_back, and do_write() if the queue was empty.
PostHandler ==
  /\ Next_("post")
  /\ write_queue_' = Append(write_queue_, Head(ready).msg)
  /\ IF write_queue_ = <<>>
     THEN DoWrite(write_queue_', Tail(ready))
     ELSE ready' = Tail(ready) /\ UNCHANGED <<writing, submitted>>
  /\ UNCHANGED <<main, io, is_stopped_, conn, reads, timer, posted>>

\* The wait on the connect event ends: nothing asks how the connect ended.
ConnectHandler ==
  /\ Next_("event")
  /\ \/ /\ is_stopped_ \/ "wait" \in Faults
        /\ ClosePipe(Tail(ready))
        /\ io' = "closed"
     \/ /\ ~is_stopped_
        /\ is_connected_' = TRUE
        /\ StartRead(TRUE, Tail(ready))
        /\ UNCHANGED <<io, pipe_, nxt, inst, connecting, signalled, writing>>
  /\ UNCHANGED <<main, is_stopped_, write_queue_, timer, hist>>

\* Mutant: the timer restarts the server without closing the pipe.
TimerKeepsPipe ==
  /\ CanRun
  /\ timer = "armed"
  /\ is_connected_ /\ ~is_stopped_
  /\ Link # "connected"
  /\ io' = "create"
  /\ timer' = "handling"
  /\ UNCHANGED <<main, is_stopped_, conn, ops, write_queue_, hist>>

\* check_client_connection() when the peek finds no client. It does not look
\* at is_stopped_ again before create_pipe().
TimerFindsClientGone ==
  /\ CanRun
  /\ timer = "armed"
  /\ is_connected_ /\ ~is_stopped_
  /\ Link # "connected"
  /\ ClosePipe(ready)
  /\ io' = "create"
  /\ timer' = "handling"
  /\ UNCHANGED <<main, is_stopped_, write_queue_, hist>>

\* Mutant: the timer is not scheduled again.
TimerEnds ==
  /\ timer = "handling"
  /\ io = "idle"
  /\ timer' = "off"
  /\ UNCHANGED <<main, io, is_stopped_, conn, ops, write_queue_, hist>>

\* start_client_check_timer() at the end of the timer's handler.
TimerRearms ==
  /\ timer = "handling"
  /\ io = "idle"
  /\ timer' = IF is_stopped_ THEN "off" ELSE "armed"
  /\ UNCHANGED <<main, io, is_stopped_, conn, ops, write_queue_, hist>>

-----------------------------------------------------------------------------
(* Other threads. *)

\* write(): the flags are read and a function is posted to the strand.
Write ==
  /\ is_connected_ /\ ~is_stopped_
  /\ posted < MaxMsgs
  /\ posted' = posted + 1
  /\ ready' = Append(ready, Posted(posted'))
  /\ UNCHANGED <<main, io, is_stopped_, conn, reads, writing, write_queue_, timer, submitted>>

\* stop(): is_stopped_.exchange(true) ...
StopBegins ==
  /\ main = "app"
  /\ is_stopped_' = TRUE
  /\ main' = "stopping"
  /\ UNCHANGED <<io, conn, ops, write_queue_, timer, hist>>

\* ... timer_.cancel() and close_pipe(), while the io thread may run a handler.
StopCloses ==
  /\ main = "stopping"
  /\ ClosePipe(ready)
  /\ timer' = IF timer = "armed" THEN "off" ELSE timer
  /\ main' = "stopped"
  /\ UNCHANGED <<io, is_stopped_, write_queue_, hist>>

-----------------------------------------------------------------------------
(* The client and the kernel. *)

ClientConnects ==
  /\ Link = "listening"
  /\ inst' = [inst EXCEPT ![pipe_] = "connected"]
  /\ connecting' = connecting \ {pipe_}
  /\ signalled' = signalled \cup (connecting \cap {pipe_})
  /\ UNCHANGED <<main, io, is_connected_, is_stopped_, pipe_, nxt, ops,
                 write_queue_, timer, hist>>

\* Reads and writes outstanding fail, in either order.
ClientLeaves ==
  /\ Link = "connected"
  /\ inst' = [inst EXCEPT ![pipe_] = "broken"]
  /\ reads' = 0
  /\ writing' = <<>>
  /\ \/ ready' = ready \o Aborted("broken") \o AbortedWrites("broken")
     \/ ready' = ready \o AbortedWrites("broken") \o Aborted("broken")
  /\ UNCHANGED <<main, io, is_connected_, is_stopped_, pipe_, nxt, connecting,
                 signalled, write_queue_, timer, hist>>

\* A message arrives; one longer than buffer_ fails the read (ERROR_MORE_DATA).
ReadCompletes ==
  /\ reads > 0
  /\ reads' = reads - 1
  /\ \/ ready' = Append(ready, Read("ok"))
     \/ "oversize" \in Faults /\ ready' = Append(ready, Read("other"))
  /\ UNCHANGED <<main, io, is_stopped_, conn, writing, write_queue_, timer, hist>>

WriteCompletes ==
  /\ writing # <<>>
  /\ writing' = Tail(writing)
  /\ ready' = Append(ready, Wrote(Head(writing), "ok"))
  /\ UNCHANGED <<main, io, is_stopped_, conn, reads, write_queue_, timer, hist>>

\* The wait thread hands the signalled event to the completion queue.
EventDelivered ==
  \E i \in signalled :
    /\ signalled' = signalled \ {i}
    /\ ready' = Append(ready, Connected(i))
    /\ UNCHANGED <<main, io, is_connected_, is_stopped_, pipe_, nxt, inst,
                   connecting, reads, writing, write_queue_, timer, hist>>

-----------------------------------------------------------------------------

IoStep ==
  \/ CreatePipe \/ CreatePipeFails \/ CreateEventFails
  \/ ConnectPending \/ ConnectImmediate \/ ConnectFails \/ CheckStopped
  \/ StartDone
  \/ ReadHandler \/ WriteHandler \/ PostHandler \/ ConnectHandler \/ TimerRearms

Kernel == WriteCompletes \/ EventDelivered

Environment == Write \/ StopBegins \/ ClientConnects \/ ClientLeaves \/ ReadCompletes

Next == IoStep \/ TimerFindsClientGone \/ StopCloses \/ Kernel \/ Environment

Spec == Init /\ [][Next]_vars

\* The io thread runs what is ready, the 5 s timer keeps ticking, stop() goes
\* on, the client reads what was written to it, events are delivered.
Fairness ==
  /\ WF_vars(IoStep)
  /\ WF_vars(TimerFindsClientGone)
  /\ WF_vars(StopCloses)
  /\ WF_vars(WriteCompletes)
  /\ WF_vars(EventDelivered)

FairSpec == Spec /\ Fairness
-----------------------------------------------------------------------------
(* Properties *)

\* The completions of async_write whose handler has not run yet.
Written == {k \in DOMAIN ready : ready[k].op = "write"}

\* do_write() hands the kernel a buffer that points into write_queue_.front():
\* whatever disconnects, restarts and posts come between, at most one write is
\* open, and its message is still the front of the queue.
SingleWriter ==
  /\ Len(writing) <= 1
  /\ \A j, k \in Written : j = k
  /\ writing # <<>> =>
       Written = {} /\ write_queue_ # <<>> /\ Head(writing) = Head(write_queue_)
  /\ \A k \in Written : write_queue_ # <<>> /\ ready[k].msg = Head(write_queue_)

\* The messages submitted are the first that write() posted, in its order: a
\* message that failed on one client is not sent again to the next.
SubmittedInOrder == \A i \in DOMAIN submitted : submitted[i] = i

\* The queue is written by one, front first, and what was written leaves it.
\* (NamedPipeServer.cpp:88-93, :245-259)
WritesInOrder == SingleWriter /\ SubmittedInOrder

(* Where PipeServer stands as a MessageChannel. *)

\* An async_write of m reads from write_queue_.front(); were m not there, its
\* buffer would be gone.
OnWire(m, s) ==
  [msg |-> m, is |-> IF write_queue_ # <<>> /\ Head(write_queue_) = m THEN s ELSE "torn"]

Outcome(c) == IF c.res = "ok" THEN "written" ELSE "lost"

Underway ==
  {OnWire(writing[k], "open") : k \in DOMAIN writing}
    \cup {OnWire(ready[k].msg, Outcome(ready[k])) : k \in Written}

\* A queue that is not empty with no write under way: nobody goes on with it.
Channel == INSTANCE MessageChannel WITH
  stopped <- is_stopped_,
  stuck <- write_queue_ # <<>> /\ Underway = {},
  posted <- posted,
  submitted <- submitted,
  underway <- Underway

\* Messages reach async_write in the order of the write() calls, none left out
\* and none twice, one at a time and each from the front of write_queue_,
\* whatever disconnects and restarts come between; what was lost is not sent
\* again. (NamedPipeServer.cpp:83-95, :238-257)
ImplementsMessageChannel == Channel!Spec

\* One client at a time: no open pipe instance is ever dropped for a new one, on
\* whatever path close_pipe() and create_pipe() are reached.
OneInstance ==
  \A i \in Pipes : inst[i] \in {"listening", "connected", "broken"} <=> i = pipe_

\* stop() is final: once it has returned and the handler it overlapped has
\* ended, no pipe instance is created and no message is written any more.
StopIsFinal ==
  \A n \in Pipes \cup {0}, m \in Msgs \cup {0} :
    [](/\ main = "stopped" /\ io = "idle" /\ nxt = n /\ Len(submitted) = m
       => [](nxt = n /\ Len(submitted) = m))

Exhausted == nxt = MaxPipes    \* the model's bound, no state of the code

\* Unless CreateNamedPipe or CreateEvent fails, a server without a pipe listens
\* again, whatever error path closed the old one.
Relisten == (pipe_ = 0 /\ ~is_stopped_) ~> (pipe_ # 0 \/ is_stopped_ \/ Exhausted)

\* A client that connects and stays is noticed (is_connected_).
ClientNoticed ==
  \A i \in Pipes :
    (pipe_ = i /\ inst[i] = "connected" /\ ~is_stopped_)
      ~> (pipe_ # i \/ inst[i] # "connected" \/ is_connected_ \/ is_stopped_)

\* A client that went away is noticed and its pipe closed, even when no read is
\* outstanding to fail (after an oversized message only the timer finds out).
DisconnectNoticed ==
  \A i \in Pipes :
    (pipe_ = i /\ inst[i] = "broken" /\ ~is_stopped_) ~> (pipe_ # i \/ is_stopped_)

\* While its client stays connected, a posted message is written.
WrittenWhileConnected ==
  \A m \in Msgs :
    m <= posted ~> \/ \E k \in DOMAIN submitted : submitted[k] = m
                   \/ is_stopped_
                   \/ \E i \in Pipes : inst[i] \in {"broken", "closed"}

(* What the code says of itself and does not keep. *)

\* "write_in_progress = !write_queue_.empty()" (write()): a queue that is not
\* empty has a write under way whose handler will go on with the next message.
QueueMeansWriteInProgress ==
  is_connected_ /\ ~is_stopped_ /\ io = "idle" /\ write_queue_ # <<>>
    => writing # <<>> \/ Written # {}

\* "Client is now connected" (the handler of the connect event): when
\* is_connected_ is set there is, or just was, a client on the pipe.
ConnectedMeansClient ==
  [][is_connected_' /\ ~is_connected_ => Link' \in {"connected", "broken"}]_vars
===============================================================================
