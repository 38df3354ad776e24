------------------------------- MODULE DockLink -------------------------------
(***************************************************************************)
(* The link to the dock: NamedPipeClient (NamedPipeClient.cpp) and its use *)
(* by SauriApplication (GameToolClient.cpp) for registering.  The main     *)
(* thread connects, starts clientThread_, posts the register message, and  *)
(* later joins the threads in exec() or in the destructor; clientThread_   *)
(* runs the handlers of io_context_client_; serverThread_ runs the         *)
(* handshake, whose third step closes the client.                          *)
(*                                                                         *)
(* connected_ and pipe_ are a plain bool and a unique_ptr that these       *)
(* threads share without a lock: close(), start_read() and do_write() take *)
(* one step per access to them.  A call through pipe_ when it is null, or  *)
(* a second delete of the same stream_handle, ends the process.            *)
(*                                                                         *)
(* External: the dock, the kernel's pipe and asio's completion queue.      *)
(***************************************************************************)
EXTENDS Naturals, Sequences, FiniteSets

CONSTANTS MaxRegisters,   \* bound: calls of registerSelf()
          MaxReplies,     \* bound: messages of the dock on the client's pipe
          Handshake       \* does the dock complete the handshake?

ASSUME LinkAssumption ==
  /\ MaxRegisters \in Nat
  /\ MaxReplies \in Nat
  /\ Handshake \in BOOLEAN

VARIABLES
  main,           \* where the main thread is
  at,             \* where clientThread_ and serverThread_ are in a handler
  clientThread,   \* the std::thread clientThread_
  serverThread,   \* the std::thread serverThread_
  ioStopped,      \* io_context_client_.stopped()
  connected_,
  pipe_,          \* the stream_handle pipe_ owns, 0 for nullptr
  old,            \* the stream_handle a thread is deleting in pipe_.reset()
  deleted,        \* the stream_handles deleted so far
  link,           \* per stream_handle, the state of its connection
  reading,        \* the stream_handle with an async_read_some outstanding, 0: none
  writing,        \* messages given to async_write, not completed
  write_queue_,
  ready,          \* completions and posted functions of io_context_client_
  crash,          \* "none", or how the process ended
  dockPipe,       \* the dock's own pipe: may CreateFile open it?
  handshake,      \* how far the dock's handshake has come
  replies,        \* how many messages the dock sent on the client's pipe
  registers,      \* history: calls of registerSelf()
  accepted,       \* history: the register messages registerSelf() posted
  received,       \* history: those the dock has received
  notices         \* history: calls of connection_handler_(false)

client == <<connected_, pipe_, old, deleted, link, notices>>
io == <<reading, writing, write_queue_, ready>>
dock == <<dockPipe, handshake, replies, received>>
app == <<main, clientThread, serverThread, registers, accepted>>
elsewhere == <<app, ioStopped, crash, dock>>
vars == <<elsewhere, at, client, io>>

Handles == 1..MaxRegisters
Threads == {"client", "server"}
Closing == {"close", "flag", "test", "handle", "take", "delete", "notify"}
Completions == [op : {"read", "write", "post"}, arg : Nat]

TypeOK ==
  /\ main \in {"app", "connect", "wait", "retry", "spawn", "write", "execClient",
               "execServer", "stop", "joinServer", "joinClient", "destroyed"}
  /\ at \in [Threads -> {"idle", "read", "asyncRead", "write", "asyncWrite"} \cup Closing]
  /\ clientThread \in {"none", "running", "ended", "joined"}
  /\ serverThread \in {"running", "ended", "joined"}
  /\ ioStopped \in BOOLEAN
  /\ connected_ \in BOOLEAN
  /\ pipe_ \in Handles \cup {0}
  /\ old \in [Threads -> Handles \cup {0}]
  /\ deleted \subseteq Handles
  /\ link \in [Handles -> {"unused", "open", "broken", "closed"}]
  /\ reading \in Handles \cup {0}
  /\ writing \in Seq(Handles)
  /\ write_queue_ \in Seq(Handles)
  /\ ready \in Seq(Completions)
  /\ crash \in {"none", "terminate", "null", "delete"}
  /\ dockPipe \in {"absent", "free", "busy"}
  /\ handshake \in {"none", "step1", "step2", "step3", "done"}
  /\ replies \in 0..MaxReplies
  /\ registers \in 0..MaxRegisters
  /\ accepted \subseteq Handles
  /\ received \subseteq Handles
  /\ notices \in Nat

Init ==
  /\ main = "app"
  /\ at = [t \in Threads |-> "idle"]
  /\ clientThread = "none"
  /\ serverThread = "running"
  /\ ioStopped = FALSE
  /\ connected_ = FALSE
  /\ pipe_ = 0
  /\ old = [t \in Threads |-> 0]
  /\ deleted = {}
  /\ link = [i \in Handles |-> "unused"]
  /\ reading = 0
  /\ writing = <<>>
  /\ write_queue_ = <<>>
  /\ ready = <<>>
  /\ crash = "none"
  /\ dockPipe = "free"
  /\ handshake = "none"
  /\ replies = 0
  /\ registers = 0
  /\ accepted = {}
  /\ received = {}
  /\ notices = 0

\* The main thread goes on and nothing else changes.
MainGoes(to) ==
  /\ main' = to
  /\ UNCHANGED <<clientThread, serverThread, registers, accepted, at, ioStopped,
                 client, io, crash, dock>>

Goto(t, pc) == at' = [at EXCEPT ![t] = pc]

OK == 0
Failed == 1
Completion(op, arg) == [op |-> op, arg |-> arg]

\* Everything outstanding fails when the connection is closed or lost.
FailedReads == IF reading # 0 THEN <<Completion("read", Failed)>> ELSE <<>>
FailedWrites == [k \in DOMAIN writing |-> Completion("write", Failed)]

Crash(how) == crash' = how /\ UNCHANGED <<app, at, ioStopped, client, io, dock>>

-----------------------------------------------------------------------------
(* The main thread: registerSelf(), connectToDock(), connect(). *)

RegisterSelf ==
  /\ main = "app"
  /\ registers < MaxRegisters
  /\ registers' = registers + 1
  /\ main' = "connect"
  /\ UNCHANGED <<clientThread, serverThread, accepted, at, ioStopped, client, io, crash, dock>>

\* if (connected_) return true;
AlreadyConnected ==
  /\ main = "connect"
  /\ connected_
  /\ MainGoes("spawn")

\* CreateFile succeeds, at once or after the wait; connect() goes on to start_read().
\* The new stream_handle takes the place of one that is still there.
Open ==
  /\ (main = "connect" /\ ~connected_) \/ main = "retry"
  /\ dockPipe = "free"
  /\ dockPipe' = "busy"
  /\ pipe_' = registers
  /\ deleted' = deleted \cup ({pipe_} \ {0})
  /\ link' = [link EXCEPT ![registers] = "open"]
  /\ connected_' = TRUE
  /\ reading' = registers
  /\ writing' = <<>>
  /\ ready' = ready \o FailedReads \o FailedWrites
  /\ main' = "spawn"
  /\ UNCHANGED <<clientThread, serverThread, registers, accepted, at, ioStopped, old,
                 notices, write_queue_, crash, handshake, replies, received>>

\* ERROR_PIPE_BUSY: WaitNamedPipe for up to 5 s.
PipeBusy ==
  /\ main = "connect" /\ ~connected_
  /\ dockPipe = "busy"
  /\ MainGoes("wait")

\* The pipe became free: somebody else may be faster again.
WaitEnds ==
  /\ main = "wait"
  /\ dockPipe = "free"
  /\ MainGoes("retry")

\* There is no pipe, the wait timed out, or the second CreateFile fails too.
ConnectFails ==
  /\ \/ main = "connect" /\ ~connected_ /\ dockPipe = "absent"
     \/ main = "wait"
     \/ main = "retry" /\ dockPipe # "free"
  /\ MainGoes("app")

Joinable == clientThread \in {"running", "ended"}

\* clientThread_ = std::thread(...)
SpawnClientThread ==
  /\ main = "spawn"
  /\ ~Joinable
  /\ clientThread' = "running"
  /\ main' = "write"
  /\ UNCHANGED <<serverThread, registers, accepted, at, ioStopped, client, io, crash, dock>>

\* Assigning to a std::thread that is joinable calls std::terminate().
SpawnTerminates ==
  /\ main = "spawn"
  /\ Joinable
  /\ Crash("terminate")

\* client_->write(message): posted unless the link is gone already.
WriteRegister ==
  /\ main = "write"
  /\ IF connected_ /\ pipe_ # 0
     THEN /\ ready' = Append(ready, Completion("post", registers))
          /\ accepted' = accepted \cup {registers}
     ELSE UNCHANGED <<ready, accepted>>
  /\ main' = "app"
  /\ UNCHANGED <<clientThread, serverThread, registers, at, ioStopped, client,
                 reading, writing, write_queue_, crash, dock>>

-----------------------------------------------------------------------------
(* exec() and ~SauriApplication(). *)

Exec ==
  /\ main = "app"
  /\ MainGoes("execClient")

\* if (clientThread_.joinable()) clientThread_.join();
JoinClient(from, to) ==
  /\ main = from
  /\ clientThread # "running"
  /\ clientThread' = IF Joinable THEN "joined" ELSE clientThread
  /\ main' = to
  /\ UNCHANGED <<serverThread, registers, accepted, at, ioStopped, client, io, crash, dock>>

JoinServer(from, to) ==
  /\ main = from
  /\ serverThread # "running"
  /\ serverThread' = "joined"
  /\ main' = to
  /\ UNCHANGED <<clientThread, registers, accepted, at, ioStopped, client, io, crash, dock>>

\* The destructor begins: unregisterApp() builds a message and sends nothing.
Destroy ==
  /\ main = "app"
  /\ MainGoes("stop")

\* server_->stop(), io_context_server_.stop(); nothing stops io_context_client_.
StopServer ==
  /\ main = "stop"
  /\ MainGoes("joinServer")

\* io_context_server_.run() returns when it is stopped, or runs out of work
\* because the pipe could not be created again.
ServerThreadEnds ==
  /\ serverThread = "running"
  /\ at["server"] = "idle"
  /\ serverThread' = "ended"
  /\ UNCHANGED <<main, clientThread, registers, accepted, at, ioStopped, client, io,
                 crash, dock>>

-----------------------------------------------------------------------------
(* close(), on either thread. *)

\* if (!connected_) return;
CloseConnected(t) ==
  /\ at[t] = "close"
  /\ Goto(t, IF connected_ THEN "flag" ELSE "idle")
  /\ UNCHANGED <<elsewhere, client, io>>

CloseFlag(t) ==
  /\ at[t] = "flag"
  /\ connected_' = FALSE
  /\ Goto(t, "test")
  /\ UNCHANGED <<elsewhere, pipe_, old, deleted, link, notices, io>>

\* if (pipe_)
CloseTest(t) ==
  /\ at[t] = "test"
  /\ Goto(t, IF pipe_ # 0 THEN "handle" ELSE "notify")
  /\ UNCHANGED <<elsewhere, client, io>>

\* pipe_->close(): what was outstanding is aborted.
CloseHandle(t) ==
  /\ at[t] = "handle"
  /\ IF pipe_ = 0
     THEN Crash("null")
     ELSE /\ link' = [link EXCEPT ![pipe_] = "closed"]
          /\ reading' = 0
          /\ writing' = <<>>
          /\ ready' = ready \o FailedReads \o FailedWrites
          /\ Goto(t, "take")
          /\ UNCHANGED <<app, ioStopped, connected_, pipe_, old, deleted, notices,
                         write_queue_, crash, dock>>

\* pipe_.reset(): the pointer is read ...
ResetTakes(t) ==
  /\ at[t] = "take"
  /\ old' = [old EXCEPT ![t] = pipe_]
  /\ Goto(t, "delete")
  /\ UNCHANGED <<elsewhere, connected_, pipe_, deleted, link, notices, io>>

\* ... cleared, and the object it pointed to deleted.
ResetDeletes(t) ==
  /\ at[t] = "delete"
  /\ IF old[t] \in deleted
     THEN Crash("delete")
     ELSE /\ pipe_' = 0
          /\ deleted' = deleted \cup ({old[t]} \ {0})
          /\ Goto(t, "notify")
          /\ UNCHANGED <<elsewhere, connected_, old, link, notices, io>>

\* connection_handler_(false)
NotifyClosed(t) ==
  /\ at[t] = "notify"
  /\ notices' = notices + 1
  /\ Goto(t, "idle")
  /\ UNCHANGED <<elsewhere, connected_, pipe_, old, deleted, link, io>>

-----------------------------------------------------------------------------
(* clientThread_: the handlers of io_context_client_, one after another. *)

CanRun == clientThread = "running" /\ at["client"] = "idle" /\ ~ioStopped

Next_(op) == CanRun /\ ready # <<>> /\ Head(ready).op = op

\* Mutant: an error ends the reading and nothing else.
ReadHandlerIgnoresError ==
  /\ Next_("read")
  /\ ready' = Tail(ready)
  /\ Goto("client", IF Head(ready).arg = OK THEN "read" ELSE "idle")
  /\ UNCHANGED <<elsewhere, client, reading, writing, write_queue_>>

\* Mutant: after an error the next read is tried.
ReadHandlerRetries ==
  /\ Next_("read")
  /\ ready' = Tail(ready)
  /\ Goto("client", "read")
  /\ UNCHANGED <<elsewhere, client, reading, writing, write_queue_>>

\* handle_read(): the next read, or close().
ReadHandler ==
  /\ Next_("read")
  /\ ready' = Tail(ready)
  /\ Goto("client", IF Head(ready).arg = OK THEN "read" ELSE "close")
  /\ UNCHANGED <<elsewhere, client, reading, writing, write_queue_>>

\* Mutant: the function posted by write() does not begin to write.
PostHandlerQueuesOnly ==
  /\ Next_("post")
  /\ write_queue_' = Append(write_queue_, Head(ready).arg)
  /\ ready' = Tail(ready)
  /\ UNCHANGED <<app, at, ioStopped, client, reading, writing, crash, dock>>

\* The function write() posted.
PostHandler ==
  /\ Next_("post")
  /\ write_queue_' = Append(write_queue_, Head(ready).arg)
  /\ ready' = Tail(ready)
  /\ Goto("client", IF write_queue_ = <<>> THEN "write" ELSE "idle")
  /\ UNCHANGED <<elsewhere, client, reading, writing>>

\* The handler of async_write: the next message, or close().
WriteHandler ==
  /\ Next_("write")
  /\ ready' = Tail(ready)
  /\ IF Head(ready).arg = OK
     THEN /\ write_queue_' = Tail(write_queue_)
          /\ Goto("client", IF Len(write_queue_) > 1 THEN "write" ELSE "idle")
     ELSE /\ UNCHANGED write_queue_
          /\ Goto("client", "close")
  /\ UNCHANGED <<elsewhere, client, reading, writing>>

\* Mutant: start_read() does not ask for the connection.
GuardMissing ==
  /\ at["client"] \in {"read", "write"}
  /\ Goto("client", IF at["client"] = "read" THEN "asyncRead" ELSE "asyncWrite")
  /\ UNCHANGED <<elsewhere, client, io>>

\* if (!connected_ || !pipe_) return; of start_read() and do_write().
Guard ==
  /\ at["client"] \in {"read", "write"}
  /\ Goto("client",
          IF ~connected_ \/ pipe_ = 0 THEN "idle"
          ELSE IF at["client"] = "read" THEN "asyncRead"
          ELSE IF write_queue_ # <<>> THEN "asyncWrite" ELSE "idle")
  /\ UNCHANGED <<elsewhere, client, io>>

\* pipe_->async_read_some(...)
AsyncRead ==
  /\ at["client"] = "asyncRead"
  /\ IF pipe_ = 0
     THEN Crash("null")
     ELSE /\ IF link[pipe_] = "open"
             THEN reading' = pipe_ /\ UNCHANGED ready
             ELSE ready' = Append(ready, Completion("read", Failed)) /\ UNCHANGED reading
          /\ Goto("client", "idle")
          /\ UNCHANGED <<elsewhere, client, writing, write_queue_>>

\* async_write(*pipe_, buffer(write_queue_.front()), ...)
AsyncWrite ==
  /\ at["client"] = "asyncWrite"
  /\ IF pipe_ = 0
     THEN Crash("null")
     ELSE /\ IF link[pipe_] = "open"
             THEN writing' = Append(writing, Head(write_queue_)) /\ UNCHANGED ready
             ELSE ready' = Append(ready, Completion("write", Failed)) /\ UNCHANGED writing
          /\ Goto("client", "idle")
          /\ UNCHANGED <<elsewhere, client, reading, write_queue_>>

\* io_context_client_.run() returns when no work is outstanding, and at once
\* when the context was stopped by an earlier return: nothing restarts it.
ClientThreadEnds ==
  /\ clientThread = "running"
  /\ at["client"] = "idle"
  /\ ioStopped \/ (ready = <<>> /\ reading = 0 /\ writing = <<>>)
  /\ clientThread' = "ended"
  /\ ioStopped' = TRUE
  /\ UNCHANGED <<main, serverThread, registers, accepted, at, client, io, crash, dock>>

-----------------------------------------------------------------------------
(* serverThread_: the handshake (the server's client is the dock). *)

\* Mutant: the answer carries the wrong step.
HandshakeAnswersStep0 ==
  /\ serverThread = "running" /\ at["server"] = "idle"
  /\ handshake = "step1"
  /\ handshake' = "step0"
  /\ UNCHANGED <<app, at, ioStopped, client, io, crash, dockPipe, replies, received>>

\* Step 1 is answered with step 2.
HandshakeStep1 ==
  /\ serverThread = "running" /\ at["server"] = "idle"
  /\ handshake = "step1"
  /\ handshake' = "step2"
  /\ UNCHANGED <<app, at, ioStopped, client, io, crash, dockPipe, replies, received>>

\* Step 3: client_->close().
HandshakeStep3 ==
  /\ serverThread = "running" /\ at["server"] = "idle"
  /\ handshake = "step3"
  /\ handshake' = "done"
  /\ Goto("server", "close")
  /\ UNCHANGED <<app, ioStopped, client, io, crash, dockPipe, replies, received>>

-----------------------------------------------------------------------------
(* The dock. *)

\* Its pipe comes and goes: other programs connect to it too.
DockPipeChanges ==
  /\ main \in {"connect", "wait", "retry"}
  /\ dockPipe' \in {"absent", "free", "busy"} \ {dockPipe}
  /\ UNCHANGED <<app, at, ioStopped, client, io, crash, handshake, replies, received>>

\* It reads the register message ...
DockReads ==
  /\ writing # <<>>
  /\ received' = received \cup {Head(writing)}
  /\ writing' = Tail(writing)
  /\ ready' = Append(ready, Completion("write", OK))
  /\ UNCHANGED <<app, at, ioStopped, client, reading, write_queue_, crash, dockPipe,
                 handshake, replies>>

\* ... replies to it ...
DockReplies ==
  /\ received # {}
  /\ replies < MaxReplies
  /\ reading # 0
  /\ replies' = replies + 1
  /\ reading' = 0
  /\ ready' = Append(ready, Completion("read", OK))
  /\ UNCHANGED <<app, at, ioStopped, client, writing, write_queue_, crash, dockPipe,
                 handshake, received>>

\* ... connects to the app's pipe and takes the handshake one step further.
DockHandshakes ==
  /\ Handshake
  /\ received # {}
  /\ \/ handshake = "none" /\ handshake' = "step1"
     \/ handshake = "step2" /\ handshake' = "step3"
  /\ UNCHANGED <<app, at, ioStopped, client, io, crash, dockPipe, replies, received>>

\* The dock closes its end or ends: what is outstanding fails.
DockLeaves ==
  /\ \E i \in Handles : link[i] = "open" /\ link' = [link EXCEPT ![i] = "broken"]
  /\ reading' = 0
  /\ writing' = <<>>
  /\ \/ ready' = ready \o FailedReads \o FailedWrites
     \/ ready' = ready \o FailedWrites \o FailedReads
  /\ UNCHANGED <<app, at, ioStopped, connected_, pipe_, old, deleted, notices,
                 write_queue_, crash, dock>>

-----------------------------------------------------------------------------

Close(t) ==
  \/ CloseConnected(t) \/ CloseFlag(t) \/ CloseTest(t) \/ CloseHandle(t)
  \/ ResetTakes(t) \/ ResetDeletes(t) \/ NotifyClosed(t)

MainStep ==
  \/ AlreadyConnected \/ Open \/ PipeBusy \/ WaitEnds \/ ConnectFails
  \/ SpawnClientThread \/ SpawnTerminates \/ WriteRegister
  \/ JoinClient("execClient", "execServer") \/ JoinServer("execServer", "app")
  \/ StopServer \/ JoinServer("joinServer", "joinClient")
  \/ JoinClient("joinClient", "destroyed")

ClientStep ==
  \/ ReadHandler \/ PostHandler \/ WriteHandler \/ Guard \/ AsyncRead \/ AsyncWrite
  \/ Close("client") \/ ClientThreadEnds

ServerStep ==
  \/ HandshakeStep1 \/ HandshakeStep3 \/ Close("server")
  \/ main = "joinServer" /\ ServerThreadEnds

Dock == DockReads \/ DockPipeChanges \/ DockReplies \/ DockHandshakes \/ DockLeaves

Environment == RegisterSelf \/ Exec \/ Destroy \/ ServerThreadEnds

Next == crash = "none" /\ (MainStep \/ ClientStep \/ ServerStep \/ Dock \/ Environment)

Spec == Init /\ [][Next]_vars

\* The threads are scheduled, and the dock reads what is written to it.
Fairness ==
  /\ WF_vars(crash = "none" /\ MainStep)
  /\ WF_vars(crash = "none" /\ ClientStep)
  /\ WF_vars(crash = "none" /\ ServerStep)
  /\ WF_vars(crash = "none" /\ DockReads)

FairSpec == Spec /\ Fairness

-----------------------------------------------------------------------------
(* Properties *)

Opened == {i \in Handles : link[i] # "unused"}

\* Without the handshake's close() on serverThread_ and without a second
\* connect(), the client thread never uses pipe_ after its reset, whatever the
\* dock, the reads, the writes and the errors do.
PipeUsedByOne ==
  crash \in {"null", "delete"} => handshake = "done" \/ \E i, j \in Opened : i # j

\* clientThread_ never leaves a connection behind that nobody reads: whichever
\* thread closes it and whatever is outstanding, once run() has returned the
\* one connection it was started for is closed, or serverThread_ is about to.
ClosedWhenEnded ==
  clientThread \in {"ended", "joined"} /\ (\A i, j \in Opened : i = j)
    => ~connected_ /\ (at["server"] = "idle" => \A i \in Opened : link[i] = "closed")

\* A register message that registerSelf() posted reaches the dock unless the
\* link is lost or closed; not so after a second registerSelf(), which finds
\* io_context_client_ stopped.
RegisterWritten ==
  \A i \in Handles :
    (i \in accepted /\ ~ioStopped) ~> (i \in received \/ link[i] # "open" \/ crash # "none")

\* When the link is lost or closed, by whichever side and thread, clientThread_
\* ends, so exec() goes on to serverThread_.
ClientThreadLeaves ==
  \A i \in Handles :
    (link[i] \in {"broken", "closed"} /\ clientThread = "running")
      ~> (clientThread # "running" \/ crash # "none")

\* The only thing that keeps the destructor from returning is a dock that keeps
\* its end of the link open: nothing closes client_ there.
DockJoinReturns ==
  (main = "stop") ~> (main = "destroyed" \/ crash # "none"
                        \/ \E i \in Handles : link[i] = "open")

(* What the comments say and the code does not keep. *)

\* "通知断开连接" (notify of the disconnect, close()): connection_handler_(false)
\* is called once for each connection.
NotifiedOnce == notices <= Cardinality(Opened)
=============================================================================
