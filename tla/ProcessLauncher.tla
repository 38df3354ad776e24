--------------------------- MODULE ProcessLauncher ---------------------------
(***************************************************************************)
(* ProcessLauncherWindows (systemkit/src/windows/process_launcher_windows  *)
(* .cpp): processes are started, found, waited for and terminated through  *)
(* kernel handles.  A ProcessHandle is a number the caller may copy and    *)
(* use again; only terminate() ever closes it.  A handle value that was    *)
(* closed may be given to anything opened next, here or elsewhere in the   *)
(* program.                                                                *)
(*                                                                         *)
(* A step is one system call with what the code does up to the next one.   *)
(* Processes end in between.  Command lines, environment blocks and        *)
(* priorities are data.                                                    *)
(***************************************************************************)
EXTENDS Naturals, FiniteSets

CONSTANTS
  Threads,   \* threads of the program that use the launcher
  Openers,   \* those among them that start processes and look for them (a bound)
  Pids,      \* process objects, each used by one process
  App,       \* those that run the program start() and getProcessByPath() name
  Values     \* handle values of this program

VARIABLES
  proc,      \* "unborn", "running", or the exit code
  table,     \* the program's handle table
  given,     \* the process for which a value was last returned to the caller
  spent,     \* the values among them that were passed to terminate()
  reused,    \* one of those was passed to terminate() again
  call       \* what each thread does

vars == <<proc, table, given, spent, reused, call>>

Null == "null"
STILL_ACTIVE == "259"
ExitCodes == {"0", "1", STILL_ACTIVE}
Closed == [obj |-> "none", sync |-> FALSE, by |-> "none"]
Handle(o, s, t) == [obj |-> o, sync |-> s, by |-> t]

Fresh == {p \in Pids : proc[p] = "unborn"}
Running == {p \in Pids : proc[p] = "running"}
Unused == {v \in Values : table[v] = Closed}
Given == {v \in Values : given[v] # "never"}

Idle == [op |-> "none", at |-> "idle", h |-> Null, obj |-> "none",
         todo |-> {}, kept |-> {}, guards |-> {}, said |-> "none", stale |-> FALSE]

TypeOK ==
  /\ proc \in [Pids -> ExitCodes \cup {"unborn", "running"}]
  /\ \A v \in Values : table[v].by \in Threads \cup {"caller", "none"}
  /\ given \in [Values -> Pids \cup {"never"}]
  /\ spent \subseteq Given /\ reused \in BOOLEAN
  /\ \A t \in Threads :
       /\ call[t].todo \subseteq Pids
       /\ call[t].guards \cup call[t].kept \subseteq Values
       /\ call[t].said \in {"none", "true", "false"}
       /\ call[t].at = "idle" => call[t].guards \cup call[t].kept = {}

Init ==
  /\ proc = [p \in Pids |-> "unborn"]
  /\ table = [v \in Values |-> Closed]
  /\ given = [v \in Values |-> "never"]
  /\ spent = {} /\ reused = FALSE
  /\ call = [t \in Threads |-> Idle]

----------------------------------------------------------------------------
(* How a call goes on and how it ends *)

\* ~ProcessHandleGuard(): whatever has the value now is closed
CloseGuards(tab, vs) == [v \in Values |-> IF v \in vs THEN Closed ELSE tab[v]]

\* return or throw: the guards go out of scope, what is returned is the caller's
Leave(t, tab, said, out) ==
  /\ call' = [call EXCEPT ![t] = [Idle EXCEPT !.said = said]]
  /\ table' = CloseGuards([v \in Values |-> IF v \in out THEN [tab[v] EXCEPT !.by = "caller"] ELSE tab[v]],
                         call[t].guards)
  /\ given' = [v \in Values |-> IF v \in out THEN tab[v].obj ELSE given[v]]
  /\ spent' = spent \ out

Return(t, said) == Leave(t, table, said, {}) /\ UNCHANGED <<proc, reused>>

\* ProcessLauncherException; which code it has makes no difference later
Throw(t, code) == Return(t, "none")

At(t, op, at) == call[t].op = op /\ call[t].at = at

\* GetExitCodeProcess(); anything but a process is refused
ExitCode(v) ==
  CASE table[v].obj \notin Pids -> "failed"
    [] table[v].obj \in Running -> STILL_ACTIVE
    [] OTHER -> proc[table[v].obj]

\* wait() and isRunning() with a handle that may have been closed meanwhile
Begin(t, op, h) ==
  /\ call[t].at = "idle"
  /\ call' = [call EXCEPT ![t] = [Idle EXCEPT !.op = op, !.at = "called", !.h = h,
                                             !.stale = h \in spent]]
  /\ UNCHANGED <<proc, table, given, spent, reused>>

\* a call that has begun gets to its next system call
Goto(t, at) ==
  /\ call' = [call EXCEPT ![t].at = at]
  /\ UNCHANGED <<proc, table, given, spent, reused>>

----------------------------------------------------------------------------
(* start() *)

\* an empty path, no environment strings, a command line of 32767 characters
start(t) ==
  /\ call[t].at = "idle"
  /\ \E code \in {"InvalidArgument", "ProcessError"} : Throw(t, code)

Begun(p) == proc' = [proc EXCEPT ![p] = "running"]

\* CreateProcessW gives a handle of the process and one of its first thread
startWithCreateProcess(t) ==
  /\ call[t].at = "idle"
  /\ \/ Throw(t, "ProcessStartFailed")
     \/ \E p \in Fresh \cap App, v, w \in Unused :
          /\ v # w
          /\ Begun(p)
          /\ table' = [table EXCEPT ![v] = Handle(p, TRUE, t), ![w] = Handle("thread", TRUE, t)]
          /\ call' = [call EXCEPT ![t] = [Idle EXCEPT !.op = "start", !.at = "thread", !.obj = w,
                                                      !.kept = {v}]]
          /\ UNCHANGED <<given, spent, reused>>

closeThreadHandle(t) ==
  /\ At(t, "start", "thread")
  /\ Leave(t, CloseGuards(table, {call[t].obj}), "none", call[t].kept)
  /\ UNCHANGED <<proc, reused>>

\* ShellExecuteExW may run p and have no handle of it for us
ShellExecute(t, p) ==
  /\ Begun(p)
  /\ \/ Leave(t, table, "none", {})
     \/ \E v \in Unused : Leave(t, [table EXCEPT ![v] = Handle(p, TRUE, t)], "none", {v})
  /\ UNCHANGED reused

\* with reqAdmin the name of the file is a freed string: some program starts;
\* a missing handle is returned as 0
startAsAdmin(t) ==
  /\ call[t].at = "idle"
  /\ Throw(t, "ProcessStartFailed") \/ \E p \in Fresh : ShellExecute(t, p)

\* a missing handle is an exception, although the process runs
startWithShellExecute(t) ==
  /\ call[t].at = "idle"
  /\ Throw(t, "ProcessStartFailed") \/ \E p \in Fresh \cap App : ShellExecute(t, p)

----------------------------------------------------------------------------
(* terminate(), wait(), isRunning() *)

\* the caller's handle is used up, whether or not the process ends
beginTerminate(t, h) ==
  /\ call[t].at = "idle"
  /\ call' = [u \in Threads |->
                IF u = t THEN [Idle EXCEPT !.op = "terminate", !.at = "called", !.h = h, !.stale = TRUE]
                ELSE [call[u] EXCEPT !.stale = @ \/ h \in {call[u].h} \ {Null}]]
  /\ spent' = spent \cup ({h} \ {Null})
  /\ reused' = (reused \/ h \in spent)
  /\ UNCHANGED <<proc, table, given>>

\* the guard takes the handle before TerminateProcess() is tried
terminate(t) ==
  /\ At(t, "terminate", "called")
  /\ LET p == table[call[t].h].obj IN
     IF call[t].h = Null
     THEN Throw(t, "InvalidArgument")
     ELSE /\ call' = [call EXCEPT ![t].at = "terminated", ![t].guards = {call[t].h}]
          /\ UNCHANGED proc \/ (p \in Running /\ proc' = [proc EXCEPT ![p] = "1"])
          /\ UNCHANGED <<table, given, spent, reused>>

terminateReturns(t) == At(t, "terminate", "terminated") /\ Return(t, "none")

\* returns the exit code as a bool when the process has ended already
wait(t) ==
  /\ At(t, "wait", "called")
  /\ LET v == call[t].h
         code == ExitCode(v)
     IN CASE v = Null -> Throw(t, "InvalidArgument")
          [] v # Null /\ code = "failed" -> Throw(t, "SystemError")
          [] v # Null /\ code = STILL_ACTIVE -> Goto(t, "ask")
          [] OTHER -> Return(t, IF code # "0" THEN "true" ELSE "false")

\* Mutant: WAIT_TIMEOUT is not told from the end of the process.
TimeoutIgnored(t) == Goto(t, "signaled")

Timeout(t) == Throw(t, "Timeout")

\* WaitForSingleObject() takes what the value stands for now; a handle that
\* getProcessByPath() opened has no right to wait
WaitForSingleObject(t) ==
  \/ /\ At(t, "wait", "ask")
     /\ LET e == table[call[t].h] IN
        IF ~e.sync
        THEN Throw(t, "SystemError")
        ELSE /\ call' = [call EXCEPT ![t].at = "blocked", ![t].obj = e.obj]
             /\ UNCHANGED <<proc, table, given, spent, reused>>
  \/ At(t, "wait", "blocked") /\ call[t].obj \notin Running /\ Goto(t, "signaled")
  \/ At(t, "wait", "blocked") /\ Timeout(t) \* unless timeoutMs is negative

waitReturns(t) ==
  /\ At(t, "wait", "signaled")
  /\ LET code == ExitCode(call[t].h) IN
     Return(t, IF code = "failed" THEN "none" ELSE IF code = "0" THEN "true" ELSE "false")

isRunning(t) ==
  /\ At(t, "isRunning", "called")
  /\ LET v == call[t].h IN
     CASE v = Null -> Throw(t, "InvalidArgument")
       [] v # Null /\ ExitCode(v) = STILL_ACTIVE -> Goto(t, "confirm")
       [] OTHER -> Return(t, "false")

\* the second look, with a zero timeout, and the exit code once more
isRunningConfirms(t) ==
  \/ /\ At(t, "isRunning", "confirm")
     /\ LET e == table[call[t].h] IN
        IF e.sync /\ e.obj \notin Running THEN Goto(t, "update") ELSE Return(t, "true")
  \/ /\ At(t, "isRunning", "update")
     /\ LET code == ExitCode(call[t].h) IN
        Return(t, CASE code = "failed" -> "none"
                    [] code = STILL_ACTIVE -> "true"
                    [] OTHER -> "false")

----------------------------------------------------------------------------
(* getRunningProcesses(), getProcessByPath() *)

\* also when the snapshot is empty: its guard closes it
snapshot(t) ==
  /\ call[t].at = "idle"
  /\ \/ Throw(t, "ProcessOperationFailed")
     \/ \E op \in {"list", "find"}, v \in Unused :
          /\ table' = [table EXCEPT ![v] = Handle("snapshot", FALSE, t)]
          /\ call' = [call EXCEPT ![t] = [Idle EXCEPT !.op = op, !.at = "next", !.todo = Running,
                                                      !.guards = {v}]]
          /\ UNCHANGED <<proc, given, spent, reused>>

\* the next process of the snapshot; it may have ended, or refuse to be opened
OpenNext(t, at) ==
  \E p \in call[t].todo :
    \/ /\ call' = [call EXCEPT ![t].todo = @ \ {p}]
       /\ UNCHANGED <<proc, table, given, spent, reused>>
    \/ \E v \in Unused :
         /\ table' = [table EXCEPT ![v] = Handle(p, FALSE, t)]
         /\ call' = [call EXCEPT ![t].todo = @ \ {p}, ![t].at = at, ![t].obj = v]
         /\ UNCHANGED <<proc, given, spent, reused>>

\* Mutant: a process that was asked is not closed.
ForgetOpened(t) ==
  /\ call' = [call EXCEPT ![t].at = "next", ![t].obj = "none"]
  /\ UNCHANGED <<proc, table, given, spent, reused>>

CloseOpened(t) ==
  /\ table' = CloseGuards(table, {call[t].obj})
  /\ call' = [call EXCEPT ![t].at = "next", ![t].obj = "none"]
  /\ UNCHANGED <<proc, given, spent, reused>>

\* a process that cannot be asked keeps the defaults
getRunningProcesses(t) ==
  \/ At(t, "list", "next") /\ OpenNext(t, "asked")
  \/ At(t, "list", "asked") /\ CloseOpened(t)
  \/ At(t, "list", "next") /\ call[t].todo = {} /\ Return(t, "none")

\* a handle that matches is not closed: it is returned
KeepOpened(t) ==
  /\ table[call[t].obj].obj \in App
  /\ call' = [call EXCEPT ![t].at = "next", ![t].obj = "none", ![t].kept = @ \cup {call[t].obj}]
  /\ UNCHANGED <<proc, table, given, spent, reused>>

getProcessByPath(t) ==
  \/ At(t, "find", "next") /\ OpenNext(t, "compare")
  \/ At(t, "find", "compare") /\ KeepOpened(t)
  \/ /\ At(t, "find", "compare")
     /\ table[call[t].obj].obj \notin App
     /\ CloseOpened(t)
  \/ /\ At(t, "find", "next") /\ call[t].todo = {}
     /\ Leave(t, table, "none", call[t].kept)
     /\ UNCHANGED <<proc, reused>>

----------------------------------------------------------------------------
(* The machine *)

ProcessBegins == \E p \in Fresh : Begun(p) /\ UNCHANGED <<table, given, spent, reused, call>>

ProcessEnds == \E p \in Running, c \in ExitCodes :
  /\ proc' = [proc EXCEPT ![p] = c]
  /\ UNCHANGED <<table, given, spent, reused, call>>

Call(t) ==
  \/ /\ t \in Openers
     /\ start(t) \/ startWithCreateProcess(t) \/ startAsAdmin(t) \/ startWithShellExecute(t)
        \/ snapshot(t)
  \/ \E h \in Given \cup {Null} :
       Begin(t, "wait", h) \/ Begin(t, "isRunning", h) \/ beginTerminate(t, h)

Step(t) ==
  \/ closeThreadHandle(t) \/ terminate(t) \/ terminateReturns(t)
  \/ wait(t) \/ WaitForSingleObject(t) \/ waitReturns(t)
  \/ isRunning(t) \/ isRunningConfirms(t)
  \/ getRunningProcesses(t) \/ getProcessByPath(t)

\* A second terminate() closes whatever has the value by then; nothing can be
\* said after it, and the model stops.
Next ==
  /\ ~reused
  /\ \/ \E t \in Threads : Call(t) \/ Step(t)
     \/ ProcessBegins \/ ProcessEnds

Spec == Init /\ [][Next]_vars

----------------------------------------------------------------------------
(* Every handle a call opened is closed when it has returned or thrown,    *)
(* but for those it has handed out: snapshots, first threads, processes    *)
(* that do not match.                                                      *)
NoHandleLeft == \A v \in Values : table[v].by \in Threads => call[table[v].by].at # "idle"

\* The handle of a ProcessHandle stands for the process it was given out for
\* as long as nobody has passed it to terminate().
GivenIsOpen ==
  \A v \in Given \ spent : table[v].obj = given[v] /\ table[v].by = "caller"

\* When wait() returns, with either value, or isRunning() says no, that
\* process has ended.
ToldEnded ==
  \A t \in Threads :
    /\ call[t].at # "idle" /\ call'[t].at = "idle" /\ ~call[t].stale
    /\ \/ call[t].op = "wait" /\ call'[t].said \in {"true", "false"}
       \/ call[t].op = "isRunning" /\ call'[t].said = "false"
    => proc[given[call[t].h]] \in ExitCodes

\* What a caller relies on that never uses a handle again after terminate():
\* the handle is the process's, and the answers are about that process.
\* (process_launcher_windows.cpp:651-660, :443-537)
HandleNamesProcess == [](reused \/ GivenIsOpen) /\ [][reused \/ ToldEnded]_vars

=============================================================================
