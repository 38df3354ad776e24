------------------------ MODULE ProcessLauncherProofs ------------------------
(***************************************************************************)
(* What ProcessLauncher keeps for any number of threads, processes and     *)
(* handle values: whatever a call opens it closes or hands out, and a      *)
(* handle stands for the process it was given out for until somebody passes*)
(* it to terminate().                                                      *)
(*                                                                         *)
(* The argument is about who holds a value.  An open value belongs to one  *)
(* thread, which holds it in its call (Own), or to the caller.  A guard    *)
(* closes what its thread owns, or the value passed to terminate(), which  *)
(* no other thread can have passed as well; so it never closes a value the *)
(* caller still uses.                                                      *)
(***************************************************************************)
EXTENDS ProcessLauncher, TLAPS

\* The names of the model are no threads, processes or handle values.
Distinct ==
  /\ Pids \cap {"none", "thread", "snapshot", "never"} = {}
  /\ Threads \cap {"caller", "none"} = {}
  /\ Null \notin Values
  /\ Openers \subseteq Threads /\ App \subseteq Pids

-----------------------------------------------------------------------------
(* The inductive invariant *)

Objects == Pids \cup {"none", "thread", "snapshot"}
Handles == [obj : Objects, sync : BOOLEAN, by : Threads \cup {"caller", "none"}]
Calls == [op : {"none", "start", "terminate", "wait", "isRunning", "list", "find"},
          at : {"idle", "thread", "called", "terminated", "ask", "blocked", "signaled", "confirm",
                "update", "next", "asked", "compare"},
          h : Values \cup {Null}, obj : Values \cup Objects, todo : SUBSET Pids,
          kept : SUBSET Values, guards : SUBSET Values, said : {"none", "true", "false"},
          stale : BOOLEAN]

Types ==
  /\ proc \in [Pids -> ExitCodes \cup {"unborn", "running"}]
  /\ table \in [Values -> Handles]
  /\ given \in [Values -> Pids \cup {"never"}]
  /\ spent \subseteq Given /\ reused \in BOOLEAN
  /\ call \in [Threads -> Calls]

Born == {p \in Pids : proc[p] # "unborn"}

\* What a thread has opened and neither closed nor handed out.
Opened(t) == IF call[t].at \in {"thread", "asked", "compare"} THEN {call[t].obj} ELSE {}
Guarded(t) == IF call[t].op = "terminate" THEN {} ELSE call[t].guards
Own(t) == call[t].kept \cup Opened(t) \cup Guarded(t)

\* Which fields a call uses.
Shape(t) ==
  /\ call[t].at = "idle" => call[t].op = "none"
  /\ call[t].op \in {"none", "wait", "isRunning", "start"} => call[t].guards = {}
  /\ call[t].op \in {"none", "wait", "isRunning", "terminate", "list"} => call[t].kept = {}
  /\ call[t].op = "terminate" => call[t].guards \subseteq {call[t].h} \ {Null}
  /\ call[t].op = "start" <=> call[t].at = "thread"
  /\ call[t].op \in {"none", "wait", "isRunning", "terminate"} =>
       call[t].at \notin {"thread", "asked", "compare"}
  /\ call[t].op \in {"wait", "isRunning"} /\ call[t].at # "called" => call[t].h # Null

\* A value is held by the thread that has opened it, and stands for what was opened.
Mine(t) ==
  /\ \A v \in Own(t) : v \in Values /\ table[v].by = t
  /\ call[t].todo \subseteq Born
  /\ \A v \in call[t].kept : table[v].obj \in Born
  /\ \A v \in Guarded(t) : table[v].obj = "snapshot"
  /\ call[t].at = "thread" => table[call[t].obj].obj = "thread"
  /\ call[t].at \in {"asked", "compare"} =>
       table[call[t].obj].obj \in Born /\ call[t].obj \notin call[t].kept

\* What is passed to terminate() is passed by one thread only, and still open.
Spends(t) ==
  call[t].op = "terminate" /\ call[t].h # Null =>
    /\ call[t].h \in spent /\ table[call[t].h].by = "caller"
    /\ \A u \in Threads \ {t} : call[u].op = "terminate" => call[u].h # call[t].h

\* What wait() and isRunning() have learnt is about the process of the handle.
Knows(t) ==
  call[t].op \in {"wait", "isRunning"} /\ ~call[t].stale /\ call[t].h # Null =>
    /\ call[t].h \in Given \ spent
    /\ call[t].at = "blocked" => call[t].obj = given[call[t].h]
    /\ call[t].at \in {"signaled", "update"} => proc[given[call[t].h]] \in ExitCodes

GivenBorn == \A v \in Given : given[v] \in Born

Held == \A t \in Threads : \A v \in Values : table[v].by = t => v \in Own(t)

Safe ==
  /\ GivenIsOpen /\ GivenBorn
  /\ \A t \in Threads : Mine(t) /\ Spends(t) /\ Knows(t)

IInv ==
  /\ Types /\ Held /\ \A t \in Threads : Shape(t)
  /\ reused \/ Safe

-----------------------------------------------------------------------------
(* The three ways a step can change who holds what *)

\* Processes only go from unborn to running to ended.
Grows ==
  /\ proc' \in [Pids -> ExitCodes \cup {"unborn", "running"}]
  /\ Born \subseteq Born'
  /\ \A p \in Pids : proc[p] \in ExitCodes => proc'[p] = proc[p]

LEMMA NoGrowth == ASSUME Types, UNCHANGED proc PROVE Grows /\ Born' = Born
  BY DEF Types, Grows, Born

\* A call goes on: it opens the values opens and closes the values gone.
LEMMA CallKeeps ==
  ASSUME Distinct, IInv, ~reused, Grows, NEW t \in Threads, NEW r \in Calls,
         NEW opens \in SUBSET Values, NEW gone, gone \subseteq Own(t),
         table' \in [Values -> Handles],
         \A v \in opens : table[v].by = "none" /\ table'[v].by = t,
         \A v \in gone : table'[v] = Closed,
         \A v \in Values \ (opens \cup gone) : table'[v] = table[v],
         call' = [call EXCEPT ![t] = r], UNCHANGED <<given, spent, reused>>,
         r.op = "terminate" => call[t].op = "terminate" /\ r.h = call[t].h,
         Own(t)' = (Own(t) \cup opens) \ gone,
         Shape(t)', Mine(t)', Spends(t)', Knows(t)'
  PROVE  IInv'
<1> USE DEF Calls
<1>1. call' \in [Threads -> Calls] /\ call'[t] = r /\ \A u \in Threads \ {t} : call'[u] = call[u]
  BY DEF IInv, Types
<1>2. Types'
  BY <1>1 DEF IInv, Types, Grows, Given
<1>3. \A u \in Threads : Mine(u)
  BY DEF IInv, Safe
<1>4. Safe
  BY DEF IInv
<1>5. \A v \in Values : table[v].by = "caller" => table'[v] = table[v]
  BY <1>3 DEF Mine, Distinct
<1>6. \A u \in Threads \ {t} : Own(u)' = Own(u) /\ \A v \in Own(u) : table'[v] = table[v]
  <2>1. \A u \in Threads \ {t} : Own(u)' = Own(u)
    BY <1>1 DEF Own, Opened, Guarded
  <2>2. ASSUME NEW u \in Threads \ {t}, NEW v \in Own(u) PROVE table'[v] = table[v]
    <3>1. v \in Values /\ table[v].by = u
      BY <1>3 DEF Mine
    <3>2. v \notin gone /\ v \notin opens
      BY <1>3, <3>1 DEF Mine, Distinct
    <3> QED
      BY <3>1, <3>2
  <2> QED
    BY <2>1, <2>2
<1>7. Held'
  <2> SUFFICES ASSUME NEW u \in Threads, NEW v \in Values, table'[v].by = u PROVE v \in Own(u)'
    BY DEF Held
  <2>1. CASE v \in opens /\ v \notin gone
    BY <2>1
  <2>2. CASE v \in gone
    BY <2>2 DEF Closed, Distinct
  <2>3. CASE v \notin opens \cup gone
    <3>1. table'[v] = table[v] /\ v \in Own(u)
      BY <2>3 DEF IInv, Held
    <3> QED
      BY <3>1, <1>6, <2>3
  <2> QED
    BY <2>1, <2>2, <2>3
<1>8. GivenIsOpen' /\ GivenBorn'
  BY <1>4, <1>5 DEF Safe, GivenIsOpen, GivenBorn, Given, Grows
<1>9. ASSUME NEW u \in Threads \ {t} PROVE Shape(u)' /\ Mine(u)' /\ Spends(u)' /\ Knows(u)'
  <2>1. Shape(u) /\ Mine(u) /\ Spends(u) /\ Knows(u)
    BY <1>4 DEF Safe, IInv
  <2>2. Shape(u)'
    BY <1>1, <2>1 DEF Shape
  <2>3. Mine(u)'
    BY <1>1, <1>6, <2>1 DEF Mine, Own, Opened, Guarded, Grows
  <2>4. Spends(u)'
    BY <1>1, <1>5, <2>1 DEF Spends, IInv, Types, Given
  <2>5. Knows(u)'
    BY <1>1, <2>1 DEF Knows, Given, Grows, IInv, Types
  <2> QED
    BY <2>2, <2>3, <2>4, <2>5
<1> QED
  BY <1>2, <1>7, <1>8, <1>9 DEF IInv, Safe

\* A call ends: out is the caller's, everything else the thread has is closed.
LEMMA LeaveKeeps ==
  ASSUME Distinct, IInv, ~reused, Grows, NEW t \in Threads,
         NEW out \in SUBSET Values, NEW said \in {"none", "true", "false"},
         table' \in [Values -> Handles],
         \A v \in out : /\ table'[v].obj \in Born' /\ table'[v].by = "caller"
                        /\ v \in Own(t) \/ table[v].by = "none",
         \A v \in Values \ out :
           IF v \in Own(t) \cup call[t].guards THEN table'[v] = Closed ELSE table'[v] = table[v],
         call' = [call EXCEPT ![t] = [Idle EXCEPT !.said = said]],
         given' = [v \in Values |-> IF v \in out THEN table'[v].obj ELSE given[v]],
         spent' = spent \ out, UNCHANGED reused
  PROVE  IInv'
<1>1. /\ call' \in [Threads -> Calls]
      /\ call'[t] = [Idle EXCEPT !.said = said]
      /\ \A u \in Threads \ {t} : call'[u] = call[u]
  BY DEF IInv, Types, Calls, Idle, Objects
<1>2. Safe
  BY DEF IInv
<1>3. Types'
  BY <1>1 DEF IInv, Types, Grows, Given, Born, Distinct
<1>4. \A v \in Own(t) : v \in Values /\ table[v].by = t
  BY <1>2 DEF Safe, Mine
<1>5. \A v \in call[t].guards :
        v \in Own(t) \/ (call[t].op = "terminate" /\ v = call[t].h /\ v # Null /\ v \in spent)
  BY <1>2 DEF IInv, Safe, Shape, Spends, Own, Guarded
<1>6. \A v \in Given \ spent : v \in Values /\ v \notin out /\ v \notin Own(t) \cup call[t].guards
  BY <1>2, <1>4, <1>5 DEF Safe, GivenIsOpen, Given, Distinct
<1>7. \A v \in Given \ spent : table'[v] = table[v] /\ given'[v] = given[v]
  BY <1>6
<1>8. GivenIsOpen' /\ GivenBorn'
  <2>1. ASSUME NEW v \in Given' \ spent' PROVE table'[v].obj = given'[v] /\ table'[v].by = "caller"
    <3>1. CASE v \in out
      BY <3>1
    <3>2. CASE v \notin out
      <4>1. v \in Given \ spent
        BY <3>2, <2>1 DEF Given
      <4> QED
        BY <4>1, <1>2, <1>7 DEF Safe, GivenIsOpen
    <3> QED
      BY <3>1, <3>2
  <2>2. ASSUME NEW v \in Given' PROVE given'[v] \in Born'
    BY <1>2, <2>2 DEF Safe, GivenBorn, Given, Grows
  <2> QED
    BY <2>1, <2>2 DEF GivenIsOpen, GivenBorn
<1>9. \A u \in Threads \ {t} : Own(u)' = Own(u) /\ \A v \in Own(u) : table'[v] = table[v]
  <2>1. \A u \in Threads \ {t} : Own(u)' = Own(u)
    BY <1>1 DEF Own, Opened, Guarded
  <2>2. ASSUME NEW u \in Threads \ {t}, NEW v \in Own(u) PROVE table'[v] = table[v]
    <3>1. v \in Values /\ table[v].by = u
      BY <1>2 DEF Safe, Mine
    <3>2. v \notin out /\ v \notin Own(t)
      BY <1>4, <3>1 DEF Distinct
    <3>3. v \notin call[t].guards
      BY <1>2, <1>5, <3>1, <3>2 DEF Safe, Spends, Distinct
    <3> QED
      BY <3>1, <3>2, <3>3
  <2> QED
    BY <2>1, <2>2
<1>10. Held'
  <2> SUFFICES ASSUME NEW u \in Threads, NEW v \in Values, table'[v].by = u PROVE v \in Own(u)'
    BY DEF Held
  <2>1. v \notin out /\ table'[v] # Closed
    BY DEF Closed, Distinct
  <2>2. table'[v] = table[v] /\ v \notin Own(t)
    BY <2>1
  <2>3. v \in Own(u)
    BY <2>2 DEF IInv, Held
  <2> QED
    BY <2>2, <2>3, <1>9
<1>11. Shape(t)' /\ Mine(t)' /\ Spends(t)' /\ Knows(t)'
  BY <1>1 DEF Idle, Shape, Mine, Spends, Knows, Own, Opened, Guarded
<1>12. ASSUME NEW u \in Threads \ {t} PROVE Shape(u)' /\ Mine(u)' /\ Spends(u)' /\ Knows(u)'
  <2>1. Shape(u) /\ Mine(u) /\ Spends(u) /\ Knows(u)
    BY <1>2 DEF Safe, IInv
  <2>2. Shape(u)'
    BY <1>1, <2>1 DEF Shape
  <2>3. Mine(u)'
    BY <1>1, <1>9, <2>1 DEF Mine, Own, Opened, Guarded, Grows
  <2>4. Spends(u)'
    <3> SUFFICES ASSUME call[u].op = "terminate", call[u].h # Null
                 PROVE  /\ call[u].h \in spent' /\ table'[call[u].h].by = "caller"
                        /\ \A w \in Threads \ {u} : call'[w].op = "terminate" => call'[w].h # call[u].h
      BY <1>1 DEF Spends
    <3>1. /\ call[u].h \in spent /\ table[call[u].h].by = "caller" /\ call[u].h \in Values
          /\ \A w \in Threads \ {u} : call[w].op = "terminate" => call[w].h # call[u].h
      BY <2>1 DEF Spends, IInv, Types, Given
    <3>2. call[u].h \notin out /\ call[u].h \notin Own(t) \cup call[t].guards
      BY <3>1, <1>4, <1>5 DEF Distinct
    <3> QED
      BY <3>1, <3>2, <1>1 DEF Idle
  <2>5. Knows(u)'
    BY <1>1, <1>6, <1>7, <2>1 DEF Knows, Given, Grows, IInv, Types, Safe, GivenBorn, Born
  <2> QED
    BY <2>2, <2>3, <2>4, <2>5
<1> QED
  BY <1>3, <1>8, <1>10, <1>11, <1>12 DEF IInv, Safe

\* Only processes change.
LEMMA ProcessesKeep ==
  ASSUME Distinct, IInv, ~reused, Grows, UNCHANGED <<table, given, spent, reused, call>>
  PROVE  IInv'
<1>1. Safe
  BY DEF IInv
<1>2. Types' /\ Held'
  BY DEF IInv, Types, Held, Grows, Given, Own, Opened, Guarded
<1>3. GivenIsOpen' /\ GivenBorn'
  BY <1>1 DEF Safe, GivenIsOpen, GivenBorn, Given, Grows
<1>4. ASSUME NEW t \in Threads PROVE Shape(t)' /\ Mine(t)' /\ Spends(t)' /\ Knows(t)'
  <2>1. Shape(t) /\ Mine(t) /\ Spends(t) /\ Knows(t)
    BY <1>1 DEF Safe, IInv
  <2>2. Shape(t)' /\ Spends(t)'
    BY <2>1 DEF Shape, Spends
  <2>3. Mine(t)'
    BY <2>1 DEF Mine, Own, Opened, Guarded, Grows
  <2>4. Knows(t)'
    BY <2>1 DEF Knows, Given, Grows, IInv, Types
  <2> QED
    BY <2>2, <2>3, <2>4
<1> QED
  BY <1>2, <1>3, <1>4 DEF IInv, Safe

-----------------------------------------------------------------------------
(* The steps of terminate(), wait() and isRunning() *)

\* A call returns that has nothing but guards.
LEMMA ReturnKeeps ==
  ASSUME Distinct, IInv, ~reused, NEW t \in Threads, NEW said \in {"none", "true", "false"},
         Return(t, said), call[t].op \in {"none", "wait", "isRunning", "terminate", "list"},
         call[t].at \notin {"asked", "compare"}
  PROVE  IInv'
<1>1. Shape(t) /\ Types /\ Grows
  BY NoGrowth DEF IInv, Safe, Return
<1>2. call[t] \in Calls
  BY <1>1 DEF Types
<1>3. call[t].kept = {} /\ Opened(t) = {} /\ Own(t) \subseteq call[t].guards
  BY <1>1, <1>2 DEF Shape, Opened, Own, Guarded, Calls
<1>4. \A v \in Values : table'[v] = IF v \in call[t].guards THEN Closed ELSE table[v]
  BY DEF Return, Leave, CloseGuards
<1>5. table' \in [Values -> Handles]
  BY <1>1 DEF Return, Leave, CloseGuards, Types, Handles, Closed, Objects
<1>6. /\ call' = [call EXCEPT ![t] = [Idle EXCEPT !.said = said]]
      /\ given' = [v \in Values |-> IF v \in {} THEN table'[v].obj ELSE given[v]]
      /\ spent' = spent \ {} /\ UNCHANGED reused /\ {} \in SUBSET Values
  BY DEF Return, Leave
<1>7. \A v \in Values \ {} :
        IF v \in Own(t) \cup call[t].guards THEN table'[v] = Closed ELSE table'[v] = table[v]
  BY <1>3, <1>4
<1> QED
  BY <1>1, <1>5, <1>6, <1>7, LeaveKeeps

\* A call that holds nothing new goes on.
LEMMA GoesOn ==
  ASSUME Distinct, IInv, ~reused, NEW t \in Threads, NEW r \in Calls,
         call' = [call EXCEPT ![t] = r], UNCHANGED <<proc, table, given, spent, reused>>,
         r.op = "terminate" => call[t].op = "terminate" /\ r.h = call[t].h,
         Own(t)' = Own(t), Shape(t)', Mine(t)', Spends(t)', Knows(t)'
  PROVE  IInv'
<1>1. Grows /\ table' \in [Values -> Handles]
  BY NoGrowth DEF IInv, Types
<1>2. PICK none \in SUBSET Values : none = {}
  OBVIOUS
<1>3. /\ none \subseteq Own(t) /\ Own(t)' = (Own(t) \cup none) \ none
      /\ \A v \in none : table[v].by = "none" /\ table'[v].by = t
      /\ \A v \in none : table'[v] = Closed
      /\ \A v \in Values \ (none \cup none) : table'[v] = table[v]
  BY <1>2
<1> QED
  BY <1>1, <1>3, CallKeeps

LEMMA GotoKeeps ==
  ASSUME Distinct, IInv, ~reused, NEW t \in Threads, call[t].op \in {"wait", "isRunning"},
         NEW at \in {"ask", "signaled", "confirm", "update"}, Goto(t, at),
         call[t].h # Null,
         at \in {"signaled", "update"} /\ ~call[t].stale /\ call[t].h # Null =>
           proc[given[call[t].h]] \in ExitCodes
  PROVE  IInv'
<1>1. Types /\ Shape(t) /\ Mine(t) /\ Spends(t) /\ Knows(t) /\ call[t] \in Calls
  BY DEF IInv, Safe, Types
<1>2. PICK r \in Calls : r = [call[t] EXCEPT !.at = at]
  BY <1>1 DEF Calls
<1>3. /\ call' = [call EXCEPT ![t] = r] /\ call'[t] = r
      /\ UNCHANGED <<proc, table, given, spent, reused>>
  BY <1>1, <1>2 DEF Goto, Types
<1>4. /\ r.at = at /\ r.op = call[t].op /\ r.h = call[t].h /\ r.stale = call[t].stale
      /\ r.kept = call[t].kept /\ r.guards = call[t].guards /\ r.todo = call[t].todo
  BY <1>1, <1>2 DEF Calls
<1>5. call[t].at \notin {"thread", "asked", "compare"} /\ Own(t)' = Own(t)
  BY <1>1, <1>3, <1>4 DEF Shape, Own, Opened, Guarded
<1>6. Shape(t)' /\ Spends(t)'
  BY <1>1, <1>3, <1>4 DEF Shape, Spends
<1>7. Mine(t)'
  BY <1>1, <1>3, <1>4, <1>5 DEF Mine, Guarded, Born
<1>8. Knows(t)'
  BY <1>1, <1>3, <1>4 DEF Knows, Given
<1> QED
  BY <1>2, <1>3, <1>4, <1>5, <1>6, <1>7, <1>8, GoesOn

LEMMA BeginKeeps ==
  ASSUME Distinct, IInv, ~reused, NEW t \in Threads, NEW op \in {"wait", "isRunning"},
         NEW h \in Given \cup {Null}, Begin(t, op, h)
  PROVE  IInv'
<1>1. Types /\ Shape(t) /\ call[t] \in Calls /\ call[t].at = "idle"
  BY DEF IInv, Safe, Types, Begin
<1>2. PICK r \in Calls :
        r = [Idle EXCEPT !.op = op, !.at = "called", !.h = h, !.stale = h \in spent]
  <2>1. PICK b \in BOOLEAN : b = (h \in spent)
    <3>1. CASE h \in spent
      BY <3>1, TRUE = (h \in spent)
    <3>2. CASE h \notin spent
      BY <3>2, FALSE = (h \in spent)
    <3> QED
      BY <3>1, <3>2
  <2>2. h \in Values \cup {Null}
    BY DEF Given
  <2>3. [Idle EXCEPT !.op = op, !.at = "called", !.h = h, !.stale = b] \in Calls
    BY <2>2 DEF Calls, Idle, Objects
  <2> QED
    BY <2>1, <2>3
<1>3. /\ call' = [call EXCEPT ![t] = r] /\ call'[t] = r
      /\ UNCHANGED <<proc, table, given, spent, reused>>
  BY <1>1, <1>2 DEF Begin, Types
<1>4. /\ r.at = "called" /\ r.op = op /\ r.h = h /\ r.stale = (h \in spent)
      /\ r.kept = {} /\ r.guards = {} /\ r.todo = {}
  BY <1>2 DEF Idle
<1>5. Own(t)' = Own(t)
  BY <1>1, <1>3, <1>4 DEF Shape, Own, Opened, Guarded
<1>6. Shape(t)' /\ Spends(t)' /\ Mine(t)' /\ Knows(t)'
  BY <1>3, <1>4 DEF Shape, Spends, Mine, Own, Opened, Guarded, Knows, Given
<1> QED
  BY <1>2, <1>3, <1>4, <1>5, <1>6, GoesOn

\* The value is spent from now on, and what other threads know of it is stale.
LEMMA BeginTerminateKeeps ==
  ASSUME Distinct, IInv, ~reused, NEW t \in Threads, NEW h \in Given \cup {Null},
         beginTerminate(t, h)
  PROVE  IInv'
<1>1. Types /\ Held /\ Safe /\ Shape(t) /\ call[t].at = "idle"
  BY DEF IInv, Safe, beginTerminate
<1>2. /\ call'[t] = [Idle EXCEPT !.op = "terminate", !.at = "called", !.h = h, !.stale = TRUE]
      /\ \A u \in Threads \ {t} :
           call'[u] = [call[u] EXCEPT !.stale = @ \/ h \in {call[u].h} \ {Null}]
      /\ spent' = spent \cup ({h} \ {Null}) /\ reused' = (reused \/ h \in spent)
      /\ UNCHANGED <<proc, table, given>> /\ DOMAIN call' = Threads
  BY DEF beginTerminate
<1>3. /\ call'[t].op = "terminate" /\ call'[t].at = "called" /\ call'[t].h = h
      /\ call'[t].kept = {} /\ call'[t].guards = {} /\ call'[t].todo = {}
  BY <1>2 DEF Idle
<1>4. ASSUME NEW u \in Threads \ {t}
      PROVE  /\ call'[u] \in Calls
             /\ call'[u].op = call[u].op /\ call'[u].at = call[u].at /\ call'[u].h = call[u].h
             /\ call'[u].obj = call[u].obj /\ call'[u].todo = call[u].todo
             /\ call'[u].kept = call[u].kept /\ call'[u].guards = call[u].guards
             /\ ~call'[u].stale => ~call[u].stale /\ (call[u].h = Null \/ call[u].h # h)
  <2>1. PICK b \in BOOLEAN : b = (call[u].stale \/ h \in {call[u].h} \ {Null})
    OBVIOUS
  <2>2. call[u] \in Calls
    BY <1>1 DEF Types
  <2>3. call'[u] = [call[u] EXCEPT !.stale = b]
    BY <1>2, <2>1, <2>2
  <2>4. b \/ (~call[u].stale /\ (call[u].h = Null \/ call[u].h # h))
    BY <2>1
  <2> QED
    BY <2>2, <2>3, <2>4 DEF Calls
<1>5. Types'
  <2>1. call'[t] \in Calls
    BY <1>2 DEF Calls, Idle, Objects, Given
  <2>2. call' \in [Threads -> Calls]
    BY <1>2, <1>4, <2>1 DEF beginTerminate
  <2> QED
    BY <1>1, <1>2, <2>2 DEF Types, Given
<1>6. \A u \in Threads : Own(u)' = Own(u)
  BY <1>1, <1>3, <1>4 DEF Own, Opened, Guarded, Shape
<1>7. Held'
  BY <1>1, <1>2, <1>6 DEF Held
<1>8. ASSUME NEW u \in Threads PROVE Shape(u)'
  <2>1. CASE u = t
    BY <1>3, <2>1 DEF Shape
  <2>2. CASE u # t
    BY <1>4, <2>2 DEF Shape, IInv
  <2> QED
    BY <2>1, <2>2
<1>9. ASSUME ~reused' PROVE Safe'
  <2>1. h \notin spent
    BY <1>2, <1>9
  <2>2. GivenIsOpen' /\ GivenBorn'
    BY <1>1, <1>2 DEF Safe, GivenIsOpen, GivenBorn, Given, Born
  <2>3. Mine(t)' /\ Knows(t)'
    BY <1>3 DEF Mine, Own, Opened, Guarded, Knows
  <2>4. Spends(t)'
    <3> SUFFICES ASSUME h # Null
                 PROVE  /\ h \in spent' /\ table'[h].by = "caller"
                        /\ \A u \in Threads \ {t} : call'[u].op = "terminate" => call'[u].h # h
      BY <1>3 DEF Spends
    <3>1. h \in spent' /\ table'[h].by = "caller"
      BY <1>1, <1>2, <2>1 DEF Safe, GivenIsOpen
    <3>2. ASSUME NEW u \in Threads \ {t}, call'[u].op = "terminate" PROVE call'[u].h # h
      BY <1>1, <1>4, <2>1, <3>2 DEF Safe, Spends
    <3> QED
      BY <3>1, <3>2
  <2>5. ASSUME NEW u \in Threads \ {t} PROVE Mine(u)' /\ Spends(u)' /\ Knows(u)'
    <3>1. Mine(u) /\ Spends(u) /\ Knows(u)
      BY <1>1 DEF Safe
    <3>2. Mine(u)'
      BY <1>2, <1>4, <1>6, <3>1 DEF Mine, Guarded, Born
    <3>3. Spends(u)'
      <4>1. CASE call[u].op = "terminate" /\ call[u].h # Null
        <5>1. /\ call[u].h \in spent /\ table[call[u].h].by = "caller"
              /\ \A w \in Threads \ {u} : call[w].op = "terminate" => call[w].h # call[u].h
          BY <3>1, <4>1 DEF Spends
        <5>2. \A w \in Threads \ {u, t} : call'[w].op = "terminate" => call'[w].h # call[u].h
          BY <1>4, <5>1
        <5>3. call'[t].h # call[u].h
          BY <1>3, <2>1, <5>1
        <5> QED
          BY <1>2, <1>4, <5>1, <5>2, <5>3, ZenonT(60) DEF Spends
      <4>2. CASE ~(call[u].op = "terminate" /\ call[u].h # Null)
        BY <1>4, <4>2 DEF Spends
      <4> QED
        BY <4>1, <4>2
    <3>4. Knows(u)'
      BY <1>2, <1>4, <3>1 DEF Knows, Given
    <3> QED
      BY <3>2, <3>3, <3>4
  <2> QED
    BY <2>2, <2>3, <2>4, <2>5 DEF Safe
<1> QED
  BY <1>5, <1>7, <1>8, <1>9 DEF IInv

LEMMA TerminateKeeps ==
  ASSUME Distinct, IInv, ~reused, NEW t \in Threads, terminate(t) \/ terminateReturns(t)
  PROVE  IInv'
<1>1. Types /\ Shape(t) /\ Mine(t) /\ Spends(t) /\ call[t] \in Calls /\ call[t].op = "terminate"
  BY DEF IInv, Safe, Types, terminate, terminateReturns, At
<1>2. CASE terminate(t) /\ call[t].h # Null
  <2>1. PICK r \in Calls : r = [call[t] EXCEPT !.at = "terminated", !.guards = {call[t].h}]
    BY <1>1, <1>2 DEF Calls
  <2>2. /\ call' = [call EXCEPT ![t] = r] /\ call'[t] = r
        /\ UNCHANGED <<table, given, spent, reused>>
    BY <1>1, <1>2, <2>1 DEF terminate, Types
  <2>3. /\ r.at = "terminated" /\ r.op = "terminate" /\ r.h = call[t].h /\ r.kept = call[t].kept
        /\ r.guards = {call[t].h} /\ r.todo = call[t].todo
    BY <1>1, <2>1 DEF Calls
  <2>4. Grows
    <3>1. CASE UNCHANGED proc
      BY <1>1, <3>1, NoGrowth
    <3>2. ASSUME NEW p \in Running, proc' = [proc EXCEPT ![p] = "1"] PROVE Grows
      BY <1>1, <3>2 DEF Types, Grows, Born, Running, ExitCodes, STILL_ACTIVE
    <3> QED
      BY <1>2, <3>1, <3>2 DEF terminate
  <2>5. Own(t)' = Own(t) /\ Own(t) = {}
    BY <1>1, <2>2, <2>3 DEF Own, Opened, Guarded, Shape
  <2>6. Shape(t)' /\ Mine(t)' /\ Spends(t)' /\ Knows(t)'
    <3>1. Shape(t)' /\ Knows(t)'
      BY <1>1, <1>2, <2>2, <2>3 DEF Shape, Knows
    <3>2. Mine(t)'
      BY <1>1, <2>2, <2>3, <2>4, <2>5 DEF Mine, Guarded, Shape, Grows
    <3>3. Spends(t)'
      BY <1>1, <2>2, <2>3 DEF Spends, Types
    <3> QED
      BY <3>1, <3>2, <3>3
  <2>7. PICK none \in SUBSET Values : none = {}
    OBVIOUS
  <2>8. /\ none \subseteq Own(t) /\ Own(t)' = (Own(t) \cup none) \ none
        /\ \A v \in none : table[v].by = "none" /\ table'[v].by = t
        /\ \A v \in none : table'[v] = Closed
        /\ \A v \in Values \ (none \cup none) : table'[v] = table[v]
        /\ table' \in [Values -> Handles]
    BY <1>1, <2>2, <2>5, <2>7 DEF Types
  <2> QED
    BY <1>1, <2>1, <2>2, <2>3, <2>4, <2>6, <2>8, CallKeeps
<1>3. CASE ~(terminate(t) /\ call[t].h # Null)
  <2>1. Return(t, "none")
    BY <1>3 DEF terminate, terminateReturns, Throw
  <2>2. call[t].at \notin {"asked", "compare"}
    BY <1>1 DEF Shape
  <2> QED
    BY <1>1, <2>1, <2>2, ReturnKeeps
<1> QED
  BY <1>2, <1>3

LEMMA AnswersKeep ==
  ASSUME Distinct, IInv, ~reused, NEW t \in Threads,
         wait(t) \/ waitReturns(t) \/ isRunning(t) \/ isRunningConfirms(t)
  PROVE  IInv'
<1>1. Types /\ Safe /\ Shape(t) /\ Knows(t) /\ call[t].op \in {"wait", "isRunning"}
      /\ call[t].at \notin {"asked", "compare"}
  BY DEF IInv, Safe, wait, waitReturns, isRunning, isRunningConfirms, At
<1>2. ASSUME NEW said \in {"none", "true", "false"}, Return(t, said) PROVE IInv'
  BY <1>1, <1>2, ReturnKeeps
<1>3. ASSUME NEW at \in {"ask", "confirm"}, Goto(t, at), call[t].h # Null
      PROVE  IInv'
  BY <1>1, <1>3, GotoKeeps
<1>4. CASE wait(t)
  <2>1. \/ \E said \in {"none", "true", "false"} : Return(t, said)
        \/ Goto(t, "ask") /\ call[t].h # Null
    BY <1>4 DEF wait, Throw
  <2> QED
    BY <2>1, <1>2, <1>3
<1>5. CASE waitReturns(t)
  <2>1. \E said \in {"none", "true", "false"} : Return(t, said)
    BY <1>5 DEF waitReturns
  <2> QED
    BY <2>1, <1>2
<1>6. CASE isRunning(t)
  <2>1. \/ \E said \in {"none", "true", "false"} : Return(t, said)
        \/ Goto(t, "confirm") /\ call[t].h # Null
    BY <1>6 DEF isRunning, Throw
  <2> QED
    BY <2>1, <1>2, <1>3
<1>7. CASE isRunningConfirms(t)
  <2>1. CASE Goto(t, "update") /\ table[call[t].h].obj \notin Running
             /\ table[call[t].h].sync /\ call[t].at = "confirm"
    <3>1. ASSUME ~call[t].stale, call[t].h # Null PROVE proc[given[call[t].h]] \in ExitCodes
      <4>1. call[t].h \in Given \ spent
        BY <1>1, <3>1 DEF Knows
      <4>2. given[call[t].h] = table[call[t].h].obj /\ given[call[t].h] \in Born
        BY <1>1, <4>1 DEF Safe, GivenIsOpen, GivenBorn
      <4> QED
        BY <1>1, <2>1, <4>2 DEF Types, Born, Running
    <3> QED
      BY <1>1, <2>1, <3>1, GotoKeeps DEF Shape
  <2>2. CASE \E said \in {"none", "true", "false"} : Return(t, said)
    BY <2>2, <1>2
  <2>3. \/ Goto(t, "update") /\ table[call[t].h].obj \notin Running
             /\ table[call[t].h].sync /\ call[t].at = "confirm"
        \/ \E said \in {"none", "true", "false"} : Return(t, said)
    BY <1>7 DEF isRunningConfirms, At
  <2> QED
    BY <2>1, <2>2, <2>3
<1> QED
  BY <1>4, <1>5, <1>6, <1>7

LEMMA WaitForSingleObjectKeeps ==
  ASSUME Distinct, IInv, ~reused, NEW t \in Threads, WaitForSingleObject(t)
  PROVE  IInv'
<1>1. /\ Types /\ Safe /\ Shape(t) /\ Mine(t) /\ Spends(t) /\ Knows(t) /\ call[t] \in Calls
      /\ call[t].op = "wait" /\ call[t].at \in {"ask", "blocked"}
  BY DEF IInv, Safe, Types, WaitForSingleObject, At
<1>2. CASE \E code \in {"SystemError", "Timeout"} : Throw(t, code)
  BY <1>1, <1>2, ReturnKeeps DEF Throw
<1>3. CASE call[t].at = "blocked" /\ call[t].obj \notin Running /\ Goto(t, "signaled")
  <2>1. ASSUME ~call[t].stale, call[t].h # Null PROVE proc[given[call[t].h]] \in ExitCodes
    <3>1. call[t].h \in Given /\ call[t].obj = given[call[t].h]
      BY <1>1, <1>3, <2>1 DEF Knows
    <3>2. given[call[t].h] \in Born
      BY <1>1, <3>1 DEF Safe, GivenBorn
    <3> QED
      BY <1>1, <1>3, <3>1, <3>2 DEF Types, Born, Running
  <2> QED
    BY <1>1, <1>3, <2>1, GotoKeeps DEF Shape
<1>4. CASE /\ call[t].at = "ask"
           /\ call' = [call EXCEPT ![t].at = "blocked", ![t].obj = table[call[t].h].obj]
           /\ table[call[t].h].sync
           /\ UNCHANGED <<proc, table, given, spent, reused>>
  <2>1. call[t].h \in Values /\ table[call[t].h] \in Handles
    BY <1>1, <1>4 DEF Types, Shape, Calls
  <2>2. PICK r \in Calls : r = [call[t] EXCEPT !.at = "blocked", !.obj = table[call[t].h].obj]
    BY <1>1, <2>1 DEF Calls, Handles
  <2>3. /\ call' = [call EXCEPT ![t] = r] /\ call'[t] = r
    BY <1>1, <1>4, <2>2 DEF Types
  <2>4. /\ r.at = "blocked" /\ r.op = "wait" /\ r.h = call[t].h /\ r.stale = call[t].stale
        /\ r.kept = call[t].kept /\ r.guards = call[t].guards /\ r.todo = call[t].todo
        /\ r.obj = table[call[t].h].obj
    BY <1>1, <2>2 DEF Calls
  <2>5. Own(t)' = Own(t)
    BY <1>1, <2>3, <2>4 DEF Own, Opened, Guarded
  <2>6. Shape(t)' /\ Spends(t)'
    BY <1>1, <2>3, <2>4 DEF Shape, Spends
  <2>7. Mine(t)'
    BY <1>1, <1>4, <2>3, <2>4, <2>5, ZenonT(60) DEF Mine, Guarded, Born
  <2>8. Knows(t)'
    BY <1>1, <1>4, <2>3, <2>4 DEF Knows, Given, Safe, GivenIsOpen
  <2> QED
    BY <1>4, <2>2, <2>3, <2>4, <2>5, <2>6, <2>7, <2>8, GoesOn
<1> QED
  BY <1>2, <1>3, <1>4 DEF WaitForSingleObject, At, Timeout

-----------------------------------------------------------------------------
(* The steps that open and hand out *)

LEMMA BegunGrows ==
  ASSUME Types, NEW p \in Fresh, Begun(p) PROVE Grows /\ p \in Born'
  BY DEF Types, Fresh, Begun, Grows, Born, ExitCodes, STILL_ACTIVE

LEMMA IdleOwnsNothing ==
  ASSUME IInv, ~reused, NEW t \in Threads, call[t].at = "idle"
  PROVE  call[t].op = "none" /\ call[t].guards = {} /\ Own(t) = {}
<1>1. Shape(t)
  BY DEF IInv, Safe
<1> QED
  BY <1>1 DEF Shape, Own, Opened, Guarded

\* A call of an idle thread that hands out at most one new handle and returns.
LEMMA HandOutKeeps ==
  ASSUME Distinct, IInv, ~reused, NEW t \in Threads, call[t].at = "idle", NEW p \in Fresh, ShellExecute(t, p)
  PROVE  IInv'
<1>1. Types /\ Grows /\ p \in Born' /\ p \in Pids
  BY BegunGrows DEF IInv, ShellExecute, Fresh
<1>2. call[t].guards = {} /\ Own(t) = {}
  BY IdleOwnsNothing
<1>3. CASE Leave(t, table, "none", {})
  <2>1. PICK none \in SUBSET Values : none = {}
    OBVIOUS
  <2>2. table' = table /\ table' \in [Values -> Handles]
    BY <1>1, <1>2, <1>3 DEF Leave, CloseGuards, Types
  <2>3. /\ call' = [call EXCEPT ![t] = [Idle EXCEPT !.said = "none"]]
        /\ given' = [v \in Values |-> IF v \in none THEN table'[v].obj ELSE given[v]]
        /\ spent' = spent \ none /\ UNCHANGED reused
    BY <1>3, <2>1 DEF Leave, ShellExecute
  <2> QED
    BY <1>1, <1>2, <2>1, <2>2, <2>3, LeaveKeeps
<1>4. ASSUME NEW v \in Unused, Leave(t, [table EXCEPT ![v] = Handle(p, TRUE, t)], "none", {v})
      PROVE  IInv'
  <2>1. v \in Values /\ table[v].by = "none"
    BY DEF Unused, Closed
  <2>2. PICK out \in SUBSET Values : out = {v}
    BY <2>1
  <2>3. /\ \A u \in Values \ out : table'[u] = table[u]
        /\ table'[v] = Handle(p, TRUE, "caller")
        /\ DOMAIN table' = Values
    BY <1>1, <1>2, <1>4, <2>1, <2>2 DEF Leave, CloseGuards, Types, Handle
  <2>4. Handle(p, TRUE, "caller") \in Handles
    BY <1>1 DEF Handle, Handles, Objects
  <2>5. table' \in [Values -> Handles]
    BY <1>1, <1>4, <2>2, <2>3, <2>4 DEF Leave, CloseGuards, Types
  <2>6. /\ call' = [call EXCEPT ![t] = [Idle EXCEPT !.said = "none"]]
        /\ given' = [u \in Values |-> IF u \in out THEN table'[u].obj ELSE given[u]]
        /\ spent' = spent \ out /\ UNCHANGED reused
    <3>1. [table EXCEPT ![v] = Handle(p, TRUE, t)][v].obj = p /\ table'[v].obj = p
      BY <1>1, <2>1, <2>3 DEF Handle, Types
    <3>2. \A u \in Values : (IF u \in {v} THEN [table EXCEPT ![v] = Handle(p, TRUE, t)][u].obj ELSE given[u])
                            = (IF u \in out THEN table'[u].obj ELSE given[u])
      BY <2>2, <3>1
    <3>3. given' = [u \in Values |-> IF u \in out THEN table'[u].obj ELSE given[u]]
      BY <1>4, <3>2 DEF Leave
    <3> QED
      BY <1>4, <2>2, <3>3 DEF Leave, ShellExecute
  <2>7. \A u \in out : /\ table'[u].obj \in Born' /\ table'[u].by = "caller"
                       /\ u \in Own(t) \/ table[u].by = "none"
    BY <1>1, <2>1, <2>2, <2>3 DEF Handle
  <2> QED
    BY <1>1, <1>2, <2>3, <2>5, <2>6, <2>7, LeaveKeeps
<1> QED
  BY <1>3, <1>4 DEF ShellExecute

LEMMA ThrowsKeep ==
  ASSUME Distinct, IInv, ~reused, NEW t \in Threads, call[t].at = "idle", NEW code, Throw(t, code)
  PROVE  IInv'
  BY IdleOwnsNothing, ReturnKeeps DEF Throw

\* CreateProcessW opens two handles.
LEMMA CreateProcessKeeps ==
  ASSUME Distinct, IInv, ~reused, NEW t \in Threads, startWithCreateProcess(t)
  PROVE  IInv'
<1>1. CASE Throw(t, "ProcessStartFailed")
  BY <1>1, ThrowsKeep DEF startWithCreateProcess
<1>2. ASSUME NEW p \in Fresh \cap App, NEW v \in Unused, NEW w \in Unused, v # w, Begun(p),
             table' = [table EXCEPT ![v] = Handle(p, TRUE, t), ![w] = Handle("thread", TRUE, t)],
             call' = [call EXCEPT ![t] = [Idle EXCEPT !.op = "start", !.at = "thread", !.obj = w,
                                                      !.kept = {v}]],
             UNCHANGED <<given, spent, reused>>, call[t].at = "idle"
      PROVE  IInv'
  <2>1. Types /\ Grows /\ p \in Born' /\ p \in Pids
    BY <1>2, BegunGrows DEF IInv, Fresh
  <2>2. Own(t) = {}
    BY <1>2, IdleOwnsNothing
  <2>3. v \in Values /\ w \in Values /\ table[v].by = "none" /\ table[w].by = "none"
    BY DEF Unused, Closed
  <2>4. PICK r \in Calls : r = [Idle EXCEPT !.op = "start", !.at = "thread", !.obj = w, !.kept = {v}]
    BY <2>3 DEF Calls, Idle, Objects
  <2>5. call' = [call EXCEPT ![t] = r] /\ call'[t] = r
    BY <1>2, <2>1, <2>4 DEF Types
  <2>6. /\ r.at = "thread" /\ r.op = "start" /\ r.h = Null /\ r.kept = {v} /\ r.guards = {}
        /\ r.todo = {} /\ r.obj = w
    BY <2>4 DEF Idle
  <2>7. PICK opens \in SUBSET Values, gone \in SUBSET Values : opens = {v, w} /\ gone = {}
    BY <2>3
  <2>8. Handle(p, TRUE, t) \in Handles /\ Handle("thread", TRUE, t) \in Handles
    BY <2>1 DEF Handle, Handles, Objects
  <2>9. /\ table' \in [Values -> Handles]
        /\ table'[v] = Handle(p, TRUE, t) /\ table'[w] = Handle("thread", TRUE, t)
        /\ \A u \in Values \ {v, w} : table'[u] = table[u]
    BY <1>2, <2>1, <2>3, <2>8 DEF Types
  <2>10. Own(t)' = {v, w}
    BY <2>5, <2>6 DEF Own, Opened, Guarded
  <2>11. Shape(t)' /\ Spends(t)' /\ Knows(t)'
    BY <2>5, <2>6 DEF Shape, Spends, Knows
  <2>12. Mine(t)'
    BY <2>1, <2>3, <2>5, <2>6, <2>9, <2>10 DEF Mine, Guarded, Handle
  <2>13. /\ gone \subseteq Own(t) /\ Own(t)' = (Own(t) \cup opens) \ gone
         /\ \A u \in opens : table[u].by = "none" /\ table'[u].by = t
         /\ \A u \in gone : table'[u] = Closed
         /\ \A u \in Values \ (opens \cup gone) : table'[u] = table[u]
    BY <2>2, <2>3, <2>7, <2>9, <2>10 DEF Handle
  <2> QED
    BY <1>2, <2>1, <2>4, <2>5, <2>6, <2>9, <2>11, <2>12, <2>13, CallKeeps
<1> QED
  BY <1>1, <1>2 DEF startWithCreateProcess

LEMMA closeThreadHandleKeeps ==
  ASSUME Distinct, IInv, ~reused, NEW t \in Threads, closeThreadHandle(t)
  PROVE  IInv'
<1>1. /\ Types /\ Grows /\ Born' = Born /\ Shape(t) /\ Mine(t) /\ call[t] \in Calls
      /\ call[t].op = "start" /\ call[t].at = "thread"
  BY NoGrowth DEF IInv, Safe, Types, closeThreadHandle, At
<1>2. call[t].guards = {} /\ Own(t) = call[t].kept \cup {call[t].obj}
  BY <1>1 DEF Shape, Own, Opened, Guarded
<1>3. call[t].obj \notin call[t].kept
  BY <1>1 DEF Mine, Born, Distinct
<1>4. PICK out \in SUBSET Values : out = call[t].kept
  BY <1>1 DEF Calls
<1>5. Leave(t, CloseGuards(table, {call[t].obj}), "none", out) /\ UNCHANGED reused
  BY <1>4 DEF closeThreadHandle
<1>6. /\ \A v \in out : v \in Own(t) /\ table[v].obj \in Born
      /\ \A v \in out : table'[v] = [table[v] EXCEPT !.by = "caller"]
      /\ \A v \in Values \ out :
           IF v \in Own(t) \cup call[t].guards THEN table'[v] = Closed ELSE table'[v] = table[v]
  <2>1. \A v \in Values :
          table'[v] = IF v \in out THEN [table[v] EXCEPT !.by = "caller"]
                      ELSE IF v = call[t].obj THEN Closed ELSE table[v]
    BY <1>2, <1>3, <1>4, <1>5 DEF Leave, CloseGuards
  <2>2. \A v \in out : v \in Own(t) /\ table[v].obj \in Born
    BY <1>1, <1>2, <1>4 DEF Mine
  <2>3. \A v \in out : v \in Values
    OBVIOUS
  <2>4. \A v \in out : table'[v] = [table[v] EXCEPT !.by = "caller"]
    BY <2>1, <2>3
  <2>5. \A v \in Values \ out :
          IF v \in Own(t) \cup call[t].guards THEN table'[v] = Closed ELSE table'[v] = table[v]
    BY <1>2, <1>4, <2>1
  <2> QED
    BY <2>2, <2>4, <2>5
<1>7. table' \in [Values -> Handles]
  BY <1>1, <1>5, ZenonT(60) DEF Leave, CloseGuards, Types, Handles, Closed, Objects
<1>8. \A v \in out : table'[v].obj \in Born' /\ table'[v].by = "caller" /\ table'[v].obj = table[v].obj
  <2>1. ASSUME NEW v \in out PROVE table'[v].by = "caller" /\ table'[v].obj = table[v].obj
    <3>1. table[v] \in Handles
      BY <1>1 DEF Types
    <3>2. table'[v] = [table[v] EXCEPT !.by = "caller"]
      BY <1>6
    <3> QED
      BY <3>1, <3>2 DEF Handles
  <2>2. \A v \in out : table[v].obj \in Born'
    BY <1>1, <1>6
  <2> QED
    BY <2>1, <2>2
<1>9. /\ call' = [call EXCEPT ![t] = [Idle EXCEPT !.said = "none"]]
      /\ given' = [v \in Values |-> IF v \in out THEN table'[v].obj ELSE given[v]]
      /\ spent' = spent \ out
  BY <1>2, <1>3, <1>4, <1>5, <1>8 DEF Leave, CloseGuards
<1> QED
  BY <1>1, <1>5, <1>6, <1>7, <1>8, <1>9, LeaveKeeps

LEMMA StartsKeep ==
  ASSUME Distinct, IInv, ~reused, NEW t \in Threads,
         start(t) \/ startAsAdmin(t) \/ startWithShellExecute(t)
  PROVE  IInv'
<1>1. call[t].at = "idle"
  BY DEF start, startAsAdmin, startWithShellExecute
<1>2. ASSUME NEW code \in {"InvalidArgument", "ProcessError", "ProcessStartFailed"}, Throw(t, code)
      PROVE  IInv'
  BY <1>1, <1>2, ThrowsKeep
<1>3. ASSUME NEW p \in Fresh, ShellExecute(t, p) PROVE IInv'
  BY <1>1, <1>3, HandOutKeeps
<1> QED
  BY <1>2, <1>3 DEF start, startAsAdmin, startWithShellExecute

-----------------------------------------------------------------------------
(* The steps of getRunningProcesses() and getProcessByPath() *)

LEMMA SnapshotKeeps ==
  ASSUME Distinct, IInv, ~reused, NEW t \in Threads, snapshot(t)
  PROVE  IInv'
<1>1. CASE Throw(t, "ProcessOperationFailed")
  BY <1>1, ThrowsKeep DEF snapshot
<1>2. ASSUME NEW op \in {"list", "find"}, NEW v \in Unused,
             table' = [table EXCEPT ![v] = Handle("snapshot", FALSE, t)],
             call' = [call EXCEPT ![t] = [Idle EXCEPT !.op = op, !.at = "next", !.todo = Running,
                                                      !.guards = {v}]],
             UNCHANGED <<proc, given, spent, reused>>, call[t].at = "idle"
      PROVE  IInv'
  <2>1. Types /\ Grows /\ Born' = Born
    BY <1>2, NoGrowth DEF IInv
  <2>2. Own(t) = {}
    BY <1>2, IdleOwnsNothing
  <2>3. v \in Values /\ table[v].by = "none"
    BY DEF Unused, Closed
  <2>4. Running \subseteq Born /\ Born \subseteq Pids
    BY DEF Running, Born
  <2>5. PICK r \in Calls : r = [Idle EXCEPT !.op = op, !.at = "next", !.todo = Running, !.guards = {v}]
    BY <2>3, <2>4 DEF Calls, Idle, Objects
  <2>6. call' = [call EXCEPT ![t] = r] /\ call'[t] = r
    BY <1>2, <2>1, <2>5 DEF Types
  <2>7. /\ r.at = "next" /\ r.op = op /\ r.h = Null /\ r.kept = {} /\ r.guards = {v}
        /\ r.todo = Running
    BY <2>5 DEF Idle
  <2>8. PICK opens \in SUBSET Values, gone \in SUBSET Values : opens = {v} /\ gone = {}
    BY <2>3
  <2>9. Handle("snapshot", FALSE, t) \in Handles
    BY DEF Handle, Handles, Objects
  <2>10. /\ table' \in [Values -> Handles]
         /\ table'[v] = Handle("snapshot", FALSE, t)
         /\ \A u \in Values \ {v} : table'[u] = table[u]
    BY <1>2, <2>1, <2>3, <2>9 DEF Types
  <2>11. Own(t)' = {v} /\ Guarded(t)' = {v}
    BY <2>6, <2>7 DEF Own, Opened, Guarded
  <2>12. Shape(t)' /\ Spends(t)' /\ Knows(t)'
    BY <2>6, <2>7 DEF Shape, Spends, Knows
  <2>13. Mine(t)'
    BY <2>1, <2>3, <2>4, <2>6, <2>7, <2>10, <2>11 DEF Mine, Handle
  <2>14. /\ gone \subseteq Own(t) /\ Own(t)' = (Own(t) \cup opens) \ gone
         /\ \A u \in opens : table[u].by = "none" /\ table'[u].by = t
         /\ \A u \in gone : table'[u] = Closed
         /\ \A u \in Values \ (opens \cup gone) : table'[u] = table[u]
    BY <2>2, <2>3, <2>8, <2>10, <2>11 DEF Handle
  <2> QED
    BY <1>2, <2>1, <2>5, <2>6, <2>7, <2>10, <2>12, <2>13, <2>14, CallKeeps
<1> QED
  BY <1>1, <1>2 DEF snapshot

\* A process of the snapshot is skipped or opened.
LEMMA OpenNextKeeps ==
  ASSUME Distinct, IInv, ~reused, NEW t \in Threads, NEW at \in {"asked", "compare"},
         call[t].op \in {"list", "find"}, call[t].at = "next", OpenNext(t, at)
  PROVE  IInv'
<1>1. /\ Types /\ Grows /\ Born' = Born /\ Shape(t) /\ Mine(t) /\ call[t] \in Calls
      /\ UNCHANGED <<proc, given, spent, reused>>
  BY NoGrowth DEF IInv, Safe, Types, OpenNext
<1>2. Own(t) = call[t].kept \cup call[t].guards /\ Guarded(t) = call[t].guards
  BY <1>1 DEF Own, Opened, Guarded
<1>3. PICK p \in call[t].todo :
        \/ call' = [call EXCEPT ![t].todo = @ \ {p}] /\ UNCHANGED table
        \/ \E v \in Unused :
             /\ table' = [table EXCEPT ![v] = Handle(p, FALSE, t)]
             /\ call' = [call EXCEPT ![t].todo = @ \ {p}, ![t].at = at, ![t].obj = v]
  BY DEF OpenNext
<1>4. p \in Born /\ p \in Pids
  BY <1>1 DEF Mine, Born
<1>5. CASE call' = [call EXCEPT ![t].todo = @ \ {p}] /\ UNCHANGED table
  <2>1. PICK r \in Calls : r = [call[t] EXCEPT !.todo = @ \ {p}]
    BY <1>1 DEF Calls
  <2>2. call' = [call EXCEPT ![t] = r] /\ call'[t] = r
    BY <1>1, <1>5, <2>1 DEF Types
  <2>3. /\ r.at = "next" /\ r.op = call[t].op /\ r.h = call[t].h /\ r.kept = call[t].kept
        /\ r.guards = call[t].guards /\ r.todo = call[t].todo \ {p}
    BY <1>1, <2>1 DEF Calls
  <2>4. Own(t)' = Own(t)
    BY <1>1, <1>2, <2>2, <2>3 DEF Own, Opened, Guarded
  <2>5. Shape(t)' /\ Spends(t)' /\ Knows(t)'
    BY <1>1, <2>2, <2>3 DEF Shape, Spends, Knows
  <2>6. Mine(t)'
    BY <1>1, <1>5, <2>2, <2>3, <2>4 DEF Mine, Guarded
  <2> QED
    BY <1>1, <1>5, <2>1, <2>2, <2>3, <2>4, <2>5, <2>6, GoesOn
<1>6. ASSUME NEW v \in Unused, table' = [table EXCEPT ![v] = Handle(p, FALSE, t)],
             call' = [call EXCEPT ![t].todo = @ \ {p}, ![t].at = at, ![t].obj = v]
      PROVE  IInv'
  <2>1. v \in Values /\ table[v].by = "none"
    BY DEF Unused, Closed
  <2>2. PICK r \in Calls : r = [call[t] EXCEPT !.todo = @ \ {p}, !.at = at, !.obj = v]
    BY <1>1, <2>1 DEF Calls
  <2>3. call' = [call EXCEPT ![t] = r] /\ call'[t] = r
    BY <1>1, <1>6, <2>2 DEF Types
  <2>4. /\ r.at = at /\ r.op = call[t].op /\ r.h = call[t].h /\ r.kept = call[t].kept
        /\ r.guards = call[t].guards /\ r.todo = call[t].todo \ {p} /\ r.obj = v
    BY <1>1, <2>2 DEF Calls
  <2>5. PICK opens \in SUBSET Values, gone \in SUBSET Values : opens = {v} /\ gone = {}
    BY <2>1
  <2>6. Handle(p, FALSE, t) \in Handles
    BY <1>4 DEF Handle, Handles, Objects
  <2>7. /\ table' \in [Values -> Handles]
        /\ table'[v] = Handle(p, FALSE, t)
        /\ \A u \in Values \ {v} : table'[u] = table[u]
    BY <1>1, <1>6, <2>1, <2>6 DEF Types
  <2>8. Own(t)' = Own(t) \cup {v} /\ Guarded(t)' = Guarded(t)
    BY <1>1, <1>2, <2>3, <2>4 DEF Own, Opened, Guarded
  <2>9. Shape(t)' /\ Spends(t)' /\ Knows(t)'
    BY <1>1, <2>3, <2>4 DEF Shape, Spends, Knows
  <2>10. \A u \in Own(t) : u \in Values /\ u # v /\ table'[u] = table[u] /\ table[u].by = t
    BY <1>1, <2>1, <2>7 DEF Mine, Distinct
  <2>11. Mine(t)'
    <3>1. \A u \in Own(t)' : u \in Values /\ table'[u].by = t
      BY <2>1, <2>7, <2>8, <2>10 DEF Handle
    <3>2. (\A u \in call'[t].kept : table'[u].obj \in Born') /\ v \notin call'[t].kept
      BY <1>1, <1>2, <2>3, <2>4, <2>10 DEF Mine
    <3>3. \A u \in Guarded(t)' : table'[u].obj = "snapshot"
      BY <1>1, <1>2, <2>8, <2>10 DEF Mine
    <3>4. table'[v].obj \in Born'
      BY <1>1, <1>4, <2>7 DEF Handle
    <3> QED
      BY <1>1, <2>3, <2>4, <3>1, <3>2, <3>3, <3>4 DEF Mine
  <2>12. /\ gone \subseteq Own(t) /\ Own(t)' = (Own(t) \cup opens) \ gone
         /\ \A u \in opens : table[u].by = "none" /\ table'[u].by = t
         /\ \A u \in gone : table'[u] = Closed
         /\ \A u \in Values \ (opens \cup gone) : table'[u] = table[u]
    BY <2>1, <2>5, <2>7, <2>8 DEF Handle
  <2> QED
    BY <1>1, <2>2, <2>3, <2>4, <2>7, <2>9, <2>11, <2>12, CallKeeps
<1> QED
  BY <1>3, <1>5, <1>6

LEMMA CloseOpenedKeeps ==
  ASSUME Distinct, IInv, ~reused, NEW t \in Threads, call[t].op \in {"list", "find"},
         call[t].at \in {"asked", "compare"}, CloseOpened(t)
  PROVE  IInv'
<1>1. /\ Types /\ Grows /\ Born' = Born /\ Shape(t) /\ Mine(t) /\ call[t] \in Calls
      /\ UNCHANGED <<proc, given, spent, reused>>
  BY NoGrowth DEF IInv, Safe, Types, CloseOpened
<1>2. /\ Own(t) = call[t].kept \cup {call[t].obj} \cup call[t].guards
      /\ Guarded(t) = call[t].guards
  BY <1>1 DEF Own, Opened, Guarded
<1>3. call[t].obj \notin call[t].kept /\ call[t].obj \notin call[t].guards
  BY <1>1, <1>2 DEF Mine, Born, Distinct
<1>4. PICK r \in Calls : r = [call[t] EXCEPT !.at = "next", !.obj = "none"]
  BY <1>1 DEF Calls, Objects
<1>5. call' = [call EXCEPT ![t] = r] /\ call'[t] = r
  BY <1>1, <1>4 DEF Types, CloseOpened
<1>6. /\ r.at = "next" /\ r.op = call[t].op /\ r.h = call[t].h /\ r.kept = call[t].kept
      /\ r.guards = call[t].guards /\ r.todo = call[t].todo
  BY <1>1, <1>4 DEF Calls
<1>7. PICK opens \in SUBSET Values, gone \in SUBSET Values : opens = {} /\ gone = {call[t].obj}
  BY <1>1, <1>2 DEF Mine
<1>8. \A v \in Values : table'[v] = IF v = call[t].obj THEN Closed ELSE table[v]
  BY DEF CloseOpened, CloseGuards
<1>9. table' \in [Values -> Handles]
  BY <1>1 DEF CloseOpened, CloseGuards, Types, Handles, Closed, Objects
<1>10. Own(t)' = Own(t) \ {call[t].obj} /\ Guarded(t)' = Guarded(t)
  BY <1>1, <1>2, <1>3, <1>5, <1>6 DEF Own, Opened, Guarded
<1>11. Shape(t)' /\ Spends(t)' /\ Knows(t)'
  BY <1>1, <1>5, <1>6 DEF Shape, Spends, Knows
<1>12. Mine(t)'
  BY <1>1, <1>2, <1>3, <1>5, <1>6, <1>8, <1>10 DEF Mine
<1>13. /\ gone \subseteq Own(t) /\ Own(t)' = (Own(t) \cup opens) \ gone
       /\ \A v \in opens : table[v].by = "none" /\ table'[v].by = t
       /\ \A v \in gone : table'[v] = Closed
       /\ \A v \in Values \ (opens \cup gone) : table'[v] = table[v]
  BY <1>2, <1>7, <1>8, <1>10
<1> QED
  BY <1>1, <1>4, <1>5, <1>6, <1>9, <1>11, <1>12, <1>13, CallKeeps

LEMMA KeepOpenedKeeps ==
  ASSUME Distinct, IInv, ~reused, NEW t \in Threads, call[t].op = "find", call[t].at = "compare",
         KeepOpened(t)
  PROVE  IInv'
<1>1. /\ Types /\ Born' = Born /\ Shape(t) /\ Mine(t) /\ call[t] \in Calls
      /\ UNCHANGED <<proc, table, given, spent, reused>>
  BY NoGrowth DEF IInv, Safe, Types, KeepOpened
<1>2. /\ Own(t) = call[t].kept \cup {call[t].obj} \cup call[t].guards
      /\ Guarded(t) = call[t].guards
  BY <1>1 DEF Own, Opened, Guarded
<1>3. call[t].obj \in Values /\ table[call[t].obj].obj \in Born
  BY <1>1, <1>2 DEF Mine
<1>4. PICK r \in Calls :
        r = [call[t] EXCEPT !.at = "next", !.obj = "none", !.kept = @ \cup {call[t].obj}]
  BY <1>1, <1>3 DEF Calls, Objects
<1>5. call' = [call EXCEPT ![t] = r] /\ call'[t] = r
  BY <1>1, <1>4 DEF Types, KeepOpened
<1>6. /\ r.at = "next" /\ r.op = call[t].op /\ r.h = call[t].h
      /\ r.kept = call[t].kept \cup {call[t].obj}
      /\ r.guards = call[t].guards /\ r.todo = call[t].todo
  BY <1>1, <1>4 DEF Calls
<1>7. Own(t)' = Own(t) /\ Guarded(t)' = Guarded(t)
  BY <1>1, <1>2, <1>5, <1>6 DEF Own, Opened, Guarded
<1>8. Shape(t)' /\ Spends(t)' /\ Knows(t)'
  BY <1>1, <1>5, <1>6 DEF Shape, Spends, Knows
<1>9. Mine(t)'
  BY <1>1, <1>3, <1>5, <1>6, <1>7 DEF Mine
<1> QED
  BY <1>1, <1>4, <1>5, <1>6, <1>7, <1>8, <1>9, GoesOn

LEMMA ListsKeep ==
  ASSUME Distinct, IInv, ~reused, NEW t \in Threads, getRunningProcesses(t)
  PROVE  IInv'
<1>1. CASE At(t, "list", "next") /\ OpenNext(t, "asked")
  BY <1>1, OpenNextKeeps DEF At
<1>2. CASE At(t, "list", "asked") /\ CloseOpened(t)
  BY <1>2, CloseOpenedKeeps DEF At
<1>3. CASE At(t, "list", "next") /\ Return(t, "none")
  BY <1>3, ReturnKeeps DEF At
<1> QED
  BY <1>1, <1>2, <1>3 DEF getRunningProcesses

LEMMA FindsKeep ==
  ASSUME Distinct, IInv, ~reused, NEW t \in Threads, getProcessByPath(t)
  PROVE  IInv'
<1>1. CASE At(t, "find", "next") /\ OpenNext(t, "compare")
  BY <1>1, OpenNextKeeps DEF At
<1>2. CASE At(t, "find", "compare") /\ KeepOpened(t)
  BY <1>2, KeepOpenedKeeps DEF At
<1>3. CASE At(t, "find", "compare") /\ CloseOpened(t)
  BY <1>3, CloseOpenedKeeps DEF At
<1>4. CASE At(t, "find", "next") /\ Leave(t, table, "none", call[t].kept) /\ UNCHANGED <<proc, reused>>
  <2>1. /\ Types /\ Grows /\ Born' = Born /\ Shape(t) /\ Mine(t) /\ call[t] \in Calls
        /\ call[t].op = "find" /\ call[t].at = "next"
    BY <1>4, NoGrowth DEF IInv, Safe, Types, At
  <2>2. Own(t) = call[t].kept \cup call[t].guards /\ Guarded(t) = call[t].guards
    BY <2>1 DEF Own, Opened, Guarded
  <2>3. \A v \in call[t].kept : v \in Own(t) /\ table[v].obj \in Born /\ v \notin call[t].guards
    BY <2>1, <2>2 DEF Mine, Born, Distinct
  <2>4. PICK out \in SUBSET Values : out = call[t].kept
    BY <2>1 DEF Calls
  <2>5. \A v \in Values : table'[v] = IF v \in call[t].guards THEN Closed
                                      ELSE IF v \in out THEN [table[v] EXCEPT !.by = "caller"]
                                      ELSE table[v]
    BY <1>4, <2>4 DEF Leave, CloseGuards
  <2>6. \A v \in out : table'[v] = [table[v] EXCEPT !.by = "caller"]
    <3>1. \A v \in out : v \in Values /\ v \notin call[t].guards
      BY <2>3, <2>4
    <3> QED
      BY <2>5, <3>1
  <2>7. \A v \in Values \ out :
          IF v \in Own(t) \cup call[t].guards THEN table'[v] = Closed ELSE table'[v] = table[v]
    BY <2>2, <2>4, <2>5
  <2>8. table' \in [Values -> Handles]
    BY <1>4, <2>1 DEF Leave, CloseGuards, Types, Handles, Closed, Objects
  <2>9. ASSUME NEW v \in out PROVE table'[v].by = "caller" /\ table'[v].obj = table[v].obj
    <3>1. table[v] \in Handles
      BY <2>1 DEF Types
    <3> QED
      BY <2>6, <3>1 DEF Handles
  <2>10. \A v \in out : /\ table'[v].obj \in Born' /\ table'[v].by = "caller"
                        /\ v \in Own(t) \/ table[v].by = "none"
    BY <2>1, <2>3, <2>4, <2>9
  <2>11. /\ call' = [call EXCEPT ![t] = [Idle EXCEPT !.said = "none"]]
         /\ given' = [v \in Values |-> IF v \in out THEN table'[v].obj ELSE given[v]]
         /\ spent' = spent \ out /\ UNCHANGED reused
    BY <1>4, <2>4, <2>9 DEF Leave
  <2> QED
    BY <2>1, <2>7, <2>8, <2>10, <2>11, LeaveKeeps
<1> QED
  BY <1>1, <1>2, <1>3, <1>4 DEF getProcessByPath

-----------------------------------------------------------------------------
(* All steps together *)

LEMMA ProcessStepsKeep ==
  ASSUME Distinct, IInv, ~reused, ProcessBegins \/ ProcessEnds PROVE IInv'
<1>1. Types /\ UNCHANGED <<table, given, spent, reused, call>>
  BY DEF IInv, ProcessBegins, ProcessEnds
<1>2. Grows
  <2>1. CASE ProcessBegins
    BY <1>1, <2>1, BegunGrows DEF ProcessBegins
  <2>2. CASE ProcessEnds
    BY <1>1, <2>2 DEF ProcessEnds, Types, Grows, Born, Running, ExitCodes, STILL_ACTIVE
  <2> QED
    BY <2>1, <2>2
<1> QED
  BY <1>1, <1>2, ProcessesKeep

LEMMA StutterKeeps == ASSUME IInv, UNCHANGED vars PROVE IInv'
<1>1. Types' /\ Held' /\ \A t \in Threads : Shape(t)'
  BY DEF vars, IInv, Types, Given, Held, Own, Opened, Guarded, Shape
<1>2. ASSUME Safe PROVE Safe'
  BY <1>2 DEF vars, Safe, GivenIsOpen, GivenBorn, Given, Born, Mine, Own, Opened, Guarded, Spends, Knows
<1>3. reused' = reused
  BY DEF vars
<1> QED
  BY <1>1, <1>2, <1>3 DEF IInv

LEMMA InitKeeps == ASSUME Distinct, Init PROVE IInv
<1>1. \A t \in Threads : call[t] = Idle
  BY DEF Init
<1>2. Types
  BY DEF Init, Types, Given, Handles, Closed, Objects, Calls, Idle
<1>3. \A t \in Threads : Own(t) = {} /\ Shape(t) /\ Mine(t) /\ Spends(t) /\ Knows(t)
  BY <1>1 DEF Own, Opened, Guarded, Shape, Mine, Spends, Knows, Idle
<1>4. Held
  BY DEF Init, Held, Closed, Distinct
<1>5. GivenIsOpen /\ GivenBorn
  BY DEF Init, GivenIsOpen, GivenBorn, Given
<1> QED
  BY <1>2, <1>3, <1>4, <1>5 DEF IInv, Safe

LEMMA NextKeeps == ASSUME Distinct, IInv, Next PROVE IInv'
<1>1. ~reused
  BY DEF Next
<1>2. ASSUME NEW t \in Threads, Call(t) PROVE IInv'
  <2>1. CASE start(t) \/ startAsAdmin(t) \/ startWithShellExecute(t)
    BY <1>1, <2>1, StartsKeep
  <2>2. CASE startWithCreateProcess(t)
    BY <1>1, <2>2, CreateProcessKeeps
  <2>3. CASE snapshot(t)
    BY <1>1, <2>3, SnapshotKeeps
  <2>4. ASSUME NEW h \in Given \cup {Null}, Begin(t, "wait", h) \/ Begin(t, "isRunning", h)
        PROVE  IInv'
    BY <1>1, <2>4, BeginKeeps
  <2>5. ASSUME NEW h \in Given \cup {Null}, beginTerminate(t, h) PROVE IInv'
    BY <1>1, <2>5, BeginTerminateKeeps
  <2> QED
    BY <1>2, <2>1, <2>2, <2>3, <2>4, <2>5 DEF Call
<1>3. ASSUME NEW t \in Threads, Step(t) PROVE IInv'
  <2>1. CASE closeThreadHandle(t)
    BY <1>1, <2>1, closeThreadHandleKeeps
  <2>2. CASE terminate(t) \/ terminateReturns(t)
    BY <1>1, <2>2, TerminateKeeps
  <2>3. CASE wait(t) \/ waitReturns(t) \/ isRunning(t) \/ isRunningConfirms(t)
    BY <1>1, <2>3, AnswersKeep
  <2>4. CASE WaitForSingleObject(t)
    BY <1>1, <2>4, WaitForSingleObjectKeeps
  <2>5. CASE getRunningProcesses(t)
    BY <1>1, <2>5, ListsKeep
  <2>6. CASE getProcessByPath(t)
    BY <1>1, <2>6, FindsKeep
  <2> QED
    BY <1>3, <2>1, <2>2, <2>3, <2>4, <2>5, <2>6 DEF Step
<1>4. CASE ProcessBegins \/ ProcessEnds
  BY <1>1, <1>4, ProcessStepsKeep
<1> QED
  BY <1>2, <1>3, <1>4 DEF Next

\* The strengthening: the type of the state, and who holds which handle value.
THEOREM Invariance == Distinct => (Spec => []IInv)
<1> SUFFICES ASSUME Distinct PROVE Spec => []IInv
  OBVIOUS
<1>1. Init => IInv
  BY InitKeeps
<1>2. IInv /\ [Next]_vars => IInv'
  BY NextKeeps, StutterKeeps
<1> QED
  BY <1>1, <1>2, PTL DEF Spec

\* Whatever start(), getRunningProcesses() and getProcessByPath() open - first
\* threads, snapshots, processes that do not match - is closed when the call has
\* returned or thrown, unless it was handed to the caller.
THEOREM NothingLeaks == Distinct => (Spec => []NoHandleLeft)
<1> SUFFICES ASSUME Distinct PROVE Spec => []NoHandleLeft
  OBVIOUS
<1>1. IInv => NoHandleLeft
  <2> SUFFICES ASSUME IInv, NEW v \in Values, table[v].by \in Threads
               PROVE  call[table[v].by].at # "idle"
    BY DEF NoHandleLeft
  <2>1. v \in Own(table[v].by) /\ Shape(table[v].by)
    BY DEF IInv, Held
  <2> QED
    BY <2>1 DEF Shape, Own, Opened, Guarded
<1> QED
  BY <1>1, Invariance, PTL

-----------------------------------------------------------------------------
(* What wait() and isRunning() say *)

LEMMA OthersStay ==
  ASSUME Types, NEW t \in Threads, NEW u \in Threads \ {t}, Call(t) \/ Step(t)
  PROVE  call'[u].at = call[u].at
<1>1. call[u] \in Calls /\ DOMAIN call = Threads
  BY DEF Types
<1>2. CASE Call(t)
  <2>1. ASSUME NEW h \in Given \cup {Null}, beginTerminate(t, h) PROVE call'[u].at = call[u].at
    <3>1. call'[u] = [call[u] EXCEPT !.stale = @ \/ h \in {call[u].h} \ {Null}]
      BY <2>1 DEF beginTerminate
    <3> QED
      BY <1>1, <3>1 DEF Calls
  <2>2. ASSUME NEW h \in Given \cup {Null}, Begin(t, "wait", h) \/ Begin(t, "isRunning", h)
        PROVE  call'[u].at = call[u].at
    BY <1>1, <2>2 DEF Begin
  <2>3. CASE start(t) \/ startAsAdmin(t) \/ startWithShellExecute(t)
    BY <1>1, <2>3 DEF start, startAsAdmin, startWithShellExecute, ShellExecute, Throw, Return, Leave
  <2>4. CASE startWithCreateProcess(t) \/ snapshot(t)
    BY <1>1, <2>4 DEF startWithCreateProcess, snapshot, Throw, Return, Leave
  <2> QED
    BY <1>2, <2>1, <2>2, <2>3, <2>4 DEF Call
<1>3. CASE Step(t)
  <2>1. CASE closeThreadHandle(t) \/ terminate(t) \/ terminateReturns(t)
    BY <1>1, <2>1 DEF closeThreadHandle, terminate, terminateReturns, Throw, Return, Leave
  <2>2. CASE wait(t) \/ WaitForSingleObject(t) \/ waitReturns(t)
    BY <1>1, <2>2 DEF wait, WaitForSingleObject, waitReturns, Timeout, Throw, Return, Leave, Goto
  <2>3. CASE isRunning(t) \/ isRunningConfirms(t)
    BY <1>1, <2>3 DEF isRunning, isRunningConfirms, Throw, Return, Leave, Goto
  <2>4. CASE getRunningProcesses(t) \/ getProcessByPath(t)
    BY <1>1, <2>4 DEF getRunningProcesses, getProcessByPath, OpenNext, CloseOpened, KeepOpened,
       Return, Leave
  <2> QED
    BY <1>3, <2>1, <2>2, <2>3, <2>4 DEF Step
<1> QED
  BY <1>2, <1>3

LEMMA AnswersAreTrue == ASSUME Distinct, IInv, Next PROVE ToldEnded
<1>1. ~reused /\ Types /\ Safe
  BY DEF Next, IInv
<1> SUFFICES ASSUME NEW t \in Threads, call[t].at # "idle", call'[t].at = "idle", ~call[t].stale,
                    \/ call[t].op = "wait" /\ call'[t].said \in {"true", "false"}
                    \/ call[t].op = "isRunning" /\ call'[t].said = "false"
             PROVE  proc[given[call[t].h]] \in ExitCodes
  BY DEF ToldEnded
<1>2. call[t] \in Calls /\ call'[t].at # call[t].at /\ Shape(t) /\ Knows(t)
  BY <1>1 DEF Types, Safe, IInv
<1>3. Step(t)
  <2>1. PICK u \in Threads : Call(u) \/ Step(u)
    BY <1>2 DEF Next, ProcessBegins, ProcessEnds
  <2>2. u = t
    BY <1>1, <1>2, <2>1, OthersStay, SMTT(60)
  <2>3. ~Call(t)
    BY DEF Call, start, startWithCreateProcess, startAsAdmin, startWithShellExecute, snapshot, Begin,
           beginTerminate
  <2> QED
    BY <2>1, <2>2, <2>3
<1>4. ASSUME call[t].h # Null
      PROVE  /\ table[call[t].h].obj = given[call[t].h] /\ given[call[t].h] \in Born
             /\ given[call[t].h] \in Pids
  BY <1>1, <1>2, <1>4 DEF Knows, Safe, GivenIsOpen, GivenBorn, Born
<1>5. ASSUME NEW said, Return(t, said) PROVE call'[t].said = said
  BY <1>1, <1>5 DEF Return, Leave, Types, Idle
<1>6. ASSUME NEW at, Goto(t, at) PROVE call'[t].at = at
  BY <1>1, <1>2, <1>6 DEF Goto, Types, Calls
<1>7. CASE wait(t)
  <2>1. call[t].h # Null /\ ExitCode(call[t].h) \notin {"failed", STILL_ACTIVE}
    BY <1>2, <1>5, <1>6, <1>7 DEF wait, At, Throw, Shape
  <2> QED
    BY <1>1, <1>4, <2>1 DEF ExitCode, Types, Born, Running
<1>8. CASE waitReturns(t)
  BY <1>2, <1>8 DEF waitReturns, At, Shape, Knows
<1>9. CASE WaitForSingleObject(t)
  <2>1. call[t].op = "wait" /\ ~Return(t, "none") /\ ~Goto(t, "signaled")
    BY <1>2, <1>5, <1>6, <1>9 DEF WaitForSingleObject, At
  <2>2. call' = [call EXCEPT ![t].at = "blocked", ![t].obj = table[call[t].h].obj]
    BY <1>9, <2>1 DEF WaitForSingleObject, Timeout, Throw
  <2>3. call'[t].at = "blocked"
    BY <1>1, <1>2, <2>2 DEF Types, Calls
  <2> QED
    BY <2>3
<1>10. CASE isRunning(t)
  <2>1. call[t].h # Null /\ ExitCode(call[t].h) # STILL_ACTIVE
    BY <1>2, <1>5, <1>6, <1>10 DEF isRunning, At, Throw
  <2> QED
    BY <1>1, <1>4, <2>1 DEF ExitCode, Types, Born, Running
<1>11. CASE isRunningConfirms(t)
  BY <1>2, <1>5, <1>6, <1>11 DEF isRunningConfirms, At, Shape, Knows
<1>12. ~(\/ closeThreadHandle(t) \/ terminate(t) \/ terminateReturns(t)
         \/ getRunningProcesses(t) \/ getProcessByPath(t))
  BY DEF closeThreadHandle, terminate, terminateReturns, getRunningProcesses, getProcessByPath, At
<1> QED
  BY <1>3, <1>7, <1>8, <1>9, <1>10, <1>11, <1>12 DEF Step

\* A caller that never uses a handle again after terminate(): its handle stands
\* for the process it was given out for, and when wait() returns or isRunning()
\* says no, that process has ended.
THEOREM HandlesStayTrue == Distinct => (Spec => HandleNamesProcess)
<1> SUFFICES ASSUME Distinct PROVE Spec => HandleNamesProcess
  OBVIOUS
<1>1. IInv => reused \/ GivenIsOpen
  BY DEF IInv, Safe
<1>2. IInv /\ [Next]_vars => [reused \/ ToldEnded]_vars
  BY AnswersAreTrue
<1> QED
  BY <1>1, <1>2, Invariance, PTL DEF HandleNamesProcess, Spec

=============================================================================
