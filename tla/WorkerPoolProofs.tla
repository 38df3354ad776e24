--------------------------- MODULE WorkerPoolProofs ---------------------------
(***************************************************************************)
(* What WorkerPool keeps for every set of requests, methods and workers.   *)
(* First the type invariant, then the inductive invariant IInv, from which *)
(* the safety properties and the refinement of RpcService follow.          *)
(***************************************************************************)
EXTENDS WorkerPool, SequenceTheorems, FiniteSetTheorems, TLAPS

-----------------------------------------------------------------------------
(* The queue operations. *)

LEMMA MoveHead ==
  ASSUME NEW S, NEW s \in Seq(S), NEW t \in Seq(S), t # <<>>
  PROVE  Append(s, Head(t)) \o Tail(t) = s \o t
<1>1. Head(t) \in S /\ Tail(t) \in Seq(S) /\ <<Head(t)>> \in Seq(S)
  BY HeadTailProperties
<1>2. Append(s, Head(t)) = s \o <<Head(t)>>
  BY <1>1, AppendIsConcat
<1>3. <<Head(t)>> \o Tail(t) = t
  OBVIOUS
<1> QED
  BY <1>1, <1>2, <1>3, ConcatAssociative

LEMMA RangeOfAppend ==
  ASSUME NEW S, NEW s \in Seq(S), NEW e \in S
  PROVE  Range(Append(s, e)) = Range(s) \cup {e}
<1>1. Append(s, e) = s \o <<e>> /\ <<e>> \in Seq(S)
  BY AppendIsConcat
<1>2. Range(<<e>>) = {e}
  BY DEF Range
<1>3. Range(s \o <<e>>) = Range(s) \cup Range(<<e>>)
  BY <1>1, RangeConcatenation, SMTT(30)
<1> QED
  BY <1>1, <1>2, <1>3

-----------------------------------------------------------------------------
(* Types. *)

LEMMA TypeInit == Init => TypeOK
<1> SUFFICES ASSUME Init PROVE TypeOK
  OBVIOUS
<1> QED
  BY EmptySeq DEF Init, TypeOK, MainPC, ServerPC, WorkerPC, NoResponse, NoCode

LEMMA TypeNext == TypeOK /\ [Next]_vars => TypeOK'
<1> SUFFICES ASSUME TypeOK, [Next]_vars PROVE TypeOK'
  OBVIOUS
<1> USE PoolAssumption DEF TypeOK, MainPC, ServerPC, WorkerPC, hands, history
<1>1. ASSUME NEW m \in Methods, Bind(m) PROVE TypeOK'
  BY <1>1 DEF Bind
<1>2. ASSUME NEW w \in Workers, SpawnWorker(w) PROVE TypeOK'
  BY <1>2 DEF SpawnWorker
<1>3. CASE StartPipeServer
  BY <1>3 DEF StartPipeServer
<1>4. CASE Shutdown
  BY <1>4, LenProperties DEF Shutdown
<1>5. CASE NotifyAll
  BY <1>5 DEF NotifyAll
<1>6. CASE JoinWorkers \/ StopServer \/ JoinServer
  BY <1>6 DEF JoinWorkers, StopServer, JoinServer
<1>7. CASE ClientConnects \/ ClientLeaves \/ ReceiveMessage
  BY <1>7 DEF ClientConnects, ClientLeaves, ReceiveMessage
<1>8. ASSUME NEW r \in Requests, HandleRpcRequest(r) PROVE TypeOK'
  BY <1>8, AppendProperties DEF HandleRpcRequest
<1>9. CASE NotifyOne
  BY <1>9 DEF NotifyOne, Waiting
<1>10. CASE ServerThreadEnds
  BY <1>10 DEF ServerThreadEnds
<1>11. ASSUME NEW w \in Workers, TakeTask(w) PROVE TypeOK'
  BY <1>11, HeadTailProperties, AppendProperties DEF TakeTask
<1>12. ASSUME NEW w \in Workers, WaitForTask(w) \/ SpuriousWakeup(w) \/ ExitThread(w)
       PROVE TypeOK'
  BY <1>12 DEF WaitForTask, SpuriousWakeup, ExitThread
<1>13. ASSUME NEW w \in Workers, RunTask(w) PROVE TypeOK'
  BY <1>13 DEF RunTask, Outcome, Codes
<1>14. ASSUME NEW w \in Workers, SendResponse(w) PROVE TypeOK'
  BY <1>14 DEF SendResponse
<1>15. CASE UNCHANGED vars
  BY <1>15 DEF vars
<1> QED
  BY <1>1, <1>2, <1>3, <1>4, <1>5, <1>6, <1>7, <1>8, <1>9, <1>10, <1>11, <1>12,
     <1>13, <1>14, <1>15
     DEF Next, MainStep, ServerStep, WorkerStep, Environment, Terminated

\* Every variable keeps its type.
THEOREM TypeCorrect == Spec => []TypeOK
  BY TypeInit, TypeNext, PTL DEF Spec

-----------------------------------------------------------------------------
(* The inductive invariant, in three parts. *)

\* A request is enqueued once, so it is in one place of the queue only.
AcceptedOnce ==
  \A i, j \in 1..Len(accepted) : accepted[i] = accepted[j] => i = j

\* What a worker holds fits where it is in its loop.
HandsOK ==
  \A w \in Workers :
    /\ worker[w] \in {"running", "sending"} <=> current[w] # NoTask
    /\ worker[w] = "sending" =>
         /\ code[w] \in Codes
         /\ code[w] = "payload_invalid" <=> current[w] \in Malformed

\* Only what was dequeued is held or answered.
OnlyStarted ==
  /\ \A w \in Workers : current[w] # NoTask => current[w] \in Range(started)
  /\ \A r \in Requests : Answered(r) => r \in Range(started)

ShuttingDown == main \in {"notifyAll", "join", "stopServer", "joinServer", "destroyed"}
Joined == main \in {"stopServer", "joinServer", "destroyed"}

\* A worker leaves only when the shutdown has begun and all that was enqueued
\* before it is dequeued, and the main thread passes the joins only when all left.
ExitOK ==
  /\ shutdown_ <=> ShuttingDown
  /\ cut <= Len(accepted)
  /\ \A w \in Workers : Exited(w) => shutdown_ /\ cut <= Len(started)
  /\ Joined => \A w \in Workers : Exited(w)

IInv ==
  /\ TypeOK
  /\ FifoOnce /\ AcceptedOnce
  /\ HandsOK /\ OnlyStarted /\ NoRequestLost
  /\ ExitOK

LEMMA InvInit == Init => IInv
<1> SUFFICES ASSUME Init PROVE IInv
  OBVIOUS
<1>1. TypeOK
  BY TypeInit
<1>2. FifoOnce /\ AcceptedOnce
  BY EmptySeq, ConcatEmptySeq DEF Init, FifoOnce, AcceptedOnce
<1>3. Range(started) = {}
  BY DEF Init, Range
<1>4. HandsOK /\ OnlyStarted /\ NoRequestLost
  BY <1>3 DEF Init, HandsOK, OnlyStarted, NoRequestLost, Answered, NoResponse, NoCode
<1>5. ExitOK
  BY EmptySeq DEF Init, ExitOK, ShuttingDown, Joined, Exited
<1> QED
  BY <1>1, <1>2, <1>4, <1>5 DEF IInv

-----------------------------------------------------------------------------
(* The queue: only HandleRpcRequest and TakeTask touch it. *)

LEMMA QueueFrame ==
  ASSUME [Next]_vars,
         \A r \in Requests : ~HandleRpcRequest(r),
         \A w \in Workers : ~TakeTask(w)
  PROVE  UNCHANGED <<tasks_, accepted, started>>
  BY DEF Next, MainStep, ServerStep, WorkerStep, Environment, Terminated, vars, hands,
     history, Bind, SpawnWorker, StartPipeServer, Shutdown, NotifyAll, JoinWorkers,
     StopServer, JoinServer, ClientConnects, ClientLeaves, ReceiveMessage, NotifyOne,
     ServerThreadEnds, WaitForTask, SpuriousWakeup, ExitThread, RunTask, SendResponse

LEMMA QueueNext ==
  ASSUME TypeOK, FifoOnce, AcceptedOnce, [Next]_vars
  PROVE  FifoOnce' /\ AcceptedOnce'
<1>1. ASSUME NEW r \in Requests, HandleRpcRequest(r)
      PROVE  FifoOnce' /\ AcceptedOnce'
  <2>1. accepted' = Append(accepted, r) /\ tasks_' = Append(tasks_, r) /\ started' = started
        /\ r \notin Range(accepted)
    BY <1>1 DEF HandleRpcRequest
  <2>2. FifoOnce'
    <3>1. started \in Seq(Requests) /\ tasks_ \in Seq(Requests)
      BY DEF TypeOK
    <3>2. Append(started \o tasks_, r) = started \o Append(tasks_, r)
      BY <3>1
    <3> QED
      BY <2>1, <3>2 DEF FifoOnce
  <2>3. \A i \in 1..Len(accepted) : accepted[i] # r
    BY <2>1, RangeEquality DEF TypeOK
  <2>4. /\ Len(accepted') = Len(accepted) + 1
        /\ \A i \in 1..Len(accepted) : accepted'[i] = accepted[i]
        /\ accepted'[Len(accepted) + 1] = r
        /\ Len(accepted) \in Nat
    BY <2>1, AppendProperties, LenProperties DEF TypeOK
  <2>5. AcceptedOnce'
    BY <2>3, <2>4 DEF AcceptedOnce
  <2> QED
    BY <2>2, <2>5
<1>2. ASSUME NEW w \in Workers, TakeTask(w)
      PROVE  FifoOnce' /\ AcceptedOnce'
  <2>1. /\ started' = Append(started, Head(tasks_)) /\ tasks_' = Tail(tasks_)
        /\ tasks_ # <<>> /\ accepted' = accepted
    BY <1>2 DEF TakeTask
  <2>2. Append(started, Head(tasks_)) \o Tail(tasks_) = started \o tasks_
    BY <2>1, MoveHead DEF TypeOK
  <2> QED
    BY <2>1, <2>2, SMTT(30) DEF FifoOnce, AcceptedOnce
<1>3. CASE UNCHANGED <<tasks_, accepted, started>>
  BY <1>3 DEF FifoOnce, AcceptedOnce
<1> QED
  BY <1>1, <1>2, <1>3, QueueFrame

\* The task at the front was never dequeued before.
LEMMA HeadIsNew ==
  ASSUME TypeOK, FifoOnce, AcceptedOnce, tasks_ # <<>>
  PROVE  Head(tasks_) \in Requests /\ Head(tasks_) \notin Range(started)
<1>1. Head(tasks_) \in Requests /\ Len(tasks_) \in Nat \ {0} /\ Len(started) \in Nat
  BY HeadTailProperties, EmptySeq, LenProperties DEF TypeOK
<1>2. /\ Len(accepted) = Len(started) + Len(tasks_)
      /\ \A i \in 1..(Len(started) + Len(tasks_)) : accepted[i] =
           IF i <= Len(started) THEN started[i] ELSE tasks_[i - Len(started)]
  BY ConcatProperties DEF TypeOK, FifoOnce
<1>3. accepted[Len(started) + 1] = Head(tasks_)
  <2>1. /\ Len(started) + 1 \in 1..(Len(started) + Len(tasks_))
        /\ ~(Len(started) + 1 <= Len(started))
        /\ Len(started) + 1 - Len(started) = 1
    BY <1>1
  <2>2. accepted[Len(started) + 1] = tasks_[1]
    BY <1>2, <2>1
  <2> QED
    BY <2>2, <1>1 DEF TypeOK
<1>4. \A i \in 1..Len(started) : started[i] # Head(tasks_)
  BY <1>1, <1>2, <1>3 DEF AcceptedOnce
<1> QED
  BY <1>1, <1>4, RangeEquality DEF TypeOK

-----------------------------------------------------------------------------
(* The workers' hands: TakeTask fills, RunTask and SendResponse empty them. *)

HandsInv == HandsOK /\ OnlyStarted /\ NoRequestLost

\* A step that moves workers only between places where hands are empty.
LEMMA HandsFrame ==
  ASSUME HandsInv, UNCHANGED <<current, code, response, started>>,
         \A w \in Workers : \/ worker'[w] = worker[w]
                            \/ /\ worker[w] \notin {"running", "sending"}
                               /\ worker'[w] \notin {"running", "sending"}
  PROVE  HandsInv'
  BY DEF HandsInv, HandsOK, OnlyStarted, NoRequestLost, Answered, HeldBy

LEMMA HandsTake ==
  ASSUME TypeOK, FifoOnce, AcceptedOnce, HandsInv, NEW w \in Workers, TakeTask(w)
  PROVE  HandsInv'
<1>0. PICK r \in Requests : r = Head(tasks_)
  BY HeadIsNew DEF TakeTask
<1>1. r \in Requests /\ r \notin Range(started) /\ r # NoTask
  BY <1>0, HeadIsNew, PoolAssumption DEF TakeTask
<1>2. Range(started') = Range(started) \cup {r}
  BY <1>0, <1>1, RangeOfAppend DEF TakeTask, TypeOK
<1>3. /\ current' = [current EXCEPT ![w] = r]
      /\ worker' = [worker EXCEPT ![w] = "running"]
      /\ code' = code /\ response' = response
      /\ worker[w] \notin {"running", "sending"}
  BY <1>0 DEF TakeTask, AtLoopHead
<1>4. current[w] = NoTask
  BY <1>3 DEF HandsInv, HandsOK
<1>5. HandsOK'
  BY <1>1, <1>3 DEF HandsInv, HandsOK, TypeOK
<1>6. OnlyStarted'
  BY <1>2, <1>3 DEF HandsInv, OnlyStarted, TypeOK, Answered
<1>7. ASSUME NEW q \in Range(started)
      PROVE  HeldBy(q)' = HeldBy(q) /\ Answered(q)' = Answered(q) /\ q # r
  <2>1. q # r /\ q # NoTask
    BY <1>1, RangeOfSeq, PoolAssumption DEF TypeOK
  <2> QED
    BY <1>3, <1>4, <2>1 DEF HeldBy, Answered, TypeOK
<1>8. HeldBy(r)' = {w} /\ ~Answered(r)'
  <2>1. \A v \in Workers : current[v] # r
    BY <1>1 DEF HandsInv, OnlyStarted
  <2>2. ~Answered(r)
    BY <1>1 DEF HandsInv, OnlyStarted
  <2> QED
    BY <1>3, <2>1, <2>2 DEF HeldBy, Answered, TypeOK
<1>9. NoRequestLost'
  <2>1. ASSUME NEW q \in Range(started')
        PROVE  IF Answered(q)' THEN HeldBy(q)' = {} ELSE \E v \in Workers : HeldBy(q)' = {v}
    <3>1. CASE q = r
      BY <3>1, <1>8
    <3>2. CASE q \in Range(started)
      BY <3>2, <1>7 DEF HandsInv, NoRequestLost
    <3> QED
      BY <3>1, <3>2, <1>2
  <2> QED
    BY <2>1 DEF NoRequestLost
<1> QED
  BY <1>5, <1>6, <1>9 DEF HandsInv

LEMMA HandsRun ==
  ASSUME TypeOK, HandsInv, NEW w \in Workers, RunTask(w)
  PROVE  HandsInv'
<1>1. PICK c \in Outcome(current[w]) : code' = [code EXCEPT ![w] = c]
  BY DEF RunTask
<1>2. c \in Codes /\ (c = "payload_invalid" <=> current[w] \in Malformed)
  BY DEF Outcome, Codes
<1>3. /\ worker[w] = "running" /\ worker' = [worker EXCEPT ![w] = "sending"]
      /\ current' = current /\ response' = response /\ started' = started
  BY DEF RunTask, history
<1>4. HandsOK'
  BY <1>1, <1>2, <1>3 DEF HandsInv, HandsOK, TypeOK
<1> QED
  BY <1>3, <1>4 DEF HandsInv, OnlyStarted, NoRequestLost, Answered, HeldBy

\* The request a worker is about to answer is with that worker only.
LEMMA SendingHolds ==
  ASSUME TypeOK, HandsInv, NEW w \in Workers, worker[w] = "sending"
  PROVE  /\ current[w] \in Requests /\ current[w] \in Range(started)
         /\ HeldBy(current[w]) = {w} /\ ~Answered(current[w])
<1>1. current[w] # NoTask /\ current[w] \in Requests /\ current[w] \in Range(started)
  BY DEF HandsInv, HandsOK, OnlyStarted, TypeOK
<1>2. w \in HeldBy(current[w])
  BY DEF HeldBy
<1> QED
  BY <1>1, <1>2 DEF HandsInv, NoRequestLost

LEMMA HandsSend ==
  ASSUME TypeOK, HandsInv, NEW w \in Workers, SendResponse(w)
  PROVE  HandsInv'
<1>0. PICK r \in Requests : r = current[w]
  BY SendingHolds DEF SendResponse
<1>1. /\ worker[w] = "sending" /\ worker' = [worker EXCEPT ![w] = "loop"]
      /\ current' = [current EXCEPT ![w] = NoTask]
      /\ code' = [code EXCEPT ![w] = NoCode]
      /\ response' = [response EXCEPT ![r] = [code |-> code[w], sent |-> connected]]
      /\ started' = started
  BY <1>0 DEF SendResponse, history
<1>2. r \in Requests /\ r \in Range(started) /\ HeldBy(r) = {w} /\ ~Answered(r) /\ r # NoTask
  BY <1>0, <1>1, SendingHolds, PoolAssumption
<1>3. code[w] \in Codes /\ code[w] # NoCode
  BY <1>1 DEF HandsInv, HandsOK, Codes, NoCode
<1>4. HandsOK'
  BY <1>1 DEF HandsInv, HandsOK, TypeOK
<1>5. \A q \in Requests : q # r => response'[q] = response[q]
  BY <1>1 DEF TypeOK
<1>6. Answered(r)'
  BY <1>1, <1>2, <1>3 DEF Answered, TypeOK
<1>7. OnlyStarted'
  <2>1. \A v \in Workers : current'[v] # NoTask => current'[v] \in Range(started)
    BY <1>1 DEF HandsInv, OnlyStarted, TypeOK
  <2>2. \A q \in Requests : Answered(q)' => q \in Range(started)
    BY <1>2, <1>5 DEF HandsInv, OnlyStarted, Answered
  <2> QED
    BY <2>1, <2>2, <1>1 DEF OnlyStarted
<1>8. HeldBy(r)' = {}
  BY <1>1, <1>2 DEF HeldBy, TypeOK
<1>9. ASSUME NEW q \in Range(started), q # r
      PROVE  HeldBy(q)' = HeldBy(q) /\ Answered(q)' = Answered(q)
  <2>1. q \in Requests /\ q # NoTask
    BY RangeOfSeq, PoolAssumption DEF TypeOK
  <2>2. Answered(q)' = Answered(q)
    BY <2>1, <1>5, <1>9 DEF Answered
  <2>3. HeldBy(q)' = HeldBy(q)
    BY <2>1, <1>0, <1>1, <1>9 DEF HeldBy, TypeOK
  <2> QED
    BY <2>2, <2>3
<1>10. NoRequestLost'
  <2>1. ASSUME NEW q \in Range(started)
        PROVE  IF Answered(q)' THEN HeldBy(q)' = {} ELSE \E v \in Workers : HeldBy(q)' = {v}
    <3>1. CASE q = r
      BY <3>1, <1>6, <1>8
    <3>2. CASE q # r
      <4>1. HeldBy(q)' = HeldBy(q) /\ Answered(q)' = Answered(q)
        BY <3>2, <1>9
      <4>2. IF Answered(q) THEN HeldBy(q) = {} ELSE \E v \in Workers : HeldBy(q) = {v}
        BY DEF HandsInv, NoRequestLost
      <4> QED
        BY <4>1, <4>2, Zenon
    <3> QED
      BY <3>1, <3>2
  <2> QED
    BY <2>1, <1>1 DEF NoRequestLost
<1> QED
  BY <1>4, <1>7, <1>10 DEF HandsInv

LEMMA HandsNext ==
  ASSUME TypeOK, FifoOnce, AcceptedOnce, HandsInv, [Next]_vars
  PROVE  HandsInv'
<1> USE DEF hands, history
<1>1. ASSUME NEW w \in Workers, TakeTask(w) PROVE HandsInv'
  BY <1>1, HandsTake
<1>2. ASSUME NEW w \in Workers, RunTask(w) PROVE HandsInv'
  BY <1>2, HandsRun
<1>3. ASSUME NEW w \in Workers, SendResponse(w) PROVE HandsInv'
  BY <1>3, HandsSend
<1>4. ASSUME NEW w \in Workers,
             SpawnWorker(w) \/ WaitForTask(w) \/ SpuriousWakeup(w) \/ ExitThread(w)
      PROVE  HandsInv'
  BY <1>4, HandsFrame
     DEF SpawnWorker, WaitForTask, SpuriousWakeup, ExitThread, AtLoopHead, TypeOK
<1>5. CASE NotifyAll \/ NotifyOne
  BY <1>5, HandsFrame DEF NotifyAll, NotifyOne, Waiting, TypeOK
<1>6. CASE UNCHANGED <<worker, current, code, response, started>>
  BY <1>6, HandsFrame
<1>7. ASSUME NEW m \in Methods, Bind(m) PROVE UNCHANGED <<worker, current, code, response, started>>
  BY <1>7 DEF Bind
<1>8. ASSUME NEW r \in Requests, HandleRpcRequest(r)
      PROVE  UNCHANGED <<worker, current, code, response, started>>
  BY <1>8 DEF HandleRpcRequest
<1>9. ASSUME \/ StartPipeServer \/ Shutdown \/ JoinWorkers \/ StopServer \/ JoinServer
             \/ ClientConnects \/ ClientLeaves \/ ReceiveMessage \/ ServerThreadEnds
             \/ UNCHANGED vars
      PROVE  UNCHANGED <<worker, current, code, response, started>>
  BY <1>9 DEF StartPipeServer, Shutdown, JoinWorkers, StopServer, JoinServer, ClientConnects,
     ClientLeaves, ReceiveMessage, ServerThreadEnds, vars
<1> QED
  BY <1>1, <1>2, <1>3, <1>4, <1>5, <1>6, <1>7, <1>8, <1>9
     DEF Next, MainStep, ServerStep, WorkerStep, Environment, Terminated

-----------------------------------------------------------------------------
(* Shutdown and joins. *)

LEMMA LensOfFifo ==
  ASSUME TypeOK, FifoOnce
  PROVE  /\ Len(accepted) \in Nat /\ Len(started) \in Nat
         /\ Len(accepted) = Len(started) + Len(tasks_)
         /\ tasks_ = <<>> => Len(accepted) = Len(started)
  BY ConcatProperties, ConcatEmptySeq, LenProperties DEF TypeOK, FifoOnce

\* Steps of the workers and of the server that no exited worker takes part in.
LEMMA ExitFrame ==
  ASSUME TypeOK, ExitOK, UNCHANGED <<main, shutdown_, cut>>,
         Len(accepted) <= Len(accepted') , Len(accepted') \in Nat,
         Len(started) <= Len(started'), Len(started') \in Nat,
         Len(accepted) \in Nat, Len(started) \in Nat,
         \A w \in Workers : Exited(w)' <=> Exited(w)
  PROVE  ExitOK'
  BY DEF ExitOK, ShuttingDown, Joined, TypeOK

LEMMA ExitNext ==
  ASSUME TypeOK, FifoOnce, ExitOK, [Next]_vars
  PROVE  ExitOK'
<1>0. TypeOK'
  BY TypeNext
<1> USE LensOfFifo DEF hands, history
<1>1. ASSUME NEW w \in Workers, TakeTask(w) PROVE ExitOK'
  <2>1. Len(started') = Len(started) + 1
    BY <1>1, HeadTailProperties, AppendProperties DEF TakeTask, TypeOK
  <2>2. \A v \in Workers : Exited(v)' <=> Exited(v)
    BY <1>1 DEF TakeTask, AtLoopHead, Exited, TypeOK
  <2>3. UNCHANGED <<main, shutdown_, cut, accepted>>
    BY <1>1 DEF TakeTask
  <2> QED
    BY <2>1, <2>2, <2>3, ExitFrame
<1>2. ASSUME NEW r \in Requests, HandleRpcRequest(r) PROVE ExitOK'
  <2>1. Len(accepted') = Len(accepted) + 1
    BY <1>2, AppendProperties DEF HandleRpcRequest, TypeOK
  <2>2. UNCHANGED <<main, shutdown_, cut, started, worker>>
    BY <1>2 DEF HandleRpcRequest
  <2> QED
    BY <2>1, <2>2, ExitFrame DEF Exited
<1>3. ASSUME NEW w \in Workers, ExitThread(w) PROVE ExitOK'
  <2>1. shutdown_ /\ Len(accepted) = Len(started) /\ worker' = [worker EXCEPT ![w] = "exited"]
    BY <1>3 DEF ExitThread
  <2>2. UNCHANGED <<main, shutdown_, cut, accepted, started>>
    BY <1>3 DEF ExitThread
  <2>3. \A v \in Workers : Exited(v)' <=> (Exited(v) \/ v = w)
    BY <2>1 DEF Exited, TypeOK
  <2> QED
    BY <2>1, <2>2, <2>3 DEF ExitOK, ShuttingDown, Joined
<1>4. ASSUME NEW w \in Workers,
             SpawnWorker(w) \/ WaitForTask(w) \/ SpuriousWakeup(w) \/ RunTask(w) \/ SendResponse(w)
      PROVE  ExitOK'
  <2>1. \A v \in Workers : Exited(v)' <=> Exited(v)
    BY <1>4 DEF SpawnWorker, WaitForTask, SpuriousWakeup, RunTask, SendResponse, AtLoopHead,
       Exited, TypeOK
  <2>2. UNCHANGED <<main, shutdown_, cut, accepted, started>>
    BY <1>4 DEF SpawnWorker, WaitForTask, SpuriousWakeup, RunTask, SendResponse
  <2> QED
    BY <2>1, <2>2, ExitFrame
<1>5. CASE NotifyOne
  <2>1. \A v \in Workers : Exited(v)' <=> Exited(v)
    BY <1>5 DEF NotifyOne, Waiting, Exited, TypeOK
  <2>2. UNCHANGED <<main, shutdown_, cut, accepted, started>>
    BY <1>5 DEF NotifyOne
  <2> QED
    BY <2>1, <2>2, ExitFrame
<1>6. CASE NotifyAll
  <2>1. \A v \in Workers : Exited(v)' <=> Exited(v)
    BY <1>6 DEF NotifyAll, Exited, TypeOK
  <2> QED
    BY <1>6, <2>1 DEF NotifyAll, ExitOK, ShuttingDown, Joined
<1>7. CASE Shutdown
  BY <1>7 DEF Shutdown, ExitOK, ShuttingDown, Joined, Exited
<1>8. CASE StartPipeServer
  BY <1>8 DEF StartPipeServer, ExitOK, ShuttingDown, Joined, Exited
<1>9. CASE JoinWorkers
  BY <1>9 DEF JoinWorkers, ExitOK, ShuttingDown, Joined, Exited
<1>10. CASE StopServer \/ JoinServer
  BY <1>10 DEF StopServer, JoinServer, ExitOK, ShuttingDown, Joined, Exited
<1>11. ASSUME NEW m \in Methods, Bind(m) PROVE ExitOK'
  BY <1>11 DEF Bind, ExitOK, ShuttingDown, Joined, Exited
<1>12. CASE ClientConnects \/ ClientLeaves \/ ReceiveMessage \/ ServerThreadEnds \/ UNCHANGED vars
  BY <1>12 DEF ClientConnects, ClientLeaves, ReceiveMessage, ServerThreadEnds, vars, ExitOK,
     ShuttingDown, Joined, Exited
<1> QED
  BY <1>1, <1>2, <1>3, <1>4, <1>5, <1>6, <1>7, <1>8, <1>9, <1>10, <1>11, <1>12
     DEF Next, MainStep, ServerStep, WorkerStep, Environment, Terminated

-----------------------------------------------------------------------------
(* The theorems. *)

LEMMA InvNext == IInv /\ [Next]_vars => IInv'
  BY TypeNext, QueueNext, HandsNext, ExitNext DEF IInv, HandsInv

\* IInv is an invariant of WorkerPool.
THEOREM Invariance == Spec => []IInv
  BY InvInit, InvNext, PTL DEF Spec

\* Tasks leave the queue in the order they entered it, each once.
THEOREM FifoOnceAlways == Spec => []FifoOnce
<1>1. IInv => FifoOnce
  BY DEF IInv
<1> QED
  BY Invariance, <1>1, PTL

\* A dequeued request is with one worker until it is answered, then with none.
THEOREM NoRequestLostAlways == Spec => []NoRequestLost
<1>1. IInv => NoRequestLost
  BY DEF IInv
<1> QED
  BY Invariance, <1>1, PTL

\* After the joins no worker holds anything, so all that was dequeued is answered.
LEMMA JoinedMeansAnswered ==
  ASSUME IInv, Joined, NEW r \in Range(started)
  PROVE  Answered(r)
<1>1. \A w \in Workers : current[w] = NoTask
  BY DEF IInv, ExitOK, HandsOK, Exited
<1>2. r # NoTask
  BY RangeOfSeq, PoolAssumption DEF IInv, TypeOK
<1>3. HeldBy(r) = {}
  BY <1>1, <1>2 DEF HeldBy
<1> QED
  BY <1>3 DEF IInv, NoRequestLost

\* When stopWorkerThreads() returns, what was enqueued before shutdown_ was set
\* has been run and answered.
THEOREM DrainedOnJoinAlways == Spec => []DrainedOnJoin
<1>1. IInv => DrainedOnJoin
  <2> SUFFICES ASSUME IInv, Joined, NEW i \in 1..cut
               PROVE  Answered(accepted[i])
    BY DEF DrainedOnJoin, Joined
  <2>1. TypeOK /\ FifoOnce
    BY DEF IInv
  <2>2. PICK w \in Workers : TRUE
    BY PoolAssumption
  <2>3. cut <= Len(started) /\ cut \in Nat
    BY <2>1, <2>2 DEF IInv, ExitOK, TypeOK
  <2>4. i \in 1..Len(started) /\ i \in 1..(Len(started) + Len(tasks_))
    BY <2>1, <2>3, LenProperties DEF TypeOK
  <2>5. accepted[i] = started[i]
    BY <2>1, <2>4, ConcatProperties DEF TypeOK, FifoOnce
  <2>6. started[i] \in Range(started)
    BY <2>1, <2>4, RangeEquality DEF TypeOK
  <2> QED
    BY <2>5, <2>6, JoinedMeansAnswered
<1> QED
  BY Invariance, <1>1, PTL

-----------------------------------------------------------------------------
(* The pool implements RpcService. *)

LEMMA ServiceInit == Init => Service!Init
<1> SUFFICES ASSUME Init PROVE Service!Init
  OBVIOUS
<1>1. Range(accepted) = {}
  BY DEF Init, Range
<1>2. {current[w] : w \in Workers} \ {NoTask} = {}
  BY DEF Init
<1> QED
  BY <1>1, <1>2 DEF Init, Service!Init, NoResponse

\* What the abstract service does not see.
LEMMA ServiceFrame ==
  ASSUME UNCHANGED <<accepted, tasks_, current, response>>
  PROVE  UNCHANGED Service!vars
  BY DEF Service!vars

LEMMA ServiceReceive ==
  ASSUME IInv, NEW r \in Requests, HandleRpcRequest(r)
  PROVE  Service!Receive(r)
<1>1. Range(accepted') = Range(accepted) \cup {r}
  BY RangeOfAppend DEF HandleRpcRequest, IInv, TypeOK
<1> QED
  BY <1>1 DEF HandleRpcRequest, Service!Receive, hands

LEMMA ServiceBegin ==
  ASSUME IInv, NEW w \in Workers, TakeTask(w)
  PROVE  Service!Begin
<1>1. tasks_ # <<>> /\ tasks_' = Tail(tasks_) /\ current' = [current EXCEPT ![w] = Head(tasks_)]
      /\ accepted' = accepted /\ response' = response
  BY DEF TakeTask
<1>2. current[w] = NoTask
  BY DEF TakeTask, AtLoopHead, IInv, HandsOK
<1>3. PICK r \in Requests : r = Head(tasks_) /\ r # NoTask
  BY <1>1, HeadIsNew, PoolAssumption DEF IInv
<1>4. \A v \in Workers : current'[v] = IF v = w THEN r ELSE current[v]
  BY <1>1, <1>3 DEF IInv, TypeOK
<1>5. {current'[v] : v \in Workers} \ {NoTask} = ({current[v] : v \in Workers} \ {NoTask}) \cup {r}
  BY <1>2, <1>3, <1>4
<1> QED
  BY <1>1, <1>3, <1>5 DEF Service!Begin

LEMMA ServiceRespond ==
  ASSUME IInv, NEW w \in Workers, SendResponse(w)
  PROVE  \E r \in Requests, c \in Codes, s \in BOOLEAN : Service!Respond(r, c, s)
<1>1. PICK r \in Requests : r = current[w] /\ HeldBy(r) = {w} /\ ~Answered(r)
  BY SendingHolds DEF SendResponse, IInv, HandsInv
<1>2. PICK c \in Codes : c = code[w] /\ (c = "payload_invalid" <=> r \in Malformed)
  BY <1>1 DEF SendResponse, IInv, HandsOK
<1>3. PICK s \in BOOLEAN : s = connected
  BY DEF IInv, TypeOK
<1>4. /\ response' = [response EXCEPT ![r] = [code |-> c, sent |-> s]]
      /\ current' = [current EXCEPT ![w] = NoTask]
      /\ accepted' = accepted /\ tasks_' = tasks_
  BY <1>1, <1>2, <1>3 DEF SendResponse, history
<1>5. \A v \in Workers : current'[v] = IF v = w THEN NoTask ELSE current[v]
  BY <1>4 DEF IInv, TypeOK
<1>6. \A v \in Workers : current[v] = r <=> v = w
  BY <1>1 DEF HeldBy
<1>7. r # NoTask
  BY PoolAssumption
<1>8. {current'[v] : v \in Workers} \ {NoTask} = ({current[v] : v \in Workers} \ {NoTask}) \ {r}
  BY <1>5, <1>6, <1>7
<1>9. r \in {current[v] : v \in Workers} \ {NoTask}
  BY <1>6, <1>7
<1>10. Service!Respond(r, c, s)
  BY <1>1, <1>2, <1>4, <1>8, <1>9 DEF Service!Respond, Answered
<1> QED
  BY <1>10

LEMMA ServiceNext == IInv /\ [Next]_vars => [Service!Next]_(Service!vars)
<1> SUFFICES ASSUME IInv, [Next]_vars PROVE Service!Next \/ UNCHANGED Service!vars
  OBVIOUS
<1> USE DEF hands, history
<1>1. ASSUME NEW r \in Requests, HandleRpcRequest(r) PROVE Service!Next
  BY <1>1, ServiceReceive DEF Service!Next
<1>2. ASSUME NEW w \in Workers, TakeTask(w) PROVE Service!Next
  BY <1>2, ServiceBegin DEF Service!Next
<1>3. ASSUME NEW w \in Workers, SendResponse(w) PROVE Service!Next
  BY <1>3, ServiceRespond DEF Service!Next
<1>4. ASSUME NEW w \in Workers,
             SpawnWorker(w) \/ WaitForTask(w) \/ SpuriousWakeup(w) \/ ExitThread(w) \/ RunTask(w)
      PROVE  UNCHANGED Service!vars
  BY <1>4, ServiceFrame DEF SpawnWorker, WaitForTask, SpuriousWakeup, ExitThread, RunTask
<1>5. ASSUME NEW m \in Methods, Bind(m) PROVE UNCHANGED Service!vars
  BY <1>5, ServiceFrame DEF Bind
<1>6. ASSUME \/ StartPipeServer \/ Shutdown \/ NotifyAll \/ JoinWorkers \/ StopServer \/ JoinServer
             \/ ClientConnects \/ ClientLeaves \/ ReceiveMessage \/ NotifyOne \/ ServerThreadEnds
             \/ UNCHANGED vars
      PROVE  UNCHANGED Service!vars
  BY <1>6, ServiceFrame DEF StartPipeServer, Shutdown, NotifyAll, JoinWorkers, StopServer,
     JoinServer, ClientConnects, ClientLeaves, ReceiveMessage, NotifyOne, ServerThreadEnds, vars
<1> QED
  BY <1>1, <1>2, <1>3, <1>4, <1>5, <1>6
     DEF Next, MainStep, ServerStep, WorkerStep, Environment, Terminated

\* Whatever the interleaving of server thread, workers and shutdown, the pool
\* behaves as the service that RpcService specifies.
THEOREM Refinement == Spec => ImplementsService
  BY ServiceInit, ServiceNext, Invariance, PTL DEF Spec, ImplementsService, Service!Spec


-----------------------------------------------------------------------------
(* No lost wake-up.  Every step that moves a worker is weighed by what it     *)
(* does to the set Heads; beside the types WorkConserving needs only that     *)
(* the server thread is not handling anything when startPipeServer() runs.    *)

Heads == {w \in Workers : AtLoopHead(w)}
Pending == IF server = "notify" THEN 1 ELSE 0

LEMMA HeadsFinite == IsFiniteSet(Heads) /\ Cardinality(Heads) \in Nat
<1>1. Heads \in SUBSET Workers
  BY DEF Heads
<1>2. IsFiniteSet(Heads)
  BY <1>1, PoolAssumption, FS_Subset
<1> QED
  BY <1>2, FS_CardinalityType

\* serverThread_ does not run before startPipeServer().
NotServing == main = "setup" => server = "off"

Conserving == NotServing /\ WorkConserving

LEMMA ConservingInit == Init => Conserving
BY DEF Init, Conserving, NotServing, WorkConserving, Waiting

LEMMA NotServingNext == NotServing /\ [Next]_vars => NotServing'
BY DEF NotServing, Next, MainStep, ServerStep, WorkerStep, Environment, Terminated, vars,
   hands, history, Bind, SpawnWorker, StartPipeServer, Shutdown, NotifyAll, JoinWorkers,
   StopServer, JoinServer, ClientConnects, ClientLeaves, ReceiveMessage, HandleRpcRequest,
   NotifyOne, ServerThreadEnds, TakeTask, WaitForTask, SpuriousWakeup, ExitThread, RunTask,
   SendResponse

\* While no queue entry and no notification is added, more heads do no harm.
LEMMA ConservingFrame ==
  ASSUME TypeOK, WorkConserving, UNCHANGED tasks_, Pending' = Pending,
         Waiting' \subseteq Waiting, Heads \subseteq Heads'
  PROVE  WorkConserving'
<1>1. Heads' \in SUBSET Workers
  BY DEF Heads
<1>2. IsFiniteSet(Heads') /\ Cardinality(Heads') \in Nat
  BY <1>1, PoolAssumption, FS_Subset, FS_CardinalityType
<1>3. Cardinality(Heads) <= Cardinality(Heads')
  BY <1>2, FS_Subset
<1>4. Len(tasks_) \in Nat /\ Pending \in Nat
  BY LenProperties DEF TypeOK, Pending
<1>5. Waiting # {} => Len(tasks_) <= Cardinality(Heads) + Pending
  BY DEF WorkConserving, Heads, Pending
<1>6. Waiting' # {} => Len(tasks_)' <= Cardinality(Heads') + Pending'
  BY <1>2, <1>3, <1>4, <1>5, HeadsFinite
<1> QED
  BY <1>6 DEF WorkConserving, Heads, Pending

\* One entry less for one head less.
LEMMA ConservingTake ==
  ASSUME TypeOK, WorkConserving, NEW w \in Workers, TakeTask(w)
  PROVE  WorkConserving'
<1>1. /\ AtLoopHead(w) /\ tasks_ # <<>> /\ tasks_' = Tail(tasks_) /\ server' = server
      /\ worker' = [worker EXCEPT ![w] = "running"]
  BY DEF TakeTask
<1>2. Heads' = Heads \ {w} /\ w \in Heads
  BY <1>1 DEF Heads, AtLoopHead, TypeOK
<1>3. Waiting' = Waiting
  BY <1>1 DEF Waiting, AtLoopHead, TypeOK
<1>4. Cardinality(Heads') = Cardinality(Heads) - 1
  BY <1>2, HeadsFinite, FS_RemoveElement
<1>5. Len(tasks_') = Len(tasks_) - 1 /\ Len(tasks_) \in Nat
  BY <1>1, HeadTailProperties, LenProperties DEF TypeOK
<1>6. Pending' = Pending /\ Pending \in Nat
  BY <1>1 DEF Pending
<1>7. Waiting # {} => Len(tasks_) <= Cardinality(Heads) + Pending
  BY DEF WorkConserving, Heads, Pending
<1>8. Waiting' # {} => Len(tasks_') <= Cardinality(Heads') + Pending'
  BY <1>3, <1>4, <1>5, <1>6, <1>7, HeadsFinite
<1> QED
  BY <1>8 DEF WorkConserving, Heads, Pending

\* One entry more for the notification that follows it.
LEMMA ConservingReceive ==
  ASSUME TypeOK, WorkConserving, NEW r \in Requests, HandleRpcRequest(r)
  PROVE  WorkConserving'
<1>1. server = "handling" /\ server' = "notify" /\ worker' = worker /\ tasks_' = Append(tasks_, r)
  BY DEF HandleRpcRequest, hands
<1>2. Heads' = Heads /\ Waiting' = Waiting /\ Pending = 0 /\ Pending' = 1
  BY <1>1 DEF Heads, Waiting, AtLoopHead, Pending
<1>3. Len(tasks_') = Len(tasks_) + 1 /\ Len(tasks_) \in Nat
  BY <1>1, AppendProperties, LenProperties DEF TypeOK
<1>4. Waiting # {} => Len(tasks_) <= Cardinality(Heads) + Pending
  BY DEF WorkConserving, Heads, Pending
<1>5. Waiting' # {} => Len(tasks_') <= Cardinality(Heads') + Pending'
  BY <1>2, <1>3, <1>4, HeadsFinite
<1> QED
  BY <1>5 DEF WorkConserving, Heads, Pending

\* The notification turns into a head, or nobody waits.
LEMMA ConservingNotify ==
  ASSUME TypeOK, WorkConserving, NotifyOne
  PROVE  WorkConserving'
<1>1. server = "notify" /\ server' = "idle" /\ tasks_' = tasks_
  BY DEF NotifyOne
<1>2. Pending = 1 /\ Pending' = 0
  BY <1>1 DEF Pending
<1>3. CASE Waiting = {} /\ worker' = worker
  BY <1>3 DEF WorkConserving, Waiting
<1>4. ASSUME NEW w \in Waiting, worker' = [worker EXCEPT ![w] = "woken"]
      PROVE  WorkConserving'
  <2>1. w \in Workers /\ worker[w] = "waiting"
    BY DEF Waiting
  <2>2. Heads' = Heads \cup {w} /\ w \notin Heads
    BY <2>1, <1>4 DEF Heads, AtLoopHead, TypeOK
  <2>3. Cardinality(Heads') = Cardinality(Heads) + 1
    BY <2>2, HeadsFinite, FS_AddElement
  <2>4. Len(tasks_) <= Cardinality(Heads) + Pending /\ Len(tasks_) \in Nat
    BY LenProperties DEF WorkConserving, Heads, Pending, TypeOK
  <2>5. Len(tasks_') <= Cardinality(Heads') + Pending'
    BY <1>1, <1>2, <2>3, <2>4, HeadsFinite
  <2> QED
    BY <2>5 DEF WorkConserving, Heads, Pending
<1> QED
  BY <1>3, <1>4 DEF NotifyOne

LEMMA ConservingNext ==
  ASSUME TypeOK, NotServing, WorkConserving, [Next]_vars
  PROVE  WorkConserving'
<1> USE DEF hands, history
<1>1. ASSUME NEW w \in Workers, TakeTask(w) PROVE WorkConserving'
  BY <1>1, ConservingTake
<1>2. ASSUME NEW r \in Requests, HandleRpcRequest(r) PROVE WorkConserving'
  BY <1>2, ConservingReceive
<1>3. CASE NotifyOne
  BY <1>3, ConservingNotify
<1>4. ASSUME NEW w \in Workers, WaitForTask(w) \/ ExitThread(w) PROVE WorkConserving'
  <2>1. tasks_' = <<>> /\ server' = server
    BY <1>4 DEF WaitForTask, ExitThread
  <2>2. Len(tasks_') = 0
    BY <2>1
  <2>3. Heads' \in SUBSET Workers
    BY DEF Heads
  <2>4. Cardinality(Heads') \in Nat
    BY <2>3, PoolAssumption, FS_Subset, FS_CardinalityType
  <2>5. Pending' \in Nat
    BY DEF Pending
  <2>6. Len(tasks_') <= Cardinality(Heads') + Pending'
    BY <2>2, <2>4, <2>5
  <2> QED
    BY <2>6 DEF WorkConserving, Heads, Pending
<1>5. ASSUME NEW w \in Workers,
             SpawnWorker(w) \/ SpuriousWakeup(w) \/ RunTask(w) \/ SendResponse(w)
      PROVE  WorkConserving'
  <2>1. UNCHANGED <<tasks_, server>>
    BY <1>5 DEF SpawnWorker, SpuriousWakeup, RunTask, SendResponse
  <2>2. Waiting' \subseteq Waiting /\ Heads \subseteq Heads'
    BY <1>5 DEF SpawnWorker, SpuriousWakeup, RunTask, SendResponse, Waiting, Heads, AtLoopHead,
       TypeOK
  <2> QED
    BY <2>1, <2>2, ConservingFrame DEF Pending
<1>6. CASE NotifyAll
  <2>1. Waiting' = {}
    BY <1>6 DEF NotifyAll, Waiting, TypeOK
  <2> QED
    BY <2>1 DEF WorkConserving
<1>7. ASSUME \/ \E m \in Methods : Bind(m)
             \/ StartPipeServer \/ Shutdown \/ JoinWorkers \/ StopServer \/ JoinServer
             \/ ClientConnects \/ ClientLeaves \/ ReceiveMessage \/ ServerThreadEnds
             \/ UNCHANGED vars
      PROVE  WorkConserving'
  <2>1. UNCHANGED <<tasks_, worker>>
    BY <1>7 DEF Bind, StartPipeServer, Shutdown, JoinWorkers, StopServer, JoinServer,
       ClientConnects, ClientLeaves, ReceiveMessage, ServerThreadEnds, vars
  <2>2. server' = server \/ server \in {"off", "idle"}
    BY <1>7 DEF NotServing, Bind, StartPipeServer, Shutdown, JoinWorkers, StopServer, JoinServer,
       ClientConnects, ClientLeaves, ReceiveMessage, ServerThreadEnds, vars
  <2>3. server' = server \/ server' # "notify"
    BY <1>7 DEF Bind, StartPipeServer, Shutdown, JoinWorkers, StopServer, JoinServer,
       ClientConnects, ClientLeaves, ReceiveMessage, ServerThreadEnds, vars
  <2>4. Pending' = Pending
    BY <2>2, <2>3 DEF Pending
  <2> QED
    BY <2>1, <2>4, ConservingFrame DEF Waiting, Heads, AtLoopHead
<1> QED
  BY <1>1, <1>2, <1>3, <1>4, <1>5, <1>6, <1>7
     DEF Next, MainStep, ServerStep, WorkerStep, Environment, Terminated

\* No wake-up is lost: while a worker sleeps in task_cv_.wait, every queued task
\* has a worker at the loop head or the pending notify_one() coming for it.
THEOREM WorkConservingAlways == Spec => []WorkConserving
<1>1. TypeOK /\ Conserving /\ [Next]_vars => Conserving'
  BY NotServingNext, ConservingNext DEF Conserving
<1>2. Conserving => WorkConserving
  BY DEF Conserving
<1> QED
  BY TypeCorrect, ConservingInit, <1>1, <1>2, PTL DEF Spec

===============================================================================
