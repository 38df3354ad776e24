---------------------------- MODULE DockLinkProofs ----------------------------
(***************************************************************************)
(* What DockLink keeps for any number of registrations and replies: the    *)
(* types, pipe_ in one hand, and no connection that nobody reads.          *)
(*                                                                         *)
(* Both safety properties speak of the first connection, up to the next    *)
(* connect(): then connected_ falls once, and who made it fall and has not *)
(* closed the connection yet is still on the way to it.  While connected_  *)
(* holds there is always a read outstanding, a completion of one in the    *)
(* queue, or a handler that goes on to the next read or to close().        *)
(***************************************************************************)
EXTENDS DockLink, SequenceTheorems, TLAPS

-----------------------------------------------------------------------------
(* The inductive invariant *)

Has(s, op) == \E k \in DOMAIN s : s[k].op = op
WriteOnce(s) == \A k, l \in DOMAIN s : s[k].op = "write" /\ s[l].op = "write" => k = l
Posted(s) == \A k \in DOMAIN s : s[k].op = "post" => s[k].arg \in Handles

\* A message is in write_queue_ until its write has completed without an error,
\* and no second write is begun before.
OneWrite ==
  /\ Len(writing) <= 1
  /\ WriteOnce(ready)
  /\ Posted(ready)
  /\ writing # <<>> => ~Has(ready, "write")
  /\ at["client"] \in {"write", "asyncWrite"} => writing = <<>> /\ ~Has(ready, "write")
  /\ writing # <<>> \/ Has(ready, "write") \/ at["client"] \in {"write", "asyncWrite"} =>
       write_queue_ # <<>>

\* Where the main thread and the threads it started are.
Control ==
  /\ main \in {"connect", "wait", "retry", "spawn", "write"} => registers # 0
  /\ main \in {"connect", "wait", "retry"} => link[registers] = "unused"
  /\ \A i \in Handles : registers < i => link[i] = "unused"
  /\ main = "spawn" \/ clientThread # "none" \/ ioStopped => Opened # {}
  /\ at["client"] # "idle" => clientThread = "running" /\ ~ioStopped
  /\ at["server"] # "idle" => serverThread = "running" /\ handshake = "done"
  /\ at["server"] \in {"idle"} \cup Closing

Single == \A i, j \in Opened : i = j
AllClosed == \A i \in Opened : link[i] = "closed"

Reads == reading # 0 \/ Has(ready, "read") \/ at["client"] \in {"read", "asyncRead", "close", "flag"}

\* The first connection.
Link ==
  /\ pipe_ # 0 => pipe_ \in Opened
  /\ Opened = {} => ~connected_ /\ deleted = {} /\ at["server"] \in {"idle", "close"}
  /\ Single =>
       /\ pipe_ = 0 => AllClosed
       /\ connected_ => /\ pipe_ # 0 /\ Reads /\ ~ioStopped
                        /\ clientThread \notin {"ended", "joined"}
                        /\ \A t \in Threads : at[t] \notin {"test", "handle", "take", "delete", "notify"}
       /\ ~connected_ => AllClosed \/ \E t \in Threads : at[t] \in {"test", "handle"}
       /\ \A t \in Threads : at[t] \in {"take", "delete", "notify"} => AllClosed

\* pipe_ before serverThread_ has a reason to touch it.
Pipe ==
  (Single /\ handshake # "done") =>
    /\ crash \notin {"null", "delete"}
    /\ pipe_ \notin deleted
    /\ at["client"] \in {"flag", "test", "handle", "take", "delete", "asyncRead", "asyncWrite"} => pipe_ # 0
    /\ at["client"] \in {"flag", "asyncRead", "asyncWrite"} => connected_
    /\ at["client"] = "delete" => old["client"] = pipe_

IInv == TypeOK /\ OneWrite /\ Control /\ Link /\ Pipe

-----------------------------------------------------------------------------
(* The completion queue *)

LEMMA AppendCompletion ==
  ASSUME NEW s \in Seq(Completions), NEW c \in Completions
  PROVE  /\ Append(s, c) \in Seq(Completions)
         /\ \A op : Has(Append(s, c), op) <=> Has(s, op) \/ c.op = op
         /\ WriteOnce(s) /\ ~(c.op = "write" /\ Has(s, "write")) => WriteOnce(Append(s, c))
         /\ Posted(s) /\ (c.op = "post" => c.arg \in Handles) => Posted(Append(s, c))
<1> DEFINE u == Append(s, c)
<1>1. /\ u \in Seq(Completions) /\ DOMAIN s = 1..Len(s) /\ Len(s) \in Nat
      /\ DOMAIN u = 1..(Len(s) + 1)
      /\ \A i \in 1..Len(s) : u[i] = s[i]
      /\ u[Len(s) + 1] = c
  BY AppendProperties, LenProperties
<1> HIDE DEF u
<1>2. \A i \in 1..(Len(s) + 1) : i \in 1..Len(s) \/ i = Len(s) + 1
  BY <1>1
<1>3. 1..Len(s) \subseteq 1..(Len(s) + 1) /\ Len(s) + 1 \in 1..(Len(s) + 1)
  BY <1>1
<1>4. \A op : Has(u, op) <=> Has(s, op) \/ c.op = op
  BY <1>1, <1>2, <1>3 DEF Has
<1>5. WriteOnce(s) /\ ~(c.op = "write" /\ Has(s, "write")) => WriteOnce(u)
  BY <1>1, <1>2 DEF Has, WriteOnce
<1>6. Posted(s) /\ (c.op = "post" => c.arg \in Handles) => Posted(u)
  BY <1>1, <1>2 DEF Posted
<1> QED
  BY <1>1, <1>4, <1>5, <1>6 DEF u

LEMMA TailCompletion ==
  ASSUME NEW s \in Seq(Completions), s # <<>>
  PROVE  /\ Tail(s) \in Seq(Completions) /\ Head(s) \in Completions
         /\ \A op : Has(s, op) <=> Head(s).op = op \/ Has(Tail(s), op)
         /\ WriteOnce(s) => WriteOnce(Tail(s)) /\ ~(Head(s).op = "write" /\ Has(Tail(s), "write"))
         /\ Posted(s) => Posted(Tail(s)) /\ (Head(s).op = "post" => Head(s).arg \in Handles)
<1> DEFINE r == Tail(s)
<1>1. /\ r \in Seq(Completions) /\ DOMAIN s = 1..Len(s) /\ Len(s) \in Nat /\ Len(s) # 0
      /\ Head(s) \in Completions /\ Head(s) = s[1]
      /\ DOMAIN r = 1..(Len(s) - 1)
      /\ \A i \in 1..(Len(s) - 1) : r[i] = s[i + 1]
  BY HeadTailProperties, LenProperties, EmptySeq
<1> HIDE DEF r
<1>2. \A i \in 1..Len(s) : i = 1 \/ (i - 1 \in 1..(Len(s) - 1) /\ (i - 1) + 1 = i)
  BY <1>1
<1>3. \A i \in 1..(Len(s) - 1) : i + 1 \in 1..Len(s) /\ i + 1 # 1
  BY <1>1
<1>4. 1 \in DOMAIN s
  BY <1>1
<1>5. ASSUME NEW op PROVE Has(s, op) <=> Head(s).op = op \/ Has(r, op)
  <2>1. ASSUME Has(r, op) PROVE Has(s, op)
    BY <1>1, <1>3, <2>1 DEF Has
  <2>2. Head(s).op = op => Has(s, op)
    BY <1>1, <1>4 DEF Has
  <2>3. ASSUME Has(s, op), Head(s).op # op PROVE Has(r, op)
    <3>1. PICK i \in 1..Len(s) : s[i].op = op
      BY <1>1, <2>3 DEF Has
    <3>2. i - 1 \in 1..(Len(s) - 1) /\ (i - 1) + 1 = i
      BY <1>1, <1>2, <2>3, <3>1
    <3>3. r[i - 1].op = op
      BY <1>1, <3>1, <3>2
    <3> QED
      BY <1>1, <3>2, <3>3 DEF Has
  <2> QED
    BY <2>1, <2>2, <2>3
<1>6. ASSUME WriteOnce(s) PROVE WriteOnce(r) /\ ~(Head(s).op = "write" /\ Has(r, "write"))
  <2>1. ASSUME NEW i \in 1..(Len(s) - 1), NEW j \in 1..(Len(s) - 1),
               r[i].op = "write", r[j].op = "write"
        PROVE  i = j
    <3>1. i + 1 = j + 1
      BY <1>1, <1>3, <1>6, <2>1 DEF WriteOnce
    <3> QED
      BY <3>1
  <2>2. ~(Head(s).op = "write" /\ Has(r, "write"))
    BY <1>1, <1>3, <1>4, <1>6 DEF WriteOnce, Has
  <2> QED
    BY <1>1, <2>1, <2>2 DEF WriteOnce
<1>7. Posted(s) => Posted(r) /\ (Head(s).op = "post" => Head(s).arg \in Handles)
  BY <1>1, <1>3, <1>4 DEF Posted
<1> QED
  BY <1>1, <1>5, <1>6, <1>7 DEF r

LEMMA ConcatCompletions ==
  ASSUME NEW s \in Seq(Completions), NEW u \in Seq(Completions)
  PROVE  /\ s \o u \in Seq(Completions)
         /\ \A op : Has(s \o u, op) <=> Has(s, op) \/ Has(u, op)
         /\ WriteOnce(s) /\ WriteOnce(u) /\ ~(Has(s, "write") /\ Has(u, "write")) => WriteOnce(s \o u)
         /\ Posted(s) /\ Posted(u) => Posted(s \o u)
<1> DEFINE c == s \o u
           m == Len(s)
           n == Len(u)
<1>1. /\ c \in Seq(Completions) /\ DOMAIN s = 1..m /\ DOMAIN u = 1..n /\ m \in Nat /\ n \in Nat
      /\ DOMAIN c = 1..(m + n)
      /\ \A i \in 1..(m + n) : c[i] = IF i <= m THEN s[i] ELSE u[i - m]
  BY ConcatProperties, LenProperties
<1> HIDE DEF c, m, n
<1>2. \A i \in 1..(m + n) : (i <= m => i \in 1..m) /\ (~(i <= m) => i - m \in 1..n)
  BY <1>1
<1>3. \A i \in 1..m : i \in 1..(m + n) /\ i <= m
  BY <1>1
<1>4. \A i \in 1..n : i + m \in 1..(m + n) /\ ~(i + m <= m) /\ (i + m) - m = i
  BY <1>1
<1>5. \A i \in 1..m : i \in DOMAIN c /\ c[i] = s[i]
  BY <1>1, <1>3
<1>6. \A i \in 1..n : i + m \in DOMAIN c /\ c[i + m] = u[i]
  BY <1>1, <1>4
<1>7. \A op : Has(c, op) <=> Has(s, op) \/ Has(u, op)
  BY <1>1, <1>2, <1>5, <1>6 DEF Has
<1>8. ASSUME WriteOnce(s), WriteOnce(u), ~(Has(s, "write") /\ Has(u, "write")) PROVE WriteOnce(c)
  <2> SUFFICES ASSUME NEW i \in 1..(m + n), NEW j \in 1..(m + n), c[i].op = "write", c[j].op = "write"
               PROVE  i = j
    BY <1>1 DEF WriteOnce
  <2>1. CASE i <= m /\ j <= m
    BY <1>1, <1>2, <1>8, <2>1 DEF WriteOnce
  <2>2. CASE ~(i <= m) /\ ~(j <= m)
    <3>1. i - m = j - m
      BY <1>1, <1>2, <1>8, <2>2 DEF WriteOnce
    <3> QED
      BY <1>1, <3>1
  <2>3. CASE i <= m /\ ~(j <= m)
    <3>1. i \in 1..m /\ s[i].op = "write" /\ j - m \in 1..n /\ u[j - m].op = "write"
      BY <1>1, <1>2, <2>3
    <3> QED
      BY <1>1, <1>8, <3>1 DEF Has
  <2>4. CASE ~(i <= m) /\ j <= m
    <3>1. j \in 1..m /\ s[j].op = "write" /\ i - m \in 1..n /\ u[i - m].op = "write"
      BY <1>1, <1>2, <2>4
    <3> QED
      BY <1>1, <1>8, <3>1 DEF Has
  <2> QED
    BY <2>1, <2>2, <2>3, <2>4
<1>9. Posted(s) /\ Posted(u) => Posted(c)
  BY <1>1, <1>2 DEF Posted
<1> QED
  BY <1>1, <1>7, <1>8, <1>9 DEF c

LEMMA Failures ==
  ASSUME TypeOK, Len(writing) <= 1
  PROVE  /\ FailedReads \in Seq(Completions) /\ FailedWrites \in Seq(Completions)
         /\ \A op : Has(FailedReads, op) <=> op = "read" /\ reading # 0
         /\ \A op : Has(FailedWrites, op) <=> op = "write" /\ writing # <<>>
         /\ WriteOnce(FailedReads) /\ WriteOnce(FailedWrites)
         /\ Posted(FailedReads) /\ Posted(FailedWrites)
<1>1. Completion("read", Failed) \in Completions /\ Completion("write", Failed) \in Completions
      /\ Completion("read", Failed).op = "read" /\ Completion("write", Failed).op = "write"
  BY DEF Completion, Completions, Failed
<1>2. /\ FailedReads \in Seq(Completions)
      /\ \A op : Has(FailedReads, op) <=> op = "read" /\ reading # 0
      /\ WriteOnce(FailedReads) /\ Posted(FailedReads)
  <2>1. CASE reading # 0
    <3> DEFINE c == Completion("read", Failed)
    <3>1. FailedReads = <<c>>
      BY <2>1 DEF FailedReads
    <3>2. c \in Completions /\ c.op = "read"
      BY <1>1
    <3> HIDE DEF c
    <3>3. <<c>> \in Seq(Completions) /\ DOMAIN <<c>> = {1} /\ <<c>>[1] = c
      BY <3>2
    <3> QED
      BY <2>1, <3>1, <3>2, <3>3 DEF Has, WriteOnce, Posted
  <2>2. CASE reading = 0
    <3>1. FailedReads = <<>> /\ DOMAIN <<>> = {} /\ <<>> \in Seq(Completions)
      BY <2>2, EmptySeq DEF FailedReads
    <3> QED
      BY <2>2, <3>1 DEF Has, WriteOnce, Posted
  <2> QED
    BY <2>1, <2>2
<1>3. /\ FailedWrites \in Seq(Completions)
      /\ \A op : Has(FailedWrites, op) <=> op = "write" /\ writing # <<>>
      /\ WriteOnce(FailedWrites) /\ Posted(FailedWrites)
  <2> DEFINE c == Completion("write", Failed)
             f == FailedWrites
  <2>1. PICK s \in Seq(Handles) : s = writing
    BY DEF TypeOK
  <2>2. DOMAIN s = 1..Len(s) /\ Len(s) \in Nat /\ Len(s) <= 1 /\ (s = <<>> <=> Len(s) = 0)
    BY <2>1, LenProperties, EmptySeq
  <2>3. f = [k \in 1..Len(s) |-> c]
    BY <2>1, <2>2 DEF FailedWrites
  <2>4. c \in Completions /\ c.op = "write"
    BY <1>1
  <2> HIDE DEF c, f
  <2>5. f \in [1..Len(s) -> Completions] /\ \A k \in 1..Len(s) : f[k] = c
    BY <2>3, <2>4
  <2>6. f \in Seq(Completions)
    BY <2>2, <2>5, SeqDef
  <2>7. DOMAIN f = 1..Len(s) /\ \A k \in 1..Len(s) : f[k].op = "write"
    BY <2>4, <2>5
  <2>8. \A i, j \in 1..Len(s) : i = j
    BY <2>2
  <2>9. WriteOnce(f) /\ Posted(f)
    BY <2>7, <2>8 DEF WriteOnce, Posted
  <2>10. \A op : Has(f, op) <=> op = "write" /\ writing # <<>>
    <3>1. 1..Len(s) # {} <=> s # <<>>
      BY <2>2
    <3> QED
      BY <2>1, <2>7, <3>1 DEF Has
  <2> QED
    BY <2>6, <2>9, <2>10 DEF f
<1> QED
  BY <1>2, <1>3

\* What a lost or closed connection leaves in the queue.
LEMMA Aborted ==
  ASSUME TypeOK, OneWrite, NEW r,
         r = ready \o FailedReads \o FailedWrites \/ r = ready \o FailedWrites \o FailedReads
  PROVE  /\ r \in Seq(Completions)
         /\ Has(r, "read") <=> Has(ready, "read") \/ reading # 0
         /\ Has(r, "write") <=> Has(ready, "write") \/ writing # <<>>
         /\ WriteOnce(r) /\ Posted(r)
<1>1. PICK s \in Seq(Completions), fr \in Seq(Completions), fw \in Seq(Completions) :
        s = ready /\ fr = FailedReads /\ fw = FailedWrites
  BY Failures DEF TypeOK, OneWrite
<1>2. /\ \A op : Has(fr, op) <=> op = "read" /\ reading # 0
      /\ \A op : Has(fw, op) <=> op = "write" /\ writing # <<>>
      /\ WriteOnce(fr) /\ WriteOnce(fw) /\ Posted(fr) /\ Posted(fw)
  BY <1>1, Failures DEF OneWrite
<1>3. WriteOnce(s) /\ Posted(s) /\ ~(Has(s, "write") /\ Has(fw, "write"))
  BY <1>1, <1>2 DEF OneWrite
<1>4. CASE r = (s \o fr) \o fw
  <2>1. /\ s \o fr \in Seq(Completions)
        /\ \A op : Has(s \o fr, op) <=> Has(s, op) \/ Has(fr, op)
        /\ WriteOnce(s \o fr) /\ Posted(s \o fr)
    BY <1>2, <1>3, ConcatCompletions
  <2>2. /\ r \in Seq(Completions)
        /\ \A op : Has(r, op) <=> Has(s \o fr, op) \/ Has(fw, op)
        /\ WriteOnce(r) /\ Posted(r)
    BY <1>2, <1>3, <1>4, <2>1, ConcatCompletions
  <2> QED
    BY <1>1, <1>2, <2>1, <2>2
<1>5. CASE r = (s \o fw) \o fr
  <2>1. /\ s \o fw \in Seq(Completions)
        /\ \A op : Has(s \o fw, op) <=> Has(s, op) \/ Has(fw, op)
        /\ WriteOnce(s \o fw) /\ Posted(s \o fw)
    BY <1>2, <1>3, ConcatCompletions
  <2>2. /\ r \in Seq(Completions)
        /\ \A op : Has(r, op) <=> Has(s \o fw, op) \/ Has(fr, op)
        /\ WriteOnce(r) /\ Posted(r)
    BY <1>2, <1>3, <1>5, <2>1, ConcatCompletions
  <2> QED
    BY <1>1, <1>2, <2>1, <2>2
<1> QED
  BY <1>1, <1>4, <1>5

-----------------------------------------------------------------------------
(* Every action keeps the invariant. *)

LEMMA AppFrame ==
  ASSUME IInv, UNCHANGED <<at, client, io>>,
         handshake' = "done" <=> handshake = "done",
         crash' \in {crash, "terminate"},
         \/ clientThread' \in {"ended", "joined"} => clientThread \in {"ended", "joined"}
         \/ Single => ~connected_,
         ioStopped' = ioStopped \/ (Single => ~connected_)
  PROVE  OneWrite' /\ Link' /\ Pipe'
<1>1. /\ UNCHANGED <<at, connected_, pipe_, old, deleted, link, reading, writing, write_queue_, ready>>
      /\ Opened' = Opened
  BY DEF client, io, Opened
<1>2. OneWrite'
  BY <1>1 DEF IInv, OneWrite, Has, WriteOnce, Posted
<1>3. (Single' <=> Single) /\ (AllClosed' <=> AllClosed) /\ (Reads' <=> Reads)
  BY <1>1 DEF Single, AllClosed, Reads, Has
<1>4. Link'
  BY <1>1, <1>3 DEF IInv, Link
<1>5. Pipe'
  BY <1>1, <1>3 DEF IInv, Pipe
<1> QED
  BY <1>2, <1>4, <1>5

\* The threads outside the handlers.
LEMMA AppSteps ==
  ASSUME IInv,
         \/ RegisterSelf \/ AlreadyConnected \/ PipeBusy \/ WaitEnds \/ ConnectFails
         \/ SpawnClientThread \/ SpawnTerminates \/ StopServer \/ Exec \/ Destroy
         \/ JoinClient("execClient", "execServer") \/ JoinClient("joinClient", "destroyed")
         \/ JoinServer("execServer", "app") \/ JoinServer("joinServer", "joinClient")
         \/ ServerThreadEnds \/ ClientThreadEnds \/ HandshakeStep1 \/ DockPipeChanges \/ DockHandshakes
  PROVE  IInv'
<1> USE DEF app, dock
<1>1. CASE RegisterSelf
  <2>1. /\ registers' = registers + 1 /\ registers' \in Handles /\ main' = "connect"
        /\ UNCHANGED <<clientThread, serverThread, accepted, at, ioStopped, client, io, crash, dock>>
    BY <1>1, LinkAssumption DEF RegisterSelf, IInv, TypeOK, Handles
  <2>2. TypeOK'
    BY <2>1 DEF IInv, TypeOK, client, io, Handles
  <2>3. Control'
    <3>1. registers \in Nat /\ Handles \subseteq Nat /\ registers < registers + 1 /\ registers + 1 # 0
      BY LinkAssumption DEF IInv, TypeOK, Handles
    <3>2. \A i \in Handles : registers + 1 < i => registers < i
      BY <3>1
    <3> QED
      BY <2>1, <3>1, <3>2 DEF IInv, Control, client, Opened
  <2>4. OneWrite' /\ Link' /\ Pipe'
    BY <2>1, AppFrame
  <2> QED
    BY <2>2, <2>3, <2>4 DEF IInv
<1>2. CASE AlreadyConnected \/ PipeBusy \/ WaitEnds \/ ConnectFails \/ StopServer \/ Exec \/ Destroy
  <2>1. /\ UNCHANGED <<clientThread, serverThread, registers, accepted, at, ioStopped, client, io, crash, dock>>
        /\ \/ main = "connect" /\ main' = "spawn" /\ connected_
           \/ main \in {"connect", "wait"} /\ main' \in {"wait", "retry"}
           \/ main' \in {"app", "joinServer", "execClient", "stop"}
    BY <1>2 DEF AlreadyConnected, PipeBusy, WaitEnds, ConnectFails, StopServer, Exec, Destroy, MainGoes
  <2>2. TypeOK'
    BY <2>1 DEF IInv, TypeOK, client, io
  <2>3. Control'
    BY <2>1 DEF IInv, Control, Link, client, Opened
  <2>4. OneWrite' /\ Link' /\ Pipe'
    BY <2>1, AppFrame
  <2> QED
    BY <2>2, <2>3, <2>4 DEF IInv
<1>3. CASE SpawnClientThread
  <2>1. /\ main = "spawn" /\ clientThread \notin {"running", "ended"} /\ clientThread' = "running" /\ main' = "write"
        /\ UNCHANGED <<serverThread, registers, accepted, at, ioStopped, client, io, crash, dock>>
    BY <1>3 DEF SpawnClientThread, Joinable
  <2>2. TypeOK'
    BY <2>1 DEF IInv, TypeOK, client, io
  <2>3. Control'
    BY <2>1 DEF IInv, Control, client, Opened
  <2>4. OneWrite' /\ Link' /\ Pipe'
    BY <2>1, AppFrame
  <2> QED
    BY <2>2, <2>3, <2>4 DEF IInv
<1>4. CASE SpawnTerminates
  <2>1. /\ crash' = "terminate"
        /\ UNCHANGED <<main, clientThread, serverThread, registers, accepted, at, ioStopped, client, io, dock>>
    BY <1>4 DEF SpawnTerminates, Crash
  <2>2. TypeOK'
    BY <2>1 DEF IInv, TypeOK, client, io
  <2>3. Control'
    BY <2>1 DEF IInv, Control, client, Opened
  <2>4. OneWrite' /\ Link' /\ Pipe'
    BY <2>1, AppFrame
  <2> QED
    BY <2>2, <2>3, <2>4 DEF IInv
<1>5. CASE \/ JoinClient("execClient", "execServer") \/ JoinClient("joinClient", "destroyed")
           \/ JoinServer("execServer", "app") \/ JoinServer("joinServer", "joinClient")
  <2>1. /\ UNCHANGED <<registers, accepted, at, ioStopped, client, io, crash, dock>>
        /\ main' \in {"execServer", "destroyed", "app", "joinClient"}
        /\ \/ UNCHANGED clientThread
           \/ clientThread = "ended" /\ clientThread' = "joined"
        /\ \/ UNCHANGED serverThread
           \/ serverThread # "running" /\ serverThread' = "joined"
    BY <1>5 DEF JoinClient, JoinServer, Joinable
  <2>2. TypeOK'
    BY <2>1 DEF IInv, TypeOK, client, io
  <2>3. Control'
    BY <2>1 DEF IInv, Control, client, Opened
  <2>4. OneWrite' /\ Link' /\ Pipe'
    BY <2>1, AppFrame
  <2> QED
    BY <2>2, <2>3, <2>4 DEF IInv
<1>6. CASE ServerThreadEnds
  <2>1. /\ at["server"] = "idle" /\ serverThread' = "ended"
        /\ UNCHANGED <<main, clientThread, registers, accepted, at, ioStopped, client, io, crash, dock>>
    BY <1>6 DEF ServerThreadEnds
  <2>2. TypeOK'
    BY <2>1 DEF IInv, TypeOK, client, io
  <2>3. Control'
    BY <2>1 DEF IInv, Control, client, Opened
  <2>4. OneWrite' /\ Link' /\ Pipe'
    BY <2>1, AppFrame
  <2> QED
    BY <2>2, <2>3, <2>4 DEF IInv
<1>7. CASE ClientThreadEnds
  <2>1. /\ clientThread = "running" /\ at["client"] = "idle" /\ clientThread' = "ended" /\ ioStopped' = TRUE
        /\ ioStopped \/ (ready = <<>> /\ reading = 0)
        /\ UNCHANGED <<main, serverThread, registers, accepted, at, client, io, crash, dock>>
    BY <1>7 DEF ClientThreadEnds
  <2>2. TypeOK'
    BY <2>1 DEF IInv, TypeOK, client, io
  <2>3. Control'
    BY <2>1 DEF IInv, Control, client, Opened
  <2>4. Single => ~connected_
    <3>1. CASE ioStopped
      BY <3>1 DEF IInv, Link
    <3>2. CASE ready = <<>> /\ reading = 0
      <4>1. ~Has(ready, "read")
        BY <3>2 DEF Has
      <4> QED
        BY <2>1, <3>2, <4>1 DEF IInv, Link, Reads
    <3> QED
      BY <2>1, <3>1, <3>2
  <2>5. OneWrite' /\ Link' /\ Pipe'
    BY <2>1, <2>4, AppFrame
  <2> QED
    BY <2>2, <2>3, <2>5 DEF IInv
<1>8. CASE HandshakeStep1 \/ DockPipeChanges \/ DockHandshakes
  <2>1. /\ UNCHANGED <<app, at, ioStopped, client, io, crash, replies, received>>
        /\ handshake' \in {handshake, "step1", "step2", "step3"} /\ dockPipe' \in {"absent", "free", "busy"}
        /\ handshake' # handshake => handshake # "done"
    BY <1>8 DEF HandshakeStep1, DockPipeChanges, DockHandshakes, IInv, TypeOK
  <2>2. TypeOK'
    BY <2>1 DEF IInv, TypeOK, client, io
  <2>3. Control'
    BY <2>1 DEF IInv, Control, client, Opened
  <2>4. OneWrite' /\ Link' /\ Pipe'
    BY <2>1, AppFrame
  <2> QED
    BY <2>2, <2>3, <2>4 DEF IInv
<1> QED
  BY <1>1, <1>2, <1>3, <1>4, <1>5, <1>6, <1>7, <1>8

\* close(), by either thread.
LEMMA CloseSteps ==
  ASSUME IInv, NEW t \in Threads, Close(t)
  PROVE  IInv'
<1> USE DEF app, dock, elsewhere
<1> DEFINE PCs == {"idle", "read", "asyncRead", "write", "asyncWrite"} \cup Closing
<1>1. /\ at[t] # "idle"
      /\ t = "client" => at["server"] = "idle" \/ handshake = "done"
      /\ t = "server" => handshake = "done"
      /\ t = "client" \/ t = "server"
      /\ Opened = {} => t = "server" /\ at[t] = "close"
  BY DEF Close, CloseConnected, CloseFlag, CloseTest, CloseHandle, ResetTakes, ResetDeletes, NotifyClosed,
         IInv, Control, Link, Threads
\* The thread moves from one place in close() to the next, or out of it.
<1>2. ASSUME NEW pc \in {"idle", "flag", "test", "handle", "take", "delete", "notify"}, Goto(t, pc)
      PROVE  /\ at' \in [Threads -> PCs]
             /\ \A u \in Threads : at'[u] = IF u = t THEN pc ELSE at[u]
             /\ at'["client"] # "idle" => at["client"] # "idle"
             /\ at'["server"] # "idle" => at["server"] # "idle"
             /\ at'["server"] \in {"idle"} \cup Closing
             /\ at'["client"] \in {"write", "asyncWrite"} => at["client"] \in {"write", "asyncWrite"}
  BY <1>1, <1>2 DEF Goto, IInv, TypeOK, Control, Closing, Threads
<1>3. CASE CloseConnected(t)
  <2> DEFINE pc == IF connected_ THEN "flag" ELSE "idle"
  <2>1. /\ at[t] = "close" /\ Goto(t, pc) /\ pc \in {"idle", "flag"}
        /\ UNCHANGED <<elsewhere, client, io>>
    BY <1>3 DEF CloseConnected
  <2>2. /\ UNCHANGED <<connected_, pipe_, old, deleted, link, notices, reading, writing, write_queue_, ready>>
        /\ Opened' = Opened /\ (Single' <=> Single) /\ (AllClosed' <=> AllClosed)
    BY <2>1 DEF client, io, Opened, Single, AllClosed
  <2>3. TypeOK' /\ Control'
    BY <1>2, <2>1, <2>2 DEF IInv, TypeOK, Control
  <2>4. OneWrite'
    BY <1>2, <2>1, <2>2 DEF IInv, OneWrite, Has, WriteOnce, Posted
  <2>5. connected_ /\ Reads => Reads'
    BY <1>2, <2>1, <2>2 DEF Reads, Has, Threads
  <2>6. Link'
    BY <1>1, <1>2, <2>1, <2>2, <2>5 DEF IInv, Link, Threads
  <2>7. Pipe'
    BY <1>1, <1>2, <2>1, <2>2 DEF IInv, Pipe, Link, Threads
  <2> QED
    BY <2>3, <2>4, <2>6, <2>7 DEF IInv
<1>4. CASE CloseFlag(t)
  <2>1. /\ at[t] = "flag" /\ connected_' = FALSE /\ Goto(t, "test")
        /\ UNCHANGED <<elsewhere, pipe_, old, deleted, link, notices, io>>
    BY <1>4 DEF CloseFlag
  <2>2. /\ UNCHANGED <<reading, writing, write_queue_, ready>>
        /\ Opened' = Opened /\ (Single' <=> Single) /\ (AllClosed' <=> AllClosed)
    BY <2>1 DEF io, Opened, Single, AllClosed
  <2>3. TypeOK' /\ Control'
    <3>1. connected_' \in BOOLEAN
      BY <2>1
    <3>2. TypeOK'
      BY <1>2, <2>1, <2>2, <3>1 DEF IInv, TypeOK
    <3>3. Control'
      BY <1>2, <2>1, <2>2 DEF IInv, Control
    <3> QED
      BY <3>2, <3>3
  <2>4. OneWrite'
    BY <1>2, <2>1, <2>2 DEF IInv, OneWrite, Has, WriteOnce, Posted
  <2>5. Link'
    BY <1>1, <1>2, <2>1, <2>2 DEF IInv, Link, Threads
  <2>6. Pipe'
    BY <1>1, <1>2, <2>1, <2>2 DEF IInv, Pipe, Threads
  <2> QED
    BY <2>3, <2>4, <2>5, <2>6 DEF IInv
<1>5. CASE CloseTest(t)
  <2> DEFINE pc == IF pipe_ # 0 THEN "handle" ELSE "notify"
  <2>1. /\ at[t] = "test" /\ Goto(t, pc) /\ pc \in {"handle", "notify"}
        /\ UNCHANGED <<elsewhere, client, io>>
    BY <1>5 DEF CloseTest
  <2>2. /\ UNCHANGED <<connected_, pipe_, old, deleted, link, notices, reading, writing, write_queue_, ready>>
        /\ Opened' = Opened /\ (Single' <=> Single) /\ (AllClosed' <=> AllClosed)
    BY <2>1 DEF client, io, Opened, Single, AllClosed
  <2>3. TypeOK' /\ Control'
    BY <1>2, <2>1, <2>2 DEF IInv, TypeOK, Control
  <2>4. OneWrite'
    BY <1>2, <2>1, <2>2 DEF IInv, OneWrite, Has, WriteOnce, Posted
  <2>5. Link'
    BY <1>1, <1>2, <2>1, <2>2 DEF IInv, Link, Threads
  <2>6. Pipe'
    BY <1>1, <1>2, <2>1, <2>2 DEF IInv, Pipe, Threads
  <2> QED
    BY <2>3, <2>4, <2>5, <2>6 DEF IInv
<1>6. CASE CloseHandle(t) /\ pipe_ = 0
  <2>1. at[t] = "handle" /\ crash' = "null" /\ UNCHANGED <<app, at, ioStopped, client, io, dock>>
    BY <1>6 DEF CloseHandle, Crash
  <2>2. /\ UNCHANGED <<connected_, pipe_, old, deleted, link, notices, reading, writing, write_queue_, ready>>
        /\ Opened' = Opened /\ (Single' <=> Single) /\ (AllClosed' <=> AllClosed) /\ (Reads' <=> Reads)
    BY <2>1 DEF client, io, Opened, Single, AllClosed, Reads, Has
  <2>3. TypeOK' /\ Control'
    BY <2>1, <2>2 DEF IInv, TypeOK, Control
  <2>4. OneWrite'
    BY <2>1, <2>2 DEF IInv, OneWrite, Has, WriteOnce, Posted
  <2>5. Link'
    BY <2>1, <2>2 DEF IInv, Link
  <2>6. Pipe'
    BY <1>1, <1>6, <2>1, <2>2 DEF IInv, Pipe
  <2> QED
    BY <2>3, <2>4, <2>5, <2>6 DEF IInv
<1>7. CASE CloseHandle(t) /\ pipe_ # 0
  <2>1. /\ at[t] = "handle" /\ Goto(t, "take")
        /\ link' = [link EXCEPT ![pipe_] = "closed"] /\ reading' = 0 /\ writing' = <<>>
        /\ ready' = ready \o FailedReads \o FailedWrites
        /\ UNCHANGED <<app, ioStopped, connected_, pipe_, old, deleted, notices, write_queue_, crash, dock>>
    BY <1>7 DEF CloseHandle
  <2>2. /\ ready' \in Seq(Completions)
        /\ Has(ready', "write") <=> Has(ready, "write") \/ writing # <<>>
        /\ WriteOnce(ready') /\ Posted(ready)'
    BY <2>1, Aborted DEF IInv, Posted
  <2>3. pipe_ \in Opened /\ pipe_ \in Handles
    BY <1>7 DEF IInv, Link, Opened
  <2>4. \A i \in Handles : link'[i] = IF i = pipe_ THEN "closed" ELSE link[i]
    BY <2>1 DEF IInv, TypeOK
  <2>5. Opened' = Opened /\ (Single' <=> Single) /\ (Single => AllClosed')
    <3>1. Opened' = Opened
      BY <2>3, <2>4 DEF Opened
    <3> QED
      BY <2>3, <2>4, <3>1 DEF Single, AllClosed, Opened
  <2>6. TypeOK'
    <3>1. link' \in [Handles -> {"unused", "open", "broken", "closed"}] /\ <<>> \in Seq(Handles)
      BY <2>1, EmptySeq DEF IInv, TypeOK
    <3> QED
      BY <1>2, <2>1, <2>2, <3>1 DEF IInv, TypeOK
  <2>7. Control'
    <3>1. \A i \in Handles : link[i] = "unused" => link'[i] = "unused"
      BY <2>3, <2>4 DEF Opened
    <3>2. main \in {"connect", "wait", "retry"} => registers \in Handles
      BY DEF IInv, TypeOK, Control, Handles
    <3> QED
      BY <1>2, <2>1, <2>5, <3>1, <3>2 DEF IInv, Control
  <2>8. OneWrite'
    <3>1. writing' = <<>> /\ Len(writing') <= 1
      BY <2>1, EmptySeq
    <3> QED
      BY <1>2, <2>1, <2>2, <3>1 DEF IInv, OneWrite
  <2>9. Link'
    BY <1>1, <1>2, <2>1, <2>3, <2>5 DEF IInv, Link, Threads
  <2>10. Pipe'
    BY <1>1, <1>2, <2>1, <2>5 DEF IInv, Pipe, Threads
  <2> QED
    BY <2>6, <2>7, <2>8, <2>9, <2>10 DEF IInv
<1>8. CASE ResetTakes(t)
  <2>1. /\ at[t] = "take" /\ Goto(t, "delete") /\ old' = [old EXCEPT ![t] = pipe_]
        /\ UNCHANGED <<elsewhere, connected_, pipe_, deleted, link, notices, io>>
    BY <1>8 DEF ResetTakes
  <2>2. /\ UNCHANGED <<reading, writing, write_queue_, ready>>
        /\ Opened' = Opened /\ (Single' <=> Single) /\ (AllClosed' <=> AllClosed)
    BY <2>1 DEF io, Opened, Single, AllClosed
  <2>3. TypeOK' /\ Control'
    BY <1>2, <2>1, <2>2 DEF IInv, TypeOK, Control
  <2>4. OneWrite'
    BY <1>2, <2>1, <2>2 DEF IInv, OneWrite, Has, WriteOnce, Posted
  <2>5. Link'
    BY <1>1, <1>2, <2>1, <2>2 DEF IInv, Link, Threads
  <2>6. Pipe'
    <3>1. old'[t] = pipe_
      BY <2>1 DEF IInv, TypeOK
    <3> QED
      BY <1>1, <1>2, <2>1, <2>2, <3>1 DEF IInv, Pipe, Threads
  <2> QED
    BY <2>3, <2>4, <2>5, <2>6 DEF IInv
<1>9. CASE ResetDeletes(t) /\ old[t] \in deleted
  <2>1. at[t] = "delete" /\ crash' = "delete" /\ UNCHANGED <<app, at, ioStopped, client, io, dock>>
    BY <1>9 DEF ResetDeletes, Crash
  <2>2. /\ UNCHANGED <<connected_, pipe_, old, deleted, link, notices, reading, writing, write_queue_, ready>>
        /\ Opened' = Opened /\ (Single' <=> Single) /\ (AllClosed' <=> AllClosed) /\ (Reads' <=> Reads)
    BY <2>1 DEF client, io, Opened, Single, AllClosed, Reads, Has
  <2>3. TypeOK' /\ Control'
    BY <2>1, <2>2 DEF IInv, TypeOK, Control
  <2>4. OneWrite'
    BY <2>1, <2>2 DEF IInv, OneWrite, Has, WriteOnce, Posted
  <2>5. Link'
    BY <2>1, <2>2 DEF IInv, Link
  <2>6. Pipe'
    BY <1>1, <1>9, <2>1, <2>2 DEF IInv, Pipe
  <2> QED
    BY <2>3, <2>4, <2>5, <2>6 DEF IInv
<1>10. CASE ResetDeletes(t) /\ old[t] \notin deleted
  <2>1. /\ at[t] = "delete" /\ Goto(t, "notify") /\ pipe_' = 0 /\ deleted' = deleted \cup ({old[t]} \ {0})
        /\ UNCHANGED <<elsewhere, connected_, old, link, notices, io>>
    BY <1>10 DEF ResetDeletes
  <2>2. /\ UNCHANGED <<reading, writing, write_queue_, ready>>
        /\ Opened' = Opened /\ (Single' <=> Single) /\ (AllClosed' <=> AllClosed)
    BY <2>1 DEF io, Opened, Single, AllClosed
  <2>3. 0 \notin deleted' /\ deleted' \subseteq Handles
    <3>1. 0 \notin Handles
      BY LinkAssumption DEF Handles
    <3>2. deleted \subseteq Handles /\ old[t] \in Handles \cup {0}
      BY DEF IInv, TypeOK
    <3> QED
      BY <2>1, <3>1, <3>2
  <2>4. TypeOK' /\ Control'
    BY <1>2, <2>1, <2>2, <2>3 DEF IInv, TypeOK, Control
  <2>5. OneWrite'
    BY <1>2, <2>1, <2>2 DEF IInv, OneWrite, Has, WriteOnce, Posted
  <2>6. Link'
    BY <1>1, <1>2, <2>1, <2>2 DEF IInv, Link, Threads
  <2>7. Pipe'
    BY <1>1, <1>2, <2>1, <2>2, <2>3 DEF IInv, Pipe, Threads
  <2> QED
    BY <2>4, <2>5, <2>6, <2>7 DEF IInv
<1>11. CASE NotifyClosed(t)
  <2>1. /\ at[t] = "notify" /\ Goto(t, "idle") /\ notices' = notices + 1
        /\ UNCHANGED <<elsewhere, connected_, pipe_, old, deleted, link, io>>
    BY <1>11 DEF NotifyClosed
  <2>2. /\ UNCHANGED <<reading, writing, write_queue_, ready>>
        /\ Opened' = Opened /\ (Single' <=> Single) /\ (AllClosed' <=> AllClosed)
    BY <2>1 DEF io, Opened, Single, AllClosed
  <2>3. TypeOK' /\ Control'
    BY <1>2, <2>1, <2>2 DEF IInv, TypeOK, Control
  <2>4. OneWrite'
    BY <1>2, <2>1, <2>2 DEF IInv, OneWrite, Has, WriteOnce, Posted
  <2>5. Link'
    BY <1>1, <1>2, <2>1, <2>2 DEF IInv, Link, Threads
  <2>6. Pipe'
    BY <1>1, <1>2, <2>1, <2>2 DEF IInv, Pipe, Threads
  <2> QED
    BY <2>3, <2>4, <2>5, <2>6 DEF IInv
<1> QED
  BY <1>3, <1>4, <1>5, <1>6, <1>7, <1>8, <1>9, <1>10, <1>11 DEF Close

LEMMA ClientGoes ==
  ASSUME IInv, NEW pc \in {"idle", "read", "asyncRead", "write", "asyncWrite", "close"}, Goto("client", pc),
         at["client"] # "idle" \/ CanRun
  PROVE  /\ at' \in [Threads -> {"idle", "read", "asyncRead", "write", "asyncWrite"} \cup Closing]
         /\ at'["client"] = pc /\ at'["server"] = at["server"]
         /\ clientThread = "running" /\ ~ioStopped /\ Opened # {}
<1>1. "client" \in Threads /\ "server" \in Threads /\ "client" # "server"
  BY DEF Threads
<1>2. pc \in {"idle", "read", "asyncRead", "write", "asyncWrite"} \cup Closing
  BY DEF Closing
<1>3. clientThread = "running" /\ ~ioStopped /\ Opened # {}
  BY DEF IInv, Control, CanRun
<1> QED
  BY <1>1, <1>2, <1>3 DEF Goto, IInv, TypeOK

\* The handlers of io_context_client_.
LEMMA HandlerSteps ==
  ASSUME IInv, ReadHandler \/ PostHandler \/ WriteHandler
  PROVE  IInv'
<1> USE DEF app, dock, elsewhere, client
<1>1. /\ CanRun /\ at["client"] = "idle" /\ ready # <<>> /\ ready' = Tail(ready)
      /\ UNCHANGED <<app, ioStopped, crash, dock, connected_, pipe_, old, deleted, link, notices, reading, writing>>
  BY DEF ReadHandler, PostHandler, WriteHandler, Next_, CanRun
<1>2. PICK r \in Seq(Completions) : r = ready
  BY DEF IInv, TypeOK
<1>3. PICK q \in Seq(Handles) : q = write_queue_
  BY DEF IInv, TypeOK
<1> DEFINE c == Head(ready)
<1>5. /\ ready' \in Seq(Completions) /\ c \in Completions
      /\ \A op : Has(ready, op) <=> c.op = op \/ Has(ready', op)
      /\ WriteOnce(ready') /\ ~(c.op = "write" /\ Has(ready', "write"))
      /\ Posted(ready)' /\ (c.op = "post" => c.arg \in Handles)
  <2>1. WriteOnce(r) /\ Posted(r) /\ r # <<>> /\ ready' = Tail(r) /\ c = Head(r)
    BY <1>1, <1>2 DEF IInv, OneWrite
  <2> HIDE DEF c
  <2>2. /\ Tail(r) \in Seq(Completions) /\ Head(r) \in Completions
        /\ \A op : Has(r, op) <=> Head(r).op = op \/ Has(Tail(r), op)
        /\ WriteOnce(Tail(r)) /\ ~(Head(r).op = "write" /\ Has(Tail(r), "write"))
        /\ Posted(Tail(r)) /\ (Head(r).op = "post" => Head(r).arg \in Handles)
    BY <2>1, TailCompletion
  <2>3. Posted(ready)'
    BY <2>1, <2>2 DEF Posted
  <2> QED
    BY <1>2, <2>1, <2>2, <2>3
<1> HIDE DEF c
<1>6. Opened' = Opened /\ (Single' <=> Single) /\ (AllClosed' <=> AllClosed)
  BY <1>1 DEF Opened, Single, AllClosed
\* What is left to show of a handler that goes on at pc.
<1>7. ASSUME NEW pc \in {"idle", "read", "write", "close"}, Goto("client", pc),
             write_queue_' \in Seq(Handles),
             c.op = "read" => pc \in {"read", "close"},
             pc = "write" => writing = <<>> /\ ~Has(ready', "write"),
             writing # <<>> \/ Has(ready', "write") \/ pc = "write" => write_queue_' # <<>>
      PROVE  IInv'
  <2>1. /\ at' \in [Threads -> {"idle", "read", "asyncRead", "write", "asyncWrite"} \cup Closing]
        /\ at'["client"] = pc /\ at'["server"] = at["server"]
        /\ clientThread = "running" /\ ~ioStopped /\ Opened # {}
    BY <1>1, <1>7, ClientGoes
  <2>2. \A t \in Threads : \/ at'[t] = at[t]
                           \/ at'[t] = pc /\ at[t] = "idle"
    BY <1>1, <2>1 DEF Threads
  <2>3. TypeOK'
    BY <1>1, <1>5, <1>7, <2>1 DEF IInv, TypeOK
  <2>4. OneWrite'
    BY <1>1, <1>5, <1>7, <2>1 DEF IInv, OneWrite
  <2>5. Control'
    BY <1>1, <1>6, <2>1 DEF IInv, Control
  <2>6. Reads => Reads'
    BY <1>1, <1>5, <1>7, <2>1 DEF Reads
  <2>7. Link'
    BY <1>1, <1>6, <2>1, <2>2, <2>6 DEF IInv, Link
  <2>8. Pipe'
    BY <1>1, <1>6, <2>1 DEF IInv, Pipe
  <2> QED
    BY <2>3, <2>4, <2>5, <2>7, <2>8 DEF IInv
<1>8. writing # <<>> \/ Has(ready', "write") => write_queue_ # <<>>
  BY <1>5 DEF IInv, OneWrite
<1>9. CASE ReadHandler
  <2>1. /\ c.op = "read" /\ UNCHANGED write_queue_
        /\ Goto("client", IF c.arg = OK THEN "read" ELSE "close")
    BY <1>9 DEF ReadHandler, Next_, c
  <2>2. PICK pc \in {"read", "close"} : Goto("client", pc)
    BY <2>1
  <2> QED
    BY <1>3, <1>7, <1>8, <2>1, <2>2
<1>10. CASE PostHandler
  <2>1. /\ c.op = "post" /\ write_queue_' = Append(q, c.arg)
        /\ Goto("client", IF q = <<>> THEN "write" ELSE "idle")
    BY <1>3, <1>10 DEF PostHandler, Next_, c
  <2>2. write_queue_' \in Seq(Handles) /\ write_queue_' # <<>>
    <3>1. c.arg \in Handles
      BY <1>5, <2>1
    <3> QED
      BY <1>3, <2>1, <3>1, AppendProperties
  <2>3. PICK pc \in {"write", "idle"} : Goto("client", pc) /\ (pc = "write" => q = <<>>)
    BY <2>1
  <2>4. q = <<>> => writing = <<>> /\ ~Has(ready', "write")
    BY <1>3, <1>8
  <2> QED
    BY <1>7, <2>1, <2>2, <2>3, <2>4
<1>11. CASE WriteHandler
  <2>1. c.op = "write" /\ Has(ready, "write")
    BY <1>5, <1>11 DEF WriteHandler, Next_, c
  <2>2. q # <<>> /\ writing = <<>> /\ ~Has(ready', "write")
    BY <1>3, <1>5, <2>1 DEF IInv, OneWrite
  <2>3. CASE c.arg = OK
    <3>1. /\ write_queue_' = Tail(q)
          /\ Goto("client", IF Len(q) > 1 THEN "write" ELSE "idle")
      BY <1>3, <1>11, <2>3 DEF WriteHandler, c
    <3>2. Tail(q) \in Seq(Handles) /\ (Len(q) > 1 => Tail(q) # <<>>)
      <4>1. Tail(q) \in Seq(Handles) /\ Len(Tail(q)) = Len(q) - 1 /\ Len(q) \in Nat
        BY <2>2, HeadTailProperties, LenProperties
      <4>2. Tail(q) = <<>> => Len(Tail(q)) = 0
        BY EmptySeq
      <4> QED
        BY <4>1, <4>2
    <3>3. PICK pc \in {"write", "idle"} : Goto("client", pc) /\ (pc = "write" => Len(q) > 1)
      BY <3>1
    <3> QED
      BY <1>7, <2>1, <2>2, <3>1, <3>2, <3>3
  <2>4. CASE c.arg # OK
    <3>1. UNCHANGED write_queue_ /\ Goto("client", "close")
      BY <1>11, <2>4 DEF WriteHandler, c
    <3> QED
      BY <1>3, <1>7, <2>1, <2>2, <3>1
  <2> QED
    BY <2>3, <2>4
<1> QED
  BY <1>9, <1>10, <1>11

\* start_read() and do_write(): the guard, and the call through pipe_.
LEMMA GuardStep ==
  ASSUME IInv, Guard
  PROVE  IInv'
<1> USE DEF app, dock, elsewhere, client, io
<1>1. at["client"] \in {"read", "write"} /\ UNCHANGED <<elsewhere, client, io>>
  BY DEF Guard
<1>2. PICK pc \in {"idle", "asyncRead", "asyncWrite"} :
        /\ Goto("client", pc)
        /\ pc # "idle" => connected_ /\ pipe_ # 0
        /\ pc = "asyncWrite" => at["client"] = "write" /\ write_queue_ # <<>>
        /\ at["client"] = "read" /\ connected_ /\ pipe_ # 0 => pc = "asyncRead"
  <2> DEFINE go == IF ~connected_ \/ pipe_ = 0 THEN "idle"
                   ELSE IF at["client"] = "read" THEN "asyncRead"
                   ELSE IF write_queue_ # <<>> THEN "asyncWrite" ELSE "idle"
  <2>4. Goto("client", go)
    BY DEF Guard
  <2>1. CASE ~connected_ \/ pipe_ = 0
    <3>1. go = "idle"
      BY <2>1
    <3> QED
      BY <2>1, <2>4, <3>1
  <2>2. CASE connected_ /\ pipe_ # 0 /\ at["client"] = "read"
    <3>1. go = "asyncRead"
      BY <2>2
    <3> QED
      BY <2>2, <2>4, <3>1
  <2>3. CASE connected_ /\ pipe_ # 0 /\ at["client"] = "write"
    <3>1. go = IF write_queue_ # <<>> THEN "asyncWrite" ELSE "idle"
      BY <2>3
    <3> HIDE DEF go
    <3> QED
      BY <2>3, <2>4, <3>1
  <2> QED
    BY <1>1, <2>1, <2>2, <2>3
<1>3. /\ at' \in [Threads -> {"idle", "read", "asyncRead", "write", "asyncWrite"} \cup Closing]
      /\ at'["client"] = pc /\ at'["server"] = at["server"]
      /\ clientThread = "running" /\ ~ioStopped /\ Opened # {}
  BY <1>1, <1>2, ClientGoes
<1>4. \A t \in Threads : \/ at'[t] = at[t]
                         \/ at'[t] = pc /\ at[t] \in {"read", "write"}
  BY <1>1, <1>3 DEF Threads
<1>5. Opened' = Opened /\ (Single' <=> Single) /\ (AllClosed' <=> AllClosed)
  BY <1>1 DEF Opened, Single, AllClosed
<1>6. TypeOK'
  BY <1>1, <1>3 DEF IInv, TypeOK
<1>7. OneWrite'
  BY <1>1, <1>2, <1>3 DEF IInv, OneWrite, Has, WriteOnce, Posted
<1>8. Control'
  BY <1>1, <1>3, <1>5 DEF IInv, Control
<1>9. connected_ /\ pipe_ # 0 /\ Reads => Reads'
  BY <1>1, <1>2, <1>3 DEF Reads, Has
<1>10. Link'
  BY <1>1, <1>3, <1>4, <1>5, <1>9 DEF IInv, Link
<1>11. Pipe'
  BY <1>1, <1>2, <1>3, <1>5 DEF IInv, Pipe
<1> QED
  BY <1>6, <1>7, <1>8, <1>10, <1>11 DEF IInv

LEMMA AsyncSteps ==
  ASSUME IInv, AsyncRead \/ AsyncWrite
  PROVE  IInv'
<1> USE DEF app, dock, elsewhere, client
<1>1. at["client"] \in {"asyncRead", "asyncWrite"}
  BY DEF AsyncRead, AsyncWrite
<1>2. CASE pipe_ = 0
  <2>1. crash' = "null" /\ UNCHANGED <<app, at, ioStopped, client, io, dock>>
    BY <1>2 DEF AsyncRead, AsyncWrite, Crash
  <2>2. /\ UNCHANGED <<connected_, pipe_, old, deleted, link, notices, reading, writing, write_queue_, ready>>
        /\ Opened' = Opened /\ (Single' <=> Single) /\ (AllClosed' <=> AllClosed) /\ (Reads' <=> Reads)
    BY <2>1 DEF io, Opened, Single, AllClosed, Reads, Has
  <2>3. TypeOK' /\ Control'
    BY <2>1, <2>2 DEF IInv, TypeOK, Control
  <2>4. OneWrite'
    BY <2>1, <2>2 DEF IInv, OneWrite, Has, WriteOnce, Posted
  <2>5. Link'
    BY <2>1, <2>2 DEF IInv, Link
  <2>6. Pipe'
    BY <1>1, <1>2, <2>1, <2>2 DEF IInv, Pipe
  <2> QED
    BY <2>3, <2>4, <2>5, <2>6 DEF IInv
<1>3. CASE pipe_ # 0
  <2>1. /\ Goto("client", "idle")
        /\ UNCHANGED <<app, ioStopped, crash, dock, connected_, pipe_, old, deleted, link, notices, write_queue_>>
    BY <1>3 DEF AsyncRead, AsyncWrite
  <2>2. /\ at' \in [Threads -> {"idle", "read", "asyncRead", "write", "asyncWrite"} \cup Closing]
        /\ at'["client"] = "idle" /\ at'["server"] = at["server"]
        /\ clientThread = "running" /\ ~ioStopped /\ Opened # {}
    BY <1>1, <2>1, ClientGoes
  <2>3. \A t \in Threads : \/ at'[t] = at[t]
                           \/ at'[t] = "idle" /\ at[t] \in {"asyncRead", "asyncWrite"}
    BY <1>1, <2>2 DEF Threads
  <2>4. Opened' = Opened /\ (Single' <=> Single) /\ (AllClosed' <=> AllClosed)
    BY <2>1 DEF Opened, Single, AllClosed
  <2>5. PICK r \in Seq(Completions) : r = ready /\ WriteOnce(r) /\ Posted(r)
    BY DEF IInv, TypeOK, OneWrite
  <2>6. pipe_ \in Handles
    BY <1>3 DEF IInv, TypeOK
  <2>7. CASE AsyncRead
    <3>1. /\ at["client"] = "asyncRead" /\ UNCHANGED writing
          /\ \/ reading' = pipe_ /\ ready' = ready
             \/ reading' = reading /\ ready' = Append(r, Completion("read", Failed))
      BY <1>3, <2>5, <2>7 DEF AsyncRead
    <3>10. Completion("read", Failed) \in Completions /\ Completion("read", Failed).op = "read"
      BY DEF Completion, Completions, Failed
    <3>2. PICK c \in Completions : c = Completion("read", Failed) /\ c.op = "read"
      BY <3>10, Zenon
    <3>3. /\ ready' \in Seq(Completions) /\ WriteOnce(ready') /\ Posted(ready)'
          /\ Has(ready', "write") <=> Has(ready, "write")
          /\ reading' # 0 \/ Has(ready', "read")
      <4>1. CASE reading' = pipe_ /\ ready' = ready
        BY <1>3, <2>5, <4>1 DEF Has, WriteOnce, Posted
      <4>2. CASE ready' = Append(r, c)
        <5>1. /\ Append(r, c) \in Seq(Completions) /\ WriteOnce(Append(r, c)) /\ Posted(Append(r, c))
              /\ \A op : Has(Append(r, c), op) <=> Has(r, op) \/ c.op = op
          BY <2>5, <3>2, AppendCompletion
        <5>2. Posted(ready)'
          BY <4>2, <5>1 DEF Posted
        <5> QED
          BY <2>5, <3>2, <4>2, <5>1, <5>2
      <4> QED
        BY <3>1, <3>2, <4>1, <4>2
    <3>4. TypeOK'
      BY <2>1, <2>2, <2>6, <3>1, <3>3 DEF IInv, TypeOK
    <3>5. OneWrite'
      BY <2>1, <2>2, <3>1, <3>3 DEF IInv, OneWrite
    <3>6. Control'
      BY <2>1, <2>2, <2>4 DEF IInv, Control
    <3>7. Reads'
      BY <3>3 DEF Reads
    <3>8. Link'
      BY <2>1, <2>2, <2>3, <2>4, <3>7 DEF IInv, Link
    <3>9. Pipe'
      BY <2>1, <2>2, <2>4 DEF IInv, Pipe
    <3> QED
      BY <3>4, <3>5, <3>6, <3>8, <3>9 DEF IInv
  <2>8. CASE AsyncWrite
    <3>1. /\ at["client"] = "asyncWrite" /\ UNCHANGED reading
          /\ \/ writing' = Append(writing, Head(write_queue_)) /\ ready' = ready
             \/ writing' = writing /\ ready' = Append(r, Completion("write", Failed))
      BY <1>3, <2>5, <2>8 DEF AsyncWrite
    <3>2. writing = <<>> /\ ~Has(ready, "write") /\ write_queue_ # <<>>
      BY <3>1 DEF IInv, OneWrite
    <3>3. /\ writing' \in Seq(Handles) /\ Len(writing') <= 1
          /\ ready' \in Seq(Completions) /\ WriteOnce(ready') /\ Posted(ready)'
          /\ writing' # <<>> => ~Has(ready', "write")
          /\ Has(ready, "read") => Has(ready', "read")
      <4>1. CASE writing' = Append(writing, Head(write_queue_)) /\ ready' = ready
        <5>1. PICK q \in Seq(Handles) : q = write_queue_ /\ Head(q) \in Handles
          BY <3>2, HeadTailProperties DEF IInv, TypeOK
        <5>2. <<>> \in Seq(Handles) /\ Len(<<>>) = 0
          BY EmptySeq
        <5>3. Append(<<>>, Head(q)) \in Seq(Handles) /\ Len(Append(<<>>, Head(q))) = 1
          BY <5>1, <5>2, AppendProperties
        <5>4. writing' \in Seq(Handles) /\ Len(writing') <= 1
          BY <3>2, <4>1, <5>1, <5>3
        <5>5. ready' \in Seq(Completions) /\ WriteOnce(ready') /\ Posted(ready)'
          BY <2>5, <4>1 DEF WriteOnce, Posted
        <5> QED
          BY <3>2, <4>1, <5>4, <5>5 DEF Has
      <4>2. CASE writing' = writing /\ ready' = Append(r, Completion("write", Failed))
        <5>5. Completion("write", Failed) \in Completions /\ Completion("write", Failed).op = "write"
          BY DEF Completion, Completions, Failed
        <5>1. PICK c \in Completions : c = Completion("write", Failed) /\ c.op = "write"
          BY <5>5, Zenon
        <5>2. /\ Append(r, c) \in Seq(Completions) /\ WriteOnce(Append(r, c)) /\ Posted(Append(r, c))
              /\ \A op : Has(Append(r, c), op) <=> Has(r, op) \/ c.op = op
          BY <2>5, <3>2, <5>1, AppendCompletion
        <5>3. Posted(ready)'
          BY <4>2, <5>1, <5>2 DEF Posted
        <5>4. writing' \in Seq(Handles) /\ Len(writing') <= 1 /\ writing' = <<>>
          BY <3>2, <4>2 DEF IInv, TypeOK, OneWrite
        <5> QED
          BY <2>5, <4>2, <5>1, <5>2, <5>3, <5>4
      <4> QED
        BY <3>1, <4>1, <4>2
    <3>4. TypeOK'
      BY <2>1, <2>2, <3>1, <3>3 DEF IInv, TypeOK
    <3>5. OneWrite'
      BY <2>1, <2>2, <3>2, <3>3 DEF IInv, OneWrite
    <3>6. Control'
      BY <2>1, <2>2, <2>4 DEF IInv, Control
    <3>7. Reads => Reads'
      BY <3>1, <3>3 DEF Reads
    <3>8. Link'
      BY <2>1, <2>2, <2>3, <2>4, <3>7 DEF IInv, Link
    <3>9. Pipe'
      BY <2>1, <2>2, <2>4 DEF IInv, Pipe
    <3> QED
      BY <3>4, <3>5, <3>6, <3>8, <3>9 DEF IInv
  <2> QED
    BY <2>7, <2>8
<1> QED
  BY <1>2, <1>3

\* connect(): the first connection, or one more than Single allows.
LEMMA OpenStep ==
  ASSUME IInv, Open, crash = "none"
  PROVE  IInv'
<1> USE DEF app, dock
<1>1. /\ main \in {"connect", "retry"} /\ main' = "spawn" /\ dockPipe' = "busy"
      /\ pipe_' = registers /\ deleted' = deleted \cup ({pipe_} \ {0})
      /\ link' = [link EXCEPT ![registers] = "open"] /\ connected_' = TRUE
      /\ reading' = registers /\ writing' = <<>> /\ ready' = ready \o FailedReads \o FailedWrites
      /\ UNCHANGED <<clientThread, serverThread, registers, accepted, at, ioStopped, old,
                     notices, write_queue_, crash, handshake, replies, received>>
  BY DEF Open
<1>2. registers \in Handles /\ registers # 0 /\ link[registers] = "unused"
  BY <1>1 DEF IInv, Control, TypeOK, Handles
<1>3. \A i \in Handles : link'[i] = IF i = registers THEN "open" ELSE link[i]
  BY <1>1, <1>2 DEF IInv, TypeOK
<1>4. Opened' = Opened \cup {registers} /\ registers \notin Opened
  BY <1>2, <1>3 DEF Opened
<1>5. Single' => Opened = {}
  BY <1>4 DEF Single
<1>6. /\ ready' \in Seq(Completions)
      /\ Has(ready', "write") <=> Has(ready, "write") \/ writing # <<>>
      /\ WriteOnce(ready') /\ Posted(ready)'
  BY <1>1, Aborted DEF IInv, Posted
<1>7. TypeOK'
  <2>1. link' \in [Handles -> {"unused", "open", "broken", "closed"}] /\ <<>> \in Seq(Handles)
    BY <1>1, <1>2, EmptySeq DEF IInv, TypeOK
  <2>2. deleted' \subseteq Handles
    BY <1>1 DEF IInv, TypeOK
  <2>3. connected_' \in BOOLEAN
    BY <1>1
  <2> QED
    BY <1>1, <1>2, <1>6, <2>1, <2>2, <2>3 DEF IInv, TypeOK
<1>8. OneWrite'
  <2>1. Len(writing') <= 1
    BY <1>1, EmptySeq
  <2> QED
    BY <1>1, <1>6, <2>1 DEF IInv, OneWrite
<1>9. Control'
  <2>1. registers \in Nat /\ Handles \subseteq Nat
    BY LinkAssumption DEF IInv, TypeOK, Handles
  <2>2. \A i \in Handles : registers < i => i # registers
    BY <2>1
  <2> QED
    BY <1>1, <1>2, <1>3, <1>4, <2>2 DEF IInv, Control
<1>10. Opened = {} => /\ pipe_ = 0 /\ deleted = {} /\ at["client"] = "idle" /\ ~ioStopped
                      /\ clientThread = "none" /\ at["server"] \in {"idle", "close"}
  BY DEF IInv, Control, Link
<1>11. Link'
  <2>1. pipe_' \in Opened' /\ Opened' # {}
    BY <1>1, <1>4
  <2>2. Reads'
    BY <1>1, <1>2 DEF Reads
  <2> QED
    BY <1>1, <1>2, <1>5, <1>10, <2>1, <2>2 DEF Link, Threads
<1>12. Pipe'
  BY <1>1, <1>2, <1>5, <1>10 DEF Pipe
<1> QED
  BY <1>7, <1>8, <1>9, <1>11, <1>12 DEF IInv

LEMMA WriteRegisterStep ==
  ASSUME IInv, WriteRegister
  PROVE  IInv'
<1> USE DEF app, dock, client
<1>1. /\ main = "write" /\ main' = "app"
      /\ UNCHANGED <<clientThread, serverThread, registers, at, ioStopped, connected_, pipe_, old, deleted,
                     link, notices, reading, writing, write_queue_, crash, dock>>
  BY DEF WriteRegister
<1>2. registers \in Handles
  BY <1>1 DEF IInv, Control, TypeOK, Handles
<1>3. /\ ready' \in Seq(Completions) /\ WriteOnce(ready') /\ Posted(ready)'
      /\ Has(ready', "write") <=> Has(ready, "write")
      /\ Has(ready', "read") <=> Has(ready, "read")
      /\ accepted' \subseteq Handles
  <2>1. CASE UNCHANGED <<ready, accepted>>
    BY <2>1 DEF IInv, TypeOK, OneWrite, Has, WriteOnce, Posted
  <2>2. CASE ready' = Append(ready, Completion("post", registers)) /\ accepted' = accepted \cup {registers}
    <3>1. /\ Completion("post", registers) \in Completions /\ Completion("post", registers).op = "post"
          /\ Completion("post", registers).arg \in Handles
      BY <1>2, LinkAssumption DEF Completion, Completions, Handles
    <3>2. PICK r \in Seq(Completions) : r = ready /\ WriteOnce(r) /\ Posted(r)
      BY DEF IInv, TypeOK, OneWrite
    <3>3. PICK c \in Completions : c = Completion("post", registers) /\ c.op = "post" /\ c.arg \in Handles
      BY <3>1, Zenon
    <3>4. /\ Append(r, c) \in Seq(Completions) /\ WriteOnce(Append(r, c)) /\ Posted(Append(r, c))
          /\ \A op : Has(Append(r, c), op) <=> Has(r, op) \/ c.op = op
      BY <3>2, <3>3, AppendCompletion
    <3>5. Posted(ready)'
      BY <2>2, <3>2, <3>3, <3>4 DEF Posted
    <3>6. accepted' \subseteq Handles
      BY <1>2, <2>2 DEF IInv, TypeOK
    <3> QED
      BY <2>2, <3>2, <3>3, <3>4, <3>5, <3>6
  <2> QED
    BY <2>1, <2>2 DEF WriteRegister
<1>4. Opened' = Opened /\ (Single' <=> Single) /\ (AllClosed' <=> AllClosed) /\ (Reads' <=> Reads)
  BY <1>1, <1>3 DEF Opened, Single, AllClosed, Reads
<1>5. TypeOK'
  BY <1>1, <1>3 DEF IInv, TypeOK
<1>6. OneWrite'
  BY <1>1, <1>3 DEF IInv, OneWrite
<1>7. Control'
  BY <1>1, <1>4 DEF IInv, Control
<1>8. Link'
  BY <1>1, <1>4 DEF IInv, Link
<1>9. Pipe'
  BY <1>1, <1>4 DEF IInv, Pipe
<1> QED
  BY <1>5, <1>6, <1>7, <1>8, <1>9 DEF IInv

\* The dock reads, replies, and closes its end.
LEMMA DockSteps ==
  ASSUME IInv, DockReads \/ DockReplies \/ DockLeaves
  PROVE  IInv'
<1> USE DEF app, dock, client
<1>1. /\ UNCHANGED <<app, at, ioStopped, connected_, pipe_, old, deleted, notices, write_queue_, crash,
                     dockPipe, handshake>>
      /\ reading' \in {reading, 0} /\ writing' \in Seq(Handles) /\ Len(writing') <= 1
      /\ ready' \in Seq(Completions) /\ WriteOnce(ready') /\ Posted(ready)'
      /\ writing' # <<>> => writing' = writing /\ (Has(ready', "write") <=> Has(ready, "write"))
      /\ Has(ready', "write") => Has(ready, "write") \/ writing # <<>>
      /\ reading # 0 \/ Has(ready, "read") => reading' # 0 \/ Has(ready', "read")
      /\ received' \subseteq Handles /\ replies' \in 0..MaxReplies
      /\ link' \in [Handles -> {"unused", "open", "broken", "closed"}]
      /\ \A i \in Handles : link'[i] = link[i] \/ (link[i] = "open" /\ link'[i] = "broken")
  <2>1. PICK r \in Seq(Completions), wr \in Seq(Handles) :
          r = ready /\ WriteOnce(r) /\ Posted(r) /\ wr = writing /\ Len(wr) <= 1
    BY DEF IInv, TypeOK, OneWrite
  <2>2. CASE DockReads
    <3>1. /\ wr # <<>> /\ received' = received \cup {Head(wr)} /\ writing' = Tail(wr)
          /\ ready' = Append(r, Completion("write", OK))
          /\ UNCHANGED <<app, at, ioStopped, client, reading, write_queue_, crash, dockPipe, handshake, replies>>
      BY <2>1, <2>2 DEF DockReads
    <3>2. Completion("write", OK) \in Completions /\ Completion("write", OK).op = "write"
      BY DEF Completion, Completions, OK
    <3>3. PICK c \in Completions : c = Completion("write", OK) /\ c.op = "write"
      BY <3>2, Zenon
    <3>4. ~Has(r, "write")
      BY <2>1, <3>1 DEF IInv, OneWrite
    <3>5. /\ Append(r, c) \in Seq(Completions) /\ WriteOnce(Append(r, c)) /\ Posted(Append(r, c))
          /\ \A op : Has(Append(r, c), op) <=> Has(r, op) \/ c.op = op
      BY <2>1, <3>3, <3>4, AppendCompletion
    <3>6. Posted(ready)'
      BY <3>1, <3>3, <3>5 DEF Posted
    <3>7. Tail(wr) \in Seq(Handles) /\ Tail(wr) = <<>> /\ Head(wr) \in Handles /\ Len(Tail(wr)) = 0
      <4>1. /\ Tail(wr) \in Seq(Handles) /\ Len(Tail(wr)) = Len(wr) - 1 /\ Len(wr) \in Nat
            /\ Head(wr) \in Handles /\ Len(wr) # 0
        BY <3>1, HeadTailProperties, LenProperties, EmptySeq
      <4>2. Len(Tail(wr)) = 0
        BY <2>1, <4>1
      <4> QED
        BY <4>1, <4>2, EmptySeq
    <3>8. received' \subseteq Handles
      BY <3>1, <3>7 DEF IInv, TypeOK
    <3>9. /\ replies' \in 0..MaxReplies
          /\ link' = link /\ link \in [Handles -> {"unused", "open", "broken", "closed"}]
          /\ reading' = reading /\ UNCHANGED <<connected_, pipe_, old, deleted, notices>>
      BY <3>1 DEF IInv, TypeOK
    <3> QED
      BY <2>1, <3>1, <3>3, <3>5, <3>6, <3>7, <3>8, <3>9
  <2>3. CASE DockReplies
    <3>1. /\ reading # 0 /\ replies < MaxReplies /\ replies' = replies + 1 /\ reading' = 0
          /\ ready' = Append(r, Completion("read", OK))
          /\ UNCHANGED <<app, at, ioStopped, client, writing, write_queue_, crash, dockPipe, handshake, received>>
      BY <2>1, <2>3 DEF DockReplies
    <3>2. Completion("read", OK) \in Completions /\ Completion("read", OK).op = "read"
      BY DEF Completion, Completions, OK
    <3>3. PICK c \in Completions : c = Completion("read", OK) /\ c.op = "read"
      BY <3>2, Zenon
    <3>5. /\ Append(r, c) \in Seq(Completions) /\ WriteOnce(Append(r, c)) /\ Posted(Append(r, c))
          /\ \A op : Has(Append(r, c), op) <=> Has(r, op) \/ c.op = op
      BY <2>1, <3>3, AppendCompletion
    <3>6. Posted(ready)'
      BY <3>1, <3>3, <3>5 DEF Posted
    <3>7. replies' \in 0..MaxReplies
      BY <3>1, LinkAssumption DEF IInv, TypeOK
    <3>8. /\ received' \subseteq Handles
          /\ link' = link /\ link \in [Handles -> {"unused", "open", "broken", "closed"}]
          /\ UNCHANGED <<connected_, pipe_, old, deleted, notices>>
      BY <3>1 DEF IInv, TypeOK
    <3> QED
      BY <2>1, <3>1, <3>3, <3>5, <3>6, <3>7, <3>8
  <2>4. CASE DockLeaves
    <3>1. /\ reading' = 0 /\ writing' = <<>>
          /\ \/ ready' = ready \o FailedReads \o FailedWrites
             \/ ready' = ready \o FailedWrites \o FailedReads
          /\ UNCHANGED <<app, at, ioStopped, connected_, pipe_, old, deleted, notices, write_queue_, crash, dock>>
      BY <2>4 DEF DockLeaves
    <3>2. PICK i \in Handles : link[i] = "open" /\ link' = [link EXCEPT ![i] = "broken"]
      BY <2>4 DEF DockLeaves, Opened
    <3>3. /\ ready' \in Seq(Completions)
          /\ Has(ready', "read") <=> Has(ready, "read") \/ reading # 0
          /\ Has(ready', "write") <=> Has(ready, "write") \/ writing # <<>>
          /\ WriteOnce(ready') /\ Posted(ready)'
      BY <3>1, Aborted DEF IInv, Posted
    <3>4. <<>> \in Seq(Handles) /\ Len(<<>>) <= 1
      BY EmptySeq
    <3>5. /\ link' \in [Handles -> {"unused", "open", "broken", "closed"}]
          /\ \A j \in Handles : link'[j] = link[j] \/ (link[j] = "open" /\ link'[j] = "broken")
      BY <3>2 DEF IInv, TypeOK
    <3>6. received' \subseteq Handles /\ replies' \in 0..MaxReplies
      BY <3>1 DEF IInv, TypeOK
    <3> QED
      BY <3>1, <3>3, <3>4, <3>5, <3>6
  <2> QED
    BY <2>2, <2>3, <2>4
<1>2. Opened' = Opened /\ (Single' <=> Single) /\ (AllClosed' <=> AllClosed)
  <2>1. Opened' = Opened
    BY <1>1 DEF Opened
  <2>2. \A i \in Handles : link'[i] = "closed" <=> link[i] = "closed"
    BY <1>1
  <2> QED
    BY <2>1, <2>2 DEF Single, AllClosed, Opened
<1>3. TypeOK'
  BY <1>1 DEF IInv, TypeOK
<1>4. OneWrite'
  BY <1>1 DEF IInv, OneWrite
<1>5. Control'
  <2>1. \A i \in Handles : link[i] = "unused" => link'[i] = "unused"
    BY <1>1
  <2>2. main \in {"connect", "wait", "retry"} => registers \in Handles
    BY DEF IInv, TypeOK, Control, Handles
  <2> QED
    BY <1>1, <1>2, <2>1, <2>2 DEF IInv, Control
<1>6. Reads => Reads'
  BY <1>1 DEF Reads
<1>7. Link'
  BY <1>1, <1>2, <1>6 DEF IInv, Link
<1>8. Pipe'
  BY <1>1, <1>2 DEF IInv, Pipe
<1> QED
  BY <1>3, <1>4, <1>5, <1>7, <1>8 DEF IInv

LEMMA Invariance == Spec => []IInv
<1>1. Init => IInv
  <2> SUFFICES ASSUME Init PROVE IInv
    OBVIOUS
  <2>1. /\ DOMAIN <<>> = {} /\ Len(<<>>) = 0
        /\ <<>> \in Seq(Handles) /\ <<>> \in Seq(Completions)
    BY EmptySeq
  <2>2. Opened = {}
    BY DEF Init, Opened
  <2>3. /\ at \in [Threads -> {"idle", "read", "asyncRead", "write", "asyncWrite"} \cup Closing]
        /\ old \in [Threads -> Handles \cup {0}]
        /\ link \in [Handles -> {"unused", "open", "broken", "closed"}]
        /\ at["client"] = "idle" /\ at["server"] = "idle"
        /\ \A t \in Threads : at[t] = "idle"
    BY DEF Init, Threads
  <2>4. TypeOK
    <3>1. writing \in Seq(Handles) /\ write_queue_ \in Seq(Handles) /\ ready \in Seq(Completions)
      BY <2>1 DEF Init
    <3>2. replies \in 0..MaxReplies /\ registers \in 0..MaxRegisters
      BY LinkAssumption DEF Init
    <3>3. /\ main = "app" /\ clientThread = "none" /\ serverThread = "running"
          /\ ioStopped \in BOOLEAN /\ connected_ \in BOOLEAN /\ pipe_ = 0 /\ reading = 0
          /\ deleted = {} /\ accepted = {} /\ received = {}
          /\ crash = "none" /\ dockPipe = "free" /\ handshake = "none" /\ notices = 0
      BY DEF Init
    <3> QED
      BY <2>3, <3>1, <3>2, <3>3 DEF TypeOK
  <2>5. OneWrite
    BY <2>1, <2>3 DEF Init, OneWrite, Has, WriteOnce, Posted
  <2>6. Control
    BY <2>3 DEF Init, Control
  <2>7. Link
    BY <2>2, <2>3 DEF Init, Link, AllClosed
  <2>8. Pipe
    BY <2>3 DEF Init, Pipe
  <2> QED
    BY <2>4, <2>5, <2>6, <2>7, <2>8 DEF IInv
<1>2. IInv /\ [Next]_vars => IInv'
  <2> SUFFICES ASSUME IInv, [Next]_vars PROVE IInv'
    OBVIOUS
  <2>1. CASE crash = "none" /\ MainStep
    BY <2>1, AppSteps, OpenStep, WriteRegisterStep DEF MainStep
  <2>2. CASE ClientStep
    BY <2>2, HandlerSteps, GuardStep, AsyncSteps, CloseSteps, AppSteps DEF ClientStep, Threads
  <2>3. CASE ServerStep
    <3>1. CASE HandshakeStep3
      <4>1. /\ serverThread = "running" /\ at["server"] = "idle" /\ handshake' = "done" /\ Goto("server", "close")
            /\ UNCHANGED <<app, ioStopped, client, io, crash, dockPipe, replies, received>>
        BY <3>1 DEF HandshakeStep3
      <4>2. /\ at' \in [Threads -> {"idle", "read", "asyncRead", "write", "asyncWrite"} \cup Closing]
            /\ at'["server"] = "close" /\ at'["client"] = at["client"]
            /\ \A t \in Threads : \/ at'[t] = at[t]
                                  \/ at'[t] = "close" /\ at[t] = "idle"
        BY <4>1 DEF Goto, IInv, TypeOK, Closing, Threads
      <4>3. /\ UNCHANGED <<connected_, pipe_, old, deleted, link, notices, reading, writing, write_queue_, ready>>
            /\ Opened' = Opened /\ (Single' <=> Single) /\ (AllClosed' <=> AllClosed)
        BY <4>1 DEF client, io, Opened, Single, AllClosed
      <4>4. TypeOK'
        BY <4>1, <4>2, <4>3 DEF IInv, TypeOK, app
      <4>5. OneWrite'
        BY <4>2, <4>3 DEF IInv, OneWrite, Has, WriteOnce, Posted
      <4>6. Control'
        BY <4>1, <4>2, <4>3 DEF IInv, Control, app, Closing
      <4>7. Reads' <=> Reads
        BY <4>2, <4>3 DEF Reads, Has
      <4>8. Link'
        BY <4>1, <4>2, <4>3, <4>7 DEF IInv, Link, app
      <4>9. Pipe'
        BY <4>1 DEF Pipe
      <4> QED
        BY <4>4, <4>5, <4>6, <4>8, <4>9 DEF IInv
    <3> QED
      BY <2>3, <3>1, CloseSteps, AppSteps DEF ServerStep, Threads
  <2>4. CASE Dock
    BY <2>4, DockSteps, AppSteps DEF Dock
  <2>5. CASE Environment
    BY <2>5, AppSteps DEF Environment
  <2>6. CASE UNCHANGED vars
    <3>1. UNCHANGED <<main, clientThread, serverThread, registers, accepted, at, ioStopped, client, io,
                      crash, dock>>
      BY <2>6 DEF vars, elsewhere, app
    <3>2. OneWrite' /\ Link' /\ Pipe'
      BY <3>1, AppFrame DEF dock
    <3>3. TypeOK' /\ Control'
      BY <3>1 DEF IInv, TypeOK, Control, client, io, dock, Opened
    <3> QED
      BY <3>2, <3>3 DEF IInv
  <2> QED
    BY <2>1, <2>2, <2>3, <2>4, <2>5, <2>6 DEF Next
<1> QED
  BY <1>1, <1>2, PTL DEF Spec

-----------------------------------------------------------------------------
(* The theorems *)

\* Every variable keeps its type: in particular no handler pops the empty
\* write_queue_, whatever was lost, aborted or written to an old connection.
THEOREM TypeCorrect == Spec => []TypeOK
<1>1. IInv => TypeOK
  BY DEF IInv
<1> QED
  BY <1>1, Invariance, PTL

\* As long as the dock does not take the handshake to its third step and there
\* is one connection, clientThread_ never calls through pipe_ after its reset
\* and never deletes a stream_handle twice.
THEOREM PipeUsedByOneAlways == Spec => []PipeUsedByOne
<1>1. IInv => PipeUsedByOne
  BY DEF IInv, Pipe, PipeUsedByOne, Single
<1> QED
  BY <1>1, Invariance, PTL

\* io_context_client_.run() does not return while the connection is open and
\* nobody is closing it: whoever clears connected_ closes it.
THEOREM ClosedWhenEndedAlways == Spec => []ClosedWhenEnded
<1>1. IInv => ClosedWhenEnded
  <2> SUFFICES ASSUME IInv, clientThread \in {"ended", "joined"}, Single
               PROVE  ~connected_ /\ (at["server"] = "idle" => AllClosed)
    BY DEF ClosedWhenEnded, Single, AllClosed
  <2>1. ~connected_
    BY DEF IInv, Link
  <2>2. at["client"] = "idle"
    BY DEF IInv, Control
  <2> QED
    BY <2>1, <2>2 DEF IInv, Link, Threads
<1> QED
  BY <1>1, Invariance, PTL

=============================================================================
