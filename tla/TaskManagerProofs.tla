--------------------------- MODULE TaskManagerProofs ---------------------------
(***************************************************************************)
(* What TaskManager keeps for any number of tasks, workers, enqueues and   *)
(* cycles of start() and stop(): the types, one outcome for each task, one *)
(* place for each task that waits, a task that cancel() can find, and no   *)
(* lost wake-up.                                                           *)
(*                                                                         *)
(* The argument for the place of a task: what its enqueue() or             *)
(* delayedEnqueue() has reached (caller) says in which of the queues it    *)
(* may be, no queue holds it twice, and its status says whether it still   *)
(* has to be in one.                                                       *)
(***************************************************************************)
EXTENDS TaskManager, SequenceTheorems, FunctionTheorems, FiniteSetTheorems, TLAPS

-----------------------------------------------------------------------------
(* The inductive invariant *)

Distinct(s) == \A i, j \in DOMAIN s : s[i] = s[j] => i = j

Works(w, t) == worker[w] \in {"holding", "running"} /\ current[w] = t
Busy(w, t) == worker[w] \in {"holding", "running", "erase"} /\ current[w] = t

\* What the threads hold; between stop() and start() none is under way.
Threads ==
  /\ \A w \in Workers : worker[w] \in {"holding", "running", "erase"} => current[w] \in Tasks
  /\ delayedWorker \in {"process", "push"} => batch # <<>>
  /\ delayedWorker \in {"off", "check", "sleep"} => batch = <<>>
  /\ owner \in {"stopped", "drainDelayed", "drainQueue"} =>
       delayedWorker = "off" /\ \A w \in Workers : worker[w] = "off"

\* No queue holds a task twice, and who has a task follows from its caller.
Once ==
  /\ Distinct(task_queue_) /\ Distinct(batch) /\ Distinct(TasksOf(delayed_tasks_))
  /\ \A t \in Tasks :
       /\ \A v, w \in Workers : Works(v, t) /\ Works(w, t) => v = w
       /\ InDelayed(t) \/ InBatch(t) => caller[t] = "delayed"
       /\ ~(InDelayed(t) /\ InBatch(t))
       /\ InQueue(t) \/ (\E w \in Workers : Works(w, t)) => caller[t] \in {"notify", "done"}
       /\ ~(InQueue(t) /\ \E w \in Workers : Works(w, t))

\* A task waits somewhere until it is settled, and nowhere once it has run or
\* was released.
Settled ==
  \A t \in Tasks :
    /\ caller[t] # "new" /\ status_[t] = "NONE" /\ t \notin drained =>
         \/ InDelayed(t) \/ InBatch(t) \/ caller[t] = "push" \/ InQueue(t)
         \/ \E w \in Workers : Holds(w, t)
    /\ status_[t] \in {"RUNNING", "SUCCESS", "FAILED", "RELEASED"} =>
         /\ caller[t] \in {"notify", "done"} /\ ~InQueue(t)
         /\ \A w \in Workers : ~Holds(w, t)
    /\ \A w \in Workers : worker[w] = "running" /\ current[w] = t =>
         status_[t] \in {"RUNNING", "CANCELED"}

\* What status_ says of the callbacks.
Called ==
  \A t \in Tasks :
    /\ status_[t] = "NONE" => calls[t] = <<>>
    /\ status_[t] = "RUNNING" => calls[t] = <<"run">>

\* While a task was enqueued at most once, it has one worker, and all_tasks_
\* has it from the time it can reach the queue to the time it was run.
Registered ==
  \A t \in Tasks :
    /\ enqueues[t] = 0 => caller[t] = "new" /\ \A w \in Workers : ~Busy(w, t)
    /\ enqueues[t] <= 1 =>
         /\ \A v, w \in Workers : Busy(v, t) /\ Busy(w, t) => v = w
         /\ \A w \in Workers : worker[w] = "erase" /\ current[w] = t =>
              caller[t] \notin {"push", "delayed"} /\ ~InQueue(t)
         /\ \/ caller[t] = "push" \/ InQueue(t) \/ \E w \in Workers : Works(w, t)
            \/ delayedWorker = "push" /\ batch[1] = t
            => t \in all_tasks_ \/ status_[t] = "CANCELED"

\* Only finitely many enqueue() are under way.
Finite == IsFiniteSet({t \in Tasks : caller[t] # "new"})

Core == TypeOK /\ Threads /\ Once /\ Settled /\ Called /\ Lifecycle /\ Registered

IInv == Core /\ Finite /\ NoLostWakeup

-----------------------------------------------------------------------------
(* Positions picked out of a sequence *)

Has(s, t) == \E i \in DOMAIN s : s[i] = t

\* Nth counts off the positions P, each of them once.
LEMMA NthCounts ==
  ASSUME NEW n \in Nat, NEW P \in SUBSET (1..n)
  PROVE  /\ Cardinality(P) \in Nat
         /\ Cardinality(P) = 0 <=> P = {}
         /\ \A k \in 1..Cardinality(P) : Nth(P, k) \in P
         /\ \A k, l \in 1..Cardinality(P) : Nth(P, k) = Nth(P, l) => k = l
         /\ \A i \in P : \E k \in 1..Cardinality(P) : Nth(P, k) = i
<1> DEFINE upto(i) == {j \in P : j <= i}
           m == Cardinality(P)
<1>1. IsFiniteSet(P) /\ m \in Nat /\ P \subseteq Int
  <2>1. IsFiniteSet(1..n)
    BY FS_Interval
  <2>2. IsFiniteSet(P)
    BY <2>1, FS_Subset
  <2>3. m \in Nat
    BY <2>2, FS_CardinalityType
  <2>4. P \subseteq Int
    OBVIOUS
  <2> QED
    BY <2>2, <2>3, <2>4
<1>2. \A i \in P : IsFiniteSet(upto(i)) /\ Cardinality(upto(i)) \in 1..m
  <2> TAKE i \in P
  <2>1. upto(i) \in SUBSET P
    OBVIOUS
  <2>2. IsFiniteSet(upto(i)) /\ Cardinality(upto(i)) <= m /\ Cardinality(upto(i)) \in Nat
    BY <1>1, <2>1, FS_Subset, FS_CardinalityType
  <2>3. i \in upto(i)
    BY <1>1
  <2>4. Cardinality(upto(i)) # 0
    BY <2>2, <2>3, FS_EmptySet
  <2> QED
    BY <1>1, <2>2, <2>4
<1>3. \A i, j \in P : i < j => Cardinality(upto(i)) < Cardinality(upto(j))
  <2> SUFFICES ASSUME NEW i \in P, NEW j \in P, i < j
               PROVE  Cardinality(upto(i)) < Cardinality(upto(j))
    OBVIOUS
  <2>1. upto(i) \in SUBSET upto(j) /\ j \in upto(j) /\ j \notin upto(i)
    <3>1. i \in Int /\ j \in Int /\ ~(j <= i)
      BY <1>1
    <3>2. \A l \in Int : l <= i => l <= j
      BY <3>1
    <3>3. \A l \in upto(i) : l \in upto(j)
      BY <1>1, <3>2
    <3>4. j \in upto(j) /\ j \notin upto(i)
      BY <3>1
    <3> HIDE DEF upto
    <3> QED
      BY <3>3, <3>4
  <2>2. Cardinality(upto(i)) <= Cardinality(upto(j)) /\ Cardinality(upto(j)) # Cardinality(upto(i))
    BY <1>2, <2>1, FS_Subset
  <2> QED
    BY <1>2, <2>2
<1>4. \A i, j \in P : Cardinality(upto(i)) = Cardinality(upto(j)) => i = j
  BY <1>1, <1>2, <1>3
<1> DEFINE rank == [i \in P |-> Cardinality(upto(i))]
<1>5. rank \in Injection(P, 1..m)
  <2>1. rank \in [P -> 1..m]
    BY <1>2
  <2>2. \A i, j \in P : rank[i] = rank[j] => i = j
    BY <1>4
  <2> HIDE DEF rank
  <2> QED
    BY <2>1, <2>2, Fun_IsInj
<1>6. rank \in Surjection(P, 1..m)
  <2>1. IsFiniteSet(1..m) /\ Cardinality(1..m) = m
    BY <1>1, FS_Interval
  <2> HIDE DEF rank
  <2> QED
    BY <1>5, <2>1, FS_Injection
<1>7. \A k \in 1..m : \E i \in P : Cardinality(upto(i)) = k
  <2>1. \A k \in 1..m : \E i \in P : rank[i] = k
    <3> HIDE DEF rank
    <3> QED
      BY <1>6, Fun_SurjectionProperties
  <2> QED
    BY <2>1
<1>8. \A k \in 1..m : Nth(P, k) \in P /\ Cardinality(upto(Nth(P, k))) = k
  BY <1>7 DEF Nth
<1>9. \A i \in P : \E k \in 1..m : Nth(P, k) = i
  BY <1>2, <1>4, <1>8
<1>10. m = 0 <=> P = {}
  BY <1>1, FS_EmptySet
<1>11. \A k, l \in 1..m : Nth(P, k) = Nth(P, l) => k = l
  BY <1>8
<1> QED
  BY <1>1, <1>8, <1>9, <1>10, <1>11

\* The tasks picked out are those at the positions, each once.
LEMMA PickedTasks ==
  ASSUME NEW s \in Seq(Entries), NEW P \in SUBSET (DOMAIN s)
  PROVE  /\ TasksOf(EntriesAt(s, P)) \in Seq(Tasks)
         /\ TasksOf(EntriesAt(s, P)) = <<>> <=> P = {}
         /\ \A t : Has(TasksOf(EntriesAt(s, P)), t) <=> \E i \in P : s[i].task = t
         /\ Distinct(TasksOf(s)) => Distinct(TasksOf(EntriesAt(s, P)))
<1> DEFINE m == Cardinality(P)
           e == TasksOf(EntriesAt(s, P))
<1>1. Len(s) \in Nat /\ DOMAIN s = 1..Len(s) /\ \A i \in DOMAIN s : s[i] \in Entries
  BY LenProperties, ElementOfSeq
<1>2. /\ m \in Nat /\ (m = 0 <=> P = {})
      /\ \A k \in 1..m : Nth(P, k) \in P
      /\ \A k, l \in 1..m : Nth(P, k) = Nth(P, l) => k = l
      /\ \A i \in P : \E k \in 1..m : Nth(P, k) = i
  BY <1>1, NthCounts
<1>3. e = [k \in 1..m |-> s[Nth(P, k)].task]
  BY DEF TasksOf, EntriesAt
<1>4. \A x \in Entries : x.task \in Tasks
  BY DEF Entries
<1> HIDE DEF e, m
<1>5. e \in [1..m -> Tasks]
  BY <1>1, <1>2, <1>3, <1>4
<1>6. e \in Seq(Tasks) /\ Len(e) = m
  BY <1>2, <1>5, SeqDef, LenProperties
<1>7. e = <<>> <=> P = {}
  BY <1>2, <1>6, EmptySeq
<1>8. \A t : Has(e, t) <=> \E i \in P : s[i].task = t
  BY <1>2, <1>3 DEF Has
<1>9. Distinct(TasksOf(s)) => Distinct(e)
  <2>1. \A i \in DOMAIN s : TasksOf(s)[i] = s[i].task /\ i \in DOMAIN TasksOf(s)
    BY DEF TasksOf
  <2>2. DOMAIN e = 1..m /\ \A k \in 1..m : e[k] = s[Nth(P, k)].task /\ Nth(P, k) \in DOMAIN s
    BY <1>2, <1>3
  <2> QED
    BY <1>2, <2>1, <2>2 DEF Distinct
<1> QED
  BY <1>6, <1>7, <1>8, <1>9 DEF e

\* Counting down keeps the tasks, and no delay that is not over falls below 0.
LEMMA CountedEntries ==
  ASSUME NEW s \in Seq(Entries), NEW P \in SUBSET (DOMAIN s), \A i \in P : s[i].delay # 0
  PROVE  /\ Counted(EntriesAt(s, P)) \in Seq(Entries)
         /\ TasksOf(Counted(EntriesAt(s, P))) = TasksOf(EntriesAt(s, P))
<1> DEFINE m == Cardinality(P)
           e == EntriesAt(s, P)
<1>1. Len(s) \in Nat /\ DOMAIN s = 1..Len(s) /\ \A i \in DOMAIN s : s[i] \in Entries
  BY LenProperties, ElementOfSeq
<1>2. m \in Nat /\ \A k \in 1..m : Nth(P, k) \in P
  BY <1>1, NthCounts
<1>3. e = [k \in 1..m |-> s[Nth(P, k)]]
  BY DEF EntriesAt
<1> HIDE DEF e, m
<1>4. DOMAIN e = 1..m /\ \A k \in 1..m : e[k] \in Entries /\ e[k].delay # 0
  BY <1>1, <1>2, <1>3
<1>5. \A x \in Entries : x.delay # 0 =>
        [x EXCEPT !.delay = @ - 1] \in Entries /\ [x EXCEPT !.delay = @ - 1].task = x.task
  BY DEF Entries
<1> DEFINE c == Counted(e)
<1>6. c = [k \in 1..m |-> [e[k] EXCEPT !.delay = @ - 1]]
  BY <1>4 DEF Counted
<1> HIDE DEF c
<1>7. DOMAIN c = 1..m /\ \A k \in 1..m : c[k] \in Entries /\ c[k].task = e[k].task
  BY <1>4, <1>5, <1>6
<1>8. c \in Seq(Entries)
  <2>1. c \in [1..m -> Entries]
    BY <1>6, <1>7
  <2> QED
    BY <1>2, <2>1, SeqDef
<1>9. TasksOf(c) = TasksOf(e)
  BY <1>4, <1>7 DEF TasksOf
<1> QED
  BY <1>8, <1>9 DEF c, e

\* push_back() and pop_front() on a queue that holds nothing twice.
LEMMA AppendTask ==
  ASSUME NEW s \in Seq(Tasks), NEW t \in Tasks
  PROVE  /\ Append(s, t) \in Seq(Tasks) /\ Len(Append(s, t)) = Len(s) + 1
         /\ \A x : Has(Append(s, t), x) <=> Has(s, x) \/ x = t
         /\ Distinct(s) /\ ~Has(s, t) => Distinct(Append(s, t))
<1> DEFINE u == Append(s, t)
<1>1. /\ u \in Seq(Tasks) /\ DOMAIN s = 1..Len(s) /\ Len(s) \in Nat
      /\ DOMAIN u = 1..(Len(s) + 1) /\ Len(u) = Len(s) + 1
      /\ \A i \in 1..Len(s) : u[i] = s[i]
      /\ u[Len(s) + 1] = t
  BY AppendProperties, LenProperties
<1> HIDE DEF u
<1>2. \A i \in 1..(Len(s) + 1) : i \in 1..Len(s) \/ i = Len(s) + 1
  BY <1>1
<1>3. \A x : Has(u, x) <=> Has(s, x) \/ x = t
  BY <1>1, <1>2 DEF Has
<1>4. Distinct(s) /\ ~Has(s, t) => Distinct(u)
  BY <1>1, <1>2 DEF Has, Distinct
<1> QED
  BY <1>1, <1>3, <1>4 DEF u

LEMMA TailTask ==
  ASSUME NEW s \in Seq(Tasks), s # <<>>
  PROVE  /\ Tail(s) \in Seq(Tasks) /\ Head(s) \in Tasks /\ Head(s) = s[1]
         /\ Len(Tail(s)) = Len(s) - 1 /\ Len(s) \in Nat
         /\ Has(s, Head(s))
         /\ Distinct(s) => /\ Distinct(Tail(s))
                           /\ \A x : Has(Tail(s), x) <=> Has(s, x) /\ x # Head(s)
<1> DEFINE r == Tail(s)
<1>1. /\ r \in Seq(Tasks) /\ DOMAIN s = 1..Len(s) /\ Len(s) \in Nat /\ Len(s) # 0
      /\ Head(s) \in Tasks /\ Head(s) = s[1]
      /\ DOMAIN r = 1..(Len(s) - 1) /\ Len(r) = Len(s) - 1
      /\ \A i \in 1..(Len(s) - 1) : r[i] = s[i + 1]
  BY HeadTailProperties, LenProperties, EmptySeq
<1> HIDE DEF r
<1>2. \A i \in 1..Len(s) : i = 1 \/ i - 1 \in 1..(Len(s) - 1)
  BY <1>1
<1>3. \A i \in 1..(Len(s) - 1) : i + 1 \in 1..Len(s) /\ i + 1 # 1
  BY <1>1
<1>4. 1 \in DOMAIN s
  BY <1>1
<1>5. ASSUME Distinct(s)
      PROVE  /\ Distinct(r)
             /\ \A x : Has(r, x) <=> Has(s, x) /\ x # s[1]
  <2>1. Distinct(r)
    <3> SUFFICES ASSUME NEW i \in 1..(Len(s) - 1), NEW j \in 1..(Len(s) - 1), r[i] = r[j]
                 PROVE  i = j
      BY <1>1 DEF Distinct
    <3>1. s[i + 1] = s[j + 1]
      BY <1>1
    <3>2. i + 1 = j + 1
      BY <1>1, <1>3, <1>5, <3>1 DEF Distinct
    <3> QED
      BY <3>2
  <2>2. ASSUME NEW x, Has(r, x) PROVE Has(s, x) /\ x # s[1]
    <3>1. PICK i \in 1..(Len(s) - 1) : r[i] = x
      BY <1>1, <2>2 DEF Has
    <3>2. s[i + 1] = x /\ i + 1 \in DOMAIN s /\ i + 1 # 1
      BY <1>1, <1>3, <3>1
    <3> QED
      BY <1>4, <1>5, <3>2 DEF Has, Distinct
  <2>3. ASSUME NEW x, Has(s, x), x # s[1] PROVE Has(r, x)
    <3>1. PICK i \in 1..Len(s) : s[i] = x /\ i # 1
      BY <1>1, <2>3 DEF Has
    <3>2. i - 1 \in 1..(Len(s) - 1) /\ (i - 1) + 1 = i
      BY <1>2, <3>1
    <3>3. r[i - 1] = x
      BY <1>1, <3>1, <3>2
    <3> QED
      BY <1>1, <3>2, <3>3 DEF Has
  <2> QED
    BY <2>1, <2>2, <2>3
<1>6. Has(s, s[1])
  BY <1>4 DEF Has
<1> QED
  BY <1>1, <1>5, <1>6 DEF r

-----------------------------------------------------------------------------
(* Every action keeps the place, the outcome and the registration of tasks. *)

\* Where a task is, in the words of the lemmas on sequences.
LEMMA Frames ==
  /\ task_queue_' = task_queue_ => \A x : InQueue(x)' <=> InQueue(x)
  /\ batch' = batch => \A x : InBatch(x)' <=> InBatch(x)
  /\ delayed_tasks_' = delayed_tasks_ => \A x : InDelayed(x)' <=> InDelayed(x)
  /\ \A x : (InQueue(x) <=> Has(task_queue_, x)) /\ (InQueue(x)' <=> Has(task_queue_', x))
  /\ \A x : (InBatch(x) <=> Has(batch, x)) /\ (InBatch(x)' <=> Has(batch', x))
<1> QED
  BY DEF InQueue, InBatch, InDelayed, Has

LEMMA DelayedFrame ==
  \A x : /\ InDelayed(x) <=> Has(TasksOf(delayed_tasks_), x)
         /\ InDelayed(x)' <=> Has(TasksOf(delayed_tasks_'), x)
<1> QED
  BY DEF InDelayed, Has, TasksOf

LEMMA EnqueueStep ==
  ASSUME Core, NEW t \in Tasks, Enqueue(t)
  PROVE  Core'
<1> USE DEF control, threads, delayed, task
<1>1. /\ caller[t] = "new" /\ enqueues[t] < MaxEnqueues
      /\ caller' = [caller EXCEPT ![t] = "push"]
      /\ enqueues' = [enqueues EXCEPT ![t] = @ + 1]
      /\ all_tasks_' = all_tasks_ \cup {t}
      /\ UNCHANGED <<owner, starts, running_, stop_, drained, worker, current, delayedWorker, batch,
                     delayed_tasks_, status_, calls, task_queue_>>
  BY DEF Enqueue, Register
<1>2. TypeOK'
  BY <1>1, ManagerAssumption, SMTT(60) DEF Core, TypeOK
<1>3. \A x \in Tasks : /\ caller'[x] = IF x = t THEN "push" ELSE caller[x]
                       /\ enqueues'[x] = IF x = t THEN enqueues[x] + 1 ELSE enqueues[x]
  BY <1>1 DEF Core, TypeOK
<1>4. \A x \in Tasks : /\ InQueue(x)' <=> InQueue(x)
                       /\ InBatch(x)' <=> InBatch(x)
                       /\ InDelayed(x)' <=> InDelayed(x)
  BY <1>1, Frames
<1>5. Threads' /\ Called' /\ Lifecycle'
  BY <1>1 DEF Core, Threads, Called, Lifecycle
<1>6. Once'
  BY <1>1, <1>3, <1>4 DEF Core, Once, Works
<1>7. Settled'
  BY <1>1, <1>3, <1>4 DEF Core, Once, Settled, Holds, Works
<1>8. Registered'
  BY <1>1, <1>3, <1>4 DEF Core, Once, Registered, Works, Busy, TypeOK
<1> QED
  BY <1>2, <1>5, <1>6, <1>7, <1>8 DEF Core

LEMMA PushStep ==
  ASSUME Core, NEW t \in Tasks, Push(t)
  PROVE  Core'
<1> USE DEF control, threads, delayed, task
<1>1. /\ caller[t] = "push"
      /\ caller' = [caller EXCEPT ![t] = "notify"]
      /\ task_queue_' = Append(task_queue_, t)
      /\ UNCHANGED <<owner, starts, running_, stop_, drained, worker, current, delayedWorker, batch,
                     delayed_tasks_, status_, calls, enqueues, all_tasks_>>
  BY DEF Push
<1>2. PICK q \in Seq(Tasks) : q = task_queue_
  BY DEF Core, TypeOK
<1>3. ~Has(q, t) /\ Distinct(q)
  BY <1>1, <1>2, Frames DEF Core, Once
<1>4. /\ task_queue_' \in Seq(Tasks) /\ Distinct(task_queue_')
      /\ \A x : InQueue(x)' <=> InQueue(x) \/ x = t
  BY <1>1, <1>2, <1>3, AppendTask, Frames
<1>5. TypeOK'
  BY <1>1, <1>4 DEF Core, TypeOK
<1>6. \A x \in Tasks : caller'[x] = IF x = t THEN "notify" ELSE caller[x]
  BY <1>1 DEF Core, TypeOK
<1>7. \A x \in Tasks : (InBatch(x)' <=> InBatch(x)) /\ (InDelayed(x)' <=> InDelayed(x))
  BY <1>1, Frames
<1>8. Threads' /\ Called' /\ Lifecycle'
  BY <1>1 DEF Core, Threads, Called, Lifecycle
<1>9. Once'
  BY <1>1, <1>4, <1>6, <1>7 DEF Core, Once, Works
<1>10. Settled'
  BY <1>1, <1>4, <1>6, <1>7 DEF Core, Settled, Holds
<1>11. Registered'
  <2>1. \A w \in Workers, x \in Tasks : (Works(w, x)' <=> Works(w, x)) /\ (Busy(w, x)' <=> Busy(w, x))
    BY <1>1 DEF Works, Busy
  <2>2. t \in all_tasks_ \/ status_[t] = "CANCELED" \/ ~(enqueues[t] <= 1)
    BY <1>1 DEF Core, Registered
  <2> QED
    BY <1>1, <1>4, <1>6, <2>1, <2>2 DEF Core, Registered
<1> QED
  BY <1>5, <1>8, <1>9, <1>10, <1>11 DEF Core

\* notify_one() moves one sleeper to its predicate.
LEMMA NotifyOneOK ==
  ASSUME Core, NotifyOne
  PROVE  /\ worker' \in [Workers -> {"off", "check", "waiting", "pop", "holding", "running", "erase"}]
         /\ \A w \in Workers : worker'[w] = worker[w] \/ (worker[w] = "waiting" /\ worker'[w] = "check")
         /\ Workers # {} => \E w \in Workers : worker'[w] # "waiting"
<1>1. CASE {w \in Workers : worker[w] = "waiting"} = {}
  BY <1>1 DEF NotifyOne, Core, TypeOK
<1>2. CASE {w \in Workers : worker[w] = "waiting"} # {}
  <2>1. PICK w \in Workers : worker[w] = "waiting" /\ worker' = [worker EXCEPT ![w] = "check"]
    BY <1>2 DEF NotifyOne
  <2> QED
    BY <2>1 DEF Core, TypeOK
<1> QED
  BY <1>1, <1>2

\* A step that only moves workers between the places where they hold nothing.
LEMMA IdleMoves ==
  ASSUME Core, worker' \in [Workers -> {"off", "check", "waiting", "pop", "holding", "running", "erase"}],
         \A w \in Workers :
           \/ worker'[w] = worker[w]
           \/ /\ worker[w] \in {"check", "waiting", "pop"}
              /\ worker'[w] \in {"off", "check", "waiting", "pop"},
         UNCHANGED <<current, task_queue_, batch, delayed_tasks_, all_tasks_, enqueues, status_, calls, drained>>,
         UNCHANGED caller \/ \E t \in Tasks : caller[t] = "notify" /\ caller' = [caller EXCEPT ![t] = "done"],
         \/ UNCHANGED delayedWorker
         \/ delayedWorker \in {"check", "notify"} /\ delayedWorker' # "push"
  PROVE  Once' /\ Settled' /\ Called' /\ Lifecycle' /\ Registered'
<1>1. \A x \in Tasks : /\ InQueue(x)' <=> InQueue(x)
                       /\ InBatch(x)' <=> InBatch(x)
                       /\ InDelayed(x)' <=> InDelayed(x)
  BY Frames
<1>2. \A x \in Tasks : caller'[x] = caller[x] \/ (caller[x] = "notify" /\ caller'[x] = "done")
  BY DEF Core, TypeOK
<1>3. \A w \in Workers, x \in Tasks :
        /\ Works(w, x)' <=> Works(w, x)
        /\ Holds(w, x)' <=> Holds(w, x)
        /\ Busy(w, x)' <=> Busy(w, x)
        /\ worker'[w] = "running" <=> worker[w] = "running"
        /\ worker'[w] = "erase" <=> worker[w] = "erase"
  BY DEF Works, Holds, Busy
<1>4. Called' /\ Lifecycle'
  BY DEF Core, Called, Lifecycle
<1>5. Once'
  BY <1>1, <1>2, <1>3 DEF Core, Once
<1>6. Settled'
  BY <1>1, <1>2, <1>3 DEF Core, Settled
<1>7. Registered'
  BY <1>1, <1>2, <1>3 DEF Core, Registered
<1> QED
  BY <1>4, <1>5, <1>6, <1>7

\* The steps of the workers that hold nothing, of notify_one(), and of stop()
\* up to its drain loops.
LEMMA IdleSteps ==
  ASSUME Core,
         \/ \E t \in Tasks : Notify(t)
         \/ \E w \in Workers : Wait(w) \/ SpuriousWakeup(w)
         \/ Stop \/ Join \/ DelayedCheck \/ DelayedNotify
  PROVE  Core'
<1> USE DEF control, threads, delayed, task, admission
<1> SUFFICES TypeOK' /\ Threads' /\ Once' /\ Settled' /\ Called' /\ Lifecycle' /\ Registered'
  BY DEF Core
<1>1. CASE \E t \in Tasks : Notify(t)
  <2>1. PICK t \in Tasks : Notify(t)
    BY <1>1
  <2>2. NotifyOne
    BY <2>1 DEF Notify
  <2>3. /\ worker' \in [Workers -> {"off", "check", "waiting", "pop", "holding", "running", "erase"}]
        /\ \A w \in Workers : worker'[w] = worker[w] \/ (worker[w] = "waiting" /\ worker'[w] = "check")
    BY <2>2, NotifyOneOK
  <2>4. /\ caller[t] = "notify" /\ caller' = [caller EXCEPT ![t] = "done"]
        /\ UNCHANGED <<owner, starts, running_, stop_, drained, current, delayedWorker, batch,
                       delayed_tasks_, status_, calls, enqueues, task_queue_, all_tasks_>>
    BY <2>1 DEF Notify
  <2>5. Once' /\ Settled' /\ Called' /\ Lifecycle' /\ Registered'
    BY <2>3, <2>4, IdleMoves
  <2>6. TypeOK'
    BY <2>3, <2>4 DEF Core, TypeOK
  <2>7. Threads'
    BY <2>3, <2>4 DEF Core, Threads
  <2> QED
    BY <2>5, <2>6, <2>7
<1>2. CASE \E w \in Workers : Wait(w) \/ SpuriousWakeup(w)
  <2>1. PICK w \in Workers : Wait(w) \/ SpuriousWakeup(w)
    BY <1>2
  <2>2. PICK to \in {"check", "waiting", "pop"} :
          worker[w] \in {"check", "waiting"} /\ worker' = [worker EXCEPT ![w] = to]
    BY <2>1 DEF Wait, SpuriousWakeup
  <2>3. /\ worker' \in [Workers -> {"off", "check", "waiting", "pop", "holding", "running", "erase"}]
        /\ \A v \in Workers : worker'[v] = IF v = w THEN to ELSE worker[v]
    BY <2>2 DEF Core, TypeOK
  <2>4. UNCHANGED <<owner, starts, running_, stop_, drained, current, delayedWorker, batch, caller,
                    delayed_tasks_, status_, calls, enqueues, task_queue_, all_tasks_>>
    BY <2>1 DEF Wait, SpuriousWakeup
  <2>5. Once' /\ Settled' /\ Called' /\ Lifecycle' /\ Registered'
    BY <2>2, <2>3, <2>4, IdleMoves
  <2>6. TypeOK'
    BY <2>3, <2>4 DEF Core, TypeOK
  <2>7. Threads'
    BY <2>2, <2>3, <2>4 DEF Core, Threads
  <2> QED
    BY <2>5, <2>6, <2>7
<1>3. CASE Stop
  <2>1. /\ worker' = [w \in Workers |-> IF worker[w] = "waiting" THEN "check" ELSE worker[w]]
        /\ owner' = "join" /\ running_' = FALSE /\ stop_' = TRUE
        /\ UNCHANGED <<starts, drained, current, delayedWorker, batch, caller,
                       delayed_tasks_, status_, calls, enqueues, task_queue_, all_tasks_>>
    BY <1>3 DEF Stop
  <2>2. /\ worker' \in [Workers -> {"off", "check", "waiting", "pop", "holding", "running", "erase"}]
        /\ \A v \in Workers : worker'[v] = worker[v] \/ (worker[v] = "waiting" /\ worker'[v] = "check")
    BY <2>1 DEF Core, TypeOK
  <2>3. Once' /\ Settled' /\ Called' /\ Lifecycle' /\ Registered'
    BY <2>1, <2>2, IdleMoves
  <2>4. TypeOK'
    BY <2>1, <2>2 DEF Core, TypeOK
  <2>5. Threads'
    BY <2>1, <2>2 DEF Core, Threads
  <2> QED
    BY <2>3, <2>4, <2>5
<1>4. CASE Join
  <2>1. /\ owner' = "drainDelayed" /\ delayedWorker = "off" /\ \A w \in Workers : worker[w] = "off"
        /\ UNCHANGED <<starts, running_, stop_, drained, worker, current, delayedWorker, batch, caller,
                       delayed_tasks_, status_, calls, enqueues, task_queue_, all_tasks_>>
    BY <1>4 DEF Join
  <2>2. worker' \in [Workers -> {"off", "check", "waiting", "pop", "holding", "running", "erase"}]
    BY <2>1 DEF Core, TypeOK
  <2>3. Once' /\ Settled' /\ Called' /\ Lifecycle' /\ Registered'
    BY <2>1, <2>2, IdleMoves
  <2>4. TypeOK' /\ Threads'
    BY <2>1 DEF Core, TypeOK, Threads
  <2> QED
    BY <2>3, <2>4
<1>5. CASE DelayedCheck
  <2>1. /\ delayedWorker = "check" /\ delayedWorker' \in {"off", "sleep"}
        /\ UNCHANGED <<owner, starts, running_, stop_, drained, worker, current, batch, caller,
                       delayed_tasks_, status_, calls, enqueues, task_queue_, all_tasks_>>
    BY <1>5 DEF DelayedCheck
  <2>2. worker' \in [Workers -> {"off", "check", "waiting", "pop", "holding", "running", "erase"}]
    BY <2>1 DEF Core, TypeOK
  <2>3. Once' /\ Settled' /\ Called' /\ Lifecycle' /\ Registered'
    BY <2>1, <2>2, IdleMoves
  <2>4. TypeOK' /\ Threads'
    BY <2>1 DEF Core, TypeOK, Threads
  <2> QED
    BY <2>3, <2>4
<1>6. CASE DelayedNotify
  <2>1. NotifyOne
    BY <1>6 DEF DelayedNotify
  <2>2. /\ worker' \in [Workers -> {"off", "check", "waiting", "pop", "holding", "running", "erase"}]
        /\ \A w \in Workers : worker'[w] = worker[w] \/ (worker[w] = "waiting" /\ worker'[w] = "check")
    BY <2>1, NotifyOneOK
  <2>3. /\ delayedWorker = "notify"
        /\ delayedWorker' = IF batch = <<>> THEN "check" ELSE "process"
        /\ UNCHANGED <<owner, starts, running_, stop_, drained, current, batch, caller,
                       delayed_tasks_, status_, calls, enqueues, task_queue_, all_tasks_>>
    BY <1>6 DEF DelayedNotify
  <2>4. Once' /\ Settled' /\ Called' /\ Lifecycle' /\ Registered'
    BY <2>2, <2>3, IdleMoves
  <2>5. TypeOK'
    BY <2>2, <2>3 DEF Core, TypeOK
  <2>6. Threads'
    BY <2>2, <2>3 DEF Core, Threads
  <2> QED
    BY <2>4, <2>5, <2>6
<1> QED
  BY <1>1, <1>2, <1>3, <1>4, <1>5, <1>6


LEMMA DelayedEnqueueStep ==
  ASSUME Core, NEW t \in Tasks, DelayedEnqueue(t)
  PROVE  Core'
<1> USE DEF control, threads, task
<1>1. /\ caller[t] = "new" /\ enqueues[t] < MaxEnqueues
      /\ caller' = [caller EXCEPT ![t] = "delayed"]
      /\ enqueues' = [enqueues EXCEPT ![t] = @ + 1]
      /\ delayed_tasks_' = Append(delayed_tasks_, [task |-> t, delay |-> Delay[t]])
      /\ UNCHANGED <<owner, starts, running_, stop_, drained, worker, current, delayedWorker, batch,
                     status_, calls, task_queue_, all_tasks_>>
  BY DEF DelayedEnqueue
<1>2. PICK d \in Seq(Entries), e \in Entries : d = delayed_tasks_ /\ e = [task |-> t, delay |-> Delay[t]]
  BY ManagerAssumption DEF Core, TypeOK, Entries
<1>3. /\ Append(d, e) \in Seq(Entries) /\ e.task = t
      /\ TasksOf(d) \in Seq(Tasks) /\ TasksOf(Append(d, e)) = Append(TasksOf(d), t)
  <2>1. /\ Append(d, e) \in Seq(Entries) /\ DOMAIN d = 1..Len(d) /\ Len(d) \in Nat
        /\ DOMAIN Append(d, e) = 1..(Len(d) + 1)
        /\ \A i \in 1..Len(d) : Append(d, e)[i] = d[i]
        /\ Append(d, e)[Len(d) + 1] = e
    BY AppendProperties, LenProperties
  <2>2. e.task = t /\ \A x \in Entries : x.task \in Tasks
    BY <1>2 DEF Entries
  <2>3. TasksOf(d) \in Seq(Tasks) /\ Len(TasksOf(d)) = Len(d)
    <3>1. TasksOf(d) \in [1..Len(d) -> Tasks]
      BY <2>1, <2>2, ElementOfSeq DEF TasksOf
    <3> QED
      BY <2>1, <3>1, SeqDef, LenProperties
  <2>4. /\ DOMAIN TasksOf(Append(d, e)) = 1..(Len(d) + 1)
        /\ \A i \in 1..Len(d) : TasksOf(Append(d, e))[i] = TasksOf(d)[i]
        /\ TasksOf(Append(d, e))[Len(d) + 1] = t
    BY <2>1, <2>2 DEF TasksOf
  <2>5. /\ Append(TasksOf(d), t) \in Seq(Tasks)
        /\ DOMAIN Append(TasksOf(d), t) = 1..(Len(d) + 1)
        /\ \A i \in 1..Len(d) : Append(TasksOf(d), t)[i] = TasksOf(d)[i]
        /\ Append(TasksOf(d), t)[Len(d) + 1] = t
    BY <2>1, <2>3, AppendProperties, LenProperties
  <2>6. \A i \in 1..(Len(d) + 1) : TasksOf(Append(d, e))[i] = Append(TasksOf(d), t)[i]
    <3>1. \A i \in 1..(Len(d) + 1) : i \in 1..Len(d) \/ i = Len(d) + 1
      BY <2>1
    <3> QED
      BY <2>4, <2>5, <3>1
  <2>7. TasksOf(Append(d, e)) \in Seq(Tasks) /\ Len(TasksOf(Append(d, e))) = Len(d) + 1
    <3>1. TasksOf(Append(d, e)) \in [1..(Len(d) + 1) -> Tasks]
      BY <2>1, <2>2, ElementOfSeq DEF TasksOf
    <3> QED
      BY <2>1, <3>1, SeqDef, LenProperties
  <2>8. Len(Append(TasksOf(d), t)) = Len(d) + 1
    BY <2>3, AppendProperties
  <2> QED
    BY <2>1, <2>2, <2>3, <2>5, <2>6, <2>7, <2>8, SeqEqual
<1>4. Distinct(TasksOf(d)) /\ ~Has(TasksOf(d), t)
  BY <1>1, <1>2, DelayedFrame DEF Core, Once
<1>5. /\ delayed_tasks_' \in Seq(Entries) /\ Distinct(TasksOf(delayed_tasks_'))
      /\ \A x : InDelayed(x)' <=> InDelayed(x) \/ x = t
  <2>1. delayed_tasks_' = Append(d, e)
    BY <1>1, <1>2
  <2>2. /\ Distinct(Append(TasksOf(d), t))
        /\ \A x : Has(Append(TasksOf(d), t), x) <=> Has(TasksOf(d), x) \/ x = t
    BY <1>3, <1>4, AppendTask
  <2>3. TasksOf(delayed_tasks_') = Append(TasksOf(d), t)
    BY <1>3, <2>1
  <2> QED
    BY <1>2, <1>3, <2>1, <2>2, <2>3, DelayedFrame
<1>6. TypeOK'
  BY <1>1, <1>5, ManagerAssumption DEF Core, TypeOK
<1>7. \A x \in Tasks : /\ caller'[x] = IF x = t THEN "delayed" ELSE caller[x]
                       /\ enqueues'[x] = IF x = t THEN enqueues[x] + 1 ELSE enqueues[x]
  BY <1>1 DEF Core, TypeOK
<1>8. \A x \in Tasks : (InBatch(x)' <=> InBatch(x)) /\ (InQueue(x)' <=> InQueue(x))
  BY <1>1, Frames
<1>9. Threads' /\ Called' /\ Lifecycle'
  BY <1>1 DEF Core, Threads, Called, Lifecycle
<1>10. Once'
  BY <1>1, <1>5, <1>7, <1>8 DEF Core, Once, Works
<1>11. Settled'
  BY <1>1, <1>5, <1>7, <1>8 DEF Core, Once, Settled, Holds, Works
<1>12. Registered'
  BY <1>1, <1>5, <1>7, <1>8 DEF Core, Once, Registered, Works, Busy, TypeOK
<1> QED
  BY <1>6, <1>9, <1>10, <1>11, <1>12 DEF Core

\* cancel() and reset() change what became of a task, not where it is.
LEMMA CancelStep ==
  ASSUME Core, NEW t \in Tasks, Cancel(t)
  PROVE  Core'
<1> USE DEF control, threads, delayed, admission
<1>1. /\ status_' = [status_ EXCEPT ![t] = "CANCELED"]
      /\ calls' = [calls EXCEPT ![t] = Append(@, "cancel")]
      /\ all_tasks_' = all_tasks_ \ {t}
      /\ UNCHANGED <<owner, starts, running_, stop_, drained, worker, current, delayedWorker, batch,
                     delayed_tasks_, caller, enqueues, task_queue_>>
  BY DEF Cancel, CancelTask
<1>2. PICK c \in Seq(Callbacks) : c = calls[t]
  BY DEF Core, TypeOK
<1>3. /\ Append(c, "cancel") \in Seq(Callbacks) /\ DOMAIN c = 1..Len(c) /\ Len(c) \in Nat
      /\ DOMAIN Append(c, "cancel") = 1..(Len(c) + 1)
      /\ \A i \in 1..Len(c) : Append(c, "cancel")[i] = c[i]
      /\ Append(c, "cancel")[Len(c) + 1] = "cancel"
  <2>1. "cancel" \in Callbacks
    BY DEF Callbacks
  <2> QED
    BY <2>1, AppendProperties, LenProperties
<1>4. \A x \in Tasks : /\ status_'[x] = IF x = t THEN "CANCELED" ELSE status_[x]
                       /\ calls'[x] = IF x = t THEN Append(c, "cancel") ELSE calls[x]
  BY <1>1, <1>2 DEF Core, TypeOK
<1>5. TypeOK'
  <2>1. status_' \in [Tasks -> Statuses] /\ calls' \in [Tasks -> Seq(Callbacks)]
    BY <1>1, <1>2, <1>3 DEF Core, TypeOK, Statuses
  <2> QED
    BY <1>1, <2>1 DEF Core, TypeOK
<1>6. \A x \in Tasks : /\ InQueue(x)' <=> InQueue(x)
                       /\ InBatch(x)' <=> InBatch(x)
                       /\ InDelayed(x)' <=> InDelayed(x)
  BY <1>1, Frames
<1>7. Lifecycle'
  <2> SUFFICES ASSUME NEW x \in Tasks, NEW i \in DOMAIN calls'[x]
               PROVE  /\ calls'[x][i] \in {"run", "release"} => i = 1
                      /\ calls'[x][i] = "error" => i = 2 /\ calls'[x][1] = "run"
    BY DEF Lifecycle
  <2>1. CASE x = t
    <3>1. \A j \in DOMAIN c : /\ c[j] \in {"run", "release"} => j = 1
                              /\ c[j] = "error" => j = 2 /\ c[1] = "run"
      BY <1>2 DEF Core, Lifecycle
    <3>2. i \in 1..Len(c) \/ i = Len(c) + 1
      <4>1. i \in 1..(Len(c) + 1)
        BY <1>3, <1>4, <2>1
      <4> QED
        BY <1>3, <4>1
    <3>3. CASE i = Len(c) + 1
      BY <1>3, <1>4, <2>1, <3>3
    <3>4. CASE i \in 1..Len(c)
      <4>1. 1 \in 1..Len(c)
        BY <1>3, <3>4
      <4> QED
        BY <1>3, <1>4, <2>1, <3>1, <3>4, <4>1, ZenonT(60)
    <3> QED
      BY <3>2, <3>3, <3>4
  <2>2. CASE x # t
    BY <1>4, <2>2 DEF Core, Lifecycle
  <2> QED
    BY <2>1, <2>2
<1>8. Threads' /\ Called'
  BY <1>1, <1>4 DEF Core, Threads, Called
<1>9. Once'
  BY <1>1, <1>6 DEF Core, Once, Works
<1>10. Settled'
  BY <1>1, <1>4, <1>6 DEF Core, Settled, Holds
<1>11. Registered'
  BY <1>1, <1>4, <1>6 DEF Core, Registered, Works, Busy
<1> QED
  BY <1>5, <1>7, <1>8, <1>9, <1>10, <1>11 DEF Core

LEMMA ResetStep ==
  ASSUME Core, NEW t \in Tasks, Reset(t)
  PROVE  Core'
<1> USE DEF control, threads, delayed
<1>1. /\ caller[t] = "done" /\ status_[t] \in {"SUCCESS", "FAILED"}
      /\ status_' = [status_ EXCEPT ![t] = "NONE"]
      /\ caller' = [caller EXCEPT ![t] = "new"]
      /\ calls' = [calls EXCEPT ![t] = <<>>]
      /\ UNCHANGED <<owner, starts, running_, stop_, drained, worker, current, delayedWorker, batch,
                     delayed_tasks_, enqueues, task_queue_, all_tasks_>>
  BY DEF Reset
<1>2. <<>> \in Seq(Callbacks) /\ DOMAIN <<>> = {}
  BY EmptySeq
<1>3. TypeOK'
  <2>1. status_' \in [Tasks -> Statuses] /\ calls' \in [Tasks -> Seq(Callbacks)]
    BY <1>1, <1>2 DEF Core, TypeOK, Statuses
  <2> QED
    BY <1>1, <2>1 DEF Core, TypeOK
<1>4. \A x \in Tasks : /\ status_'[x] = IF x = t THEN "NONE" ELSE status_[x]
                       /\ caller'[x] = IF x = t THEN "new" ELSE caller[x]
                       /\ calls'[x] = IF x = t THEN <<>> ELSE calls[x]
  BY <1>1 DEF Core, TypeOK
<1>5. \A x \in Tasks : /\ InQueue(x)' <=> InQueue(x)
                       /\ InBatch(x)' <=> InBatch(x)
                       /\ InDelayed(x)' <=> InDelayed(x)
  BY <1>1, Frames
<1>6. Lifecycle'
  BY <1>2, <1>4 DEF Core, Lifecycle
<1>7. Threads' /\ Called'
  BY <1>1, <1>4 DEF Core, Threads, Called
<1>8. \A w \in Workers : ~Works(w, t)
  BY <1>1 DEF Core, Settled, Works, Holds
<1>9. ~InQueue(t) /\ ~InBatch(t) /\ ~InDelayed(t)
  BY <1>1 DEF Core, Settled, Once
<1>10. Once'
  BY <1>1, <1>4, <1>5, <1>8, <1>9 DEF Core, Once, Works
<1>11. Settled'
  BY <1>1, <1>4, <1>5, <1>8, <1>9 DEF Core, Settled, Holds, Works
<1>12. Registered'
  BY <1>1, <1>4, <1>5, <1>8, <1>9 DEF Core, Registered, Works, Busy
<1> QED
  BY <1>3, <1>6, <1>7, <1>10, <1>11, <1>12 DEF Core

\* start() finds no thread and nothing under way.
LEMMA StartStep ==
  ASSUME Core, Start
  PROVE  Core'
<1> USE DEF task, admission
<1>1. /\ owner = "stopped" /\ starts < MaxStarts
      /\ starts' = starts + 1 /\ running_' = TRUE /\ stop_' = FALSE
      /\ worker' = [w \in Workers |-> "check"]
      /\ delayedWorker' = "check" /\ owner' = "running"
      /\ UNCHANGED <<drained, current, batch, delayed_tasks_, status_, calls, caller, enqueues,
                     task_queue_, all_tasks_>>
  BY DEF Start
<1>2. batch = <<>> /\ \A w \in Workers : worker[w] = "off" /\ worker'[w] = "check"
  BY <1>1 DEF Core, Threads
<1>3. TypeOK'
  <2>1. starts' \in 0..MaxStarts
    BY <1>1, ManagerAssumption DEF Core, TypeOK
  <2>2. worker' \in [Workers -> {"off", "check", "waiting", "pop", "holding", "running", "erase"}]
    BY <1>1
  <2> QED
    BY <1>1, <2>1, <2>2 DEF Core, TypeOK
<1>4. \A x \in Tasks : /\ InQueue(x)' <=> InQueue(x)
                       /\ InBatch(x)' <=> InBatch(x)
                       /\ InDelayed(x)' <=> InDelayed(x)
  BY <1>1, Frames
<1>5. Threads' /\ Called' /\ Lifecycle'
  BY <1>1, <1>2 DEF Core, Threads, Called, Lifecycle
<1>6. Once'
  BY <1>1, <1>2, <1>4 DEF Core, Once, Works
<1>7. Settled'
  BY <1>1, <1>2, <1>4 DEF Core, Settled, Holds
<1>8. Registered'
  BY <1>1, <1>2, <1>4 DEF Core, Registered, Works, Busy
<1> QED
  BY <1>3, <1>5, <1>6, <1>7, <1>8 DEF Core

\* Releasing tasks settles those that never ran and touches no other.
LEMMA Releasing ==
  ASSUME Core, NEW ts \in SUBSET Tasks, ReleaseTasks(ts)
  PROVE  /\ status_' \in [Tasks -> Statuses] /\ calls' \in [Tasks -> Seq(Callbacks)]
         /\ \A x \in Tasks : status_'[x] = IF x \in ts /\ status_[x] = "NONE" THEN "RELEASED" ELSE status_[x]
         /\ Called' /\ Lifecycle'
<1>1. \A x \in Tasks :
        /\ status_'[x] = IF x \in ts /\ status_[x] = "NONE" THEN "RELEASED" ELSE status_[x]
        /\ calls'[x] = IF x \in ts /\ status_[x] = "NONE" THEN Append(calls[x], "release") ELSE calls[x]
  BY DEF ReleaseTasks
<1>2. \A x \in Tasks : x \in ts /\ status_[x] = "NONE" =>
        calls'[x] \in Seq(Callbacks) /\ DOMAIN calls'[x] = {1} /\ calls'[x][1] = "release"
  <2>1. <<"release">> \in Seq(Callbacks) /\ DOMAIN <<"release">> = {1} /\ <<"release">>[1] = "release"
    BY DEF Callbacks
  <2>2. \A x \in Tasks : x \in ts /\ status_[x] = "NONE" => calls'[x] = <<"release">>
    <3>1. Append(<<>>, "release") = <<"release">>
      OBVIOUS
    <3> QED
      BY <1>1, <3>1 DEF Core, Called
  <2> QED
    BY <2>1, <2>2
<1>3. \A x \in Tasks : ~(x \in ts /\ status_[x] = "NONE") => calls'[x] = calls[x] /\ status_'[x] = status_[x]
  BY <1>1
<1>4. status_' \in [Tasks -> Statuses]
  <2>1. \A x \in Tasks : status_'[x] \in Statuses
    BY <1>1 DEF Core, TypeOK, Statuses
  <2> QED
    BY <2>1 DEF ReleaseTasks
<1>5. calls' \in [Tasks -> Seq(Callbacks)]
  <2>1. \A x \in Tasks : calls'[x] \in Seq(Callbacks)
    BY <1>2, <1>3 DEF Core, TypeOK
  <2> QED
    BY <2>1 DEF ReleaseTasks
<1>6. Lifecycle'
  <2> SUFFICES ASSUME NEW x \in Tasks, NEW i \in DOMAIN calls'[x]
               PROVE  /\ calls'[x][i] \in {"run", "release"} => i = 1
                      /\ calls'[x][i] = "error" => i = 2 /\ calls'[x][1] = "run"
    BY DEF Lifecycle
  <2>1. CASE x \in ts /\ status_[x] = "NONE"
    BY <1>2, <2>1
  <2>2. CASE ~(x \in ts /\ status_[x] = "NONE")
    BY <1>3, <2>2 DEF Core, Lifecycle
  <2> QED
    BY <2>1, <2>2
<1>7. Called'
  BY <1>1, <1>3 DEF Core, Called
<1> QED
  BY <1>1, <1>4, <1>5, <1>6, <1>7

\* The first drain loop of stop(): every delayed task that never ran is released.
LEMMA DrainDelayedStep ==
  ASSUME Core, DrainDelayed
  PROVE  Core'
<1> USE DEF threads
<1>1. PICK ts \in SUBSET Tasks : ts = {t \in Tasks : InDelayed(t)}
  OBVIOUS
<1>2. /\ owner = "drainDelayed" /\ owner' = "drainQueue" /\ delayed_tasks_' = <<>>
      /\ caller' = [t \in Tasks |-> IF InDelayed(t) THEN "done" ELSE caller[t]]
      /\ ReleaseTasks(ts)
      /\ UNCHANGED <<starts, running_, stop_, drained, worker, current, delayedWorker, batch,
                     enqueues, task_queue_, all_tasks_>>
  BY <1>1 DEF DrainDelayed
<1>3. /\ status_' \in [Tasks -> Statuses] /\ calls' \in [Tasks -> Seq(Callbacks)]
      /\ \A x \in Tasks : status_'[x] = IF x \in ts /\ status_[x] = "NONE" THEN "RELEASED" ELSE status_[x]
      /\ Called' /\ Lifecycle'
  BY <1>2, Releasing
<1>4. /\ \A x \in Tasks : ~InDelayed(x)'
      /\ delayed_tasks_' \in Seq(Entries) /\ Distinct(TasksOf(delayed_tasks_'))
  BY <1>2, EmptySeq DEF InDelayed, Distinct, TasksOf
<1>5. \A x \in Tasks : caller'[x] = IF InDelayed(x) THEN "done" ELSE caller[x]
  BY <1>2
<1>6. TypeOK'
  <2>1. caller' \in [Tasks -> {"new", "delayed", "push", "notify", "done"}]
    BY <1>2, <1>5 DEF Core, TypeOK
  <2> QED
    BY <1>2, <1>3, <1>4, <2>1 DEF Core, TypeOK
<1>7. Threads'
  BY <1>2 DEF Core, Threads
<1>8. \A x \in Tasks : (InQueue(x)' <=> InQueue(x)) /\ (InBatch(x)' <=> InBatch(x))
  BY <1>2, Frames
<1>9. Once'
  BY <1>2, <1>4, <1>5, <1>8 DEF Core, Once, Works
<1>10. Settled'
  <2>1. \A x \in Tasks : x \in ts <=> InDelayed(x)
    BY <1>1
  <2>2. \A x \in Tasks, w \in Workers : (Holds(w, x)' <=> Holds(w, x)) /\ worker'[w] = worker[w] /\ current'[w] = current[w]
    BY <1>2 DEF Holds
  <2>3. \A x \in Tasks : InDelayed(x) => ~InQueue(x) /\ \A w \in Workers : ~Holds(w, x)
    BY DEF Core, Once, Holds, Works
  <2> QED
    BY <1>2, <1>3, <1>4, <1>5, <1>8, <2>1, <2>2, <2>3 DEF Core, Settled
<1>11. Registered'
  <2>1. \A x \in Tasks, w \in Workers : (Works(w, x)' <=> Works(w, x)) /\ (Busy(w, x)' <=> Busy(w, x))
    BY <1>2 DEF Works, Busy
  <2>2. \A x \in Tasks : status_[x] = "CANCELED" => status_'[x] = "CANCELED"
    BY <1>3
  <2>3. \A x \in Tasks : caller'[x] = caller[x] \/ (caller[x] = "delayed" /\ caller'[x] = "done")
    BY <1>5 DEF Core, Once
  <2> QED
    BY <1>2, <1>8, <2>1, <2>2, <2>3 DEF Core, Registered
<1> QED
  BY <1>3, <1>6, <1>7, <1>9, <1>10, <1>11 DEF Core

\* The second drain loop: what it drops unreleased goes into drained.
LEMMA DrainQueueStep ==
  ASSUME Core, DrainQueue
  PROVE  Core'
<1> USE DEF threads, delayed, admission
<1>1. PICK ts \in SUBSET Tasks : ts = IF task_queue_ = <<>> THEN {} ELSE {Head(task_queue_)}
  BY HeadTailProperties DEF Core, TypeOK
<1>2. /\ owner = "drainQueue" /\ owner' = "stopped" /\ task_queue_' = <<>>
      /\ drained' = drained \cup {t \in Tasks : InQueue(t)}
      /\ ReleaseTasks(ts)
      /\ UNCHANGED <<starts, running_, stop_, worker, current, delayedWorker, batch, delayed_tasks_,
                     caller, enqueues, all_tasks_>>
  BY <1>1 DEF DrainQueue
<1>3. /\ status_' \in [Tasks -> Statuses] /\ calls' \in [Tasks -> Seq(Callbacks)]
      /\ \A x \in Tasks : status_'[x] = IF x \in ts /\ status_[x] = "NONE" THEN "RELEASED" ELSE status_[x]
      /\ Called' /\ Lifecycle'
  BY <1>2, Releasing
<1>4. /\ \A x \in Tasks : ~InQueue(x)'
      /\ task_queue_' \in Seq(Tasks) /\ Distinct(task_queue_')
  BY <1>2, EmptySeq DEF InQueue, Distinct
<1>5. TypeOK'
  BY <1>2, <1>3, <1>4 DEF Core, TypeOK
<1>6. Threads'
  BY <1>2 DEF Core, Threads
<1>7. \A x \in Tasks : (InDelayed(x)' <=> InDelayed(x)) /\ (InBatch(x)' <=> InBatch(x))
  BY <1>2, Frames
<1>8. \A x \in Tasks, w \in Workers :
        /\ Works(w, x)' <=> Works(w, x)
        /\ Busy(w, x)' <=> Busy(w, x)
        /\ Holds(w, x)' <=> Holds(w, x)
        /\ worker'[w] = worker[w] /\ current'[w] = current[w]
  BY <1>2 DEF Works, Busy, Holds
<1>9. Once'
  BY <1>2, <1>4, <1>7, <1>8 DEF Core, Once
<1>10. Settled'
  <2>1. \A x \in ts : caller[x] \in {"notify", "done"} /\ \A w \in Workers : ~Holds(w, x)
    <3>1. \A x \in ts : InQueue(x)
      <4>1. ASSUME task_queue_ # <<>> PROVE InQueue(Head(task_queue_))
        <5>1. Has(task_queue_, Head(task_queue_))
          BY <4>1, TailTask DEF Core, TypeOK
        <5> QED
          BY <5>1, Frames
      <4> QED
        BY <1>1, <4>1
    <3> QED
      BY <3>1 DEF Core, Once, Holds, Works
  <2> QED
    BY <1>2, <1>3, <1>4, <1>7, <1>8, <2>1 DEF Core, Settled
<1>11. Registered'
  <2>1. \A x \in Tasks : status_[x] = "CANCELED" => status_'[x] = "CANCELED"
    BY <1>3
  <2> QED
    BY <1>2, <1>4, <1>8, <2>1 DEF Core, Registered
<1> QED
  BY <1>3, <1>5, <1>6, <1>9, <1>10, <1>11 DEF Core

\* A worker leaves, takes the front of the queue, or finds it empty.
LEMMA PopStep ==
  ASSUME Core, NEW w \in Workers, Pop(w)
  PROVE  Core'
<1> USE DEF control, delayed, task, admission
<1>1. UNCHANGED <<owner, starts, running_, stop_, drained, delayedWorker, batch, delayed_tasks_,
                  status_, calls, caller, enqueues, all_tasks_>>
  BY DEF Pop
<1>2. CASE stop_ \/ task_queue_ = <<>>
  <2>1. PICK to \in {"off", "check"} :
          worker[w] = "pop" /\ worker' = [worker EXCEPT ![w] = to] /\ UNCHANGED <<current, task_queue_>>
    BY <1>2 DEF Pop
  <2>2. /\ worker' \in [Workers -> {"off", "check", "waiting", "pop", "holding", "running", "erase"}]
        /\ \A v \in Workers : worker'[v] = IF v = w THEN to ELSE worker[v]
    BY <2>1 DEF Core, TypeOK
  <2>3. Once' /\ Settled' /\ Called' /\ Lifecycle' /\ Registered'
    BY <1>1, <2>1, <2>2, IdleMoves
  <2>4. TypeOK'
    BY <1>1, <2>1, <2>2 DEF Core, TypeOK
  <2>5. Threads'
    BY <1>1, <2>1, <2>2 DEF Core, Threads
  <2> QED
    BY <2>3, <2>4, <2>5 DEF Core
<1>3. CASE ~(stop_ \/ task_queue_ = <<>>)
  <2>1. PICK q \in Seq(Tasks) : q = task_queue_ /\ q # <<>>
    BY <1>3 DEF Core, TypeOK
  <2>2. PICK t \in Tasks : t = Head(q)
    BY <2>1, HeadTailProperties
  <2>3. /\ worker[w] = "pop"
        /\ worker' = [worker EXCEPT ![w] = "holding"]
        /\ current' = [current EXCEPT ![w] = t]
        /\ task_queue_' = Tail(q)
    BY <1>3, <2>1, <2>2 DEF Pop
  <2>4. Distinct(q)
    BY <2>1 DEF Core, Once
  <2>5. /\ Tail(q) \in Seq(Tasks) /\ Has(q, t) /\ Distinct(Tail(q))
        /\ \A x : Has(Tail(q), x) <=> Has(q, x) /\ x # t
    BY <2>1, <2>2, <2>4, TailTask
  <2>6. /\ InQueue(t)
        /\ \A x \in Tasks : InQueue(x)' <=> InQueue(x) /\ x # t
    BY <2>1, <2>3, <2>5, Frames
  <2>7. \A x \in Tasks : (InDelayed(x)' <=> InDelayed(x)) /\ (InBatch(x)' <=> InBatch(x))
    BY <1>1, Frames
  <2>8. TypeOK'
    BY <1>1, <2>3, <2>5 DEF Core, TypeOK
  <2>9. \A v \in Workers : /\ worker'[v] = IF v = w THEN "holding" ELSE worker[v]
                           /\ current'[v] = IF v = w THEN t ELSE current[v]
    BY <2>3 DEF Core, TypeOK
  <2>10. Threads'
    BY <1>1, <2>3, <2>9 DEF Core, Threads
  <2>11. Called' /\ Lifecycle'
    BY <1>1 DEF Core, Called, Lifecycle
  <2>12. \A v \in Workers, x \in Tasks :
           /\ Works(v, x)' <=> (Works(v, x) \/ (v = w /\ x = t))
           /\ Busy(v, x)' <=> (Busy(v, x) \/ (v = w /\ x = t))
           /\ Holds(v, x)' <=> (Holds(v, x) \/ (v = w /\ x = t))
           /\ worker'[v] = "running" /\ current'[v] = x <=> worker[v] = "running" /\ current[v] = x
           /\ worker'[v] = "erase" /\ current'[v] = x <=> worker[v] = "erase" /\ current[v] = x
    BY <2>3, <2>9 DEF Works, Busy, Holds
  <2>13. Once'
    BY <1>1, <2>3, <2>5, <2>6, <2>7, <2>12 DEF Core, Once
  <2>14. Settled'
    BY <1>1, <2>6, <2>7, <2>12 DEF Core, Settled
  <2>15. Registered'
    <3>1. \A v \in Workers : ~Works(v, t) /\ (Busy(v, t) => worker[v] = "erase" /\ current[v] = t)
      BY <2>6 DEF Core, Once, Works, Busy
    <3>2. ASSUME enqueues[t] <= 1 PROVE \A v \in Workers : ~Busy(v, t)
      BY <2>6, <3>1, <3>2 DEF Core, Registered
    <3>3. enqueues[t] # 0
      BY <2>6 DEF Core, Once, Registered
    <3> QED
      BY <1>1, <2>6, <2>12, <3>2, <3>3 DEF Core, Registered
  <2> QED
    BY <2>8, <2>10, <2>11, <2>13, <2>14, <2>15 DEF Core
<1> QED
  BY <1>2, <1>3

\* Task::run() of the task a worker has popped.
LEMMA RunStep ==
  ASSUME Core, NEW w \in Workers, Run(w)
  PROVE  Core'
<1> USE DEF control, delayed, admission
<1>1. PICK t \in Tasks : t = current[w] /\ worker[w] = "holding"
  BY DEF Run, Core, Threads
<1>2. UNCHANGED <<owner, starts, running_, stop_, drained, delayedWorker, batch, delayed_tasks_,
                  current, caller, enqueues, task_queue_, all_tasks_>>
  BY DEF Run
<1>3. \A x \in Tasks : /\ InQueue(x)' <=> InQueue(x)
                       /\ InBatch(x)' <=> InBatch(x)
                       /\ InDelayed(x)' <=> InDelayed(x)
  BY <1>2, Frames
<1>4. Holds(w, t) /\ Works(w, t) /\ ~InQueue(t) /\ \A v \in Workers : Works(v, t) => v = w
  BY <1>1 DEF Core, Once, Holds, Works
<1>5. CASE status_[t] = "NONE"
  <2>1. /\ worker' = [worker EXCEPT ![w] = "running"]
        /\ status_' = [status_ EXCEPT ![t] = "RUNNING"]
        /\ calls' = [calls EXCEPT ![t] = Append(@, "run")]
    BY <1>1, <1>5 DEF Run
  <2>2. calls[t] = <<>> /\ Append(<<>>, "run") = <<"run">>
    BY <1>5 DEF Core, Called
  <2>3. /\ \A v \in Workers : worker'[v] = IF v = w THEN "running" ELSE worker[v]
        /\ \A x \in Tasks : status_'[x] = IF x = t THEN "RUNNING" ELSE status_[x]
        /\ \A x \in Tasks : calls'[x] = IF x = t THEN <<"run">> ELSE calls[x]
    BY <2>1, <2>2 DEF Core, TypeOK
  <2>4. <<"run">> \in Seq(Callbacks) /\ DOMAIN <<"run">> = {1} /\ <<"run">>[1] = "run"
    BY DEF Callbacks
  <2>5. TypeOK'
    <3>1. calls' \in [Tasks -> Seq(Callbacks)] /\ status_' \in [Tasks -> Statuses]
      BY <2>1, <2>2, <2>4 DEF Core, TypeOK, Statuses
    <3>2. worker' \in [Workers -> {"off", "check", "waiting", "pop", "holding", "running", "erase"}]
      BY <2>1 DEF Core, TypeOK
    <3> QED
      BY <1>2, <3>1, <3>2 DEF Core, TypeOK
  <2>6. Threads'
    BY <1>1, <1>2, <2>3 DEF Core, Threads
  <2>7. Called' /\ Lifecycle'
    BY <2>3, <2>4 DEF Core, Called, Lifecycle
  <2>8. \A v \in Workers, x \in Tasks :
          /\ Works(v, x)' <=> Works(v, x)
          /\ Busy(v, x)' <=> Busy(v, x)
          /\ Holds(v, x)' <=> Holds(v, x) /\ v # w
          /\ worker'[v] = "running" /\ current'[v] = x <=>
               (worker[v] = "running" /\ current[v] = x) \/ (v = w /\ x = t)
          /\ worker'[v] = "erase" <=> worker[v] = "erase"
    BY <1>1, <1>2, <2>3 DEF Works, Busy, Holds
  <2>9. Once'
    BY <1>2, <1>3, <2>8 DEF Core, Once
  <2>10. Settled'
    <3>1. \A x \in Tasks : x # t => \A v \in Workers : Holds(v, x)' <=> Holds(v, x)
      BY <1>1, <1>4, <2>8 DEF Holds
    <3>2. /\ caller[t] \in {"notify", "done"} /\ ~InQueue(t)
          /\ \A v \in Workers : ~Holds(v, t)'
      BY <1>4, <2>8 DEF Core, Once, Holds, Works
    <3> QED
      BY <1>2, <1>3, <2>3, <2>8, <3>1, <3>2 DEF Core, Settled
  <2>11. Registered'
    <3>1. \A x \in Tasks : status_[x] = "CANCELED" => status_'[x] = "CANCELED"
      BY <1>5, <2>3
    <3> QED
      BY <1>2, <1>3, <2>8, <3>1 DEF Core, Registered
  <2> QED
    BY <2>5, <2>6, <2>7, <2>9, <2>10, <2>11 DEF Core
<1>6. CASE status_[t] # "NONE"
  <2>1. worker' = [worker EXCEPT ![w] = "erase"] /\ UNCHANGED <<status_, calls>>
    BY <1>1, <1>6 DEF Run, task
  <2>2. \A v \in Workers : worker'[v] = IF v = w THEN "erase" ELSE worker[v]
    BY <2>1 DEF Core, TypeOK
  <2>3. TypeOK'
    BY <1>2, <2>1 DEF Core, TypeOK
  <2>4. Threads'
    BY <1>1, <1>2, <2>2 DEF Core, Threads
  <2>5. Called' /\ Lifecycle'
    BY <2>1 DEF Core, Called, Lifecycle
  <2>6. \A v \in Workers, x \in Tasks :
          /\ Works(v, x)' <=> Works(v, x) /\ v # w
          /\ Busy(v, x)' <=> Busy(v, x)
          /\ Holds(v, x)' <=> Holds(v, x) /\ v # w
          /\ worker'[v] = "running" <=> worker[v] = "running"
          /\ worker'[v] = "erase" /\ current'[v] = x <=>
               (worker[v] = "erase" /\ current[v] = x) \/ (v = w /\ x = t)
    BY <1>1, <1>2, <2>2 DEF Works, Busy, Holds
  <2>7. Once'
    BY <1>2, <1>3, <2>6 DEF Core, Once
  <2>8. Settled'
    <3>1. \A x \in Tasks : x # t => \A v \in Workers : Holds(v, x)' <=> Holds(v, x)
      BY <1>1, <1>4, <2>6 DEF Holds
    <3> QED
      BY <1>2, <1>3, <1>6, <2>1, <2>6, <3>1 DEF Core, Settled
  <2>9. Registered'
    <3>1. caller[t] \notin {"push", "delayed"} /\ ~InQueue(t)
      BY <1>4 DEF Core, Once
    <3> QED
      BY <1>2, <1>3, <2>1, <2>6, <3>1 DEF Core, Registered
  <2> QED
    BY <2>3, <2>4, <2>5, <2>7, <2>8, <2>9 DEF Core
<1> QED
  BY <1>5, <1>6

\* onRun() ends: well, with error(), or after cancel().
LEMMA RunEndsStep ==
  ASSUME Core, NEW w \in Workers, RunEnds(w)
  PROVE  Core'
<1> USE DEF control, delayed, admission
<1>1. PICK t \in Tasks : t = current[w] /\ worker[w] = "running"
  BY DEF RunEnds, Core, Threads
<1>2. /\ worker' = [worker EXCEPT ![w] = "erase"]
      /\ UNCHANGED <<owner, starts, running_, stop_, drained, delayedWorker, batch, delayed_tasks_,
                     current, caller, enqueues, task_queue_, all_tasks_>>
  BY DEF RunEnds
<1>3. \A x \in Tasks : /\ InQueue(x)' <=> InQueue(x)
                       /\ InBatch(x)' <=> InBatch(x)
                       /\ InDelayed(x)' <=> InDelayed(x)
  BY <1>2, Frames
<1>4. /\ Works(w, t) /\ ~InQueue(t) /\ caller[t] \in {"notify", "done"}
      /\ \A v \in Workers : Works(v, t) => v = w
      /\ status_[t] \in {"RUNNING", "CANCELED"}
  BY <1>1 DEF Core, Once, Settled, Works
<1>5. /\ status_' \in [Tasks -> Statuses]
      /\ \A x \in Tasks : x # t => status_'[x] = status_[x]
      /\ status_[t] = "CANCELED" => status_'[t] = "CANCELED"
      /\ status_'[t] \in {"SUCCESS", "FAILED", "CANCELED"}
  BY <1>1, <1>4 DEF RunEnds, task, Core, TypeOK, Statuses
<1>6. /\ calls' \in [Tasks -> Seq(Callbacks)]
      /\ \A x \in Tasks : \/ calls'[x] = calls[x]
                          \/ /\ x = t /\ DOMAIN calls'[x] = {1, 2}
                             /\ calls'[x][1] = "run" /\ calls'[x][2] = "error"
  <2>1. CASE calls' = calls
    BY <2>1 DEF Core, TypeOK
  <2>2. CASE status_[t] = "RUNNING" /\ calls' = [calls EXCEPT ![t] = Append(@, "error")]
    <3>1. PICK run \in Seq(Callbacks) : run = calls[t] /\ Len(run) = 1 /\ run[1] = "run"
      <4>1. calls[t] = <<"run">> /\ calls[t] \in Seq(Callbacks)
        BY <2>2 DEF Core, Called, TypeOK
      <4>2. Len(<<"run">>) = 1 /\ <<"run">>[1] = "run"
        OBVIOUS
      <4> QED
        BY <4>1, <4>2
    <3>2. "error" \in Callbacks
      BY DEF Callbacks
    <3>3. /\ Append(run, "error") \in Seq(Callbacks)
          /\ DOMAIN run = 1..1 /\ DOMAIN Append(run, "error") = 1..2
          /\ \A i \in 1..1 : Append(run, "error")[i] = run[i]
          /\ Append(run, "error")[2] = "error"
      BY <3>1, <3>2, AppendProperties, LenProperties
    <3>4. calls'[t] = Append(run, "error") /\ \A x \in Tasks : x # t => calls'[x] = calls[x]
      BY <2>2, <3>1 DEF Core, TypeOK
    <3>5. calls' \in [Tasks -> Seq(Callbacks)]
      BY <2>2, <3>1, <3>3 DEF Core, TypeOK
    <3> QED
      BY <3>1, <3>3, <3>4, <3>5
  <2> QED
    BY <1>1, <2>1, <2>2 DEF RunEnds, task
<1>7. Lifecycle'
  BY <1>6 DEF Core, Lifecycle
<1>8. Called'
  BY <1>5, <1>6 DEF Core, Called
<1>9. \A v \in Workers : worker'[v] = IF v = w THEN "erase" ELSE worker[v]
  BY <1>2 DEF Core, TypeOK
<1>10. TypeOK'
  BY <1>2, <1>5, <1>6 DEF Core, TypeOK
<1>11. Threads'
  BY <1>1, <1>2, <1>9 DEF Core, Threads
<1>12. \A v \in Workers, x \in Tasks :
         /\ Works(v, x)' <=> Works(v, x) /\ v # w
         /\ Busy(v, x)' <=> Busy(v, x)
         /\ Holds(v, x)' <=> Holds(v, x)
         /\ worker'[v] = "running" <=> worker[v] = "running" /\ v # w
         /\ worker'[v] = "erase" /\ current'[v] = x <=>
              (worker[v] = "erase" /\ current[v] = x) \/ (v = w /\ x = t)
  BY <1>1, <1>2, <1>9 DEF Works, Busy, Holds
<1>13. Once'
  BY <1>2, <1>3, <1>12 DEF Core, Once
<1>14. Settled'
  <2>1. \A v \in Workers : ~Holds(v, t) /\ (v # w => ~(worker[v] = "running" /\ current[v] = t))
    BY <1>1, <1>4 DEF Holds, Works
  <2> QED
    BY <1>2, <1>3, <1>4, <1>5, <1>12, <2>1 DEF Core, Settled
<1>15. Registered'
  BY <1>2, <1>3, <1>4, <1>5, <1>12 DEF Core, Registered
<1> QED
  BY <1>7, <1>8, <1>10, <1>11, <1>13, <1>14, <1>15 DEF Core

\* The worker erases the id of the task it ran.
LEMMA EraseStep ==
  ASSUME Core, NEW w \in Workers, Erase(w)
  PROVE  Core'
<1> USE DEF control, delayed, admission, task
<1>1. PICK t \in Tasks : t = current[w] /\ worker[w] = "erase"
  BY DEF Erase, Core, Threads
<1>2. /\ worker' = [worker EXCEPT ![w] = "check"] /\ current' = [current EXCEPT ![w] = NoTask]
      /\ all_tasks_' = all_tasks_ \ {t}
      /\ UNCHANGED <<owner, starts, running_, stop_, drained, delayedWorker, batch, delayed_tasks_,
                     status_, calls, caller, enqueues, task_queue_>>
  BY <1>1 DEF Erase
<1>3. \A x \in Tasks : /\ InQueue(x)' <=> InQueue(x)
                       /\ InBatch(x)' <=> InBatch(x)
                       /\ InDelayed(x)' <=> InDelayed(x)
  BY <1>2, Frames
<1>4. \A v \in Workers : /\ worker'[v] = IF v = w THEN "check" ELSE worker[v]
                         /\ current'[v] = IF v = w THEN NoTask ELSE current[v]
  BY <1>2 DEF Core, TypeOK
<1>5. TypeOK'
  BY <1>2 DEF Core, TypeOK
<1>6. Threads'
  BY <1>1, <1>2, <1>4 DEF Core, Threads
<1>7. Called' /\ Lifecycle'
  BY <1>2 DEF Core, Called, Lifecycle
<1>8. \A v \in Workers, x \in Tasks :
        /\ Works(v, x)' <=> Works(v, x)
        /\ Busy(v, x)' <=> Busy(v, x) /\ v # w
        /\ Holds(v, x)' <=> Holds(v, x)
        /\ worker'[v] = "running" /\ current'[v] = x <=> worker[v] = "running" /\ current[v] = x
        /\ worker'[v] = "erase" /\ current'[v] = x <=> worker[v] = "erase" /\ current[v] = x /\ v # w
  BY <1>1, <1>4 DEF Works, Busy, Holds
<1>9. Once'
  BY <1>2, <1>3, <1>8 DEF Core, Once
<1>10. Settled'
  BY <1>2, <1>3, <1>8 DEF Core, Settled
<1>11. Registered'
  <2>1. enqueues[t] <= 1 => /\ caller[t] \notin {"push", "delayed"} /\ ~InQueue(t)
                            /\ \A v \in Workers : ~Works(v, t)
    BY <1>1 DEF Core, Registered, Works, Busy
  <2>2. delayedWorker = "push" /\ batch[1] = t => caller[t] = "delayed"
    <3>1. delayedWorker = "push" => InBatch(batch[1])
      <4>1. delayedWorker = "push" => batch # <<>> /\ batch \in Seq(Tasks)
        BY DEF Core, Threads, TypeOK
      <4>2. delayedWorker = "push" => 1 \in DOMAIN batch
        BY <4>1, LenProperties, EmptySeq
      <4> QED
        BY <4>2 DEF InBatch
    <3> QED
      BY <3>1 DEF Core, Once
  <2> QED
    BY <1>2, <1>3, <1>8, <2>1, <2>2 DEF Core, Registered
<1> QED
  BY <1>5, <1>6, <1>7, <1>9, <1>10, <1>11 DEF Core

\* One pass of the delayed worker: what is due moves to the batch, the rest
\* stays, and nothing is doubled or dropped.
LEMMA DelayedPassStep ==
  ASSUME Core, DelayedPass
  PROVE  Core'
<1> USE DEF control, threads, task, admission
<1>1. /\ delayedWorker = "sleep" /\ batch = <<>>
      /\ delayedWorker' = IF Due = {} THEN "check" ELSE "process"
      /\ UNCHANGED <<owner, starts, running_, stop_, drained, worker, current, status_, calls,
                     caller, enqueues, task_queue_, all_tasks_>>
  BY DEF DelayedPass, Core, Threads
<1>2. PICK d \in Seq(Entries) : d = delayed_tasks_ /\ Distinct(TasksOf(d))
  BY DEF Core, TypeOK, Once
<1>3. PICK due \in SUBSET (DOMAIN d), rest \in SUBSET (DOMAIN d) :
        /\ due = Due /\ rest = NotDue
        /\ due = {i \in DOMAIN d : d[i].delay = 0} /\ rest = DOMAIN d \ due
  BY <1>2 DEF Due, NotDue
<1>4. /\ batch' = TasksOf(EntriesAt(d, due))
      /\ delayed_tasks_' = Counted(EntriesAt(d, rest))
  BY <1>2, <1>3 DEF DelayedPass
<1>5. /\ batch' \in Seq(Tasks) /\ Distinct(batch') /\ (batch' = <<>> <=> due = {})
      /\ \A x : InBatch(x)' <=> \E i \in due : d[i].task = x
  BY <1>2, <1>4, PickedTasks, Frames
<1>6. \A i \in rest : d[i].delay # 0
  BY <1>3
<1>7. /\ delayed_tasks_' \in Seq(Entries) /\ Distinct(TasksOf(delayed_tasks_'))
      /\ \A x : InDelayed(x)' <=> \E i \in rest : d[i].task = x
  <2>1. /\ delayed_tasks_' \in Seq(Entries)
        /\ TasksOf(delayed_tasks_') = TasksOf(EntriesAt(d, rest))
    BY <1>4, <1>6, CountedEntries
  <2>2. /\ Distinct(TasksOf(EntriesAt(d, rest)))
        /\ \A x : Has(TasksOf(EntriesAt(d, rest)), x) <=> \E i \in rest : d[i].task = x
    BY <1>2, PickedTasks
  <2> QED
    BY <2>1, <2>2, DelayedFrame
<1>8. \A x \in Tasks : InBatch(x)' \/ InDelayed(x)' <=> InDelayed(x)
  <2>1. \A x : InDelayed(x) <=> \E i \in DOMAIN d : d[i].task = x
    BY <1>2 DEF InDelayed
  <2> QED
    BY <1>3, <1>5, <1>7, <2>1
<1>9. \A x \in Tasks : ~(InBatch(x)' /\ InDelayed(x)')
  <2>1. \A i, j \in DOMAIN d : d[i].task = d[j].task => i = j
    <3>1. \A i \in DOMAIN d : TasksOf(d)[i] = d[i].task /\ i \in DOMAIN TasksOf(d)
      BY DEF TasksOf
    <3> QED
      BY <1>2, <3>1 DEF Distinct
  <2> QED
    BY <1>3, <1>5, <1>7, <2>1
<1>10. \A x \in Tasks : ~InBatch(x) /\ (InQueue(x)' <=> InQueue(x))
  BY <1>1, Frames DEF InBatch
<1>11. TypeOK'
  BY <1>1, <1>5, <1>7 DEF Core, TypeOK
<1>12. Threads'
  BY <1>1, <1>3, <1>5 DEF Core, Threads
<1>13. Called' /\ Lifecycle'
  BY <1>1 DEF Core, Called, Lifecycle
<1>14. Once'
  BY <1>1, <1>5, <1>7, <1>8, <1>9, <1>10 DEF Core, Once, Works
<1>15. Settled'
  BY <1>1, <1>8, <1>10 DEF Core, Settled, Holds
<1>16. Registered'
  BY <1>1, <1>10 DEF Core, Registered, Works, Busy
<1> QED
  BY <1>11, <1>12, <1>13, <1>14, <1>15, <1>16 DEF Core

\* The front of the batch, which enqueue() registers and then pushes.
LEMMA BatchFront ==
  ASSUME Core, batch # <<>>
  PROVE  \E b \in Seq(Tasks), t \in Tasks :
           /\ b = batch /\ t = Head(batch) /\ t = batch[1] /\ Distinct(b) /\ InBatch(t)
           /\ Tail(b) \in Seq(Tasks) /\ Distinct(Tail(b))
           /\ \A x : Has(Tail(b), x) <=> Has(b, x) /\ x # t
<1>1. PICK b \in Seq(Tasks) : b = batch /\ Distinct(b) /\ b # <<>>
  BY DEF Core, TypeOK, Once
<1>2. /\ Head(b) \in Tasks /\ Head(b) = b[1] /\ Has(b, Head(b))
      /\ Tail(b) \in Seq(Tasks) /\ Distinct(Tail(b))
      /\ \A x : Has(Tail(b), x) <=> Has(b, x) /\ x # Head(b)
  BY <1>1, TailTask
<1>3. InBatch(Head(b))
  BY <1>1, <1>2 DEF InBatch, Has
<1> QED
  BY <1>1, <1>2, <1>3

LEMMA DelayedRegisterStep ==
  ASSUME Core, DelayedRegister
  PROVE  Core'
<1> USE DEF control, threads, task, admission
<1>1. delayedWorker = "process" /\ batch # <<>>
  BY DEF DelayedRegister, Core, Threads
<1>2. PICK t \in Tasks : t = Head(batch) /\ t = batch[1] /\ InBatch(t)
  BY <1>1, BatchFront
<1>3. /\ delayedWorker' = "push" /\ all_tasks_' = all_tasks_ \cup {t}
      /\ UNCHANGED <<owner, starts, running_, stop_, drained, worker, current, batch, delayed_tasks_,
                     status_, calls, caller, enqueues, task_queue_>>
  BY <1>2 DEF DelayedRegister, Register
<1>4. \A x \in Tasks : /\ InQueue(x)' <=> InQueue(x)
                       /\ InBatch(x)' <=> InBatch(x)
                       /\ InDelayed(x)' <=> InDelayed(x)
  BY <1>3, Frames
<1>5. TypeOK' /\ Threads'
  BY <1>1, <1>3 DEF Core, TypeOK, Threads
<1>6. Called' /\ Lifecycle'
  BY <1>3 DEF Core, Called, Lifecycle
<1>7. Once'
  BY <1>3, <1>4 DEF Core, Once, Works
<1>8. Settled'
  BY <1>3, <1>4 DEF Core, Settled, Holds
<1>9. Registered'
  BY <1>1, <1>2, <1>3, <1>4 DEF Core, Registered, Works, Busy
<1> QED
  BY <1>5, <1>6, <1>7, <1>8, <1>9 DEF Core

LEMMA DelayedPushStep ==
  ASSUME Core, DelayedPush
  PROVE  Core'
<1> USE DEF control, threads, task
<1>1. delayedWorker = "push" /\ batch # <<>>
  BY DEF DelayedPush, Core, Threads
<1>2. PICK b \in Seq(Tasks), t \in Tasks :
        /\ b = batch /\ t = Head(batch) /\ t = batch[1] /\ Distinct(b) /\ InBatch(t)
        /\ Tail(b) \in Seq(Tasks) /\ Distinct(Tail(b))
        /\ \A x : Has(Tail(b), x) <=> Has(b, x) /\ x # t
  BY <1>1, BatchFront
<1>3. /\ task_queue_' = Append(task_queue_, t) /\ caller' = [caller EXCEPT ![t] = "done"]
      /\ batch' = Tail(b) /\ delayedWorker' = "notify"
      /\ UNCHANGED <<owner, starts, running_, stop_, drained, worker, current, delayed_tasks_,
                     status_, calls, enqueues, all_tasks_>>
  BY <1>2 DEF DelayedPush
<1>4. caller[t] = "delayed" /\ ~InDelayed(t) /\ ~InQueue(t) /\ \A w \in Workers : ~Works(w, t)
  BY <1>2 DEF Core, Once
<1>5. /\ batch' \in Seq(Tasks) /\ Distinct(batch')
      /\ \A x \in Tasks : InBatch(x)' <=> InBatch(x) /\ x # t
  BY <1>2, <1>3, Frames
<1>6. /\ task_queue_' \in Seq(Tasks) /\ Distinct(task_queue_')
      /\ \A x \in Tasks : InQueue(x)' <=> InQueue(x) \/ x = t
  <2>1. PICK q \in Seq(Tasks) : q = task_queue_ /\ Distinct(q)
    BY DEF Core, TypeOK, Once
  <2>2. ~Has(q, t)
    BY <1>4, <2>1, Frames
  <2> QED
    BY <1>3, <2>1, <2>2, AppendTask, Frames
<1>7. \A x \in Tasks : /\ caller'[x] = IF x = t THEN "done" ELSE caller[x]
                       /\ InDelayed(x)' <=> InDelayed(x)
  BY <1>3, Frames DEF Core, TypeOK
<1>8. TypeOK'
  BY <1>3, <1>5, <1>6 DEF Core, TypeOK
<1>9. Threads'
  BY <1>1, <1>3 DEF Core, Threads
<1>10. Called' /\ Lifecycle'
  BY <1>3 DEF Core, Called, Lifecycle
<1>11. \A v \in Workers, x \in Tasks :
         (Works(v, x)' <=> Works(v, x)) /\ (Busy(v, x)' <=> Busy(v, x)) /\ (Holds(v, x)' <=> Holds(v, x))
  BY <1>3 DEF Works, Busy, Holds
<1>12. Once'
  BY <1>3, <1>4, <1>5, <1>6, <1>7, <1>11 DEF Core, Once
<1>13. Settled'
  <2>1. \A v \in Workers : ~Holds(v, t)
    BY <1>4 DEF Holds, Works
  <2>2. status_[t] \notin {"RUNNING", "SUCCESS", "FAILED", "RELEASED"}
    BY <1>4 DEF Core, Settled
  <2> QED
    BY <1>3, <1>5, <1>6, <1>7, <1>11, <2>1, <2>2 DEF Core, Settled
<1>14. Registered'
  <2>1. enqueues[t] # 0
    BY <1>4 DEF Core, Registered
  <2>2. enqueues[t] <= 1 => /\ t \in all_tasks_ \/ status_[t] = "CANCELED"
                            /\ \A w \in Workers : ~(worker[w] = "erase" /\ current[w] = t)
    BY <1>1, <1>2, <1>4 DEF Core, Registered
  <2> QED
    BY <1>3, <1>6, <1>7, <1>11, <2>1, <2>2 DEF Core, Registered
<1> QED
  BY <1>8, <1>9, <1>10, <1>12, <1>13, <1>14 DEF Core

LEMMA CoreInit ==
  ASSUME Init
  PROVE  Core
<1>1. /\ <<>> \in Seq(Tasks) /\ <<>> \in Seq(Entries) /\ <<>> \in Seq(Callbacks)
      /\ \A x : DOMAIN x = {} => ~\E i \in DOMAIN x : TRUE
  BY EmptySeq
<1>2. DOMAIN <<>> = {}
  OBVIOUS
<1>3. TypeOK
  <2>1. /\ worker \in [Workers -> {"off", "check", "waiting", "pop", "holding", "running", "erase"}]
        /\ current \in [Workers -> Tasks \cup {NoTask}]
        /\ caller \in [Tasks -> {"new", "delayed", "push", "notify", "done"}]
        /\ status_ \in [Tasks -> Statuses]
    BY DEF Init, Statuses
  <2>2. enqueues \in [Tasks -> 0..MaxEnqueues] /\ starts \in 0..MaxStarts
    BY ManagerAssumption DEF Init
  <2>3. calls \in [Tasks -> Seq(Callbacks)]
    BY <1>1 DEF Init
  <2>4. batch \in Seq(Tasks) /\ task_queue_ \in Seq(Tasks) /\ delayed_tasks_ \in Seq(Entries)
    BY <1>1 DEF Init
  <2>5. /\ owner = "stopped" /\ running_ \in BOOLEAN /\ stop_ \in BOOLEAN /\ delayedWorker = "off"
        /\ all_tasks_ = {} /\ drained = {}
    BY DEF Init
  <2> QED
    BY <2>1, <2>2, <2>3, <2>4, <2>5 DEF TypeOK
<1>4. \A t \in Tasks : /\ caller[t] = "new" /\ enqueues[t] = 0 /\ status_[t] = "NONE" /\ calls[t] = <<>>
                       /\ ~InQueue(t) /\ ~InBatch(t) /\ ~InDelayed(t)
  BY <1>2 DEF Init, InQueue, InBatch, InDelayed
<1>5. \A w \in Workers : worker[w] = "off"
  BY DEF Init
<1>6. Threads
  BY <1>5 DEF Init, Threads
<1>7. Once
  <2>1. Distinct(task_queue_) /\ Distinct(batch) /\ Distinct(TasksOf(delayed_tasks_))
    BY <1>2 DEF Init, Distinct, TasksOf
  <2> QED
    BY <1>4, <1>5, <2>1 DEF Once, Works
<1>8. Settled
  BY <1>4, <1>5 DEF Settled
<1>9. Called
  BY <1>4 DEF Called
<1>10. Lifecycle
  BY <1>2, <1>4 DEF Lifecycle
<1>11. Registered
  <2>1. delayedWorker = "off"
    BY DEF Init
  <2> QED
    BY <1>4, <1>5, <2>1 DEF Registered, Works, Busy
<1> QED
  BY <1>3, <1>6, <1>7, <1>8, <1>9, <1>10, <1>11 DEF Core

LEMMA CoreStutter ==
  ASSUME Core, UNCHANGED vars
  PROVE  Core'
<1>1. UNCHANGED <<owner, starts, running_, stop_, drained, worker, current, delayedWorker, batch,
                  delayed_tasks_, status_, calls, caller, enqueues, task_queue_, all_tasks_>>
  BY DEF vars, control, threads, delayed, task, admission
<1>2. \A x \in Tasks : /\ InQueue(x)' <=> InQueue(x)
                       /\ InBatch(x)' <=> InBatch(x)
                       /\ InDelayed(x)' <=> InDelayed(x)
  BY <1>1, Frames
<1>3. TypeOK' /\ Threads' /\ Called' /\ Lifecycle'
  BY <1>1 DEF Core, TypeOK, Threads, Called, Lifecycle
<1>4. Once'
  BY <1>1, <1>2 DEF Core, Once, Works
<1>5. Settled'
  BY <1>1, <1>2 DEF Core, Settled, Holds
<1>6. Registered'
  BY <1>1, <1>2 DEF Core, Registered, Works, Busy
<1> QED
  BY <1>3, <1>4, <1>5, <1>6 DEF Core

LEMMA CoreStep ==
  ASSUME Core, [Next]_vars
  PROVE  Core'
<1>1. CASE \E t \in Tasks : CallerStep(t)
  BY <1>1, PushStep, IdleSteps DEF CallerStep
<1>2. CASE OwnerStep
  BY <1>2, IdleSteps, DrainDelayedStep, DrainQueueStep DEF OwnerStep
<1>3. CASE \E w \in Workers : WorkerStep(w)
  BY <1>3, IdleSteps, PopStep, RunStep, RunEndsStep, EraseStep DEF WorkerStep
<1>4. CASE DelayedStep
  BY <1>4, IdleSteps, DelayedPassStep, DelayedRegisterStep, DelayedPushStep DEF DelayedStep
<1>5. CASE Environment
  BY <1>5, StartStep, IdleSteps, EnqueueStep, DelayedEnqueueStep, CancelStep, ResetStep DEF Environment
<1>6. CASE UNCHANGED vars
  BY <1>6, CoreStutter
<1> QED
  BY <1>1, <1>2, <1>3, <1>4, <1>5, <1>6 DEF Next

-----------------------------------------------------------------------------
(* The wake-ups still to come are as many as the queue holds. *)

Notifying == {t \in Tasks : caller[t] = "notify"}
Asleep == \A w \in Workers : worker[w] = "waiting"
Pending == IF delayedWorker = "notify" THEN 1 ELSE 0

LEMMA FiniteStep ==
  ASSUME Core, Finite, [Next]_vars
  PROVE  Finite'
<1>1. \E u : \A t \in Tasks : caller'[t] # "new" => caller[t] # "new" \/ t = u
  <2>1. CASE \E t \in Tasks : Enqueue(t) \/ DelayedEnqueue(t) \/ Push(t) \/ Notify(t) \/ Reset(t)
    <3>1. PICK t \in Tasks : Enqueue(t) \/ DelayedEnqueue(t) \/ Push(t) \/ Notify(t) \/ Reset(t)
      BY <2>1
    <3>2. \A x \in Tasks : x # t => caller'[x] = caller[x]
      BY <3>1 DEF Enqueue, DelayedEnqueue, Push, Notify, Reset, Core, TypeOK
    <3> QED
      BY <3>2
  <2>2. CASE DrainDelayed
    BY <2>2 DEF DrainDelayed, Core, Once, TypeOK
  <2>3. CASE DelayedPush
    <3>1. \A x \in Tasks : x # Head(batch) => caller'[x] = caller[x]
      BY <2>3 DEF DelayedPush, Core, TypeOK
    <3> QED
      BY <3>1
  <2>4. CASE UNCHANGED caller
    BY <2>4
  <2>5. CASE \/ \E t \in Tasks : Cancel(t)
             \/ \E w \in Workers : WorkerStep(w) \/ SpuriousWakeup(w)
             \/ Join \/ DrainQueue \/ Start \/ Stop
             \/ DelayedCheck \/ DelayedPass \/ DelayedRegister \/ DelayedNotify
    BY <2>4, <2>5 DEF Cancel, WorkerStep, Wait, Pop, Run, RunEnds, Erase, SpuriousWakeup, Join,
         DrainQueue, Start, Stop, DelayedCheck, DelayedPass, DelayedRegister, DelayedNotify, admission
  <2>6. CASE UNCHANGED vars
    BY <2>4, <2>6 DEF vars, admission
  <2> QED
    BY <2>1, <2>2, <2>3, <2>5, <2>6 DEF Next, CallerStep, OwnerStep, DelayedStep, Environment
<1>2. PICK u : \A t \in Tasks : caller'[t] # "new" => caller[t] # "new" \/ t = u
  BY <1>1
<1>3. IsFiniteSet({t \in Tasks : caller[t] # "new"} \cup {u})
  BY FS_AddElement DEF Finite
<1>4. {t \in Tasks : caller'[t] # "new"} \subseteq {t \in Tasks : caller[t] # "new"} \cup {u}
  BY <1>2
<1> QED
  BY <1>3, <1>4, FS_Subset DEF Finite

\* A notification that is made finds a worker that is awake.
LEMMA WakeStep ==
  ASSUME Core, Finite, NoLostWakeup, [Next]_vars
  PROVE  NoLostWakeup'
<1> SUFFICES ASSUME owner' = "running", Asleep'
             PROVE  Len(task_queue_') <= Cardinality(Notifying') + Pending'
  BY DEF NoLostWakeup, Asleep, Notifying, Pending
<1>1. PICK q \in Seq(Tasks) : q = task_queue_ /\ Len(q) \in Nat
  BY LenProperties DEF Core, TypeOK
<1>2. IsFiniteSet(Notifying) /\ Cardinality(Notifying) \in Nat
  <2>1. Notifying \subseteq {t \in Tasks : caller[t] # "new"}
    BY DEF Notifying
  <2> QED
    BY <2>1, FS_Subset, FS_CardinalityType DEF Finite
<1>3. owner = "running" /\ Asleep => Len(q) <= Cardinality(Notifying) + Pending
  BY <1>1 DEF NoLostWakeup, Asleep, Notifying, Pending
<1>4. Pending \in {0, 1}
  BY DEF Pending
<1> DEFINE Quiet == /\ UNCHANGED <<owner, task_queue_, worker>>
                    /\ Notifying' = Notifying
                    /\ Pending' = Pending
<1>5. CASE Quiet
  BY <1>1, <1>3, <1>5 DEF Asleep
<1>6. CASE \E t \in Tasks : Push(t)
  <2>1. PICK t \in Tasks : Push(t)
    BY <1>6
  <2>2. /\ caller[t] = "push" /\ task_queue_' = Append(q, t)
        /\ caller' = [caller EXCEPT ![t] = "notify"]
        /\ UNCHANGED <<owner, worker, delayedWorker>>
    BY <1>1, <2>1 DEF Push, control, threads, delayed
  <2>3. Notifying' = Notifying \cup {t} /\ t \notin Notifying
    BY <2>2 DEF Notifying, Core, TypeOK
  <2>4. Cardinality(Notifying') = Cardinality(Notifying) + 1
    BY <1>2, <2>3, FS_AddElement
  <2>5. Len(task_queue_') = Len(q) + 1
    BY <2>2, AppendTask
  <2>6. Pending' = Pending /\ (Asleep' <=> Asleep)
    BY <2>2 DEF Pending, Asleep
  <2> QED
    BY <1>1, <1>2, <1>3, <1>4, <2>2, <2>4, <2>5, <2>6
<1>7. CASE DelayedPush
  <2>1. delayedWorker = "push" /\ batch # <<>>
    BY <1>7 DEF DelayedPush, Core, Threads
  <2>2. PICK t \in Tasks : t = Head(batch) /\ InBatch(t)
    BY <2>1, BatchFront
  <2>3. /\ task_queue_' = Append(q, t) /\ caller' = [caller EXCEPT ![t] = "done"]
        /\ delayedWorker' = "notify" /\ UNCHANGED <<owner, worker>>
    BY <1>1, <1>7, <2>2 DEF DelayedPush, control, threads
  <2>4. caller[t] = "delayed"
    BY <2>2 DEF Core, Once
  <2>5. Notifying' = Notifying
    BY <2>3, <2>4 DEF Notifying, Core, TypeOK
  <2>6. Len(task_queue_') = Len(q) + 1
    BY <2>3, AppendTask
  <2>7. Pending = 0 /\ Pending' = 1 /\ (Asleep' <=> Asleep)
    BY <2>1, <2>3 DEF Pending, Asleep
  <2> QED
    BY <1>1, <1>2, <1>3, <2>3, <2>5, <2>6, <2>7
<1>8. CASE DelayedNotify \/ \E t \in Tasks : Notify(t)
  <2>1. NotifyOne
    BY <1>8 DEF DelayedNotify, Notify
  <2> QED
    BY <2>1, NotifyOneOK, ManagerAssumption DEF Asleep
<1>9. CASE Start \/ Stop \/ OwnerStep
  <2>1. CASE Start
    BY <2>1, ManagerAssumption DEF Start, Asleep
  <2>2. CASE Stop \/ OwnerStep
    BY <2>2 DEF Stop, OwnerStep, Join, DrainDelayed, DrainQueue
  <2> QED
    BY <1>9, <2>1, <2>2
<1>10. CASE \E w \in Workers : WorkerStep(w) \/ SpuriousWakeup(w)
  <2>1. PICK w \in Workers : WorkerStep(w) \/ SpuriousWakeup(w)
    BY <1>10
  <2>2. CASE Wait(w)
    <3>1. /\ worker' = [worker EXCEPT ![w] = IF stop_ \/ task_queue_ # <<>> THEN "pop" ELSE "waiting"]
          /\ UNCHANGED <<task_queue_, caller, delayedWorker>>
      BY <2>2 DEF Wait, delayed, admission
    <3>2. worker'[w] = "waiting"
      BY DEF Asleep
    <3>3. q = <<>>
      BY <1>1, <3>1, <3>2 DEF Core, TypeOK
    <3>4. Len(task_queue_') = 0
      BY <1>1, <3>1, <3>3, EmptySeq
    <3>5. Notifying' = Notifying /\ Pending' = Pending
      BY <3>1 DEF Notifying, Pending
    <3> QED
      BY <1>2, <1>4, <3>4, <3>5
  <2>3. CASE Pop(w) \/ Run(w) \/ RunEnds(w) \/ Erase(w) \/ SpuriousWakeup(w)
    <3>1. PICK to \in {"off", "check", "holding", "running", "erase"} : worker' = [worker EXCEPT ![w] = to]
      BY <2>3 DEF Pop, Run, RunEnds, Erase, SpuriousWakeup
    <3>2. worker'[w] = to
      BY <3>1 DEF Core, TypeOK
    <3> QED
      BY <3>1, <3>2 DEF Asleep
  <2> QED
    BY <2>1, <2>2, <2>3 DEF WorkerStep
<1>11. CASE \E t \in Tasks : Enqueue(t) \/ DelayedEnqueue(t) \/ Cancel(t) \/ Reset(t)
  <2>1. PICK t \in Tasks : Enqueue(t) \/ DelayedEnqueue(t) \/ Cancel(t) \/ Reset(t)
    BY <1>11
  <2>2. UNCHANGED <<owner, task_queue_, worker, delayedWorker>>
    BY <2>1 DEF Enqueue, DelayedEnqueue, Cancel, Reset, control, threads, delayed
  <2>3. \/ UNCHANGED caller
        \/ caller[t] \in {"new", "done"}
             /\ \E c \in {"push", "delayed", "new"} : caller' = [caller EXCEPT ![t] = c]
    BY <2>1 DEF Enqueue, DelayedEnqueue, Cancel, Reset, admission
  <2>4. Notifying' = Notifying
    <3>1. \A x \in Tasks : caller'[x] = "notify" <=> caller[x] = "notify"
      BY <2>3 DEF Core, TypeOK
    <3> QED
      BY <3>1 DEF Notifying
  <2> QED
    BY <1>5, <2>2, <2>4 DEF Pending
<1>12. CASE DelayedCheck \/ DelayedPass \/ DelayedRegister
  <2>1. /\ UNCHANGED <<owner, task_queue_, worker, caller>>
        /\ delayedWorker # "notify" /\ delayedWorker' # "notify"
    BY <1>12 DEF DelayedCheck, DelayedPass, DelayedRegister, control, threads, admission
  <2> QED
    BY <1>5, <2>1 DEF Pending, Notifying
<1>13. CASE UNCHANGED vars
  BY <1>5, <1>13 DEF vars, control, threads, delayed, admission, Pending, Notifying
<1> QED
  BY <1>6, <1>7, <1>8, <1>9, <1>10, <1>11, <1>12, <1>13
     DEF Next, CallerStep, DelayedStep, Environment

LEMMA Invariance == Spec => []IInv
<1>1. Init => IInv
  <2> SUFFICES ASSUME Init PROVE IInv
    OBVIOUS
  <2>1. {t \in Tasks : caller[t] # "new"} = {}
    BY DEF Init
  <2>2. Finite
    BY <2>1, FS_EmptySet DEF Finite
  <2>3. NoLostWakeup
    BY DEF Init, NoLostWakeup
  <2> QED
    BY <2>2, <2>3, CoreInit DEF IInv
<1>2. IInv /\ [Next]_vars => IInv'
  BY CoreStep, FiniteStep, WakeStep DEF IInv
<1> QED
  BY <1>1, <1>2, PTL DEF Spec

-----------------------------------------------------------------------------
(* The manager implements the runner: a step takes, gives or moves a task, *)
(* and the runner sees of it what TaskRunner says, or nothing.             *)

\* Which tasks wait and run follows from where they are.
LEMMA SameWork ==
  ASSUME UNCHANGED current,
         \A w \in Workers :
           \/ worker'[w] = worker[w]
           \/ worker[w] \notin {"holding", "running"} /\ worker'[w] \notin {"holding", "running"}
  PROVE  /\ \A w \in Workers : \A x : (Holds(w, x)' <=> Holds(w, x))
         /\ RunningTasks' = RunningTasks
<1>1. \A w \in Workers : /\ worker'[w] = "holding" <=> worker[w] = "holding"
                         /\ worker'[w] = "running" <=> worker[w] = "running"
  OBVIOUS
<1> QED
  BY <1>1 DEF Holds, RunningTasks

LEMMA SameWaiting ==
  ASSUME \A x \in Tasks : Waits(x)' <=> Waits(x)
  PROVE  WaitingTasks' = WaitingTasks
BY DEF WaitingTasks

LEMMA RunnerStays ==
  ASSUME UNCHANGED <<status_, calls>>, WaitingTasks' = WaitingTasks, RunningTasks' = RunningTasks,
         Active' = Active
  PROVE  UNCHANGED Runner!vars
BY DEF Runner!vars

\* A task is in no other place than the one its caller tells.
LEMMA WhoWaits ==
  ASSUME Core, NEW t \in Tasks
  PROVE  /\ caller[t] = "new" => t \notin WaitingTasks \cup RunningTasks /\ status_[t] \in {"NONE", "CANCELED"}
         /\ status_[t] \in {"RUNNING", "SUCCESS", "FAILED", "RELEASED"} => t \notin WaitingTasks
         /\ t \in RunningTasks => status_[t] \in {"RUNNING", "CANCELED"}
<1>1. /\ InDelayed(t) \/ InBatch(t) => caller[t] = "delayed"
      /\ InQueue(t) \/ (\E w \in Workers : Works(w, t)) => caller[t] \in {"notify", "done"}
  BY DEF Core, Once
<1>2. /\ \A w \in Workers : Holds(w, t) => Works(w, t)
      /\ t \in RunningTasks => \E w \in Workers : Works(w, t) /\ worker[w] = "running" /\ current[w] = t
  BY DEF Holds, Works, RunningTasks
<1>3. status_[t] \in {"RUNNING", "SUCCESS", "FAILED", "RELEASED"} =>
        /\ caller[t] \in {"notify", "done"} /\ ~InQueue(t)
        /\ \A w \in Workers : ~Holds(w, t)
  BY DEF Core, Settled
<1>4. \A w \in Workers : worker[w] = "running" /\ current[w] = t => status_[t] \in {"RUNNING", "CANCELED"}
  BY DEF Core, Settled
<1>5. status_[t] \in Statuses
  BY DEF Core, TypeOK
<1> QED
  BY <1>1, <1>2, <1>3, <1>4, <1>5 DEF WaitingTasks, Waits, Statuses

LEMMA RunnerInit ==
  ASSUME Init
  PROVE  Runner!Init
<1>1. \A t \in Tasks : ~Waits(t)
  BY DEF Init, Waits, InDelayed, InBatch, InQueue, Holds
<1>2. WaitingTasks = {} /\ RunningTasks = {} /\ Active = FALSE
  BY <1>1 DEF Init, WaitingTasks, RunningTasks, Active
<1> QED
  BY <1>2 DEF Init, Runner!Init

\* enqueue() and delayedEnqueue() hand a task over.
LEMMA RunnerSubmit ==
  ASSUME Core, NEW t \in Tasks, Enqueue(t) \/ DelayedEnqueue(t)
  PROVE  Runner!Submit(t)
<1>1. /\ caller[t] = "new"
      /\ UNCHANGED <<owner, worker, current, batch, status_, calls, task_queue_>>
  BY DEF Enqueue, DelayedEnqueue, control, threads, delayed, task
<1>2. \A x \in Tasks : x # t => caller'[x] = caller[x]
  BY DEF Enqueue, DelayedEnqueue, Core, TypeOK
<1>3. \A x \in Tasks : (InQueue(x)' <=> InQueue(x)) /\ (InBatch(x)' <=> InBatch(x))
  BY <1>1, Frames
<1>4. (\A w \in Workers : \A x : (Holds(w, x)' <=> Holds(w, x))) /\ RunningTasks' = RunningTasks
  BY <1>1, SameWork
<1>5. /\ \A x \in Tasks : x # t => (InDelayed(x)' <=> InDelayed(x))
      /\ caller'[t] = "push" \/ InDelayed(t)'
  <2>1. CASE Enqueue(t)
    <3>1. delayed_tasks_' = delayed_tasks_ /\ caller'[t] = "push"
      BY <2>1 DEF Enqueue, delayed, Core, TypeOK
    <3> QED
      BY <3>1, Frames
  <2>2. CASE DelayedEnqueue(t)
    <3>1. PICK d \in Seq(Entries), e \in Entries :
            d = delayed_tasks_ /\ e.task = t /\ delayed_tasks_' = Append(d, e)
      BY <2>2, ManagerAssumption DEF DelayedEnqueue, Core, TypeOK, Entries
    <3>2. /\ DOMAIN d = 1..Len(d) /\ Len(d) \in Nat /\ DOMAIN Append(d, e) = 1..(Len(d) + 1)
          /\ \A i \in 1..Len(d) : Append(d, e)[i] = d[i]
          /\ Append(d, e)[Len(d) + 1] = e
      BY AppendProperties, LenProperties
    <3>3. \A i \in 1..(Len(d) + 1) : i \in 1..Len(d) \/ i = Len(d) + 1
      BY <3>2
    <3>4. Len(d) + 1 \in 1..(Len(d) + 1) /\ \A i \in 1..Len(d) : i \in 1..(Len(d) + 1)
      BY <3>2
    <3>5. \A x : (\E i \in DOMAIN Append(d, e) : Append(d, e)[i].task = x)
                   <=> (\E i \in DOMAIN d : d[i].task = x) \/ x = t
      BY <3>1, <3>2, <3>3, <3>4
    <3> QED
      BY <3>1, <3>5 DEF InDelayed
  <2> QED
    BY <2>1, <2>2
<1>6. WaitingTasks' = WaitingTasks \cup {t}
  <2>1. \A x \in Tasks : Waits(x)' <=> Waits(x) \/ x = t
    BY <1>2, <1>3, <1>4, <1>5 DEF Waits
  <2> QED
    BY <2>1 DEF WaitingTasks
<1> QED
  BY <1>1, <1>4, <1>6, WhoWaits DEF Runner!Submit, Active

\* push_back() of enqueue() moves a task.
LEMMA RunnerPush ==
  ASSUME Core, NEW t \in Tasks, Push(t)
  PROVE  UNCHANGED Runner!vars
<1>1. /\ caller[t] = "push" /\ caller' = [caller EXCEPT ![t] = "notify"]
      /\ task_queue_' = Append(task_queue_, t)
      /\ UNCHANGED <<owner, worker, current, batch, delayed_tasks_, status_, calls>>
  BY DEF Push, control, threads, delayed, task
<1>2. \A x : InQueue(x)' <=> InQueue(x) \/ x = t
  <2>1. PICK q \in Seq(Tasks) : q = task_queue_
    BY DEF Core, TypeOK
  <2> QED
    BY <1>1, <2>1, AppendTask, Frames
<1>3. \A x \in Tasks : (InBatch(x)' <=> InBatch(x)) /\ (InDelayed(x)' <=> InDelayed(x))
  BY <1>1, Frames
<1>4. (\A w \in Workers : \A x : (Holds(w, x)' <=> Holds(w, x))) /\ RunningTasks' = RunningTasks
  BY <1>1, SameWork
<1>5. \A x \in Tasks : caller'[x] = IF x = t THEN "notify" ELSE caller[x]
  BY <1>1 DEF Core, TypeOK
<1>6. WaitingTasks' = WaitingTasks
  BY <1>1, <1>2, <1>3, <1>4, <1>5, SameWaiting DEF Waits
<1> QED
  BY <1>1, <1>4, <1>6, RunnerStays DEF Active

\* What is due moves to the batch, and from there to the queue.
LEMMA RunnerDelayed ==
  ASSUME Core, DelayedPass \/ DelayedRegister \/ DelayedPush
  PROVE  UNCHANGED Runner!vars
<1>1. UNCHANGED <<owner, worker, current, status_, calls>>
  BY DEF DelayedPass, DelayedRegister, DelayedPush, control, threads, task
<1>2. (\A w \in Workers : \A x : (Holds(w, x)' <=> Holds(w, x))) /\ RunningTasks' = RunningTasks
  BY <1>1, SameWork
<1>3. CASE DelayedPass
  <2>1. UNCHANGED <<caller, task_queue_>> /\ batch = <<>>
    BY <1>3 DEF DelayedPass, admission, Core, Threads
  <2> DEFINE d == delayed_tasks_
             due == {i \in DOMAIN d : d[i].delay = 0}
             rest == DOMAIN d \ due
  <2>2. /\ d \in Seq(Entries) /\ due \in SUBSET (DOMAIN d) /\ rest \in SUBSET (DOMAIN d)
        /\ DOMAIN d = due \cup rest /\ \A i \in rest : d[i].delay # 0
        /\ batch' = TasksOf(EntriesAt(d, due)) /\ delayed_tasks_' = Counted(EntriesAt(d, rest))
    BY <1>3 DEF DelayedPass, Due, NotDue, Core, TypeOK
  <2> HIDE DEF due, rest
  <2>3. \A x : InBatch(x)' <=> \E i \in due : d[i].task = x
    BY <2>2, PickedTasks, Frames
  <2>4. \A x : InDelayed(x)' <=> \E i \in rest : d[i].task = x
    <3>1. TasksOf(delayed_tasks_') = TasksOf(EntriesAt(d, rest))
      BY <2>2, CountedEntries
    <3>2. \A x : Has(TasksOf(EntriesAt(d, rest)), x) <=> \E i \in rest : d[i].task = x
      BY <2>2, PickedTasks
    <3> QED
      BY <3>1, <3>2, DelayedFrame
  <2>5. \A x : InDelayed(x) <=> \E i \in DOMAIN d : d[i].task = x
    BY <2>2 DEF InDelayed
  <2>6. \A x \in Tasks : (InDelayed(x)' \/ InBatch(x)') <=> (InDelayed(x) \/ InBatch(x))
    <3>1. \A x \in Tasks : ~InBatch(x)
      BY <2>1 DEF InBatch
    <3> HIDE DEF d
    <3> QED
      BY <2>2, <2>3, <2>4, <2>5, <3>1
  <2>7. \A x \in Tasks : InQueue(x)' <=> InQueue(x)
    BY <2>1, Frames
  <2>8. WaitingTasks' = WaitingTasks
    BY <1>2, <2>1, <2>6, <2>7, SameWaiting DEF Waits
  <2> QED
    BY <1>1, <1>2, <2>8, RunnerStays DEF Active
<1>4. CASE DelayedRegister
  <2>1. UNCHANGED <<caller, task_queue_, batch, delayed_tasks_>>
    BY <1>4 DEF DelayedRegister, admission
  <2>2. \A x \in Tasks : /\ InQueue(x)' <=> InQueue(x)
                         /\ InBatch(x)' <=> InBatch(x)
                         /\ InDelayed(x)' <=> InDelayed(x)
    BY <2>1, Frames
  <2>3. WaitingTasks' = WaitingTasks
    BY <1>2, <2>1, <2>2, SameWaiting DEF Waits
  <2> QED
    BY <1>1, <1>2, <2>3, RunnerStays DEF Active
<1>5. CASE DelayedPush
  <2>1. batch # <<>>
    BY <1>5 DEF DelayedPush, Core, Threads
  <2>2. PICK b \in Seq(Tasks), t \in Tasks :
          /\ b = batch /\ t = Head(batch) /\ InBatch(t)
          /\ \A x : Has(Tail(b), x) <=> Has(b, x) /\ x # t
    BY <2>1, BatchFront
  <2>3. /\ task_queue_' = Append(task_queue_, t) /\ caller' = [caller EXCEPT ![t] = "done"]
        /\ batch' = Tail(b) /\ delayed_tasks_' = delayed_tasks_
    BY <1>5, <2>2 DEF DelayedPush
  <2>4. \A x \in Tasks : InBatch(x)' <=> InBatch(x) /\ x # t
    BY <2>2, <2>3, Frames
  <2>5. \A x \in Tasks : InQueue(x)' <=> InQueue(x) \/ x = t
    <3>1. PICK q \in Seq(Tasks) : q = task_queue_
      BY DEF Core, TypeOK
    <3> QED
      BY <2>3, <3>1, AppendTask, Frames
  <2>6. \A x \in Tasks : InDelayed(x)' <=> InDelayed(x)
    BY <2>3, Frames
  <2>7. caller[t] = "delayed" /\ \A x \in Tasks : caller'[x] = IF x = t THEN "done" ELSE caller[x]
    BY <2>2, <2>3 DEF Core, Once, TypeOK
  <2>8. WaitingTasks' = WaitingTasks
    BY <1>2, <2>2, <2>4, <2>5, <2>6, <2>7, SameWaiting DEF Waits
  <2> QED
    BY <1>1, <1>2, <2>8, RunnerStays DEF Active
<1> QED
  BY <1>3, <1>4, <1>5

\* The steps in which nobody hands over, takes or ends anything.
LEMMA RunnerIdle ==
  ASSUME Core,
         \/ \E t \in Tasks : Notify(t)
         \/ \E w \in Workers : Wait(w) \/ SpuriousWakeup(w) \/ Erase(w)
         \/ Stop \/ DelayedCheck \/ DelayedNotify \/ UNCHANGED vars
  PROVE  UNCHANGED Runner!vars
<1> USE DEF control, threads, delayed, task, admission
<1>1. /\ UNCHANGED <<task_queue_, batch, delayed_tasks_, status_, calls>>
      /\ owner' = owner \/ (owner = "running" /\ owner' = "join")
  BY DEF Notify, Wait, SpuriousWakeup, Erase, Stop, DelayedCheck, DelayedNotify, vars
<1>2. \A x \in Tasks : caller'[x] = caller[x] \/ (caller[x] = "notify" /\ caller'[x] = "done")
  BY DEF Notify, Wait, SpuriousWakeup, Erase, Stop, DelayedCheck, DelayedNotify, vars, Core, TypeOK
<1>3. \A x \in Tasks : /\ InQueue(x)' <=> InQueue(x)
                       /\ InBatch(x)' <=> InBatch(x)
                       /\ InDelayed(x)' <=> InDelayed(x)
  BY <1>1, Frames
<1>4. \A v \in Workers :
        \/ worker'[v] = worker[v] /\ current'[v] = current[v]
        \/ worker[v] \notin {"holding", "running"} /\ worker'[v] \notin {"holding", "running"}
  <2>1. CASE (\E t \in Tasks : Notify(t)) \/ DelayedNotify
    <3>1. NotifyOne /\ current' = current
      BY <2>1 DEF Notify, DelayedNotify
    <3>2. \A v \in Workers : worker'[v] = worker[v] \/ (worker[v] = "waiting" /\ worker'[v] = "check")
      BY <3>1, NotifyOneOK
    <3> QED
      BY <3>1, <3>2
  <2>2. CASE \E w \in Workers : Wait(w) \/ SpuriousWakeup(w) \/ Erase(w)
    <3>1. PICK w \in Workers : Wait(w) \/ SpuriousWakeup(w) \/ Erase(w)
      BY <2>2
    <3>2. /\ worker[w] \in {"check", "waiting", "erase"} /\ worker'[w] \in {"check", "waiting", "pop"}
          /\ \A v \in Workers : v # w => worker'[v] = worker[v] /\ current'[v] = current[v]
      BY <3>1 DEF Wait, SpuriousWakeup, Erase, Core, TypeOK
    <3> QED
      BY <3>2
  <2>3. CASE Stop \/ DelayedCheck \/ UNCHANGED vars
    BY <2>3 DEF Stop, DelayedCheck, vars
  <2> QED
    BY <2>1, <2>2, <2>3
<1>5. \A v \in Workers : \A x :
        /\ Holds(v, x)' <=> Holds(v, x)
        /\ worker'[v] = "running" /\ current'[v] = x <=> worker[v] = "running" /\ current[v] = x
  BY <1>4 DEF Holds
<1>6. RunningTasks' = RunningTasks
  BY <1>5 DEF RunningTasks
<1>7. WaitingTasks' = WaitingTasks
  BY <1>2, <1>3, <1>5, SameWaiting DEF Waits
<1> QED
  BY <1>1, <1>6, <1>7, RunnerStays DEF Active

\* A worker takes the front of the queue, which still waits in its hands.
LEMMA RunnerPop ==
  ASSUME Core, NEW w \in Workers, Pop(w)
  PROVE  UNCHANGED Runner!vars
<1> USE DEF control, delayed, task, admission
<1>1. worker[w] = "pop" /\ UNCHANGED <<owner, batch, delayed_tasks_, status_, calls, caller>>
  BY DEF Pop
<1>2. \A x \in Tasks : (InBatch(x)' <=> InBatch(x)) /\ (InDelayed(x)' <=> InDelayed(x))
  BY <1>1, Frames
<1>3. CASE stop_ \/ task_queue_ = <<>>
  <2>1. UNCHANGED <<current, task_queue_>>
    BY <1>3 DEF Pop
  <2>2. \A v \in Workers :
          \/ worker'[v] = worker[v]
          \/ worker[v] \notin {"holding", "running"} /\ worker'[v] \notin {"holding", "running"}
    BY <1>1, <1>3 DEF Pop, Core, TypeOK
  <2>3. (\A v \in Workers : \A x : (Holds(v, x)' <=> Holds(v, x))) /\ RunningTasks' = RunningTasks
    BY <2>1, <2>2, SameWork
  <2>4. \A x \in Tasks : InQueue(x)' <=> InQueue(x)
    BY <2>1, Frames
  <2>5. WaitingTasks' = WaitingTasks
    BY <1>1, <1>2, <2>3, <2>4, SameWaiting DEF Waits
  <2> QED
    BY <1>1, <2>3, <2>5, RunnerStays DEF Active
<1>4. CASE ~(stop_ \/ task_queue_ = <<>>)
  <2>1. PICK q \in Seq(Tasks), t \in Tasks : q = task_queue_ /\ q # <<>> /\ t = Head(q) /\ Distinct(q)
    BY <1>4, HeadTailProperties DEF Core, TypeOK, Once
  <2>2. /\ worker' = [worker EXCEPT ![w] = "holding"] /\ current' = [current EXCEPT ![w] = t]
        /\ task_queue_' = Tail(q)
    BY <1>4, <2>1 DEF Pop
  <2>3. InQueue(t) /\ \A x \in Tasks : InQueue(x)' <=> InQueue(x) /\ x # t
    BY <2>1, <2>2, TailTask, Frames
  <2>4. \A v \in Workers : /\ worker'[v] = IF v = w THEN "holding" ELSE worker[v]
                           /\ current'[v] = IF v = w THEN t ELSE current[v]
    BY <2>2 DEF Core, TypeOK
  <2>5. \A v \in Workers, x \in Tasks :
          /\ Holds(v, x)' <=> (Holds(v, x) \/ (v = w /\ x = t))
          /\ worker'[v] = "running" /\ current'[v] = x <=> worker[v] = "running" /\ current[v] = x
    BY <1>1, <2>4 DEF Holds
  <2>6. RunningTasks' = RunningTasks
    BY <2>5 DEF RunningTasks
  <2>7. WaitingTasks' = WaitingTasks
    BY <1>1, <1>2, <2>3, <2>5, SameWaiting DEF Waits
  <2> QED
    BY <1>1, <2>6, <2>7, RunnerStays DEF Active
<1> QED
  BY <1>3, <1>4

\* Task::run() decides what becomes of a task.
LEMMA RunnerRun ==
  ASSUME Core, NEW w \in Workers, Run(w)
  PROVE  \E t \in Tasks : Runner!Begin(t) \/ Runner!Skip(t)
<1> USE DEF control, delayed, admission
<1>1. PICK t \in Tasks : t = current[w] /\ worker[w] = "holding"
  BY DEF Run, Core, Threads
<1>2. UNCHANGED <<owner, batch, delayed_tasks_, current, caller, task_queue_>>
  BY DEF Run
<1>3. \A x \in Tasks : /\ InQueue(x)' <=> InQueue(x)
                       /\ InBatch(x)' <=> InBatch(x)
                       /\ InDelayed(x)' <=> InDelayed(x)
  BY <1>2, Frames
<1>4. /\ Holds(w, t) /\ Works(w, t)
      /\ \A v \in Workers : Works(v, t) => v = w
      /\ caller[t] \in {"notify", "done"} /\ ~InQueue(t) /\ ~InBatch(t) /\ ~InDelayed(t)
  BY <1>1 DEF Core, Once, Holds, Works
<1>5. t \in WaitingTasks /\ t \notin RunningTasks
  BY <1>1, <1>4 DEF WaitingTasks, Waits, RunningTasks, Works
<1>6. Active /\ Active' = Active
  <2>1. owner \notin {"stopped", "drainDelayed", "drainQueue"}
    BY <1>1 DEF Core, Threads
  <2> QED
    BY <1>2, <2>1 DEF Core, TypeOK, Active
<1>7. ASSUME \A v \in Workers : v # w => worker'[v] = worker[v], worker'[w] # "holding"
      PROVE  WaitingTasks' = WaitingTasks \ {t}
  <2>1. \A v \in Workers : \A x : Holds(v, x)' <=> Holds(v, x) /\ x # t
    BY <1>1, <1>2, <1>4, <1>7 DEF Holds, Works
  <2>2. \A x \in Tasks : Waits(x)' <=> Waits(x) /\ x # t
    BY <1>2, <1>3, <1>4, <2>1 DEF Waits
  <2> QED
    BY <2>2 DEF WaitingTasks
<1>8. CASE status_[t] = "NONE"
  <2>1. /\ \A v \in Workers : worker'[v] = IF v = w THEN "running" ELSE worker[v]
        /\ status_' = [status_ EXCEPT ![t] = "RUNNING"]
        /\ calls' = [calls EXCEPT ![t] = Append(@, "run")]
    BY <1>1, <1>8 DEF Run, Core, TypeOK
  <2>2. WaitingTasks' = WaitingTasks \ {t}
    BY <1>7, <2>1
  <2>3. RunningTasks' = RunningTasks \cup {t}
    <3>1. \A x \in Tasks : (\E v \in Workers : worker'[v] = "running" /\ current'[v] = x)
                             <=> (\E v \in Workers : worker[v] = "running" /\ current[v] = x) \/ x = t
      BY <1>1, <1>2, <2>1
    <3> QED
      BY <3>1 DEF RunningTasks
  <2>4. Runner!Begin(t)
    BY <1>5, <1>6, <1>8, <2>1, <2>2, <2>3 DEF Runner!Begin
  <2> QED
    BY <2>4
<1>9. CASE status_[t] # "NONE"
  <2>1. (\A v \in Workers : worker'[v] = IF v = w THEN "erase" ELSE worker[v]) /\ UNCHANGED <<status_, calls>>
    BY <1>1, <1>9 DEF Run, Core, TypeOK, task
  <2>2. WaitingTasks' = WaitingTasks \ {t}
    BY <1>7, <2>1
  <2>3. RunningTasks' = RunningTasks
    BY <1>1, <1>2, <2>1 DEF RunningTasks
  <2>4. status_[t] = "CANCELED"
    BY <1>4, <1>9 DEF Core, Settled, TypeOK, Statuses
  <2>5. Runner!Skip(t)
    BY <1>5, <1>6, <2>1, <2>2, <2>3, <2>4 DEF Runner!Skip
  <2> QED
    BY <2>5
<1> QED
  BY <1>8, <1>9

\* onRun() ends.
LEMMA RunnerFinish ==
  ASSUME Core, NEW w \in Workers, RunEnds(w)
  PROVE  \E t \in Tasks : Runner!Finish(t)
<1> USE DEF control, delayed, admission
<1>1. PICK t \in Tasks : t = current[w] /\ worker[w] = "running"
  BY DEF RunEnds, Core, Threads
<1>2. /\ \A v \in Workers : worker'[v] = IF v = w THEN "erase" ELSE worker[v]
      /\ UNCHANGED <<owner, batch, delayed_tasks_, current, caller, task_queue_>>
  BY DEF RunEnds, Core, TypeOK
<1>3. \A x \in Tasks : /\ InQueue(x)' <=> InQueue(x)
                       /\ InBatch(x)' <=> InBatch(x)
                       /\ InDelayed(x)' <=> InDelayed(x)
  BY <1>2, Frames
<1>4. t \in RunningTasks /\ status_[t] \in {"RUNNING", "CANCELED"} /\ \A v \in Workers : Works(v, t) => v = w
  BY <1>1, WhoWaits DEF RunningTasks, Core, Once, Works
<1>5. \A v \in Workers : \A x : Holds(v, x)' <=> Holds(v, x)
  BY <1>1, <1>2 DEF Holds
<1>6. WaitingTasks' = WaitingTasks
  BY <1>2, <1>3, <1>5, SameWaiting DEF Waits
<1>7. RunningTasks' = RunningTasks \ {t}
  <2>1. \A x \in Tasks : (\E v \in Workers : worker'[v] = "running" /\ current'[v] = x)
                           <=> (\E v \in Workers : worker[v] = "running" /\ current[v] = x) /\ x # t
    BY <1>1, <1>2, <1>4 DEF Works
  <2> QED
    BY <2>1 DEF RunningTasks
<1>8. \/ status_[t] = "RUNNING" /\ status_' = [status_ EXCEPT ![t] = "SUCCESS"] /\ UNCHANGED calls
      \/ /\ status_[t] = "RUNNING" /\ status_' = [status_ EXCEPT ![t] = "FAILED"]
         /\ calls' = [calls EXCEPT ![t] = Append(@, "error")]
      \/ status_[t] = "CANCELED" /\ UNCHANGED <<status_, calls>>
  BY <1>1, <1>4 DEF RunEnds, task
<1>9. Runner!Finish(t)
  BY <1>2, <1>4, <1>6, <1>7, <1>8 DEF Runner!Finish, Active
<1> QED
  BY <1>9

\* cancel() and reset() change what is said of a task, not where it is.
LEMMA RunnerCancel ==
  ASSUME Core, NEW t \in Tasks, Cancel(t)
  PROVE  Runner!Cancel(t)
<1>1. UNCHANGED <<owner, worker, current, batch, delayed_tasks_, caller, task_queue_>>
  BY DEF Cancel, control, threads, delayed, admission
<1>2. \A x \in Tasks : /\ InQueue(x)' <=> InQueue(x)
                       /\ InBatch(x)' <=> InBatch(x)
                       /\ InDelayed(x)' <=> InDelayed(x)
  BY <1>1, Frames
<1>3. (\A w \in Workers : \A x : (Holds(w, x)' <=> Holds(w, x))) /\ RunningTasks' = RunningTasks
  BY <1>1, SameWork
<1>4. WaitingTasks' = WaitingTasks
  BY <1>1, <1>2, <1>3, SameWaiting DEF Waits
<1> QED
  BY <1>1, <1>3, <1>4 DEF Cancel, CancelTask, Runner!Cancel, Active

LEMMA RunnerReset ==
  ASSUME Core, NEW t \in Tasks, Reset(t)
  PROVE  Runner!Reset(t)
<1>1. /\ status_[t] \in {"SUCCESS", "FAILED"} /\ caller[t] = "done"
      /\ UNCHANGED <<owner, worker, current, batch, delayed_tasks_, task_queue_>>
  BY DEF Reset, control, threads, delayed
<1>2. \A x \in Tasks : caller'[x] = IF x = t THEN "new" ELSE caller[x]
  BY DEF Reset, Core, TypeOK
<1>3. \A x \in Tasks : /\ InQueue(x)' <=> InQueue(x)
                       /\ InBatch(x)' <=> InBatch(x)
                       /\ InDelayed(x)' <=> InDelayed(x)
  BY <1>1, Frames
<1>4. (\A w \in Workers : \A x : (Holds(w, x)' <=> Holds(w, x))) /\ RunningTasks' = RunningTasks
  BY <1>1, SameWork
<1>5. WaitingTasks' = WaitingTasks
  BY <1>1, <1>2, <1>3, <1>4, SameWaiting DEF Waits
<1>6. t \notin WaitingTasks \cup RunningTasks
  BY <1>1, WhoWaits
<1> QED
  BY <1>1, <1>4, <1>5, <1>6 DEF Reset, Runner!Reset, Active

\* start() opens the runner, and joining the threads closes it.
LEMMA RunnerOpenClose ==
  ASSUME Core, Start \/ Join
  PROVE  Runner!Open \/ Runner!Close
<1>1. UNCHANGED <<current, batch, delayed_tasks_, caller, task_queue_, status_, calls>>
  BY DEF Start, Join, threads, delayed, task, admission
<1>2. \A x \in Tasks : /\ InQueue(x)' <=> InQueue(x)
                       /\ InBatch(x)' <=> InBatch(x)
                       /\ InDelayed(x)' <=> InDelayed(x)
  BY <1>1, Frames
<1>3. \A w \in Workers : worker[w] = "off" /\ worker'[w] \in {"off", "check"}
  BY DEF Start, Join, threads, Core, Threads
<1>4. (\A w \in Workers : \A x : (Holds(w, x)' <=> Holds(w, x))) /\ RunningTasks' = RunningTasks
  BY <1>1, <1>3, SameWork
<1>5. WaitingTasks' = WaitingTasks
  BY <1>1, <1>2, <1>4, SameWaiting DEF Waits
<1>6. RunningTasks = {}
  BY <1>3 DEF RunningTasks
<1>7. CASE Start
  <2>1. ~Active /\ Active' = TRUE
    BY <1>7 DEF Start, Active
  <2> QED
    BY <1>1, <1>4, <1>5, <2>1 DEF Runner!Open
<1>8. CASE Join
  <2>1. Active /\ Active' = FALSE
    BY <1>8 DEF Join, Active
  <2> QED
    BY <1>1, <1>4, <1>5, <1>6, <2>1 DEF Runner!Close
<1> QED
  BY <1>7, <1>8

\* The drain loops give up the tasks they find: the first tells all of them, the
\* second the front of the queue only.
LEMMA RunnerGiveUp ==
  ASSUME Core, DrainDelayed \/ DrainQueue
  PROVE  \E gone \in SUBSET Tasks : \E released \in SUBSET gone : Runner!GiveUp(gone, released)
<1>1. /\ Active = FALSE /\ Active' = FALSE /\ UNCHANGED <<worker, current, batch>>
  BY DEF DrainDelayed, DrainQueue, threads, delayed, Active
<1>2. (\A w \in Workers : \A x : (Holds(w, x)' <=> Holds(w, x))) /\ RunningTasks' = RunningTasks
  BY <1>1, SameWork
<1>3. \A x \in Tasks : InBatch(x)' <=> InBatch(x)
  BY <1>1, Frames
<1>4. \A w \in Workers : \A x : ~Holds(w, x)
  BY DEF DrainDelayed, DrainQueue, Core, Threads, Holds
<1>5. CASE DrainDelayed
  <2> DEFINE gone == {t \in Tasks : InDelayed(t)}
  <2>1. ReleaseTasks(gone) /\ delayed_tasks_' = <<>> /\ UNCHANGED task_queue_
    BY <1>5 DEF DrainDelayed
  <2>2. \A x \in Tasks : caller'[x] = IF InDelayed(x) THEN "done" ELSE caller[x]
    BY <1>5 DEF DrainDelayed
  <2>3. \A x \in Tasks : ~InDelayed(x)' /\ (InQueue(x)' <=> InQueue(x))
    <3>1. \A x \in Tasks : ~InDelayed(x)'
      BY <2>1 DEF InDelayed
    <3> QED
      BY <2>1, <3>1, Frames
  <2>4. \A x \in gone : caller[x] = "delayed" /\ ~InBatch(x) /\ ~InQueue(x)
    BY DEF Core, Once
  <2>5. WaitingTasks' = WaitingTasks \ gone /\ gone \subseteq WaitingTasks
    <3>1. \A x \in Tasks : Waits(x)' <=> Waits(x) /\ x \notin gone
      BY <1>2, <1>3, <1>4, <2>2, <2>3, <2>4 DEF Waits
    <3>2. \A x \in gone : Waits(x)
      BY DEF Waits
    <3> QED
      BY <3>1, <3>2 DEF WaitingTasks
  <2>6. Runner!GiveUp(gone, gone)
    BY <1>1, <1>2, <2>1, <2>5 DEF ReleaseTasks, Runner!GiveUp
  <2> QED
    BY <2>6
<1>6. CASE DrainQueue
  <2> DEFINE gone == {t \in Tasks : InQueue(t)}
             released == IF task_queue_ = <<>> THEN {} ELSE {Head(task_queue_)}
  <2>1. ReleaseTasks(released) /\ task_queue_' = <<>> /\ UNCHANGED <<delayed_tasks_, caller>>
    BY <1>6 DEF DrainQueue, delayed, admission
  <2>2. \A x \in Tasks : ~InQueue(x)' /\ (InDelayed(x)' <=> InDelayed(x))
    <3>1. \A x \in Tasks : ~InQueue(x)'
      BY <2>1 DEF InQueue
    <3> QED
      BY <2>1, <3>1, Frames
  <2>3. released \in SUBSET gone
    <3>1. ASSUME task_queue_ # <<>> PROVE Head(task_queue_) \in Tasks /\ InQueue(Head(task_queue_))
      <4>1. Has(task_queue_, Head(task_queue_)) /\ Head(task_queue_) \in Tasks
        BY <3>1, TailTask DEF Core, TypeOK
      <4> QED
        BY <4>1, Frames
    <3> QED
      BY <3>1
  <2>4. \A x \in gone : caller[x] # "push" /\ ~InBatch(x) /\ ~InDelayed(x)
    BY DEF Core, Once
  <2>5. WaitingTasks' = WaitingTasks \ gone /\ gone \subseteq WaitingTasks
    <3>1. \A x \in Tasks : Waits(x)' <=> Waits(x) /\ x \notin gone
      BY <1>2, <1>3, <1>4, <2>1, <2>2, <2>4 DEF Waits
    <3>2. \A x \in gone : Waits(x)
      BY DEF Waits
    <3> QED
      BY <3>1, <3>2 DEF WaitingTasks
  <2> HIDE DEF gone, released
  <2>6. gone \in SUBSET Tasks
    BY DEF gone
  <2>7. Runner!GiveUp(gone, released)
    BY <1>1, <1>2, <2>1, <2>3, <2>5 DEF ReleaseTasks, Runner!GiveUp
  <2> QED
    BY <2>3, <2>6, <2>7
<1> QED
  BY <1>5, <1>6

LEMMA RunnerNext ==
  ASSUME Core, [Next]_vars
  PROVE  [Runner!Next]_(Runner!vars)
<1> SUFFICES Runner!Next \/ UNCHANGED Runner!vars
  OBVIOUS
<1>1. ASSUME NEW t \in Tasks, Enqueue(t) \/ DelayedEnqueue(t) \/ Cancel(t) \/ Reset(t) PROVE Runner!Next
  BY <1>1, RunnerSubmit, RunnerCancel, RunnerReset DEF Runner!Next
<1>2. CASE Start \/ Join
  BY <1>2, RunnerOpenClose DEF Runner!Next
<1>3. ASSUME NEW w \in Workers, Run(w) \/ RunEnds(w) PROVE Runner!Next
  BY <1>3, RunnerRun, RunnerFinish DEF Runner!Next
<1>4. CASE DrainDelayed \/ DrainQueue
  BY <1>4, RunnerGiveUp DEF Runner!Next
<1>5. ASSUME \/ \E t \in Tasks : Push(t)
             \/ \E w \in Workers : Pop(w)
             \/ DelayedPass \/ DelayedRegister \/ DelayedPush
      PROVE  UNCHANGED Runner!vars
  BY <1>5, RunnerPush, RunnerPop, RunnerDelayed
<1>6. ASSUME \/ \E t \in Tasks : Notify(t)
             \/ \E w \in Workers : Wait(w) \/ SpuriousWakeup(w) \/ Erase(w)
             \/ Stop \/ DelayedCheck \/ DelayedNotify \/ UNCHANGED vars
      PROVE  UNCHANGED Runner!vars
  BY <1>6, RunnerIdle
<1> QED
  BY <1>1, <1>2, <1>3, <1>4, <1>5, <1>6
     DEF Next, CallerStep, OwnerStep, WorkerStep, DelayedStep, Environment

-----------------------------------------------------------------------------
(* The theorems *)

\* Every variable keeps its type: in particular no delay falls below 0 (it is a
\* std::chrono duration that is compared with zero only) and no position of a
\* queue is left empty.
THEOREM TypeCorrect == Spec => []TypeOK
<1>1. IInv => TypeOK
  BY DEF IInv, Core
<1> QED
  BY <1>1, Invariance, PTL

\* run(), error(), release() and cancel() race on status_, and for any number of
\* workers, calls and restarts a task runs at most once, never after it was
\* canceled or released, and is released only if it never ran.
THEOREM LifecycleAlways == Spec => []Lifecycle
<1>1. IInv => Lifecycle
  BY DEF IInv, Core
<1> QED
  BY <1>1, Invariance, PTL

\* However enqueue(), the workers, the delayed worker and stop() interleave, a
\* task that is not settled waits in exactly one place, unless the loop at the
\* end of stop() found it in the queue.
THEOREM NoTaskLostAlways == Spec => []NoTaskLost
<1>1. IInv => NoTaskLost
  <2> SUFFICES ASSUME IInv, NEW t \in Tasks,
                      caller[t] # "new", status_[t] = "NONE", t \notin drained
               PROVE  \E p \in Places(t) : Places(t) = {p}
    BY DEF NoTaskLost
  <2> DEFINE D == {i \in DOMAIN delayed_tasks_ : delayed_tasks_[i].task = t}
             B == {i \in DOMAIN batch : batch[i] = t}
             Q == {i \in DOMAIN task_queue_ : task_queue_[i] = t}
             C == {c \in {"push"} : caller[t] = c}
             W == {w \in Workers : Holds(w, t)}
  <2>1. Places(t) = {<<"delayed", i>> : i \in D} \cup {<<"batch", i>> : i \in B}
                      \cup {<<"queue", i>> : i \in Q} \cup {<<"call", 0>> : c \in C}
                      \cup {<<"worker", w>> : w \in W}
    BY DEF Places
  <2>2. D # {} \/ B # {} \/ Q # {} \/ C # {} \/ W # {}
    BY DEF IInv, Core, Settled, InDelayed, InBatch, InQueue
  <2>3. /\ D # {} => InDelayed(t)
        /\ B # {} => InBatch(t)
        /\ Q # {} => InQueue(t)
        /\ C # {} => caller[t] = "push"
        /\ W # {} => \E w \in Workers : Works(w, t)
    BY DEF InDelayed, InBatch, InQueue, Holds, Works
  <2>4. /\ D # {} => B = {} /\ Q = {} /\ C = {} /\ W = {}
        /\ B # {} => D = {} /\ Q = {} /\ C = {} /\ W = {}
        /\ Q # {} => B = {} /\ D = {} /\ C = {} /\ W = {}
        /\ C # {} => B = {} /\ D = {} /\ Q = {} /\ W = {}
        /\ W # {} => B = {} /\ D = {} /\ Q = {} /\ C = {}
    <3> HIDE DEF D, B, Q, C, W
    <3> QED
      BY <2>3 DEF IInv, Core, Once
  <2>5. \A i, j \in D : i = j
    <3>1. \A i \in D : i \in DOMAIN TasksOf(delayed_tasks_) /\ TasksOf(delayed_tasks_)[i] = t
      BY DEF TasksOf
    <3> QED
      BY <3>1 DEF IInv, Core, Once, Distinct
  <2>6. (\A i, j \in B : i = j) /\ (\A i, j \in Q : i = j)
    BY DEF IInv, Core, Once, Distinct
  <2>7. \A v, w \in W : v = w
    BY DEF IInv, Core, Once, Holds, Works
  <2> HIDE DEF D, B, Q, C, W
  <2>8. CASE D # {}
    <3>1. PICK i \in D : D = {i}
      BY <2>5, <2>8
    <3>2. Places(t) = {<<"delayed", i>>}
      BY <2>1, <2>4, <2>8, <3>1
    <3> QED
      BY <3>2
  <2>9. CASE B # {}
    <3>1. PICK i \in B : B = {i}
      BY <2>6, <2>9
    <3>2. Places(t) = {<<"batch", i>>}
      BY <2>1, <2>4, <2>9, <3>1
    <3> QED
      BY <3>2
  <2>10. CASE Q # {}
    <3>1. PICK i \in Q : Q = {i}
      BY <2>6, <2>10
    <3>2. Places(t) = {<<"queue", i>>}
      BY <2>1, <2>4, <2>10, <3>1
    <3> QED
      BY <3>2
  <2>11. CASE C # {}
    <3>1. Places(t) = {<<"call", 0>>}
      BY <2>1, <2>4, <2>11
    <3> QED
      BY <3>1
  <2>12. CASE W # {}
    <3>1. PICK w \in W : W = {w}
      BY <2>7, <2>12
    <3>2. Places(t) = {<<"worker", w>>}
      BY <2>1, <2>4, <2>12, <3>1
    <3> QED
      BY <3>2
  <2> QED
    BY <2>2, <2>8, <2>9, <2>10, <2>11, <2>12
<1> QED
  BY <1>1, Invariance, PTL

\* cancel() finds a task in all_tasks_ from enqueue() until it has run: no order
\* of register, push, pop and erase leaves it waiting and out of reach, as long
\* as it is enqueued once.
THEOREM CancelableAlways == Spec => []Cancelable
<1>1. IInv => Cancelable
  BY DEF IInv, Core, Registered, Cancelable, Works
<1> QED
  BY <1>1, Invariance, PTL

\* The queue is pushed under queue_mutex_, the workers wait under mutex_, and
\* still they never all sleep on a queue nobody is about to announce.
THEOREM NoLostWakeupAlways == Spec => []NoLostWakeup
<1>1. IInv => NoLostWakeup
  BY DEF IInv
<1> QED
  BY <1>1, Invariance, PTL

\* stop() releases every task that it finds in delayed_tasks_.
THEOREM DelayedReleasedAlways == Spec => DelayedReleased
<1> DEFINE Released == owner = "drainDelayed" /\ owner' # owner =>
                         \A t \in Tasks : InDelayed(t) => status_'[t] # "NONE"
<1>1. Core /\ [Next]_vars => [Released]_vars
  <2> SUFFICES ASSUME Core, Next, owner = "drainDelayed", owner' # owner, NEW t \in Tasks, InDelayed(t)
               PROVE  status_'[t] # "NONE"
    OBVIOUS
  <2>1. DrainDelayed
    BY DEF Next, CallerStep, OwnerStep, WorkerStep, DelayedStep, Environment, control,
           Push, Notify, Enqueue, DelayedEnqueue, Cancel, Reset, Start, Stop, Join, DrainQueue,
           Wait, Pop, Run, RunEnds, Erase, SpuriousWakeup,
           DelayedCheck, DelayedPass, DelayedRegister, DelayedPush, DelayedNotify
  <2> QED
    BY <2>1 DEF DrainDelayed, ReleaseTasks
<1>2. IInv => Core
  BY DEF IInv
<1> QED
  BY <1>1, <1>2, Invariance, PTL DEF Spec, DelayedReleased

\* Hiding its queues, threads and locks, the manager implements TaskRunner: of
\* every task handed over one step decides what becomes of it, no task runs beside
\* itself, after cancel() or release(), or outside start() and stop(), and only
\* the drain loops of stop() give tasks up.
THEOREM Refinement == Spec => ImplementsTaskRunner
<1>1. Init => Runner!Init
  BY RunnerInit
<1>2. Core /\ [Next]_vars => [Runner!Next]_(Runner!vars)
  BY RunnerNext
<1>3. IInv => Core
  BY DEF IInv
<1> QED
  BY <1>1, <1>2, <1>3, Invariance, PTL DEF Spec, ImplementsTaskRunner, Runner!Spec

=============================================================================
