-------------------------- MODULE DelayedQueueProofs --------------------------
(* NeverEarly for every interval, every set of delays and every clock.      *)
EXTENDS DelayedQueue, TLAPS

(* The invariant Inv is inductive. *)

LEMMA InvInit == Init => Inv
BY QueueAssumption DEF Init, Inv, TypeOK, NeverEarly

\* One pass: what is due was due by the clock, what is not loses one interval.
LEMMA InvPass == Inv /\ Pass => Inv'
<1> SUFFICES ASSUME Inv, Pass PROVE Inv'
  OBVIOUS
<1> USE QueueAssumption
<1>1. \A t \in Tasks : state[t] = "pending" => now >= enqueuedAt[t] + asked[t] - delay[t]
  BY DEF Inv, TypeOK, Pass
<1>2. TypeOK'
  BY DEF Inv, TypeOK, Pass, Due
<1>3. sleepFrom' <= now' /\ lastPass' <= now' /\ phase' # "sleep"
  BY DEF Inv, TypeOK, Pass
<1>4. ASSUME NEW t \in Tasks, state'[t] = "pending"
      PROVE  /\ enqueuedAt'[t] <= now'
             /\ delay'[t] <= asked'[t]
             /\ lastPass' + kCheckDelayQueueInterval >= enqueuedAt'[t] + asked'[t] - delay'[t]
  <2>1. state[t] = "pending" /\ ~Due(t)
    BY <1>4 DEF Pass, TypeOK, Inv
  <2>2. delay'[t] = delay[t] - kCheckDelayQueueInterval /\ enqueuedAt' = enqueuedAt
        /\ asked' = asked /\ now' = now /\ lastPass' = now
    BY <2>1 DEF Pass
  <2> QED
    BY <1>1, <2>1, <2>2 DEF Inv, TypeOK
<1>5. NeverEarly'
  <2> SUFFICES ASSUME NEW t \in Tasks, state'[t] = "handedOn"
               PROVE  handedOnAt'[t] >= enqueuedAt'[t] + asked'[t]
    BY DEF NeverEarly
  <2>1. CASE Due(t)
    <3>1. handedOnAt'[t] = now /\ enqueuedAt' = enqueuedAt /\ asked' = asked
      BY <2>1 DEF Pass, Inv, TypeOK
    <3> QED
      BY <1>1, <2>1, <3>1 DEF Due, Inv, TypeOK
  <2>2. CASE ~Due(t)
    BY <2>2 DEF Pass, Inv, NeverEarly
  <2> QED
    BY <2>1, <2>2
<1> QED
  BY <1>2, <1>3, <1>4, <1>5 DEF Inv

LEMMA InvNext == Inv /\ [Next]_vars => Inv'
<1> SUFFICES ASSUME Inv, [Next]_vars PROVE Inv'
  OBVIOUS
<1> USE QueueAssumption
<1>1. CASE Tick
  BY <1>1 DEF Tick, entry, Inv, TypeOK, NeverEarly
<1>2. ASSUME NEW t \in Tasks, NEW d \in Delays, delayedEnqueue(t, d) PROVE Inv'
  <2>1. TypeOK' /\ sleepFrom' <= now' /\ lastPass' <= now' /\ (phase' = "sleep" => lastPass' <= sleepFrom')
    BY <1>2 DEF delayedEnqueue, Inv, TypeOK
  <2>2. ASSUME NEW u \in Tasks, u # t
        PROVE  state'[u] = state[u] /\ delay'[u] = delay[u] /\ asked'[u] = asked[u] /\ enqueuedAt'[u] = enqueuedAt[u] /\ handedOnAt'[u] = handedOnAt[u]
    BY <1>2, <2>2 DEF delayedEnqueue, Inv, TypeOK
  <2>3. state'[t] = "pending" /\ delay'[t] = d /\ asked'[t] = d /\ enqueuedAt'[t] = now /\ now' = now
        /\ lastPass' = lastPass
    BY <1>2 DEF delayedEnqueue, Inv, TypeOK
  <2>4. \A u \in Tasks : state'[u] = "pending" =>
          /\ enqueuedAt'[u] <= now'
          /\ delay'[u] <= asked'[u]
          /\ delay'[u] < asked'[u] =>
               lastPass' + kCheckDelayQueueInterval >= enqueuedAt'[u] + asked'[u] - delay'[u]
    BY <2>2, <2>3 DEF Inv, TypeOK
  <2>5. NeverEarly'
    BY <2>2, <2>3 DEF Inv, NeverEarly
  <2> QED
    BY <2>1, <2>4, <2>5 DEF Inv
<1>3. CASE Pass
  BY <1>3, InvPass
<1>4. CASE Sleep
  BY <1>4 DEF Sleep, entry, Inv, TypeOK, NeverEarly
<1>5. CASE UNCHANGED vars
  BY <1>5 DEF vars, Inv, TypeOK, NeverEarly
<1> QED
  BY <1>1, <1>2, <1>3, <1>4, <1>5 DEF Next

\* The delayed worker never hands a task on before its delay is over.
THEOREM NeverEarlyAlways == Spec => []NeverEarly
<1>1. Inv => NeverEarly
  BY DEF Inv
<1> QED
  BY InvInit, InvNext, <1>1, PTL DEF Spec


-----------------------------------------------------------------------------
(* NeverTwiceLate is inductive beside the types: a pass takes an interval     *)
(* only from a delay that is still positive, so what is left is above minus   *)
(* one interval.                                                              *)

LEMMA LateInit == Init => NeverTwiceLate
BY DEF Init, NeverTwiceLate

LEMMA LatePass ==
  ASSUME TypeOK, NeverTwiceLate, Pass
  PROVE  NeverTwiceLate'
<1> USE QueueAssumption
<1> SUFFICES ASSUME NEW t \in Tasks, state'[t] = "pending", delay'[t] < asked'[t]
             PROVE  delay'[t] > 0 - kCheckDelayQueueInterval
  BY DEF NeverTwiceLate
<1>1. state[t] = "pending" /\ ~Due(t)
  BY DEF Pass, TypeOK
<1>2. delay'[t] = delay[t] - kCheckDelayQueueInterval
  BY <1>1 DEF Pass
<1> QED
  BY <1>1, <1>2 DEF Due, TypeOK

LEMMA LateNext ==
  ASSUME TypeOK, NeverTwiceLate, [Next]_vars
  PROVE  NeverTwiceLate'
<1> USE QueueAssumption
<1>1. ASSUME NEW t \in Tasks, NEW d \in Delays, delayedEnqueue(t, d) PROVE NeverTwiceLate'
  <2>1. \A u \in Tasks \ {t} :
          state'[u] = state[u] /\ delay'[u] = delay[u] /\ asked'[u] = asked[u]
    BY <1>1 DEF delayedEnqueue, TypeOK
  <2>2. delay'[t] = d /\ asked'[t] = d /\ d \in Int
    BY <1>1 DEF delayedEnqueue, TypeOK
  <2> QED
    BY <2>1, <2>2 DEF NeverTwiceLate
<1>2. CASE Pass
  BY <1>2, LatePass
<1>3. CASE Tick \/ Sleep \/ UNCHANGED vars
  BY <1>3 DEF Tick, Sleep, vars, entry, NeverTwiceLate
<1> QED
  BY <1>1, <1>2, <1>3 DEF Next

\* A task still waiting has been passed over only while its delay, counted in
\* whole sleeps, was not over.
THEOREM NeverTwiceLateAlways == Spec => []NeverTwiceLate
<1>1. Inv => TypeOK
  BY DEF Inv
<1> QED
  BY InvInit, InvNext, <1>1, LateInit, LateNext, PTL DEF Spec

=============================================================================
