--------------------------- MODULE PipeServerProofs ---------------------------
(***************************************************************************)
(* What PipeServer keeps for any bounds and any set of failing calls: the  *)
(* types, one open pipe instance, one writer in the order of the write()   *)
(* calls, that nothing is opened or written after stop(), and that it      *)
(* implements MessageChannel.                                              *)
(*                                                                         *)
(* Two arguments run side by side.  Instances says which instance is open  *)
(* where; it makes the kernel's answers defined, so the types need it.     *)
(* Tidy says where a message is: posted, in write_queue_, open, or         *)
(* submitted, and that none is anywhere else.  It is a formula about five  *)
(* values, so that what a Tail, an Append or the aborts of close_pipe() do *)
(* to it is a lemma about sequences, and each action cites the lemmas for  *)
(* what it does.  State says of the same values what became of the write   *)
(* that is open; MessageChannel's steps are its changes.                   *)
(***************************************************************************)
EXTENDS PipeServer, SequenceTheorems, TLAPS

-----------------------------------------------------------------------------
(* The inductive invariant *)

\* The instance that pipe_ holds is the only open one, those before it are
\* closed, those after it do not exist yet; the handler creates one only when
\* there is none.
Instances ==
  /\ pipe_ # 0 => pipe_ <= nxt /\ inst[pipe_] \in {"listening", "connected", "broken"}
  /\ \A i \in Pipes : i > nxt => inst[i] = "unused"
  /\ \A i \in Pipes : i <= nxt /\ i # pipe_ => inst[i] = "closed"
  /\ io \in {"create", "closed"} => pipe_ = 0

\* stop() was called by who is past it, and no handler of start() is under way.
Stopping ==
  /\ main \in {"stopping", "stopped"} => is_stopped_
  /\ main = "starting" => timer = "off"

Posts(q) == {k \in DOMAIN q : q[k].op = "post"}
Writes(q) == {k \in DOMAIN q : q[k].op = "write"}

\* The messages are numbered: those of o from 1 on, then those of s, whose
\* front may have been submitted already; h is the last of them.
Numbered(s, o) ==
  /\ \A i \in DOMAIN o : o[i] = i
  /\ \A i \in DOMAIN s : s[i] = s[1] + i - 1
  /\ s # <<>> => s[1] = Len(o) \/ s[1] = Len(o) + 1

LastQueued(s, o) == IF s = <<>> THEN Len(o) ELSE s[1] + Len(s) - 1

\* Those above h and up to p have been posted, in order and without a gap.
Waiting(q, h, p) ==
  /\ h <= p
  /\ \A k \in Posts(q) : h < q[k].msg /\ q[k].msg <= p
  /\ \A j, k \in Posts(q) : j < k => q[j].msg < q[k].msg
  /\ \A m \in 1..p : h < m => \E k \in Posts(q) : q[k].msg = m

Ordered(q, s, o, p) == Numbered(s, o) /\ Waiting(q, LastQueued(s, o), p)

\* One write is open, of the front of s, which is the last of o.
Single(q, w, s, o) ==
  /\ Len(w) <= 1
  /\ \A j, k \in Writes(q) : j = k
  /\ w # <<>> => Writes(q) = {} /\ s # <<>> /\ w[1] = s[1] /\ s[1] = Len(o)
  /\ \A k \in Writes(q) : s # <<>> /\ q[k].msg = s[1] /\ s[1] = Len(o)

Tidy(q, w, s, o, p) == Ordered(q, s, o, p) /\ Single(q, w, s, o)

IInv ==
  /\ TypeOK /\ Instances /\ Stopping
  /\ Tidy(ready, writing, write_queue_, submitted, posted)

-----------------------------------------------------------------------------
(* Sequences of completions *)

\* The messages of a sequence are numbers.
LEMMA MessagesAreNumbers ==
  ASSUME NEW s \in Seq(Msgs)
  PROVE  /\ Len(s) \in Nat /\ DOMAIN s = 1..Len(s)
         /\ s # <<>> => Len(s) >= 1 /\ 1 \in DOMAIN s
         /\ \A i \in DOMAIN s : s[i] \in Msgs /\ s[i] \in Nat
<1>1. Len(s) \in Nat /\ DOMAIN s = 1..Len(s) /\ (s # <<>> => Len(s) # 0)
  BY LenProperties, EmptySeq
<1>2. \A i \in 1..Len(s) : s[i] \in Msgs
  BY ElementOfSeq
<1>3. \A m \in Msgs : m \in Nat
  BY DEF Msgs
<1> QED
  BY <1>1, <1>2, <1>3

\* A position of Append(s, m) is one of s or the new one.
LEMMA AppendedMessage ==
  ASSUME NEW s \in Seq(Msgs), NEW m \in Msgs
  PROVE  /\ Append(s, m) \in Seq(Msgs) /\ DOMAIN s = 1..Len(s) /\ Len(s) \in Nat
         /\ DOMAIN Append(s, m) = 1..(Len(s) + 1)
         /\ \A i \in DOMAIN s : Append(s, m)[i] = s[i]
         /\ Append(s, m)[Len(s) + 1] = m
         /\ \A i \in DOMAIN Append(s, m) :
              \/ i \in DOMAIN s /\ Append(s, m)[i] = s[i]
              \/ i = Len(s) + 1 /\ Append(s, m)[i] = m
<1> DEFINE u == Append(s, m)
<1>1. /\ u \in Seq(Msgs) /\ DOMAIN s = 1..Len(s) /\ Len(s) \in Nat
      /\ DOMAIN u = 1..(Len(s) + 1)
      /\ \A i \in 1..Len(s) : u[i] = s[i]
      /\ u[Len(s) + 1] = m
  BY AppendProperties, LenProperties
<1> HIDE DEF u
<1>2. \A i \in 1..(Len(s) + 1) : i \in 1..Len(s) \/ i = Len(s) + 1
  BY <1>1
<1>3. ASSUME NEW i \in DOMAIN u
      PROVE  (i \in DOMAIN s /\ u[i] = s[i]) \/ (i = Len(s) + 1 /\ u[i] = m)
  <2>1. i \in 1..Len(s) \/ i = Len(s) + 1
    BY <1>1, <1>2
  <2> QED
    BY <1>1, <2>1
<1> QED
  BY <1>1, <1>3 DEF u

\* The message of a post is one that write() may post.
LEMMA PostedMessages ==
  ASSUME NEW q \in Seq(Completions)
  PROVE  \A k \in Posts(q) : q[k].msg \in Msgs
<1>1. \A k \in Posts(q) : q[k] \in Completions /\ q[k].op = "post"
  BY ElementOfSeq, LenProperties DEF Posts
<1>2. \A c \in Completions : c.op = "post" => c.msg \in Msgs
  BY DEF Completions
<1> QED
  BY <1>1, <1>2

\* Taking or adding a completion that is no post leaves the posts as they are, d
\* places further on.
LEMMA SamePosts ==
  ASSUME NEW q \in Seq(Completions), NEW r \in Seq(Completions), NEW h, NEW p,
         Waiting(q, h, p), NEW d \in Int,
         \A k \in Posts(q) : k \in Int /\ k + d \in Posts(r) /\ r[k + d].msg = q[k].msg,
         \A k \in Posts(r) : k \in Int /\ k - d \in Posts(q)
  PROVE  Waiting(r, h, p)
<1>1. \A k \in Posts(r) : k \in Int /\ k - d \in Posts(q) /\ k - d \in Int /\ (k - d) + d = k
  OBVIOUS
<1>2. \A k \in Posts(r) : r[k].msg = q[k - d].msg
  BY <1>1
<1>3. \A k \in Posts(r) : h < r[k].msg /\ r[k].msg <= p
  BY <1>1, <1>2 DEF Waiting
<1>4. \A j, k \in Posts(r) : j < k => r[j].msg < r[k].msg
  <2>1. \A j, k \in Posts(r) : j < k => j - d < k - d
    BY <1>1
  <2> QED
    BY <1>1, <1>2, <2>1 DEF Waiting
<1>5. \A m \in 1..p : h < m => \E k \in Posts(r) : r[k].msg = m
  BY DEF Waiting
<1> QED
  BY <1>3, <1>4, <1>5 DEF Waiting

\* A sequence of one message is empty without it.
LEMMA OneLeft ==
  ASSUME NEW w \in Seq(Msgs), w # <<>>, Len(w) <= 1
  PROVE  Tail(w) = <<>>
<1>1. Len(w) \in Nat /\ Len(w) >= 1
  BY MessagesAreNumbers
<1>2. Len(w) = 1
  <2>1. \A n \in Nat : n <= 1 /\ n >= 1 => n = 1
    OBVIOUS
  <2> QED
    BY <1>1, <2>1, Zenon
<1>3. Tail(w) \in Seq(Msgs) /\ Len(Tail(w)) = 0
  BY <1>2, HeadTailProperties
<1> QED
  BY <1>3, EmptySeq

\* Taking the first completion leaves the writes behind it as they are.
LEMMA SameWrites ==
  ASSUME NEW q, NEW r, NEW w, NEW s, NEW o, Single(q, w, s, o),
         \A k \in Writes(r) : k \in Int /\ k + 1 \in Writes(q) /\ r[k] = q[k + 1]
  PROVE  Single(r, w, s, o)
<1>1. \A j, k \in Writes(r) : j = k
  <2>1. \A j, k \in Writes(r) : j + 1 = k + 1
    BY DEF Single
  <2> QED
    BY <2>1
<1>2. w # <<>> => Writes(r) = {}
  BY DEF Single
<1>3. \A k \in Writes(r) : s # <<>> /\ r[k].msg = s[1] /\ s[1] = Len(o)
  BY DEF Single
<1> QED
  BY <1>1, <1>2, <1>3 DEF Single

\* A handler takes the oldest completion.
LEMMA TailTidy ==
  ASSUME NEW q \in Seq(Completions), q # <<>>, q[1].op # "post", NEW w \in Seq(Msgs),
         NEW s \in Seq(Msgs), NEW o \in Seq(Msgs), NEW p \in Nat, Tidy(q, w, s, o, p)
  PROVE  Tail(q) \in Seq(Completions) /\ Tidy(Tail(q), w, s, o, p)
<1>1. /\ Tail(q) \in Seq(Completions) /\ Len(q) \in Nat \ {0}
      /\ DOMAIN q = 1..Len(q) /\ DOMAIN Tail(q) = 1..(Len(q) - 1)
      /\ \A k \in DOMAIN Tail(q) : Tail(q)[k] = q[k + 1] /\ k + 1 \in DOMAIN q
  BY HeadTailProperties, LenProperties
<1> DEFINE r == Tail(q)
<1>2. \A k \in DOMAIN r :
        /\ k \in Posts(r) <=> k + 1 \in Posts(q)
        /\ k \in Writes(r) <=> k + 1 \in Writes(q)
  BY <1>1 DEF Posts, Writes
<1>3. Posts(r) \subseteq DOMAIN r /\ Writes(r) \subseteq DOMAIN r
  BY DEF Posts, Writes
<1>4. \A k \in Posts(r) : k \in Int /\ k - (-1) \in Posts(q)
  BY <1>1, <1>2, <1>3
<1>5. \A k \in Posts(q) : k \in Int /\ k + (-1) \in Posts(r) /\ r[k + (-1)].msg = q[k].msg
  <2>1. \A k \in Posts(q) : k \in 1..Len(q) /\ k # 1
    BY <1>1 DEF Posts
  <2>2. \A k \in Posts(q) : k + (-1) \in DOMAIN r /\ (k + (-1)) + 1 = k
    BY <1>1, <2>1
  <2> QED
    BY <1>1, <1>2, <2>1, <2>2
<1> HIDE DEF r
<1>6. Ordered(r, s, o, p)
  <2> DEFINE h == LastQueued(s, o)
  <2>1. r \in Seq(Completions) /\ -1 \in Int /\ Waiting(q, h, p)
    BY <1>1 DEF Tidy, Ordered, r
  <2> HIDE DEF h
  <2>2. Waiting(r, h, p)
    BY <1>4, <1>5, <2>1, SamePosts
  <2> QED
    BY <2>2 DEF Tidy, Ordered, h
<1>7. Single(r, w, s, o)
  <2>1. \A k \in Writes(r) : k \in Int /\ k + 1 \in Writes(q) /\ r[k] = q[k + 1]
    BY <1>1, <1>2, <1>3 DEF r
  <2> QED
    BY <2>1, SameWrites DEF Tidy
<1> QED
  BY <1>1, <1>6, <1>7 DEF Tidy, r

\* Completions are added behind the others: reads and events, or the write that
\* was open.
LEMMA ExtendTidy ==
  ASSUME NEW q \in Seq(Completions), NEW e \in Seq(Completions), NEW w \in Seq(Msgs),
         NEW v \in Seq(Msgs), NEW s \in Seq(Msgs), NEW o \in Seq(Msgs), NEW p \in Nat,
         Tidy(q, w, s, o, p), Posts(e) = {},
         \/ v = w /\ Writes(e) = {}
         \/ v = <<>> /\ \A k \in Writes(e) : w # <<>> /\ e[k].msg = w[1] /\ \A j \in Writes(e) : j = k
  PROVE  q \o e \in Seq(Completions) /\ Tidy(q \o e, v, s, o, p)
<1>1. /\ q \o e \in Seq(Completions) /\ Len(q) \in Nat /\ Len(e) \in Nat
      /\ DOMAIN q = 1..Len(q) /\ DOMAIN e = 1..Len(e) /\ DOMAIN (q \o e) = 1..(Len(q) + Len(e))
      /\ \A k \in 1..(Len(q) + Len(e)) : (q \o e)[k] = IF k <= Len(q) THEN q[k] ELSE e[k - Len(q)]
  BY ConcatProperties, LenProperties
<1> DEFINE r == q \o e
<1>2. /\ Posts(r) = Posts(q)
      /\ \A k \in Posts(q) : k \in Int /\ r[k].msg = q[k].msg
  BY <1>1 DEF Posts
<1>3. \A k \in Writes(r) : \/ k \in Writes(q) /\ r[k] = q[k]
                           \/ k - Len(q) \in Writes(e) /\ r[k] = e[k - Len(q)]
  BY <1>1 DEF Writes
<1>4. Writes(r) \subseteq Int
  BY <1>1 DEF Writes
<1> HIDE DEF r
<1>5. Ordered(r, s, o, p)
  <2> DEFINE h == LastQueued(s, o)
  <2>1. r \in Seq(Completions) /\ 0 \in Int /\ Waiting(q, h, p)
    BY <1>1 DEF Tidy, Ordered, r
  <2> HIDE DEF h
  <2>2. \A k \in Posts(q) : k \in Int /\ k + 0 = k /\ k - 0 = k
    BY <1>2
  <2>3. Waiting(r, h, p)
    BY <1>2, <2>1, <2>2, SamePosts
  <2> QED
    BY <2>3 DEF Tidy, Ordered, h
<1>6. Single(r, v, s, o)
  <2>1. CASE v = w /\ Writes(e) = {}
    <3>1. \A k \in Writes(r) : k \in Writes(q) /\ r[k] = q[k]
      BY <2>1, <1>3
    <3> QED
      BY <3>1, <2>1 DEF Tidy, Single
  <2>2. CASE v = <<>> /\ \A k \in Writes(e) : w # <<>> /\ e[k].msg = w[1] /\ \A j \in Writes(e) : j = k
    <3>1. \A k \in Writes(e) : w # <<>> /\ Writes(q) = {} /\ s # <<>> /\ e[k].msg = s[1] /\ s[1] = Len(o)
      BY <2>2 DEF Tidy, Single
    <3>2. \A j, k \in Writes(r) : j = k
      <4>1. CASE Writes(q) = {}
        BY <4>1, <2>2, <1>1, <1>3, <1>4
      <4>2. CASE Writes(e) = {}
        BY <4>2, <1>3 DEF Tidy, Single
      <4> QED
        BY <3>1, <4>1, <4>2
    <3>3. \A k \in Writes(r) : s # <<>> /\ r[k].msg = s[1] /\ s[1] = Len(o)
      BY <3>1, <1>3, SMTT(60) DEF Tidy, Single
    <3>4. Len(v) = 0
      BY <2>2
    <3> QED
      BY <3>2, <3>3, <3>4, <2>2 DEF Single
  <2> QED
    BY <2>1, <2>2
<1> QED
  BY <1>1, <1>5, <1>6 DEF Tidy, r

LEMMA AppendTidy ==
  ASSUME NEW q \in Seq(Completions), NEW c \in Completions, NEW w \in Seq(Msgs),
         NEW v \in Seq(Msgs), NEW s \in Seq(Msgs), NEW o \in Seq(Msgs), NEW p \in Nat,
         Tidy(q, w, s, o, p), c.op # "post",
         \/ v = w /\ c.op # "write"
         \/ v = <<>> /\ w # <<>> /\ c.op = "write" /\ c.msg = w[1]
  PROVE  Append(q, c) \in Seq(Completions) /\ Tidy(Append(q, c), v, s, o, p)
<1> DEFINE e == <<c>>
<1>1. /\ e \in Seq(Completions) /\ Append(q, c) = q \o e
      /\ DOMAIN e = {1} /\ e[1] = c
  BY AppendIsConcat
<1> HIDE DEF e
<1>2. Posts(e) = {} /\ Writes(e) \subseteq {1} /\ (c.op # "write" => Writes(e) = {})
  BY <1>1 DEF Posts, Writes
<1>3. \/ v = w /\ Writes(e) = {}
      \/ v = <<>> /\ \A k \in Writes(e) : w # <<>> /\ e[k].msg = w[1] /\ \A j \in Writes(e) : j = k
  BY <1>1, <1>2
<1>4. q \o e \in Seq(Completions) /\ Tidy(q \o e, v, s, o, p)
  BY <1>1, <1>2, <1>3, ExtendTidy
<1> QED
  BY <1>1, <1>4

\* do_write() submits the front of the queue when no write is open.
LEMMA SubmitTidy ==
  ASSUME NEW q \in Seq(Completions), NEW s \in Seq(Msgs), NEW o \in Seq(Msgs), NEW p \in Nat,
         Tidy(q, <<>>, s, o, p), Writes(q) = {}, s # <<>>, s[1] = Len(o) + 1
  PROVE  Tidy(q, <<s[1]>>, s, Append(o, s[1]), p) /\ Len(Append(o, s[1])) = Len(o) + 1
<1>1. s[1] \in Msgs
  BY MessagesAreNumbers
<1> DEFINE u == Append(o, s[1])
<1>2. /\ Len(o) \in Nat /\ DOMAIN o = 1..Len(o) /\ Len(u) = Len(o) + 1
      /\ \A i \in DOMAIN u : (i \in DOMAIN o /\ u[i] = o[i]) \/ (i = Len(o) + 1 /\ u[i] = s[1])
  BY <1>1, AppendedMessage, AppendProperties
<1> HIDE DEF u
<1>3. Numbered(s, u)
  <2>1. \A i \in DOMAIN u : u[i] = i
    BY <1>2 DEF Tidy, Ordered, Numbered
  <2> QED
    BY <1>2, <2>1 DEF Tidy, Ordered, Numbered
<1>4. LastQueued(s, u) = LastQueued(s, o)
  BY DEF LastQueued
<1>5. Ordered(q, s, u, p)
  BY <1>3, <1>4 DEF Tidy, Ordered
<1>6. Single(q, <<s[1]>>, s, u)
  BY <1>2 DEF Single
<1> QED
  BY <1>2, <1>5, <1>6 DEF Tidy, u

\* write() posts message p + 1.
LEMMA PostTidy ==
  ASSUME NEW q \in Seq(Completions), NEW w \in Seq(Msgs), NEW s \in Seq(Msgs),
         NEW o \in Seq(Msgs), NEW p \in Nat, p + 1 \in Msgs, Tidy(q, w, s, o, p)
  PROVE  Append(q, Posted(p + 1)) \in Seq(Completions) /\ Tidy(Append(q, Posted(p + 1)), w, s, o, p + 1)
<1>1. Posted(p + 1) \in Completions /\ Posted(p + 1).op = "post" /\ Posted(p + 1).msg = p + 1
  BY DEF Completions, Posted
<1> DEFINE r == Append(q, Posted(p + 1))
<1>2. /\ r \in Seq(Completions) /\ Len(q) \in Nat /\ DOMAIN q = 1..Len(q)
      /\ DOMAIN r = 1..(Len(q) + 1)
      /\ \A k \in DOMAIN q : r[k] = q[k]
      /\ r[Len(q) + 1] = Posted(p + 1)
  BY <1>1, AppendProperties, LenProperties
<1> HIDE DEF r
<1>3. Writes(r) = Writes(q) /\ \A k \in Writes(q) : r[k] = q[k]
  BY <1>1, <1>2 DEF Writes
<1>4. /\ Posts(r) = Posts(q) \cup {Len(q) + 1}
      /\ r[Len(q) + 1].msg = p + 1
      /\ \A k \in Posts(q) : k \in 1..Len(q) /\ r[k].msg = q[k].msg
  BY <1>1, <1>2 DEF Posts
<1>5. PICK h \in Int : h = LastQueued(s, o)
  BY MessagesAreNumbers, LenProperties DEF LastQueued
<1>6. \A k \in Posts(q) : q[k].msg \in Nat
  BY PostedMessages DEF Msgs
<1>7. Waiting(q, h, p)
  BY <1>5 DEF Tidy, Ordered
<1>8. Waiting(r, h, p + 1)
  <2>1. \A j, k \in Posts(r) : j < k => r[j].msg < r[k].msg
    BY <1>2, <1>4, <1>6, <1>7 DEF Waiting
  <2>2. \A k \in Posts(r) : h < r[k].msg /\ r[k].msg <= p + 1
    BY <1>2, <1>4, <1>6, <1>7 DEF Waiting
  <2>3. \A m \in 1..(p + 1) : h < m => \E k \in Posts(r) : r[k].msg = m
    <3>1. \A m \in 1..(p + 1) : m \in 1..p \/ m = p + 1
      OBVIOUS
    <3> QED
      BY <1>4, <1>7, <3>1 DEF Waiting
  <2>4. h <= p + 1
    BY <1>7 DEF Waiting
  <2> QED
    BY <2>1, <2>2, <2>3, <2>4 DEF Waiting
<1>9. Single(r, w, s, o)
  BY <1>3 DEF Tidy, Single
<1> QED
  BY <1>2, <1>5, <1>8, <1>9 DEF Tidy, Ordered, r

\* The posted function takes its message to the back of write_queue_: it is the
\* one after the last that is there, or after the last that was submitted.
LEMMA QueueTidy ==
  ASSUME NEW q \in Seq(Completions), q # <<>>, q[1].op = "post", NEW w \in Seq(Msgs),
         NEW s \in Seq(Msgs), NEW o \in Seq(Msgs), NEW p \in Nat, Tidy(q, w, s, o, p)
  PROVE  /\ q[1].msg \in Msgs /\ q[1].msg <= p
         /\ Tidy(Tail(q), w, Append(s, q[1].msg), o, p)
         /\ s = <<>> => q[1].msg = Len(o) + 1
<1>1. /\ Tail(q) \in Seq(Completions) /\ Len(q) \in Nat \ {0}
      /\ DOMAIN q = 1..Len(q) /\ DOMAIN Tail(q) = 1..(Len(q) - 1)
      /\ \A k \in DOMAIN Tail(q) : Tail(q)[k] = q[k + 1] /\ k + 1 \in DOMAIN q
  BY HeadTailProperties, LenProperties
<1>2. 1 \in Posts(q) /\ \A k \in Posts(q) : q[k].msg \in Msgs /\ q[k].msg \in Nat /\ k \in 1..Len(q)
  BY <1>1, PostedMessages DEF Posts, Msgs
<1> DEFINE m == q[1].msg
           u == Append(s, m)
           r == Tail(q)
<1>3. m \in Msgs /\ m \in Nat /\ m >= 1
  BY <1>2 DEF Msgs
<1>4. /\ u \in Seq(Msgs) /\ Len(s) \in Nat /\ DOMAIN s = 1..Len(s)
      /\ DOMAIN u = 1..(Len(s) + 1) /\ Len(u) = Len(s) + 1
      /\ \A i \in DOMAIN s : u[i] = s[i]
      /\ u[Len(s) + 1] = m
      /\ \A i \in DOMAIN u : (i \in DOMAIN s /\ u[i] = s[i]) \/ (i = Len(s) + 1 /\ u[i] = m)
  BY <1>3, AppendedMessage, AppendProperties
<1>5. PICK h \in Nat : h = LastQueued(s, o)
  <2>1. Len(o) \in Nat
    BY LenProperties
  <2>2. s # <<>> => s[1] \in Nat /\ s[1] + Len(s) - 1 \in Nat
    BY MessagesAreNumbers
  <2> QED
    BY <2>1, <2>2 DEF LastQueued
<1>6. Waiting(q, h, p) /\ Numbered(s, o)
  BY <1>5 DEF Tidy, Ordered
<1>7. m <= p /\ m = h + 1
  <2>1. h < m /\ m <= p
    BY <1>2, <1>6 DEF Waiting
  <2>2. h + 1 \in 1..p /\ h < h + 1
    BY <1>3, <2>1
  <2>3. PICK k \in Posts(q) : q[k].msg = h + 1
    BY <1>6, <2>2 DEF Waiting
  <2>4. CASE k = 1
    BY <2>1, <2>3, <2>4
  <2>5. CASE k # 1
    <3>1. 1 < k
      BY <1>1, <1>2, <2>5
    <3>2. m < h + 1
      BY <1>2, <1>6, <2>3, <3>1 DEF Waiting
    <3> QED
      BY <1>3, <2>1, <3>2
  <2> QED
    BY <2>4, <2>5
<1> HIDE DEF m, u, r
<1>8. u # <<>> /\ (s # <<>> => s[1] \in Nat /\ 1 \in DOMAIN s)
  <2>1. Len(u) # 0
    BY <1>4
  <2> QED
    BY <1>4, <2>1, MessagesAreNumbers, EmptySeq
<1>9. LastQueued(u, o) = h + 1 /\ Numbered(u, o)
  <2>1. u # <<>> /\ 1 \in DOMAIN u
    BY <1>4, EmptySeq
  <2>2. CASE s = <<>>
    <3>1. Len(s) = 0 /\ DOMAIN u = {1} /\ u[1] = m /\ h = Len(o)
      BY <1>4, <1>5, <2>2 DEF LastQueued
    <3> QED
      BY <1>3, <1>4, <1>6, <1>7, <2>1, <3>1 DEF LastQueued, Numbered
  <2>3. CASE s # <<>>
    <3>1. u[1] = s[1] /\ h = s[1] + Len(s) - 1 /\ s[1] \in Nat
      BY <1>4, <1>5, <1>8, <2>3 DEF LastQueued
    <3>2. \A i \in DOMAIN u : u[i] = u[1] + i - 1
      <4>1. \A i \in DOMAIN s : u[i] = u[1] + i - 1
        BY <1>4, <1>6, <3>1 DEF Numbered
      <4>2. u[Len(s) + 1] = u[1] + (Len(s) + 1) - 1
        BY <1>4, <1>7, <3>1
      <4>3. \A i \in DOMAIN u : i \in DOMAIN s \/ i = Len(s) + 1
        BY <1>4
      <4> QED
        BY <4>1, <4>2, <4>3
    <3>3. LastQueued(u, o) = h + 1
      BY <1>4, <2>1, <3>1 DEF LastQueued
    <3> QED
      BY <1>6, <2>3, <3>1, <3>2, <3>3 DEF Numbered
  <2> QED
    BY <2>2, <2>3
<1>10. \A k \in Posts(r) : k \in Nat /\ k + 1 \in Posts(q) /\ 1 < k + 1 /\ r[k] = q[k + 1]
  BY <1>1 DEF Posts, r
<1>11. Waiting(r, h + 1, p)
  <2>1. \A k \in Posts(r) : h + 1 < r[k].msg /\ r[k].msg <= p
    BY <1>2, <1>6, <1>7, <1>10 DEF Waiting, m
  <2>2. \A j, k \in Posts(r) : j < k => r[j].msg < r[k].msg
    <3>1. \A j, k \in Posts(r) : j < k => j + 1 < k + 1
      BY <1>10
    <3> QED
      BY <1>6, <1>10, <3>1 DEF Waiting
  <2>3. ASSUME NEW n \in 1..p, h + 1 < n
        PROVE  \E k \in Posts(r) : r[k].msg = n
    <3>1. PICK k \in Posts(q) : q[k].msg = n
      BY <1>6, <2>3 DEF Waiting
    <3>2. k # 1 /\ k \in 1..Len(q)
      BY <1>2, <1>7, <2>3, <3>1 DEF m
    <3>3. k - 1 \in DOMAIN r /\ (k - 1) + 1 = k
      BY <1>1, <3>2 DEF r
    <3>4. r[k - 1] = q[k]
      BY <1>1, <3>3 DEF r
    <3> QED
      BY <3>1, <3>3, <3>4 DEF Posts
  <2> QED
    BY <1>7, <2>1, <2>2, <2>3 DEF Waiting
<1>12. Single(r, w, u, o)
  <2>1. s # <<>> => u # <<>> /\ u[1] = s[1]
    BY <1>4, <1>8
  <2>2. \A k \in Writes(r) : k \in Int /\ k + 1 \in Writes(q) /\ r[k] = q[k + 1]
    BY <1>1 DEF Writes, r
  <2>3. Single(r, w, s, o)
    BY <2>2, SameWrites DEF Tidy
  <2> QED
    BY <2>1, <2>3 DEF Single
<1>13. s = <<>> => m = Len(o) + 1
  BY <1>5, <1>7 DEF LastQueued
<1> QED
  BY <1>3, <1>7, <1>9, <1>11, <1>12, <1>13 DEF Tidy, Ordered, m, u, r

\* The handler of a write that went well takes its message off the queue; the
\* next one, if it is there, follows the last that was submitted.
LEMMA PopTidy ==
  ASSUME NEW q \in Seq(Completions), q # <<>>, q[1].op = "write", NEW w \in Seq(Msgs),
         NEW s \in Seq(Msgs), NEW o \in Seq(Msgs), NEW p \in Nat, Tidy(q, w, s, o, p)
  PROVE  /\ w = <<>> /\ s # <<>> /\ Tail(s) \in Seq(Msgs) /\ Writes(Tail(q)) = {}
         /\ Tidy(Tail(q), w, Tail(s), o, p)
         /\ Tail(s) # <<>> => Tail(s)[1] = Len(o) + 1
<1>1. /\ Tail(q) \in Seq(Completions) /\ Len(q) \in Nat \ {0}
      /\ DOMAIN q = 1..Len(q) /\ DOMAIN Tail(q) = 1..(Len(q) - 1)
      /\ \A k \in DOMAIN Tail(q) : Tail(q)[k] = q[k + 1] /\ k + 1 \in DOMAIN q
  BY HeadTailProperties, LenProperties
<1>2. 1 \in Writes(q)
  BY <1>1 DEF Writes
<1>3. w = <<>> /\ s # <<>> /\ s[1] = Len(o)
  BY <1>2 DEF Tidy, Single
<1>4. Writes(Tail(q)) = {}
  <2>1. \A k \in Writes(Tail(q)) : k \in Nat /\ k >= 1 /\ k + 1 \in Writes(q)
    BY <1>1 DEF Writes
  <2>2. \A k \in Writes(q) : k = 1
    BY <1>2 DEF Tidy, Single
  <2> QED
    BY <2>1, <2>2
<1> DEFINE t == Tail(s)
<1>5. /\ t \in Seq(Msgs) /\ Len(s) \in Nat \ {0} /\ Len(t) = Len(s) - 1
      /\ DOMAIN s = 1..Len(s) /\ DOMAIN t = 1..(Len(s) - 1)
      /\ \A k \in DOMAIN t : t[k] = s[k + 1] /\ k + 1 \in DOMAIN s
  BY <1>3, HeadTailProperties, LenProperties
<1>6. Tidy(Tail(q), w, s, o, p)
  BY TailTidy
<1>7. t # <<>> => 1 \in DOMAIN t
  BY <1>5, EmptySeq
<1>9. Len(o) \in Nat
  BY LenProperties
<1> HIDE DEF t
<1>8. t = <<>> => Len(t) = 0
  OBVIOUS
<1>10. \A k \in DOMAIN t : t[k] = Len(o) + k
  <2>1. \A i \in DOMAIN s : s[i] = Len(o) + i - 1
    BY <1>3 DEF Tidy, Ordered, Numbered
  <2> QED
    BY <1>5, <1>9, <2>1
<1>11. t # <<>> => t[1] = Len(o) + 1
  BY <1>7, <1>10
<1>12. Numbered(t, o)
  <2>1. \A k \in DOMAIN t : t[k] = t[1] + k - 1
    <3>1. \A k \in DOMAIN t : t # <<>> /\ k \in Nat
      BY <1>5
    <3> QED
      BY <1>9, <1>10, <1>11, <3>1
  <2> QED
    BY <1>11, <2>1 DEF Tidy, Ordered, Numbered
<1>13. LastQueued(t, o) = LastQueued(s, o)
  <2>1. CASE t = <<>>
    <3>1. Len(s) = 1
      BY <1>5, <1>8, <2>1
    <3> QED
      BY <1>3, <1>9, <2>1, <3>1 DEF LastQueued
  <2>2. CASE t # <<>>
    BY <1>3, <1>5, <1>9, <1>11, <2>2 DEF LastQueued
  <2> QED
    BY <2>1, <2>2
<1>14. Ordered(Tail(q), t, o, p)
  BY <1>6, <1>12, <1>13 DEF Tidy, Ordered
<1>15. Single(Tail(q), w, t, o)
  BY <1>3, <1>4 DEF Single
<1> QED
  BY <1>3, <1>4, <1>5, <1>11, <1>14, <1>15 DEF Tidy, t

\* Completed reads and writes are no posts; each write is one of s.
LEMMA CompletedReads ==
  ASSUME NEW n \in Nat, NEW res \in Results
  PROVE  LET e == Completed("read", res, [k \in 1..n |-> 0])
         IN  e \in Seq(Completions) /\ Posts(e) = {} /\ Writes(e) = {}
<1> DEFINE e == Completed("read", res, [k \in 1..n |-> 0])
<1>1. Len([k \in 1..n |-> 0]) = n
  OBVIOUS
<1>2. e = [k \in 1..n |-> Read(res)]
  BY <1>1 DEF Completed
<1>3. Read(res) \in Completions /\ Read(res).op = "read"
  BY DEF Read, Completions
<1> HIDE DEF e
<1>4. e \in Seq(Completions)
  BY <1>2, <1>3, SeqDef
<1>5. \A k \in DOMAIN e : e[k].op = "read"
  BY <1>2, <1>3
<1> QED
  BY <1>4, <1>5 DEF Posts, Writes, e

LEMMA CompletedWrites ==
  ASSUME NEW s \in Seq(Msgs), NEW res \in Results, Len(s) <= 1
  PROVE  LET e == Completed("write", res, s)
         IN  /\ e \in Seq(Completions) /\ Posts(e) = {}
             /\ \A k \in Writes(e) : s # <<>> /\ e[k].msg = s[1] /\ \A j \in Writes(e) : j = k
<1> DEFINE e == Completed("write", res, s)
<1>1. e = [k \in 1..Len(s) |-> Wrote(s[k], res)]
  BY DEF Completed
<1>2. \A k \in 1..Len(s) : s[k] \in Msgs
  BY ElementOfSeq
<1>3. \A m \in Msgs : Wrote(m, res) \in Completions /\ Wrote(m, res).op = "write" /\ Wrote(m, res).msg = m
  BY DEF Wrote, Completions
<1> HIDE DEF e
<1>4. e \in Seq(Completions)
  BY <1>1, <1>2, <1>3, SeqDef, LenProperties
<1>5. \A k \in DOMAIN e : e[k].op = "write" /\ k \in 1..Len(s) /\ e[k].msg = s[k]
  BY <1>1, <1>2, <1>3
<1>6. \A k \in DOMAIN e : k = 1 /\ s # <<>>
  BY <1>5, LenProperties, EmptySeq
<1>7. Posts(e) = {} /\ Writes(e) \subseteq DOMAIN e
  BY <1>5 DEF Posts, Writes
<1> QED
  BY <1>4, <1>5, <1>6, <1>7 DEF e

\* A message in the queue that is not submitted yet has been posted.
LEMMA NextPosted ==
  ASSUME NEW q, NEW w, NEW s \in Seq(Msgs), NEW o \in Seq(Msgs), NEW p \in Nat, Tidy(q, w, s, o, p),
         s # <<>>, s[1] = Len(o) + 1
  PROVE  Len(o) < p
<1>1. Len(o) \in Nat /\ Len(s) \in Nat /\ Len(s) >= 1
  BY MessagesAreNumbers, LenProperties
<1>2. Len(o) + 1 + Len(s) - 1 <= p
  BY DEF Tidy, Ordered, Waiting, LastQueued
<1> QED
  BY <1>1, <1>2

-----------------------------------------------------------------------------
(* What is known of the write that is open *)

State(q, w) ==
  IF w # <<>> THEN "open"
  ELSE IF Writes(q) = {} THEN "none"
  ELSE IF \E k \in Writes(q) : q[k].res = "ok" THEN "written" ELSE "lost"

\* What closing the pipe does to it.
MayLose(a, b) == b = a \/ (a = "open" /\ b = "lost")

\* Taking a completion that is no write says nothing new.
LEMMA TailState ==
  ASSUME NEW q \in Seq(Completions), q # <<>>, q[1].op # "write", NEW w
  PROVE  State(Tail(q), w) = State(q, w)
<1> DEFINE r == Tail(q)
<1>1. /\ Len(q) \in Nat \ {0} /\ DOMAIN q = 1..Len(q) /\ DOMAIN r = 1..(Len(q) - 1)
      /\ \A k \in DOMAIN r : r[k] = q[k + 1] /\ k + 1 \in DOMAIN q
  BY HeadTailProperties, LenProperties
<1> HIDE DEF r
<1>2. \A k \in Writes(r) : k + 1 \in Writes(q) /\ r[k] = q[k + 1]
  BY <1>1 DEF Writes
<1>3. \A k \in Writes(q) : k - 1 \in Writes(r) /\ q[k] = r[k - 1]
  <2>1. \A k \in Writes(q) : k \in 1..Len(q) /\ k # 1 /\ q[k].op = "write"
    BY <1>1 DEF Writes
  <2>2. \A k \in Writes(q) : k - 1 \in DOMAIN r /\ (k - 1) + 1 = k
    BY <1>1, <2>1
  <2>3. \A k \in Writes(q) : r[k - 1] = q[k]
    BY <1>1, <2>2
  <2> QED
    BY <2>1, <2>2, <2>3 DEF Writes
<1>4. Writes(r) = {} <=> Writes(q) = {}
  BY <1>2, <1>3
<1>5. (\E k \in Writes(r) : r[k].res = "ok") <=> \E k \in Writes(q) : q[k].res = "ok"
  BY <1>2, <1>3
<1> QED
  BY <1>4, <1>5, Zenon DEF State, r

\* The writes of two sequences of completions.
LEMMA ConcatWrites ==
  ASSUME NEW q \in Seq(Completions), NEW e \in Seq(Completions)
  PROVE  /\ \A k \in Writes(q) : k \in Writes(q \o e) /\ (q \o e)[k] = q[k]
         /\ \A k \in Writes(e) : Len(q) + k \in Writes(q \o e) /\ (q \o e)[Len(q) + k] = e[k]
         /\ \A k \in Writes(q \o e) : \/ k \in Writes(q)
                                      \/ k - Len(q) \in Writes(e) /\ (q \o e)[k] = e[k - Len(q)]
<1> DEFINE r == q \o e
<1>1. /\ Len(q) \in Nat /\ Len(e) \in Nat
      /\ DOMAIN q = 1..Len(q) /\ DOMAIN e = 1..Len(e) /\ DOMAIN r = 1..(Len(q) + Len(e))
      /\ \A k \in 1..(Len(q) + Len(e)) : r[k] = IF k <= Len(q) THEN q[k] ELSE e[k - Len(q)]
  BY ConcatProperties, LenProperties
<1> HIDE DEF r
<1>2. \A k \in Writes(q) : k \in Writes(r) /\ r[k] = q[k]
  BY <1>1 DEF Writes
<1>3. \A k \in Writes(e) : Len(q) + k \in Writes(r) /\ r[Len(q) + k] = e[k]
  <2>1. \A k \in Writes(e) : k \in 1..Len(e) /\ e[k].op = "write"
    BY <1>1 DEF Writes
  <2>2. \A k \in Writes(e) : /\ Len(q) + k \in 1..(Len(q) + Len(e)) /\ ~(Len(q) + k <= Len(q))
                             /\ (Len(q) + k) - Len(q) = k
    BY <1>1, <2>1
  <2>3. \A k \in Writes(e) : r[Len(q) + k] = e[k]
    BY <1>1, <2>2
  <2> QED
    BY <1>1, <2>1, <2>2, <2>3 DEF Writes
<1>4. \A k \in Writes(r) : k \in Writes(q) \/ (k - Len(q) \in Writes(e) /\ r[k] = e[k - Len(q)])
  BY <1>1 DEF Writes
<1> QED
  BY <1>2, <1>3, <1>4 DEF r

\* Completions of other operations say nothing of the write.
LEMMA ExtendState ==
  ASSUME NEW q \in Seq(Completions), NEW e \in Seq(Completions), NEW w, Writes(e) = {}
  PROVE  State(q \o e, w) = State(q, w)
<1> DEFINE r == q \o e
<1>1. /\ \A k \in Writes(q) : k \in Writes(r) /\ r[k] = q[k]
      /\ \A k \in Writes(r) : k \in Writes(q)
  BY ConcatWrites
<1> HIDE DEF r
<1>2. Writes(r) = Writes(q)
  BY <1>1
<1>3. (\E k \in Writes(r) : r[k].res = "ok") <=> \E k \in Writes(q) : q[k].res = "ok"
  BY <1>1, <1>2
<1>4. State(r, w) = State(q, w)
  BY <1>2, <1>3, Zenon DEF State
<1> QED
  BY <1>4 DEF r

\* Its own completion says how it ended.
LEMMA EndState ==
  ASSUME NEW q \in Seq(Completions), NEW e \in Seq(Completions), NEW res,
         Writes(q) = {}, Writes(e) # {}, \A k \in Writes(e) : e[k].res = res
  PROVE  State(q \o e, <<>>) = IF res = "ok" THEN "written" ELSE "lost"
<1> DEFINE r == q \o e
<1>1. /\ \A k \in Writes(e) : Len(q) + k \in Writes(r)
      /\ \A k \in Writes(r) : k \in Writes(q) \/ (k - Len(q) \in Writes(e) /\ r[k] = e[k - Len(q)])
  BY ConcatWrites, ZenonT(60)
<1> HIDE DEF r
<1>2. Writes(r) # {} /\ \A k \in Writes(r) : r[k].res = res
  BY <1>1
<1>3. (\E k \in Writes(r) : r[k].res = "ok") <=> res = "ok"
  BY <1>2
<1>4. State(r, <<>>) = IF res = "ok" THEN "written" ELSE "lost"
  BY <1>2, <1>3, Zenon DEF State
<1> QED
  BY <1>4 DEF r

LEMMA AppendState ==
  ASSUME NEW q \in Seq(Completions), NEW c \in Completions, NEW w
  PROVE  /\ c.op # "write" => State(Append(q, c), w) = State(q, w)
         /\ Writes(q) = {} /\ c.op = "write"
              => State(Append(q, c), <<>>) = IF c.res = "ok" THEN "written" ELSE "lost"
<1> DEFINE e == <<c>>
<1>1. e \in Seq(Completions) /\ Append(q, c) = q \o e /\ DOMAIN e = {1} /\ e[1] = c
  BY AppendIsConcat
<1> HIDE DEF e
<1>2. /\ c.op # "write" => Writes(e) = {}
      /\ c.op = "write" => Writes(e) # {} /\ \A k \in Writes(e) : e[k].res = c.res
  BY <1>1 DEF Writes
<1>3. c.op # "write" => State(q \o e, w) = State(q, w)
  BY <1>1, <1>2, ExtendState
<1>4. Writes(q) = {} /\ c.op = "write"
        => State(q \o e, <<>>) = IF c.res = "ok" THEN "written" ELSE "lost"
  BY <1>1, <1>2, EndState
<1> QED
  BY <1>1, <1>3, <1>4

\* What closing a pipe, or a client that leaves, aborts is lost.
LEMMA AbortState ==
  ASSUME NEW q \in Seq(Completions), NEW w \in Seq(Msgs), Len(w) <= 1, w # <<>> => Writes(q) = {},
         NEW n \in Nat, NEW res \in Results, res # "ok"
  PROVE  LET a == Completed("read", res, [k \in 1..n |-> 0])
             b == Completed("write", res, w)
         IN  /\ MayLose(State(q, w), State(q \o a \o b, <<>>))
             /\ MayLose(State(q, w), State(q \o b \o a, <<>>))
<1> DEFINE a == Completed("read", res, [k \in 1..n |-> 0])
           b == Completed("write", res, w)
<1>1. a \in Seq(Completions) /\ Writes(a) = {}
  BY CompletedReads
<1>2. b \in Seq(Completions)
  BY CompletedWrites
<1>3. /\ w = <<>> => Writes(b) = {}
      /\ w # <<>> => Writes(b) # {} /\ \A k \in Writes(b) : b[k].res = res
  <2>1. b = [k \in 1..Len(w) |-> Wrote(w[k], res)]
    BY DEF Completed
  <2>2. \A m : Wrote(m, res).op = "write" /\ Wrote(m, res).res = res
    BY DEF Wrote
  <2>3. Len(w) \in Nat /\ (w = <<>> => Len(w) = 0) /\ (w # <<>> => 1 \in 1..Len(w))
    BY MessagesAreNumbers
  <2> HIDE DEF b
  <2>4. \A k \in DOMAIN b : b[k].op = "write" /\ b[k].res = res
    BY <2>1, <2>2
  <2>5. DOMAIN b = 1..Len(w)
    BY <2>1
  <2> QED
    BY <2>3, <2>4, <2>5 DEF Writes
<1> HIDE DEF a, b
<1>4. q \o a \in Seq(Completions) /\ q \o b \in Seq(Completions)
  BY <1>1, <1>2, ConcatProperties
<1>5. State(q \o a, w) = State(q, w)
  BY <1>1, ExtendState
<1>6. CASE w = <<>>
  <2>1. State(q \o a \o b, w) = State(q \o a, w)
    BY <1>2, <1>3, <1>4, <1>6, ExtendState, ZenonT(60)
  <2>2. State(q \o b, w) = State(q, w)
    BY <1>2, <1>3, <1>6, ExtendState
  <2>3. State(q \o b \o a, w) = State(q \o b, w)
    BY <1>1, <1>4, ExtendState, ZenonT(60)
  <2> QED
    BY <1>5, <1>6, <2>1, <2>2, <2>3 DEF MayLose, a, b
<1>7. CASE w # <<>>
  <2>1. State(q, w) = "open" /\ Writes(q) = {} /\ Writes(b) # {} /\ \A k \in Writes(b) : b[k].res = res
    BY <1>3, <1>7 DEF State
  <2>2. Writes(q \o a) = {}
    BY <1>1, <2>1, ConcatWrites
  <2>3. State(q \o a \o b, <<>>) = "lost"
    BY <1>2, <1>4, <2>1, <2>2, EndState
  <2>4. State(q \o b, <<>>) = "lost"
    BY <1>2, <2>1, EndState
  <2>5. State(q \o b \o a, <<>>) = State(q \o b, <<>>)
    BY <1>1, <1>4, ExtendState, ZenonT(60)
  <2> QED
    BY <2>1, <2>3, <2>4, <2>5 DEF MayLose, a, b
<1> QED
  BY <1>6, <1>7

-----------------------------------------------------------------------------
(* What the handlers are made of *)

\* A connection that is asked for a result is open or has none.
LEMMA LinkKnown ==
  ASSUME IInv
  PROVE  /\ Link \in {"none", "listening", "connected", "broken"}
         /\ Link # "connected" => LinkError(Link) \in Results /\ LinkError(Link) # "ok"
<1>1. Link \in {"none", "listening", "connected", "broken"}
  BY DEF IInv, TypeOK, Instances, Link
<1>2. CASE Link = "none"
  BY <1>2 DEF LinkError, Results
<1>3. CASE Link = "broken"
  BY <1>3 DEF LinkError, Results
<1>4. CASE Link = "listening"
  BY <1>4 DEF LinkError, Results
<1> QED
  BY <1>1, <1>2, <1>3, <1>4

\* What is aborted completes, in either order, behind what has completed.
LEMMA AbortTidy ==
  ASSUME NEW q \in Seq(Completions), NEW w \in Seq(Msgs), NEW s \in Seq(Msgs),
         NEW o \in Seq(Msgs), NEW p \in Nat, NEW n \in Nat, NEW res \in Results,
         Tidy(q, w, s, o, p)
  PROVE  LET a == Completed("read", res, [k \in 1..n |-> 0])
             b == Completed("write", res, w)
         IN  /\ q \o a \o b \in Seq(Completions) /\ Tidy(q \o a \o b, <<>>, s, o, p)
             /\ q \o b \o a \in Seq(Completions) /\ Tidy(q \o b \o a, <<>>, s, o, p)
<1> DEFINE a == Completed("read", res, [k \in 1..n |-> 0])
           b == Completed("write", res, w)
<1>1. a \in Seq(Completions) /\ Posts(a) = {} /\ Writes(a) = {}
  BY CompletedReads
<1>2. Len(w) <= 1
  BY DEF Tidy, Single
<1>3. /\ b \in Seq(Completions) /\ Posts(b) = {}
      /\ \A k \in Writes(b) : w # <<>> /\ b[k].msg = w[1] /\ \A j \in Writes(b) : j = k
  BY <1>2, CompletedWrites
<1> HIDE DEF a, b
<1>4. <<>> \in Seq(Msgs)
  BY EmptySeq
<1>5. q \o a \in Seq(Completions) /\ Tidy(q \o a, w, s, o, p)
  BY <1>1, ExtendTidy
<1>6. q \o a \o b \in Seq(Completions) /\ Tidy(q \o a \o b, <<>>, s, o, p)
  BY <1>3, <1>4, <1>5, ExtendTidy
<1>7. q \o b \in Seq(Completions) /\ Tidy(q \o b, <<>>, s, o, p)
  BY <1>3, <1>4, ExtendTidy
<1>8. q \o b \o a \in Seq(Completions) /\ Tidy(q \o b \o a, <<>>, s, o, p)
  BY <1>1, <1>4, <1>7, ExtendTidy
<1> QED
  BY <1>6, <1>8 DEF a, b

\* close_pipe() leaves no instance open and nothing pending.
LEMMA ClosePipeOK ==
  ASSUME IInv, NEW q \in Seq(Completions), Tidy(q, writing, write_queue_, submitted, posted),
         ClosePipe(q)
  PROVE  /\ is_connected_' = FALSE /\ pipe_' = 0 /\ nxt' = nxt
         /\ inst' \in [Pipes -> {"unused", "listening", "connected", "broken", "closed"}]
         /\ \A i \in Pipes : i > nxt => inst'[i] = "unused"
         /\ \A i \in Pipes : i <= nxt => inst'[i] = "closed"
         /\ connecting' \subseteq Pipes /\ signalled' \subseteq Pipes
         /\ reads' \in Nat /\ writing' \in Seq(Msgs) /\ ready' \in Seq(Completions)
         /\ Tidy(ready', writing', write_queue_, submitted, posted)
<1>1. CASE pipe_ = 0
  <2>1. /\ is_connected_' = FALSE /\ pipe_' = 0 /\ nxt' = nxt /\ ready' = q
        /\ inst' = inst /\ connecting' = connecting /\ signalled' = signalled
        /\ reads' = reads /\ writing' = writing
    BY <1>1 DEF ClosePipe
  <2>2. \A i \in Pipes : i # 0
    BY DEF Pipes
  <2> QED
    BY <1>1, <2>1, <2>2 DEF IInv, TypeOK, Instances
<1>2. CASE pipe_ # 0
  <2>1. /\ is_connected_' = FALSE /\ pipe_' = 0 /\ nxt' = nxt
        /\ inst' = [inst EXCEPT ![pipe_] = "closed"]
        /\ connecting' = connecting \ {pipe_}
        /\ signalled' = signalled \cup (connecting \cap {pipe_})
        /\ reads' = 0 /\ writing' = <<>>
        /\ ready' = q \o Aborted("aborted") \o AbortedWrites("aborted")
    BY <1>2 DEF ClosePipe
  <2>2. /\ inst' \in [Pipes -> {"unused", "listening", "connected", "broken", "closed"}]
        /\ \A i \in Pipes : i > nxt => inst'[i] = "unused"
        /\ \A i \in Pipes : i <= nxt => inst'[i] = "closed"
    <3>1. pipe_ \in Pipes /\ nxt \in Nat /\ pipe_ \in Nat /\ pipe_ <= nxt
      BY <1>2 DEF IInv, TypeOK, Instances, Pipes
    <3>2. \A i \in Pipes : inst'[i] = IF i = pipe_ THEN "closed" ELSE inst[i]
      BY <2>1 DEF IInv, TypeOK
    <3>3. \A i \in Pipes : i > nxt => i # pipe_
      BY <3>1 DEF Pipes
    <3> QED
      BY <2>1, <3>1, <3>2, <3>3 DEF IInv, TypeOK, Instances
  <2>3. connecting' \subseteq Pipes /\ signalled' \subseteq Pipes
    BY <2>1 DEF IInv, TypeOK
  <2>4. /\ ready' \in Seq(Completions)
        /\ Tidy(ready', <<>>, write_queue_, submitted, posted)
    <3>1. /\ writing \in Seq(Msgs) /\ write_queue_ \in Seq(Msgs) /\ submitted \in Seq(Msgs)
          /\ reads \in Nat /\ posted \in Nat /\ "aborted" \in Results
      BY DEF IInv, TypeOK, Results
    <3> QED
      BY <2>1, <3>1, AbortTidy DEF Aborted, AbortedWrites
  <2> QED
    BY <2>1, <2>2, <2>3, <2>4, EmptySeq
<1> QED
  BY <1>1, <1>2

\* start_read() adds a read, or its failure.
LEMMA StartReadOK ==
  ASSUME IInv, NEW q \in Seq(Completions), Tidy(q, writing, write_queue_, submitted, posted),
         NEW c \in BOOLEAN, StartRead(c, q)
  PROVE  /\ reads' \in Nat /\ ready' \in Seq(Completions)
         /\ Tidy(ready', writing, write_queue_, submitted, posted)
<1>1. reads \in Nat
  BY DEF IInv, TypeOK
<1>2. CASE Link = "connected" \/ is_stopped_ \/ ~c
  BY <1>1, <1>2 DEF StartRead
<1>3. CASE ~(Link = "connected" \/ is_stopped_ \/ ~c)
  <2>1. PICK res \in Results : res = LinkError(Link)
    BY <1>3, LinkKnown
  <2>2. reads' = reads /\ ready' = Append(q, Read(res))
    BY <1>3, <2>1 DEF StartRead
  <2>3. PICK c1 \in Completions : c1 = Read(res) /\ c1.op = "read"
    <3>1. Read(res) \in Completions /\ Read(res).op = "read"
      BY DEF Read, Completions
    <3> QED
      BY <3>1, Zenon
  <2>6. ready' \in Seq(Completions) /\ Tidy(ready', writing, write_queue_, submitted, posted)
    <3>1. writing \in Seq(Msgs) /\ write_queue_ \in Seq(Msgs) /\ submitted \in Seq(Msgs) /\ posted \in Nat
      BY DEF IInv, TypeOK
    <3> QED
      BY <2>2, <2>3, <3>1, AppendTidy
  <2> QED
    BY <1>1, <2>2, <2>6
<1> QED
  BY <1>2, <1>3

\* do_write() with no write open: the front of s is open, or has failed at once.
LEMMA DoWriteOK ==
  ASSUME IInv, NEW q \in Seq(Completions), NEW s \in Seq(Msgs),
         Tidy(q, <<>>, s, submitted, posted), writing = <<>>, Writes(q) = {},
         s # <<>> => s[1] = Len(submitted) + 1,
         DoWrite(s, q)
  PROVE  /\ writing' \in Seq(Msgs) /\ submitted' \in Seq(Msgs) /\ ready' \in Seq(Completions)
         /\ Tidy(ready', writing', s, submitted', posted)
         /\ \/ submitted' = submitted /\ State(ready', writing') = "none"
            \/ /\ ~is_stopped_ /\ s # <<>> /\ submitted' = Append(submitted, s[1])
               /\ State(ready', writing') \in {"open", "lost"}
<1>1. submitted \in Seq(Msgs) /\ writing \in Seq(Msgs) /\ posted \in Nat
  BY DEF IInv, TypeOK
<1>2. CASE is_stopped_ \/ ~is_connected_ \/ s = <<>>
  <2>1. writing' = writing /\ submitted' = submitted /\ ready' = q
    BY <1>2 DEF DoWrite
  <2>2. State(ready', writing') = "none"
    BY <2>1 DEF State
  <2> QED
    BY <1>1, <2>1, <2>2
<1>3. CASE ~(is_stopped_ \/ ~is_connected_ \/ s = <<>>)
  <2>1. s[1] \in Msgs /\ Head(s) = s[1]
    BY <1>3, MessagesAreNumbers
  <2>2. submitted' = Append(submitted, s[1]) /\ submitted' \in Seq(Msgs)
    <3>1. submitted' = Append(submitted, Head(s))
      BY <1>3, Zenon DEF DoWrite
    <3> QED
      BY <1>1, <2>1, <3>1, AppendProperties
  <2>3. Tidy(q, <<s[1]>>, s, submitted', posted)
    BY <1>1, <1>3, <2>2, SubmitTidy
  <2>4. <<s[1]>> \in Seq(Msgs) /\ <<s[1]>> # <<>> /\ <<s[1]>>[1] = s[1]
    BY <2>1
  <2>5. CASE Link = "connected"
    <3>1. writing' = <<s[1]>> /\ ready' = q
      BY <1>3, <2>1, <2>5 DEF DoWrite
    <3>2. State(ready', writing') = "open"
      BY <2>4, <3>1 DEF State
    <3> QED
      BY <1>3, <2>2, <2>3, <2>4, <3>1, <3>2
  <2>6. CASE Link # "connected"
    <3>1. PICK res \in Results : res = LinkError(Link) /\ res # "ok"
      BY <2>6, LinkKnown
    <3>2. writing' = <<>> /\ ready' = Append(q, Wrote(s[1], res))
      BY <1>3, <2>1, <2>6, <3>1 DEF DoWrite
    <3>3. PICK c \in Completions : c = Wrote(s[1], res) /\ c.op = "write" /\ c.msg = s[1] /\ c.res = res
      <4>1. /\ Wrote(s[1], res) \in Completions /\ Wrote(s[1], res).op = "write"
            /\ Wrote(s[1], res).msg = s[1] /\ Wrote(s[1], res).res = res
        BY <2>1 DEF Wrote, Completions
      <4> QED
        BY <4>1, Zenon
    <3>4. PICK o \in Seq(Msgs), p \in Nat, w \in Seq(Msgs), v \in Seq(Msgs) :
            o = submitted' /\ p = posted /\ w = <<s[1]>> /\ v = <<>>
      BY <1>1, <2>2, <2>4, EmptySeq, Zenon
    <3>5. Append(q, c) \in Seq(Completions) /\ Tidy(Append(q, c), v, s, o, p)
      BY <2>3, <2>4, <3>3, <3>4, AppendTidy
    <3>6. State(Append(q, c), v) = "lost"
      BY <3>1, <3>3, <3>4, AppendState
    <3> QED
      BY <1>3, <2>2, <3>2, <3>3, <3>4, <3>5, <3>6
  <2> QED
    BY <2>5, <2>6
<1> QED
  BY <1>2, <1>3

\* The values of the state, and what is left when a handler takes a completion.
LEMMA Values ==
  ASSUME IInv
  PROVE  \E q \in Seq(Completions), w \in Seq(Msgs), s \in Seq(Msgs), o \in Seq(Msgs), p \in Nat :
           /\ q = ready /\ w = writing /\ s = write_queue_ /\ o = submitted /\ p = posted
           /\ Tidy(q, w, s, o, p)
<1> QED
  BY DEF IInv, TypeOK

LEMMA Taken ==
  ASSUME IInv, ready # <<>>, Head(ready).op # "post"
  PROVE  \E q \in Seq(Completions) :
           q = Tail(ready) /\ Tidy(q, writing, write_queue_, submitted, posted)
<1>1. PICK r \in Seq(Completions), w \in Seq(Msgs), s \in Seq(Msgs), o \in Seq(Msgs), p \in Nat :
        /\ r = ready /\ w = writing /\ s = write_queue_ /\ o = submitted /\ p = posted
        /\ Tidy(r, w, s, o, p)
  BY Values
<1>2. r # <<>> /\ r[1].op # "post"
  BY <1>1
<1>3. Tail(r) \in Seq(Completions) /\ Tidy(Tail(r), w, s, o, p)
  BY <1>1, <1>2, TailTidy
<1> QED
  BY <1>1, <1>3

\* handle_error() takes the completion and may close the pipe.
LEMMA HandleErrorOK ==
  ASSUME IInv, ready # <<>>, Head(ready).op # "post", io = "idle", NEW res, HandleError(res),
         UNCHANGED <<main, is_stopped_, write_queue_, timer, hist>>
  PROVE  IInv'
<1>1. PICK q \in Seq(Completions) : q = Tail(ready) /\ Tidy(q, writing, write_queue_, submitted, posted)
  BY Taken
<1>2. CASE res \in DisconnectErrors
  <2>1. ClosePipe(q) /\ io' = "closed"
    BY <1>1, <1>2 DEF HandleError
  <2>2. /\ is_connected_' = FALSE /\ pipe_' = 0 /\ nxt' = nxt
        /\ inst' \in [Pipes -> {"unused", "listening", "connected", "broken", "closed"}]
        /\ \A i \in Pipes : i > nxt => inst'[i] = "unused"
        /\ \A i \in Pipes : i <= nxt => inst'[i] = "closed"
        /\ connecting' \subseteq Pipes /\ signalled' \subseteq Pipes
        /\ reads' \in Nat /\ writing' \in Seq(Msgs) /\ ready' \in Seq(Completions)
        /\ Tidy(ready', writing', write_queue_, submitted, posted)
    BY <1>1, <2>1, ClosePipeOK
  <2> QED
    BY <2>1, <2>2 DEF IInv, TypeOK, Instances, Stopping, hist
<1>3. CASE res \notin DisconnectErrors
  <2>1. /\ ready' = q /\ io' = io /\ is_connected_' = is_connected_ /\ pipe_' = pipe_ /\ nxt' = nxt
        /\ inst' = inst /\ connecting' = connecting /\ signalled' = signalled
        /\ reads' = reads /\ writing' = writing
    BY <1>1, <1>3 DEF HandleError, conn
  <2> QED
    BY <1>1, <2>1 DEF IInv, TypeOK, Instances, Stopping, hist
<1> QED
  BY <1>2, <1>3

-----------------------------------------------------------------------------
(* Every action keeps the invariant. *)

\* create_pipe() and wait_for_connection() of a handler, up to the next read of
\* is_stopped_.
LEMMA CreateSteps ==
  ASSUME IInv,
         CreatePipe \/ CreatePipeFails \/ CreateEventFails \/ ConnectPending
           \/ ConnectImmediate \/ ConnectFails \/ CheckStopped \/ StartDone
  PROVE  IInv'
<1> USE DEF conn, ops, hist
<1>1. PICK q \in Seq(Completions) : q = ready /\ Tidy(q, writing, write_queue_, submitted, posted)
  BY DEF IInv, TypeOK
<1>2. CASE CreatePipe
  <2>1. nxt + 1 \in Pipes /\ nxt \in Nat /\ pipe_ = 0
    BY <1>2, ServerAssumption DEF CreatePipe, IInv, TypeOK, Instances, Pipes
  <2>2. /\ nxt' = nxt + 1 /\ pipe_' = nxt + 1 /\ inst' = [inst EXCEPT ![nxt + 1] = "listening"]
        /\ io' = "listen" /\ main' = main /\ is_stopped_' = is_stopped_ /\ timer' = timer
        /\ is_connected_' = is_connected_ /\ connecting' = connecting /\ signalled' = signalled
    BY <1>2 DEF CreatePipe
  <2>3. reads' = reads /\ UNCHANGED <<writing, ready, write_queue_, posted, submitted>>
    BY <1>2 DEF CreatePipe
  <2>4. \A i \in Pipes : inst'[i] = IF i = nxt + 1 THEN "listening" ELSE inst[i]
    BY <2>1, <2>2 DEF IInv, TypeOK
  <2>5. Instances'
    <3>1. \A i \in Pipes : i > nxt' => inst'[i] = "unused"
      BY <2>1, <2>2, <2>4 DEF IInv, Instances, Pipes
    <3>2. \A i \in Pipes : i <= nxt' /\ i # pipe_' => inst'[i] = "closed"
      <4>1. \A i \in Pipes : i <= nxt' /\ i # pipe_' => i <= nxt /\ i # pipe_
        BY <2>1, <2>2 DEF Pipes
      <4> QED
        BY <2>1, <2>2, <2>4, <4>1 DEF IInv, Instances
    <3>3. pipe_' <= nxt' /\ inst'[pipe_'] = "listening"
      BY <2>1, <2>2, <2>4
    <3> QED
      BY <3>1, <3>2, <3>3, <2>2 DEF Instances
  <2> QED
    BY <2>1, <2>2, <2>3, <2>5 DEF IInv, TypeOK, Stopping
<1>3. CASE CreatePipeFails
  BY <1>3 DEF CreatePipeFails, FailsStart, IInv, TypeOK, Instances, Stopping
<1>4. CASE CreateEventFails
  <2>1. CASE main = "starting" /\ nxt = 1
    <3>1. ClosePipe(q) /\ is_stopped_' = TRUE /\ main' = "stopped" /\ io' = "idle"
      BY <1>1, <1>4, <2>1 DEF CreateEventFails
    <3> QED
      BY <1>1, <1>4, <3>1, ClosePipeOK DEF CreateEventFails, IInv, TypeOK, Instances, Stopping
  <2>2. CASE ~(main = "starting" /\ nxt = 1)
    BY <1>4, <2>2 DEF CreateEventFails, IInv, TypeOK, Instances, Stopping
  <2> QED
    BY <2>1, <2>2
<1>5. CASE ConnectPending
  <2>1. pipe_ \in Pipes
    BY <1>5 DEF ConnectPending, Link, IInv, TypeOK
  <2> QED
    BY <1>5, <2>1 DEF ConnectPending, IInv, TypeOK, Instances, Stopping
<1>6. CASE ConnectImmediate
  <2>1. StartRead(TRUE, q)
    BY <1>1, <1>6 DEF ConnectImmediate
  <2>2. reads' \in Nat /\ ready' \in Seq(Completions) /\ Tidy(ready', writing, write_queue_, submitted, posted)
    BY <1>1, <2>1, StartReadOK
  <2> QED
    BY <1>6, <2>2 DEF ConnectImmediate, IInv, TypeOK, Instances, Stopping
<1>7. CASE ConnectFails
  <2>1. ClosePipe(q)
    BY <1>1, <1>7 DEF ConnectFails
  <2> QED
    BY <1>1, <1>7, <2>1, ClosePipeOK DEF ConnectFails, IInv, TypeOK, Instances, Stopping
<1>8. CASE CheckStopped
  BY <1>8 DEF CheckStopped, IInv, TypeOK, Instances, Stopping
<1>9. CASE StartDone
  BY <1>9 DEF StartDone, IInv, TypeOK, Instances, Stopping
<1> QED
  BY <1>2, <1>3, <1>4, <1>5, <1>6, <1>7, <1>8, <1>9

\* The completions of reads, writes, connects and write().
LEMMA ReadHandlerStep ==
  ASSUME IInv, ReadHandler
  PROVE  IInv'
<1>1. ready # <<>> /\ io = "idle" /\ Head(ready).op # "post"
  BY DEF ReadHandler, Next_, CanRun
<1>2. PICK q \in Seq(Completions) : q = Tail(ready) /\ Tidy(q, writing, write_queue_, submitted, posted)
  BY <1>1, Taken
<1>3. CASE Head(ready).res = "ok"
  <2>1. PICK c \in BOOLEAN : c = is_connected_
    BY DEF IInv, TypeOK
  <2>2. StartRead(c, q)
    BY <1>2, <1>3, <2>1 DEF ReadHandler
  <2>3. reads' \in Nat /\ ready' \in Seq(Completions) /\ Tidy(ready', writing, write_queue_, submitted, posted)
    BY <1>2, <2>1, <2>2, StartReadOK
  <2> QED
    BY <1>3, <2>3 DEF ReadHandler, conn, hist, IInv, TypeOK, Instances, Stopping
<1>4. CASE Head(ready).res # "ok"
  <2>1. PICK res : res = Head(ready).res
    OBVIOUS
  <2>2. HandleError(res)
    BY <1>4, <2>1 DEF ReadHandler
  <2> QED
    BY <1>1, <2>2, HandleErrorOK DEF ReadHandler
<1> QED
  BY <1>3, <1>4

LEMMA WriteTaken ==
  ASSUME IInv, WriteHandler, Head(ready).res = "ok"
  PROVE  \E q \in Seq(Completions), t \in Seq(Msgs) :
           /\ write_queue_' = t /\ DoWrite(t, q)
           /\ writing = <<>> /\ Writes(q) = {} /\ Tidy(q, <<>>, t, submitted, posted)
           /\ t # <<>> => t[1] = Len(submitted) + 1
<1>1. ready # <<>> /\ io = "idle" /\ Head(ready).op = "write"
  BY DEF WriteHandler, Next_, CanRun
<1>2. PICK r \in Seq(Completions), w \in Seq(Msgs), s \in Seq(Msgs), o \in Seq(Msgs), p \in Nat :
        /\ r = ready /\ w = writing /\ s = write_queue_ /\ o = submitted /\ p = posted
        /\ Tidy(r, w, s, o, p)
  BY Values
<1>3. r # <<>> /\ r[1].op = "write" /\ Tidy(r, w, s, o, p)
  BY <1>1, <1>2
<1>4. /\ w = <<>> /\ s # <<>> /\ Tail(s) \in Seq(Msgs) /\ Writes(Tail(r)) = {}
      /\ Tidy(Tail(r), w, Tail(s), o, p)
      /\ Tail(s) # <<>> => Tail(s)[1] = Len(o) + 1
  BY <1>3, PopTidy
<1>5. PICK q \in Seq(Completions), t \in Seq(Msgs) : q = Tail(r) /\ t = Tail(s)
  BY <1>3, <1>4, HeadTailProperties
<1>6. write_queue_' = t /\ DoWrite(t, q)
  BY <1>2, <1>5 DEF WriteHandler
<1> QED
  BY <1>2, <1>4, <1>5, <1>6

LEMMA WriteHandlerStep ==
  ASSUME IInv, WriteHandler
  PROVE  IInv'
<1>1. ready # <<>> /\ io = "idle" /\ Head(ready).op = "write"
  BY DEF WriteHandler, Next_, CanRun
<1>2. CASE Head(ready).res = "ok"
  <2>1. PICK q \in Seq(Completions), t \in Seq(Msgs) :
          /\ write_queue_' = t /\ DoWrite(t, q)
          /\ writing = <<>> /\ Writes(q) = {} /\ Tidy(q, <<>>, t, submitted, posted)
          /\ t # <<>> => t[1] = Len(submitted) + 1
    BY <1>2, WriteTaken
  <2>2. /\ writing' \in Seq(Msgs) /\ submitted' \in Seq(Msgs) /\ ready' \in Seq(Completions)
        /\ Tidy(ready', writing', t, submitted', posted)
    BY <2>1, DoWriteOK
  <2> QED
    BY <1>2, <2>1, <2>2 DEF WriteHandler, conn, IInv, TypeOK, Instances, Stopping
<1>3. CASE Head(ready).res # "ok"
  <2>1. PICK res : res = Head(ready).res
    OBVIOUS
  <2>2. HandleError(res)
    BY <1>3, <2>1 DEF WriteHandler
  <2>3. UNCHANGED <<main, is_stopped_, write_queue_, timer, hist>>
    BY <1>3 DEF WriteHandler, hist
  <2> QED
    BY <1>1, <2>2, <2>3, HandleErrorOK
<1> QED
  BY <1>2, <1>3

LEMMA PostTaken ==
  ASSUME IInv, PostHandler
  PROVE  \E q \in Seq(Completions), t \in Seq(Msgs) :
           /\ q = Tail(ready) /\ write_queue_' = t /\ t # <<>>
           /\ Tidy(q, writing, t, submitted, posted)
           /\ write_queue_ = <<>> =>
                /\ writing = <<>> /\ Writes(ready) = {} /\ Writes(q) = {} /\ DoWrite(t, q)
                /\ t[1] = Len(submitted) + 1 /\ t[1] <= posted
<1>1. ready # <<>> /\ io = "idle" /\ Head(ready).op = "post"
  BY DEF PostHandler, Next_, CanRun
<1>2. PICK r \in Seq(Completions), w \in Seq(Msgs), s \in Seq(Msgs), o \in Seq(Msgs), p \in Nat :
        /\ r = ready /\ w = writing /\ s = write_queue_ /\ o = submitted /\ p = posted
        /\ Tidy(r, w, s, o, p)
  BY Values
<1>3. r # <<>> /\ r[1].op = "post"
  BY <1>1, <1>2
<1>4. /\ r[1].msg \in Msgs /\ r[1].msg <= p
      /\ Tidy(Tail(r), w, Append(s, r[1].msg), o, p)
      /\ s = <<>> => r[1].msg = Len(o) + 1
  BY <1>2, <1>3, QueueTidy
<1>5. PICK m \in Msgs : m = r[1].msg
  BY <1>4
<1>6. PICK q \in Seq(Completions), t \in Seq(Msgs) : q = Tail(r) /\ t = Append(s, m)
  BY <1>2, <1>3, HeadTailProperties, AppendedMessage
<1>7. write_queue_' = t
  BY <1>2, <1>5, <1>6 DEF PostHandler
<1>8. t # <<>> /\ (s = <<>> => t[1] = m)
  BY <1>6, AppendedMessage, AppendProperties
<1>9. Tidy(q, w, t, o, p)
  BY <1>4, <1>5, <1>6
<1>10. ASSUME s = <<>>
       PROVE  w = <<>> /\ Writes(r) = {} /\ Writes(q) = {} /\ DoWrite(t, q)
  <2>1. w = <<>> /\ Writes(r) = {}
    BY <1>2, <1>10 DEF Tidy, Single
  <2>2. \A k \in DOMAIN Tail(r) : k + 1 \in DOMAIN r /\ Tail(r)[k] = r[k + 1]
    BY <1>2, <1>3, HeadTailProperties, LenProperties
  <2>3. Writes(q) = {}
    BY <1>6, <2>1, <2>2 DEF Writes
  <2>4. DoWrite(t, q)
    BY <1>2, <1>6, <1>7, <1>10 DEF PostHandler
  <2> QED
    BY <2>1, <2>3, <2>4
<1> QED
  BY <1>2, <1>4, <1>5, <1>6, <1>7, <1>8, <1>9, <1>10

LEMMA PostHandlerStep ==
  ASSUME IInv, PostHandler
  PROVE  IInv'
<1>1. PICK q \in Seq(Completions), t \in Seq(Msgs) :
        /\ q = Tail(ready) /\ write_queue_' = t
        /\ Tidy(q, writing, t, submitted, posted)
        /\ write_queue_ = <<>> =>
             /\ writing = <<>> /\ Writes(q) = {} /\ DoWrite(t, q)
             /\ t[1] = Len(submitted) + 1
  BY PostTaken
<1>2. CASE write_queue_ = <<>>
  <2>1. /\ writing' \in Seq(Msgs) /\ submitted' \in Seq(Msgs) /\ ready' \in Seq(Completions)
        /\ Tidy(ready', writing', t, submitted', posted)
    BY <1>1, <1>2, DoWriteOK
  <2> QED
    BY <1>1, <2>1, ZenonT(60) DEF PostHandler, conn, IInv, TypeOK, Instances, Stopping
<1>3. CASE write_queue_ # <<>>
  <2>1. ready' = q /\ writing' = writing /\ submitted' = submitted
    BY <1>1, <1>3 DEF PostHandler
  <2> QED
    BY <1>1, <2>1, ZenonT(60) DEF PostHandler, conn, IInv, TypeOK, Instances, Stopping
<1> QED
  BY <1>2, <1>3

LEMMA ConnectHandlerStep ==
  ASSUME IInv, ConnectHandler
  PROVE  IInv'
<1>1. ready # <<>> /\ io = "idle" /\ Head(ready).op # "post"
  BY DEF ConnectHandler, Next_, CanRun
<1>2. PICK q \in Seq(Completions) : q = Tail(ready) /\ Tidy(q, writing, write_queue_, submitted, posted)
  BY <1>1, Taken
<1>3. CASE ClosePipe(Tail(ready)) /\ io' = "closed"
  <2>1. ClosePipe(q)
    BY <1>2, <1>3
  <2> QED
    BY <1>2, <1>3, <2>1, ClosePipeOK DEF ConnectHandler, hist, IInv, TypeOK, Instances, Stopping
<1>4. CASE /\ is_connected_' = TRUE
           /\ StartRead(TRUE, Tail(ready))
           /\ UNCHANGED <<io, pipe_, nxt, inst, connecting, signalled, writing>>
  <2>1. StartRead(TRUE, q)
    BY <1>2, <1>4
  <2>2. reads' \in Nat /\ ready' \in Seq(Completions) /\ Tidy(ready', writing, write_queue_, submitted, posted)
    BY <1>2, <2>1, StartReadOK
  <2> QED
    BY <1>4, <2>2 DEF ConnectHandler, hist, IInv, TypeOK, Instances, Stopping
<1> QED
  BY <1>3, <1>4 DEF ConnectHandler

\* The timer, and stop() on the main thread.
LEMMA TimerAndStopSteps ==
  ASSUME IInv, TimerFindsClientGone \/ TimerRearms \/ StopBegins \/ StopCloses
  PROVE  IInv'
<1> USE DEF conn, ops, hist
<1>1. PICK q \in Seq(Completions) : q = ready /\ Tidy(q, writing, write_queue_, submitted, posted)
  BY DEF IInv, TypeOK
<1>2. CASE TimerFindsClientGone
  <2>1. ClosePipe(q)
    BY <1>1, <1>2 DEF TimerFindsClientGone
  <2> QED
    BY <1>1, <1>2, <2>1, ClosePipeOK DEF TimerFindsClientGone, CanRun, IInv, TypeOK, Instances, Stopping
<1>3. CASE TimerRearms
  BY <1>3 DEF TimerRearms, IInv, TypeOK, Instances, Stopping
<1>4. CASE StopBegins
  BY <1>4 DEF StopBegins, IInv, TypeOK, Instances, Stopping
<1>5. CASE StopCloses
  <2>1. ClosePipe(q)
    BY <1>1, <1>5 DEF StopCloses
  <2> QED
    BY <1>1, <1>5, <2>1, ClosePipeOK DEF StopCloses, IInv, TypeOK, Instances, Stopping
<1> QED
  BY <1>2, <1>3, <1>4, <1>5

\* The client, the kernel and the callers of write().
LEMMA OutsideSteps ==
  ASSUME IInv,
         Write \/ ClientConnects \/ ClientLeaves \/ ReadCompletes \/ WriteCompletes \/ EventDelivered
  PROVE  IInv'
<1> USE DEF conn, hist
<1>1. PICK q \in Seq(Completions), w \in Seq(Msgs), s \in Seq(Msgs), o \in Seq(Msgs), p \in Nat :
        /\ q = ready /\ w = writing /\ s = write_queue_ /\ o = submitted /\ p = posted
        /\ Tidy(q, w, s, o, p)
  BY Values
<1>2. CASE Write
  <2>1. p + 1 \in Msgs
    BY <1>1, <1>2, ServerAssumption DEF Write, IInv, TypeOK, Msgs
  <2>2. Append(q, Posted(p + 1)) \in Seq(Completions) /\ Tidy(Append(q, Posted(p + 1)), w, s, o, p + 1)
    BY <1>1, <2>1, PostTidy
  <2> QED
    BY <1>1, <1>2, <2>1, <2>2 DEF Write, IInv, TypeOK, Instances, Stopping, Msgs
<1>3. CASE ClientConnects
  <2>1. pipe_ \in Pipes /\ pipe_ # 0 /\ pipe_ <= nxt
    BY <1>3 DEF ClientConnects, Link, IInv, TypeOK, Instances
  <2>2. \A i \in Pipes : inst'[i] = IF i = pipe_ THEN "connected" ELSE inst[i]
    BY <1>3, <2>1 DEF ClientConnects, IInv, TypeOK
  <2>3. Instances'
    BY <1>3, <2>1, <2>2 DEF ClientConnects, IInv, Instances, TypeOK, Pipes
  <2> QED
    BY <1>3, <2>1, <2>3 DEF ClientConnects, ops, IInv, TypeOK, Stopping
<1>4. CASE ClientLeaves
  <2>1. pipe_ \in Pipes /\ pipe_ # 0 /\ pipe_ <= nxt
    BY <1>4 DEF ClientLeaves, Link, IInv, TypeOK, Instances
  <2>2. \A i \in Pipes : inst'[i] = IF i = pipe_ THEN "broken" ELSE inst[i]
    BY <1>4, <2>1 DEF ClientLeaves, IInv, TypeOK
  <2>3. Instances'
    BY <1>4, <2>1, <2>2 DEF ClientLeaves, IInv, Instances, TypeOK, Pipes
  <2>4. ready' \in Seq(Completions) /\ Tidy(ready', <<>>, s, o, p)
    <3>1. PICK n \in Nat : n = reads
      BY DEF IInv, TypeOK
    <3>2. "broken" \in Results
      BY DEF Results
    <3>3. \/ ready' = q \o Aborted("broken") \o AbortedWrites("broken")
          \/ ready' = q \o AbortedWrites("broken") \o Aborted("broken")
      BY <1>1, <1>4 DEF ClientLeaves
    <3> DEFINE a == Completed("read", "broken", [k \in 1..n |-> 0])
               b == Completed("write", "broken", w)
    <3>4. /\ q \o a \o b \in Seq(Completions) /\ Tidy(q \o a \o b, <<>>, s, o, p)
          /\ q \o b \o a \in Seq(Completions) /\ Tidy(q \o b \o a, <<>>, s, o, p)
      BY <1>1, <3>2, AbortTidy
    <3>5. ready' = q \o a \o b \/ ready' = q \o b \o a
      BY <1>1, <3>1, <3>3 DEF Aborted, AbortedWrites
    <3> HIDE DEF a, b
    <3> QED
      BY <3>4, <3>5
  <2> QED
    BY <1>1, <1>4, <2>1, <2>3, <2>4, EmptySeq DEF ClientLeaves, IInv, TypeOK, Stopping
<1>5. CASE ReadCompletes
  <2>1. PICK c \in Completions : ready' = Append(q, c) /\ c.op = "read"
    <3>1. \A res \in Results : Read(res) \in Completions /\ Read(res).op = "read"
      BY DEF Read, Completions
    <3>2. "ok" \in Results /\ "other" \in Results
      BY DEF Results
    <3> QED
      BY <1>1, <1>5, <3>1, <3>2, Zenon DEF ReadCompletes
  <2>2. Append(q, c) \in Seq(Completions) /\ Tidy(Append(q, c), w, s, o, p)
    BY <1>1, <2>1, AppendTidy
  <2> QED
    BY <1>1, <1>5, <2>1, <2>2 DEF ReadCompletes, IInv, TypeOK, Instances, Stopping
<1>6. CASE WriteCompletes
  <2>1. w # <<>> /\ w[1] \in Msgs
    BY <1>1, <1>6, MessagesAreNumbers DEF WriteCompletes
  <2>2. Tail(w) = <<>>
    BY <1>1, <2>1, OneLeft DEF Tidy, Single
  <2>3. PICK c \in Completions : c = Wrote(w[1], "ok") /\ c.op = "write" /\ c.msg = w[1]
    <3>1. Wrote(w[1], "ok") \in Completions /\ Wrote(w[1], "ok").op = "write" /\ Wrote(w[1], "ok").msg = w[1]
      BY <2>1 DEF Wrote, Completions, Results
    <3> QED
      BY <3>1, Zenon
  <2>4. PICK v \in Seq(Msgs) : v = <<>>
    BY EmptySeq, Zenon
  <2>5. Append(q, c) \in Seq(Completions) /\ Tidy(Append(q, c), v, s, o, p)
    BY <1>1, <2>1, <2>3, <2>4, AppendTidy
  <2>6. ready' = Append(q, c) /\ writing' = v
    BY <1>1, <1>6, <2>1, <2>2, <2>3, <2>4 DEF WriteCompletes
  <2> QED
    BY <1>1, <1>6, <2>5, <2>6, ZenonT(60) DEF WriteCompletes, IInv, TypeOK, Instances, Stopping
<1>7. CASE EventDelivered
  <2>1. PICK i \in signalled :
          /\ signalled' = signalled \ {i}
          /\ ready' = Append(ready, Connected(i))
          /\ UNCHANGED <<main, io, is_connected_, is_stopped_, pipe_, nxt, inst,
                         connecting, reads, writing, write_queue_, timer, hist>>
    BY <1>7 DEF EventDelivered
  <2>2. PICK c \in Completions : c = Connected(i) /\ c.op = "event"
    <3>1. Connected(i) \in Completions /\ Connected(i).op = "event"
      BY DEF Connected, Completions, IInv, TypeOK
    <3> QED
      BY <3>1, Zenon
  <2>3. Append(q, c) \in Seq(Completions) /\ Tidy(Append(q, c), w, s, o, p)
    BY <1>1, <2>2, AppendTidy
  <2> QED
    BY <1>1, <2>1, <2>2, <2>3 DEF IInv, TypeOK, Instances, Stopping
<1> QED
  BY <1>2, <1>3, <1>4, <1>5, <1>6, <1>7

\* The bounds of the model and the failing calls are arbitrary from here on.
LEMMA Invariance == Spec => []IInv
<1>1. Init => IInv
  <2> SUFFICES ASSUME Init PROVE IInv
    OBVIOUS
  <2>1. TypeOK
    <3>1. /\ 0 \in 0..MaxMsgs /\ {} \subseteq Pipes
          /\ <<>> \in Seq(Msgs) /\ <<>> \in Seq(Completions)
      BY ServerAssumption, EmptySeq
    <3>2. inst \in [Pipes -> {"unused", "listening", "connected", "broken", "closed"}]
      BY DEF Init
    <3> QED
      BY <3>1, <3>2 DEF Init, TypeOK
  <2>2. Instances /\ Stopping
    BY DEF Init, Instances, Stopping, Pipes
  <2>3. Tidy(ready, writing, write_queue_, submitted, posted)
    <3>1. Posts(<<>>) = {} /\ Writes(<<>>) = {}
      BY DEF Posts, Writes
    <3> QED
      BY <3>1 DEF Init, Tidy, Ordered, Numbered, LastQueued, Waiting, Single
  <2> QED
    BY <2>1, <2>2, <2>3 DEF IInv
<1>2. IInv /\ [Next]_vars => IInv'
  <2> SUFFICES ASSUME IInv, [Next]_vars PROVE IInv'
    OBVIOUS
  <2>1. CASE IoStep
    BY <2>1, CreateSteps, ReadHandlerStep, WriteHandlerStep, PostHandlerStep,
       ConnectHandlerStep, TimerAndStopSteps DEF IoStep
  <2>2. CASE TimerFindsClientGone \/ StopCloses
    BY <2>2, TimerAndStopSteps
  <2>3. CASE Kernel
    BY <2>3, OutsideSteps DEF Kernel
  <2>4. CASE Environment
    BY <2>4, OutsideSteps, TimerAndStopSteps DEF Environment
  <2>5. CASE UNCHANGED vars
    BY <2>5 DEF vars, conn, ops, hist, IInv, TypeOK, Instances, Stopping
  <2> QED
    BY <2>1, <2>2, <2>3, <2>4, <2>5 DEF Next
<1> QED
  BY <1>1, <1>2, PTL DEF Spec

\* Every queue, completion and flag keeps its type; in particular the kernel
\* is never asked for the error of a link that works.
THEOREM TypeCorrect == Spec => []TypeOK
<1>1. IInv => TypeOK
  BY DEF IInv
<1> QED
  BY <1>1, Invariance, PTL

\* However disconnects, restarts, posts and completions interleave, at most one
\* async_write is open, its buffer is the front of write_queue_, and the messages
\* submitted are the first that were posted, in the order of the write() calls,
\* none left out and none twice. (NamedPipeServer.cpp:88-93, :245-259)
THEOREM WritesInOrderAlways == Spec => []WritesInOrder
<1>1. IInv => WritesInOrder
  <2> SUFFICES ASSUME IInv PROVE WritesInOrder
    OBVIOUS
  <2>1. Ordered(ready, write_queue_, submitted, posted) /\ Single(ready, writing, write_queue_, submitted)
    BY DEF IInv, Tidy
  <2>2. SubmittedInOrder
    BY <2>1 DEF Ordered, Numbered, SubmittedInOrder
  <2>3. Written = Writes(ready)
    BY DEF Written, Writes
  <2>4. /\ writing # <<>> => Head(writing) = writing[1]
        /\ write_queue_ # <<>> => Head(write_queue_) = write_queue_[1]
    BY DEF IInv, TypeOK
  <2>5. SingleWriter
    BY <2>1, <2>3, <2>4 DEF SingleWriter, Single
  <2> QED
    BY <2>2, <2>5 DEF WritesInOrder
<1> QED
  BY <1>1, Invariance, PTL

\* Whatever path close_pipe() and create_pipe() are reached on, an instance is
\* closed before the next is created. (NamedPipeServer.cpp:104-240)
THEOREM OneInstanceAlways == Spec => []OneInstance
<1>1. IInv => OneInstance
  <2> SUFFICES ASSUME IInv, NEW i \in Pipes
               PROVE  inst[i] \in {"listening", "connected", "broken"} <=> i = pipe_
    BY DEF OneInstance
  <2>1. i \in Nat /\ nxt \in Nat /\ i # 0
    BY DEF IInv, TypeOK, Pipes
  <2>2. CASE i = pipe_
    BY <2>1, <2>2 DEF IInv, Instances
  <2>3. CASE i # pipe_
    <3>1. inst[i] = "unused" \/ inst[i] = "closed"
      BY <2>1, <2>3 DEF IInv, Instances
    <3> QED
      BY <2>3, <3>1
  <2> QED
    BY <2>2, <2>3
<1> QED
  BY <1>1, Invariance, PTL

\* stop() has returned and no handler is about to create an instance.
Ended(n, m) ==
  /\ main = "stopped" /\ is_stopped_ /\ io \in {"idle", "closed"}
  /\ nxt = n /\ Len(submitted) = m

LEMMA EndedStays ==
  ASSUME IInv, NEW n, NEW m, Ended(n, m), [Next]_vars
  PROVE  Ended(n, m)'
<1> USE DEF conn, ops, hist
<1>1. main = "stopped" /\ is_stopped_ /\ io \in {"idle", "closed"} /\ nxt = n /\ Len(submitted) = m
  BY DEF Ended
<1>2. CASE CreatePipe \/ CreatePipeFails \/ CreateEventFails \/ ConnectPending
             \/ ConnectImmediate \/ ConnectFails \/ StartDone \/ TimerFindsClientGone \/ StopBegins \/ StopCloses
  BY <1>1, <1>2 DEF CreatePipe, CreatePipeFails, CreateEventFails, ConnectPending, ConnectImmediate,
     ConnectFails, StartDone, TimerFindsClientGone, StopBegins, StopCloses
<1>3. CASE CheckStopped \/ TimerRearms \/ Write \/ ClientConnects \/ ClientLeaves \/ ReadCompletes
             \/ WriteCompletes \/ EventDelivered \/ UNCHANGED vars
  BY <1>1, <1>3 DEF CheckStopped, TimerRearms, Write, ClientConnects, ClientLeaves, ReadCompletes,
     WriteCompletes, EventDelivered, vars, Ended
<1>4. CASE ReadHandler
  BY <1>1, <1>4 DEF ReadHandler, StartRead, HandleError, ClosePipe, Ended
<1>5. CASE WriteHandler
  BY <1>1, <1>5 DEF WriteHandler, DoWrite, HandleError, ClosePipe, Ended
<1>6. CASE PostHandler
  BY <1>1, <1>6 DEF PostHandler, DoWrite, Ended
<1>7. CASE ConnectHandler
  BY <1>1, <1>7 DEF ConnectHandler, ClosePipe, Ended
<1> QED
  BY <1>2, <1>3, <1>4, <1>5, <1>6, <1>7 DEF Next, IoStep, Kernel, Environment

\* stop() is final: the handlers still queued and the clients still connected
\* create no instance and submit no message once stop() has returned and no
\* handler runs. (NamedPipeServer.cpp:71-84)
THEOREM StopIsFinalAlways == Spec => StopIsFinal
<1> SUFFICES ASSUME NEW n \in Pipes \cup {0}, NEW m \in Msgs \cup {0}
             PROVE  Spec => [](/\ main = "stopped" /\ io = "idle" /\ nxt = n /\ Len(submitted) = m
                               => [](nxt = n /\ Len(submitted) = m))
  BY DEF StopIsFinal
<1>1. IInv /\ main = "stopped" /\ io = "idle" /\ nxt = n /\ Len(submitted) = m => Ended(n, m)
  BY DEF IInv, Stopping, Ended
<1>2. IInv /\ Ended(n, m) /\ [Next]_vars => Ended(n, m)'
  BY EndedStays
<1>3. Ended(n, m) => nxt = n /\ Len(submitted) = m
  BY DEF Ended
<1> QED
  BY <1>1, <1>2, <1>3, Invariance, PTL DEF Spec

-----------------------------------------------------------------------------
(* PipeServer implements MessageChannel. *)

\* What MessageChannel knows of the last message of o.
Known(st, o) == IF st = "none" THEN {} ELSE {[msg |-> Len(o), is |-> st]}

Wire(q, w, s) ==
  {[msg |-> w[k], is |-> IF s # <<>> /\ Head(s) = w[k] THEN "open" ELSE "torn"] : k \in DOMAIN w}
    \cup {[msg |-> q[k].msg, is |-> IF s # <<>> /\ Head(s) = q[k].msg THEN Outcome(q[k]) ELSE "torn"]
            : k \in Writes(q)}

\* A write that is open is of the last message submitted, and its buffer is the
\* front of the queue.
LEMMA WireKnown ==
  ASSUME NEW q \in Seq(Completions), NEW w \in Seq(Msgs), NEW s \in Seq(Msgs), NEW o \in Seq(Msgs),
         Single(q, w, s, o)
  PROVE  Wire(q, w, s) = Known(State(q, w), o)
<1>1. s # <<>> => Head(s) = s[1]
  OBVIOUS
<1>2. CASE w # <<>>
  <2>1. DOMAIN w = {1}
    <3>1. Len(w) \in Nat /\ DOMAIN w = 1..Len(w) /\ Len(w) >= 1 /\ Len(w) <= 1
      BY <1>2, MessagesAreNumbers DEF Single
    <3> QED
      BY <3>1
  <2>2. Writes(q) = {} /\ s # <<>> /\ w[1] = s[1] /\ s[1] = Len(o)
    BY <1>2 DEF Single
  <2>3. Wire(q, w, s) = {[msg |-> Len(o), is |-> "open"]}
    BY <1>1, <2>1, <2>2 DEF Wire
  <2>4. State(q, w) = "open"
    BY <1>2 DEF State
  <2> QED
    BY <2>3, <2>4 DEF Known
<1>3. CASE w = <<>> /\ Writes(q) = {}
  <2>1. DOMAIN w = {}
    BY <1>3
  <2>2. Wire(q, w, s) = {}
    BY <1>3, <2>1 DEF Wire
  <2>3. State(q, w) = "none"
    BY <1>3 DEF State
  <2> QED
    BY <2>2, <2>3 DEF Known
<1>4. CASE w = <<>> /\ Writes(q) # {}
  <2>1. DOMAIN w = {}
    BY <1>4
  <2>2. PICK k \in Writes(q) : TRUE
    BY <1>4
  <2>3. Writes(q) = {k}
    BY <2>2 DEF Single
  <2>4. s # <<>> /\ q[k].msg = s[1] /\ s[1] = Len(o)
    BY <2>2 DEF Single
  <2>5. Wire(q, w, s) = {[msg |-> Len(o), is |-> Outcome(q[k])]}
    BY <1>1, <2>1, <2>3, <2>4 DEF Wire
  <2>6. State(q, w) = Outcome(q[k])
    BY <1>4, <2>3 DEF State, Outcome
  <2>7. Outcome(q[k]) # "none"
    BY DEF Outcome
  <2> QED
    BY <2>5, <2>6, <2>7 DEF Known
<1> QED
  BY <1>2, <1>3, <1>4

LEMMA UnderwayKnown ==
  /\ IInv => Underway = Known(State(ready, writing), submitted)
  /\ IInv' => Underway' = Known(State(ready', writing'), submitted')
<1>1. Underway = Wire(ready, writing, write_queue_)
  BY DEF Underway, Wire, OnWire, Written, Writes
<1>2. Underway' = Wire(ready', writing', write_queue_')
  BY DEF Underway, Wire, OnWire, Written, Writes
<1>3. IInv => /\ ready \in Seq(Completions) /\ writing \in Seq(Msgs) /\ write_queue_ \in Seq(Msgs)
              /\ submitted \in Seq(Msgs) /\ Single(ready, writing, write_queue_, submitted)
  BY DEF IInv, TypeOK, Tidy
<1>4. IInv' => /\ ready' \in Seq(Completions) /\ writing' \in Seq(Msgs) /\ write_queue_' \in Seq(Msgs)
               /\ submitted' \in Seq(Msgs) /\ Single(ready', writing', write_queue_', submitted')
  BY DEF IInv, TypeOK, Tidy
<1> QED
  BY <1>1, <1>2, <1>3, <1>4, WireKnown

\* Nothing is known of a message that was never submitted, and only that.
LEMMA KnownIs ==
  ASSUME NEW st, NEW o
  PROVE  /\ st = "none" <=> Known(st, o) = {}
         /\ st # "none" => Known(st, o) = {[msg |-> Len(o), is |-> st]}
<1> QED
  BY DEF Known

\* A step that leaves the messages where they are is none of the channel's,
\* stops it, or loses the message under way.
LEMMA QuietStep ==
  ASSUME IInv, IInv', UNCHANGED <<posted, submitted>>,
         write_queue_ = <<>> <=> write_queue_' = <<>>,
         \/ is_stopped_' = is_stopped_ /\ MayLose(State(ready, writing), State(ready', writing'))
         \/ is_stopped_' = TRUE /\ State(ready', writing') = State(ready, writing)
  PROVE  Channel!Next \/ UNCHANGED Channel!vars
<1> DEFINE a == State(ready, writing)
           b == State(ready', writing')
<1>1. Underway = Known(a, submitted) /\ Underway' = Known(b, submitted)
  BY UnderwayKnown
<1>2. is_stopped_ \in BOOLEAN
  BY DEF IInv, TypeOK
<1> HIDE DEF a, b
<1>3. CASE a = b
  <2>1. Underway' = Underway
    BY <1>1, <1>3
  <2>2. is_stopped_' = is_stopped_ \/ (is_stopped_' = TRUE /\ ~is_stopped_)
    BY <1>2
  <2> QED
    BY <2>1, <2>2 DEF Channel!vars, Channel!Next, Channel!Stop
<1>4. CASE a # b
  <2>1. a = "open" /\ b = "lost" /\ is_stopped_' = is_stopped_
    BY <1>4 DEF MayLose, a, b
  <2>2. /\ Underway = {[msg |-> Len(submitted), is |-> "open"]}
        /\ Underway' = {[msg |-> Len(submitted), is |-> "lost"]}
    BY <1>1, <2>1, KnownIs
  <2>3. Underway # {} /\ Underway' # {}
    BY <2>2
  <2>4. Channel!Complete
    BY <2>1, <2>2, <2>3 DEF Channel!Complete, Channel!Last
  <2> QED
    BY <2>4 DEF Channel!Next
<1> QED
  BY <1>3, <1>4

\* close_pipe() loses a write that is open and says nothing else.
LEMMA ClosePipeState ==
  ASSUME IInv, NEW q \in Seq(Completions), Tidy(q, writing, write_queue_, submitted, posted),
         ClosePipe(q)
  PROVE  MayLose(State(q, writing), State(ready', writing'))
<1>1. CASE pipe_ = 0
  <2>1. ready' = q /\ writing' = writing
    BY <1>1 DEF ClosePipe
  <2> QED
    BY <2>1 DEF MayLose
<1>2. CASE pipe_ # 0
  <2>1. writing' = <<>> /\ ready' = q \o Aborted("aborted") \o AbortedWrites("aborted")
    BY <1>2 DEF ClosePipe
  <2>2. writing \in Seq(Msgs) /\ reads \in Nat /\ "aborted" \in Results /\ "aborted" # "ok"
    BY DEF IInv, TypeOK, Results
  <2>3. Len(writing) <= 1 /\ (writing # <<>> => Writes(q) = {})
    BY DEF Tidy, Single
  <2>4. MayLose(State(q, writing), State(q \o Aborted("aborted") \o AbortedWrites("aborted"), <<>>))
    BY <2>2, <2>3, AbortState DEF Aborted, AbortedWrites
  <2> QED
    BY <2>1, <2>4
<1> QED
  BY <1>1, <1>2

LEMMA StartReadState ==
  ASSUME IInv, NEW q \in Seq(Completions), NEW c \in BOOLEAN, StartRead(c, q), UNCHANGED writing
  PROVE  State(ready', writing') = State(q, writing)
<1>1. CASE Link = "connected" \/ is_stopped_ \/ ~c
  BY <1>1 DEF StartRead
<1>2. CASE ~(Link = "connected" \/ is_stopped_ \/ ~c)
  <2>1. PICK res \in Results : res = LinkError(Link)
    BY <1>2, LinkKnown
  <2>2. ready' = Append(q, Read(res))
    BY <1>2, <2>1 DEF StartRead
  <2>3. Read(res) \in Completions /\ Read(res).op # "write"
    BY DEF Read, Completions
  <2> QED
    BY <2>2, <2>3, AppendState
<1> QED
  BY <1>1, <1>2

\* A handler other than a write's or a post's.
LEMMA TakenState ==
  ASSUME IInv, ready # <<>>, Head(ready).op \notin {"post", "write"}
  PROVE  \E q \in Seq(Completions) :
           /\ q = Tail(ready) /\ Tidy(q, writing, write_queue_, submitted, posted)
           /\ State(q, writing) = State(ready, writing)
<1>1. PICK q \in Seq(Completions) : q = Tail(ready) /\ Tidy(q, writing, write_queue_, submitted, posted)
  BY Taken
<1>2. PICK r \in Seq(Completions) : r = ready /\ r # <<>> /\ r[1].op # "write"
  BY DEF IInv, TypeOK
<1>3. State(Tail(r), writing) = State(r, writing)
  BY <1>2, TailState
<1> QED
  BY <1>1, <1>2, <1>3

LEMMA HandleErrorState ==
  ASSUME IInv, NEW q \in Seq(Completions), q = Tail(ready),
         Tidy(q, writing, write_queue_, submitted, posted), NEW res, HandleError(res)
  PROVE  MayLose(State(q, writing), State(ready', writing'))
<1>1. CASE res \in DisconnectErrors
  <2>1. ClosePipe(q)
    BY <1>1 DEF HandleError
  <2> QED
    BY <2>1, ClosePipeState
<1>2. CASE res \notin DisconnectErrors
  <2>1. ready' = q /\ writing' = writing
    BY <1>2 DEF HandleError
  <2> QED
    BY <2>1 DEF MayLose
<1> QED
  BY <1>1, <1>2

\* The io thread submits nothing before start() is done.
Quiet == main = "starting" => writing = <<>>

LEMMA QuietAlways == Spec => []Quiet
<1> USE DEF conn, ops
<1>1. Init => Quiet
  BY DEF Init, Quiet
<1>2. ASSUME Quiet, [Next]_vars
      PROVE  Quiet'
  <2>1. CASE CreatePipe \/ CreatePipeFails \/ ConnectPending \/ ConnectImmediate \/ CheckStopped \/ StartDone
               \/ TimerRearms \/ StopBegins \/ Write \/ ClientConnects \/ ClientLeaves \/ ReadCompletes
               \/ EventDelivered \/ UNCHANGED vars
    BY <1>2, <2>1 DEF CreatePipe, CreatePipeFails, ConnectPending, ConnectImmediate, CheckStopped, StartDone,
       TimerRearms, StopBegins, Write, ClientConnects, ClientLeaves, ReadCompletes, EventDelivered, vars, Quiet
  <2>2. CASE CreateEventFails \/ ConnectFails
    BY <1>2, <2>2 DEF CreateEventFails, ConnectFails, ClosePipe, Quiet
  <2>3. CASE WriteCompletes
    BY <1>2, <2>3 DEF WriteCompletes, Quiet
  <2>4. CASE ReadHandler \/ WriteHandler \/ PostHandler \/ ConnectHandler
    BY <2>4 DEF ReadHandler, WriteHandler, PostHandler, ConnectHandler, Next_, CanRun, Quiet
  <2>5. CASE TimerFindsClientGone \/ StopCloses
    BY <2>5 DEF TimerFindsClientGone, StopCloses, CanRun, Quiet
  <2> QED
    BY <1>2, <2>1, <2>2, <2>3, <2>4, <2>5 DEF Next, IoStep, Kernel, Environment
<1> QED
  BY <1>1, <1>2, PTL DEF Spec

\* create_pipe() and wait_for_connection(), the timer and stop().
LEMMA CreateChannel ==
  ASSUME IInv, IInv', Quiet,
         CreatePipe \/ CreatePipeFails \/ CreateEventFails \/ ConnectPending \/ ConnectImmediate
           \/ ConnectFails \/ CheckStopped \/ StartDone \/ TimerFindsClientGone \/ TimerRearms
           \/ StopBegins \/ StopCloses
  PROVE  Channel!Next \/ UNCHANGED Channel!vars
<1> USE DEF conn, ops, hist
<1>1. PICK q \in Seq(Completions) : q = ready /\ Tidy(q, writing, write_queue_, submitted, posted)
  BY DEF IInv, TypeOK
<1>2. is_stopped_ \in BOOLEAN
  BY DEF IInv, TypeOK
<1>3. UNCHANGED <<write_queue_, posted, submitted>>
  BY DEF CreatePipe, CreatePipeFails, CreateEventFails, ConnectPending, ConnectImmediate, ConnectFails,
     CheckStopped, StartDone, TimerFindsClientGone, TimerRearms, StopBegins, StopCloses
<1>4. CASE UNCHANGED <<ready, writing>> /\ (is_stopped_' = is_stopped_ \/ is_stopped_' = TRUE)
  BY <1>3, <1>4, QuietStep DEF MayLose
<1>5. CASE ClosePipe(ready) /\ is_stopped_' = is_stopped_
  <2>1. MayLose(State(ready, writing), State(ready', writing'))
    BY <1>1, <1>5, ClosePipeState
  <2> QED
    BY <1>3, <1>5, <2>1, QuietStep
<1>6. CASE CreatePipe \/ CreatePipeFails \/ ConnectPending \/ CheckStopped \/ StartDone \/ TimerRearms \/ StopBegins
  <2>1. UNCHANGED <<ready, writing>>
    BY <1>6 DEF CreatePipe, CreatePipeFails, ConnectPending, CheckStopped, StartDone, TimerRearms, StopBegins
  <2>2. is_stopped_' = is_stopped_ \/ is_stopped_' = TRUE
    BY <1>2, <1>6 DEF CreatePipe, CreatePipeFails, ConnectPending, CheckStopped, StartDone, TimerRearms,
       StopBegins
  <2> QED
    BY <1>4, <2>1, <2>2
<1>7. CASE ConnectFails \/ TimerFindsClientGone \/ StopCloses
  BY <1>5, <1>7 DEF ConnectFails, TimerFindsClientGone, StopCloses
<1>8. CASE ConnectImmediate
  <2>1. StartRead(TRUE, q) /\ UNCHANGED <<writing, is_stopped_>>
    BY <1>1, <1>8 DEF ConnectImmediate
  <2>2. State(ready', writing') = State(ready, writing)
    BY <1>1, <2>1, StartReadState
  <2> QED
    BY <1>3, <2>1, <2>2, QuietStep DEF MayLose
<1>9. CASE CreateEventFails
  <2>1. CASE main = "starting" /\ nxt = 1
    <3>1. ClosePipe(ready) /\ is_stopped_' = TRUE
      BY <1>9, <2>1 DEF CreateEventFails
    <3>2. MayLose(State(ready, writing), State(ready', writing'))
      BY <1>1, <3>1, ClosePipeState
    <3>3. State(ready, writing) # "open"
      BY <2>1 DEF Quiet, State
    <3>4. State(ready', writing') = State(ready, writing)
      BY <3>2, <3>3 DEF MayLose
    <3> QED
      BY <1>3, <3>1, <3>4, QuietStep
  <2>2. CASE ~(main = "starting" /\ nxt = 1)
    BY <1>4, <1>9, <2>2 DEF CreateEventFails
  <2> QED
    BY <2>1, <2>2
<1> QED
  BY <1>6, <1>7, <1>8, <1>9

\* The handlers of reads and connects.
LEMMA ReadChannel ==
  ASSUME IInv, IInv', ReadHandler \/ ConnectHandler
  PROVE  Channel!Next \/ UNCHANGED Channel!vars
<1>1. /\ ready # <<>> /\ Head(ready).op \notin {"post", "write"}
      /\ UNCHANGED <<is_stopped_, write_queue_, posted, submitted>>
  BY DEF ReadHandler, ConnectHandler, Next_, hist
<1>2. PICK q \in Seq(Completions) :
        /\ q = Tail(ready) /\ Tidy(q, writing, write_queue_, submitted, posted)
        /\ State(q, writing) = State(ready, writing)
  BY <1>1, TakenState
<1>3. is_connected_ \in BOOLEAN
  BY DEF IInv, TypeOK
<1>4. \/ ClosePipe(q)
      \/ \E c \in BOOLEAN : StartRead(c, q) /\ UNCHANGED writing
      \/ \E res : HandleError(res)
  BY <1>2, <1>3 DEF ReadHandler, ConnectHandler
<1>5. MayLose(State(ready, writing), State(ready', writing'))
  <2>1. CASE ClosePipe(q)
    BY <1>2, <2>1, ClosePipeState
  <2>2. CASE \E c \in BOOLEAN : StartRead(c, q) /\ UNCHANGED writing
    BY <1>2, <2>2, StartReadState DEF MayLose
  <2>3. CASE \E res : HandleError(res)
    BY <1>2, <2>3, HandleErrorState
  <2> QED
    BY <1>4, <2>1, <2>2, <2>3
<1> QED
  BY <1>1, <1>5, QuietStep

\* The handler of a write goes on with the next message, or the channel is at
\* rest, or stuck.
LEMMA WriteChannel ==
  ASSUME IInv, IInv', WriteHandler
  PROVE  Channel!Next \/ UNCHANGED Channel!vars
<1>1. ready # <<>> /\ Head(ready).op = "write" /\ UNCHANGED <<is_stopped_, posted>>
  BY DEF WriteHandler, Next_
<1>2. PICK r \in Seq(Completions), w \in Seq(Msgs), s \in Seq(Msgs), o \in Seq(Msgs), p \in Nat :
        /\ r = ready /\ w = writing /\ s = write_queue_ /\ o = submitted /\ p = posted
        /\ Tidy(r, w, s, o, p)
  BY Values
<1>3. r # <<>> /\ r[1].op = "write" /\ Tidy(r, w, s, o, p) /\ 1 \in DOMAIN r
  BY <1>1, <1>2, LenProperties, EmptySeq
<1>4. w = <<>> /\ s # <<>> /\ Writes(Tail(r)) = {}
  BY <1>3, PopTidy
<1>5. 1 \in Writes(r) /\ \A k \in Writes(r) : k = 1
  BY <1>3 DEF Tidy, Single, Writes
<1>6. State(ready, writing) = IF Head(ready).res = "ok" THEN "written" ELSE "lost"
  BY <1>2, <1>4, <1>5 DEF State
<1>7. Underway = {[msg |-> Len(submitted), is |-> State(ready, writing)]} /\ Underway # {}
  BY <1>6, UnderwayKnown, KnownIs
<1>8. Underway' = Known(State(ready', writing'), submitted')
  BY UnderwayKnown
<1>9. CASE Head(ready).res = "ok"
  <2>1. PICK q \in Seq(Completions), t \in Seq(Msgs) :
          /\ write_queue_' = t /\ DoWrite(t, q)
          /\ writing = <<>> /\ Writes(q) = {} /\ Tidy(q, <<>>, t, submitted, posted)
          /\ t # <<>> => t[1] = Len(submitted) + 1
    BY <1>9, WriteTaken
  <2>2. \/ submitted' = submitted /\ State(ready', writing') = "none"
        \/ /\ ~is_stopped_ /\ t # <<>> /\ submitted' = Append(submitted, t[1])
           /\ State(ready', writing') \in {"open", "lost"}
    BY <2>1, DoWriteOK
  <2>3. t # <<>> => Len(submitted) < posted
    BY <1>2, <2>1, NextPosted
  <2>4. CASE submitted' = submitted /\ State(ready', writing') = "none"
    <3>1. Underway' = {}
      BY <1>8, <2>4, KnownIs
    <3>2. Channel!Settle
      BY <1>1, <1>6, <1>7, <1>9, <2>1, <2>3, <2>4, <3>1 DEF Channel!Settle, Channel!Last
    <3> QED
      BY <3>2 DEF Channel!Next
  <2>5. CASE /\ ~is_stopped_ /\ t # <<>> /\ submitted' = Append(submitted, t[1])
             /\ State(ready', writing') \in {"open", "lost"}
    <3>1. Underway' = {[msg |-> Len(submitted'), is |-> State(ready', writing')]} /\ Underway' # {}
      BY <1>8, <2>5, KnownIs
    <3>2. submitted' = Append(submitted, Len(submitted) + 1)
      BY <2>1, <2>5
    <3>3. Channel!Submit
      BY <1>1, <1>6, <1>7, <1>9, <2>3, <2>5, <3>1, <3>2 DEF Channel!Submit, Channel!Last
    <3> QED
      BY <3>3 DEF Channel!Next
  <2> QED
    BY <2>2, <2>4, <2>5
<1>10. CASE Head(ready).res # "ok"
  <2>1. PICK q \in Seq(Completions) : q = Tail(ready) /\ Tidy(q, writing, write_queue_, submitted, posted)
    BY <1>1, Taken
  <2>2. HandleError(Head(ready).res) /\ UNCHANGED <<write_queue_, submitted>>
    BY <1>10 DEF WriteHandler
  <2>3. MayLose(State(q, writing), State(ready', writing'))
    BY <2>1, <2>2, HandleErrorState
  <2>4. State(q, writing) = "none"
    BY <1>2, <1>4, <2>1 DEF State
  <2>5. State(ready', writing') = "none"
    BY <2>3, <2>4 DEF MayLose
  <2>6. Underway' = {} /\ write_queue_' # <<>>
    BY <1>2, <1>4, <1>8, <2>2, <2>5, KnownIs
  <2>7. Channel!Settle
    BY <1>1, <1>6, <1>7, <1>10, <2>2, <2>6 DEF Channel!Settle, Channel!Last
  <2> QED
    BY <2>7 DEF Channel!Next
<1> QED
  BY <1>9, <1>10

\* The posted function hands its message on, queues it, or finds that nobody is
\* connected.
LEMMA PostChannel ==
  ASSUME IInv, IInv', PostHandler
  PROVE  Channel!Next \/ UNCHANGED Channel!vars
<1>1. /\ ready # <<>> /\ Head(ready).op = "post" /\ UNCHANGED <<is_stopped_, posted>>
  BY DEF PostHandler, Next_
<1>2. PICK q \in Seq(Completions), t \in Seq(Msgs) :
        /\ q = Tail(ready) /\ write_queue_' = t /\ t # <<>>
        /\ Tidy(q, writing, t, submitted, posted)
        /\ write_queue_ = <<>> =>
             /\ writing = <<>> /\ Writes(ready) = {} /\ Writes(q) = {} /\ DoWrite(t, q)
             /\ t[1] = Len(submitted) + 1 /\ t[1] <= posted
  BY PostTaken
<1>3. CASE write_queue_ # <<>>
  <2>1. ready' = q /\ UNCHANGED <<writing, submitted>>
    BY <1>2, <1>3 DEF PostHandler
  <2>2. PICK r \in Seq(Completions) : r = ready /\ r # <<>> /\ r[1].op # "write"
    BY <1>1 DEF IInv, TypeOK
  <2>3. State(Tail(r), writing) = State(r, writing)
    BY <2>2, TailState
  <2>4. State(ready', writing') = State(ready, writing)
    BY <1>2, <2>1, <2>2, <2>3
  <2> QED
    BY <1>1, <1>2, <1>3, <2>1, <2>4, QuietStep DEF MayLose
<1>4. CASE write_queue_ = <<>>
  <2>1. Underway = {}
    <3>1. State(ready, writing) = "none"
      BY <1>2, <1>4 DEF State
    <3> QED
      BY <3>1, UnderwayKnown, KnownIs
  <2>2. Underway' = Known(State(ready', writing'), submitted')
    BY UnderwayKnown
  <2>3. Len(submitted) < posted
    <3>1. Len(submitted) \in Nat /\ posted \in Nat /\ Len(submitted) + 1 <= posted
      BY <1>2, <1>4, LenProperties DEF IInv, TypeOK
    <3> QED
      BY <3>1
  <2>4. \/ submitted' = submitted /\ State(ready', writing') = "none"
        \/ /\ ~is_stopped_ /\ submitted' = Append(submitted, t[1])
           /\ State(ready', writing') \in {"open", "lost"}
    BY <1>2, <1>4, DoWriteOK
  <2>5. CASE submitted' = submitted /\ State(ready', writing') = "none"
    <3>1. Underway' = {}
      BY <2>2, <2>5, KnownIs
    <3>2. Channel!Stick
      BY <1>1, <1>2, <2>1, <2>3, <2>5, <3>1 DEF Channel!Stick
    <3> QED
      BY <3>2 DEF Channel!Next
  <2>6. CASE /\ ~is_stopped_ /\ submitted' = Append(submitted, t[1])
             /\ State(ready', writing') \in {"open", "lost"}
    <3>1. Underway' = {[msg |-> Len(submitted'), is |-> State(ready', writing')]} /\ Underway' # {}
      BY <2>2, <2>6, KnownIs
    <3>2. submitted' = Append(submitted, Len(submitted) + 1)
      BY <1>2, <1>4, <2>6
    <3>3. Channel!Submit
      BY <1>1, <1>4, <2>1, <2>3, <2>6, <3>1, <3>2 DEF Channel!Submit, Channel!Last
    <3> QED
      BY <3>3 DEF Channel!Next
  <2> QED
    BY <2>4, <2>5, <2>6
<1> QED
  BY <1>3, <1>4

\* The client, the kernel and the callers of write().
LEMMA OutsideChannel ==
  ASSUME IInv, IInv',
         Write \/ ClientConnects \/ ClientLeaves \/ ReadCompletes \/ WriteCompletes \/ EventDelivered
  PROVE  Channel!Next \/ UNCHANGED Channel!vars
<1> USE DEF conn, ops, hist
<1>1. PICK q \in Seq(Completions), w \in Seq(Msgs) :
        /\ q = ready /\ w = writing /\ Len(w) <= 1
        /\ w # <<>> => Writes(q) = {}
  BY DEF IInv, TypeOK, Tidy, Single
<1>2. UNCHANGED <<is_stopped_, write_queue_, submitted>>
  BY DEF Write, ClientConnects, ClientLeaves, ReadCompletes, WriteCompletes, EventDelivered
<1>3. CASE Write
  <2>1. posted + 1 \in Msgs
    BY <1>3, ServerAssumption DEF Write, IInv, TypeOK, Msgs
  <2>2. PICK c \in Completions : c = Posted(posted + 1) /\ c.op # "write"
    <3>1. Posted(posted + 1) \in Completions /\ Posted(posted + 1).op # "write"
      BY <2>1 DEF Posted, Completions
    <3> QED
      BY <3>1, Zenon
  <2>3. ready' = Append(q, c) /\ writing' = writing /\ ~is_stopped_ /\ posted' = posted + 1
    BY <1>1, <1>3, <2>2 DEF Write
  <2>4. State(ready', writing') = State(ready, writing)
    BY <1>1, <2>2, <2>3, AppendState
  <2>5. Underway' = Underway
    BY <1>2, <2>4, UnderwayKnown
  <2>6. Channel!Post
    BY <1>2, <2>3, <2>5 DEF Channel!Post
  <2> QED
    BY <2>6 DEF Channel!Next
<1>4. CASE ClientConnects
  <2>1. UNCHANGED <<ready, writing, posted>>
    BY <1>4 DEF ClientConnects
  <2> QED
    BY <1>2, <2>1, QuietStep DEF MayLose
<1>5. CASE ClientLeaves
  <2>1. reads \in Nat /\ "broken" \in Results /\ "broken" # "ok"
    BY DEF IInv, TypeOK, Results
  <2>2. /\ writing' = <<>> /\ posted' = posted
        /\ \/ ready' = q \o Aborted("broken") \o AbortedWrites("broken")
           \/ ready' = q \o AbortedWrites("broken") \o Aborted("broken")
    BY <1>1, <1>5 DEF ClientLeaves
  <2>3. /\ Aborted("broken") = Completed("read", "broken", [k \in 1..reads |-> 0])
        /\ AbortedWrites("broken") = Completed("write", "broken", w)
    BY <1>1 DEF Aborted, AbortedWrites
  <2>4. /\ MayLose(State(q, w), State(q \o Aborted("broken") \o AbortedWrites("broken"), <<>>))
        /\ MayLose(State(q, w), State(q \o AbortedWrites("broken") \o Aborted("broken"), <<>>))
    BY <1>1, <2>1, <2>3, AbortState
  <2>5. MayLose(State(ready, writing), State(ready', writing'))
    BY <1>1, <2>2, <2>4
  <2> QED
    BY <1>2, <2>2, <2>5, QuietStep
<1>6. CASE ReadCompletes
  <2>1. PICK c \in Completions : ready' = Append(q, c) /\ c.op # "write"
    <3>1. \A res \in Results : Read(res) \in Completions /\ Read(res).op # "write"
      BY DEF Read, Completions
    <3>2. "ok" \in Results /\ "other" \in Results
      BY DEF Results
    <3> QED
      BY <1>1, <1>6, <3>1, <3>2, Zenon DEF ReadCompletes
  <2>2. UNCHANGED <<writing, posted>>
    BY <1>6 DEF ReadCompletes
  <2>3. State(ready', writing') = State(ready, writing)
    BY <1>1, <2>1, <2>2, AppendState
  <2> QED
    BY <1>2, <2>2, <2>3, QuietStep DEF MayLose
<1>7. CASE EventDelivered
  <2>1. PICK i \in signalled : ready' = Append(ready, Connected(i)) /\ UNCHANGED <<writing, posted>>
    BY <1>7 DEF EventDelivered
  <2>2. PICK c \in Completions : c = Connected(i) /\ c.op # "write"
    <3>1. Connected(i) \in Completions /\ Connected(i).op # "write"
      BY DEF Connected, Completions, IInv, TypeOK
    <3> QED
      BY <3>1, Zenon
  <2>3. State(ready', writing') = State(ready, writing)
    BY <1>1, <2>1, <2>2, AppendState
  <2> QED
    BY <1>2, <2>1, <2>3, QuietStep DEF MayLose
<1>8. CASE WriteCompletes
  <2>1. w # <<>> /\ ready' = Append(q, Wrote(w[1], "ok")) /\ writing' = Tail(w) /\ posted' = posted
    BY <1>1, <1>8, MessagesAreNumbers DEF WriteCompletes
  <2>2. Tail(w) = <<>>
    BY <1>1, <2>1, OneLeft
  <2>3. PICK c \in Completions : c = Wrote(w[1], "ok") /\ c.op = "write" /\ c.res = "ok"
    <3>1. w[1] \in Msgs /\ "ok" \in Results
      BY <2>1, MessagesAreNumbers DEF Results
    <3>2. Wrote(w[1], "ok") \in Completions /\ Wrote(w[1], "ok").op = "write" /\ Wrote(w[1], "ok").res = "ok"
      BY <3>1 DEF Wrote, Completions
    <3> QED
      BY <3>2, Zenon
  <2>4. State(Append(q, c), <<>>) = "written"
    BY <1>1, <2>1, <2>3, AppendState
  <2>5. State(ready, writing) = "open" /\ State(ready', writing') = "written"
    BY <1>1, <2>1, <2>2, <2>3, <2>4 DEF State
  <2>6. /\ Underway = {[msg |-> Len(submitted), is |-> "open"]}
        /\ Underway' = {[msg |-> Len(submitted), is |-> "written"]}
    BY <1>2, <2>5, UnderwayKnown, KnownIs
  <2>7. Underway # {} /\ Underway' # {}
    BY <2>6
  <2>8. Channel!Complete
    BY <1>2, <2>1, <2>6, <2>7 DEF Channel!Complete, Channel!Last
  <2> QED
    BY <2>8 DEF Channel!Next
<1> QED
  BY <1>3, <1>4, <1>5, <1>6, <1>7, <1>8

\* NamedPipeServer passes messages on as a MessageChannel does: write() posts,
\* do_write() submits, a completion completes, its handler settles or submits
\* the next, a message that finds nobody connected sticks; everything else is
\* none of the channel's business, apart from stop() and a pipe that closes
\* under a write. (NamedPipeServer.cpp:83-95, :238-286)
THEOREM Refinement == Spec => ImplementsMessageChannel
<1>1. Init => Channel!Init
  <2>1. Init => Underway = {}
    BY DEF Init, Underway, Written
  <2> QED
    BY <2>1 DEF Init, Channel!Init
<1>2. ASSUME IInv, IInv', Quiet, [Next]_vars
      PROVE  [Channel!Next]_(Channel!vars)
  <2>1. CASE IoStep
    BY <1>2, <2>1, CreateChannel, ReadChannel, WriteChannel, PostChannel DEF IoStep
  <2>2. CASE TimerFindsClientGone \/ StopCloses
    BY <1>2, <2>2, CreateChannel
  <2>3. CASE Kernel
    BY <1>2, <2>3, OutsideChannel DEF Kernel
  <2>4. CASE Environment
    BY <1>2, <2>4, OutsideChannel, CreateChannel DEF Environment
  <2>5. CASE UNCHANGED vars
    <3>1. UNCHANGED <<ready, writing, write_queue_, submitted, posted, is_stopped_>>
      BY <2>5 DEF vars, conn, ops, hist
    <3> QED
      BY <1>2, <3>1, QuietStep DEF MayLose
  <2> QED
    BY <1>2, <2>1, <2>2, <2>3, <2>4, <2>5 DEF Next
<1> QED
  BY <1>1, <1>2, Invariance, QuietAlways, PTL DEF Spec, Channel!Spec, ImplementsMessageChannel

=============================================================================
