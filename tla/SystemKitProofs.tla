--------------------------- MODULE SystemKitProofs ---------------------------
(***************************************************************************)
(* What the five services keep for any sets of threads, names, keys, rules *)
(* and rights, and however often others write meanwhile: what a call opens *)
(* or allocates is given back, a handle names its process, what a read     *)
(* returns was so during the read, the policy of the firewall and the      *)
(* rights are changed as the code means to.                                *)
(*                                                                         *)
(* For each service one formula says what a call may hold at each place in *)
(* the code (VariablesHeld, KeysHeld, RightsHeld) and one what it has read *)
(* or done so far (VariablesRead, KeysRead, RightsSoFar), and the lemmas   *)
(* go function by function. The launcher's and the firewall's are proved   *)
(* in modules of their own. At the end the five are put side by side.      *)
(***************************************************************************)
EXTENDS SystemKit, FiniteSetTheorems, SequenceTheorems, TLAPS

-----------------------------------------------------------------------------
(* EnvironmentVariables: keys and blocks are given back by a destructor, the *)
(* SID is held only while the membership is asked for.                      *)

VariableFields == {"op", "in", "name", "at", "size", "type", "text", "left", "last", "out", "held", "said"}

VariablesHeld ==
  /\ DOMAIN req = VariableFields
  /\ req.held \subseteq {"key", "block", "sid"}
  /\ "sid" \in req.held => req.at = "member"
  /\ req.at = "idle" => req.held = {}

LEMMA VariablesInit == Environment!Init => VariablesHeld
BY DEF Environment!Init, Environment!NoRequest, VariablesHeld, VariableFields

\* Wherever no SID is held a call may end, by a return or an exception.
LEMMA VariablesEnd ==
  ASSUME VariablesHeld, req.at # "member", NEW said, NEW out, Environment!Leave(said, out)
  PROVE  VariablesHeld'
BY DEF VariablesHeld, VariableFields, Environment!Leave, Environment!NoRequest, Environment!RAII

LEMMA VariablesThrow ==
  ASSUME VariablesHeld, req.at # "member", NEW code, Environment!Throw(code)
  PROVE  VariablesHeld'
BY VariablesEnd DEF Environment!Throw, Environment!End

LEMMA VariablesFound ==
  ASSUME VariablesHeld, req.at \notin {"idle", "member"}, NEW text, Environment!Found(text)
  PROVE  VariablesHeld'
<1>1. CASE req.op = "get"
  BY <1>1, VariablesEnd DEF Environment!Found, Environment!End
<1>2. CASE req.op = "exists"
  BY <1>2, VariablesEnd DEF Environment!Found, Environment!End
<1>3. CASE req.op \notin {"get", "exists"}
  <2>1. Environment!Goto([req EXCEPT !.at = "next", !.held = req.held \ {"key"},
                                     !.out = req.out \cup {<<req.name, text>>}])
    BY <1>3 DEF Environment!Found
  <2> QED
    BY <2>1 DEF Environment!Goto, VariablesHeld, VariableFields
<1> QED
  BY <1>1, <1>2, <1>3

LEMMA VariablesBegin ==
  ASSUME VariablesHeld, NEW op, NEW in, NEW n, NEW at, Environment!Begin(op, in, n, at)
  PROVE  VariablesHeld'
BY DEF VariablesHeld, VariableFields, Environment!Begin, Environment!NoRequest

LEMMA VariablesCall ==
  ASSUME VariablesHeld, Environment!Call
  PROVE  VariablesHeld'
<1>1. ASSUME NEW op, NEW in, NEW n, Environment!get(op, in, n)
      PROVE  VariablesHeld'
  BY <1>1, VariablesBegin DEF Environment!get
<1>2. ASSUME NEW op, NEW in, Environment!getNames(op, in)
      PROVE  VariablesHeld'
  BY <1>2, VariablesBegin DEF Environment!getNames
<1>3. ASSUME NEW n, NEW text, Environment!setProcess(n, text)
      PROVE  VariablesHeld'
  BY <1>3 DEF Environment!setProcess, VariablesHeld, VariableFields, Environment!NoRequest
<1>4. ASSUME NEW scope, NEW n, NEW text, Environment!set(scope, n, text)
      PROVE  VariablesHeld'
  BY <1>4 DEF Environment!set, VariablesHeld, VariableFields, Environment!NoRequest
<1>5. CASE Environment!Begin("expand", "process", Ref, "esize")
  BY <1>5, VariablesBegin
<1> QED
  BY <1>1, <1>2, <1>3, <1>4, <1>5 DEF Environment!Call

LEMMA VariablesOthers ==
  ASSUME VariablesHeld, Environment!OtherThread \/ Environment!OtherProcess
  PROVE  VariablesHeld'
BY DEF VariablesHeld, VariableFields, Environment!NoRequest, Environment!OtherThread,
   Environment!OtherProcess, Environment!OthersWrite, Environment!At

LEMMA VariablesGet ==
  ASSUME VariablesHeld,
         \/ Environment!getFromProcess \/ Environment!getFromRegistry
         \/ Environment!getRegistryEnvironmentVariable \/ Environment!expandRegistryValue
         \/ Environment!expand
  PROVE  VariablesHeld'
<1> USE DEF Environment!At
<1>1. ASSUME NEW code, Environment!Throw(code), req.at # "member" PROVE VariablesHeld'
  BY <1>1, VariablesThrow
<1>2. ASSUME NEW text, Environment!Found(text), req.at \notin {"idle", "member"} PROVE VariablesHeld'
  BY <1>2, VariablesFound
<1>3. ASSUME NEW at \in {"pfill", "rsize", "rfill", "esize", "efill", "text"}, NEW r,
             Environment!Goto(r), DOMAIN r = VariableFields, r.at = at,
             r.held \in {req.held, {"key"}}, req.at # "member"
      PROVE  VariablesHeld'
  BY <1>3 DEF Environment!Goto, VariablesHeld
<1>4. CASE Environment!getFromProcess
  <2>1. CASE /\ req.at = "psize"
             /\ Environment!Goto([req EXCEPT !.at = "pfill", !.size = penv[req.name] + 1])
    BY <2>1, <1>3 DEF VariablesHeld, VariableFields
  <2>2. CASE req.at = "noName" /\ Environment!Throw("InvalidArgument")
    BY <2>2, <1>1
  <2>3. CASE req.at = "psize" /\ Environment!Throw("NotFound")
    BY <2>3, <1>1
  <2>4. CASE req.at = "pfill" /\ (Environment!Throw("SizeError") \/ Environment!Found(penv[req.name]))
    BY <2>4, <1>1, <1>2
  <2> QED
    BY <1>4, <2>1, <2>2, <2>3, <2>4 DEF Environment!getFromProcess
<1>5. CASE Environment!getFromRegistry
  <2>1. CASE req.at = "open" /\ Environment!Goto([req EXCEPT !.at = "rsize", !.held = {"key"}])
    BY <2>1, <1>3 DEF VariablesHeld, VariableFields
  <2> QED
    BY <1>1, <1>5, <2>1 DEF Environment!getFromRegistry
<1>6. CASE Environment!getRegistryEnvironmentVariable
  <2> DEFINE i == Environment!Index(req.name)
  <2>1. CASE req.at = "rsize" /\ Environment!Goto([req EXCEPT !.at = "rfill", !.size = key[i].text])
    BY <2>1, <1>3 DEF VariablesHeld, VariableFields
  <2>2. CASE /\ req.at = "rfill"
             /\ Environment!Goto([req EXCEPT !.at = IF key[i].type = "EXPAND" THEN "esize" ELSE "text",
                                             !.type = key[i].type, !.text = key[i].text])
    BY <2>2, <1>3 DEF VariablesHeld, VariableFields
  <2>3. CASE req.at = "text" /\ Environment!Found(req.text)
    BY <2>3, <1>2
  <2>4. CASE \E code : req.at \in {"rsize", "rfill"} /\ Environment!Throw(code)
    BY <2>4, <1>1
  <2> QED
    BY <1>6, <2>1, <2>2, <2>3, <2>4 DEF Environment!getRegistryEnvironmentVariable
<1>7. CASE Environment!expandRegistryValue \/ Environment!expand
  <2>1. CASE req.at = "esize" /\ Environment!Goto([req EXCEPT !.at = "efill", !.size = Environment!Expanded])
    BY <2>1, <1>3 DEF VariablesHeld, VariableFields
  <2>2. CASE \E text : req.at = "efill" /\ Environment!Found(text)
    BY <2>2, <1>2
  <2>3. CASE req.at = "efill" /\ \E said, out : Environment!End(said, out)
    BY <2>3, VariablesEnd DEF Environment!End
  <2>4. CASE req.at = "efill" /\ Environment!Throw("ExpandError")
    BY <2>4, <1>1
  <2> QED
    BY <1>7, <2>1, <2>2, <2>3, <2>4 DEF Environment!expandRegistryValue, Environment!expand
<1> QED
  BY <1>4, <1>5, <1>6, <1>7

LEMMA VariablesNames ==
  ASSUME VariablesHeld, Environment!readBlock \/ Environment!enumerate \/ Environment!getAll
  PROVE  VariablesHeld'
<1> USE DEF Environment!At
<1>1. ASSUME NEW code, Environment!Throw(code), req.at # "member" PROVE VariablesHeld'
  BY <1>1, VariablesThrow
<1>2. ASSUME NEW said, NEW out, Environment!End(said, out), req.at # "member" PROVE VariablesHeld'
  BY <1>2, VariablesEnd DEF Environment!End
<1>3. ASSUME NEW at \in {"copy", "count", "enum", "next", "noName", "open"}, NEW r,
             Environment!Goto(r), DOMAIN r = VariableFields, r.at = at,
             r.held \in {req.held, {"key"}, {"block"}, {}}, req.at # "member"
      PROVE  VariablesHeld'
  BY <1>3 DEF Environment!Goto, VariablesHeld
<1>4. CASE Environment!readBlock
  <2>1. CASE /\ req.at = "block"
             /\ Environment!Goto([req EXCEPT !.at = "copy", !.held = {"block"},
                  !.out = {<<n, penv[n]>> : n \in {m \in Environment!Variables : penv[m] # Environment!Absent}}])
    BY <2>1, <1>3 DEF VariablesHeld, VariableFields
  <2> QED
    BY <1>4, <1>1, <1>2, <2>1 DEF Environment!readBlock
<1>5. CASE Environment!enumerate
  <2>1. CASE req.at = "names" /\ Environment!Goto([req EXCEPT !.at = "count", !.held = {"key"}])
    BY <2>1, <1>3 DEF VariablesHeld, VariableFields
  <2>2. CASE req.at = "count" /\ Environment!Goto([req EXCEPT !.at = "enum", !.size = 1, !.last = Len(key)])
    BY <2>2, <1>3 DEF VariablesHeld, VariableFields
  <2>3. CASE /\ req.at = "enum"
             /\ Environment!Goto([req EXCEPT !.size = @ + 1,
                  !.left = IF req.size > Len(key) THEN @ ELSE Append(@, key[req.size].name)])
    BY <2>3, <1>3 DEF VariablesHeld, VariableFields
  <2>4. CASE req.at = "enum" /\ Environment!Goto([req EXCEPT !.at = "next", !.held = {}])
    BY <2>4, <1>3 DEF VariablesHeld, VariableFields
  <2>5. CASE req.at \in {"names", "enum"}
             /\ (Environment!Throw("EnvironmentVariableError") \/ \E said, out : Environment!End(said, out))
    BY <2>5, <1>1, <1>2
  <2> QED
    BY <1>5, <2>1, <2>2, <2>3, <2>4, <2>5 DEF Environment!enumerate
<1>6. CASE Environment!getAll
  <2>1. CASE Environment!Goto([req EXCEPT !.name = Head(req.left), !.left = Tail(@),
                                          !.at = IF req.left[1] = NoName THEN "noName" ELSE "open"])
             /\ req.at = "next"
    BY <2>1, <1>3 DEF VariablesHeld, VariableFields
  <2> QED
    BY <1>6, <1>2, <2>1 DEF Environment!getAll
<1> QED
  BY <1>4, <1>5, <1>6

LEMMA VariablesWrite ==
  ASSUME VariablesHeld, Environment!checkAdmin \/ Environment!writeValue
  PROVE  VariablesHeld'
<1> USE DEF Environment!At
<1>1. ASSUME NEW code, Environment!Throw(code), req.at # "member" PROVE VariablesHeld'
  BY <1>1, VariablesThrow
<1>2. ASSUME NEW r, Environment!Goto(r), DOMAIN r = VariableFields,
             \/ r.at = "member" /\ r.held = {"sid"}
             \/ r.at \in {"notAdmin", "openWrite", "write"} /\ r.held \in {{}, {"key"}}
      PROVE  VariablesHeld'
  BY <1>2 DEF Environment!Goto, VariablesHeld
<1>3. CASE Environment!checkAdmin
  <2>1. CASE req.at = "admin" /\ Environment!Goto([req EXCEPT !.at = "member", !.held = {"sid"}])
    BY <2>1, <1>2 DEF VariablesHeld, VariableFields
  <2>2. CASE req.at = "member" /\ Environment!Goto([req EXCEPT !.at = "notAdmin", !.held = {}])
    BY <2>2, <1>2 DEF VariablesHeld, VariableFields
  <2>3. CASE req.at = "member" /\ Environment!Goto([req EXCEPT !.at = "openWrite", !.held = {}])
    BY <2>3, <1>2 DEF VariablesHeld, VariableFields
  <2> QED
    BY <1>1, <1>3, <2>1, <2>2, <2>3 DEF Environment!checkAdmin
<1>4. CASE Environment!writeValue
  <2>1. CASE req.at = "openWrite" /\ Environment!Goto([req EXCEPT !.at = "write", !.held = {"key"}])
    BY <2>1, <1>2 DEF VariablesHeld, VariableFields
  <2>2. CASE req.at = "write" /\ Environment!Leave("ok", {})
    BY <2>2, VariablesEnd
  <2> QED
    BY <1>1, <1>4, <2>1, <2>2 DEF Environment!writeValue
<1> QED
  BY <1>3, <1>4

LEMMA VariablesNext == VariablesHeld /\ Environment!Next => VariablesHeld'
BY VariablesCall, VariablesGet, VariablesNames, VariablesWrite, VariablesOthers
   DEF Environment!Next, Environment!Step

-----------------------------------------------------------------------------
(* EnvironmentVariables: what a read has found so far was there.            *)

KeyNames == {key[i].name : i \in DOMAIN key}
OneEach == \A i, j \in DOMAIN key : key[i].name = key[j].name => i = j
Getting == {"get", "exists", "getAll"}
Naming == {"getNames", "getAll"}
Writing == {"admin", "member", "notAdmin", "openWrite", "write"}

VariablesTyped ==
  /\ penv \in [Environment!Variables -> Environment!Texts \cup {Environment!Absent}]
  /\ key \in Seq(Environment!Entries) /\ OneEach
  /\ req.in \in {"process", "registry"} /\ req.name \in VariableNames
  /\ writes \in 0..MaxVariableWrites

\* What is read, and where, at each place in the code.
VariablesReadAt ==
  /\ req.at # "idle" => (req.op = "set" <=> req.at \in Writing)
  /\ req.at \in Writing => req.text \in Environment!Texts \cup {Environment!Absent}
  /\ req.at = "noName" => req.op \in Getting
  /\ req.at \in {"psize", "pfill"} => req.in = "process" /\ req.op \in {"get", "exists"} /\ req.name # NoName
  /\ req.at \in {"open", "rsize", "rfill", "text"} => req.in = "registry" /\ req.op \in Getting
  /\ req.at \in {"esize", "efill"} =>
       (req.op = "expand" /\ req.in = "process") \/ (req.op \in Getting /\ req.in = "registry")
  /\ req.at \in {"block", "copy"} => req.in = "process" /\ req.op \in Naming
  /\ req.at \in {"names", "count", "enum"} => req.in = "registry" /\ req.op \in Naming
  /\ req.at = "next" => req.in = "registry" /\ req.op = "getAll"

\* What has been found was there.
FoundThere ==
  /\ req.at = "text" => req.type \in Environment!Types /\ <<req.name, req.type, req.text>> \in Environment!There
  /\ req.at \in {"esize", "efill"} /\ req.op # "expand" =>
     <<req.name, "EXPAND", Environment!Literal>> \in Environment!There
  /\ req.at = "efill" => req.size \in Environment!Texts \cup {Environment!Literal}
     /\ <<"expansion", req.size>> \in Environment!There
  /\ \A e \in req.out : Len(e) = 2 => Environment!ValueWasThere(req.in, e[1], e[2])

\* The names enumerated so far are the first, if none came or went; those
\* that have been read and those that have not are all.
NoneCame == \A n \in VariableNames : ~Environment!CameOrWent(n)
Enumerated ==
  /\ req.left \in Seq(VariableNames)
  /\ req.at \in {"names", "count", "enum"} => req.out = {}
  /\ req.at \in {"names", "count"} => req.left = <<>>
  /\ req.at = "enum" => req.size \in Nat \ {0}
  /\ NoneCame =>
       IF req.at \in {"names", "count"} THEN TRUE
       ELSE IF req.at = "enum"
       THEN /\ req.last = Len(key) /\ req.size <= req.last + 1 /\ Len(req.left) = req.size - 1
            /\ \A i \in 1..(req.size - 1) : req.left[i] = key[i].name
       ELSE {e[1] : e \in req.out} \cup Environment!ToSet(req.left) \cup (IF req.at = "next"
         THEN {} ELSE {req.name}) = KeyNames

UnderWay ==
  /\ seen # {} /\ Environment!Stored \subseteq seen
  /\ FoundThere
  /\ req.op \in Naming /\ req.in = "registry" => Enumerated

VariablesRead ==
  /\ VariablesTyped /\ VariablesReadAt
  /\ req.at # "idle" /\ req.op # "set" => UnderWay

-----------------------------------------------------------------------------
(* Values of the key *)

LEMMA VariableAt ==
  ASSUME VariablesTyped, NEW n
  PROVE  IF Environment!Index(n) = 0 THEN n \notin KeyNames
         ELSE n \in KeyNames /\ Environment!Index(n) \in 1..Len(key) /\ key[Environment!Index(n)].name = n
<1>1. CASE \E i \in DOMAIN key : key[i].name = n
  <2>1. Environment!Index(n) \in DOMAIN key /\ key[Environment!Index(n)].name = n
    BY <1>1 DEF Environment!Index
  <2>2. DOMAIN key = 1..Len(key) /\ Len(key) \in Nat
    BY LenProperties DEF VariablesTyped
  <2>3. Environment!Index(n) # 0
    BY <2>1, <2>2
  <2> QED
    BY <2>1, <2>2, <2>3 DEF KeyNames
<1>2. CASE ~ \E i \in DOMAIN key : key[i].name = n
  BY <1>2 DEF Environment!Index, KeyNames
<1> QED
  BY <1>1, <1>2

LEMMA VariableHas ==
  ASSUME NEW e \in Environment!Entries
  PROVE  /\ e.name \in VariableNames /\ e.type \in Environment!Types
         /\ e.type = "EXPAND" => e.text = Environment!Literal
         /\ Environment!VariablesFit => e.text \in Environment!Texts \cup {Environment!Literal}
BY DEF Environment!Entries, Environment!Entry, Environment!Types, Environment!Texts, Environment!Literal,
   Environment!VariablesFit

LEMMA OneRemoved ==
  ASSUME NEW S, NEW s \in Seq(S), NEW i \in 1..Len(s)
  PROVE  /\ Environment!RemoveAt(s, i) \in Seq(S) /\ Len(Environment!RemoveAt(s, i)) = Len(s) - 1
         /\ \A j \in 1..(Len(s) - 1) : Environment!RemoveAt(s, i)[j] = IF j < i THEN s[j] ELSE s[j + 1]
<1> DEFINE n == Len(s)
           a == SubSeq(s, 1, i - 1)
           b == SubSeq(s, i + 1, n)
<1>1. n \in Nat /\ \A j \in 1..n : s[j] \in S
  BY LenProperties, ElementOfSeq
<1>2. a \in Seq(S) /\ Len(a) = i - 1 /\ \A j \in 1..(i - 1) : a[j] = s[j]
  <2>1. \A j \in 1..(i - 1) : s[j] \in S
    BY <1>1
  <2> QED
    BY <1>1, <2>1, SubSeqProperties
<1>3. b \in Seq(S) /\ Len(b) = n - i /\ \A j \in 1..(n - i) : b[j] = s[i + j]
  <2>1. \A j \in (i + 1)..n : s[j] \in S
    BY <1>1
  <2> QED
    BY <1>1, <2>1, SubSeqProperties
<1>4. Environment!RemoveAt(s, i) = a \o b
  BY DEF Environment!RemoveAt
<1> HIDE DEF a, b
<1>5. /\ a \o b \in Seq(S) /\ Len(a \o b) = Len(a) + Len(b)
      /\ \A j \in 1..(Len(a) + Len(b)) : (a \o b)[j] = IF j <= Len(a) THEN a[j] ELSE b[j - Len(a)]
  BY <1>2, <1>3, ConcatProperties
<1>6. ASSUME NEW j \in 1..(n - 1) PROVE (a \o b)[j] = IF j < i THEN s[j] ELSE s[j + 1]
  <2>1. CASE j < i
    BY <1>1, <1>2, <1>3, <1>5, <2>1
  <2>2. CASE ~(j < i)
    <3>1. (a \o b)[j] = b[j - (i - 1)]
      BY <1>1, <1>2, <1>3, <1>5, <2>2
    <3>2. j - (i - 1) \in 1..(n - i) /\ i + (j - (i - 1)) = j + 1
      BY <1>1, <2>2
    <3> QED
      BY <1>3, <2>2, <3>1, <3>2
  <2> QED
    BY <2>1, <2>2
<1> QED
  BY <1>1, <1>2, <1>3, <1>4, <1>5, <1>6

\* A value that is written is there; no other name comes or goes.
LEMMA VariablePut ==
  ASSUME VariablesTyped, NEW e \in Environment!Entries, key' = Environment!Put(e)
  PROVE  /\ key' \in Seq(Environment!Entries) /\ OneEach' /\ KeyNames' = KeyNames \cup {e.name}
         /\ e.name \in KeyNames => Len(key') = Len(key) /\ \A i \in 1..Len(key) : key'[i].name = key[i].name
<1> DEFINE i == Environment!Index(e.name)
<1>1. DOMAIN key = 1..Len(key) /\ Len(key) \in Nat /\ key \in Seq(Environment!Entries) /\ OneEach
  BY LenProperties DEF VariablesTyped
<1>2. IF i = 0 THEN e.name \notin KeyNames
      ELSE e.name \in KeyNames /\ i \in 1..Len(key) /\ key[i].name = e.name
  BY VariableAt
<1>3. CASE i = 0
  <2> HIDE DEF i
  <2>1. key' = Append(key, e)
    BY <1>3 DEF Environment!Put, i
  <2>2. /\ key' \in Seq(Environment!Entries) /\ Len(key') = Len(key) + 1 /\ key'[Len(key) + 1] = e
        /\ \A j \in 1..Len(key) : key'[j] = key[j]
    BY <1>1, <2>1, AppendProperties
  <2>3. DOMAIN key' = 1..(Len(key) + 1) /\ 1..(Len(key) + 1) = 1..Len(key) \cup {Len(key) + 1}
    BY <1>1, <2>2, LenProperties
  <2>4. KeyNames' = KeyNames \cup {e.name}
    BY <1>1, <2>2, <2>3 DEF KeyNames
  <2>5. OneEach'
    BY <1>1, <1>2, <1>3, <2>2, <2>3 DEF KeyNames, OneEach
  <2> QED
    BY <1>2, <1>3, <2>2, <2>4, <2>5
<1>4. CASE i # 0
  <2> HIDE DEF i
  <2>1. key' = [key EXCEPT ![i] = e]
    BY <1>4 DEF Environment!Put, i
  <2>2. key' \in Seq(Environment!Entries) /\ Len(key') = Len(key)
        /\ \A j \in 1..Len(key) : key'[j] = IF j = i THEN e ELSE key[j]
    BY <1>1, <1>2, <1>4, <2>1, ExceptSeq
  <2>3. \A j \in 1..Len(key) : key'[j].name = key[j].name
    BY <1>2, <1>4, <2>2
  <2>4. DOMAIN key' = DOMAIN key
    BY <1>1, <2>2, LenProperties
  <2>5. KeyNames' = KeyNames /\ OneEach'
    BY <1>1, <2>3, <2>4 DEF KeyNames, OneEach
  <2> QED
    BY <1>2, <1>4, <2>2, <2>3, <2>5
<1> QED
  BY <1>3, <1>4

\* A value that is removed is gone.
LEMMA VariableWithout ==
  ASSUME VariablesTyped, NEW n, key' = Environment!Without(n)
  PROVE  /\ key' \in Seq(Environment!Entries) /\ OneEach' /\ KeyNames' = KeyNames \ {n}
         /\ n \notin KeyNames => key' = key
<1> DEFINE i == Environment!Index(n)
<1>1. DOMAIN key = 1..Len(key) /\ Len(key) \in Nat /\ key \in Seq(Environment!Entries) /\ OneEach
  BY LenProperties DEF VariablesTyped
<1>2. IF i = 0 THEN n \notin KeyNames ELSE n \in KeyNames /\ i \in 1..Len(key) /\ key[i].name = n
  BY VariableAt
<1>3. CASE i = 0
  <2>1. key' = key
    BY <1>3 DEF Environment!Without
  <2> QED
    BY <1>1, <1>2, <1>3, <2>1 DEF KeyNames, OneEach
<1>4. CASE i # 0
  <2> HIDE DEF i
  <2>1. key' = Environment!RemoveAt(key, i)
    BY <1>4, SMTT(60) DEF Environment!Without, i
  <2>2. /\ key' \in Seq(Environment!Entries) /\ Len(key') = Len(key) - 1
        /\ \A j \in 1..(Len(key) - 1) : key'[j] = IF j < i THEN key[j] ELSE key[j + 1]
    BY <1>1, <1>2, <1>4, <2>1, OneRemoved
  <2>3. DOMAIN key' = 1..(Len(key) - 1)
    BY <1>1, <2>2, LenProperties
  <2> DEFINE place(j) == IF j < i THEN j ELSE j + 1
  <2>6. /\ \A j \in 1..(Len(key) - 1) : place(j) \in (1..Len(key)) \ {i} /\ key'[j] = key[place(j)]
        /\ \A j, k \in 1..(Len(key) - 1) : place(j) = place(k) => j = k
    BY <1>1, <1>2, <1>4, <2>2
  <2> HIDE DEF place
  <2>4. OneEach'
    BY <1>1, <2>3, <2>6 DEF OneEach
  <2>5. KeyNames' = KeyNames \ {n}
    <3>1. ASSUME NEW j \in 1..(Len(key) - 1) PROVE key'[j].name \in KeyNames \ {n}
      <4>1. place(j) \in DOMAIN key /\ place(j) # i /\ i \in DOMAIN key /\ key'[j].name = key[place(j)].name
        BY <1>1, <1>2, <1>4, <2>6
      <4>2. key[place(j)].name # n
        BY <1>1, <1>2, <1>4, <4>1 DEF OneEach
      <4> QED
        BY <4>1, <4>2 DEF KeyNames
    <3>2. ASSUME NEW m \in KeyNames \ {n} PROVE \E j \in 1..(Len(key) - 1) : key'[j].name = m
      <4>1. PICK k \in 1..Len(key) : key[k].name = m
        BY <1>1 DEF KeyNames
      <4>2. k # i
        BY <1>2, <1>4, <4>1
      <4>3. CASE k < i
        BY <1>1, <1>2, <1>4, <2>2, <4>1, <4>3
      <4>4. CASE k > i
        <5>1. k - 1 \in 1..(Len(key) - 1) /\ ~(k - 1 < i) /\ (k - 1) + 1 = k
          BY <1>1, <1>2, <1>4, <4>4
        <5> QED
          BY <2>2, <4>1, <5>1
      <4> QED
        BY <1>2, <1>4, <4>2, <4>3, <4>4
    <3> QED
      BY <2>3, <3>1, <3>2 DEF KeyNames
  <2> QED
    BY <1>2, <1>4, <2>2, <2>4, <2>5
<1> QED
  BY <1>3, <1>4

-----------------------------------------------------------------------------
(* What was there *)

LEMMA StoredFacts ==
  ASSUME Environment!VariablesFit, VariablesTyped
  PROVE  /\ \A i \in DOMAIN key : <<key[i].name, key[i].type, key[i].text>> \in Environment!Stored
         /\ \A n \in VariableNames \ KeyNames : <<n, Environment!Absent>> \in Environment!Stored
         /\ \A n \in Environment!Variables : <<n, "process", penv[n]>> \in Environment!Stored
         /\ <<"expansion", Environment!Expanded>> \in Environment!Stored
         /\ Environment!Expanded \in Environment!Texts \cup {Environment!Literal}
         /\ key \in Seq(Environment!Entries) /\ DOMAIN key = 1..Len(key)
            /\ \A i \in DOMAIN key : key[i] \in Environment!Entries
<1>1. DOMAIN key = 1..Len(key) /\ \A i \in DOMAIN key : key[i] \in Environment!Entries
  BY LenProperties, ElementOfSeq DEF VariablesTyped
<1>2. Environment!Expanded \in Environment!Texts \cup {Environment!Literal}
  BY DEF VariablesTyped, Environment!VariablesFit, Environment!Expanded, Environment!Variables
<1> QED
  BY <1>1, <1>2 DEF Environment!Stored, KeyNames, VariablesTyped

\* A name that is there and was missing came or went.
LEMMA Came ==
  ASSUME Environment!VariablesFit, VariablesTyped, NEW n \in KeyNames, <<n, Environment!Absent>> \in Environment!There
  PROVE  n \in VariableNames /\ Environment!CameOrWent(n)
<1>1. PICK i \in DOMAIN key : key[i].name = n
  BY DEF KeyNames
<1>2. <<n, key[i].type, key[i].text>> \in Environment!There /\ key[i] \in Environment!Entries
  BY <1>1, StoredFacts DEF Environment!There
<1>3. key[i].type \in Environment!Types /\ key[i].text \in Environment!Texts \cup {Environment!Literal}
      /\ n \in VariableNames
  BY <1>1, <1>2, VariableHas
<1> QED
  BY <1>2, <1>3 DEF Environment!CameOrWent, Environment!WasThere

\* If none came or went, the names that are there are those that never were missing.
LEMMA NamesAreThere ==
  ASSUME Environment!VariablesFit, VariablesTyped, NoneCame
  PROVE  KeyNames = {n \in VariableNames : <<n, Environment!Absent>> \notin Environment!There}
<1>1. KeyNames \subseteq VariableNames
  BY StoredFacts, VariableHas DEF KeyNames
<1>2. \A n \in VariableNames \ KeyNames : <<n, Environment!Absent>> \in Environment!There
  BY StoredFacts DEF Environment!There
<1>3. \A n \in KeyNames : <<n, Environment!Absent>> \notin Environment!There
  BY Came DEF NoneCame
<1> QED
  BY <1>1, <1>2, <1>3

LEMMA SameThere ==
  ASSUME UNCHANGED <<penv, key, seen>>
  PROVE  /\ Environment!Stored' = Environment!Stored /\ Environment!There' = Environment!There
            /\ KeyNames' = KeyNames /\ NoneCame' = NoneCame
         /\ \A in, n, text : Environment!WasThere(n, text)' = Environment!WasThere(n, text)
<1>1. Environment!Stored' = Environment!Stored
  BY DEF Environment!Stored, Environment!Expanded
<1>2. Environment!There' = Environment!There
  BY <1>1 DEF Environment!There
<1> QED
  BY <1>1, <1>2 DEF KeyNames, NoneCame, Environment!CameOrWent, Environment!WasThere

-----------------------------------------------------------------------------
(* One step of a call *)

AllThere(out) ==
  /\ \A e \in out : Len(e) = 2 => Environment!ValueWasThere(req.in, e[1], e[2])
  /\ req.op \in {"getNames", "getAll"} /\ req.in = "registry" => Environment!NamesWereThere({e[1] : e \in out})

VariablesReadKept == VariablesRead' /\ Environment!ReadStep

LEMMA VariablesReadEnds ==
  ASSUME Environment!VariablesFit, VariablesHeld, VariablesRead, req.at # "idle", NEW said, NEW out,
         Environment!End(said, out),
         req.op # "set" /\ said = "ok" => AllThere(out),
         req.op # "set" /\ said = "false" => Environment!DenialWasTrue
  PROVE  VariablesReadKept
<1>1. /\ req'.at = "idle" /\ req'.in = req.in /\ req'.name = req.name /\ req'.said = said /\ req'.out = out
      /\ UNCHANGED <<penv, key, seen, writes>>
  BY DEF Environment!End, Environment!Leave, Environment!Unchanged, Environment!NoRequest
<1>2. VariablesTyped'
  BY <1>1 DEF VariablesRead, VariablesTyped, OneEach
<1>3. VariablesReadAt'
  BY <1>1 DEF VariablesReadAt, Writing
<1>4. Environment!ReadStep
  BY <1>1 DEF Environment!ReadStep, AllThere
<1> QED
  BY <1>1, <1>2, <1>3, <1>4 DEF VariablesRead, VariablesReadKept

LEMMA VariablesReadThrows ==
  ASSUME Environment!VariablesFit, VariablesHeld, VariablesRead, req.at # "idle", NEW code, Environment!Throw(code),
         code \notin {"ok", "false"}, code = "NotFound" => Environment!DenialWasTrue
  PROVE  VariablesReadKept
<1>1. CASE req.op = "exists" /\ code = "NotFound"
  BY <1>1, VariablesReadEnds DEF Environment!Throw
<1>2. CASE ~(req.op = "exists" /\ code = "NotFound")
  BY <1>2, VariablesReadEnds DEF Environment!Throw
<1> QED
  BY <1>1, <1>2

LEMMA VariablesReadGoes ==
  ASSUME Environment!VariablesFit, VariablesRead, req.at # "idle", UNCHANGED <<penv, key, seen, writes>>,
         req'.at # "idle", req'.op = req.op, req'.in = req.in, req'.name \in VariableNames, VariablesReadAt',
         req.op # "set" => FoundThere' /\ (req.op \in Naming /\ req.in = "registry" => Enumerated')
  PROVE  VariablesReadKept
<1>1. VariablesTyped'
  BY DEF VariablesRead, VariablesTyped, OneEach
<1>2. req.op # "set" => UnderWay'
  BY SameThere DEF VariablesRead, UnderWay
<1> QED
  BY <1>1, <1>2 DEF VariablesRead, VariablesReadKept, Environment!ReadStep

\* What has been found stays found.
LEMMA SameFound ==
  ASSUME UNCHANGED <<penv, key, seen>>, req'.op = req.op, req'.in = req.in
  PROVE  \A e : Environment!ValueWasThere(req.in, e[1], e[2]) = Environment!ValueWasThere(req.in, e[1], e[2])'
BY SameThere DEF Environment!ValueWasThere, Environment!WasThere

LEMMA Pair == ASSUME NEW a, NEW b PROVE Len(<<a, b>>) = 2 /\ <<a, b>>[1] = a /\ <<a, b>>[2] = b
OBVIOUS

\* A value that was there is found.
LEMMA VariablesReadFinds ==
  ASSUME Environment!VariablesFit, VariablesHeld, VariablesRead,
         req.at \notin {"idle", "next", "names", "count", "enum"},
         req.op \in Getting, NEW text, Environment!Found(text), Environment!ValueWasThere(req.in, req.name, text),
         req.op = "getAll" => req.in = "registry"
  PROVE  VariablesReadKept
<1>1. CASE req.op = "get"
  <2>1. AllThere({<<req.name, text>>})
    BY <1>1, Pair DEF AllThere
  <2> QED
    BY <1>1, <2>1, VariablesReadEnds DEF Environment!Found
<1>2. CASE req.op = "exists"
  BY <1>2, VariablesReadEnds DEF Environment!Found
<1>3. CASE req.op = "getAll"
  <2>1. Environment!Goto([req EXCEPT !.at = "next", !.held = @ \ {"key"}, !.out = @ \cup {<<req.name, text>>}])
    BY <1>3 DEF Environment!Found
  <2>2. /\ req'.at = "next" /\ req'.op = req.op /\ req'.in = req.in /\ req'.name = req.name /\ req'.left = req.left
        /\ req'.out = req.out \cup {<<req.name, text>>} /\ UNCHANGED <<penv, key, seen, writes>>
    BY <2>1 DEF Environment!Goto, Environment!Unchanged, VariablesHeld, VariableFields
  <2>3. UnderWay /\ Enumerated
    BY <1>3 DEF VariablesRead, UnderWay, Naming
  <2>4. VariablesReadAt'
    BY <1>3, <2>2 DEF VariablesReadAt, Writing
  <2>5. FoundThere'
    <3>1. \A e \in req'.out : Len(e) = 2 => Environment!ValueWasThere(req.in, e[1], e[2])
      BY <2>2, <2>3, Pair DEF UnderWay, FoundThere
    <3> QED
      BY <2>2, <3>1, SameFound DEF FoundThere
  <2>6. {e[1] : e \in req'.out} = {e[1] : e \in req.out} \cup {req.name}
    <3> DEFINE p == <<req.name, text>>
    <3>1. p[1] = req.name /\ req'.out = req.out \cup {p}
      BY <2>2, Pair
    <3> HIDE DEF p
    <3> QED
      BY <3>1
  <2>7. Enumerated'
    <3>1. NoneCame => {e[1] : e \in req.out} \cup Environment!ToSet(req.left) \cup {req.name} = KeyNames
      BY <2>3 DEF Enumerated
    <3>2. NoneCame => {e[1] : e \in req'.out} \cup Environment!ToSet(req'.left) \cup {} = KeyNames
      BY <2>2, <2>6, <3>1
    <3> QED
      BY <2>2, <2>3, <3>2, SameThere DEF Enumerated
  <2> QED
    BY <1>3, <2>2, <2>4, <2>5, <2>7, VariablesReadGoes DEF VariablesRead, VariablesTyped
<1> QED
  BY <1>1, <1>2, <1>3 DEF Getting

\* The value is asked for once more.
LEMMA VariablesReadAsks ==
  ASSUME Environment!VariablesFit, VariablesHeld, VariablesRead,
         req.at \in {"psize", "open", "rsize", "rfill", "esize"},
         NEW r, Environment!Goto(r), r.op = req.op, r.in = req.in, r.name = req.name, r.left = req.left,
           r.out = req.out,
         r.at \in {"pfill", "rsize", "rfill", "esize", "efill", "text"},
         r.at = "pfill" => req.at = "psize",
         r.at \in {"rsize", "rfill", "text"} => req.at \in {"open", "rsize", "rfill"},
         r.at \in {"esize", "efill"} => req.at \in {"rfill", "esize"},
         r.at = "text" => r.type \in Environment!Types /\ <<req.name, r.type, r.text>> \in Environment!There,
         r.at \in {"esize", "efill"} /\ req.op # "expand" =>
           <<req.name, "EXPAND", Environment!Literal>> \in Environment!There,
         r.at = "efill" => r.size \in Environment!Texts \cup {Environment!Literal}
           /\ <<"expansion", r.size>> \in Environment!There
  PROVE  VariablesReadKept
<1>1. req' = r /\ UNCHANGED <<penv, key, seen, writes>>
  BY DEF Environment!Goto, Environment!Unchanged
<1>2. UnderWay /\ req.op # "set"
  BY DEF VariablesRead, VariablesReadAt, Writing
<1>3. VariablesReadAt'
  BY <1>1, <1>2 DEF VariablesReadAt, VariablesRead, Writing, Getting
<1>4. FoundThere'
  <2>1. Environment!There' = Environment!There /\ \A e :
        Environment!ValueWasThere(req.in, e[1], e[2]) = Environment!ValueWasThere(req.in, e[1], e[2])'
    BY <1>1, SameThere, SameFound
  <2> QED
    BY <1>1, <1>2, <2>1 DEF FoundThere, UnderWay
<1>5. req.op \in Naming /\ req.in = "registry" => Enumerated'
  <2>1. Environment!There' = Environment!There /\ KeyNames' = KeyNames /\ NoneCame' = NoneCame
    BY <1>1, SameThere
  <2> QED
    BY <1>1, <1>2, <2>1 DEF UnderWay, Enumerated
<1> QED
  BY <1>1, <1>3, <1>4, <1>5, VariablesReadGoes DEF VariablesRead, VariablesTyped

LEMMA VariablesReadProcess ==
  ASSUME Environment!VariablesFit, VariablesHeld, VariablesRead, Environment!getFromProcess
  PROVE  VariablesReadKept
<1> USE DEF Environment!At
<1>1. CASE req.at = "noName" /\ Environment!Throw("InvalidArgument")
  BY <1>1, VariablesReadThrows
<1>2. CASE req.at = "psize" /\ penv[req.name] = Environment!Absent /\ Environment!Throw("NotFound")
  <2>1. Environment!DenialWasTrue
    BY <1>2, StoredFacts DEF VariablesRead, VariablesTyped, VariablesReadAt, Environment!DenialWasTrue,
       Environment!There, Environment!Variables
  <2> QED
    BY <1>2, <2>1, VariablesReadThrows
<1>3. CASE req.at = "psize" /\ Environment!Goto([req EXCEPT !.at = "pfill", !.size = penv[req.name] + 1])
  BY <1>3, VariablesReadAsks DEF VariablesHeld, VariableFields
<1>4. CASE req.at = "pfill" /\ Environment!Throw("SizeError")
  BY <1>4, VariablesReadThrows
<1>5. CASE req.at = "pfill" /\ Environment!Found(penv[req.name])
  <2>1. /\ req.in = "process" /\ req.op \in {"get", "exists"}
        /\ <<req.name, "process", penv[req.name]>> \in Environment!There
    BY <1>5, StoredFacts DEF VariablesRead, VariablesTyped, VariablesReadAt, Environment!There, Environment!Variables
  <2> QED
    BY <1>5, <2>1, VariablesReadFinds DEF Environment!ValueWasThere, Getting
<1> QED
  BY <1>1, <1>2, <1>3, <1>4, <1>5 DEF Environment!getFromProcess

LEMMA VariablesReadKey ==
  ASSUME Environment!VariablesFit, VariablesHeld, VariablesRead, Environment!getFromRegistry
         \/ Environment!getRegistryEnvironmentVariable
  PROVE  VariablesReadKept
<1> USE DEF Environment!At
<1> DEFINE i == Environment!Index(req.name)
<1>1. CASE req.at = "open" /\ Environment!Throw("EnvironmentVariableError")
  BY <1>1, VariablesReadThrows
<1>2. CASE req.at = "open" /\ Environment!Goto([req EXCEPT !.at = "rsize", !.held = {"key"}])
  BY <1>2, VariablesReadAsks DEF VariablesHeld, VariableFields
<1>3. CASE req.at = "rsize" /\ i = 0 /\ Environment!Throw("NotFound")
  <2>1. req.in = "registry" /\ req.name \in VariableNames \ KeyNames
    BY <1>3, VariableAt DEF VariablesRead, VariablesTyped, VariablesReadAt
  <2>2. Environment!DenialWasTrue
    BY <2>1, StoredFacts DEF VariablesRead, Environment!DenialWasTrue, Environment!There
  <2> QED
    BY <1>3, <2>2, VariablesReadThrows
<1>4. CASE req.at = "rsize" /\ Environment!Throw("TypeError")
  BY <1>4, VariablesReadThrows
<1>5. CASE req.at = "rsize" /\ Environment!Goto([req EXCEPT !.at = "rfill", !.size = key[i].text])
  BY <1>5, VariablesReadAsks DEF VariablesHeld, VariableFields
<1>6. CASE req.at = "rfill" /\ Environment!Throw("QueryError")
  BY <1>6, VariablesReadThrows
<1>7. CASE /\ req.at = "rfill" /\ i # 0
           /\ Environment!Goto([req EXCEPT !.at = IF key[i].type = "EXPAND" THEN "esize" ELSE "text",
                               !.type = key[i].type, !.text = key[i].text])
  <2> DEFINE at == IF key[i].type = "EXPAND" THEN "esize" ELSE "text"
             r == [req EXCEPT !.at = at, !.type = key[i].type, !.text = key[i].text]
  <2>1. i \in DOMAIN key /\ key[i].name = req.name /\ key[i] \in Environment!Entries
    BY <1>7, VariableAt, StoredFacts DEF VariablesRead
  <2>2. <<req.name, key[i].type, key[i].text>> \in Environment!There
    BY <2>1, StoredFacts DEF VariablesRead, Environment!There
  <2>3. key[i].type \in Environment!Types /\ (key[i].type = "EXPAND" => key[i].text = Environment!Literal)
    BY <2>1, VariableHas
  <2>4. /\ r.op = req.op /\ r.in = req.in /\ r.name = req.name /\ r.left = req.left /\ r.out = req.out
        /\ r.at = at /\ r.type = key[i].type /\ r.text = key[i].text /\ at \in {"esize", "text"}
    BY DEF VariablesHeld, VariableFields
  <2>5. Environment!Goto(r)
    BY <1>7
  <2> HIDE DEF r
  <2> QED
    BY <1>7, <2>2, <2>3, <2>4, <2>5, VariablesReadAsks
<1>8. CASE req.at = "text" /\ Environment!Found(req.text)
  <2>1. UnderWay /\ req.in = "registry" /\ req.op \in Getting
    BY <1>8 DEF VariablesRead, VariablesReadAt, Writing, Getting
  <2>2. Environment!ValueWasThere(req.in, req.name, req.text)
    BY <1>8, <2>1 DEF UnderWay, FoundThere, Environment!ValueWasThere, Environment!WasThere
  <2> QED
    BY <1>8, <2>1, <2>2, VariablesReadFinds
<1> QED
  BY <1>1, <1>2, <1>3, <1>4, <1>5, <1>6, <1>7, <1>8
     DEF Environment!getFromRegistry, Environment!getRegistryEnvironmentVariable

LEMMA VariablesReadExpands ==
  ASSUME Environment!VariablesFit, VariablesHeld, VariablesRead, Environment!expandRegistryValue \/ Environment!expand
  PROVE  VariablesReadKept
<1> USE DEF Environment!At
<1>0. Environment!Expanded \in Environment!Texts \cup {Environment!Literal}
      /\ <<"expansion", Environment!Expanded>> \in Environment!There
  BY StoredFacts DEF VariablesRead, Environment!There
<1>1. req.at \in {"esize", "efill"} => UnderWay /\ req.op # "set"
  BY DEF VariablesRead, VariablesReadAt, Writing
<1>2. CASE req.at = "esize" /\ Environment!Goto([req EXCEPT !.at = "efill", !.size = Environment!Expanded])
  <2>1. req.op # "expand" => <<req.name, "EXPAND", Environment!Literal>> \in Environment!There
    BY <1>1, <1>2 DEF UnderWay, FoundThere
  <2> QED
    BY <1>0, <1>2, <2>1, VariablesReadAsks DEF VariablesHeld, VariableFields
<1>3. CASE req.at = "efill" /\ req.op # "expand" /\ Environment!Found(IF Environment!Expanded > req.size
           THEN Environment!Torn ELSE Environment!Expanded)
  <2>1. req.in = "registry" /\ req.op \in Getting
    BY <1>3 DEF VariablesRead, VariablesReadAt
  <2>2. /\ <<req.name, "EXPAND", Environment!Literal>> \in Environment!There
        /\ req.size \in Environment!Texts \cup {Environment!Literal}
           /\ <<"expansion", req.size>> \in Environment!There
    BY <1>1, <1>3 DEF UnderWay, FoundThere
  <2>3. Environment!Expanded > req.size => Environment!Expanded # req.size
    BY <1>0, <2>2 DEF Environment!Texts, Environment!Literal, Environment!VariablesFit
  <2>4. Environment!ValueWasThere(req.in, req.name,
        IF Environment!Expanded > req.size THEN Environment!Torn ELSE Environment!Expanded)
    BY <1>0, <2>1, <2>2, <2>3 DEF Environment!ValueWasThere
  <2> QED
    BY <1>3, <2>1, <2>4, VariablesReadFinds
<1>4. CASE req.at = "efill" /\ Environment!Throw("ExpandError")
  BY <1>4, VariablesReadThrows
<1>5. CASE req.at = "efill" /\ req.op = "expand" /\ Environment!End("ok", {<<Ref, Environment!Expanded>>})
  <2>1. AllThere({<<Ref, Environment!Expanded>>})
    BY <1>0, <1>5, Pair DEF AllThere, Environment!ValueWasThere, VariablesRead, VariablesReadAt, Getting
  <2> QED
    BY <1>5, <2>1, VariablesReadEnds
<1> QED
  BY <1>2, <1>3, <1>4, <1>5 DEF Environment!expandRegistryValue, Environment!expand

LEMMA Single == ASSUME NEW a PROVE Len(<<a>>) = 1 /\ <<a>>[1] = a
OBVIOUS

\* One name after the other.
LEMMA Firsts == ASSUME NEW S PROVE {e[1] : e \in {<<n>> : n \in S}} = S
BY Single

LEMMA VariablesReadBlock ==
  ASSUME Environment!VariablesFit, VariablesHeld, VariablesRead, Environment!readBlock
  PROVE  VariablesReadKept
<1> USE DEF Environment!At
<1>0. req.at \in {"block", "copy"}
  BY DEF Environment!readBlock
<1>1. UnderWay /\ req.op # "set" /\ req.in = "process"
  BY <1>0 DEF VariablesRead, VariablesReadAt, Writing
<1>2. CASE Environment!Throw("EnvironmentGetError")
  BY <1>0, <1>2, VariablesReadThrows
<1> DEFINE all == {<<n, penv[n]>> : n \in {m \in Environment!Variables : penv[m] # Environment!Absent}}
<1>3. CASE req.at = "block" /\ Environment!Goto([req EXCEPT !.at = "copy", !.held = {"block"}, !.out = all])
  <2>1. \A e \in all : Environment!ValueWasThere(req.in, e[1], e[2])
    BY <1>1, StoredFacts, Pair DEF Environment!ValueWasThere, Environment!There, VariablesRead
  <2> HIDE DEF all
  <2>2. /\ req'.at = "copy" /\ req'.op = req.op /\ req'.in = req.in /\ req'.name = req.name /\ req'.out = all
        /\ UNCHANGED <<penv, key, seen, writes>>
    BY <1>3 DEF Environment!Goto, Environment!Unchanged, VariablesHeld, VariableFields
  <2>3. VariablesReadAt'
    BY <1>1, <1>3, <2>2 DEF VariablesReadAt, VariablesRead, Writing
  <2>4. FoundThere'
    BY <2>1, <2>2, SameFound DEF FoundThere
  <2> QED
    BY <1>0, <1>1, <2>2, <2>3, <2>4, VariablesReadGoes DEF VariablesRead, VariablesTyped
<1> DEFINE told == IF req.op = "getAll" THEN req.out ELSE {<<e[1]>> : e \in req.out}
<1>4. CASE req.at = "copy" /\ Environment!End("ok", told)
  <2>1. \A e \in told : Len(e) = 2 => Environment!ValueWasThere(req.in, e[1], e[2])
    BY <1>1, Single DEF UnderWay, FoundThere
  <2>2. AllThere(told)
    BY <1>1, <2>1 DEF AllThere
  <2> HIDE DEF told
  <2> QED
    BY <1>4, <2>2, VariablesReadEnds
<1> QED
  BY <1>2, <1>3, <1>4 DEF Environment!readBlock

LEMMA VariablesReadEnumerates ==
  ASSUME Environment!VariablesFit, VariablesHeld, VariablesRead, Environment!enumerate
  PROVE  VariablesReadKept
<1> USE DEF Environment!At
<1>0. req.at \in {"names", "count", "enum"}
  BY DEF Environment!enumerate
<1>1. UnderWay /\ req.op \in Naming /\ req.op # "set" /\ req.in = "registry" /\ Enumerated
  BY <1>0 DEF VariablesRead, VariablesReadAt, Writing, UnderWay
<1>2. ASSUME NEW r, Environment!Goto(r), r.op = req.op, r.in = req.in, r.name = req.name, r.out = req.out,
             r.at \in {"count", "enum", "next"}, r.at = "next" => req.op = "getAll", Enumerated'
      PROVE  VariablesReadKept
  <2>1. req' = r /\ UNCHANGED <<penv, key, seen, writes>>
    BY <1>2 DEF Environment!Goto, Environment!Unchanged
  <2>2. VariablesReadAt'
    BY <1>1, <1>2, <2>1 DEF VariablesReadAt, VariablesRead, Writing, Naming
  <2>3. FoundThere'
    <3>1. \A e : Environment!ValueWasThere(req.in, e[1], e[2]) = Environment!ValueWasThere(req.in, e[1], e[2])'
      BY <1>2, <2>1, SameFound
    <3> QED
      BY <1>1, <1>2, <2>1, <3>1 DEF FoundThere, UnderWay
  <2> QED
    BY <1>0, <1>1, <1>2, <2>1, <2>2, <2>3, VariablesReadGoes DEF VariablesRead, VariablesTyped
<1>3. CASE Environment!Throw("EnvironmentVariableError")
  BY <1>0, <1>3, VariablesReadThrows
<1>4. CASE req.at = "names" /\ Environment!Goto([req EXCEPT !.at = "count", !.held = {"key"}])
  <2>1. Enumerated'
    BY <1>1, <1>4 DEF Environment!Goto, Environment!Unchanged, VariablesHeld, VariableFields, Enumerated
  <2> QED
    BY <1>2, <1>4, <2>1 DEF VariablesHeld, VariableFields
<1>5. CASE req.at = "count" /\ Environment!Goto([req EXCEPT !.at = "enum", !.size = 1, !.last = Len(key)])
  <2>1. /\ req'.at = "enum" /\ req'.size = 1 /\ req'.last = Len(key) /\ req'.left = <<>> /\ req'.out = {}
        /\ UNCHANGED <<penv, key, seen>>
    BY <1>1, <1>5 DEF Environment!Goto, Environment!Unchanged, VariablesHeld, VariableFields, Enumerated
  <2>2. Len(key) \in Nat /\ Len(<<>>) = 0 /\ <<>> \in Seq(VariableNames)
    BY LenProperties, EmptySeq DEF VariablesRead, VariablesTyped
  <2>3. Enumerated'
    BY <2>1, <2>2 DEF Enumerated
  <2> QED
    BY <1>2, <1>5, <2>3 DEF VariablesHeld, VariableFields
<1>6. CASE /\ req.at = "enum" /\ req.size <= req.last
           /\ Environment!Goto([req EXCEPT !.size = @ + 1,
                     !.left = IF req.size > Len(key) THEN @ ELSE Append(@, key[req.size].name)])
  <2> DEFINE name == key[req.size].name
             left == IF req.size > Len(key) THEN req.left ELSE Append(req.left, name)
  <2>1. /\ req'.at = "enum" /\ req'.size = req.size + 1 /\ req'.last = req.last /\ req'.out = req.out
        /\ req'.left = left /\ UNCHANGED <<penv, key, seen>>
    BY <1>6 DEF Environment!Goto, Environment!Unchanged, VariablesHeld, VariableFields
  <2>2. req.left \in Seq(VariableNames) /\ req.size \in Nat \ {0} /\ req.out = {} /\ Len(key) \in Nat
    BY <1>1, <1>6, LenProperties DEF Enumerated, VariablesRead, VariablesTyped
  <2>3. req.size <= Len(key) =>
          /\ left \in Seq(VariableNames) /\ Len(left) = Len(req.left) + 1 /\ left[Len(req.left) + 1] = name
          /\ \A i \in 1..Len(req.left) : left[i] = req.left[i]
    <3>1. req.size <= Len(key) => name \in VariableNames
      BY <2>2, StoredFacts, VariableHas DEF VariablesRead
    <3> HIDE DEF name
    <3> QED
      BY <2>2, <3>1, AppendProperties
  <2>4. left \in Seq(VariableNames)
    BY <2>2, <2>3
  <2>5. ASSUME NoneCame
        PROVE  /\ req'.last = Len(key) /\ req'.size <= req'.last + 1 /\ Len(req'.left) = req'.size - 1
               /\ \A i \in 1..(req'.size - 1) : req'.left[i] = key[i].name
    <3>1. /\ req.last = Len(key) /\ Len(req.left) = req.size - 1
          /\ \A i \in 1..(req.size - 1) : req.left[i] = key[i].name
      BY <1>1, <1>6, <2>5 DEF Enumerated
    <3>2. req.size <= Len(key)
      BY <1>6, <3>1
    <3>3. /\ Len(left) = req.size /\ left[req.size] = name /\ \A i \in 1..(req.size - 1) : left[i] = key[i].name
      BY <2>2, <2>3, <3>1, <3>2
    <3>4. 1..(req'.size - 1) = 1..(req.size - 1) \cup {req.size}
      BY <2>1, <2>2
    <3> HIDE DEF left
    <3> QED
      BY <2>1, <2>2, <3>1, <3>2, <3>3, <3>4
  <2> HIDE DEF left
  <2>6. NoneCame' = NoneCame
    BY <2>1, SameThere
  <2>7. Enumerated'
    BY <2>1, <2>2, <2>4, <2>5, <2>6 DEF Enumerated
  <2> QED
    BY <1>2, <1>6, <2>7 DEF VariablesHeld, VariableFields
<1>7. NoneCame /\ req.at = "enum" /\ req.size > req.last => Environment!ToSet(req.left) = KeyNames
  <2>1. SUFFICES ASSUME NoneCame, req.at = "enum", req.size > req.last PROVE Environment!ToSet(req.left) = KeyNames
    OBVIOUS
  <2>2. /\ req.last = Len(key) /\ req.size <= req.last + 1 /\ Len(req.left) = req.size - 1
        /\ \A i \in 1..(req.size - 1) : req.left[i] = key[i].name
        /\ req.left \in Seq(VariableNames) /\ req.size \in Nat
    BY <1>1, <2>1 DEF Enumerated
  <2>3. DOMAIN key = 1..Len(key) /\ Len(key) \in Nat /\ DOMAIN req.left = 1..Len(req.left)
    BY <2>2, LenProperties DEF VariablesRead, VariablesTyped
  <2>4. Len(req.left) = Len(key) /\ req.size - 1 = Len(key)
    BY <2>1, <2>2, <2>3
  <2> QED
    BY <2>2, <2>3, <2>4 DEF Environment!ToSet, KeyNames
<1>8. CASE req.at = "enum" /\ req.size > req.last /\ Environment!End("ok",
           {<<n>> : n \in Environment!ToSet(req.left)})
  <2>1. Environment!NamesWereThere(Environment!ToSet(req.left))
    BY <1>7, <1>8, NamesAreThere DEF Environment!NamesWereThere, NoneCame, VariablesRead
  <2>2. AllThere({<<n>> : n \in Environment!ToSet(req.left)})
    BY <2>1, Firsts, Single DEF AllThere
  <2> QED
    BY <1>8, <2>2, VariablesReadEnds
<1>9. CASE /\ req.at = "enum" /\ req.size > req.last /\ req.op # "getNames"
           /\ Environment!Goto([req EXCEPT !.at = "next", !.held = {}])
  <2>1. /\ req'.at = "next" /\ req'.left = req.left /\ req'.out = req.out
        /\ UNCHANGED <<penv, key, seen>>
    BY <1>9 DEF Environment!Goto, Environment!Unchanged, VariablesHeld, VariableFields
  <2>2. req.out = {} /\ {e[1] : e \in req.out} = {}
    BY <1>1, <1>9 DEF Enumerated
  <2>3. NoneCame => {e[1] : e \in req'.out} \cup Environment!ToSet(req'.left) \cup {} = KeyNames
    BY <1>7, <1>9, <2>1, <2>2
  <2>4. Enumerated'
    BY <1>1, <2>1, <2>3, SameThere DEF Enumerated
  <2> QED
    BY <1>1, <1>2, <1>9, <2>4 DEF VariablesHeld, VariableFields, Naming
<1> QED
  BY <1>3, <1>4, <1>5, <1>6, <1>8, <1>9 DEF Environment!enumerate

LEMMA VariablesReadNextName ==
  ASSUME Environment!VariablesFit, VariablesHeld, VariablesRead, Environment!getAll
  PROVE  VariablesReadKept
<1>0. req.at = "next"
  BY DEF Environment!getAll, Environment!At
<1>1. UnderWay /\ req.op = "getAll" /\ req.in = "registry" /\ Enumerated
  BY <1>0 DEF VariablesRead, VariablesReadAt, Writing, UnderWay, Naming
<1>2. NoneCame => {e[1] : e \in req.out} \cup Environment!ToSet(req.left) = KeyNames
  BY <1>0, <1>1 DEF Enumerated
<1>3. CASE req.left = <<>> /\ Environment!End("ok", req.out)
  <2>1. Environment!ToSet(req.left) = {}
    BY <1>3 DEF Environment!ToSet
  <2>2. Environment!NamesWereThere({e[1] : e \in req.out})
    BY <1>2, <2>1, NamesAreThere DEF Environment!NamesWereThere, NoneCame, VariablesRead
  <2>3. AllThere(req.out)
    BY <1>1, <2>2 DEF AllThere, UnderWay, FoundThere
  <2> QED
    BY <1>0, <1>3, <2>3, VariablesReadEnds
<1>4. CASE /\ req.left # <<>>
           /\ Environment!Goto([req EXCEPT !.name = Head(req.left), !.left = Tail(@),
                               !.at = IF req.left[1] = NoName THEN "noName" ELSE "open"])
  <2>1. /\ req'.at \in {"noName", "open"} /\ req'.name = Head(req.left) /\ req'.left = Tail(req.left)
        /\ req'.op = req.op /\ req'.in = req.in /\ req'.out = req.out /\ UNCHANGED <<penv, key, seen, writes>>
    BY <1>4 DEF Environment!Goto, Environment!Unchanged, VariablesHeld, VariableFields
  <2>2. req.left \in Seq(VariableNames)
    BY <1>1 DEF Enumerated
  <2>3. /\ Head(req.left) \in VariableNames /\ Tail(req.left) \in Seq(VariableNames)
        /\ Environment!ToSet(req.left) = Environment!ToSet(Tail(req.left)) \cup {Head(req.left)}
    <3> DEFINE s == req.left
               t == Tail(s)
    <3>1. /\ Head(s) \in VariableNames /\ t \in Seq(VariableNames) /\ Len(t) = Len(s) - 1
          /\ \A i \in 1..Len(t) : t[i] = s[i + 1]
      BY <1>4, <2>2, HeadTailProperties
    <3>2. Len(s) \in Nat \ {0} /\ DOMAIN s = 1..Len(s) /\ Head(s) = s[1]
      BY <1>4, <2>2, LenProperties, EmptySeq
    <3> HIDE DEF t
    <3>3. DOMAIN t = 1..(Len(s) - 1) /\ \A i \in 1..(Len(s) - 1) : t[i] = s[i + 1]
      BY <3>1, LenProperties
    <3>4. \A i \in 1..Len(s) : s[i] \in Environment!ToSet(t) \cup {s[1]}
      <4> TAKE i \in 1..Len(s)
      <4>1. CASE i = 1
        BY <4>1
      <4>2. CASE i # 1
        <5>1. i - 1 \in 1..(Len(s) - 1) /\ (i - 1) + 1 = i
          BY <3>2, <4>2
        <5>2. t[i - 1] = s[i]
          BY <3>3, <5>1
        <5> QED
          BY <3>3, <5>1, <5>2 DEF Environment!ToSet
      <4> QED
        BY <4>1, <4>2
    <3>5. Environment!ToSet(t) \subseteq Environment!ToSet(s) /\ s[1] \in Environment!ToSet(s)
      <4>1. \A i \in 1..(Len(s) - 1) : i + 1 \in DOMAIN s
        BY <3>2
      <4>2. \A i \in 1..(Len(s) - 1) : t[i] \in Environment!ToSet(s)
        BY <3>3, <4>1 DEF Environment!ToSet
      <4>3. Environment!ToSet(t) = {t[i] : i \in 1..(Len(s) - 1)}
        BY <3>3 DEF Environment!ToSet
      <4>4. 1 \in DOMAIN s
        BY <3>2
      <4>5. s[1] \in Environment!ToSet(s)
        BY <4>4 DEF Environment!ToSet
      <4> QED
        BY <4>2, <4>3, <4>5
    <3>6. Environment!ToSet(s) = {s[i] : i \in 1..Len(s)}
      BY <3>2 DEF Environment!ToSet
    <3> QED
      BY <3>1, <3>2, <3>4, <3>5, <3>6 DEF t
  <2>4. NoneCame => {e[1] : e \in req'.out} \cup Environment!ToSet(req'.left) \cup {req'.name} = KeyNames
    BY <1>2, <2>1, <2>3
  <2>5. VariablesReadAt'
    BY <1>1, <2>1 DEF VariablesReadAt, Writing, Getting
  <2>6. FoundThere'
    BY <1>1, <2>1, SameFound DEF FoundThere, UnderWay
  <2>7. Enumerated'
    BY <2>1, <2>3, <2>4, SameThere DEF Enumerated
  <2> QED
    BY <1>0, <2>1, <2>3, <2>5, <2>6, <2>7, VariablesReadGoes
<1> QED
  BY <1>3, <1>4 DEF Environment!getAll

\* set() and remove() read nothing.
LEMMA VariablesReadWrites ==
  ASSUME Environment!VariablesFit, VariablesHeld, VariablesRead, Environment!checkAdmin \/ Environment!writeValue
  PROVE  VariablesReadKept
<1> USE DEF Environment!At
<1>0. req.at \in Writing
  BY DEF Environment!checkAdmin, Environment!writeValue, Writing
<1>1. req.op = "set" /\ req.at # "idle" /\ req.text \in Environment!Texts \cup {Environment!Absent}
  BY <1>0 DEF VariablesRead, VariablesReadAt, Writing
<1>2. ASSUME NEW code \in {"CheckAdminError", "AccessDenied", "EnvironmentVariableError"}, Environment!Throw(code)
      PROVE  VariablesReadKept
  BY <1>1, <1>2, VariablesReadThrows
<1>3. ASSUME NEW at \in Writing, NEW held, Environment!Goto([req EXCEPT !.at = at, !.held = held])
      PROVE VariablesReadKept
  <2>1. /\ req'.at = at /\ req'.op = req.op /\ req'.in = req.in /\ req'.name = req.name
        /\ req'.text = req.text /\ UNCHANGED <<penv, key, seen, writes>>
    BY <1>3 DEF Environment!Goto, Environment!Unchanged, VariablesHeld, VariableFields
  <2>2. VariablesReadAt'
    BY <1>1, <2>1 DEF VariablesReadAt, Writing
  <2> QED
    BY <1>1, <2>1, <2>2, VariablesReadGoes DEF VariablesRead, VariablesTyped, Writing
<1>4. CASE /\ key' = IF req.text = Environment!Absent
              THEN Environment!Without(req.name) ELSE Environment!Put(Environment!Entry(req.name, "SZ", req.text))
           /\ Environment!Leave("ok", {}) /\ UNCHANGED <<penv, seen, writes>>
  <2>1. req'.at = "idle" /\ req'.in = req.in /\ req'.name = req.name
    BY <1>4 DEF Environment!Leave, Environment!NoRequest
  <2>2. req.text # Environment!Absent => Environment!Entry(req.name, "SZ", req.text) \in Environment!Entries
    BY <1>1 DEF VariablesRead, VariablesTyped, Environment!Entries
  <2>3. key' \in Seq(Environment!Entries) /\ OneEach'
    BY <1>4, <2>2, VariablePut, VariableWithout DEF VariablesRead
  <2>4. VariablesTyped'
    BY <1>4, <2>1, <2>3 DEF VariablesRead, VariablesTyped
  <2>5. VariablesReadAt'
    BY <2>1 DEF VariablesReadAt, Writing
  <2> QED
    BY <1>1, <2>1, <2>4, <2>5 DEF VariablesRead, VariablesReadKept, Environment!ReadStep
<1>5. CASE Environment!checkAdmin
  BY <1>2, <1>3, <1>5 DEF Environment!checkAdmin, Writing
<1>6. CASE Environment!writeValue
  BY <1>2, <1>3, <1>4, <1>6 DEF Environment!writeValue, Writing
<1> QED
  BY <1>5, <1>6

LEMMA VariablesReadCall ==
  ASSUME Environment!VariablesFit, VariablesHeld, VariablesRead, Environment!Call
  PROVE  VariablesReadKept
<1>1. ASSUME NEW op \in {"get", "exists", "getNames", "getAll", "expand"}, NEW in \in {"process", "registry"},
             NEW n \in VariableNames, NEW at, Environment!Begin(op, in, n, at),
             \/ op \in {"get", "exists"} /\ at = IF n = NoName THEN "noName" ELSE
                IF in = "process" THEN "psize" ELSE "open"
             \/ op \in Naming /\ at = IF in = "process" THEN "block" ELSE "names"
             \/ op = "expand" /\ in = "process" /\ at = "esize"
      PROVE  VariablesReadKept
  <2>1. /\ req.at = "idle" /\ req'.at = at /\ req'.op = op /\ req'.in = in /\ req'.name = n
        /\ req'.left = <<>> /\ req'.out = {} /\ seen' = Environment!Stored /\ writes' = 0 /\ UNCHANGED <<penv, key>>
    BY <1>1 DEF Environment!Begin, Environment!NoRequest
  <2>2. VariablesTyped'
    BY <2>1 DEF VariablesRead, VariablesTyped, OneEach, Environment!VariablesFit
  <2>3. VariablesReadAt'
    BY <1>1, <2>1 DEF VariablesReadAt, Writing, Getting, Naming
  <2>4. seen' # {} /\ Environment!Stored' \subseteq seen'
    <3>1. Environment!Stored' = Environment!Stored
      BY <2>1 DEF Environment!Stored, Environment!Expanded
    <3> QED
      BY <2>1, <3>1, StoredFacts DEF VariablesRead
  <2>5. FoundThere'
    BY <1>1, <2>1 DEF FoundThere, Naming
  <2>6. op \in Naming /\ in = "registry" => Enumerated'
    BY <1>1, <2>1, EmptySeq DEF Enumerated, Naming
  <2> QED
    BY <2>1, <2>2, <2>3, <2>4, <2>5, <2>6 DEF VariablesRead, UnderWay, VariablesReadKept, Environment!ReadStep
<1>2. ASSUME NEW n, NEW text \in Environment!Texts \cup {Environment!Absent}, Environment!setProcess(n, text),
             n \in VariableNames PROVE VariablesReadKept
  <2>1. /\ req.at = "idle" /\ req' = Environment!NoRequest /\ UNCHANGED <<key, writes>>
        /\ penv' \in [Environment!Variables -> Environment!Texts \cup {Environment!Absent}]
    BY <1>2 DEF Environment!setProcess, VariablesRead, VariablesTyped, Environment!Variables
  <2>2. VariablesTyped'
    BY <2>1 DEF VariablesRead, VariablesTyped, OneEach, Environment!NoRequest, Environment!VariablesFit
  <2> QED
    BY <2>1, <2>2 DEF VariablesRead, VariablesReadAt, Environment!NoRequest, Writing, VariablesReadKept,
       Environment!ReadStep
<1>3. ASSUME NEW scope, NEW n \in VariableNames, NEW text \in Environment!Texts \cup {Environment!Absent},
             Environment!set(scope, n, text) PROVE VariablesReadKept
  <2>1. /\ req.at = "idle" /\ req'.at \in {"admin", "openWrite"} /\ req'.op = "set" /\ req'.in = "registry"
        /\ req'.name = n /\ req'.text = text /\ writes' = 0 /\ UNCHANGED <<penv, key>>
    BY <1>3 DEF Environment!set, Environment!NoRequest
  <2>2. VariablesTyped'
    BY <2>1 DEF VariablesRead, VariablesTyped, OneEach, Environment!VariablesFit
  <2>3. VariablesReadAt'
    BY <2>1 DEF VariablesReadAt, Writing
  <2> QED
    BY <2>1, <2>2, <2>3 DEF VariablesRead, VariablesReadKept, Environment!ReadStep
<1>4. CASE \E op \in {"get", "exists"}, in \in {"process", "registry"},
           n \in VariableNames : Environment!get(op, in, n)
  BY <1>1, <1>4 DEF Environment!get
<1>5. CASE \E op \in {"getNames", "getAll"}, in \in {"process", "registry"} : Environment!getNames(op, in)
  BY <1>1, <1>5 DEF Environment!getNames, Naming, Environment!VariablesFit
<1>6. CASE Environment!Begin("expand", "process", Ref, "esize")
  BY <1>1, <1>6 DEF Environment!VariablesFit, Environment!Variables
<1> QED
  BY <1>2, <1>3, <1>4, <1>5, <1>6 DEF Environment!Call

\* What others write makes a name come or go, or leaves the names as they are.
LEMMA VariablesReadOthers ==
  ASSUME Environment!VariablesFit, VariablesHeld, VariablesRead, Environment!OtherThread \/ Environment!OtherProcess
  PROVE  VariablesReadKept
<1>1. /\ penv' \in [Environment!Variables -> Environment!Texts \cup {Environment!Absent}]
         /\ key' \in Seq(Environment!Entries) /\ OneEach'
      /\ \/ key' = key
         \/ \E n \in KeyNames : n \notin KeyNames'
         \/ \E n \in KeyNames' : n \in VariableNames \ KeyNames
         \/ /\ KeyNames' = KeyNames /\ Len(key') = Len(key)
            /\ \A i \in 1..Len(key) : key'[i].name = key[i].name
  <2>1. CASE Environment!OtherThread
    BY <2>1 DEF Environment!OtherThread, VariablesRead, VariablesTyped, OneEach
  <2>2. ASSUME NEW e \in Environment!Entries, key' = Environment!Put(e), UNCHANGED penv PROVE <1>1!:
    BY <2>2, VariablePut, VariableHas DEF VariablesRead, VariablesTyped
  <2>3. ASSUME NEW n, key' = Environment!Without(n), UNCHANGED penv PROVE <1>1!:
    BY <2>3, VariableWithout DEF VariablesRead, VariablesTyped
  <2> QED
    BY <2>1, <2>2, <2>3 DEF Environment!OtherProcess
<1>2. CASE req.at = "idle"
  <2>1. req' = Environment!NoRequest /\ writes' = 0
    BY <1>2 DEF Environment!OtherThread, Environment!OtherProcess, Environment!OthersWrite, Environment!At
  <2>2. VariablesTyped'
    BY <1>1, <2>1 DEF VariablesTyped, Environment!NoRequest, Environment!VariablesFit
  <2> QED
    BY <1>2, <2>1, <2>2 DEF VariablesRead, VariablesReadAt, Environment!NoRequest, Writing, VariablesReadKept,
       Environment!ReadStep
<1>3. CASE req.at # "idle"
  <2>1. /\ req' = req /\ writes' \in 0..MaxVariableWrites
        /\ seen' = IF seen = {} THEN {} ELSE seen \cup Environment!Stored'
    BY <1>3 DEF Environment!OtherThread, Environment!OtherProcess, Environment!OthersWrite, Environment!At,
       VariablesRead, VariablesTyped, Environment!VariablesFit
  <2>2. VariablesTyped' /\ VariablesReadAt'
    BY <1>1, <2>1 DEF VariablesRead, VariablesTyped, VariablesReadAt
  <2>3. ASSUME req.op # "set" PROVE UnderWay'
    <3>1. UnderWay
      BY <1>3, <2>3 DEF VariablesRead
    <3>2. /\ seen' # {} /\ Environment!Stored' \subseteq seen' /\ Environment!There \subseteq Environment!There'
          /\ (Environment!There = seen) /\ Environment!There' = seen'
      BY <2>1, <3>1 DEF UnderWay, Environment!There
    <3>3. \A n, text : Environment!WasThere(n, text) => Environment!WasThere(n, text)'
      BY <3>2 DEF Environment!WasThere
    <3>4. \A e : Environment!ValueWasThere(req.in, e[1], e[2]) => Environment!ValueWasThere(req.in, e[1], e[2])'
      <4>1. ASSUME NEW n, NEW text PROVE Environment!ValueWasThere(req.in, n, text) =>
                   Environment!ValueWasThere(req.in, n, text)'
        <5>1. \A x : x \in Environment!There => x \in Environment!There'
          BY <3>2
        <5>2. /\ Environment!WasThere(n, text) => Environment!WasThere(n, text)'
              /\ req' = req
          BY <2>1, <3>3
        <5>3. \A x, y : {<<"expansion", x>>, <<"expansion", y>>} \subseteq Environment!There
                       => {<<"expansion", x>>, <<"expansion", y>>} \subseteq Environment!There'
          BY <5>1
        <5> QED
          BY <5>1, <5>2, <5>3 DEF Environment!ValueWasThere
      <4> QED
        BY <4>1
    <3>5. FoundThere'
      BY <2>1, <3>1, <3>2, <3>4 DEF FoundThere, UnderWay
    <3>6. NoneCame' => NoneCame
      BY <3>2, <3>3 DEF NoneCame, Environment!CameOrWent
    <3>7. NoneCame' => KeyNames' = KeyNames /\ Len(key') = Len(key)
          /\ \A i \in 1..Len(key) : key'[i].name = key[i].name
      <4>1. SUFFICES ASSUME NoneCame' PROVE <3>7!2
        OBVIOUS
      <4>2. ASSUME NEW n \in KeyNames, n \notin KeyNames' PROVE FALSE
        <5>1. PICK i \in DOMAIN key : key[i].name = n
          BY DEF KeyNames
        <5>2. key[i] \in Environment!Entries /\ <<n, key[i].type, key[i].text>> \in Environment!There
          BY <5>1, StoredFacts DEF Environment!There, VariablesRead
        <5>3. key[i].type \in Environment!Types /\ key[i].text \in Environment!Texts \cup {Environment!Literal}
              /\ n \in VariableNames
          BY <5>1, <5>2, VariableHas
        <5>4. \E text \in Environment!Texts \cup {Environment!Literal} : Environment!WasThere(n, text)'
          BY <3>2, <5>2, <5>3 DEF Environment!WasThere
        <5>5. <<n, Environment!Absent>> \in Environment!There'
          BY <4>2, <5>3 DEF Environment!There, Environment!Stored, KeyNames
        <5> QED
          BY <4>1, <5>3, <5>4, <5>5 DEF NoneCame, Environment!CameOrWent
      <4>3. ASSUME NEW n \in KeyNames', n \in VariableNames \ KeyNames PROVE FALSE
        <5>1. <<n, Environment!Absent>> \in Environment!There'
          BY <3>2, <4>3, StoredFacts DEF Environment!There, VariablesRead
        <5>2. PICK i \in DOMAIN key' : key'[i].name = n
          BY DEF KeyNames
        <5>3. key'[i] \in Environment!Entries /\ <<n, key'[i].type, key'[i].text>> \in Environment!There'
          BY <1>1, <5>2, LenProperties, ElementOfSeq DEF Environment!There, Environment!Stored
        <5>4. key'[i].type \in Environment!Types /\ key'[i].text \in Environment!Texts \cup {Environment!Literal}
          BY <5>3, VariableHas
        <5>5. \E text \in Environment!Texts \cup {Environment!Literal} : Environment!WasThere(n, text)'
          BY <5>3, <5>4 DEF Environment!WasThere
        <5> QED
          BY <4>1, <4>3, <5>1, <5>4, <5>5 DEF NoneCame, Environment!CameOrWent
      <4> QED
        BY <1>1, <4>2, <4>3 DEF KeyNames
    <3>8. req.op \in Naming /\ req.in = "registry" => Enumerated'
      <4>1. ASSUME Enumerated PROVE Enumerated'
        <5>1. NoneCame' /\ req.at \notin {"names", "count", "enum"} =>
                {e[1] : e \in req.out} \cup Environment!ToSet(req.left) \cup (IF req.at = "next"
                  THEN {} ELSE {req.name}) = KeyNames'
          BY <3>6, <3>7, <4>1 DEF Enumerated
        <5>2. NoneCame' /\ req.at = "enum" =>
                /\ req.last = Len(key') /\ req.size <= req.last + 1 /\ Len(req.left) = req.size - 1
                /\ \A i \in 1..(req.size - 1) : req.left[i] = key'[i].name
          <6>1. SUFFICES ASSUME NoneCame', req.at = "enum" PROVE <5>2!2
            OBVIOUS
          <6>2. /\ req.last = Len(key) /\ req.size <= req.last + 1 /\ Len(req.left) = req.size - 1
                /\ \A i \in 1..(req.size - 1) : req.left[i] = key[i].name
                /\ req.size \in Nat /\ Len(key) \in Nat
            BY <3>6, <4>1, <6>1, LenProperties DEF Enumerated, VariablesRead, VariablesTyped
          <6> QED
            BY <3>7, <6>1, <6>2
        <5> QED
          BY <2>1, <4>1, <5>1, <5>2 DEF Enumerated
      <4> QED
        BY <3>1, <4>1 DEF UnderWay
    <3> QED
      BY <2>1, <3>2, <3>5, <3>8 DEF UnderWay
  <2> QED
    BY <1>3, <2>1, <2>2, <2>3 DEF VariablesRead, VariablesReadKept, Environment!ReadStep
<1> QED
  BY <1>2, <1>3

LEMMA VariablesReadInit == ASSUME Environment!VariablesFit PROVE Environment!Init => VariablesRead
<1> SUFFICES ASSUME Environment!Init PROVE VariablesRead
  OBVIOUS
<1>1. <<>> \in Seq(Environment!Entries) /\ DOMAIN <<>> = {}
  BY EmptySeq
<1> QED
  BY <1>1 DEF Environment!Init, Environment!NoRequest, VariablesRead, VariablesTyped, OneEach, VariablesReadAt,
     Writing, Environment!VariablesFit

LEMMA VariablesReadNext ==
  ASSUME Environment!VariablesFit, VariablesHeld, VariablesRead, Environment!Next
  PROVE  VariablesReadKept
BY VariablesReadCall, VariablesReadProcess, VariablesReadKey, VariablesReadExpands, VariablesReadBlock,
   VariablesReadEnumerates, VariablesReadNextName, VariablesReadWrites, VariablesReadOthers
   DEF Environment!Next, Environment!Step

LEMMA VariablesReadStutter ==
  ASSUME VariablesRead, UNCHANGED Environment!vars
  PROVE  VariablesRead'
<1>1. req' = req /\ UNCHANGED <<penv, key, seen, writes>>
  BY DEF Environment!vars
<1>2. \A e : Environment!ValueWasThere(req.in, e[1], e[2]) = Environment!ValueWasThere(req.in, e[1], e[2])'
  BY <1>1, SameFound
<1>3. VariablesTyped' /\ VariablesReadAt'
  BY <1>1 DEF VariablesRead, VariablesTyped, OneEach, VariablesReadAt
<1>4. UnderWay => FoundThere'
  BY <1>1, <1>2, SameThere DEF UnderWay, FoundThere
<1>5. Enumerated => Enumerated'
  BY <1>1, SameThere DEF Enumerated
<1> QED
  BY <1>1, <1>3, <1>4, <1>5, SameThere DEF VariablesRead, UnderWay

LEMMA VariablesTypeOK == VariablesHeld /\ VariablesRead => Environment!TypeOK
<1> SUFFICES ASSUME VariablesHeld, VariablesRead PROVE Environment!TypeOK
  OBVIOUS
<1>1. DOMAIN key = 1..Len(key) /\ Len(key) \in Nat /\ \A i \in DOMAIN key : key[i] \in Environment!Entries
  BY LenProperties, ElementOfSeq DEF VariablesRead, VariablesTyped
<1>2. ASSUME NEW i \in DOMAIN key, NEW j \in 1..(i - 1) PROVE key[i].name # key[j].name
  <2>1. j \in DOMAIN key /\ j # i
    BY <1>1
  <2> QED
    BY <2>1 DEF VariablesRead, VariablesTyped, OneEach
<1> QED
  BY <1>1, <1>2 DEF Environment!TypeOK, VariablesHeld, VariablesRead, VariablesTyped

-----------------------------------------------------------------------------
(* Registry: but for deleteKeyRecursively(), whose levels close their own,  *)
(* a call has no key open or the one that its guard closes.                 *)

JobFields == {"op", "at", "path", "entry", "n", "open", "out", "said"}
Closed == {"idle", "exists", "create", "auto", "open", "vopen"}
Deleting == {"delete", "first", "remove", "result"}

KeysHeld ==
  /\ DOMAIN job = JobFields
  /\ job.at \in Closed => job.open = <<>>
  /\ job.at \notin Closed \cup Deleting => \E h : job.open = <<h>>

LEMMA FrontOfOne == ASSUME NEW h PROVE Manager!Front(<<h>>) = <<>>
BY DEF Manager!Front

LEMMA KeysInit == Manager!Init => KeysHeld
BY DEF Manager!Init, Manager!NoJob, KeysHeld, JobFields, Closed

\* The guard closes the one key when the call returns or throws.
LEMMA KeysOver ==
  ASSUME KeysHeld, job.at \notin Deleting \/ job.open = <<>>,
         NEW said, NEW out, job' = Manager!Over(said, out)
  PROVE  KeysHeld'
<1>1. job.open = <<>> \/ Manager!Front(job.open) = <<>>
  <2>1. CASE job.at \notin Closed \cup Deleting
    <3>1. PICK h : job.open = <<h>>
      BY <2>1 DEF KeysHeld
    <3> QED
      BY <3>1, FrontOfOne
  <2> QED
    BY <2>1 DEF KeysHeld
<1>2. job'.open = <<>> /\ job'.at = "idle" /\ DOMAIN job' = JobFields
  BY <1>1 DEF Manager!Over, Manager!NoJob, JobFields
<1> QED
  BY <1>2 DEF KeysHeld, Closed, Deleting

LEMMA KeysThrow ==
  ASSUME KeysHeld, job.at \notin Deleting, NEW code, Manager!Throw(code)
  PROVE  KeysHeld'
BY KeysOver DEF Manager!Throw, Manager!Return, Manager!Goto

LEMMA KeysReturn ==
  ASSUME KeysHeld, job.at \notin Deleting, NEW said, NEW out, Manager!Return(said, out)
  PROVE  KeysHeld'
BY KeysOver DEF Manager!Return, Manager!Goto

\* A call goes on with the keys it has, or opens its one key.
LEMMA KeysGoOn ==
  ASSUME KeysHeld, NEW j, job' = j, DOMAIN j = JobFields,
         \/ j.at \in Closed /\ job.at \in Closed /\ j.open = job.open
         \/ j.at \notin Closed \cup Deleting /\ job.at \notin Closed \cup Deleting /\ j.open = job.open
         \/ j.at \notin Closed /\ \E h : j.open = <<h>>
         \/ j.at \in Deleting
  PROVE  KeysHeld'
BY DEF KeysHeld, Closed, Deleting

LEMMA KeysOpen ==
  ASSUME KeysHeld, NEW next, next \notin Closed, Manager!openKey(next)
  PROVE  KeysHeld'
<1>1. CASE Manager!Goto([job EXCEPT !.at = next, !.open = <<Manager!Handle(job.path)>>])
  BY <1>1, KeysGoOn DEF Manager!Goto, KeysHeld, JobFields
<1> QED
  BY <1>1, KeysThrow DEF Manager!openKey, Manager!At, Deleting

LEMMA KeysBegin ==
  ASSUME KeysHeld, NEW op, NEW p, NEW e, NEW at \in Closed \cup Deleting, Manager!Begin(op, p, e, at)
  PROVE  KeysHeld'
<1>1. job'.open = <<>> /\ job'.at = at /\ DOMAIN job' = JobFields
  BY DEF Manager!Begin, Manager!NoJob, JobFields
<1> QED
  BY <1>1 DEF KeysHeld, Closed, Deleting

LEMMA KeysCall == ASSUME KeysHeld, Manager!Call PROVE KeysHeld'
<1> USE KeysBegin DEF Closed, Deleting
<1>1. ASSUME NEW p, NEW op \in {"exists", "create", "delete"}, NEW e, Manager!Begin(op, p, e, op)
      PROVE  KeysHeld'
  BY <1>1
<1>2. ASSUME NEW op, NEW p, NEW e, Manager!Begin(op, p, e, "open") PROVE KeysHeld'
  BY <1>2
<1>3. ASSUME NEW e, Manager!Begin("valueExists", Valued, e, "vopen") PROVE KeysHeld'
  BY <1>3
<1>4. ASSUME NEW op, NEW types, NEW e, Manager!Set(op, types, Valued, e) PROVE KeysHeld'
  BY <1>4 DEF Manager!Set
<1> QED
  BY <1>1, <1>2, <1>3, <1>4 DEF Manager!Call, Manager!setString, Manager!setDWord, Manager!setQWord,
     Manager!setBinary, Manager!setMultiString

LEMMA KeysOthers == ASSUME KeysHeld, Manager!OtherProcess PROVE KeysHeld'
<1>1. CASE job.at = "idle"
  BY <1>1 DEF Manager!OtherProcess, Manager!At, Manager!NoJob, KeysHeld, JobFields, Closed
<1>2. CASE job.at # "idle"
  <2> DEFINE gone == keys \ keys'
             open == Manager!Bury(job.open, gone)
  <2>1. job' = [job EXCEPT !.open = open]
    BY <1>2 DEF Manager!OtherProcess, Manager!At
  <2>2. DOMAIN job' = JobFields /\ job'.at = job.at /\ job'.open = open
    BY <2>1 DEF KeysHeld, JobFields
  <2>3. job.open = <<>> => open = <<>>
    BY DEF Manager!Bury
  <2>4. ASSUME NEW h, job.open = <<h>> PROVE \E g : open = <<g>>
    <3>1. DOMAIN job.open = 1..1 /\ \A i \in 1..1 : i = 1
      BY <2>4
    <3>2. DOMAIN open = 1..1 /\ open = [i \in 1..1 |-> open[i]]
      BY <3>1 DEF Manager!Bury
    <3>3. PICK g : g = open[1]
      OBVIOUS
    <3>4. open = [i \in 1..1 |-> g]
      BY <3>1, <3>2, <3>3
    <3> QED
      BY <3>4
  <2> QED
    BY <2>2, <2>3, <2>4 DEF KeysHeld
<1> QED
  BY <1>1, <1>2


LEMMA KeysCreate ==
  ASSUME KeysHeld, Manager!keyExists \/ Manager!createKey \/ Manager!autoCreateKey
  PROVE  KeysHeld'
<1> USE DEF Manager!At, Deleting
<1>1. CASE Manager!keyExists
  BY <1>1, KeysThrow, KeysReturn DEF Manager!keyExists
<1>2. CASE Manager!createKey
  <2>1. CASE job.at = "create" /\ job' = Manager!Over("ok", <<>>)
    BY <2>1, KeysOver
  <2> QED
    BY <1>2, <2>1, KeysThrow DEF Manager!createKey
<1>3. CASE Manager!autoCreateKey
  <2>1. CASE job.at = "auto" /\ \E code : Manager!Throw(code)
    BY <2>1, KeysThrow
  <2>2. ASSUME NEW at \in {"auto", "open"}, NEW n, job.at = "auto",
               job' = [job EXCEPT !.at = at, !.n = n]
        PROVE  KeysHeld'
    BY <2>2, KeysGoOn DEF KeysHeld, JobFields, Closed
  <2>3. CASE job.at = "auto" /\ Manager!Goto([job EXCEPT !.n = 1])
    BY <2>3, KeysGoOn DEF Manager!Goto, KeysHeld, JobFields, Closed
  <2> QED
    BY <1>3, <2>1, <2>2, <2>3 DEF Manager!autoCreateKey
<1> QED
  BY <1>1, <1>2, <1>3

LEMMA KeysDelete ==
  ASSUME KeysHeld,
         \/ Manager!deleteKeyOpen \/ Manager!deleteKeyEnum
         \/ Manager!deleteKeyRemove \/ Manager!deleteKeyResult
  PROVE  KeysHeld'
<1> USE DEF Manager!At, Manager!Goto
<1>1. ASSUME DOMAIN job' = JobFields, job'.at \in Deleting PROVE KeysHeld'
  BY <1>1 DEF KeysHeld, Closed, Deleting
<1> USE DEF Manager!Result
<1>2. CASE Manager!deleteKeyOpen
  BY <1>1, <1>2 DEF Manager!deleteKeyOpen, KeysHeld, JobFields, Deleting
<1>3. CASE Manager!deleteKeyEnum
  <2> DEFINE closed == [job EXCEPT !.open = Manager!Front(job.open)]
  <2>1. CASE job' = [closed EXCEPT !.at = "result", !.said = "failed"]
    BY <1>1, <2>1 DEF KeysHeld, JobFields, Deleting
  <2>2. CASE job' = [closed EXCEPT !.at = "remove"]
    BY <1>1, <2>2 DEF KeysHeld, JobFields, Deleting
  <2>3. CASE \E p : job' = [job EXCEPT !.at = "delete", !.path = p]
    BY <1>1, <2>3 DEF KeysHeld, JobFields, Deleting
  <2> HIDE DEF closed
  <2> QED
    BY <1>3, <2>1, <2>2, <2>3 DEF Manager!deleteKeyEnum, closed
<1>4. CASE Manager!deleteKeyRemove
  BY <1>1, <1>4 DEF Manager!deleteKeyRemove, KeysHeld, JobFields, Deleting
<1>5. CASE Manager!deleteKeyResult
  <2>1. CASE job.open = <<>> /\ \E said : Manager!Return(said, <<>>)
    BY <2>1, KeysOver DEF Manager!Return
  <2>2. CASE \E p : job' = [job EXCEPT !.at = "first", !.path = p]
    BY <1>1, <2>2 DEF KeysHeld, JobFields, Deleting
  <2>3. CASE /\ job.at = "result"
             /\ job' = [job EXCEPT !.path = Manager!Top.path, !.open = Manager!Front(job.open)]
    BY <1>1, <2>3 DEF KeysHeld, JobFields, Deleting
  <2> QED
    BY <1>5, <2>1, <2>2, <2>3 DEF Manager!deleteKeyResult
<1> QED
  BY <1>2, <1>3, <1>4, <1>5

LEMMA KeysValues ==
  ASSUME KeysHeld,
         \/ Manager!valueExists \/ Manager!getValueType \/ Manager!getValue \/ Manager!expandValue
         \/ Manager!setValue \/ Manager!deleteValue
  PROVE  KeysHeld'
<1> USE DEF Manager!At, Closed, Deleting, Manager!Dead
<1>1. ASSUME NEW j, Manager!Goto(j), DOMAIN j = JobFields, j.at \in {"data", "expand"},
             job.at \in {"size", "data"}, j.open = job.open
      PROVE  KeysHeld'
  BY <1>1, KeysGoOn DEF Manager!Goto
<1>2. CASE Manager!valueExists
  <2>1. CASE Manager!Goto([job EXCEPT !.at = "vquery", !.open = <<Manager!Handle(job.path)>>])
    BY <2>1, KeysGoOn DEF Manager!Goto, KeysHeld, JobFields
  <2> QED
    BY <1>2, <2>1, KeysThrow, KeysReturn DEF Manager!valueExists
<1>3. CASE Manager!getValueType
  BY <1>3, KeysOpen, KeysThrow, KeysReturn DEF Manager!getValueType
<1>4. CASE Manager!getValue
  <2> DEFINE i == Manager!Index(job.entry.name)
  <2>1. CASE job.at = "size" /\ Manager!Goto([job EXCEPT !.at = "data", !.n = list[i].len])
    BY <2>1, <1>1 DEF KeysHeld, JobFields
  <2>2. CASE job.at = "data" /\ Manager!Goto([job EXCEPT !.at = "expand", !.entry = list[i]])
    BY <2>2, <1>1 DEF KeysHeld, JobFields
  <2>3. CASE Manager!openKey("size")
    BY <2>3, KeysOpen
  <2>4. CASE /\ job.at \in {"size", "data"}
             /\ (\E code : Manager!Throw(code)) \/ (\E out : Manager!Return("ok", out))
    BY <2>4, KeysThrow, KeysReturn
  <2> QED
    BY <1>4, <2>1, <2>2, <2>3, <2>4 DEF Manager!getValue
<1>5. CASE Manager!expandValue
  BY <1>5, KeysReturn DEF Manager!expandValue
<1>6. CASE Manager!setValue
  <2>1. CASE job.at = "write" /\ job' = Manager!Over("ok", <<>>)
    BY <2>1, KeysOver
  <2> QED
    BY <1>6, <2>1, KeysOpen, KeysThrow DEF Manager!setValue
<1>7. CASE Manager!deleteValue
  <2>1. CASE job.at = "unset" /\ job' = Manager!Over("ok", <<>>)
    BY <2>1, KeysOver
  <2> QED
    BY <1>7, <2>1, KeysOpen, KeysThrow DEF Manager!deleteValue
<1> QED
  BY <1>2, <1>3, <1>4, <1>5, <1>6, <1>7

LEMMA KeysLists ==
  ASSUME KeysHeld,
         Manager!getSubKeys \/ Manager!getValueNames \/ Manager!getItems \/ Manager!enumNext
  PROVE  KeysHeld'
<1> USE DEF Manager!At, Closed, Deleting, Manager!Dead
<1>1. ASSUME NEW j, Manager!Goto(j), DOMAIN j = JobFields, j.at \in {"items", "enum"},
             job.at \in {"count", "items", "enum"}, j.open = job.open
      PROVE  KeysHeld'
  BY <1>1, KeysGoOn DEF Manager!Goto
<1>2. CASE Manager!getSubKeys \/ Manager!getValueNames
  BY <1>2, KeysOpen, KeysThrow DEF Manager!getSubKeys, Manager!getValueNames
<1>3. CASE Manager!getItems
  <2>1. CASE /\ job.at = "count"
             /\ Manager!Goto([job EXCEPT !.at = "items", !.entry = [@ EXCEPT !.len = Manager!Count]])
    BY <2>1, <1>1 DEF KeysHeld, JobFields
  <2>2. CASE \E out : job.at = "items" /\ Manager!Goto([job EXCEPT !.n = job.n + 1, !.out = out])
    BY <2>2, <1>1 DEF KeysHeld, JobFields
  <2>3. CASE Manager!openKey("count")
    BY <2>3, KeysOpen
  <2>4. CASE /\ job.at \in {"count", "items"}
             /\ Manager!Throw("RegistryQueryFailed") \/ Manager!Return("ok", job.out)
    BY <2>4, KeysThrow, KeysReturn
  <2> QED
    BY <1>3, <2>1, <2>2, <2>3, <2>4 DEF Manager!getItems
<1>4. CASE Manager!enumNext
  <2>1. CASE \E out : job.at = "enum" /\ Manager!Goto([job EXCEPT !.n = job.n + 1, !.out = out])
    BY <2>1, <1>1 DEF KeysHeld, JobFields
  <2> QED
    BY <1>4, <2>1, KeysThrow, KeysReturn DEF Manager!enumNext
<1> QED
  BY <1>2, <1>3, <1>4

LEMMA KeysNext == KeysHeld /\ Manager!Next => KeysHeld'
BY KeysCall, KeysOthers, KeysCreate, KeysDelete, KeysValues, KeysLists
   DEF Manager!Next, Manager!Step

-----------------------------------------------------------------------------
(* Registry: what a read has found so far was there.                        *)

Handles == [path : Paths, alive : BOOLEAN]
ListOps == {"getSubKeys", "getValueNames", "getItems"}
KeyOps == {"exists", "create", "delete", "getSubKeys"}

KeysTyped ==
  /\ keys \subseteq Paths /\ \A p \in keys : Manager!Levels(p) \subseteq keys
  /\ list \in Seq(ValueEntries) /\ (list # <<>> => Valued \in keys)
  /\ job.path \in Paths /\ job.open \in Seq(Handles)
  /\ changes \in 0..MaxWrites

\* Which call is at each place in the code.
KeysAt ==
  /\ job.at \in {"exists", "create"} => job.op = job.at
  /\ job.at \in Deleting => job.op = "delete"
  /\ job.at = "auto" => job.op \in Manager!Setters /\ job.n \in 0..Len(job.path)
  /\ job.at = "open" => job.op \in Manager!Setters \cup ListOps \cup {"getValue", "getValueType", "deleteValue"}
  /\ job.at \in {"vopen", "vquery"} => job.op = "valueExists"
  /\ job.at = "write" => job.op \in Manager!Setters
  /\ job.at = "unset" => job.op = "deleteValue"
  /\ job.at = "type" => job.op = "getValueType"
  /\ job.at \in {"size", "data", "expand"} => job.op = "getValue"
  /\ job.at \in {"count", "items"} => job.op = "getItems"
  /\ job.at = "enum" => job.op \in {"getSubKeys", "getValueNames"}
  /\ job.op \notin KeyOps => job.path = Valued
  /\ job.at \notin {"idle", "items"} => job.entry \in ValueEntries

\* The one key that is open stands for the path as long as it is there.
OneOpen ==
  job.at \notin Closed \cup Deleting =>
    /\ Len(job.open) = 1 /\ Manager!Top.path = job.path
    /\ Manager!Top.alive => job.path \in keys
    /\ changes = 0 => Manager!Top.alive

\* A value read is the one asked for; its size was told before.
ValueRead ==
  /\ job.at = "data" =>
       /\ job.n \in Nat
       /\ changes = 0 => Manager!Index(job.entry.name) # 0 /\ list[Manager!Index(job.entry.name)].len = job.n
  /\ job.at = "expand" =>
       /\ job.entry.type = "EXPAND_SZ" /\ <<"value", job.entry.name, job.entry.type, job.entry.len>> \in was
       /\ job.n \in Nat /\ job.n >= job.entry.len /\ (job.n > job.entry.len => changes > 0)

\* What has been listed are the first, if nobody has written.
Listed ==
  /\ job.op \in ListOps /\ job.at \in {"open", "count"} => job.n = 0 /\ job.out = <<>>
  /\ job.at \in {"enum", "items"} =>
       /\ job.n \in Nat
       /\ changes = 0 => job.n <= Manager!Count /\ job.out = [i \in 1..job.n |-> Manager!Nth(i)]
  /\ job.at = "items" =>
       /\ job.entry.len \in Nat /\ job.n <= job.entry.len
       /\ changes = 0 => job.entry.len = Manager!Count

Removed ==
  job.at = "result" /\ job.said \in {"SUCCESS", "FILE_NOT_FOUND"} => <<"key", job.path, FALSE>> \in was

\* A reader remembers what is there.
Remembered == job.at # "idle" /\ job.op \in Manager!Reads => was # {} /\ Manager!Facts \subseteq was

KeysRead == KeysTyped /\ KeysAt /\ OneOpen /\ ValueRead /\ Listed /\ Removed /\ Remembered
KeysKept == KeysRead' /\ Manager!ReadStep

-----------------------------------------------------------------------------
(* Paths *)

LEMMA Level ==
  ASSUME Manager!KeysFit, NEW p \in Paths, NEW n \in 1..Len(p)
  PROVE  /\ SubSeq(p, 1, n) \in Manager!Levels(p) /\ SubSeq(p, 1, n) \in Paths /\ Len(SubSeq(p, 1, n)) = n
         /\ Manager!Levels(SubSeq(p, 1, n)) \subseteq Manager!Levels(p)
<1>1. p \in Seq(STRING) /\ Manager!Levels(p) \subseteq Paths /\ Len(p) \in Nat
  BY LenProperties DEF Manager!KeysFit
<1> DEFINE q == SubSeq(p, 1, n)
<1>2. q \in Manager!Levels(p) /\ q \in Paths
  BY <1>1 DEF Manager!Levels
<1>3. q \in Seq(STRING) /\ Len(q) = n
  <2>1. \A i \in 1..n : p[i] \in STRING
    BY <1>1, ElementOfSeq
  <2> QED
    BY <1>1, <2>1, SubSeqProperties
<1>4. ASSUME NEW m \in 1..n PROVE SubSeq(q, 1, m) = SubSeq(p, 1, m)
  <2>1. n \in 1..Len(p) /\ 1 \in 1..Len(p) /\ 1 \in 1..(n - 1 + 1) /\ m \in 1..(n - 1 + 1)
    BY <1>1
  <2>2. SubSeq(SubSeq(p, 1, n), 1, m) = SubSeq(p, 1 + 1 - 1, 1 + m - 1)
    BY <1>1, <2>1, SubSeqOfSubSeq
  <2>3. 1 + 1 - 1 = 1 /\ 1 + m - 1 = m
    OBVIOUS
  <2> QED
    BY <2>2, <2>3
<1>5. Manager!Levels(q) \subseteq Manager!Levels(p)
  <2>1. ASSUME NEW m \in 1..n PROVE SubSeq(q, 1, m) \in Manager!Levels(p)
    BY <1>1, <1>4 DEF Manager!Levels
  <2> QED
    BY <1>3, <2>1 DEF Manager!Levels
<1> QED
  BY <1>2, <1>3, <1>5

LEMMA TopLevel ==
  ASSUME Manager!KeysFit, NEW p \in Paths
  PROVE  p \in Manager!Levels(p) /\ Manager!Levels(p) \subseteq Paths /\ Len(p) \in Nat \ {0}
<1>1. p \in Seq(STRING) /\ p # <<>> /\ Manager!Levels(p) \subseteq Paths
  BY DEF Manager!KeysFit
<1>2. Len(p) \in Nat \ {0} /\ SubSeq(p, 1, Len(p)) = p
  BY <1>1, EmptySeq, SubSeqFull
<1>3. Len(p) \in 1..Len(p)
  BY <1>2, SMTT(60)
<1>4. p \in Manager!Levels(p)
  BY <1>2, <1>3 DEF Manager!Levels
<1> QED
  BY <1>1, <1>2, <1>4

\* A key comes with the keys above it.
LEMMA KeyCreated ==
  ASSUME Manager!KeysFit, KeysTyped, NEW p \in Paths
  PROVE  /\ keys \cup Manager!Levels(p) \subseteq Paths
         /\ \A q \in keys \cup Manager!Levels(p) : Manager!Levels(q) \subseteq keys \cup Manager!Levels(p)
<1>1. keys \subseteq Paths /\ \A q \in keys : Manager!Levels(q) \subseteq keys
  BY DEF KeysTyped
<1>2. Manager!Levels(p) \subseteq Paths
  BY TopLevel
<1>3. \A q \in Manager!Levels(p) : Manager!Levels(q) \subseteq Manager!Levels(p)
  BY Level DEF Manager!Levels
<1> QED
  BY <1>1, <1>2, <1>3

\* A key goes with the keys below it.
LEMMA KeyDeleted ==
  ASSUME Manager!KeysFit, KeysTyped, NEW p \in Paths
  PROVE  LET left == keys \ ({p} \cup Manager!Below(p)) IN
         left \subseteq Paths /\ \A q \in left : Manager!Levels(q) \subseteq left
<1> DEFINE left == keys \ ({p} \cup Manager!Below(p))
<1>1. keys \subseteq Paths /\ \A q \in keys : Manager!Levels(q) \subseteq keys
  BY DEF KeysTyped
<1>2. ASSUME NEW q \in left, NEW n \in 1..Len(q) PROVE SubSeq(q, 1, n) \in left
  <2> DEFINE r == SubSeq(q, 1, n)
  <2>1. q \in keys /\ q \in Paths /\ q # p /\ ~Manager!IsStrictPrefix(p, q)
    BY <1>1 DEF Manager!Below
  <2>2. q \in Seq(STRING) /\ Len(q) \in Nat /\ p \in Seq(STRING) /\ Len(p) \in Nat
    BY <2>1, LenProperties DEF Manager!KeysFit
  <2>3. r \in keys /\ Len(r) = n
    BY <1>1, <2>1, Level DEF Manager!Levels
  <2>4. ASSUME NEW m \in 1..n PROVE SubSeq(r, 1, m) = SubSeq(q, 1, m)
    <3>1. n \in 1..Len(q) /\ 1 \in 1..Len(q) /\ 1 \in 1..(n - 1 + 1) /\ m \in 1..(n - 1 + 1)
      BY <2>2
    <3>2. SubSeq(SubSeq(q, 1, n), 1, m) = SubSeq(q, 1 + 1 - 1, 1 + m - 1)
      BY <2>2, <3>1, SubSeqOfSubSeq
    <3>3. 1 + 1 - 1 = 1 /\ 1 + m - 1 = m
      OBVIOUS
    <3> QED
      BY <3>2, <3>3
  <2>5. Len(p) \in 1..Len(p) /\ SubSeq(p, 1, Len(p)) = p
    BY <2>2, TopLevel, SubSeqFull
  <2>6. ASSUME Len(p) <= n, SubSeq(q, 1, Len(p)) = p PROVE FALSE
    BY <2>1, <2>2, <2>5, <2>6 DEF Manager!IsStrictPrefix, Manager!IsPrefix
  <2>7. r # p
    <3>1. SUFFICES ASSUME r = p PROVE FALSE
      OBVIOUS
    <3> QED
      BY <2>3, <2>6, <3>1
  <2>8. ~Manager!IsStrictPrefix(p, r)
    <3>1. SUFFICES ASSUME Manager!IsPrefix(p, r) PROVE FALSE
      BY DEF Manager!IsStrictPrefix
    <3>2. Len(p) <= n /\ SubSeq(r, 1, Len(p)) = p
      BY <2>3, <2>5, <3>1 DEF Manager!IsPrefix
    <3>3. SubSeq(r, 1, Len(p)) = SubSeq(q, 1, Len(p))
      BY <2>2, <2>4, <2>5, <3>2
    <3> QED
      BY <2>6, <3>2, <3>3
  <2> QED
    BY <2>3, <2>7, <2>8 DEF Manager!Below
<1>3. \A q \in left : Manager!Levels(q) \subseteq left
  BY <1>2 DEF Manager!Levels
<1> QED
  BY <1>1, <1>3

-----------------------------------------------------------------------------
(* Values *)

LEMMA ValueAt ==
  ASSUME KeysTyped, NEW n
  PROVE  IF Manager!Index(n) = 0 THEN \A i \in DOMAIN list : list[i].name # n
         ELSE Manager!Index(n) \in 1..Len(list) /\ list[Manager!Index(n)].name = n
           /\ list[Manager!Index(n)] \in ValueEntries
<1>1. DOMAIN list = 1..Len(list) /\ Len(list) \in Nat /\ \A i \in DOMAIN list : list[i] \in ValueEntries
  BY LenProperties, ElementOfSeq DEF KeysTyped
<1>2. CASE \E i \in DOMAIN list : list[i].name = n
  <2>1. Manager!Index(n) \in DOMAIN list /\ list[Manager!Index(n)].name = n
    BY <1>2 DEF Manager!Index
  <2>2. Manager!Index(n) # 0
    BY <1>1, <2>1
  <2> QED
    BY <1>1, <2>1, <2>2
<1>3. CASE ~ \E i \in DOMAIN list : list[i].name = n
  BY <1>3 DEF Manager!Index
<1> QED
  BY <1>2, <1>3

LEMMA ValuePut ==
  ASSUME KeysTyped, NEW e \in ValueEntries
  PROVE  Manager!Put(e) \in Seq(ValueEntries)
<1> DEFINE i == Manager!Index(e.name)
<1>1. list \in Seq(ValueEntries)
  BY DEF KeysTyped
<1>2. i = 0 \/ i \in 1..Len(list)
  BY ValueAt
<1> HIDE DEF i
<1> QED
  BY <1>1, <1>2, ExceptSeq, AppendProperties DEF Manager!Put, i

LEMMA ValueRemoved ==
  ASSUME KeysTyped, NEW n
  PROVE  Manager!Without(n) \in Seq(ValueEntries) /\ (list = <<>> => Manager!Without(n) = <<>>)
<1> DEFINE i == Manager!Index(n)
<1>1. list \in Seq(ValueEntries) /\ DOMAIN list = 1..Len(list) /\ Len(list) \in Nat
  BY LenProperties DEF KeysTyped
<1>2. i = 0 \/ i \in 1..Len(list)
  BY ValueAt
<1> HIDE DEF i
<1>3. CASE i = 0
  BY <1>1, <1>3 DEF Manager!Without, i
<1>4. CASE i # 0
  <2>1. \A j \in 1..Len(list) : list[j] \in ValueEntries
    BY <1>1, ElementOfSeq
  <2>2. SubSeq(list, 1, i - 1) \in Seq(ValueEntries) /\ SubSeq(list, i + 1, Len(list)) \in Seq(ValueEntries)
    BY <1>1, <1>2, <1>4, <2>1, SubSeqProperties
  <2>3. Manager!Without(n) = SubSeq(list, 1, i - 1) \o SubSeq(list, i + 1, Len(list))
    BY <1>4 DEF Manager!Without, Manager!RemoveAt, i
  <2>4. list # <<>>
    BY <1>1, <1>2, <1>4
  <2> QED
    BY <2>2, <2>3, <2>4, ConcatProperties
<1> QED
  BY <1>3, <1>4

-----------------------------------------------------------------------------
(* What is there *)

LEMMA FactsThere ==
  ASSUME Manager!KeysFit, KeysTyped
  PROVE  /\ \A p \in Paths : IF p \in keys THEN <<"key", p, TRUE>> \in Manager!Facts
            ELSE <<"key", p, FALSE>> \in Manager!Facts
         /\ \A n \in Manager!ValueNames :
              IF Manager!Index(n) = 0 THEN <<"no value", n>> \in Manager!Facts
              ELSE /\ list[Manager!Index(n)] \in ValueEntries /\ list[Manager!Index(n)].name = n
                   /\ <<"value", n, list[Manager!Index(n)].type, list[Manager!Index(n)].len>> \in Manager!Facts
<1>1. ASSUME NEW p \in Paths
      PROVE  IF p \in keys THEN <<"key", p, TRUE>> \in Manager!Facts ELSE <<"key", p, FALSE>> \in Manager!Facts
  <2>1. <<"key", p, p \in keys>> \in Manager!Facts
    BY DEF Manager!Facts
  <2>2. CASE p \in keys
    <3>1. (p \in keys) = TRUE
      BY <2>2
    <3> QED
      BY <2>1, <2>2, <3>1
  <2>3. CASE p \notin keys
    <3>1. (p \in keys) = FALSE
      BY <2>3
    <3> QED
      BY <2>1, <2>3, <3>1
  <2> QED
    BY <2>2, <2>3
<1>2. ASSUME NEW n \in Manager!ValueNames
      PROVE  IF Manager!Index(n) = 0 THEN <<"no value", n>> \in Manager!Facts
             ELSE /\ list[Manager!Index(n)] \in ValueEntries /\ list[Manager!Index(n)].name = n
                  /\ <<"value", n, list[Manager!Index(n)].type, list[Manager!Index(n)].len>> \in Manager!Facts
  <2>1. CASE Manager!Index(n) = 0
    BY <2>1 DEF Manager!Facts
  <2>2. CASE Manager!Index(n) # 0
    <3>1. Manager!Index(n) \in DOMAIN list /\ list[Manager!Index(n)].name = n
          /\ list[Manager!Index(n)] \in ValueEntries
      BY <2>2, ValueAt, LenProperties DEF KeysTyped
    <3>2. \A i \in DOMAIN list : <<"value", list[i].name, list[i].type, list[i].len>> \in Manager!Facts
      BY DEF Manager!Facts
    <3> QED
      BY <2>2, <3>1, <3>2
  <2> QED
    BY <2>1, <2>2
<1> QED
  BY <1>1, <1>2

LEMMA SameFacts == ASSUME UNCHANGED <<keys, list>>
  PROVE Manager!Facts' = Manager!Facts /\ \A n : Manager!Index(n)' = Manager!Index(n)
BY DEF Manager!Facts, Manager!Index

LEMMA EntryHas ==
  ASSUME Manager!KeysFit, NEW e \in ValueEntries
  PROVE  e.name \in Manager!ValueNames /\ e.type \in Manager!AnyType /\ e.len \in Manager!AnyLen /\ e.len \in Nat
BY DEF Manager!KeysFit, Manager!ValueNames, Manager!AnyType, Manager!AnyLen

LEMMA CardinalityThere == ASSUME NEW S PROVE Manager!Cardinality(S) = Cardinality(S)
BY DEF Manager!Cardinality, Cardinality

\* There are as many subkeys as there are children present.
LEMMA HowMany ==
  ASSUME Manager!KeysFit, KeysTyped, NEW p
  PROVE  Len(Manager!SubKeys(p)) = Cardinality(Manager!Present(p)) /\ Len(Manager!SubKeys(p)) \in Nat
         /\ DOMAIN Manager!SubKeys(p) = 1..Len(Manager!SubKeys(p))
<1>1. Cardinality(Manager!Present(p)) \in Nat
  <2>1. DOMAIN Children = 1..Len(Children) /\ Len(Children) \in Nat
    BY LenProperties DEF Manager!KeysFit
  <2>2. IsFiniteSet(1..Len(Children))
    BY <2>1, FS_Interval
  <2>3. IsFiniteSet(Manager!Present(p))
    BY <2>1, <2>2, FS_Subset DEF Manager!Present
  <2> QED
    BY <2>3, FS_CardinalityType
<1> DEFINE c == Cardinality(Manager!Present(p))
           s == Manager!SubKeys(p)
<1>2. s = [n \in 1..c |-> s[n]] /\ DOMAIN s = 1..c
  BY CardinalityThere DEF Manager!SubKeys
<1>3. s \in Seq({s[n] : n \in 1..c})
  <2> HIDE DEF s, c
  <2>1. s \in [1..c -> {s[n] : n \in 1..c}]
    BY <1>2
  <2> QED
    BY <1>1, <2>1, SeqDef DEF c
<1> HIDE DEF s
<1>4. Len(s) \in Nat /\ DOMAIN s = 1..Len(s)
  BY <1>3, LenProperties
<1>5. Len(s) = c
  BY <1>1, <1>2, <1>4
<1> QED
  BY <1>1, <1>4, <1>5 DEF s

-----------------------------------------------------------------------------
(* One step of a call *)

LEMMA FrontHandles == ASSUME NEW s \in Seq(Handles) PROVE Manager!Front(s) \in Seq(Handles)
<1>1. Len(s) \in Nat /\ \A i \in 1..Len(s) : s[i] \in Handles
  BY LenProperties, ElementOfSeq
<1>2. \A i \in 1..(Len(s) - 1) : s[i] \in Handles
  BY <1>1
<1> QED
  BY <1>1, <1>2, SubSeqProperties DEF Manager!Front

LEMMA OneHandle ==
  ASSUME NEW p \in Paths
  PROVE  /\ <<Manager!Handle(p)>> \in Seq(Handles) /\ Len(<<Manager!Handle(p)>>) = 1
         /\ Manager!Last(<<Manager!Handle(p)>>).path = p /\ Manager!Last(<<Manager!Handle(p)>>).alive = TRUE
<1> DEFINE h == Manager!Handle(p)
<1>1. h \in Handles /\ h.path = p /\ h.alive = TRUE
  BY DEF Manager!Handle, Handles
<1> HIDE DEF h
<1>2. <<h>> \in Seq(Handles) /\ Len(<<h>>) = 1 /\ <<h>>[1] = h
  BY <1>1
<1>3. Manager!Last(<<h>>) = h
  BY <1>2 DEF Manager!Last
<1> QED
  BY <1>1, <1>2, <1>3 DEF h

LEMMA CallEnds ==
  ASSUME Manager!KeysFit, KeysRead, job.at # "idle", NEW said, NEW out, job' = Manager!Over(said, out),
         Manager!WasSo(said, out),
         keys' \subseteq Paths, \A p \in keys' : Manager!Levels(p) \subseteq keys',
         list' \in Seq(ValueEntries), list' # <<>> => Valued \in keys', changes' = changes
  PROVE  KeysKept
<1>1. /\ job'.at = "idle" /\ job'.op = "none" /\ job'.path = Valued /\ job'.said = said /\ job'.out = out
      /\ job'.open = IF job.open = <<>> THEN <<>> ELSE Manager!Front(job.open)
  BY DEF Manager!Over, Manager!NoJob
<1>2. job'.open \in Seq(Handles)
  <2>1. job.open \in Seq(Handles)
    BY DEF KeysRead, KeysTyped
  <2> QED
    BY <1>1, <2>1, FrontHandles
<1>3. KeysTyped'
  BY <1>1, <1>2 DEF KeysRead, KeysTyped, Manager!KeysFit
<1>4. KeysAt' /\ OneOpen' /\ ValueRead' /\ Listed' /\ Removed' /\ Remembered'
  BY <1>1 DEF KeysAt, OneOpen, ValueRead, Listed, ListOps, Removed, Remembered, Closed, Deleting
<1>5. Manager!ReadStep
  BY <1>1 DEF Manager!ReadStep
<1> QED
  BY <1>3, <1>4, <1>5 DEF KeysRead, KeysKept

LEMMA CallReturns ==
  ASSUME Manager!KeysFit, KeysRead, job.at # "idle", NEW said, NEW out, Manager!Return(said, out),
         Manager!WasSo(said, out)
  PROVE  KeysKept
BY CallEnds DEF Manager!Return, Manager!Goto, KeysRead, KeysTyped

LEMMA CallThrows ==
  ASSUME Manager!KeysFit, KeysRead, job.at # "idle", job.op # "delete",
         NEW code, code \notin {"ok", "true", "false"}, Manager!Throw(code)
  PROVE  KeysKept
<1>1. ASSUME NEW said, said \notin {"ok", "true", "false"} PROVE Manager!WasSo(said, <<>>)
  BY <1>1 DEF Manager!WasSo
<1> QED
  BY <1>1, CallReturns DEF Manager!Throw

LEMMA CallGoes ==
  ASSUME Manager!KeysFit, KeysRead, job.at # "idle", UNCHANGED <<keys, list, was, changes>>,
         job'.at # "idle", job'.op = job.op, job'.path \in Paths, job'.open \in Seq(Handles),
         KeysAt', OneOpen', ValueRead', Listed', Removed'
  PROVE  KeysKept
<1>1. KeysTyped'
  BY DEF KeysRead, KeysTyped
<1>2. Remembered'
  BY SameFacts DEF KeysRead, Remembered
<1>3. Manager!ReadStep
  BY DEF Manager!ReadStep, Manager!At
<1> QED
  BY <1>1, <1>2, <1>3 DEF KeysRead, KeysKept

\* What is there now is known to a reader.
LEMMA ReaderKnows ==
  ASSUME KeysRead, job.at # "idle", job.op \in Manager!Reads
  PROVE  Manager!Facts \subseteq was /\ Manager!There = was /\ was # {}
BY DEF KeysRead, Remembered, Manager!There

LEMMA CountIs == ASSUME Manager!KeysFit, KeysRead PROVE Manager!Count \in Nat
<1>1. Len(list) \in Nat
  BY LenProperties DEF KeysRead, KeysTyped
<1> QED
  BY <1>1, HowMany DEF Manager!Count, KeysRead

LEMMA KeyOpened ==
  ASSUME Manager!KeysFit, KeysHeld, KeysRead, NEW next, Manager!openKey(next),
         \/ next = "type" /\ job.op = "getValueType"
         \/ next = "size" /\ job.op = "getValue"
         \/ next = "unset" /\ job.op = "deleteValue"
         \/ next = "write" /\ job.op \in Manager!Setters
         \/ next = "count" /\ job.op = "getItems"
         \/ next = "enum" /\ job.op \in {"getSubKeys", "getValueNames"}
  PROVE  KeysKept
<1>1. job.at = "open" /\ job.op # "delete" /\ job.path \in Paths /\ job.entry \in ValueEntries
  BY DEF Manager!openKey, Manager!At, KeysRead, KeysTyped, KeysAt, Manager!Setters
<1>2. ASSUME NEW code \in {"RegistryKeyNotFound", "RegistryAccessDenied", "RegistryOperationFailed"},
             Manager!Throw(code)
      PROVE  KeysKept
  BY <1>1, <1>2, CallThrows
<1>3. CASE job.path \in keys /\ Manager!Goto([job EXCEPT !.at = next, !.open = <<Manager!Handle(job.path)>>])
  <2> DEFINE open == <<Manager!Handle(job.path)>>
  <2>1. /\ open \in Seq(Handles) /\ Len(open) = 1
        /\ Manager!Last(open).path = job.path /\ Manager!Last(open).alive = TRUE
    BY <1>1, OneHandle
  <2> HIDE DEF open
  <2>2. /\ job'.at = next /\ job'.open = open /\ job'.op = job.op /\ job'.path = job.path
        /\ job'.entry = job.entry /\ job'.n = job.n /\ job'.out = job.out /\ UNCHANGED <<keys, list, was, changes>>
    BY <1>3 DEF Manager!Goto, KeysHeld, JobFields, open
  <2>3. KeysAt'
    BY <1>1, <2>2 DEF KeysRead, KeysAt, Deleting
  <2>4. OneOpen'
    BY <1>3, <2>1, <2>2 DEF OneOpen, Manager!Top
  <2>5. ValueRead' /\ Removed'
    BY <2>2 DEF ValueRead, Removed
  <2>6. Listed'
    <3>1. next \in {"count", "enum"} => job.n = 0 /\ job.out = <<>>
      BY <1>1 DEF KeysRead, Listed, ListOps
    <3>2. Manager!Count' \in Nat
      <4>1. Manager!Count' = Manager!Count
        BY <2>2 DEF Manager!Count, Manager!SubKeys, Manager!Present
      <4> QED
        BY <4>1, CountIs
    <3>3. <<>> = [i \in 1..0 |-> Manager!Nth(i)']
      OBVIOUS
    <3> QED
      BY <2>2, <3>1, <3>2, <3>3 DEF Listed
  <2> QED
    BY <1>1, <2>1, <2>2, <2>3, <2>4, <2>5, <2>6, CallGoes
<1> QED
  BY <1>2, <1>3 DEF Manager!openKey

-----------------------------------------------------------------------------
(* Keys *)

LEMMA KeysReadExists == ASSUME Manager!KeysFit, KeysHeld, KeysRead, Manager!keyExists PROVE KeysKept
<1>1. job.at = "exists" /\ job.op = "exists" /\ job.path \in Paths
  BY DEF Manager!keyExists, Manager!At, KeysRead, KeysAt, KeysTyped
<1>2. CASE Manager!Return(IF job.path \in keys THEN "true" ELSE "false", <<>>)
  <2>1. IF job.path \in keys THEN Manager!KeyWas(TRUE) ELSE Manager!KeyWas(FALSE)
    BY <1>1, FactsThere DEF Manager!KeyWas, Manager!There, KeysRead
  <2>2. Manager!WasSo(IF job.path \in keys THEN "true" ELSE "false", <<>>)
    BY <1>1, <2>1 DEF Manager!WasSo
  <2> QED
    BY <1>1, <1>2, <2>2, CallReturns
<1>3. CASE Manager!Throw("RegistryOperationFailed")
  BY <1>1, <1>3, CallThrows
<1> QED
  BY <1>2, <1>3 DEF Manager!keyExists

LEMMA Writes == ASSUME job.op \notin Manager!Reads, NEW said, NEW out PROVE Manager!WasSo(said, out)
BY DEF Manager!Reads, Manager!WasSo

LEMMA KeysReadCreates == ASSUME Manager!KeysFit, KeysHeld, KeysRead, Manager!createKey PROVE KeysKept
<1>1. job.at = "create" /\ job.op = "create" /\ job.path \in Paths
  BY DEF Manager!createKey, Manager!At, KeysRead, KeysAt, KeysTyped
<1>2. CASE keys' = keys \cup Manager!Levels(job.path) /\ job' = Manager!Over("ok", <<>>)
           /\ UNCHANGED <<list, was, changes>>
  <2>1. Manager!WasSo("ok", <<>>)
    BY <1>1, Writes DEF Manager!Reads
  <2>2. keys' \subseteq Paths /\ \A q \in keys' : Manager!Levels(q) \subseteq keys'
    BY <1>1, <1>2, KeyCreated DEF KeysRead
  <2> QED
    BY <1>1, <1>2, <2>1, <2>2, CallEnds DEF KeysRead, KeysTyped
<1>3. ASSUME NEW code \in {"RegistryAccessDenied", "RegistryOperationFailed"}, Manager!Throw(code) PROVE KeysKept
  BY <1>1, <1>3, CallThrows
<1> QED
  BY <1>2, <1>3 DEF Manager!createKey

LEMMA KeysReadAutoCreates == ASSUME Manager!KeysFit, KeysHeld, KeysRead, Manager!autoCreateKey PROVE KeysKept
<1>1. /\ job.at = "auto" /\ job.op \in Manager!Setters /\ job.op \notin KeyOps \cup ListOps \cup Manager!Reads
      /\ job.path \in Paths /\ job.path = Valued
      /\ job.n \in 0..Len(job.path) /\ job.entry \in ValueEntries /\ Len(job.path) \in Nat \ {0}
  <2>1. job.at = "auto"
    BY DEF Manager!autoCreateKey, Manager!At
  <2> QED
    BY <2>1, TopLevel DEF KeysRead, KeysAt, KeysTyped, Manager!Setters, KeyOps, ListOps, Manager!Reads
<1>2. ASSUME NEW code \in {"RegistryAccessDenied", "RegistryCreateFailed"}, Manager!Throw(code) PROVE KeysKept
  BY <1>1, <1>2, CallThrows DEF Manager!Setters
<1>3. ASSUME NEW at \in {"auto", "open"}, NEW n \in 0..Len(job.path), job' = [job EXCEPT !.at = at, !.n = n],
             keys' \subseteq Paths, \A q \in keys' : Manager!Levels(q) \subseteq keys', keys \subseteq keys',
             UNCHANGED <<list, was, changes>>
      PROVE  KeysKept
  <2>1. /\ job'.at = at /\ job'.n = n /\ job'.op = job.op /\ job'.path = job.path
        /\ job'.entry = job.entry /\ job'.open = job.open
    BY <1>3 DEF KeysHeld, JobFields
  <2>2. KeysTyped'
    BY <1>1, <1>3, <2>1 DEF KeysRead, KeysTyped
  <2>3. KeysAt'
    BY <1>1, <2>1 DEF KeysAt, Deleting
  <2>4. OneOpen' /\ ValueRead' /\ Listed' /\ Removed' /\ Remembered'
    BY <1>1, <2>1 DEF OneOpen, Closed, ValueRead, Listed, Removed, Remembered
  <2>5. Manager!ReadStep
    BY <2>1 DEF Manager!ReadStep
  <2> QED
    BY <2>2, <2>3, <2>4, <2>5 DEF KeysRead, KeysKept
<1>4. ASSUME NEW p \in Paths, NEW at \in {"auto", "open"}, NEW n \in 0..Len(job.path),
             keys' = keys \cup Manager!Levels(p), job' = [job EXCEPT !.at = at, !.n = n],
               UNCHANGED <<list, was, changes>>
      PROVE  KeysKept
  <2>1. keys' \subseteq Paths /\ \A q \in keys' : Manager!Levels(q) \subseteq keys'
    BY <1>4, KeyCreated DEF KeysRead
  <2> QED
    BY <1>3, <1>4, <2>1
<1>5. CASE job.n = 0 /\ Manager!Goto([job EXCEPT !.n = 1])
  <2>1. job' = [job EXCEPT !.at = "auto", !.n = 1]
    BY <1>1, <1>5 DEF Manager!Goto, KeysHeld, JobFields
  <2>2. 1 \in 0..Len(job.path)
    BY <1>1
  <2> QED
    BY <1>3, <1>5, <2>1, <2>2 DEF Manager!Goto, KeysRead, KeysTyped
<1>6. CASE /\ job.n > 0 /\ job.n < Len(job.path)
           /\ keys' = keys \cup Manager!Levels(SubSeq(job.path, 1, job.n))
           /\ job' = [job EXCEPT !.at = "auto", !.n = job.n + 1] /\ UNCHANGED <<list, was, changes>>
  <2>1. SubSeq(job.path, 1, job.n) \in Paths /\ job.n + 1 \in 0..Len(job.path)
    BY <1>1, <1>6, Level
  <2> QED
    BY <1>4, <1>6, <2>1
<1>7. CASE /\ job.n > 0
           /\ keys' = keys \cup Manager!Levels(SubSeq(job.path, 1, job.n))
           /\ job' = [job EXCEPT !.at = "open", !.n = 0] /\ UNCHANGED <<list, was, changes>>
  <2>1. SubSeq(job.path, 1, job.n) \in Paths /\ 0 \in 0..Len(job.path)
    BY <1>1, <1>7, Level
  <2> QED
    BY <1>4, <1>7, <2>1
<1>8. CASE /\ keys' = keys \cup Manager!Levels(job.path)
           /\ job' = [job EXCEPT !.at = "open", !.n = 0] /\ UNCHANGED <<list, was, changes>>
  <2>1. 0 \in 0..Len(job.path)
    BY <1>1
  <2> QED
    BY <1>1, <1>4, <1>8, <2>1
<1> QED
  BY <1>2, <1>5, <1>6, <1>7, <1>8 DEF Manager!autoCreateKey

LEMMA TopFits ==
  ASSUME KeysRead, job.open # <<>>
  PROVE  Manager!Top.path \in Paths /\ Manager!Top.alive \in BOOLEAN
<1>1. job.open \in Seq(Handles) /\ Len(job.open) \in Nat \ {0}
  BY EmptySeq DEF KeysRead, KeysTyped
<1>2. job.open[Len(job.open)] \in Handles
  BY <1>1, ElementOfSeq
<1> QED
  BY <1>2 DEF Manager!Top, Manager!Last, Handles

LEMMA KeysReadDeletes ==
  ASSUME Manager!KeysFit, KeysHeld, KeysRead, Manager!deleteKeyOpen \/ Manager!deleteKeyEnum
         \/ Manager!deleteKeyRemove \/ Manager!deleteKeyResult
  PROVE  KeysKept
<1> USE DEF Manager!At
<1>0. job.at \in Deleting
  BY DEF Manager!deleteKeyOpen, Manager!deleteKeyEnum, Manager!deleteKeyRemove, Manager!deleteKeyResult, Deleting
<1>1. /\ job.at # "idle" /\ job.op = "delete" /\ job.path \in Paths /\ job.entry \in ValueEntries
      /\ job.open \in Seq(Handles) /\ Manager!Facts \subseteq was /\ Manager!There = was /\ was # {}
  BY <1>0, ReaderKnows DEF Deleting, KeysRead, KeysAt, KeysTyped, Manager!Reads
<1>2. ASSUME UNCHANGED <<keys, list, was, changes>>, job'.op = job.op, job'.entry = job.entry,
             job'.at \in Deleting, job'.path \in Paths, job'.open \in Seq(Handles), Removed'
      PROVE  KeysKept
  <2>1. KeysAt'
    BY <1>1, <1>2 DEF KeysAt, KeyOps, Deleting
  <2>2. OneOpen' /\ ValueRead' /\ Listed' /\ job'.at # "idle"
    BY <1>1, <1>2 DEF OneOpen, ValueRead, Listed, ListOps, Deleting
  <2> QED
    BY <1>1, <1>2, <2>1, <2>2, CallGoes
<1>3. ASSUME NEW r, Manager!Result(r), r \in {"SUCCESS", "FILE_NOT_FOUND"} => job.path \notin keys PROVE KeysKept
  <2>1. /\ job'.at = "result" /\ job'.op = job.op /\ job'.entry = job.entry /\ job'.path = job.path
        /\ job'.open = job.open /\ job'.said = r /\ UNCHANGED <<keys, list, was, changes>>
    BY <1>3 DEF Manager!Result, Manager!Goto, KeysHeld, JobFields
  <2>2. job.path \notin keys => <<"key", job.path, FALSE>> \in was
    BY <1>1, FactsThere DEF KeysRead
  <2>3. Removed'
    BY <1>3, <2>1, <2>2 DEF Removed
  <2> QED
    BY <1>1, <1>2, <2>1, <2>3 DEF Deleting
<1>4. CASE Manager!deleteKeyOpen
  <2>1. CASE job.path \in keys /\ Manager!Goto([job EXCEPT !.at = "first",
             !.open = Append(@, Manager!Handle(job.path))])
    <3> DEFINE h == Manager!Handle(job.path)
    <3>1. h \in Handles
      BY <1>1 DEF Manager!Handle, Handles
    <3> HIDE DEF h
    <3>2. Append(job.open, h) \in Seq(Handles)
      BY <1>1, <3>1, AppendProperties
    <3>3. /\ job'.at = "first" /\ job'.op = job.op /\ job'.entry = job.entry /\ job'.path = job.path
          /\ job'.open = Append(job.open, h) /\ UNCHANGED <<keys, list, was, changes>>
      BY <2>1 DEF Manager!Goto, KeysHeld, JobFields, h
    <3> QED
      BY <1>1, <1>2, <3>2, <3>3 DEF Deleting, Removed
  <2> QED
    BY <1>3, <1>4, <2>1 DEF Manager!deleteKeyOpen
<1>5. CASE Manager!deleteKeyEnum
  <2> DEFINE closed == [job EXCEPT !.open = Manager!Front(job.open)]
  <2>1. Manager!Front(job.open) \in Seq(Handles)
    BY <1>1, FrontHandles
  <2>2. CASE Manager!Goto([closed EXCEPT !.at = "result", !.said = "failed"])
             \/ Manager!Goto([closed EXCEPT !.at = "remove"])
    <3>1. /\ job'.at \in {"result", "remove"} /\ job'.op = job.op /\ job'.entry = job.entry /\ job'.path = job.path
          /\ job'.open = Manager!Front(job.open) /\ UNCHANGED <<keys, list, was, changes>>
          /\ job'.at = "result" => job'.said = "failed"
      BY <2>2 DEF Manager!Goto, KeysHeld, JobFields
    <3> QED
      BY <1>1, <1>2, <2>1, <3>1 DEF Deleting, Removed
  <2>3. CASE \E i \in Manager!Present(job.path) : Manager!Goto([job EXCEPT !.at = "delete",
             !.path = Append(@, Children[i])])
    <3>1. PICK i \in Manager!Present(job.path) : Manager!Goto([job EXCEPT !.at = "delete",
          !.path = Append(@, Children[i])])
      BY <2>3
    <3> DEFINE p == Append(job.path, Children[i])
    <3>2. p \in Paths
      BY DEF Manager!Present, KeysRead, KeysTyped
    <3>3. Manager!Goto([job EXCEPT !.at = "delete", !.path = p])
      BY <3>1
    <3> HIDE DEF p
    <3>4. /\ job'.at = "delete" /\ job'.op = job.op /\ job'.entry = job.entry /\ job'.path = p
          /\ job'.open = job.open /\ UNCHANGED <<keys, list, was, changes>>
      BY <3>3 DEF Manager!Goto, KeysHeld, JobFields
    <3> QED
      BY <1>1, <1>2, <3>2, <3>4 DEF Deleting, Removed
  <2> HIDE DEF closed
  <2> QED
    BY <1>5, <2>2, <2>3 DEF Manager!deleteKeyEnum, closed
<1>6. CASE Manager!deleteKeyRemove
  <2>1. CASE /\ Manager!Below(job.path) = {} /\ Manager!Delete({job.path})
             /\ job' = [job EXCEPT !.at = "result", !.said = "SUCCESS"]
             /\ Manager!Remember /\ UNCHANGED changes
    <3>1. /\ job'.at = "result" /\ job'.op = job.op /\ job'.entry = job.entry /\ job'.path = job.path
          /\ job'.open = job.open
      BY <2>1 DEF KeysHeld, JobFields
    <3>2. keys' = keys \ ({job.path} \cup Manager!Below(job.path)) /\ list' = IF Valued = job.path THEN <<>> ELSE list
      BY <2>1 DEF Manager!Delete
    <3>3. keys' \subseteq Paths /\ \A q \in keys' : Manager!Levels(q) \subseteq keys'
      BY <1>1, <3>2, KeyDeleted DEF KeysRead
    <3>4. list' \in Seq(ValueEntries) /\ (list' # <<>> => Valued \in keys')
      <4>1. <<>> \in Seq(ValueEntries)
        BY EmptySeq
      <4> QED
        BY <2>1, <3>2, <4>1 DEF KeysRead, KeysTyped
    <3>5. KeysTyped'
      BY <1>1, <2>1, <3>1, <3>3, <3>4 DEF KeysRead, KeysTyped
    <3>6. KeysAt' /\ OneOpen' /\ ValueRead' /\ Listed'
      BY <1>1, <3>1 DEF KeysAt, KeyOps, OneOpen, ValueRead, Listed, ListOps, Deleting
    <3>7. was' = was \cup Manager!Facts' /\ was' # {}
      BY <1>1, <2>1 DEF Manager!Remember
    <3>8. <<"key", job.path, FALSE>> \in Manager!Facts'
      <4>1. <<"key", job.path, job.path \in keys'>> \in Manager!Facts'
        BY <1>1 DEF Manager!Facts
      <4>2. (job.path \in keys') = FALSE
        BY <3>2
      <4> QED
        BY <4>1, <4>2
    <3>9. Removed' /\ Remembered'
      BY <3>1, <3>7, <3>8 DEF Removed, Remembered
    <3> QED
      BY <3>1, <3>5, <3>6, <3>9 DEF KeysRead, KeysKept, Manager!ReadStep
  <2> QED
    BY <1>3, <1>6, <2>1 DEF Manager!deleteKeyRemove
<1>7. CASE Manager!deleteKeyResult
  <2>0. job.at = "result"
    BY <1>7 DEF Manager!deleteKeyResult
  <2> DEFINE said == CASE job.said = "SUCCESS" -> "ok"
                       [] job.said = "FILE_NOT_FOUND" -> "RegistryKeyNotFound"
                       [] OTHER -> "failed"
  <2>1. CASE Manager!Return(said, <<>>)
    <3>1. said \in {"ok", "RegistryKeyNotFound"} => job.said \in {"SUCCESS", "FILE_NOT_FOUND"}
      OBVIOUS
    <3> HIDE DEF said
    <3>2. said \in {"ok", "RegistryKeyNotFound"} => Manager!KeyWas(FALSE)
      BY <1>1, <2>0, <3>1 DEF KeysRead, Removed, Manager!KeyWas
    <3>3. Manager!WasSo(said, <<>>)
      BY <1>1, <3>2 DEF Manager!WasSo
    <3> QED
      BY <1>1, <2>1, <3>3, CallReturns
  <2>2. CASE job.open # <<>> /\ Manager!Goto([job EXCEPT !.at = "first", !.path = Manager!Top.path])
    <3>1. /\ job'.at = "first" /\ job'.op = job.op /\ job'.entry = job.entry /\ job'.path = Manager!Top.path
          /\ job'.open = job.open /\ UNCHANGED <<keys, list, was, changes>>
      BY <2>2 DEF Manager!Goto, KeysHeld, JobFields
    <3>2. Manager!Top.path \in Paths
      BY <2>2, TopFits
    <3> QED
      BY <1>1, <1>2, <3>1, <3>2 DEF Deleting, Removed
  <2>3. CASE /\ job.open # <<>> /\ job.said \notin {"SUCCESS", "FILE_NOT_FOUND"}
             /\ Manager!Goto([job EXCEPT !.path = Manager!Top.path, !.open = Manager!Front(@)])
    <3>1. /\ job'.at = "result" /\ job'.op = job.op /\ job'.entry = job.entry /\ job'.path = Manager!Top.path
          /\ job'.open = Manager!Front(job.open) /\ job'.said = job.said /\ UNCHANGED <<keys, list, was, changes>>
      BY <2>0, <2>3 DEF Manager!Goto, KeysHeld, JobFields
    <3>2. Manager!Top.path \in Paths /\ Manager!Front(job.open) \in Seq(Handles)
      BY <1>1, <2>3, TopFits, FrontHandles
    <3> QED
      BY <1>1, <1>2, <2>3, <3>1, <3>2 DEF Deleting, Removed
  <2> HIDE DEF said
  <2> QED
    BY <1>7, <2>1, <2>2, <2>3 DEF Manager!deleteKeyResult, said
<1> QED
  BY <1>4, <1>5, <1>6, <1>7

-----------------------------------------------------------------------------
(* Values *)

ValueOps == {"valueExists", "getValueType", "getValue"}

\* What a reader of a value knows.
LEMMA ReaderOfValue ==
  ASSUME Manager!KeysFit, KeysRead, job.at # "idle", job.at # "items", job.op \in ValueOps
  PROVE  /\ Manager!Facts \subseteq was /\ Manager!There = was /\ job.path = Valued /\ job.path \in Paths
         /\ job.entry \in ValueEntries /\ job.open \in Seq(Handles)
         /\ IF Manager!Index(job.entry.name) = 0 THEN <<"no value", job.entry.name>> \in was
            ELSE /\ list[Manager!Index(job.entry.name)] \in ValueEntries
                 /\ list[Manager!Index(job.entry.name)].name = job.entry.name
                 /\ Manager!Was(list[Manager!Index(job.entry.name)].type, list[Manager!Index(job.entry.name)].len)
<1>1. Manager!Facts \subseteq was /\ Manager!There = was
  BY ReaderKnows DEF ValueOps, Manager!Reads
<1>2. job.path = Valued /\ job.entry \in ValueEntries /\ job.path \in Paths /\ job.open \in Seq(Handles)
  BY DEF KeysRead, KeysAt, KeysTyped, ValueOps, KeyOps
<1>3. job.entry.name \in Manager!ValueNames
  BY <1>2, EntryHas
<1> QED
  BY <1>1, <1>2, <1>3, FactsThere DEF KeysRead, Manager!Was

LEMMA KeysReadValueExists == ASSUME Manager!KeysFit, KeysHeld, KeysRead, Manager!valueExists PROVE KeysKept
<1> USE DEF Manager!At
<1>1. job.at \in {"vopen", "vquery"} /\ job.op = "valueExists"
  BY DEF Manager!valueExists, KeysRead, KeysAt
<1> DEFINE i == Manager!Index(job.entry.name)
<1>2. /\ Manager!Facts \subseteq was /\ Manager!There = was /\ job.path = Valued /\ job.path \in Paths
      /\ job.entry \in ValueEntries /\ job.open \in Seq(Handles)
      /\ i = 0 => <<"no value", job.entry.name>> \in Manager!There
      /\ i # 0 => \E type \in Manager!AnyType, len \in Manager!AnyLen : Manager!Was(type, len)
  BY <1>1, ReaderOfValue, EntryHas DEF ValueOps
<1> HIDE DEF i
<1>3. CASE job.at = "vopen" /\ job.path \notin keys /\ Manager!Return("false", <<>>)
  <2>1. DOMAIN list = {}
    <3>1. list = <<>>
      BY <1>2, <1>3 DEF KeysRead, KeysTyped
    <3> QED
      BY <3>1
  <2>2. i = 0
    BY <2>1 DEF Manager!Index, i
  <2>3. Manager!WasSo("false", <<>>)
    BY <1>1, <1>2, <2>2 DEF Manager!WasSo
  <2> QED
    BY <1>1, <1>3, <2>3, CallReturns
<1>4. CASE Manager!Throw("RegistryOperationFailed")
  BY <1>1, <1>4, CallThrows
<1>5. CASE /\ job.at = "vopen" /\ job.path \in keys
           /\ Manager!Goto([job EXCEPT !.at = "vquery", !.open = <<Manager!Handle(job.path)>>])
  <2> DEFINE open == <<Manager!Handle(job.path)>>
  <2>1. /\ open \in Seq(Handles) /\ Len(open) = 1
        /\ Manager!Last(open).path = job.path /\ Manager!Last(open).alive = TRUE
    BY <1>2, OneHandle
  <2> HIDE DEF open
  <2>2. /\ job'.at = "vquery" /\ job'.open = open /\ job'.op = job.op /\ job'.path = job.path
        /\ job'.entry = job.entry /\ UNCHANGED <<keys, list, was, changes>>
    BY <1>5 DEF Manager!Goto, KeysHeld, JobFields, open
  <2>3. KeysAt'
    BY <1>1, <1>2, <2>2 DEF KeysAt, Deleting
  <2>4. OneOpen' /\ ValueRead' /\ Listed' /\ Removed'
    BY <1>1, <1>5, <2>1, <2>2 DEF OneOpen, Manager!Top, ValueRead, Listed, ListOps, Removed
  <2> QED
    BY <1>1, <1>2, <2>1, <2>2, <2>3, <2>4, CallGoes
<1>6. CASE Manager!Return(IF i = 0 THEN "false" ELSE "true", <<>>)
  <2>1. Manager!WasSo(IF i = 0 THEN "false" ELSE "true", <<>>)
    BY <1>1, <1>2 DEF Manager!WasSo
  <2> QED
    BY <1>1, <1>6, <2>1, CallReturns
<1> QED
  BY <1>3, <1>4, <1>5, <1>6 DEF Manager!valueExists, Manager!Dead, i

LEMMA KeysReadValueType == ASSUME Manager!KeysFit, KeysHeld, KeysRead, Manager!getValueType PROVE KeysKept
<1> USE DEF Manager!At
<1>1. CASE job.op = "getValueType" /\ Manager!openKey("type")
  BY <1>1, KeyOpened
<1> DEFINE i == Manager!Index(job.entry.name)
<1>2. ASSUME job.at = "type" PROVE job.op = "getValueType"
  BY <1>2 DEF KeysRead, KeysAt
<1>3. ASSUME NEW code \in {"RegistryOperationFailed", "RegistryValueNotFound"}, job.at = "type", Manager!Throw(code)
      PROVE  KeysKept
  BY <1>2, <1>3, CallThrows
<1>4. CASE job.at = "type" /\ i # 0 /\ Manager!Return("ok", <<list[i].type>>)
  <2>1. \E len \in Manager!AnyLen : Manager!Was(list[i].type, len)
    BY <1>2, <1>4, ReaderOfValue, EntryHas DEF ValueOps
  <2> DEFINE type == list[i].type
  <2> HIDE DEF type
  <2>2. <<type>>[1] = type
    OBVIOUS
  <2>3. Manager!WasSo("ok", <<type>>)
    BY <1>2, <1>4, <2>1, <2>2 DEF Manager!WasSo, type
  <2> QED
    BY <1>4, <2>3, CallReturns DEF type
<1> QED
  BY <1>1, <1>3, <1>4 DEF Manager!getValueType, Manager!Dead

LEMMA KeysReadValue == ASSUME Manager!KeysFit, KeysHeld, KeysRead, Manager!getValue \/ Manager!expandValue
  PROVE KeysKept
<1> USE DEF Manager!At
<1>1. CASE job.op = "getValue" /\ Manager!openKey("size")
  BY <1>1, KeyOpened
<1> DEFINE i == Manager!Index(job.entry.name)
           v == list[i]
<1>2. ASSUME job.at \in {"size", "data", "expand"}
      PROVE  /\ job.op = "getValue" /\ Manager!There = was /\ job.path = Valued /\ job.path \in Paths
             /\ job.entry \in ValueEntries /\ job.open \in Seq(Handles)
             /\ i # 0 => v \in ValueEntries /\ v.name = job.entry.name /\ Manager!Was(v.type, v.len) /\ v.len \in Nat
  <2>1. job.op = "getValue"
    BY <1>2 DEF KeysRead, KeysAt
  <2> QED
    BY <1>2, <2>1, ReaderOfValue, EntryHas DEF ValueOps
<1>3. ASSUME NEW code \in {"RegistryOperationFailed", "RegistryKeyNotFound"}, job.at \in {"size", "data"},
             Manager!Throw(code)
      PROVE  KeysKept
  BY <1>2, <1>3, CallThrows
<1>4. CASE job.at = "size" /\ i # 0 /\ Manager!Goto([job EXCEPT !.at = "data", !.n = v.len])
  <2> HIDE DEF i, v
  <2>1. /\ job'.at = "data" /\ job'.n = v.len /\ job'.op = job.op /\ job'.path = job.path
        /\ job'.entry = job.entry /\ job'.open = job.open /\ UNCHANGED <<keys, list, was, changes>>
    BY <1>4 DEF Manager!Goto, KeysHeld, JobFields
  <2>2. KeysAt'
    BY <1>2, <1>4, <2>1 DEF KeysAt, Deleting
  <2>3. OneOpen' /\ Listed' /\ Removed'
    BY <1>2, <1>4, <2>1 DEF KeysRead, OneOpen, Manager!Top, Closed, Deleting, Listed, ListOps, Removed
  <2>4. ValueRead'
    BY <1>2, <1>4, <2>1, SameFacts DEF ValueRead, i, v
  <2> QED
    BY <1>2, <1>4, <2>1, <2>2, <2>3, <2>4, CallGoes
<1>5. ASSUME job.at = "data", i # 0, ~Manager!MoreData(i)
      PROVE  job.n \in Nat /\ job.n >= v.len /\ (job.n > v.len => changes > 0)
  <2>1. job.n \in Nat /\ (changes = 0 => v.len = job.n) /\ v.len \in Nat
    BY <1>2, <1>5 DEF KeysRead, ValueRead
  <2>2. changes \in Nat
    BY DEF KeysRead, KeysTyped, Manager!KeysFit
  <2> QED
    BY <1>5, <2>1, <2>2 DEF Manager!MoreData
<1>6. ASSUME NEW type, NEW len, NEW n, Manager!Was(type, len), n >= len, n > len => changes > 0, job.op = "getValue"
      PROVE  Manager!WasSo("ok", <<type, len, n>>)
  <2> DEFINE out == <<type, len, n>>
  <2>1. Len(out) = 3 /\ out[1] = type /\ out[2] = len /\ out[3] = n
    OBVIOUS
  <2> HIDE DEF out
  <2>2. Manager!ValueWas(out)
    BY <1>6, <2>1 DEF Manager!ValueWas
  <2> QED
    BY <1>6, <2>2 DEF Manager!WasSo, out
<1>7. CASE job.at = "data" /\ i # 0 /\ ~Manager!MoreData(i) /\ Manager!Return("ok", <<v.type, v.len, job.n>>)
  <2>1. Manager!WasSo("ok", <<v.type, v.len, job.n>>)
    BY <1>2, <1>5, <1>6, <1>7
  <2> QED
    BY <1>7, <2>1, CallReturns
<1>8. CASE /\ job.at = "data" /\ i # 0 /\ ~Manager!MoreData(i)
           /\ v.type = "EXPAND_SZ" /\ Manager!Goto([job EXCEPT !.at = "expand", !.entry = v])
  <2>0. job.n \in Nat /\ job.n >= v.len /\ (job.n > v.len => changes > 0)
    BY <1>5, <1>8
  <2>1. v \in ValueEntries /\ v.name = job.entry.name /\ Manager!Was(v.type, v.len)
    BY <1>2, <1>8
  <2> HIDE DEF i, v
  <2>2. /\ job'.at = "expand" /\ job'.n = job.n /\ job'.op = job.op /\ job'.path = job.path
        /\ job'.entry = v /\ job'.open = job.open /\ UNCHANGED <<keys, list, was, changes>>
    BY <1>8 DEF Manager!Goto, KeysHeld, JobFields
  <2>3. KeysAt'
    BY <1>2, <1>8, <2>1, <2>2 DEF KeysAt, Deleting
  <2>4. OneOpen' /\ Listed' /\ Removed'
    BY <1>2, <1>8, <2>2 DEF KeysRead, OneOpen, Manager!Top, Closed, Deleting, Listed, ListOps, Removed
  <2>5. ValueRead'
    <3>1. <<"value", v.name, v.type, v.len>> \in was
      BY <1>2, <1>8, <2>1 DEF Manager!Was
    <3> QED
      BY <1>8, <2>0, <2>2, <3>1 DEF ValueRead
  <2> QED
    BY <1>2, <1>8, <2>2, <2>3, <2>4, <2>5, CallGoes
<1>9. ASSUME job.at = "expand"
      PROVE  /\ Manager!Was("EXPAND_SZ", job.entry.len) /\ job.entry.len \in Manager!AnyLen
             /\ job.n >= job.entry.len /\ (job.n > job.entry.len => changes > 0)
  BY <1>2, <1>9, EntryHas DEF KeysRead, ValueRead, Manager!Was
<1>10. CASE job.at = "expand" /\ Manager!Return("ok", <<"SZ">>)
  <2>1. Len(<<"SZ">>) = 1
    OBVIOUS
  <2>2. Manager!ValueWas(<<"SZ">>)
    BY <1>9, <1>10, <2>1 DEF Manager!ValueWas
  <2>3. Manager!WasSo("ok", <<"SZ">>)
    BY <1>2, <1>10, <2>2 DEF Manager!WasSo
  <2> QED
    BY <1>10, <2>3, CallReturns
<1>11. CASE job.at = "expand" /\ Manager!Return("ok", <<"EXPAND_SZ", job.entry.len, job.n>>)
  <2>1. Manager!WasSo("ok", <<"EXPAND_SZ", job.entry.len, job.n>>)
    BY <1>2, <1>6, <1>9, <1>11
  <2> QED
    BY <1>11, <2>1, CallReturns
<1> QED
  BY <1>1, <1>3, <1>4, <1>7, <1>8, <1>10, <1>11 DEF Manager!getValue, Manager!expandValue, Manager!Dead

LEMMA KeysReadSets == ASSUME Manager!KeysFit, KeysHeld, KeysRead, Manager!setValue \/ Manager!deleteValue
  PROVE KeysKept
<1> USE DEF Manager!At
<1>1. CASE job.op \in Manager!Setters /\ Manager!openKey("write")
  BY <1>1, KeyOpened
<1>2. CASE job.op = "deleteValue" /\ Manager!openKey("unset")
  BY <1>2, KeyOpened
<1>3. ASSUME job.at \in {"write", "unset"}
      PROVE  /\ job.op \notin Manager!Reads /\ job.op # "delete" /\ job.entry \in ValueEntries
             /\ job.path = Valued /\ (Manager!Top.alive => Valued \in keys)
  <2>1. job.op \in Manager!Setters \cup {"deleteValue"} /\ job.entry \in ValueEntries
    BY <1>3 DEF KeysRead, KeysAt
  <2>2. job.op \notin Manager!Reads /\ job.op # "delete" /\ job.op \notin KeyOps
    BY <2>1 DEF Manager!Setters, Manager!Reads, KeyOps
  <2> QED
    BY <1>3, <2>1, <2>2 DEF KeysRead, KeysAt, OneOpen, Closed, Deleting
<1>4. ASSUME NEW code \in {"RegistrySetValueFailed", "RegistryOperationFailed"},
             job.at \in {"write", "unset"}, Manager!Throw(code)
      PROVE  KeysKept
  BY <1>3, <1>4, CallThrows
<1>5. ASSUME job.at \in {"write", "unset"}, job' = Manager!Over("ok", <<>>), UNCHANGED <<keys, was, changes>>,
             list' \in Seq(ValueEntries), list' # <<>> => Valued \in keys
      PROVE  KeysKept
  <2>1. Manager!WasSo("ok", <<>>)
    BY <1>3, <1>5, Writes
  <2> QED
    BY <1>5, <2>1, CallEnds DEF KeysRead, KeysTyped
<1>6. CASE /\ job.at = "write" /\ Manager!Top.alive /\ list' = Manager!Put(job.entry)
           /\ job' = Manager!Over("ok", <<>>) /\ UNCHANGED <<keys, was, changes>>
  BY <1>3, <1>5, <1>6, ValuePut DEF KeysRead
<1>7. CASE /\ job.at = "unset" /\ list' = Manager!Without(job.entry.name)
           /\ job' = Manager!Over("ok", <<>>) /\ UNCHANGED <<keys, was, changes>>
  BY <1>3, <1>5, <1>7, ValueRemoved DEF KeysRead, KeysTyped
<1> QED
  BY <1>1, <1>2, <1>4, <1>6, <1>7 DEF Manager!setValue, Manager!deleteValue

-----------------------------------------------------------------------------
(* Lists *)

\* All that there is has been listed if nobody has written.
LEMMA AllListed ==
  ASSUME Manager!KeysFit, KeysRead, job.op \in ListOps, changes > 0
         \/ job.out = [i \in 1..Manager!Count |-> Manager!Nth(i)]
  PROVE  Manager!WasSo("ok", job.out)
<1>1. ASSUME job.out = [i \in 1..Manager!Count |-> Manager!Nth(i)] PROVE Manager!ToSet(job.out) = Manager!Names
  <2>1. Manager!ToSet(job.out) = {Manager!Nth(i) : i \in 1..Manager!Count}
    BY <1>1 DEF Manager!ToSet
  <2>2. CASE job.op = "getSubKeys"
    <3>1. DOMAIN Manager!SubKeys(job.path) = 1..Len(Manager!SubKeys(job.path))
      BY HowMany DEF KeysRead
    <3> QED
      BY <2>1, <2>2, <3>1 DEF Manager!Names, Manager!Nth, Manager!Count, Manager!ToSet
  <2>3. CASE job.op # "getSubKeys"
    <3>1. DOMAIN list = 1..Len(list)
      BY LenProperties DEF KeysRead, KeysTyped
    <3>2. {e.name : e \in Manager!ToSet(list)} = {list[i].name : i \in DOMAIN list}
      BY DEF Manager!ToSet
    <3>3. Manager!Count = Len(list) /\ \A i : Manager!Nth(i) = list[i].name
      BY <2>3 DEF Manager!Count, Manager!Nth
    <3>4. {Manager!Nth(i) : i \in 1..Manager!Count} = {list[i].name : i \in DOMAIN list}
      BY <3>1, <3>3
    <3> QED
      BY <2>1, <2>3, <3>2, <3>4 DEF Manager!Names
  <2> QED
    BY <2>2, <2>3
<1> QED
  BY <1>1 DEF Manager!WasSo, ListOps

LEMMA SameCount ==
  ASSUME UNCHANGED <<keys, list>>, job'.op = job.op, job'.path = job.path
  PROVE  Manager!Count' = Manager!Count /\ \A i : Manager!Nth(i)' = Manager!Nth(i)
BY DEF Manager!Count, Manager!Nth, Manager!SubKeys, Manager!Present

\* One more is listed.
LEMMA OneMore ==
  ASSUME NEW n \in Nat, NEW out, out = [i \in 1..n |-> Manager!Nth(i)]
  PROVE  Append(out, Manager!Nth(n + 1)) = [i \in 1..(n + 1) |-> Manager!Nth(i)]
<1> DEFINE S == {Manager!Nth(i) : i \in 1..(n + 1)}
           x == Manager!Nth(n + 1)
           all == [i \in 1..(n + 1) |-> Manager!Nth(i)]
<1>1. out \in Seq(S) /\ Len(out) = n /\ \A i \in 1..n : out[i] = Manager!Nth(i)
  <2>1. out \in [1..n -> S]
    OBVIOUS
  <2> HIDE DEF S
  <2> QED
    BY <2>1, SeqDef
<1>2. x \in S /\ all \in [1..(n + 1) -> S]
  OBVIOUS
<1>3. all[n + 1] = x /\ \A i \in 1..n : all[i] = Manager!Nth(i)
  OBVIOUS
<1> HIDE DEF S, x, all
<1>4. all \in Seq(S) /\ Len(all) = n + 1
  BY <1>2, SeqDef
<1>5. /\ Append(out, x) \in Seq(S) /\ Len(Append(out, x)) = n + 1
      /\ Append(out, x)[n + 1] = x /\ \A i \in 1..n : Append(out, x)[i] = out[i]
  BY <1>1, <1>2, AppendProperties
<1>6. \A i \in 1..(n + 1) : Append(out, x)[i] = all[i]
  BY <1>1, <1>3, <1>5
<1>7. Append(out, x) = all
  BY <1>4, <1>5, <1>6, SeqEqual
<1> QED
  BY <1>7 DEF x, all

LEMMA ListGoes ==
  ASSUME Manager!KeysFit, KeysHeld, KeysRead, job.at \in {"count", "enum", "items"}, NEW j, Manager!Goto(j),
         j.op = job.op, j.path = job.path, j.open = job.open,
         j.at = job.at \/ (job.at = "count" /\ j.at = "items"),
         j.at = "enum" => j.entry = job.entry,
         j.n \in Nat, j.at = "items" => j.entry.len \in Nat /\ j.n <= j.entry.len,
         j.at \in {"enum", "items"},
         changes = 0 => /\ j.n <= Manager!Count /\ j.out = [i \in 1..j.n |-> Manager!Nth(i)]
                        /\ j.at = "items" => j.entry.len = Manager!Count
  PROVE  KeysKept
<1>1. job' = j /\ UNCHANGED <<keys, list, was, changes>>
  BY DEF Manager!Goto
<1>2. KeysAt'
  BY <1>1 DEF KeysRead, KeysAt, Deleting
<1>3. OneOpen' /\ ValueRead' /\ Removed'
  BY <1>1 DEF KeysRead, OneOpen, Manager!Top, Closed, Deleting, ValueRead, Removed
<1>4. Manager!Count' = Manager!Count /\ \A i : Manager!Nth(i)' = Manager!Nth(i)
  BY <1>1, SameCount
<1>5. Listed'
  <2>1. changes = 0 => job'.out = [i \in 1..job'.n |-> Manager!Nth(i)']
    BY <1>1, <1>4
  <2> QED
    BY <1>1, <1>4, <2>1 DEF Listed
<1>6. job'.at # "idle" /\ job'.path \in Paths /\ job'.open \in Seq(Handles)
  BY <1>1 DEF KeysRead, KeysTyped
<1> QED
  BY <1>1, <1>2, <1>3, <1>5, <1>6, CallGoes

LEMMA KeysReadLists ==
  ASSUME Manager!KeysFit, KeysHeld, KeysRead, Manager!getSubKeys \/ Manager!getValueNames \/ Manager!getItems
         \/ Manager!enumNext
  PROVE  KeysKept
<1> USE DEF Manager!At
<1>1. CASE job.op = "getSubKeys" /\ Manager!openKey("enum")
  BY <1>1, KeyOpened
<1>2. CASE job.op = "getValueNames" /\ Manager!openKey("enum")
  BY <1>2, KeyOpened
<1>3. CASE job.op = "getItems" /\ Manager!openKey("count")
  BY <1>3, KeyOpened
<1>4. ASSUME job.at \in {"count", "enum", "items"}
      PROVE  /\ job.op \in ListOps /\ job.op # "delete" /\ job.n \in Nat
             /\ changes = 0 => Manager!Top.alive /\ job.n <= Manager!Count
                /\ job.out = [i \in 1..job.n |-> Manager!Nth(i)]
  <2>1. job.op \in ListOps /\ job.op # "delete"
    BY <1>4 DEF KeysRead, KeysAt, ListOps
  <2>2. changes = 0 => Manager!Top.alive
    BY <1>4 DEF KeysRead, OneOpen, Closed, Deleting
  <2>3. <<>> = [i \in 1..0 |-> Manager!Nth(i)]
    OBVIOUS
  <2>4. job.n \in Nat /\ (changes = 0 => job.n <= Manager!Count /\ job.out = [i \in 1..job.n |-> Manager!Nth(i)])
    BY <1>4, <2>1, <2>3, CountIs DEF KeysRead, Listed
  <2> QED
    BY <2>1, <2>2, <2>4
<1>5. ASSUME NEW code \in {"RegistryEnumFailed", "RegistryQueryFailed", "RegistryOperationFailed"},
             job.at \in {"count", "enum"}, Manager!Throw(code)
      PROVE  KeysKept
  BY <1>4, <1>5, CallThrows
<1>6. ASSUME job.at \in {"enum", "items"}, changes = 0 => job.n >= Manager!Count, Manager!Return("ok", job.out)
      PROVE  KeysKept
  <2>1. changes \in Nat
    BY DEF KeysRead, KeysTyped, Manager!KeysFit
  <2>2. changes = 0 => job.n = Manager!Count
    BY <1>4, <1>6, CountIs
  <2>3. Manager!WasSo("ok", job.out)
    BY <1>4, <1>6, <2>1, <2>2, AllListed
  <2> QED
    BY <1>6, <2>3, CallReturns
<1>7. CASE job.at = "count" /\ Manager!Goto([job EXCEPT !.at = "items", !.entry = [@ EXCEPT !.len = Manager!Count]])
  <2>0. job.n = 0 /\ job.entry \in ValueEntries /\ Manager!Count \in Nat
    BY <1>4, <1>7, CountIs DEF KeysRead, Listed, KeysAt
  <2> DEFINE e == [job.entry EXCEPT !.len = Manager!Count]
             j == [job EXCEPT !.at = "items", !.entry = e]
  <2>1. e.len = Manager!Count
    BY <2>0 DEF Manager!KeysFit
  <2>2. Manager!Goto(j)
    BY <1>7
  <2> HIDE DEF e
  <2>3. /\ j.at = "items" /\ j.op = job.op /\ j.path = job.path /\ j.open = job.open /\ j.n = job.n
        /\ j.out = job.out /\ j.entry = e
    BY DEF KeysHeld, JobFields
  <2> HIDE DEF j
  <2>4. /\ j.n \in Nat /\ j.entry.len \in Nat /\ j.n <= j.entry.len
        /\ changes = 0 => j.n <= Manager!Count /\ j.entry.len = Manager!Count
    BY <2>0, <2>1, <2>3
  <2>5. changes = 0 => j.out = [i \in 1..j.n |-> Manager!Nth(i)]
    BY <1>4, <1>7, <2>3
  <2> QED
    BY <1>7, <2>2, <2>3, <2>4, <2>5, ListGoes
<1>8. CASE /\ job.at = "items" /\ job.n < job.entry.len
           /\ Manager!Goto([job EXCEPT !.n = @ + 1,
                      !.out = IF Manager!Top.alive
                        /\ job.n < Manager!Count THEN Append(@, Manager!Nth(job.n + 1)) ELSE @])
  <2> DEFINE out == IF Manager!Top.alive /\ job.n < Manager!Count
      THEN Append(job.out, Manager!Nth(job.n + 1)) ELSE job.out
             j == [job EXCEPT !.n = job.n + 1, !.out = out]
  <2>0. job.entry.len \in Nat /\ (changes = 0 => job.entry.len = Manager!Count)
    BY <1>8 DEF KeysRead, Listed
  <2>1. changes = 0 => out = [i \in 1..(job.n + 1) |-> Manager!Nth(i)]
    BY <1>4, <1>8, <2>0, OneMore
  <2>2. Manager!Goto(j)
    BY <1>8
  <2> HIDE DEF out
  <2>3. /\ j.at = "items" /\ j.op = job.op /\ j.path = job.path /\ j.open = job.open /\ j.n = job.n + 1
        /\ j.out = out /\ j.entry = job.entry
    BY <1>8 DEF KeysHeld, JobFields
  <2> HIDE DEF j
  <2>4. j.n \in Nat /\ j.n <= j.entry.len /\ (changes = 0 => j.n <= Manager!Count)
    BY <1>4, <1>8, <2>0, <2>3
  <2>5. changes = 0 => j.out = [i \in 1..j.n |-> Manager!Nth(i)]
    BY <2>1, <2>3
  <2> QED
    BY <1>8, <2>0, <2>2, <2>3, <2>4, <2>5, ListGoes
<1>9. CASE job.at = "items" /\ job.n = job.entry.len /\ Manager!Return("ok", job.out)
  <2>1. changes = 0 => job.n >= Manager!Count
    BY <1>9, CountIs DEF KeysRead, Listed
  <2> QED
    BY <1>6, <1>9, <2>1
<1>10. CASE /\ job.at = "enum" /\ Manager!Top.alive /\ job.n < Manager!Count
            /\ Manager!Goto([job EXCEPT !.n = @ + 1, !.out = Append(@, Manager!Nth(job.n + 1))])
  <2> DEFINE out == Append(job.out, Manager!Nth(job.n + 1))
             j == [job EXCEPT !.n = job.n + 1, !.out = out]
  <2>1. changes = 0 => out = [i \in 1..(job.n + 1) |-> Manager!Nth(i)]
    BY <1>4, <1>10, OneMore
  <2>2. Manager!Goto(j)
    BY <1>10
  <2> HIDE DEF out
  <2>3. /\ j.at = "enum" /\ j.op = job.op /\ j.path = job.path /\ j.open = job.open /\ j.n = job.n + 1
        /\ j.out = out /\ j.entry = job.entry
    BY <1>10 DEF KeysHeld, JobFields
  <2> HIDE DEF j
  <2>4. j.n \in Nat /\ (changes = 0 => j.n <= Manager!Count)
    BY <1>4, <1>10, <2>3, CountIs
  <2>5. changes = 0 => j.out = [i \in 1..j.n |-> Manager!Nth(i)]
    BY <2>1, <2>3
  <2> QED
    BY <1>10, <2>2, <2>3, <2>4, <2>5, ListGoes
<1>11. CASE job.at = "enum" /\ ~(job.n < Manager!Count) /\ Manager!Return("ok", job.out)
  <2>1. job.n >= Manager!Count
    BY <1>4, <1>11, CountIs
  <2> QED
    BY <1>6, <1>11, <2>1
<1>12. CASE Manager!getItems
  BY <1>3, <1>5, <1>7, <1>8, <1>9, <1>12 DEF Manager!getItems, Manager!Dead
<1>13. CASE Manager!enumNext
  BY <1>5, <1>10, <1>11, <1>13 DEF Manager!enumNext, Manager!Dead
<1> QED
  BY <1>1, <1>2, <1>5, <1>12, <1>13 DEF Manager!getSubKeys, Manager!getValueNames

-----------------------------------------------------------------------------
(* Calls and what others write *)

LEMMA CallBegins ==
  ASSUME Manager!KeysFit, KeysRead, NEW op, NEW p \in Paths, NEW e \in ValueEntries, NEW at,
         Manager!Begin(op, p, e, at),
         op \notin KeyOps => p = Valued,
         \/ at \in {"exists", "create", "delete"} /\ op = at
         \/ at = "auto" /\ op \in Manager!Setters
         \/ at = "open" /\ op \in ListOps \cup {"getValue", "getValueType", "deleteValue"}
         \/ at = "vopen" /\ op = "valueExists"
  PROVE  KeysKept
<1>1. /\ job.at = "idle" /\ job'.at = at /\ job'.op = op /\ job'.path = p /\ job'.entry = e
      /\ job'.n = 0 /\ job'.open = <<>> /\ job'.out = <<>> /\ changes' = 0
      /\ was' = (IF op \in Manager!Reads THEN Manager!Facts ELSE {}) /\ UNCHANGED <<keys, list>>
  BY DEF Manager!Begin, Manager!NoJob
<1>2. KeysTyped'
  <2>1. <<>> \in Seq(Handles)
    BY EmptySeq
  <2> QED
    BY <1>1, <2>1 DEF KeysRead, KeysTyped, Manager!KeysFit
<1>3. KeysAt'
  <2>1. Len(p) \in Nat
    BY TopLevel
  <2>2. at = "auto" => job'.n \in 0..Len(job'.path)
    BY <1>1, <2>1
  <2> QED
    BY <1>1, <2>2 DEF KeysAt, Deleting
<1>4. OneOpen' /\ ValueRead' /\ Listed' /\ Removed'
  BY <1>1 DEF OneOpen, Closed, Deleting, ValueRead, Listed, Removed
<1>5. Remembered'
  <2>1. Manager!Facts # {}
    BY FactsThere DEF KeysRead
  <2> QED
    BY <1>1, <2>1, SameFacts DEF Remembered
<1>6. Manager!ReadStep
  BY <1>1 DEF Manager!ReadStep, Manager!At
<1> QED
  BY <1>2, <1>3, <1>4, <1>5, <1>6 DEF KeysRead, KeysKept

LEMMA KeysReadCalls == ASSUME Manager!KeysFit, KeysRead, Manager!Call PROVE KeysKept
<1>1. Valued \in Paths /\ Manager!AnyEntry \in ValueEntries
  BY DEF Manager!KeysFit, Manager!AnyEntry
<1>2. ASSUME NEW p \in Paths, NEW op \in {"exists", "create", "delete"}, Manager!Begin(op, p, Manager!AnyEntry, op)
      PROVE KeysKept
  BY <1>1, <1>2, CallBegins DEF KeyOps
<1>3. ASSUME NEW p \in Paths, Manager!Begin("getSubKeys", p, Manager!AnyEntry, "open") PROVE KeysKept
  BY <1>1, <1>3, CallBegins DEF KeyOps, ListOps
<1>4. ASSUME NEW e \in ValueEntries, NEW op \in {"getValue", "getValueType", "deleteValue", "getItems",
             "getValueNames"},
             Manager!Begin(op, Valued, e, "open")
      PROVE  KeysKept
  BY <1>1, <1>4, CallBegins DEF ListOps
<1>5. ASSUME NEW e \in ValueEntries, Manager!Begin("valueExists", Valued, e, "vopen") PROVE KeysKept
  BY <1>1, <1>5, CallBegins
<1>6. ASSUME NEW e \in ValueEntries, NEW op \in Manager!Setters, NEW types, Manager!Set(op, types, Valued, e)
      PROVE KeysKept
  BY <1>1, <1>6, CallBegins DEF Manager!Set
<1>7. ASSUME NEW e \in ValueEntries,
             \/ Manager!setString(Valued, e) \/ Manager!setDWord(Valued, e) \/ Manager!setQWord(Valued, e)
             \/ Manager!setBinary(Valued, e) \/ Manager!setMultiString(Valued, e)
      PROVE  KeysKept
  BY <1>6, <1>7 DEF Manager!setString, Manager!setDWord, Manager!setQWord, Manager!setBinary,
     Manager!setMultiString, Manager!Setters
<1> QED
  BY <1>1, <1>2, <1>3, <1>4, <1>5, <1>7 DEF Manager!Call

LEMMA Buried ==
  ASSUME NEW s \in Seq(Handles), NEW gone
  PROVE  /\ Manager!Bury(s, gone) \in Seq(Handles) /\ Len(Manager!Bury(s, gone)) = Len(s)
         /\ \A i \in 1..Len(s) : /\ Manager!Bury(s, gone)[i].path = s[i].path
                                 /\ Manager!Bury(s, gone)[i].alive => s[i].alive /\ s[i].path \notin gone
<1> DEFINE b == Manager!Bury(s, gone)
<1>1. Len(s) \in Nat /\ DOMAIN s = 1..Len(s) /\ \A i \in 1..Len(s) : s[i] \in Handles
  BY LenProperties, ElementOfSeq
<1>2. b = [i \in 1..Len(s) |-> IF s[i].path \in gone THEN [s[i] EXCEPT !.alive = FALSE] ELSE s[i]]
  BY <1>1 DEF Manager!Bury
<1>3. ASSUME NEW i \in 1..Len(s)
      PROVE  /\ b[i] \in Handles /\ b[i].path = s[i].path
             /\ b[i].alive => s[i].alive /\ s[i].path \notin gone
  <2>1. s[i] \in Handles
    BY <1>1
  <2>2. CASE s[i].path \in gone
    <3>1. b[i] = [s[i] EXCEPT !.alive = FALSE]
      BY <1>2, <2>2
    <3> QED
      BY <2>1, <3>1 DEF Handles
  <2>3. CASE s[i].path \notin gone
    <3>1. b[i] = s[i]
      BY <1>2, <2>3
    <3> QED
      BY <2>1, <2>3, <3>1
  <2> QED
    BY <2>2, <2>3
<1> HIDE DEF b
<1>4. b \in [1..Len(s) -> Handles]
  BY <1>2, <1>3
<1>5. b \in Seq(Handles) /\ Len(b) = Len(s)
  BY <1>1, <1>4, SeqDef
<1> QED
  BY <1>3, <1>5 DEF b

LEMMA OthersStored ==
  ASSUME Manager!KeysFit, KeysRead, Manager!OtherProcess
  PROVE  /\ keys' \subseteq Paths /\ \A p \in keys' : Manager!Levels(p) \subseteq keys'
         /\ list' \in Seq(ValueEntries) /\ (list' # <<>> => Valued \in keys')
<1>0. keys \subseteq Paths /\ (\A p \in keys : Manager!Levels(p) \subseteq keys) /\ list \in Seq(ValueEntries)
      /\ (list # <<>> => Valued \in keys)
  BY DEF KeysRead, KeysTyped
<1>1. ASSUME NEW p \in Paths, keys' = keys \cup Manager!Levels(p), UNCHANGED list
      PROVE  /\ keys' \subseteq Paths /\ \A q \in keys' : Manager!Levels(q) \subseteq keys'
             /\ list' \in Seq(ValueEntries) /\ (list' # <<>> => Valued \in keys')
  BY <1>0, <1>1, KeyCreated DEF KeysRead
<1>2. ASSUME NEW p \in keys, Manager!Delete({p} \cup Manager!Below(p))
      PROVE  /\ keys' \subseteq Paths /\ \A q \in keys' : Manager!Levels(q) \subseteq keys'
             /\ list' \in Seq(ValueEntries) /\ (list' # <<>> => Valued \in keys')
  <2>1. /\ keys' = keys \ ({p} \cup Manager!Below(p))
        /\ list' = IF Valued \in {p} \cup Manager!Below(p) THEN <<>> ELSE list
    BY <1>2 DEF Manager!Delete
  <2>2. keys' \subseteq Paths /\ \A q \in keys' : Manager!Levels(q) \subseteq keys'
    BY <1>0, <2>1, KeyDeleted DEF KeysRead
  <2>3. <<>> \in Seq(ValueEntries)
    BY EmptySeq
  <2> QED
    BY <1>0, <2>1, <2>2, <2>3
<1>3. CASE Valued \in keys /\ (\E e \in ValueEntries : list' = Manager!Put(e)) /\ UNCHANGED keys
  BY <1>0, <1>3, ValuePut DEF KeysRead
<1>4. CASE \E e \in ValueEntries : list' = Manager!Without(e.name) /\ UNCHANGED keys
  BY <1>0, <1>4, ValueRemoved DEF KeysRead
<1> QED
  BY <1>1, <1>2, <1>3, <1>4 DEF Manager!OtherProcess

LEMMA KeysReadWrittenBetween == ASSUME Manager!KeysFit, KeysHeld, KeysRead, Manager!OtherProcess PROVE KeysKept
<1>1. /\ keys' \subseteq Paths /\ \A p \in keys' : Manager!Levels(p) \subseteq keys'
      /\ list' \in Seq(ValueEntries) /\ (list' # <<>> => Valued \in keys')
  BY OthersStored
<1>2. CASE job.at = "idle"
  <2>1. job' = Manager!NoJob /\ was' = {} /\ changes' = 0
    BY <1>2 DEF Manager!OtherProcess, Manager!At
  <2>2. KeysTyped'
    BY <1>1, <2>1, EmptySeq DEF KeysTyped, Manager!NoJob, Manager!KeysFit
  <2> QED
    BY <1>2, <2>1, <2>2 DEF KeysRead, KeysAt, OneOpen, ValueRead, Listed, Removed, Remembered, Manager!NoJob, KeyOps,
       ListOps, Deleting, Closed, KeysKept, Manager!ReadStep, Manager!At
<1>3. CASE job.at # "idle"
  <2> DEFINE open == Manager!Bury(job.open, keys \ keys')
  <2>1. /\ job' = [job EXCEPT !.open = open] /\ changes < MaxWrites /\ changes' = changes + 1
        /\ was' = IF was = {} THEN {} ELSE was \cup Manager!Facts'
    BY <1>3 DEF Manager!OtherProcess, Manager!At, Manager!Remember
  <2>2. /\ open \in Seq(Handles) /\ Len(open) = Len(job.open)
        /\ \A i \in 1..Len(job.open) : /\ open[i].path = job.open[i].path
                                       /\ open[i].alive => job.open[i].alive /\ job.open[i].path \notin keys \ keys'
    BY Buried DEF KeysRead, KeysTyped
  <2> HIDE DEF open
  <2>3. /\ job'.at = job.at /\ job'.op = job.op /\ job'.path = job.path /\ job'.entry = job.entry
        /\ job'.n = job.n /\ job'.out = job.out /\ job'.said = job.said /\ job'.open = open
    BY <2>1 DEF KeysHeld, JobFields
  <2>4. changes' \in 0..MaxWrites /\ changes' > 0
    BY <2>1 DEF KeysRead, KeysTyped, Manager!KeysFit
  <2>5. KeysTyped'
    BY <1>1, <2>2, <2>3, <2>4 DEF KeysRead, KeysTyped
  <2>6. KeysAt'
    BY <2>3 DEF KeysRead, KeysAt
  <2>7. OneOpen'
    <3>1. SUFFICES ASSUME job.at \notin Closed \cup Deleting
                   PROVE  Len(open) = 1 /\ Manager!Last(open).path = job.path
                          /\ (Manager!Last(open).alive => job.path \in keys')
      BY <2>3, <2>4 DEF OneOpen, Manager!Top
    <3>2. Len(job.open) = 1 /\ job.open[1].path = job.path /\ (job.open[1].alive => job.path \in keys)
      BY <3>1 DEF KeysRead, OneOpen, Manager!Top, Manager!Last
    <3>3. Len(open) = 1 /\ open[1].path = job.path /\ (open[1].alive => job.path \in keys')
      BY <2>2, <3>2
    <3> QED
      BY <3>3 DEF Manager!Last
  <2>8. ValueRead' /\ Listed' /\ Removed'
    <3>1. was \subseteq was'
      BY <2>1
    <3> QED
      BY <2>3, <2>4, <3>1 DEF KeysRead, ValueRead, Listed, Removed
  <2>9. Remembered'
    BY <1>3, <2>1, <2>3 DEF KeysRead, Remembered
  <2> QED
    BY <1>3, <2>3, <2>5, <2>6, <2>7, <2>8, <2>9 DEF KeysRead, KeysKept, Manager!ReadStep
<1> QED
  BY <1>2, <1>3

LEMMA KeysReadInit == ASSUME Manager!KeysFit PROVE Manager!Init => KeysRead
<1> SUFFICES ASSUME Manager!Init PROVE KeysRead
  OBVIOUS
<1>1. keys = {} /\ list = <<>> /\ job = Manager!NoJob /\ was = {} /\ changes = 0
  BY DEF Manager!Init
<1>2. KeysTyped
  BY <1>1, EmptySeq DEF KeysTyped, Manager!NoJob, Manager!KeysFit
<1> QED
  BY <1>1, <1>2 DEF KeysRead, KeysAt, OneOpen, ValueRead, Listed, Removed, Remembered, Manager!NoJob, KeyOps,
     ListOps, Deleting, Closed

LEMMA KeysReadNext == ASSUME Manager!KeysFit, KeysHeld, KeysRead, Manager!Next PROVE KeysKept
BY KeysReadCalls, KeysReadExists, KeysReadCreates, KeysReadAutoCreates, KeysReadDeletes, KeysReadValueExists,
   KeysReadValueType, KeysReadValue,
   KeysReadLists, KeysReadSets, KeysReadWrittenBetween
   DEF Manager!Next, Manager!Step

LEMMA KeysReadStay == ASSUME KeysRead, UNCHANGED Manager!vars PROVE KeysRead'
<1>1. UNCHANGED <<keys, list, job, was, changes>>
  BY DEF Manager!vars
<1>2. KeysTyped' /\ KeysAt' /\ Removed'
  BY <1>1 DEF KeysRead, KeysTyped, KeysAt, Removed
<1>3. OneOpen' /\ ValueRead' /\ Remembered'
  BY <1>1, SameFacts DEF KeysRead, OneOpen, Manager!Top, ValueRead, Manager!Index, Remembered
<1>4. Listed'
  <2>1. Manager!Count' = Manager!Count /\ \A i : Manager!Nth(i)' = Manager!Nth(i)
    BY <1>1, SameCount
  <2> QED
    BY <1>1, <2>1 DEF KeysRead, Listed
<1> QED
  BY <1>2, <1>3, <1>4 DEF KeysRead

LEMMA KeysTypeOK == KeysRead => Manager!TypeOK
<1> SUFFICES ASSUME KeysRead PROVE Manager!TypeOK
  OBVIOUS
<1>1. \A i \in DOMAIN list : list[i] \in ValueEntries
  BY LenProperties, ElementOfSeq DEF KeysRead, KeysTyped
<1>2. \A i \in DOMAIN job.open : job.open[i].path \in Paths
  <2>1. \A i \in DOMAIN job.open : job.open[i] \in Handles
    BY LenProperties, ElementOfSeq DEF KeysRead, KeysTyped
  <2> QED
    BY <2>1 DEF Handles
<1> QED
  BY <1>1, <1>2 DEF Manager!TypeOK, KeysRead, KeysTyped

-----------------------------------------------------------------------------
(* Permissions: what each place in the code may hold.                       *)

AskFields == {"op", "at", "type", "rights", "list", "replace", "copy", "new", "k", "held", "mask", "out", "said"}

Listing ==
  /\ ask.at = "read" => ask.op \in {"getPermissions", "setPermissions"}
  /\ ask.at \in {"descriptor", "size", "fill", "add", "apply"} => ask.op = "setPermissions"

Holding ==
  /\ ask.held \subseteq {"descriptor", "dacl", "token", "group", "object", "process"}
  /\ ask.at \in {"read", "told", "descriptor", "size"} => ask.held \subseteq {"descriptor"}
  /\ ask.at \in {"fill", "add", "apply"} => ask.held \subseteq {"descriptor", "dacl"}
  /\ ask.at \in {"owner", "check", "take", "enable", "disable", "write", "admin", "runas"} => ask.held = {}
  /\ ask.at \in {"user", "enabling", "disabling", "elevation"} => ask.held \subseteq {"token"}
  /\ ask.at = "member" => ask.held \subseteq {"token", "group"}
  /\ ask.at = "manager" => ask.held \subseteq {"group"}
  /\ ask.at = "opened" => ask.held \subseteq {"object"}
  /\ ask.at = "await" => ask.held \subseteq {"process"}

RightsHeld ==
  /\ DOMAIN ask = AskFields
  /\ Handler!NothingHeld
  /\ Listing /\ Holding

LEMMA RightsInit == Handler!Init => RightsHeld
BY DEF Handler!Init, Handler!NoAsk, RightsHeld, AskFields, Handler!NothingHeld, Handler!At, Listing,
   Holding

\* A call ends and has given back all but what a guard frees.
LEMMA RightsEnd ==
  ASSUME RightsHeld, NEW said, NEW held, held \subseteq {"descriptor"},
         ask' = Handler!Over(said, held)
  PROVE  RightsHeld'
<1>1. DOMAIN ask' = AskFields /\ ask'.at = "idle" /\ ask'.held = {}
  BY DEF Handler!Over, Handler!NoAsk, Handler!RAII, AskFields
<1> QED
  BY <1>1 DEF RightsHeld, Handler!NothingHeld, Handler!At, Listing, Holding

LEMMA RightsReturn ==
  ASSUME RightsHeld, NEW freed, ask.held \ freed \subseteq {"descriptor"},
         NEW said, Handler!Return(said, freed) \/ Handler!Throw(said, freed) \/ Handler!Fails(freed)
  PROVE  RightsHeld'
<1>1. ASSUME NEW code, Handler!Return(code, freed)
      PROVE  RightsHeld'
  BY <1>1, RightsEnd DEF Handler!Return, Handler!Goto
<1>2. ASSUME NEW code, Handler!Throw(code, freed)
      PROVE  RightsHeld'
  BY <1>1, <1>2 DEF Handler!Throw
<1> QED
  BY <1>1, <1>2 DEF Handler!Fails

\* A call goes on at a place that may hold what it holds.
LEMMA RightsGoOn ==
  ASSUME RightsHeld, DOMAIN ask' = AskFields, ask'.op = ask.op, ask'.at # "idle",
         Listing', Holding'
  PROVE  RightsHeld'
BY DEF RightsHeld, Handler!NothingHeld, Handler!At

LEMMA RightsCall ==
  ASSUME RightsHeld, Handler!Call \/ Handler!Meddle \/ Handler!Forget
  PROVE  RightsHeld'
<1>1. ASSUME NEW a, DOMAIN a = AskFields, a.held = {}, a.at # "idle",
             a.at = "read" => a.op \in {"getPermissions", "setPermissions"},
             a.at \in {"descriptor", "size", "fill", "add", "apply"} => a.op = "setPermissions",
             Handler!BeginList(a) \/ Handler!BeginToken(a)
      PROVE  RightsHeld'
  <2>1. ask' = a
    BY <1>1 DEF Handler!BeginList, Handler!BeginToken, Handler!Begin
  <2> QED
    BY <1>1, <2>1 DEF RightsHeld, Handler!NothingHeld, Handler!At, Listing, Holding
<1>2. ASSUME NEW op, NEW type, NEW at
      PROVE  LET a == Handler!New(op, type, at) IN
             DOMAIN a = AskFields /\ a.held = {} /\ a.at = at /\ a.op = op
  BY DEF Handler!New, Handler!NoAsk, AskFields
<1>3. CASE Handler!Call
  <2>1. ASSUME NEW type, Handler!BeginList(Handler!New("getPermissions", type, "read"))
        PROVE  RightsHeld'
    BY <2>1, <1>1, <1>2
  <2>2. ASSUME NEW type, NEW l, NEW all \in BOOLEAN,
               Handler!BeginList([Handler!New("setPermissions", type, IF all THEN "descriptor" ELSE "read")
                                    EXCEPT !.list = l, !.replace = all])
        PROVE  RightsHeld'
    <3> DEFINE a == [Handler!New("setPermissions", type, IF all THEN "descriptor" ELSE "read")
                       EXCEPT !.list = l, !.replace = all]
    <3>1. /\ DOMAIN a = AskFields /\ a.held = {} /\ a.op = "setPermissions"
          /\ a.at \in {"descriptor", "read"}
      BY DEF Handler!New, Handler!NoAsk, AskFields
    <3> HIDE DEF a
    <3> QED
      BY <2>2, <3>1, <1>1 DEF a
  <2>3. ASSUME NEW type, NEW r,
               Handler!BeginList([Handler!New("checkAccess", type, "check") EXCEPT !.rights = r])
        PROVE  RightsHeld'
    <3> DEFINE a == [Handler!New("checkAccess", type, "check") EXCEPT !.rights = r]
    <3>1. DOMAIN a = AskFields /\ a.held = {} /\ a.at = "check"
      BY DEF Handler!New, Handler!NoAsk, AskFields
    <3> HIDE DEF a
    <3> QED
      BY <2>3, <3>1, <1>1 DEF a
  <2>4. ASSUME NEW l, Handler!BeginToken([Handler!New("setOwner", "File", "owner") EXCEPT !.list = l])
        PROVE  RightsHeld'
    <3> DEFINE a == [Handler!New("setOwner", "File", "owner") EXCEPT !.list = l]
    <3>1. DOMAIN a = AskFields /\ a.held = {} /\ a.at = "owner"
      BY DEF Handler!New, Handler!NoAsk, AskFields
    <3> HIDE DEF a
    <3> QED
      BY <2>4, <3>1, <1>1 DEF a
  <2>5. CASE Handler!BeginToken(Handler!New("takeOwnership", "File", "take"))
    BY <2>5, <1>1, <1>2
  <2>6. ASSUME NEW at \in {"enable", "disable"},
               Handler!BeginToken(Handler!New("adjustPrivilege", "File", at))
        PROVE  RightsHeld'
    BY <2>6, <1>1, <1>2
  <2>7. CASE Handler!BeginToken(Handler!New("isRunningAsAdministrator", "File", "admin"))
    BY <2>7, <1>1, <1>2
  <2>8. ASSUME NEW wait,
               Handler!BeginToken([Handler!New("elevate", "File", "admin") EXCEPT !.replace = wait])
        PROVE  RightsHeld'
    <3> DEFINE a == [Handler!New("elevate", "File", "admin") EXCEPT !.replace = wait]
    <3>1. DOMAIN a = AskFields /\ a.held = {} /\ a.at = "admin"
      BY DEF Handler!New, Handler!NoAsk, AskFields
    <3> HIDE DEF a
    <3> QED
      BY <2>8, <3>1, <1>1 DEF a
  <2> QED
    BY <1>3, <2>1, <2>2, <2>3, <2>4, <2>5, <2>6, <2>7, <2>8 DEF Handler!Call, Handler!Adjusting
<1>4. CASE Handler!Meddle
  BY <1>4 DEF Handler!Meddle, RightsHeld, Handler!NothingHeld, Handler!At, Listing, Holding
<1>5. CASE Handler!Forget
  BY <1>5 DEF Handler!Forget, Handler!NoAsk, RightsHeld, AskFields, Handler!NothingHeld, Handler!At,
     Listing, Holding
<1> QED
  BY <1>3, <1>4, <1>5

LEMMA RightsRead ==
  ASSUME RightsHeld, Handler!getSecurityInfo \/ Handler!getPermissions
  PROVE  RightsHeld'
<1>1. ask.at \in {"read", "told"} /\ ask.held \subseteq {"descriptor"}
  BY DEF Handler!getSecurityInfo, Handler!getPermissions, Handler!At, RightsHeld, Holding
<1>2. CASE Handler!Fails({}) \/ Handler!Return("ok", {})
  BY <1>1, <1>2, RightsReturn
<1>3. ASSUME ask.at = "read",
             Handler!Goto([ask EXCEPT !.copy = acl, !.held = @ \cup {"descriptor"},
                             !.at = IF ask.op = "getPermissions" THEN "told" ELSE "size"])
      PROVE  RightsHeld'
  <2>1. /\ DOMAIN ask' = AskFields /\ ask'.op = ask.op /\ ask'.held \subseteq {"descriptor"}
        /\ ask'.at = IF ask.op = "getPermissions" THEN "told" ELSE "size"
    BY <1>1, <1>3 DEF Handler!Goto, RightsHeld, AskFields
  <2> QED
    BY <1>3, <2>1, RightsGoOn DEF RightsHeld, Listing, Holding
<1>4. ASSUME NEW k, NEW out, ask.at = "told", Handler!Goto([ask EXCEPT !.k = k, !.out = out])
      PROVE  RightsHeld'
  <2>1. DOMAIN ask' = AskFields /\ ask'.op = ask.op /\ ask'.held = ask.held /\ ask'.at = "told"
    BY <1>4 DEF Handler!Goto, RightsHeld, AskFields
  <2> QED
    BY <1>1, <2>1, RightsGoOn DEF Listing, Holding
<1>5. CASE Handler!getPermissions
  <2> DEFINE ace == ask.copy[ask.k]
             next == [ask EXCEPT !.k = @ + 1]
  <2>1. next = [ask EXCEPT !.k = ask.k + 1, !.out = ask.out]
    BY DEF RightsHeld, AskFields
  <2>2. [next EXCEPT !.out = Append(@, Handler!Told(ace, ask.type))]
          = [ask EXCEPT !.k = ask.k + 1, !.out = Append(ask.out, Handler!Told(ace, ask.type))]
    BY DEF RightsHeld, AskFields
  <2>3. \/ Handler!Fails({}) \/ Handler!Return("ok", {})
        \/ ask.at = "told" /\ Handler!Goto(next)
        \/ ask.at = "told" /\ Handler!Goto([next EXCEPT !.out = Append(@, Handler!Told(ace, ask.type))])
    BY <1>5 DEF Handler!getPermissions, Handler!At
  <2> HIDE DEF ace, next
  <2> QED
    BY <1>2, <1>4, <2>1, <2>2, <2>3
<1> QED
  BY <1>2, <1>3, <1>5 DEF Handler!getSecurityInfo, Handler!At


LEMMA RightsWrite ==
  ASSUME RightsHeld,
         \/ Handler!newDescriptor \/ Handler!sizeAndCopy \/ Handler!addEntry
         \/ Handler!setPermissions \/ Handler!setOwner
  PROVE  RightsHeld'
<1>1. CASE Handler!newDescriptor
  <2>1. ask.at = "descriptor" /\ ask.held \subseteq {"descriptor"} /\ ask.op = "setPermissions"
    BY <1>1 DEF Handler!newDescriptor, Handler!At, RightsHeld, Listing, Holding
  <2>2. CASE Handler!Throw("OutOfMemory", {})
    BY <2>1, <2>2, RightsReturn
  <2>3. CASE Handler!Goto([ask EXCEPT !.at = "size", !.held = @ \cup {"descriptor"}])
    <3>1. /\ DOMAIN ask' = AskFields /\ ask'.op = ask.op /\ ask'.at = "size"
          /\ ask'.held \subseteq {"descriptor"}
      BY <2>1, <2>3 DEF Handler!Goto, RightsHeld, AskFields
    <3> QED
      BY <2>1, <3>1, RightsGoOn DEF Listing, Holding
  <2> QED
    BY <1>1, <2>2, <2>3 DEF Handler!newDescriptor
<1>2. CASE Handler!sizeAndCopy
  <2>1. /\ ask.op = "setPermissions"
        /\ \/ ask.at = "size" /\ ask.held \subseteq {"descriptor"}
           \/ ask.at = "fill" /\ ask.held \subseteq {"descriptor", "dacl"}
    BY <1>2 DEF Handler!sizeAndCopy, Handler!At, RightsHeld, Listing, Holding
  <2>2. CASE ask.at = "size" /\ Handler!Fails({})
    BY <2>1, <2>2, RightsReturn
  <2>3. CASE ask.at = "fill" /\ Handler!Fails({"dacl"})
    BY <2>1, <2>3, RightsReturn
  <2>4. CASE ask.at = "size" /\ Handler!Goto([ask EXCEPT !.at = "fill", !.held = @ \cup {"dacl"}, !.k = 1])
    <3>1. /\ DOMAIN ask' = AskFields /\ ask'.op = ask.op /\ ask'.at = "fill"
          /\ ask'.held \subseteq {"descriptor", "dacl"}
      BY <2>1, <2>4 DEF Handler!Goto, RightsHeld, AskFields
    <3> QED
      BY <2>1, <3>1, RightsGoOn DEF Listing, Holding
  <2>5. CASE ask.at = "fill" /\ Handler!Goto([ask EXCEPT !.at = "add", !.new = ask.copy])
    <3>1. DOMAIN ask' = AskFields /\ ask'.op = ask.op /\ ask'.at = "add" /\ ask'.held = ask.held
      BY <2>5, SMTT(60) DEF Handler!Goto, RightsHeld, AskFields
    <3> QED
      BY <2>1, <2>5, <3>1, RightsGoOn DEF Listing, Holding
  <2> QED
    BY <1>2, <2>2, <2>3, <2>4, <2>5 DEF Handler!sizeAndCopy, Handler!At
<1>3. CASE Handler!addEntry
  <2>1. ask.op = "setPermissions" /\ ask.at = "add" /\ ask.held \subseteq {"descriptor", "dacl"}
    BY <1>3 DEF Handler!addEntry, Handler!At, RightsHeld, Listing, Holding
  <2>2. CASE Handler!Fails({"dacl"})
    BY <2>1, <2>2, RightsReturn
  \* the leak: the list stays allocated
  <2>3. CASE Handler!Fails({})
    <3>1. ask' = Handler!Over("SecurityError", ask.held \ {})
      BY <2>1, <2>3 DEF Handler!Fails, Handler!Throw, Handler!Return, Handler!Goto
    <3>2. /\ DOMAIN ask' = AskFields /\ ask'.at = "idle" /\ ask'.op = "setPermissions"
          /\ ask'.held \subseteq {"dacl"} /\ ask'.said = "SecurityError"
      BY <2>1, <3>1 DEF Handler!Over, Handler!NoAsk, Handler!RAII, AskFields
    <3> QED
      BY <3>2 DEF RightsHeld, Handler!NothingHeld, Handler!At, Listing, Holding
  <2>4. ASSUME NEW k, NEW new, Handler!Goto([ask EXCEPT !.k = k, !.new = new])
        PROVE  RightsHeld'
    <3>1. DOMAIN ask' = AskFields /\ ask'.op = ask.op /\ ask'.held = ask.held /\ ask'.at = "add"
      BY <2>1, <2>4 DEF Handler!Goto, RightsHeld, AskFields
    <3> QED
      BY <2>1, <3>1, RightsGoOn DEF Listing, Holding
  <2> DEFINE next == [ask EXCEPT !.k = @ + 1]
  <2>5. next = [ask EXCEPT !.k = ask.k + 1, !.new = ask.new]
    BY DEF RightsHeld, AskFields
  <2>6. \A ace : [next EXCEPT !.new = Append(@, ace)] = [ask EXCEPT !.k = ask.k + 1, !.new = Append(ask.new, ace)]
    BY DEF RightsHeld, AskFields
  <2>7. \/ Handler!Fails({}) \/ Handler!Fails({"dacl"}) \/ Handler!Goto(next)
        \/ \E ace : Handler!Goto([next EXCEPT !.new = Append(@, ace)])
    BY <1>3 DEF Handler!addEntry
  <2> HIDE DEF next
  <2> QED
    BY <2>2, <2>3, <2>4, <2>5, <2>6, <2>7
<1>4. CASE Handler!setPermissions
  <2>1. /\ ask.op = "setPermissions" /\ ask.at \in {"add", "apply"}
        /\ ask.held \ {"dacl"} \subseteq {"descriptor"} /\ ask.held \subseteq {"descriptor", "dacl"}
    BY <1>4 DEF Handler!setPermissions, Handler!At, RightsHeld, Listing, Holding
  <2>2. CASE Handler!Fails({"dacl"})
    BY <2>1, <2>2, RightsReturn
  <2>3. CASE Handler!Goto([ask EXCEPT !.at = "apply"])
    <3>1. DOMAIN ask' = AskFields /\ ask'.op = ask.op /\ ask'.held = ask.held /\ ask'.at = "apply"
      BY <2>3 DEF Handler!Goto, RightsHeld, AskFields
    <3> QED
      BY <2>1, <3>1, RightsGoOn DEF Listing, Holding
  <2>4. CASE ask' = Handler!Over("ok", ask.held \ {"dacl"})
    BY <2>1, <2>4, RightsEnd
  <2> QED
    BY <1>4, <2>2, <2>3, <2>4 DEF Handler!setPermissions
<1>5. CASE Handler!setOwner
  <2>1. ask.at = "owner" /\ ask.held = {}
    BY <1>5 DEF Handler!setOwner, Handler!At, RightsHeld, Holding
  <2>2. CASE Handler!Fails({})
    BY <2>1, <2>2, RightsReturn
  <2>3. CASE ask' = Handler!Over("ok", {})
    BY <2>3, RightsEnd
  <2> QED
    BY <1>5, <2>2, <2>3 DEF Handler!setOwner
<1> QED
  BY <1>1, <1>2, <1>3, <1>4, <1>5

LEMMA RightsCheck == ASSUME RightsHeld, Handler!checkAccess PROVE RightsHeld'
<1>1. /\ ask.at \in {"check", "manager", "opened"}
      /\ ask.at = "check" => ask.held = {}
      /\ ask.at = "manager" => ask.held \subseteq {"group"}
      /\ ask.at = "opened" => ask.held \subseteq {"object"}
  BY DEF Handler!checkAccess, Handler!At, RightsHeld, Holding
<1>2. ASSUME NEW said, ask.at = "check",
             Handler!Fails({}) \/ Handler!Return(said, {}) \/ Handler!Throw(said, {})
      PROVE  RightsHeld'
  BY <1>1, <1>2, RightsReturn
<1>3. ASSUME NEW said, ask.at = "manager", Handler!Return(said, {"group"}) \/ Handler!Throw(said, {"group"})
      PROVE  RightsHeld'
  BY <1>1, <1>3, RightsReturn
<1>4. CASE ask.at = "opened" /\ Handler!Return("true", {"object"})
  BY <1>1, <1>4, RightsReturn
<1>5. ASSUME NEW mask, Handler!Goto([[ask EXCEPT !.at = "opened", !.mask = mask] EXCEPT !.held = {"object"}])
      PROVE  RightsHeld'
  <2>1. DOMAIN ask' = AskFields /\ ask'.op = ask.op /\ ask'.held = {"object"} /\ ask'.at = "opened"
    BY <1>5 DEF Handler!Goto, RightsHeld, AskFields
  <2> QED
    BY <2>1, RightsGoOn DEF Listing, Holding
<1>6. ASSUME NEW mask, Handler!Goto([[ask EXCEPT !.at = "manager", !.mask = mask] EXCEPT !.held = {"group"}])
      PROVE  RightsHeld'
  <2>1. DOMAIN ask' = AskFields /\ ask'.op = ask.op /\ ask'.held = {"group"} /\ ask'.at = "manager"
    BY <1>6 DEF Handler!Goto, RightsHeld, AskFields
  <2> QED
    BY <2>1, RightsGoOn DEF Listing, Holding
<1> QED
  BY <1>2, <1>3, <1>4, <1>5, <1>6 DEF Handler!checkAccess, Handler!At

LEMMA RightsToken ==
  ASSUME RightsHeld, NEW at, NEW next, ask.held = {},
         next \in {"user", "enabling", "disabling", "elevation"}, Handler!openToken(at, next)
  PROVE  RightsHeld'
<1>1. CASE Handler!Fails({})
  BY <1>1, RightsReturn
<1>2. CASE Handler!Goto([ask EXCEPT !.at = next, !.held = @ \cup {"token"}])
  <2>1. DOMAIN ask' = AskFields /\ ask'.op = ask.op /\ ask'.held = {"token"} /\ ask'.at = next
    BY <1>2 DEF Handler!Goto, RightsHeld, AskFields
  <2> QED
    BY <2>1, RightsGoOn DEF Listing, Holding
<1> QED
  BY <1>1, <1>2 DEF Handler!openToken

LEMMA RightsTake == ASSUME RightsHeld, Handler!takeOwnership PROVE RightsHeld'
<1>1. CASE Handler!openToken("take", "user")
  BY <1>1, RightsToken DEF Handler!openToken, Handler!At, RightsHeld, Holding
<1>2. CASE ask.at = "user" /\ Handler!Fails({"token"})
  BY <1>2, RightsReturn DEF RightsHeld, Holding
<1>3. CASE ask.at = "user" /\ Handler!Goto([ask EXCEPT !.at = "enable", !.held = @ \ {"token"}])
  <2>1. DOMAIN ask' = AskFields /\ ask'.op = ask.op /\ ask'.held = {} /\ ask'.at = "enable"
    BY <1>3 DEF Handler!Goto, RightsHeld, AskFields, Holding
  <2> QED
    BY <2>1, RightsGoOn DEF Listing, Holding
<1>4. ASSUME NEW said, ask.at = "write", ask' = [ask EXCEPT !.at = "disable", !.said = said]
      PROVE  RightsHeld'
  <2>1. DOMAIN ask' = AskFields /\ ask'.op = ask.op /\ ask'.held = {} /\ ask'.at = "disable"
    BY <1>4 DEF RightsHeld, AskFields, Holding
  <2> QED
    BY <2>1, RightsGoOn DEF Listing, Holding
<1> QED
  BY <1>1, <1>2, <1>3, <1>4 DEF Handler!takeOwnership, Handler!At, Handler!Goto

LEMMA RightsAdjust == ASSUME RightsHeld, Handler!adjustPrivilege PROVE RightsHeld'
<1>1. Handler!Turning = {"enabling", "disabling"}
  BY DEF Handler!Turning, Handler!Adjusting, Handler!Turn
<1>2. ASSUME NEW at \in Handler!Adjusting, Handler!openToken(at, Handler!Turn[at])
      PROVE  RightsHeld'
  <2>1. Handler!Turn[at] \in {"enabling", "disabling"} /\ at \in {"enable", "disable"}
    BY <1>2 DEF Handler!Adjusting, Handler!Turn
  <2>2. ask.held = {}
    BY <1>2, <2>1 DEF Handler!openToken, Handler!At, RightsHeld, Holding
  <2> QED
    BY <1>2, <2>1, <2>2, RightsToken
<1>3. CASE ask.at \in Handler!Turning /\ Handler!Fails({"token"})
  BY <1>1, <1>3, RightsReturn DEF RightsHeld, Holding
<1>4. ASSUME NEW said, ask.at \in Handler!Turning, ask' = Handler!Answered(said)
      PROVE  RightsHeld'
  <2>1. ask.held \ {"token"} = {}
    BY <1>1, <1>4 DEF RightsHeld, Holding
  <2>2. CASE \E code : ask' = Handler!Over(code, ask.held \ {"token"})
    BY <2>1, <2>2, RightsEnd
  <2>3. CASE ask' = [ask EXCEPT !.at = "write", !.held = ask.held \ {"token"}]
    <3>1. DOMAIN ask' = AskFields /\ ask'.op = ask.op /\ ask'.held = {} /\ ask'.at = "write"
      BY <2>1, <2>3 DEF RightsHeld, AskFields
    <3> QED
      BY <3>1, RightsGoOn DEF Listing, Holding
  <2> QED
    BY <1>4, <2>2, <2>3 DEF Handler!Answered
<1> QED
  BY <1>2, <1>3, <1>4 DEF Handler!adjustPrivilege, Handler!Goto

LEMMA RightsElevate ==
  ASSUME RightsHeld, Handler!isRunningAsAdministrator \/ Handler!elevateToAdministrator
  PROVE  RightsHeld'
<1>1. CASE Handler!openToken("admin", "elevation")
  BY <1>1, RightsToken DEF Handler!openToken, Handler!At, RightsHeld, Holding
<1>2. ASSUME NEW freed, ask.held \ freed = {}, NEW said, Handler!Return(said, freed) \/ Handler!Fails(freed)
      PROVE  RightsHeld'
  BY <1>2, RightsReturn
<1>3. ASSUME NEW freed, ask.held \ freed = {}, Handler!Goto([ask EXCEPT !.at = "runas", !.held = @ \ freed])
      PROVE  RightsHeld'
  <2>1. DOMAIN ask' = AskFields /\ ask'.op = ask.op /\ ask'.held = {} /\ ask'.at = "runas"
    BY <1>3 DEF Handler!Goto, RightsHeld, AskFields
  <2> QED
    BY <2>1, RightsGoOn DEF Listing, Holding
<1>4. CASE ask.at = "elevation" /\ Handler!Goto([ask EXCEPT !.at = "member", !.held = @ \cup {"group"}])
  <2>1. /\ DOMAIN ask' = AskFields /\ ask'.op = ask.op /\ ask'.held \subseteq {"token", "group"}
        /\ ask'.at = "member"
    BY <1>4 DEF Handler!Goto, RightsHeld, AskFields, Holding
  <2> QED
    BY <2>1, RightsGoOn DEF Listing, Holding
<1>5. CASE Handler!isRunningAsAdministrator
  <2>1. /\ ask.at = "elevation" => ask.held \ {"token"} = {}
        /\ ask.at = "member" => ask.held \ {"token", "group"} = {}
    BY DEF RightsHeld, Holding
  <2> QED
    BY <1>1, <1>2, <1>3, <1>4, <1>5, <2>1 DEF Handler!isRunningAsAdministrator, Handler!At
<1>6. CASE Handler!elevateToAdministrator
  <2>1. /\ ask.at = "runas" => ask.held \ {} = {}
        /\ ask.at = "await" => ask.held \ {"process"} = {}
    BY DEF RightsHeld, Holding
  <2>2. CASE ask.at = "runas" /\ (\/ Handler!Throw("SystemError", {}) \/ Handler!Fails({})
                                  \/ Handler!Return("false", {}) \/ Handler!Return("true", {}))
    BY <2>1, <2>2, RightsReturn
  <2>3. CASE ask.at = "runas" /\ Handler!Goto([ask EXCEPT !.at = "await", !.held = {"process"}])
    <3>1. DOMAIN ask' = AskFields /\ ask'.op = ask.op /\ ask'.held = {"process"} /\ ask'.at = "await"
      BY <2>3 DEF Handler!Goto, RightsHeld, AskFields
    <3> QED
      BY <3>1, RightsGoOn DEF Listing, Holding
  <2>4. CASE ask.at = "await" /\ Handler!Return("true", {"process"})
    BY <1>2, <2>1, <2>4
  <2> QED
    BY <1>6, <2>2, <2>3, <2>4 DEF Handler!elevateToAdministrator, Handler!At
<1> QED
  BY <1>5, <1>6

LEMMA RightsNext == ASSUME RightsHeld, Handler!Next PROVE RightsHeld'
BY RightsCall, RightsRead, RightsWrite, RightsCheck, RightsTake, RightsAdjust, RightsElevate
   DEF Handler!Next, Handler!Step


-----------------------------------------------------------------------------
(* Permissions: what a call has done so far, if nobody else has written.     *)

AskedSet == [trustee : STRING, rights : SUBSET Handler!FullControl, action : {"Grant", "Deny"},
             inheritance : Handler!Modes]

\* The state and the variables of the call are what the code can store.
RightsTyped ==
  /\ DOMAIN ask = AskFields
  /\ acl \in Seq(Handler!AnyEntry) /\ owner \in Sids /\ token \in Handler!Tokens
  /\ meddling \in 0..MaxMeddling
  /\ ask.type \in Handler!Types /\ ask.rights \subseteq Handler!FullControl
  /\ ask.list \in Seq(Handler!AnyPermission) /\ ask.replace \in BOOLEAN
  /\ ask.copy \in Seq(Handler!AnyEntry) /\ ask.new \in Seq(Handler!AnyEntry)
  /\ ask.out \in Seq(AskedSet) /\ ask.k \in Nat \ {0}

\* where a call can be
Places ==
  /\ ask.op = "getPermissions" => ask.at \in {"read", "told", "idle"}
  /\ ask.op = "setPermissions" => ask.at \in {"descriptor", "read", "size", "fill", "add", "apply", "idle"}
  /\ ask.op = "checkAccess" => ask.at \in {"check", "manager", "opened", "idle"}
  /\ ask.op = "takeOwnership" =>
       ask.at \in {"take", "user", "enable", "enabling", "write", "disable", "disabling", "idle"}
  /\ ask.at = "manager" => ask.type = "Service"

\* nothing is written before the call's last step, but for the privilege and the owner
Untouched ==
  ask.at # "idle" /\ meddling = 0 =>
    /\ acl = prior.acl
    /\ ask.at \notin {"disable", "disabling"} => owner = prior.owner
    /\ ask.at \notin {"write", "disable", "disabling"} => token = prior.token
    /\ ask.op = "takeOwnership" /\ ask.at \in {"disable", "disabling"} /\ ask.said = "done" => owner = Me

\* the entries before the k-th have been told
Telling ==
  /\ ask.at \in {"descriptor", "read"} => ask.out = <<>> /\ ask.copy = <<>> /\ ask.k = 1
  /\ ask.at = "told" =>
       /\ meddling = 0 => ask.copy = prior.acl
       /\ ask.k <= Len(ask.copy) + 1
       /\ \E f \in [DOMAIN ask.out -> Nat] :
            /\ Handler!Picks(f, {i \in 1..(ask.k - 1) : ask.copy[i].type # "audit"})
            /\ \A i \in DOMAIN f : ask.out[i] = Handler!Told(ask.copy[f[i]], ask.type)

\* those before the k-th are in the new list
Filling ==
  /\ ask.at = "read" => ask.replace = FALSE
  /\ ask.replace /\ ask.at \in {"descriptor", "size", "fill"} => ask.copy = <<>>
  /\ ask.at = "fill" => ask.k = 1
  /\ ask.at = "apply" => ask.replace /\ ask.k > Len(ask.list)
  /\ ask.replace /\ ask.at \in {"add", "apply"} =>
       /\ ask.k <= Len(ask.list) + 1
       /\ \E f \in [DOMAIN ask.new -> Nat] :
            /\ Handler!Picks(f, {i \in 1..(ask.k - 1) : ask.list[i].action # "Revoke"})
            /\ \A i \in DOMAIN f : /\ ask.new[i] = Handler!Ace(ask.list[f[i]])
                                   /\ "PROTECTED" \notin ask.new[i].flags

Trying ==
  ask.at = "opened" /\ ask.type # "Service" /\ meddling = 0 =>
    Handler!Allows(acl, owner, Handler!accessMask(ask.rights, ask.type))

RightsSoFar == RightsTyped /\ Places /\ Untouched /\ Telling /\ Filling /\ Trying
RightsKept == RightsSoFar' /\ Handler!RightsStep

LEMMA ListsFit == Handler!PermissionsFit
BY HandlerLists

\* One more is picked, or not.
LEMMA PicksNext ==
  ASSUME NEW n \in Nat, NEW f \in [1..n -> Nat], NEW k \in Nat \ {0}, NEW S,
         S \subseteq 1..(k - 1), Handler!Picks(f, S)
  PROVE  /\ Handler!Picks([i \in 1..(n + 1) |-> IF i = n + 1 THEN k ELSE f[i]], S \cup {k})
         /\ [i \in 1..(n + 1) |-> IF i = n + 1 THEN k ELSE f[i]] \in [1..(n + 1) -> Nat]
<1> DEFINE g == [i \in 1..(n + 1) |-> IF i = n + 1 THEN k ELSE f[i]]
<1>1. \A i \in 1..n : f[i] \in S /\ f[i] < k /\ g[i] = f[i]
  BY DEF Handler!Picks
<1>2. g[n + 1] = k /\ DOMAIN g = 1..(n + 1) /\ DOMAIN f = 1..n
  OBVIOUS
<1>3. \A i, j \in DOMAIN g : i < j => g[i] < g[j]
  <2> SUFFICES ASSUME NEW i \in 1..(n + 1), NEW j \in 1..(n + 1), i < j PROVE g[i] < g[j]
    BY <1>2
  <2>1. i \in 1..n
    OBVIOUS
  <2>2. CASE j = n + 1
    BY <1>1, <1>2, <2>1, <2>2
  <2>3. CASE j # n + 1
    <3>1. j \in 1..n
      BY <2>3
    <3> QED
      BY <1>1, <1>2, <2>1, <3>1 DEF Handler!Picks
  <2> QED
    BY <2>2, <2>3
<1>4. \A x \in S \cup {k} : \E i \in 1..(n + 1) : g[i] = x
  <2> SUFFICES ASSUME NEW x \in S \cup {k} PROVE \E i \in 1..(n + 1) : g[i] = x
    OBVIOUS
  <2>1. CASE x = k
    BY <2>1, <1>2
  <2>2. CASE x \in S
    <3>1. PICK i \in 1..n : f[i] = x
      BY <2>2, <1>2 DEF Handler!Picks
    <3> QED
      BY <3>1, <1>1
  <2> QED
    BY <2>1, <2>2
<1>5. \A i \in 1..(n + 1) : g[i] \in S \cup {k}
  <2> SUFFICES ASSUME NEW i \in 1..(n + 1) PROVE g[i] \in S \cup {k}
    OBVIOUS
  <2>1. i = n + 1 \/ i \in 1..n
    OBVIOUS
  <2> HIDE DEF g
  <2> QED
    BY <1>1, <1>2, <2>1
<1>6. g \in [1..(n + 1) -> Nat]
  OBVIOUS
<1> HIDE DEF g
<1>7. {g[i] : i \in DOMAIN g} = S \cup {k}
  <2>1. {g[i] : i \in 1..(n + 1)} \subseteq S \cup {k}
    BY <1>5
  <2>2. S \cup {k} \subseteq {g[i] : i \in 1..(n + 1)}
    BY <1>4
  <2> QED
    BY <1>2, <2>1, <2>2
<1>8. Handler!Picks(g, S \cup {k})
  BY <1>3, <1>7 DEF Handler!Picks
<1> QED
  BY <1>6, <1>8 DEF g

\* What getPermissions() says of an entry that setPermissions() has made covers what
\* was asked for: of each right a bit stays, in the mask and in what the generic bits
\* are mapped to.
LEMMA RightKept ==
  ASSUME NEW type \in Handler!Types, NEW rights \in SUBSET Handler!FullControl,
         NEW right \in rights \cap Handler!Named,
         NEW mask \in {Handler!accessRightToAccessMask(rights, type),
                       Handler!MapGenericMask(Handler!accessRightToAccessMask(rights, type), type)}
  PROVE  right \in Handler!accessMaskToAccessRight(mask, type)
<1> DEFINE asked == Handler!accessRightToAccessMask(rights, type)
<1>1. /\ right = "Read" => 31 \in asked
      /\ right = "Write" => 30 \in asked
      /\ right = "Execute" => 29 \in asked
      /\ right = "Delete" => 16 \in asked
      /\ right = "ReadPermissions" => 17 \in asked
      /\ right = "WritePermissions" => 18 \in asked
      /\ right = "ChangeOwner" => 19 \in asked
  BY DEF Handler!accessRightToAccessMask, Handler!GENERIC_READ, Handler!GENERIC_WRITE,
     Handler!GENERIC_EXECUTE, Handler!DELETE, Handler!READ_CONTROL, Handler!WRITE_DAC, Handler!WRITE_OWNER
<1> DEFINE mapped == Handler!MapGenericMask(asked, type)
<1>2. /\ 31 \in asked => 0 \in mapped
      /\ 30 \in asked => 1 \in mapped
      /\ 29 \in asked => mapped \cap {5, 17} # {}
      /\ \A bit \in asked : bit \in 16..19 => bit \in mapped
  <2> HIDE DEF asked
  <2>1. \A bit \in asked : bit \in 16..19 => bit \in mapped
    BY DEF Handler!MapGenericMask
  <2> DEFINE m == Handler!genericMapping[type]
  <2>2. 0 \in m.r /\ 1 \in m.w /\ m.x \cap {5, 17} # {}
    BY DEF Handler!Types, Handler!genericMapping, Handler!FILE_GENERIC_READ, Handler!FILE_GENERIC_WRITE,
       Handler!FILE_GENERIC_EXECUTE, Handler!KEY_READ, Handler!KEY_WRITE
  <2> HIDE DEF m
  <2>3. /\ 31 \in asked => m.r \subseteq mapped
        /\ 30 \in asked => m.w \subseteq mapped
        /\ 29 \in asked => m.x \subseteq mapped
    BY DEF Handler!MapGenericMask, Handler!GENERIC_READ, Handler!GENERIC_WRITE, Handler!GENERIC_EXECUTE, m
  <2> QED
    BY <2>1, <2>2, <2>3
<1>3. /\ right = "Read" => mask \cap {0, 31} # {}
      /\ right = "Write" => mask \cap {1, 30} # {}
      /\ right = "Execute" => mask \cap {5, 17, 29} # {}
      /\ right = "Delete" => 16 \in mask
      /\ right = "ReadPermissions" => 17 \in mask
      /\ right = "WritePermissions" => 18 \in mask
      /\ right = "ChangeOwner" => 19 \in mask
  BY <1>1, <1>2
<1> HIDE DEF asked, mapped
<1>4. right \in Handler!FullControl /\ right \in {"Read", "Write", "Execute", "Delete", "ReadPermissions",
      "WritePermissions", "ChangeOwner"}
  BY DEF Handler!Named, Handler!FullControl
<1> QED
  BY <1>3, <1>4 DEF Handler!accessMaskToAccessRight, Handler!GENERIC_READ, Handler!GENERIC_WRITE,
     Handler!GENERIC_EXECUTE, Handler!DELETE, Handler!READ_CONTROL, Handler!WRITE_DAC, Handler!WRITE_OWNER,
     Handler!FILE_GENERIC_READ, Handler!FILE_GENERIC_WRITE, Handler!FILE_GENERIC_EXECUTE
LEMMA AceIsEntry ==
  ASSUME NEW p \in Handler!AnyPermission, ask.type \in Handler!Types,
         "PROTECTED" \notin Handler!Ace(p).flags
  PROVE  Handler!Ace(p) \in Handler!AnyEntry
<1>1. Handler!inheritanceModeToFlags(p.inheritance, ask.type) \subseteq {"CI", "OI", "IO"}
  <2> DEFINE flags == Handler!inheritanceModeToFlags(p.inheritance, ask.type)
  <2>1. flags \in {{}, {"PROTECTED"}, {"CI"}, {"CI", "IO"}, {"CI", "OI", "IO"}, {"CI", "OI"}}
    BY DEF Handler!inheritanceModeToFlags, Handler!AnyPermission, Handler!Modes
  <2>3. "PROTECTED" \notin flags
    BY DEF Handler!Ace
  <2> HIDE DEF flags
  <2>2. flags \subseteq {"CI", "OI", "IO"}
    BY <2>1, <2>3
  <2> QED
    BY <2>2 DEF flags
<1>2. Handler!accessRightToAccessMask(p.rights, ask.type) \subseteq 0..31
  BY DEF Handler!accessRightToAccessMask, Handler!GENERIC_READ, Handler!GENERIC_WRITE,
     Handler!GENERIC_EXECUTE, Handler!GENERIC_ALL, Handler!DELETE, Handler!READ_CONTROL, Handler!WRITE_DAC,
     Handler!WRITE_OWNER, Handler!KEY_READ, Handler!KEY_WRITE, Handler!KEY_ALL_ACCESS, Handler!STANDARD,
     Handler!SERVICE_ALL_ACCESS
<1> QED
  BY <1>1, <1>2 DEF Handler!Ace, Handler!AnyEntry, Handler!AnyPermission

LEMMA KeptIsEntry ==
  ASSUME NEW ace \in Handler!AnyEntry, ask.type \in Handler!Types
  PROVE  Handler!Kept(ace) \in Handler!AnyEntry
<1>1. Handler!MapGenericMask(ace.mask, ask.type) \subseteq 0..31
  BY DEF Handler!MapGenericMask, Handler!genericMapping, Handler!Types, Handler!AnyEntry,
     Handler!FILE_GENERIC_READ, Handler!FILE_GENERIC_WRITE, Handler!FILE_GENERIC_EXECUTE,
     Handler!KEY_READ, Handler!KEY_WRITE, Handler!KEY_ALL_ACCESS, Handler!STANDARD,
     Handler!SERVICE_ALL_ACCESS
<1> QED
  BY <1>1 DEF Handler!Kept, Handler!AnyEntry

LEMMA ToldIsAsked ==
  ASSUME NEW ace \in Handler!AnyEntry, NEW type
  PROVE  Handler!Told(ace, type) \in AskedSet
<1>1. Handler!accessMaskToAccessRight(ace.mask, type) \subseteq Handler!FullControl
  BY DEF Handler!accessMaskToAccessRight, Handler!FullControl, Handler!Named
<1>2. Handler!flagsToInheritanceMode(ace.flags, type) \in Handler!Modes
  BY DEF Handler!flagsToInheritanceMode, Handler!Modes
<1> QED
  BY <1>1, <1>2 DEF Handler!Told, AskedSet, Handler!AnyEntry

LEMMA AceCovers ==
  ASSUME NEW p \in Handler!AnyPermission, ask.type \in Handler!Types, p.action # "Revoke",
         "PROTECTED" \notin Handler!Ace(p).flags
  PROVE  Handler!Covers(Handler!Kept(Handler!Ace(p)), p)
<1> DEFINE flags == Handler!inheritanceModeToFlags(p.inheritance, ask.type)
           kept == Handler!Kept(Handler!Ace(p))
<1>1. /\ kept.sid = p.trustee /\ kept.flags = flags
      /\ kept.type = IF p.action = "Grant" THEN "allow" ELSE "deny"
      /\ kept.mask \in {Handler!accessRightToAccessMask(p.rights, ask.type),
                        Handler!MapGenericMask(Handler!accessRightToAccessMask(p.rights, ask.type), ask.type)}
  BY DEF Handler!Ace, Handler!Kept
<1>2. \A right \in p.rights \cap Handler!Named : right \in Handler!accessMaskToAccessRight(kept.mask, ask.type)
  BY <1>1, RightKept DEF Handler!AnyPermission
<1>3. ask.type = "File" => Handler!flagsToInheritanceMode(flags, ask.type) = p.inheritance
  <2> SUFFICES ASSUME ask.type = "File" PROVE Handler!flagsToInheritanceMode(flags, "File") = p.inheritance
    OBVIOUS
  <2>1. /\ p.inheritance \in {"None", "ContainerOnly", "Descendents", "Full"}
        /\ flags = CASE p.inheritance = "None" -> {}
                     [] p.inheritance = "ContainerOnly" -> {"CI", "IO"}
                     [] p.inheritance = "Descendents" -> {"CI", "OI", "IO"}
                     [] p.inheritance = "Full" -> {"CI", "OI"}
    BY DEF Handler!Ace, Handler!AnyPermission, Handler!Modes, Handler!inheritanceModeToFlags
  <2> HIDE DEF flags
  <2> QED
    BY <2>1 DEF Handler!flagsToInheritanceMode
<1>4. p.action = "Grant" \/ p.action = "Deny"
  BY DEF Handler!AnyPermission
<1> HIDE DEF flags, kept
<1>5. Handler!Told(kept, ask.type) =
        [trustee |-> kept.sid, rights |-> Handler!accessMaskToAccessRight(kept.mask, ask.type),
         action |-> IF kept.type = "allow" THEN "Grant" ELSE "Deny",
         inheritance |-> Handler!flagsToInheritanceMode(kept.flags, ask.type)]
  BY DEF Handler!Told
<1>6. Handler!Covers(kept, p)
  BY <1>1, <1>2, <1>3, <1>4, <1>5 DEF Handler!Covers
<1> QED
  BY <1>6 DEF kept

\* The rights that checkAccess() looks at were asked for, whatever else was.
LEMMA MaskAsked ==
  ASSUME NEW type \in {"File", "Registry"}, NEW rights \in SUBSET Handler!FullControl
  PROVE  Handler!MapGenericMask(
           Handler!accessRightToAccessMask(rights \cap {"Read", "Write", "Execute"}, type), type)
             \subseteq Handler!accessMask(rights, type)
<1> DEFINE asked == Handler!accessRightToAccessMask(rights \cap {"Read", "Write", "Execute"}, type)
           all == Handler!accessRightToAccessMask(rights, type)
           desired == Handler!MapGenericMask(all, type)
           m == Handler!genericMapping[type]
<1>1. "the other bits" \notin {"Read", "Write", "Execute"} /\ "the other bits" \in Handler!FullControl
  BY DEF Handler!FullControl
<1>2. ~(Handler!FullControl \subseteq rights \cap {"Read", "Write", "Execute"})
  BY <1>1
<1>3. /\ 28 \notin asked
      /\ 31 \in asked <=> "Read" \in rights
      /\ 30 \in asked <=> "Write" \in rights
      /\ 29 \in asked <=> "Execute" \in rights
      /\ "Read" \in rights => 31 \in all
      /\ "Write" \in rights => 30 \in all
      /\ "Execute" \in rights => 29 \in all
  BY <1>2 DEF Handler!accessRightToAccessMask, Handler!GENERIC_READ, Handler!GENERIC_WRITE,
     Handler!GENERIC_EXECUTE, Handler!GENERIC_ALL, Handler!DELETE, Handler!READ_CONTROL, Handler!WRITE_DAC,
     Handler!WRITE_OWNER, Handler!KEY_READ, Handler!KEY_WRITE
<1>4. /\ type = "File" => asked \subseteq 28..31
      /\ type = "Registry" => \A bit \in asked :
           \/ bit \in 28..31
           \/ "Read" \in rights /\ bit \in Handler!KEY_READ
           \/ "Write" \in rights /\ bit \in Handler!KEY_WRITE
  BY <1>2 DEF Handler!accessRightToAccessMask, Handler!GENERIC_READ, Handler!GENERIC_WRITE,
     Handler!GENERIC_EXECUTE, Handler!GENERIC_ALL, Handler!DELETE, Handler!READ_CONTROL, Handler!WRITE_DAC,
     Handler!WRITE_OWNER
<1> HIDE DEF asked, all
<1>5. \A bit \in Handler!MapGenericMask(asked, type) :
        \/ bit \in asked \ 28..31
        \/ "Read" \in rights /\ bit \in m.r
        \/ "Write" \in rights /\ bit \in m.w
        \/ "Execute" \in rights /\ bit \in m.x
  BY <1>3 DEF Handler!MapGenericMask, Handler!GENERIC_READ, Handler!GENERIC_WRITE,
     Handler!GENERIC_EXECUTE, Handler!GENERIC_ALL
<1>6. /\ "Read" \in rights => m.r \subseteq desired
      /\ "Write" \in rights => m.w \subseteq desired
      /\ "Execute" \in rights => m.x \subseteq desired
  BY <1>3 DEF Handler!MapGenericMask, Handler!GENERIC_READ, Handler!GENERIC_WRITE, Handler!GENERIC_EXECUTE
<1> HIDE DEF desired, m
<1>7. CASE type = "File"
  <2>1. /\ m.r = Handler!FILE_GENERIC_READ /\ m.w = Handler!FILE_GENERIC_WRITE
        /\ m.x = Handler!FILE_GENERIC_EXECUTE
    BY <1>7 DEF m, Handler!genericMapping
  <2>2. 0 \in m.r /\ 1 \in m.w /\ 5 \in m.x
    BY <2>1 DEF Handler!FILE_GENERIC_READ, Handler!FILE_GENERIC_WRITE, Handler!FILE_GENERIC_EXECUTE
  <2> DEFINE If(bits, for) == IF desired \cap bits # {} THEN for ELSE {}
             open == If({0}, Handler!GENERIC_READ) \cup If({1}, Handler!GENERIC_WRITE)
                       \cup If({5}, Handler!GENERIC_EXECUTE)
  <2>3. Handler!accessMask(rights, type) = Handler!MapGenericMask(open, type)
    BY <1>7 DEF Handler!accessMask, desired, all
  <2>4. /\ "Read" \in rights => 31 \in open
        /\ "Write" \in rights => 30 \in open
        /\ "Execute" \in rights => 29 \in open
    BY <1>6, <2>2 DEF Handler!GENERIC_READ, Handler!GENERIC_WRITE, Handler!GENERIC_EXECUTE
  <2> HIDE DEF open
  <2>5. /\ "Read" \in rights => m.r \subseteq Handler!MapGenericMask(open, type)
        /\ "Write" \in rights => m.w \subseteq Handler!MapGenericMask(open, type)
        /\ "Execute" \in rights => m.x \subseteq Handler!MapGenericMask(open, type)
    BY <2>4 DEF Handler!MapGenericMask, Handler!GENERIC_READ, Handler!GENERIC_WRITE,
       Handler!GENERIC_EXECUTE, m
  <2> QED
    BY <1>4, <1>5, <1>7, <2>3, <2>5 DEF asked
<1>8. CASE type = "Registry"
  <2>1. m.r = Handler!KEY_READ /\ m.w = Handler!KEY_WRITE /\ m.x = Handler!KEY_READ
    BY <1>8 DEF m, Handler!genericMapping
  <2>2. 0 \in Handler!KEY_READ /\ 1 \in Handler!KEY_WRITE
    BY DEF Handler!KEY_READ, Handler!KEY_WRITE
  <2> DEFINE open == (IF desired \cap Handler!KEY_READ # {} THEN Handler!KEY_READ ELSE {})
                       \cup (IF desired \cap Handler!KEY_WRITE # {} THEN Handler!KEY_WRITE ELSE {})
  <2>3. Handler!accessMask(rights, type) = open
    BY <1>8 DEF Handler!accessMask, desired, all
  <2>4. /\ "Read" \in rights \/ "Execute" \in rights => Handler!KEY_READ \subseteq open
        /\ "Write" \in rights => Handler!KEY_WRITE \subseteq open
    BY <1>6, <2>1, <2>2
  <2> HIDE DEF open
  <2> QED
    BY <1>4, <1>5, <1>8, <2>1, <2>3, <2>4 DEF asked
<1> QED
  BY <1>7, <1>8

\* A call that is over has nothing more to keep.
LEMMA SoFarEnd ==
  ASSUME RightsSoFar, NEW said, NEW held, ask' = Handler!Over(said, held), meddling' = meddling,
         acl' \in Seq(Handler!AnyEntry), owner' \in Sids, token' \in Handler!Tokens
  PROVE  /\ RightsSoFar' /\ ask'.at = "idle" /\ ask'.said = said /\ ask'.op = ask.op
         /\ ask'.out = ask.out
<1>1. /\ DOMAIN ask' = AskFields
      /\ ask'.op = ask.op /\ ask'.type = ask.type /\ ask'.rights = ask.rights /\ ask'.list = ask.list
      /\ ask'.replace = ask.replace /\ ask'.out = ask.out /\ ask'.said = said
      /\ ask'.at = "idle" /\ ask'.copy = <<>> /\ ask'.new = <<>> /\ ask'.k = 1
  BY DEF Handler!Over, Handler!NoAsk, AskFields
<1>2. RightsTyped'
  BY <1>1 DEF RightsSoFar, RightsTyped
<1>3. Places' /\ Untouched' /\ Telling' /\ Filling' /\ Trying'
  BY <1>1 DEF Places, Untouched, Telling, Filling, Trying
<1> QED
  BY <1>1, <1>2, <1>3 DEF RightsSoFar

\* A call that says neither "ok" nor "true" has changed nothing.
LEMMA RightsRefused ==
  ASSUME RightsSoFar, ask.at \notin {"idle", "write"}, NEW freed, NEW said, said \notin {"ok", "true"},
         Handler!Return(said, freed)
  PROVE  RightsKept
<1>1. ask' = Handler!Over(said, ask.held \ freed) /\ UNCHANGED <<acl, owner, token, prior, meddling>>
  BY DEF Handler!Return, Handler!Goto
<1>2. RightsSoFar' /\ ask'.at = "idle" /\ ask'.said = said
  BY <1>1, SoFarEnd DEF RightsSoFar, RightsTyped
<1>3. meddling = 0 => acl' = prior.acl
  BY <1>1 DEF RightsSoFar, Untouched
<1>4. meddling = 0 => token' = prior.token \/ ask.at \in {"disable", "disabling"}
  BY <1>1 DEF RightsSoFar, Untouched
<1>5. Handler!Ended("setPermissions") => Handler!ListWritten
  BY <1>2, <1>3 DEF Handler!Ended, Handler!ListWritten, Handler!Old
<1>6. Handler!Ended("takeOwnership") => Handler!PrivilegeGivenBack
  BY <1>2, <1>4 DEF Handler!Ended, Handler!PrivilegeGivenBack, Handler!At
<1>7. Handler!ListTold /\ Handler!AccessWasThere
  BY <1>2 DEF Handler!ListTold, Handler!AccessWasThere
<1> QED
  BY <1>2, <1>5, <1>6, <1>7 DEF RightsKept, Handler!RightsStep

LEMMA RightsThrown ==
  ASSUME RightsSoFar, ask.at \notin {"idle", "write"}, NEW freed,
         NEW code, code \notin {"ok", "true"}, Handler!Throw(code, freed) \/ Handler!Fails(freed)
  PROVE  RightsKept
<1>1. ASSUME NEW c, c \notin {"ok", "true"}, Handler!Throw(c, freed) PROVE RightsKept
  BY <1>1, RightsRefused DEF Handler!Throw
<1> QED
  BY <1>1 DEF Handler!Fails

\* The other calls may say what they like.
LEMMA RightsAnswered ==
  ASSUME RightsSoFar, NEW freed, NEW said, Handler!Return(said, freed),
         ask.op \notin {"setPermissions", "getPermissions", "checkAccess", "takeOwnership"}
  PROVE  RightsKept
<1>1. ask' = Handler!Over(said, ask.held \ freed) /\ UNCHANGED <<acl, owner, token, prior, meddling>>
  BY DEF Handler!Return, Handler!Goto
<1>2. RightsSoFar'
  BY <1>1, SoFarEnd DEF RightsSoFar, RightsTyped
<1> QED
  BY <1>2 DEF RightsKept, Handler!RightsStep, Handler!Ended

\* A call that goes on has not ended.
LEMMA RightsGoesOn ==
  ASSUME RightsSoFar', ask'.at # "idle" \/ ask.at = "idle"
  PROVE  RightsKept
BY DEF RightsKept, Handler!RightsStep, Handler!Ended, Handler!At

\* It keeps what it was asked.
Asked == <<ask.op, ask.type, ask.rights, ask.list, ask.replace>>

LEMMA RightsWithin ==
  ASSUME RightsSoFar, DOMAIN ask' = AskFields, Asked' = Asked,
         ask.at \notin {"idle", "write", "disable", "disabling"},
         ask'.at \notin {"idle", "disable", "disabling"},
         UNCHANGED <<acl, owner, token, prior, meddling>>,
         ask'.copy \in Seq(Handler!AnyEntry), ask'.new \in Seq(Handler!AnyEntry),
         ask'.out \in Seq(AskedSet), ask'.k \in Nat \ {0},
         Places', Telling', Filling', Trying'
  PROVE  RightsKept
<1>1. RightsTyped'
  BY DEF RightsSoFar, RightsTyped, Asked
<1>2. Untouched'
  BY DEF RightsSoFar, Untouched
<1> QED
  BY <1>1, <1>2, RightsGoesOn DEF RightsSoFar

Elsewhere == {"user", "enable", "enabling", "write", "manager", "elevation", "member", "runas", "await", "check"}

\* Where nothing has been collected nothing more is to be kept.
LEMMA RightsElsewhere ==
  ASSUME RightsSoFar, DOMAIN ask' = AskFields, Asked' = Asked,
         ask.at \notin {"idle", "write", "disable", "disabling"}, ask'.at \in Elsewhere,
         UNCHANGED <<acl, owner, token, prior, meddling>>, Places',
         ask'.copy = ask.copy, ask'.new = ask.new, ask'.out = ask.out, ask'.k = ask.k
  PROVE  RightsKept
<1>1. Telling' /\ Filling' /\ Trying'
  BY DEF Telling, Filling, Trying, Elsewhere
<1> QED
  BY <1>1, RightsWithin DEF RightsSoFar, RightsTyped, Elsewhere

LEMMA PicksNone ==
  ASSUME NEW s, s = <<>>
  PROVE  DOMAIN s = {} /\ \E f \in [DOMAIN s -> Nat] : Handler!Picks(f, {}) /\ DOMAIN f = {}
<1> DEFINE f == [i \in {} |-> 0]
<1>1. DOMAIN s = {}
  OBVIOUS
<1>2. f \in [DOMAIN s -> Nat] /\ DOMAIN f = {}
  BY <1>1
<1>3. Handler!Picks(f, {})
  BY <1>2 DEF Handler!Picks
<1> QED
  BY <1>1, <1>2, <1>3

LEMMA RightsGetInfo == ASSUME RightsSoFar, Handler!getSecurityInfo PROVE RightsKept
<1>1. ask.at = "read"
  BY DEF Handler!getSecurityInfo, Handler!At
<1>2. CASE Handler!Fails({})
  BY <1>1, <1>2, RightsThrown
<1>3. CASE Handler!Goto([ask EXCEPT !.copy = acl, !.held = @ \cup {"descriptor"},
                            !.at = IF ask.op = "getPermissions" THEN "told" ELSE "size"])
  <2>1. /\ DOMAIN ask' = AskFields /\ Asked' = Asked
        /\ ask'.copy = acl /\ ask'.new = ask.new /\ ask'.out = ask.out /\ ask'.k = ask.k
        /\ ask'.at = IF ask.op = "getPermissions" THEN "told" ELSE "size"
        /\ UNCHANGED <<acl, owner, token, prior, meddling>>
    BY <1>3 DEF Handler!Goto, RightsSoFar, RightsTyped, AskFields, Asked
  <2>2. ask.out = <<>> /\ ask.k = 1 /\ (meddling = 0 => acl = prior.acl) /\ ask.replace = FALSE
    BY <1>1 DEF RightsSoFar, Telling, Filling, Untouched
  <2>3. /\ ask'.copy \in Seq(Handler!AnyEntry) /\ ask'.new \in Seq(Handler!AnyEntry)
        /\ ask'.out \in Seq(AskedSet) /\ ask'.k \in Nat \ {0}
    BY <2>1 DEF RightsSoFar, RightsTyped
  <2>4. Places' /\ Trying'
    BY <1>1, <2>1 DEF RightsSoFar, Places, Asked, Trying
  <2>5. Telling'
    <3>1. ask'.k <= Len(ask'.copy) + 1
      BY <2>1, <2>2, <2>3
    <3>2. {i \in 1..(ask'.k - 1) : ask'.copy[i].type # "audit"} = {}
      BY <2>1, <2>2
    <3>3. PICK f \in [DOMAIN ask'.out -> Nat] : Handler!Picks(f, {}) /\ DOMAIN f = {}
      BY <2>1, <2>2, PicksNone
    <3>4. ask'.at = "told" => \E g \in [DOMAIN ask'.out -> Nat] :
            /\ Handler!Picks(g, {i \in 1..(ask'.k - 1) : ask'.copy[i].type # "audit"})
            /\ \A i \in DOMAIN g : ask'.out[i] = Handler!Told(ask'.copy[g[i]], ask'.type)
      BY <3>2, <3>3
    <3> QED
      BY <2>1, <2>2, <3>1, <3>4 DEF Telling
  <2>6. Filling'
    BY <2>1, <2>2 DEF Filling, Asked
  <2> QED
    BY <1>1, <2>1, <2>3, <2>4, <2>5, <2>6, RightsWithin
<1> QED
  BY <1>2, <1>3 DEF Handler!getSecurityInfo

\* One more entry is told, or it is skipped.
LEMMA RightsTellNext ==
  ASSUME RightsSoFar, ask.at = "told", ask.k <= Len(ask.copy), DOMAIN ask' = AskFields, Asked' = Asked,
         ask'.at = "told", ask'.copy = ask.copy, ask'.new = ask.new, ask'.k = ask.k + 1,
         UNCHANGED <<acl, owner, token, prior, meddling>>,
         \/ ask.copy[ask.k].type = "audit" /\ ask'.out = ask.out
         \/ /\ ask.copy[ask.k].type # "audit"
            /\ ask'.out = Append(ask.out, Handler!Told(ask.copy[ask.k], ask.type))
  PROVE  RightsKept
<1> DEFINE S == {i \in 1..(ask.k - 1) : ask.copy[i].type # "audit"}
           T == {i \in 1..ask.k : ask.copy[i].type # "audit"}
<1>1. /\ ask.k \in Nat \ {0} /\ ask.copy \in Seq(Handler!AnyEntry) /\ ask.out \in Seq(AskedSet)
      /\ ask.new \in Seq(Handler!AnyEntry) /\ ask'.type = ask.type /\ ask'.k \in Nat \ {0}
      /\ ask'.k - 1 = ask.k
  BY SMTT(60) DEF RightsSoFar, RightsTyped, Asked
<1>2. PICK f \in [DOMAIN ask.out -> Nat] :
        Handler!Picks(f, S) /\ \A i \in DOMAIN f : ask.out[i] = Handler!Told(ask.copy[f[i]], ask.type)
  BY DEF RightsSoFar, Telling
<1>3. ask.copy[ask.k] \in Handler!AnyEntry
  BY <1>1
<1> DEFINE told == Handler!Told(ask.copy[ask.k], ask.type)
<1>4. /\ ask'.out \in Seq(AskedSet)
      /\ ask.copy[ask.k].type # "audit" =>
           /\ Len(ask'.out) = Len(ask.out) + 1
           /\ \A i \in 1..Len(ask.out) : ask'.out[i] = ask.out[i]
           /\ ask'.out[Len(ask.out) + 1] = told
  <2>1. told \in AskedSet
    BY <1>3, ToldIsAsked
  <2>2. \/ ask.copy[ask.k].type = "audit" /\ ask'.out = ask.out
        \/ ask.copy[ask.k].type # "audit" /\ ask'.out = Append(ask.out, told)
    OBVIOUS
  <2> HIDE DEF told
  <2>3. CASE ask.copy[ask.k].type = "audit"
    BY <1>1, <2>2, <2>3
  <2>4. CASE ask'.out = Append(ask.out, told)
    BY <1>1, <2>1, <2>4, AppendProperties
  <2> QED
    BY <2>2, <2>3, <2>4
<1> HIDE DEF told
<1>5. \E g \in [DOMAIN ask'.out -> Nat] :
        Handler!Picks(g, T) /\ \A i \in DOMAIN g : ask'.out[i] = Handler!Told(ask.copy[g[i]], ask.type)
  <2>1. CASE ask.copy[ask.k].type = "audit"
    <3>1. T = S
      BY <1>1, <2>1
    <3> QED
      BY <1>2, <2>1, <3>1
  <2>2. CASE ask.copy[ask.k].type # "audit"
    <3> DEFINE n == Len(ask.out)
               g == [i \in 1..(n + 1) |-> IF i = n + 1 THEN ask.k ELSE f[i]]
    <3>1. n \in Nat /\ DOMAIN ask.out = 1..n /\ DOMAIN ask'.out = 1..(n + 1)
      BY <1>1, <1>4, <2>2
    <3>2. /\ \A i \in 1..n : ask'.out[i] = ask.out[i]
          /\ ask'.out[n + 1] = Handler!Told(ask.copy[ask.k], ask.type)
      BY <1>4, <2>2 DEF told
    <3>3. T = S \cup {ask.k} /\ S \subseteq 1..(ask.k - 1)
      BY <1>1, <2>2
    <3> HIDE DEF n, S, T
    <3>4. Handler!Picks(g, T) /\ g \in [1..(n + 1) -> Nat]
      BY <1>1, <1>2, <3>1, <3>3, PicksNext
    <3>5. \A i \in 1..(n + 1) : ask'.out[i] = Handler!Told(ask.copy[g[i]], ask.type)
      <4> SUFFICES ASSUME NEW i \in 1..(n + 1)
                   PROVE  ask'.out[i] = Handler!Told(ask.copy[g[i]], ask.type)
        OBVIOUS
      <4>1. CASE i = n + 1
        BY <3>2, <4>1
      <4>2. CASE i # n + 1
        <5>1. i \in 1..n /\ g[i] = f[i]
          BY <3>1, <4>2
        <5> QED
          BY <1>2, <3>1, <3>2, <5>1
      <4> QED
        BY <4>1, <4>2
    <3> HIDE DEF g
    <3>6. DOMAIN g = 1..(n + 1)
      BY <3>4
    <3> QED
      BY <3>1, <3>4, <3>5, <3>6
  <2> QED
    BY <2>1, <2>2
<1>6. Telling'
  <2>1. \E g \in [DOMAIN ask'.out -> Nat] :
          /\ Handler!Picks(g, {i \in 1..(ask'.k - 1) : ask'.copy[i].type # "audit"})
          /\ \A i \in DOMAIN g : ask'.out[i] = Handler!Told(ask'.copy[g[i]], ask'.type)
    BY <1>1, <1>5
  <2>2. ask'.k <= Len(ask'.copy) + 1 /\ (meddling' = 0 => ask'.copy = prior'.acl)
    BY <1>1 DEF RightsSoFar, Telling
  <2> QED
    BY <2>1, <2>2 DEF Telling
<1>7. Filling' /\ Trying' /\ Places'
  BY DEF Filling, Trying, Places, RightsSoFar, Asked
<1> QED
  BY <1>1, <1>4, <1>6, <1>7, RightsWithin

LEMMA RightsTell == ASSUME RightsSoFar, Handler!getPermissions PROVE RightsKept
<1>1. ask.at = "told"
  BY DEF Handler!getPermissions, Handler!At
<1>2. CASE Handler!Fails({})
  BY <1>1, <1>2, RightsThrown
<1>3. CASE ask.k > Len(ask.copy) /\ Handler!Return("ok", {})
  <2>1. ask' = Handler!Over("ok", ask.held \ {}) /\ UNCHANGED <<acl, owner, token, prior, meddling>>
    BY <1>3 DEF Handler!Return, Handler!Goto
  <2>2. RightsSoFar' /\ ask'.out = ask.out
    BY <2>1, SoFarEnd DEF RightsSoFar, RightsTyped
  <2>3. ASSUME meddling = 0 PROVE Handler!ListTold
    <3>1. /\ ask.copy = prior.acl /\ ask.copy \in Seq(Handler!AnyEntry) /\ ask.k - 1 = Len(ask.copy)
          /\ ask.k \in Nat
      BY <1>1, <1>3, <2>3 DEF RightsSoFar, Telling, RightsTyped
    <3>2. {i \in 1..(ask.k - 1) : ask.copy[i].type # "audit"} = Handler!Readable
      BY <3>1 DEF Handler!Readable, Handler!Old
    <3>3. PICK f \in [DOMAIN ask.out -> Nat] :
            /\ Handler!Picks(f, Handler!Readable)
            /\ \A i \in DOMAIN f : ask.out[i] = Handler!Told(ask.copy[f[i]], ask.type)
      BY <1>1, <3>2 DEF RightsSoFar, Telling
    <3>4. f \in [DOMAIN ask.out -> Handler!Readable]
      BY <3>3 DEF Handler!Picks
    <3> QED
      BY <2>2, <3>1, <3>3, <3>4 DEF Handler!ListTold, Handler!Old
  <2>4. ask.op \notin {"setPermissions", "checkAccess", "takeOwnership"}
    BY <1>1 DEF RightsSoFar, Places
  <2> QED
    BY <2>2, <2>3, <2>4 DEF RightsKept, Handler!RightsStep, Handler!Ended
<1>4. CASE ask.k <= Len(ask.copy) /\ ask.copy[ask.k].type = "audit" /\ Handler!Goto([ask EXCEPT !.k = @ + 1])
  <2>1. /\ DOMAIN ask' = AskFields /\ Asked' = Asked /\ ask'.at = "told" /\ ask'.copy = ask.copy
        /\ ask'.new = ask.new /\ ask'.k = ask.k + 1 /\ ask'.out = ask.out
        /\ UNCHANGED <<acl, owner, token, prior, meddling>>
    BY <1>1, <1>4 DEF Handler!Goto, RightsSoFar, RightsTyped, AskFields, Asked
  <2> QED
    BY <1>1, <1>4, <2>1, RightsTellNext
<1>5. CASE /\ ask.k <= Len(ask.copy) /\ ask.copy[ask.k].type # "audit"
           /\ Handler!Goto([[ask EXCEPT !.k = @ + 1]
                 EXCEPT !.out = Append(@, Handler!Told(ask.copy[ask.k], ask.type))])
  <2>1. /\ DOMAIN ask' = AskFields /\ Asked' = Asked /\ ask'.at = "told" /\ ask'.copy = ask.copy
        /\ ask'.new = ask.new /\ ask'.k = ask.k + 1
        /\ ask'.out = Append(ask.out, Handler!Told(ask.copy[ask.k], ask.type))
        /\ UNCHANGED <<acl, owner, token, prior, meddling>>
    BY <1>1, <1>5 DEF Handler!Goto, RightsSoFar, RightsTyped, AskFields, Asked
  <2> QED
    BY <1>1, <1>5, <2>1, RightsTellNext
<1> QED
  BY <1>2, <1>3, <1>4, <1>5 DEF Handler!getPermissions

LEMMA RightsAllocate ==
  ASSUME RightsSoFar, Handler!newDescriptor \/ Handler!sizeAndCopy
  PROVE  RightsKept
<1>1. CASE Handler!newDescriptor
  <2>1. ask.at = "descriptor"
    BY <1>1 DEF Handler!newDescriptor, Handler!At
  <2>2. CASE Handler!Throw("OutOfMemory", {})
    BY <2>1, <2>2, RightsThrown
  <2>3. CASE Handler!Goto([ask EXCEPT !.at = "size", !.held = @ \cup {"descriptor"}])
    <3>1. /\ DOMAIN ask' = AskFields /\ Asked' = Asked /\ ask'.at = "size"
          /\ ask'.copy = ask.copy /\ ask'.new = ask.new /\ ask'.out = ask.out /\ ask'.k = ask.k
          /\ UNCHANGED <<acl, owner, token, prior, meddling>>
      BY <2>3 DEF Handler!Goto, RightsSoFar, RightsTyped, AskFields, Asked
    <3>2. Places' /\ Telling' /\ Filling' /\ Trying'
      BY <2>1, <3>1 DEF RightsSoFar, Places, Telling, Filling, Trying, Asked
    <3> QED
      BY <2>1, <3>1, <3>2, RightsWithin DEF RightsSoFar, RightsTyped
  <2> QED
    BY <1>1, <2>2, <2>3 DEF Handler!newDescriptor
<1>2. CASE ask.at = "size" /\ Handler!Goto([ask EXCEPT !.at = "fill", !.held = @ \cup {"dacl"}, !.k = 1])
  <2>1. /\ DOMAIN ask' = AskFields /\ Asked' = Asked /\ ask'.at = "fill"
        /\ ask'.copy = ask.copy /\ ask'.new = ask.new /\ ask'.out = ask.out /\ ask'.k = 1
        /\ UNCHANGED <<acl, owner, token, prior, meddling>>
    BY <1>2 DEF Handler!Goto, RightsSoFar, RightsTyped, AskFields, Asked
  <2>2. Places' /\ Telling' /\ Filling' /\ Trying'
    BY <1>2, <2>1 DEF RightsSoFar, Places, Telling, Filling, Trying, Asked
  <2> QED
    BY <1>2, <2>1, <2>2, RightsWithin DEF RightsSoFar, RightsTyped
<1>3. CASE ask.at = "fill" /\ Handler!Goto([ask EXCEPT !.at = "add", !.new = ask.copy])
  <2>1. /\ DOMAIN ask' = AskFields /\ Asked' = Asked /\ ask'.at = "add"
        /\ ask'.copy = ask.copy /\ ask'.new = ask.copy /\ ask'.out = ask.out /\ ask'.k = ask.k
        /\ UNCHANGED <<acl, owner, token, prior, meddling>>
    BY <1>3 DEF Handler!Goto, RightsSoFar, RightsTyped, AskFields, Asked
  <2>2. Places' /\ Telling' /\ Trying'
    BY <1>3, <2>1 DEF RightsSoFar, Places, Telling, Trying, Asked
  <2>3. ask.replace' => Filling'
    <3> SUFFICES ASSUME ask.replace' PROVE Filling'
      OBVIOUS
    <3>1. ask.replace /\ ask'.new = <<>> /\ ask'.k = 1 /\ ask'.list = ask.list
      BY <1>3, <2>1 DEF RightsSoFar, Filling, Asked
    <3>2. PICK f \in [DOMAIN ask'.new -> Nat] : Handler!Picks(f, {}) /\ DOMAIN f = {}
      BY <3>1, PicksNone
    <3>3. {i \in 1..(ask'.k - 1) : ask'.list[i].action # "Revoke"} = {}
      BY <3>1
    <3>4. ask'.k <= Len(ask'.list) + 1
      BY <3>1 DEF RightsSoFar, RightsTyped
    <3>5. \E g \in [DOMAIN ask'.new -> Nat] :
            /\ Handler!Picks(g, {i \in 1..(ask'.k - 1) : ask'.list[i].action # "Revoke"})
            /\ \A i \in DOMAIN g : /\ ask'.new[i] = Handler!Ace(ask.list[g[i]])'
                                   /\ "PROTECTED" \notin ask'.new[i].flags
      BY <3>2, <3>3
    <3> QED
      BY <2>1, <3>4, <3>5 DEF Filling
  <2>4. ~ask.replace' => Filling'
    BY <2>1 DEF Filling
  <2> QED
    BY <1>3, <2>1, <2>2, <2>3, <2>4, RightsWithin DEF RightsSoFar, RightsTyped
<1>4. CASE ask.at \in {"size", "fill"} /\ \E freed : Handler!Fails(freed)
  BY <1>4, RightsThrown
<1> QED
  BY <1>1, <1>2, <1>3, <1>4 DEF Handler!sizeAndCopy, Handler!At

\* One more entry is added, or it is to be revoked.
LEMMA RightsFillNext ==
  ASSUME RightsSoFar, ask.at = "add", ask.k <= Len(ask.list), DOMAIN ask' = AskFields, Asked' = Asked,
         ask'.at = "add", ask'.copy = ask.copy, ask'.out = ask.out, ask'.k = ask.k + 1,
         UNCHANGED <<acl, owner, token, prior, meddling>>,
         \/ ask.list[ask.k].action = "Revoke" /\ ask'.new = ask.new
         \/ /\ ask.list[ask.k].action # "Revoke"
            /\ "PROTECTED" \notin Handler!Ace(ask.list[ask.k]).flags
            /\ ask'.new = Append(ask.new, Handler!Ace(ask.list[ask.k]))
  PROVE  RightsKept
<1> DEFINE S == {i \in 1..(ask.k - 1) : ask.list[i].action # "Revoke"}
           T == {i \in 1..ask.k : ask.list[i].action # "Revoke"}
           ace == Handler!Ace(ask.list[ask.k])
<1>1. /\ ask.k \in Nat \ {0} /\ ask.copy \in Seq(Handler!AnyEntry) /\ ask.out \in Seq(AskedSet)
      /\ ask.new \in Seq(Handler!AnyEntry) /\ ask.list \in Seq(Handler!AnyPermission)
      /\ ask'.k \in Nat \ {0} /\ ask'.k - 1 = ask.k /\ ask.type \in Handler!Types
      /\ ask'.type = ask.type /\ ask'.list = ask.list /\ ask'.replace = ask.replace
  BY DEF RightsSoFar, RightsTyped, Asked
<1>2. ask.list[ask.k] \in Handler!AnyPermission
  BY <1>1
<1>3. ask.list[ask.k].action # "Revoke" => ace \in Handler!AnyEntry
  BY <1>1, <1>2, AceIsEntry
<1> HIDE DEF ace
<1>4. /\ ask'.new \in Seq(Handler!AnyEntry)
      /\ ask.list[ask.k].action # "Revoke" =>
           /\ Len(ask'.new) = Len(ask.new) + 1
           /\ \A i \in 1..Len(ask.new) : ask'.new[i] = ask.new[i]
           /\ ask'.new[Len(ask.new) + 1] = ace
  <2>1. CASE ask.list[ask.k].action = "Revoke"
    BY <1>1, <2>1
  <2>2. CASE ask.list[ask.k].action # "Revoke"
    <3>1. ask'.new = Append(ask.new, ace) /\ ace \in Handler!AnyEntry
      BY <1>3, <2>2 DEF ace
    <3> QED
      BY <1>1, <3>1, AppendProperties
  <2> QED
    BY <2>1, <2>2
<1>5. ASSUME ask.replace
      PROVE  \E g \in [DOMAIN ask'.new -> Nat] :
               /\ Handler!Picks(g, T)
               /\ \A i \in DOMAIN g : /\ ask'.new[i] = Handler!Ace(ask.list[g[i]])
                                      /\ "PROTECTED" \notin ask'.new[i].flags
  <2>1. PICK f \in [DOMAIN ask.new -> Nat] :
          /\ Handler!Picks(f, S)
          /\ \A i \in DOMAIN f : /\ ask.new[i] = Handler!Ace(ask.list[f[i]])
                                 /\ "PROTECTED" \notin ask.new[i].flags
    BY <1>5 DEF RightsSoFar, Filling
  <2>2. CASE ask.list[ask.k].action = "Revoke"
    <3>1. T = S
      BY <1>1, <2>2
    <3> QED
      BY <2>1, <2>2, <3>1
  <2>3. CASE ask.list[ask.k].action # "Revoke"
    <3> DEFINE n == Len(ask.new)
               g == [i \in 1..(n + 1) |-> IF i = n + 1 THEN ask.k ELSE f[i]]
    <3>1. n \in Nat /\ DOMAIN ask.new = 1..n /\ DOMAIN ask'.new = 1..(n + 1)
      BY <1>1, <1>4, <2>3
    <3>2. T = S \cup {ask.k} /\ S \subseteq 1..(ask.k - 1)
      BY <1>1, <2>3
    <3>3. /\ \A i \in 1..n : ask'.new[i] = ask.new[i]
          /\ ask'.new[n + 1] = Handler!Ace(ask.list[ask.k])
          /\ "PROTECTED" \notin ask'.new[n + 1].flags
      BY <1>4, <2>3 DEF ace
    <3> HIDE DEF n, S, T
    <3>4. Handler!Picks(g, T) /\ g \in [1..(n + 1) -> Nat]
      BY <1>1, <2>1, <3>1, <3>2, PicksNext
    <3>5. \A i \in 1..(n + 1) : /\ ask'.new[i] = Handler!Ace(ask.list[g[i]])
                                 /\ "PROTECTED" \notin ask'.new[i].flags
      <4> SUFFICES ASSUME NEW i \in 1..(n + 1)
                   PROVE  /\ ask'.new[i] = Handler!Ace(ask.list[g[i]])
                          /\ "PROTECTED" \notin ask'.new[i].flags
        OBVIOUS
      <4>1. CASE i = n + 1
        BY <3>3, <4>1
      <4>2. CASE i # n + 1
        <5>1. i \in 1..n /\ g[i] = f[i]
          BY <3>1, <4>2
        <5> QED
          BY <2>1, <3>1, <3>3, <5>1
      <4> QED
        BY <4>1, <4>2
    <3> HIDE DEF g
    <3>6. DOMAIN g = 1..(n + 1)
      BY <3>4
    <3> QED
      BY <3>1, <3>4, <3>5, <3>6
  <2> QED
    BY <2>2, <2>3
<1>6. Filling'
  <2>1. \A p : Handler!Ace(p)' = Handler!Ace(p)
    BY <1>1 DEF Handler!Ace
  <2>2. ask'.replace =>
          \E g \in [DOMAIN ask'.new -> Nat] :
            /\ Handler!Picks(g, {i \in 1..(ask'.k - 1) : ask'.list[i].action # "Revoke"})
            /\ \A i \in DOMAIN g : /\ ask'.new[i] = Handler!Ace(ask.list[g[i]])'
                                   /\ "PROTECTED" \notin ask'.new[i].flags
    <3> SUFFICES ASSUME ask.replace
                 PROVE  \E g \in [DOMAIN ask'.new -> Nat] :
                          /\ Handler!Picks(g, {i \in 1..(ask'.k - 1) : ask'.list[i].action # "Revoke"})
                          /\ \A i \in DOMAIN g : /\ ask'.new[i] = Handler!Ace(ask.list[g[i]])'
                                                 /\ "PROTECTED" \notin ask'.new[i].flags
      BY <1>1
    <3>1. PICK g \in [DOMAIN ask'.new -> Nat] :
            /\ Handler!Picks(g, T)
            /\ \A i \in DOMAIN g : /\ ask'.new[i] = Handler!Ace(ask.list[g[i]])
                                   /\ "PROTECTED" \notin ask'.new[i].flags
      BY <1>5
    <3>2. T = {i \in 1..(ask'.k - 1) : ask'.list[i].action # "Revoke"}
      BY <1>1
    <3> HIDE DEF T
    <3>3. \A i \in DOMAIN g : Handler!Ace(ask.list[g[i]])' = Handler!Ace(ask.list[g[i]])
      BY <1>1 DEF Handler!Ace
    <3> QED
      BY <3>1, <3>2, <3>3
  <2>3. ask'.k <= Len(ask'.list) + 1
    BY <1>1
  <2> QED
    BY <2>2, <2>3 DEF Filling
<1>7. Telling' /\ Trying' /\ Places'
  BY DEF Telling, Trying, Places, RightsSoFar, Asked
<1> QED
  BY <1>1, <1>4, <1>6, <1>7, RightsWithin

LEMMA RightsFill == ASSUME RightsSoFar, Handler!addEntry PROVE RightsKept
<1> DEFINE p == ask.list[ask.k]
           ace == Handler!Ace(p)
<1>1. ask.at = "add" /\ ask.k <= Len(ask.list)
  BY DEF Handler!addEntry, Handler!At
<1>2. CASE Handler!Fails({}) \/ Handler!Fails({"dacl"})
  BY <1>1, <1>2, RightsThrown
<1>3. CASE p.action = "Revoke" /\ Handler!Goto([ask EXCEPT !.k = @ + 1])
  <2>1. /\ DOMAIN ask' = AskFields /\ Asked' = Asked /\ ask'.at = "add" /\ ask'.copy = ask.copy
        /\ ask'.new = ask.new /\ ask'.k = ask.k + 1 /\ ask'.out = ask.out
        /\ UNCHANGED <<acl, owner, token, prior, meddling>>
    BY <1>1, <1>3 DEF Handler!Goto, RightsSoFar, RightsTyped, AskFields, Asked
  <2> QED
    BY <1>1, <1>3, <2>1, RightsFillNext
<1>4. CASE /\ p.action # "Revoke" /\ "PROTECTED" \notin ace.flags
           /\ Handler!Goto([[ask EXCEPT !.k = @ + 1] EXCEPT !.new = Append(@, ace)])
  <2> HIDE DEF ace
  <2>1. /\ DOMAIN ask' = AskFields /\ Asked' = Asked /\ ask'.at = "add" /\ ask'.copy = ask.copy
        /\ ask'.new = Append(ask.new, ace) /\ ask'.k = ask.k + 1 /\ ask'.out = ask.out
        /\ UNCHANGED <<acl, owner, token, prior, meddling>>
    BY <1>1, <1>4 DEF Handler!Goto, RightsSoFar, RightsTyped, AskFields, Asked
  <2> QED
    BY <1>1, <1>4, <2>1, RightsFillNext DEF ace
<1> QED
  BY <1>2, <1>3, <1>4 DEF Handler!addEntry

\* The list is written as a whole, when it is complete.
LEMMA RightsApply == ASSUME RightsSoFar, Handler!setPermissions PROVE RightsKept
<1>1. ask.at \in {"add", "apply"}
  BY DEF Handler!setPermissions, Handler!At
<1>2. CASE Handler!Fails({"dacl"})
  BY <1>1, <1>2, RightsThrown
<1>3. CASE /\ ask.at = "add" /\ ask.k > Len(ask.list) /\ ask.replace
           /\ Handler!Goto([ask EXCEPT !.at = "apply"])
  <2>1. /\ DOMAIN ask' = AskFields /\ Asked' = Asked /\ ask'.at = "apply"
        /\ ask'.copy = ask.copy /\ ask'.new = ask.new /\ ask'.out = ask.out /\ ask'.k = ask.k
        /\ UNCHANGED <<acl, owner, token, prior, meddling>>
    BY <1>3 DEF Handler!Goto, RightsSoFar, RightsTyped, AskFields, Asked
  <2>2. Places' /\ Telling' /\ Trying'
    BY <1>3, <2>1 DEF RightsSoFar, Places, Telling, Trying, Asked
  <2>3. Filling'
    <3>1. \A p : Handler!Ace(p)' = Handler!Ace(p)
      BY <2>1 DEF Handler!Ace, Asked
    <3>2. ask'.list = ask.list /\ ask'.replace = ask.replace
      BY <2>1 DEF Asked
    <3>3. PICK f \in [DOMAIN ask.new -> Nat] :
            /\ Handler!Picks(f, {i \in 1..(ask.k - 1) : ask.list[i].action # "Revoke"})
            /\ \A i \in DOMAIN f : /\ ask.new[i] = Handler!Ace(ask.list[f[i]])
                                   /\ "PROTECTED" \notin ask.new[i].flags
      BY <1>3 DEF RightsSoFar, Filling
    <3>4. \E g \in [DOMAIN ask'.new -> Nat] :
            /\ Handler!Picks(g, {i \in 1..(ask'.k - 1) : ask'.list[i].action # "Revoke"})
            /\ \A i \in DOMAIN g : /\ ask'.new[i] = Handler!Ace(ask.list[g[i]])'
                                   /\ "PROTECTED" \notin ask'.new[i].flags
      BY <2>1, <3>1, <3>2, <3>3
    <3>5. ask'.k <= Len(ask'.list) + 1
      BY <1>3, <2>1, <3>2 DEF RightsSoFar, Filling
    <3> QED
      BY <1>3, <2>1, <3>2, <3>4, <3>5 DEF Filling
  <2> QED
    BY <1>3, <2>1, <2>2, <2>3, RightsWithin DEF RightsSoFar, RightsTyped
<1>4. CASE /\ ask.at = "apply"
           /\ acl' = [i \in DOMAIN ask.new |-> Handler!Kept(ask.new[i])]
           /\ ask' = Handler!Over("ok", ask.held \ {"dacl"})
           /\ UNCHANGED <<owner, token, prior, meddling>>
  <2>1. /\ ask.new \in Seq(Handler!AnyEntry) /\ ask.type \in Handler!Types
        /\ ask.list \in Seq(Handler!AnyPermission) /\ ask.k \in Nat
    BY DEF RightsSoFar, RightsTyped
  <2>2. ask.replace /\ ask.k - 1 = Len(ask.list)
    BY <1>4, <2>1 DEF RightsSoFar, Filling
  <2>3. acl' \in Seq(Handler!AnyEntry) /\ DOMAIN acl' = DOMAIN ask.new
    <3>1. \A i \in 1..Len(ask.new) : Handler!Kept(ask.new[i]) \in Handler!AnyEntry
      BY <2>1, KeptIsEntry
    <3>2. acl' = [i \in 1..Len(ask.new) |-> Handler!Kept(ask.new[i])] /\ Len(ask.new) \in Nat
      BY <1>4, <2>1
    <3> QED
      BY <1>4, <3>1, <3>2
  <2>4. RightsSoFar' /\ ask'.said = "ok"
    BY <1>4, <2>3, SoFarEnd DEF RightsSoFar, RightsTyped
  <2>5. PICK f \in [DOMAIN ask.new -> Nat] :
          /\ Handler!Picks(f, {i \in 1..(ask.k - 1) : ask.list[i].action # "Revoke"})
          /\ \A i \in DOMAIN f : /\ ask.new[i] = Handler!Ace(ask.list[f[i]])
                                 /\ "PROTECTED" \notin ask.new[i].flags
    BY <1>4, <2>2 DEF RightsSoFar, Filling
  <2>6. Handler!Picks(f, Handler!Lasting)
    <3>1. {i \in 1..(ask.k - 1) : ask.list[i].action # "Revoke"} = Handler!Lasting
      BY <2>1, <2>2 DEF Handler!Lasting
    <3> QED
      BY <2>5, <3>1
  <2>7. f \in [DOMAIN acl' -> Handler!Lasting]
    BY <2>3, <2>5, <2>6 DEF Handler!Picks
  <2>8. ASSUME NEW i \in DOMAIN f PROVE Handler!Covers(acl'[i], ask.list[f[i]])
    <3>1. f[i] \in DOMAIN ask.list /\ ask.list[f[i]].action # "Revoke"
      BY <2>7 DEF Handler!Lasting
    <3>2. ask.list[f[i]] \in Handler!AnyPermission
      BY <2>1, <3>1
    <3>3. acl'[i] = Handler!Kept(Handler!Ace(ask.list[f[i]])) /\ "PROTECTED" \notin Handler!Ace(ask.list[f[i]]).flags
      BY <1>4, <2>5
    <3> QED
      BY <2>1, <3>1, <3>2, <3>3, AceCovers
  <2>9. Handler!ListWritten
    BY <2>2, <2>4, <2>6, <2>7, <2>8 DEF Handler!ListWritten
  <2>10. ask.op \notin {"getPermissions", "checkAccess", "takeOwnership"}
    BY <1>4 DEF RightsSoFar, Places
  <2> QED
    BY <2>4, <2>9, <2>10 DEF RightsKept, Handler!RightsStep, Handler!Ended
<1> QED
  BY <1>2, <1>3, <1>4 DEF Handler!setPermissions, Handler!At

LEMMA RightsOwner == ASSUME RightsSoFar, Handler!setOwner PROVE RightsKept
<1>1. ask.at = "owner"
  BY DEF Handler!setOwner, Handler!At
<1>2. CASE Handler!Fails({})
  BY <1>1, <1>2, RightsThrown
<1>3. CASE /\ Handler!trusteeNameToSid(ask.list[1].trustee) /\ owner' = ask.list[1].trustee
           /\ ask' = Handler!Over("ok", {}) /\ UNCHANGED <<acl, token, prior, meddling>>
  <2>1. owner' \in Sids
    BY <1>3 DEF Handler!trusteeNameToSid
  <2>2. RightsSoFar'
    BY <1>3, <2>1, SoFarEnd DEF RightsSoFar, RightsTyped
  <2>3. ask.op \notin {"setPermissions", "getPermissions", "checkAccess", "takeOwnership"}
    BY <1>1 DEF RightsSoFar, Places
  <2> QED
    BY <2>2, <2>3 DEF RightsKept, Handler!RightsStep, Handler!Ended
<1> QED
  BY <1>2, <1>3 DEF Handler!setOwner

\* What is promised is what the object has been opened for.
LEMMA RightsTry == ASSUME RightsSoFar, Handler!checkAccess PROVE RightsKept
<1> DEFINE mask == Handler!accessMask(ask.rights, ask.type)
           may == Handler!Allows(acl, owner, mask)
<1>1. ask.at \in {"check", "manager", "opened"}
  BY DEF Handler!checkAccess, Handler!At
<1>2. CASE \/ \E freed : Handler!Fails(freed) \/ Handler!Return("false", freed)
           \/ \E freed, code : code \in {"ResourceNotFound", "SecurityError"} /\ Handler!Throw(code, freed)
  BY <1>1, <1>2, RightsThrown, RightsRefused
<1>3. CASE /\ ask.at \in {"check", "manager"} /\ may
           /\ Handler!Goto([[ask EXCEPT !.at = "opened", !.mask = mask] EXCEPT !.held = {"object"}])
  <2>1. /\ DOMAIN ask' = AskFields /\ Asked' = Asked /\ ask'.at = "opened"
        /\ ask'.copy = ask.copy /\ ask'.new = ask.new /\ ask'.out = ask.out /\ ask'.k = ask.k
        /\ UNCHANGED <<acl, owner, token, prior, meddling>>
    BY <1>3 DEF Handler!Goto, RightsSoFar, RightsTyped, AskFields, Asked
  <2>2. Places' /\ Telling' /\ Filling'
    BY <1>3, <2>1 DEF RightsSoFar, Places, Telling, Filling, Asked
  <2>3. Trying'
    <3>1. ask'.rights = ask.rights /\ ask'.type = ask.type
      BY <2>1 DEF Asked
    <3>2. Handler!Allows(acl', owner', Handler!accessMask(ask'.rights, ask'.type))
      BY <1>3, <2>1, <3>1
    <3> QED
      BY <3>2 DEF Trying
  <2> QED
    BY <1>3, <2>1, <2>2, <2>3, RightsWithin DEF RightsSoFar, RightsTyped
<1>4. CASE /\ ask.at = "check" /\ ask.type = "Service"
           /\ Handler!Goto([[ask EXCEPT !.at = "manager", !.mask = mask] EXCEPT !.held = {"group"}])
  <2>1. /\ DOMAIN ask' = AskFields /\ Asked' = Asked /\ ask'.at = "manager"
        /\ ask'.copy = ask.copy /\ ask'.new = ask.new /\ ask'.out = ask.out /\ ask'.k = ask.k
        /\ UNCHANGED <<acl, owner, token, prior, meddling>>
    BY <1>4 DEF Handler!Goto, RightsSoFar, RightsTyped, AskFields, Asked
  <2>2. Places'
    BY <1>4, <2>1 DEF RightsSoFar, Places, Asked
  <2> QED
    BY <1>4, <2>1, <2>2, RightsElsewhere DEF Elsewhere
<1>5. CASE ask.at = "opened" /\ Handler!Return("true", {"object"})
  <2>1. ask' = Handler!Over("true", ask.held \ {"object"}) /\ UNCHANGED <<acl, owner, token, prior, meddling>>
    BY <1>5 DEF Handler!Return, Handler!Goto
  <2>2. RightsSoFar'
    BY <2>1, SoFarEnd DEF RightsSoFar, RightsTyped
  <2>3. ASSUME meddling = 0, ask.type # "Service" PROVE Handler!AccessWasThere
    <3> DEFINE asked == Handler!MapGenericMask(
                 Handler!accessRightToAccessMask(ask.rights \cap {"Read", "Write", "Execute"}, ask.type), ask.type)
    <3>1. acl = prior.acl /\ owner = prior.owner /\ may
      BY <1>5, <2>3 DEF RightsSoFar, Untouched, Trying
    <3>2. asked \subseteq mask
      BY <2>3, MaskAsked DEF RightsSoFar, RightsTyped, Handler!Types
    <3> HIDE DEF asked, mask
    <3>3. Handler!Allows(prior.acl, prior.owner, asked)
      BY <3>1, <3>2 DEF Handler!Allows
    <3> QED
      BY <3>3 DEF Handler!AccessWasThere, Handler!Old, asked
  <2>4. meddling = 0 => Handler!AccessWasThere
    BY <2>3 DEF Handler!AccessWasThere
  <2>5. ask.op \notin {"setPermissions", "getPermissions", "takeOwnership"}
    BY <1>5 DEF RightsSoFar, Places
  <2> QED
    BY <2>2, <2>4, <2>5 DEF RightsKept, Handler!RightsStep, Handler!Ended
<1> HIDE DEF mask, may
<1> QED
  BY <1>2, <1>3, <1>4, <1>5 DEF Handler!checkAccess, Handler!At, mask, may

\* A call opens the token and goes on, or it fails.
LEMMA RightsOpenToken ==
  ASSUME RightsSoFar, NEW at, NEW next \in {"user", "enabling", "elevation"},
         at \notin {"idle", "write", "disable", "disabling"},
         ask.op = "takeOwnership" => next # "elevation",
         ask.op \notin {"getPermissions", "setPermissions", "checkAccess"}, Handler!openToken(at, next)
  PROVE  RightsKept
<1>1. ask.at = at
  BY DEF Handler!openToken, Handler!At
<1>2. CASE Handler!Fails({})
  BY <1>1, <1>2, RightsThrown
<1>3. CASE Handler!Goto([ask EXCEPT !.at = next, !.held = @ \cup {"token"}])
  <2>1. /\ DOMAIN ask' = AskFields /\ Asked' = Asked /\ ask'.at = next
        /\ ask'.copy = ask.copy /\ ask'.new = ask.new /\ ask'.out = ask.out /\ ask'.k = ask.k
        /\ UNCHANGED <<acl, owner, token, prior, meddling>>
    BY <1>3 DEF Handler!Goto, RightsSoFar, RightsTyped, AskFields, Asked
  <2>2. Places'
    BY <2>1 DEF Places, Asked
  <2> QED
    BY <1>1, <2>1, <2>2, RightsElsewhere DEF Elsewhere
<1> QED
  BY <1>2, <1>3 DEF Handler!openToken

\* From the write on, what the call has done to the privilege and to the owner.
LEMMA RightsOwning ==
  ASSUME RightsSoFar, DOMAIN ask' = AskFields, Asked' = Asked,
         ask.at \in {"enabling", "write", "disable"}, ask'.at \in {"write", "disable", "disabling"},
         UNCHANGED <<acl, prior, meddling>>, owner' \in Sids, token' \in Handler!Tokens,
         ask'.copy = ask.copy, ask'.new = ask.new, ask'.out = ask.out, ask'.k = ask.k,
         ask.op \notin {"getPermissions", "setPermissions", "checkAccess"},
         ask'.at = "write" => ask.at = "enabling" /\ owner' = owner,
         ask.op = "takeOwnership" /\ ask'.said = "done" /\ ask'.at \in {"disable", "disabling"} =>
           owner' = Me \/ (ask.at = "disable" /\ ask.said = "done" /\ owner' = owner)
  PROVE  RightsKept
<1>1. RightsTyped'
  BY DEF RightsSoFar, RightsTyped, Asked
<1>2. Places' /\ Telling' /\ Filling' /\ Trying'
  BY DEF Places, Telling, Filling, Trying, Asked
<1>3. Untouched'
  <2> SUFFICES ASSUME meddling = 0 PROVE Untouched'
    BY DEF Untouched
  <2>1. /\ acl' = prior'.acl
        /\ ask.at = "enabling" => owner = prior.owner
        /\ ask.op = "takeOwnership" /\ ask.at = "disable" /\ ask.said = "done" => owner = Me
    BY DEF RightsSoFar, Untouched
  <2>2. ask'.op = ask.op
    BY DEF Asked
  <2> QED
    BY <2>1, <2>2 DEF Untouched
<1> QED
  BY <1>1, <1>2, <1>3, RightsGoesOn DEF RightsSoFar

LEMMA RightsTaken == ASSUME RightsSoFar, Handler!takeOwnership PROVE RightsKept
<1>1. CASE Handler!openToken("take", "user")
  <2>1. ask.op \notin {"getPermissions", "setPermissions", "checkAccess"}
    BY <1>1 DEF Handler!openToken, Handler!At, RightsSoFar, Places
  <2> QED
    BY <1>1, <2>1, RightsOpenToken
<1>2. CASE ask.at = "user" /\ Handler!Fails({"token"})
  BY <1>2, RightsThrown
<1>3. CASE ask.at = "user" /\ Handler!Goto([ask EXCEPT !.at = "enable", !.held = @ \ {"token"}])
  <2>1. /\ DOMAIN ask' = AskFields /\ Asked' = Asked /\ ask'.at = "enable"
        /\ ask'.copy = ask.copy /\ ask'.new = ask.new /\ ask'.out = ask.out /\ ask'.k = ask.k
        /\ UNCHANGED <<acl, owner, token, prior, meddling>>
    BY <1>3 DEF Handler!Goto, RightsSoFar, RightsTyped, AskFields, Asked
  <2>2. Places'
    BY <1>3, <2>1 DEF RightsSoFar, Places, Asked
  <2> QED
    BY <1>3, <2>1, <2>2, RightsElsewhere DEF Elsewhere
<1>4. ASSUME ask.at = "write", NEW said, ask' = [ask EXCEPT !.at = "disable", !.said = said],
             \/ said = "failed" /\ UNCHANGED owner
             \/ said = "done" /\ owner' = Me,
             UNCHANGED <<acl, token, prior, meddling>>
      PROVE  RightsKept
  <2>1. /\ DOMAIN ask' = AskFields /\ Asked' = Asked /\ ask'.at = "disable" /\ ask'.said = said
        /\ ask'.copy = ask.copy /\ ask'.new = ask.new /\ ask'.out = ask.out /\ ask'.k = ask.k
    BY <1>4 DEF RightsSoFar, RightsTyped, AskFields, Asked
  <2>2. ask.op \notin {"getPermissions", "setPermissions", "checkAccess"}
    BY <1>4 DEF RightsSoFar, Places
  <2>3. owner' \in Sids /\ token' \in Handler!Tokens
    BY <1>4, ListsFit DEF Handler!PermissionsFit, RightsSoFar, RightsTyped
  <2>4. (said = "done" => owner' = Me) /\ UNCHANGED <<acl, prior, meddling>>
    BY <1>4
  <2> QED
    BY <1>4, <2>1, <2>2, <2>3, <2>4, RightsOwning
<1> QED
  BY <1>1, <1>2, <1>3, <1>4 DEF Handler!takeOwnership, Handler!At, Handler!Goto

LEMMA TokenTurned ==
  ASSUME NEW t \in Handler!Tokens, t.has, NEW b \in BOOLEAN
  PROVE  [t EXCEPT !.on = b] \in Handler!Tokens /\ ([t EXCEPT !.on = b].on <=> b)
BY DEF Handler!Tokens

LEMMA TokenOff == ASSUME NEW t \in Handler!Tokens, ~t.has PROVE ~t.on
BY DEF Handler!Tokens

\* The privilege is switched, or the token has none.
LEMMA RightsTurned ==
  ASSUME RightsSoFar, ask.at \in {"enabling", "disabling"}, UNCHANGED <<acl, owner, prior, meddling>>,
         \/ /\ token.has /\ token' = [token EXCEPT !.on = (ask.at = "enabling")]
            /\ ask' = Handler!Answered("true")
         \/ ~token.has /\ token' = token /\ ask' = Handler!Answered("false")
  PROVE  RightsKept
<1> DEFINE closed == ask.held \ {"token"}
<1>1. token \in Handler!Tokens /\ owner \in Sids /\ acl \in Seq(Handler!AnyEntry)
  BY DEF RightsSoFar, RightsTyped
<1>2. /\ token' \in Handler!Tokens
      /\ ask.at = "disabling" => ~token'.on
      /\ ~token.has => token' = token
  <2>1. CASE token.has /\ ask.at = "enabling"
    <3>1. token' = [token EXCEPT !.on = TRUE]
      BY <2>1
    <3> QED
      BY <1>1, <2>1, <3>1, TokenTurned
  <2>2. CASE token.has /\ ask.at = "disabling"
    <3>1. token' = [token EXCEPT !.on = FALSE]
      BY <2>2
    <3> QED
      BY <1>1, <2>2, <3>1, TokenTurned
  <2>3. CASE ~token.has
    BY <1>1, <2>3, TokenOff
  <2> QED
    BY <2>1, <2>2, <2>3
<1>3. ask.op \notin {"getPermissions", "setPermissions", "checkAccess"}
  BY DEF RightsSoFar, Places
<1>4. CASE ask.op = "adjustPrivilege"
  <2>1. PICK said : ask' = Handler!Over(said, closed)
    BY <1>4 DEF Handler!Answered
  <2>2. RightsSoFar'
    BY <1>1, <1>2, <2>1, SoFarEnd
  <2> QED
    BY <1>4, <2>2 DEF RightsKept, Handler!RightsStep, Handler!Ended
<1>5. CASE ask.op # "adjustPrivilege" /\ ask.at = "disabling"
  <2>1. ask' = Handler!Over(IF ask.said = "done" THEN "ok" ELSE "SecurityError", closed)
    BY <1>5 DEF Handler!Answered, Handler!At
  <2>2. RightsSoFar' /\ ask'.said = IF ask.said = "done" THEN "ok" ELSE "SecurityError"
    BY <1>1, <1>2, <2>1, SoFarEnd
  <2>3. Handler!Ended("takeOwnership") => Handler!PrivilegeGivenBack
    BY <1>2, <1>5, <2>2 DEF Handler!Ended, Handler!PrivilegeGivenBack, Handler!At, RightsSoFar, Untouched
  <2> QED
    BY <1>3, <2>2, <2>3 DEF RightsKept, Handler!RightsStep, Handler!Ended
<1>6. CASE ask.op # "adjustPrivilege" /\ ask.at = "enabling" /\ ~token.has
  <2>1. ask' = Handler!Over("SecurityError", ask.held \ {"token"})
    BY <1>6 DEF Handler!Answered, Handler!At
  <2>2. Handler!Return("SecurityError", {"token"})
    BY <1>6, <2>1, <1>2 DEF Handler!Return, Handler!Goto
  <2> QED
    BY <1>6, <2>2, RightsRefused
<1>7. CASE ask.op # "adjustPrivilege" /\ ask.at = "enabling" /\ token.has
  <2>1. ask' = [ask EXCEPT !.at = "write", !.held = closed]
    BY <1>7 DEF Handler!Answered, Handler!At
  <2>2. /\ DOMAIN ask' = AskFields /\ Asked' = Asked /\ ask'.at = "write"
        /\ ask'.copy = ask.copy /\ ask'.new = ask.new /\ ask'.out = ask.out /\ ask'.k = ask.k
    BY <2>1 DEF RightsSoFar, RightsTyped, AskFields, Asked
  <2> QED
    BY <1>1, <1>2, <1>3, <1>7, <2>2, RightsOwning
<1> QED
  BY <1>4, <1>5, <1>6, <1>7

LEMMA RightsSwitch == ASSUME RightsSoFar, Handler!adjustPrivilege PROVE RightsKept
<1>1. /\ Handler!Turning = {"enabling", "disabling"} /\ Handler!Adjusting = {"enable", "disable"}
      /\ Handler!Turn["enable"] = "enabling" /\ Handler!Turn["disable"] = "disabling"
  BY DEF Handler!Turning, Handler!Adjusting, Handler!Turn
<1>2. CASE Handler!openToken("enable", "enabling")
  <2>1. ask.op \notin {"getPermissions", "setPermissions", "checkAccess"}
    BY <1>2 DEF Handler!openToken, Handler!At, RightsSoFar, Places
  <2> QED
    BY <1>2, <2>1, RightsOpenToken
<1>3. CASE Handler!openToken("disable", "disabling")
  <2>1. ask.at = "disable"
    BY <1>3 DEF Handler!openToken, Handler!At
  <2>2. CASE Handler!Fails({})
    BY <2>1, <2>2, RightsThrown
  <2>3. CASE Handler!Goto([ask EXCEPT !.at = "disabling", !.held = @ \cup {"token"}])
    <3>1. /\ DOMAIN ask' = AskFields /\ Asked' = Asked /\ ask'.at = "disabling" /\ ask'.said = ask.said
          /\ ask'.copy = ask.copy /\ ask'.new = ask.new /\ ask'.out = ask.out /\ ask'.k = ask.k
          /\ UNCHANGED <<acl, owner, token, prior, meddling>>
      BY <2>3 DEF Handler!Goto, RightsSoFar, RightsTyped, AskFields, Asked
    <3>2. ask.op \notin {"getPermissions", "setPermissions", "checkAccess"}
      BY <2>1 DEF RightsSoFar, Places
    <3>3. owner' \in Sids /\ token' \in Handler!Tokens
      BY <3>1 DEF RightsSoFar, RightsTyped
    <3> QED
      BY <2>1, <3>1, <3>2, <3>3, RightsOwning
  <2> QED
    BY <1>3, <2>2, <2>3 DEF Handler!openToken
<1>4. CASE ask.at \in {"enabling", "disabling"} /\ Handler!Fails({"token"})
  BY <1>4, RightsThrown
<1> QED
  BY <1>1, <1>2, <1>3, <1>4, RightsTurned DEF Handler!adjustPrivilege, Handler!Goto, Handler!At

LEMMA RightsRun ==
  ASSUME RightsSoFar, Handler!isRunningAsAdministrator \/ Handler!elevateToAdministrator
  PROVE  RightsKept
<1>1. /\ ask.at \in {"admin", "elevation", "member", "runas", "await"}
      /\ ask.op \notin {"setPermissions", "getPermissions", "checkAccess", "takeOwnership"}
  BY DEF Handler!isRunningAsAdministrator, Handler!elevateToAdministrator, Handler!openToken, Handler!At,
     RightsSoFar, Places
<1>2. CASE Handler!openToken("admin", "elevation")
  BY <1>1, <1>2, RightsOpenToken
<1>3. ASSUME NEW freed, NEW said, Handler!Return(said, freed)
      PROVE  RightsKept
  BY <1>1, <1>3, RightsAnswered
<1>4. CASE Handler!Throw("SystemError", {}) \/ \E freed : Handler!Fails(freed)
  BY <1>1, <1>4, RightsThrown
<1>5. ASSUME NEW at \in {"runas", "member", "await"}, NEW held,
             Handler!Goto([ask EXCEPT !.at = at, !.held = held])
      PROVE  RightsKept
  <2>1. /\ DOMAIN ask' = AskFields /\ Asked' = Asked /\ ask'.at = at
        /\ ask'.copy = ask.copy /\ ask'.new = ask.new /\ ask'.out = ask.out /\ ask'.k = ask.k
        /\ UNCHANGED <<acl, owner, token, prior, meddling>>
    BY <1>5 DEF Handler!Goto, RightsSoFar, RightsTyped, AskFields, Asked
  <2>2. Places'
    BY <1>1, <2>1 DEF Places, Asked
  <2> QED
    BY <1>1, <2>1, <2>2, RightsElsewhere DEF Elsewhere
<1>6. CASE Handler!isRunningAsAdministrator
  BY <1>2, <1>3, <1>4, <1>5, <1>6 DEF Handler!isRunningAsAdministrator
<1>7. CASE Handler!elevateToAdministrator
  BY <1>3, <1>4, <1>5, <1>7 DEF Handler!elevateToAdministrator
<1> QED
  BY <1>6, <1>7

\* A call begins with what there is, and has done nothing.
LEMMA RightsBegins ==
  ASSUME RightsSoFar, NEW op, NEW type \in Handler!Types, NEW at,
         NEW a, DOMAIN a = AskFields, a.op = op, a.type = type, a.at = at,
         a.rights \subseteq Handler!FullControl, a.list \in Seq(Handler!AnyPermission),
         a.replace \in BOOLEAN, a.copy = <<>>, a.new = <<>>, a.out = <<>>, a.k = 1,
         \/ op = "getPermissions" /\ at = "read" /\ ~a.replace
         \/ op = "setPermissions" /\ at = IF a.replace THEN "descriptor" ELSE "read"
         \/ op = "checkAccess" /\ at = "check"
         \/ op = "takeOwnership" /\ at = "take"
         \/ /\ op \notin {"getPermissions", "setPermissions", "checkAccess", "takeOwnership"}
            /\ at \in {"owner", "enable", "disable", "admin"},
         Handler!BeginList(a) \/ Handler!BeginToken(a)
  PROVE  RightsKept
<1>1. /\ ask' = a /\ meddling' = 0 /\ ask.at = "idle"
      /\ prior'.acl = acl' /\ prior'.owner = owner' /\ prior'.token = token'
  BY DEF Handler!BeginList, Handler!BeginToken, Handler!Begin, Handler!NoAsk
<1>2. /\ acl' \in Seq(Handler!AnyEntry) /\ owner' \in Sids /\ token' \in Handler!Tokens
      /\ meddling' \in 0..MaxMeddling
  <2>1. Lists \subseteq Seq(Handler!AnyEntry) /\ MaxMeddling \in Nat
    BY ListsFit DEF Handler!PermissionsFit
  <2>2. 0 \in 0..MaxMeddling
    BY <2>1
  <2> QED
    BY <1>1, <2>1, <2>2 DEF Handler!BeginList, Handler!BeginToken, RightsSoFar, RightsTyped
<1>3. RightsTyped'
  <2>1. <<>> \in Seq(Handler!AnyEntry) /\ <<>> \in Seq(AskedSet) /\ 1 \in Nat \ {0}
    OBVIOUS
  <2>2. /\ DOMAIN ask' = AskFields /\ ask'.type \in Handler!Types
        /\ ask'.rights \subseteq Handler!FullControl /\ ask'.list \in Seq(Handler!AnyPermission)
        /\ ask'.replace \in BOOLEAN /\ ask'.copy = <<>> /\ ask'.new = <<>> /\ ask'.out = <<>>
        /\ ask'.k = 1
    BY <1>1
  <2> QED
    BY <1>2, <2>1, <2>2 DEF RightsTyped
<1>4. Places' /\ Telling' /\ Filling' /\ Trying'
  BY <1>1 DEF Places, Telling, Filling, Trying
<1>5. Untouched'
  BY <1>1 DEF Untouched
<1> QED
  BY <1>1, <1>3, <1>4, <1>5, RightsGoesOn DEF RightsSoFar

LEMMA RightsCalled == ASSUME RightsSoFar, Handler!Call PROVE RightsKept
<1> DEFINE Plain(a) ==
      /\ DOMAIN a = AskFields /\ a.rights \subseteq Handler!FullControl /\ a.list \in Seq(Handler!AnyPermission)
      /\ a.replace \in BOOLEAN /\ a.copy = <<>> /\ a.new = <<>> /\ a.out = <<>> /\ a.k = 1
<1>1. \A l \in PermissionRequests : l \in Seq(Handler!AnyPermission) /\ l[1].rights \subseteq Handler!FullControl
  <2> SUFFICES ASSUME NEW l \in PermissionRequests
               PROVE  l \in Seq(Handler!AnyPermission) /\ l[1].rights \subseteq Handler!FullControl
    OBVIOUS
  <2>1. l \in Seq(Handler!AnyPermission) /\ l # <<>>
    BY ListsFit DEF Handler!PermissionsFit
  <2>2. l[1] \in Handler!AnyPermission
    BY <2>1
  <2> QED
    BY <2>1, <2>2 DEF Handler!AnyPermission
<1>2. ASSUME NEW op, NEW type, NEW at
      PROVE  LET a == Handler!New(op, type, at)
             IN Plain(a) /\ a.op = op /\ a.type = type /\ a.at = at /\ ~a.replace
  BY DEF Handler!New, Handler!NoAsk, AskFields
<1>3. "File" \in Handler!Types
  BY DEF Handler!Types
<1>4. ASSUME NEW type \in Handler!Types, Handler!BeginList(Handler!New("getPermissions", type, "read"))
      PROVE  RightsKept
  BY <1>2, <1>4, RightsBegins
<1>5. ASSUME NEW type \in Handler!Types, NEW l \in PermissionRequests, NEW all \in BOOLEAN,
             Handler!BeginList([Handler!New("setPermissions", type, IF all THEN "descriptor" ELSE "read")
                                  EXCEPT !.list = l, !.replace = all])
      PROVE  RightsKept
  <2> DEFINE at == IF all THEN "descriptor" ELSE "read"
             a == [Handler!New("setPermissions", type, at) EXCEPT !.list = l, !.replace = all]
  <2>1. /\ DOMAIN a = AskFields /\ a.rights = {} /\ a.list = l /\ a.replace = all
        /\ a.copy = <<>> /\ a.new = <<>> /\ a.out = <<>> /\ a.k = 1
        /\ a.op = "setPermissions" /\ a.type = type /\ a.at = at
    BY DEF Handler!New, Handler!NoAsk, AskFields
  <2>2. Handler!BeginList(a)
    BY <1>5
  <2> HIDE DEF a, at
  <2>3. /\ a.rights \subseteq Handler!FullControl /\ a.list \in Seq(Handler!AnyPermission)
        /\ a.replace \in BOOLEAN /\ at = IF a.replace THEN "descriptor" ELSE "read"
    BY <1>1, <2>1 DEF at
  <2> QED
    BY <2>1, <2>2, <2>3, RightsBegins
<1>6. ASSUME NEW type \in Handler!Types, NEW l \in PermissionRequests,
             Handler!BeginList([Handler!New("checkAccess", type, "check") EXCEPT !.rights = l[1].rights])
      PROVE  RightsKept
  <2> DEFINE a == [Handler!New("checkAccess", type, "check") EXCEPT !.rights = l[1].rights]
  <2>1. Plain(a) /\ a.op = "checkAccess" /\ a.type = type /\ a.at = "check"
    BY <1>1 DEF Handler!New, Handler!NoAsk, AskFields
  <2> HIDE DEF a
  <2> QED
    BY <1>6, <2>1, RightsBegins DEF a
<1>7. ASSUME NEW l \in PermissionRequests,
             Handler!BeginToken([Handler!New("setOwner", "File", "owner") EXCEPT !.list = l])
      PROVE  RightsKept
  <2> DEFINE a == [Handler!New("setOwner", "File", "owner") EXCEPT !.list = l]
  <2>1. Plain(a) /\ a.op = "setOwner" /\ a.type = "File" /\ a.at = "owner"
    BY <1>1 DEF Handler!New, Handler!NoAsk, AskFields
  <2> HIDE DEF a
  <2> QED
    BY <1>3, <1>7, <2>1, RightsBegins DEF a
<1>8. CASE Handler!BeginToken(Handler!New("takeOwnership", "File", "take"))
  BY <1>2, <1>3, <1>8, RightsBegins
<1>9. ASSUME NEW at \in {"enable", "disable"}, Handler!BeginToken(Handler!New("adjustPrivilege", "File", at))
      PROVE  RightsKept
  BY <1>2, <1>3, <1>9, RightsBegins
<1>10. CASE Handler!BeginToken(Handler!New("isRunningAsAdministrator", "File", "admin"))
  BY <1>2, <1>3, <1>10, RightsBegins
<1>11. ASSUME NEW wait \in BOOLEAN,
              Handler!BeginToken([Handler!New("elevate", "File", "admin") EXCEPT !.replace = wait])
       PROVE  RightsKept
  <2> DEFINE a == [Handler!New("elevate", "File", "admin") EXCEPT !.replace = wait]
  <2>1. Plain(a) /\ a.op = "elevate" /\ a.type = "File" /\ a.at = "admin"
    BY DEF Handler!New, Handler!NoAsk, AskFields
  <2> HIDE DEF a
  <2> QED
    BY <1>3, <1>11, <2>1, RightsBegins DEF a
<1> QED
  BY <1>4, <1>5, <1>6, <1>7, <1>8, <1>9, <1>10, <1>11 DEF Handler!Call, Handler!Adjusting

LEMMA RightsMeddled == ASSUME RightsSoFar, Handler!Meddle PROVE RightsKept
<1>1. /\ ask' = ask /\ prior' = prior /\ meddling' = meddling + 1 /\ meddling < MaxMeddling
      /\ ask.at # "idle"
  BY DEF Handler!Meddle, Handler!At
<1>2. acl' \in Seq(Handler!AnyEntry) /\ owner' \in Sids /\ token' \in Handler!Tokens
  <2>1. acl \in Seq(Handler!AnyEntry) /\ owner \in Sids /\ token \in Handler!Tokens
    BY DEF RightsSoFar, RightsTyped
  <2>2. CASE token.has /\ token' = [token EXCEPT !.on = ~@] /\ UNCHANGED <<acl, owner>>
    <3>1. CASE token.on
      <4>1. token' = [token EXCEPT !.on = FALSE]
        BY <2>1, <2>2, <3>1 DEF Handler!Tokens
      <4> QED
        BY <2>1, <2>2, <4>1, TokenTurned
    <3>2. CASE ~token.on
      <4>1. token' = [token EXCEPT !.on = TRUE]
        BY <2>1, <2>2, <3>2 DEF Handler!Tokens
      <4> QED
        BY <2>1, <2>2, <4>1, TokenTurned
    <3> QED
      BY <3>1, <3>2
  <2> QED
    BY <2>1, <2>2, ListsFit DEF Handler!Meddle, Handler!PermissionsFit
<1>3. meddling' \in 1..MaxMeddling /\ meddling' # 0
  BY <1>1, ListsFit DEF RightsSoFar, RightsTyped, Handler!PermissionsFit
<1>4. RightsTyped'
  <2>1. meddling' \in 0..MaxMeddling
    BY <1>3
  <2> QED
    BY <1>1, <1>2, <2>1 DEF RightsSoFar, RightsTyped
<1>5. Places' /\ Untouched' /\ Trying'
  BY <1>1, <1>3 DEF RightsSoFar, Places, Untouched, Trying
<1>6. Telling' /\ Filling'
  <2>1. \A p : Handler!Ace(p)' = Handler!Ace(p)
    BY <1>1 DEF Handler!Ace
  <2> QED
    BY <1>1, <1>3, <2>1 DEF RightsSoFar, Telling, Filling
<1> QED
  BY <1>1, <1>4, <1>5, <1>6, RightsGoesOn DEF RightsSoFar

LEMMA RightsIdle ==
  ASSUME acl = <<>>, owner = Me, token = [has |-> FALSE, on |-> FALSE], ask = Handler!NoAsk, meddling = 0
  PROVE  RightsSoFar
<1>1. RightsTyped
  <2>1. Me \in Sids /\ 0 \in 0..MaxMeddling
    BY ListsFit DEF Handler!PermissionsFit
  <2>2. [has |-> FALSE, on |-> FALSE] \in Handler!Tokens
    BY DEF Handler!Tokens
  <2> QED
    BY <2>1, <2>2 DEF RightsTyped, Handler!NoAsk, AskFields, Handler!Types
<1>2. Places /\ Untouched /\ Telling /\ Filling /\ Trying
  BY DEF Places, Untouched, Telling, Filling, Trying, Handler!NoAsk
<1> QED
  BY <1>1, <1>2 DEF RightsSoFar

LEMMA RightsForgotten == ASSUME RightsSoFar, Handler!Forget PROVE RightsKept
<1>1. RightsSoFar'
  <2>1. /\ acl' = <<>> /\ owner' = Me /\ token' = [has |-> FALSE, on |-> FALSE]
        /\ ask' = Handler!NoAsk /\ meddling' = 0
    BY DEF Handler!Forget
  <2>2. RightsTyped'
    <3>1. Me \in Sids /\ 0 \in 0..MaxMeddling
      BY ListsFit DEF Handler!PermissionsFit
    <3>2. [has |-> FALSE, on |-> FALSE] \in Handler!Tokens
      BY DEF Handler!Tokens
    <3> QED
      BY <2>1, <3>1, <3>2 DEF RightsTyped, Handler!NoAsk, AskFields, Handler!Types
  <2>3. Places' /\ Untouched' /\ Telling' /\ Filling' /\ Trying'
    BY <2>1 DEF Places, Untouched, Telling, Filling, Trying, Handler!NoAsk
  <2> QED
    BY <2>2, <2>3 DEF RightsSoFar
<1> QED
  BY <1>1, RightsGoesOn DEF Handler!Forget, Handler!At

LEMMA RightsNextKept == ASSUME RightsSoFar, Handler!Next PROVE RightsKept
BY RightsCalled, RightsMeddled, RightsForgotten, RightsGetInfo, RightsTell, RightsAllocate, RightsFill,
   RightsApply, RightsOwner, RightsTry, RightsTaken, RightsSwitch, RightsRun
   DEF Handler!Next, Handler!Step

LEMMA RightsSame == ASSUME RightsSoFar, UNCHANGED handler PROVE RightsSoFar'
<1>1. UNCHANGED <<acl, owner, token, ask, prior, meddling>>
  BY DEF handler
<1>2. RightsTyped' /\ Places' /\ Untouched' /\ Trying'
  BY <1>1 DEF RightsSoFar, RightsTyped, Places, Untouched, Trying
<1>3. Telling' /\ Filling'
  <2>1. \A p : Handler!Ace(p)' = Handler!Ace(p)
    BY <1>1 DEF Handler!Ace
  <2> QED
    BY <1>1, <2>1 DEF RightsSoFar, Telling, Filling
<1> QED
  BY <1>2, <1>3 DEF RightsSoFar

-----------------------------------------------------------------------------
(* The launcher: what its own module proves holds of it here.               *)

LP == INSTANCE ProcessLauncherProofs

LEMMA LauncherDistinct == LP!Distinct
BY LauncherNames DEF LP!Distinct, LP!Null

LEMMA LauncherInit == Launcher!Init => LP!IInv
<1>1. Launcher!Init => LP!Init
  BY DEF Launcher!Init, LP!Init, Launcher!Closed, LP!Closed, Launcher!Idle, LP!Idle, Launcher!Null, LP!Null
<1> QED
  BY <1>1, LP!InitKeeps, LauncherDistinct

LEMMA LauncherSame ==
  /\ Launcher!Next <=> LP!Next
  /\ Launcher!NoHandleLeft <=> LP!NoHandleLeft
  /\ Launcher!GivenIsOpen <=> LP!GivenIsOpen
  /\ Launcher!ToldEnded <=> LP!ToldEnded
  /\ Launcher!TypeOK <=> LP!TypeOK
<1>1. Launcher!Next <=> LP!Next
  BY DEF Launcher!Idle, LP!Idle, Launcher!Null, LP!Null, Launcher!STILL_ACTIVE, LP!STILL_ACTIVE, Launcher!ExitCodes,
         LP!ExitCodes, Launcher!Closed, LP!Closed, Launcher!Handle, LP!Handle, Launcher!Fresh,
         LP!Fresh, Launcher!Running, LP!Running, Launcher!Unused, LP!Unused, Launcher!Given,
         LP!Given, Launcher!CloseGuards, LP!CloseGuards, Launcher!Leave, LP!Leave,
         Launcher!Return, LP!Return, Launcher!Throw, LP!Throw, Launcher!At, LP!At,
         Launcher!ExitCode, LP!ExitCode, Launcher!Begin, LP!Begin, Launcher!Goto, LP!Goto,
         Launcher!start, LP!start, Launcher!Begun, LP!Begun, Launcher!startWithCreateProcess,
         LP!startWithCreateProcess, Launcher!closeThreadHandle, LP!closeThreadHandle,
         Launcher!ShellExecute, LP!ShellExecute, Launcher!startAsAdmin, LP!startAsAdmin,
         Launcher!startWithShellExecute, LP!startWithShellExecute, Launcher!beginTerminate,
         LP!beginTerminate, Launcher!terminate, LP!terminate, Launcher!terminateReturns,
         LP!terminateReturns, Launcher!wait, LP!wait, Launcher!Timeout, LP!Timeout,
         Launcher!WaitForSingleObject, LP!WaitForSingleObject, Launcher!waitReturns,
         LP!waitReturns, Launcher!isRunning, LP!isRunning, Launcher!isRunningConfirms,
         LP!isRunningConfirms, Launcher!snapshot, LP!snapshot, Launcher!OpenNext, LP!OpenNext,
         Launcher!CloseOpened, LP!CloseOpened, Launcher!getRunningProcesses,
         LP!getRunningProcesses, Launcher!KeepOpened, LP!KeepOpened, Launcher!getProcessByPath,
         LP!getProcessByPath, Launcher!ProcessBegins, LP!ProcessBegins, Launcher!ProcessEnds,
         LP!ProcessEnds, Launcher!Call, LP!Call, Launcher!Step, LP!Step, Launcher!Next, LP!Next
<1>2. Launcher!NoHandleLeft <=> LP!NoHandleLeft
  BY DEF Launcher!NoHandleLeft, LP!NoHandleLeft
<1>3. Launcher!GivenIsOpen <=> LP!GivenIsOpen
  BY DEF Launcher!GivenIsOpen, LP!GivenIsOpen, Launcher!Given, LP!Given
<1>4. Launcher!ToldEnded <=> LP!ToldEnded
  BY DEF Launcher!ToldEnded, LP!ToldEnded, Launcher!ExitCodes, LP!ExitCodes,
         Launcher!STILL_ACTIVE, LP!STILL_ACTIVE
<1>5. Launcher!TypeOK <=> LP!TypeOK
  BY DEF Launcher!TypeOK, LP!TypeOK, Launcher!ExitCodes, LP!ExitCodes, Launcher!STILL_ACTIVE, LP!STILL_ACTIVE,
         Launcher!Given, LP!Given
<1> QED
  BY <1>1, <1>2, <1>3, <1>4, <1>5

\* No step but the launcher's own changes what it has.
LEMMA LauncherNext == ASSUME LP!IInv, Launcher!Next PROVE LP!IInv'
BY LauncherSame, LP!NextKeeps, LauncherDistinct

LEMMA LauncherStays == ASSUME LP!IInv, UNCHANGED launcher PROVE LP!IInv'
BY LP!StutterKeeps DEF launcher, LP!vars

-----------------------------------------------------------------------------
(* The firewall controller: the same.                                       *)

FP == INSTANCE FirewallProofs WITH Stored <- StoredRules, Requests <- RuleRequests

LEMMA PoliciesFit == FP!PoliciesFit
BY FirewallPolicies DEF Controller!PoliciesFit, FP!PoliciesFit, Controller!Fields, FP!Fields,
   Controller!ToSet, FP!ToSet

LEMMA RulesFit == FP!RulesFit
BY FirewallPolicies DEF Controller!RulesFit, FP!RulesFit, Controller!Complete, FP!Complete, Controller!Fields,
   FP!Fields, Controller!None, FP!None, Controller!Malformed, FP!Malformed, Controller!ToSet, FP!ToSet

ControllerHeld == FP!RulesHeld /\ FP!PolicyHeld /\ FP!TypesHeld /\ FP!ReadHeld

LEMMA ControllerInit == Controller!Init => ControllerHeld
<1>1. Controller!Init => FP!Init
  BY DEF Controller!Init, FP!Init, Controller!NoAct, FP!NoAct, Controller!Blank, FP!Blank,
         Controller!Fields, FP!Fields, Controller!None, FP!None, Controller!ToSet, FP!ToSet
<1> QED
  BY <1>1, FP!RulesInit, FP!PolicyInit, FP!TypesInit, FP!ReadInit, RulesFit DEF ControllerHeld

LEMMA ControllerSame ==
  /\ Controller!Next <=> FP!Next
  /\ Controller!RulesReleased <=> FP!RulesReleased
  /\ Controller!PolicyStep <=> FP!PolicyStep
  /\ Controller!TypeOK <=> FP!TypeOK
  /\ Controller!ReadStep <=> FP!ReadStep
<1>1. Controller!Next <=> FP!Next
  BY DEF Controller!Fields, FP!Fields, Controller!Optional, FP!Optional, Controller!None, FP!None,
         Controller!Malformed, FP!Malformed, Controller!Profiles, FP!Profiles, Controller!Named,
         FP!Named, Controller!With, FP!With, Controller!Without, FP!Without, Controller!And, FP!And,
         Controller!Fresh, FP!Fresh, Controller!Blank, FP!Blank, Controller!NoAct, FP!NoAct,
         Controller!At, FP!At, Controller!Fun, FP!Fun, Controller!Goto, FP!Goto, Controller!Write,
         FP!Write, Controller!Over, FP!Over, Controller!Wraps, FP!Wraps, Controller!Throw, FP!Throw,
         Controller!Back, FP!Back, Controller!checkHResult, FP!checkHResult, Controller!FirstStep,
         FP!FirstStep, Controller!ComInitializer, FP!ComInitializer,
         Controller!FirewallPolicyHelper, FP!FirewallPolicyHelper, Controller!createNetFwRule,
         FP!createNetFwRule, Controller!Invalid, FP!Invalid, Controller!addRule, FP!addRule,
         Controller!updateRule, FP!updateRule, Controller!Given, FP!Given, Controller!putRule,
         FP!putRule, Controller!removeRule, FP!removeRule, Controller!removeFound, FP!removeFound,
         Controller!ruleExists, FP!ruleExists, Controller!Converted, FP!Converted,
         Controller!getRules, FP!getRules, Controller!getRule, FP!getRule,
         Controller!convertFwRule2Rule, FP!convertFwRule2Rule, Controller!getStatus, FP!getStatus,
         Controller!setStatus, FP!setStatus, Controller!OthersWrite, FP!OthersWrite,
         Controller!Begin, FP!Begin, Controller!Forget, FP!Forget, Controller!Asked, FP!Asked,
         Controller!Call, FP!Call, Controller!Step, FP!Step, Controller!Next, FP!Next,
         Controller!ToSet, FP!ToSet, Controller!Front, FP!Front, Controller!Last, FP!Last
<1>2. Controller!RulesReleased <=> FP!RulesReleased
  BY DEF Controller!RulesReleased, FP!RulesReleased
<1>3. Controller!PolicyStep <=> FP!PolicyStep
  BY DEF Controller!PolicyStep, FP!PolicyStep, Controller!Ended, FP!Ended, Controller!Old, FP!Old,
         Controller!OldNamed, FP!OldNamed, Controller!Lost, FP!Lost, Controller!Asks, FP!Asks,
         Controller!Updated, FP!Updated, Controller!Elsewhere, FP!Elsewhere,
         Controller!UpdateInPlace, FP!UpdateInPlace, Controller!UpdateAnew, FP!UpdateAnew,
         Controller!Removed, FP!Removed, Controller!StatusSet, FP!StatusSet,
         Controller!createNetFwRule, FP!createNetFwRule, Controller!At, FP!At, Controller!Fields,
         FP!Fields, Controller!Optional, FP!Optional, Controller!Profiles, FP!Profiles,
         Controller!None, FP!None, Controller!ToSet, FP!ToSet, Controller!Cardinality,
         FP!Cardinality
<1>4. Controller!TypeOK <=> FP!TypeOK
  BY DEF Controller!TypeOK, FP!TypeOK, Controller!Complete, FP!Complete, Controller!Fields, FP!Fields,
         Controller!None, FP!None, Controller!Malformed, FP!Malformed, Controller!Profiles, FP!Profiles,
         Controller!ToSet, FP!ToSet
<1>5. Controller!ReadStep <=> FP!ReadStep
  BY DEF Controller!ReadStep, FP!ReadStep, Controller!StatusTold, FP!StatusTold, Controller!Ended, FP!Ended,
         Controller!Old, FP!Old, Controller!OldNamed, FP!OldNamed, Controller!At, FP!At, Controller!Profiles,
         FP!Profiles, Controller!ToSet, FP!ToSet, Controller!Cardinality, FP!Cardinality
<1> QED
  BY <1>1, <1>2, <1>3, <1>4, <1>5

\* No step but the controller's own changes what it has.
LEMMA ControllerNext ==
  ASSUME ControllerHeld, Controller!Next
  PROVE  ControllerHeld' /\ Controller!PolicyStep /\ Controller!ReadStep
BY ControllerSame, PoliciesFit, FP!RulesNext, FP!PolicyNext, RulesFit, FP!TypesNext, FP!ReadNext DEF ControllerHeld

LEMMA ControllerStays == ASSUME ControllerHeld, UNCHANGED controller PROVE ControllerHeld'
BY FP!RulesStutter, FP!PolicyStutters, FP!TypesStutter, FP!ReadStutters DEF controller, FP!vars, ControllerHeld

-----------------------------------------------------------------------------
(* The five side by side: a step is of one, and the others stay as they are. *)

Part == part \in {"process", "environment", "registry", "firewall", "permissions"}

IInv ==
  /\ Part /\ LP!IInv /\ ControllerHeld
  /\ VariablesHeld /\ VariablesRead
  /\ KeysHeld /\ KeysRead
  /\ RightsHeld /\ RightsSoFar

LEMMA EnvironmentInit == Environment!Init => VariablesHeld /\ VariablesRead
BY VariablesInit, VariablesReadInit, VariablesNamed

LEMMA EnvironmentNext ==
  ASSUME VariablesHeld, VariablesRead, Environment!Next
  PROVE  VariablesHeld' /\ VariablesRead' /\ Environment!ReadStep
BY VariablesNext, VariablesReadNext, VariablesNamed DEF VariablesReadKept

LEMMA EnvironmentStays ==
  ASSUME VariablesHeld, VariablesRead, UNCHANGED environment
  PROVE  VariablesHeld' /\ VariablesRead'
<1>1. UNCHANGED Environment!vars /\ req' = req
  BY DEF environment, Environment!vars
<1> QED
  BY <1>1, VariablesReadStutter DEF VariablesHeld

LEMMA ManagerInit == Manager!Init => KeysHeld /\ KeysRead
BY KeysInit, KeysReadInit, KeysNamed

LEMMA ManagerNext ==
  ASSUME KeysHeld, KeysRead, Manager!Next
  PROVE  KeysHeld' /\ KeysRead' /\ Manager!ReadStep
BY KeysNext, KeysReadNext, KeysNamed DEF KeysKept

LEMMA ManagerStays ==
  ASSUME KeysHeld, KeysRead, UNCHANGED manager
  PROVE  KeysHeld' /\ KeysRead'
<1>1. UNCHANGED Manager!vars /\ job' = job
  BY DEF manager, Manager!vars
<1> QED
  BY <1>1, KeysReadStay DEF KeysHeld

LEMMA RightsStay == ASSUME RightsHeld, UNCHANGED handler PROVE RightsHeld'
BY DEF handler, RightsHeld, Handler!NothingHeld, Handler!At, Listing, Holding

LEMMA InvInit == Init => IInv
BY LauncherInit, EnvironmentInit, ManagerInit, ControllerInit, RightsInit, RightsIdle
   DEF Init, IInv, Part, Handler!Init

LEMMA InvNext == ASSUME IInv, [Next]_vars PROVE IInv'
<1>1. CASE OfLauncher(Launcher!Next)
  BY <1>1, LauncherNext, EnvironmentStays, ManagerStays, ControllerStays, RightsStay, RightsSame
     DEF OfLauncher, IInv, Part
<1>2. CASE OfEnvironment(Environment!Next)
  BY <1>2, EnvironmentNext, LauncherStays, ManagerStays, ControllerStays, RightsStay, RightsSame
     DEF OfEnvironment, IInv, Part
<1>3. CASE OfManager(Manager!Next)
  BY <1>3, ManagerNext, LauncherStays, EnvironmentStays, ControllerStays, RightsStay, RightsSame
     DEF OfManager, IInv, Part
<1>4. CASE OfController(Controller!Next)
  BY <1>4, ControllerNext, LauncherStays, EnvironmentStays, ManagerStays, RightsStay, RightsSame
     DEF OfController, IInv, Part
<1>5. CASE OfHandler(Handler!Next)
  BY <1>5, RightsNext, RightsNextKept, LauncherStays, EnvironmentStays, ManagerStays, ControllerStays
     DEF OfHandler, IInv, Part, RightsKept
<1>6. CASE UNCHANGED vars
  BY <1>6, LauncherStays, EnvironmentStays, ManagerStays, ControllerStays, RightsStay, RightsSame
     DEF vars, IInv, Part
<1> QED
  BY <1>1, <1>2, <1>3, <1>4, <1>5, <1>6 DEF Next

THEOREM Invariance == Spec => []IInv
BY InvInit, InvNext, PTL DEF Spec

\* The values, handles, lists and masks that the code stores are of their types,
\* whichever of the five is called and whatever others write: the values of a key
\* are entries, an invalid rule never reaches the policy, a call holds only what it
\* can give back.
THEOREM TypeOKAlways == Spec => []TypeOK
<1>1. ASSUME IInv PROVE TypeOK
  <2>1. Launcher!TypeOK
    <3>1. LP!TypeOK
      BY <1>1 DEF IInv, LP!IInv, LP!Types, LP!Shape, LP!Handles, LP!Calls, LP!TypeOK, LP!Born
    <3> QED
      BY <3>1, LauncherSame
  <2>2. Environment!TypeOK
    BY <1>1, VariablesTypeOK DEF IInv
  <2>3. Manager!TypeOK
    BY <1>1, KeysTypeOK DEF IInv
  <2>4. Controller!TypeOK
    BY <1>1, ControllerSame DEF IInv, ControllerHeld, FP!TypesHeld
  <2>5. Handler!TypeOK
    BY <1>1 DEF IInv, RightsHeld, Holding, RightsSoFar, RightsTyped, Handler!TypeOK
  <2>6. CASE part = "process"
    BY <2>1, <2>6 DEF TypeOK
  <2>7. CASE part = "environment"
    BY <2>2, <2>7 DEF TypeOK
  <2>8. CASE part = "registry"
    BY <2>3, <2>8 DEF TypeOK
  <2>9. CASE part = "firewall"
    BY <2>4, <2>9 DEF TypeOK
  <2>10. CASE part = "permissions"
    BY <2>5, <2>10 DEF TypeOK
  <2> QED
    BY <1>1, <2>6, <2>7, <2>8, <2>9, <2>10 DEF IInv, Part
<1> QED
  BY <1>1, Invariance, PTL

\* Whatever a call of one of the five opens or allocates is given back when it is
\* over, on every way out of it, but for what the modules name: a list of
\* setPermissions(), references to at most three rules of the firewall.
THEOREM NothingLeftAlways == Spec => []NothingLeft
<1>1. ASSUME IInv PROVE NothingLeft
  <2>1. Launcher!NoHandleLeft
    <3>1. LP!NoHandleLeft
      <4> SUFFICES ASSUME NEW v \in Values, table[v].by \in Threads
                   PROVE  call[table[v].by].at # "idle"
        BY DEF LP!NoHandleLeft
      <4>1. v \in LP!Own(table[v].by) /\ LP!Shape(table[v].by)
        BY <1>1 DEF IInv, LP!IInv, LP!Held
      <4> QED
        BY <4>1 DEF LP!Shape, LP!Own, LP!Opened, LP!Guarded
    <3> QED
      BY <3>1, LauncherSame
  <2>2. Environment!NothingHeld
    BY <1>1 DEF IInv, VariablesHeld, Environment!NothingHeld, Environment!At
  <2>3. Manager!NothingOpen
    BY <1>1 DEF IInv, KeysHeld, Closed, Manager!NothingOpen, Manager!At
  <2>4. Controller!RulesReleased /\ Handler!NothingHeld
    BY <1>1, ControllerSame DEF IInv, ControllerHeld, FP!RulesHeld, RightsHeld
  <2>5. CASE part = "process"
    BY <2>1, <2>5 DEF NothingLeft
  <2>6. CASE part = "environment"
    BY <2>2, <2>6 DEF NothingLeft
  <2>7. CASE part = "registry"
    BY <2>3, <2>7 DEF NothingLeft
  <2>8. CASE part = "firewall"
    BY <2>4, <2>8 DEF NothingLeft
  <2>9. CASE part = "permissions"
    BY <2>4, <2>9 DEF NothingLeft
  <2> QED
    BY <1>1, <2>5, <2>6, <2>7, <2>8, <2>9 DEF IInv, Part
<1> QED
  BY <1>1, Invariance, PTL

\* What the caller of the launcher relies on holds whichever of the five it calls.
THEOREM HandleNamesProcessAlways == Spec => HandleNamesProcess
<1>1. ASSUME IInv PROVE reused \/ Launcher!GivenIsOpen
  BY <1>1, LauncherSame DEF IInv, LP!IInv, LP!Safe
<1>2. ASSUME IInv, [Next]_vars PROVE [reused \/ Launcher!ToldEnded]_Launcher!vars
  <2>1. CASE OfLauncher(Launcher!Next)
    <3>1. LP!ToldEnded
      BY <1>2, <2>1, LP!AnswersAreTrue, LauncherSame, LauncherDistinct DEF OfLauncher, IInv
    <3> QED
      BY <3>1, LauncherSame
  <2>2. CASE UNCHANGED launcher
    BY <2>2 DEF launcher, Launcher!vars
  <2> QED
    BY <1>2, <2>1, <2>2 DEF Next, OfEnvironment, OfManager, OfController, OfHandler, vars
<1> QED
  BY <1>1, <1>2, Invariance, PTL DEF Spec, HandleNamesProcess, Launcher!HandleNamesProcess

\* What a call that nobody disturbs may do to the policy of the firewall, whichever
\* of the five is called.  (firewall_controller_windows.cpp:245-409, :659-688)
THEOREM PolicyKeptAlways == Spec => PolicyKept
<1>1. ASSUME IInv, [Next]_vars PROVE [Controller!PolicyStep]_Controller!vars
  <2>1. CASE OfController(Controller!Next)
    BY <1>1, <2>1, ControllerNext DEF OfController, IInv
  <2>2. CASE UNCHANGED controller
    BY <2>2 DEF controller, Controller!vars
  <2> QED
    BY <1>1, <2>1, <2>2 DEF Next, OfLauncher, OfEnvironment, OfManager, OfHandler, vars
<1> QED
  BY <1>1, Invariance, PTL DEF Spec, PolicyKept, Controller!PolicyKept

\* What a read of the variables, of the registry or of the firewall returns was so at
\* some time during the read, however often others write between its steps: the value
\* and its type, the names, that there is none.
\* (environment_variables_windows.cpp:27-330, registry_manager_windows.cpp:142-1040,
\* firewall_controller_windows.cpp:429-659)
THEOREM ReadsWereThereAlways == Spec => ReadsWereThere
<1>1. ASSUME IInv, [Next]_vars
      PROVE  /\ [Environment!ReadStep]_Environment!vars
             /\ [Manager!ReadStep]_Manager!vars
             /\ [Controller!ReadStep]_Controller!vars
  <2>1. [Environment!ReadStep]_Environment!vars
    <3>1. CASE OfEnvironment(Environment!Next)
      BY <1>1, <3>1, EnvironmentNext DEF OfEnvironment, IInv
    <3>2. CASE UNCHANGED environment
      BY <3>2 DEF environment, Environment!vars
    <3> QED
      BY <1>1, <3>1, <3>2 DEF Next, OfLauncher, OfManager, OfController, OfHandler, vars
  <2>2. [Manager!ReadStep]_Manager!vars
    <3>1. CASE OfManager(Manager!Next)
      BY <1>1, <3>1, ManagerNext DEF OfManager, IInv
    <3>2. CASE UNCHANGED manager
      BY <3>2 DEF manager, Manager!vars
    <3> QED
      BY <1>1, <3>1, <3>2 DEF Next, OfLauncher, OfEnvironment, OfController, OfHandler, vars
  <2>3. [Controller!ReadStep]_Controller!vars
    <3>1. CASE OfController(Controller!Next)
      BY <1>1, <3>1, ControllerNext DEF OfController, IInv
    <3>2. CASE UNCHANGED controller
      BY <3>2 DEF controller, Controller!vars
    <3> QED
      BY <1>1, <3>1, <3>2 DEF Next, OfLauncher, OfEnvironment, OfManager, OfHandler, vars
  <2> QED
    BY <2>1, <2>2, <2>3
<1> QED
  BY <1>1, Invariance, PTL DEF Spec, ReadsWereThere, Environment!ReadsWereThere, Manager!ReadsWereThere,
     Controller!ReadsWereThere

\* The rights, the owner and the privilege are as asked when a call returns that
\* nobody has disturbed, whichever of the five is called.
\* (permission_handler_windows.cpp:101-337, :594-937, :985-1234)
THEOREM RightsAsAskedAlways == Spec => RightsAsAsked
<1>1. ASSUME IInv, [Next]_vars PROVE [Handler!RightsStep]_Handler!vars
  <2>1. CASE OfHandler(Handler!Next)
    BY <1>1, <2>1, RightsNextKept DEF OfHandler, IInv, RightsKept
  <2>2. CASE UNCHANGED handler
    BY <2>2 DEF handler, Handler!vars
  <2> QED
    BY <1>1, <2>1, <2>2 DEF Next, OfLauncher, OfEnvironment, OfManager, OfController, vars
<1> QED
  BY <1>1, Invariance, PTL DEF Spec, RightsAsAsked, Handler!RightsAsAsked

=============================================================================
