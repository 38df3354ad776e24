------------------------ MODULE EnvironmentVariables ------------------------
(***************************************************************************)
(* EnvironmentVariablesWindows (systemkit/src/windows/                     *)
(* environment_variables_windows.cpp).  The variables of the process, which*)
(* its other threads change, and those of the user or of the system, values*)
(* of a registry key that other processes change.  Almost every read asks  *)
(* for a size first and for the data afterwards.                           *)
(*                                                                         *)
(* A text is its length.  An expandable value is the text "%Ref%".         *)
(***************************************************************************)
EXTENDS Naturals, FiniteSets, Sequences, SequencesExt

CONSTANTS
  Names,      \* names of registry values; NoName may be among them
  NoName,     \* the empty name, that of the unnamed value of a key
  Ref,        \* the variable expandable values refer to
  MaxLen,     \* the longest value
  MaxWrites   \* how often others write while one call is under way (a bound)

VARIABLES
  penv,       \* the process's variables
  key,        \* the values of one registry key, User's or System's, as enumerated
  req,        \* the call under way, or the result of the last one
  seen,       \* what was stored at some time during this call
  writes      \* how often others have written during this call

vars == <<penv, key, req, seen, writes>>

Texts == 0..MaxLen
Literal == MaxLen + 1    \* "%Ref%", which is what it expands to without Ref
Absent == MaxLen + 2     \* stands for a variable that does not exist
Torn == MaxLen + 3       \* stands for a buffer whose contents nobody defines
Types == {"SZ", "EXPAND", "DWORD"}
Entry(n, type, text) == [name |-> n, type |-> type, text |-> text]
Entries == {Entry(n, "SZ", text) : n \in Names, text \in Texts}
             \cup {Entry(n, "EXPAND", Literal) : n \in Names} \cup {Entry(n, "DWORD", 1) : n \in Names}
Variables == Names \ {NoName}

\* The unnamed value and the variable referred to have names.
VariablesFit == NoName \in Names /\ Ref \in Variables /\ MaxLen \in Nat /\ MaxWrites \in Nat

Expanded == IF penv[Ref] = Absent THEN Literal ELSE penv[Ref]

\* everything a reader may find: <<name, type, text>>, or <<name, Absent>>
Stored ==
  {<<key[i].name, key[i].type, key[i].text>> : i \in DOMAIN key}
    \cup {<<n, Absent>> : n \in Names \ {key[i].name : i \in DOMAIN key}}
    \cup {<<n, "process", penv[n]>> : n \in Variables}
    \cup {<<"expansion", Expanded>>}

NoRequest == [op |-> "none", in |-> "process", name |-> NoName, at |-> "idle", size |-> 0, type |-> "SZ",
              text |-> 0, left |-> <<>>, last |-> 0, out |-> {}, held |-> {}, said |-> "none"]

TypeOK ==
  /\ penv \in [Variables -> Texts \cup {Absent}]
  /\ \A i \in DOMAIN key : key[i] \in Entries /\ \A j \in 1..(i - 1) : key[i].name # key[j].name
  /\ req.in \in {"process", "registry"} /\ req.name \in Names
  /\ req.held \subseteq {"key", "block", "sid"}
  /\ writes \in 0..MaxWrites

Init ==
  /\ penv = [n \in Variables |-> Absent]
  /\ key = <<>> /\ req = NoRequest /\ seen = {} /\ writes = 0

----------------------------------------------------------------------------
(* How a call goes on and how it ends *)

Begin(op, in, n, at) ==
  /\ req.at = "idle"
  /\ req' = [NoRequest EXCEPT !.op = op, !.in = in, !.name = n, !.at = at]
  /\ seen' = Stored /\ writes' = 0
  /\ UNCHANGED <<penv, key>>

At(at) == req.at = at

Unchanged == UNCHANGED <<penv, key, seen, writes>>
Goto(r) == req' = r /\ Unchanged

\* what has a destructor to give it back, on every way out
RAII == {"key", "block"}

Leave(said, out) ==
  req' = [NoRequest EXCEPT !.op = req.op, !.in = req.in, !.name = req.name,
                           !.said = said, !.out = out, !.held = req.held \ RAII]

End(said, out) == Leave(said, out) /\ Unchanged

\* exists() takes the one code for an answer
Throw(code) ==
  IF req.op = "exists" /\ code = "NotFound" THEN End("false", {}) ELSE End(code, {})

\* get() has a value; getAll() goes on with the next name
Found(text) ==
  CASE req.op = "get" -> End("ok", {<<req.name, text>>})
    [] req.op = "exists" -> End("true", {})
    [] OTHER -> Goto([req EXCEPT !.at = "next", !.held = @ \ {"key"},
                                 !.out = @ \cup {<<req.name, text>>}])

\* where the value of a name is, if it has one; no two values have the same name
Index(n) == IF \E i \in DOMAIN key : key[i].name = n THEN CHOOSE i \in DOMAIN key : key[i].name = n ELSE 0

----------------------------------------------------------------------------
(* get() and exists() *)

get(op, in, n) ==
  /\ op \in {"get", "exists"}
  /\ Begin(op, in, n, IF n = NoName THEN "noName" ELSE IF in = "process" THEN "psize" ELSE "open")

\* of the process: a value of length 0 fills nothing, which is an error too
getFromProcess ==
  \/ At("noName") /\ Throw("InvalidArgument")
  \/ At("psize") /\ penv[req.name] = Absent /\ Throw("NotFound")
  \/ At("psize") /\ penv[req.name] # Absent /\ Goto([req EXCEPT !.at = "pfill", !.size = penv[req.name] + 1])
  \/ /\ At("pfill")
     /\ LET text == penv[req.name] IN
        IF text \in {Absent, 0} \/ (text # Absent /\ text >= req.size) THEN Throw("SizeError") ELSE Found(text)

getFromRegistry ==
  /\ At("open")
  /\ Throw("EnvironmentVariableError") \/ Goto([req EXCEPT !.at = "rsize", !.held = {"key"}])

\* the type is that of the second query, the buffer that of the first
getRegistryEnvironmentVariable ==
  \/ /\ At("rsize")
     /\ LET i == Index(req.name) IN
        CASE i = 0 -> Throw("NotFound")
          [] i # 0 /\ key[i].type = "DWORD" -> Throw("TypeError")
          [] OTHER -> Goto([req EXCEPT !.at = "rfill", !.size = key[i].text])
  \/ /\ At("rfill")
     /\ LET i == Index(req.name) IN
        IF i = 0 \/ key[i].text > req.size
        THEN Throw("QueryError")
        ELSE Goto([req EXCEPT !.at = IF key[i].type = "EXPAND" THEN "esize" ELSE "text",
                              !.type = key[i].type, !.text = key[i].text])
  \/ At("text") /\ Found(req.text)

\* the second expansion is not compared with the first
expandRegistryValue ==
  \/ At("esize") /\ req.op # "expand" /\ Goto([req EXCEPT !.at = "efill", !.size = Expanded])
  \/ At("efill") /\ req.op # "expand" /\ Found(IF Expanded > req.size THEN Torn ELSE Expanded)

\* of "%Ref%"; this one is
expand ==
  \/ At("esize") /\ req.op = "expand" /\ Goto([req EXCEPT !.at = "efill", !.size = Expanded])
  \/ /\ At("efill") /\ req.op = "expand"
     /\ IF Expanded > req.size THEN Throw("ExpandError") ELSE End("ok", {<<Ref, Expanded>>})

----------------------------------------------------------------------------
(* getNames() and getAll() *)

getNames(op, in) ==
  /\ op \in {"getNames", "getAll"}
  /\ Begin(op, in, NoName, IF in = "process" THEN "block" ELSE "names")

\* of the process: one snapshot
readBlock ==
  \/ At("block") /\ Throw("EnvironmentGetError")
  \/ At("block") /\ Goto([req EXCEPT !.at = "copy", !.held = {"block"},
                                     !.out = {<<n, penv[n]>> : n \in {m \in Variables : penv[m] # Absent}}])
  \/ At("copy") /\ End("ok", IF req.op = "getAll" THEN req.out ELSE {<<e[1]>> : e \in req.out})

\* of a key: as many as there were, by index; what fails is skipped
enumerate ==
  \/ At("names") /\ Throw("EnvironmentVariableError")
  \/ At("names") /\ Goto([req EXCEPT !.at = "count", !.held = {"key"}])
  \/ At("count") /\ Goto([req EXCEPT !.at = "enum", !.size = 1, !.last = Len(key)])
  \/ /\ At("enum") /\ req.size <= req.last
     /\ Goto([req EXCEPT !.size = @ + 1,
                !.left = IF req.size > Len(key) THEN @ ELSE Append(@, key[req.size].name)])
  \/ /\ At("enum") /\ req.size > req.last
     /\ IF req.op = "getNames"
        THEN End("ok", {<<n>> : n \in ToSet(req.left)})
        ELSE Goto([req EXCEPT !.at = "next", !.held = {}])

\* get() of every name; the first that throws ends it
getAll ==
  /\ At("next")
  /\ IF req.left = <<>>
     THEN End("ok", req.out)
     ELSE Goto([req EXCEPT !.name = Head(req.left), !.left = Tail(@),
                           !.at = IF req.left[1] = NoName THEN "noName" ELSE "open"])

----------------------------------------------------------------------------
(* set() and remove() *)

Put(e) == IF Index(e.name) = 0 THEN Append(key, e) ELSE [key EXCEPT ![Index(e.name)] = e]
Without(n) == IF Index(n) = 0 THEN key ELSE RemoveAt(key, Index(n))

setProcess(n, text) ==
  /\ req.at = "idle"
  /\ \/ /\ n # NoName
        /\ penv' = [penv EXCEPT ![n] = text]
        /\ req' = NoRequest
     \/ req' = NoRequest /\ UNCHANGED penv \* no name, or the system refuses
  /\ seen' = {} /\ UNCHANGED <<key, writes>>

\* set() in the registry, or remove(), whose text is Absent
set(scope, n, text) ==
  /\ n # NoName /\ req.at = "idle"
  /\ req' = [NoRequest EXCEPT !.op = "set", !.in = "registry", !.name = n, !.text = text,
                              !.at = IF scope = "System" THEN "admin" ELSE "openWrite"]
  /\ seen' = {} /\ writes' = 0
  /\ UNCHANGED <<penv, key>>

\* FreeSid() on each of three ways on
checkAdmin ==
  \/ At("admin") /\ Throw("CheckAdminError")
  \/ At("admin") /\ Goto([req EXCEPT !.at = "member", !.held = {"sid"}])
  \/ At("member") /\ Goto([req EXCEPT !.at = "notAdmin", !.held = {}])
  \/ At("notAdmin") /\ \E code \in {"CheckAdminError", "AccessDenied"} : Throw(code)
  \/ At("member") /\ Goto([req EXCEPT !.at = "openWrite", !.held = {}])

writeValue ==
  \/ At("openWrite") /\ Throw("EnvironmentVariableError")
  \/ At("openWrite") /\ Goto([req EXCEPT !.at = "write", !.held = {"key"}])
  \/ At("write") /\ Throw("EnvironmentVariableError")
  \/ /\ At("write")
     /\ key' = IF req.text = Absent THEN Without(req.name) ELSE Put(Entry(req.name, "SZ", req.text))
     /\ Leave("ok", {})
     /\ UNCHANGED <<penv, seen, writes>>

----------------------------------------------------------------------------
(* The others *)

\* between two calls they write as they like, and what was said is forgotten
OthersWrite ==
  /\ IF At("idle")
     THEN req' = NoRequest /\ seen' = {} /\ writes' = 0
     ELSE /\ writes < MaxWrites /\ writes' = writes + 1
          /\ UNCHANGED req
          /\ seen' = IF seen = {} THEN {} ELSE seen \cup Stored'

OtherThread ==
  /\ \E n \in Variables, text \in Texts \cup {Absent} : penv' = [penv EXCEPT ![n] = text]
  /\ UNCHANGED key
  /\ OthersWrite

OtherProcess ==
  /\ \/ \E e \in Entries : key' = Put(e)
     \/ \E n \in Names : key' = Without(n)
  /\ UNCHANGED penv
  /\ OthersWrite

Call ==
  \/ \E op \in {"get", "exists"}, in \in {"process", "registry"}, n \in Names : get(op, in, n)
  \/ \E op \in {"getNames", "getAll"}, in \in {"process", "registry"} : getNames(op, in)
  \/ \E n \in Names, text \in Texts \cup {Absent} : 
       setProcess(n, text) \/ \E scope \in {"User", "System"} : set(scope, n, text)
  \/ Begin("expand", "process", Ref, "esize")

Step ==
  \/ getFromProcess \/ getFromRegistry \/ getRegistryEnvironmentVariable
  \/ expandRegistryValue \/ expand \/ readBlock \/ enumerate \/ getAll
  \/ checkAdmin \/ writeValue

Next == Call \/ Step \/ OtherThread \/ OtherProcess

Spec == Init /\ [][Next]_vars

----------------------------------------------------------------------------
\* Every key, environment block and SID is given back when the call is over.
NothingHeld == At("idle") => req.held = {}

There == seen \cup Stored
WasThere(n, text) == \E type \in Types : <<n, type, text>> \in There
CameOrWent(n) == <<n, Absent>> \in There /\ \E text \in Texts \cup {Literal} : WasThere(n, text)

\* The value is one the variable had during the call.  An expandable value is
\* expanded with what its variable had during the call, and is undefined only
\* if that was changed meanwhile.
ValueWasThere(in, n, text) ==
  IF in = "process"
  THEN \/ <<n, "process", text>> \in There
       \/ req.op = "expand" /\ <<"expansion", text>> \in There
  ELSE \/ WasThere(n, text)
       \/ /\ <<n, "EXPAND", Literal>> \in There
          /\ \/ <<"expansion", text>> \in There
             \/ text = Torn /\ \E x, y \in Texts \cup {Literal} :
                                x # y /\ {<<"expansion", x>>, <<"expansion", y>>} \subseteq There

\* A variable that exists() denies was missing at some time during the call.
DenialWasTrue ==
  (IF req.in = "process" THEN <<req.name, "process", Absent>> ELSE <<req.name, Absent>>) \in There

\* getNames() and getAll() of a key have each of its names, and no other,
\* unless one came or went.
NamesWereThere(names) ==
  \/ \E n \in Names : CameOrWent(n)
  \/ names = {n \in Names : <<n, Absent>> \notin There}

\* What a read says was so at some time between its call and its return,
\* although it asks twice and others write in between.
\* (environment_variables_windows.cpp:30-74, :96-121, :391-415, :462-468, :590-619)
ReadStep ==
  req.at # "idle" /\ req'.at = "idle" /\ req.op # "set" =>
    /\ req'.said = "ok" =>
         /\ \A e \in req'.out : Len(e) = 2 => ValueWasThere(req.in, e[1], e[2])
         /\ req.op \in {"getNames", "getAll"} /\ req.in = "registry" =>
              NamesWereThere({e[1] : e \in req'.out})
    /\ req'.said = "false" => DenialWasTrue
ReadsWereThere == [][ReadStep]_vars

=============================================================================
