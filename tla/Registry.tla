------------------------------ MODULE Registry ------------------------------
(***************************************************************************)
(* RegistryManagerWindows (systemkit/src/windows/registry_manager_windows  *)
(* .cpp).  One call at a time, as a sequence of registry calls; other      *)
(* processes create and delete keys and values between any two of them.    *)
(* An open handle stands for a key, not for its path: once that key is     *)
(* deleted the handle is dead, whatever is created under the path later.   *)
(*                                                                         *)
(* Data is its length.  The hives and the 32 and 64 bit views are alike.   *)
(***************************************************************************)
EXTENDS Naturals, FiniteSets, Sequences, SequencesExt

CONSTANTS
  Paths,      \* paths of keys below the hive, sequences of names
  Children,   \* names of subkeys, in the order of enumeration
  Valued,     \* the key whose values are modelled
  Entries,    \* what may be stored there: [name, type, len]
  MaxWrites   \* how often others write while one call is under way (a bound)

VARIABLES
  keys,       \* the keys that exist
  list,       \* the values of Valued, in the order of enumeration
  job,        \* the call under way, or the result of the last one
  was,        \* what was so at some time during this call
  changes     \* how often others have written during this call

vars == <<keys, list, job, was, changes>>

Levels(p) == {SubSeq(p, 1, n) : n \in 1..Len(p)}
Below(p) == {q \in keys : IsStrictPrefix(p, q)}
Present(p) == {i \in DOMAIN Children : Append(p, Children[i]) \in keys}
SubKeys(p) ==   \* in order
  [n \in 1..Cardinality(Present(p)) |->
     Children[CHOOSE i \in Present(p) : Cardinality({j \in Present(p) : j <= i}) = n]]
ValueNames == {e.name : e \in Entries}
\* where the value of a name is, if it has one; no two values have the same name
Index(n) == IF \E i \in DOMAIN list : list[i].name = n THEN CHOOSE i \in DOMAIN list : list[i].name = n ELSE 0
Put(e) == IF Index(e.name) = 0 THEN Append(list, e) ELSE [list EXCEPT ![Index(e.name)] = e]
Without(n) == IF Index(n) = 0 THEN list ELSE RemoveAt(list, Index(n))

\* what a reader may find
Facts ==
  {<<"key", p, p \in keys>> : p \in Paths}
    \cup {<<"value", list[i].name, list[i].type, list[i].len>> : i \in DOMAIN list}
    \cup {<<"no value", n>> : n \in {m \in ValueNames : Index(m) = 0}}

Remember == was' = IF was = {} THEN {} ELSE was \cup Facts'

Handle(p) == [path |-> p, alive |-> TRUE]
NoJob == [op |-> "none", at |-> "idle", path |-> Valued, entry |-> [name |-> "none", type |-> "SZ", len |-> 0],
          n |-> 0, open |-> <<>>, out |-> <<>>, said |-> "none"]

\* The keys and values the calls are given: a path names a key and the keys above it.
KeysFit ==
  /\ \A p \in Paths : p \in Seq(STRING) /\ p # <<>> /\ Levels(p) \subseteq Paths
  /\ Valued \in Paths /\ Children \in Seq(STRING)
  /\ Entries # {} /\ Entries \subseteq [name : STRING, type : STRING, len : Nat]
  /\ MaxWrites \in Nat

TypeOK ==
  /\ keys \subseteq Paths /\ \A p \in keys : Levels(p) \subseteq keys
  /\ \A i \in DOMAIN list : list[i] \in Entries
  /\ list # <<>> => Valued \in keys
  /\ job.path \in Paths /\ \A i \in DOMAIN job.open : job.open[i].path \in Paths
  /\ changes \in 0..MaxWrites

Init == keys = {} /\ list = <<>> /\ job = NoJob /\ was = {} /\ changes = 0

----------------------------------------------------------------------------
(* How a call goes on and how it ends *)

Reads == {"exists", "delete", "getSubKeys", "getValueNames", "getItems",
          "getValue", "getValueType", "valueExists"}

Begin(op, p, e, at) ==
  /\ job.at = "idle"
  /\ job' = [NoJob EXCEPT !.op = op, !.path = p, !.entry = e, !.at = at]
  /\ was' = (IF op \in Reads THEN Facts ELSE {}) /\ changes' = 0
  /\ UNCHANGED <<keys, list>>

At(at) == job.at = at
Goto(j) == job' = j /\ UNCHANGED <<keys, list, was, changes>>
Top == Last(job.open)

\* ~RegistryKeyGuard() closes the one handle openKey() gave
Over(said, out) ==
  [NoJob EXCEPT !.said = said, !.out = out,
                !.open = IF job.open = <<>> THEN <<>> ELSE Front(job.open)]
Return(said, out) == Goto(Over(said, out))

\* setBinary() makes one code of all
Throw(code) == Return(IF job.op = "setBinary" THEN "RegistryError" ELSE code, <<>>)

\* handles of deleted keys are dead
Bury(open, gone) ==
  [i \in DOMAIN open |-> IF open[i].path \in gone THEN [open[i] EXCEPT !.alive = FALSE] ELSE open[i]]
Delete(gone) ==
  /\ keys' = keys \ gone
  /\ list' = IF Valued \in gone THEN <<>> ELSE list

\* RegOpenKeyExW() of job.path; access is denied only to what exists
openKey(next) ==
  /\ At("open")
  /\ \/ job.path \notin keys /\ Throw("RegistryKeyNotFound")
     \/ job.path \in keys /\ Throw("RegistryAccessDenied")
     \/ Throw("RegistryOperationFailed")
     \/ job.path \in keys /\ Goto([job EXCEPT !.at = next, !.open = <<Handle(job.path)>>])

----------------------------------------------------------------------------
(* Keys *)

\* denied access is taken for existence
keyExists ==
  /\ At("exists")
  /\ \/ Return(IF job.path \in keys THEN "true" ELSE "false", <<>>)
     \/ Throw("RegistryOperationFailed")

createKey ==
  /\ At("create")
  /\ \/ /\ keys' = keys \cup Levels(job.path)
        /\ job' = Over("ok", <<>>)
        /\ UNCHANGED <<list, was, changes>>
     \/ \E code \in {"RegistryAccessDenied", "RegistryOperationFailed"} : Throw(code)

\* the full path at once, or level by level; what was created stays
autoCreateKey ==
  LET level == SubSeq(job.path, 1, job.n)
      Created(p, at, n) ==
        /\ keys' = keys \cup Levels(p)
        /\ job' = [job EXCEPT !.at = at, !.n = n]
        /\ UNCHANGED <<list, was, changes>>
  IN \/ At("auto") /\ job.n = 0 /\ Created(job.path, "open", 0)
     \/ At("auto") /\ job.n = 0 /\ Goto([job EXCEPT !.n = 1])
     \/ /\ At("auto") /\ job.n > 0
        /\ IF job.n < Len(job.path) THEN Created(level, "auto", job.n + 1) ELSE Created(level, "open", 0)
     \/ /\ At("auto") /\ job.n > 0
        /\ \E code \in {"RegistryAccessDenied", "RegistryCreateFailed"} : Throw(code)

(* deleteKeyRecursively(): job.open is its stack of open keys, job.path the *)
(* key this level deletes.  "result" takes a result to the level above.     *)

Reachable == job.open # <<>> => Top.alive
Result(r) == Goto([job EXCEPT !.at = "result", !.said = r])

deleteKeyOpen ==
  /\ At("delete")
  /\ \/ Reachable /\ job.path \notin keys /\ Result("FILE_NOT_FOUND")
     \/ Result("failed")
     \/ /\ Reachable /\ job.path \in keys
        /\ Goto([job EXCEPT !.at = "first", !.open = Append(@, Handle(job.path))])

\* always the first subkey, since the others move up
deleteKeyEnum ==
  /\ At("first")
  /\ LET subs == Present(job.path)
         closed == [job EXCEPT !.open = Front(@)]
     IN \/ ~Top.alive /\ Goto([closed EXCEPT !.at = "result", !.said = "failed"])
        \/ Top.alive /\ subs = {} /\ Goto([closed EXCEPT !.at = "remove"])
        \/ /\ Top.alive
           /\ \E i \in subs : /\ \A j \in subs : i <= j
                              /\ Goto([job EXCEPT !.at = "delete", !.path = Append(@, Children[i])])

\* a key that has got a new subkey meanwhile is not deleted
deleteKeyRemove ==
  /\ At("remove")
  /\ \/ /\ Reachable /\ job.path \in keys /\ Below(job.path) = {}
        /\ Delete({job.path})
        /\ job' = [job EXCEPT !.at = "result", !.said = "SUCCESS"]
        /\ Remember /\ UNCHANGED changes
     \/ Reachable /\ job.path \notin keys /\ Result("FILE_NOT_FOUND")
     \/ Result("failed")

\* Mutant: no failure of a subkey ends the deletion.
deleteKeyResultGoesOn ==
  /\ At("result")
  /\ IF job.open = <<>>
     THEN Return(IF job.said = "SUCCESS" THEN "ok" ELSE "failed", <<>>)
     ELSE Goto([job EXCEPT !.at = "first", !.path = Top.path])

\* a subkey somebody else has deleted is no failure
deleteKeyResult ==
  /\ At("result")
  /\ IF job.open = <<>>
     THEN Return(CASE job.said = "SUCCESS" -> "ok"
                   [] job.said = "FILE_NOT_FOUND" -> "RegistryKeyNotFound"
                   [] OTHER -> "failed", <<>>)
     ELSE IF job.said \in {"SUCCESS", "FILE_NOT_FOUND"}
          THEN Goto([job EXCEPT !.at = "first", !.path = Top.path])
          ELSE Goto([job EXCEPT !.path = Top.path, !.open = Front(@)])

----------------------------------------------------------------------------
(* Values *)

\* a dead handle refuses everything
Dead(code) == ~Top.alive /\ Throw(code)

valueExists ==
  \/ At("vopen") /\ job.path \notin keys /\ Return("false", <<>>)
  \/ At("vopen") /\ Throw("RegistryOperationFailed")
  \/ At("vopen") /\ job.path \in keys /\ Goto([job EXCEPT !.at = "vquery", !.open = <<Handle(job.path)>>])
  \/ At("vquery") /\ Dead("RegistryOperationFailed")
  \/ At("vquery") /\ Top.alive /\ Return(IF Index(job.entry.name) = 0 THEN "false" ELSE "true", <<>>)

getValueType ==
  \/ job.op = "getValueType" /\ openKey("type")
  \/ At("type") /\ Dead("RegistryOperationFailed")
  \/ /\ At("type") /\ Top.alive
     /\ LET i == Index(job.entry.name) IN
        IF i = 0 THEN Throw("RegistryValueNotFound") ELSE Return("ok", <<list[i].type>>)

\* Mutant: the data is taken to have the size that was told.
NoMoreData(i) == FALSE

\* ERROR_MORE_DATA: the value has grown since its size was told
MoreData(i) == list[i].len > job.n

\* a size first, then the data, whose buffer keeps the first size
getValue ==
  \/ job.op = "getValue" /\ openKey("size")
  \/ At("size") /\ Dead("RegistryOperationFailed")
  \/ /\ At("size") /\ Top.alive
     /\ LET i == Index(job.entry.name) IN
        IF i = 0 THEN Throw("RegistryKeyNotFound") ELSE Goto([job EXCEPT !.at = "data", !.n = list[i].len])
  \/ At("data") /\ Dead("RegistryOperationFailed")
  \/ /\ At("data") /\ Top.alive
     /\ LET i == Index(job.entry.name) IN
        CASE i = 0 -> Throw("RegistryKeyNotFound")
          [] i # 0 /\ MoreData(i) -> Throw("RegistryOperationFailed")
          [] OTHER -> \/ Return("ok", <<list[i].type, list[i].len, job.n>>)
                      \/ list[i].type = "EXPAND_SZ" /\ Goto([job EXCEPT !.at = "expand", !.entry = list[i]])

\* the text expands to some text, or grows between the two calls and stays
expandValue ==
  At("expand") /\ (Return("ok", <<"SZ">>) \/ Return("ok", <<"EXPAND_SZ", job.entry.len, job.n>>))

\* getSubKeys() of a key, getItems() and getValueNames() of its values, by index
Count == IF job.op = "getSubKeys" THEN Len(SubKeys(job.path)) ELSE Len(list)
Nth(i) == IF job.op = "getSubKeys" THEN SubKeys(job.path)[i] ELSE list[i].name

getSubKeys == job.op = "getSubKeys" /\ openKey("enum")
getValueNames == job.op = "getValueNames" /\ (openKey("enum") \/ (At("enum") /\ Throw("RegistryEnumFailed")))
getItems ==
  \/ job.op = "getItems" /\ openKey("count")
  \/ At("count") /\ Dead("RegistryQueryFailed")
  \/ At("count") /\ Top.alive /\ Goto([job EXCEPT !.at = "items", !.entry = [@ EXCEPT !.len = Count]])
  \/ /\ At("items") /\ job.n < job.entry.len \* a failure is skipped
     /\ Goto([job EXCEPT !.n = @ + 1,
                !.out = IF Top.alive /\ job.n < Count THEN Append(@, Nth(job.n + 1)) ELSE @])
  \/ At("items") /\ job.n = job.entry.len /\ Return("ok", job.out)
enumNext ==
  \/ At("enum") /\ Dead("RegistryOperationFailed")
  \/ /\ At("enum") /\ Top.alive
     /\ IF job.n < Count
        THEN Goto([job EXCEPT !.n = @ + 1, !.out = Append(@, Nth(job.n + 1))])
        ELSE Return("ok", job.out)

\* the setters differ in the type they store
Set(op, types, p, e) == e.type \in types /\ Begin(op, p, e, "auto")
setString(p, e) == Set("setString", {"SZ", "EXPAND_SZ"}, p, e)
setDWord(p, e) == Set("setDWord", {"DWORD"}, p, e)
setQWord(p, e) == Set("setQWord", {"QWORD"}, p, e)
setBinary(p, e) == Set("setBinary", {"BINARY"}, p, e)
setMultiString(p, e) == Set("setMultiString", {"MULTI_SZ"}, p, e)
Setters == {"setString", "setDWord", "setQWord", "setBinary", "setMultiString"}

setValue ==
  \/ job.op \in Setters /\ openKey("write")
  \/ At("write") /\ Throw("RegistrySetValueFailed")
  \/ /\ At("write") /\ Top.alive
     /\ list' = Put(job.entry)
     /\ job' = Over("ok", <<>>)
     /\ UNCHANGED <<keys, was, changes>>

deleteValue ==
  \/ job.op = "deleteValue" /\ openKey("unset")
  \/ At("unset") /\ Throw("RegistryOperationFailed")
  \/ /\ At("unset") /\ Top.alive
     /\ list' = Without(job.entry.name)
     /\ job' = Over("ok", <<>>)
     /\ UNCHANGED <<keys, was, changes>>

----------------------------------------------------------------------------
(* Other processes *)

\* between two calls they write as they like, and what was said is forgotten
OtherProcess ==
  /\ \/ \E p \in Paths : keys' = keys \cup Levels(p) /\ UNCHANGED list
     \/ \E p \in keys : Delete({p} \cup Below(p))
     \/ Valued \in keys /\ (\E e \in Entries : list' = Put(e)) /\ UNCHANGED keys
     \/ \E e \in Entries : list' = Without(e.name) /\ UNCHANGED keys
  /\ IF At("idle")
     THEN job' = NoJob /\ was' = {} /\ changes' = 0
     ELSE /\ changes < MaxWrites /\ changes' = changes + 1
          /\ job' = [job EXCEPT !.open = Bury(@, keys \ keys')]
          /\ Remember

AnyEntry == CHOOSE e \in Entries : TRUE

Call ==
  \/ \E p \in Paths, op \in {"exists", "create", "delete"} : Begin(op, p, AnyEntry, op)
  \/ \E p \in Paths \ {Valued} : Begin("getSubKeys", p, AnyEntry, "open")
  \/ \E e \in Entries, op \in {"getValue", "getValueType", "deleteValue"} : Begin(op, Valued, e, "open")
  \/ \E e \in Entries : Begin("valueExists", Valued, e, "vopen")
  \/ \E op \in {"getItems", "getValueNames"} : Begin(op, Valued, AnyEntry, "open")
  \/ \E e \in Entries : setString(Valued, e) \/ setDWord(Valued, e) \/ setQWord(Valued, e)
                        \/ setBinary(Valued, e) \/ setMultiString(Valued, e)

Step ==
  \/ keyExists \/ createKey \/ autoCreateKey
  \/ deleteKeyOpen \/ deleteKeyEnum \/ deleteKeyRemove \/ deleteKeyResult
  \/ valueExists \/ getValueType \/ getValue \/ expandValue
  \/ getSubKeys \/ getValueNames \/ getItems \/ enumNext \/ setValue \/ deleteValue

Next == Call \/ Step \/ OtherProcess

Spec == Init /\ [][Next]_vars

----------------------------------------------------------------------------
\* Every handle is closed when the call is over, those of all levels of
\* deleteKeyRecursively() included.
NothingOpen == At("idle") => job.open = <<>>

\* A call ends although others write: deleteKeyRecursively() tries the first
\* subkey again and again.  (registry_manager_windows.cpp:433-452)
CallsEnd == ~At("idle") ~> At("idle")

There == was \cup Facts
KeyWas(there) == <<"key", job.path, there>> \in There
Was(type, len) == <<"value", job.entry.name, type, len>> \in There
AnyType == {e.type : e \in Entries}
AnyLen == {e.len : e \in Entries}
Names == IF job.op = "getSubKeys" THEN ToSet(SubKeys(job.path)) ELSE {e.name : e \in ToSet(list)}

\* The content read was the value's at some time, with that type; the buffer
\* is longer only if the value has become shorter meanwhile.
ValueWas(out) ==
  IF Len(out) = 1
  THEN \E len \in AnyLen : Was("EXPAND_SZ", len)
  ELSE Was(out[1], out[2]) /\ out[3] >= out[2] /\ (out[3] > out[2] => changes > 0)

\* What a call may say of the registry when it is over.
WasSo(said, out) ==
  CASE job.op = "exists" -> (said = "true" => KeyWas(TRUE)) /\ (said = "false" => KeyWas(FALSE))
    [] job.op = "delete" -> said \in {"ok", "RegistryKeyNotFound"} => KeyWas(FALSE)
    [] job.op = "valueExists" ->
         /\ said = "true" => \E type \in AnyType, len \in AnyLen : Was(type, len)
         /\ said = "false" => <<"no value", job.entry.name>> \in There
    [] job.op = "getValue" -> said = "ok" => ValueWas(out)
    [] job.op = "getValueType" -> said = "ok" => \E len \in AnyLen : Was(out[1], len)
    [] job.op \in {"getSubKeys", "getValueNames", "getItems"} ->
         said = "ok" => changes > 0 \/ ToSet(out) = Names
    [] OTHER -> TRUE

\* What a call says of the registry was so at some time during the call.  Lists
\* are exact if nobody has written meanwhile, and so is the deletion of a key.
\* (registry_manager_windows.cpp:347-379, :418-458, :498-520, :529-789)
ReadStep == ~At("idle") /\ job'.at = "idle" => WasSo(job'.said, job'.out)
ReadsWereThere == [][ReadStep]_vars

=============================================================================
