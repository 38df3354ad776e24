------------------------------ MODULE Firewall ------------------------------
(***************************************************************************)
(* FirewallControllerWindows (systemkit/src/windows/firewall_controller_   *)
(* windows.cpp).  A controller keeps nothing from one call to the next, so *)
(* the policy may be anything when a call begins.  The call goes on one COM*)
(* call at a time; other threads and programs change the policy in between.*)
(*                                                                         *)
(* Of a rule's properties six are kept, in the order they are written: the *)
(* protocol and the direction go like the action, the description, the     *)
(* remote ports and the local addresses like the remote addresses.         *)
(***************************************************************************)
EXTENDS Naturals, FiniteSets, Sequences, SequencesExt

CONSTANTS
  Policies,   \* the rules of the policy when a call begins, in any order
  Stored,     \* the rules that others put there
  Requests,   \* the rules that are added or put in another's place
  Narrow,     \* the names that are the same in UTF-8 and in the ANSI code page
  MaxRules,   \* bound on the rules of the policy when a call begins
  MaxOthers   \* how often others write while one call is under way (a bound)

VARIABLES
  rules,      \* the policy's rules, by an identity no program sees
  profiles,   \* the profiles for which the firewall is enabled
  act,        \* the call under way, or the result of the last one
  before,     \* what the policy was when this call began, and what was enabled at some time
  others      \* how often others have written during this call

vars == <<rules, profiles, act, before, others>>

Fields == <<"name", "applicationPath", "localPorts", "action", "enabled", "remoteAddresses">>
Optional == {"localPorts", "remoteAddresses"}   \* left alone when the request has none
None == ""
Malformed == "malformed"                        \* ports that put_LocalPorts() refuses
Profiles == <<"domain", "private", "public">>

Named(name) == {i \in DOMAIN rules : rules[i].name = name}
With(i, f, value) == [rules EXCEPT ![i] = [@ EXCEPT ![f] = value]]
Without(i) == [j \in DOMAIN rules \ {i} |-> rules[j]]
And(i, r) == [j \in DOMAIN rules \cup {i} |-> IF j = i THEN r ELSE rules[j]]
Fresh == {i \in 1..(MaxRules + 1) : i \notin DOMAIN rules}

Blank == [f \in ToSet(Fields) |-> IF f = "enabled" THEN "yes" ELSE IF f = "action" THEN "allow" ELSE None]
NoAct == [op |-> "none", stack |-> <<>>, at |-> "idle", name |-> None, rule |-> Blank, want |-> {},
          id |-> 0, k |-> 1, todo |-> {}, refs |-> 0, out |-> <<>>, told |-> {}, said |-> "none"]

\* Every rule of the policy has all its properties.
PoliciesFit == Policies \subseteq Seq([ToSet(Fields) -> STRING])

\* The rules that are there, which are as this controller makes them: of a program, with a name.
Complete(r) ==
  /\ DOMAIN r = ToSet(Fields) /\ r.enabled \in {"yes", "no"}
  /\ None \notin {r.name, r.applicationPath} /\ r.localPorts # Malformed

\* So are those that others put there; what is asked for may be incomplete.
RulesFit ==
  /\ \A s \in Policies : Len(s) <= MaxRules /\ \A i \in DOMAIN s : Complete(s[i])
  /\ \A r \in Stored : Complete(r)
  /\ \A r \in Requests : DOMAIN r = ToSet(Fields) /\ r.enabled \in {"yes", "no"}
  /\ MaxRules \in Nat /\ MaxOthers \in Nat

TypeOK ==
  /\ DOMAIN rules \subseteq 1..(MaxRules + 1) /\ \A i \in DOMAIN rules : Complete(rules[i])
  /\ profiles \subseteq ToSet(Profiles) /\ act.told \subseteq ToSet(Profiles)
  /\ act.at = "idle" <=> act.stack = <<>>
  /\ others \in 0..MaxOthers

Init ==
  /\ rules = <<>> /\ profiles = {} /\ act = NoAct /\ others = 0
  /\ before = [rules |-> <<>>, profiles |-> {}, on |-> {}]

----------------------------------------------------------------------------
(* How a call goes on and how it ends *)

At(at) == act.at = at
Fun == Last(act.stack)   \* the function that runs
Goto(a) == act' = a /\ UNCHANGED <<rules, profiles, before, others>>
Write(r, a) == rules' = r /\ act' = a /\ UNCHANGED <<profiles, before, others>>

Over(said) ==
  [NoAct EXCEPT !.op = act.op, !.name = act.name, !.rule = act.rule, !.want = act.want, !.id = act.id,
                !.k = act.k, !.refs = act.refs, !.out = act.out, !.told = act.told, !.said = said]

\* a catch clause that makes one code of all stands in four of the functions
Wraps == {"updateRule", "getRules", "getRule", "getStatus"}
Throw(code) == Goto(Over(IF act.op \in Wraps THEN "FireWallError" ELSE code))

\* back to the function that called this one
Back(a, said) ==
  IF Len(act.stack) = 1 THEN [Over(said) EXCEPT !.refs = a.refs]
  ELSE [a EXCEPT !.stack = Front(@), !.at = "back", !.said = said]

\* access denied, and anything else; file-not-found has a code of its own
checkHResult == \E code \in {"FireWallAccessDenied", "FireWallRuleNotFound", "FireWallError"} : Throw(code)

\* COM, the policy object and its rules; each function gets its own
FirstStep ==
  [addRule |-> "add", updateRule |-> "item", removeRule |-> "remove", ruleExists |-> "item",
   getRules |-> "enum", getRule |-> "enum", getStatus |-> "profile", setStatus |-> "profile"]

ComInitializer == At("policy") /\ Throw("ComInitError")
FirewallPolicyHelper ==
  /\ At("policy")
  /\ \/ Throw("FireWallInitError")
     \/ Fun \notin {"getStatus", "setStatus"} /\ checkHResult   \* get_Rules(), get__NewEnum()
     \/ Goto([act EXCEPT !.at = FirstStep[Fun], !.todo = DOMAIN rules])

----------------------------------------------------------------------------
(* Adding, updating and removing *)

\* the rule that is created has no property but those given, and is enabled
createNetFwRule(r) ==
  [f \in DOMAIN r |-> CASE f = "enabled" -> "yes"
                        [] f \in Optional /\ r[f] = None -> "any"
                        [] OTHER -> r[f]]

\* Mutant: the application's path is not looked at.
InvalidName(r) == r.name = None

\* a rule needs a name and the path of an application
Invalid(r) == None \in {r.name, r.applicationPath}

addRule ==
  /\ At("add")
  /\ IF Invalid(act.rule)
     THEN Throw("InvalidArgument")
     ELSE \/ Throw("FireWallInitFwRuleError")
          \/ Throw("FireWallError")   \* a property that is refused
          \/ checkHResult             \* Add()
          \/ /\ act.rule.localPorts # Malformed
             /\ \E i \in Fresh :
                  Write(And(i, createNetFwRule(act.rule)), [Over("ok") EXCEPT !.id = i])

updateRule ==
  \/ /\ At("validate")
     /\ IF Invalid(act.rule)
        THEN Throw("InvalidArgument")
        ELSE Goto([act EXCEPT !.at = "policy"])
  \* Item() gets the name in UTF-8 as if it were in the ANSI code page
  \/ /\ At("item") /\ Fun = "updateRule"
     /\ \/ /\ act.name \in Narrow
           /\ \E i \in Named(act.name) : Goto([act EXCEPT !.at = "put", !.id = i])
        \/ Goto([act EXCEPT !.stack = Append(@, "removeRule"), !.at = "policy"])
  \/ /\ At("back") /\ Fun = "updateRule"
     /\ Goto([act EXCEPT !.stack = <<"addRule">>, !.at = "policy"])

\* Mutant: what the request leaves empty is written.
GivenAlways(f) == TRUE

\* what the request leaves empty is not written
Given(f) == ~(f \in Optional /\ act.rule[f] = None)

\* one property after the other of a rule that is in force
putRule ==
  LET f == Fields[act.k]
      next == [act EXCEPT !.k = @ + 1]
  IN /\ At("put")
     /\ \/ act.k > Len(Fields) /\ Goto(Over("ok"))
        \/ act.k <= Len(Fields) /\ ~Given(f) /\ Goto(next)
        \/ /\ act.k <= Len(Fields) /\ Given(f)
           /\ \/ checkHResult
              \/ act.id \in DOMAIN rules /\ act.rule[f] # Malformed /\ Write(With(act.id, f, act.rule[f]), next)

\* Remove() takes one rule of that name away, and does not mind if there is none
removeRule ==
  \/ /\ At("remove")
     /\ LET next == [act EXCEPT !.stack = Append(@, "ruleExists"), !.at = "policy"]
        IN \/ checkHResult
           \/ \E i \in Named(act.name) : Write(Without(i), next)
           \/ Named(act.name) = {} /\ Goto(next)
  \/ /\ At("back") /\ Fun = "removeRule"
     /\ IF act.said = "false" THEN Goto(Back(act, "ok"))
        ELSE checkHResult \/ Goto([act EXCEPT !.at = "search", !.todo = DOMAIN rules])

\* The first rule of that name; its reference is never released, nor is that
\* of the rule fetched before the loop ends.
removeFound ==
  /\ At("search")
  /\ \/ act.todo = {} /\ Throw("FireWallRuleNotFound")
     \/ \E i \in act.todo :
          IF i \notin Named(act.name) THEN Goto([act EXCEPT !.todo = @ \ {i}])
          ELSE LET a == [act EXCEPT !.refs = @ + (IF act.todo = {i} THEN 1 ELSE 2)]
               IN \/ \E j \in Named(act.name) : Write(Without(j), Back(a, "ok"))
                  \/ \E code \in {"FireWallAccessDenied", "FireWallError"} :
                       Goto([Over(IF act.op \in Wraps THEN "FireWallError" ELSE code) EXCEPT !.refs = a.refs])

----------------------------------------------------------------------------
(* Reading *)

ruleExists ==
  \/ /\ At("item") /\ Fun = "ruleExists"
     /\ \/ Named(act.name) # {} /\ Goto(Back(act, "true"))
        \/ checkHResult   \* get__NewEnum()
        \/ Goto([act EXCEPT !.at = "look", !.todo = DOMAIN rules])
  \/ At("look") /\ act.todo = {} /\ Goto(Back(act, "false"))
  \/ /\ At("look")   \* the next rule is fetched before the loop ends
     /\ \E i \in act.todo :
          IF i \in Named(act.name)
          THEN Goto(Back([act EXCEPT !.refs = @ + (IF act.todo = {i} THEN 0 ELSE 1)], "true"))
          ELSE Goto([act EXCEPT !.todo = @ \ {i}])

\* the next rule the enumerator gives is converted
Converted(i) ==
  Goto([act EXCEPT !.todo = @ \ {i}, !.at = "convert", !.id = i, !.k = 1, !.rule = Blank])

getRules ==
  \/ At("enum") /\ act.todo = {} /\ Goto(Over("ok"))
  \/ At("enum") /\ Fun = "getRules" /\ \E i \in act.todo : Converted(i)

\* a rule that is gone has no name
getRule ==
  /\ At("enum") /\ Fun = "getRule"
  /\ \E i \in act.todo :
       IF i \in Named(act.name) THEN Converted(i) ELSE Goto([act EXCEPT !.todo = @ \ {i}])

\* property by property; one that cannot be read keeps its default
convertFwRule2Rule ==
  LET f == Fields[act.k] IN
  /\ At("convert")
  /\ IF act.k > Len(Fields) THEN Goto([act EXCEPT !.at = "enum", !.out = Append(@, act.rule)])
     ELSE Goto([act EXCEPT !.k = @ + 1,
                  !.rule = IF act.id \in DOMAIN rules THEN [@ EXCEPT ![f] = rules[act.id][f]] ELSE @])

\* a profile that cannot be read is taken for disabled
getStatus ==
  /\ At("profile") /\ Fun = "getStatus"
  /\ IF act.k > Len(Profiles) THEN Goto(Over("ok"))
     ELSE \/ Goto([act EXCEPT !.k = @ + 1])
          \/ Profiles[act.k] \in profiles
             /\ Goto([act EXCEPT !.k = @ + 1, !.told = @ \cup {Profiles[act.k]}])

setStatus ==
  /\ At("profile") /\ Fun = "setStatus"
  /\ IF act.k > Len(Profiles) THEN Goto(Over("ok"))
     ELSE LET p == Profiles[act.k] IN
          \/ checkHResult
          \/ /\ profiles' = (IF p \in act.want THEN profiles \cup {p} ELSE profiles \ {p})
             /\ act' = [act EXCEPT !.k = @ + 1]
             /\ before' = [before EXCEPT !.on = @ \cup profiles']
             /\ UNCHANGED <<rules, others>>

----------------------------------------------------------------------------
(* Other threads and programs, and the next call *)

OthersWrite ==
  /\ ~At("idle") /\ others < MaxOthers /\ others' = others + 1
  /\ \/ /\ \/ \E i \in Fresh, r \in Stored : rules' = And(i, r)
           \/ \E i \in DOMAIN rules : rules' = Without(i)
           \/ \E i \in DOMAIN rules, r \in Stored, f \in ToSet(Fields) : rules' = With(i, f, r[f])
        /\ UNCHANGED profiles
     \/ \E p \in ToSet(Profiles) :
          profiles' = (IF p \in profiles THEN profiles \ {p} ELSE profiles \cup {p}) /\ UNCHANGED rules
  /\ before' = [before EXCEPT !.on = @ \cup profiles']
  /\ UNCHANGED act

\* rules and profiles have nothing to do with each other
Begin(op, name, r, want, at) ==
  /\ act = NoAct
  /\ IF op \in {"getStatus", "setStatus"}
     THEN rules' = <<>> /\ profiles' \in SUBSET ToSet(Profiles)
     ELSE rules' \in Policies /\ profiles' = {}
  /\ act' = [NoAct EXCEPT !.op = op, !.stack = <<op>>, !.at = at, !.name = name, !.rule = r, !.want = want]
  /\ before' = [rules |-> rules', profiles |-> profiles', on |-> profiles']
  /\ others' = 0

\* what the last call has said is forgotten
Forget ==
  /\ At("idle") /\ act # NoAct
  /\ rules' = <<>> /\ profiles' = {} /\ act' = NoAct /\ others' = 0
  /\ before' = [rules |-> <<>>, profiles |-> {}, on |-> {}]

Asked == {r.name : r \in Stored}

Call ==
  \/ \E r \in Requests : Begin("addRule", r.name, r, {}, "policy")
  \/ \E n \in Asked, r \in Requests : Begin("updateRule", n, r, {}, "validate")
  \/ \E n \in Asked, op \in {"removeRule", "ruleExists", "getRule"} : Begin(op, n, Blank, {}, "policy")
  \/ \E op \in {"getRules", "getStatus"} : Begin(op, None, Blank, {}, "policy")
  \/ \E want \in SUBSET ToSet(Profiles) : Begin("setStatus", None, Blank, want, "policy")

Step ==
  \/ ComInitializer \/ FirewallPolicyHelper
  \/ addRule \/ updateRule \/ putRule \/ removeRule \/ removeFound
  \/ ruleExists \/ getRules \/ getRule \/ convertFwRule2Rule \/ getStatus \/ setStatus

Next == Call \/ Step \/ OthersWrite \/ Forget

Spec == Init /\ [][Next]_vars

----------------------------------------------------------------------------
\* A call that has looked for no name, or has not found it, has released every
\* rule it was handed; no call leaves more than three behind.
\* (firewall_controller_windows.cpp:377-405, :456-478)
RulesReleased ==
  /\ act.refs <= 3
  /\ act.op \in {"addRule", "getRules", "getRule", "getStatus", "setStatus"} => act.refs = 0
  /\ act.op = "ruleExists" /\ act.said = "false" => act.refs = 0

Ended(op) == act.op = op /\ ~At("idle") /\ act'.at = "idle" /\ others = 0
Old == before.rules
OldNamed == {i \in DOMAIN Old : Old[i].name = act.name}
Lost(S) == rules' = [i \in DOMAIN Old \ S |-> Old[i]]

\* what the request says of a property, and what was there where it says nothing
Asks(r, f) == ~(f \in Optional /\ r[f] = None)
Updated(i) == [f \in ToSet(Fields) |-> IF Asks(act.rule, f) THEN act.rule[f] ELSE Old[i][f]]
Elsewhere(i) == \A j \in DOMAIN Old \ {i} : j \in DOMAIN rules' /\ rules'[j] = Old[j]

\* updateRule(), if nobody else writes, changes one rule of that name and no
\* other: it is as requested when the call returns, and as requested up to some
\* property when it fails.  Where it removes and adds instead, at most two
\* rules of that name go, and the new one is there when the call returns.
\* (firewall_controller_windows.cpp:276-281, :283-339)
UpdateInPlace(i) ==
  /\ DOMAIN rules' = DOMAIN Old /\ Elsewhere(i)
  /\ \E n \in 0..Len(Fields) :
       /\ act'.said = "ok" => n = Len(Fields)
       /\ \A k \in DOMAIN Fields :
            rules'[i][Fields[k]] = IF k <= n THEN Updated(i)[Fields[k]] ELSE Old[i][Fields[k]]
UpdateAnew ==
  \E S \in SUBSET OldNamed :
    /\ Cardinality(S) <= 2
    /\ IF act'.said # "ok" THEN Lost(S)
       ELSE rules' = [i \in (DOMAIN Old \ S) \cup {act'.id} |->
                        IF i = act'.id THEN createNetFwRule(act.rule) ELSE Old[i]]

\* removeRule() takes two rules of a name away when there are two, or one, and
\* none of another name.  (firewall_controller_windows.cpp:366-409)
Removed ==
  \E S \in SUBSET OldNamed :
    /\ Cardinality(S) <= 2 /\ Lost(S)
    /\ act'.said = "ok" => (Cardinality(S) = 2 \/ S = OldNamed)

\* setStatus() fails between two profiles and leaves the first ones changed;
\* getStatus() never calls enabled what was disabled all the time.
\* (firewall_controller_windows.cpp:622-688)
StatusSet ==
  \E n \in 0..Len(Profiles) :
    /\ act'.said = "ok" => n = Len(Profiles)
    /\ \A k \in DOMAIN Profiles :
         Profiles[k] \in profiles' <=> Profiles[k] \in (IF k <= n THEN act.want ELSE before.profiles)
StatusTold == act.op = "getStatus" /\ ~At("idle") /\ act'.at = "idle" => act'.told \subseteq before.on

\* What a call may do to the policy if nobody else writes meanwhile.
PolicyStep ==
  /\ Ended("updateRule") => (\E i \in OldNamed : UpdateInPlace(i)) \/ UpdateAnew
  /\ Ended("removeRule") => Removed
  /\ Ended("setStatus") => StatusSet
  /\ Ended("addRule") =>
       IF act'.said # "ok" THEN Lost({})
       ELSE rules' = [i \in DOMAIN Old \cup {act'.id} |->
                        IF i = act'.id THEN createNetFwRule(act.rule) ELSE Old[i]]
PolicyKept == [][PolicyStep]_vars

\* What a call says of the policy was so, if nobody else has written meanwhile.
ReadStep ==
  /\ Ended("ruleExists") => /\ act'.said = "true" => OldNamed # {}
                            /\ act'.said = "false" => OldNamed = {}
  /\ Ended("getRule") /\ act'.said = "ok" =>
       Len(act'.out) = Cardinality(OldNamed) /\ ToSet(act'.out) = {Old[i] : i \in OldNamed}
  /\ Ended("getRules") /\ act'.said = "ok" =>
       Len(act'.out) = Cardinality(DOMAIN Old) /\ ToSet(act'.out) = {Old[i] : i \in DOMAIN Old}
  /\ StatusTold
ReadsWereThere == [][ReadStep]_vars

=============================================================================
